------------------------------ MODULE MCSession ------------------------------
(***************************************************************************)
(* Two libraries that share a level-1 name, twins on a lower level, names  *)
(* that abbreviate one another, one of them with a wildcard; man pages    *)
(* for a word no library has and for one a library has.                   *)
(***************************************************************************)
EXTENDS Session

MCChar == {"A", "B", "C", "a", "c", "?", Star}
MCUpper == [c \in MCChar |-> CASE c = "a" -> "A" [] c = "c" -> "C" [] OTHER -> c]

MCChildren ==
  [n \in {"r1", "a", "ab", "aab", "aab2", "aa", "aaa", "r2", "ab_", "b", "bb",
          "bad"} |->
    CASE n = "r1" -> <<"a", "ab">>
      [] n = "a"  -> <<"aa", "aab", "aab2">>
      [] n = "aa" -> <<"aaa">>
      [] n = "r2" -> <<"ab_", "b">>
      [] n = "b"  -> <<"bb">>
      [] OTHER    -> <<>>]

MCNode == DOMAIN MCChildren
MCParent ==
  [n \in MCNode |-> IF \E p \in MCNode : Contains(MCChildren[p], n)
                    THEN CHOOSE p \in MCNode : Contains(MCChildren[p], n)
                    ELSE "none"]

MCName ==
  [n \in MCNode |->
    CASE n \in {"a", "aa"}                      -> <<"A">>
      [] n \in {"ab", "aab", "aab2", "ab_"}     -> <<"A", "B">>
      [] n \in {"b", "aaa"}                     -> <<"B">>
      [] n = "bb"                               -> <<"B", Star>>
      [] OTHER                                  -> <<>>]

Word == {<<"A">>, <<"a">>, <<"A", "B">>, <<"B">>, <<"c">>, <<Star>>}
MCLine == Word \cup {<<>>, QuestionMark}
MCManPage == {<<"c">>, <<"a">>}
MCInstalled == <<"bad", "r1", "r2">>

Topics == {<<>>, <<<<"A">>>>, <<<<"A", "A">>>>, <<<<"B">>, <<"B">>>>,
           <<<<"A">>, <<"A">>, <<"B">>>>, <<<<"c">>>>, <<<<"A">>, <<"C">>>>, <<<<Star>>>>}

CommandLines(topics, libraries, env) ==
  [topics : topics, mode : MatchMode, tty : BOOLEAN, no_prompt : BOOLEAN,
   no_pager : BOOLEAN, output : {"stdout", "file", "uncreatable"},
   libraries : libraries, env : env]

Interactive(c) == c.tty /\ ~ c.no_prompt /\ c.output = "stdout"
MCCli == {c \in CommandLines(Topics, {<<>>, <<"r1">>, <<"r2", "bad">>},
                             {<<>>, <<"r2">>, <<"bad">>}) :
            /\ c.libraries # <<>> => c.env = <<>>
            /\ Interactive(c) => c.libraries = <<>> /\ c.env = <<>>}
\* On a terminal
TtyCli == {c \in CommandLines(Topics, {<<"r1", "r2">>}, {<<>>}) :
             c.tty /\ c.output = "stdout"}
=============================================================================
