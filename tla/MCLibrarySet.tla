---------------------------- MODULE MCLibrarySet ----------------------------
(***************************************************************************)
(* Three small libraries whose level-1 names clash: AB is in two of them,  *)
(* twice in one; A is a name, an abbreviation of AB and of AA; one name    *)
(* holds a wildcard, and one is empty.                                     *)
(***************************************************************************)
EXTENDS LibrarySet

MCChar == {"A", "B", "a", Star, Percent}
MCUpper == [c \in MCChar |-> IF c = "a" THEN "A" ELSE c]

MCChildren ==
  [n \in {"r1", "r2", "r3", "a", "ab", "ab2", "aa", "aba", "cab", "cb", "cbb",
          "caba", "star", "daa", "starb", "blank"} |->
    CASE n = "r1" -> <<"a", "ab", "ab2">>
      [] n = "a"  -> <<"aa", "aba">>
      [] n = "r2" -> <<"cab", "blank", "cb">>
      [] n = "cab" -> <<"caba">>
      [] n = "cb" -> <<"cbb">>
      [] n = "r3" -> <<"star", "daa">>
      [] n = "star" -> <<"starb">>
      [] OTHER    -> <<>>]

MCNode == DOMAIN MCChildren

MCParent ==
  [n \in MCNode |-> IF \E p \in MCNode : Contains(MCChildren[p], n)
                    THEN CHOOSE p \in MCNode : Contains(MCChildren[p], n)
                    ELSE "none"]

MCName ==
  [n \in MCNode |->
    CASE n \in {"a", "caba"}                -> <<"A">>
      [] n \in {"ab", "ab2", "cab"}         -> <<"A", "B">>
      [] n \in {"aa", "daa"}                -> <<"A", "A">>
      [] n = "aba"                          -> <<"A", "B", "A">>
      [] n \in {"cb", "starb"}              -> <<"B">>
      [] n = "cbb"                          -> <<"B", "B">>
      [] n = "star"                         -> <<"A", Star>>
      [] OTHER                              -> <<>>]

MCLibrary == {"r1", "r2", "r3"}
Word(k) == BoundedSeq(MCChar, k)
Below == {<<"A">>, <<"a", "B">>, <<"B">>, <<Star>>, <<"A", Star>>, <<"A", "A">>}
MCPath == {<<>>} \cup {<<w>> : w \in Word(3)}
            \cup {<<v, w>> : v \in Word(2), w \in Below}
=============================================================================
