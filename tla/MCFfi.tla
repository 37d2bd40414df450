-------------------------------- MODULE MCFfi -------------------------------
(***************************************************************************)
(* Two threads, and two files that different sources may be built into, so *)
(* that two libraries may be open and one handle be used for either; A     *)
(* abbreviates two names and equals none, so that the mode decides whether *)
(* it is ambiguous or not found.                                           *)
(* Threads, libraries and files are interchangeable.                       *)
(***************************************************************************)
EXTENDS Ffi, TLC

Symmetry == Permutations(Thread) \cup Permutations(Lib) \cup Permutations(File)

MCChar == {"A", "B", "C", "?", Star}
MCUpper == [c \in MCChar |-> c]

MCChildren ==
  [n \in {"r1", "ab", "ac", "b", "r2"} |->
    CASE n = "r1" -> <<"ab", "ac">>
      [] n = "ab" -> <<"b">>
      [] OTHER    -> <<>>]
MCNode == DOMAIN MCChildren
MCParent ==
  [n \in MCNode |-> CASE n \in {"ab", "ac"} -> "r1" [] n = "b" -> "ab"
                      [] OTHER -> "none"]
MCName ==
  [n \in MCNode |-> CASE n = "ab" -> <<"A", "B">> [] n = "ac" -> <<"A", "C">>
                      [] n = "b" -> <<"B">> [] OTHER -> <<>>]

MCPath == {<<>>, <<<<"A">>>>}
MCLine == {<<>>, <<"?">>, <<"A">>, <<"A", "B">>, <<"B">>, <<Star>>}
=============================================================================
