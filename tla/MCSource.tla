------------------------------ MODULE MCSource ------------------------------
(***************************************************************************)
(* Two files of together at most five lines, three levels, a name in two   *)
(* spellings and one that is too long.                                     *)
(***************************************************************************)
EXTENDS Source

MCName == {"a", "A", "long"}
MCUpper == [n \in MCName |-> IF n = "a" THEN "A" ELSE n]
=============================================================================
