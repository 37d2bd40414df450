----------------------------- MODULE MCNavigator -----------------------------
(***************************************************************************)
(* A library with a topic that has the name of its parent, two topics of   *)
(* one name on one level and a topic whose name is a pattern.              *)
(***************************************************************************)
EXTENDS Navigator

MCChar == {"A", "B", "a", "?", Star, Percent}
MCUpper == [c \in MCChar |-> IF c = "a" THEN "A" ELSE c]

MCChildren ==
  [n \in {"r", "a", "ab", "b", "aa", "aab", "aab2", "aaa", "star"} |->
    CASE n = "r"     -> <<"a", "ab", "b">>
      [] n = "a"     -> <<"aa", "aab", "aab2">>
      [] n = "aa"    -> <<"aaa">>
      [] n = "b"     -> <<"star">>
      [] OTHER       -> <<>>]

MCNode == DOMAIN MCChildren
MCParent ==
  [n \in MCNode |-> IF \E p \in MCNode : Contains(MCChildren[p], n)
                    THEN CHOOSE p \in MCNode : Contains(MCChildren[p], n)
                    ELSE "none"]

MCName ==
  [n \in MCNode |->
    CASE n \in {"a", "aa"}                    -> <<"A">>
      [] n \in {"ab", "aab", "aab2"}          -> <<"A", "B">>
      [] n \in {"b", "aaa"}                   -> <<"B">>
      [] n = "star"                           -> <<"B", Star>>
      [] OTHER                                -> <<>>]

\* Breadth-first numbering of each file, 96 bytes to a record after the header
MCOffset ==
  [n \in MCNode |->
    CASE n = "r"    -> 64
      [] n = "a"    -> 160
      [] n = "aa"   -> 256
      [] n = "aaa"  -> 352
      [] n = "aab"  -> 448
      [] n = "aab2" -> 544
      [] n = "ab"   -> 640
      [] n = "b"    -> 736
      [] n = "star" -> 832]

MCLine == BoundedSeq(MCChar, 2)
=============================================================================
