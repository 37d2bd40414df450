----------------------------- MODULE MCHlibFile -----------------------------
(***************************************************************************)
(* Every shape of tree of at most MaxTopics topics, with equal and with    *)
(* different names, with and without text; a file may be cut at the edges  *)
(* of its items and one byte before and after them.  The limits are so low *)
(* that some trees pass them, and the wide ones so far that a part of the  *)
(* image has the size that is left in the header.                          *)
(***************************************************************************)
EXTENDS HlibFile

CONSTANT MaxTopics

\* Ranks of names: alternating, falling, all equal; lengths: some without text.
Keys(n) == {[t \in 1..n |-> t % 2], [t \in 1..n |-> n - t], [t \in 1..n |-> 1]}
Lengths(n) == {[t \in 0..n |-> IF t % 2 = 1 THEN 5 ELSE 0], [t \in 0..n |-> 3 * t]}

\* How deep a topic is below the root, when up[u] is the parent of u
Depths(n, up) ==
  LET depth[u \in 0..n] == IF u = 0 THEN 0 ELSE 1 + depth[up[u]] IN depth

TreesOf(n) ==
  {[kids |-> [t \in 0..n |-> SetToSortSeq({u \in 1..n : up[u] = t},
                                          LAMBDA i, j : i < j)],
    key |-> key, len |-> len, level |-> Depths(n, up)] :
     up \in {f \in [1..n -> 0..(n - 1)] : \A u \in 1..n : f[u] < u},
     key \in Keys(n), len \in Lengths(n)}

\* Two topics over all others, whose records alone are larger than OffsetLimit
WideTrees ==
  LET up == <<0, 0, 1, 1, 2, 2>>
  IN  {[kids |-> [t \in 0..6 |-> SetToSortSeq({u \in 1..6 : up[u] = t},
                                             LAMBDA i, j : i < j)],
        key |-> key, len |-> len, level |-> Depths(6, up)] :
          key \in Keys(6), len \in Lengths(6)}

MCTree == WideTrees \cup UNION {TreesOf(n) : n \in 0..MaxTopics}

MCCuts(image) ==
  LET edges == DOMAIN image.item \cup {image.size, U32(image.size)}
  IN  {n \in UNION {{e - 1, e, e + 1} : e \in edges \ {0}} : n <= image.size}
=============================================================================
