--------------------------- MODULE BuildingProofs ---------------------------
(***************************************************************************)
(* What holds of a file that several builds write and others read, for any *)
(* number of builds and readers and whatever the sources hold: it stays    *)
(* below its readers until a build has read its inputs, one build alone    *)
(* shows readers whole libraries only, and builds that agree and succeed   *)
(* leave what they were asked for.                                         *)
(***************************************************************************)
EXTENDS Building, Integers, SequenceTheorems, FiniteSetTheorems, WellFoundedInduction, TLAPS
-----------------------------------------------------------------------------
(***************************************************************************)
(* Induction, and concatenation                                            *)
(***************************************************************************)

\* A set that holds 0 and with every number the next one holds all of them.
LEMMA InductionOnNat ==
  ASSUME NEW S, 0 \in S, \A k \in Nat : k \in S => k + 1 \in S
  PROVE  Nat \subseteq S
<1> DEFINE out == Nat \ S
           R == OpToRel(<, Nat)
<1> SUFFICES ASSUME out # {} PROVE FALSE
  OBVIOUS
<1>1. IsWellFoundedOn(R, Nat)
  BY NatLessThanWellFounded
<1>2. \E m \in out : \A y \in out : ~ (<<y, m>> \in R)
  <2>1. out \in SUBSET Nat
    OBVIOUS
  <2> HIDE DEF out, R
  <2> QED
    BY <1>1, <2>1, WFMin
<1>3. PICK m \in Nat : m \notin S /\ \A y \in Nat : y \notin S => ~ (y < m)
  BY <1>2 DEF OpToRel
<1>4. m # 0 /\ m - 1 \in Nat /\ m - 1 < m /\ (m - 1) + 1 = m
  BY <1>3
<1> QED
  BY <1>3, <1>4

\* What FlattenSeq has put together after each of the first n sequences
UpTo(f, ss, n) ==
  f = [i \in 1..n |-> IF i = 1 THEN ss[i] ELSE f[i - 1] \o ss[i]]

\* Such a function exists: one for the first n sequences can be continued.
LEMMA UpToExists ==
  ASSUME NEW S, NEW ss \in Seq(S)
  PROVE  \E f : UpTo(f, ss, Len(ss))
<1> DEFINE T == {n \in Nat : \E f : UpTo(f, ss, n)}
<1>1. 0 \in T
  <2>1. 1..0 = {}
    OBVIOUS
  <2> DEFINE none == [i \in {} |-> <<>>]
  <2>2. none = [i \in 1..0 |-> IF i = 1 THEN ss[i] ELSE none[i - 1] \o ss[i]]
    BY <2>1
  <2>3. UpTo(none, ss, 0)
    BY <2>2 DEF UpTo
  <2> QED
    BY <2>3
<1>2. ASSUME NEW n \in Nat, n \in T PROVE n + 1 \in T
  <2>1. PICK f : UpTo(f, ss, n)
    BY <1>2
  <2>2. \A i \in 1..n : f[i] = IF i = 1 THEN ss[i] ELSE f[i - 1] \o ss[i]
    BY <2>1 DEF UpTo
  <2> DEFINE last == IF n + 1 = 1 THEN ss[n + 1] ELSE f[n] \o ss[n + 1]
             g == [i \in 1..(n + 1) |-> IF i = n + 1 THEN last ELSE f[i]]
  <2>3. ASSUME NEW i \in 1..(n + 1)
        PROVE  g[i] = IF i = 1 THEN ss[i] ELSE g[i - 1] \o ss[i]
    <3>1. CASE i = n + 1
      <4>1. i # 1 => i - 1 = n /\ g[n] = f[n]
        BY <3>1
      <4>2. g[i] = last
        BY <3>1
      <4> QED
        BY <3>1, <4>1, <4>2
    <3>2. CASE i # n + 1
      <4>1. i \in 1..n /\ (i # 1 => i - 1 \in 1..(n + 1) /\ i - 1 # n + 1)
        BY <3>2
      <4>2. g[i] = f[i] /\ (i # 1 => g[i - 1] = f[i - 1])
        BY <3>2, <4>1
      <4> QED
        BY <2>2, <4>1, <4>2
    <3> QED
      BY <3>1, <3>2
  <2>4. g = [i \in 1..(n + 1) |-> IF i = 1 THEN ss[i] ELSE g[i - 1] \o ss[i]]
    <3>1. g = [i \in 1..(n + 1) |-> g[i]]
      OBVIOUS
    <3> HIDE DEF g
    <3> QED
      BY <2>3, <3>1
  <2> HIDE DEF g, last
  <2>5. UpTo(g, ss, n + 1)
    BY <2>4 DEF UpTo
  <2> QED
    BY <2>5
<1> HIDE DEF T
<1>3. Nat \subseteq T
  BY <1>1, <1>2, InductionOnNat
<1>4. Len(ss) \in T
  BY <1>3
<1> QED
  BY <1>4 DEF T

\* Where the entries of a concatenation come from: the first n sequences are
\* gone through in order, and none of their entries is lost.
Origins(origin, flat, ss, n) ==
  /\ origin \in [1..Len(flat) -> 1..n]
  /\ \A i, j \in 1..Len(flat) : i <= j => origin[i] <= origin[j]
  /\ \A i \in 1..Len(flat) : flat[i] \in ToSet(ss[origin[i]])
  /\ \A k \in 1..n : \A x \in ToSet(ss[k]) :
       \E i \in 1..Len(flat) : origin[i] = k /\ flat[i] = x

\* One sequence more
LEMMA OriginsGoOn ==
  ASSUME NEW S, NEW ss \in Seq(Seq(S)), NEW n \in Nat, n + 1 <= Len(ss),
         NEW flat \in Seq(S), \E origin : Origins(origin, flat, ss, n)
  PROVE  /\ flat \o ss[n + 1] \in Seq(S)
         /\ \E origin : Origins(origin, flat \o ss[n + 1], ss, n + 1)
<1> DEFINE t == ss[n + 1]
           more == flat \o t
           m == Len(flat)
<1>1. t \in Seq(S) /\ m \in Nat /\ Len(t) \in Nat
  OBVIOUS
<1>2. /\ more \in Seq(S) /\ Len(more) = m + Len(t)
      /\ \A i \in 1..m : more[i] = flat[i]
      /\ \A i \in 1..Len(t) : more[m + i] = t[i]
  BY <1>1
<1>3. PICK origin : Origins(origin, flat, ss, n)
  OBVIOUS
<1>4. DOMAIN t = 1..Len(t) /\ \A x : x \in ToSet(t) <=> \E i \in 1..Len(t) : x = t[i]
  BY <1>1 DEF ToSet
<1> HIDE DEF t, more, m
<1> DEFINE longer == [i \in 1..Len(more) |-> IF i <= m THEN origin[i] ELSE n + 1]
<1>5. /\ origin \in [1..m -> 1..n]
      /\ \A i, j \in 1..m : i <= j => origin[i] <= origin[j]
      /\ \A i \in 1..m : flat[i] \in ToSet(ss[origin[i]])
      /\ \A k \in 1..n : \A x \in ToSet(ss[k]) :
           \E i \in 1..m : origin[i] = k /\ flat[i] = x
  BY <1>3 DEF Origins, m
<1>6. /\ \A i \in 1..m : i \in 1..Len(more) /\ longer[i] = origin[i]
      /\ \A i \in 1..Len(t) : m + i \in 1..Len(more) /\ longer[m + i] = n + 1
      /\ \A i \in 1..Len(more) : i \in 1..m \/ (i - m \in 1..Len(t) /\ m + (i - m) = i)
  <2>1. \A i \in 1..m : i \in 1..Len(more) /\ longer[i] = origin[i]
    BY <1>1, <1>2
  <2>2. \A i \in 1..Len(t) : m + i \in 1..Len(more) /\ longer[m + i] = n + 1
    BY <1>1, <1>2
  <2>3. \A i \in 1..Len(more) : i \in 1..m \/ (i - m \in 1..Len(t) /\ m + (i - m) = i)
    BY <1>1, <1>2
  <2> QED
    BY <2>1, <2>2, <2>3
<1>7. longer \in [1..Len(more) -> 1..(n + 1)]
  <2>1. ASSUME NEW i \in 1..Len(more)
        PROVE  (IF i <= m THEN origin[i] ELSE n + 1) \in 1..(n + 1)
    <3>1. CASE i <= m
      <4>1. i \in 1..m
        BY <3>1, <1>1
      <4>2. origin[i] \in 1..n
        BY <1>5, <4>1
      <4> QED
        BY <3>1, <4>2
    <3>2. CASE ~ (i <= m)
      BY <3>2
    <3> QED
      BY <3>1, <3>2
  <2> QED
    BY <2>1
<1>8. ASSUME NEW i \in 1..Len(more), NEW j \in 1..Len(more), i <= j
      PROVE  longer[i] <= longer[j]
  <2>1. CASE j \in 1..m
    <3>1. i \in 1..m
      BY <1>1, <1>8, <2>1
    <3> QED
      BY <1>5, <1>6, <1>8, <2>1, <3>1
  <2>2. CASE j - m \in 1..Len(t) /\ m + (j - m) = j
    <3>1. longer[j] = n + 1
      BY <1>6, <2>2
    <3>2. longer[i] \in 1..(n + 1)
      BY <1>7
    <3> HIDE DEF longer
    <3> QED
      BY <3>1, <3>2
  <2> QED
    BY <1>6, <2>1, <2>2
<1>9. ASSUME NEW i \in 1..Len(more) PROVE more[i] \in ToSet(ss[longer[i]])
  <2>1. CASE i \in 1..m
    BY <1>2, <1>5, <1>6, <2>1
  <2>2. CASE i - m \in 1..Len(t) /\ m + (i - m) = i
    <3>1. more[i] = t[i - m]
      BY <1>2, <2>2
    <3>2. longer[i] = n + 1
      BY <1>6, <2>2
    <3> HIDE DEF longer
    <3> QED
      BY <1>4, <2>2, <3>1, <3>2 DEF t
  <2> QED
    BY <1>6, <2>1, <2>2
<1>10. ASSUME NEW k \in 1..(n + 1), NEW x \in ToSet(ss[k])
       PROVE  \E i \in 1..Len(more) : longer[i] = k /\ more[i] = x
  <2>1. CASE k \in 1..n
    <3>1. PICK i \in 1..m : origin[i] = k /\ flat[i] = x
      BY <1>5, <2>1
    <3> QED
      BY <1>2, <1>6, <3>1
  <2>2. CASE k = n + 1
    <3>1. PICK i \in 1..Len(t) : x = t[i]
      BY <1>4, <2>2 DEF t
    <3>2. m + i \in 1..Len(more) /\ longer[m + i] = k /\ more[m + i] = x
      BY <1>2, <1>6, <2>2, <3>1
    <3> QED
      BY <3>2
  <2> QED
    BY <2>1, <2>2
<1> HIDE DEF longer
<1>11. Origins(longer, more, ss, n + 1)
  BY <1>7, <1>8, <1>9, <1>10 DEF Origins
<1> QED
  BY <1>2, <1>11 DEF more, t

\* The entries of a concatenation are those of its sequences, in their order.
LEMMA FlattenSeqOrigins ==
  ASSUME NEW S, NEW ss \in Seq(Seq(S))
  PROVE  /\ FlattenSeq(ss) \in Seq(S)
         /\ \E origin : Origins(origin, FlattenSeq(ss), ss, Len(ss))
<1> DEFINE f == CHOOSE g : UpTo(g, ss, Len(ss))
           T == {n \in Nat : n + 1 <= Len(ss) =>
                   /\ f[n + 1] \in Seq(S)
                   /\ \E origin : Origins(origin, f[n + 1], ss, n + 1)}
<1>1. Len(ss) \in Nat /\ ss \in Seq(Seq(S))
  OBVIOUS
<1>2. \A i \in 1..Len(ss) : f[i] = IF i = 1 THEN ss[i] ELSE f[i - 1] \o ss[i]
  <2>1. UpTo(f, ss, Len(ss))
    BY UpToExists
  <2> HIDE DEF f
  <2> QED
    BY <2>1 DEF UpTo
<1> HIDE DEF f
<1>3. <<>> \in Seq(S) /\ \E origin : Origins(origin, <<>>, ss, 0)
  <2>1. 1..Len(<<>>) = {} /\ 1..0 = {} /\ <<>> \in Seq(S)
    OBVIOUS
  <2>2. Origins([i \in {} |-> 0], <<>>, ss, 0)
    BY <2>1 DEF Origins
  <2> QED
    BY <2>1, <2>2
<1>4. 0 \in T
  <2> SUFFICES ASSUME 0 + 1 <= Len(ss)
               PROVE  /\ f[0 + 1] \in Seq(S)
                      /\ \E origin : Origins(origin, f[0 + 1], ss, 0 + 1)
    OBVIOUS
  <2>1. 1 \in 1..Len(ss) /\ 0 + 1 = 1
    BY <1>1
  <2>2. f[0 + 1] = <<>> \o ss[0 + 1]
    <3>1. f[1] = ss[1] /\ ss[1] \in Seq(S)
      BY <1>1, <1>2, <2>1
    <3> QED
      BY <2>1, <3>1
  <2> QED
    BY <1>3, <2>2, OriginsGoOn
<1>5. ASSUME NEW n \in Nat, n \in T PROVE n + 1 \in T
  <2> SUFFICES ASSUME (n + 1) + 1 <= Len(ss)
               PROVE  /\ f[(n + 1) + 1] \in Seq(S)
                      /\ \E origin : Origins(origin, f[(n + 1) + 1], ss, (n + 1) + 1)
    OBVIOUS
  <2>1. f[n + 1] \in Seq(S) /\ \E origin : Origins(origin, f[n + 1], ss, n + 1)
    BY <1>1, <1>5
  <2>2. (n + 1) + 1 \in 1..Len(ss) /\ (n + 1) + 1 # 1 /\ ((n + 1) + 1) - 1 = n + 1
    BY <1>1
  <2>3. f[(n + 1) + 1] = f[n + 1] \o ss[(n + 1) + 1]
    BY <1>2, <2>2
  <2> QED
    BY <2>1, <2>3, OriginsGoOn
<1>6. Nat \subseteq T
  <2> HIDE DEF T
  <2> QED
    BY <1>4, <1>5, InductionOnNat
<1>7. CASE Len(ss) = 0
  <2>1. FlattenSeq(ss) = <<>>
    BY <1>7 DEF FlattenSeq
  <2> QED
    BY <1>3, <1>7, <2>1
<1>8. CASE Len(ss) # 0
  <2>1. FlattenSeq(ss) = f[Len(ss)]
    BY <1>8 DEF FlattenSeq, UpTo, f
  <2>2. PICK k \in Nat : k + 1 = Len(ss)
    <3>1. Len(ss) - 1 \in Nat /\ (Len(ss) - 1) + 1 = Len(ss)
      BY <1>1, <1>8
    <3> QED
      BY <3>1
  <2>3. k + 1 <= Len(ss) /\ k \in T
    BY <1>6, <2>2
  <2>4. f[k + 1] \in Seq(S) /\ \E origin : Origins(origin, f[k + 1], ss, k + 1)
    BY <2>3
  <2> QED
    BY <2>1, <2>2, <2>4
<1> QED
  BY <1>7, <1>8

\* Filtering keeps what is at the indices that pass.
LEMMA FilteredMembers ==
  ASSUME NEW S, NEW list \in Seq(S), NEW passing \in SUBSET DOMAIN list
  PROVE  /\ Filtered(list, passing) \in Seq(S)
         /\ ToSet(Filtered(list, passing)) = {list[k] : k \in passing}
<1> DEFINE pieces == [k \in DOMAIN list |-> IF k \in passing THEN <<list[k]>> ELSE <<>>]
           flat == Filtered(list, passing)
<1>1. DOMAIN list = 1..Len(list) /\ Len(list) \in Nat
  OBVIOUS
<1>2. \A k \in 1..Len(list) :
        /\ pieces[k] \in Seq(S)
        /\ ToSet(pieces[k]) = IF k \in passing THEN {list[k]} ELSE {}
  BY <1>1 DEF ToSet
<1>3. pieces = [k \in 1..Len(list) |-> pieces[k]]
  BY <1>1
<1>4. flat = FlattenSeq(pieces)
  BY DEF Filtered
<1> HIDE DEF pieces, flat
<1>5. pieces \in Seq(Seq(S)) /\ Len(pieces) = Len(list)
  BY <1>1, <1>2, <1>3
<1>6. flat \in Seq(S) /\ \E origin : Origins(origin, flat, pieces, Len(list))
  BY <1>4, <1>5, FlattenSeqOrigins
<1>7. PICK origin : Origins(origin, flat, pieces, Len(list))
  BY <1>6
<1>8. DOMAIN flat = 1..Len(flat)
  BY <1>6
<1>9. ASSUME NEW i \in DOMAIN flat PROVE \E k \in passing : flat[i] = list[k]
  <2>1. origin[i] \in 1..Len(list) /\ flat[i] \in ToSet(pieces[origin[i]])
    BY <1>7, <1>8 DEF Origins
  <2> QED
    BY <1>2, <2>1
<1>10. ASSUME NEW k \in passing PROVE \E i \in DOMAIN flat : flat[i] = list[k]
  <2>1. k \in 1..Len(list) /\ list[k] \in ToSet(pieces[k])
    BY <1>1, <1>2
  <2> QED
    BY <1>7, <1>8, <2>1 DEF Origins
<1>11. ToSet(flat) = {list[k] : k \in passing}
  BY <1>9, <1>10 DEF ToSet
<1> QED
  BY <1>6, <1>11 DEF flat

\* Of finitely many indices one is the last.
LEMMA LastIndex ==
  ASSUME NEW n \in Nat, NEW D \in SUBSET (1..n), D # {}
  PROVE  \E i \in D : \A j \in D : j <= i
<1> DEFINE T == {k \in Nat : \A E \in SUBSET (1..k) :
                    E # {} => \E i \in E : \A j \in E : j <= i}
<1>1. 0 \in T
  <2>1. \A E \in SUBSET (1..0) : E = {}
    OBVIOUS
  <2> QED
    BY <2>1
<1>2. ASSUME NEW k \in Nat, k \in T PROVE k + 1 \in T
  <2> SUFFICES ASSUME NEW E \in SUBSET (1..(k + 1)), E # {}
               PROVE  \E i \in E : \A j \in E : j <= i
    OBVIOUS
  <2>1. CASE k + 1 \in E
    BY <2>1
  <2>2. CASE k + 1 \notin E
    <3>1. E \in SUBSET (1..k)
      BY <2>2
    <3> QED
      BY <1>2, <3>1
  <2> QED
    BY <2>1, <2>2
<1> HIDE DEF T
<1>3. Nat \subseteq T
  BY <1>1, <1>2, InductionOnNat
<1>4. n \in T
  BY <1>3
<1> QED
  BY <1>4 DEF T
-----------------------------------------------------------------------------
(***************************************************************************)
(* What merge() makes of the inputs of a command is what was asked for     *)
(***************************************************************************)

\* What comes out is a list of topics.
LEMMA MergedIsTree ==
  ASSUME NEW trees \in Seq(Seq(Topic))
  PROVE  Merged(trees) \in Seq(Topic)
<1> DEFINE list == FlattenSeq(trees)
           passing == {i \in DOMAIN list :
                         \A j \in DOMAIN list : Name[list[j]] = Name[list[i]] => j <= i}
<1>1. list \in Seq(Topic)
  BY FlattenSeqOrigins
<1>2. Merged(trees) = Filtered(list, passing)
  BY DEF Merged, LastOfEachName
<1>3. passing \in SUBSET DOMAIN list
  OBVIOUS
<1> HIDE DEF list, passing
<1> QED
  BY <1>1, <1>2, <1>3, FilteredMembers

\* The inputs of a command that have been parsed, up to the last of these trees
Parses(trees, inputs) ==
  /\ trees \in Seq(Seq(Topic)) /\ Len(trees) <= Len(inputs)
  /\ \A k \in DOMAIN trees : trees[k] = Parsed[inputs[k]]

\* All definitions of the inputs, each with the number of its input
Defs(c) == UNION {{<<k, t>> : t \in ToSet(Parsed[c.inputs[k]])} : k \in DOMAIN c.inputs}

\* The last definition of a name in the list of all topics is the one of the
\* last input that has one: an input has only one.
LEMMA MergedIsWanted ==
  ASSUME NEW c \in Command, NEW trees, Parses(trees, c.inputs), Len(trees) = Len(c.inputs)
  PROVE  Merged(trees) \in Seq(Topic) /\ ToSet(Merged(trees)) = Wanted(c)
<1> DEFINE list == FlattenSeq(trees)
           n == Len(trees)
           passing == {i \in DOMAIN list :
                         \A j \in DOMAIN list : Name[list[j]] = Name[list[i]] => j <= i}
<1>1. /\ trees \in Seq(Seq(Topic)) /\ n \in Nat /\ c.inputs \in Seq(Source)
      /\ DOMAIN trees = 1..n /\ DOMAIN c.inputs = 1..n
      /\ \A k \in 1..n : /\ trees[k] = Parsed[c.inputs[k]] /\ trees[k] \in Seq(Topic)
                         /\ c.inputs[k] \in Source
  BY BuildingAssumption DEF Parses
<1>2. list \in Seq(Topic) /\ \E origin : Origins(origin, list, trees, n)
  BY <1>1, FlattenSeqOrigins
<1>3. PICK origin : Origins(origin, list, trees, n)
  BY <1>2
<1>4. Merged(trees) = Filtered(list, passing)
  BY DEF Merged, LastOfEachName
<1> HIDE DEF list, n
<1>5. passing \in SUBSET DOMAIN list
  OBVIOUS
<1>6. /\ Merged(trees) \in Seq(Topic)
      /\ ToSet(Merged(trees)) = {list[i] : i \in passing}
  <2> HIDE DEF passing
  <2> QED
    BY <1>2, <1>4, <1>5, FilteredMembers
<1>7. DOMAIN list = 1..Len(list) /\ Len(list) \in Nat
  BY <1>2
<1>8. /\ \A i \in DOMAIN list : origin[i] \in 1..n /\ list[i] \in ToSet(trees[origin[i]])
      /\ \A i, j \in DOMAIN list : i <= j => origin[i] <= origin[j]
      /\ \A k \in 1..n : \A x \in ToSet(trees[k]) :
           \E i \in DOMAIN list : origin[i] = k /\ list[i] = x
  <2> HIDE DEF passing
  <2>1. /\ origin \in [1..Len(list) -> 1..n]
        /\ \A i, j \in 1..Len(list) : i <= j => origin[i] <= origin[j]
        /\ \A i \in 1..Len(list) : list[i] \in ToSet(trees[origin[i]])
        /\ \A k \in 1..n : \A x \in ToSet(trees[k]) :
             \E i \in 1..Len(list) : origin[i] = k /\ list[i] = x
    BY <1>3 DEF Origins
  <2>2. \A i \in 1..Len(list) : origin[i] \in 1..n
    BY <2>1
  <2>3. \A i : i \in DOMAIN list <=> i \in 1..Len(list)
    BY <1>7
  <2>4. \A i \in DOMAIN list : origin[i] \in 1..n /\ list[i] \in ToSet(trees[origin[i]])
    BY <2>1, <2>2, <2>3
  <2>5. \A i, j \in DOMAIN list : i <= j => origin[i] <= origin[j]
    BY <2>1, <2>3
  <2>6. \A k \in 1..n : \A x \in ToSet(trees[k]) :
          \E i \in DOMAIN list : origin[i] = k /\ list[i] = x
    BY <2>1, <2>3
  <2> QED
    BY <2>4, <2>5, <2>6
<1>9. \A k, t : <<k, t>> \in Defs(c) <=> k \in 1..n /\ t \in ToSet(trees[k])
  BY <1>1 DEF Defs
<1>10. \A d \in Defs(c) : \E k \in 1..n : \E t \in ToSet(trees[k]) : d = <<k, t>>
  BY <1>1 DEF Defs
<1>11. ASSUME NEW k \in 1..n, NEW t \in ToSet(trees[k]), NEW u \in ToSet(trees[k]),
              Name[t] = Name[u]
       PROVE  t = u
  <2>1. PICK i \in DOMAIN trees[k] : t = trees[k][i]
    BY DEF ToSet
  <2>2. PICK j \in DOMAIN trees[k] : u = trees[k][j]
    BY DEF ToSet
  <2>3. Parsed[c.inputs[k]] # Unreadable /\ c.inputs[k] \in Source
    BY <1>1, BuildingAssumption
  <2>4. i = j
    BY <1>1, <1>11, <2>1, <2>2, <2>3, BuildingAssumption
  <2> QED
    BY <2>1, <2>2, <2>4
<1>12. Wanted(c) = {d[2] : d \in {e \in Defs(c) :
                      \A f \in Defs(c) : Name[f[2]] = Name[e[2]] => f[1] <= e[1]}}
  BY DEF Wanted, Defs
<1>13. ASSUME NEW i \in passing PROVE list[i] \in Wanted(c)
  <2> DEFINE e == <<origin[i], list[i]>>
  <2>1. i \in DOMAIN list /\ \A j \in DOMAIN list : Name[list[j]] = Name[list[i]] => j <= i
    OBVIOUS
  <2>2. e \in Defs(c)
    BY <1>8, <1>9, <2>1
  <2>3. ASSUME NEW f \in Defs(c), Name[f[2]] = Name[e[2]] PROVE f[1] <= e[1]
    <3>1. PICK k \in 1..n : \E t \in ToSet(trees[k]) : f = <<k, t>>
      BY <1>10
    <3>4. PICK t \in ToSet(trees[k]) : f = <<k, t>>
      BY <3>1
    <3>2. PICK j \in DOMAIN list : origin[j] = k /\ list[j] = t
      BY <1>8
    <3>3. j <= i
      BY <2>1, <2>3, <3>4, <3>2
    <3> QED
      BY <1>8, <2>1, <3>4, <3>2, <3>3
  <2>4. e[2] = list[i]
    OBVIOUS
  <2> HIDE DEF e
  <2> QED
    BY <1>12, <2>2, <2>3, <2>4
<1>14. ASSUME NEW t \in Wanted(c) PROVE \E i \in passing : list[i] = t
  <2>1. PICK e \in Defs(c) : /\ t = e[2]
                             /\ \A f \in Defs(c) : Name[f[2]] = Name[e[2]] => f[1] <= e[1]
    BY <1>12
  <2>2. PICK k \in 1..n : t \in ToSet(trees[k]) /\ e = <<k, t>>
    BY <1>10, <2>1
  <2>3. PICK h \in DOMAIN list : origin[h] = k /\ list[h] = t
    BY <1>8, <2>2
  <2> DEFINE D == {j \in DOMAIN list : Name[list[j]] = Name[t]}
  <2>4. PICK i \in D : \A j \in D : j <= i
    <3>1. D \in SUBSET (1..Len(list)) /\ D # {}
      BY <1>7, <2>3
    <3> HIDE DEF D
    <3> QED
      BY <1>7, <3>1, LastIndex
  <2>5. i \in DOMAIN list /\ Name[list[i]] = Name[t] /\ h <= i
    BY <2>3, <2>4
  <2>6. i \in passing
    BY <2>4, <2>5
  <2>7. <<origin[i], list[i]>> \in Defs(c)
    BY <1>8, <1>9, <2>5
  <2>8. origin[i] <= k
    BY <2>1, <2>2, <2>5, <2>7
  <2>9. k <= origin[i]
    BY <1>8, <2>3, <2>5
  <2>10. origin[i] = k
    BY <1>8, <2>5, <2>8, <2>9
  <2>11. list[i] = t
    BY <1>8, <1>11, <2>2, <2>5, <2>10
  <2> QED
    BY <2>6, <2>11
<1> HIDE DEF passing
<1> QED
  BY <1>6, <1>13, <1>14
-----------------------------------------------------------------------------
(***************************************************************************)
(* A library below its reader                                              *)
(***************************************************************************)

\* Builds that have read all their inputs, or will never read them
Past == {b \in Build : run[b].state \notin {"waiting", "reading"}}

RunOK ==
  run \in [Build -> [state : {"waiting", "reading", "writing"} \cup Ended,
                     cmd : Command \cup {NoCommand}, trees : Seq(Seq(Topic)),
                     tree : Seq(Topic), written : Nat]]

\* Files and maps are functions; what is in them does not matter here.
Shape ==
  /\ file = [o \in Output |-> file[o]]
  /\ authors = [o \in Output |-> authors[o]]
  /\ map = [r \in Reader |-> map[r]]

\* A build is an author, now or in the memory of a reader, only when it is past
\* its inputs, so that a build that creates a file is always a new author.
AuthorsPast ==
  /\ \A o \in Output : authors[o] \subseteq Past
  /\ \A r \in Reader : map[r] # NoMap => map[r].path \in Output /\ map[r].by \subseteq Past

\* Where the authors are those the reader found, nobody is writing either.
Kept(r) ==
  map[r] # NoMap /\ map[r].settled /\ authors[map[r].path] = map[r].by
    => file[map[r].path] = map[r].was /\ Writing(map[r].path) = {}

IInv == RunOK /\ Shape /\ AuthorsPast /\ \A r \in Reader : Kept(r)
-----------------------------------------------------------------------------
\* At first nobody has read, written or opened anything.
LEMMA InitInvariant == Init => IInv
<1> SUFFICES ASSUME Init PROVE IInv
  OBVIOUS
<1>1. RunOK
  BY DEF Init, RunOK, Waiting, New
<1>2. Shape
  BY DEF Init, Shape
<1>3. AuthorsPast
  BY DEF Init, AuthorsPast
<1>4. \A r \in Reader : Kept(r)
  BY DEF Init, Kept
<1> QED
  BY <1>1, <1>2, <1>3, <1>4 DEF IInv

\* Steps that only change the state of a build that has a place in the order of
\* states: it goes on from waiting or reading, or ends.
Onward(b) ==
  /\ RunOK' /\ UNCHANGED <<file, authors, map>>
  /\ \A c \in Build \ {b} : run'[c] = run[c]
  /\ b \in Past => b \in Past'
  /\ run'[b].state = "writing" => run[b].state = "writing" /\ run'[b].cmd = run[b].cmd

\* Such a step makes no build a writer, and no author less of one.
LEMMA OnwardKeeps ==
  ASSUME IInv, NEW b \in Build, Onward(b) PROVE IInv'
<1>1. RunOK' /\ Shape'
  BY DEF IInv, Onward, Shape
<1>2. Past \subseteq Past'
  BY DEF Onward, Past
<1>3. AuthorsPast'
  BY <1>2 DEF IInv, Onward, AuthorsPast
<1>4. \A o : Writing(o)' \subseteq Writing(o)
  BY DEF Onward, Writing, Target
<1>5. ASSUME NEW r \in Reader PROVE Kept(r)'
  BY <1>4 DEF IInv, Kept, Onward
<1> QED
  BY <1>1, <1>3, <1>5 DEF IInv

\* A command is taken up, or refused at once.
LEMMA BeginOnward ==
  ASSUME IInv, BuildingAssumption, NEW b \in Build, NEW c \in Command, Begin(b, c)
  PROVE  Onward(b)
<1> DEFINE state == IF IsUsageError(c) THEN "Usage" ELSE "reading"
           begun == [state |-> state, cmd |-> c, trees |-> <<>>,
                     tree |-> <<>>, written |-> 0]
<1>2. run[b].state = "waiting" /\ run' = [run EXCEPT ![b] = begun]
  BY DEF Begin, Waiting, New
<1>3. UNCHANGED <<file, authors, map>>
  BY DEF Begin
<1>4. state \in {"Usage", "reading"} /\ state # "writing"
  OBVIOUS
<1>5. <<>> \in Seq(Seq(Topic))
  OBVIOUS
<1>6. begun \in [state : {"waiting", "reading", "writing"} \cup Ended,
                cmd : Command \cup {NoCommand}, trees : Seq(Seq(Topic)),
                tree : Seq(Topic), written : Nat]
  BY <1>4, <1>5 DEF Ended
<1>7. RunOK'
  BY <1>2, <1>6 DEF IInv, RunOK
<1>8. /\ \A d \in Build \ {b} : run'[d] = run[d]
      /\ run'[b] = begun
  BY <1>2 DEF IInv, RunOK
<1>9. b \notin Past /\ run'[b].state # "writing"
  BY <1>2, <1>4, <1>8 DEF Past
<1> QED
  BY <1>3, <1>7, <1>8, <1>9 DEF Onward

\* A build that ends, with its file as it is
LEMMA EndsOnward ==
  ASSUME IInv, NEW b \in Build, NEW state \in Ended, run[b].state # "waiting",
         Becomes(b, state), UNCHANGED <<file, authors, map>>
  PROVE  Onward(b)
<1>1. RunOK'
  BY DEF IInv, RunOK, Becomes
<1>2. /\ \A d \in Build \ {b} : run'[d] = run[d]
      /\ run'[b].state = state
  BY DEF IInv, RunOK, Becomes
<1> QED
  BY <1>1, <1>2 DEF Onward, Past, Ended

\* One more input is read, or the build ends at it.
LEMMA ReadInputOnward ==
  ASSUME IInv, BuildingAssumption, NEW b \in Build, ReadInput(b)
  PROVE  Onward(b)
<1> DEFINE inputs == run[b].cmd.inputs
           k == Len(run[b].trees) + 1
<1>1. run[b].state = "reading" /\ k <= Len(inputs) /\ run[b].trees \in Seq(Seq(Topic))
  BY DEF IInv, RunOK, ReadInput
<1>2. UNCHANGED <<file, authors, map>>
  BY DEF ReadInput
<1>3. CASE Parsed[inputs[k]] = Unreadable
  <2>1. Becomes(b, "ParseError") /\ "ParseError" \in Ended
    BY <1>3 DEF ReadInput, Ended
  <2> QED
    BY <1>1, <1>2, <2>1, EndsOnward
<1>4. CASE Parsed[inputs[k]] # Unreadable
  <2>1. run' = [run EXCEPT ![b].trees = Append(@, Parsed[inputs[k]])]
    BY <1>4 DEF ReadInput
  <2>2. Parsed[inputs[k]] \in Seq(Topic)
    <3>1. run[b].cmd \in Command \cup {NoCommand}
      BY DEF IInv, RunOK
    <3>2. inputs \in Seq(Source)
      <4>1. CASE run[b].cmd \in Command
        BY <4>1 DEF BuildingAssumption
      <4>2. CASE run[b].cmd = NoCommand
        BY <4>2 DEF NoCommand
      <4> QED
        BY <3>1, <4>1, <4>2
    <3>3. k \in DOMAIN inputs /\ inputs[k] \in Source
      <4>1. Len(run[b].trees) \in Nat
        BY <1>1
      <4> HIDE DEF inputs
      <4>2. k \in 1..Len(inputs)
        BY <1>1, <3>2, <4>1
      <4> HIDE DEF k
      <4> QED
        BY <3>2, <4>2
    <3> QED
      BY <1>4, <3>3 DEF BuildingAssumption
  <2>3. Append(run[b].trees, Parsed[inputs[k]]) \in Seq(Seq(Topic))
    BY <1>1, <2>2
  <2>4. RunOK'
    BY <2>1, <2>3 DEF IInv, RunOK
  <2>5. /\ \A d \in Build \ {b} : run'[d] = run[d]
        /\ run'[b].state = run[b].state
    BY <2>1 DEF IInv, RunOK
  <2> QED
    BY <1>1, <1>2, <2>4, <2>5 DEF Onward, Past
<1> QED
  BY <1>3, <1>4

\* A build writes only into the file it is writing, which is then not Kept.
LEMMA WritingKeeps ==
  ASSUME IInv, NEW b \in Build, run[b].state = "writing", RunOK',
         run'[b].state \in {"writing", "Io"}, run'[b].cmd = run[b].cmd,
         \A d \in Build \ {b} : run'[d] = run[d],
         file' = [o \in Output |-> file'[o]],
         \A o \in Output \ {Target(b)} : file'[o] = file[o],
         UNCHANGED <<authors, map>>
  PROVE  IInv'
<1>1. Shape'
  BY DEF IInv, Shape
<1>2. Past \subseteq Past'
  BY DEF Past
<1>3. AuthorsPast'
  BY <1>2 DEF IInv, AuthorsPast
<1>4. \A o : Writing(o)' \subseteq Writing(o)
  BY DEF Writing, Target
<1>5. b \in Writing(Target(b))
  BY DEF Writing
<1>6. ASSUME NEW r \in Reader PROVE Kept(r)'
  <2> SUFFICES ASSUME map[r] # NoMap, map[r].settled, authors[map[r].path] = map[r].by
               PROVE  file'[map[r].path] = map[r].was /\ Writing(map[r].path)' = {}
    BY DEF Kept
  <2>1. file[map[r].path] = map[r].was /\ Writing(map[r].path) = {}
    BY DEF IInv, Kept
  <2>2. map[r].path \in Output \ {Target(b)}
    BY <1>5, <2>1 DEF IInv, AuthorsPast
  <2> QED
    BY <1>4, <2>1, <2>2
<1> QED
  BY <1>1, <1>3, <1>6 DEF IInv

\* A build that creates a file is a new author of it: no reader keeps that one.
LEMMA CreateKeeps ==
  ASSUME IInv, NEW b \in Build, Create(b) PROVE IInv'
<1> DEFINE o == Target(b)
           tree == Merged(run[b].trees)
           state == IF tree = <<>> THEN "EmptyTree" ELSE "writing"
<1>1. run[b].state = "reading" /\ state \in {"EmptyTree", "writing"}
  BY DEF Create, AllRead
<1>2. /\ file' = [file EXCEPT ![o] = <<>>]
      /\ authors' = [authors EXCEPT ![o] = IF Writing(o) = {} THEN {b} ELSE @ \cup {b}]
      /\ run' = [run EXCEPT ![b].tree = tree, ![b].state = state] /\ map' = map
  BY DEF Create
<1>3. RunOK'
  <2>1. tree \in Seq(Topic)
    BY MergedIsTree DEF IInv, RunOK
  <2> HIDE DEF tree, state
  <2> DEFINE new == [run[b] EXCEPT !.tree = tree, !.state = state]
  <2>2. run' = [run EXCEPT ![b] = new]
    BY <1>2
  <2>3. state \in {"waiting", "reading", "writing"} \cup Ended
    BY <1>1 DEF Ended
  <2>4. new \in [state : {"waiting", "reading", "writing"} \cup Ended,
                cmd : Command \cup {NoCommand}, trees : Seq(Seq(Topic)),
                tree : Seq(Topic), written : Nat]
    BY <2>1, <2>3 DEF IInv, RunOK
  <2> HIDE DEF new
  <2> QED
    BY <2>2, <2>4 DEF IInv, RunOK
<1>4. /\ \A d \in Build \ {b} : run'[d] = run[d]
      /\ run'[b].state = state /\ run'[b].cmd = run[b].cmd
  BY <1>2 DEF IInv, RunOK
<1>5. Past' = Past \cup {b} /\ b \notin Past
  BY <1>1, <1>4 DEF Past
<1>6. Shape'
  BY <1>2 DEF IInv, Shape
<1>7. /\ \A p \in Output \ {o} : file'[p] = file[p] /\ authors'[p] = authors[p]
      /\ o \in Output => b \in authors'[o] /\ authors'[o] \subseteq authors[o] \cup {b}
  BY <1>2 DEF IInv, Shape
<1>8. AuthorsPast'
  BY <1>2, <1>5, <1>7 DEF IInv, AuthorsPast
<1>9. \A p : p # o => Writing(p)' \subseteq Writing(p)
  BY <1>4 DEF Writing, Target
<1>10. ASSUME NEW r \in Reader PROVE Kept(r)'
  <2> SUFFICES ASSUME map[r] # NoMap, map[r].settled, authors'[map[r].path] = map[r].by
               PROVE  file'[map[r].path] = map[r].was /\ Writing(map[r].path)' = {}
    BY <1>2 DEF Kept
  <2>1. map[r].path \in Output /\ b \notin map[r].by
    BY <1>5 DEF IInv, AuthorsPast
  <2>2. map[r].path # o
    BY <1>7, <2>1
  <2>3. file[map[r].path] = map[r].was /\ Writing(map[r].path) = {}
    BY <1>7, <2>1, <2>2 DEF IInv, Kept
  <2> QED
    <3> HIDE DEF o
    <3>1. map[r].path \in Output \ {o} /\ map' = map
      BY <1>2, <2>1, <2>2
    <3>2. file'[map[r].path] = map[r].was
      BY <1>7, <2>3, <3>1
    <3>3. Writing(map[r].path)' = {}
      BY <1>9, <2>2, <2>3, <3>1
    <3> QED
      BY <3>2, <3>3
<1> QED
  BY <1>3, <1>6, <1>8, <1>10 DEF IInv

\* A block that gets out, or not, changes no other file.
LEMMA WriteKeeps ==
  ASSUME IInv, NEW b \in Build, Write(b) \/ WriteFails(b) PROVE IInv'
<1> DEFINE block == Overlay(file[Target(b)], NextAt(b), Image(Tree(b))[NextAt(b)])
<1>1. run[b].state = "writing" /\ UNCHANGED <<authors, map>>
  BY DEF Write, WriteFails, Remaining
<1>2. Written(b) = [file EXCEPT ![Target(b)] = block]
  BY DEF Written
<1>3. file' = [o \in Output |-> file'[o]] /\ \A o \in Output \ {Target(b)} : file'[o] = file[o]
  <2>1. file' \in {file, [file EXCEPT ![Target(b)] = block]}
    BY <1>2 DEF Write, WriteFails
  <2> HIDE DEF block
  <2> QED
    BY <2>1 DEF IInv, Shape
<1>4. /\ RunOK' /\ run'[b].state \in {"writing", "Io"} /\ run'[b].cmd = run[b].cmd
      /\ \A d \in Build \ {b} : run'[d] = run[d]
  <2>1. CASE Write(b)
    <3>1. run' = [run EXCEPT ![b].written = @ + 1]
      BY <2>1 DEF Write
    <3>2. run[b].written + 1 \in Nat
      BY DEF IInv, RunOK
    <3>3. RunOK'
      BY <3>1, <3>2 DEF IInv, RunOK
    <3>4. /\ run'[b].state = run[b].state /\ run'[b].cmd = run[b].cmd
          /\ \A d \in Build \ {b} : run'[d] = run[d]
      BY <3>1 DEF IInv, RunOK
    <3> QED
      BY <1>1, <3>3, <3>4
  <2>2. CASE WriteFails(b)
    <3>1. run' = [run EXCEPT ![b].state = "Io"]
      BY <2>2 DEF WriteFails, Becomes
    <3> QED
      BY <3>1 DEF IInv, RunOK, Ended
  <2> QED
    BY <2>1, <2>2
<1> QED
  BY <1>1, <1>3, <1>4, WritingKeeps

\* What is opened is kept from then on, if nobody was writing it.
LEMMA OpenKeeps ==
  ASSUME IInv, NEW q \in Reader, NEW o \in Output, Open(q, o) PROVE IInv'
<1> DEFINE new == [path |-> o, was |-> file[o], by |-> authors[o],
                   settled |-> Writing(o) = {}]
<1>1. map' = [map EXCEPT ![q] = new] /\ UNCHANGED <<file, run, authors>>
  BY DEF Open
<1>2. /\ RunOK' /\ Shape' /\ Past' = Past /\ \A p : Writing(p)' = Writing(p)
      /\ map'[q] = new /\ \A r \in Reader \ {q} : map'[r] = map[r]
  BY <1>1 DEF IInv, RunOK, Shape, Past, Writing, Target
<1>3. AuthorsPast'
  BY <1>1, <1>2 DEF IInv, AuthorsPast
<1>4. Kept(q)'
  <2>1. new.path = o /\ new.was = file[o] /\ (new.settled <=> Writing(o) = {})
    OBVIOUS
  <2> HIDE DEF new
  <2>2. /\ map'[q].path = o /\ map'[q].was = file'[o]
        /\ map'[q].settled => Writing(o)' = {}
    BY <1>1, <1>2, <2>1
  <2> SUFFICES ASSUME map'[q].settled
               PROVE  file'[map'[q].path] = map'[q].was /\ Writing(map[q].path)' = {}
    BY DEF Kept
  <2>3. file'[map'[q].path] = map'[q].was
    BY <2>2
  <2>4. Writing(map[q].path)' = {}
    BY <2>2 DEF Writing
  <2> QED
    BY <2>3, <2>4
<1>5. ASSUME NEW r \in Reader \ {q} PROVE Kept(r)'
  BY <1>1, <1>2 DEF IInv, Kept
<1> QED
  BY <1>2, <1>3, <1>4, <1>5 DEF IInv

\* A reader that closes keeps nothing.
LEMMA CloseKeeps ==
  ASSUME IInv, NEW q \in Reader, Close(q) PROVE IInv'
<1>1. map' = [map EXCEPT ![q] = NoMap] /\ UNCHANGED <<file, run, authors>>
  BY DEF Close
<1>2. /\ RunOK' /\ Shape' /\ Past' = Past /\ \A p : Writing(p)' = Writing(p)
      /\ map'[q] = NoMap /\ \A r \in Reader \ {q} : map'[r] = map[r]
  BY <1>1 DEF IInv, RunOK, Shape, Past, Writing, Target
<1>3. AuthorsPast'
  BY <1>1, <1>2 DEF IInv, AuthorsPast
<1>4. ASSUME NEW r \in Reader PROVE Kept(r)'
  BY <1>1, <1>2 DEF IInv, Kept
<1> QED
  BY <1>2, <1>3, <1>4 DEF IInv

\* Every step keeps the invariant.
LEMMA NextKeeps == IInv /\ [Next]_vars => IInv'
<1> SUFFICES ASSUME IInv, [Next]_vars PROVE IInv'
  OBVIOUS
<1>1. CASE UNCHANGED vars
  BY <1>1 DEF vars, IInv, RunOK, Shape, AuthorsPast, Past, Kept, Writing, Target
<1>2. ASSUME NEW b \in Build, NEW c \in Command, Begin(b, c) PROVE IInv'
  BY <1>2, BeginOnward, OnwardKeeps, BuildingAssumption
<1>3. ASSUME NEW b \in Build, ReadInput(b) PROVE IInv'
  BY <1>3, ReadInputOnward, OnwardKeeps, BuildingAssumption
<1>4. ASSUME NEW b \in Build, Create(b) PROVE IInv'
  BY <1>4, CreateKeeps
<1>5. ASSUME NEW b \in Build, Write(b) \/ WriteFails(b) PROVE IInv'
  BY <1>5, WriteKeeps
<1>6. ASSUME NEW b \in Build, Finish(b) PROVE IInv'
  BY <1>6, EndsOnward, OnwardKeeps DEF Finish, Ended
<1>7. ASSUME NEW b \in Build, CreateFails(b) PROVE IInv'
  BY <1>7, EndsOnward, OnwardKeeps DEF CreateFails, AllRead, Ended
<1>8. ASSUME NEW b \in Build, Killed(b) PROVE IInv'
  BY <1>8, EndsOnward, OnwardKeeps DEF Killed, Ended
<1>9. ASSUME NEW r \in Reader, Close(r) \/ \E o \in Output : Open(r, o) PROVE IInv'
  BY <1>9, CloseKeeps, OpenKeeps
<1> QED
  BY <1>1, <1>2, <1>3, <1>4, <1>5, <1>6, <1>7, <1>8, <1>9 DEF Next, Step

\* A library that a reader opened while nobody was writing it is the same below
\* the reader as long as no other build has read all its inputs and emptied the
\* file: run_build(), dechlp_build() and build() create nothing before that.
THEOREM ReadersKeep == Spec => []ReadersKeepTheirLibrary
<1>1. Init => IInv
  BY InitInvariant
<1>2. IInv /\ [Next]_vars => IInv'
  BY NextKeeps
<1>3. IInv => ReadersKeepTheirLibrary
  BY DEF IInv, Kept, ReadersKeepTheirLibrary
<1> QED
  BY <1>1, <1>2, <1>3, PTL DEF Spec
-----------------------------------------------------------------------------
(***************************************************************************)
(* What is in a file while builds write it                                 *)
(***************************************************************************)

FilesOK ==
  /\ file \in [Output -> Seq(AnyBlock)]
  /\ authors \in [Output -> SUBSET Build]
  /\ map \in [Reader -> [path : Output, was : Seq(AnyBlock), by : SUBSET Build,
                         settled : BOOLEAN] \cup {NoMap}]

\* What a build has in hand at each stage: the inputs parsed so far; then all of
\* them, merged, and no more written than that makes; at last all of it.
Sound(b) ==
  /\ run[b].state # "waiting" => run[b].cmd \in Command
  /\ Parses(run[b].trees, run[b].cmd.inputs)
  /\ run[b].state \in {"waiting", "reading"} => run[b].written = 0
  /\ run[b].state \in {"writing", "Ok"} =>
       /\ Len(run[b].trees) = Len(run[b].cmd.inputs)
       /\ Tree(b) = Merged(run[b].trees) /\ Tree(b) # <<>>
       /\ run[b].written <= Len(Tree(b)) + 1
  /\ run[b].state = "Ok" => run[b].written = Len(Tree(b)) + 1

\* Who writes a file is an author of it, and of no other file.
Authored ==
  /\ \A b \in Build : run[b].state = "writing" => b \in authors[Target(b)]
  /\ \A o \in Output : \A b \in authors[o] : Target(b) = o

\* A file has a beginning of an image, or parts of one with holes, or all of it
\* up to its n-th block.
BeginOf(blocks, tree) ==
  /\ Len(blocks) <= Len(tree) + 1
  /\ \A i \in 1..Len(blocks) : blocks[i] = Block(tree, i - 1)
PatchOf(blocks, tree) ==
  /\ Len(blocks) <= Len(tree) + 1
  /\ \A i \in 1..Len(blocks) : blocks[i] \in {Block(tree, i - 1), Hole}
Reaches(blocks, tree, n) ==
  /\ n <= Len(blocks)
  /\ \A i \in 1..n : blocks[i] = Block(tree, i - 1)

\* A file with one author holds a beginning of what that one writes, up to where
\* it has come; a file without is as it was at first.
OneAuthor(o) ==
  /\ authors[o] = {} => file[o] \in {<<>>, Image(Old)}
  /\ \A b \in Build : authors[o] = {b} =>
       /\ BeginOf(file[o], Tree(b))
       /\ run[b].state = "writing" => Len(file[o]) = run[b].written

\* Where all authors are writing, or are done with, the same, nothing else gets
\* into the file, and one of them finds all it has written: the one that emptied
\* the file last.
Agree(o, a) == \A b \in authors[o] : run[b].state \in {"writing", "Ok"} /\ Tree(b) = Tree(a)
Agreed(o) ==
  \A a \in authors[o] : Agree(o, a) =>
    /\ PatchOf(file[o], Tree(a))
    /\ \E c \in authors[o] : Reaches(file[o], Tree(a), run[c].written)

\* Readers have found whole libraries.
MapWhole(r) ==
  map[r] # NoMap /\ Cardinality(map[r].by) <= 1 => IsWhole(map[r].was)

WInv ==
  /\ FilesOK /\ Authored
  /\ \A b \in Build : Sound(b)
  /\ \A o \in Output : OneAuthor(o) /\ Agreed(o)
  /\ \A r \in Reader : MapWhole(r)

\* write() at one place of a file
LEMMA OverlayIs ==
  ASSUME NEW blocks \in Seq(AnyBlock), NEW n \in Nat, NEW block \in AnyBlock
  PROVE  LET more == Overlay(blocks, n + 1, block)
         IN  /\ more \in Seq(AnyBlock)
             /\ Len(more) = IF Len(blocks) <= n THEN n + 1 ELSE Len(blocks)
             /\ \A i \in 1..Len(more) :
                  more[i] = IF i = n + 1 THEN block
                            ELSE IF i <= Len(blocks) THEN blocks[i] ELSE Hole
<1> DEFINE more == Overlay(blocks, n + 1, block)
<1>1. PICK m \in Nat : m = IF Len(blocks) <= n THEN n + 1 ELSE Len(blocks)
  OBVIOUS
<1>2. Max({Len(blocks), n + 1}) = m
  <2>1. Len(blocks) \in Nat
    OBVIOUS
  <2>2. m \in {Len(blocks), n + 1} /\ \A x \in {Len(blocks), n + 1} : m >= x
    BY <1>1, <2>1
  <2>3. \A x \in {Len(blocks), n + 1} :
          (\A y \in {Len(blocks), n + 1} : x >= y) => x = m
    BY <1>1, <2>1
  <2> QED
    BY <2>2, <2>3 DEF Max
<1>3. more = [i \in 1..m |-> IF i = n + 1 THEN block
                             ELSE IF i <= Len(blocks) THEN blocks[i] ELSE Hole]
  BY <1>2 DEF Overlay
<1>4. Hole \in AnyBlock
  BY DEF Hole, AnyBlock, Block
<1>5. ASSUME NEW i \in 1..m
      PROVE  (IF i = n + 1 THEN block
              ELSE IF i <= Len(blocks) THEN blocks[i] ELSE Hole) \in AnyBlock
  <2>1. i <= Len(blocks) => blocks[i] \in AnyBlock
    OBVIOUS
  <2> QED
    BY <1>4, <2>1
<1> HIDE DEF more
<1>6. more \in Seq(AnyBlock) /\ Len(more) = m
  BY <1>3, <1>5
<1> QED
  BY <1>1, <1>3, <1>6 DEF more

\* The blocks of an image
LEMMA ImageIs ==
  ASSUME NEW tree \in Seq(Topic)
  PROVE  /\ Image(tree) \in Seq(AnyBlock) /\ Len(Image(tree)) = Len(tree) + 1
         /\ \A i \in 1..(Len(tree) + 1) :
              /\ Image(tree)[i] = Block(tree, i - 1) /\ Block(tree, i - 1) \in AnyBlock
              /\ Block(tree, i - 1).of = tree /\ Block(tree, i - 1).part = i - 1
<1>1. Len(tree) \in Nat
  OBVIOUS
<1>2. \A i \in 1..(Len(tree) + 1) : i - 1 \in Nat
  BY <1>1
<1>3. \A k \in Nat : /\ Block(tree, k) \in AnyBlock
                     /\ Block(tree, k).of = tree /\ Block(tree, k).part = k
  BY DEF Block, AnyBlock
<1>4. Image(tree) = [i \in 1..(Len(tree) + 1) |-> Block(tree, i - 1)]
  BY DEF Image
<1>5. Image(tree) \in Seq(AnyBlock) /\ Len(Image(tree)) = Len(tree) + 1
  BY <1>1, <1>2, <1>3, <1>4
<1> QED
  BY <1>2, <1>3, <1>4, <1>5

\* A file that is a beginning of an image and opens is the image.
LEMMA OpensWhole ==
  ASSUME NEW blocks \in Seq(AnyBlock), NEW tree \in Seq(Topic),
         BeginOf(blocks, tree), Opens(blocks)
  PROVE  IsWhole(blocks)
<1>1. Len(blocks) \in Nat /\ Len(blocks) # 0 /\ Len(tree) \in Nat
  BY DEF Opens
<1>2. blocks[1].of = tree
  <2>1. 1 \in 1..Len(blocks) /\ 1 \in 1..(Len(tree) + 1)
    BY <1>1
  <2>2. blocks[1] = Block(tree, 1 - 1)
    BY <2>1 DEF BeginOf
  <2> QED
    BY <2>1, <2>2, ImageIs
<1>3. Len(blocks) = Len(tree) + 1
  BY <1>2 DEF Opens
<1>4. \A i \in 1..Len(blocks) : blocks[i] = Image(tree)[i]
  BY <1>3, ImageIs DEF BeginOf
<1>5. blocks = Image(tree)
  BY <1>3, <1>4, ImageIs
<1> QED
  BY <1>2, <1>5 DEF IsWhole

\* What a build does on its own: it takes the command, reads, or ends.
Quiet(b) ==
  /\ UNCHANGED <<file, authors, map>>
  /\ \A d \in Build \ {b} : run'[d] = run[d]
  /\ \/ /\ run[b].state \in {"waiting", "reading"}
        /\ run'[b].state \notin {"writing", "Ok"}
     \/ /\ run[b].state = "writing" /\ run'[b].state \in {"Ok", "killed"}
        /\ run'[b].cmd = run[b].cmd /\ run'[b].tree = run[b].tree
        /\ run'[b].written = run[b].written

LEMMA QuietKeeps ==
  ASSUME IInv, WInv, NEW b \in Build, Quiet(b), Sound(b)'
  PROVE  WInv'
<1>1. FilesOK'
  BY DEF WInv, FilesOK, Quiet
<1>2. ASSUME NEW d \in Build PROVE Sound(d)'
  <2>1. CASE d = b
    BY <2>1
  <2>2. CASE d # b
    BY <2>2 DEF WInv, Sound, Quiet, Tree
  <2> QED
    BY <2>1, <2>2
<1>3. ASSUME NEW o \in Output, NEW d \in authors[o]
      PROVE  /\ Target(d)' = Target(d) /\ Tree(d)' = Tree(d)
             /\ run'[d].written = run[d].written
             /\ run'[d].state = "writing" => run[d].state = "writing"
             /\ run'[d].state \in {"writing", "Ok"} => run[d].state \in {"writing", "Ok"}
  <2>1. d \in Build /\ run[d].state \notin {"waiting", "reading"}
    BY DEF IInv, AuthorsPast, Past
  <2> QED
    BY <2>1 DEF Quiet, Target, Tree
<1>4. Authored'
  <2>1. ASSUME NEW d \in Build, run'[d].state = "writing" PROVE d \in authors'[Target(d)']
    <3>1. run[d].state = "writing" /\ run'[d].cmd = run[d].cmd
      BY <2>1 DEF Quiet
    <3> QED
      BY <3>1 DEF WInv, Authored, Quiet, Target
  <2>2. ASSUME NEW o \in Output, NEW d \in authors'[o] PROVE Target(d)' = o
    BY <1>3, <2>2 DEF WInv, Authored, Quiet
  <2> QED
    BY <2>1, <2>2 DEF Authored
<1>5. ASSUME NEW o \in Output PROVE OneAuthor(o)'
  <2>1. authors'[o] = authors[o] /\ file'[o] = file[o] /\ OneAuthor(o)
    BY DEF WInv, Quiet
  <2>2. ASSUME NEW d \in Build, authors[o] = {d}
        PROVE  /\ BeginOf(file[o], Tree(d)')
               /\ run'[d].state = "writing" => Len(file[o]) = run'[d].written
    <3>1. d \in authors[o]
      BY <2>2
    <3> QED
      BY <1>3, <2>1, <2>2, <3>1 DEF OneAuthor
  <2> QED
    BY <2>1, <2>2 DEF OneAuthor
<1>6. ASSUME NEW o \in Output PROVE Agreed(o)'
  <2>1. authors'[o] = authors[o] /\ file'[o] = file[o] /\ Agreed(o)
    BY DEF WInv, Quiet
  <2>2. ASSUME NEW a \in authors[o], Agree(o, a)'
        PROVE  /\ PatchOf(file[o], Tree(a)')
               /\ \E c \in authors[o] : Reaches(file[o], Tree(a)', run'[c].written)
    <3>1. Agree(o, a)
      BY <1>3, <2>1, <2>2 DEF Agree
    <3>2. /\ PatchOf(file[o], Tree(a))
          /\ \E c \in authors[o] : Reaches(file[o], Tree(a), run[c].written)
      BY <2>1, <3>1 DEF Agreed
    <3> QED
      BY <1>3, <3>2
  <2> QED
    BY <2>1, <2>2 DEF Agreed
<1>7. ASSUME NEW r \in Reader PROVE MapWhole(r)'
  BY DEF WInv, MapWhole, Quiet
<1> QED
  BY <1>1, <1>2, <1>4, <1>5, <1>6, <1>7 DEF WInv

\* The next block: what it makes of the file, and what it may not be put over
LEMMA WrittenIs ==
  ASSUME IInv, WInv, NEW b \in Build, Remaining(b)
  PROVE  LET o == Target(b)
             n == run[b].written
             more == Written(b)[o]
         IN  /\ o \in Output /\ n \in Nat /\ Len(file[o]) \in Nat
             /\ Tree(b) \in Seq(Topic) /\ n + 1 <= Len(Tree(b)) + 1
             /\ Written(b) \in [Output -> Seq(AnyBlock)]
             /\ \A p \in Output \ {o} : Written(b)[p] = file[p]
             /\ Len(more) = IF Len(file[o]) <= n THEN n + 1 ELSE Len(file[o])
             /\ \A i \in 1..Len(more) :
                  more[i] = IF i = n + 1 THEN Block(Tree(b), n)
                            ELSE IF i <= Len(file[o]) THEN file[o][i] ELSE Hole
<1> DEFINE o == Target(b)
           n == run[b].written
<1>1. /\ run[b].state = "writing" /\ n < Len(Image(Tree(b)))
  BY DEF Remaining
<1>2. n \in Nat /\ Tree(b) \in Seq(Topic) /\ Len(Tree(b)) \in Nat
  BY DEF IInv, RunOK, Tree
<1>3. n + 1 \in 1..(Len(Tree(b)) + 1) /\ (n + 1) - 1 = n
  BY <1>1, <1>2, ImageIs
<1>4. o \in Output
  BY <1>1, BuildingAssumption DEF WInv, Sound, Target
<1>5. file[o] \in Seq(AnyBlock) /\ file \in [Output -> Seq(AnyBlock)]
  BY <1>4 DEF WInv, FilesOK
<1> DEFINE block == Image(Tree(b))[n + 1]
           more == Overlay(file[o], n + 1, block)
<1>6. block = Block(Tree(b), n) /\ block \in AnyBlock
  BY <1>2, <1>3, ImageIs
<1>7. Written(b) = [file EXCEPT ![o] = more]
  BY DEF Written, NextAt
<1> HIDE DEF block, o, n
<1>8. /\ more \in Seq(AnyBlock)
      /\ Len(more) = IF Len(file[o]) <= n THEN n + 1 ELSE Len(file[o])
      /\ \A i \in 1..Len(more) :
           more[i] = IF i = n + 1 THEN block
                     ELSE IF i <= Len(file[o]) THEN file[o][i] ELSE Hole
  <2>1. n \in Nat /\ file[o] \in Seq(AnyBlock) /\ block \in AnyBlock
    BY <1>2, <1>5, <1>6
  <2> QED
    BY <2>1, OverlayIs
<1> HIDE DEF more
<1>9. /\ Written(b) \in [Output -> Seq(AnyBlock)]
      /\ \A p \in Output \ {o} : Written(b)[p] = file[p]
      /\ Written(b)[o] = more
  BY <1>4, <1>5, <1>7, <1>8
<1>10. Len(file[o]) \in Nat
  BY <1>5
<1>11. /\ Len(Written(b)[o]) = IF Len(file[o]) <= n THEN n + 1 ELSE Len(file[o])
       /\ \A i \in 1..Len(Written(b)[o]) :
            Written(b)[o][i] = IF i = n + 1 THEN Block(Tree(b), n)
                               ELSE IF i <= Len(file[o]) THEN file[o][i] ELSE Hole
  BY <1>6, <1>8, <1>9
<1>12. n + 1 <= Len(Tree(b)) + 1
  BY <1>2, <1>3
<1> QED
  BY <1>2, <1>4, <1>9, <1>10, <1>11, <1>12 DEF o, n

\* A write keeps a beginning where there was one, and a patch where there was
\* one of the same tree, and what had been reached.
LEMMA WrittenExtends ==
  ASSUME IInv, WInv, NEW b \in Build, Remaining(b)
  PROVE  LET o == Target(b)
             n == run[b].written
             more == Written(b)[o]
         IN  /\ BeginOf(file[o], Tree(b)) /\ Len(file[o]) = n =>
                  BeginOf(more, Tree(b)) /\ Len(more) = n + 1
             /\ PatchOf(file[o], Tree(b)) => PatchOf(more, Tree(b))
             /\ \A k \in Nat : Reaches(file[o], Tree(b), k) => Reaches(more, Tree(b), k)
             /\ Reaches(file[o], Tree(b), n) => Reaches(more, Tree(b), n + 1)
<1> DEFINE o == Target(b)
           n == run[b].written
           more == Written(b)[o]
           tree == Tree(b)
           m == Len(file[o])
<1>1. /\ n \in Nat /\ m \in Nat /\ Len(tree) \in Nat /\ n + 1 <= Len(tree) + 1
      /\ Len(more) = IF m <= n THEN n + 1 ELSE m
      /\ \A i \in 1..Len(more) :
           more[i] = IF i = n + 1 THEN Block(tree, n)
                     ELSE IF i <= m THEN file[o][i] ELSE Hole
  BY WrittenIs
<1> HIDE DEF n, more, tree, m
<1>2. ASSUME BeginOf(file[o], tree), m = n
      PROVE  BeginOf(more, tree) /\ Len(more) = n + 1
  <2>1. Len(more) = n + 1 /\ n <= n
    BY <1>1, <1>2
  <2>2. ASSUME NEW i \in 1..(n + 1) PROVE more[i] = Block(tree, i - 1)
    <3>1. CASE i = n + 1
      <4>1. i - 1 = n
        BY <1>1, <3>1
      <4> QED
        BY <1>1, <2>1, <3>1, <4>1
    <3>2. CASE i # n + 1
      <4>1. i \in 1..m
        BY <1>1, <1>2, <3>2
      <4>2. more[i] = file[o][i]
        BY <1>1, <2>1, <3>2, <4>1
      <4> QED
        BY <1>2, <4>1, <4>2 DEF BeginOf, m
    <3> QED
      BY <3>1, <3>2
  <2> QED
    BY <1>1, <2>1, <2>2 DEF BeginOf
<1>3. ASSUME PatchOf(file[o], tree) PROVE PatchOf(more, tree)
  <2>1. m <= Len(tree) + 1
    BY <1>3 DEF PatchOf, m
  <2>2. Len(more) <= Len(tree) + 1
    BY <1>1, <2>1
  <2>3. ASSUME NEW i \in 1..Len(more) PROVE more[i] \in {Block(tree, i - 1), Hole}
    <3>1. CASE i = n + 1
      <4>1. i - 1 = n
        BY <1>1, <3>1
      <4> QED
        BY <1>1, <3>1, <4>1
    <3>2. CASE i # n + 1 /\ i <= m
      <4>1. i \in 1..m
        BY <1>1, <3>2
      <4>2. more[i] = file[o][i]
        BY <1>1, <3>2
      <4> QED
        BY <1>3, <4>1, <4>2 DEF PatchOf, m
    <3>3. CASE i # n + 1 /\ ~ (i <= m)
      BY <1>1, <3>3
    <3> QED
      BY <3>1, <3>2, <3>3
  <2> QED
    BY <2>2, <2>3 DEF PatchOf
<1>4. ASSUME NEW k \in Nat, Reaches(file[o], tree, k) PROVE Reaches(more, tree, k)
  <2>1. k <= m /\ \A i \in 1..k : file[o][i] = Block(tree, i - 1)
    BY <1>4 DEF Reaches, m
  <2>2. k <= Len(more)
    BY <1>1, <2>1
  <2>3. ASSUME NEW i \in 1..k PROVE more[i] = Block(tree, i - 1)
    <3>1. i \in 1..Len(more) /\ i <= m
      BY <1>1, <2>1, <2>2
    <3>2. CASE i = n + 1
      <4>1. i - 1 = n
        BY <1>1, <3>2
      <4> QED
        BY <1>1, <3>1, <3>2, <4>1
    <3>3. CASE i # n + 1
      BY <1>1, <2>1, <3>1, <3>3
    <3> QED
      BY <3>2, <3>3
  <2> QED
    BY <2>2, <2>3 DEF Reaches
<1>5. ASSUME Reaches(file[o], tree, n) PROVE Reaches(more, tree, n + 1)
  <2>1. Reaches(more, tree, n)
    BY <1>1, <1>4, <1>5
  <2>2. n + 1 <= Len(more) /\ n + 1 \in 1..Len(more) /\ (n + 1) - 1 = n
    BY <1>1
  <2>3. more[n + 1] = Block(tree, n)
    BY <1>1, <2>2
  <2>4. \A i \in 1..(n + 1) : i \in 1..n \/ i = n + 1
    BY <1>1
  <2> QED
    BY <2>1, <2>2, <2>3, <2>4 DEF Reaches
<1> QED
  BY <1>2, <1>3, <1>4, <1>5 DEF n, more, tree, m

\* The author that writes a block, or fails to
LEMMA WritingIsWhole ==
  ASSUME IInv, WInv, NEW b \in Build, Write(b) \/ WriteFails(b)
  PROVE  WInv'
<1>1. Remaining(b) /\ run[b].state = "writing" /\ UNCHANGED <<authors, map>>
  BY DEF Write, WriteFails, Remaining
<1>2. /\ file' \in {file, Written(b)}
      /\ \A d \in Build \ {b} : run'[d] = run[d]
      /\ run'[b].cmd = run[b].cmd /\ run'[b].trees = run[b].trees /\ run'[b].tree = run[b].tree
      /\ \/ /\ file' = Written(b) /\ run'[b].state = "writing"
            /\ run'[b].written = run[b].written + 1
         \/ run'[b].state = "Io" /\ run'[b].written = run[b].written
  <2>1. CASE Write(b)
    BY <1>1, <2>1 DEF Write, IInv, RunOK
  <2>2. CASE WriteFails(b)
    BY <2>2 DEF WriteFails, Becomes, IInv, RunOK
  <2> QED
    BY <2>1, <2>2
<1>13. PICK o \in Output : o = Target(b)
  BY <1>1, WrittenIs
<1>3. /\ Written(b) \in [Output -> Seq(AnyBlock)]
      /\ \A p \in Output \ {o} : Written(b)[p] = file[p]
  BY <1>1, <1>13, WrittenIs
<1>4. b \in authors[o] /\ \A p \in Output \ {o} : b \notin authors[p]
  BY <1>1, <1>13 DEF WInv, Authored
<1>5. FilesOK'
  BY <1>1, <1>2, <1>3 DEF WInv, FilesOK
<1>6. ASSUME NEW d \in Build PROVE Sound(d)' /\ Target(d)' = Target(d) /\ Tree(d)' = Tree(d)
  <2>1. CASE d # b
    BY <1>2, <2>1 DEF WInv, Sound, Tree, Target
  <2>2. CASE d = b
    <3>1. run[b].written + 1 <= Len(Tree(b)) + 1 /\ Sound(b)
      BY <1>1, WrittenIs DEF WInv
    <3>2. /\ run[b].cmd \in Command /\ Parses(run[b].trees, run[b].cmd.inputs)
          /\ Len(run[b].trees) = Len(run[b].cmd.inputs)
          /\ Tree(b) = Merged(run[b].trees) /\ Tree(b) # <<>>
      BY <1>1, <3>1 DEF Sound
    <3>3. Target(b)' = Target(b) /\ Tree(b)' = Tree(b)
      BY <1>2 DEF Target, Tree
    <3>4. Sound(b)'
      BY <1>2, <3>1, <3>2, <3>3 DEF Sound
    <3> QED
      BY <2>2, <3>3, <3>4
  <2> QED
    BY <2>1, <2>2
<1>7. \A d \in Build : run'[d].state = "writing" => run[d].state = "writing"
  BY <1>1, <1>2
<1>8. Authored'
  <2>1. \A p \in Output : authors'[p] \subseteq Build
    BY <1>5 DEF FilesOK
  <2> QED
    BY <1>1, <1>6, <1>7, <2>1 DEF WInv, Authored
<1>9. ASSUME NEW p \in Output \ {o} PROVE OneAuthor(p)' /\ Agreed(p)'
  <2>1. file'[p] = file[p] /\ authors'[p] = authors[p] /\ OneAuthor(p) /\ Agreed(p)
    BY <1>1, <1>2, <1>3 DEF WInv
  <2>2. \A d \in authors[p] : d \in Build /\ run'[d] = run[d] /\ Tree(d)' = Tree(d)
    BY <1>2, <1>4, <1>6 DEF WInv, FilesOK
  <2>3. OneAuthor(p)'
    <3>1. ASSUME NEW d \in Build, authors[p] = {d}
          PROVE  /\ BeginOf(file[p], Tree(d)')
                 /\ run'[d].state = "writing" => Len(file[p]) = run'[d].written
      <4>1. d \in authors[p]
        BY <3>1
      <4> QED
        BY <2>1, <2>2, <3>1, <4>1 DEF OneAuthor
    <3> QED
      BY <2>1, <3>1 DEF OneAuthor
  <2>4. ASSUME NEW a \in authors[p], Agree(p, a)'
        PROVE  /\ PatchOf(file[p], Tree(a)')
               /\ \E c \in authors[p] : Reaches(file[p], Tree(a)', run'[c].written)
    <3>1. Agree(p, a)
      BY <2>1, <2>2, <2>4 DEF Agree
    <3>2. /\ PatchOf(file[p], Tree(a))
          /\ \E c \in authors[p] : Reaches(file[p], Tree(a), run[c].written)
      BY <2>1, <3>1 DEF Agreed
    <3> QED
      BY <2>2, <3>2
  <2> QED
    BY <2>1, <2>3, <2>4 DEF Agreed
<1>10. OneAuthor(o)'
  <2>1. authors'[o] = authors[o] /\ authors[o] # {} /\ OneAuthor(o)
    BY <1>1, <1>3, <1>4 DEF WInv
  <2>2. ASSUME NEW d \in Build, authors[o] = {d}
        PROVE  /\ BeginOf(file'[o], Tree(d)')
               /\ run'[d].state = "writing" => Len(file'[o]) = run'[d].written
    <3>1. d = b /\ Tree(b)' = Tree(b)
      BY <1>4, <1>6, <2>2
    <3>2. BeginOf(file[o], Tree(b)) /\ Len(file[o]) = run[b].written
      BY <1>1, <2>1, <2>2, <3>1 DEF OneAuthor
    <3>3. BeginOf(Written(b)[o], Tree(b)) /\ Len(Written(b)[o]) = run[b].written + 1
      BY <1>1, <3>2, <1>13, WrittenExtends
    <3> QED
      BY <1>2, <3>1, <3>2, <3>3
  <2> QED
    BY <2>1, <2>2 DEF OneAuthor
<1>11. Agreed(o)'
  <2> SUFFICES ASSUME NEW a \in authors[o], Agree(o, a)'
               PROVE  /\ PatchOf(file'[o], Tree(a)')
                      /\ \E c \in authors[o] : Reaches(file'[o], Tree(a)', run'[c].written)
    BY <1>1 DEF Agreed
  <2>1. /\ run'[b].state \in {"writing", "Ok"} /\ Tree(b)' = Tree(a)'
        /\ \A d \in authors[o] : /\ d \in Build /\ run'[d].state \in {"writing", "Ok"}
                                 /\ Tree(d)' = Tree(a)'
    BY <1>1, <1>3, <1>4 DEF Agree, WInv, FilesOK
  <2>2. /\ file' = Written(b) /\ run'[b].written = run[b].written + 1
        /\ run'[b].state = "writing"
    BY <1>2, <2>1
  <2>3. Tree(a)' = Tree(b) /\ \A d \in authors[o] : Tree(d) = Tree(b)
    BY <1>4, <1>6, <2>1
  <2>4. Agree(o, b)
    <3>1. \A d \in authors[o] : run[d].state \in {"writing", "Ok"}
      BY <1>1, <1>2, <2>1
    <3> QED
      BY <2>3, <3>1 DEF Agree
  <2>5. Agreed(o)
    BY <1>3 DEF WInv
  <2>6. PatchOf(file[o], Tree(b))
    BY <1>4, <2>4, <2>5 DEF Agreed
  <2>7. PICK c \in authors[o] : Reaches(file[o], Tree(b), run[c].written)
    BY <1>4, <2>4, <2>5 DEF Agreed
  <2>8. PatchOf(file'[o], Tree(b))
    BY <1>1, <2>2, <2>6, <1>13, WrittenExtends
  <2>9. Reaches(file'[o], Tree(b), run'[c].written)
    <3>1. c \in Build /\ run[c].written \in Nat
      BY <2>1 DEF IInv, RunOK
    <3>2. CASE c = b
      <4>1. Reaches(file[o], Tree(b), run[b].written)
        BY <2>7, <3>2
      <4> QED
        BY <1>1, <2>2, <3>2, <4>1, <1>13, WrittenExtends
    <3>3. CASE c # b
      <4>1. run'[c].written = run[c].written
        BY <1>2, <3>1, <3>3
      <4> QED
        BY <1>1, <2>2, <2>7, <3>1, <4>1, <1>13, WrittenExtends
    <3> QED
      BY <3>2, <3>3
  <2> QED
    BY <2>3, <2>8, <2>9
<1>12. ASSUME NEW r \in Reader PROVE MapWhole(r)'
  BY <1>1 DEF WInv, MapWhole
<1> QED
  BY <1>5, <1>6, <1>8, <1>9, <1>10, <1>11, <1>12 DEF WInv

\* A build that has emptied a file is an author of it, with nothing written.
LEMMA CreateIsWhole ==
  ASSUME IInv, WInv, NEW b \in Build, Create(b)
  PROVE  WInv'
<1> DEFINE tree == Merged(run[b].trees)
<1>1. /\ run[b].state = "reading" /\ Len(run[b].trees) = Len(run[b].cmd.inputs)
      /\ map' = map
  BY DEF Create, AllRead
<1>2. /\ run[b].cmd \in Command /\ Parses(run[b].trees, run[b].cmd.inputs)
      /\ run[b].written = 0
  BY <1>1 DEF WInv, Sound
<1>3. PICK o \in Output : o = Target(b)
  BY <1>2, BuildingAssumption DEF Target
<1>4. /\ file' = [file EXCEPT ![o] = <<>>]
      /\ authors' = [authors EXCEPT ![o] = IF Writing(o) = {} THEN {b} ELSE @ \cup {b}]
      /\ run' = [run EXCEPT ![b].tree = tree,
                            ![b].state = IF tree = <<>> THEN "EmptyTree" ELSE "writing"]
  BY <1>3 DEF Create
<1>5. tree \in Seq(Topic)
  BY MergedIsTree DEF IInv, RunOK
<1> HIDE DEF tree
<1>6. /\ \A d \in Build \ {b} : run'[d] = run[d]
      /\ run'[b].cmd = run[b].cmd /\ run'[b].trees = run[b].trees
      /\ run'[b].tree = tree /\ run'[b].written = 0
      /\ run'[b].state = IF tree = <<>> THEN "EmptyTree" ELSE "writing"
  BY <1>2, <1>4 DEF IInv, RunOK
<1>7. \A p \in Output : b \notin authors[p] /\ authors[p] \in SUBSET Build
  BY <1>1 DEF IInv, AuthorsPast, Past, WInv, FilesOK
<1>8. /\ \A p \in Output \ {o} : file'[p] = file[p] /\ authors'[p] = authors[p]
      /\ file'[o] = <<>> /\ b \in authors'[o]
      /\ authors'[o] = IF Writing(o) = {} THEN {b} ELSE authors[o] \cup {b}
  BY <1>4 DEF WInv, FilesOK
<1>9. FilesOK'
  <2>1. (IF Writing(o) = {} THEN {b} ELSE authors[o] \cup {b}) \in SUBSET Build
    BY <1>7
  <2>2. <<>> \in Seq(AnyBlock)
    OBVIOUS
  <2> QED
    BY <1>1, <1>4, <2>1, <2>2 DEF WInv, FilesOK
<1>10. \A d \in Build : Target(d)' = Target(d)
  BY <1>6 DEF Target
<1>11. ASSUME NEW d \in Build PROVE Sound(d)'
  <2>1. CASE d # b
    BY <1>6, <2>1 DEF WInv, Sound, Tree
  <2>2. CASE d = b
    <3>1. Tree(b)' = tree /\ Len(tree) \in Nat
      BY <1>5, <1>6 DEF Tree
    <3>2. tree = Merged(run'[b].trees)
      BY <1>6 DEF tree
    <3> QED
      BY <1>1, <1>2, <1>6, <2>2, <3>1, <3>2 DEF Sound
  <2> QED
    BY <2>1, <2>2
<1>12. Authored'
  <2>1. ASSUME NEW d \in Build, run'[d].state = "writing" PROVE d \in authors'[Target(d)']
    <3>1. CASE d = b
      BY <1>3, <1>8, <1>10, <3>1
    <3>2. CASE d # b
      <4>1. run[d].state = "writing" /\ d \in authors[Target(d)] /\ Target(d) \in Output
        BY <1>6, <2>1, <3>2, BuildingAssumption DEF WInv, Authored, Sound, Target
      <4>2. CASE Target(d) = o
        <5>1. d \in Writing(o)
          BY <4>1, <4>2 DEF Writing
        <5> QED
          BY <1>8, <1>10, <4>1, <4>2, <5>1
      <4>3. CASE Target(d) # o
        BY <1>8, <1>10, <4>1, <4>3
      <4> QED
        BY <4>2, <4>3
    <3> QED
      BY <3>1, <3>2
  <2>2. ASSUME NEW p \in Output, NEW d \in authors'[p] PROVE Target(d)' = p
    <3>1. d \in Build /\ (d \in authors[p] \/ (p = o /\ d = b))
      BY <1>7, <1>8, <2>2
    <3> QED
      BY <1>3, <1>10, <3>1 DEF WInv, Authored
  <2> QED
    BY <2>1, <2>2 DEF Authored
<1>13. ASSUME NEW p \in Output \ {o} PROVE OneAuthor(p)' /\ Agreed(p)'
  <2>1. file'[p] = file[p] /\ authors'[p] = authors[p] /\ OneAuthor(p) /\ Agreed(p)
    BY <1>8 DEF WInv
  <2>2. \A d \in authors[p] : d \in Build /\ run'[d] = run[d] /\ Tree(d)' = Tree(d)
    BY <1>6, <1>7 DEF Tree
  <2>3. ASSUME NEW d \in Build, authors[p] = {d}
        PROVE  /\ BeginOf(file[p], Tree(d)')
               /\ run'[d].state = "writing" => Len(file[p]) = run'[d].written
    <3>1. d \in authors[p]
      BY <2>3
    <3> QED
      BY <2>1, <2>2, <2>3, <3>1 DEF OneAuthor
  <2>4. ASSUME NEW a \in authors[p], Agree(p, a)'
        PROVE  /\ PatchOf(file[p], Tree(a)')
               /\ \E c \in authors[p] : Reaches(file[p], Tree(a)', run'[c].written)
    <3>1. Agree(p, a)
      BY <2>1, <2>2, <2>4 DEF Agree
    <3>2. /\ PatchOf(file[p], Tree(a))
          /\ \E c \in authors[p] : Reaches(file[p], Tree(a), run[c].written)
      BY <2>1, <3>1 DEF Agreed
    <3> QED
      BY <2>2, <3>2
  <2>5. OneAuthor(p)'
    BY <2>1, <2>3 DEF OneAuthor
  <2> QED
    BY <2>1, <2>4, <2>5 DEF Agreed
<1>14. /\ \A t \in Seq(Topic) : BeginOf(<<>>, t) /\ PatchOf(<<>>, t) /\ Reaches(<<>>, t, 0)
       /\ Len(<<>>) = 0
  <2>1. Len(<<>>) = 0 /\ 1..0 = {} /\ \A t \in Seq(Topic) : Len(t) \in Nat
    OBVIOUS
  <2> QED
    BY <2>1 DEF BeginOf, PatchOf, Reaches
<1>15. \A d \in Build : Tree(d)' \in Seq(Topic)
  <2>1. \A d \in Build : run[d].tree \in Seq(Topic)
    BY DEF IInv, RunOK
  <2> QED
    BY <1>5, <1>6, <2>1 DEF Tree
<1>16. OneAuthor(o)'
  <2>1. ASSUME NEW d \in Build, authors'[o] = {d}
        PROVE  /\ BeginOf(file'[o], Tree(d)')
               /\ run'[d].state = "writing" => Len(file'[o]) = run'[d].written
    BY <1>6, <1>8, <1>14, <1>15, <2>1
  <2> QED
    BY <1>8, <2>1 DEF OneAuthor
<1>17. Agreed(o)'
  <2>1. ASSUME NEW a \in authors'[o]
        PROVE  /\ PatchOf(file'[o], Tree(a)')
               /\ \E c \in authors'[o] : Reaches(file'[o], Tree(a)', run'[c].written)
    <3>1. a \in Build
      BY <1>9 DEF FilesOK
    <3> QED
      BY <1>6, <1>8, <1>14, <1>15, <3>1
  <2> QED
    BY <2>1 DEF Agreed
<1>18. ASSUME NEW r \in Reader PROVE MapWhole(r)'
  BY <1>1 DEF WInv, MapWhole
<1> QED
  BY <1>9, <1>11, <1>12, <1>13, <1>16, <1>17, <1>18 DEF WInv

\* What a reader opens: of a file with one author, all that author writes
LEMMA OpenIsWhole ==
  ASSUME IInv, WInv, NEW q \in Reader, NEW o \in Output, Open(q, o)
  PROVE  WInv'
<1> DEFINE new == [path |-> o, was |-> file[o], by |-> authors[o],
                   settled |-> Writing(o) = {}]
<1>1. /\ Opens(file[o]) /\ map' = [map EXCEPT ![q] = new]
      /\ UNCHANGED <<file, run, authors>>
  BY DEF Open
<1>2. /\ file[o] \in Seq(AnyBlock) /\ authors[o] \in SUBSET Build
      /\ OneAuthor(o)
  BY DEF WInv, FilesOK
<1>3. new \in [path : Output, was : Seq(AnyBlock), by : SUBSET Build, settled : BOOLEAN]
  <2>1. (Writing(o) = {}) \in BOOLEAN
    OBVIOUS
  <2> QED
    BY <1>2, <2>1
<1>4. new.was = file[o] /\ new.by = authors[o]
  OBVIOUS
<1> HIDE DEF new
<1>5. FilesOK'
  BY <1>1, <1>3 DEF WInv, FilesOK
<1>6. /\ map'[q] = new /\ \A r \in Reader \ {q} : map'[r] = map[r]
  BY <1>1 DEF WInv, FilesOK
<1>7. ASSUME Cardinality(authors[o]) <= 1 PROVE IsWhole(file[o])
  <2>1. IsFiniteSet(authors[o])
    BY <1>2, FS_Subset, BuildingAssumption
  <2>2. Cardinality(authors[o]) \in Nat
    BY <2>1, FS_CardinalityType
  <2>3. CASE Cardinality(authors[o]) = 0
    <3>1. authors[o] = {}
      BY <2>1, <2>3, FS_EmptySet
    <3>2. file[o] \in {<<>>, Image(Old)} /\ file[o] # <<>>
      BY <1>1, <1>2, <3>1 DEF OneAuthor, Opens
    <3>3. Old \in Seq(Topic) /\ file[o] = Image(Old)
      BY <3>2, BuildingAssumption
    <3>4. BeginOf(file[o], Old)
      <4>1. Len(Old) + 1 <= Len(Old) + 1
        BY <3>3
      <4> QED
        BY <3>3, <4>1, ImageIs DEF BeginOf
    <3> QED
      BY <1>1, <1>2, <3>3, <3>4, OpensWhole
  <2>4. CASE Cardinality(authors[o]) = 1
    <3>1. PICK b : authors[o] = {b}
      BY <2>1, <2>4, FS_Singleton
    <3>2. b \in Build /\ BeginOf(file[o], Tree(b))
      BY <1>2, <3>1 DEF OneAuthor
    <3>3. Tree(b) \in Seq(Topic)
      BY <3>2 DEF IInv, RunOK, Tree
    <3> QED
      BY <1>1, <1>2, <3>2, <3>3, OpensWhole
  <2> QED
    BY <1>7, <2>2, <2>3, <2>4
<1>8. ASSUME NEW r \in Reader PROVE MapWhole(r)'
  <2>1. CASE r = q
    BY <1>4, <1>6, <1>7, <2>1 DEF MapWhole
  <2>2. CASE r # q
    BY <1>6, <2>2 DEF WInv, MapWhole
  <2> QED
    BY <2>1, <2>2
<1>9. /\ Authored' /\ \A b \in Build : Sound(b)'
      /\ \A p \in Output : OneAuthor(p)' /\ Agreed(p)'
  BY <1>1 DEF WInv, Authored, Sound, OneAuthor, Agreed, Agree, Target, Tree
<1> QED
  BY <1>5, <1>8, <1>9 DEF WInv

\* A reader that closes has found nothing.
LEMMA CloseIsWhole ==
  ASSUME WInv, NEW q \in Reader, Close(q)
  PROVE  WInv'
<1>1. map' = [map EXCEPT ![q] = NoMap] /\ UNCHANGED <<file, run, authors>>
  BY DEF Close
<1>2. FilesOK' /\ map'[q] = NoMap /\ \A r \in Reader \ {q} : map'[r] = map[r]
  BY <1>1 DEF WInv, FilesOK
<1>3. \A r \in Reader : MapWhole(r)'
  BY <1>2 DEF WInv, MapWhole
<1>4. /\ Authored' /\ \A b \in Build : Sound(b)'
      /\ \A p \in Output : OneAuthor(p)' /\ Agreed(p)'
  BY <1>1 DEF WInv, Authored, Sound, OneAuthor, Agreed, Agree, Target, Tree
<1> QED
  BY <1>2, <1>3, <1>4 DEF WInv

\* A command is taken up.
LEMMA BeginIsWhole ==
  ASSUME IInv, WInv, NEW b \in Build, NEW c \in Command, Begin(b, c)
  PROVE  WInv'
<1> DEFINE state == IF IsUsageError(c) THEN "Usage" ELSE "reading"
           begun == [state |-> state, cmd |-> c, trees |-> <<>>,
                     tree |-> <<>>, written |-> 0]
<1>1. /\ run[b].state = "waiting" /\ run' = [run EXCEPT ![b] = begun]
      /\ UNCHANGED <<file, authors, map>>
  BY DEF Begin, New
<1>2. state \in {"Usage", "reading"} /\ begun.state = state
  OBVIOUS
<1>3. Parses(<<>>, c.inputs)
  <2>1. c.inputs \in Seq(Source)
    BY BuildingAssumption
  <2>2. Len(c.inputs) \in Nat /\ Len(<<>>) = 0 /\ DOMAIN <<>> = {}
    BY <2>1
  <2> QED
    BY <2>2 DEF Parses
<1>4. begun.cmd = c /\ begun.trees = <<>> /\ begun.written = 0
  OBVIOUS
<1> HIDE DEF begun, state
<1>5. run'[b] = begun /\ \A d \in Build \ {b} : run'[d] = run[d]
  BY <1>1 DEF IInv, RunOK
<1>6. Sound(b)'
  BY <1>2, <1>3, <1>4, <1>5 DEF Sound
<1>7. Quiet(b)
  BY <1>1, <1>2, <1>5 DEF Quiet
<1> QED
  BY <1>6, <1>7, QuietKeeps

\* A build ends, before it has got at a file or, unless it is killed, when it has
\* written all.
LEMMA EndIsWhole ==
  ASSUME IInv, WInv, NEW b \in Build, NEW state,
         Becomes(b, state), UNCHANGED <<file, authors, map>>,
         \/ run[b].state = "reading" /\ state \in Ended \ {"Ok"}
         \/ run[b].state = "writing" /\ state = "killed"
         \/ run[b].state = "writing" /\ state = "Ok" /\ ~ Remaining(b)
  PROVE  WInv'
<1>1. /\ \A d \in Build \ {b} : run'[d] = run[d]
      /\ run'[b].state = state /\ run'[b].cmd = run[b].cmd /\ run'[b].trees = run[b].trees
      /\ run'[b].tree = run[b].tree /\ run'[b].written = run[b].written
  BY DEF Becomes, IInv, RunOK
<1>2. Quiet(b)
  BY <1>1 DEF Quiet, Ended
<1>3. Sound(b)'
  <2>1. Sound(b) /\ run[b].written \in Nat /\ Tree(b) \in Seq(Topic)
    BY DEF WInv, IInv, RunOK, Tree
  <2>2. ASSUME state = "Ok" PROVE run[b].written = Len(Tree(b)) + 1
    <3>1. run[b].state = "writing" /\ ~ (run[b].written < Len(Tree(b)) + 1)
      BY <2>1, <2>2, ImageIs DEF Remaining, Ended
    <3>2. run[b].written <= Len(Tree(b)) + 1
      BY <2>1, <3>1 DEF Sound
    <3> QED
      BY <2>1, <3>1, <3>2
  <2>3. Tree(b)' = Tree(b)
    BY <1>1 DEF Tree
  <2> QED
    BY <1>1, <2>1, <2>2, <2>3 DEF Sound, Ended
<1> QED
  BY <1>2, <1>3, QuietKeeps

\* An input is parsed, and the next.
LEMMA ReadInputIsWhole ==
  ASSUME IInv, WInv, NEW b \in Build, ReadInput(b)
  PROVE  WInv'
<1> DEFINE inputs == run[b].cmd.inputs
           k == Len(run[b].trees) + 1
<1>1. /\ run[b].state = "reading" /\ k <= Len(inputs)
      /\ UNCHANGED <<file, authors, map>>
  BY DEF ReadInput
<1>2. CASE Parsed[inputs[k]] = Unreadable
  <2>1. Becomes(b, "ParseError") /\ "ParseError" \in Ended \ {"Ok"}
    BY <1>2 DEF ReadInput, Ended
  <2> QED
    BY <1>1, <2>1, EndIsWhole
<1>3. CASE Parsed[inputs[k]] # Unreadable
  <2> DEFINE trees == Append(run[b].trees, Parsed[inputs[k]])
  <2>1. run' = [run EXCEPT ![b].trees = trees]
    BY <1>3 DEF ReadInput
  <2>2. /\ run[b].cmd \in Command /\ Parses(run[b].trees, inputs) /\ run[b].written = 0
    BY <1>1 DEF WInv, Sound
  <2>3. inputs \in Seq(Source) /\ Len(inputs) \in Nat
    BY <2>2, BuildingAssumption
  <2>4. run[b].trees \in Seq(Seq(Topic)) /\ Len(run[b].trees) \in Nat
    BY <2>2 DEF Parses
  <2>5. Parsed[inputs[k]] \in Seq(Topic)
    <3>1. k \in 1..Len(inputs)
      BY <1>1, <2>3, <2>4
    <3>2. inputs[k] \in Source
      BY <2>3, <3>1
    <3> QED
      BY <1>3, <3>2, BuildingAssumption
  <2>6. /\ trees \in Seq(Seq(Topic)) /\ Len(trees) = k
        /\ \A i \in 1..(k - 1) : trees[i] = run[b].trees[i]
        /\ trees[k] = Parsed[inputs[k]]
    BY <2>4, <2>5
  <2>7. Parses(trees, inputs)
    <3>1. DOMAIN trees = 1..k /\ DOMAIN run[b].trees = 1..(k - 1)
      <4>1. DOMAIN run[b].trees = 1..Len(run[b].trees) /\ k - 1 = Len(run[b].trees)
        BY <2>4
      <4> HIDE DEF trees, k
      <4>2. DOMAIN trees = 1..k
        BY <2>6
      <4> QED
        BY <4>1, <4>2
    <3>2. \A i \in 1..k : i \in 1..(k - 1) \/ i = k
      BY <2>4
    <3>3. \A i \in DOMAIN run[b].trees : run[b].trees[i] = Parsed[inputs[i]]
      BY <2>2 DEF Parses
    <3> HIDE DEF trees, k, inputs
    <3>4. \A i \in DOMAIN trees : trees[i] = Parsed[inputs[i]]
      BY <2>6, <3>1, <3>2, <3>3
    <3> QED
      BY <1>1, <2>6, <3>4 DEF Parses
  <2> HIDE DEF trees
  <2>8. /\ \A d \in Build \ {b} : run'[d] = run[d]
        /\ run'[b].state = "reading" /\ run'[b].cmd = run[b].cmd
        /\ run'[b].trees = trees /\ run'[b].written = run[b].written
    BY <1>1, <2>1 DEF IInv, RunOK
  <2>9. Sound(b)'
    BY <2>2, <2>7, <2>8 DEF Sound
  <2>10. Quiet(b)
    BY <1>1, <2>8 DEF Quiet
  <2> QED
    BY <2>9, <2>10, QuietKeeps
<1> QED
  BY <1>2, <1>3

LEMMA InitIsWhole == Init => WInv
<1> SUFFICES ASSUME Init PROVE WInv
  OBVIOUS
<1>1. Image(Old) \in Seq(AnyBlock) /\ <<>> \in Seq(AnyBlock)
  BY ImageIs, BuildingAssumption
<1>2. FilesOK
  BY <1>1 DEF Init, FilesOK
<1>3. /\ \A b \in Build : run[b] = Waiting
      /\ \A o \in Output : authors[o] = {} /\ file[o] \in {<<>>, Image(Old)}
      /\ \A r \in Reader : map[r] = NoMap
  BY DEF Init
<1>4. /\ Waiting.state = "waiting" /\ Waiting.trees = <<>> /\ Waiting.written = 0
      /\ Waiting.cmd.inputs = <<>>
  BY DEF Waiting, New, NoCommand
<1>5. ASSUME NEW b \in Build PROVE Sound(b)
  <2>1. Parses(<<>>, <<>>)
    <3>1. Len(<<>>) <= Len(<<>>) /\ DOMAIN <<>> = {} /\ <<>> \in Seq(Seq(Topic))
      OBVIOUS
    <3> QED
      BY <3>1 DEF Parses
  <2> QED
    BY <1>3, <1>4, <2>1 DEF Sound
<1>6. Authored
  BY <1>3, <1>4 DEF Authored
<1>7. \A o \in Output : OneAuthor(o) /\ Agreed(o)
  BY <1>3 DEF OneAuthor, Agreed
<1>8. \A r \in Reader : MapWhole(r)
  BY <1>3 DEF MapWhole
<1> QED
  BY <1>2, <1>5, <1>6, <1>7, <1>8 DEF WInv

\* Both invariants hold.
LEMMA WholeInv == Spec => [](IInv /\ WInv)
<1>1. Init => IInv /\ WInv
  BY InitInvariant, InitIsWhole
<1>2. IInv /\ WInv /\ [Next]_vars => IInv' /\ WInv'
  <2> SUFFICES ASSUME IInv, WInv, [Next]_vars PROVE IInv' /\ WInv'
    OBVIOUS
  <2>1. IInv'
    BY NextKeeps
  <2>2. CASE UNCHANGED vars
    <3>1. UNCHANGED <<file, run, authors, map>>
      BY <2>2 DEF vars
    <3>2. FilesOK' /\ Authored'
      BY <3>1 DEF WInv, FilesOK, Authored, Target
    <3>3. \A b \in Build : Sound(b)'
      BY <3>1 DEF WInv, Sound, Tree
    <3>4. \A o \in Output : OneAuthor(o)' /\ Agreed(o)'
      BY <3>1 DEF WInv, OneAuthor, Agreed, Agree, Tree
    <3>5. \A r \in Reader : MapWhole(r)'
      BY <3>1 DEF WInv, MapWhole
    <3> QED
      BY <2>1, <3>2, <3>3, <3>4, <3>5 DEF WInv
  <2>3. ASSUME NEW b \in Build, NEW c \in Command, Begin(b, c) PROVE WInv'
    BY <2>3, BeginIsWhole
  <2>4. ASSUME NEW b \in Build, ReadInput(b) PROVE WInv'
    BY <2>4, ReadInputIsWhole
  <2>5. ASSUME NEW b \in Build, Create(b) PROVE WInv'
    BY <2>5, CreateIsWhole
  <2>6. ASSUME NEW b \in Build, Write(b) \/ WriteFails(b) PROVE WInv'
    BY <2>6, WritingIsWhole
  <2>7. ASSUME NEW b \in Build, Finish(b) PROVE WInv'
    BY <2>7, EndIsWhole DEF Finish
  <2>8. ASSUME NEW b \in Build, CreateFails(b) PROVE WInv'
    BY <2>8, EndIsWhole DEF CreateFails, AllRead, Ended
  <2>9. ASSUME NEW b \in Build, Killed(b) PROVE WInv'
    BY <2>9, EndIsWhole DEF Killed, Ended
  <2>10. ASSUME NEW r \in Reader, Close(r) \/ \E o \in Output : Open(r, o) PROVE WInv'
    BY <2>10, CloseIsWhole, OpenIsWhole
  <2> QED
    BY <2>1, <2>2, <2>3, <2>4, <2>5, <2>6, <2>7, <2>8, <2>9, <2>10 DEF Next, Step
<1> QED
  BY <1>1, <1>2, PTL DEF Spec

\* Builds, files and readers hold what they should.
THEOREM BuildingTypeCorrect == Spec => []TypeOK
<1>1. IInv /\ WInv => TypeOK
  BY DEF IInv, WInv, RunOK, FilesOK, TypeOK
<1> QED
  BY <1>1, WholeInv, PTL

\* A reader that opens a file only one build has written to, while that build is
\* still writing, after it, or after it failed, gets the whole of one library:
\* the size in the header tells, which is all that Library::open() looks at.
THEOREM ReadersGetWholeLibraries == Spec => []ReadersGetOneLibrary
<1>1. WInv => ReadersGetOneLibrary
  BY DEF WInv, MapWhole, ReadersGetOneLibrary
<1> QED
  BY <1>1, WholeInv, PTL

\* When builds of the same library to the same file overlap and all of them
\* report success, the file is that library, whole, with of every name in their
\* inputs the last definition: nothing any of them wrote is lost, although each
\* of them may have emptied the file below the others.
THEOREM BuildsThatAgreeSucceed == Spec => []SuccessMeansWhole
<1>1. IInv /\ WInv => SuccessMeansWhole
  <2> SUFFICES ASSUME IInv, WInv, NEW o \in Output, authors[o] # {},
                      \A b \in authors[o] : run[b].state = "Ok",
                      Cardinality({Tree(b) : b \in authors[o]}) = 1
               PROVE  /\ Opens(file[o]) /\ IsWhole(file[o])
                      /\ \A b \in authors[o] : ToSet(file[o][1].of) = Wanted(run[b].cmd)
    BY DEF SuccessMeansWhole
  <2>1. authors[o] \in SUBSET Build /\ file[o] \in Seq(AnyBlock)
    BY DEF WInv, FilesOK
  <2>2. PICK tree : {Tree(b) : b \in authors[o]} = {tree}
    <3> DEFINE f == [b \in authors[o] |-> Tree(b)]
               trees == {Tree(b) : b \in authors[o]}
    <3>1. IsFiniteSet(authors[o])
      BY <2>1, FS_Subset, BuildingAssumption
    <3>2. f \in Surjection(authors[o], trees)
      BY DEF Surjection
    <3> HIDE DEF f, trees
    <3>3. IsFiniteSet(trees)
      BY <3>1, <3>2, FS_Surjection
    <3>4. Cardinality(trees) = 1
      BY DEF trees
    <3>5. \E tree : trees = {tree}
      BY <3>3, <3>4, FS_Singleton
    <3> QED
      BY <3>5 DEF trees
  <2>3. \A b \in authors[o] : Tree(b) = tree
    BY <2>2
  <2>4. ASSUME NEW b \in authors[o]
        PROVE  /\ run[b].cmd \in Command /\ Parses(run[b].trees, run[b].cmd.inputs)
               /\ Len(run[b].trees) = Len(run[b].cmd.inputs)
               /\ Tree(b) = Merged(run[b].trees) /\ Tree(b) # <<>>
               /\ run[b].written = Len(Tree(b)) + 1
    BY <2>1, <2>4 DEF WInv, Sound
  <2>5. PICK a \in authors[o] : Tree(a) = tree
    BY <2>3
  <2>6. tree \in Seq(Topic) /\ tree # <<>> /\ Len(tree) \in Nat
    BY <2>1, <2>4, <2>5 DEF IInv, RunOK, Tree
  <2>7. Agree(o, a) /\ Agreed(o)
    BY <2>3, <2>5 DEF Agree, WInv
  <2>8. PatchOf(file[o], tree)
    BY <2>5, <2>7 DEF Agreed
  <2>9. PICK c \in authors[o] : Reaches(file[o], tree, run[c].written)
    BY <2>5, <2>7 DEF Agreed
  <2>10. run[c].written = Len(tree) + 1
    BY <2>3, <2>4
  <2>11. /\ Len(file[o]) = Len(tree) + 1
         /\ \A i \in 1..(Len(tree) + 1) : file[o][i] = Block(tree, i - 1)
    BY <2>1, <2>6, <2>8, <2>9, <2>10 DEF PatchOf, Reaches
  <2>12. /\ BeginOf(file[o], tree) /\ 1 \in 1..(Len(tree) + 1) /\ file[o] # <<>>
         /\ file[o][1] = Block(tree, 0)
    <3>1. 1 \in 1..(Len(tree) + 1) /\ 1 - 1 = 0 /\ Len(file[o]) # 0
      BY <2>6, <2>11
    <3> QED
      BY <2>6, <2>11, <3>1 DEF BeginOf
  <2>13. file[o][1].of = tree /\ file[o][1].part = 0
    BY <2>12 DEF Block
  <2>14. file[o][1] # Hole
    BY <2>6, <2>13 DEF Hole, Block
  <2>15. Opens(file[o])
    BY <2>11, <2>12, <2>13, <2>14 DEF Opens
  <2>16. IsWhole(file[o])
    BY <2>1, <2>6, <2>12, <2>15, OpensWhole
  <2>17. ASSUME NEW b \in authors[o] PROVE ToSet(tree) = Wanted(run[b].cmd)
    BY <2>3, <2>4, MergedIsWanted
  <2> QED
    BY <2>13, <2>15, <2>16, <2>17
<1> QED
  BY <1>1, WholeInv, PTL
=============================================================================
