--------------------------- MODULE HlibFileProofs ---------------------------
(***************************************************************************)
(* What the builder writes is what the library reads, for every tree that  *)
(* fits the fields of the format; and no file is opened that a build left  *)
(* unfinished.  Every position in an image is a sum of the sizes of the    *)
(* items before it, so most of this is about sums.                         *)
(***************************************************************************)
EXTENDS HlibFile, Integers, SequenceTheorems, FiniteSetTheorems, WellFoundedInduction, TLAPS
-----------------------------------------------------------------------------
(***************************************************************************)
(* Sequences, and induction over numbers and sequences                     *)
(***************************************************************************)

\* A set of natural numbers that is not empty holds its minimum.
LEMMA MinIsMember ==
  ASSUME NEW S \in SUBSET Nat, S # {}
  PROVE  Min(S) \in S /\ \A y \in S : Min(S) <= y
<1> DEFINE R == OpToRel(<, Nat)
<1>1. IsWellFoundedOn(R, Nat)
  BY NatLessThanWellFounded
<1> HIDE DEF R
<1>2. PICK x \in S : \A y \in S : ~ (<<y, x>> \in R)
  BY <1>1, WFMin
<1>3. \A y \in S : x <= y
  <2>1. SUFFICES ASSUME NEW y \in S PROVE x <= y
    OBVIOUS
  <2>2. ~ (y < x)
    BY <1>2 DEF R, OpToRel
  <2> QED
    BY <2>2
<1> QED
  BY <1>2, <1>3 DEF Min

\* What truncating a sequence to its first k entries leaves.
LEMMA PrefixProperties ==
  ASSUME NEW S, NEW s \in Seq(S), NEW k \in 0..Len(s)
  PROVE  /\ SubSeq(s, 1, k) \in Seq(S)
         /\ Len(SubSeq(s, 1, k)) = k
         /\ \A i \in 1..k : SubSeq(s, 1, k)[i] = s[i]
         /\ k # 0 => SubSeq(s, 1, k) # <<>>
<1>1. CASE k = 0
  BY <1>1, SubSeqEmpty
<1>2. CASE k # 0
  <2>1. k \in 1..Len(s) /\ \A i \in 1..k : s[i] \in S
    BY <1>2
  <2>2. /\ SubSeq(s, 1, k) \in Seq(S)
        /\ Len(SubSeq(s, 1, k)) = k
        /\ \A i \in 1..k : SubSeq(s, 1, k)[i] = s[i]
    BY <2>1, SubSeqProperties
  <2> QED
    BY <1>2, <2>2, EmptySeq
<1> QED
  BY <1>1, <1>2

\* A set that holds 0 and with every number the next one holds all of them.
LEMMA InductionOnNat ==
  ASSUME NEW S, 0 \in S, \A k \in Nat : k \in S => k + 1 \in S
  PROVE  Nat \subseteq S
<1> DEFINE out == Nat \ S
<1> SUFFICES ASSUME out # {} PROVE FALSE
  OBVIOUS
<1>1. out \in SUBSET Nat
  OBVIOUS
<1>2. Min(out) \in out /\ \A y \in out : Min(out) <= y
  <2> HIDE DEF out
  <2> QED BY <1>1, MinIsMember
<1>3. PICK m \in Nat : m \notin S /\ \A y \in Nat : y \notin S => m <= y
  BY <1>2
<1>4. m # 0 /\ m - 1 \in Nat /\ ~ (m <= m - 1)
  BY <1>3
<1>5. m - 1 \in S
  BY <1>3, <1>4
<1> QED
  BY <1>3, <1>4, <1>5

\* A path that is not empty is its front and its last word.
LEMMA LastSplits ==
  ASSUME NEW S, NEW s \in Seq(S), s # <<>>
  PROVE  \E k \in Nat : /\ Len(s) = k + 1 /\ Front(s) \in Seq(S) /\ Len(Front(s)) = k
                        /\ \A i \in 1..k : Front(s)[i] = s[i]
                        /\ Last(s) = s[k + 1] /\ Last(s) \in S
                        /\ s = Append(Front(s), Last(s))
<1>1. PICK k \in Nat : Len(s) = k + 1
  <2>1. Len(s) \in Nat /\ Len(s) # 0
    BY EmptySeq
  <2>2. \A n \in Nat : n # 0 => n - 1 \in Nat /\ n = (n - 1) + 1
    OBVIOUS
  <2> QED
    BY <2>1, <2>2
<1>2. /\ Front(s) \in Seq(S) /\ Len(Front(s)) = k
      /\ \A i \in 1..k : Front(s)[i] = s[i]
  BY <1>1, PrefixProperties DEF Front
<1>3. Last(s) = s[k + 1] /\ Last(s) \in S
  BY <1>1 DEF Last
<1>4. /\ Append(Front(s), Last(s)) \in Seq(S)
      /\ Len(Append(Front(s), Last(s))) = k + 1
      /\ \A i \in 1..(k + 1) : Append(Front(s), Last(s))[i] = s[i]
  BY <1>2, <1>3
<1>5. s = Append(Front(s), Last(s))
  BY <1>1, <1>4, SeqEqual
<1> QED
  BY <1>1, <1>2, <1>3, <1>5

\* What holds of the empty path, and of a path with one word more than a path
\* it holds of, holds of every path.
LEMMA InductionOnSeq ==
  ASSUME NEW S, NEW T, <<>> \in T,
         \A s \in Seq(S), x \in S : s \in T => Append(s, x) \in T
  PROVE  Seq(S) \subseteq T
<1> DEFINE lengths == {k \in Nat : \A s \in Seq(S) : Len(s) = k => s \in T}
<1>1. 0 \in lengths
  BY EmptySeq
<1>2. ASSUME NEW k \in Nat, k \in lengths
      PROVE  k + 1 \in lengths
  <2>1. SUFFICES ASSUME NEW s \in Seq(S), Len(s) = k + 1
                 PROVE  s \in T
    BY DEF lengths
  <2>2. s # <<>>
    BY <2>1
  <2>3. PICK n \in Nat : /\ Len(s) = n + 1 /\ Front(s) \in Seq(S) /\ Len(Front(s)) = n
                         /\ Last(s) \in S /\ s = Append(Front(s), Last(s))
    BY <2>2, LastSplits
  <2>4. Front(s) \in T
    BY <1>2, <2>1, <2>3
  <2> QED
    BY <2>3, <2>4
<1> HIDE DEF lengths
<1>3. Nat \subseteq lengths
  BY <1>1, <1>2, InductionOnNat
<1> QED
  BY <1>3 DEF lengths

\* What FlattenSeq has put together after each sequence
Partial(f, ss) ==
  f = [i \in 1..Len(ss) |-> IF i = 1 THEN ss[i] ELSE f[i - 1] \o ss[i]]

\* The function exists,
LEMMA PartialExists ==
  ASSUME NEW S, NEW ss \in Seq(S)
  PROVE  \E f : Partial(f, ss)
<1> DEFINE T == {s \in Seq(S) : \E f : Partial(f, s)}
<1>1. <<>> \in T
  <2>1. <<>> \in Seq(S) /\ 1..Len(<<>>) = {}
    OBVIOUS
  <2>2. Partial([i \in {} |-> <<>>], <<>>)
    BY <2>1 DEF Partial
  <2> QED
    BY <2>1, <2>2
<1>2. ASSUME NEW s \in Seq(S), NEW x \in S, s \in T
      PROVE  Append(s, x) \in T
  <2> DEFINE n == Len(s)
             t == Append(s, x)
  <2>1. PICK f : Partial(f, s)
    BY <1>2
  <2>2. \A i \in 1..n : f[i] = IF i = 1 THEN s[i] ELSE f[i - 1] \o s[i]
    BY <2>1 DEF Partial
  <2>3. /\ n \in Nat /\ t \in Seq(S) /\ Len(t) = n + 1
        /\ \A i \in 1..n : t[i] = s[i]
    BY AppendProperties
  <2> HIDE DEF n, t
  <2> DEFINE g == [i \in 1..(n + 1) |->
                    IF i = n + 1 THEN IF i = 1 THEN t[i] ELSE f[i - 1] \o t[i] ELSE f[i]]
  <2>4. \A i \in 1..(n + 1) : g[i] = IF i = 1 THEN t[i] ELSE g[i - 1] \o t[i]
    <3> TAKE i \in 1..(n + 1)
    <3>1. CASE i = n + 1
      <4>1. i # 1 => g[i - 1] = f[i - 1]
        BY <2>3, <3>1
      <4> QED
        BY <3>1, <4>1
    <3>2. CASE i # n + 1
      <4>1. i \in 1..n /\ (i # 1 => i - 1 \in 1..(n + 1) /\ i - 1 # n + 1)
        BY <2>3, <3>2
      <4>2. g[i] = f[i] /\ (i # 1 => g[i - 1] = f[i - 1])
        BY <3>2, <4>1
      <4> QED
        BY <2>2, <2>3, <4>1, <4>2
    <3> QED
      BY <3>1, <3>2
  <2>5. Partial(g, t)
    <3>1. g = [i \in 1..Len(t) |-> g[i]]
      BY <2>3
    <3> HIDE DEF g
    <3> QED
      BY <2>3, <2>4, <3>1 DEF Partial
  <2> HIDE DEF g
  <2> QED
    BY <2>3, <2>5 DEF t
<1> HIDE DEF T
<1>3. Seq(S) \subseteq T
  BY <1>1, <1>2, InductionOnSeq
<1> QED
  BY <1>3 DEF T

\* The same beginning
SameUpTo(n, s, t) == \A i \in 1..n : s[i] = t[i]

\* On a common beginning two of them agree.
LEMMA PartialsAgree ==
  ASSUME NEW S, NEW s \in Seq(S), NEW t \in Seq(S), NEW f, NEW g,
         Partial(f, s), Partial(g, t), NEW n \in Nat, n <= Len(s), n <= Len(t),
         SameUpTo(n, s, t)
  PROVE  SameUpTo(n, f, g)
<1>1. \A i \in 1..n : /\ f[i] = IF i = 1 THEN s[i] ELSE f[i - 1] \o s[i]
                      /\ g[i] = IF i = 1 THEN s[i] ELSE g[i - 1] \o s[i]
  <2>1. /\ \A i \in 1..Len(s) : f[i] = IF i = 1 THEN s[i] ELSE f[i - 1] \o s[i]
        /\ \A i \in 1..Len(t) : g[i] = IF i = 1 THEN t[i] ELSE g[i - 1] \o t[i]
    BY DEF Partial
  <2>2. \A i \in 1..n : i \in 1..Len(s) /\ i \in 1..Len(t)
    OBVIOUS
  <2> QED
    BY <2>1, <2>2 DEF SameUpTo
<1> DEFINE same == {k \in Nat : k + 1 <= n => f[k + 1] = g[k + 1]}
<1>2. 0 \in same
  <2>1. n >= 1 => 1 \in 1..n
    OBVIOUS
  <2>2. n >= 1 => f[1] = g[1]
    BY <1>1, <2>1
  <2> QED
    BY <2>2
<1>3. ASSUME NEW k \in Nat, k \in same
      PROVE  k + 1 \in same
  <2>1. CASE (k + 1) + 1 <= n
    <3>1. /\ (k + 1) + 1 \in 1..n /\ (k + 1) + 1 # 1 /\ ((k + 1) + 1) - 1 = k + 1
          /\ f[k + 1] = g[k + 1]
      BY <1>3, <2>1
    <3>2. /\ f[(k + 1) + 1] = f[k + 1] \o s[(k + 1) + 1]
          /\ g[(k + 1) + 1] = g[k + 1] \o s[(k + 1) + 1]
      BY <1>1, <3>1
    <3>3. f[(k + 1) + 1] = g[(k + 1) + 1]
      BY <3>1, <3>2
    <3> QED
      BY <3>3
  <2>2. CASE ~ ((k + 1) + 1 <= n)
    BY <2>2
  <2> QED
    BY <2>1, <2>2
<1>4. Nat \subseteq same
  <2> HIDE DEF same
  <2> QED
    BY <1>2, <1>3, InductionOnNat
<1>5. ASSUME NEW i \in 1..n PROVE f[i] = g[i]
  <2>1. i - 1 \in Nat /\ (i - 1) + 1 = i /\ i <= n
    OBVIOUS
  <2> QED
    BY <1>4, <2>1
<1> QED
  BY <1>5 DEF SameUpTo

\* and it is what FlattenSeq takes its value from.
LEMMA FlattenSeqIsPartial ==
  ASSUME NEW S, NEW ss \in Seq(S), Len(ss) # 0
  PROVE  \E f : Partial(f, ss) /\ FlattenSeq(ss) = f[Len(ss)]
<1> DEFINE flatten == CHOOSE f : Partial(f, ss)
<1>1. FlattenSeq(ss) = flatten[Len(ss)]
  BY DEF FlattenSeq, Partial
<1>2. Partial(flatten, ss)
  BY PartialExists
<1> QED
  BY <1>1, <1>2

\* One sequence more is appended to what there was.
LEMMA FlattenSeqStep ==
  ASSUME NEW S, NEW ss \in Seq(Seq(S)), NEW t \in Seq(S), FlattenSeq(ss) \in Seq(S)
  PROVE  FlattenSeq(Append(ss, t)) = FlattenSeq(ss) \o t
<1> DEFINE tt == Append(ss, t)
           n == Len(ss)
<1>1. /\ n \in Nat /\ tt \in Seq(Seq(S)) /\ Len(tt) = n + 1 /\ tt[n + 1] = t
      /\ \A i \in 1..n : tt[i] = ss[i]
  BY AppendProperties
<1>2. PICK g : Partial(g, tt) /\ FlattenSeq(tt) = g[n + 1]
  <2>1. Len(tt) # 0
    BY <1>1
  <2> HIDE DEF tt, n
  <2> QED
    BY <1>1, <2>1, FlattenSeqIsPartial
<1>3. g[n + 1] = IF n + 1 = 1 THEN t ELSE g[(n + 1) - 1] \o t
  <2>1. \A i \in 1..Len(tt) : g[i] = IF i = 1 THEN tt[i] ELSE g[i - 1] \o tt[i]
    BY <1>2 DEF Partial
  <2>2. n + 1 \in 1..Len(tt)
    BY <1>1
  <2> HIDE DEF tt
  <2> QED
    BY <1>1, <2>1, <2>2
<1>4. CASE n = 0
  <2>1. ss = <<>> /\ FlattenSeq(ss) = ss
    BY <1>4, EmptySeq DEF FlattenSeq
  <2>2. FlattenSeq(tt) = t
    BY <1>2, <1>3, <1>4
  <2> QED
    BY <2>1, <2>2, ConcatEmptySeq
<1>5. CASE n # 0
  <2>1. PICK f : Partial(f, ss) /\ FlattenSeq(ss) = f[n]
    BY <1>5, FlattenSeqIsPartial
  <2>2. n \in 1..n /\ (n + 1) - 1 = n /\ n + 1 # 1 /\ n <= Len(tt) /\ n <= n
    BY <1>1, <1>5
  <2>3. n = Len(ss) /\ ss \in Seq(Seq(S))
    OBVIOUS
  <2> HIDE DEF n, tt
  <2>4. SameUpTo(n, ss, tt)
    BY <1>1 DEF SameUpTo
  <2>5. SameUpTo(n, f, g)
    BY <1>1, <1>2, <2>1, <2>2, <2>3, <2>4, PartialsAgree
  <2>6. f[n] = g[n]
    BY <2>2, <2>5 DEF SameUpTo
  <2> QED
    BY <1>2, <1>3, <2>1, <2>2, <2>6 DEF tt
<1> QED
  BY <1>4, <1>5

\* FlattenSeq of sequences is a sequence of their entries.
LEMMA FlattenSeqIsSeq ==
  ASSUME NEW S, NEW ss \in Seq(Seq(S))
  PROVE  FlattenSeq(ss) \in Seq(S)
<1> DEFINE T == {tt \in Seq(Seq(S)) : FlattenSeq(tt) \in Seq(S)}
<1>1. <<>> \in T
  BY DEF FlattenSeq
<1>2. ASSUME NEW tt \in Seq(Seq(S)), NEW t \in Seq(S), tt \in T
      PROVE  Append(tt, t) \in T
  <2>1. FlattenSeq(Append(tt, t)) = FlattenSeq(tt) \o t
    BY <1>2, FlattenSeqStep
  <2>2. Append(tt, t) \in Seq(Seq(S)) /\ FlattenSeq(tt) \o t \in Seq(S)
    BY <1>2
  <2> QED
    BY <2>1, <2>2
<1> HIDE DEF T
<1>3. Seq(Seq(S)) \subseteq T
  BY <1>1, <1>2, InductionOnSeq
<1> QED
  BY <1>3 DEF T
-----------------------------------------------------------------------------
(***************************************************************************)
(* Arithmetic on u32                                                       *)
(***************************************************************************)

\* A number is a multiple of OffsetLimit and what U32 leaves of it,
LEMMA U32Splits ==
  \A a \in Nat : /\ a \div OffsetLimit \in Nat
                 /\ U32(a) \in Nat /\ U32(a) < OffsetLimit
                 /\ a = OffsetLimit * (a \div OffsetLimit) + U32(a)
BY LimitAssumption DEF U32

\* in one way only.
LEMMA U32Rest ==
  \A q, r \in Nat : r < OffsetLimit => U32(OffsetLimit * q + r) = r
BY LimitAssumption DEF U32

\* What fits is left as it is.
LEMMA U32Fits == \A a \in Nat : a < OffsetLimit => U32(a) = a
BY LimitAssumption DEF U32

LEMMA U16Fits == \A a \in Nat : a < CountLimit => U16(a) = a
BY LimitAssumption DEF U16

\* A sum can be cut before or after it is taken.
LEMMA U32OfSum ==
  \A a, b \in Nat : U32(U32(a) + U32(b)) = U32(a + b)
<1> TAKE a, b \in Nat
<1>1. PICK q, r \in Nat : r = U32(a) /\ a = OffsetLimit * q + r
  BY U32Splits
<1>2. PICK p, s \in Nat : s = U32(b) /\ b = OffsetLimit * p + s
  BY U32Splits
<1>3. PICK m, u \in Nat : u = U32(r + s) /\ u < OffsetLimit /\ r + s = OffsetLimit * m + u
  <2>1. r + s \in Nat
    OBVIOUS
  <2> QED
    BY <2>1, U32Splits
<1>4. a + b = OffsetLimit * ((q + p) + m) + u
  <2>1. OffsetLimit * ((q + p) + m) = (OffsetLimit * q + OffsetLimit * p) + OffsetLimit * m
    BY LimitAssumption
  <2>2. /\ OffsetLimit * q \in Nat /\ OffsetLimit * p \in Nat /\ OffsetLimit * m \in Nat
    BY LimitAssumption
  <2> QED
    BY <1>1, <1>2, <1>3, <2>1, <2>2
<1>5. U32(OffsetLimit * ((q + p) + m) + u) = u
  <2>1. (q + p) + m \in Nat
    OBVIOUS
  <2> QED
    BY <1>3, <2>1, U32Rest
<1> QED
  BY <1>1, <1>2, <1>3, <1>4, <1>5

\* So sums of what U32 leaves alike are left alike.
LEMMA U32SumsAgree ==
  \A a, b, c, d \in Nat : U32(a) = U32(c) /\ U32(b) = U32(d) => U32(a + b) = U32(c + d)
BY U32OfSum

\* The size of a table, and what is left of it when the count of bytes did not fit
LEMMA TablesAreAligned ==
  \A k \in Nat : /\ Align8(4 * k) \in Nat /\ Align8(4 * k) >= 4 * k
                 /\ Align8(U32(4 * k)) \in Nat
                 /\ U32(Align8(U32(4 * k))) = U32(Align8(4 * k))
<1> TAKE k \in Nat
<1>1. PICK M \in Nat : OffsetLimit = 8 * M
  BY LimitAssumption
<1>2. PICK q, r \in Nat : r = U32(4 * k) /\ 4 * k = OffsetLimit * q + r
  <2>1. 4 * k \in Nat
    OBVIOUS
  <2> QED
    BY <2>1, U32Splits
<1>3. 4 * k = r + 8 * (M * q)
  BY <1>1, <1>2
<1>4. PICK m \in Nat : m = M * q
  OBVIOUS
<1>5. Align8(4 * k) = Align8(r) + 8 * m
  BY <1>3, <1>4 DEF Align8
<1>6. Align8(r) \in Nat
  BY DEF Align8
<1>7. 8 * m = OffsetLimit * q
  BY <1>1, <1>4
<1>8. U32(Align8(r) + OffsetLimit * q) = U32(Align8(r))
  <2>1. PICK p, u \in Nat : /\ u = U32(Align8(r)) /\ u < OffsetLimit
                            /\ Align8(r) = OffsetLimit * p + u
    BY <1>6, U32Splits
  <2>2. Align8(r) + OffsetLimit * q = OffsetLimit * (p + q) + u
    BY <2>1, LimitAssumption
  <2>3. p + q \in Nat
    OBVIOUS
  <2>4. U32(OffsetLimit * (p + q) + u) = u
    BY <2>1, <2>3, U32Rest
  <2> QED
    BY <2>1, <2>2, <2>4
<1>9. Align8(4 * k) \in Nat /\ Align8(4 * k) >= 4 * k
  BY DEF Align8
<1> QED
  BY <1>2, <1>5, <1>6, <1>7, <1>8, <1>9

-----------------------------------------------------------------------------
(***************************************************************************)
(* Where the items of a list lie: sums of sizes                            *)
(***************************************************************************)
Sized(S) == \A x \in S : x.size \in Nat

\* How long the items are together
Total(s) == Positions(s)[Len(s) + 1]

\* What f gathers from v on when each step is g
Gathers(f, v, n, g) == f[0] = v /\ \A i \in 1..n : f[i] = g[<<f[i - 1], i>>]
StaysIn(V, n, g) == \A x \in V, i \in 1..n : g[<<x, i>>] \in V

\* What is gathered step by step is a function.
LEMMA AccumulatorExists ==
  ASSUME NEW V, NEW v \in V, NEW n \in Nat, NEW g, StaysIn(V, n, g)
  PROVE  \E f \in [0..n -> V] : Gathers(f, v, n, g)
<1> DEFINE T == {m \in Nat : m <= n => \E f \in [0..m -> V] : Gathers(f, v, m, g)}
<1>1. 0 \in T
  <2> DEFINE f == [i \in 0..0 |-> v]
  <2>1. f \in [0..0 -> V] /\ Gathers(f, v, 0, g)
    BY DEF Gathers
  <2> QED
    BY <2>1
<1>2. ASSUME NEW m \in Nat, m \in T PROVE m + 1 \in T
  <2> SUFFICES ASSUME m + 1 <= n
               PROVE  \E f \in [0..(m + 1) -> V] : Gathers(f, v, m + 1, g)
    BY DEF T
  <2>1. PICK f \in [0..m -> V] : f[0] = v /\ \A i \in 1..m : f[i] = g[<<f[i - 1], i>>]
    BY <1>2 DEF Gathers
  <2> DEFINE h == [i \in 0..(m + 1) |-> IF i = m + 1 THEN g[<<f[m], m + 1>>] ELSE f[i]]
  <2>2. g[<<f[m], m + 1>>] \in V
    <3>1. f[m] \in V /\ m + 1 \in 1..n
      BY <2>1
    <3> QED
      BY <3>1 DEF StaysIn
  <2>3. h \in [0..(m + 1) -> V]
    BY <2>1, <2>2
  <2>4. \A i \in 0..m : h[i] = f[i]
    OBVIOUS
  <2>5. h[m + 1] = g[<<f[m], m + 1>>]
    OBVIOUS
  <2> HIDE DEF h
  <2>6. h[0] = v
    BY <2>1, <2>4
  <2>7. ASSUME NEW i \in 1..(m + 1) PROVE h[i] = g[<<h[i - 1], i>>]
    <3>1. CASE i = m + 1
      <4>1. h[i - 1] = f[m]
        BY <2>4, <3>1
      <4> QED
        BY <2>5, <3>1, <4>1
    <3>2. CASE i # m + 1
      <4>1. i \in 1..m /\ i \in 0..m /\ i - 1 \in 0..m
        BY <3>2
      <4>2. h[i] = f[i] /\ h[i - 1] = f[i - 1]
        BY <2>4, <4>1
      <4> QED
        BY <2>1, <4>1, <4>2
    <3> QED
      BY <3>1, <3>2
  <2> QED
    BY <2>3, <2>6, <2>7 DEF Gathers
<1>3. Nat \subseteq T
  <2> HIDE DEF T
  <2> QED
    BY <1>1, <1>2, InductionOnNat
<1> QED
  BY <1>3

\* An item begins where the one before it ends.
LEMMA PositionsAre ==
  ASSUME NEW S, Sized(S), NEW s \in Seq(S)
  PROVE  /\ Positions(s) \in [1..(Len(s) + 1) -> Nat]
         /\ Positions(s)[1] = 0
         /\ \A i \in 1..Len(s) : Positions(s)[i + 1] = Positions(s)[i] + s[i].size
<1> DEFINE n == Len(s)
           size(i) == s[i].size
           g == [p \in Nat \X (1..n) |-> p[1] + size(p[2])]
<1>1. n \in Nat /\ \A i \in 1..n : size(i) \in Nat
  BY DEF Sized
<1>2. PICK f \in [0..n -> Nat] : Gathers(f, 0, n, g)
  <2>1. StaysIn(Nat, n, g)
    BY <1>1 DEF StaysIn
  <2> HIDE DEF g, n, size
  <2> QED
    BY <1>1, <2>1, AccumulatorExists
<1>3. \A i \in 1..n : f[i] = f[i - 1] + size(i)
  <2> TAKE i \in 1..n
  <2>1. f[i - 1] \in Nat
    BY <1>1
  <2>2. <<f[i - 1], i>> \in Nat \X (1..n)
    BY <2>1
  <2>3. g[<<f[i - 1], i>>] = f[i - 1] + size(i)
    BY <2>2
  <2> QED
    BY <1>2, <2>3 DEF Gathers
<1> DEFINE h == [i \in 1..(n + 1) |-> f[i - 1]]
           sums(k) == [i \in 1..(n + 1) |-> IF i = 1 THEN 0 ELSE k[i - 1] + size(i - 1)]
<1>4. h = sums(h)
  <2> SUFFICES ASSUME NEW i \in 1..(n + 1)
               PROVE  f[i - 1] = IF i = 1 THEN 0 ELSE h[i - 1] + size(i - 1)
    OBVIOUS
  <2>1. CASE i = 1
    BY <1>2, <2>1 DEF Gathers
  <2>2. CASE i # 1
    <3>1. i - 1 \in 1..n /\ i - 1 \in 1..(n + 1)
      BY <1>1, <2>2
    <3>2. h[i - 1] = f[(i - 1) - 1]
      BY <3>1
    <3> QED
      BY <1>3, <2>2, <3>1, <3>2
  <2> QED
    BY <2>1, <2>2
<1> DEFINE at == CHOOSE k : k = sums(k)
<1>5. Positions(s) = at
  BY DEF Positions
<1>6. at = sums(at)
  <2> HIDE DEF h, sums
  <2> QED
    BY <1>4
<1> HIDE DEF at
<1>7. \A i \in 1..(n + 1) : at[i] = IF i = 1 THEN 0 ELSE at[i - 1] + size(i - 1)
  BY <1>6
<1>8. at[1] = 0
  <2>1. 1 \in 1..(n + 1)
    BY <1>1
  <2> QED
    BY <1>7, <2>1
<1>9. \A i \in 1..n : at[i + 1] = at[i] + size(i)
  <2> TAKE i \in 1..n
  <2>1. i + 1 \in 1..(n + 1) /\ i + 1 # 1 /\ (i + 1) - 1 = i
    BY <1>1
  <2> QED
    BY <1>7, <2>1
<1>10. \A i \in 1..(n + 1) : at[i] \in Nat
  <2> DEFINE T == {k \in Nat : k <= n => at[k + 1] \in Nat}
  <2>1. 0 \in T
    BY <1>8
  <2>2. ASSUME NEW k \in Nat, k \in T PROVE k + 1 \in T
    <3> SUFFICES ASSUME k + 1 <= n PROVE at[(k + 1) + 1] \in Nat
      OBVIOUS
    <3>1. k + 1 \in 1..n /\ at[k + 1] \in Nat
      BY <1>1, <2>2
    <3> QED
      BY <1>1, <1>9, <3>1
  <2>3. Nat \subseteq T
    <3> HIDE DEF T
    <3> QED
      BY <2>1, <2>2, InductionOnNat
  <2> TAKE i \in 1..(n + 1)
  <2>4. i - 1 \in Nat /\ i - 1 <= n /\ (i - 1) + 1 = i
    BY <1>1
  <2> QED
    BY <2>3, <2>4
<1>11. at \in [1..(n + 1) -> Nat]
  BY <1>6, <1>10
<1> QED
  BY <1>5, <1>8, <1>9, <1>11

\* The length of a list of items is a number; of the empty list it is 0.
LEMMA TotalIsNat ==
  ASSUME NEW S, Sized(S)
  PROVE  /\ Total(<<>>) = 0
         /\ \A s \in Seq(S) : Total(s) \in Nat
<1>1. \A s \in Seq(S) : Total(s) \in Nat
  <2> TAKE s \in Seq(S)
  <2>1. Positions(s) \in [1..(Len(s) + 1) -> Nat]
    BY PositionsAre
  <2>2. Len(s) + 1 \in 1..(Len(s) + 1)
    OBVIOUS
  <2> QED
    BY <2>1, <2>2 DEF Total
<1>2. Total(<<>>) = 0
  <2> DEFINE none == <<>>
  <2>1. none \in Seq(S) /\ Len(none) = 0
    OBVIOUS
  <2> HIDE DEF none
  <2>2. Positions(none)[1] = 0
    BY <2>1, PositionsAre
  <2>3. Len(none) + 1 = 1
    BY <2>1
  <2>4. Total(none) = 0
    BY <2>2, <2>3 DEF Total
  <2> QED
    BY <2>4 DEF none
<1> QED
  BY <1>1, <1>2

\* In two lists put together the items of the first lie where they did, and
\* those of the second as far behind its length as they lay from 0.
LEMMA PositionsOfConcat ==
  ASSUME NEW S, Sized(S), NEW a \in Seq(S), NEW b \in Seq(S)
  PROVE  /\ \A i \in 1..(Len(a) + 1) : Positions(a \o b)[i] = Positions(a)[i]
         /\ \A i \in 1..(Len(b) + 1) : Positions(a \o b)[Len(a) + i] = Total(a) + Positions(b)[i]
<1> DEFINE m == Len(a)
           n == Len(b)
           s == a \o b
           pa == Positions(a)
           pb == Positions(b)
           ps == Positions(s)
<1>1. /\ m \in Nat /\ n \in Nat /\ s \in Seq(S) /\ Len(s) = m + n
      /\ \A i \in 1..m : i \in 1..(m + n) /\ s[i] = a[i]
      /\ \A i \in 1..n : m + i \in 1..(m + n) /\ s[m + i] = b[i]
  <2>1. /\ s \in Seq(S) /\ Len(s) = m + n /\ m \in Nat /\ n \in Nat
        /\ \A k \in 1..(m + n) : s[k] = IF k <= m THEN a[k] ELSE b[k - m]
    BY ConcatProperties
  <2> HIDE DEF s, m, n
  <2>2. \A i \in 1..m : i \in 1..(m + n) /\ s[i] = a[i]
    BY <2>1
  <2>3. \A i \in 1..n : m + i \in 1..(m + n) /\ ~ (m + i <= m) /\ (m + i) - m = i
    BY <2>1
  <2>4. \A i \in 1..n : s[m + i] = b[i]
    BY <2>1, <2>3
  <2> QED
    BY <2>1, <2>2, <2>3, <2>4
<1>2. /\ pa \in [1..(m + 1) -> Nat] /\ pa[1] = 0
      /\ \A i \in 1..m : pa[i + 1] = pa[i] + a[i].size
  BY PositionsAre
<1>3. /\ pb \in [1..(n + 1) -> Nat] /\ pb[1] = 0
      /\ \A i \in 1..n : pb[i + 1] = pb[i] + b[i].size
  BY PositionsAre
<1>4. /\ ps \in [1..(Len(s) + 1) -> Nat] /\ ps[1] = 0
      /\ \A i \in 1..Len(s) : ps[i + 1] = ps[i] + s[i].size
  <2> HIDE DEF s
  <2> QED
    BY <1>1, PositionsAre
<1>5. Total(a) = pa[m + 1]
  BY DEF Total
<1>6. \A i \in 1..n : b[i].size \in Nat
  BY DEF Sized
<1> HIDE DEF m, n, s, pa, pb, ps
<1>7. \A i \in 1..(m + 1) : ps[i] = pa[i]
  <2> DEFINE T == {k \in Nat : k <= m => ps[k + 1] = pa[k + 1]}
  <2>1. 0 \in T
    BY <1>2, <1>4
  <2>2. ASSUME NEW k \in Nat, k \in T PROVE k + 1 \in T
    <3> SUFFICES ASSUME k + 1 <= m PROVE ps[(k + 1) + 1] = pa[(k + 1) + 1]
      OBVIOUS
    <3>1. k + 1 \in 1..m /\ ps[k + 1] = pa[k + 1]
      BY <1>1, <2>2
    <3>2. k + 1 \in 1..Len(s) /\ s[k + 1] = a[k + 1]
      BY <1>1, <3>1
    <3>3. ps[(k + 1) + 1] = ps[k + 1] + s[k + 1].size
      BY <1>4, <3>2
    <3>4. pa[(k + 1) + 1] = pa[k + 1] + a[k + 1].size
      BY <1>2, <3>1
    <3> QED
      BY <3>1, <3>2, <3>3, <3>4
  <2>3. Nat \subseteq T
    <3> HIDE DEF T
    <3> QED
      BY <2>1, <2>2, InductionOnNat
  <2> TAKE i \in 1..(m + 1)
  <2>4. i - 1 \in Nat /\ i - 1 <= m /\ (i - 1) + 1 = i
    BY <1>1
  <2> QED
    BY <2>3, <2>4
<1>8. \A i \in 1..(n + 1) : ps[m + i] = pa[m + 1] + pb[i]
  <2> DEFINE T == {k \in Nat : k <= n => ps[m + (k + 1)] = pa[m + 1] + pb[k + 1]}
  <2>0. pa[m + 1] \in Nat /\ m + 1 \in 1..(m + 1) /\ \A i \in 1..(n + 1) : pb[i] \in Nat
    <3>1. m + 1 \in 1..(m + 1)
      BY <1>1
    <3> QED
      BY <1>2, <1>3, <3>1
  <2>1. 0 \in T
    <3>1. ps[m + 1] = pa[m + 1] /\ 0 + 1 = 1
      BY <1>7, <2>0
    <3>2. ps[m + (0 + 1)] = pa[m + 1] + pb[0 + 1]
      BY <1>3, <2>0, <3>1
    <3> QED
      BY <3>2
  <2>2. ASSUME NEW k \in Nat, k \in T PROVE k + 1 \in T
    <3> SUFFICES ASSUME k + 1 <= n
                 PROVE  ps[m + ((k + 1) + 1)] = pa[m + 1] + pb[(k + 1) + 1]
      OBVIOUS
    <3>1. k + 1 \in 1..n /\ k + 1 \in 1..(n + 1) /\ ps[m + (k + 1)] = pa[m + 1] + pb[k + 1]
      BY <1>1, <2>2
    <3>2. m + (k + 1) \in 1..Len(s) /\ s[m + (k + 1)] = b[k + 1]
      BY <1>1, <3>1
    <3> DEFINE j == m + (k + 1)
    <3>3. j + 1 = m + ((k + 1) + 1)
      BY <1>1
    <3> HIDE DEF j
    <3>6. ps[j + 1] = ps[j] + s[j].size
      BY <1>4, <3>2 DEF j
    <3>7. ps[j] = pa[m + 1] + pb[k + 1] /\ s[j] = b[k + 1]
      BY <3>1, <3>2 DEF j
    <3>4. pb[(k + 1) + 1] = pb[k + 1] + b[k + 1].size
      BY <1>3, <3>1
    <3>5. pb[k + 1] \in Nat /\ b[k + 1].size \in Nat
      BY <1>6, <2>0, <3>1
    <3>8. ps[j + 1] = (pa[m + 1] + pb[k + 1]) + b[k + 1].size
      BY <3>6, <3>7
    <3>9. \A x, y, z \in Nat : (x + y) + z = x + (y + z)
      OBVIOUS
    <3>10. (pa[m + 1] + pb[k + 1]) + b[k + 1].size = pa[m + 1] + (pb[k + 1] + b[k + 1].size)
      BY <2>0, <3>5, <3>9
    <3>11. ps[j + 1] = pa[m + 1] + pb[(k + 1) + 1]
      BY <3>4, <3>8, <3>10
    <3> QED
      BY <3>3, <3>11
  <2>3. Nat \subseteq T
    <3> HIDE DEF T
    <3> QED
      BY <2>1, <2>2, InductionOnNat
  <2> TAKE i \in 1..(n + 1)
  <2>4. i - 1 \in Nat /\ i - 1 <= n /\ (i - 1) + 1 = i
    BY <1>1
  <2> QED
    BY <2>3, <2>4
<1> QED
  BY <1>5, <1>7, <1>8 DEF m, n, s, pa, pb, ps

\* Together they are as long as each by itself.
LEMMA TotalOfConcat ==
  ASSUME NEW S, Sized(S), NEW a \in Seq(S), NEW b \in Seq(S)
  PROVE  a \o b \in Seq(S) /\ Total(a \o b) = Total(a) + Total(b)
<1>1. /\ a \o b \in Seq(S) /\ Len(a \o b) = Len(a) + Len(b)
      /\ Len(a) \in Nat /\ Len(b) \in Nat
  BY ConcatProperties
<1>2. Positions(a \o b)[Len(a) + (Len(b) + 1)] = Total(a) + Positions(b)[Len(b) + 1]
  <2>1. \A i \in 1..(Len(b) + 1) : Positions(a \o b)[Len(a) + i] = Total(a) + Positions(b)[i]
    BY PositionsOfConcat
  <2>2. Len(b) + 1 \in 1..(Len(b) + 1)
    BY <1>1
  <2> QED
    BY <2>1, <2>2
<1>3. Len(a \o b) + 1 = Len(a) + (Len(b) + 1)
  BY <1>1
<1> QED
  BY <1>1, <1>2, <1>3 DEF Total

\* One item more makes the list longer by its size.
LEMMA TotalOfOne ==
  ASSUME NEW S, Sized(S), NEW x \in S
  PROVE  <<x>> \in Seq(S) /\ Total(<<x>>) = x.size
<1> DEFINE s == <<x>>
<1>1. s \in Seq(S) /\ Len(s) = 1 /\ s[1] = x /\ x.size \in Nat
  BY DEF Sized
<1> HIDE DEF s
<1>2. Positions(s)[1] = 0 /\ Positions(s)[1 + 1] = Positions(s)[1] + s[1].size
  <2>1. 1 \in 1..Len(s)
    BY <1>1
  <2>2. Positions(s)[1] = 0 /\ \A i \in 1..Len(s) : Positions(s)[i + 1] = Positions(s)[i] + s[i].size
    BY <1>1, PositionsAre
  <2> QED
    BY <2>1, <2>2
<1>3. Total(s) = x.size
  BY <1>1, <1>2 DEF Total
<1> QED
  BY <1>1, <1>3 DEF s

Solid(S) == \A x \in S : x.size \in Nat \ {0}

\* The image that a list of items makes
ImageOf(items) ==
  LET at == Positions(items)
  IN  [size |-> at[Len(items) + 1],
       item |-> [p \in {at[i] : i \in DOMAIN items} |->
                   items[CHOOSE i \in DOMAIN items : at[i] = p]]]

\* All items of a list are found in an image, and nothing else.
Holds(image, s) ==
  /\ image.size = Total(s) /\ Total(s) \in Nat
  /\ DOMAIN image.item = {Positions(s)[i] : i \in 1..Len(s)}
  /\ \A i \in 1..Len(s) : /\ image.item[Positions(s)[i]] = s[i]
                          /\ Positions(s)[i] \in Nat
                          /\ Positions(s)[i] + s[i].size <= Total(s)

\* An item is found at a position of an image.
Finds(image, p, x) ==
  /\ p \in DOMAIN image.item /\ image.item[p] = x
  /\ p + x.size <= image.size

\* Every item ends where a later one begins, or before.
LEMMA ItemsDoNotOverlap ==
  ASSUME NEW S, Sized(S), NEW s \in Seq(S), NEW i \in 1..Len(s)
  PROVE  \A j \in (i + 1)..(Len(s) + 1) : Positions(s)[i] + s[i].size <= Positions(s)[j]
<1> DEFINE n == Len(s)
           at == Positions(s)
<1>1. /\ n \in Nat /\ at \in [1..(n + 1) -> Nat]
      /\ \A k \in 1..n : at[k + 1] = at[k] + s[k].size /\ s[k].size \in Nat
  <2>1. /\ at \in [1..(n + 1) -> Nat]
        /\ \A k \in 1..n : at[k + 1] = at[k] + s[k].size
    BY PositionsAre
  <2> QED
    BY <2>1 DEF Sized
<1> HIDE DEF n, at
<1> DEFINE ends == at[i] + s[i].size
           T == {k \in Nat : i + 1 <= k /\ k <= n => ends <= at[k + 1]}
<1>2. i \in 1..n /\ at[i] \in Nat /\ ends \in Nat /\ at[i + 1] = ends
  <2>1. i \in 1..n
    BY DEF n
  <2>2. i \in 1..(n + 1)
    BY <1>1, <2>1
  <2>3. at[i + 1] = at[i] + s[i].size /\ s[i].size \in Nat /\ at[i] \in Nat
    BY <1>1, <2>1, <2>2
  <2> QED
    BY <2>1, <2>3
<1> HIDE DEF ends
<1>3. 0 \in T
  BY <1>2
<1>4. ASSUME NEW k \in Nat, k \in T PROVE k + 1 \in T
  <2> SUFFICES ASSUME i + 1 <= k + 1, k + 1 <= n PROVE ends <= at[(k + 1) + 1]
    OBVIOUS
  <2>1. k + 1 \in 1..n /\ k + 1 \in 1..(n + 1)
    BY <1>1
  <2>2. at[(k + 1) + 1] = at[k + 1] + s[k + 1].size /\ s[k + 1].size \in Nat /\ at[k + 1] \in Nat
    BY <1>1, <2>1
  <2>3. ends <= at[k + 1]
    <3>1. CASE k = i
      BY <1>2, <2>2, <3>1
    <3>2. CASE k # i
      <4>1. i + 1 <= k /\ k <= n
        BY <1>1, <1>2, <3>2
      <4> QED
        BY <1>4, <4>1
    <3> QED
      BY <3>1, <3>2
  <2> QED
    BY <1>2, <2>2, <2>3
<1>5. Nat \subseteq T
  <2> HIDE DEF T
  <2> QED
    BY <1>3, <1>4, InductionOnNat
<1>6. ASSUME NEW j \in (i + 1)..(n + 1) PROVE ends <= at[j]
  <2>1. CASE j = i + 1
    BY <1>2, <2>1
  <2>2. CASE j # i + 1
    <3>1. j - 1 \in Nat /\ i + 1 <= j - 1 /\ j - 1 <= n /\ (j - 1) + 1 = j
      BY <1>1, <1>2, <2>2
    <3> QED
      BY <1>5, <3>1
  <2> QED
    BY <2>1, <2>2
<1> QED
  BY <1>6 DEF ends, n, at

\* No two items begin at one position, so each is found where it begins.
LEMMA ImageIs ==
  ASSUME NEW S, Solid(S), NEW s \in Seq(S)
  PROVE  Holds(ImageOf(s), s)
<1> DEFINE n == Len(s)
           at == Positions(s)
           where(p) == CHOOSE i \in DOMAIN s : at[i] = p
           item == [p \in {at[i] : i \in DOMAIN s} |-> s[where(p)]]
<1>1. Sized(S)
  BY DEF Solid, Sized
<1>2. n \in Nat /\ DOMAIN s = 1..n /\ at \in [1..(n + 1) -> Nat]
  <2>1. at \in [1..(n + 1) -> Nat]
    BY <1>1, PositionsAre
  <2> QED
    BY <2>1
<1>3. \A i \in 1..n : \A j \in (i + 1)..(n + 1) : at[i] + s[i].size <= at[j]
  BY <1>1, ItemsDoNotOverlap
<1>4. \A i \in 1..n : s[i].size \in Nat \ {0} /\ i \in 1..(n + 1)
  <2> TAKE i \in 1..n
  <2>1. s[i] \in S
    OBVIOUS
  <2>2. i \in 1..(n + 1)
    BY <1>2
  <2> QED
    BY <2>1, <2>2 DEF Solid
<1>5. ImageOf(s).size = at[n + 1] /\ ImageOf(s).item = item
  BY DEF ImageOf
<1>6. Total(s) = at[n + 1]
  BY DEF Total
<1> HIDE DEF n, at
<1>7. ASSUME NEW i \in 1..n, NEW j \in 1..n, at[i] = at[j] PROVE i = j
  <2>1. ASSUME NEW k \in 1..n, NEW m \in 1..n, k < m PROVE at[k] # at[m]
    <3>1. m \in (k + 1)..(n + 1) /\ at[k] \in Nat /\ at[m] \in Nat
      BY <1>2, <1>4, <2>1
    <3>2. at[k] + s[k].size <= at[m] /\ s[k].size \in Nat \ {0}
      BY <1>3, <1>4, <3>1
    <3> QED
      BY <3>1, <3>2
  <2>2. i < j \/ j < i \/ i = j
    BY <1>2
  <2> QED
    BY <1>7, <2>1, <2>2
<1>8. DOMAIN item = {at[i] : i \in 1..n}
  BY <1>2
<1>9. ASSUME NEW i \in 1..n
      PROVE  item[at[i]] = s[i] /\ at[i] \in Nat /\ at[i] + s[i].size <= at[n + 1]
  <2>1. where(at[i]) \in 1..n /\ at[where(at[i])] = at[i]
    BY <1>2
  <2>2. where(at[i]) = i
    <3> HIDE DEF where
    <3> QED
      BY <1>7, <2>1
  <2>3. item[at[i]] = s[where(at[i])]
    <3> HIDE DEF where
    <3> QED
      BY <1>2
  <2>4. n + 1 \in (i + 1)..(n + 1)
    BY <1>2
  <2>5. at[i] \in Nat
    BY <1>2, <1>4
  <2>6. at[i] + s[i].size <= at[n + 1]
    BY <1>3, <2>4
  <2> HIDE DEF where, item
  <2> QED
    BY <2>2, <2>3, <2>5, <2>6
<1>10. at[n + 1] \in Nat
  BY <1>2
<1> HIDE DEF item
<1> QED
  BY <1>5, <1>6, <1>8, <1>9, <1>10 DEF n, at, Holds

\* What stands between two parts of the list is in the image behind the first.
LEMMA ImageHolds ==
  ASSUME NEW S, Solid(S), NEW a \in Seq(S), NEW x \in S, NEW b \in Seq(S),
         NEW s, s = (a \o <<x>>) \o b
  PROVE  Finds(ImageOf(s), Total(a), x)
<1> DEFINE one == <<x>>
           c == a \o one
           m == Len(a)
<1>1. Sized(S)
  BY DEF Solid, Sized
<1>2. one \in Seq(S) /\ Len(one) = 1 /\ one[1] = x /\ m \in Nat
  OBVIOUS
<1>3. /\ c \in Seq(S) /\ Len(c) = m + 1 /\ c[m + 1] = x
  <2> HIDE DEF one
  <2>1. /\ c \in Seq(S) /\ Len(c) = m + Len(one)
        /\ \A k \in 1..(m + Len(one)) : c[k] = IF k <= m THEN a[k] ELSE one[k - m]
    BY <1>2, ConcatProperties
  <2>2. m + 1 \in 1..(m + 1) /\ ~ (m + 1 <= m) /\ (m + 1) - m = 1
    BY <1>2
  <2>3. c[m + 1] = one[(m + 1) - m]
    BY <1>2, <2>1, <2>2
  <2> QED
    BY <1>2, <2>1, <2>2, <2>3
<1>4. s \in Seq(S) /\ m + 1 \in 1..Len(s) /\ s[m + 1] = x
  <2> HIDE DEF c, m
  <2>0. /\ c \o b \in Seq(S) /\ Len(c \o b) = Len(c) + Len(b)
        /\ \A k \in 1..(Len(c) + Len(b)) : (c \o b)[k] = IF k <= Len(c) THEN c[k] ELSE b[k - Len(c)]
    BY <1>3, ConcatProperties
  <2>1. /\ c \o b \in Seq(S) /\ Len(c \o b) = (m + 1) + Len(b) /\ Len(b) \in Nat
        /\ \A k \in 1..((m + 1) + Len(b)) : (c \o b)[k] = IF k <= m + 1 THEN c[k] ELSE b[k - (m + 1)]
    BY <1>3, <2>0
  <2>2. s = c \o b
    BY DEF c
  <2>3. m + 1 \in 1..((m + 1) + Len(b)) /\ m + 1 <= m + 1
    BY <1>2, <2>1
  <2> QED
    BY <1>3, <2>1, <2>2, <2>3
<1>5. Positions(s)[m + 1] = Total(a)
  <2> HIDE DEF one
  <2>1. Positions(a \o one)[m + 1] = Positions(a)[m + 1]
    <3>1. \A i \in 1..(m + 1) : Positions(a \o one)[i] = Positions(a)[i]
      BY <1>1, <1>2, PositionsOfConcat
    <3>2. m + 1 \in 1..(m + 1)
      BY <1>2
    <3> QED
      BY <3>1, <3>2
  <2>2. Positions(c \o b)[m + 1] = Positions(c)[m + 1]
    <3> HIDE DEF c
    <3>1. \A i \in 1..(Len(c) + 1) : Positions(c \o b)[i] = Positions(c)[i]
      BY <1>1, <1>3, PositionsOfConcat
    <3>2. m + 1 \in 1..(Len(c) + 1)
      BY <1>2, <1>3
    <3> QED
      BY <3>1, <3>2
  <2>3. Total(a) = Positions(a)[m + 1]
    BY DEF Total
  <2> QED
    BY <2>1, <2>2, <2>3 DEF one
<1>6. Holds(ImageOf(s), s)
  BY <1>4, ImageIs
<1> HIDE DEF m
<1> QED
  BY <1>4, <1>5, <1>6 DEF Holds, Finds

\* Two lists put together, as a name that can be kept unexpanded
Join(x, y) == x \o y

\* Three in a row can be put together either way.
Regroups(T) == \A x, y, z \in T : Join(Join(x, y), z) = Join(x, Join(y, z))

\* What is true of the lists in T when they are put together
AreLists(T) ==
  /\ Regroups(T)
  /\ \A x, y \in T : Join(x, y) \in T /\ Total(Join(x, y)) = Total(x) + Total(y)
  /\ \A x \in T : Total(x) \in Nat

\* It is true of the lists of any items.
LEMMA ListsOfItems ==
  ASSUME NEW S, Sized(S)
  PROVE  AreLists(Seq(S))
<1>1. \A x, y \in Seq(S) : Join(x, y) \in Seq(S) /\ Total(Join(x, y)) = Total(x) + Total(y)
  BY TotalOfConcat DEF Join
<1>2. Regroups(Seq(S))
  BY ConcatAssociative DEF Regroups, Join
<1>3. \A x \in Seq(S) : Total(x) \in Nat
  BY TotalIsNat
<1> QED
  BY <1>1, <1>2, <1>3 DEF AreLists

\* Part of a list begins at position p of it.
LiesAt(T, s, part, p) ==
  \E a, b \in T : s = Join(Join(a, part), b) /\ Total(a) = p

\* The whole lies at its beginning,
LEMMA LiesWhole ==
  ASSUME NEW S, Sized(S), NEW s \in Seq(S)
  PROVE  LiesAt(Seq(S), s, s, 0)
<1> DEFINE none == <<>>
<1>1. none \in Seq(S) /\ s = (none \o s) \o none
  BY ConcatEmptySeq
<1>2. Total(none) = 0
  BY TotalIsNat
<1> HIDE DEF none
<1> QED
  BY <1>1, <1>2 DEF LiesAt, Join

\* and each item at its position.
LEMMA ItemLies ==
  ASSUME NEW S, Sized(S), NEW s \in Seq(S), NEW i \in 1..Len(s)
  PROVE  LiesAt(Seq(S), s, <<s[i]>>, Positions(s)[i])
<1> DEFINE n == Len(s)
           a == SubSeq(s, 1, i - 1)
           one == <<s[i]>>
           b == SubSeq(s, i + 1, n)
<1>1. n \in Nat /\ i \in 1..n /\ i - 1 \in 0..n /\ s[i] \in S
  OBVIOUS
<1>2. a \in Seq(S) /\ Len(a) = i - 1 /\ \A k \in 1..(i - 1) : a[k] = s[k]
  <2>1. i - 1 \in 0..Len(s)
    BY <1>1
  <2>2. /\ a \in Seq(S) /\ Len(a) = i - 1
        /\ \A k \in 1..(i - 1) : a[k] = s[k]
        /\ i - 1 # 0 => a # <<>>
    BY <2>1, PrefixProperties
  <2> QED
    BY <2>2
<1>3. b \in Seq(S) /\ Len(b) = n - i /\ \A k \in 1..(n - i) : b[k] = s[i + k]
  <2>1. CASE i = n
    <3>1. b = <<>>
      BY <1>1, <2>1, SubSeqEmpty
    <3> QED
      BY <1>1, <2>1, <3>1
  <2>2. CASE i # n
    <3>1. i + 1 \in 1..(n + 1) /\ n \in i..n /\ \A k \in (i + 1)..n : s[k] \in S
      BY <1>1
    <3>2. /\ b \in Seq(S)
          /\ Len(b) = IF i + 1 <= n THEN (n - (i + 1)) + 1 ELSE 0
          /\ \A k \in 1..((n - (i + 1)) + 1) : b[k] = s[((i + 1) + k) - 1]
      BY <1>1, <3>1, SubSeqProperties
    <3>3. i + 1 <= n /\ (n - (i + 1)) + 1 = n - i
      BY <1>1, <2>2
    <3>4. \A k \in 1..(n - i) : ((i + 1) + k) - 1 = i + k
      BY <1>1
    <3> HIDE DEF b
    <3> QED
      BY <3>2, <3>3, <3>4
  <2> QED
    BY <2>1, <2>2
<1>4. one \in Seq(S) /\ Len(one) = 1 /\ one[1] = s[i]
  BY <1>1
<1> HIDE DEF a, b, one
<1> DEFINE c == a \o one
<1>5. /\ c \in Seq(S) /\ Len(c) = i
      /\ \A k \in 1..i : c[k] = s[k]
  <2>1. /\ c \in Seq(S) /\ Len(c) = Len(a) + Len(one)
        /\ \A k \in 1..(Len(a) + Len(one)) : c[k] = IF k <= Len(a) THEN a[k] ELSE one[k - Len(a)]
    BY <1>2, <1>4, ConcatProperties
  <2>2. Len(a) + Len(one) = i
    BY <1>1, <1>2, <1>4
  <2>3. ASSUME NEW k \in 1..i PROVE c[k] = s[k]
    <3>1. CASE k = i
      BY <1>1, <1>2, <1>4, <2>1, <2>2, <3>1
    <3>2. CASE k # i
      <4>1. k \in 1..(i - 1) /\ k <= Len(a)
        BY <1>1, <1>2, <3>2
      <4> QED
        BY <1>2, <2>1, <2>2, <4>1
    <3> QED
      BY <3>1, <3>2
  <2> QED
    BY <2>1, <2>2, <2>3
<1>6. s = c \o b
  <2> HIDE DEF c
  <2>1. /\ c \o b \in Seq(S) /\ Len(c \o b) = Len(c) + Len(b)
        /\ \A k \in 1..(Len(c) + Len(b)) : (c \o b)[k] = IF k <= Len(c) THEN c[k] ELSE b[k - Len(c)]
    BY <1>3, <1>5, ConcatProperties
  <2>2. Len(c) + Len(b) = n
    BY <1>1, <1>3, <1>5
  <2>3. ASSUME NEW k \in 1..n PROVE (c \o b)[k] = s[k]
    <3>1. CASE k <= i
      BY <1>1, <1>5, <2>1, <2>2, <3>1
    <3>2. CASE ~ (k <= i)
      <4>1. k - i \in 1..(n - i) /\ i + (k - i) = k /\ ~ (k <= Len(c)) /\ k - Len(c) = k - i
        BY <1>1, <1>5, <3>2
      <4>2. b[k - i] = s[i + (k - i)]
        BY <1>3, <4>1
      <4> QED
        BY <2>1, <2>2, <4>1, <4>2
    <3> QED
      BY <3>1, <3>2
  <2>4. s \in Seq(S) /\ Len(s) = n
    OBVIOUS
  <2> HIDE DEF n
  <2> QED
    BY <2>1, <2>2, <2>3, <2>4, SeqEqual
<1>7. Total(a) = Positions(s)[i]
  <2>1. \A k \in 1..(Len(a) + 1) : Positions(a \o one)[k] = Positions(a)[k]
    BY <1>2, <1>4, PositionsOfConcat
  <2>2. \A k \in 1..(Len(c) + 1) : Positions(c \o b)[k] = Positions(c)[k]
    <3> HIDE DEF c
    <3> QED
      BY <1>3, <1>5, PositionsOfConcat
  <2>3. Len(a) + 1 = i /\ i \in 1..(Len(a) + 1) /\ i \in 1..(Len(c) + 1)
    BY <1>1, <1>2, <1>5
  <2>4. Positions(s)[i] = Positions(c)[i] /\ Positions(c)[i] = Positions(a)[i]
    BY <1>6, <2>1, <2>2, <2>3
  <2> QED
    BY <2>3, <2>4 DEF Total
<1> QED
  BY <1>2, <1>3, <1>6, <1>7 DEF LiesAt, Join, c, one

\* Another list may stand before or behind,
LEMMA LiesInConcat ==
  ASSUME NEW T, AreLists(T), NEW s \in T, NEW t \in T, NEW part \in T, NEW p,
         LiesAt(T, s, part, p)
  PROVE  LiesAt(T, s \o t, part, p) /\ LiesAt(T, t \o s, part, Total(t) + p)
<1>0. Regroups(T)
  BY DEF AreLists
<1>1. PICK a, b \in T : s = Join(Join(a, part), b) /\ Total(a) = p
  BY DEF LiesAt
<1>2. Join(a, part) \in T /\ Join(b, t) \in T /\ Join(t, a) \in T /\ Join(part, b) \in T
  BY DEF AreLists
<1>3. Join(s, t) = Join(Join(a, part), Join(b, t))
  BY <1>0, <1>1, <1>2 DEF Regroups
<1>4. Join(t, s) = Join(Join(Join(t, a), part), b)
  <2>1. Join(t, Join(Join(a, part), b)) = Join(Join(t, Join(a, part)), b)
    BY <1>0, <1>2 DEF Regroups
  <2>2. Join(t, Join(a, part)) = Join(Join(t, a), part)
    BY <1>0 DEF Regroups
  <2> QED
    BY <1>1, <2>1, <2>2
<1>5. Total(Join(t, a)) = Total(t) + p
  BY <1>1 DEF AreLists
<1>6. LiesAt(T, Join(s, t), part, p) /\ LiesAt(T, Join(t, s), part, Total(t) + p)
  BY <1>1, <1>2, <1>3, <1>4, <1>5 DEF LiesAt
<1> QED
  BY <1>6 DEF Join

\* and a part of a part is a part.
LEMMA LiesWithin ==
  ASSUME NEW T, AreLists(T), NEW s \in T, NEW part \in T, NEW x \in T, NEW p, NEW q,
         LiesAt(T, s, part, p), LiesAt(T, part, x, q)
  PROVE  LiesAt(T, s, x, p + q)
<1>0. Regroups(T)
  BY DEF AreLists
<1>1. PICK a, b \in T : s = Join(Join(a, part), b) /\ Total(a) = p
  BY DEF LiesAt
<1>2. PICK c, d \in T : part = Join(Join(c, x), d) /\ Total(c) = q
  BY DEF LiesAt
<1>3. s = Join(Join(Join(a, c), x), Join(d, b))
  <2>1. /\ Join(a, c) \in T /\ Join(c, x) \in T /\ Join(d, b) \in T
        /\ Join(Join(a, c), x) \in T
    BY DEF AreLists
  <2>2. Join(a, Join(Join(c, x), d)) = Join(Join(a, Join(c, x)), d)
    BY <1>0, <2>1 DEF Regroups
  <2>3. Join(a, Join(c, x)) = Join(Join(a, c), x)
    BY <1>0 DEF Regroups
  <2>4. Join(Join(Join(Join(a, c), x), d), b) = Join(Join(Join(a, c), x), Join(d, b))
    BY <1>0, <2>1 DEF Regroups
  <2> QED
    BY <1>1, <1>2, <2>2, <2>3, <2>4
<1>4. Join(a, c) \in T /\ Join(d, b) \in T
  BY DEF AreLists
<1>5. Total(Join(a, c)) = p + q
  BY <1>1, <1>2 DEF AreLists
<1> QED
  BY <1>3, <1>4, <1>5 DEF LiesAt

\* An item of the list is in the image where it lies.
LEMMA LiesInImage ==
  ASSUME NEW S, Solid(S), NEW s \in Seq(S), NEW x \in S, NEW p, LiesAt(Seq(S), s, <<x>>, p)
  PROVE  Finds(ImageOf(s), p, x)
<1>1. PICK a, b \in Seq(S) : s = (a \o <<x>>) \o b /\ Total(a) = p
  BY DEF LiesAt, Join
<1>2. s = (a \o <<x>>) \o b
  BY <1>1
<1>3. Finds(ImageOf(s), Total(a), x)
  BY <1>2, ImageHolds
<1> QED
  BY <1>1, <1>3

\* The lengths of several lists, as items of that size
Lengths(ss) == [i \in 1..Len(ss) |-> [size |-> Total(ss[i])]]

\* A list has one part behind the other.
HasParts(S, s, ss) ==
  /\ s \in Seq(S) /\ Total(s) = Total(Lengths(ss))
  /\ \A i \in 1..Len(ss) : LiesAt(Seq(S), s, ss[i], Positions(Lengths(ss))[i])

\* A function on 1..n is a sequence.
LEMMA IsSequence ==
  ASSUME NEW S, NEW n \in Nat, NEW f \in [1..n -> S]
  PROVE  f \in Seq(S) /\ Len(f) = n
OBVIOUS

\* The lengths of one list more
LEMMA LengthsOfMore ==
  ASSUME NEW S, Sized(S), NEW ss \in Seq(Seq(S)), NEW t \in Seq(S)
  PROVE  /\ Sized([size : Nat])
         /\ Lengths(ss) \in Seq([size : Nat]) /\ Len(Lengths(ss)) = Len(ss)
         /\ Lengths(Append(ss, t)) = Lengths(ss) \o <<[size |-> Total(t)]>>
<1> DEFINE n == Len(ss)
           N == [size : Nat]
           c == Lengths(ss)
           one == <<[size |-> Total(t)]>>
           tt == Append(ss, t)
           d == Lengths(tt)
<1>1. \A s \in Seq(S) : [size |-> Total(s)] \in N
  <2>1. \A s \in Seq(S) : Total(s) \in Nat
    BY TotalIsNat
  <2> QED
    BY <2>1
<1>2. n \in Nat /\ \A i \in 1..n : ss[i] \in Seq(S)
  OBVIOUS
<1>3. /\ tt \in Seq(Seq(S)) /\ Len(tt) = n + 1 /\ tt[n + 1] = t
      /\ \A i \in 1..n : tt[i] = ss[i]
  BY AppendProperties
<1>4. c \in Seq(N) /\ Len(c) = n /\ \A i \in 1..n : c[i] = [size |-> Total(ss[i])]
  <2>1. c = [i \in 1..n |-> [size |-> Total(ss[i])]]
    BY DEF Lengths
  <2> HIDE DEF n, c, N
  <2>2. \A i \in 1..n : [size |-> Total(ss[i])] \in N
    BY <1>1, <1>2
  <2>3. c \in [1..n -> N]
    BY <2>1, <2>2
  <2>4. \A i \in 1..n : c[i] = [size |-> Total(ss[i])]
    BY <2>1
  <2>5. c \in Seq(N) /\ Len(c) = n
    BY <1>2, <2>3, IsSequence
  <2> QED
    BY <2>4, <2>5
<1>5. d = [i \in 1..(n + 1) |-> [size |-> Total(tt[i])]]
  BY <1>3 DEF Lengths
<1>6. one \in Seq(N) /\ Len(one) = 1 /\ one[1] = [size |-> Total(t)]
  BY <1>1
<1> HIDE DEF c, N, one, tt, n
<1>7. /\ c \o one \in Seq(N) /\ Len(c \o one) = n + 1
      /\ \A i \in 1..(n + 1) : (c \o one)[i] = d[i]
  <2>1. /\ c \o one \in Seq(N) /\ Len(c \o one) = Len(c) + Len(one)
        /\ \A k \in 1..(Len(c) + Len(one)) : (c \o one)[k] = IF k <= Len(c) THEN c[k] ELSE one[k - Len(c)]
    BY <1>4, <1>6, ConcatProperties
  <2>2. Len(c) + Len(one) = n + 1
    BY <1>4, <1>6
  <2>3. ASSUME NEW i \in 1..(n + 1) PROVE (c \o one)[i] = d[i]
    <3>1. d[i] = [size |-> Total(tt[i])]
      <4> HIDE DEF d
      <4> QED
        BY <1>5
    <3> HIDE DEF d
    <3>2. CASE i = n + 1
      <4>1. (c \o one)[i] = one[1]
        BY <1>2, <1>4, <1>6, <2>1, <2>2, <3>2
      <4>2. tt[i] = t
        BY <1>3, <3>2
      <4> QED
        BY <1>6, <3>1, <4>1, <4>2
    <3>3. CASE i # n + 1
      <4>1. i \in 1..n /\ i <= Len(c)
        BY <1>2, <1>4, <3>3
      <4>2. (c \o one)[i] = c[i]
        BY <2>1, <2>2, <4>1
      <4>3. tt[i] = ss[i]
        BY <1>3, <4>1
      <4> QED
        BY <1>4, <3>1, <4>1, <4>2, <4>3
    <3> QED
      BY <3>2, <3>3
  <2> QED
    BY <2>1, <2>2, <2>3
<1>8. DOMAIN d = 1..(n + 1)
  BY <1>5
<1>9. c \o one = d
  <2>1. \A i \in 1..(n + 1) : (c \o one)[i] \in N
    BY <1>7
  <2>2. d \in [1..(n + 1) -> N]
    <3>1. \A i \in 1..(n + 1) : [size |-> Total(tt[i])] \in N
      <4> HIDE DEF d
      <4>1. \A i \in 1..(n + 1) : tt[i] \in Seq(S)
        BY <1>2, <1>3
      <4> QED
        BY <1>1, <4>1
    <3> QED
      BY <1>5, <3>1
  <2> HIDE DEF d
  <2>3. d \in Seq(N) /\ Len(d) = n + 1
    BY <1>2, <2>2, IsSequence
  <2> QED
    BY <1>7, <2>3, SeqEqual
<1>10. Sized(N)
  BY DEF Sized, N
<1> QED
  BY <1>4, <1>9, <1>10 DEF N, c, one, tt, n, d

\* What FlattenSeq makes has the lists one behind the other.
LEMMA FlattenHasParts ==
  ASSUME NEW S, Sized(S)
  PROVE  \A ss \in Seq(Seq(S)) : HasParts(S, FlattenSeq(ss), ss)
<1> DEFINE L == Seq(S)
           N == [size : Nat]
           T == {ss \in Seq(L) : HasParts(S, FlattenSeq(ss), ss)}
<1>1. AreLists(L)
  BY ListsOfItems
<1>2. <<>> \in T
  <2>1. FlattenSeq(<<>>) = <<>> /\ Lengths(<<>>) = <<>> /\ Len(<<>>) = 0
    BY DEF FlattenSeq, Lengths
  <2> DEFINE none == <<>>
  <2>2. none \in Seq(S) /\ none \in Seq(L) /\ \A i \in 1..0 : FALSE
    OBVIOUS
  <2>3. FlattenSeq(none) = none /\ Lengths(none) = none /\ Len(none) = 0
    BY <2>1
  <2> HIDE DEF none, L
  <2>4. HasParts(S, none, none)
    BY <2>2, <2>3 DEF HasParts
  <2>5. none \in T
    BY <2>2, <2>3, <2>4
  <2> QED
    BY <2>5 DEF none
<1>3. ASSUME NEW ss \in Seq(L), NEW t \in L, ss \in T PROVE Append(ss, t) \in T
  <2> DEFINE n == Len(ss)
             tt == Append(ss, t)
             s == FlattenSeq(ss)
             c == Lengths(ss)
             one == <<[size |-> Total(t)]>>
  <2>1. /\ n \in Nat /\ tt \in Seq(L) /\ Len(tt) = n + 1 /\ tt[n + 1] = t
        /\ \A i \in 1..n : tt[i] = ss[i] /\ ss[i] \in L
    BY AppendProperties
  <2>2. s \in L /\ Total(s) = Total(c) /\ \A i \in 1..n : LiesAt(L, s, ss[i], Positions(c)[i])
    BY <1>3 DEF HasParts
  <2>3. FlattenSeq(tt) = s \o t
    BY <2>2, FlattenSeqStep
  <2>4. Sized(N) /\ c \in Seq(N) /\ Len(c) = n /\ Lengths(tt) = c \o one
    BY LengthsOfMore
  <2>5. one \in Seq(N) /\ Total(one) = Total(t) /\ Total(t) \in Nat
    <3>1. Total(t) \in Nat
      BY TotalIsNat
    <3>2. [size |-> Total(t)] \in N /\ [size |-> Total(t)].size = Total(t)
      BY <3>1
    <3> DEFINE x == [size |-> Total(t)]
    <3> HIDE DEF x, N
    <3>3. <<x>> \in Seq(N) /\ Total(<<x>>) = x.size
      BY <2>4, <3>2, TotalOfOne DEF x
    <3> QED
      BY <3>1, <3>2, <3>3 DEF x
  <2>6. c \o one \in Seq(N) /\ Total(c \o one) = Total(c) + Total(one)
    <3> HIDE DEF c, one, N
    <3> QED
      BY <2>4, <2>5, TotalOfConcat
  <2>7. s \o t \in L /\ Total(s \o t) = Total(s) + Total(t)
    <3> HIDE DEF s
    <3> QED
      BY <2>2, TotalOfConcat
  <2>8. \A i \in 1..(n + 1) : Positions(c \o one)[i] = Positions(c)[i]
    <3> HIDE DEF c, one, N
    <3>1. \A i \in 1..(Len(c) + 1) : Positions(c \o one)[i] = Positions(c)[i]
      BY <2>4, <2>5, PositionsOfConcat
    <3> QED
      BY <2>4, <3>1
  <2> HIDE DEF L, N, n, tt, s, c, one
  <2>9. ASSUME NEW i \in 1..(n + 1)
        PROVE  LiesAt(L, s \o t, tt[i], Positions(c \o one)[i])
    <3>1. CASE i = n + 1
      <4>1. LiesAt(L, t, t, 0)
        BY LiesWhole DEF L
      <4>2. LiesAt(L, s \o t, t, Total(s) + 0)
        BY <1>1, <2>2, <4>1, LiesInConcat
      <4>3. Total(s) \in Nat /\ Total(s) + 0 = Total(s)
        BY <1>1, <2>2 DEF AreLists
      <4>4. Positions(c \o one)[i] = Total(s)
        <5>1. Positions(c \o one)[i] = Positions(c)[n + 1]
          BY <2>8, <3>1
        <5> QED
          BY <2>2, <2>4, <5>1 DEF Total
      <4> QED
        BY <2>1, <3>1, <4>2, <4>3, <4>4
    <3>2. CASE i # n + 1
      <4>1. i \in 1..n
        BY <2>1, <3>2
      <4>2. LiesAt(L, s, ss[i], Positions(c)[i]) /\ ss[i] \in L
        BY <2>1, <2>2, <4>1
      <4>3. LiesAt(L, s \o t, ss[i], Positions(c)[i])
        BY <1>1, <2>2, <4>2, LiesInConcat
      <4> QED
        BY <2>1, <2>8, <4>1, <4>3
    <3> QED
      BY <3>1, <3>2
  <2>10. HasParts(S, s \o t, tt)
    BY <2>1, <2>2, <2>4, <2>5, <2>6, <2>7, <2>9 DEF HasParts, L
  <2> QED
    BY <2>1, <2>3, <2>10 DEF T, tt
<1>4. Seq(L) \subseteq T
  <2> HIDE DEF T, L
  <2> QED
    BY <1>2, <1>3, InductionOnSeq
<1> QED
  BY <1>4
-----------------------------------------------------------------------------
(***************************************************************************)
(* Trees, and the order their topics are written in                        *)
(***************************************************************************)

\* Where a list of items of one size has its items
LEMMA PositionsOfEqual ==
  ASSUME NEW S, Sized(S), NEW s \in Seq(S), NEW c \in Nat, \A i \in 1..Len(s) : s[i].size = c
  PROVE  /\ \A i \in 1..(Len(s) + 1) : Positions(s)[i] = c * (i - 1)
         /\ Total(s) = c * Len(s)
<1> DEFINE n == Len(s)
           at == Positions(s)
           T == {k \in Nat : k <= n => at[k + 1] = c * k}
<1>1. /\ n \in Nat /\ at[1] = 0
      /\ \A i \in 1..n : at[i + 1] = at[i] + c
  <2>1. at[1] = 0 /\ \A i \in 1..Len(s) : at[i + 1] = at[i] + s[i].size
    BY PositionsAre
  <2>2. n \in Nat
    OBVIOUS
  <2> QED
    BY <2>1, <2>2
<1> HIDE DEF n, at
<1>2. 0 \in T
  BY <1>1
<1>3. ASSUME NEW k \in Nat, k \in T PROVE k + 1 \in T
  <2>1. CASE k + 1 <= n
    <3>1. k + 1 \in 1..n /\ at[k + 1] = c * k
      BY <1>1, <1>3, <2>1
    <3>2. at[(k + 1) + 1] = c * k + c
      BY <1>1, <3>1
    <3>3. c * (k + 1) = c * k + c
      OBVIOUS
    <3> QED
      BY <3>2, <3>3
  <2>2. CASE ~ (k + 1 <= n)
    BY <2>2
  <2> QED
    BY <2>1, <2>2
<1>4. Nat \subseteq T
  <2> HIDE DEF T
  <2> QED
    BY <1>2, <1>3, InductionOnNat
<1>5. ASSUME NEW i \in 1..(n + 1) PROVE at[i] = c * (i - 1)
  <2>1. i - 1 \in Nat /\ i - 1 <= n /\ (i - 1) + 1 = i
    BY <1>1
  <2> QED
    BY <1>4, <2>1
<1>6. n + 1 \in 1..(n + 1) /\ (n + 1) - 1 = n
  BY <1>1
<1>7. at[n + 1] = c * n
  BY <1>5, <1>6
<1> QED
  BY <1>5, <1>7 DEF Total, n, at

\* The topics are the numbers up to n; the subtopics have larger numbers, and
\* every topic but the root is the subtopic of one other in one place.
Numbered(tree, n) ==
  /\ Topics(tree) = 1..n /\ DOMAIN tree.kids = 0..n
  /\ \A t \in 0..n : tree.kids[t] \in Seq(1..n) /\ tree.len[t] \in Nat
  /\ tree.key \in [1..n -> Nat] /\ tree.len[0] = 0
  /\ \A t \in 0..n : \A k \in 1..Len(tree.kids[t]) : tree.kids[t][k] \in (t + 1)..n
  /\ \A u \in 1..n : \E t \in 0..(u - 1) : \E k \in 1..Len(tree.kids[t]) :
       tree.kids[t][k] = u
  /\ \A s, t \in 0..n : \A j \in 1..Len(tree.kids[s]), k \in 1..Len(tree.kids[t]) :
       tree.kids[s][j] = tree.kids[t][k] => s = t /\ j = k

\* A tree has its topics numbered.
LEMMA TreeIs ==
  ASSUME NEW tree, IsTree(tree)
  PROVE  \E n \in Nat : Numbered(tree, n)
<1> DEFINE n == Cardinality(Topics(tree))
<1>1. n \in Nat
  BY FS_CardinalityType DEF IsTree
<1>2. /\ tree.kids \in [0..n -> Seq(1..n)] /\ tree.key \in [1..n -> Nat]
      /\ tree.len \in [0..n -> Nat] /\ tree.len[0] = 0
      /\ \A u \in 1..n : \E t \in 0..(u - 1) : \E k \in DOMAIN tree.kids[t] :
           /\ tree.kids[t][k] = u
           /\ \A s \in 0..n : \A j \in DOMAIN tree.kids[s] :
                tree.kids[s][j] = u => s = t /\ j = k
  BY DEF IsTree, ROOT
<1> HIDE DEF n
<1>3. DOMAIN tree.kids = 0..n /\ \A t \in 0..n : tree.kids[t] \in Seq(1..n) /\ tree.len[t] \in Nat
  BY <1>2
<1>4. Topics(tree) = 1..n
  BY <1>1, <1>3 DEF Topics, ROOT
<1>5. \A t \in 0..n : DOMAIN tree.kids[t] = 1..Len(tree.kids[t])
  BY <1>3
<1>6. ASSUME NEW u \in 1..n
      PROVE  \E t \in 0..(u - 1) : \E k \in 1..Len(tree.kids[t]) :
               /\ tree.kids[t][k] = u
               /\ \A s \in 0..n : \A j \in 1..Len(tree.kids[s]) :
                    tree.kids[s][j] = u => s = t /\ j = k
  <2>1. PICK t \in 0..(u - 1) : \E k \in DOMAIN tree.kids[t] :
           /\ tree.kids[t][k] = u
           /\ \A s \in 0..n : \A j \in DOMAIN tree.kids[s] :
                tree.kids[s][j] = u => s = t /\ j = k
    BY <1>2
  <2>2. t \in 0..n
    BY <1>1
  <2>3. PICK k \in DOMAIN tree.kids[t] :
           /\ tree.kids[t][k] = u
           /\ \A s \in 0..n : \A j \in DOMAIN tree.kids[s] :
                tree.kids[s][j] = u => s = t /\ j = k
    BY <2>1
  <2>4. k \in 1..Len(tree.kids[t])
    BY <1>5, <2>2
  <2>5. ASSUME NEW s \in 0..n, NEW j \in 1..Len(tree.kids[s]), tree.kids[s][j] = u
        PROVE  s = t /\ j = k
    <3>1. j \in DOMAIN tree.kids[s]
      BY <1>5
    <3> QED
      BY <2>3, <2>5, <3>1
  <2> QED
    BY <2>3, <2>4, <2>5
<1>7. ASSUME NEW t \in 0..n, NEW k \in 1..Len(tree.kids[t])
      PROVE  tree.kids[t][k] \in (t + 1)..n /\ tree.kids[t][k] \in 1..n
  <2>1. tree.kids[t][k] \in 1..n
    <3>1. tree.kids[t] \in Seq(1..n)
      BY <1>3
    <3> QED
      BY <3>1, ElementOfSeq
  <2> DEFINE u == tree.kids[t][k]
  <2>2. PICK r \in 0..(u - 1) : \A s \in 0..n : \A j \in 1..Len(tree.kids[s]) :
           tree.kids[s][j] = u => s = r
    BY <1>6, <2>1
  <2>3. t = r
    BY <2>2
  <2>4. u \in 1..n
    BY <2>1
  <2> HIDE DEF u
  <2>5. u \in (t + 1)..n
    BY <1>1, <2>3, <2>4
  <2> QED
    BY <2>1, <2>5 DEF u
<1>8. ASSUME NEW s \in 0..n, NEW t \in 0..n, NEW j \in 1..Len(tree.kids[s]),
             NEW k \in 1..Len(tree.kids[t]), tree.kids[s][j] = tree.kids[t][k]
      PROVE  s = t /\ j = k
  <2> DEFINE u == tree.kids[t][k]
  <2>1. u \in 1..n
    BY <1>7
  <2> HIDE DEF u
  <2>2. PICK r \in 0..(u - 1) : \E i \in 1..Len(tree.kids[r]) :
           /\ tree.kids[r][i] = u
           /\ \A p \in 0..n : \A q \in 1..Len(tree.kids[p]) :
                tree.kids[p][q] = u => p = r /\ q = i
    BY <1>6, <2>1
  <2>3. PICK i \in 1..Len(tree.kids[r]) :
           \A p \in 0..n : \A q \in 1..Len(tree.kids[p]) :
             tree.kids[p][q] = u => p = r /\ q = i
    BY <2>2
  <2>4. tree.kids[s][j] = u /\ tree.kids[t][k] = u
    BY <1>8 DEF u
  <2> QED
    BY <2>3, <2>4
<1>9. \A u \in 1..n : \E t \in 0..(u - 1) : \E k \in 1..Len(tree.kids[t]) : tree.kids[t][k] = u
  BY <1>6
<1> QED
  BY <1>1, <1>2, <1>3, <1>4, <1>7, <1>8, <1>9 DEF Numbered

\* What holds of a number whenever it holds of all larger ones holds of all.
LEMMA InductionDownwards ==
  ASSUME NEW n \in Nat, NEW T, \A t \in 0..n : (\A u \in (t + 1)..n : u \in T) => t \in T
  PROVE  \A t \in 0..n : t \in T
<1> DEFINE M == {m \in Nat : \A t \in 0..n : t + m > n => t \in T}
<1>1. 0 \in M
  OBVIOUS
<1>2. ASSUME NEW m \in Nat, m \in M PROVE m + 1 \in M
  <2>1. SUFFICES ASSUME NEW t \in 0..n, t + (m + 1) > n PROVE t \in T
    OBVIOUS
  <2>2. ASSUME NEW u \in (t + 1)..n PROVE u \in T
    <3>1. u \in 0..n /\ u + m > n
      BY <2>1
    <3> QED
      BY <1>2, <3>1
  <2> QED
    BY <2>2
<1>3. Nat \subseteq M
  <2> HIDE DEF M
  <2> QED
    BY <1>1, <1>2, InductionOnNat
<1>4. n + 1 \in M
  BY <1>3
<1> QED
  BY <1>4

\* The topics below the subtopics of t, by what `from` makes of each
Subtrees(tree, from, t) == [k \in DOMAIN tree.kids[t] |-> from[tree.kids[t][k]]]

\* What flatten_topic() makes of each topic
FlattensAt(tree, from, t) == from[t] = <<t>> \o FlattenSeq(Subtrees(tree, from, t))
Flattens(tree, from) ==
  from = [t \in DOMAIN tree.kids |-> <<t>> \o FlattenSeq(Subtrees(tree, from, t))]

\* The function exists: the subtopics of a topic have larger numbers.
LEMMA FlatteningExists ==
  ASSUME NEW tree, NEW n \in Nat, Numbered(tree, n)
  PROVE  \E from : Flattens(tree, from)
<1> DEFINE Done(f, m) == \A t \in 0..n : t + m > n => FlattensAt(tree, f, t)
           M == {m \in Nat : \E f : f = [t \in 0..n |-> f[t]] /\ Done(f, m)}
<1>1. 0 \in M
  <2>1. Done([t \in 0..n |-> <<>>], 0)
    OBVIOUS
  <2> DEFINE f == [t \in 0..n |-> <<>>]
  <2>2. f = [t \in 0..n |-> f[t]] /\ Done(f, 0)
    BY <2>1
  <2> QED
    BY <2>2
<1>2. ASSUME NEW m \in Nat, m \in M PROVE m + 1 \in M
  <2>1. PICK f : f = [t \in 0..n |-> f[t]] /\ Done(f, m)
    BY <1>2
  <2> DEFINE g == [t \in 0..n |-> IF t + m = n
                                  THEN <<t>> \o FlattenSeq(Subtrees(tree, f, t)) ELSE f[t]]
  <2>2. ASSUME NEW t \in 0..n, t + (m + 1) > n
        PROVE  FlattensAt(tree, g, t)
    <3>1. \A k \in DOMAIN tree.kids[t] : g[tree.kids[t][k]] = f[tree.kids[t][k]]
      <4> TAKE k \in DOMAIN tree.kids[t]
      <4> DEFINE u == tree.kids[t][k]
      <4>1. u \in (t + 1)..n
        <5>1. tree.kids[t] \in Seq(1..n)
          BY DEF Numbered
        <5>2. k \in 1..Len(tree.kids[t])
          BY <5>1
        <5> QED
          BY <5>2 DEF Numbered
      <4> HIDE DEF u
      <4>2. u \in 0..n /\ u + m # n
        BY <2>2, <4>1
      <4>3. g[u] = f[u]
        BY <4>2
      <4> QED
        BY <4>3 DEF u
    <3>2. Subtrees(tree, g, t) = Subtrees(tree, f, t)
      <4> HIDE DEF g
      <4> QED
        BY <3>1 DEF Subtrees
    <3>3. CASE t + m = n
      <4>1. g[t] = <<t>> \o FlattenSeq(Subtrees(tree, f, t))
        BY <3>3
      <4> HIDE DEF g
      <4> QED
        BY <3>2, <4>1 DEF FlattensAt
    <3>4. CASE t + m # n
      <4>1. g[t] = f[t] /\ t + m > n
        BY <2>2, <3>4
      <4>2. FlattensAt(tree, f, t)
        BY <2>1, <4>1
      <4> HIDE DEF g
      <4> QED
        BY <3>2, <4>1, <4>2 DEF FlattensAt
    <3> QED
      BY <3>3, <3>4
  <2>3. g = [t \in 0..n |-> g[t]]
    OBVIOUS
  <2> HIDE DEF g
  <2>4. Done(g, m + 1)
    BY <2>2
  <2> QED
    BY <2>3, <2>4
<1>3. Nat \subseteq M
  <2> HIDE DEF M
  <2> QED
    BY <1>1, <1>2, InductionOnNat
<1>4. n + 1 \in M
  BY <1>3
<1>5. PICK f : f = [t \in 0..n |-> f[t]] /\ Done(f, n + 1)
  BY <1>4
<1>6. \A t \in 0..n : f[t] = <<t>> \o FlattenSeq(Subtrees(tree, f, t))
  <2>1. \A t \in 0..n : t + (n + 1) > n
    OBVIOUS
  <2>2. \A t \in 0..n : FlattensAt(tree, f, t)
    BY <1>5, <2>1
  <2> QED
    BY <2>2 DEF FlattensAt
<1>7. DOMAIN tree.kids = 0..n
  BY DEF Numbered
<1>8. f = [t \in 0..n |-> <<t>> \o FlattenSeq(Subtrees(tree, f, t))]
  BY <1>5, <1>6
<1> QED
  BY <1>7, <1>8 DEF Flattens

\* There is one for each subtopic,
SubtreesListed(tree, from, t, V) ==
  /\ Subtrees(tree, from, t) \in Seq(V)
  /\ Len(Subtrees(tree, from, t)) = Len(tree.kids[t])
  /\ \A k \in 1..Len(tree.kids[t]) : Subtrees(tree, from, t)[k] = from[tree.kids[t][k]]

\* when there is one for every later topic.
LaterIn(from, t, n, V) == \A u \in (t + 1)..n : from[u] \in V

LEMMA SubtreesAre ==
  ASSUME NEW tree, NEW n \in Nat, Numbered(tree, n), NEW t \in 0..n, NEW V, NEW from,
         LaterIn(from, t, n, V)
  PROVE  SubtreesListed(tree, from, t, V)
<1> DEFINE m == Len(tree.kids[t])
           f == Subtrees(tree, from, t)
<1>1. m \in Nat /\ DOMAIN tree.kids[t] = 1..m
  <2>1. tree.kids[t] \in Seq(1..n)
    BY DEF Numbered
  <2> QED
    BY <2>1
<1>2. \A k \in 1..m : tree.kids[t][k] \in (t + 1)..n
  BY DEF Numbered
<1>3. \A k \in 1..m : from[tree.kids[t][k]] \in V
  BY <1>2 DEF LaterIn
<1>4. f = [k \in 1..m |-> from[tree.kids[t][k]]]
  BY <1>1 DEF Subtrees
<1> HIDE DEF m, f
<1>5. f \in [1..m -> V]
  BY <1>3, <1>4
<1>6. f \in Seq(V) /\ Len(f) = m
  BY <1>1, <1>5, IsSequence
<1>7. \A k \in 1..m : f[k] = from[tree.kids[t][k]]
  BY <1>4
<1> QED
  BY <1>6, <1>7 DEF m, f, SubtreesListed

\* Flattened takes its value from it.
LEMMA FlattenedIs ==
  ASSUME NEW tree, NEW n \in Nat, Numbered(tree, n)
  PROVE  \E from : /\ from \in [0..n -> Seq(0..n)] /\ Flattened(tree) = from[0]
                   /\ \A t \in 0..n : FlattensAt(tree, from, t)
<1> DEFINE from == CHOOSE f : Flattens(tree, f)
<1>1. Flattened(tree) = from[0]
  BY DEF Flattened, Flattens, Subtrees, ROOT
<1>2. Flattens(tree, from)
  BY FlatteningExists
<1> HIDE DEF from
<1>3. DOMAIN tree.kids = 0..n
  BY DEF Numbered
<1>4. from = [t \in 0..n |-> <<t>> \o FlattenSeq(Subtrees(tree, from, t))]
  BY <1>2, <1>3 DEF Flattens
<1>5. \A t \in 0..n : FlattensAt(tree, from, t)
  BY <1>4 DEF FlattensAt
<1> DEFINE T == {t \in 0..n : from[t] \in Seq(0..n)}
<1>6. ASSUME NEW t \in 0..n, \A u \in (t + 1)..n : u \in T PROVE t \in T
  <2>2. LaterIn(from, t, n, Seq(0..n))
    BY <1>6 DEF LaterIn
  <2>3. Subtrees(tree, from, t) \in Seq(Seq(0..n))
    BY <2>2, SubtreesAre DEF SubtreesListed
  <2>4. FlattenSeq(Subtrees(tree, from, t)) \in Seq(0..n)
    BY <2>3, FlattenSeqIsSeq
  <2>5. <<t>> \in Seq(0..n)
    OBVIOUS
  <2>6. <<t>> \o FlattenSeq(Subtrees(tree, from, t)) \in Seq(0..n)
    BY <2>4, <2>5, ConcatProperties
  <2> QED
    BY <1>5, <2>6 DEF FlattensAt
<1>7. \A t \in 0..n : t \in T
  <2> HIDE DEF T
  <2> QED
    BY <1>6, InductionDownwards
<1>8. from = [t \in 0..n |-> from[t]]
  BY <1>4
<1>9. from \in [0..n -> Seq(0..n)]
  BY <1>7, <1>8
<1> QED
  BY <1>1, <1>5, <1>9

\* The root is the first node.
LEMMA FlattenedIsSeq ==
  ASSUME NEW tree, NEW n \in Nat, Numbered(tree, n)
  PROVE  /\ Flattened(tree) \in Seq(0..n) /\ Len(Flattened(tree)) >= 1
         /\ Flattened(tree)[1] = 0
<1>1. PICK from \in [0..n -> Seq(0..n)] : /\ Flattened(tree) = from[0]
                                         /\ FlattensAt(tree, from, 0)
  <2>1. 0 \in 0..n
    OBVIOUS
  <2> QED
    BY <2>1, FlattenedIs
<1> DEFINE rest == FlattenSeq(Subtrees(tree, from, 0))
           s == Flattened(tree)
<1>2. s \in Seq(0..n) /\ s = <<0>> \o rest
  <2>1. from[0] \in Seq(0..n)
    OBVIOUS
  <2>2. s = <<0>> \o rest
    BY <1>1 DEF FlattensAt
  <2> QED
    BY <1>1, <2>1, <2>2
<1>3. rest \in Seq(0..n)
  <2>1. 0 \in 0..n /\ LaterIn(from, 0, n, Seq(0..n))
    BY DEF LaterIn
  <2>3. Subtrees(tree, from, 0) \in Seq(Seq(0..n))
    BY <2>1, SubtreesAre DEF SubtreesListed
  <2> QED
    BY <2>3, FlattenSeqIsSeq
<1> DEFINE z == <<0>>
<1>4. z \in Seq(0..n) /\ Len(z) = 1 /\ z[1] = 0
  OBVIOUS
<1>5. Len(rest) \in Nat
  BY <1>3
<1> HIDE DEF rest, s, z
<1>6. Len(s) = Len(z) + Len(rest) /\ \A i \in 1..(Len(z) + Len(rest)) :
        s[i] = IF i <= Len(z) THEN z[i] ELSE rest[i - Len(z)]
  BY <1>2, <1>3, <1>4, ConcatProperties DEF z
<1>7. 1 \in 1..(Len(z) + Len(rest)) /\ 1 <= Len(z) /\ Len(z) + Len(rest) >= 1
  BY <1>4, <1>5
<1> QED
  BY <1>2, <1>4, <1>6, <1>7 DEF s
-----------------------------------------------------------------------------
(***************************************************************************)
(* The offsets of phase 2                                                  *)
(***************************************************************************)

\* A cursor stands where the positions say, as far as that fits.
LEMMA CursorIs ==
  ASSUME NEW sizes \in Seq(Nat), NEW first \in Nat, NEW c \in Seq([size : Nat]),
         Len(c) = Len(sizes), \A i \in 1..Len(sizes) : U32(sizes[i]) = U32(c[i].size)
  PROVE  \A i \in 0..Len(sizes) :
           Cursor(U32(first), sizes)[i] = U32(first + Positions(c)[i + 1])
<1> DEFINE n == Len(sizes)
           start == U32(first)
           g == [p \in Nat \X (1..n) |-> U32(p[1] + sizes[p[2]])]
           moves(k) == [i \in 0..n |-> IF i = 0 THEN start ELSE U32(k[i - 1] + sizes[i])]
           after == CHOOSE k : k = moves(k)
           at == Positions(c)
<1>1. n \in Nat /\ start \in Nat /\ \A i \in 1..n : sizes[i] \in Nat
  <2>1. start \in Nat
    BY U32Splits
  <2> QED
    BY <2>1
<1>2. PICK f \in [0..n -> Nat] : Gathers(f, start, n, g)
  <2>1. ASSUME NEW x \in Nat, NEW i \in 1..n PROVE g[<<x, i>>] \in Nat
    <3>1. x + sizes[i] \in Nat
      BY <1>1
    <3>2. U32(x + sizes[i]) \in Nat
      BY <3>1, U32Splits
    <3>3. <<x, i>> \in Nat \X (1..n)
      OBVIOUS
    <3>4. g[<<x, i>>] = U32(x + sizes[i])
      BY <3>3
    <3> QED
      BY <3>2, <3>4
  <2>2. StaysIn(Nat, n, g)
    BY <2>1 DEF StaysIn
  <2> HIDE DEF g, n, start
  <2> QED
    BY <1>1, <2>2, AccumulatorExists
<1>3. f[0] = start /\ \A i \in 1..n : f[i] = U32(f[i - 1] + sizes[i])
  <2>1. ASSUME NEW i \in 1..n PROVE f[i] = U32(f[i - 1] + sizes[i])
    <3>1. f[i - 1] \in Nat
      <4> HIDE DEF n
      <4>1. i - 1 \in 0..n
        BY <1>1
      <4> QED
        BY <4>1
    <3>2. <<f[i - 1], i>> \in Nat \X (1..n)
      BY <3>1
    <3>3. g[<<f[i - 1], i>>] = U32(f[i - 1] + sizes[i])
      BY <3>2
    <3>4. f[i] = g[<<f[i - 1], i>>]
      BY <1>2 DEF Gathers
    <3> QED
      BY <3>3, <3>4
  <2> QED
    BY <1>2, <2>1 DEF Gathers
<1>4. f = moves(f)
  <2>1. \A i \in 0..n : f[i] = IF i = 0 THEN start ELSE U32(f[i - 1] + sizes[i])
    <3> TAKE i \in 0..n
    <3>1. i # 0 => i \in 1..n
      OBVIOUS
    <3> QED
      BY <1>3, <3>1
  <2>2. f = [i \in 0..n |-> f[i]]
    OBVIOUS
  <2> HIDE DEF n, start
  <2> QED
    BY <2>1, <2>2
<1>5. Cursor(start, sizes) = after
  BY DEF Cursor
<1>6. after = moves(after)
  <2> HIDE DEF moves
  <2> QED
    BY <1>4
<1>7. /\ after[0] = start
      /\ \A i \in 1..n : after[i] = U32(after[i - 1] + sizes[i])
  <2> HIDE DEF after
  <2>1. 0 \in 0..n /\ \A i \in 1..n : i \in 0..n /\ i # 0
    BY <1>1
  <2> HIDE DEF n, start
  <2> QED
    BY <1>6, <2>1
<1>8. /\ at \in [1..(n + 1) -> Nat] /\ at[1] = 0
      /\ \A i \in 1..n : at[i + 1] = at[i] + c[i].size /\ c[i].size \in Nat
  <2>1. Sized([size : Nat])
    BY DEF Sized
  <2>2. /\ at \in [1..(n + 1) -> Nat] /\ at[1] = 0
        /\ \A i \in 1..n : at[i + 1] = at[i] + c[i].size
    BY <2>1, PositionsAre
  <2>3. ASSUME NEW i \in 1..n PROVE c[i].size \in Nat
    <3>1. c[i] \in [size : Nat]
      BY ElementOfSeq
    <3> QED
      BY <3>1
  <2> HIDE DEF at, n
  <2> QED
    BY <2>2, <2>3
<1>9. \A i \in 1..n : U32(sizes[i]) = U32(c[i].size)
  OBVIOUS
<1> HIDE DEF after, n, at
<1> DEFINE T == {k \in Nat : k <= n => after[k] = U32(first + at[k + 1])}
<1>10. 0 \in T
  BY <1>7, <1>8
<1>11. ASSUME NEW k \in Nat, k \in T PROVE k + 1 \in T
  <2> SUFFICES ASSUME k + 1 <= n PROVE after[k + 1] = U32(first + at[(k + 1) + 1])
    OBVIOUS
  <2>1. k + 1 \in 1..n /\ (k + 1) - 1 = k /\ after[k] = U32(first + at[k + 1])
    BY <1>1, <1>11
  <2> DEFINE a == at[k + 1]
             z == sizes[k + 1]
             x == c[k + 1].size
  <2>2. a \in Nat /\ z \in Nat /\ x \in Nat /\ at[(k + 1) + 1] = a + x /\ U32(z) = U32(x)
    <3>1. k + 1 \in 1..(n + 1)
      BY <1>1, <2>1
    <3> QED
      BY <1>1, <1>8, <1>9, <2>1, <3>1
  <2>3. after[k + 1] = U32(U32(first + a) + z)
    BY <1>7, <2>1
  <2> HIDE DEF a, z, x
  <2>4. first + a \in Nat /\ U32(first + a) \in Nat /\ U32(first + a) = U32(U32(first + a))
    <3>1. first + a \in Nat
      BY <2>2
    <3>2. U32(first + a) \in Nat /\ U32(first + a) < OffsetLimit
      BY <3>1, U32Splits
    <3> QED
      BY <3>1, <3>2, U32Fits
  <2>5. U32(U32(first + a) + z) = U32((first + a) + x)
    BY <2>2, <2>4, U32SumsAgree
  <2>6. (first + a) + x = first + (a + x)
    BY <2>2
  <2> QED
    BY <2>2, <2>3, <2>5, <2>6
<1>12. Nat \subseteq T
  <2> HIDE DEF T
  <2> QED
    BY <1>10, <1>11, InductionOnNat
<1> QED
  BY <1>1, <1>5, <1>12 DEF n, at
-----------------------------------------------------------------------------
(***************************************************************************)
(* The items of phase 4                                                    *)
(***************************************************************************)

\* The offsets of a tree, and those of its topics' records
OffsetsOf(tree) == Offsets(tree, Flattened(tree))
RecordsAt(tree) ==
  [t \in DOMAIN tree.kids |->
     OffsetsOf(tree).node[CHOOSE i \in DOMAIN Flattened(tree) : Flattened(tree)[i] = t]]

\* The parts of a file
Header(tree) == HeaderItem(Flattened(tree), OffsetsOf(tree))
Records(tree) ==
  [i \in DOMAIN Flattened(tree) |->
     NodeItem(tree, Flattened(tree)[i], i, OffsetsOf(tree), RecordsAt(tree))]
Tables(tree) ==
  [i \in DOMAIN Flattened(tree) |-> TableItems(tree, Flattened(tree)[i], RecordsAt(tree))]
Texts(tree) == [i \in DOMAIN Flattened(tree) |-> TextItems(tree, Flattened(tree)[i])]

LEMMA ItemsAre ==
  ASSUME NEW tree
  PROVE  /\ Items(tree) = ((<<Header(tree)>> \o Records(tree)) \o FlattenSeq(Tables(tree)))
                            \o FlattenSeq(Texts(tree))
         /\ Image(tree) = ImageOf(Items(tree))
<1>1. Image(tree) = ImageOf(Items(tree))
  BY DEF Image, ImageOf
<1>2. Items(tree) = ((<<Header(tree)>> \o Records(tree)) \o FlattenSeq(Tables(tree)))
                      \o FlattenSeq(Texts(tree))
  BY DEF Items, Header, Records, Tables, Texts, OffsetsOf, RecordsAt
<1> QED
  BY <1>1, <1>2

\* What can be in a file
EntryItem(offset) == [size |-> ENTRY_SIZE, what |-> "entry", offset |-> offset]
PaddingItem(n) == [size |-> n, what |-> "padding"]
TextItem(tree, t) == [size |-> tree.len[t], what |-> "text", topic |-> t]
EntriesOf(tree) == {EntryItem(RecordsAt(tree)[TableOrder(tree, t)[k]]) :
                      t \in DOMAIN tree.kids, k \in Nat}
RecordsOf(tree) == {NodeItem(tree, Flattened(tree)[i], i, OffsetsOf(tree), RecordsAt(tree)) :
                      i \in DOMAIN Flattened(tree)}
TextsOf(tree) == {TextItem(tree, t) : t \in {u \in DOMAIN tree.kids : tree.len[u] # 0}}
ItemsOf(tree) == {Header(tree)} \cup RecordsOf(tree) \cup EntriesOf(tree)
                   \cup {PaddingItem(n) : n \in 1..7} \cup TextsOf(tree)

\* None of it is empty.
LEMMA ItemsAreSolid ==
  ASSUME NEW tree, NEW n \in Nat, Numbered(tree, n)
  PROVE  Solid(ItemsOf(tree)) /\ Sized(ItemsOf(tree))
<1>1. ASSUME NEW x \in ItemsOf(tree) PROVE x.size \in Nat \ {0}
  <2>1. CASE x \in {Header(tree)}
    BY <2>1 DEF Header, HeaderItem, HEADER_SIZE
  <2>2. CASE x \in RecordsOf(tree)
    <3>1. PICK i : x = NodeItem(tree, Flattened(tree)[i], i, OffsetsOf(tree), RecordsAt(tree))
      BY <2>2 DEF RecordsOf
    <3> QED
      BY <3>1 DEF NodeItem, NODE_SIZE
  <2>3. CASE x \in EntriesOf(tree)
    <3>1. PICK offset : x = EntryItem(offset)
      BY <2>3 DEF EntriesOf
    <3> QED
      BY <3>1 DEF EntryItem, ENTRY_SIZE
  <2>4. CASE x \in {PaddingItem(k) : k \in 1..7}
    BY <2>4 DEF PaddingItem
  <2>5. CASE x \in TextsOf(tree)
    <3>1. PICK t \in DOMAIN tree.kids : x = TextItem(tree, t) /\ tree.len[t] # 0
      BY <2>5 DEF TextsOf
    <3>2. tree.len[t] \in Nat
      BY DEF Numbered
    <3> QED
      BY <3>1, <3>2 DEF TextItem
  <2> QED
    BY <2>1, <2>2, <2>3, <2>4, <2>5 DEF ItemsOf
<1> QED
  BY <1>1 DEF Solid, Sized

\* The entries of a table
HasEntries(tree, t, T, m) ==
  \A k \in 1..m : /\ Positions(T)[k] = ENTRY_SIZE * (k - 1)
                  /\ T[k] = EntryItem(RecordsAt(tree)[TableOrder(tree, t)[k]])

\* A table of children: an entry for each, padded to a multiple of 8.
LEMMA TableIs ==
  ASSUME NEW tree, NEW n \in Nat, Numbered(tree, n), NEW t \in 0..n,
         NEW T, T = TableItems(tree, t, RecordsAt(tree)), NEW m, m = Len(tree.kids[t])
  PROVE  /\ m \in Nat /\ T \in Seq(ItemsOf(tree)) /\ Total(T) = Align8(ENTRY_SIZE * m)
         /\ m <= Len(T) /\ HasEntries(tree, t, T, m)
<1> DEFINE S == ItemsOf(tree)
           entries == [k \in 1..m |-> EntryItem(RecordsAt(tree)[TableOrder(tree, t)[k]])]
           padding == Align8(ENTRY_SIZE * m) - ENTRY_SIZE * m
           pad == PaddingItem(padding)
<1>1. m \in Nat /\ DOMAIN tree.kids[t] = 1..m /\ t \in DOMAIN tree.kids
  <2>1. tree.kids[t] \in Seq(1..n)
    BY DEF Numbered
  <2>2. DOMAIN tree.kids = 0..n
    BY DEF Numbered
  <2> QED
    BY <2>1, <2>2
<1>2. DOMAIN TableOrder(tree, t) = 1..m
  BY <1>1 DEF TableOrder, SortedKids
<1>3. Sized(S)
  BY ItemsAreSolid
<1>4. \A k \in 1..m : EntryItem(RecordsAt(tree)[TableOrder(tree, t)[k]]) \in S
  <2> TAKE k \in 1..m
  <2>1. k \in Nat
    BY <1>1
  <2>2. EntryItem(RecordsAt(tree)[TableOrder(tree, t)[k]]) \in EntriesOf(tree)
    BY <1>1, <2>1 DEF EntriesOf
  <2> QED
    BY <2>2 DEF ItemsOf
<1>5. entries \in Seq(S) /\ Len(entries) = m
  <2>1. entries \in [1..m -> S]
    BY <1>4
  <2> HIDE DEF entries, S
  <2> QED
    BY <1>1, <2>1, IsSequence
<1>6. \A k \in 1..m : /\ entries[k] = EntryItem(RecordsAt(tree)[TableOrder(tree, t)[k]])
                      /\ entries[k].size = ENTRY_SIZE
  BY DEF EntryItem
<1>7. T = IF padding = 0 THEN entries ELSE Append(entries, pad)
  BY <1>2, <1>5 DEF TableItems, EntryItem, PaddingItem
<1>8. padding \in 0..7 /\ Align8(ENTRY_SIZE * m) = ENTRY_SIZE * m + padding
  <2>1. \A a \in Nat : Align8(a) \in a..(a + 7)
    BY DEF Align8
  <2> DEFINE a == ENTRY_SIZE * m
  <2>2. a \in Nat
    BY <1>1 DEF ENTRY_SIZE
  <2> HIDE DEF a
  <2>3. PICK r \in 0..7 : Align8(a) = a + r
    <3>1. Align8(a) \in a..(a + 7)
      BY <2>1, <2>2
    <3>2. \A z \in a..(a + 7) : \E r \in 0..7 : z = a + r
      <4> TAKE z \in a..(a + 7)
      <4>1. z - a \in 0..7 /\ z = a + (z - a)
        BY <2>2
      <4> QED
        BY <4>1
    <3> QED
      BY <3>1, <3>2
  <2>4. Align8(a) - a = r
    BY <2>2, <2>3
  <2> QED
    BY <2>3, <2>4 DEF a
<1> HIDE DEF entries, S, padding
<1>9. /\ \A k \in 1..(m + 1) : Positions(entries)[k] = ENTRY_SIZE * (k - 1)
      /\ Total(entries) = ENTRY_SIZE * m
  <2>1. ENTRY_SIZE \in Nat /\ \A k \in 1..Len(entries) : entries[k].size = ENTRY_SIZE
    BY <1>5, <1>6 DEF ENTRY_SIZE
  <2>2. /\ \A k \in 1..(Len(entries) + 1) : Positions(entries)[k] = ENTRY_SIZE * (k - 1)
        /\ Total(entries) = ENTRY_SIZE * Len(entries)
    BY <1>3, <1>5, <2>1, PositionsOfEqual
  <2> QED
    BY <1>5, <2>2
<1>10. CASE padding = 0
  <2>1. T = entries /\ Align8(ENTRY_SIZE * m) = ENTRY_SIZE * m
    BY <1>1, <1>7, <1>8, <1>10 DEF ENTRY_SIZE
  <2>2. \A k \in 1..m : k \in 1..(m + 1)
    BY <1>1
  <2> QED
    BY <1>1, <1>5, <1>6, <1>9, <2>1, <2>2 DEF HasEntries, S
<1>11. CASE padding # 0
  <2>1. pad \in S /\ pad.size = padding
    <3>1. padding \in 1..7
      BY <1>8, <1>11
    <3>2. PaddingItem(padding) \in {PaddingItem(k) : k \in 1..7}
      BY <3>1
    <3> QED
      BY <3>2 DEF S, ItemsOf, PaddingItem
  <2> DEFINE one == <<pad>>
  <2>2. T = entries \o one
    BY <1>5, <1>7, <1>11, <2>1, AppendIsConcat
  <2>3. one \in Seq(S) /\ Total(one) = padding
    <3> HIDE DEF pad
    <3> QED
      BY <1>3, <2>1, TotalOfOne
  <2>4. Len(one) = 1
    OBVIOUS
  <2> HIDE DEF one
  <2>5. T \in Seq(S) /\ Total(T) = Total(entries) + Total(one)
    BY <1>3, <1>5, <2>2, <2>3, TotalOfConcat
  <2>6. \A k \in 1..(Len(entries) + 1) : Positions(entries \o one)[k] = Positions(entries)[k]
    BY <1>3, <1>5, <2>3, PositionsOfConcat
  <2>7. /\ Len(entries \o one) = Len(entries) + Len(one)
        /\ \A k \in 1..(Len(entries) + Len(one)) :
             (entries \o one)[k] = IF k <= Len(entries) THEN entries[k] ELSE one[k - Len(entries)]
    BY <1>5, <2>3, ConcatProperties
  <2>8. \A k \in 1..m : /\ k \in 1..(m + 1) /\ k \in 1..(Len(entries) + Len(one)) /\ k <= Len(entries)
    BY <1>1, <1>5, <2>4
  <2>9. \A k \in 1..m : /\ Positions(T)[k] = ENTRY_SIZE * (k - 1)
                        /\ T[k] = EntryItem(RecordsAt(tree)[TableOrder(tree, t)[k]])
    BY <1>5, <1>6, <1>9, <2>2, <2>6, <2>7, <2>8
  <2>10. m <= Len(T)
    BY <1>1, <1>5, <2>2, <2>4, <2>7
  <2>11. Total(T) = Align8(ENTRY_SIZE * m)
    BY <1>8, <1>9, <2>3, <2>5
  <2> QED
    BY <1>1, <2>5, <2>9, <2>10, <2>11 DEF HasEntries, S
<1> QED
  BY <1>10, <1>11

\* The text of a topic
LEMMA TextIs ==
  ASSUME NEW tree, NEW n \in Nat, Numbered(tree, n), NEW t \in 0..n
  PROVE  /\ TextItems(tree, t) \in Seq(ItemsOf(tree))
         /\ Total(TextItems(tree, t)) = tree.len[t] /\ tree.len[t] \in Nat
         /\ tree.len[t] # 0 => TextItems(tree, t) = <<TextItem(tree, t)>>
<1>1. tree.len[t] \in Nat /\ t \in DOMAIN tree.kids
  BY DEF Numbered
<1>2. Sized(ItemsOf(tree))
  BY ItemsAreSolid
<1>3. CASE tree.len[t] = 0
  <2>1. TextItems(tree, t) = <<>>
    BY <1>3 DEF TextItems
  <2>2. Total(<<>>) = 0
    BY <1>2, TotalIsNat
  <2>3. <<>> \in Seq(ItemsOf(tree))
    OBVIOUS
  <2> QED
    BY <1>1, <1>3, <2>1, <2>2, <2>3
<1>4. CASE tree.len[t] # 0
  <2> DEFINE x == TextItem(tree, t)
  <2>1. TextItems(tree, t) = <<x>>
    BY <1>4 DEF TextItems, TextItem
  <2>2. x \in ItemsOf(tree) /\ x.size = tree.len[t]
    <3>1. x \in TextsOf(tree)
      BY <1>1, <1>4 DEF TextsOf
    <3> QED
      BY <3>1 DEF ItemsOf, TextItem
  <2> HIDE DEF x
  <2>3. <<x>> \in Seq(ItemsOf(tree)) /\ Total(<<x>>) = x.size
    BY <1>2, <2>2, TotalOfOne
  <2> QED
    BY <1>1, <2>1, <2>2, <2>3 DEF x
<1> QED
  BY <1>3, <1>4

\* Where the tables and the texts begin
TablesBegin(tree) == HEADER_SIZE + Len(Flattened(tree)) * NODE_SIZE
TextsBegin(tree) == TablesBegin(tree) + Total(Lengths(Tables(tree)))

\* The parts, one of each kind for every topic
PartsFit(tree, S, n) ==
  /\ n = Len(Flattened(tree)) /\ Header(tree) \in S
  /\ Records(tree) \in Seq(S) /\ Len(Records(tree)) = n
  /\ Tables(tree) \in Seq(Seq(S)) /\ Len(Tables(tree)) = n
  /\ Texts(tree) \in Seq(Seq(S)) /\ Len(Texts(tree)) = n

LEMMA PartsAre ==
  ASSUME NEW tree, NEW m \in Nat, Numbered(tree, m)
  PROVE  PartsFit(tree, ItemsOf(tree), Len(Flattened(tree)))
<1> DEFINE F == Flattened(tree)
           n == Len(F)
           S == ItemsOf(tree)
<1>1. n \in Nat /\ DOMAIN F = 1..n /\ \A i \in 1..n : F[i] \in 0..m
  BY FlattenedIsSeq
<1>2. Header(tree) \in S
  BY DEF ItemsOf
<1>3. Records(tree) \in Seq(S) /\ Len(Records(tree)) = n
  <2>1. \A i \in 1..n : NodeItem(tree, F[i], i, OffsetsOf(tree), RecordsAt(tree)) \in S
    BY <1>1 DEF ItemsOf, RecordsOf
  <2>2. Records(tree) = [i \in 1..n |-> NodeItem(tree, F[i], i, OffsetsOf(tree), RecordsAt(tree))]
    BY <1>1 DEF Records
  <2> HIDE DEF S, n, F
  <2>3. Records(tree) \in [1..n -> S]
    BY <2>1, <2>2
  <2> QED
    BY <1>1, <2>3, IsSequence
<1>4. Tables(tree) \in Seq(Seq(S)) /\ Len(Tables(tree)) = n
  <2>1. \A i \in 1..n : TableItems(tree, F[i], RecordsAt(tree)) \in Seq(S)
    BY <1>1, TableIs
  <2>2. Tables(tree) = [i \in 1..n |-> TableItems(tree, F[i], RecordsAt(tree))]
    BY <1>1 DEF Tables
  <2> HIDE DEF S, n, F
  <2>3. Tables(tree) \in [1..n -> Seq(S)]
    BY <2>1, <2>2
  <2> QED
    BY <1>1, <2>3, IsSequence
<1>5. Texts(tree) \in Seq(Seq(S)) /\ Len(Texts(tree)) = n
  <2>1. \A i \in 1..n : TextItems(tree, F[i]) \in Seq(S)
    BY <1>1, TextIs
  <2>2. Texts(tree) = [i \in 1..n |-> TextItems(tree, F[i])]
    BY <1>1 DEF Texts
  <2> HIDE DEF S, n, F
  <2>3. Texts(tree) \in [1..n -> Seq(S)]
    BY <2>1, <2>2
  <2> QED
    BY <1>1, <2>3, IsSequence
<1> QED
  BY <1>2, <1>3, <1>4, <1>5 DEF PartsFit

\* Where the parts are
Laid(tree, items, S) ==
  /\ items \in Seq(S)
  /\ Total(items) = TextsBegin(tree) + Total(Lengths(Texts(tree)))
  /\ LiesAt(Seq(S), items, <<Header(tree)>>, 0)
  /\ LiesAt(Seq(S), items, Records(tree), HEADER_SIZE)
  /\ LiesAt(Seq(S), items, FlattenSeq(Tables(tree)), TablesBegin(tree))
  /\ LiesAt(Seq(S), items, FlattenSeq(Texts(tree)), TextsBegin(tree))

\* Four lists lie one behind the other,
Stacked(T, s, a, b, c, d) ==
  /\ s \in T /\ Total(s) = ((Total(a) + Total(b)) + Total(c)) + Total(d)
  /\ LiesAt(T, s, a, 0) /\ LiesAt(T, s, b, Total(a))
  /\ LiesAt(T, s, c, Total(a) + Total(b))
  /\ LiesAt(T, s, d, (Total(a) + Total(b)) + Total(c))

\* when they are put together.
LEMMA FourListsLie ==
  ASSUME NEW T, AreLists(T), NEW a \in T, NEW b \in T, NEW c \in T, NEW d \in T,
         \A x \in T : LiesAt(T, x, x, 0), NEW s, s = ((a \o b) \o c) \o d
  PROVE  Stacked(T, s, a, b, c, d)
<1>1. \A x, y \in T : x \o y \in T /\ Total(x \o y) = Total(x) + Total(y)
  BY DEF AreLists, Join
<1>2. \A x \in T : Total(x) \in Nat /\ Total(x) + 0 = Total(x)
  BY DEF AreLists
<1> DEFINE ab == a \o b
           abc == ab \o c
<1>3. ab \in T /\ Total(ab) = Total(a) + Total(b)
  BY <1>1
<1>4. LiesAt(T, ab, a, 0) /\ LiesAt(T, ab, b, Total(a))
  BY <1>2, LiesInConcat
<1> HIDE DEF ab
<1>5. abc \in T /\ Total(abc) = Total(ab) + Total(c)
  BY <1>1, <1>3
<1>6. LiesAt(T, abc, a, 0) /\ LiesAt(T, abc, b, Total(a))
  BY <1>3, <1>4, LiesInConcat
<1>7. LiesAt(T, abc, c, Total(ab))
  BY <1>2, <1>3, LiesInConcat
<1>8. s = abc \o d
  BY DEF ab
<1> HIDE DEF abc
<1>9. s \in T /\ Total(s) = Total(abc) + Total(d)
  BY <1>1, <1>5, <1>8
<1>10. LiesAt(T, s, a, 0) /\ LiesAt(T, s, b, Total(a)) /\ LiesAt(T, s, c, Total(ab))
  BY <1>5, <1>6, <1>7, <1>8, LiesInConcat
<1>11. LiesAt(T, s, d, Total(abc))
  BY <1>2, <1>5, <1>8, LiesInConcat
<1> QED
  BY <1>3, <1>5, <1>9, <1>10, <1>11 DEF Stacked

LEMMA LayoutIs ==
  ASSUME NEW tree, NEW m \in Nat, Numbered(tree, m)
  PROVE  Laid(tree, Items(tree), ItemsOf(tree))
<1> DEFINE S == ItemsOf(tree)
           T == Seq(S)
           n == Len(Flattened(tree))
           one == <<Header(tree)>>
           recs == Records(tree)
           tabs == FlattenSeq(Tables(tree))
           txts == FlattenSeq(Texts(tree))
           s == Items(tree)
<1>1. Sized(S)
  BY ItemsAreSolid
<1>2. AreLists(T) /\ \A x \in T : LiesAt(T, x, x, 0)
  <2> HIDE DEF S
  <2> QED
    BY <1>1, ListsOfItems, LiesWhole
<1>3. PartsFit(tree, S, n)
  BY PartsAre
<1>4. one \in T /\ Total(one) = HEADER_SIZE
  <2>1. Header(tree) \in S /\ Header(tree).size = HEADER_SIZE
    BY <1>3 DEF PartsFit, Header, HeaderItem
  <2> HIDE DEF S
  <2> QED
    BY <1>1, <2>1, TotalOfOne
<1>5. recs \in T /\ Total(recs) = NODE_SIZE * n
  <2>1. recs \in T /\ Len(recs) = n
    BY <1>3 DEF PartsFit
  <2>2. \A i \in 1..n : recs[i].size = NODE_SIZE
    <3>1. DOMAIN Flattened(tree) = 1..n
      BY FlattenedIsSeq
    <3> QED
      BY <3>1 DEF Records, NodeItem
  <2>3. NODE_SIZE \in Nat
    BY DEF NODE_SIZE
  <2> HIDE DEF S, recs, n
  <2>4. Total(recs) = NODE_SIZE * Len(recs)
    BY <1>1, <2>1, <2>2, <2>3, PositionsOfEqual
  <2> QED
    BY <2>1, <2>4
<1>6. tabs \in T /\ Total(tabs) = Total(Lengths(Tables(tree)))
  <2>1. Tables(tree) \in Seq(Seq(S))
    BY <1>3 DEF PartsFit
  <2>2. HasParts(S, tabs, Tables(tree))
    <3> HIDE DEF S
    <3> QED
      BY <1>1, <2>1, FlattenHasParts
  <2> QED
    BY <2>2 DEF HasParts
<1>7. txts \in T /\ Total(txts) = Total(Lengths(Texts(tree)))
  <2>1. Texts(tree) \in Seq(Seq(S))
    BY <1>3 DEF PartsFit
  <2>2. HasParts(S, txts, Texts(tree))
    <3> HIDE DEF S
    <3> QED
      BY <1>1, <2>1, FlattenHasParts
  <2> QED
    BY <2>2 DEF HasParts
<1>8. s = ((one \o recs) \o tabs) \o txts
  BY ItemsAre
<1>9. /\ s \in T /\ Total(s) = ((Total(one) + Total(recs)) + Total(tabs)) + Total(txts)
      /\ LiesAt(T, s, one, 0) /\ LiesAt(T, s, recs, Total(one))
      /\ LiesAt(T, s, tabs, Total(one) + Total(recs))
      /\ LiesAt(T, s, txts, (Total(one) + Total(recs)) + Total(tabs))
  <2> HIDE DEF T, one, recs, tabs, txts, s
  <2>1. one \in T /\ recs \in T /\ tabs \in T /\ txts \in T
    BY <1>4, <1>5, <1>6, <1>7
  <2>2. Stacked(T, s, one, recs, tabs, txts)
    BY <1>2, <1>8, <2>1, FourListsLie
  <2> QED
    BY <2>2 DEF Stacked
<1>10. n * NODE_SIZE = NODE_SIZE * n
  BY FlattenedIsSeq DEF NODE_SIZE
<1>11. TablesBegin(tree) = Total(one) + Total(recs)
  BY <1>4, <1>5, <1>10 DEF TablesBegin
<1>12. TextsBegin(tree) = (Total(one) + Total(recs)) + Total(tabs)
  BY <1>6, <1>11 DEF TextsBegin
<1> HIDE DEF T
<1> QED
  BY <1>4, <1>7, <1>9, <1>11, <1>12 DEF Laid, T, S, one, recs, tabs, txts, s
-----------------------------------------------------------------------------
\* The offsets of phase 2 are where phase 4 puts things, as far as they fit.
OffsetsRight(tree, o) ==
  /\ o.textAt = U32(TextsBegin(tree))
  /\ o.size = U32(TextsBegin(tree) + Total(Lengths(Texts(tree))))
  /\ \A i \in 1..Len(Flattened(tree)) :
       LET t == Flattened(tree)[i]
       IN  /\ o.node[i] = U32(HEADER_SIZE + (i - 1) * NODE_SIZE)
           /\ tree.kids[t] # <<>> =>
                o.table[i] = U32(TablesBegin(tree) + Positions(Lengths(Tables(tree)))[i])
           /\ tree.kids[t] = <<>> => o.table[i] = 0
           /\ U32(tree.len[t]) # 0 =>
                o.text[i] = U32(TextsBegin(tree) + Positions(Lengths(Texts(tree)))[i])
           /\ U32(tree.len[t]) = 0 => o.text[i] = 0

\* What the lengths of several lists are
LEMMA LengthsAre ==
  ASSUME NEW S, Sized(S), NEW ss \in Seq(Seq(S))
  PROVE  /\ Sized([size : Nat]) /\ Lengths(ss) \in Seq([size : Nat])
         /\ Len(Lengths(ss)) = Len(ss) /\ Total(Lengths(ss)) \in Nat
         /\ \A i \in 1..Len(ss) : Lengths(ss)[i].size = Total(ss[i]) /\ ss[i] \in Seq(S)
<1> DEFINE n == Len(ss)
           c == Lengths(ss)
           N == [size : Nat]
<1>1. n \in Nat /\ \A i \in 1..n : ss[i] \in Seq(S)
  OBVIOUS
<1>2. \A i \in 1..n : [size |-> Total(ss[i])] \in N
  <2>1. \A i \in 1..n : Total(ss[i]) \in Nat
    BY <1>1, TotalIsNat
  <2> QED
    BY <2>1
<1>3. c = [i \in 1..n |-> [size |-> Total(ss[i])]]
  BY DEF Lengths
<1>4. Sized(N)
  BY DEF Sized
<1>5. \A i \in 1..n : c[i].size = Total(ss[i])
  <2> HIDE DEF c
  <2> QED
    BY <1>3
<1> HIDE DEF c, n, N
<1>6. c \in [1..n -> N]
  BY <1>2, <1>3
<1>7. c \in Seq(N) /\ Len(c) = n
  BY <1>1, <1>6, IsSequence
<1>8. Total(c) \in Nat
  BY <1>4, <1>7, TotalIsNat
<1> QED
  BY <1>1, <1>4, <1>5, <1>7, <1>8 DEF c, n, N

LEMMA OffsetsAre ==
  ASSUME NEW tree, NEW m \in Nat, Numbered(tree, m)
  PROVE  OffsetsRight(tree, OffsetsOf(tree))
<1> DEFINE F == Flattened(tree)
           n == Len(F)
           S == ItemsOf(tree)
           N == [size : Nat]
           tabs == Lengths(Tables(tree))
           txts == Lengths(Texts(tree))
           b == TablesBegin(tree)
           x == TextsBegin(tree)
           tableSizes == [i \in DOMAIN F |-> TableSize(tree, F[i])]
           tables == Cursor(U32(HEADER_SIZE + Len(F) * NODE_SIZE), tableSizes)
           textSizes == [i \in DOMAIN F |-> tree.len[F[i]]]
           texts == Cursor(tables[Len(F)], textSizes)
           o == OffsetsOf(tree)
<1>1. /\ n \in Nat /\ n >= 1 /\ DOMAIN F = 1..n
      /\ \A i \in 1..n : F[i] \in 0..m
  BY FlattenedIsSeq
<1>2. /\ o.node = [i \in DOMAIN F |-> U32(HEADER_SIZE + (i - 1) * NODE_SIZE)]
      /\ o.table = [i \in DOMAIN F |-> IF tree.kids[F[i]] = <<>> THEN 0 ELSE tables[i - 1]]
      /\ o.text = [i \in DOMAIN F |-> IF U32(tree.len[F[i]]) = 0 THEN 0 ELSE texts[i - 1]]
      /\ o.textAt = tables[n] /\ o.size = texts[n]
  BY DEF OffsetsOf, Offsets
<1>3. Sized(S) /\ PartsFit(tree, S, n)
  BY ItemsAreSolid, PartsAre
<1>4. /\ tabs \in Seq(N) /\ Len(tabs) = n /\ Total(tabs) \in Nat
      /\ \A i \in 1..n : tabs[i].size = Total(Tables(tree)[i])
  <2>1. Tables(tree) \in Seq(Seq(S)) /\ Len(Tables(tree)) = n
    BY <1>3 DEF PartsFit
  <2> HIDE DEF S, n
  <2>2. /\ tabs \in Seq(N) /\ Len(tabs) = Len(Tables(tree)) /\ Total(tabs) \in Nat
        /\ \A i \in 1..Len(Tables(tree)) : tabs[i].size = Total(Tables(tree)[i])
    BY <1>3, <2>1, LengthsAre
  <2> QED
    BY <2>1, <2>2
<1>5. /\ txts \in Seq(N) /\ Len(txts) = n
      /\ \A i \in 1..n : txts[i].size = Total(Texts(tree)[i])
  <2>1. Texts(tree) \in Seq(Seq(S)) /\ Len(Texts(tree)) = n
    BY <1>3 DEF PartsFit
  <2> HIDE DEF S, n
  <2>2. /\ txts \in Seq(N) /\ Len(txts) = Len(Texts(tree))
        /\ \A i \in 1..Len(Texts(tree)) : txts[i].size = Total(Texts(tree)[i])
    BY <1>3, <2>1, LengthsAre
  <2> QED
    BY <2>1, <2>2
<1>6. \A i \in 1..n : /\ TableSize(tree, F[i]) \in Nat
                      /\ U32(TableSize(tree, F[i])) = U32(tabs[i].size)
  <2> TAKE i \in 1..n
  <2> DEFINE k == Len(tree.kids[F[i]])
  <2>1. Total(Tables(tree)[i]) = Align8(ENTRY_SIZE * k) /\ k \in Nat
    <3> DEFINE T == Tables(tree)[i]
    <3>1. F[i] \in 0..m /\ T = TableItems(tree, F[i], RecordsAt(tree))
      BY <1>1 DEF Tables
    <3> HIDE DEF F, T, k
    <3>2. k = Len(tree.kids[F[i]])
      BY DEF k
    <3>3. Total(T) = Align8(ENTRY_SIZE * k) /\ k \in Nat
      BY <3>1, <3>2, TableIs
    <3> QED
      BY <3>3 DEF T
  <2>2. TableSize(tree, F[i]) = Align8(U32(ENTRY_SIZE * k))
    BY DEF TableSize
  <2> HIDE DEF k
  <2>3. Align8(U32(4 * k)) \in Nat /\ U32(Align8(U32(4 * k))) = U32(Align8(4 * k))
    BY <2>1, TablesAreAligned
  <2> QED
    BY <1>4, <2>1, <2>2, <2>3 DEF ENTRY_SIZE
<1>7. \A i \in 1..n : tree.len[F[i]] \in Nat /\ U32(tree.len[F[i]]) = U32(txts[i].size)
  <2> TAKE i \in 1..n
  <2>1. F[i] \in 0..m /\ Texts(tree)[i] = TextItems(tree, F[i])
    BY <1>1 DEF Texts
  <2>2. Total(Texts(tree)[i]) = tree.len[F[i]] /\ tree.len[F[i]] \in Nat
    <3> HIDE DEF F
    <3> QED
      BY <2>1, TextIs
  <2> QED
    BY <1>5, <2>2
<1>8. b \in Nat /\ b = HEADER_SIZE + Len(F) * NODE_SIZE
  BY <1>1 DEF TablesBegin, HEADER_SIZE, NODE_SIZE
<1>9. /\ tableSizes \in Seq(Nat) /\ Len(tableSizes) = n
      /\ \A i \in 1..n : U32(tableSizes[i]) = U32(tabs[i].size)
  <2>1. tableSizes = [i \in 1..n |-> TableSize(tree, F[i])]
    BY <1>1
  <2> HIDE DEF n, F, tableSizes, tabs
  <2>2. tableSizes \in [1..n -> Nat]
    BY <1>6, <2>1
  <2>3. \A i \in 1..n : U32(tableSizes[i]) = U32(tabs[i].size)
    BY <1>6, <2>1
  <2> QED
    BY <1>1, <2>2, <2>3, IsSequence
<1>10. /\ textSizes \in Seq(Nat) /\ Len(textSizes) = n
       /\ \A i \in 1..n : U32(textSizes[i]) = U32(txts[i].size)
  <2>1. textSizes = [i \in 1..n |-> tree.len[F[i]]]
    BY <1>1
  <2> HIDE DEF n, F, textSizes, txts
  <2>2. textSizes \in [1..n -> Nat]
    BY <1>7, <2>1
  <2>3. \A i \in 1..n : U32(textSizes[i]) = U32(txts[i].size)
    BY <1>7, <2>1
  <2> QED
    BY <1>1, <2>2, <2>3, IsSequence
<1>11. \A i \in 0..n : tables[i] = U32(b + Positions(tabs)[i + 1])
  <2>1. tables = Cursor(U32(b), tableSizes)
    BY <1>8
  <2> HIDE DEF tabs, tableSizes, tables, b, n, N
  <2>2. Len(tabs) = Len(tableSizes) /\ \A i \in 1..Len(tableSizes) : U32(tableSizes[i]) = U32(tabs[i].size)
    BY <1>4, <1>9
  <2>3. \A i \in 0..Len(tableSizes) : Cursor(U32(b), tableSizes)[i] = U32(b + Positions(tabs)[i + 1])
    BY <1>4, <1>8, <1>9, <2>2, CursorIs DEF N
  <2> QED
    BY <1>9, <2>1, <2>3
<1>12. tables[n] = U32(x)
  <2>1. n \in 0..n
    BY <1>1
  <2>2. tables[n] = U32(b + Positions(tabs)[n + 1])
    <3> HIDE DEF tables, n
    <3> QED
      BY <1>11, <2>1
  <2>3. x = b + Positions(tabs)[n + 1]
    BY <1>4 DEF TextsBegin, Total
  <2> QED
    BY <2>2, <2>3
<1>13. x \in Nat
  BY <1>4, <1>8 DEF TextsBegin
<1>14. \A i \in 0..n : texts[i] = U32(x + Positions(txts)[i + 1])
  <2>1. texts = Cursor(U32(x), textSizes)
    BY <1>12
  <2> HIDE DEF txts, textSizes, texts, x, n, N
  <2>2. Len(txts) = Len(textSizes) /\ \A i \in 1..Len(textSizes) : U32(textSizes[i]) = U32(txts[i].size)
    BY <1>5, <1>10
  <2>3. \A i \in 0..Len(textSizes) : Cursor(U32(x), textSizes)[i] = U32(x + Positions(txts)[i + 1])
    BY <1>5, <1>13, <1>10, <2>2, CursorIs DEF N
  <2> QED
    BY <1>10, <2>1, <2>3
<1>15. texts[n] = U32(x + Total(txts))
  <2>1. n \in 0..n
    BY <1>1
  <2>2. texts[n] = U32(x + Positions(txts)[n + 1])
    <3> HIDE DEF texts, n
    <3> QED
      BY <1>14, <2>1
  <2> QED
    BY <1>5, <2>2 DEF Total
<1> HIDE DEF tables, texts, tableSizes, textSizes, n, b, x, tabs, txts, o
<1>16. ASSUME NEW i \in 1..n
       PROVE  /\ o.node[i] = U32(HEADER_SIZE + (i - 1) * NODE_SIZE)
              /\ tree.kids[F[i]] # <<>> => o.table[i] = U32(b + Positions(tabs)[i])
              /\ tree.kids[F[i]] = <<>> => o.table[i] = 0
              /\ U32(tree.len[F[i]]) # 0 => o.text[i] = U32(x + Positions(txts)[i])
              /\ U32(tree.len[F[i]]) = 0 => o.text[i] = 0
  <2>1. i - 1 \in 0..n /\ (i - 1) + 1 = i /\ i \in DOMAIN F
    BY <1>1
  <2>2. tables[i - 1] = U32(b + Positions(tabs)[i]) /\ texts[i - 1] = U32(x + Positions(txts)[i])
    BY <1>11, <1>14, <2>1
  <2> HIDE DEF F
  <2> QED
    BY <1>2, <2>1, <2>2
<1> QED
  BY <1>2, <1>12, <1>15, <1>16 DEF OffsetsRight, n, b, x, tabs, txts, o
-----------------------------------------------------------------------------
(***************************************************************************)
(* Opening                                                                 *)
(***************************************************************************)

\* The image is as long as its parts, and what lies in the items is in it.
LEMMA ImageIsLaid ==
  ASSUME NEW tree, NEW m \in Nat, Numbered(tree, m)
  PROVE  /\ Image(tree).size = TextsBegin(tree) + Total(Lengths(Texts(tree)))
         /\ Image(tree).size \in Nat
         /\ \A x \in ItemsOf(tree), p \in Nat :
              LiesAt(Seq(ItemsOf(tree)), Items(tree), <<x>>, p) => Finds(Image(tree), p, x)
<1> DEFINE S == ItemsOf(tree)
           s == Items(tree)
<1>1. Solid(S) /\ Sized(S)
  BY ItemsAreSolid
<1>2. Laid(tree, s, S)
  BY LayoutIs
<1>3. Image(tree) = ImageOf(s)
  BY ItemsAre
<1>4. s \in Seq(S) /\ Total(s) = TextsBegin(tree) + Total(Lengths(Texts(tree)))
  BY <1>2 DEF Laid
<1> HIDE DEF S, s
<1>5. Holds(ImageOf(s), s)
  BY <1>1, <1>4, ImageIs
<1>6. ASSUME NEW x \in S, NEW p, LiesAt(Seq(S), s, <<x>>, p)
      PROVE  Finds(ImageOf(s), p, x)
  BY <1>1, <1>4, <1>6, LiesInImage
<1> QED
  BY <1>3, <1>4, <1>5, <1>6 DEF Holds, S, s

\* The sizes in the header
HeaderFits(tree, header) ==
  /\ header.size = HEADER_SIZE
  /\ header.node_count = Len(Flattened(tree))
  /\ header.root_offset = U32(HEADER_SIZE)
  /\ header.text_offset = U32(TextsBegin(tree))
  /\ header.file_size = U32(Image(tree).size)
  /\ header.text_size = U32(OffsetLimit + U32(Image(tree).size) - U32(TextsBegin(tree)))

LEMMA HeaderIs ==
  ASSUME NEW tree, NEW m \in Nat, Numbered(tree, m)
  PROVE  HeaderFits(tree, Header(tree)) /\ Finds(Image(tree), 0, Header(tree))
<1> DEFINE o == OffsetsOf(tree)
<1>1. OffsetsRight(tree, o)
  BY OffsetsAre
<1>2. Len(Flattened(tree)) \in Nat /\ Len(Flattened(tree)) >= 1
  BY FlattenedIsSeq
<1>3. o.node[1] = U32(HEADER_SIZE)
  <2>1. 1 \in 1..Len(Flattened(tree)) /\ HEADER_SIZE + (1 - 1) * NODE_SIZE = HEADER_SIZE
    BY <1>2 DEF HEADER_SIZE, NODE_SIZE
  <2>2. o.node[1] = U32(HEADER_SIZE + (1 - 1) * NODE_SIZE)
    BY <1>1, <2>1 DEF OffsetsRight
  <2> QED
    BY <2>1, <2>2
<1>4. o.textAt = U32(TextsBegin(tree)) /\ o.size = U32(Image(tree).size)
  BY <1>1, ImageIsLaid DEF OffsetsRight
<1>5. HeaderFits(tree, Header(tree))
  <2> HIDE DEF o
  <2> QED
    BY <1>3, <1>4 DEF HeaderFits, Header, HeaderItem, o
<1>6. Header(tree) \in ItemsOf(tree) /\ LiesAt(Seq(ItemsOf(tree)), Items(tree), <<Header(tree)>>, 0)
  BY LayoutIs DEF Laid, ItemsOf
<1> QED
  BY <1>5, <1>6, ImageIsLaid

\* What is found in an image is found in its bytes when they are there.
LEMMA BytesAre ==
  ASSUME NEW image, NEW n, NEW p, NEW x, Finds(image, p, x), p + x.size <= n
  PROVE  /\ Bytes(image, n).len = n
         /\ p \in DOMAIN Bytes(image, n).item /\ Bytes(image, n).item[p] = x
BY DEF Finds, Bytes

\* The size in the header tells what opens,
LEMMA OpensOnlyAtSize ==
  ASSUME NEW tree, IsTree(tree), NEW n \in Nat, Opens(Bytes(Image(tree), n))
  PROVE  n = U32(Image(tree).size)
<1> DEFINE data == Bytes(Image(tree), n)
           header == Header(tree)
<1>1. PICK m \in Nat : Numbered(tree, m)
  BY TreeIs
<1>2. HeaderFits(tree, header) /\ Finds(Image(tree), 0, header)
  BY <1>1, HeaderIs
<1>3. data.len = n
  BY DEF Bytes
<1>4. n >= HEADER_SIZE /\ data.item[0].file_size = n
  BY <1>3 DEF Opens, SizeAgrees
<1>5. 0 + header.size <= n
  BY <1>2, <1>4 DEF HeaderFits, HEADER_SIZE
<1>6. data.item[0] = header
  BY <1>2, <1>5, BytesAre
<1> QED
  BY <1>2, <1>4, <1>6 DEF HeaderFits

\* and a whole image opens when its size fits.
LEMMA WholeImageOpens ==
  ASSUME NEW tree, IsTree(tree), Image(tree).size < OffsetLimit
  PROVE  Opens(Bytes(Image(tree), Image(tree).size))
<1> DEFINE n == Image(tree).size
           data == Bytes(Image(tree), n)
           header == Header(tree)
           N == Len(Flattened(tree))
           tabs == Total(Lengths(Tables(tree)))
           txts == Total(Lengths(Texts(tree)))
           x == TextsBegin(tree)
<1>1. PICK m \in Nat : Numbered(tree, m)
  BY TreeIs
<1>2. HeaderFits(tree, header) /\ Finds(Image(tree), 0, header)
  BY <1>1, HeaderIs
<1>3. n = x + txts /\ n \in Nat
  BY <1>1, ImageIsLaid
<1>4. N \in Nat /\ N >= 1
  BY <1>1, FlattenedIsSeq
<1>5. tabs \in Nat /\ txts \in Nat
  <2>1. Sized(ItemsOf(tree)) /\ PartsFit(tree, ItemsOf(tree), N)
    BY <1>1, ItemsAreSolid, PartsAre
  <2>2. Tables(tree) \in Seq(Seq(ItemsOf(tree))) /\ Texts(tree) \in Seq(Seq(ItemsOf(tree)))
    BY <2>1 DEF PartsFit
  <2> QED
    BY <2>1, <2>2, LengthsAre
<1>6. x = (HEADER_SIZE + N * NODE_SIZE) + tabs
  BY DEF TextsBegin, TablesBegin
<1>7. data.len = n /\ data.item[0] = header
  <2>1. data.len = n
    BY DEF Bytes
  <2>2. 0 + header.size <= n
    BY <1>2 DEF Finds
  <2> QED
    BY <1>2, <2>1, <2>2, BytesAre
<1> HIDE DEF n, data, header, N, tabs, txts, x
<1> DEFINE b == HEADER_SIZE + N * NODE_SIZE
<1>8. b \in Nat /\ b >= HEADER_SIZE + NODE_SIZE /\ HEADER_SIZE \in Nat
  BY <1>4 DEF HEADER_SIZE, NODE_SIZE
<1>9. b <= x /\ x <= n /\ x \in Nat /\ n < OffsetLimit /\ OffsetLimit \in Nat
  <2>1. x = b + tabs
    BY <1>6
  <2> HIDE DEF b
  <2> QED
    BY <1>3, <1>5, <1>8, <2>1, LimitAssumption DEF n
<1>10. HEADER_SIZE < OffsetLimit /\ b < OffsetLimit /\ x < OffsetLimit
  <2> HIDE DEF b
  <2> QED
    BY <1>3, <1>8, <1>9 DEF HEADER_SIZE, NODE_SIZE
<1>11. /\ U32(HEADER_SIZE) = HEADER_SIZE /\ U32(b) = b /\ U32(x) = x /\ U32(n) = n
  <2> HIDE DEF b
  <2> QED
    BY <1>3, <1>8, <1>9, <1>10, U32Fits
<1>12. U32(OffsetLimit + n - x) = n - x
  <2>1. n - x \in Nat /\ n - x < OffsetLimit /\ OffsetLimit + n - x = OffsetLimit * 1 + (n - x)
    BY <1>3, <1>9
  <2> QED
    BY <2>1, U32Rest
<1>13. /\ header.node_count = N /\ header.root_offset = HEADER_SIZE
       /\ header.text_offset = x /\ header.file_size = n /\ header.text_size = n - x
  BY <1>2, <1>11, <1>12 DEF HeaderFits, n, N, x
<1>14. n >= HEADER_SIZE
  BY <1>3, <1>8, <1>9 DEF HEADER_SIZE, NODE_SIZE
<1>15. IsNodeOffset(data, HEADER_SIZE)
  <2>1. NodeRegionEnd(data) = b
    BY <1>7, <1>11, <1>13 DEF NodeRegionEnd
  <2>2. HEADER_SIZE < b /\ (HEADER_SIZE - HEADER_SIZE) % NODE_SIZE = 0
    BY <1>8 DEF HEADER_SIZE, NODE_SIZE
  <2>3. HEADER_SIZE >= HEADER_SIZE
    BY <1>8
  <2> QED
    BY <2>1, <2>2, <2>3 DEF IsNodeOffset
<1>16. x + (n - x) <= n
  BY <1>3, <1>9
<1> QED
  BY <1>7, <1>13, <1>14, <1>15, <1>16 DEF Opens, SizeAgrees, data, n
-----------------------------------------------------------------------------
(***************************************************************************)
(* The file and its library                                                *)
(***************************************************************************)

\* A file that a build of a tree has left so far
IsFile(f) == \E tree \in Tree : \E n \in 0..Image(tree).size :
               f = [tree |-> tree, image |-> Image(tree), len |-> n]

\* The file is some part of an image, all of it when the build reported success;
\* what is open was such a file when it was opened, and has not changed since.
FilesInv ==
  /\ file = NoFile \/ IsFile(file)
  /\ build \in {"writing", "Ok"} => IsFile(file)
  /\ build = "Ok" => file.len = file.image.size
  /\ IsOpen => IsFile(library) /\ Opens(Data(library))

\* What an operation on a file leaves is a file.
LEMMA FilesAre ==
  /\ \A tree \in Tree : IsTree(tree) /\ Image(tree).size \in Nat
  /\ \A f : IsFile(f) => /\ f.tree \in Tree /\ f.image = Image(f.tree)
                         /\ f.len \in 0..f.image.size
<1>1. ASSUME NEW tree \in Tree PROVE IsTree(tree) /\ Image(tree).size \in Nat
  <2>1. IsTree(tree)
    BY TreeAssumption
  <2>2. PICK m \in Nat : Numbered(tree, m)
    BY <2>1, TreeIs
  <2> QED
    BY <2>1, <2>2, ImageIsLaid
<1>2. ASSUME NEW f, IsFile(f)
      PROVE  f.tree \in Tree /\ f.image = Image(f.tree) /\ f.len \in 0..f.image.size
  <2>1. PICK tree \in Tree, n \in Nat :
          n \in 0..Image(tree).size /\ f = [tree |-> tree, image |-> Image(tree), len |-> n]
    BY <1>1, <1>2 DEF IsFile
  <2> QED
    BY <2>1
<1> QED
  BY <1>1, <1>2

\* It holds at first, and every operation keeps it.
LEMMA FilesInvHolds == Spec => []FilesInv
<1>1. Init => FilesInv
  BY DEF Init, FilesInv, IsOpen
<1>2. ASSUME FilesInv, [Next]_vars PROVE FilesInv'
  <2>1. CASE \E f \in Created : Create(f)
    <3>1. PICK f \in Created : Create(f)
      BY <2>1
    <3>2. PICK tree \in Tree : f = EmptyFile(tree)
      BY DEF Created
    <3>3. IsFile(f)
      <4>1. 0 \in 0..Image(tree).size
        BY FilesAre
      <4> QED
        BY <3>2, <4>1 DEF IsFile, EmptyFile
    <3>4. file' = f /\ library' = NoLibrary /\ build' \in {"EmptyTree", "writing"}
      BY <3>1 DEF Create
    <3> QED
      BY <3>3, <3>4 DEF FilesInv, IsFile, IsOpen
  <2>2. CASE Write
    <3>1. PICK n \in Cuts(file.image) : file' = [file EXCEPT !.len = n]
      BY <2>2 DEF Write
    <3>2. build = "writing" /\ UNCHANGED <<build, library>>
      BY <2>2 DEF Write
    <3>3. PICK tree \in Tree, k \in Nat : file = [tree |-> tree, image |-> Image(tree), len |-> k]
      BY <1>2, <3>2, FilesAre DEF FilesInv, IsFile
    <3>4. n \in 0..Image(tree).size
      BY <3>1, <3>3, TreeAssumption
    <3>5. file' = [tree |-> tree, image |-> Image(tree), len |-> n]
      BY <3>1, <3>3
    <3>6. IsFile(file')
      BY <3>4, <3>5 DEF IsFile
    <3> QED
      BY <1>2, <3>2, <3>6 DEF FilesInv, IsFile, IsOpen, Data
  <2>3. CASE Stop
    BY <1>2, <2>3 DEF FilesInv, IsFile, Stop, IsOpen, Data
  <2>4. CASE Finish
    BY <1>2, <2>4 DEF FilesInv, IsFile, Finish, IsOpen, Data
  <2>5. CASE Open
    <3>1. UNCHANGED <<file, build>>
      BY <2>5 DEF Open
    <3>2. CASE Opens(Data(file))
      <4>1. library' = file
        BY <2>5, <3>2 DEF Open
      <4>2. file # NoFile
        <5>1. Data(file).len >= HEADER_SIZE
          BY <3>2 DEF Opens
        <5>2. Data(NoFile).len = 0
          BY DEF Data, Bytes, NoFile, EmptyFile
        <5> QED
          BY <5>1, <5>2 DEF HEADER_SIZE
      <4>3. IsFile(file)
        BY <1>2, <4>2 DEF FilesInv
      <4> QED
        BY <1>2, <3>1, <3>2, <4>1, <4>3 DEF FilesInv, IsFile, IsOpen, Data
    <3>3. CASE ~ Opens(Data(file))
      BY <1>2, <2>5, <3>1, <3>3 DEF FilesInv, IsFile, IsOpen, Data, Open
    <3> QED
      BY <3>2, <3>3
  <2>6. CASE UNCHANGED vars
    BY <1>2, <2>6 DEF FilesInv, IsFile, vars, IsOpen, Data
  <2> QED
    BY <1>2, <2>1, <2>2, <2>3, <2>4, <2>5, <2>6 DEF Next
<1> QED
  BY <1>1, <1>2, PTL DEF Spec

\* A file that a build left unfinished does not open, whatever trees are built and
\* wherever the writing stopped: what opens has exactly the size that the builder
\* recorded in the header before it wrote anything.
THEOREM OnlyWholeFilesOpen == Spec => []OnlyCompleteFilesOpen
<1>1. FilesInv => OnlyCompleteFilesOpen
  <2> SUFFICES ASSUME FilesInv, IsOpen PROVE library.len = U32(library.image.size)
    BY DEF OnlyCompleteFilesOpen
  <2>1. /\ library.tree \in Tree /\ library.image = Image(library.tree)
        /\ library.len \in 0..library.image.size /\ Opens(Data(library))
    BY FilesAre DEF FilesInv
  <2>2. IsTree(library.tree) /\ Image(library.tree).size \in Nat
    BY <2>1, FilesAre
  <2>3. library.len \in Nat /\ Opens(Bytes(Image(library.tree), library.len))
    BY <2>1, <2>2 DEF Data
  <2>4. library.len = U32(Image(library.tree).size)
    BY <2>2, <2>3, OpensOnlyAtSize
  <2> QED
    BY <2>1, <2>4
<1> QED
  BY <1>1, FilesInvHolds, PTL

\* A build that reports success has made a library that opens, for every tree whose
\* image and counts fit the fields of the format: what phase 2 put into the header
\* before anything was written agrees with what phase 4 wrote.
THEOREM SuccessfulBuildsOpen == Spec => []SuccessfulBuildOpens
<1>1. FilesInv => SuccessfulBuildOpens
  <2> SUFFICES ASSUME FilesInv, build = "Ok", Fits(file) PROVE Opens(Data(file))
    BY DEF SuccessfulBuildOpens
  <2>1. /\ file.tree \in Tree /\ file.image = Image(file.tree)
        /\ file.len = file.image.size
    BY FilesAre DEF FilesInv
  <2>2. IsTree(file.tree) /\ Image(file.tree).size < OffsetLimit
    BY <2>1, FilesAre DEF Fits
  <2>3. Opens(Bytes(Image(file.tree), Image(file.tree).size))
    BY <2>2, WholeImageOpens
  <2> QED
    BY <2>1, <2>3 DEF Data
<1> QED
  BY <1>1, FilesInvHolds, PTL
-----------------------------------------------------------------------------
(***************************************************************************)
(* The nodes are the topics, each once                                     *)
(***************************************************************************)

\* What a sequence holds, and that it holds everything once
Entries(s) == {s[i] : i \in 1..Len(s)}
Distinct(s) == \A i, j \in 1..Len(s) : s[i] = s[j] => i = j

\* What two sequences hold together
LEMMA EntriesOfConcat ==
  ASSUME NEW S, NEW a \in Seq(S), NEW b \in Seq(S)
  PROVE  /\ Entries(a \o b) = Entries(a) \cup Entries(b)
         /\ Distinct(a) /\ Distinct(b) /\ Entries(a) \cap Entries(b) = {} => Distinct(a \o b)
<1> DEFINE m == Len(a)
           n == Len(b)
           s == a \o b
<1>1. m \in Nat /\ n \in Nat
  OBVIOUS
<1>2. /\ Len(s) = m + n
      /\ \A i \in 1..(m + n) : s[i] = IF i <= m THEN a[i] ELSE b[i - m]
  BY ConcatProperties
<1> HIDE DEF m, n, s
<1>3. \A i \in 1..m : s[i] = a[i] /\ i \in 1..(m + n)
  BY <1>1, <1>2
<1>4. \A i \in 1..n : s[m + i] = b[i] /\ m + i \in 1..(m + n)
  <2> TAKE i \in 1..n
  <2>1. m + i \in 1..(m + n) /\ ~ (m + i <= m) /\ (m + i) - m = i
    BY <1>1
  <2> QED
    BY <1>2, <2>1
<1>5. \A i \in 1..(m + n) : i \in 1..m \/ \E k \in 1..n : i = m + k
  <2> TAKE i \in 1..(m + n)
  <2>1. CASE i <= m
    BY <1>1, <2>1
  <2>2. CASE ~ (i <= m)
    <3>1. i - m \in 1..n /\ i = m + (i - m)
      BY <1>1, <2>2
    <3> QED
      BY <3>1
  <2> QED
    BY <2>1, <2>2
<1>6. Entries(s) = Entries(a) \cup Entries(b)
  <2>1. Entries(s) \subseteq Entries(a) \cup Entries(b)
    <3>1. ASSUME NEW i \in 1..(m + n) PROVE s[i] \in Entries(a) \cup Entries(b)
      <4>1. CASE i \in 1..m
        BY <1>3, <4>1 DEF Entries, m
      <4>2. CASE \E k \in 1..n : i = m + k
        BY <1>4, <4>2 DEF Entries, n
      <4> QED
        BY <1>5, <4>1, <4>2
    <3> QED
      BY <1>2, <3>1 DEF Entries
  <2>2. Entries(a) \subseteq Entries(s)
    BY <1>2, <1>3 DEF Entries, m
  <2>3. Entries(b) \subseteq Entries(s)
    BY <1>2, <1>4 DEF Entries, n
  <2> QED
    BY <2>1, <2>2, <2>3
<1>7. ASSUME Distinct(a), Distinct(b), Entries(a) \cap Entries(b) = {}
      PROVE  Distinct(s)
  <2>1. /\ \A i, j \in 1..m : a[i] = a[j] => i = j
        /\ \A i, j \in 1..n : b[i] = b[j] => i = j
    BY <1>7 DEF Distinct, m, n
  <2>2. ASSUME NEW i \in 1..m, NEW j \in 1..n PROVE a[i] # b[j]
    <3>1. a[i] \in Entries(a) /\ b[j] \in Entries(b)
      BY DEF Entries, m, n
    <3> QED
      BY <1>7, <3>1
  <2>3. ASSUME NEW i \in 1..(m + n), NEW j \in 1..(m + n), s[i] = s[j]
        PROVE  i = j
    <3>1. CASE i \in 1..m /\ j \in 1..m
      BY <1>3, <2>1, <2>3, <3>1
    <3>2. CASE i \in 1..m /\ \E k \in 1..n : j = m + k
      BY <1>3, <1>4, <2>2, <2>3, <3>2
    <3>3. CASE j \in 1..m /\ \E k \in 1..n : i = m + k
      BY <1>3, <1>4, <2>2, <2>3, <3>3
    <3>4. CASE (\E k \in 1..n : i = m + k) /\ (\E k \in 1..n : j = m + k)
      <4>1. PICK k \in 1..n, l \in 1..n : i = m + k /\ j = m + l
        BY <3>4
      <4>2. k = l
        BY <1>4, <2>1, <2>3, <4>1
      <4> QED
        BY <4>1, <4>2
    <3> QED
      BY <1>5, <3>1, <3>2, <3>3, <3>4
  <2> QED
    BY <1>2, <2>3 DEF Distinct
<1> QED
  BY <1>6, <1>7 DEF s

\* What is in any of the sequences
Together(ss) == UNION {Entries(ss[i]) : i \in 1..Len(ss)}

\* No two of them share an entry.
Apart(ss) ==
  /\ \A i \in 1..Len(ss) : Distinct(ss[i])
  /\ \A i, j \in 1..Len(ss) : i # j => Entries(ss[i]) \cap Entries(ss[j]) = {}

\* FlattenSeq keeps everything, and repeats nothing.
LEMMA FlattenSeqHolds ==
  ASSUME NEW S
  PROVE  \A ss \in Seq(Seq(S)) : /\ Entries(FlattenSeq(ss)) = Together(ss)
                                 /\ Apart(ss) => Distinct(FlattenSeq(ss))
<1> DEFINE T == {ss \in Seq(Seq(S)) : /\ Entries(FlattenSeq(ss)) = Together(ss)
                                      /\ Apart(ss) => Distinct(FlattenSeq(ss))}
<1>1. <<>> \in T
  <2> DEFINE none == <<>>
  <2>1. FlattenSeq(none) = none /\ Len(none) = 0 /\ none \in Seq(Seq(S))
    BY DEF FlattenSeq
  <2>2. \A i \in 1..0 : FALSE
    OBVIOUS
  <2> HIDE DEF none
  <2>3. Entries(none) = {} /\ Together(none) = {} /\ Distinct(none)
    BY <2>1, <2>2 DEF Entries, Together, Distinct
  <2>4. none \in T
    BY <2>1, <2>3
  <2> QED
    BY <2>4 DEF none
<1>2. ASSUME NEW ss \in Seq(Seq(S)), NEW t \in Seq(S), ss \in T PROVE Append(ss, t) \in T
  <2> DEFINE n == Len(ss)
             tt == Append(ss, t)
             s == FlattenSeq(ss)
  <2>1. /\ n \in Nat /\ tt \in Seq(Seq(S)) /\ Len(tt) = n + 1 /\ tt[n + 1] = t
        /\ \A i \in 1..n : tt[i] = ss[i] /\ i \in 1..(n + 1) /\ i # n + 1
    BY AppendProperties
  <2>2. s \in Seq(S)
    BY FlattenSeqIsSeq
  <2>3. FlattenSeq(tt) = s \o t
    BY <2>2, FlattenSeqStep
  <2>4. /\ Entries(s) = Together(ss)
        /\ Apart(ss) => Distinct(s)
    BY <1>2
  <2> HIDE DEF n, tt, s, T
  <2>5. /\ Entries(s \o t) = Entries(s) \cup Entries(t)
        /\ Distinct(s) /\ Distinct(t) /\ Entries(s) \cap Entries(t) = {} => Distinct(s \o t)
    BY <2>2, EntriesOfConcat
  <2>6. \A i \in 1..(n + 1) : i \in 1..n \/ i = n + 1
    BY <2>1
  <2>7. Together(tt) = Together(ss) \cup Entries(t)
    <3>1. Together(ss) = UNION {Entries(ss[i]) : i \in 1..n}
      BY DEF Together, n
    <3>2. Together(tt) = UNION {Entries(tt[i]) : i \in 1..(n + 1)}
      BY <2>1 DEF Together
    <3>3. n + 1 \in 1..(n + 1)
      BY <2>1
    <3>4. \A x : x \in Together(tt) <=> \E i \in 1..(n + 1) : x \in Entries(tt[i])
      BY <3>2
    <3>5. \A x : x \in Together(ss) <=> \E i \in 1..n : x \in Entries(ss[i])
      BY <3>1
    <3> QED
      BY <2>1, <2>6, <3>3, <3>4, <3>5
  <2>8. ASSUME Apart(tt) PROVE Distinct(s \o t)
    <3>1. /\ \A i \in 1..(n + 1) : Distinct(tt[i])
          /\ \A i, j \in 1..(n + 1) : i # j => Entries(tt[i]) \cap Entries(tt[j]) = {}
      BY <2>1, <2>8 DEF Apart
    <3>2. n + 1 \in 1..(n + 1)
      BY <2>1
    <3>3. Apart(ss)
      <4>1. /\ \A i \in 1..n : Distinct(ss[i])
            /\ \A i, j \in 1..n : i # j => Entries(ss[i]) \cap Entries(ss[j]) = {}
        BY <2>1, <3>1
      <4> QED
        BY <4>1 DEF Apart, n
    <3>4. Distinct(t)
      BY <2>1, <3>1, <3>2
    <3>5. \A i \in 1..n : Entries(ss[i]) \cap Entries(t) = {}
      BY <2>1, <3>1, <3>2
    <3>6. Together(ss) \cap Entries(t) = {}
      BY <3>5 DEF Together, n
    <3> QED
      BY <2>4, <2>5, <3>3, <3>4, <3>6
  <2> QED
    BY <2>1, <2>3, <2>4, <2>5, <2>7, <2>8 DEF T, tt
<1>3. Seq(Seq(S)) \subseteq T
  <2> HIDE DEF T
  <2> QED
    BY <1>1, <1>2, InductionOnSeq
<1> QED
  BY <1>3

\* The topics below t, itself included: all of them come after t, and each but t
\* has the topic it belongs to among them.
Subtree(tree, n, s, t) ==
  /\ s \in Seq(0..n) /\ Distinct(s) /\ t \in Entries(s) /\ Entries(s) \subseteq t..n
  /\ \A u \in Entries(s) : u = t \/ \E p \in Entries(s) : \E k \in 1..Len(tree.kids[p]) :
       tree.kids[p][k] = u

\* The subtrees of two subtopics share no topic: the first they shared would belong
\* to two topics.
LEMMA SubtreesAreApart ==
  ASSUME NEW tree, NEW n \in Nat, Numbered(tree, n), NEW t \in 0..n,
         NEW j \in 1..Len(tree.kids[t]), NEW k \in 1..Len(tree.kids[t]), j # k,
         NEW a, NEW b, Subtree(tree, n, a, tree.kids[t][j]), Subtree(tree, n, b, tree.kids[t][k])
  PROVE  Entries(a) \cap Entries(b) = {}
<1> DEFINE u == tree.kids[t][j]
           v == tree.kids[t][k]
           C == Entries(a) \cap Entries(b)
<1>1. u \in (t + 1)..n /\ v \in (t + 1)..n
  BY DEF Numbered
<1>2. \A p, q \in 0..n : \A x \in 1..Len(tree.kids[p]), y \in 1..Len(tree.kids[q]) :
        tree.kids[p][x] = tree.kids[q][y] => p = q /\ x = y
  BY DEF Numbered
<1>3. \A p \in 0..n : \A x \in 1..Len(tree.kids[p]) : tree.kids[p][x] \in (p + 1)..n
  BY DEF Numbered
<1>4. u # v
  BY <1>2
<1>5. /\ Entries(a) \subseteq u..n
      /\ \A w \in Entries(a) : w = u \/ \E p \in Entries(a) : \E x \in 1..Len(tree.kids[p]) :
           tree.kids[p][x] = w
  BY DEF Subtree
<1>6. /\ Entries(b) \subseteq v..n
      /\ \A w \in Entries(b) : w = v \/ \E p \in Entries(b) : \E x \in 1..Len(tree.kids[p]) :
           tree.kids[p][x] = w
  BY DEF Subtree
<1>7. tree.kids[t][j] = u /\ tree.kids[t][k] = v
  OBVIOUS
<1> HIDE DEF u, v
<1> SUFFICES ASSUME C # {} PROVE FALSE
  OBVIOUS
<1>8. C \in SUBSET Nat
  BY <1>1, <1>5
<1>9. PICK c \in C : \A y \in C : c <= y
  <2>1. Min(C) \in C /\ \A y \in C : Min(C) <= y
    <3> HIDE DEF C
    <3> QED
      BY <1>8, MinIsMember
  <2> QED
    BY <2>1
<1>10. c \in Entries(a) /\ c \in Entries(b) /\ c \in Nat
  BY <1>8
<1>11. CASE c = u
  <2>1. PICK p \in Entries(b) : \E x \in 1..Len(tree.kids[p]) : tree.kids[p][x] = c
    BY <1>4, <1>6, <1>10, <1>11
  <2>2. p \in v..n /\ p \in 0..n
    BY <1>1, <1>6
  <2>3. p = t
    BY <1>2, <1>7, <1>11, <2>1, <2>2
  <2> QED
    BY <1>1, <2>2, <2>3
<1>12. CASE c = v
  <2>1. PICK p \in Entries(a) : \E x \in 1..Len(tree.kids[p]) : tree.kids[p][x] = c
    BY <1>4, <1>5, <1>10, <1>12
  <2>2. p \in u..n /\ p \in 0..n
    BY <1>1, <1>5
  <2>3. p = t
    BY <1>2, <1>7, <1>12, <2>1, <2>2
  <2> QED
    BY <1>1, <2>2, <2>3
<1>13. CASE c # u /\ c # v
  <2>1. PICK p \in Entries(a) : \E x \in 1..Len(tree.kids[p]) : tree.kids[p][x] = c
    BY <1>5, <1>10, <1>13
  <2>2. PICK q \in Entries(b) : \E x \in 1..Len(tree.kids[q]) : tree.kids[q][x] = c
    BY <1>6, <1>10, <1>13
  <2>3. p \in 0..n /\ q \in 0..n
    BY <1>1, <1>5, <1>6
  <2>4. p = q
    <3>1. PICK x \in 1..Len(tree.kids[p]) : tree.kids[p][x] = c
      BY <2>1
    <3>2. PICK y \in 1..Len(tree.kids[q]) : tree.kids[q][y] = c
      BY <2>2
    <3>3. tree.kids[p][x] = tree.kids[q][y] /\ p \in 0..n /\ q \in 0..n
      BY <2>3, <3>1, <3>2
    <3> QED
      BY <1>2, <3>3
  <2>5. p < c
    <3>1. PICK x \in 1..Len(tree.kids[p]) : tree.kids[p][x] = c
      BY <2>1
    <3>2. tree.kids[p][x] \in (p + 1)..n
      BY <1>3, <2>3, <3>1
    <3> QED
      BY <2>3, <3>1, <3>2
  <2>6. p \in C
    BY <2>4
  <2> QED
    BY <1>9, <1>10, <2>3, <2>5, <2>6
<1> QED
  BY <1>11, <1>12, <1>13

\* Flattening makes the subtree of each topic.
LEMMA FlatteningMakesSubtrees ==
  ASSUME NEW tree, NEW n \in Nat, Numbered(tree, n), NEW from \in [0..n -> Seq(0..n)],
         \A t \in 0..n : FlattensAt(tree, from, t)
  PROVE  /\ \A t \in 0..n : Subtree(tree, n, from[t], t)
         /\ \A t \in 0..n : \A k \in 1..Len(tree.kids[t]) :
              Entries(from[tree.kids[t][k]]) \subseteq Entries(from[t])
<1> DEFINE T == {t \in 0..n : Subtree(tree, n, from[t], t)}
<1>1. ASSUME NEW t \in 0..n
      PROVE  /\ Entries(from[t]) = {t} \cup Together(Subtrees(tree, from, t))
             /\ Together(Subtrees(tree, from, t))
                  = UNION {Entries(from[tree.kids[t][k]]) : k \in 1..Len(tree.kids[t])}
             /\ Apart(Subtrees(tree, from, t)) /\ t \notin Together(Subtrees(tree, from, t))
                  => Distinct(from[t])
  <2> DEFINE ss == Subtrees(tree, from, t)
             rest == FlattenSeq(ss)
             z == <<t>>
  <2>1. /\ ss \in Seq(Seq(0..n)) /\ Len(ss) = Len(tree.kids[t])
        /\ \A k \in 1..Len(tree.kids[t]) : ss[k] = from[tree.kids[t][k]]
    <3>1. LaterIn(from, t, n, Seq(0..n))
      BY DEF LaterIn
    <3>2. SubtreesListed(tree, from, t, Seq(0..n))
      BY <3>1, SubtreesAre
    <3> QED
      BY <3>2 DEF SubtreesListed
  <2>2. /\ Entries(rest) = Together(ss) /\ rest \in Seq(0..n)
        /\ Apart(ss) => Distinct(rest)
    <3> HIDE DEF ss
    <3> QED
      BY <2>1, FlattenSeqHolds, FlattenSeqIsSeq
  <2>3. from[t] = z \o rest
    BY DEF FlattensAt
  <2>4. z \in Seq(0..n) /\ Entries(z) = {t} /\ Distinct(z)
    BY DEF Entries, Distinct
  <2> HIDE DEF ss, rest, z
  <2>5. /\ Entries(z \o rest) = Entries(z) \cup Entries(rest)
        /\ Distinct(z) /\ Distinct(rest) /\ Entries(z) \cap Entries(rest) = {} => Distinct(z \o rest)
    BY <2>2, <2>4, EntriesOfConcat
  <2>6. Together(ss) = UNION {Entries(from[tree.kids[t][k]]) : k \in 1..Len(tree.kids[t])}
    <3> DEFINE m == Len(tree.kids[t])
               E(k) == Entries(from[tree.kids[t][k]])
    <3>1. Len(ss) = m /\ \A k \in 1..m : Entries(ss[k]) = E(k)
      BY <2>1
    <3> HIDE DEF m, E
    <3>2. \A x : x \in Together(ss) <=> \E k \in 1..m : x \in E(k)
      BY <3>1 DEF Together
    <3>3. Together(ss) = UNION {E(k) : k \in 1..m}
      BY <3>2
    <3> QED
      BY <3>3 DEF m, E
  <2>7. Apart(ss) /\ t \notin Together(ss) => Distinct(from[t])
    BY <2>2, <2>3, <2>4, <2>5
  <2> QED
    BY <2>2, <2>3, <2>4, <2>5, <2>6, <2>7 DEF ss
<1>2. ASSUME NEW t \in 0..n, \A u \in (t + 1)..n : u \in T PROVE t \in T
  <2> DEFINE ss == Subtrees(tree, from, t)
             m == Len(tree.kids[t])
  <2>1. /\ Len(ss) = m /\ \A k \in 1..m : ss[k] = from[tree.kids[t][k]]
    <3>1. LaterIn(from, t, n, Seq(0..n))
      BY DEF LaterIn
    <3>2. SubtreesListed(tree, from, t, Seq(0..n))
      BY <3>1, SubtreesAre
    <3> QED
      BY <3>2 DEF SubtreesListed
  <2>2. \A k \in 1..m : /\ tree.kids[t][k] \in (t + 1)..n
                        /\ Subtree(tree, n, from[tree.kids[t][k]], tree.kids[t][k])
    <3>1. \A k \in 1..m : tree.kids[t][k] \in (t + 1)..n
      BY DEF Numbered
    <3> QED
      BY <1>2, <3>1
  <2>3. \A i, j \in 1..m : i # j =>
          Entries(from[tree.kids[t][i]]) \cap Entries(from[tree.kids[t][j]]) = {}
    <3> SUFFICES ASSUME NEW i \in 1..m, NEW j \in 1..m, i # j
                 PROVE  Entries(from[tree.kids[t][i]]) \cap Entries(from[tree.kids[t][j]]) = {}
      OBVIOUS
    <3> DEFINE a == from[tree.kids[t][i]]
               b == from[tree.kids[t][j]]
    <3>1. Subtree(tree, n, a, tree.kids[t][i]) /\ Subtree(tree, n, b, tree.kids[t][j])
      BY <2>2
    <3> HIDE DEF a, b
    <3>2. Entries(a) \cap Entries(b) = {}
      BY <3>1, SubtreesAreApart
    <3> QED
      BY <3>2 DEF a, b
  <2>4. \A k \in 1..m : Distinct(from[tree.kids[t][k]])
    <3>1. \A u, v : Subtree(tree, n, u, v) => Distinct(u)
      BY DEF Subtree
    <3> QED
      BY <2>2, <3>1
  <2> HIDE DEF ss
  <2>5. Apart(ss)
    <3>1. \A k \in 1..m : Distinct(ss[k])
      BY <2>1, <2>4
    <3>2. ASSUME NEW i \in 1..m, NEW j \in 1..m, i # j
          PROVE  Entries(ss[i]) \cap Entries(ss[j]) = {}
      <4>1. ss[i] = from[tree.kids[t][i]] /\ ss[j] = from[tree.kids[t][j]]
        BY <2>1
      <4>2. Entries(from[tree.kids[t][i]]) \cap Entries(from[tree.kids[t][j]]) = {}
        BY <2>3, <3>2
      <4> QED
        BY <4>1, <4>2
    <3> HIDE DEF m
    <3> QED
      BY <2>1, <3>1, <3>2 DEF Apart
  <2>6. \A k \in 1..m : Entries(from[tree.kids[t][k]]) \subseteq (t + 1)..n
    <3> TAKE k \in 1..m
    <3> DEFINE u == tree.kids[t][k]
    <3>1. u \in (t + 1)..n /\ Entries(from[u]) \subseteq u..n
      BY <2>2 DEF Subtree
    <3> HIDE DEF u
    <3>2. Entries(from[u]) \subseteq (t + 1)..n
      BY <3>1
    <3> QED
      BY <3>2 DEF u
  <2>7. Together(ss) = UNION {Entries(from[tree.kids[t][k]]) : k \in 1..m}
    BY <1>1 DEF ss
  <2>8. Together(ss) \subseteq (t + 1)..n
    BY <2>6, <2>7
  <2>9. t \notin Together(ss)
    BY <2>8
  <2>10. Distinct(from[t]) /\ Entries(from[t]) = {t} \cup Together(ss)
    BY <1>1, <2>5, <2>9 DEF ss
  <2>11. t \in Entries(from[t]) /\ Entries(from[t]) \subseteq t..n
    BY <2>8, <2>10
  <2>12. ASSUME NEW u \in Entries(from[t]), u # t
         PROVE  \E p \in Entries(from[t]) : \E k \in 1..Len(tree.kids[p]) : tree.kids[p][k] = u
    <3>1. PICK k \in 1..m : u \in Entries(from[tree.kids[t][k]])
      BY <2>7, <2>10, <2>12
    <3> DEFINE v == tree.kids[t][k]
    <3>2. Entries(from[v]) \subseteq Entries(from[t])
      BY <2>7, <2>10
    <3>3. CASE u = v
      BY <2>11, <3>3
    <3>4. CASE u # v
      <4>1. Subtree(tree, n, from[v], v)
        BY <2>2
      <4> HIDE DEF v
      <4>2. u \in Entries(from[v])
        BY <3>1 DEF v
      <4>3. PICK p \in Entries(from[v]) : \E x \in 1..Len(tree.kids[p]) : tree.kids[p][x] = u
        BY <3>4, <4>1, <4>2 DEF Subtree
      <4> QED
        BY <3>2, <4>3
    <3> QED
      BY <3>3, <3>4
  <2>13. from[t] \in Seq(0..n)
    OBVIOUS
  <2> QED
    BY <2>10, <2>11, <2>12, <2>13 DEF Subtree
<1>3. \A t \in 0..n : t \in T
  <2> HIDE DEF T
  <2> QED
    BY <1>2, InductionDownwards
<1>4. ASSUME NEW t \in 0..n, NEW k \in 1..Len(tree.kids[t])
      PROVE  Entries(from[tree.kids[t][k]]) \subseteq Entries(from[t])
  <2> DEFINE E(i) == Entries(from[tree.kids[t][i]])
  <2>1. Entries(from[t]) = {t} \cup UNION {E(i) : i \in 1..Len(tree.kids[t])}
    BY <1>1
  <2> HIDE DEF E
  <2>2. E(k) \subseteq Entries(from[t])
    BY <2>1
  <2> QED
    BY <2>2 DEF E
<1> QED
  BY <1>3, <1>4

\* Every topic is a node once, and nothing else is.
LEMMA FlattenedIsOrder ==
  ASSUME NEW tree, NEW n \in Nat, Numbered(tree, n)
  PROVE  Distinct(Flattened(tree)) /\ Entries(Flattened(tree)) = 0..n
<1>1. PICK from \in [0..n -> Seq(0..n)] : /\ Flattened(tree) = from[0]
                                         /\ \A t \in 0..n : FlattensAt(tree, from, t)
  BY FlattenedIs
<1>2. /\ \A t \in 0..n : Subtree(tree, n, from[t], t)
      /\ \A t \in 0..n : \A k \in 1..Len(tree.kids[t]) :
           Entries(from[tree.kids[t][k]]) \subseteq Entries(from[t])
  BY <1>1, FlatteningMakesSubtrees
<1>3. Subtree(tree, n, from[0], 0)
  BY <1>2
<1> DEFINE M == {m \in Nat : \A u \in 0..n : u <= m => Entries(from[u]) \subseteq Entries(from[0])}
<1>4. 0 \in M
  <2>1. \A u \in 0..n : u <= 0 => u = 0
    OBVIOUS
  <2> QED
    BY <2>1
<1>5. ASSUME NEW m \in Nat, m \in M PROVE m + 1 \in M
  <2> SUFFICES ASSUME NEW u \in 0..n, u <= m + 1 PROVE Entries(from[u]) \subseteq Entries(from[0])
    OBVIOUS
  <2>1. CASE u <= m
    BY <1>5, <2>1
  <2>2. CASE ~ (u <= m)
    <3>1. u \in 1..n /\ u = m + 1
      BY <2>2
    <3>2. PICK t \in 0..(u - 1) : \E k \in 1..Len(tree.kids[t]) : tree.kids[t][k] = u
      BY <3>1 DEF Numbered
    <3>3. t \in 0..n /\ t <= m
      BY <3>1
    <3>4. Entries(from[u]) \subseteq Entries(from[t])
      BY <1>2, <3>2, <3>3
    <3>5. Entries(from[t]) \subseteq Entries(from[0])
      BY <1>5, <3>3
    <3> QED
      BY <3>4, <3>5
  <2> QED
    BY <2>1, <2>2
<1>6. Nat \subseteq M
  <2> HIDE DEF M
  <2> QED
    BY <1>4, <1>5, InductionOnNat
<1>7. \A u \in 0..n : u \in Entries(from[0])
  <2> TAKE u \in 0..n
  <2>1. u \in Entries(from[u])
    BY <1>2 DEF Subtree
  <2>2. n \in M
    BY <1>6
  <2>3. Entries(from[u]) \subseteq Entries(from[0])
    BY <2>2
  <2> QED
    BY <2>1, <2>3
<1> QED
  BY <1>1, <1>3, <1>7 DEF Subtree
-----------------------------------------------------------------------------
(***************************************************************************)
(* Sorting                                                                 *)
(***************************************************************************)

\* R orders the members of S.
Orders(R, S) ==
  /\ \A x \in S : <<x, x>> \notin R
  /\ \A x, y, z \in S : <<x, y>> \in R /\ <<y, z>> \in R => <<x, z>> \in R
  /\ \A x, y \in S : x = y \/ <<x, y>> \in R \/ <<y, x>> \in R

\* s has them in that order.
Sorted(s, S, R) ==
  /\ s \in Bijection(1..Cardinality(S), S)
  /\ \A i, j \in 1..Cardinality(S) : i < j => <<s[i], s[j]>> \in R

\* The members of a finite set can be put in order: the place of each is the number
\* of those before it.
LEMMA OrderExists ==
  ASSUME NEW S, IsFiniteSet(S), NEW R, Orders(R, S)
  PROVE  \E s : Sorted(s, S, R)
<1> DEFINE n == Cardinality(S)
           Below(x) == {y \in S : <<y, x>> \in R}
           place == [x \in S |-> Cardinality(Below(x)) + 1]
<1>1. n \in Nat
  BY FS_CardinalityType
<1>2. \A x \in S : /\ IsFiniteSet(Below(x)) /\ Cardinality(Below(x)) \in Nat
                   /\ Cardinality(Below(x)) < n
  <2> TAKE x \in S
  <2> DEFINE B == Below(x)
  <2>1. B \in SUBSET S /\ B # S
    BY DEF Orders
  <2> HIDE DEF B
  <2>2. IsFiniteSet(B) /\ Cardinality(B) <= n /\ (n = Cardinality(B) => S = B)
    BY <2>1, FS_Subset
  <2>3. Cardinality(B) \in Nat
    BY <2>2, FS_CardinalityType
  <2>4. Cardinality(B) < n
    BY <1>1, <2>1, <2>2, <2>3
  <2> QED
    BY <2>2, <2>3, <2>4 DEF B
<1>3. \A x, y \in S : <<x, y>> \in R => Cardinality(Below(x)) < Cardinality(Below(y))
  <2> SUFFICES ASSUME NEW x \in S, NEW y \in S, <<x, y>> \in R
               PROVE  Cardinality(Below(x)) < Cardinality(Below(y))
    OBVIOUS
  <2> DEFINE A == Below(x)
             B == Below(y)
  <2>1. A \in SUBSET B /\ A # B
    BY DEF Orders
  <2>2. IsFiniteSet(B) /\ Cardinality(A) \in Nat /\ Cardinality(B) \in Nat
    BY <1>2
  <2> HIDE DEF A, B
  <2>3. Cardinality(A) <= Cardinality(B) /\ (Cardinality(B) = Cardinality(A) => B = A)
    BY <2>1, <2>2, FS_Subset
  <2>4. Cardinality(A) < Cardinality(B)
    BY <2>1, <2>2, <2>3
  <2> QED
    BY <2>4 DEF A, B
<1> HIDE DEF Below
<1>4. place \in [S -> 1..n] /\ \A x \in S : place[x] = Cardinality(Below(x)) + 1
  <2>1. \A x \in S : Cardinality(Below(x)) + 1 \in 1..n
    BY <1>1, <1>2
  <2> QED
    BY <2>1
<1> HIDE DEF place
<1>5. \A x, y \in S : <<x, y>> \in R => place[x] < place[y]
  BY <1>2, <1>3, <1>4
<1>6. \A x, y \in S : place[x] = place[y] => x = y
  <2> TAKE x, y \in S
  <2>1. place[x] \in 1..n /\ place[y] \in 1..n
    BY <1>4
  <2>2. /\ <<x, y>> \in R => place[x] < place[y]
        /\ <<y, x>> \in R => place[y] < place[x]
    BY <1>5
  <2>3. x = y \/ <<x, y>> \in R \/ <<y, x>> \in R
    BY DEF Orders
  <2> QED
    BY <1>1, <2>1, <2>2, <2>3
<1>7. place \in Injection(S, 1..n)
  BY <1>4, <1>6 DEF Injection, IsInjective
<1>8. \A i \in 1..n : \E x \in S : place[x] = i
  <2>1. IsFiniteSet(1..n) /\ Cardinality(1..n) = n
    BY <1>1, FS_Interval
  <2>2. place \in Surjection(S, 1..n)
    <3> DEFINE T == 1..n
    <3>1. place \in Injection(S, T) /\ IsFiniteSet(T) /\ Cardinality(S) = Cardinality(T)
      BY <1>7, <2>1
    <3> HIDE DEF T
    <3>2. place \in Surjection(S, T)
      BY <3>1, FS_Injection
    <3> QED
      BY <3>2 DEF T
  <2> QED
    BY <2>2 DEF Surjection
<1> DEFINE s == [i \in 1..n |-> CHOOSE x \in S : place[x] = i]
<1>9. \A i \in 1..n : s[i] \in S /\ place[s[i]] = i
  BY <1>8
<1>10. s \in [1..n -> S]
  BY <1>8
<1> HIDE DEF s
<1>11. \A i, j \in 1..n : s[i] = s[j] => i = j
  BY <1>9
<1>12. \A x \in S : \E i \in 1..n : s[i] = x
  <2> TAKE x \in S
  <2>1. place[x] \in 1..n
    BY <1>4
  <2>2. s[place[x]] \in S /\ place[s[place[x]]] = place[x]
    BY <1>9, <2>1
  <2>3. s[place[x]] = x
    BY <1>6, <2>2
  <2> QED
    BY <2>1, <2>3
<1>13. s \in Bijection(1..n, S)
  BY <1>10, <1>11, <1>12 DEF Bijection, Injection, IsInjective, Surjection
<1>14. ASSUME NEW i \in 1..n, NEW j \in 1..n, i < j PROVE <<s[i], s[j]>> \in R
  <2>1. s[i] \in S /\ s[j] \in S /\ place[s[i]] = i /\ place[s[j]] = j
    BY <1>9
  <2>2. s[i] # s[j]
    BY <1>1, <1>14, <2>1
  <2>3. <<s[j], s[i]>> \notin R
    <3>1. <<s[j], s[i]>> \in R => j < i
      BY <1>5, <2>1
    <3> QED
      BY <1>1, <1>14, <3>1
  <2> QED
    BY <2>1, <2>2, <2>3 DEF Orders
<1> QED
  BY <1>13, <1>14 DEF Sorted

\* What is in order holds all that is to be ordered.
LEMMA SortedHolds ==
  ASSUME NEW S, NEW R, NEW s, Sorted(s, S, R), NEW n, n = Cardinality(S)
  PROVE  /\ DOMAIN s = 1..n
         /\ \A i \in 1..n : s[i] \in S
         /\ \A x \in S : \E i \in 1..n : s[i] = x
         /\ \A i, j \in 1..n : i < j => <<s[i], s[j]>> \in R
<1>1. s \in [1..n -> S] /\ \A x \in S : \E i \in 1..n : s[i] = x
  BY DEF Sorted, Bijection, Surjection
<1> QED
  BY <1>1 DEF Sorted

\* What p[1] and p[2] stand for is ordered by name, then by place.
NameBefore(tree, t) ==
  {p \in (1..Len(tree.kids[t])) \X (1..Len(tree.kids[t])) :
     \/ tree.key[tree.kids[t][p[1]]] < tree.key[tree.kids[t][p[2]]]
     \/ tree.key[tree.kids[t][p[1]]] = tree.key[tree.kids[t][p[2]]] /\ p[1] < p[2]}

\* A table has the subtopics sorted by name, those of one name as they were.
TableSorts(tree, t, s) ==
  /\ Sorted(s, 1..Len(tree.kids[t]), NameBefore(tree, t))
  /\ TableOrder(tree, t) = [k \in 1..Len(tree.kids[t]) |-> tree.kids[t][s[k]]]

LEMMA TableIsSorted ==
  ASSUME NEW tree, NEW n \in Nat, Numbered(tree, n), NEW t \in 0..n
  PROVE  \E s : TableSorts(tree, t, s)
<1> DEFINE kids == tree.kids[t]
           m == Len(kids)
           R == NameBefore(tree, t)
           Good(s) == \A i, j \in DOMAIN s : i < j =>
             \/ tree.key[kids[s[i]]] < tree.key[kids[s[j]]]
             \/ tree.key[kids[s[i]]] = tree.key[kids[s[j]]] /\ s[i] < s[j]
           order == CHOOSE s \in Bijection(1..Cardinality(DOMAIN kids), DOMAIN kids) : Good(s)
<1>1. /\ m \in Nat /\ DOMAIN kids = 1..m
      /\ \A k \in 1..m : kids[k] \in 1..n
  <2>1. kids \in Seq(1..n)
    BY DEF Numbered
  <2> HIDE DEF kids
  <2>2. \A k \in 1..Len(kids) : kids[k] \in 1..n
    BY <2>1, ElementOfSeq
  <2> QED
    BY <2>1, <2>2
<1>2. \A k \in 1..m : tree.key[kids[k]] \in Nat
  <2>1. tree.key \in [1..n -> Nat]
    BY DEF Numbered
  <2> QED
    BY <1>1, <2>1
<1>3. IsFiniteSet(1..m) /\ Cardinality(1..m) = m
  <2> HIDE DEF m
  <2> QED
    BY <1>1, FS_Interval
<1>4. TableOrder(tree, t) = [k \in DOMAIN kids |-> kids[order[k]]]
  BY DEF TableOrder, SortedKids, InOrder
<1>5. \A i, j \in 1..m : <<i, j>> \in R <=>
        \/ tree.key[kids[i]] < tree.key[kids[j]]
        \/ tree.key[kids[i]] = tree.key[kids[j]] /\ i < j
  BY DEF NameBefore
<1> HIDE DEF kids, m, R
<1>6. Orders(R, 1..m)
  <2>1. \A x \in 1..m : <<x, x>> \notin R
    BY <1>2, <1>5
  <2>2. \A x, y, z \in 1..m : <<x, y>> \in R /\ <<y, z>> \in R => <<x, z>> \in R
    <3> TAKE x, y, z \in 1..m
    <3> DEFINE a == tree.key[kids[x]]
               b == tree.key[kids[y]]
               c == tree.key[kids[z]]
    <3>1. a \in Nat /\ b \in Nat /\ c \in Nat
      BY <1>2
    <3>2. /\ <<x, y>> \in R <=> (a < b \/ (a = b /\ x < y))
          /\ <<y, z>> \in R <=> (b < c \/ (b = c /\ y < z))
          /\ <<x, z>> \in R <=> (a < c \/ (a = c /\ x < z))
      BY <1>5
    <3> HIDE DEF a, b, c
    <3> QED
      BY <1>1, <3>1, <3>2
  <2>3. \A x, y \in 1..m : x = y \/ <<x, y>> \in R \/ <<y, x>> \in R
    <3> TAKE x, y \in 1..m
    <3> DEFINE a == tree.key[kids[x]]
               b == tree.key[kids[y]]
    <3>1. a \in Nat /\ b \in Nat
      BY <1>2
    <3>2. /\ <<x, y>> \in R <=> (a < b \/ (a = b /\ x < y))
          /\ <<y, x>> \in R <=> (b < a \/ (b = a /\ y < x))
      BY <1>5
    <3> HIDE DEF a, b
    <3> QED
      BY <1>1, <3>1, <3>2
  <2> QED
    BY <2>1, <2>2, <2>3 DEF Orders
<1>7. PICK s : Sorted(s, 1..m, R)
  <2> DEFINE S == 1..m
  <2>1. IsFiniteSet(S) /\ Orders(R, S)
    BY <1>3, <1>6
  <2> HIDE DEF S
  <2>2. \E s : Sorted(s, S, R)
    BY <2>1, OrderExists
  <2> QED
    BY <2>2 DEF S
<1>8. \A r \in Bijection(1..m, 1..m) :
        Good(r) <=> \A i, j \in 1..m : i < j => <<r[i], r[j]>> \in R
  <2> TAKE r \in Bijection(1..m, 1..m)
  <2>1. DOMAIN r = 1..m /\ \A i \in 1..m : r[i] \in 1..m
    BY DEF Bijection, Surjection
  <2>2. \A i, j \in 1..m : <<r[i], r[j]>> \in R <=>
          \/ tree.key[kids[r[i]]] < tree.key[kids[r[j]]]
          \/ tree.key[kids[r[i]]] = tree.key[kids[r[j]]] /\ r[i] < r[j]
    BY <1>5, <2>1
  <2> QED
    BY <2>1, <2>2
<1>9. order = CHOOSE r \in Bijection(1..m, 1..m) : Good(r)
  BY <1>1, <1>3
<1>10. s \in Bijection(1..m, 1..m) /\ Good(s)
  BY <1>3, <1>7, <1>8 DEF Sorted
<1> HIDE DEF Good, order
<1>11. order \in Bijection(1..m, 1..m) /\ Good(order)
  BY <1>9, <1>10
<1>12. Sorted(order, 1..m, R)
  BY <1>3, <1>8, <1>11 DEF Sorted
<1> QED
  BY <1>1, <1>4, <1>12 DEF TableSorts, kids, m, R

\* Numbers in order are in the order of numbers.
LEMMA NumbersAreOrdered ==
  ASSUME NEW m \in Nat, NEW S, S = 1..m
  PROVE  /\ IsFiniteSet(S) /\ Cardinality(S) = m
         /\ Orders({p \in S \X S : p[1] < p[2]}, S)
<1> DEFINE R == {p \in S \X S : p[1] < p[2]}
<1>1. IsFiniteSet(S) /\ Cardinality(S) = m
  <2>1. m \in Int /\ 1 \in Int
    OBVIOUS
  <2>2. IsFiniteSet(1..m) /\ Cardinality(1..m) = IF 1 > m THEN 0 ELSE m - 1 + 1
    BY <2>1, FS_Interval
  <2> QED
    BY <2>2
<1>2. \A i, j \in S : <<i, j>> \in R <=> i < j
  OBVIOUS
<1>3. \A x \in S : x \in Nat
  OBVIOUS
<1> HIDE DEF R
<1>4. \A x \in S : <<x, x>> \notin R
  BY <1>2, <1>3
<1>5. \A x, y, z \in S : <<x, y>> \in R /\ <<y, z>> \in R => <<x, z>> \in R
  BY <1>2, <1>3
<1>6. \A x, y \in S : x = y \/ <<x, y>> \in R \/ <<y, x>> \in R
  <2> TAKE x, y \in S
  <2>1. x = y \/ x < y \/ y < x
    BY <1>3
  <2> QED
    BY <1>2, <2>1
<1>7. Orders(R, S)
  BY <1>4, <1>5, <1>6 DEF Orders
<1> QED
  BY <1>1, <1>7 DEF R

\* The numbers 1 to m, listed in their order.
NumbersOf(s, m) ==
  /\ DOMAIN s = 1..m
  /\ \A i \in 1..m : s[i] \in 1..m
  /\ \A x \in 1..m : \E i \in 1..m : s[i] = x
  /\ \A i, j \in 1..m : i < j => s[i] < s[j]

LEMMA NumbersInOrder ==
  ASSUME NEW m \in Nat
  PROVE  NumbersOf(InOrder(1..m, LAMBDA i, j : i < j), m)
<1> DEFINE S == 1..m
           R == {p \in S \X S : p[1] < p[2]}
           Good(q) == \A i, j \in DOMAIN q : i < j => q[i] < q[j]
           s == CHOOSE q \in Bijection(1..Cardinality(S), S) : Good(q)
<1>1. IsFiniteSet(S) /\ Cardinality(S) = m /\ Orders(R, S)
  <2> HIDE DEF S
  <2> QED
    BY NumbersAreOrdered DEF S
<1>2. InOrder(1..m, LAMBDA i, j : i < j) = s
  BY DEF InOrder
<1>3. \A i, j \in S : <<i, j>> \in R <=> i < j
  OBVIOUS
<1> HIDE DEF R
<1>5. PICK q : Sorted(q, S, R)
  <2> HIDE DEF S
  <2> QED
    BY <1>1, OrderExists
<1>6. \A r \in Bijection(1..m, S) :
        Good(r) <=> \A i, j \in 1..m : i < j => <<r[i], r[j]>> \in R
  <2> TAKE r \in Bijection(1..m, S)
  <2>1. DOMAIN r = 1..m /\ \A i \in 1..m : r[i] \in S
    BY DEF Bijection, Surjection
  <2>2. \A i, j \in 1..m : <<r[i], r[j]>> \in R <=> r[i] < r[j]
    BY <1>3, <2>1
  <2> QED
    BY <2>1, <2>2
<1>7. q \in Bijection(1..m, S) /\ Good(q)
  BY <1>1, <1>5, <1>6 DEF Sorted
<1> HIDE DEF Good
<1>8. s \in Bijection(1..m, S) /\ Good(s)
  <2>1. s = CHOOSE r \in Bijection(1..m, S) : Good(r)
    BY <1>1
  <2> QED
    BY <1>7, <2>1
<1> HIDE DEF s
<1>9. DOMAIN s = 1..m /\ \A i \in 1..m : s[i] \in S
  BY <1>8 DEF Bijection, Surjection
<1>10. \A x \in S : \E i \in 1..m : s[i] = x
  BY <1>8 DEF Bijection, Surjection
<1>11. NumbersOf(s, m)
  BY <1>8, <1>9, <1>10 DEF S, Good, NumbersOf
<1> QED
  BY <1>2, <1>11
-----------------------------------------------------------------------------
(***************************************************************************)
(* Parents                                                                 *)
(***************************************************************************)

\* The parent of a subtopic is the topic it is a subtopic of.
LEMMA ParentIs ==
  ASSUME NEW tree, NEW n \in Nat, Numbered(tree, n), NEW t \in 0..n,
         NEW k \in 1..Len(tree.kids[t])
  PROVE  ParentOf(tree, tree.kids[t][k]) = t
<1> DEFINE u == tree.kids[t][k]
           p == CHOOSE q \in 0..n : Contains(tree.kids[q], u)
<1>1. DOMAIN tree.kids = 0..n
  BY DEF Numbered
<1>2. ParentOf(tree, u) = p
  BY <1>1 DEF ParentOf
<1>3. Contains(tree.kids[t], u)
  BY DEF Contains
<1>4. p \in 0..n /\ Contains(tree.kids[p], u)
  BY <1>3
<1> HIDE DEF p
<1>5. PICK j \in 1..Len(tree.kids[p]) : tree.kids[p][j] = u
  BY <1>4 DEF Contains
<1>6. p = t
  BY <1>4, <1>5 DEF Numbered
<1> QED
  BY <1>2, <1>6

\* Every topic but the root has a parent before it.
LEMMA ParentsAre ==
  ASSUME NEW tree, NEW n \in Nat, Numbered(tree, n)
  PROVE  \A u \in 1..n : ParentOf(tree, u) \in 0..(u - 1)
<1> TAKE u \in 1..n
<1>1. PICK t \in 0..(u - 1) : \E k \in 1..Len(tree.kids[t]) : tree.kids[t][k] = u
  BY DEF Numbered
<1>2. PICK k \in 1..Len(tree.kids[t]) : tree.kids[t][k] = u
  BY <1>1
<1>3. t \in 0..n
  OBVIOUS
<1>4. ParentOf(tree, tree.kids[t][k]) = t
  BY <1>3, ParentIs
<1> QED
  BY <1>2, <1>4
-----------------------------------------------------------------------------
(***************************************************************************)
(* Where the records, the entries and the texts are                        *)
(***************************************************************************)

\* The items of a part of a list lie as far behind its beginning as they do in it.
LEMMA ItemLiesWithin ==
  ASSUME NEW S, Sized(S), NEW s \in Seq(S), NEW part \in Seq(S), NEW p,
         LiesAt(Seq(S), s, part, p), NEW i \in 1..Len(part)
  PROVE  /\ part[i] \in S
         /\ LiesAt(Seq(S), s, <<part[i]>>, p + Positions(part)[i])
<1> DEFINE T == Seq(S)
           x == <<part[i]>>
<1>1. part[i] \in S
  OBVIOUS
<1>2. x \in T
  BY <1>1
<1>3. LiesAt(T, part, x, Positions(part)[i])
  BY ItemLies
<1>4. AreLists(T)
  BY ListsOfItems
<1> HIDE DEF T, x
<1>5. s \in T /\ part \in T /\ LiesAt(T, s, part, p)
  BY DEF T
<1>6. LiesAt(T, s, x, p + Positions(part)[i])
  BY <1>2, <1>3, <1>4, <1>5, LiesWithin
<1> QED
  BY <1>1, <1>6 DEF T, x

\* So do the lists that make up a part.
LEMMA ListLiesWithin ==
  ASSUME NEW S, Sized(S), NEW s \in Seq(S), NEW ss \in Seq(Seq(S)), NEW p,
         LiesAt(Seq(S), s, FlattenSeq(ss), p), NEW i \in 1..Len(ss)
  PROVE  /\ ss[i] \in Seq(S) /\ Positions(Lengths(ss))[i] \in Nat
         /\ LiesAt(Seq(S), s, ss[i], p + Positions(Lengths(ss))[i])
<1> DEFINE T == Seq(S)
           part == FlattenSeq(ss)
           x == ss[i]
           N == [size : Nat]
<1>1. x \in T
  OBVIOUS
<1>2. HasParts(S, part, ss)
  BY FlattenHasParts
<1>3. part \in T /\ LiesAt(T, part, x, Positions(Lengths(ss))[i])
  BY <1>2 DEF HasParts
<1>4. AreLists(T)
  BY ListsOfItems
<1>5. Sized(N) /\ Lengths(ss) \in Seq(N) /\ Len(Lengths(ss)) = Len(ss)
  BY LengthsAre
<1> HIDE DEF T, x, part, N
<1>6. s \in T /\ LiesAt(T, s, part, p)
  BY DEF T, part
<1>7. LiesAt(T, s, x, p + Positions(Lengths(ss))[i])
  BY <1>1, <1>3, <1>4, <1>6, LiesWithin
<1>8. Positions(Lengths(ss))[i] \in Nat
  <2>1. Positions(Lengths(ss)) \in [1..(Len(ss) + 1) -> Nat]
    BY <1>5, PositionsAre
  <2>2. i \in 1..(Len(ss) + 1)
    OBVIOUS
  <2> QED
    BY <2>1, <2>2
<1> QED
  BY <1>1, <1>7, <1>8 DEF T, x

\* Where the record, the table and the text of the i-th topic are
RecordAt(i) == HEADER_SIZE + NODE_SIZE * (i - 1)
TableAt(tree, i) == TablesBegin(tree) + Positions(Lengths(Tables(tree)))[i]
EntryAt(tree, i, k) == TableAt(tree, i) + ENTRY_SIZE * (k - 1)
TextAt(tree, i) == TextsBegin(tree) + Positions(Lengths(Texts(tree)))[i]

\* What the i-th topic has in a file
RecordOf(tree, i) == NodeItem(tree, Flattened(tree)[i], i, OffsetsOf(tree), RecordsAt(tree))
EntryOf(tree, i, k) == EntryItem(RecordsAt(tree)[TableOrder(tree, Flattened(tree)[i])[k]])

\* Its record is in the image,
LEMMA RecordsAreFound ==
  ASSUME NEW tree, NEW m \in Nat, Numbered(tree, m)
  PROVE  \A i \in 1..Len(Flattened(tree)) : Finds(Image(tree), RecordAt(i), RecordOf(tree, i))
<1> DEFINE S == ItemsOf(tree)
           s == Items(tree)
           recs == Records(tree)
           n == Len(Flattened(tree))
<1>1. Sized(S) /\ Laid(tree, s, S) /\ PartsFit(tree, S, n)
  BY ItemsAreSolid, LayoutIs, PartsAre
<1>2. n \in Nat /\ DOMAIN Flattened(tree) = 1..n
  BY FlattenedIsSeq
<1>3. /\ s \in Seq(S) /\ recs \in Seq(S) /\ Len(recs) = n
      /\ LiesAt(Seq(S), s, recs, HEADER_SIZE)
  BY <1>1 DEF Laid, PartsFit
<1>4. \A i \in 1..n : recs[i] = RecordOf(tree, i) /\ recs[i].size = NODE_SIZE
  BY <1>2 DEF Records, RecordOf, NodeItem
<1>5. \A x \in S, p \in Nat : LiesAt(Seq(S), s, <<x>>, p) => Finds(Image(tree), p, x)
  BY ImageIsLaid
<1> HIDE DEF S, s, recs, n
<1>6. \A i \in 1..(n + 1) : Positions(recs)[i] = NODE_SIZE * (i - 1)
  <2>1. NODE_SIZE \in Nat /\ \A i \in 1..Len(recs) : recs[i].size = NODE_SIZE
    BY <1>3, <1>4 DEF NODE_SIZE
  <2>2. \A i \in 1..(Len(recs) + 1) : Positions(recs)[i] = NODE_SIZE * (i - 1)
    BY <1>1, <1>3, <2>1, PositionsOfEqual
  <2> QED
    BY <1>3, <2>2
<1>7. ASSUME NEW i \in 1..n PROVE Finds(Image(tree), RecordAt(i), RecordOf(tree, i))
  <2>1. recs[i] \in S /\ LiesAt(Seq(S), s, <<recs[i]>>, HEADER_SIZE + Positions(recs)[i])
    BY <1>1, <1>3, ItemLiesWithin
  <2>2. i \in 1..(n + 1)
    BY <1>2
  <2>3. HEADER_SIZE + Positions(recs)[i] = RecordAt(i)
    BY <1>6, <2>2 DEF RecordAt
  <2>4. RecordAt(i) \in Nat
    BY <1>2 DEF RecordAt, HEADER_SIZE, NODE_SIZE
  <2> QED
    BY <1>4, <1>5, <2>1, <2>3, <2>4
<1> QED
  BY <1>7 DEF n

\* so are the entries of its table,
LEMMA EntriesAreFound ==
  ASSUME NEW tree, NEW m \in Nat, Numbered(tree, m), NEW i \in 1..Len(Flattened(tree))
  PROVE  /\ TableAt(tree, i) \in Nat /\ TableAt(tree, i) >= HEADER_SIZE
         /\ \A k \in 1..Len(tree.kids[Flattened(tree)[i]]) :
              Finds(Image(tree), EntryAt(tree, i, k), EntryOf(tree, i, k))
<1> DEFINE S == ItemsOf(tree)
           s == Items(tree)
           tabs == Tables(tree)
           n == Len(Flattened(tree))
           t == Flattened(tree)[i]
           T == TableItems(tree, t, RecordsAt(tree))
           c == Len(tree.kids[t])
<1>1. Sized(S) /\ Laid(tree, s, S) /\ PartsFit(tree, S, n)
  BY ItemsAreSolid, LayoutIs, PartsAre
<1>2. n \in Nat /\ DOMAIN Flattened(tree) = 1..n /\ t \in 0..m
  BY FlattenedIsSeq
<1>3. /\ s \in Seq(S) /\ tabs \in Seq(Seq(S)) /\ Len(tabs) = n
      /\ LiesAt(Seq(S), s, FlattenSeq(tabs), TablesBegin(tree))
  BY <1>1 DEF Laid, PartsFit
<1>4. tabs[i] = T
  BY <1>2 DEF Tables
<1>5. \A x \in S, p \in Nat : LiesAt(Seq(S), s, <<x>>, p) => Finds(Image(tree), p, x)
  BY ImageIsLaid
<1>6. /\ c \in Nat /\ T \in Seq(S) /\ c <= Len(T)
      /\ \A k \in 1..c : /\ Positions(T)[k] = ENTRY_SIZE * (k - 1)
                         /\ T[k] = EntryItem(RecordsAt(tree)[TableOrder(tree, t)[k]])
  <2>1. t \in 0..m /\ T = TableItems(tree, t, RecordsAt(tree)) /\ c = Len(tree.kids[t])
    BY <1>2
  <2> HIDE DEF t, T, c
  <2>2. c \in Nat /\ T \in Seq(S) /\ c <= Len(T) /\ HasEntries(tree, t, T, c)
    BY <2>1, TableIs
  <2> QED
    BY <2>2 DEF HasEntries
<1>7. TablesBegin(tree) \in Nat /\ TablesBegin(tree) >= HEADER_SIZE
  BY <1>2 DEF TablesBegin, HEADER_SIZE, NODE_SIZE
<1> HIDE DEF S, s, tabs
<1>8. /\ Positions(Lengths(tabs))[i] \in Nat
      /\ LiesAt(Seq(S), s, tabs[i], TablesBegin(tree) + Positions(Lengths(tabs))[i])
  <2> HIDE DEF n
  <2>1. i \in 1..Len(tabs)
    BY <1>3 DEF n
  <2> QED
    BY <1>1, <1>3, <2>1, ListLiesWithin
<1>9. TableAt(tree, i) = TablesBegin(tree) + Positions(Lengths(tabs))[i]
  BY DEF TableAt, tabs
<1>10. TableAt(tree, i) \in Nat /\ TableAt(tree, i) >= HEADER_SIZE
  BY <1>7, <1>8, <1>9 DEF HEADER_SIZE
<1>11. LiesAt(Seq(S), s, T, TableAt(tree, i))
  BY <1>4, <1>8, <1>9
<1> HIDE DEF T, c, t, n
<1>12. ASSUME NEW k \in 1..c PROVE Finds(Image(tree), EntryAt(tree, i, k), EntryOf(tree, i, k))
  <2>1. k \in 1..Len(T)
    BY <1>6
  <2>2. T[k] \in S /\ LiesAt(Seq(S), s, <<T[k]>>, TableAt(tree, i) + Positions(T)[k])
    BY <1>1, <1>3, <1>6, <1>11, <2>1, ItemLiesWithin
  <2>3. TableAt(tree, i) + Positions(T)[k] = EntryAt(tree, i, k)
    BY <1>6 DEF EntryAt
  <2>4. EntryAt(tree, i, k) \in Nat
    BY <1>6, <1>10 DEF EntryAt, ENTRY_SIZE
  <2>5. T[k] = EntryOf(tree, i, k)
    BY <1>6 DEF EntryOf, t
  <2> QED
    BY <1>5, <2>2, <2>3, <2>4, <2>5
<1> QED
  BY <1>10, <1>12 DEF c, t

\* and its text, when it has one.
LEMMA TextsAreFound ==
  ASSUME NEW tree, NEW m \in Nat, Numbered(tree, m), NEW i \in 1..Len(Flattened(tree)),
         tree.len[Flattened(tree)[i]] # 0
  PROVE  /\ TextAt(tree, i) \in Nat /\ TextAt(tree, i) >= HEADER_SIZE
         /\ Finds(Image(tree), TextAt(tree, i), TextItem(tree, Flattened(tree)[i]))
<1> DEFINE S == ItemsOf(tree)
           s == Items(tree)
           txts == Texts(tree)
           n == Len(Flattened(tree))
           t == Flattened(tree)[i]
           x == TextItem(tree, t)
           T == TextItems(tree, t)
<1>1. Sized(S) /\ Laid(tree, s, S) /\ PartsFit(tree, S, n)
  BY ItemsAreSolid, LayoutIs, PartsAre
<1>2. n \in Nat /\ DOMAIN Flattened(tree) = 1..n /\ t \in 0..m
  BY FlattenedIsSeq
<1>3. /\ s \in Seq(S) /\ txts \in Seq(Seq(S)) /\ Len(txts) = n
      /\ LiesAt(Seq(S), s, FlattenSeq(txts), TextsBegin(tree))
  BY <1>1 DEF Laid, PartsFit
<1>4. txts[i] = T
  BY <1>2 DEF Texts
<1>5. \A y \in S, p \in Nat : LiesAt(Seq(S), s, <<y>>, p) => Finds(Image(tree), p, y)
  BY ImageIsLaid
<1>6. T = <<x>>
  BY <1>2, TextIs
<1>7. x \in S
  BY <1>2 DEF ItemsOf, TextsOf, Numbered
<1>8. TextsBegin(tree) \in Nat /\ TextsBegin(tree) >= HEADER_SIZE
  <2>1. Total(Lengths(Tables(tree))) \in Nat
    <3>1. Tables(tree) \in Seq(Seq(S))
      BY <1>1 DEF PartsFit
    <3> HIDE DEF S
    <3> QED
      BY <1>1, <3>1, LengthsAre
  <2>2. TablesBegin(tree) \in Nat /\ TablesBegin(tree) >= HEADER_SIZE
    BY <1>2 DEF TablesBegin, HEADER_SIZE, NODE_SIZE
  <2> QED
    BY <2>1, <2>2 DEF TextsBegin, HEADER_SIZE
<1> HIDE DEF S, s, txts
<1>9. /\ Positions(Lengths(txts))[i] \in Nat
      /\ LiesAt(Seq(S), s, txts[i], TextsBegin(tree) + Positions(Lengths(txts))[i])
  <2> HIDE DEF n
  <2>1. i \in 1..Len(txts)
    BY <1>3 DEF n
  <2> QED
    BY <1>1, <1>3, <2>1, ListLiesWithin
<1>10. TextAt(tree, i) = TextsBegin(tree) + Positions(Lengths(txts))[i]
  BY DEF TextAt, txts
<1>11. TextAt(tree, i) \in Nat /\ TextAt(tree, i) >= HEADER_SIZE
  BY <1>8, <1>9, <1>10 DEF HEADER_SIZE
<1>12. Finds(Image(tree), TextAt(tree, i), x)
  <2> HIDE DEF x, T
  <2>1. LiesAt(Seq(S), s, <<x>>, TextAt(tree, i))
    BY <1>4, <1>6, <1>9, <1>10
  <2> QED
    BY <1>5, <1>7, <1>11, <2>1
<1> QED
  BY <1>11, <1>12 DEF x, t
-----------------------------------------------------------------------------
(***************************************************************************)
(* What is a record                                                        *)
(***************************************************************************)

\* Nothing in a table is a record,
LEMMA TablesHaveNoRecords ==
  ASSUME NEW tree, NEW n \in Nat, Numbered(tree, n), NEW t \in 0..n
  PROVE  TableItems(tree, t, RecordsAt(tree)) \in
           Seq({x \in ItemsOf(tree) : x.what # "node"})
<1> DEFINE T == TableItems(tree, t, RecordsAt(tree))
           m == Len(tree.kids[t])
           S == ItemsOf(tree)
           B == {x \in S : x.what # "node"}
           entries == [k \in 1..m |-> EntryItem(RecordsAt(tree)[TableOrder(tree, t)[k]])]
           padding == Align8(ENTRY_SIZE * m) - ENTRY_SIZE * m
           pad == PaddingItem(padding)
<1>1. m \in Nat /\ DOMAIN tree.kids[t] = 1..m
  <2>1. tree.kids[t] \in Seq(1..n)
    BY DEF Numbered
  <2> QED
    BY <2>1
<1>2. DOMAIN TableOrder(tree, t) = 1..m
  BY <1>1 DEF TableOrder, SortedKids
<1>3. entries \in Seq({EntryItem(a) : a \in {RecordsAt(tree)[TableOrder(tree, t)[k]] : k \in 1..m}})
  <2> DEFINE R == {EntryItem(a) : a \in {RecordsAt(tree)[TableOrder(tree, t)[k]] : k \in 1..m}}
  <2>1. entries \in [1..m -> R]
    OBVIOUS
  <2> HIDE DEF R, entries
  <2>2. entries \in Seq(R)
    BY <1>1, <2>1, IsSequence
  <2> QED
    BY <2>2 DEF R
<1>4. Len(entries) = m /\ \A k \in 1..m : entries[k].what = "entry"
  BY <1>1 DEF EntryItem
<1>5. T = IF padding = 0 THEN entries ELSE Append(entries, pad)
  BY <1>2, <1>4 DEF TableItems, EntryItem, PaddingItem
<1>6. pad.what = "padding"
  BY DEF PaddingItem
<1>7. T \in Seq(S)
  BY TableIs
<1> HIDE DEF entries, padding, pad, S
<1>8. \A k \in 1..Len(T) : T[k].what # "node"
  <2>1. CASE padding = 0
    BY <1>4, <1>5, <2>1
  <2>2. CASE padding # 0
    <3>1. T = Append(entries, pad)
      BY <1>5, <2>2
    <3> HIDE DEF T, m
    <3>2. Len(T) = m + 1 /\ T[m + 1] = pad /\ \A k \in 1..m : T[k] = entries[k]
      BY <1>1, <1>3, <1>4, <3>1
    <3>3. \A k \in 1..(m + 1) : k \in 1..m \/ k = m + 1
      BY <1>1
    <3> QED
      BY <1>4, <1>6, <3>2, <3>3
  <2> QED
    BY <2>1, <2>2
<1> HIDE DEF T
<1>9. Len(T) \in Nat /\ T \in [1..Len(T) -> B]
  BY <1>7, <1>8
<1> HIDE DEF B
<1>10. T \in Seq(B)
  BY <1>9, IsSequence
<1> QED
  BY <1>10 DEF T, B, S

\* nor is a text.
LEMMA TextsHaveNoRecords ==
  ASSUME NEW tree, NEW n \in Nat, Numbered(tree, n), NEW t \in 0..n
  PROVE  TextItems(tree, t) \in Seq({y \in ItemsOf(tree) : y.what # "node"})
<1> DEFINE B == {y \in ItemsOf(tree) : y.what # "node"}
<1>1. CASE tree.len[t] = 0
  <2>1. TextItems(tree, t) = <<>>
    BY <1>1 DEF TextItems
  <2>2. <<>> \in Seq(B)
    OBVIOUS
  <2> QED
    BY <2>1, <2>2
<1>2. CASE tree.len[t] # 0
  <2> DEFINE x == TextItem(tree, t)
  <2>1. TextItems(tree, t) = <<x>>
    BY <1>2 DEF TextItems, TextItem
  <2>2. x \in B
    <3>1. x \in TextsOf(tree)
      BY <1>2 DEF TextsOf, Numbered
    <3>2. x.what # "node"
      BY DEF TextItem
    <3> HIDE DEF x
    <3> QED
      BY <3>1, <3>2 DEF ItemsOf
  <2> HIDE DEF x, B
  <2>3. TextItems(tree, t) \in Seq(B)
    BY <2>1, <2>2
  <2> QED
    BY <2>3 DEF B
<1> QED
  BY <1>1, <1>2

\* What is no record can be put behind a list without adding one.
LEMMA RecordsAreBefore ==
  ASSUME NEW S, Sized(S), NEW a \in Seq(S), NEW b \in Seq({x \in S : x.what # "node"}),
         NEW j \in 1..Len(a \o b), (a \o b)[j].what = "node"
  PROVE  /\ j \in 1..Len(a) /\ (a \o b)[j] = a[j]
         /\ Positions(a \o b)[j] = Positions(a)[j]
<1> DEFINE m == Len(a)
           n == Len(b)
           s == a \o b
<1>1. b \in Seq(S) /\ \A k \in 1..n : b[k].what # "node"
  OBVIOUS
<1>2. /\ Len(s) = m + n /\ m \in Nat /\ n \in Nat
      /\ \A k \in 1..(m + n) : s[k] = IF k <= m THEN a[k] ELSE b[k - m]
  BY <1>1, ConcatProperties
<1>3. \A i \in 1..(m + 1) : Positions(s)[i] = Positions(a)[i]
  BY <1>1, PositionsOfConcat
<1>4. j \in 1..(m + n) /\ s[j].what = "node"
  BY <1>2
<1> HIDE DEF m, n, s
<1>5. j <= m
  <2> SUFFICES ASSUME ~ (j <= m) PROVE FALSE
    OBVIOUS
  <2>1. j - m \in 1..n /\ s[j] = b[j - m]
    BY <1>2, <1>4
  <2> QED
    BY <1>1, <1>4, <2>1
<1>6. j \in 1..m /\ j \in 1..(m + 1) /\ s[j] = a[j]
  BY <1>2, <1>4, <1>5
<1> QED
  BY <1>3, <1>6 DEF m, s

\* Every record of an image is the record of some topic, where that is.
LEMMA NodesAre ==
  ASSUME NEW tree, NEW m \in Nat, Numbered(tree, m), NEW p \in DOMAIN Image(tree).item,
         Image(tree).item[p].what = "node"
  PROVE  \E i \in 1..Len(Flattened(tree)) : p = RecordAt(i)
<1> DEFINE S == ItemsOf(tree)
           B == {x \in S : x.what # "node"}
           n == Len(Flattened(tree))
           h == Header(tree)
           one == <<h>>
           recs == Records(tree)
           tabs == FlattenSeq(Tables(tree))
           txts == FlattenSeq(Texts(tree))
           ab == one \o recs
           abc == ab \o tabs
           s == Items(tree)
<1>1. Solid(S) /\ Sized(S) /\ PartsFit(tree, S, n) /\ Laid(tree, s, S)
  BY ItemsAreSolid, PartsAre, LayoutIs
<1>2. n \in Nat /\ DOMAIN Flattened(tree) = 1..n /\ \A i \in 1..n : Flattened(tree)[i] \in 0..m
  BY FlattenedIsSeq
<1>3. tabs \in Seq(B)
  <2>1. \A i \in 1..n : TableItems(tree, Flattened(tree)[i], RecordsAt(tree)) \in Seq(B)
    BY <1>2, TablesHaveNoRecords
  <2>2. Tables(tree) = [i \in 1..n |-> TableItems(tree, Flattened(tree)[i], RecordsAt(tree))]
    BY <1>2 DEF Tables
  <2> HIDE DEF B, n
  <2>3. Tables(tree) \in [1..n -> Seq(B)]
    BY <2>1, <2>2
  <2>4. Tables(tree) \in Seq(Seq(B))
    BY <1>2, <2>3, IsSequence
  <2> QED
    BY <2>4, FlattenSeqIsSeq
<1>4. txts \in Seq(B)
  <2>1. \A i \in 1..n : TextItems(tree, Flattened(tree)[i]) \in Seq(B)
    BY <1>2, TextsHaveNoRecords
  <2>2. Texts(tree) = [i \in 1..n |-> TextItems(tree, Flattened(tree)[i])]
    BY <1>2 DEF Texts
  <2> HIDE DEF B, n
  <2>3. Texts(tree) \in [1..n -> Seq(B)]
    BY <2>1, <2>2
  <2>4. Texts(tree) \in Seq(Seq(B))
    BY <1>2, <2>3, IsSequence
  <2> QED
    BY <2>4, FlattenSeqIsSeq
<1>5. s = abc \o txts /\ s \in Seq(S)
  BY <1>1, ItemsAre DEF Laid
<1>6. Holds(Image(tree), s)
  <2> HIDE DEF S, s
  <2>1. Image(tree) = ImageOf(s)
    BY ItemsAre DEF s
  <2> QED
    BY <1>1, <1>5, <2>1, ImageIs
<1>7. PICK j \in 1..Len(s) : p = Positions(s)[j] /\ s[j].what = "node"
  <2> HIDE DEF s
  <2> QED
    BY <1>6 DEF Holds
<1>8. h \in S /\ h.what = "header" /\ h.size = HEADER_SIZE
  BY <1>1 DEF PartsFit, Header, HeaderItem
<1>9. /\ recs \in Seq(S) /\ Len(recs) = n /\ \A i \in 1..n : recs[i].size = NODE_SIZE
  BY <1>1, <1>2 DEF PartsFit, Records, NodeItem
<1> HIDE DEF h, recs, tabs, txts, S
<1>10. one \in Seq(S) /\ Len(one) = 1 /\ one[1] = h /\ Total(one) = HEADER_SIZE
  <2>1. one \in Seq(S) /\ Total(one) = h.size
    BY <1>1, <1>8, TotalOfOne
  <2> QED
    BY <1>8, <2>1
<1> HIDE DEF one
<1>11. ab \in Seq(S) /\ Len(ab) = 1 + n
  <2>1. ab \in Seq(S) /\ Len(ab) = Len(one) + Len(recs)
    BY <1>9, <1>10, ConcatProperties
  <2> QED
    BY <1>9, <1>10, <2>1
<1>12. tabs \in Seq(S)
  BY <1>3
<1> HIDE DEF ab
<1>13. abc \in Seq(S)
  BY <1>11, <1>12, ConcatProperties
<1> HIDE DEF abc
<1>14. j \in 1..Len(abc) /\ s[j] = abc[j] /\ Positions(s)[j] = Positions(abc)[j]
  <2> HIDE DEF s
  <2>1. j \in 1..Len(abc \o txts) /\ (abc \o txts)[j].what = "node"
    BY <1>5, <1>7
  <2>2. /\ j \in 1..Len(abc) /\ (abc \o txts)[j] = abc[j]
        /\ Positions(abc \o txts)[j] = Positions(abc)[j]
    BY <1>1, <1>4, <1>13, <2>1, RecordsAreBefore
  <2> QED
    BY <1>5, <2>2
<1>15. j \in 1..Len(ab) /\ s[j] = ab[j] /\ Positions(s)[j] = Positions(ab)[j]
  <2> HIDE DEF s
  <2>0. abc = ab \o tabs
    BY DEF abc
  <2>1. j \in 1..Len(ab \o tabs) /\ (ab \o tabs)[j].what = "node"
    BY <1>7, <1>14, <2>0
  <2>2. /\ j \in 1..Len(ab) /\ (ab \o tabs)[j] = ab[j]
        /\ Positions(ab \o tabs)[j] = Positions(ab)[j]
    BY <1>1, <1>3, <1>11, <2>1, RecordsAreBefore
  <2> QED
    BY <1>14, <2>0, <2>2
<1> HIDE DEF s
<1>16. ab = one \o recs
  BY DEF ab
<1>17. j # 1
  <2>1. (one \o recs)[1] = one[1]
    <3>0. one \in Seq(S) /\ recs \in Seq(S)
      BY <1>9, <1>10
    <3>1. \A k \in 1..(Len(one) + Len(recs)) :
            (one \o recs)[k] = IF k <= Len(one) THEN one[k] ELSE recs[k - Len(one)]
      BY <3>0, ConcatProperties
    <3>2. 1 \in 1..(Len(one) + Len(recs)) /\ 1 <= Len(one)
      BY <1>2, <1>9, <1>10
    <3> QED
      BY <3>1, <3>2
  <2> QED
    BY <1>7, <1>8, <1>10, <1>15, <1>16, <2>1
<1>18. j - 1 \in 1..n /\ j = 1 + (j - 1)
  BY <1>2, <1>11, <1>15, <1>17
<1>19. Positions(recs)[j - 1] = NODE_SIZE * ((j - 1) - 1)
  <2>1. NODE_SIZE \in Nat /\ \A i \in 1..Len(recs) : recs[i].size = NODE_SIZE
    BY <1>9 DEF NODE_SIZE
  <2>2. \A i \in 1..(Len(recs) + 1) : Positions(recs)[i] = NODE_SIZE * (i - 1)
    BY <1>1, <1>9, <2>1, PositionsOfEqual
  <2>3. j - 1 \in 1..(n + 1)
    BY <1>2, <1>18
  <2> QED
    BY <1>9, <2>2, <2>3
<1>20. Positions(ab)[1 + (j - 1)] = Total(one) + Positions(recs)[j - 1]
  <2>0. Sized(S) /\ one \in Seq(S) /\ recs \in Seq(S)
    BY <1>1, <1>9, <1>10
  <2>1. \A i \in 1..(Len(recs) + 1) :
          Positions(one \o recs)[Len(one) + i] = Total(one) + Positions(recs)[i]
    BY <2>0, PositionsOfConcat
  <2>2. j - 1 \in 1..(n + 1)
    BY <1>2, <1>18
  <2> QED
    BY <1>9, <1>10, <1>16, <2>1, <2>2
<1>21. p = RecordAt(j - 1)
  BY <1>7, <1>10, <1>15, <1>18, <1>19, <1>20 DEF RecordAt
<1> QED
  BY <1>18, <1>21 DEF n
-----------------------------------------------------------------------------
(***************************************************************************)
(* What a library shows of a tree that fits                                *)
(***************************************************************************)

\* The fields of the format are wide enough for the tree.
TreeFits(tree) ==
  /\ Image(tree).size < OffsetLimit
  /\ \A t \in DOMAIN tree.kids : Len(tree.kids[t]) < CountLimit

\* The place of a topic among the records
Place(tree, t) == CHOOSE i \in DOMAIN Flattened(tree) : Flattened(tree)[i] = t

LEMMA PlacesAre ==
  ASSUME NEW tree, NEW n \in Nat, Numbered(tree, n)
  PROVE  /\ \A t \in 0..n : /\ Place(tree, t) \in 1..Len(Flattened(tree))
                            /\ Flattened(tree)[Place(tree, t)] = t
         /\ \A i \in 1..Len(Flattened(tree)) : /\ Flattened(tree)[i] \in 0..n
                                               /\ Place(tree, Flattened(tree)[i]) = i
<1> DEFINE F == Flattened(tree)
<1>1. F \in Seq(0..n) /\ DOMAIN F = 1..Len(F) /\ \A i \in 1..Len(F) : F[i] \in 0..n
  BY FlattenedIsSeq
<1>2. Distinct(F) /\ Entries(F) = 0..n
  BY FlattenedIsOrder
<1>3. ASSUME NEW t \in 0..n PROVE Place(tree, t) \in 1..Len(F) /\ F[Place(tree, t)] = t
  <2>1. \E i \in DOMAIN F : F[i] = t
    BY <1>1, <1>2 DEF Entries
  <2>2. Place(tree, t) \in DOMAIN F /\ F[Place(tree, t)] = t
    BY <2>1 DEF Place
  <2> QED
    BY <1>1, <2>2
<1>4. ASSUME NEW i \in 1..Len(F) PROVE Place(tree, F[i]) = i
  <2>1. Place(tree, F[i]) \in 1..Len(F) /\ F[Place(tree, F[i])] = F[i]
    BY <1>1, <1>3
  <2> QED
    BY <1>2, <2>1 DEF Distinct
<1> QED
  BY <1>1, <1>3, <1>4

\* What is found in an image that fits is at an offset that fits.
LEMMA FoundFits ==
  ASSUME NEW tree, NEW n \in Nat, Numbered(tree, n), Image(tree).size < OffsetLimit,
         NEW p \in Nat, NEW x, x.size \in Nat, Finds(Image(tree), p, x)
  PROVE  U32(p) = p /\ U32(x.size) = x.size
<1>1. Image(tree).size \in Nat
  BY ImageIsLaid
<1>2. p + x.size <= Image(tree).size
  BY DEF Finds
<1>3. p < OffsetLimit /\ x.size < OffsetLimit
  BY <1>1, <1>2, LimitAssumption
<1> QED
  BY <1>3, U32Fits

\* The records are where phase 2 said.
LEMMA RecordsFit ==
  ASSUME NEW tree, NEW n \in Nat, Numbered(tree, n), Image(tree).size < OffsetLimit
  PROVE  /\ \A i \in 1..Len(Flattened(tree)) : /\ RecordAt(i) \in Nat
                                               /\ U32(RecordAt(i)) = RecordAt(i)
         /\ \A t \in 0..n : RecordsAt(tree)[t] = RecordAt(Place(tree, t))
<1>1. Len(Flattened(tree)) \in Nat
  BY FlattenedIsSeq
<1>2. ASSUME NEW i \in 1..Len(Flattened(tree))
      PROVE  RecordAt(i) \in Nat /\ U32(RecordAt(i)) = RecordAt(i)
  <2>1. RecordAt(i) \in Nat
    BY <1>1 DEF RecordAt, HEADER_SIZE, NODE_SIZE
  <2>2. Finds(Image(tree), RecordAt(i), RecordOf(tree, i))
    BY RecordsAreFound
  <2>3. RecordOf(tree, i).size \in Nat
    BY DEF RecordOf, NodeItem, NODE_SIZE
  <2> QED
    BY <2>1, <2>2, <2>3, FoundFits
<1>3. ASSUME NEW t \in 0..n PROVE RecordsAt(tree)[t] = RecordAt(Place(tree, t))
  <2> DEFINE i == Place(tree, t)
             o == OffsetsOf(tree)
  <2>1. t \in DOMAIN tree.kids
    BY DEF Numbered
  <2>2. RecordsAt(tree)[t] = o.node[i]
    BY <2>1 DEF RecordsAt, Place
  <2>3. i \in 1..Len(Flattened(tree))
    BY PlacesAre
  <2>4. OffsetsRight(tree, o)
    BY OffsetsAre
  <2> HIDE DEF i, o
  <2>5. o.node[i] = U32(HEADER_SIZE + (i - 1) * NODE_SIZE)
    BY <2>3, <2>4 DEF OffsetsRight
  <2>6. HEADER_SIZE + (i - 1) * NODE_SIZE = RecordAt(i)
    BY <1>1, <2>3 DEF RecordAt, HEADER_SIZE, NODE_SIZE
  <2>7. RecordsAt(tree)[t] = RecordAt(i)
    BY <1>2, <2>2, <2>3, <2>5, <2>6
  <2> QED
    BY <2>7 DEF i
<1> QED
  BY <1>2, <1>3

\* What the record of the i-th topic says
RecordSays(tree, i, node) ==
  LET t == Flattened(tree)[i]
  IN  /\ node.what = "node" /\ node.topic = t /\ node.level = tree.level[t]
      /\ node.child_count = Len(tree.kids[t])
      /\ tree.kids[t] # <<>> => node.child_table_offset = TableAt(tree, i)
      /\ node.text_length = tree.len[t]
      /\ tree.len[t] = 0 => node.text_offset = 0
      /\ tree.len[t] # 0 => node.text_offset = TextAt(tree, i)
      /\ t # 0 => node.parent_offset = RecordAt(Place(tree, ParentOf(tree, t)))

LEMMA RecordsSay ==
  ASSUME NEW tree, NEW n \in Nat, Numbered(tree, n), TreeFits(tree),
         NEW i \in 1..Len(Flattened(tree))
  PROVE  RecordSays(tree, i, RecordOf(tree, i))
<1> DEFINE t == Flattened(tree)[i]
           o == OffsetsOf(tree)
           node == RecordOf(tree, i)
           m == Len(tree.kids[t])
           len == tree.len[t]
<1>1. Image(tree).size < OffsetLimit /\ t \in 0..n /\ t \in DOMAIN tree.kids
  BY PlacesAre DEF TreeFits, Numbered
<1>2. m \in Nat /\ len \in Nat /\ DOMAIN tree.kids[t] = 1..m
  <2>1. tree.kids[t] \in Seq(1..n) /\ len \in Nat
    BY <1>1 DEF Numbered
  <2> QED
    BY <2>1
<1>3. /\ node.what = "node" /\ node.topic = t /\ node.level = tree.level[t]
      /\ node.child_count = U16(m) /\ node.child_table_offset = o.table[i]
      /\ node.text_length = U32(len) /\ node.text_offset = o.text[i]
      /\ t # 0 => node.parent_offset = RecordsAt(tree)[ParentOf(tree, t)]
  BY DEF RecordOf, NodeItem, ROOT
<1>4. U16(m) = m
  <2>1. m < CountLimit
    BY <1>1 DEF TreeFits
  <2> HIDE DEF m
  <2> QED
    BY <1>2, <2>1, U16Fits
<1>5. /\ tree.kids[t] # <<>> => o.table[i] = U32(TableAt(tree, i))
      /\ U32(len) # 0 => o.text[i] = U32(TextAt(tree, i))
      /\ U32(len) = 0 => o.text[i] = 0
  <2>1. OffsetsRight(tree, o)
    BY OffsetsAre
  <2> HIDE DEF o
  <2> QED
    BY <2>1 DEF OffsetsRight, TableAt, TextAt
<1>6. ASSUME tree.kids[t] # <<>> PROVE node.child_table_offset = TableAt(tree, i)
  <2>1. 1 \in 1..m
    <3>1. m # 0
      <4>1. tree.kids[t] \in Seq(1..n)
        BY <1>1 DEF Numbered
      <4> QED
        BY <1>6, <4>1
    <3> HIDE DEF m
    <3> QED
      BY <1>2, <3>1
  <2>2. TableAt(tree, i) \in Nat /\ Finds(Image(tree), EntryAt(tree, i, 1), EntryOf(tree, i, 1))
    BY <2>1, EntriesAreFound
  <2>3. EntryAt(tree, i, 1) = TableAt(tree, i)
    BY <2>2 DEF EntryAt, ENTRY_SIZE
  <2>4. EntryOf(tree, i, 1).size \in Nat
    BY DEF EntryOf, EntryItem, ENTRY_SIZE
  <2>5. U32(TableAt(tree, i)) = TableAt(tree, i)
    BY <1>1, <2>2, <2>3, <2>4, FoundFits
  <2> QED
    BY <1>3, <1>5, <1>6, <2>5
<1>7. ASSUME len # 0
      PROVE  node.text_length = len /\ node.text_offset = TextAt(tree, i)
  <2> DEFINE x == TextItem(tree, t)
  <2>1. TextAt(tree, i) \in Nat /\ Finds(Image(tree), TextAt(tree, i), x)
    BY <1>7, TextsAreFound
  <2>2. x.size = len
    BY DEF TextItem
  <2> HIDE DEF x, len
  <2>3. U32(TextAt(tree, i)) = TextAt(tree, i) /\ U32(len) = len
    BY <1>1, <1>2, <2>1, <2>2, FoundFits
  <2> QED
    BY <1>3, <1>5, <1>7, <2>3
<1>8. ASSUME len = 0 PROVE node.text_length = len /\ node.text_offset = 0
  <2>1. U32(0) = 0
    BY LimitAssumption DEF U32
  <2> HIDE DEF len, o, node
  <2> QED
    BY <1>3, <1>5, <1>8, <2>1
<1>9. ASSUME t # 0 PROVE node.parent_offset = RecordAt(Place(tree, ParentOf(tree, t)))
  <2>1. t \in 1..n
    BY <1>1, <1>9
  <2>2. ParentOf(tree, t) \in 0..(t - 1)
    BY <2>1, ParentsAre
  <2>3. ParentOf(tree, t) \in 0..n
    BY <2>1, <2>2
  <2>4. RecordsAt(tree)[ParentOf(tree, t)] = RecordAt(Place(tree, ParentOf(tree, t)))
    BY <1>1, <2>3, RecordsFit
  <2> QED
    BY <1>3, <1>9, <2>4
<1> HIDE DEF node
<1> QED
  BY <1>3, <1>4, <1>6, <1>7, <1>8, <1>9 DEF RecordSays, node

\* What is read from the whole file of a tree
EntryReads(tree, data, i, k) ==
  /\ data.item[EntryAt(tree, i, k)].offset =
       RecordAt(Place(tree, TableOrder(tree, Flattened(tree)[i])[k]))
  /\ EntryAt(tree, i, k) + ENTRY_SIZE <= data.len
TextReads(tree, data, i) ==
  /\ data.item[TextAt(tree, i)].topic = Flattened(tree)[i]
  /\ TextAt(tree, i) \in Nat \ {0} /\ data.len \in Nat
  /\ TextAt(tree, i) + tree.len[Flattened(tree)[i]] <= data.len
Reads(tree, data) ==
  /\ data.item[0].root_offset = RecordAt(1)
  /\ \A p \in DOMAIN data.item : data.item[p].what = "node" =>
       \E i \in 1..Len(Flattened(tree)) : p = RecordAt(i)
  /\ \A i \in 1..Len(Flattened(tree)) :
       /\ RecordAt(i) \in DOMAIN data.item /\ RecordSays(tree, i, data.item[RecordAt(i)])
       /\ NodeAt(data, RecordAt(i)) = {RecordAt(i)}
       /\ TableAt(tree, i) # 0
       /\ \A k \in 1..Len(tree.kids[Flattened(tree)[i]]) : EntryReads(tree, data, i, k)
       /\ tree.len[Flattened(tree)[i]] # 0 => TextReads(tree, data, i)

LEMMA FileReads ==
  ASSUME NEW tree, NEW n \in Nat, Numbered(tree, n), TreeFits(tree)
  PROVE  Reads(tree, Bytes(Image(tree), Image(tree).size))
<1> DEFINE F == Flattened(tree)
           N == Len(F)
           size == Image(tree).size
           data == Bytes(Image(tree), size)
           h == Header(tree)
<1>1. size \in Nat /\ size < OffsetLimit
  BY ImageIsLaid DEF TreeFits
<1>2. data.len = size /\ \A p, x : Finds(Image(tree), p, x) =>
                            p \in DOMAIN data.item /\ data.item[p] = x /\ p + x.size <= size
  BY DEF Finds, Bytes
<1>3. N \in Nat /\ N >= 1
  BY FlattenedIsSeq
<1>4. \A i \in 1..N : F[i] \in 0..n
  BY PlacesAre
<1>5. HeaderFits(tree, h) /\ data.item[0] = h
  BY <1>2, HeaderIs
<1>6. \A i \in 1..N : RecordAt(i) \in Nat /\ U32(RecordAt(i)) = RecordAt(i)
  BY <1>1, RecordsFit
<1>7. data.item[0].root_offset = RecordAt(1)
  <2>1. RecordAt(1) = HEADER_SIZE
    BY DEF RecordAt, HEADER_SIZE, NODE_SIZE
  <2>2. 1 \in 1..N
    BY <1>3
  <2>3. U32(RecordAt(1)) = RecordAt(1)
    BY <1>6, <2>2
  <2> HIDE DEF data, h
  <2> QED
    BY <1>5, <2>1, <2>3 DEF HeaderFits
<1>8. ASSUME NEW p \in DOMAIN data.item, data.item[p].what = "node"
      PROVE  \E i \in 1..N : p = RecordAt(i)
  <2>1. p \in DOMAIN Image(tree).item /\ data.item[p] = Image(tree).item[p]
    BY DEF Bytes
  <2> QED
    BY <1>8, <2>1, NodesAre
<1>9. \A i \in 1..N : /\ RecordAt(i) \in DOMAIN data.item /\ data.item[RecordAt(i)] = RecordOf(tree, i)
                      /\ RecordAt(i) + NODE_SIZE <= size
  <2> TAKE i \in 1..N
  <2>1. Finds(Image(tree), RecordAt(i), RecordOf(tree, i))
    BY RecordsAreFound
  <2>2. RecordOf(tree, i).size = NODE_SIZE
    BY DEF RecordOf, NodeItem
  <2> HIDE DEF data, size
  <2> QED
    BY <1>2, <2>1, <2>2
<1>10. NodeRegionEnd(data) = HEADER_SIZE + N * NODE_SIZE
  <2>1. N \in 1..N
    BY <1>3
  <2>2. RecordAt(N) + NODE_SIZE <= size
    <3> HIDE DEF data, size, N
    <3> QED
      BY <1>9, <2>1
  <2>3. RecordAt(N) + NODE_SIZE = HEADER_SIZE + N * NODE_SIZE
    BY <1>3 DEF RecordAt, HEADER_SIZE, NODE_SIZE
  <2> DEFINE e == HEADER_SIZE + N * NODE_SIZE
  <2>4. e \in Nat
    BY <1>3 DEF HEADER_SIZE, NODE_SIZE
  <2>5. e < OffsetLimit
    <3> HIDE DEF e, size, N
    <3> QED
      BY <1>1, <2>2, <2>3, <2>4, LimitAssumption DEF e
  <2>6. U32(e) = e
    <3> HIDE DEF e
    <3> QED
      BY <2>4, <2>5, U32Fits
  <2>7. data.item[0].node_count = N
    BY <1>5 DEF HeaderFits
  <2> QED
    BY <2>6, <2>7 DEF NodeRegionEnd
<1>11. ASSUME NEW i \in 1..N PROVE NodeAt(data, RecordAt(i)) = {RecordAt(i)}
  <2>1. RecordAt(i) + NODE_SIZE <= data.len
    BY <1>2, <1>9
  <2>2. /\ RecordAt(i) >= HEADER_SIZE /\ RecordAt(i) < HEADER_SIZE + N * NODE_SIZE
        /\ (RecordAt(i) - HEADER_SIZE) % NODE_SIZE = 0
    <3> HIDE DEF N
    <3> QED
      BY <1>3 DEF RecordAt, HEADER_SIZE, NODE_SIZE
  <2> HIDE DEF data
  <2> QED
    BY <1>10, <2>1, <2>2 DEF NodeAt, IsNodeOffset
<1> HIDE DEF data, size
<1>12. ASSUME NEW i \in 1..N, NEW k \in 1..Len(tree.kids[F[i]]) PROVE EntryReads(tree, data, i, k)
  <2> DEFINE t == F[i]
             u == TableOrder(tree, t)[k]
  <2>1. Finds(Image(tree), EntryAt(tree, i, k), EntryOf(tree, i, k))
    BY EntriesAreFound
  <2>2. /\ data.item[EntryAt(tree, i, k)] = EntryOf(tree, i, k)
        /\ EntryAt(tree, i, k) + EntryOf(tree, i, k).size <= size
    BY <1>2, <2>1
  <2>3. EntryOf(tree, i, k).size = ENTRY_SIZE /\ EntryOf(tree, i, k).offset = RecordsAt(tree)[u]
    BY DEF EntryOf, EntryItem
  <2>4. u \in 0..n
    <3>1. t \in 0..n /\ k \in 1..Len(tree.kids[t])
      BY <1>4
    <3> HIDE DEF t
    <3>2. PICK s : TableSorts(tree, t, s)
      BY <3>1, TableIsSorted
    <3>3. s[k] \in 1..Len(tree.kids[t])
      <4>1. Len(tree.kids[t]) \in Nat
        <5>1. tree.kids[t] \in Seq(1..n)
          BY <3>1 DEF Numbered
        <5> QED
          BY <5>1
      <4> DEFINE m == Len(tree.kids[t])
                 S == 1..m
      <4>2. m = Cardinality(S)
        BY <4>1, NumbersAreOrdered
      <4>3. k \in 1..m /\ Sorted(s, S, NameBefore(tree, t))
        BY <3>1, <3>2 DEF TableSorts
      <4> HIDE DEF m, S
      <4>4. s[k] \in S
        BY <4>2, <4>3, SortedHolds
      <4> QED
        BY <4>4 DEF m, S
    <3>4. tree.kids[t][s[k]] \in (t + 1)..n
      BY <3>1, <3>3 DEF Numbered
    <3>5. u = tree.kids[t][s[k]]
      BY <3>1, <3>2 DEF TableSorts
    <3> HIDE DEF u
    <3>6. u \in (t + 1)..n
      BY <3>4, <3>5
    <3> QED
      BY <3>1, <3>6
  <2>5. RecordsAt(tree)[u] = RecordAt(Place(tree, u))
    <3> HIDE DEF u
    <3> QED
      BY <1>1, <2>4, RecordsFit DEF size
  <2> QED
    BY <1>2, <2>2, <2>3, <2>5 DEF EntryReads
<1>13. ASSUME NEW i \in 1..N, tree.len[F[i]] # 0 PROVE TextReads(tree, data, i)
  <2> DEFINE x == TextItem(tree, F[i])
  <2>1. /\ Finds(Image(tree), TextAt(tree, i), x)
        /\ TextAt(tree, i) \in Nat /\ TextAt(tree, i) >= HEADER_SIZE
    BY <1>13, TextsAreFound
  <2>2. x.topic = F[i] /\ x.size = tree.len[F[i]]
    BY DEF TextItem
  <2> HIDE DEF x, F
  <2>3. data.item[TextAt(tree, i)] = x /\ TextAt(tree, i) + x.size <= size
    BY <1>2, <2>1
  <2> QED
    BY <1>1, <1>2, <2>1, <2>2, <2>3 DEF TextReads, HEADER_SIZE, F
<1>14. ASSUME NEW i \in 1..N PROVE TableAt(tree, i) # 0
  <2>1. TableAt(tree, i) \in Nat /\ TableAt(tree, i) >= HEADER_SIZE
    BY EntriesAreFound
  <2> QED
    BY <2>1 DEF HEADER_SIZE
<1>15. ASSUME NEW i \in 1..N PROVE RecordSays(tree, i, data.item[RecordAt(i)])
  BY <1>9, RecordsSay
<1>16. Reads(tree, data)
  BY <1>7, <1>8, <1>9, <1>11, <1>12, <1>13, <1>14, <1>15 DEF Reads, N, F
<1> QED
  BY <1>16 DEF data, size

\* What children() returns for the i-th topic: the records of its subtopics, in the
\* order of their names.
Lists(tree, i, q, children) ==
  LET t == Flattened(tree)[i]
      m == Len(tree.kids[t])
  IN  /\ DOMAIN children = 1..m
      /\ \A k \in 1..m : /\ q[k] \in 1..m
                         /\ children[k] = RecordAt(Place(tree, tree.kids[t][q[k]]))
      /\ \A x \in 1..m : \E k \in 1..m : q[k] = x
      /\ \A j, k \in 1..m : j < k => <<q[j], q[k]>> \in NameBefore(tree, t)

LEMMA ChildrenAre ==
  ASSUME NEW tree, NEW n \in Nat, Numbered(tree, n), NEW data, Reads(tree, data),
         NEW i \in 1..Len(Flattened(tree))
  PROVE  \E q : Lists(tree, i, q, Children(data, RecordAt(i)))
<1> DEFINE F == Flattened(tree)
           t == F[i]
           m == Len(tree.kids[t])
           S == 1..m
           R == NameBefore(tree, t)
           node == data.item[RecordAt(i)]
           entry(k) == node.child_table_offset + (k - 1) * ENTRY_SIZE
           offset(k) == data.item[entry(k)].offset
           good == {k \in 1..node.child_count :
                      /\ node.child_table_offset # 0
                      /\ entry(k) + ENTRY_SIZE <= data.len
                      /\ NodeAt(data, offset(k)) # {}}
           order == InOrder(good, LAMBDA a, b : a < b)
           numbers == InOrder(1..m, LAMBDA a, b : a < b)
           children == Children(data, RecordAt(i))
<1>1. t \in 0..n /\ \A j \in 0..n : Place(tree, j) \in 1..Len(F)
  BY PlacesAre
<1>2. m \in Nat
  <2>1. tree.kids[t] \in Seq(1..n)
    BY <1>1 DEF Numbered
  <2> QED
    BY <2>1
<1>3. PICK s : /\ Sorted(s, 1..m, R)
               /\ TableOrder(tree, t) = [k \in 1..m |-> tree.kids[t][s[k]]]
  <2>1. t \in 0..n
    BY <1>1
  <2> HIDE DEF t
  <2>2. \E a : TableSorts(tree, t, a)
    BY <2>1, TableIsSorted
  <2> QED
    BY <2>2 DEF TableSorts
<1>4. /\ \A k \in S : s[k] \in S
      /\ \A x \in S : \E k \in S : s[k] = x
      /\ \A j, k \in S : j < k => <<s[j], s[k]>> \in R
  <2>1. m = Cardinality(S)
    BY <1>2, NumbersAreOrdered
  <2>2. Sorted(s, S, R)
    BY <1>3
  <2> HIDE DEF S, R, m
  <2>3. /\ \A k \in 1..m : s[k] \in S
        /\ \A x \in S : \E k \in 1..m : s[k] = x
        /\ \A j, k \in 1..m : j < k => <<s[j], s[k]>> \in R
    BY <2>1, <2>2, SortedHolds
  <2> QED
    BY <2>3 DEF S
<1>5. \A k \in S : tree.kids[t][s[k]] \in 0..n /\ TableOrder(tree, t)[k] = tree.kids[t][s[k]]
  <2> TAKE k \in S
  <2>1. s[k] \in 1..m
    BY <1>4
  <2>2. tree.kids[t][s[k]] \in (t + 1)..n
    BY <1>1, <2>1 DEF Numbered
  <2>3. tree.kids[t][s[k]] \in 0..n
    <3> DEFINE c == tree.kids[t][s[k]]
    <3>1. c \in (t + 1)..n /\ t \in 0..n
      BY <1>1, <2>2
    <3> HIDE DEF c, t
    <3>2. c \in 0..n
      BY <3>1
    <3> QED
      BY <3>2 DEF c
  <2>4. TableOrder(tree, t)[k] = tree.kids[t][s[k]]
    <3> HIDE DEF t, m
    <3> QED
      BY <1>3
  <2> QED
    BY <2>3, <2>4
<1>6. RecordSays(tree, i, node)
  BY DEF Reads
<1>7. node.child_count = m /\ (m # 0 => node.child_table_offset = TableAt(tree, i))
  <2>1. node.child_count = m /\ (tree.kids[t] # <<>> => node.child_table_offset = TableAt(tree, i))
    BY <1>6 DEF RecordSays
  <2>2. m # 0 => tree.kids[t] # <<>>
    OBVIOUS
  <2> QED
    BY <2>1, <2>2
<1>8. \A k \in S : /\ node.child_table_offset = TableAt(tree, i) /\ entry(k) = EntryAt(tree, i, k)
                   /\ TableAt(tree, i) # 0 /\ EntryReads(tree, data, i, k)
  <2> TAKE k \in S
  <2>1. node.child_table_offset = TableAt(tree, i)
    BY <1>2, <1>7
  <2>2. (k - 1) * ENTRY_SIZE = ENTRY_SIZE * (k - 1)
    BY <1>2 DEF ENTRY_SIZE
  <2>3. entry(k) = EntryAt(tree, i, k)
    BY <2>1, <2>2 DEF EntryAt
  <2>4. TableAt(tree, i) # 0 /\ EntryReads(tree, data, i, k)
    BY DEF Reads
  <2> QED
    BY <2>1, <2>3, <2>4
<1>9. \A k \in S : /\ offset(k) = RecordAt(Place(tree, tree.kids[t][s[k]]))
                   /\ entry(k) + ENTRY_SIZE <= data.len
                   /\ NodeAt(data, offset(k)) # {}
  <2> TAKE k \in S
  <2> DEFINE p == Place(tree, tree.kids[t][s[k]])
  <2>1. offset(k) = RecordAt(p) /\ entry(k) + ENTRY_SIZE <= data.len
    BY <1>5, <1>8 DEF EntryReads
  <2>2. p \in 1..Len(F)
    BY <1>1, <1>5
  <2>3. NodeAt(data, RecordAt(p)) = {RecordAt(p)}
    <3> HIDE DEF p
    <3> QED
      BY <2>2 DEF Reads
  <2> HIDE DEF p, entry, offset
  <2> QED
    BY <2>1, <2>3 DEF p
<1>10. good = S
  <2> HIDE DEF entry, offset, node
  <2> QED
    BY <1>7, <1>8, <1>9
<1>11. children = [k \in DOMAIN order |-> offset(order[k])]
  BY DEF Children, ChildCount
<1>12. order = numbers
  <2> HIDE DEF good
  <2> QED
    BY <1>10
<1>13. NumbersOf(numbers, m)
  <2> HIDE DEF m
  <2> QED
    BY <1>2, NumbersInOrder
<1> HIDE DEF order, numbers
<1> DEFINE q == [k \in S |-> s[numbers[k]]]
<1>14. /\ DOMAIN numbers = S /\ \A k \in S : numbers[k] \in S
       /\ \A x \in S : \E k \in S : numbers[k] = x
       /\ \A j, k \in S : j < k => numbers[j] < numbers[k]
  BY <1>13 DEF NumbersOf
<1> HIDE DEF S, offset
<1>15. DOMAIN children = S
  <2> HIDE DEF children
  <2> QED
    BY <1>11, <1>12, <1>14
<1>16. \A k \in S : q[k] \in S /\ children[k] = RecordAt(Place(tree, tree.kids[t][q[k]]))
  <2> TAKE k \in S
  <2>1. q[k] = s[numbers[k]] /\ numbers[k] \in S
    BY <1>14
  <2>2. children[k] = offset(numbers[k])
    <3> HIDE DEF children
    <3> QED
      BY <1>11, <1>12, <1>14
  <2> HIDE DEF q, children
  <2> QED
    BY <1>4, <1>9, <2>1, <2>2
<1>17. \A x \in S : \E k \in S : q[k] = x
  <2> TAKE x \in S
  <2>1. PICK a \in S : s[a] = x
    BY <1>4
  <2>2. PICK k \in S : numbers[k] = a
    BY <1>14
  <2>3. q[k] = x
    BY <2>1, <2>2
  <2> QED
    BY <2>3
<1>18. \A j, k \in S : j < k => <<q[j], q[k]>> \in R
  <2> TAKE j, k \in S
  <2>1. q[j] = s[numbers[j]] /\ q[k] = s[numbers[k]]
    OBVIOUS
  <2>2. j < k => numbers[j] < numbers[k] /\ numbers[j] \in S /\ numbers[k] \in S
    BY <1>14
  <2>3. numbers[j] < numbers[k] /\ numbers[j] \in S /\ numbers[k] \in S =>
          <<s[numbers[j]], s[numbers[k]]>> \in R
    <3> HIDE DEF R
    <3> QED
      BY <1>4
  <2> HIDE DEF q, R
  <2> QED
    BY <2>1, <2>2, <2>3
<1> HIDE DEF q, children
<1>19. Lists(tree, i, q, children)
  BY <1>15, <1>16, <1>17, <1>18 DEF Lists, S, m, t, F, R
<1> QED
  BY <1>19 DEF children

\* The children of the i-th topic are the records of subtopics of it.
AreBelow(tree, i, children) ==
  LET t == Flattened(tree)[i]
  IN  \A k \in DOMAIN children : \E j \in 1..Len(tree.kids[t]) :
        children[k] = RecordAt(Place(tree, tree.kids[t][j]))

\* The list of topics that the children of the i-th topic are is sorted,
LEMMA ChildrenSort ==
  ASSUME NEW tree, NEW n \in Nat, Numbered(tree, n), NEW data, Reads(tree, data),
         NEW i \in 1..Len(Flattened(tree)), NEW q, NEW children, Lists(tree, i, q, children)
  PROVE  /\ Sorts(tree, [k \in DOMAIN children |-> data.item[children[k]].topic],
                  tree.kids[Flattened(tree)[i]])
         /\ AreBelow(tree, i, children)
<1> DEFINE F == Flattened(tree)
           t == F[i]
           kids == tree.kids[t]
           m == Len(kids)
           S == 1..m
           list == [k \in DOMAIN children |-> data.item[children[k]].topic]
<1>1. t \in 0..n
  BY PlacesAre
<1>2. kids \in Seq(1..n) /\ m \in Nat /\ DOMAIN kids = 1..m
  <2>1. kids \in Seq(1..n)
    BY <1>1 DEF Numbered
  <2> QED
    BY <2>1
<1>3. /\ DOMAIN children = S
      /\ \A k \in S : q[k] \in S /\ children[k] = RecordAt(Place(tree, kids[q[k]]))
      /\ \A x \in S : \E k \in S : q[k] = x
      /\ \A j, k \in S : j < k => <<q[j], q[k]>> \in NameBefore(tree, t)
  BY DEF Lists
<1>4. \A k \in S : kids[k] \in 0..n
  <2> HIDE DEF kids, m
  <2> QED
    BY <1>2, ElementOfSeq DEF m
<1>5. \A u \in 0..n : data.item[RecordAt(Place(tree, u))].topic = u
  <2> TAKE u \in 0..n
  <2> DEFINE p == Place(tree, u)
  <2>1. p \in 1..Len(F) /\ F[p] = u
    BY PlacesAre
  <2> HIDE DEF p
  <2>2. RecordSays(tree, p, data.item[RecordAt(p)])
    BY <2>1 DEF Reads
  <2>3. data.item[RecordAt(p)].topic = u
    BY <2>1, <2>2 DEF RecordSays
  <2> QED
    BY <2>3 DEF p
<1>6. \A j, k \in S : <<j, k>> \in NameBefore(tree, t) =>
        \/ tree.key[kids[j]] < tree.key[kids[k]]
        \/ tree.key[kids[j]] = tree.key[kids[k]] /\ j < k
  BY DEF NameBefore
<1> HIDE DEF t, kids, m, S
<1>7. list = [k \in S |-> kids[q[k]]]
  <2>1. \A k \in S : data.item[children[k]].topic = kids[q[k]]
    BY <1>3, <1>4, <1>5
  <2> QED
    BY <1>3, <2>1
<1> HIDE DEF list
<1>8. DOMAIN list = S /\ \A k \in S : list[k] = kids[q[k]]
  BY <1>7
<1>9. Len(list) = m
  <2>1. list \in [1..m -> 0..n]
    BY <1>3, <1>4, <1>7 DEF S
  <2> QED
    BY <1>2, <2>1, IsSequence
<1>10. ToSet(list) = ToSet(kids)
  <2>1. \A x : x \in ToSet(list) <=> \E k \in S : x = kids[q[k]]
    BY <1>8 DEF ToSet
  <2>2. \A x : x \in ToSet(kids) <=> \E k \in S : x = kids[k]
    BY <1>2 DEF ToSet, S
  <2>3. \A x : (\E k \in S : x = kids[q[k]]) <=> (\E k \in S : x = kids[k])
    BY <1>3
  <2>4. \A x : x \in ToSet(list) <=> x \in ToSet(kids)
    BY <2>1, <2>2, <2>3
  <2> QED
    BY <2>4
<1>11. ASSUME NEW j \in DOMAIN list, NEW k \in DOMAIN list, j < k
       PROVE  \/ tree.key[list[j]] < tree.key[list[k]]
              \/ /\ tree.key[list[j]] = tree.key[list[k]]
                 /\ \E a, b \in DOMAIN kids : a < b /\ kids[a] = list[j] /\ kids[b] = list[k]
  <2>1. /\ j \in S /\ k \in S /\ q[j] \in S /\ q[k] \in S
        /\ list[j] = kids[q[j]] /\ list[k] = kids[q[k]]
    BY <1>3, <1>8
  <2>2. <<q[j], q[k]>> \in NameBefore(tree, t)
    BY <1>3, <1>11, <2>1
  <2>3. \/ tree.key[kids[q[j]]] < tree.key[kids[q[k]]]
        \/ tree.key[kids[q[j]]] = tree.key[kids[q[k]]] /\ q[j] < q[k]
    BY <1>6, <2>1, <2>2
  <2>4. q[j] \in DOMAIN kids /\ q[k] \in DOMAIN kids
    BY <1>2, <2>1 DEF S
  <2> QED
    BY <2>1, <2>3, <2>4
<1>12. Sorts(tree, list, kids)
  <2>1. Len(list) = Len(kids)
    BY <1>9 DEF m
  <2> QED
    BY <1>10, <1>11, <2>1 DEF Sorts
<1>13. \A k \in DOMAIN children : \E j \in 1..m : children[k] = RecordAt(Place(tree, kids[j]))
  BY <1>3 DEF S
<1> QED
  BY <1>12, <1>13 DEF AreBelow, list, kids, t, m

\* each of them is below the topic,
LEMMA ChildIsBelow ==
  ASSUME NEW tree, NEW n \in Nat, Numbered(tree, n), NEW data, Reads(tree, data),
         NEW i \in 1..Len(Flattened(tree)), NEW children, AreBelow(tree, i, children),
         NEW c, \E k \in DOMAIN children : c = children[k]
  PROVE  Parent(data, c) = {RecordAt(i)}
<1> DEFINE F == Flattened(tree)
           t == F[i]
<1>0. PICK j \in 1..Len(tree.kids[t]) : c = RecordAt(Place(tree, tree.kids[t][j]))
  BY DEF AreBelow
<1> DEFINE u == tree.kids[t][j]
           p == Place(tree, u)
<1>1. t \in 0..n /\ Place(tree, t) = i
  BY PlacesAre
<1>2. u \in 1..n /\ ParentOf(tree, u) = t
  <2>1. u \in (t + 1)..n
    BY <1>1 DEF Numbered
  <2>2. u \in 1..n
    <3> HIDE DEF u, t
    <3> QED
      BY <1>1, <2>1
  <2>3. j \in 1..Len(tree.kids[t])
    BY <1>0
  <2> HIDE DEF t
  <2>4. ParentOf(tree, tree.kids[t][j]) = t
    BY <1>1, <2>3, ParentIs
  <2> QED
    BY <2>2, <2>4
<1>3. p \in 1..Len(F) /\ F[p] = u
  <2>1. u \in 0..n
    BY <1>2
  <2> HIDE DEF u
  <2> QED
    BY <2>1, PlacesAre
<1>4. c = RecordAt(p)
  BY <1>0
<1> HIDE DEF p, u
<1>5. RecordSays(tree, p, data.item[c])
  BY <1>3, <1>4 DEF Reads
<1>6. NodeAt(data, RecordAt(i)) = {RecordAt(i)}
  BY DEF Reads
<1>7. data.item[c].parent_offset = RecordAt(i)
  <2>1. u # 0
    BY <1>2
  <2>2. data.item[c].parent_offset = RecordAt(Place(tree, ParentOf(tree, u)))
    BY <1>3, <1>5, <2>1 DEF RecordSays
  <2> QED
    BY <1>1, <1>2, <2>2
<1>8. RecordAt(i) # 0
  <2>1. Len(F) \in Nat
    BY FlattenedIsSeq
  <2> QED
    BY <2>1 DEF RecordAt, HEADER_SIZE, NODE_SIZE
<1> QED
  BY <1>2, <1>6, <1>7, <1>8 DEF Parent

\* and the topic shows its own text.
LEMMA BodyIs ==
  ASSUME NEW tree, NEW n \in Nat, Numbered(tree, n), NEW data, Reads(tree, data),
         NEW i \in 1..Len(Flattened(tree)), NEW t, t = Flattened(tree)[i]
  PROVE  Body(data, RecordAt(i)) =
           [length |-> tree.len[t], of |-> IF tree.len[t] = 0 THEN {} ELSE {t}]
<1> DEFINE node == data.item[RecordAt(i)]
           len == tree.len[t]
           none == node.text_offset = 0 /\ node.text_length = 0
           outside == node.text_offset + node.text_length > data.len
<1>1. RecordSays(tree, i, node) /\ (len # 0 => TextReads(tree, data, i))
  BY DEF Reads
<1>2. Body(data, RecordAt(i)) =
        IF none \/ outside THEN [length |-> 0, of |-> {}]
        ELSE [length |-> node.text_length, of |-> {data.item[node.text_offset].topic}]
  BY DEF Body
<1>3. /\ node.text_length = len /\ (len = 0 => node.text_offset = 0)
      /\ (len # 0 => node.text_offset = TextAt(tree, i))
  <2> HIDE DEF node
  <2> QED
    BY <1>1 DEF RecordSays
<1>4. CASE len = 0
  <2>1. none
    BY <1>3, <1>4
  <2> HIDE DEF none, outside
  <2> QED
    BY <1>2, <1>4, <2>1
<1>5. CASE len # 0
  <2>1. ~ none
    BY <1>3, <1>5
  <2>2. /\ data.item[TextAt(tree, i)].topic = t /\ TextAt(tree, i) + len <= data.len
    BY <1>1, <1>5 DEF TextReads
  <2>3. TextAt(tree, i) \in Nat /\ data.len \in Nat /\ len \in Nat
    <3>1. t \in 0..n
      BY PlacesAre
    <3> QED
      BY <1>1, <1>5, <3>1 DEF TextReads, Numbered
  <2>4. ~ outside
    BY <1>3, <1>5, <2>2, <2>3
  <2> HIDE DEF none, outside
  <2> QED
    BY <1>2, <1>3, <1>5, <2>1, <2>2, <2>4
<1> QED
  BY <1>4, <1>5

\* The records are as many as the topics.
LEMMA AsManyRecords ==
  ASSUME NEW tree, NEW n \in Nat, Numbered(tree, n), NEW data, Reads(tree, data),
         NEW nodes, nodes = {p \in DOMAIN data.item : data.item[p].what = "node"}
  PROVE  Cardinality(nodes) = Cardinality(DOMAIN tree.kids)
<1> DEFINE F == Flattened(tree)
           T == 0..n
           g == [t \in T |-> RecordAt(Place(tree, t))]
<1>1. /\ \A t \in T : Place(tree, t) \in 1..Len(F) /\ F[Place(tree, t)] = t
      /\ \A i \in 1..Len(F) : F[i] \in T /\ Place(tree, F[i]) = i
  BY PlacesAre
<1>2. \A i \in 1..Len(F) : RecordAt(i) \in nodes /\ data.item[RecordAt(i)].topic = F[i]
  <2> TAKE i \in 1..Len(F)
  <2>1. RecordAt(i) \in DOMAIN data.item /\ RecordSays(tree, i, data.item[RecordAt(i)])
    BY DEF Reads
  <2> QED
    BY <2>1 DEF RecordSays
<1>3. \A p \in nodes : \E i \in 1..Len(F) : p = RecordAt(i)
  BY DEF Reads
<1>4. DOMAIN tree.kids = T /\ IsFiniteSet(T)
  <2>1. IsFiniteSet(0..n)
    BY FS_Interval
  <2> QED
    BY <2>1 DEF Numbered
<1> HIDE DEF T, F
<1>5. g \in [T -> nodes]
  BY <1>1, <1>2
<1>6. \A t, u \in T : g[t] = g[u] => t = u
  <2> TAKE t, u \in T
  <2>1. data.item[g[t]].topic = t /\ data.item[g[u]].topic = u
    BY <1>1, <1>2
  <2> QED
    BY <2>1
<1>7. \A p \in nodes : \E t \in T : g[t] = p
  <2> TAKE p \in nodes
  <2>1. PICK i \in 1..Len(F) : p = RecordAt(i)
    BY <1>3
  <2>2. F[i] \in T /\ g[F[i]] = RecordAt(i)
    BY <1>1
  <2> QED
    BY <2>1, <2>2
<1> HIDE DEF g
<1>8. g \in Bijection(T, nodes)
  BY <1>5, <1>6, <1>7 DEF Bijection, Injection, IsInjective, Surjection
<1>9. ExistsBijection(T, nodes)
  BY <1>8 DEF ExistsBijection
<1> QED
  BY <1>4, <1>9, FS_Bijection

\* What is read from an open library is the tree that was built: from the root every
\* topic is found below its parent, among its siblings in the order of their names,
\* with its own text, all of it, and its level, although the offsets were fixed
\* before anything was sorted or written.  So it is for every tree whose sizes fit
\* the fields of the format, however its topics are named, nested and long.
THEOREM LibrariesReadBack == Spec => []ReadsBackTheTree
<1>1. FilesInv => ReadsBackTheTree
  <2> SUFFICES ASSUME FilesInv, IsOpen, Fits(library) PROVE ReadsBackTheTree
    BY DEF ReadsBackTheTree
  <2> DEFINE tree == library.tree
             data == Data(library)
             nodes == {p \in DOMAIN data.item : data.item[p].what = "node"}
             topic(p) == data.item[p].topic
             F == Flattened(tree)
  <2>1. /\ tree \in Tree /\ library.image = Image(tree) /\ library.len \in 0..library.image.size
        /\ Opens(data)
    BY FilesAre DEF FilesInv
  <2>2. IsTree(tree) /\ Image(tree).size \in Nat
    BY <2>1, FilesAre
  <2>3. PICK n \in Nat : Numbered(tree, n)
    BY <2>2, TreeIs
  <2>4. TreeFits(tree)
    BY <2>1 DEF Fits, TreeFits
  <2>5. library.len = Image(tree).size
    <3>1. library.len \in Nat /\ Opens(Bytes(Image(tree), library.len))
      BY <2>1, <2>2 DEF Data
    <3>2. library.len = U32(Image(tree).size)
      BY <2>2, <3>1, OpensOnlyAtSize
    <3> QED
      BY <2>2, <2>4, <3>2, U32Fits DEF TreeFits
  <2>6. data = Bytes(Image(tree), Image(tree).size)
    BY <2>1, <2>5 DEF Data
  <2>7. Reads(tree, data)
    BY <2>3, <2>4, <2>6, FileReads
  <2> HIDE DEF tree, data
  <2>8. Len(F) \in Nat /\ Len(F) >= 1 /\ F[1] = 0
    BY <2>3, FlattenedIsSeq
  <2>9. topic(data.item[0].root_offset) = ROOT
    <3>1. 1 \in 1..Len(F)
      BY <2>8
    <3>2. RecordSays(tree, 1, data.item[RecordAt(1)]) /\ data.item[0].root_offset = RecordAt(1)
      BY <2>7, <3>1 DEF Reads
    <3> QED
      BY <2>8, <3>2 DEF RecordSays, ROOT
  <2>10. Cardinality(nodes) = Cardinality(DOMAIN tree.kids)
    BY <2>3, <2>7, AsManyRecords
  <2>11. ASSUME NEW p \in nodes
         PROVE  LET kids == Children(data, p)
                IN  /\ Sorts(tree, [k \in DOMAIN kids |-> topic(kids[k])], tree.kids[topic(p)])
                    /\ \A k \in DOMAIN kids : Parent(data, kids[k]) = {p}
                    /\ data.item[p].level = tree.level[topic(p)]
                    /\ Body(data, p) =
                         [length |-> tree.len[topic(p)],
                          of |-> IF tree.len[topic(p)] = 0 THEN {} ELSE {topic(p)}]
    <3> DEFINE kids == Children(data, p)
    <3>1. PICK i \in 1..Len(F) : p = RecordAt(i)
      BY <2>7 DEF Reads
    <3>2. topic(p) = F[i] /\ data.item[p].level = tree.level[F[i]]
      <4>1. RecordSays(tree, i, data.item[p])
        BY <2>7, <3>1 DEF Reads
      <4> QED
        BY <4>1 DEF RecordSays
    <3>3. PICK q : Lists(tree, i, q, kids)
      BY <2>3, <2>7, <3>1, ChildrenAre
    <3> HIDE DEF kids
    <3>4. Sorts(tree, [k \in DOMAIN kids |-> topic(kids[k])], tree.kids[F[i]])
      BY <2>3, <2>7, <3>3, ChildrenSort
    <3>5. AreBelow(tree, i, kids)
      BY <2>3, <2>7, <3>3, ChildrenSort
    <3>6. \A k \in DOMAIN kids : Parent(data, kids[k]) = {p}
      <4> TAKE k \in DOMAIN kids
      <4> DEFINE c == kids[k]
      <4>1. \E j \in DOMAIN kids : c = kids[j]
        OBVIOUS
      <4> HIDE DEF c
      <4>2. Parent(data, c) = {RecordAt(i)}
        BY <2>3, <2>7, <3>5, <4>1, ChildIsBelow
      <4> QED
        BY <3>1, <4>2 DEF c
    <3>7. Body(data, p) = [length |-> tree.len[topic(p)],
                           of |-> IF tree.len[topic(p)] = 0 THEN {} ELSE {topic(p)}]
      <4>1. Body(data, RecordAt(i)) =
              [length |-> tree.len[F[i]], of |-> IF tree.len[F[i]] = 0 THEN {} ELSE {F[i]}]
        BY <2>3, <2>7, BodyIs
      <4> QED
        BY <3>1, <3>2, <4>1
    <3> HIDE DEF topic
    <3> QED
      BY <3>2, <3>4, <3>6, <3>7 DEF kids
  <2> HIDE DEF nodes
  <2> QED
    BY <2>9, <2>10, <2>11 DEF ReadsBackTheTree, tree, data, nodes
<1> QED
  BY <1>1, FilesInvHolds, PTL
=============================================================================
