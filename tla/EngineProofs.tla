----------------------------- MODULE EngineProofs ----------------------------
(***************************************************************************)
(* Facts about lookup() and resolve() that hold for every tree and every   *)
(* word: what they find and offer, and where it is.  What a loop of the    *)
(* code computes is a recursive function here, and what it holds is proved *)
(* by induction on the length of the path or of the list of libraries.     *)
(***************************************************************************)
EXTENDS Engine, Integers, SequenceTheorems, WellFoundedInduction, TLAPS
-----------------------------------------------------------------------------
(***************************************************************************)
(* Sets of numbers, sequences, and induction over them                     *)
(***************************************************************************)

\* A set of natural numbers that is not empty holds its minimum.
LEMMA MinIsMember ==
  ASSUME NEW S \in SUBSET Nat, S # {}
  PROVE  Min(S) \in S /\ \A y \in S : Min(S) <= y
<1> DEFINE R == OpToRel(<, Nat)
<1>1. IsWellFoundedOn(R, Nat)
  BY NatLessThanWellFounded
<1> HIDE DEF R
<1>2. PICK x \in S : \A y \in S : ~ (<<y, x>> \in R)
  BY <1>1, WFMin
<1>3. \A y \in S : x <= y
  <2>1. SUFFICES ASSUME NEW y \in S PROVE x <= y
    OBVIOUS
  <2>2. ~ (y < x)
    BY <1>2 DEF R, OpToRel
  <2> QED
    BY <2>2
<1> QED
  BY <1>2, <1>3 DEF Min

\* What truncating a sequence to its first k entries leaves.
LEMMA PrefixProperties ==
  ASSUME NEW S, NEW s \in Seq(S), NEW k \in 0..Len(s)
  PROVE  /\ SubSeq(s, 1, k) \in Seq(S)
         /\ Len(SubSeq(s, 1, k)) = k
         /\ \A i \in 1..k : SubSeq(s, 1, k)[i] = s[i]
         /\ k # 0 => SubSeq(s, 1, k) # <<>>
<1>1. CASE k = 0
  BY <1>1, SubSeqEmpty
<1>2. CASE k # 0
  <2>1. k \in 1..Len(s) /\ \A i \in 1..k : s[i] \in S
    BY <1>2
  <2>2. /\ SubSeq(s, 1, k) \in Seq(S)
        /\ Len(SubSeq(s, 1, k)) = k
        /\ \A i \in 1..k : SubSeq(s, 1, k)[i] = s[i]
    BY <2>1, SubSeqProperties
  <2> QED
    BY <1>2, <2>2, EmptySeq
<1> QED
  BY <1>1, <1>2

\* A set that holds 0 and with every number the next one holds all of them.
LEMMA InductionOnNat ==
  ASSUME NEW S, 0 \in S, \A k \in Nat : k \in S => k + 1 \in S
  PROVE  Nat \subseteq S
<1> DEFINE out == Nat \ S
<1> SUFFICES ASSUME out # {} PROVE FALSE
  OBVIOUS
<1>1. out \in SUBSET Nat
  OBVIOUS
<1>2. Min(out) \in out /\ \A y \in out : Min(out) <= y
  <2> HIDE DEF out
  <2> QED BY <1>1, MinIsMember
<1>3. PICK m \in Nat : m \notin S /\ \A y \in Nat : y \notin S => m <= y
  BY <1>2
<1>4. m # 0 /\ m - 1 \in Nat /\ ~ (m <= m - 1)
  BY <1>3
<1>5. m - 1 \in S
  BY <1>3, <1>4
<1> QED
  BY <1>3, <1>4, <1>5

\* A path with one word more is not empty.
LEMMA AppendIsNotEmpty ==
  ASSUME NEW S, NEW s \in Seq(S), NEW x \in S
  PROVE  Append(s, x) # <<>>
BY AppendProperties

\* A path that is not empty is its front and its last word.
LEMMA LastSplits ==
  ASSUME NEW S, NEW s \in Seq(S), s # <<>>
  PROVE  \E k \in Nat : /\ Len(s) = k + 1 /\ Front(s) \in Seq(S) /\ Len(Front(s)) = k
                        /\ \A i \in 1..k : Front(s)[i] = s[i]
                        /\ Last(s) = s[k + 1] /\ Last(s) \in S
                        /\ s = Append(Front(s), Last(s))
<1>1. PICK k \in Nat : Len(s) = k + 1
  <2>1. Len(s) \in Nat /\ Len(s) # 0
    BY EmptySeq
  <2>2. \A n \in Nat : n # 0 => n - 1 \in Nat /\ n = (n - 1) + 1
    OBVIOUS
  <2> QED
    BY <2>1, <2>2
<1>2. /\ Front(s) \in Seq(S) /\ Len(Front(s)) = k
      /\ \A i \in 1..k : Front(s)[i] = s[i]
  BY <1>1, PrefixProperties DEF Front
<1>3. Last(s) = s[k + 1] /\ Last(s) \in S
  BY <1>1 DEF Last
<1>4. /\ Append(Front(s), Last(s)) \in Seq(S)
      /\ Len(Append(Front(s), Last(s))) = k + 1
      /\ \A i \in 1..(k + 1) : Append(Front(s), Last(s))[i] = s[i]
  BY <1>2, <1>3
<1>5. s = Append(Front(s), Last(s))
  BY <1>1, <1>4, SeqEqual
<1> QED
  BY <1>1, <1>2, <1>3, <1>5

\* What holds of the empty path, and of a path with one word more than a path
\* it holds of, holds of every path.
LEMMA InductionOnSeq ==
  ASSUME NEW S, NEW T, <<>> \in T,
         \A s \in Seq(S), x \in S : s \in T => Append(s, x) \in T
  PROVE  Seq(S) \subseteq T
<1> DEFINE lengths == {k \in Nat : \A s \in Seq(S) : Len(s) = k => s \in T}
<1>1. 0 \in lengths
  BY EmptySeq
<1>2. ASSUME NEW k \in Nat, k \in lengths
      PROVE  k + 1 \in lengths
  <2>1. SUFFICES ASSUME NEW s \in Seq(S), Len(s) = k + 1
                 PROVE  s \in T
    BY DEF lengths
  <2>2. s # <<>>
    BY <2>1
  <2>3. PICK n \in Nat : /\ Len(s) = n + 1 /\ Front(s) \in Seq(S) /\ Len(Front(s)) = n
                         /\ Last(s) \in S /\ s = Append(Front(s), Last(s))
    BY <2>2, LastSplits
  <2>4. Front(s) \in T
    BY <1>2, <2>1, <2>3
  <2> QED
    BY <2>3, <2>4
<1> HIDE DEF lengths
<1>3. Nat \subseteq lengths
  BY <1>1, <1>2, InductionOnNat
<1> QED
  BY <1>3 DEF lengths

\* Concatenation adds no entry of its own and loses none.
LEMMA ConcatMembers ==
  ASSUME NEW S, NEW s \in Seq(S), NEW t \in Seq(S)
  PROVE  s \o t \in Seq(S) /\ ToSet(s \o t) = ToSet(s) \cup ToSet(t)
<1>1. /\ s \o t \in Seq(S) /\ Len(s \o t) = Len(s) + Len(t)
      /\ \A k \in 1..(Len(s) + Len(t)) :
           (s \o t)[k] = IF k <= Len(s) THEN s[k] ELSE t[k - Len(s)]
      /\ Len(s) \in Nat /\ Len(t) \in Nat
  BY ConcatProperties
<1>2. /\ \A k \in 1..Len(s) : k \in 1..(Len(s) + Len(t)) /\ (s \o t)[k] = s[k]
      /\ \A k \in 1..Len(t) : k + Len(s) \in 1..(Len(s) + Len(t)) /\ (s \o t)[k + Len(s)] = t[k]
  BY <1>1
<1>3. \A k \in 1..(Len(s) + Len(t)) :
         k \in 1..Len(s) \/ (k - Len(s) \in 1..Len(t) /\ (k - Len(s)) + Len(s) = k)
  BY <1>1
<1>4. /\ DOMAIN (s \o t) = 1..(Len(s) + Len(t))
      /\ DOMAIN s = 1..Len(s) /\ DOMAIN t = 1..Len(t)
  BY <1>1
<1>5. ToSet(s \o t) \subseteq ToSet(s) \cup ToSet(t)
  <2> SUFFICES ASSUME NEW k \in 1..(Len(s) + Len(t))
               PROVE  (s \o t)[k] \in ToSet(s) \cup ToSet(t)
    BY <1>4 DEF ToSet
  <2>1. CASE k \in 1..Len(s)
    BY <1>2, <1>4, <2>1 DEF ToSet
  <2>2. CASE k - Len(s) \in 1..Len(t) /\ (k - Len(s)) + Len(s) = k
    <3>1. (s \o t)[k] = t[k - Len(s)]
      BY <1>2, <2>2
    <3> QED
      BY <1>4, <2>2, <3>1 DEF ToSet
  <2> QED
    BY <1>3, <2>1, <2>2
<1>6. ToSet(s) \subseteq ToSet(s \o t)
  BY <1>2, <1>4 DEF ToSet
<1>7. ToSet(t) \subseteq ToSet(s \o t)
  BY <1>2, <1>4 DEF ToSet
<1> QED
  BY <1>1, <1>5, <1>6, <1>7

\* Three sequences in a row can be put together either way.
LEMMA ConcatRegroups ==
  ASSUME NEW S
  PROVE  \A a, b, c \in Seq(S) : (a \o b) \o c = a \o (b \o c) /\ a \o b \in Seq(S)
<1> TAKE a, b, c \in Seq(S)
<1>1. (a \o b) \o c = a \o (b \o c)
  BY ConcatAssociative
<1>2. a \o b \in Seq(S)
  OBVIOUS
<1> QED
  BY <1>1, <1>2

\* What FlattenSeq has put together after each sequence
Partial(f, ss) ==
  f = [i \in 1..Len(ss) |-> IF i = 1 THEN ss[i] ELSE f[i - 1] \o ss[i]]

\* The function exists,
LEMMA PartialExists ==
  ASSUME NEW S, NEW ss \in Seq(S)
  PROVE  \E f : Partial(f, ss)
<1> DEFINE T == {s \in Seq(S) : \E f : Partial(f, s)}
<1>1. <<>> \in T
  <2>1. <<>> \in Seq(S) /\ 1..Len(<<>>) = {}
    OBVIOUS
  <2>2. Partial([i \in {} |-> <<>>], <<>>)
    BY <2>1 DEF Partial
  <2> QED
    BY <2>1, <2>2
<1>2. ASSUME NEW s \in Seq(S), NEW x \in S, s \in T
      PROVE  Append(s, x) \in T
  <2> DEFINE n == Len(s)
             t == Append(s, x)
  <2>1. PICK f : Partial(f, s)
    BY <1>2
  <2>2. \A i \in 1..n : f[i] = IF i = 1 THEN s[i] ELSE f[i - 1] \o s[i]
    BY <2>1 DEF Partial
  <2>3. /\ n \in Nat /\ t \in Seq(S) /\ Len(t) = n + 1
        /\ \A i \in 1..n : t[i] = s[i]
    BY AppendProperties
  <2> HIDE DEF n, t
  <2> DEFINE g == [i \in 1..(n + 1) |->
                    IF i = n + 1 THEN IF i = 1 THEN t[i] ELSE f[i - 1] \o t[i] ELSE f[i]]
  <2>4. \A i \in 1..(n + 1) : g[i] = IF i = 1 THEN t[i] ELSE g[i - 1] \o t[i]
    <3> TAKE i \in 1..(n + 1)
    <3>1. CASE i = n + 1
      <4>1. i # 1 => g[i - 1] = f[i - 1]
        BY <2>3, <3>1
      <4> QED
        BY <3>1, <4>1
    <3>2. CASE i # n + 1
      <4>1. i \in 1..n /\ (i # 1 => i - 1 \in 1..(n + 1) /\ i - 1 # n + 1)
        BY <2>3, <3>2
      <4>2. g[i] = f[i] /\ (i # 1 => g[i - 1] = f[i - 1])
        BY <3>2, <4>1
      <4> QED
        BY <2>2, <2>3, <4>1, <4>2
    <3> QED
      BY <3>1, <3>2
  <2>5. Partial(g, t)
    <3>1. g = [i \in 1..Len(t) |-> g[i]]
      BY <2>3
    <3> HIDE DEF g
    <3> QED
      BY <2>3, <2>4, <3>1 DEF Partial
  <2> HIDE DEF g
  <2> QED
    BY <2>3, <2>5 DEF t
<1> HIDE DEF T
<1>3. Seq(S) \subseteq T
  BY <1>1, <1>2, InductionOnSeq
<1> QED
  BY <1>3 DEF T

\* The same beginning
SameUpTo(n, s, t) == \A i \in 1..n : s[i] = t[i]

\* On a common beginning two of them agree.
LEMMA PartialsAgree ==
  ASSUME NEW S, NEW s \in Seq(S), NEW t \in Seq(S), NEW f, NEW g,
         Partial(f, s), Partial(g, t), NEW n \in Nat, n <= Len(s), n <= Len(t),
         SameUpTo(n, s, t)
  PROVE  SameUpTo(n, f, g)
<1>1. \A i \in 1..n : /\ f[i] = IF i = 1 THEN s[i] ELSE f[i - 1] \o s[i]
                      /\ g[i] = IF i = 1 THEN s[i] ELSE g[i - 1] \o s[i]
  <2>1. /\ \A i \in 1..Len(s) : f[i] = IF i = 1 THEN s[i] ELSE f[i - 1] \o s[i]
        /\ \A i \in 1..Len(t) : g[i] = IF i = 1 THEN t[i] ELSE g[i - 1] \o t[i]
    BY DEF Partial
  <2>2. \A i \in 1..n : i \in 1..Len(s) /\ i \in 1..Len(t)
    OBVIOUS
  <2> QED
    BY <2>1, <2>2 DEF SameUpTo
<1> DEFINE same == {k \in Nat : k + 1 <= n => f[k + 1] = g[k + 1]}
<1>2. 0 \in same
  <2>1. n >= 1 => 1 \in 1..n
    OBVIOUS
  <2>2. n >= 1 => f[1] = g[1]
    BY <1>1, <2>1
  <2> QED
    BY <2>2
<1>3. ASSUME NEW k \in Nat, k \in same
      PROVE  k + 1 \in same
  <2>1. CASE (k + 1) + 1 <= n
    <3>1. /\ (k + 1) + 1 \in 1..n /\ (k + 1) + 1 # 1 /\ ((k + 1) + 1) - 1 = k + 1
          /\ f[k + 1] = g[k + 1]
      BY <1>3, <2>1
    <3>2. /\ f[(k + 1) + 1] = f[k + 1] \o s[(k + 1) + 1]
          /\ g[(k + 1) + 1] = g[k + 1] \o s[(k + 1) + 1]
      BY <1>1, <3>1
    <3>3. f[(k + 1) + 1] = g[(k + 1) + 1]
      BY <3>1, <3>2
    <3> QED
      BY <3>3
  <2>2. CASE ~ ((k + 1) + 1 <= n)
    BY <2>2
  <2> QED
    BY <2>1, <2>2
<1>4. Nat \subseteq same
  <2> HIDE DEF same
  <2> QED
    BY <1>2, <1>3, InductionOnNat
<1>5. ASSUME NEW i \in 1..n PROVE f[i] = g[i]
  <2>1. i - 1 \in Nat /\ (i - 1) + 1 = i /\ i <= n
    OBVIOUS
  <2> QED
    BY <1>4, <2>1
<1> QED
  BY <1>5 DEF SameUpTo

\* Concatenating one sequence more: RootTopics when a library has been added
\* so it is what FlattenSeq takes its value from.
LEMMA FlattenSeqIsPartial ==
  ASSUME NEW S, NEW ss \in Seq(S), Len(ss) # 0
  PROVE  \E f : Partial(f, ss) /\ FlattenSeq(ss) = f[Len(ss)]
<1> DEFINE flatten == CHOOSE f : Partial(f, ss)
<1>1. FlattenSeq(ss) = flatten[Len(ss)]
  BY DEF FlattenSeq, Partial
<1>2. Partial(flatten, ss)
  BY PartialExists
<1> QED
  BY <1>1, <1>2

\* One sequence more is appended to what there was.
LEMMA FlattenSeqStep ==
  ASSUME NEW S, NEW ss \in Seq(Seq(S)), NEW t \in Seq(S), FlattenSeq(ss) \in Seq(S)
  PROVE  FlattenSeq(Append(ss, t)) = FlattenSeq(ss) \o t
<1> DEFINE tt == Append(ss, t)
           n == Len(ss)
<1>1. /\ n \in Nat /\ tt \in Seq(Seq(S)) /\ Len(tt) = n + 1 /\ tt[n + 1] = t
      /\ \A i \in 1..n : tt[i] = ss[i]
  BY AppendProperties
<1>2. PICK g : Partial(g, tt) /\ FlattenSeq(tt) = g[n + 1]
  <2>1. Len(tt) # 0
    BY <1>1
  <2> HIDE DEF tt, n
  <2> QED
    BY <1>1, <2>1, FlattenSeqIsPartial
<1>3. g[n + 1] = IF n + 1 = 1 THEN t ELSE g[(n + 1) - 1] \o t
  <2>1. \A i \in 1..Len(tt) : g[i] = IF i = 1 THEN tt[i] ELSE g[i - 1] \o tt[i]
    BY <1>2 DEF Partial
  <2>2. n + 1 \in 1..Len(tt)
    BY <1>1
  <2> HIDE DEF tt
  <2> QED
    BY <1>1, <2>1, <2>2
<1>4. CASE n = 0
  <2>1. ss = <<>> /\ FlattenSeq(ss) = ss
    BY <1>4, EmptySeq DEF FlattenSeq
  <2>2. FlattenSeq(tt) = t
    BY <1>2, <1>3, <1>4
  <2> QED
    BY <2>1, <2>2, ConcatEmptySeq
<1>5. CASE n # 0
  <2>1. PICK f : Partial(f, ss) /\ FlattenSeq(ss) = f[n]
    BY <1>5, FlattenSeqIsPartial
  <2>2. n \in 1..n /\ (n + 1) - 1 = n /\ n + 1 # 1 /\ n <= Len(tt) /\ n <= n
    BY <1>1, <1>5
  <2>3. n = Len(ss) /\ ss \in Seq(Seq(S))
    OBVIOUS
  <2> HIDE DEF n, tt
  <2>4. SameUpTo(n, ss, tt)
    BY <1>1 DEF SameUpTo
  <2>5. SameUpTo(n, f, g)
    BY <1>1, <1>2, <2>1, <2>2, <2>3, <2>4, PartialsAgree
  <2>6. f[n] = g[n]
    BY <2>2, <2>5 DEF SameUpTo
  <2> QED
    BY <1>2, <1>3, <2>1, <2>2, <2>6 DEF tt
<1> QED
  BY <1>4, <1>5

\* FlattenSeq of sequences is a sequence of their entries.
LEMMA FlattenSeqIsSeq ==
  ASSUME NEW S, NEW ss \in Seq(Seq(S))
  PROVE  FlattenSeq(ss) \in Seq(S)
<1> DEFINE T == {tt \in Seq(Seq(S)) : FlattenSeq(tt) \in Seq(S)}
<1>1. <<>> \in T
  BY DEF FlattenSeq
<1>2. ASSUME NEW tt \in Seq(Seq(S)), NEW t \in Seq(S), tt \in T
      PROVE  Append(tt, t) \in T
  <2>1. FlattenSeq(Append(tt, t)) = FlattenSeq(tt) \o t
    BY <1>2, FlattenSeqStep
  <2>2. Append(tt, t) \in Seq(Seq(S)) /\ FlattenSeq(tt) \o t \in Seq(S)
    BY <1>2
  <2> QED
    BY <2>1, <2>2
<1> HIDE DEF T
<1>3. Seq(Seq(S)) \subseteq T
  BY <1>1, <1>2, InductionOnSeq
<1> QED
  BY <1>3 DEF T
-----------------------------------------------------------------------------
(***************************************************************************)
(* lookup(): one word among the children of a node or the level-1 topics   *)
(***************************************************************************)

\* The node comes first of its name in the list.
FirstOfName(list, n) ==
  n \in ToSet(list) /\ list[Min(Equal(list, NameUpper[n]))] = n

\* The first of a name has that name.
LEMMA FirstOfNameIsMember ==
  ASSUME NEW list \in Seq(Node), NEW up, Equal(list, up) # {}
  PROVE  LET n == list[Min(Equal(list, up))]
         IN  n \in Node /\ NameUpper[n] = up /\ FirstOfName(list, n)
<1> DEFINE i == Min(Equal(list, up))
<1>1. Equal(list, up) \in SUBSET Nat
  <2>1. DOMAIN list \subseteq Nat
    OBVIOUS
  <2> QED
    BY <2>1 DEF Equal
<1>2. i \in Equal(list, up)
  BY <1>1, MinIsMember
<1> HIDE DEF i
<1>3. i \in DOMAIN list /\ NameUpper[list[i]] = up /\ list[i] \in Node
  BY <1>2 DEF Equal
<1> QED
  BY <1>2, <1>3 DEF FirstOfName, ToSet, i

\* A word without wildcards is found only among the nodes it is looked up in:
\* the first equal name, or the one node whose name it abbreviates.  Either
\* comes first of its name.
LEMMA LookupWordFindsFirst ==
  ASSUME NEW list \in Seq(Node), NEW which \in {"All", "Distinct"}, NEW up, NEW mode,
         LookupWord(list, which, up, mode).kind = "Found"
  PROVE  \E n \in Node :
           /\ LookupWord(list, which, up, mode) = Found(n)
           /\ FirstOfName(list, n)
           /\ NameUpper[n] = up \/ IsPrefix(up, NameUpper[n])
<1> DEFINE matches == Chosen(list, Prefixed(list, up), which)
<1>1. CASE Equal(list, up) # {}
  <2>1. LookupWord(list, which, up, mode) = Found(list[Min(Equal(list, up))])
    BY <1>1 DEF LookupWord
  <2> QED
    BY <1>1, <2>1, FirstOfNameIsMember
<1>2. CASE Equal(list, up) = {}
  <2>1. PICK n \in matches : matches = {n}
    BY <1>2 DEF LookupWord, NotFound, Ambiguous, Found
  <2>2. LookupWord(list, which, up, mode) = Found(n)
    <3>1. mode # Exact /\ matches # {}
      BY <1>2 DEF LookupWord, NotFound, Ambiguous, Found
    <3>2. LookupWord(list, which, up, mode) = Found(CHOOSE m \in matches : TRUE)
      BY <1>2, <2>1, <3>1 DEF LookupWord
    <3> QED
      BY <2>1, <3>2
  <2>3. PICK i \in Prefixed(list, up) : list[i] = n
    BY DEF Chosen, All, FirstOfEachName
  <2>4. i \in DOMAIN list /\ n \in Node /\ IsPrefix(up, NameUpper[n])
    BY <2>3 DEF Prefixed
  <2> DEFINE least == Min(Equal(list, NameUpper[n]))
  <2>5. /\ least \in Equal(list, NameUpper[n])
        /\ \A j \in Equal(list, NameUpper[n]) : least <= j
    <3>1. DOMAIN list \subseteq Nat
      OBVIOUS
    <3>2. Equal(list, NameUpper[n]) \in SUBSET Nat /\ i \in Equal(list, NameUpper[n])
      BY <2>3, <2>4, <3>1 DEF Equal
    <3> QED
      BY <3>2, MinIsMember
  <2> HIDE DEF least
  <2>6. list[least] \in matches
    <3>1. least \in Prefixed(list, up) /\ least \in DOMAIN list
          /\ NameUpper[list[least]] = NameUpper[n]
      BY <2>4, <2>5 DEF Equal, Prefixed
    <3>2. ~ \E j \in Prefixed(list, up) :
               j < least /\ NameUpper[list[j]] = NameUpper[list[least]]
      <4>1. SUFFICES ASSUME NEW j \in Prefixed(list, up), j < least,
                            NameUpper[list[j]] = NameUpper[n]
                     PROVE  FALSE
        BY <3>1
      <4>2. j \in Equal(list, NameUpper[n]) /\ j \in Nat /\ least \in Nat
        BY <3>1, <4>1 DEF Equal, Prefixed
      <4> QED
        BY <2>5, <4>1, <4>2
    <3> QED
      BY <3>1, <3>2 DEF Chosen, All, FirstOfEachName
  <2>7. FirstOfName(list, n)
    BY <2>1, <2>3, <2>4, <2>6 DEF FirstOfName, ToSet, least
  <2> QED
    BY <2>2, <2>4, <2>7
<1> QED
  BY <1>1, <1>2

\* Folding keeps the length of a word.
LEMMA FoldedWord ==
  ASSUME NEW w \in Seq(Char)
  PROVE  /\ ToAsciiUppercase(w) \in Seq(Char) /\ Len(ToAsciiUppercase(w)) = Len(w)
<1>1. ToAsciiUppercase(w) = [i \in 1..Len(w) |-> AsciiUpper[w[i]]]
  BY DEF ToAsciiUppercase
<1>2. \A i \in 1..Len(w) : AsciiUpper[w[i]] \in Char
  BY CharAssumption
<1> QED
  BY <1>1, <1>2

\* The same of any word, and what is found has a name: lookup() turns the empty
\* word away, and every other one is at most as long as the name.
LEMMA LookupInFindsFirst ==
  ASSUME NEW list \in Seq(Node), NEW which \in {"All", "Distinct"},
         NEW word \in Seq(Char), NEW mode,
         LookupIn(list, which, word, mode).kind = "Found"
  PROVE  \E n \in Node : /\ LookupIn(list, which, word, mode) = Found(n)
                         /\ FirstOfName(list, n) /\ NameUpper[n] # <<>>
<1> DEFINE up == ToAsciiUppercase(word)
<1>1. /\ LookupIn(list, which, word, mode) = LookupWord(list, which, up, mode)
      /\ word # <<>>
  BY DEF LookupIn, NotFound, Ambiguous
<1>2. up \in Seq(Char) /\ Len(up) # 0
  <2>1. Len(word) # 0
    BY <1>1, EmptySeq
  <2> QED
    BY <2>1, FoldedWord
<1> HIDE DEF up
<1>3. PICK n \in Node : /\ LookupWord(list, which, up, mode) = Found(n)
                        /\ FirstOfName(list, n)
                        /\ NameUpper[n] = up \/ IsPrefix(up, NameUpper[n])
  BY <1>1, LookupWordFindsFirst
<1>4. NameUpper[n] # <<>>
  <2>1. NameUpper[n] \in Seq(Char)
    BY NodeAssumption
  <2>2. CASE NameUpper[n] = up
    BY <1>2, <2>2
  <2>3. CASE IsPrefix(up, NameUpper[n])
    <3>1. Len(up) <= Len(NameUpper[n])
      BY <2>3 DEF IsPrefix
    <3> QED
      BY <1>2, <2>1, <3>1
  <2> QED
    BY <1>3, <2>2, <2>3
<1> QED
  BY <1>1, <1>3, <1>4

\* A topic that comes first of its name is found by its name, in either mode.
LEMMA OwnNameFinds ==
  ASSUME NEW list \in Seq(Node), NEW which, NEW mode, NEW n \in Node,
         FirstOfName(list, n), NameUpper[n] # <<>>, ~ IsWildcard(NameUpper[n])
  PROVE  LookupIn(list, which, NameUpper[n], mode) = Found(n)
<1>1. ToAsciiUppercase(NameUpper[n]) = NameUpper[n]
  BY NodeAssumption
<1>2. Equal(list, NameUpper[n]) # {}
  BY DEF FirstOfName, Equal, ToSet
<1> QED
  BY <1>1, <1>2 DEF LookupIn, LookupWord, FirstOfName

\* lookup() finds only children of the node it is asked about, in every mode
\* and for every word, patterns included.
THEOREM LookupFindsChild ==
  ASSUME NEW parent \in Node, NEW input, NEW mode,
         Lookup(parent, input, mode).kind = "Found"
  PROVE  Lookup(parent, input, mode).node \in Kids(parent)
<1> DEFINE list == Children[parent]
           up == ToAsciiUppercase(input)
<1>1. list \in Seq(Node)
  BY NodeAssumption
<1>2. Lookup(parent, input, mode) = LookupWord(list, "All", up, mode)
  BY DEF Lookup, LookupIn, NotFound, Ambiguous
<1>3. PICK n \in Node : LookupWord(list, "All", up, mode) = Found(n) /\ n \in ToSet(list)
  BY <1>1, <1>2, LookupWordFindsFirst DEF FirstOfName
<1> QED
  BY <1>2, <1>3 DEF Found, Kids

\* A lookup has one of three outcomes, and choices are children too.
THEOREM LookupOffersChildren ==
  ASSUME NEW parent \in Node, NEW input, NEW mode
  PROVE  LET r == Lookup(parent, input, mode)
         IN  /\ r.kind \in {"Found", "Ambiguous", "NotFound"}
             /\ r.kind = "Ambiguous" => r.nodes \subseteq Kids(parent) /\ r.nodes # {}
<1> DEFINE list == Children[parent]
           up == ToAsciiUppercase(input)
           globbed == All(list, Globbed(list, up))
           prefixed == All(list, Prefixed(list, up))
<1>1. globbed \subseteq Kids(parent) /\ prefixed \subseteq Kids(parent)
  BY DEF All, Globbed, Prefixed, Kids, ToSet
<1>2. CASE input = <<>>
  BY <1>2 DEF Lookup, LookupIn, NotFound
<1>3. CASE input # <<>> /\ IsWildcard(up)
  BY <1>1, <1>3 DEF Lookup, LookupIn, Chosen, NotFound, Ambiguous
<1>4. CASE input # <<>> /\ ~ IsWildcard(up)
  <2>1. Lookup(parent, input, mode) = LookupWord(list, "All", up, mode)
    BY <1>4 DEF Lookup, LookupIn
  <2>2. CASE Equal(list, up) # {}
    BY <2>1, <2>2 DEF LookupWord, Found
  <2>3. CASE Equal(list, up) = {} /\ (mode = Exact \/ prefixed = {})
    BY <2>1, <2>3 DEF LookupWord, Chosen, NotFound
  <2>4. CASE Equal(list, up) = {} /\ ~ (mode = Exact \/ prefixed = {})
    BY <1>1, <2>1, <2>4 DEF LookupWord, Chosen, Found, Ambiguous
  <2> QED
    BY <2>2, <2>3, <2>4
<1> QED
  BY <1>2, <1>3, <1>4
-----------------------------------------------------------------------------
(***************************************************************************)
(* The trees: walks down one of them, and the names along the way          *)
(***************************************************************************)

\* A walk down one tree from any of its nodes
Descent(s) ==
  /\ s \in Seq(Node) /\ s # <<>>
  /\ \A i \in 1..(Len(s) - 1) : Parent[s[i + 1]] = s[i]

\* It goes on with a child of the node it has come to.
LEMMA DescentGoesOn ==
  ASSUME NEW s, Descent(s), NEW c \in Kids(Last(s))
  PROVE  Descent(Append(s, c)) /\ Append(s, c)[1] = s[1]
<1>1. Len(s) \in Nat /\ Len(s) >= 1 /\ Last(s) \in Node
  BY DEF Descent, Last
<1>2. c \in Node /\ Parent[c] = Last(s)
  BY <1>1, NodeAssumption DEF Kids, ToSet
<1>3. /\ Append(s, c) \in Seq(Node)
      /\ Len(Append(s, c)) = Len(s) + 1
      /\ \A i \in 1..Len(s) : Append(s, c)[i] = s[i]
      /\ Append(s, c)[Len(s) + 1] = c
  BY <1>2 DEF Descent
<1>4. ASSUME NEW i \in 1..Len(s)
      PROVE  Parent[Append(s, c)[i + 1]] = Append(s, c)[i]
  <2>1. CASE i = Len(s)
    BY <1>1, <1>2, <1>3, <2>1 DEF Last
  <2>2. CASE i # Len(s)
    BY <1>1, <1>3, <2>2 DEF Descent
  <2> QED
    BY <2>1, <2>2
<1> QED
  BY <1>1, <1>3, <1>4 DEF Descent

\* Its beginnings are walks from the same node: those that are left when the
\* end is taken off, and when all but the first node is.
LEMMA DescentIsCut ==
  ASSUME NEW s, Descent(s)
  PROVE  /\ \A k \in 1..Len(s) : Descent(SubSeq(s, 1, k)) /\ SubSeq(s, 1, k)[1] = s[1]
         /\ Descent(SubSeq(s, 1, 1)) /\ SubSeq(s, 1, 1)[1] = s[1]
         /\ Len(s) # 1 => Descent(Front(s)) /\ Front(s)[1] = s[1]
<1>1. s \in Seq(Node) /\ Len(s) \in Nat /\ Len(s) >= 1
  BY DEF Descent
<1>2. ASSUME NEW k \in 1..Len(s)
      PROVE  Descent(SubSeq(s, 1, k)) /\ SubSeq(s, 1, k)[1] = s[1]
  <2>1. /\ SubSeq(s, 1, k) \in Seq(Node) /\ Len(SubSeq(s, 1, k)) = k
        /\ \A i \in 1..k : SubSeq(s, 1, k)[i] = s[i]
        /\ SubSeq(s, 1, k) # <<>>
    BY <1>1, PrefixProperties
  <2>2. \A i \in 1..(k - 1) : Parent[SubSeq(s, 1, k)[i + 1]] = SubSeq(s, 1, k)[i]
    BY <1>1, <2>1 DEF Descent
  <2> QED
    BY <1>1, <2>1, <2>2 DEF Descent
<1>3. ASSUME Len(s) # 1 PROVE Descent(Front(s)) /\ Front(s)[1] = s[1]
  <2>1. Front(s) = SubSeq(s, 1, Len(s) - 1)
    BY DEF Front
  <2>2. Len(s) - 1 \in 1..Len(s)
    <3>1. \A k \in Nat : k >= 1 /\ k # 1 => k - 1 \in 1..k
      OBVIOUS
    <3> QED
      BY <1>1, <1>3, <3>1
  <2> QED
    BY <1>2, <2>1, <2>2
<1>4. 1 \in 1..Len(s)
  BY <1>1
<1> QED
  BY <1>2, <1>3, <1>4

\* The walk from a root down to n
LineTo(n, s) == Descent(s) /\ Parent[s[1]] = NoNode /\ Last(s) = n

\* A root is reached at once,
LEMMA LineToRoot ==
  ASSUME NEW n \in Node, Parent[n] = NoNode
  PROVE  LineTo(n, <<n>>)
BY DEF LineTo, Descent, Last

\* a topic from the one above it,
LEMMA LineGoesOn ==
  ASSUME NEW n \in Node, Parent[n] # NoNode, NEW s, LineTo(Parent[n], s)
  PROVE  LineTo(n, Append(s, n))
<1>1. Parent[n] \in Node /\ n \in Kids(Last(s)) /\ Descent(s)
  BY NodeAssumption DEF LineTo
<1>2. Descent(Append(s, n)) /\ Append(s, n)[1] = s[1]
  BY <1>1, DescentGoesOn
<1>3. s \in Seq(Node)
  BY <1>1 DEF Descent
<1>4. Last(Append(s, n)) = n
  BY <1>3 DEF Last
<1> QED
  BY <1>2, <1>4 DEF LineTo

\* so there is a walk to every node,
LEMMA LineToEach ==
  ASSUME ParentsEnd
  PROVE  \A n \in Node : \E s : LineTo(n, s)
<1> DEFINE without == {n \in Node : ~ \E s : LineTo(n, s)}
<1> SUFFICES ASSUME without # {} PROVE FALSE
  OBVIOUS
<1>1. PICK n \in without : Parent[n] \notin without
  BY DEF ParentsEnd
<1>2. CASE Parent[n] = NoNode
  BY <1>2, LineToRoot
<1>3. CASE Parent[n] # NoNode
  <2>1. Parent[n] \in Node
    BY <1>3, NodeAssumption
  <2>2. PICK s : LineTo(Parent[n], s)
    BY <1>1, <2>1
  <2> QED
    BY <1>3, <2>2, LineGoesOn
<1> QED
  BY <1>2, <1>3

\* and one only.
LEMMA LineIsOne ==
  ASSUME ParentsEnd, NEW n \in Node, NEW s, NEW t, LineTo(n, s), LineTo(n, t)
  PROVE  s = t
<1> DEFINE forked == {m \in Node : \E u, v : LineTo(m, u) /\ LineTo(m, v) /\ u # v}
<1> SUFFICES ASSUME forked # {} PROVE FALSE
  OBVIOUS
<1>1. PICK m \in forked : Parent[m] \notin forked
  BY DEF ParentsEnd
<1>2. PICK u, v : LineTo(m, u) /\ LineTo(m, v) /\ u # v
  BY <1>1
<1>3. ASSUME NEW w, LineTo(m, w)
      PROVE  IF Parent[m] = NoNode THEN w = <<m>>
             ELSE LineTo(Parent[m], Front(w)) /\ w = Append(Front(w), m)
  <2>1. /\ w \in Seq(Node) /\ w # <<>> /\ Last(w) = m
        /\ Descent(w) /\ Parent[w[1]] = NoNode
        /\ \A i \in 1..(Len(w) - 1) : Parent[w[i + 1]] = w[i]
    BY <1>3 DEF LineTo, Descent
  <2>2. PICK k \in Nat : /\ Len(w) = k + 1 /\ Front(w) \in Seq(Node) /\ Len(Front(w)) = k
                         /\ \A i \in 1..k : Front(w)[i] = w[i]
                         /\ w[k + 1] = m /\ w = Append(Front(w), m)
    BY <2>1, LastSplits
  <2>3. CASE k = 0
    <3>1. Parent[m] = NoNode
      BY <2>1, <2>2, <2>3
    <3>2. w = <<m>>
      BY <2>1, <2>2, <2>3
    <3> QED
      BY <3>1, <3>2
  <2>4. CASE k # 0
    <3>1. k \in 1..k /\ Parent[m] = w[k] /\ w[k] \in Node
      BY <2>1, <2>2, <2>4
    <3>2. Parent[m] # NoNode /\ Last(Front(w)) = w[k]
      BY <2>2, <3>1, NodeAssumption DEF Last
    <3>3. Descent(Front(w)) /\ Front(w)[1] = w[1]
      BY <2>1, <2>2, <2>4, DescentIsCut
    <3>4. LineTo(Parent[m], Front(w))
      BY <2>1, <3>1, <3>2, <3>3 DEF LineTo
    <3> QED
      BY <2>2, <3>2, <3>4
  <2> QED
    BY <2>3, <2>4
<1>4. CASE Parent[m] = NoNode
  BY <1>2, <1>3, <1>4
<1>5. CASE Parent[m] # NoNode
  <2>1. Parent[m] \in Node
    BY <1>5, NodeAssumption
  <2>2. /\ LineTo(Parent[m], Front(u)) /\ u = Append(Front(u), m)
        /\ LineTo(Parent[m], Front(v)) /\ v = Append(Front(v), m)
    BY <1>2, <1>3, <1>5
  <2>3. Front(u) = Front(v)
    BY <1>1, <2>1, <2>2
  <2>4. u = v
    BY <2>2, <2>3
  <2> QED
    BY <1>2, <2>4
<1> QED
  BY <1>4, <1>5

\* NamesTo is what its definition says: the walk over parent() ends.
LEMMA NamesToWalks ==
  ASSUME ParentsEnd
  PROVE  \A n \in Node :
           NamesTo[n] = IF Parent[n] = NoNode THEN <<>>
                        ELSE Append(NamesTo[Parent[n]], NameUpper[n])
<1> DEFINE Names(s) == [i \in 1..(Len(s) - 1) |-> NameUpper[s[i + 1]]]
           line(n) == CHOOSE s : LineTo(n, s)
           names == [n \in Node |-> Names(line(n))]
           Equation(f) ==
             f = [n \in Node |-> IF Parent[n] = NoNode THEN <<>>
                                 ELSE Append(f[Parent[n]], NameUpper[n])]
<1>1. \A n \in Node : LineTo(n, line(n))
  BY LineToEach
<1> HIDE DEF line
<1>2. ASSUME NEW n \in Node
      PROVE  names[n] = IF Parent[n] = NoNode THEN <<>>
                        ELSE Append(names[Parent[n]], NameUpper[n])
  <2>1. CASE Parent[n] = NoNode
    <3>1. line(n) = <<n>>
      BY <1>1, <2>1, LineToRoot, LineIsOne
    <3>2. Names(<<n>>) = <<>>
      OBVIOUS
    <3> QED
      BY <2>1, <3>1, <3>2
  <2>2. CASE Parent[n] # NoNode
    <3> DEFINE up == line(Parent[n])
    <3>0. Parent[n] \in Node
      BY <2>2, NodeAssumption
    <3>1. LineTo(Parent[n], up) /\ LineTo(n, Append(up, n)) /\ LineTo(n, line(n))
      BY <1>1, <2>2, <3>0, LineGoesOn
    <3>2. line(n) = Append(up, n)
      BY <3>1, LineIsOne
    <3>3. up \in Seq(Node) /\ Len(up) \in Nat /\ Len(up) >= 1
      BY <3>1 DEF LineTo, Descent
    <3>4. names[n] = Names(Append(up, n)) /\ names[Parent[n]] = Names(up)
      BY <3>0, <3>2
    <3> HIDE DEF up, names
    <3>5. Names(Append(up, n)) = Append(Names(up), NameUpper[n])
      <4>1. \A i \in 1..(Len(up) - 1) : up[i + 1] \in Node /\ NameUpper[up[i + 1]] \in Seq(Char)
        BY <3>3, NodeAssumption
      <4>2. Names(up) \in Seq(Seq(Char)) /\ Len(Names(up)) = Len(up) - 1
        BY <3>3, <4>1
      <4>3. NameUpper[n] \in Seq(Char)
        BY NodeAssumption
      <4>4. /\ Append(Names(up), NameUpper[n]) \in Seq(Seq(Char))
            /\ Len(Append(Names(up), NameUpper[n])) = Len(up)
            /\ \A i \in 1..(Len(up) - 1) :
                 Append(Names(up), NameUpper[n])[i] = NameUpper[up[i + 1]]
            /\ Append(Names(up), NameUpper[n])[Len(up)] = NameUpper[n]
        BY <3>3, <4>2, <4>3
      <4>5. Len(Append(up, n)) = Len(up) + 1 /\ Append(up, n)[Len(up) + 1] = n
            /\ \A i \in 1..Len(up) : Append(up, n)[i] = up[i]
        BY <3>3
      <4>6. /\ Names(Append(up, n)) = [i \in 1..Len(up) |-> NameUpper[Append(up, n)[i + 1]]]
            /\ \A i \in 1..Len(up) : Append(up, n)[i + 1] \in Node
        BY <3>3, <4>5
      <4>7. /\ Names(Append(up, n)) \in Seq(Seq(Char)) /\ Len(Names(Append(up, n))) = Len(up)
            /\ \A i \in 1..Len(up) : Names(Append(up, n))[i] = NameUpper[Append(up, n)[i + 1]]
        <5>1. \A i \in 1..Len(up) : NameUpper[Append(up, n)[i + 1]] \in Seq(Char)
          BY <4>6, NodeAssumption
        <5> QED
          BY <3>3, <4>6, <5>1
      <4>8. \A i \in 1..Len(up) : Names(Append(up, n))[i] = Append(Names(up), NameUpper[n])[i]
        <5> HIDE DEF Names
        <5> TAKE i \in 1..Len(up)
        <5>1. CASE i = Len(up)
          BY <3>3, <4>4, <4>5, <4>7, <5>1
        <5>2. CASE i # Len(up)
          <6>1. i \in 1..(Len(up) - 1) /\ i + 1 \in 1..Len(up)
            BY <3>3, <5>2
          <6>2. Append(up, n)[i + 1] = up[i + 1]
            BY <4>5, <6>1
          <6> QED
            BY <4>4, <4>7, <6>1, <6>2
        <5> QED
          BY <5>1, <5>2
      <4> HIDE DEF Names
      <4> QED
        BY <4>4, <4>7, <4>8, SeqEqual
    <3> QED
      BY <2>2, <3>4, <3>5
  <2> QED
    BY <2>1, <2>2
<1>3. Equation(names)
  <2>1. names = [n \in Node |-> names[n]]
    OBVIOUS
  <2> HIDE DEF names
  <2> QED
    BY <1>2, <2>1
<1>4. NamesTo = CHOOSE f : Equation(f)
  BY DEF NamesTo
<1>5. Equation(NamesTo)
  <2> HIDE DEF Equation, names
  <2> QED
    BY <1>3, <1>4
<1> QED
  BY <1>5

\* The names on the way are words.
LEMMA NamesToAreWords ==
  ASSUME ParentsEnd
  PROVE  \A n \in Node : NamesTo[n] \in Seq(Seq(Char))
<1> DEFINE odd == {n \in Node : NamesTo[n] \notin Seq(Seq(Char))}
<1> SUFFICES ASSUME odd # {} PROVE FALSE
  OBVIOUS
<1>1. PICK n \in odd : Parent[n] \notin odd
  BY DEF ParentsEnd
<1>2. Parent[n] # NoNode => Parent[n] \in Node /\ NamesTo[Parent[n]] \in Seq(Seq(Char))
  BY <1>1, NodeAssumption
<1>3. NameUpper[n] \in Seq(Char) /\ <<>> \in Seq(Seq(Char))
  BY NodeAssumption
<1>4. NamesTo[n] = IF Parent[n] = NoNode THEN <<>>
                   ELSE Append(NamesTo[Parent[n]], NameUpper[n])
  BY NamesToWalks
<1>5. Append(NamesTo[Parent[n]], NameUpper[n]) \in Seq(Seq(Char)) \/ Parent[n] = NoNode
  BY <1>2, <1>3
<1> QED
  BY <1>3, <1>4, <1>5

\* Words in the form that is stored and compared
Folded == {w \in Seq(Char) : ToAsciiUppercase(w) = w}

\* The names on the way are stored folded.
LEMMA NamesToAreFolded ==
  ASSUME ParentsEnd
  PROVE  \A n \in Node : NamesTo[n] \in Seq(Folded)
<1> DEFINE odd == {n \in Node : NamesTo[n] \notin Seq(Folded)}
<1> SUFFICES ASSUME odd # {} PROVE FALSE
  OBVIOUS
<1>1. PICK n \in odd : Parent[n] \notin odd
  BY DEF ParentsEnd
<1>2. Parent[n] # NoNode => Parent[n] \in Node /\ NamesTo[Parent[n]] \in Seq(Folded)
  BY <1>1, NodeAssumption
<1>3. NameUpper[n] \in Folded /\ <<>> \in Seq(Folded)
  BY NodeAssumption DEF Folded
<1>4. NamesTo[n] = IF Parent[n] = NoNode THEN <<>>
                   ELSE Append(NamesTo[Parent[n]], NameUpper[n])
  BY NamesToWalks
<1>5. Append(NamesTo[Parent[n]], NameUpper[n]) \in Seq(Folded) \/ Parent[n] = NoNode
  BY <1>2, <1>3
<1> QED
  BY <1>3, <1>4, <1>5
-----------------------------------------------------------------------------
(***************************************************************************)
(* The level-1 topics of several libraries                                 *)
(***************************************************************************)

\* Without libraries there are no topics.
LEMMA RootTopicsOfNone == RootTopics(<<>>) = <<>>
BY DEF RootTopics, FlattenSeq

\* A library more brings its topics after those of the others.
LEMMA RootTopicsGrow ==
  ASSUME NEW libs \in Seq(Node), NEW lib \in Node, RootTopics(libs) \in Seq(Node)
  PROVE  RootTopics(Append(libs, lib)) = RootTopics(libs) \o Children[lib]
<1> DEFINE tables(l) == [i \in DOMAIN l |-> Children[l[i]]]
           more == Append(libs, lib)
<1>1. /\ tables(libs) \in Seq(Seq(Node)) /\ Children[lib] \in Seq(Node)
      /\ Len(tables(libs)) = Len(libs)
  <2>1. \A i \in 1..Len(libs) : Children[libs[i]] \in Seq(Node)
    BY NodeAssumption
  <2>2. tables(libs) = [i \in 1..Len(libs) |-> Children[libs[i]]] /\ Len(libs) \in Nat
    OBVIOUS
  <2>3. Children[lib] \in Seq(Node)
    BY NodeAssumption
  <2> QED
    BY <2>1, <2>2, <2>3
<1>2. tables(more) = Append(tables(libs), Children[lib])
  <2>1. /\ more \in Seq(Node) /\ Len(more) = Len(libs) + 1 /\ Len(libs) \in Nat
        /\ \A i \in 1..Len(libs) : more[i] = libs[i]
        /\ more[Len(libs) + 1] = lib
    BY AppendProperties
  <2>2. \A i \in 1..(Len(libs) + 1) : Children[more[i]] \in Seq(Node)
    BY <2>1, NodeAssumption
  <2>3. /\ tables(more) \in Seq(Seq(Node)) /\ Len(tables(more)) = Len(libs) + 1
        /\ \A i \in 1..(Len(libs) + 1) : tables(more)[i] = Children[more[i]]
    BY <2>1, <2>2
  <2>4. /\ Append(tables(libs), Children[lib]) \in Seq(Seq(Node))
        /\ Len(Append(tables(libs), Children[lib])) = Len(libs) + 1
        /\ \A i \in 1..Len(libs) :
             Append(tables(libs), Children[lib])[i] = Children[libs[i]]
        /\ Append(tables(libs), Children[lib])[Len(libs) + 1] = Children[lib]
    BY <1>1
  <2> HIDE DEF tables, more
  <2>5. \A i \in 1..(Len(libs) + 1) :
          tables(more)[i] = Append(tables(libs), Children[lib])[i]
    <3> TAKE i \in 1..(Len(libs) + 1)
    <3>1. CASE i = Len(libs) + 1
      BY <2>1, <2>3, <2>4, <3>1
    <3>2. CASE i \in 1..Len(libs)
      <4>1. more[i] = libs[i]
        BY <2>1, <3>2
      <4>2. tables(more)[i] = Children[more[i]]
        BY <2>3
      <4> QED
        BY <2>4, <3>2, <4>1, <4>2
    <3>3. i = Len(libs) + 1 \/ i \in 1..Len(libs)
      BY <2>1
    <3> QED
      BY <3>1, <3>2, <3>3
  <2> QED
    BY <2>3, <2>4, <2>5, SeqEqual
<1>3. FlattenSeq(tables(libs)) \in Seq(Node)
  BY DEF RootTopics
<1> HIDE DEF tables
<1>4. FlattenSeq(tables(more)) = FlattenSeq(tables(libs)) \o Children[lib]
  BY <1>1, <1>2, <1>3, FlattenSeqStep
<1> QED
  BY <1>4 DEF RootTopics, tables

\* They are the children of the libraries' roots.
LEMMA RootTopicsAreChildren ==
  ASSUME NEW libs \in Seq(Node)
  PROVE  /\ RootTopics(libs) \in Seq(Node)
         /\ \A n : n \in ToSet(RootTopics(libs)) <=> n \in Node /\ Parent[n] \in ToSet(libs)
<1> DEFINE Good(l) ==
             /\ RootTopics(l) \in Seq(Node)
             /\ \A n : n \in ToSet(RootTopics(l)) <=> n \in Node /\ Parent[n] \in ToSet(l)
           T == {l \in Seq(Node) : Good(l)}
<1>1. <<>> \in T
  <2>1. <<>> \in Seq(Node) /\ ToSet(<<>>) = {}
    BY DEF ToSet
  <2>2. Good(<<>>)
    BY <2>1, RootTopicsOfNone
  <2> QED
    BY <2>1, <2>2
<1>2. ASSUME NEW l \in Seq(Node), NEW lib \in Node, l \in T
      PROVE  Append(l, lib) \in T
  <2> DEFINE s == RootTopics(l)
             t == Children[lib]
             more == Append(l, lib)
  <2>1. RootTopics(more) = s \o t
    BY <1>2, RootTopicsGrow
  <2>2. s \in Seq(Node) /\ t \in Seq(Node) /\ more \in Seq(Node)
    BY <1>2, NodeAssumption
  <2>3. ToSet(more) = ToSet(l) \cup {lib}
    <3>1. /\ DOMAIN more = 1..(Len(l) + 1) /\ DOMAIN l = 1..Len(l) /\ Len(l) \in Nat
          /\ \A i \in 1..Len(l) : more[i] = l[i]
          /\ more[Len(l) + 1] = lib
      BY AppendProperties
    <3>2. /\ \A i \in 1..Len(l) : i \in 1..(Len(l) + 1)
          /\ \A i \in 1..(Len(l) + 1) : i \in 1..Len(l) \/ i = Len(l) + 1
          /\ Len(l) + 1 \in 1..(Len(l) + 1)
      BY <3>1
    <3> QED
      BY <3>1, <3>2 DEF ToSet
  <2>4. \A n : n \in ToSet(t) <=> n \in Node /\ Parent[n] = lib
    BY <2>2, NodeAssumption DEF Kids, ToSet
  <2>5. \A n : n \in ToSet(s) <=> n \in Node /\ Parent[n] \in ToSet(l)
    BY <1>2
  <2> HIDE DEF s, t, more
  <2>6. s \o t \in Seq(Node) /\ ToSet(s \o t) = ToSet(s) \cup ToSet(t)
    BY <2>2, ConcatMembers
  <2>7. Good(more)
    BY <2>1, <2>3, <2>4, <2>5, <2>6
  <2> QED
    BY <2>2, <2>7 DEF more
<1> HIDE DEF T
<1>3. Seq(Node) \subseteq T
  BY <1>1, <1>2, InductionOnSeq
<1> QED
  BY <1>3 DEF T
-----------------------------------------------------------------------------
(***************************************************************************)
(* resolve(): a path of words below a node, or from the libraries          *)
(***************************************************************************)

\* What the loop of resolve() holds after each word of a path
Walk(f, root, path, mode) ==
  f = [d \in 0..Len(path) |->
        IF d = 0 THEN Found(root)
        ELSE ResolveWord(f[d - 1], path[d], d - 1, mode)]

\* One word more is one turn more of the loop.
LEMMA WalkStep ==
  ASSUME NEW root, NEW S, NEW path \in Seq(S), NEW mode, NEW f, NEW w \in S,
         Walk(f, root, path, mode)
  PROVE  \E g : /\ Walk(g, root, Append(path, w), mode)
                /\ g[Len(path)] = f[Len(path)]
                /\ g[Len(path) + 1] = ResolveWord(f[Len(path)], w, Len(path), mode)
<1> DEFINE n == Len(path)
           q == Append(path, w)
           g == [d \in 0..(n + 1) |->
                  IF d = n + 1 THEN ResolveWord(f[n], w, n, mode) ELSE f[d]]
<1>1. n \in Nat /\ Len(q) = n + 1 /\ q[n + 1] = w /\ \A d \in 1..n : q[d] = path[d]
  OBVIOUS
<1>2. \A d \in 0..n : f[d] = IF d = 0 THEN Found(root)
                             ELSE ResolveWord(f[d - 1], path[d], d - 1, mode)
  BY DEF Walk
<1> HIDE DEF n, q
<1>3. \A d \in 0..(n + 1) : g[d] = IF d = 0 THEN Found(root)
                                   ELSE ResolveWord(g[d - 1], q[d], d - 1, mode)
  <2> TAKE d \in 0..(n + 1)
  <2>1. CASE d = n + 1
    BY <1>1, <2>1
  <2>2. CASE d # n + 1
    BY <1>1, <1>2, <2>2
  <2> QED
    BY <2>1, <2>2
<1>4. Walk(g, root, q, mode)
  BY <1>1, <1>3 DEF Walk
<1>5. g[n] = f[n] /\ g[n + 1] = ResolveWord(f[n], w, n, mode)
  BY <1>1
<1> QED
  BY <1>4, <1>5 DEF n, q

\* So the loop holds something after every path,
LEMMA WalkExists ==
  ASSUME NEW root, NEW S, NEW path \in Seq(S), NEW mode
  PROVE  \E f : Walk(f, root, path, mode)
<1> DEFINE T == {p \in Seq(S) : \E f : Walk(f, root, p, mode)}
<1>1. <<>> \in T
  <2> DEFINE f == [d \in {0} |-> Found(root)]
  <2>0. <<>> \in Seq(S) /\ Len(<<>>) = 0 /\ 0..0 = {0}
    BY EmptySeq
  <2>1. Walk(f, root, <<>>, mode)
    BY <2>0 DEF Walk
  <2> QED
    BY <2>0, <2>1
<1>2. ASSUME NEW p \in Seq(S), NEW w \in S, p \in T
      PROVE  Append(p, w) \in T
  BY <1>2, WalkStep
<1> HIDE DEF T
<1>3. Seq(S) \subseteq T
  BY <1>1, <1>2, InductionOnSeq
<1> QED
  BY <1>3 DEF T

\* and one thing only.
LEMMA WalkUnique ==
  ASSUME NEW root, NEW S, NEW path \in Seq(S), NEW mode, NEW f, NEW g,
         Walk(f, root, path, mode), Walk(g, root, path, mode)
  PROVE  f = g
<1> DEFINE n == Len(path)
           same == {k \in Nat : k <= n => f[k] = g[k]}
<1>0. n \in Nat
  OBVIOUS
<1>1. \A d \in 0..n :
        /\ f[d] = IF d = 0 THEN Found(root) ELSE ResolveWord(f[d - 1], path[d], d - 1, mode)
        /\ g[d] = IF d = 0 THEN Found(root) ELSE ResolveWord(g[d - 1], path[d], d - 1, mode)
  BY DEF Walk
<1>2. f = [d \in 0..n |-> f[d]] /\ g = [d \in 0..n |-> g[d]]
  BY DEF Walk
<1> HIDE DEF n
<1>3. 0 \in same
  <2>1. 0 \in 0..n
    BY <1>0
  <2>2. f[0] = g[0]
    BY <1>1, <2>1
  <2> QED
    BY <2>2
<1>6. ASSUME NEW k \in Nat, k \in same
      PROVE  k + 1 \in same
  <2>1. CASE k + 1 <= n
    <3>1. k + 1 \in 0..n /\ k + 1 # 0 /\ (k + 1) - 1 = k /\ f[k] = g[k]
      BY <1>0, <1>6, <2>1
    <3>2. /\ f[k + 1] = ResolveWord(f[k], path[k + 1], k, mode)
          /\ g[k + 1] = ResolveWord(g[k], path[k + 1], k, mode)
      BY <1>1, <3>1
    <3>3. f[k + 1] = g[k + 1]
      BY <3>1, <3>2
    <3> QED
      BY <3>3
  <2>2. CASE ~ (k + 1 <= n)
    BY <2>2
  <2> QED
    BY <2>1, <2>2
<1>4. Nat \subseteq same
  <2> HIDE DEF same
  <2> QED
    BY <1>3, <1>6, InductionOnNat
<1>5. \A d \in 0..n : f[d] = g[d]
  BY <1>0, <1>4
<1> QED
  BY <1>2, <1>5

\* It is what Resolve takes its value from.
LEMMA ResolveIsWalk ==
  ASSUME NEW root, NEW S, NEW path \in Seq(S), NEW mode
  PROVE  \E f : Walk(f, root, path, mode) /\ Resolve(root, path, mode) = f[Len(path)]
<1> DEFINE from == CHOOSE f : Walk(f, root, path, mode)
<1>1. Resolve(root, path, mode) = from[Len(path)]
  BY DEF Resolve, Walk
<1>2. Walk(from, root, path, mode)
  BY WalkExists
<1> QED
  BY <1>1, <1>2

\* resolve() of no words finds the node it starts from.
LEMMA ResolveEmpty ==
  ASSUME NEW root, NEW mode
  PROVE  Resolve(root, <<>>, mode) = Found(root)
<1>1. <<>> \in Seq({}) /\ Len(<<>>) = 0
  BY EmptySeq
<1>2. PICK f : Walk(f, root, <<>>, mode) /\ Resolve(root, <<>>, mode) = f[Len(<<>>)]
  BY <1>1, ResolveIsWalk
<1> QED
  BY <1>1, <1>2 DEF Walk

\* resolve() of one word more is one turn of its loop more.
LEMMA ResolveStep ==
  ASSUME NEW root, NEW S, NEW path \in Seq(S), NEW w \in S, NEW mode
  PROVE  Resolve(root, Append(path, w), mode)
           = ResolveWord(Resolve(root, path, mode), w, Len(path), mode)
<1>1. PICK f : Walk(f, root, path, mode) /\ Resolve(root, path, mode) = f[Len(path)]
  BY ResolveIsWalk
<1>2. PICK g : /\ Walk(g, root, Append(path, w), mode)
               /\ g[Len(path) + 1] = ResolveWord(f[Len(path)], w, Len(path), mode)
  BY <1>1, WalkStep
<1>3. Append(path, w) \in Seq(S) /\ Len(Append(path, w)) = Len(path) + 1
  OBVIOUS
<1>4. PICK h : /\ Walk(h, root, Append(path, w), mode)
               /\ Resolve(root, Append(path, w), mode) = h[Len(Append(path, w))]
  BY <1>3, ResolveIsWalk
<1>5. g = h
  BY <1>2, <1>3, <1>4, WalkUnique
<1> QED
  BY <1>1, <1>2, <1>3, <1>4, <1>5

\* A failure at the word after d others
FailsAt(r, d) == \E S : r = AmbiguousAt(d, S) \/ r = NotFoundAt(d, S)

\* A failure is no find, and has one depth.
LEMMA FailureIsNoFind ==
  /\ \A n : Found(n).kind = "Found" /\ Found(n).node = n
  /\ \A r, d : FailsAt(r, d) => r.kind # "Found"
  /\ \A r, d, e : FailsAt(r, d) /\ FailsAt(r, e) => d = e
<1>1. \A d, S : /\ AmbiguousAt(d, S).kind # "Found" /\ AmbiguousAt(d, S).depth = d
               /\ NotFoundAt(d, S).kind # "Found" /\ NotFoundAt(d, S).depth = d
  BY DEF AmbiguousAt, NotFoundAt
<1>2. \A n : Found(n).kind = "Found" /\ Found(n).node = n
  BY DEF Found
<1> QED
  BY <1>1, <1>2 DEF FailsAt

\* What a path resolves to: one of the nodes, or a failure at one of its words
Outcome(r, nodes, len) ==
  \/ \E n \in nodes : r = Found(n)
  \/ \E d \in 0..(len - 1) : FailsAt(r, d)

\* The libraries, and everything in them that has a name
Roots == {n \in Node : Parent[n] = NoNode}
Topics == Node \ Roots

\* A turn of the loop finds a child, the first of its name, or fails at this word.
LEMMA ResolveWordOutcome ==
  ASSUME NEW m \in Node, NEW word \in Seq(Char), NEW depth, NEW mode
  PROVE  \/ \E n \in Node : /\ ResolveWord(Found(m), word, depth, mode) = Found(n)
                            /\ Parent[n] = m /\ NameUpper[n] # <<>>
                            /\ FirstOfName(Children[m], n)
         \/ FailsAt(ResolveWord(Found(m), word, depth, mode), depth)
<1> DEFINE r == Lookup(m, word, mode)
<1>1. Found(m).kind = "Found" /\ Found(m).node = m /\ Children[m] \in Seq(Node)
  BY NodeAssumption DEF Found
<1>2. CASE r.kind = "Found"
  <2>1. PICK n \in Node : /\ r = Found(n) /\ FirstOfName(Children[m], n)
                          /\ NameUpper[n] # <<>>
    BY <1>1, <1>2, LookupInFindsFirst DEF Lookup
  <2>2. Parent[n] = m
    BY <2>1, NodeAssumption DEF FirstOfName, Kids
  <2>3. ResolveWord(Found(m), word, depth, mode) = Found(n)
    BY <1>1, <1>2, <2>1 DEF ResolveWord
  <2> QED
    BY <2>1, <2>2, <2>3
<1>3. CASE r.kind # "Found"
  BY <1>1, <1>3 DEF ResolveWord, FailsAt
<1> QED
  BY <1>2, <1>3

\* What was found or has failed is taken on by the next turn.
LEMMA OutcomeGoesOn ==
  ASSUME NEW before, NEW len \in Nat, Outcome(before, Node, len),
         NEW word \in Seq(Char), NEW mode
  PROVE  Outcome(ResolveWord(before, word, len, mode), Topics, len + 1)
<1> DEFINE after == ResolveWord(before, word, len, mode)
<1>1. CASE \E m \in Node : before = Found(m)
  <2>1. PICK m \in Node : before = Found(m)
    BY <1>1
  <2>2. \/ \E n \in Node : after = Found(n) /\ Parent[n] = m
        \/ FailsAt(after, len)
    BY <2>1, ResolveWordOutcome
  <2> HIDE DEF after
  <2>3. CASE FailsAt(after, len)
    <3>1. len \in 0..((len + 1) - 1)
      OBVIOUS
    <3> QED
      BY <2>3, <3>1 DEF Outcome, after
  <2>4. CASE \E n \in Node : after = Found(n) /\ Parent[n] = m
    BY <2>4, NodeAssumption DEF Outcome, Topics, Roots, after
  <2> QED
    BY <2>2, <2>3, <2>4
<1>2. CASE \E d \in 0..(len - 1) : FailsAt(before, d)
  <2>1. PICK d \in 0..(len - 1) : FailsAt(before, d)
    BY <1>2
  <2>2. after = before
    BY <2>1, FailureIsNoFind DEF ResolveWord
  <2>3. d \in 0..((len + 1) - 1)
    OBVIOUS
  <2> QED
    BY <2>1, <2>2, <2>3 DEF Outcome
<1> QED
  BY <1>1, <1>2 DEF Outcome

\* The first word finds a level-1 topic, the first of its name, or fails.
LEMMA LibResolveFirst ==
  ASSUME NEW libs \in Seq(Roots), NEW word \in Seq(Char), NEW mode
  PROVE  \/ \E n \in Node : /\ LibResolve(libs, <<word>>, mode) = Found(n)
                            /\ Parent[n] \in Roots /\ NameUpper[n] # <<>>
                            /\ FirstOfName(RootTopics(libs), n)
         \/ FailsAt(LibResolve(libs, <<word>>, mode), 0)
<1> DEFINE r == LookupRoot(libs, word, mode)
<1>0. libs \in Seq(Node)
  BY DEF Roots
<1>1. <<word>> # <<>> /\ Head(<<word>>) = word /\ Tail(<<word>>) = <<>>
  OBVIOUS
<1>2. CASE r.kind = "Found"
  <2>1. RootTopics(libs) \in Seq(Node)
    BY <1>0, RootTopicsAreChildren
  <2>2. PICK n \in Node : /\ r = Found(n) /\ FirstOfName(RootTopics(libs), n)
                          /\ NameUpper[n] # <<>>
    BY <1>2, <2>1, LookupInFindsFirst DEF LookupRoot
  <2>3. Parent[n] \in Roots
    <3>1. Parent[n] \in ToSet(libs)
      BY <1>0, <2>2, RootTopicsAreChildren DEF FirstOfName
    <3> QED
      BY <3>1 DEF ToSet
  <2>4. LibResolve(libs, <<word>>, mode) = AdjustDepth(Resolve(n, <<>>, mode), 1)
    BY <1>1, <1>2, <2>2 DEF LibResolve, Found
  <2>5. LibResolve(libs, <<word>>, mode) = Found(n)
    BY <2>4, ResolveEmpty DEF AdjustDepth, Found
  <2> QED
    BY <2>2, <2>3, <2>5
<1>3. CASE r.kind # "Found"
  BY <1>1, <1>3 DEF LibResolve, FailsAt
<1> QED
  BY <1>2, <1>3

\* A path below a node finds a node or fails at one of its words.
LEMMA ResolveOutcome ==
  ASSUME NEW root \in Node, NEW path \in Seq(Seq(Char)), NEW mode
  PROVE  Outcome(Resolve(root, path, mode), Node, Len(path))
<1> DEFINE T == {p \in Seq(Seq(Char)) : Outcome(Resolve(root, p, mode), Node, Len(p))}
<1>1. <<>> \in T
  BY ResolveEmpty DEF Outcome
<1>2. ASSUME NEW p \in Seq(Seq(Char)), NEW w \in Seq(Char), p \in T
      PROVE  Append(p, w) \in T
  <2>1. /\ Resolve(root, Append(p, w), mode) = ResolveWord(Resolve(root, p, mode), w, Len(p), mode)
        /\ Append(p, w) \in Seq(Seq(Char)) /\ Len(Append(p, w)) = Len(p) + 1 /\ Len(p) \in Nat
    BY ResolveStep
  <2>2. Outcome(Resolve(root, Append(p, w), mode), Topics, Len(p) + 1)
    BY <1>2, <2>1, OutcomeGoesOn
  <2>3. Outcome(Resolve(root, Append(p, w), mode), Node, Len(p) + 1)
    BY <2>2 DEF Outcome, Topics
  <2> QED
    BY <2>1, <2>3
<1> HIDE DEF T
<1>3. Seq(Seq(Char)) \subseteq T
  BY <1>1, <1>2, InductionOnSeq
<1> QED
  BY <1>3 DEF T

\* adjust_depth() moves a failure on by the first word.
LEMMA AdjustedDepth ==
  ASSUME NEW d \in Nat, NEW S
  PROVE  /\ AdjustDepth(AmbiguousAt(d, S), 1) = AmbiguousAt(d + 1, S)
         /\ AdjustDepth(NotFoundAt(d, S), 1) = NotFoundAt(d + 1, S)
<1>1. /\ AmbiguousAt(d, S).kind # "Found" /\ NotFoundAt(d, S).kind # "Found"
      /\ AmbiguousAt(d, S).depth = d /\ NotFoundAt(d, S).depth = d
  BY DEF AmbiguousAt, NotFoundAt
<1>2. /\ AdjustDepth(AmbiguousAt(d, S), 1) = [AmbiguousAt(d, S) EXCEPT !.depth = d + 1]
      /\ AdjustDepth(NotFoundAt(d, S), 1) = [NotFoundAt(d, S) EXCEPT !.depth = d + 1]
  BY <1>1 DEF AdjustDepth
<1> QED
  BY <1>2 DEF AmbiguousAt, NotFoundAt

\* From several libraries, too, one word more is one turn of the loop more.
LEMMA LibResolveStep ==
  ASSUME NEW libs \in Seq(Roots), NEW path \in Seq(Seq(Char)), path # <<>>,
         NEW word \in Seq(Char), NEW mode
  PROVE  LibResolve(libs, Append(path, word), mode)
           = ResolveWord(LibResolve(libs, path, mode), word, Len(path), mode)
<1> DEFINE r == LookupRoot(libs, Head(path), mode)
           q == Append(path, word)
<1>1. /\ q # <<>> /\ Head(q) = Head(path) /\ Tail(q) = Append(Tail(path), word)
      /\ Tail(path) \in Seq(Seq(Char)) /\ Len(Tail(path)) + 1 = Len(path)
      /\ Head(path) \in Seq(Char)
  <2>1. Head(q) = Head(path) /\ Tail(q) = Append(Tail(path), word)
    BY HeadTailAppend
  <2>2. /\ Tail(path) \in Seq(Seq(Char)) /\ Len(Tail(path)) = Len(path) - 1
        /\ Head(path) \in Seq(Char)
    BY HeadTailProperties
  <2>3. q # <<>>
    BY AppendProperties
  <2>4. Len(path) \in Nat
    OBVIOUS
  <2> HIDE DEF q
  <2> QED
    BY <2>1, <2>2, <2>3, <2>4
<1>2. CASE r.kind = "Found"
  <2>1. PICK n \in Node : r = Found(n)
    <3>1. RootTopics(libs) \in Seq(Node)
      BY RootTopicsAreChildren DEF Roots
    <3> QED
      BY <1>1, <1>2, <3>1, LookupInFindsFirst DEF LookupRoot
  <2> DEFINE below == Resolve(n, Tail(path), mode)
  <2>2. /\ LibResolve(libs, path, mode) = AdjustDepth(below, 1)
        /\ LibResolve(libs, q, mode) = AdjustDepth(Resolve(n, Tail(q), mode), 1)
    BY <1>1, <1>2, <2>1 DEF LibResolve, Found
  <2>3. Resolve(n, Tail(q), mode) = ResolveWord(below, word, Len(Tail(path)), mode)
    <3>0. Tail(path) \in Seq(Seq(Char))
      BY <1>1
    <3>1. Resolve(n, Append(Tail(path), word), mode)
            = ResolveWord(below, word, Len(Tail(path)), mode)
      BY <3>0, ResolveStep
    <3> QED
      BY <1>1, <3>1
  <2>4. Outcome(below, Node, Len(Tail(path)))
    BY <1>1, ResolveOutcome
  <2>5. Len(Tail(path)) \in Nat
    BY <1>1
  <2> HIDE DEF below
  <2>6. CASE \E m \in Node : below = Found(m)
    <3>1. PICK m \in Node : below = Found(m)
      BY <2>6
    <3>2. AdjustDepth(below, 1) = below
      BY <3>1 DEF AdjustDepth, Found
    <3>3. AdjustDepth(ResolveWord(below, word, Len(Tail(path)), mode), 1)
            = ResolveWord(below, word, Len(path), mode)
      <4> DEFINE next == Lookup(m, word, mode)
                 len == Len(Tail(path))
      <4>0. Found(m).kind = "Found" /\ Found(m).node = m /\ len \in Nat /\ len + 1 = Len(path)
        BY <1>1, <2>5 DEF Found
      <4>1. CASE next.kind = "Found"
        BY <3>1, <4>0, <4>1 DEF ResolveWord, AdjustDepth
      <4>2. CASE next.kind = "Ambiguous"
        <5>1. /\ ResolveWord(below, word, len, mode) = AmbiguousAt(len, next.nodes)
              /\ ResolveWord(below, word, len + 1, mode) = AmbiguousAt(len + 1, next.nodes)
          BY <3>1, <4>0, <4>2 DEF ResolveWord
        <5> QED
          BY <4>0, <5>1, AdjustedDepth
      <4>3. CASE next.kind # "Found" /\ next.kind # "Ambiguous"
        <5>1. /\ ResolveWord(below, word, len, mode) = NotFoundAt(len, Kids(m))
              /\ ResolveWord(below, word, len + 1, mode) = NotFoundAt(len + 1, Kids(m))
          BY <3>1, <4>0, <4>3 DEF ResolveWord
        <5> QED
          BY <4>0, <5>1, AdjustedDepth
      <4> QED
        BY <4>1, <4>2, <4>3
    <3> QED
      BY <2>2, <2>3, <3>2, <3>3 DEF q
  <2>7. CASE \E d \in 0..(Len(Tail(path)) - 1) : FailsAt(below, d)
    <3>0. PICK d \in Nat : FailsAt(below, d)
      BY <2>5, <2>7
    <3>1. /\ ResolveWord(below, word, Len(Tail(path)), mode) = below
          /\ AdjustDepth(below, 1).kind # "Found"
      <4>1. FailsAt(AdjustDepth(below, 1), d + 1)
        BY <3>0, AdjustedDepth DEF FailsAt
      <4> QED
        BY <3>0, <4>1, FailureIsNoFind DEF ResolveWord
    <3>2. ResolveWord(AdjustDepth(below, 1), word, Len(path), mode) = AdjustDepth(below, 1)
      BY <3>1 DEF ResolveWord
    <3> QED
      BY <2>2, <2>3, <3>1, <3>2 DEF q
  <2> QED
    BY <2>4, <2>6, <2>7 DEF Outcome
<1>3. CASE r.kind # "Found"
  <2>1. LibResolve(libs, q, mode) = LibResolve(libs, path, mode)
    BY <1>1, <1>3 DEF LibResolve
  <2>2. LibResolve(libs, path, mode).kind # "Found"
    BY <1>3 DEF LibResolve, AmbiguousAt, NotFoundAt
  <2> QED
    BY <2>1, <2>2 DEF ResolveWord, q
<1> QED
  BY <1>2, <1>3

\* A path from the libraries finds a topic or fails at one of its words.
LEMMA LibResolveOutcome ==
  ASSUME NEW libs \in Seq(Roots), NEW path \in Seq(Seq(Char)), path # <<>>, NEW mode
  PROVE  Outcome(LibResolve(libs, path, mode), Topics, Len(path))
<1> DEFINE Good(p) == Outcome(LibResolve(libs, p, mode), Topics, Len(p))
           T == {p \in Seq(Seq(Char)) : p # <<>> => Good(p)}
<1>1. <<>> \in T
  OBVIOUS
<1>2. ASSUME NEW p \in Seq(Seq(Char)), NEW w \in Seq(Char), p \in T
      PROVE  Append(p, w) \in T
  <2>0. Append(p, w) \in Seq(Seq(Char)) /\ Len(Append(p, w)) = Len(p) + 1 /\ Len(p) \in Nat
    BY AppendProperties
  <2>1. CASE p = <<>>
    <3>1. Append(p, w) = <<w>> /\ Len(<<w>>) = 1 /\ 0 \in 0..(1 - 1)
      BY <2>1
    <3>2. \/ \E n \in Node : LibResolve(libs, <<w>>, mode) = Found(n) /\ Parent[n] \in Roots
          \/ FailsAt(LibResolve(libs, <<w>>, mode), 0)
      BY LibResolveFirst
    <3>3. Good(<<w>>)
      BY <3>1, <3>2, NodeAssumption DEF Outcome, Topics, Roots
    <3> QED
      BY <2>0, <3>1, <3>3
  <2>2. CASE p # <<>>
    <3>1. LibResolve(libs, Append(p, w), mode)
            = ResolveWord(LibResolve(libs, p, mode), w, Len(p), mode)
      BY <2>2, LibResolveStep
    <3>2. Outcome(LibResolve(libs, p, mode), Node, Len(p))
      BY <1>2, <2>2 DEF Outcome, Topics
    <3> QED
      BY <2>0, <3>1, <3>2, OutcomeGoesOn
  <2> QED
    BY <2>1, <2>2
<1> HIDE DEF T
<1>3. Seq(Seq(Char)) \subseteq T
  BY <1>1, <1>2, InductionOnSeq
<1> QED
  BY <1>3 DEF T

\* n is where one word more than path may lead to.
Within(libs, path, mode, n) ==
  IF path = <<>>
  THEN Parent[n] \in Roots /\ FirstOfName(RootTopics(libs), n)
  ELSE /\ Parent[n] \in Node /\ LibResolve(libs, path, mode) = Found(Parent[n])
       /\ FirstOfName(Children[Parent[n]], n)

\* With one word more it finds a topic within what was found before, fails at
\* this word, or has failed before it.
LEMMA LibResolveWord ==
  ASSUME NEW libs \in Seq(Roots), NEW path \in Seq(Seq(Char)), NEW word \in Seq(Char),
         NEW mode
  PROVE  LET r == LibResolve(libs, Append(path, word), mode)
         IN  \/ \E n \in Node : /\ r = Found(n) /\ NameUpper[n] # <<>>
                                /\ Within(libs, path, mode, n)
             \/ FailsAt(r, Len(path))
             \/ /\ path # <<>> /\ r = LibResolve(libs, path, mode)
                /\ \E d \in 0..(Len(path) - 1) : FailsAt(r, d)
<1> DEFINE r == LibResolve(libs, Append(path, word), mode)
<1>1. CASE path = <<>>
  <2>1. Append(path, word) = <<word>> /\ Len(path) = 0
    BY <1>1
  <2>2. \/ \E n \in Node : /\ r = Found(n) /\ Parent[n] \in Roots /\ NameUpper[n] # <<>>
                           /\ FirstOfName(RootTopics(libs), n)
        \/ FailsAt(r, Len(path))
    BY <2>1, LibResolveFirst
  <2> QED
    BY <1>1, <2>2 DEF Within
<1>2. CASE path # <<>>
  <2> DEFINE before == LibResolve(libs, path, mode)
  <2>1. r = ResolveWord(before, word, Len(path), mode)
    BY <1>2, LibResolveStep
  <2>2. \/ \E n \in Node : before = Found(n)
        \/ \E d \in 0..(Len(path) - 1) : FailsAt(before, d)
    BY <1>2, LibResolveOutcome DEF Outcome, Topics
  <2> HIDE DEF before, r
  <2>3. CASE \E m \in Node : before = Found(m)
    <3>1. PICK m \in Node : before = Found(m)
      BY <2>3
    <3>2. \/ \E n \in Node : /\ r = Found(n) /\ Parent[n] = m /\ NameUpper[n] # <<>>
                             /\ FirstOfName(Children[m], n)
          \/ FailsAt(r, Len(path))
      BY <2>1, <3>1, ResolveWordOutcome
    <3> QED
      BY <1>2, <3>1, <3>2 DEF Within, before, r
  <2>4. CASE \E d \in 0..(Len(path) - 1) : FailsAt(before, d)
    <3>1. r = before
      BY <2>1, <2>4, FailureIsNoFind DEF ResolveWord
    <3> QED
      BY <1>2, <2>4, <3>1 DEF before, r
  <2> QED
    BY <2>2, <2>3, <2>4
<1> QED
  BY <1>1, <1>2

\* What is found with one word more is within what was found before.
LEMMA FoundWithin ==
  ASSUME NEW libs \in Seq(Roots), NEW path \in Seq(Seq(Char)), NEW word \in Seq(Char),
         NEW mode, LibResolve(libs, Append(path, word), mode).kind = "Found"
  PROVE  \E n \in Topics : /\ LibResolve(libs, Append(path, word), mode) = Found(n)
                           /\ NameUpper[n] # <<>> /\ Within(libs, path, mode, n)
<1> DEFINE r == LibResolve(libs, Append(path, word), mode)
<1>1. \A d : ~ FailsAt(r, d)
  BY FailureIsNoFind
<1>2. \E n \in Node : r = Found(n) /\ NameUpper[n] # <<>> /\ Within(libs, path, mode, n)
  BY <1>1, LibResolveWord
<1> HIDE DEF r
<1>3. \A n \in Node : Within(libs, path, mode, n) => n \in Topics
  BY NodeAssumption DEF Within, Topics, Roots
<1> QED
  BY <1>2, <1>3 DEF r

\* Where a word has led to, the name of the topic leads again.
LEMMA OwnNameLeadsBack ==
  ASSUME NEW libs \in Seq(Roots), NEW path \in Seq(Seq(Char)), NEW mode, NEW n \in Node,
         Within(libs, path, mode, n), NameUpper[n] # <<>>, ~ IsWildcard(NameUpper[n])
  PROVE  LibResolve(libs, Append(path, NameUpper[n]), mode) = Found(n)
<1> DEFINE name == NameUpper[n]
<1>0. name \in Seq(Char)
  BY NodeAssumption
<1>1. CASE path = <<>>
  <2>1. RootTopics(libs) \in Seq(Node)
    BY RootTopicsAreChildren DEF Roots
  <2>2. LookupRoot(libs, name, mode) = Found(n)
    BY <1>1, <2>1, OwnNameFinds DEF Within, LookupRoot
  <2>3. /\ Append(path, name) = <<name>> /\ <<name>> # <<>>
        /\ Head(<<name>>) = name /\ Tail(<<name>>) = <<>>
    BY <1>1
  <2>4. LibResolve(libs, <<name>>, mode) = AdjustDepth(Resolve(n, <<>>, mode), 1)
    BY <2>2, <2>3 DEF LibResolve, Found
  <2> QED
    BY <2>3, <2>4, ResolveEmpty DEF AdjustDepth, Found
<1>2. CASE path # <<>>
  <2>1. /\ Parent[n] \in Node /\ LibResolve(libs, path, mode) = Found(Parent[n])
        /\ FirstOfName(Children[Parent[n]], n)
    BY <1>2 DEF Within
  <2>2. Lookup(Parent[n], name, mode) = Found(n)
    <3>1. Children[Parent[n]] \in Seq(Node)
      BY <2>1, NodeAssumption
    <3> QED
      BY <2>1, <3>1, OwnNameFinds DEF Lookup
  <2>3. ResolveWord(Found(Parent[n]), name, Len(path), mode) = Found(n)
    BY <2>2 DEF ResolveWord, Found
  <2> QED
    BY <1>0, <1>2, <2>1, <2>3, LibResolveStep
<1> QED
  BY <1>1, <1>2

\* No name is a pattern.
Plain(names) == \A i \in DOMAIN names : ~ IsWildcard(names[i])

\* A path holds no pattern when neither its front nor its last word does.
LEMMA PlainAppend ==
  ASSUME NEW s \in Seq(Seq(Char)), NEW w \in Seq(Char)
  PROVE  Plain(Append(s, w)) <=> Plain(s) /\ ~ IsWildcard(w)
<1>1. /\ DOMAIN Append(s, w) = 1..(Len(s) + 1) /\ DOMAIN s = 1..Len(s) /\ Len(s) \in Nat
      /\ \A i \in 1..Len(s) : Append(s, w)[i] = s[i]
      /\ Append(s, w)[Len(s) + 1] = w
  OBVIOUS
<1>2. /\ \A i \in 1..Len(s) : i \in 1..(Len(s) + 1)
      /\ \A i \in 1..(Len(s) + 1) : i \in 1..Len(s) \/ i = Len(s) + 1
      /\ Len(s) + 1 \in 1..(Len(s) + 1)
  BY <1>1
<1> QED
  BY <1>1, <1>2 DEF Plain

\* A pattern finds nothing, so a path that finds a topic holds none.
LEMMA FoundIsPlain ==
  ASSUME NEW libs \in Seq(Roots), NEW path \in Seq(Folded), path # <<>>, NEW mode,
         LibResolve(libs, path, mode).kind = "Found"
  PROVE  Plain(path)
<1> DEFINE Finds(p) == LibResolve(libs, p, mode).kind = "Found"
           T == {p \in Seq(Folded) : p # <<>> /\ Finds(p) => Plain(p)}
<1>1. <<>> \in T
  OBVIOUS
<1>2. ASSUME NEW p \in Seq(Folded), NEW w \in Folded, p \in T
      PROVE  Append(p, w) \in T
  <2>1. Append(p, w) \in Seq(Folded)
    OBVIOUS
  <2>2. SUFFICES ASSUME Finds(Append(p, w))
                 PROVE  Plain(Append(p, w))
    BY <2>1
  <2>3. p \in Seq(Seq(Char)) /\ w \in Seq(Char) /\ ToAsciiUppercase(w) = w
    BY DEF Folded
  <2>4. \A list, which : LookupIn(list, which, w, mode).kind = "Found" => ~ IsWildcard(w)
    BY <2>3 DEF LookupIn, NotFound, Ambiguous
  <2>5. CASE p = <<>>
    <3>1. Append(p, w) = <<w>> /\ <<w>> # <<>> /\ Head(<<w>>) = w
      BY <2>5
    <3>2. LookupRoot(libs, w, mode).kind = "Found"
      BY <2>2, <3>1 DEF LibResolve, AmbiguousAt, NotFoundAt
    <3>3. ~ IsWildcard(w)
      BY <2>4, <3>2 DEF LookupRoot
    <3>4. Plain(p)
      BY <2>5 DEF Plain
    <3> QED
      BY <2>3, <3>3, <3>4, PlainAppend
  <2>6. CASE p # <<>>
    <3> DEFINE before == LibResolve(libs, p, mode)
    <3>1. LibResolve(libs, Append(p, w), mode) = ResolveWord(before, w, Len(p), mode)
      BY <2>3, <2>6, LibResolveStep
    <3> HIDE DEF before
    <3>2. ResolveWord(before, w, Len(p), mode).kind = "Found"
      BY <2>2, <3>1
    <3>3. before.kind = "Found" /\ Lookup(before.node, w, mode).kind = "Found"
      BY <3>2 DEF ResolveWord, AmbiguousAt, NotFoundAt
    <3>4. ~ IsWildcard(w)
      BY <2>4, <3>3 DEF Lookup
    <3>5. Plain(p)
      BY <1>2, <2>6, <3>3 DEF before
    <3> QED
      BY <2>3, <3>4, <3>5, PlainAppend
  <2> QED
    BY <2>5, <2>6
<1> HIDE DEF T
<1>3. Seq(Folded) \subseteq T
  BY <1>1, <1>2, InductionOnSeq
<1> QED
  BY <1>3 DEF T

\* The names above a topic that was found lead to where it is, if they lead to
\* the topic above it.
LEMMA WithinByNames ==
  ASSUME ParentsEnd, NEW libs \in Seq(Roots), NEW path \in Seq(Seq(Char)), NEW mode,
         NEW other, NEW n \in Node, Within(libs, path, mode, n),
         path # <<>> => LibResolve(libs, NamesTo[Parent[n]], other) = Found(Parent[n])
  PROVE  Within(libs, NamesTo[Parent[n]], other, n)
<1>1. CASE path = <<>>
  <2>1. NamesTo[Parent[n]] = <<>>
    BY <1>1, NamesToWalks DEF Within, Roots
  <2> QED
    BY <1>1, <2>1 DEF Within
<1>2. CASE path # <<>>
  <2>1. LibResolve(libs, path, mode) = Found(Parent[n]) /\ Parent[n] \in Node
    BY <1>2 DEF Within
  <2>2. Parent[n] \in Topics
    <3>1. Outcome(Found(Parent[n]), Topics, Len(path))
      BY <1>2, <2>1, LibResolveOutcome
    <3>2. /\ \A d : ~ FailsAt(Found(Parent[n]), d)
          /\ \A t : Found(t) = Found(Parent[n]) => t = Parent[n]
      BY FailureIsNoFind
    <3> QED
      BY <3>1, <3>2 DEF Outcome
  <2>3. Parent[Parent[n]] \in Node /\ Parent[Parent[n]] # NoNode
    BY <2>2, NodeAssumption DEF Topics, Roots
  <2>4. NamesTo[Parent[n]] # <<>>
    <3>1. /\ NamesTo[Parent[n]] = Append(NamesTo[Parent[Parent[n]]], NameUpper[Parent[n]])
          /\ NamesTo[Parent[Parent[n]]] \in Seq(Seq(Char))
          /\ NameUpper[Parent[n]] \in Seq(Char)
      BY <2>1, <2>3, NamesToWalks, NamesToAreWords, NodeAssumption
    <3> QED
      BY <3>1, AppendIsNotEmpty
  <2> QED
    BY <1>2, <2>1, <2>4 DEF Within
<1> QED
  BY <1>1, <1>2

\* The names on the way to a topic that was found lead to it, in either mode.
THEOREM FoundIsAddressable ==
  ASSUME ParentsEnd, NEW libs \in Seq(Roots), NEW path \in Seq(Seq(Char)), path # <<>>,
         NEW mode, NEW n \in Node, LibResolve(libs, path, mode) = Found(n),
         Plain(NamesTo[n])
  PROVE  \A other : LibResolve(libs, NamesTo[n], other) = Found(n)
<1> SUFFICES ASSUME NEW other PROVE LibResolve(libs, NamesTo[n], other) = Found(n)
  OBVIOUS
<1> DEFINE Good(p) ==
             \A m \in Node : LibResolve(libs, p, mode) = Found(m) /\ Plain(NamesTo[m]) =>
               LibResolve(libs, NamesTo[m], other) = Found(m)
           T == {p \in Seq(Seq(Char)) : p # <<>> => Good(p)}
<1>1. <<>> \in T
  OBVIOUS
<1>2. ASSUME NEW p \in Seq(Seq(Char)), NEW w \in Seq(Char), p \in T
      PROVE  Append(p, w) \in T
  <2>1. SUFFICES ASSUME NEW m \in Node, LibResolve(libs, Append(p, w), mode) = Found(m),
                        Plain(NamesTo[m])
                 PROVE  LibResolve(libs, NamesTo[m], other) = Found(m)
    OBVIOUS
  <2>2. NameUpper[m] # <<>> /\ Within(libs, p, mode, m)
    <3>1. /\ LibResolve(libs, Append(p, w), mode).kind = "Found"
          /\ LibResolve(libs, Append(p, w), mode).node = m
      BY <2>1, FailureIsNoFind
    <3> QED
      BY <3>1, FoundWithin, FailureIsNoFind
  <2>3. Parent[m] \in Node /\ Parent[m] # NoNode
    BY <2>2, NodeAssumption DEF Within, Roots
  <2>4. NamesTo[m] = Append(NamesTo[Parent[m]], NameUpper[m])
    BY <2>3, NamesToWalks
  <2>5. /\ NamesTo[Parent[m]] \in Seq(Seq(Char)) /\ NameUpper[m] \in Seq(Char)
    BY <2>3, NamesToAreWords, NodeAssumption
  <2>6. Plain(NamesTo[Parent[m]]) /\ ~ IsWildcard(NameUpper[m])
    BY <2>1, <2>4, <2>5, PlainAppend
  <2>7. p # <<>> => LibResolve(libs, NamesTo[Parent[m]], other) = Found(Parent[m])
    BY <1>2, <2>2, <2>3, <2>6 DEF Within
  <2>8. Within(libs, NamesTo[Parent[m]], other, m)
    BY <2>2, <2>7, WithinByNames
  <2> QED
    BY <2>2, <2>4, <2>5, <2>6, <2>8, OwnNameLeadsBack
<1> HIDE DEF T
<1>3. Seq(Seq(Char)) \subseteq T
  BY <1>1, <1>2, InductionOnSeq
<1> QED
  BY <1>3 DEF T
=============================================================================
