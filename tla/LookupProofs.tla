---------------------------- MODULE LookupProofs ----------------------------
(***************************************************************************)
(* What is promised by those who look topics up with the engine: the sets  *)
(* of libraries, for any libraries and paths, and the navigators, for any  *)
(* library and lines.                                                      *)
(***************************************************************************)
EXTENDS LibrarySet, Navigator, EngineProofs, FiniteSetTheorems


(***************************************************************************)
(* The inductive invariant: the answer is the one the set gives.  The set  *)
(* cannot grow while an answer is borrowed, so it stays that.              *)
(***************************************************************************)
Answered ==
  /\ libs \in Seq(Library)
  /\ answer # NoAnswer =>
       /\ answer.kind = "Answer" /\ answer.path \in Path /\ answer.mode \in MatchMode
       /\ answer.result = LibResolve(libs, answer.path, answer.mode)

\* It holds from the start and every call keeps it.
LEMMA AnsweredInv == SetSpec => []Answered
<1>1. SetInit => Answered
  BY EmptySeq DEF SetInit, Answered
<1>2. Answered /\ [SetNext]_setVars => Answered'
  <2> SUFFICES ASSUME Answered, [SetNext]_setVars PROVE Answered'
    OBVIOUS
  <2>1. ASSUME NEW lib \in Library, Add(lib) PROVE Answered'
    BY <2>1 DEF Answered, Add
  <2>2. ASSUME NEW path \in Path, NEW mode \in MatchMode, Ask(path, mode)
        PROVE  Answered'
    BY <2>2 DEF Answered, Ask
  <2>3. CASE Drop
    BY <2>3 DEF Answered, Drop
  <2>4. CASE UNCHANGED setVars
    BY <2>4 DEF Answered, setVars
  <2> QED
    BY <2>1, <2>2, <2>3, <2>4 DEF SetNext
<1> QED
  BY <1>1, <1>2, PTL DEF SetSpec

\* What was asked is a path of words, put to a set of libraries.
LEMMA AskedIsAnswered ==
  ASSUME Answered, Asked
  PROVE  /\ libs \in Seq(Roots)
         /\ answer.path \in Seq(Seq(Char)) /\ answer.path # <<>>
         /\ answer.mode \in MatchMode
         /\ answer.result = LibResolve(libs, answer.path, answer.mode)
<1>1. Library \subseteq Roots
  BY LibraryAssumption DEF Roots
<1>2. libs \in Seq(Roots)
  BY <1>1 DEF Answered
<1>3. answer # NoAnswer
  BY DEF Asked, NoAnswer
<1> QED
  BY <1>2, <1>3, LibraryAssumption DEF Answered, Asked

\* The names from the root down to a topic that was found lead back to it, in
\* either mode: about the nodes that resolve() returns and the names in their
\* records.
THEOREM FoundLeadsBack == SetSpec => []FoundTopicsAreAddressable
<1>1. Answered => FoundTopicsAreAddressable
  <2> DEFINE n == answer.result.node
  <2> SUFFICES ASSUME Answered, Asked, answer.result.kind = "Found", Plain(NamesTo[n])
               PROVE  \A mode \in MatchMode : LibResolve(libs, NamesTo[n], mode) = answer.result
    BY DEF FoundTopicsAreAddressable, Plain
  <2>1. /\ libs \in Seq(Roots) /\ answer.path \in Seq(Seq(Char)) /\ answer.path # <<>>
        /\ answer.result = LibResolve(libs, answer.path, answer.mode)
    BY AskedIsAnswered
  <2>2. PICK m \in Topics : answer.result = Found(m)
    BY <2>1, LibResolveOutcome, FailureIsNoFind DEF Outcome
  <2>3. n = m /\ m \in Node
    BY <2>2, FailureIsNoFind DEF Topics
  <2> HIDE DEF n
  <2>4. \A mode : LibResolve(libs, NamesTo[m], mode) = Found(m)
    <3>1. ParentsEnd /\ Plain(NamesTo[m])
      BY <2>3, LibraryAssumption
    <3>2. LibResolve(libs, answer.path, answer.mode) = Found(m)
      BY <2>1, <2>2
    <3> QED
      BY <2>1, <2>3, <3>1, <3>2, FoundIsAddressable
  <2> QED
    BY <2>2, <2>3, <2>4
<1> QED
  BY <1>1, AnsweredInv, PTL

\* The first k words of a path stay the first when a word is added, and all of
\* its words are the path.
LEMMA FirstWords ==
  ASSUME NEW S, NEW s \in Seq(S), NEW w \in S
  PROVE  /\ \A k \in 0..Len(s) : SubSeq(Append(s, w), 1, k) = SubSeq(s, 1, k)
         /\ SubSeq(Append(s, w), 1, Len(s) + 1) = Append(s, w)
         /\ SubSeq(s, 1, Len(s)) = s
<1> DEFINE q == Append(s, w)
<1>1. /\ q \in Seq(S) /\ Len(q) = Len(s) + 1 /\ Len(s) \in Nat
      /\ \A i \in 1..Len(s) : q[i] = s[i]
  OBVIOUS
<1> HIDE DEF q
<1>2. ASSUME NEW t \in Seq(S) PROVE SubSeq(t, 1, Len(t)) = t
  <2>1. Len(t) \in 0..Len(t)
    OBVIOUS
  <2>2. /\ SubSeq(t, 1, Len(t)) \in Seq(S) /\ Len(SubSeq(t, 1, Len(t))) = Len(t)
        /\ \A i \in 1..Len(t) : SubSeq(t, 1, Len(t))[i] = t[i]
    BY <2>1, PrefixProperties
  <2> QED
    BY <2>2, SeqEqual
<1>3. ASSUME NEW k \in 0..Len(s) PROVE SubSeq(q, 1, k) = SubSeq(s, 1, k)
  <2> DEFINE a == SubSeq(q, 1, k)
             b == SubSeq(s, 1, k)
  <2>1. k \in 0..Len(q) /\ \A i \in 1..k : i \in 1..Len(s)
    BY <1>1
  <2>2. /\ a \in Seq(S) /\ Len(a) = k /\ \A i \in 1..k : a[i] = q[i]
        /\ b \in Seq(S) /\ Len(b) = k /\ \A i \in 1..k : b[i] = s[i]
    BY <1>1, <2>1, PrefixProperties
  <2>3. \A i \in 1..k : a[i] = b[i]
    BY <1>1, <2>1, <2>2
  <2> HIDE DEF a, b
  <2>4. a = b
    BY <2>2, <2>3, SeqEqual
  <2> QED
    BY <2>4 DEF a, b
<1> QED
  BY <1>1, <1>2, <1>3 DEF q

\* What a failure at the word after d others says
FailsFirst(l, path, mode, d) ==
  LET r == LibResolve(l, path, mode)
  IN  /\ FailsAt(r, d) /\ d < Len(path)
      /\ d > 0 => LibResolve(l, SubSeq(path, 1, d), mode).kind = "Found"
      /\ LibResolve(l, SubSeq(path, 1, d + 1), mode) = r

\* A path that finds no topic fails at one of its words, the first that does.
LEMMA FailsAtItsFirst ==
  ASSUME NEW l \in Seq(Roots), NEW path \in Seq(Seq(Char)), path # <<>>, NEW mode,
         LibResolve(l, path, mode).kind # "Found"
  PROVE  \E d \in Nat : FailsFirst(l, path, mode, d)
<1> DEFINE Finds(p) == LibResolve(l, p, mode).kind = "Found"
           Good(p) == Finds(p) \/ \E d \in Nat : FailsFirst(l, p, mode, d)
           T == {p \in Seq(Seq(Char)) : p # <<>> => Good(p)}
<1>1. <<>> \in T
  BY EmptySeq
<1>2. ASSUME NEW p \in Seq(Seq(Char)), NEW w \in Seq(Char), p \in T
      PROVE  Append(p, w) \in T
  <2> DEFINE q == Append(p, w)
             n == Len(p)
             r == LibResolve(l, q, mode)
  <2>1. /\ q \in Seq(Seq(Char)) /\ Len(q) = n + 1 /\ n \in Nat
        /\ SubSeq(q, 1, n + 1) = q /\ SubSeq(q, 1, n) = p
        /\ \A k \in 0..n : SubSeq(q, 1, k) = SubSeq(p, 1, k)
    BY FirstWords
  <2>2. SUFFICES ASSUME ~ Finds(q) PROVE \E d \in Nat : FailsFirst(l, q, mode, d)
    BY <2>1
  <2>3. CASE FailsAt(r, n)
    <3>1. ASSUME n > 0, ~ Finds(p) PROVE FALSE
      <4>1. p # <<>>
        BY <3>1
      <4>2. r = ResolveWord(LibResolve(l, p, mode), w, n, mode)
        BY <4>1, LibResolveStep
      <4>3. r = LibResolve(l, p, mode)
        BY <3>1, <4>2 DEF ResolveWord
      <4>4. \E d \in 0..(n - 1) : FailsAt(LibResolve(l, p, mode), d)
        BY <3>1, <4>1, LibResolveOutcome, FailureIsNoFind DEF Outcome
      <4> QED
        BY <2>1, <2>3, <4>3, <4>4, FailureIsNoFind
    <3> HIDE DEF q, n
    <3>2. n > 0 => LibResolve(l, SubSeq(q, 1, n), mode).kind = "Found"
      BY <2>1, <3>1
    <3>3. n < Len(q) /\ SubSeq(q, 1, n + 1) = q
      BY <2>1
    <3>4. FailsFirst(l, q, mode, n)
      BY <2>3, <3>2, <3>3 DEF FailsFirst
    <3> QED
      BY <2>1, <3>4 DEF q
  <2>4. CASE p # <<>> /\ r = LibResolve(l, p, mode)
    <3>1. PICK d \in Nat : FailsFirst(l, p, mode, d)
      BY <1>2, <2>2, <2>4
    <3>2. /\ d \in 0..n /\ d + 1 \in 0..n /\ d < n + 1
      BY <2>1, <3>1 DEF FailsFirst
    <3>3. SubSeq(q, 1, d) = SubSeq(p, 1, d) /\ SubSeq(q, 1, d + 1) = SubSeq(p, 1, d + 1)
      BY <2>1, <3>2
    <3>4. FailsFirst(l, q, mode, d)
      BY <2>1, <2>4, <3>1, <3>2, <3>3 DEF FailsFirst
    <3> QED
      BY <3>4 DEF q
  <2>5. \/ FailsAt(r, n)
        \/ p # <<>> /\ r = LibResolve(l, p, mode)
    BY <2>2, LibResolveWord, FailureIsNoFind
  <2> QED
    BY <2>3, <2>4, <2>5
<1> HIDE DEF T
<1>3. Seq(Seq(Char)) \subseteq T
  BY <1>1, <1>2, InductionOnSeq
<1> QED
  BY <1>3 DEF T

\* A failure is reported at the first word that fails, counted from the start of
\* the path: about the depth that adjust_depth() corrects.
THEOREM FailureIsAtFirstWord == SetSpec => []DepthIsOfFirstFailure
<1>1. Answered => DepthIsOfFirstFailure
  <2> DEFINE r == answer.result
  <2> SUFFICES ASSUME Answered, Asked, r.kind # "Found"
               PROVE  LET d == r.depth
                      IN  /\ d < Len(answer.path)
                          /\ d > 0 => LibResolve(libs, SubSeq(answer.path, 1, d),
                                                 answer.mode).kind = "Found"
                          /\ LibResolve(libs, SubSeq(answer.path, 1, d + 1), answer.mode) = r
    BY DEF DepthIsOfFirstFailure
  <2>1. /\ libs \in Seq(Roots) /\ answer.path \in Seq(Seq(Char)) /\ answer.path # <<>>
        /\ answer.result = LibResolve(libs, answer.path, answer.mode)
    BY AskedIsAnswered
  <2>2. PICK d \in Nat : FailsFirst(libs, answer.path, answer.mode, d)
    BY <2>1, FailsAtItsFirst
  <2>3. FailsAt(r, d)
    BY <2>1, <2>2 DEF FailsFirst
  <2>4. r.depth = d
    BY <2>3 DEF FailsAt, AmbiguousAt, NotFoundAt
  <2> QED
    BY <2>1, <2>2, <2>4 DEF FailsFirst
<1> QED
  BY <1>1, AnsweredInv, PTL
-----------------------------------------------------------------------------
(***************************************************************************)
(* Which topics the set offers: the merged tree                            *)
(***************************************************************************)

\* No entry before the k-th has the name of n.
NoneBefore(list, k, n) == \A m \in 1..(k - 1) : NameUpper[list[m]] # NameUpper[n]

\* The first of a name in a list, without the least of a set of positions
LEMMA FirstOfNameIs ==
  ASSUME NEW list \in Seq(Node), NEW n \in Node
  PROVE  FirstOfName(list, n) <=>
           \E k \in DOMAIN list : list[k] = n /\ NoneBefore(list, k, n)
<1> DEFINE same == Equal(list, NameUpper[n])
<1>1. DOMAIN list = 1..Len(list) /\ Len(list) \in Nat
  OBVIOUS
<1>2. same \in SUBSET Nat /\ \A k : k \in same <=> k \in 1..Len(list) /\ NameUpper[list[k]] = NameUpper[n]
  BY <1>1 DEF Equal
<1> HIDE DEF same
<1>3. ASSUME FirstOfName(list, n)
      PROVE  \E k \in DOMAIN list : list[k] = n /\ NoneBefore(list, k, n)
  <2>1. list[Min(same)] = n /\ \E k \in 1..Len(list) : list[k] = n
    BY <1>1, <1>3 DEF FirstOfName, ToSet, same
  <2>2. same # {}
    BY <1>2, <2>1
  <2>3. Min(same) \in same /\ \A k \in same : Min(same) <= k
    BY <1>2, <2>2, MinIsMember
  <2> DEFINE k == Min(same)
  <2>4. k \in 1..Len(list)
    BY <1>2, <2>3
  <2> HIDE DEF k
  <2>5. \A m \in 1..(k - 1) : m \in 1..Len(list) /\ ~ (k <= m)
    BY <1>1, <2>4
  <2>6. NoneBefore(list, k, n)
    BY <1>2, <2>3, <2>5 DEF NoneBefore, k
  <2> QED
    BY <1>1, <2>1, <2>4, <2>6 DEF k
<1>4. ASSUME NEW k \in DOMAIN list, list[k] = n, NoneBefore(list, k, n)
      PROVE  FirstOfName(list, n)
  <2>1. k \in same
    BY <1>1, <1>2, <1>4
  <2>2. Min(same) \in same /\ Min(same) <= k
    BY <1>2, <2>1, MinIsMember
  <2>3. Min(same) \in Nat /\ k \in Nat /\ Min(same) >= 1
    BY <1>2, <2>1, <2>2
  <2>4. Min(same) \notin 1..(k - 1)
    BY <1>2, <1>4, <2>2 DEF NoneBefore
  <2>5. Min(same) = k
    BY <2>2, <2>3, <2>4
  <2> QED
    BY <1>1, <1>4, <2>5 DEF FirstOfName, ToSet, same
<1> QED
  BY <1>3, <1>4

\* In two lists put together, the first of a name is the first in the first list,
\* or in the second when the first has no such name.
LEMMA FirstOfNameInBoth ==
  ASSUME NEW s \in Seq(Node), NEW t \in Seq(Node), NEW n \in Node
  PROVE  FirstOfName(s \o t, n) <=>
           \/ FirstOfName(s, n)
           \/ FirstOfName(t, n) /\ \A c \in ToSet(s) : NameUpper[c] # NameUpper[n]
<1> DEFINE st == s \o t
<1>1. /\ st \in Seq(Node) /\ DOMAIN st = 1..(Len(s) + Len(t))
      /\ DOMAIN s = 1..Len(s) /\ DOMAIN t = 1..Len(t) /\ Len(s) \in Nat /\ Len(t) \in Nat
      /\ \A k \in 1..Len(s) : k \in 1..(Len(s) + Len(t)) /\ st[k] = s[k]
      /\ \A k \in 1..Len(t) : k + Len(s) \in 1..(Len(s) + Len(t)) /\ st[k + Len(s)] = t[k]
  <2>1. /\ st \in Seq(Node) /\ Len(st) = Len(s) + Len(t)
        /\ \A k \in 1..(Len(s) + Len(t)) :
             st[k] = IF k <= Len(s) THEN s[k] ELSE t[k - Len(s)]
        /\ Len(s) \in Nat /\ Len(t) \in Nat
    BY ConcatProperties
  <2>2. \A k \in 1..Len(t) : /\ k + Len(s) \in 1..(Len(s) + Len(t)) /\ ~ (k + Len(s) <= Len(s))
                             /\ (k + Len(s)) - Len(s) = k
    BY <2>1
  <2>3. DOMAIN s = 1..Len(s) /\ DOMAIN t = 1..Len(t)
    OBVIOUS
  <2> HIDE DEF st
  <2>4. \A k \in 1..Len(t) : st[k + Len(s)] = t[k]
    BY <2>1, <2>2
  <2>5. DOMAIN st = 1..(Len(s) + Len(t))
    BY <2>1
  <2>6. \A k \in 1..Len(s) : k \in 1..(Len(s) + Len(t)) /\ st[k] = s[k]
    BY <2>1
  <2> QED
    BY <2>1, <2>2, <2>3, <2>4, <2>5, <2>6
<1> HIDE DEF st
<1>2. \A c \in ToSet(s) : \E m \in 1..Len(s) : s[m] = c
  BY <1>1 DEF ToSet
<1>3. \A m \in 1..Len(s) : s[m] \in ToSet(s)
  BY <1>1 DEF ToSet
<1>4. ASSUME NEW k \in 1..Len(s), s[k] = n, NoneBefore(s, k, n)
      PROVE  FirstOfName(st, n)
  <2>1. \A m \in 1..(k - 1) : m \in 1..Len(s)
    BY <1>1
  <2>2. NoneBefore(st, k, n)
    BY <1>1, <1>4, <2>1 DEF NoneBefore
  <2> QED
    BY <1>1, <1>4, <2>2, FirstOfNameIs
<1>5. ASSUME NEW k \in 1..Len(t), t[k] = n, NoneBefore(t, k, n),
             \A c \in ToSet(s) : NameUpper[c] # NameUpper[n]
      PROVE  FirstOfName(st, n)
  <2> DEFINE i == k + Len(s)
  <2>1. i \in 1..(Len(s) + Len(t)) /\ st[i] = n
    BY <1>1, <1>5
  <2>2. ASSUME NEW m \in 1..(i - 1) PROVE NameUpper[st[m]] # NameUpper[n]
    <3>1. CASE m \in 1..Len(s)
      BY <1>1, <1>3, <1>5, <3>1
    <3>2. CASE m - Len(s) \in 1..(k - 1)
      <4>1. m - Len(s) \in 1..Len(t) /\ (m - Len(s)) + Len(s) = m
        BY <1>1, <3>2
      <4>2. st[m] = t[m - Len(s)]
        BY <1>1, <4>1
      <4> QED
        BY <1>5, <3>2, <4>2 DEF NoneBefore
    <3> QED
      BY <1>1, <3>1, <3>2
  <2> HIDE DEF i
  <2>3. NoneBefore(st, i, n)
    BY <2>2 DEF NoneBefore
  <2> QED
    BY <1>1, <2>1, <2>3, FirstOfNameIs
<1>6. ASSUME NEW k \in 1..(Len(s) + Len(t)), st[k] = n, NoneBefore(st, k, n)
      PROVE  \/ FirstOfName(s, n)
             \/ FirstOfName(t, n) /\ \A c \in ToSet(s) : NameUpper[c] # NameUpper[n]
  <2>1. CASE k \in 1..Len(s)
    <3>1. \A m \in 1..(k - 1) : m \in 1..Len(s)
      BY <1>1, <2>1
    <3>2. NoneBefore(s, k, n)
      BY <1>1, <1>6, <2>1, <3>1 DEF NoneBefore
    <3> QED
      BY <1>1, <1>6, <2>1, <3>2, FirstOfNameIs
  <2>2. CASE k - Len(s) \in 1..Len(t)
    <3> DEFINE i == k - Len(s)
    <3>1. i \in 1..Len(t) /\ i + Len(s) = k /\ t[i] = n
      BY <1>1, <1>6, <2>2
    <3>2. \A m \in 1..Len(s) : m \in 1..(k - 1)
      BY <1>1, <2>2
    <3>3. \A c \in ToSet(s) : NameUpper[c] # NameUpper[n]
      BY <1>1, <1>2, <1>6, <3>2 DEF NoneBefore
    <3>4. \A m \in 1..(i - 1) : m \in 1..Len(t) /\ m + Len(s) \in 1..(k - 1)
      BY <1>1, <3>1
    <3> HIDE DEF i
    <3>5. NoneBefore(t, i, n)
      BY <1>1, <1>6, <3>4 DEF NoneBefore
    <3> QED
      BY <1>1, <3>1, <3>3, <3>5, FirstOfNameIs
  <2> QED
    BY <1>1, <2>1, <2>2
<1>7. FirstOfName(st, n) => \E k \in 1..(Len(s) + Len(t)) : st[k] = n /\ NoneBefore(st, k, n)
  BY <1>1, FirstOfNameIs
<1>8. FirstOfName(s, n) => \E k \in 1..Len(s) : s[k] = n /\ NoneBefore(s, k, n)
  BY <1>1, FirstOfNameIs
<1>9. FirstOfName(t, n) => \E k \in 1..Len(t) : t[k] = n /\ NoneBefore(t, k, n)
  BY <1>1, FirstOfNameIs
<1> QED
  BY <1>4, <1>5, <1>6, <1>7, <1>8, <1>9 DEF st

\* The merged tree of these libraries
OwnersOf(l) ==
  {n \in Node : \E i \in DOMAIN l : \E k \in DOMAIN Children[l[i]] :
     /\ Children[l[i]][k] = n
     /\ \A j \in 1..(i - 1) : \A c \in Kids(l[j]) : NameUpper[c] # NameUpper[n]
     /\ NoneBefore(Children[l[i]], k, n)}

\* That of the set is of its libraries, before and after a step.
LEMMA OwnersAreOf == Owners = OwnersOf(libs) /\ Owners' = OwnersOf(libs')
BY DEF Owners, OwnersOf, NoneBefore

\* A library more adds the topics whose names the others do not have.
LEMMA OwnersGrow ==
  ASSUME NEW l \in Seq(Node), NEW lib \in Node, NEW n \in Node
  PROVE  n \in OwnersOf(Append(l, lib)) <=>
           \/ n \in OwnersOf(l)
           \/ /\ FirstOfName(Children[lib], n)
              /\ \A j \in DOMAIN l : \A c \in Kids(l[j]) : NameUpper[c] # NameUpper[n]
<1> DEFINE more == Append(l, lib)
           Free(r, i) == \A j \in 1..(i - 1) : \A c \in Kids(r[j]) : NameUpper[c] # NameUpper[n]
           First(p) == \E k \in DOMAIN Children[p] : /\ Children[p][k] = n
                                                     /\ NoneBefore(Children[p], k, n)
<1>1. /\ DOMAIN more = 1..(Len(l) + 1) /\ DOMAIN l = 1..Len(l) /\ Len(l) \in Nat
      /\ \A i \in 1..Len(l) : more[i] = l[i]
      /\ more[Len(l) + 1] = lib
  BY AppendProperties
<1>2. /\ n \in OwnersOf(more) <=> \E i \in DOMAIN more : First(more[i]) /\ Free(more, i)
      /\ n \in OwnersOf(l) <=> \E i \in DOMAIN l : First(l[i]) /\ Free(l, i)
  BY DEF OwnersOf
<1>3. First(lib) <=> FirstOfName(Children[lib], n)
  BY NodeAssumption, FirstOfNameIs
<1> HIDE DEF more, First
<1>4. /\ \A i \in 1..Len(l) : i \in 1..(Len(l) + 1) /\ \A j \in 1..(i - 1) : j \in 1..Len(l)
      /\ \A i \in 1..(Len(l) + 1) : i \in 1..Len(l) \/ i = Len(l) + 1
      /\ Len(l) + 1 \in 1..(Len(l) + 1) /\ 1..((Len(l) + 1) - 1) = 1..Len(l)
  BY <1>1
<1>5. \A i \in 1..Len(l) : Free(more, i) <=> Free(l, i)
  BY <1>1, <1>4
<1>6. Free(more, Len(l) + 1) <=>
        \A j \in DOMAIN l : \A c \in Kids(l[j]) : NameUpper[c] # NameUpper[n]
  BY <1>1, <1>4
<1> HIDE DEF Free
<1> QED
  BY <1>1, <1>2, <1>3, <1>4, <1>5, <1>6 DEF more

\* The merged tree holds of every name the first there is in the tables of the
\* libraries, one after the other: what lookup_root() searches.
LEMMA OwnersAreFirst ==
  ASSUME NEW l \in Seq(Node)
  PROVE  \A n \in Node : n \in OwnersOf(l) <=> FirstOfName(RootTopics(l), n)
<1> DEFINE T == {p \in Seq(Node) : \A n \in Node :
                   n \in OwnersOf(p) <=> FirstOfName(RootTopics(p), n)}
<1>1. <<>> \in T
  <2>1. <<>> \in Seq(Node) /\ DOMAIN <<>> = {}
    BY EmptySeq
  <2>2. \A n \in Node : n \notin OwnersOf(<<>>)
    BY <2>1 DEF OwnersOf
  <2>3. \A n : ~ FirstOfName(<<>>, n)
    BY <2>1 DEF FirstOfName, ToSet
  <2> QED
    BY <2>1, <2>2, <2>3, RootTopicsOfNone
<1>2. ASSUME NEW p \in Seq(Node), NEW lib \in Node, p \in T
      PROVE  Append(p, lib) \in T
  <2>1. /\ RootTopics(p) \in Seq(Node) /\ Children[lib] \in Seq(Node)
        /\ \A c : c \in ToSet(RootTopics(p)) <=> c \in Node /\ Parent[c] \in ToSet(p)
    BY RootTopicsAreChildren, NodeAssumption
  <2>2. RootTopics(Append(p, lib)) = RootTopics(p) \o Children[lib]
    BY <2>1, RootTopicsGrow
  <2>3. ASSUME NEW n \in Node
        PROVE  (\A j \in DOMAIN p : \A c \in Kids(p[j]) : NameUpper[c] # NameUpper[n]) <=>
                 \A c \in ToSet(RootTopics(p)) : NameUpper[c] # NameUpper[n]
    <3>1. /\ \A j \in DOMAIN p : p[j] \in ToSet(p) /\ p[j] \in Node
          /\ \A q \in ToSet(p) : \E j \in DOMAIN p : q = p[j]
      BY DEF ToSet
    <3>2. \A j \in DOMAIN p : \A c : c \in Kids(p[j]) <=> c \in Node /\ Parent[c] = p[j]
      <4>1. \A q \in Node : \A c : c \in Kids(q) => c \in Node
        <5>1. \A q \in Node : Children[q] \in Seq(Node)
          BY NodeAssumption
        <5> QED
          BY <5>1 DEF Kids, ToSet
      <4>2. \A q \in Node : \A c \in Node : c \in Kids(q) <=> Parent[c] = q
        BY NodeAssumption
      <4> QED
        BY <3>1, <4>1, <4>2
    <3>3. ASSUME NEW j \in DOMAIN p, NEW c \in Kids(p[j]) PROVE c \in ToSet(RootTopics(p))
      BY <2>1, <3>1, <3>2
    <3>4. ASSUME NEW c \in ToSet(RootTopics(p)) PROVE \E j \in DOMAIN p : c \in Kids(p[j])
      BY <2>1, <3>1, <3>2
    <3> QED
      BY <3>3, <3>4
  <2>4. ASSUME NEW n \in Node
        PROVE  n \in OwnersOf(Append(p, lib)) <=> FirstOfName(RootTopics(Append(p, lib)), n)
    <3>1. FirstOfName(RootTopics(p) \o Children[lib], n) <=>
            \/ FirstOfName(RootTopics(p), n)
            \/ /\ FirstOfName(Children[lib], n)
               /\ \A c \in ToSet(RootTopics(p)) : NameUpper[c] # NameUpper[n]
      BY <2>1, FirstOfNameInBoth
    <3>2. n \in OwnersOf(p) <=> FirstOfName(RootTopics(p), n)
      BY <1>2
    <3>3. n \in OwnersOf(Append(p, lib)) <=>
            \/ n \in OwnersOf(p)
            \/ /\ FirstOfName(Children[lib], n)
               /\ \A j \in DOMAIN p : \A c \in Kids(p[j]) : NameUpper[c] # NameUpper[n]
      BY OwnersGrow
    <3> QED
      BY <2>2, <2>3, <3>1, <3>2, <3>3
  <2>5. Append(p, lib) \in Seq(Node)
    OBVIOUS
  <2> QED
    BY <2>4, <2>5
<1> HIDE DEF T
<1>3. Seq(Node) \subseteq T
  BY <1>1, <1>2, InductionOnSeq
<1> QED
  BY <1>3 DEF T

\* Adding a library never changes which topic a full name leads to: about the
\* order of the three search loops of lookup_root().
THEOREM EarlierLibrariesFirst == SetSpec => EarlierLibrariesKeepTheirNames
<1> DEFINE Kept(n) ==
             n \in Owners' /\
               (NameUpper[n] = <<>> \/ IsWildcard(NameUpper[n]) \/
                  LibResolve(libs', <<NameUpper[n]>>, Exact) = Found(n))
<1>1. ASSUME Answered, [SetNext]_setVars, NEW n \in Owners, libs' \in Seq(Library)
      PROVE  Kept(n)
  <2>1. n \in Node /\ n \in OwnersOf(libs)
    BY <1>1, OwnersAreOf DEF OwnersOf
  <2>2. Library \subseteq Roots /\ Library \subseteq Node
    BY LibraryAssumption DEF Roots
  <2>3. libs \in Seq(Node) /\ libs' \in Seq(Node) /\ libs' \in Seq(Roots)
    BY <1>1, <2>2 DEF Answered
  <2>4. n \in OwnersOf(libs')
    <3>1. ASSUME NEW lib \in Library, Add(lib) PROVE n \in OwnersOf(libs')
      BY <2>1, <2>2, <2>3, <3>1, OwnersGrow DEF Add
    <3>2. libs' = libs \/ \E lib \in Library : Add(lib)
      BY <1>1 DEF SetNext, Ask, Drop, setVars
    <3> QED
      BY <2>1, <3>1, <3>2
  <2>5. FirstOfName(RootTopics(libs'), n)
    BY <2>1, <2>3, <2>4, OwnersAreFirst
  <2>6. Parent[n] \in Roots
    <3>1. n \in ToSet(RootTopics(libs'))
      BY <2>5 DEF FirstOfName
    <3>2. Parent[n] \in ToSet(libs')
      BY <2>3, <3>1, RootTopicsAreChildren
    <3> QED
      BY <2>3, <3>2 DEF ToSet
  <2>7. ASSUME NameUpper[n] # <<>>, ~ IsWildcard(NameUpper[n])
        PROVE  LibResolve(libs', <<NameUpper[n]>>, Exact) = Found(n)
    <3>1. Within(libs', <<>>, Exact, n)
      BY <2>5, <2>6 DEF Within
    <3>2. Append(<<>>, NameUpper[n]) = <<NameUpper[n]>>
      OBVIOUS
    <3> DEFINE none == <<>>
    <3>3. none \in Seq(Seq(Char)) /\ Within(libs', none, Exact, n)
      BY <3>1
    <3> HIDE DEF none
    <3>4. LibResolve(libs', Append(none, NameUpper[n]), Exact) = Found(n)
      BY <2>1, <2>3, <2>7, <3>3, OwnNameLeadsBack
    <3> QED
      BY <3>2, <3>4 DEF none
  <2> QED
    BY <2>4, <2>7, OwnersAreOf
<1>2. Answered' => libs' \in Seq(Library)
  BY DEF Answered
<1>3. Answered /\ Answered' /\ [SetNext]_setVars => [\A n \in Owners : Kept(n)]_setVars
  BY <1>1, <1>2
<1> QED
  BY <1>3, AnsweredInv, PTL DEF SetSpec, EarlierLibrariesKeepTheirNames
-----------------------------------------------------------------------------
(***************************************************************************)
(* Patterns: the recursion over a pattern finds whether there is a cut     *)
(***************************************************************************)

\* The body of the recursion: what is left of the candidate from its j-th
\* character on matches the pattern from its i-th on.
Rest(at, pat, cand, i, j) ==
  IF i > Len(pat) THEN j > Len(cand)
  ELSE IF pat[i] = Star
       THEN \E skip \in 0..(Len(cand) + 1 - j) : j + skip \in at[i + 1]
       ELSE /\ j <= Len(cand)
            /\ CharMatches(pat[i], cand[j])
            /\ j + 1 \in at[i + 1]

Matches(at, pat, cand) ==
  at = [i \in 1..(Len(pat) + 1) |-> {j \in 1..(Len(cand) + 1) : Rest(at, pat, cand, i, j)}]

\* wildcard_match() is the recursion, if it has a solution.
LEMMA MatchIsSolution ==
  ASSUME NEW pat, NEW cand, NEW f, Matches(f, pat, cand)
  PROVE  \E at : Matches(at, pat, cand) /\ (WildcardMatch(pat, cand) <=> 1 \in at[1])
<1> DEFINE at == CHOOSE g : Matches(g, pat, cand)
<1>1. WildcardMatch(pat, cand) <=> 1 \in at[1]
  BY DEF WildcardMatch, Matches, Rest
<1> QED
  BY <1>1

\* A solution holds at each character what its body says.
LEMMA SolutionTurns ==
  ASSUME NEW pat \in Seq(Char), NEW cand \in Seq(Char), NEW at, Matches(at, pat, cand),
         NEW i \in 1..(Len(pat) + 1)
  PROVE  at[i] = {j \in 1..(Len(cand) + 1) : Rest(at, pat, cand, i, j)}
<1>1. Matches(at, pat, cand)
  OBVIOUS
<1> QED
  BY <1>1 DEF Matches

\* It has at most one, from the end of the pattern back to its start.
LEMMA SolutionIsOne ==
  ASSUME NEW pat \in Seq(Char), NEW cand \in Seq(Char), NEW f, NEW g,
         Matches(f, pat, cand), Matches(g, pat, cand)
  PROVE  f[1] = g[1]
<1> DEFINE n == Len(pat)
           same == {k \in Nat : k <= n => f[n + 1 - k] = g[n + 1 - k]}
<1>0. n \in Nat
  OBVIOUS
<1> HIDE DEF n
<1>1. 0 \in same
  <2>1. n + 1 \in 1..(n + 1) /\ n + 1 > n /\ n + 1 - 0 = n + 1
    BY <1>0
  <2>2. \A at, j : Rest(at, pat, cand, n + 1, j) <=> j > Len(cand)
    BY <2>1 DEF Rest, n
  <2>3. f[n + 1] = g[n + 1]
    <3>1. /\ f[n + 1] = {j \in 1..(Len(cand) + 1) : Rest(f, pat, cand, n + 1, j)}
          /\ g[n + 1] = {j \in 1..(Len(cand) + 1) : Rest(g, pat, cand, n + 1, j)}
      BY <2>1, SolutionTurns DEF n
    <3> QED
      BY <2>2, <3>1
  <2> QED
    BY <2>1, <2>3
<1>2. ASSUME NEW k \in Nat, k \in same PROVE k + 1 \in same
  <2> SUFFICES ASSUME k + 1 <= n PROVE f[n + 1 - (k + 1)] = g[n + 1 - (k + 1)]
    OBVIOUS
  <2> DEFINE i == n + 1 - (k + 1)
  <2>1. i \in 1..(n + 1) /\ i + 1 = n + 1 - k /\ k <= n
    BY <1>0
  <2>2. f[i + 1] = g[i + 1]
    BY <1>2, <2>1
  <2> HIDE DEF i
  <2>3. \A j : Rest(f, pat, cand, i, j) <=> Rest(g, pat, cand, i, j)
    BY <2>2 DEF Rest
  <2>4. f[i] = g[i]
    <3>1. /\ f[i] = {j \in 1..(Len(cand) + 1) : Rest(f, pat, cand, i, j)}
          /\ g[i] = {j \in 1..(Len(cand) + 1) : Rest(g, pat, cand, i, j)}
      BY <2>1, SolutionTurns DEF n
    <3> QED
      BY <2>3, <3>1
  <2> QED
    BY <2>4 DEF i
<1> HIDE DEF same
<1>3. Nat \subseteq same
  BY <1>1, <1>2, InductionOnNat
<1>4. n \in same
  BY <1>0, <1>3
<1>5. n + 1 - n = 1 /\ n <= n
  BY <1>0
<1> QED
  BY <1>4, <1>5 DEF same

\* One piece of a cut: what the k-th character of the pattern takes, from a to b
Piece(pat, cand, k, a, b) ==
  IF pat[k] = Star THEN a <= b
  ELSE b = a + 1 /\ (pat[k] = Percent \/ pat[k] = cand[a])

\* A cut of the candidate from its j-th character on for the pattern from its i-th
CutFrom(cut, pat, cand, i, j) ==
  /\ cut \in [i..(Len(pat) + 1) -> 1..(Len(cand) + 1)]
  /\ cut[i] = j /\ cut[Len(pat) + 1] = Len(cand) + 1
  /\ \A k \in i..Len(pat) : Piece(pat, cand, k, cut[k], cut[k + 1])

\* Where such cuts begin
Begins(pat, cand, i) == {j \in 1..(Len(cand) + 1) : \E cut : CutFrom(cut, pat, cand, i, j)}

\* After the last character of the pattern nothing is left to cut,
LEMMA NothingLeft ==
  ASSUME NEW pat \in Seq(Char), NEW cand \in Seq(Char), NEW j \in 1..(Len(cand) + 1)
  PROVE  j \in Begins(pat, cand, Len(pat) + 1) <=> j > Len(cand)
<1> DEFINE n == Len(pat)
<1>1. n \in Nat /\ Len(cand) \in Nat
  OBVIOUS
<1> HIDE DEF n
<1>2. ASSUME j > Len(cand) PROVE \E cut : CutFrom(cut, pat, cand, n + 1, j)
  <2> DEFINE cut == [k \in (n + 1)..(n + 1) |-> j]
  <2>1. /\ cut \in [(n + 1)..(n + 1) -> 1..(Len(cand) + 1)]
        /\ cut[n + 1] = j /\ j = Len(cand) + 1
    BY <1>1, <1>2
  <2>2. (n + 1)..n = {}
    BY <1>1
  <2> HIDE DEF cut
  <2>3. CutFrom(cut, pat, cand, n + 1, j)
    BY <2>1, <2>2 DEF CutFrom, n
  <2> QED
    BY <2>3
<1>3. ASSUME NEW cut, CutFrom(cut, pat, cand, n + 1, j) PROVE j > Len(cand)
  BY <1>1, <1>3 DEF CutFrom, n
<1> QED
  BY <1>2, <1>3 DEF Begins, n

\* and before that a cut is a piece and a cut of what it leaves.
LEMMA PieceByPiece ==
  ASSUME NEW pat \in Seq(Char), NEW cand \in Seq(Char), NEW i \in 1..Len(pat),
         NEW j \in 1..(Len(cand) + 1)
  PROVE  j \in Begins(pat, cand, i) <=>
           \E b \in Begins(pat, cand, i + 1) : Piece(pat, cand, i, j, b)
<1> DEFINE n == Len(pat)
<1>1. n \in Nat /\ Len(cand) \in Nat /\ i \in 1..n
  OBVIOUS
<1> HIDE DEF n
<1>2. /\ i \in i..(n + 1) /\ n + 1 \in (i + 1)..(n + 1) /\ i + 1 \in (i + 1)..(n + 1)
      /\ \A k \in (i + 1)..(n + 1) : k \in i..(n + 1) /\ k # i
      /\ \A k \in i..(n + 1) : k = i \/ k \in (i + 1)..(n + 1)
      /\ \A k \in (i + 1)..n : k \in i..n /\ k \in (i + 1)..(n + 1) /\ k + 1 \in (i + 1)..(n + 1)
      /\ \A k \in i..n : k = i \/ k \in (i + 1)..n
      /\ i \in i..n
  BY <1>1
<1>3. ASSUME NEW cut, CutFrom(cut, pat, cand, i, j)
      PROVE  \E b \in Begins(pat, cand, i + 1) : Piece(pat, cand, i, j, b)
  <2> DEFINE c == [k \in (i + 1)..(n + 1) |-> cut[k]]
             b == cut[i + 1]
  <2>1. /\ cut \in [i..(n + 1) -> 1..(Len(cand) + 1)]
        /\ cut[i] = j /\ cut[n + 1] = Len(cand) + 1
        /\ \A k \in i..n : Piece(pat, cand, k, cut[k], cut[k + 1])
    BY <1>3 DEF CutFrom, n
  <2>2. b \in 1..(Len(cand) + 1) /\ Piece(pat, cand, i, j, b)
    BY <1>2, <2>1
  <2>3. /\ c \in [(i + 1)..(n + 1) -> 1..(Len(cand) + 1)]
        /\ \A k \in (i + 1)..(n + 1) : c[k] = cut[k]
    BY <1>2, <2>1
  <2> HIDE DEF c, b
  <2>4. c[i + 1] = b /\ c[n + 1] = Len(cand) + 1
    BY <1>2, <2>1, <2>3 DEF b
  <2>5. \A k \in (i + 1)..n : Piece(pat, cand, k, c[k], c[k + 1])
    BY <1>2, <2>1, <2>3
  <2>6. CutFrom(c, pat, cand, i + 1, b)
    BY <2>3, <2>4, <2>5 DEF CutFrom, n
  <2> QED
    BY <2>2, <2>6 DEF Begins
<1>4. ASSUME NEW b \in 1..(Len(cand) + 1), NEW c, CutFrom(c, pat, cand, i + 1, b),
             Piece(pat, cand, i, j, b)
      PROVE  \E cut : CutFrom(cut, pat, cand, i, j)
  <2> DEFINE cut == [k \in i..(n + 1) |-> IF k = i THEN j ELSE c[k]]
  <2>1. /\ c \in [(i + 1)..(n + 1) -> 1..(Len(cand) + 1)]
        /\ c[i + 1] = b /\ c[n + 1] = Len(cand) + 1
        /\ \A k \in (i + 1)..n : Piece(pat, cand, k, c[k], c[k + 1])
    BY <1>4 DEF CutFrom, n
  <2>2. /\ cut \in [i..(n + 1) -> 1..(Len(cand) + 1)]
        /\ cut[i] = j
        /\ \A k \in (i + 1)..(n + 1) : cut[k] = c[k]
    BY <1>2, <2>1
  <2> HIDE DEF cut
  <2>3. cut[n + 1] = Len(cand) + 1 /\ cut[i + 1] = b
    BY <1>2, <2>1, <2>2
  <2>4. ASSUME NEW k \in i..n PROVE Piece(pat, cand, k, cut[k], cut[k + 1])
    <3>1. CASE k = i
      BY <1>4, <2>2, <2>3, <3>1
    <3>2. CASE k \in (i + 1)..n
      BY <1>2, <2>1, <2>2, <3>2
    <3> QED
      BY <1>2, <3>1, <3>2
  <2>5. CutFrom(cut, pat, cand, i, j)
    BY <2>2, <2>3, <2>4 DEF CutFrom, n
  <2> QED
    BY <2>5
<1> QED
  BY <1>3, <1>4 DEF Begins

\* So the places where cuts begin solve the recursion.
LEMMA BeginsIsSolution ==
  ASSUME NEW pat \in Seq(Char), NEW cand \in Seq(Char)
  PROVE  Matches([i \in 1..(Len(pat) + 1) |-> Begins(pat, cand, i)], pat, cand)
<1> DEFINE at == [i \in 1..(Len(pat) + 1) |-> Begins(pat, cand, i)]
<1>1. ASSUME NEW i \in 1..(Len(pat) + 1), NEW j \in 1..(Len(cand) + 1)
      PROVE  j \in Begins(pat, cand, i) <=> Rest(at, pat, cand, i, j)
  <2>1. CASE i = Len(pat) + 1
    BY <2>1, NothingLeft DEF Rest
  <2>2. CASE i \in 1..Len(pat)
    <3>1. /\ j \in Begins(pat, cand, i) <=>
               \E b \in Begins(pat, cand, i + 1) : Piece(pat, cand, i, j, b)
          /\ Begins(pat, cand, i + 1) \subseteq 1..(Len(cand) + 1)
          /\ at[i + 1] = Begins(pat, cand, i + 1)
          /\ ~ (i > Len(pat)) /\ Len(cand) \in Nat
      BY <2>2, PieceByPiece DEF Begins
    <3> DEFINE next == Begins(pat, cand, i + 1)
    <3> HIDE DEF at, next
    <3>2. CASE pat[i] = Star
      <4>1. \A b \in next : j <= b => b - j \in 0..(Len(cand) + 1 - j) /\ j + (b - j) = b
        BY <3>1 DEF next
      <4>2. \A skip \in 0..(Len(cand) + 1 - j) : j <= j + skip
        OBVIOUS
      <4> QED
        BY <3>1, <3>2, <4>1, <4>2 DEF Rest, Piece, next
    <3>3. CASE pat[i] # Star
      <4>1. j + 1 \in next => j <= Len(cand)
        BY <3>1 DEF next
      <4> QED
        BY <3>1, <3>3, <4>1 DEF Rest, Piece, CharMatches, next
    <3> QED
      BY <3>2, <3>3
  <2> QED
    BY <2>1, <2>2
<1>2. \A i \in 1..(Len(pat) + 1) :
        Begins(pat, cand, i) = {j \in 1..(Len(cand) + 1) : Rest(at, pat, cand, i, j)}
  <2> HIDE DEF at
  <2> QED
    BY <1>1 DEF Begins
<1>3. at = [i \in 1..(Len(pat) + 1) |-> {j \in 1..(Len(cand) + 1) : Rest(at, pat, cand, i, j)}]
  BY <1>2
<1> QED
  BY <1>3 DEF Matches

\* wildcard_match() says whether the name can be cut into pieces for the pattern.
THEOREM MatchIsCut ==
  ASSUME NEW pat \in Seq(Char), NEW cand \in Seq(Char)
  PROVE  WildcardMatch(pat, cand) <=> Cuts(pat, cand)
<1> DEFINE begins == [i \in 1..(Len(pat) + 1) |-> Begins(pat, cand, i)]
<1>1. Matches(begins, pat, cand)
  BY BeginsIsSolution
<1>2. begins[1] = Begins(pat, cand, 1)
  OBVIOUS
<1> HIDE DEF begins
<1>3. WildcardMatch(pat, cand) <=> 1 \in Begins(pat, cand, 1)
  BY <1>1, <1>2, MatchIsSolution, SolutionIsOne
<1>4. DOMAIN pat = 1..Len(pat) /\ 1 \in 1..(Len(cand) + 1)
  OBVIOUS
<1>5. 1 \in Begins(pat, cand, 1) <=> Cuts(pat, cand)
  BY <1>4 DEF Begins, CutFrom, Cuts, Piece
<1> QED
  BY <1>3, <1>5
-----------------------------------------------------------------------------
(***************************************************************************)
(* The first word: what lookup_root() finds on the merged tree             *)
(***************************************************************************)

\* Folding a word neither makes a pattern of it nor takes one away.
LEMMA FoldedPattern ==
  ASSUME NEW w \in Seq(Char)
  PROVE  IsWildcard(ToAsciiUppercase(w)) <=> IsWildcard(w)
<1> DEFINE up == ToAsciiUppercase(w)
<1>1. DOMAIN up = DOMAIN w /\ \A i \in DOMAIN w : up[i] = AsciiUpper[w[i]] /\ w[i] \in Char
  BY DEF ToAsciiUppercase
<1>2. \A c \in Char : AsciiUpper[c] \in {Star, Percent} <=> c \in {Star, Percent}
  BY CharAssumption
<1> HIDE DEF up
<1> QED
  BY <1>1, <1>2 DEF IsWildcard, up

\* Of the entries that pass a comparison of names, the first of each name are
\* those of the topics the set offers.
LEMMA FirstOfEachIs ==
  ASSUME NEW list \in Seq(Node), NEW S \in SUBSET DOMAIN list,
         \A i \in S, k \in DOMAIN list : NameUpper[list[k]] = NameUpper[list[i]] => k \in S
  PROVE  \A n : n \in FirstOfEachName(list, S) <=>
           n \in Node /\ FirstOfName(list, n) /\ \E k \in S : list[k] = n
<1>1. DOMAIN list = 1..Len(list) /\ Len(list) \in Nat /\ \A k \in DOMAIN list : list[k] \in Node
  OBVIOUS
<1>2. ASSUME NEW n, n \in FirstOfEachName(list, S)
      PROVE  n \in Node /\ FirstOfName(list, n) /\ \E k \in S : list[k] = n
  <2>1. PICK k \in S : /\ list[k] = n
                       /\ ~ \E j \in S : j < k /\ NameUpper[list[j]] = NameUpper[list[k]]
    BY <1>2 DEF FirstOfEachName
  <2>2. \A m \in 1..(k - 1) : m \in DOMAIN list /\ m < k
    BY <1>1
  <2>3. NoneBefore(list, k, n)
    BY <2>1, <2>2 DEF NoneBefore
  <2> QED
    BY <1>1, <2>1, <2>3, FirstOfNameIs
<1>3. ASSUME NEW n \in Node, FirstOfName(list, n), NEW i \in S, list[i] = n
      PROVE  n \in FirstOfEachName(list, S)
  <2>1. PICK k \in DOMAIN list : list[k] = n /\ NoneBefore(list, k, n)
    BY <1>3, FirstOfNameIs
  <2>2. k \in S
    BY <1>3, <2>1
  <2>3. \A j \in S : j < k => j \in 1..(k - 1)
    BY <1>1
  <2> QED
    BY <2>1, <2>2, <2>3 DEF FirstOfEachName, NoneBefore
<1> QED
  BY <1>2, <1>3

\* The sets of nodes lookup_root() collects, as subsets of the merged tree
LEMMA CollectedOfOwners ==
  ASSUME NEW l \in Seq(Node), NEW up \in Seq(Char)
  PROVE  LET list == RootTopics(l)
         IN  /\ FirstOfEachName(list, Prefixed(list, up)) =
                  {n \in OwnersOf(l) : IsPrefix(up, NameUpper[n])}
             /\ FirstOfEachName(list, Globbed(list, up)) =
                  {n \in OwnersOf(l) : Cuts(up, NameUpper[n])}
             /\ FirstOfEachName(list, DOMAIN list) = OwnersOf(l)
<1> DEFINE list == RootTopics(l)
<1>1. list \in Seq(Node)
  BY RootTopicsAreChildren
<1>2. \A n : n \in OwnersOf(l) <=> n \in Node /\ FirstOfName(list, n)
  BY OwnersAreFirst DEF OwnersOf
<1> HIDE DEF list
<1>3. \A n : FirstOfName(list, n) => \E k \in DOMAIN list : list[k] = n
  BY DEF FirstOfName, ToSet
<1>4. FirstOfEachName(list, Prefixed(list, up)) = {n \in OwnersOf(l) : IsPrefix(up, NameUpper[n])}
  <2> DEFINE S == Prefixed(list, up)
  <2>1. S \in SUBSET DOMAIN list
    BY DEF Prefixed
  <2>2. \A k \in DOMAIN list : k \in S <=> IsPrefix(up, NameUpper[list[k]])
    BY DEF Prefixed
  <2> HIDE DEF S
  <2>3. \A n : n \in FirstOfEachName(list, S) <=>
          n \in Node /\ FirstOfName(list, n) /\ \E k \in S : list[k] = n
    BY <1>1, <2>1, <2>2, FirstOfEachIs
  <2>4. \A n : n \in FirstOfEachName(list, S) <=>
          n \in OwnersOf(l) /\ IsPrefix(up, NameUpper[n])
    BY <1>2, <1>3, <2>1, <2>2, <2>3
  <2> QED
    BY <2>4 DEF S
<1>5. FirstOfEachName(list, Globbed(list, up)) = {n \in OwnersOf(l) : Cuts(up, NameUpper[n])}
  <2> DEFINE S == Globbed(list, up)
  <2>1. S \in SUBSET DOMAIN list
    BY DEF Globbed
  <2>2. \A k \in DOMAIN list : k \in S <=> Cuts(up, NameUpper[list[k]])
    <3>1. \A k \in DOMAIN list : NameUpper[list[k]] \in Seq(Char)
      BY <1>1, NodeAssumption
    <3> QED
      BY <3>1, MatchIsCut DEF Globbed
  <2> HIDE DEF S
  <2>3. \A n : n \in FirstOfEachName(list, S) <=>
          n \in Node /\ FirstOfName(list, n) /\ \E k \in S : list[k] = n
    BY <1>1, <2>1, <2>2, FirstOfEachIs
  <2>4. \A n : n \in FirstOfEachName(list, S) <=>
          n \in OwnersOf(l) /\ Cuts(up, NameUpper[n])
    BY <1>2, <1>3, <2>1, <2>2, <2>3
  <2> QED
    BY <2>4 DEF S
<1>6. FirstOfEachName(list, DOMAIN list) = OwnersOf(l)
  <2> DEFINE S == DOMAIN list
  <2>1. S \in SUBSET DOMAIN list
    OBVIOUS
  <2>2. \A n : n \in FirstOfEachName(list, S) <=>
          n \in Node /\ FirstOfName(list, n) /\ \E k \in S : list[k] = n
    BY <1>1, <2>1, FirstOfEachIs
  <2> QED
    BY <1>2, <1>3, <2>2
<1> QED
  BY <1>4, <1>5, <1>6 DEF list

\* What the answer to one word says of the topics meant by it
Decides(r, meant, word) ==
  /\ r.kind \in {"Found", "Ambiguous", "NotFound"}
  /\ r.kind = "Found" => ~ IsWildcard(word) /\ \E n : meant = {n}
  /\ r.kind = "Ambiguous" =>
       r.nodes = meant /\ meant # {} /\ (IsWildcard(word) \/ ~ \E n : meant = {n})
  /\ r.kind = "NotFound" => meant = {}

\* lookup_root() decides on the merged tree.
LEMMA LookupRootDecides ==
  ASSUME NEW l \in Seq(Node), NEW word \in Seq(Char), NEW mode \in MatchMode
  PROVE  Decides(LookupRoot(l, word, mode), Meant(OwnersOf(l), word, mode), word)
<1> DEFINE list == RootTopics(l)
           up == ToAsciiUppercase(word)
           owners == OwnersOf(l)
           meant == Meant(owners, word, mode)
           r == LookupRoot(l, word, mode)
           equal == {n \in owners : NameUpper[n] = up}
           prefixed == {n \in owners : IsPrefix(up, NameUpper[n])}
           globbed == {n \in owners : Cuts(up, NameUpper[n])}
<1>1. list \in Seq(Node) /\ up \in Seq(Char) /\ (IsWildcard(up) <=> IsWildcard(word))
  BY RootTopicsAreChildren, FoldedWord, FoldedPattern
<1>2. \A n : n \in owners <=> n \in Node /\ FirstOfName(list, n)
  BY OwnersAreFirst DEF OwnersOf
<1>3. /\ FirstOfEachName(list, Prefixed(list, up)) = prefixed
      /\ FirstOfEachName(list, Globbed(list, up)) = globbed
  BY <1>1, CollectedOfOwners
<1>4. meant = IF word = <<>> THEN {}
              ELSE IF IsWildcard(up) THEN globbed
              ELSE IF equal # {} \/ mode = Exact THEN equal
              ELSE prefixed
  BY DEF Meant
<1>5. r = IF word = <<>> THEN NotFound
          ELSE IF ~ IsWildcard(up) THEN LookupWord(list, "Distinct", up, mode)
          ELSE IF globbed = {} THEN NotFound ELSE Ambiguous(globbed)
  BY <1>3 DEF LookupRoot, LookupIn, Chosen
<1>6. LookupWord(list, "Distinct", up, mode) =
        IF Equal(list, up) # {} THEN Found(list[Min(Equal(list, up))])
        ELSE IF mode = Exact \/ prefixed = {} THEN NotFound
        ELSE IF \E n \in prefixed : prefixed = {n}
             THEN Found(CHOOSE n \in prefixed : TRUE) ELSE Ambiguous(prefixed)
  BY <1>3 DEF LookupWord, Chosen
<1>7. \A n : \A S : /\ Found(n).kind = "Found" /\ NotFound.kind = "NotFound"
                    /\ Ambiguous(S).kind = "Ambiguous" /\ Ambiguous(S).nodes = S
  BY DEF Found, NotFound, Ambiguous
<1>8. IF Equal(list, up) # {} THEN \E n : equal = {n} ELSE equal = {}
  <2> HIDE DEF list, up, owners
  <2>1. ASSUME Equal(list, up) # {} PROVE \E n : equal = {n}
    <3> DEFINE n == list[Min(Equal(list, up))]
    <3>1. n \in Node /\ NameUpper[n] = up /\ FirstOfName(list, n)
      BY <1>1, <2>1, FirstOfNameIsMember
    <3>2. \A m \in equal : m = n
      BY <1>2 DEF FirstOfName
    <3>3. n \in equal
      BY <1>2, <3>1
    <3> HIDE DEF n, equal
    <3>4. equal = {n}
      BY <3>2, <3>3
    <3> QED
      BY <3>4
  <2>2. ASSUME Equal(list, up) = {} PROVE equal = {}
    <3>1. \A n \in owners : \E k \in DOMAIN list : list[k] = n
      BY <1>2 DEF FirstOfName, ToSet
    <3>2. \A k \in DOMAIN list : NameUpper[list[k]] # up
      BY <2>2 DEF Equal
    <3> QED
      BY <3>1, <3>2
  <2> QED
    BY <2>1, <2>2
<1> HIDE DEF list, up, owners, meant, r, equal, prefixed, globbed
<1>9. ASSUME word = <<>> PROVE Decides(r, meant, word)
  BY <1>4, <1>5, <1>7, <1>9 DEF Decides
<1>10. ASSUME word # <<>>, IsWildcard(up) PROVE Decides(r, meant, word)
  BY <1>1, <1>4, <1>5, <1>7, <1>10 DEF Decides
<1>11. ASSUME word # <<>>, ~ IsWildcard(up) PROVE Decides(r, meant, word)
  <2>1. CASE Equal(list, up) # {}
    BY <1>1, <1>4, <1>5, <1>6, <1>7, <1>8, <1>11, <2>1 DEF Decides
  <2>2. CASE Equal(list, up) = {}
    BY <1>1, <1>4, <1>5, <1>6, <1>7, <1>8, <1>11, <2>2 DEF Decides
  <2> QED
    BY <2>1, <2>2
<1>12. Decides(r, meant, word)
  BY <1>9, <1>10, <1>11
<1> QED
  BY <1>12 DEF r, meant, owners

\* A path goes beyond its first word, to a topic or to a failure of a later word,
\* exactly when the first word finds a topic.
LEMMA FirstWordDecides ==
  ASSUME NEW l \in Seq(Roots), NEW path \in Seq(Seq(Char)), path # <<>>, NEW mode
  PROVE  LET first == LookupRoot(l, Head(path), mode)
             r == LibResolve(l, path, mode)
         IN  \/ /\ first.kind = "Found"
                /\ \/ r.kind = "Found"
                   \/ \E d \in Nat : d > 0 /\ FailsAt(r, d)
             \/ first.kind = "Ambiguous" /\ r = AmbiguousAt(0, first.nodes)
             \/ first.kind = "NotFound" /\ r = NotFoundAt(0, OwnersOf(l))
<1> DEFINE first == LookupRoot(l, Head(path), mode)
           r == LibResolve(l, path, mode)
           rest == Resolve(first.node, Tail(path), mode)
<1>1. Head(path) \in Seq(Char) /\ Tail(path) \in Seq(Seq(Char)) /\ Len(Tail(path)) \in Nat
  BY HeadTailProperties
<1>2. l \in Seq(Node)
  BY DEF Roots
<1>3. first.kind \in {"Found", "Ambiguous", "NotFound"}
  <2>1. \A which, w : LookupIn(RootTopics(l), which, w, mode).kind
                        \in {"Found", "Ambiguous", "NotFound"}
    BY DEF LookupIn, LookupWord, Found, Ambiguous, NotFound
  <2> QED
    BY <2>1 DEF LookupRoot
<1>4. RootTopicNames(l) = OwnersOf(l)
  BY <1>2, EmptySeq, CollectedOfOwners DEF RootTopicNames
<1>5. r = IF first.kind = "Found" THEN AdjustDepth(rest, 1)
          ELSE IF first.kind = "Ambiguous" THEN AmbiguousAt(0, first.nodes)
          ELSE NotFoundAt(0, OwnersOf(l))
  BY <1>4 DEF LibResolve
<1>6. ASSUME first.kind = "Found"
      PROVE  r.kind = "Found" \/ \E d \in Nat : d > 0 /\ FailsAt(r, d)
  <2>1. first.node \in Node
    <3>1. RootTopics(l) \in Seq(Node)
      BY <1>2, RootTopicsAreChildren
    <3>2. \E n \in Node : first = Found(n)
      BY <1>1, <1>6, <3>1, LookupInFindsFirst DEF LookupRoot
    <3> QED
      BY <3>2, FailureIsNoFind
  <2>2. Outcome(rest, Node, Len(Tail(path)))
    BY <1>1, <2>1, ResolveOutcome
  <2>3. r = AdjustDepth(rest, 1)
    BY <1>5, <1>6
  <2> HIDE DEF r, rest
  <2>4. CASE rest.kind = "Found"
    BY <2>3, <2>4 DEF AdjustDepth
  <2>5. CASE rest.kind # "Found"
    <3>1. PICK d \in 0..(Len(Tail(path)) - 1) : FailsAt(rest, d)
      BY <2>2, <2>5, FailureIsNoFind DEF Outcome
    <3>2. d \in Nat /\ d + 1 \in Nat /\ d + 1 > 0
      BY <1>1
    <3>3. PICK S : rest = AmbiguousAt(d, S) \/ rest = NotFoundAt(d, S)
      BY <3>1 DEF FailsAt
    <3>4. r = AmbiguousAt(d + 1, S) \/ r = NotFoundAt(d + 1, S)
      BY <2>3, <3>2, <3>3, AdjustedDepth
    <3>5. FailsAt(r, d + 1)
      BY <3>4 DEF FailsAt
    <3> QED
      BY <3>2, <3>5
  <2> QED
    BY <2>4, <2>5
<1> HIDE DEF r, first
<1>7. \/ first.kind = "Found" /\ (r.kind = "Found" \/ \E d \in Nat : d > 0 /\ FailsAt(r, d))
      \/ first.kind = "Ambiguous" /\ r = AmbiguousAt(0, first.nodes)
      \/ first.kind = "NotFound" /\ r = NotFoundAt(0, OwnersOf(l))
  BY <1>3, <1>5, <1>6
<1> QED
  BY <1>7 DEF r, first

\* The merged tree is finite, so what is neither one topic nor none is several.
LEMMA OneOrMore ==
  ASSUME NEW l \in Seq(Node), NEW S \in SUBSET OwnersOf(l)
  PROVE  /\ (\E n : S = {n}) => Cardinality(S) = 1
         /\ S # {} /\ ~ (\E n : S = {n}) => Cardinality(S) > 1
<1> DEFINE list == RootTopics(l)
<1>1. list \in Seq(Node)
  BY RootTopicsAreChildren
<1>2. S \subseteq ToSet(list)
  BY OwnersAreFirst DEF OwnersOf, FirstOfName
<1> HIDE DEF list
<1>3. IsFiniteSet(ToSet(list))
  <2>1. DOMAIN list = 1..Len(list) /\ Len(list) \in Nat
    BY <1>1
  <2>2. IsFiniteSet(1..Len(list))
    BY <2>1, FS_Interval
  <2>3. list \in Surjection(1..Len(list), ToSet(list))
    BY <1>1, <2>1 DEF Surjection, ToSet
  <2> QED
    BY <2>2, <2>3, FS_Surjection
<1>4. IsFiniteSet(S)
  BY <1>2, <1>3, FS_Subset
<1>5. /\ Cardinality(S) \in Nat /\ (Cardinality(S) = 0 <=> S = {})
      /\ (Cardinality(S) = 1 <=> \E n : S = {n})
  BY <1>4, FS_CardinalityType, FS_EmptySet, FS_Singleton
<1>6. ASSUME S # {}, ~ \E n : S = {n} PROVE Cardinality(S) > 1
  <2>1. Cardinality(S) \in Nat /\ Cardinality(S) # 0 /\ Cardinality(S) # 1
    BY <1>5, <1>6
  <2> QED
    BY <2>1
<1> QED
  BY <1>5, <1>6

\* The first word of every answer is decided on the merged tree: about the three
\* search loops of lookup_root() and their two ways of removing duplicates.
THEOREM FirstWordDecidedOnce == SetSpec => []FirstWordOnMergedTree
<1>1. Answered => FirstWordOnMergedTree
  <2> DEFINE word == Head(answer.path)
             meant == Meant(Owners, word, answer.mode)
             r == answer.result
             first == LookupRoot(libs, word, answer.mode)
  <2> SUFFICES ASSUME Answered, Asked
               PROVE  /\ r.kind = "AmbiguousAt" /\ r.depth = 0 =>
                           /\ r.nodes = meant /\ meant # {}
                           /\ IsWildcard(word) \/ Cardinality(meant) > 1
                      /\ r.kind = "NotFoundAt" /\ r.depth = 0 =>
                           meant = {} /\ r.available = Owners
                      /\ (r.kind = "Found" \/ r.depth > 0) =>
                           Cardinality(meant) = 1 /\ ~ IsWildcard(word)
    BY DEF FirstWordOnMergedTree
  <2>1. /\ libs \in Seq(Roots) /\ answer.path \in Seq(Seq(Char)) /\ answer.path # <<>>
        /\ answer.mode \in MatchMode
        /\ r = LibResolve(libs, answer.path, answer.mode)
    BY AskedIsAnswered
  <2>2. libs \in Seq(Node) /\ word \in Seq(Char)
    BY <2>1, HeadTailProperties DEF Roots
  <2>3. Owners = OwnersOf(libs)
    BY OwnersAreOf
  <2>4. Decides(first, meant, word)
    BY <2>1, <2>2, <2>3, LookupRootDecides
  <2>5. \/ first.kind = "Found" /\ (r.kind = "Found" \/ \E d \in Nat : d > 0 /\ FailsAt(r, d))
        \/ first.kind = "Ambiguous" /\ r = AmbiguousAt(0, first.nodes)
        \/ first.kind = "NotFound" /\ r = NotFoundAt(0, Owners)
    BY <2>1, <2>3, FirstWordDecides
  <2>6. meant \subseteq OwnersOf(libs)
    BY <2>3 DEF Meant
  <2>7. /\ (\E n : meant = {n}) => Cardinality(meant) = 1
        /\ meant # {} /\ ~ (\E n : meant = {n}) => Cardinality(meant) > 1
    BY <2>2, <2>6, OneOrMore
  <2>8. \A d, S : /\ AmbiguousAt(d, S).kind = "AmbiguousAt" /\ AmbiguousAt(d, S).depth = d
                  /\ AmbiguousAt(d, S).nodes = S
                  /\ NotFoundAt(d, S).kind = "NotFoundAt" /\ NotFoundAt(d, S).depth = d
                  /\ NotFoundAt(d, S).available = S
    BY DEF AmbiguousAt, NotFoundAt
  <2> HIDE DEF word, meant, r, first
  <2>9. \A d \in Nat : d > 0 /\ FailsAt(r, d) => r.depth > 0 /\ r.kind # "Found"
    BY <2>8 DEF FailsAt
  <2>10. CASE first.kind = "Found"
    <3>1. r.kind = "Found" \/ (r.depth > 0 /\ ~ (r.depth = 0))
      BY <2>5, <2>9, <2>10, <2>8 DEF FailsAt
    <3>2. Cardinality(meant) = 1 /\ ~ IsWildcard(word)
      BY <2>4, <2>7, <2>10 DEF Decides
    <3> QED
      BY <3>1, <3>2
  <2>11. CASE first.kind = "Ambiguous"
    <3>1. r = AmbiguousAt(0, meant) /\ meant # {}
      BY <2>4, <2>5, <2>11 DEF Decides
    <3>2. IsWildcard(word) \/ Cardinality(meant) > 1
      BY <2>4, <2>7, <2>11 DEF Decides
    <3>3. r.kind = "AmbiguousAt" /\ r.depth = 0 /\ r.nodes = meant
      BY <2>8, <3>1
    <3> QED
      BY <3>1, <3>2, <3>3
  <2>12. CASE first.kind = "NotFound"
    BY <2>4, <2>5, <2>8, <2>12 DEF Decides
  <2> QED
    BY <2>5, <2>10, <2>11, <2>12
<1> QED
  BY <1>1, AnsweredInv, PTL

-----------------------------------------------------------------------------
(***************************************************************************)
(* The invariants of Navigator.  The inductive one says that the stack is  *)
(* a path within the own library; that it is within the library is what    *)
(* makes a comparison of offsets, all descend() does, as good as one of    *)
(* nodes.                                                                  *)
(***************************************************************************)
\* A walk down the own library that starts at its root
IsPath(s) ==
  /\ s \in Seq(Own) /\ s # <<>>
  /\ s[1] = Root
  /\ \A i \in 1..(Len(s) - 1) : Parent[s[i + 1]] = s[i]

\* The children of a node are nodes, their parent is that node, and within a
\* library they belong to it.
LEMMA KidsAreBelow ==
  ASSUME NEW n \in Node
  PROVE  /\ Kids(n) \subseteq Node
         /\ \A c \in Kids(n) : Parent[c] = n
         /\ n \in Own => Kids(n) \subseteq Own
<1>1. Kids(n) \subseteq Node
  BY NodeAssumption DEF Kids, ToSet
<1> QED
  BY <1>1, NodeAssumption, NavigatorAssumption

\* The last entry of a path is a node of the library.
LEMMA PathEnd ==
  ASSUME NEW s, IsPath(s)
  PROVE  Last(s) \in Own /\ Last(s) \in Node
BY NavigatorAssumption DEF IsPath, Last

\* Pushing a child of the node at the end extends a path.
LEMMA PushKeepsPath ==
  ASSUME NEW s, IsPath(s), NEW c \in Kids(Last(s))
  PROVE  IsPath(Append(s, c)) /\ Last(Append(s, c)) = c
<1>1. c \in Own /\ Parent[c] = Last(s)
  BY PathEnd, KidsAreBelow
<1>2. /\ Append(s, c) \in Seq(Own)
      /\ Len(Append(s, c)) = Len(s) + 1
      /\ \A i \in 1..Len(s) : Append(s, c)[i] = s[i]
      /\ Append(s, c)[Len(s) + 1] = c
      /\ Len(s) \in Nat /\ Len(s) >= 1
  BY <1>1 DEF IsPath
<1>3. \A i \in 1..(Len(s) + 1 - 1) :
        Parent[Append(s, c)[i + 1]] = Append(s, c)[i]
  <2>1. TAKE i \in 1..(Len(s) + 1 - 1)
  <2>2. CASE i = Len(s)
    BY <1>1, <1>2, <2>2 DEF Last
  <2>3. CASE i # Len(s)
    BY <1>2, <2>3 DEF IsPath
  <2> QED
    BY <2>2, <2>3
<1> QED
  BY <1>2, <1>3 DEF IsPath, Last

\* Popping leaves a path that ends at the parent, unless only the root is left.
LEMMA PopKeepsPath ==
  ASSUME NEW s, IsPath(s), Len(s) # 1
  PROVE  /\ IsPath(Pop(s))
         /\ Last(Pop(s)) = Parent[Last(s)]
<1>1. /\ Len(s) \in Nat /\ Len(s) >= 2
      /\ s \in Seq(Own)
  <2>1. s \in Seq(Own) /\ s # <<>>
    BY DEF IsPath
  <2>2. Len(s) \in Nat /\ Len(s) # 0
    BY <2>1
  <2>3. \A k \in Nat : k # 0 /\ k # 1 => k >= 2
    OBVIOUS
  <2> QED
    BY <2>1, <2>2, <2>3
<1>2. /\ Pop(s) \in Seq(Own)
      /\ Len(Pop(s)) = Len(s) - 1
      /\ \A i \in 1..(Len(s) - 1) : Pop(s)[i] = s[i]
  BY <1>1 DEF Pop, Front
<1>3. Parent[s[(Len(s) - 1) + 1]] = s[Len(s) - 1]
  BY <1>1 DEF IsPath
<1> QED
  BY <1>1, <1>2, <1>3 DEF IsPath, Last

\* Only a path of one node ends at the root, which has no parent.
LEMMA LongPathEndsBelowRoot ==
  ASSUME NEW s, IsPath(s), Len(s) # 1
  PROVE  Last(s) # Root /\ Parent[Last(s)] \in Own
<1>1. Last(Pop(s)) = Parent[Last(s)] /\ Last(Pop(s)) \in Own
  BY PopKeepsPath, PathEnd
<1> QED
  BY <1>1, NodeAssumption, NavigatorAssumption

-----------------------------------------------------------------------------
\* The four things a call does to the stack
Pushed == \E c \in Kids(Current) : stack' = Append(stack, c)
Popped == Len(stack) # 1 /\ stack' = Pop(stack)
Cleared == stack' = SubSeq(stack, 1, 1)

\* Every call does one of them, if callers hand over nodes of this library only.
LEMMA StepShapes ==
  ASSUME Handed \subseteq Own, IsPath(stack), [Next]_vars
  PROVE  Pushed \/ Popped \/ Cleared \/ UNCHANGED stack
<1>1. Current \in Own /\ Current \in Node /\ Len(stack) \in Nat
  BY PathEnd DEF Current, IsPath
<1>2. ASSUME NEW line \in Line, NEW mode \in MatchMode, Input(line, mode)
      PROVE  Pushed \/ Popped \/ UNCHANGED stack
  <2>1. CASE InputEmpty
    BY <1>1, <2>1 DEF InputEmpty, Popped, Depth
  <2>2. CASE InputQuestion
    BY <2>2 DEF InputQuestion
  <2>3. CASE InputTopic(line, mode)
    <3> DEFINE r == Lookup(Current, line, mode)
    <3>1. r.kind \in {"Found", "Ambiguous", "NotFound"}
      BY <1>1, LookupOffersChildren
    <3>2. r.kind = "Found" => r.node \in Kids(Current)
      BY <1>1, LookupFindsChild
    <3> QED
      BY <2>3, <3>1, <3>2 DEF InputTopic, Pushed
  <2> QED
    BY <1>2, <2>1, <2>2, <2>3 DEF Input
<1>3. CASE GoUp
  BY <1>1, <1>3 DEF GoUp, Popped, Depth
<1>4. ASSUME NEW n \in Handed, Descend(n)
      PROVE  Pushed \/ UNCHANGED stack
  <2>1. LooksLikeChild(n) => n \in Kids(Current)
    BY <1>1, KidsAreBelow, NavigatorAssumption DEF LooksLikeChild
  <2> QED
    BY <1>4, <2>1 DEF Descend, Pushed
<1>5. CASE Reset
  BY <1>5 DEF Reset, Cleared
<1>6. CASE UNCHANGED vars
  BY <1>6 DEF vars
<1> QED
  BY <1>2, <1>3, <1>4, <1>5, <1>6 DEF Next

\* reset() leaves the root.
LEMMA FirstEntryIsPath ==
  ASSUME NEW s, IsPath(s)
  PROVE  SubSeq(s, 1, 1) = <<Root>> /\ IsPath(<<Root>>) /\ Last(<<Root>>) = Root
<1>1. s \in Seq(Own) /\ Len(s) \in Nat /\ Len(s) # 0 /\ s[1] = Root
  <2>1. s \in Seq(Own) /\ s # <<>> /\ s[1] = Root
    BY DEF IsPath
  <2> QED
    BY <2>1
<1>2. /\ <<Root>> \in Seq(Own) /\ <<Root>> # <<>>
      /\ Len(<<Root>>) = 1 /\ <<Root>>[1] = Root
  BY NavigatorAssumption
<1>3. SubSeq(s, 1, 1) = <<Root>>
  <2>1. /\ SubSeq(s, 1, 1) \in Seq(Own)
        /\ Len(SubSeq(s, 1, 1)) = 1
        /\ SubSeq(s, 1, 1)[1] = s[1]
    BY <1>1
  <2>2. \A i \in 1..1 : i = 1
    OBVIOUS
  <2> QED
    BY <1>1, <1>2, <2>1, <2>2, SeqEqual
<1> QED
  BY <1>2, <1>3 DEF IsPath, Last

\* The stack stays a path: by the lemmas on pushing and popping.
LEMMA PathIsKept ==
  ASSUME Handed \subseteq Own, IsPath(stack), [Next]_vars
  PROVE  IsPath(stack')
<1>1. CASE Pushed
  BY <1>1, PushKeepsPath DEF Pushed, Current
<1>2. CASE Popped
  BY <1>2, PopKeepsPath DEF Popped
<1>3. CASE Cleared
  BY <1>3, FirstEntryIsPath DEF Cleared
<1> QED
  BY <1>1, <1>2, <1>3, StepShapes

\* The inductive invariant
LEMMA PathInv ==
  ASSUME Handed \subseteq Own
  PROVE  Spec => []IsPath(stack)
<1>1. Init => IsPath(stack)
  BY NavigatorAssumption DEF Init, IsPath
<1>2. IsPath(stack) /\ [Next]_vars => IsPath(stack)'
  BY PathIsKept
<1> QED
  BY <1>1, <1>2, PTL DEF Spec

\* Whatever lines are typed and whatever own nodes are handed to descend(), the
\* stack is the path of parents from the root to the current node.
THEOREM StackStaysPath ==
  ASSUME Handed \subseteq Own
  PROVE  Spec => []StackIsPath
<1>1. IsPath(stack) => StackIsPath
  BY DEF IsPath, StackIsPath
<1> QED
  BY <1>1, PathInv, PTL

-----------------------------------------------------------------------------
\* The type invariant, whatever nodes of whatever library callers hand over.
THEOREM TypeCorrect == Spec => []TypeOK
<1>1. Init => TypeOK
  BY NavigatorAssumption DEF Init, TypeOK, Reply
<1>2. TypeOK /\ [Next]_vars => TypeOK'
  <2> SUFFICES ASSUME TypeOK, [Next]_vars PROVE TypeOK'
    OBVIOUS
  <2>1. /\ stack \in Seq(Node) /\ stack # <<>> /\ Current \in Node
        /\ Len(stack) \in Nat /\ Len(stack) # 0
        /\ reply.nodes \subseteq Node
    <3>1. /\ stack \in Seq(Node) /\ stack # <<>>
          /\ reply.nodes \subseteq Node
      BY DEF TypeOK
    <3>2. Len(stack) \in Nat /\ Len(stack) # 0
      BY <3>1
    <3>3. stack[Len(stack)] \in Node
      BY <3>1, <3>2
    <3> QED
      BY <3>1, <3>2, <3>3 DEF Current, Last
  <2>2. Kids(Current) \subseteq Node
    BY <2>1, KidsAreBelow
  <2>3. Depth # 0 => Pop(stack) \in Seq(Node) /\ Pop(stack) # <<>>
    <3>1. \A k \in Nat : k # 0 /\ k - 1 # 0 => k - 1 \in 0..k
      OBVIOUS
    <3> QED
      BY <2>1, <3>1, PrefixProperties DEF Depth, Pop, Front
  <2>4. \A n \in Node : Append(stack, n) \in Seq(Node) /\ Append(stack, n) # <<>>
    BY <2>1
  <2>5. SubSeq(stack, 1, 1) \in Seq(Node) /\ SubSeq(stack, 1, 1) # <<>>
    <3>1. \A k \in Nat : k # 0 => 1 \in 0..k
      OBVIOUS
    <3> QED
      BY <2>1, <3>1, PrefixProperties
  <2>6. ASSUME NEW line \in Line, NEW mode \in MatchMode, Input(line, mode)
        PROVE  TypeOK'
    <3>1. CASE InputEmpty
      BY <2>1, <2>3, <3>1 DEF InputEmpty, TypeOK, Reply
    <3>2. CASE InputQuestion
      BY <2>1, <2>2, <3>2 DEF InputQuestion, TypeOK, Reply
    <3>3. CASE InputTopic(line, mode)
      <4> DEFINE r == Lookup(Current, line, mode)
      <4>1. /\ r.kind \in {"Found", "Ambiguous", "NotFound"}
            /\ r.kind = "Ambiguous" => r.nodes \subseteq Node
        BY <2>1, <2>2, LookupOffersChildren
      <4>2. r.kind = "Found" => r.node \in Node
        BY <2>1, <2>2, LookupFindsChild
      <4> HIDE DEF r
      <4>3. CASE r.kind = "Found"
        BY <2>4, <3>3, <4>2, <4>3 DEF InputTopic, TypeOK, Reply, r
      <4>4. CASE r.kind = "Ambiguous"
        BY <2>1, <3>3, <4>1, <4>4 DEF InputTopic, TypeOK, Reply, r
      <4>5. CASE r.kind = "NotFound"
        BY <2>1, <2>2, <3>3, <4>5 DEF InputTopic, TypeOK, Reply, r
      <4> QED
        BY <4>1, <4>3, <4>4, <4>5
    <3> QED
      BY <2>6, <3>1, <3>2, <3>3 DEF Input
  <2>7. CASE GoUp
    BY <2>1, <2>3, <2>7 DEF GoUp, TypeOK, Reply
  <2>8. ASSUME NEW n \in Handed, Descend(n)
        PROVE  TypeOK'
    <3>1. n \in Node
      BY NavigatorAssumption
    <3>2. reply'.nodes \subseteq Node
      BY <2>8, <3>1 DEF Descend, Reply
    <3> QED
      BY <2>1, <2>4, <2>8, <3>1, <3>2 DEF Descend, TypeOK
  <2>9. CASE Reset
    BY <2>5, <2>9 DEF Reset, TypeOK, Reply
  <2>10. CASE UNCHANGED vars
    BY <2>1, <2>10 DEF vars, TypeOK
  <2> QED
    BY <2>6, <2>7, <2>8, <2>9, <2>10 DEF Next
<1> QED
  BY <1>1, <1>2, PTL DEF Spec

-----------------------------------------------------------------------------
\* What a step does to the current node, given what it did to the path
LEMMA CurrentAfterStep ==
  ASSUME Handed \subseteq Own, IsPath(stack), [Next]_vars
  PROVE  \/ Current' \in Node \ {Root} /\ Parent[Current'] = Current
         \/ Current \in Node \ {Root} /\ Current' = Parent[Current]
         \/ Current' = Root
         \/ Current' = Current
<1>1. CASE Pushed
  <2>1. PICK c \in Kids(Current) : stack' = Append(stack, c)
    BY <1>1 DEF Pushed
  <2>2. Current' = c
    BY <2>1, PushKeepsPath DEF Current
  <2>3. Current \in Node
    BY PathEnd DEF Current
  <2>4. c \in Node /\ Parent[c] = Current
    BY <2>3, KidsAreBelow
  <2>5. c # Root
    BY <2>3, <2>4, NodeAssumption, NavigatorAssumption
  <2> QED
    BY <2>2, <2>4, <2>5
<1>2. CASE Popped
  <2>1. Current' = Parent[Current]
    BY <1>2, PopKeepsPath DEF Popped, Current
  <2>2. Current # Root /\ Current \in Node
    BY <1>2, LongPathEndsBelowRoot, PathEnd DEF Popped, Current
  <2> QED
    BY <2>1, <2>2
<1>3. CASE Cleared
  BY <1>3, FirstEntryIsPath DEF Cleared, Current
<1>4. CASE UNCHANGED stack
  BY <1>4 DEF Current
<1> QED
  BY <1>1, <1>2, <1>3, <1>4, StepShapes

\* The Navigator implements TreeCursor: seen from the current node alone, a
\* call goes to a child, to the parent, back to the root, or nowhere.
THEOREM NavigatorImplementsCursor ==
  ASSUME Handed \subseteq Own
  PROVE  Spec => NavigatorIsCursor
<1>1. Init => Cursor!Init
  <2> SUFFICES ASSUME Init PROVE Cursor!Init
    OBVIOUS
  <2>1. Current = Root
    BY DEF Init, Current, Last
  <2> QED
    BY <2>1 DEF Cursor!Init
<1>2. IsPath(stack) /\ [Next]_vars => [Cursor!Next]_<<Current, TRUE>>
  <2> SUFFICES ASSUME IsPath(stack), [Next]_vars
               PROVE  Cursor!Next \/ UNCHANGED <<Current, TRUE>>
    OBVIOUS
  <2>1. Current \in Node
    BY PathEnd DEF Current
  <2>2. CASE Current' \in Node \ {Root} /\ Parent[Current'] = Current
    <3>1. Parent[Current'] # NoNode
      BY <2>1, <2>2, NodeAssumption
    <3> QED
      BY <2>2, <3>1 DEF Cursor!Next, Cursor!Down
  <2>3. CASE Current \in Node \ {Root} /\ Current' = Parent[Current]
    <3>1. CASE Parent[Current] # NoNode
      BY <2>3, <3>1 DEF Cursor!Next, Cursor!Climb
    <3>2. CASE Parent[Current] = NoNode
      BY <2>3, <3>2, PathIsKept, PathEnd, NodeAssumption DEF Current
    <3> QED
      BY <3>1, <3>2
  <2>4. CASE Current' = Root
    BY <2>4 DEF Cursor!Next, Cursor!Home
  <2>5. CASE Current' = Current
    BY <2>5
  <2> QED
    BY <2>2, <2>3, <2>4, <2>5, CurrentAfterStep
<1> QED
  BY <1>1, <1>2, PathInv, PTL DEF Spec, NavigatorIsCursor, Cursor!Spec

-----------------------------------------------------------------------------
\* What is displayed is where the reader is now, what is offered is one step
\* further down: in every reply of every call, and until the next one.
THEOREM RepliesStayAboutHere ==
  ASSUME Handed \subseteq Own
  PROVE  Spec => []RepliesAreAboutHere
<1>1. Init => RepliesAreAboutHere
  BY DEF Init, Reply, RepliesAreAboutHere
<1>2. IsPath(stack) /\ RepliesAreAboutHere /\ [Next]_vars => RepliesAreAboutHere'
  <2> SUFFICES ASSUME IsPath(stack), RepliesAreAboutHere, [Next]_vars
               PROVE  RepliesAreAboutHere'
    OBVIOUS
  <2>1. Current \in Node /\ Len(stack) \in Nat
    BY PathEnd DEF Current, IsPath
  <2>2. Depth = 0 => Current = Root
    <3>1. \A k \in Nat : k - 1 = 0 => k = 1
      OBVIOUS
    <3>2. stack[1] = Root
      BY DEF IsPath
    <3> QED
      BY <2>1, <3>1, <3>2 DEF Depth, Current, Last
  <2>3. ASSUME NEW line \in Line, NEW mode \in MatchMode, Input(line, mode)
        PROVE  RepliesAreAboutHere'
    <3>1. CASE InputEmpty
      <4>1. CASE Depth = 0
        <5>1. reply'.kind = "Exit" /\ Current' = Root
          BY <2>2, <3>1, <4>1 DEF InputEmpty, Reply, Current
        <5> QED
          BY <5>1 DEF RepliesAreAboutHere
      <4>2. CASE Depth # 0
        <5>1. reply'.kind = "GoUp"
          BY <3>1, <4>2 DEF InputEmpty, Reply
        <5> QED
          BY <5>1 DEF RepliesAreAboutHere
      <4> QED
        BY <4>1, <4>2
    <3>2. CASE InputQuestion
      <4>1. /\ reply'.kind = "ShowTopics" /\ reply'.nodes = Kids(Current)
            /\ Current' = Current
        BY <3>2 DEF InputQuestion, Reply, Current
      <4> QED
        BY <4>1 DEF RepliesAreAboutHere
    <3>3. CASE InputTopic(line, mode)
      <4> DEFINE r == Lookup(Current, line, mode)
      <4>1. /\ r.kind \in {"Found", "Ambiguous", "NotFound"}
            /\ r.kind = "Ambiguous" => r.nodes \subseteq Kids(Current)
            /\ r.kind = "Found" => r.node \in Kids(Current)
        BY <2>1, LookupOffersChildren, LookupFindsChild
      <4> HIDE DEF r
      <4>2. CASE r.kind = "Found"
        <5>1. reply'.kind = "DisplayTopic" /\ reply'.nodes = {r.node}
          BY <3>3, <4>2 DEF InputTopic, Reply, r
        <5>2. Current' = r.node
          <6>1. stack' = Append(stack, r.node)
            BY <3>3, <4>2 DEF InputTopic, r
          <6> QED
            BY <4>1, <4>2, <6>1, PushKeepsPath DEF Current
        <5> QED
          BY <5>1, <5>2 DEF RepliesAreAboutHere
      <4>3. CASE r.kind = "Ambiguous"
        <5>1. /\ reply'.kind \in {"Ambiguous", "DisplayMultiple"}
              /\ reply'.nodes = r.nodes /\ Current' = Current
          BY <3>3, <4>3 DEF InputTopic, Reply, Current, r
        <5> QED
          BY <4>1, <4>3, <5>1 DEF RepliesAreAboutHere
      <4>4. CASE r.kind = "NotFound"
        <5>1. /\ reply'.kind = "NotFound"
              /\ reply'.nodes = Kids(Current) /\ Current' = Current
          BY <3>3, <4>4 DEF InputTopic, Reply, Current, r
        <5> QED
          BY <5>1 DEF RepliesAreAboutHere
      <4> QED
        BY <4>1, <4>2, <4>3, <4>4
    <3> QED
      BY <2>3, <3>1, <3>2, <3>3 DEF Input
  <2>4. CASE GoUp \/ (\E n \in Handed : Descend(n))
    <3>1. reply'.kind \in {"True", "False"}
      BY <2>4 DEF GoUp, Descend, Reply
    <3> QED
      BY <3>1 DEF RepliesAreAboutHere
  <2>5. CASE Reset
    <3>1. reply'.kind = "Unit" /\ Current' = Root
      BY <2>5, FirstEntryIsPath DEF Reset, Reply, Current
    <3> QED
      BY <3>1 DEF RepliesAreAboutHere
  <2>6. CASE UNCHANGED vars
    BY <2>6 DEF vars, Current, RepliesAreAboutHere
  <2> QED
    BY <2>3, <2>4, <2>5, <2>6 DEF Next
<1> QED
  BY <1>1, <1>2, PathInv, PTL DEF Spec
=============================================================================
