----------------------------- MODULE SourceProofs ----------------------------
(***************************************************************************)
(* Why parsing cannot go wrong, for every number of files, lines and       *)
(* levels.  Phase 2 of the parser checks nothing: it is right because      *)
(* phase 1 let no level be skipped.  The inductive invariants carry that   *)
(* fact, a property of the list of topics, to the stack, and say what has  *)
(* found its place among the trees, the duplicates and the text so far.    *)
(***************************************************************************)
EXTENDS Source, SequenceTheorems, WellFoundedInduction, TLAPS

\* What an element of raw_topics is
TopicRecord == [level : 1..MaxLevel, name : Name \ TooLong,
                body : Seq(Text), children : Seq(Nat \ {0})]

\* Two lists with the same levels in the same places
SameLevels(s, t) ==
  Len(s) = Len(t) /\ \A i \in 1..Len(s) : s[i].level = t[i].level

\* The part of the type invariant that the argument needs
Typed ==
  /\ topics \in Seq(TopicRecord) /\ text \in Seq(Text)
  /\ phase \in {"scan", "assemble", "parsed", "merged"} \cup Failed
  /\ first \in 1..(Len(topics) + 1)
  /\ next \in Nat \ {0}
  /\ stack \in Seq(1..Len(topics))

\* A file begins with level 1, and its levels grow by one at most.
LevelsInSequence ==
  /\ first <= Len(topics) => topics[first].level = 1
  /\ \A i \in first..(Len(topics) - 1) : topics[i + 1].level <= topics[i].level + 1

\* While topics are left, the next one belongs at most one level below the top
\* of the stack; outside phase 2 the stack is empty.
NextFitsStack ==
  /\ phase # "assemble" => stack = <<>>
  /\ phase = "assemble" =>
       /\ next >= first
       /\ next <= Len(topics) => topics[next].level <= Len(stack) + 1

Inv == Typed /\ LevelsInSequence /\ NextFitsStack /\ StackIsALineOfDescent
-----------------------------------------------------------------------------
\* A set of numbers bounded by n that is not empty holds its maximum: what is
\* left to n is least for it.
LEMMA MaxIsMember ==
  ASSUME NEW n \in Nat, NEW S \in SUBSET (1..n), S # {}
  PROVE  Max(S) \in S /\ \A y \in S : Max(S) >= y
<1> DEFINE rest == {n - x : x \in S}
           R == OpToRel(<, Nat)
<1>1. rest \in SUBSET Nat /\ rest # {}
  <2>1. \A x \in S : x \in 1..n /\ n - x \in Nat
    OBVIOUS
  <2>2. rest \subseteq Nat
    BY <2>1
  <2>3. PICK x \in S : TRUE
    OBVIOUS
  <2>4. n - x \in rest
    OBVIOUS
  <2> QED
    BY <2>2, <2>4
<1>2. IsWellFoundedOn(R, Nat)
  BY NatLessThanWellFounded
<1> HIDE DEF rest, R
<1>3. PICK least \in rest : \A y \in rest : ~ (<<y, least>> \in R)
  BY <1>1, <1>2, WFMin
<1>4. PICK x \in S : least = n - x
  BY <1>3 DEF rest
<1>5. \A y \in S : x >= y
  <2>1. TAKE y \in S
  <2>2. n - y \in Nat /\ n - x \in Nat /\ x \in Nat /\ y \in Nat
    OBVIOUS
  <2>3. n - y \in rest
    BY DEF rest
  <2>4. ~ (n - y < n - x)
    BY <1>3, <1>4, <2>2, <2>3 DEF R, OpToRel
  <2> QED
    BY <2>2, <2>4
<1> QED
  BY <1>5 DEF Max

\* The body of a topic is made of lines of text.
LEMMA TrimmedIsText ==
  ASSUME NEW lines \in Seq(Text)
  PROVE  Trimmed(lines) \in Seq(Text)
<1> DEFINE kept == {i \in DOMAIN lines : lines[i] # Empty}
<1>1. CASE kept = {}
  BY <1>1 DEF Trimmed
<1>2. CASE kept # {}
  <2>1. Len(lines) \in Nat /\ kept \in SUBSET (1..Len(lines))
    OBVIOUS
  <2>2. Max(kept) \in 1..Len(lines)
    BY <1>2, <2>1, MaxIsMember
  <2> HIDE DEF kept
  <2>3. \A i \in 1..Max(kept) : lines[i] \in Text
    BY <2>1, <2>2
  <2>4. SubSeq(lines, 1, Max(kept)) \in Seq(Text)
    BY <2>2, <2>3, SubSeqProperties
  <2> QED
    BY <1>2, <2>4 DEF Trimmed, kept
<1> QED
  BY <1>1, <1>2

\* t is s with another body and other children in one place.
Changed(s, t, k, body, children) ==
  /\ t \in Seq(TopicRecord) /\ Len(t) = Len(s)
  /\ t[k].level = s[k].level /\ t[k].name = s[k].name
  /\ t[k].body = body /\ t[k].children = children
  /\ \A i \in 1..Len(s) : i # k => t[i] = s[i]

\* A topic gets a body, or a child more.
LEMMA OneTopicChanges ==
  ASSUME NEW s \in Seq(TopicRecord), NEW k \in 1..Len(s)
  PROVE  /\ \A b \in Seq(Text) : Changed(s, [s EXCEPT ![k].body = b], k, b, s[k].children)
         /\ \A c \in Nat \ {0} : Changed(s, [s EXCEPT ![k].children = Append(@, c)], k,
                                       s[k].body, Append(s[k].children, c))
<1>1. s[k] \in TopicRecord
  OBVIOUS
<1>2. ASSUME NEW b \in Seq(Text)
      PROVE  Changed(s, [s EXCEPT ![k].body = b], k, b, s[k].children)
  <2> DEFINE r == [s[k] EXCEPT !.body = b]
  <2>1. /\ r \in TopicRecord /\ r.level = s[k].level /\ r.name = s[k].name
        /\ r.body = b /\ r.children = s[k].children
    BY <1>1 DEF TopicRecord
  <2> HIDE DEF r
  <2>2. Changed(s, [s EXCEPT ![k] = r], k, b, s[k].children)
    BY <2>1 DEF Changed
  <2> QED
    BY <2>2 DEF r
<1>3. ASSUME NEW c \in Nat \ {0}
      PROVE  Changed(s, [s EXCEPT ![k].children = Append(@, c)], k,
                     s[k].body, Append(s[k].children, c))
  <2> DEFINE list == Append(s[k].children, c)
             r == [s[k] EXCEPT !.children = Append(@, c)]
  <2>1. /\ r \in TopicRecord /\ r.level = s[k].level /\ r.name = s[k].name
        /\ r.body = s[k].body /\ r.children = list
    <3>1. s[k].children \in Seq(Nat \ {0})
      BY <1>1 DEF TopicRecord
    <3>2. list \in Seq(Nat \ {0})
      BY <3>1
    <3>3. r = [s[k] EXCEPT !.children = list]
      BY <1>1 DEF TopicRecord
    <3> HIDE DEF list, r
    <3> QED
      BY <1>1, <3>2, <3>3 DEF TopicRecord
  <2> HIDE DEF r, list
  <2>2. Changed(s, [s EXCEPT ![k] = r], k, s[k].body, list)
    BY <2>1 DEF Changed
  <2> QED
    BY <2>2 DEF r, list
<1> QED
  BY <1>2, <1>3

\* A new body or a new child changes no level.
LEMMA LevelsAreKept ==
  ASSUME NEW s \in Seq(TopicRecord), NEW k \in 1..Len(s)
  PROVE  /\ \A b \in Seq(Text) :
              LET t == [s EXCEPT ![k].body = b]
              IN  t \in Seq(TopicRecord) /\ SameLevels(s, t)
         /\ \A c \in Nat \ {0} :
              LET t == [s EXCEPT ![k].children = Append(@, c)]
              IN  t \in Seq(TopicRecord) /\ SameLevels(s, t)
<1>1. ASSUME NEW t, NEW body, NEW children, Changed(s, t, k, body, children)
      PROVE  t \in Seq(TopicRecord) /\ SameLevels(s, t)
  BY <1>1 DEF Changed, SameLevels
<1> QED
  BY <1>1, OneTopicChanges

\* Saving the body changes no level.
LEMMA SavedBodyKeepsLevels ==
  ASSUME topics \in Seq(TopicRecord), text \in Seq(Text), first \in Nat \ {0}
  PROVE  BodySaved \in Seq(TopicRecord) /\ SameLevels(topics, BodySaved)
<1>1. CASE AnyTopic
  <2>1. Len(topics) \in 1..Len(topics)
    BY <1>1 DEF AnyTopic
  <2> QED
    BY <1>1, <2>1, LevelsAreKept DEF BodySaved
<1>2. CASE ~ AnyTopic
  BY <1>2 DEF BodySaved, SameLevels
<1> QED
  BY <1>1, <1>2

\* A header that is accepted keeps the levels in sequence.
LEMMA HeaderKeepsSequence ==
  ASSUME Inv, phase = "scan", NEW l \in 1..MaxLevel, NEW n \in Name,
         ReadHeader(l, n), UNCHANGED <<first, stack>>
  PROVE  Inv'
<1>1. /\ topics \in Seq(TopicRecord) /\ text \in Seq(Text)
      /\ first \in 1..(Len(topics) + 1) /\ Len(topics) \in Nat
      /\ next \in Nat \ {0} /\ stack = <<>>
  BY DEF Inv, Typed, NextFitsStack
<1> DEFINE old == BodySaved
<1>2. old \in Seq(TopicRecord) /\ SameLevels(topics, old)
  BY <1>1, SavedBodyKeepsLevels
<1> HIDE DEF old
<1>3. NewTopic(l, n) \in TopicRecord /\ NewTopic(l, n).level = l
  <2>1. n \in Name \ TooLong
    BY DEF ReadHeader
  <2>2. <<>> \in Seq(Text) /\ <<>> \in Seq(Nat \ {0})
    OBVIOUS
  <2> QED
    BY <2>1, <2>2 DEF NewTopic, TopicRecord
<1>4. /\ topics' = Append(old, NewTopic(l, n))
      /\ text' = <<>> /\ phase' = phase /\ next' = next
      /\ first' = first /\ stack' = stack
  BY DEF ReadHeader, old
<1>5. /\ topics' \in Seq(TopicRecord) /\ Len(topics') = Len(topics) + 1
      /\ \A i \in 1..Len(topics) : topics'[i].level = topics[i].level
      /\ topics'[Len(topics) + 1].level = l
  BY <1>1, <1>2, <1>3, <1>4 DEF SameLevels
<1>6. Typed'
  <2>1. text' \in Seq(Text) /\ stack' \in Seq(1..Len(topics'))
    BY <1>1, <1>4
  <2> QED
    BY <1>1, <1>4, <1>5, <2>1 DEF Inv, Typed
<1>7. LevelsInSequence'
  <2>1. l <= LastLevel + 1
    BY DEF ReadHeader, InSequence
  <2>2. CASE first = Len(topics) + 1
    <3>1. LastLevel = 0
      BY <1>1, <2>2 DEF LastLevel, AnyTopic
    <3>2. l = 1
      BY <2>1, <3>1
    <3> QED
      BY <1>1, <1>4, <1>5, <2>2, <3>2 DEF LevelsInSequence
  <2>3. CASE first <= Len(topics)
    <3>1. l <= topics[Len(topics)].level + 1
      BY <2>1, <2>3 DEF LastLevel, AnyTopic
    <3>2. topics'[first'].level = 1
      BY <1>1, <1>4, <1>5, <2>3 DEF Inv, LevelsInSequence
    <3>3. \A i \in first..(Len(topics) - 1) :
            topics'[i + 1].level <= topics'[i].level + 1
      BY <1>1, <1>5 DEF Inv, LevelsInSequence
    <3>4. \A i \in first..Len(topics) :
            topics'[i + 1].level <= topics'[i].level + 1
      <4>1. TAKE i \in first..Len(topics)
      <4>2. CASE i = Len(topics)
        BY <1>1, <1>5, <2>3, <3>1, <4>2
      <4>3. CASE i # Len(topics)
        BY <1>1, <3>3, <4>3
      <4> QED
        BY <4>2, <4>3
    <3> QED
      BY <1>1, <1>4, <1>5, <3>2, <3>4 DEF LevelsInSequence
  <2> QED
    BY <1>1, <2>2, <2>3
<1>8. NextFitsStack' /\ StackIsALineOfDescent'
  BY <1>1, <1>4 DEF NextFitsStack, StackIsALineOfDescent
<1> QED
  BY <1>6, <1>7, <1>8 DEF Inv

\* Closing the top of the stack: it is the last of a line of descent, so what is
\* left is one too, and the list of topics keeps its levels.
LEMMA CloseTopKeepsLine ==
  ASSUME Inv, phase = "assemble", stack # <<>>, CloseTop,
         next <= Len(topics) => Ends(next),
         UNCHANGED <<first, text, phase, next>>
  PROVE  Inv'
<1>1. /\ topics \in Seq(TopicRecord) /\ text \in Seq(Text)
      /\ first \in 1..(Len(topics) + 1) /\ Len(topics) \in Nat
      /\ next \in Nat \ {0} /\ stack \in Seq(1..Len(topics))
  BY DEF Inv, Typed
<1>2. Len(stack) \in 1..Len(stack) /\ Len(stack) \in Nat
  BY <1>1, EmptySeq
<1>3. stack[Len(stack)] \in 1..Len(topics) /\ topics[stack[Len(stack)]].level = Len(stack)
  BY <1>1, <1>2 DEF Inv, StackIsALineOfDescent
<1> DEFINE front == SubSeq(stack, 1, Len(stack) - 1)
<1>4. /\ front \in Seq(1..Len(topics)) /\ Len(front) = Len(stack) - 1
      /\ \A i \in 1..(Len(stack) - 1) : front[i] = stack[i]
  <2>1. CASE Len(stack) = 1
    BY <1>1, <2>1, SubSeqEmpty
  <2>2. CASE Len(stack) # 1
    <3>1. Len(stack) - 1 \in 1..Len(stack)
      BY <1>2, <2>2
    <3>2. \A i \in 1..(Len(stack) - 1) : stack[i] \in 1..Len(topics)
      BY <1>1, <1>2
    <3> QED
      BY <1>1, <3>1, <3>2, SubSeqProperties
  <2> QED
    BY <2>1, <2>2
<1> HIDE DEF front
<1>5. topics' \in Seq(TopicRecord) /\ SameLevels(topics, topics')
  <2>1. CASE Len(stack) = 1
    BY <1>1, <2>1 DEF CloseTop, SameLevels
  <2>2. CASE Len(stack) # 1
    <3>1. front[Len(front)] \in 1..Len(topics)
      BY <1>2, <1>4, <2>2
    <3>2. Top \in Nat \ {0}
      BY <1>3 DEF Top, Last
    <3>3. topics' = [topics EXCEPT ![front[Len(front)]].children = Append(@, Top)]
      BY <2>2 DEF CloseTop, Last, Front, front
    <3> QED
      BY <1>1, <3>1, <3>2, <3>3, LevelsAreKept
  <2> QED
    BY <2>1, <2>2
<1>6. stack' = front
  BY DEF CloseTop, Front, front
<1>7. Typed'
  <2>1. Len(topics') = Len(topics)
    BY <1>5 DEF SameLevels
  <2> QED
    BY <1>1, <1>4, <1>5, <1>6, <2>1 DEF Inv, Typed
<1>8. LevelsInSequence'
  <2>1. /\ Len(topics') = Len(topics) /\ first' = first
        /\ \A i \in 1..Len(topics) : topics'[i].level = topics[i].level
    BY <1>5 DEF SameLevels
  <2> QED
    BY <1>1, <2>1 DEF Inv, LevelsInSequence
<1>9. StackIsALineOfDescent'
  <2>1. ASSUME NEW k \in 1..(Len(stack) - 1)
        PROVE  topics'[front[k]].level = k
    <3>1. k \in DOMAIN stack /\ front[k] = stack[k] /\ stack[k] \in 1..Len(topics)
      <4>1. k \in 1..Len(stack)
        BY <1>2
      <4>2. front[k] = stack[k]
        BY <1>4
      <4>3. k \in DOMAIN stack
        BY <1>1, <4>1
      <4> QED
        BY <1>1, <4>2, <4>3
    <3>2. topics[stack[k]].level = k
      BY <3>1 DEF Inv, StackIsALineOfDescent
    <3> QED
      BY <1>5, <3>1, <3>2 DEF SameLevels
  <2>2. DOMAIN front = 1..(Len(stack) - 1)
    BY <1>4
  <2> QED
    BY <1>6, <2>1, <2>2 DEF StackIsALineOfDescent
<1>10. NextFitsStack'
  <2>1. next <= Len(topics) => topics[next].level <= Len(stack)
    BY <1>3 DEF Ends, Top, Last
  <2>2. next <= Len(topics) => topics'[next].level <= (Len(stack) - 1) + 1
    BY <1>1, <1>2, <1>5, <2>1 DEF SameLevels
  <2>3. Len(topics') = Len(topics) /\ Len(stack') = Len(stack) - 1 /\ next >= first
    BY <1>4, <1>5, <1>6 DEF SameLevels, Inv, NextFitsStack
  <2> QED
    BY <2>2, <2>3 DEF NextFitsStack
<1> QED
  BY <1>7, <1>8, <1>9, <1>10 DEF Inv

\* Pushing: nothing on the stack is ended by the new topic, so it is exactly one
\* level below the top.
LEMMA PushKeepsLine ==
  ASSUME Inv, Push
  PROVE  Inv'
<1>1. /\ topics \in Seq(TopicRecord) /\ text \in Seq(Text)
      /\ first \in 1..(Len(topics) + 1) /\ Len(topics) \in Nat
      /\ next \in Nat \ {0} /\ stack \in Seq(1..Len(topics))
      /\ Len(stack) \in Nat
  BY DEF Inv, Typed
<1>2. /\ phase = "assemble" /\ next \in 1..Len(topics) /\ next >= first
      /\ topics[next].level <= Len(stack) + 1
  BY <1>1 DEF Push, Inv, NextFitsStack
<1>3. /\ stack' = Append(stack, next) /\ next' = next + 1
      /\ topics' = [topics EXCEPT ![next].body = Trimmed(topics[next].body)]
      /\ UNCHANGED <<first, text, phase>>
  BY DEF Push
<1>4. topics[next] \in TopicRecord
  BY <1>1, <1>2
<1>5. topics[next].level = Len(stack) + 1
  <2>1. topics[next].level \in 1..MaxLevel
    BY <1>4 DEF TopicRecord
  <2>2. CASE stack = <<>>
    <3>1. Len(stack) = 0
      BY <2>2
    <3> QED
      BY <1>2, <2>1, <3>1, SourceAssumption
  <2>3. CASE stack # <<>>
    <3>1. Len(stack) \in 1..Len(stack)
      BY <1>1, <2>3, EmptySeq
    <3>2. topics[Top].level = Len(stack)
      BY <1>1, <3>1 DEF Inv, StackIsALineOfDescent, Top, Last
    <3>3. ~ (Len(stack) >= topics[next].level)
      BY <2>3, <3>2 DEF Push, Ends
    <3> QED
      BY <1>1, <1>2, <2>1, <3>3, SourceAssumption
  <2> QED
    BY <2>2, <2>3
<1>6. topics' \in Seq(TopicRecord) /\ SameLevels(topics, topics')
  <2>1. Trimmed(topics[next].body) \in Seq(Text)
    BY <1>4, TrimmedIsText DEF TopicRecord
  <2> QED
    BY <1>1, <1>2, <1>3, <2>1, LevelsAreKept
<1>7. /\ Len(topics') = Len(topics)
      /\ \A i \in 1..Len(topics) : topics'[i].level = topics[i].level
  BY <1>6 DEF SameLevels
<1>8. /\ stack' \in Seq(1..Len(topics)) /\ Len(stack') = Len(stack) + 1
      /\ \A i \in 1..Len(stack) : stack'[i] = stack[i]
      /\ stack'[Len(stack) + 1] = next
  BY <1>1, <1>2, <1>3
<1>9. Typed'
  <2>1. next' \in Nat \ {0}
    BY <1>1, <1>3
  <2> QED
    BY <1>1, <1>3, <1>6, <1>7, <1>8, <2>1 DEF Inv, Typed
<1>10. LevelsInSequence'
  <2>1. LevelsInSequence
    BY DEF Inv
  <2> QED
    BY <1>1, <1>3, <1>7, <2>1 DEF LevelsInSequence
<1>11. StackIsALineOfDescent'
  <2>1. ASSUME NEW k \in 1..(Len(stack) + 1)
        PROVE  topics'[stack'[k]].level = k
    <3>1. CASE k = Len(stack) + 1
      BY <1>2, <1>5, <1>7, <1>8, <3>1
    <3>2. CASE k # Len(stack) + 1
      <4>1. k \in DOMAIN stack /\ k \in 1..Len(stack) /\ stack[k] \in 1..Len(topics)
        BY <1>1, <3>2
      <4>2. topics[stack[k]].level = k
        BY <4>1 DEF Inv, StackIsALineOfDescent
      <4> QED
        BY <1>7, <1>8, <4>1, <4>2
    <3> QED
      BY <3>1, <3>2
  <2> QED
    BY <1>8, <2>1 DEF StackIsALineOfDescent
<1>12. NextFitsStack'
  <2>1. ASSUME next + 1 <= Len(topics)
        PROVE  topics'[next + 1].level <= (Len(stack) + 1) + 1
    <3>1. topics[next + 1].level <= topics[next].level + 1
      BY <1>1, <1>2, <2>1 DEF Inv, LevelsInSequence
    <3> QED
      BY <1>1, <1>2, <1>5, <1>7, <2>1, <3>1
  <2>2. next + 1 >= first
    BY <1>1, <1>2
  <2> QED
    BY <1>2, <1>3, <1>7, <1>8, <2>1, <2>2 DEF NextFitsStack
<1> QED
  BY <1>9, <1>10, <1>11, <1>12 DEF Inv

\* Every other step leaves the stack alone, and begins with an empty one where
\* it enters phase 2.
LEMMA InvIsKept ==
  ASSUME Inv, [Next]_vars
  PROVE  Inv'
<1>1. ASSUME NEW l \in 1..MaxLevel, NEW n \in Name, ReadLine(Header(l, n))
      PROVE  Inv'
  <2>1. Header(l, n).level = l /\ Header(l, n).name = n /\ "text" \notin DOMAIN Header(l, n)
    BY DEF Header
  <2>2. CASE ReadHeader(l, n)
    BY <1>1, <2>1, <2>2, HeaderKeepsSequence DEF ReadLine
  <2>3. CASE RejectHeader(l, n)
    <3>1. /\ phase = "scan" /\ phase' \in Failed
          /\ UNCHANGED <<topics, text, next, first, stack>>
      BY <1>1, <2>3 DEF ReadLine, RejectHeader, Failed
    <3> QED
      BY <3>1 DEF Inv, Typed, LevelsInSequence, NextFitsStack, StackIsALineOfDescent, Failed
  <2> QED
    BY <1>1, <2>1, <2>2, <2>3 DEF ReadLine
<1>2. ASSUME NEW t \in Text, ReadLine(TextLine(t))
      PROVE  Inv'
  <2>1. /\ phase' = phase /\ UNCHANGED <<topics, next, first, stack>>
        /\ text' = IF AnyTopic THEN Append(text, t) ELSE text
    BY <1>2 DEF ReadLine, TextLine, KeepText
  <2>2. text' \in Seq(Text)
    BY <2>1 DEF Inv, Typed
  <2> QED
    BY <2>1, <2>2 DEF Inv, Typed, LevelsInSequence, NextFitsStack, StackIsALineOfDescent
<1>3. CASE ReadFails
  <2>1. /\ phase = "scan" /\ phase' \in Failed
        /\ UNCHANGED <<topics, text, next, first, stack>>
    BY <1>3 DEF ReadFails, Failed
  <2> QED
    BY <2>1 DEF Inv, Typed, LevelsInSequence, NextFitsStack, StackIsALineOfDescent, Failed
<1>4. CASE EndOfFile
  <2>1. /\ phase = "scan" /\ phase' = "assemble" /\ topics' = BodySaved
        /\ text' = <<>> /\ next' = first /\ UNCHANGED <<first, stack>>
    BY <1>4 DEF EndOfFile
  <2>2. /\ topics \in Seq(TopicRecord) /\ first \in 1..(Len(topics) + 1)
        /\ Len(topics) \in Nat /\ stack = <<>> /\ text \in Seq(Text)
    BY <2>1 DEF Inv, Typed, NextFitsStack
  <2>3. topics' \in Seq(TopicRecord) /\ SameLevels(topics, topics')
    BY <2>1, <2>2, SavedBodyKeepsLevels
  <2>4. /\ Len(topics') = Len(topics)
        /\ \A i \in 1..Len(topics) : topics'[i].level = topics[i].level
    BY <2>3 DEF SameLevels
  <2>5. Typed'
    <3>1. text' \in Seq(Text) /\ next' \in Nat \ {0} /\ stack' \in Seq(1..Len(topics'))
      BY <2>1, <2>2
    <3> QED
      BY <2>1, <2>2, <2>3, <2>4, <3>1 DEF Typed
  <2>6. LevelsInSequence'
    BY <2>1, <2>2, <2>4 DEF Inv, LevelsInSequence
  <2>7. NextFitsStack'
    <3>1. first <= Len(topics) => topics'[first].level = 1
      BY <2>2, <2>4 DEF Inv, LevelsInSequence
    <3>2. stack' = <<>> /\ Len(stack') = 0
      BY <2>1, <2>2
    <3> QED
      BY <2>1, <2>2, <2>4, <3>1, <3>2 DEF NextFitsStack
  <2>8. StackIsALineOfDescent'
    BY <2>1, <2>2 DEF StackIsALineOfDescent
  <2> QED
    BY <2>5, <2>6, <2>7, <2>8 DEF Inv
<1>5. CASE Pop
  BY <1>5, CloseTopKeepsLine DEF Pop
<1>6. CASE Push
  BY <1>6, PushKeepsLine
<1>7. CASE Flush
  <2>1. ~ (next <= Len(topics))
    BY <1>7 DEF Flush, Inv, Typed
  <2> QED
    BY <1>7, <2>1, CloseTopKeepsLine DEF Flush
<1>8. CASE FinishFile \/ Merge
  <2>1. /\ phase' \in {"parsed", "merged"} /\ stack = <<>>
        /\ UNCHANGED <<topics, text, next, first, stack>>
    BY <1>8 DEF FinishFile, Merge, Inv, NextFitsStack
  <2> QED
    BY <2>1 DEF Inv, Typed, LevelsInSequence, NextFitsStack, StackIsALineOfDescent
<1>9. CASE NextFile
  <2>1. /\ phase' = "scan" /\ stack = <<>> /\ first' = Len(topics) + 1
        /\ UNCHANGED <<topics, text, next, stack>>
    BY <1>9 DEF NextFile, Inv, NextFitsStack
  <2>2. Len(topics) \in Nat
    BY DEF Inv, Typed
  <2>3. Typed'
    BY <2>1, <2>2 DEF Inv, Typed
  <2>4. LevelsInSequence'
    BY <2>1, <2>2 DEF LevelsInSequence
  <2> QED
    BY <2>1, <2>3, <2>4 DEF Inv, NextFitsStack, StackIsALineOfDescent
<1>10. CASE UNCHANGED vars
  BY <1>10 DEF vars, Inv, Typed, LevelsInSequence, NextFitsStack, StackIsALineOfDescent
<1> QED
  BY <1>1, <1>2, <1>3, <1>4, <1>5, <1>6, <1>7, <1>8, <1>9, <1>10 DEF Next

\* In every state of the parser: the k-th entry of the stack has level k.
THEOREM StackStaysLineOfDescent == Spec => []StackIsALineOfDescent
<1>1. Init => Inv
  BY DEF Init, Inv, Typed, LevelsInSequence, NextFitsStack, StackIsALineOfDescent
<1>2. Inv /\ [Next]_vars => Inv'
  BY InvIsKept
<1>3. Inv => StackIsALineOfDescent
  BY DEF Inv
<1> QED
  BY <1>1, <1>2, <1>3, PTL DEF Spec
-----------------------------------------------------------------------------
(***************************************************************************)
(* Types                                                                   *)
(***************************************************************************)

Line == [level : 1..MaxLevel, name : Name] \cup [text : Text]

\* What the type invariant says beyond Typed
ListsTyped ==
  /\ files \in Seq(Seq(Line)) /\ files # <<>>
  /\ next <= Len(topics) + 1
  /\ level1 \in Seq(1..Len(topics)) /\ trees \in Seq(1..Len(topics))

\* The current file is a list of lines, and reading adds one.
LEMMA LineIsRead ==
  ASSUME ListsTyped
  PROVE  /\ Len(files) \in Nat \ {0} /\ Len(files) \in DOMAIN files
         /\ File = files[Len(files)] /\ File \in Seq(Line)
         /\ \A x \in Line : LineRead(x) =>
              /\ files' \in Seq(Seq(Line)) /\ files' # <<>>
              /\ Len(files') = Len(files) /\ File' = Append(File, x)
<1>1. /\ files \in Seq(Seq(Line)) /\ Len(files) \in Nat \ {0} /\ Len(files) \in DOMAIN files
      /\ DOMAIN files = 1..Len(files)
  BY EmptySeq DEF ListsTyped
<1>2. File = files[Len(files)] /\ File \in Seq(Line)
  BY <1>1 DEF File, Last
<1>3. ASSUME NEW x \in Line, LineRead(x)
      PROVE  /\ files' \in Seq(Seq(Line)) /\ files' # <<>>
             /\ Len(files') = Len(files) /\ File' = Append(File, x)
  <2> DEFINE more == Append(File, x)
  <2>1. more \in Seq(Line)
    BY <1>2
  <2>2. files' = [files EXCEPT ![Len(files)] = more]
    BY <1>2, <1>3 DEF LineRead
  <2> HIDE DEF more
  <2>3. files' \in Seq(Seq(Line)) /\ Len(files') = Len(files) /\ files'[Len(files)] = more
    BY <1>1, <2>1, <2>2
  <2> QED
    BY <1>1, <2>3, EmptySeq DEF File, Last, more
<1> QED
  BY <1>1, <1>2, <1>3

\* What is in a list over a set is in one over a larger set.
LEMMA SeqsGrow ==
  ASSUME NEW n \in Nat, NEW m \in Nat, n <= m, NEW s \in Seq(1..n)
  PROVE  s \in Seq(1..m)
OBVIOUS

\* The list that filter() builds from the first n entries
FilterUpTo(f, list, passing, n) ==
  f = [i \in 0..n |-> IF i = 0 THEN <<>>
                      ELSE IF i \in passing THEN Append(f[i - 1], list[i]) ELSE f[i - 1]]

\* A set that holds 0 and with every number the next one holds all of them.
LEMMA InductionOnNat ==
  ASSUME NEW S, 0 \in S, \A k \in Nat : k \in S => k + 1 \in S
  PROVE  Nat \subseteq S
<1> DEFINE out == Nat \ S
           R == OpToRel(<, Nat)
<1> SUFFICES ASSUME out # {} PROVE FALSE
  OBVIOUS
<1>1. IsWellFoundedOn(R, Nat)
  BY NatLessThanWellFounded
<1>2. PICK least \in out : \A k \in out : ~ (<<k, least>> \in R)
  <2>1. out \in SUBSET Nat
    OBVIOUS
  <2> HIDE DEF out, R
  <2> QED
    BY <1>1, <2>1, WFMin
<1>3. least \in Nat /\ least \notin S /\ \A k \in Nat : k \notin S => ~ (k < least)
  BY <1>2 DEF OpToRel
<1>4. least # 0 /\ least - 1 \in Nat /\ least - 1 < least /\ (least - 1) + 1 = least
  BY <1>3
<1> QED
  BY <1>3, <1>4

\* Such a list exists.
LEMMA FilterUpToExists ==
  ASSUME NEW list, NEW passing, NEW n \in Nat
  PROVE  \E f : FilterUpTo(f, list, passing, n)
<1> DEFINE T == {k \in Nat : \E f : FilterUpTo(f, list, passing, k)}
<1>1. 0 \in T
  <2> DEFINE one == [i \in 0..0 |-> <<>>]
  <2>1. one = [i \in 0..0 |-> IF i = 0 THEN <<>>
                ELSE IF i \in passing THEN Append(one[i - 1], list[i]) ELSE one[i - 1]]
    OBVIOUS
  <2> HIDE DEF one
  <2>2. FilterUpTo(one, list, passing, 0)
    BY <2>1 DEF FilterUpTo
  <2> QED
    BY <2>2
<1>2. ASSUME NEW k \in Nat, k \in T PROVE k + 1 \in T
  <2>1. PICK f : FilterUpTo(f, list, passing, k)
    BY <1>2
  <2>2. \A i \in 0..k : f[i] = IF i = 0 THEN <<>>
                ELSE IF i \in passing THEN Append(f[i - 1], list[i]) ELSE f[i - 1]
    BY <2>1 DEF FilterUpTo
  <2> DEFINE last == IF k + 1 \in passing THEN Append(f[k], list[k + 1]) ELSE f[k]
             g == [i \in 0..(k + 1) |-> IF i = k + 1 THEN last ELSE f[i]]
  <2>3. ASSUME NEW i \in 0..(k + 1)
        PROVE  g[i] = IF i = 0 THEN <<>>
                ELSE IF i \in passing THEN Append(g[i - 1], list[i]) ELSE g[i - 1]
    <3>1. CASE i = k + 1
      <4>1. i # 0 /\ i - 1 = k /\ g[k] = f[k] /\ g[i] = last
        BY <3>1
      <4> QED
        BY <3>1, <4>1
    <3>2. CASE i # k + 1
      <4>1. i \in 0..k /\ (i # 0 => i - 1 \in 0..(k + 1) /\ i - 1 # k + 1)
        BY <3>2
      <4>2. g[i] = f[i] /\ (i # 0 => g[i - 1] = f[i - 1])
        BY <3>2, <4>1
      <4> HIDE DEF g
      <4> QED
        BY <2>2, <4>1, <4>2
    <3> QED
      BY <3>1, <3>2
  <2>4. g = [i \in 0..(k + 1) |-> g[i]]
    OBVIOUS
  <2> HIDE DEF g, last
  <2>5. FilterUpTo(g, list, passing, k + 1)
    BY <2>3, <2>4 DEF FilterUpTo
  <2> QED
    BY <2>5
<1> HIDE DEF T
<1>3. Nat \subseteq T
  BY <1>1, <1>2, InductionOnNat
<1> QED
  BY <1>3 DEF T

Ascends(list) == \A i, j \in 1..Len(list) : i < j => list[i] < list[j]

\* What is in the filtered list r after the first n entries of list
FilteredTo(r, list, passing, n) ==
  /\ \A i \in 1..Len(r) : \E m \in passing : m <= n /\ r[i] = list[m]
  /\ \A m \in passing : m <= n => \E i \in 1..Len(r) : r[i] = list[m]
  /\ Ascends(list) => Ascends(r)

\* filter() keeps exactly the entries that pass, in their order.
LEMMA FilteredIs ==
  ASSUME NEW S \in SUBSET Nat, NEW list \in Seq(S), NEW passing \in SUBSET (1..Len(list))
  PROVE  /\ Filtered(list, passing) \in Seq(S)
         /\ FilteredTo(Filtered(list, passing), list, passing, Len(list))
<1> DEFINE f == CHOOSE g : FilterUpTo(g, list, passing, Len(list))
<1>1. Filtered(list, passing) = f[Len(list)]
  BY DEF Filtered, FilterUpTo
<1>2. FilterUpTo(f, list, passing, Len(list))
  <2>1. Len(list) \in Nat
    OBVIOUS
  <2> QED
    BY <2>1, FilterUpToExists
<1> HIDE DEF f
<1>3. \A i \in 0..Len(list) : f[i] = IF i = 0 THEN <<>>
                ELSE IF i \in passing THEN Append(f[i - 1], list[i]) ELSE f[i - 1]
  BY <1>2 DEF FilterUpTo
<1> DEFINE Good(n) == f[n] \in Seq(S) /\ FilteredTo(f[n], list, passing, n)
           T == {n \in Nat : n <= Len(list) => Good(n)}
<1>4. 0 \in T
  <2>1. f[0] = <<>>
    BY <1>3
  <2>2. Len(f[0]) = 0 /\ f[0] \in Seq(S)
    BY <2>1
  <2> QED
    BY <2>2 DEF FilteredTo, Ascends
<1>5. ASSUME NEW n \in Nat, n \in T PROVE n + 1 \in T
  <2> SUFFICES ASSUME n + 1 <= Len(list) PROVE Good(n + 1)
    OBVIOUS
  <2>0. n + 1 \in 1..Len(list) /\ n + 1 \in 0..Len(list) /\ n + 1 # 0 /\ (n + 1) - 1 = n
    OBVIOUS
  <2>1. f[n] \in Seq(S) /\ FilteredTo(f[n], list, passing, n)
    BY <1>5, <2>0
  <2>2. f[n + 1] = IF n + 1 \in passing THEN Append(f[n], list[n + 1]) ELSE f[n]
    BY <1>3, <2>0
  <2>3. CASE n + 1 \notin passing
    <3>1. f[n + 1] = f[n]
      BY <2>2, <2>3
    <3>2. \A m \in passing : m <= n + 1 <=> m <= n
      BY <2>3
    <3> QED
      BY <2>1, <3>1, <3>2 DEF FilteredTo
  <2>4. CASE n + 1 \in passing
    <3> DEFINE r == f[n]
               t == f[n + 1]
    <3>1. t = Append(r, list[n + 1]) /\ list[n + 1] \in S /\ r \in Seq(S)
      BY <2>0, <2>1, <2>2, <2>4
    <3> HIDE DEF r, t
    <3>2. /\ t \in Seq(S) /\ Len(t) = Len(r) + 1 /\ Len(r) \in Nat
          /\ \A i \in 1..Len(r) : t[i] = r[i]
          /\ t[Len(r) + 1] = list[n + 1]
      BY <3>1
    <3>3. FilteredTo(r, list, passing, n)
      BY <2>1 DEF r
    <3>4. ASSUME NEW i \in 1..Len(t)
          PROVE  \E m \in passing : m <= n + 1 /\ t[i] = list[m]
      <4>1. CASE i = Len(r) + 1
        BY <2>4, <3>2, <4>1
      <4>2. CASE i # Len(r) + 1
        <5>1. i \in 1..Len(r) /\ t[i] = r[i]
          BY <3>2, <4>2
        <5>2. PICK m \in passing : m <= n /\ r[i] = list[m]
          BY <3>3, <5>1 DEF FilteredTo
        <5> QED
          BY <5>1, <5>2
      <4> QED
        BY <4>1, <4>2
    <3>5. ASSUME NEW m \in passing, m <= n + 1
          PROVE  \E i \in 1..Len(t) : t[i] = list[m]
      <4>1. CASE m = n + 1
        <5>1. Len(r) + 1 \in 1..Len(t)
          BY <3>2
        <5> QED
          BY <3>2, <4>1, <5>1
      <4>2. CASE m # n + 1
        <5>1. m <= n
          BY <3>5, <4>2
        <5>2. PICK i \in 1..Len(r) : r[i] = list[m]
          BY <3>3, <5>1 DEF FilteredTo
        <5>3. i \in 1..Len(t) /\ t[i] = list[m]
          BY <3>2, <5>2
        <5> QED
          BY <5>3
      <4> QED
        BY <4>1, <4>2
    <3>6. ASSUME Ascends(list) PROVE Ascends(t)
      <4>1. Ascends(r)
        BY <3>3, <3>6 DEF FilteredTo
      <4>2. ASSUME NEW i \in 1..Len(t), NEW j \in 1..Len(t), i < j PROVE t[i] < t[j]
        <5>1. i \in 1..Len(r) /\ t[i] = r[i]
          BY <3>2, <4>2
        <5>2. CASE j = Len(r) + 1
          <6>1. PICK m \in passing : m <= n /\ r[i] = list[m]
            BY <3>3, <5>1 DEF FilteredTo
          <6>2. list[m] < list[n + 1]
            BY <2>0, <3>6, <6>1 DEF Ascends
          <6> QED
            BY <3>2, <5>1, <5>2, <6>1, <6>2
        <5>3. CASE j # Len(r) + 1
          <6>1. j \in 1..Len(r) /\ t[j] = r[j]
            BY <3>2, <5>3
          <6> QED
            BY <4>1, <4>2, <5>1, <6>1 DEF Ascends
        <5> QED
          BY <5>2, <5>3
      <4> QED
        BY <4>2 DEF Ascends
    <3>7. FilteredTo(t, list, passing, n + 1)
      BY <3>4, <3>5, <3>6 DEF FilteredTo
    <3> QED
      BY <3>2, <3>7 DEF t
  <2> QED
    BY <2>3, <2>4
<1> HIDE DEF T
<1>6. Nat \subseteq T
  BY <1>4, <1>5, InductionOnNat
<1>7. Len(list) \in T /\ Len(list) <= Len(list)
  BY <1>6
<1> QED
  BY <1>1, <1>7 DEF T
\* What dedup_topics() leaves of a list that ascends
LEMMA DedupIs ==
  ASSUME NEW S \in SUBSET Nat, NEW list \in Seq(S)
  PROVE  /\ Dedup(list) \in Seq(S)
         /\ Ascends(list) =>
              /\ Ascends(Dedup(list))
              /\ ToSet(Dedup(list)) =
                   {i \in ToSet(list) : \A j \in ToSet(list) : SameName(j, i) => j <= i}
<1>1. DOMAIN list = 1..Len(list) /\ \A i \in 1..Len(list) : list[i] \in S /\ list[i] \in Nat
  <2>1. S \subseteq Nat
    OBVIOUS
  <2>2. DOMAIN list = 1..Len(list) /\ \A i \in 1..Len(list) : list[i] \in S
    OBVIOUS
  <2> QED
    BY <2>1, <2>2
<1> DEFINE passing == {i \in DOMAIN list :
                         \A j \in DOMAIN list : SameName(list[j], list[i]) => j <= i}
           r == Dedup(list)
<1>2. r = Filtered(list, passing)
  BY DEF Dedup
<1>3. passing \in SUBSET (1..Len(list))
  BY <1>1
<1>4. \A i \in 1..Len(list) : i \in passing <=>
        \A j \in 1..Len(list) : SameName(list[j], list[i]) => j <= i
  BY <1>1
<1> HIDE DEF passing, r
<1>5. r \in Seq(S) /\ FilteredTo(r, list, passing, Len(list))
  BY <1>2, <1>3, FilteredIs
<1>6. ASSUME Ascends(list)
      PROVE  ToSet(r) = {i \in ToSet(list) : \A j \in ToSet(list) : SameName(j, i) => j <= i}
  <2>1. \A i, j \in 1..Len(list) : j <= i <=> list[j] <= list[i]
    BY <1>1, <1>6 DEF Ascends
  <2>2. \A x : x \in ToSet(list) <=> \E i \in 1..Len(list) : list[i] = x
    BY <1>1 DEF ToSet
  <2>3. \A x : x \in ToSet(r) <=> \E i \in 1..Len(r) : r[i] = x
    BY <1>5 DEF ToSet
  <2>4. ASSUME NEW x \in ToSet(r)
        PROVE  x \in ToSet(list) /\ \A j \in ToSet(list) : SameName(j, x) => j <= x
    <3>1. PICK m \in passing : x = list[m]
      BY <1>5, <2>3 DEF FilteredTo
    <3>2. m \in 1..Len(list)
      BY <1>3
    <3> QED
      BY <1>4, <2>1, <2>2, <3>1, <3>2
  <2>5. ASSUME NEW x \in ToSet(list), \A j \in ToSet(list) : SameName(j, x) => j <= x
        PROVE  x \in ToSet(r)
    <3>1. PICK m \in 1..Len(list) : x = list[m]
      BY <2>2
    <3>2. m \in passing
      BY <1>4, <2>1, <2>2, <2>5, <3>1
    <3>3. m <= Len(list)
      BY <3>1
    <3> QED
      BY <1>5, <2>3, <3>1, <3>2, <3>3 DEF FilteredTo
  <2> QED
    BY <2>4, <2>5
<1>7. Ascends(list) => Ascends(r)
  BY <1>5 DEF FilteredTo
<1> QED
  BY <1>5, <1>6, <1>7 DEF r

\* The top of the stack becomes a child of the topic below it, or one of the
\* topics of level 1.
LEMMA CloseTopIs ==
  ASSUME Inv, stack # <<>>, CloseTop
  PROVE  LET n == Len(stack)
         IN  /\ n \in Nat \ {0} /\ Top = stack[n] /\ Top \in 1..Len(topics)
             /\ topics[Top].level = n
             /\ Len(stack') = n - 1 /\ DOMAIN stack' = 1..(n - 1)
             /\ \A i \in 1..(n - 1) : stack'[i] = stack[i]
             /\ Len(topics') = Len(topics)
             /\ (level1' = level1 \/ level1' = Append(level1, Top))
             /\ n = 1 => level1' = Append(level1, Top) /\ topics' = topics
             /\ n > 1 => LET p == stack[n - 1]
                         IN  /\ level1' = level1
                             /\ p \in 1..Len(topics) /\ topics[p].level = n - 1
                             /\ Changed(topics, topics', p, topics[p].body,
                                        Append(topics[p].children, Top))
<1>1. /\ topics \in Seq(TopicRecord) /\ stack \in Seq(1..Len(topics))
      /\ Len(stack) \in Nat \ {0} /\ DOMAIN stack = 1..Len(stack)
      /\ Len(stack) \in 1..Len(stack)
  BY EmptySeq DEF Inv, Typed
<1>2. /\ Top = stack[Len(stack)] /\ Top \in 1..Len(topics)
      /\ topics[Top].level = Len(stack)
  BY <1>1 DEF Top, Last, Inv, StackIsALineOfDescent
<1> DEFINE front == SubSeq(stack, 1, Len(stack) - 1)
<1>3. /\ Len(front) = Len(stack) - 1 /\ DOMAIN front = 1..(Len(stack) - 1)
      /\ \A i \in 1..(Len(stack) - 1) : front[i] = stack[i]
  BY <1>1
<1>4. stack' = front
  BY DEF CloseTop, Front, front
<1> HIDE DEF front
<1>5. ASSUME Len(stack) = 1
      PROVE  level1' = Append(level1, Top) /\ topics' = topics
  BY <1>5 DEF CloseTop
<1>6. ASSUME Len(stack) > 1
      PROVE  LET p == stack[Len(stack) - 1]
             IN  /\ level1' = level1
                 /\ p \in 1..Len(topics) /\ topics[p].level = Len(stack) - 1
                 /\ Changed(topics, topics', p, topics[p].body,
                            Append(topics[p].children, Top))
  <2>1. /\ Len(stack) - 1 \in 1..(Len(stack) - 1) /\ Len(stack) # 1
        /\ Len(stack) - 1 \in 1..Len(stack)
    BY <1>1, <1>6
  <2>2. front[Len(front)] = stack[Len(stack) - 1]
    BY <1>3, <2>1
  <2> DEFINE p == stack[Len(stack) - 1]
  <2>3. p \in 1..Len(topics) /\ topics[p].level = Len(stack) - 1
    <3>1. StackIsALineOfDescent
      BY DEF Inv
    <3>2. \A k \in DOMAIN stack : topics[stack[k]].level = k
      BY <3>1 DEF StackIsALineOfDescent
    <3>3. \A k \in DOMAIN stack : stack[k] \in 1..Len(topics)
      BY <1>1
    <3>4. Len(stack) - 1 \in DOMAIN stack
      BY <1>1, <2>1
    <3> QED
      BY <3>2, <3>3, <3>4
  <2>4. Last(Front(stack)) = p
    BY <2>2 DEF Last, Front, front
  <2> HIDE DEF p
  <2>5. /\ topics' = [topics EXCEPT ![p].children = Append(@, Top)]
        /\ level1' = level1
    BY <2>1, <2>4 DEF CloseTop
  <2>6. Top \in Nat \ {0}
    BY <1>2
  <2>7. Changed(topics, topics', p, topics[p].body, Append(topics[p].children, Top))
    BY <1>1, <2>3, <2>5, <2>6, OneTopicChanges
  <2> QED
    BY <2>3, <2>5, <2>7 DEF p
<1>7. Len(stack) = 1 \/ Len(stack) > 1
  BY <1>1
<1>8. Len(topics') = Len(topics)
  BY <1>5, <1>6, <1>7 DEF Changed
<1>9. level1' = level1 \/ level1' = Append(level1, Top)
  BY <1>5, <1>6, <1>7
<1>10. /\ Len(stack') = Len(stack) - 1 /\ DOMAIN stack' = 1..(Len(stack) - 1)
       /\ \A i \in 1..(Len(stack) - 1) : stack'[i] = stack[i]
  BY <1>3, <1>4
<1>11. Len(stack) \in Nat \ {0}
  BY <1>1
<1> QED
  BY <1>2, <1>5, <1>6, <1>8, <1>9, <1>10, <1>11, Zenon

\* Every step keeps the types.
LEMMA TypesAreKept ==
  ASSUME Inv, Inv', ListsTyped, [Next]_vars
  PROVE  ListsTyped'
<1>1. /\ topics \in Seq(TopicRecord) /\ Len(topics) \in Nat /\ next \in Nat \ {0}
      /\ text \in Seq(Text) /\ first \in 1..(Len(topics) + 1)
      /\ files \in Seq(Seq(Line)) /\ files # <<>>
      /\ stack \in Seq(1..Len(topics)) /\ next <= Len(topics) + 1
      /\ level1 \in Seq(1..Len(topics)) /\ trees \in Seq(1..Len(topics))
  BY DEF Inv, Typed, ListsTyped
<1>2. BodySaved \in Seq(TopicRecord) /\ Len(BodySaved) = Len(topics)
  BY <1>1, SavedBodyKeepsLevels DEF SameLevels
<1>3. ASSUME NEW x \in Line, ReadLine(x), Len(topics') \in {Len(topics), Len(topics) + 1},
             next' = next
      PROVE  ListsTyped'
  <2>1. files' \in Seq(Seq(Line)) /\ files' # <<>>
    BY <1>3, LineIsRead DEF ReadLine
  <2>2. level1' = level1 /\ trees' = trees
    BY <1>3 DEF ReadLine
  <2>3. level1' \in Seq(1..Len(topics')) /\ trees' \in Seq(1..Len(topics'))
    BY <1>1, <1>3, <2>2, SeqsGrow
  <2> QED
    BY <1>1, <1>3, <2>1, <2>3 DEF ListsTyped
<1>4. ASSUME NEW l \in 1..MaxLevel, NEW n \in Name, ReadLine(Header(l, n))
      PROVE  ListsTyped'
  <2>1. Header(l, n) \in Line /\ Header(l, n).level = l /\ Header(l, n).name = n
        /\ "text" \notin DOMAIN Header(l, n)
    BY DEF Header, Line
  <2>2. CASE ReadHeader(l, n)
    <3>1. topics' = Append(BodySaved, NewTopic(l, n)) /\ next' = next
      BY <2>2 DEF ReadHeader
    <3>2. Len(topics') = Len(topics) + 1
      BY <1>2, <3>1
    <3> QED
      BY <1>3, <1>4, <2>1, <3>1, <3>2
  <2>3. CASE RejectHeader(l, n)
    BY <1>3, <1>4, <2>1, <2>3 DEF RejectHeader
  <2> QED
    BY <1>4, <2>1, <2>2, <2>3 DEF ReadLine
<1>5. ASSUME NEW t \in Text, ReadLine(TextLine(t))
      PROVE  ListsTyped'
  <2>1. TextLine(t) \in Line /\ "text" \in DOMAIN TextLine(t)
    BY DEF TextLine, Line
  <2>2. topics' = topics /\ next' = next
    BY <1>5, <2>1 DEF ReadLine
  <2> QED
    BY <1>3, <1>5, <2>1, <2>2
<1>6. CASE ReadFails
  BY <1>1, <1>6 DEF ReadFails, ListsTyped
<1>7. CASE EndOfFile
  BY <1>1, <1>2, <1>7 DEF EndOfFile, ListsTyped
<1>8. ASSUME CloseTop, stack # <<>>, UNCHANGED <<files, next, trees>>
      PROVE  ListsTyped'
  <2>1. Top \in 1..Len(topics) /\ Len(topics') = Len(topics)
        /\ (level1' = level1 \/ level1' = Append(level1, Top))
    BY <1>8, CloseTopIs
  <2>2. level1' \in Seq(1..Len(topics))
    <3>1. Append(level1, Top) \in Seq(1..Len(topics))
      BY <1>1, <2>1, AppendProperties
    <3> QED
      BY <1>1, <2>1, <3>1
  <2> QED
    BY <1>1, <1>8, <2>1, <2>2 DEF ListsTyped
<1>9. CASE Pop \/ Flush
  BY <1>8, <1>9 DEF Pop, Flush
<1>10. CASE Push
  <2>1. next' = next + 1 /\ next <= Len(topics) /\ Len(topics') = Len(topics)
        /\ UNCHANGED <<files, level1, trees>>
    BY <1>1, <1>10 DEF Push
  <2> QED
    BY <1>1, <2>1 DEF ListsTyped
<1>11. CASE FinishFile
  <2> DEFINE Places == 1..Len(topics)
  <2>0. Places \in SUBSET Nat /\ level1 \in Seq(Places)
    BY <1>1
  <2> HIDE DEF Places
  <2>1. Dedup(level1) \in Seq(Places)
    BY <2>0, DedupIs
  <2> USE DEF Places
  <2>2. trees' \in Seq(1..Len(topics)) /\ UNCHANGED <<files, topics, next, level1>>
    BY <1>1, <1>11, <2>1 DEF FinishFile
  <2> QED
    BY <1>1, <2>2 DEF ListsTyped
<1>12. CASE NextFile
  <2>1. <<>> \in Seq(Line) /\ <<>> \in Seq(1..Len(topics))
    OBVIOUS
  <2>2. Append(files, <<>>) \in Seq(Seq(Line)) /\ Append(files, <<>>) # <<>>
    <3> DEFINE none == <<>>
    <3>1. none \in Seq(Line)
      OBVIOUS
    <3> HIDE DEF none
    <3>2. Append(files, none) \in Seq(Seq(Line)) /\ Append(files, none) # <<>>
      BY <1>1, <3>1, AppendProperties
    <3> QED
      BY <3>2 DEF none
  <2> QED
    BY <1>1, <1>12, <2>1, <2>2 DEF NextFile, ListsTyped
<1>13. CASE Merge
  <2> DEFINE Places == 1..Len(topics)
  <2>0. Places \in SUBSET Nat /\ trees \in Seq(Places)
    BY <1>1
  <2> HIDE DEF Places
  <2>1. Dedup(trees) \in Seq(Places)
    BY <2>0, DedupIs
  <2> USE DEF Places
  <2>2. trees' \in Seq(1..Len(topics)) /\ UNCHANGED <<files, topics, next, level1>>
    BY <1>1, <1>13, <2>1 DEF Merge
  <2> QED
    BY <1>1, <2>2 DEF ListsTyped
<1>14. CASE UNCHANGED vars
  BY <1>1, <1>14 DEF vars, ListsTyped
<1> QED
  BY <1>4, <1>5, <1>6, <1>7, <1>9, <1>10, <1>11, <1>12, <1>13, <1>14 DEF Next

\* The parser keeps topics, lines and lists of topics.
THEOREM SourceTypeCorrect == Spec => []TypeOK
<1>1. Init => Inv /\ ListsTyped
  <2> SUFFICES ASSUME Init PROVE Inv /\ ListsTyped
    OBVIOUS
  <2>1. <<<<>>>> \in Seq(Seq(Line)) /\ <<<<>>>> # <<>>
    OBVIOUS
  <2>2. ListsTyped
    BY <2>1 DEF Init, ListsTyped
  <2> QED
    BY <2>2 DEF Init, Inv, Typed, LevelsInSequence, NextFitsStack, StackIsALineOfDescent
<1>2. (Inv /\ ListsTyped) /\ [Next]_vars => (Inv /\ ListsTyped)'
  BY InvIsKept, TypesAreKept
<1>3. Inv /\ ListsTyped => TypeOK
  BY DEF Inv, Typed, ListsTyped, TypeOK, TopicRecord, Line
<1> QED
  BY <1>1, <1>2, <1>3, PTL DEF Spec
-----------------------------------------------------------------------------
(***************************************************************************)
(* The outline                                                             *)
(***************************************************************************)

OffStack(j) == \A k \in DOMAIN stack : stack[k] # j

\* The topics of level 1, and those one level below topic i, that are complete
Tops == {j \in first..(next - 1) : topics[j].level = 1 /\ OffStack(j)}
Kin(i) == {j \in Below(i) : /\ j < next /\ OffStack(j)
                            /\ topics[j].level = topics[i].level + 1}

\* Up to the topic the assembly has come to, what is complete has found its place,
\* and what is on the stack is open: only deeper topics have come after it.
Open(k) ==
  /\ stack[k] \in first..(next - 1)
  /\ \A j \in (stack[k] + 1)..(next - 1) : topics[j].level > k
Outline ==
  /\ phase = "scan" => next = first
  /\ phase \in {"parsed", "merged"} => next = Len(topics) + 1
  /\ first <= next
  /\ \A k \in DOMAIN stack : Open(k)
  /\ Lists(level1, Tops)
  /\ \A i \in first..(next - 1) : Lists(topics[i].children, Kin(i))
  /\ \A i \in next..Len(topics) : topics[i].children = <<>>

\* A larger number at the end keeps a list ascending.
LEMMA ListGrows ==
  ASSUME NEW list \in Seq(Nat), NEW S, Lists(list, S), NEW x \in Nat, \A y \in S : y < x
  PROVE  Lists(Append(list, x), S \cup {x})
<1> DEFINE more == Append(list, x)
<1>1. /\ Len(more) = Len(list) + 1 /\ Len(list) \in Nat
      /\ DOMAIN more = 1..(Len(list) + 1) /\ DOMAIN list = 1..Len(list)
      /\ \A i \in 1..Len(list) : more[i] = list[i]
      /\ more[Len(list) + 1] = x
  OBVIOUS
<1> HIDE DEF more
<1>2. \A y : y \in S <=> \E i \in 1..Len(list) : list[i] = y
  BY <1>1 DEF Lists, ToSet
<1>3. \A y : y \in ToSet(more) <=> \E i \in 1..(Len(list) + 1) : more[i] = y
  BY <1>1 DEF ToSet
<1>4. \A i \in 1..(Len(list) + 1) : i \in 1..Len(list) \/ i = Len(list) + 1
  BY <1>1
<1>5. \A i \in 1..Len(list) : i \in 1..(Len(list) + 1)
  BY <1>1
<1>6. Len(list) + 1 \in 1..(Len(list) + 1)
  BY <1>1
<1>7. \A y : y \in ToSet(more) <=> y \in S \/ y = x
  BY <1>1, <1>2, <1>3, <1>4, <1>5, <1>6
<1>8. ASSUME NEW i \in DOMAIN more, NEW j \in DOMAIN more, i < j
      PROVE  more[i] < more[j]
  <2>1. i \in 1..Len(list) /\ more[i] = list[i]
    BY <1>1, <1>8
  <2>2. CASE j \in 1..Len(list)
    BY <1>1, <1>8, <2>1, <2>2 DEF Lists
  <2>3. CASE j = Len(list) + 1
    <3>1. list[i] \in S
      BY <1>2, <2>1
    <3> QED
      BY <1>1, <2>1, <2>3, <3>1
  <2> QED
    BY <1>1, <1>4, <2>2, <2>3
<1>9. ToSet(more) = S \cup {x}
  BY <1>7
<1> QED
  BY <1>8, <1>9 DEF Lists, more

\* What lies below a topic, by its levels
LEMMA BelowIs ==
  ASSUME NEW i, NEW j
  PROVE  j \in Below(i) <=> /\ j \in (i + 1)..Len(topics)
                            /\ \A k \in (i + 1)..j : topics[k].level > topics[i].level
BY DEF Below

\* Only levels matter for what lies below a topic.
LEMMA BelowIsKept ==
  ASSUME topics \in Seq(TopicRecord), Len(topics') = Len(topics),
         \A k \in 1..Len(topics) : topics'[k].level = topics[k].level,
         NEW i \in 1..Len(topics)
  PROVE  Below(i)' = Below(i)
<1>1. Len(topics) \in Nat
  OBVIOUS
<1>2. \A j \in (i + 1)..Len(topics) : \A k \in (i + 1)..j : k \in 1..Len(topics)
  BY <1>1
<1> QED
  BY <1>1, <1>2 DEF Below

\* The top of the stack is complete: it goes where the outline has it, after all
\* that is there.
LEMMA CloseTopKeepsOutline ==
  ASSUME Inv, ListsTyped, Outline, stack # <<>>, CloseTop,
         phase = "assemble", UNCHANGED <<first, phase, next>>
  PROVE  Outline'
<1> DEFINE n == Len(stack)
           t == Top
           p == stack[n - 1]
<1>1. /\ topics \in Seq(TopicRecord) /\ Len(topics) \in Nat
      /\ first \in 1..(Len(topics) + 1) /\ next \in Nat \ {0} /\ next <= Len(topics) + 1
      /\ level1 \in Seq(Nat) /\ DOMAIN stack = 1..n
  <2>1. level1 \in Seq(1..Len(topics)) /\ \A x \in 1..Len(topics) : x \in Nat
    BY DEF ListsTyped
  <2>2. level1 \in Seq(Nat)
    BY <2>1
  <2> QED
    BY <2>2 DEF Inv, Typed, ListsTyped
<1>2. \A i \in 1..Len(topics) : /\ topics[i].level \in Nat /\ topics[i].level >= 1
                                /\ topics[i].children \in Seq(Nat)
  <2>1. \A i \in 1..Len(topics) : topics[i] \in TopicRecord
    BY <1>1
  <2>2. \A x \in TopicRecord : x.level \in 1..MaxLevel /\ x.children \in Seq(Nat \ {0})
    BY DEF TopicRecord
  <2>3. \A s \in Seq(Nat \ {0}) : s \in Seq(Nat)
    OBVIOUS
  <2> QED
    BY <2>1, <2>2, <2>3, SourceAssumption
<1>3. /\ n \in Nat \ {0} /\ t = stack[n] /\ t \in 1..Len(topics) /\ topics[t].level = n
      /\ Len(stack') = n - 1 /\ DOMAIN stack' = 1..(n - 1)
      /\ \A i \in 1..(n - 1) : stack'[i] = stack[i]
      /\ Len(topics') = Len(topics)
  BY CloseTopIs
<1>4. n = 1 => level1' = Append(level1, t) /\ topics' = topics
  BY CloseTopIs
<1>5. n > 1 => /\ level1' = level1
               /\ p \in 1..Len(topics) /\ topics[p].level = n - 1
               /\ Changed(topics, topics', p, topics[p].body,
                          Append(topics[p].children, t))
  BY CloseTopIs
<1>6. n = 1 \/ n > 1
  BY <1>3
<1>7. \A i \in 1..Len(topics) : topics'[i].level = topics[i].level
  BY <1>4, <1>5, <1>6 DEF Changed
<1>8. \A k \in 1..n : /\ stack[k] \in first..(next - 1) /\ topics[stack[k]].level = k
                      /\ \A j \in (stack[k] + 1)..(next - 1) : topics[j].level > k
  <2>1. \A k \in DOMAIN stack : Open(k)
    BY DEF Outline
  <2>2. \A k \in DOMAIN stack : topics[stack[k]].level = k
    BY DEF Inv, StackIsALineOfDescent
  <2> QED
    BY <1>1, <2>1, <2>2 DEF Open
<1>9. /\ t \in first..(next - 1) /\ \A j \in (t + 1)..(next - 1) : topics[j].level > n
  BY <1>3, <1>8
<1> HIDE DEF n, t, p
<1>10. \A j : OffStack(j)' <=> OffStack(j) \/ j = t
  <2>1. \A k \in 1..n : k \in 1..(n - 1) \/ k = n
    BY <1>3
  <2>2. \A k \in 1..(n - 1) : k \in 1..n /\ k # n
    BY <1>3
  <2>3. \A k \in 1..(n - 1) : stack[k] # t
    BY <1>3, <1>8, <2>2
  <2>4. n \in 1..n
    BY <1>3
  <2> QED
    BY <1>1, <1>3, <2>1, <2>2, <2>3, <2>4 DEF OffStack
<1>11. ~ OffStack(t) /\ \A y : OffStack(y) => y # t
  <2>1. n \in DOMAIN stack /\ stack[n] = t
    BY <1>1, <1>3
  <2> QED
    BY <2>1 DEF OffStack
<1>12. \A y \in first..(next - 1) : topics[y].level <= n /\ OffStack(y) => y < t
  <2>1. ASSUME NEW y \in first..(next - 1), topics[y].level <= n, OffStack(y) PROVE y < t
    <3>1. y # t
      BY <1>11, <2>1
    <3>2. y \in 1..Len(topics) /\ topics[y].level \in Nat
      BY <1>1, <1>2
    <3>3. ~ (y \in (t + 1)..(next - 1))
      BY <1>3, <1>9, <2>1, <3>2
    <3> QED
      BY <1>1, <1>3, <3>1, <3>2, <3>3
  <2> QED
    BY <2>1
<1>13. Lists(level1', Tops')
  <2>1. Tops' = {j \in first..(next - 1) : topics[j].level = 1 /\ (OffStack(j) \/ j = t)}
    <3>1. \A j \in first..(next - 1) : j \in 1..Len(topics)
      BY <1>1
    <3> QED
      BY <1>7, <1>10, <3>1 DEF Tops
  <2>2. Lists(level1, Tops)
    BY DEF Outline
  <2>3. CASE n = 1
    <3>1. Tops' = Tops \cup {t}
      BY <1>3, <1>9, <2>1, <2>3 DEF Tops
    <3>2. \A y \in Tops : y < t
      BY <1>12, <2>3 DEF Tops
    <3>3. t \in Nat
      BY <1>3
    <3> QED
      BY <1>1, <1>4, <2>2, <2>3, <3>1, <3>2, <3>3, ListGrows
  <2>4. CASE n > 1
    <3>1. Tops' = Tops
      BY <1>3, <2>1, <2>4 DEF Tops
    <3> QED
      BY <1>5, <2>2, <2>4, <3>1
  <2> QED
    BY <1>6, <2>3, <2>4
<1>14. ASSUME NEW i \in first..(next - 1)
       PROVE  t \in Below(i) /\ topics[i].level + 1 = n <=> n > 1 /\ i = p
  <2>1. i \in 1..Len(topics) /\ topics[i].level \in Nat /\ topics[i].level >= 1
    BY <1>1, <1>2
  <2>2. ASSUME t \in Below(i), topics[i].level + 1 = n PROVE n > 1 /\ i = p
    <3>1. n > 1
      BY <2>1, <2>2
    <3>2. /\ p \in first..(next - 1) /\ topics[p].level = n - 1
          /\ \A j \in (p + 1)..(next - 1) : topics[j].level > n - 1
      <4>1. n - 1 \in 1..n
        BY <1>3, <3>1
      <4> QED
        BY <1>8, <4>1 DEF p
    <3>3. t \in (i + 1)..Len(topics) /\ \A k \in (i + 1)..t : topics[k].level > topics[i].level
      BY <2>2, BelowIs
    <3>4. p < t
      <4>1. p # t
        BY <1>3, <3>2
      <4>2. ~ (p \in (t + 1)..(next - 1))
        BY <1>3, <1>9, <3>2
      <4> QED
        BY <1>1, <1>3, <3>2, <4>1, <4>2
    <3>5. ~ (i < p)
      <4>1. SUFFICES ASSUME i < p PROVE FALSE
        OBVIOUS
      <4>2. p \in (i + 1)..t
        BY <1>1, <1>3, <2>1, <3>2, <3>4, <4>1
      <4>3. topics[p].level > topics[i].level
        BY <3>3, <4>2
      <4> QED
        BY <1>3, <2>1, <2>2, <3>2, <4>3
    <3>6. ~ (p < i)
      <4>1. SUFFICES ASSUME p < i PROVE FALSE
        OBVIOUS
      <4>2. i \in (p + 1)..(next - 1)
        BY <1>1, <2>1, <3>2, <4>1
      <4>3. topics[i].level > n - 1
        BY <3>2, <4>2
      <4> QED
        BY <1>3, <2>1, <2>2, <4>3
    <3> QED
      BY <1>1, <2>1, <3>1, <3>2, <3>5, <3>6
  <2>3. ASSUME n > 1, i = p PROVE t \in Below(i) /\ topics[i].level + 1 = n
    <3>1. /\ topics[i].level = n - 1
          /\ \A j \in (i + 1)..(next - 1) : topics[j].level > n - 1
      <4>1. n - 1 \in 1..n
        BY <1>3, <2>3
      <4> QED
        BY <1>8, <2>3, <4>1 DEF p
    <3>2. i < t
      <4>1. i # t
        BY <1>3, <3>1
      <4>2. ~ (i \in (t + 1)..(next - 1))
        BY <1>3, <1>9, <3>1
      <4> QED
        BY <1>1, <1>3, <2>1, <4>1, <4>2
    <3>3. t \in (i + 1)..Len(topics) /\ \A k \in (i + 1)..t : k \in (i + 1)..(next - 1)
      BY <1>1, <1>3, <1>9, <2>1, <3>2
    <3>4. t \in Below(i)
      BY <3>1, <3>3, BelowIs
    <3> QED
      BY <1>3, <3>1, <3>4
  <2> QED
    BY <2>2, <2>3
<1>15. ASSUME NEW i \in first..(next - 1)
       PROVE  Lists(topics'[i].children, Kin(i)')
  <2>1. i \in 1..Len(topics)
    BY <1>1
  <2>2. Below(i)' = Below(i)
    BY <1>1, <1>3, <1>7, <2>1, BelowIsKept
  <2>3. \A j \in Below(i) : j \in 1..Len(topics)
    BY <1>1, <2>1, BelowIs
  <2>4. Kin(i)' = {j \in Below(i) : /\ j < next /\ (OffStack(j) \/ j = t)
                                    /\ topics[j].level = topics[i].level + 1}
    BY <1>7, <1>10, <2>1, <2>2, <2>3 DEF Kin
  <2>5. Lists(topics[i].children, Kin(i))
    BY DEF Outline
  <2>6. CASE n > 1 /\ i = p
    <3>1. t \in Below(i) /\ topics[i].level + 1 = n
      BY <1>14, <2>6
    <3>2. t < next
      BY <1>1, <1>9
    <3>3. Kin(i)' = Kin(i) \cup {t}
      BY <1>3, <2>4, <3>1, <3>2 DEF Kin
    <3>4. \A y \in Kin(i) : y < t
      <4> TAKE y \in Kin(i)
      <4>1. /\ y \in (i + 1)..Len(topics) /\ y < next /\ OffStack(y)
            /\ topics[y].level = n
        BY <3>1, BelowIs DEF Kin
      <4>2. y \in first..(next - 1) /\ topics[y].level <= n
        BY <1>1, <1>3, <4>1
      <4> QED
        BY <1>12, <4>1, <4>2
    <3>5. topics'[i].children = Append(topics[i].children, t)
      BY <1>5, <2>6 DEF Changed
    <3>6. t \in Nat /\ topics[i].children \in Seq(Nat)
      BY <1>2, <1>3, <2>1
    <3> QED
      BY <2>5, <3>3, <3>4, <3>5, <3>6, ListGrows
  <2>7. CASE ~ (n > 1 /\ i = p)
    <3>1. ~ (t \in Below(i) /\ topics[i].level + 1 = n)
      BY <1>14, <2>7
    <3>2. Kin(i)' = Kin(i)
      BY <1>3, <2>4, <3>1 DEF Kin
    <3>3. topics'[i].children = topics[i].children
      BY <1>4, <1>5, <1>6, <2>1, <2>7 DEF Changed
    <3> QED
      BY <2>5, <3>2, <3>3
  <2> QED
    BY <2>6, <2>7
<1>16. \A i \in next..Len(topics) : topics'[i].children = <<>>
  <2> TAKE i \in next..Len(topics)
  <2>1. i \in 1..Len(topics) /\ ~ (i \in first..(next - 1)) /\ topics[i].children = <<>>
    BY <1>1 DEF Outline
  <2>2. n > 1 => i # p
    <3>1. n > 1 => n - 1 \in 1..n
      BY <1>3
    <3> QED
      BY <1>8, <2>1, <3>1 DEF p
  <2> QED
    BY <1>4, <1>5, <1>6, <2>1, <2>2 DEF Changed
<1>17. \A k \in DOMAIN stack' : Open(k)'
  <2> TAKE k \in DOMAIN stack'
  <2>1. k \in 1..n /\ stack'[k] = stack[k]
    BY <1>3
  <2>2. \A j \in (stack[k] + 1)..(next - 1) : j \in 1..Len(topics)
    BY <1>1, <1>8, <2>1
  <2> QED
    BY <1>7, <1>8, <2>1, <2>2 DEF Open
<1>18. first <= next
  BY DEF Outline
<1> QED
  BY <1>3, <1>13, <1>15, <1>16, <1>17, <1>18 DEF Outline

\* Pushing opens the next topic: it has no children yet, and is one of the topics
\* that are not complete.
LEMMA PushKeepsOutline ==
  ASSUME Inv, Inv', ListsTyped, Outline, Push
  PROVE  Outline'
<1>1. /\ topics \in Seq(TopicRecord) /\ Len(topics) \in Nat
      /\ first \in 1..(Len(topics) + 1) /\ next \in Nat \ {0} /\ next <= Len(topics)
      /\ Len(stack) \in Nat /\ DOMAIN stack = 1..Len(stack)
  BY DEF Inv, Typed, Push
<1>2. /\ phase = "assemble" /\ next' = next + 1
      /\ stack' = Append(stack, next)
      /\ topics' = [topics EXCEPT ![next].body = Trimmed(topics[next].body)]
      /\ UNCHANGED <<first, phase, level1>>
  BY DEF Push
<1>3. /\ Len(topics') = Len(topics)
      /\ \A i \in 1..Len(topics) : /\ topics'[i].level = topics[i].level
                                   /\ topics'[i].children = topics[i].children
  <2>1. next \in 1..Len(topics) /\ topics[next].body \in Seq(Text)
    <3>1. next \in 1..Len(topics)
      BY <1>1
    <3>2. topics[next] \in TopicRecord
      BY <1>1, <3>1
    <3> QED
      BY <3>1, <3>2 DEF TopicRecord
  <2>2. Changed(topics, topics', next, Trimmed(topics[next].body), topics[next].children)
    BY <1>1, <1>2, <2>1, TrimmedIsText, OneTopicChanges
  <2> QED
    BY <2>2 DEF Changed
<1>4. /\ DOMAIN stack' = 1..(Len(stack) + 1)
      /\ \A k \in 1..Len(stack) : stack'[k] = stack[k]
      /\ stack'[Len(stack) + 1] = next
  <2>1. stack \in Seq(Nat) /\ next \in Nat
    <3>1. stack \in Seq(1..Len(topics)) /\ \A x \in 1..Len(topics) : x \in Nat
      BY DEF Inv, Typed
    <3> QED
      BY <1>1, <3>1
  <2> QED
    BY <1>2, <2>1
<1>5. topics[next].level = Len(stack) + 1
  <2>1. Len(stack) + 1 \in DOMAIN stack'
    BY <1>1, <1>4
  <2>2. topics'[stack'[Len(stack) + 1]].level = Len(stack) + 1
    BY <2>1 DEF Inv, StackIsALineOfDescent
  <2> QED
    BY <1>1, <1>3, <1>4, <2>2
<1>6. /\ first <= next /\ (\A k \in DOMAIN stack : Open(k)) /\ Lists(level1, Tops)
      /\ \A i \in first..(next - 1) : Lists(topics[i].children, Kin(i))
      /\ \A i \in next..Len(topics) : topics[i].children = <<>>
  BY DEF Outline
<1>7. \A j : OffStack(j)' <=> OffStack(j) /\ j # next
  <2>1. \A k \in 1..(Len(stack) + 1) : k \in 1..Len(stack) \/ k = Len(stack) + 1
    BY <1>1
  <2>2. /\ \A k \in 1..Len(stack) : k \in 1..(Len(stack) + 1)
        /\ Len(stack) + 1 \in 1..(Len(stack) + 1)
    BY <1>1
  <2> QED
    BY <1>1, <1>4, <2>1, <2>2 DEF OffStack
<1>8. \A i \in first..next : i \in 1..Len(topics) /\ (i # next => i \in first..(next - 1))
  BY <1>1
<1>9. Tops' = Tops
  <2>1. \A j : j \in first..(next' - 1) /\ j # next <=> j \in first..(next - 1)
    BY <1>1, <1>2
  <2>2. \A j \in first..(next - 1) : topics'[j].level = topics[j].level
    BY <1>1, <1>3
  <2> QED
    BY <1>2, <1>7, <2>1, <2>2 DEF Tops
<1>10. ASSUME NEW i \in first..next
       PROVE  Lists(topics'[i].children, Kin(i)')
  <2>1. Below(i)' = Below(i)
    BY <1>1, <1>3, <1>8, BelowIsKept
  <2>2. \A j \in Below(i) : j \in 1..Len(topics) /\ j > i
    BY <1>1, <1>8, BelowIs
  <2>3. topics'[i].children = topics[i].children
    BY <1>3, <1>8
  <2>4. Kin(i)' = {j \in Below(i) : /\ j < next + 1 /\ OffStack(j) /\ j # next
                                    /\ topics[j].level = topics[i].level + 1}
    BY <1>2, <1>3, <1>7, <1>8, <2>1, <2>2 DEF Kin
  <2>5. CASE i = next
    <3>1. Kin(i)' = {}
      <4>1. \A j \in Below(i) : ~ (j < next + 1)
        BY <1>1, <2>2, <2>5
      <4> QED
        BY <2>4, <4>1
    <3>2. topics'[i].children = <<>>
      BY <1>1, <1>6, <2>3, <2>5
    <3> QED
      BY <3>1, <3>2 DEF Lists, ToSet
  <2>6. CASE i # next
    <3>1. \A j \in Below(i) : j < next + 1 /\ j # next <=> j < next
      BY <1>1, <2>2
    <3>2. Kin(i)' = Kin(i)
      BY <2>4, <3>1 DEF Kin
    <3> QED
      BY <1>6, <1>8, <2>3, <2>6, <3>2
  <2> QED
    BY <2>5, <2>6
<1>11. ASSUME NEW k \in DOMAIN stack' PROVE Open(k)'
  <2>1. CASE k = Len(stack) + 1
    <3>1. stack'[k] \in first'..(next' - 1)
      BY <1>1, <1>2, <1>4, <1>6, <2>1
    <3>2. ~ \E j : j \in (next + 1)..(next' - 1)
      BY <1>1, <1>2
    <3> QED
      BY <1>4, <2>1, <3>1, <3>2 DEF Open
  <2>2. CASE k # Len(stack) + 1
    <3>1. k \in 1..Len(stack) /\ stack'[k] = stack[k] /\ Open(k)
      BY <1>1, <1>4, <1>6, <2>2
    <3>2. stack[k] \in first..(next - 1) /\ stack[k] \in first'..(next' - 1)
      BY <1>1, <1>2, <3>1 DEF Open
    <3>3. ASSUME NEW j \in (stack[k] + 1)..(next' - 1) PROVE topics'[j].level > k
      <4>1. j \in 1..Len(topics) /\ (j # next => j \in (stack[k] + 1)..(next - 1))
        <5>1. \A a \in first..(next - 1) : a \in Nat /\ a >= 1
          BY <1>1
        <5>2. PICK a : a = stack[k]
          OBVIOUS
        <5>3. a \in Nat /\ a >= 1 /\ j \in (a + 1)..next
          BY <1>1, <1>2, <3>2, <5>1, <5>2
        <5>4. j \in 1..Len(topics)
          BY <1>1, <5>3
        <5>5. j # next => j \in (a + 1)..(next - 1)
          BY <1>1, <5>3
        <5> QED
          BY <5>2, <5>4, <5>5
      <4>2. topics[j].level > k
        BY <1>1, <1>5, <3>1, <4>1 DEF Open
      <4> QED
        BY <1>3, <4>1, <4>2
    <3> QED
      BY <3>1, <3>2, <3>3 DEF Open
  <2> QED
    BY <2>1, <2>2
<1>12. \A i \in next'..Len(topics') : topics'[i].children = <<>>
  BY <1>1, <1>2, <1>3, <1>6
<1>13. \A i \in first'..(next' - 1) : Lists(topics'[i].children, Kin(i)')
  <2>1. \A i \in first'..(next' - 1) : i \in first..next
    BY <1>1, <1>2
  <2> QED
    BY <1>10, <2>1
<1>14. first' <= next'
  BY <1>1, <1>2, <1>6
<1> QED
  BY <1>2, <1>6, <1>9, <1>11, <1>12, <1>13, <1>14 DEF Outline

\* Where nothing of a file has been assembled, the outline is empty.
LEMMA NothingAssembled ==
  ASSUME stack' = <<>>, level1' = <<>>, next' = first', first' \in Nat,
         \A i \in first'..Len(topics') : topics'[i].children = <<>>,
         phase' \notin {"parsed", "merged"}
  PROVE  Outline'
<1>1. ~ \E i : i \in first'..(next' - 1)
  OBVIOUS
<1>2. Tops' = {}
  BY <1>1 DEF Tops
<1>3. Lists(level1', Tops')
  BY <1>2 DEF Lists, ToSet
<1>4. \A k \in DOMAIN stack' : Open(k)'
  OBVIOUS
<1>5. first' <= next' /\ (phase' = "scan" => next' = first')
  OBVIOUS
<1> QED
  BY <1>1, <1>3, <1>4, <1>5 DEF Outline

\* Every step keeps the outline.
LEMMA OutlineIsKept ==
  ASSUME Inv, Inv', ListsTyped, Outline, [Next]_vars
  PROVE  Outline'
<1>1. /\ topics \in Seq(TopicRecord) /\ Len(topics) \in Nat /\ text \in Seq(Text)
      /\ first \in 1..(Len(topics) + 1) /\ next \in Nat \ {0} /\ next <= Len(topics) + 1
      /\ first \in Nat \ {0}
  <2>1. /\ topics \in Seq(TopicRecord) /\ text \in Seq(Text) /\ first \in 1..(Len(topics) + 1)
        /\ next \in Nat \ {0} /\ next <= Len(topics) + 1
    BY DEF Inv, Typed, ListsTyped
  <2>2. Len(topics) \in Nat
    BY <2>1
  <2> QED
    BY <2>1, <2>2
<1>2. ASSUME UNCHANGED <<topics, first, next, stack, level1>>,
             phase' = "scan" => phase = "scan",
             phase' \in {"parsed", "merged"} => next = Len(topics) + 1
      PROVE  Outline'
  <2>1. Tops' = Tops /\ \A i : Kin(i)' = Kin(i) /\ (Open(i)' <=> Open(i))
    BY <1>2 DEF Open, OffStack, Tops, Kin, Below
  <2>2. first' = first /\ next' = next /\ topics' = topics /\ level1' = level1 /\ stack' = stack
    BY <1>2
  <2> QED
    BY <1>2, <2>1, <2>2 DEF Outline
<1>3. ASSUME phase = "scan"
      PROVE  /\ stack = <<>> /\ level1 = <<>> /\ next = first
             /\ \A i \in first..Len(topics) : topics[i].children = <<>>
  <2>1. stack = <<>> /\ next = first
    BY <1>3 DEF Inv, NextFitsStack, Outline
  <2>2. Tops = {}
    BY <1>1, <2>1 DEF Tops
  <2>3. level1 = <<>>
    <3>1. level1 \in Seq(1..Len(topics)) /\ ToSet(level1) = {}
      BY <2>2 DEF ListsTyped, Outline, Lists
    <3>2. ~ (1 \in DOMAIN level1)
      BY <3>1 DEF ToSet
    <3> QED
      BY <3>1, <3>2, EmptySeq
  <2> QED
    BY <2>1, <2>3 DEF Outline
<1>4. /\ BodySaved \in Seq(TopicRecord) /\ Len(BodySaved) = Len(topics)
      /\ \A i \in 1..Len(topics) : BodySaved[i].children = topics[i].children
  <2>1. CASE AnyTopic
    <3>1. Len(topics) \in 1..Len(topics)
      BY <1>1, <2>1 DEF AnyTopic
    <3>2. Changed(topics, BodySaved, Len(topics), text, topics[Len(topics)].children)
      BY <1>1, <2>1, <3>1, OneTopicChanges DEF BodySaved
    <3> QED
      BY <3>2 DEF Changed
  <2>2. CASE ~ AnyTopic
    BY <1>1, <2>2 DEF BodySaved
  <2> QED
    BY <2>1, <2>2
<1>5. ASSUME NEW l \in 1..MaxLevel, NEW n \in Name, ReadLine(Header(l, n))
      PROVE  Outline'
  <2>1. Header(l, n).level = l /\ Header(l, n).name = n /\ "text" \notin DOMAIN Header(l, n)
    BY DEF Header
  <2>2. phase = "scan" /\ UNCHANGED <<first, stack, level1>>
    BY <1>5 DEF ReadLine
  <2>3. CASE ReadHeader(l, n)
    <3>1. topics' = Append(BodySaved, NewTopic(l, n)) /\ next' = next /\ phase' = phase
      BY <2>3 DEF ReadHeader
    <3>2. /\ Len(topics') = Len(topics) + 1
          /\ \A i \in 1..Len(topics) : topics'[i] = BodySaved[i]
          /\ topics'[Len(topics) + 1] = NewTopic(l, n)
      BY <1>1, <1>4, <3>1
    <3>3. NewTopic(l, n).children = <<>>
      BY DEF NewTopic
    <3>4. \A i \in first..Len(topics') : topics'[i].children = <<>>
      <4> TAKE i \in first..Len(topics')
      <4>1. i = Len(topics) + 1 \/ (i \in 1..Len(topics) /\ i \in first..Len(topics))
        BY <1>1, <3>2
      <4> QED
        BY <1>3, <1>4, <2>2, <3>2, <3>3, <4>1
    <3>5. stack' = <<>> /\ level1' = <<>> /\ next' = first' /\ first' \in Nat
      BY <1>1, <1>3, <2>2, <3>1
    <3>6. phase' \notin {"parsed", "merged"}
      BY <2>2, <3>1
    <3> QED
      BY <2>2, <3>4, <3>5, <3>6, NothingAssembled
  <2>4. CASE RejectHeader(l, n)
    BY <1>2, <2>2, <2>4 DEF RejectHeader
  <2> QED
    BY <1>5, <2>1, <2>3, <2>4 DEF ReadLine
<1>6. ASSUME NEW t \in Text, ReadLine(TextLine(t))
      PROVE  Outline'
  <2>1. "text" \in DOMAIN TextLine(t)
    BY DEF TextLine
  <2> QED
    BY <1>2, <1>6, <2>1 DEF ReadLine
<1>7. CASE ReadFails
  BY <1>2, <1>7 DEF ReadFails
<1>8. CASE EndOfFile
  <2>1. phase = "scan" /\ phase' = "assemble" /\ topics' = BodySaved /\ next' = first
        /\ UNCHANGED <<first, stack, level1>>
    BY <1>8 DEF EndOfFile
  <2>2. \A i \in first..Len(topics') : topics'[i].children = <<>>
    BY <1>1, <1>3, <1>4, <2>1
  <2>3. stack' = <<>> /\ level1' = <<>> /\ next' = first' /\ first' \in Nat
    BY <1>1, <1>3, <2>1
  <2> QED
    BY <2>1, <2>2, <2>3, NothingAssembled
<1>9. CASE Pop \/ Flush
  BY <1>9, CloseTopKeepsOutline DEF Pop, Flush
<1>10. CASE Push
  BY <1>10, PushKeepsOutline
<1>11. CASE FinishFile
  <2>1. next > Len(topics) /\ phase' = "parsed" /\ UNCHANGED <<topics, first, next, stack, level1>>
    BY <1>11 DEF FinishFile
  <2>2. next = Len(topics) + 1
    BY <1>1, <2>1
  <2> QED
    BY <1>2, <2>1, <2>2
<1>12. CASE Merge
  BY <1>2, <1>12 DEF Merge, Outline
<1>13. CASE NextFile
  <2>1. /\ phase = "parsed" /\ phase' = "scan" /\ first' = Len(topics) + 1 /\ level1' = <<>>
        /\ UNCHANGED <<topics, next, stack>>
    BY <1>13 DEF NextFile
  <2>2. stack' = <<>> /\ next' = first' /\ first' \in Nat
    BY <1>1, <2>1 DEF Inv, NextFitsStack, Outline
  <2>3. \A i \in first'..Len(topics') : topics'[i].children = <<>>
    BY <1>1, <2>1
  <2> QED
    BY <2>1, <2>2, <2>3, NothingAssembled
<1>14. CASE UNCHANGED vars
  BY <1>2, <1>14 DEF vars, Outline
<1> QED
  BY <1>5, <1>6, <1>7, <1>8, <1>9, <1>10, <1>11, <1>12, <1>13, <1>14 DEF Next

\* What the trees need to be right about
OInv == Inv /\ ListsTyped /\ Outline

\* At first there is nothing.
LEMMA InitOutline == Init => OInv
<1> SUFFICES ASSUME Init PROVE OInv
  OBVIOUS
<1>1. <<<<>>>> \in Seq(Seq(Line)) /\ <<<<>>>> # <<>>
  OBVIOUS
<1>2. ListsTyped
  BY <1>1 DEF Init, ListsTyped
<1>3. Inv
  BY DEF Init, Inv, Typed, LevelsInSequence, NextFitsStack, StackIsALineOfDescent
<1>4. ~ \E i : i \in 1..0
  OBVIOUS
<1>5. Tops = {} /\ level1 = <<>> /\ first = 1 /\ next = 1 /\ topics = <<>> /\ stack = <<>>
  BY <1>4 DEF Init, Tops
<1>6. Lists(level1, Tops)
  BY <1>5 DEF Lists, ToSet
<1>7. Outline
  BY <1>4, <1>5, <1>6 DEF Init, Outline
<1> QED
  BY <1>2, <1>3, <1>7 DEF OInv

\* Types, levels, stack and outline together are inductive.
LEMMA OutlineInv == Spec => []OInv
<1>1. OInv /\ [Next]_vars => OInv'
  BY InvIsKept, TypesAreKept, OutlineIsKept DEF OInv
<1> QED
  BY <1>1, InitOutline, PTL DEF Spec

\* In every parsed file the trees are the outline that the levels describe.
THEOREM TreesStayOutline == Spec => []TreesAreTheOutline
<1>1. OInv => TreesAreTheOutline
  <2> SUFFICES ASSUME OInv, phase = "parsed"
               PROVE  /\ Lists(level1, {j \in first..Len(topics) : topics[j].level = 1})
                      /\ \A i \in first..Len(topics) :
                           Lists(topics[i].children,
                                 {j \in Below(i) : topics[j].level = topics[i].level + 1})
    BY DEF TreesAreTheOutline
  <2>1. /\ Len(topics) \in Nat /\ first \in Nat /\ next = Len(topics) + 1 /\ stack = <<>>
        /\ Outline
    BY DEF OInv, Inv, Typed, Outline, NextFitsStack
  <2>2. \A j : OffStack(j)
    BY <2>1 DEF OffStack
  <2>3. first..(next - 1) = first..Len(topics)
    BY <2>1
  <2>4. Tops = {j \in first..Len(topics) : topics[j].level = 1}
    BY <2>2, <2>3 DEF Tops
  <2>5. ASSUME NEW i \in first..Len(topics)
        PROVE  Kin(i) = {j \in Below(i) : topics[j].level = topics[i].level + 1}
    <3>1. \A j \in Below(i) : j < next
      BY <2>1, BelowIs
    <3> QED
      BY <2>2, <3>1 DEF Kin
  <2> QED
    BY <2>1, <2>3, <2>4, <2>5 DEF Outline
<1> QED
  BY <1>1, OutlineInv, PTL
-----------------------------------------------------------------------------
(***************************************************************************)
(* Duplicates                                                              *)
(***************************************************************************)

\* The topics of the files that are parsed come before this one.
Done == IF phase \in {"parsed", "merged"} THEN Len(topics) + 1 ELSE first

\* Their topics of level 1, and of a set of topics the last of each name
Level1 == {i \in 1..(Done - 1) : topics[i].level = 1}
LastOf(S) == {i \in S : \A j \in S : SameName(j, i) => j <= i}

\* The trees are among the topics of level 1, in their order, and the last of each
\* name is among the trees.  One file has been rid of its duplicates already.
LastDefinitions ==
  /\ Ascends(trees)
  /\ LastOf(Level1) \subseteq ToSet(trees) /\ ToSet(trees) \subseteq Level1
  /\ Len(files) = 1 => first = 1 /\ ToSet(trees) = LastOf(Level1)
  /\ phase = "merged" => ToSet(trees) = LastOf(Level1)

\* A topic that has been read keeps its level and its name.
LEMMA HeadersStay ==
  ASSUME OInv, [Next]_vars
  PROVE  /\ Len(topics) \in Nat /\ Len(topics') \in Nat /\ Len(topics') >= Len(topics)
         /\ \A i \in 1..Len(topics) : /\ topics'[i].level = topics[i].level
                                      /\ topics'[i].name = topics[i].name
<1> DEFINE Stay(s) == /\ Len(s) = Len(topics)
                      /\ \A i \in 1..Len(topics) : /\ s[i].level = topics[i].level
                                                   /\ s[i].name = topics[i].name
<1>1. /\ topics \in Seq(TopicRecord) /\ Len(topics) \in Nat /\ text \in Seq(Text)
      /\ first \in 1..(Len(topics) + 1) /\ next \in Nat \ {0} /\ next <= Len(topics) + 1
  BY DEF OInv, Inv, Typed, ListsTyped
<1>2. ASSUME NEW s, NEW k, NEW b, NEW c, Changed(topics, s, k, b, c) PROVE Stay(s)
  BY <1>2 DEF Changed
<1>3. BodySaved \in Seq(TopicRecord) /\ Stay(BodySaved)
  <2>1. CASE AnyTopic
    <3>1. Len(topics) \in 1..Len(topics)
      BY <1>1, <2>1 DEF AnyTopic
    <3>2. Changed(topics, BodySaved, Len(topics), text, topics[Len(topics)].children)
      BY <1>1, <2>1, <3>1, OneTopicChanges DEF BodySaved
    <3> QED
      BY <1>2, <3>2 DEF Changed
  <2>2. CASE ~ AnyTopic
    BY <1>1, <2>2 DEF BodySaved
  <2> QED
    BY <2>1, <2>2
<1> DEFINE Goal == /\ Len(topics') \in Nat /\ Len(topics') >= Len(topics)
                   /\ \A i \in 1..Len(topics) : /\ topics'[i].level = topics[i].level
                                                /\ topics'[i].name = topics[i].name
<1>4. Stay(topics') => Goal
  BY <1>1
<1>5. ASSUME NEW l \in 1..MaxLevel, NEW n \in Name, ReadLine(Header(l, n))
      PROVE  Goal
  <2>1. Header(l, n).level = l /\ Header(l, n).name = n /\ "text" \notin DOMAIN Header(l, n)
    BY DEF Header
  <2>2. CASE ReadHeader(l, n)
    <3>1. topics' = Append(BodySaved, NewTopic(l, n))
      BY <2>2 DEF ReadHeader
    <3>2. Len(topics') = Len(topics) + 1 /\ \A i \in 1..Len(topics) : topics'[i] = BodySaved[i]
      BY <1>1, <1>3, <3>1
    <3> QED
      BY <1>1, <1>3, <3>2
  <2>3. CASE RejectHeader(l, n)
    <3>1. topics' = topics
      BY <2>3 DEF RejectHeader
    <3> QED
      BY <1>4, <3>1
  <2> QED
    BY <1>5, <2>1, <2>2, <2>3 DEF ReadLine
<1>6. ASSUME NEW t \in Text, ReadLine(TextLine(t))
      PROVE  Goal
  <2>1. "text" \in DOMAIN TextLine(t)
    BY DEF TextLine
  <2>2. topics' = topics
    BY <1>6, <2>1 DEF ReadLine
  <2> QED
    BY <1>4, <2>2
<1>7. CASE EndOfFile
  BY <1>3, <1>4, <1>7 DEF EndOfFile
<1>8. CASE Pop \/ Flush
  <2>1. CloseTop /\ stack # <<>> /\ Inv
    BY <1>8 DEF Pop, Flush, OInv
  <2> DEFINE n == Len(stack)
  <2>2. n \in Nat \ {0}
    BY <2>1, CloseTopIs
  <2>3. n = 1 => topics' = topics
    BY <2>1, CloseTopIs
  <2>4. n > 1 => \E k, b, c : Changed(topics, topics', k, b, c)
    BY <2>1, CloseTopIs
  <2> HIDE DEF n
  <2>5. n = 1 \/ n > 1
    BY <2>2, SMT
  <2>6. Stay(topics')
    <3>1. CASE n = 1
      BY <2>3, <3>1
    <3>2. CASE n > 1
      BY <1>2, <2>4, <3>2
    <3> QED
      BY <2>5, <3>1, <3>2
  <2> QED
    BY <1>4, <2>6
<1>9. CASE Push
  <2>1. next \in 1..Len(topics)
    BY <1>1, <1>9 DEF Push
  <2>2. topics[next] \in TopicRecord
    BY <1>1, <2>1
  <2>3. Trimmed(topics[next].body) \in Seq(Text)
    BY <2>2, TrimmedIsText DEF TopicRecord
  <2>4. topics' = [topics EXCEPT ![next].body = Trimmed(topics[next].body)]
    BY <1>9 DEF Push
  <2>5. Changed(topics, topics', next, Trimmed(topics[next].body), topics[next].children)
    BY <1>1, <2>1, <2>3, <2>4, OneTopicChanges
  <2> QED
    BY <1>2, <1>4, <2>5
<1>10. CASE ReadFails \/ FinishFile \/ NextFile \/ Merge \/ UNCHANGED vars
  <2>1. topics' = topics
    BY <1>10 DEF ReadFails, FinishFile, NextFile, Merge, vars
  <2> QED
    BY <1>4, <2>1
<1> QED
  BY <1>1, <1>5, <1>6, <1>7, <1>8, <1>9, <1>10 DEF Next

\* What says a topic's name says the same after a step.
LEMMA SameNameStays ==
  ASSUME OInv, [Next]_vars, NEW i \in 1..Len(topics), NEW j \in 1..Len(topics)
  PROVE  SameName(i, j)' <=> SameName(i, j)
BY HeadersStay DEF SameName

\* As long as a file is being parsed, what is done stays done.
LEMMA DoneStaysDone ==
  ASSUME OInv, LastDefinitions, [Next]_vars, Done' = Done, trees' = trees,
         Len(files') = 1 => Len(files) = 1 /\ first' = first,
         phase' = "merged" => phase = "merged"
  PROVE  LastDefinitions'
<1>1. Done - 1 <= Len(topics) /\ Len(topics) \in Nat /\ Done \in Nat
  BY DEF OInv, Inv, Typed, Done
<1>2. \A i \in 1..(Done - 1) : i \in 1..Len(topics)
  BY <1>1
<1>3. Level1' = Level1
  BY <1>2, HeadersStay DEF Level1
<1>4. Level1 \subseteq 1..Len(topics)
  BY <1>2 DEF Level1
<1>5. LastOf(Level1)' = LastOf(Level1)
  BY <1>3, <1>4, SameNameStays DEF LastOf
<1> QED
  BY <1>3, <1>5 DEF LastDefinitions

\* One file more: its own last definitions come after the others.
LEMMA FinishKeepsLast ==
  ASSUME OInv, LastDefinitions, FinishFile
  PROVE  LastDefinitions'
<1> DEFINE new == {i \in first..Len(topics) : topics[i].level = 1}
           old == {i \in 1..(first - 1) : topics[i].level = 1}
           more == Dedup(level1)
<1>1. /\ Len(topics) \in Nat /\ first \in 1..(Len(topics) + 1)
      /\ level1 \in Seq(1..Len(topics)) /\ trees \in Seq(1..Len(topics))
      /\ Outline /\ next \in Nat /\ next <= Len(topics) + 1
  BY DEF OInv, Inv, Typed, ListsTyped
<1>2. /\ phase = "assemble" /\ next > Len(topics) /\ stack = <<>>
      /\ phase' = "parsed" /\ trees' = trees \o more
      /\ UNCHANGED <<files, topics, first>>
  BY DEF FinishFile
<1>3. Level1 = old /\ Level1' = old \cup new
  <2>1. Done = first /\ Done' = Len(topics) + 1
    BY <1>2 DEF Done
  <2>2. \A i : i \in 1..((Len(topics) + 1) - 1) <=> i \in 1..(first - 1) \/ i \in first..Len(topics)
    BY <1>1
  <2> QED
    BY <1>2, <2>1, <2>2 DEF Level1
<1>4. ToSet(level1) = new /\ Ascends(level1)
  <2>1. next = Len(topics) + 1 /\ first..(next - 1) = first..Len(topics)
    BY <1>1, <1>2
  <2>2. \A j : OffStack(j)
    BY <1>2 DEF OffStack
  <2>3. Tops = new
    BY <2>1, <2>2 DEF Tops
  <2>4. Lists(level1, Tops) /\ DOMAIN level1 = 1..Len(level1)
    BY <1>1 DEF Outline
  <2> QED
    BY <2>3, <2>4 DEF Lists, Ascends
<1>5. /\ more \in Seq(1..Len(topics)) /\ Ascends(more) /\ ToSet(more) = LastOf(new)
  <2> DEFINE Places == 1..Len(topics)
  <2>1. Places \in SUBSET Nat /\ level1 \in Seq(Places)
    BY <1>1
  <2> HIDE DEF Places, new, more
  <2>2. /\ more \in Seq(Places) /\ Ascends(more)
        /\ ToSet(more) = {i \in new : \A j \in new : SameName(j, i) => j <= i}
    BY <1>4, <2>1, DedupIs DEF more
  <2> QED
    BY <2>2 DEF LastOf, Places
<1>6. \A i \in old : \A j \in new : i < j
  BY <1>1
<1>7. ToSet(trees) \subseteq old /\ LastOf(old) \subseteq ToSet(trees)
  BY <1>3 DEF LastDefinitions
<1>8. \A i \in old : i \in Nat
  OBVIOUS
<1>9. \A i \in new : i \in Nat
  BY <1>1
<1> HIDE DEF old, new, more
<1>10. /\ Len(trees') = Len(trees) + Len(more) /\ Len(trees) \in Nat /\ Len(more) \in Nat
       /\ \A i \in 1..Len(trees) : trees'[i] = trees[i]
       /\ \A i \in 1..Len(more) : trees'[Len(trees) + i] = more[i]
       /\ DOMAIN trees' = 1..(Len(trees) + Len(more))
       /\ DOMAIN trees = 1..Len(trees) /\ DOMAIN more = 1..Len(more)
  BY <1>1, <1>2, <1>5
<1>11. \A i \in 1..(Len(trees) + Len(more)) :
         \/ i \in 1..Len(trees)
         \/ i - Len(trees) \in 1..Len(more) /\ i = Len(trees) + (i - Len(trees))
  BY <1>10
<1>12. /\ \A i \in 1..Len(trees) : trees[i] \in old
       /\ \A i \in 1..Len(more) : more[i] \in new
  <2>1. \A i \in 1..Len(trees) : trees[i] \in ToSet(trees)
    BY <1>10 DEF ToSet
  <2>2. \A i \in 1..Len(more) : more[i] \in ToSet(more)
    BY <1>10 DEF ToSet
  <2>3. LastOf(new) \subseteq new
    BY DEF LastOf
  <2> QED
    BY <1>5, <1>7, <2>1, <2>2, <2>3
<1>13. Ascends(trees')
  <2>1. ASSUME NEW i \in 1..(Len(trees) + Len(more)), NEW j \in 1..(Len(trees) + Len(more)), i < j
        PROVE  trees'[i] < trees'[j]
    <3>1. CASE j \in 1..Len(trees)
      <4>1. i \in 1..Len(trees) /\ Ascends(trees)
        BY <1>10, <2>1, <3>1 DEF LastDefinitions
      <4> QED
        BY <1>10, <2>1, <3>1, <4>1 DEF Ascends
    <3>2. CASE ~ (j \in 1..Len(trees)) /\ i \in 1..Len(trees)
      <4>1. trees'[i] \in old
        BY <1>10, <1>12, <3>2
      <4>2. trees'[j] \in new
        BY <1>10, <1>11, <1>12, <3>2
      <4> QED
        BY <1>6, <4>1, <4>2
    <3>3. CASE ~ (j \in 1..Len(trees)) /\ ~ (i \in 1..Len(trees))
      <4> DEFINE a == i - Len(trees)
                 c == j - Len(trees)
      <4>1. a \in 1..Len(more) /\ c \in 1..Len(more) /\ i = Len(trees) + a /\ j = Len(trees) + c
        BY <1>11, <3>3
      <4>2. a < c
        BY <1>10, <2>1
      <4>3. trees'[i] = more[a] /\ trees'[j] = more[c]
        <5> HIDE DEF a, c
        <5> QED
          BY <1>10, <4>1
      <4> HIDE DEF a, c
      <4> QED
        BY <1>5, <4>1, <4>2, <4>3 DEF Ascends
    <3> QED
      BY <3>1, <3>2, <3>3
  <2> QED
    BY <1>10, <2>1 DEF Ascends
<1>14. ToSet(trees') = ToSet(trees) \cup ToSet(more)
  <2>1. ASSUME NEW x \in ToSet(trees') PROVE x \in ToSet(trees) \cup ToSet(more)
    <3>1. PICK i \in 1..(Len(trees) + Len(more)) : x = trees'[i]
      BY <1>10 DEF ToSet
    <3>2. CASE i \in 1..Len(trees)
      BY <1>10, <3>1, <3>2 DEF ToSet
    <3>3. CASE i - Len(trees) \in 1..Len(more) /\ i = Len(trees) + (i - Len(trees))
      <4>1. PICK k \in 1..Len(more) : i = Len(trees) + k
        BY <3>3
      <4>2. x = more[k]
        BY <1>10, <3>1, <4>1
      <4> QED
        BY <1>10, <4>2 DEF ToSet
    <3> QED
      BY <1>11, <3>2, <3>3
  <2>2. ASSUME NEW x \in ToSet(trees) PROVE x \in ToSet(trees')
    <3>1. PICK i \in 1..Len(trees) : x = trees[i]
      BY <1>10 DEF ToSet
    <3>2. i \in 1..(Len(trees) + Len(more)) /\ x = trees'[i]
      BY <1>10, <3>1
    <3> QED
      BY <1>10, <3>2 DEF ToSet
  <2>3. ASSUME NEW x \in ToSet(more) PROVE x \in ToSet(trees')
    <3>1. PICK i \in 1..Len(more) : x = more[i]
      BY <1>10 DEF ToSet
    <3>2. Len(trees) + i \in 1..(Len(trees) + Len(more)) /\ x = trees'[Len(trees) + i]
      BY <1>10, <3>1
    <3> QED
      BY <1>10, <3>2 DEF ToSet
  <2> QED
    BY <2>1, <2>2, <2>3
<1>15. LastOf(Level1)' = LastOf(old \cup new)
  BY <1>2, <1>3 DEF LastOf, SameName
<1>16. LastOf(old \cup new) \subseteq LastOf(old) \cup LastOf(new)
  BY DEF LastOf
<1>17. LastOf(new) \subseteq new
  BY DEF LastOf
<1>18. ASSUME Len(files) = 1
       PROVE  first' = 1 /\ ToSet(trees') = LastOf(Level1)'
  <2>1. first = 1
    BY <1>18 DEF LastDefinitions
  <2>2. old = {}
    BY <2>1 DEF old
  <2>3. ToSet(trees) = {}
    BY <1>7, <2>2
  <2>4. old \cup new = new
    BY <2>2
  <2> QED
    BY <1>2, <1>5, <1>14, <1>15, <2>1, <2>3, <2>4
<1> QED
  BY <1>2, <1>3, <1>5, <1>7, <1>13, <1>14, <1>15, <1>16, <1>17, <1>18 DEF LastDefinitions

\* Removing duplicates once more, over all files, keeps the last definitions.
LEMMA MergeKeepsLast ==
  ASSUME OInv, LastDefinitions, Merge
  PROVE  LastDefinitions'
<1>1. /\ Len(topics) \in Nat /\ trees \in Seq(1..Len(topics)) /\ files \in Seq(Seq(Line))
      /\ files # <<>> /\ phase = "parsed" /\ phase' = "merged"
      /\ UNCHANGED <<files, topics, first>>
  BY DEF OInv, Inv, Typed, ListsTyped, Merge
<1>2. Level1' = Level1 /\ LastOf(Level1)' = LastOf(Level1)
  <2>1. Done' = Done
    BY <1>1 DEF Done
  <2> QED
    BY <1>1, <2>1 DEF Level1, LastOf, SameName
<1>3. /\ Ascends(trees) /\ LastOf(Level1) \subseteq ToSet(trees)
      /\ ToSet(trees) \subseteq Level1
      /\ Len(files) = 1 => first = 1 /\ ToSet(trees) = LastOf(Level1)
  BY DEF LastDefinitions
<1>4. CASE ~ (Len(files) > 1)
  <2> DEFINE n == Len(files)
  <2>1. n = 1
    <3>1. n \in Nat /\ n # 0
      BY <1>1, EmptySeq
    <3>2. ~ (n > 1)
      BY <1>4
    <3> HIDE DEF n
    <3> QED
      BY <3>1, <3>2
  <2>2. trees' = trees
    BY <1>4 DEF Merge
  <2> QED
    BY <1>1, <1>2, <1>3, <2>1, <2>2 DEF LastDefinitions
<1>5. CASE Len(files) > 1
  <2> DEFINE Places == 1..Len(topics)
  <2>1. Places \in SUBSET Nat /\ trees \in Seq(Places)
    BY <1>1
  <2>2. Level1 \subseteq 1..Len(topics) /\ Len(topics) \in Nat
    BY <1>1 DEF Level1, Done
  <2> HIDE DEF Places
  <2>3. /\ Ascends(Dedup(trees))
        /\ ToSet(Dedup(trees)) = LastOf(ToSet(trees))
    BY <1>3, <2>1, DedupIs DEF LastOf
  <2>4. trees' = Dedup(trees)
    BY <1>5 DEF Merge
  <2>5. LastOf(ToSet(trees)) = LastOf(Level1)
    <3>1. LastOf(Level1) \subseteq LastOf(ToSet(trees))
      BY <1>3 DEF LastOf
    <3>2. ASSUME NEW i \in LastOf(ToSet(trees)) PROVE i \in LastOf(Level1)
      <4> DEFINE namesakes == {j \in Level1 : SameName(j, i)}
                 last == Max(namesakes)
      <4>1. i \in ToSet(trees) /\ i \in Level1
            /\ \A j \in ToSet(trees) : SameName(j, i) => j <= i
        BY <1>3 DEF LastOf
      <4>2. i \in namesakes
        BY <4>1 DEF SameName
      <4>3. namesakes \in SUBSET (1..Len(topics)) /\ namesakes # {}
        BY <2>2, <4>2
      <4> HIDE DEF namesakes
      <4>4. last \in namesakes /\ \A y \in namesakes : last >= y
        BY <2>2, <4>3, MaxIsMember
      <4> HIDE DEF last
      <4>5. last \in Level1 /\ SameName(last, i)
            /\ \A j \in Level1 : SameName(j, i) => last >= j
        BY <4>4 DEF namesakes
      <4>6. last \in Nat /\ i \in Nat /\ \A j \in Level1 : j \in Nat
        BY <2>2, <4>1, <4>5
      <4>7. \A j \in Level1 : SameName(j, last) => j <= last
        BY <4>5, <4>6 DEF SameName
      <4>8. last \in ToSet(trees)
        BY <1>3, <4>5, <4>7 DEF LastOf
      <4>9. last = i
        BY <4>1, <4>2, <4>4, <4>5, <4>6, <4>8
      <4> QED
        BY <4>1, <4>7, <4>9 DEF LastOf
    <3> QED
      BY <3>1, <3>2
  <2> QED
    BY <1>1, <1>2, <1>3, <1>5, <2>3, <2>4, <2>5 DEF LastDefinitions
<1> QED
  BY <1>4, <1>5

\* No step loses the last definition of a name.
LEMMA LastIsKept ==
  ASSUME OInv, LastDefinitions, [Next]_vars
  PROVE  LastDefinitions'
<1>1. /\ files \in Seq(Seq(Line)) /\ files # <<>> /\ Len(topics) \in Nat
      /\ first \in 1..(Len(topics) + 1)
  BY DEF OInv, Inv, Typed, ListsTyped
<1>2. CASE \E x : ReadLine(x)
  <2>1. PICK x : ReadLine(x)
    BY <1>2
  <2>2. /\ phase = "scan" /\ LineRead(x) /\ UNCHANGED <<first, trees>>
        /\ phase' \in {"scan", "NameTooLong", "NonSequentialLevel"}
    BY <2>1 DEF ReadLine, ReadHeader, RejectHeader
  <2>3. Len(files') = Len(files)
    BY <1>1, <2>2 DEF LineRead
  <2>4. Done' = Done
    BY <2>2 DEF Done
  <2> QED
    BY <2>2, <2>3, <2>4, DoneStaysDone
<1>3. CASE ReadFails \/ EndOfFile
  <2>1. /\ phase = "scan" /\ phase' \in {"Io", "assemble"} /\ UNCHANGED <<files, first, trees>>
    BY <1>3 DEF ReadFails, EndOfFile
  <2>2. Done' = Done
    BY <2>1 DEF Done
  <2> QED
    BY <2>1, <2>2, DoneStaysDone
<1>4. CASE Pop \/ Push \/ Flush
  <2>1. phase = "assemble" /\ UNCHANGED <<files, first, trees, phase>>
    BY <1>4 DEF Pop, Push, Flush
  <2>2. Done' = Done
    BY <2>1 DEF Done
  <2> QED
    BY <2>1, <2>2, DoneStaysDone
<1>5. CASE FinishFile
  BY <1>5, FinishKeepsLast
<1>6. CASE NextFile
  <2> DEFINE none == <<>>
  <2>1. /\ phase = "parsed" /\ phase' = "scan" /\ first' = Len(topics) + 1
        /\ files' = Append(files, none) /\ UNCHANGED trees
    BY <1>6 DEF NextFile
  <2> HIDE DEF none
  <2>2. Len(files') = Len(files) + 1 /\ Len(files) \in Nat /\ Len(files) # 0
    BY <1>1, <2>1
  <2>3. Done' = Done
    BY <2>1 DEF Done
  <2>4. Len(files') # 1
    BY <2>2
  <2> QED
    BY <2>1, <2>3, <2>4, DoneStaysDone
<1>7. CASE Merge
  BY <1>7, MergeKeepsLast
<1>8. CASE UNCHANGED vars
  <2>1. Done' = Done /\ UNCHANGED <<files, first, trees, phase>>
    BY <1>8 DEF Done, vars
  <2> QED
    BY <2>1, DoneStaysDone
<1> QED
  BY <1>2, <1>3, <1>4, <1>5, <1>6, <1>7, <1>8 DEF Next

\* At first nothing is defined.
LEMMA InitLast == Init => LastDefinitions
<1> SUFFICES ASSUME Init PROVE LastDefinitions
  OBVIOUS
<1>1. first = 1 /\ trees = <<>> /\ phase = "scan"
  BY DEF Init
<1>2. Done = 1
  BY <1>1 DEF Done
<1>3. Level1 = {}
  BY <1>2 DEF Level1
<1> QED
  BY <1>1, <1>3 DEF LastDefinitions, LastOf, Ascends, ToSet

\* Of every level-1 name the merged library has the definition that comes last,
\* though duplicates were removed file by file and then once more over all files.
THEOREM LastDefinitionStaysWinner == Spec => []LastDefinitionWins
<1>1. Spec => [](OInv /\ LastDefinitions)
  <2>1. OInv /\ LastDefinitions /\ [Next]_vars => LastDefinitions'
    BY LastIsKept
  <2> QED
    BY <2>1, InitLast, OutlineInv, PTL DEF Spec
<1>2. OInv /\ LastDefinitions => LastDefinitionWins
  <2> DEFINE winners == {i \in DOMAIN topics : topics[i].level = 1 /\
                \A j \in DOMAIN topics : topics[j].level = 1 /\ SameName(i, j) => j <= i}
  <2> SUFFICES ASSUME OInv, LastDefinitions, phase = "merged"
               PROVE  Lists(trees, winners)
    BY DEF LastDefinitionWins
  <2>1. Len(topics) \in Nat /\ DOMAIN topics = 1..Len(topics)
    BY DEF OInv, Inv, Typed
  <2>2. Level1 = {i \in DOMAIN topics : topics[i].level = 1}
    BY <2>1 DEF Level1, Done
  <2>3. LastOf(Level1) = winners
    BY <2>2 DEF LastOf, SameName
  <2>4. DOMAIN trees = 1..Len(trees)
    BY DEF OInv, ListsTyped
  <2> HIDE DEF winners
  <2> QED
    BY <2>3, <2>4 DEF LastDefinitions, Lists, Ascends
<1> QED
  BY <1>1, <1>2, PTL
-----------------------------------------------------------------------------
(***************************************************************************)
(* The text                                                                *)
(***************************************************************************)
Refused == {"NameTooLong", "NonSequentialLevel"}

\* The lines that belong to topic i as they are kept just now: the last topic of the
\* file that is being read still collects them, and assembling a topic trims them.
BodyRead(i) == IF phase = "scan" /\ i = Len(topics) THEN text ELSE topics[i].body
BodyFits(i, from, to) ==
  IF i < next THEN IsBody(topics[i].body, File, from, to)
  ELSE Between(BodyRead(i), File, from, to)

\* The headers of the file are at these lines: each has made its topic, and the
\* lines up to the next are the topic's.
HeadersAt(at) ==
  /\ Lists(at, Headers(File))
  /\ \A k \in DOMAIN at :
       LET i == first + k - 1
       IN  /\ File[at[k]] = Header(topics[i].level, topics[i].name)
           /\ BodyFits(i, at[k], EndOf(at, k, File))

HeadersRead ==
  phase \notin Refused =>
    \E at \in [1..(Len(topics) + 1 - first) -> Headers(File)] : HeadersAt(at)

\* A file begins part by part: a part ends where the next begins.
LEMMA PartsAre ==
  ASSUME OInv, NEW at \in [1..(Len(topics) + 1 - first) -> Headers(File)], HeadersAt(at)
  PROVE  LET m == Len(topics) + 1 - first
         IN  /\ m \in Nat /\ DOMAIN at = 1..m /\ Len(at) = m
             /\ Len(File) \in Nat /\ File \in Seq(Line)
             /\ \A k \in 1..m : at[k] \in 1..Len(File)
             /\ \A k \in 1..m : k # m => EndOf(at, k, File) = at[k + 1] /\ at[k + 1] \in 1..Len(File)
             /\ EndOf(at, m, File) = Len(File) + 1
             /\ \A k \in 1..m : first + k - 1 \in 1..Len(topics) /\ first + k - 1 >= first
<1> DEFINE m == Len(topics) + 1 - first
           H == Headers(File)
<1>1. Len(topics) \in Nat /\ first \in 1..(Len(topics) + 1)
  BY DEF OInv, Inv, Typed
<1>2. m \in Nat /\ \A k \in 1..m : first + k - 1 \in 1..Len(topics) /\ first + k - 1 >= first
  BY <1>1
<1>3. Len(File) \in Nat /\ File \in Seq(Line)
  BY LineIsRead DEF OInv
<1>4. H \subseteq 1..Len(File)
  BY <1>3 DEF Headers
<1>5. at \in [1..m -> H]
  OBVIOUS
<1> HIDE DEF m, H
<1>6. at \in Seq(H) /\ DOMAIN at = 1..m
  BY <1>2, <1>5
<1>7. Len(at) = m
  BY <1>2, <1>6
<1>8. \A k \in 1..m : at[k] \in 1..Len(File)
  BY <1>4, <1>5
<1>9. \A k \in 1..m : k # m => EndOf(at, k, File) = at[k + 1] /\ k + 1 \in 1..m
  BY <1>2, <1>7 DEF EndOf
<1>10. EndOf(at, m, File) = Len(File) + 1
  BY <1>7 DEF EndOf
<1> QED
  BY <1>2, <1>3, <1>6, <1>7, <1>8, <1>9, <1>10 DEF m

\* A step that leaves the file and the headers of its topics, and no worse bodies,
\* leaves the headers read.
LEMMA FileStaysRead ==
  ASSUME OInv, HeadersRead, [Next]_vars, phase \notin Refused,
         files' = files, first' = first, Len(topics') = Len(topics),
         \A i \in first..Len(topics), from \in 1..Len(File), to \in 1..(Len(File) + 1) :
           BodyFits(i, from, to) => BodyFits(i, from, to)'
  PROVE  HeadersRead'
<1>1. PICK at \in [1..(Len(topics) + 1 - first) -> Headers(File)] : HeadersAt(at)
  BY DEF HeadersRead
<1>2. File' = File /\ Headers(File)' = Headers(File)
  BY DEF File, Headers
<1>3. /\ \A k \in DOMAIN at : first + k - 1 \in 1..Len(topics) /\ first + k - 1 \in first..Len(topics)
      /\ \A k \in DOMAIN at : at[k] \in 1..Len(File) /\ EndOf(at, k, File) \in 1..(Len(File) + 1)
  <2> DEFINE m == Len(topics) + 1 - first
  <2>1. Len(topics) \in Nat /\ first \in Nat
    BY DEF OInv, Inv, Typed
  <2>2. DOMAIN at = 1..m /\ Len(File) \in Nat /\ EndOf(at, m, File) = Len(File) + 1
    BY <1>1, PartsAre
  <2>3. \A k \in 1..m : k # m => EndOf(at, k, File) = at[k + 1] /\ at[k + 1] \in 1..Len(File)
    BY <1>1, PartsAre
  <2>4. \A k \in 1..m : /\ at[k] \in 1..Len(File)
                        /\ first + k - 1 \in 1..Len(topics) /\ first + k - 1 >= first
    BY <1>1, PartsAre
  <2>5. \A k \in 1..m : first + k - 1 \in first..Len(topics)
    BY <2>1, <2>4
  <2> HIDE DEF m
  <2>6. \A k \in 1..m : EndOf(at, k, File) \in 1..(Len(File) + 1)
    BY <2>2, <2>3
  <2> QED
    BY <2>2, <2>4, <2>5, <2>6
<1>4. \A i \in 1..Len(topics) : topics'[i].level = topics[i].level /\ topics'[i].name = topics[i].name
  BY HeadersStay
<1>5. ASSUME NEW k \in DOMAIN at, NEW i, i = first + k - 1, NEW e, e = EndOf(at, k, File)
      PROVE  /\ i = first' + k - 1 /\ e = EndOf(at, k, File)'
             /\ File'[at[k]] = Header(topics'[i].level, topics'[i].name)
             /\ BodyFits(i, at[k], e)'
  <2>1. File[at[k]] = Header(topics[i].level, topics[i].name) /\ BodyFits(i, at[k], e)
    BY <1>1, <1>5 DEF HeadersAt
  <2>2. i \in first..Len(topics) /\ i \in 1..Len(topics) /\ at[k] \in 1..Len(File)
        /\ e \in 1..(Len(File) + 1)
    BY <1>3, <1>5
  <2>3. BodyFits(i, at[k], e)'
    BY <2>1, <2>2
  <2>4. e = EndOf(at, k, File)' /\ i = first' + k - 1
    BY <1>2, <1>5 DEF EndOf
  <2> QED
    BY <1>2, <1>4, <2>1, <2>2, <2>3, <2>4
<1>6. HeadersAt(at)'
  <2>1. Lists(at, Headers(File))'
    BY <1>1, <1>2 DEF HeadersAt, Lists
  <2>2. ASSUME NEW k \in DOMAIN at
        PROVE  (LET i == first + k - 1
                IN  /\ File[at[k]] = Header(topics[i].level, topics[i].name)
                    /\ BodyFits(i, at[k], EndOf(at, k, File)))'
    <3>1. PICK i, e : i = first + k - 1 /\ e = EndOf(at, k, File)
      OBVIOUS
    <3>2. /\ i = first' + k - 1 /\ e = EndOf(at, k, File)'
          /\ File'[at[k]] = Header(topics'[i].level, topics'[i].name)
          /\ BodyFits(i, at[k], e)'
      BY <1>5, <3>1
    <3> QED
      BY <3>2
  <2> QED
    BY <2>1, <2>2 DEF HeadersAt
<1> QED
  BY <1>1, <1>2, <1>6 DEF HeadersRead

\* Trimming takes nothing but empty lines from the end.
LEMMA TrimmedIsBody ==
  ASSUME NEW f \in Seq(Line), NEW lines \in Seq(Text), NEW from \in 1..Len(f), NEW to,
         to <= Len(f) + 1, to \in Nat, Between(lines, f, from, to)
  PROVE  IsBody(Trimmed(lines), f, from, to)
<1> DEFINE kept == {i \in DOMAIN lines : lines[i] # Empty}
           body == Trimmed(lines)
           n == Len(lines) - Len(body)
           pad == [i \in 1..n |-> Empty]
<1>1. /\ Len(lines) \in Nat /\ DOMAIN lines = 1..Len(lines) /\ Len(f) \in Nat
      /\ Len(lines) = to - from - 1 /\ \A i \in 1..Len(lines) : f[from + i] = TextLine(lines[i])
  BY DEF Between
<1>2. Empty \in Text
  BY SourceAssumption
<1>3. /\ body \in Seq(Text) /\ Len(body) \in Nat /\ Len(body) <= Len(lines)
      /\ \A i \in 1..Len(body) : body[i] = lines[i]
      /\ \A i \in (Len(body) + 1)..Len(lines) : lines[i] = Empty
      /\ Len(body) # 0 => lines[Len(body)] # Empty
  <2>1. CASE kept = {}
    <3>1. body = <<>>
      BY <2>1 DEF Trimmed
    <3>2. \A i \in 1..Len(lines) : lines[i] = Empty
      BY <1>1, <2>1
    <3> HIDE DEF body
    <3> QED
      BY <1>1, <3>1, <3>2
  <2>2. CASE kept # {}
    <3> DEFINE k == Max(kept)
    <3>1. kept \in SUBSET (1..Len(lines))
      BY <1>1
    <3>2. \A i \in 1..Len(lines) : ~ (i \in kept) => lines[i] = Empty
      BY <1>1
    <3>3. body = SubSeq(lines, 1, k)
      BY <2>2 DEF Trimmed
    <3>4. \A i \in kept : lines[i] # Empty
      OBVIOUS
    <3> HIDE DEF kept, body
    <3>5. k \in kept /\ \A y \in kept : k >= y
      BY <1>1, <2>2, <3>1, MaxIsMember
    <3> HIDE DEF k
    <3>6. k \in 1..Len(lines)
      BY <3>1, <3>5
    <3>7. \A i \in 1..k : lines[i] \in Text
      BY <1>1, <3>6
    <3>8. body \in Seq(Text) /\ Len(body) = k /\ \A i \in 1..k : body[i] = lines[i]
      BY <3>3, <3>6, <3>7, SubSeqProperties
    <3>9. \A i \in (k + 1)..Len(lines) : lines[i] = Empty
      <4> TAKE i \in (k + 1)..Len(lines)
      <4>1. i \in 1..Len(lines) /\ ~ (k >= i)
        BY <1>1, <3>6
      <4> QED
        BY <3>2, <3>5, <4>1
    <3> QED
      BY <1>1, <3>4, <3>5, <3>6, <3>8, <3>9
  <2> QED
    BY <2>1, <2>2
<1> HIDE DEF body
<1>4. n \in 0..Len(f) /\ n \in Nat
  BY <1>1, <1>3
<1>5. pad \in Seq(Text) /\ Len(pad) = n /\ \A i \in 1..n : pad[i] = Empty
  <2> HIDE DEF n
  <2> QED
    BY <1>2, <1>4
<1>6. /\ Len(body \o pad) = Len(lines) /\ DOMAIN (body \o pad) = 1..Len(lines)
      /\ \A i \in 1..Len(lines) : (body \o pad)[i] = lines[i]
  <2> HIDE DEF pad
  <2>1. body \o pad \in Seq(Text) /\ Len(body \o pad) = Len(body) + Len(pad)
    BY <1>3, <1>5, ConcatProperties
  <2>2. Len(body) + Len(pad) = Len(lines)
    BY <1>1, <1>3, <1>5
  <2>3. ASSUME NEW i \in 1..Len(lines) PROVE (body \o pad)[i] = lines[i]
    <3>1. (body \o pad)[i] = IF i <= Len(body) THEN body[i] ELSE pad[i - Len(body)]
      BY <1>3, <1>5, <2>2, ConcatProperties
    <3>2. CASE i <= Len(body)
      <4>1. i \in 1..Len(body)
        BY <1>1, <1>3, <3>2
      <4> QED
        BY <1>3, <3>1, <3>2, <4>1
    <3>3. CASE ~ (i <= Len(body))
      <4>1. i - Len(body) \in 1..n /\ i \in (Len(body) + 1)..Len(lines)
        BY <1>1, <1>3, <3>3
      <4> HIDE DEF n
      <4> QED
        BY <1>3, <1>5, <3>1, <3>3, <4>1
    <3> QED
      BY <3>2, <3>3
  <2> QED
    BY <2>1, <2>2, <2>3
<1>7. Between(body \o pad, f, from, to)
  <2> HIDE DEF pad
  <2> QED
    BY <1>1, <1>6 DEF Between
<1>8. body # <<>> => Last(body) # Empty
  <2>1. ASSUME body # <<>> PROVE Last(body) # Empty
    <3>1. Len(body) \in Nat \ {0}
      BY <1>3, <2>1, EmptySeq
    <3>2. Last(body) = body[Len(body)] /\ Len(body) \in 1..Len(body)
      BY <3>1 DEF Last
    <3> QED
      BY <1>3, <3>1, <3>2
  <2> QED
    BY <2>1
<1> QED
  BY <1>4, <1>7, <1>8 DEF IsBody, body, pad

\* A line more at the end of a file changes nothing between two lines before it.
LEMMA BetweenStays ==
  ASSUME NEW f \in Seq(Line), NEW g, NEW lines \in Seq(Text), NEW from \in 1..Len(f), NEW to \in Nat,
         to <= Len(f) + 1, \A i \in 1..Len(f) : g[i] = f[i], Between(lines, f, from, to)
  PROVE  Between(lines, g, from, to)
<1>1. /\ Len(lines) \in Nat /\ DOMAIN lines = 1..Len(lines) /\ Len(f) \in Nat
      /\ Len(lines) = to - from - 1 /\ \A i \in 1..Len(lines) : f[from + i] = TextLine(lines[i])
  BY DEF Between
<1>2. \A i \in 1..Len(lines) : from + i \in 1..Len(f)
  BY <1>1
<1> QED
  BY <1>1, <1>2 DEF Between

\* The parts of a file that is being read
PartsRead(at, f, ts, start, body, end) ==
  LET m == Len(ts) + 1 - start
  IN  /\ \A k \in 1..m : f[at[k]] = Header(ts[start + k - 1].level, ts[start + k - 1].name)
      /\ \A k \in 1..m : k # m => Between(ts[start + k - 1].body, f, at[k], at[k + 1])
      /\ m # 0 => Between(body, f, at[m], end)

\* While a file is read the headers are where the parts begin.
LEMMA ScanReadsParts ==
  ASSUME OInv, phase = "scan",
         NEW at \in [1..(Len(topics) + 1 - first) -> Headers(File)], HeadersAt(at)
  PROVE  PartsRead(at, File, topics, first, text, Len(File) + 1)
<1> DEFINE m == Len(topics) + 1 - first
<1>1. /\ m \in Nat /\ DOMAIN at = 1..m /\ first \in Nat /\ Len(topics) \in Nat /\ next = first
  BY PartsAre DEF OInv, Inv, Typed, Outline
<1>2. ASSUME NEW k \in 1..m
      PROVE  /\ File[at[k]] = Header(topics[first + k - 1].level, topics[first + k - 1].name)
             /\ Between(BodyRead(first + k - 1), File, at[k], EndOf(at, k, File))
  <2> DEFINE i == first + k - 1
  <2>1. File[at[k]] = Header(topics[i].level, topics[i].name) /\ BodyFits(i, at[k], EndOf(at, k, File))
    BY <1>1, <1>2 DEF HeadersAt
  <2>2. ~ (i < next)
    BY <1>1, <1>2
  <2> HIDE DEF i
  <2>3. Between(BodyRead(i), File, at[k], EndOf(at, k, File))
    BY <2>1, <2>2 DEF BodyFits
  <2> QED
    BY <2>1, <2>3 DEF i
<1>3. \A k \in 1..m : k # m => BodyRead(first + k - 1) = topics[first + k - 1].body
  <2>1. \A k \in 1..m : k # m => first + k - 1 # Len(topics)
    BY <1>1
  <2> QED
    BY <2>1 DEF BodyRead
<1>4. m # 0 => BodyRead(first + m - 1) = text /\ m \in 1..m
  <2>1. m # 0 => first + m - 1 = Len(topics) /\ m \in 1..m
    BY <1>1
  <2> QED
    BY <2>1 DEF BodyRead
<1>5. \A k \in 1..m : k # m => EndOf(at, k, File) = at[k + 1]
  BY PartsAre
<1>6. EndOf(at, m, File) = Len(File) + 1
  BY PartsAre
<1> HIDE DEF m
<1>7. m # 0 => Between(text, File, at[m], Len(File) + 1)
  BY <1>2, <1>4, <1>6
<1>8. \A k \in 1..m : k # m => Between(topics[first + k - 1].body, File, at[k], at[k + 1])
  BY <1>2, <1>3, <1>5
<1> QED
  BY <1>2, <1>7, <1>8 DEF PartsRead, m

\* And the other way round, for the file as it is after a step.
LEMMA PartsAreHeaders ==
  ASSUME phase' = "scan", next' = first', first' \in Nat, Len(topics') \in Nat, Len(File') \in Nat,
         NEW m \in Nat, m = Len(topics') + 1 - first', NEW H, H = Headers(File'),
         NEW at \in [1..m -> H], Lists(at, H),
         PartsRead(at, File', topics', first', text', Len(File') + 1)
  PROVE  HeadersRead'
<1>1. DOMAIN at = 1..m /\ Len(at) = m
  <2>1. m \in Nat /\ at \in [1..m -> H]
    OBVIOUS
  <2>2. at \in Seq(H) /\ DOMAIN at = 1..m
    BY ONLY <2>1
  <2> QED
    BY ONLY <2>1, <2>2
<1>2. /\ \A k \in 1..m : File'[at[k]] = Header(topics'[first' + k - 1].level, topics'[first' + k - 1].name)
      /\ \A k \in 1..m : k # m => Between(topics'[first' + k - 1].body, File', at[k], at[k + 1])
      /\ m # 0 => Between(text', File', at[m], Len(File') + 1)
  BY DEF PartsRead
<1>3. ASSUME NEW k \in 1..m, NEW i, i = first' + k - 1
      PROVE  /\ File'[at[k]] = Header(topics'[i].level, topics'[i].name)
             /\ BodyFits(i, at[k], EndOf(at, k, File))'
  <2>1. ~ (i < next') /\ (i = Len(topics') <=> k = m)
    <3>1. PICK a, n : a = first' /\ n = Len(topics')
      OBVIOUS
    <3>2. a \in Nat /\ n \in Nat /\ k \in Nat /\ k >= 1 /\ m \in Nat /\ m = n + 1 - a
      BY <1>3, <3>1
    <3>3. ~ (a + k - 1 < a)
      BY ONLY <3>2
    <3>4. a + k - 1 = n <=> k = m
      BY ONLY <3>2
    <3> QED
      BY <1>3, <3>1, <3>3, <3>4
  <2>2. CASE k = m
    <3>1. EndOf(at, k, File)' = Len(File') + 1
      BY <1>1, <2>2 DEF EndOf
    <3>2. BodyRead(i)' = text' /\ m # 0
      BY <2>1, <2>2 DEF BodyRead
    <3> QED
      BY <1>2, <1>3, <2>1, <2>2, <3>1, <3>2 DEF BodyFits
  <2>3. CASE k # m
    <3>1. EndOf(at, k, File)' = at[k + 1]
      BY <1>1, <2>3 DEF EndOf
    <3>2. BodyRead(i)' = topics'[i].body
      BY <2>1, <2>3 DEF BodyRead
    <3> QED
      BY <1>2, <1>3, <2>1, <2>3, <3>1, <3>2 DEF BodyFits
  <2> QED
    BY <2>2, <2>3
<1>4. HeadersAt(at)'
  <2>1. Lists(at, Headers(File))'
    BY DEF Lists
  <2>2. ASSUME NEW k \in DOMAIN at
        PROVE  (LET i == first + k - 1
                IN  /\ File[at[k]] = Header(topics[i].level, topics[i].name)
                    /\ BodyFits(i, at[k], EndOf(at, k, File)))'
    <3>1. PICK i : i = first' + k - 1
      OBVIOUS
    <3> QED
      BY <1>1, <1>3, <3>1
  <2> QED
    BY <2>1, <2>2 DEF HeadersAt
<1> QED
  BY <1>4 DEF HeadersRead

\* The parts stay where they are when a line more is read.
LEMMA PartsStay ==
  ASSUME NEW f \in Seq(Line), NEW x \in Line, NEW ts \in Seq(TopicRecord),
         NEW start \in Nat \ {0}, NEW m \in Nat, m = Len(ts) + 1 - start,
         NEW at \in [1..m -> 1..Len(f)], NEW body \in Seq(Text),
         PartsRead(at, f, ts, start, body, Len(f) + 1)
  PROVE  PartsRead(at, Append(f, x), ts, start, body, Len(f) + 1)
<1> DEFINE g == Append(f, x)
<1>1. Len(f) \in Nat /\ \A i \in 1..Len(f) : g[i] = f[i]
  OBVIOUS
<1>2. /\ \A k \in 1..m : at[k] \in 1..Len(f) /\ start + k - 1 \in 1..Len(ts)
      /\ \A k \in 1..m : k # m => k + 1 \in 1..m /\ start + k - 1 # Len(ts)
  <2> HIDE DEF g
  <2>1. Len(ts) \in Nat /\ start \in Nat /\ start >= 1
    OBVIOUS
  <2>2. \A k \in 1..m : start + k - 1 \in 1..Len(ts)
    BY <2>1
  <2>3. \A k \in 1..m : k # m => k + 1 \in 1..m
    <3>1. m \in Nat
      OBVIOUS
    <3> QED
      BY ONLY <3>1
  <2>4. \A k \in 1..m : k # m => start + k - 1 # Len(ts)
    BY <2>1
  <2>5. \A k \in 1..m : at[k] \in 1..Len(f)
    OBVIOUS
  <2> QED
    BY <2>2, <2>3, <2>4, <2>5
<1>3. /\ \A k \in 1..m : f[at[k]] = Header(ts[start + k - 1].level, ts[start + k - 1].name)
      /\ \A k \in 1..m : k # m => Between(ts[start + k - 1].body, f, at[k], at[k + 1])
      /\ m # 0 => Between(body, f, at[m], Len(f) + 1)
  BY DEF PartsRead
<1>4. \A i \in 1..Len(ts) : ts[i].body \in Seq(Text)
  <2>1. \A i \in 1..Len(ts) : ts[i] \in TopicRecord
    OBVIOUS
  <2> QED
    BY <2>1 DEF TopicRecord
<1> HIDE DEF g
<1>5. \A k \in 1..m : g[at[k]] = Header(ts[start + k - 1].level, ts[start + k - 1].name)
  <2> TAKE k \in 1..m
  <2>1. g[at[k]] = f[at[k]]
    BY <1>1, <1>2
  <2> QED
    BY <1>3, <2>1
<1>6. ASSUME NEW k \in 1..m, k # m
      PROVE  Between(ts[start + k - 1].body, g, at[k], at[k + 1])
  <2> DEFINE lines == ts[start + k - 1].body
             from == at[k]
             to == at[k + 1]
  <2>1. lines \in Seq(Text)
    BY <1>2, <1>4, <1>6
  <2>2. Between(lines, f, from, to)
    BY <1>3, <1>6
  <2>3. from \in 1..Len(f) /\ to \in 1..Len(f)
    BY <1>2, <1>6
  <2>4. to \in Nat /\ to <= Len(f) + 1
    BY <1>1, <2>3
  <2> HIDE DEF lines, from, to
  <2>5. Between(lines, g, from, to)
    BY <1>1, <2>1, <2>2, <2>3, <2>4, BetweenStays
  <2> QED
    BY <2>5 DEF lines, from, to
<1>7. ASSUME m # 0
      PROVE  Between(body, g, at[m], Len(f) + 1)
  <2> DEFINE from == at[m]
             to == Len(f) + 1
  <2>1. m \in 1..m
    BY <1>7
  <2>2. from \in 1..Len(f) /\ to \in Nat /\ to <= Len(f) + 1 /\ Between(body, f, from, to)
    BY <1>1, <1>2, <1>3, <1>7, <2>1
  <2> HIDE DEF from, to
  <2>3. Between(body, g, from, to)
    BY <1>1, <2>2, BetweenStays
  <2> QED
    BY <2>3 DEF from, to
<1> QED
  BY <1>5, <1>6, <1>7 DEF g, PartsRead

\* A line of text goes to the topic whose header came last.
LEMMA TextKeepsHeadersRead ==
  ASSUME OInv, HeadersRead, NEW t \in Text, ReadLine(TextLine(t))
  PROVE  HeadersRead'
<1> DEFINE x == TextLine(t)
<1>1. /\ Len(topics) \in Nat /\ topics \in Seq(TopicRecord) /\ text \in Seq(Text)
      /\ first \in Nat \ {0} /\ first <= Len(topics) + 1 /\ ListsTyped
  BY DEF OInv, Inv, Typed
<1>2. x \in Line /\ ~ IsHeader(x) /\ "text" \in DOMAIN x /\ x.text = t
  BY DEF TextLine, IsHeader, Line
<1>3. /\ phase = "scan" /\ phase' = "scan" /\ topics' = topics /\ first' = first /\ next' = next
      /\ LineRead(x) /\ KeepText(t)
  BY <1>2 DEF ReadLine
<1>4. next = first
  BY <1>3 DEF OInv, Outline
<1> HIDE DEF x
<1>5. File \in Seq(Line) /\ File' = Append(File, x)
  BY <1>1, <1>2, <1>3, LineIsRead
<1>6. PICK at \in [1..(Len(topics) + 1 - first) -> Headers(File)] : HeadersAt(at)
  BY <1>3 DEF HeadersRead, Refused
<1>7. PICK m, H, f, g : /\ m = Len(topics) + 1 - first /\ H = Headers(File)
                        /\ f = File /\ g = File'
  OBVIOUS
<1>8. /\ m \in Nat /\ Len(f) \in Nat /\ f \in Seq(Line) /\ g = Append(f, x)
      /\ Len(g) = Len(f) + 1 /\ DOMAIN f = 1..Len(f) /\ DOMAIN g = 1..(Len(f) + 1)
      /\ \A i \in 1..Len(f) : g[i] = f[i]
      /\ g[Len(f) + 1] = x
  BY <1>1, <1>5, <1>7
<1>9. Headers(g) = H
  <2>1. \A i : i \in 1..(Len(f) + 1) <=> i \in 1..Len(f) \/ i = Len(f) + 1
    BY <1>8
  <2> QED
    BY <1>2, <1>7, <1>8, <2>1 DEF Headers
<1>10. at \in [1..m -> H] /\ H \subseteq 1..Len(f) /\ at \in [1..m -> 1..Len(f)]
  <2>1. H \subseteq 1..Len(f)
    BY <1>7, <1>8 DEF Headers
  <2> QED
    BY <1>7, <2>1
<1>11. PartsRead(at, f, topics, first, text, Len(f) + 1)
  BY <1>3, <1>6, <1>7, ScanReadsParts
<1>12. /\ \A k \in 1..m : g[at[k]] = Header(topics[first + k - 1].level, topics[first + k - 1].name)
       /\ \A k \in 1..m : k # m => Between(topics[first + k - 1].body, g, at[k], at[k + 1])
       /\ m # 0 => Between(text, g, at[m], Len(f) + 1)
  <2>1. PICK ts, start, body : ts = topics /\ start = first /\ body = text
    OBVIOUS
  <2>2. /\ ts \in Seq(TopicRecord) /\ start \in Nat \ {0} /\ body \in Seq(Text)
        /\ m = Len(ts) + 1 - start /\ PartsRead(at, f, ts, start, body, Len(f) + 1)
    BY <1>1, <1>7, <1>11, <2>1
  <2>3. PartsRead(at, g, ts, start, body, Len(f) + 1)
    <3>1. /\ f \in Seq(Line) /\ x \in Line /\ m \in Nat /\ at \in [1..m -> 1..Len(f)]
          /\ g = Append(f, x)
      BY <1>2, <1>8, <1>10
    <3> QED
      BY ONLY <2>2, <3>1, PartsStay
  <2> QED
    BY <1>7, <2>1, <2>3 DEF PartsRead
<1>13. m # 0 => Between(text', g, at[m], Len(g) + 1)
  <2> SUFFICES ASSUME m # 0 PROVE Between(text', g, at[m], Len(g) + 1)
    OBVIOUS
  <2>1. text' = Append(text, t)
    BY <1>1, <1>3, <1>7 DEF KeepText, AnyTopic
  <2>2. PICK lines, more : lines = text /\ more = text'
    OBVIOUS
  <2>3. /\ Len(lines) \in Nat /\ Len(more) = Len(lines) + 1 /\ DOMAIN more = 1..(Len(lines) + 1)
        /\ \A i \in 1..Len(lines) : more[i] = lines[i]
        /\ more[Len(lines) + 1] = t
        /\ DOMAIN lines = 1..Len(lines)
    BY <1>1, <2>1, <2>2
  <2>4. /\ Len(lines) = (Len(f) + 1) - at[m] - 1
        /\ \A i \in 1..Len(lines) : g[at[m] + i] = TextLine(lines[i])
    BY <1>12, <2>2, <2>3 DEF Between
  <2>5. at[m] \in 1..Len(f)
    <3>1. m \in 1..m
      BY <1>8
    <3> QED
      BY <1>10, <3>1
  <2>6. at[m] + (Len(lines) + 1) = Len(f) + 1 /\ Len(lines) + 1 = (Len(g) + 1) - at[m] - 1
    <3>1. PICK a, c, d : a = at[m] /\ c = Len(lines) /\ d = Len(f)
      OBVIOUS
    <3>2. /\ a \in Nat /\ c \in Nat /\ d \in Nat /\ c = (d + 1) - a - 1
      BY <1>8, <2>3, <2>4, <2>5, <3>1
    <3>3. a + (c + 1) = d + 1 /\ c + 1 = (d + 1 + 1) - a - 1
      BY ONLY <3>2
    <3> QED
      BY <1>8, <3>1, <3>3
  <2>7. \A i \in 1..(Len(lines) + 1) : i \in 1..Len(lines) \/ i = Len(lines) + 1
    BY <2>3
  <2>8. \A i \in 1..(Len(lines) + 1) : g[at[m] + i] = TextLine(more[i])
    BY <1>8, <2>3, <2>4, <2>6, <2>7 DEF x
  <2> QED
    BY <2>2, <2>3, <2>6, <2>8 DEF Between
<1>14. PartsRead(at, g, topics, first, text', Len(g) + 1)
  BY <1>7, <1>12, <1>13 DEF PartsRead
<1>15. H = Headers(File') /\ Lists(at, H)
  BY <1>6, <1>7, <1>9 DEF HeadersAt
<1>16. PartsRead(at, File', topics', first', text', Len(File') + 1)
  BY <1>3, <1>7, <1>14
<1>17. /\ phase' = "scan" /\ next' = first' /\ first' \in Nat /\ Len(topics') \in Nat
       /\ Len(File') \in Nat /\ m = Len(topics') + 1 - first'
  BY <1>1, <1>3, <1>4, <1>7, <1>8
<1> QED
  BY <1>8, <1>10, <1>15, <1>16, <1>17, PartsAreHeaders

\* A new header gives the text before it to its topic and begins a part of its own.
LEMMA HeaderKeepsHeadersRead ==
  ASSUME OInv, HeadersRead, NEW l \in 1..MaxLevel, NEW n \in Name,
         ReadLine(Header(l, n)), ReadHeader(l, n)
  PROVE  HeadersRead'
<1> DEFINE x == Header(l, n)
           none == <<>>
<1>1. /\ Len(topics) \in Nat /\ topics \in Seq(TopicRecord) /\ text \in Seq(Text)
      /\ first \in Nat \ {0} /\ first <= Len(topics) + 1 /\ ListsTyped
  BY DEF OInv, Inv, Typed
<1>2. x \in Line /\ IsHeader(x)
  BY DEF Header, IsHeader, Line
<1>3. /\ phase = "scan" /\ phase' = "scan" /\ first' = first /\ next' = next /\ LineRead(x)
      /\ topics' = Append(BodySaved, NewTopic(l, n)) /\ text' = none
  BY DEF ReadLine, ReadHeader
<1>4. next = first
  BY <1>3 DEF OInv, Outline
<1>5. /\ BodySaved \in Seq(TopicRecord) /\ Len(BodySaved) = Len(topics)
      /\ \A i \in 1..Len(topics) : /\ BodySaved[i].level = topics[i].level
                                   /\ BodySaved[i].name = topics[i].name
                                   /\ i # Len(topics) => BodySaved[i].body = topics[i].body
      /\ AnyTopic => BodySaved[Len(topics)].body = text
  <2>1. CASE AnyTopic
    <3>1. Len(topics) \in 1..Len(topics)
      BY <1>1, <2>1 DEF AnyTopic
    <3>2. Changed(topics, BodySaved, Len(topics), text, topics[Len(topics)].children)
      BY <1>1, <2>1, <3>1, OneTopicChanges DEF BodySaved
    <3> QED
      BY <3>2 DEF Changed
  <2>2. CASE ~ AnyTopic
    BY <1>1, <2>2 DEF BodySaved
  <2> QED
    BY <2>1, <2>2
<1>6. /\ Len(topics') = Len(topics) + 1
      /\ \A i \in 1..Len(topics) : topics'[i] = BodySaved[i]
      /\ topics'[Len(topics) + 1].level = l /\ topics'[Len(topics) + 1].name = n
  <2>1. NewTopic(l, n).level = l /\ NewTopic(l, n).name = n
    BY DEF NewTopic
  <2>2. /\ topics'[Len(topics) + 1] = NewTopic(l, n) /\ Len(topics') = Len(topics) + 1
        /\ \A i \in 1..Len(topics) : topics'[i] = BodySaved[i]
    BY <1>1, <1>3, <1>5
  <2> QED
    BY <2>1, <2>2
<1> HIDE DEF x
<1>7. File \in Seq(Line) /\ File' = Append(File, x)
  BY <1>1, <1>2, <1>3, LineIsRead
<1>8. PICK at \in [1..(Len(topics) + 1 - first) -> Headers(File)] : HeadersAt(at)
  BY <1>3 DEF HeadersRead, Refused
<1>9. PICK m, H, f, g, ts, us, start, body :
        /\ m = Len(topics) + 1 - first /\ H = Headers(File)
        /\ f = File /\ g = File' /\ ts = topics /\ us = topics' /\ start = first /\ body = text
  OBVIOUS
<1>10. /\ m \in Nat /\ Len(f) \in Nat /\ f \in Seq(Line) /\ g = Append(f, x)
       /\ Len(g) = Len(f) + 1 /\ DOMAIN f = 1..Len(f) /\ DOMAIN g = 1..(Len(f) + 1)
       /\ \A i \in 1..Len(f) : g[i] = f[i]
       /\ g[Len(f) + 1] = x
  BY <1>1, <1>7, <1>9
<1> DEFINE e == Len(f) + 1
           newH == H \cup {e}
           M == m + 1
           new == [k \in 1..M |-> IF k <= m THEN at[k] ELSE e]
<1>11. Headers(g) = newH
  <2>1. \A i : i \in 1..(Len(f) + 1) <=> i \in 1..Len(f) \/ i = Len(f) + 1
    BY <1>10
  <2> QED
    BY <1>2, <1>9, <1>10, <2>1 DEF Headers
<1>12. H \subseteq 1..Len(f) /\ at \in [1..m -> 1..Len(f)] /\ at \in [1..m -> H]
  <2>1. H \subseteq 1..Len(f)
    BY <1>9, <1>10 DEF Headers
  <2> QED
    BY <1>9, <2>1
<1>13. /\ start \in Nat \ {0} /\ Len(ts) \in Nat /\ ts \in Seq(TopicRecord) /\ body \in Seq(Text)
       /\ m = Len(ts) + 1 - start /\ Len(us) = Len(ts) + 1
  BY <1>1, <1>6, <1>9
<1>14. PartsRead(at, g, ts, start, body, e)
  <2>1. PartsRead(at, f, ts, start, body, Len(f) + 1)
    BY <1>3, <1>8, <1>9, ScanReadsParts
  <2>2. x \in Line /\ f \in Seq(Line) /\ at \in [1..m -> 1..Len(f)] /\ m \in Nat
    BY <1>2, <1>10, <1>12
  <2>3. PartsRead(at, Append(f, x), ts, start, body, Len(f) + 1)
    BY ONLY <1>13, <2>1, <2>2, PartsStay
  <2> QED
    BY <1>10, <2>3
<1>15. /\ \A k \in 1..m : g[at[k]] = Header(ts[start + k - 1].level, ts[start + k - 1].name)
       /\ \A k \in 1..m : k # m => Between(ts[start + k - 1].body, g, at[k], at[k + 1])
       /\ m # 0 => Between(body, g, at[m], e)
  BY <1>13, <1>14 DEF PartsRead
<1>16. /\ \A i \in 1..Len(ts) : /\ us[i].level = ts[i].level /\ us[i].name = ts[i].name
                                /\ i # Len(ts) => us[i].body = ts[i].body
       /\ m # 0 => us[Len(ts)].body = body
       /\ us[Len(ts) + 1].level = l /\ us[Len(ts) + 1].name = n
  <2>1. m # 0 => AnyTopic /\ Len(topics) \in 1..Len(topics)
    BY <1>1, <1>9, <1>10 DEF AnyTopic
  <2> QED
    BY <1>5, <1>6, <1>9, <2>1
<1>17. /\ M \in Nat /\ DOMAIN new = 1..M /\ new[M] = e /\ M \in 1..M
       /\ \A k \in 1..m : new[k] = at[k] /\ k \in 1..M
       /\ \A k \in 1..M : k \in 1..m \/ k = M
       /\ \A k \in 1..m : k # m => k + 1 \in 1..m
       /\ m # 0 => m \in 1..m
  BY <1>10
<1>18. /\ \A k \in 1..m : start + k - 1 \in 1..Len(ts)
       /\ \A k \in 1..m : k # m => start + k - 1 # Len(ts)
       /\ start + m - 1 = Len(ts) /\ start + M - 1 = Len(ts) + 1
  <2>1. m = Len(ts) + 1 - start /\ start \in Nat /\ start >= 1 /\ Len(ts) \in Nat /\ m \in Nat
    BY <1>10, <1>13
  <2>2. \A k \in 1..m : start + k - 1 \in 1..Len(ts)
    BY ONLY <2>1
  <2>3. \A k \in 1..m : k # m => start + k - 1 # Len(ts)
    BY ONLY <2>1
  <2>4. start + m - 1 = Len(ts) /\ start + M - 1 = Len(ts) + 1
    BY <2>1
  <2> QED
    BY <2>2, <2>3, <2>4
<1> HIDE DEF new, newH, M, e
<1>19. new \in [1..M -> newH]
  BY <1>10, <1>12, <1>17 DEF new, newH, e
<1>20. Lists(new, newH)
  <2>1. Lists(at, H)
    BY <1>8, <1>9 DEF HeadersAt
  <2>2. DOMAIN at = 1..m /\ \A k \in 1..m : at[k] \in H /\ at[k] \in 1..Len(f)
    BY <1>12
  <2>3. ToSet(new) = newH
    <3>1. ASSUME NEW y \in H PROVE \E k \in 1..M : new[k] = y
      <4>1. PICK k \in 1..m : at[k] = y
        BY <2>1, <2>2 DEF Lists, ToSet
      <4> QED
        BY <1>17, <4>1
    <3>2. \E k \in 1..M : new[k] = e
      BY <1>17
    <3>3. \A k \in 1..M : new[k] \in newH
      BY <1>19
    <3> QED
      BY <1>17, <3>1, <3>2, <3>3 DEF ToSet, newH
  <2>4. ASSUME NEW i \in 1..M, NEW j \in 1..M, i < j
        PROVE  new[i] < new[j]
    <3>1. i \in 1..m
      BY <1>10, <2>4 DEF M
    <3>2. CASE j \in 1..m
      BY <1>17, <2>1, <2>2, <2>4, <3>1, <3>2 DEF Lists
    <3>3. CASE j = M
      BY <1>10, <1>17, <2>2, <3>1, <3>3 DEF e
    <3> QED
      BY <1>17, <3>2, <3>3
  <2> QED
    BY <1>17, <2>3, <2>4 DEF Lists
<1>21. \A k \in 1..M : g[new[k]] = Header(us[start + k - 1].level, us[start + k - 1].name)
  <2> TAKE k \in 1..M
  <2>1. CASE k \in 1..m
    BY <1>15, <1>16, <1>17, <1>18, <2>1
  <2>2. CASE k = M
    BY <1>10, <1>16, <1>17, <1>18, <2>2 DEF x, e
  <2> QED
    BY <1>17, <2>1, <2>2
<1>22. ASSUME NEW k \in 1..M, k # M
       PROVE  Between(us[start + k - 1].body, g, new[k], new[k + 1])
  <2>1. k \in 1..m
    BY <1>17, <1>22
  <2>2. CASE k # m
    BY <1>15, <1>16, <1>17, <1>18, <2>1, <2>2
  <2>3. CASE k = m
    <3>1. m # 0 /\ new[k] = at[m] /\ new[k + 1] = e
      BY <1>10, <1>17, <2>1, <2>3 DEF M
    <3>2. us[start + k - 1].body = body
      BY <1>16, <1>18, <2>3, <3>1
    <3> QED
      BY <1>15, <3>1, <3>2
  <2> QED
    BY <2>2, <2>3
<1>23. Between(none, g, new[M], Len(g) + 1)
  <2>1. Len(none) = 0 /\ DOMAIN none = {}
    OBVIOUS
  <2>2. (Len(g) + 1) - new[M] - 1 = 0
    BY <1>10, <1>17 DEF e
  <2> HIDE DEF none
  <2> QED
    BY <2>1, <2>2 DEF Between
<1> HIDE DEF none
<1>24. M = Len(us) + 1 - start
  BY <1>10, <1>13 DEF M
<1>25. PartsRead(new, g, us, start, none, Len(g) + 1)
  BY <1>21, <1>22, <1>23, <1>24 DEF PartsRead
<1>26. PartsRead(new, File', topics', first', text', Len(File') + 1)
  BY <1>3, <1>9, <1>25
<1>27. /\ phase' = "scan" /\ next' = first' /\ first' \in Nat /\ Len(topics') \in Nat
       /\ Len(File') \in Nat /\ M = Len(topics') + 1 - first' /\ newH = Headers(File')
  BY <1>1, <1>3, <1>4, <1>6, <1>9, <1>10, <1>11, <1>24
<1> QED
  BY <1>17, <1>19, <1>20, <1>26, <1>27, PartsAreHeaders

\* Every step leaves the headers read.
LEMMA HeadersStayRead ==
  ASSUME OInv, HeadersRead, [Next]_vars
  PROVE  HeadersRead'
<1>1. /\ Len(topics) \in Nat /\ topics \in Seq(TopicRecord) /\ text \in Seq(Text)
      /\ first \in Nat \ {0} /\ first <= Len(topics) + 1 /\ next \in Nat /\ ListsTyped
  BY DEF OInv, Inv, Typed
<1>2. CASE phase' \in Refused
  BY <1>2 DEF HeadersRead
<1>3. ASSUME UNCHANGED <<files, topics, first, next>>, phase \notin Refused,
             phase = "scan" <=> phase' = "scan", text' = text
      PROVE  HeadersRead'
  <2>1. \A i, from, to : BodyFits(i, from, to)' <=> BodyFits(i, from, to)
    <3>1. File' = File
      BY <1>3 DEF File
    <3>2. \A i : BodyRead(i)' = BodyRead(i)
      BY <1>3 DEF BodyRead
    <3> QED
      BY <1>3, <3>1, <3>2 DEF BodyFits
  <2> QED
    BY <1>3, <2>1, FileStaysRead
<1>4. ASSUME NEW l \in 1..MaxLevel, NEW n \in Name, ReadLine(Header(l, n)), phase' \notin Refused
      PROVE  HeadersRead'
  <2>1. Header(l, n).level = l /\ Header(l, n).name = n /\ "text" \notin DOMAIN Header(l, n)
    BY DEF Header
  <2>2. ReadHeader(l, n) \/ RejectHeader(l, n)
    BY <1>4, <2>1 DEF ReadLine
  <2>3. ~ RejectHeader(l, n)
    BY <1>4 DEF RejectHeader, Refused
  <2> QED
    BY <1>4, <2>2, <2>3, HeaderKeepsHeadersRead
<1>5. ASSUME NEW t \in Text, ReadLine(TextLine(t))
      PROVE  HeadersRead'
  BY <1>5, TextKeepsHeadersRead
<1>6. CASE ReadFails
  <2>1. /\ phase = "scan" /\ File = <<>>
        /\ UNCHANGED <<files, topics, first, text, next>> /\ phase' = "Io"
    BY <1>6 DEF ReadFails
  <2>2. PICK at \in [1..(Len(topics) + 1 - first) -> Headers(File)] : HeadersAt(at)
    BY <2>1 DEF HeadersRead, Refused
  <2>3. \A i : ~ (i \in first..Len(topics))
    <3>1. Headers(File) = {}
      BY <2>1 DEF Headers
    <3>2. ~ (1 \in 1..(Len(topics) + 1 - first))
      BY <2>2, <3>1
    <3> QED
      BY <1>1, <3>2
  <2> QED
    BY <2>1, <2>3, FileStaysRead DEF Refused
<1>7. CASE EndOfFile
  <2>1. /\ phase = "scan" /\ phase' = "assemble" /\ topics' = BodySaved /\ next' = first
        /\ UNCHANGED <<files, first>>
    BY <1>7 DEF EndOfFile
  <2>2. next = first
    BY <2>1 DEF OInv, Outline
  <2>3. /\ Len(BodySaved) = Len(topics)
        /\ \A i \in first..Len(topics) : BodySaved[i].body = BodyRead(i)
    <3>1. CASE AnyTopic
      <4>1. Len(topics) \in 1..Len(topics)
        BY <1>1, <3>1 DEF AnyTopic
      <4>2. Changed(topics, BodySaved, Len(topics), text, topics[Len(topics)].children)
        BY <1>1, <3>1, <4>1, OneTopicChanges DEF BodySaved
      <4>3. \A i \in first..Len(topics) : i \in 1..Len(topics)
        BY <1>1
      <4> QED
        BY <2>1, <4>2, <4>3 DEF Changed, BodyRead
    <3>2. CASE ~ AnyTopic
      BY <1>1, <3>2 DEF BodySaved, AnyTopic
    <3> QED
      BY <3>1, <3>2
  <2>4. \A i \in first..Len(topics) : BodyRead(i)' = BodyRead(i)
    BY <2>1, <2>3 DEF BodyRead
  <2>5. \A i \in first..Len(topics) : ~ (i < next) /\ ~ (i < next')
    BY <1>1, <2>1, <2>2
  <2>6. File' = File
    BY <2>1 DEF File
  <2>7. \A i \in first..Len(topics) : \A from, to : BodyFits(i, from, to) => BodyFits(i, from, to)'
    BY <2>4, <2>5, <2>6 DEF BodyFits
  <2>8. Len(topics') = Len(topics) /\ phase \notin Refused
    BY <2>1, <2>3 DEF Refused
  <2> QED
    BY <2>1, <2>7, <2>8, FileStaysRead
<1>8. CASE Pop \/ Flush
  <2>1. CloseTop /\ stack # <<>> /\ Inv /\ phase = "assemble"
        /\ UNCHANGED <<files, first, text, phase, next>>
    BY <1>8 DEF Pop, Flush, OInv
  <2>2. /\ Len(topics') = Len(topics)
        /\ \A i \in 1..Len(topics) : topics'[i].body = topics[i].body
    <3> DEFINE d == Len(stack)
    <3>1. d \in Nat \ {0} /\ Len(topics') = Len(topics)
      BY <2>1, CloseTopIs
    <3>2. d = 1 => topics' = topics
      BY <2>1, CloseTopIs
    <3>3. d > 1 => \E k, c : Changed(topics, topics', k, topics[k].body, c)
      BY <2>1, CloseTopIs
    <3> HIDE DEF d
    <3>4. d = 1 \/ d > 1
      BY <3>1, SMT
    <3>5. CASE d = 1
      BY <3>2, <3>5
    <3>6. CASE d > 1
      BY <3>1, <3>3, <3>6 DEF Changed
    <3> QED
      BY <3>1, <3>4, <3>5, <3>6
  <2>3. \A i \in first..Len(topics) : i \in 1..Len(topics)
    BY <1>1
  <2>4. File' = File
    BY <2>1 DEF File
  <2>5. \A i \in first..Len(topics) : BodyRead(i)' = BodyRead(i)
    BY <2>1, <2>2, <2>3 DEF BodyRead
  <2>6. \A i \in first..Len(topics) : \A from, to : BodyFits(i, from, to) => BodyFits(i, from, to)'
    BY <2>1, <2>2, <2>3, <2>4, <2>5 DEF BodyFits
  <2> QED
    BY <2>1, <2>2, <2>6, FileStaysRead DEF Refused
<1>9. CASE FinishFile \/ Merge \/ UNCHANGED vars
  <2>1. phase \in Refused => phase' \in Refused
    BY <1>9 DEF FinishFile, Merge, Refused, vars
  <2>2. /\ UNCHANGED <<files, topics, first, next, text>>
        /\ phase = "scan" <=> phase' = "scan"
    BY <1>9 DEF FinishFile, Merge, vars
  <2> QED
    BY <1>2, <1>3, <2>1, <2>2
<1>10. CASE Push
  <2>1. /\ phase = "assemble" /\ next <= Len(topics) /\ next' = next + 1
        /\ topics' = [topics EXCEPT ![next].body = Trimmed(topics[next].body)]
        /\ UNCHANGED <<files, first, phase>>
    BY <1>10 DEF Push
  <2>2. next \in 1..Len(topics)
    BY <1>1, <2>1 DEF OInv, Inv, Typed
  <2>3. \A i \in 1..Len(topics) : topics[i].body \in Seq(Text)
    <3>1. \A i \in 1..Len(topics) : topics[i] \in TopicRecord
      BY <1>1
    <3> QED
      BY <3>1 DEF TopicRecord
  <2>4. Trimmed(topics[next].body) \in Seq(Text)
    BY <2>2, <2>3, TrimmedIsText
  <2>5. Changed(topics, topics', next, Trimmed(topics[next].body), topics[next].children)
    BY <1>1, <2>1, <2>2, <2>4, OneTopicChanges
  <2>6. /\ Len(topics') = Len(topics) /\ topics'[next].body = Trimmed(topics[next].body)
        /\ \A i \in 1..Len(topics) : i # next => topics'[i] = topics[i]
    BY <2>5 DEF Changed
  <2>7. File' = File /\ File \in Seq(Line) /\ Len(File) \in Nat
    BY <1>1, <2>1, LineIsRead DEF File
  <2>8. \A i : BodyRead(i) = topics[i].body /\ BodyRead(i)' = topics'[i].body
    BY <2>1 DEF BodyRead
  <2>9. ASSUME NEW i \in first..Len(topics), NEW from \in 1..Len(File),
               NEW to \in 1..(Len(File) + 1), BodyFits(i, from, to)
        PROVE  BodyFits(i, from, to)'
    <3>1. i \in 1..Len(topics) /\ i \in Nat
      BY <1>1
    <3>2. CASE i = next
      <4>1. i < next' /\ ~ (i < next)
        BY <1>1, <2>1, <3>2
      <4>2. PICK lines : lines = topics[i].body
        OBVIOUS
      <4>3. Between(lines, File, from, to) /\ lines \in Seq(Text)
        BY <2>3, <2>8, <2>9, <3>1, <4>1, <4>2 DEF BodyFits
      <4>4. to \in Nat /\ to <= Len(File) + 1
        BY <2>7
      <4>5. IsBody(Trimmed(lines), File, from, to)
        BY <2>7, <4>3, <4>4, TrimmedIsBody
      <4>6. topics'[i].body = Trimmed(lines)
        BY <2>6, <3>2, <4>2
      <4> QED
        BY <2>7, <4>1, <4>5, <4>6 DEF BodyFits
    <3>3. CASE i # next
      <4>1. i < next <=> i < next'
        BY <1>1, <2>1, <3>1, <3>3
      <4>2. topics'[i] = topics[i]
        BY <2>6, <3>1, <3>3
      <4> QED
        BY <2>7, <2>8, <2>9, <4>1, <4>2 DEF BodyFits
    <3> QED
      BY <3>2, <3>3
  <2>10. phase \notin Refused
    BY <2>1 DEF Refused
  <2> QED
    BY <2>1, <2>6, <2>9, <2>10, FileStaysRead
<1>11. CASE NextFile
  <2> DEFINE none == <<>>
  <2>1. /\ phase = "parsed" /\ phase' = "scan" /\ first' = Len(topics) + 1
        /\ files' = Append(files, none) /\ UNCHANGED <<topics, next>>
    BY <1>11 DEF NextFile
  <2>2. none \in Seq(Line) /\ Len(none) = 0 /\ DOMAIN none = {} /\ none \in [1..0 -> {}]
    OBVIOUS
  <2>3. Lists(none, {})
    BY <2>2 DEF Lists, ToSet
  <2> HIDE DEF none
  <2>4. File' = none
    <3>1. Len(files') = Len(files) + 1 /\ files'[Len(files) + 1] = none
      BY <1>1, <2>1, <2>2 DEF ListsTyped
    <3> QED
      BY <3>1 DEF File, Last
  <2>5. next' = first'
    BY <2>1 DEF OInv, Outline
  <2>6. {} = Headers(File')
    BY <2>2, <2>4 DEF Headers
  <2>7. PartsRead(none, File', topics', first', text', Len(File') + 1)
    <3>1. Len(topics') + 1 - first' = 0
      BY <1>1, <2>1
    <3>2. ~ \E k : k \in 1..0
      OBVIOUS
    <3> QED
      BY <3>1, <3>2 DEF PartsRead
  <2>8. first' \in Nat /\ Len(topics') \in Nat /\ Len(File') \in Nat /\ 0 = Len(topics') + 1 - first'
    BY <1>1, <2>1, <2>2, <2>4
  <2>9. PICK at, m, H : at = none /\ m = 0 /\ H = {}
    OBVIOUS
  <2>10. /\ m \in Nat /\ m = Len(topics') + 1 - first' /\ H = Headers(File')
         /\ at \in [1..m -> H] /\ Lists(at, H)
         /\ PartsRead(at, File', topics', first', text', Len(File') + 1)
    BY <2>2, <2>3, <2>6, <2>7, <2>8, <2>9
  <2> QED
    BY <2>1, <2>5, <2>8, <2>10, PartsAreHeaders
<1> QED
  BY <1>2, <1>4, <1>5, <1>6, <1>7, <1>8, <1>9, <1>10, <1>11 DEF Next

\* At first no line has been read.
LEMMA InitHeaders == Init => HeadersRead
<1> SUFFICES ASSUME Init PROVE HeadersRead
  OBVIOUS
<1> DEFINE none == <<>>
<1>1. files = <<none>> /\ topics = <<>> /\ first = 1
  BY DEF Init
<1>2. none \in [1..0 -> {}] /\ DOMAIN none = {}
  OBVIOUS
<1>3. Lists(none, {})
  BY <1>2 DEF Lists, ToSet
<1> HIDE DEF none
<1>4. File = none
  BY <1>1 DEF File, Last
<1>5. Headers(File) = {} /\ Len(topics) + 1 - first = 0
  BY <1>1, <1>2, <1>4 DEF Headers
<1>6. HeadersAt(none)
  BY <1>2, <1>3, <1>5 DEF HeadersAt
<1> QED
  BY <1>2, <1>5, <1>6 DEF HeadersRead

\* In every parsed file each topic has the level and name of its header and the text up
\* to the next header, without the empty lines at its end.
THEOREM BodiesStayTheText == Spec => []BodiesAreTheText
<1>1. Spec => [](OInv /\ HeadersRead)
  <2>1. OInv /\ HeadersRead /\ [Next]_vars => HeadersRead'
    BY HeadersStayRead
  <2> QED
    BY <2>1, InitHeaders, OutlineInv, PTL DEF Spec
<1>2. OInv /\ HeadersRead => BodiesAreTheText
  <2> SUFFICES ASSUME OInv, HeadersRead, phase = "parsed"
               PROVE  \E at \in [1..(Len(topics) + 1 - first) -> Headers(File)] :
                        /\ Lists(at, Headers(File))
                        /\ \A k \in DOMAIN at :
                             LET topic == topics[first + k - 1]
                             IN  /\ File[at[k]] = Header(topic.level, topic.name)
                                 /\ IsBody(topic.body, File, at[k], EndOf(at, k, File))
    BY DEF BodiesAreTheText
  <2>1. PICK at \in [1..(Len(topics) + 1 - first) -> Headers(File)] : HeadersAt(at)
    BY DEF HeadersRead, Refused
  <2>2. next = Len(topics) + 1 /\ Len(topics) \in Nat /\ first \in Nat
    BY DEF OInv, Outline, Inv, Typed
  <2>3. ASSUME NEW k \in DOMAIN at
        PROVE  IsBody(topics[first + k - 1].body, File, at[k], EndOf(at, k, File))
    <3> DEFINE i == first + k - 1
    <3>1. i < next
      BY <2>1, <2>2, PartsAre
    <3>2. BodyFits(i, at[k], EndOf(at, k, File))
      BY <2>1 DEF HeadersAt
    <3> HIDE DEF i
    <3>3. IsBody(topics[i].body, File, at[k], EndOf(at, k, File))
      BY <3>1, <3>2 DEF BodyFits
    <3> QED
      BY <3>3 DEF i
  <2>4. \A k \in DOMAIN at :
          File[at[k]] = Header(topics[first + k - 1].level, topics[first + k - 1].name)
    BY <2>1 DEF HeadersAt
  <2>5. Lists(at, Headers(File))
    BY <2>1 DEF HeadersAt
  <2> QED
    BY <2>3, <2>4, <2>5
<1> QED
  BY <1>1, <1>2, PTL
-----------------------------------------------------------------------------
(***************************************************************************)
(* Refused files                                                           *)
(***************************************************************************)

\* The level before line i of a file: that of the last header before it
HeaderBefore(f, i) == {j \in Headers(f) : j < i /\ \A k \in Headers(f) : k < i => k <= j}
LevelsBefore(f, i) == {0} \cup {f[h].level : h \in HeaderBefore(f, i)}

\* What is bad about a line, with these names
LEMMA BadIs ==
  ASSUME NEW f, NEW i
  PROVE  Bad(f, i) <=> /\ IsHeader(f[i])
                       /\ f[i].name \in TooLong \/ f[i].level > 1 + Max(LevelsBefore(f, i))
BY DEF Bad, HeaderBefore, LevelsBefore

\* No level is the maximum of 0 alone, and a level that of it and 0.
LEMMA MaxOfLevel ==
  ASSUME NEW S, NEW l \in Nat, S = {0} \cup {l}
  PROVE  Max(S) = l
<1>1. l \in S /\ \A y \in S : l >= y
  OBVIOUS
<1>2. \A z \in S : (\A y \in S : z >= y) => z = l
  OBVIOUS
<1> QED
  BY <1>1, <1>2 DEF Max

\* A line is as bad as it was when lines are added after it.
LEMMA BadStays ==
  ASSUME NEW f \in Seq(Line), NEW x, NEW g, g = Append(f, x), NEW i \in 1..Len(f)
  PROVE  Bad(g, i) <=> Bad(f, i)
<1>1. /\ Len(f) \in Nat /\ DOMAIN f = 1..Len(f) /\ DOMAIN g = 1..(Len(f) + 1)
      /\ \A j \in 1..Len(f) : g[j] = f[j] /\ j \in 1..(Len(f) + 1)
  OBVIOUS
<1>2. \A j \in 1..(Len(f) + 1) : j < i => j \in 1..Len(f)
  BY <1>1
<1>3. \A j : j < i => (j \in Headers(g) <=> j \in Headers(f))
  BY <1>1, <1>2 DEF Headers
<1>4. HeaderBefore(g, i) = HeaderBefore(f, i)
  BY <1>3 DEF HeaderBefore
<1>5. \A h \in HeaderBefore(f, i) : g[h] = f[h]
  BY <1>1 DEF HeaderBefore, Headers
<1>6. LevelsBefore(g, i) = LevelsBefore(f, i)
  BY <1>4, <1>5 DEF LevelsBefore
<1> QED
  BY <1>1, <1>6, BadIs

\* The parser knows the level of the last header, so it sees what is bad about a line.
LEMMA BadLineIsSeen ==
  ASSUME OInv, HeadersRead, phase = "scan", NEW x \in Line, NEW g, g = Append(File, x)
  PROVE  Bad(g, Len(File) + 1) <=> IsHeader(x) /\ (x.name \in TooLong \/ ~ InSequence(x.level))
<1>1. PICK at \in [1..(Len(topics) + 1 - first) -> Headers(File)] : HeadersAt(at)
  BY DEF HeadersRead, Refused
<1>2. PICK m, H, f : m = Len(topics) + 1 - first /\ H = Headers(File) /\ f = File
  OBVIOUS
<1>3. /\ m \in Nat /\ DOMAIN at = 1..m /\ Len(f) \in Nat /\ f \in Seq(Line)
      /\ \A k \in 1..m : at[k] \in 1..Len(f)
  BY <1>1, <1>2, PartsAre
<1>4. /\ ToSet(at) = H /\ \A i, j \in 1..m : i < j => at[i] < at[j]
      /\ \A k \in 1..m : f[at[k]] = Header(topics[first + k - 1].level, topics[first + k - 1].name)
  BY <1>1, <1>2, <1>3 DEF HeadersAt, Lists
<1>5. /\ topics \in Seq(TopicRecord) /\ Len(topics) \in Nat /\ first \in Nat
  BY DEF OInv, Inv, Typed
<1>6. /\ DOMAIN g = 1..(Len(f) + 1) /\ DOMAIN f = 1..Len(f) /\ g[Len(f) + 1] = x
      /\ \A j \in 1..Len(f) : g[j] = f[j] /\ j < Len(f) + 1 /\ j \in 1..(Len(f) + 1)
      /\ \A j \in 1..(Len(f) + 1) : j < Len(f) + 1 => j \in 1..Len(f)
  BY <1>2, <1>3
<1>7. \A j : (j \in Headers(g) /\ j < Len(f) + 1) <=> j \in H
  BY <1>2, <1>6 DEF Headers
<1>8. HeaderBefore(g, Len(f) + 1) = {j \in H : \A k \in H : k <= j}
  BY <1>7 DEF HeaderBefore
<1>9. H = {at[k] : k \in 1..m}
  BY <1>3, <1>4 DEF ToSet
<1>10. Max(LevelsBefore(g, Len(f) + 1)) = LastLevel /\ LastLevel \in Nat
  <2>1. CASE m = 0
    <3>1. H = {}
      BY <1>9, <2>1
    <3>2. HeaderBefore(g, Len(f) + 1) = {}
      BY <1>8, <3>1
    <3>3. LevelsBefore(g, Len(f) + 1) = {0} \cup {0}
      BY <3>2 DEF LevelsBefore
    <3>4. Max(LevelsBefore(g, Len(f) + 1)) = 0
      BY <3>3, MaxOfLevel
    <3>5. ~ AnyTopic
      BY <1>2, <1>5, <2>1 DEF AnyTopic
    <3> QED
      BY <3>4, <3>5 DEF LastLevel
  <2>2. CASE m # 0
    <3>1. m \in 1..m
      BY <1>3, <2>2
    <3>2. \A k \in 1..m : at[k] <= at[m]
      <4> TAKE k \in 1..m
      <4>1. k = m \/ k < m
        BY <1>3
      <4>2. at[k] \in Nat /\ at[m] \in Nat
        BY <1>3, <3>1
      <4> QED
        BY <1>4, <3>1, <4>1, <4>2
    <3>3. at[m] \in H /\ \A j \in H : j <= at[m]
      BY <1>9, <3>1, <3>2
    <3>4. \A j \in H : (\A k \in H : k <= j) => j = at[m]
      <4>1. \A j \in H : j \in Nat
        BY <1>3, <1>9
      <4> QED
        BY <3>3, <4>1
    <3>5. HeaderBefore(g, Len(f) + 1) = {at[m]}
      BY <1>8, <3>3, <3>4
    <3>6. /\ AnyTopic /\ first + m - 1 = Len(topics) /\ Len(topics) \in 1..Len(topics)
      <4>1. \A a, n \in Nat : m = n + 1 - a => n >= a /\ a + m - 1 = n
        BY <1>3, <2>2
      <4>2. Len(topics) >= first /\ first + m - 1 = Len(topics)
        BY <1>2, <1>5, <4>1
      <4>3. PICK n : n = Len(topics)
        OBVIOUS
      <4>4. n \in Nat /\ n # 0
        <5>1. first \in Nat /\ first # 0 /\ first <= n
          BY <1>5, <4>2, <4>3 DEF OInv, Inv, Typed
        <5> QED
          BY <1>5, <4>3, <5>1
      <4> QED
        BY <4>2, <4>3, <4>4 DEF AnyTopic
    <3>7. g[at[m]].level = topics[Len(topics)].level
      <4>1. g[at[m]] = f[at[m]]
        BY <1>3, <1>6, <3>1
      <4>2. f[at[m]] = Header(topics[Len(topics)].level, topics[Len(topics)].name)
        BY <1>4, <3>1, <3>6
      <4> QED
        BY <4>1, <4>2 DEF Header
    <3>8. LastLevel = topics[Len(topics)].level
      BY <3>6 DEF LastLevel
    <3>9. LastLevel \in Nat
      <4>1. topics[Len(topics)] \in TopicRecord
        BY <1>5, <3>6
      <4>2. topics[Len(topics)].level \in 1..MaxLevel
        BY <4>1 DEF TopicRecord
      <4> QED
        BY <3>8, <4>2
    <3>10. LevelsBefore(g, Len(f) + 1) = {0} \cup {LastLevel}
      BY <3>5, <3>7, <3>8 DEF LevelsBefore
    <3> QED
      BY <3>9, <3>10, MaxOfLevel
  <2> QED
    BY <2>1, <2>2
<1>11. Bad(g, Len(f) + 1) <=> IsHeader(x) /\ (x.name \in TooLong \/ x.level > 1 + LastLevel)
  BY <1>6, <1>10, BadIs
<1>12. IsHeader(x) => (x.level > 1 + LastLevel <=> ~ InSequence(x.level))
  <2>1. IsHeader(x) => x.level \in Nat
    BY DEF IsHeader, Line
  <2> QED
    BY <1>10, <2>1 DEF InSequence
<1> QED
  BY <1>2, <1>11, <1>12

\* Every step refuses a file at its first bad header, or not at all.
LEMMA RefusalIsKept ==
  ASSUME OInv, HeadersRead, RefusedAtFirstBadHeader, [Next]_vars
  PROVE  RefusedAtFirstBadHeader'
<1>1. /\ Len(File) \in Nat /\ File \in Seq(Line) /\ ListsTyped
  BY LineIsRead DEF OInv
<1>2. ASSUME files' = files,
             phase' = phase \/ (phase \notin Refused /\ phase' \notin Refused)
      PROVE  RefusedAtFirstBadHeader'
  <2>1. File' = File
    BY <1>2 DEF File
  <2>2. /\ (phase' \in Refused <=> phase \in Refused)
        /\ (phase \in Refused => phase' = phase)
    BY <1>2
  <2> QED
    BY <2>1, <2>2 DEF RefusedAtFirstBadHeader, Refused
<1>3. ASSUME NEW x \in Line, phase = "scan", LineRead(x),
             phase' \in Refused <=> IsHeader(x) /\ (x.name \in TooLong \/ ~ InSequence(x.level)),
             phase' \in Refused => (phase' = "NameTooLong" <=> x.name \in TooLong)
      PROVE  RefusedAtFirstBadHeader'
  <2>1. File' = Append(File, x)
    BY <1>1, <1>3, LineIsRead
  <2>2. PICK f, g : f = File /\ g = File'
    OBVIOUS
  <2>3. /\ Len(f) \in Nat /\ f \in Seq(Line) /\ g = Append(f, x) /\ Len(g) = Len(f) + 1
        /\ g[Len(f) + 1] = x /\ g # <<>> /\ Last(g) = x
    BY <1>1, <2>1, <2>2 DEF Last
  <2>4. \A i \in 1..Len(f) : ~ Bad(f, i)
    <3>1. /\ \A i \in 1..(Len(f) - 1) : ~ Bad(f, i)
          /\ f # <<>> => ~ Bad(f, Len(f))
      BY <1>3, <2>2 DEF RefusedAtFirstBadHeader
    <3>2. \A i \in 1..Len(f) : i \in 1..(Len(f) - 1) \/ i = Len(f)
      BY <2>3
    <3>3. \A i \in 1..Len(f) : f # <<>>
      BY <2>3
    <3> QED
      BY <3>1, <3>2, <3>3
  <2>5. \A i \in 1..(Len(g) - 1) : ~ Bad(g, i)
    <3>1. \A i \in 1..(Len(g) - 1) : i \in 1..Len(f)
      BY <2>3
    <3>2. \A i \in 1..Len(f) : ~ Bad(g, i)
      BY <2>3, <2>4, BadStays
    <3> QED
      BY <3>1, <3>2
  <2>6. Bad(g, Len(g)) <=> phase' \in Refused
    <3>1. Bad(g, Len(f) + 1) <=> IsHeader(x) /\ (x.name \in TooLong \/ ~ InSequence(x.level))
      BY <1>3, <2>2, <2>3, BadLineIsSeen
    <3> QED
      BY <1>3, <2>3, <3>1
  <2> QED
    BY <1>3, <2>2, <2>3, <2>5, <2>6 DEF RefusedAtFirstBadHeader, Refused
<1>4. ASSUME NEW l \in 1..MaxLevel, NEW n \in Name, ReadLine(Header(l, n))
      PROVE  RefusedAtFirstBadHeader'
  <2> DEFINE x == Header(l, n)
  <2>1. /\ x \in Line /\ x.level = l /\ x.name = n /\ IsHeader(x) /\ "text" \notin DOMAIN x
    BY DEF Header, Line, IsHeader
  <2>2. phase = "scan" /\ LineRead(x) /\ (ReadHeader(l, n) \/ RejectHeader(l, n))
    BY <1>4, <2>1 DEF ReadLine
  <2>3. CASE ReadHeader(l, n)
    <3>1. n \notin TooLong /\ InSequence(l) /\ phase' = phase
      BY <2>3 DEF ReadHeader
    <3>2. phase' \notin Refused
      BY <2>2, <3>1 DEF Refused
    <3> HIDE DEF x
    <3> QED
      BY <1>3, <2>1, <2>2, <3>1, <3>2
  <2>4. CASE RejectHeader(l, n)
    <3>1. /\ n \in TooLong \/ ~ InSequence(l)
          /\ phase' \in Refused /\ (phase' = "NameTooLong" <=> n \in TooLong)
      BY <2>4 DEF RejectHeader, Refused
    <3> HIDE DEF x
    <3> QED
      BY <1>3, <2>1, <2>2, <3>1
  <2> QED
    BY <2>2, <2>3, <2>4
<1>5. ASSUME NEW t \in Text, ReadLine(TextLine(t))
      PROVE  RefusedAtFirstBadHeader'
  <2> DEFINE x == TextLine(t)
  <2>1. x \in Line /\ ~ IsHeader(x) /\ "text" \in DOMAIN x
    BY DEF TextLine, Line, IsHeader
  <2>2. phase = "scan" /\ phase' = "scan" /\ LineRead(x)
    BY <1>5, <2>1 DEF ReadLine
  <2>3. phase' \notin Refused
    BY <2>2 DEF Refused
  <2> HIDE DEF x
  <2> QED
    BY <1>3, <2>1, <2>2, <2>3
<1>6. CASE ReadFails \/ EndOfFile \/ FinishFile \/ Merge
  BY <1>2, <1>6 DEF ReadFails, EndOfFile, FinishFile, Merge, Refused
<1>7. CASE Pop \/ Push \/ Flush \/ UNCHANGED vars
  BY <1>2, <1>7 DEF Pop, Push, Flush, vars
<1>8. CASE NextFile
  <2> DEFINE none == <<>>
  <2>1. phase' = "scan" /\ files' = Append(files, none)
    BY <1>8 DEF NextFile
  <2>2. none \in Seq(Line) /\ Len(none) = 0
    OBVIOUS
  <2> HIDE DEF none
  <2>3. File' = none
    <3>1. Len(files') = Len(files) + 1 /\ files'[Len(files) + 1] = none
      BY <1>1, <2>1, <2>2 DEF ListsTyped
    <3> QED
      BY <3>1 DEF File, Last
  <2>4. phase' \notin Refused /\ ~ \E i : i \in 1..(Len(File') - 1)
    BY <2>1, <2>2, <2>3 DEF Refused
  <2> QED
    BY <2>3, <2>4 DEF RefusedAtFirstBadHeader, Refused, none
<1> QED
  BY <1>4, <1>5, <1>6, <1>7, <1>8 DEF Next

\* A file is refused at its first bad header, for what is wrong there, and a file
\* without one is never refused.
THEOREM RefusalStaysAtFirstBadHeader == Spec => []RefusedAtFirstBadHeader
<1>1. Init => RefusedAtFirstBadHeader
  <2> SUFFICES ASSUME Init PROVE RefusedAtFirstBadHeader
    OBVIOUS
  <2> DEFINE none == <<>>
  <2>1. files = <<none>> /\ phase \notin Refused /\ Len(none) = 0
    BY DEF Init, Refused
  <2> HIDE DEF none
  <2>2. File = none
    BY <2>1 DEF File, Last
  <2>3. ~ \E i : i \in 1..(Len(File) - 1)
    BY <2>1, <2>2
  <2> QED
    BY <2>1, <2>2, <2>3 DEF RefusedAtFirstBadHeader, Refused, none
<1>2. OInv /\ HeadersRead /\ RefusedAtFirstBadHeader /\ [Next]_vars => RefusedAtFirstBadHeader'
  BY RefusalIsKept
<1>3. OInv /\ HeadersRead /\ [Next]_vars => HeadersRead'
  BY HeadersStayRead
<1> QED
  BY <1>1, <1>2, <1>3, InitHeaders, OutlineInv, PTL DEF Spec
=============================================================================
