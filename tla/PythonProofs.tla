----------------------------- MODULE PythonProofs ----------------------------
(***************************************************************************)
(* The lifetimes of the Python objects, the names that come out of them    *)
(* and where those lead, for any number of objects, for every library and  *)
(* whatever a program passes in.                                           *)
(***************************************************************************)
EXTENDS Python, EngineProofs

LibraryObject == [kind : {"library"}, root : Built]
NavigatorObject == [kind : {"navigator"}, library : LibObj, stack : Seq(Node)]

\* Objects are in memory or they are not.
ObjectsOK ==
  /\ library \in [LibObj -> LibraryObject \cup {None}]
  /\ nav \in [NavObj -> NavigatorObject \cup {None}]
  /\ held \subseteq LibObj

Refers(n, l) == nav[n] # None /\ nav[n].library = l

\* A library is in memory exactly as long as somebody refers to it.
Counted ==
  \A l \in LibObj : InUse(l) <=> l \in held \/ \E n \in NavObj : Refers(n, l)

\* A stack is a walk down from the root of the library of its Navigator.
Stands(n) ==
  /\ Descent(nav[n].stack)
  /\ nav[n].stack[1] = library[nav[n].library].root

PInv == ObjectsOK /\ Counted /\ \A n \in NavObj : nav[n] # None => Stands(n)
-----------------------------------------------------------------------------
\* What a build leaves in a file is the root of a tree.
LEMMA RootsAreNodes == Built \subseteq Node
  BY PythonAssumption DEF Built

\* At first there are no objects.
LEMMA InitObjects == Init => PInv
  BY DEF Init, PInv, ObjectsOK, Counted, InUse, Refers, Stands

\* Library() puts an object where there was none; no Navigator refers there.
LEMMA NewKeepsObjects ==
  ASSUME PInv, NEW l \in LibObj, NEW root \in Built, LibraryNew(l, root) PROVE PInv'
<1> DEFINE new == [kind |-> "library", root |-> root]
<1>1. /\ library[l] = None /\ library' = [library EXCEPT ![l] = new]
      /\ held' = held \cup {l} /\ nav' = nav
  BY DEF LibraryNew, InUse
<1>2. new \in LibraryObject /\ new # None
  BY DEF LibraryObject, None
<1> HIDE DEF new
<1>3. /\ ObjectsOK' /\ library'[l] = new
      /\ \A m \in LibObj \ {l} : library'[m] = library[m]
  BY <1>1, <1>2 DEF PInv, ObjectsOK
<1>4. Counted'
  BY <1>1, <1>2, <1>3 DEF PInv, Counted, InUse, Refers
<1>5. ASSUME NEW n \in NavObj, nav[n] # None PROVE Stands(n)'
  <2>1. Stands(n) /\ nav[n].library \in LibObj
    BY <1>5 DEF PInv, ObjectsOK, NavigatorObject
  <2>2. nav[n].library # l
    BY <1>1, <1>5, <2>1 DEF PInv, Counted, InUse, Refers
  <2> QED
    BY <1>1, <1>3, <2>1, <2>2 DEF Stands
<1> QED
  BY <1>1, <1>3, <1>4, <1>5 DEF PInv

\* When references go, the objects without one go with them: those that are
\* left are unchanged, among them the library of each Navigator that is left.
LEMMA FreeingKeepsObjects ==
  ASSUME PInv, held' \subseteq held,
         nav' \in [NavObj -> NavigatorObject \cup {None}],
         \A n \in NavObj : nav'[n] # None => nav'[n] = nav[n],
         library' = Freed(held', nav')
  PROVE  PInv'
<1>1. ObjectsOK'
  BY DEF PInv, ObjectsOK, Freed
<1>2. \A l \in LibObj :
        IF l \in held' \/ \E n \in NavObj : Refers(n, l)' THEN library'[l] = library[l]
                                                         ELSE library'[l] = None
  BY DEF Freed, Refers
<1>3. ASSUME NEW n \in NavObj, NEW l, Refers(n, l)' PROVE Refers(n, l)
  BY <1>3 DEF Refers
<1>4. Counted'
  BY <1>2, <1>3 DEF PInv, Counted, InUse
<1>5. ASSUME NEW n \in NavObj, nav'[n] # None PROVE Stands(n)'
  <2>1. Stands(n) /\ nav'[n] = nav[n] /\ nav[n] # None /\ nav[n].library \in LibObj
    BY <1>5 DEF PInv, ObjectsOK, NavigatorObject
  <2>2. library'[nav[n].library] = library[nav[n].library]
    BY <1>2, <1>5, <2>1 DEF Refers
  <2> QED
    BY <2>1, <2>2 DEF Stands
<1> QED
  BY <1>1, <1>4, <1>5 DEF PInv

\* A Navigator is created for a library a variable refers to.
LEMMA NavigatorKeepsObjects ==
  ASSUME PInv, NEW l \in LibObj, NEW n \in NavObj, NavigatorNew(n, l) PROVE PInv'
<1> DEFINE new == [kind |-> "navigator", library |-> l, stack |-> <<library[l].root>>]
<1>1. /\ nav[n] = None /\ l \in held /\ nav' = [nav EXCEPT ![n] = new]
      /\ library' = library /\ held' = held
  BY DEF NavigatorNew
<1>2. InUse(l) /\ library[l].root \in Node
  BY <1>1, RootsAreNodes DEF PInv, Counted, InUse, ObjectsOK, LibraryObject
<1>3. /\ <<library[l].root>> \in Seq(Node) /\ Descent(<<library[l].root>>)
      /\ <<library[l].root>>[1] = library[l].root
  BY <1>2 DEF Descent
<1>4. /\ new \in NavigatorObject /\ new.library = l
      /\ Descent(new.stack) /\ new.stack[1] = library[l].root
  BY <1>3 DEF NavigatorObject
<1> HIDE DEF new
<1>5. /\ ObjectsOK' /\ nav'[n] = new
      /\ \A m \in NavObj \ {n} : nav'[m] = nav[m]
  BY <1>1, <1>4 DEF PInv, ObjectsOK
<1>6. Counted'
  <2>1. ASSUME NEW k \in LibObj, NEW m \in NavObj, Refers(m, k) PROVE Refers(m, k)'
    BY <1>1, <1>5, <2>1 DEF Refers
  <2>2. ASSUME NEW k \in LibObj, NEW m \in NavObj, Refers(m, k)' PROVE Refers(m, k) \/ k = l
    BY <1>4, <1>5, <2>2 DEF Refers
  <2> QED
    BY <1>1, <1>2, <2>1, <2>2 DEF PInv, Counted, InUse
<1>7. ASSUME NEW m \in NavObj, nav'[m] # None PROVE Stands(m)'
  <2>1. CASE m = n
    BY <1>1, <1>4, <1>5, <2>1 DEF Stands
  <2>2. CASE m # n
    BY <1>1, <1>5, <1>7, <2>2 DEF PInv, Stands
  <2> QED
    BY <2>1, <2>2
<1> QED
  BY <1>5, <1>6, <1>7 DEF PInv

\* The stack of one Navigator becomes another walk from the same root.
LEMMA MovingKeepsObjects ==
  ASSUME PInv, NEW n \in NavObj, nav[n] # None, UNCHANGED <<library, held>>,
         NEW s, Descent(s), s[1] = nav[n].stack[1],
         nav' = [nav EXCEPT ![n] = [nav[n] EXCEPT !.stack = s]]
  PROVE  PInv'
<1> DEFINE new == [nav[n] EXCEPT !.stack = s]
<1>1. nav[n] \in NavigatorObject /\ Stands(n)
  BY DEF PInv, ObjectsOK
<1>2. new \in NavigatorObject /\ new.library = nav[n].library /\ new.stack = s
  BY <1>1 DEF NavigatorObject, Descent
<1>3. new # None
  BY <1>2 DEF NavigatorObject, None
<1>4. nav' = [nav EXCEPT ![n] = new]
  OBVIOUS
<1> HIDE DEF new
<1>5. /\ ObjectsOK' /\ nav'[n] = new
      /\ \A m \in NavObj \ {n} : nav'[m] = nav[m]
  BY <1>2, <1>4 DEF PInv, ObjectsOK
<1>6. \A m \in NavObj, l \in LibObj : Refers(m, l)' <=> Refers(m, l)
  BY <1>2, <1>3, <1>5 DEF Refers
<1>7. Counted'
  BY <1>6 DEF PInv, Counted, InUse
<1>8. ASSUME NEW m \in NavObj, nav'[m] # None PROVE Stands(m)'
  <2>1. CASE m = n
    BY <1>1, <1>2, <1>5, <2>1 DEF Stands
  <2>2. CASE m # n
    BY <1>5, <1>8, <2>2 DEF PInv, Stands
  <2> QED
    BY <2>1, <2>2
<1> QED
  BY <1>5, <1>7, <1>8 DEF PInv

\* engine::Navigator::input() leaves a walk from the same root.
LEMMA AnswerIsDescent ==
  ASSUME NEW stack, Descent(stack), NEW line, NEW mode
  PROVE  LET s == Answer(stack, line, mode).stack
         IN  Descent(s) /\ s[1] = stack[1]
<1> DEFINE word == Trim(line)
           r == Lookup(Last(stack), word, mode)
           s == Answer(stack, line, mode).stack
<1>1. Last(stack) \in Node /\ Len(stack) \in Nat /\ Len(stack) >= 1
  BY DEF Descent, Last
<1>2. r.kind \in {"Found", "NotFound", "Ambiguous"}
  BY <1>1, LookupOffersChildren
<1>3. CASE word = <<>>
  <2>1. CASE Len(stack) = 1
    BY <1>3, <2>1 DEF Answer
  <2>2. CASE Len(stack) # 1
    <3>1. \A k \in Nat : k >= 1 /\ k # 1 => k > 1
      OBVIOUS
    <3>2. Len(stack) > 1 /\ ~ (Len(stack) = 1)
      BY <1>1, <2>2, <3>1
    <3>3. s = Front(stack)
      BY <1>3, <3>2 DEF Answer
    <3> QED
      BY <2>2, <3>3, DescentIsCut
  <2> QED
    BY <2>1, <2>2
<1>4. CASE word = <<"?">>
  BY <1>4 DEF Answer
<1>5. CASE word # <<>> /\ word # <<"?">>
  <2>1. CASE r.kind = "Found"
    <3>1. s = Append(stack, r.node)
      BY <1>5, <2>1 DEF Answer
    <3>2. r.node \in Kids(Last(stack))
      BY <1>1, <2>1, LookupFindsChild
    <3> QED
      BY <3>1, <3>2, DescentGoesOn
  <2>2. CASE r.kind = "NotFound" \/ r.kind = "Ambiguous"
    BY <1>5, <2>2 DEF Answer
  <2> QED
    BY <1>2, <2>1, <2>2
<1> QED
  BY <1>3, <1>4, <1>5

\* The three methods that change a stack
LEMMA MethodsKeepObjects ==
  ASSUME PInv, NEW n \in NavObj,
         \/ \E line \in Line, mode \in MatchMode : NavigatorInput(n, line, mode)
         \/ NavigatorGoUp(n) \/ NavigatorReset(n)
  PROVE  PInv'
<1> DEFINE stack == nav[n].stack
<1>1. nav[n] # None /\ Descent(stack) /\ UNCHANGED <<library, held>>
  BY DEF NavigatorInput, NavigatorGoUp, NavigatorReset, PInv, Stands
<1>2. ASSUME NEW line, NEW mode, NavigatorInput(n, line, mode) PROVE PInv'
  <2> DEFINE s == Answer(stack, line, mode).stack
  <2>1. Descent(s) /\ s[1] = stack[1]
    BY <1>1, AnswerIsDescent
  <2>2. nav' = [nav EXCEPT ![n] = [nav[n] EXCEPT !.stack = s]]
    BY <1>2 DEF NavigatorInput
  <2> HIDE DEF s
  <2> QED
    BY <1>1, <2>1, <2>2, MovingKeepsObjects
<1>3. CASE NavigatorGoUp(n)
  <2> DEFINE s == IF Len(stack) = 1 THEN stack ELSE Front(stack)
  <2>1. Descent(s) /\ s[1] = stack[1]
    BY <1>1, DescentIsCut
  <2>2. nav' = [nav EXCEPT ![n] = [nav[n] EXCEPT !.stack = s]]
    BY <1>3 DEF NavigatorGoUp
  <2> HIDE DEF s
  <2> QED
    BY <1>1, <2>1, <2>2, MovingKeepsObjects
<1>4. CASE NavigatorReset(n)
  <2> DEFINE s == SubSeq(stack, 1, 1)
  <2>1. Descent(s) /\ s[1] = stack[1]
    BY <1>1, DescentIsCut
  <2>2. nav' = [nav EXCEPT ![n] = [nav[n] EXCEPT !.stack = s]]
    BY <1>4 DEF NavigatorReset
  <2> HIDE DEF s
  <2> QED
    BY <1>1, <2>1, <2>2, MovingKeepsObjects
<1> QED
  BY <1>2, <1>3, <1>4

\* Every step keeps the objects in order.
LEMMA StepKeepsObjects ==
  ASSUME PInv, [Next]_vars PROVE PInv'
<1>1. CASE UNCHANGED <<library, held, nav>>
  BY <1>1 DEF PInv, ObjectsOK, Counted, InUse, Refers, Stands
<1>2. CASE LibraryNewRaises \/ UNCHANGED vars
  BY <1>1, <1>2 DEF LibraryNewRaises, vars
<1>3. ASSUME NEW l \in LibObj, NEW root \in Built, LibraryNew(l, root) PROVE PInv'
  BY <1>3, NewKeepsObjects
<1>4. ASSUME NEW l \in LibObj, LibraryDel(l) PROVE PInv'
  BY <1>4, FreeingKeepsObjects DEF LibraryDel, PInv, ObjectsOK
<1>5. ASSUME NEW l \in LibObj,
             \/ RootTopicsOf(l)
             \/ \E path \in Path, mode \in MatchMode :
                  LibraryLookup(l, path, mode) \/ LibraryChildren(l, path, mode)
      PROVE  PInv'
  BY <1>1, <1>5 DEF RootTopicsOf, LibraryLookup, LibraryChildren
<1>6. ASSUME NEW l \in LibObj, NEW n \in NavObj, NavigatorNew(n, l) PROVE PInv'
  BY <1>6, NavigatorKeepsObjects
<1>7. ASSUME NEW n \in NavObj, NavigatorDel(n) PROVE PInv'
  <2>1. /\ nav' = [nav EXCEPT ![n] = None] /\ library' = Freed(held, nav')
        /\ held' = held
    BY <1>7 DEF NavigatorDel
  <2>2. /\ nav' \in [NavObj -> NavigatorObject \cup {None}]
        /\ \A m \in NavObj : nav'[m] # None => nav'[m] = nav[m]
    BY <2>1 DEF PInv, ObjectsOK
  <2> QED
    BY <2>1, <2>2, FreeingKeepsObjects
<1>8. ASSUME NEW n \in NavObj,
             \/ NavigatorGoUp(n) \/ NavigatorReset(n)
             \/ \E line \in Line, mode \in MatchMode : NavigatorInput(n, line, mode)
      PROVE  PInv'
  BY <1>8, MethodsKeepObjects
<1> QED
  BY <1>2, <1>3, <1>4, <1>5, <1>6, <1>7, <1>8 DEF Next

\* However objects are created and dropped, a Navigator has the library it was
\* created for, and a library nobody refers to is gone: each Navigator holds a
\* reference of its own (PyNavigator::_library).
THEOREM NavigatorsKeep == Spec => []NavigatorsKeepTheirLibrary
<1>1. PInv /\ [Next]_vars => PInv'
  BY StepKeepsObjects
<1>2. PInv => NavigatorsKeepTheirLibrary
  <2> SUFFICES ASSUME PInv PROVE NavigatorsKeepTheirLibrary
    OBVIOUS
  <2>1. ASSUME NEW n \in NavObj, nav[n] # None
        PROVE  Stands(n) /\ InUse(nav[n].library)
    <3>1. nav[n].library \in LibObj
      BY <2>1 DEF PInv, ObjectsOK, NavigatorObject
    <3> QED
      BY <2>1, <3>1 DEF PInv, Counted, Refers
  <2> QED
    BY <2>1 DEF PInv, Counted, Refers, Stands, Descent, NavigatorsKeepTheirLibrary
<1> QED
  BY <1>1, <1>2, InitObjects, PTL DEF Spec
-----------------------------------------------------------------------------
(***************************************************************************)
(* Names in their fields                                                   *)
(***************************************************************************)
Byte(S) == S \X (1..4)
BytesOf(c) == [k \in 1..Width[c] |-> <<c, k>>]

\* A character has as many bytes as it is wide.
LEMMA CharacterBytes ==
  ASSUME NEW S \in SUBSET Char, NEW c \in S
  PROVE  /\ Width[c] \in 1..4
         /\ BytesOf(c) \in Seq(Byte(S)) /\ Len(BytesOf(c)) = Width[c]
         /\ \A k \in 1..Width[c] : BytesOf(c)[k] = <<c, k>>
<1>1. Width[c] \in 1..4
  BY NamesAssumption
<1>2. \A k \in 1..Width[c] : <<c, k>> \in Byte(S)
  BY <1>1 DEF Byte
<1> QED
  BY <1>1, <1>2 DEF BytesOf

\* A string with one character more has the bytes of that one more.
LEMMA BytesGrow ==
  ASSUME NEW S \in SUBSET Char, NEW s \in Seq(S)
  PROVE  /\ Bytes(s) \in Seq(Byte(S)) /\ Bytes(<<>>) = <<>>
         /\ \A c \in S : Bytes(Append(s, c)) = Bytes(s) \o BytesOf(c)
<1> DEFINE parts(t) == [i \in DOMAIN t |-> BytesOf(t[i])]
<1>1. \A t \in Seq(S) : /\ Len(t) \in Nat /\ DOMAIN t = 1..Len(t)
                        /\ \A i \in 1..Len(t) : t[i] \in S /\ BytesOf(t[i]) \in Seq(Byte(S))
  BY CharacterBytes
<1>2. \A t \in Seq(S) : parts(t) \in Seq(Seq(Byte(S))) /\ Len(parts(t)) = Len(t)
  <2> TAKE t \in Seq(S)
  <2> QED
    BY <1>1
<1>3. \A t : Bytes(t) = FlattenSeq(parts(t))
  BY DEF Bytes, BytesOf
<1>4. \A t \in Seq(S) : Bytes(t) \in Seq(Byte(S))
  <2> HIDE DEF parts
  <2> QED
    BY <1>2, <1>3, FlattenSeqIsSeq
<1>5. Bytes(<<>>) = <<>>
  <2>1. parts(<<>>) = <<>>
    OBVIOUS
  <2> QED
    BY <1>3, <2>1 DEF FlattenSeq
<1>6. ASSUME NEW c \in S PROVE Bytes(Append(s, c)) = Bytes(s) \o BytesOf(c)
  <2>1. /\ Append(s, c) \in Seq(S) /\ Len(Append(s, c)) = Len(s) + 1
        /\ Append(s, c)[Len(s) + 1] = c /\ \A i \in 1..Len(s) : Append(s, c)[i] = s[i]
    BY AppendProperties
  <2>2. BytesOf(c) \in Seq(Byte(S))
    BY CharacterBytes
  <2>3. /\ Append(parts(s), BytesOf(c)) \in Seq(Seq(Byte(S)))
        /\ Len(Append(parts(s), BytesOf(c))) = Len(s) + 1
        /\ Append(parts(s), BytesOf(c))[Len(s) + 1] = BytesOf(c)
        /\ \A i \in 1..Len(s) : Append(parts(s), BytesOf(c))[i] = parts(s)[i]
    <3> HIDE DEF parts
    <3> QED
      BY <1>2, <2>2, AppendProperties
  <2>4. \A i \in 1..Len(s) : parts(s)[i] = BytesOf(s[i])
    BY <1>1
  <2>5. \A i \in 1..(Len(s) + 1) : parts(Append(s, c))[i] = BytesOf(Append(s, c)[i])
    BY <1>1, <2>1
  <2>6. /\ parts(Append(s, c)) \in Seq(Seq(Byte(S)))
        /\ Len(parts(Append(s, c))) = Len(s) + 1
    <3> HIDE DEF parts
    <3> QED
      BY <1>2, <2>1
  <2> HIDE DEF parts
  <2>7. \A i \in 1..(Len(s) + 1) :
          parts(Append(s, c))[i] = Append(parts(s), BytesOf(c))[i]
    <3> TAKE i \in 1..(Len(s) + 1)
    <3>1. i = Len(s) + 1 \/ i \in 1..Len(s)
      BY <1>1
    <3> QED
      BY <2>1, <2>3, <2>4, <2>5, <3>1
  <2>8. parts(Append(s, c)) = Append(parts(s), BytesOf(c))
    BY <2>3, <2>6, <2>7, SeqEqual
  <2>9. FlattenSeq(Append(parts(s), BytesOf(c))) = FlattenSeq(parts(s)) \o BytesOf(c)
    <3>1. FlattenSeq(parts(s)) \in Seq(Byte(S)) /\ parts(s) \in Seq(Seq(Byte(S)))
      BY <1>2, FlattenSeqIsSeq
    <3> QED
      BY <2>2, <3>1, FlattenSeqStep
  <2> QED
    BY <1>3, <2>8, <2>9
<1> QED
  BY <1>4, <1>5, <1>6

\* The bytes of the beginning of a string begin its bytes, and the first byte
\* of the next character comes next.
LEMMA BytesBegin ==
  ASSUME NEW s \in Seq(Char), NEW m \in 0..Len(s)
  PROVE  LET b == Bytes(s)
             a == Bytes(SubSeq(s, 1, m))
         IN  /\ Len(a) \in Nat /\ Len(b) \in Nat
             /\ Len(a) <= Len(b) /\ \A i \in 1..Len(a) : b[i] = a[i]
             /\ m < Len(s) => Len(a) < Len(b) /\ b[Len(a) + 1] = <<s[m + 1], 1>>
<1> DEFINE Begins(t, k) ==
             LET b == Bytes(t)
                 a == Bytes(SubSeq(t, 1, k))
             IN  /\ Len(a) <= Len(b) /\ \A i \in 1..Len(a) : b[i] = a[i]
                 /\ k < Len(t) => Len(a) < Len(b) /\ b[Len(a) + 1] = <<t[k + 1], 1>>
           T == {t \in Seq(Char) : \A k \in 0..Len(t) : Begins(t, k)}
<1>0. \A t \in Seq(Char) : Bytes(t) \in Seq(Byte(Char)) /\ Len(Bytes(t)) \in Nat
  BY BytesGrow
<1>1. ASSUME NEW t \in Seq(Char) PROVE Begins(t, Len(t))
  <2>1. SubSeq(t, 1, Len(t)) = t
    BY SubSeqFull
  <2>2. ~ (Len(t) < Len(t)) /\ Len(Bytes(t)) <= Len(Bytes(t))
    BY <1>0
  <2> QED
    BY <2>1, <2>2
<1>2. <<>> \in T
  <2>1. <<>> \in Seq(Char) /\ \A k \in 0..Len(<<>>) : k = Len(<<>>)
    OBVIOUS
  <2> HIDE DEF Begins
  <2> QED
    BY <1>1, <2>1
<1>3. ASSUME NEW t \in Seq(Char), NEW c \in Char, t \in T
      PROVE  Append(t, c) \in T
  <2> DEFINE tc == Append(t, c)
             b == Bytes(t)
             bc == Bytes(tc)
  <2>1. /\ tc \in Seq(Char) /\ Len(tc) = Len(t) + 1 /\ tc[Len(t) + 1] = c
        /\ Len(t) \in Nat /\ \A i \in 1..Len(t) : tc[i] = t[i]
    BY AppendProperties
  <2>2. bc = b \o BytesOf(c) /\ b \in Seq(Byte(Char)) /\ Len(b) \in Nat
    <3>1. Char \in SUBSET Char
      OBVIOUS
    <3>2. bc = b \o BytesOf(c) /\ b \in Seq(Byte(Char))
      BY <3>1, BytesGrow
    <3> HIDE DEF b
    <3> QED
      BY <3>2
  <2>3. /\ BytesOf(c) \in Seq(Byte(Char)) /\ Len(BytesOf(c)) \in 1..4
        /\ BytesOf(c)[1] = <<c, 1>>
    <3>1. Char \in SUBSET Char
      OBVIOUS
    <3>2. /\ Width[c] \in 1..4 /\ BytesOf(c) \in Seq(Byte(Char)) /\ Len(BytesOf(c)) = Width[c]
          /\ \A k \in 1..Width[c] : BytesOf(c)[k] = <<c, k>>
      BY <3>1, CharacterBytes
    <3>3. 1 \in 1..Width[c]
      BY <3>2
    <3> QED
      BY <3>2, <3>3
  <2>4. /\ Len(bc) = Len(b) + Len(BytesOf(c))
        /\ \A i \in 1..Len(b) : bc[i] = b[i]
        /\ bc[Len(b) + 1] = <<c, 1>>
    <3>1. /\ Len(b \o BytesOf(c)) = Len(b) + Len(BytesOf(c))
          /\ \A i \in 1..(Len(b) + Len(BytesOf(c))) :
               (b \o BytesOf(c))[i] = IF i <= Len(b) THEN b[i] ELSE BytesOf(c)[i - Len(b)]
      BY <2>2, <2>3, ConcatProperties
    <3> HIDE DEF b, bc
    <3>2. /\ Len(b) + 1 \in 1..(Len(b) + Len(BytesOf(c))) /\ ~ (Len(b) + 1 <= Len(b))
          /\ (Len(b) + 1) - Len(b) = 1
      BY <2>2, <2>3
    <3>3. bc[Len(b) + 1] = <<c, 1>>
      BY <2>2, <2>3, <3>1, <3>2
    <3>4. \A i \in 1..Len(b) : i \in 1..(Len(b) + Len(BytesOf(c))) /\ i <= Len(b)
      BY <2>2, <2>3
    <3> QED
      BY <2>2, <3>1, <3>3, <3>4
  <2>5. ASSUME NEW k \in 0..Len(t) PROVE Begins(tc, k)
    <3> DEFINE a == Bytes(SubSeq(t, 1, k))
    <3>1. SubSeq(tc, 1, k) = SubSeq(t, 1, k) /\ SubSeq(t, 1, k) \in Seq(Char)
      <4>1. /\ SubSeq(t, 1, k) \in Seq(Char) /\ Len(SubSeq(t, 1, k)) = k
            /\ \A i \in 1..k : SubSeq(t, 1, k)[i] = t[i]
        BY PrefixProperties
      <4>2. k \in 0..Len(tc)
        BY <2>1
      <4>3. /\ SubSeq(tc, 1, k) \in Seq(Char) /\ Len(SubSeq(tc, 1, k)) = k
            /\ \A i \in 1..k : SubSeq(tc, 1, k)[i] = tc[i]
        BY <2>1, <4>2, PrefixProperties
      <4>4. \A i \in 1..k : tc[i] = t[i]
        BY <2>1
      <4> HIDE DEF tc
      <4> QED
        BY <4>1, <4>3, <4>4, SeqEqual
    <3>2. Len(a) \in Nat
      BY <1>0, <3>1
    <3>3. /\ Len(a) <= Len(b) /\ \A i \in 1..Len(a) : b[i] = a[i]
          /\ k < Len(t) => Len(a) < Len(b) /\ b[Len(a) + 1] = <<t[k + 1], 1>>
      BY <1>3
    <3>4. k = Len(t) => Len(a) = Len(b)
      BY SubSeqFull
    <3> HIDE DEF a, b, bc, tc
    <3>5. Len(a) <= Len(bc) /\ Len(a) < Len(bc)
      BY <2>2, <2>3, <2>4, <3>2, <3>3
    <3>6. \A i \in 1..Len(a) : bc[i] = a[i]
      <4>1. \A i \in 1..Len(a) : i \in 1..Len(b)
        BY <2>2, <3>2, <3>3
      <4> QED
        BY <2>4, <3>3, <4>1
    <3>7. bc[Len(a) + 1] = <<tc[k + 1], 1>>
      <4>1. CASE k = Len(t)
        BY <2>1, <2>4, <3>4, <4>1
      <4>2. CASE k # Len(t)
        <5>1. k < Len(t) /\ k + 1 \in 1..Len(t)
          BY <2>1, <4>2
        <5>2. Len(a) + 1 \in 1..Len(b)
          BY <2>2, <3>2, <3>3, <5>1
        <5> QED
          BY <2>1, <2>4, <3>3, <5>1, <5>2
      <4> QED
        BY <4>1, <4>2
    <3> QED
      BY <3>1, <3>5, <3>6, <3>7 DEF a, bc
  <2>6. Begins(tc, Len(t) + 1)
    <3> HIDE DEF Begins
    <3> QED
      BY <1>1, <2>1
  <2>7. \A k \in 0..Len(tc) : k \in 0..Len(t) \/ k = Len(t) + 1
    BY <2>1
  <2> HIDE DEF Begins, tc
  <2> QED
    BY <2>1, <2>5, <2>6, <2>7 DEF tc
<1> HIDE DEF T, Begins
<1>4. Seq(Char) \subseteq T
  BY <1>2, <1>3, InductionOnSeq
<1>5. Begins(s, m)
  BY <1>4 DEF T
<1>6. SubSeq(s, 1, m) \in Seq(Char)
  BY PrefixProperties
<1> QED
  BY <1>0, <1>5, <1>6 DEF Begins

\* Bytes of a string end where a character ends.
LEMMA BytesEnd ==
  ASSUME NEW s \in Seq(Char)
  PROVE  Bytes(s) # <<>> => Last(Bytes(s))[2] = Width[Last(Bytes(s))[1]]
<1>1. CASE s = <<>>
  BY <1>1, BytesGrow
<1>2. CASE s # <<>>
  <2> DEFINE t == Front(s)
             c == Last(s)
             b == Bytes(t) \o BytesOf(c)
  <2>1. t \in Seq(Char) /\ c \in Char /\ s = Append(t, c)
    BY <1>2, LastSplits
  <2>2. Char \in SUBSET Char
    OBVIOUS
  <2> HIDE DEF t, c
  <2>3. Bytes(s) = b /\ Bytes(t) \in Seq(Byte(Char))
    BY <2>1, <2>2, BytesGrow
  <2>4. /\ Width[c] \in 1..4 /\ BytesOf(c) \in Seq(Byte(Char)) /\ Len(BytesOf(c)) = Width[c]
        /\ BytesOf(c)[Width[c]] = <<c, Width[c]>>
    <3>1. /\ Width[c] \in 1..4 /\ BytesOf(c) \in Seq(Byte(Char)) /\ Len(BytesOf(c)) = Width[c]
          /\ \A k \in 1..Width[c] : BytesOf(c)[k] = <<c, k>>
      BY <2>1, <2>2, CharacterBytes
    <3>2. Width[c] \in 1..Width[c]
      BY <3>1
    <3> QED
      BY <3>1, <3>2
  <2>5. /\ Len(b) = Len(Bytes(t)) + Width[c]
        /\ b[Len(Bytes(t)) + Width[c]] = BytesOf(c)[Width[c]]
    <3>1. /\ Len(b) = Len(Bytes(t)) + Len(BytesOf(c))
          /\ \A i \in 1..(Len(Bytes(t)) + Len(BytesOf(c))) :
               b[i] = IF i <= Len(Bytes(t)) THEN Bytes(t)[i] ELSE BytesOf(c)[i - Len(Bytes(t))]
      BY <2>3, <2>4, ConcatProperties
    <3>2. Len(Bytes(t)) \in Nat
      BY <2>3
    <3> HIDE DEF b
    <3>3. /\ Len(Bytes(t)) + Width[c] \in 1..(Len(Bytes(t)) + Width[c])
          /\ ~ (Len(Bytes(t)) + Width[c] <= Len(Bytes(t)))
          /\ (Len(Bytes(t)) + Width[c]) - Len(Bytes(t)) = Width[c]
      BY <2>4, <3>2
    <3> QED
      BY <2>4, <3>1, <3>3
  <2>6. Last(b) = <<c, Width[c]>>
    <3> HIDE DEF b
    <3> QED
      BY <2>4, <2>5 DEF Last
  <2> HIDE DEF b
  <2> QED
    BY <2>3, <2>6
<1> QED
  BY <1>1, <1>2

\* from_utf8() passes over a byte that is not a first, and takes one that is.
LEMMA CharsGrow ==
  ASSUME NEW b \in Seq(Byte(Char)), NEW x \in Byte(Char)
  PROVE  /\ Chars(b) \in Seq(Char)
         /\ Chars(Append(b, x)) = IF x[2] = 1 THEN Append(Chars(b), x[1]) ELSE Chars(b)
<1> DEFINE one(y) == IF y[2] = 1 THEN <<y[1]>> ELSE <<>>
           parts(d) == [i \in DOMAIN d |-> one(d[i])]
<1>1. \A y \in Byte(Char) : one(y) \in Seq(Char)
  BY DEF Byte
<1>2. /\ Append(b, x) \in Seq(Byte(Char)) /\ Len(Append(b, x)) = Len(b) + 1
      /\ Append(b, x)[Len(b) + 1] = x /\ \A i \in 1..Len(b) : Append(b, x)[i] = b[i]
  BY AppendProperties
<1>3. \A d : Chars(d) = FlattenSeq(parts(d))
  BY DEF Chars
<1> HIDE DEF one
<1>4. \A d \in Seq(Byte(Char)) : /\ parts(d) \in Seq(Seq(Char)) /\ Len(parts(d)) = Len(d)
                                 /\ \A i \in 1..Len(d) : parts(d)[i] = one(d[i])
  <2> TAKE d \in Seq(Byte(Char))
  <2>1. DOMAIN d = 1..Len(d) /\ Len(d) \in Nat /\ \A i \in 1..Len(d) : one(d[i]) \in Seq(Char)
    BY <1>1
  <2> QED
    BY <2>1
<1>5. parts(Append(b, x)) = Append(parts(b), one(x))
  <2> HIDE DEF parts
  <2>1. /\ Append(parts(b), one(x)) \in Seq(Seq(Char))
        /\ Len(Append(parts(b), one(x))) = Len(b) + 1
        /\ Append(parts(b), one(x))[Len(b) + 1] = one(x)
        /\ \A i \in 1..Len(b) : Append(parts(b), one(x))[i] = parts(b)[i]
    BY <1>1, <1>4, AppendProperties
  <2>2. \A i \in 1..(Len(b) + 1) : i = Len(b) + 1 \/ i \in 1..Len(b)
    OBVIOUS
  <2>3. \A i \in 1..(Len(b) + 1) : parts(Append(b, x))[i] = Append(parts(b), one(x))[i]
    <3> TAKE i \in 1..(Len(b) + 1)
    <3>1. parts(Append(b, x))[i] = one(Append(b, x)[i])
      BY <1>2, <1>4
    <3>2. CASE i = Len(b) + 1
      BY <1>2, <2>1, <3>1, <3>2
    <3>3. CASE i \in 1..Len(b)
      BY <1>2, <1>4, <2>1, <3>1, <3>3
    <3> QED
      BY <2>2, <3>2, <3>3
  <2>4. parts(Append(b, x)) \in Seq(Seq(Char)) /\ Len(parts(Append(b, x))) = Len(b) + 1
    BY <1>2, <1>4
  <2> QED
    BY <2>1, <2>3, <2>4, SeqEqual
<1> HIDE DEF parts
<1>6. FlattenSeq(parts(b)) \in Seq(Char)
  BY <1>4, FlattenSeqIsSeq
<1>7. Chars(Append(b, x)) = Chars(b) \o one(x)
  <2>1. FlattenSeq(Append(parts(b), one(x))) = FlattenSeq(parts(b)) \o one(x)
    BY <1>1, <1>4, <1>6, FlattenSeqStep
  <2> QED
    BY <1>3, <1>5, <2>1
<1>8. Chars(b) \in Seq(Char) /\ x[1] \in Char
  BY <1>3, <1>6 DEF Byte
<1>9. Chars(b) \o <<x[1]>> = Append(Chars(b), x[1]) /\ Chars(b) \o <<>> = Chars(b)
  BY <1>8
<1> QED
  BY <1>7, <1>8, <1>9 DEF one

\* Appending an element after concatenating or before is the same.
LEMMA AppendAfterConcat ==
  ASSUME NEW S, NEW s \in Seq(S), NEW t \in Seq(S), NEW x \in S
  PROVE  s \o Append(t, x) = Append(s \o t, x)
  <1>1. <<x>> \in Seq(S) /\ s \o t \in Seq(S)
    OBVIOUS
  <1>2. Append(t, x) = t \o <<x>> /\ Append(s \o t, x) = (s \o t) \o <<x>>
    BY <1>1, AppendIsConcat
  <1>3. (s \o t) \o <<x>> = s \o (t \o <<x>>)
    BY <1>1, ConcatAssociative
  <1> QED
    BY <1>2, <1>3

\* What as_bytes() takes apart, from_utf8() puts together.
LEMMA CharsOfBytes ==
  ASSUME NEW s \in Seq(Char)
  PROVE  Chars(Bytes(s)) = s
<1> DEFINE T == {t \in Seq(Char) : Chars(Bytes(t)) = t}
<1>1. <<>> \in T
  <2>1. [i \in DOMAIN <<>> |-> IF <<>>[i][2] = 1 THEN <<<<>>[i][1]>> ELSE <<>>] = <<>>
    OBVIOUS
  <2>2. Chars(<<>>) = <<>>
    BY <2>1 DEF Chars, FlattenSeq
  <2>3. <<>> \in Seq(Char) /\ Bytes(<<>>) = <<>>
    BY BytesGrow
  <2> QED
    BY <2>2, <2>3
<1>2. ASSUME NEW t \in Seq(Char), NEW c \in Char, t \in T PROVE Append(t, c) \in T
  <2> DEFINE b == Bytes(t)
             upTo(k) == b \o [j \in 1..k |-> <<c, j>>]
             K == {k \in Nat : k + 1 <= Width[c] => Chars(upTo(k + 1)) = Append(t, c)}
  <2>1. Char \in SUBSET Char
    OBVIOUS
  <2>2. b \in Seq(Byte(Char)) /\ Bytes(Append(t, c)) = b \o BytesOf(c)
    BY <2>1, BytesGrow
  <2>3. Width[c] \in 1..4
    BY NamesAssumption
  <2>4. Chars(b) = t
    BY <1>2
  <2> HIDE DEF b
  <2>5. \A k \in 0..Width[c] :
          /\ [j \in 1..k |-> <<c, j>>] \in Seq(Byte(Char))
          /\ upTo(k) \in Seq(Byte(Char))
    <3> TAKE k \in 0..Width[c]
    <3>1. \A j \in 1..k : <<c, j>> \in Byte(Char)
      BY <2>3 DEF Byte
    <3>2. [j \in 1..k |-> <<c, j>>] \in Seq(Byte(Char))
      BY <2>3, <3>1
    <3> QED
      BY <2>2, <3>2
  <2>6. ASSUME NEW k \in Nat, k + 1 <= Width[c]
        PROVE  upTo(k + 1) = Append(upTo(k), <<c, k + 1>>) /\ <<c, k + 1>> \in Byte(Char)
    <3> DEFINE r(i) == [j \in 1..i |-> <<c, j>>]
    <3>1. k \in 0..Width[c] /\ k + 1 \in 0..Width[c] /\ k + 1 \in 1..4
      BY <2>3, <2>6
    <3>2. r(k) \in Seq(Byte(Char)) /\ r(k + 1) \in Seq(Byte(Char))
      BY <2>5, <3>1
    <3>3. <<c, k + 1>> \in Byte(Char)
      BY <3>1 DEF Byte
    <3>4. /\ Len(r(k)) = k /\ Len(r(k + 1)) = k + 1
          /\ \A j \in 1..(k + 1) : r(k + 1)[j] = <<c, j>>
          /\ \A j \in 1..k : r(k)[j] = <<c, j>>
      BY <3>1
    <3> HIDE DEF r
    <3>5. /\ Append(r(k), <<c, k + 1>>) \in Seq(Byte(Char))
          /\ Len(Append(r(k), <<c, k + 1>>)) = k + 1
          /\ Append(r(k), <<c, k + 1>>)[k + 1] = <<c, k + 1>>
          /\ \A j \in 1..k : Append(r(k), <<c, k + 1>>)[j] = r(k)[j]
      BY <3>2, <3>3, <3>4, AppendProperties
    <3>6. \A j \in 1..(k + 1) : j = k + 1 \/ j \in 1..k
      OBVIOUS
    <3>7. \A j \in 1..(k + 1) : r(k + 1)[j] = Append(r(k), <<c, k + 1>>)[j]
      BY <3>4, <3>5, <3>6
    <3>8. r(k + 1) = Append(r(k), <<c, k + 1>>)
      BY <3>2, <3>4, <3>5, <3>7, SeqEqual
    <3>9. b \o Append(r(k), <<c, k + 1>>) = Append(b \o r(k), <<c, k + 1>>)
      <4>1. b \in Seq(Byte(Char))
        BY <2>2
      <4> QED
        BY <3>2, <3>3, <4>1, AppendAfterConcat
    <3> QED
      BY <3>3, <3>8, <3>9 DEF r
  <2>7. 0 \in K
    <3>1. upTo(0) = b
      <4>1. [j \in 1..0 |-> <<c, j>>] = <<>>
        OBVIOUS
      <4> QED
        BY <2>2, <4>1
    <3>2. 0 + 1 = 1 /\ 1 <= Width[c] /\ 0 \in Nat
      BY <2>3
    <3>3. upTo(1) = Append(b, <<c, 1>>) /\ <<c, 1>> \in Byte(Char)
      BY <2>6, <3>1, <3>2
    <3>4. <<c, 1>>[2] = 1 /\ <<c, 1>>[1] = c
      OBVIOUS
    <3> HIDE DEF upTo
    <3>5. Chars(upTo(1)) = Append(t, c)
      BY <2>2, <2>4, <3>3, <3>4, CharsGrow
    <3> QED
      BY <3>2, <3>5
  <2>8. ASSUME NEW k \in Nat, k \in K PROVE k + 1 \in K
    <3> SUFFICES ASSUME (k + 1) + 1 <= Width[c] PROVE Chars(upTo((k + 1) + 1)) = Append(t, c)
      OBVIOUS
    <3>1. k + 1 \in 0..Width[c] /\ k + 1 <= Width[c] /\ k + 1 \in Nat
      BY <2>3
    <3>2. /\ upTo((k + 1) + 1) = Append(upTo(k + 1), <<c, (k + 1) + 1>>)
          /\ <<c, (k + 1) + 1>> \in Byte(Char)
      BY <2>6, <3>1
    <3>3. <<c, (k + 1) + 1>>[2] # 1
      OBVIOUS
    <3>4. upTo(k + 1) \in Seq(Byte(Char)) /\ Chars(upTo(k + 1)) = Append(t, c)
      BY <2>5, <2>8, <3>1
    <3> HIDE DEF upTo
    <3> QED
      BY <3>2, <3>3, <3>4, CharsGrow
  <2> HIDE DEF K
  <2>9. Nat \subseteq K
    BY <2>7, <2>8, InductionOnNat
  <2>10. Width[c] - 1 \in Nat /\ (Width[c] - 1) + 1 = Width[c]
    BY <2>3
  <2>11. Chars(upTo(Width[c])) = Append(t, c)
    <3>1. Width[c] - 1 \in K /\ Width[c] <= Width[c]
      BY <2>3, <2>9, <2>10
    <3> QED
      BY <2>10, <3>1 DEF K
  <2>12. upTo(Width[c]) = Bytes(Append(t, c))
    BY <2>2 DEF BytesOf
  <2>13. Append(t, c) \in Seq(Char)
    OBVIOUS
  <2> QED
    BY <2>11, <2>12, <2>13
<1> HIDE DEF T
<1>3. Seq(Char) \subseteq T
  BY <1>1, <1>2, InductionOnSeq
<1> QED
  BY <1>3 DEF T

\* A name is as far as a NUL what stands there.
LEMMA UpToNulIs ==
  ASSUME NEW s \in Seq(Char)
  PROVE  \E m \in 0..Len(s) : /\ UpToNul(s) = SubSeq(s, 1, m)
                              /\ \A i \in 1..m : s[i] # Nul
                              /\ m < Len(s) => s[m + 1] = Nul
<1> DEFINE Z == {i \in DOMAIN s : s[i] = Nul} \cup {Len(s) + 1}
           m == Min(Z) - 1
<1>1. DOMAIN s = 1..Len(s) /\ Len(s) \in Nat
  OBVIOUS
<1>2. Z \in SUBSET Nat /\ Z # {} /\ Z \subseteq 1..(Len(s) + 1)
  BY <1>1
<1>3. Min(Z) \in Z /\ \A y \in Z : Min(Z) <= y
  <2> HIDE DEF Z
  <2> QED
    BY <1>2, MinIsMember
<1>4. m \in 0..Len(s) /\ m + 1 = Min(Z)
  <2>1. Min(Z) \in 1..(Len(s) + 1)
    BY <1>2, <1>3
  <2> HIDE DEF Z
  <2> QED
    BY <1>1, <2>1
<1>5. \A i \in 1..m : s[i] # Nul
  <2> SUFFICES ASSUME NEW i \in 1..m, s[i] = Nul PROVE FALSE
    OBVIOUS
  <2>1. i \in DOMAIN s
    BY <1>1, <1>4
  <2>2. i \in Z
    BY <2>1
  <2>3. m + 1 <= i
    BY <1>3, <1>4, <2>2
  <2> HIDE DEF m
  <2> QED
    BY <1>4, <2>3
<1>6. m < Len(s) => s[m + 1] = Nul
  <2>1. m + 1 \in Z
    BY <1>3, <1>4
  <2>2. m < Len(s) => m + 1 # Len(s) + 1
    BY <1>1, <1>4
  <2> HIDE DEF m
  <2> QED
    BY <2>1, <2>2
<1>7. UpToNul(s) = SubSeq(s, 1, m)
  BY DEF UpToNul
<1> HIDE DEF m
<1> QED
  BY <1>4, <1>5, <1>6, <1>7

\* Flattening puts what comes first first.
LEMMA FlattenBegins ==
  ASSUME NEW S, NEW ss \in Seq(Seq(S)), NEW m \in 0..Len(ss)
  PROVE  \E rest \in Seq(S) :
           /\ FlattenSeq(ss) = FlattenSeq(SubSeq(ss, 1, m)) \o rest
           /\ m = Len(ss) => rest = <<>>
           /\ m < Len(ss) => \E more \in Seq(S) : rest = ss[m + 1] \o more
<1>0. \A a, b, c \in Seq(S) : (a \o b) \o c = a \o (b \o c) /\ a \o b \in Seq(S)
  BY ConcatRegroups
<1> DEFINE Rest(tt, k, rest) ==
             /\ rest \in Seq(S)
             /\ FlattenSeq(tt) = FlattenSeq(SubSeq(tt, 1, k)) \o rest
             /\ k = Len(tt) => rest = <<>>
             /\ k < Len(tt) => \E more \in Seq(S) : rest = tt[k + 1] \o more
           T == {tt \in Seq(Seq(S)) : \A k \in 0..Len(tt) : \E rest : Rest(tt, k, rest)}
<1>1. \A tt \in Seq(Seq(S)) : Rest(tt, Len(tt), <<>>)
  <2> TAKE tt \in Seq(Seq(S))
  <2>1. SubSeq(tt, 1, Len(tt)) = tt /\ FlattenSeq(tt) \in Seq(S)
    BY SubSeqFull, FlattenSeqIsSeq
  <2>2. FlattenSeq(tt) = FlattenSeq(tt) \o <<>> /\ <<>> \in Seq(S)
    BY <2>1, ConcatEmptySeq
  <2>3. ~ (Len(tt) < Len(tt))
    OBVIOUS
  <2> QED
    BY <2>1, <2>2, <2>3
<1>2. <<>> \in T
  <2>1. <<>> \in Seq(Seq(S)) /\ \A k \in 0..Len(<<>>) : k = Len(<<>>)
    OBVIOUS
  <2> HIDE DEF Rest
  <2> QED
    BY <1>1, <2>1
<1>3. ASSUME NEW tt \in Seq(Seq(S)), NEW t \in Seq(S), tt \in T PROVE Append(tt, t) \in T
  <2> DEFINE uu == Append(tt, t)
  <2>1. /\ uu \in Seq(Seq(S)) /\ Len(uu) = Len(tt) + 1 /\ uu[Len(tt) + 1] = t
        /\ Len(tt) \in Nat /\ \A i \in 1..Len(tt) : uu[i] = tt[i]
    BY AppendProperties
  <2>2. FlattenSeq(tt) \in Seq(S) /\ FlattenSeq(uu) = FlattenSeq(tt) \o t
    BY FlattenSeqIsSeq, FlattenSeqStep
  <2> HIDE DEF uu
  <2>3. ASSUME NEW k \in 0..Len(tt) PROVE \E rest : Rest(uu, k, rest)
    <3>1. PICK rest : Rest(tt, k, rest)
      BY <1>3
    <3>2. SubSeq(uu, 1, k) = SubSeq(tt, 1, k) /\ SubSeq(tt, 1, k) \in Seq(Seq(S))
      <4>1. k \in 0..Len(uu)
        BY <2>1
      <4>2. /\ SubSeq(uu, 1, k) \in Seq(Seq(S)) /\ Len(SubSeq(uu, 1, k)) = k
            /\ SubSeq(tt, 1, k) \in Seq(Seq(S)) /\ Len(SubSeq(tt, 1, k)) = k
            /\ \A i \in 1..k : SubSeq(uu, 1, k)[i] = uu[i] /\ SubSeq(tt, 1, k)[i] = tt[i]
        BY <2>1, <4>1, PrefixProperties
      <4>3. \A i \in 1..k : i \in 1..Len(tt)
        OBVIOUS
      <4>4. \A i \in 1..k : SubSeq(uu, 1, k)[i] = SubSeq(tt, 1, k)[i]
        BY <2>1, <4>2, <4>3
      <4> QED
        BY <4>2, <4>4, SeqEqual
    <3> DEFINE a == FlattenSeq(SubSeq(tt, 1, k))
    <3>3. a \in Seq(S)
      BY <3>2, FlattenSeqIsSeq
    <3> HIDE DEF a
    <3>4. FlattenSeq(uu) = a \o (rest \o t) /\ rest \o t \in Seq(S) /\ rest \in Seq(S)
      <4>1. rest \in Seq(S) /\ FlattenSeq(tt) = a \o rest
        BY <3>1 DEF a
      <4>2. (a \o rest) \o t = a \o (rest \o t)
        BY <1>0, <3>3, <4>1
      <4> QED
        BY <2>2, <4>1, <4>2
    <3>5. \E more \in Seq(S) : rest \o t = uu[k + 1] \o more
      <4>1. CASE k = Len(tt)
        <5>1. rest = <<>> /\ uu[k + 1] = t
          BY <2>1, <3>1, <4>1
        <5>2. <<>> \o t = t /\ t \o <<>> = t /\ <<>> \in Seq(S)
          BY ConcatEmptySeq
        <5> QED
          BY <5>1, <5>2
      <4>2. CASE k # Len(tt)
        <5>1. k < Len(tt) /\ k + 1 \in 1..Len(tt)
          BY <2>1, <4>2
        <5>2. PICK more \in Seq(S) : rest = tt[k + 1] \o more
          BY <3>1, <5>1
        <5>3. tt[k + 1] \in Seq(S) /\ uu[k + 1] = tt[k + 1]
          BY <2>1, <5>1
        <5> DEFINE x == tt[k + 1]
        <5>4. x \in Seq(S)
          BY <5>3
        <5> HIDE DEF x
        <5>5. (x \o more) \o t = x \o (more \o t) /\ more \o t \in Seq(S)
          BY <1>0, <5>4
        <5> QED
          BY <5>2, <5>3, <5>5 DEF x
      <4> QED
        BY <4>1, <4>2
    <3>6. k # Len(uu)
      BY <2>1
    <3>7. Rest(uu, k, rest \o t)
      BY <3>2, <3>4, <3>5, <3>6 DEF a
    <3> HIDE DEF Rest
    <3> QED
      BY <3>7
  <2>4. \A k \in 0..Len(uu) : k \in 0..Len(tt) \/ k = Len(uu)
    BY <2>1
  <2> HIDE DEF Rest
  <2>5. \A k \in 0..Len(uu) : \E rest : Rest(uu, k, rest)
    BY <1>1, <2>1, <2>3, <2>4
  <2> QED
    BY <2>1, <2>5 DEF uu
<1> HIDE DEF T, Rest
<1>4. Seq(Seq(S)) \subseteq T
  BY <1>2, <1>3, InductionOnSeq
<1>5. PICK rest : Rest(ss, m, rest)
  BY <1>4 DEF T
<1> QED
  BY <1>5 DEF Rest

\* A field holds the bytes of a name as far as a NUL and as they leave room for
\* a terminator, and then has one.
LEMMA FieldHolds ==
  ASSUME NEW s \in Seq(Char)
  PROVE  LET u == UpToNul(s)
             a == Bytes(u)
             f == NameField(s)
         IN  /\ u \in Seq(Char) /\ a \in Seq(Byte(Char))
             /\ f \in Seq(Byte(Char)) /\ Len(f) = NAME_FIELD_SIZE
             /\ \A i \in 1..Len(a) : i < NAME_FIELD_SIZE => f[i] = a[i] /\ f[i][1] # Nul
             /\ \A i \in 1..NAME_FIELD_SIZE :
                  i = NAME_FIELD_SIZE \/ i = Len(a) + 1 => f[i] = <<Nul, 1>>
<1> DEFINE b == Bytes(s)
           f == NameField(s)
<1>1. PICK m \in 0..Len(s) : /\ UpToNul(s) = SubSeq(s, 1, m)
                             /\ \A i \in 1..m : s[i] # Nul
                             /\ m < Len(s) => s[m + 1] = Nul
  BY UpToNulIs
<1> DEFINE u == SubSeq(s, 1, m)
           a == Bytes(u)
<1>2. u \in Seq(Char) /\ u \in Seq(Char \ {Nul})
  <2>1. u \in Seq(Char) /\ Len(u) = m /\ \A i \in 1..m : u[i] = s[i]
    BY PrefixProperties
  <2>2. \A i \in 1..m : u[i] \in Char \ {Nul}
    <3>1. \A i \in 1..m : i \in 1..Len(s)
      OBVIOUS
    <3>2. \A i \in 1..m : s[i] \in Char
      BY <3>1
    <3> HIDE DEF u
    <3> QED
      BY <1>1, <2>1, <3>2
  <2> HIDE DEF u
  <2> QED
    BY <2>1, <2>2
<1>3. /\ a \in Seq(Byte(Char)) /\ b \in Seq(Byte(Char)) /\ Len(a) \in Nat /\ Len(b) \in Nat
      /\ \A i \in 1..Len(a) : a[i][1] # Nul
  <2>1. Char \in SUBSET Char /\ Char \ {Nul} \in SUBSET Char
    OBVIOUS
  <2>2. a \in Seq(Byte(Char)) /\ b \in Seq(Byte(Char)) /\ a \in Seq(Byte(Char \ {Nul}))
    BY <1>2, <2>1, BytesGrow
  <2>3. \A x \in Byte(Char \ {Nul}) : x[1] # Nul
    BY DEF Byte
  <2> HIDE DEF a, b
  <2>4. \A i \in 1..Len(a) : a[i] \in Byte(Char \ {Nul})
    BY <2>2
  <2>5. Len(a) \in Nat /\ Len(b) \in Nat
    BY <2>2
  <2> QED
    BY <2>2, <2>3, <2>4, <2>5
<1>4. /\ Len(a) <= Len(b) /\ \A i \in 1..Len(a) : b[i] = a[i]
      /\ IF m < Len(s) THEN Len(a) < Len(b) /\ b[Len(a) + 1] = <<Nul, 1>> ELSE Len(a) = Len(b)
  <2>1. CASE m < Len(s)
    BY <1>1, <2>1, BytesBegin
  <2>2. CASE ~ (m < Len(s))
    <3>1. m = Len(s)
      BY <2>2
    <3>2. u = s
      BY <3>1, SubSeqFull
    <3>3. a = b
      BY <3>2
    <3> HIDE DEF a, b
    <3>4. Len(a) <= Len(b) /\ Len(a) = Len(b)
      BY <1>3, <3>3
    <3> QED
      BY <2>2, <3>3, <3>4
  <2> QED
    BY <2>1, <2>2
<1>5. /\ f \in Seq(Byte(Char)) /\ Len(f) = NAME_FIELD_SIZE /\ NAME_FIELD_SIZE \in Nat
      /\ \A i \in 1..NAME_FIELD_SIZE :
           f[i] = IF i <= Len(b) /\ i < NAME_FIELD_SIZE THEN b[i] ELSE <<Nul, 1>>
  <2>1. NAME_FIELD_SIZE \in Nat /\ <<Nul, 1>> \in Byte(Char)
    BY NamesAssumption DEF Byte
  <2>2. f = [i \in 1..NAME_FIELD_SIZE |->
               IF i <= Len(b) /\ i < NAME_FIELD_SIZE THEN b[i] ELSE <<Nul, 1>>]
    BY DEF NameField
  <2> HIDE DEF b, f
  <2>3. \A i \in 1..NAME_FIELD_SIZE :
          (IF i <= Len(b) /\ i < NAME_FIELD_SIZE THEN b[i] ELSE <<Nul, 1>>) \in Byte(Char)
    <3> TAKE i \in 1..NAME_FIELD_SIZE
    <3>1. i <= Len(b) => b[i] \in Byte(Char)
      BY <1>3
    <3> QED
      BY <2>1, <3>1
  <2>4. DOMAIN f = 1..NAME_FIELD_SIZE /\ Len(f) = NAME_FIELD_SIZE /\ f \in Seq(Byte(Char))
    BY <2>1, <2>2, <2>3
  <2> QED
    BY <2>1, <2>2, <2>4
<1> HIDE DEF a, b, f
<1>6. ASSUME NEW i \in 1..Len(a), i < NAME_FIELD_SIZE PROVE f[i] = a[i] /\ f[i][1] # Nul
  <2>1. i <= Len(b) /\ i \in 1..NAME_FIELD_SIZE
    BY <1>3, <1>4, <1>5, <1>6
  <2> QED
    BY <1>3, <1>4, <1>5, <1>6, <2>1
<1>7. ASSUME NEW i \in 1..NAME_FIELD_SIZE, i = NAME_FIELD_SIZE \/ i = Len(a) + 1
      PROVE  f[i] = <<Nul, 1>>
  <2>1. CASE i = NAME_FIELD_SIZE
    BY <1>5, <2>1
  <2>2. CASE i = Len(a) + 1 /\ i # NAME_FIELD_SIZE
    <3>1. i <= Len(b) => b[i] = <<Nul, 1>>
      BY <1>3, <1>4, <2>2
    <3> QED
      BY <1>5, <3>1
  <2> QED
    BY <1>7, <2>1, <2>2
<1> QED
  BY <1>1, <1>2, <1>3, <1>5, <1>6, <1>7 DEF a, f

\* null_terminated_str() takes from a field the bytes that were put there.
LEMMA FieldIsRead ==
  ASSUME NEW s \in Seq(Char)
  PROVE  \E k \in 0..Len(Bytes(UpToNul(s))) :
           LET part == SubSeq(Bytes(UpToNul(s)), 1, k)
           IN  /\ Len(Bytes(UpToNul(s))) < NAME_FIELD_SIZE => k = Len(Bytes(UpToNul(s)))
               /\ FromField(NameField(s)) =
                    IF part # <<>> /\ Last(part)[2] # Width[Last(part)[1]] THEN <<>>
                    ELSE Chars(part)
<1> DEFINE a == Bytes(UpToNul(s))
           f == NameField(s)
           k == IF Len(a) < NAME_FIELD_SIZE THEN Len(a) ELSE NAME_FIELD_SIZE - 1
           E == {i \in DOMAIN f : f[i][1] = Nul} \cup {Len(f) + 1}
           part == SubSeq(f, 1, Min(E) - 1)
<1>1. /\ a \in Seq(Byte(Char)) /\ f \in Seq(Byte(Char)) /\ Len(f) = NAME_FIELD_SIZE
      /\ \A i \in 1..Len(a) : i < NAME_FIELD_SIZE => f[i] = a[i] /\ f[i][1] # Nul
      /\ \A i \in 1..NAME_FIELD_SIZE :
           i = NAME_FIELD_SIZE \/ i = Len(a) + 1 => f[i] = <<Nul, 1>>
  BY FieldHolds
<1>2. NAME_FIELD_SIZE \in Nat /\ NAME_FIELD_SIZE > 0
  BY NamesAssumption
<1>3. FromField(f) = IF part # <<>> /\ Last(part)[2] # Width[Last(part)[1]] THEN <<>>
                     ELSE Chars(part)
  BY DEF FromField
<1> HIDE DEF a, f, part
<1>4. /\ Len(a) \in Nat /\ DOMAIN f = 1..NAME_FIELD_SIZE
  BY <1>1
<1>5. /\ k \in 0..Len(a) /\ k < NAME_FIELD_SIZE /\ k + 1 \in 1..NAME_FIELD_SIZE
      /\ k + 1 = NAME_FIELD_SIZE \/ k + 1 = Len(a) + 1
  BY <1>2, <1>4
<1>6. Len(a) < NAME_FIELD_SIZE => k = Len(a)
  OBVIOUS
<1> HIDE DEF k
<1>7. \A i \in 1..k : i \in 1..Len(a) /\ i < NAME_FIELD_SIZE /\ f[i] = a[i] /\ f[i][1] # Nul
  BY <1>1, <1>2, <1>4, <1>5
<1>8. Min(E) = k + 1
  <2>1. E \in SUBSET Nat /\ E # {} /\ E \subseteq 1..(NAME_FIELD_SIZE + 1)
    BY <1>1, <1>2, <1>4
  <2>2. k + 1 \in E
    BY <1>1, <1>4, <1>5
  <2>3. \A i \in 1..k : i \notin E
    <3> SUFFICES ASSUME NEW i \in 1..k, i \in E PROVE FALSE
      OBVIOUS
    <3>1. i < NAME_FIELD_SIZE /\ f[i][1] # Nul /\ i \in Nat
      BY <1>5, <1>7
    <3> QED
      BY <1>1, <1>2, <3>1
  <2> HIDE DEF E
  <2>4. Min(E) \in E /\ \A y \in E : Min(E) <= y
    BY <2>1, MinIsMember
  <2>5. Min(E) \in 1..(NAME_FIELD_SIZE + 1) /\ Min(E) <= k + 1 /\ Min(E) \notin 1..k
    BY <2>1, <2>2, <2>3, <2>4
  <2> QED
    BY <1>2, <1>4, <1>5, <2>5
<1>9. part = SubSeq(a, 1, k)
  <2>1. k \in 0..Len(f) /\ k \in 0..Len(a) /\ (k + 1) - 1 = k
    BY <1>1, <1>2, <1>5
  <2>2. part = SubSeq(f, 1, k)
    <3> HIDE DEF E
    <3> QED
      BY <1>8, <2>1 DEF part
  <2>3. /\ SubSeq(f, 1, k) \in Seq(Byte(Char)) /\ Len(SubSeq(f, 1, k)) = k
        /\ \A i \in 1..k : SubSeq(f, 1, k)[i] = f[i]
    BY <1>1, <2>1, PrefixProperties
  <2>4. /\ SubSeq(a, 1, k) \in Seq(Byte(Char)) /\ Len(SubSeq(a, 1, k)) = k
        /\ \A i \in 1..k : SubSeq(a, 1, k)[i] = a[i]
    BY <1>1, <2>1, PrefixProperties
  <2>5. \A i \in 1..k : SubSeq(f, 1, k)[i] = SubSeq(a, 1, k)[i]
    BY <1>7, <2>3, <2>4
  <2> QED
    BY <2>2, <2>3, <2>4, <2>5, SeqEqual
<1> QED
  BY <1>3, <1>5, <1>6, <1>9 DEF a, f

\* A name that fits its field with a byte to spare is read back as far as a NUL.
LEMMA FieldReadsBack ==
  ASSUME NEW s \in Seq(Char), Len(Bytes(UpToNul(s))) < NAME_FIELD_SIZE
  PROVE  FromField(NameField(s)) = UpToNul(s)
<1> DEFINE u == UpToNul(s)
           a == Bytes(u)
<1>1. u \in Seq(Char) /\ a \in Seq(Byte(Char))
  BY FieldHolds
<1>2. PICK k \in 0..Len(a) :
        LET part == SubSeq(a, 1, k)
        IN  /\ Len(a) < NAME_FIELD_SIZE => k = Len(a)
            /\ FromField(NameField(s)) =
                 IF part # <<>> /\ Last(part)[2] # Width[Last(part)[1]] THEN <<>> ELSE Chars(part)
  BY FieldIsRead
<1>3. k = Len(a)
  BY <1>2
<1>4. SubSeq(a, 1, k) = a
  <2> HIDE DEF a
  <2> QED
    BY <1>1, <1>3, SubSeqFull
<1>5. ~ (a # <<>> /\ Last(a)[2] # Width[Last(a)[1]]) /\ Chars(a) = u
  <2> HIDE DEF u
  <2> QED
    BY <1>1, BytesEnd, CharsOfBytes
<1> HIDE DEF a, u
<1>6. FromField(NameField(s)) =
        IF a # <<>> /\ Last(a)[2] # Width[Last(a)[1]] THEN <<>> ELSE Chars(a)
  BY <1>2, <1>4
<1>7. FromField(NameField(s)) = Chars(a)
  BY <1>5, <1>6
<1> QED
  BY <1>5, <1>7 DEF u

\* The characters of the beginning of some bytes begin the characters of all.
LEMMA CharsBegin ==
  ASSUME NEW b \in Seq(Byte(Char)), NEW k \in 0..Len(b)
  PROVE  \E rest \in Seq(Char) : Chars(b) = Chars(SubSeq(b, 1, k)) \o rest
<1>0. \A p \in Seq(Seq(Char)) : \A m \in 0..Len(p) : \E rest \in Seq(Char) :
        /\ FlattenSeq(p) = FlattenSeq(SubSeq(p, 1, m)) \o rest
        /\ m = Len(p) => rest = <<>>
        /\ m < Len(p) => \E more \in Seq(Char) : rest = p[m + 1] \o more
  BY FlattenBegins
<1> DEFINE one(y) == IF y[2] = 1 THEN <<y[1]>> ELSE <<>>
           parts(d) == [i \in DOMAIN d |-> one(d[i])]
           c == SubSeq(b, 1, k)
<1>1. \A y \in Byte(Char) : one(y) \in Seq(Char)
  BY DEF Byte
<1>2. \A d : Chars(d) = FlattenSeq(parts(d))
  BY DEF Chars
<1> HIDE DEF one
<1>3. \A d \in Seq(Byte(Char)) : /\ parts(d) \in Seq(Seq(Char)) /\ Len(parts(d)) = Len(d)
                                 /\ \A i \in 1..Len(d) : parts(d)[i] = one(d[i])
  <2> TAKE d \in Seq(Byte(Char))
  <2>1. DOMAIN d = 1..Len(d) /\ Len(d) \in Nat /\ \A i \in 1..Len(d) : one(d[i]) \in Seq(Char)
    BY <1>1
  <2> QED
    BY <2>1
<1> HIDE DEF parts
<1>4. c \in Seq(Byte(Char)) /\ Len(c) = k /\ \A i \in 1..k : c[i] = b[i]
  BY PrefixProperties
<1> HIDE DEF c
<1>5. parts(b) \in Seq(Seq(Char)) /\ k \in 0..Len(parts(b))
  BY <1>3
<1>6. /\ SubSeq(parts(b), 1, k) \in Seq(Seq(Char)) /\ Len(SubSeq(parts(b), 1, k)) = k
      /\ \A i \in 1..k : SubSeq(parts(b), 1, k)[i] = parts(b)[i]
  BY <1>5, PrefixProperties
<1>7. parts(c) = SubSeq(parts(b), 1, k)
  <2>1. \A i \in 1..k : parts(c)[i] = SubSeq(parts(b), 1, k)[i]
    <3> TAKE i \in 1..k
    <3>1. i \in 1..Len(b) /\ i \in 1..Len(c)
      BY <1>4
    <3>2. parts(c)[i] = one(c[i]) /\ parts(b)[i] = one(b[i])
      BY <1>3, <1>4, <3>1
    <3> QED
      BY <1>4, <1>6, <3>2
  <2>2. parts(c) \in Seq(Seq(Char)) /\ Len(parts(c)) = k
    BY <1>3, <1>4
  <2> QED
    BY <1>6, <2>1, <2>2, SeqEqual
<1>8. PICK rest \in Seq(Char) : FlattenSeq(parts(b)) = FlattenSeq(SubSeq(parts(b), 1, k)) \o rest
  BY <1>0, <1>5
<1> QED
  BY <1>2, <1>7, <1>8 DEF c

\* What is read from a field is nothing or begins what was to be put there.
LEMMA FieldHoldsPrefix ==
  ASSUME NEW s \in Seq(Char)
  PROVE  \/ FromField(NameField(s)) = <<>>
         \/ /\ FromField(NameField(s)) \in Seq(Char)
            /\ \E rest \in Seq(Char) : UpToNul(s) = FromField(NameField(s)) \o rest
<1> DEFINE u == UpToNul(s)
           a == Bytes(u)
           r == FromField(NameField(s))
<1>1. u \in Seq(Char) /\ a \in Seq(Byte(Char))
  BY FieldHolds
<1>2. PICK k \in 0..Len(a) : r = <<>> \/ r = Chars(SubSeq(a, 1, k))
  BY FieldIsRead
<1>3. Chars(a) = u
  <2> HIDE DEF u
  <2> QED
    BY <1>1, CharsOfBytes
<1> HIDE DEF a, u, r
<1>4. PICK rest \in Seq(Char) : u = Chars(SubSeq(a, 1, k)) \o rest
  BY <1>1, <1>3, CharsBegin
<1>5. Chars(SubSeq(a, 1, k)) \in Seq(Char)
  <2>1. SubSeq(a, 1, k) \in Seq(Byte(Char))
    BY <1>1, PrefixProperties
  <2>2. <<Nul, 1>> \in Byte(Char)
    BY NamesAssumption DEF Byte
  <2> QED
    BY <2>1, <2>2, CharsGrow
<1> QED
  BY <1>2, <1>4, <1>5 DEF u, r

\* What comes before a NUL has no more bytes than the whole name.
LEMMA UpToNulIsShorter ==
  ASSUME NEW s \in Seq(Char), NEW n \in Nat, Len(Bytes(s)) < n
  PROVE  Len(Bytes(UpToNul(s))) < n
<1>1. PICK m \in 0..Len(s) : UpToNul(s) = SubSeq(s, 1, m)
  BY UpToNulIs
<1>2. /\ Len(Bytes(SubSeq(s, 1, m))) \in Nat /\ Len(Bytes(s)) \in Nat
      /\ Len(Bytes(SubSeq(s, 1, m))) <= Len(Bytes(s))
  BY BytesBegin
<1> QED
  BY <1>1, <1>2

\* What trimming leaves is a string.
LEMMA TrimmedIsString ==
  ASSUME NEW s \in Seq(Char), NEW S
  PROVE  TrimStart(s, S) \in Seq(Char) /\ TrimEnd(s, S) \in Seq(Char)
<1>1. DOMAIN s = 1..Len(s) /\ Len(s) \in Nat /\ \A i \in 1..Len(s) : s[i] \in Char
  OBVIOUS
<1>2. TrimStart(s, S) \in Seq(Char)
  <2> DEFINE Z == {i \in DOMAIN s : s[i] \notin S} \cup {Len(s) + 1}
  <2>1. Z \in SUBSET Nat /\ Z # {} /\ Z \subseteq 1..(Len(s) + 1)
    BY <1>1
  <2>2. TrimStart(s, S) = SubSeq(s, Min(Z), Len(s))
    BY DEF TrimStart
  <2> HIDE DEF Z
  <2>3. Min(Z) \in 1..(Len(s) + 1)
    BY <2>1, MinIsMember
  <2>4. Min(Z) \in Int /\ Len(s) \in Int /\ \A i \in Min(Z)..Len(s) : s[i] \in Char
    BY <1>1, <2>3
  <2> QED
    BY <2>2, <2>4, SubSeqProperties
<1>3. TrimEnd(s, S) \in Seq(Char)
  <2> DEFINE Y == {i \in DOMAIN s : s[i] \notin S} \cup {0}
             R == {Len(s) - i : i \in Y}
  <2>1. Y \subseteq 0..Len(s) /\ 0 \in Y
    BY <1>1
  <2>2. TrimEnd(s, S) = SubSeq(s, 1, Max(Y))
    BY DEF TrimEnd
  <2> HIDE DEF Y
  <2>3. R \in SUBSET Nat /\ R # {}
    BY <1>1, <2>1
  <2>4. Min(R) \in R /\ \A y \in R : Min(R) <= y
    BY <2>3, MinIsMember
  <2>5. PICK x \in Y : Min(R) = Len(s) - x
    BY <2>4
  <2>6. \A y \in Y : x >= y
    <3> TAKE y \in Y
    <3>1. Len(s) - x <= Len(s) - y
      BY <2>4, <2>5
    <3>2. x \in Int /\ y \in Int /\ Len(s) \in Int
      BY <1>1, <2>1
    <3> QED
      BY <3>1, <3>2
  <2>7. Max(Y) \in Y
    BY <2>6 DEF Max
  <2> QED
    BY <2>1, <2>2, <2>7, PrefixProperties
<1> QED
  BY <1>2, <1>3

\* The name of a header is a string.
LEMMA HeaderNameIsString ==
  ASSUME NEW line \in Seq(Char), IsHeader(line) PROVE HeaderName(line) \in Seq(Char)
<1>1. line # <<>>
  BY DEF IsHeader
<1>2. Tail(line) \in Seq(Char)
  BY <1>1
<1> QED
  BY <1>2, TrimmedIsString DEF HeaderName

\* The name of a topic the parser takes has room for its terminator,
LEMMA AcceptedFits ==
  ASSUME NEW line \in Seq(Char), IsHeader(line), Accepted(line)
  PROVE  Len(Bytes(UpToNul(HeaderName(line)))) < NAME_FIELD_SIZE
<1>1. HeaderName(line) \in Seq(Char)
  BY HeaderNameIsString
<1>2. Len(Bytes(HeaderName(line))) \in Nat
  BY <1>1, BytesGrow
<1>3. Len(Bytes(HeaderName(line))) < NAME_FIELD_SIZE /\ NAME_FIELD_SIZE \in Nat
  BY <1>2, NamesAssumption DEF Accepted
<1> QED
  BY <1>1, <1>3, UpToNulIsShorter

\* and is what is stored, as far as a NUL.
LEMMA AcceptedIsStored ==
  ASSUME NEW line \in Seq(Char), IsHeader(line), Accepted(line)
  PROVE  StoredName(line) = UpToNul(HeaderName(line))
<1>1. HeaderName(line) \in Seq(Char)
  BY HeaderNameIsString
<1> QED
  BY <1>1, AcceptedFits, FieldReadsBack DEF StoredName
-----------------------------------------------------------------------------
(***************************************************************************)
(* Names in capitals                                                       *)
(***************************************************************************)

\* Capitals of a string, character by character
LEMMA UpperGrows ==
  ASSUME NEW s \in Seq(Char)
  PROVE  /\ ToUppercase(s) \in Seq(Char) /\ ToUppercase(<<>>) = <<>>
         /\ \A c \in Char : ToUppercase(Append(s, c)) = ToUppercase(s) \o Upper[c]
<1> DEFINE parts(t) == [i \in DOMAIN t |-> Upper[t[i]]]
<1>1. \A c \in Char : Upper[c] \in Seq(Char)
  BY NamesAssumption
<1>2. \A t \in Seq(Char) : /\ parts(t) \in Seq(Seq(Char)) /\ Len(parts(t)) = Len(t)
                           /\ \A i \in 1..Len(t) : parts(t)[i] = Upper[t[i]]
  <2> TAKE t \in Seq(Char)
  <2>1. DOMAIN t = 1..Len(t) /\ Len(t) \in Nat /\ \A i \in 1..Len(t) : Upper[t[i]] \in Seq(Char)
    BY <1>1
  <2> QED
    BY <2>1
<1>3. \A t : ToUppercase(t) = FlattenSeq(parts(t))
  BY DEF ToUppercase
<1>4. ToUppercase(<<>>) = <<>>
  <2>1. parts(<<>>) = <<>>
    OBVIOUS
  <2> QED
    BY <1>3, <2>1 DEF FlattenSeq
<1>5. ASSUME NEW c \in Char PROVE ToUppercase(Append(s, c)) = ToUppercase(s) \o Upper[c]
  <2>1. /\ Append(s, c) \in Seq(Char) /\ Len(Append(s, c)) = Len(s) + 1
        /\ Append(s, c)[Len(s) + 1] = c /\ \A i \in 1..Len(s) : Append(s, c)[i] = s[i]
    BY AppendProperties
  <2> HIDE DEF parts
  <2>2. /\ Append(parts(s), Upper[c]) \in Seq(Seq(Char))
        /\ Len(Append(parts(s), Upper[c])) = Len(s) + 1
        /\ Append(parts(s), Upper[c])[Len(s) + 1] = Upper[c]
        /\ \A i \in 1..Len(s) : Append(parts(s), Upper[c])[i] = parts(s)[i]
    BY <1>1, <1>2, AppendProperties
  <2>3. \A i \in 1..(Len(s) + 1) : i = Len(s) + 1 \/ i \in 1..Len(s)
    OBVIOUS
  <2>4. \A i \in 1..(Len(s) + 1) : parts(Append(s, c))[i] = Append(parts(s), Upper[c])[i]
    <3> TAKE i \in 1..(Len(s) + 1)
    <3>1. parts(Append(s, c))[i] = Upper[Append(s, c)[i]]
      BY <1>2, <2>1
    <3>2. CASE i = Len(s) + 1
      BY <2>1, <2>2, <3>1, <3>2
    <3>3. CASE i \in 1..Len(s)
      BY <1>2, <2>1, <2>2, <3>1, <3>3
    <3> QED
      BY <2>3, <3>2, <3>3
  <2>5. parts(Append(s, c)) \in Seq(Seq(Char)) /\ Len(parts(Append(s, c))) = Len(s) + 1
    BY <1>2, <2>1
  <2>6. parts(Append(s, c)) = Append(parts(s), Upper[c])
    BY <2>2, <2>4, <2>5, SeqEqual
  <2>7. FlattenSeq(Append(parts(s), Upper[c])) = FlattenSeq(parts(s)) \o Upper[c]
    <3>1. FlattenSeq(parts(s)) \in Seq(Char) /\ parts(s) \in Seq(Seq(Char))
      BY <1>2, FlattenSeqIsSeq
    <3> QED
      BY <1>1, <3>1, FlattenSeqStep
  <2> QED
    BY <1>3, <2>6, <2>7
<1>6. ToUppercase(s) \in Seq(Char)
  <2> HIDE DEF parts
  <2> QED
    BY <1>2, <1>3, FlattenSeqIsSeq
<1> QED
  BY <1>4, <1>5, <1>6

\* Only a NUL makes one.
LEMMA UpperOfNoNul ==
  ASSUME NEW s \in Seq(Char \ {Nul})
  PROVE  ToUppercase(s) \in Seq(Char \ {Nul})
<1> DEFINE parts == [i \in DOMAIN s |-> Upper[s[i]]]
<1>1. ASSUME NEW c \in Char \ {Nul} PROVE Upper[c] \in Seq(Char \ {Nul})
  <2>1. Upper[c] \in Seq(Char) /\ Nul \notin ToSet(Upper[c])
    BY NamesAssumption
  <2>2. \A i \in 1..Len(Upper[c]) : Upper[c][i] \in Char \ {Nul}
    BY <2>1 DEF ToSet
  <2> QED
    BY <2>1, <2>2
<1>2. parts \in Seq(Seq(Char \ {Nul}))
  <2>1. DOMAIN s = 1..Len(s) /\ Len(s) \in Nat /\ \A i \in 1..Len(s) : s[i] \in Char \ {Nul}
    OBVIOUS
  <2> QED
    BY <1>1, <2>1
<1>3. ToUppercase(s) = FlattenSeq(parts)
  BY DEF ToUppercase
<1> HIDE DEF parts
<1> QED
  BY <1>2, <1>3, FlattenSeqIsSeq

\* The capitals of the beginning of a string begin its capitals, and those of
\* the next character come next.
LEMMA UpperBegins ==
  ASSUME NEW s \in Seq(Char), NEW m \in 0..Len(s)
  PROVE  \E rest \in Seq(Char) :
           /\ ToUppercase(s) = ToUppercase(SubSeq(s, 1, m)) \o rest
           /\ m = Len(s) => rest = <<>>
           /\ m < Len(s) => \E more \in Seq(Char) : rest = Upper[s[m + 1]] \o more
<1>0. \A p \in Seq(Seq(Char)) : \A k \in 0..Len(p) : \E rest \in Seq(Char) :
         /\ FlattenSeq(p) = FlattenSeq(SubSeq(p, 1, k)) \o rest
         /\ k = Len(p) => rest = <<>>
         /\ k < Len(p) => \E more \in Seq(Char) : rest = p[k + 1] \o more
  BY FlattenBegins
<1> DEFINE parts(t) == [i \in DOMAIN t |-> Upper[t[i]]]
<1>1. \A c \in Char : Upper[c] \in Seq(Char)
  BY NamesAssumption
<1>2. \A t \in Seq(Char) : /\ parts(t) \in Seq(Seq(Char)) /\ Len(parts(t)) = Len(t)
                           /\ \A i \in 1..Len(t) : parts(t)[i] = Upper[t[i]]
  <2> TAKE t \in Seq(Char)
  <2>1. DOMAIN t = 1..Len(t) /\ Len(t) \in Nat /\ \A i \in 1..Len(t) : Upper[t[i]] \in Seq(Char)
    BY <1>1
  <2> QED
    BY <2>1
<1>3. \A t : ToUppercase(t) = FlattenSeq(parts(t))
  BY DEF ToUppercase
<1>4. /\ SubSeq(s, 1, m) \in Seq(Char) /\ Len(SubSeq(s, 1, m)) = m
      /\ \A i \in 1..m : SubSeq(s, 1, m)[i] = s[i]
  BY PrefixProperties
<1> HIDE DEF parts
<1>5. m \in 0..Len(parts(s)) /\ Len(s) \in Nat /\ \A i \in 1..m : i \in 1..Len(s)
  BY <1>2
<1>6. /\ SubSeq(parts(s), 1, m) \in Seq(Seq(Char)) /\ Len(SubSeq(parts(s), 1, m)) = m
      /\ \A i \in 1..m : SubSeq(parts(s), 1, m)[i] = parts(s)[i]
  BY <1>2, <1>5, PrefixProperties
<1>7. parts(SubSeq(s, 1, m)) = SubSeq(parts(s), 1, m)
  <2>1. \A i \in 1..m : parts(SubSeq(s, 1, m))[i] = SubSeq(parts(s), 1, m)[i]
    <3> TAKE i \in 1..m
    <3>1. parts(SubSeq(s, 1, m))[i] = Upper[s[i]]
      <4>1. SubSeq(s, 1, m) \in Seq(Char) /\ i \in 1..Len(SubSeq(s, 1, m))
        BY <1>4
      <4>2. parts(SubSeq(s, 1, m))[i] = Upper[SubSeq(s, 1, m)[i]]
        BY <1>2, <4>1
      <4> QED
        BY <1>4, <4>2
    <3>2. SubSeq(parts(s), 1, m)[i] = Upper[s[i]]
      BY <1>2, <1>5, <1>6
    <3> QED
      BY <3>1, <3>2
  <2>2. parts(SubSeq(s, 1, m)) \in Seq(Seq(Char)) /\ Len(parts(SubSeq(s, 1, m))) = m
    BY <1>2, <1>4
  <2> QED
    BY <1>6, <2>1, <2>2, SeqEqual
<1>8. PICK rest \in Seq(Char) :
         /\ FlattenSeq(parts(s)) = FlattenSeq(SubSeq(parts(s), 1, m)) \o rest
         /\ m = Len(parts(s)) => rest = <<>>
         /\ m < Len(parts(s)) => \E more \in Seq(Char) : rest = parts(s)[m + 1] \o more
  <2>1. parts(s) \in Seq(Seq(Char))
    BY <1>2
  <2> QED
    BY <1>0, <1>5, <2>1
<1>9. m < Len(s) => parts(s)[m + 1] = Upper[s[m + 1]]
  <2>1. m < Len(s) => m + 1 \in 1..Len(s)
    OBVIOUS
  <2> QED
    BY <1>2, <2>1
<1> QED
  BY <1>2, <1>3, <1>7, <1>8, <1>9

\* There is one place at which a name ends.
LEMMA UpToNulWhen ==
  ASSUME NEW w \in Seq(Char), NEW m \in 0..Len(w), \A i \in 1..m : w[i] # Nul,
         m < Len(w) => w[m + 1] = Nul
  PROVE  UpToNul(w) = SubSeq(w, 1, m)
<1>1. PICK k \in 0..Len(w) : /\ UpToNul(w) = SubSeq(w, 1, k)
                             /\ \A i \in 1..k : w[i] # Nul
                             /\ k < Len(w) => w[k + 1] = Nul
  BY UpToNulIs
<1>2. Len(w) \in Nat
  OBVIOUS
<1>3. ~ (k < m)
  <2> SUFFICES ASSUME k < m PROVE FALSE
    OBVIOUS
  <2>1. k < Len(w) /\ k + 1 \in 1..m
    BY <1>2
  <2> QED
    BY <1>1, <2>1
<1>4. ~ (m < k)
  <2> SUFFICES ASSUME m < k PROVE FALSE
    OBVIOUS
  <2>1. m < Len(w) /\ m + 1 \in 1..k
    BY <1>2
  <2> QED
    BY <1>1, <2>1
<1>5. k = m
  BY <1>2, <1>3, <1>4
<1> QED
  BY <1>1, <1>5

\* The capitals of a name begin with those of what comes before a NUL, and the
\* NUL comes next.
LEMMA UpperHasNul ==
  ASSUME NEW s \in Seq(Char)
  PROVE  LET u == ToUppercase(UpToNul(s))
             w == ToUppercase(s)
         IN  /\ UpToNul(s) \in Seq(Char) /\ u \in Seq(Char) /\ w \in Seq(Char)
             /\ Len(u) <= Len(w)
             /\ \A i \in 1..Len(u) : w[i] = u[i] /\ u[i] # Nul
             /\ Len(u) < Len(w) => w[Len(u) + 1] = Nul
<1>1. PICK m \in 0..Len(s) : /\ UpToNul(s) = SubSeq(s, 1, m)
                             /\ \A i \in 1..m : s[i] # Nul
                             /\ m < Len(s) => s[m + 1] = Nul
  BY UpToNulIs
<1> DEFINE v == SubSeq(s, 1, m)
           u == ToUppercase(v)
           w == ToUppercase(s)
<1>2. v \in Seq(Char) /\ v \in Seq(Char \ {Nul})
  <2>1. v \in Seq(Char) /\ Len(v) = m /\ \A i \in 1..m : v[i] = s[i]
    BY PrefixProperties
  <2>2. \A i \in 1..m : s[i] \in Char
    <3>1. \A i \in 1..m : i \in 1..Len(s)
      OBVIOUS
    <3> QED
      BY <3>1
  <2>3. \A i \in 1..m : v[i] \in Char \ {Nul}
    <3> HIDE DEF v
    <3> QED
      BY <1>1, <2>1, <2>2
  <2> HIDE DEF v
  <2> QED
    BY <2>1, <2>3
<1>3. PICK rest \in Seq(Char) :
        /\ w = u \o rest
        /\ m = Len(s) => rest = <<>>
        /\ m < Len(s) => \E more \in Seq(Char) : rest = Upper[s[m + 1]] \o more
  BY UpperBegins
<1>4. w \in Seq(Char) /\ u \in Seq(Char) /\ u \in Seq(Char \ {Nul})
  <2> HIDE DEF v
  <2> QED
    BY <1>2, UpperGrows, UpperOfNoNul
<1> HIDE DEF u, v, w
<1>5. Upper[Nul] = <<Nul>>
  <2>1. Nul \in Char /\ Width[Nul] = 1
    BY NamesAssumption
  <2>2. Upper[Nul] = <<AsciiUpper[Nul]>> /\ Nul \in ToSet(Upper[Nul])
    BY <2>1, NamesAssumption
  <2> QED
    BY <2>2 DEF ToSet
<1>6. rest = <<>> \/ \E more \in Seq(Char) : rest = <<Nul>> \o more
  <2>1. m = Len(s) \/ m < Len(s)
    OBVIOUS
  <2> QED
    BY <1>1, <1>3, <1>5, <2>1
<1>7. rest # <<>> => rest[1] = Nul
  <2> SUFFICES ASSUME NEW more \in Seq(Char) PROVE (<<Nul>> \o more)[1] = Nul
    BY <1>6
  <2>1. <<Nul>> \in Seq(Char)
    BY NamesAssumption
  <2> QED
    BY <2>1
<1>8. /\ Len(w) = Len(u) + Len(rest) /\ Len(u) \in Nat /\ Len(rest) \in Nat
      /\ \A i \in 1..Len(w) : w[i] = IF i <= Len(u) THEN u[i] ELSE rest[i - Len(u)]
  <2>1. u \in Seq(Char) /\ rest \in Seq(Char)
    BY <1>4
  <2> QED
    BY <1>3, <2>1, ConcatProperties
<1>9. \A i \in 1..Len(u) : w[i] = u[i] /\ u[i] # Nul
  <2> TAKE i \in 1..Len(u)
  <2>1. i \in 1..Len(w) /\ i <= Len(u)
    BY <1>8
  <2>2. u[i] \in Char \ {Nul}
    BY <1>4
  <2> QED
    BY <1>8, <2>1, <2>2
<1>10. Len(u) < Len(w) => w[Len(u) + 1] = Nul
  <2> SUFFICES ASSUME Len(u) < Len(w) PROVE w[Len(u) + 1] = Nul
    OBVIOUS
  <2>1. Len(u) + 1 \in 1..Len(w) /\ ~ (Len(u) + 1 <= Len(u)) /\ (Len(u) + 1) - Len(u) = 1
    BY <1>8
  <2>2. rest # <<>>
    BY <1>8
  <2> QED
    BY <1>7, <1>8, <2>1, <2>2
<1> QED
  BY <1>1, <1>2, <1>4, <1>8, <1>9, <1>10 DEF u, v, w

\* So capitals end at a NUL where those of the name end.
LEMMA UpperUpToNul ==
  ASSUME NEW s \in Seq(Char)
  PROVE  UpToNul(ToUppercase(s)) = ToUppercase(UpToNul(s))
<1> DEFINE u == ToUppercase(UpToNul(s))
           w == ToUppercase(s)
<1>1. /\ u \in Seq(Char) /\ w \in Seq(Char) /\ Len(u) <= Len(w)
      /\ \A i \in 1..Len(u) : w[i] = u[i] /\ u[i] # Nul
      /\ Len(u) < Len(w) => w[Len(u) + 1] = Nul
  BY UpperHasNul
<1> HIDE DEF u, w
<1>2. Len(u) \in 0..Len(w)
  BY <1>1
<1>3. UpToNul(w) = SubSeq(w, 1, Len(u))
  BY <1>1, <1>2, UpToNulWhen
<1>4. /\ SubSeq(w, 1, Len(u)) \in Seq(Char) /\ Len(SubSeq(w, 1, Len(u))) = Len(u)
      /\ \A i \in 1..Len(u) : SubSeq(w, 1, Len(u))[i] = w[i]
  BY <1>1, <1>2, PrefixProperties
<1>5. SubSeq(w, 1, Len(u)) = u
  BY <1>1, <1>4, SeqEqual
<1> QED
  BY <1>3, <1>5 DEF u, w

\* A character of one byte adds one.
LEMMA OneByteMore ==
  ASSUME NEW s \in Seq(Char), NEW c \in Char, Width[c] = 1
  PROVE  Len(Bytes(Append(s, c))) = Len(Bytes(s)) + 1
<1> DEFINE b == Bytes(s)
           o == BytesOf(c)
<1>1. Char \in SUBSET Char
  OBVIOUS
<1>2. b \in Seq(Byte(Char)) /\ Bytes(Append(s, c)) = b \o o
  BY <1>1, BytesGrow
<1>3. o \in Seq(Byte(Char)) /\ Len(o) = 1
  BY <1>1, CharacterBytes
<1> HIDE DEF b, o
<1>4. Len(b \o o) = Len(b) + Len(o)
  BY <1>2, <1>3, ConcatProperties
<1> QED
  BY <1>2, <1>3, <1>4 DEF b

\* The capitals of an ASCII name are those of to_ascii_uppercase(), as wide.
LEMMA AsciiUppers ==
  ASSUME NEW s \in Seq(Char), \A i \in DOMAIN s : Width[s[i]] = 1
  PROVE  /\ ToUppercase(s) = ToAsciiUppercase(s)
         /\ Len(Bytes(ToUppercase(s))) = Len(Bytes(s))
<1> DEFINE A == {c \in Char : Width[c] = 1}
           T == {t \in Seq(A) : /\ ToUppercase(t) = ToAsciiUppercase(t)
                                /\ Len(Bytes(ToUppercase(t))) = Len(Bytes(t))}
<1>1. A \subseteq Char /\ \A t \in Seq(A) : t \in Seq(Char)
  OBVIOUS
<1>2. \A c \in A : /\ Upper[c] = <<AsciiUpper[c]>> /\ c \in Char
                   /\ AsciiUpper[c] \in Char /\ Width[AsciiUpper[c]] = 1 /\ Width[c] = 1
  BY NamesAssumption, CharAssumption
<1>3. <<>> \in T
  <2>1. ToUppercase(<<>>) = <<>>
    BY UpperGrows
  <2>2. ToAsciiUppercase(<<>>) = <<>>
    BY DEF ToAsciiUppercase
  <2>3. <<>> \in Seq(A)
    OBVIOUS
  <2> QED
    BY <2>1, <2>2, <2>3
<1>4. ASSUME NEW t \in Seq(A), NEW c \in A, t \in T PROVE Append(t, c) \in T
  <2> DEFINE u == ToUppercase(t)
             d == AsciiUpper[c]
  <2>1. t \in Seq(Char) /\ c \in Char /\ Append(t, c) \in Seq(A)
    BY <1>1
  <2>2. d \in Char /\ Width[d] = 1 /\ Width[c] = 1 /\ Upper[c] = <<d>>
    BY <1>2
  <2>3. u \in Seq(Char) /\ ToUppercase(Append(t, c)) = u \o <<d>>
    BY <2>1, <2>2, UpperGrows
  <2>4. u = ToAsciiUppercase(t) /\ Len(Bytes(u)) = Len(Bytes(t))
    BY <1>4
  <2> HIDE DEF u, d
  <2>5. u \o <<d>> = Append(u, d)
    BY <2>2, <2>3
  <2>6. ToAsciiUppercase(Append(t, c)) = Append(ToAsciiUppercase(t), d)
    <3>1. DOMAIN t = 1..Len(t) /\ Len(t) \in Nat
      OBVIOUS
    <3>2. /\ ToAsciiUppercase(t) \in Seq(Char) /\ Len(ToAsciiUppercase(t)) = Len(t)
          /\ \A i \in 1..Len(t) : ToAsciiUppercase(t)[i] = AsciiUpper[t[i]]
      <4>1. \A i \in 1..Len(t) : AsciiUpper[t[i]] \in Char
        BY <2>1, CharAssumption
      <4> QED
        BY <3>1, <4>1 DEF ToAsciiUppercase
    <3>3. /\ Append(t, c) \in Seq(Char) /\ Len(Append(t, c)) = Len(t) + 1
          /\ Append(t, c)[Len(t) + 1] = c /\ \A i \in 1..Len(t) : Append(t, c)[i] = t[i]
      BY <2>1, AppendProperties
    <3>4. /\ ToAsciiUppercase(Append(t, c)) \in Seq(Char)
          /\ Len(ToAsciiUppercase(Append(t, c))) = Len(t) + 1
          /\ \A i \in 1..(Len(t) + 1) :
               ToAsciiUppercase(Append(t, c))[i] = AsciiUpper[Append(t, c)[i]]
      <4> DEFINE x == Append(t, c)
      <4>1. x \in Seq(Char) /\ Len(x) = Len(t) + 1
        BY <3>3
      <4> HIDE DEF x
      <4>2. DOMAIN x = 1..(Len(t) + 1) /\ Len(t) + 1 \in Nat
        BY <3>1, <4>1
      <4>3. \A i \in 1..(Len(t) + 1) : AsciiUpper[x[i]] \in Char
        BY <4>1, CharAssumption
      <4>4. /\ ToAsciiUppercase(x) \in Seq(Char) /\ Len(ToAsciiUppercase(x)) = Len(t) + 1
            /\ \A i \in 1..(Len(t) + 1) : ToAsciiUppercase(x)[i] = AsciiUpper[x[i]]
        BY <4>2, <4>3 DEF ToAsciiUppercase
      <4> QED
        BY <4>4 DEF x
    <3>5. /\ Append(ToAsciiUppercase(t), d) \in Seq(Char)
          /\ Len(Append(ToAsciiUppercase(t), d)) = Len(t) + 1
          /\ Append(ToAsciiUppercase(t), d)[Len(t) + 1] = d
          /\ \A i \in 1..Len(t) : Append(ToAsciiUppercase(t), d)[i] = ToAsciiUppercase(t)[i]
      BY <2>2, <3>2, AppendProperties
    <3>6. \A i \in 1..(Len(t) + 1) :
            ToAsciiUppercase(Append(t, c))[i] = Append(ToAsciiUppercase(t), d)[i]
      <4> TAKE i \in 1..(Len(t) + 1)
      <4>1. i = Len(t) + 1 \/ i \in 1..Len(t)
        BY <3>1
      <4>2. CASE i = Len(t) + 1
        BY <3>3, <3>4, <3>5, <4>2 DEF d
      <4>3. CASE i \in 1..Len(t)
        BY <3>2, <3>3, <3>4, <3>5, <4>3
      <4> QED
        BY <4>1, <4>2, <4>3
    <3> QED
      BY <3>4, <3>5, <3>6, SeqEqual
  <2>7. Len(Bytes(Append(u, d))) = Len(Bytes(u)) + 1
    BY <2>2, <2>3, OneByteMore
  <2>8. Len(Bytes(Append(t, c))) = Len(Bytes(t)) + 1
    BY <2>1, <2>2, OneByteMore
  <2> QED
    BY <2>1, <2>3, <2>4, <2>5, <2>6, <2>7, <2>8
<1>5. s \in Seq(A)
  <2>1. DOMAIN s = 1..Len(s) /\ Len(s) \in Nat /\ \A i \in 1..Len(s) : s[i] \in A
    OBVIOUS
  <2> HIDE DEF A
  <2> QED
    BY <2>1
<1> HIDE DEF T, A
<1>6. Seq(A) \subseteq T
  BY <1>3, <1>4, InductionOnSeq
<1> QED
  BY <1>5, <1>6 DEF T
-----------------------------------------------------------------------------
(***************************************************************************)
(* The trees that are built                                                *)
(***************************************************************************)

\* Levels are those of a header, or 0, and grow with every step down.
LEMMA LevelsGrow ==
  /\ \A n \in Node : Level(n) \in 0..9
  /\ \A n \in Node : IsTopic(n) => Level(n) = Level(Parent[n]) + 1
<1>1. ASSUME NEW n \in Node, IsTopic(n) PROVE HeaderLevel(HeaderLine[n]) \in 1..9
  <2>1. IsHeader(HeaderLine[n])
    BY <1>1, PythonAssumption
  <2>2. HeaderLine[n][1] \in DOMAIN Digit
    BY <2>1 DEF IsHeader
  <2> QED
    BY <2>2, NamesAssumption DEF HeaderLevel
<1>2. ASSUME NEW n \in Node PROVE Level(n) \in 0..9
  BY <1>1 DEF Level
<1> QED
  BY <1>2, PythonAssumption DEF Level

\* So a walk up ends,
LEMMA WalksEnd == ParentsEnd
<1> SUFFICES ASSUME NEW S \in SUBSET Node, S # {} PROVE \E n \in S : Parent[n] \notin S
  BY DEF ParentsEnd
<1> DEFINE levels == {Level(n) : n \in S}
<1>1. levels \in SUBSET Nat /\ levels # {}
  BY LevelsGrow
<1>2. Min(levels) \in levels /\ \A y \in levels : Min(levels) <= y
  <2> HIDE DEF levels
  <2> QED
    BY <1>1, MinIsMember
<1>3. PICK n \in S : Level(n) = Min(levels)
  BY <1>2
<1>4. ASSUME Parent[n] \in S PROVE FALSE
  <2>1. IsTopic(n)
    BY <1>4, NodeAssumption DEF IsTopic
  <2>2. Level(n) = Level(Parent[n]) + 1 /\ Level(Parent[n]) \in levels
    BY <1>4, <2>1, LevelsGrow
  <2>3. Level(n) <= Level(Parent[n]) /\ Level(n) \in Nat /\ Level(Parent[n]) \in Nat
    BY <1>1, <1>2, <1>3, <2>2
  <2> QED
    BY <2>2, <2>3
<1> QED
  BY <1>4

\* and it ends at the root of each.
LEMMA RootOfWalks ==
  \A n \in Node : RootOf[n] = IF IsTopic(n) THEN RootOf[Parent[n]] ELSE n
<1> DEFINE way(n) == CHOOSE s : LineTo(n, s)
           roots == [n \in Node |-> way(n)[1]]
           Equation(f) == f = [n \in Node |-> IF IsTopic(n) THEN f[Parent[n]] ELSE n]
<1>1. \A n \in Node : LineTo(n, way(n))
  BY WalksEnd, LineToEach
<1> HIDE DEF way
<1>2. ASSUME NEW n \in Node PROVE roots[n] = IF IsTopic(n) THEN roots[Parent[n]] ELSE n
  <2>1. CASE ~ IsTopic(n)
    <3>1. way(n) = <<n>>
      BY <1>1, <2>1, LineToRoot, LineIsOne, WalksEnd DEF IsTopic
    <3> QED
      BY <2>1, <3>1
  <2>2. CASE IsTopic(n)
    <3> DEFINE up == way(Parent[n])
    <3>1. Parent[n] \in Node /\ Parent[n] # NoNode
      BY <2>2, NodeAssumption DEF IsTopic
    <3>2. LineTo(Parent[n], up) /\ LineTo(n, Append(up, n)) /\ LineTo(n, way(n))
      BY <1>1, <3>1, LineGoesOn
    <3>3. way(n) = Append(up, n)
      BY <3>2, LineIsOne, WalksEnd
    <3>4. Append(up, n)[1] = up[1]
      <4>1. up \in Seq(Node) /\ up # <<>>
        BY <3>2 DEF LineTo, Descent
      <4> HIDE DEF up
      <4> QED
        BY <4>1
    <3> QED
      BY <2>2, <3>1, <3>3, <3>4
  <2> QED
    BY <2>1, <2>2
<1>3. Equation(roots)
  <2>1. roots = [n \in Node |-> roots[n]]
    OBVIOUS
  <2> HIDE DEF roots
  <2> QED
    BY <1>2, <2>1
<1>4. RootOf = CHOOSE f : Equation(f)
  BY DEF RootOf
<1>5. Equation(RootOf)
  <2> HIDE DEF Equation, roots
  <2> QED
    BY <1>3, <1>4
<1> QED
  BY <1>5

\* The nodes of the trees that are built, and the names they have
Tree == {n \in Node : RootOf[n] \in Built}
WrittenNames == {Name[n] : n \in {m \in Tree : IsTopic(m)}}

\* The roots are among them, and the children of each.
LEMMA TreeIsClosed ==
  /\ Built \subseteq Tree /\ Tree \subseteq Node
  /\ \A m \in Tree : /\ Kids(m) \subseteq {n \in Tree : IsTopic(n)}
                     /\ NamesOf(Kids(m)) \subseteq WrittenNames
<1>1. Built \subseteq Tree
  <2> SUFFICES ASSUME NEW r \in Built PROVE r \in Tree
    OBVIOUS
  <2>1. r \in Node /\ ~ IsTopic(r)
    BY PythonAssumption DEF Built
  <2> QED
    BY <2>1, RootOfWalks DEF Tree
<1>2. ASSUME NEW m \in Tree, NEW n \in Kids(m) PROVE n \in Tree /\ IsTopic(n)
  <2>1. n \in Node /\ m \in Node /\ Parent[n] = m
    <3>1. m \in Node /\ Children[m] \in Seq(Node)
      BY NodeAssumption DEF Tree
    <3>2. n \in Node
      BY <3>1 DEF Kids, ToSet
    <3> QED
      BY <3>1, <3>2, NodeAssumption
  <2>2. IsTopic(n)
    BY <2>1, NodeAssumption DEF IsTopic
  <2> QED
    BY <2>1, <2>2, RootOfWalks DEF Tree
<1> QED
  BY <1>1, <1>2 DEF Tree, NamesOf, WrittenNames

\* Their names are as the source has them: the parser took every line.
LEMMA TreeIsWritten ==
  ASSUME NEW n \in Tree, IsTopic(n)
  PROVE  Name[n] = UpToNul(HeaderName(HeaderLine[n])) /\ n \in Node
<1>1. n \in Node /\ RootOf[n] \in Built
  BY DEF Tree
<1>2. Accepted(HeaderLine[n])
  BY <1>1 DEF Built
<1>3. IsHeader(HeaderLine[n]) /\ Name[n] = StoredName(HeaderLine[n]) /\ HeaderLine[n] \in Seq(Char)
  BY <1>1, PythonAssumption
<1> QED
  BY <1>1, <1>2, <1>3, AcceptedIsStored

\* A walk that begins in such a tree stays in it,
LEMMA DescentStays ==
  ASSUME NEW s, Descent(s), s[1] \in Tree
  PROVE  \A i \in 1..Len(s) : s[i] \in Tree
<1> DEFINE K == {k \in Nat : k + 1 <= Len(s) => s[k + 1] \in Tree}
<1>1. /\ Len(s) \in Nat /\ \A i \in 1..Len(s) : s[i] \in Node
      /\ \A i \in 1..(Len(s) - 1) : Parent[s[i + 1]] = s[i]
  BY DEF Descent
<1>2. 0 \in K
  OBVIOUS
<1>3. ASSUME NEW k \in Nat, k \in K PROVE k + 1 \in K
  <2> SUFFICES ASSUME (k + 1) + 1 <= Len(s) PROVE s[(k + 1) + 1] \in Tree
    OBVIOUS
  <2>1. k + 1 <= Len(s) /\ k + 1 \in 1..(Len(s) - 1) /\ (k + 1) + 1 \in 1..Len(s)
    BY <1>1
  <2>2. s[k + 1] \in Tree /\ s[(k + 1) + 1] \in Node /\ Parent[s[(k + 1) + 1]] = s[k + 1]
    BY <1>1, <1>3, <2>1
  <2>3. s[k + 1] \in Node
    BY <2>2, TreeIsClosed
  <2>4. s[(k + 1) + 1] \in Kids(s[k + 1])
    BY <2>2, <2>3, NodeAssumption
  <2> QED
    BY <2>2, <2>4, TreeIsClosed
<1> HIDE DEF K
<1>4. Nat \subseteq K
  BY <1>2, <1>3, InductionOnNat
<1>5. ASSUME NEW i \in 1..Len(s) PROVE s[i] \in Tree
  <2>1. i - 1 \in Nat /\ (i - 1) + 1 = i /\ i <= Len(s)
    BY <1>1
  <2> QED
    BY <1>4, <2>1 DEF K
<1> QED
  BY <1>5

\* and so does resolve().
LEMMA ResolveStays ==
  ASSUME NEW root \in Tree, NEW path \in Seq(Seq(Char)), NEW mode,
         Resolve(root, path, mode).kind = "Found"
  PROVE  Resolve(root, path, mode).node \in Tree
<1> DEFINE In(r) == r.kind # "Found" \/ \E n \in Tree : r = Found(n)
           T == {p \in Seq(Seq(Char)) : In(Resolve(root, p, mode))}
<1>1. <<>> \in T
  <2>1. In(Found(root))
    OBVIOUS
  <2> HIDE DEF In
  <2> QED
    BY <2>1, ResolveEmpty
<1>2. ASSUME NEW p \in Seq(Seq(Char)), NEW w \in Seq(Char), p \in T PROVE Append(p, w) \in T
  <2> DEFINE before == Resolve(root, p, mode)
             after == ResolveWord(before, w, Len(p), mode)
  <2>1. /\ Resolve(root, Append(p, w), mode) = after
        /\ Append(p, w) \in Seq(Seq(Char))
    BY ResolveStep
  <2>2. CASE before.kind # "Found"
    <3>1. after = before
      BY <2>2 DEF ResolveWord
    <3> HIDE DEF after, before
    <3> QED
      BY <2>1, <2>2, <3>1
  <2>3. ASSUME NEW m \in Tree, before = Found(m) PROVE In(after)
    <3>1. m \in Node
      BY TreeIsClosed
    <3>2. \/ \E n \in Node : after = Found(n) /\ Parent[n] = m
          \/ FailsAt(after, Len(p))
      BY <2>3, <3>1, ResolveWordOutcome
    <3> HIDE DEF after, before
    <3>3. CASE FailsAt(after, Len(p))
      BY <3>3, FailureIsNoFind
    <3>4. ASSUME NEW n \in Node, after = Found(n), Parent[n] = m PROVE In(after)
      <4>1. n \in Kids(m)
        BY <3>1, <3>4, NodeAssumption
      <4>2. n \in Tree
        BY <4>1, TreeIsClosed
      <4> QED
        BY <3>4, <4>2
    <3> QED
      BY <3>2, <3>3, <3>4
  <2>4. In(before)
    BY <1>2
  <2> HIDE DEF after
  <2>5. In(after)
    BY <2>1, <2>2, <2>3, <2>4
  <2> QED
    BY <2>1, <2>5
<1> HIDE DEF T
<1>3. Seq(Seq(Char)) \subseteq T
  BY <1>1, <1>2, InductionOnSeq
<1>4. In(Resolve(root, path, mode))
  BY <1>3 DEF T
<1> QED
  BY <1>4, FailureIsNoFind
-----------------------------------------------------------------------------
(***************************************************************************)
(* What a program may type for a topic                                     *)
(***************************************************************************)

\* A topic of a tree has a header line that was accepted, and capitals that
\* begin with those of its name; what comes next is a NUL.
LEMMA TopicHasCapitals ==
  ASSUME NEW n \in Tree, IsTopic(n)
  PROVE  LET u == ToUppercase(Name[n])
             w == ToUppercase(HeaderName(HeaderLine[n]))
         IN  /\ Name[n] \in Seq(Char) /\ u \in Seq(Char) /\ w \in Seq(Char)
             /\ Len(u) <= Len(w)
             /\ \A i \in 1..Len(u) : w[i] = u[i] /\ u[i] # Nul
             /\ Len(u) < Len(w) => w[Len(u) + 1] = Nul
             /\ UpToNul(w) = u
             /\ NameUpper[n] = FromField(NameField(w))
             /\ Len(Bytes(Name[n])) < NAME_FIELD_SIZE
<1> DEFINE h == HeaderName(HeaderLine[n])
<1>1. n \in Node /\ Name[n] = UpToNul(h) /\ Accepted(HeaderLine[n])
  BY TreeIsWritten DEF Tree, Built
<1>2. h \in Seq(Char) /\ NameUpper[n] = FromField(NameField(ToUppercase(h)))
  BY <1>1, PythonAssumption, HeaderNameIsString DEF StoredUpper
<1>3. HeaderLine[n] \in Seq(Char) /\ IsHeader(HeaderLine[n])
  BY <1>1, PythonAssumption
<1>4. Len(Bytes(UpToNul(h))) < NAME_FIELD_SIZE
  BY <1>1, <1>3, AcceptedFits
<1> HIDE DEF h
<1>5. UpToNul(ToUppercase(h)) = ToUppercase(UpToNul(h))
  BY <1>2, UpperUpToNul
<1> QED
  BY <1>1, <1>2, <1>4, <1>5, UpperHasNul DEF h

\* A word without wildcards has capitals without.
LEMMA FoldedIsPlain ==
  ASSUME NEW s \in Seq(Char), ~ IsWildcard(s) PROVE ~ IsWildcard(ToAsciiUppercase(s))
<1> SUFFICES ASSUME NEW i \in DOMAIN ToAsciiUppercase(s),
                    ToAsciiUppercase(s)[i] \in {Star, Percent}
             PROVE  FALSE
  BY DEF IsWildcard
<1>1. i \in DOMAIN s /\ ToAsciiUppercase(s)[i] = AsciiUpper[s[i]] /\ s[i] \in Char
  BY DEF ToAsciiUppercase
<1>2. AsciiUpper[s[i]] = s[i]
  BY <1>1, CharAssumption
<1> QED
  BY <1>1, <1>2 DEF IsWildcard

\* A spelling of a topic is folded to what is stored of its capitals, which is
\* all of them.
LEMMA SpellingIsKept ==
  ASSUME NEW n \in Tree, IsTopic(n), NEW word \in Spellings(Name[n])
  PROVE  LET u == ToUppercase(Name[n])
         IN  /\ word # <<>> /\ word # <<"?">> /\ Trim(word) = word
             /\ ToAsciiUppercase(word) = u /\ ~ IsWildcard(u)
             /\ NameUpper[n] = u /\ u # <<>>
<1> DEFINE v == Name[n]
           u == ToUppercase(v)
           w == ToUppercase(HeaderName(HeaderLine[n]))
<1>1. /\ v \in Seq(Char) /\ u \in Seq(Char) /\ w \in Seq(Char) /\ UpToNul(w) = u
      /\ NameUpper[n] = FromField(NameField(w)) /\ Len(Bytes(v)) < NAME_FIELD_SIZE
  BY TopicHasCapitals
<1>2. /\ word # <<>> /\ word # <<"?">> /\ Trim(word) = word /\ ~ IsWildcard(word)
      /\ \/ word = v /\ \A i \in DOMAIN v : Width[v[i]] = 1
         \/ word = u /\ Len(Bytes(u)) < NAME_FIELD_SIZE
  BY DEF Spellings
<1>3. n \in Node
  BY DEF Tree
<1> HIDE DEF u, v, w
<1>4. Len(Bytes(u)) < NAME_FIELD_SIZE
  <2>1. CASE word = v /\ \A i \in DOMAIN v : Width[v[i]] = 1
    BY <1>1, <2>1, AsciiUppers DEF u
  <2> QED
    BY <1>2, <2>1
<1>5. NameUpper[n] = u
  BY <1>1, <1>4, FieldReadsBack
<1>6. ToAsciiUppercase(word) = u /\ word \in Seq(Char)
  <2>1. CASE word = v /\ \A i \in DOMAIN v : Width[v[i]] = 1
    BY <1>1, <2>1, AsciiUppers DEF u
  <2>2. CASE word = u
    <3>1. ToAsciiUppercase(NameUpper[n]) = NameUpper[n]
      BY <1>3, NodeAssumption
    <3> QED
      BY <1>1, <1>5, <2>2, <3>1
  <2> QED
    BY <1>2, <2>1, <2>2
<1>7. u # <<>> /\ ~ IsWildcard(u)
  <2>1. ToAsciiUppercase(word) # <<>>
    <3>1. Len(ToAsciiUppercase(word)) = Len(word) /\ ToAsciiUppercase(word) \in Seq(Char)
      BY <1>6, FoldedWord
    <3>2. Len(word) # 0
      BY <1>2, <1>6, EmptySeq
    <3> QED
      BY <3>1, <3>2, EmptySeq
  <2> QED
    BY <1>2, <1>6, <2>1, FoldedIsPlain
<1> QED
  BY <1>2, <1>5, <1>6, <1>7 DEF u, v

\* A topic whose stored capitals are all of an other's, and which is not sorted
\* behind it, has the same ones: longer ones, cut where they fill the field,
\* would be sorted behind those they begin with.
LEMMA StoredAlike ==
  ASSUME NEW n \in Tree, IsTopic(n), NEW c \in Tree, IsTopic(c),
         NameUpper[c] = ToUppercase(Name[n]), NameUpper[c] # <<>>,
         ~ SortedBefore(HeaderLine[n], HeaderLine[c])
  PROVE  ToUppercase(Name[c]) = ToUppercase(Name[n])
<1> DEFINE u == ToUppercase(Name[n])
           x == ToUppercase(Name[c])
           w == ToUppercase(HeaderName(HeaderLine[n]))
           y == ToUppercase(HeaderName(HeaderLine[c]))
<1>1. /\ u \in Seq(Char) /\ w \in Seq(Char) /\ Len(u) <= Len(w)
      /\ \A i \in 1..Len(u) : w[i] = u[i]
      /\ Len(u) < Len(w) => w[Len(u) + 1] = Nul
  BY TopicHasCapitals
<1>2. /\ x \in Seq(Char) /\ y \in Seq(Char) /\ Len(x) <= Len(y)
      /\ \A i \in 1..Len(x) : y[i] = x[i] /\ x[i] # Nul
      /\ UpToNul(y) = x /\ NameUpper[c] = FromField(NameField(y))
  BY TopicHasCapitals
<1>3. ~ Before(w, y)
  BY DEF SortedBefore
<1>4. NameUpper[c] = u /\ u # <<>>
  OBVIOUS
<1> HIDE DEF u, x, w, y
<1>5. PICK rest \in Seq(Char) : x = u \o rest
  BY <1>2, <1>4, FieldHoldsPrefix
<1>6. /\ Len(x) = Len(u) + Len(rest) /\ Len(u) \in Nat /\ Len(rest) \in Nat
      /\ \A i \in 1..Len(u) : x[i] = u[i] /\ i \in 1..Len(x)
  <2>1. Len(u) \in Nat /\ Len(rest) \in Nat
    BY <1>1
  <2>2. /\ Len(u \o rest) = Len(u) + Len(rest)
        /\ \A i \in 1..(Len(u) + Len(rest)) :
             (u \o rest)[i] = IF i <= Len(u) THEN u[i] ELSE rest[i - Len(u)]
    BY <1>1, ConcatProperties
  <2>3. \A i \in 1..Len(u) : i \in 1..(Len(u) + Len(rest)) /\ i <= Len(u)
    BY <2>1
  <2> QED
    BY <1>5, <2>1, <2>2, <2>3
<1>7. \A i \in 1..Len(u) : w[i] = y[i]
  BY <1>1, <1>2, <1>6
<1>8. ASSUME rest # <<>> PROVE FALSE
  <2>1. Len(rest) > 0 /\ Len(u) < Len(x) /\ Len(u) < Len(y) /\ Len(w) \in Nat /\ Len(y) \in Nat
    BY <1>1, <1>2, <1>6, <1>8
  <2>2. CASE Len(w) = Len(u)
    <3>1. Len(w) < Len(y) /\ Len(w) \in 0..Len(w) /\ Len(w) \in 0..Len(y)
      BY <2>1, <2>2
    <3>2. /\ SubSeq(w, 1, Len(w)) \in Seq(Char) /\ Len(SubSeq(w, 1, Len(w))) = Len(w)
          /\ \A i \in 1..Len(w) : SubSeq(w, 1, Len(w))[i] = w[i]
      BY <1>1, <3>1, PrefixProperties
    <3>3. /\ SubSeq(y, 1, Len(w)) \in Seq(Char) /\ Len(SubSeq(y, 1, Len(w))) = Len(w)
          /\ \A i \in 1..Len(w) : SubSeq(y, 1, Len(w))[i] = y[i]
      BY <1>2, <3>1, PrefixProperties
    <3>4. \A i \in 1..Len(w) : SubSeq(w, 1, Len(w))[i] = SubSeq(y, 1, Len(w))[i]
      BY <1>7, <2>2, <3>2, <3>3
    <3>5. SubSeq(w, 1, Len(w)) = SubSeq(y, 1, Len(w))
      BY <3>2, <3>3, <3>4, SeqEqual
    <3>6. IsPrefix(w, y)
      BY <2>1, <3>1, <3>5 DEF IsPrefix
    <3> QED
      BY <1>3, <3>1, <3>6 DEF Before
  <2>3. CASE Len(w) # Len(u)
    <3> DEFINE k == Len(u) + 1
    <3>1. Len(u) < Len(w) /\ k \in 1..Len(w) /\ k \in 1..Len(y) /\ k \in 1..Len(x)
      BY <1>1, <1>2, <1>6, <2>1, <2>3
    <3>2. w[k] = Nul /\ y[k] # Nul /\ y[k] \in Char
      BY <1>1, <1>2, <3>1
    <3>3. CodePoint[w[k]] < CodePoint[y[k]]
      BY <3>2, NamesAssumption
    <3>4. k \in DOMAIN w \cap DOMAIN y
      BY <1>1, <1>2, <3>1
    <3>5. \A i \in 1..(k - 1) : w[i] = y[i]
      <4>1. k - 1 = Len(u)
        BY <1>6
      <4> QED
        BY <1>7, <4>1
    <3> HIDE DEF k
    <3> QED
      BY <1>3, <3>3, <3>4, <3>5 DEF Before
  <2> QED
    BY <2>2, <2>3
<1>9. x = u
  <2>1. u \o <<>> = u
    BY <1>1, ConcatEmptySeq
  <2> QED
    BY <1>5, <1>8, <2>1
<1> QED
  BY <1>9 DEF u, x

\* A spelling of a child finds a child of that name, in either mode: it is equal
\* to what is stored of the name, and what is found comes before it.
LEMMA SpellingLeads ==
  ASSUME NEW from \in Tree, NEW n \in Kids(from), NEW word \in Spellings(Name[n]), NEW mode
  PROVE  \E m \in Kids(from) : /\ Lookup(from, word, mode) = Found(m)
                               /\ ToUppercase(Name[m]) = ToUppercase(Name[n])
<1> DEFINE list == Children[from]
           u == ToUppercase(Name[n])
           S == Equal(list, u)
           m == list[Min(S)]
<1>1. /\ from \in Node /\ list \in Seq(Node)
      /\ \A c \in Kids(from) : c \in Tree /\ IsTopic(c)
  BY TreeIsClosed, NodeAssumption
<1>2. /\ word # <<>> /\ ToAsciiUppercase(word) = u /\ ~ IsWildcard(u)
      /\ NameUpper[n] = u /\ u # <<>>
  BY <1>1, SpellingIsKept
<1> HIDE DEF u, list
<1>3. PICK j \in DOMAIN list : list[j] = n
  BY DEF Kids, ToSet, list
<1>4. S \in SUBSET Nat /\ j \in S
  <2>1. DOMAIN list \subseteq Nat
    BY <1>1
  <2> QED
    BY <1>2, <1>3, <2>1 DEF Equal
<1>5. Min(S) \in S /\ \A i \in S : Min(S) <= i
  <2> HIDE DEF S
  <2> QED
    BY <1>4, MinIsMember
<1>6. Lookup(from, word, mode) = Found(m)
  <2>1. S # {}
    BY <1>4
  <2> QED
    BY <1>2, <2>1 DEF Lookup, LookupIn, LookupWord, list
<1>7. m \in Kids(from) /\ NameUpper[m] = u
  BY <1>5 DEF Equal, Kids, ToSet, list
<1>8. ToUppercase(Name[m]) = u
  <2>1. CASE Min(S) = j
    BY <1>3, <2>1 DEF u
  <2>2. CASE Min(S) # j
    <3>1. Min(S) < j /\ Min(S) \in DOMAIN list /\ j \in DOMAIN list
      <4>1. Min(S) <= j /\ Min(S) \in Nat /\ j \in Nat
        BY <1>4, <1>5
      <4>2. Min(S) \in DOMAIN list
        BY <1>5 DEF Equal
      <4> HIDE DEF S
      <4> QED
        BY <1>3, <2>2, <4>1, <4>2
    <3>2. ~ SortedBefore(HeaderLine[n], HeaderLine[m])
      BY <1>1, <1>3, <3>1, PythonAssumption DEF list
    <3>3. n \in Tree /\ IsTopic(n) /\ m \in Tree /\ IsTopic(m)
      BY <1>1, <1>7
    <3> HIDE DEF m, S
    <3> QED
      BY <1>2, <1>7, <3>2, <3>3, StoredAlike DEF u
  <2> QED
    BY <2>1, <2>2
<1> HIDE DEF m, S
<1> QED
  BY <1>6, <1>7, <1>8 DEF u
-----------------------------------------------------------------------------
(***************************************************************************)
(* What the methods return                                                 *)
(***************************************************************************)

\* Results are about topics of the trees, and hold their names.
Copied ==
  /\ result.topics \subseteq {ExtractTopic(n) : n \in Tree}
  /\ result.names \subseteq WrittenNames

\* A result of such topics and names is one.
LEMMA ResultIsCopied ==
  ASSUME NEW kind, NEW topics \in SUBSET Tree, NEW names \in SUBSET WrittenNames,
         NEW of, NEW path, NEW mode, result' = Result(kind, topics, names, of, path, mode)
  PROVE  Copied'
<1>1. result'.topics = {ExtractTopic(n) : n \in topics} /\ result'.names = names
  BY DEF Result
<1> QED
  BY <1>1 DEF Copied

\* A Navigator is in a tree that is built.
LEMMA NavigatorIsInTree ==
  ASSUME PInv, NEW n \in NavObj, nav[n] # None
  PROVE  /\ Descent(nav[n].stack) /\ nav[n].stack[1] \in Tree
         /\ Last(nav[n].stack) \in Tree
<1>1. Stands(n) /\ nav[n].library \in LibObj /\ Refers(n, nav[n].library)
  BY DEF PInv, ObjectsOK, NavigatorObject, Refers
<1>2. library[nav[n].library] \in LibraryObject
  BY <1>1 DEF PInv, Counted, InUse, ObjectsOK
<1>3. Descent(nav[n].stack) /\ nav[n].stack[1] \in Tree
  BY <1>1, <1>2, TreeIsClosed DEF Stands, LibraryObject
<1>4. Len(nav[n].stack) \in 1..Len(nav[n].stack)
  BY <1>3 DEF Descent
<1> QED
  BY <1>3, <1>4, DescentStays DEF Last

\* An answer of input() names children of the place; where it goes to one of
\* them, it names that one, and else the Navigator stays if it names any.
LEMMA AnswerNodes ==
  ASSUME NEW stack, Descent(stack), NEW line, NEW mode
  PROVE  LET a == Answer(stack, line, mode)
         IN  /\ a.nodes \subseteq Kids(Last(stack))
             /\ a.kind = "display_topic" \/ a.nodes = {} \/ a.stack = stack
<1> DEFINE word == Trim(line)
           here == Last(stack)
           r == Lookup(here, word, mode)
           a == Answer(stack, line, mode)
<1>1. here \in Node
  BY DEF Descent, Last
<1>2. /\ r.kind \in {"Found", "Ambiguous", "NotFound"}
      /\ r.kind = "Ambiguous" => r.nodes \subseteq Kids(here)
      /\ r.kind = "Found" => r.node \in Kids(here)
  BY <1>1, LookupOffersChildren, LookupFindsChild
<1>3. CASE word = <<>>
  <2>1. CASE Len(stack) = 1
    BY <1>3, <2>1 DEF Answer
  <2>2. CASE Len(stack) # 1
    <3>1. Len(stack) > 1 /\ ~ (Len(stack) = 1)
      <4>1. Len(stack) \in Nat /\ Len(stack) >= 1
        BY DEF Descent
      <4>2. \A k \in Nat : k >= 1 /\ k # 1 => k > 1
        OBVIOUS
      <4> QED
        BY <2>2, <4>1, <4>2
    <3> QED
      BY <1>3, <3>1 DEF Answer
  <2> QED
    BY <2>1, <2>2
<1>4. CASE word = <<"?">>
  BY <1>4 DEF Answer
<1>5. CASE word # <<>> /\ word # <<"?">>
  <2>1. CASE r.kind = "Found"
    BY <1>2, <1>5, <2>1 DEF Answer
  <2>2. CASE r.kind = "NotFound"
    BY <1>5, <2>2 DEF Answer
  <2>3. CASE r.kind = "Ambiguous"
    BY <1>2, <1>5, <2>3 DEF Answer
  <2> QED
    BY <1>2, <2>1, <2>2, <2>3
<1> QED
  BY <1>3, <1>4, <1>5

\* So an answer is about topics of the tree.
LEMMA AnswerStays ==
  ASSUME NEW stack, Descent(stack), stack[1] \in Tree, NEW line, NEW mode
  PROVE  LET a == Answer(stack, line, mode)
         IN  /\ a.nodes \subseteq {n \in Tree : IsTopic(n)}
             /\ Last(a.stack) \in Tree
<1> DEFINE a == Answer(stack, line, mode)
<1>1. Descent(a.stack) /\ a.stack[1] \in Tree
  BY AnswerIsDescent
<1>2. \A s : Descent(s) /\ s[1] \in Tree => Last(s) \in Tree
  <2> SUFFICES ASSUME NEW s, Descent(s), s[1] \in Tree PROVE Last(s) \in Tree
    OBVIOUS
  <2>1. Len(s) \in 1..Len(s)
    BY DEF Descent
  <2> QED
    BY <2>1, DescentStays DEF Last
<1>3. Kids(Last(stack)) \subseteq {n \in Tree : IsTopic(n)}
  BY <1>2, TreeIsClosed
<1>4. a.nodes \subseteq Kids(Last(stack))
  BY AnswerNodes
<1> HIDE DEF a
<1> QED
  BY <1>1, <1>2, <1>3, <1>4 DEF a

\* Whatever is read from a library is of its tree.
LEMMA LibraryReads ==
  ASSUME PInv, NEW l \in LibObj,
         \/ RootTopicsOf(l)
         \/ \E path \in Path, mode \in MatchMode :
              LibraryLookup(l, path, mode) \/ LibraryChildren(l, path, mode)
  PROVE  Copied'
<1> DEFINE root == library[l].root
<1>1. root \in Tree
  <2>1. l \in held
    BY DEF RootTopicsOf, LibraryLookup, LibraryChildren
  <2>2. library[l] \in LibraryObject
    BY <2>1 DEF PInv, Counted, InUse, ObjectsOK
  <2> QED
    BY <2>2, TreeIsClosed DEF LibraryObject
<1> HIDE DEF root
<1>2. NamesOf(Kids(root)) \subseteq WrittenNames
  BY <1>1, TreeIsClosed
<1>3. ASSUME RootTopicsOf(l) PROVE Copied'
  <2>1. result' = Result("children", {}, NamesOf(Kids(root)), l, <<>>, Abbreviation)
    BY <1>3 DEF RootTopicsOf, root
  <2> QED
    BY <1>2, <2>1, ResultIsCopied
<1>4. ASSUME NEW path \in Path, NEW mode \in MatchMode,
             LibraryLookup(l, path, mode) \/ LibraryChildren(l, path, mode)
      PROVE  Copied'
  <2> DEFINE r == Resolve(root, path, mode)
  <2>1. r.kind = "Found" => r.node \in Tree /\ NamesOf(Kids(r.node)) \subseteq WrittenNames
    <3>1. path \in Seq(Seq(Char))
      BY PythonAssumption
    <3> QED
      BY <1>1, <3>1, ResolveStays, TreeIsClosed
  <2> HIDE DEF r
  <2>2. CASE LibraryLookup(l, path, mode)
    <3>1. result' = IF r.kind = "Found"
                    THEN Result("topic", {r.node}, NamesOf(Kids(r.node)), l, path, mode)
                    ELSE Result("None", {}, {}, None, <<>>, Exact)
      BY <2>2 DEF LibraryLookup, Returned, root, r
    <3>2. CASE r.kind = "Found"
      <4>1. /\ result' = Result("topic", {r.node}, NamesOf(Kids(r.node)), l, path, mode)
            /\ {r.node} \in SUBSET Tree /\ NamesOf(Kids(r.node)) \in SUBSET WrittenNames
        BY <2>1, <3>1, <3>2
      <4> QED
        BY <4>1, ResultIsCopied
    <3>3. CASE r.kind # "Found"
      BY <3>1, <3>3, ResultIsCopied
    <3> QED
      BY <3>2, <3>3
  <2>3. CASE LibraryChildren(l, path, mode)
    <3> DEFINE names == CASE path = <<>> -> NamesOf(Kids(root))
                          [] path # <<>> /\ r.kind = "Found" -> NamesOf(Kids(r.node))
                          [] OTHER -> {}
    <3>1. result' = Result("children", {}, names, l, path, mode)
      BY <2>3 DEF LibraryChildren, root, r
    <3>2. names \subseteq WrittenNames
      <4>1. CASE path = <<>>
        BY <1>2, <4>1
      <4>2. CASE path # <<>> /\ r.kind = "Found"
        BY <2>1, <4>2
      <4>3. CASE path # <<>> /\ r.kind # "Found"
        BY <4>3
      <4> QED
        BY <4>1, <4>2, <4>3
    <3> HIDE DEF names
    <3> QED
      BY <3>1, <3>2, ResultIsCopied
  <2> QED
    BY <1>4, <2>2, <2>3
<1> QED
  BY <1>3, <1>4

\* Every step leaves copies from the trees that are built.
LEMMA StepKeepsCopies ==
  ASSUME PInv, Copied, [Next]_vars PROVE Copied'
<1>1. CASE UNCHANGED result
  BY <1>1 DEF Copied
<1>2. ASSUME NEW kind, result' = Result(kind, {}, {}, None, <<>>, Exact) PROVE Copied'
  BY <1>2, ResultIsCopied
<1>3. result' = Returned => Copied'
  BY <1>2 DEF Returned
<1>4. LibraryNewRaises => Copied'
  BY <1>2 DEF LibraryNewRaises, Raised
<1>5. ASSUME NEW l \in LibObj, NEW root \in Built, LibraryNew(l, root) PROVE Copied'
  BY <1>3, <1>5 DEF LibraryNew
<1>6. ASSUME NEW l \in LibObj, LibraryDel(l) PROVE Copied'
  BY <1>1, <1>6 DEF LibraryDel
<1>7. ASSUME NEW l \in LibObj,
             \/ RootTopicsOf(l)
             \/ \E path \in Path, mode \in MatchMode :
                  LibraryLookup(l, path, mode) \/ LibraryChildren(l, path, mode)
      PROVE  Copied'
  BY <1>7, LibraryReads
<1>8. ASSUME NEW l \in LibObj, NEW n \in NavObj, NavigatorNew(n, l) PROVE Copied'
  BY <1>3, <1>8 DEF NavigatorNew
<1>9. ASSUME NEW n \in NavObj, NavigatorDel(n) \/ NavigatorGoUp(n) \/ NavigatorReset(n)
      PROVE  Copied'
  BY <1>1, <1>3, <1>9 DEF NavigatorDel, NavigatorGoUp, NavigatorReset
<1>10. ASSUME NEW n \in NavObj, NEW line \in Line, NEW mode \in MatchMode,
              NavigatorInput(n, line, mode)
       PROVE  Copied'
  <2> DEFINE a == Answer(nav[n].stack, line, mode)
  <2>1. nav[n] # None /\ result' = Converted(n, a)
    BY <1>10 DEF NavigatorInput
  <2>2. Descent(nav[n].stack) /\ nav[n].stack[1] \in Tree
    BY <2>1, NavigatorIsInTree
  <2>3. a.nodes \subseteq {m \in Tree : IsTopic(m)} /\ Last(a.stack) \in Tree
    BY <2>2, AnswerStays
  <2> HIDE DEF a
  <2>4. NamesOf(a.nodes) \subseteq WrittenNames
    BY <2>3 DEF NamesOf, WrittenNames
  <2>5. NamesOf(Kids(Last(a.stack))) \subseteq WrittenNames /\ a.nodes \subseteq Tree
    BY <2>3, TreeIsClosed
  <2>6. \E topics \in SUBSET Tree, names \in SUBSET WrittenNames :
          Converted(n, a) = Result(a.kind, topics, names, n, <<>>, Exact)
    <3>1. CASE a.kind = "display_topic"
      BY <2>5, <3>1 DEF Converted
    <3>2. CASE a.kind = "display_multiple"
      BY <2>5, <3>2 DEF Converted
    <3>3. CASE a.kind # "display_topic" /\ a.kind # "display_multiple"
      <4>1. Converted(n, a) = Result(a.kind, {}, NamesOf(a.nodes), n, <<>>, Exact)
        BY <3>3 DEF Converted
      <4> QED
        BY <2>4, <4>1
    <3> QED
      BY <3>1, <3>2, <3>3
  <2> QED
    BY <2>1, <2>6, ResultIsCopied
<1>11. UNCHANGED vars => Copied'
  BY <1>1 DEF vars
<1> QED
  BY <1>4, <1>5, <1>6, <1>7, <1>8, <1>9, <1>10, <1>11 DEF Next

\* At first nothing has been read.
LEMMA NothingIsCopied == Init => Copied
BY DEF Init, Returned, Result, Copied

\* Objects are what they should be, and a Topic has a level of the format.
THEOREM PythonTypeCorrect == Spec => []TypeOK
<1>1. PInv /\ Copied => TypeOK
  <2> SUFFICES ASSUME PInv, Copied PROVE TypeOK
    OBVIOUS
  <2>1. /\ \A l \in LibObj : InUse(l) => library[l].root \in Built
        /\ held \subseteq {l \in LibObj : InUse(l)}
    BY DEF PInv, ObjectsOK, Counted, InUse, LibraryObject
  <2>2. \A n \in NavObj : nav[n] # None =>
          nav[n].library \in LibObj /\ nav[n].stack \in Seq(Node) \ {<<>>}
    BY DEF PInv, ObjectsOK, NavigatorObject, Stands, Descent
  <2>3. \A n \in Node : Name[n] \in Seq(Char)
    BY PythonAssumption
  <2>4. result.names \subseteq Seq(Char)
    BY <2>3, TreeIsClosed DEF Copied, WrittenNames
  <2>5. ASSUME NEW t \in result.topics
        PROVE  t \in [name : Seq(Char), level : 0..9, children : SUBSET Seq(Char)]
    <3>1. PICK n \in Tree : t = ExtractTopic(n)
      BY <2>5 DEF Copied
    <3>2. n \in Node /\ NamesOf(Kids(n)) \subseteq WrittenNames
      BY TreeIsClosed
    <3>3. NamesOf(Kids(n)) \subseteq Seq(Char)
      BY <2>3, <3>2, TreeIsClosed DEF WrittenNames
    <3>4. Name[n] \in Seq(Char) /\ Level(n) \in 0..9
      BY <2>3, <3>2, LevelsGrow
    <3> QED
      BY <3>1, <3>3, <3>4 DEF ExtractTopic
  <2> QED
    BY <2>1, <2>2, <2>4, <2>5 DEF TypeOK
<1>2. PInv /\ Copied /\ [Next]_vars => PInv' /\ Copied'
  BY StepKeepsObjects, StepKeepsCopies
<1>3. Init => PInv /\ Copied
  BY InitObjects, NothingIsCopied
<1> QED
  BY <1>1, <1>2, <1>3, PTL DEF Spec

\* Every name that Python gets is that of a header line, whole as far as a NUL:
\* what parse() lets pass, make_name_field() does not cut.
THEOREM NamesStayAsWritten == Spec => []NamesAsWritten
<1>1. Copied => NamesAsWritten
  <2> SUFFICES ASSUME Copied,
                      NEW name \in result.names
                            \cup {t.name : t \in {u \in result.topics : u.level > 0}}
               PROVE  \E n \in Node : IsTopic(n) /\ name = UpToNul(HeaderName(HeaderLine[n]))
    BY DEF NamesAsWritten
  <2>1. PICK n \in Tree : IsTopic(n) /\ name = Name[n]
    <3>1. CASE name \in result.names
      BY <3>1 DEF Copied, WrittenNames
    <3>2. CASE name \in {t.name : t \in {u \in result.topics : u.level > 0}}
      <4>1. PICK t \in result.topics : t.level > 0 /\ name = t.name
        BY <3>2
      <4>2. PICK n \in Tree : t = ExtractTopic(n)
        BY <4>1 DEF Copied
      <4>3. Level(n) > 0 /\ name = Name[n]
        BY <4>1, <4>2 DEF ExtractTopic
      <4>4. IsTopic(n)
        BY <4>3 DEF Level
      <4> QED
        BY <4>3, <4>4
    <3> QED
      BY <3>1, <3>2
  <2> QED
    BY <2>1, TreeIsWritten
<1>2. PInv /\ Copied /\ [Next]_vars => PInv' /\ Copied'
  BY StepKeepsObjects, StepKeepsCopies
<1>3. Init => PInv /\ Copied
  BY InitObjects, NothingIsCopied
<1> QED
  BY <1>1, <1>2, <1>3, PTL DEF Spec
-----------------------------------------------------------------------------
(***************************************************************************)
(* What the methods offer                                                  *)
(***************************************************************************)

\* What a result offers are names of the children of the place it is about: the
\* one where the Navigator still is, or to which the path still leads.
OffersAt(names, from) == names \subseteq NamesOf(Kids(from))
Offered ==
  result.names # {} =>
    /\ \A n \in NavObj : result.of = n =>
         nav[n] # None /\ OffersAt(result.names, Last(nav[n].stack))
    /\ \A l \in held : result.of = l =>
         \E from \in Tree : /\ Resolve(library[l].root, result.path, result.mode) = Found(from)
                            /\ OffersAt(result.names, from)

\* What input() offers are children of the place where it leaves the Navigator.
LEMMA AnswerOffers ==
  ASSUME NEW n, NEW stack, Descent(stack), stack[1] \in Tree, NEW line, NEW mode
  PROVE  LET a == Answer(stack, line, mode)
         IN  OffersAt(Converted(n, a).names, Last(a.stack)) /\ Converted(n, a).of = n
<1> DEFINE a == Answer(stack, line, mode)
<1>1. a.kind = "display_topic" \/ a.nodes \subseteq Kids(Last(a.stack))
  BY AnswerNodes
<1> HIDE DEF a
<1>2. OffersAt(Converted(n, a).names, Last(a.stack)) /\ Converted(n, a).of = n
  <2>1. CASE a.kind = "display_topic"
    <3>1. /\ Converted(n, a).names = NamesOf(Kids(Last(a.stack)))
          /\ Converted(n, a).of = n
      BY <2>1 DEF Converted, Result
    <3> QED
      BY <3>1 DEF OffersAt
  <2>2. CASE a.kind = "display_multiple"
    <3>1. Converted(n, a).names = {} /\ Converted(n, a).of = n
      BY <2>2 DEF Converted, Result
    <3> QED
      BY <3>1 DEF OffersAt
  <2>3. CASE a.kind # "display_topic" /\ a.kind # "display_multiple"
    <3>1. Converted(n, a) = Result(a.kind, {}, NamesOf(a.nodes), n, <<>>, Exact)
      BY <2>3 DEF Converted
    <3>2. Converted(n, a).names = NamesOf(a.nodes) /\ Converted(n, a).of = n
      BY <3>1 DEF Result
    <3> QED
      BY <1>1, <2>3, <3>2 DEF OffersAt, NamesOf
  <2> QED
    BY <2>1, <2>2, <2>3
<1> QED
  BY <1>2 DEF a

\* A result without names offers nothing.
LEMMA NothingOffered ==
  ASSUME NEW kind, NEW of, result' = Result(kind, {}, {}, of, <<>>, Exact)
  PROVE  Offered'
BY DEF Offered, Result

\* What a library is asked for, its path leads to.
LEMMA LibraryOffers ==
  ASSUME PInv, NEW l \in LibObj,
         \/ RootTopicsOf(l)
         \/ \E path \in Path, mode \in MatchMode :
              LibraryLookup(l, path, mode) \/ LibraryChildren(l, path, mode)
  PROVE  Offered'
<1> DEFINE root == library[l].root
<1>1. root \in Tree /\ root \in Node
  <2>1. l \in held
    BY DEF RootTopicsOf, LibraryLookup, LibraryChildren
  <2>2. library[l] \in LibraryObject
    BY <2>1 DEF PInv, Counted, InUse, ObjectsOK
  <2> QED
    BY <2>2, TreeIsClosed DEF LibraryObject
<1>2. l \notin NavObj /\ UNCHANGED <<library, held, nav>>
  BY PythonAssumption DEF RootTopicsOf, LibraryLookup, LibraryChildren
<1>3. ASSUME NEW kind, NEW topics, NEW names, NEW path, NEW mode, NEW from \in Tree,
             result' = Result(kind, topics, names, l, path, mode),
             Resolve(root, path, mode) = Found(from), OffersAt(names, from)
      PROVE  Offered'
  <2>1. /\ result'.names = names /\ result'.of = l /\ result'.path = path
        /\ result'.mode = mode
    BY <1>3 DEF Result
  <2> QED
    BY <1>2, <1>3, <2>1 DEF Offered, OffersAt
<1>4. ASSUME NEW kind, NEW topics, NEW of, NEW path, NEW mode,
             result' = Result(kind, topics, {}, of, path, mode)
      PROVE  Offered'
  BY <1>4 DEF Offered, Result
<1>5. \A mode : Resolve(root, <<>>, mode) = Found(root)
  BY <1>1, ResolveEmpty
<1>6. \A n \in Tree : OffersAt(NamesOf(Kids(n)), n)
  BY DEF OffersAt
<1> HIDE DEF root
<1>7. ASSUME RootTopicsOf(l) PROVE Offered'
  <2>1. result' = Result("children", {}, NamesOf(Kids(root)), l, <<>>, Abbreviation)
    BY <1>7 DEF RootTopicsOf, root
  <2> QED
    BY <1>1, <1>3, <1>5, <1>6, <2>1
<1>8. ASSUME NEW path \in Path, NEW mode \in MatchMode,
             LibraryLookup(l, path, mode) \/ LibraryChildren(l, path, mode)
      PROVE  Offered'
  <2> DEFINE r == Resolve(root, path, mode)
  <2>1. r.kind = "Found" => r.node \in Tree /\ r = Found(r.node)
    <3>1. path \in Seq(Seq(Char))
      BY PythonAssumption
    <3>2. r.kind = "Found" => r.node \in Tree
      BY <1>1, <3>1, ResolveStays
    <3>3. r.kind = "Found" => r = Found(r.node)
      <4>1. Outcome(r, Node, Len(path))
        BY <1>1, <3>1, ResolveOutcome
      <4> HIDE DEF r
      <4> QED
        BY <4>1, FailureIsNoFind DEF Outcome
    <3> QED
      BY <3>2, <3>3
  <2> HIDE DEF r
  <2>2. CASE LibraryLookup(l, path, mode)
    <3>1. result' = IF r.kind = "Found"
                    THEN Result("topic", {r.node}, NamesOf(Kids(r.node)), l, path, mode)
                    ELSE Result("None", {}, {}, None, <<>>, Exact)
      BY <2>2 DEF LibraryLookup, Returned, root, r
    <3>2. CASE r.kind = "Found"
      <4>1. result' = Result("topic", {r.node}, NamesOf(Kids(r.node)), l, path, mode)
        BY <3>1, <3>2
      <4> QED
        BY <1>3, <1>6, <2>1, <3>2, <4>1 DEF r
    <3>3. CASE r.kind # "Found"
      BY <1>4, <3>1, <3>3
    <3> QED
      BY <3>2, <3>3
  <2>3. CASE LibraryChildren(l, path, mode)
    <3> DEFINE names == CASE path = <<>> -> NamesOf(Kids(root))
                          [] path # <<>> /\ r.kind = "Found" -> NamesOf(Kids(r.node))
                          [] OTHER -> {}
    <3>1. result' = Result("children", {}, names, l, path, mode)
      BY <2>3 DEF LibraryChildren, root, r
    <3>2. CASE path = <<>>
      <4>1. names = NamesOf(Kids(root))
        BY <3>2
      <4> HIDE DEF names
      <4> QED
        BY <1>1, <1>3, <1>5, <1>6, <3>1, <3>2, <4>1
    <3>3. CASE path # <<>> /\ r.kind = "Found"
      <4>1. names = NamesOf(Kids(r.node))
        BY <3>3
      <4> HIDE DEF names
      <4> QED
        BY <1>3, <1>6, <2>1, <3>1, <3>3, <4>1 DEF r
    <3>4. CASE path # <<>> /\ r.kind # "Found"
      <4>1. names = {}
        BY <3>4
      <4> HIDE DEF names
      <4> QED
        BY <1>4, <3>1, <4>1
    <3> QED
      BY <3>2, <3>3, <3>4
  <2> QED
    BY <1>8, <2>2, <2>3
<1> QED
  BY <1>7, <1>8

\* Dropping an object leaves what is offered by those that stay.
LEMMA DroppingKeepsOffers ==
  ASSUME PInv, Offered, held' \subseteq held, result' = result,
         \A n \in NavObj : result.of = n => nav'[n] = nav[n],
         library' = Freed(held', nav')
  PROVE  Offered'
<1>1. \A l \in held' : library'[l] = library[l]
  BY DEF Freed, PInv, ObjectsOK
<1> QED
  BY <1>1 DEF Offered, OffersAt

\* Every step leaves an offer that stands.
LEMMA StepKeepsOffers ==
  ASSUME PInv, Offered, [Next]_vars PROVE Offered'
<1>1. result' = Returned \/ result' = Raised => Offered'
  BY NothingOffered DEF Returned, Raised
<1>2. UNCHANGED vars => Offered'
  BY DEF vars, Offered, OffersAt
<1>3. ASSUME NEW l \in LibObj, LibraryDel(l) PROVE Offered'
  BY <1>3, DroppingKeepsOffers DEF LibraryDel
<1>4. ASSUME NEW n \in NavObj, NavigatorDel(n) PROVE Offered'
  <2>1. /\ nav' = [nav EXCEPT ![n] = None] /\ library' = Freed(held, nav') /\ held' = held
        /\ result' = IF result.of = n THEN Returned ELSE result
    BY <1>4 DEF NavigatorDel
  <2>2. CASE result.of = n
    BY <1>1, <2>1, <2>2
  <2>3. CASE result.of # n
    <3>1. \A m \in NavObj : result.of = m => nav'[m] = nav[m]
      BY <2>1, <2>3 DEF PInv, ObjectsOK
    <3>2. result' = result /\ held' \subseteq held /\ library' = Freed(held', nav')
      BY <2>1, <2>3
    <3> QED
      BY <3>1, <3>2, DroppingKeepsOffers
  <2> QED
    BY <2>2, <2>3
<1>5. ASSUME NEW l \in LibObj,
             \/ RootTopicsOf(l)
             \/ \E path \in Path, mode \in MatchMode :
                  LibraryLookup(l, path, mode) \/ LibraryChildren(l, path, mode)
      PROVE  Offered'
  BY <1>5, LibraryOffers
<1>6. ASSUME NEW n \in NavObj, NEW line \in Line, NEW mode \in MatchMode,
             NavigatorInput(n, line, mode)
      PROVE  Offered'
  <2> DEFINE a == Answer(nav[n].stack, line, mode)
  <2>1. /\ nav[n] # None /\ nav' = [nav EXCEPT ![n].stack = a.stack]
        /\ result' = Converted(n, a)
    BY <1>6 DEF NavigatorInput
  <2>2. OffersAt(Converted(n, a).names, Last(a.stack)) /\ Converted(n, a).of = n
    BY <2>1, NavigatorIsInTree, AnswerOffers
  <2> HIDE DEF a
  <2>3. nav[n] \in NavigatorObject /\ nav \in [NavObj -> NavigatorObject \cup {None}]
    BY <2>1 DEF PInv, ObjectsOK
  <2>4. nav'[n] # None /\ nav'[n].stack = a.stack
    BY <2>1, <2>3 DEF NavigatorObject, None
  <2>5. n \notin held'
    BY <1>6, PythonAssumption DEF PInv, ObjectsOK, NavigatorInput
  <2> QED
    BY <2>1, <2>2, <2>4, <2>5 DEF Offered, OffersAt
<1>7. ASSUME \/ LibraryNewRaises
             \/ \E l \in LibObj : \E root \in Built : LibraryNew(l, root)
             \/ \E l \in LibObj, n \in NavObj : NavigatorNew(n, l)
             \/ \E n \in NavObj : NavigatorGoUp(n) \/ NavigatorReset(n)
      PROVE  Offered'
  BY <1>1, <1>7 DEF LibraryNewRaises, LibraryNew, NavigatorNew, NavigatorGoUp, NavigatorReset
<1> QED
  BY <1>2, <1>3, <1>4, <1>5, <1>6, <1>7 DEF Next

\* Every name that Python is offered leads on to a topic of that name.
THEOREM OfferedNamesAlwaysLeadOn == Spec => []OfferedNamesLeadOn
<1>1. PInv /\ Offered => OfferedNamesLeadOn
  <2> SUFFICES ASSUME PInv, Offered, result.of \in NavObj \cup held,
                      NEW name \in result.names, NEW word \in Spellings(name),
                      NEW mode \in MatchMode
               PROVE  \E n \in LedTo(word, mode) : ToUppercase(Name[n]) = ToUppercase(name)
    BY DEF OfferedNamesLeadOn
  <2>1. ASSUME NEW from \in Tree, OffersAt(result.names, from)
        PROVE  /\ word # <<>> /\ word # <<"?">> /\ Trim(word) = word
               /\ \E m : /\ Lookup(from, word, mode) = Found(m)
                         /\ ToUppercase(Name[m]) = ToUppercase(name)
    <3>1. PICK n \in Kids(from) : name = Name[n]
      BY <2>1 DEF OffersAt, NamesOf
    <3>2. n \in Tree /\ IsTopic(n)
      BY <3>1, TreeIsClosed
    <3> QED
      BY <3>1, <3>2, SpellingIsKept, SpellingLeads
  <2>2. CASE result.of \in NavObj
    <3> DEFINE o == result.of
               stack == nav[o].stack
    <3>1. nav[o] # None /\ OffersAt(result.names, Last(stack))
      BY <2>2 DEF Offered
    <3>2. Last(stack) \in Tree
      BY <2>2, <3>1, NavigatorIsInTree
    <3>3. /\ word # <<>> /\ word # <<"?">> /\ Trim(word) = word
      BY <2>1, <3>1, <3>2
    <3>4. PICK m : /\ Lookup(Last(stack), word, mode) = Found(m)
                   /\ ToUppercase(Name[m]) = ToUppercase(name)
      BY <2>1, <3>1, <3>2
    <3> DEFINE a == Answer(stack, word, mode)
    <3>5. a.kind = "display_topic" /\ a.nodes = {m}
      <4>1. Found(m).kind = "Found" /\ Found(m).node = m
        BY DEF Found
      <4> QED
        BY <3>3, <3>4, <4>1 DEF Answer
    <3>6. LedTo(word, mode) = IF a.kind = "display_topic" THEN a.nodes ELSE {}
      BY <2>2 DEF LedTo
    <3> HIDE DEF a
    <3> QED
      BY <3>4, <3>5, <3>6
  <2>3. CASE result.of \notin NavObj
    <3> DEFINE o == result.of
               where == Resolve(library[o].root, result.path, result.mode)
    <3>1. PICK from \in Tree : where = Found(from) /\ OffersAt(result.names, from)
      BY <2>3 DEF Offered
    <3>2. PICK m : /\ Lookup(from, word, mode) = Found(m)
                   /\ ToUppercase(Name[m]) = ToUppercase(name)
      BY <2>1, <3>1
    <3>3. LedTo(word, mode) = LET r == Lookup(where.node, word, mode)
                              IN  IF r.kind = "Found" THEN {r.node} ELSE {}
      BY <2>3 DEF LedTo
    <3> HIDE DEF where
    <3>4. LedTo(word, mode) = {m}
      BY <3>1, <3>2, <3>3 DEF Found
    <3> QED
      BY <3>2, <3>4
  <2> QED
    BY <2>2, <2>3
<1>2. PInv /\ Offered /\ [Next]_vars => PInv' /\ Offered'
  BY StepKeepsObjects, StepKeepsOffers
<1>3. Init => PInv /\ Offered
  BY InitObjects DEF Init, Offered, Returned, Result
<1> QED
  BY <1>1, <1>2, <1>3, PTL DEF Spec
=============================================================================
