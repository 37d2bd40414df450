------------------------------ MODULE FfiProofs -----------------------------
(***************************************************************************)
(* What holds of the handles and messages of the C interface for any       *)
(* number of threads, files, handles and strings, and for every tree.      *)
(***************************************************************************)
EXTENDS Ffi, EngineProofs

Open == [file : File, root : Node]
Standing == [lib : Lib, stack : Seq(Node)]

\* Handles are live or they are not.
HandlesOK ==
  /\ disk \in [File -> {Absent, Broken} \cup Built]
  /\ library \in [Lib -> Open \cup {None}]
  /\ nav \in [Nav -> Standing \cup {None}]

\* A stack is a walk down from the root of a library that is open.
Stands(n) ==
  /\ library[nav[n].lib] # None
  /\ Descent(nav[n].stack)
  /\ nav[n].stack[1] = library[nav[n].lib].root

HInv == HandlesOK /\ \A n \in Nav : nav[n] # None => Stands(n)
-----------------------------------------------------------------------------
\* What a build leaves in a file is the root of a tree.
LEMMA BuiltAreNodes == Built \subseteq Node
  BY FfiAssumption

\* At first no handle is in use.
LEMMA InitHandles == Init => HInv
  BY DEF Init, HInv, HandlesOK, Stands

\* A file opens into a handle that was free, which no navigator looks into.
LEMMA OpenKeepsHandles ==
  ASSUME HInv, NEW t \in Thread, NEW f \in File, LibraryOpen(t, f) PROVE HInv'
<1>1. disk' = disk /\ nav' = nav
  BY DEF LibraryOpen
<1>2. CASE UNCHANGED library
  BY <1>1, <1>2 DEF HInv, HandlesOK, Stands
<1>3. CASE ~ UNCHANGED library
  <2> DEFINE new == [file |-> f, root |-> disk[f]]
  <2>1. disk[f] # Absent /\ disk[f] # Broken
    BY <1>3 DEF LibraryOpen
  <2>2. PICK l \in Lib : library[l] = None /\ library' = [library EXCEPT ![l] = new]
    BY <1>3, <2>1 DEF LibraryOpen
  <2>3. new \in Open
    BY <2>1, BuiltAreNodes DEF HInv, HandlesOK, Open
  <2> HIDE DEF new
  <2>4. HandlesOK' /\ \A m \in Lib \ {l} : library'[m] = library[m]
    BY <1>1, <2>2, <2>3 DEF HInv, HandlesOK
  <2>5. ASSUME NEW n \in Nav, nav[n] # None PROVE Stands(n)'
    <3>1. Stands(n) /\ nav[n].lib \in Lib
      BY <2>5 DEF HInv, HandlesOK, Standing
    <3>2. nav[n].lib # l
      BY <2>2, <3>1 DEF Stands
    <3> QED
      BY <1>1, <2>4, <3>1, <3>2 DEF Stands
  <2> QED
    BY <1>1, <2>4, <2>5 DEF HInv
<1> QED
  BY <1>2, <1>3

\* A library closes when no navigator looks into it any more.
LEMMA CloseKeepsHandles ==
  ASSUME HInv, NEW l \in Lib, LibraryClose(l) PROVE HInv'
<1>1. /\ library' = [library EXCEPT ![l] = None] /\ disk' = disk /\ nav' = nav
      /\ \A n \in Nav : nav[n] # None => nav[n].lib # l
  BY DEF LibraryClose
<1>2. HandlesOK' /\ \A m \in Lib \ {l} : library'[m] = library[m]
  BY <1>1 DEF HInv, HandlesOK
<1>3. ASSUME NEW n \in Nav, nav[n] # None PROVE Stands(n)'
  <2>1. Stands(n) /\ nav[n].lib \in Lib \ {l}
    BY <1>1, <1>3 DEF HInv, HandlesOK, Standing
  <2> QED
    BY <1>1, <1>2, <2>1 DEF Stands
<1> QED
  BY <1>1, <1>2, <1>3 DEF HInv

\* The three things a call does to one navigator
LEMMA NavigatorSteps ==
  ASSUME HInv, NEW n \in Nav, UNCHANGED <<disk, library>>,
         \/ \E l \in Lib : /\ library[l] # None
                           /\ nav' = [nav EXCEPT ![n] = [lib |-> l,
                                                         stack |-> <<library[l].root>>]]
         \/ nav' = [nav EXCEPT ![n] = None]
         \/ \E s : /\ nav[n] # None /\ Descent(s) /\ s[1] = nav[n].stack[1]
                   /\ Moves(n, s)
  PROVE  HInv'
<1>1. ASSUME NEW new \in Standing \cup {None}, nav' = [nav EXCEPT ![n] = new],
             new # None => /\ library[new.lib] # None /\ Descent(new.stack)
                           /\ new.stack[1] = library[new.lib].root
      PROVE  HInv'
  <2>1. /\ HandlesOK' /\ nav'[n] = new
        /\ \A m \in Nav \ {n} : nav'[m] = nav[m]
    BY <1>1 DEF HInv, HandlesOK
  <2>2. ASSUME NEW m \in Nav, nav'[m] # None PROVE Stands(m)'
    BY <1>1, <2>1, <2>2 DEF HInv, Stands
  <2> QED
    BY <2>1, <2>2 DEF HInv
<1>2. ASSUME NEW l \in Lib, library[l] # None,
             nav' = [nav EXCEPT ![n] = [lib |-> l, stack |-> <<library[l].root>>]]
      PROVE  HInv'
  <2> DEFINE new == [lib |-> l, stack |-> <<library[l].root>>]
  <2>1. library[l].root \in Node
    BY <1>2 DEF HInv, HandlesOK, Open
  <2>2. /\ Descent(<<library[l].root>>) /\ <<library[l].root>> \in Seq(Node)
        /\ <<library[l].root>>[1] = library[l].root
    BY <2>1 DEF Descent
  <2>3. /\ new \in Standing /\ library[new.lib] # None
        /\ Descent(new.stack) /\ new.stack[1] = library[new.lib].root
    BY <1>2, <2>2 DEF Standing
  <2> QED
    BY <1>1, <1>2, <2>3
<1>3. CASE nav' = [nav EXCEPT ![n] = None]
  BY <1>1, <1>3
<1>4. ASSUME NEW s, nav[n] # None, Descent(s), s[1] = nav[n].stack[1], Moves(n, s)
      PROVE  HInv'
  <2> DEFINE new == [nav[n] EXCEPT !.stack = s]
  <2>1. nav[n] \in Standing /\ Stands(n)
    BY <1>4 DEF HInv, HandlesOK
  <2>2. new \in Standing /\ new.lib = nav[n].lib /\ new.stack = s
    BY <1>4, <2>1 DEF Standing, Descent
  <2>3. nav' = [nav EXCEPT ![n] = new]
    BY <1>4 DEF Moves
  <2> HIDE DEF new
  <2> QED
    BY <1>1, <1>4, <2>1, <2>2, <2>3 DEF Stands
<1> QED
  BY <1>2, <1>3, <1>4

\* A line leads to a child, to the parent, or nowhere.
LEMMA InputKeepsHandles ==
  ASSUME HInv, NEW t \in Thread, NEW n \in Nav, NEW line \in Line, NEW mode \in MatchMode,
         NavigatorInput(t, n, line, mode)
  PROVE  HInv'
<1> DEFINE s == nav[n].stack
           r == Lookup(Here(n), line, mode)
<1>1. nav[n] # None /\ Descent(s) /\ UNCHANGED <<disk, library>>
  BY DEF NavigatorInput, HInv, Stands
<1>2. Here(n) \in Node
  BY <1>1 DEF Here, Descent, Last
<1>3. CASE UNCHANGED nav
  BY <1>1, <1>3 DEF HInv, HandlesOK, Stands
<1>4. CASE ~ AtRoot(n) /\ Moves(n, Front(s))
  <2>1. Descent(Front(s)) /\ Front(s)[1] = s[1]
    BY <1>1, <1>4, DescentIsCut DEF AtRoot
  <2> QED
    BY <1>1, <1>4, <2>1, NavigatorSteps
<1>5. CASE r.kind = "Found" /\ Moves(n, Append(s, r.node))
  <2>1. r.node \in Kids(Last(s))
    BY <1>2, <1>5, LookupFindsChild DEF Here
  <2>2. Descent(Append(s, r.node)) /\ Append(s, r.node)[1] = s[1]
    BY <1>1, <2>1, DescentGoesOn
  <2> QED
    BY <1>1, <1>5, <2>2, NavigatorSteps
<1> QED
  BY <1>3, <1>4, <1>5 DEF NavigatorInput

\* dechlp_navigator_go_up() stops at the root, dechlp_navigator_reset() leaves it.
LEMMA UpKeepsHandles ==
  ASSUME HInv, NEW n \in Nav,
         NavigatorReset(n) \/ \E t \in Thread : NavigatorGoUp(t, n)
  PROVE  HInv'
<1> DEFINE s == nav[n].stack
<1>1. nav[n] # None /\ Descent(s) /\ UNCHANGED <<disk, library>>
  BY DEF NavigatorReset, NavigatorGoUp, HInv, Stands
<1>2. CASE UNCHANGED nav
  BY <1>1, <1>2 DEF HInv, HandlesOK, Stands
<1>3. CASE ~ AtRoot(n) /\ Moves(n, Front(s))
  <2>1. Descent(Front(s)) /\ Front(s)[1] = s[1]
    BY <1>1, <1>3, DescentIsCut DEF AtRoot
  <2> QED
    BY <1>1, <1>3, <2>1, NavigatorSteps
<1>4. CASE Moves(n, SubSeq(s, 1, 1))
  <2>1. Descent(SubSeq(s, 1, 1)) /\ SubSeq(s, 1, 1)[1] = s[1]
    BY <1>1, DescentIsCut
  <2> QED
    BY <1>1, <1>4, <2>1, NavigatorSteps
<1> QED
  BY <1>2, <1>3, <1>4 DEF NavigatorReset, NavigatorGoUp

\* A build leaves each file as it was, broken, or whole.
LEMMA BuildKeepsHandles ==
  ASSUME HInv, NEW t \in Thread, NEW f \in File, Build(t, f) PROVE HInv'
<1>1. UNCHANGED <<library, nav>> /\ disk' \in [File -> {Absent, Broken} \cup Built]
  <2>1. CASE UNCHANGED disk
    BY <2>1 DEF Build, HInv, HandlesOK
  <2>2. CASE \E what \in Built \cup {Broken} : disk' = [disk EXCEPT ![f] = what]
    BY <2>2 DEF Build, HInv, HandlesOK
  <2> QED
    BY <2>1, <2>2 DEF Build
<1> QED
  BY <1>1 DEF HInv, HandlesOK, Stands

\* All other calls leave files and handles alone.
Reads == UNCHANGED <<disk, library, nav>>

\* Of the calls on a library only one creates a handle.
LEMMA LibraryCalls ==
  ASSUME NEW t \in Thread, NEW l \in Lib, OnLibrary(t, l)
  PROVE  NavigatorCreate(t, l) \/ Reads
BY DEF OnLibrary, TopicLookup, TopicName, ChildrenCount, ChildrenNames, ChildrenName,
       Reads

\* Of the calls on a navigator only two move it.
LEMMA NavigatorCalls ==
  ASSUME NEW t \in Thread, NEW n \in Nav, OnNavigator(t, n)
  PROVE  \/ \E line \in Line, mode \in MatchMode : NavigatorInput(t, n, line, mode)
         \/ NavigatorGoUp(t, n) \/ Reads
BY DEF OnNavigator, NavigatorPrompt, NavigatorTopicText, NavigatorTopicChildren,
       Reads

\* Every step keeps the handles in order.
LEMMA StepKeepsHandles ==
  ASSUME HInv, [Next]_vars PROVE HInv'
<1>1. CASE Reads
  BY <1>1 DEF Reads, HInv, HandlesOK, Stands
<1>2. CASE UNCHANGED vars
  BY <1>1, <1>2 DEF vars, Reads
<1>3. ASSUME NEW t \in Thread, Refuse(t) PROVE HInv'
  BY <1>1, <1>3 DEF Refuse, Reads
<1>4. ASSUME NEW t \in Thread, NEW f \in File, LibraryOpen(t, f) \/ Build(t, f)
      PROVE  HInv'
  BY <1>4, OpenKeepsHandles, BuildKeepsHandles
<1>5. ASSUME NEW t \in Thread, NEW l \in Lib, OnLibrary(t, l) PROVE HInv'
  <2>1. CASE NavigatorCreate(t, l)
    <3>1. PICK n \in Nav : nav' = [nav EXCEPT ![n] = [lib |-> l,
                                                      stack |-> <<library[l].root>>]]
      BY <2>1 DEF NavigatorCreate
    <3> QED
      BY <2>1, <3>1, NavigatorSteps DEF NavigatorCreate
  <2> QED
    BY <1>1, <1>5, <2>1, LibraryCalls
<1>6. ASSUME NEW t \in Thread, NEW n \in Nav, OnNavigator(t, n) PROVE HInv'
  BY <1>1, <1>6, NavigatorCalls, InputKeepsHandles, UpKeepsHandles
<1>7. ASSUME NEW l \in Lib, LibraryClose(l) PROVE HInv'
  BY <1>7, CloseKeepsHandles
<1>8. ASSUME NEW n \in Nav, NavigatorDestroy(n) PROVE HInv'
  BY <1>8, NavigatorSteps DEF NavigatorDestroy
<1>9. ASSUME NEW n \in Nav, NavigatorReset(n) PROVE HInv'
  BY <1>9, UpKeepsHandles
<1>10. ASSUME NEW b \in Buffer, StringFree(b) PROVE HInv'
  BY <1>1, <1>10 DEF StringFree, Reads
<1> QED
  BY <1>2, <1>3, <1>4, <1>5, <1>6, <1>7, <1>8, <1>9, <1>10 DEF Next

\* Every navigator stands on a path of parents of the library it was created
\* for, and that library is open, however often handles are used again: what
\* the code assumes when it gives the navigator a longer life than it can know.
THEOREM NavigatorsStay == Spec => []NavigatorsStayInTheirLibrary
<1>1. HInv /\ [Next]_vars => HInv'
  BY StepKeepsHandles
<1>2. HInv => NavigatorsStayInTheirLibrary
  BY DEF HInv, Stands, Descent, NavigatorsStayInTheirLibrary
<1> QED
  BY <1>1, <1>2, InitHandles, PTL DEF Spec
-----------------------------------------------------------------------------
\* A call leaves the code and the message of another thread alone, and in its
\* own the message is one that its code may have.
Explained(t) ==
  /\ \A u \in Thread \ {t} : error'[u] = error[u] /\ result'[u] = result[u]
  /\ error'[t] \in Tells(result'[t])
  /\ error' = [u \in Thread |-> error'[u]] /\ result' = [u \in Thread |-> result'[u]]

\* The slots are there, each with a message that explains the last code.
SlotsOK ==
  /\ error = [t \in Thread |-> error[t]] /\ result = [t \in Thread |-> result[t]]
  /\ ErrorIsOfLastCall

\* The codes that say that all went well have no message.
Quiet == {DECHLP_OK, DECHLP_NAV_DISPLAY_TOPIC, DECHLP_NAV_SHOW_TOPICS,
          DECHLP_NAV_GO_UP, DECHLP_NAV_EXIT, DECHLP_NAV_DISPLAY_MULTI}

\* An answer of that kind needs none.
LEMMA AnswersExplained ==
  ASSUME SlotsOK, NEW t \in Thread, NEW code \in Quiet, Answer(t, code)
  PROVE  Explained(t)
<1>1. Tells(code) = {Silent}
  BY DEF Quiet, Tells, DECHLP_OK, DECHLP_NAV_DISPLAY_TOPIC, DECHLP_NAV_SHOW_TOPICS,
         DECHLP_NAV_GO_UP, DECHLP_NAV_EXIT, DECHLP_NAV_DISPLAY_MULTI,
         DECHLP_ERR_NULL_ARG, DECHLP_ERR_IO, DECHLP_ERR_FORMAT, DECHLP_ERR_NOT_FOUND,
         DECHLP_ERR_AMBIGUOUS, DECHLP_ERR_BUILD, DECHLP_ERR_INVALID,
         DECHLP_ERR_INTERNAL, DECHLP_NAV_NOT_FOUND, DECHLP_NAV_AMBIGUOUS
<1> QED
  BY <1>1 DEF SlotsOK, Answer, Explained

\* What the code may complain of, and with which code.
Complaint ==
  {<<DECHLP_ERR_NULL_ARG, NullArgument>>, <<DECHLP_ERR_IO, IoError>>,
   <<DECHLP_ERR_FORMAT, InvalidFormat>>, <<DECHLP_ERR_NOT_FOUND, NoSuchTopic>>,
   <<DECHLP_NAV_NOT_FOUND, NoSuchTopic>>, <<DECHLP_ERR_AMBIGUOUS, AmbiguousTopic>>,
   <<DECHLP_NAV_AMBIGUOUS, AmbiguousTopic>>, <<DECHLP_ERR_BUILD, ParseError>>,
   <<DECHLP_ERR_BUILD, BuildError>>, <<DECHLP_ERR_INVALID, NotValid>>,
   <<DECHLP_ERR_INVALID, OutOfRange>>, <<DECHLP_ERR_INVALID, AlreadyAtRoot>>,
   <<DECHLP_ERR_INTERNAL, InteriorNul>>, <<DECHLP_ERR_INTERNAL, InternalError>>}

\* Each of these messages is one its code may have, and is kept: it has no NUL.
LEMMA ComplaintsFit ==
  ASSUME NEW c \in Complaint
  PROVE  c[2] \in Tells(c[1]) /\ Nul \notin ToSet(c[2])
<1>1. c[2] \in Tells(c[1])
  BY DEF Complaint, Tells, DECHLP_ERR_NULL_ARG, DECHLP_ERR_IO, DECHLP_ERR_FORMAT,
         DECHLP_ERR_NOT_FOUND, DECHLP_ERR_AMBIGUOUS, DECHLP_ERR_BUILD,
         DECHLP_ERR_INVALID, DECHLP_ERR_INTERNAL, DECHLP_NAV_NOT_FOUND,
         DECHLP_NAV_AMBIGUOUS
<1>2. \A w : ToSet(<<w>>) = {w}
  BY DEF ToSet
<1>3. c[2] \in {NullArgument, NotValid, IoError, InvalidFormat, AmbiguousTopic,
                 NoSuchTopic, OutOfRange, AlreadyAtRoot, InteriorNul, ParseError,
                 BuildError, InternalError}
  BY DEF Complaint
<1>4. /\ ToSet(NullArgument) = {"null argument"}
      /\ ToSet(NotValid) = {"invalid match mode, not UTF-8 or no inputs"}
      /\ ToSet(IoError) = {"I/O error"}
      /\ ToSet(InvalidFormat) = {"invalid .hlib format"}
      /\ ToSet(AmbiguousTopic) = {"ambiguous topic"}
      /\ ToSet(NoSuchTopic) = {"no such topic"}
      /\ ToSet(OutOfRange) = {"child index out of range"}
      /\ ToSet(AlreadyAtRoot) = {"already at root"}
      /\ ToSet(InteriorNul) = {"string contains interior null byte"}
      /\ ToSet(ParseError) = {"parse error"}
      /\ ToSet(BuildError) = {"build error"}
      /\ ToSet(InternalError) = {"Rust panic caught"}
  BY <1>2 DEF NullArgument, NotValid, IoError, InvalidFormat, AmbiguousTopic,
              NoSuchTopic, OutOfRange, AlreadyAtRoot, InteriorNul, ParseError,
              BuildError, InternalError
<1>5. Nul \notin {"null argument", "invalid match mode, not UTF-8 or no inputs", "I/O error",
                "invalid .hlib format", "ambiguous topic", "no such topic",
                "child index out of range", "already at root", "string contains interior null byte",
                "parse error", "build error", "Rust panic caught"}
  BY DEF Nul
<1>6. /\ Nul \notin ToSet(NullArgument) /\ Nul \notin ToSet(NotValid)
      /\ Nul \notin ToSet(IoError) /\ Nul \notin ToSet(InvalidFormat)
      /\ Nul \notin ToSet(AmbiguousTopic) /\ Nul \notin ToSet(NoSuchTopic)
      /\ Nul \notin ToSet(OutOfRange) /\ Nul \notin ToSet(AlreadyAtRoot)
      /\ Nul \notin ToSet(InteriorNul) /\ Nul \notin ToSet(ParseError)
      /\ Nul \notin ToSet(BuildError) /\ Nul \notin ToSet(InternalError)
  BY <1>4, <1>5
<1> QED
  BY <1>1, <1>3, <1>6

\* A message is stored as it is, or, with a NUL in it, as none.
LEMMA StoredIsExplained ==
  ASSUME SlotsOK, NEW t \in Thread, NEW code, NEW message, Complain(t, code, message),
         IF Nul \in ToSet(message) THEN Silent \in Tells(code)
                                   ELSE message \in Tells(code)
  PROVE  Explained(t)
BY DEF SlotsOK, Complain, SetLastError, Explained

\* So complaints are explained.
LEMMA ComplaintsExplained ==
  ASSUME SlotsOK, NEW t \in Thread, NEW code, NEW message,
         <<code, message>> \in Complaint, Complain(t, code, message)
  PROVE  Explained(t)
<1>1. message \in Tells(code) /\ Nul \notin ToSet(message)
  BY ComplaintsFit
<1> QED
  BY <1>1, StoredIsExplained

\* A name that is too long may be quoted with a NUL in it: that message is lost.
LEMMA LostMessageExplained ==
  ASSUME SlotsOK, NEW t \in Thread, Complain(t, DECHLP_ERR_BUILD, ParseErrorWithNul)
  PROVE  Explained(t)
<1>1. \A v, w : w \in ToSet(<<v, w>>)
  BY DEF ToSet
<1>2. Nul \in ToSet(ParseErrorWithNul)
  BY <1>1 DEF ParseErrorWithNul
<1>3. Silent \in Tells(DECHLP_ERR_BUILD)
  BY DEF Tells, DECHLP_ERR_NULL_ARG, DECHLP_ERR_IO, DECHLP_ERR_FORMAT,
         DECHLP_ERR_NOT_FOUND, DECHLP_ERR_AMBIGUOUS, DECHLP_ERR_BUILD,
         DECHLP_ERR_INVALID, DECHLP_ERR_INTERNAL, DECHLP_NAV_NOT_FOUND,
         DECHLP_NAV_AMBIGUOUS
<1> QED
  BY <1>2, <1>3, StoredIsExplained

\* Opening and building,
LEMMA FileCallsExplained ==
  ASSUME SlotsOK, NEW t \in Thread, NEW f \in File,
         LibraryOpen(t, f) \/ Build(t, f)
  PROVE  Explained(t)
<1>1. CASE LibraryOpen(t, f)
  <2>1. /\ <<DECHLP_ERR_IO, IoError>> \in Complaint
        /\ <<DECHLP_ERR_FORMAT, InvalidFormat>> \in Complaint /\ DECHLP_OK \in Quiet
    BY DEF Complaint, Quiet
  <2> QED
    BY <1>1, <2>1, ComplaintsExplained, AnswersExplained DEF LibraryOpen
<1>2. CASE Build(t, f)
  <2>1. /\ <<DECHLP_ERR_BUILD, ParseError>> \in Complaint
        /\ <<DECHLP_ERR_BUILD, BuildError>> \in Complaint
        /\ <<DECHLP_ERR_INTERNAL, InternalError>> \in Complaint /\ DECHLP_OK \in Quiet
    BY DEF Complaint, Quiet
  <2>2. \/ Complain(t, DECHLP_ERR_BUILD, ParseError)
        \/ Complain(t, DECHLP_ERR_BUILD, ParseErrorWithNul)
        \/ Complain(t, DECHLP_ERR_BUILD, BuildError)
        \/ Complain(t, DECHLP_ERR_INTERNAL, InternalError)
        \/ Answer(t, DECHLP_OK)
    BY <1>2 DEF Build, CaughtPanic
  <2> QED
    BY <2>1, <2>2, LostMessageExplained, ComplaintsExplained, AnswersExplained
<1> QED
  BY <1>1, <1>2

\* the calls on a library,
LEMMA LibraryCallsExplained ==
  ASSUME SlotsOK, NEW t \in Thread, NEW l \in Lib, OnLibrary(t, l)
  PROVE  Explained(t)
<1>1. /\ <<DECHLP_ERR_AMBIGUOUS, AmbiguousTopic>> \in Complaint
      /\ <<DECHLP_ERR_NOT_FOUND, NoSuchTopic>> \in Complaint
      /\ <<DECHLP_ERR_INVALID, OutOfRange>> \in Complaint
      /\ <<DECHLP_ERR_INTERNAL, InteriorNul>> \in Complaint /\ DECHLP_OK \in Quiet
  BY DEF Complaint, Quiet
<1>2. \/ Answer(t, DECHLP_OK)
      \/ Complain(t, DECHLP_ERR_AMBIGUOUS, AmbiguousTopic)
      \/ Complain(t, DECHLP_ERR_NOT_FOUND, NoSuchTopic)
      \/ Complain(t, DECHLP_ERR_INVALID, OutOfRange)
      \/ Complain(t, DECHLP_ERR_INTERNAL, InteriorNul)
  BY DEF OnLibrary, NavigatorCreate, TopicLookup, TopicName, ChildrenCount, ChildrenNames,
         ChildrenName, Unresolved, WriteOwnedString, WriteNames
<1> QED
  BY <1>1, <1>2, ComplaintsExplained, AnswersExplained

\* and the calls on a navigator: all leave the right message.
LEMMA NavigatorCallsExplained ==
  ASSUME SlotsOK, NEW t \in Thread, NEW n \in Nav, OnNavigator(t, n)
  PROVE  Explained(t)
<1>1. /\ <<DECHLP_NAV_AMBIGUOUS, AmbiguousTopic>> \in Complaint
      /\ <<DECHLP_NAV_NOT_FOUND, NoSuchTopic>> \in Complaint
      /\ <<DECHLP_ERR_INVALID, AlreadyAtRoot>> \in Complaint
      /\ <<DECHLP_ERR_INTERNAL, InteriorNul>> \in Complaint
  BY DEF Complaint
<1>2. \/ \E code \in Quiet : Answer(t, code)
      \/ Complain(t, DECHLP_NAV_AMBIGUOUS, AmbiguousTopic)
      \/ Complain(t, DECHLP_NAV_NOT_FOUND, NoSuchTopic)
      \/ Complain(t, DECHLP_ERR_INVALID, AlreadyAtRoot)
      \/ Complain(t, DECHLP_ERR_INTERNAL, InteriorNul)
  <2>1. ASSUME NEW line \in Line, NEW mode \in MatchMode, NavigatorInput(t, n, line, mode)
        PROVE  \/ \E code \in Quiet : Answer(t, code)
               \/ Complain(t, DECHLP_NAV_AMBIGUOUS, AmbiguousTopic)
               \/ Complain(t, DECHLP_NAV_NOT_FOUND, NoSuchTopic)
    BY <2>1 DEF NavigatorInput, Quiet
  <2> QED
    BY <2>1 DEF OnNavigator, NavigatorGoUp, NavigatorPrompt, NavigatorTopicText,
                NavigatorTopicChildren, WriteOwnedString, WriteNames, Quiet
<1> QED
  BY <1>1, <1>2, ComplaintsExplained, AnswersExplained

\* Of every thread, the message is one that goes with the code its last call has
\* returned, and there is none after a success, whatever other threads do and
\* whatever calls without a code came after: about the clear_last_error() and
\* set_last_error() of each function, on each of its ways out.
THEOREM ErrorStaysOfLastCall == Spec => []ErrorIsOfLastCall
<1>1. Init => SlotsOK
  BY DEF Init, SlotsOK, ErrorIsOfLastCall, Tells, Silent, DECHLP_OK,
         DECHLP_ERR_NULL_ARG, DECHLP_ERR_IO, DECHLP_ERR_FORMAT, DECHLP_ERR_NOT_FOUND,
         DECHLP_ERR_AMBIGUOUS, DECHLP_ERR_BUILD, DECHLP_ERR_INVALID,
         DECHLP_ERR_INTERNAL, DECHLP_NAV_NOT_FOUND, DECHLP_NAV_AMBIGUOUS
<1>2. SlotsOK /\ [Next]_vars => SlotsOK'
  <2> SUFFICES ASSUME SlotsOK, [Next]_vars PROVE SlotsOK'
    OBVIOUS
  <2>1. CASE UNCHANGED <<error, result>>
    BY <2>1 DEF SlotsOK, ErrorIsOfLastCall
  <2>2. ASSUME NEW t \in Thread, Explained(t) PROVE SlotsOK'
    BY <2>2 DEF SlotsOK, Explained, ErrorIsOfLastCall
  <2>3. ASSUME NEW t \in Thread, Refuse(t) PROVE Explained(t)
    <3>1. /\ <<DECHLP_ERR_NULL_ARG, NullArgument>> \in Complaint
          /\ <<DECHLP_ERR_INVALID, NotValid>> \in Complaint
      BY DEF Complaint
    <3> QED
      BY <2>3, <3>1, ComplaintsExplained DEF Refuse
  <2>4. \/ \E l \in Lib : LibraryClose(l)
        \/ \E n \in Nav : NavigatorDestroy(n) \/ NavigatorReset(n)
        \/ \E b \in Buffer : StringFree(b)
        \/ UNCHANGED vars
        => UNCHANGED <<error, result>>
    BY DEF LibraryClose, NavigatorDestroy, NavigatorReset, StringFree, vars
  <2> QED
    BY <2>1, <2>2, <2>3, <2>4, FileCallsExplained, LibraryCallsExplained,
       NavigatorCallsExplained DEF Next
<1>3. SlotsOK => ErrorIsOfLastCall
  BY DEF SlotsOK
<1> QED
  BY <1>1, <1>2, <1>3, PTL DEF Spec
-----------------------------------------------------------------------------
(***************************************************************************)
(* Strings that are handed out                                             *)
(***************************************************************************)
Text == Seq(Char \cup {Nul})

\* Sequences that agree from m to n have the same part there.
LEMMA SubSeqsAgree ==
  ASSUME NEW s, NEW t, NEW m \in Int, NEW n \in Int,
         \A i \in m..n : s[i] \in Char \cup {Nul} /\ t[i] = s[i]
  PROVE  SubSeq(t, m, n) = SubSeq(s, m, n)
<1>1. \A i \in 1..(n - m + 1) : m + i - 1 \in m..n
  OBVIOUS
<1>2. /\ SubSeq(s, m, n) \in Text /\ Len(SubSeq(s, m, n)) = IF m <= n THEN n - m + 1 ELSE 0
      /\ \A i \in 1..(n - m + 1) : SubSeq(s, m, n)[i] = s[m + i - 1]
  BY SubSeqProperties DEF Text
<1>3. /\ SubSeq(t, m, n) \in Text /\ Len(SubSeq(t, m, n)) = IF m <= n THEN n - m + 1 ELSE 0
      /\ \A i \in 1..(n - m + 1) : SubSeq(t, m, n)[i] = t[m + i - 1]
  <2>1. \A i \in m..n : t[i] \in Char \cup {Nul}
    OBVIOUS
  <2> QED
    BY <2>1, SubSeqProperties DEF Text
<1>4. \A i \in 1..Len(SubSeq(s, m, n)) : SubSeq(t, m, n)[i] = SubSeq(s, m, n)[i]
  <2> TAKE i \in 1..Len(SubSeq(s, m, n))
  <2>1. i \in 1..(n - m + 1)
    BY <1>2
  <2> QED
    BY <1>1, <1>2, <1>3, <2>1
<1>5. Len(SubSeq(t, m, n)) = Len(SubSeq(s, m, n))
  BY <1>2, <1>3
<1> QED
  BY <1>2, <1>3, <1>4, <1>5, SeqEqual DEF Text

\* A block with one name more is cut where it was, and after that name.
LEMMA OneNameMore ==
  ASSUME NEW text \in Text, NEW names \in Seq(Seq(Char)), NEW ends,
         CutAt(text, names, ends), names = <<>> => text = <<>>, NEW s \in Seq(Char)
  PROVE  \E e : CutAt(text \o Terminated(s), Append(names, s), e)
<1> DEFINE n == Len(names)
           l == Len(text)
           more == Append(names, s)
           longer == text \o Terminated(s)
           e == [k \in 1..(n + 1) |-> IF k = n + 1 THEN l + Len(s) + 1 ELSE ends[k]]
           from(k, f) == IF k = 1 THEN 1 ELSE f[k - 1] + 1
<1>1. /\ n \in Nat /\ l \in Nat /\ Len(s) \in Nat
      /\ DOMAIN names = 1..n /\ DOMAIN text = 1..l
      /\ more \in Seq(Seq(Char)) /\ Len(more) = n + 1 /\ DOMAIN more = 1..(n + 1)
      /\ more[n + 1] = s /\ \A k \in 1..n : more[k] = names[k]
  BY AppendProperties DEF Text
<1>2. /\ Terminated(s) \in Text /\ Len(Terminated(s)) = Len(s) + 1
      /\ Terminated(s)[Len(s) + 1] = Nul /\ \A i \in 1..Len(s) : Terminated(s)[i] = s[i]
  BY DEF Terminated, Text
<1>3. /\ longer \in Text /\ Len(longer) = l + Len(s) + 1
      /\ \A i \in 1..(l + (Len(s) + 1)) :
           longer[i] = IF i <= l THEN text[i] ELSE Terminated(s)[i - l]
  <2>1. /\ text \in Seq(Char \cup {Nul}) /\ Terminated(s) \in Seq(Char \cup {Nul})
    BY <1>2 DEF Text
  <2>2. /\ longer \in Seq(Char \cup {Nul}) /\ Len(longer) = Len(text) + Len(Terminated(s))
        /\ \A i \in 1..(Len(text) + Len(Terminated(s))) :
             longer[i] = IF i <= Len(text) THEN text[i] ELSE Terminated(s)[i - Len(text)]
    BY <2>1, ConcatProperties
  <2> HIDE DEF longer
  <2>3. Len(longer) = l + Len(s) + 1
    BY <1>1, <1>2, <2>2
  <2> QED
    BY <1>2, <2>2, <2>3 DEF Text
<1>4. /\ \A i \in 1..l : longer[i] = text[i] /\ i \in DOMAIN longer
      /\ \A i \in 1..Len(s) : longer[l + i] = s[i] /\ longer[l + i] # Nul
      /\ longer[l + Len(s) + 1] = Nul
      /\ DOMAIN longer = 1..(l + Len(s) + 1)
  <2>1. \A i \in 1..Len(s) : s[i] # Nul
    BY FfiAssumption
  <2>2. \A i \in 1..(Len(s) + 1) : longer[l + i] = Terminated(s)[i]
    <3> TAKE i \in 1..(Len(s) + 1)
    <3>1. l + i \in 1..(l + (Len(s) + 1)) /\ ~ (l + i <= l) /\ (l + i) - l = i
      BY <1>1
    <3> QED
      BY <1>3, <3>1
  <2>3. \A i \in 1..l : longer[i] = text[i]
    BY <1>1, <1>3
  <2>4. DOMAIN longer = 1..(l + Len(s) + 1)
    BY <1>3 DEF Text
  <2>5. \A i \in 1..Len(s) : i \in 1..(Len(s) + 1)
    BY <1>1
  <2>6. Len(s) + 1 \in 1..(Len(s) + 1) /\ l + (Len(s) + 1) = l + Len(s) + 1
    BY <1>1
  <2>7. \A i \in 1..l : i \in 1..(l + Len(s) + 1)
    BY <1>1
  <2> HIDE DEF longer
  <2> QED
    BY <1>2, <2>1, <2>2, <2>3, <2>4, <2>5, <2>6, <2>7
<1>5. /\ \A k \in 1..n : ends[k] \in 1..l /\ (k # n => ends[k] < ends[k + 1])
      /\ n # 0 => ends[n] = l
      /\ n = 0 => l = 0
  <2>1. n = 0 => names = <<>>
    BY EmptySeq
  <2>2. n # 0 => n \in 1..n
    BY <1>1
  <2> QED
    BY <1>1, <2>1, <2>2, EmptySeq DEF CutAt
<1>6. /\ e[n + 1] = l + Len(s) + 1 /\ DOMAIN e = 1..(n + 1)
      /\ \A k \in 1..n : e[k] = ends[k] /\ e[k] \in 1..l
      /\ e \in [DOMAIN more -> DOMAIN longer]
  <2> HIDE DEF longer, more, n, l
  <2>1. n + 1 \in 1..(n + 1) /\ \A k \in 1..n : k \in 1..(n + 1) /\ k # n + 1
    BY <1>1
  <2>2. /\ e[n + 1] = l + Len(s) + 1 /\ DOMAIN e = 1..(n + 1)
        /\ \A k \in 1..n : e[k] = ends[k] /\ e[k] \in 1..l
    BY <1>5, <2>1
  <2>3. \A i \in 1..l : i \in 1..(l + Len(s) + 1)
    BY <1>1
  <2>4. l + Len(s) + 1 \in 1..(l + Len(s) + 1)
    BY <1>1
  <2>5. \A k \in 1..(n + 1) : e[k] \in 1..(l + Len(s) + 1)
    <3>1. \A k \in 1..(n + 1) : k = n + 1 \/ k \in 1..n
      BY <1>1
    <3> HIDE DEF e
    <3> QED
      BY <2>2, <2>3, <2>4, <3>1
  <2> QED
    BY <1>1, <1>4, <2>2, <2>5
<1> HIDE DEF e, longer, more, n, l
<1>7. ASSUME NEW i \in DOMAIN longer
      PROVE  longer[i] = Nul <=> \E k \in DOMAIN more : e[k] = i
  <2>1. CASE i \in 1..l
    <3>1. longer[i] = Nul <=> \E k \in 1..n : ends[k] = i
      <4>1. \A j \in 1..l : text[j] = Nul <=> \E k \in 1..n : ends[k] = j
        BY <1>1 DEF CutAt
      <4> QED
        BY <1>4, <2>1, <4>1
    <3>2. e[n + 1] # i
      BY <1>1, <1>6, <2>1
    <3>3. \A k \in 1..(n + 1) : k = n + 1 \/ k \in 1..n
      BY <1>1
    <3>4. \A k \in 1..n : k \in 1..(n + 1)
      BY <1>1
    <3> QED
      BY <1>1, <1>6, <3>1, <3>2, <3>3, <3>4
  <2>2. CASE i - l \in 1..Len(s)
    <3>1. longer[l + (i - l)] # Nul /\ l + (i - l) = i
      BY <1>1, <1>4, <2>2
    <3>2. \A k \in 1..(n + 1) : k = n + 1 \/ k \in 1..n
      BY <1>1
    <3>3. e[n + 1] # i /\ \A k \in 1..n : e[k] # i
      BY <1>1, <1>6, <2>2
    <3> QED
      BY <1>1, <3>1, <3>2, <3>3
  <2>3. CASE i = l + Len(s) + 1
    <3>1. n + 1 \in 1..(n + 1)
      BY <1>1
    <3> QED
      BY <1>1, <1>4, <1>6, <2>3, <3>1
  <2> QED
    <3>1. i \in 1..l \/ i - l \in 1..Len(s) \/ i = l + Len(s) + 1
      <4>1. i \in 1..(l + Len(s) + 1)
        BY <1>4
      <4>2. l \in Nat /\ Len(s) \in Nat
        BY <1>1
      <4> QED
        BY <4>1, <4>2
    <3> QED
      BY <2>1, <2>2, <2>3, <3>1
<1>8. ASSUME NEW k \in 1..n
      PROVE  /\ more[k] = SubSeq(longer, from(k, e), e[k] - 1)
             /\ e[k] < e[k + 1]
  <2>1. names[k] = SubSeq(text, from(k, ends), ends[k] - 1) /\ ends[k] \in 1..l
    BY <1>1, <1>5 DEF CutAt
  <2>2. from(k, e) = from(k, ends) /\ e[k] = ends[k] /\ from(k, ends) \in 1..(l + 1)
    <3>1. CASE k = 1
      BY <1>1, <1>6, <3>1
    <3>2. CASE k # 1
      <4>1. k - 1 \in 1..n
        BY <1>1, <3>2
      <4>2. e[k - 1] = ends[k - 1] /\ ends[k - 1] \in 1..l
        BY <1>5, <1>6, <4>1
      <4>3. ends[k - 1] + 1 \in 1..(l + 1)
        BY <1>1, <4>2
      <4> QED
        BY <1>6, <3>2, <4>2, <4>3
    <3> QED
      BY <3>1, <3>2
  <2> HIDE DEF from
  <2>3. \A i \in from(k, ends)..(ends[k] - 1) :
          text[i] \in Char \cup {Nul} /\ longer[i] = text[i]
    <3> TAKE i \in from(k, ends)..(ends[k] - 1)
    <3>1. l \in Nat
      BY <1>1
    <3>2. i \in 1..l
      BY <2>1, <2>2, <3>1
    <3>3. text[i] \in Char \cup {Nul}
      BY <1>1, <3>2 DEF Text
    <3> QED
      BY <1>4, <3>2, <3>3
  <2>4. SubSeq(longer, from(k, ends), ends[k] - 1) = SubSeq(text, from(k, ends), ends[k] - 1)
    <3>1. from(k, ends) \in Int /\ ends[k] - 1 \in Int
      BY <1>1, <2>1, <2>2
    <3> DEFINE a == from(k, ends)
               b == ends[k] - 1
    <3>2. a \in Int /\ b \in Int
      BY <3>1
    <3>3. \A i \in a..b : text[i] \in Char \cup {Nul} /\ longer[i] = text[i]
      BY <2>3
    <3> HIDE DEF a, b
    <3>4. SubSeq(longer, a, b) = SubSeq(text, a, b)
      BY <3>2, <3>3, SubSeqsAgree
    <3> QED
      BY <3>4 DEF a, b
  <2>5. e[k] < e[k + 1]
    <3>1. CASE k = n
      BY <1>1, <1>5, <1>6, <3>1
    <3>2. CASE k # n
      <4>1. k + 1 \in 1..n
        BY <1>1, <3>2
      <4> QED
        BY <1>5, <1>6, <3>2, <4>1
    <3> QED
      BY <3>1, <3>2
  <2> QED
    BY <1>1, <2>1, <2>2, <2>4, <2>5
<1>9. more[n + 1] = SubSeq(longer, from(n + 1, e), e[n + 1] - 1)
  <2>1. from(n + 1, e) = l + 1
    <3>1. CASE n = 0
      BY <1>5, <3>1
    <3>2. CASE n # 0
      <4>1. n \in 1..n /\ n + 1 # 1 /\ (n + 1) - 1 = n
        BY <1>1, <3>2
      <4> QED
        BY <1>5, <1>6, <3>2, <4>1
    <3> QED
      BY <3>1, <3>2
  <2> HIDE DEF from
  <2>2. e[n + 1] - 1 = l + Len(s)
    BY <1>1, <1>6
  <2>3. \A i \in 1..Len(s) : s[i] \in Char
    OBVIOUS
  <2>4. SubSeq(longer, l + 1, l + Len(s)) = s
    <3> DEFINE part == SubSeq(longer, l + 1, l + Len(s))
    <3>1. \A i \in (l + 1)..(l + Len(s)) : i - l \in 1..Len(s) /\ l + (i - l) = i
      BY <1>1
    <3>2. \A i \in (l + 1)..(l + Len(s)) : longer[i] \in Char
      BY <1>4, <2>3, <3>1
    <3>3. /\ part \in Seq(Char)
          /\ Len(part) = IF l + 1 <= l + Len(s) THEN (l + Len(s)) - (l + 1) + 1 ELSE 0
          /\ \A i \in 1..((l + Len(s)) - (l + 1) + 1) : part[i] = longer[(l + 1) + i - 1]
      <4>1. l + 1 \in Int /\ l + Len(s) \in Int
        BY <1>1
      <4> QED
        BY <3>2, <4>1, SubSeqProperties
    <3> HIDE DEF part
    <3>4. Len(part) = Len(s)
      BY <1>1, <3>3
    <3>5. \A i \in 1..Len(s) : part[i] = s[i]
      <4> TAKE i \in 1..Len(s)
      <4>1. i \in 1..((l + Len(s)) - (l + 1) + 1) /\ (l + 1) + i - 1 = l + i
        BY <1>1
      <4> QED
        BY <1>4, <3>3, <4>1
    <3>6. part = s
      BY <3>3, <3>4, <3>5, SeqEqual
    <3> QED
      BY <3>6 DEF part
  <2> QED
    BY <1>1, <2>1, <2>2, <2>4
<1>10. e[n + 1] = Len(longer)
  BY <1>3, <1>6
<1>11. CutAt(longer, more, e)
  <2>1. ASSUME NEW k \in 1..(n + 1)
        PROVE  /\ more[k] = SubSeq(longer, from(k, e), e[k] - 1)
               /\ IF k = n + 1 THEN e[k] = Len(longer) ELSE e[k] < e[k + 1]
    <3>1. k = n + 1 \/ (k \in 1..n /\ k # n + 1)
      BY <1>1
    <3>2. CASE k = n + 1
      BY <1>9, <1>10, <3>2
    <3>3. CASE k \in 1..n /\ k # n + 1
      BY <1>8, <3>3
    <3> QED
      BY <3>1, <3>2, <3>3
  <2>2. e \in [DOMAIN more -> DOMAIN longer]
    BY <1>6
  <2>3. \A k \in DOMAIN more :
          /\ more[k] = SubSeq(longer, from(k, e), e[k] - 1)
          /\ IF k = Len(more) THEN e[k] = Len(longer) ELSE e[k] < e[k + 1]
    BY <1>1, <2>1
  <2> QED
    BY <1>7, <2>2, <2>3 DEF CutAt
<1> QED
  BY <1>11 DEF longer, more

Block(names) == FlattenSeq([k \in DOMAIN names |-> Terminated(names[k])])

\* A block of names is their text, and cut at the terminators it is the names.
LEMMA BlockIsCut ==
  ASSUME NEW names \in Seq(Seq(Char))
  PROVE  /\ Block(names) \in Text /\ (names = <<>> => Block(names) = <<>>)
         /\ \E e : CutAt(Block(names), names, e)
<1> DEFINE T == {w \in Seq(Seq(Char)) :
                   /\ Block(w) \in Text /\ (w = <<>> => Block(w) = <<>>)
                   /\ \E e : CutAt(Block(w), w, e)}
<1>1. <<>> \in T
  <2>1. [k \in DOMAIN <<>> |-> Terminated(<<>>[k])] = <<>>
    OBVIOUS
  <2>2. Block(<<>>) = <<>>
    BY <2>1 DEF Block, FlattenSeq
  <2>3. CutAt(<<>>, <<>>, <<>>)
    BY DEF CutAt
  <2>4. <<>> \in Seq(Seq(Char)) /\ <<>> \in Text
    BY DEF Text
  <2> QED
    BY <2>2, <2>3, <2>4
<1>2. ASSUME NEW w \in Seq(Seq(Char)), NEW s \in Seq(Char), w \in T
      PROVE  Append(w, s) \in T
  <2> DEFINE parts(v) == [k \in DOMAIN v |-> Terminated(v[k])]
  <2>1. /\ Len(w) \in Nat /\ DOMAIN w = 1..Len(w) /\ \A k \in 1..Len(w) : w[k] \in Seq(Char)
        /\ Append(w, s) \in Seq(Seq(Char)) /\ Append(w, s) # <<>>
        /\ DOMAIN Append(w, s) = 1..(Len(w) + 1) /\ Append(w, s)[Len(w) + 1] = s
        /\ \A k \in 1..Len(w) : Append(w, s)[k] = w[k]
    <3>1. /\ Append(w, s) \in Seq(Seq(Char)) /\ Append(w, s) # <<>>
          /\ Len(Append(w, s)) = Len(w) + 1 /\ Append(w, s)[Len(w) + 1] = s
          /\ \A k \in 1..Len(w) : Append(w, s)[k] = w[k]
      BY AppendProperties
    <3> QED
      BY <3>1
  <2>2. \A v \in Seq(Char) : Terminated(v) \in Text
    BY DEF Terminated, Text
  <2>3. parts(w) \in Seq(Text) /\ Len(parts(w)) = Len(w)
    BY <2>1, <2>2
  <2>4. parts(Append(w, s)) = Append(parts(w), Terminated(s))
    <3>1. /\ parts(Append(w, s)) \in Seq(Text) /\ Len(parts(Append(w, s))) = Len(w) + 1
          /\ \A k \in 1..(Len(w) + 1) : parts(Append(w, s))[k] = Terminated(Append(w, s)[k])
      <4>1. \A k \in 1..(Len(w) + 1) : Terminated(Append(w, s)[k]) \in Text
        <5>1. \A k \in 1..(Len(w) + 1) : Append(w, s)[k] \in Seq(Char)
          BY <2>1
        <5> QED
          BY <2>2, <5>1
      <4> QED
        BY <2>1, <4>1
    <3>2. /\ Append(parts(w), Terminated(s)) \in Seq(Text)
          /\ Len(Append(parts(w), Terminated(s))) = Len(w) + 1
          /\ \A k \in 1..Len(w) : Append(parts(w), Terminated(s))[k] = parts(w)[k]
          /\ Append(parts(w), Terminated(s))[Len(w) + 1] = Terminated(s)
      BY <2>2, <2>3, AppendProperties
    <3>3. \A k \in 1..Len(w) : parts(w)[k] = Terminated(w[k])
      BY <2>1
    <3> HIDE DEF parts
    <3>4. \A k \in 1..(Len(w) + 1) : k = Len(w) + 1 \/ k \in 1..Len(w)
      BY <2>1
    <3>5. \A k \in 1..(Len(w) + 1) :
            parts(Append(w, s))[k] = Append(parts(w), Terminated(s))[k]
      BY <2>1, <3>1, <3>2, <3>3, <3>4
    <3> QED
      BY <3>1, <3>2, <3>5, SeqEqual
  <2>5. Block(Append(w, s)) = Block(w) \o Terminated(s) /\ Block(w) \in Text
    <3> HIDE DEF parts
    <3>1. FlattenSeq(parts(w)) \in Text
      BY <2>3, FlattenSeqIsSeq DEF Text
    <3>2. FlattenSeq(Append(parts(w), Terminated(s))) = FlattenSeq(parts(w)) \o Terminated(s)
      BY <2>2, <2>3, <3>1, FlattenSeqStep DEF Text
    <3> QED
      BY <2>4, <3>1, <3>2 DEF Block, parts
  <2>6. Block(w) \o Terminated(s) \in Text
    BY <2>2, <2>5 DEF Text
  <2>7. \E e : CutAt(Block(w) \o Terminated(s), Append(w, s), e)
    <3>1. PICK ends : CutAt(Block(w), w, ends)
      BY <1>2
    <3>2. w = <<>> => Block(w) = <<>>
      BY <1>2
    <3> QED
      BY <2>5, <3>1, <3>2, OneNameMore
  <2> QED
    BY <2>1, <2>5, <2>6, <2>7
<1> HIDE DEF T
<1>3. Seq(Seq(Char)) \subseteq T
  BY <1>1, <1>2, InductionOnSeq
<1> QED
  BY <1>3 DEF T

\* What a caller may be given: a string it can cut into its names.
ReadsBack(string) ==
  IF string.names = <<>> THEN string.text = <<Nul>>
  ELSE \E e : CutAt(string.text, string.names, e)

\* A single string is cut into itself,
LEMMA StringReadsBack ==
  ASSUME NEW s \in Seq(Char) PROVE ReadsBack(OwnedString(s))
<1>1. PICK ends : CutAt(<<>>, <<>>, ends)
  <2>1. CutAt(<<>>, <<>>, <<>>)
    BY DEF CutAt
  <2> QED
    BY <2>1
<1>2. <<>> \in Text /\ <<>> \in Seq(Seq(Char)) /\ Terminated(s) \in Text
  BY DEF Text, Terminated
<1>3. PICK e : CutAt(<<>> \o Terminated(s), Append(<<>>, s), e)
  BY <1>1, <1>2, OneNameMore
<1>4. <<>> \o Terminated(s) = Terminated(s) /\ Append(<<>>, s) = <<s>> /\ <<s>> # <<>>
  BY <1>2 DEF Text
<1>5. OwnedString(s).text = Terminated(s) /\ OwnedString(s).names = <<s>>
  BY DEF OwnedString
<1> QED
  BY <1>3, <1>4, <1>5 DEF ReadsBack

\* and a block of names into the names of the children.
LEMMA NamesRead ==
  ASSUME NEW n \in Node PROVE ReadsBack(OwnedNames(n)) /\ NamesOf(n) \in Seq(Seq(Char))
<1>1. NamesOf(n) \in Seq(Seq(Char))
  <2>1. Children[n] \in Seq(Node)
    BY NodeAssumption
  <2>2. \A k \in DOMAIN Children[n] : NameUpper[Children[n][k]] \in Seq(Char)
    BY <2>1, NodeAssumption
  <2> QED
    BY <2>1, <2>2 DEF NamesOf
<1>2. OwnedNames(n).text = NamesText(NamesOf(n)) /\ OwnedNames(n).names = NamesOf(n)
  BY DEF OwnedNames
<1>3. NamesOf(n) # <<>> => NamesText(NamesOf(n)) = Block(NamesOf(n))
  BY DEF NamesText, Block
<1>4. NamesOf(n) = <<>> => NamesText(NamesOf(n)) = <<Nul>>
  BY DEF NamesText
<1> QED
  BY <1>1, <1>2, <1>3, <1>4, BlockIsCut DEF ReadsBack

Strings ==
  /\ owned = [b \in Buffer |-> owned[b]]
  /\ \A b \in Buffer : owned[b] # None => ReadsBack(owned[b])

\* A string that is given away lands in a free place.
LEMMA GiveKeepsStrings ==
  ASSUME Strings, NEW s, Give(s), ReadsBack(s) PROVE Strings'
<1>1. PICK b \in Buffer : owned' = [owned EXCEPT ![b] = s]
  BY DEF Give
<1>2. \A c \in Buffer : owned'[c] = IF c = b THEN s ELSE owned[c]
  BY <1>1 DEF Strings
<1>3. owned' = [c \in Buffer |-> owned'[c]]
  BY <1>1 DEF Strings
<1>4. ASSUME NEW c \in Buffer, owned'[c] # None PROVE ReadsBack(owned'[c])
  BY <1>2, <1>4 DEF Strings
<1> QED
  BY <1>3, <1>4 DEF Strings

\* What write_owned_string() gives reads back; it gives nothing when it refuses.
LEMMA WrittenReadsBack ==
  ASSUME Strings, NEW t, NEW s \in Seq(Char), WriteOwnedString(t, s) PROVE Strings'
<1>1. CASE UNCHANGED owned
  BY <1>1 DEF Strings
<1>2. CASE Give(OwnedString(s))
  BY <1>2, StringReadsBack, GiveKeepsStrings
<1> QED
  BY <1>1, <1>2 DEF WriteOwnedString

\* resolve() of words finds a node of the library or nothing.
LEMMA AtFindsNode ==
  ASSUME HInv, NEW l \in Lib, library[l] # None, NEW path \in Path, NEW mode,
         At(l, path, mode).kind = "Found"
  PROVE  At(l, path, mode).node \in Node
<1> DEFINE r == At(l, path, mode)
<1>1. library[l].root \in Node /\ path \in Seq(Seq(Char))
  BY FfiAssumption DEF HInv, HandlesOK, Open
<1>2. Outcome(r, Node, Len(path))
  BY <1>1, ResolveOutcome DEF At
<1>3. ~ \E d \in 0..(Len(path) - 1) : FailsAt(r, d)
  BY FailureIsNoFind
<1>4. PICK n \in Node : r = Found(n)
  BY <1>2, <1>3 DEF Outcome
<1> QED
  BY <1>4, FailureIsNoFind

\* The calls on a library give names of its topics.
LEMMA LibraryStrings ==
  ASSUME HInv, Strings, NEW t \in Thread, NEW l \in Lib, OnLibrary(t, l)
  PROVE  Strings'
<1>1. CASE UNCHANGED owned
  BY <1>1 DEF Strings
<1>2. ASSUME NEW path \in Path, NEW mode \in MatchMode, TopicName(t, l, path, mode)
      PROVE  Strings'
  <2> DEFINE r == At(l, path, mode)
  <2>1. ASSUME r.kind = "Found", WriteOwnedString(t, NameUpper[r.node]) PROVE Strings'
    <3>1. NameUpper[r.node] \in Seq(Char)
      BY <1>2, <2>1, AtFindsNode, NodeAssumption DEF TopicName
    <3> QED
      BY <2>1, <3>1, WrittenReadsBack
  <2> QED
    BY <1>1, <1>2, <2>1 DEF TopicName
<1>3. ASSUME NEW path \in Path, NEW mode \in MatchMode, ChildrenNames(t, l, path, mode)
      PROVE  Strings'
  <2> DEFINE r == At(l, path, mode)
  <2>1. ASSUME r.kind = "Found", WriteNames(t, r.node) PROVE Strings'
    <3>1. r.node \in Node
      BY <1>3, <2>1, AtFindsNode DEF ChildrenNames
    <3> QED
      BY <2>1, <3>1, NamesRead, GiveKeepsStrings DEF WriteNames
  <2> QED
    BY <1>1, <1>3, <2>1 DEF ChildrenNames
<1>4. ASSUME NEW path \in Path, NEW mode \in MatchMode, NEW index \in 0..MaxIndex,
             ChildrenName(t, l, path, mode, index)
      PROVE  Strings'
  <2> DEFINE r == At(l, path, mode)
  <2>1. ASSUME r.kind = "Found", index < Len(Children[r.node]),
               WriteOwnedString(t, NamesOf(r.node)[index + 1])
        PROVE  Strings'
    <3>1. r.node \in Node
      BY <1>4, <2>1, AtFindsNode DEF ChildrenName
    <3>2. Children[r.node] \in Seq(Node) /\ NamesOf(r.node) \in Seq(Seq(Char))
      BY <3>1, NodeAssumption, NamesRead
    <3>3. index + 1 \in DOMAIN NamesOf(r.node)
      <4>1. index + 1 \in 1..Len(Children[r.node])
        BY <2>1, <3>2, FfiAssumption
      <4> QED
        BY <3>2, <4>1 DEF NamesOf
    <3>4. NamesOf(r.node)[index + 1] \in Seq(Char)
      BY <3>2, <3>3
    <3> QED
      BY <2>1, <3>4, WrittenReadsBack
  <2> QED
    BY <1>1, <1>4, <2>1 DEF ChildrenName
<1> QED
  BY <1>1, <1>2, <1>3, <1>4 DEF OnLibrary, NavigatorCreate, TopicLookup, ChildrenCount

\* The calls on a navigator give its path, or the names of the children there.
LEMMA NavigatorStrings ==
  ASSUME HInv, Strings, NEW t \in Thread, NEW n \in Nav, OnNavigator(t, n)
  PROVE  Strings'
<1> DEFINE s == nav[n].stack
<1>1. CASE UNCHANGED owned
  BY <1>1 DEF Strings
<1>2. nav[n] # None => s \in Seq(Node) /\ Here(n) \in Node
  BY DEF HInv, Stands, Descent, Here, Last
<1>3. CASE NavigatorPrompt(t, n)
  <2> DEFINE names == [i \in DOMAIN s |-> NameUpper[s[i]]]
  <2>1. WriteOwnedString(t, FlattenSeq(names)) /\ nav[n] # None
    BY <1>3 DEF NavigatorPrompt
  <2>2. names \in Seq(Seq(Char))
    <3>1. \A i \in 1..Len(s) : NameUpper[s[i]] \in Seq(Char)
      BY <1>2, <2>1, NodeAssumption
    <3> QED
      BY <1>2, <2>1, <3>1
  <2> HIDE DEF names
  <2> QED
    BY <2>1, <2>2, FlattenSeqIsSeq, WrittenReadsBack
<1>4. CASE NavigatorTopicChildren(t, n)
  <2>1. Give(OwnedNames(Here(n))) /\ nav[n] # None
    BY <1>4 DEF NavigatorTopicChildren, WriteNames
  <2> QED
    BY <1>2, <2>1, NamesRead, GiveKeepsStrings
<1> QED
  BY <1>1, <1>3, <1>4 DEF OnNavigator, NavigatorInput, NavigatorGoUp, NavigatorTopicText

\* Whatever string or block of names a caller is given, it finds the names in
\* it by the terminators alone, for any tree and any number of names: no name
\* holds a NUL, and each has one after it.
THEOREM NamesAlwaysReadBack == Spec => []NamesReadBack
<1>1. Init => HInv /\ Strings
  BY InitHandles DEF Init, Strings
<1>2. HInv /\ Strings /\ [Next]_vars => HInv' /\ Strings'
  <2> SUFFICES ASSUME HInv, Strings, [Next]_vars PROVE HInv' /\ Strings'
    OBVIOUS
  <2>1. HInv'
    BY StepKeepsHandles
  <2>2. CASE UNCHANGED owned
    BY <2>1, <2>2 DEF Strings
  <2>3. ASSUME NEW t \in Thread, NEW l \in Lib, OnLibrary(t, l) PROVE Strings'
    BY <2>3, LibraryStrings
  <2>4. ASSUME NEW t \in Thread, NEW n \in Nav, OnNavigator(t, n) PROVE Strings'
    BY <2>4, NavigatorStrings
  <2>5. ASSUME NEW b \in Buffer, StringFree(b) PROVE Strings'
    <3>1. owned' = [owned EXCEPT ![b] = None]
      BY <2>5 DEF StringFree
    <3> QED
      BY <3>1 DEF Strings
  <2> QED
    BY <2>1, <2>2, <2>3, <2>4, <2>5
    DEF Next, vars, Refuse, LibraryOpen, Build, LibraryClose, NavigatorDestroy,
        NavigatorReset
<1>3. Strings => NamesReadBack
  <2> SUFFICES ASSUME Strings, NEW b \in Buffer, owned[b] # None,
                      owned[b].names # <<>>
               PROVE  \E ends \in [DOMAIN owned[b].names -> DOMAIN owned[b].text] :
                        CutAt(owned[b].text, owned[b].names, ends)
    BY DEF Strings, ReadsBack, NamesReadBack
  <2>1. PICK e : CutAt(owned[b].text, owned[b].names, e)
    BY DEF Strings, ReadsBack
  <2> QED
    BY <2>1 DEF CutAt
<1> QED
  BY <1>1, <1>2, <1>3, PTL DEF Spec
=============================================================================
