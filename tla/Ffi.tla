--------------------------------- MODULE Ffi --------------------------------
(***************************************************************************)
(* The C interface, dec-hlp-ffi/src/lib.rs: handles to libraries and       *)
(* navigators, strings that the caller owns, and one error message for     *)
(* each thread.  Callers keep to dec_hlp.h: they use live handles, no two  *)
(* threads one handle at a time, destroy the navigators of a library       *)
(* before they close it, and do not build over a library that is open.     *)
(* Calls that only read (versions, counts, depth) change nothing and are   *)
(* left out; so is the text, which is borrowed and not kept here.          *)
(***************************************************************************)
EXTENDS Engine

CONSTANTS Thread,      \* the threads of the calling program
          Lib, Nav,    \* the handles there may be of each kind: bounds
          Buffer,      \* the strings the caller may own at one time: a bound
          File,        \* the paths of .hlib files
          Built,       \* the roots of what the sources may be built into
          Path, Line,  \* paths of words, and lines, that callers pass
          MaxIndex     \* bound on the index of a child asked for

Nul == "NUL"

\* Names end before a NUL, and so do the strings that C passes in.
ASSUME FfiAssumption ==
  /\ Nul \notin Char
  /\ Built \subseteq {n \in Node : Parent[n] = NoNode}
  /\ Path \subseteq Seq(Seq(Char)) /\ Line \subseteq Seq(Char)
  /\ MaxIndex \in Nat

VARIABLES disk,      \* disk[f]: the root of the library in file f, or what is wrong
          library,   \* library[l]: the file and the root of an open library
          nav,       \* nav[n]: the library and the stack of a navigator
          owned,     \* owned[b]: a string the caller has yet to free
          error,     \* LAST_ERROR of each thread: what it tells, or Silent
          result     \* what the last call of each thread that returns a code gave

vars == <<disk, library, nav, owned, error, result>>

DECHLP_OK == 0
DECHLP_ERR_NULL_ARG == 0 - 1
DECHLP_ERR_IO == 0 - 2
DECHLP_ERR_FORMAT == 0 - 3
DECHLP_ERR_NOT_FOUND == 0 - 4
DECHLP_ERR_AMBIGUOUS == 0 - 5
DECHLP_ERR_BUILD == 0 - 6
DECHLP_ERR_INVALID == 0 - 7
DECHLP_ERR_INTERNAL == 0 - 99
DECHLP_NAV_DISPLAY_TOPIC == 1
DECHLP_NAV_AMBIGUOUS == 2
DECHLP_NAV_NOT_FOUND == 3
DECHLP_NAV_SHOW_TOPICS == 4
DECHLP_NAV_GO_UP == 5
DECHLP_NAV_EXIT == 6
DECHLP_NAV_DISPLAY_MULTI == 7

\* What messages tell; a text that quotes a NUL is <<what, Nul>>.
Silent == <<>>
NullArgument == <<"null argument">>
NotValid == <<"invalid match mode, not UTF-8 or no inputs">>
IoError == <<"I/O error">>
InvalidFormat == <<"invalid .hlib format">>
AmbiguousTopic == <<"ambiguous topic">>
NoSuchTopic == <<"no such topic">>
OutOfRange == <<"child index out of range">>
AlreadyAtRoot == <<"already at root">>
InteriorNul == <<"string contains interior null byte">>
ParseError == <<"parse error">>
ParseErrorWithNul == <<"parse error", Nul>>
BuildError == <<"build error">>
InternalError == <<"Rust panic caught">>

Absent == "absent"   \* there is no such file
Broken == "broken"   \* a file that is no whole library
None == [kind |-> "none"]  \* no live handle, no string

\* set_last_error(): a text with a NUL cannot be a C string, and is replaced by
\* an empty one.
SetLastError(t, message) ==
  error' = [error EXCEPT ![t] = IF Nul \in ToSet(message) THEN Silent ELSE message]

\* Every call with a code begins with clear_last_error().  Other threads see
\* neither slot nor code, so a call is one step.
Answer(t, code) ==
  /\ error' = [error EXCEPT ![t] = Silent]
  /\ result' = [result EXCEPT ![t] = code]
Complain(t, code, message) ==
  SetLastError(t, message) /\ result' = [result EXCEPT ![t] = code]

\* catch(): a panic of the code behind a call becomes a code.
CaughtPanic(t) == Complain(t, DECHLP_ERR_INTERNAL, InternalError)

\* Any call with a null pointer, as an argument or in a path; with a mode that
\* is none, a text that is not UTF-8, or no inputs
Refuse(t) ==
  /\ \/ Complain(t, DECHLP_ERR_NULL_ARG, NullArgument)
     \/ Complain(t, DECHLP_ERR_INVALID, NotValid)
  /\ UNCHANGED <<disk, library, nav, owned>>
-----------------------------------------------------------------------------
\* Strings: the characters with their terminators, and the bytes allocated
\* for them.
Terminated(s) == Append(s, Nul)

\* CString::into_raw() gives away a block of exactly the size of the string.
OwnedString(s) == [text |-> Terminated(s), capacity |-> Len(s) + 1, names |-> <<s>>]

\* Mutant: names are separated, but the last is not terminated.
Separated(names) ==
  IF names = <<>> THEN <<Nul>> ELSE Front(FlattenSeq([k \in DOMAIN names |-> Terminated(names[k])]))

\* The names of children in one block, each with its terminator, or one
\* terminator when there are none.
NamesText(names) ==
  IF names = <<>> THEN <<Nul>>
  ELSE FlattenSeq([k \in DOMAIN names |-> Terminated(names[k])])

\* Vec<u8>: a block that is too small doubles, and begins with eight bytes.
Grown(capacity, need) ==
  IF need <= capacity THEN capacity ELSE Max({2 * capacity, need, 8})
Capacity(names) ==
  FoldLeft(LAMBDA c, k : Grown(Grown(c, Len(NamesText(SubSeq(names, 1, k))) - 1),
                               Len(NamesText(SubSeq(names, 1, k)))),
           0, IF names = <<>> THEN <<0>> ELSE [k \in DOMAIN names |-> k])

NamesOf(n) == [k \in DOMAIN Children[n] |-> NameUpper[Children[n][k]]]

OwnedNames(n) == [text |-> NamesText(NamesOf(n)), capacity |-> Capacity(NamesOf(n)),
                  names |-> NamesOf(n)]

\* dechlp_string_free(): CString::from_raw() takes the size from the text.
FreedSize(s) == Min({i \in DOMAIN s.text : s.text[i] = Nul})

StringFree(b) ==
  /\ owned[b] # None
  /\ owned' = [owned EXCEPT ![b] = None]
  /\ UNCHANGED <<disk, library, nav, error, result>>

Give(s) == \E b \in Buffer : owned[b] = None /\ owned' = [owned EXCEPT ![b] = s]

\* write_owned_string(): no name and no prompt has a NUL, but it would be refused.
WriteOwnedString(t, s) ==
  IF Nul \in ToSet(s)
  THEN Complain(t, DECHLP_ERR_INTERNAL, InteriorNul) /\ UNCHANGED owned
  ELSE Answer(t, DECHLP_OK) /\ Give(OwnedString(s))

WriteNames(t, n) == Answer(t, DECHLP_OK) /\ Give(OwnedNames(n))
-----------------------------------------------------------------------------
\* Libraries
LibraryOpen(t, f) ==
  /\ CASE disk[f] = Absent -> Complain(t, DECHLP_ERR_IO, IoError) /\ UNCHANGED library
       [] disk[f] = Broken -> Complain(t, DECHLP_ERR_FORMAT, InvalidFormat)
                              /\ UNCHANGED library
       [] OTHER ->
            /\ Answer(t, DECHLP_OK)
            /\ \E l \in Lib : /\ library[l] = None
                              /\ library' = [library EXCEPT
                                               ![l] = [file |-> f, root |-> disk[f]]]
  /\ UNCHANGED <<disk, nav, owned>>

\* By contract no navigator of the library is left.
LibraryClose(l) ==
  /\ library[l] # None /\ \A n \in Nav : nav[n] # None => nav[n].lib # l
  /\ library' = [library EXCEPT ![l] = None]
  /\ UNCHANGED <<disk, nav, owned, error, result>>

At(l, path, mode) == Resolve(library[l].root, path, mode)

\* The arms of a lookup that finds no topic; the messages quote names and what
\* the caller passed, and neither holds a NUL.
Unresolved(t, r) ==
  \/ r.kind = "AmbiguousAt" /\ Complain(t, DECHLP_ERR_AMBIGUOUS, AmbiguousTopic)
  \/ r.kind = "NotFoundAt" /\ Complain(t, DECHLP_ERR_NOT_FOUND, NoSuchTopic)

TopicLookup(t, l, path, mode) ==
  LET r == At(l, path, mode)
  IN  /\ library[l] # None
      /\ (r.kind = "Found" /\ Answer(t, DECHLP_OK)) \/ Unresolved(t, r)
      /\ UNCHANGED <<disk, library, nav, owned>>

TopicName(t, l, path, mode) ==
  LET r == At(l, path, mode)
  IN  /\ library[l] # None
      /\ \/ r.kind = "Found" /\ WriteOwnedString(t, NameUpper[r.node])
         \/ Unresolved(t, r) /\ UNCHANGED owned
      /\ UNCHANGED <<disk, library, nav>>

ChildrenCount(t, l, path, mode) ==
  LET r == At(l, path, mode)
  IN  /\ library[l] # None
      /\ (r.kind = "Found" /\ Answer(t, DECHLP_OK)) \/ Unresolved(t, r)
      /\ UNCHANGED <<disk, library, nav, owned>>

ChildrenName(t, l, path, mode, index) ==
  LET r == At(l, path, mode)
  IN  /\ library[l] # None
      /\ \/ /\ r.kind = "Found" /\ index < Len(Children[r.node])
            /\ WriteOwnedString(t, NamesOf(r.node)[index + 1])
         \/ /\ r.kind = "Found" /\ index >= Len(Children[r.node])
            /\ Complain(t, DECHLP_ERR_INVALID, OutOfRange) /\ UNCHANGED owned
         \/ Unresolved(t, r) /\ UNCHANGED owned
      /\ UNCHANGED <<disk, library, nav>>

ChildrenNames(t, l, path, mode) ==
  LET r == At(l, path, mode)
  IN  /\ library[l] # None
      /\ \/ r.kind = "Found" /\ WriteNames(t, r.node)
         \/ Unresolved(t, r) /\ UNCHANGED owned
      /\ UNCHANGED <<disk, library, nav>>

\* Sources that do not parse leave the file alone; the name that is too long is
\* quoted, whatever is in it.  A build that fails may leave the old file, no
\* library, or, when the writer's drop writes what was left, the whole new one.
\* Offsets that overflow stop a debug build in the middle.
Build(t, f) ==
  LET left(what) == disk' = [disk EXCEPT ![f] = what]
  IN  /\ \A l \in Lib : library[l] # None => library[l].file # f
      /\ \/ /\ \E message \in {ParseError, ParseErrorWithNul} :
                 Complain(t, DECHLP_ERR_BUILD, message)
            /\ UNCHANGED disk
         \/ /\ Complain(t, DECHLP_ERR_BUILD, BuildError)
            /\ UNCHANGED disk \/ (\E what \in Built \cup {Broken} : left(what))
         \/ CaughtPanic(t) /\ left(Broken)
         \/ Answer(t, DECHLP_OK) /\ \E r \in Built : left(r)
      /\ UNCHANGED <<library, nav, owned>>
-----------------------------------------------------------------------------
\* Navigators
\* Mutant: the navigator looks at another library that happens to be open.
CreateElsewhere(t, l) ==
  /\ library[l] # None /\ Answer(t, DECHLP_OK)
  /\ \E n \in Nav, m \in Lib :
       /\ nav[n] = None /\ library[m] # None
       /\ nav' = [nav EXCEPT ![n] = [lib |-> l, stack |-> <<library[m].root>>]]
  /\ UNCHANGED <<disk, library, owned>>

NavigatorCreate(t, l) ==
  /\ library[l] # None /\ Answer(t, DECHLP_OK)
  /\ \E n \in Nav :
       /\ nav[n] = None
       /\ nav' = [nav EXCEPT ![n] = [lib |-> l, stack |-> <<library[l].root>>]]
  /\ UNCHANGED <<disk, library, owned>>

NavigatorDestroy(n) ==
  /\ nav[n] # None /\ nav' = [nav EXCEPT ![n] = None]
  /\ UNCHANGED <<disk, library, owned, error, result>>

Moves(n, stack) == nav' = [nav EXCEPT ![n].stack = stack]
Here(n) == Last(nav[n].stack)
AtRoot(n) == Len(nav[n].stack) = 1

NavigatorInput(t, n, line, mode) ==
  LET r == Lookup(Here(n), line, mode)
  IN  /\ nav[n] # None
      /\ \/ /\ line = <<>> /\ AtRoot(n)
            /\ Answer(t, DECHLP_NAV_EXIT) /\ UNCHANGED nav
         \/ /\ line = <<>> /\ ~ AtRoot(n)
            /\ Answer(t, DECHLP_NAV_GO_UP) /\ Moves(n, Front(nav[n].stack))
         \/ /\ line = <<"?">>
            /\ Answer(t, DECHLP_NAV_SHOW_TOPICS) /\ UNCHANGED nav
         \/ /\ line \notin {<<>>, <<"?">>} /\ r.kind = "Found"
            /\ Answer(t, DECHLP_NAV_DISPLAY_TOPIC)
            /\ Moves(n, Append(nav[n].stack, r.node))
         \/ /\ line \notin {<<>>, <<"?">>} /\ r.kind # "Found" /\ UNCHANGED nav
            /\ IF r.kind = "NotFound" THEN Complain(t, DECHLP_NAV_NOT_FOUND, NoSuchTopic)
               ELSE IF IsWildcard(line) THEN Answer(t, DECHLP_NAV_DISPLAY_MULTI)
               ELSE Complain(t, DECHLP_NAV_AMBIGUOUS, AmbiguousTopic)
      /\ UNCHANGED <<disk, library, owned>>

\* Mutant: the refusal at the root leaves no message.
GoUpSilently(t, n) ==
  /\ nav[n] # None
  /\ IF AtRoot(n) THEN Answer(t, DECHLP_ERR_INVALID) /\ UNCHANGED nav
     ELSE Answer(t, DECHLP_OK) /\ Moves(n, Front(nav[n].stack))
  /\ UNCHANGED <<disk, library, owned>>

NavigatorGoUp(t, n) ==
  /\ nav[n] # None
  /\ IF AtRoot(n) THEN Complain(t, DECHLP_ERR_INVALID, AlreadyAtRoot) /\ UNCHANGED nav
     ELSE Answer(t, DECHLP_OK) /\ Moves(n, Front(nav[n].stack))
  /\ UNCHANGED <<disk, library, owned>>

NavigatorReset(n) ==
  /\ nav[n] # None /\ Moves(n, SubSeq(nav[n].stack, 1, 1))
  /\ UNCHANGED <<disk, library, owned, error, result>>

\* The names of the path, which the prompt is made of
NavigatorPrompt(t, n) ==
  /\ nav[n] # None
  /\ WriteOwnedString(t, FlattenSeq([i \in DOMAIN nav[n].stack |->
                                      NameUpper[nav[n].stack[i]]]))
  /\ UNCHANGED <<disk, library, nav>>

NavigatorTopicText(t, n) ==
  /\ nav[n] # None /\ Answer(t, DECHLP_OK)
  /\ UNCHANGED <<disk, library, nav, owned>>

NavigatorTopicChildren(t, n) ==
  /\ nav[n] # None /\ WriteNames(t, Here(n))
  /\ UNCHANGED <<disk, library, nav>>
-----------------------------------------------------------------------------
Init ==
  /\ disk \in [File -> {Absent, Broken} \cup Built]
  /\ library = [l \in Lib |-> None] /\ nav = [n \in Nav |-> None]
  /\ owned = [b \in Buffer |-> None]
  /\ error = [t \in Thread |-> Silent] /\ result = [t \in Thread |-> DECHLP_OK]

OnLibrary(t, l) ==
  \/ NavigatorCreate(t, l)
  \/ \E path \in Path, mode \in MatchMode :
       \/ TopicLookup(t, l, path, mode) \/ TopicName(t, l, path, mode)
       \/ ChildrenCount(t, l, path, mode) \/ ChildrenNames(t, l, path, mode)
       \/ \E index \in 0..MaxIndex : ChildrenName(t, l, path, mode, index)

OnNavigator(t, n) ==
  \/ \E line \in Line, mode \in MatchMode : NavigatorInput(t, n, line, mode)
  \/ NavigatorGoUp(t, n) \/ NavigatorPrompt(t, n)
  \/ NavigatorTopicText(t, n) \/ NavigatorTopicChildren(t, n)

Next ==
  \/ \E t \in Thread :
       \/ Refuse(t)
       \/ \E f \in File : LibraryOpen(t, f) \/ Build(t, f)
       \/ \E l \in Lib : OnLibrary(t, l)
       \/ \E n \in Nav : OnNavigator(t, n)
  \/ \E l \in Lib : LibraryClose(l)
  \/ \E n \in Nav : NavigatorDestroy(n) \/ NavigatorReset(n)
  \/ \E b \in Buffer : StringFree(b)

Spec == Init /\ [][Next]_vars
-----------------------------------------------------------------------------
\* What dechlp_last_error() may tell after each code that says that something
\* went wrong: always something, but that the message of a build that failed is
\* lost when it quotes a name with a NUL.
Tells(code) ==
  CASE code = DECHLP_ERR_NULL_ARG -> {NullArgument}
    [] code = DECHLP_ERR_IO -> {IoError}
    [] code = DECHLP_ERR_FORMAT -> {InvalidFormat}
    [] code \in {DECHLP_ERR_NOT_FOUND, DECHLP_NAV_NOT_FOUND} -> {NoSuchTopic}
    [] code \in {DECHLP_ERR_AMBIGUOUS, DECHLP_NAV_AMBIGUOUS} -> {AmbiguousTopic}
    [] code = DECHLP_ERR_BUILD -> {ParseError, BuildError, Silent}
    [] code = DECHLP_ERR_INVALID -> {NotValid, OutOfRange, AlreadyAtRoot}
    [] code = DECHLP_ERR_INTERNAL -> {InteriorNul, InternalError}
    [] OTHER -> {Silent}

\* dechlp_last_error() tells what went wrong in the last call of the same thread
\* that returned a code, and is empty when nothing did: each return of each call
\* has set its own message or cleared the one before, whatever other threads did
\* and whatever calls without a code came after.
ErrorIsOfLastCall == \A t \in Thread : error[t] \in Tells(result[t])

\* Every navigator stands on a path of the library it was created for, and
\* that library is open, although handles are reused and several libraries
\* are open: the lifetime that the code transmutes away is respected.
NavigatorsStayInTheirLibrary ==
  \A n \in Nav : nav[n] # None =>
    /\ library[nav[n].lib] # None
    /\ nav[n].stack[1] = library[nav[n].lib].root
    /\ \A i \in 1..(Len(nav[n].stack) - 1) :
         Parent[nav[n].stack[i + 1]] = nav[n].stack[i]

\* The terminators in a text are at these places, the last at its end, and the
\* names are what they cut it into.
CutAt(text, names, ends) ==
  /\ ends \in [DOMAIN names -> DOMAIN text]
  /\ \A i \in DOMAIN text : text[i] = Nul <=> \E k \in DOMAIN names : ends[k] = i
  /\ \A k \in DOMAIN names :
       /\ names[k] = SubSeq(text, IF k = 1 THEN 1 ELSE ends[k - 1] + 1, ends[k] - 1)
       /\ IF k = Len(names) THEN ends[k] = Len(text) ELSE ends[k] < ends[k + 1]

\* A caller that cuts a block of names at the terminators, up to the length it
\* was told, gets exactly the names, one after the other; a single terminator
\* stands for no names.
NamesReadBack ==
  \A b \in Buffer : owned[b] # None =>
    LET text == owned[b].text
        names == owned[b].names
    IN  IF names = <<>> THEN text = <<Nul>>
        ELSE \E ends \in [DOMAIN names -> DOMAIN text] : CutAt(text, names, ends)

\* "Allocate via CString-compatible mechanism" (the comment in
\* dechlp_children_names): a block goes back with the size it was taken with.
FreedAsAllocated ==
  [][\A b \in Buffer : owned[b] # None /\ owned'[b] = None =>
       FreedSize(owned[b]) = owned[b].capacity]_vars
=============================================================================
