------------------------------- MODULE Python -------------------------------
(***************************************************************************)
(* The Python classes Library, Navigator, Topic and NavResult, which is    *)
(* dec-hlp-python/src/lib.rs, as one program uses them.  Library objects   *)
(* are counted references; Topic and NavResult hold copies.  The topics    *)
(* have names as a source file gives them.                                 *)
(***************************************************************************)
EXTENDS Engine, TopicNames

CONSTANTS Root,         \* the root that a build of each source file would write
          HeaderLine,   \* HeaderLine[n]: the line that begins the topic n
          Name,         \* Name[n]: the name stored in n's record
          LibObj,       \* the Library objects there may be at one time: a bound
          NavObj,       \* and the Navigator objects
          Line, Path    \* lines and paths of words that the program passes

IsTopic(n) == Parent[n] # NoNode

\* NodeRef::level(): what the builder stores, 0 for a root
Level(n) == IF IsTopic(n) THEN HeaderLevel(HeaderLine[n]) ELSE 0

\* The libraries are built from source files: the names are those the builder
\* stores for its topics, and the tables are in the builder's order.
ASSUME PythonAssumption ==
  /\ Root \subseteq {n \in Node : ~ IsTopic(n)}
  /\ HeaderLine \in [Node -> Seq(Char)] /\ Name \in [Node -> Seq(Char)]
  /\ \A n \in Node : IsTopic(n) =>
       /\ IsHeader(HeaderLine[n])
       /\ Name[n] = StoredName(HeaderLine[n])
       /\ NameUpper[n] = StoredUpper(HeaderLine[n])
       /\ HeaderLevel(HeaderLine[n]) = Level(Parent[n]) + 1
  /\ \A n \in Node : \A i, j \in DOMAIN Children[n] : i < j =>
       ~ SortedBefore(HeaderLine[Children[n][j]], HeaderLine[Children[n][i]])
  /\ Line \subseteq Seq(Char) /\ Path \subseteq Seq(Seq(Char))
  /\ LibObj \cap NavObj = {}

VARIABLES library,  \* the root of each Library object in memory
          held,     \* the Library objects that variables of the program refer to
          nav,      \* the Library and the stack of each Navigator object
          result    \* what the last call returned, and what it was asked of

vars == <<library, held, nav, result>>

None == [kind |-> "none"]

RootOf[n \in Node] == IF IsTopic(n) THEN RootOf[Parent[n]] ELSE n

\* Source files that the parser takes, so that there is a library to open
Built ==
  {r \in Root : \A n \in Node : IsTopic(n) /\ RootOf[n] = r => Accepted(HeaderLine[n])}

NamesOf(S) == {Name[n] : n \in S}

\* extract_topic()
ExtractTopic(n) == [name |-> Name[n], level |-> Level(n), children |-> NamesOf(Kids(n))]

Result(kind, topics, names, of, path, mode) ==
  [kind |-> kind, topics |-> {ExtractTopic(n) : n \in topics}, names |-> names,
   of |-> of, path |-> path, mode |-> mode]

Raised == Result("RuntimeError", {}, {}, None, <<>>, Exact)
Returned == Result("None", {}, {}, None, <<>>, Exact)

InUse(l) == library[l] # None
-----------------------------------------------------------------------------
\* Library

\* Mutant: a Navigator holds no reference to its Library.
FreedWithVariable(holding, navs) ==
  [l \in LibObj |-> IF l \in holding THEN library[l] ELSE None]

\* The interpreter counts the references to an object and frees it with the
\* last one: those of the program, and the _library of each Navigator.
Freed(holding, navs) ==
  [l \in LibObj |->
     IF l \in holding \/ \E n \in NavObj : navs[n] # None /\ navs[n].library = l
     THEN library[l] ELSE None]

\* Library(path) and Library.from_bytes(data): a file is mapped, bytes are
\* copied, so that the object holds all it needs.
LibraryNew(l, root) ==
  /\ ~ InUse(l)
  /\ library' = [library EXCEPT ![l] = [kind |-> "library", root |-> root]]
  /\ held' = held \cup {l} /\ result' = Returned
  /\ UNCHANGED nav

\* There is no such file, or it is no whole library.
LibraryNewRaises == result' = Raised /\ UNCHANGED <<library, held, nav>>

LibraryDel(l) ==
  /\ l \in held /\ held' = held \ {l}
  /\ library' = Freed(held', nav)
  /\ UNCHANGED <<nav, result>>

RootTopicsOf(l) ==
  /\ l \in held
  /\ result' = Result("children", {}, NamesOf(Kids(library[l].root)), l, <<>>, Abbreviation)
  /\ UNCHANGED <<library, held, nav>>

\* None stands for NotFoundAt and for AmbiguousAt.
LibraryLookup(l, path, mode) ==
  LET r == Resolve(library[l].root, path, mode)
  IN  /\ l \in held
      /\ result' = IF r.kind = "Found"
                   THEN Result("topic", {r.node}, NamesOf(Kids(r.node)), l, path, mode)
                   ELSE Returned
      /\ UNCHANGED <<library, held, nav>>

LibraryChildren(l, path, mode) ==
  LET r == Resolve(library[l].root, path, mode)
  IN  /\ l \in held
      /\ result' = Result("children", {},
                     CASE path = <<>> -> NamesOf(Kids(library[l].root))
                       [] path # <<>> /\ r.kind = "Found" -> NamesOf(Kids(r.node))
                       [] OTHER -> {}, l, path, mode)
      /\ UNCHANGED <<library, held, nav>>
-----------------------------------------------------------------------------
\* Navigator

NavigatorNew(n, l) ==
  /\ nav[n] = None /\ l \in held
  /\ nav' = [nav EXCEPT ![n] = [kind |-> "navigator", library |-> l,
                                stack |-> <<library[l].root>>]]
  /\ result' = Returned
  /\ UNCHANGED <<library, held>>

NavigatorDel(n) ==
  /\ nav[n] # None /\ nav' = [nav EXCEPT ![n] = None]
  /\ library' = Freed(held, nav')
  /\ result' = IF result.of = n THEN Returned ELSE result
  /\ UNCHANGED held

\* Mutant: an empty line at the root goes up.
GoesUpAlways(stack, line, mode) ==
  [kind |-> "go_up", nodes |-> {}, stack |-> Front(stack)]

\* engine::Navigator::input(): the stack afterwards, and the NavAction
Answer(stack, line, mode) ==
  LET word == Trim(line)
      here == Last(stack)
      r == Lookup(here, word, mode)
      act(kind, nodes, s) == [kind |-> kind, nodes |-> nodes, stack |-> s]
  IN  CASE word = <<>> /\ Len(stack) = 1 -> act("exit", {}, stack)
        [] word = <<>> /\ Len(stack) > 1 -> act("go_up", {}, Front(stack))
        [] word = <<"?">> -> act("show_topics", Kids(here), stack)
        [] OTHER ->
             CASE r.kind = "Found" -> act("display_topic", {r.node}, Append(stack, r.node))
               [] r.kind = "NotFound" -> act("not_found", Kids(here), stack)
               [] r.kind = "Ambiguous" ->
                    act(IF IsWildcard(word) THEN "display_multiple" ELSE "ambiguous",
                        r.nodes, stack)

\* convert_nav_action(): topics and names are copied out of the library.
Converted(n, a) ==
  CASE a.kind = "display_topic" ->
         Result(a.kind, a.nodes, NamesOf(Kids(Last(a.stack))), n, <<>>, Exact)
    [] a.kind = "display_multiple" -> Result(a.kind, a.nodes, {}, n, <<>>, Exact)
    [] OTHER -> Result(a.kind, {}, NamesOf(a.nodes), n, <<>>, Exact)

NavigatorInput(n, line, mode) ==
  /\ nav[n] # None
  /\ LET a == Answer(nav[n].stack, line, mode)
     IN  nav' = [nav EXCEPT ![n].stack = a.stack] /\ result' = Converted(n, a)
  /\ UNCHANGED <<library, held>>

NavigatorGoUp(n) ==
  /\ nav[n] # None
  /\ nav' = [nav EXCEPT ![n].stack = IF Len(@) = 1 THEN @ ELSE Front(@)]
  /\ result' = Returned
  /\ UNCHANGED <<library, held>>

NavigatorReset(n) ==
  /\ nav[n] # None /\ nav' = [nav EXCEPT ![n].stack = SubSeq(@, 1, 1)]
  /\ result' = Returned
  /\ UNCHANGED <<library, held>>
-----------------------------------------------------------------------------
Init ==
  /\ library = [l \in LibObj |-> None] /\ held = {}
  /\ nav = [n \in NavObj |-> None] /\ result = Returned

Next ==
  \/ LibraryNewRaises
  \/ \E l \in LibObj :
       \/ \E root \in Built : LibraryNew(l, root)
       \/ LibraryDel(l) \/ RootTopicsOf(l)
       \/ \E path \in Path, mode \in MatchMode :
            LibraryLookup(l, path, mode) \/ LibraryChildren(l, path, mode)
       \/ \E n \in NavObj : NavigatorNew(n, l)
  \/ \E n \in NavObj :
       \/ NavigatorDel(n) \/ NavigatorGoUp(n) \/ NavigatorReset(n)
       \/ \E line \in Line, mode \in MatchMode : NavigatorInput(n, line, mode)

Spec == Init /\ [][Next]_vars
-----------------------------------------------------------------------------
\* Objects are libraries and navigators with a stack; results hold copies.
TypeOK ==
  /\ \A l \in LibObj : InUse(l) => library[l].root \in Built
  /\ held \subseteq {l \in LibObj : InUse(l)}
  /\ \A n \in NavObj : nav[n] # None =>
       nav[n].library \in LibObj /\ nav[n].stack \in Seq(Node) \ {<<>>}
  /\ \A t \in result.topics : t \in [name : Seq(Char), level : 0..9,
                                     children : SUBSET Seq(Char)]
  /\ result.names \subseteq Seq(Char)

\* However the program creates and drops its objects, the library a Navigator
\* looks into is in memory as long as the Navigator is, and is the one it was
\* created for; when nobody can use a library any more it is gone.
NavigatorsKeepTheirLibrary ==
  /\ \A n \in NavObj : nav[n] # None =>
       LET s == nav[n].stack
       IN  /\ InUse(nav[n].library) /\ s[1] = library[nav[n].library].root
           /\ \A i \in 1..(Len(s) - 1) : Parent[s[i + 1]] = s[i]
  /\ \A l \in LibObj : InUse(l) =>
       l \in held \/ \E n \in NavObj : nav[n] # None /\ nav[n].library = l

\* A name as far as a NUL in it; the terminator ends the field there.
UpToNul(s) == SubSeq(s, 1, Min({i \in DOMAIN s : s[i] = Nul} \cup {Len(s) + 1}) - 1)

\* A name that comes out of a library is one that stands in the source, whole
\* and in its own spelling: what the parser lets pass fits the field.
NamesAsWritten ==
  \A name \in result.names \cup {t.name : t \in {u \in result.topics : u.level > 0}} :
    \E n \in Node : IsTopic(n) /\ name = UpToNul(HeaderName(HeaderLine[n]))

\* The spellings a topic answers to: its name, if that is ASCII, and its name in
\* capitals, if they fit the field; unless they are a pattern or the question
\* mark, or begin or end with what trim() takes off.
Spellings(name) ==
  {s \in {t \in {name} : \A i \in DOMAIN t : Width[t[i]] = 1}
         \cup {t \in {ToUppercase(name)} : Len(Bytes(t)) < NAME_FIELD_SIZE} :
     ~ IsWildcard(s) /\ s \notin {<<>>, <<"?">>} /\ Trim(s) = s}

\* Where a word leads from the place that the last result was about
LedTo(word, mode) ==
  IF result.of \in NavObj
  THEN LET a == Answer(nav[result.of].stack, word, mode)
       IN  IF a.kind = "display_topic" THEN a.nodes ELSE {}
  ELSE LET from == Resolve(library[result.of].root, result.path, result.mode)
           r == Lookup(from.node, word, mode)
       IN  IF r.kind = "Found" THEN {r.node} ELSE {}

\* Every name the program is offered (the children of a topic or of the root,
\* the candidates of an ambiguous word, what is available when a word is not
\* found) leads on to a topic of that name when it is passed in.
OfferedNamesLeadOn ==
  result.of \in NavObj \cup held =>
    \A name \in result.names : \A word \in Spellings(name), mode \in MatchMode :
      \E n \in LedTo(word, mode) : ToUppercase(Name[n]) = ToUppercase(name)
=============================================================================
