------------------------------- MODULE Session ------------------------------
(***************************************************************************)
(* One run of hlp in browsing mode: run_browse() and run_interactive() of  *)
(* hlp/src/main.rs.  The session keeps a path of names, not of nodes, and  *)
(* resolves it again against all libraries at every step.  Listings and    *)
(* messages go to stderr and appear here only as the last reply.           *)
(***************************************************************************)
EXTENDS Engine

CONSTANTS Cli,        \* the command lines, with the environment they meet
          Readable,   \* the library files that open: their roots
          Installed,  \* the library files found on the search path, in order
          Line,       \* trimmed lines the user may type
          ManPage,    \* the words for which man has a page
          BigTopic,   \* topics too long for the buffer of a BufWriter
          MaxShown    \* bound on the topics and pages shown in one run

ASSUME SessionAssumption ==
  /\ \A c \in Cli : /\ c.tty \in BOOLEAN /\ c.no_prompt \in BOOLEAN
                    /\ c.no_pager \in BOOLEAN /\ c.mode \in MatchMode
                    /\ c.output \in {"stdout", "file", "uncreatable"}
                    /\ c.topics \in Seq(Seq(Char))
                    /\ c.libraries \in Seq(Node) /\ c.env \in Seq(Node)
  /\ Installed \in Seq(Node) /\ ParentsEnd
  /\ Readable \subseteq {n \in Node : Parent[n] = NoNode}
  /\ Line \subseteq Seq(Char) /\ ManPage \subseteq Seq(Char)
  /\ BigTopic \subseteq Node /\ MaxShown \in Nat

VARIABLES cli,         \* the command line of this run
          pc,          \* "start", "prompt" or "done"
          exit,        \* the exit code, once done
          path_stack,  \* the names of the current path
          current,     \* current_lib_and_node: the current node, or NoNode
          seen,        \* SeenPages of this process
          seenFile,    \* the names load() finds in ~/.config/hlp/seen.yaml
          out,         \* what was shown, and where it has got to
          reply        \* what was last said on stderr

vars == <<cli, pc, exit, path_stack, current, seen, seenFile, out, reply>>

QuestionMark == <<"?">>
EXIT_SUCCESS == 0
EXIT_NOT_FOUND == 1
EXIT_LIBRARY_ERROR == 3
EXIT_NO_LIBRARY == 4

NoPrompt == cli.no_prompt \/ cli.output # "stdout" \/ ~ cli.tty
NoPager == cli.no_pager \/ cli.output # "stdout" \/ ~ cli.tty
-----------------------------------------------------------------------------
\* load_libraries(): -l alone if given, else HLP_LIBRARY and the search path,
\* where files that do not open are passed over with a warning.
Loaded(code, libs) == [code |-> code, libs |-> libs]
LoadLibraries ==
  LET opens(f) == f \in Readable
      installed == [i \in DOMAIN Installed |->
                      IF opens(Installed[i]) THEN <<Installed[i]>> ELSE <<>>]
      searched == cli.env \o FlattenSeq(installed)
      named == IF cli.libraries # <<>> THEN cli.libraries ELSE cli.env
  IN  IF \E i \in DOMAIN named : ~ opens(named[i])
      THEN Loaded(EXIT_LIBRARY_ERROR, <<>>)
      ELSE IF cli.libraries # <<>> THEN Loaded(EXIT_SUCCESS, cli.libraries)
      ELSE IF searched = <<>> THEN Loaded(EXIT_NO_LIBRARY, <<>>)
      ELSE Loaded(EXIT_SUCCESS, searched)

\* No library at all is an empty set: man pages may still be found.
libs == LoadLibraries.libs
Resolved(path) == LibResolve(libs, path, cli.mode)
-----------------------------------------------------------------------------
\* Where shown text goes.  `screen` is standard output and what children of the
\* process write there; `buffer` is the BufWriter of run_browse, which reaches
\* its file or standard output when run_browse returns or the text is long.
ATopic(n) == [topic |-> n]
APage(w) == [page |-> w]
AListing == [listing |-> "level 1"]

OnScreen(o, x) == [o EXCEPT !.screen = Append(@, x), !.shown = Append(@, x)]

Flushed(o) ==
  IF cli.output = "file"
  THEN [o EXCEPT !.file = @ \o o.buffer, !.buffer = <<>>]
  ELSE [o EXCEPT !.screen = @ \o o.buffer, !.buffer = <<>>]

Buffered(o, x, big) ==
  LET added == [o EXCEPT !.buffer = Append(@, x), !.shown = Append(@, x)]
  IN  IF big THEN Flushed(added) ELSE added

Room == Len(out.shown) < MaxShown

\* Mutant: process::exit() is called without dropping the writer.
Unflushed(code, o) == pc' = "done" /\ exit' = code /\ out' = o

\* run_browse returns `code`; its writer is dropped.
Return(code, o) == pc' = "done" /\ exit' = code /\ out' = Flushed(o)

Say(kind, word, topics, pages) ==
  reply' = [kind |-> kind, word |-> word, topics |-> topics, pages |-> pages]

\* The key of a man page in the cache: to_lowercase() and the folding used here
\* identify the same words.
SeenKey(word) == ToAsciiUppercase(word)

\* save() is best effort and tells nobody: without a home, or when the file
\* does not open, nothing changes; when a write fails, the names written before
\* are left.
Save == UNCHANGED seenFile \/ seenFile' \in SUBSET seen'

\* Mutant: the word is remembered as it was typed.
RememberAsTyped(word) ==
  /\ word \in ManPage
  /\ seen' = (IF pc = "start" THEN seenFile ELSE seen) \cup {word}
  /\ Save

\* try_man_fallback(): man may still fail to show the page it has.
ManShown(word) ==
  /\ word \in ManPage
  /\ seen' = (IF pc = "start" THEN seenFile ELSE seen) \cup {SeenKey(word)}
  /\ Save
NoMan == seen' = (IF pc = "start" THEN seenFile ELSE seen) /\ UNCHANGED seenFile

StartPath(n) == IF n = NoNode THEN <<>> ELSE NamesTo[n]

\* Mutant: a run without a prompt always succeeds.
AlwaysSucceeds(code, n, o) ==
  IF NoPrompt
  THEN Return(EXIT_SUCCESS, o) /\ UNCHANGED <<path_stack, current>>
  ELSE /\ pc' = "prompt" /\ out' = o /\ UNCHANGED exit
       /\ path_stack' = StartPath(n) /\ current' = n

\* run_browse goes on: it returns, or run_interactive starts at n.
Continue(code, n, o) ==
  IF NoPrompt
  THEN Return(code, o) /\ UNCHANGED <<path_stack, current>>
  ELSE /\ pc' = "prompt" /\ out' = o /\ UNCHANGED exit
       /\ path_stack' = StartPath(n) /\ current' = n
-----------------------------------------------------------------------------
Init ==
  /\ cli \in Cli /\ pc = "start" /\ exit = EXIT_SUCCESS
  /\ path_stack = <<>> /\ current = NoNode
  /\ seen = {} /\ seenFile \in SUBSET {SeenKey(w) : w \in ManPage}
  /\ out = [screen |-> <<>>, file |-> <<>>, buffer |-> <<>>, shown |-> <<>>]
  /\ reply = [kind |-> "None", word |-> <<>>, topics |-> {}, pages |-> {}]

\* run_browse until it has its libraries and its writer
Starts == pc = "start" /\ UNCHANGED cli
CannotStart == LoadLibraries.code = EXIT_LIBRARY_ERROR \/ cli.output = "uncreatable"

BrowseFails ==
  /\ Starts /\ CannotStart
  /\ Return(EXIT_LIBRARY_ERROR, out) /\ NoMan
  /\ Say("Error", <<>>, {}, {}) /\ UNCHANGED <<path_stack, current>>

\* Topics on the command line
BrowseTopic ==
  /\ Starts /\ ~ CannotStart /\ cli.topics # <<>>
  /\ LET r == Resolved(cli.topics)
     IN  \/ /\ r.kind = "Found"
            /\ Continue(EXIT_SUCCESS, r.node,
                 IF NoPager THEN Buffered(out, ATopic(r.node), r.node \in BigTopic)
                            ELSE OnScreen(out, ATopic(r.node)))
            /\ NoMan /\ Say("Topic", <<>>, {r.node}, {})
         \/ /\ r.kind = "AmbiguousAt"
            /\ Continue(EXIT_NOT_FOUND, NoNode, out)
            /\ NoMan /\ Say("Ambiguous", cli.topics[r.depth + 1], r.nodes, {})
         \/ /\ r.kind = "NotFoundAt" /\ r.depth = 0 /\ Len(cli.topics) = 1
            /\ ManShown(cli.topics[1])
            /\ Continue(EXIT_SUCCESS, NoNode, OnScreen(out, APage(cli.topics[1])))
            /\ Say("Page", cli.topics[1], {}, {})
         \/ /\ r.kind = "NotFoundAt"
            /\ Continue(EXIT_NOT_FOUND, NoNode, out)
            /\ NoMan /\ Say("NotFound", cli.topics[r.depth + 1], r.available, {})

\* No topics: a listing goes to the writer, or the session starts at the root.
BrowseRoot ==
  /\ Starts /\ ~ CannotStart /\ cli.topics = <<>>
  /\ Continue(EXIT_SUCCESS, NoNode,
       IF NoPrompt /\ (RootTopicNames(libs) # {} \/ seenFile # {})
       THEN Buffered(out, AListing, FALSE) ELSE out)
  /\ NoMan /\ Say("Information", <<>>, RootTopicNames(libs), seenFile)
-----------------------------------------------------------------------------
\* One turn of the loop of run_interactive for each kind of line
Reads == pc = "prompt" /\ UNCHANGED cli

ReadEof ==
  /\ Reads /\ Return(EXIT_SUCCESS, out)
  /\ UNCHANGED <<path_stack, current, seen, seenFile, reply>>

\* Mutant: the path is shortened but the node stays.
PopOnlyPath ==
  /\ path_stack' = Front(path_stack) /\ UNCHANGED current

PopAndResolve ==
  LET up == Front(path_stack)
      r == Resolved(up)
  IN  IF up # <<>> /\ r.kind = "Found"
      THEN path_stack' = up /\ current' = r.node
      ELSE path_stack' = <<>> /\ current' = NoNode

ReadEmpty ==
  /\ Reads
  /\ IF path_stack = <<>>
     THEN Return(EXIT_SUCCESS, out) /\ UNCHANGED <<path_stack, current>>
     ELSE PopAndResolve /\ UNCHANGED <<pc, exit, out>>
  /\ UNCHANGED <<seen, seenFile, reply>>

ReadQuestion ==
  /\ Reads
  /\ Say("Topics", QuestionMark,
         IF current # NoNode THEN Kids(current) ELSE RootTopicNames(libs),
         IF path_stack = <<>> THEN seen ELSE {})
  /\ UNCHANGED <<pc, exit, path_stack, current, seen, seenFile, out>>

\* Mutant: the word as typed goes on the path.
PushAsTyped(word, n) == path_stack' = Append(path_stack, word) /\ current' = n

Push(word, n) == path_stack' = Append(path_stack, NameUpper[n]) /\ current' = n

\* Mutant: the session falls back on man wherever it stands.
PageAnywhere(word) ==
  /\ ManShown(word) /\ out' = OnScreen(out, APage(word))
  /\ UNCHANGED <<path_stack, current, reply>>

\* The man fallback of the session is for level 1 only.
PageForWord(word) ==
  /\ path_stack = <<>>
  /\ ManShown(word) /\ out' = OnScreen(out, APage(word))
  /\ UNCHANGED <<path_stack, current, reply>>

ReadWord(line) ==
  LET r == Resolved(Append(path_stack, line))
      failed == Append(path_stack, line)[r.depth + 1]
  IN  /\ Reads /\ line \notin {<<>>, QuestionMark}
      /\ UNCHANGED <<pc, exit>>
      /\ \/ /\ r.kind = "Found" /\ Room
            /\ Push(line, r.node)
            /\ out' = OnScreen(out, ATopic(r.node))
            /\ Say("Topic", line, {r.node}, {}) /\ UNCHANGED <<seen, seenFile>>
         \/ /\ r.kind = "AmbiguousAt"
            /\ Say("Ambiguous", failed, r.nodes, {})
            /\ UNCHANGED <<path_stack, current, seen, seenFile, out>>
         \/ r.kind = "NotFoundAt" /\ Room /\ PageForWord(line)
         \/ /\ r.kind = "NotFoundAt"
            /\ Say("NotFound", failed, r.available, {})
            /\ UNCHANGED <<path_stack, current, seen, seenFile, out>>

Next == \/ BrowseFails \/ BrowseTopic \/ BrowseRoot
        \/ ReadEof \/ ReadEmpty \/ ReadQuestion
        \/ \E line \in Line : ReadWord(line)

Spec == Init /\ [][Next]_vars
-----------------------------------------------------------------------------
(***************************************************************************)
(* What a run of hlp promises.                                             *)
(***************************************************************************)
\* The variables hold what their types in the code allow.
TypeOK ==
  /\ cli \in Cli /\ pc \in {"start", "prompt", "done"}
  /\ exit \in {EXIT_SUCCESS, EXIT_NOT_FOUND, EXIT_LIBRARY_ERROR}
  /\ path_stack \in Seq(Seq(Char)) /\ current \in Node \cup {NoNode}
  /\ seen \subseteq {SeenKey(w) : w \in ManPage}
  /\ seenFile \subseteq {SeenKey(w) : w \in ManPage}
  /\ \A i \in DOMAIN out.shown : DOMAIN out.shown[i] \subseteq {"topic", "page", "listing"}

\* The two ways the loop knows where it is agree: the path of names is that of
\* the current node, and resolving it from the libraries gives that node again,
\* unless a name on the way holds a wildcard.  `?` lists by the node, everything
\* else goes by the path.
PathLeadsToCurrent ==
  /\ path_stack = <<>> <=> current = NoNode
  /\ current # NoNode =>
       /\ path_stack = NamesTo[current]
       /\ (\A i \in DOMAIN path_stack : ~ IsWildcard(path_stack[i])) =>
            Resolved(path_stack) = Found(current)

\* The session browses as a reader is promised: a word leads to a child of the
\* current topic, an empty line to its parent, nothing else moves.
Cursor == INSTANCE TreeCursor
            WITH Topic <- {n \in Node : Parent[n] # NoNode}, Top <- NoNode,
                 HomeKey <- FALSE, cur <- current, opened <- pc # "start",
                 Up <- [n \in {m \in Node : Parent[m] # NoNode} |->
                          IF Parent[Parent[n]] = NoNode THEN NoNode ELSE Parent[n]]
SessionIsCursor == Cursor!Spec

\* When hlp has exited, everything it showed has arrived, once, on standard
\* output or in the file of --output, and nothing is left in a buffer.
Times(x, s) == Quantify(DOMAIN s, LAMBDA i : s[i] = x)
EverythingArrives ==
  pc = "done" =>
    /\ out.buffer = <<>>
    /\ \A x \in ToSet(out.shown) :
         Times(x, out.shown) = Times(x, out.screen) + Times(x, out.file)

\* A script can trust the exit code of a run without a prompt: 0 exactly when
\* the topic, page or listing asked for was shown, or there was nothing to list, 1
\* when there was no such topic, 3 only when nothing was done.
ExitTellsWhatHappened ==
  pc = "done" =>
    /\ exit = EXIT_SUCCESS /\ NoPrompt =>
         \/ out.shown # <<>>
         \/ cli.topics = <<>> /\ RootTopicNames(libs) = {} /\ seenFile = {}
    /\ exit = EXIT_NOT_FOUND =>
         NoPrompt /\ out.shown = <<>> /\ Resolved(cli.topics).kind # "Found"
    /\ exit = EXIT_LIBRARY_ERROR => CannotStart /\ seenFile = seen /\ out.shown = <<>>

\* Libraries hide man pages: wherever the session has been, a page is only shown
\* for a word that leads to nothing at level 1, and `?` offers that page for the
\* rest of the session.  The file may fall behind, but whatever of it was saved,
\* it names no page the session does not offer.
PagesOnlyWithoutTopic ==
  /\ \A i \in DOMAIN out.shown : "page" \in DOMAIN out.shown[i] =>
       LET w == out.shown[i].page
       IN  Resolved(<<w>>).kind = "NotFoundAt" /\ SeenKey(w) \in seen
  /\ pc # "start" => seenFile \subseteq seen

-----------------------------------------------------------------------------
(***************************************************************************)
(* What the documents say and the code does not do.                        *)
(***************************************************************************)
\* "hlp COPY -- show COPY help, prompt for subtopics": what has appeared is
\* always a beginning of what was shown, also with --no-pager.
ShownBeforePrompt == IsPrefix(out.screen, out.shown)
=============================================================================
