---------------------------- MODULE SessionProofs ----------------------------
(***************************************************************************)
(* Why the session never loses its place, for every set of libraries,      *)
(* command line and sequence of lines: the path it keeps is a path of      *)
(* names, resolved anew at every step, and the node beside it has to be    *)
(* the one the names lead to.  Then that what was shown arrives, and what  *)
(* the exit code and the remembered pages say; and at the end what several *)
(* runs make of the file of those pages.                                   *)
(***************************************************************************)
EXTENDS Session, SeenPages, EngineProofs, FiniteSetTheorems

\* The libraries of a run are libraries.
LEMMA LibsAreRoots ==
  ASSUME cli \in Cli
  PROVE  libs \in Seq(Roots)
<1> DEFINE installed == [i \in DOMAIN Installed |->
                           IF Installed[i] \in Readable THEN <<Installed[i]>> ELSE <<>>]
<1>1. /\ cli.libraries \in Seq(Node) /\ cli.env \in Seq(Node)
      /\ Installed \in Seq(Node) /\ Readable \subseteq Roots
  BY SessionAssumption DEF Roots
<1>2. installed \in Seq(Seq(Roots))
  <2>1. installed = [i \in 1..Len(Installed) |->
                       IF Installed[i] \in Readable THEN <<Installed[i]>> ELSE <<>>]
    BY <1>1
  <2>2. \A i \in 1..Len(Installed) :
           (IF Installed[i] \in Readable THEN <<Installed[i]>> ELSE <<>>) \in Seq(Roots)
    BY <1>1
  <2> HIDE DEF installed
  <2> QED
    BY <1>1, <2>1, <2>2
<1>3. FlattenSeq(installed) \in Seq(Roots)
  BY <1>2, FlattenSeqIsSeq
<1>4. \A s \in Seq(Node) : (\A i \in DOMAIN s : s[i] \in Readable) => s \in Seq(Roots)
  BY <1>1
<1>5. CASE \E i \in DOMAIN (IF cli.libraries # <<>> THEN cli.libraries ELSE cli.env) :
             (IF cli.libraries # <<>> THEN cli.libraries ELSE cli.env)[i] \notin Readable
  BY <1>5 DEF libs, LoadLibraries, Loaded
<1>6. CASE ~ \E i \in DOMAIN (IF cli.libraries # <<>> THEN cli.libraries ELSE cli.env) :
             (IF cli.libraries # <<>> THEN cli.libraries ELSE cli.env)[i] \notin Readable
  <2>1. CASE cli.libraries # <<>>
    <3>1. libs = cli.libraries
      BY <1>6, <2>1 DEF libs, LoadLibraries, Loaded
    <3> QED
      BY <1>1, <1>4, <1>6, <2>1, <3>1
  <2>2. CASE cli.libraries = <<>>
    <3>1. cli.env \in Seq(Roots)
      BY <1>1, <1>4, <1>6, <2>2
    <3>2. libs = <<>> \/ libs = cli.env \o FlattenSeq(installed)
      BY <1>6, <2>2 DEF libs, LoadLibraries, Loaded
    <3> HIDE DEF installed
    <3>3. cli.env \o FlattenSeq(installed) \in Seq(Roots)
      BY <1>3, <3>1
    <3>4. <<>> \in Seq(Roots)
      OBVIOUS
    <3> QED
      BY <3>2, <3>3, <3>4
  <2> QED
    BY <2>1, <2>2
<1> QED
  BY <1>5, <1>6
-----------------------------------------------------------------------------
(***************************************************************************)
(* The place of the session                                                *)
(***************************************************************************)

\* n is a place the session may have come to: nowhere, or a topic that one word
\* leads to from where the names above it lead.
Reached(n) ==
  \/ n = NoNode
  \/ /\ n \in Topics /\ NameUpper[n] # <<>>
     /\ Plain(NamesTo[Parent[n]]) => Within(libs, NamesTo[Parent[n]], cli.mode, n)

\* The inductive invariant: the path is that of the node.
Placed == cli \in Cli /\ Reached(current) /\ path_stack = StartPath(current)

\* The names of a place lead there.
LEMMA NamesLeadToPlace ==
  ASSUME cli \in Cli, NEW n \in Topics, Reached(n)
  PROVE  /\ NamesTo[n] \in Seq(Folded) /\ NamesTo[n] # <<>> /\ n # NoNode
         /\ NamesTo[Parent[n]] \in Seq(Folded)
         /\ NamesTo[n] = Append(NamesTo[Parent[n]], NameUpper[n])
         /\ Front(NamesTo[n]) = NamesTo[Parent[n]]
         /\ Plain(NamesTo[n]) => Resolved(NamesTo[n]) = Found(n)
<1>0. ParentsEnd /\ libs \in Seq(Roots)
  BY SessionAssumption, LibsAreRoots
<1>1. n \in Node /\ Parent[n] \in Node /\ Parent[n] # NoNode /\ n # NoNode
  BY NodeAssumption DEF Topics, Roots
<1>2. /\ NamesTo[n] = Append(NamesTo[Parent[n]], NameUpper[n])
      /\ NamesTo[n] \in Seq(Folded) /\ NamesTo[Parent[n]] \in Seq(Folded)
      /\ NamesTo[Parent[n]] \in Seq(Seq(Char)) /\ NameUpper[n] \in Seq(Char)
  BY <1>0, <1>1, NamesToWalks, NamesToAreFolded, NamesToAreWords, NodeAssumption
<1>3. NamesTo[n] # <<>>
  BY <1>2, AppendIsNotEmpty
<1>4. Front(NamesTo[n]) = NamesTo[Parent[n]]
  BY <1>2 DEF Front
<1>5. ASSUME Plain(NamesTo[n]) PROVE Resolved(NamesTo[n]) = Found(n)
  <2>1. Plain(NamesTo[Parent[n]]) /\ ~ IsWildcard(NameUpper[n])
    BY <1>2, <1>5, PlainAppend
  <2>2. NameUpper[n] # <<>> /\ Within(libs, NamesTo[Parent[n]], cli.mode, n)
    BY <1>1, <2>1 DEF Reached
  <2> QED
    BY <1>0, <1>1, <1>2, <2>1, <2>2, OwnNameLeadsBack DEF Resolved
<1> QED
  BY <1>1, <1>2, <1>3, <1>4, <1>5

\* Wherever a path of words leads, the session may go.
LEMMA FoundIsReached ==
  ASSUME cli \in Cli, NEW path \in Seq(Seq(Char)), path # <<>>,
         Resolved(path).kind = "Found"
  PROVE  \E n \in Topics : Resolved(path) = Found(n) /\ Reached(n)
<1>0. ParentsEnd /\ libs \in Seq(Roots)
  BY SessionAssumption, LibsAreRoots
<1> DEFINE front == Front(path)
           word == Last(path)
<1>1. front \in Seq(Seq(Char)) /\ word \in Seq(Char) /\ path = Append(front, word)
  BY LastSplits
<1> HIDE DEF front, word
<1>2. PICK n \in Topics : /\ Resolved(path) = Found(n) /\ NameUpper[n] # <<>>
                          /\ Within(libs, front, cli.mode, n)
  BY <1>0, <1>1, FoundWithin DEF Resolved
<1>3. ASSUME Plain(NamesTo[Parent[n]])
      PROVE  Within(libs, NamesTo[Parent[n]], cli.mode, n)
  <2> DEFINE above == Parent[n]
  <2>1. front # <<>> => /\ LibResolve(libs, front, cli.mode) = Found(above)
                        /\ above \in Node
    BY <1>2 DEF Within
  <2>2. ASSUME front # <<>>
        PROVE  LibResolve(libs, NamesTo[above], cli.mode) = Found(above)
    <3>1. Plain(NamesTo[above])
      BY <1>3
    <3> HIDE DEF above
    <3> QED
      BY <1>0, <1>1, <2>1, <2>2, <3>1, FoundIsAddressable
  <2> QED
    BY <1>0, <1>1, <1>2, <2>2, WithinByNames DEF Topics
<1> QED
  BY <1>2, <1>3 DEF Reached

\* A word leads from a place to a topic directly below it.
LEMMA WordLeadsDown ==
  ASSUME cli \in Cli, NEW n, Reached(n), NEW line \in Seq(Char),
         Resolved(Append(StartPath(n), line)).kind = "Found"
  PROVE  \E m \in Topics : /\ Resolved(Append(StartPath(n), line)) = Found(m)
                           /\ Reached(m)
                           /\ StartPath(m) = Append(StartPath(n), NameUpper[m])
                           /\ IF n = NoNode THEN Parent[m] \in Roots ELSE Parent[m] = n
<1>0. ParentsEnd /\ libs \in Seq(Roots)
  BY SessionAssumption, LibsAreRoots
<1> DEFINE path == StartPath(n)
<1>1. path \in Seq(Folded) /\ path \in Seq(Seq(Char)) /\ Append(path, line) \in Seq(Seq(Char))
  <2>1. path \in Seq(Folded)
    <3>1. CASE n = NoNode
      BY <3>1 DEF StartPath
    <3>2. CASE n # NoNode
      BY <3>2, NamesLeadToPlace DEF StartPath, Reached
    <3> QED
      BY <3>1, <3>2
  <2>2. Folded \subseteq Seq(Char)
    BY DEF Folded
  <2> HIDE DEF path
  <2> QED
    BY <2>1, <2>2
<1>2. PICK m \in Topics : Resolved(Append(path, line)) = Found(m) /\ Reached(m)
  <2>1. Append(path, line) # <<>>
    BY <1>1, AppendIsNotEmpty
  <2> QED
    BY <1>1, <2>1, FoundIsReached
<1>3. Within(libs, path, cli.mode, m)
  <2> HIDE DEF path
  <2>1. \E k \in Topics : /\ Resolved(Append(path, line)) = Found(k)
                          /\ Within(libs, path, cli.mode, k)
    <3>1. LibResolve(libs, Append(path, line), cli.mode).kind = "Found"
      BY <1>2, FailureIsNoFind DEF Resolved
    <3> QED
      BY <1>0, <1>1, <3>1, FoundWithin DEF Resolved
  <2>2. PICK k \in Topics : /\ Resolved(Append(path, line)) = Found(k)
                            /\ Within(libs, path, cli.mode, k)
    BY <2>1
  <2>3. Found(k) = Found(m)
    BY <1>2, <2>2
  <2>4. k = m
    BY <2>3, FailureIsNoFind
  <2> QED
    BY <2>2, <2>4
<1>4. m \in Node /\ m # NoNode /\ StartPath(m) = Append(NamesTo[Parent[m]], NameUpper[m])
  BY <1>2, NodeAssumption, NamesLeadToPlace DEF StartPath, Topics
<1>5. CASE n = NoNode
  <2>1. path = <<>> /\ Parent[m] \in Roots
    BY <1>3, <1>5 DEF StartPath, Within
  <2>2. NamesTo[Parent[m]] = <<>>
    BY <1>0, <2>1, NamesToWalks DEF Roots
  <2> QED
    BY <1>2, <1>4, <1>5, <2>1, <2>2
<1>6. CASE n # NoNode
  <2>1. n \in Topics /\ path = NamesTo[n] /\ path # <<>>
    BY <1>6, NamesLeadToPlace DEF Reached, StartPath
  <2>2. LibResolve(libs, path, cli.mode) = Found(Parent[m])
    BY <1>3, <2>1 DEF Within
  <2>3. Plain(path)
    <3> HIDE DEF path
    <3>1. LibResolve(libs, path, cli.mode).kind = "Found"
      BY <2>2, FailureIsNoFind
    <3> QED
      BY <1>0, <1>1, <2>1, <3>1, FoundIsPlain
  <2>4. Resolved(path) = Found(n)
    BY <2>1, <2>3, NamesLeadToPlace
  <2>5. Found(Parent[m]) = Found(n)
    BY <2>2, <2>4 DEF Resolved
  <2>6. Parent[m] = n
    BY <2>5, FailureIsNoFind
  <2> QED
    BY <1>2, <1>4, <1>6, <2>1, <2>6
<1> QED
  BY <1>5, <1>6

\* The path without its last name leads, if anywhere, to the topic above.
LEMMA FrontLeadsUp ==
  ASSUME cli \in Cli, NEW n \in Topics, Reached(n),
         NamesTo[Parent[n]] # <<>>, Resolved(NamesTo[Parent[n]]).kind = "Found"
  PROVE  /\ Resolved(NamesTo[Parent[n]]) = Found(Parent[n])
         /\ Parent[n] \in Topics /\ Reached(Parent[n])
<1>0. ParentsEnd /\ libs \in Seq(Roots)
  BY SessionAssumption, LibsAreRoots
<1> DEFINE up == NamesTo[Parent[n]]
<1>1. up \in Seq(Folded) /\ up \in Seq(Seq(Char))
  <2>1. up \in Seq(Folded)
    BY NamesLeadToPlace
  <2>2. Folded \subseteq Seq(Char)
    BY DEF Folded
  <2> HIDE DEF up
  <2> QED
    BY <2>1, <2>2
<1>2. Plain(up)
  BY <1>0, <1>1, FoundIsPlain DEF Resolved
<1>3. Within(libs, up, cli.mode, n)
  BY <1>2, NodeAssumption DEF Reached, Topics
<1>4. Resolved(up) = Found(Parent[n])
  BY <1>3 DEF Within, Resolved
<1>5. PICK m \in Topics : Resolved(up) = Found(m) /\ Reached(m)
  BY <1>1, FoundIsReached
<1> HIDE DEF up
<1>6. m = Parent[n]
  <2>1. Found(m) = Found(Parent[n])
    BY <1>4, <1>5
  <2>2. Found(m).node = m /\ Found(Parent[n]).node = Parent[n]
    BY FailureIsNoFind
  <2> QED
    BY <2>1, <2>2
<1> QED
  BY <1>4, <1>5, <1>6 DEF up

\* What is directly above a topic for the session, the roots not being places
Above(n) == IF Parent[Parent[n]] = NoNode THEN NoNode ELSE Parent[n]

\* The names above the topic lead nowhere: one of them is a pattern.
Lost(n) ==
  NamesTo[Parent[n]] # <<>> /\ Resolved(NamesTo[Parent[n]]).kind # "Found"

\* Where a step may take the session
MayGo(n) ==
  /\ Reached(n)
  /\ \/ n = current
     \/ pc = "start"
     \/ pc = "prompt" /\ n \in Topics /\ Above(n) = current
     \/ pc = "prompt" /\ current \in Topics /\ n = Above(current)
     \/ pc = "prompt" /\ current \in Topics /\ n = NoNode /\ Lost(current)

\* run_browse() starts the session at the root or at the topic asked for.
LEMMA BrowseGoes ==
  ASSUME Placed, BrowseFails \/ BrowseTopic \/ BrowseRoot
  PROVE  \E n : MayGo(n) /\ current' = n /\ path_stack' = StartPath(n)
<1> USE DEF MayGo, Placed
<1>0. pc = "start"
  BY DEF BrowseFails, BrowseTopic, BrowseRoot, Starts
<1>1. CASE BrowseFails
  BY <1>1 DEF BrowseFails
<1>2. CASE BrowseRoot
  <2>1. \/ current' = current /\ path_stack' = path_stack
        \/ current' = NoNode /\ path_stack' = StartPath(NoNode)
    BY <1>2 DEF BrowseRoot, Continue
  <2> QED
    BY <1>0, <2>1 DEF Reached
<1>3. CASE BrowseTopic
  <2> DEFINE r == Resolved(cli.topics)
  <2>1. \/ current' = current /\ path_stack' = path_stack
        \/ current' = NoNode /\ path_stack' = StartPath(NoNode)
        \/ r.kind = "Found" /\ current' = r.node /\ path_stack' = StartPath(r.node)
    <3> HIDE DEF r
    <3> QED
      BY <1>3 DEF BrowseTopic, Continue, r
  <2>2. r.kind = "Found" => Reached(r.node)
    <3> SUFFICES ASSUME r.kind = "Found" PROVE Reached(r.node)
      OBVIOUS
    <3>1. cli.topics \in Seq(Seq(Char)) /\ cli.topics # <<>>
      BY <1>3, SessionAssumption DEF BrowseTopic
    <3>2. PICK n \in Topics : r = Found(n) /\ Reached(n)
      BY <3>1, FoundIsReached
    <3> QED
      BY <3>2, FailureIsNoFind
  <2> HIDE DEF r
  <2> QED
    BY <1>0, <2>1, <2>2 DEF Reached
<1> QED
  BY <1>1, <1>2, <1>3

\* An empty line goes up by one name of the path, if there is one.
LEMMA ReadEmptyGoes ==
  ASSUME Placed, ReadEmpty
  PROVE  \E n : MayGo(n) /\ current' = n /\ path_stack' = StartPath(n)
<1>0. pc = "prompt" /\ cli \in Cli /\ Reached(current) /\ path_stack = StartPath(current)
  BY DEF ReadEmpty, Reads, Placed
<1>1. CASE path_stack = <<>>
  BY <1>0, <1>1 DEF ReadEmpty, MayGo
<1>2. CASE path_stack # <<>>
  <2>1. current \in Topics /\ path_stack = NamesTo[current] /\ PopAndResolve
    BY <1>0, <1>2 DEF StartPath, Reached, ReadEmpty
  <2> DEFINE up == NamesTo[Parent[current]]
  <2>2. Front(path_stack) = up
    BY <1>0, <2>1, NamesLeadToPlace
  <2>3. /\ Parent[current] \in Node
        /\ up = IF Parent[Parent[current]] = NoNode THEN <<>>
                ELSE Append(NamesTo[Parent[Parent[current]]], NameUpper[Parent[current]])
    BY <2>1, NodeAssumption, NamesToWalks, SessionAssumption DEF Topics, Roots
  <2>4. CASE up # <<>> /\ Resolved(up).kind = "Found"
    <3>1. /\ Resolved(up) = Found(Parent[current])
          /\ Parent[current] \in Topics /\ Reached(Parent[current])
      BY <1>0, <2>1, <2>4, FrontLeadsUp
    <3>2. Parent[current] # NoNode /\ Parent[Parent[current]] # NoNode
      BY <3>1, NodeAssumption DEF Topics, Roots
    <3>3. path_stack' = up /\ current' = Resolved(up).node
      BY <2>1, <2>2, <2>4 DEF PopAndResolve
    <3>4. current' = Parent[current]
      BY <3>1, <3>3, FailureIsNoFind
    <3> QED
      BY <1>0, <2>1, <3>1, <3>2, <3>3, <3>4 DEF MayGo, Above, StartPath
  <2>5. CASE ~ (up # <<>> /\ Resolved(up).kind = "Found")
    <3>1. path_stack' = <<>> /\ current' = NoNode
      BY <2>1, <2>2, <2>5 DEF PopAndResolve
    <3>2. Lost(current) \/ Above(current) = NoNode
      <4>1. CASE up = <<>>
        <5>1. Parent[Parent[current]] = NoNode
          <6>1. ASSUME Parent[Parent[current]] # NoNode PROVE FALSE
            <7>1. Parent[Parent[current]] \in Node
              BY <2>3, <6>1, NodeAssumption
            <7>2. /\ NamesTo[Parent[Parent[current]]] \in Seq(Seq(Char))
                  /\ NameUpper[Parent[current]] \in Seq(Char)
              BY <2>3, <7>1, NamesToAreWords, NodeAssumption, SessionAssumption
            <7> QED
              BY <2>3, <4>1, <6>1, <7>2, AppendIsNotEmpty
          <6> QED
            BY <6>1
        <5> QED
          BY <5>1 DEF Above
      <4>2. CASE up # <<>>
        BY <2>5, <4>2 DEF Lost
      <4> QED
        BY <4>1, <4>2
    <3> QED
      BY <1>0, <2>1, <3>1, <3>2 DEF MayGo, Reached, StartPath
  <2> QED
    BY <2>4, <2>5
<1> QED
  BY <1>1, <1>2

\* A word goes down to a child it leads to, or leaves the session where it is.
LEMMA ReadWordGoes ==
  ASSUME Placed, NEW line \in Line, ReadWord(line)
  PROVE  \E n : MayGo(n) /\ current' = n /\ path_stack' = StartPath(n)
<1>0. pc = "prompt" /\ cli \in Cli /\ Reached(current) /\ path_stack = StartPath(current)
  BY DEF ReadWord, Reads, Placed
<1> DEFINE r == Resolved(Append(path_stack, line))
<1>1. CASE current' = current /\ path_stack' = path_stack
  BY <1>0, <1>1 DEF MayGo
<1>2. CASE r.kind = "Found" /\ Push(line, r.node)
  <2>1. line \in Seq(Char)
    BY SessionAssumption
  <2>2. PICK m \in Topics : /\ r = Found(m) /\ Reached(m)
                            /\ StartPath(m) = Append(path_stack, NameUpper[m])
                            /\ IF current = NoNode THEN Parent[m] \in Roots
                               ELSE Parent[m] = current
    BY <1>0, <1>2, <2>1, WordLeadsDown
  <2>3. current' = m /\ path_stack' = StartPath(m)
    BY <1>2, <2>2, FailureIsNoFind DEF Push
  <2>4. Above(m) = current
    <3>1. CASE current = NoNode
      BY <2>2, <3>1 DEF Above, Roots
    <3>2. CASE current # NoNode
      BY <1>0, <2>2, <3>2 DEF Above, Reached, Topics, Roots
    <3> QED
      BY <3>1, <3>2
  <2> QED
    BY <1>0, <2>2, <2>3, <2>4 DEF MayGo
<1>3. \/ current' = current /\ path_stack' = path_stack
      \/ r.kind = "Found" /\ Push(line, r.node)
  <2> HIDE DEF r
  <2> QED
    BY DEF ReadWord, PageForWord, r
<1> QED
  BY <1>1, <1>2, <1>3

\* Every step stays in the place or goes where the session may go.
LEMMA StepGoes ==
  ASSUME Placed, Next
  PROVE  /\ cli' = cli /\ pc' # "start"
         /\ \E n : MayGo(n) /\ current' = n /\ path_stack' = StartPath(n)
<1>1. cli' = cli
  BY DEF Next, BrowseFails, BrowseTopic, BrowseRoot, Starts, ReadEof, ReadEmpty,
         ReadQuestion, ReadWord, Reads
<1>2. pc' # "start"
  <2>1. CASE BrowseFails \/ ReadEof
    BY <2>1 DEF BrowseFails, ReadEof, Return
  <2>2. CASE BrowseTopic
    BY <2>2 DEF BrowseTopic, Continue, Return
  <2>3. CASE BrowseRoot
    BY <2>3 DEF BrowseRoot, Continue, Return
  <2>4. CASE ReadEmpty \/ ReadQuestion \/ \E line \in Line : ReadWord(line)
    BY <2>4 DEF ReadEmpty, ReadQuestion, ReadWord, Reads, Return
  <2> QED
    BY <2>1, <2>2, <2>3, <2>4 DEF Next
<1>3. CASE BrowseFails \/ BrowseTopic \/ BrowseRoot
  BY <1>1, <1>2, <1>3, BrowseGoes
<1>4. CASE ReadEof \/ ReadQuestion
  <2>1. current' = current /\ path_stack' = path_stack
    BY <1>4 DEF ReadEof, ReadQuestion
  <2> QED
    BY <1>1, <1>2, <2>1 DEF MayGo, Placed
<1>5. CASE ReadEmpty
  BY <1>1, <1>2, <1>5, ReadEmptyGoes
<1>6. CASE \E line \in Line : ReadWord(line)
  BY <1>1, <1>2, <1>6, ReadWordGoes
<1> QED
  BY <1>3, <1>4, <1>5, <1>6 DEF Next

\* The place is kept.
LEMMA PlacedInv == Spec => []Placed
<1>1. Init => Placed
  BY DEF Init, Placed, Reached, StartPath
<1>2. Placed /\ [Next]_vars => Placed'
  <2> SUFFICES ASSUME Placed, [Next]_vars PROVE Placed'
    OBVIOUS
  <2>1. CASE Next
    <3>1. cli' = cli
      BY <2>1, StepGoes
    <3>2. PICK n : MayGo(n) /\ current' = n /\ path_stack' = StartPath(n)
      BY <2>1, StepGoes
    <3>3. libs' = libs
      BY <3>1 DEF libs, LoadLibraries
    <3>4. Reached(n)
      BY <3>2 DEF MayGo
    <3>5. Reached(current)'
      BY <3>1, <3>2, <3>3, <3>4 DEF Reached
    <3>6. path_stack' = StartPath(current')
      BY <3>2
    <3> QED
      BY <3>1, <3>5, <3>6 DEF Placed, StartPath
  <2>2. CASE UNCHANGED vars
    BY <2>2 DEF vars, Placed, Reached, libs, LoadLibraries, StartPath
  <2> QED
    BY <2>1, <2>2
<1> QED
  BY <1>1, <1>2, PTL DEF Spec

\* The path of names and the node of the session agree, and the path leads to
\* the node whenever no name on it holds a wildcard: about run_interactive(),
\* which lists by the one and resolves by the other.
THEOREM PathAlwaysLeads == Spec => []PathLeadsToCurrent
<1>1. Placed => PathLeadsToCurrent
  <2> SUFFICES ASSUME Placed PROVE PathLeadsToCurrent
    OBVIOUS
  <2>1. CASE current = NoNode
    BY <2>1 DEF Placed, StartPath, PathLeadsToCurrent
  <2>2. CASE current # NoNode
    <3>1. current \in Topics /\ Reached(current) /\ cli \in Cli
          /\ path_stack = NamesTo[current]
      BY <2>2 DEF Placed, Reached, StartPath
    <3>2. path_stack # <<>> /\ (Plain(path_stack) => Resolved(path_stack) = Found(current))
      BY <3>1, NamesLeadToPlace
    <3> QED
      BY <2>2, <3>1, <3>2 DEF PathLeadsToCurrent, Plain
  <2> QED
    BY <2>1, <2>2
<1> QED
  BY <1>1, PlacedInv, PTL

\* The names above a topic hold no wildcard when only topics without subtopics
\* have such names.
LEMMA PlainAbove ==
  ASSUME ParentsEnd, \A n \in Node : IsWildcard(NameUpper[n]) => Kids(n) = {}
  PROVE  \A n \in Topics : Plain(NamesTo[Parent[n]])
<1> DEFINE odd == {n \in Topics : ~ Plain(NamesTo[Parent[n]])}
<1> SUFFICES ASSUME odd # {} PROVE FALSE
  OBVIOUS
<1>1. PICK n \in odd : Parent[n] \notin odd
  <2>1. odd \in SUBSET Node
    BY DEF Topics
  <2> HIDE DEF odd
  <2> QED
    BY <2>1 DEF ParentsEnd
<1>2. n \in Node /\ Parent[n] \in Node /\ ~ Plain(NamesTo[Parent[n]])
  BY NodeAssumption DEF Topics, Roots
<1>3. CASE Parent[Parent[n]] = NoNode
  <2>1. NamesTo[Parent[n]] = <<>>
    BY <1>2, <1>3, NamesToWalks
  <2> QED
    BY <1>2, <2>1 DEF Plain
<1>4. CASE Parent[Parent[n]] # NoNode
  <2>1. Parent[Parent[n]] \in Node /\ Parent[n] \in Topics
    BY <1>2, <1>4, NodeAssumption DEF Topics, Roots
  <2>2. Plain(NamesTo[Parent[Parent[n]]])
    BY <1>1, <2>1
  <2>3. ~ IsWildcard(NameUpper[Parent[n]])
    BY <1>2, NodeAssumption
  <2>4. /\ NamesTo[Parent[n]] = Append(NamesTo[Parent[Parent[n]]], NameUpper[Parent[n]])
        /\ NamesTo[Parent[Parent[n]]] \in Seq(Seq(Char))
        /\ NameUpper[Parent[n]] \in Seq(Char)
    BY <1>2, <1>4, <2>1, NamesToWalks, NamesToAreWords, NodeAssumption
  <2> QED
    BY <1>2, <2>2, <2>3, <2>4, PlainAppend
<1> QED
  BY <1>3, <1>4

\* The session implements TreeCursor: a word leads to a subtopic, an empty line
\* to the topic above.  In libraries where a topic with subtopics has a wildcard
\* in its name this does not hold: an empty line then leads to the top.
THEOREM SessionImplementsCursor ==
  ASSUME \A n \in Node : IsWildcard(NameUpper[n]) => Kids(n) = {}
  PROVE  Spec => SessionIsCursor
<1>1. Init => Cursor!Init
  BY DEF Init, Cursor!Init
<1>2. Placed /\ [Next]_vars => [Cursor!Next]_<<current, pc # "start">>
  <2> SUFFICES ASSUME Placed, [Next]_vars
               PROVE  Cursor!Next \/ UNCHANGED <<current, pc # "start">>
    OBVIOUS
  <2>1. CASE UNCHANGED vars
    BY <2>1 DEF vars
  <2>2. CASE Next
    <3>1. pc' # "start"
      BY <2>2, StepGoes
    <3>2. PICK n : MayGo(n) /\ current' = n
      BY <2>2, StepGoes
    <3> DEFINE topic == {t \in Node : Parent[t] # NoNode}
    <3>3. \A t \in Topics : t \in topic
      BY NodeAssumption DEF Topics, Roots
    <3>4. n \in topic \cup {NoNode}
      BY <3>2, <3>3 DEF MayGo, Reached
    <3>5. CASE pc = "start"
      <4>1. Cursor!Open
        BY <3>1, <3>2, <3>4, <3>5 DEF Cursor!Open
      <4> QED
        BY <4>1 DEF Cursor!Next
    <3>6. CASE pc # "start" /\ n = current
      BY <3>1, <3>2, <3>6
    <3>7. CASE pc = "prompt" /\ n \in Topics /\ Above(n) = current
      <4>1. Cursor!Down
        BY <3>1, <3>2, <3>3, <3>7 DEF Cursor!Down, Above
      <4> QED
        BY <4>1 DEF Cursor!Next
    <3>8. CASE pc = "prompt" /\ current \in Topics /\ n = Above(current)
      <4>1. Cursor!Climb
        BY <3>1, <3>2, <3>3, <3>8 DEF Cursor!Climb, Above
      <4> QED
        BY <4>1 DEF Cursor!Next
    <3>9. ~ (pc = "prompt" /\ current \in Topics /\ Lost(current))
      <4> SUFFICES ASSUME current \in Topics, Lost(current) PROVE FALSE
        OBVIOUS
      <4>1. Plain(NamesTo[Parent[current]])
        BY PlainAbove, SessionAssumption
      <4>2. Within(libs, NamesTo[Parent[current]], cli.mode, current)
        BY <4>1, NodeAssumption DEF Placed, Reached, Topics
      <4>3. Resolved(NamesTo[Parent[current]]) = Found(Parent[current])
        BY <4>2 DEF Within, Lost, Resolved
      <4> QED
        BY <4>3, FailureIsNoFind DEF Lost
    <3> QED
      BY <3>2, <3>5, <3>6, <3>7, <3>8, <3>9 DEF MayGo
  <2> QED
    BY <2>1, <2>2
<1> QED
  BY <1>1, <1>2, PlacedInv, PTL DEF Spec, SessionIsCursor, Cursor!Spec
-----------------------------------------------------------------------------
(***************************************************************************)
(* What was shown, and where it has got to                                 *)
(***************************************************************************)

\* How often a thing occurs is a number,
LEMMA TimesIsNat ==
  ASSUME NEW S, NEW s \in Seq(S), NEW x
  PROVE  /\ Times(x, s) = Cardinality({i \in DOMAIN s : s[i] = x})
         /\ IsFiniteSet({i \in DOMAIN s : s[i] = x})
         /\ Times(x, s) \in Nat /\ Times(x, <<>>) = 0
<1> DEFINE at(q) == {i \in DOMAIN q : q[i] = x}
<1>1. \A q : Times(x, q) = Cardinality(at(q))
  BY DEF Times, Quantify
<1>2. IsFiniteSet(at(s))
  <2>1. DOMAIN s = 1..Len(s) /\ Len(s) \in Nat /\ at(s) \subseteq DOMAIN s
    OBVIOUS
  <2>2. IsFiniteSet(1..Len(s))
    BY <2>1, FS_Interval
  <2> QED
    BY <2>1, <2>2, FS_Subset
<1>3. at(<<>>) = {}
  OBVIOUS
<1> HIDE DEF at
<1>4. Cardinality(at(s)) \in Nat /\ Cardinality(at(<<>>)) = 0
  BY <1>2, <1>3, FS_CardinalityType, FS_EmptySet
<1> QED
  BY <1>1, <1>2, <1>4 DEF at

\* larger by one or none when something is appended,
LEMMA TimesAppend ==
  ASSUME NEW S, NEW s \in Seq(S), NEW x, NEW y \in S
  PROVE  Times(x, Append(s, y)) = Times(x, s) + (IF x = y THEN 1 ELSE 0)
<1> DEFINE at(q) == {i \in DOMAIN q : q[i] = x}
           more == Append(s, y)
           n == Len(s) + 1
<1>1. /\ DOMAIN more = 1..n /\ DOMAIN s = 1..Len(s) /\ Len(s) \in Nat
      /\ \A i \in 1..Len(s) : more[i] = s[i]
      /\ more[n] = y /\ more \in Seq(S)
  OBVIOUS
<1>2. /\ Times(x, s) = Cardinality(at(s)) /\ IsFiniteSet(at(s)) /\ Times(x, s) \in Nat
      /\ Times(x, more) = Cardinality(at(more))
  <2> HIDE DEF more
  <2> QED
    BY <1>1, TimesIsNat
<1>3. n \notin at(s)
  BY <1>1
<1>4. at(more) = IF x = y THEN at(s) \cup {n} ELSE at(s)
  <2>1. /\ \A i \in 1..n : i \in 1..Len(s) \/ i = n
        /\ \A i \in 1..Len(s) : i \in 1..n
        /\ n \in 1..n
    BY <1>1
  <2> HIDE DEF more, n
  <2> QED
    BY <1>1, <2>1
<1> HIDE DEF at, more, n
<1>5. Cardinality(at(s) \cup {n}) = Cardinality(at(s)) + 1
  BY <1>2, <1>3, FS_AddElement
<1> QED
  BY <1>2, <1>4, <1>5 DEF more

\* and in two sequences together
LEMMA TimesConcat ==
  ASSUME NEW S, NEW s \in Seq(S), NEW t \in Seq(S), NEW x
  PROVE  Times(x, s \o t) = Times(x, s) + Times(x, t)
<1> DEFINE T == {u \in Seq(S) : Times(x, s \o u) = Times(x, s) + Times(x, u)}
<1>1. <<>> \in T
  <2>1. s \o <<>> = s /\ <<>> \in Seq(S)
    BY ConcatEmptySeq
  <2>2. Times(x, s) \in Nat /\ Times(x, <<>>) = 0
    BY TimesIsNat
  <2> QED
    BY <2>1, <2>2
<1>2. ASSUME NEW u \in Seq(S), NEW y \in S, u \in T
      PROVE  Append(u, y) \in T
  <2>1. s \o Append(u, y) = Append(s \o u, y) /\ s \o u \in Seq(S) /\ Append(u, y) \in Seq(S)
    OBVIOUS
  <2> DEFINE su == s \o u
  <2>2. PICK one \in {0, 1} : one = IF x = y THEN 1 ELSE 0
    OBVIOUS
  <2>3. su \in Seq(S) /\ s \o Append(u, y) = Append(su, y)
    BY <2>1
  <2>4. Times(x, su) = Times(x, s) + Times(x, u)
    BY <1>2
  <2> HIDE DEF su
  <2>5. Times(x, Append(su, y)) = Times(x, su) + one
    BY <2>2, <2>3, TimesAppend
  <2>6. Times(x, Append(u, y)) = Times(x, u) + one
    BY <2>2, TimesAppend
  <2>7. Times(x, s) \in Nat /\ Times(x, u) \in Nat
    BY TimesIsNat
  <2>8. Times(x, s \o Append(u, y)) = Times(x, s) + Times(x, Append(u, y))
    BY <2>3, <2>4, <2>5, <2>6, <2>7
  <2> QED
    BY <2>1, <2>8
<1> HIDE DEF T
<1>3. Seq(S) \subseteq T
  BY <1>1, <1>2, InductionOnSeq
<1> QED
  BY <1>3 DEF T

\* Everything there is to show
Shown == {ATopic(n) : n \in Node} \cup {APage(w) : w \in ManPage} \cup {AListing}

\* Nothing that was shown is lost or doubled: it is on the screen, in the file
\* or in the buffer.
Accounted(o) ==
  /\ o \in [screen : Seq(Shown), file : Seq(Shown), buffer : Seq(Shown), shown : Seq(Shown)]
  /\ \A x \in Shown : Times(x, o.shown) = Times(x, o.screen) + Times(x, o.file) + Times(x, o.buffer)

\* What goes to the terminal directly is accounted for,
LEMMA OnScreenAccounts ==
  ASSUME NEW o, Accounted(o), NEW x \in Shown
  PROVE  Accounted(OnScreen(o, x)) /\ OnScreen(o, x).shown = Append(o.shown, x)
<1> DEFINE after == OnScreen(o, x)
<1>1. /\ o \in [screen : Seq(Shown), file : Seq(Shown), buffer : Seq(Shown), shown : Seq(Shown)]
      /\ after = [o EXCEPT !.screen = Append(o.screen, x), !.shown = Append(o.shown, x)]
  BY DEF Accounted, OnScreen
<1>2. /\ o.shown \in Seq(Shown) /\ o.screen \in Seq(Shown)
      /\ o.file \in Seq(Shown) /\ o.buffer \in Seq(Shown)
      /\ Append(o.screen, x) \in Seq(Shown) /\ Append(o.shown, x) \in Seq(Shown)
  BY <1>1
<1>3. /\ after \in [screen : Seq(Shown), file : Seq(Shown), buffer : Seq(Shown), shown : Seq(Shown)]
      /\ after.screen = Append(o.screen, x) /\ after.shown = Append(o.shown, x)
      /\ after.file = o.file /\ after.buffer = o.buffer
  BY <1>1, <1>2
<1> HIDE DEF after
<1>4. ASSUME NEW y \in Shown
      PROVE  Times(y, after.shown) = Times(y, after.screen) + Times(y, after.file) + Times(y, after.buffer)
  <2>1. /\ Times(y, o.shown) \in Nat /\ Times(y, o.screen) \in Nat
        /\ Times(y, o.file) \in Nat /\ Times(y, o.buffer) \in Nat
    BY <1>2, TimesIsNat
  <2>2. PICK one \in {0, 1} : one = IF y = x THEN 1 ELSE 0
    OBVIOUS
  <2>3. Times(y, after.shown) = Times(y, o.shown) + one
    BY <1>2, <1>3, <2>2, TimesAppend
  <2>4. Times(y, after.screen) = Times(y, o.screen) + one
    BY <1>2, <1>3, <2>2, TimesAppend
  <2>5. Times(y, o.shown) = Times(y, o.screen) + Times(y, o.file) + Times(y, o.buffer)
    BY DEF Accounted
  <2>6. Times(y, after.file) = Times(y, o.file) /\ Times(y, after.buffer) = Times(y, o.buffer)
    BY <1>3
  <2> QED
    BY <2>1, <2>2, <2>3, <2>4, <2>5, <2>6
<1> QED
  BY <1>3, <1>4 DEF Accounted, after

\* and what is flushed,
LEMMA FlushedAccounts ==
  ASSUME NEW o, Accounted(o)
  PROVE  /\ Accounted(Flushed(o)) /\ Flushed(o).shown = o.shown
         /\ Flushed(o).buffer = <<>>
<1> DEFINE after == Flushed(o)
<1>1. /\ o \in [screen : Seq(Shown), file : Seq(Shown), buffer : Seq(Shown), shown : Seq(Shown)]
      /\ after = IF cli.output = "file"
                 THEN [o EXCEPT !.file = o.file \o o.buffer, !.buffer = <<>>]
                 ELSE [o EXCEPT !.screen = o.screen \o o.buffer, !.buffer = <<>>]
  BY DEF Accounted, Flushed
<1>2. /\ o.shown \in Seq(Shown) /\ o.screen \in Seq(Shown)
      /\ o.file \in Seq(Shown) /\ o.buffer \in Seq(Shown)
  BY <1>1
<1>3. /\ o.file \o o.buffer \in Seq(Shown) /\ o.screen \o o.buffer \in Seq(Shown)
      /\ <<>> \in Seq(Shown)
  BY <1>2, ConcatProperties
<1>4. /\ after \in [screen : Seq(Shown), file : Seq(Shown), buffer : Seq(Shown), shown : Seq(Shown)]
      /\ after.shown = o.shown /\ after.buffer = <<>>
      /\ \/ after.file = o.file \o o.buffer /\ after.screen = o.screen
         \/ after.file = o.file /\ after.screen = o.screen \o o.buffer
  BY <1>1, <1>3
<1> HIDE DEF after
<1>5. ASSUME NEW y \in Shown
      PROVE  Times(y, after.shown) = Times(y, after.screen) + Times(y, after.file) + Times(y, after.buffer)
  <2>1. /\ Times(y, o.shown) \in Nat /\ Times(y, o.screen) \in Nat
        /\ Times(y, o.file) \in Nat /\ Times(y, o.buffer) \in Nat
        /\ Times(y, <<>>) = 0
    BY <1>2, TimesIsNat
  <2>2. Times(y, o.file \o o.buffer) = Times(y, o.file) + Times(y, o.buffer)
    BY <1>2, TimesConcat
  <2>3. Times(y, o.screen \o o.buffer) = Times(y, o.screen) + Times(y, o.buffer)
    BY <1>2, TimesConcat
  <2>4. Times(y, o.shown) = Times(y, o.screen) + Times(y, o.file) + Times(y, o.buffer)
    BY DEF Accounted
  <2>5. Times(y, after.shown) = Times(y, o.shown) /\ Times(y, after.buffer) = 0
    BY <1>4, <2>1
  <2>6. CASE after.file = o.file \o o.buffer /\ after.screen = o.screen
    BY <2>1, <2>2, <2>4, <2>5, <2>6
  <2>7. CASE after.file = o.file /\ after.screen = o.screen \o o.buffer
    BY <2>1, <2>3, <2>4, <2>5, <2>7
  <2> QED
    BY <1>4, <2>6, <2>7
<1> QED
  BY <1>4, <1>5 DEF Accounted, after

\* and what goes into the buffer.
LEMMA BufferedAccounts ==
  ASSUME NEW o, Accounted(o), NEW x \in Shown, NEW big
  PROVE  /\ Accounted(Buffered(o, x, big))
         /\ Buffered(o, x, big).shown = Append(o.shown, x)
<1> DEFINE added == [o EXCEPT !.buffer = Append(@, x), !.shown = Append(@, x)]
<1>1. /\ o \in [screen : Seq(Shown), file : Seq(Shown), buffer : Seq(Shown), shown : Seq(Shown)]
      /\ added = [o EXCEPT !.buffer = Append(o.buffer, x), !.shown = Append(o.shown, x)]
  BY DEF Accounted
<1>2. /\ o.shown \in Seq(Shown) /\ o.screen \in Seq(Shown)
      /\ o.file \in Seq(Shown) /\ o.buffer \in Seq(Shown)
      /\ Append(o.buffer, x) \in Seq(Shown) /\ Append(o.shown, x) \in Seq(Shown)
  BY <1>1
<1>3. /\ added \in [screen : Seq(Shown), file : Seq(Shown), buffer : Seq(Shown), shown : Seq(Shown)]
      /\ added.buffer = Append(o.buffer, x) /\ added.shown = Append(o.shown, x)
      /\ added.file = o.file /\ added.screen = o.screen
  BY <1>1, <1>2
<1>4. Buffered(o, x, big) = IF big THEN Flushed(added) ELSE added
  BY DEF Buffered
<1> HIDE DEF added
<1>5. ASSUME NEW y \in Shown
      PROVE  Times(y, added.shown) = Times(y, added.screen) + Times(y, added.file) + Times(y, added.buffer)
  <2>1. /\ Times(y, o.shown) \in Nat /\ Times(y, o.screen) \in Nat
        /\ Times(y, o.file) \in Nat /\ Times(y, o.buffer) \in Nat
    BY <1>2, TimesIsNat
  <2>2. PICK one \in {0, 1} : one = IF y = x THEN 1 ELSE 0
    OBVIOUS
  <2>3. Times(y, added.shown) = Times(y, o.shown) + one
    BY <1>2, <1>3, <2>2, TimesAppend
  <2>4. Times(y, added.buffer) = Times(y, o.buffer) + one
    BY <1>2, <1>3, <2>2, TimesAppend
  <2>5. Times(y, o.shown) = Times(y, o.screen) + Times(y, o.file) + Times(y, o.buffer)
    BY DEF Accounted
  <2> QED
    BY <1>3, <2>1, <2>3, <2>4, <2>5
<1>6. Accounted(added)
  BY <1>3, <1>5 DEF Accounted
<1> QED
  BY <1>3, <1>4, <1>6, FlushedAccounts
-----------------------------------------------------------------------------
(***************************************************************************)
(* The record a run leaves: pages, exit code, output                       *)
(***************************************************************************)
Keys == {SeenKey(w) : w \in ManPage}

\* A page is shown for a word that has no topic, and is remembered.
MayShow(x, remembered) ==
  /\ x \in Shown
  /\ \A w \in ManPage : x = APage(w) =>
       Resolved(<<w>>).kind = "NotFoundAt" /\ SeenKey(w) \in remembered

\* The inductive invariant: once the run has begun it knows every name that is
\* in the file, the prompt is reached only by runs that may prompt and have not failed, and what
\* was shown is accounted for.
Recorded ==
  /\ cli \in Cli /\ pc \in {"start", "prompt", "done"}
  /\ exit \in {EXIT_SUCCESS, EXIT_NOT_FOUND, EXIT_LIBRARY_ERROR}
  /\ seen \subseteq Keys /\ seenFile \subseteq Keys
  /\ IF pc = "start" THEN seen = {} ELSE seenFile \subseteq seen
  /\ pc # "done" => exit = EXIT_SUCCESS
  /\ pc = "start" => out.shown = <<>>
  /\ pc = "prompt" => ~ NoPrompt
  /\ pc = "done" => out.buffer = <<>>
  /\ Accounted(out)
  /\ \A i \in DOMAIN out.shown : MayShow(out.shown[i], seen)

\* A step shows one thing at most, and the last step flushes the buffer.
ShowsIn(o, remembered) ==
  \/ o = out
  \/ \E x : MayShow(x, remembered) /\
       (o = OnScreen(out, x) \/ \E big : o = Buffered(out, x, big))

\* All that such a step shows is in the buffer or where output goes.
LEMMA ShownIsAccounted ==
  ASSUME Recorded, NEW remembered \in SUBSET Keys, seen \subseteq remembered,
         NEW o, ShowsIn(o, remembered)
  PROVE  /\ Accounted(o) /\ \A i \in DOMAIN o.shown : MayShow(o.shown[i], remembered)
         /\ o = out \/ o.shown # <<>>
<1>1. out.shown \in Seq(Shown)
  BY DEF Recorded, Accounted
<1>2. \A i \in DOMAIN out.shown : MayShow(out.shown[i], remembered)
  BY DEF Recorded, MayShow
<1>3. CASE o = out
  BY <1>2, <1>3 DEF Recorded
<1>4. CASE \E x : MayShow(x, remembered) /\
             (o = OnScreen(out, x) \/ \E big : o = Buffered(out, x, big))
  <2>1. PICK x : MayShow(x, remembered) /\
                 (o = OnScreen(out, x) \/ \E big : o = Buffered(out, x, big))
    BY <1>4
  <2>2. x \in Shown
    BY <2>1 DEF MayShow
  <2>3. Accounted(o) /\ o.shown = Append(out.shown, x)
    BY <2>1, <2>2, OnScreenAccounts, BufferedAccounts DEF Recorded
  <2>4. /\ DOMAIN Append(out.shown, x) = 1..(Len(out.shown) + 1)
        /\ DOMAIN out.shown = 1..Len(out.shown) /\ Len(out.shown) \in Nat
        /\ \A i \in 1..Len(out.shown) : Append(out.shown, x)[i] = out.shown[i]
        /\ Append(out.shown, x)[Len(out.shown) + 1] = x
        /\ Append(out.shown, x) # <<>>
    BY <1>1, <2>2
  <2>5. \A i \in 1..(Len(out.shown) + 1) : i \in 1..Len(out.shown) \/ i = Len(out.shown) + 1
    BY <2>4
  <2>6. \A i \in 1..(Len(out.shown) + 1) : MayShow(Append(out.shown, x)[i], remembered)
    BY <1>2, <2>1, <2>4, <2>5
  <2> QED
    BY <2>3, <2>4, <2>6
<1> QED
  BY <1>3, <1>4 DEF ShowsIn

\* The run goes on to the prompt with o, or ends with a code.
Goes(o, code) ==
  \/ pc' = "prompt" /\ ~ NoPrompt /\ out' = o /\ exit' = EXIT_SUCCESS
  \/ pc' = "done" /\ out' = Flushed(o) /\ exit' = code

\* The code says what happened.
Fits(code, o) ==
  /\ code \in {EXIT_SUCCESS, EXIT_NOT_FOUND, EXIT_LIBRARY_ERROR}
  /\ code = EXIT_SUCCESS /\ NoPrompt =>
       \/ o.shown # <<>>
       \/ cli.topics = <<>> /\ RootTopicNames(libs) = {} /\ seenFile' = {}
  /\ code = EXIT_NOT_FOUND =>
       NoPrompt /\ o.shown = <<>> /\ Resolved(cli.topics).kind # "Found"
  /\ code = EXIT_LIBRARY_ERROR => CannotStart /\ seenFile' = seen' /\ o.shown = <<>>

\* No page is forgotten, and the file has none that is not known.
Remembers == seen \subseteq seen' /\ seenFile' \subseteq seen' /\ seen' \subseteq Keys

\* One step of the record
Records ==
  /\ Remembers
  /\ \E o, code : ShowsIn(o, seen') /\ Goes(o, code) /\ (pc' = "done" => Fits(code, o))

\* The cases of try_man_fallback()
LEMMA ManRemembers ==
  ASSUME Recorded, NEW word, ManShown(word) \/ NoMan
  PROVE  /\ Remembers
         /\ ManShown(word) => word \in ManPage /\ SeenKey(word) \in seen'
         /\ NoMan => seenFile' = seenFile /\ (pc = "start" => seenFile' = seen')
BY DEF Recorded, Remembers, ManShown, Save, NoMan, Keys

\* A topic is no page, a listing neither.
LEMMA ShownKinds ==
  /\ \A n \in Node : ATopic(n) \in Shown /\ \A w : ATopic(n) # APage(w)
  /\ AListing \in Shown /\ \A w : AListing # APage(w)
  /\ \A w \in ManPage : APage(w) \in Shown
  /\ \A v, w : APage(v) = APage(w) => v = w
<1>1. /\ \A n : DOMAIN ATopic(n) = {"topic"}
      /\ \A w : DOMAIN APage(w) = {"page"} /\ APage(w).page = w
      /\ DOMAIN AListing = {"listing"}
  BY DEF ATopic, APage, AListing
<1>2. "topic" # "page" /\ "listing" # "page"
  OBVIOUS
<1>3. /\ \A n, w : ATopic(n) # APage(w)
      /\ \A w : AListing # APage(w)
  BY <1>1, <1>2
<1> QED
  BY <1>1, <1>3 DEF Shown

\* What was found may be shown as a topic.
LEMMA FoundMayShow ==
  ASSUME cli \in Cli, NEW path \in Seq(Seq(Char)), path # <<>>,
         Resolved(path).kind = "Found"
  PROVE  \A remembered : MayShow(ATopic(Resolved(path).node), remembered)
<1>1. PICK n \in Topics : Resolved(path) = Found(n)
  BY FoundIsReached
<1>2. Resolved(path).node = n /\ n \in Node
  BY <1>1, FailureIsNoFind DEF Topics
<1> QED
  BY <1>2, ShownKinds DEF MayShow

\* So may a page for a word without a topic.
LEMMA PageMayShow ==
  ASSUME NEW word \in ManPage, Resolved(<<word>>).kind = "NotFoundAt",
         NEW remembered, SeenKey(word) \in remembered
  PROVE  MayShow(APage(word), remembered)
BY ShownKinds DEF MayShow

\* run_browse() shows what it was asked for and sets the exit code by it.
LEMMA BrowseRecords ==
  ASSUME Recorded, BrowseFails \/ BrowseTopic \/ BrowseRoot
  PROVE  Records
<1>0. /\ pc = "start" /\ out.shown = <<>> /\ exit = EXIT_SUCCESS /\ cli \in Cli
      /\ ShowsIn(out, seen')
  BY DEF BrowseFails, BrowseTopic, BrowseRoot, Starts, Recorded, ShowsIn
<1>11. /\ EXIT_SUCCESS # EXIT_NOT_FOUND /\ EXIT_SUCCESS # EXIT_LIBRARY_ERROR
       /\ EXIT_NOT_FOUND # EXIT_LIBRARY_ERROR
  BY DEF EXIT_SUCCESS, EXIT_NOT_FOUND, EXIT_LIBRARY_ERROR
<1>1. ASSUME NEW code, NEW n, NEW o, Continue(code, n, o)
      PROVE  Goes(o, code) /\ (pc' = "done" => NoPrompt)
  BY <1>0, <1>1 DEF Continue, Return, Goes
<1>2. CASE BrowseFails
  <2>1. Remembers /\ seenFile' = seen'
    BY <1>0, <1>2, ManRemembers DEF BrowseFails
  <2>2. Goes(out, EXIT_LIBRARY_ERROR) /\ Fits(EXIT_LIBRARY_ERROR, out)
    BY <1>0, <1>11, <1>2, <2>1 DEF BrowseFails, Return, Goes, Fits
  <2> QED
    BY <1>0, <2>1, <2>2 DEF Records
<1>3. CASE BrowseRoot
  <2> DEFINE lists == NoPrompt /\ (RootTopicNames(libs) # {} \/ seenFile # {})
             o == IF lists THEN Buffered(out, AListing, FALSE) ELSE out
  <2>1. Remembers /\ seenFile' = seenFile
    BY <1>3, ManRemembers DEF BrowseRoot
  <2>2. Continue(EXIT_SUCCESS, NoNode, o)
    BY <1>3 DEF BrowseRoot
  <2>3. MayShow(AListing, seen')
    BY ShownKinds DEF MayShow
  <2>4. ShowsIn(o, seen')
    <3> HIDE DEF lists
    <3> QED
      BY <1>0, <2>3 DEF ShowsIn
  <2>5. lists => o.shown # <<>>
    <3>1. /\ Accounted(out) /\ AListing \in Shown /\ out.shown \in Seq(Shown)
          /\ Append(out.shown, AListing) # <<>>
      BY ShownKinds, AppendIsNotEmpty DEF Recorded, Accounted
    <3> HIDE DEF lists
    <3> QED
      BY <3>1, BufferedAccounts
  <2>6. cli.topics = <<>>
    BY <1>3 DEF BrowseRoot
  <2> HIDE DEF o
  <2>7. Fits(EXIT_SUCCESS, o)
    BY <1>11, <2>1, <2>5, <2>6 DEF Fits
  <2> QED
    BY <1>1, <2>1, <2>2, <2>4, <2>7 DEF Records
<1>4. CASE BrowseTopic
  <2> DEFINE r == Resolved(cli.topics)
             topic == ATopic(r.node)
             o == IF NoPager THEN Buffered(out, topic, r.node \in BigTopic)
                  ELSE OnScreen(out, topic)
             page == APage(cli.topics[1])
  <2>1. cli.topics \in Seq(Seq(Char)) /\ cli.topics # <<>>
    BY <1>0, <1>4, SessionAssumption DEF BrowseTopic
  <2>2. \/ r.kind = "Found" /\ Continue(EXIT_SUCCESS, r.node, o) /\ NoMan
        \/ r.kind # "Found" /\ Continue(EXIT_NOT_FOUND, NoNode, out) /\ NoMan
        \/ /\ r.kind = "NotFoundAt" /\ Len(cli.topics) = 1 /\ ManShown(cli.topics[1])
           /\ Continue(EXIT_SUCCESS, NoNode, OnScreen(out, page))
    <3> HIDE DEF r
    <3>1. "Found" # "AmbiguousAt" /\ "Found" # "NotFoundAt"
      OBVIOUS
    <3> QED
      BY <1>4, <3>1 DEF BrowseTopic, r
  <2>3. Remembers
    <3> HIDE DEF r, o, page
    <3> QED
      BY <2>2, ManRemembers
  <2>4. ASSUME r.kind = "Found", Continue(EXIT_SUCCESS, r.node, o)
        PROVE  Records
    <3>1. MayShow(topic, seen')
      BY <1>0, <2>1, <2>4, FoundMayShow
    <3>2. Accounted(out) /\ topic \in Shown
      BY <3>1 DEF Recorded, MayShow
    <3> HIDE DEF r, topic
    <3>3. ShowsIn(o, seen') /\ o.shown = Append(out.shown, topic)
      BY <3>1, <3>2, OnScreenAccounts, BufferedAccounts DEF ShowsIn
    <3>4. o.shown # <<>>
      BY <3>2, <3>3, AppendIsNotEmpty DEF Accounted
    <3> HIDE DEF o
    <3>5. Fits(EXIT_SUCCESS, o)
      BY <1>11, <3>4 DEF Fits
    <3> QED
      BY <1>1, <2>3, <2>4, <3>3, <3>5 DEF Records
  <2>5. ASSUME r.kind # "Found", Continue(EXIT_NOT_FOUND, NoNode, out)
        PROVE  Records
    <3>1. NoPrompt => Fits(EXIT_NOT_FOUND, out)
      BY <1>0, <1>11, <2>5 DEF Fits
    <3> QED
      BY <1>0, <1>1, <2>3, <2>5, <3>1 DEF Records
  <2>6. ASSUME r.kind = "NotFoundAt", Len(cli.topics) = 1, ManShown(cli.topics[1]),
               Continue(EXIT_SUCCESS, NoNode, OnScreen(out, page))
        PROVE  Records
    <3>1. cli.topics = <<cli.topics[1]>>
      BY <2>1, <2>6
    <3>2. cli.topics[1] \in ManPage /\ SeenKey(cli.topics[1]) \in seen'
      BY <2>6, ManRemembers
    <3>3. MayShow(page, seen')
      BY <2>6, <3>1, <3>2, PageMayShow
    <3>4. Accounted(out) /\ page \in Shown
      BY <3>3 DEF Recorded, MayShow
    <3> HIDE DEF page, r
    <3>5. /\ ShowsIn(OnScreen(out, page), seen')
          /\ OnScreen(out, page).shown = Append(out.shown, page)
      BY <3>3, <3>4, OnScreenAccounts DEF ShowsIn
    <3>6. OnScreen(out, page).shown # <<>>
      BY <3>4, <3>5, AppendIsNotEmpty DEF Accounted
    <3>7. Fits(EXIT_SUCCESS, OnScreen(out, page))
      BY <1>11, <3>6 DEF Fits
    <3> QED
      BY <1>1, <2>3, <2>6, <3>5, <3>7 DEF Records
  <2> HIDE DEF r, o, page
  <2> QED
    BY <2>2, <2>4, <2>5, <2>6
<1> QED
  BY <1>2, <1>3, <1>4

\* What is shown at the prompt is recorded; the exit code is success.
LEMMA ReadRecords ==
  ASSUME Placed, Recorded,
         ReadEof \/ ReadEmpty \/ ReadQuestion \/ \E line \in Line : ReadWord(line)
  PROVE  Records
<1>0. /\ pc = "prompt" /\ exit = EXIT_SUCCESS /\ ~ NoPrompt /\ cli \in Cli
      /\ seenFile \subseteq seen /\ seen \subseteq Keys
  BY DEF ReadEof, ReadEmpty, ReadQuestion, ReadWord, Reads, Recorded
<1>1. \A o : Fits(EXIT_SUCCESS, o)
  BY <1>0 DEF Fits, EXIT_SUCCESS, EXIT_NOT_FOUND, EXIT_LIBRARY_ERROR
<1>2. ShowsIn(out, seen')
  BY DEF ShowsIn
<1>3. ASSUME UNCHANGED <<pc, exit, out, seen, seenFile>>
      PROVE  Records
  <2>1. Goes(out, EXIT_SUCCESS)
    BY <1>0, <1>3 DEF Goes
  <2> QED
    BY <1>0, <1>1, <1>2, <1>3, <2>1 DEF Records, Remembers
<1>4. ASSUME Return(EXIT_SUCCESS, out), UNCHANGED <<seen, seenFile>>
      PROVE  Records
  <2>1. Goes(out, EXIT_SUCCESS)
    BY <1>4 DEF Goes, Return
  <2> QED
    BY <1>0, <1>1, <1>2, <1>4, <2>1 DEF Records, Remembers
<1>5. CASE ReadEof
  BY <1>4, <1>5 DEF ReadEof
<1>6. CASE ReadEmpty
  BY <1>3, <1>4, <1>6 DEF ReadEmpty
<1>7. CASE ReadQuestion
  BY <1>3, <1>7 DEF ReadQuestion
<1>8. CASE \E line \in Line : ReadWord(line)
  <2>1. PICK line \in Line : ReadWord(line)
    BY <1>8
  <2> DEFINE path == Append(path_stack, line)
             r == Resolved(path)
             topic == ATopic(r.node)
             page == APage(line)
  <2>2. \/ UNCHANGED <<pc, exit, out, seen, seenFile>>
        \/ /\ r.kind = "Found" /\ out' = OnScreen(out, topic)
           /\ UNCHANGED <<pc, exit, seen, seenFile>>
        \/ /\ r.kind = "NotFoundAt" /\ path_stack = <<>> /\ ManShown(line)
           /\ out' = OnScreen(out, page) /\ UNCHANGED <<pc, exit>>
    <3> HIDE DEF path
    <3> QED
      BY <2>1 DEF ReadWord, PageForWord, path
  <2>3. line \in Seq(Char) /\ Accounted(out)
    BY SessionAssumption DEF Recorded
  <2>4. ASSUME r.kind = "Found", out' = OnScreen(out, topic),
               UNCHANGED <<pc, exit, seen, seenFile>>
        PROVE  Records
    <3>1. path_stack \in Seq(Seq(Char))
      <4>1. CASE current = NoNode
        BY <4>1 DEF Placed, StartPath
      <4>2. CASE current # NoNode
        BY <4>2, NamesToAreWords, SessionAssumption DEF Placed, Reached, StartPath, Topics
      <4> QED
        BY <4>1, <4>2
    <3>2. path \in Seq(Seq(Char)) /\ path # <<>>
      BY <2>3, <3>1, AppendIsNotEmpty
    <3> HIDE DEF path
    <3>3. MayShow(topic, seen')
      BY <1>0, <2>4, <3>2, FoundMayShow
    <3> HIDE DEF topic, r
    <3>4. ShowsIn(OnScreen(out, topic), seen') /\ Goes(OnScreen(out, topic), EXIT_SUCCESS)
      BY <1>0, <2>4, <3>3 DEF ShowsIn, Goes
    <3> QED
      BY <1>0, <1>1, <2>4, <3>4 DEF Records, Remembers
  <2>5. ASSUME r.kind = "NotFoundAt", path_stack = <<>>, ManShown(line),
               out' = OnScreen(out, page), UNCHANGED <<pc, exit>>
        PROVE  Records
    <3>1. path = <<line>>
      BY <2>5
    <3>2. /\ Remembers
          /\ line \in ManPage /\ SeenKey(line) \in seen'
      BY <2>5, ManRemembers
    <3>3. MayShow(page, seen')
      BY <2>5, <3>1, <3>2, PageMayShow
    <3> HIDE DEF page
    <3>4. ShowsIn(OnScreen(out, page), seen') /\ Goes(OnScreen(out, page), EXIT_SUCCESS)
      BY <1>0, <2>5, <3>3 DEF ShowsIn, Goes
    <3> QED
      BY <1>1, <3>2, <3>4 DEF Records
  <2> HIDE DEF r, topic, page, path
  <2> QED
    BY <1>3, <2>2, <2>4, <2>5
<1> QED
  BY <1>5, <1>6, <1>7, <1>8

\* What a step does to the record keeps the invariant.
LEMMA RecordsKeep ==
  ASSUME Recorded, cli' = cli, Records
  PROVE  /\ Recorded'
         /\ pc' = "done" => Fits(exit', out')
<1>1. libs' = libs /\ NoPrompt' = NoPrompt
  BY DEF libs, LoadLibraries, NoPrompt
<1>2. PICK o, code : ShowsIn(o, seen') /\ Goes(o, code) /\ (pc' = "done" => Fits(code, o))
  BY DEF Records
<1>3. /\ seenFile' \subseteq seen' /\ seen \subseteq seen'
      /\ seen' \subseteq Keys /\ seenFile' \subseteq Keys
  BY DEF Records, Remembers
<1>4. Accounted(o) /\ \A i \in DOMAIN o.shown : MayShow(o.shown[i], seen')
  BY <1>2, <1>3, ShownIsAccounted
<1>5. /\ Accounted(out') /\ out'.shown = o.shown /\ pc' \in {"prompt", "done"}
      /\ pc' = "prompt" => exit' = EXIT_SUCCESS /\ ~ NoPrompt
      /\ pc' = "done" => exit' = code /\ out'.buffer = <<>>
  BY <1>2, <1>4, FlushedAccounts DEF Goes
<1>6. pc' = "done" => Fits(exit', out')
  BY <1>2, <1>5 DEF Fits
<1>7. exit' \in {EXIT_SUCCESS, EXIT_NOT_FOUND, EXIT_LIBRARY_ERROR}
  BY <1>2, <1>5 DEF Fits
<1>8. \A x : MayShow(x, seen') => MayShow(x, seen)'
  BY <1>1 DEF MayShow, Resolved
<1>9. (\A i \in DOMAIN out.shown : MayShow(out.shown[i], seen))'
  BY <1>4, <1>5, <1>8
<1>10. cli' \in Cli
  BY DEF Recorded
<1> QED
  BY <1>1, <1>3, <1>5, <1>6, <1>7, <1>9, <1>10 DEF Recorded, Accounted

\* Every step keeps the record; the last one leaves the exit code that fits it.
LEMMA StepRecords ==
  ASSUME Placed, Recorded, Next
  PROVE  cli' = cli /\ Recorded' /\ (pc' = "done" => Fits(exit', out'))
<1>1. Records
  BY BrowseRecords, ReadRecords DEF Next
<1>2. cli' = cli
  BY StepGoes
<1> QED
  BY <1>1, <1>2, RecordsKeep

\* The record is kept.
LEMMA RecordedInv == Spec => []Recorded
<1>1. Init => Recorded
  <2> SUFFICES ASSUME Init PROVE Recorded
    OBVIOUS
  <2>1. /\ out = [screen |-> <<>>, file |-> <<>>, buffer |-> <<>>, shown |-> <<>>]
        /\ <<>> \in Seq(Shown)
    BY DEF Init
  <2>2. \A x \in Shown : Times(x, <<>>) = 0
    BY <2>1, TimesIsNat
  <2>3. Accounted(out)
    BY <2>1, <2>2 DEF Accounted
  <2>4. out.shown = <<>> /\ out.buffer = <<>> /\ DOMAIN out.shown = {}
    BY <2>1
  <2> QED
    BY <2>3, <2>4 DEF Init, Recorded, Keys
<1>2. Placed /\ Recorded /\ [Next]_vars => Recorded'
  <2> SUFFICES ASSUME Placed, Recorded, [Next]_vars PROVE Recorded'
    OBVIOUS
  <2>1. CASE Next
    BY <2>1, StepRecords
  <2>2. CASE UNCHANGED vars
    BY <2>2 DEF vars, Recorded, NoPrompt, Accounted, MayShow, Resolved, libs, LoadLibraries
  <2> QED
    BY <2>1, <2>2
<1> QED
  BY <1>1, <1>2, PlacedInv, PTL DEF Spec

\* Every variable holds what its type in the code allows.
THEOREM SessionTypeCorrect == Spec => []TypeOK
<1>1. Placed /\ Recorded => TypeOK
  <2> SUFFICES ASSUME Placed, Recorded PROVE TypeOK
    OBVIOUS
  <2>1. path_stack \in Seq(Seq(Char)) /\ current \in Node \cup {NoNode}
    <3>1. CASE current = NoNode
      BY <3>1 DEF Placed, StartPath
    <3>2. CASE current # NoNode
      BY <3>2, NamesToAreWords, SessionAssumption DEF Placed, Reached, StartPath, Topics
    <3> QED
      BY <3>1, <3>2
  <2>2. \A x \in Shown : DOMAIN x \subseteq {"topic", "page", "listing"}
    <3>1. \A n : DOMAIN ATopic(n) = {"topic"}
      BY DEF ATopic
    <3>2. \A w : DOMAIN APage(w) = {"page"}
      BY DEF APage
    <3>3. DOMAIN AListing = {"listing"}
      BY DEF AListing
    <3> QED
      BY <3>1, <3>2, <3>3 DEF Shown
  <2>3. \A i \in DOMAIN out.shown : DOMAIN out.shown[i] \subseteq {"topic", "page", "listing"}
    BY <2>2 DEF Recorded, MayShow
  <2> QED
    BY <2>1, <2>3 DEF Recorded, Keys, TypeOK
<1> QED
  BY <1>1, PlacedInv, RecordedInv, PTL

\* When hlp has exited, everything shown has arrived as often as it was shown:
\* about the BufWriter that run_browse() passes on and drops when it returns.
THEOREM EverythingShownArrives == Spec => []EverythingArrives
<1>1. Recorded => EverythingArrives
  <2> SUFFICES ASSUME Recorded, pc = "done" PROVE EverythingArrives
    BY DEF EverythingArrives
  <2>1. /\ out.buffer = <<>> /\ Accounted(out)
        /\ out.screen \in Seq(Shown) /\ out.file \in Seq(Shown) /\ out.shown \in Seq(Shown)
    BY DEF Recorded, Accounted
  <2>2. ASSUME NEW x \in ToSet(out.shown)
        PROVE  Times(x, out.shown) = Times(x, out.screen) + Times(x, out.file)
    <3>1. x \in Shown
      BY <2>1 DEF ToSet
    <3>2. /\ Times(x, out.buffer) = 0 /\ Times(x, out.screen) \in Nat
          /\ Times(x, out.file) \in Nat
      BY <2>1, TimesIsNat
    <3>3. Times(x, out.shown)
            = Times(x, out.screen) + Times(x, out.file) + Times(x, out.buffer)
      BY <2>1, <3>1 DEF Accounted
    <3> QED
      BY <3>2, <3>3
  <2> QED
    BY <2>1, <2>2 DEF EverythingArrives
<1> QED
  BY <1>1, RecordedInv, PTL

\* A page appears only for a word without a topic and is known for the rest of
\* the session, whatever becomes of the file: about try_man_fallback(), its two
\* callers and save().
THEOREM PagesOnlyForMissingTopics == Spec => []PagesOnlyWithoutTopic
<1>1. Recorded => PagesOnlyWithoutTopic
  <2> SUFFICES ASSUME Recorded, NEW i \in DOMAIN out.shown,
                      "page" \in DOMAIN out.shown[i]
               PROVE  LET w == out.shown[i].page
                      IN  Resolved(<<w>>).kind = "NotFoundAt" /\ SeenKey(w) \in seen
    BY DEF PagesOnlyWithoutTopic, Recorded
  <2>1. MayShow(out.shown[i], seen) /\ out.shown[i] \in Shown
    BY DEF Recorded, MayShow
  <2>2. \A n : DOMAIN ATopic(n) = {"topic"}
    BY DEF ATopic
  <2>3. DOMAIN AListing = {"listing"}
    BY DEF AListing
  <2>4. PICK w \in ManPage : out.shown[i] = APage(w)
    BY <2>1, <2>2, <2>3 DEF Shown
  <2>5. out.shown[i].page = w
    BY <2>4 DEF APage
  <2> QED
    BY <2>1, <2>4, <2>5 DEF MayShow
<1> QED
  BY <1>1, RecordedInv, PTL

\* The exit code of a run without a prompt says what happened.
THEOREM ExitCodeTells == Spec => []ExitTellsWhatHappened
<1>1. Init => ExitTellsWhatHappened
  BY DEF Init, ExitTellsWhatHappened
<1>2. Placed /\ Recorded /\ ExitTellsWhatHappened /\ [Next]_vars => ExitTellsWhatHappened'
  <2> SUFFICES ASSUME Placed, Recorded, ExitTellsWhatHappened, [Next]_vars
               PROVE  ExitTellsWhatHappened'
    OBVIOUS
  <2>1. CASE Next
    <3>1. cli' = cli /\ Recorded' /\ (pc' = "done" => Fits(exit', out'))
      BY <2>1, StepRecords
    <3>2. /\ libs' = libs /\ NoPrompt' = NoPrompt /\ CannotStart' = CannotStart
      BY <3>1 DEF libs, LoadLibraries, NoPrompt, CannotStart
    <3>3. pc' = "done" => Fits(exit', out')
      BY <3>1
    <3> QED
      BY <3>1, <3>2, <3>3 DEF ExitTellsWhatHappened, Fits, Resolved
  <2>2. CASE UNCHANGED vars
    BY <2>2 DEF vars, ExitTellsWhatHappened, NoPrompt, CannotStart, Resolved, libs, LoadLibraries
  <2> QED
    BY <2>1, <2>2
<1> QED
  BY <1>1, <1>2, PlacedInv, RecordedInv, PTL DEF Spec
-----------------------------------------------------------------------------
(***************************************************************************)
(* The file of viewed pages that the runs of hlp share: what save() writes *)
(* parse() reads back, and what was cut off is no page that was not viewed *)
(***************************************************************************)

\* A bounded set of natural numbers that is not empty holds its maximum.
LEMMA MaxIsMember ==
  ASSUME NEW S \in SUBSET Nat, S # {}, NEW n \in Nat, \A x \in S : x <= n
  PROVE  Max(S) \in S /\ \A y \in S : y <= Max(S)
<1> DEFINE T == {n - x : x \in S}
<1>1. T \in SUBSET Nat /\ T # {}
  <2>1. ASSUME NEW x \in S PROVE n - x \in Nat
    OBVIOUS
  <2>2. \E x : x \in S
    OBVIOUS
  <2> QED
    BY <2>1, <2>2
<1>2. Min(T) \in T /\ \A y \in T : Min(T) <= y
  BY <1>1, MinIsMember
<1>3. PICK x \in S : Min(T) = n - x
  BY <1>2
<1>4. ASSUME NEW y \in S PROVE x >= y
  <2>1. n - y \in T
    OBVIOUS
  <2>2. n - x <= n - y
    BY <1>2, <1>3, <2>1
  <2> QED
    BY <2>2
<1> HIDE DEF T
<1>5. Max(S) \in S /\ \A y \in S : Max(S) >= y
  BY <1>4 DEF Max
<1> QED
  BY <1>5

\* A line goes up to the next end of a line, or to the end of the file.
LEMMA LineEnds ==
  ASSUME NEW S, NEW f \in Seq(S), NEW i \in 1..Len(f)
  PROVE  /\ EndOf(f, i) \in i..(Len(f) + 1)
         /\ EndOf(f, i) # Len(f) + 1 => f[EndOf(f, i)] = NewLine
         /\ \A j \in i..(EndOf(f, i) - 1) : f[j] # NewLine
<1> DEFINE T == {j \in i..Len(f) : f[j] = NewLine} \cup {Len(f) + 1}
           e == EndOf(f, i)
<1>1. Len(f) \in Nat /\ T \in SUBSET Nat /\ T # {} /\ T \subseteq i..(Len(f) + 1)
  OBVIOUS
<1>2. e \in T /\ \A y \in T : e <= y
  BY <1>1, MinIsMember DEF EndOf
<1>3. e \in i..(Len(f) + 1) /\ (e # Len(f) + 1 => f[e] = NewLine)
  BY <1>1, <1>2
<1>4. ASSUME NEW j \in i..(e - 1), f[j] = NewLine PROVE FALSE
  <2>1. j \in T
    BY <1>1, <1>3, <1>4
  <2>2. e <= j
    BY <1>2, <2>1
  <2> QED
    BY <1>1, <1>3, <2>2
<1> QED
  BY <1>3, <1>4

\* and nothing else is where a line ends.
LEMMA LineEndsThere ==
  ASSUME NEW S, NEW f \in Seq(S), NEW i \in 1..Len(f), NEW e \in i..(Len(f) + 1),
         e # Len(f) + 1 => f[e] = NewLine,
         \A j \in i..(e - 1) : f[j] # NewLine
  PROVE  EndOf(f, i) = e
<1>1. /\ EndOf(f, i) \in i..(Len(f) + 1)
      /\ EndOf(f, i) # Len(f) + 1 => f[EndOf(f, i)] = NewLine
      /\ \A j \in i..(EndOf(f, i) - 1) : f[j] # NewLine
  BY LineEnds
<1>2. Len(f) \in Nat
  OBVIOUS
<1>3. ~ EndOf(f, i) < e
  BY <1>1, <1>2
<1>4. ~ e < EndOf(f, i)
  BY <1>1, <1>2
<1> QED
  BY <1>1, <1>2, <1>3, <1>4

\* What a line holds.
LEMMA LineHolds ==
  ASSUME NEW S, NEW f \in Seq(S), NEW i \in 1..Len(f)
  PROVE  /\ LineAt(f, i) \in Seq(S)
         /\ Len(LineAt(f, i)) = EndOf(f, i) - i
         /\ \A k \in 1..(EndOf(f, i) - i) :
              LineAt(f, i)[k] = f[i + k - 1] /\ LineAt(f, i)[k] # NewLine
<1> DEFINE e == EndOf(f, i)
<1>1. /\ e \in i..(Len(f) + 1) /\ Len(f) \in Nat
      /\ \A j \in i..(e - 1) : f[j] # NewLine
  BY LineEnds
<1>2. LineAt(f, i) = SubSeq(f, i, e - 1)
  BY DEF LineAt
<1> HIDE DEF e
<1>3. \A j \in i..(e - 1) : f[j] \in S
  BY <1>1
<1>4. CASE e = i
  BY <1>1, <1>2, <1>4, SubSeqEmpty DEF e
<1>5. CASE e # i
  <2>1. i \in Int /\ e - 1 \in Int /\ e - 1 >= i
    BY <1>1, <1>5
  <2>2. /\ SubSeq(f, i, e - 1) \in Seq(S)
        /\ Len(SubSeq(f, i, e - 1)) = e - i
        /\ \A k \in 1..(e - i) : SubSeq(f, i, e - 1)[k] = f[i + k - 1]
    BY <1>1, <1>3, <2>1, SubSeqProperties
  <2>3. \A k \in 1..(e - i) : i + k - 1 \in i..(e - 1)
    BY <1>1
  <2> QED
    BY <1>1, <1>2, <2>2, <2>3 DEF e
<1> QED
  BY <1>4, <1>5
-----------------------------------------------------------------------------
\* What the file is made of.
Token == Part \cup {Colon, NewLine, Comment, Section}

\* What may stand before the colon of a line, and after it.
IsName(k) ==
  k # <<>> /\ k[1] # Comment /\ \A i \in DOMAIN k : k[i] # Colon /\ k[i] # NewLine
IsText(v) == v # <<>> /\ \A i \in DOMAIN v : v[i] # NewLine

\* The first colon of a line
LEMMA ColonIsFirst ==
  ASSUME NEW S, NEW l \in Seq(S)
  PROVE  /\ FirstColon(l) \in 1..(Len(l) + 1)
         /\ FirstColon(l) # Len(l) + 1 => l[FirstColon(l)] = Colon
         /\ \A j \in 1..(FirstColon(l) - 1) : l[j] # Colon
<1> DEFINE T == {i \in DOMAIN l : l[i] = Colon} \cup {Len(l) + 1}
           c == FirstColon(l)
<1>1. /\ Len(l) \in Nat /\ DOMAIN l = 1..Len(l)
      /\ T \in SUBSET Nat /\ T # {} /\ T \subseteq 1..(Len(l) + 1)
  OBVIOUS
<1>2. c \in T /\ \A y \in T : c <= y
  BY <1>1, MinIsMember DEF FirstColon
<1>3. c \in 1..(Len(l) + 1) /\ (c # Len(l) + 1 => l[c] = Colon)
  BY <1>1, <1>2
<1>4. ASSUME NEW j \in 1..(c - 1), l[j] = Colon PROVE FALSE
  <2>1. j \in T
    BY <1>1, <1>3, <1>4
  <2>2. c <= j
    BY <1>2, <2>1
  <2> QED
    BY <1>1, <1>3, <2>2
<1> QED
  BY <1>3, <1>4

\* and no other colon is.
LEMMA ColonIsThere ==
  ASSUME NEW S, NEW l \in Seq(S), NEW c \in 1..Len(l), l[c] = Colon,
         \A j \in 1..(c - 1) : l[j] # Colon
  PROVE  FirstColon(l) = c
<1>1. /\ FirstColon(l) \in 1..(Len(l) + 1)
      /\ FirstColon(l) # Len(l) + 1 => l[FirstColon(l)] = Colon
      /\ \A j \in 1..(FirstColon(l) - 1) : l[j] # Colon
  BY ColonIsFirst
<1>2. Len(l) \in Nat
  OBVIOUS
<1>3. ~ FirstColon(l) < c
  BY <1>1, <1>2
<1>4. ~ c < FirstColon(l)
  BY <1>1, <1>2
<1> QED
  BY <1>1, <1>2, <1>3, <1>4

\* What parse() makes of a line.
LEMMA EntryHolds ==
  ASSUME NEW S, NEW l \in Seq(S), IsEntry(l)
  PROVE  LET c == FirstColon(l)
         IN  /\ c \in 2..(Len(l) - 1) /\ l[c] = Colon
             /\ Key(l) \in Seq(S) /\ Len(Key(l)) = c - 1
             /\ \A i \in 1..(c - 1) : Key(l)[i] = l[i] /\ l[i] # Colon
             /\ Value(l) \in Seq(S) /\ Len(Value(l)) = Len(l) - c
             /\ \A i \in 1..(Len(l) - c) : Value(l)[i] = l[c + i]
<1> DEFINE c == FirstColon(l)
<1>1. /\ c \in 2..(Len(l) - 1) /\ Len(l) \in Nat /\ l[c] = Colon
      /\ \A i \in 1..(c - 1) : l[i] # Colon
  BY ColonIsFirst DEF IsEntry
<1>2. Key(l) = SubSeq(l, 1, c - 1) /\ Value(l) = SubSeq(l, c + 1, Len(l))
  BY DEF Key, Value
<1> HIDE DEF c
<1>3. \A i \in 1..Len(l) : l[i] \in S
  OBVIOUS
<1>4. c - 1 \in 0..Len(l) /\ c + 1 \in Int /\ c + 1 <= Len(l)
  BY <1>1
<1>5. /\ Key(l) \in Seq(S) /\ Len(Key(l)) = c - 1
      /\ \A i \in 1..(c - 1) : Key(l)[i] = l[i]
  BY <1>2, <1>4, PrefixProperties
<1>6. /\ Value(l) \in Seq(S) /\ Len(Value(l)) = Len(l) - (c + 1) + 1
      /\ \A i \in 1..(Len(l) - (c + 1) + 1) : Value(l)[i] = l[(c + 1) + i - 1]
  <2>1. \A i \in (c + 1)..Len(l) : l[i] \in S
    BY <1>1, <1>3
  <2> QED
    BY <1>1, <1>2, <1>4, <2>1, SubSeqProperties
<1>7. /\ Len(l) - (c + 1) + 1 = Len(l) - c
      /\ \A i \in 1..(Len(l) - c) : (c + 1) + i - 1 = c + i
  BY <1>1
<1> QED
  BY <1>1, <1>5, <1>6, <1>7 DEF c

\* It is a name and a text.
LEMMA EntryIsNameAndText ==
  ASSUME NEW S, NEW l \in Seq(S), IsEntry(l), \A i \in 1..Len(l) : l[i] # NewLine
  PROVE  /\ Key(l) \in Seq(S) /\ IsName(Key(l))
         /\ Value(l) \in Seq(S) /\ IsText(Value(l))
<1> DEFINE c == FirstColon(l)
<1>1. /\ c \in 2..(Len(l) - 1)
      /\ Key(l) \in Seq(S) /\ Len(Key(l)) = c - 1
      /\ \A i \in 1..(c - 1) : Key(l)[i] = l[i] /\ l[i] # Colon
      /\ Value(l) \in Seq(S) /\ Len(Value(l)) = Len(l) - c
      /\ \A i \in 1..(Len(l) - c) : Value(l)[i] = l[c + i]
  BY EntryHolds
<1> HIDE DEF c
<1>2. l[1] # Comment /\ Len(l) \in Nat
  BY DEF IsEntry
<1>3. IsName(Key(l))
  <2>1. \A i \in 1..(c - 1) : i \in 1..Len(l)
    BY <1>1, <1>2
  <2>2. DOMAIN Key(l) = 1..(c - 1) /\ 1 \in 1..(c - 1)
    BY <1>1, <1>2
  <2> QED
    BY <1>1, <1>2, <2>1, <2>2, EmptySeq DEF IsName
<1>4. IsText(Value(l))
  <2>1. \A i \in 1..(Len(l) - c) : c + i \in 1..Len(l)
    BY <1>1, <1>2
  <2>2. DOMAIN Value(l) = 1..(Len(l) - c) /\ 1 \in 1..(Len(l) - c)
    BY <1>1, <1>2
  <2>3. \A i \in DOMAIN Value(l) : Value(l)[i] # NewLine
    BY <1>1, <2>1, <2>2
  <2>4. Value(l) # <<>>
    BY <1>1, <2>2, EmptySeq
  <2> QED
    BY <2>3, <2>4 DEF IsText
<1> QED
  BY <1>1, <1>3, <1>4

\* A line that was made of a name and a text is an entry, of that name.
LEMMA EntryReadsBack ==
  ASSUME NEW k \in Seq(Token), NEW v \in Seq(Token), IsName(k), IsText(v)
  PROVE  LET l == k \o <<Colon>> \o v
         IN  /\ l \in Seq(Token) /\ IsEntry(l) /\ Key(l) = k /\ Value(l) = v
             /\ \A i \in 1..Len(l) : l[i] # NewLine
<1> DEFINE l == k \o <<Colon>> \o v
           c == Len(k) + 1
<1>1. /\ Len(k) \in Nat \ {0} /\ Len(v) \in Nat \ {0}
      /\ DOMAIN k = 1..Len(k) /\ DOMAIN v = 1..Len(v)
      /\ Colon \in Token /\ Colon # NewLine
  BY EmptySeq DEF IsName, IsText, Token, Colon, NewLine
<1>2. /\ k \o <<Colon>> \in Seq(Token) /\ Len(k \o <<Colon>>) = c
      /\ \A i \in 1..c : (k \o <<Colon>>)[i] = IF i <= Len(k) THEN k[i] ELSE Colon
  BY <1>1
<1>3. /\ l \in Seq(Token) /\ Len(l) = c + Len(v)
      /\ \A i \in 1..(c + Len(v)) :
           l[i] = IF i <= c THEN (k \o <<Colon>>)[i] ELSE v[i - c]
  BY <1>2, ConcatProperties
<1> HIDE DEF l
<1>4. /\ \A i \in 1..Len(k) : l[i] = k[i]
      /\ l[c] = Colon
      /\ \A i \in 1..Len(v) : l[c + i] = v[i]
  <2>1. ASSUME NEW i \in 1..Len(k) PROVE l[i] = k[i]
    BY <1>1, <1>2, <1>3
  <2>2. l[c] = Colon
    BY <1>1, <1>2, <1>3
  <2>3. ASSUME NEW i \in 1..Len(v) PROVE l[c + i] = v[i]
    <3>1. c + i \in 1..(c + Len(v)) /\ ~ c + i <= c /\ (c + i) - c = i
      BY <1>1
    <3> QED
      BY <1>3, <3>1
  <2> QED
    BY <2>1, <2>2, <2>3
<1>5. \A i \in 1..Len(l) : l[i] # NewLine
  <2> TAKE i \in 1..Len(l)
  <2>1. CASE i \in 1..Len(k)
    BY <1>1, <1>4, <2>1 DEF IsName
  <2>2. CASE i = c
    BY <1>1, <1>4, <2>2
  <2>3. CASE i - c \in 1..Len(v)
    <3>1. c + (i - c) = i
      BY <1>1
    <3>2. l[i] = v[i - c]
      BY <1>4, <2>3, <3>1
    <3> QED
      BY <1>1, <2>3, <3>2 DEF IsText
  <2> QED
    BY <1>1, <1>3, <2>1, <2>2, <2>3
<1>6. FirstColon(l) = c
  <2>1. c \in 1..Len(l) /\ \A j \in 1..(c - 1) : j \in 1..Len(k)
    BY <1>1, <1>3
  <2>2. \A j \in 1..(c - 1) : l[j] # Colon
    BY <1>1, <1>4, <2>1 DEF IsName
  <2> QED
    BY <1>3, <1>4, <2>1, <2>2, ColonIsThere
<1>7. IsEntry(l)
  <2>1. c \in 2..(Len(l) - 1) /\ l # <<>> /\ 1 \in 1..Len(k)
    BY <1>1, <1>3, EmptySeq
  <2>2. l[1] # Comment
    BY <1>4, <2>1 DEF IsName
  <2> QED
    BY <1>6, <2>1, <2>2 DEF IsEntry
<1>8. /\ Key(l) \in Seq(Token) /\ Len(Key(l)) = c - 1
      /\ \A i \in 1..(c - 1) : Key(l)[i] = l[i]
      /\ Value(l) \in Seq(Token) /\ Len(Value(l)) = Len(l) - c
      /\ \A i \in 1..(Len(l) - c) : Value(l)[i] = l[c + i]
  <2> DEFINE d == FirstColon(l)
  <2>1. l \in Seq(Token) /\ IsEntry(l)
    BY <1>3, <1>7
  <2>2. /\ d \in 2..(Len(l) - 1) /\ l[d] = Colon
        /\ Key(l) \in Seq(Token) /\ Len(Key(l)) = d - 1
        /\ \A i \in 1..(d - 1) : Key(l)[i] = l[i] /\ l[i] # Colon
        /\ Value(l) \in Seq(Token) /\ Len(Value(l)) = Len(l) - d
        /\ \A i \in 1..(Len(l) - d) : Value(l)[i] = l[d + i]
    BY <2>1, EntryHolds
  <2>3. d = c
    BY <1>6
  <2> HIDE DEF d, c
  <2> QED
    BY <2>2, <2>3
<1>9. c - 1 = Len(k) /\ Len(l) - c = Len(v)
  BY <1>1, <1>3
<1>10. Key(l) = k
  BY <1>4, <1>8, <1>9, SeqEqual
<1>11. Value(l) = v
  BY <1>4, <1>8, <1>9, SeqEqual
<1>12. l \in Seq(Token)
  BY <1>3
<1> QED
  BY <1>5, <1>7, <1>10, <1>11, <1>12 DEF l
-----------------------------------------------------------------------------
\* A line more at the end of a file
LEMMA LineIsAdded ==
  ASSUME NEW c \in Seq(Token), c # <<>>, c[Len(c)] = NewLine,
         NEW l \in Seq(Token), \A i \in 1..Len(l) : l[i] # NewLine
  PROVE  LET f == c \o (l \o <<NewLine>>)
         IN  /\ f \in Seq(Token) /\ f # <<>> /\ f[Len(f)] = NewLine
             /\ Begins(f) = Begins(c) \cup {Len(c) + 1}
             /\ \A i \in Begins(c) : LineAt(f, i) = LineAt(c, i)
             /\ LineAt(f, Len(c) + 1) = l
<1> DEFINE f == c \o (l \o <<NewLine>>)
           m == Len(c)
           n == Len(l)
<1>1. m \in Nat \ {0} /\ n \in Nat /\ NewLine \in Token
  BY EmptySeq DEF Token
<1>2. /\ l \o <<NewLine>> \in Seq(Token) /\ Len(l \o <<NewLine>>) = n + 1
      /\ \A i \in 1..(n + 1) :
           (l \o <<NewLine>>)[i] = IF i <= n THEN l[i] ELSE NewLine
  BY <1>1
<1>3. /\ f \in Seq(Token) /\ Len(f) = m + (n + 1)
      /\ \A i \in 1..(m + (n + 1)) :
           f[i] = IF i <= m THEN c[i] ELSE (l \o <<NewLine>>)[i - m]
  BY <1>2, ConcatProperties
<1> HIDE DEF f
<1>4. /\ \A i \in 1..m : f[i] = c[i]
      /\ \A i \in 1..n : f[m + i] = l[i]
      /\ f[m + n + 1] = NewLine
  <2>1. ASSUME NEW i \in 1..m PROVE f[i] = c[i]
    BY <1>1, <1>3
  <2>2. ASSUME NEW i \in 1..(n + 1) PROVE f[m + i] = (l \o <<NewLine>>)[i]
    <3>1. m + i \in 1..(m + (n + 1)) /\ ~ m + i <= m /\ (m + i) - m = i
      BY <1>1
    <3> QED
      BY <1>3, <3>1
  <2>3. ASSUME NEW i \in 1..n PROVE f[m + i] = l[i]
    <3>1. i \in 1..(n + 1) /\ i <= n
      BY <1>1
    <3> HIDE DEF m, n
    <3> QED
      BY <1>2, <2>2, <3>1
  <2>4. f[m + (n + 1)] = NewLine /\ m + (n + 1) = m + n + 1
    <3>1. n + 1 \in 1..(n + 1) /\ ~ n + 1 <= n /\ m + (n + 1) = m + n + 1
      BY <1>1
    <3> HIDE DEF m, n
    <3> QED
      BY <1>2, <2>2, <3>1
  <2> QED
    BY <2>1, <2>3, <2>4
<1>5. f # <<>> /\ f[Len(f)] = NewLine
  BY <1>1, <1>3, <1>4, EmptySeq
<1> HIDE DEF m, n
<1>6. /\ c[m] = NewLine /\ Len(c) = m /\ Len(l) = n
      /\ DOMAIN c = 1..m /\ DOMAIN f = 1..(m + n + 1) /\ Len(f) = m + n + 1
  BY <1>1, <1>3 DEF m, n
<1>7. \A i \in 1..n : f[m + i] # NewLine
  BY <1>4, <1>6
<1>8. Begins(f) = Begins(c) \cup {m + 1}
  <2>1. ASSUME NEW i \in 1..m PROVE i \in Begins(f) <=> i \in Begins(c)
    <3>1. i = 1 \/ i - 1 \in 1..m
      BY <1>1
    <3> QED
      BY <1>1, <1>4, <1>6, <3>1 DEF Begins
  <2>2. m + 1 \in Begins(f)
    <3>1. (m + 1) - 1 = m /\ m + 1 \in 1..(m + n + 1) /\ m \in 1..m
      BY <1>1
    <3> QED
      BY <1>4, <1>6, <3>1 DEF Begins
  <2>3. ASSUME NEW i \in (m + 2)..(m + n + 1) PROVE i \notin Begins(f)
    <3>1. i # 1 /\ (i - 1) - m \in 1..n /\ m + ((i - 1) - m) = i - 1
      BY <1>1
    <3>2. f[i - 1] # NewLine
      BY <1>7, <3>1
    <3> QED
      BY <3>1, <3>2 DEF Begins
  <2>4. Begins(f) \subseteq 1..(m + n + 1) /\ Begins(c) \subseteq 1..m
    BY <1>6 DEF Begins
  <2>5. \A i \in 1..(m + n + 1) : i \in 1..m \/ i = m + 1 \/ i \in (m + 2)..(m + n + 1)
    BY <1>1
  <2> QED
    BY <2>1, <2>2, <2>3, <2>4, <2>5
<1>9. ASSUME NEW i \in Begins(c) PROVE LineAt(f, i) = LineAt(c, i)
  <2> DEFINE e == EndOf(c, i)
  <2>1. i \in 1..m
    BY <1>6 DEF Begins
  <2>2. /\ e \in i..(m + 1) /\ (e # m + 1 => c[e] = NewLine)
        /\ \A j \in i..(e - 1) : c[j] # NewLine
    BY <1>6, <2>1, LineEnds
  <2> HIDE DEF e
  <2>3. e # m + 1
    <3>1. m \in i..((m + 1) - 1)
      BY <1>1, <2>1
    <3> QED
      BY <1>6, <2>2, <3>1
  <2>4. /\ e \in 1..m /\ e \in i..(Len(f) + 1) /\ i \in 1..Len(f)
        /\ \A j \in i..(e - 1) : j \in 1..m
    BY <1>1, <1>6, <2>1, <2>2, <2>3
  <2>5. f[e] = NewLine /\ \A j \in i..(e - 1) : f[j] # NewLine
    BY <1>4, <2>2, <2>3, <2>4
  <2>6. EndOf(f, i) = e
    BY <1>3, <2>4, <2>5, LineEndsThere
  <2>7. /\ LineAt(f, i) \in Seq(Token) /\ Len(LineAt(f, i)) = EndOf(f, i) - i
        /\ \A k \in 1..(EndOf(f, i) - i) :
             LineAt(f, i)[k] = f[i + k - 1] /\ LineAt(f, i)[k] # NewLine
    BY <1>3, <2>4, LineHolds
  <2>8. /\ LineAt(c, i) \in Seq(Token) /\ Len(LineAt(c, i)) = EndOf(c, i) - i
        /\ \A k \in 1..(EndOf(c, i) - i) :
             LineAt(c, i)[k] = c[i + k - 1] /\ LineAt(c, i)[k] # NewLine
    BY <1>6, <2>1, LineHolds
  <2>9. \A k \in 1..(e - i) : i + k - 1 \in 1..m
    BY <1>1, <2>1, <2>4
  <2>10. \A k \in 1..(e - i) : LineAt(f, i)[k] = LineAt(c, i)[k]
    BY <1>4, <2>6, <2>7, <2>8, <2>9 DEF e
  <2> QED
    BY <2>6, <2>7, <2>8, <2>10, SeqEqual DEF e
<1>10. LineAt(f, m + 1) = l
  <2> DEFINE b == m + 1
  <2>1. /\ b \in 1..Len(f) /\ m + n + 1 \in b..(Len(f) + 1)
        /\ (m + n + 1) - b = n /\ \A k \in 1..n : b + k - 1 = m + k
    BY <1>1, <1>6
  <2>2. \A j \in b..((m + n + 1) - 1) : f[j] # NewLine
    <3> TAKE j \in b..((m + n + 1) - 1)
    <3>1. j - m \in 1..n /\ m + (j - m) = j
      BY <1>1
    <3> QED
      BY <1>7, <3>1
  <2> HIDE DEF b
  <2>3. EndOf(f, b) = m + n + 1
    <3> DEFINE e == m + n + 1
    <3>1. /\ f \in Seq(Token) /\ b \in 1..Len(f) /\ e \in b..(Len(f) + 1)
          /\ f[e] = NewLine /\ \A j \in b..(e - 1) : f[j] # NewLine
      BY <1>3, <1>4, <2>1, <2>2
    <3> HIDE DEF e
    <3>2. EndOf(f, b) = e
      BY <3>1, LineEndsThere
    <3> QED
      BY <3>2 DEF e
  <2>4. /\ LineAt(f, b) \in Seq(Token)
        /\ Len(LineAt(f, b)) = EndOf(f, b) - b
        /\ \A k \in 1..(EndOf(f, b) - b) :
             LineAt(f, b)[k] = f[b + k - 1] /\ LineAt(f, b)[k] # NewLine
    <3>1. f \in Seq(Token) /\ b \in 1..Len(f)
      BY <1>3, <2>1
    <3> QED
      BY <3>1, LineHolds
  <2>5. Len(LineAt(f, b)) = n /\ \A k \in 1..n : LineAt(f, b)[k] = f[b + k - 1]
    BY <2>1, <2>3, <2>4
  <2>6. ASSUME NEW k \in 1..n PROVE LineAt(f, b)[k] = l[k]
    BY <1>4, <2>1, <2>5
  <2>7. LineAt(f, b) = l
    BY <1>6, <2>4, <2>5, <2>6, SeqEqual
  <2> QED
    BY <2>7 DEF b
<1> QED
  BY <1>3, <1>5, <1>8, <1>9, <1>10 DEF f, m

\* Where the line is that parse() takes the value of a name from.
LEMMA LastLineOf ==
  ASSUME NEW f \in Seq(Token), NEW k, LinesOf(f, k) # {}
  PROVE  /\ Max(LinesOf(f, k)) \in LinesOf(f, k)
         /\ \A i \in LinesOf(f, k) : i <= Max(LinesOf(f, k))
<1>1. LinesOf(f, k) \subseteq 1..Len(f) /\ Len(f) \in Nat
  BY DEF LinesOf, EntriesIn, Begins
<1>2. LinesOf(f, k) \in SUBSET Nat /\ \A i \in LinesOf(f, k) : i <= Len(f)
  BY <1>1
<1> QED
  BY <1>1, <1>2, MaxIsMember

\* The names of a file are those of its entries.
LEMMA NamesOfFile ==
  ASSUME NEW f, NEW k
  PROVE  k \in DOMAIN Parse(f) <=> LinesOf(f, k) # {}
BY DEF Parse, LinesOf

\* One entry more at the end of a file is one entry more in the map.
LEMMA EntryIsAdded ==
  ASSUME NEW c \in Seq(Token), c # <<>>, c[Len(c)] = NewLine,
         NEW l \in Seq(Token), \A i \in 1..Len(l) : l[i] # NewLine, IsEntry(l)
  PROVE  Parse(c \o (l \o <<NewLine>>)) =
           [k \in DOMAIN Parse(c) \cup {Key(l)} |->
              IF k = Key(l) THEN Value(l) ELSE Parse(c)[k]]
<1> DEFINE f == c \o (l \o <<NewLine>>)
           m == Len(c)
<1>1. /\ f \in Seq(Token)
      /\ Begins(f) = Begins(c) \cup {m + 1}
      /\ \A i \in Begins(c) : LineAt(f, i) = LineAt(c, i)
      /\ LineAt(f, m + 1) = l
  BY LineIsAdded
<1> HIDE DEF f, m
<1>2. EntriesIn(f) = EntriesIn(c) \cup {m + 1} /\ EntriesIn(c) \subseteq Begins(c)
  BY <1>1 DEF EntriesIn
<1>3. /\ \A k : k # Key(l) => LinesOf(f, k) = LinesOf(c, k)
      /\ LinesOf(f, Key(l)) = LinesOf(c, Key(l)) \cup {m + 1}
  BY <1>1, <1>2 DEF LinesOf
<1>4. \A i \in Begins(c) : i <= m /\ m \in Nat /\ i \in Nat
  BY DEF Begins, m
<1>5. \A k : LinesOf(c, k) \subseteq Begins(c)
  BY DEF LinesOf, EntriesIn
<1>6. Parse(f) = [k \in {Key(LineAt(f, i)) : i \in EntriesIn(f)} |->
                    Value(LineAt(f, Max(LinesOf(f, k))))]
  BY DEF Parse
<1>7. {Key(LineAt(f, i)) : i \in EntriesIn(f)} = DOMAIN Parse(c) \cup {Key(l)}
  <2>1. DOMAIN Parse(c) = {Key(LineAt(c, i)) : i \in EntriesIn(c)}
    BY DEF Parse
  <2> QED
    BY <1>1, <1>2, <2>1
<1>8. Value(LineAt(f, Max(LinesOf(f, Key(l))))) = Value(l)
  <2>1. m + 1 \in LinesOf(f, Key(l))
    BY <1>3
  <2>2. /\ Max(LinesOf(f, Key(l))) \in LinesOf(f, Key(l))
        /\ m + 1 <= Max(LinesOf(f, Key(l)))
    BY <1>1, <2>1, LastLineOf
  <2>3. Max(LinesOf(f, Key(l))) = m + 1
    BY <1>3, <1>4, <1>5, <2>2
  <2> QED
    BY <1>1, <2>3
<1>9. ASSUME NEW k \in DOMAIN Parse(c), k # Key(l)
      PROVE  Value(LineAt(f, Max(LinesOf(f, k)))) = Parse(c)[k]
  <2>1. LinesOf(c, k) # {} /\ LinesOf(f, k) = LinesOf(c, k)
    BY <1>3, <1>9, NamesOfFile
  <2>2. Max(LinesOf(c, k)) \in LinesOf(c, k)
    BY <2>1, LastLineOf
  <2>3. LineAt(f, Max(LinesOf(f, k))) = LineAt(c, Max(LinesOf(c, k)))
    BY <1>1, <1>5, <2>1, <2>2
  <2>4. Parse(c)[k] = Value(LineAt(c, Max(LinesOf(c, k))))
    BY <1>9 DEF Parse
  <2> QED
    BY <2>3, <2>4
<1>10. Parse(f) = [k \in DOMAIN Parse(c) \cup {Key(l)} |->
                     IF k = Key(l) THEN Value(l) ELSE Parse(c)[k]]
  BY <1>6, <1>7, <1>8, <1>9
<1> QED
  BY <1>10 DEF f
-----------------------------------------------------------------------------
\* What a run remembers, whatever the file was it has read, and what can come
\* out of a file.
IsMap(e) ==
  /\ e = [k \in DOMAIN e |-> e[k]] /\ IsFiniteSet(DOMAIN e)
  /\ \A k \in DOMAIN e : k \in Seq(Token) /\ e[k] \in Seq(Token)
IsReadable(e) == IsMap(e) /\ \A k \in DOMAIN e : IsName(k) /\ IsText(e[k])

\* The names to save are put in a sequence.
LEMMA NamesInOrder ==
  ASSUME NEW D, IsFiniteSet(D)
  PROVE  SetToSeq(D) \in Seq(D) /\ ToSet(SetToSeq(D)) = D
<1> DEFINE n == Cardinality(D)
           s == SetToSeq(D)
<1>1. n \in Nat /\ ExistsBijection(1..n, D)
  BY FS_CardinalityType
<1>2. \E f \in [1..n -> D] : IsInjective(f)
  BY <1>1 DEF ExistsBijection, Bijection, Injection
<1>3. s \in [1..n -> D] /\ IsInjective(s)
  BY <1>2 DEF SetToSeq
<1> HIDE DEF s
<1>4. s \in Injection(1..n, D)
  BY <1>3 DEF Injection
<1>5. IsFiniteSet(1..n) /\ Cardinality(1..n) = n
  <2>1. IsFiniteSet(1..n) /\ Cardinality(1..n) = IF 1 > n THEN 0 ELSE n - 1 + 1
    BY <1>1, FS_Interval
  <2> QED
    BY <1>1, <2>1
<1>6. s \in Surjection(1..n, D)
  BY <1>4, <1>5, FS_Injection
<1>7. s \in Seq(D)
  BY <1>1, <1>3, SeqDef
<1>8. ToSet(s) = D
  BY <1>3, <1>6 DEF ToSet, Surjection
<1> QED
  BY <1>7, <1>8 DEF s

\* A line of the file
LEMMA EntryIsText ==
  ASSUME NEW k \in Seq(Token), NEW v \in Seq(Token)
  PROVE  Entry(k, v) \in Seq(Token)
<1>1. Colon \in Token /\ NewLine \in Token
  BY DEF Token
<1> QED
  BY <1>1 DEF Entry

\* What is written for names in a given order
Written(e, ns) ==
  <<Comment, NewLine>> \o FlattenSeq([k \in DOMAIN ns |-> Entry(ns[k], e[ns[k]])])

\* It begins with the comment,
LEMMA NothingWritten ==
  ASSUME NEW e
  PROVE  Written(e, <<>>) = <<Comment, NewLine>>
<1>1. [k \in DOMAIN <<>> |-> Entry(<<>>[k], e[<<>>[k]])] = <<>>
  OBVIOUS
<1>2. FlattenSeq(<<>>) = <<>>
  BY DEF FlattenSeq
<1>3. <<Comment, NewLine>> \o <<>> = <<Comment, NewLine>>
  OBVIOUS
<1> QED
  BY <1>1, <1>2, <1>3 DEF Written

\* and each name adds its line.
LEMMA LineIsWritten ==
  ASSUME NEW e, IsMap(e), NEW ns \in Seq(DOMAIN e), NEW x \in DOMAIN e
  PROVE  /\ Written(e, ns) \in Seq(Token)
         /\ Written(e, Append(ns, x)) = Written(e, ns) \o Entry(x, e[x])
<1>0. \A a, b, c \in Seq(Token) : (a \o b) \o c = a \o (b \o c) /\ a \o b \in Seq(Token)
  BY ConcatRegroups
<1> DEFINE W(s) == [k \in DOMAIN s |-> Entry(s[k], e[s[k]])]
           mm == Append(ns, x)
           h == <<Comment, NewLine>>
<1>1. \A k \in DOMAIN e : Entry(k, e[k]) \in Seq(Token)
  BY EntryIsText DEF IsMap
<1>2. /\ mm \in Seq(DOMAIN e) /\ Len(mm) = Len(ns) + 1 /\ mm[Len(ns) + 1] = x
      /\ Len(ns) \in Nat /\ \A i \in 1..Len(ns) : mm[i] = ns[i]
  BY AppendProperties
<1>3. ASSUME NEW s \in Seq(DOMAIN e)
      PROVE  /\ W(s) \in Seq(Seq(Token)) /\ Len(W(s)) = Len(s)
             /\ \A i \in 1..Len(s) : W(s)[i] = Entry(s[i], e[s[i]])
  <2>1. DOMAIN s = 1..Len(s) /\ Len(s) \in Nat /\ \A i \in 1..Len(s) : s[i] \in DOMAIN e
    OBVIOUS
  <2>2. W(s) \in [1..Len(s) -> Seq(Token)]
    BY <1>1, <2>1
  <2>3. W(s) \in Seq(Seq(Token))
    BY <2>1, <2>2, SeqDef
  <2>4. DOMAIN W(s) = 1..Len(s)
    BY <2>2
  <2>5. Len(W(s)) = Len(s)
    <3> HIDE DEF W
    <3> QED
      BY <2>1, <2>3, <2>4, LenProperties
  <2> QED
    BY <2>1, <2>3, <2>5
<1>4. /\ W(ns) \in Seq(Seq(Token)) /\ W(mm) \in Seq(Seq(Token))
      /\ Len(W(ns)) = Len(ns) /\ Len(W(mm)) = Len(ns) + 1
      /\ \A i \in 1..Len(ns) : W(ns)[i] = Entry(ns[i], e[ns[i]])
      /\ \A i \in 1..(Len(ns) + 1) : W(mm)[i] = Entry(mm[i], e[mm[i]])
  <2> HIDE DEF W, mm
  <2> QED
    BY <1>2, <1>3
<1>5. W(mm) = Append(W(ns), Entry(x, e[x]))
  <2> HIDE DEF W, mm
  <2>1. /\ Append(W(ns), Entry(x, e[x])) \in Seq(Seq(Token))
        /\ Len(Append(W(ns), Entry(x, e[x]))) = Len(ns) + 1
        /\ \A i \in 1..Len(ns) : Append(W(ns), Entry(x, e[x]))[i] = W(ns)[i]
        /\ Append(W(ns), Entry(x, e[x]))[Len(ns) + 1] = Entry(x, e[x])
    BY <1>1, <1>4, AppendProperties
  <2>2. ASSUME NEW i \in 1..(Len(ns) + 1)
        PROVE  W(mm)[i] = Append(W(ns), Entry(x, e[x]))[i]
    <3>1. i \in 1..Len(ns) \/ i = Len(ns) + 1
      BY <1>2
    <3> QED
      BY <1>2, <1>4, <2>1, <3>1
  <2> QED
    BY <1>4, <2>1, <2>2, SeqEqual
<1>6. FlattenSeq(W(ns)) \in Seq(Token) /\ h \in Seq(Token)
  <2>1. Comment \in Token /\ NewLine \in Token
    BY DEF Token
  <2> HIDE DEF W
  <2> QED
    BY <1>4, <2>1, FlattenSeqIsSeq
<1>7. FlattenSeq(W(mm)) = FlattenSeq(W(ns)) \o Entry(x, e[x])
  <2> HIDE DEF W, mm
  <2> QED
    BY <1>1, <1>4, <1>5, <1>6, FlattenSeqStep
<1>8. Written(e, ns) = h \o FlattenSeq(W(ns)) /\ Written(e, mm) = h \o FlattenSeq(W(mm))
  BY DEF Written
<1>9. /\ Written(e, ns) \in Seq(Token)
      /\ Written(e, mm) = Written(e, ns) \o Entry(x, e[x])
  <2> DEFINE a == FlattenSeq(W(ns))
             b == Entry(x, e[x])
  <2>1. a \in Seq(Token) /\ b \in Seq(Token) /\ h \in Seq(Token)
    BY <1>1, <1>6
  <2>2. Written(e, ns) = h \o a /\ Written(e, mm) = h \o (a \o b)
    BY <1>7, <1>8
  <2> HIDE DEF a, b, W, mm, h
  <2>3. (h \o a) \o b = h \o (a \o b) /\ h \o a \in Seq(Token)
    BY <1>0, <2>1
  <2>4. Written(e, mm) = Written(e, ns) \o b
    BY <2>2, <2>3
  <2> QED
    BY <2>2, <2>3, <2>4 DEF b
<1> QED
  BY <1>9 DEF mm

\* What the comment alone is read as
LEMMA CommentIsNoEntry ==
  Parse(<<Comment, NewLine>>) = [k \in {} |-> k]
<1> DEFINE f == <<Comment, NewLine>>
<1>1. /\ f \in Seq(Token) /\ Len(f) = 2 /\ f[1] = Comment /\ f[2] = NewLine
      /\ DOMAIN f = 1..2 /\ Comment # NewLine
  BY DEF Token, Comment, NewLine
<1> HIDE DEF f
<1>2. Begins(f) \subseteq {1}
  <2>1. \A i \in 1..2 : i = 1 \/ i - 1 = 1
    OBVIOUS
  <2> QED
    BY <1>1, <2>1 DEF Begins
<1>3. ~ IsEntry(LineAt(f, 1))
  <2> DEFINE b == 1
  <2>1. b \in 1..Len(f) /\ b \in Nat /\ f[b] = Comment /\ b + 1 - 1 = b
    BY <1>1
  <2> HIDE DEF b
  <2>2. /\ EndOf(f, b) \in b..(Len(f) + 1)
        /\ EndOf(f, b) # Len(f) + 1 => f[EndOf(f, b)] = NewLine
    BY <1>1, <2>1, LineEnds
  <2>3. /\ LineAt(f, b) \in Seq(Token) /\ Len(LineAt(f, b)) = EndOf(f, b) - b
        /\ \A k \in 1..(EndOf(f, b) - b) :
             LineAt(f, b)[k] = f[b + k - 1] /\ LineAt(f, b)[k] # NewLine
    <3>1. f \in Seq(Token) /\ b \in 1..Len(f)
      BY <1>1, <2>1
    <3> QED
      BY <3>1, LineHolds
  <2>4. EndOf(f, b) # b
    BY <1>1, <2>1, <2>2
  <2>5. 1 \in 1..(EndOf(f, b) - b)
    BY <1>1, <2>1, <2>2, <2>4
  <2>6. LineAt(f, b)[1] = Comment
    BY <2>1, <2>3, <2>5
  <2> QED
    BY <2>6 DEF IsEntry, b
<1>4. EntriesIn(f) = {}
  BY <1>2, <1>3 DEF EntriesIn
<1>5. Parse(f) = [k \in {} |-> k]
  BY <1>4 DEF Parse
<1> QED
  BY <1>5 DEF f

\* Reading back what was saved is what was saved, whatever the order was.
LEMMA SavedReadsBack ==
  ASSUME NEW e, IsReadable(e)
  PROVE  Content(e) \in Seq(Token) /\ Parse(Content(e)) = e
<1>0. \A a, b, c \in Seq(Token) : (a \o b) \o c = a \o (b \o c) /\ a \o b \in Seq(Token)
  BY ConcatRegroups
<1> DEFINE D == DOMAIN e
           Back(ns) == LET c == Written(e, ns)
                       IN  /\ c \in Seq(Token) /\ c # <<>> /\ c[Len(c)] = NewLine
                           /\ Parse(c) = [k \in ToSet(ns) |-> e[k]]
           T == {ns \in Seq(D) : Back(ns)}
<1>1. /\ IsMap(e) /\ e = [k \in D |-> e[k]] /\ IsFiniteSet(D)
      /\ \A k \in D : k \in Seq(Token) /\ e[k] \in Seq(Token) /\ IsName(k) /\ IsText(e[k])
  BY DEF IsReadable, IsMap
<1>2. <<>> \in T
  <2>1. /\ <<Comment, NewLine>> \in Seq(Token) /\ <<Comment, NewLine>> # <<>>
        /\ Len(<<Comment, NewLine>>) = 2 /\ <<Comment, NewLine>>[2] = NewLine
    BY DEF Token
  <2>2. ToSet(<<>>) = {} /\ <<>> \in Seq(D)
    BY DEF ToSet
  <2>3. [k \in {} |-> k] = [k \in {} |-> e[k]]
    OBVIOUS
  <2>4. Written(e, <<>>) = <<Comment, NewLine>>
    BY NothingWritten
  <2>5. Parse(<<Comment, NewLine>>) = [k \in ToSet(<<>>) |-> e[k]]
    BY <2>2, <2>3, CommentIsNoEntry
  <2>6. Back(<<>>)
    BY <2>1, <2>4, <2>5
  <2> HIDE DEF Back
  <2> QED
    BY <2>2, <2>6
<1>3. ASSUME NEW ns \in Seq(D), NEW x \in D, ns \in T PROVE Append(ns, x) \in T
  <2> DEFINE c == Written(e, ns)
             l == x \o <<Colon>> \o e[x]
             f == Written(e, Append(ns, x))
  <2>1. /\ c \in Seq(Token) /\ c # <<>> /\ c[Len(c)] = NewLine
        /\ Parse(c) = [k \in ToSet(ns) |-> e[k]]
    BY <1>3
  <2>2. /\ l \in Seq(Token) /\ IsEntry(l) /\ Key(l) = x /\ Value(l) = e[x]
        /\ \A i \in 1..Len(l) : l[i] # NewLine
    BY <1>1, EntryReadsBack
  <2>3. f = c \o (l \o <<NewLine>>)
    BY <1>1, LineIsWritten DEF Entry
  <2> HIDE DEF c, l
  <2>4. f \in Seq(Token) /\ f # <<>> /\ f[Len(f)] = NewLine
    <3> DEFINE g == c \o (l \o <<NewLine>>)
    <3> HIDE DEF f
    <3>1. /\ g \in Seq(Token) /\ g # <<>> /\ g[Len(g)] = NewLine
          /\ Begins(g) = Begins(c) \cup {Len(c) + 1}
          /\ \A i \in Begins(c) : LineAt(g, i) = LineAt(c, i)
          /\ LineAt(g, Len(c) + 1) = l
      BY <2>1, <2>2, LineIsAdded
    <3>2. f = g
      BY <2>3
    <3> HIDE DEF g
    <3> QED
      BY <3>1, <3>2
  <2>5. Parse(f) = [k \in DOMAIN Parse(c) \cup {Key(l)} |->
                      IF k = Key(l) THEN Value(l) ELSE Parse(c)[k]]
    <3> HIDE DEF f
    <3> QED
      BY <2>1, <2>2, <2>3, EntryIsAdded
  <2>6. ToSet(Append(ns, x)) = ToSet(ns) \cup {x}
    <3> HIDE DEF D, T, Back, f
    <3> DEFINE y == <<x>>
    <3>1. y \in Seq(D) /\ ToSet(y) = {x}
      BY DEF ToSet
    <3>2. Append(ns, x) = ns \o y
      BY AppendIsConcat
    <3> HIDE DEF y
    <3>3. ns \o y \in Seq(D) /\ ToSet(ns \o y) = ToSet(ns) \cup ToSet(y)
      BY <3>1, ConcatMembers
    <3> QED
      BY <3>1, <3>2, <3>3
  <2> HIDE DEF f
  <2>7. Parse(f) = [k \in ToSet(ns) \cup {x} |-> e[k]]
    BY <2>1, <2>2, <2>5
  <2>8. Append(ns, x) \in Seq(D)
    OBVIOUS
  <2> QED
    BY <2>4, <2>6, <2>7, <2>8 DEF f
<1> HIDE DEF T
<1>4. Seq(D) \subseteq T
  BY <1>2, <1>3, InductionOnSeq
<1>5. SetToSeq(D) \in Seq(D) /\ ToSet(SetToSeq(D)) = D
  BY <1>1, NamesInOrder
<1>6. Back(SetToSeq(D))
  BY <1>4, <1>5 DEF T
<1>7. Content(e) = Written(e, SetToSeq(D))
  BY DEF Content, Written
<1> QED
  BY <1>1, <1>5, <1>6, <1>7
-----------------------------------------------------------------------------
\* A line that was cut is an entry only if it was one, and of the same name.
LEMMA CutLineKeepsName ==
  ASSUME NEW l \in Seq(Token), NEW n \in 0..Len(l), IsEntry(SubSeq(l, 1, n))
  PROVE  IsEntry(l) /\ Key(l) = Key(SubSeq(l, 1, n))
<1> DEFINE s == SubSeq(l, 1, n)
           c == FirstColon(s)
<1>1. s \in Seq(Token) /\ Len(s) = n /\ \A i \in 1..n : s[i] = l[i]
  BY PrefixProperties
<1> HIDE DEF s
<1>2. IsEntry(s)
  BY DEF s
<1>3. /\ c \in 2..(Len(s) - 1) /\ s[c] = Colon
      /\ Key(s) \in Seq(Token) /\ Len(Key(s)) = c - 1
      /\ \A i \in 1..(c - 1) : Key(s)[i] = s[i] /\ s[i] # Colon
      /\ Value(s) \in Seq(Token) /\ Len(Value(s)) = Len(s) - c
      /\ \A i \in 1..(Len(s) - c) : Value(s)[i] = s[c + i]
  BY <1>1, <1>2, EntryHolds
<1> HIDE DEF c
<1>4. Len(l) \in Nat /\ n \in Nat /\ n <= Len(l)
  OBVIOUS
<1>5. c \in 1..Len(l) /\ c \in 2..(Len(l) - 1) /\ c \in 1..n /\ 1 \in 1..n
  BY <1>1, <1>3, <1>4
<1>6. \A i \in 1..(c - 1) : i \in 1..n
  BY <1>4, <1>5
<1>7. l[c] = Colon /\ \A i \in 1..(c - 1) : l[i] = s[i] /\ l[i] # Colon
  BY <1>1, <1>3, <1>5, <1>6
<1>8. FirstColon(l) = c
  BY <1>5, <1>7, ColonIsThere
<1>9. IsEntry(l)
  <2>1. l # <<>> /\ l[1] # Comment
    BY <1>1, <1>2, <1>4, <1>5, EmptySeq DEF IsEntry
  <2> QED
    BY <1>5, <1>8, <2>1 DEF IsEntry
<1>10. /\ Key(l) \in Seq(Token) /\ Len(Key(l)) = c - 1
       /\ \A i \in 1..(c - 1) : Key(l)[i] = l[i]
  <2> DEFINE d == FirstColon(l)
  <2>1. /\ d \in 2..(Len(l) - 1) /\ l[d] = Colon
        /\ Key(l) \in Seq(Token) /\ Len(Key(l)) = d - 1
        /\ \A i \in 1..(d - 1) : Key(l)[i] = l[i] /\ l[i] # Colon
        /\ Value(l) \in Seq(Token) /\ Len(Value(l)) = Len(l) - d
        /\ \A i \in 1..(Len(l) - d) : Value(l)[i] = l[d + i]
    BY <1>9, EntryHolds
  <2>2. d = c
    BY <1>8
  <2> HIDE DEF d
  <2> QED
    BY <2>1, <2>2
<1>11. Key(l) = Key(s)
  <2>1. \A i \in 1..(c - 1) : Key(l)[i] = Key(s)[i]
    BY <1>3, <1>7, <1>10
  <2> QED
    BY <1>3, <1>10, <2>1, SeqEqual
<1> QED
  BY <1>9, <1>11 DEF s

\* Wherever a file is cut, no name is read from it that was not in it.
LEMMA CutFileNamesNoOther ==
  ASSUME NEW f \in Seq(Token), NEW n \in 0..Len(f)
  PROVE  DOMAIN Parse(SubSeq(f, 1, n)) \subseteq DOMAIN Parse(f)
<1> DEFINE g == SubSeq(f, 1, n)
<1>1. g \in Seq(Token) /\ Len(g) = n /\ \A i \in 1..n : g[i] = f[i]
  BY PrefixProperties
<1> HIDE DEF g
<1>2. Len(f) \in Nat /\ n \in Nat /\ n <= Len(f)
  OBVIOUS
<1>3. ASSUME NEW i \in EntriesIn(g)
      PROVE  i \in EntriesIn(f) /\ Key(LineAt(f, i)) = Key(LineAt(g, i))
  <2> DEFINE e == EndOf(g, i)
             d == EndOf(f, i)
  <2>1. i \in 1..n /\ i \in 1..Len(f) /\ (i = 1 \/ g[i - 1] = NewLine)
    BY <1>1, <1>2 DEF EntriesIn, Begins
  <2>2. i \in Begins(f)
    <3>1. i = 1 \/ i - 1 \in 1..n
      BY <1>2, <2>1
    <3> QED
      BY <1>1, <1>2, <2>1, <3>1 DEF Begins
  <2>3. /\ e \in i..(n + 1) /\ (e # n + 1 => g[e] = NewLine)
        /\ \A j \in i..(e - 1) : g[j] # NewLine
    <3>1. i \in 1..Len(g)
      BY <1>1, <2>1
    <3> QED
      BY <1>1, <3>1, LineEnds
  <2>4. /\ d \in i..(Len(f) + 1) /\ (d # Len(f) + 1 => f[d] = NewLine)
        /\ \A j \in i..(d - 1) : f[j] # NewLine
    BY <2>1, LineEnds
  <2>5. /\ LineAt(g, i) \in Seq(Token) /\ Len(LineAt(g, i)) = e - i
        /\ \A k \in 1..(e - i) :
             LineAt(g, i)[k] = g[i + k - 1] /\ LineAt(g, i)[k] # NewLine
    <3>1. i \in 1..Len(g)
      BY <1>1, <2>1
    <3> QED
      BY <1>1, <3>1, LineHolds
  <2>6. /\ LineAt(f, i) \in Seq(Token) /\ Len(LineAt(f, i)) = d - i
        /\ \A k \in 1..(d - i) :
             LineAt(f, i)[k] = f[i + k - 1] /\ LineAt(f, i)[k] # NewLine
    BY <2>1, LineHolds
  <2> HIDE DEF e, d
  <2>7. e <= d
    <3>1. SUFFICES ASSUME d < e PROVE FALSE
      BY <2>3, <2>4
    <3>2. d \in i..(e - 1) /\ d \in 1..n /\ d # Len(f) + 1
      BY <1>2, <2>1, <2>3, <2>4, <3>1
    <3> QED
      BY <1>1, <2>3, <2>4, <3>2
  <2>8. e - i \in 0..Len(LineAt(f, i))
    BY <1>2, <2>1, <2>3, <2>4, <2>6, <2>7
  <2>9. LineAt(g, i) = SubSeq(LineAt(f, i), 1, e - i)
    <3>1. /\ SubSeq(LineAt(f, i), 1, e - i) \in Seq(Token)
          /\ Len(SubSeq(LineAt(f, i), 1, e - i)) = e - i
          /\ \A k \in 1..(e - i) : SubSeq(LineAt(f, i), 1, e - i)[k] = LineAt(f, i)[k]
      BY <2>6, <2>8, PrefixProperties
    <3>2. \A k \in 1..(e - i) : k \in 1..(d - i) /\ i + k - 1 \in 1..n
      BY <1>2, <2>1, <2>3, <2>4, <2>7
    <3>3. \A k \in 1..(e - i) : LineAt(g, i)[k] = SubSeq(LineAt(f, i), 1, e - i)[k]
      <4> TAKE k \in 1..(e - i)
      <4>1. LineAt(g, i)[k] = f[i + k - 1]
        BY <1>1, <2>5, <3>2
      <4>2. SubSeq(LineAt(f, i), 1, e - i)[k] = f[i + k - 1]
        BY <2>6, <3>1, <3>2
      <4> QED
        BY <4>1, <4>2
    <3> QED
      BY <2>5, <3>1, <3>3, SeqEqual
  <2>10. IsEntry(SubSeq(LineAt(f, i), 1, e - i))
    BY <2>9 DEF EntriesIn
  <2>11. IsEntry(LineAt(f, i)) /\ Key(LineAt(f, i)) = Key(SubSeq(LineAt(f, i), 1, e - i))
    BY <2>6, <2>8, <2>10, CutLineKeepsName
  <2> QED
    BY <2>2, <2>9, <2>11 DEF EntriesIn
<1>4. /\ DOMAIN Parse(g) = {Key(LineAt(g, i)) : i \in EntriesIn(g)}
      /\ DOMAIN Parse(f) = {Key(LineAt(f, i)) : i \in EntriesIn(f)}
  BY DEF Parse
<1>5. DOMAIN Parse(g) \subseteq DOMAIN Parse(f)
  BY <1>3, <1>4
<1> QED
  BY <1>5 DEF g

\* What is read from a file, whatever is in it, can be written and read again.
LEMMA ReadIsReadable ==
  ASSUME NEW f \in Seq(Token)
  PROVE  IsReadable(Parse(f))
<1> DEFINE P == Parse(f)
           keys == {Key(LineAt(f, i)) : i \in EntriesIn(f)}
<1>1. EntriesIn(f) \subseteq 1..Len(f) /\ Len(f) \in Nat
  BY DEF EntriesIn, Begins
<1>2. P = [k \in DOMAIN P |-> P[k]] /\ DOMAIN P = keys
  BY DEF Parse
<1>3. IsFiniteSet(keys)
  <2> DEFINE key == [i \in EntriesIn(f) |-> Key(LineAt(f, i))]
  <2>1. key \in Surjection(EntriesIn(f), keys)
    BY DEF Surjection
  <2>2. IsFiniteSet(1..Len(f))
    BY <1>1, FS_Interval
  <2>3. IsFiniteSet(EntriesIn(f))
    BY <1>1, <2>2, FS_Subset
  <2> QED
    BY <2>1, <2>3, FS_Surjection
<1>4. ASSUME NEW i \in EntriesIn(f)
      PROVE  LET l == LineAt(f, i)
             IN  /\ Key(l) \in Seq(Token) /\ IsName(Key(l))
                 /\ Value(l) \in Seq(Token) /\ IsText(Value(l))
  <2>1. i \in 1..Len(f) /\ IsEntry(LineAt(f, i))
    BY <1>1 DEF EntriesIn
  <2>2. /\ LineAt(f, i) \in Seq(Token) /\ Len(LineAt(f, i)) = EndOf(f, i) - i
        /\ \A k \in 1..(EndOf(f, i) - i) :
             LineAt(f, i)[k] = f[i + k - 1] /\ LineAt(f, i)[k] # NewLine
    BY <2>1, LineHolds
  <2>3. \A k \in 1..Len(LineAt(f, i)) : LineAt(f, i)[k] # NewLine
    BY <2>2
  <2> QED
    BY <2>1, <2>2, <2>3, EntryIsNameAndText
<1>5. ASSUME NEW k \in DOMAIN P
      PROVE  /\ k \in Seq(Token) /\ IsName(k)
             /\ P[k] \in Seq(Token) /\ IsText(P[k])
  <2>1. LinesOf(f, k) # {}
    BY <1>5, NamesOfFile
  <2>2. Max(LinesOf(f, k)) \in LinesOf(f, k)
    BY <2>1, LastLineOf
  <2>3. Max(LinesOf(f, k)) \in EntriesIn(f) /\ Key(LineAt(f, Max(LinesOf(f, k)))) = k
    BY <2>2 DEF LinesOf
  <2>4. P[k] = Value(LineAt(f, Max(LinesOf(f, k))))
    BY <1>5 DEF Parse
  <2> HIDE DEF P
  <2> QED
    BY <1>4, <2>3, <2>4
<1> HIDE DEF P, keys
<1>6. IsReadable(P)
  BY <1>2, <1>3, <1>5 DEF IsReadable, IsMap
<1> QED
  BY <1>6 DEF P
-----------------------------------------------------------------------------
\* Types: the file and what is about to be in it are text, what the runs
\* remember can be written.
SeenTypeOK ==
  /\ yaml \in Seq(Token) /\ saving \in [Proc -> Seq(Token)]
  /\ entries = [p \in Proc |-> entries[p]]
  /\ \A p \in Proc : IsMap(entries[p])

\* As long as no two runs have saved at one time: whoever is saving is alone
\* with an empty file and is writing what it remembers, and that is of pages
\* that were viewed, as is what the file holds.
SavingAlone ==
  /\ \A p, q \in Proc : saving[p] # NotSaving /\ saving[q] # NotSaving => p = q
  /\ \A p \in Proc : saving[p] # NotSaving =>
                        p \in running /\ yaml = <<>> /\ saving[p] = Content(entries[p])
  /\ \A p \in Proc : DOMAIN entries[p] \subseteq viewed
  /\ DOMAIN Parse(yaml) \subseteq viewed

SeenInv ==
  /\ SeenTypeOK
  /\ \A p \in Proc : IsReadable(entries[p])
  /\ ~ mixed => SavingAlone

\* No page has a colon in its name, as those of Perl modules have.
NoColons == \A page \in Page : \A i \in DOMAIN page : page[i] # Colon

\* A file that was saved holds text, whatever is in the names.
LEMMA ContentIsText ==
  ASSUME NEW e, IsMap(e)
  PROVE  Content(e) \in Seq(Token)
<1>1. CASE DOMAIN e = {}
  <2>1. IsReadable(e)
    BY <1>1 DEF IsReadable
  <2> QED
    BY <2>1, SavedReadsBack
<1>2. CASE DOMAIN e # {}
  <2>1. PICK x : x \in DOMAIN e
    BY <1>2
  <2>2. SetToSeq(DOMAIN e) \in Seq(DOMAIN e)
    BY NamesInOrder DEF IsMap
  <2>3. Written(e, SetToSeq(DOMAIN e)) \in Seq(Token)
    BY <2>1, <2>2, LineIsWritten
  <2> QED
    BY <2>3 DEF Content, Written
<1> QED
  BY <1>1, <1>2

\* What a page that is shown makes of what a run remembers.
WithPage(e, page) ==
  [n \in DOMAIN e \cup {page} |-> IF n = page THEN <<Section>> ELSE e[n]]

LEMMA PageIsAdded ==
  ASSUME NEW e, IsMap(e), NEW page \in Page
  PROVE  /\ IsMap(WithPage(e, page))
         /\ DOMAIN WithPage(e, page) = DOMAIN e \cup {page}
         /\ IsReadable(e) /\ NoColons => IsReadable(WithPage(e, page))
<1> DEFINE w == WithPage(e, page)
<1>1. page \in Seq(Part \cup {Colon}) /\ page # <<>>
  BY PageAssumption
<1>2. /\ DOMAIN w = DOMAIN e \cup {page} /\ w = [n \in DOMAIN w |-> w[n]]
      /\ w[page] = <<Section>> /\ \A n \in DOMAIN e : n # page => w[n] = e[n]
  BY DEF WithPage
<1> HIDE DEF w
<1>3. page \in Seq(Token) /\ <<Section>> \in Seq(Token)
  <2>1. Part \cup {Colon} \subseteq Token /\ Section \in Token
    BY DEF Token
  <2> QED
    BY <1>1, <2>1, SeqMonotonic
<1>4. IsFiniteSet(DOMAIN w)
  BY <1>2, FS_AddElement DEF IsMap
<1>5. IsMap(w)
  BY <1>2, <1>3, <1>4 DEF IsMap
<1>6. ASSUME IsReadable(e), NoColons PROVE IsReadable(w)
  <2>1. IsText(<<Section>>)
    BY DEF IsText, Section, NewLine
  <2>2. IsName(page)
    <3>1. ASSUME NEW i \in DOMAIN page
          PROVE  page[i] # Colon /\ page[i] # NewLine /\ page[i] # Comment
      <4>1. page[i] \in Part
        BY <1>1, <1>6 DEF NoColons
      <4> QED
        BY <4>1, <1>6, PageAssumption DEF NoColons
    <3>2. 1 \in DOMAIN page
      BY <1>1, EmptySeq
    <3> QED
      BY <1>1, <3>1, <3>2 DEF IsName
  <2> QED
    BY <1>2, <1>5, <1>6, <2>1, <2>2 DEF IsReadable
<1> QED
  BY <1>2, <1>5, <1>6 DEF w

\* What is in the file once a run has written into it
LEMMA OverlayIsText ==
  ASSUME NEW c \in Seq(Token), NEW f \in Seq(Token)
  PROVE  /\ Overlay(c, f) \in Seq(Token)
         /\ f = <<>> => Overlay(c, f) = c
<1> DEFINE t == SubSeq(f, Len(c) + 1, Len(f))
<1>1. Len(c) + 1 \in Int /\ Len(f) \in Int /\ Len(c) \in Nat
  OBVIOUS
<1>2. \A i \in (Len(c) + 1)..Len(f) : f[i] \in Token
  BY <1>1
<1>3. t \in Seq(Token)
  BY <1>1, <1>2, SubSeqProperties
<1>4. f = <<>> => t = <<>>
  <2> SUFFICES ASSUME f = <<>> PROVE t = <<>>
    OBVIOUS
  <2>1. Len(f) < Len(c) + 1
    BY <1>1
  <2> QED
    BY <1>1, <2>1, SubSeqEmpty
<1>5. Overlay(c, f) = c \o t
  BY DEF Overlay
<1> HIDE DEF t
<1> QED
  BY <1>3, <1>4, <1>5, ConcatProperties, ConcatEmptySeq

\* Nothing is remembered,
LEMMA NothingRemembered == IsReadable(<<>>) /\ DOMAIN <<>> = {}
<1>1. DOMAIN <<>> = {} /\ <<>> = [k \in DOMAIN <<>> |-> <<>>[k]]
  OBVIOUS
<1> QED
  BY <1>1, FS_EmptySet DEF IsReadable, IsMap

\* and read from an empty file.
LEMMA NothingRead == DOMAIN Parse(<<>>) = {}
  BY DEF Parse, EntriesIn, Begins

LEMMA SeenInitIsTyped == SeenInit => SeenTypeOK
<1> SUFFICES ASSUME SeenInit PROVE SeenTypeOK
  OBVIOUS
<1>1. <<>> \in Seq(Token)
  OBVIOUS
<1> QED
  BY <1>1, NothingRemembered DEF SeenInit, SeenTypeOK, NotSaving, IsReadable

LEMMA SeenStepIsTyped ==
  ASSUME SeenTypeOK, [SeenNext]_seenVars
  PROVE  SeenTypeOK'
<1> USE DEF SeenTypeOK
<1>1. CASE UNCHANGED seenVars
  BY <1>1 DEF seenVars
<1>2. ASSUME NEW p \in Proc, Start(p) PROVE SeenTypeOK'
  <2>1. IsMap(Parse(yaml))
    BY ReadIsReadable DEF IsReadable
  <2> QED
    BY <1>2, <2>1 DEF Start
<1>3. ASSUME NEW p \in Proc, NEW page \in Page, Add(p, page)
      PROVE  /\ entries' = [entries EXCEPT ![p] = WithPage(entries[p], page)]
             /\ entries' = [q \in Proc |-> entries'[q]]
             /\ \A q \in Proc : IsMap(entries'[q])
  <2>1. IsMap(WithPage(entries[p], page))
    BY PageIsAdded
  <2>2. entries' = [entries EXCEPT ![p] = WithPage(entries[p], page)]
    BY <1>3 DEF Add, WithPage
  <2> QED
    BY <2>1, <2>2
<1>4. ASSUME NEW p \in Proc, NEW page \in Page, Show(p, page) PROVE SeenTypeOK'
  <2>1. /\ entries' = [q \in Proc |-> entries'[q]]
        /\ \A q \in Proc : IsMap(entries'[q])
    BY <1>3, <1>4 DEF Show
  <2>2. Content(entries'[p]) \in Seq(Token) /\ <<>> \in Seq(Token)
    BY <2>1, ContentIsText
  <2>3. yaml' = <<>> /\ saving' = [saving EXCEPT ![p] = Content(entries'[p])]
    BY <1>4 DEF Show
  <2> QED
    BY <2>1, <2>2, <2>3
<1>5. ASSUME NEW p \in Proc, NEW page \in Page, ShowUnsaved(p, page) PROVE SeenTypeOK'
  <2>1. /\ entries' = [q \in Proc |-> entries'[q]]
        /\ \A q \in Proc : IsMap(entries'[q])
    BY <1>3, <1>5 DEF ShowUnsaved
  <2> QED
    BY <1>5, <2>1 DEF ShowUnsaved
<1>6. ASSUME NEW p \in Proc, NEW n \in 0..Len(saving[p]), Write(p, n) PROVE SeenTypeOK'
  <2>1. SubSeq(saving[p], 1, n) \in Seq(Token) /\ <<>> \in Seq(Token)
    BY PrefixProperties
  <2>2. Overlay(SubSeq(saving[p], 1, n), yaml) \in Seq(Token)
    BY <2>1, OverlayIsText
  <2> QED
    BY <1>6, <2>1, <2>2 DEF Write, NotSaving
<1>7. ASSUME NEW p \in Proc, Exit(p) PROVE SeenTypeOK'
  <2>1. <<>> \in Seq(Token) /\ IsMap(<<>>)
    BY NothingRemembered DEF IsReadable
  <2> QED
    BY <1>7, <2>1 DEF Exit, NotSaving
<1>8. ASSUME NEW p \in Proc, WriteAll(p) \/ WriteSome(p)
      PROVE  \E n \in 0..Len(saving[p]) : Write(p, n)
  <2>1. Len(saving[p]) \in Nat
    OBVIOUS
  <2> QED
    BY <1>8, <2>1 DEF WriteAll, WriteSome
<1> QED
  BY <1>1, <1>2, <1>4, <1>5, <1>6, <1>7, <1>8 DEF SeenNext

\* Whatever has happened to the file, loading and saving it does no more: for
\* every number of runs, for all pages, also those with a colon in the name,
\* and also after runs that have written into the file at one time.
THEOREM DamageNeverSpreads == SeenSpec => []DamageDoesNotSpread
<1>1. ASSUME SeenTypeOK PROVE DamageDoesNotSpread
  <2>1. IsReadable(Parse(yaml))
    BY <1>1, ReadIsReadable DEF SeenTypeOK
  <2> QED
    BY <2>1, SavedReadsBack DEF DamageDoesNotSpread
<1> QED
  BY <1>1, SeenInitIsTyped, SeenStepIsTyped, PTL DEF SeenSpec

LEMMA SeenInitAlone == SeenInit => SeenInv
<1> SUFFICES ASSUME SeenInit PROVE SeenInv
  OBVIOUS
<1>1. SavingAlone
  BY NothingRemembered, NothingRead DEF SeenInit, SavingAlone
<1> QED
  BY <1>1, SeenInitIsTyped, NothingRemembered DEF SeenInit, SeenInv

LEMMA SeenStepAlone ==
  ASSUME NoColons, SeenInv, [SeenNext]_seenVars
  PROVE  SeenInv'
<1>0. /\ SeenTypeOK /\ SeenTypeOK'
      /\ \A p \in Proc : IsReadable(entries[p]) /\ IsMap(entries[p])
      /\ yaml \in Seq(Token) /\ saving \in [Proc -> Seq(Token)]
      /\ entries = [p \in Proc |-> entries[p]]
  BY SeenStepIsTyped DEF SeenInv, SeenTypeOK
<1>1. CASE UNCHANGED seenVars
  <2>1. /\ yaml' = yaml /\ entries' = entries /\ saving' = saving
        /\ running' = running /\ viewed' = viewed /\ mixed' = mixed
    BY <1>1 DEF seenVars
  <2> QED
    BY <1>0, <2>1 DEF SeenInv, SavingAlone
<1>2. ASSUME NEW p \in Proc, Start(p) PROVE SeenInv'
  <2>1. /\ p \notin running /\ running' = running \cup {p}
        /\ entries' = [entries EXCEPT ![p] = Parse(yaml)]
        /\ yaml' = yaml /\ saving' = saving /\ viewed' = viewed /\ mixed' = mixed
    BY <1>2 DEF Start
  <2>2. /\ entries'[p] = Parse(yaml)
        /\ \A q \in Proc : q # p => entries'[q] = entries[q]
    BY <1>0, <2>1
  <2>3. \A q \in Proc : IsReadable(entries'[q])
    BY <1>0, <2>2, ReadIsReadable
  <2>4. ASSUME ~ mixed, SavingAlone PROVE SavingAlone'
    <3>1. saving[p] = NotSaving
      BY <2>1, <2>4 DEF SavingAlone
    <3> QED
      BY <2>1, <2>2, <2>4, <3>1 DEF SavingAlone
  <2> QED
    BY <1>0, <2>1, <2>3, <2>4 DEF SeenInv
<1>3. ASSUME NEW p \in Proc, NEW page \in Page, Add(p, page)
      PROVE  /\ running' = running /\ viewed' = viewed \cup {page}
             /\ p \in running /\ saving[p] = NotSaving
             /\ DOMAIN entries'[p] = DOMAIN entries[p] \cup {page}
             /\ \A q \in Proc : q # p => entries'[q] = entries[q]
             /\ \A q \in Proc : IsReadable(entries'[q])
  <2>1. /\ entries' = [entries EXCEPT ![p] = WithPage(entries[p], page)]
        /\ running' = running /\ viewed' = viewed \cup {page}
        /\ p \in running /\ saving[p] = NotSaving
    BY <1>3 DEF Add, WithPage
  <2>2. /\ IsReadable(WithPage(entries[p], page))
        /\ DOMAIN WithPage(entries[p], page) = DOMAIN entries[p] \cup {page}
    BY <1>0, PageIsAdded
  <2>3. /\ entries'[p] = WithPage(entries[p], page)
        /\ \A q \in Proc : q # p => entries'[q] = entries[q]
    BY <1>0, <2>1
  <2> QED
    BY <1>0, <2>1, <2>2, <2>3
<1>4. ASSUME NEW p \in Proc, NEW page \in Page, Show(p, page) PROVE SeenInv'
  <2>1. /\ running' = running /\ viewed' = viewed \cup {page}
        /\ p \in running /\ saving[p] = NotSaving
        /\ DOMAIN entries'[p] = DOMAIN entries[p] \cup {page}
        /\ \A q \in Proc : q # p => entries'[q] = entries[q]
        /\ \A q \in Proc : IsReadable(entries'[q])
    BY <1>3, <1>4 DEF Show
  <2>2. /\ yaml' = <<>> /\ saving' = [saving EXCEPT ![p] = Content(entries'[p])]
        /\ mixed' = (mixed \/ \E q \in Proc : saving[q] # NotSaving)
    BY <1>4 DEF Show
  <2>3. saving'[p] = Content(entries'[p]) /\ \A q \in Proc : q # p => saving'[q] = saving[q]
    BY <1>0, <2>2
  <2>4. ASSUME ~ mixed' PROVE SavingAlone'
    <3>1. SavingAlone /\ \A q \in Proc : saving[q] = NotSaving
      BY <2>2, <2>4 DEF SeenInv
    <3>2. \A q \in Proc : q # p => saving'[q] = NotSaving
      BY <2>3, <3>1
    <3>3. \A q \in Proc : DOMAIN entries'[q] \subseteq viewed'
      BY <2>1, <3>1 DEF SavingAlone
    <3>4. DOMAIN Parse(yaml') \subseteq viewed'
      BY <2>2, NothingRead
    <3> QED
      BY <2>1, <2>2, <2>3, <3>2, <3>3, <3>4 DEF SavingAlone
  <2> QED
    BY <1>0, <2>1, <2>4 DEF SeenInv
<1>5. ASSUME NEW p \in Proc, NEW page \in Page, ShowUnsaved(p, page) PROVE SeenInv'
  <2>1. /\ running' = running /\ viewed' = viewed \cup {page}
        /\ p \in running /\ saving[p] = NotSaving
        /\ DOMAIN entries'[p] = DOMAIN entries[p] \cup {page}
        /\ \A q \in Proc : q # p => entries'[q] = entries[q]
        /\ \A q \in Proc : IsReadable(entries'[q])
    BY <1>3, <1>5 DEF ShowUnsaved
  <2>2. yaml' = yaml /\ saving' = saving /\ mixed' = mixed
    BY <1>5 DEF ShowUnsaved
  <2>3. ASSUME SavingAlone PROVE SavingAlone'
    <3>1. \A q \in Proc : DOMAIN entries'[q] \subseteq viewed'
      BY <2>1, <2>3 DEF SavingAlone
    <3> QED
      BY <2>1, <2>2, <2>3, <3>1 DEF SavingAlone
  <2> QED
    BY <1>0, <2>1, <2>2, <2>3 DEF SeenInv
<1>6. ASSUME NEW p \in Proc, NEW n \in 0..Len(saving[p]), Write(p, n) PROVE SeenInv'
  <2> DEFINE cut == SubSeq(saving[p], 1, n)
  <2>1. /\ saving[p] # NotSaving /\ yaml' = Overlay(cut, yaml)
        /\ saving' = [saving EXCEPT ![p] = NotSaving]
        /\ entries' = entries /\ running' = running /\ viewed' = viewed
        /\ mixed' = mixed
    BY <1>6 DEF Write
  <2>2. saving[p] \in Seq(Token) /\ cut \in Seq(Token)
    BY <1>0, PrefixProperties
  <2>3. DOMAIN Parse(cut) \subseteq DOMAIN Parse(saving[p])
    BY <2>2, CutFileNamesNoOther
  <2> HIDE DEF cut
  <2>4. saving'[p] = NotSaving /\ \A q \in Proc : q # p => saving'[q] = saving[q]
    BY <1>0, <2>1
  <2>5. ASSUME SavingAlone PROVE SavingAlone'
    <3>1. yaml = <<>> /\ saving[p] = Content(entries[p])
      BY <2>1, <2>5 DEF SavingAlone
    <3>2. yaml' = cut
      BY <1>0, <2>1, <2>2, <3>1, OverlayIsText
    <3>3. Parse(saving[p]) = entries[p]
      BY <1>0, <3>1, SavedReadsBack
    <3>4. DOMAIN Parse(yaml') \subseteq viewed'
      BY <2>1, <2>3, <2>5, <3>2, <3>3 DEF SavingAlone
    <3>5. \A q \in Proc : saving'[q] = NotSaving
      BY <2>1, <2>4, <2>5 DEF SavingAlone
    <3> QED
      BY <2>1, <2>5, <3>4, <3>5 DEF SavingAlone
  <2> QED
    BY <1>0, <2>1, <2>5 DEF SeenInv
<1>7. ASSUME NEW p \in Proc, Exit(p) PROVE SeenInv'
  <2>1. /\ running' = running \ {p} /\ saving' = [saving EXCEPT ![p] = NotSaving]
        /\ entries' = [entries EXCEPT ![p] = <<>>]
        /\ yaml' = yaml /\ viewed' = viewed /\ mixed' = mixed
    BY <1>7 DEF Exit
  <2>2. /\ saving'[p] = NotSaving /\ entries'[p] = <<>>
        /\ \A q \in Proc : q # p => saving'[q] = saving[q] /\ entries'[q] = entries[q]
    BY <1>0, <2>1
  <2>3. \A q \in Proc : IsReadable(entries'[q])
    BY <1>0, <2>2, NothingRemembered
  <2>4. ASSUME SavingAlone PROVE SavingAlone'
    <3>1. \A q \in Proc : DOMAIN entries'[q] \subseteq viewed'
      BY <2>1, <2>2, <2>4, NothingRemembered DEF SavingAlone
    <3>2. \A q \in Proc : saving'[q] # NotSaving => q # p
      BY <2>2
    <3> QED
      BY <2>1, <2>2, <2>4, <3>1, <3>2 DEF SavingAlone
  <2> QED
    BY <1>0, <2>1, <2>3, <2>4 DEF SeenInv
<1>8. ASSUME NEW p \in Proc, WriteAll(p) \/ WriteSome(p)
      PROVE  \E n \in 0..Len(saving[p]) : Write(p, n)
  <2>1. Len(saving[p]) \in Nat
    BY <1>0
  <2> QED
    BY <1>8, <2>1 DEF WriteAll, WriteSome
<1> QED
  BY <1>1, <1>2, <1>4, <1>5, <1>6, <1>7, <1>8 DEF SeenNext

\* As long as no two runs save at one time, only pages that were viewed are in
\* the file and in the memory of the runs, whatever was cut off the file by a
\* run that was killed: for every number of runs and all pages that have no
\* colon in the name; with one it is not so, which a run of TLC shows.
THEOREM OnlyViewedAreSeen == ASSUME NoColons PROVE SeenSpec => []OnlyViewedPages
<1>1. SeenInv => OnlyViewedPages
  BY DEF SeenInv, SavingAlone, OnlyViewedPages
<1>2. SeenInv /\ [SeenNext]_seenVars => SeenInv'
  BY SeenStepAlone
<1> QED
  BY <1>1, <1>2, SeenInitAlone, PTL DEF SeenSpec

\* A save that nobody interfered with is read back as what the run knew.
THEOREM SavesAreReadBack == ASSUME NoColons PROVE SeenSpec => SaveIsReadBack
<1>1. ASSUME SeenInv, NEW p \in Proc, WriteAll(p), ~ mixed
      PROVE  Parse(yaml') = entries[p]
  <2>1. /\ saving[p] # NotSaving
        /\ yaml' = Overlay(SubSeq(saving[p], 1, Len(saving[p])), yaml)
    BY <1>1 DEF WriteAll, Write
  <2>2. /\ yaml = <<>> /\ saving[p] = Content(entries[p])
        /\ IsReadable(entries[p]) /\ saving[p] \in Seq(Token) /\ yaml \in Seq(Token)
    BY <1>1, <2>1 DEF SeenInv, SavingAlone, SeenTypeOK
  <2>3. SubSeq(saving[p], 1, Len(saving[p])) = saving[p]
    BY <2>2, SubSeqFull
  <2>4. yaml' = saving[p]
    BY <2>1, <2>2, <2>3, OverlayIsText
  <2> QED
    BY <2>2, <2>4, SavedReadsBack
<1>2. SeenInv /\ [SeenNext]_seenVars => SeenInv'
  BY SeenStepAlone
<1>3. SeenInv => [\A p \in Proc : WriteAll(p) /\ ~ mixed => Parse(yaml') = entries[p]]_seenVars
  BY <1>1
<1> QED
  BY <1>2, <1>3, SeenInitAlone, PTL DEF SeenSpec, SaveIsReadBack
=============================================================================
