------------------------------ MODULE Building ------------------------------
(***************************************************************************)
(* Making libraries: hlp --build from its command line on, dechlp_build()  *)
(* of the C interface and build() of the Python one.  Several of them may  *)
(* run at a time and write to one file, which other processes open and     *)
(* map.  A file is the blocks that single calls of write() put there; what *)
(* is inside a block is in Builder and HlibFile.                           *)
(***************************************************************************)
EXTENDS Naturals, Sequences, SequencesExt, FiniteSets, FiniteSetsExt

CONSTANTS Build,       \* the builds there may be, each run once
          Reader,      \* processes that open libraries
          Source,      \* paths of .hlp files
          Output,      \* paths of .hlib files
          Topic,       \* level-1 topics with all that is below them
          Name,        \* Name[t]: the upper-case name of a level-1 topic
          Parsed,      \* Parsed[s]: what parse_file(s) returns
          Unreadable,  \* a ParseError
          Old,         \* the tree of libraries that were there before
          Command      \* the command lines and calls that start a build

Via == {"hlp", "C", "Python"}

\* Output files are told from source files, and one call of parse() has left
\* one topic of each name.
ASSUME BuildingAssumption ==
  /\ IsFiniteSet(Build)
  /\ Name \in [Topic -> STRING]
  /\ Unreadable \notin Seq(Topic)
  /\ Parsed \in [Source -> Seq(Topic) \cup {Unreadable}]
  /\ \A s \in Source : Parsed[s] # Unreadable =>
       \A i, j \in DOMAIN Parsed[s] : Name[Parsed[s][i]] = Name[Parsed[s][j]] => i = j
  /\ Old \in Seq(Topic) \ {<<>>}
  /\ Command \subseteq [via : Via, browsing : BOOLEAN,
                        inputs : Seq(Source), output : Output]

VARIABLES file,     \* the blocks in each output file, <<>> if there is none
          run,      \* each build: its command, the trees read and merged, the blocks written
          authors,  \* the builds that have made a file what it is
          map       \* the file each reader has open, and how it was then

vars == <<file, run, authors, map>>

\* The ways a build may end
Ended == {"Ok", "Usage", "ParseError", "EmptyTree", "Io", "killed"}

NoCommand == [via |-> "none", browsing |-> FALSE, inputs |-> <<>>, output |-> "none"]
New(state, cmd) == [state |-> state, cmd |-> cmd, trees |-> <<>>,
                     tree |-> <<>>, written |-> 0]
Waiting == New("waiting", NoCommand)
NoMap == [path |-> "none", was |-> <<>>, by |-> {}, settled |-> TRUE]
-----------------------------------------------------------------------------
\* Trees and images

\* enumerate().filter(..).map(..): what is at the indices that pass the filter
Filtered(list, passing) ==
  FlattenSeq([k \in DOMAIN list |-> IF k \in passing THEN <<list[k]>> ELSE <<>>])

\* dedup_topics(): of the topics of one name the last stays, in its place.
LastOfEachName(list) ==
  Filtered(list, {i \in DOMAIN list :
             \A j \in DOMAIN list : Name[list[j]] = Name[list[i]] => j <= i})

\* merge(); hlp leaves a single tree alone, where merge() changes nothing
Merged(trees) == LastOfEachName(FlattenSeq(trees))

\* The first block holds the header and the nodes, the others what they refer to.
Block(tree, part) == [of |-> tree, part |-> part]
AnyBlock == [of : Seq(Topic), part : Nat]
Image(tree) == [i \in 1..(Len(tree) + 1) |-> Block(tree, i - 1)]

\* What reads as zeros because a write() began behind the end of the file
Hole == Block(<<>>, 0)

\* Mutant: the file is opened to append.
AtEnd(blocks, at, block) == Append(blocks, block)

\* A file after a write() at one place of it
Overlay(blocks, at, block) ==
  [i \in 1..Max({Len(blocks), at}) |->
     IF i = at THEN block ELSE IF i <= Len(blocks) THEN blocks[i] ELSE Hole]

\* Mutant: the size in the header is not compared.
AnyHeader(blocks) == blocks # <<>> /\ blocks[1] # Hole /\ blocks[1].part = 0

\* Library::open() goes by the header and the size of the file.
Opens(blocks) ==
  /\ blocks # <<>> /\ blocks[1] # Hole /\ blocks[1].part = 0
  /\ Len(blocks) = Len(blocks[1].of) + 1
-----------------------------------------------------------------------------
Tree(b) == run[b].tree
Target(b) == run[b].cmd.output
Writing(o) == {b \in Build : run[b].state = "writing" /\ Target(b) = o}
Becomes(b, state) == run' = [run EXCEPT ![b].state = state]

\* What is refused before anything is read: browsing options or fewer than two
\* paths on the command line of hlp, no inputs in C.  Python takes any list.
IsUsageError(c) ==
  \/ c.via = "hlp" /\ c.browsing
  \/ c.via \in {"hlp", "C"} /\ c.inputs = <<>>

\* Mutant: the output file is created before the inputs are read.
BeginByCreating(b, c) ==
  /\ run[b].state = "waiting"
  /\ run' = [run EXCEPT ![b] = New(IF IsUsageError(c) THEN "Usage" ELSE "reading", c)]
  /\ file' = IF IsUsageError(c) THEN file ELSE [file EXCEPT ![c.output] = <<>>]
  /\ UNCHANGED <<authors, map>>

Begin(b, c) ==
  /\ run[b].state = "waiting"
  /\ run' = [run EXCEPT ![b] = New(IF IsUsageError(c) THEN "Usage" ELSE "reading", c)]
  /\ UNCHANGED <<file, authors, map>>

\* Mutant: an input that does not parse counts as one without topics.
ReadIgnoringErrors(b) ==
  LET inputs == run[b].cmd.inputs
      k == Len(run[b].trees) + 1
  IN  /\ run[b].state = "reading" /\ k <= Len(inputs)
      /\ run' = [run EXCEPT ![b].trees = Append(@, Parsed[inputs[k]])]
      /\ UNCHANGED <<file, authors, map>>

\* The inputs are parsed in turn, up to the first that does not parse.
ReadInput(b) ==
  LET inputs == run[b].cmd.inputs
      k == Len(run[b].trees) + 1
  IN  /\ run[b].state = "reading" /\ k <= Len(inputs)
      /\ IF Parsed[inputs[k]] = Unreadable
         THEN Becomes(b, "ParseError")
         ELSE run' = [run EXCEPT ![b].trees = Append(@, Parsed[inputs[k]])]
      /\ UNCHANGED <<file, authors, map>>

AllRead(b) == run[b].state = "reading" /\ Len(run[b].trees) = Len(run[b].cmd.inputs)

\* File::create() empties the file, also below those who read it or write to
\* it; only then is the tree looked at.
Create(b) ==
  LET o == Target(b)
      tree == Merged(run[b].trees)
  IN  /\ AllRead(b)
      /\ file' = [file EXCEPT ![o] = <<>>]
      /\ authors' = [authors EXCEPT ![o] = IF Writing(o) = {} THEN {b} ELSE @ \cup {b}]
      /\ run' = [run EXCEPT ![b].tree = tree,
                            ![b].state = IF tree = <<>> THEN "EmptyTree" ELSE "writing"]
      /\ UNCHANGED map

CreateFails(b) ==
  /\ AllRead(b) /\ Becomes(b, "Io")
  /\ UNCHANGED <<file, authors, map>>

Remaining(b) == run[b].state = "writing" /\ run[b].written < Len(Image(Tree(b)))
NextAt(b) == run[b].written + 1
Written(b) == [file EXCEPT ![Target(b)] = Overlay(@, NextAt(b), Image(Tree(b))[NextAt(b)])]

\* The next block, at the place this build has come to
Write(b) ==
  /\ Remaining(b)
  /\ file' = Written(b)
  /\ run' = [run EXCEPT ![b].written = @ + 1]
  /\ UNCHANGED <<authors, map>>

\* The error ends the build; the BufWriter tries once more when it is dropped.
WriteFails(b) ==
  /\ Remaining(b) /\ Becomes(b, "Io")
  /\ file' \in {file, Written(b)}
  /\ UNCHANGED <<authors, map>>

\* Mutant: the last flush() is left out.
FinishUnflushed(b) ==
  /\ run[b].state = "writing" /\ run[b].written + 1 >= Len(Image(Tree(b)))
  /\ Becomes(b, "Ok")
  /\ UNCHANGED <<file, authors, map>>

Finish(b) ==
  /\ run[b].state = "writing" /\ ~ Remaining(b)
  /\ Becomes(b, "Ok")
  /\ UNCHANGED <<file, authors, map>>

Killed(b) ==
  /\ run[b].state \in {"reading", "writing"} /\ Becomes(b, "killed")
  /\ UNCHANGED <<file, authors, map>>

Open(r, o) ==
  /\ map[r] = NoMap /\ Opens(file[o])
  /\ map' = [map EXCEPT ![r] = [path |-> o, was |-> file[o], by |-> authors[o],
                                settled |-> Writing(o) = {}]]
  /\ UNCHANGED <<file, run, authors>>

Close(r) ==
  /\ map[r] # NoMap /\ map' = [map EXCEPT ![r] = NoMap]
  /\ UNCHANGED <<file, run, authors>>
-----------------------------------------------------------------------------
\* At first each file is absent or a library somebody built long ago.
Init ==
  /\ file \in [Output -> {<<>>, Image(Old)}]
  /\ run = [b \in Build |-> Waiting]
  /\ authors = [o \in Output |-> {}]
  /\ map = [r \in Reader |-> NoMap]

Step(b) == ReadInput(b) \/ Create(b) \/ Write(b) \/ Finish(b)

Next ==
  \/ \E b \in Build : \/ \E c \in Command : Begin(b, c)
                      \/ Step(b) \/ CreateFails(b) \/ WriteFails(b) \/ Killed(b)
  \/ \E r \in Reader : Close(r) \/ \E o \in Output : Open(r, o)

Spec == Init /\ [][Next]_vars /\ \A b \in Build : WF_vars(Step(b))
-----------------------------------------------------------------------------
(***************************************************************************)
(* What the builds promise.                                                *)
(***************************************************************************)
\* Builds hold what they have read and files the blocks of trees.
TypeOK ==
  /\ file \in [Output -> Seq(AnyBlock)]
  /\ run \in [Build -> [state : {"waiting", "reading", "writing"} \cup Ended,
                        cmd : Command \cup {NoCommand}, trees : Seq(Seq(Topic)),
                        tree : Seq(Topic), written : Nat]]
  /\ authors \in [Output -> SUBSET Build]
  /\ map \in [Reader -> [path : Output, was : Seq(AnyBlock), by : SUBSET Build,
                         settled : BOOLEAN] \cup {NoMap}]

\* What a command asks for: of every name in its inputs the last definition.
Wanted(c) ==
  LET defs == UNION {{<<k, t>> : t \in ToSet(Parsed[c.inputs[k]])} : k \in DOMAIN c.inputs}
  IN  {d[2] : d \in {e \in defs : \A f \in defs : Name[f[2]] = Name[e[2]] => f[1] <= e[1]}}

IsWhole(blocks) == blocks = Image(blocks[1].of)

\* When all builds that wrote to a file report success and they were asked for
\* the same, the file is a whole library and holds what was asked for: however
\* they overlapped, one of them emptying what another had written, and however
\* often builds that were refused ran beside them.
SuccessMeansWhole ==
  \A o \in Output :
    /\ authors[o] # {}
    /\ \A b \in authors[o] : run[b].state = "Ok"
    /\ Cardinality({Tree(b) : b \in authors[o]}) = 1
    => /\ Opens(file[o]) /\ IsWhole(file[o])
       /\ \A b \in authors[o] : ToSet(file[o][1].of) = Wanted(run[b].cmd)

\* A reader that opens a file only one build has written to gets one whole
\* library, although it may open it while the build runs or after it failed.
ReadersGetOneLibrary ==
  \A r \in Reader :
    map[r] # NoMap /\ Cardinality(map[r].by) <= 1 => IsWhole(map[r].was)

\* A library that no build was writing to when it was opened stays as it was
\* below its reader until a build has parsed all its inputs: builds that are
\* refused for their arguments or for an input leave the file alone.
ReadersKeepTheirLibrary ==
  \A r \in Reader :
    LET o == map[r].path
    IN  /\ map[r] # NoMap /\ map[r].settled /\ authors[o] = map[r].by
        => file[o] = map[r].was

\* A library that a build has emptied comes back: if no other build gets at the
\* file, and nothing fails or is killed, the file opens again.
LibraryComesBack ==
  \A b \in Build :
    run[b].state = "writing" ~>
      \/ run[b].state \in {"Io", "killed"}
      \/ \E o \in Output : o = Target(b) /\ (Opens(file[o]) \/ authors[o] # {b})
=============================================================================
