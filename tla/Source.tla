------------------------------- MODULE Source -------------------------------
(***************************************************************************)
(* Parsing .hlp files and merging them: dec-hlp/src/source.rs as run_build *)
(* of hlp drives it.  A file is read line by line into a flat list of      *)
(* topics (phase 1); the list is folded into trees with a stack (phase 2); *)
(* the trees of all files become one.  A topic is named by its place in    *)
(* the list of the topics of all files.                                    *)
(***************************************************************************)
EXTENDS Naturals, Sequences, SequencesExt, FiniteSets, FiniteSetsExt

CONSTANTS Name,      \* topic names
          TooLong,   \* those of more than MAX_NAME_LENGTH bytes
          ToUpper,   \* str::to_uppercase on names
          Text,      \* lines that are no header
          Empty,     \* the empty line, one of them
          MaxLevel,  \* the deepest level a header can have (9)
          MaxLines,  \* bound on the lines of all files
          MaxFiles   \* bound on the number of files

ASSUME SourceAssumption ==
  /\ TooLong \subseteq Name
  /\ ToUpper \in [Name -> Name]
  /\ Empty \in Text
  /\ MaxLevel \in Nat \ {0} /\ MaxLines \in Nat /\ MaxFiles \in Nat

VARIABLES files,    \* the lines read so far of each file opened so far
          topics,   \* raw_topics of all files, with the children found so far
          first,    \* where the topics of the current file begin
          text,     \* current_body
          phase,    \* what is being done with the current file
          next,     \* the raw topic the assembly has come to
          stack,    \* the topics being built, outermost first
          level1,   \* result_topics of the current file
          trees     \* the level-1 topics of the parsed files; at last, of the merge

vars == <<files, topics, first, text, phase, next, stack, level1, trees>>

Header(l, n) == [level |-> l, name |-> n]
TextLine(t) == [text |-> t]
NewTopic(l, n) == [level |-> l, name |-> n, body |-> <<>>, children |-> <<>>]

File == Last(files)
LineRead(x) == files' = [files EXCEPT ![Len(files)] = Append(@, x)]
MoreLines == FoldSeq(LAMBDA f, n : Len(f) + n, 0, files) < MaxLines

AnyTopic == Len(topics) >= first
LastLevel == IF AnyTopic THEN topics[Len(topics)].level ELSE 0
\* The lines collected become the body of the topic before; text before the
\* first header belongs to no topic and is dropped.
BodySaved == IF AnyTopic THEN [topics EXCEPT ![Len(topics)].body = text] ELSE topics
-----------------------------------------------------------------------------
\* Phase 1

\* Mutant: only the first level is checked, as if any header may follow a header.
InSequenceAtStart(l) == AnyTopic \/ l = 1

InSequence(l) == l <= LastLevel + 1

\* Mutant: the length of the name is not checked.
ReadAnyName(l, n) ==
  /\ InSequence(l)
  /\ topics' = Append(BodySaved, NewTopic(l, n))
  /\ text' = <<>>
  /\ UNCHANGED <<phase, next>>

\* Mutant: the lines collected are not cleared.
ReadKeepingText(l, n) ==
  /\ n \notin TooLong /\ InSequence(l)
  /\ topics' = Append(BodySaved, NewTopic(l, n))
  /\ UNCHANGED <<text, phase, next>>

ReadHeader(l, n) ==
  /\ n \notin TooLong /\ InSequence(l)
  /\ topics' = Append(BodySaved, NewTopic(l, n))
  /\ text' = <<>>
  /\ UNCHANGED <<phase, next>>

\* Err(NameTooLong), Err(NonSequentialLevel): the build stops with this file.
RejectHeader(l, n) ==
  /\ ~ (n \notin TooLong /\ InSequence(l))
  /\ phase' = IF n \in TooLong THEN "NameTooLong" ELSE "NonSequentialLevel"
  /\ UNCHANGED <<topics, text, next>>

KeepText(t) == text' = IF AnyTopic THEN Append(text, t) ELSE text

ReadLine(x) ==
  /\ phase = "scan" /\ MoreLines /\ LineRead(x)
  /\ IF "text" \in DOMAIN x
     THEN KeepText(x.text) /\ UNCHANGED <<topics, phase, next>>
     ELSE ReadHeader(x.level, x.name) \/ RejectHeader(x.level, x.name)
  /\ UNCHANGED <<first, stack, level1, trees>>

\* The file cannot be read, or is not UTF-8: it is read whole before it is parsed.
ReadFails ==
  /\ phase = "scan" /\ File = <<>> /\ phase' = "Io"
  /\ UNCHANGED <<files, topics, first, text, next, stack, level1, trees>>

EndOfFile ==
  /\ phase = "scan" /\ phase' = "assemble"
  /\ topics' = BodySaved /\ text' = <<>> /\ next' = first
  /\ UNCHANGED <<files, first, stack, level1, trees>>
-----------------------------------------------------------------------------
\* Phase 2

\* build_body_string(): without the empty lines at the end.
Trimmed(lines) ==
  LET kept == {i \in DOMAIN lines : lines[i] # Empty}
  IN  IF kept = {} THEN <<>> ELSE SubSeq(lines, 1, Max(kept))

Top == Last(stack)

\* Mutant: siblings stay on the stack.
DeeperOnly(t) == topics[Top].level > topics[t].level

Ends(t) == topics[Top].level >= topics[t].level

\* The top of the stack is complete: it goes to its parent, or to the result.
CloseTop ==
  /\ stack' = Front(stack)
  /\ IF Len(stack) = 1
     THEN level1' = Append(level1, Top) /\ UNCHANGED topics
     ELSE /\ topics' = [topics EXCEPT ![Last(Front(stack))].children = Append(@, Top)]
          /\ UNCHANGED level1

Pop ==
  /\ phase = "assemble" /\ next <= Len(topics)
  /\ stack # <<>> /\ Ends(next)
  /\ CloseTop
  /\ UNCHANGED <<files, first, text, phase, next, trees>>

Push ==
  /\ phase = "assemble" /\ next <= Len(topics)
  /\ stack # <<>> => ~ Ends(next)
  /\ stack' = Append(stack, next)
  /\ topics' = [topics EXCEPT ![next].body = Trimmed(@)]
  /\ next' = next + 1
  /\ UNCHANGED <<files, first, text, phase, level1, trees>>

Flush ==
  /\ phase = "assemble" /\ next > Len(topics) /\ stack # <<>>
  /\ CloseTop
  /\ UNCHANGED <<files, first, text, phase, next, trees>>

SameName(i, j) == ToUpper[topics[i].name] = ToUpper[topics[j].name]

\* filter(): the entries of a list at the places that pass
Filtered(list, passing) ==
  LET upTo[n \in 0..Len(list)] ==
        IF n = 0 THEN <<>>
        ELSE IF n \in passing THEN Append(upTo[n - 1], list[n]) ELSE upTo[n - 1]
  IN  upTo[Len(list)]

\* Mutant: the first definition of a name wins.
KeepFirst(list) ==
  Filtered(list, {i \in DOMAIN list :
                    \A j \in DOMAIN list : SameName(list[j], list[i]) => i <= j})

\* dedup_topics(): of the topics of one name the last stays, in its place.
Dedup(list) ==
  Filtered(list, {i \in DOMAIN list :
                    \A j \in DOMAIN list : SameName(list[j], list[i]) => j <= i})

\* Mutant: a file without any topic is never done.
FinishNonEmpty ==
  /\ phase = "assemble" /\ next > Len(topics) /\ stack = <<>> /\ level1 # <<>>
  /\ phase' = "parsed" /\ trees' = trees \o Dedup(level1)
  /\ UNCHANGED <<files, topics, first, text, next, stack, level1>>

FinishFile ==
  /\ phase = "assemble" /\ next > Len(topics) /\ stack = <<>>
  /\ phase' = "parsed" /\ trees' = trees \o Dedup(level1)
  /\ UNCHANGED <<files, topics, first, text, next, stack, level1>>

NextFile ==
  /\ phase = "parsed" /\ Len(files) < MaxFiles
  /\ phase' = "scan" /\ files' = Append(files, <<>>)
  /\ first' = Len(topics) + 1 /\ level1' = <<>>
  /\ UNCHANGED <<topics, text, next, stack, trees>>

\* merge(), called for two files or more
Merge ==
  /\ phase = "parsed" /\ phase' = "merged"
  /\ trees' = IF Len(files) > 1 THEN Dedup(trees) ELSE trees
  /\ UNCHANGED <<files, topics, first, text, next, stack, level1>>
-----------------------------------------------------------------------------
Init ==
  /\ files = <<<<>>>> /\ topics = <<>> /\ first = 1 /\ text = <<>>
  /\ phase = "scan" /\ next = 1 /\ stack = <<>> /\ level1 = <<>> /\ trees = <<>>

Next ==
  \/ \E l \in 1..MaxLevel, n \in Name : ReadLine(Header(l, n))
  \/ \E t \in Text : ReadLine(TextLine(t))
  \/ ReadFails \/ EndOfFile
  \/ Pop \/ Push \/ Flush \/ FinishFile
  \/ NextFile \/ Merge

Spec == Init /\ [][Next]_vars /\ WF_vars(Pop \/ Push \/ Flush \/ FinishFile)
-----------------------------------------------------------------------------
(***************************************************************************)
(* What the parser promises.                                               *)
(***************************************************************************)
Failed == {"Io", "NameTooLong", "NonSequentialLevel"}

\* Topics have legal names, levels and bodies; the lists name topics.
TypeOK ==
  /\ topics \in Seq([level : 1..MaxLevel, name : Name \ TooLong,
                     body : Seq(Text), children : Seq(Nat \ {0})])
  /\ files \in Seq(Seq([level : 1..MaxLevel, name : Name] \cup [text : Text]))
  /\ files # <<>> /\ text \in Seq(Text)
  /\ phase \in {"scan", "assemble", "parsed", "merged"} \cup Failed
  /\ first \in 1..(Len(topics) + 1) /\ next \in 1..(Len(topics) + 1)
  /\ stack \in Seq(1..Len(topics))
  /\ level1 \in Seq(1..Len(topics)) /\ trees \in Seq(1..Len(topics))

\* The stack of the assembly is one unbroken line of descent: the k-th entry
\* has level k, so a topic that is closed always goes to a topic one level up,
\* and what falls out at the bottom is a level-1 topic.  Nothing in phase 2
\* checks this; it rests on the sequence check that phase 1 made.
StackIsALineOfDescent ==
  \A k \in DOMAIN stack : topics[stack[k]].level = k

\* The part of a file below its i-th topic ends at the next topic not deeper.
Below(i) == {j \in (i + 1)..Len(topics) :
               \A k \in (i + 1)..j : topics[k].level > topics[i].level}
\* The list of the members of S in ascending order
Lists(list, S) ==
  ToSet(list) = S /\ \A i, j \in DOMAIN list : i < j => list[i] < list[j]

\* The trees are the outline the levels describe: the children of a topic are,
\* in the order of the file, the topics of the next level below it, and the
\* topics of level 1 have no parent; so every topic is in one tree, once.
TreesAreTheOutline ==
  phase = "parsed" =>
    /\ Lists(level1, {j \in first..Len(topics) : topics[j].level = 1})
    /\ \A i \in first..Len(topics) :
         Lists(topics[i].children, {j \in Below(i) : topics[j].level = topics[i].level + 1})

IsHeader(x) == "level" \in DOMAIN x
Headers(f) == {i \in DOMAIN f : IsHeader(f[i])}

\* lines are those between two lines of a file; body is these lines without the
\* empty ones at their end.
Between(lines, f, from, to) ==
  Len(lines) = to - from - 1 /\ \A i \in DOMAIN lines : f[from + i] = TextLine(lines[i])
IsBody(body, f, from, to) ==
  /\ body # <<>> => Last(body) # Empty
  /\ \E n \in 0..Len(f) : Between(body \o [i \in 1..n |-> Empty], f, from, to)

\* Where the part of a file ends that begins with its k-th header
EndOf(at, k, f) == IF k = Len(at) THEN Len(f) + 1 ELSE at[k + 1]

\* The k-th topic of a file has the level and the name of the k-th header, and its
\* body is the text from there to the next: the empty lines at its end are dropped,
\* although the format is said to keep them; no other line is lost or moved.
BodiesAreTheText ==
  phase = "parsed" =>
    \E at \in [1..(Len(topics) + 1 - first) -> Headers(File)] :
      /\ Lists(at, Headers(File))
      /\ \A k \in DOMAIN at :
           LET topic == topics[first + k - 1]
           IN  /\ File[at[k]] = Header(topic.level, topic.name)
               /\ IsBody(topic.body, File, at[k], EndOf(at, k, File))

\* A header is bad when its name is too long or it skips a level.
Bad(f, i) ==
  /\ IsHeader(f[i])
  /\ \/ f[i].name \in TooLong
     \/ f[i].level > 1 + Max({0} \cup {f[h].level : h \in
                      {j \in Headers(f) : j < i /\ \A k \in Headers(f) : k < i => k <= j}})

\* A file is refused at its first bad header and for what is wrong there, and a
\* file without one is never refused.
RefusedAtFirstBadHeader ==
  /\ \A i \in 1..(Len(File) - 1) : ~ Bad(File, i)
  /\ phase \in {"NameTooLong", "NonSequentialLevel"} <=>
       File # <<>> /\ Bad(File, Len(File))
  /\ phase \in {"NameTooLong", "NonSequentialLevel"} =>
       (phase = "NameTooLong" <=> Last(File).name \in TooLong)

\* Of every level-1 name the library gets the definition that comes last in the
\* last file that has one, whole, in its place: removing duplicates file by file
\* and then again over all files is as good as once over everything.
LastDefinitionWins ==
  phase = "merged" =>
    Lists(trees, {i \in DOMAIN topics : topics[i].level = 1 /\
            \A j \in DOMAIN topics :
              topics[j].level = 1 /\ SameName(i, j) => j <= i})

\* The assembly of a file always comes to its end.
AssemblyEnds == phase = "assemble" ~> phase = "parsed"
=============================================================================
