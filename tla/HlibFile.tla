------------------------------ MODULE HlibFile ------------------------------
(***************************************************************************)
(* One .hlib file that is built again and again, by builds that may stop   *)
(* anywhere, and opened in between: builder::build() and Library::open().  *)
(***************************************************************************)
EXTENDS Library

CONSTANTS Tree,     \* the source trees that are built
          Cuts(_)   \* Cuts(image): how many bytes of it may have got out

\* A tree as a parser leaves it, its topics numbered as they stand in the source:
\* each is the subtopic of one other before it, in one place.  The root, on level 0,
\* has no text.
IsTree(tree) ==
  LET n == Cardinality(Topics(tree))
  IN  /\ IsFiniteSet(Topics(tree))
      /\ tree.kids \in [0..n -> Seq(1..n)]
      /\ tree.key \in [1..n -> Nat]
      /\ tree.len \in [0..n -> Nat] /\ tree.len[ROOT] = 0
      /\ tree.level \in [0..n -> Nat] /\ tree.level[ROOT] = 0
      /\ \A u \in 1..n : \E t \in 0..(u - 1) : \E k \in DOMAIN tree.kids[t] :
           /\ tree.kids[t][k] = u
           /\ \A s \in 0..n : \A j \in DOMAIN tree.kids[s] :
                tree.kids[s][j] = u => s = t /\ j = k

ASSUME TreeAssumption ==
  \A tree \in Tree : IsTree(tree) /\ Cuts(Image(tree)) \subseteq 0..Image(tree).size

VARIABLES file,     \* the tree built last, its image, and how much of it is there
          build,    \* "idle", "writing", "Ok", or the BuildError
          library   \* the file as the last open() mapped it, or NoLibrary

vars == <<file, build, library>>

NoTree == [kids |-> [t \in {ROOT} |-> <<>>], key |-> <<>>,
           len |-> [t \in {ROOT} |-> 0], level |-> [t \in {ROOT} |-> 0]]
EmptyFile(tree) == [tree |-> tree, image |-> Image(tree), len |-> 0]
NoFile == EmptyFile(NoTree)
Data(f) == Bytes(f.image, f.len)

\* What File::create() leaves of the file, for each tree to be written into it
Created == {EmptyFile(tree) : tree \in Tree}

NoLibrary == NoFile     \* no file of no bytes ever opens

Init == file = NoFile /\ build = "idle" /\ library = NoLibrary

\* File::create() has emptied the file before the tree is looked at.  A mapped
\* file must not be built again: its reader has let go of it.
Create(f) ==
  /\ build # "writing"
  /\ file' = f
  /\ build' = IF Topics(f.tree) = {} THEN "EmptyTree" ELSE "writing"
  /\ library' = NoLibrary

\* The BufWriter passes on some more bytes, wherever that cuts.
Write ==
  /\ build = "writing"
  /\ \E n \in Cuts(file.image) : n > file.len /\ file' = [file EXCEPT !.len = n]
  /\ UNCHANGED <<build, library>>

\* A write fails, or the process ends.
Stop ==
  /\ build = "writing" /\ build' = "Io"
  /\ UNCHANGED <<file, library>>

\* Mutant: the last flush() is left out.
FinishUnflushed ==
  /\ build = "writing" /\ build' = "Ok"
  /\ UNCHANGED <<file, library>>

Finish ==
  /\ build = "writing" /\ file.len = file.image.size
  /\ build' = "Ok"
  /\ UNCHANGED <<file, library>>

Open ==
  /\ library' = IF Opens(Data(file)) THEN file ELSE NoLibrary
  /\ UNCHANGED <<file, build>>

Next == (\E f \in Created : Create(f)) \/ Write \/ Stop \/ Finish \/ Open

Spec == Init /\ [][Next]_vars
-----------------------------------------------------------------------------
IsOpen == library # NoLibrary

\* A file that a build left unfinished, for whatever reason and wherever, does
\* not open: the sizes of the header tell, although the header is written first.
\* The size of an image too large for the header is left there without what does
\* not fit: the image does not open when it is complete, but a part of it of just
\* the size in the header may.
OnlyCompleteFilesOpen == IsOpen => library.len = U32(library.image.size)

\* Whether the fields of the format are wide enough for a tree
Fits(f) ==
  /\ f.image.size < OffsetLimit
  /\ \A t \in DOMAIN f.tree.kids : Len(f.tree.kids[t]) < CountLimit

\* A build that reports success has made a library that opens.
SuccessfulBuildOpens ==
  build = "Ok" /\ Fits(file) => Opens(Data(file))

\* kids sorted by name, those of one name in the order of the source
Sorts(tree, list, kids) ==
  /\ Len(list) = Len(kids) /\ ToSet(list) = ToSet(kids)
  /\ \A i, j \in DOMAIN list : i < j =>
       \/ tree.key[list[i]] < tree.key[list[j]]
       \/ /\ tree.key[list[i]] = tree.key[list[j]]
          /\ \E k, m \in DOMAIN kids : k < m /\ kids[k] = list[i] /\ kids[m] = list[j]

\* What is read from an open library is the tree that was built: from the root
\* every topic is found below its parent, among its siblings in the order of
\* their names, with its own text, all of it, and its level; although the
\* offsets were fixed before anything was sorted or written.
ReadsBackTheTree ==
  IsOpen /\ Fits(library) =>
    LET tree == library.tree
        data == Data(library)
        nodes == {p \in DOMAIN data.item : data.item[p].what = "node"}
        topic(p) == data.item[p].topic
    IN  /\ topic(data.item[0].root_offset) = ROOT
        /\ Cardinality(nodes) = Cardinality(DOMAIN tree.kids)
        /\ \A p \in nodes :
             LET kids == Children(data, p)
             IN  /\ Sorts(tree, [k \in DOMAIN kids |-> topic(kids[k])], tree.kids[topic(p)])
                 /\ \A k \in DOMAIN kids : Parent(data, kids[k]) = {p}
                 /\ data.item[p].level = tree.level[topic(p)]
                 /\ Body(data, p) =
                      [length |-> tree.len[topic(p)],
                       of |-> IF tree.len[topic(p)] = 0 THEN {} ELSE {topic(p)}]
=============================================================================
