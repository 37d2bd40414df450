# dec-hlp in TLA+

`dec-hlp` is the VMS HELP system in Rust: `.hlp` sources are compiled into
indexed `.hlib` files, and topics are looked up in them by abbreviated and
wildcarded words, from the interactive program `hlp`, from C and from Python.
This directory models it in TLA+, checks the models with TLC and proves theorems
about them with TLAPS. Every definition is translated from the Rust code;
`PROJECT.json` names the lines each of them stands for.

    tlc -config MCSource.cfg MCSource      # model-check
    tlapm SourceProofs.tla                 # check the proofs

A definition with the comment `Mutant:` is not part of any model. It is a
plausible bug, to be put in the place of the definition it precedes: every
property of every passing run fails for at least one of them.

## The system

| Component | Source | State | Operations |
|---|---|---|---|
| Source parser | `dec-hlp/src/source.rs` | raw topics, body lines collected, stack of open topics | `parse`, `parse_file`, `dedup_topics`, `merge` |
| Builder | `dec-hlp/src/builder.rs` | flattened nodes, offsets; the output file | `build`, `build_to_writer` |
| Library reader | `dec-hlp/src/library.rs`, `binary.rs` | the mapped file, its header | `open`, `root`, `children`, `parent`, `body_bytes` |
| Lookup engine | `dec-hlp/src/engine.rs` | `LibrarySet`: libraries in the order added | `lookup`, `resolve`, `LibrarySet::{add, lookup_root, resolve}` |
| Navigator | `dec-hlp/src/engine.rs` | stack of nodes | `input`, `go_up`, `descend`, `reset` |
| `hlp`, browsing | `hlp/src/main.rs` | path of names, current node, output writer, exit code | `run_browse`, `load_libraries`, `run_interactive` |
| Builds | `hlp/src/main.rs`, `dec-hlp-ffi`, `dec-hlp-python` | parsed trees; the output file | `run_build`, `dechlp_build`, Python `build` |
| Topic names | `source.rs`, `builder.rs`, `library.rs` | none | `parse_header_line`, `make_name_field`, `null_terminated_str` |
| Seen pages | `hlp/src/main.rs` | names of man pages, in memory and in `seen.yaml` | `load`, `add`, `save` |
| C interface | `dec-hlp-ffi/src/lib.rs` | handles, owned strings, a message per thread | the `dechlp_*` functions |
| Python bindings | `dec-hlp-python/src/lib.rs` | counted references to libraries, Navigators | the methods of `Library` and `Navigator` |
| Command line | `hlp/src/main.rs` | none | `clap` table, flag conflicts |

**How they interact.** `run_build` and `dechlp_build` call the parser once per
file, merge, and hand the tree to the builder, which writes the file front to
back. A reader maps a finished file; node references are offsets into the map.
The engine reads nodes only. A Navigator is the engine plus a stack over one
library. `hlp` does *not* use Navigator: it keeps a path of names and resolves it
again in a `LibrarySet` at each step, falling back on `man`. The C interface
wraps library and Navigator in handles, Python wraps them in objects and copies
every answer. Files (`.hlib`, `seen.yaml`) are shared between processes without
locks: any build may empty or overwrite a library that others read or build.

**What is hard.** The parser, builder, engine and session are sequential, so
their hazards are long sequences of legal steps and agreement between two parts
that never check each other: the parser's second phase relies on the first one's
level check; the builder fixes offsets in one walk and writes in another; the
session's names must keep leading to the session's node; three loops over the
libraries must agree on precedence; the parser measures a name as it is written,
the builder cuts it in capitals, the reader folds what is typed in a third way.
Files add crashes and partial writes; builds and `seen.yaml` add concurrent
processes; the C interface adds threads, handle reuse and ownership, Python
objects that are dropped in any order. `PROJECT.json` lists each hazard at its line, with the properties
that cover it or the reason none does.

## The modules

    Matching <- Engine <- LibrarySet                         <- LookupProofs
                       <- Navigator  (implements TreeCursor) <- LookupProofs
                       <- Session    (implements TreeCursor) <- SessionProofs
                       <- Ffi                                <- FfiProofs
             <- TopicNames, with Engine <- Python            <- PythonProofs
    Builder <- Library <- HlibFile                           <- HlibFileProofs
    Source                                                   <- SourceProofs
    Building                                                 <- BuildingProofs
    SeenPages

Every module of proofs about nodes also extends EngineProofs, which extends Engine.

**Matching, Engine** are the pure part of `engine.rs`. A node is a value of
`Node`; `Children`, `Parent` and `NameUpper` are what its record holds; a library
is named by its root. `Lookup`, `LookupRoot`, `Resolve` and `LibResolve` are the
functions of the same names; the Rust loops that look for an exact name, then for
abbreviations or pattern matches, become sets of positions in a list. Strings are
sequences of characters of a small alphabet. `NodeAssumption` says that child
tables and parent links agree, which is what `ReadsBackTheTree` says of built
files.

**LibrarySet** adds libraries in any order and asks them. An answer borrows the
set, so `Add` has to wait until it is dropped.

**Navigator** has one action per method; `Input` has its three branches (empty,
`?`, a word). `descend()` compares offsets, hence the constant `Offset`, which is
unique within one library only.

**TreeCursor** is the abstract specification of browsing: a cursor on a tree that
stays, goes down to a child, up to the parent, or home to the top where that is
allowed. Navigator and Session implement it under the refinement mappings
`Cursor`.

**Session** is one run of `hlp` from the libraries to the exit code:
`run_browse` is `BrowseFails`, `BrowseTopic` and `BrowseRoot`, each turn of the
loop of `run_interactive` is one of the `Read...` actions. `out` follows what was
shown through the `BufWriter` of `run_browse` (`buffer`) to the terminal
(`screen`) or to the file of `--output` (`file`), because topics shown later and
`man` bypass that writer. `Save` is best effort as in the code, which ignores every
error of `SeenPages::save`: it leaves `seenFile` as it is, or leaves in it any part of
what the session remembers.

**Source** reads files line by line (phase 1), folds the topics into trees with a
stack (phase 2) and merges. A header is a level and a name.

**Builder, Library, HlibFile.** `Image(tree)` is the list of the `write_all()`
calls with sizes and contents, offsets in `u32` and counts in `u16` arithmetic;
where an item really lies follows from the sizes before it, not from the offset
it was promised. The level in a record is the one the tree carries, as it is in
`builder.rs:324`. `Library` reads a file that holds a beginning of an image.
`HlibFile` is one file that is built again and again by builds that may stop
after any number of bytes, and opened in between.

**Building** is what HlibFile leaves out: several builds at one time, from the
command line of `hlp`, from C or from Python, and processes that map the files. A
build is refused for its arguments (`Begin`), reads its inputs one by one
(`ReadInput`), empties the output file (`Create`), writes it block by block
(`Write`, each at the place this build has come to, whatever is there) and reports
(`Finish`); it may fail or be killed at each point. A file is a sequence of blocks, one
to a `write()`; `Image` has one more block than the tree has topics, which is
enough for two trees to differ in length, and the first block holds the header.
`authors` and `settled` are history: who has made a file what it is.

**TopicNames** follows a name from a header line (`IsHeader`, `HeaderName`,
`Accepted`) into the name fields (`NameField`, bytes of characters, so that a cut
inside a character shows) and out again (`FromField`).

**Python** has one action per method of `Library` and `Navigator` and for the end
of a variable. `Freed` is the rule of the interpreter: an object goes with the last
reference to it, and a Navigator holds one to its Library. `Answer` is
`engine::Navigator::input` with its `trim()`, which Navigator takes as done.

**SeenPages** is `seen.yaml` with several runs of `hlp`. `fs::write` is two
steps: the file is emptied, then written from its start, whatever another run has
put there meanwhile; either may be the last step of its run, and a write may be
cut short. The file is a sequence of tokens, so that cuts inside names happen.

**Ffi** has one action per call that changes a handle, an owned string or the
error slot. Each return of each function is `Answer` (the slot stays as
`clear_last_error` has left it) or `Complain` with the code and the message of that
line; a call is one step because no other thread sees its slot. A message is a list
of tokens, of which NUL is one; `SetLastError` keeps the empty message for one with
a NUL, `Refuse` stands for the arguments that are refused before anything else,
`CaughtPanic` for `catch`. A string is its characters with terminators and the size of its
block. Callers keep to `dec_hlp.h`: live handles only, one thread per handle at a
time, navigators destroyed before their library, no build over a file that is
open.

## What the runs check

| Run | States | Bounds | Why they are enough |
|---|---|---|---|
| `library_set` | all orders of up to 3 `add()` calls of 3 libraries | words of up to 3 of 5 characters, paths of up to 2 words | a level-1 name that is exact in one library, an abbreviation in another and a duplicate within a third; an empty name; patterns with both wildcards, adjacent and at either end |
| `navigator` | the whole state space | 9 nodes, lines of up to 2 characters | a child with its parent's name, twins, a name that is a pattern, depth 3 |
| `session` | 107 thousand | 2 libraries that open and one that does not, 8 command lines by all settings, at most 2 things shown | clashes between libraries, twins, man pages with and without a topic of the name; two things shown are what buffer and screen need to get out of order |
| `source` | all pairs of files | 5 lines in all, 3 levels, one name in two spellings and one too long | every shape of outline of up to 5 topics, duplicates within and across files |
| `hlib_file` | 18 thousand | trees of up to 4 topics, and of 6 topics whose records alone pass the widest offset; cuts at and around every edge of an item and the size left in the header | tables with and without padding, bodies of length 0, wrapped offsets, counts and sizes |
| `seen_pages` | 18 thousand | 2 runs at a time, 3 in all, 4 pages shown | two saves overlap, a run is killed, a third reads what is left |
| `building` | 99 thousand | 2 builds of 9 commands, 2 files, 1 reader, trees of 1 and 2 topics | two builds of the same and of different trees and lengths overlap at every block; one source given twice; an input that does not parse, no topics, no inputs, browsing options |
| `python` | 21 thousand up to symmetry | 2 Library and 2 Navigator objects, 3 source files, 18 topics, name fields of 4 bytes and a terminator | names that just fit and just do not, in lower case and in capitals; cut at and inside a character; empty, `?`, a pattern, with a NUL; a library shared by two Navigators and dropped |
| `ffi` | 100 thousand up to symmetry | 2 threads, 2 files, 2 libraries, 1 navigator, 1 owned string | every way out of every function with a code, after every other; a message of another thread, a handle used again for another library, a navigator beside a library it does not belong to |

**Properties.**
- *Precedence and addressing* (`library_set`). `FirstWordOnMergedTree` compares the
  three loops of `lookup_root` with a lookup in one merged tree;
  `DepthIsOfFirstFailure` is about the corrected depth of a failure;
  `FoundTopicsAreAddressable` says that the names down to a topic lead back to it,
  the fact the session stands on; `EarlierLibrariesKeepTheirNames` says that
  another library never takes a full name away.
- *Place* (`navigator`, `session`). `StackIsPath`, `RepliesAreAboutHere`,
  `GoUpThenNameReturns`, `PathLeadsToCurrent`, and the refinements
  `NavigatorIsCursor` and `SessionIsCursor`.
- *Output* (`session`). `EverythingArrives`: what was shown arrives once, although
  the program leaves through `process::exit`. `ExitTellsWhatHappened` is
  about the exit code, `PagesOnlyWithoutTopic` about the man fallback: a page is shown
  only for a word no library knows, is offered for the rest of the session, and the
  file, which may lag behind, names no page that the session does not know.
- *Parsing* (`source`). `TreesAreTheOutline` and `BodiesAreTheText` give the result
  directly in terms of the lines, the latter without the empty ones at the end of a
  body; `StackIsALineOfDescent` is why phase 2 needs no
  check; `RefusedAtFirstBadHeader`; `LastDefinitionWins` says that two passes of
  `dedup_topics` are as good as one; `AssemblyEnds` is liveness.
- *Files* (`hlib_file`). `OnlyCompleteFilesOpen`: what opens has the size that the
  header records; `SuccessfulBuildOpens` and `ReadsBackTheTree`, both for trees that
  fit the fields of the format.
- *Cache* (`seen_pages`). `OnlyViewedPages` while saves do not overlap,
  `DamageDoesNotSpread` always, `SaveIsReadBack` for a save nobody interfered
  with, for names without colons.
- *Builds* (`building`). `SuccessMeansWhole`: if all who wrote a file report success
  and wanted the same, the file is a whole library with the last definition of each
  name, however they overlapped. `ReadersGetOneLibrary`: a reader of a file with
  one author gets all of one library or none. `ReadersKeepTheirLibrary`: what a
  reader has mapped stays until a build has parsed all its inputs, so a refused
  build is harmless. `LibraryComesBack`: a file that was emptied opens again.
- *Names and objects* (`python`). `NavigatorsKeepTheirLibrary`: no order of dropping
  objects leaves a Navigator without its library, and none is kept for nobody.
  `NamesAsWritten`: a name comes out whole and spelled as in the source.
  `OfferedNamesLeadOn`: an offered name that is ASCII, or its capitals if they fit the
  field, leads to a topic of that name.
- *C interface* (`ffi`). `ErrorIsOfLastCall`: the message a thread reads is one
  that goes with the code its last call returned, and none after a success, whatever
  other threads called; only a build that failed may have lost its message.
  `NavigatorsStayInTheirLibrary`, `NamesReadBack`.

`CHECK_DEADLOCK FALSE` is set where the system ends: a session exits, a build is
merged or refused, all runs of `hlp` or all builds allowed for are over. In the
`ffi` run threads, libraries and files are declared symmetric, in the `python` run
the objects: no definition tells one from another, and neither run checks
liveness.

**Fairness.** Everything is safety except `AssemblyEnds` and `LibraryComesBack`.
The first assumes weak fairness of the steps of phase 2 (`Pop`, `Push`, `Flush`,
`FinishFile`), the second of the regular steps of each build (`ReadInput`,
`Create`, `Write`, `Finish`). Both are straight-line code and loops that wait for
nobody, so as long as the process runs the next step is taken; that it fails or is
killed instead is allowed and is one of the outcomes of `LibraryComesBack`. Nothing
is assumed of users, readers or when a build begins.

### What does not hold

Three runs end in a counterexample on purpose, each a disagreement between the
code and what is said about it (`findings` in `PROJECT.json`):

- `session_order`: with `--no-pager` on a terminal the topic asked for stays in the
  `BufWriter` of `run_browse` while the session writes later topics to the terminal
  directly; it appears when the buffer fills or at exit.
- `seen_colon`: a page whose name holds a colon, such as `File::Spec`, is read back
  from `seen.yaml` as `file`.
- `ffi_free`: a list of names is allocated as a `Vec` and freed as a `CString`, with
  different sizes.

More disagreements were met and have no run, mostly because one look at the line
settles them:

- `Navigator::descend` takes a node of another library if its record lies at the
  offset of a child (`engine.rs:407`), though its comment (`engine.rs:401`) asks for
  a child. The theorems on paths therefore assume that callers hand over nodes of
  the same library (`Handed \subseteq Own`).
- `*` at the prompt of `hlp` is answered with "topic * is ambiguous" instead of the
  topics (`main.rs:522`, `docs/cli-specification.md:194`).
- Below a topic whose name holds `*` or `%` an empty line leads to the top of the
  session, because the name is taken for a pattern when the path is resolved again
  (`main.rs:463`, `docs/cli-specification.md:192`). In the `session` run one such
  name belongs to a topic without subtopics, where nobody can stand below it;
  `SessionImplementsCursor` has that as its hypothesis.
- A name outside ASCII is not found as it is written, only in capitals
  (`engine.rs:125` against `builder.rs:323`), although the lookup is described as
  case-insensitive (`README.md:220`).
- The capitals of a name may be longer than the name that was checked
  (`source.rs:207`): they are cut to the field, and read as empty when the cut falls
  inside a character. Such a topic is listed, but not found by its name.
- A digit, a blank and white space of another kind (`1`, blank, form feed) make a
  topic with an empty name, though the name is "non-empty" (`source.rs:113`).
- When two builds overlap in one file and one of them is killed, the file may have
  the size its header says, and so open, with a hole or parts of both trees in it
  (`library.rs:217` compares no more than the size). `ReadersGetOneLibrary` and
  `SuccessMeansWhole` say what holds.
- Offsets and sizes wrap at 4 GiB in a build that does not check them: an image that
  is larger has its size modulo 2^32 in its header (`builder.rs:245`). The build
  succeeds, the whole file does not open, and a part of it of just that size may;
  `OnlyCompleteFilesOpen` says no more than that the two sizes are equal.
- A build that reports a write error may have completed the file, because the
  `BufWriter` writes once more when it is dropped (`WriteFails`).
- Man pages go to standard output whatever `--output` says (`main.rs:674`,
  `docs/cli-specification.md:54`).
- `--exact` still expands wildcards (`engine.rs:127-138`,
  `docs/cli-specification.md:58`).
- Exit code 4 is never returned: without libraries the session runs on man pages
  (`main.rs:184-187`, `docs/cli-specification.md:160`).
- Text is not stored verbatim, "blank lines ... preserved exactly"
  (`docs/spec-hlib-format.md:123`, also `docs/research-source-format.md:53`): the empty
  lines at the end of a body, those before the next header included, are dropped
  (`source.rs:340`). `BodiesAreTheText` says what does hold.
- A body is not followed by a terminator (`docs/spec-hlib-format.md:119`), although
  `dec-hlp-ffi/src/lib.rs:264` says so.
- A failure has a message (`dec_hlp.h:4-6`), but `set_last_error` keeps the empty text
  for a message that holds a NUL (`lib.rs:76`). A name that is too long and holds a NUL
  gets there: the parser quotes it (`source.rs:82-92`), and `dechlp_build` returns
  `DECHLP_ERR_BUILD` without a reason. `ErrorIsOfLastCall` allows this for that code
  alone.
- A list of names ends with one terminator, `docs/design-ffi-bindings.md:373` says
  two.
- `dechlp_last_error` is described as empty after a call that succeeded
  (`lib.rs:154`, `dec_hlp.h:71`). The calls without a return code (close, destroy,
  reset, free, the counts) leave it alone; and `dechlp_navigator_input` leaves a
  message with the codes `DECHLP_NAV_AMBIGUOUS` and `DECHLP_NAV_NOT_FOUND`, which are
  positive and so no errors. `ErrorIsOfLastCall` says what does hold.
- Of two runs of `hlp` the one that saves last drops the page the other one added;
  if the saves overlap, the rest of a name may be left as an entry of its own.

## What is proved

All of it by TLAPS, for every value of the constants that meets the named
assumptions, which TLC evaluates in the runs.

**How the inductions go.** The induction theorems of the library take an operator,
which no prover here can instantiate. Where an argument goes along a list, a path or
a pattern, the set of numbers or sequences for which the claim holds is named, and
`InductionOnNat` or `InductionOnSeq` (proved from `WFMin`) says that it is all of
them. What a recursive function returns is first shown to be some function that
solves the recursion, and then that there is only one (`PartialsAgree`,
`WalkUnique`, `SolutionIsOne`). That is how `FlattenSeq`, `Resolve`, `NamesTo` and
`WildcardMatch`, all defined with `CHOOSE` by the libraries or by TLA+ itself, become
usable. `SelectSeq` and `SetToSortSeq` stay opaque, so a model that is proved about
does not use them: `Dedup` filters with a recursive function of its own
(`FilteredIs`), and the builder sorts with `InOrder`, which chooses the arrangement
of a set that is in order.

- `EngineProofs`: `LookupFindsChild` and `LookupOffersChildren` for a list of
  children. `FoundIsAddressable`: what `resolve()` finds is found again, in every
  mode, by the full names on the way down. A topic found by a path of words is the
  child that its last word names below what the words before it found
  (`ResolveStep`, `LibResolveStep`); its own name finds it there, because an exact
  match wins over everything else and the first of a name was found the first time
  (`OwnNameLeadsBack`); so induction along the path applies. The names must not
  be patterns, since a pattern never finds by name. That parents end somewhere
  (`ParentsEnd`) makes `NamesTo` what it says.
- `LookupProofs` on `LibrarySet`, by the invariant `Answered` (the answer that is borrowed is what
  the set, which cannot grow meanwhile, answers): `FoundLeadsBack` is
  `FoundTopicsAreAddressable`, `FailureIsAtFirstWord` is `DepthIsOfFirstFailure`,
  `EarlierLibrariesFirst` the action property `EarlierLibrariesKeepTheirNames`, and
  `FirstWordDecidedOnce` is `FirstWordOnMergedTree`: the three loops of
  `lookup_root()` are one lookup. It goes by the topics whose name no earlier library
  has (`OwnersAreFirst`), which are the first of their name in the
  list of all level-1 topics. `MatchIsCut` says what `wildcard_match()` computes,
  for every pattern and name: whether the name can be cut into one piece for each
  character of the pattern. The attempt to prove `EarlierLibrariesFirst` showed that
  it is false of a topic with an empty name, which no lookup finds; the property now
  says so, and the run has such a topic.
- `LookupProofs` on `Navigator`: `TypeCorrect`, for any nodes handed to `descend`;
  `StackStaysPath`, `RepliesStayAboutHere` and `NavigatorImplementsCursor` for own
  nodes. The inductive invariant is `IsPath(stack)`. `StackIsPath` alone is not
  inductive: that the stack stays *within the library* is what makes equal offsets
  equal nodes (`NavigatorAssumption`). All actions are first reduced to four shapes
  of step (pushed, popped, cleared, nothing; `StepShapes`), and each shape keeps
  the invariant by a lemma of its own. The refinement follows from the same
  invariant, step by step.
- `SessionProofs`: all the properties of the session, on two invariants. `Placed`
  is about where it stands: the path is that of the node, and the node is one that a
  word led to from where the names above it lead (`Reached`). `PathLeadsToCurrent`
  alone says nothing of the names above, to which an empty line goes back.
  `PathAlwaysLeads` has no hypothesis about names;
  `SessionImplementsCursor` needs that topics with subtopics have no wildcards in
  their names, as described above. `Recorded` is about what was shown: everything
  counted in `shown` is counted once in `buffer`, `screen` or `file` (`Accounted`,
  with lemmas on counting in sequences), the buffer is empty when the program is
  done, each thing shown is one that the settings and the pages remembered
  allow (`MayShow`), and what is in the file is remembered too, since a save that
  fails or is cut takes from it and adds nothing. From it follow `SessionTypeCorrect`, `EverythingShownArrives`,
  `PagesOnlyForMissingTopics` and `ExitCodeTells`.
  The last part is about `SeenPages`, the other state of `main.rs`, for any number of
  runs. `DamageNeverSpreads`: what `parse()` makes of any text at all has names and
  values that `save()` writes so that they read back (`ReadIsReadable`,
  `EntryReadsBack`, `SavedReadsBack`, by induction over the lines, in whatever order
  they are written). `OnlyViewedAreSeen` and `SavesAreReadBack` rest on `SeenInv`: as
  long as no two runs have saved at one time, a run that saves is alone with an empty
  file and is writing what it remembers (`SavingAlone`), so that what is there after
  a write that was cut is a beginning of such a file; and a beginning of a file names
  no page that the file does not (`CutFileNamesNoOther`). These two have the
  hypothesis `NoColons`; without it they are false, as `seen_colon` shows.
- `SourceProofs`: all the safety properties of the parser, for any number of files,
  lines and levels. `StackStaysLineOfDescent` speaks of phase 2, its reason lies in
  phase 1, so the invariant `Inv` has to carry it across: `LevelsInSequence` (in the
  part of the list that belongs to the current file, levels start at 1 and grow by at
  most one) and `NextFitsStack` (the next topic belongs at most one level below the
  top of the stack). `TreesStayOutline` adds `Outline`: a topic on the stack is open,
  only deeper ones have come after it; every complete topic has found its place; what
  lies ahead has no children. When the stack is empty at the end, that is the
  property. `BodiesStayTheText` and `RefusalStaysAtFirstBadHeader` rest on
  `HeadersRead`: the headers of the file lie at ascending lines, one for each topic
  read, and the lines between two of them are the body of a topic; of the last one
  they are still being collected, and of a topic that has been assembled they are cut
  by empty lines only (`TrimmedIsBody`). So the level the parser remembers is that of
  the last header (`BadLineIsSeen`), and what it refuses is what is bad.
  `LastDefinitionStaysWinner`, on `LastDefinitions`: whatever a
  first pass drops, the last of each name is among what is left, so a second pass
  finds it (`FinishKeepsLast`, `MergeKeepsLast`).
- `BuildingProofs`: all the safety properties, for any finite number of builds, any number
  of readers and whatever the sources hold.
  `ReadersKeep`: of the property alone one cannot say what a build that creates
  a file does to it: the invariant `IInv` adds that an author of a file, now or in the
  memory of a reader, is past its inputs (`AuthorsPast`), so that the build that
  empties a file is always an author the reader did not find there; and that
  nobody writes a file whose authors are those the reader found (`Kept`), so that
  no other step touches it. Steps are again reduced to shapes: a build that goes on
  (`Onward`), one that writes, one that creates.
  `ReadersGetWholeLibraries` and `BuildsThatAgreeSucceed` need in addition what is in
  the files, `WInv`: with one author a file is a beginning of its image, as long as
  it has come (`OneAuthor`); with authors that all succeed, or still may, and want the
  same tree, each block is that of the tree or a hole, and *one* of the authors,
  the one that emptied the file last, finds there all it has written (`Agreed`). When
  they are all done, that one has written everything, and so there is no hole. `MapWhole`
  keeps the first for readers after the file has gone on. `MergedIsWanted` is what
  `merge_topics` computes, `MergedIsTree` that it is never empty for inputs that have
  topics. This proof showed an error of the model: a source named twice on
  the command line lost its topics. `LastOfEachName` now goes by places in
  the list as the code does, and the run has that command.
- `FfiProofs`: `NavigatorsStay` on `HInv` (each navigator in use has an open library,
  and its stack is a descent from the root of *that* library; a handle used again
  for another library is safe because callers destroy navigators first),
  `ErrorStaysOfLastCall`, return by return: what a complaint says goes with its
  code (`ComplaintsExplained`), an answer leaves the slot cleared
  (`AnswersExplained`), calls without a code change neither (`Quiet`), and of the
  messages only that of a parse error can be lost (`LostMessageExplained`).
  `NamesAlwaysReadBack`: a block of names is cut at its
  terminators into just those names (`BlockIsCut`, by induction over the names with
  `OneNameMore`). For this `FfiAssumption` says that no name holds a NUL: names are C
  strings here, and a name read from a record ends at its first NUL
  (`null_terminated_str`).
- `PythonProofs`: `NavigatorsKeep` on `PInv`: a Library is in memory exactly as long
  as a variable or a Navigator refers to it (`Counted`), and each stack is a descent
  from the root of its own library. `PythonTypeCorrect` and `NamesStayAsWritten` on
  `Copied`: what a result holds are copies of topics of trees that the parser takes.
  Levels grow with every step down (`LevelsGrow`), so walks up end (`WalksEnd`),
  `RootOf` is what it says, and no answer leaves a tree (`TreeIsClosed`,
  `AnswerStays`, `LibraryReads`). Of such a topic the name is the one in its header
  line, as far as a NUL (`AcceptedIsStored`): the bytes of a string that is no longer
  than a field leaves room for come back out of the field (`FieldReadsBack`), for
  every assignment of widths to characters. It uses
  `MAX_NAME_LENGTH < NAME_FIELD_SIZE`, the two constants of the code (31 and 32).
  `OfferedNamesAlwaysLeadOn` adds `Offered`: what a result offers are the names of
  children of the topic its object stands at. Such a name, typed in any of its
  spellings, has the capitals of the topic's name (`SpellingIsKept`). Longer
  capitals of a sibling may be cut in their field to the same ones; but the builder
  sorts by the whole capitals, so of those stored alike the one whose capitals just
  fit comes first (`StoredAlike`, `SpellingLeads`).
  For this `NamesAssumption` says what is true of `to_uppercase` and of strings: NUL
  is the least character, only NUL has capitals that hold one, and folding to ASCII
  capitals keeps the width of a character; `PythonAssumption` says that Library
  objects and Navigator objects are different objects.

- `HlibFileProofs`, on `FilesInv`: the file is a beginning of an image, all of it
  when the build reported success, and what is open was such a file and opened.
  `OnlyWholeFilesOpen` and `SuccessfulBuildsOpen` need to know what the first item of
  an image is and that phase 2, which only adds up the sizes it expects, arrives where
  phase 4 does, which writes the items. `Positions` are sums, and the lemmas are
  about them: of lists put together (`PositionsOfConcat`, `FlattenHasParts`), of
  tables with and without padding (`TableIs`), and modulo 2^32, since a
  cursor wraps at every step and a sum only at the end (`CursorIs`, `OffsetsAre`;
  for the padding `LimitAssumption` says that the limit is a multiple of 8).
  `TreeAssumption` says what a parser leaves: topics numbered in the order of the
  source, each below one other. Flattening ends because numbers grow downwards
  (`FlatteningExists`).
  `LibrariesReadBack` is `ReadsBackTheTree` for every tree that fits. It needs four
  things more. Every topic gets one record: a flattened subtree lists no topic twice
  (`FlatteningMakesSubtrees`), for the first topic that two of them shared would have two
  parents (`SubtreesAreApart`). Every record, table entry and text is where phase 2 said:
  what lies in a part of a list lies in the whole (`LiesWithin`), so each item is
  found at a sum of sizes (`RecordsAreFound`, `EntriesAreFound`, `TextsAreFound`),
  and what is found below 2^32 is at its offset (`FoundFits`). Nothing else is a record
  (`NodesAre`). And the sort has an outcome: any order on a finite set
  arranges it, since the place of a member is the number of those before it (`OrderExists`),
  so a table lists the subtopics by name and those of one name as they stood in the
  source (`TableIsSorted`, `ChildrenAre`).

The results of these eight modules are all the safety properties of the parser, the
engine, the sets of libraries, the navigators, the session, the file of viewed pages,
the builds, the library file, the C interface and the Python classes.

**Only model-checked.** Liveness (`AssemblyEnds`, `LibraryComesBack`), which is out
of reach of the prover, and `GoUpThenNameReturns`, which asks what the next method
would do.

## What is not modelled, and why

- *Command-line parsing* beyond the refusals of `--build`: a table, tested by
  `hlp/tests`. *`format_columns`*: layout only. *Examples and test data*.
- *Characters* everywhere but in TopicNames and Python: names in `Builder` are
  ranks, and the words of the other engine runs fold as the names do.
- *Files no builder wrote.* The checks of `open()` are in `Opens`, but the only
  files it meets are beginnings of images.
- *What a reader sees in a file that changes below it.* `Building` says when that
  may happen and when not; the reads of `Library`, `HlibFile` and `Ffi` keep to the contract of
  `library.rs:141`. `binary.rs` is byte access.
- *Errors of writing help text*, which `hlp` ignores.
- *A file of `seen.yaml` cut inside a character*, which does not load at all.

## Plan

Done: every component with state of its own, with the runs above, and the proofs of
all their safety properties but one. Next, in this order:

1. Writes of help text that fail, in `Session`.
2. Tampered and foreign files for `Opens` and `Children`.
