------------------------------ MODULE SeenPages -----------------------------
(***************************************************************************)
(* The cache of viewed man pages, ~/.config/hlp/seen.yaml, shared by every *)
(* run of hlp of one user: SeenPages of hlp/src/main.rs.  Each run reads   *)
(* the whole file once, at its start, and writes the whole file after each *)
(* page it shows.  The file is a sequence of tokens: the parts of names,   *)
(* colons, sections and ends of lines; blanks and quotes are left out.     *)
(***************************************************************************)
EXTENDS Naturals, Sequences, SequencesExt, FiniteSets, FiniteSetsExt, Functions

CONSTANTS Proc,      \* the runs of hlp that may be going on at one time
          Page,      \* the names of man pages, in lower case
          Part,      \* the tokens names are made of
          MaxPages,  \* bound on the pages shown, over all runs
          MaxRuns    \* bound on the runs of hlp

Colon == ":"
NewLine == "\n"
Comment == "#"
Section == "1"

ASSUME PageAssumption ==
  /\ Page \subseteq Seq(Part \cup {Colon}) \ {<<>>}
  /\ Part \cap {NewLine, Comment, Section, Colon} = {}
  /\ MaxPages \in Nat /\ MaxRuns \in Nat

VARIABLES yaml,      \* the file, token by token
          entries,   \* SeenPages::entries of each run: a value for each name
          saving,    \* what each run is in the middle of writing, if it is
          running,   \* the runs going on
          viewed,    \* the pages shown so far, by any run
          shown,     \* how many pages were shown
          runs,      \* how many runs there have been
          mixed      \* whether two runs were ever saving at one time

seenVars == <<yaml, entries, saving, running, viewed, shown, runs, mixed>>

NotSaving == <<>>
-----------------------------------------------------------------------------
\* parse(): a line begins where the file does and after each end of a line, and
\* goes up to the next; the last one may lack its end.
Begins(f) == {i \in DOMAIN f : i = 1 \/ f[i - 1] = NewLine}
EndOf(f, i) == Min({j \in i..Len(f) : f[j] = NewLine} \cup {Len(f) + 1})
LineAt(f, i) == SubSeq(f, i, EndOf(f, i) - 1)

FirstColon(l) == Min({i \in DOMAIN l : l[i] = Colon} \cup {Len(l) + 1})
Key(l) == SubSeq(l, 1, FirstColon(l) - 1)

\* Mutant: a line without a colon counts, as a name of no section.
AnyLine(l) == l # <<>> /\ l[1] # Comment

\* split_once(':'), with something left on both sides of it
IsEntry(l) ==
  l # <<>> /\ l[1] # Comment /\ FirstColon(l) \in 2..(Len(l) - 1)

\* Mutant: the value begins with the colon.
ValueWithColon(l) == SubSeq(l, FirstColon(l), Len(l))

Value(l) == SubSeq(l, FirstColon(l) + 1, Len(l))

EntriesIn(f) == {i \in Begins(f) : IsEntry(LineAt(f, i))}
LinesOf(f, k) == {i \in EntriesIn(f) : Key(LineAt(f, i)) = k}

\* A later line replaces the value of an earlier one.
Parse(f) ==
  [k \in {Key(LineAt(f, i)) : i \in EntriesIn(f)} |->
     Value(LineAt(f, Max(LinesOf(f, k))))]

\* save(): what is written, the names in a fixed order
Entry(name, value) == name \o <<Colon>> \o value \o <<NewLine>>
Content(e) ==
  LET names == SetToSeq(DOMAIN e)
  IN  <<Comment, NewLine>> \o
      FlattenSeq([k \in DOMAIN names |-> Entry(names[k], e[names[k]])])

\* Written from the start of a file that another run may have written to since
Overlay(c, f) == c \o SubSeq(f, Len(c) + 1, Len(f))
-----------------------------------------------------------------------------
SeenInit ==
  /\ yaml = <<>> /\ entries = [p \in Proc |-> <<>>]
  /\ saving = [p \in Proc |-> NotSaving] /\ running = {}
  /\ viewed = {} /\ shown = 0 /\ runs = 0 /\ mixed = FALSE

\* load(): a file that cannot be read is as good as an empty one.
Start(p) ==
  /\ p \notin running /\ runs < MaxRuns
  /\ running' = running \cup {p} /\ runs' = runs + 1
  /\ entries' = [entries EXCEPT ![p] = Parse(yaml)]
  /\ UNCHANGED <<yaml, saving, viewed, shown, mixed>>

\* add(), and save() as far as it changes nothing that others see
Add(p, page) ==
  /\ p \in running /\ saving[p] = NotSaving /\ shown < MaxPages
  /\ entries' = [entries EXCEPT ![p] =
                   [n \in DOMAIN @ \cup {page} |->
                      IF n = page THEN <<Section>> ELSE @[n]]]
  /\ viewed' = viewed \cup {page} /\ shown' = shown + 1
  /\ UNCHANGED <<running, runs>>

\* Mutant: the file is written over, not emptied first.
ShowNoTruncate(p, page) ==
  /\ Add(p, page)
  /\ saving' = [saving EXCEPT ![p] = Content(entries'[p])]
  /\ mixed' = (mixed \/ \E q \in Proc : saving[q] # NotSaving)
  /\ UNCHANGED yaml

\* fs::write() has opened the file, which empties it.
Show(p, page) ==
  /\ Add(p, page)
  /\ yaml' = <<>>
  /\ saving' = [saving EXCEPT ![p] = Content(entries'[p])]
  /\ mixed' = (mixed \/ \E q \in Proc : saving[q] # NotSaving)

\* No HOME, no directory, or the file cannot be opened: nobody is told.
ShowUnsaved(p, page) ==
  /\ Add(p, page)
  /\ UNCHANGED <<yaml, saving, mixed>>

\* write_all() has done what it could; an error is ignored.
Write(p, n) ==
  /\ saving[p] # NotSaving
  /\ yaml' = Overlay(SubSeq(saving[p], 1, n), yaml)
  /\ saving' = [saving EXCEPT ![p] = NotSaving]
  /\ UNCHANGED <<entries, running, viewed, shown, runs, mixed>>

WriteAll(p) == Write(p, Len(saving[p]))
WriteSome(p) == \E n \in 0..(Len(saving[p]) - 1) : Write(p, n)

\* The run ends, or is killed wherever it is.
Exit(p) ==
  /\ p \in running
  /\ running' = running \ {p}
  /\ saving' = [saving EXCEPT ![p] = NotSaving]
  /\ entries' = [entries EXCEPT ![p] = <<>>]
  /\ UNCHANGED <<yaml, viewed, shown, runs, mixed>>

SeenNext ==
  \E p \in Proc :
    \/ Start(p) \/ WriteAll(p) \/ WriteSome(p) \/ Exit(p)
    \/ \E page \in Page : Show(p, page) \/ ShowUnsaved(p, page)

SeenSpec == SeenInit /\ [][SeenNext]_seenVars
-----------------------------------------------------------------------------
\* As long as no two runs save at one time, the cache names only pages that
\* were viewed, wherever a run was killed or a disk was full in the middle of
\* save(): a name that was cut has lost its colon and is passed over.
OnlyViewedPages ==
  ~ mixed => /\ DOMAIN Parse(yaml) \subseteq viewed
             /\ \A p \in Proc : DOMAIN entries[p] \subseteq viewed

\* Whatever has happened to the file, also by two runs that wrote into it at
\* one time, loading and saving it does no further damage.
DamageDoesNotSpread == Parse(Content(Parse(yaml))) = Parse(yaml)

\* "Previously viewed man pages are remembered in ~/.config/hlp/seen.yaml"
\* (README.md): a save that no other run was in the way of keeps every page
\* this run knows, and the next run will read back exactly those.
SaveIsReadBack ==
  [][\A p \in Proc : WriteAll(p) /\ ~ mixed => Parse(yaml') = entries[p]]_seenVars
=============================================================================
