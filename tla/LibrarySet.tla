----------------------------- MODULE LibrarySet -----------------------------
(***************************************************************************)
(* LibrarySet of dec-hlp/src/engine.rs: libraries are added one after the  *)
(* other, and the set answers lookups as if it were one tree in which the  *)
(* first library to define a level-1 name keeps it.                        *)
(***************************************************************************)
EXTENDS Engine

CONSTANTS Library,   \* the roots of the libraries that may be added
          Path,      \* the paths of words that may be asked for
          MaxLibs    \* bound on the number of add() calls

ASSUME LibraryAssumption ==
  /\ Library \subseteq {n \in Node : Parent[n] = NoNode}
  /\ Path \subseteq Seq(Seq(Char))
  /\ MaxLibs \in Nat
  /\ ParentsEnd

VARIABLES libs,      \* the roots, in the order they were added
          answer     \* what the last resolve() returned, while it is borrowed

setVars == <<libs, answer>>

NoAnswer == [kind |-> "NoAnswer"]

SetInit == libs = <<>> /\ answer = NoAnswer

\* add() needs the set to itself, so no result is borrowed from it then.
Add(lib) ==
  /\ answer = NoAnswer
  /\ Len(libs) < MaxLibs
  /\ libs' = Append(libs, lib)
  /\ UNCHANGED answer

Ask(path, mode) ==
  /\ answer = NoAnswer
  /\ answer' = [kind |-> "Answer", path |-> path, mode |-> mode,
                result |-> LibResolve(libs, path, mode)]
  /\ UNCHANGED libs

\* The caller lets go of the result.
Drop ==
  /\ answer # NoAnswer
  /\ answer' = NoAnswer
  /\ UNCHANGED libs

SetNext ==
  \/ \E lib \in Library : Add(lib)
  \/ \E path \in Path, mode \in MatchMode : Ask(path, mode)
  \/ Drop

SetSpec == SetInit /\ [][SetNext]_setVars
-----------------------------------------------------------------------------
(***************************************************************************)
(* What the answers promise.                                               *)
(***************************************************************************)
\* The tree the set stands for: of every level-1 name the topic of the first
\* library that has it, and within that library the first of that name.
Owners ==
  {n \in Node : \E i \in DOMAIN libs : \E k \in DOMAIN Children[libs[i]] :
     /\ Children[libs[i]][k] = n
     /\ \A j \in 1..(i - 1) :
          \A c \in Kids(libs[j]) : NameUpper[c] # NameUpper[n]
     /\ \A m \in 1..(k - 1) :
          NameUpper[Children[libs[i]][m]] # NameUpper[n]}

\* A pattern matches a name when the name can be cut into one piece for each
\* character of the pattern: any piece for *, one character for % and for itself.
Cuts(pat, cand) ==
  \E cut \in [1..(Len(pat) + 1) -> 1..(Len(cand) + 1)] :
    /\ cut[1] = 1 /\ cut[Len(pat) + 1] = Len(cand) + 1
    /\ \A i \in DOMAIN pat :
         IF pat[i] = Star THEN cut[i] <= cut[i + 1]
         ELSE /\ cut[i + 1] = cut[i] + 1
              /\ pat[i] = Percent \/ pat[i] = cand[cut[i]]

\* What one word may lead to among a set of nodes, said without any order
Meant(nodes, word, mode) ==
  LET up == ToAsciiUppercase(word)
      equal == {n \in nodes : NameUpper[n] = up}
  IN  IF word = <<>> THEN {}
      ELSE IF IsWildcard(up) THEN {n \in nodes : Cuts(up, NameUpper[n])}
      ELSE IF equal # {} \/ mode = Exact THEN equal
      ELSE {n \in nodes : IsPrefix(up, NameUpper[n])}

Asked == answer.kind = "Answer" /\ answer.path # <<>>

\* The first word of every answer is decided on the merged tree: a topic is
\* found exactly when the word means one topic of that tree (and is no
\* pattern), a choice is offered exactly of what it means, and "not found"
\* says that it means nothing.  About the three search loops of lookup_root()
\* and their two ways of removing duplicates.
FirstWordOnMergedTree ==
  Asked => LET word == Head(answer.path)
               meant == Meant(Owners, word, answer.mode)
               r == answer.result
           IN  /\ r.kind = "AmbiguousAt" /\ r.depth = 0 =>
                    /\ r.nodes = meant /\ meant # {}
                    /\ IsWildcard(word) \/ Cardinality(meant) > 1
               /\ r.kind = "NotFoundAt" /\ r.depth = 0 =>
                    meant = {} /\ r.available = Owners
               /\ (r.kind = "Found" \/ r.depth > 0) =>
                    Cardinality(meant) = 1 /\ ~ IsWildcard(word)

\* A failure is reported at the first word that fails: the words before it
\* lead to a topic, and with that word added they fail at the same depth.
\* About the depth that adjust_depth() corrects for a set of libraries.
DepthIsOfFirstFailure ==
  Asked /\ answer.result.kind # "Found" =>
    LET d == answer.result.depth
        before == SubSeq(answer.path, 1, d)
        upto == SubSeq(answer.path, 1, d + 1)
    IN  /\ d < Len(answer.path)
        /\ d > 0 => LibResolve(libs, before, answer.mode).kind = "Found"
        /\ LibResolve(libs, upto, answer.mode) = answer.result

\* The names from the root down to a topic that was found lead back to it, in
\* either mode, unless one of them holds a wildcard: the interactive session
\* stands on this when it keeps a path of names instead of nodes.
FoundTopicsAreAddressable ==
  Asked /\ answer.result.kind = "Found" =>
    LET names == NamesTo[answer.result.node]
    IN  (\A i \in DOMAIN names : ~ IsWildcard(names[i])) =>
          \A mode \in MatchMode :
            LibResolve(libs, names, mode) = answer.result

\* Adding a library never changes which topic a full name leads to, and never
\* takes away what a pattern showed: the libraries added first have precedence.
\* An empty name is no full name: nobody can ask for it.
EarlierLibrariesKeepTheirNames ==
  [][\A n \in Owners : n \in Owners' /\
       (NameUpper[n] = <<>> \/ IsWildcard(NameUpper[n]) \/
          LibResolve(libs', <<NameUpper[n]>>, Exact) = Found(n))]_setVars
=============================================================================
