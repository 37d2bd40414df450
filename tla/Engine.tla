------------------------------- MODULE Engine -------------------------------
(***************************************************************************)
(* The stateless half of dec-hlp/src/engine.rs: looking one word up among  *)
(* the children of a node, among the level-1 topics of several libraries,  *)
(* and resolving a path of words.  A NodeRef is a value of Node; a library *)
(* is named by its root node.                                              *)
(***************************************************************************)
EXTENDS Matching, FiniteSets, FiniteSetsExt

CONSTANTS Node,       \* the NodeRefs of every library
          NoNode,     \* "no parent": offset 0 in the record of a root
          Children,   \* Children[n]: the child table of n, in its order
          Parent,     \* Parent[n]: the parent recorded in n, or NoNode
          NameUpper   \* NameUpper[n]: the folded name stored in n's record

Kids(n) == ToSet(Children[n])

\* The trees are those a build writes: child tables and parent links agree.
ASSUME NodeAssumption ==
  /\ NoNode \notin Node
  /\ Children \in [Node -> Seq(Node)]
  /\ Parent \in [Node -> Node \cup {NoNode}]
  /\ NameUpper \in [Node -> Seq(Char)]
  /\ \A n, c \in Node : c \in Kids(n) <=> Parent[c] = n
  /\ \A n \in Node : ToAsciiUppercase(NameUpper[n]) = NameUpper[n]

\* Every walk over parent() ends: no nodes have all their parents among them.
ParentsEnd == \A S \in SUBSET Node : S # {} => \E n \in S : Parent[n] \notin S

\* The names from below the root down to n, as a walk over parent() finds them
NamesTo[n \in Node] ==
  IF Parent[n] = NoNode THEN <<>> ELSE Append(NamesTo[Parent[n]], NameUpper[n])

\* MatchMode
Exact == "Exact"
Abbreviation == "Abbreviation"
MatchMode == {Exact, Abbreviation}

\* LookupResult, and ResolveResult with the depth of the word that failed
Found(n) == [kind |-> "Found", node |-> n]
Ambiguous(S) == [kind |-> "Ambiguous", nodes |-> S]
NotFound == [kind |-> "NotFound"]
AmbiguousAt(d, S) == [kind |-> "AmbiguousAt", depth |-> d, nodes |-> S]
NotFoundAt(d, S) == [kind |-> "NotFoundAt", depth |-> d, available |-> S]

\* Mutant: nothing counts as an exact match.
NeverEqual(list, up) == {}

\* The entries of a list of nodes whose name passes each comparison
Equal(list, up) == {i \in DOMAIN list : NameUpper[list[i]] = up}
Prefixed(list, up) == {i \in DOMAIN list : IsPrefix(up, NameUpper[list[i]])}
Globbed(list, pat) ==
  {i \in DOMAIN list : WildcardMatch(pat, NameUpper[list[i]])}

\* The nodes at these entries: every one of them, or the first of each name.
All(list, S) == {list[i] : i \in S}
FirstOfEachName(list, S) ==
  {list[i] : i \in {k \in S : ~ \E j \in S :
                      j < k /\ NameUpper[list[j]] = NameUpper[list[k]]}}

Chosen(list, S, which) ==
  IF which = "Distinct" THEN FirstOfEachName(list, S) ELSE All(list, S)

\* A word without wildcards: an equal name first, then a unique abbreviation.
LookupWord(list, which, up, mode) ==
  LET matches == Chosen(list, Prefixed(list, up), which)
  IN  IF Equal(list, up) # {} THEN Found(list[Min(Equal(list, up))])
      ELSE IF mode = Exact \/ matches = {} THEN NotFound
      ELSE IF \E n \in matches : matches = {n}
           THEN Found(CHOOSE n \in matches : TRUE)
           ELSE Ambiguous(matches)

\* A pattern is Ambiguous as soon as it matches at all, in either mode.
LookupIn(list, which, input, mode) ==
  LET up == ToAsciiUppercase(input)
      matches == Chosen(list, Globbed(list, up), which)
  IN  IF input = <<>> THEN NotFound
      ELSE IF ~ IsWildcard(up) THEN LookupWord(list, which, up, mode)
      ELSE IF matches = {} THEN NotFound ELSE Ambiguous(matches)

Lookup(parent, input, mode) == LookupIn(Children[parent], "All", input, mode)

\* The level-1 topics of the libraries, in the order the libraries were added
RootTopics(libs) == FlattenSeq([i \in DOMAIN libs |-> Children[libs[i]]])

\* Mutant: the libraries are searched in the reverse of the order of add().
LastLibraryFirst(libs, input, mode) ==
  LookupIn(RootTopics(Reverse(libs)), "Distinct", input, mode)

LookupRoot(libs, input, mode) ==
  LookupIn(RootTopics(libs), "Distinct", input, mode)

RootTopicNames(libs) ==
  FirstOfEachName(RootTopics(libs), DOMAIN RootTopics(libs))

\* One turn of the loop of resolve(): what was found before and one word more
ResolveWord(before, word, depth, mode) ==
  LET r == Lookup(before.node, word, mode)
  IN  IF before.kind # "Found" THEN before
      ELSE IF r.kind = "Found" THEN r
      ELSE IF r.kind = "Ambiguous" THEN AmbiguousAt(depth, r.nodes)
      ELSE NotFoundAt(depth, Kids(before.node))

\* from[d]: what the loop holds after d words of path
Resolve(root, path, mode) ==
  LET from[d \in 0..Len(path)] ==
        IF d = 0 THEN Found(root)
        ELSE ResolveWord(from[d - 1], path[d], d - 1, mode)
  IN  from[Len(path)]

\* Mutant: the depth stays that within the rest of the path.
DepthNotAdjusted(r, offset) == r

AdjustDepth(r, offset) ==
  IF r.kind = "Found" THEN r ELSE [r EXCEPT !.depth = @ + offset]

LibResolve(libs, path, mode) ==
  IF path = <<>>
  THEN IF libs = <<>> THEN NotFoundAt(0, {}) ELSE Found(Head(libs))
  ELSE LET r == LookupRoot(libs, Head(path), mode)
       IN  IF r.kind = "Found"
           THEN AdjustDepth(Resolve(r.node, Tail(path), mode), 1)
           ELSE IF r.kind = "Ambiguous" THEN AmbiguousAt(0, r.nodes)
           ELSE NotFoundAt(0, RootTopicNames(libs))
=============================================================================
