------------------------------ MODULE Navigator -----------------------------
(***************************************************************************)
(* Navigator of dec-hlp/src/engine.rs: the stack of NodeRefs from the root *)
(* of one library down to the topic the reader stands at.                  *)
(***************************************************************************)
EXTENDS Engine

CONSTANTS Root,     \* the root of the library browsed
          Own,      \* the nodes of that library
          Offset,   \* Offset[n]: where in its own library file n's record is
          Line,     \* trimmed lines the reader may type
          Handed    \* NodeRefs a caller may hand to descend()

QuestionMark == <<"?">>

ASSUME NavigatorAssumption ==
  /\ Root \in Own /\ Own \subseteq Node /\ Parent[Root] = NoNode
  /\ \A n \in Own : Kids(n) \subseteq Own
  /\ Offset \in [Node -> Nat]
  /\ \A m, n \in Own : Offset[m] = Offset[n] => m = n
  /\ Line \subseteq Seq(Char)
  /\ Handed \subseteq Node

VARIABLES stack,    \* from the root to the current node
          reply     \* what the last call returned

vars == <<stack, reply>>

Current == Last(stack)
Depth == Len(stack) - 1

\* NavAction, and the results of go_up() and descend()
Reply(kind, nodes) == [kind |-> kind, nodes |-> nodes]

Init == stack = <<Root>> /\ reply = Reply("New", {})

\* Mutant: the whole path is left at once.
PopAll(s) == <<Head(s)>>

Pop(s) == Front(s)

\* Mutant: an empty line at the root leaves it.
PopsRootToo == reply' = Reply("GoUp", {}) /\ stack' = Pop(stack)

InputEmpty ==
  IF Depth = 0
  THEN reply' = Reply("Exit", {}) /\ UNCHANGED stack
  ELSE reply' = Reply("GoUp", {}) /\ stack' = Pop(stack)

InputQuestion ==
  /\ reply' = Reply("ShowTopics", Kids(Current))
  /\ UNCHANGED stack

InputTopic(line, mode) ==
  LET r == Lookup(Current, line, mode)
  IN  CASE r.kind = "Found" ->
             /\ stack' = Append(stack, r.node)
             /\ reply' = Reply("DisplayTopic", {r.node})
        [] r.kind = "Ambiguous" ->
             /\ reply' = Reply(IF IsWildcard(line) THEN "DisplayMultiple"
                               ELSE "Ambiguous", r.nodes)
             /\ UNCHANGED stack
        [] r.kind = "NotFound" ->
             /\ reply' = Reply("NotFound", Kids(Current))
             /\ UNCHANGED stack

\* Navigator::input()
Input(line, mode) ==
  \/ line = <<>> /\ InputEmpty
  \/ line = QuestionMark /\ InputQuestion
  \/ line \notin {<<>>, QuestionMark} /\ InputTopic(line, mode)

GoUp ==
  IF Depth = 0
  THEN reply' = Reply("False", {}) /\ UNCHANGED stack
  ELSE reply' = Reply("True", {}) /\ stack' = Pop(stack)

\* Mutant: descend() trusts its caller.
AnyNode(n) == TRUE

\* What descend() takes for a child of the current node: a record at the offset
\* of one.
LooksLikeChild(n) == \E c \in Kids(Current) : Offset[c] = Offset[n]

Descend(n) ==
  IF LooksLikeChild(n)
  THEN reply' = Reply("True", {n}) /\ stack' = Append(stack, n)
  ELSE reply' = Reply("False", {n}) /\ UNCHANGED stack

\* Mutant: reset() does nothing.
ResetKeepsPath == reply' = Reply("Unit", {}) /\ UNCHANGED stack

Reset == stack' = SubSeq(stack, 1, 1) /\ reply' = Reply("Unit", {})

Next == \/ \E line \in Line, mode \in MatchMode : Input(line, mode)
        \/ GoUp
        \/ \E n \in Handed : Descend(n)
        \/ Reset

Spec == Init /\ [][Next]_vars
-----------------------------------------------------------------------------
\* The stack is never empty and holds nodes; a reply carries nodes.
TypeOK ==
  /\ stack \in Seq(Node) /\ stack # <<>>
  /\ reply.nodes \subseteq Node

\* The stack is the path from the root to the current node, each entry the
\* parent of the next, whatever mixture of lines, descend(), go_up() and
\* reset() led here.  path(), prompt() and depth() are read off this path.
StackIsPath ==
  /\ stack[1] = Root
  /\ \A i \in 1..(Len(stack) - 1) : Parent[stack[i + 1]] = stack[i]

\* Choices and listings are about the place the reader stands at: what was
\* displayed is where the reader is now, what was offered can be reached by
\* one more step from there.
RepliesAreAboutHere ==
  /\ reply.kind = "DisplayTopic" => reply.nodes = {Current}
  /\ reply.kind \in {"Ambiguous", "DisplayMultiple", "NotFound", "ShowTopics"} =>
       reply.nodes \subseteq Kids(Current)
  /\ reply.kind \in {"Exit", "Unit"} => Current = Root

\* Going up and typing, in full, the name just left leads back to the topic
\* just left; except that a name with a wildcard is taken for a pattern, and
\* a topic behind an earlier one of the same name can only be handed over.
GoUpThenNameReturns ==
  [][reply'.kind = "GoUp" =>
       \/ IsWildcard(NameUpper[Current]) \/ NameUpper[Current] = <<>>
       \/ \E i, j \in DOMAIN Children[Parent[Current]] :
            LET kids == Children[Parent[Current]]
            IN  i < j /\ kids[j] = Current /\ NameUpper[kids[i]] = NameUpper[Current]
       \/ \A mode \in MatchMode :
            Lookup(Last(stack'), NameUpper[Current], mode) = Found(Current)]_vars

\* The Navigator implements the browsing every client is promised.
Cursor == INSTANCE TreeCursor
            WITH Topic <- Node \ {Root}, Top <- Root, HomeKey <- TRUE,
                 opened <- TRUE, cur <- Current,
                 Up <- [n \in Node \ {Root} |->
                          IF Parent[n] = NoNode THEN Root ELSE Parent[n]]
NavigatorIsCursor == Cursor!Spec
=============================================================================
