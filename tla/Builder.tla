------------------------------- MODULE Builder ------------------------------
(***************************************************************************)
(* The image of a .hlib file: dec-hlp/src/builder.rs.  Offsets are given   *)
(* to all records, tables and bodies first; then everything is written one *)
(* after the other, and only the sizes of what was written decide where it *)
(* really is.                                                              *)
(* A source tree is a record: kids[t] lists the subtopics of topic t in    *)
(* their order in the source (kids[0] the level-1 topics), key[t] is the   *)
(* rank of t's upper-case name, len[t] the length of its body, level[t]    *)
(* the level that the parser gave to it.                                   *)
(***************************************************************************)
EXTENDS Naturals, Sequences, SequencesExt, FiniteSets, FiniteSetsExt

CONSTANTS CountLimit,   \* one more than the largest child_count (2^16)
          OffsetLimit   \* one more than the largest offset (2^32)

\* 2^32 is a multiple of 8, to which the builder aligns its tables.
ASSUME LimitAssumption ==
  CountLimit \in Nat \ {0} /\ OffsetLimit \in Nat \ {0} /\ OffsetLimit % 8 = 0

HEADER_SIZE == 64
NODE_SIZE == 96
ENTRY_SIZE == 4
ROOT == 0

\* Arithmetic on u32, and the narrowing to u16, in a build that does not check
U32(n) == n % OffsetLimit
U16(n) == n % CountLimit

Align8(n) == ((n + 7) \div 8) * 8

Topics(tree) == DOMAIN tree.kids \ {ROOT}
ParentOf(tree, t) == CHOOSE p \in DOMAIN tree.kids : Contains(tree.kids[p], t)

\* Phase 1: flatten_topic(), depth first; the root is the first node.
Flattened(tree) ==
  LET from[t \in DOMAIN tree.kids] ==
        <<t>> \o FlattenSeq([k \in DOMAIN tree.kids[t] |-> from[tree.kids[t][k]]])
  IN  from[ROOT]

\* Phase 2: a cursor runs over the nodes; after[i] is where it stands after i.
Cursor(start, sizes) ==
  LET after[i \in 0..Len(sizes)] ==
        IF i = 0 THEN start ELSE U32(after[i - 1] + sizes[i])
  IN  after

TableSize(tree, t) == Align8(U32(ENTRY_SIZE * Len(tree.kids[t])))

\* What phase 2 assigns to nodes, the topics in flattened order
Offsets(tree, nodes) ==
  LET tablesAt == U32(HEADER_SIZE + Len(nodes) * NODE_SIZE)
      tables == Cursor(tablesAt, [i \in DOMAIN nodes |-> TableSize(tree, nodes[i])])
      textAt == tables[Len(nodes)]
      texts == Cursor(textAt, [i \in DOMAIN nodes |-> tree.len[nodes[i]]])
  IN  [node  |-> [i \in DOMAIN nodes |-> U32(HEADER_SIZE + (i - 1) * NODE_SIZE)],
       table |-> [i \in DOMAIN nodes |->
                    IF tree.kids[nodes[i]] = <<>> THEN 0 ELSE tables[i - 1]],
       text  |-> [i \in DOMAIN nodes |->
                    IF U32(tree.len[nodes[i]]) = 0 THEN 0 ELSE texts[i - 1]],
       textAt |-> textAt, size |-> texts[Len(nodes)]]

\* The members of a finite set one after the other
InOrder(S, before(_, _)) ==
  CHOOSE s \in Bijection(1..Cardinality(S), S) :
    \A i, j \in DOMAIN s : i < j => before(s[i], s[j])

\* Phase 3: a stable sort by upper-case name
SortedKids(tree, t) ==
  LET kids == tree.kids[t]
      before(i, j) == \/ tree.key[kids[i]] < tree.key[kids[j]]
                      \/ tree.key[kids[i]] = tree.key[kids[j]] /\ i < j
      order == InOrder(DOMAIN kids, before)
  IN  [k \in DOMAIN kids |-> kids[order[k]]]

\* Mutant: the tables list the children in the order of the source.
SourceOrder(tree, t) == tree.kids[t]

TableOrder(tree, t) == SortedKids(tree, t)

\* Phase 4: the write_all() calls, each with its size and what it writes; `at`
\* is the offset that phase 2 gave to the record of each topic.
HeaderItem(nodes, o) ==
  [size |-> HEADER_SIZE, what |-> "header",
   node_count |-> Len(nodes), root_offset |-> o.node[1], text_offset |-> o.textAt,
   text_size |-> U32(OffsetLimit + o.size - o.textAt), file_size |-> o.size]

NodeItem(tree, t, i, o, at) ==
  [size |-> NODE_SIZE, what |-> "node", topic |-> t, level |-> tree.level[t],
   text_offset |-> o.text[i], text_length |-> U32(tree.len[t]),
   child_table_offset |-> o.table[i], child_count |-> U16(Len(tree.kids[t])),
   parent_offset |-> IF t = ROOT THEN 0 ELSE at[ParentOf(tree, t)]]

TableItems(tree, t, at) ==
  LET order == TableOrder(tree, t)
      entries == [k \in DOMAIN order |->
                    [size |-> ENTRY_SIZE, what |-> "entry", offset |-> at[order[k]]]]
      padding == Align8(ENTRY_SIZE * Len(entries)) - ENTRY_SIZE * Len(entries)
  IN  IF padding = 0 THEN entries
      ELSE Append(entries, [size |-> padding, what |-> "padding"])

TextItems(tree, t) ==
  IF tree.len[t] = 0 THEN <<>>
  ELSE <<[size |-> tree.len[t], what |-> "text", topic |-> t]>>

Items(tree) ==
  LET nodes == Flattened(tree)
      o == Offsets(tree, nodes)
      at == [t \in DOMAIN tree.kids |->
               o.node[CHOOSE i \in DOMAIN nodes : nodes[i] = t]]
  IN  <<HeaderItem(nodes, o)>>
        \o [i \in DOMAIN nodes |-> NodeItem(tree, nodes[i], i, o, at)]
        \o FlattenSeq([i \in DOMAIN nodes |-> TableItems(tree, nodes[i], at)])
        \o FlattenSeq([i \in DOMAIN nodes |-> TextItems(tree, nodes[i])])

\* Where each item begins, by the sizes of those before it
Positions(items) ==
  LET at[i \in 1..(Len(items) + 1)] ==
        IF i = 1 THEN 0 ELSE at[i - 1] + items[i - 1].size
  IN  at

\* The image: what begins at each position, and how long the whole is.
Image(tree) ==
  LET items == Items(tree)
      at == Positions(items)
  IN  [size |-> at[Len(items) + 1],
       item |-> [p \in {at[i] : i \in DOMAIN items} |->
                   items[CHOOSE i \in DOMAIN items : at[i] = p]]]
=============================================================================
