------------------------------- MODULE Library ------------------------------
(***************************************************************************)
(* Opening and reading a .hlib file: dec-hlp/src/library.rs.  A file is an *)
(* image (the items that begin at its positions) cut off after some bytes. *)
(***************************************************************************)
EXTENDS Builder

\* The bytes of a file: the first `len` of the image of a tree.
Bytes(image, len) == [len |-> len, item |->
  [p \in {q \in DOMAIN image.item : q + image.item[q].size <= len} |-> image.item[p]]]

\* Mutant: the size recorded in the header is not compared.
AnySize(data) == TRUE

SizeAgrees(data) == data.item[0].file_size = data.len

NodeRegionEnd(data) == U32(HEADER_SIZE + data.item[0].node_count * NODE_SIZE)

IsNodeOffset(data, offset) ==
  /\ offset >= HEADER_SIZE /\ offset < NodeRegionEnd(data)
  /\ (offset - HEADER_SIZE) % NODE_SIZE = 0

\* from_backing(): the checks of Library::open().  The magic number, the byte
\* order and the version are right in what a builder on this host wrote.
Opens(data) ==
  /\ data.len >= HEADER_SIZE
  /\ SizeAgrees(data)
  /\ IsNodeOffset(data, data.item[0].root_offset)
  /\ data.item[0].text_offset + data.item[0].text_size <= data.item[0].file_size

\* node_at(): offsets of the nodes it returns; a set, empty for None.
NodeAt(data, offset) ==
  IF IsNodeOffset(data, offset) /\ offset + NODE_SIZE <= data.len THEN {offset} ELSE {}

ChildCount(node) == node.child_count

\* children(): the entries that lie in the file and name a node
Children(data, offset) ==
  LET node == data.item[offset]
      entry(k) == node.child_table_offset + (k - 1) * ENTRY_SIZE
      good == {k \in 1..ChildCount(node) :
                 /\ node.child_table_offset # 0
                 /\ entry(k) + ENTRY_SIZE <= data.len
                 /\ NodeAt(data, data.item[entry(k)].offset) # {}}
      order == InOrder(good, LAMBDA i, j : i < j)
  IN  [k \in DOMAIN order |-> data.item[entry(order[k])].offset]

\* parent(): None when the record says 0
Parent(data, offset) ==
  LET parent == data.item[offset].parent_offset
  IN  IF parent = 0 THEN {} ELSE NodeAt(data, parent)

\* body_bytes(): whose text a node shows, and how much of it; empty if none.
Body(data, offset) ==
  LET node == data.item[offset]
      none == node.text_offset = 0 /\ node.text_length = 0
      outside == node.text_offset + node.text_length > data.len
  IN  IF none \/ outside THEN [length |-> 0, of |-> {}]
      ELSE [length |-> node.text_length, of |-> {data.item[node.text_offset].topic}]
=============================================================================
