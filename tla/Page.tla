-------------------------------- MODULE Page --------------------------------
(***************************************************************************)
(* Pages of hinder-db as the B+-tree sees them (src/src/storage/page.rs):  *)
(* leaf and internal nodes, what each operation on one node does, and what *)
(* survives a trip through encode and decode.                              *)
(*                                                                         *)
(* Abstractions.  A payload is its length.  slot_array and the vector it   *)
(* points into are one sequence in slot order: every operation reads       *)
(* records through the slots, and encode writes them in slot order.        *)
(* has_prev/prev_page_id and has_next/next_page_id are one field that is   *)
(* None when the flag is down.  The free_size of an internal node is left  *)
(* out, since nothing reads it.  Sizes are constants with the names of the *)
(* code, so that a small page can stand for the 8 KiB one.                 *)
(***************************************************************************)
EXTENDS Integers, Sequences, FiniteSets, SequencesExt, FiniteSetsExt

CONSTANTS
    PAGE_SIZE,
    SLOT_ELEM_SIZE,
    RECORD_META_SIZE,
    LEAF_NODE_HEADER_SIZE,
    INTERNAL_NODE_HEADER_SIZE,
    INDEX_ENTRY_SIZE,
    MAX_VALUE_SIZE

\* A full page can always be split: it holds two of the largest records, and
\* an internal page holds two entries.
ASSUME SizesAssumption ==
    /\ PAGE_SIZE \in Nat /\ SLOT_ELEM_SIZE \in Nat \ {0}
    /\ RECORD_META_SIZE \in Nat /\ LEAF_NODE_HEADER_SIZE \in Nat
    /\ INTERNAL_NODE_HEADER_SIZE \in Nat /\ INDEX_ENTRY_SIZE \in Nat
    /\ MAX_VALUE_SIZE \in Nat
    /\ LEAF_NODE_HEADER_SIZE + SLOT_ELEM_SIZE
         + 2 * (SLOT_ELEM_SIZE + RECORD_META_SIZE + MAX_VALUE_SIZE) <= PAGE_SIZE
    /\ INTERNAL_NODE_HEADER_SIZE + 2 * (INDEX_ENTRY_SIZE + SLOT_ELEM_SIZE) < PAGE_SIZE

None == 0        \* no page, no record: page ids and lengths in use are positive

MAX_LEAF_NODE_CELLS ==
    (PAGE_SIZE - LEAF_NODE_HEADER_SIZE) \div (SLOT_ELEM_SIZE + RECORD_META_SIZE)

-----------------------------------------------------------------------------
(* Leaf nodes: records in slot order, tombstones included, and free_size, the
   node's own idea of the room it has left. *)

RecordSize(rec) == SLOT_ELEM_SIZE + RECORD_META_SIZE + rec.len

\* The bytes encode needs for a leaf with these records.
LeafBytes(records) ==
    LET bytes[n \in 0..Len(records)] ==
            IF n = 0 THEN LEAF_NODE_HEADER_SIZE ELSE bytes[n - 1] + RecordSize(records[n])
    IN  bytes[Len(records)]

Leaf(records, prev, next) ==
    [kind |-> "leaf", records |-> records, prev |-> prev, next |-> next,
     free_size |-> PAGE_SIZE - LeafBytes(records)]

new_empty == Leaf(<<>>, None, None)

IsLeaf(node) == node.kind = "leaf"

\* Binary search: the slot of the key, or the slot where it would be inserted.
SlotOf(records, row_id) == 1 + Cardinality({i \in DOMAIN records : records[i].row_id < row_id})

HasKey(records, row_id) ==
    LET i == SlotOf(records, row_id)
    IN  i \in DOMAIN records /\ records[i].row_id = row_id

\* The records that are not tombstones, slot by slot.
live(records) ==
    LET kept[n \in 0..Len(records)] ==
            IF n = 0 THEN <<>>
            ELSE IF records[n].is_deleted THEN kept[n - 1] ELSE Append(kept[n - 1], records[n])
    IN  kept[Len(records)]

\* Tombstones go, and free_size is exact again.
compact(leaf) == Leaf(live(leaf.records), leaf.prev, leaf.next)

\* Mutant: the middle is one record too low.
splitLow(leaf) ==
    LET mid == (Len(leaf.records) - 1) \div 2
    IN  [left  |-> compact([leaf EXCEPT !.records = SubSeq(@, 1, mid)]),
         right |-> compact([new_empty EXCEPT !.records =
                                SubSeq(leaf.records, mid + 1, Len(leaf.records))])]

\* The upper half by record count moves to the new right sibling.
split(leaf) ==
    LET mid == Len(leaf.records) \div 2
    IN  [left  |-> compact([leaf EXCEPT !.records = SubSeq(@, 1, mid)]),
         right |-> compact([new_empty EXCEPT !.records =
                                SubSeq(leaf.records, mid + 1, Len(leaf.records))])]

Ok(leaf) == [res |-> "Ok", leaf |-> leaf]
Err(e) == [res |-> e]

\* A tombstone of the same key is overwritten when the growth fits free_size;
\* a new record is charged for two slots.
insert_record(leaf, row_id, len) ==
    LET i        == SlotOf(leaf.records, row_id)
        found    == HasKey(leaf.records, row_id)
        new      == [row_id |-> row_id, len |-> len, is_deleted |-> FALSE]
        needed   == LeafBytes(leaf.records) + SLOT_ELEM_SIZE + RecordSize(new)
    IN  CASE len > MAX_VALUE_SIZE -> Err("TupleTooLarge")
          [] len <= MAX_VALUE_SIZE /\ found /\ ~leaf.records[i].is_deleted -> Err("DuplicateKey")
          [] len <= MAX_VALUE_SIZE /\ found /\ leaf.records[i].is_deleted ->
               IF len - leaf.records[i].len > leaf.free_size
               THEN Err("PageFull")
               ELSE Ok(compact([leaf EXCEPT !.records[i] = new]))
          [] len <= MAX_VALUE_SIZE /\ ~found ->
               IF needed > PAGE_SIZE \/ Len(leaf.records) > MAX_LEAF_NODE_CELLS
               THEN Err("PageFull")
               ELSE Ok([leaf EXCEPT !.records = InsertAt(@, i, new),
                                    !.free_size = PAGE_SIZE - needed])

\* Mutant: free_size is not adjusted.
update_recordFree(leaf, row_id, len) ==
    LET i == SlotOf(leaf.records, row_id)
    IN  IF len >= MAX_VALUE_SIZE THEN Err("TupleTooLarge")
        ELSE IF ~HasKey(leaf.records, row_id) THEN Err("KeyNotFound")
        ELSE IF len - leaf.records[i].len > leaf.free_size THEN Err("PageFull")
        ELSE Ok([leaf EXCEPT !.records[i].len = len])

\* Mutant: a payload that does not grow is taken for unchanged.
update_recordGrow(leaf, row_id, len) ==
    LET i    == SlotOf(leaf.records, row_id)
        diff == len - leaf.records[i].len
    IN  IF len >= MAX_VALUE_SIZE THEN Err("TupleTooLarge")
        ELSE IF ~HasKey(leaf.records, row_id) THEN Err("KeyNotFound")
        ELSE IF diff > leaf.free_size THEN Err("PageFull")
        ELSE IF diff <= 0 THEN Ok(leaf)
        ELSE Ok([leaf EXCEPT !.records[i].len = len, !.free_size = @ - diff])

\* In place, whether the record is live or a tombstone.  The size limit is
\* strict here and not in insert_record.
update_record(leaf, row_id, len) ==
    LET i    == SlotOf(leaf.records, row_id)
        diff == len - leaf.records[i].len
    IN  IF len >= MAX_VALUE_SIZE THEN Err("TupleTooLarge")
        ELSE IF ~HasKey(leaf.records, row_id) THEN Err("KeyNotFound")
        ELSE IF diff > leaf.free_size THEN Err("PageFull")
        ELSE Ok([leaf EXCEPT !.records[i].len = len, !.free_size = @ - diff])

\* Mutant: the record goes at once.
delete_recordNow(leaf, row_id) ==
    IF HasKey(leaf.records, row_id)
    THEN Ok([leaf EXCEPT !.records = RemoveAt(@, SlotOf(leaf.records, row_id))])
    ELSE Err("KeyNotFound")

\* A tombstone keeps its bytes until the next compaction.
delete_record(leaf, row_id) ==
    IF HasKey(leaf.records, row_id)
    THEN Ok([leaf EXCEPT !.records[SlotOf(leaf.records, row_id)].is_deleted = TRUE])
    ELSE Err("KeyNotFound")

\* The payload as a set of at most one length.
get_record(leaf, row_id) ==
    {leaf.records[i].len : i \in {j \in DOMAIN leaf.records :
        leaf.records[j].row_id = row_id /\ ~leaf.records[j].is_deleted}}

-----------------------------------------------------------------------------
(* Internal nodes: keys[i] separates kids[i] (smaller keys) from kids[i + 1];
   the last kid is rightmost_child_id. *)

Internal(keys, kids) == [kind |-> "internal", keys |-> keys, kids |-> kids]

\* partition_point: the first position whose key is greater.
Partition(keys, key) == 1 + Cardinality({i \in DOMAIN keys : keys[i] <= key})

route_key(node, target_key) == node.kids[Partition(node.keys, target_key)]

InternalBytes(n) == INTERNAL_NODE_HEADER_SIZE + n * (INDEX_ENTRY_SIZE + SLOT_ELEM_SIZE)

InternalFull(node) == InternalBytes(Len(node.keys) + 1) >= PAGE_SIZE

\* The new key takes over the child at its position as its left child, and
\* the entry that had it (or the rightmost pointer) now points to new_child.
insert_entry(node, entry_key, new_child) ==
    LET i == Partition(node.keys, entry_key)
    IN  Internal(InsertAt(node.keys, i, entry_key), InsertAt(node.kids, i + 1, new_child))

\* The middle key moves up; its left child becomes the rightmost of the left half.
split_entries(node) ==
    LET n   == Len(node.keys)
        mid == n \div 2 + 1
    IN  [left     |-> Internal(SubSeq(node.keys, 1, mid - 1), SubSeq(node.kids, 1, mid)),
         promoted |-> node.keys[mid],
         right    |-> Internal(SubSeq(node.keys, mid + 1, n), SubSeq(node.kids, mid + 1, n + 1))]

-----------------------------------------------------------------------------
(* encode refuses a node that is larger than a page; what decode returns has
   the same records, links and entries and an exact free_size. *)

EncodedBytes(node) == IF IsLeaf(node) THEN LeafBytes(node.records) ELSE InternalBytes(Len(node.keys))

\* Mutant: the meta data is read as part of the payload.
decode_encodeLong(node) ==
    IF IsLeaf(node)
    THEN Leaf([i \in DOMAIN node.records |-> [node.records[i] EXCEPT !.len = @ + RECORD_META_SIZE]],
              node.prev, node.next)
    ELSE node

decode_encode(node) == IF IsLeaf(node) THEN Leaf(node.records, node.prev, node.next) ELSE node

=============================================================================
