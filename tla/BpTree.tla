------------------------------- MODULE BpTree -------------------------------
(***************************************************************************)
(* The B+-tree (src/src/storage/bptree.rs) and the cursor that scans it    *)
(* (src/src/execution/iterator.rs), over the nodes of module Page.         *)
(*                                                                         *)
(* Every operation is a function from the pages of the tree to a result    *)
(* and new pages.  An operation that fails makes the connection abort its  *)
(* transaction (module StorageEngine), so a failure leaves the pages as    *)
(* they were.  The root never moves; the other page ids are numbered in    *)
(* the order of allocation, and the id of a page allocated by a failed     *)
(* operation, which is never used again, is not counted.                   *)
(***************************************************************************)
EXTENDS Page

CONSTANTS Keys,         \* row ids
          Payloads      \* lengths of payloads

ASSUME KeysAssumption == Keys \subseteq Nat \ {0} /\ IsFiniteSet(Keys)
ASSUME PayloadsAssumption == Payloads \subseteq Nat /\ Payloads # {}

VARIABLE pages          \* page id -> node

Root == 1

Init == pages = <<new_empty>>

-----------------------------------------------------------------------------
(* Descents *)

\* The pages from the root to the leaf that owns the key.
PathTo(pgs, row_id) ==
    LET descend[p \in DOMAIN pgs] ==
          IF IsLeaf(pgs[p]) THEN <<p>>
          ELSE <<p>> \o descend[route_key(pgs[p], row_id)]
    IN  descend[Root]

LeafFor(pgs, row_id) == Last(PathTo(pgs, row_id))

find_record(pgs, row_id) == get_record(pgs[LeafFor(pgs, row_id)], row_id)

get_leftmost_leaf(pgs) ==
    LET descend[p \in DOMAIN pgs] == IF IsLeaf(pgs[p]) THEN p ELSE descend[Head(pgs[p].kids)]
    IN  descend[Root]

\* Mutant: tombstones are passed over.
get_max_row_idLive(pgs) ==
    LET descend[p \in DOMAIN pgs] == IF IsLeaf(pgs[p]) THEN p ELSE descend[Last(pgs[p].kids)]
        kept == live(pgs[descend[Root]].records)
    IN  IF kept = <<>> THEN 0 ELSE Last(kept).row_id

\* The last slot of the rightmost leaf, a tombstone too; 0 for an empty leaf.
get_max_row_id(pgs) ==
    LET descend[p \in DOMAIN pgs] == IF IsLeaf(pgs[p]) THEN p ELSE descend[Last(pgs[p].kids)]
        records == pgs[descend[Root]].records
    IN  IF records = <<>> THEN 0 ELSE Last(records).row_id

\* Mutant: the search ends behind the key.
get_leaf_and_slotPast(pgs, key) ==
    LET leaf == LeafFor(pgs, key)
    IN  [page |-> leaf, slot |-> SlotOf(pgs[leaf].records, key + 1)]

get_leaf_and_slot(pgs, key) ==
    LET leaf == LeafFor(pgs, key)
    IN  [page |-> leaf, slot |-> SlotOf(pgs[leaf].records, key)]

-----------------------------------------------------------------------------
(* Insertion.  A step of it has a result, the pages, and the split still to
   be told to the parent: <<>> or <<promoted_key, new_page_id>>. *)

Done(pgs) == [res |-> "Ok", pages |-> pgs, split |-> <<>>]
Failed(e, pgs) == [res |-> e, pages |-> pgs, split |-> <<>>]

\* The right half goes to a new page, linked in between the leaf and its old
\* right sibling; the record goes to the half that owns its key, and nowhere
\* else when that half has no room.
split_leaf(pgs, leaf, row_id, len) ==
    LET right    == Len(pgs) + 1
        old_next == pgs[leaf].next
        relinked == IF old_next = None THEN pgs ELSE [pgs EXCEPT ![old_next].prev = right]
        Linked(left_leaf, right_leaf, promoted) ==
            [res   |-> "Ok",
             pages |-> Append([relinked EXCEPT ![leaf] = [left_leaf EXCEPT !.next = right]],
                              [right_leaf EXCEPT !.prev = leaf, !.next = old_next]),
             split |-> <<promoted, right>>]
        Put(put, halves, promoted) ==
            IF put.res # "Ok" THEN Failed(put.res, pgs)
            ELSE IF row_id < promoted THEN Linked(put.leaf, halves.right, promoted)
            ELSE Linked(halves.left, put.leaf, promoted)
        Halved(halves) ==
            LET promoted == halves.right.records[1].row_id
            IN  Put(insert_record(IF row_id < promoted THEN halves.left ELSE halves.right, row_id, len),
                    halves, promoted)
    IN  Halved(split(compact(pgs[leaf])))

\* Insert, else compact and insert, else split.
insert_leaf(pgs, leaf, row_id, len) ==
    LET Attempt(first, again, halved) ==
            CASE first.res = "Ok" -> Done([pgs EXCEPT ![leaf] = first.leaf])
              [] first.res \notin {"Ok", "PageFull"} -> Failed(first.res, pgs)
              [] first.res = "PageFull" ->
                    IF again.res = "Ok" THEN Done([pgs EXCEPT ![leaf] = again.leaf]) ELSE halved
    IN  Attempt(insert_record(pgs[leaf], row_id, len), insert_record(compact(pgs[leaf]), row_id, len),
                split_leaf(pgs, leaf, row_id, len))

\* A full parent is split and the pending entry goes to the half that owns it.
insert_internal(pgs, parent, promoted_key, child) ==
    LET right  == Len(pgs) + 1
        halves == split_entries(pgs[parent])
        goLeft == promoted_key < halves.promoted
        left_node  == IF goLeft THEN insert_entry(halves.left, promoted_key, child) ELSE halves.left
        right_node == IF goLeft THEN halves.right ELSE insert_entry(halves.right, promoted_key, child)
    IN  IF ~InternalFull(pgs[parent])
        THEN Done([pgs EXCEPT ![parent] = insert_entry(@, promoted_key, child)])
        ELSE [res   |-> "Ok",
              pages |-> Append([pgs EXCEPT ![parent] = left_node], right_node),
              split |-> <<halves.promoted, right>>]

\* Mutant: the right half still points back to the root.
split_rootNoLink(pgs, promoted_key, right) ==
    Append([pgs EXCEPT ![Root] = Internal(<<promoted_key>>, <<Len(pgs) + 1, right>>)], pgs[Root])

\* Root pinning: the root's node moves to a new left page, and the root page
\* becomes the parent of the two halves.
split_root(pgs, promoted_key, right) ==
    LET left     == Len(pgs) + 1
        relinked == IF IsLeaf(pgs[Root]) THEN [pgs EXCEPT ![right].prev = left] ELSE pgs
    IN  Append([relinked EXCEPT ![Root] = Internal(<<promoted_key>>, <<left, right>>)], pgs[Root])

\* One level of the way back up, and its end at the root.
Up(parent, st) ==
    IF st.split = <<>> THEN st
    ELSE insert_internal(st.pages, parent, st.split[1], st.split[2])

AtRoot(st) ==
    IF st.split = <<>> THEN st
    ELSE Done(split_root(st.pages, st.split[1], st.split[2]))

\* Mutant: a split is told to the root and not to the parents.
propagateRoot(path, inserted) == AtRoot(inserted)

\* The splits on the way back up to the root, the leaf's parent first.
propagate(path, inserted) ==
    LET up[k \in 0..(Len(path) - 1)] ==
            IF k = 0 THEN inserted ELSE Up(path[Len(path) - k], up[k - 1])
    IN  AtRoot(up[Len(path) - 1])

insert(pgs, row_id, len) ==
    propagate(PathTo(pgs, row_id), insert_leaf(pgs, LeafFor(pgs, row_id), row_id, len))

\* Mutant: a payload that no longer fits is deleted and not inserted again.
updateDrops(pgs, row_id, len) ==
    LET At(leaf, up) ==
            CASE up.res = "Ok" -> Done([pgs EXCEPT ![leaf] = up.leaf])
              [] up.res = "PageFull" -> Done([pgs EXCEPT ![leaf] = delete_record(@, row_id).leaf])
              [] up.res \notin {"Ok", "PageFull"} -> Failed(up.res, pgs)
    IN  At(LeafFor(pgs, row_id), update_record(pgs[LeafFor(pgs, row_id)], row_id, len))

\* A payload that no longer fits is deleted and inserted again.
update(pgs, row_id, len) ==
    LET At(leaf, up, moved) ==
            CASE up.res = "Ok" -> Done([pgs EXCEPT ![leaf] = up.leaf])
              [] up.res = "PageFull" -> IF moved.res = "Ok" THEN moved ELSE Failed(moved.res, pgs)
              [] up.res \notin {"Ok", "PageFull"} -> Failed(up.res, pgs)
        without == [pgs EXCEPT ![LeafFor(pgs, row_id)] = delete_record(@, row_id).leaf]
    IN  At(LeafFor(pgs, row_id), update_record(pgs[LeafFor(pgs, row_id)], row_id, len),
           insert(without, row_id, len))

delete(pgs, row_id) ==
    LET At(leaf, del) == IF del.res = "Ok" THEN Done([pgs EXCEPT ![leaf] = del.leaf])
                         ELSE Failed(del.res, pgs)
    IN  At(LeafFor(pgs, row_id), delete_record(pgs[LeafFor(pgs, row_id)], row_id))

-----------------------------------------------------------------------------
(* The actions: the operations that succeed; one that fails changes nothing.
   The executors update and delete only rows that a scan or a lookup of the
   same statement has just returned. *)

Succeeds(op) == op.res = "Ok" /\ pages' = op.pages

Insert(row_id, len) == Succeeds(insert(pages, row_id, len))

Update(row_id, len) == find_record(pages, row_id) # {} /\ Succeeds(update(pages, row_id, len))

Delete(row_id) == find_record(pages, row_id) # {} /\ Succeeds(delete(pages, row_id))

\* The page is evicted and loaded again.
Reload(p) == pages' = [pages EXCEPT ![p] = decode_encode(@)]

Next ==
    \/ \E row_id \in Keys, len \in Payloads : Insert(row_id, len) \/ Update(row_id, len)
    \/ \E row_id \in Keys : Delete(row_id)
    \/ \E p \in DOMAIN pages : Reload(p)

Spec == Init /\ [][Next]_pages

-----------------------------------------------------------------------------
(* The cursor: BpTreeIterator.  start is a set of at most one key; before the
   first next the cursor has no page. *)

new_at_key(start) == [start |-> start, initialized |-> FALSE, page |-> None, slot |-> 1]

reset(it) == new_at_key(it.start)

Positioned(pgs, it) ==
    IF it.initialized THEN it
    ELSE LET at == IF it.start = {} THEN [page |-> get_leftmost_leaf(pgs), slot |-> 1]
                   ELSE get_leaf_and_slot(pgs, CHOOSE k \in it.start : TRUE)
         IN  [start |-> it.start, initialized |-> TRUE, page |-> at.page, slot |-> at.slot]

\* The first live slot from the cursor on, across the sibling links.  The page
\* is read again on every call; it may have become an internal node.
next(pgs, it) ==
    LET seek[at \in ({None} \cup DOMAIN pgs) \X (Nat \ {0})] ==
          LET c == at[1]
              slot == at[2]
          IN  IF c = None THEN [res |-> "End", page |-> None, slot |-> slot]
              ELSE IF ~IsLeaf(pgs[c]) THEN [res |-> "CorruptPage", page |-> c, slot |-> slot]
              ELSE IF slot > Len(pgs[c].records)
                   THEN seek[<<pgs[c].next, IF pgs[c].next = None THEN slot ELSE 1>>]
              ELSE IF pgs[c].records[slot].is_deleted THEN seek[<<c, slot + 1>>]
              ELSE [res |-> "Row", page |-> c, slot |-> slot]
        Found(from, at) ==
          [res |-> at.res,
           row |-> IF at.res = "Row" THEN <<pgs[at.page].records[at.slot]>> ELSE <<>>,
           it  |-> [start |-> from.start, initialized |-> TRUE, page |-> at.page,
                    slot |-> IF at.res = "Row" THEN at.slot + 1 ELSE at.slot]]
        From(from) == Found(from, seek[<<from.page, from.slot>>])
    IN  From(Positioned(pgs, it))

-----------------------------------------------------------------------------
(* Statements that scan a tree and change it row by row, as SELECT, DELETE and
   UPDATE without a predicate do: Mutate is applied to every row the cursor
   yields before the cursor moves on. *)

Opened(pgs, start) ==
    [pages |-> pgs, it |-> new_at_key(start), seen |-> <<>>, res |-> "Row", kept |-> TRUE]

LeafIds(pgs) == {p \in DOMAIN pgs : IsLeaf(pgs[p])}

\* Every leaf is still a leaf with the same keys in the same slots.
SlotsKept(old, new) ==
    \A p \in LeafIds(old) :
        /\ p \in LeafIds(new)
        /\ Len(new[p].records) = Len(old[p].records)
        /\ \A i \in DOMAIN old[p].records : new[p].records[i].row_id = old[p].records[i].row_id

ScanStep(Mutate(_, _), st) ==
    LET Mutated(got, mut) ==
            IF mut.res # "Ok" THEN [st EXCEPT !.res = mut.res]
            ELSE [pages |-> mut.pages, it |-> got.it, res |-> "Row",
                  seen |-> Append(st.seen, got.row[1]),
                  kept |-> st.kept /\ SlotsKept(st.pages, mut.pages)]
        Got(got) == IF got.res # "Row"
                    THEN [pages |-> st.pages, it |-> got.it, res |-> got.res,
                          seen |-> st.seen, kept |-> st.kept]
                    ELSE Mutated(got, Mutate(st.pages, got.row[1].row_id))
    IN  IF st.res # "Row" THEN st ELSE Got(next(st.pages, st.it))

\* Every row is visited at most twice per split, so this many steps end a scan.
MaxScanSteps == 3 * Cardinality(Keys) + 1

Scan(Mutate(_, _), start) ==
    LET run[n \in 0..MaxScanSteps] ==
          IF n = 0 THEN Opened(pages, start) ELSE ScanStep(Mutate, run[n - 1])
    IN  run[MaxScanSteps]

SelectScan(start) == Scan(LAMBDA pgs, row_id : Done(pgs), start)
DeleteScan == Scan(delete, {})
UpdateScan(len) == Scan(LAMBDA pgs, row_id : update(pgs, row_id, len), {})

-----------------------------------------------------------------------------
(* Properties *)

\* The leaves under the root from left to right.
LeavesInOrder(pgs) ==
    LET under[p \in DOMAIN pgs] ==
          IF IsLeaf(pgs[p]) THEN <<p>>
          ELSE FlattenSeq([i \in DOMAIN pgs[p].kids |-> under[pgs[p].kids[i]]])
    IN  under[Root]

AllRecords(pgs) ==
    LET leaves == LeavesInOrder(pgs)
    IN  FlattenSeq([i \in DOMAIN leaves |-> pgs[leaves[i]].records])

Ascending(records) ==
    \A i, j \in DOMAIN records : i < j => records[i].row_id < records[j].row_id

\* The map from row ids to payloads that the leaves hold, as a set of pairs.
Contents(pgs) ==
    UNION {{<<rec.row_id, rec.len>> : rec \in {r \in ToSet(pgs[p].records) : ~r.is_deleted}} :
           p \in LeafIds(pgs)}

Records == [row_id : Keys, len : Payloads, is_deleted : BOOLEAN]

\* Nodes of the two kinds, with links to pages that exist.
TreeTypeOK ==
    \A p \in DOMAIN pages :
        IF IsLeaf(pages[p])
        THEN /\ ToSet(pages[p].records) \subseteq Records
             /\ {pages[p].prev, pages[p].next} \subseteq {None} \cup DOMAIN pages
             /\ pages[p].free_size \in Int
        ELSE /\ ToSet(pages[p].keys) \subseteq Keys
             /\ ToSet(pages[p].kids) \subseteq DOMAIN pages
             /\ Len(pages[p].kids) = Len(pages[p].keys) + 1

\* Splits of leaves, of internal nodes and of the pinned root keep one tree:
\* every page is reached once, the keys ascend across the leaves, the sibling
\* links are exactly the leaves in that order, in both directions, and a
\* descent for a stored key ends at its leaf.
TreeShape ==
    LET leaves == LeavesInOrder(pages)
        At(i)  == IF i \in DOMAIN leaves THEN leaves[i] ELSE None
        kids   == FlattenSeq([p \in DOMAIN pages |->
                      IF IsLeaf(pages[p]) THEN <<>> ELSE pages[p].kids])
    IN  /\ ToSet(kids) = DOMAIN pages \ {Root} /\ Len(kids) = Len(pages) - 1
        /\ Ascending(AllRecords(pages))
        /\ \A i \in DOMAIN leaves : /\ pages[leaves[i]].prev = At(i - 1)
                                    /\ pages[leaves[i]].next = At(i + 1)
        /\ \A p \in LeafIds(pages) : \A i \in DOMAIN pages[p].records :
               LeafFor(pages, pages[p].records[i].row_id) = p

\* Every lookup, insertion and scan reads as many pages as any other, the
\* height of the tree, whichever leaf, internal node or root was split before.
Balanced == \A k, l \in Keys : Len(PathTo(pages, k)) = Len(PathTo(pages, l))

\* The running accounts of free_size, which insertions overcharge and updates
\* adjust, never promise more room than the page has, so that encode succeeds
\* and compact never meets its unreachable case.
PagesFit ==
    \A p \in DOMAIN pages :
        /\ EncodedBytes(pages[p]) <= PAGE_SIZE
        /\ IsLeaf(pages[p]) =>
              pages[p].free_size \in 0..(PAGE_SIZE - LeafBytes(pages[p].records))

\* Point lookups and scans agree on the map: a lookup returns the payload of a
\* live key, and a scan from any start key, after any earlier use of the
\* cursor, yields the live keys from there on in order, once each.
ReadsInOrder ==
    LET Reads(rows, full) ==
            /\ full.seen = rows /\ full.res = "End"
            /\ next(pages, reset(full.it)) = next(pages, new_at_key({}))
        ReadsFrom(rows, k) ==
            /\ find_record(pages, k)
                 = {rows[i].len : i \in {j \in DOMAIN rows : rows[j].row_id = k}}
            /\ \E n \in 0..Len(rows) :
                  /\ \A i \in DOMAIN rows : i > n <=> rows[i].row_id >= k
                  /\ SelectScan({k}).seen = SubSeq(rows, n + 1, Len(rows))
        InOrderOf(rows) == Reads(rows, SelectScan({})) /\ \A k \in Keys : ReadsFrom(rows, k)
    IN  InOrderOf(live(AllRecords(pages)))

\* DELETE without a predicate leaves its tombstones in place, so its own
\* deletions never make its cursor miss a row or see one twice.
DeleteVisitsAll ==
    LET Ends(scan) == /\ scan.res = "End"
                      /\ scan.seen = live(AllRecords(pages))
                      /\ live(AllRecords(scan.pages)) = <<>>
    IN  Ends(DeleteScan)

\* UPDATE without a predicate changes every row exactly once, as long as no
\* row it grew had to be moved: a compaction or a split under the open cursor
\* shifts the slots behind it, and rows are then skipped or updated twice, or
\* the cursor meets an internal node where the root leaf was.
UpdateVisitsAll ==
    LET Ends(scan, len) ==
            scan.kept /\ scan.res = "End" =>
              /\ scan.seen = live(AllRecords(pages))
              /\ \A rec \in ToSet(live(AllRecords(scan.pages))) : rec.len = len
    IN  \A len \in Payloads : Ends(UpdateScan(len), len)

\* The catalog starts a table's row ids after get_max_row_id, which looks at
\* the last slot of the rightmost leaf only: no other leaf holds a larger key.
MaxRowIdIsLargest ==
    get_max_row_id(pages) = Max({0} \cup {rec.row_id : rec \in ToSet(AllRecords(pages))})

\* A split makes room for a record as large as the ones around it: an insertion
\* or update of a legal size is refused for lack of room only when the live
\* records of the leaf differ in size from the new one, since a leaf is split
\* by count and the half that gets the record may keep all the large ones.
UniformWritesSucceed ==
    LET Accepts(leaf, k, len, ins, upd) ==
            (\A i \in DOMAIN leaf : leaf[i].is_deleted \/ leaf[i].len = len) =>
              IF \E i \in DOMAIN leaf : leaf[i].row_id = k /\ ~leaf[i].is_deleted
              THEN ins.res = "DuplicateKey" /\ upd.res = "Ok"
              ELSE ins.res = "Ok"
    IN  \A k \in Keys, len \in {l \in Payloads : l < MAX_VALUE_SIZE} :
            Accepts(pages[LeafFor(pages, k)].records, k, len, insert(pages, k, len), update(pages, k, len))

\* What callers see is a map: an insertion that succeeds binds a key that was
\* not bound, an update rebinds one, a deletion unbinds one, each leaving all
\* other keys alone whatever it compacts, splits or moves, and an insertion is
\* refused as a duplicate exactly when the key is bound.
ActsAsMap ==
    LET Bound(old, k)   == \E p \in old : p[1] = k
        Without(old, k) == {p \in old : p[1] # k}
        Inserts(old, k, len, ins) ==
            /\ ins.res = "Ok" => ~Bound(old, k) /\ Contents(ins.pages) = old \cup {<<k, len>>}
            /\ len <= MAX_VALUE_SIZE => (ins.res = "DuplicateKey" <=> Bound(old, k))
        Updates(old, k, len, upd) ==
            Bound(old, k) /\ upd.res = "Ok" => Contents(upd.pages) = Without(old, k) \cup {<<k, len>>}
    IN  \A old \in {Contents(pages)}, k \in Keys :
            /\ \A len \in Payloads : /\ Inserts(old, k, len, insert(pages, k, len))
                                     /\ Updates(old, k, len, update(pages, k, len))
            /\ Contents(delete(pages, k).pages) = Without(old, k)

=============================================================================
