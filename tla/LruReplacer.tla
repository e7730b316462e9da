----------------------------- MODULE LruReplacer -----------------------------
(***************************************************************************)
(* LruReplacer (storage/lru.rs): a doubly-linked list inside a vector, a   *)
(* map from pages to slots and a stack of free slots.  Slots count from 1, *)
(* and 0 stands for the Option None.                                       *)
(***************************************************************************)
EXTENDS Naturals, Sequences, FiniteSets

CONSTANTS
    Pages,   \* page ids
    Capacity \* pages the replacer may track

ASSUME LruAssumption == Capacity \in Nat \ {0}

VARIABLES
    pages,   \* page -> its slot, 0 if the page is not tracked
    arena,   \* the nodes
    head,    \* slot of the most recently used page
    tail,    \* slot of the least recently used page
    free,    \* stack of slots to reuse, its top last
    curr,    \* where the loop of a running evict_if is, 0 when none runs
    keep     \* the pages its predicate refuses

lruVars == <<pages, arena, head, tail, free, curr, keep>>

Slots == DOMAIN arena
Tracked == {p \in Pages : pages[p] # 0}

Node(p) == [prev |-> 0, page |-> p, next |-> 0]

\* The linked list as the private methods pass it along.
List == [arena |-> arena, head |-> head, tail |-> tail]

\* Mutant of unlink: the tail keeps pointing at the unlinked node.
unlinkKeepsTail(l, i) ==
    LET prev == l.arena[i].prev
        next == l.arena[i].next
    IN [arena |-> [k \in DOMAIN l.arena |->
                     [prev |-> IF k = next THEN prev ELSE l.arena[k].prev,
                      page |-> l.arena[k].page,
                      next |-> IF k = prev THEN next ELSE l.arena[k].next]],
        head |-> IF prev = 0 THEN next ELSE l.head,
        tail |-> l.tail]

unlink(l, i) ==
    LET prev == l.arena[i].prev
        next == l.arena[i].next
    IN [arena |-> [k \in DOMAIN l.arena |->
                     [prev |-> IF k = next THEN prev ELSE l.arena[k].prev,
                      page |-> l.arena[k].page,
                      next |-> IF k = prev THEN next ELSE l.arena[k].next]],
        head |-> IF prev = 0 THEN next ELSE l.head,
        tail |-> IF next = 0 THEN prev ELSE l.tail]

insert_head(l, i) ==
    [arena |-> [k \in DOMAIN l.arena |->
                  [prev |-> IF k = i THEN 0
                            ELSE IF k = l.head THEN i ELSE l.arena[k].prev,
                   page |-> l.arena[k].page,
                   next |-> IF k = i THEN l.head ELSE l.arena[k].next]],
     head |-> i,
     tail |-> IF l.head = 0 THEN i ELSE l.tail]

Becomes(l) ==
    /\ arena' = l.arena
    /\ head' = l.head
    /\ tail' = l.tail

Init ==
    /\ pages = [p \in Pages |-> 0]
    /\ arena = <<>>
    /\ head = 0
    /\ tail = 0
    /\ free = <<>>
    /\ curr = 0
    /\ keep = {}

\* The pool calls the replacer under a mutex.
Idle == curr = 0 /\ UNCHANGED <<curr, keep>>

\* record_access of a tracked page.
AccessHit(p) ==
    /\ Idle
    /\ pages[p] # 0
    /\ Becomes(insert_head(unlink(List, pages[p]), pages[p]))
    /\ UNCHANGED <<pages, free>>

\* record_access of a new page, in a free slot.  The pool has evicted first:
\* otherwise the assertion on the capacity panics.
AccessReuse(p) ==
    LET i == free[Len(free)] IN
    /\ Idle
    /\ pages[p] = 0 /\ Cardinality(Tracked) < Capacity
    /\ free # <<>>
    /\ free' = SubSeq(free, 1, Len(free) - 1)
    /\ pages' = [pages EXCEPT ![p] = i]
    /\ Becomes(insert_head([List EXCEPT !.arena[i] = Node(p)], i))

\* Mutant of AccessPush: the new index is read after the push.
AccessPushPast(p) ==
    LET i == Len(arena) + 2 IN
    /\ Idle
    /\ pages[p] = 0 /\ Cardinality(Tracked) < Capacity
    /\ free = <<>>
    /\ pages' = [pages EXCEPT ![p] = i]
    /\ Becomes(insert_head([List EXCEPT !.arena = Append(arena, Node(p))], i))
    /\ UNCHANGED free

\* record_access of a new page, in a new slot.
AccessPush(p) ==
    LET i == Len(arena) + 1 IN
    /\ Idle
    /\ pages[p] = 0 /\ Cardinality(Tracked) < Capacity
    /\ free = <<>>
    /\ pages' = [pages EXCEPT ![p] = i]
    /\ Becomes(insert_head([List EXCEPT !.arena = Append(arena, Node(p))], i))
    /\ UNCHANGED free

\* Mutant of Release: the slot is not handed back.
ReleaseLeaks(p, i) ==
    /\ pages' = [pages EXCEPT ![p] = 0]
    /\ Becomes(unlink(List, i))
    /\ UNCHANGED free

\* The slot i of page p goes back to the free list.
Release(p, i) ==
    /\ pages' = [pages EXCEPT ![p] = 0]
    /\ Becomes(unlink(List, i))
    /\ free' = Append(free, i)

Remove(p) ==
    /\ Idle
    /\ pages[p] # 0
    /\ Release(p, pages[p])

\* evict_if: from the tail along the prev links ...
EvictStart(refused) ==
    /\ curr = 0 /\ tail # 0
    /\ curr' = tail
    /\ keep' = refused
    /\ UNCHANGED <<pages, arena, head, tail, free>>

\* ... past the pages the predicate refuses, to None at the head ...
EvictSkip ==
    /\ curr # 0
    /\ arena[curr].page \in keep
    /\ curr' = arena[curr].prev
    /\ keep' = IF curr' = 0 THEN {} ELSE keep
    /\ UNCHANGED <<pages, arena, head, tail, free>>

\* Mutant of EvictTake: the predicate is not asked.
EvictTakeAny ==
    /\ curr # 0
    /\ Release(arena[curr].page, curr)
    /\ curr' = 0
    /\ keep' = {}

\* ... or to the first page it accepts.
EvictTake ==
    /\ curr # 0
    /\ arena[curr].page \notin keep
    /\ Release(arena[curr].page, curr)
    /\ curr' = 0
    /\ keep' = {}

\* The pages from slot i on, one link after the other, up to a limit.
Walk(link, i, limit) ==
    LET walk[k \in 0..limit] ==
            [j \in 0..Len(arena) |->
                IF k = 0 \/ j = 0 THEN <<>>
                ELSE <<arena[j].page>> \o walk[k - 1][link[j]]]
    IN walk[limit][i]

Nexts == [i \in Slots |-> arena[i].next]
Prevs == [i \in Slots |-> arena[i].prev]

\* Mutant of peek_rev: one page more than the limit.
peek_revOver(limit) == Walk(Prevs, tail, limit + 1)

\* peek_rev: the pages from the tail on, up to a limit.
peek_rev(limit) == Walk(Prevs, tail, limit)

Next ==
    \/ \E p \in Pages : AccessHit(p) \/ AccessReuse(p) \/ AccessPush(p) \/ Remove(p)
    \/ \E refused \in SUBSET Pages : EvictStart(refused)
    \/ EvictSkip \/ EvictTake

Spec == Init /\ [][Next]_lruVars

-----------------------------------------------------------------------------
(* Properties. *)

\* The types of the variables.
LruTypeOK ==
    /\ pages \in [Pages -> 0..Len(arena)]
    /\ arena \in Seq([prev : Nat, page : Pages, next : Nat])
    /\ head \in 0..Len(arena)
    /\ tail \in 0..Len(arena)
    /\ free \in Seq(Nat)
    /\ curr \in 0..Len(arena)
    /\ keep \subseteq Pages

\* Every slot is either the slot of exactly the page its node names, or on the
\* free list exactly once: the arena never leaks a slot nor lends one twice,
\* and stays within the capacity.
SlotsPartition ==
    /\ \A p \in Tracked : pages[p] \in Slots /\ arena[pages[p]].page = p
    /\ \A k \in DOMAIN free :
         /\ free[k] \in Slots
         /\ \A p \in Pages : pages[p] # free[k]
         /\ \A j \in DOMAIN free : free[j] = free[k] => j = k
    /\ \A i \in Slots : \/ \E p \in Pages : pages[p] = i
                        \/ \E k \in DOMAIN free : free[k] = i
    /\ Len(arena) <= Capacity

\* The links of the nodes in use mirror each other, with head and tail at the
\* two ends (the shape unlink and insert_head rely on).
LinksMirror ==
    /\ head = 0 <=> tail = 0
    /\ head # 0 => arena[head].prev = 0 /\ \E p \in Pages : pages[p] = head
    /\ tail # 0 => arena[tail].next = 0 /\ \E p \in Pages : pages[p] = tail
    /\ \A p \in Tracked :
         LET n == arena[pages[p]] IN
         /\ n.prev = 0 <=> head = pages[p]
         /\ n.next = 0 <=> tail = pages[p]
         /\ n.prev # 0 => /\ \E q \in Pages : pages[q] = n.prev
                          /\ arena[n.prev].next = pages[p]
         /\ n.next # 0 => /\ \E q \in Pages : pages[q] = n.next
                          /\ arena[n.next].prev = pages[p]

\* The pages in the order of the next links from the head.
Order == Walk(Nexts, head, Len(arena))

\* Walking back from the tail yields the pages in the opposite order, and a
\* limit only cuts that order short: the flusher, which peeks from the tail,
\* and the pool, which accesses at the head, agree on what is old.
PeekIsOldestFirst ==
    LET n == Len(Order) IN
    \A limit \in 0..Len(arena) :
        peek_rev(limit) =
            [k \in 1..(IF limit < n THEN limit ELSE n) |-> Order[n + 1 - k]]

Abstract == INSTANCE LruList WITH order <- Order, busy <- curr # 0

\* The replacer is a list of recency: hits move a page to the front, reused
\* slots carry no trace of their former page, and an eviction takes the oldest
\* page its caller accepts without disturbing the rest (lru.rs, evict_if).
ImplementsLruList == Abstract!Spec
=============================================================================
