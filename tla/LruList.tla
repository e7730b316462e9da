------------------------------- MODULE LruList -------------------------------
(***************************************************************************)
(* What the replacer promises the buffer pool: an order of recency over    *)
(* the tracked pages.  An access makes a page the most recent one, and the *)
(* page given up is the least recent one that the caller accepts.          *)
(***************************************************************************)
EXTENDS Naturals, Sequences

CONSTANTS Pages, Capacity

VARIABLES
    order, \* tracked pages, the most recently used first
    busy,  \* an eviction was asked for and not answered yet
    keep   \* the pages its caller refuses to give up

vars == <<order, busy, keep>>

Tracked == {order[i] : i \in DOMAIN order}

\* The order without page p.
Others(p) ==
    LET At == CHOOSE i \in DOMAIN order : order[i] = p
    IN  IF p \notin Tracked THEN order
        ELSE [i \in 1..(Len(order) - 1) |-> order[IF i < At THEN i ELSE i + 1]]

Init ==
    /\ order = <<>>
    /\ busy = FALSE
    /\ keep = {}

Access(p) ==
    /\ ~busy
    /\ p \in Tracked \/ Len(order) < Capacity
    /\ order' = <<p>> \o Others(p)
    /\ UNCHANGED <<busy, keep>>

Forget(p) ==
    /\ ~busy
    /\ p \in Tracked
    /\ order' = Others(p)
    /\ UNCHANGED <<busy, keep>>

Ask(refused) ==
    /\ ~busy /\ order # <<>>
    /\ busy' = TRUE
    /\ keep' = refused
    /\ UNCHANGED order

Answer ==
    /\ busy
    /\ busy' = FALSE
    /\ keep' = {}

\* The page given up is the least recent one that is not refused.
Evict ==
    /\ Answer
    /\ \E i \in DOMAIN order :
         /\ order[i] \notin keep
         /\ \A j \in DOMAIN order : j > i => order[j] \in keep
         /\ order' = Others(order[i])

Refuse ==
    /\ Answer
    /\ Tracked \subseteq keep
    /\ UNCHANGED order

Next ==
    \/ \E p \in Pages : Access(p) \/ Forget(p)
    \/ \E refused \in SUBSET Pages : Ask(refused)
    \/ Evict \/ Refuse

Spec == Init /\ [][Next]_vars
=============================================================================
