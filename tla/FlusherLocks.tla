---------------------------- MODULE FlusherLocks ----------------------------
(***************************************************************************)
(* The two threads of an open database at the granularity of their locks:  *)
(* the connection, which changes, evicts, loads and rolls back pages, and  *)
(* the background flusher, which writes dirty pages to the file.           *)
(*                                                                         *)
(* The locks are page_table (the connection writes it, the flusher reads   *)
(* it) and one RwLock per frame.  A frame is also kept alive by the Arcs   *)
(* to it: the flusher's clone outlives the frame's place in page_table.    *)
(* The mutexes around the log and the replacer are taken last and released *)
(* at once, and the write of a page to the file takes two steps, with a    *)
(* torn page in between.                                                   *)
(***************************************************************************)
EXTENDS Naturals, FiniteSets, FiniteSetsExt

CONSTANTS
    Pages,    \* page ids; all of them exist
    Hot,      \* bound: the pages the connection changes, the others it reads
    Capacity, \* capacity of the buffer pool
    Vals,     \* contents of a page
    Torn,     \* a page in the file of which only a part is new
    None      \* no page, no content, no frame

ASSUME LocksAssumption ==
    /\ Capacity \in Nat \ {0} /\ Hot \subseteq Pages
    /\ Vals # {} /\ Torn \notin Vals /\ None \notin Vals \cup Pages
    /\ None \notin [img : Vals \cup {Torn}, dirty : BOOLEAN]

VARIABLES
    disk,   \* the pages of the file
    mem,    \* page_table: the contents of the cached frames
    dirty,  \* cached frames whose is_dirty is set
    ptW,    \* the connection holds page_table for writing
    ptR,    \* the flusher holds page_table for reading
    fg,     \* where the connection is
    locked, \* page whose frame the connection holds for writing
    want,   \* page the connection is loading
    got,    \* what it read from the file
    fl,     \* where the flusher is
    cand,   \* pages clean_pages_watermark has still to look at
    queue,  \* pages to flush
    held,   \* page of the frame that flush_page has cloned
    orphan, \* that frame, once it is no longer in page_table
    \* History.
    base,    \* contents as of the last commit
    latest,  \* contents as the connection wrote them
    touched, \* pages the open transaction changed
    stale    \* pages rolled back under the flusher's hands

file == <<disk, mem, dirty>>
connection == <<ptW, fg, locked, want, got>>
flusher == <<ptR, fl, cand, queue, held, orphan>>
history == <<base, latest, touched, stale>>
vars == <<file, connection, flusher, history>>

Cached == {p \in Pages : mem[p] # None}

\* flush_page's clone is still the frame in page_table.
Attached == held # None /\ orphan = None

Init ==
    /\ \E v \in Vals : disk = [p \in Pages |-> v]
    /\ mem = [p \in Pages |-> None]
    /\ dirty = {}
    /\ ptW = FALSE /\ ptR = FALSE
    /\ fg = "idle" /\ locked = None /\ want = None /\ got = None
    /\ fl = "idle" /\ cand = {} /\ queue = {} /\ held = None /\ orphan = None
    /\ base = disk /\ latest = disk
    /\ touched = {} /\ stale = {}

-----------------------------------------------------------------------------
(* The connection. *)

\* Mutant of LockFrame: flush_page gives the frame up before clear_dirty.
LockFrameEarly(p) ==
    /\ fg = "idle"
    /\ mem[p] # None
    /\ ~(Attached /\ held = p /\ fl = "write")
    /\ locked' = p
    /\ fg' = "locked"
    /\ UNCHANGED <<file, ptW, want, got, flusher, history>>

\* frame.write() of a cached page: not while flush_page has it locked.
LockFrame(p) ==
    /\ fg = "idle"
    /\ mem[p] # None
    /\ ~(Attached /\ held = p /\ fl \in {"write", "clear"})
    /\ locked' = p
    /\ fg' = "locked"
    /\ UNCHANGED <<file, ptW, want, got, flusher, history>>

\* The B+-tree changes the node it has locked.
Change(c) ==
    /\ fg \in {"locked", "wired"}
    /\ mem' = [mem EXCEPT ![locked] = c]
    /\ dirty' = dirty \cup {locked}
    /\ latest' = [latest EXCEPT ![locked] = c]
    /\ touched' = touched \cup {locked}
    /\ UNCHANGED <<disk, connection, flusher, base, stale>>

Unlock ==
    /\ fg \in {"locked", "wired"}
    /\ locked' = None
    /\ fg' = "idle"
    /\ UNCHANGED <<file, ptW, want, got, flusher, history>>

\* A cache miss: of a search, with no frame locked, or of a split, which needs
\* a sibling, once, while it holds the leaf.
Miss(p) ==
    /\ fg \in {"idle", "locked"}
    /\ mem[p] = None
    /\ want' = p
    /\ fg' = IF Cardinality(Cached) < Capacity THEN "read" ELSE "evict"
    /\ UNCHANGED <<file, ptW, locked, got, flusher, history>>

\* evict_page takes page_table ...
EvictLock ==
    /\ fg = "evict"
    /\ ~ptW /\ ~ptR
    /\ ptW' = TRUE
    /\ UNCHANGED <<file, fg, locked, want, got, flusher, history>>

\* Arc::strong_count(frame) == 1
Unpinned == {v \in Cached : v # locked /\ ~(Attached /\ held = v)}

\* ... writes a dirty victim to the file and drops it ...
Evict(v) ==
    /\ fg = "evict" /\ ptW
    /\ v \in Unpinned
    /\ disk' = IF v \in dirty THEN [disk EXCEPT ![v] = mem[v]] ELSE disk
    /\ mem' = [mem EXCEPT ![v] = None]
    /\ dirty' = dirty \ {v}
    /\ ptW' = FALSE
    /\ fg' = "read"
    /\ UNCHANGED <<locked, want, got, flusher, history>>

\* ... or fails: the statement ends with Error::LruEviction and is rolled back.
EvictFail ==
    /\ fg = "evict" /\ ptW
    /\ Unpinned = {}
    /\ ptW' = FALSE
    /\ locked' = None /\ want' = None
    /\ fg' = "abort"
    /\ UNCHANGED <<file, got, flusher, history>>

ReadPage ==
    /\ fg = "read"
    /\ got' = disk[want]
    /\ fg' = "insert"
    /\ UNCHANGED <<file, ptW, locked, want, flusher, history>>

\* page_table.write().insert(..)
Insert ==
    /\ fg = "insert"
    /\ ~ptR
    /\ mem' = [mem EXCEPT ![want] = got]
    /\ want' = None /\ got' = None
    /\ fg' = IF locked = None THEN "idle" ELSE "wired"
    /\ UNCHANGED <<disk, dirty, ptW, locked, flusher, history>>

\* commit_transaction only reads frames.
Commit ==
    /\ fg = "idle"
    /\ base' = latest
    /\ touched' = {}
    /\ UNCHANGED <<file, connection, flusher, latest, stale>>

Rollback ==
    /\ fg = "idle" /\ touched # {}
    /\ fg' = "abort"
    /\ UNCHANGED <<file, ptW, locked, want, got, flusher, history>>

\* Mutant of AbortLock: abort_transaction does not wait for readers.
AbortLockShared ==
    /\ fg = "abort"
    /\ ~ptW
    /\ ptW' = TRUE
    /\ UNCHANGED <<file, fg, locked, want, got, flusher, history>>

\* abort_transaction holds page_table throughout ...
AbortLock ==
    /\ fg = "abort"
    /\ ~ptW /\ ~ptR
    /\ ptW' = TRUE
    /\ UNCHANGED <<file, fg, locked, want, got, flusher, history>>

\* ... but locks no frame, and a clone of the frame does not stop it.
AbortPage(p) ==
    /\ fg = "abort" /\ ptW
    /\ p \in touched
    /\ disk' = [disk EXCEPT ![p] = base[p]]
    /\ mem' = [mem EXCEPT ![p] = None]
    /\ dirty' = dirty \ {p}
    /\ orphan' = IF Attached /\ held = p
                 THEN [img |-> mem[p], dirty |-> p \in dirty]
                 ELSE orphan
    /\ touched' = touched \ {p}
    /\ latest' = [latest EXCEPT ![p] = base[p]]
    /\ stale' = IF held = p THEN stale \cup {p} ELSE stale
    /\ UNCHANGED <<connection, ptR, fl, cand, queue, held, base>>

AbortDone ==
    /\ fg = "abort" /\ ptW
    /\ touched = {}
    /\ ptW' = FALSE
    /\ fg' = "idle"
    /\ UNCHANGED <<file, locked, want, got, flusher, history>>

-----------------------------------------------------------------------------
(* The flusher. *)

DirtyThreshold == (Capacity * 3) \div 4
DirtyAllowed == Capacity \div 4

\* clean_pages_watermark: as many of the oldest pages as peek_rev gives ...
ScanStart(C) ==
    /\ fl = "idle"
    /\ ~ptW
    /\ C \subseteq Cached
    /\ Cardinality(C) = Min({DirtyThreshold, Cardinality(Cached)})
    /\ ptR' = TRUE
    /\ cand' = C
    /\ fl' = "scan"
    /\ UNCHANGED <<file, connection, queue, held, orphan, history>>

\* ... of which the dirty ones are noted, under frame.read() ...
ScanFrame(p) ==
    /\ fl = "scan"
    /\ p \in cand /\ p # locked
    /\ cand' = cand \ {p}
    /\ queue' = IF p \in dirty THEN queue \cup {p} ELSE queue
    /\ UNCHANGED <<file, connection, ptR, fl, held, orphan, history>>

\* Mutant of ScanEnd: the guard on page_table lives on while pages are flushed.
ScanEndHolds(Q) ==
    /\ fl = "scan" /\ cand = {}
    /\ Q \subseteq queue
    /\ IF Cardinality(queue) >= DirtyThreshold
       THEN Cardinality(Q) = DirtyThreshold - DirtyAllowed
       ELSE Q = {}
    /\ queue' = Q
    /\ fl' = "flush"
    /\ UNCHANGED <<file, connection, ptR, cand, held, orphan, history>>

\* ... and, if they reach the high watermark, flushed down to the low one.
ScanEnd(Q) ==
    /\ fl = "scan" /\ cand = {}
    /\ Q \subseteq queue
    /\ IF Cardinality(queue) >= DirtyThreshold
       THEN Cardinality(Q) = DirtyThreshold - DirtyAllowed
       ELSE Q = {}
    /\ ptR' = FALSE
    /\ queue' = Q
    /\ fl' = "flush"
    /\ UNCHANGED <<file, connection, cand, held, orphan, history>>

\* flush_all_pages of a checkpoint.
FlushAll ==
    /\ fl = "idle"
    /\ ~ptW
    /\ queue' = Cached
    /\ fl' = "flush"
    /\ UNCHANGED <<file, connection, ptR, cand, held, orphan, history>>

\* flush_page: look the frame up and clone it ...
Lookup(p) ==
    /\ fl = "flush" /\ p \in queue
    /\ ~ptW
    /\ queue' = queue \ {p}
    /\ IF mem[p] = None THEN UNCHANGED <<fl, held>> ELSE held' = p /\ fl' = "upgradable"
    /\ UNCHANGED <<file, connection, ptR, cand, orphan, history>>

\* is_dirty of the cloned frame.
HeldDirty == IF Attached THEN held \in dirty ELSE orphan.dirty

\* ... frame.upgradable_read() ...
FrameLock ==
    /\ fl = "upgradable"
    /\ Attached => held # locked
    /\ IF HeldDirty
       THEN /\ fl' = "write"
            /\ disk' = [disk EXCEPT ![held] = Torn]
            /\ UNCHANGED <<held, orphan>>
       ELSE /\ fl' = "flush"
            /\ held' = None /\ orphan' = None
            /\ UNCHANGED disk
    /\ UNCHANGED <<mem, dirty, connection, ptR, cand, queue, history>>

\* ... write_page ...
WritePage ==
    /\ fl = "write"
    /\ disk' = [disk EXCEPT ![held] = IF Attached THEN mem[held] ELSE orphan.img]
    /\ fl' = "clear"
    /\ UNCHANGED <<mem, dirty, connection, ptR, cand, queue, held, orphan, history>>

\* ... and with_upgraded(clear_dirty), still under the same lock.
ClearDirty ==
    /\ fl = "clear"
    /\ dirty' = IF Attached THEN dirty \ {held} ELSE dirty
    /\ held' = None /\ orphan' = None
    /\ fl' = "flush"
    /\ UNCHANGED <<disk, mem, connection, ptR, cand, queue, history>>

FlushEnd ==
    /\ fl = "flush" /\ queue = {}
    /\ fl' = "idle"
    /\ UNCHANGED <<file, connection, ptR, cand, queue, held, orphan, history>>

-----------------------------------------------------------------------------

\* Steps that continue what the connection has started.
Work ==
    \/ Unlock \/ EvictFail \/ ReadPage \/ AbortDone
    \/ \E p \in Pages : Evict(p) \/ AbortPage(p)

\* Steps for which the connection waits for page_table.
Acquire == EvictLock \/ Insert \/ AbortLock

\* Steps that continue what the flusher has started.
Flush ==
    \/ \E p \in Pages : ScanFrame(p) \/ Lookup(p)
    \/ \E Q \in SUBSET Pages : ScanEnd(Q)
    \/ FrameLock \/ WritePage \/ ClearDirty \/ FlushEnd

Next ==
    \/ \E p \in Hot : LockFrame(p)
    \/ \E p \in Pages : Miss(p)
    \/ \E c \in Vals : Change(c)
    \/ Commit \/ Rollback
    \/ \E C \in SUBSET Pages : ScanStart(C)
    \/ FlushAll
    \/ Work \/ Acquire \/ Flush

Spec == Init /\ [][Next]_vars

\* Both threads run, and parking_lot's page_table lock lets no new reader in
\* while a writer waits: a writer is not overtaken for ever.
FairSpec == Spec /\ WF_vars(Work) /\ WF_vars(Flush) /\ SF_vars(Acquire)

-----------------------------------------------------------------------------
(* Properties. *)

\* The types of the variables.
LocksTypeOK ==
    /\ disk \in [Pages -> Vals \cup {Torn}]
    /\ mem \in [Pages -> Vals \cup {Torn, None}]
    /\ dirty \subseteq Cached
    /\ ptW \in BOOLEAN /\ ptR \in BOOLEAN /\ ~(ptW /\ ptR)
    /\ fg \in {"idle", "locked", "evict", "read", "insert", "wired", "abort"}
    /\ locked \in Pages \cup {None} /\ want \in Pages \cup {None}
    /\ got \in Vals \cup {Torn, None}
    /\ fl \in {"idle", "scan", "flush", "upgradable", "write", "clear"}
    /\ cand \subseteq Pages /\ queue \subseteq Pages
    /\ held \in Pages \cup {None}
    /\ orphan \in {None} \cup [img : Vals \cup {Torn}, dirty : BOOLEAN]
    /\ base \in [Pages -> Vals] /\ latest \in [Pages -> Vals]
    /\ touched \subseteq Pages /\ stale \subseteq Pages

Seen(p) == IF mem[p] # None THEN mem[p] ELSE disk[p]

\* No update is lost and no page is read torn while the flusher writes pages
\* the connection is using, also in the middle of a load or a rollback: the
\* connection finds in each page what it wrote last, or what it rolled it back
\* to, but for pages that were rolled back while flush_page had a clone of them
\* (buffer_pool.rs, flush_page and evict_page).
NoLostUpdate == \A p \in Pages \ stale : Seen(p) = latest[p]

\* "the next read will fetch the uncorrupted data from disk, effectively
\* rolling back the memory state" (buffer_pool.rs, abort_transaction): also
\* when the flusher was at work on the page.
RollbackErases ==
    fg # "abort" => \A p \in Pages : p # want => Seen(p) = latest[p]

\* The connection holds a frame and waits for page_table; the flusher holds
\* page_table and waits for that frame.
Standoff ==
    /\ fg \in {"evict", "insert"} /\ ~ptW
    /\ ptR /\ locked \in cand

\* What a statement has started it ends, unless the two threads wait for each
\* other across page_table and one frame: that is the only deadlock.  The
\* standoff can happen, although clean_pages_watermark (buffer_pool.rs) means
\* to keep query threads from waiting for the flusher.
StatementsEnd == fg # "idle" ~> fg = "idle" \/ Standoff

-----------------------------------------------------------------------------
(* The inductive invariant behind NoLostUpdate. *)

\* What the connection holds in each of its states.
ConnectionHolds ==
    /\ fg \in {"idle", "abort"} => locked = None
    /\ fg \in {"locked", "wired"} => locked # None
    /\ want # None <=> fg \in {"evict", "read", "insert"}
    /\ want # None => mem[want] = None
    /\ locked # None => mem[locked] # None
    /\ ptW => fg \in {"evict", "abort"}

\* What the flusher holds in each of its states: page_table only while it
\* scans, a clone only inside flush_page, and the clone is the cached frame
\* unless a rollback took it out of page_table.
FlusherHolds ==
    /\ ptR <=> fl = "scan"
    /\ held # None <=> fl \in {"upgradable", "write", "clear"}
    /\ orphan # None => held # None /\ held \in stale
    /\ Attached => mem[held] # None

\* The frame flush_page is writing is dirty until it is written, and no one
\* else's.
FrameExclusive ==
    Attached /\ fl \in {"write", "clear"} => held # locked /\ held \in dirty

\* A frame that may be dropped or marked clean is in the file, and so is the
\* frame flush_page has written.
CleanIsOnDisk ==
    \A p \in Pages \ stale :
        \/ mem[p] # None /\ p \notin dirty
        \/ fl = "clear" /\ held = p
        => disk[p] = latest[p]

\* What a load has read is still what the page must hold when it is inserted.
LoadIsCurrent == fg = "insert" /\ want \notin stale => got = latest[want]

LocksInv ==
    /\ LocksTypeOK
    /\ ConnectionHolds
    /\ FlusherHolds
    /\ FrameExclusive
    /\ CleanIsOnDisk
    /\ LoadIsCurrent
    /\ NoLostUpdate

=============================================================================
