-------------------------- MODULE FlusherLocksProofs --------------------------
(***************************************************************************)
(* Proofs about FlusherLocks, for every set of pages, every capacity and   *)
(* every set of contents: the page table lock and the frame locks, taken   *)
(* as the code takes them, are enough for no update to be lost.            *)
(***************************************************************************)
EXTENDS FlusherLocks, TLAPS

USE LocksAssumption DEF file, connection, flusher, history

\* A database just opened, with nothing in the pool, meets the invariant.
LEMMA LocksInit == Init => LocksInv
BY ZenonT(60) DEF Init, LocksInv, LocksTypeOK, ConnectionHolds, FlusherHolds, FrameExclusive,
       CleanIsOnDisk, LoadIsCurrent, NoLostUpdate, Attached, Cached, Seen

-----------------------------------------------------------------------------
(* Steps of the connection. *)

\* frame.write() waits while flush_page writes that frame or marks it clean.
LEMMA LockFrameLocks ==
    ASSUME NEW p \in Pages, LocksInv, LockFrame(p)
    PROVE  LocksInv'
BY DEF LockFrame, LocksInv, LocksTypeOK, ConnectionHolds, FlusherHolds, FrameExclusive,
       CleanIsOnDisk, LoadIsCurrent, NoLostUpdate, Attached, Cached, Seen

\* The page the connection changes is not being written, and is dirty after.
LEMMA ChangeLocks ==
    ASSUME NEW c \in Vals, LocksInv, Change(c)
    PROVE  LocksInv'
BY DEF Change, LocksInv, LocksTypeOK, ConnectionHolds, FlusherHolds, FrameExclusive,
       CleanIsOnDisk, LoadIsCurrent, NoLostUpdate, Attached, Cached, Seen

\* Giving a frame up changes no page.
LEMMA UnlockLocks ==
    ASSUME LocksInv, Unlock
    PROVE  LocksInv'
BY DEF Unlock, LocksInv, LocksTypeOK, ConnectionHolds, FlusherHolds, FrameExclusive,
       CleanIsOnDisk, LoadIsCurrent, NoLostUpdate, Attached, Cached, Seen

\* A load starts with a page that is not cached.
LEMMA MissLocks ==
    ASSUME NEW p \in Pages, LocksInv, Miss(p)
    PROVE  LocksInv'
BY DEF Miss, LocksInv, LocksTypeOK, ConnectionHolds, FlusherHolds, FrameExclusive,
       CleanIsOnDisk, LoadIsCurrent, NoLostUpdate, Attached, Cached, Seen

\* page_table changes hands.
LEMMA PageTableLocks ==
    ASSUME LocksInv, EvictLock \/ AbortLock
    PROVE  LocksInv'
<1>1. CASE EvictLock
  BY <1>1 DEF EvictLock, LocksInv, LocksTypeOK, ConnectionHolds, FlusherHolds, FrameExclusive,
       CleanIsOnDisk, LoadIsCurrent, NoLostUpdate, Attached, Cached, Seen
<1>2. CASE AbortLock
  BY <1>2 DEF AbortLock, LocksInv, LocksTypeOK, ConnectionHolds, FlusherHolds, FrameExclusive,
       CleanIsOnDisk, LoadIsCurrent, NoLostUpdate, Attached, Cached, Seen
<1>3. QED
  BY <1>1, <1>2

\* The victim of an eviction is nobody's frame: a dirty one goes to the file
\* whole, a clean one is there already.
LEMMA EvictLocks ==
    ASSUME NEW v \in Pages, LocksInv, Evict(v)
    PROVE  LocksInv'
<1> USE DEF Evict, Unpinned, Attached, Cached
<1>1. LocksTypeOK'
  BY ZenonT(60) DEF LocksInv, LocksTypeOK
<1>2. ConnectionHolds'
  BY DEF LocksInv, LocksTypeOK, ConnectionHolds
<1>3. FlusherHolds'
  BY DEF LocksInv, LocksTypeOK, FlusherHolds
<1>4. FrameExclusive'
  BY DEF LocksInv, FrameExclusive
<1>5. mem[v] # None /\ (v \notin stale => mem[v] = latest[v] /\ disk'[v] = latest[v])
  BY DEF LocksInv, LocksTypeOK, CleanIsOnDisk, NoLostUpdate, Seen
<1>6. \A q \in Pages \ {v} : disk'[q] = disk[q] /\ mem'[q] = mem[q]
  BY DEF LocksInv, LocksTypeOK
<1>7. NoLostUpdate'
  BY <1>5, <1>6 DEF LocksInv, LocksTypeOK, NoLostUpdate, Seen
<1>8. CleanIsOnDisk'
  BY <1>5, <1>6 DEF LocksInv, LocksTypeOK, CleanIsOnDisk
<1>9. LoadIsCurrent'
  BY DEF LocksInv, LoadIsCurrent
<1>10. QED
  BY <1>1, <1>2, <1>3, <1>4, <1>7, <1>8, <1>9 DEF LocksInv

\* A failed eviction gives the frame up and starts the rollback.
LEMMA EvictFailLocks ==
    ASSUME LocksInv, EvictFail
    PROVE  LocksInv'
BY DEF EvictFail, LocksInv, LocksTypeOK, ConnectionHolds, FlusherHolds, FrameExclusive,
       CleanIsOnDisk, LoadIsCurrent, NoLostUpdate, Attached, Cached, Seen

\* The page being loaded is not cached, so no frame of it is being written,
\* unless one was rolled back under the flusher's hands.
LEMMA ReadPageLocks ==
    ASSUME LocksInv, ReadPage
    PROVE  LocksInv'
BY DEF ReadPage, LocksInv, LocksTypeOK, ConnectionHolds, FlusherHolds, FrameExclusive,
       CleanIsOnDisk, LoadIsCurrent, NoLostUpdate, Attached, Cached, Seen

\* What was read is still the page's content when it enters page_table.
LEMMA InsertLocks ==
    ASSUME LocksInv, Insert
    PROVE  LocksInv'
BY DEF Insert, LocksInv, LocksTypeOK, ConnectionHolds, FlusherHolds, FrameExclusive,
       CleanIsOnDisk, LoadIsCurrent, NoLostUpdate, Attached, Cached, Seen

\* A commit changes no frame.
LEMMA CommitLocks ==
    ASSUME LocksInv, Commit
    PROVE  LocksInv'
BY DEF Commit, LocksInv, LocksTypeOK, ConnectionHolds, FlusherHolds, FrameExclusive,
       CleanIsOnDisk, LoadIsCurrent, NoLostUpdate, Attached, Cached, Seen

\* A rollback starts with no frame locked.
LEMMA RollbackLocks ==
    ASSUME LocksInv, Rollback
    PROVE  LocksInv'
BY DEF Rollback, LocksInv, LocksTypeOK, ConnectionHolds, FlusherHolds, FrameExclusive,
       CleanIsOnDisk, LoadIsCurrent, NoLostUpdate, Attached, Cached, Seen

\* The page rolled back leaves page_table with its old content in the file;
\* the frame in the flusher's hands, if it is that page's, becomes an orphan
\* and the page one of `stale'.
LEMMA AbortPageLocks ==
    ASSUME NEW p \in Pages, LocksInv, AbortPage(p)
    PROVE  LocksInv'
<1> USE DEF AbortPage
<1>1. /\ fg = "abort" /\ locked = None /\ want = None
      /\ \A q \in Pages \ {p} :
            disk'[q] = disk[q] /\ mem'[q] = mem[q] /\ latest'[q] = latest[q]
      /\ disk'[p] = base[p] /\ mem'[p] = None /\ latest'[p] = base[p]
  BY DEF LocksInv, LocksTypeOK, ConnectionHolds
<1>2. orphan' # None <=> orphan # None \/ (Attached /\ held = p)
  <2>1. CASE Attached /\ held = p
    <3>1. orphan' \in [img : Vals \cup {Torn}, dirty : BOOLEAN]
      BY <2>1 DEF LocksInv, LocksTypeOK, FlusherHolds
    <3>2. QED
      BY <2>1, <3>1
  <2>2. CASE ~(Attached /\ held = p)
    BY <2>2
  <2>3. QED
    BY <2>1, <2>2
<1>3. LocksTypeOK'
  <2>1. orphan' \in {None} \cup [img : Vals \cup {Torn}, dirty : BOOLEAN]
    BY DEF LocksInv, LocksTypeOK, FlusherHolds
  <2>2. dirty' \subseteq Cached'
    BY <1>1 DEF LocksInv, LocksTypeOK, Cached
  <2>3. QED
    BY <2>1, <2>2 DEF LocksInv, LocksTypeOK
<1>4. ConnectionHolds'
  BY <1>1 DEF LocksInv, ConnectionHolds
<1>5. FlusherHolds'
  <2>1. orphan' # None => held' # None /\ held' \in stale'
    BY <1>2 DEF LocksInv, FlusherHolds, Attached
  <2>2. Attached' => Attached /\ held # p
    BY <1>2 DEF Attached
  <2>3. Attached' => mem'[held'] # None
    BY <1>1, <2>2 DEF LocksInv, LocksTypeOK, FlusherHolds, Attached
  <2>4. QED
    BY <2>1, <2>3 DEF LocksInv, FlusherHolds
<1>6. FrameExclusive'
  BY <1>2 DEF LocksInv, FrameExclusive, Attached
<1>7. CleanIsOnDisk'
  BY <1>1 DEF LocksInv, LocksTypeOK, CleanIsOnDisk
<1>8. LoadIsCurrent'
  BY <1>1 DEF LocksInv, LoadIsCurrent
<1>9. NoLostUpdate'
  BY <1>1 DEF LocksInv, LocksTypeOK, NoLostUpdate, Seen
<1>10. QED
  BY <1>3, <1>4, <1>5, <1>6, <1>7, <1>8, <1>9 DEF LocksInv

\* The end of a rollback gives page_table up.
LEMMA AbortDoneLocks ==
    ASSUME LocksInv, AbortDone
    PROVE  LocksInv'
BY DEF AbortDone, LocksInv, LocksTypeOK, ConnectionHolds, FlusherHolds, FrameExclusive,
       CleanIsOnDisk, LoadIsCurrent, NoLostUpdate, Attached, Cached, Seen

-----------------------------------------------------------------------------
(* Steps of the flusher. *)

\* The scan takes page_table for reading while nobody writes it.
LEMMA ScanStartLocks ==
    ASSUME NEW C \in SUBSET Pages, LocksInv, ScanStart(C)
    PROVE  LocksInv'
BY DEF ScanStart, LocksInv, LocksTypeOK, ConnectionHolds, FlusherHolds, FrameExclusive,
       CleanIsOnDisk, LoadIsCurrent, NoLostUpdate, Attached, Cached, Seen

\* The scan only looks at the dirty marks.
LEMMA ScanFrameLocks ==
    ASSUME NEW p \in Pages, LocksInv, ScanFrame(p)
    PROVE  LocksInv'
BY DEF ScanFrame, LocksInv, LocksTypeOK, ConnectionHolds, FlusherHolds, FrameExclusive,
       CleanIsOnDisk, LoadIsCurrent, NoLostUpdate, Attached, Cached, Seen

\* The end of the scan gives page_table up.
LEMMA ScanEndLocks ==
    ASSUME NEW Q \in SUBSET Pages, LocksInv, ScanEnd(Q)
    PROVE  LocksInv'
BY DEF ScanEnd, LocksInv, LocksTypeOK, ConnectionHolds, FlusherHolds, FrameExclusive,
       CleanIsOnDisk, LoadIsCurrent, NoLostUpdate, Attached, Cached, Seen

\* The pages of a checkpoint are cached when they are noted.
LEMMA FlushAllLocks ==
    ASSUME LocksInv, FlushAll
    PROVE  LocksInv'
BY DEF FlushAll, LocksInv, LocksTypeOK, ConnectionHolds, FlusherHolds, FrameExclusive,
       CleanIsOnDisk, LoadIsCurrent, NoLostUpdate, Attached, Cached, Seen

\* The frame flush_page clones is the cached one.
LEMMA LookupLocks ==
    ASSUME NEW p \in Pages, LocksInv, Lookup(p)
    PROVE  LocksInv'
BY DEF Lookup, LocksInv, LocksTypeOK, ConnectionHolds, FlusherHolds, FrameExclusive,
       CleanIsOnDisk, LoadIsCurrent, NoLostUpdate, Attached, Cached, Seen

\* The page torn in the file is dirty in the pool or a stale one.
LEMMA FrameLockLocks ==
    ASSUME LocksInv, FrameLock
    PROVE  LocksInv'
BY DEF FrameLock, LocksInv, LocksTypeOK, ConnectionHolds, FlusherHolds, FrameExclusive,
       CleanIsOnDisk, LoadIsCurrent, NoLostUpdate, Attached, Cached, Seen, HeldDirty

\* The page written is whole again, and what the pool has.
LEMMA WritePageLocks ==
    ASSUME LocksInv, WritePage
    PROVE  LocksInv'
<1> USE DEF WritePage, Attached
<1>1. held \in Pages
  BY DEF LocksInv, LocksTypeOK, FlusherHolds
<1>2. held \notin stale => Attached /\ held \in dirty /\ mem[held] = latest[held]
  BY <1>1 DEF LocksInv, LocksTypeOK, FlusherHolds, FrameExclusive, NoLostUpdate, Seen
<1>3. disk'[held] = (IF Attached THEN mem[held] ELSE orphan.img)
  BY <1>1 DEF LocksInv, LocksTypeOK
<1>4. held \notin stale => disk'[held] = latest[held]
  BY <1>2, <1>3
<1>5. disk' \in [Pages -> Vals \cup {Torn}]
  BY <1>1, <1>3 DEF LocksInv, LocksTypeOK, FlusherHolds
<1>6. LocksTypeOK'
  BY <1>5 DEF LocksInv, LocksTypeOK, Cached
<1>7. ConnectionHolds' /\ FlusherHolds' /\ FrameExclusive' /\ LoadIsCurrent'
  BY DEF LocksInv, ConnectionHolds, FlusherHolds, FrameExclusive, LoadIsCurrent
<1>8. CleanIsOnDisk'
  BY <1>1, <1>4 DEF LocksInv, LocksTypeOK, CleanIsOnDisk
<1>9. NoLostUpdate'
  BY <1>1, <1>2 DEF LocksInv, LocksTypeOK, NoLostUpdate, Seen
<1>10. QED
  BY <1>6, <1>7, <1>8, <1>9 DEF LocksInv

\* The frame marked clean is in the file.
LEMMA ClearDirtyLocks ==
    ASSUME LocksInv, ClearDirty
    PROVE  LocksInv'
BY DEF ClearDirty, LocksInv, LocksTypeOK, ConnectionHolds, FlusherHolds, FrameExclusive,
       CleanIsOnDisk, LoadIsCurrent, NoLostUpdate, Attached, Cached, Seen

\* The end of a flush changes no frame.
LEMMA FlushEndLocks ==
    ASSUME LocksInv, FlushEnd
    PROVE  LocksInv'
BY DEF FlushEnd, LocksInv, LocksTypeOK, ConnectionHolds, FlusherHolds, FrameExclusive,
       CleanIsOnDisk, LoadIsCurrent, NoLostUpdate, Attached, Cached, Seen

-----------------------------------------------------------------------------

\* Every step of the two threads preserves the invariant.
LEMMA LocksNext == LocksInv /\ [Next]_vars => LocksInv'
<1> SUFFICES ASSUME LocksInv, [Next]_vars
             PROVE  LocksInv'
  OBVIOUS
<1>1. CASE \E p \in Hot : LockFrame(p)
  BY <1>1, LockFrameLocks
<1>2. CASE \E p \in Pages : Miss(p)
  BY <1>2, MissLocks
<1>3. CASE \E c \in Vals : Change(c)
  BY <1>3, ChangeLocks
<1>4. CASE Commit \/ Rollback
  BY <1>4, CommitLocks, RollbackLocks
<1>5. CASE FlushAll \/ \E C \in SUBSET Pages : ScanStart(C)
  BY <1>5, FlushAllLocks, ScanStartLocks
<1>6. CASE Work
  BY <1>6, UnlockLocks, EvictFailLocks, ReadPageLocks, AbortDoneLocks,
     EvictLocks, AbortPageLocks DEF Work
<1>7. CASE Acquire
  BY <1>7, PageTableLocks, InsertLocks DEF Acquire
<1>8. CASE Flush
  BY <1>8, ScanFrameLocks, LookupLocks, ScanEndLocks, FrameLockLocks,
     WritePageLocks, ClearDirtyLocks, FlushEndLocks DEF Flush
<1>9. CASE UNCHANGED vars
  BY <1>9 DEF vars, LocksInv, LocksTypeOK, ConnectionHolds, FlusherHolds, FrameExclusive,
       CleanIsOnDisk, LoadIsCurrent, NoLostUpdate, Attached, Cached, Seen
<1>10. QED
  BY <1>1, <1>2, <1>3, <1>4, <1>5, <1>6, <1>7, <1>8, <1>9 DEF Next

\* The invariant holds in every state of the two threads.
THEOREM LocksInvariant == Spec => []LocksInv
BY LocksInit, LocksNext, PTL DEF Spec

\* The variables keep their types; page_table is never held for writing by the
\* connection and for reading by the flusher at once.
THEOREM LocksTypeCorrect == Spec => []LocksTypeOK
<1>1. LocksInv => LocksTypeOK
  BY DEF LocksInv
<1>2. QED
  BY <1>1, LocksInvariant, PTL

\* However flush_page, evict_page, fetch_page and abort_transaction interleave,
\* no update is lost and no page is read torn, but for pages rolled back while
\* flush_page had a clone of them.
THEOREM UpdatesKept == Spec => []NoLostUpdate
<1>1. LocksInv => NoLostUpdate
  BY DEF LocksInv
<1>2. QED
  BY <1>1, LocksInvariant, PTL
=============================================================================
