---------------------------- MODULE StorageEngine ----------------------------
(***************************************************************************)
(* The STEAL / NO-FORCE storage engine of hinder-db: the buffer pool, the  *)
(* write-ahead log, the database file, the transaction of the one          *)
(* connection, the checkpoint of the background flusher and the recovery   *)
(* that runs when a database is opened.                                    *)
(*                                                                         *)
(* The process may be killed between any two steps.  What a killed process *)
(* has written survives in the operating system, so `disk', `hdr' and      *)
(* `wal' keep their contents and everything else is lost.  (Loss of power, *)
(* where fsync matters, is a different fault; wal_offset and flushed_offset *)
(* decide only when to fsync and are not part of this module.)             *)
(*                                                                         *)
(* A page's 8 KiB are one abstract content.  The commit batch and the      *)
(* loops over pages in abort, checkpoint and recovery are one step per     *)
(* page, so that a kill can separate them.  The victim of an eviction is   *)
(* any cached page: every choice of the LRU list (module LruReplacer) is   *)
(* one of these.                                                           *)
(***************************************************************************)
EXTENDS Naturals, Sequences, FiniteSets

CONSTANTS
    MaxPages,      \* bound: page ids are 1..MaxPages (offset / PAGE_SIZE)
    InitPages,     \* pages that exist when the behaviour starts
    Capacity,      \* capacity of the buffer pool, in pages
    MaxTxn,        \* bound: transactions begun per process
    CkptThreshold, \* log length above which the flusher checkpoints
    Vals,          \* contents a mutation can leave in a page, Empty or others
    Empty,         \* the content BTreeNode::new_empty gives a page
    None           \* no such page: not cached, or never written to the file

ASSUME BoundsAssumption ==
    /\ MaxPages \in Nat /\ InitPages \in 1..MaxPages
    /\ Capacity \in Nat \ {0}
    /\ MaxTxn \in Nat /\ CkptThreshold \in Nat

ASSUME ContentAssumption ==
    None \notin Vals /\ None # Empty

Pages == 1..MaxPages

Content == Vals \cup {Empty}

\* WalRecord: an Undo or Redo image of one page, or a Commit marker.
Image == [kind : {"undo", "redo"}, txn : Nat, page : Pages, img : Content]
Marker == [kind : {"commit"}, txn : Nat]
WalRecord == Image \cup Marker

Undo(t, p, c) == [kind |-> "undo", txn |-> t, page |-> p, img |-> c]
Redo(t, p, c) == [kind |-> "redo", txn |-> t, page |-> p, img |-> c]
CommitMark(t) == [kind |-> "commit", txn |-> t]

VARIABLES
    disk,     \* the pages of the .db file
    hdr,      \* next_free_offset in the file's header
    wal,      \* the .wal file
    mem,      \* page_table: the cached contents
    dirty,    \* cached pages whose is_dirty is set
    nextFree, \* next_free_offset in memory
    txn,      \* the connection's transaction, 0 when it has none
    nextTxn,  \* next_txn_id
    undo,     \* TxnState.undo_logged (= dirty_pages): log position, 0 if none
    op,       \* what the connection's thread is doing, by the locks it holds
    pend,     \* pages the running commit or recovery has still to handle
    ck,       \* what the flusher is doing
    ckPend,   \* pages the running checkpoint has still to flush
    closing,  \* the checkpoint is the one of a shutdown
    \* History: what the client was promised.
    committed, \* contents as of the last acknowledged commit
    work,      \* contents as the open transaction sees them
    lost,      \* pages the log lacks the record of that recovery may need
    damaged    \* pages whose committed content the engine has given up

store == <<disk, hdr, wal>>
pool == <<mem, dirty, nextFree>>
session == <<txn, nextTxn, undo, op, pend>>
flusher == <<ck, ckPend, closing>>
history == <<committed, work, lost, damaged>>
vars == <<store, pool, session, flusher, history>>

Cached == {p \in Pages : mem[p] # None}
Touched == {p \in Pages : undo[p] # 0}

-----------------------------------------------------------------------------
(* Recovery's reading of a log. *)

CommittedTxns(w) == {w[i].txn : i \in {j \in DOMAIN w : w[j].kind = "commit"}}

\* Mutant of Applies: a Redo image is applied whether or not its transaction
\* committed.
AppliesAnyRedo(w, i, p) ==
    /\ w[i].kind # "commit"
    /\ w[i].page = p
    /\ w[i].kind = "undo" => w[i].txn \notin CommittedTxns(w)

\* Record i of w is one that RecoveryEngine::init may write to page p.
Applies(w, i, p) ==
    /\ w[i].kind # "commit"
    /\ w[i].page = p
    /\ w[i].kind = "undo" <=> w[i].txn \notin CommittedTxns(w)

\* The reverse scan meets record i first: it is the one written to page p.
Restores(w, i, p) ==
    /\ Applies(w, i, p)
    /\ \A j \in DOMAIN w : j > i => ~Applies(w, j, p)

\* Recovery of the log w over the file d leaves content c in page p.
RecoversTo(w, d, p, c) ==
    \/ \E i \in DOMAIN w : Restores(w, i, p) /\ w[i].img = c
    \/ (\A i \in DOMAIN w : ~Applies(w, i, p)) /\ d[p] = c

-----------------------------------------------------------------------------
(* A database that was created and shut down cleanly, just opened. *)

Init ==
    /\ disk = [p \in Pages |-> IF p <= InitPages THEN Empty ELSE None]
    /\ hdr = InitPages + 1
    /\ wal = <<>>
    /\ mem = [p \in Pages |-> None]
    /\ dirty = {}
    /\ nextFree = InitPages + 1
    /\ txn = 0
    /\ nextTxn = 1
    /\ undo = [p \in Pages |-> 0]
    /\ op = "run"
    /\ pend = {}
    /\ ck = "idle"
    /\ ckPend = {}
    /\ closing = FALSE
    /\ committed = disk
    /\ work = disk
    /\ lost = {}
    /\ damaged = {}

\* The connection's thread may start an operation.  It need not wait for a
\* checkpoint: the flusher holds no lock between the steps of one.
Running == op = "run" /\ ~closing

\* The process has its database open: the flusher runs.
Up == op \in {"run", "commit", "batch", "abort", "rollback"}

\* The locks the connection's thread holds between its steps: page_table for
\* writing in the loop of a rollback, the WAL mutex there and in a commit from
\* write_batch on.  In "commit" and "abort" the transaction is already out of
\* active_txns and neither lock is taken.
TableFree == op # "rollback"
LogFree == op \notin {"batch", "rollback"}

-----------------------------------------------------------------------------
(* Buffer pool. *)

\* evict_page runs only when the pool is full; it takes one page out.
Victims == IF Cardinality(Cached) < Capacity THEN {{}} ELSE {{v} : v \in Cached}

\* The file after the dirty pages among S were written to it.
Written(S) == [q \in Pages |-> IF q \in S \cap dirty THEN mem[q] ELSE disk[q]]

Without(S) == [q \in Pages |-> IF q \in S THEN None ELSE mem[q]]

\* fetch_page on a cache miss.  A B+-tree reaches only pages it has linked.
FetchPage(p) ==
    /\ Running
    /\ mem[p] = None
    /\ work[p] # None /\ disk[p] # None
    /\ \E V \in Victims :
         /\ disk' = Written(V)
         /\ mem' = [Without(V) EXCEPT ![p] = disk[p]]
         /\ dirty' = dirty \ V
    /\ UNCHANGED <<hdr, wal, nextFree, session, flusher, history>>

\* The log and the undo map once page p with content c is set up for mutation.
LogUndo(p, c) ==
    IF undo[p] = 0
    THEN /\ wal' = Append(wal, Undo(txn, p, c))
         /\ undo' = [undo EXCEPT ![p] = Len(wal) + 1]
    ELSE UNCHANGED <<wal, undo>>

\* begin_page_mutation of a cached page (FetchPage brings in the others).
BeginPageMutation(p) ==
    /\ Running
    /\ txn # 0
    /\ mem[p] # None
    /\ LogUndo(p, mem[p])
    /\ UNCHANGED <<disk, hdr, pool, txn, nextTxn, op, pend, flusher, history>>

\* The B+-tree changes a page it called begin_page_mutation for.
WritePage(p, c) ==
    /\ Running
    /\ txn # 0
    /\ undo[p] # 0 /\ mem[p] # None
    /\ mem' = [mem EXCEPT ![p] = c]
    /\ dirty' = dirty \cup {p}
    /\ work' = [work EXCEPT ![p] = c]
    /\ UNCHANGED <<store, nextFree, session, flusher, committed, lost, damaged>>

\* new_page, then begin_page_mutation and the first write, which every caller
\* does at once while it holds the frame.  The id may be one whose page is
\* already in use: nextFree goes back to hdr when the process restarts.
NewPage(c) ==
    LET n == nextFree IN
    /\ Running
    /\ txn # 0
    /\ n \in Pages
    /\ nextFree' = n + 1
    /\ \E V \in Victims :
         /\ disk' = Written(V)
         /\ mem' = [Without(V) EXCEPT ![n] = c]
         /\ dirty' = (dirty \ V) \cup {n}
    /\ LogUndo(n, Empty)
    /\ work' = [work EXCEPT ![n] = c]
    /\ damaged' = IF committed[n] # None THEN damaged \cup {n} ELSE damaged
    /\ UNCHANGED <<hdr, txn, nextTxn, op, pend, flusher, committed, lost>>

\* flush_page, called by clean_pages_watermark, on the flusher's thread, for
\* some of the dirty pages.
FlushPage(p) ==
    /\ Up /\ TableFree /\ ck = "idle"
    /\ p \in dirty
    /\ disk' = Written({p})
    /\ dirty' = dirty \ {p}
    /\ UNCHANGED <<hdr, wal, mem, nextFree, session, flusher, history>>

-----------------------------------------------------------------------------
(* Transactions. *)

Begin ==
    /\ Running
    /\ txn = 0 /\ nextTxn <= MaxTxn
    /\ txn' = nextTxn
    /\ nextTxn' = nextTxn + 1
    /\ UNCHANGED <<store, pool, undo, op, pend, flusher, history>>

\* Commit or abort of a transaction that touched no page: active_txns has no
\* state for it, and nothing is written.
EndReadOnly ==
    /\ Running
    /\ txn # 0 /\ Touched = {}
    /\ txn' = 0
    /\ UNCHANGED <<store, pool, nextTxn, undo, op, pend, flusher, history>>

\* commit_transaction takes the transaction's state out of active_txns (see
\* Active): from here on can_checkpoint no longer sees it ...
StartCommit ==
    /\ Running
    /\ txn # 0 /\ Touched # {}
    /\ op' = "commit"
    /\ UNCHANGED <<store, pool, txn, nextTxn, undo, pend, flusher, history>>

\* ... takes the WAL mutex and writes its batch: a Redo image for each dirty
\* page that is still in page_table, nothing for the others ...
WriteBatch ==
    /\ op = "commit"
    /\ op' = "batch"
    /\ pend' = Touched
    /\ UNCHANGED <<store, pool, txn, nextTxn, undo, flusher, history>>

CommitRedo(p) ==
    /\ op = "batch"
    /\ p \in pend /\ mem[p] # None
    /\ wal' = Append(wal, Redo(txn, p, mem[p]))
    /\ pend' = pend \ {p}
    /\ UNCHANGED <<disk, hdr, pool, txn, nextTxn, undo, op, flusher, history>>

CommitSkip(p) ==
    /\ op = "batch"
    /\ p \in pend /\ mem[p] = None
    /\ pend' = pend \ {p}
    /\ UNCHANGED <<store, pool, txn, nextTxn, undo, op, flusher, history>>

\* Mutant of CommitDone: the marker may precede Redo images of its batch.
CommitDoneEarly ==
    /\ op = "batch"
    /\ wal' = Append(wal, CommitMark(txn))
    /\ txn' = 0
    /\ undo' = [p \in Pages |-> 0]
    /\ op' = "run"
    /\ committed' = work
    /\ lost' = (lost \ (Touched \cap Cached)) \cup (Touched \ Cached)
    /\ pend' = {}
    /\ UNCHANGED <<disk, hdr, pool, nextTxn, flusher, work, damaged>>

\* ... and the Commit marker that ends it.
CommitDone ==
    /\ op = "batch"
    /\ pend = {}
    /\ wal' = Append(wal, CommitMark(txn))
    /\ txn' = 0
    /\ undo' = [p \in Pages |-> 0]
    /\ op' = "run"
    /\ committed' = work
    /\ lost' = (lost \ (Touched \cap Cached)) \cup (Touched \ Cached)
    /\ UNCHANGED <<disk, hdr, pool, nextTxn, pend, flusher, work, damaged>>

\* abort_transaction, by ROLLBACK, a failed statement or Drop: the state
\* leaves active_txns first ...
StartAbort ==
    /\ Running
    /\ txn # 0 /\ Touched # {}
    /\ op' = "abort"
    /\ work' = committed
    /\ UNCHANGED <<store, pool, txn, nextTxn, undo, pend, flusher, committed, lost, damaged>>

\* ... then page_table and the WAL mutex are taken for the loop over the pages.
LockRollback ==
    /\ op = "abort"
    /\ op' = "rollback"
    /\ UNCHANGED <<store, pool, txn, nextTxn, undo, pend, flusher, history>>

\* The loop looks at the record's kind only.  After a truncation in between
\* the record at the offset, if there is one, belongs to another page.
HasUndo(p) == undo[p] \in DOMAIN wal /\ wal[undo[p]].kind = "undo"

OwnUndo(p) == HasUndo(p) /\ wal[undo[p]].txn = txn /\ wal[undo[p]].page = p

\* Mutant of AbortPage: the rolled-back page stays in the pool.
AbortPageCached(p) ==
    /\ op = "rollback"
    /\ undo[p] # 0 /\ HasUndo(p)
    /\ disk' = [disk EXCEPT ![p] = wal[undo[p]].img]
    /\ undo' = [undo EXCEPT ![p] = 0]
    /\ UNCHANGED <<hdr, wal, pool, txn, nextTxn, op, pend, flusher, history>>

\* Mutant of AbortPage: the loop never gets past a page.
AbortPageAgain(p) ==
    /\ op = "rollback"
    /\ undo[p] # 0 /\ HasUndo(p)
    /\ disk' = [disk EXCEPT ![p] = wal[undo[p]].img]
    /\ mem' = [mem EXCEPT ![p] = None]
    /\ dirty' = dirty \ {p}
    /\ UNCHANGED <<hdr, wal, nextFree, session, flusher, history>>

\* The Undo image goes to the file and the page leaves the pool.
AbortPage(p) ==
    /\ op = "rollback"
    /\ undo[p] # 0 /\ HasUndo(p)
    /\ disk' = [disk EXCEPT ![p] = wal[undo[p]].img]
    /\ mem' = [mem EXCEPT ![p] = None]
    /\ dirty' = dirty \ {p}
    /\ undo' = [undo EXCEPT ![p] = 0]
    /\ damaged' = IF OwnUndo(p) THEN damaged ELSE damaged \cup {p}
    /\ UNCHANGED <<hdr, wal, nextFree, txn, nextTxn, op, pend, flusher, committed, work, lost>>

\* The record is gone, or the offset falls inside another one: the abort
\* returns the error, the remaining pages stay as they are, and the abort of
\* Drop finds no state to undo.
AbortFail(p) ==
    /\ op = "rollback"
    /\ undo[p] # 0 /\ ~OwnUndo(p)
    /\ undo' = [q \in Pages |-> 0]
    /\ txn' = 0
    /\ op' = "run"
    /\ damaged' = damaged \cup Touched
    /\ UNCHANGED <<store, pool, nextTxn, pend, flusher, committed, work, lost>>

AbortDone ==
    /\ op = "rollback"
    /\ Touched = {}
    /\ txn' = 0
    /\ op' = "run"
    /\ UNCHANGED <<store, pool, nextTxn, undo, pend, flusher, history>>

-----------------------------------------------------------------------------
(* Checkpoint and shutdown: the background flusher. *)

\* The pages of the states in active_txns.  commit_transaction and
\* abort_transaction go on with a state they have taken out.
Active == IF op = "run" THEN Touched ELSE {}

\* can_checkpoint: no transaction has state in active_txns.
CanCheckpoint == Active = {}

\* The size of the log is read under the WAL mutex.
StartCheckpoint ==
    /\ Up /\ LogFree /\ ck = "idle"
    /\ Len(wal) > CkptThreshold
    /\ CanCheckpoint
    /\ ck' = "list"
    /\ UNCHANGED <<store, pool, session, ckPend, closing, history>>

\* The Database is dropped; a Connection borrows it, so it is gone already.
StartShutdown ==
    /\ op = "run" /\ ck = "idle"
    /\ txn = 0
    /\ CanCheckpoint
    /\ ck' = "list"
    /\ closing' = TRUE
    /\ UNCHANGED <<store, pool, session, ckPend, history>>

\* flush_all_pages: the ids in page_table, each flushed in turn ...
CkptList ==
    /\ TableFree /\ ck = "list"
    /\ ck' = "flush"
    /\ ckPend' = Cached
    /\ UNCHANGED <<store, pool, session, closing, history>>

\* Mutant of CkptFlush: the dirty marks are cleared before the pages that
\* carry them are written.
CkptFlushClearsAll(p) ==
    /\ TableFree /\ ck = "flush"
    /\ p \in ckPend
    /\ disk' = Written({p})
    /\ dirty' = {}
    /\ ckPend' = ckPend \ {p}
    /\ UNCHANGED <<hdr, wal, mem, nextFree, session, ck, closing, history>>

CkptFlush(p) ==
    /\ TableFree /\ ck = "flush"
    /\ p \in ckPend
    /\ disk' = Written({p})
    /\ dirty' = dirty \ {p}
    /\ ckPend' = ckPend \ {p}
    /\ UNCHANGED <<hdr, wal, mem, nextFree, session, ck, closing, history>>

\* Mutant of CkptHeader: the header claims a page that was not allocated.
CkptHeaderAhead ==
    /\ ck = "flush"
    /\ ckPend = {}
    /\ hdr' = nextFree + 1
    /\ ck' = "truncate"
    /\ UNCHANGED <<disk, wal, pool, session, ckPend, closing, history>>

\* ... then save_header, which takes none of these locks.
CkptHeader ==
    /\ ck = "flush"
    /\ ckPend = {}
    /\ hdr' = nextFree
    /\ ck' = "truncate"
    /\ UNCHANGED <<disk, wal, pool, session, ckPend, closing, history>>

\* The log is truncated under the WAL mutex, whatever has happened since
\* can_checkpoint.  Gone with it are the Undo images of a transaction that is
\* still open, and the Redo images of pages that are dirty again.
CkptTruncate ==
    /\ LogFree /\ ck = "truncate"
    /\ wal' = <<>>
    /\ ck' = "idle"
    /\ closing' = FALSE
    /\ op' = IF closing THEN "down" ELSE op
    /\ mem' = IF closing THEN [p \in Pages |-> None] ELSE mem
    /\ lost' = Touched \cup dirty
    /\ UNCHANGED <<disk, hdr, dirty, nextFree, txn, nextTxn, undo, pend, ckPend,
                   committed, work, damaged>>

-----------------------------------------------------------------------------
(* Kill, open and recovery. *)

Kill ==
    /\ op # "down"
    /\ mem' = [p \in Pages |-> None]
    /\ dirty' = {}
    /\ txn' = 0
    /\ undo' = [p \in Pages |-> 0]
    /\ op' = "down"
    /\ pend' = {}
    /\ ck' = "idle" /\ ckPend' = {} /\ closing' = FALSE
    /\ work' = committed
    /\ damaged' = damaged \cup lost
    /\ lost' = {}
    /\ UNCHANGED <<store, nextFree, nextTxn, committed>>

\* Database::open up to the scan of the log.
Open ==
    /\ op = "down"
    /\ nextFree' = hdr
    /\ nextTxn' = 1
    /\ op' = IF wal = <<>> THEN "run" ELSE "recover"
    /\ pend' = {p \in Pages : \E i \in DOMAIN wal : Applies(wal, i, p)}
    /\ UNCHANGED <<store, mem, dirty, txn, undo, flusher, history>>

RecoverPage(p) ==
    /\ op = "recover"
    /\ p \in pend
    /\ \E i \in DOMAIN wal :
         /\ Restores(wal, i, p)
         /\ disk' = [disk EXCEPT ![p] = wal[i].img]
    /\ pend' = pend \ {p}
    /\ UNCHANGED <<hdr, wal, pool, txn, nextTxn, undo, op, flusher, history>>

\* save_header, then truncate.
RecoverHeader ==
    /\ op = "recover"
    /\ pend = {}
    /\ hdr' = nextFree
    /\ op' = "recovered"
    /\ UNCHANGED <<disk, wal, pool, txn, nextTxn, undo, pend, flusher, history>>

RecoverDone ==
    /\ op = "recovered"
    /\ wal' = <<>>
    /\ op' = "run"
    /\ UNCHANGED <<disk, hdr, pool, txn, nextTxn, undo, pend, flusher, history>>

-----------------------------------------------------------------------------

\* The operations a thread of the process goes through once it has started
\* them: the connection's (or, in recovery, the opening one), the flusher's.
FinishOp ==
    \/ \E p \in Pages : CommitRedo(p) \/ CommitSkip(p) \/ AbortPage(p) \/ AbortFail(p)
    \/ \E p \in Pages : RecoverPage(p)
    \/ WriteBatch \/ CommitDone \/ LockRollback \/ AbortDone
    \/ RecoverHeader \/ RecoverDone

FinishCheckpoint ==
    \/ \E p \in Pages : CkptFlush(p)
    \/ CkptList \/ CkptHeader \/ CkptTruncate

Next ==
    \/ \E p \in Pages : FetchPage(p) \/ BeginPageMutation(p) \/ FlushPage(p)
    \/ \E p \in Pages, c \in Vals : WritePage(p, c)
    \/ \E c \in Content : NewPage(c)
    \/ Begin \/ EndReadOnly \/ StartCommit \/ StartAbort
    \/ StartCheckpoint \/ StartShutdown
    \/ Kill \/ Open
    \/ FinishOp \/ FinishCheckpoint

Spec == Init /\ [][Next]_vars

\* What a truncation takes for granted: no transaction has touched a page and
\* no page is dirty.  can_checkpoint does not make sure of it.
Quiet == Touched = {} /\ dirty = {}

\* The executions in which every truncation finds it so.
QuietNext == Next /\ (CkptTruncate => Quiet)

QuietSpec == Init /\ [][QuietNext]_vars

\* Commit, abort and recovery are straight-line code on a running thread: once
\* started each keeps going until it ends or the process does.
FairSpec == QuietSpec /\ WF_vars(FinishOp)

\* A way to be sure of it: a checkpoint starts when no commit or abort is
\* running, and no page is set up for mutation until it is over.
SerialNext ==
    /\ Next
    /\ StartCheckpoint => op = "run"
    /\ ck # "idle" => UNCHANGED undo

SerialSpec == Init /\ [][SerialNext]_vars

-----------------------------------------------------------------------------
(* Properties. *)

\* The types of the variables.
TypeOK ==
    /\ disk \in [Pages -> Content \cup {None}]
    /\ hdr \in 1..(MaxPages + 1)
    /\ wal \in Seq(WalRecord)
    /\ mem \in [Pages -> Content \cup {None}]
    /\ dirty \subseteq Pages
    /\ nextFree \in 1..(MaxPages + 1)
    /\ txn \in Nat
    /\ nextTxn \in Nat \ {0}
    /\ undo \in [Pages -> Nat]
    /\ op \in {"run", "commit", "batch", "abort", "rollback",
              "down", "recover", "recovered"}
    /\ pend \subseteq Pages
    /\ ck \in {"idle", "list", "flush", "truncate"}
    /\ ckPend \subseteq Pages
    /\ closing \in BOOLEAN
    /\ committed \in [Pages -> Content \cup {None}]
    /\ work \in [Pages -> Content \cup {None}]
    /\ lost \subseteq Pages
    /\ damaged \subseteq Pages

\* What the client was promised about page p is still at stake: the log has
\* the records a recovery of p may need, and p was not given up before.
Kept(p) == p \notin lost \cup damaged /\ committed[p] # None

\* A kill in any state, also in the middle of a commit, an abort, a checkpoint
\* or an earlier recovery, and with a checkpoint's steps anywhere between the
\* connection's, loses no committed content of a page and brings back no
\* uncommitted one: recovery of the file and log as they are now yields the
\* committed content (recovery.rs, RecoveryEngine::init).  Excepted are the
\* pages of `lost' -- committed without a Redo image because they had been
\* evicted; or touched by a transaction in progress, or dirty, when the log
\* was last truncated -- until a commit logs a Redo image for them, and those
\* of `damaged', which a kill or a rollback met while their records were gone.
RecoveryRestoresCommitted ==
    \A p \in Pages : Kept(p) => RecoversTo(wal, disk, p, committed[p])

\* Whatever the pool evicted or flushed and whatever was rolled back or
\* recovered before, a running engine reads in each page what the open
\* transaction last wrote there, and otherwise the committed content
\* (buffer_pool.rs, fetch_page, evict_page, abort_transaction).  Excepted are
\* the damaged pages: those a rollback or a recovery could not restore.
ReadsSeeWork ==
    op = "run" =>
        \A p \in Pages \ damaged :
            work[p] # None => work[p] = (IF mem[p] # None THEN mem[p] ELSE disk[p])

\* A cached page that is not marked dirty is the page in the file, so dropping
\* it loses nothing (buffer_pool.rs, flush_page and evict_page), also when the
\* connection runs between the steps of a checkpoint.  The encoding, the write
\* and clear_dirty of one page are one step here: module FlusherLocks looks
\* inside.
CleanMatchesDisk ==
    \A p \in Pages : mem[p] # None /\ p \notin dirty => disk[p] = mem[p]

\* "Never truncate the wal if there are active transactions." (flusher.rs)
NeverTruncateActive == [][CkptTruncate => CanCheckpoint]_vars

\* "Returns true if there are no active transactions, meaning it is safe to
\* truncate the Wal." (buffer_pool.rs, can_checkpoint): a truncation of the
\* log changes nothing about the committed contents a recovery brings back.
TruncationIsSafe ==
    [][CkptTruncate =>
        \A p \in Pages :
            RecoversTo(wal, disk, p, committed[p]) => RecoversTo(wal', disk', p, committed[p])]_vars

\* The contents recovery would leave in the pages if the process died now.
Recovered ==
    [p \in Pages |->
        IF \E i \in DOMAIN wal : Restores(wal, i, p)
        THEN wal[CHOOSE i \in DOMAIN wal : Restores(wal, i, p)].img
        ELSE disk[p]]

\* The contents a read of the pages finds.
Seen == [p \in Pages |-> IF mem[p] # None THEN mem[p] ELSE disk[p]]

\* A rollback is running.
Aborting == op \in {"abort", "rollback"}

\* An abort, and a kill, count as done from their first step: what remains is
\* the engine's own work.
Store ==
    INSTANCE TxnStore WITH
        committed <- Recovered,
        work <- IF op \in {"run", "commit", "batch"} THEN Seen ELSE Recovered,
        inTxn <- txn # 0 /\ ~Aborting

\* With a pool that holds every page, and truncations that find the engine
\* quiet (QuietSpec), transactions are atomic and durable: the committed
\* contents are what recovery would produce from file and log, the contents
\* read are those of the pool, and every step of pool, log, flusher and
\* recovery is a step of TxnStore or invisible.
ImplementsTxnStore == Store!Spec

-----------------------------------------------------------------------------
(* The inductive invariant behind the properties.  Each part says why one  *)
(* kind of step is harmless.                                               *)

\* A process that is down or recovering has nothing in memory.
NothingCached ==
    ~Up =>
        /\ \A p \in Pages : mem[p] = None /\ undo[p] = 0
        /\ dirty = {} /\ lost = {}
        /\ txn = 0 /\ ck = "idle" /\ work = committed

DirtyIsCached == dirty \subseteq Cached

\* Pool over file shows the transaction's view, but for pages still to be
\* rolled back.
SeesWork ==
    Up => \A p \in Pages \ damaged :
            work[p] # None /\ ~(Aborting /\ undo[p] # 0) =>
                work[p] = (IF mem[p] # None THEN mem[p] ELSE disk[p])

\* Only pages set up for mutation differ from the committed contents.
UntouchedIsCommitted ==
    Up => \A p \in Pages : undo[p] = 0 \/ Aborting => work[p] = committed[p]

\* The undo map leads to the transaction's own before-images, unless the log
\* was truncated under it.
UndoIsLogged ==
    \A p \in Pages : undo[p] # 0 =>
        /\ txn # 0
        /\ p \notin lost => OwnUndo(p)
        /\ OwnUndo(p) /\ p \notin damaged /\ committed[p] # None
               => wal[undo[p]].img = committed[p]

\* Transaction ids in the log are old ones, or the open transaction's, which
\* is not marked committed and has logged only pages of its undo map.
LogIsOrdered ==
    Up =>
        /\ txn < nextTxn
        /\ \A i \in DOMAIN wal :
             /\ 0 < wal[i].txn /\ wal[i].txn < nextTxn
             /\ wal[i].txn = txn =>
                  /\ wal[i].kind # "commit"
                  /\ ~Aborting => undo[wal[i].page] # 0

\* The batch of a running commit: the pages not pending have their Redo image
\* as their last record.
BatchIsWritten ==
    /\ op \in {"commit", "batch"} => txn # 0
    /\ op = "batch" =>
        /\ pend \subseteq Touched
        /\ \A p \in (Touched \cap Cached) \ pend :
             \E i \in DOMAIN wal :
                /\ wal[i] = Redo(txn, p, mem[p])
                /\ \A j \in DOMAIN wal :
                     j > i => wal[j].kind = "commit" \/ wal[j].page # p

\* The checkpoint of a shutdown has the engine to itself and works its way to
\* a pool without dirty pages.
ShutdownIsClean ==
    closing =>
        /\ op = "run" /\ txn = 0 /\ Touched = {}
        /\ ck # "idle"
        /\ ck = "flush" => dirty \subseteq ckPend
        /\ ck = "truncate" => dirty = {}

\* A recovery has dealt with every page that is not pending.
RecoveryProgress ==
    op \in {"recover", "recovered"} =>
        \A p \in Pages :
            (op = "recover" => p \notin pend) =>
                RecoversTo(wal, disk, p, disk[p])

IndInv ==
    /\ TypeOK
    /\ NothingCached
    /\ DirtyIsCached
    /\ CleanMatchesDisk
    /\ SeesWork
    /\ UntouchedIsCommitted
    /\ UndoIsLogged
    /\ LogIsOrdered
    /\ BatchIsWritten
    /\ ShutdownIsClean
    /\ RecoveryProgress
    /\ RecoveryRestoresCommitted

\* Serial executions: a checkpoint works its way to a pool without dirty
\* pages, and no transaction gets in between.
CheckpointIsClean ==
    ck # "idle" =>
        /\ op = "run" /\ Touched = {}
        /\ ck = "flush" => dirty \subseteq ckPend
        /\ ck = "truncate" => dirty = {}

\* Quiet executions with a pool that holds every page evict none, and with
\* every page allocated no id is given out again: each page a transaction
\* touched is in the pool when it commits, and no committed content is lost.
EverythingFits ==
    /\ lost = {} /\ damaged = {}
    /\ hdr = MaxPages + 1
    /\ op # "down" => nextFree = MaxPages + 1
    /\ op \in {"run", "commit", "batch"} => Touched \subseteq Cached
    /\ \A p \in Pages : disk[p] # None /\ committed[p] # None /\ work[p] # None

-----------------------------------------------------------------------------

\* A commit, an abort or a recovery that was started ends, if only because the
\* process is killed, whatever the flusher does between its steps
\* (buffer_pool.rs, commit_transaction and abort_transaction; recovery.rs,
\* init).
OperationsEnd == op \notin {"run", "down"} ~> op \in {"run", "down"}

\* A committed page survives a kill, whether or not it was evicted before its
\* transaction committed (README.md, "Transactions and Durability").
CommitsAreDurable ==
    \A p \in Pages : committed[p] # None => RecoversTo(wal, disk, p, committed[p])

\* new_page hands out an id that no committed page has (page.rs,
\* compute_new_page_id and save_header).
NewPageIsUnused == [][\A c \in Content : NewPage(c) => committed[nextFree] = None]_vars
=============================================================================
