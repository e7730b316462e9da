------------------------- MODULE StorageEngineProofs -------------------------
(***************************************************************************)
(* Proofs about StorageEngine, for every number of pages, every capacity   *)
(* and every number of transactions.                                       *)
(***************************************************************************)
EXTENDS StorageEngine, FiniteSetTheorems, TLAPS

USE DEF store, pool, session, flusher, history

-----------------------------------------------------------------------------
(* What recovery reads in a log, and what one more record changes. *)

\* Recovery of a given file and log leaves one content in a page.
LEMMA RecoversToUnique ==
    ASSUME NEW w \in Seq(WalRecord), NEW d, NEW p \in Pages, NEW c, NEW e,
           RecoversTo(w, d, p, c), RecoversTo(w, d, p, e)
    PROVE  c = e
BY DEF RecoversTo, Restores

\* Recovery of an empty log leaves the file as it is.
LEMMA RecoversEmpty ==
    ASSUME NEW d, NEW p \in Pages, NEW c
    PROVE  RecoversTo(<<>>, d, p, c) <=> d[p] = c
BY DEF RecoversTo

\* A write to the file does not matter to recovery when the log restores the
\* page anyway, or when it leaves the page with the content recovery gives it.
LEMMA RecoversAfterWrite ==
    ASSUME NEW w \in Seq(WalRecord), NEW d, NEW e, NEW p \in Pages, NEW c,
           RecoversTo(w, d, p, c),
           e[p] = d[p] \/ e[p] = c \/ \E i \in DOMAIN w : Applies(w, i, p)
    PROVE  RecoversTo(w, e, p, c)
BY DEF RecoversTo, Restores

\* Appending an image record does not change which transactions committed, nor
\* which of the older records apply.
LEMMA AppendImage ==
    ASSUME NEW w \in Seq(WalRecord), NEW r \in Image
    PROVE  /\ CommittedTxns(Append(w, r)) = CommittedTxns(w)
           /\ DOMAIN Append(w, r) = DOMAIN w \cup {Len(w) + 1}
           /\ \A i \in DOMAIN w : i < Len(w) + 1
           /\ \A i \in DOMAIN w : \A p \in Pages :
                Applies(Append(w, r), i, p) <=> Applies(w, i, p)
           /\ \A p \in Pages :
                Applies(Append(w, r), Len(w) + 1, p) <=>
                    /\ r.page = p
                    /\ r.kind = "undo" <=> r.txn \notin CommittedTxns(w)
<1> DEFINE v == Append(w, r)
<1>1. /\ DOMAIN v = DOMAIN w \cup {Len(w) + 1}
      /\ \A i \in DOMAIN w : i < Len(w) + 1 /\ v[i] = w[i]
      /\ v[Len(w) + 1] = r
  BY DEF Image, WalRecord
<1>2. r.kind # "commit"
  BY DEF Image
<1> HIDE DEF v
<1>3. CommittedTxns(v) = CommittedTxns(w)
  BY <1>1, <1>2 DEF CommittedTxns
<1>4. QED
  BY <1>1, <1>2, <1>3 DEF Applies, v

\* An image of another page changes nothing for page p.
LEMMA RecoversAppendOther ==
    ASSUME NEW w \in Seq(WalRecord), NEW r \in Image, NEW d, NEW p \in Pages,
           NEW c, r.page # p, RecoversTo(w, d, p, c)
    PROVE  RecoversTo(Append(w, r), d, p, c)
<1> DEFINE v == Append(w, r)
<1>1. /\ DOMAIN v = DOMAIN w \cup {Len(w) + 1}
      /\ \A i \in DOMAIN w : v[i] = w[i]
  BY DEF Image, WalRecord
<1>2. ~Applies(v, Len(w) + 1, p) /\ \A i \in DOMAIN w : Applies(v, i, p) <=> Applies(w, i, p)
  BY AppendImage
<1> HIDE DEF v
<1>3. QED
  BY <1>1, <1>2 DEF RecoversTo, Restores, v

\* The Undo image of a transaction that has not committed is what recovery
\* restores, for as long as it is the last record.
LEMMA RecoversAppendUndo ==
    ASSUME NEW w \in Seq(WalRecord), NEW d, NEW p \in Pages, NEW c \in Content,
           NEW t \in Nat, t \notin CommittedTxns(w)
    PROVE  RecoversTo(Append(w, Undo(t, p, c)), d, p, c)
<1> DEFINE r == Undo(t, p, c)
           v == Append(w, r)
<1>1. r \in Image /\ r.page = p /\ r.kind = "undo" /\ r.txn = t /\ r.img = c
  BY DEF Image, Undo
<1>2. v[Len(w) + 1] = r
  BY <1>1 DEF WalRecord
<1>3. /\ DOMAIN v = DOMAIN w \cup {Len(w) + 1}
      /\ \A i \in DOMAIN w : i < Len(w) + 1
      /\ Applies(v, Len(w) + 1, p)
  BY <1>1, AppendImage
<1> HIDE DEF v, r
<1>4. \A j \in DOMAIN v : ~(j > Len(w) + 1)
  BY <1>3
<1>5. Restores(v, Len(w) + 1, p)
  BY <1>3, <1>4 DEF Restores
<1>6. QED
  BY <1>1, <1>2, <1>3, <1>5 DEF RecoversTo, v, r

\* The Redo image of a transaction that has not committed yet is ignored.
LEMMA RecoversAppendRedo ==
    ASSUME NEW w \in Seq(WalRecord), NEW d, NEW p \in Pages, NEW c,
           NEW q \in Pages, NEW x \in Content,
           NEW t \in Nat, t \notin CommittedTxns(w), RecoversTo(w, d, p, c)
    PROVE  RecoversTo(Append(w, Redo(t, q, x)), d, p, c)
<1> DEFINE r == Redo(t, q, x)
           v == Append(w, r)
<1>1. r \in Image /\ r.kind = "redo" /\ r.txn = t
  BY DEF Image, Redo
<1>2. /\ DOMAIN v = DOMAIN w \cup {Len(w) + 1}
      /\ \A i \in DOMAIN w : v[i] = w[i]
  BY <1>1 DEF WalRecord
<1>3. ~Applies(v, Len(w) + 1, p) /\ \A i \in DOMAIN w : Applies(v, i, p) <=> Applies(w, i, p)
  BY <1>1, AppendImage
<1> HIDE DEF v, r
<1>4. QED
  BY <1>2, <1>3 DEF RecoversTo, Restores, v, r

\* What a Commit marker changes: the records of its transaction swap roles.
LEMMA AppendMarker ==
    ASSUME NEW w \in Seq(WalRecord), NEW t \in Nat
    PROVE  /\ DOMAIN Append(w, CommitMark(t)) = DOMAIN w \cup {Len(w) + 1}
           /\ \A i \in DOMAIN w : i < Len(w) + 1 /\ Append(w, CommitMark(t))[i] = w[i]
           /\ CommittedTxns(Append(w, CommitMark(t))) = CommittedTxns(w) \cup {t}
           /\ \A p \in Pages : ~Applies(Append(w, CommitMark(t)), Len(w) + 1, p)
<1> DEFINE v == Append(w, CommitMark(t))
<1>1. /\ DOMAIN v = DOMAIN w \cup {Len(w) + 1}
      /\ \A i \in DOMAIN w : i < Len(w) + 1 /\ v[i] = w[i]
      /\ v[Len(w) + 1] = CommitMark(t)
  BY DEF Marker, WalRecord, CommitMark
<1>2. CommitMark(t).kind = "commit" /\ CommitMark(t).txn = t
  BY DEF CommitMark
<1> HIDE DEF v
<1>3. CommittedTxns(v) = CommittedTxns(w) \cup {t}
  <2>1. CommittedTxns(v) \subseteq CommittedTxns(w) \cup {t}
    BY <1>1, <1>2 DEF CommittedTxns
  <2>2. t \in CommittedTxns(v)
    BY <1>1, <1>2 DEF CommittedTxns
  <2>3. CommittedTxns(w) \subseteq CommittedTxns(v)
    BY <1>1, <1>2 DEF CommittedTxns
  <2>4. QED
    BY <2>1, <2>2, <2>3
<1>4. QED
  BY <1>1, <1>2, <1>3 DEF Applies, v

\* A Commit marker leaves alone the pages its transaction has not logged.
LEMMA RecoversCommitOther ==
    ASSUME NEW w \in Seq(WalRecord), NEW d, NEW p \in Pages, NEW c, NEW t \in Nat,
           \A i \in DOMAIN w : w[i].kind # "commit" /\ w[i].page = p => w[i].txn # t,
           RecoversTo(w, d, p, c)
    PROVE  RecoversTo(Append(w, CommitMark(t)), d, p, c)
<1> DEFINE v == Append(w, CommitMark(t))
<1>1. /\ DOMAIN v = DOMAIN w \cup {Len(w) + 1}
      /\ \A i \in DOMAIN w : v[i] = w[i]
      /\ CommittedTxns(v) = CommittedTxns(w) \cup {t}
      /\ ~Applies(v, Len(w) + 1, p)
  BY AppendMarker
<1> HIDE DEF v
<1>2. \A i \in DOMAIN w : Applies(v, i, p) <=> Applies(w, i, p)
  BY <1>1 DEF Applies
<1>3. QED
  BY <1>1, <1>2 DEF RecoversTo, Restores, v

\* A Commit marker makes recovery restore the last Redo image of the page.
LEMMA RecoversCommitRedo ==
    ASSUME NEW w \in Seq(WalRecord), NEW d, NEW p \in Pages, NEW c, NEW t \in Nat,
           NEW i \in DOMAIN w, w[i] = Redo(t, p, c),
           \A j \in DOMAIN w : j > i => w[j].kind = "commit" \/ w[j].page # p
    PROVE  RecoversTo(Append(w, CommitMark(t)), d, p, c)
<1> DEFINE v == Append(w, CommitMark(t))
<1>1. /\ DOMAIN v = DOMAIN w \cup {Len(w) + 1}
      /\ \A j \in DOMAIN w : v[j] = w[j]
      /\ CommittedTxns(v) = CommittedTxns(w) \cup {t}
      /\ ~Applies(v, Len(w) + 1, p)
  BY AppendMarker
<1> HIDE DEF v
<1>2. Applies(v, i, p)
  BY <1>1 DEF Applies, Redo
<1>3. \A j \in DOMAIN v : j > i => ~Applies(v, j, p)
  BY <1>1 DEF Applies
<1>4. w[i].img = c
  BY DEF Redo
<1>5. QED
  BY <1>1, <1>2, <1>3, <1>4 DEF RecoversTo, Restores, v

-----------------------------------------------------------------------------
(* Types. *)

\* The empty log is a log.
LEMMA EmptyLog == <<>> \in Seq(WalRecord)
OBVIOUS

\* An eviction writes and removes cached pages only.
LEMMA EvictionType ==
    ASSUME TypeOK, NEW V \in Victims
    PROVE  /\ V \subseteq Pages /\ V \subseteq Cached
           /\ Written(V) \in [Pages -> Content \cup {None}]
           /\ Without(V) \in [Pages -> Content \cup {None}]
BY DEF Victims, Cached, Written, Without, TypeOK

\* Setting up a page for mutation appends a well-formed record, or nothing.
LEMMA LogUndoType ==
    ASSUME TypeOK, NEW p \in Pages, NEW c \in Content, LogUndo(p, c)
    PROVE  wal' \in Seq(WalRecord) /\ undo' \in [Pages -> Nat]
<1>1. Undo(txn, p, c) \in WalRecord
  BY DEF Undo, WalRecord, Image, TypeOK
<1>2. CASE undo[p] = 0
  <2>1. Append(wal, Undo(txn, p, c)) \in Seq(WalRecord) /\ Len(wal) + 1 \in Nat
    BY <1>1 DEF TypeOK
  <2>2. QED
    BY <1>2, <2>1 DEF LogUndo, TypeOK
<1>3. CASE undo[p] # 0
  BY <1>3 DEF LogUndo, TypeOK
<1>4. QED
  BY <1>2, <1>3

\* The initial state is well typed.
LEMMA InitType == Init => TypeOK
<1> SUFFICES ASSUME Init PROVE TypeOK
  OBVIOUS
<1> USE BoundsAssumption, ContentAssumption
<1>1. disk \in [Pages -> Content \cup {None}] /\ committed = disk /\ work = disk
  BY DEF Init, Content
<1>2. hdr \in 1..(MaxPages + 1) /\ nextFree \in 1..(MaxPages + 1)
  BY DEF Init
<1>3. mem \in [Pages -> Content \cup {None}] /\ undo \in [Pages -> Nat]
  BY DEF Init
<1>4. wal \in Seq(WalRecord)
  BY EmptyLog DEF Init
<1>5. dirty = {} /\ pend = {} /\ ckPend = {} /\ lost = {} /\ damaged = {}
  BY DEF Init
<1>6. txn = 0 /\ nextTxn = 1 /\ op = "run" /\ ck = "idle"
  BY DEF Init
<1>7. closing \in BOOLEAN
  BY Zenon DEF Init
<1>8. QED
  BY <1>1, <1>2, <1>3, <1>4, <1>5, <1>6, <1>7 DEF TypeOK

\* Every step keeps the types.
LEMMA NextType == TypeOK /\ [Next]_vars => TypeOK'
<1> SUFFICES ASSUME TypeOK, [Next]_vars PROVE TypeOK'
  OBVIOUS
<1> USE BoundsAssumption, ContentAssumption
<1>1. ASSUME NEW p \in Pages, FetchPage(p) PROVE TypeOK'
  BY <1>1, EvictionType DEF FetchPage, TypeOK
<1>2. ASSUME NEW p \in Pages, BeginPageMutation(p) PROVE TypeOK'
  <2>1. mem[p] \in Content
    BY <1>2 DEF BeginPageMutation, TypeOK
  <2>2. QED
    BY <1>2, <2>1, LogUndoType DEF BeginPageMutation, TypeOK
<1>3. ASSUME NEW p \in Pages, FlushPage(p) PROVE TypeOK'
  BY <1>3 DEF FlushPage, Written, TypeOK
<1>4. ASSUME NEW p \in Pages, NEW c \in Vals, WritePage(p, c) PROVE TypeOK'
  BY <1>4 DEF WritePage, TypeOK, Content
<1>5. ASSUME NEW c \in Content, NewPage(c) PROVE TypeOK'
  <2>1. nextFree \in Pages /\ nextFree' \in 1..(MaxPages + 1)
    BY <1>5 DEF NewPage, TypeOK, Pages
  <2>2. wal' \in Seq(WalRecord) /\ undo' \in [Pages -> Nat]
    BY <1>5, <2>1, LogUndoType DEF NewPage, Content
  <2>3. PICK V \in Victims :
          /\ disk' = Written(V)
          /\ mem' = [Without(V) EXCEPT ![nextFree] = c]
          /\ dirty' = (dirty \ V) \cup {nextFree}
    BY <1>5 DEF NewPage
  <2>4. disk' \in [Pages -> Content \cup {None}] /\ mem' \in [Pages -> Content \cup {None}]
    BY <2>1, <2>3, EvictionType
  <2>5. dirty' \subseteq Pages /\ work' \in [Pages -> Content \cup {None}]
        /\ damaged' \subseteq Pages
    BY <1>5, <2>1, <2>3 DEF NewPage, TypeOK
  <2>6. QED
    BY <1>5, <2>1, <2>2, <2>4, <2>5 DEF NewPage, TypeOK
<1>6. ASSUME NEW p \in Pages, CommitRedo(p) PROVE TypeOK'
  <2>1. Redo(txn, p, mem[p]) \in WalRecord
    BY <1>6 DEF CommitRedo, Redo, WalRecord, Image, TypeOK
  <2>2. QED
    BY <1>6, <2>1 DEF CommitRedo, TypeOK
<1>7. CASE CommitDone
  <2>1. CommitMark(txn) \in WalRecord
    BY DEF CommitMark, WalRecord, Marker, TypeOK
  <2>2. QED
    BY <1>7, <2>1 DEF CommitDone, TypeOK, Touched, Cached
<1>8. ASSUME NEW p \in Pages, AbortPage(p) PROVE TypeOK'
  <2>1. wal[undo[p]].img \in Content
    BY <1>8 DEF AbortPage, HasUndo, TypeOK, WalRecord, Image, Marker
  <2>2. QED
    BY <1>8, <2>1 DEF AbortPage, TypeOK
<1>9. ASSUME NEW p \in Pages, AbortFail(p) PROVE TypeOK'
  BY <1>9 DEF AbortFail, Touched, TypeOK
<1>10. ASSUME NEW p \in Pages, RecoverPage(p) PROVE TypeOK'
  <2>1. PICK i \in DOMAIN wal :
          Restores(wal, i, p) /\ disk' = [disk EXCEPT ![p] = wal[i].img]
    BY <1>10 DEF RecoverPage
  <2>2. wal[i].img \in Content
    BY <2>1 DEF Restores, Applies, TypeOK, WalRecord, Image, Marker
  <2>3. QED
    BY <1>10, <2>1, <2>2 DEF RecoverPage, TypeOK
<1>11. ASSUME NEW p \in Pages, CkptFlush(p) PROVE TypeOK'
  BY <1>11 DEF CkptFlush, Written, TypeOK
<1>12. CASE CkptTruncate
  BY <1>12, EmptyLog DEF CkptTruncate, Touched, TypeOK
<1>13. CASE Kill
  BY <1>13 DEF Kill, TypeOK
<1>14. CASE Open
  BY <1>14 DEF Open, TypeOK
<1>15. CASE \/ Begin \/ EndReadOnly \/ StartCommit \/ WriteBatch
            \/ StartAbort \/ LockRollback \/ AbortDone
  BY <1>15 DEF Begin, EndReadOnly, StartCommit, WriteBatch, StartAbort, LockRollback,
               AbortDone, TypeOK, Touched
<1>16. CASE StartCheckpoint \/ StartShutdown \/ CkptList \/ CkptHeader
  BY <1>16 DEF StartCheckpoint, StartShutdown, CkptList, CkptHeader, TypeOK, Cached
<1>17. ASSUME NEW p \in Pages, CommitSkip(p) PROVE TypeOK'
  BY <1>17 DEF CommitSkip, TypeOK
<1>18. CASE RecoverHeader \/ RecoverDone
  BY <1>18, EmptyLog DEF RecoverHeader, RecoverDone, TypeOK
<1>19. CASE UNCHANGED vars
  BY <1>19 DEF vars, TypeOK
<1>20. QED
  BY <1>1, <1>2, <1>3, <1>4, <1>5, <1>6, <1>7, <1>8, <1>9, <1>10, <1>11, <1>12,
     <1>13, <1>14, <1>15, <1>16, <1>17, <1>18, <1>19 DEF Next, FinishOp, FinishCheckpoint

-----------------------------------------------------------------------------
(* Consequences of the inductive invariant that several actions need. *)

\* The open transaction has no Commit marker in the log.
LEMMA TxnNotCommitted ==
    ASSUME IndInv, Up, txn # 0
    PROVE  txn \in Nat /\ txn \notin CommittedTxns(wal)
BY DEF IndInv, LogIsOrdered, CommittedTxns, TypeOK

\* Only a process that is up has pages set up for mutation.
LEMMA TouchedIsUp ==
    ASSUME IndInv, NEW p \in Pages, undo[p] # 0
    PROVE  Up /\ txn # 0
BY DEF IndInv, NothingCached, UndoIsLogged

\* The before-image of a page in the undo map is one recovery may apply, while
\* the log has it.
LEMMA TouchedApplies ==
    ASSUME IndInv, NEW p \in Pages \ lost, undo[p] # 0
    PROVE  \E i \in DOMAIN wal : Applies(wal, i, p)
<1>1. txn \notin CommittedTxns(wal)
  BY TouchedIsUp, TxnNotCommitted
<1>2. OwnUndo(p)
  BY DEF IndInv, UndoIsLogged
<1>3. QED
  BY <1>1, <1>2 DEF OwnUndo, HasUndo, Applies

\* A record of another page, or no Undo image, does not change whose record is
\* at a page's offset.
LEMMA OwnUndoAppend ==
    ASSUME IndInv, NEW r \in WalRecord, wal' = Append(wal, r), txn' = txn,
           NEW p \in Pages, undo'[p] = undo[p], r.kind = "undo" => r.page # p
    PROVE  /\ OwnUndo(p)' <=> OwnUndo(p)
           /\ OwnUndo(p) => wal'[undo'[p]] = wal[undo[p]]
<1>1. /\ DOMAIN wal' = DOMAIN wal \cup {Len(wal) + 1}
      /\ \A i \in DOMAIN wal : wal'[i] = wal[i]
      /\ wal'[Len(wal) + 1] = r
  BY DEF IndInv, TypeOK
<1>2. QED
  BY <1>1 DEF OwnUndo, HasUndo

\* Writing cached pages to the file, by flush or eviction, is harmless: what
\* recovery restores stays the same (STEAL), and pool over file shows the same.
LEMMA WriteBackIsSafe ==
    ASSUME IndInv, Up, NEW S \in SUBSET Pages
    PROVE  /\ \A p \in Pages : Kept(p) => RecoversTo(wal, Written(S), p, committed[p])
           /\ \A p \in Pages : Written(S)[p] = IF p \in S \cap dirty THEN mem[p] ELSE disk[p]
           /\ \A p \in S : mem[p] # None => Written(S)[p] = mem[p]
<1>1. \A p \in Pages : Written(S)[p] = IF p \in S \cap dirty THEN mem[p] ELSE disk[p]
  BY DEF Written
<1>2. ASSUME NEW p \in Pages, Kept(p)
      PROVE  RecoversTo(wal, Written(S), p, committed[p])
  <2>1. wal \in Seq(WalRecord) /\ RecoversTo(wal, disk, p, committed[p])
    BY <1>2 DEF IndInv, TypeOK, RecoveryRestoresCommitted
  <2>2. CASE undo[p] # 0
    BY <1>2, <2>1, <2>2, TouchedApplies, RecoversAfterWrite DEF Kept
  <2>3. CASE undo[p] = 0
    <3>1. work[p] = committed[p] /\ work[p] # None /\ p \notin damaged
      BY <1>2, <2>3 DEF Kept, IndInv, UntouchedIsCommitted
    <3>2. p \in dirty => mem[p] = committed[p]
      BY <2>3, <3>1 DEF IndInv, SeesWork, DirtyIsCached, Cached
    <3>3. Written(S)[p] = disk[p] \/ Written(S)[p] = committed[p]
      BY <1>1, <3>2
    <3>4. QED
      BY <2>1, <3>3, RecoversAfterWrite
  <2>4. QED
    BY <2>2, <2>3
<1>3. ASSUME NEW p \in S, mem[p] # None PROVE Written(S)[p] = mem[p]
  BY <1>1, <1>3 DEF IndInv, CleanMatchesDisk
<1>4. QED
  BY <1>1, <1>2, <1>3

-----------------------------------------------------------------------------
(* The inductive invariant, one lemma per action or group of alike actions. *)

\* A freshly opened database satisfies the inductive invariant.
LEMMA InitInv == Init => IndInv
<1> SUFFICES ASSUME Init PROVE IndInv
  OBVIOUS
<1> USE DEF Init
<1>1. TypeOK
  BY InitType
<1>2. NothingCached /\ DirtyIsCached /\ CleanMatchesDisk /\ ShutdownIsClean
  BY DEF NothingCached, DirtyIsCached, CleanMatchesDisk, ShutdownIsClean, Up, Touched
<1>3. SeesWork /\ UntouchedIsCommitted /\ UndoIsLogged
  BY DEF SeesWork, UntouchedIsCommitted, UndoIsLogged, OwnUndo, HasUndo, Aborting
<1>4. LogIsOrdered /\ BatchIsWritten /\ RecoveryProgress
  BY DEF LogIsOrdered, BatchIsWritten, RecoveryProgress, Aborting
<1>5. RecoveryRestoresCommitted
  BY RecoversEmpty DEF RecoveryRestoresCommitted
<1>6. QED
  BY <1>1, <1>2, <1>3, <1>4, <1>5 DEF IndInv

\* A cache miss, with the eviction it causes, keeps the invariant.
LEMMA FetchInv ==
    ASSUME IndInv, NEW p \in Pages, FetchPage(p), TypeOK'
    PROVE  IndInv'
<1>1. PICK V \in Victims :
        /\ disk' = Written(V)
        /\ mem' = [Without(V) EXCEPT ![p] = disk[p]]
        /\ dirty' = dirty \ V
  BY DEF FetchPage
<1>2. V \subseteq Pages /\ V \subseteq Cached /\ p \notin V /\ op = "run" /\ op' = "run"
  BY EvictionType DEF IndInv, FetchPage, Running, Cached
<1>3. \A q \in Pages : mem'[q] = IF q = p THEN disk[p] ELSE IF q \in V THEN None ELSE mem[q]
  BY <1>1 DEF Without
<1>4. /\ \A q \in Pages : Kept(q) => RecoversTo(wal, disk', q, committed[q])
      /\ \A q \in Pages : disk'[q] = IF q \in V \cap dirty THEN mem[q] ELSE disk[q]
      /\ \A q \in V : disk'[q] = mem[q]
  BY <1>1, <1>2, WriteBackIsSafe DEF Cached, Up
<1>5. UNCHANGED <<hdr, wal, nextFree, session, flusher, history>>
  BY DEF FetchPage
<1>6. p \notin dirty /\ disk[p] # None /\ mem[p] = None
  BY DEF FetchPage, IndInv, DirtyIsCached, Cached
<1>7. NothingCached' /\ RecoveryProgress' /\ BatchIsWritten'
  BY <1>2 DEF NothingCached, RecoveryProgress, BatchIsWritten, Up
<1>8. DirtyIsCached'
  BY <1>1, <1>2, <1>3, <1>6 DEF IndInv, DirtyIsCached, Cached
<1>9. CleanMatchesDisk'
  BY <1>1, <1>2, <1>3, <1>4 DEF IndInv, CleanMatchesDisk
<1>10. SeesWork'
  <2>1. ASSUME NEW q \in Pages \ damaged, work[q] # None
        PROVE  work[q] = IF mem'[q] # None THEN mem'[q] ELSE disk'[q]
    <3>1. work[q] = IF mem[q] # None THEN mem[q] ELSE disk[q]
      BY <1>2, <2>1 DEF IndInv, SeesWork, Up, Aborting
    <3>2. CASE q = p
      BY <1>3, <1>6, <3>1, <3>2
    <3>3. CASE q \in V
      BY <1>2, <1>3, <1>4, <3>1, <3>3 DEF Cached
    <3>4. CASE q # p /\ q \notin V
      BY <1>3, <1>4, <3>1, <3>4
    <3>5. QED
      BY <3>2, <3>3, <3>4
  <2>2. QED
    BY <1>5, <2>1 DEF SeesWork, Aborting
<1>11. UntouchedIsCommitted' /\ UndoIsLogged' /\ LogIsOrdered'
  BY <1>5 DEF IndInv, UntouchedIsCommitted, UndoIsLogged, OwnUndo, HasUndo, LogIsOrdered,
              Up, Aborting
<1>12. ShutdownIsClean'
  BY <1>1, <1>5 DEF IndInv, ShutdownIsClean, Touched
<1>13. RecoveryRestoresCommitted'
  BY <1>4, <1>5 DEF RecoveryRestoresCommitted, Kept
<1>14. QED
  BY <1>7, <1>8, <1>9, <1>10, <1>11, <1>12, <1>13 DEF IndInv

\* Logging a page's before-image keeps the invariant.
LEMMA BeginPageMutationInv ==
    ASSUME IndInv, NEW p \in Pages, BeginPageMutation(p), TypeOK'
    PROVE  IndInv'
<1>1. /\ op = "run" /\ ~closing /\ txn # 0 /\ mem[p] # None
      /\ UNCHANGED <<disk, hdr, pool, txn, nextTxn, op, pend, flusher, history>>
  BY DEF BeginPageMutation, Running
<1>2. CASE undo[p] # 0
  <2>1. UNCHANGED vars
    BY <1>1, <1>2 DEF BeginPageMutation, LogUndo, vars
  <2>2. QED
    BY <2>1 DEF vars, IndInv, TypeOK, NothingCached, DirtyIsCached, CleanMatchesDisk,
                SeesWork, UntouchedIsCommitted, UndoIsLogged, OwnUndo, HasUndo,
                LogIsOrdered, BatchIsWritten, ShutdownIsClean, RecoveryProgress,
                RecoveryRestoresCommitted, Cached, Touched, Up, Kept, Aborting
<1>3. CASE undo[p] = 0
  <2> DEFINE r == Undo(txn, p, mem[p])
  <2>1. wal' = Append(wal, r) /\ undo' = [undo EXCEPT ![p] = Len(wal) + 1]
    BY <1>3 DEF BeginPageMutation, LogUndo
  <2>2. /\ mem[p] \in Content /\ wal \in Seq(WalRecord) /\ txn \in Nat
        /\ r \in Image /\ r \in WalRecord
        /\ r.kind = "undo" /\ r.txn = txn /\ r.page = p /\ r.img = mem[p]
    BY <1>1 DEF IndInv, TypeOK, Image, WalRecord, Undo
  <2>3. /\ DOMAIN wal' = DOMAIN wal \cup {Len(wal) + 1}
        /\ Len(wal) + 1 \in Nat \ {0}
        /\ \A i \in DOMAIN wal : wal'[i] = wal[i]
        /\ wal'[Len(wal) + 1] = r
    BY <2>1, <2>2
  <2> HIDE DEF r
  <2>4. \A q \in Pages : undo'[q] = IF q = p THEN Len(wal) + 1 ELSE undo[q]
    BY <2>1 DEF IndInv, TypeOK
  <2>5. work[p] = committed[p]
    BY <1>1, <1>3 DEF IndInv, UntouchedIsCommitted, Up, Aborting
  <2>6. p \notin damaged /\ committed[p] # None => mem[p] = committed[p]
    BY <1>1, <2>5 DEF IndInv, SeesWork, Up, Aborting
  <2>7. NothingCached' /\ RecoveryProgress' /\ BatchIsWritten' /\ ShutdownIsClean'
    BY <1>1 DEF IndInv, NothingCached, RecoveryProgress, BatchIsWritten, ShutdownIsClean,
                Up, Touched
  <2>8. DirtyIsCached' /\ CleanMatchesDisk' /\ SeesWork'
    BY <1>1 DEF IndInv, DirtyIsCached, Cached, CleanMatchesDisk, SeesWork, Up, Aborting
  <2>9. UntouchedIsCommitted'
    BY <1>1, <2>4, <2>5 DEF IndInv, UntouchedIsCommitted, Up, Aborting
  <2>10. UndoIsLogged'
    <3>1. OwnUndo(p)' /\ wal'[undo'[p]].img = mem[p]
      BY <1>1, <2>2, <2>3, <2>4 DEF OwnUndo, HasUndo
    <3>2. \A q \in Pages \ {p} :
            /\ undo'[q] = undo[q]
            /\ OwnUndo(q)' <=> OwnUndo(q)
            /\ OwnUndo(q) => wal'[undo'[q]] = wal[undo[q]]
      BY <1>1, <2>1, <2>2, <2>4, OwnUndoAppend DEF r
    <3>3. QED
      BY <1>1, <2>6, <3>1, <3>2 DEF IndInv, UndoIsLogged
  <2>11. LogIsOrdered'
    <3>1. \A i \in DOMAIN wal : wal[i].txn = txn => undo'[wal[i].page] # 0
      BY <1>1, <2>1, <2>3 DEF IndInv, LogIsOrdered, TypeOK, Up, Aborting
    <3>2. QED
      BY <1>1, <2>2, <2>3, <2>4, <3>1 DEF IndInv, LogIsOrdered, TypeOK, Up, Aborting
  <2>12. RecoveryRestoresCommitted'
    <3>1. ASSUME NEW q \in Pages, Kept(q) PROVE RecoversTo(wal', disk, q, committed[q])
      <4>1. RecoversTo(wal, disk, q, committed[q])
        BY <3>1 DEF IndInv, RecoveryRestoresCommitted
      <4>2. CASE q # p
        BY <2>1, <2>2, <4>1, <4>2, RecoversAppendOther
      <4>3. CASE q = p
        <5>1. txn \notin CommittedTxns(wal)
          BY <1>1, TxnNotCommitted DEF Up
        <5>2. RecoversTo(wal', disk, p, mem[p])
          BY <2>1, <2>2, <5>1, RecoversAppendUndo DEF r
        <5>3. QED
          BY <2>6, <3>1, <4>3, <5>2 DEF Kept
      <4>4. QED
        BY <4>2, <4>3
    <3>2. QED
      BY <1>1, <3>1 DEF RecoveryRestoresCommitted, Kept
  <2>13. QED
    BY <2>7, <2>8, <2>9, <2>10, <2>11, <2>12 DEF IndInv
<1>4. QED
  BY <1>2, <1>3

\* Changing a page set up for mutation keeps the invariant.
LEMMA WritePageInv ==
    ASSUME IndInv, NEW p \in Pages, NEW c \in Vals, WritePage(p, c), TypeOK'
    PROVE  IndInv'
<1>1. /\ op = "run" /\ ~closing /\ txn # 0 /\ undo[p] # 0 /\ mem[p] # None
      /\ UNCHANGED <<store, nextFree, session, flusher, committed, lost, damaged>>
      /\ dirty' = dirty \cup {p}
  BY DEF WritePage, Running
<1>2. \A q \in Pages : /\ mem'[q] = IF q = p THEN c ELSE mem[q]
                       /\ work'[q] = IF q = p THEN c ELSE work[q]
  BY DEF WritePage, IndInv, TypeOK
<1>3. c # None
  BY ContentAssumption
<1>4. NothingCached' /\ RecoveryProgress' /\ BatchIsWritten' /\ ShutdownIsClean'
  BY <1>1 DEF IndInv, NothingCached, RecoveryProgress, BatchIsWritten, ShutdownIsClean,
              Up, Touched
<1>5. DirtyIsCached' /\ CleanMatchesDisk'
  BY <1>1, <1>2, <1>3 DEF IndInv, DirtyIsCached, Cached, CleanMatchesDisk
<1>6. SeesWork'
  BY <1>1, <1>2, <1>3 DEF IndInv, SeesWork, Up, Aborting
<1>7. UntouchedIsCommitted' /\ UndoIsLogged' /\ LogIsOrdered'
  BY <1>1, <1>2 DEF IndInv, UntouchedIsCommitted, UndoIsLogged, OwnUndo, HasUndo,
                    LogIsOrdered, Up, Aborting
<1>8. RecoveryRestoresCommitted'
  BY <1>1 DEF IndInv, RecoveryRestoresCommitted, Kept
<1>9. QED
  BY <1>4, <1>5, <1>6, <1>7, <1>8 DEF IndInv

\* Writing a dirty page back keeps the invariant.
LEMMA FlushPageInv ==
    ASSUME IndInv, NEW p \in Pages, FlushPage(p), TypeOK'
    PROVE  IndInv'
<1>1. /\ Up /\ ck = "idle" /\ p \in dirty
      /\ disk' = Written({p}) /\ dirty' = dirty \ {p}
      /\ UNCHANGED <<hdr, wal, mem, nextFree, session, flusher, history>>
  BY DEF FlushPage
<1>2. /\ \A q \in Pages : Kept(q) => RecoversTo(wal, disk', q, committed[q])
      /\ \A q \in Pages : disk'[q] = IF q = p THEN mem[q] ELSE disk[q]
  BY <1>1, WriteBackIsSafe
<1>3. NothingCached' /\ RecoveryProgress' /\ BatchIsWritten' /\ ShutdownIsClean'
  BY <1>1 DEF IndInv, NothingCached, RecoveryProgress, BatchIsWritten, ShutdownIsClean,
              Touched, Cached, Up
<1>4. DirtyIsCached' /\ CleanMatchesDisk' /\ SeesWork'
  BY <1>1, <1>2 DEF IndInv, DirtyIsCached, Cached, CleanMatchesDisk, SeesWork, Up,
                    Aborting
<1>5. UntouchedIsCommitted' /\ UndoIsLogged' /\ LogIsOrdered'
  BY <1>1 DEF IndInv, UntouchedIsCommitted, UndoIsLogged, OwnUndo, HasUndo, LogIsOrdered,
              Up, Aborting
<1>6. RecoveryRestoresCommitted'
  BY <1>1, <1>2 DEF RecoveryRestoresCommitted, Kept
<1>7. QED
  BY <1>3, <1>4, <1>5, <1>6 DEF IndInv

\* Allocating a page, also one that is in use, keeps the invariant.
LEMMA NewPageInv ==
    ASSUME IndInv, NEW c \in Content, NewPage(c), TypeOK'
    PROVE  IndInv'
<1> DEFINE n == nextFree
           r == Undo(txn, n, Empty)
<1>1. /\ op = "run" /\ ~closing /\ txn # 0 /\ n \in Pages
      /\ UNCHANGED <<hdr, txn, nextTxn, op, pend, flusher, committed, lost>>
      /\ LogUndo(n, Empty)
      /\ work' = [work EXCEPT ![n] = c]
      /\ damaged' = IF committed[n] # None THEN damaged \cup {n} ELSE damaged
  BY DEF NewPage, Running
<1>2. PICK V \in Victims :
        /\ disk' = Written(V)
        /\ mem' = [Without(V) EXCEPT ![n] = c]
        /\ dirty' = (dirty \ V) \cup {n}
  BY DEF NewPage
<1>3. V \subseteq Pages /\ V \subseteq Cached
  BY EvictionType DEF IndInv
<1>4. /\ \A q \in Pages : Kept(q) => RecoversTo(wal, disk', q, committed[q])
      /\ \A q \in Pages : disk'[q] = IF q \in V \cap dirty THEN mem[q] ELSE disk[q]
      /\ \A q \in V : disk'[q] = mem[q]
  BY <1>1, <1>2, <1>3, WriteBackIsSafe DEF Cached, Up
<1> HIDE DEF n, r
<1>5. \A q \in Pages :
        /\ mem'[q] = IF q = n THEN c ELSE IF q \in V THEN None ELSE mem[q]
        /\ work'[q] = IF q = n THEN c ELSE work[q]
  BY <1>1, <1>2 DEF Without, IndInv, TypeOK
<1>6. c # None
  BY ContentAssumption DEF Content
<1>7. /\ wal \in Seq(WalRecord) /\ txn \in Nat /\ Empty \in Content
      /\ r \in Image /\ r \in WalRecord
      /\ r.kind = "undo" /\ r.txn = txn /\ r.page = n
  BY <1>1 DEF IndInv, TypeOK, Image, WalRecord, Undo, Content, r
<1>8. \/ undo[n] # 0 /\ UNCHANGED <<wal, undo>>
      \/ /\ undo[n] = 0
         /\ wal' = Append(wal, r)
         /\ undo' = [undo EXCEPT ![n] = Len(wal) + 1]
  BY <1>1 DEF LogUndo, r
<1>9. /\ DOMAIN wal \subseteq DOMAIN wal'
      /\ \A i \in DOMAIN wal : wal'[i] = wal[i]
      /\ \A i \in DOMAIN wal' \ DOMAIN wal : wal'[i] = r
      /\ \A q \in Pages : q # n => undo'[q] = undo[q]
      /\ undo'[n] # 0
      /\ undo[n] = 0 => undo'[n] \in DOMAIN wal' \ DOMAIN wal
      /\ undo[n] # 0 => undo'[n] = undo[n]
  <2>1. CASE undo[n] # 0
    BY <1>8, <2>1
  <2>2. CASE undo[n] = 0
    <3>1. /\ DOMAIN wal' = DOMAIN wal \cup {Len(wal) + 1}
          /\ Len(wal) + 1 \in Nat \ {0} /\ Len(wal) + 1 \notin DOMAIN wal
          /\ \A i \in DOMAIN wal : wal'[i] = wal[i]
          /\ wal'[Len(wal) + 1] = r
      BY <1>7, <1>8, <2>2
    <3>2. \A q \in Pages : undo'[q] = IF q = n THEN Len(wal) + 1 ELSE undo[q]
      BY <1>8, <2>2 DEF IndInv, TypeOK
    <3>3. QED
      BY <1>1, <2>2, <3>1, <3>2
  <2>3. QED
    BY <2>1, <2>2
<1>10. NothingCached' /\ RecoveryProgress' /\ BatchIsWritten' /\ ShutdownIsClean'
  BY <1>1 DEF IndInv, NothingCached, RecoveryProgress, BatchIsWritten, ShutdownIsClean,
              Up, Touched
<1>11. DirtyIsCached'
  BY <1>1, <1>2, <1>3, <1>5, <1>6 DEF IndInv, DirtyIsCached, Cached
<1>12. CleanMatchesDisk'
  BY <1>2, <1>3, <1>4, <1>5 DEF IndInv, CleanMatchesDisk
<1>13. SeesWork'
  <2>1. ASSUME NEW q \in Pages \ damaged', work'[q] # None
        PROVE  work'[q] = IF mem'[q] # None THEN mem'[q] ELSE disk'[q]
    <3>1. CASE q = n
      BY <1>5, <1>6, <3>1
    <3>2. CASE q # n
      <4>1. work[q] # None /\ q \notin damaged /\ work'[q] = work[q]
        BY <1>1, <1>5, <2>1, <3>2
      <4>2. work[q] = IF mem[q] # None THEN mem[q] ELSE disk[q]
        BY <1>1, <4>1 DEF IndInv, SeesWork, Up, Aborting
      <4>3. CASE q \in V
        BY <1>3, <1>4, <1>5, <3>2, <4>1, <4>2, <4>3 DEF Cached
      <4>4. CASE q \notin V
        BY <1>4, <1>5, <3>2, <4>1, <4>2, <4>4
      <4>5. QED
        BY <4>3, <4>4
    <3>3. QED
      BY <3>1, <3>2
  <2>2. QED
    BY <2>1 DEF SeesWork, Aborting
<1>14. UntouchedIsCommitted'
  BY <1>1, <1>5, <1>9 DEF IndInv, UntouchedIsCommitted, Up, Aborting
<1>15. UndoIsLogged'
  <2>1. n \notin damaged' => committed[n] = None
    BY <1>1 DEF n
  <2>2. damaged \subseteq damaged'
    BY <1>1
  <2>3. ASSUME NEW q \in Pages, q = n, undo[q] = 0 PROVE OwnUndo(q)'
    BY <1>1, <1>7, <1>9, <2>3 DEF OwnUndo, HasUndo
  <2>4. ASSUME NEW q \in Pages, q # n \/ undo[n] # 0
        PROVE  /\ undo'[q] = undo[q]
               /\ OwnUndo(q)' <=> OwnUndo(q)
               /\ OwnUndo(q) => wal'[undo'[q]] = wal[undo[q]]
    <3>1. undo'[q] = undo[q]
      BY <1>9, <2>4
    <3>2. CASE wal' = wal
      BY <1>1, <3>1, <3>2 DEF OwnUndo, HasUndo
    <3>3. CASE wal' = Append(wal, r) /\ q # n
      BY <1>1, <1>7, <3>1, <3>3, OwnUndoAppend
    <3>4. QED
      BY <1>8, <2>4, <3>1, <3>2, <3>3
  <2>5. QED
    BY <1>1, <1>9, <2>1, <2>2, <2>3, <2>4 DEF IndInv, UndoIsLogged
<1>16. LogIsOrdered'
  <2>1. \A i \in DOMAIN wal : wal[i].txn = txn => undo'[wal[i].page] # 0
    <3>1. \A i \in DOMAIN wal : wal[i].txn = txn =>
            wal[i].page \in Pages /\ undo[wal[i].page] # 0
      BY <1>1, <1>7 DEF IndInv, LogIsOrdered, Up, WalRecord, Image, Marker, Aborting
    <3>2. QED
      BY <1>9, <3>1
  <2>2. QED
    <3>1. /\ txn < nextTxn /\ 0 < txn
          /\ \A i \in DOMAIN wal :
               /\ 0 < wal[i].txn /\ wal[i].txn < nextTxn
               /\ wal[i].txn = txn => wal[i].kind # "commit"
      BY <1>1, <1>7 DEF IndInv, LogIsOrdered, Up, Aborting
    <3>2. ASSUME NEW i \in DOMAIN wal'
          PROVE  /\ 0 < wal'[i].txn /\ wal'[i].txn < nextTxn
                 /\ wal'[i].txn = txn => wal'[i].kind # "commit" /\ undo'[wal'[i].page] # 0
      <4>1. CASE i \in DOMAIN wal
        BY <1>9, <2>1, <3>1, <4>1
      <4>2. CASE i \notin DOMAIN wal
        BY <1>7, <1>9, <3>1, <4>2
      <4>3. QED
        BY <4>1, <4>2
    <3>3. QED
      BY <1>1, <3>1, <3>2 DEF LogIsOrdered, Aborting
<1>17. RecoveryRestoresCommitted'
  <2>1. ASSUME NEW q \in Pages, Kept(q)' PROVE RecoversTo(wal', disk', q, committed[q])
    <3>1. q # n /\ Kept(q)
      BY <1>1, <2>1 DEF Kept
    <3>2. RecoversTo(wal, disk', q, committed[q])
      BY <1>4, <3>1
    <3>3. wal' = wal => RecoversTo(wal', disk', q, committed[q])
      BY <3>2
    <3>4. wal' = Append(wal, r) => RecoversTo(wal', disk', q, committed[q])
      BY <1>7, <3>1, <3>2, RecoversAppendOther
    <3>5. QED
      BY <1>8, <3>3, <3>4
  <2>2. QED
    BY <1>1, <2>1 DEF RecoveryRestoresCommitted
<1>18. QED
  BY <1>10, <1>11, <1>12, <1>13, <1>14, <1>15, <1>16, <1>17 DEF IndInv

\* Steps that change only the session: begin, a commit without changes, and
\* the first and last steps of a commit or an abort that take or return locks.
LEMMA SessionInv ==
    ASSUME IndInv, TypeOK',
           \/ Begin \/ EndReadOnly \/ StartCommit \/ WriteBatch
           \/ StartAbort \/ LockRollback \/ AbortDone
    PROVE  IndInv'
<1>1. /\ op \in {"run", "commit", "abort", "rollback"}
      /\ op' \in {"run", "commit", "batch", "abort", "rollback"}
      /\ ~closing
      /\ UNCHANGED <<store, pool, undo, flusher, committed, lost, damaged>>
  BY DEF IndInv, ShutdownIsClean, Running, Begin, EndReadOnly, StartCommit, WriteBatch,
         StartAbort, LockRollback, AbortDone
<1>2. NothingCached' /\ DirtyIsCached' /\ CleanMatchesDisk' /\ RecoveryProgress'
      /\ ShutdownIsClean' /\ RecoveryRestoresCommitted'
  BY <1>1 DEF IndInv, NothingCached, DirtyIsCached, CleanMatchesDisk, RecoveryProgress,
              ShutdownIsClean, RecoveryRestoresCommitted, Cached, Kept, Up
<1>3. CASE Begin \/ EndReadOnly
  <2>1. UNCHANGED <<op, work, pend>> /\ op = "run" /\ \A p \in Pages : undo[p] = 0
    <3>1. txn = 0 => \A p \in Pages : undo[p] = 0
      BY DEF IndInv, UndoIsLogged
    <3>2. QED
      BY <1>3, <3>1 DEF Begin, EndReadOnly, Running, Touched
  <2>2. LogIsOrdered'
    <3>1. nextTxn \in Nat /\ \A i \in DOMAIN wal : 0 < wal[i].txn /\ wal[i].txn < nextTxn
      BY <2>1 DEF IndInv, LogIsOrdered, TypeOK, Up
    <3>2. \A i \in DOMAIN wal : wal[i].txn \in Nat
      BY DEF IndInv, TypeOK, WalRecord, Image, Marker
    <3>3. CASE Begin
      BY <1>1, <2>1, <3>1, <3>2, <3>3 DEF LogIsOrdered, Begin
    <3>4. CASE EndReadOnly
      BY <1>1, <2>1, <3>1, <3>2, <3>4 DEF IndInv, TypeOK, LogIsOrdered, EndReadOnly
    <3>5. QED
      BY <1>3, <3>3, <3>4
  <2>3. SeesWork' /\ UntouchedIsCommitted' /\ UndoIsLogged' /\ BatchIsWritten'
    BY <1>1, <2>1 DEF IndInv, SeesWork, UntouchedIsCommitted, UndoIsLogged,
                      BatchIsWritten, Up, Aborting
  <2>4. QED
    BY <1>2, <2>2, <2>3 DEF IndInv
<1>4. CASE StartCommit \/ WriteBatch
  <2>1. /\ op \in {"run", "commit"} /\ op' \in {"commit", "batch"} /\ txn # 0
        /\ UNCHANGED <<txn, nextTxn, work>>
        /\ op' = "batch" => pend' = Touched
    BY <1>4 DEF StartCommit, WriteBatch, Running, IndInv, BatchIsWritten
  <2>2. SeesWork' /\ UntouchedIsCommitted' /\ LogIsOrdered'
    BY <1>1, <2>1 DEF IndInv, SeesWork, UntouchedIsCommitted, LogIsOrdered, Up, Aborting
  <2>3. UndoIsLogged'
    BY <1>1, <2>1 DEF IndInv, UndoIsLogged, OwnUndo, HasUndo
  <2>4. BatchIsWritten'
    BY <1>1, <2>1 DEF BatchIsWritten, Touched, Cached
  <2>5. QED
    BY <1>2, <2>2, <2>3, <2>4 DEF IndInv
<1>5. CASE StartAbort \/ LockRollback
  <2>1. /\ op \in {"run", "abort"} /\ op' \in {"abort", "rollback"}
        /\ UNCHANGED <<txn, nextTxn, pend>>
        /\ \A p \in Pages : work'[p] = committed[p]
    BY <1>5 DEF StartAbort, LockRollback, Running, IndInv, UntouchedIsCommitted, Up, Aborting
  <2>2. SeesWork'
    <3>1. ASSUME NEW p \in Pages \ damaged, work'[p] # None, undo[p] = 0
          PROVE  work'[p] = IF mem[p] # None THEN mem[p] ELSE disk[p]
      <4>1. work[p] = committed[p]
        BY <2>1, <3>1 DEF IndInv, UntouchedIsCommitted, Up
      <4>2. QED
        BY <2>1, <3>1, <4>1 DEF IndInv, SeesWork, Up
    <3>2. QED
      BY <1>1, <2>1, <3>1 DEF SeesWork, Aborting
  <2>3. UntouchedIsCommitted' /\ LogIsOrdered'
    BY <1>1, <2>1 DEF IndInv, UntouchedIsCommitted, LogIsOrdered, Up, Aborting
  <2>4. UndoIsLogged'
    BY <1>1, <2>1 DEF IndInv, UndoIsLogged, OwnUndo, HasUndo
  <2>5. BatchIsWritten'
    BY <2>1 DEF BatchIsWritten
  <2>6. QED
    BY <1>2, <2>2, <2>3, <2>4, <2>5 DEF IndInv
<1>6. CASE AbortDone
  <2>1. /\ op = "rollback" /\ op' = "run" /\ txn' = 0
        /\ UNCHANGED <<nextTxn, pend, work>> /\ \A p \in Pages : undo[p] = 0
    BY <1>6 DEF AbortDone, Touched
  <2>2. SeesWork' /\ UntouchedIsCommitted' /\ UndoIsLogged' /\ BatchIsWritten'
    BY <1>1, <2>1 DEF IndInv, SeesWork, UntouchedIsCommitted, UndoIsLogged,
                      BatchIsWritten, Up, Aborting
  <2>3. LogIsOrdered'
    BY <1>1, <2>1 DEF IndInv, LogIsOrdered, TypeOK, Up
  <2>4. QED
    BY <1>2, <2>2, <2>3 DEF IndInv
<1>7. QED
  BY <1>3, <1>4, <1>5, <1>6

\* A Redo image in the commit batch keeps the invariant.
LEMMA CommitRedoInv ==
    ASSUME IndInv, NEW p \in Pages, CommitRedo(p), TypeOK'
    PROVE  IndInv'
<1> DEFINE r == Redo(txn, p, mem[p])
<1>1. /\ op = "batch" /\ p \in pend /\ mem[p] # None /\ pend' = pend \ {p}
      /\ wal' = Append(wal, r)
      /\ UNCHANGED <<disk, hdr, pool, txn, nextTxn, undo, op, flusher, history>>
  BY DEF CommitRedo
<1>2. /\ mem[p] \in Content /\ wal \in Seq(WalRecord) /\ txn \in Nat
      /\ r \in Image /\ r \in WalRecord
      /\ r.kind = "redo" /\ r.txn = txn /\ r.page = p
  BY <1>1 DEF IndInv, TypeOK, Image, WalRecord, Redo
<1>3. /\ DOMAIN wal' = DOMAIN wal \cup {Len(wal) + 1}
      /\ Len(wal) + 1 \notin DOMAIN wal
      /\ \A i \in DOMAIN wal' : ~(i > Len(wal) + 1)
      /\ \A i \in DOMAIN wal : wal'[i] = wal[i]
      /\ wal'[Len(wal) + 1] = r
  BY <1>1, <1>2
<1>4. txn # 0 /\ undo[p] # 0 /\ pend \subseteq Touched
  BY <1>1 DEF IndInv, BatchIsWritten, Touched
<1>5. txn \notin CommittedTxns(wal)
  BY <1>1, <1>4, TxnNotCommitted DEF Up
<1> HIDE DEF r
<1>6. NothingCached' /\ RecoveryProgress' /\ ShutdownIsClean'
  BY <1>1 DEF IndInv, NothingCached, RecoveryProgress, ShutdownIsClean, Up, Touched
<1>7. DirtyIsCached' /\ CleanMatchesDisk' /\ SeesWork' /\ UntouchedIsCommitted'
  BY <1>1 DEF IndInv, DirtyIsCached, Cached, CleanMatchesDisk, SeesWork,
              UntouchedIsCommitted, Up, Aborting
<1>8. UndoIsLogged'
  <2>1. \A q \in Pages :
          /\ OwnUndo(q)' <=> OwnUndo(q)
          /\ OwnUndo(q) => wal'[undo'[q]] = wal[undo[q]]
    BY <1>1, <1>2, OwnUndoAppend
  <2>2. QED
    BY <1>1, <2>1 DEF IndInv, UndoIsLogged
<1>9. LogIsOrdered'
  <2>1. /\ txn < nextTxn /\ 0 < txn
        /\ \A i \in DOMAIN wal :
             /\ 0 < wal[i].txn /\ wal[i].txn < nextTxn
             /\ wal[i].txn = txn => wal[i].kind # "commit" /\ undo[wal[i].page] # 0
    BY <1>1, <1>2, <1>4 DEF IndInv, LogIsOrdered, Up, Aborting
  <2>2. QED
    BY <1>1, <1>2, <1>3, <1>4, <2>1 DEF LogIsOrdered, Aborting
<1>10. BatchIsWritten'
  <2>1. ASSUME NEW q \in (Touched \cap Cached) \ pend'
        PROVE  \E i \in DOMAIN wal' :
                 /\ wal'[i] = Redo(txn, q, mem[q])
                 /\ \A j \in DOMAIN wal' :
                      j > i => wal'[j].kind = "commit" \/ wal'[j].page # q
    <3>1. CASE q = p
      BY <1>3, <3>1 DEF r
    <3>2. CASE q # p
      <4>1. PICK i \in DOMAIN wal :
              /\ wal[i] = Redo(txn, q, mem[q])
              /\ \A j \in DOMAIN wal :
                   j > i => wal[j].kind = "commit" \/ wal[j].page # q
        BY <1>1, <2>1, <3>2 DEF IndInv, BatchIsWritten
      <4>2. QED
        BY <1>2, <1>3, <3>2, <4>1
    <3>3. QED
      BY <3>1, <3>2
  <2>2. Touched' = Touched /\ Cached' = Cached
    BY <1>1 DEF Touched, Cached
  <2>3. QED
    BY <1>1, <1>4, <2>1, <2>2 DEF BatchIsWritten
<1>11. RecoveryRestoresCommitted'
  BY <1>1, <1>2, <1>5, RecoversAppendRedo
     DEF IndInv, RecoveryRestoresCommitted, Kept, r
<1>12. QED
  BY <1>6, <1>7, <1>8, <1>9, <1>10, <1>11 DEF IndInv

\* Passing over an evicted page in the commit batch keeps the invariant.
LEMMA CommitSkipInv ==
    ASSUME IndInv, NEW p \in Pages, CommitSkip(p), TypeOK'
    PROVE  IndInv'
<1>1. /\ op = "batch" /\ p \in pend /\ p \notin Cached /\ pend' = pend \ {p}
      /\ UNCHANGED <<store, pool, txn, nextTxn, undo, op, flusher, history>>
  BY DEF CommitSkip, Cached
<1>2. NothingCached' /\ RecoveryProgress' /\ ShutdownIsClean'
  BY <1>1 DEF IndInv, NothingCached, RecoveryProgress, ShutdownIsClean, Up, Touched
<1>3. DirtyIsCached' /\ CleanMatchesDisk' /\ SeesWork' /\ UntouchedIsCommitted'
  BY <1>1 DEF IndInv, DirtyIsCached, Cached, CleanMatchesDisk, SeesWork,
              UntouchedIsCommitted, Up, Aborting
<1>4. UndoIsLogged' /\ LogIsOrdered' /\ RecoveryRestoresCommitted'
  BY <1>1 DEF IndInv, UndoIsLogged, OwnUndo, HasUndo, LogIsOrdered,
              RecoveryRestoresCommitted, Kept, Up, Aborting
<1>5. BatchIsWritten'
  <2>1. Touched' = Touched /\ Cached' = Cached
    BY <1>1 DEF Touched, Cached
  <2>2. (Touched \cap Cached) \ pend' = (Touched \cap Cached) \ pend
    BY <1>1
  <2>3. QED
    BY <1>1, <2>1, <2>2 DEF IndInv, BatchIsWritten
<1>6. QED
  BY <1>2, <1>3, <1>4, <1>5 DEF IndInv

\* The Commit marker, which makes the batch count, keeps the invariant.
LEMMA CommitDoneInv ==
    ASSUME IndInv, CommitDone, TypeOK'
    PROVE  IndInv'
<1>1. /\ op = "batch" /\ op' = "run" /\ pend = {} /\ txn' = 0
      /\ wal' = Append(wal, CommitMark(txn))
      /\ undo' = [p \in Pages |-> 0]
      /\ committed' = work
      /\ lost' = (lost \ (Touched \cap Cached)) \cup (Touched \ Cached)
      /\ UNCHANGED <<disk, hdr, pool, nextTxn, pend, flusher, work, damaged>>
  BY DEF CommitDone
<1>2. wal \in Seq(WalRecord) /\ txn \in Nat /\ txn # 0
  BY <1>1 DEF IndInv, TypeOK, BatchIsWritten
<1>3. /\ DOMAIN wal' = DOMAIN wal \cup {Len(wal) + 1}
      /\ \A i \in DOMAIN wal : wal'[i] = wal[i]
      /\ wal'[Len(wal) + 1].txn = txn
  BY <1>1, <1>2 DEF CommitMark, WalRecord, Marker
<1>4. NothingCached' /\ RecoveryProgress' /\ ShutdownIsClean' /\ BatchIsWritten'
  BY <1>1 DEF IndInv, NothingCached, RecoveryProgress, ShutdownIsClean, BatchIsWritten,
              Up, Touched
<1>5. DirtyIsCached' /\ CleanMatchesDisk' /\ SeesWork' /\ UntouchedIsCommitted'
      /\ UndoIsLogged'
  BY <1>1 DEF IndInv, DirtyIsCached, Cached, CleanMatchesDisk, SeesWork,
              UntouchedIsCommitted, UndoIsLogged, OwnUndo, HasUndo, Up, Aborting
<1>6. LogIsOrdered'
  <2>1. /\ txn < nextTxn /\ 0 < txn /\ 0 < nextTxn
        /\ \A i \in DOMAIN wal : 0 < wal[i].txn /\ wal[i].txn < nextTxn
    BY <1>1, <1>2 DEF IndInv, LogIsOrdered, TypeOK, Up, Aborting
  <2>2. \A i \in DOMAIN wal' : 0 < wal'[i].txn /\ wal'[i].txn < nextTxn
    BY <1>3, <2>1
  <2>3. QED
    BY <1>1, <2>1, <2>2 DEF LogIsOrdered, Aborting
<1>7. RecoveryRestoresCommitted'
  <2>1. ASSUME NEW p \in Pages, Kept(p)' PROVE RecoversTo(wal', disk, p, work[p])
    <3>1. p \notin damaged /\ work[p] # None
      BY <1>1, <2>1 DEF Kept
    <3>2. CASE undo[p] # 0
      <4>1. p \in Touched \cap Cached
        BY <1>1, <2>1, <3>2 DEF Kept, Touched
      <4>2. mem[p] = work[p]
        BY <1>1, <3>1, <4>1 DEF IndInv, SeesWork, Cached, Up, Aborting
      <4>3. PICK i \in DOMAIN wal :
              /\ wal[i] = Redo(txn, p, mem[p])
              /\ \A j \in DOMAIN wal :
                   j > i => wal[j].kind = "commit" \/ wal[j].page # p
        BY <1>1, <4>1 DEF IndInv, BatchIsWritten
      <4>4. QED
        BY <1>1, <1>2, <4>2, <4>3, RecoversCommitRedo
    <3>3. CASE undo[p] = 0
      <4>1. work[p] = committed[p] /\ Kept(p)
        BY <1>1, <2>1, <3>1, <3>3 DEF IndInv, UntouchedIsCommitted, Up, Kept, Touched,
                                      Aborting
      <4>2. RecoversTo(wal, disk, p, work[p])
        BY <4>1 DEF IndInv, RecoveryRestoresCommitted
      <4>3. \A i \in DOMAIN wal : wal[i].kind # "commit" /\ wal[i].page = p => wal[i].txn # txn
        BY <1>1, <3>3 DEF IndInv, LogIsOrdered, Up, Aborting
      <4>4. QED
        BY <1>1, <1>2, <4>2, <4>3, RecoversCommitOther
    <3>4. QED
      BY <3>2, <3>3
  <2>2. QED
    BY <1>1, <2>1 DEF RecoveryRestoresCommitted
<1>8. QED
  BY <1>4, <1>5, <1>6, <1>7 DEF IndInv

\* Rolling one page back keeps the invariant.
LEMMA AbortPageInv ==
    ASSUME IndInv, NEW p \in Pages, AbortPage(p), TypeOK'
    PROVE  IndInv'
<1>1. /\ op = "rollback" /\ undo[p] # 0 /\ dirty' = dirty \ {p}
      /\ damaged' = IF OwnUndo(p) THEN damaged ELSE damaged \cup {p}
      /\ UNCHANGED <<hdr, wal, nextFree, txn, nextTxn, op, pend, flusher>>
      /\ UNCHANGED <<committed, work, lost>>
  BY DEF AbortPage
<1>2. \A q \in Pages :
        /\ disk'[q] = IF q = p THEN wal[undo[p]].img ELSE disk[q]
        /\ mem'[q] = IF q = p THEN None ELSE mem[q]
        /\ undo'[q] = IF q = p THEN 0 ELSE undo[q]
  BY DEF AbortPage, IndInv, TypeOK
<1>3. p \notin damaged' /\ committed[p] # None => wal[undo[p]].img = committed[p]
  BY <1>1 DEF IndInv, UndoIsLogged
<1>4. work = committed
  BY <1>1 DEF IndInv, UntouchedIsCommitted, TypeOK, Up, Aborting
<1>5. NothingCached' /\ RecoveryProgress' /\ BatchIsWritten' /\ ShutdownIsClean'
  BY <1>1 DEF IndInv, NothingCached, RecoveryProgress, BatchIsWritten,
              ShutdownIsClean, Up
<1>6. DirtyIsCached' /\ CleanMatchesDisk'
  BY <1>1, <1>2 DEF IndInv, DirtyIsCached, Cached, CleanMatchesDisk
<1>7. SeesWork'
  BY <1>1, <1>2, <1>3, <1>4 DEF IndInv, SeesWork, Up, Aborting
<1>8. UntouchedIsCommitted' /\ LogIsOrdered'
  BY <1>1, <1>2, <1>4 DEF IndInv, UntouchedIsCommitted, LogIsOrdered, Up, Aborting
<1>9. UndoIsLogged'
  BY <1>1, <1>2 DEF IndInv, UndoIsLogged, OwnUndo, HasUndo
<1>10. RecoveryRestoresCommitted'
  <2>1. ASSUME NEW q \in Pages, Kept(q)' PROVE RecoversTo(wal, disk', q, committed[q])
    <3>1. Kept(q)
      BY <1>1, <2>1 DEF Kept
    <3>2. wal \in Seq(WalRecord) /\ RecoversTo(wal, disk, q, committed[q])
      BY <3>1 DEF IndInv, TypeOK, RecoveryRestoresCommitted
    <3>3. disk'[q] = disk[q] \/ disk'[q] = committed[q]
      BY <1>1, <1>2, <1>3, <2>1 DEF Kept
    <3>4. QED
      BY <3>2, <3>3, RecoversAfterWrite
  <2>2. QED
    BY <1>1, <2>1 DEF RecoveryRestoresCommitted
<1>11. QED
  BY <1>5, <1>6, <1>7, <1>8, <1>9, <1>10 DEF IndInv

\* A rollback finds its records, unless the log was truncated under it.
LEMMA RollbackFindsUndo ==
    ASSUME IndInv, lost = {}, NEW p \in Pages
    PROVE  undo[p] # 0 => OwnUndo(p)
BY DEF IndInv, UndoIsLogged

\* A rollback that stops at a record it does not find keeps the invariant: the
\* pages it leaves behind are the damaged ones.
LEMMA AbortFailInv ==
    ASSUME IndInv, NEW p \in Pages, AbortFail(p), TypeOK'
    PROVE  IndInv'
<1>1. /\ op = "rollback" /\ op' = "run" /\ txn' = 0 /\ damaged' = damaged \cup Touched
      /\ UNCHANGED <<store, pool, nextTxn, pend, flusher, committed, work, lost>>
      /\ \A q \in Pages : undo'[q] = 0
  BY DEF AbortFail
<1>2. NothingCached' /\ DirtyIsCached' /\ CleanMatchesDisk' /\ RecoveryProgress'
      /\ BatchIsWritten'
  BY <1>1 DEF IndInv, NothingCached, DirtyIsCached, Cached, CleanMatchesDisk,
              RecoveryProgress, BatchIsWritten, Up
<1>3. SeesWork'
  <2>1. ASSUME NEW q \in Pages \ damaged', work[q] # None
        PROVE  work[q] = IF mem[q] # None THEN mem[q] ELSE disk[q]
    <3>1. q \notin damaged /\ undo[q] = 0
      BY <1>1, <2>1 DEF Touched
    <3>2. QED
      BY <1>1, <2>1, <3>1 DEF IndInv, SeesWork, Up
  <2>2. QED
    BY <1>1, <2>1 DEF SeesWork
<1>4. UntouchedIsCommitted' /\ UndoIsLogged'
  BY <1>1 DEF IndInv, UntouchedIsCommitted, UndoIsLogged, Up, Aborting
<1>5. LogIsOrdered'
  BY <1>1 DEF IndInv, LogIsOrdered, TypeOK, Up
<1>6. ShutdownIsClean'
  BY <1>1 DEF IndInv, ShutdownIsClean
<1>7. RecoveryRestoresCommitted'
  BY <1>1 DEF IndInv, RecoveryRestoresCommitted, Kept
<1>8. QED
  BY <1>2, <1>3, <1>4, <1>5, <1>6, <1>7 DEF IndInv

\* The start of a checkpoint or shutdown, and of its flush_all_pages, keep the
\* invariant.
LEMMA StartCheckpointInv ==
    ASSUME IndInv, StartCheckpoint \/ StartShutdown \/ CkptList, TypeOK'
    PROVE  IndInv'
<1>1. /\ Up /\ ck' # "idle"
      /\ UNCHANGED <<store, pool, session, history>>
  BY DEF IndInv, NothingCached, StartCheckpoint, StartShutdown, CkptList, Up
<1>2. NothingCached' /\ DirtyIsCached' /\ CleanMatchesDisk' /\ SeesWork'
      /\ UntouchedIsCommitted' /\ BatchIsWritten'
  BY <1>1 DEF IndInv, NothingCached, DirtyIsCached, Cached, CleanMatchesDisk, SeesWork,
              UntouchedIsCommitted, BatchIsWritten, Touched, Up, Aborting
<1>3. UndoIsLogged' /\ LogIsOrdered' /\ RecoveryProgress' /\ RecoveryRestoresCommitted'
  BY <1>1 DEF IndInv, UndoIsLogged, OwnUndo, HasUndo, LogIsOrdered, RecoveryProgress,
              RecoveryRestoresCommitted, Kept, Up, Aborting
<1>4. ShutdownIsClean'
  <2>1. CASE StartCheckpoint
    BY <2>1 DEF IndInv, StartCheckpoint, ShutdownIsClean
  <2>2. CASE StartShutdown
    BY <2>2 DEF StartShutdown, CanCheckpoint, Active, ShutdownIsClean, Touched
  <2>3. CASE CkptList
    BY <2>3 DEF CkptList, IndInv, DirtyIsCached, ShutdownIsClean, Touched
  <2>4. QED
    BY <2>1, <2>2, <2>3
<1>5. QED
  BY <1>2, <1>3, <1>4 DEF IndInv

\* A checkpoint's write of one page keeps the invariant.
LEMMA CkptFlushInv ==
    ASSUME IndInv, NEW p \in Pages, CkptFlush(p), TypeOK'
    PROVE  IndInv'
<1>1. /\ Up /\ ck = "flush" /\ disk' = Written({p}) /\ dirty' = dirty \ {p}
      /\ ckPend' = ckPend \ {p}
      /\ UNCHANGED <<hdr, wal, mem, nextFree, session, ck, closing, history>>
  BY DEF CkptFlush, IndInv, NothingCached
<1>2. /\ \A q \in Pages : Kept(q) => RecoversTo(wal, disk', q, committed[q])
      /\ \A q \in Pages : disk'[q] = IF q = p /\ p \in dirty THEN mem[q] ELSE disk[q]
  BY <1>1, WriteBackIsSafe
<1>3. NothingCached' /\ RecoveryProgress' /\ BatchIsWritten'
  BY <1>1 DEF IndInv, NothingCached, RecoveryProgress, BatchIsWritten, Touched, Cached, Up
<1>4. ShutdownIsClean'
  BY <1>1 DEF IndInv, ShutdownIsClean, Touched
<1>5. DirtyIsCached' /\ CleanMatchesDisk' /\ SeesWork'
  BY <1>1, <1>2 DEF IndInv, DirtyIsCached, Cached, CleanMatchesDisk, SeesWork, Up,
                    Aborting
<1>6. UntouchedIsCommitted' /\ UndoIsLogged' /\ LogIsOrdered'
  BY <1>1 DEF IndInv, UntouchedIsCommitted, UndoIsLogged, OwnUndo, HasUndo, LogIsOrdered,
              Up, Aborting
<1>7. RecoveryRestoresCommitted'
  BY <1>1, <1>2 DEF RecoveryRestoresCommitted, Kept
<1>8. QED
  BY <1>3, <1>4, <1>5, <1>6, <1>7 DEF IndInv

\* A checkpoint's write of the header keeps the invariant.
LEMMA CkptHeaderInv ==
    ASSUME IndInv, CkptHeader, TypeOK'
    PROVE  IndInv'
<1>1. /\ Up /\ ck = "flush" /\ ckPend = {} /\ ck' = "truncate"
      /\ UNCHANGED <<disk, wal, pool, session, ckPend, closing, history>>
  BY DEF CkptHeader, IndInv, NothingCached
<1>2. NothingCached' /\ DirtyIsCached' /\ CleanMatchesDisk' /\ SeesWork'
      /\ UntouchedIsCommitted' /\ BatchIsWritten'
  BY <1>1 DEF IndInv, NothingCached, DirtyIsCached, Cached, CleanMatchesDisk, SeesWork,
              UntouchedIsCommitted, BatchIsWritten, Up, Aborting, Touched
<1>3. UndoIsLogged' /\ LogIsOrdered' /\ RecoveryProgress' /\ RecoveryRestoresCommitted'
  BY <1>1 DEF IndInv, UndoIsLogged, OwnUndo, HasUndo, LogIsOrdered, RecoveryProgress,
              RecoveryRestoresCommitted, Kept, Up, Aborting
<1>4. ShutdownIsClean'
  BY <1>1 DEF IndInv, ShutdownIsClean, Touched
<1>5. QED
  BY <1>2, <1>3, <1>4 DEF IndInv

\* The file has the committed content of every page that is neither dirty nor
\* touched by the open transaction.
LEMMA CheckpointedFile ==
    ASSUME IndInv, Up, NEW p \in Pages \ damaged, committed[p] # None,
           p \notin Touched \cup dirty
    PROVE  disk[p] = committed[p]
<1>1. undo[p] = 0 /\ p \notin dirty
  BY DEF Touched
<1>2. work[p] = committed[p]
  BY <1>1 DEF IndInv, UntouchedIsCommitted
<1>3. QED
  BY <1>1, <1>2 DEF IndInv, SeesWork, CleanMatchesDisk

\* Truncating the log at the end of a checkpoint keeps the invariant, whoever is
\* in the middle of what: the pages that need the log now are the lost ones.
LEMMA CkptTruncateInv ==
    ASSUME IndInv, CkptTruncate, TypeOK'
    PROVE  IndInv'
<1>1. /\ Up /\ LogFree /\ ck = "truncate" /\ wal' = <<>> /\ ck' = "idle"
      /\ ~closing' /\ lost' = Touched \cup dirty
      /\ op' = IF closing THEN "down" ELSE op
      /\ mem' = IF closing THEN [p \in Pages |-> None] ELSE mem
      /\ UNCHANGED <<disk, hdr, dirty, nextFree, txn, nextTxn, undo, pend, ckPend,
                     committed, work, damaged>>
  BY DEF CkptTruncate, IndInv, NothingCached
<1>2. DOMAIN wal' = {}
  BY <1>1
<1>3. RecoveryRestoresCommitted'
  BY <1>1, CheckpointedFile, RecoversEmpty DEF RecoveryRestoresCommitted, Kept
<1>4. CASE closing
  <2>1. /\ op = "run" /\ op' = "down" /\ txn = 0 /\ dirty = {}
        /\ \A p \in Pages : undo[p] = 0 /\ mem'[p] = None
    BY <1>1, <1>4 DEF IndInv, ShutdownIsClean, Touched
  <2>2. work = committed
    BY <2>1 DEF IndInv, UntouchedIsCommitted, TypeOK, Up
  <2>3. NothingCached'
    BY <1>1, <2>1, <2>2 DEF NothingCached, Touched
  <2>4. DirtyIsCached' /\ CleanMatchesDisk' /\ SeesWork' /\ UntouchedIsCommitted'
        /\ UndoIsLogged' /\ LogIsOrdered' /\ BatchIsWritten' /\ ShutdownIsClean'
        /\ RecoveryProgress'
    BY <1>1, <2>1 DEF DirtyIsCached, CleanMatchesDisk, SeesWork, UntouchedIsCommitted,
         UndoIsLogged, LogIsOrdered, BatchIsWritten, ShutdownIsClean, RecoveryProgress, Up
  <2>5. QED
    BY <1>3, <2>3, <2>4 DEF IndInv
<1>5. CASE ~closing
  <2>1. op' = op /\ mem' = mem
    BY <1>1, <1>5
  <2>2. NothingCached' /\ DirtyIsCached' /\ CleanMatchesDisk' /\ SeesWork'
        /\ UntouchedIsCommitted' /\ ShutdownIsClean' /\ RecoveryProgress'
    BY <1>1, <2>1 DEF IndInv, NothingCached, DirtyIsCached, Cached, CleanMatchesDisk,
         SeesWork, UntouchedIsCommitted, ShutdownIsClean, RecoveryProgress, Up, Aborting
  <2>3. UndoIsLogged'
    BY <1>1, <1>2 DEF IndInv, UndoIsLogged, OwnUndo, HasUndo, Touched
  <2>4. LogIsOrdered' /\ BatchIsWritten'
    BY <1>1, <1>2, <2>1 DEF IndInv, LogIsOrdered, BatchIsWritten, LogFree, Up
  <2>5. QED
    BY <1>3, <2>2, <2>3, <2>4 DEF IndInv
<1>6. QED
  BY <1>4, <1>5

\* A kill in any state keeps the invariant.
LEMMA KillInv ==
    ASSUME IndInv, Kill, TypeOK'
    PROVE  IndInv'
<1>1. /\ op' = "down" /\ dirty' = {} /\ txn' = 0 /\ ck' = "idle" /\ work' = committed
      /\ ~closing'
      /\ damaged' = damaged \cup lost /\ lost' = {}
      /\ UNCHANGED <<store, committed>>
      /\ \A p \in Pages : mem'[p] = None /\ undo'[p] = 0
  BY DEF Kill
<1>2. committed' = committed /\ wal' = wal /\ disk' = disk
  BY <1>1
<1>3. NothingCached' /\ DirtyIsCached' /\ CleanMatchesDisk' /\ SeesWork'
      /\ UntouchedIsCommitted' /\ UndoIsLogged' /\ LogIsOrdered' /\ BatchIsWritten'
      /\ ShutdownIsClean' /\ RecoveryProgress'
  BY <1>1 DEF NothingCached, DirtyIsCached, CleanMatchesDisk, SeesWork,
              UntouchedIsCommitted, UndoIsLogged, OwnUndo, HasUndo, LogIsOrdered,
              BatchIsWritten, ShutdownIsClean, RecoveryProgress, Up, Aborting, Touched
<1>4. RecoveryRestoresCommitted'
  BY <1>1, <1>2 DEF IndInv, RecoveryRestoresCommitted, Kept
<1>5. QED
  BY <1>3, <1>4 DEF IndInv

\* Opening the database after a kill or a shutdown keeps the invariant.
LEMMA OpenInv ==
    ASSUME IndInv, Open, TypeOK'
    PROVE  IndInv'
<1>1. /\ op = "down" /\ op' = IF wal = <<>> THEN "run" ELSE "recover"
      /\ pend' = {p \in Pages : \E i \in DOMAIN wal : Applies(wal, i, p)}
      /\ UNCHANGED <<store, mem, dirty, txn, undo, flusher, history>>
  BY DEF Open
<1>2. /\ \A p \in Pages : mem[p] = None /\ undo[p] = 0
      /\ dirty = {} /\ lost = {} /\ txn = 0 /\ ck = "idle" /\ work = committed
  BY <1>1 DEF IndInv, NothingCached, Up
<1>3. NothingCached' /\ DirtyIsCached' /\ CleanMatchesDisk' /\ UntouchedIsCommitted'
      /\ UndoIsLogged' /\ ShutdownIsClean'
  BY <1>1, <1>2 DEF IndInv, NothingCached, DirtyIsCached, CleanMatchesDisk,
                    UntouchedIsCommitted, UndoIsLogged, OwnUndo, HasUndo, ShutdownIsClean,
                    Aborting, Touched
<1>4. BatchIsWritten'
  BY <1>1 DEF BatchIsWritten
<1>5. SeesWork' /\ LogIsOrdered'
  <2>1. CASE wal = <<>>
    <3>1. ASSUME NEW p \in Pages \ damaged, work[p] # None PROVE disk[p] = work[p]
      BY <1>2, <2>1, <3>1, RecoversEmpty DEF IndInv, RecoveryRestoresCommitted, Kept
    <3>2. SeesWork'
      BY <1>1, <1>2, <3>1 DEF SeesWork, Aborting
    <3>3. LogIsOrdered'
      BY <1>1, <1>2, <2>1 DEF LogIsOrdered, Open, Aborting
    <3>4. QED
      BY <3>2, <3>3
  <2>2. CASE wal # <<>>
    BY <1>1, <2>2 DEF SeesWork, LogIsOrdered, Up, Aborting
  <2>3. QED
    BY <2>1, <2>2
<1>6. RecoveryProgress'
  BY <1>1 DEF RecoveryProgress, RecoversTo
<1>7. RecoveryRestoresCommitted'
  BY <1>1 DEF IndInv, RecoveryRestoresCommitted, Kept
<1>8. QED
  BY <1>3, <1>4, <1>5, <1>6, <1>7 DEF IndInv

\* Recovery's write of one page keeps the invariant.
LEMMA RecoverPageInv ==
    ASSUME IndInv, NEW p \in Pages, RecoverPage(p), TypeOK'
    PROVE  IndInv'
<1>1. /\ op = "recover" /\ pend' = pend \ {p}
      /\ UNCHANGED <<hdr, wal, pool, txn, nextTxn, undo, op, flusher, history>>
  BY DEF RecoverPage
<1>2. PICK i \in DOMAIN wal :
        Restores(wal, i, p) /\ disk' = [disk EXCEPT ![p] = wal[i].img]
  BY DEF RecoverPage
<1>3. \A q \in Pages : disk'[q] = IF q = p THEN wal[i].img ELSE disk[q]
  BY <1>2 DEF IndInv, TypeOK
<1>4. NothingCached' /\ DirtyIsCached' /\ UntouchedIsCommitted'
      /\ UndoIsLogged' /\ ShutdownIsClean'
  BY <1>1 DEF IndInv, NothingCached, DirtyIsCached, Cached, UntouchedIsCommitted,
              UndoIsLogged, OwnUndo, HasUndo, ShutdownIsClean, Up, Aborting, Touched
<1>5. CleanMatchesDisk' /\ SeesWork' /\ LogIsOrdered' /\ BatchIsWritten'
  BY <1>1 DEF IndInv, NothingCached, CleanMatchesDisk, SeesWork, LogIsOrdered,
              BatchIsWritten, Up, Aborting
<1>6. RecoveryProgress'
  <2>1. ASSUME NEW q \in Pages, q \notin pend' PROVE RecoversTo(wal, disk', q, disk'[q])
    <3>1. CASE q = p
      BY <1>2, <1>3, <3>1 DEF RecoversTo
    <3>2. CASE q # p
      <4>1. RecoversTo(wal, disk, q, disk[q])
        BY <1>1, <2>1, <3>2 DEF IndInv, RecoveryProgress
      <4>2. QED
        BY <1>3, <3>2, <4>1 DEF RecoversTo
    <3>3. QED
      BY <3>1, <3>2
  <2>2. QED
    BY <1>1, <2>1 DEF RecoveryProgress
<1>7. RecoveryRestoresCommitted'
  <2>1. ASSUME NEW q \in Pages, Kept(q) PROVE RecoversTo(wal, disk', q, committed[q])
    <3>1. wal \in Seq(WalRecord) /\ RecoversTo(wal, disk, q, committed[q])
      BY <2>1 DEF IndInv, TypeOK, RecoveryRestoresCommitted
    <3>2. disk'[q] = disk[q] \/ \E j \in DOMAIN wal : Applies(wal, j, q)
      BY <1>2, <1>3 DEF Restores
    <3>3. QED
      BY <3>1, <3>2, RecoversAfterWrite
  <2>2. QED
    BY <1>1, <2>1 DEF RecoveryRestoresCommitted, Kept
<1>8. QED
  BY <1>4, <1>5, <1>6, <1>7 DEF IndInv

\* Recovery's write of the header keeps the invariant.
LEMMA RecoverHeaderInv ==
    ASSUME IndInv, RecoverHeader, TypeOK'
    PROVE  IndInv'
<1>1. /\ op = "recover" /\ op' = "recovered" /\ pend = {}
      /\ UNCHANGED <<disk, wal, pool, txn, nextTxn, undo, pend, flusher, history>>
  BY DEF RecoverHeader
<1>2. NothingCached' /\ DirtyIsCached' /\ UntouchedIsCommitted'
      /\ UndoIsLogged' /\ ShutdownIsClean' /\ CleanMatchesDisk'
  BY <1>1 DEF IndInv, NothingCached, DirtyIsCached, Cached, UntouchedIsCommitted,
              UndoIsLogged, OwnUndo, HasUndo, ShutdownIsClean, CleanMatchesDisk, Up,
              Aborting, Touched
<1>3. SeesWork' /\ LogIsOrdered' /\ BatchIsWritten'
  BY <1>1 DEF SeesWork, LogIsOrdered, BatchIsWritten, Up, Aborting
<1>4. RecoveryProgress' /\ RecoveryRestoresCommitted'
  BY <1>1 DEF IndInv, RecoveryProgress, RecoveryRestoresCommitted, Kept
<1>5. QED
  BY <1>2, <1>3, <1>4 DEF IndInv

\* Truncating the log at the end of recovery keeps the invariant.
LEMMA RecoverDoneInv ==
    ASSUME IndInv, RecoverDone, TypeOK'
    PROVE  IndInv'
<1>1. /\ op = "recovered" /\ op' = "run" /\ wal' = <<>> /\ DOMAIN wal' = {}
      /\ UNCHANGED <<disk, hdr, pool, txn, nextTxn, undo, pend, flusher, history>>
  BY DEF RecoverDone
<1>2. /\ \A p \in Pages : mem[p] = None /\ undo[p] = 0
      /\ dirty = {} /\ lost = {} /\ txn = 0 /\ ck = "idle" /\ work = committed
  BY <1>1 DEF IndInv, NothingCached, Up
<1>3. ASSUME NEW p \in Pages, Kept(p) PROVE disk[p] = committed[p]
  BY <1>1, <1>3, RecoversToUnique
     DEF IndInv, TypeOK, RecoveryProgress, RecoveryRestoresCommitted
<1>4. NothingCached' /\ DirtyIsCached' /\ CleanMatchesDisk' /\ UntouchedIsCommitted'
      /\ UndoIsLogged' /\ ShutdownIsClean' /\ BatchIsWritten'
      /\ RecoveryProgress'
  BY <1>1, <1>2 DEF IndInv, NothingCached, DirtyIsCached, CleanMatchesDisk,
                    UntouchedIsCommitted, UndoIsLogged, OwnUndo, HasUndo, ShutdownIsClean,
                    BatchIsWritten, RecoveryProgress, Up, Aborting, Touched
<1>5. SeesWork'
  BY <1>1, <1>2, <1>3 DEF SeesWork, Kept, Aborting
<1>6. LogIsOrdered'
  BY <1>1, <1>2 DEF LogIsOrdered, IndInv, TypeOK, Aborting
<1>7. RecoveryRestoresCommitted'
  BY <1>1, <1>3, RecoversEmpty DEF RecoveryRestoresCommitted, Kept
<1>8. QED
  BY <1>4, <1>5, <1>6, <1>7 DEF IndInv

-----------------------------------------------------------------------------
(* The theorems. *)

\* The inductive invariant is inductive, wherever a checkpoint's steps fall
\* between the connection's.
LEMMA NextInv == IndInv /\ [Next]_vars => IndInv'
<1> SUFFICES ASSUME IndInv, [Next]_vars PROVE IndInv'
  OBVIOUS
<1>1. TypeOK'
  BY NextType DEF IndInv
<1>2. CASE UNCHANGED vars
  BY <1>2 DEF vars, IndInv, TypeOK, NothingCached, DirtyIsCached, CleanMatchesDisk,
              SeesWork, UntouchedIsCommitted, UndoIsLogged, OwnUndo, HasUndo,
              LogIsOrdered, BatchIsWritten, ShutdownIsClean, RecoveryProgress,
              RecoveryRestoresCommitted, Cached, Touched, Up, Kept, Aborting
<1>3. ASSUME NEW p \in Pages, FetchPage(p) \/ BeginPageMutation(p) \/ FlushPage(p)
      PROVE  IndInv'
  BY <1>1, <1>3, FetchInv, BeginPageMutationInv, FlushPageInv
<1>4. ASSUME NEW p \in Pages, NEW c \in Vals, WritePage(p, c) PROVE IndInv'
  BY <1>1, <1>4, WritePageInv
<1>5. ASSUME NEW c \in Content, NewPage(c) PROVE IndInv'
  BY <1>1, <1>5, NewPageInv
<1>6. CASE \/ Begin \/ EndReadOnly \/ StartCommit \/ WriteBatch
           \/ StartAbort \/ LockRollback \/ AbortDone
  BY <1>1, <1>6, SessionInv
<1>7. ASSUME NEW p \in Pages,
             CommitRedo(p) \/ CommitSkip(p) \/ AbortPage(p) \/ AbortFail(p)
      PROVE  IndInv'
  BY <1>1, <1>7, CommitRedoInv, CommitSkipInv, AbortPageInv, AbortFailInv
<1>8. CASE CommitDone
  BY <1>1, <1>8, CommitDoneInv
<1>9. ASSUME NEW p \in Pages, RecoverPage(p) \/ CkptFlush(p) PROVE IndInv'
  BY <1>1, <1>9, RecoverPageInv, CkptFlushInv
<1>10. CASE StartCheckpoint \/ StartShutdown \/ CkptList \/ CkptHeader \/ CkptTruncate
  BY <1>1, <1>10, StartCheckpointInv, CkptHeaderInv, CkptTruncateInv
<1>11. CASE Kill \/ Open \/ RecoverHeader \/ RecoverDone
  BY <1>1, <1>11, KillInv, OpenInv, RecoverHeaderInv, RecoverDoneInv
<1>12. QED
  BY <1>2, <1>3, <1>4, <1>5, <1>6, <1>7, <1>8, <1>9, <1>10, <1>11
     DEF Next, FinishOp, FinishCheckpoint

\* The engine's variables keep their types, whatever the flusher interleaves
\* with: every record in the log is well formed and every page content valid.
THEOREM TypeCorrect == Spec => []TypeOK
BY InitType, NextType, PTL DEF Spec

\* All parts of the inductive invariant hold in every reachable state.
THEOREM Invariance == Spec => []IndInv
BY InitInv, NextInv, PTL DEF Spec

\* Crash recovery is correct: killed at any point, also inside a commit, an
\* abort, a checkpoint or a recovery, and with a checkpoint's steps anywhere
\* between the connection's, the engine recovers the committed content of every
\* page whose records the log was not deprived of (see Kept).
THEOREM RecoveryCorrect == Spec => []RecoveryRestoresCommitted
<1>1. IndInv => RecoveryRestoresCommitted
  BY DEF IndInv
<1>2. QED
  BY <1>1, Invariance, PTL

\* Evictions, flushes, rollbacks and recoveries are invisible: a running engine
\* reads its transaction's own writes over the committed contents, but for the
\* pages a rollback or a recovery could not restore.
THEOREM ReadsCorrect == Spec => []ReadsSeeWork
<1>1. IndInv => ReadsSeeWork
  BY DEF IndInv, SeesWork, ReadsSeeWork, Up, Aborting
<1>2. QED
  BY <1>1, Invariance, PTL

\* A frame that is not dirty can be dropped at any time, also between the steps
\* of a checkpoint.
THEOREM CleanFramesMatch == Spec => []CleanMatchesDisk
<1>1. IndInv => CleanMatchesDisk
  BY DEF IndInv
<1>2. QED
  BY <1>1, Invariance, PTL

-----------------------------------------------------------------------------
(* Serial executions are quiet. *)

\* While a checkpoint runs, the connection of a serial execution opens and
\* closes transactions and reads, and the pages to flush become fewer.
LEMMA SerialStep ==
    IndInv /\ CheckpointIsClean /\ [SerialNext]_vars => CheckpointIsClean'
<1> SUFFICES ASSUME IndInv, CheckpointIsClean, [SerialNext]_vars PROVE CheckpointIsClean'
  OBVIOUS
<1> USE DEF CheckpointIsClean, Touched
<1>1. CASE UNCHANGED vars
  BY <1>1 DEF vars
<1>2. CASE SerialNext /\ ck = "idle"
  <2>1. CASE StartCheckpoint
    BY <1>2, <2>1 DEF StartCheckpoint, SerialNext, CanCheckpoint, Active
  <2>2. CASE StartShutdown
    BY <2>2 DEF StartShutdown, CanCheckpoint, Active
  <2>3. CASE ~StartCheckpoint /\ ~StartShutdown
    <3>1. ck' = "idle"
      BY <1>2, <2>3 DEF SerialNext, Next, FinishOp, FinishCheckpoint, FetchPage,
         BeginPageMutation, FlushPage, WritePage, NewPage, Begin, EndReadOnly,
         StartCommit, StartAbort, Kill, Open, CommitRedo, CommitSkip, AbortPage,
         AbortFail, RecoverPage, WriteBatch, CommitDone, LockRollback, AbortDone,
         RecoverHeader, RecoverDone, CkptFlush, CkptList, CkptHeader, CkptTruncate
    <3>2. QED
      BY <3>1
  <2>4. QED
    BY <2>1, <2>2, <2>3
<1>3. CASE SerialNext /\ ck # "idle"
  <2>1. Next /\ op = "run" /\ (\A p \in Pages : undo[p] = 0) /\ UNCHANGED undo
    BY <1>3 DEF SerialNext
  <2>2. ASSUME NEW p \in Pages, FetchPage(p) PROVE CheckpointIsClean'
    BY <2>1, <2>2 DEF FetchPage
  <2>3. ASSUME NEW p \in Pages, BeginPageMutation(p) PROVE CheckpointIsClean'
    BY <2>1, <2>3 DEF BeginPageMutation
  <2>4. ASSUME NEW p \in Pages, NEW c \in Vals PROVE ~WritePage(p, c)
    BY <2>1 DEF WritePage
  <2>5. ASSUME NEW c \in Content PROVE ~NewPage(c)
    <3>1. nextFree \in Pages => ~LogUndo(nextFree, Empty)
      BY <2>1 DEF LogUndo, IndInv, TypeOK
    <3>2. QED
      BY <3>1 DEF NewPage
  <2>6. CASE Begin \/ EndReadOnly
    BY <2>1, <2>6 DEF Begin, EndReadOnly
  <2>7. CASE Kill
    BY <2>7 DEF Kill
  <2>8. ASSUME NEW p \in Pages, CkptFlush(p) PROVE CheckpointIsClean'
    BY <2>1, <2>8 DEF CkptFlush
  <2>9. CASE CkptList \/ CkptHeader \/ CkptTruncate
    BY <2>1, <2>9 DEF CkptList, CkptHeader, CkptTruncate, IndInv, DirtyIsCached
  <2>10. /\ ~StartCommit /\ ~StartAbort /\ ~StartCheckpoint /\ ~StartShutdown /\ ~Open
         /\ ~FinishOp /\ \A p \in Pages : ~FlushPage(p)
    BY <1>3, <2>1 DEF StartCommit, StartAbort, StartCheckpoint, StartShutdown, Open,
       FlushPage, FinishOp, CommitRedo, CommitSkip, AbortPage, AbortFail, RecoverPage,
       WriteBatch, CommitDone, LockRollback, AbortDone, RecoverHeader, RecoverDone
  <2>11. QED
    BY <2>1, <2>2, <2>3, <2>4, <2>5, <2>6, <2>7, <2>8, <2>9, <2>10
       DEF Next, FinishCheckpoint
<1>4. QED
  BY <1>1, <1>2, <1>3

\* If checkpoints start while no commit or abort is running, and no page is set
\* up for mutation until they are over, every truncation finds the engine
\* without touched and without dirty pages, and active_txns empty.
THEOREM SerialIsQuiet == SerialSpec => QuietSpec /\ NeverTruncateActive
<1>1. Init => IndInv /\ CheckpointIsClean
  BY InitInv DEF Init, CheckpointIsClean
<1>2. IndInv /\ CheckpointIsClean /\ [SerialNext]_vars => IndInv' /\ CheckpointIsClean'
  BY NextInv, SerialStep DEF SerialNext
<1>3. CheckpointIsClean /\ [SerialNext]_vars =>
        [QuietNext]_vars /\ [CkptTruncate => CanCheckpoint]_vars
  BY DEF CheckpointIsClean, SerialNext, QuietNext, Quiet, CkptTruncate, CanCheckpoint,
         Active
<1>4. QED
  BY <1>1, <1>2, <1>3, PTL DEF SerialSpec, QuietSpec, NeverTruncateActive

-----------------------------------------------------------------------------
(* StorageEngine implements TxnStore: with a pool that holds every page and
   quiet truncations, transactions are atomic and durable, whatever is killed
   when.  The refinement mapping reads the abstract contents out of pool, file
   and log; the invariants show that they are the history variables committed
   and work, on which each step is a step of TxnStore. *)

-----------------------------------------------------------------------------
(* A pool that holds every page. *)

\* The pool evicts only when every page is cached, and a miss says one is not.
LEMMA NoEviction ==
    ASSUME Capacity >= MaxPages, NEW p \in Pages, mem[p] = None
    PROVE  Victims = {{}}
<1>1. IsFiniteSet(Pages) /\ Cardinality(Pages) = MaxPages
  BY FS_Interval, BoundsAssumption DEF Pages
<1>2. Cached \subseteq Pages /\ Cached # Pages
  BY DEF Cached
<1>3. Cardinality(Cached) < Cardinality(Pages) /\ Cardinality(Cached) \in Nat
  BY <1>1, <1>2, FS_Subset, FS_CardinalityType
<1>4. QED
  BY <1>1, <1>3, BoundsAssumption DEF Victims

\* A database just opened, all of whose pages are allocated.
LEMMA InitFits ==
    ASSUME InitPages = MaxPages
    PROVE  Init => EverythingFits
BY BoundsAssumption, ContentAssumption DEF Init, EverythingFits, Pages, Touched

\* Every step of the engine keeps the touched pages in the pool and gives up
\* nothing, provided that truncations find the engine quiet.
LEMMA NextFits ==
    ASSUME Capacity >= MaxPages, IndInv, EverythingFits, [QuietNext]_vars
    PROVE  EverythingFits'
<1> USE DEF EverythingFits
<1>1. ASSUME NEW p \in Pages, FetchPage(p) PROVE EverythingFits'
  <2>1. Victims = {{}}
    BY <1>1, NoEviction DEF FetchPage
  <2>2. disk' = Written({}) /\ mem' = [Without({}) EXCEPT ![p] = disk[p]]
    BY <1>1, <2>1 DEF FetchPage
  <2>3. \A q \in Pages : disk'[q] = disk[q] /\ mem'[q] = IF q = p THEN disk[p] ELSE mem[q]
    BY <2>2 DEF Written, Without
  <2>4. QED
    BY <1>1, <2>3 DEF FetchPage, Touched, Cached
<1>2. ASSUME NEW p \in Pages, BeginPageMutation(p) PROVE EverythingFits'
  BY <1>2 DEF BeginPageMutation, LogUndo, IndInv, TypeOK, Touched, Cached
<1>3. ASSUME NEW p \in Pages, FlushPage(p) \/ CkptFlush(p) PROVE EverythingFits'
  BY <1>3 DEF FlushPage, CkptFlush, Written, IndInv, DirtyIsCached, Touched, Cached
<1>4. ASSUME NEW p \in Pages, NEW c \in Vals, WritePage(p, c) PROVE EverythingFits'
  BY <1>4, ContentAssumption DEF WritePage, IndInv, TypeOK, Touched, Cached
<1>5. ASSUME NEW c \in Content PROVE ~NewPage(c)
  BY BoundsAssumption DEF NewPage, Running, Pages
<1>6. CASE \/ Begin \/ EndReadOnly \/ StartCommit \/ WriteBatch
           \/ StartAbort \/ LockRollback
  BY <1>6 DEF Begin, EndReadOnly, StartCommit, WriteBatch, StartAbort, LockRollback,
              Running, Touched, Cached
<1>7. ASSUME NEW p \in Pages, CommitRedo(p) \/ CommitSkip(p) PROVE EverythingFits'
  BY <1>7 DEF CommitRedo, CommitSkip, Touched, Cached
<1>8. ASSUME NEW p \in Pages, AbortPage(p) PROVE EverythingFits'
  <2>1. OwnUndo(p) /\ wal[undo[p]].img \in Content
    BY <1>8, RollbackFindsUndo DEF AbortPage, HasUndo, IndInv, TypeOK, WalRecord, Image,
       Marker
  <2>2. QED
    BY <1>8, <2>1, ContentAssumption DEF AbortPage, IndInv, TypeOK, Content
<1>9. CASE CommitDone
  BY <1>9 DEF CommitDone, Touched
<1>10. CASE AbortDone
  BY <1>10 DEF AbortDone, Touched
<1>11. CASE StartCheckpoint \/ StartShutdown \/ CkptList \/ CkptHeader
  <2>1. CASE StartCheckpoint \/ StartShutdown \/ CkptList
    BY <2>1 DEF StartCheckpoint, StartShutdown, CkptList, Touched, Cached
  <2>2. CASE CkptHeader
    <3>1. nextFree = MaxPages + 1
      BY <2>2 DEF CkptHeader, IndInv, NothingCached, Up
    <3>2. QED
      BY <2>2, <3>1 DEF CkptHeader, Touched, Cached
  <2>3. QED
    BY <1>11, <2>1, <2>2
<1>12. CASE CkptTruncate
  <2>1. CkptTruncate /\ Touched = {} /\ dirty = {}
    BY <1>12 DEF QuietNext, Quiet, CkptTruncate, vars
  <2>2. QED
    BY <2>1 DEF CkptTruncate, Touched, Cached
<1>13. CASE Kill
  BY <1>13 DEF Kill
<1>14. CASE Open
  BY <1>14 DEF Open, IndInv, NothingCached, Up, Touched
<1>15. ASSUME NEW p \in Pages, RecoverPage(p) PROVE EverythingFits'
  <2>1. PICK i \in DOMAIN wal :
          Restores(wal, i, p) /\ disk' = [disk EXCEPT ![p] = wal[i].img]
    BY <1>15 DEF RecoverPage
  <2>2. wal[i].img \in Content
    BY <2>1 DEF Restores, Applies, IndInv, TypeOK, WalRecord, Image, Marker
  <2>3. QED
    BY <1>15, <2>1, <2>2, ContentAssumption DEF RecoverPage, IndInv, TypeOK, Content
<1>16. CASE RecoverHeader \/ RecoverDone
  BY <1>16 DEF RecoverHeader, RecoverDone, IndInv, NothingCached, Up, Touched
<1>17. CASE UNCHANGED vars
  BY <1>17 DEF vars, Touched, Cached
<1>18. ASSUME NEW p \in Pages PROVE ~AbortFail(p)
  BY RollbackFindsUndo DEF AbortFail
<1>19. QED
  BY <1>1, <1>2, <1>3, <1>4, <1>5, <1>6, <1>7, <1>8, <1>9, <1>10, <1>11, <1>12, <1>13,
     <1>14, <1>15, <1>16, <1>17, <1>18 DEF QuietNext, Next, FinishOp, FinishCheckpoint

-----------------------------------------------------------------------------
(* The mapping. *)

RefInv == IndInv /\ EverythingFits

\* What recovery would make of file and log is the committed contents.
LEMMA RecoveredIsCommitted ==
    ASSUME RefInv
    PROVE  Recovered = committed
<1>1. ASSUME NEW p \in Pages PROVE Recovered[p] = committed[p]
  <2>1. RecoversTo(wal, disk, p, committed[p])
    BY DEF RefInv, IndInv, RecoveryRestoresCommitted, Kept, EverythingFits
  <2>2. CASE \E i \in DOMAIN wal : Restores(wal, i, p)
    <3> DEFINE k == CHOOSE i \in DOMAIN wal : Restores(wal, i, p)
    <3>1. k \in DOMAIN wal /\ Restores(wal, k, p)
      BY <2>2
    <3> HIDE DEF k
    <3>2. RecoversTo(wal, disk, p, wal[k].img)
      BY <3>1 DEF RecoversTo
    <3>3. wal[k].img = committed[p]
      BY <2>1, <3>2, RecoversToUnique DEF RefInv, IndInv, TypeOK
    <3>4. QED
      BY <2>2, <3>3 DEF Recovered, k
  <2>3. CASE ~ \E i \in DOMAIN wal : Restores(wal, i, p)
    BY <2>1, <2>3 DEF RecoversTo, Recovered
  <2>4. QED
    BY <2>2, <2>3
<1>2. QED
  BY <1>1 DEF RefInv, IndInv, TypeOK, Recovered

\* The contents the connection reads: those of pool over file while the engine
\* runs, the committed ones once a rollback or a kill has begun.
View == IF op \in {"run", "commit", "batch"} THEN Seen ELSE Recovered

\* They are the transaction's view.
LEMMA ViewIsWork ==
    ASSUME RefInv
    PROVE  View = work
<1>1. CASE op \in {"run", "commit", "batch"}
  <2>1. \A p \in Pages : Seen[p] = work[p]
    BY <1>1 DEF RefInv, IndInv, SeesWork, EverythingFits, Up, Seen, Aborting
  <2>2. QED
    BY <1>1, <2>1 DEF RefInv, IndInv, TypeOK, Seen, View
<1>2. CASE Aborting
  <2>1. \A p \in Pages : work[p] = committed[p]
    BY <1>2 DEF RefInv, IndInv, UntouchedIsCommitted, Up, Aborting
  <2>2. QED
    BY <1>2, <2>1, RecoveredIsCommitted DEF RefInv, IndInv, TypeOK, View, Aborting
<1>3. CASE ~Up
  BY <1>3, RecoveredIsCommitted DEF RefInv, IndInv, NothingCached, View, Up
<1>4. QED
  BY <1>1, <1>2, <1>3 DEF Up, Aborting

\* The abstract contents are the history variables.
Mapped == Recovered = committed /\ View = work

\* Without a transaction, or with one that touched nothing, the view is the
\* committed contents.
LEMMA UntouchedView ==
    ASSUME RefInv, txn = 0 \/ Aborting \/ Touched = {}
    PROVE  work = committed
<1>1. CASE Up
  <2>1. \A p \in Pages : undo[p] = 0 \/ Aborting
    BY DEF RefInv, IndInv, UndoIsLogged, OwnUndo, HasUndo, Touched
  <2>2. \A p \in Pages : work[p] = committed[p]
    BY <1>1, <2>1 DEF RefInv, IndInv, UntouchedIsCommitted, Aborting
  <2>3. QED
    BY <2>2 DEF RefInv, IndInv, TypeOK
<1>2. CASE ~Up
  BY <1>2 DEF RefInv, IndInv, NothingCached
<1>3. QED
  BY <1>1, <1>2

-----------------------------------------------------------------------------
(* The simulation. *)

InTxn == txn # 0 /\ ~Aborting

\* What a step does to the history variables and the transaction, in the terms
\* of TxnStore.
TxnStep ==
    \/ ~InTxn /\ InTxn' /\ UNCHANGED <<committed, work>>
    \/ InTxn /\ ~InTxn' /\ committed' = work /\ UNCHANGED work
    \/ InTxn /\ ~InTxn' /\ work' = committed /\ UNCHANGED committed
    \/ \E p \in Pages, c \in Vals :
         /\ InTxn /\ InTxn'
         /\ work' = [work EXCEPT ![p] = c]
         /\ UNCHANGED committed
    \/ (InTxn <=> InTxn') /\ UNCHANGED <<committed, work>>

\* Every step of the engine is one of these: a commit takes effect with its
\* marker, a rollback with its first step, a kill as a rollback of the open
\* transaction; evictions, flushes, checkpoints and recovery are invisible.
LEMMA StepSimulation ==
    ASSUME RefInv, [Next]_vars
    PROVE  TxnStep
<1> USE DEF InTxn, TxnStep, Aborting
<1>1. ASSUME NEW p \in Pages, NEW c \in Vals, WritePage(p, c) PROVE TxnStep
  BY <1>1 DEF WritePage, Running
<1>2. ASSUME NEW p \in Pages, FetchPage(p) \/ BeginPageMutation(p) \/ FlushPage(p)
      PROVE  TxnStep
  BY <1>2 DEF FetchPage, BeginPageMutation, FlushPage
<1>3. ASSUME NEW c \in Content PROVE ~NewPage(c)
  BY BoundsAssumption DEF RefInv, EverythingFits, NewPage, Running, Pages
<1>4. CASE Begin
  BY <1>4 DEF Begin, Running, RefInv, IndInv, TypeOK
<1>5. CASE EndReadOnly
  BY <1>5, UntouchedView DEF EndReadOnly, Running
<1>6. CASE StartCommit \/ WriteBatch
  BY <1>6 DEF StartCommit, WriteBatch, Running
<1>7. CASE StartAbort \/ LockRollback
  BY <1>7 DEF StartAbort, LockRollback, Running
<1>8. CASE CommitDone
  BY <1>8 DEF CommitDone, RefInv, IndInv, BatchIsWritten
<1>9. CASE AbortDone
  BY <1>9 DEF AbortDone
<1>10. ASSUME NEW p \in Pages, CommitRedo(p) \/ CommitSkip(p) \/ AbortPage(p)
       PROVE  TxnStep
  BY <1>10 DEF CommitRedo, CommitSkip, AbortPage
<1>11. ASSUME NEW p \in Pages PROVE ~AbortFail(p)
  BY RollbackFindsUndo DEF RefInv, EverythingFits, AbortFail
<1>12. ASSUME NEW p \in Pages, RecoverPage(p) \/ CkptFlush(p) PROVE TxnStep
  BY <1>12 DEF RecoverPage, CkptFlush
<1>13. CASE StartCheckpoint \/ StartShutdown \/ CkptList \/ CkptHeader
  BY <1>13 DEF StartCheckpoint, StartShutdown, CkptList, CkptHeader
<1>14. CASE CkptTruncate
  BY <1>14 DEF CkptTruncate
<1>15. CASE Kill
  BY <1>15, UntouchedView DEF Kill
<1>16. CASE Open \/ RecoverHeader \/ RecoverDone
  BY <1>16 DEF Open, RecoverHeader, RecoverDone
<1>17. CASE UNCHANGED vars
  BY <1>17 DEF vars
<1>18. QED
  BY <1>1, <1>2, <1>3, <1>4, <1>5, <1>6, <1>7, <1>8, <1>9, <1>10, <1>11, <1>12, <1>13,
     <1>14, <1>15, <1>16, <1>17 DEF Next, FinishOp, FinishCheckpoint

\* The engine implements TxnStore, for any number of pages the pool can hold,
\* any contents and any number of transactions, kills and recoveries: what
\* recovery would read is changed by a commit only, and at once, and what the
\* connection reads is its own writes over it.
THEOREM Refinement ==
    ASSUME InitPages = MaxPages, Capacity >= MaxPages
    PROVE  QuietSpec => ImplementsTxnStore
<1>1. Init => RefInv
  BY InitInv, InitFits DEF RefInv
<1>2. RefInv /\ [QuietNext]_vars => RefInv'
  BY NextInv, NextFits DEF RefInv, QuietNext
<1>3. RefInv => Mapped
  BY RecoveredIsCommitted, ViewIsWork DEF Mapped
<1>4. Init => Store!Init
  <2> SUFFICES ASSUME Init PROVE Store!Init
    OBVIOUS
  <2>1. Recovered = committed /\ View = work
    BY <1>1, <1>3 DEF Mapped
  <2>2. committed = [p \in Pages |-> Empty] /\ work = committed /\ txn = 0
    BY BoundsAssumption DEF Init, Pages
  <2>3. QED
    BY <2>1, <2>2 DEF Store!Init, View
<1>5. RefInv /\ Mapped /\ Mapped' /\ [QuietNext]_vars => [Store!Next]_Store!vars
  <2> SUFFICES ASSUME RefInv, Mapped, Mapped', [QuietNext]_vars PROVE [Store!Next]_Store!vars
    OBVIOUS
  <2>1. Recovered = committed /\ View = work
    BY DEF Mapped
  <2>2. Recovered' = committed' /\ View' = work'
    BY DEF Mapped
  <2>3. TxnStep
    BY StepSimulation DEF QuietNext
  <2>4. QED
    BY <2>1, <2>2, <2>3 DEF TxnStep, InTxn, View, Store!Next, Store!vars, Store!Begin,
       Store!Commit, Store!Rollback, Store!Write
<1>6. QED
  BY <1>1, <1>2, <1>3, <1>4, <1>5, PTL DEF QuietSpec, ImplementsTxnStore, Store!Spec

\* Under the same conditions no committed page can be lost: the durability the
\* README of the repository promises holds when the pool never evicts.
THEOREM Durability ==
    ASSUME InitPages = MaxPages, Capacity >= MaxPages
    PROVE  QuietSpec => []CommitsAreDurable
<1>1. Init => RefInv
  BY InitInv, InitFits DEF RefInv
<1>2. RefInv /\ [QuietNext]_vars => RefInv'
  BY NextInv, NextFits DEF RefInv, QuietNext
<1>3. RefInv => CommitsAreDurable
  BY DEF RefInv, IndInv, RecoveryRestoresCommitted, EverythingFits, Kept, CommitsAreDurable
<1>4. QED
  BY <1>1, <1>2, <1>3, PTL DEF QuietSpec
=============================================================================
