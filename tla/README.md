# A TLA+ verification of hinder-db

hinder-db is a small SQL database in Rust: a library with one connection at a
time, a background thread that writes pages, and a REPL.  This directory holds
TLA+ models of its storage engine, its B+-tree and its SQL layer, the TLC
configurations that check them on small instances, and TLAPS proofs of the
central properties for instances of every size.

Run everything from this directory:

    tlc -workers 2 -config StorageKill.cfg MCStorageEngine   # any run below
    tlapm StorageEngineProofs.tla                            # the proofs

`PROJECT.json` lists the components, runs, mutants, findings, hazards and
theorems, and maps every definition to the lines it models.

## The system

| Part | Source | State | Operations |
|---|---|---|---|
| Database, Connection | `engine.rs` | next_txn_id, active_txn | open, connect, execute_batch, begin, commit, rollback |
| Transaction | `concurrency/transaction.rs` | completed | commit, abort, drop (aborts) |
| Buffer pool | `storage/buffer_pool.rs` | page_table, active_txns (Undo offsets per page) | fetch, new page, begin_page_mutation, commit, abort, flush, watermark cleaning, evict |
| LRU replacer | `storage/lru.rs` | arena list, slot map, free slots | record_access, remove, evict_if, peek_rev |
| Write-ahead log | `storage/wal.rs` | the .wal file, flushed_offset | write_record, write_batch, read_record_at, read_batch, sync, truncate |
| Disk manager | `storage/page.rs` | the .db file, next_free_offset | read, write, allocate, save_header |
| Recovery | `storage/recovery.rs` | none | init: replay the log backwards, save the header, truncate |
| Flusher | `storage/flusher.rs` | thread and channel | clean every 250 ms, checkpoint above 32 MiB of log, final checkpoint |
| B+-tree | `storage/bptree.rs` | tree in pages | insert, update, delete, find, splits with a pinned root |
| Page layout | `storage/page.rs` | bytes of a page | insert, update, delete, split, compact, encode, decode |
| Catalog | `manager.rs`, `catalog.rs` | cached schemas and roots, row-id counters | bootstrap, create, drop, generate_next_row_id |
| Executors | `execution/*.rs` | per query | scans, DML with index maintenance, join, sort, aggregate, limit |
| Planner, evaluator | `planner.rs`, `execution/evaluator.rs` | none | bind names and types, choose a scan, build the pipeline, evaluate |
| Tuples, schemas, types | `relation/*.rs` | none | encode, name lookup, index keys |
| SQL front end, REPL | `sql/*`, `bin/hinder.rs` | none | text to syntax tree, terminal |

How they interact.  A statement takes the path Connection -> planner ->
executors -> B+-tree -> buffer pool.  Before the tree changes a page it calls
`begin_page_mutation`, which appends the page's before-image to the log once
per transaction.  Dirty pages may be written to the file at any time (STEAL)
and need not be written at commit (NO-FORCE): a commit appends after-images and
a marker.  Rollback reads the before-images back and drops the pages from the
pool.  The flusher shares the buffer pool with the connection's thread; it
cleans pages, and when no transaction has touched anything it writes all pages
and truncates the log.  `Database::open` replays what the log still holds.

What is hard.  The process can die between any two writes, also inside a
commit, a rollback, a checkpoint or a recovery.  The flusher and the connection
interleave under fine-grained locks (page_table, one lock per frame, and the
mutexes of log and replacer).  A page's content can be in the pool, in the file
and in several images in the log, and which one counts depends on the order of
events.  What would make each part correct:

* storage: committed pages survive, uncommitted ones vanish, reads see the
  transaction's own writes, allocation never hands out a page in use;
* replacer: slots are neither leaked nor shared, the order is the order of
  accesses, the victim is the oldest page that is not pinned;
* flusher: no update lost, no torn read, no deadlock, nothing truncated that a
  rollback needs;
* tree and pages: keys ordered and reachable, siblings linked both ways, bytes
  accounted for, cursors not led astray by their own statement;
* catalog: cache equal to the system tables, row ids fresh, roots not shared;
* DML: secondary indexes exact, unique columns unique, every row changed once;
* planner and executors: an index gives what a scan gives, and joins, groups,
  sorts and limits give what the clauses mean.

## Modules

| Module | What it is |
|---|---|
| `StorageEngine` | pool, log, file, transaction, checkpoint, kill and recovery |
| `TxnStore` | abstract: atomic, durable transactions over pages |
| `StorageEngineProofs` | the safety theorems about `StorageEngine`; it implements `TxnStore` when nothing is evicted and truncations are quiet |
| `LruReplacer` | the arena list of `lru.rs` |
| `LruList` | abstract: a recency list with refused pages |
| `LruReplacerProofs` | the safety theorems about `LruReplacer`; it implements `LruList` |
| `FlusherLocks` | connection and flusher at the granularity of locks |
| `FlusherLocksProofs` | the theorems about `FlusherLocks` |
| `Page` | leaf and internal nodes of `page.rs` with their byte accounts |
| `BpTree` | the tree of `bptree.rs` and the cursor of `iterator.rs`, over `Page` |
| `BpTreeProofs` | `BpTree` and `Page`: well-formed nodes, pages that fit, one depth |
| `BpTreeOrderProofs` | `BpTree` acts as a map |
| `BpTreeShapeProofs` | the chain of the leaves of `BpTree`, its shape, largest key, lookups and scans |
| `Recursion` | induction and recursive functions over naturals, for the proofs |
| `Values` | values, schemas, binding and evaluation of expressions |
| `Query` | the choice of a scan, the executors of a SELECT and its plan, over `Values` |
| `Sql` | catalog, DDL, DML, transactions and restarts, over `Query` |
| `SqlProofs` | the catalog of `Sql` agrees with its system tables, its counters are ahead of the row ids, and its indexes are those of its rows |
| `MC...` | bounds, symmetry sets and statements for TLC |

The layers rest on one another through what each promises.  `StorageEngine`
shows pages to be transactional (up to the defects below), so `BpTree` has
operations that either happen or leave no trace; `BpTree` shows a tree to be a
map with tombstones whose cursor counts slots, so `Query` and `Sql` use exactly
that (`tree_insert`, `tree_update`, `tree_delete`, `Slots`) and keep their
transactions as two stores, `disk` and `work`.

### StorageEngine

`disk`, `hdr` and `wal` are the files; `mem`, `dirty` and `nextFree` the pool
and the allocator; `txn`, `nextTxn` and `undo` the connection's transaction
with its TxnState; `op`/`pend` and `ck`/`ckPend`/`closing` say where the two
threads are in their loops.  `undo_logged` and `dirty_pages` always have the
same pages, since begin_page_mutation fills both, so `undo` stands for both.
The history variables `committed` and `work` record what the client was
promised.  `lost` has the pages whose committed content the log may be unable to
restore: those that a truncation found touched or dirty, and those that were
evicted before their commit; a Redo image of the page takes it out again.  A
kill, or a rollback that finds its record gone, moves pages to `damaged`, and so
does the reuse of the id of a committed page.  The two record where defects of
the code (below) have broken the promise, so that everything else can be checked
in full.

Each action is one call, or one iteration of a loop that a kill or the other
thread can interrupt.  commit_transaction is `StartCommit`, `WriteBatch`,
`CommitRedo(p)`/`CommitSkip(p)`, `CommitDone`; abort_transaction is
`StartAbort`, `LockRollback`, `AbortPage(p)`/`AbortFail(p)`, `AbortDone`; a
checkpoint is `StartCheckpoint` or `StartShutdown`, `CkptList`, `CkptFlush(p)`,
`CkptHeader`, `CkptTruncate`; a restart is `Open`, `RecoverPage(p)`,
`RecoverHeader`, `RecoverDone`.  `Kill` drops everything in memory.  `FetchPage`
and `NewPage` include the eviction they cause.

The flusher's steps fall anywhere between the connection's, as far as the locks
allow.  `op` names the connection's state by the locks it holds: "commit" and
"abort" are the states in which the transaction has left active_txns (the first
line of both functions) and neither page_table for writing nor the WAL mutex is
taken yet; "batch" holds the WAL mutex, "rollback" both.  Hence `TableFree`,
which the flusher needs to list and flush pages, and `LogFree`, which it needs
to read the log's size and to truncate it.  `Active`, what can_checkpoint sees,
is `Touched` while `op` is "run" and empty from `StartCommit` and `StartAbort`
on, although commit and rollback still work with the state they took out.  So a
checkpoint can start, flush and truncate inside a commit, or between the first
line of a rollback and its locks, and a transaction can start to mutate inside
a checkpoint.

A truncation is harmless when it finds no touched and no dirty page (`Quiet`).
`QuietSpec` restricts the engine to such truncations.  `SerialSpec` is a
discipline that would ensure it: checkpoints start while no commit or rollback
is running, and no page is set up for mutation until they are over.  The code
follows neither; only the refinement to atomic transactions is claimed under
them.

Abstractions.  A page's 8 KiB are one value.  The victim of an eviction is any
cached page, which covers every choice of the LRU list and every pattern of
pinned pages (an eviction that fails is in FlusherLocks).  The watermark cleaner
may flush any dirty page at any time.  Encoding a page, writing it and clearing
its dirty mark are one step; what happens between them, also to a clone that
flush_page took before a rollback, is the subject of FlusherLocks.  The fault is
the death of the process, not the loss of power: what was written survives, so
the fsync decisions (`wal_offset`, `flushed_offset`) do not matter here.  Records are appended
whole, and I/O errors do not occur.  `NewPage` includes the first mutation of
the page, which every caller performs while it still holds the new frame, and
which therefore cannot be separated from it by an eviction.

### LruReplacer

The four fields of the struct, with slots from 1 and 0 for `None`.  Every method
is one action, except that `evict_if` is a loop (`EvictStart`, `EvictSkip`,
`EvictTake`) with the set of refused pages chosen at its start.  The pool holds
the mutex around each call, so the loop is not interrupted.  `Order` reads the
list off the links from the head and is the refinement mapping to `LruList`.

### FlusherLocks

Both threads with explicit waiting: `ptW`/`ptR` for page_table, `locked` for the
frame the tree holds for writing, `held` for the Arc that flush_page cloned and
`orphan` for that frame once a rollback has removed it from the pool.  A write
to the file takes two steps with a torn page between them.  Only the pages in
`Hot` are changed, the others are read; that is a bound on the state space.  A
split loads one more page while it holds its leaf.  The log is left out: its
mutex is always taken last and released at once.

### Page and BpTree

`pages` maps page ids to nodes.  A leaf is its records in slot order, tombstones
included, its sibling links and `free_size`, the node's own idea of its room; an
internal node is its keys and children.  A payload is its length.  The sizes of
the code (`PAGE_SIZE`, `RECORD_META_SIZE`, ...) are constants of the same names.
`insert_record`, `update_record`, `delete_record`, `compact`, `split` and the
rest are functions with the error results of the code; `insert`, `update` and
`delete` of `BpTree` are functions of all pages, with the path stack
walked from the leaf to the root by a recursive function and `split_root` at its
end.  `Insert`, `Update` and
`Delete` are the operations that succeed.  `Reload` is an eviction and a fetch,
which passes a node through encode and decode and makes `free_size` exact.
`next` is `BpTreeIterator::next`; `Scan` runs a cursor and changes every row it
yields before it moves on, as UPDATE and DELETE without a predicate do.

### Values, Query and Sql

A value is a variant and a number; a string is its place in the alphabet, with
its hash and its length as constants.  A result that may be an error is a set
with at most one element.  Binding, type inference, `evaluate` and
`eval_logical_op` follow the code's cases.  What an executor yields until it is
exhausted is a stream of rows that may end in a failure, and executors are
functions of streams; LIMIT does not ask its child for more than it needs, so it
may hide a failure.  `plan_select` puts the pipeline together (`plan_from`, then `plan_clauses`).

In `Sql` a statement is one step: one connection runs one statement at a time,
and its page accesses are the other modules' subject.  `execute_statement` is
the common frame: planner errors change nothing, an executor's error rolls the
whole transaction back, success commits when the transaction is automatic.
`cat` is the CatalogManager with its counters; it belongs to no transaction.
`insert_row`, `DeleteRow` and `update_row` maintain every index; `Sweep`
interleaves the scan with the changes, as the Volcano loop does.  `Restart` is a
close or a kill and the next open: `cat` is computed from the system tables by
`bootstrap`.  `undone` is set when DDL is rolled back; the cache is then wrong
(see below), and only a restart is followed further.  `late` remembers indexes
that were created on a table with rows, `rekeyed` tables whose primary key an
UPDATE assigned: what the code does not promise there is excluded by name.

## Runs

| Run | Instance | Result |
|---|---|---|
| `storage_kill` | 1 page and 1 to allocate, pool of 1, 2 transactions per process, log threshold 1, up to the first damaged page | `TypeOK`, `CleanMatchesDisk`, `RecoveryRestoresCommitted`, `ReadsSeeWork` hold (1.2 million states) |
| `storage_refine` | 2 pages, pool of 2, quiet truncations, fair | implements `TxnStore`, `OperationsEnd` holds (158 thousand states) |
| `storage_durable` | 2 pages, pool of 1 | `CommitsAreDurable` is violated |
| `storage_reuse` | a page to allocate | `NewPageIsUnused` is violated |
| `storage_truncate` | 2 pages, 2 transactions | `NeverTruncateActive` is violated |
| `storage_window` | 2 pages, pool of 2, 1 transaction, threshold 0 | `TruncationIsSafe` is violated inside a commit |
| `lru` | 4 pages, capacity 3 | all five properties hold |
| `locks` | 3 pages, 1 of them hot, pool of 2, fair | `LocksTypeOK`, `NoLostUpdate`, `StatementsEnd` hold |
| `locks_rollback` | 3 pages, 2 of them hot | `RollbackErases` is violated |
| `btree` | 5 keys, pages of 2 large records and 2 index entries, 3 payload sizes | all ten properties hold (102857 states) |
| `sql` | 2 tables, 5 index definitions, 6 inserts, 4 updates, 2 deletes, 5 selects; 5 successful statements | all eleven properties hold (50870 states) |
| `sql_rollback` | the same | `RollbackRestoresCatalog` is violated |

Why the bounds suffice.  A pool of one page makes every second access steal, the
case a pool of hundreds of pages hides.  Two pages are needed for a commit or
abort to be interrupted half-way, and two transactions for an image of one to
compete with an image of the other; kills are unbounded, so transaction ids
are reused across any number of restarts.  In
`storage_kill` the second page is allocated by a transaction, so that kills and
recoveries meet it in every state; a page is empty or not, and a mutation leaves
it either way, which tells any two images apart that could be confused.  A log
threshold of one lets a checkpoint start inside and outside commits and
rollbacks, with and without records of older transactions.  A behaviour is
followed up to the first step that damages a page (`NoPageDamaged`); that the
other pages keep their promises beyond it is part of `RecoveryCorrect` and
`ReadsCorrect`.  With one transaction per process and a threshold of 0, as in
`storage_window`, no transaction can start inside a checkpoint, so that this run
isolates the window at the start of a commit.  Three pages and a pool of two let
the flusher hold a frame while another page is evicted.  Four pages over three
slots give every shape of the list and of the free stack.
Five keys over pages of two large records reach trees of three levels, with splits of
leaves, internal nodes and of the root as a leaf and as an internal node; the
payload sizes lie well below, just below and above `MAX_VALUE_SIZE`.  The page
size is one short of three large records: with three that fill a page exactly, a
split leaves a half without room, which real pages of at least seven records
exclude.  Five statements are enough to create a
table and an index, fill them, change rows and read, or to drop and create again
around a restart; failing statements and transaction brackets are not counted.
`INT_MAX = 2`, `MAX_ROW_IDS = 2` and `BLOCK_SIZE = 2` put the 32-bit key, the
full list of row ids (127 in the code) and the second block of a join within
reach of three rows.  Two of the three strings share a hash, and the order of
the hashes is not the order of the strings.

Fairness.  `FairSpec` of StorageEngine assumes that a commit, abort or recovery
that can take its next step eventually takes it: these are straight-line loops on
a running thread.  Nothing is assumed of the flusher.  It is stated over
`QuietSpec`, the executions of the refinement; the loops are the same elsewhere.
`FairSpec` of FlusherLocks assumes
that both threads run, and strong fairness for the acquisition of page_table by
the writer: parking_lot lets no new reader pass a waiting writer.  Nothing is
assumed about starting an operation.  `locks_*` runs do not check for deadlock
because the threads really can stop: `StatementsEnd` says that the state in
which they do is the one `Standoff` describes, and no other.

### What the violated properties show

* `CommitsAreDurable`: commit_transaction logs a Redo image only for pages that
  are still cached.  Page stolen, transaction committed, process killed: if the
  log holds an older image of the page, recovery restores that one.
* `NewPageIsUnused`: the allocator's offset reaches the file only with a
  checkpoint, and recovery saves the offset it has just read.  After a kill the
  next allocation returns a page of a committed tree.
* `NeverTruncateActive`: can_checkpoint is asked once, before all pages are
  written; a transaction that starts mutating meanwhile loses its Undo records.
* `TruncationIsSafe`: can_checkpoint does not see a commit that is running, since
  the transaction leaves active_txns at once.  The checkpoint writes the
  uncommitted pages to the file and truncates their Undo images before
  write_batch; a kill there leaves a part of the transaction, or all of it,
  without a commit.  No mutation needs to start inside a checkpoint.
  A rollback has the same window between its first line and its locks: the Undo
  records are gone when the loop reads them (`AbortFail`), the rollback returns
  an error, and what was not committed stays readable.
* `RollbackErases`: a rollback restores a page while flush_page, which has
  cloned the frame, is about to write it; the uncommitted content lands in the
  file last.
* `RollbackRestoresCatalog`: DDL changes the catalog cache at once, and a
  rollback restores pages only.  BEGIN, CREATE TABLE, ROLLBACK: the table is
  still there, in a page no system table knows; what is committed into it is
  gone after the next open.

### What the exceptions in the passing properties show

Some properties hold only with an exception, and the exception is a behaviour of
the code worth knowing:

* `RecoveryRestoresCommitted` and `ReadsSeeWork` except the pages of `lost` and
  `damaged`, which is how far the storage defects above reach.

* `StatementsEnd` excepts the standoff: the watermark scan holds page_table and
  waits for a frame, a split holds the frame and waits for page_table.  TLC
  reaches it; it is the only deadlock.
* `UpdateVisitsAll` holds while no row has to be moved: an UPDATE that grows
  rows until a page is compacted or split shifts the slots under its own cursor,
  and rows are skipped or updated twice, or the scan ends with CorruptPage
  because the root has become internal.
* `UniformWritesSucceed` is about records of one size: a leaf is split by count,
  so with mixed sizes a write of legal size can be refused with PageFull.
* `IndexesExact`, `UniqueHolds`, `PlansAgree` except indexes created on a table
  that had rows: CREATE INDEX does not index them, and the planner then answers
  from the index alone.  Ranges over a VARCHAR index are excepted too, since
  its keys are hashes.
* `PkIsRowId` excepts tables whose key an UPDATE assigned (the row keeps its row
  id, and a search for the new key fails) and INT keys beyond `i32::MAX`.
* `WritesOnce` excepts an UPDATE that moves rows in the index it scans, which
  can meet a row again under its new key, and an UPDATE that scans the table and
  makes a record longer (`MayGrow`: a value for NULL, or another string).  A
  record its leaf has no room for is deleted and inserted again, which moves
  slots under the cursor, as in `UpdateVisitsAll`.  `tree_update` of Query has
  no sizes and always stays in the slot, so the property claims nothing there;
  the contents of the tree are right in either case (`ActsAsMap`).
* `CatalogMatches` says that no two tables or indexes share a root page.  `Restart`
  keeps the page allocator, so after a restart this is said of a clean close
  only; `NewPageIsUnused` shows what a kill does.
* `JoinsAgree` excepts RIGHT, which is run as INNER; `WindowsAgree` excepts
  SELECT *, which ignores ORDER BY, LIMIT and OFFSET.

## Proofs

`StorageEngineProofs` proves, for every number of pages, capacity, threshold and
number of transactions:

* `TypeCorrect`: `TypeOK`;
* `RecoveryCorrect`: `RecoveryRestoresCommitted`;
* `ReadsCorrect`: `ReadsSeeWork`;
* `CleanFramesMatch`: `CleanMatchesDisk`.

All four are about `Spec`, with checkpoints anywhere, and assume nothing but
`BoundsAssumption` and `ContentAssumption` of StorageEngine.

`RecoveryRestoresCommitted` is not inductive: it speaks of the log only through
recovery's eyes.  `IndInv` adds what each step relies on.  A steal is harmless
because the page's Undo image is in the log (`UndoIsLogged`) under a transaction
that is not marked committed (`LogIsOrdered`), or because an untouched page has
the committed content (`UntouchedIsCommitted`, `SeesWork`), or because a
truncation has already given the page up (`lost`).  A commit marker turns the
batch's Redo images on at one stroke, which is right because each is its page's
last record and equals the pool (`BatchIsWritten`).  A truncation keeps the
promise for pages that are neither touched nor dirty, since clean frames equal
the file (`CleanMatchesDisk`); the checkpoint of a shutdown leaves no others
(`ShutdownIsClean`).  A rollback writes the committed contents because the
offset of a page that is not lost still leads to the transaction's own record
(`OwnUndo`).  A recovery may be killed and repeated because what it writes is
what the log says (`RecoveryProgress`).  The proof has one lemma per action; the
lemmas in front of them describe what appending one record does to recovery's
verdict on a page.  TLC confirms `IndInv` in the instance of `storage_kill`
when it is added as an INVARIANT.

The same module proves `Refinement`: with quiet truncations (`QuietSpec`), all
pages allocated from the start (`InitPages = MaxPages`) and a pool that holds
them all (`Capacity >= MaxPages`), StorageEngine implements TxnStore, through
every kill and recovery.  These are the conditions of the run `storage_refine`.
The code guarantees none of them, and none can be dropped: a truncation that
finds a transaction at work breaks atomicity (`storage_window`,
`storage_truncate`), an eviction before a commit makes
`CommitsAreDurable` false (`storage_durable`), an allocation after a kill reuses
a page (`storage_reuse`).  `EverythingFits` says what the conditions buy: what a
transaction touched is still cached when it commits, and nothing is lost.  With
`IndInv` it turns the refinement mapping, which reads the abstract contents out
of pool, file and log, into the history variables, on which each action is a
step of TxnStore or none.  `Durability` is `CommitsAreDurable` under the same
conditions.  `SerialIsQuiet` says when truncations are quiet: in `SerialSpec`,
where checkpoints start outside commits and rollbacks and no page is set up for
mutation until they are over, every truncation finds the engine quiet, and
`NeverTruncateActive` holds too.

`LruReplacerProofs` proves for every set of pages and every capacity that the
types, the partition of the slots and the mirroring of the links are invariant
(`LruTypeCorrect`, `SlotsArePartitioned`, `LinksAreMirrored`).  The three are
proved together, with the position of a running eviction: unlinking a node is
right only if its neighbours point back to it and belong to tracked pages, and
reusing a slot only if no page and no other entry of the free list has it.

Mirrored links do not make a list: they also allow a ring beside it.
A second invariant therefore adds `ListInv`, that the slots in use are the
links of one chain from head to tail (`ChainInv(n, s)`, with the chain s as a
witness), and shows how unlink and insert_head change the chain.  Both walks
read it: `Order` forwards, `peek_rev` backwards, whence `PeekReadsOldestFirst`;
and each action is a step of LruList on it, whence `ListRefinement`.

`FlusherLocksProofs` proves `NoLostUpdate` (`UpdatesKept`) and the types for any
pages, capacity and contents.  The inductive invariant `LocksInv` says what each
thread holds in each of its states (`ConnectionHolds`, `FlusherHolds`), that the
frame flush_page is writing is dirty and not the one the connection has locked
(`FrameExclusive`), that a clean frame, and the frame flush_page has just
written, are in the file (`CleanIsOnDisk`), and that what a load has read is still current when it is
inserted (`LoadIsCurrent`).

`BpTreeProofs` proves `TreeTypeOK`, `PagesFit` and `Balanced` of BpTree for any
keys, payloads and sizes with `SizesAssumption`: a leaf holds two of the largest
records and an internal node two entries, which 8 KiB pages satisfy with room to
spare.  The lemmas about Page come first: what each operation does to the number
of records, to the bytes they take and to `free_size`.  `TreeInv` then says that some assignment h of heights
to pages fits the tree: leaves have height 0, the children of a page are one
below it, and each node is sound by itself.  It is the assignment that makes a
split provable: the new page gets its sibling's height, and only the root's
grows.  Between the steps of one insertion the tree is not whole; `Rising(st, h,
d)` describes the state on the way up, with a new page of height d that no
parent knows yet.  It is passed on from each level to the next and closed by
`AtRoot`.  `PathOK` says that a descent passes through the heights from the
root's to 0, which gives `Balanced`.

`BpTreeOrderProofs` proves `ActsAsMap` (`TreeActsAsMap`) under the same
assumptions.  The order of the keys inside each page is not inductive, since a
split moves records to a page that only an ancestor's separator leads to.
`OrderInv` adds an assignment o of keys to pages (`Owned`): the root owns every
integer, pages of one height share no key, a leaf has its records in strictly
ascending order and owns their keys, and the separators of an internal node, which
it owns, cut its keys into the shares of its children.  Hence a descent ends at the one
leaf that owns the key (`LeafOwned`), that leaf alone decides whether the key is
bound (`BoundAtLeaf`), and replacing it changes the map at that key only
(`ReplaceContents`).  A pending split is a `Seam`: the middle key m cuts what
the split page p owned into `Under` and `From`, and both halves own a key, so
that the separators stay strictly ascending.  That both halves do is where
`SizesAssumption` is needed: each has at least one record or child.  A parent
with room closes the seam (`SeamCloses`), a full one passes it on as its own
(`SeamRises`), and `split_root` closes the last one (`SeamRoot`).  `Climb` is
the state between two levels, with the contents the insertion promises already
in place.  TLC confirms `OrderInv`'s parts in the instance of `btree` when the
owners are computed from the descents.

The same module proves `UniformWritesSucceed` (`UniformWrites`).  If every record
so far has one length, the account of `free_size` says how many records a leaf
holds, and after a split into halves by count the half that takes the new record
has room, whatever tombstones or compactions came before; an update of the same
length never moves its record.  The theorem has one hypothesis beyond
`SizesAssumption`, `RoomForThree`: three records of a legal length that fit a
page leave room for one more slot.  Without it a full leaf of three could split
into one and two, and the half with two, again three with the new record, would
lack the slot an insertion is charged for beyond the record's own.  A page of
8 KiB takes seven records of the largest legal length, and more of shorter ones,
so the code's constants satisfy it by far, as do those of the run `btree`.

`BpTreeShapeProofs` begins with the sibling links that a scan follows, of which
`OrderInv` says nothing.  `LeafChain` says that no leaf but the root's is empty
(`Filled`), so that the keys the leaves hold order them (`LeafOrder`), and that
`next` leads to the successor in that order, whose `prev` leads back, with 0 at
the two ends (`Links`).  That the order is total rests on what the pages own:
`AllConvex` shows it to be a range without gaps, so that two leaves lie side by
side (`SideBySide`).  A split links the right half in behind the left one
(`LinksSplice`); the split of a root that is a leaf moves the leaf from page 1
to a new page and relinks its sibling (`RootChain`), which is right because such
a root is the only page (`LoneRoot`); an internal split does not touch the
leaves (`InternalUntouched`).  No leaf becomes empty because deletions leave
tombstones and a compaction always happens on the way to one more record.
`ChainInvariant` puts this together with `OrderInv`.

The module then derives `TreeShape` (`TreeKeepsShape`) and
`MaxRowIdIsLargest` (`MaxRowIdLargest`) from it.  Both speak of sequences that
recursion over the tree puts together with `FlattenSeq`; `FlattenSorted` says
that sequences which are sorted and come one before the other flatten to a
sorted sequence of all they hold.  It is used three times: for the children of
all pages, which are distinct because no two pages of one height share a key
(`ReachedOnce`); for the leaves under the children of a page, which are apart
because their keys lie in different slots (`KidsInOrder`); and for the records
of the leaves (`RecordsListed`).  The recursions of `LeavesInOrder` and of the
descent along the last children are solved by induction on the height of a page
(`UnfoldExists`, `DescentExists`).  A sorted list of all leaves and `Links`
determine each other (`NextListed`, `PrevListed`).  The rightmost leaf owns all
keys from some key on (`RightmostUpper`), so nothing is stored behind it.

The rest of the module is about cursors, and proves `ReadsInOrder`
(`ReadsAreInOrder`), `DeleteVisitsAll` (`DeletesVisitAll`) and `UpdateVisitsAll`
(`UpdatesVisitAll`), with which every property of the run `btree` is a theorem.

* *One call of next* is a recursion over places (page, slot) that goes to the
  next slot or across a sibling link.  The number of slots in front of it gets
  smaller (`PlacesFewer`), so the recursion ends (`DescendExists`), and what it
  passes over are tombstones and ends of leaves, so that the live records ahead
  (`Ahead`) stay the same set until it rests on the first of them
  (`AheadSkips`, `AheadNext`, `SeekRests`).  `StandsAhead` says that a cursor
  which is new, or which start was given a key, or which has yielded the row k,
  stands in front of the rows from 0, from the key, or from k + 1 on; `NextFinds`
  puts these together: next yields the first row from there on, or ends.
* *A statement's scan* is a sequence of states (`Runs`), and `Scanned` is its
  invariant: as long as the slots are kept, the cursor stands in front of the
  rows from some t on, the rows seen are those before t in ascending order
  (`Seen`), those are changed as the statement does, and those from t on are as
  they were (`Treated`).  A step keeps it (`ScanGoes`) because a deletion or an
  update changes the row at its own key only (`ChangeRows`, from `ActsAsMap`'s
  lemmas) and because a place behind the row k stays one when the slots are kept
  (`BehindKept`).  SELECT and DELETE keep them always (`DeleteKeeps`, which rests
  on deletions leaving tombstones); an UPDATE that grows a record may not, which
  is the hypothesis `scan.kept` of `UpdateVisitsAll`.
* *The end*: the rows seen have distinct keys (`SeenFew`), so there are fewer of
  them than `MaxScanSteps` and SELECT and DELETE have come to their end
  (`ScanIsOver`).  The property speaks of the sequence `live(AllRecords(pages))`
  where the invariant speaks of a set; two ascending sequences with the same
  records are equal (`AscendingUnique`).

`SqlProofs` proves `CatalogMatches` of Sql (`CatalogAgrees`), for any tables,
indexes and statements and any number of them, under assumptions that TLC evaluates too: the
bounds are numbers and the three system roots are pages (`BoundsAssumption`), a
CREATE TABLE has a list of one or more columns (`TablesAssumption`, which the
parser's loop enforces), and VALUES is a list (`InsertsAssumption`).
That cache and tables agree is not inductive: what `bootstrap` reads back
depends on how the records lie, since of two roots for a table the later one
counts and columns of one name add up.  `Describes(s, c, n)` says how a store s
must lie for a catalog c, with n the next page to be a root: every table has its
records of its root, one block of consecutive ids with its columns in order
(`SchemaAt`), one record per index, nothing else is in the system tables
(`IndexKnown`), and no two tables or indexes share a root (`RootsDistinct`).
Such a store is read back as that catalog (`BootstrapSame`), except for maps of
indexes that are empty, which a failed CREATE INDEX leaves in the cache.  New
records cannot fall into old ones because the counter is ahead of them
(`SysFresh`), also after a restart (`BootstrapFresh`): tombstones count, so
the ids of dropped tables are not used again.  `CatInv` adds what the
transaction needs: the committed store can always be read back
(`Describes(disk, bootstrap(disk), next_root)`), and as long as the transaction
has no DDL its own system tables are the committed ones (`SameSystem`), which is
why a rollback without DDL leaves the cache right.  DML touches neither: the
row's tree and its index trees are not system trees (`RowWriteSame`), shown for
one row and carried through the statement by induction over its rows
(`RunData`).  TLC confirms `CatInv` in the instance of `sql` when the blocks are
sought below a bound.

It also proves `FreshRowIds` (`RowIdsFresh`), under one more assumption: the keys
that VALUES gives are not negative (`KeysAssumption`), since the lexer reads
digits and no operator of the language yields a number.  The code casts a key
to u64, which would make a negative one a row id near 2^64.  `RowInv` strengthens
the property by what it depends on: pages from the allocator on were never used
(`Unused`), so that a new table starts empty; the trees of the tables have
finitely many slots (`RowTrees`), so that a restart finds a largest id; every
schema in the cache comes from a CREATE TABLE (`Declared`), so that the assumption
about keys applies; and the counters are ahead in both stores (`Ahead`), because
a statement that fails goes back to the committed one while the counters stay.
A statement of rows is followed row by row (`RunRows`); what any statement does
to the catalog is `Grows`: counters do not move back, and a table either keeps
its root or gets the next page.  That carries the rows of a store over to the
new catalog (`GrowsKeeps`) whichever store is kept in the end.  TLC confirms
`RowInv` in the instance of `sql` as well.

On the same assumptions it proves `IndexesExact` (`IndexesAreExact`), `UniqueHolds`
(`UniqueIsUnique`) and `PkIsRowId` (`KeysAreRowIds`), and that every row can be
read under its schema (`RowsStayReadable`).  None of them is inductive alone: an
UPDATE takes a row out of the entry of the key that the row has when the scan
yields it, so the entry must be there, once, and the row must be the one in the
store.  `Sound(s, c, late, rekeyed)` says of every table of a catalog c that its
rows have the width and the types of its schema and their ids for keys, except
in tables with assigned keys (`RowsSound`), and of every index that its column
is found by name, its lists are not empty and without repetitions, an id is listed under
the key of its row only, every row is listed unless the index was created late,
and a unique index lists one id per key (`IndexSound`).  `SoundInv` asks that of the committed store under the catalog
that is read back from it, and of the connection's under its cache.  The steps
are, from the inside out: what the code does to one list (`IndexAddIs`,
`IndexRemoveIs`), to one index when a row comes, goes or changes (`EntryAdded`,
`EntryRemoved`, `EntryMoved`), to a store when one row is written, whose trees are
apart because roots are (`InsertedSound`, `DeletedSound`, `UpdatedSound`); what a
cursor hands out is a row of the store as it is now, not as it was when the
scan began (`ScanNextIs`); and the rows of a statement by induction
(`RunSound`).  An index created on an empty table is whole because its page was
never used (`CreateIndexSound`, from `Unused`), and a table that takes the name of
a dropped one finds none of its indexes (`CreateTableSound`, from
`IndexesAgree`).  A statement that fails half-way is undone to a store that is
sound under what the cache has become, which `CatInv` makes the catalog that is
read back (`ReadBackSound`).  TLC confirms `SoundInv` in the instance of `sql`.

TLAPS here cannot use the library's induction theorems, which are about
operators.  `Recursion` states induction over sets instead (a set of naturals
that holds 0 and every successor is all of them) and from it that a recursive
function of naturals obeys its equation, also when only bounded arguments do.
The proofs use it for the list's walks, the bytes of a leaf, the descent and
the way up.

Only model-checked:

* liveness (`OperationsEnd`, `StatementsEnd`), which these provers do not do;
* `PlansAgree`, `WritesOnce`, `JoinsAgree`, `AnswersAgree` and `WindowsAgree` of
  Sql compare executors with references by evaluating both on rows, and that
  two folds over rows of any length agree is induction over data;
* `SqlTypeOK`, whose bounds are those of the run: that keys of indexes are
  numbers depends on the types of all values that an expression can have, and
  that row ids start at 1 on the keys of the INSERT statements (0 is a key like
  any other).  The part about rows that fit their schemas is `RowsStayReadable`.

## Not modelled, and the plan

Not modelled:

* *loss of power*: fsync, `wal_offset` against `flushed_offset` (the comparison
  is off by one record, truncation does not reset it, split_root loses it), torn
  records at the end of the log, and a kill while the file is being created;
* *I/O errors*: a commit or rollback that fails half-way has already forgotten
  its transaction (buffer_pool.rs:180);
* *several connections* or several Databases on one file: the REPL uses
  one connection, and the lock manager that would let transactions of several
  connections coexist is an empty placeholder;
* the *SQL front end* (text to syntax tree), the byte layout of tuples and the
  *REPL*: transformations of text and bytes without shared state, and terminal
  I/O.  Statements enter the models as syntax trees.

Next among the proofs would be the DELETE half of `WritesOnce` for a full scan,
from the order in which `scan_next` goes through the slots.
