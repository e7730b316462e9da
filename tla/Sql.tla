--------------------------------- MODULE Sql --------------------------------
(***************************************************************************)
(* Statements of hinder-db over its catalog and transactions:              *)
(* src/src/manager.rs (the catalog cache and its system tables),           *)
(* src/src/engine.rs (Connection), and the executors that write            *)
(* (src/src/execution/insert.rs, update.rs, delete.rs, create.rs, drop.rs).*)
(*                                                                         *)
(* One connection runs one statement at a time, so a statement is a step.  *)
(* What it does to pages is module StorageEngine's subject, which here is  *)
(* the store it promises: disk is what is committed, work what the current *)
(* transaction sees.  The catalog cache lives in memory and belongs to no  *)
(* transaction.  A page allocated by a transaction that is rolled back     *)
(* keeps the empty leaf of its Undo image, so that every root is a tree    *)
(* from the start.                                                         *)
(***************************************************************************)
EXTENDS Query

CONSTANTS
    Tables,         \* CREATE TABLE: [name, columns]
    IndexDefs,      \* CREATE INDEX: [name, table, column, unique]
    Inserts,        \* INSERT: [table, columns, values]
    Updates,        \* UPDATE: [table, set, where]
    Deletes,        \* DELETE: [table, where]
    Selects,        \* SELECT: see module Query
    MAX_ROW_IDS,    \* row ids in one entry of an index: (MAX_VALUE_SIZE - 1) / 8
    Predicates,     \* WHERE clauses to compare plans on: [table, where]
    MaxRoot,        \* bound: pages ever used as roots
    MaxRow,         \* bound: row ids of tables
    MaxVisits,      \* bound: rows one statement visits
    MaxStatements   \* bound: statements that succeed

ASSUME BoundsAssumption ==
    {MAX_ROW_IDS, MaxRoot, MaxRow, MaxVisits, MaxStatements} \subseteq Nat /\ MaxRoot >= 3

\* The parser refuses a table without columns.
ASSUME TablesAssumption ==
    \A def \in Tables : def.columns # <<>> /\ def.columns \in Seq(ToSet(def.columns))

\* VALUES is a list of rows.
ASSUME InsertsAssumption == \A stmt \in Inserts : stmt.values \in Seq(ToSet(stmt.values))

VARIABLES
    disk,           \* the committed store
    work,           \* the store the connection sees
    txn,            \* active_txn is some transaction
    cat,            \* the CatalogManager
    next_root,      \* the page allocator
    statements,     \* the statements that succeeded so far
    ddl,            \* history: the transaction has changed the catalog
    undone,         \* history: such a transaction was rolled back
    late,           \* history: indexes created on a table that had rows
    rekeyed         \* history: tables whose primary key an UPDATE assigned

vars == <<disk, work, txn, cat, next_root, statements, ddl, undone, late, rekeyed>>

SYS_ROOTS == 1
SYS_SCHEMAS == 2
SYS_INDEXES == 3
SysRoots == {SYS_ROOTS, SYS_SCHEMAS, SYS_INDEXES}

-----------------------------------------------------------------------------
(* The catalog.  Records of the system tables are [table, root], [table, col]
   and [name, table, column, unique, root]. *)

\* The ids of the live records for a table in scan order.
scan_system_table(records, table) == InOrder({id \in DOMAIN records : records[id].table = table}, <)

Without(f, x) == [y \in DOMAIN f \ {x} |-> f[y]]

\* A later record for the same table or index replaces an earlier one; the
\* columns of records for the same table add up.
bootstrap(store) ==
    LET roots   == store[SYS_ROOTS].live
        columns == store[SYS_SCHEMAS].live
        indexes == store[SYS_INDEXES].live
        TablesIn(records)    == {records[id].table : id \in DOMAIN records}
        Latest(records, ids) == records[Max(ids)]
        Root(table)   == Latest(roots, {id \in DOMAIN roots : roots[id].table = table}).root
        Schema(ids)   == [i \in DOMAIN ids |-> columns[ids[i]].col]
        Indexes(ids)  == [n \in {indexes[id].name : id \in ids} |->
                             Latest(indexes, {id \in ids : indexes[id].name = n})]
    IN  [roots    |-> [t \in TablesIn(roots) |-> Root(t)],
         schemas  |-> [t \in TablesIn(columns) |-> Schema(scan_system_table(columns, t))],
         indexes  |-> [t \in TablesIn(indexes) |->
                          Indexes({id \in DOMAIN indexes : indexes[id].table = t})],
         next_row |-> [t \in TablesIn(roots) |-> get_max_row_id(store[Root(t)]) + 1],
         next_sys |-> Max({get_max_row_id(store[r]) : r \in SysRoots}) + 1]

\* What a statement has done: res is "Plan" when the planner refused it,
\* "Exec" when an executor failed, "Ok" otherwise.
Outcome(res, store, c) ==
    [res |-> res, store |-> store, cat |-> c, root |-> next_root, affected |-> 0]
Refused == Outcome("Plan", work, cat)

InsertAll(tree, key, recs) ==
    LET ids == key..(key + Len(recs) - 1)
    IN  [tree EXCEPT !.live = [id \in DOMAIN @ \cup ids |-> IF id \in ids THEN recs[id - key + 1] ELSE @[id]]]

create_table(def) ==
    LET schema  == Renamed(def.columns, def.name)
        columns == [i \in DOMAIN schema |-> [table |-> def.name, col |-> schema[i]]]
        root    == <<[table |-> def.name, root |-> next_root]>>
    IN  IF def.name \in DOMAIN cat.roots THEN Outcome("Exec", work, cat)
        ELSE [Outcome("Ok",
                [work EXCEPT ![SYS_ROOTS]   = InsertAll(@, cat.next_sys, root),
                             ![SYS_SCHEMAS] = InsertAll(@, cat.next_sys + 1, columns)],
                [cat EXCEPT !.roots    = With(@, def.name, next_root),
                            !.schemas  = With(@, def.name, schema),
                            !.next_row = With(@, def.name, 1),
                            !.next_sys = @ + 1 + Len(columns)])
              EXCEPT !.root = next_root + 1]

\* Mutant: the records of the table's indexes stay.
drop_tableKeepsIndexes(table) ==
    LET DeleteOf(tree) ==
            LET ids == {id \in DOMAIN tree.live : tree.live[id].table = table}
            IN  [live |-> [id \in DOMAIN tree.live \ ids |-> tree.live[id]], dead |-> tree.dead \cup ids]
    IN  IF table \notin DOMAIN cat.roots THEN Outcome("Exec", work, cat)
        ELSE Outcome("Ok", [work EXCEPT ![SYS_ROOTS] = DeleteOf(@), ![SYS_SCHEMAS] = DeleteOf(@)],
                     [cat EXCEPT !.roots   = Without(@, table),
                                 !.schemas = Without(@, table),
                                 !.indexes = Without(@, table)])

\* The counter of row ids is left behind.
drop_table(table) ==
    LET DeleteOf(tree) ==
            LET ids == {id \in DOMAIN tree.live : tree.live[id].table = table}
            IN  [live |-> [id \in DOMAIN tree.live \ ids |-> tree.live[id]], dead |-> tree.dead \cup ids]
    IN  IF table \notin DOMAIN cat.roots THEN Outcome("Exec", work, cat)
        ELSE Outcome("Ok", [r \in DOMAIN work |-> IF r \in SysRoots THEN DeleteOf(work[r]) ELSE work[r]],
                     [cat EXCEPT !.roots   = Without(@, table),
                                 !.schemas = Without(@, table),
                                 !.indexes = Without(@, table)])

\* The table gets its map of indexes before the name and the column are
\* checked.  Rows that the table already has are not put into the index.
create_index(def) ==
    LET known   == table_indexes(cat, def.table)
        touched == [cat EXCEPT !.indexes = With(@, def.table, known)]
        meta    == [name |-> def.name, table |-> def.table, column |-> def.column,
                    unique |-> def.unique, root |-> next_root]
    IN  IF \/ def.table \notin DOMAIN cat.schemas
           \/ get_col_idx(cat.schemas[def.table], def.column) = {}
        THEN Outcome("Exec", work, cat)
        ELSE IF \/ def.name \in DOMAIN known
                \/ \E i \in DOMAIN known : known[i].column = def.column
        THEN Outcome("Exec", work, touched)
        ELSE [Outcome("Ok", [work EXCEPT ![SYS_INDEXES] = InsertAll(@, cat.next_sys, <<meta>>)],
                [cat EXCEPT !.indexes  = With(@, def.table, With(known, def.name, meta)),
                            !.next_sys = @ + 1])
              EXCEPT !.root = next_root + 1]

show_tables(c) == DOMAIN c.schemas
show_indexes(c) ==
    UNION {{[table |-> t, name |-> i, column |-> c.indexes[t][i].column,
             unique |-> c.indexes[t][i].unique] : i \in DOMAIN c.indexes[t]} : t \in DOMAIN c.indexes}

-----------------------------------------------------------------------------
(* Secondary indexes: trees from index keys to lists of row ids *)

\* Mutant: uniqueness is not enforced.
index_addAny(tree, unique, key, row_id) ==
    LET fresh == tree_insert(tree, key, <<row_id>>)
    IN  IF fresh # {} THEN fresh
        ELSE {tree_update(tree, key, Append(tree.live[key], row_id))}

\* {} is a violation of a unique index, or a list that outgrows a record.
index_add(tree, unique, key, row_id) ==
    LET fresh == tree_insert(tree, key, <<row_id>>)
    IN  IF fresh # {} THEN fresh
        ELSE IF unique \/ Len(tree.live[key]) = MAX_ROW_IDS THEN {}
        ELSE {tree_update(tree, key, Append(tree.live[key], row_id))}

\* The row ids of an entry without one of them.
RemoveId(ids, row_id) ==
    LET kept[n \in 0..Len(ids)] ==
            IF n = 0 THEN <<>>
            ELSE IF ids[n] = row_id THEN kept[n - 1] ELSE Append(kept[n - 1], ids[n])
    IN  kept[Len(ids)]

\* Mutant: the whole list goes with one of its rows.
index_removeKey(tree, key, row_id) ==
    IF key \in DOMAIN tree.live THEN tree_delete(tree, key) ELSE tree

index_remove(tree, key, row_id) ==
    LET kept == RemoveId(tree.live[key], row_id)
    IN  IF key \notin DOMAIN tree.live THEN tree
        ELSE IF kept = <<>> THEN tree_delete(tree, key) ELSE tree_update(tree, key, kept)

\* Change is applied to the tree of every index of the table, whose column is
\* looked up by name; {} as soon as one fails.
ChangeIndexes(store, schema, table, Change(_, _, _)) ==
    LET indexes == {table_indexes(cat, table)[i] : i \in DOMAIN table_indexes(cat, table)}
        Changed(meta) == UNION {Change(store[meta.root], meta.unique, i) :
                                i \in get_col_idx(schema, meta.column)}
        MetaOf(r) == CHOOSE meta \in indexes : meta.root = r
    IN  IF \E meta \in indexes : Changed(meta) = {} THEN {}
        ELSE {[r \in DOMAIN store |->
                  IF \E meta \in indexes : meta.root = r
                  THEN CHOOSE t \in Changed(MetaOf(r)) : TRUE ELSE store[r]]}

-----------------------------------------------------------------------------
(* INSERT *)

\* The rows to insert, with NULL in the columns left out; {} for an error.
plan_insert(stmt, schema) ==
    LET cols == IF stmt.columns = <<>> THEN {[i \in DOMAIN schema |-> i]}
                ELSE OneOfEach([i \in DOMAIN stmt.columns |-> get_col_idx(schema, stmt.columns[i])])
        Target(idx, c) == {i \in DOMAIN idx : idx[i] = c}
        Bound(idx, row) ==
            IF Len(row) # Len(idx) THEN {}
            ELSE OneOfEach([i \in DOMAIN idx |->
                     bind_expr(row[i], schema, schema[idx[i]].type, schema[idx[i]].length)])
        Row(idx, row) ==
            {[c \in DOMAIN schema |-> IF Target(idx, c) = {} THEN Constant(Null)
                                     ELSE exprs[Max(Target(idx, c))]] : exprs \in Bound(idx, row)}
    IN  UNION {OneOfEach([n \in DOMAIN stmt.values |-> Row(idx, stmt.values[n])]) : idx \in cols}

\* The lexer reads digits, and no operator yields a number: VALUES has no
\* negative ones.
ASSUME KeysAssumption ==
    \A stmt \in Inserts : \A def \in Tables : def.name = stmt.table =>
    \A plan \in plan_insert(stmt, Renamed(def.columns, def.name)) :
    \A n \in DOMAIN plan : \A i \in DOMAIN plan[n] : \A v \in evaluate(plan[n][i], <<>>) :
        v.t \in {"Null", "Int", "BigInt"} => v.v \in Nat

RowIdCounted(schema, given, counter) == counter      \* mutant: a given key is not the row id

\* A primary key that is given is the row id, one that is left out is taken
\* from the counter.
RowIdOf(schema, given, counter) ==
    LET pk == primary_key_idx(schema)
    IN  IF pk # 0 /\ given[pk] # Null THEN given[pk].v ELSE counter

WatermarkNext(counter, row_id) == counter + 1      \* mutant: a given key does not move the counter

Watermark(counter, row_id) == Max({counter, row_id + 1})

update_high_watermark(c, table, row_id) ==
    [c EXCEPT !.next_row = With(@, table, Watermark(@[table], row_id))]

\* The statement goes on with the store it was left, or fails without one.
Written(out, stores) ==
    IF stores = {} THEN [out EXCEPT !.res = "Exec"]
    ELSE [out EXCEPT !.store = CHOOSE s \in stores : TRUE, !.affected = @ + 1]

\* The row and its index entries; {} for an error.
insert_row(store, table, schema, row_id, values) ==
    IF ~encode(schema, values) THEN {}
    ELSE UNION {ChangeIndexes([store EXCEPT ![cat.roots[table]] = tree], schema, table,
                    LAMBDA t, unique, i : index_add(t, unique, to_index_key(values[i]), row_id)) :
                tree \in tree_insert(store[cat.roots[table]], row_id, values)}

\* One row: the counter moves first and stays moved when the row is refused.
InsertRow(out, table, schema, exprs) ==
    LET pk == primary_key_idx(schema)
        Keyed(given, row_id) ==
            IF pk = 0 \/ given[pk] # Null THEN given
            ELSE [given EXCEPT ![pk] = IF schema[pk].type = "Int" THEN Value("Int", AsInt(row_id))
                                       ELSE Value("BigInt", row_id)]
        Put(given, row_id) ==
            IF pk # 0 /\ given[pk].t \notin {"Null", "Int", "BigInt"} THEN [out EXCEPT !.res = "Exec"]
            ELSE Written([out EXCEPT !.cat = update_high_watermark(@, table, row_id)],
                         insert_row(out.store, table, schema, row_id, Keyed(given, row_id)))
    IN  IF out.res # "Ok" THEN out
        ELSE OneOr({Put(given, RowIdOf(schema, given, out.cat.next_row[table])) :
                    given \in OneOfEach([i \in DOMAIN exprs |-> evaluate(exprs[i], <<>>)])},
                   [out EXCEPT !.res = "Exec"])

insert(stmt) ==
    LET schema == cat.schemas[stmt.table]
        Run(plan) ==
            LET run[n \in 0..Len(plan)] ==
                    IF n = 0 THEN Outcome("Ok", work, cat)
                    ELSE InsertRow(run[n - 1], stmt.table, schema, plan[n])
            IN  run[Len(plan)]
    IN  IF stmt.table \notin DOMAIN cat.schemas THEN Refused
        ELSE OneOr({Run(plan) : plan \in plan_insert(stmt, schema)}, Refused)

-----------------------------------------------------------------------------
(* UPDATE and DELETE: a scan, a filter, and a change of every row they yield
   before the scan moves on.  where is a sequence of at most one predicate. *)

\* The scan and the bound predicate; {} for an error of the planner.
plan_where(stmt, schema) ==
    LET wheres == OneOfEach([i \in DOMAIN stmt.where |->
                                bind_expr(stmt.where[i], schema, "Boolean", 0)])
    IN  UNION {{[scan |-> s, where |-> w] :
                s \in build_index_or_seq_pipeline(cat, stmt.table, schema, ToSet(w))} : w \in wheres}

Sweep(plan, Change(_, _)) ==
    LET Apply(out, row, verdict) ==
            CASE verdict = "false" -> out
              [] verdict = "error" -> [out EXCEPT !.res = "Exec"]
              [] verdict = "true"  -> Written(out, Change(out.store, row))
        Visit(out, got) ==
            IF got.row = <<>> THEN [out |-> out, cursor |-> got.cursor, going |-> FALSE]
            ELSE [out    |-> Apply(out, got.row[1], Verdict(plan.where, got.row[1].values)),
                  cursor |-> got.cursor, going |-> TRUE]
        Step(st) ==
            IF st.going /\ st.out.res = "Ok"
            THEN Visit(st.out, scan_next(st.out.store, plan.scan, st.cursor)) ELSE st
        run[n \in 0..MaxVisits] ==
            IF n = 0 THEN [out |-> Outcome("Ok", work, cat), cursor |-> open_scan(work, plan.scan),
                           going |-> TRUE]
            ELSE Step(run[n - 1])
    IN  run[MaxVisits].out

delete(stmt) ==
    LET schema == cat.schemas[stmt.table]
        root   == cat.roots[stmt.table]
        DeleteRow(store, row) ==
            ChangeIndexes([store EXCEPT ![root] = tree_delete(@, row.row_id)], schema, stmt.table,
                LAMBDA t, unique, i : {index_remove(t, to_index_key(row.values[i]), row.row_id)})
    IN  IF stmt.table \notin DOMAIN cat.schemas THEN Refused
        ELSE OneOr({Sweep(plan, DeleteRow) : plan \in plan_where(stmt, schema)}, Refused)

\* set is a sequence of [idx, expr]; every value is computed from the old row.
Assign(set, values) ==
    LET new == OneOfEach([i \in DOMAIN set |-> evaluate(set[i].expr, values)])
        For(c) == {i \in DOMAIN set : set[i].idx = c}
    IN  {[c \in DOMAIN values |-> IF For(c) = {} THEN values[c] ELSE vs[Max(For(c))]] : vs \in new}

\* The assignments as places and bound expressions; {} for an error.
plan_set(stmt, schema) ==
    LET Bind(a) == UNION {{[idx |-> c, expr |-> e] :
                           e \in bind_expr(a.value, schema, schema[c].type, schema[c].length)} :
                          c \in get_col_idx(schema, a.column)}
    IN  OneOfEach([i \in DOMAIN stmt.set |-> Bind(stmt.set[i])])

\* A row leaves the entry of its old key before it enters that of its new one.
Reindex(tree, unique, row_id, old, new) ==
    IF old = new THEN {tree}
    ELSE index_add(index_remove(tree, to_index_key(old), row_id), unique, to_index_key(new), row_id)

\* The row under its old id and its index entries; {} for an error.
update_row(store, table, schema, row, values) ==
    IF ~encode(schema, values) THEN {}
    ELSE ChangeIndexes([store EXCEPT ![cat.roots[table]] = tree_update(@, row.row_id, values)],
             schema, table,
             LAMBDA t, unique, i : Reindex(t, unique, row.row_id, row.values[i], values[i]))

update(stmt) ==
    LET schema == cat.schemas[stmt.table]
        Run(plan, set) ==
            Sweep(plan, LAMBDA store, row :
                UNION {update_row(store, stmt.table, schema, row, values) :
                       values \in Assign(set, row.values)})
    IN  IF stmt.table \notin DOMAIN cat.schemas THEN Refused
        ELSE OneOr(UNION {{Run(plan, set) : plan \in plan_where(stmt, schema)} :
                          set \in plan_set(stmt, schema)}, Refused)

-----------------------------------------------------------------------------
(* Sessions *)

Init ==
    /\ disk = [r \in 1..MaxRoot |-> EmptyTree] /\ work = disk
    /\ cat = bootstrap(disk)
    /\ next_root = 4
    /\ txn = FALSE /\ statements = 0
    /\ ddl = FALSE /\ undone = FALSE /\ late = {} /\ rekeyed = {}

\* A statement runs in the active transaction or in one of its own, which is
\* then committed.  An executor's error rolls back the whole transaction; the
\* catalog cache keeps what the statements have made of it.
execute_statement(out, changesCatalog) ==
    /\ ~undone
    /\ statements < MaxStatements
    /\ out.res # "Plan"
    /\ cat' = out.cat
    /\ next_root' = out.root
    /\ IF out.res = "Ok"
       THEN /\ statements' = statements + 1
            /\ work' = out.store
            /\ disk' = IF txn THEN disk ELSE out.store
            /\ ddl' = (txn /\ (ddl \/ changesCatalog))
            /\ UNCHANGED <<txn, undone>>
       ELSE /\ work' = disk
            /\ txn' = FALSE
            /\ undone' = ddl
            /\ ddl' = FALSE
            /\ UNCHANGED <<disk, statements>>

CreateTable(def) ==
    /\ next_root <= MaxRoot
    /\ \A i \in DOMAIN def.columns : def.columns[i].pk => def.columns[i].type \in {"Int", "BigInt"}
    /\ execute_statement(create_table(def), TRUE)
    /\ UNCHANGED <<late, rekeyed>>

CreateIndex(def) ==
    LET out == create_index(def)
    IN  /\ next_root <= MaxRoot
        /\ execute_statement(out, TRUE)
        /\ late' = IF out.res = "Ok" /\ work[cat.roots[def.table]].live # <<>>
                   THEN late \cup {next_root} ELSE late
        /\ UNCHANGED rekeyed

DropTable(table) == execute_statement(drop_table(table), TRUE) /\ UNCHANGED <<late, rekeyed>>

AssignsColumn(stmt, c) ==
    \E i \in DOMAIN stmt.set : c \in get_col_idx(cat.schemas[stmt.table], stmt.set[i].column)

Insert(stmt) ==
    /\ execute_statement(insert(stmt), FALSE)
    /\ \A t \in DOMAIN cat'.next_row : cat'.next_row[t] <= MaxRow + 1
    /\ UNCHANGED <<late, rekeyed>>

Update(stmt) ==
    /\ execute_statement(update(stmt), FALSE)
    /\ rekeyed' = IF /\ statements' > statements
                     /\ AssignsColumn(stmt, primary_key_idx(cat.schemas[stmt.table]))
                  THEN rekeyed \cup {cat.roots[stmt.table]} ELSE rekeyed
    /\ UNCHANGED late

Delete(stmt) == execute_statement(delete(stmt), FALSE) /\ UNCHANGED <<late, rekeyed>>

\* A query that fails in an executor ends the transaction too.
Select(stmt) ==
    /\ \E s \in plan_select(cat, work, stmt) : s.err
    /\ execute_statement(Outcome("Exec", work, cat), FALSE)
    /\ UNCHANGED <<late, rekeyed>>

handle_begin ==
    /\ ~undone /\ ~txn
    /\ txn' = TRUE
    /\ UNCHANGED <<disk, work, cat, next_root, statements, ddl, undone, late, rekeyed>>

handle_commit ==
    /\ txn
    /\ disk' = work /\ txn' = FALSE /\ ddl' = FALSE
    /\ UNCHANGED <<work, cat, next_root, statements, undone, late, rekeyed>>

handle_rollback ==
    /\ txn
    /\ work' = disk /\ txn' = FALSE /\ ddl' = FALSE /\ undone' = ddl
    /\ UNCHANGED <<disk, cat, next_root, statements, late, rekeyed>>

\* The database is closed, or killed and recovered, and opened again with what
\* was committed.  That a kill can lose some of it, or take the page allocator
\* back, is StorageEngine's subject (CommitsAreDurable, NewPageIsUnused).
Restart ==
    /\ work' = disk
    /\ cat' = bootstrap(disk)
    /\ txn' = FALSE /\ ddl' = FALSE /\ undone' = FALSE
    /\ UNCHANGED <<disk, next_root, statements, late, rekeyed>>

Next ==
    \/ \E def \in Tables : CreateTable(def) \/ DropTable(def.name)
    \/ \E def \in IndexDefs : CreateIndex(def)
    \/ \E stmt \in Inserts : Insert(stmt)
    \/ \E stmt \in Updates : Update(stmt)
    \/ \E stmt \in Deletes : Delete(stmt)
    \/ \E stmt \in Selects : Select(stmt)
    \/ handle_begin \/ handle_commit \/ handle_rollback
    \/ Restart

Spec == Init /\ [][Next]_vars

-----------------------------------------------------------------------------
(* Properties *)

Rows(store, table) == store[cat.roots[table]].live
IndexesOf(c, table) == {table_indexes(c, table)[i] : i \in DOMAIN table_indexes(c, table)}
ColumnOf(table, meta) == CHOOSE i \in get_col_idx(cat.schemas[table], meta.column) : TRUE

\* Roots, row ids and the counters stay in their ranges, and every stored row
\* can be read under the schema of its table.
SqlTypeOK ==
    /\ statements \in 0..MaxStatements /\ next_root \in 4..(MaxRoot + 1)
    /\ {txn, ddl, undone} \subseteq BOOLEAN /\ late \cup rekeyed \subseteq 4..MaxRoot
    /\ \A r \in 1..MaxRoot : \A s \in {disk, work} :
          DOMAIN s[r].live \cup s[r].dead \subseteq Nat /\ DOMAIN s[r].live \cap s[r].dead = {}
    /\ ~undone => \A t \in DOMAIN cat.roots : \A id \in DOMAIN Rows(work, t) :
          id \in 1..MaxRow /\ encode(cat.schemas[t], Rows(work, t)[id])

SameCatalog(c1, c2) ==
    /\ c1.roots = c2.roots /\ c1.schemas = c2.schemas
    /\ show_tables(c1) = show_tables(c2) /\ show_indexes(c1) = show_indexes(c2)
    /\ \A t \in DOMAIN c1.roots : IndexesOf(c1, t) = IndexesOf(c2, t)

\* The cache and the system tables tell the same story after any sequence of
\* statements, transactions and restarts in which no DDL was rolled back: a
\* table that is dropped leaves nothing for its successor of the same name to
\* inherit, and no two tables or indexes share a root page.  The last holds
\* across a restart after a clean close; after a kill, which may take the page
\* allocator back (see Restart), only where it did not.
CatalogMatches ==
    ~undone =>
        /\ SameCatalog(cat, bootstrap(work))
        /\ LET owners == {<<t, "">> : t \in DOMAIN cat.roots}
                           \cup {<<x.table, x.name>> : x \in show_indexes(cat)}
               RootOf(o) == IF o[2] = "" THEN cat.roots[o[1]] ELSE cat.indexes[o[1]][o[2]].root
           IN  \A o1, o2 \in owners : RootOf(o1) = RootOf(o2) => o1 = o2

\* A rolled-back transaction leaves no trace: the catalog that a connection
\* sees between transactions is the one in the system tables.
RollbackRestoresCatalog == ~txn => SameCatalog(cat, bootstrap(disk))

\* A secondary index lists exactly the rows of its table under their keys,
\* whatever was inserted, updated, deleted, rolled back or recovered; one that
\* was created on a table with rows lists nothing that is not there.
IndexesExact ==
    ~undone => \A t \in DOMAIN cat.roots : \A meta \in IndexesOf(cat, t) :
        LET lists == work[meta.root].live
            rows  == Rows(work, t)
            c     == ColumnOf(t, meta)
            listed == UNION {{<<k, id>> : id \in ToSet(lists[k])} : k \in DOMAIN lists}
            keyed  == {<<to_index_key(rows[id][c]), id>> : id \in DOMAIN rows}
        IN  /\ listed \subseteq keyed
            /\ meta.root \notin late => listed = keyed
            /\ \A k \in DOMAIN lists : Len(lists[k]) = Cardinality(ToSet(lists[k])) /\ lists[k] # <<>>

\* No two rows of a table have the same value in a column with a unique index
\* that was there before them.
UniqueHolds ==
    ~undone => \A t \in DOMAIN cat.roots : \A meta \in IndexesOf(cat, t) :
        meta.unique /\ meta.root \notin late =>
            \A i, j \in DOMAIN Rows(work, t) :
                Rows(work, t)[i][ColumnOf(t, meta)] = Rows(work, t)[j][ColumnOf(t, meta)] => i = j

\* The primary key of a row is its row id, as long as no UPDATE assigned the
\* key and the counter of an INT key has not passed the largest INT.
PkIsRowId ==
    ~undone => \A t \in DOMAIN cat.roots :
        LET pk == primary_key_idx(cat.schemas[t])
        IN  pk # 0 /\ cat.roots[t] \notin rekeyed =>
                \A id \in DOMAIN Rows(work, t) : id <= INT_MAX => Rows(work, t)[id][pk].v = id

\* The counters are ahead of every row id in use, committed or not, so an
\* automatic id never meets a row, not even after explicit ids, rollbacks that
\* keep the counters, and restarts that compute them again.
FreshRowIds ==
    ~undone => \A s \in {disk, work} :
        /\ \A t \in DOMAIN cat.roots : \A id \in DOMAIN Rows(s, t) : id < cat.next_row[t]
        /\ \A r \in SysRoots : \A id \in DOMAIN s[r].live : id < cat.next_sys

\* The plans that promise the same rows as a full scan: not an index that was
\* created late, not an order of hashes for an order of strings, and not a
\* search by row id where the primary key is something else.
Faithful(table, scan) ==
    LET pk == primary_key_idx(cat.schemas[table])
    IN  CASE scan.kind = "Seq" -> TRUE
          [] scan.kind = "Primary" ->
                \A id \in DOMAIN Rows(work, table) : Rows(work, table)[id][pk].v = id
          [] scan.kind = "Secondary" ->
                /\ scan.root \notin late
                /\ \A meta \in IndexesOf(cat, table) : meta.root = scan.root =>
                       scan.op = "Eq" \/ cat.schemas[table][ColumnOf(table, meta)].type # "Varchar"

Satisfies(where, values) == Verdict(where, values) = "true"
Matching(table, where) == {id \in DOMAIN Rows(work, table) : Satisfies(where, Rows(work, table)[id])}
\* Looked at between transactions, since a commit changes neither work nor cat.
Plans(stmt) ==
    IF undone \/ txn \/ stmt.table \notin DOMAIN cat.roots THEN {}
    ELSE {plan \in plan_where(stmt, cat.schemas[stmt.table]) : Faithful(stmt.table, plan.scan)}

\* How often a sequence or function has each of its values.
BagOf(f) == [x \in {f[i] : i \in DOMAIN f} |-> Cardinality({i \in DOMAIN f : f[i] = x})]

\* A search through the primary tree or a secondary index, with its start key
\* and its boundary checks, returns the rows that satisfy the predicate, once
\* each, as a full scan would.
PlansAgree ==
    \A stmt \in Predicates : \A plan \in Plans(stmt) :
        \A got \in {SelectSeq(scan_all(work, plan.scan), LAMBDA row : Satisfies(plan.where, row.values))} :
            BagOf([i \in DOMAIN got |-> got[i].row_id])
                = [id \in Matching(stmt.table, plan.where) |-> 1]

\* The encoded record may get longer: NULL is the flag alone, and only strings
\* differ in length among the values of a column.
MayGrow(old, new) ==
    \E c \in DOMAIN old :
        new[c] # Null /\ (old[c] = Null \/ (new[c].t = "Varchar" /\ new[c] # old[c]))

\* An UPDATE or DELETE that succeeds changes every row that satisfied its
\* predicate when it began, once, from its old values, and no other row.  Not
\* said of an UPDATE that scans the very index it moves rows in, nor of one
\* that scans the table and makes a record longer: when its leaf has no room
\* slots move under the cursor, which then skips rows or meets one twice.
WritesOnce ==
    /\ \A stmt \in Updates : \A plan \in Plans(stmt) : \A set \in plan_set(stmt, cat.schemas[stmt.table]) :
        LET hit    == Matching(stmt.table, plan.where)
            old    == Rows(work, stmt.table)
            chases == \E meta \in IndexesOf(cat, stmt.table) :
                          meta.root = plan.scan.root /\ AssignsColumn(stmt, ColumnOf(stmt.table, meta))
            grows  == /\ plan.scan.root = plan.scan.primary
                      /\ \E id \in hit : \E new \in Assign(set, old[id]) : MayGrow(old[id], new)
        IN  \A out \in {update(stmt)} : out.res = "Ok" /\ ~chases /\ ~grows =>
              /\ out.affected = Cardinality(hit)
              /\ \A id \in DOMAIN old :
                    Rows(out.store, stmt.table)[id] \in IF id \in hit THEN Assign(set, old[id]) ELSE {old[id]}
    /\ \A stmt \in Deletes : \A plan \in Plans(stmt) : \A out \in {delete(stmt)} :
        LET hit == Matching(stmt.table, plan.where)
            old == Rows(work, stmt.table)
        IN  out.res = "Ok" =>
              /\ out.affected = Cardinality(hit)
              /\ Rows(out.store, stmt.table) = [id \in DOMAIN old \ hit |-> old[id]]

-----------------------------------------------------------------------------
(* Properties of SELECT, against what the clauses mean *)

Answerable(stmt) ==
    /\ ~undone /\ ~txn
    /\ \A i \in DOMAIN stmt.from.tables : stmt.from.tables[i].name \in DOMAIN cat.roots

\* The rows of a table in scan order.
TableRows(stmt, i) ==
    LET live == work[cat.roots[stmt.from.tables[i].name]].live
        ids  == InOrder(DOMAIN live, <)
    IN  [n \in DOMAIN ids |-> live[ids[n]]]
FullSchema(stmt) == compute_table_reference_schema(cat, stmt.from, Len(stmt.from.tables))

\* The rows of FROM, by their places in the tables: the pairs that satisfy ON,
\* and for LEFT the left rows that are in no such pair, with place 0.
FromRows(stmt) ==
    LET onto  == stmt.from.joins[1]
        width == Len(FullSchema(stmt)) - Len(cat.schemas[stmt.from.tables[1].name])
        Lone(l, pairs) == {<<i, 0>> : i \in {i \in DOMAIN l : onto.type = "Left" /\ \A p \in pairs : p[1] # i}}
        Padded(l, r, pairs) ==
            [p \in pairs \cup Lone(l, pairs) |-> l[p[1]] \o IF p[2] = 0 THEN Nulls(width) ELSE r[p[2]]]
        Joined(l, r) ==
            Padded(l, r, {p \in (DOMAIN l) \X (DOMAIN r) :
                             \E on \in bind_expr(onto.on, FullSchema(stmt), "Boolean", 0) :
                                 evaluate(on, l[p[1]] \o r[p[2]]) = {Boolean(TRUE)}})
    IN  IF Len(stmt.from.tables) = 1 THEN TableRows(stmt, 1)
        ELSE Joined(TableRows(stmt, 1), TableRows(stmt, 2))

\* Reading the left table in blocks and the right one again for every block
\* gives the rows of the join, each as often as it should; except for RIGHT,
\* which is run as an inner join.
JoinsAgree ==
    \A stmt \in {s \in Selects : Answerable(s) /\ Len(s.from.tables) = 2} :
        stmt.from.joins[1].type # "Right" =>
            \A s \in plan_join_execution(cat, work, stmt.from) :
                ~s.err => BagOf(s.rows) = BagOf(FromRows(stmt))

Unordered(stmt) == [stmt EXCEPT !.order_by = <<>>, !.limit = {}, !.offset = {}]

\* What a select item is for a group of rows, given by their positions.
Item(stmt, e, rows, group) ==
    LET At   == CHOOSE i \in get_col_idx_with_qualifier(FullSchema(stmt), e.qualifier, e.name) : TRUE
        some == {i \in group : rows[i][At] # Null}
    IN  CASE e.op = "CountStar" -> Value("BigInt", Cardinality(group))
          [] e.op = "Count" -> Value("BigInt", Cardinality(some))
          [] e.op = "Average" ->
                IF some = {} THEN Null
                ELSE Value("BigInt", Quotient(MapThenSumSet(LAMBDA i : rows[i][At].v, some), Cardinality(some)))
          [] e.op = "Column" -> rows[CHOOSE i \in group : TRUE][At]

Kept(stmt, rows) ==
    LET where == OneOfEach([i \in DOMAIN stmt.where |->
                               bind_expr(stmt.where[i], FullSchema(stmt), "Boolean", 0)])
    IN  Restrict(rows, {i \in DOMAIN rows : \A w \in where : Satisfies(w, rows[i])})

GroupsOf(stmt, rows) ==
    LET Key(i) == [g \in DOMAIN stmt.group_by |-> Item(stmt, stmt.group_by[g], rows, {i})]
    IN  IF stmt.group_by # <<>> THEN {{j \in DOMAIN rows : Key(j) = k} : k \in {Key(i) : i \in DOMAIN rows}}
        ELSE IF \E i \in DOMAIN stmt.select : stmt.select[i].expr.op \in Aggregates THEN {DOMAIN rows}
        ELSE {{i} : i \in DOMAIN rows}

Answer(stmt, rows) ==
    [g \in GroupsOf(stmt, rows) |->
        IF stmt.select[1].expr = Star THEN rows[CHOOSE i \in g : TRUE]
        ELSE [k \in DOMAIN stmt.select |-> Item(stmt, stmt.select[k].expr, rows, g)]]

\* The rows of a SELECT are the ones its list, WHERE and GROUP BY describe: a
\* row per joined row, or one per group of equal keys, one in all when there
\* is no GROUP BY, with every item found by name and not by place.
AnswersAgree ==
    \A stmt \in {s \in Selects : Answerable(s)} :
        \A ans \in plan_select(cat, work, Unordered(stmt)) :
            /\ \A i \in DOMAIN stmt.from.joins : stmt.from.joins[i].type # "Right"
            /\ ~ans.err
            => BagOf(ans.rows) = BagOf(Answer(stmt, Kept(stmt, FromRows(stmt))))

\* ORDER BY rearranges the rows of the query without LIMIT and OFFSET so that
\* each is no larger than the next in the named columns, and LIMIT and OFFSET
\* cut out of that order the window they name; except after SELECT *, which
\* ignores all three.
WindowsAgree ==
    \A stmt \in {s \in Selects : Answerable(s) /\ s.select[1].expr # Star} :
        \A got \in plan_select(cat, work, stmt),
           sorted \in plan_select(cat, work, [stmt EXCEPT !.limit = {}, !.offset = {}]),
           all \in plan_select(cat, work, Unordered(stmt)) :
            LET first  == Max({0} \cup stmt.offset)
                window == {i \in DOMAIN sorted.rows : i > first /\ \A n \in stmt.limit : i <= first + n}
                Names(o, k) == \/ o.name = stmt.select[k].alias
                               \/ stmt.select[k].alias = "None" /\ stmt.select[k].expr.op = "Column"
                                     /\ stmt.select[k].expr.name = o.name
                Of(o, row)  == row[CHOOSE k \in DOMAIN stmt.select : Names(o, k)]
                Sorted(r1, r2) ==
                    LET differ == {k \in DOMAIN stmt.order_by :
                                      Of(stmt.order_by[k], r1) # Of(stmt.order_by[k], r2)}
                        o      == stmt.order_by[Min(differ)]
                    IN  differ = {} \/ (o.desc <=> Less(Of(o, r2), Of(o, r1)))
            IN  ~got.err =>
                  /\ BagOf(sorted.rows) = BagOf(all.rows)
                  /\ \A i, j \in DOMAIN sorted.rows : i < j => Sorted(sorted.rows[i], sorted.rows[j])
                  /\ Len(got.rows) = Cardinality(window)
                  /\ \A i \in DOMAIN got.rows : got.rows[i] = sorted.rows[first + i]

=============================================================================
