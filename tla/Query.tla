------------------------------- MODULE Query --------------------------------
(***************************************************************************)
(* How hinder-db answers a query: the planner's choice of a scan and its   *)
(* SELECT pipeline (src/src/planner.rs), and the executors of that         *)
(* pipeline (src/src/execution/).                                          *)
(*                                                                         *)
(* A tree is what module BpTree shows a tree to be, a map with tombstones, *)
(* small enough for one leaf: the slots a cursor counts are the keys of    *)
(* live and dead in order.  A store maps root pages to trees.  A catalog   *)
(* is a record of roots, schemas and indexes by table name, and counters.  *)
(* What an executor yields until it is exhausted is a stream: rows, and    *)
(* whether it then failed.  Groups come out of the aggregation in an       *)
(* arbitrary order, as from the code's hash map.                           *)
(***************************************************************************)
EXTENDS Values

CONSTANT BLOCK_SIZE      \* rows of the outer table per block of a join

ASSUME BlockAssumption == BLOCK_SIZE \in Nat \ {0}

-----------------------------------------------------------------------------
(* Trees *)

\* The function that is f but for the value y of x.
With(f, x, y) == [z \in DOMAIN f \cup {x} |-> IF z = x THEN y ELSE f[z]]

EmptyTree == [live |-> <<>>, dead |-> {}]

\* The elements of a set in a strict total order.
InOrder(S, Lt(_, _)) ==
    [n \in 1..Cardinality(S) |-> CHOOSE x \in S : Cardinality({y \in S : Lt(y, x)}) = n - 1]

SlotsLive(tree) == InOrder(DOMAIN tree.live, <)      \* mutant: a deletion closes the gap

Slots(tree) == InOrder(DOMAIN tree.live \cup tree.dead, <)

SlotFrom(tree, key) == 1 + Cardinality({k \in DOMAIN tree.live \cup tree.dead : k < key})

\* Mutant: a tombstone keeps its flag when its key is inserted again.
tree_insertOver(tree, key, val) ==
    IF key \in DOMAIN tree.live THEN {} ELSE {[live |-> With(tree.live, key, val), dead |-> tree.dead]}

\* {} is DuplicateKey.  A tombstone is written over in place, and then the
\* leaf is compacted: the others go, and later slots move up.
tree_insert(tree, key, val) ==
    LET dead == IF key \in tree.dead THEN {} ELSE tree.dead
    IN  IF key \in DOMAIN tree.live THEN {}
        ELSE {[live |-> With(tree.live, key, val), dead |-> dead]}

\* The value changes in its slot: so does the code unless the record grows by
\* more than its leaf has room for.  Such a record is deleted and inserted
\* again, and slots move, as module BpTree shows; WritesOnce excepts it.
tree_update(tree, key, val) == [tree EXCEPT !.live[key] = val]

\* A tombstone is what becomes of a slot, so a key without one leaves nothing.
tree_delete(tree, key) ==
    [live |-> [k \in DOMAIN tree.live \ {key} |-> tree.live[k]],
     dead |-> tree.dead \cup ({key} \cap DOMAIN tree.live)]

get_max_row_id(tree) == Max({0} \cup DOMAIN tree.live \cup tree.dead)

-----------------------------------------------------------------------------
(* The planner's choice of a scan *)

Flip == [Eq |-> "Eq", Gt |-> "Lt", Gte |-> "Lte", Lt |-> "Gt", Lte |-> "Gte"]

\* A comparison of a column with a constant that every row must satisfy.
extract_predicate(bound) ==
    LET extract[e \in Subexprs(bound)] ==
            IF e.op = "And"
            THEN IF extract[e.left] # {} THEN extract[e.left] ELSE extract[e.right]
            ELSE IF e.op \notin DOMAIN Flip THEN {}
            ELSE IF e.left.op = "ColumnRef" /\ e.right.op = "Constant"
                 THEN {[col_idx |-> e.left.col_idx, op |-> e.op, val |-> e.right.val]}
            ELSE IF e.right.op = "ColumnRef" /\ e.left.op = "Constant"
                 THEN {[col_idx |-> e.right.col_idx, op |-> Flip[e.op], val |-> e.left.val]}
            ELSE {}
    IN  extract[bound]

table_indexes(cat, table) == IF table \in DOMAIN cat.indexes THEN cat.indexes[table] ELSE <<>>

Scan(kind, root, primary, op, key) ==
    [kind |-> kind, root |-> root, primary |-> primary, op |-> op, key |-> key]

\* where is a set of at most one bound predicate.
build_index_or_seq_pipeline(cat, table, schema, where) ==
    LET primary == cat.roots[table]
        seq     == {Scan("Seq", primary, primary, "All", 0)}
        Choice(p) ==
            LET indexes == table_indexes(cat, table)
                usable  == {i \in DOMAIN indexes : indexes[i].column = schema[p.col_idx].name}
            IN  IF p.col_idx = primary_key_idx(schema)
                THEN IF p.val.t \in {"Int", "BigInt"}
                     THEN {Scan("Primary", primary, primary, p.op, p.val.v)} ELSE {}
                ELSE IF usable = {} THEN seq
                ELSE {Scan("Secondary", indexes[CHOOSE i \in usable : TRUE].root,
                           primary, p.op, to_index_key(p.val))}
        preds == UNION {extract_predicate(w) : w \in where}
    IN  IF preds = {} THEN seq ELSE UNION {Choice(p) : p \in preds}

-----------------------------------------------------------------------------
(* Scans *)

open_scan(store, scan) ==
    [slot    |-> IF scan.op \in {"Eq", "Gt", "Gte"} THEN SlotFrom(store[scan.root], scan.key) ELSE 1,
     pending |-> <<>>]

\* Mutant: <= stops at the key itself.
BoundaryStrict(op, key, search_key) ==
    CASE op \in {"All", "Gte"} -> "take"
      [] op = "Eq"  -> IF key = search_key THEN "take" ELSE "stop"
      [] op = "Gt"  -> IF key = search_key THEN "skip" ELSE "take"
      [] op \in {"Lt", "Lte"} -> IF key < search_key THEN "take" ELSE "stop"

Boundary(op, key, search_key) ==
    CASE op \in {"All", "Gte"} -> "take"
      [] op = "Eq"  -> IF key = search_key THEN "take" ELSE "stop"
      [] op = "Gt"  -> IF key = search_key THEN "skip" ELSE "take"
      [] op = "Lt"  -> IF key < search_key THEN "take" ELSE "stop"
      [] op = "Lte" -> IF key <= search_key THEN "take" ELSE "stop"

\* The next row of a scan: first the row ids pending from a secondary index,
\* then the ones that the live slots hold, as far as the scan goes; ids whose
\* row is gone are skipped.
scan_next(store, scan, cursor) ==
    LET tree == store[scan.root]
        keys == Slots(tree)
        rows == store[scan.primary].live
        Held(slot)  == IF scan.kind = "Secondary" THEN tree.live[keys[slot]] ELSE <<keys[slot]>>
        Found(ids)  == {i \in DOMAIN ids : ids[i] \in DOMAIN rows}
        Live(slot, bound) == keys[slot] \in DOMAIN tree.live
                             /\ Boundary(scan.op, keys[slot], scan.key) = bound
        Stops(slot)  == slot > Len(keys) \/ Live(slot, "stop")
        Yields(slot) == slot <= Len(keys) /\ Live(slot, "take") /\ Found(Held(slot)) # {}
        next == Min({slot \in cursor.slot..(cursor.slot + Len(keys)) : Stops(slot) \/ Yields(slot)})
        Yield(slot, ids, i) ==
            [row    |-> <<[row_id |-> ids[i], values |-> rows[ids[i]]]>>,
             cursor |-> [slot |-> slot, pending |-> SubSeq(ids, i + 1, Len(ids))]]
    IN  IF Found(cursor.pending) # {}
        THEN Yield(cursor.slot, cursor.pending, Min(Found(cursor.pending)))
        ELSE IF Stops(next) THEN [row |-> <<>>, cursor |-> [slot |-> next + 1, pending |-> <<>>]]
        ELSE Yield(next + 1, Held(next), Min(Found(Held(next))))

\* All rows of a scan over a store that does not change meanwhile.
scan_all(store, scan) ==
    LET drain[c \in [slot : Nat, pending : Seq(Nat)]] ==
            LET Rest(got) == IF got.row = <<>> THEN <<>> ELSE got.row \o drain[got.cursor]
            IN  Rest(scan_next(store, scan, c))
    IN  drain[open_scan(store, scan)]

-----------------------------------------------------------------------------
(* The executors above a scan, as functions of streams *)

Stream(rows) == [rows |-> rows, err |-> FALSE]
Failure == [rows |-> <<>>, err |-> TRUE]
ValuesOf(rows) == Stream([i \in DOMAIN rows |-> rows[i].values])
Then(s1, s2) == IF s1.err THEN s1 ELSE [rows |-> s1.rows \o s2.rows, err |-> s2.err]
AllOf(streams) == FoldLeft(Then, Stream(<<>>), streams)
Each(F(_), s) ==
    Then(AllOf([i \in DOMAIN s.rows |-> F(s.rows[i])]), [rows |-> <<>>, err |-> s.err])

\* where is a sequence of at most one predicate: "true", "false" for FALSE and
\* NULL, or "error".
Verdict(where, values) ==
    LET Of(res) == IF res = {Boolean(TRUE)} THEN "true"
                   ELSE IF res \in {{Boolean(FALSE)}, {Null}} THEN "false" ELSE "error"
    IN  IF where = <<>> THEN "true" ELSE Of(evaluate(where[1], values))

filter(s, where) ==
    LET Pass(row, verdict) == CASE verdict = "true"  -> Stream(<<row>>)
                                [] verdict = "false" -> Stream(<<>>)
                                [] verdict = "error" -> Failure
    IN  Each(LAMBDA row : Pass(row, Verdict(where, row)), s)

\* The one element of each set, or {} when one is an error.
OneOfEach(sets) ==
    IF \E i \in DOMAIN sets : sets[i] = {} THEN {}
    ELSE {[i \in DOMAIN sets |-> CHOOSE v \in sets[i] : TRUE]}

OneOr(S, default) == IF S = {} THEN default ELSE CHOOSE x \in S : TRUE

emit(s, exprs) ==
    Each(LAMBDA row : OneOr({Stream(<<out>>) : out \in
                                OneOfEach([i \in DOMAIN exprs |-> evaluate(exprs[i], row)])}, Failure), s)

Nulls(n) == [i \in 1..n |-> Null]

\* Mutant: a last block that is not full is never joined.
BlockCountFull(left) == Len(left.rows) \div BLOCK_SIZE

\* The blocks joined before the left stream ends or fails.
BlockCount(left) ==
    (Len(left.rows) + IF left.err THEN 0 ELSE BLOCK_SIZE - 1) \div BLOCK_SIZE

Matches(condition, l, r) == evaluate(condition, l \o r) = {Boolean(TRUE)}

\* The left rows of a block that match a right row, with it.
Meet(block, r, condition) ==
    LET Joined(hits) == Stream([i \in DOMAIN hits |-> hits[i] \o r])
    IN  IF \E i \in DOMAIN block : evaluate(condition, block[i] \o r) = {} THEN Failure
        ELSE Joined(SelectSeq(block, LAMBDA l : Matches(condition, l, r)))

\* Every row of the block meets every right row; then a LEFT join pads the rows
\* of the block that found no match.
join_block(block, right, join_type, condition, width) ==
    LET lone == SelectSeq(block, LAMBDA l : \A j \in DOMAIN right.rows :
                              ~Matches(condition, l, right.rows[j]))
    IN  Then(Each(LAMBDA r : Meet(block, r, condition), right),
             Stream(IF join_type = "Left"
                    THEN [i \in DOMAIN lone |-> lone[i] \o Nulls(width)] ELSE <<>>))

\* A RIGHT join does nothing more than an inner one.
join(left, right, join_type, condition, width) ==
    Then(AllOf([b \in 1..BlockCount(left) |->
            join_block(SubSeq(left.rows, (b - 1) * BLOCK_SIZE + 1, Min({b * BLOCK_SIZE, Len(left.rows)})),
                       right, join_type, condition, width)]),
         [rows |-> <<>>, err |-> left.err])

\* Mutant: NULL is counted.
accumulateNulls(agg, state, row) ==
    [sum   |-> IF agg.f = "Average" THEN state.sum + row[agg.idx].v ELSE state.sum,
     count |-> state.count + 1]

\* An aggregate is [f, idx]; its state is a pair of a sum and a count.
accumulate(agg, state, row) ==
    IF agg.f # "CountStar" /\ row[agg.idx] = Null THEN state
    ELSE [sum   |-> IF agg.f = "Average" THEN state.sum + row[agg.idx].v ELSE state.sum,
          count |-> state.count + 1]

\* Division that rounds towards zero.
Quotient(a, b) == IF a < 0 THEN -((-a) \div b) ELSE a \div b

finalize(agg, state) ==
    IF agg.f # "Average" THEN Value("BigInt", state.count)
    ELSE IF state.count = 0 THEN Null ELSE Value("BigInt", Quotient(state.sum, state.count))

aggregate(s, gb_indices, aggs) ==
    LET Key(row)  == [i \in DOMAIN gb_indices |-> row[gb_indices[i]]]
        keys      == IF s.rows = <<>> /\ gb_indices = <<>> THEN {<<>>}
                     ELSE {Key(s.rows[i]) : i \in DOMAIN s.rows}
        Result(key, agg) ==
            finalize(agg, FoldLeft(LAMBDA state, row : IF Key(row) = key
                                                       THEN accumulate(agg, state, row) ELSE state,
                                   [sum |-> 0, count |-> 0], s.rows))
        groups    == SetToSeq(keys)
    IN  IF s.err THEN Failure
        ELSE Stream([g \in DOMAIN groups |->
                groups[g] \o [i \in DOMAIN aggs |-> Result(groups[g], aggs[i])]])

\* A sort key is [idx, desc]; the first key in which two rows differ decides.
Before(keys, row1, row2) ==
    \E k \in DOMAIN keys :
        /\ \A j \in 1..(k - 1) : row1[keys[j].idx] = row2[keys[j].idx]
        /\ IF keys[k].desc THEN Less(row2[keys[k].idx], row1[keys[k].idx])
           ELSE Less(row1[keys[k].idx], row2[keys[k].idx])

\* The sort is stable.
sort(s, keys) ==
    LET order == InOrder(DOMAIN s.rows, LAMBDA i, j :
                    \/ Before(keys, s.rows[i], s.rows[j])
                    \/ ~Before(keys, s.rows[j], s.rows[i]) /\ i < j)
    IN  IF s.err THEN Failure ELSE Stream([i \in DOMAIN order |-> s.rows[order[i]]])

\* Mutant: the rows of the offset count towards the limit.
limit_offsetShort(s, limit, offset) ==
    [rows |-> SubSeq(s.rows, 1 + Max({0} \cup offset), Min({Len(s.rows)} \cup limit)), err |-> s.err]

\* limit and offset are sets of at most one number.  Once the limit is reached
\* the rest of the stream, and its failure, is never asked for.
limit_offset(s, limit, offset) ==
    LET first == Max({0} \cup offset)
        last  == Min({Len(s.rows)} \cup {first + n : n \in limit})
    IN  [rows |-> SubSeq(s.rows, first + 1, last),
         err  |-> s.err /\ \A n \in limit : n > 0 /\ first + n > Len(s.rows)]

-----------------------------------------------------------------------------
(* Planning a SELECT.  from is a left-deep chain: tables of [name, alias] and
   joins of [type, on]; the other clauses are sequences, or sets of at most
   one.  A result is {} for an error of the planner, or one stream. *)

Renamed(schema, name) == [i \in DOMAIN schema |-> [schema[i] EXCEPT !.table = name]]

\* The columns of the first n tables of the chain.
compute_table_reference_schema(cat, from, n) ==
    FlattenSeq([i \in 1..n |-> Renamed(cat.schemas[from.tables[i].name],
        IF from.tables[i].alias = "None" THEN from.tables[i].name ELSE from.tables[i].alias)])

plan_join_execution(cat, store, from) ==
    LET Rows(i) ==
            LET root == cat.roots[from.tables[i].name]
            IN  ValuesOf(scan_all(store, Scan("Seq", root, root, "All", 0)))
        chain[n \in 1..Len(from.tables)] ==
            IF n = 1 THEN {Rows(1)}
            ELSE {join(left, Rows(n), from.joins[n - 1].type, on,
                       Len(cat.schemas[from.tables[n].name])) :
                  left \in chain[n - 1],
                  on \in bind_expr(from.joins[n - 1].on,
                                   compute_table_reference_schema(cat, from, n), "Boolean", 0)}
    IN  chain[Len(from.tables)]

\* The aggregates of an expression from left to right.
extract_aggregates(expr) ==
    LET extract[e \in Subexprs(expr)] ==
            IF e.op \in Aggregates THEN <<e>>
            ELSE IF IsBinary(e) THEN extract[e.left] \o extract[e.right] ELSE <<>>
    IN  extract[expr]

Dedup(s) == FoldLeft(LAMBDA acc, e : IF e \in ToSet(acc) THEN acc ELSE Append(acc, e), <<>>, s)

plan_aggregate(expr, schema) ==
    IF expr.op = "CountStar" THEN {[f |-> "CountStar", idx |-> 0]}
    ELSE {[f |-> expr.op, idx |-> i] :
          i \in {j \in get_col_idx_with_qualifier(schema, expr.qualifier, expr.name) :
                    expr.op = "Average" => schema[j].type \in {"Int", "BigInt"}}}

\* Above an aggregation a column is a place in the group key, and an aggregate
\* a place behind it.
bind_emit_expr(expr, schema, expected_type, group_by, aggregates) ==
    LET bind[e \in Subexprs(expr), expected \in DataType \cup {"None"}] ==
            IF e \in ToSet(aggregates)
            THEN {ColumnRef(Len(group_by) + CHOOSE i \in DOMAIN aggregates : aggregates[i] = e)}
            ELSE IF e.op = "Column"
            THEN {ColumnRef(CHOOSE i \in DOMAIN group_by : group_by[i] = e) :
                  j \in IF e \in ToSet(group_by)
                        THEN get_col_idx_with_qualifier(schema, e.qualifier, e.name) ELSE {}}
            ELSE IF IsBinary(e)
            THEN UNION {{BinaryOp(l, e.op, r) :
                            l \in bind[e.left, IF rt = "None" THEN expected ELSE rt],
                            r \in bind[e.right, IF lt = "None" THEN expected ELSE lt]} :
                        lt \in infer_expr_type(e.left, schema),
                        rt \in infer_expr_type(e.right, schema)}
            ELSE bind_expr(e, schema, expected, 0)
    IN  IF group_by = <<>> /\ aggregates = <<>> THEN bind_expr(expr, schema, expected_type, 0)
        ELSE bind[expr, expected_type]

ColumnName == <<"col_0", "col_1", "col_2", "col_3">>      \* format!("col_{}", idx)

Star == ColumnExpr("None", "*")

plan_base(cat, store, stmt, schema, where) ==
    IF Len(stmt.from.tables) > 1 THEN plan_join_execution(cat, store, stmt.from)
    ELSE {ValuesOf(scan_all(store, scan)) :
          scan \in build_index_or_seq_pipeline(cat, stmt.from.tables[1].name, schema, ToSet(where))}

\* FROM and WHERE.
plan_from(cat, store, stmt, schema) ==
    UNION {{filter(s, w) : s \in plan_base(cat, store, stmt, schema, w)} :
           w \in OneOfEach([i \in DOMAIN stmt.where |->
                               bind_expr(stmt.where[i], schema, "Boolean", 0)])}

\* The other clauses, over the rows s.
plan_clauses(stmt, schema, s) ==
    LET exprs  == [i \in DOMAIN stmt.select |-> stmt.select[i].expr]
        isStar == exprs[1].op = "Column" /\ exprs[1].name = "*"
        aggs   == Dedup(FlattenSeq([i \in DOMAIN exprs |-> extract_aggregates(exprs[i])]))
        hasAgg == stmt.group_by # <<>> \/ aggs # <<>>
        funcs  == OneOfEach([i \in DOMAIN aggs |-> plan_aggregate(aggs[i], schema)])
        groups == OneOfEach([i \in DOMAIN stmt.group_by |-> get_col_idx_with_qualifier(
                                schema, stmt.group_by[i].qualifier, stmt.group_by[i].name)])
        emits  == OneOfEach([i \in DOMAIN exprs |->
                      UNION {bind_emit_expr(exprs[i], schema, t, stmt.group_by, aggs) :
                             t \in infer_expr_type(exprs[i], schema)}])
        output == [i \in DOMAIN exprs |->
                      IF stmt.select[i].alias # "None"
                      THEN Column("None", stmt.select[i].alias, "None", 0, FALSE)
                      ELSE IF exprs[i].op = "Column"
                      THEN Column(exprs[i].qualifier, exprs[i].name, "None", 0, FALSE)
                      ELSE Column("None", ColumnName[i], "None", 0, FALSE)]
        keys   == OneOfEach([i \in DOMAIN stmt.order_by |->
                      {[idx |-> k, desc |-> stmt.order_by[i].desc] :
                       k \in get_col_idx_with_qualifier(output, stmt.order_by[i].qualifier,
                                                        stmt.order_by[i].name)}])
        Grouped(g, f)   == IF hasAgg THEN aggregate(s, g, f) ELSE s
        Sorted(rows, k) == IF k = <<>> THEN rows ELSE sort(rows, k)
    IN  IF isStar /\ hasAgg THEN {}
        ELSE IF isStar /\ Len(exprs) = 1 THEN {s}
        ELSE {limit_offset(Sorted(emit(Grouped(g, f), e), k), stmt.limit, stmt.offset) :
              g \in groups, f \in funcs, e \in emits, k \in keys}

plan_select(cat, store, stmt) ==
    IF \E i \in DOMAIN stmt.from.tables : stmt.from.tables[i].name \notin DOMAIN cat.schemas THEN {}
    ELSE LET schema == compute_table_reference_schema(cat, stmt.from, Len(stmt.from.tables))
         IN  UNION {plan_clauses(stmt, schema, s) : s \in plan_from(cat, store, stmt, schema)}

=============================================================================
