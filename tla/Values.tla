------------------------------- MODULE Values -------------------------------
(***************************************************************************)
(* Values, schemas and expressions of hinder-db: src/src/relation/, the    *)
(* expression part of src/src/planner.rs, and                              *)
(* src/src/execution/evaluator.rs.                                         *)
(*                                                                         *)
(* Abstractions.  A string is a number, its place in alphabetical order;   *)
(* Hash gives its 64-bit hash and CharCount its length.  A result that may *)
(* be an error is a set: {} is the error, {r} the result r; errors that no *)
(* caller tells apart are not told apart.  An absent type or length is     *)
(* "None" or 0.                                                            *)
(***************************************************************************)
EXTENDS Integers, Sequences, FiniteSets, SequencesExt, FiniteSetsExt

CONSTANTS
    INT_MAX,        \* i32::MAX
    SIGN_BIT,       \* 1 << 63
    Strings, Hash, CharCount,
    MAX_DEPTH       \* bound: the nesting of an expression

ASSUME ValuesAssumption ==
    /\ INT_MAX \in Nat \ {0} /\ SIGN_BIT \in Nat /\ SIGN_BIT > INT_MAX + 1
    /\ Strings \subseteq Nat /\ Hash \in [Strings -> Nat] /\ CharCount \in [Strings -> Nat]
    /\ MAX_DEPTH \in Nat

-----------------------------------------------------------------------------
(* Values *)

DataType == {"BigInt", "Int", "Boolean", "Varchar"}

Value(type, val) == [t |-> type, v |-> val]
Null == Value("Null", 0)
Boolean(b) == Value("Boolean", IF b THEN 1 ELSE 0)

\* The derived order compares the variant first, in the order of declaration.
Variant == [BigInt |-> 1, Int |-> 2, Null |-> 3, Boolean |-> 4, Varchar |-> 5]

Less(a, b) ==
    \/ Variant[a.t] < Variant[b.t]
    \/ a.t = b.t /\ a.v < b.v

\* `row_id as i32`.
AsInt(n) == ((n + INT_MAX + 1) % (2 * (INT_MAX + 1))) - (INT_MAX + 1)

\* Flipping the sign bit orders signed numbers as unsigned keys; strings are
\* hashed, and NULL shares its key with FALSE.
to_index_key(val) ==
    CASE val.t \in {"BigInt", "Int"}      -> SIGN_BIT + val.v
      [] val.t \in {"Null", "Boolean"}    -> val.v
      [] val.t = "Varchar"                -> Hash[val.v]

-----------------------------------------------------------------------------
(* Schemas: sequences of columns *)

Column(table, name, type, length, pk) ==
    [table |-> table, name |-> name, type |-> type, length |-> length, pk |-> pk]

\* The first primary key column, or 0.
primary_key_idx(schema) ==
    LET pks == {i \in DOMAIN schema : schema[i].pk} IN IF pks = {} THEN 0 ELSE Min(pks)

get_col_idx_with_qualifier(schema, qualifier, name) ==
    LET found == {i \in DOMAIN schema : /\ schema[i].name = name
                                        /\ qualifier \in {"None", schema[i].table}}
    IN  IF Cardinality(found) = 1 THEN found ELSE {}

get_col_idx(schema, name) == get_col_idx_with_qualifier(schema, "None", name)

\* Whether a row can be written and read back under a schema: the null byte,
\* or a value of the column's type.
encode(schema, values) ==
    /\ Len(values) = Len(schema)
    /\ \A i \in DOMAIN schema : values[i].t \in {"Null", schema[i].type}

-----------------------------------------------------------------------------
(* Expressions as parsed, and bound to a schema *)

ColumnExpr(qualifier, name) == [op |-> "Column", qualifier |-> qualifier, name |-> name]
Literal(kind, val) == [op |-> "Literal", kind |-> kind, val |-> val]
BinaryOp(l, op, r) == [op |-> op, left |-> l, right |-> r]
Count(qualifier, name) == [op |-> "Count", qualifier |-> qualifier, name |-> name]
CountStar == [op |-> "CountStar"]
Average(qualifier, name) == [op |-> "Average", qualifier |-> qualifier, name |-> name]

ColumnRef(i) == [op |-> "ColumnRef", col_idx |-> i]
Constant(val) == [op |-> "Constant", val |-> val]

Comparisons == {"Eq", "Neq", "Gt", "Lt", "Gte", "Lte"}
Aggregates == {"Count", "CountStar", "Average"}

IsBinary(e) == e.op \in Comparisons \cup {"And", "Or"}

\* An expression and everything in it.
Subexprs(expr) ==
    LET Operands(e) == IF IsBinary(e) THEN {e.left, e.right} ELSE {}
        down[n \in Nat] ==
            IF n = 0 THEN {expr} ELSE down[n - 1] \cup UNION {Operands(e) : e \in down[n - 1]}
    IN  down[MAX_DEPTH]

infer_expr_type(expr, schema) ==
    CASE expr.op = "Column" ->
            {schema[i].type : i \in get_col_idx_with_qualifier(schema, expr.qualifier, expr.name)}
      [] IsBinary(expr) -> {"Boolean"}
      [] OTHER -> {"None"}

bind_literal(lit, expected, max_length) ==
    LET fits(types) == expected \in types \cup {"None"}
    IN  CASE lit.kind = "Null" -> {Null}
          [] lit.kind = "Boolean" -> IF fits({"Boolean"}) THEN {Value("Boolean", lit.val)} ELSE {}
          [] lit.kind = "String" ->
                IF fits({"Varchar"}) /\ (max_length # 0 => CharCount[lit.val] <= max_length)
                THEN {Value("Varchar", lit.val)} ELSE {}
          [] lit.kind = "Int" ->
                IF expected = "Int" THEN {Value("Int", v) : v \in {lit.val} \cap 0..INT_MAX}
                ELSE IF fits({"BigInt"}) THEN {Value("BigInt", lit.val)} ELSE {}

\* A side whose type is known decides how a literal on the other side is read.
bind_expr(expr, schema, expected_type, max_length) ==
    LET Or(type, expected) == IF type = "None" THEN expected ELSE type
        bind[e \in Subexprs(expr), expected \in DataType \cup {"None"}] ==
            CASE e.op = "Column" ->
                    {ColumnRef(i) : i \in get_col_idx_with_qualifier(schema, e.qualifier, e.name)}
              [] e.op = "Literal" ->
                    {Constant(v) : v \in bind_literal(e, expected, max_length)}
              [] IsBinary(e) ->
                    UNION {{BinaryOp(l, e.op, r) : l \in bind[e.left, Or(rt, expected)],
                                                   r \in bind[e.right, Or(lt, expected)]} :
                           lt \in infer_expr_type(e.left, schema),
                           rt \in infer_expr_type(e.right, schema)}
              [] e.op \in Aggregates -> {}
    IN  bind[expr, expected_type]

-----------------------------------------------------------------------------
(* Evaluation, with the three-valued logic of NULL *)

eval_logical_op(l, op, r) ==
    LET decisive == Boolean(op = "Or")
    IN  IF ~({l.t, r.t} \subseteq {"Boolean", "Null"}) THEN {}
        ELSE IF decisive \in {l, r} THEN {decisive}
        ELSE IF Null \in {l, r} THEN {Null} ELSE {Boolean(op = "And")}

eval_binary_op(l, op, r) ==
    CASE op \in {"And", "Or"} -> eval_logical_op(l, op, r)
      [] op \in Comparisons /\ Null \in {l, r} -> {Null}
      [] op \in Comparisons /\ Null \notin {l, r} ->
            {Boolean(CASE op = "Eq" -> l = r         [] op = "Neq" -> l # r
                       [] op = "Gt" -> Less(r, l)    [] op = "Lt" -> Less(l, r)
                       [] op = "Gte" -> ~Less(l, r)  [] op = "Lte" -> ~Less(r, l))}

evaluate(expr, values) ==
    LET eval[e \in Subexprs(expr)] ==
            CASE e.op = "ColumnRef" -> {values[i] : i \in {e.col_idx} \cap DOMAIN values}
              [] e.op = "Constant" -> {e.val}
              [] IsBinary(e) ->
                    UNION {eval_binary_op(l, e.op, r) : l \in eval[e.left], r \in eval[e.right]}
    IN  eval[expr]

=============================================================================
