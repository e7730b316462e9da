------------------------------- MODULE MCSql --------------------------------
(***************************************************************************)
(* Statements for TLC.  Table t has an INT primary key and an INT column;  *)
(* table u has a BOOLEAN and a VARCHAR(1) column and no key.  The strings  *)
(* are 1 = 'a', 2 = 'b' and 3 = 'bb'; their hashes reverse their order.    *)
(***************************************************************************)
EXTENDS Sql

MCHash == <<9, 5, 5>>
MCCharCount == <<1, 1, 2>>

Col(name) == ColumnExpr("None", name)
Num(n) == Literal("Int", n)
Str(n) == Literal("String", n)
NullLit == Literal("Null", 0)
False == Literal("Boolean", 0)

MCTables ==
    {[name |-> "t", columns |-> <<Column("None", "id", "Int", 0, TRUE),
                                  Column("None", "x", "Int", 0, FALSE)>>],
     [name |-> "u", columns |-> <<Column("None", "f", "Boolean", 0, FALSE),
                                  Column("None", "s", "Varchar", 1, FALSE)>>]}

MCIndexDefs ==
    {[name |-> "i", table |-> "t", column |-> "x", unique |-> FALSE],
     [name |-> "j", table |-> "t", column |-> "x", unique |-> TRUE],
     [name |-> "i", table |-> "u", column |-> "f", unique |-> TRUE],
     [name |-> "j", table |-> "u", column |-> "s", unique |-> FALSE],
     [name |-> "k", table |-> "u", column |-> "x", unique |-> FALSE]}

Put(table, columns, rows) == [table |-> table, columns |-> columns, values |-> rows]

MCInserts ==
    {Put("t", <<"x">>, <<<<Num(1)>>>>),
     Put("t", <<>>, <<<<NullLit, Num(2)>>, <<NullLit, Num(2)>>>>),
     Put("t", <<"id">>, <<<<Num(2)>>>>),
     Put("u", <<>>, <<<<False, Str(2)>>>>),
     Put("u", <<"s">>, <<<<Str(1)>>>>),
     Put("u", <<"s">>, <<<<Str(3)>>>>)}

Change(table, set, where) == [table |-> table, set |-> set, where |-> where]
Set(column, value) == [column |-> column, value |-> value]

MCUpdates ==
    {Change("t", <<Set("x", Col("id"))>>, <<BinaryOp(Num(2), "Gte", Col("id"))>>),
     Change("t", <<Set("id", Col("x")), Set("x", Col("id"))>>, <<BinaryOp(Col("x"), "Eq", Num(2))>>),
     Change("u", <<Set("f", False)>>, <<BinaryOp(Col("s"), "Eq", Str(1))>>),
     Change("u", <<Set("f", Col("s"))>>, <<>>)}

MCDeletes ==
    {[table |-> "t", where |-> <<BinaryOp(Col("x"), "Lte", Num(1))>>],
     [table |-> "u", where |-> <<>>]}

MCPredicates ==
    {[table |-> "t", where |-> <<BinaryOp(Col(p[1]), op, Num(p[2]))>>] :
        p \in {<<"id", 2>>, <<"x", 1>>, <<"x", 2>>}, op \in DOMAIN Flip}
    \cup
    {[table |-> "t", where |-> <<w>>] : w \in
        {BinaryOp(BinaryOp(Num(1), "Lt", Col("x")), op, BinaryOp(Col("id"), "Lt", Col("x"))) :
            op \in {"And", "Or"}}
        \cup {BinaryOp(Col("x"), "Eq", NullLit)}}
    \cup
    {[table |-> "u", where |-> <<w>>] : w \in
        {BinaryOp(Col("f"), op, False) : op \in {"Eq", "Gt", "Gte", "Lte"}}
        \cup {BinaryOp(Col("s"), op, Str(1)) : op \in {"Eq", "Gt"}}}

As(e, alias) == [expr |-> e, alias |-> alias]
Table(name, alias) == [name |-> name, alias |-> alias]
By(name, desc) == [qualifier |-> "None", name |-> name, desc |-> desc]
On(l, r) == BinaryOp(ColumnExpr("a", l), "Eq", ColumnExpr("b", r))
SelfJoin(type, on) ==
    [tables |-> <<Table("t", "a"), Table("t", "b")>>, joins |-> <<[type |-> type, on |-> on]>>]
One(table) == [tables |-> <<Table(table, "None")>>, joins |-> <<>>]
Query(select, from, where, group_by, order_by, limit, offset) ==
    [select |-> select, from |-> from, where |-> where, group_by |-> group_by,
     order_by |-> order_by, limit |-> limit, offset |-> offset]

MCSelects ==
    {Query(<<As(ColumnExpr("b", "id"), "other"), As(ColumnExpr("a", "x"), "None")>>,
           SelfJoin("Inner", On("x", "id")), <<>>, <<>>,
           <<By("x", TRUE), By("other", FALSE)>>, {2}, {1}),
     Query(<<As(Average("b", "id"), "mean"), As(ColumnExpr("a", "x"), "None"), As(CountStar, "n"),
             As(Count("b", "x"), "None")>>,
           SelfJoin("Left", On("x", "x")), <<>>, <<ColumnExpr("a", "x")>>,
           <<By("n", FALSE)>>, {}, {1}),
     Query(<<As(CountStar, "None"), As(Average("None", "x"), "None")>>, One("t"),
           <<BinaryOp(Col("x"), "Gt", Col("id"))>>, <<>>, <<>>, {}, {}),
     Query(<<As(Star, "None")>>, SelfJoin("Right", On("id", "x")),
           <<BinaryOp(ColumnExpr("b", "x"), "Lte", ColumnExpr("b", "id"))>>, <<>>, <<>>, {1}, {}),
     Query(<<As(Col("s"), "None")>>, One("u"), <<Col("s")>>, <<>>, <<>>, {}, {})}
=============================================================================
