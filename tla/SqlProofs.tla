------------------------------ MODULE SqlProofs ------------------------------
(***************************************************************************)
(* The catalog cache, the system tables, the row ids, the indexes and the  *)
(* primary keys of Sql, for all tables, indexes and statements.            *)
(***************************************************************************)
EXTENDS Sql, Recursion, FiniteSetTheorems, SequenceTheorems

-----------------------------------------------------------------------------
(* Sets of numbers *)

\* A set of numbers that is finite and not empty has a largest one.
LEMMA MaxOfFinite ==
    ASSUME NEW S \in SUBSET Nat, IsFiniteSet(S), S # {}
    PROVE  Max(S) \in S /\ \A y \in S : Max(S) >= y
<1>1. /\ Cardinality(S) \in Nat
      /\ \E f : f \in [1..Cardinality(S) -> S] /\ \A y \in S : \E i \in 1..Cardinality(S) : f[i] = y
  BY FS_CardinalityType DEF ExistsBijection, Bijection, Surjection
<1> DEFINE k == Cardinality(S)
<1>2. PICK f : f \in [1..k -> S] /\ \A y \in S : \E i \in 1..k : f[i] = y
  BY <1>1
<1>3. k \in Nat
  BY <1>1
<1> HIDE DEF k
<1> DEFINE T == {n \in 0..k : n = 0 \/ \E i \in 1..n : \A j \in 1..n : f[i] >= f[j]}
<1>4. 0 \in T
  BY <1>3
<1>5. ASSUME NEW n \in 0..(k - 1), n \in T PROVE n + 1 \in T
  <2>1. n + 1 \in 0..k /\ n + 1 \in 1..k /\ 1..(n + 1) = 1..n \cup {n + 1}
    BY <1>3
  <2>2. \A j \in 1..(n + 1) : f[j] \in Nat
    <3>1. \A j \in 1..(n + 1) : j \in 1..k
      BY <1>3
    <3>2. QED
      BY <1>2, <3>1
  <2>3. CASE n = 0
    <3>1. 1..(n + 1) = {n + 1}
      BY <2>3
    <3>2. QED
      BY <2>1, <2>2, <3>1
  <2>4. CASE n # 0
    <3>1. PICK i \in 1..n : \A j \in 1..n : f[i] >= f[j]
      BY <1>5, <2>4
    <3>2. CASE f[i] >= f[n + 1]
      BY <2>1, <2>2, <3>1, <3>2
    <3>3. CASE ~(f[i] >= f[n + 1])
      <4>1. \A j \in 1..(n + 1) : f[n + 1] >= f[j]
        BY <2>1, <2>2, <3>1, <3>3
      <4>2. QED
        BY <2>1, <4>1
    <3>4. QED
      BY <3>2, <3>3
  <2>5. QED
    BY <2>3, <2>4
<1> HIDE DEF T
<1>6. \A n \in 0..k : n \in T
  BY <1>3, <1>4, <1>5, BoundedInduction
<1>7. k \in 0..k /\ k # 0
  <2>1. PICK y : y \in S
    OBVIOUS
  <2>2. PICK i \in 1..k : f[i] = y
    BY <1>2, <2>1
  <2>3. QED
    BY <1>3, <2>2
<1>8. \E i \in 1..k : \A j \in 1..k : f[i] >= f[j]
  BY <1>6, <1>7 DEF T
<1>9. \E x \in S : \A y \in S : x >= y
  BY <1>2, <1>8
<1>10. QED
  BY <1>9 DEF Max

\* The numbers after b in order are the shift by b.
LEMMA InOrderOfInterval ==
    ASSUME NEW b \in Nat, NEW k \in Nat
    PROVE  InOrder((b + 1)..(b + k), <) = [n \in 1..k |-> b + n]
<1> DEFINE S == (b + 1)..(b + k)
<1>1. Cardinality(S) = k
  <2>1. Cardinality(S) = IF b + 1 > b + k THEN 0 ELSE (b + k) - (b + 1) + 1
    BY FS_Interval
  <2>2. QED
    BY <2>1
<1>2. ASSUME NEW x \in S PROVE Cardinality({y \in S : y < x}) = x - b - 1
  <2>1. {y \in S : y < x} = (b + 1)..(x - 1)
    OBVIOUS
  <2>2. Cardinality((b + 1)..(x - 1)) = IF b + 1 > x - 1 THEN 0 ELSE (x - 1) - (b + 1) + 1
    BY FS_Interval
  <2>3. (IF b + 1 > x - 1 THEN 0 ELSE (x - 1) - (b + 1) + 1) = x - b - 1
    OBVIOUS
  <2>4. QED
    BY <2>1, <2>2, <2>3, Zenon
<1>3. ASSUME NEW n \in 1..k PROVE (CHOOSE x \in S : Cardinality({y \in S : y < x}) = n - 1) = b + n
  <2>1. b + n \in S /\ (b + n) - b - 1 = n - 1
    OBVIOUS
  <2>2. \A x \in S : x - b - 1 = n - 1 => x = b + n
    OBVIOUS
  <2> HIDE DEF S
  <2>3. Cardinality({y \in S : y < b + n}) = n - 1
    BY <1>2, <2>1
  <2>4. \A x \in S : Cardinality({y \in S : y < x}) = n - 1 => x = b + n
    BY <1>2, <2>2
  <2>5. QED
    BY <2>1, <2>3, <2>4
<1>4. QED
  BY <1>1, <1>3, Zenon DEF InOrder

-----------------------------------------------------------------------------
(* What the system tables say of a catalog *)

\* A tree with finitely many slots.
SystemTree(tree) ==
    /\ DOMAIN tree = {"live", "dead"}
    /\ DOMAIN tree.live \subseteq Nat /\ IsFiniteSet(DOMAIN tree.live)
    /\ tree.dead \subseteq Nat /\ IsFiniteSet(tree.dead)

\* The shape of a store.
IsStore(s) == DOMAIN s = 1..MaxRoot /\ \A r \in SysRoots : SystemTree(s[r])

\* The shape of a catalog.
IsCatalog(c) == DOMAIN c = {"roots", "schemas", "indexes", "next_row", "next_sys"}

\* The ids of the records of a table.
IdsOf(records, t) == {id \in DOMAIN records : records[id].table = t}

\* The ids of the records of an index.
IndexIds(records, t, n) == {id \in IdsOf(records, t) : records[id].name = n}

\* Every table has records in the first system table, all with its root.
RootsAgree(c, s) ==
    /\ c.roots = [t \in DOMAIN c.roots |-> c.roots[t]]
    /\ \A id \in DOMAIN s[SYS_ROOTS].live :
          /\ s[SYS_ROOTS].live[id].table \in DOMAIN c.roots
          /\ c.roots[s[SYS_ROOTS].live[id].table] = s[SYS_ROOTS].live[id].root
    /\ \A t \in DOMAIN c.roots : IdsOf(s[SYS_ROOTS].live, t) # {}

\* The columns of a schema are the records after b, in their order.
SchemaAt(schema, records, t, b, k) ==
    /\ schema = [i \in 1..k |-> schema[i]]
    /\ IdsOf(records, t) = (b + 1)..(b + k)
    /\ \A i \in 1..k : records[b + i].col = schema[i]

\* The records of a schema are together and complete.
SchemasAgree(c, s) ==
    /\ c.schemas = [t \in DOMAIN c.roots |-> c.schemas[t]]
    /\ \A id \in DOMAIN s[SYS_SCHEMAS].live : s[SYS_SCHEMAS].live[id].table \in DOMAIN c.roots
    /\ \A t \in DOMAIN c.roots : \E b \in Nat, k \in Nat \ {0} :
          SchemaAt(c.schemas[t], s[SYS_SCHEMAS].live, t, b, k)

\* The record is an index of the catalog.
IndexKnown(c, rec) ==
    /\ rec.table \in DOMAIN c.roots
    /\ rec.table \in DOMAIN c.indexes
    /\ rec.name \in DOMAIN c.indexes[rec.table]
    /\ c.indexes[rec.table][rec.name] = rec

\* An index is the one record of its name and its table.  A table without
\* indexes may or may not have a map of them.
IndexesAgree(c, s) ==
    /\ \A id \in DOMAIN s[SYS_INDEXES].live : IndexKnown(c, s[SYS_INDEXES].live[id])
    /\ \A t \in DOMAIN c.indexes : \A n \in DOMAIN c.indexes[t] :
          IndexIds(s[SYS_INDEXES].live, t, n) # {}

\* Roots are pages below n, and no two tables or indexes share one.
RootsDistinct(c, n) ==
    /\ \A t \in DOMAIN c.roots : c.roots[t] \in 4..(n - 1)
    /\ \A t \in DOMAIN c.indexes : \A i \in DOMAIN c.indexes[t] : c.indexes[t][i].root \in 4..(n - 1)
    /\ \A t, u \in DOMAIN c.roots : c.roots[t] = c.roots[u] => t = u
    /\ \A t, u \in DOMAIN c.indexes : \A i \in DOMAIN c.indexes[t], j \in DOMAIN c.indexes[u] :
          c.indexes[t][i].root = c.indexes[u][j].root => t = u /\ i = j
    /\ \A t \in DOMAIN c.roots : \A u \in DOMAIN c.indexes : \A j \in DOMAIN c.indexes[u] :
          c.roots[t] # c.indexes[u][j].root

\* The system tables of a store tell the story of a catalog.
Describes(s, c, n) ==
    /\ IsStore(s) /\ IsCatalog(c)
    /\ RootsAgree(c, s) /\ SchemasAgree(c, s) /\ IndexesAgree(c, s) /\ RootsDistinct(c, n)

\* The counter of the system tables is ahead of their records.
SysFresh(c, s) ==
    /\ c.next_sys \in Nat
    /\ \A r \in SysRoots : \A id \in DOMAIN s[r].live : id < c.next_sys

-----------------------------------------------------------------------------
(* The catalog that is read back from the system tables *)

\* A schema read from the records of a table.
SchemaOf(records, t) ==
    [i \in DOMAIN scan_system_table(records, t) |-> records[scan_system_table(records, t)[i]].col]

\* The indexes read from the records of a table.
IndexesRead(records, t) ==
    [n \in {records[id].name : id \in IdsOf(records, t)} |-> records[Max(IndexIds(records, t, n))]]

\* The tables that have records.
TablesIn(records) == {records[id].table : id \in DOMAIN records}

\* The largest ids of the system tables.
LargestIds(s) == {get_max_row_id(s[r]) : r \in SysRoots}

\* What bootstrap computes, part by part.
LEMMA BootstrapParts ==
    ASSUME NEW s, NEW b, b = bootstrap(s)
    PROVE  /\ IsCatalog(b)
           /\ b.roots = [t \in TablesIn(s[SYS_ROOTS].live) |->
                            s[SYS_ROOTS].live[Max(IdsOf(s[SYS_ROOTS].live, t))].root]
           /\ b.schemas = [t \in TablesIn(s[SYS_SCHEMAS].live) |-> SchemaOf(s[SYS_SCHEMAS].live, t)]
           /\ b.indexes = [t \in TablesIn(s[SYS_INDEXES].live) |-> IndexesRead(s[SYS_INDEXES].live, t)]
           /\ b.next_row = [t \in TablesIn(s[SYS_ROOTS].live) |->
                               get_max_row_id(s[s[SYS_ROOTS].live[Max(IdsOf(s[SYS_ROOTS].live, t))].root]) + 1]
           /\ b.next_sys = Max(LargestIds(s)) + 1
BY Zenon DEF bootstrap, IdsOf, IndexIds, TablesIn, SchemaOf, IndexesRead, IsCatalog, LargestIds

\* A table has records when its ids are not empty.
LEMMA TablesInIds ==
    ASSUME NEW records, NEW t
    PROVE  t \in TablesIn(records) <=> IdsOf(records, t) # {}
BY DEF TablesIn, IdsOf

\* The ids of the records of a table are finitely many.
LEMMA IdsFinite ==
    ASSUME NEW records, DOMAIN records \subseteq Nat, IsFiniteSet(DOMAIN records), NEW t, NEW n
    PROVE  /\ IdsOf(records, t) \in SUBSET Nat /\ IsFiniteSet(IdsOf(records, t))
           /\ IndexIds(records, t, n) \in SUBSET Nat /\ IsFiniteSet(IndexIds(records, t, n))
<1>1. IdsOf(records, t) \subseteq DOMAIN records /\ IndexIds(records, t, n) \subseteq DOMAIN records
  BY DEF IdsOf, IndexIds
<1>2. QED
  BY <1>1, FS_Subset

\* The roots are the ones of the catalog.
LEMMA BootstrapRoots ==
    ASSUME NEW s, NEW c, IsStore(s), RootsAgree(c, s), NEW b, b = bootstrap(s)
    PROVE  b.roots = c.roots
<1> DEFINE R == s[SYS_ROOTS].live
<1>1. b.roots = [t \in TablesIn(R) |-> R[Max(IdsOf(R, t))].root]
  BY BootstrapParts, ZenonT(60)
<1>2. /\ c.roots = [t \in DOMAIN c.roots |-> c.roots[t]]
      /\ \A id \in DOMAIN R : R[id].table \in DOMAIN c.roots /\ c.roots[R[id].table] = R[id].root
      /\ \A t \in DOMAIN c.roots : IdsOf(R, t) # {}
  BY DEF RootsAgree
<1>3. DOMAIN R \subseteq Nat /\ IsFiniteSet(DOMAIN R)
  BY DEF IsStore, SystemTree, SysRoots
<1> HIDE DEF R
<1>4. TablesIn(R) = DOMAIN c.roots
  BY <1>2, TablesInIds DEF TablesIn
<1>5. ASSUME NEW t \in DOMAIN c.roots PROVE R[Max(IdsOf(R, t))].root = c.roots[t]
  <2>1. Max(IdsOf(R, t)) \in IdsOf(R, t)
    BY <1>2, <1>3, IdsFinite, MaxOfFinite
  <2>2. QED
    BY <1>2, <2>1 DEF IdsOf
<1>6. b.roots = [t \in DOMAIN c.roots |-> c.roots[t]]
  BY <1>1, <1>4, <1>5
<1>7. QED
  BY <1>2, <1>6

\* A block of records in order.
LEMMA SchemaRead ==
    ASSUME NEW schema, NEW records, NEW t, NEW b \in Nat, NEW k \in Nat, SchemaAt(schema, records, t, b, k)
    PROVE  SchemaOf(records, t) = schema
<1> DEFINE ids == scan_system_table(records, t)
<1>1. ids = [n \in 1..k |-> b + n]
  BY InOrderOfInterval, Zenon DEF SchemaAt, scan_system_table, IdsOf
<1> HIDE DEF ids
<1>2. DOMAIN ids = 1..k /\ \A i \in 1..k : ids[i] = b + i
  BY <1>1
<1>3. [i \in DOMAIN ids |-> records[ids[i]].col] = [i \in 1..k |-> schema[i]]
  BY <1>2 DEF SchemaAt
<1>4. QED
  BY <1>3 DEF SchemaAt, SchemaOf, ids

\* The schemas are the ones of the catalog.
LEMMA BootstrapSchemas ==
    ASSUME NEW s, NEW c, IsStore(s), SchemasAgree(c, s), NEW b, b = bootstrap(s)
    PROVE  b.schemas = c.schemas
<1> DEFINE R == s[SYS_SCHEMAS].live
<1>1. b.schemas = [t \in TablesIn(R) |-> SchemaOf(R, t)]
  BY BootstrapParts, Zenon
<1>2. /\ c.schemas = [t \in DOMAIN c.roots |-> c.schemas[t]]
      /\ \A id \in DOMAIN R : R[id].table \in DOMAIN c.roots
      /\ \A t \in DOMAIN c.roots : \E d \in Nat, k \in Nat \ {0} : SchemaAt(c.schemas[t], R, t, d, k)
  BY DEF SchemasAgree
<1> HIDE DEF R
<1>3. ASSUME NEW t \in DOMAIN c.roots PROVE SchemaOf(R, t) = c.schemas[t] /\ IdsOf(R, t) # {}
  <2>1. PICK d \in Nat, k \in Nat \ {0} : SchemaAt(c.schemas[t], R, t, d, k)
    BY <1>2
  <2>2. SchemaOf(R, t) = c.schemas[t]
    BY <2>1, SchemaRead
  <2>3. d + 1 \in (d + 1)..(d + k)
    OBVIOUS
  <2>4. QED
    BY <2>1, <2>2, <2>3 DEF SchemaAt
<1>4. TablesIn(R) = DOMAIN c.roots
  BY <1>2, <1>3, TablesInIds DEF TablesIn
<1>5. b.schemas = [t \in DOMAIN c.roots |-> c.schemas[t]]
  BY <1>1, <1>3, <1>4
<1>6. QED
  BY <1>2, <1>5

\* The indexes are the ones of the catalog that have a name.
LEMMA BootstrapIndexes ==
    ASSUME NEW s, NEW c, IsStore(s), IndexesAgree(c, s), NEW b, b = bootstrap(s), NEW t
    PROVE  /\ t \in DOMAIN b.indexes <=> IdsOf(s[SYS_INDEXES].live, t) # {}
           /\ t \in DOMAIN b.indexes =>
                 /\ t \in DOMAIN c.indexes
                 /\ DOMAIN b.indexes[t] = DOMAIN c.indexes[t]
                 /\ \A n \in DOMAIN c.indexes[t] : b.indexes[t][n] = c.indexes[t][n]
           /\ t \in DOMAIN c.indexes /\ t \notin DOMAIN b.indexes => DOMAIN c.indexes[t] = {}
<1> DEFINE X == s[SYS_INDEXES].live
<1>1. b.indexes = [u \in TablesIn(X) |-> IndexesRead(X, u)]
  BY BootstrapParts, Zenon
<1>2. DOMAIN X \subseteq Nat /\ IsFiniteSet(DOMAIN X)
  BY DEF IsStore, SystemTree, SysRoots
<1>3. /\ \A id \in DOMAIN X : /\ X[id].table \in DOMAIN c.indexes
                              /\ X[id].name \in DOMAIN c.indexes[X[id].table]
                              /\ c.indexes[X[id].table][X[id].name] = X[id]
      /\ \A u \in DOMAIN c.indexes : \A n \in DOMAIN c.indexes[u] : IndexIds(X, u, n) # {}
  BY DEF IndexesAgree, IndexKnown
<1> HIDE DEF X
<1>4. t \in DOMAIN b.indexes <=> IdsOf(X, t) # {}
  BY <1>1, TablesInIds
<1>5. ASSUME t \in DOMAIN b.indexes
      PROVE  /\ t \in DOMAIN c.indexes
             /\ DOMAIN b.indexes[t] = DOMAIN c.indexes[t]
             /\ \A n \in DOMAIN c.indexes[t] : b.indexes[t][n] = c.indexes[t][n]
  <2>1. b.indexes[t] = IndexesRead(X, t)
    BY <1>1, <1>5
  <2>2. t \in DOMAIN c.indexes
    BY <1>3, <1>4, <1>5 DEF IdsOf
  <2>3. {X[id].name : id \in IdsOf(X, t)} = DOMAIN c.indexes[t]
    BY <1>3, <2>2 DEF IdsOf, IndexIds
  <2>4. ASSUME NEW n \in DOMAIN c.indexes[t] PROVE X[Max(IndexIds(X, t, n))] = c.indexes[t][n]
    <3>1. Max(IndexIds(X, t, n)) \in IndexIds(X, t, n)
      BY <1>2, <1>3, <2>2, IdsFinite, MaxOfFinite
    <3>2. QED
      BY <1>3, <3>1 DEF IdsOf, IndexIds
  <2>5. QED
    BY <2>1, <2>2, <2>3, <2>4 DEF IndexesRead
<1>6. ASSUME t \in DOMAIN c.indexes, t \notin DOMAIN b.indexes PROVE DOMAIN c.indexes[t] = {}
  BY <1>3, <1>4, <1>6 DEF IdsOf, IndexIds
<1>7. QED
  BY <1>4, <1>5, <1>6 DEF X

\* The largest id of a tree is a number that no id exceeds.
LEMMA LargestIdIs ==
    ASSUME NEW tree, SystemTree(tree)
    PROVE  /\ get_max_row_id(tree) \in Nat
           /\ \A id \in DOMAIN tree.live : get_max_row_id(tree) >= id
<1> DEFINE S == {0} \cup DOMAIN tree.live \cup tree.dead
<1>1. /\ DOMAIN tree.live \subseteq Nat /\ IsFiniteSet(DOMAIN tree.live)
      /\ tree.dead \subseteq Nat /\ IsFiniteSet(tree.dead)
  BY DEF SystemTree
<1>2. S \in SUBSET Nat /\ S # {} /\ DOMAIN tree.live \subseteq S
  BY <1>1
<1>3. IsFiniteSet(S)
  BY <1>1, FS_Singleton, FS_Union
<1>4. get_max_row_id(tree) = Max(S)
  BY Zenon DEF get_max_row_id
<1> HIDE DEF S
<1>5. QED
  BY <1>2, <1>3, <1>4, MaxOfFinite

\* The counter read back is ahead of every record.
LEMMA BootstrapFresh ==
    ASSUME NEW s, IsStore(s), NEW b, b = bootstrap(s)
    PROVE  SysFresh(b, s)
<1> DEFINE M == LargestIds(s)
<1>1. b.next_sys = Max(M) + 1
  BY BootstrapParts, Zenon
<1>2. ASSUME NEW r \in SysRoots
      PROVE  /\ get_max_row_id(s[r]) \in Nat
             /\ \A id \in DOMAIN s[r].live : get_max_row_id(s[r]) >= id
  BY LargestIdIs DEF IsStore
<1>3. M = {get_max_row_id(s[1]), get_max_row_id(s[2]), get_max_row_id(s[3])}
  BY DEF LargestIds, SysRoots, SYS_ROOTS, SYS_SCHEMAS, SYS_INDEXES
<1>4. IsFiniteSet(M)
  <2>1. M = ({get_max_row_id(s[1])} \cup {get_max_row_id(s[2])}) \cup {get_max_row_id(s[3])}
    BY <1>3
  <2>2. IsFiniteSet({get_max_row_id(s[1])})
    BY FS_Singleton
  <2>3. IsFiniteSet({get_max_row_id(s[1])} \cup {get_max_row_id(s[2])})
    BY <2>2, FS_AddElement
  <2>4. IsFiniteSet(({get_max_row_id(s[1])} \cup {get_max_row_id(s[2])}) \cup {get_max_row_id(s[3])})
    BY <2>3, FS_AddElement
  <2>5. QED
    BY <2>1, <2>4, Zenon
<1>5. M \in SUBSET Nat /\ M # {}
  BY <1>2, <1>3 DEF SysRoots, SYS_ROOTS, SYS_SCHEMAS, SYS_INDEXES
<1>6. \A r \in SysRoots : get_max_row_id(s[r]) \in M
  BY DEF LargestIds
<1> HIDE DEF M
<1>7. Max(M) \in Nat /\ \A r \in SysRoots : Max(M) >= get_max_row_id(s[r])
  BY <1>4, <1>5, <1>6, MaxOfFinite
<1>8. ASSUME NEW r \in SysRoots, NEW id \in DOMAIN s[r].live PROVE id < b.next_sys
  <2>1. id \in Nat
    BY DEF IsStore, SystemTree
  <2>2. QED
    BY <1>1, <1>2, <1>7, <2>1
<1>9. QED
  BY <1>1, <1>7, <1>8 DEF SysFresh

\* The catalog read back is described by the tables it was read from.
LEMMA BootstrapDescribes ==
    ASSUME NEW s, NEW c, NEW n, Describes(s, c, n), NEW b, b = bootstrap(s)
    PROVE  Describes(s, b, n)
<1>1. IsStore(s) /\ RootsAgree(c, s) /\ SchemasAgree(c, s) /\ IndexesAgree(c, s) /\ RootsDistinct(c, n)
  BY DEF Describes
<1>2. b.roots = c.roots /\ b.schemas = c.schemas
  BY <1>1, BootstrapRoots, BootstrapSchemas
<1>3. IsCatalog(b)
  BY BootstrapParts, Zenon
<1>4. \A t : /\ t \in DOMAIN b.indexes <=> IdsOf(s[SYS_INDEXES].live, t) # {}
             /\ t \in DOMAIN b.indexes =>
                   /\ t \in DOMAIN c.indexes
                   /\ DOMAIN b.indexes[t] = DOMAIN c.indexes[t]
                   /\ \A i \in DOMAIN c.indexes[t] : b.indexes[t][i] = c.indexes[t][i]
  BY <1>1, BootstrapIndexes
<1>5. RootsAgree(b, s)
  BY <1>1, <1>2 DEF RootsAgree
<1>6. SchemasAgree(b, s)
  BY <1>1, <1>2 DEF SchemasAgree
<1>7. IndexesAgree(b, s)
  <2>1. ASSUME NEW id \in DOMAIN s[SYS_INDEXES].live
        PROVE  s[SYS_INDEXES].live[id].table \in DOMAIN b.indexes
    BY <1>4 DEF IdsOf
  <2>2. ASSUME NEW id \in DOMAIN s[SYS_INDEXES].live
        PROVE  IndexKnown(b, s[SYS_INDEXES].live[id])
    <3> DEFINE rec == s[SYS_INDEXES].live[id]
    <3>1. IndexKnown(c, rec)
      BY <1>1 DEF IndexesAgree
    <3>2. rec.table \in DOMAIN b.indexes
      BY <2>1
    <3> DEFINE t == rec.table
               i == rec.name
    <3>3. t \in DOMAIN c.roots /\ i \in DOMAIN c.indexes[t] /\ c.indexes[t][i] = rec
      BY <3>1 DEF IndexKnown
    <3> HIDE DEF rec, t, i
    <3>4. t \in DOMAIN b.indexes
      BY <3>2 DEF t
    <3>5. i \in DOMAIN b.indexes[t] /\ b.indexes[t][i] = rec
      BY <1>4, <3>3, <3>4
    <3>6. t \in DOMAIN b.roots
      BY <1>2, <3>3
    <3>7. QED
      BY <3>4, <3>5, <3>6 DEF IndexKnown, t, i, rec
  <2>3. ASSUME NEW t \in DOMAIN b.indexes, NEW i \in DOMAIN b.indexes[t]
        PROVE  IndexIds(s[SYS_INDEXES].live, t, i) # {}
    <3>1. t \in DOMAIN c.indexes /\ i \in DOMAIN c.indexes[t]
      BY <1>4
    <3>2. QED
      BY <1>1, <3>1 DEF IndexesAgree
  <2>4. QED
    BY <2>2, <2>3 DEF IndexesAgree
<1>8. RootsDistinct(b, n)
  BY <1>1, <1>2, <1>4 DEF RootsDistinct
<1>9. QED
  BY <1>1, <1>3, <1>5, <1>6, <1>7, <1>8 DEF Describes

\* The catalog read back is the same for everyone who looks at it.
LEMMA BootstrapSame ==
    ASSUME NEW s, NEW c, NEW n, Describes(s, c, n)
    PROVE  SameCatalog(c, bootstrap(s))
<1> DEFINE b == bootstrap(s)
<1>1. IsStore(s) /\ RootsAgree(c, s) /\ SchemasAgree(c, s) /\ IndexesAgree(c, s)
  BY DEF Describes
<1>2. b.roots = c.roots /\ b.schemas = c.schemas
  BY <1>1, BootstrapRoots, BootstrapSchemas
<1>3. \A t : /\ t \in DOMAIN b.indexes =>
                   /\ t \in DOMAIN c.indexes
                   /\ DOMAIN b.indexes[t] = DOMAIN c.indexes[t]
                   /\ \A i \in DOMAIN c.indexes[t] : b.indexes[t][i] = c.indexes[t][i]
             /\ t \in DOMAIN c.indexes /\ t \notin DOMAIN b.indexes => DOMAIN c.indexes[t] = {}
  BY <1>1, BootstrapIndexes
<1> HIDE DEF b
<1>4. show_tables(c) = show_tables(b)
  BY <1>2 DEF show_tables
<1>5. show_indexes(c) = show_indexes(b)
  <2> DEFINE Shown(d) == [t \in DOMAIN d.indexes |->
                 {[table |-> t, name |-> i, column |-> d.indexes[t][i].column,
                   unique |-> d.indexes[t][i].unique] : i \in DOMAIN d.indexes[t]}]
  <2>1. \A x : x \in show_indexes(c) <=> \E t \in DOMAIN c.indexes : x \in Shown(c)[t]
    BY DEF show_indexes
  <2>2. \A x : x \in show_indexes(b) <=> \E t \in DOMAIN b.indexes : x \in Shown(b)[t]
    BY DEF show_indexes
  <2>3. \A t \in DOMAIN b.indexes : t \in DOMAIN c.indexes /\ Shown(b)[t] = Shown(c)[t]
    BY <1>3, ZenonT(60)
  <2>4. \A t \in DOMAIN c.indexes : t \notin DOMAIN b.indexes => Shown(c)[t] = {}
    BY <1>3
  <2> HIDE DEF Shown
  <2>5. QED
    BY <2>1, <2>2, <2>3, <2>4
<1>6. ASSUME NEW t \in DOMAIN c.roots PROVE IndexesOf(c, t) = IndexesOf(b, t)
  <2>1. CASE t \in DOMAIN b.indexes
    BY <1>3, <2>1 DEF IndexesOf, table_indexes
  <2>2. CASE t \notin DOMAIN b.indexes
    <3>1. IndexesOf(b, t) = {}
      BY <2>2 DEF IndexesOf, table_indexes
    <3>2. IndexesOf(c, t) = {}
      BY <1>3, <2>2 DEF IndexesOf, table_indexes
    <3>3. QED
      BY <3>1, <3>2
  <2>3. QED
    BY <2>1, <2>2
<1>7. QED
  BY <1>2, <1>4, <1>5, <1>6 DEF SameCatalog, b

-----------------------------------------------------------------------------
(* The statements that change the catalog *)

\* A run of records behind all others.
LEMMA InsertAllIs ==
    ASSUME NEW tree, SystemTree(tree), NEW key \in Nat, NEW len \in Nat, NEW recs, Len(recs) = len,
           \A id \in DOMAIN tree.live : id < key,
           NEW new, new = InsertAll(tree, key, recs)
    PROVE  /\ SystemTree(new)
           /\ DOMAIN new.live = DOMAIN tree.live \cup key..(key + len - 1)
           /\ \A id \in DOMAIN tree.live : new.live[id] = tree.live[id]
           /\ \A i \in 1..len : new.live[key + i - 1] = recs[i]
<1> DEFINE ids == key..(key + len - 1)
<1> DEFINE live == [id \in DOMAIN tree.live \cup ids |-> IF id \in ids THEN recs[id - key + 1] ELSE tree.live[id]]
<1>1. new = [tree EXCEPT !.live = live]
  BY Zenon DEF InsertAll
<1>2. DOMAIN new = {"live", "dead"} /\ new.live = live /\ new.dead = tree.dead
  BY <1>1 DEF SystemTree
<1>3. DOMAIN live = DOMAIN tree.live \cup ids
  OBVIOUS
<1>4. \A id \in DOMAIN tree.live : id \notin ids
  BY DEF SystemTree
<1>5. \A id \in DOMAIN tree.live : live[id] = tree.live[id]
  BY <1>4
<1>6. ASSUME NEW i \in 1..len PROVE live[key + i - 1] = recs[i]
  <2>1. key + i - 1 \in ids /\ (key + i - 1) - key + 1 = i
    OBVIOUS
  <2>2. QED
    BY <2>1
<1>7. IsFiniteSet(ids) /\ ids \subseteq Nat
  BY FS_Interval
<1> HIDE DEF live, ids
<1>8. IsFiniteSet(DOMAIN live) /\ DOMAIN live \subseteq Nat
  <2>1. IsFiniteSet(DOMAIN tree.live) /\ DOMAIN tree.live \subseteq Nat
    BY DEF SystemTree
  <2>2. QED
    BY <1>3, <1>7, <2>1, FS_Union
<1>9. SystemTree(new)
  BY <1>2, <1>8 DEF SystemTree
<1>10. QED
  BY <1>2, <1>3, <1>5, <1>6, <1>9 DEF ids

\* The records of the columns of a new table.
ColumnRecords(def) ==
    [i \in DOMAIN Renamed(def.columns, def.name) |->
        [table |-> def.name, col |-> Renamed(def.columns, def.name)[i]]]

\* What a successful CREATE TABLE does.
LEMMA CreateTableIs ==
    ASSUME IsStore(work), IsCatalog(cat), NEW def \in Tables, NEW out, out = create_table(def), out.res = "Ok"
    PROVE  /\ \E k \in Nat \ {0} :
                 /\ Renamed(def.columns, def.name) = [i \in 1..k |-> Renamed(def.columns, def.name)[i]]
                 /\ ColumnRecords(def) =
                       [i \in 1..k |-> [table |-> def.name, col |-> Renamed(def.columns, def.name)[i]]]
           /\ def.name \notin DOMAIN cat.roots
           /\ out.root = next_root + 1
           /\ DOMAIN out.store = DOMAIN work
           /\ out.store[SYS_ROOTS] =
                 InsertAll(work[SYS_ROOTS], cat.next_sys, <<[table |-> def.name, root |-> next_root]>>)
           /\ out.store[SYS_SCHEMAS] = InsertAll(work[SYS_SCHEMAS], cat.next_sys + 1, ColumnRecords(def))
           /\ out.store[SYS_INDEXES] = work[SYS_INDEXES]
           /\ IsCatalog(out.cat)
           /\ out.cat.roots = With(cat.roots, def.name, next_root)
           /\ out.cat.schemas = With(cat.schemas, def.name, Renamed(def.columns, def.name))
           /\ out.cat.indexes = cat.indexes
           /\ out.cat.next_sys = cat.next_sys + 1 + Len(ColumnRecords(def))
           /\ out.cat.next_row = With(cat.next_row, def.name, 1)
           /\ \A r \in 1..MaxRoot : r \notin SysRoots => out.store[r] = work[r]
<1> DEFINE schema == Renamed(def.columns, def.name)
<1> DEFINE columns == ColumnRecords(def)
<1> DEFINE root == <<[table |-> def.name, root |-> next_root]>>
<1> DEFINE k == Len(def.columns)
<1>1. k \in Nat \ {0} /\ DOMAIN def.columns = 1..k
  BY TablesAssumption
<1>2. schema = [i \in 1..k |-> [def.columns[i] EXCEPT !.table = def.name]]
  BY <1>1, Zenon DEF Renamed
<1> HIDE DEF k
<1>3. DOMAIN schema = 1..k /\ schema = [i \in 1..k |-> schema[i]]
  <2> DEFINE f(i) == [def.columns[i] EXCEPT !.table = def.name]
  <2>1. schema = [i \in 1..k |-> f(i)]
    BY <1>2, Zenon
  <2> HIDE DEF f, schema
  <2>2. QED
    BY <2>1
<1> HIDE DEF schema
<1>4. columns = [i \in 1..k |-> [table |-> def.name, col |-> schema[i]]]
  <2>1. columns = [i \in DOMAIN schema |-> [table |-> def.name, col |-> schema[i]]]
    BY Zenon DEF ColumnRecords, schema
  <2>2. QED
    BY <1>3, <2>1
<1>5. def.name \notin DOMAIN cat.roots
  <2>1. CASE def.name \in DOMAIN cat.roots
    <3>1. out = Outcome("Exec", work, cat)
      BY <2>1, Zenon DEF create_table
    <3>2. QED
      BY <3>1 DEF Outcome
  <2>2. QED
    BY <2>1
<1> DEFINE s == [work EXCEPT ![SYS_ROOTS]   = InsertAll(@, cat.next_sys, root),
                             ![SYS_SCHEMAS] = InsertAll(@, cat.next_sys + 1, columns)]
<1> DEFINE c == [cat EXCEPT !.roots    = With(@, def.name, next_root),
                            !.schemas  = With(@, def.name, schema),
                            !.next_row = With(@, def.name, 1),
                            !.next_sys = @ + 1 + Len(columns)]
<1>6. out = [Outcome("Ok", s, c) EXCEPT !.root = next_root + 1]
  BY <1>5, Zenon DEF create_table, schema, ColumnRecords
<1> HIDE DEF columns, root
<1>7. /\ DOMAIN s = DOMAIN work
      /\ s[SYS_ROOTS] = InsertAll(work[SYS_ROOTS], cat.next_sys, root)
      /\ s[SYS_SCHEMAS] = InsertAll(work[SYS_SCHEMAS], cat.next_sys + 1, columns)
      /\ s[SYS_INDEXES] = work[SYS_INDEXES]
      /\ \A r \in 1..MaxRoot : r \notin SysRoots => s[r] = work[r]
  BY BoundsAssumption DEF IsStore, SysRoots, SYS_ROOTS, SYS_SCHEMAS, SYS_INDEXES
<1>8. /\ IsCatalog(c)
      /\ c.roots = With(cat.roots, def.name, next_root)
      /\ c.schemas = With(cat.schemas, def.name, schema)
      /\ c.indexes = cat.indexes
      /\ c.next_sys = cat.next_sys + 1 + Len(columns)
      /\ c.next_row = With(cat.next_row, def.name, 1)
  BY DEF IsCatalog
<1> HIDE DEF s, c
<1>9. out.store = s /\ out.cat = c /\ out.root = next_root + 1
  BY <1>6 DEF Outcome
<1>10. QED
  BY <1>1, <1>3, <1>4, <1>5, <1>7, <1>8, <1>9 DEF root, schema, columns

\* A larger allocator does not matter to the roots in use.
LEMMA RootsDistinctLater ==
    ASSUME NEW c, NEW n \in Nat, RootsDistinct(c, n)
    PROVE  RootsDistinct(c, n + 1)
<1>1. \A r \in 4..(n - 1) : r \in 4..((n + 1) - 1)
  OBVIOUS
<1>2. QED
  BY <1>1 DEF RootsDistinct

\* The indexes stay described when their map and their records stay and no
\* table goes.
LEMMA IndexesAgreeLater ==
    ASSUME NEW c, NEW d, NEW s, NEW u, IndexesAgree(c, s),
           u[SYS_INDEXES] = s[SYS_INDEXES], d.indexes = c.indexes,
           \A t \in DOMAIN c.roots : t \in DOMAIN d.roots
    PROVE  IndexesAgree(d, u)
<1>1. \A rec : IndexKnown(c, rec) => IndexKnown(d, rec)
  BY DEF IndexKnown
<1>2. /\ \A id \in DOMAIN s[SYS_INDEXES].live : IndexKnown(c, s[SYS_INDEXES].live[id])
      /\ \A t \in DOMAIN c.indexes : \A n \in DOMAIN c.indexes[t] :
            IndexIds(s[SYS_INDEXES].live, t, n) # {}
  BY DEF IndexesAgree
<1>3. QED
  BY <1>1, <1>2 DEF IndexesAgree

\* What it takes for the roots to agree with their records.
LEMMA RootsAgreeFrom ==
    ASSUME NEW c, NEW s, NEW roots, roots = c.roots, NEW live, live = s[SYS_ROOTS].live,
           roots = [t \in DOMAIN roots |-> roots[t]],
           \A id \in DOMAIN live : live[id].table \in DOMAIN roots /\ roots[live[id].table] = live[id].root,
           \A t \in DOMAIN roots : IdsOf(live, t) # {}
    PROVE  RootsAgree(c, s)
BY DEF RootsAgree

\* A new table has one root, which is nobody's, and one block of columns.
LEMMA CreateTableDescribes ==
    ASSUME next_root \in Nat, next_root >= 4, Describes(work, cat, next_root), SysFresh(cat, work),
           NEW def \in Tables, NEW out, out = create_table(def), out.res = "Ok"
    PROVE  /\ out.root = next_root + 1
           /\ Describes(out.store, out.cat, next_root + 1)
           /\ SysFresh(out.cat, out.store)
<1> DEFINE schema == Renamed(def.columns, def.name)
<1> DEFINE columns == ColumnRecords(def)
<1> DEFINE root == <<[table |-> def.name, root |-> next_root]>>
<1> DEFINE key == cat.next_sys
<1>1. /\ IsStore(work) /\ IsCatalog(cat)
      /\ RootsAgree(cat, work) /\ SchemasAgree(cat, work) /\ IndexesAgree(cat, work)
      /\ RootsDistinct(cat, next_root)
  BY DEF Describes
<1>2. PICK k \in Nat \ {0} :
         /\ schema = [i \in 1..k |-> schema[i]]
         /\ columns = [i \in 1..k |-> [table |-> def.name, col |-> schema[i]]]
  BY <1>1, CreateTableIs
<1>3. /\ def.name \notin DOMAIN cat.roots
      /\ out.root = next_root + 1
      /\ DOMAIN out.store = DOMAIN work
      /\ out.store[SYS_ROOTS] = InsertAll(work[SYS_ROOTS], key, root)
      /\ out.store[SYS_SCHEMAS] = InsertAll(work[SYS_SCHEMAS], key + 1, columns)
      /\ out.store[SYS_INDEXES] = work[SYS_INDEXES]
      /\ IsCatalog(out.cat)
      /\ out.cat.roots = With(cat.roots, def.name, next_root)
      /\ out.cat.schemas = With(cat.schemas, def.name, schema)
      /\ out.cat.indexes = cat.indexes
      /\ out.cat.next_sys = key + 1 + Len(columns)
  BY <1>1, CreateTableIs
<1>4. Len(columns) = k
  BY <1>2
<1>5. Len(root) = 1 /\ root[1] = [table |-> def.name, root |-> next_root]
  OBVIOUS
<1>6. /\ key \in Nat
      /\ \A r \in SysRoots : SystemTree(work[r]) /\ \A id \in DOMAIN work[r].live : id \in Nat /\ id < key
  BY <1>1 DEF SysFresh, IsStore, SystemTree
<1>7. {SYS_ROOTS, SYS_SCHEMAS, SYS_INDEXES} \subseteq SysRoots
  BY DEF SysRoots
<1> HIDE DEF schema, columns, root, key
<1>8. /\ SystemTree(out.store[SYS_ROOTS])
      /\ DOMAIN out.store[SYS_ROOTS].live = DOMAIN work[SYS_ROOTS].live \cup {key}
      /\ \A id \in DOMAIN work[SYS_ROOTS].live :
            out.store[SYS_ROOTS].live[id] = work[SYS_ROOTS].live[id]
      /\ out.store[SYS_ROOTS].live[key] = [table |-> def.name, root |-> next_root]
  <2> DEFINE new == out.store[SYS_ROOTS]
  <2> DEFINE len == Len(root)
  <2> HIDE DEF new, len
  <2>1. /\ SystemTree(new)
        /\ DOMAIN new.live = DOMAIN work[SYS_ROOTS].live \cup key..(key + len - 1)
        /\ \A id \in DOMAIN work[SYS_ROOTS].live : new.live[id] = work[SYS_ROOTS].live[id]
        /\ \A i \in 1..len : new.live[key + i - 1] = root[i]
    <3>1. Len(root) = len /\ len \in Nat
      BY <1>5 DEF len
    <3>2. new = InsertAll(work[SYS_ROOTS], key, root)
      BY <1>3 DEF new
    <3>3. QED
      BY <1>6, <1>7, <3>1, <3>2, InsertAllIs
  <2>2. key..(key + len - 1) = {key} /\ key + 1 - 1 = key /\ 1 \in 1..len
    BY <1>5, <1>6 DEF len
  <2>3. new.live[key] = root[1]
    BY <2>1, <2>2
  <2>4. QED
    BY <1>5, <2>1, <2>2, <2>3 DEF new
<1>9. /\ SystemTree(out.store[SYS_SCHEMAS])
      /\ DOMAIN out.store[SYS_SCHEMAS].live = DOMAIN work[SYS_SCHEMAS].live \cup (key + 1)..(key + k)
      /\ \A id \in DOMAIN work[SYS_SCHEMAS].live :
            out.store[SYS_SCHEMAS].live[id] = work[SYS_SCHEMAS].live[id]
      /\ \A i \in 1..k : /\ out.store[SYS_SCHEMAS].live[key + i].table = def.name
                         /\ out.store[SYS_SCHEMAS].live[key + i].col = schema[i]
  <2> DEFINE new == out.store[SYS_SCHEMAS]
  <2>1. \A id \in DOMAIN work[SYS_SCHEMAS].live : id < key + 1
    BY <1>6, <1>7
  <2>2. /\ SystemTree(new)
        /\ DOMAIN new.live = DOMAIN work[SYS_SCHEMAS].live \cup (key + 1)..((key + 1) + k - 1)
        /\ \A id \in DOMAIN work[SYS_SCHEMAS].live : new.live[id] = work[SYS_SCHEMAS].live[id]
        /\ \A i \in 1..k : new.live[(key + 1) + i - 1] = columns[i]
    <3>1. key + 1 \in Nat
      BY <1>6
    <3>2. QED
      BY <1>3, <1>4, <1>6, <1>7, <2>1, <3>1, InsertAllIs, SMTT(30)
  <2>3. (key + 1) + k - 1 = key + k /\ \A i \in 1..k : (key + 1) + i - 1 = key + i
    BY <1>6
  <2> HIDE DEF new
  <2>4. \A i \in 1..k : new.live[key + i] = columns[i]
    BY <2>2, <2>3
  <2>5. QED
    BY <1>2, <2>2, <2>3, <2>4 DEF new
<1>10. IsStore(out.store)
  BY <1>1, <1>3, <1>8, <1>9 DEF IsStore, SysRoots

<1>11. /\ DOMAIN out.cat.roots = DOMAIN cat.roots \cup {def.name}
       /\ out.cat.roots = [t \in DOMAIN out.cat.roots |-> out.cat.roots[t]]
       /\ out.cat.roots[def.name] = next_root
       /\ \A t \in DOMAIN cat.roots : t # def.name /\ out.cat.roots[t] = cat.roots[t]
  <2> DEFINE new == With(cat.roots, def.name, next_root)
  <2>1. /\ DOMAIN new = DOMAIN cat.roots \cup {def.name} /\ new[def.name] = next_root
        /\ \A t \in DOMAIN cat.roots : t # def.name => new[t] = cat.roots[t]
    BY DEF With
  <2>2. new = [t \in DOMAIN new |-> new[t]]
    BY DEF With
  <2> HIDE DEF new
  <2>3. out.cat.roots = new
    BY <1>3 DEF new
  <2>4. QED
    BY <1>3, <2>1, <2>2, <2>3
<1>12. /\ DOMAIN cat.schemas = DOMAIN cat.roots
       /\ DOMAIN out.cat.schemas = DOMAIN cat.roots \cup {def.name}
       /\ out.cat.schemas = [t \in DOMAIN out.cat.schemas |-> out.cat.schemas[t]]
       /\ out.cat.schemas[def.name] = schema
       /\ \A t \in DOMAIN cat.roots : out.cat.schemas[t] = cat.schemas[t]
  <2>1. DOMAIN cat.schemas = DOMAIN cat.roots
    BY <1>1 DEF SchemasAgree
  <2> DEFINE new == With(cat.schemas, def.name, schema)
  <2>2. /\ DOMAIN new = DOMAIN cat.schemas \cup {def.name} /\ new[def.name] = schema
        /\ \A t \in DOMAIN cat.schemas : t # def.name => new[t] = cat.schemas[t]
    BY DEF With
  <2>3. new = [t \in DOMAIN new |-> new[t]]
    BY DEF With
  <2> HIDE DEF new
  <2>4. out.cat.schemas = new
    BY <1>3 DEF new
  <2>5. QED
    BY <1>3, <2>1, <2>2, <2>3, <2>4
<1>13. RootsAgree(out.cat, out.store)
  <2>1. \A t \in DOMAIN cat.roots : IdsOf(out.store[SYS_ROOTS].live, t) # {}
    BY <1>1, <1>8 DEF RootsAgree, IdsOf
  <2>2. IdsOf(out.store[SYS_ROOTS].live, def.name) # {}
    BY <1>8 DEF IdsOf
  <2>3. ASSUME NEW id \in DOMAIN out.store[SYS_ROOTS].live
        PROVE  /\ out.store[SYS_ROOTS].live[id].table \in DOMAIN out.cat.roots
               /\ out.cat.roots[out.store[SYS_ROOTS].live[id].table] = out.store[SYS_ROOTS].live[id].root
    <3>1. CASE id \in DOMAIN work[SYS_ROOTS].live
      <4> DEFINE rec == work[SYS_ROOTS].live[id]
      <4>1. rec.table \in DOMAIN cat.roots /\ cat.roots[rec.table] = rec.root
        BY <1>1, <3>1 DEF RootsAgree
      <4>2. out.store[SYS_ROOTS].live[id] = rec
        BY <1>8, <3>1
      <4> HIDE DEF rec
      <4>3. rec.table \in DOMAIN out.cat.roots /\ out.cat.roots[rec.table] = cat.roots[rec.table]
        BY <1>11, <4>1
      <4>4. QED
        BY <4>1, <4>2, <4>3
    <3>2. CASE id = key
      BY <1>8, <1>11, <3>2, SMTT(30)
    <3>3. QED
      BY <1>8, <3>1, <3>2
  <2>4. \A t \in DOMAIN out.cat.roots : IdsOf(out.store[SYS_ROOTS].live, t) # {}
    BY <1>11, <2>1, <2>2
  <2>5. QED
    BY <1>11, <2>3, <2>4, RootsAgreeFrom, SMTT(30)
<1>14. SchemasAgree(out.cat, out.store)
  <2>1. \A id \in DOMAIN work[SYS_SCHEMAS].live : work[SYS_SCHEMAS].live[id].table # def.name
    BY <1>1, <1>3 DEF SchemasAgree
  <2>2. \A id \in (key + 1)..(key + k) :
           id \in DOMAIN out.store[SYS_SCHEMAS].live /\ out.store[SYS_SCHEMAS].live[id].table = def.name
    <3>1. ASSUME NEW id \in (key + 1)..(key + k) PROVE out.store[SYS_SCHEMAS].live[id].table = def.name
      <4>1. PICK i \in 1..k : id = key + i
        <5>1. id - key \in 1..k /\ id = key + (id - key)
          BY <1>6
        <5>2. QED
          BY <5>1
      <4>2. out.store[SYS_SCHEMAS].live[key + i].table = def.name
        BY <1>9
      <4>3. QED
        BY <4>1, <4>2, Zenon
    <3>2. QED
      BY <1>9, <3>1
  <2>3. IdsOf(out.store[SYS_SCHEMAS].live, def.name) = (key + 1)..(key + k)
    BY <1>9, <2>1, <2>2 DEF IdsOf
  <2>4. SchemaAt(schema, out.store[SYS_SCHEMAS].live, def.name, key, k)
    BY <1>2, <1>9, <2>3 DEF SchemaAt
  <2>5. ASSUME NEW t \in DOMAIN cat.roots
        PROVE  \E b \in Nat, j \in Nat \ {0} : SchemaAt(cat.schemas[t], out.store[SYS_SCHEMAS].live, t, b, j)
    <3>1. PICK b \in Nat, j \in Nat \ {0} : SchemaAt(cat.schemas[t], work[SYS_SCHEMAS].live, t, b, j)
      BY <1>1 DEF SchemasAgree
    <3>2. IdsOf(out.store[SYS_SCHEMAS].live, t) = IdsOf(work[SYS_SCHEMAS].live, t)
      BY <1>9, <1>11, <2>2 DEF IdsOf
    <3>3. \A i \in 1..j : b + i \in IdsOf(work[SYS_SCHEMAS].live, t)
      BY <3>1 DEF SchemaAt
    <3>4. \A i \in 1..j : out.store[SYS_SCHEMAS].live[b + i] = work[SYS_SCHEMAS].live[b + i]
      BY <1>9, <3>3 DEF IdsOf
    <3>5. SchemaAt(cat.schemas[t], out.store[SYS_SCHEMAS].live, t, b, j)
      BY <3>1, <3>2, <3>4 DEF SchemaAt
    <3>6. QED
      BY <3>5
  <2>6. ASSUME NEW id \in DOMAIN out.store[SYS_SCHEMAS].live
        PROVE  out.store[SYS_SCHEMAS].live[id].table \in DOMAIN out.cat.roots
    <3>1. CASE id \in DOMAIN work[SYS_SCHEMAS].live
      BY <1>1, <1>9, <1>11, <3>1 DEF SchemasAgree
    <3>2. CASE id \notin DOMAIN work[SYS_SCHEMAS].live
      BY <1>9, <1>11, <2>2, <3>2
    <3>3. QED
      BY <3>1, <3>2
  <2>7. ASSUME NEW t \in DOMAIN out.cat.roots
        PROVE  \E b \in Nat, j \in Nat \ {0} :
                  SchemaAt(out.cat.schemas[t], out.store[SYS_SCHEMAS].live, t, b, j)
    <3>1. CASE t = def.name
      <4>1. key \in Nat
        BY <1>6
      <4>2. QED
        BY <1>12, <2>4, <3>1, <4>1
    <3>2. CASE t # def.name
      BY <1>11, <1>12, <2>5, <3>2
    <3>3. QED
      BY <3>1, <3>2
  <2>8. out.cat.schemas = [t \in DOMAIN out.cat.roots |-> out.cat.schemas[t]]
    BY <1>11, <1>12
  <2>9. QED
    BY <2>6, <2>7, <2>8 DEF SchemasAgree
<1>15. IndexesAgree(out.cat, out.store)
  <2>1. \A t \in DOMAIN cat.roots : t \in DOMAIN out.cat.roots
    BY <1>11
  <2>2. QED
    BY <1>1, <1>3, <2>1, IndexesAgreeLater
<1>16. RootsDistinct(out.cat, next_root + 1)
  <2>1. \A r \in 4..(next_root - 1) : r # next_root /\ r \in 4..((next_root + 1) - 1)
    OBVIOUS
  <2>2. next_root \in 4..((next_root + 1) - 1)
    OBVIOUS
  <2>3. RootsDistinct(cat, next_root)
    BY <1>1
  <2>4. QED
    BY <1>3, <1>11, <2>1, <2>2, <2>3 DEF RootsDistinct
<1>17. SysFresh(out.cat, out.store)
  <2>1. out.cat.next_sys = key + 1 + k
    BY <1>3, <1>4
  <2>2. \A id \in DOMAIN out.store[SYS_ROOTS].live : id < out.cat.next_sys
    BY <1>6, <1>7, <1>8, <2>1
  <2>3. \A id \in DOMAIN out.store[SYS_SCHEMAS].live : id < out.cat.next_sys
    BY <1>6, <1>7, <1>9, <2>1
  <2>4. \A id \in DOMAIN out.store[SYS_INDEXES].live : id < out.cat.next_sys
    BY <1>3, <1>6, <1>7, <2>1
  <2>5. out.cat.next_sys \in Nat
    BY <1>6, <2>1
  <2>6. QED
    BY <2>2, <2>3, <2>4, <2>5 DEF SysFresh, SysRoots
<1>18. QED
  BY <1>3, <1>10, <1>13, <1>14, <1>15, <1>16, <1>17 DEF Describes

\* What a successful DROP TABLE does.
LEMMA DropTableIs ==
    ASSUME IsStore(work), IsCatalog(cat), NEW table, NEW out, out = drop_table(table), out.res = "Ok"
    PROVE  /\ table \in DOMAIN cat.roots
           /\ out.root = next_root
           /\ DOMAIN out.store = DOMAIN work
           /\ \A r \in SysRoots :
                 /\ SystemTree(out.store[r])
                 /\ DOMAIN out.store[r].live = DOMAIN work[r].live \ IdsOf(work[r].live, table)
                 /\ \A id \in DOMAIN out.store[r].live : out.store[r].live[id] = work[r].live[id]
           /\ IsCatalog(out.cat)
           /\ out.cat.roots = Without(cat.roots, table)
           /\ out.cat.schemas = Without(cat.schemas, table)
           /\ out.cat.indexes = Without(cat.indexes, table)
           /\ out.cat.next_sys = cat.next_sys /\ out.cat.next_row = cat.next_row
           /\ \A r \in 1..MaxRoot : r \notin SysRoots => out.store[r] = work[r]
<1> DEFINE Deleted(tree) ==
        [live |-> [id \in DOMAIN tree.live \ IdsOf(tree.live, table) |-> tree.live[id]],
         dead |-> tree.dead \cup IdsOf(tree.live, table)]
<1> DEFINE s == [r \in DOMAIN work |-> IF r \in SysRoots THEN Deleted(work[r]) ELSE work[r]]
<1> DEFINE c == [cat EXCEPT !.roots   = Without(@, table),
                            !.schemas = Without(@, table),
                            !.indexes = Without(@, table)]
<1>1. table \in DOMAIN cat.roots
  <2>1. CASE table \notin DOMAIN cat.roots
    <3>1. out = Outcome("Exec", work, cat)
      BY <2>1, Zenon DEF drop_table
    <3>2. QED
      BY <3>1 DEF Outcome
  <2>2. QED
    BY <2>1
<1>2. out = Outcome("Ok", s, c)
  BY <1>1, Zenon DEF drop_table, IdsOf
<1>3. /\ IsCatalog(c)
      /\ c.roots = Without(cat.roots, table) /\ c.schemas = Without(cat.schemas, table)
      /\ c.indexes = Without(cat.indexes, table) /\ c.next_sys = cat.next_sys
      /\ c.next_row = cat.next_row
  BY DEF IsCatalog
<1>4. ASSUME NEW tree, SystemTree(tree)
      PROVE  /\ SystemTree(Deleted(tree))
             /\ DOMAIN Deleted(tree).live = DOMAIN tree.live \ IdsOf(tree.live, table)
             /\ \A id \in DOMAIN Deleted(tree).live : Deleted(tree).live[id] = tree.live[id]
  <2> DEFINE ids == IdsOf(tree.live, table)
  <2> DEFINE live == [id \in DOMAIN tree.live \ ids |-> tree.live[id]]
  <2>1. /\ DOMAIN tree.live \subseteq Nat /\ IsFiniteSet(DOMAIN tree.live)
        /\ tree.dead \subseteq Nat /\ IsFiniteSet(tree.dead)
    BY <1>4 DEF SystemTree
  <2>2. IsFiniteSet(ids) /\ ids \in SUBSET Nat
    BY <2>1, IdsFinite
  <2> HIDE DEF ids
  <2>3. DOMAIN live = DOMAIN tree.live \ ids /\ \A id \in DOMAIN live : live[id] = tree.live[id]
    OBVIOUS
  <2>4. Deleted(tree) = [live |-> live, dead |-> tree.dead \cup ids]
    BY Zenon DEF ids
  <2> HIDE DEF live, Deleted
  <2>5. IsFiniteSet(DOMAIN live)
    BY <2>1, <2>3, FS_Subset
  <2>6. IsFiniteSet(tree.dead \cup ids)
    BY <2>1, <2>2, FS_Union
  <2>7. SystemTree(Deleted(tree))
    <3>1. /\ DOMAIN Deleted(tree) = {"live", "dead"}
          /\ Deleted(tree).live = live /\ Deleted(tree).dead = tree.dead \cup ids
      BY <2>4
    <3>2. DOMAIN live \subseteq Nat /\ tree.dead \cup ids \subseteq Nat
      BY <2>1, <2>2, <2>3
    <3>3. QED
      BY <2>5, <2>6, <3>1, <3>2, Zenon DEF SystemTree
  <2>8. QED
    BY <2>3, <2>4, <2>7 DEF ids
<1>5. /\ DOMAIN s = DOMAIN work /\ \A r \in SysRoots : s[r] = Deleted(work[r])
      /\ \A r \in 1..MaxRoot : r \notin SysRoots => s[r] = work[r]
  <2>1. SysRoots \subseteq DOMAIN work
    BY BoundsAssumption DEF IsStore, SysRoots, SYS_ROOTS, SYS_SCHEMAS, SYS_INDEXES
  <2>2. DOMAIN work = 1..MaxRoot
    BY DEF IsStore
  <2> HIDE DEF Deleted
  <2>3. QED
    BY <2>1, <2>2
<1>6. \A r \in SysRoots : SystemTree(work[r])
  BY DEF IsStore
<1> HIDE DEF s, c, Deleted
<1>7. out.store = s /\ out.cat = c /\ out.root = next_root
  BY <1>2 DEF Outcome
<1>8. QED
  BY <1>1, <1>3, <1>4, <1>5, <1>6, <1>7

\* A table goes with everything the system tables say of it.
LEMMA DropTableDescribes ==
    ASSUME Describes(work, cat, next_root), SysFresh(cat, work),
           NEW table, NEW out, out = drop_table(table), out.res = "Ok"
    PROVE  /\ out.root = next_root
           /\ Describes(out.store, out.cat, next_root)
           /\ SysFresh(out.cat, out.store)
<1>1. /\ IsStore(work) /\ IsCatalog(cat)
      /\ RootsAgree(cat, work) /\ SchemasAgree(cat, work) /\ IndexesAgree(cat, work)
      /\ RootsDistinct(cat, next_root)
  BY DEF Describes
<1>2. /\ table \in DOMAIN cat.roots
      /\ out.root = next_root
      /\ DOMAIN out.store = DOMAIN work
      /\ IsCatalog(out.cat)
      /\ out.cat.roots = Without(cat.roots, table)
      /\ out.cat.schemas = Without(cat.schemas, table)
      /\ out.cat.indexes = Without(cat.indexes, table)
      /\ out.cat.next_sys = cat.next_sys
  BY <1>1, DropTableIs
<1>3. \A r \in SysRoots :
         /\ SystemTree(out.store[r])
         /\ DOMAIN out.store[r].live = DOMAIN work[r].live \ IdsOf(work[r].live, table)
         /\ \A id \in DOMAIN out.store[r].live : out.store[r].live[id] = work[r].live[id]
  BY <1>1, DropTableIs
<1>4. SYS_ROOTS \in SysRoots /\ SYS_SCHEMAS \in SysRoots /\ SYS_INDEXES \in SysRoots
  BY DEF SysRoots
<1>5. IsStore(out.store)
  BY <1>1, <1>2, <1>3 DEF IsStore
<1>6. /\ DOMAIN out.cat.roots = DOMAIN cat.roots \ {table}
      /\ out.cat.roots = [t \in DOMAIN out.cat.roots |-> out.cat.roots[t]]
      /\ \A t \in DOMAIN out.cat.roots : out.cat.roots[t] = cat.roots[t]
  <2> DEFINE new == Without(cat.roots, table)
  <2>1. /\ DOMAIN new = DOMAIN cat.roots \ {table} /\ new = [t \in DOMAIN new |-> new[t]]
        /\ \A t \in DOMAIN new : new[t] = cat.roots[t]
    BY DEF Without
  <2> HIDE DEF new
  <2>2. out.cat.roots = new
    BY <1>2 DEF new
  <2>3. QED
    BY <2>1, <2>2
<1>7. /\ out.cat.schemas = [t \in DOMAIN out.cat.roots |-> out.cat.schemas[t]]
      /\ \A t \in DOMAIN out.cat.roots : out.cat.schemas[t] = cat.schemas[t]
  <2> DEFINE new == Without(cat.schemas, table)
  <2>1. DOMAIN cat.schemas = DOMAIN cat.roots
    BY <1>1 DEF SchemasAgree
  <2>2. /\ DOMAIN new = DOMAIN cat.schemas \ {table} /\ new = [t \in DOMAIN new |-> new[t]]
        /\ \A t \in DOMAIN new : new[t] = cat.schemas[t]
    BY DEF Without
  <2> HIDE DEF new
  <2>3. out.cat.schemas = new
    BY <1>2 DEF new
  <2>4. QED
    BY <1>6, <2>1, <2>2, <2>3
<1>8. /\ DOMAIN out.cat.indexes = DOMAIN cat.indexes \ {table}
      /\ \A t \in DOMAIN out.cat.indexes : out.cat.indexes[t] = cat.indexes[t]
  <2> DEFINE new == Without(cat.indexes, table)
  <2>1. DOMAIN new = DOMAIN cat.indexes \ {table} /\ \A t \in DOMAIN new : new[t] = cat.indexes[t]
    BY DEF Without
  <2> HIDE DEF new
  <2>2. out.cat.indexes = new
    BY <1>2 DEF new
  <2>3. QED
    BY <2>1, <2>2
<1>9. ASSUME NEW r \in SysRoots
      PROVE  /\ \A id \in DOMAIN out.store[r].live : /\ id \in DOMAIN work[r].live
                                                     /\ out.store[r].live[id] = work[r].live[id]
                                                     /\ work[r].live[id].table # table
             /\ \A t : t # table => IdsOf(out.store[r].live, t) = IdsOf(work[r].live, t)
  <2>1. \A id : id \in DOMAIN out.store[r].live
                   <=> id \in DOMAIN work[r].live /\ work[r].live[id].table # table
    BY <1>3 DEF IdsOf
  <2>2. \A id \in DOMAIN out.store[r].live : out.store[r].live[id] = work[r].live[id]
    BY <1>3
  <2>3. QED
    BY <2>1, <2>2 DEF IdsOf
<1>10. RootsAgree(out.cat, out.store)
  <2>1. ASSUME NEW id \in DOMAIN out.store[SYS_ROOTS].live
        PROVE  /\ out.store[SYS_ROOTS].live[id].table \in DOMAIN out.cat.roots
               /\ out.cat.roots[out.store[SYS_ROOTS].live[id].table] = out.store[SYS_ROOTS].live[id].root
    <3> DEFINE rec == work[SYS_ROOTS].live[id]
    <3>1. /\ id \in DOMAIN work[SYS_ROOTS].live
          /\ out.store[SYS_ROOTS].live[id] = rec /\ rec.table # table
      BY <1>4, <1>9
    <3>2. rec.table \in DOMAIN cat.roots /\ cat.roots[rec.table] = rec.root
      BY <1>1, <3>1 DEF RootsAgree
    <3> HIDE DEF rec
    <3>3. QED
      BY <1>6, <3>1, <3>2
  <2>2. ASSUME NEW t \in DOMAIN out.cat.roots
        PROVE  IdsOf(out.store[SYS_ROOTS].live, t) # {}
    <3>1. t # table /\ t \in DOMAIN cat.roots
      BY <1>6
    <3>2. IdsOf(work[SYS_ROOTS].live, t) # {}
      BY <1>1, <3>1 DEF RootsAgree
    <3>3. QED
      BY <1>4, <1>9, <3>1, <3>2
  <2>3. QED
    BY <1>6, <2>1, <2>2, RootsAgreeFrom
<1>11. SchemasAgree(out.cat, out.store)
  <2>1. ASSUME NEW t \in DOMAIN out.cat.roots
        PROVE  \E b \in Nat, k \in Nat \ {0} : SchemaAt(out.cat.schemas[t], out.store[SYS_SCHEMAS].live, t, b, k)
    <3>1. t \in DOMAIN cat.roots /\ t # table
      BY <1>6
    <3>2. PICK b \in Nat, k \in Nat \ {0} : SchemaAt(cat.schemas[t], work[SYS_SCHEMAS].live, t, b, k)
      BY <1>1, <3>1 DEF SchemasAgree
    <3>3. IdsOf(out.store[SYS_SCHEMAS].live, t) = IdsOf(work[SYS_SCHEMAS].live, t)
      BY <1>4, <1>9, <3>1
    <3>4. \A i \in 1..k : b + i \in IdsOf(out.store[SYS_SCHEMAS].live, t)
      BY <3>2, <3>3 DEF SchemaAt
    <3>5. \A i \in 1..k : out.store[SYS_SCHEMAS].live[b + i] = work[SYS_SCHEMAS].live[b + i]
      BY <1>4, <1>9, <3>4 DEF IdsOf
    <3>6. SchemaAt(cat.schemas[t], out.store[SYS_SCHEMAS].live, t, b, k)
      BY <3>2, <3>3, <3>5 DEF SchemaAt
    <3>7. QED
      BY <1>7, <3>6
  <2>2. \A id \in DOMAIN out.store[SYS_SCHEMAS].live :
           out.store[SYS_SCHEMAS].live[id].table \in DOMAIN out.cat.roots
    BY <1>1, <1>4, <1>6, <1>9 DEF SchemasAgree
  <2>3. QED
    BY <1>7, <2>1, <2>2 DEF SchemasAgree
<1>12. IndexesAgree(out.cat, out.store)
  <2>1. \A t, n : t # table => IndexIds(out.store[SYS_INDEXES].live, t, n) = IndexIds(work[SYS_INDEXES].live, t, n)
    BY <1>4, <1>9 DEF IndexIds, IdsOf
  <2>2. \A id \in DOMAIN out.store[SYS_INDEXES].live :
           /\ id \in DOMAIN work[SYS_INDEXES].live
           /\ out.store[SYS_INDEXES].live[id] = work[SYS_INDEXES].live[id]
           /\ work[SYS_INDEXES].live[id].table # table
    BY <1>4, <1>9
  <2>3. ASSUME NEW id \in DOMAIN out.store[SYS_INDEXES].live, NEW rec, rec = out.store[SYS_INDEXES].live[id]
        PROVE  IndexKnown(out.cat, rec)
    <3>1. id \in DOMAIN work[SYS_INDEXES].live /\ rec = work[SYS_INDEXES].live[id] /\ rec.table # table
      BY <2>2, <2>3
    <3>2. /\ rec.table \in DOMAIN cat.roots
          /\ rec.table \in DOMAIN cat.indexes
          /\ rec.name \in DOMAIN cat.indexes[rec.table]
          /\ cat.indexes[rec.table][rec.name] = rec
      BY <1>1, <3>1 DEF IndexesAgree, IndexKnown
    <3>3. QED
      BY <1>6, <1>8, <3>1, <3>2 DEF IndexKnown
  <2>4. ASSUME NEW t \in DOMAIN out.cat.indexes, NEW n \in DOMAIN out.cat.indexes[t]
        PROVE  IndexIds(out.store[SYS_INDEXES].live, t, n) # {}
    <3>1. t \in DOMAIN cat.indexes /\ t # table /\ n \in DOMAIN cat.indexes[t]
      BY <1>8
    <3>2. QED
      BY <1>1, <2>1, <3>1 DEF IndexesAgree, IndexKnown
  <2>5. QED
    BY <2>3, <2>4 DEF IndexesAgree
<1>13. RootsDistinct(out.cat, next_root)
  BY <1>1, <1>6, <1>8 DEF RootsDistinct
<1>14. SysFresh(out.cat, out.store)
  BY <1>2, <1>9 DEF SysFresh
<1>15. QED
  BY <1>2, <1>5, <1>10, <1>11, <1>12, <1>13, <1>14 DEF Describes

\* The record of a new index.
MetaOf(def) == [name |-> def.name, table |-> def.table, column |-> def.column,
                unique |-> def.unique, root |-> next_root]

\* What a successful CREATE INDEX does.
LEMMA CreateIndexIs ==
    ASSUME IsStore(work), IsCatalog(cat), NEW def, NEW out, out = create_index(def), out.res = "Ok"
    PROVE  /\ def.table \in DOMAIN cat.schemas
           /\ def.name \notin DOMAIN table_indexes(cat, def.table)
           /\ out.root = next_root + 1
           /\ DOMAIN out.store = DOMAIN work
           /\ out.store[SYS_ROOTS] = work[SYS_ROOTS]
           /\ out.store[SYS_SCHEMAS] = work[SYS_SCHEMAS]
           /\ out.store[SYS_INDEXES] = InsertAll(work[SYS_INDEXES], cat.next_sys, <<MetaOf(def)>>)
           /\ IsCatalog(out.cat)
           /\ out.cat.roots = cat.roots /\ out.cat.schemas = cat.schemas
           /\ out.cat.indexes =
                 With(cat.indexes, def.table, With(table_indexes(cat, def.table), def.name, MetaOf(def)))
           /\ out.cat.next_sys = cat.next_sys + 1 /\ out.cat.next_row = cat.next_row
           /\ \A r \in 1..MaxRoot : r \notin SysRoots => out.store[r] = work[r]
<1> DEFINE known == table_indexes(cat, def.table)
<1> DEFINE touched == [cat EXCEPT !.indexes = With(@, def.table, known)]
<1> DEFINE Absent == def.table \notin DOMAIN cat.schemas \/ get_col_idx(cat.schemas[def.table], def.column) = {}
<1> DEFINE Taken == def.name \in DOMAIN known \/ \E i \in DOMAIN known : known[i].column = def.column
<1> DEFINE s == [work EXCEPT ![SYS_INDEXES] = InsertAll(@, cat.next_sys, <<MetaOf(def)>>)]
<1> DEFINE c == [cat EXCEPT !.indexes  = With(@, def.table, With(known, def.name, MetaOf(def))),
                            !.next_sys = @ + 1]
<1>1. out = IF Absent THEN Outcome("Exec", work, cat)
            ELSE IF Taken THEN Outcome("Exec", work, touched)
            ELSE [Outcome("Ok", s, c) EXCEPT !.root = next_root + 1]
  BY Zenon DEF create_index, MetaOf
<1>2. /\ DOMAIN s = DOMAIN work
      /\ s[SYS_ROOTS] = work[SYS_ROOTS] /\ s[SYS_SCHEMAS] = work[SYS_SCHEMAS]
      /\ s[SYS_INDEXES] = InsertAll(work[SYS_INDEXES], cat.next_sys, <<MetaOf(def)>>)
      /\ \A r \in 1..MaxRoot : r \notin SysRoots => s[r] = work[r]
  BY BoundsAssumption DEF IsStore, SysRoots, SYS_ROOTS, SYS_SCHEMAS, SYS_INDEXES
<1>3. /\ IsCatalog(c)
      /\ c.roots = cat.roots /\ c.schemas = cat.schemas
      /\ c.indexes = With(cat.indexes, def.table, With(known, def.name, MetaOf(def)))
      /\ c.next_sys = cat.next_sys + 1 /\ c.next_row = cat.next_row
  BY DEF IsCatalog
<1> HIDE DEF s, c, touched
<1>4. ~Absent /\ ~Taken
  <2> HIDE DEF Absent, Taken
  <2>1. CASE Absent
    <3>1. out = Outcome("Exec", work, cat)
      BY <1>1, <2>1
    <3>2. QED
      BY <3>1 DEF Outcome
  <2>2. CASE ~Absent /\ Taken
    <3>1. out = Outcome("Exec", work, touched)
      BY <1>1, <2>2
    <3>2. QED
      BY <3>1 DEF Outcome
  <2>3. QED
    BY <2>1, <2>2
<1>5. out.store = s /\ out.cat = c /\ out.root = next_root + 1
  <2> HIDE DEF Absent, Taken
  <2>1. out = [Outcome("Ok", s, c) EXCEPT !.root = next_root + 1]
    BY <1>1, <1>4
  <2>2. QED
    BY <2>1 DEF Outcome
<1>6. QED
  BY <1>2, <1>3, <1>4, <1>5, Zenon

\* Two catalogs that differ in row counters and maps without indexes only.
SameMaps(c, d) ==
    /\ IsCatalog(d)
    /\ d.roots = c.roots /\ d.schemas = c.schemas /\ d.next_sys = c.next_sys
    /\ \A t \in DOMAIN c.indexes : t \in DOMAIN d.indexes /\ d.indexes[t] = c.indexes[t]
    /\ \A t \in DOMAIN d.indexes : t \notin DOMAIN c.indexes => DOMAIN d.indexes[t] = {}

\* A CREATE INDEX that fails may leave the table a map without indexes.
LEMMA CreateIndexFails ==
    ASSUME IsCatalog(cat), NEW def, NEW out, out = create_index(def), out.res # "Ok"
    PROVE  /\ out.root = next_root /\ out.res = "Exec"
           /\ SameMaps(cat, out.cat) /\ out.cat.next_row = cat.next_row
<1> DEFINE known == table_indexes(cat, def.table)
<1> DEFINE touched == [cat EXCEPT !.indexes = With(@, def.table, known)]
<1> DEFINE Absent == def.table \notin DOMAIN cat.schemas \/ get_col_idx(cat.schemas[def.table], def.column) = {}
<1> DEFINE Taken == def.name \in DOMAIN known \/ \E i \in DOMAIN known : known[i].column = def.column
<1> DEFINE s == [work EXCEPT ![SYS_INDEXES] = InsertAll(@, cat.next_sys, <<MetaOf(def)>>)]
<1> DEFINE c == [cat EXCEPT !.indexes  = With(@, def.table, With(known, def.name, MetaOf(def))),
                            !.next_sys = @ + 1]
<1>1. out = IF Absent THEN Outcome("Exec", work, cat)
            ELSE IF Taken THEN Outcome("Exec", work, touched)
            ELSE [Outcome("Ok", s, c) EXCEPT !.root = next_root + 1]
  BY Zenon DEF create_index, MetaOf
<1>2. /\ IsCatalog(touched)
      /\ touched.roots = cat.roots /\ touched.schemas = cat.schemas /\ touched.next_sys = cat.next_sys
      /\ touched.next_row = cat.next_row
      /\ touched.indexes = With(cat.indexes, def.table, known)
  BY DEF IsCatalog
<1> HIDE DEF s, c, touched, Absent, Taken
<1>3. \/ out = Outcome("Exec", work, cat)
      \/ out = Outcome("Exec", work, touched)
  <2>1. [Outcome("Ok", s, c) EXCEPT !.root = next_root + 1].res = "Ok"
    BY DEF Outcome
  <2>2. QED
    BY <1>1, <2>1
<1>4. out.root = next_root /\ out.res = "Exec" /\ (out.cat = cat \/ out.cat = touched)
  BY <1>3 DEF Outcome
<1>5. CASE out.cat = cat
  BY <1>4, <1>5 DEF SameMaps
<1>6. CASE out.cat = touched
  <2>1. \A t \in DOMAIN cat.indexes : t \in DOMAIN touched.indexes /\ touched.indexes[t] = cat.indexes[t]
    BY <1>2 DEF With, table_indexes
  <2>2. \A t \in DOMAIN touched.indexes : t \notin DOMAIN cat.indexes => DOMAIN touched.indexes[t] = {}
    <3>1. DOMAIN <<>> = {}
      OBVIOUS
    <3>2. QED
      BY <1>2, <3>1 DEF With, table_indexes
  <2>3. QED
    BY <1>2, <1>4, <1>6, <2>1, <2>2 DEF SameMaps
<1>7. QED
  BY <1>4, <1>5, <1>6

\* The system tables describe one as well as the other.
LEMMA SameMapsDescribes ==
    ASSUME NEW s, NEW c, NEW d, NEW n, Describes(s, c, n), SameMaps(c, d)
    PROVE  Describes(s, d, n) /\ (SysFresh(c, s) => SysFresh(d, s))
<1>1. /\ IsStore(s) /\ IsCatalog(c)
      /\ RootsAgree(c, s) /\ SchemasAgree(c, s) /\ IndexesAgree(c, s) /\ RootsDistinct(c, n)
  BY DEF Describes
<1>2. /\ IsCatalog(d)
      /\ d.roots = c.roots /\ d.schemas = c.schemas /\ d.next_sys = c.next_sys
      /\ \A t \in DOMAIN c.indexes : t \in DOMAIN d.indexes /\ d.indexes[t] = c.indexes[t]
      /\ \A t \in DOMAIN d.indexes : t \notin DOMAIN c.indexes => DOMAIN d.indexes[t] = {}
  BY DEF SameMaps
<1>3. RootsAgree(d, s)
  BY <1>1, <1>2 DEF RootsAgree
<1>4. SchemasAgree(d, s)
  BY <1>1, <1>2 DEF SchemasAgree
<1>5. \A t \in DOMAIN d.indexes : \A i \in DOMAIN d.indexes[t] :
         t \in DOMAIN c.indexes /\ d.indexes[t] = c.indexes[t] /\ i \in DOMAIN c.indexes[t]
  BY <1>2
<1>6. IndexesAgree(d, s)
  <2>1. \A id \in DOMAIN s[SYS_INDEXES].live : IndexKnown(d, s[SYS_INDEXES].live[id])
    BY <1>1, <1>2, ZenonT(60) DEF IndexesAgree, IndexKnown
  <2>2. \A t \in DOMAIN d.indexes : \A i \in DOMAIN d.indexes[t] :
           IndexIds(s[SYS_INDEXES].live, t, i) # {}
    BY <1>1, <1>5 DEF IndexesAgree
  <2>3. QED
    BY <2>1, <2>2 DEF IndexesAgree
<1>7. RootsDistinct(d, n)
  BY <1>1, <1>2, <1>5 DEF RootsDistinct
<1>8. SysFresh(c, s) => SysFresh(d, s)
  BY <1>2 DEF SysFresh
<1>9. QED
  BY <1>1, <1>2, <1>3, <1>4, <1>6, <1>7, <1>8 DEF Describes

\* A new index has a name of its own and a root that is nobody's.
LEMMA CreateIndexDescribes ==
    ASSUME next_root \in Nat, next_root >= 4, Describes(work, cat, next_root), SysFresh(cat, work),
           NEW def, NEW out, out = create_index(def), out.res = "Ok"
    PROVE  /\ out.root = next_root + 1
           /\ Describes(out.store, out.cat, next_root + 1)
           /\ SysFresh(out.cat, out.store)
<1> DEFINE meta == MetaOf(def)
<1> DEFINE known == table_indexes(cat, def.table)
<1> DEFINE key == cat.next_sys
<1>1. /\ IsStore(work) /\ IsCatalog(cat)
      /\ RootsAgree(cat, work) /\ SchemasAgree(cat, work) /\ IndexesAgree(cat, work)
      /\ RootsDistinct(cat, next_root)
  BY DEF Describes
<1>2. /\ def.table \in DOMAIN cat.schemas
      /\ def.name \notin DOMAIN known
      /\ out.root = next_root + 1
      /\ DOMAIN out.store = DOMAIN work
      /\ out.store[SYS_ROOTS] = work[SYS_ROOTS] /\ out.store[SYS_SCHEMAS] = work[SYS_SCHEMAS]
      /\ out.store[SYS_INDEXES] = InsertAll(work[SYS_INDEXES], key, <<meta>>)
      /\ IsCatalog(out.cat)
      /\ out.cat.roots = cat.roots /\ out.cat.schemas = cat.schemas
      /\ out.cat.indexes = With(cat.indexes, def.table, With(known, def.name, meta))
      /\ out.cat.next_sys = key + 1
  BY <1>1, CreateIndexIs
<1>3. /\ meta.name = def.name /\ meta.table = def.table /\ meta.root = next_root
      /\ DOMAIN known \subseteq DOMAIN table_indexes(cat, def.table)
  BY DEF MetaOf
<1>4. /\ key \in Nat
      /\ \A r \in SysRoots : SystemTree(work[r]) /\ \A id \in DOMAIN work[r].live : id \in Nat /\ id < key
  BY <1>1 DEF SysFresh, IsStore, SystemTree
<1>5. {SYS_ROOTS, SYS_SCHEMAS, SYS_INDEXES} \subseteq SysRoots
  BY DEF SysRoots
<1>6. def.table \in DOMAIN cat.roots
  BY <1>1, <1>2 DEF SchemasAgree
<1> DEFINE X == work[SYS_INDEXES].live
<1> DEFINE Y == out.store[SYS_INDEXES].live
<1> DEFINE now == With(known, def.name, meta)
<1>7. /\ DOMAIN now = DOMAIN known \cup {def.name}
      /\ now[def.name] = meta
      /\ \A i \in DOMAIN known : now[i] = known[i]
  BY <1>2 DEF With
<1>8. /\ DOMAIN out.cat.indexes = DOMAIN cat.indexes \cup {def.table}
      /\ out.cat.indexes[def.table] = now
      /\ \A t \in DOMAIN cat.indexes : t # def.table => out.cat.indexes[t] = cat.indexes[t]
  <2> DEFINE new == With(cat.indexes, def.table, now)
  <2> HIDE DEF now
  <2>1. /\ DOMAIN new = DOMAIN cat.indexes \cup {def.table}
        /\ new[def.table] = now
        /\ \A t \in DOMAIN cat.indexes : t # def.table => new[t] = cat.indexes[t]
    BY DEF With
  <2>2. out.cat.indexes = new
    BY <1>2 DEF now
  <2>3. QED
    BY <2>1, <2>2, Zenon
<1>9. /\ def.table \in DOMAIN cat.indexes => known = cat.indexes[def.table]
      /\ def.table \notin DOMAIN cat.indexes => DOMAIN known = {}
  <2>1. DOMAIN <<>> = {}
    OBVIOUS
  <2>2. QED
    BY <2>1 DEF table_indexes
<1> HIDE DEF meta, known, key, now
<1>10. /\ SystemTree(out.store[SYS_INDEXES])
       /\ DOMAIN Y = DOMAIN X \cup {key}
       /\ \A id \in DOMAIN X : Y[id] = X[id]
       /\ Y[key] = meta
  <2> DEFINE recs == <<meta>>
  <2> DEFINE new == out.store[SYS_INDEXES]
  <2> DEFINE len == Len(recs)
  <2>1. len = 1 /\ len \in Nat /\ recs[1] = meta
    OBVIOUS
  <2>2. new = InsertAll(work[SYS_INDEXES], key, recs)
    BY <1>2
  <2> HIDE DEF new, recs, X
  <2>3. Len(recs) = len /\ len \in Nat
    BY <2>1
  <2> HIDE DEF len
  <2>4. /\ SystemTree(new)
        /\ DOMAIN new.live = DOMAIN work[SYS_INDEXES].live \cup key..(key + len - 1)
        /\ \A id \in DOMAIN work[SYS_INDEXES].live : new.live[id] = work[SYS_INDEXES].live[id]
        /\ \A i \in 1..len : new.live[key + i - 1] = recs[i]
    BY <1>4, <1>5, <2>2, <2>3, InsertAllIs
  <2>5. key..(key + len - 1) = {key} /\ key + 1 - 1 = key /\ 1 \in 1..len
    BY <1>4, <2>1
  <2>6. new.live[key] = meta
    BY <2>1, <2>4, <2>5
  <2>7. QED
    BY <2>4, <2>5, <2>6 DEF new, X
<1>11. IsStore(out.store)
  BY <1>1, <1>2, <1>10 DEF IsStore, SysRoots
<1>12. RootsAgree(out.cat, out.store)
  BY <1>1, <1>2 DEF RootsAgree
<1>13. SchemasAgree(out.cat, out.store)
  BY <1>1, <1>2 DEF SchemasAgree
<1>14. \A t \in DOMAIN cat.indexes : \A i \in DOMAIN cat.indexes[t] :
          /\ t \in DOMAIN out.cat.indexes /\ i \in DOMAIN out.cat.indexes[t]
          /\ out.cat.indexes[t][i] = cat.indexes[t][i]
  BY <1>7, <1>8, <1>9
<1>15. \A t \in DOMAIN out.cat.indexes : \A i \in DOMAIN out.cat.indexes[t] :
          \/ t = def.table /\ i = def.name /\ out.cat.indexes[t][i] = meta
          \/ /\ t \in DOMAIN cat.indexes /\ i \in DOMAIN cat.indexes[t]
             /\ out.cat.indexes[t][i] = cat.indexes[t][i]
  BY <1>7, <1>8, <1>9
<1>16. IndexesAgree(out.cat, out.store)
  <2>1. ASSUME NEW id \in DOMAIN Y PROVE IndexKnown(out.cat, Y[id])
    <3>1. CASE id = key
      BY <1>2, <1>3, <1>6, <1>7, <1>8, <1>10, <3>1, SMTT(30) DEF IndexKnown
    <3>2. CASE id # key
      <4>1. id \in DOMAIN X /\ Y[id] = X[id]
        BY <1>10, <3>2
      <4>2. IndexKnown(cat, X[id])
        BY <1>1, <4>1 DEF IndexesAgree
      <4>3. QED
        BY <1>2, <1>14, <4>1, <4>2, ZenonT(60) DEF IndexKnown
    <3>3. QED
      BY <3>1, <3>2
  <2>2. ASSUME NEW t \in DOMAIN out.cat.indexes, NEW i \in DOMAIN out.cat.indexes[t]
        PROVE  IndexIds(Y, t, i) # {}
    <3>1. CASE t = def.table /\ i = def.name
      BY <1>3, <1>10, <3>1 DEF IndexIds, IdsOf
    <3>2. CASE t \in DOMAIN cat.indexes /\ i \in DOMAIN cat.indexes[t]
      <4>1. PICK id : id \in IndexIds(X, t, i)
        BY <1>1, <3>2 DEF IndexesAgree
      <4>2. id \in DOMAIN X /\ X[id].table = t /\ X[id].name = i
        BY <4>1 DEF IndexIds, IdsOf
      <4>3. id \in IndexIds(Y, t, i)
        BY <1>10, <4>2 DEF IndexIds, IdsOf
      <4>4. QED
        BY <4>3
    <3>3. QED
      BY <1>15, <3>1, <3>2
  <2>3. QED
    BY <2>1, <2>2 DEF IndexesAgree
<1>17. RootsDistinct(out.cat, next_root + 1)
  <2>1. \A r \in 4..(next_root - 1) : r # next_root /\ r \in 4..((next_root + 1) - 1)
    OBVIOUS
  <2>2. next_root \in 4..((next_root + 1) - 1)
    OBVIOUS
  <2>3. RootsDistinct(cat, next_root)
    BY <1>1
  <2>4. /\ \A t \in DOMAIN cat.roots : cat.roots[t] \in 4..(next_root - 1)
        /\ \A t \in DOMAIN cat.indexes : \A i \in DOMAIN cat.indexes[t] :
              cat.indexes[t][i].root \in 4..(next_root - 1)
    BY <2>3 DEF RootsDistinct
  <2>5. ASSUME NEW t \in DOMAIN out.cat.indexes, NEW i \in DOMAIN out.cat.indexes[t]
        PROVE  out.cat.indexes[t][i].root \in 4..((next_root + 1) - 1)
    BY <1>3, <1>15, <2>1, <2>2, <2>4
  <2>6. ASSUME NEW t \in DOMAIN out.cat.indexes, NEW i \in DOMAIN out.cat.indexes[t],
               NEW u \in DOMAIN out.cat.indexes, NEW j \in DOMAIN out.cat.indexes[u],
               out.cat.indexes[t][i].root = out.cat.indexes[u][j].root
        PROVE  t = u /\ i = j
    <3>1. CASE t = def.table /\ i = def.name /\ out.cat.indexes[t][i] = meta
      BY <1>3, <1>15, <2>1, <2>4, <2>6, <3>1
    <3>2. CASE u = def.table /\ j = def.name /\ out.cat.indexes[u][j] = meta
      BY <1>3, <1>15, <2>1, <2>4, <2>6, <3>2
    <3>3. CASE /\ t \in DOMAIN cat.indexes /\ i \in DOMAIN cat.indexes[t]
               /\ out.cat.indexes[t][i] = cat.indexes[t][i]
               /\ u \in DOMAIN cat.indexes /\ j \in DOMAIN cat.indexes[u]
               /\ out.cat.indexes[u][j] = cat.indexes[u][j]
      BY <2>3, <2>6, <3>3 DEF RootsDistinct
    <3>4. QED
      BY <1>15, <3>1, <3>2, <3>3
  <2>7. ASSUME NEW t \in DOMAIN cat.roots, NEW u \in DOMAIN out.cat.indexes, NEW j \in DOMAIN out.cat.indexes[u]
        PROVE  cat.roots[t] # out.cat.indexes[u][j].root
    BY <1>3, <1>15, <2>1, <2>3, <2>4 DEF RootsDistinct
  <2>8. QED
    BY <1>2, <2>1, <2>3, <2>4, <2>5, <2>6, <2>7, SMTT(30) DEF RootsDistinct
<1>18. SysFresh(out.cat, out.store)
  <2>1. out.cat.next_sys = key + 1
    BY <1>2
  <2>2. \A id \in DOMAIN Y : id < out.cat.next_sys
    BY <1>4, <1>5, <1>10, <2>1
  <2>3. \A r \in {SYS_ROOTS, SYS_SCHEMAS} : \A id \in DOMAIN out.store[r].live : id < out.cat.next_sys
    BY <1>2, <1>4, <1>5, <2>1
  <2>4. out.cat.next_sys \in Nat
    BY <1>4, <2>1
  <2>5. QED
    BY <2>2, <2>3, <2>4 DEF SysFresh, SysRoots
<1>19. QED
  BY <1>2, <1>11, <1>12, <1>13, <1>16, <1>17, <1>18 DEF Describes

-----------------------------------------------------------------------------
(* The statements that change rows *)

\* Two stores have the same system tables.
SameSystem(s, z) == DOMAIN z = DOMAIN s /\ \A r \in SysRoots : z[r] = s[r]

\* They describe the same catalogs.
LEMMA SameSystemDescribes ==
    ASSUME NEW s, NEW z, NEW c, NEW n, SameSystem(s, z)
    PROVE  /\ Describes(s, c, n) => Describes(z, c, n)
           /\ SysFresh(c, s) => SysFresh(c, z)
<1>1. SYS_ROOTS \in SysRoots /\ SYS_SCHEMAS \in SysRoots /\ SYS_INDEXES \in SysRoots
  BY DEF SysRoots
<1>2. /\ DOMAIN z = DOMAIN s
      /\ z[SYS_ROOTS] = s[SYS_ROOTS] /\ z[SYS_SCHEMAS] = s[SYS_SCHEMAS] /\ z[SYS_INDEXES] = s[SYS_INDEXES]
  BY <1>1 DEF SameSystem
<1>3. IsStore(s) => IsStore(z)
  BY DEF IsStore, SameSystem
<1>4. RootsAgree(c, s) => RootsAgree(c, z)
  BY <1>2, Zenon DEF RootsAgree
<1>5. SchemasAgree(c, s) => SchemasAgree(c, z)
  BY <1>2, Zenon DEF SchemasAgree
<1>6. IndexesAgree(c, s) => IndexesAgree(c, z)
  BY <1>2, Zenon DEF IndexesAgree
<1>7. SysFresh(c, s) => SysFresh(c, z)
  BY DEF SysFresh, SameSystem
<1>8. QED
  BY <1>3, <1>4, <1>5, <1>6, <1>7 DEF Describes

\* A statement that has left the catalog and the system tables alone.
DataOnly(out) ==
    /\ DOMAIN out = {"res", "store", "cat", "root", "affected"}
    /\ out.root = next_root
    /\ SameSystem(work, out.store)
    /\ SameMaps(cat, out.cat)

\* One that has done nothing yet, or failed at once.
LEMMA NothingDone ==
    ASSUME IsCatalog(cat), NEW res
    PROVE  DataOnly(Outcome(res, work, cat))
BY DEF Outcome, DataOnly, SameSystem, SameMaps

\* It goes on with one of the stores.
LEMMA WrittenData ==
    ASSUME NEW out, DataOnly(out), NEW stores, \A s \in stores : SameSystem(work, s)
    PROVE  DataOnly(Written(out, stores))
<1>1. CASE stores = {}
  BY <1>1 DEF Written, DataOnly
<1>2. CASE stores # {}
  <2> DEFINE s == CHOOSE s \in stores : TRUE
  <2>1. s \in stores
    BY <1>2
  <2> HIDE DEF s
  <2>2. Written(out, stores) = [out EXCEPT !.store = s, !.affected = @ + 1]
    BY <1>2, Zenon DEF Written, s
  <2>3. SameSystem(work, s)
    BY <2>1
  <2>4. QED
    BY <2>2, <2>3 DEF DataOnly
<1>3. QED
  BY <1>1, <1>2

\* Only the trees of a table's indexes differ.
OnlyIndexes(s, z, table) ==
    /\ DOMAIN z = DOMAIN s
    /\ \A r \in DOMAIN s : (\A meta \in IndexesOf(cat, table) : meta.root # r) => z[r] = s[r]

\* The row's tree and its index trees are not system tables.
LEMMA RowWriteSame ==
    ASSUME NEW n, Describes(work, cat, n), NEW table \in DOMAIN cat.roots,
           NEW s, SameSystem(work, s), NEW tree, NEW w, w = [s EXCEPT ![cat.roots[table]] = tree],
           NEW z, OnlyIndexes(w, z, table)
    PROVE  SameSystem(work, z)
<1>1. cat.roots[table] \notin SysRoots
  BY DEF Describes, RootsDistinct, SysRoots, SYS_ROOTS, SYS_SCHEMAS, SYS_INDEXES
<1>2. \A meta \in IndexesOf(cat, table) : meta.root \notin SysRoots
  <2>1. \A t \in DOMAIN cat.indexes : \A i \in DOMAIN cat.indexes[t] : cat.indexes[t][i].root \notin SysRoots
    BY DEF Describes, RootsDistinct, SysRoots, SYS_ROOTS, SYS_SCHEMAS, SYS_INDEXES
  <2>2. DOMAIN <<>> = {}
    OBVIOUS
  <2>3. QED
    BY <2>1, <2>2 DEF IndexesOf, table_indexes
<1>3. DOMAIN w = DOMAIN s /\ \A r \in SysRoots : w[r] = s[r]
  <2>1. SysRoots \subseteq DOMAIN s
    BY BoundsAssumption DEF Describes, SameSystem, IsStore, SysRoots, SYS_ROOTS, SYS_SCHEMAS, SYS_INDEXES
  <2>2. QED
    BY <1>1, <2>1
<1>4. SysRoots \subseteq DOMAIN w
  BY <1>3, BoundsAssumption DEF Describes, SameSystem, IsStore, SysRoots, SYS_ROOTS, SYS_SCHEMAS, SYS_INDEXES
<1>5. DOMAIN z = DOMAIN w /\ \A r \in SysRoots : z[r] = w[r]
  BY <1>2, <1>4 DEF OnlyIndexes
<1>6. QED
  BY <1>3, <1>5 DEF SameSystem

\* What the deletion of a row makes of a store.
Deleted(table, store, row) ==
    ChangeIndexes([store EXCEPT ![cat.roots[table]] = tree_delete(@, row.row_id)], cat.schemas[table], table,
        LAMBDA t, unique, i : {index_remove(t, to_index_key(row.values[i]), row.row_id)})

\* It takes the row out of the indexes of the table.
Unlisted(w, z, table, row) ==
    \A r \in DOMAIN w : (\E meta \in IndexesOf(cat, table) : meta.root = r) =>
        \E meta \in IndexesOf(cat, table) : meta.root = r /\ \E i \in get_col_idx(cat.schemas[table], meta.column) :
            z[r] = index_remove(w[r], to_index_key(row.values[i]), row.row_id)

\* A deletion changes the row's tree and its indexes.
LEMMA DeletedOnly ==
    ASSUME NEW table, NEW s, NEW row, NEW z \in Deleted(table, s, row),
           NEW w, w = [s EXCEPT ![cat.roots[table]] = tree_delete(s[cat.roots[table]], row.row_id)]
    PROVE  OnlyIndexes(w, z, table) /\ Unlisted(w, z, table, row)
<1> DEFINE tree == tree_delete(s[cat.roots[table]], row.row_id)
           v == [s EXCEPT ![cat.roots[table]] = tree]
           Changed(meta) == UNION {{index_remove(v[meta.root], to_index_key(row.values[i]), row.row_id)} :
                                i \in get_col_idx(cat.schemas[table], meta.column)}
           Index(r) == CHOOSE meta \in IndexesOf(cat, table) : meta.root = r
           new == [r \in DOMAIN v |->
                  IF \E meta \in IndexesOf(cat, table) : meta.root = r
                  THEN CHOOSE t \in Changed(Index(r)) : TRUE ELSE v[r]]
<1>1. z \in IF \E meta \in IndexesOf(cat, table) : Changed(meta) = {} THEN {} ELSE {new}
  BY Zenon DEF Deleted, ChangeIndexes, IndexesOf
<1>2. v = w
  OBVIOUS
<1> HIDE DEF Changed, v
<1>3. z = new /\ \A meta \in IndexesOf(cat, table) : Changed(meta) # {}
  BY <1>1
<1>4. ASSUME NEW r \in DOMAIN w, \E meta \in IndexesOf(cat, table) : meta.root = r
      PROVE  \E meta \in IndexesOf(cat, table) : meta.root = r /\ \E i \in get_col_idx(cat.schemas[table], meta.column) :
                z[r] = index_remove(w[r], to_index_key(row.values[i]), row.row_id)
  <2>1. Index(r) \in IndexesOf(cat, table) /\ Index(r).root = r
    BY <1>4
  <2>2. z[r] = CHOOSE t \in Changed(Index(r)) : TRUE
    BY <1>2, <1>3, <1>4
  <2> DEFINE meta == Index(r)
  <2> HIDE DEF meta
  <2>3. z[r] \in Changed(meta)
    BY <1>3, <2>1, <2>2 DEF meta
  <2>4. \E i \in get_col_idx(cat.schemas[table], meta.column) :
           z[r] = index_remove(w[meta.root], to_index_key(row.values[i]), row.row_id)
    BY <1>2, <2>3 DEF Changed
  <2>5. QED
    BY <2>1, <2>4 DEF meta
<1> HIDE DEF Index
<1>5. OnlyIndexes(w, z, table)
  BY <1>2, <1>3 DEF OnlyIndexes
<1>6. QED
  BY <1>4, <1>5, Zenon DEF Unlisted

\* An update moves the row in them.
Relisted(w, z, table, schema, row, values) ==
    \A r \in DOMAIN w : (\E meta \in IndexesOf(cat, table) : meta.root = r) =>
        \E meta \in IndexesOf(cat, table) : meta.root = r /\ \E i \in get_col_idx(schema, meta.column) :
            z[r] \in Reindex(w[r], meta.unique, row.row_id, row.values[i], values[i])

\* It changes the row's tree and its indexes, too.
LEMMA UpdatedOnly ==
    ASSUME NEW table, NEW schema, NEW s, NEW row, NEW values,
           NEW z \in update_row(s, table, schema, row, values),
           NEW w, w = [s EXCEPT ![cat.roots[table]] = tree_update(s[cat.roots[table]], row.row_id, values)]
    PROVE  OnlyIndexes(w, z, table) /\ Relisted(w, z, table, schema, row, values) /\ encode(schema, values)
<1> DEFINE tree == tree_update(s[cat.roots[table]], row.row_id, values)
           v == [s EXCEPT ![cat.roots[table]] = tree]
           Changed(meta) == UNION {Reindex(v[meta.root], meta.unique, row.row_id, row.values[i], values[i]) :
                                i \in get_col_idx(schema, meta.column)}
           Index(r) == CHOOSE meta \in IndexesOf(cat, table) : meta.root = r
           new == [r \in DOMAIN v |->
                  IF \E meta \in IndexesOf(cat, table) : meta.root = r
                  THEN CHOOSE t \in Changed(Index(r)) : TRUE ELSE v[r]]
<1>1. z \in IF ~encode(schema, values) THEN {}
            ELSE IF \E meta \in IndexesOf(cat, table) : Changed(meta) = {} THEN {} ELSE {new}
  BY Zenon DEF update_row, ChangeIndexes, IndexesOf
<1>2. v = w
  OBVIOUS
<1> HIDE DEF Changed, v
<1>3. z = new /\ encode(schema, values) /\ \A meta \in IndexesOf(cat, table) : Changed(meta) # {}
  BY <1>1
<1>4. ASSUME NEW r \in DOMAIN w, \E meta \in IndexesOf(cat, table) : meta.root = r
      PROVE  \E meta \in IndexesOf(cat, table) : meta.root = r /\ \E i \in get_col_idx(schema, meta.column) :
                z[r] \in Reindex(w[r], meta.unique, row.row_id, row.values[i], values[i])
  <2>1. Index(r) \in IndexesOf(cat, table) /\ Index(r).root = r
    BY <1>4
  <2>2. z[r] = CHOOSE t \in Changed(Index(r)) : TRUE
    BY <1>2, <1>3, <1>4
  <2> DEFINE meta == Index(r)
  <2> HIDE DEF meta
  <2>3. z[r] \in Changed(meta)
    BY <1>3, <2>1, <2>2 DEF meta
  <2>4. \E i \in get_col_idx(schema, meta.column) :
           z[r] \in Reindex(w[meta.root], meta.unique, row.row_id, row.values[i], values[i])
    BY <1>2, <2>3 DEF Changed
  <2>5. QED
    BY <2>1, <2>4 DEF meta
<1> HIDE DEF Index
<1>5. OnlyIndexes(w, z, table)
  BY <1>2, <1>3 DEF OnlyIndexes
<1>6. QED
  BY <1>3, <1>4, <1>5, Zenon DEF Relisted

\* An insertion adds the row to them.
Enlisted(w, z, table, schema, row_id, values) ==
    \A r \in DOMAIN w : (\E meta \in IndexesOf(cat, table) : meta.root = r) =>
        \E meta \in IndexesOf(cat, table) : meta.root = r /\ \E i \in get_col_idx(schema, meta.column) :
            z[r] \in index_add(w[r], meta.unique, to_index_key(values[i]), row_id)

\* It changes the row's tree and its indexes, too.
LEMMA InsertedOnly ==
    ASSUME NEW table, NEW schema, NEW s, NEW row_id, NEW values,
           NEW z \in insert_row(s, table, schema, row_id, values)
    PROVE  /\ encode(schema, values)
           /\ \E tree \in tree_insert(s[cat.roots[table]], row_id, values) :
               \A w : w = [s EXCEPT ![cat.roots[table]] = tree] =>
                   OnlyIndexes(w, z, table) /\ Enlisted(w, z, table, schema, row_id, values)
<1> DEFINE w(tree) == [s EXCEPT ![cat.roots[table]] = tree]
           Changed(tree, meta) ==
               UNION {index_add(w(tree)[meta.root], meta.unique, to_index_key(values[i]), row_id) :
                      i \in get_col_idx(schema, meta.column)}
           Index(r) == CHOOSE meta \in IndexesOf(cat, table) : meta.root = r
           new(tree) == [r \in DOMAIN w(tree) |->
               IF \E meta \in IndexesOf(cat, table) : meta.root = r
               THEN CHOOSE t \in Changed(tree, Index(r)) : TRUE ELSE w(tree)[r]]
           Results(tree) ==
               IF \E meta \in IndexesOf(cat, table) : Changed(tree, meta) = {} THEN {} ELSE {new(tree)}
<1>1. z \in IF ~encode(schema, values) THEN {}
            ELSE UNION {Results(tree) : tree \in tree_insert(s[cat.roots[table]], row_id, values)}
  BY Zenon DEF insert_row, ChangeIndexes, IndexesOf
<1> HIDE DEF Results
<1>2. PICK tree \in tree_insert(s[cat.roots[table]], row_id, values) : z \in Results(tree)
  BY <1>1
<1> HIDE DEF new, Changed
<1>3. z = new(tree) /\ \A meta \in IndexesOf(cat, table) : Changed(tree, meta) # {}
  BY <1>2 DEF Results
<1> DEFINE v == w(tree)
<1> HIDE DEF w
<1>4. z = [r \in DOMAIN v |->
              IF \E meta \in IndexesOf(cat, table) : meta.root = r
              THEN CHOOSE t \in Changed(tree, Index(r)) : TRUE ELSE v[r]]
  BY <1>3, Zenon DEF new
<1> HIDE DEF v
<1>5. ASSUME NEW r \in DOMAIN v, \E meta \in IndexesOf(cat, table) : meta.root = r
      PROVE  \E meta \in IndexesOf(cat, table) : meta.root = r /\ \E i \in get_col_idx(schema, meta.column) :
                z[r] \in index_add(v[r], meta.unique, to_index_key(values[i]), row_id)
  <2>1. Index(r) \in IndexesOf(cat, table) /\ Index(r).root = r
    BY <1>5
  <2>2. z[r] = CHOOSE t \in Changed(tree, Index(r)) : TRUE
    BY <1>4, <1>5
  <2> DEFINE meta == Index(r)
  <2> HIDE DEF meta
  <2>3. z[r] \in Changed(tree, meta)
    BY <1>3, <2>1, <2>2 DEF meta
  <2>4. \E i \in get_col_idx(schema, meta.column) :
           z[r] \in index_add(v[meta.root], meta.unique, to_index_key(values[i]), row_id)
    BY <2>3 DEF Changed, v
  <2>5. QED
    BY <2>1, <2>4 DEF meta
<1> HIDE DEF Index
<1>6. OnlyIndexes(v, z, table)
  BY <1>4 DEF OnlyIndexes
<1>7. Enlisted(v, z, table, schema, row_id, values)
  BY <1>5, Zenon DEF Enlisted
<1>8. encode(schema, values)
  BY <1>1
<1>9. QED
  BY <1>6, <1>7, <1>8 DEF v, w

\* A deletion does not touch the system tables.
LEMMA DeletedSame ==
    ASSUME NEW n, Describes(work, cat, n), NEW table \in DOMAIN cat.roots,
           NEW s, SameSystem(work, s), NEW row, NEW z \in Deleted(table, s, row)
    PROVE  SameSystem(work, z)
<1> DEFINE tree == tree_delete(s[cat.roots[table]], row.row_id)
<1>1. PICK w : w = [s EXCEPT ![cat.roots[table]] = tree]
  OBVIOUS
<1>2. OnlyIndexes(w, z, table)
  BY <1>1, DeletedOnly
<1> HIDE DEF tree
<1>3. QED
  BY <1>1, <1>2, RowWriteSame

\* Nor does an update of a row.
LEMMA UpdatedSame ==
    ASSUME NEW n, Describes(work, cat, n), NEW table \in DOMAIN cat.roots, NEW schema,
           NEW s, SameSystem(work, s), NEW row, NEW values, NEW z \in update_row(s, table, schema, row, values)
    PROVE  SameSystem(work, z)
<1> DEFINE tree == tree_update(s[cat.roots[table]], row.row_id, values)
<1>1. PICK w : w = [s EXCEPT ![cat.roots[table]] = tree]
  OBVIOUS
<1>2. OnlyIndexes(w, z, table)
  BY <1>1, UpdatedOnly
<1> HIDE DEF tree
<1>3. QED
  BY <1>1, <1>2, RowWriteSame

\* Nor does an insertion.
LEMMA InsertedSame ==
    ASSUME NEW n, Describes(work, cat, n), NEW table \in DOMAIN cat.roots, NEW schema,
           NEW s, SameSystem(work, s), NEW row_id, NEW values,
           NEW z \in insert_row(s, table, schema, row_id, values)
    PROVE  SameSystem(work, z)
<1>1. PICK tree \in tree_insert(s[cat.roots[table]], row_id, values) :
          \A w : w = [s EXCEPT ![cat.roots[table]] = tree] => OnlyIndexes(w, z, table)
  BY InsertedOnly
<1>2. PICK w : w = [s EXCEPT ![cat.roots[table]] = tree]
  OBVIOUS
<1>3. QED
  BY <1>1, <1>2, RowWriteSame

\* A choice from a set of results, or the default.
LEMMA OneOrIs ==
    ASSUME NEW S, NEW default
    PROVE  OneOr(S, default) \in S \/ OneOr(S, default) = default
BY Zenon DEF OneOr

\* A counter that moves is not a table that does.
LEMMA WatermarkMaps ==
    ASSUME NEW c, SameMaps(cat, c), NEW table, NEW row_id
    PROVE  SameMaps(cat, update_high_watermark(c, table, row_id))
<1> DEFINE rows == With(c.next_row, table, Watermark(c.next_row[table], row_id))
<1>1. update_high_watermark(c, table, row_id) = [c EXCEPT !.next_row = rows]
  BY Zenon DEF update_high_watermark
<1> HIDE DEF rows
<1>2. QED
  BY <1>1 DEF SameMaps, IsCatalog

\* One row of an INSERT leaves the catalog and the system tables alone.
LEMMA InsertRowData ==
    ASSUME NEW n, Describes(work, cat, n), NEW table \in DOMAIN cat.roots, NEW schema, NEW exprs,
           NEW out, DataOnly(out)
    PROVE  DataOnly(InsertRow(out, table, schema, exprs))
<1> DEFINE pk == primary_key_idx(schema)
<1> DEFINE Keyed(given, row_id) ==
            IF pk = 0 \/ given[pk] # Null THEN given
            ELSE [given EXCEPT ![pk] = IF schema[pk].type = "Int" THEN Value("Int", AsInt(row_id))
                                       ELSE Value("BigInt", row_id)]
<1> DEFINE Moved(row_id) == [out EXCEPT !.cat = update_high_watermark(@, table, row_id)]
<1> DEFINE Failed == [out EXCEPT !.res = "Exec"]
<1> DEFINE Mistyped(given) == pk # 0 /\ given[pk].t \notin {"Null", "Int", "BigInt"}
<1> DEFINE Put(given, row_id) ==
            IF Mistyped(given) THEN Failed
            ELSE Written(Moved(row_id), insert_row(out.store, table, schema, row_id, Keyed(given, row_id)))
<1> DEFINE Values == OneOfEach([i \in DOMAIN exprs |-> evaluate(exprs[i], <<>>)])
<1> DEFINE Id(given) == RowIdOf(schema, given, out.cat.next_row[table])
<1>1. InsertRow(out, table, schema, exprs) =
         IF out.res # "Ok" THEN out ELSE OneOr({Put(given, Id(given)) : given \in Values}, Failed)
  BY Zenon DEF InsertRow
<1>2. DataOnly(Failed)
  BY DEF DataOnly
<1>3. ASSUME NEW given, NEW row_id PROVE DataOnly(Put(given, row_id))
  <2> DEFINE stores == insert_row(out.store, table, schema, row_id, Keyed(given, row_id))
  <2>1. SameSystem(work, out.store)
    BY DEF DataOnly
  <2> DEFINE values == Keyed(given, row_id)
  <2> HIDE DEF Keyed, values
  <2>2. \A s \in insert_row(out.store, table, schema, row_id, values) : SameSystem(work, s)
    BY <2>1, InsertedSame
  <2>3. \A s \in stores : SameSystem(work, s)
    BY <2>2 DEF values
  <2>4. DataOnly(Moved(row_id))
    <3> DEFINE c == update_high_watermark(out.cat, table, row_id)
    <3>1. SameMaps(cat, c)
      BY WatermarkMaps DEF DataOnly
    <3>2. Moved(row_id) = [out EXCEPT !.cat = c]
      BY Zenon
    <3> HIDE DEF c, Moved
    <3>3. QED
      BY <3>1, <3>2 DEF DataOnly
  <2> HIDE DEF stores, Moved
  <2>5. DataOnly(Written(Moved(row_id), stores))
    BY <2>3, <2>4, WrittenData
  <2> HIDE DEF Mistyped, Failed
  <2>6. Put(given, row_id) = IF Mistyped(given) THEN Failed ELSE Written(Moved(row_id), stores)
    BY Zenon DEF stores
  <2> HIDE DEF Put
  <2>7. QED
    BY <1>2, <2>5, <2>6
<1> HIDE DEF Put, Id, Values, Failed
<1>4. QED
  BY <1>1, <1>2, <1>3, OneOrIs

-----------------------------------------------------------------------------
(* Rows one after the other *)

\* The stores that a row leaves: a job is [kind, table, plan, set].
Change(job, s, row) ==
    IF job.kind = "delete" THEN Deleted(job.table, s, row)
    ELSE UNION {update_row(s, job.table, cat.schemas[job.table], row, values) :
                values \in Assign(job.set, row.values)}

\* The row is changed when it satisfies the predicate.
Applied(job, out, row, verdict) ==
    CASE verdict = "false" -> out
      [] verdict = "error" -> [out EXCEPT !.res = "Exec"]
      [] verdict = "true"  -> Written(out, Change(job, out.store, row))

\* The next row of the scan, or its end.
Visited(job, out, got) ==
    IF got.row = <<>> THEN [out |-> out, cursor |-> got.cursor, going |-> FALSE]
    ELSE [out    |-> Applied(job, out, got.row[1], Verdict(job.plan.where, got.row[1].values)),
          cursor |-> got.cursor, going |-> TRUE]

\* The scan goes on until it ends or a row fails.
SweepStep(job, st) ==
    IF st.going /\ st.out.res = "Ok"
    THEN Visited(job, st.out, scan_next(st.out.store, job.plan.scan, st.cursor)) ELSE st

\* What INSERT, UPDATE or DELETE does at step n.
StepOf(job, n, st) ==
    IF job.kind = "insert" THEN InsertRow(st, job.table, cat.schemas[job.table], job.plan[n])
    ELSE SweepStep(job, st)

\* The states of a job from the state a on.
RunFrom(job, b, a, u) == [n \in 0..b |-> IF n = 0 THEN a ELSE StepOf(job, n, u[n - 1])]

\* There is such a run.
LEMMA RunExists ==
    ASSUME NEW job, NEW b \in Nat, NEW a
    PROVE  \E u : u = RunFrom(job, b, a, u)
<1> DEFINE Starts(n, f) == DOMAIN f = 0..n /\ f[0] = a /\ \A k \in 1..n : f[k] = StepOf(job, k, f[k - 1])
<1> DEFINE S == {n \in 0..b : \E f : Starts(n, f)}
<1>1. 0 \in S
  <2>1. Starts(0, [k \in 0..0 |-> a])
    OBVIOUS
  <2> HIDE DEF Starts
  <2>2. QED
    BY <2>1
<1>2. ASSUME NEW n \in 0..(b - 1), n \in S PROVE n + 1 \in S
  <2>1. PICK f : Starts(n, f)
    BY <1>2
  <2> DEFINE e == [k \in 0..(n + 1) |-> IF k = n + 1 THEN StepOf(job, n + 1, f[n]) ELSE f[k]]
  <2>2. DOMAIN e = 0..(n + 1) /\ e[n + 1] = StepOf(job, n + 1, f[n]) /\ \A k \in 0..n : e[k] = f[k]
    OBVIOUS
  <2> HIDE DEF e
  <2>3. e[0] = a
    BY <2>1, <2>2
  <2>4. ASSUME NEW k \in 1..(n + 1) PROVE e[k] = StepOf(job, k, e[k - 1])
    <3>1. CASE k = n + 1
      <4>1. k - 1 = n /\ n \in 0..n
        BY <3>1
      <4>2. QED
        BY <2>2, <3>1, <4>1
    <3>2. CASE k # n + 1
      <4>1. k \in 1..n /\ k \in 0..n /\ k - 1 \in 0..n
        BY <3>2
      <4>2. QED
        BY <2>1, <2>2, <4>1
    <3>3. QED
      BY <3>1, <3>2
  <2>5. Starts(n + 1, e)
    BY <2>2, <2>3, <2>4
  <2> HIDE DEF Starts
  <2>6. n + 1 \in 0..b
    OBVIOUS
  <2>7. QED
    BY <2>5, <2>6
<1>3. \A n \in 0..b : n \in S
  <2> HIDE DEF S
  <2>1. QED
    BY <1>1, <1>2, BoundedInduction
<1>4. PICK f : Starts(b, f)
  <2>1. b \in 0..b
    OBVIOUS
  <2> HIDE DEF Starts
  <2>2. QED
    BY <1>3, <2>1
<1> DEFINE u == [n \in 0..b |-> f[n]]
<1>5. \A n \in 0..b : u[n] = IF n = 0 THEN a ELSE StepOf(job, n, u[n - 1])
  <2>1. \A n \in 0..b : n # 0 => n \in 1..b /\ n - 1 \in 0..b
    OBVIOUS
  <2>2. QED
    BY <1>4, <2>1
<1>6. u = [n \in 0..b |-> u[n]]
  OBVIOUS
<1> HIDE DEF u
<1>7. u = RunFrom(job, b, a, u)
  BY <1>5, <1>6 DEF RunFrom
<1>8. QED
  BY <1>7

\* A verdict is one of three.
LEMMA VerdictIs ==
    ASSUME NEW where, NEW values
    PROVE  Verdict(where, values) \in {"true", "false", "error"}
BY Zenon DEF Verdict

\* What a job has done to the catalog and the system tables: nothing.
JobData(job, st) == IF job.kind = "insert" THEN DataOnly(st) ELSE DataOnly(st.out)

\* So it stays with every row.
LEMMA StepData ==
    ASSUME NEW m, Describes(work, cat, m), NEW job, job.table \in DOMAIN cat.roots,
           NEW n, NEW st, JobData(job, st)
    PROVE  JobData(job, StepOf(job, n, st))
<1>1. CASE job.kind = "insert"
  <2>1. DataOnly(st)
    BY <1>1 DEF JobData
  <2>2. DataOnly(InsertRow(st, job.table, cat.schemas[job.table], job.plan[n]))
    BY <2>1, InsertRowData
  <2>3. QED
    BY <1>1, <2>2 DEF JobData, StepOf
<1>2. CASE job.kind # "insert"
  <2>1. DataOnly(st.out)
    BY <1>2 DEF JobData
  <2>2. ASSUME NEW out, DataOnly(out), NEW row PROVE DataOnly(Written(out, Change(job, out.store, row)))
    <3>1. SameSystem(work, out.store)
      BY <2>2 DEF DataOnly
    <3>2. CASE job.kind = "delete"
      <4>1. \A s \in Deleted(job.table, out.store, row) : SameSystem(work, s)
        BY <3>1, DeletedSame
      <4>2. QED
        BY <2>2, <3>2, <4>1, WrittenData DEF Change
    <3>3. CASE job.kind # "delete"
      <4> DEFINE D == Assign(job.set, row.values)
      <4>1. \A values : \A s \in update_row(out.store, job.table, cat.schemas[job.table], row, values) :
               SameSystem(work, s)
        BY <3>1, UpdatedSame
      <4> HIDE DEF D
      <4>2. Change(job, out.store, row) =
               UNION {update_row(out.store, job.table, cat.schemas[job.table], row, values) : values \in D}
        BY <3>3, Zenon DEF Change, D
      <4>3. \A s \in Change(job, out.store, row) : SameSystem(work, s)
        BY <4>1, <4>2
      <4>4. QED
        BY <2>2, <4>3, WrittenData
    <3>4. QED
      BY <3>2, <3>3
  <2>3. ASSUME NEW out, DataOnly(out), NEW row, NEW verdict \in {"true", "false", "error"}
        PROVE  DataOnly(Applied(job, out, row, verdict))
    <3>1. CASE verdict = "true"
      <4>1. Applied(job, out, row, verdict) = Written(out, Change(job, out.store, row))
        BY <3>1 DEF Applied
      <4>2. QED
        BY <2>2, <2>3, <4>1
    <3>2. CASE verdict = "false"
      BY <2>3, <3>2 DEF Applied
    <3>3. CASE verdict = "error"
      <4>1. Applied(job, out, row, verdict) = [out EXCEPT !.res = "Exec"]
        BY <3>3 DEF Applied
      <4>2. QED
        BY <2>3, <4>1 DEF DataOnly
    <3>4. QED
      BY <2>3, <3>1, <3>2, <3>3
  <2>4. ASSUME NEW out, DataOnly(out), NEW got PROVE DataOnly(Visited(job, out, got).out)
    <3>1. CASE got.row = <<>>
      BY <2>4, <3>1 DEF Visited
    <3>2. CASE got.row # <<>>
      <4> DEFINE verdict == Verdict(job.plan.where, got.row[1].values)
      <4>1. verdict \in {"true", "false", "error"}
        BY VerdictIs
      <4>2. Visited(job, out, got).out = Applied(job, out, got.row[1], verdict)
        BY <3>2 DEF Visited
      <4> HIDE DEF verdict
      <4>3. QED
        BY <2>3, <2>4, <4>1, <4>2
    <3>3. QED
      BY <3>1, <3>2
  <2>5. DataOnly(SweepStep(job, st).out)
    BY <2>1, <2>4 DEF SweepStep
  <2>6. QED
    BY <1>2, <2>5 DEF JobData, StepOf
<1>3. QED
  BY <1>1, <1>2

\* So it is at the end of a run.
LEMMA RunData ==
    ASSUME NEW m, Describes(work, cat, m), NEW job, job.table \in DOMAIN cat.roots,
           NEW b \in Nat, NEW a, JobData(job, a), NEW u, u = RunFrom(job, b, a, u)
    PROVE  JobData(job, u[b])
<1> DEFINE S == {n \in 0..b : JobData(job, u[n])}
<1>1. \A n \in 0..b : u[n] = IF n = 0 THEN a ELSE StepOf(job, n, u[n - 1])
  BY DEF RunFrom
<1>2. 0 \in S
  BY <1>1
<1>3. ASSUME NEW n \in 0..(b - 1), n \in S PROVE n + 1 \in S
  <2>1. n + 1 \in 0..b /\ n + 1 # 0 /\ (n + 1) - 1 = n
    OBVIOUS
  <2>2. u[n + 1] = StepOf(job, n + 1, u[n])
    BY <1>1, <2>1
  <2>3. JobData(job, u[n])
    BY <1>3
  <2>4. JobData(job, StepOf(job, n + 1, u[n]))
    BY <2>3, StepData
  <2>5. QED
    BY <2>1, <2>2, <2>4
<1> HIDE DEF S
<1>4. b \in S
  <2>1. \A n \in 0..b : n \in S
    BY <1>2, <1>3, BoundedInduction
  <2>2. b \in 0..b
    OBVIOUS
  <2>3. QED
    BY <2>1, <2>2
<1>5. QED
  BY <1>4 DEF S

\* A plan has a row for every row of the statement, and in it an expression
\* for every column.
LEMMA PlanIs ==
    ASSUME NEW stmt \in Inserts, NEW schema, NEW plan \in plan_insert(stmt, schema)
    PROVE  /\ Len(plan) \in Nat /\ DOMAIN plan = 1..Len(plan)
           /\ \A n \in DOMAIN plan : DOMAIN plan[n] = DOMAIN schema
<1> DEFINE cols == IF stmt.columns = <<>> THEN {[i \in DOMAIN schema |-> i]}
                ELSE OneOfEach([i \in DOMAIN stmt.columns |-> get_col_idx(schema, stmt.columns[i])])
           Target(idx, c) == {i \in DOMAIN idx : idx[i] = c}
           Bound(idx, row) ==
            IF Len(row) # Len(idx) THEN {}
            ELSE OneOfEach([i \in DOMAIN idx |->
                     bind_expr(row[i], schema, schema[idx[i]].type, schema[idx[i]].length)])
           Row(idx, row) ==
            {[c \in DOMAIN schema |-> IF Target(idx, c) = {} THEN Constant(Null)
                                     ELSE exprs[Max(Target(idx, c))]] : exprs \in Bound(idx, row)}
           sets(idx) == [n \in DOMAIN stmt.values |-> Row(idx, stmt.values[n])]
<1>1. plan_insert(stmt, schema) = UNION {OneOfEach(sets(idx)) : idx \in cols}
  BY Zenon DEF plan_insert
<1> HIDE DEF cols, Bound, Target
<1>2. \A idx, row : \A v \in Row(idx, row) : DOMAIN v = DOMAIN schema
  OBVIOUS
<1> HIDE DEF Row
<1>3. PICK idx : plan \in OneOfEach(sets(idx))
  <2> HIDE DEF sets
  <2>1. QED
    BY <1>1
<1>4. /\ DOMAIN sets(idx) = DOMAIN stmt.values
      /\ \A n \in DOMAIN stmt.values : sets(idx)[n] = Row(idx, stmt.values[n])
  OBVIOUS
<1> HIDE DEF sets
<1>5. /\ plan = [i \in DOMAIN stmt.values |-> CHOOSE v \in sets(idx)[i] : TRUE]
      /\ \A i \in DOMAIN stmt.values : sets(idx)[i] # {}
  BY <1>3, <1>4 DEF OneOfEach
<1>6. stmt.values \in Seq(ToSet(stmt.values))
  BY InsertsAssumption
<1>7. PICK k \in Nat : DOMAIN stmt.values = 1..k
  BY <1>6
<1>8. plan \in [1..k -> {plan[i] : i \in 1..k}]
  BY <1>5, <1>7
<1> DEFINE range == {plan[i] : i \in 1..k}
<1> HIDE DEF range
<1>9. plan \in Seq(range)
  BY <1>8, SeqDef DEF range
<1>10. ASSUME NEW n \in DOMAIN plan PROVE DOMAIN plan[n] = DOMAIN schema
  <2>1. plan[n] \in sets(idx)[n] /\ n \in DOMAIN stmt.values
    BY <1>5
  <2>2. QED
    BY <1>4, <1>2, <2>1
<1>11. QED
  BY <1>9, <1>10

\* A statement's job.
Job(kind, table, plan, set) == [kind |-> kind, table |-> table, plan |-> plan, set |-> set]

\* An INSERT runs one of its plans from the start, or is refused.
LEMMA InsertRuns ==
    ASSUME NEW stmt \in Inserts, NEW out, out = insert(stmt)
    PROVE  \/ out = Refused
           \/ /\ stmt.table \in DOMAIN cat.schemas
              /\ \E plan \in plan_insert(stmt, cat.schemas[stmt.table]) : \E run :
                    /\ run = RunFrom(Job("insert", stmt.table, plan, <<>>), Len(plan),
                                     Outcome("Ok", work, cat), run)
                    /\ out = run[Len(plan)]
<1> DEFINE schema == cat.schemas[stmt.table]
           a == Outcome("Ok", work, cat)
           body(plan, u) == [n \in 0..Len(plan) |->
               IF n = 0 THEN a ELSE InsertRow(u[n - 1], stmt.table, schema, plan[n])]
           w(plan) == CHOOSE u : u = body(plan, u)
<1>1. out = IF stmt.table \notin DOMAIN cat.schemas THEN Refused
            ELSE OneOr({w(plan)[Len(plan)] : plan \in plan_insert(stmt, schema)}, Refused)
  BY Zenon DEF insert
<1>2. ASSUME NEW plan \in plan_insert(stmt, schema)
      PROVE  w(plan) = RunFrom(Job("insert", stmt.table, plan, <<>>), Len(plan), a, w(plan))
  <2> DEFINE job == Job("insert", stmt.table, plan, <<>>)
             b == Len(plan)
             run == w(plan)
  <2>1. b \in Nat
    BY PlanIs
  <2>2. job.kind = "insert" /\ job.table = stmt.table /\ job.plan = plan
    BY DEF Job
  <2> HIDE DEF job, a
  <2>3. \A u : body(plan, u) = RunFrom(job, b, a, u)
    BY <2>2 DEF StepOf, RunFrom
  <2> HIDE DEF body, b
  <2>4. PICK u : u = RunFrom(job, b, a, u)
    BY <2>1, RunExists
  <2>5. u = body(plan, u)
    BY <2>3, <2>4
  <2>6. run = body(plan, run)
    BY <2>5
  <2> HIDE DEF run
  <2>7. run = RunFrom(job, b, a, run)
    BY <2>3, <2>6
  <2>8. QED
    BY <2>7 DEF run, job, b
<1> HIDE DEF w
<1>3. CASE stmt.table \notin DOMAIN cat.schemas
  BY <1>1, <1>3
<1>4. CASE stmt.table \in DOMAIN cat.schemas
  <2>1. out = Refused \/ out \in {w(plan)[Len(plan)] : plan \in plan_insert(stmt, schema)}
    BY <1>1, <1>4, OneOrIs
  <2>2. QED
    BY <1>2, <1>4, <2>1
<1>5. QED
  BY <1>3, <1>4

\* A sweep visits rows from the start of a scan on.
Swept(kind, stmt, out) ==
    \E plan \in plan_where(stmt, cat.schemas[stmt.table]) : \E set, st, run :
        /\ kind = "update" => set \in plan_set(stmt, cat.schemas[stmt.table])
        /\ st.out = Outcome("Ok", work, cat) /\ st.cursor = open_scan(work, plan.scan)
        /\ run = RunFrom(Job(kind, stmt.table, plan, set), MaxVisits, st, run)
        /\ out = run[MaxVisits].out

\* A DELETE is refused, or a sweep.
LEMMA DeleteRuns ==
    ASSUME NEW stmt, NEW out, out = delete(stmt)
    PROVE  out = Refused \/ (stmt.table \in DOMAIN cat.schemas /\ Swept("delete", stmt, out))
<1> DEFINE schema == cat.schemas[stmt.table]
           a == Outcome("Ok", work, cat)
           st(plan) == [out |-> a, cursor |-> open_scan(work, plan.scan), going |-> TRUE]
           Apply(o, row, verdict) ==
            CASE verdict = "false" -> o
              [] verdict = "error" -> [o EXCEPT !.res = "Exec"]
              [] verdict = "true"  -> Written(o, Deleted(stmt.table, o.store, row))
           Visit(plan, o, got) ==
            IF got.row = <<>> THEN [out |-> o, cursor |-> got.cursor, going |-> FALSE]
            ELSE [out    |-> Apply(o, got.row[1], Verdict(plan.where, got.row[1].values)),
                  cursor |-> got.cursor, going |-> TRUE]
           Step(plan, s) ==
            IF s.going /\ s.out.res = "Ok"
            THEN Visit(plan, s.out, scan_next(s.out.store, plan.scan, s.cursor)) ELSE s
           body(plan, u) == [n \in 0..MaxVisits |-> IF n = 0 THEN st(plan) ELSE Step(plan, u[n - 1])]
           w(plan) == CHOOSE u : u = body(plan, u)
<1>1. out = IF stmt.table \notin DOMAIN cat.schemas THEN Refused
            ELSE OneOr({w(plan)[MaxVisits].out : plan \in plan_where(stmt, schema)}, Refused)
  BY Zenon DEF delete, Sweep, Deleted
<1>2. ASSUME NEW plan \in plan_where(stmt, schema)
      PROVE  Swept("delete", stmt, w(plan)[MaxVisits].out)
  <2> DEFINE job == Job("delete", stmt.table, plan, <<>>)
             s0 == st(plan)
             run == w(plan)
  <2>1. job.kind = "delete" /\ job.table = stmt.table /\ job.plan = plan
    BY DEF Job
  <2> HIDE DEF job
  <2>2. \A o, row, verdict : Apply(o, row, verdict) = Applied(job, o, row, verdict)
    BY <2>1 DEF Applied, Change
  <2> HIDE DEF Apply
  <2>3. \A o, got : Visit(plan, o, got) = Visited(job, o, got)
    BY <2>1, <2>2 DEF Visited
  <2> HIDE DEF Visit
  <2>4. \A s : Step(plan, s) = SweepStep(job, s)
    BY <2>1, <2>3 DEF SweepStep
  <2>5. s0.out = a /\ s0.cursor = open_scan(work, plan.scan)
    OBVIOUS
  <2> HIDE DEF Step, a
  <2>6. \A n, s : StepOf(job, n, s) = Step(plan, s)
    BY <2>1, <2>4 DEF StepOf
  <2> HIDE DEF st
  <2>7. \A u : body(plan, u) = RunFrom(job, MaxVisits, s0, u)
    BY <2>6 DEF RunFrom
  <2> HIDE DEF body, s0
  <2>8. MaxVisits \in Nat
    BY BoundsAssumption
  <2>9. PICK u : u = RunFrom(job, MaxVisits, s0, u)
    BY <2>8, RunExists
  <2>10. u = body(plan, u)
    BY <2>7, <2>9
  <2>11. run = body(plan, run)
    BY <2>10
  <2> HIDE DEF run
  <2>12. run = RunFrom(job, MaxVisits, s0, run)
    BY <2>7, <2>11
  <2>13. QED
    BY <2>5, <2>12, Zenon DEF Swept, run, job, a
<1> HIDE DEF w, a
<1>3. CASE stmt.table \notin DOMAIN cat.schemas
  BY <1>1, <1>3
<1>4. CASE stmt.table \in DOMAIN cat.schemas
  <2>1. out = Refused \/ out \in {w(plan)[MaxVisits].out : plan \in plan_where(stmt, schema)}
    BY <1>1, <1>4, OneOrIs
  <2>2. QED
    BY <1>2, <1>4, <2>1
<1>5. QED
  BY <1>3, <1>4

\* An UPDATE is refused, or a sweep.
LEMMA UpdateRuns ==
    ASSUME NEW stmt, NEW out, out = update(stmt)
    PROVE  out = Refused \/ (stmt.table \in DOMAIN cat.schemas /\ Swept("update", stmt, out))
<1> DEFINE schema == cat.schemas[stmt.table]
           a == Outcome("Ok", work, cat)
           st(plan) == [out |-> a, cursor |-> open_scan(work, plan.scan), going |-> TRUE]
           Changed(set, s, row) ==
            UNION {update_row(s, stmt.table, schema, row, values) : values \in Assign(set, row.values)}
           Apply(set, o, row, verdict) ==
            CASE verdict = "false" -> o
              [] verdict = "error" -> [o EXCEPT !.res = "Exec"]
              [] verdict = "true"  -> Written(o, Changed(set, o.store, row))
           Visit(plan, set, o, got) ==
            IF got.row = <<>> THEN [out |-> o, cursor |-> got.cursor, going |-> FALSE]
            ELSE [out    |-> Apply(set, o, got.row[1], Verdict(plan.where, got.row[1].values)),
                  cursor |-> got.cursor, going |-> TRUE]
           Step(plan, set, s) ==
            IF s.going /\ s.out.res = "Ok"
            THEN Visit(plan, set, s.out, scan_next(s.out.store, plan.scan, s.cursor)) ELSE s
           body(plan, set, u) ==
            [n \in 0..MaxVisits |-> IF n = 0 THEN st(plan) ELSE Step(plan, set, u[n - 1])]
           w(plan, set) == CHOOSE u : u = body(plan, set, u)
<1>1. out = IF stmt.table \notin DOMAIN cat.schemas THEN Refused
            ELSE OneOr(UNION {{w(plan, set)[MaxVisits].out : plan \in plan_where(stmt, schema)} :
                                  set \in plan_set(stmt, schema)}, Refused)
  BY Zenon DEF update, Sweep
<1>2. ASSUME NEW plan \in plan_where(stmt, schema), NEW set \in plan_set(stmt, schema)
      PROVE  Swept("update", stmt, w(plan, set)[MaxVisits].out)
  <2> DEFINE job == Job("update", stmt.table, plan, set)
             s0 == st(plan)
             run == w(plan, set)
  <2>1. job.kind = "update" /\ job.table = stmt.table /\ job.plan = plan /\ job.set = set
    BY DEF Job
  <2> HIDE DEF job
  <2>2. \A s, row : Change(job, s, row) = Changed(set, s, row)
    BY <2>1, Zenon DEF Change
  <2> HIDE DEF Changed
  <2>3. \A o, row, verdict : Apply(set, o, row, verdict) = Applied(job, o, row, verdict)
    BY <2>2 DEF Applied
  <2> HIDE DEF Apply
  <2>4. \A o, got : Visit(plan, set, o, got) = Visited(job, o, got)
    BY <2>1, <2>3 DEF Visited
  <2> HIDE DEF Visit
  <2>5. \A s : Step(plan, set, s) = SweepStep(job, s)
    BY <2>1, <2>4 DEF SweepStep
  <2>6. s0.out = a /\ s0.cursor = open_scan(work, plan.scan)
    OBVIOUS
  <2> HIDE DEF Step, a
  <2>7. \A n, s : StepOf(job, n, s) = Step(plan, set, s)
    BY <2>1, <2>5 DEF StepOf
  <2> HIDE DEF st
  <2>8. \A u : body(plan, set, u) = RunFrom(job, MaxVisits, s0, u)
    BY <2>7 DEF RunFrom
  <2> HIDE DEF body, s0
  <2>9. MaxVisits \in Nat
    BY BoundsAssumption
  <2>10. PICK u : u = RunFrom(job, MaxVisits, s0, u)
    BY <2>9, RunExists
  <2>11. u = body(plan, set, u)
    BY <2>8, <2>10
  <2>12. run = body(plan, set, run)
    BY <2>11
  <2> HIDE DEF run
  <2>13. run = RunFrom(job, MaxVisits, s0, run)
    BY <2>8, <2>12
  <2>14. QED
    BY <2>6, <2>13, Zenon DEF Swept, run, job, a
<1> HIDE DEF w, a
<1>3. CASE stmt.table \notin DOMAIN cat.schemas
  BY <1>1, <1>3
<1>4. CASE stmt.table \in DOMAIN cat.schemas
  <2> DEFINE outs == {{w(plan, set)[MaxVisits].out : plan \in plan_where(stmt, schema)} :
                          set \in plan_set(stmt, schema)}
  <2>1. out = Refused \/ out \in UNION outs
    BY <1>1, <1>4, OneOrIs
  <2>2. \A o \in UNION outs : Swept("update", stmt, o)
    BY <1>2
  <2>3. QED
    BY <1>4, <2>1, <2>2
<1>5. QED
  BY <1>3, <1>4

\* A catalog has schemas for its tables.
LEMMA SchemasOfTables ==
    ASSUME NEW s, NEW c, NEW n, Describes(s, c, n)
    PROVE  IsCatalog(c) /\ DOMAIN c.schemas = DOMAIN c.roots
BY DEF Describes, SchemasAgree

\* INSERT leaves the catalog and the system tables alone.
LEMMA InsertData ==
    ASSUME NEW m, Describes(work, cat, m), NEW stmt \in Inserts, NEW out, out = insert(stmt)
    PROVE  DataOnly(out)
<1>1. IsCatalog(cat) /\ DOMAIN cat.schemas = DOMAIN cat.roots
  BY SchemasOfTables
<1>2. CASE out = Refused
  BY <1>1, <1>2, NothingDone DEF Refused
<1>3. ASSUME stmt.table \in DOMAIN cat.schemas, NEW plan \in plan_insert(stmt, cat.schemas[stmt.table]), NEW run,
             run = RunFrom(Job("insert", stmt.table, plan, <<>>), Len(plan), Outcome("Ok", work, cat), run),
             out = run[Len(plan)]
      PROVE  DataOnly(out)
  <2> DEFINE job == Job("insert", stmt.table, plan, <<>>)
             b == Len(plan)
             a == Outcome("Ok", work, cat)
  <2>1. job.kind = "insert" /\ job.table = stmt.table
    BY DEF Job
  <2>2. b \in Nat /\ DataOnly(a)
    BY <1>1, PlanIs, NothingDone
  <2> HIDE DEF job, a, b
  <2>3. run = RunFrom(job, b, a, run)
    BY <1>3 DEF job, a, b
  <2>4. JobData(job, a) /\ job.table \in DOMAIN cat.roots
    BY <1>1, <1>3, <2>1, <2>2 DEF JobData
  <2>5. JobData(job, run[b])
    BY <2>2, <2>3, <2>4, RunData
  <2>6. QED
    BY <1>3, <2>1, <2>5 DEF JobData, b
<1>4. QED
  BY <1>2, <1>3, InsertRuns

\* A sweep leaves the catalog and the system tables alone.
LEMMA SweptData ==
    ASSUME NEW m, Describes(work, cat, m), NEW kind, kind # "insert", NEW stmt, NEW out,
           out = Refused \/ (stmt.table \in DOMAIN cat.schemas /\ Swept(kind, stmt, out))
    PROVE  DataOnly(out)
<1>1. IsCatalog(cat) /\ DOMAIN cat.schemas = DOMAIN cat.roots
  BY SchemasOfTables
<1>2. CASE out = Refused
  BY <1>1, <1>2, NothingDone DEF Refused
<1>3. CASE stmt.table \in DOMAIN cat.schemas /\ Swept(kind, stmt, out)
  <2>1. PICK plan, set, st, run :
            /\ st.out = Outcome("Ok", work, cat)
            /\ run = RunFrom(Job(kind, stmt.table, plan, set), MaxVisits, st, run)
            /\ out = run[MaxVisits].out
    BY <1>3 DEF Swept
  <2> DEFINE job == Job(kind, stmt.table, plan, set)
  <2>2. job.kind # "insert" /\ job.table \in DOMAIN cat.roots
    BY <1>1, <1>3 DEF Job
  <2>3. MaxVisits \in Nat
    BY BoundsAssumption
  <2> HIDE DEF job
  <2>4. JobData(job, st)
    BY <1>1, <2>1, <2>2, NothingDone DEF JobData
  <2>5. run = RunFrom(job, MaxVisits, st, run)
    BY <2>1 DEF job
  <2>6. JobData(job, run[MaxVisits])
    BY <2>2, <2>3, <2>4, <2>5, RunData
  <2>7. QED
    BY <2>1, <2>2, <2>6 DEF JobData
<1>4. QED
  BY <1>2, <1>3

\* DELETE leaves the catalog and the system tables alone.
LEMMA DeleteData ==
    ASSUME NEW m, Describes(work, cat, m), NEW stmt, NEW out, out = delete(stmt)
    PROVE  DataOnly(out)
BY DeleteRuns, SweptData

\* UPDATE leaves the catalog and the system tables alone.
LEMMA UpdateData ==
    ASSUME NEW m, Describes(work, cat, m), NEW stmt, NEW out, out = update(stmt)
    PROVE  DataOnly(out)
BY UpdateRuns, SweptData

-----------------------------------------------------------------------------
(* The invariant *)

\* The system tables of the committed store tell of a catalog; the cache is
\* the one that the connection's own system tables tell of, unless a change to
\* it was rolled back, and they are the committed ones unless the transaction
\* has changed them.
CatInv ==
    /\ next_root \in Nat /\ next_root >= 4
    /\ Describes(disk, bootstrap(disk), next_root)
    /\ undone => ~txn
    /\ ~ddl => SameSystem(disk, work)
    /\ ~undone => Describes(work, cat, next_root) /\ SysFresh(cat, work)

\* A larger allocator changes nothing.
LEMMA DescribesLater ==
    ASSUME NEW s, NEW c, NEW n \in Nat, Describes(s, c, n)
    PROVE  Describes(s, c, n + 1)
BY RootsDistinctLater DEF Describes

\* The cache is as good a cache as itself.
LEMMA SameMapsSelf ==
    ASSUME IsCatalog(cat)
    PROVE  SameMaps(cat, cat)
BY DEF SameMaps

\* A statement that has succeeded leaves a catalog that its store describes.
Succeeds(out, changesCatalog) ==
    /\ out.root \in {next_root, next_root + 1}
    /\ Describes(out.store, out.cat, out.root)
    /\ SysFresh(out.cat, out.store)
    /\ ~changesCatalog => SameSystem(work, out.store)

\* One that has failed leaves the cache as good as it was.
Fails(out) == out.root = next_root /\ SameMaps(cat, out.cat)

\* A CREATE TABLE that fails has done nothing.
LEMMA CreateTableFails ==
    ASSUME IsCatalog(cat), NEW def, NEW out, out = create_table(def), out.res # "Ok"
    PROVE  Fails(out) /\ out.cat = cat
<1> DEFINE schema  == Renamed(def.columns, def.name)
           columns == [i \in DOMAIN schema |-> [table |-> def.name, col |-> schema[i]]]
           root    == <<[table |-> def.name, root |-> next_root]>>
           s == [work EXCEPT ![SYS_ROOTS]   = InsertAll(@, cat.next_sys, root),
                             ![SYS_SCHEMAS] = InsertAll(@, cat.next_sys + 1, columns)]
           c == [cat EXCEPT !.roots    = With(@, def.name, next_root),
                            !.schemas  = With(@, def.name, schema),
                            !.next_row = With(@, def.name, 1),
                            !.next_sys = @ + 1 + Len(columns)]
<1>1. out = IF def.name \in DOMAIN cat.roots THEN Outcome("Exec", work, cat)
            ELSE [Outcome("Ok", s, c) EXCEPT !.root = next_root + 1]
  BY Zenon DEF create_table
<1> HIDE DEF s, c
<1>2. [Outcome("Ok", s, c) EXCEPT !.root = next_root + 1].res = "Ok"
  BY DEF Outcome
<1>3. out = Outcome("Exec", work, cat)
  BY <1>1, <1>2
<1>4. out.root = next_root /\ out.cat = cat
  BY <1>3 DEF Outcome
<1>5. QED
  BY <1>4, SameMapsSelf DEF Fails

\* So has a DROP TABLE.
LEMMA DropTableFails ==
    ASSUME IsCatalog(cat), NEW table, NEW out, out = drop_table(table), out.res # "Ok"
    PROVE  Fails(out) /\ out.cat = cat
<1> DEFINE DeleteOf(tree) ==
            LET ids == {id \in DOMAIN tree.live : tree.live[id].table = table}
            IN  [live |-> [id \in DOMAIN tree.live \ ids |-> tree.live[id]], dead |-> tree.dead \cup ids]
           s == [r \in DOMAIN work |-> IF r \in SysRoots THEN DeleteOf(work[r]) ELSE work[r]]
           c == [cat EXCEPT !.roots   = Without(@, table),
                            !.schemas = Without(@, table),
                            !.indexes = Without(@, table)]
<1>1. out = IF table \notin DOMAIN cat.roots THEN Outcome("Exec", work, cat) ELSE Outcome("Ok", s, c)
  BY Zenon DEF drop_table
<1> HIDE DEF s, c
<1>2. Outcome("Ok", s, c).res = "Ok"
  BY DEF Outcome
<1>3. out = Outcome("Exec", work, cat)
  BY <1>1, <1>2
<1>4. out.root = next_root /\ out.cat = cat
  BY <1>3 DEF Outcome
<1>5. QED
  BY <1>4, SameMapsSelf DEF Fails

\* A statement that writes rows only succeeds or fails in this sense.
LEMMA DataOutcome ==
    ASSUME Describes(work, cat, next_root), SysFresh(cat, work), NEW out, DataOnly(out)
    PROVE  Succeeds(out, FALSE) /\ Fails(out)
<1>1. out.root = next_root /\ SameSystem(work, out.store) /\ SameMaps(cat, out.cat)
  BY DEF DataOnly
<1>2. Describes(work, out.cat, next_root) /\ SysFresh(out.cat, work)
  BY <1>1, SameMapsDescribes
<1>3. Describes(out.store, out.cat, next_root) /\ SysFresh(out.cat, out.store)
  BY <1>1, <1>2, SameSystemDescribes
<1>4. QED
  BY <1>1, <1>3 DEF Succeeds, Fails

\* Whether a statement succeeds or fails, the invariant stays.
LEMMA StatementKeeps ==
    ASSUME CatInv, NEW out, NEW changes \in BOOLEAN, execute_statement(out, changes),
           out.res = "Ok" => Succeeds(out, changes), out.res # "Ok" => Fails(out)
    PROVE  CatInv'
<1>1. /\ next_root \in Nat /\ next_root >= 4
      /\ Describes(disk, bootstrap(disk), next_root)
      /\ ~ddl => SameSystem(disk, work)
      /\ ~undone /\ Describes(work, cat, next_root) /\ SysFresh(cat, work)
  BY DEF CatInv, execute_statement
<1>2. cat' = out.cat /\ next_root' = out.root
  BY DEF execute_statement
<1>3. CASE out.res = "Ok"
  <2>1. /\ work' = out.store /\ disk' = (IF txn THEN disk ELSE out.store)
        /\ ddl' = (txn /\ (ddl \/ changes)) /\ txn' = txn /\ undone' = undone
    BY <1>3 DEF execute_statement
  <2>2. /\ out.root \in {next_root, next_root + 1}
        /\ Describes(out.store, out.cat, out.root) /\ SysFresh(out.cat, out.store)
        /\ ~changes => SameSystem(work, out.store)
    BY <1>3 DEF Succeeds
  <2>3. next_root' \in Nat /\ next_root' >= 4
    BY <1>1, <1>2, <2>2
  <2>4. Describes(disk, bootstrap(disk), out.root)
    BY <1>1, <2>2, DescribesLater
  <2>5. Describes(disk', bootstrap(disk'), next_root')
    <3>1. CASE txn
      <4>1. disk' = disk
        BY <2>1, <3>1
      <4>2. QED
        BY <1>2, <2>4, <4>1
    <3>2. CASE ~txn
      <4>1. disk' = out.store
        BY <2>1, <3>2
      <4>2. Describes(out.store, bootstrap(out.store), out.root)
        BY <2>2, BootstrapDescribes
      <4>3. QED
        BY <1>2, <4>1, <4>2
    <3>3. QED
      BY <3>1, <3>2
  <2>6. ASSUME ~ddl' PROVE SameSystem(disk', work')
    <3>1. CASE txn
      <4>1. disk' = disk /\ work' = out.store /\ ~ddl /\ ~changes
        BY <2>1, <2>6, <3>1
      <4>2. SameSystem(disk, work) /\ SameSystem(work, out.store)
        BY <1>1, <2>2, <4>1
      <4>3. SameSystem(disk, out.store)
        BY <4>2 DEF SameSystem
      <4>4. QED
        BY <4>1, <4>3
    <3>2. CASE ~txn
      <4>1. disk' = work'
        BY <2>1, <3>2
      <4>2. QED
        BY <4>1 DEF SameSystem
    <3>3. QED
      BY <3>1, <3>2
  <2>7. Describes(work', cat', next_root') /\ SysFresh(cat', work')
    BY <1>2, <2>1, <2>2
  <2>8. undone' => ~txn'
    BY <1>1, <2>1
  <2>9. QED
    BY <2>3, <2>5, <2>6, <2>7, <2>8 DEF CatInv
<1>4. CASE out.res # "Ok"
  <2>1. work' = disk /\ disk' = disk /\ ~txn' /\ undone' = ddl /\ ~ddl'
    BY <1>4 DEF execute_statement
  <2>2. out.root = next_root /\ SameMaps(cat, out.cat)
    BY <1>4 DEF Fails
  <2>3. next_root' = next_root
    BY <1>2, <2>2
  <2>4. Describes(disk', bootstrap(disk'), next_root')
    BY <1>1, <2>1, <2>3
  <2>5. SameSystem(disk', work')
    BY <2>1 DEF SameSystem
  <2>6. ASSUME ~undone' PROVE Describes(work', cat', next_root') /\ SysFresh(cat', work')
    <3>1. SameSystem(disk, work)
      BY <1>1, <2>1, <2>6
    <3>2. SameSystem(work, disk)
      BY <3>1 DEF SameSystem
    <3>3. Describes(disk, cat, next_root) /\ SysFresh(cat, disk)
      BY <1>1, <3>2, SameSystemDescribes
    <3>4. Describes(disk, out.cat, next_root) /\ SysFresh(out.cat, disk)
      BY <2>2, <3>3, SameMapsDescribes
    <3>5. QED
      BY <1>2, <2>1, <2>3, <3>4
  <2>7. next_root' \in Nat /\ next_root' >= 4
    BY <1>1, <2>3
  <2>8. QED
    BY <2>1, <2>4, <2>5, <2>6, <2>7 DEF CatInv
<1>5. QED
  BY <1>3, <1>4

\* An empty database has an empty catalog.
LEMMA CatInit == Init => CatInv
<1> SUFFICES ASSUME Init PROVE CatInv
  OBVIOUS
<1>1. /\ disk = [r \in 1..MaxRoot |-> EmptyTree] /\ work = disk /\ cat = bootstrap(disk)
      /\ next_root = 4 /\ txn = FALSE /\ ddl = FALSE /\ undone = FALSE
  BY DEF Init
<1> DEFINE none == [t \in {} |-> 0]
           c == [roots |-> none, schemas |-> none, indexes |-> none, next_row |-> none, next_sys |-> 1]
<1>2. DOMAIN none = {} /\ none = [t \in {} |-> none[t]]
  OBVIOUS
<1> HIDE DEF none
<1>3. IsCatalog(c) /\ c.roots = none /\ c.schemas = none /\ c.indexes = none
  BY DEF IsCatalog
<1> HIDE DEF c
<1>4. /\ DOMAIN EmptyTree = {"live", "dead"}
      /\ DOMAIN EmptyTree.live = {} /\ EmptyTree.dead = {}
  BY DEF EmptyTree
<1>5. SysRoots \subseteq 1..MaxRoot
  BY BoundsAssumption DEF SysRoots, SYS_ROOTS, SYS_SCHEMAS, SYS_INDEXES
<1>6. \A r \in SysRoots : disk[r] = EmptyTree
  BY <1>1, <1>5
<1>7. SystemTree(EmptyTree)
  BY <1>4, FS_EmptySet DEF SystemTree
<1>8. IsStore(disk)
  BY <1>1, <1>6, <1>7 DEF IsStore
<1>9. \A r \in SysRoots : DOMAIN disk[r].live = {}
  BY <1>4, <1>6
<1>10. RootsAgree(c, disk)
  BY <1>2, <1>3, <1>9 DEF RootsAgree, SysRoots
<1>11. SchemasAgree(c, disk)
  BY <1>2, <1>3, <1>9 DEF SchemasAgree, SysRoots
<1>12. IndexesAgree(c, disk)
  BY <1>2, <1>3, <1>9 DEF IndexesAgree, SysRoots
<1>13. RootsDistinct(c, 4)
  BY <1>2, <1>3 DEF RootsDistinct
<1>14. Describes(disk, c, 4)
  BY <1>3, <1>8, <1>10, <1>11, <1>12, <1>13 DEF Describes
<1>15. Describes(disk, bootstrap(disk), 4) /\ SysFresh(bootstrap(disk), disk)
  BY <1>8, <1>14, BootstrapDescribes, BootstrapFresh
<1>16. SameSystem(disk, work)
  BY <1>1 DEF SameSystem
<1>17. QED
  BY <1>1, <1>15, <1>16 DEF CatInv

\* A statement that writes rows, or none, keeps the invariant.
LEMMA RowsKeep ==
    ASSUME CatInv, NEW out, DataOnly(out), execute_statement(out, FALSE)
    PROVE  CatInv'
<1>1. Describes(work, cat, next_root) /\ SysFresh(cat, work)
  BY DEF CatInv, execute_statement
<1>2. Succeeds(out, FALSE) /\ Fails(out)
  BY <1>1, DataOutcome, Zenon
<1>3. QED
  BY <1>2, StatementKeeps, Zenon

\* Every step keeps the invariant.
LEMMA CatNext == CatInv /\ [Next]_vars => CatInv'
<1> SUFFICES ASSUME CatInv, [Next]_vars PROVE CatInv'
  OBVIOUS
<1>1. /\ next_root \in Nat /\ next_root >= 4
      /\ Describes(disk, bootstrap(disk), next_root)
      /\ undone => ~txn
      /\ ~ddl => SameSystem(disk, work)
      /\ ~undone => Describes(work, cat, next_root) /\ SysFresh(cat, work)
  BY DEF CatInv
<1>2. ASSUME NEW out, NEW changes, execute_statement(out, changes)
      PROVE  Describes(work, cat, next_root) /\ SysFresh(cat, work) /\ IsCatalog(cat)
  BY <1>1, <1>2 DEF execute_statement, Describes
<1>3. ASSUME NEW def \in Tables, CreateTable(def) PROVE CatInv'
  <2> DEFINE out == create_table(def)
  <2>1. execute_statement(out, TRUE)
    BY <1>3, Zenon DEF CreateTable
  <2>2. Describes(work, cat, next_root) /\ SysFresh(cat, work) /\ IsCatalog(cat)
    BY <1>2, <2>1, Zenon
  <2>3. out.res = "Ok" => Succeeds(out, TRUE)
    BY <1>1, <2>2, CreateTableDescribes DEF Succeeds
  <2>4. out.res # "Ok" => Fails(out)
    BY <2>2, CreateTableFails
  <2> HIDE DEF out
  <2>5. QED
    BY <2>1, <2>3, <2>4, StatementKeeps, Zenon
<1>4. ASSUME NEW table, DropTable(table) PROVE CatInv'
  <2> DEFINE out == drop_table(table)
  <2>1. execute_statement(out, TRUE)
    BY <1>4, Zenon DEF DropTable
  <2>2. Describes(work, cat, next_root) /\ SysFresh(cat, work) /\ IsCatalog(cat)
    BY <1>2, <2>1, Zenon
  <2>3. out.res = "Ok" => Succeeds(out, TRUE)
    BY <1>1, <2>2, DropTableDescribes DEF Succeeds
  <2>4. out.res # "Ok" => Fails(out)
    BY <2>2, DropTableFails
  <2> HIDE DEF out
  <2>5. QED
    BY <2>1, <2>3, <2>4, StatementKeeps, Zenon
<1>5. ASSUME NEW def, CreateIndex(def) PROVE CatInv'
  <2> DEFINE out == create_index(def)
  <2>1. execute_statement(out, TRUE)
    BY <1>5 DEF CreateIndex
  <2>2. Describes(work, cat, next_root) /\ SysFresh(cat, work) /\ IsCatalog(cat)
    BY <1>2, <2>1, Zenon
  <2>3. out.res = "Ok" => Succeeds(out, TRUE)
    BY <1>1, <2>2, CreateIndexDescribes DEF Succeeds
  <2>4. out.res # "Ok" => Fails(out)
    BY <2>2, CreateIndexFails DEF Fails
  <2> HIDE DEF out
  <2>5. QED
    BY <2>1, <2>3, <2>4, StatementKeeps, Zenon
<1>6. ASSUME NEW stmt \in Inserts, Insert(stmt) PROVE CatInv'
  <2> DEFINE out == insert(stmt)
  <2>1. execute_statement(out, FALSE)
    BY <1>6 DEF Insert
  <2>2. DataOnly(out)
    BY <1>2, <2>1, InsertData, Zenon
  <2> HIDE DEF out
  <2>3. QED
    BY <2>1, <2>2, RowsKeep, Zenon
<1>7. ASSUME NEW stmt, Update(stmt) PROVE CatInv'
  <2> DEFINE out == update(stmt)
  <2>1. execute_statement(out, FALSE)
    BY <1>7 DEF Update
  <2>2. DataOnly(out)
    BY <1>2, <2>1, UpdateData, Zenon
  <2> HIDE DEF out
  <2>3. QED
    BY <2>1, <2>2, RowsKeep, Zenon
<1>8. ASSUME NEW stmt, Delete(stmt) PROVE CatInv'
  <2> DEFINE out == delete(stmt)
  <2>1. execute_statement(out, FALSE)
    BY <1>8, Zenon DEF Delete
  <2>2. DataOnly(out)
    BY <1>2, <2>1, DeleteData, Zenon
  <2> HIDE DEF out
  <2>3. QED
    BY <2>1, <2>2, RowsKeep, Zenon
<1>9. ASSUME NEW stmt, Select(stmt) PROVE CatInv'
  <2> DEFINE out == Outcome("Exec", work, cat)
  <2>1. execute_statement(out, FALSE)
    BY <1>9 DEF Select
  <2>2. DataOnly(out)
    BY <1>2, <2>1, NothingDone, Zenon
  <2> HIDE DEF out
  <2>3. QED
    BY <2>1, <2>2, RowsKeep, Zenon
<1>10. CASE handle_begin
  <2>1. ~undone /\ UNCHANGED <<disk, work, cat, next_root, ddl, undone>>
    BY <1>10 DEF handle_begin
  <2>2. QED
    BY <1>1, <2>1 DEF CatInv
<1>11. CASE handle_commit
  <2>1. txn /\ disk' = work /\ ~txn' /\ UNCHANGED <<work, cat, next_root, undone>>
    BY <1>11 DEF handle_commit
  <2>2. Describes(work, cat, next_root) /\ SysFresh(cat, work)
    BY <1>1, <2>1
  <2>3. Describes(work, bootstrap(work), next_root)
    BY <2>2, BootstrapDescribes
  <2>4. Describes(disk', bootstrap(disk'), next_root')
    BY <2>1, <2>3
  <2>5. SameSystem(disk', work')
    BY <2>1 DEF SameSystem
  <2>6. next_root' \in Nat /\ next_root' >= 4 /\ Describes(work', cat', next_root') /\ SysFresh(cat', work')
    BY <1>1, <2>1, <2>2
  <2>7. QED
    BY <2>1, <2>4, <2>5, <2>6 DEF CatInv
<1>12. CASE handle_rollback
  <2>1. txn /\ work' = disk /\ ~txn' /\ ~ddl' /\ undone' = ddl /\ UNCHANGED <<disk, cat, next_root>>
    BY <1>12 DEF handle_rollback
  <2>2. SameSystem(disk', work')
    BY <2>1 DEF SameSystem
  <2>3. ASSUME ~undone' PROVE Describes(work', cat', next_root') /\ SysFresh(cat', work')
    <3>1. SameSystem(disk, work) /\ Describes(work, cat, next_root) /\ SysFresh(cat, work)
      BY <1>1, <2>1, <2>3
    <3>2. SameSystem(work, disk)
      BY <3>1 DEF SameSystem
    <3>3. Describes(disk, cat, next_root) /\ SysFresh(cat, disk)
      BY <3>1, <3>2, SameSystemDescribes
    <3>4. QED
      BY <2>1, <3>3
  <2>4. next_root' \in Nat /\ next_root' >= 4 /\ Describes(disk', bootstrap(disk'), next_root')
    BY <1>1, <2>1
  <2>5. QED
    BY <2>1, <2>2, <2>3, <2>4 DEF CatInv
<1>13. CASE Restart
  <2>1. work' = disk /\ cat' = bootstrap(disk) /\ ~txn' /\ UNCHANGED <<disk, next_root>>
    BY <1>13 DEF Restart
  <2>2. SameSystem(disk', work')
    BY <2>1 DEF SameSystem
  <2>3. IsStore(disk)
    BY <1>1 DEF Describes
  <2>4. SysFresh(bootstrap(disk), disk)
    BY <2>3, BootstrapFresh
  <2>5. Describes(work', cat', next_root') /\ SysFresh(cat', work')
    BY <1>1, <2>1, <2>4
  <2>6. next_root' \in Nat /\ next_root' >= 4 /\ Describes(disk', bootstrap(disk'), next_root')
    BY <1>1, <2>1
  <2>7. QED
    BY <2>1, <2>2, <2>5, <2>6 DEF CatInv
<1>14. CASE UNCHANGED vars
  BY <1>1, <1>14 DEF CatInv, vars
<1>15. QED
  BY <1>3, <1>4, <1>5, <1>6, <1>7, <1>8, <1>9, <1>10, <1>11, <1>12, <1>13, <1>14 DEF Next

\* The invariant makes the cache agree with the system tables and the roots
\* belong to one owner each.
LEMMA CatMatches == CatInv => CatalogMatches
<1> SUFFICES ASSUME CatInv, ~undone PROVE CatalogMatches
  BY Zenon DEF CatalogMatches
<1>1. Describes(work, cat, next_root)
  BY DEF CatInv
<1>2. SameCatalog(cat, bootstrap(work))
  BY <1>1, BootstrapSame
<1>3. RootsDistinct(cat, next_root) /\ IndexesAgree(cat, work)
  BY <1>1 DEF Describes
<1> DEFINE none == ""
           indexes == show_indexes(cat)
           owners == {<<t, "">> : t \in DOMAIN cat.roots} \cup {<<x.table, x.name>> : x \in indexes}
           RootOf(o) == IF o[2] = "" THEN cat.roots[o[1]] ELSE cat.indexes[o[1]][o[2]].root
           Root(t, i) == IF i = none THEN cat.roots[t] ELSE cat.indexes[t][i].root
           Owns(t, i) == IF i = none THEN t \in DOMAIN cat.roots
                         ELSE t \in DOMAIN cat.indexes /\ i \in DOMAIN cat.indexes[t]
<1>4. ASSUME NEW x \in indexes
      PROVE  x.table \in DOMAIN cat.indexes /\ x.name \in DOMAIN cat.indexes[x.table]
  BY DEF show_indexes
<1>5. ASSUME NEW t \in DOMAIN cat.indexes, NEW i \in DOMAIN cat.indexes[t]
      PROVE  t \in DOMAIN cat.roots
  BY <1>3 DEF IndexesAgree, IndexKnown, IndexIds, IdsOf
<1> HIDE DEF none, indexes
<1>6. ASSUME NEW t, NEW i, NEW d, NEW j, Owns(t, i), Owns(d, j), Root(t, i) = Root(d, j)
      PROVE  t = d /\ i = j
  BY <1>3, <1>6 DEF RootsDistinct
<1>7. /\ \A t \in DOMAIN cat.roots : Owns(t, none)
      /\ \A x \in indexes : Owns(x.table, x.name)
  BY <1>4, <1>5
<1> HIDE DEF Owns, Root
<1>8. \A t, i : <<t, i>>[1] = t /\ <<t, i>>[2] = i
  OBVIOUS
<1>9. ASSUME NEW o \in owners PROVE Owns(o[1], o[2]) /\ o = <<o[1], o[2]>> /\ RootOf(o) = Root(o[1], o[2])
  <2>1. \/ \E t \in DOMAIN cat.roots : o = <<t, "">>
        \/ \E x \in indexes : o = <<x.table, x.name>>
    BY Zenon
  <2>2. \E t, i : o = <<t, i>> /\ Owns(t, i)
    BY <1>7, <2>1, Zenon DEF none
  <2>3. o = <<o[1], o[2]>> /\ Owns(o[1], o[2])
    BY <1>8, <2>2, Zenon
  <2>4. RootOf(o) = Root(o[1], o[2])
    BY Zenon DEF Root, none
  <2>5. QED
    BY <2>3, <2>4, Zenon
<1> HIDE DEF RootOf, owners
<1>10. ASSUME NEW o \in owners, NEW p \in owners, RootOf(o) = RootOf(p) PROVE o = p
  <2>1. o = <<o[1], o[2]>> /\ Owns(o[1], o[2]) /\ RootOf(o) = Root(o[1], o[2])
    BY <1>9, Zenon
  <2>2. p = <<p[1], p[2]>> /\ Owns(p[1], p[2]) /\ RootOf(p) = Root(p[1], p[2])
    BY <1>9, Zenon
  <2>3. Root(o[1], o[2]) = Root(p[1], p[2])
    BY <1>10, <2>1, <2>2, Zenon
  <2>4. o[1] = p[1] /\ o[2] = p[2]
    BY <1>6, <2>1, <2>2, <2>3, Zenon
  <2>5. QED
    BY <2>1, <2>2, <2>4, Zenon
<1>11. \A o, p \in owners : RootOf(o) = RootOf(p) => o = p
  BY <1>10, Zenon
<1>12. QED
  BY <1>2, <1>11, Zenon DEF CatalogMatches, RootOf, owners, indexes

\* The cache and the system tables tell the same story, and no two tables or
\* indexes share a root page, whatever the tables, indexes and statements, as
\* long as no change to the catalog is rolled back.
THEOREM CatalogAgrees == Spec => []CatalogMatches
<1>1. Spec => []CatInv
  BY CatInit, CatNext, PTL DEF Spec
<1>2. QED
  BY <1>1, CatMatches, PTL

-----------------------------------------------------------------------------
(* Row ids.  RowInv is about the trees of the tables, and CatInv about the
   system tables; the one needs the other. *)

\* The trees of the tables have finitely many slots.
RowTrees(s, c) == \A t \in DOMAIN c.roots : SystemTree(s[c.roots[t]])

\* The counters are ahead of the rows.
Ahead(s, c) ==
    /\ DOMAIN c.roots \subseteq DOMAIN c.next_row
    /\ \A t \in DOMAIN c.roots :
          c.next_row[t] \in Nat /\ \A id \in DOMAIN s[c.roots[t]].live : id < c.next_row[t]

\* The pages from n on were never used.
Unused(s, n) == DOMAIN s = 1..MaxRoot /\ \A r \in n..MaxRoot : s[r] = EmptyTree

\* The schema of a table is the one of some CREATE TABLE.
DeclaredBy(def, c, t) == def.name = t /\ c.schemas[t] = Renamed(def.columns, def.name)
Declared(c) == \A t \in DOMAIN c.roots : \E def \in Tables : DeclaredBy(def, c, t)

\* The rows of a store are in order.
RowsOf(s, c) == RowTrees(s, c) /\ Ahead(s, c)

\* The empty tree.
LEMMA EmptyTreeIs == SystemTree(EmptyTree) /\ DOMAIN EmptyTree.live = {}
<1>1. DOMAIN EmptyTree = {"live", "dead"} /\ DOMAIN EmptyTree.live = {} /\ EmptyTree.dead = {}
  BY DEF EmptyTree
<1>2. QED
  BY <1>1, FS_EmptySet DEF SystemTree

\* An insertion adds one key.
LEMMA TreeInsertIs ==
    ASSUME NEW tree, SystemTree(tree), NEW key \in Nat, NEW val, NEW new \in tree_insert(tree, key, val)
    PROVE  SystemTree(new) /\ DOMAIN new.live = DOMAIN tree.live \cup {key}
<1> DEFINE live == With(tree.live, key, val)
           dead == IF key \in tree.dead THEN {} ELSE tree.dead
<1>1. new = [live |-> live, dead |-> dead]
  BY DEF tree_insert
<1>2. DOMAIN live = DOMAIN tree.live \cup {key} /\ dead \subseteq tree.dead
  BY DEF With
<1> HIDE DEF live, dead
<1>3. IsFiniteSet(DOMAIN tree.live \cup {key}) /\ IsFiniteSet(dead)
  BY <1>2, FS_AddElement, FS_Subset DEF SystemTree
<1>4. DOMAIN new = {"live", "dead"} /\ new.live = live /\ new.dead = dead
  BY <1>1
<1>5. QED
  BY <1>2, <1>3, <1>4 DEF SystemTree

\* An update adds none.
LEMMA TreeUpdateIs ==
    ASSUME NEW tree, SystemTree(tree), NEW key, NEW val, NEW new, new = tree_update(tree, key, val)
    PROVE  SystemTree(new) /\ DOMAIN new.live = DOMAIN tree.live
<1> DEFINE live == [tree.live EXCEPT ![key] = val]
<1>1. new = [tree EXCEPT !.live = live]
  BY Zenon DEF tree_update
<1>2. DOMAIN live = DOMAIN tree.live
  OBVIOUS
<1> HIDE DEF live
<1>3. DOMAIN new = {"live", "dead"} /\ new.live = live /\ new.dead = tree.dead
  BY <1>1 DEF SystemTree
<1>4. QED
  BY <1>2, <1>3 DEF SystemTree

\* A deletion leaves a tombstone at most.
LEMMA TreeDeleteIs ==
    ASSUME NEW tree, SystemTree(tree), NEW key, NEW new, new = tree_delete(tree, key)
    PROVE  SystemTree(new) /\ DOMAIN new.live \subseteq DOMAIN tree.live
<1> DEFINE live == [k \in DOMAIN tree.live \ {key} |-> tree.live[k]]
           dead == tree.dead \cup ({key} \cap DOMAIN tree.live)
<1>1. new = [live |-> live, dead |-> dead]
  BY Zenon DEF tree_delete
<1>2. DOMAIN live = DOMAIN tree.live \ {key}
  OBVIOUS
<1>3. /\ DOMAIN tree.live \subseteq Nat /\ IsFiniteSet(DOMAIN tree.live)
      /\ tree.dead \subseteq Nat /\ IsFiniteSet(tree.dead)
  BY DEF SystemTree
<1>4. IsFiniteSet(DOMAIN tree.live \ {key})
  BY <1>3, FS_Subset
<1>5. IsFiniteSet({key} \cap DOMAIN tree.live)
  BY <1>3, FS_Subset
<1>6. IsFiniteSet(dead)
  BY <1>3, <1>5, FS_Union
<1>7. dead \subseteq Nat
  BY <1>3
<1> HIDE DEF live, dead
<1>8. DOMAIN new = {"live", "dead"} /\ new.live = live /\ new.dead = dead
  BY <1>1
<1>9. QED
  BY <1>2, <1>3, <1>4, <1>6, <1>7, <1>8 DEF SystemTree

\* The counter moves behind the id, and never back.
LEMMA WatermarkIs ==
    ASSUME NEW counter \in Nat, NEW row_id \in Nat
    PROVE  /\ Watermark(counter, row_id) \in Nat
           /\ Watermark(counter, row_id) >= counter /\ Watermark(counter, row_id) > row_id
<1> DEFINE S == {counter, row_id + 1}
<1>1. IsFiniteSet(S)
  <2>1. S = {counter} \cup {row_id + 1}
    OBVIOUS
  <2>2. IsFiniteSet({counter})
    BY FS_Singleton
  <2> HIDE DEF S
  <2>3. QED
    BY <2>1, <2>2, FS_AddElement
<1>2. S \in SUBSET Nat /\ S # {} /\ counter \in S /\ row_id + 1 \in S
  OBVIOUS
<1> HIDE DEF S
<1>3. Max(S) \in Nat /\ Max(S) >= counter /\ Max(S) >= row_id + 1
  BY <1>1, <1>2, MaxOfFinite
<1>4. Watermark(counter, row_id) = Max(S)
  BY DEF Watermark, S
<1>5. QED
  BY <1>3, <1>4

\* A set of numbers that is not empty has a smallest one.
LEMMA MinOfNumbers ==
    ASSUME NEW S \in SUBSET Nat, S # {}
    PROVE  Min(S) \in S
<1> DEFINE R == {ss \in Nat \X Nat : ss[1] < ss[2]}
<1>1. IsWellFoundedOn(R, Nat)
  BY NatLessThanWellFounded DEF OpToRel
<1> HIDE DEF R
<1>2. PICK n \in S : \A m \in S : ~(<<m, n>> \in R)
  BY <1>1, WFMin
<1>3. ASSUME NEW m \in S, m < n PROVE <<m, n>> \in R
  BY <1>3 DEF R
<1>4. \A m \in S : n \in Nat /\ m \in Nat /\ ~(m < n)
  BY <1>2, <1>3, Zenon
<1>5. \E a \in S : \A m \in S : a <= m
  BY <1>4
<1>6. QED
  BY <1>5 DEF Min

\* The primary key is a column.
LEMMA PrimaryKeyIs ==
    ASSUME NEW schema, DOMAIN schema \subseteq Nat
    PROVE  primary_key_idx(schema) # 0 => primary_key_idx(schema) \in DOMAIN schema
<1> DEFINE pks == {i \in DOMAIN schema : schema[i].pk}
<1>1. CASE pks = {}
  BY <1>1 DEF primary_key_idx
<1>2. CASE pks # {}
  <2>1. pks \in SUBSET Nat
    OBVIOUS
  <2>2. primary_key_idx(schema) = Min(pks)
    BY <1>2, Zenon DEF primary_key_idx
  <2> HIDE DEF pks
  <2>3. Min(pks) \in pks
    BY <1>2, <2>1, MinOfNumbers
  <2>4. QED
    BY <2>2, <2>3 DEF pks
<1>3. QED
  BY <1>1, <1>2

-----------------------------------------------------------------------------
(* Rows and counters under the statements that write rows *)

\* The counters of a statement have not moved back.
CountersDone(rows) ==
    /\ DOMAIN cat.roots \subseteq DOMAIN rows
    /\ \A t \in DOMAIN cat.roots : rows[t] \in Nat /\ rows[t] >= cat.next_row[t]

\* Nor has a row reached its counter, or a tree a page that is unused.
StoreDone(s, rows) ==
    /\ Unused(s, next_root) /\ RowTrees(s, cat)
    /\ \A t \in DOMAIN cat.roots : \A id \in DOMAIN s[cat.roots[t]].live : id < rows[t]

\* What a statement has done so far is in order.
RowsDone(out) == CountersDone(out.cat.next_row) /\ StoreDone(out.store, out.cat.next_row)

\* Of the trees of tables, one is written.
WritesTree(s, z, table, tree) ==
    /\ Unused(z, next_root)
    /\ z[cat.roots[table]] = tree
    /\ \A t \in DOMAIN cat.roots : t # table => z[cat.roots[t]] = s[cat.roots[t]]

\* A write of a row leaves the trees of the other tables alone.
LEMMA RowWriteKeeps ==
    ASSUME Describes(work, cat, next_root), next_root \in 4..(MaxRoot + 1), NEW table \in DOMAIN cat.roots,
           NEW s, Unused(s, next_root), NEW tree,
           NEW w, w = [s EXCEPT ![cat.roots[table]] = tree], NEW z, OnlyIndexes(w, z, table)
    PROVE  WritesTree(s, z, table, tree)
<1>1. /\ \A t \in DOMAIN cat.roots : cat.roots[t] \in 4..(next_root - 1)
      /\ \A t \in DOMAIN cat.roots : t # table => cat.roots[t] # cat.roots[table]
  BY DEF Describes, RootsDistinct
<1>2. ASSUME NEW meta \in IndexesOf(cat, table)
      PROVE  meta.root \in 4..(next_root - 1) /\ \A t \in DOMAIN cat.roots : cat.roots[t] # meta.root
  <2>1. DOMAIN <<>> = {}
    OBVIOUS
  <2>2. PICK i : table \in DOMAIN cat.indexes /\ i \in DOMAIN cat.indexes[table] /\ meta = cat.indexes[table][i]
    BY <2>1 DEF IndexesOf, table_indexes
  <2>3. QED
    BY <2>2 DEF Describes, RootsDistinct
<1>3. MaxRoot \in Nat /\ 4..(next_root - 1) \subseteq 1..MaxRoot
  BY BoundsAssumption
<1>4. /\ DOMAIN s = 1..MaxRoot /\ \A r \in next_root..MaxRoot : s[r] = EmptyTree
  BY DEF Unused
<1>5. /\ DOMAIN w = 1..MaxRoot
      /\ w[cat.roots[table]] = tree
      /\ \A r \in 1..MaxRoot : r # cat.roots[table] => w[r] = s[r]
  BY <1>1, <1>3, <1>4
<1>6. OnlyIndexes(w, z, table)
  OBVIOUS
<1>7. DOMAIN z = 1..MaxRoot /\ \A t \in DOMAIN cat.roots : z[cat.roots[t]] = w[cat.roots[t]]
  BY <1>1, <1>2, <1>3, <1>5, <1>6 DEF OnlyIndexes
<1>8. ASSUME NEW r \in next_root..MaxRoot PROVE z[r] = EmptyTree
  <2>1. r \in 1..MaxRoot /\ \A q \in 4..(next_root - 1) : q # r
    BY <1>3
  <2>2. z[r] = w[r]
    BY <1>2, <1>5, <1>6, <2>1 DEF OnlyIndexes
  <2>3. w[r] = s[r]
    BY <1>1, <1>5, <2>1
  <2>4. QED
    BY <1>4, <2>2, <2>3
<1>9. \A t \in DOMAIN cat.roots : t # table => z[cat.roots[t]] = s[cat.roots[t]]
  BY <1>1, <1>3, <1>5, <1>7
<1>10. QED
  BY <1>5, <1>7, <1>8, <1>9 DEF Unused, WritesTree

\* So the store is in order when the tree that was written is.
LEMMA RowWriteRows ==
    ASSUME Describes(work, cat, next_root), next_root \in 4..(MaxRoot + 1), NEW table \in DOMAIN cat.roots,
           NEW s, NEW rows, StoreDone(s, rows), NEW tree, NEW w, w = [s EXCEPT ![cat.roots[table]] = tree],
           NEW z, OnlyIndexes(w, z, table),
           SystemTree(tree), \A id \in DOMAIN tree.live : id < rows[table]
    PROVE  StoreDone(z, rows)
<1>1. Unused(s, next_root)
  BY DEF StoreDone
<1>2. WritesTree(s, z, table, tree)
  BY <1>1, RowWriteKeeps, Zenon
<1>3. QED
  BY <1>2 DEF StoreDone, RowTrees, WritesTree

\* A deletion keeps the rows in order.
LEMMA DeletedRows ==
    ASSUME Describes(work, cat, next_root), next_root \in 4..(MaxRoot + 1), NEW table \in DOMAIN cat.roots,
           NEW s, NEW rows, StoreDone(s, rows), NEW row, NEW z \in Deleted(table, s, row)
    PROVE  StoreDone(z, rows)
<1> DEFINE tree == tree_delete(s[cat.roots[table]], row.row_id)
<1>0. PICK w : w = [s EXCEPT ![cat.roots[table]] = tree]
  OBVIOUS
<1>1. OnlyIndexes(w, z, table)
  BY <1>0, DeletedOnly
<1>2. /\ SystemTree(s[cat.roots[table]])
      /\ \A id \in DOMAIN s[cat.roots[table]].live : id < rows[table]
  BY DEF StoreDone, RowTrees
<1>3. SystemTree(tree) /\ DOMAIN tree.live \subseteq DOMAIN s[cat.roots[table]].live
  BY <1>2, TreeDeleteIs
<1> HIDE DEF tree
<1>4. QED
  BY <1>0, <1>1, <1>2, <1>3, RowWriteRows

\* So does an update.
LEMMA UpdatedRows ==
    ASSUME Describes(work, cat, next_root), next_root \in 4..(MaxRoot + 1), NEW table \in DOMAIN cat.roots,
           NEW s, NEW rows, StoreDone(s, rows), NEW schema, NEW row, NEW values,
           NEW z \in update_row(s, table, schema, row, values)
    PROVE  StoreDone(z, rows)
<1> DEFINE tree == tree_update(s[cat.roots[table]], row.row_id, values)
<1>0. PICK w : w = [s EXCEPT ![cat.roots[table]] = tree]
  OBVIOUS
<1>1. OnlyIndexes(w, z, table)
  BY <1>0, UpdatedOnly
<1>2. /\ SystemTree(s[cat.roots[table]])
      /\ \A id \in DOMAIN s[cat.roots[table]].live : id < rows[table]
  BY DEF StoreDone, RowTrees
<1>3. SystemTree(tree) /\ DOMAIN tree.live = DOMAIN s[cat.roots[table]].live
  BY <1>2, TreeUpdateIs
<1> HIDE DEF tree
<1>4. QED
  BY <1>0, <1>1, <1>2, <1>3, RowWriteRows

\* So does an insertion of a row whose id the counter is ahead of.
LEMMA InsertedRows ==
    ASSUME Describes(work, cat, next_root), next_root \in 4..(MaxRoot + 1), NEW table \in DOMAIN cat.roots,
           NEW s, NEW rows, StoreDone(s, rows), NEW schema, NEW row_id \in Nat, row_id < rows[table],
           NEW values, NEW z \in insert_row(s, table, schema, row_id, values)
    PROVE  StoreDone(z, rows)
<1>0. PICK tree \in tree_insert(s[cat.roots[table]], row_id, values) :
          \A w : w = [s EXCEPT ![cat.roots[table]] = tree] => OnlyIndexes(w, z, table)
  BY InsertedOnly
<1>1. PICK w : w = [s EXCEPT ![cat.roots[table]] = tree]
  OBVIOUS
<1>2. /\ SystemTree(s[cat.roots[table]])
      /\ \A id \in DOMAIN s[cat.roots[table]].live : id < rows[table]
  BY DEF StoreDone, RowTrees
<1>3. SystemTree(tree) /\ DOMAIN tree.live = DOMAIN s[cat.roots[table]].live \cup {row_id}
  BY <1>2, TreeInsertIs
<1>4. QED
  BY <1>0, <1>1, <1>2, <1>3, RowWriteRows

\* A counter that moves on is as good.
LEMMA CounterMoves ==
    ASSUME NEW s, NEW rows, CountersDone(rows), StoreDone(s, rows),
           \A t \in DOMAIN cat.roots : cat.next_row[t] \in Nat,
           NEW table \in DOMAIN cat.roots, NEW n \in Nat, n >= rows[table]
    PROVE  CountersDone(With(rows, table, n)) /\ StoreDone(s, With(rows, table, n))
<1> DEFINE new == With(rows, table, n)
<1>1. /\ DOMAIN new = DOMAIN rows \cup {table} /\ new[table] = n
      /\ \A t \in DOMAIN rows : t # table => new[t] = rows[t]
  BY DEF With
<1> HIDE DEF new
<1>2. DOMAIN cat.roots \subseteq DOMAIN rows /\ \A t \in DOMAIN cat.roots : rows[t] \in Nat /\ rows[t] >= cat.next_row[t]
  BY DEF CountersDone
<1>3. ASSUME NEW t \in DOMAIN cat.roots PROVE new[t] \in Nat /\ new[t] >= rows[t]
  <2>1. CASE t = table
    BY <1>1, <2>1
  <2>2. CASE t # table
    BY <1>1, <1>2, <2>2
  <2>3. QED
    BY <2>1, <2>2
<1>4. CountersDone(new)
  BY <1>1, <1>2, <1>3 DEF CountersDone
<1>5. ASSUME NEW t \in DOMAIN cat.roots, NEW id \in DOMAIN s[cat.roots[t]].live PROVE id < new[t]
  <2>1. id \in Nat /\ id < rows[t]
    BY DEF StoreDone, RowTrees, SystemTree
  <2>2. QED
    BY <1>2, <1>3, <2>1
<1>6. StoreDone(s, new)
  BY <1>5 DEF StoreDone
<1>7. QED
  BY <1>4, <1>6 DEF new

\* It goes on with one of the stores.
LEMMA WrittenRows ==
    ASSUME NEW out, DataOnly(out), RowsDone(out),
           NEW stores, \A s \in stores : StoreDone(s, out.cat.next_row)
    PROVE  RowsDone(Written(out, stores))
<1>1. CASE stores = {}
  BY <1>1 DEF Written, DataOnly, RowsDone
<1>2. CASE stores # {}
  <2> DEFINE s == CHOOSE s \in stores : TRUE
  <2>1. s \in stores
    BY <1>2
  <2> HIDE DEF s
  <2>2. Written(out, stores) = [out EXCEPT !.store = s, !.affected = @ + 1]
    BY <1>2, Zenon DEF Written, s
  <2>3. StoreDone(s, out.cat.next_row)
    BY <2>1
  <2>4. QED
    BY <2>2, <2>3 DEF DataOnly, RowsDone
<1>3. QED
  BY <1>1, <1>2

\* A row of expressions that fits a schema, whose numbers are not negative.
GoodRow(schema, exprs) ==
    /\ DOMAIN exprs = DOMAIN schema /\ DOMAIN schema \subseteq Nat
    /\ \A i \in DOMAIN exprs : \A v \in evaluate(exprs[i], <<>>) :
        v.t \in {"Null", "Int", "BigInt"} => v.v \in Nat

\* The id of a new row is a number.
LEMMA RowIdIs ==
    ASSUME NEW schema, NEW exprs, GoodRow(schema, exprs), NEW counter \in Nat,
           NEW given \in OneOfEach([i \in DOMAIN exprs |-> evaluate(exprs[i], <<>>)]),
           ~(primary_key_idx(schema) # 0 /\ given[primary_key_idx(schema)].t \notin {"Null", "Int", "BigInt"})
    PROVE  RowIdOf(schema, given, counter) \in Nat
<1> DEFINE pk == primary_key_idx(schema)
           sets == [i \in DOMAIN exprs |-> evaluate(exprs[i], <<>>)]
<1>1. RowIdOf(schema, given, counter) = IF pk # 0 /\ given[pk] # Null THEN given[pk].v ELSE counter
  BY Zenon DEF RowIdOf
<1>2. DOMAIN sets = DOMAIN exprs /\ \A i \in DOMAIN exprs : sets[i] = evaluate(exprs[i], <<>>)
  OBVIOUS
<1>3. pk # 0 => pk \in DOMAIN schema
  BY PrimaryKeyIs DEF GoodRow
<1> HIDE DEF pk, sets
<1>4. \A i \in DOMAIN exprs : given[i] \in sets[i]
  BY <1>2 DEF OneOfEach, sets
<1>5. CASE pk # 0 /\ given[pk] # Null
  <2>1. given[pk] \in evaluate(exprs[pk], <<>>)
    BY <1>2, <1>3, <1>4, <1>5 DEF GoodRow
  <2>2. given[pk].t \in {"Null", "Int", "BigInt"} => given[pk].v \in Nat
    BY <1>3, <1>5, <2>1 DEF GoodRow
  <2>3. given[pk].t \in {"Null", "Int", "BigInt"}
    BY <1>5 DEF pk
  <2>4. QED
    BY <1>1, <1>5, <2>2, <2>3 DEF pk
<1>6. CASE ~(pk # 0 /\ given[pk] # Null)
  BY <1>1, <1>6
<1>7. QED
  BY <1>5, <1>6

\* One row of an INSERT keeps rows and counters in order.
LEMMA InsertRowRows ==
    ASSUME Describes(work, cat, next_root), next_root \in 4..(MaxRoot + 1),
           \A t \in DOMAIN cat.roots : cat.next_row[t] \in Nat,
           NEW table \in DOMAIN cat.roots, NEW schema, NEW exprs, GoodRow(schema, exprs),
           NEW out, DataOnly(out), RowsDone(out)
    PROVE  RowsDone(InsertRow(out, table, schema, exprs))
<1> DEFINE pk == primary_key_idx(schema)
<1> DEFINE Keyed(given, row_id) ==
            IF pk = 0 \/ given[pk] # Null THEN given
            ELSE [given EXCEPT ![pk] = IF schema[pk].type = "Int" THEN Value("Int", AsInt(row_id))
                                       ELSE Value("BigInt", row_id)]
<1> DEFINE Moved(row_id) == [out EXCEPT !.cat = update_high_watermark(@, table, row_id)]
<1> DEFINE Failed == [out EXCEPT !.res = "Exec"]
<1> DEFINE Mistyped(given) == pk # 0 /\ given[pk].t \notin {"Null", "Int", "BigInt"}
<1> DEFINE Put(given, row_id) ==
            IF Mistyped(given) THEN Failed
            ELSE Written(Moved(row_id), insert_row(out.store, table, schema, row_id, Keyed(given, row_id)))
<1> DEFINE Values == OneOfEach([i \in DOMAIN exprs |-> evaluate(exprs[i], <<>>)])
<1> DEFINE Id(given) == RowIdOf(schema, given, out.cat.next_row[table])
<1>1. InsertRow(out, table, schema, exprs) =
         IF out.res # "Ok" THEN out ELSE OneOr({Put(given, Id(given)) : given \in Values}, Failed)
  BY Zenon DEF InsertRow
<1>2. RowsDone(Failed)
  BY DEF DataOnly, RowsDone
<1>3. /\ CountersDone(out.cat.next_row) /\ StoreDone(out.store, out.cat.next_row)
      /\ out.cat.next_row[table] \in Nat
  BY DEF RowsDone, CountersDone
<1>4. ASSUME NEW given \in Values PROVE RowsDone(Put(given, Id(given)))
  <2> DEFINE row_id == Id(given)
             values == Keyed(given, row_id)
             stores == insert_row(out.store, table, schema, row_id, values)
  <2>1. Put(given, row_id) = IF Mistyped(given) THEN Failed ELSE Written(Moved(row_id), stores)
    BY Zenon
  <2> HIDE DEF Failed, values, Keyed, Put
  <2>2. CASE Mistyped(given)
    BY <1>2, <2>1, <2>2
  <2>3. CASE ~Mistyped(given)
    <3>1. row_id \in Nat
      BY <1>3, <2>3, RowIdIs
    <3> HIDE DEF row_id, Id, Mistyped
    <3> DEFINE n == Watermark(out.cat.next_row[table], row_id)
               rows == With(out.cat.next_row, table, n)
               c == update_high_watermark(out.cat, table, row_id)
    <3>2. n \in Nat /\ n >= out.cat.next_row[table] /\ n > row_id
      BY <1>3, <3>1, WatermarkIs
    <3>3. c = [out.cat EXCEPT !.next_row = rows]
      BY Zenon DEF update_high_watermark
    <3> HIDE DEF n
    <3>4. CountersDone(rows) /\ StoreDone(out.store, rows) /\ rows[table] = n
      <4>1. CountersDone(rows) /\ StoreDone(out.store, rows)
        BY <1>3, <3>2, CounterMoves
      <4>2. rows[table] = n
        BY DEF With
      <4>3. QED
        BY <4>1, <4>2
    <3> HIDE DEF rows, c
    <3>5. IsCatalog(out.cat)
      BY DEF DataOnly, SameMaps
    <3>6. c.next_row = rows
      BY <3>3, <3>5 DEF IsCatalog
    <3>7. SameMaps(cat, c)
      BY WatermarkMaps DEF DataOnly, c
    <3>8. Moved(row_id) = [out EXCEPT !.cat = c]
      BY Zenon DEF c
    <3> DEFINE mid == Moved(row_id)
    <3>9. DataOnly(mid) /\ mid.cat = c /\ mid.store = out.store
      BY <3>7, <3>8 DEF DataOnly
    <3> HIDE DEF mid
    <3>10. RowsDone(mid)
      BY <3>4, <3>6, <3>9 DEF RowsDone
    <3>11. \A s \in stores : StoreDone(s, rows)
      BY <3>1, <3>2, <3>4, InsertedRows
    <3> HIDE DEF stores
    <3>12. RowsDone(Written(mid, stores))
      BY <3>6, <3>9, <3>10, <3>11, WrittenRows
    <3>13. QED
      BY <2>1, <2>3, <3>12 DEF mid, row_id, Mistyped
  <2>4. QED
    BY <2>2, <2>3
<1> HIDE DEF Put, Id, Values, Failed
<1>5. QED
  BY <1>1, <1>2, <1>4, OneOrIs

\* The rows of an INSERT are good ones.
GoodJob(job, b) ==
    job.kind = "insert" => \A n \in 1..b : GoodRow(cat.schemas[job.table], job.plan[n])

\* What a job has done so far is in order.
JobRows(job, st) == JobData(job, st) /\ IF job.kind = "insert" THEN RowsDone(st) ELSE RowsDone(st.out)

\* The next row keeps it in order.
LEMMA StepRows ==
    ASSUME Describes(work, cat, next_root), next_root \in 4..(MaxRoot + 1),
           \A t \in DOMAIN cat.roots : cat.next_row[t] \in Nat,
           NEW job, job.table \in DOMAIN cat.roots, NEW n,
           job.kind = "insert" => GoodRow(cat.schemas[job.table], job.plan[n]),
           NEW st, JobRows(job, st)
    PROVE  JobRows(job, StepOf(job, n, st))
<1>1. JobData(job, StepOf(job, n, st))
  BY StepData DEF JobRows
<1>2. CASE job.kind = "insert"
  <2>1. DataOnly(st) /\ RowsDone(st)
    BY <1>2 DEF JobRows, JobData
  <2>2. RowsDone(InsertRow(st, job.table, cat.schemas[job.table], job.plan[n]))
    BY <1>2, <2>1, InsertRowRows
  <2>3. QED
    BY <1>1, <1>2, <2>2 DEF JobRows, StepOf
<1>3. CASE job.kind # "insert"
  <2>1. DataOnly(st.out) /\ RowsDone(st.out)
    BY <1>3 DEF JobRows, JobData
  <2>2. ASSUME NEW out, DataOnly(out), RowsDone(out), NEW row
        PROVE  RowsDone(Written(out, Change(job, out.store, row)))
    <3> DEFINE rows == out.cat.next_row
    <3>1. StoreDone(out.store, rows)
      BY <2>2 DEF RowsDone
    <3> HIDE DEF rows
    <3>2. \A s \in Change(job, out.store, row) : StoreDone(s, rows)
      <4>1. CASE job.kind = "delete"
        <5>1. \A s \in Deleted(job.table, out.store, row) : StoreDone(s, rows)
          BY <3>1, DeletedRows
        <5>2. QED
          BY <4>1, <5>1 DEF Change
      <4>2. CASE job.kind # "delete"
        <5> DEFINE D == Assign(job.set, row.values)
        <5>1. \A values : \A s \in update_row(out.store, job.table, cat.schemas[job.table], row, values) :
                 StoreDone(s, rows)
          BY <3>1, UpdatedRows
        <5> HIDE DEF D
        <5>2. Change(job, out.store, row) =
                 UNION {update_row(out.store, job.table, cat.schemas[job.table], row, values) : values \in D}
          BY <4>2, Zenon DEF Change, D
        <5>3. QED
          BY <5>1, <5>2
      <4>3. QED
        BY <4>1, <4>2
    <3>3. QED
      BY <2>2, <3>2, WrittenRows DEF rows
  <2>3. ASSUME NEW out, DataOnly(out), RowsDone(out), NEW row, NEW verdict \in {"true", "false", "error"}
        PROVE  RowsDone(Applied(job, out, row, verdict))
    <3>1. CASE verdict = "true"
      <4>1. Applied(job, out, row, verdict) = Written(out, Change(job, out.store, row))
        BY <3>1 DEF Applied
      <4>2. QED
        BY <2>2, <2>3, <4>1
    <3>2. CASE verdict = "false"
      BY <2>3, <3>2 DEF Applied
    <3>3. CASE verdict = "error"
      <4>1. Applied(job, out, row, verdict) = [out EXCEPT !.res = "Exec"]
        BY <3>3 DEF Applied
      <4>2. QED
        BY <2>3, <4>1 DEF DataOnly, RowsDone
    <3>4. QED
      BY <2>3, <3>1, <3>2, <3>3
  <2>4. ASSUME NEW out, DataOnly(out), RowsDone(out), NEW got PROVE RowsDone(Visited(job, out, got).out)
    <3>1. CASE got.row = <<>>
      BY <2>4, <3>1 DEF Visited
    <3>2. CASE got.row # <<>>
      <4> DEFINE verdict == Verdict(job.plan.where, got.row[1].values)
      <4>1. verdict \in {"true", "false", "error"}
        BY VerdictIs
      <4>2. Visited(job, out, got).out = Applied(job, out, got.row[1], verdict)
        BY <3>2 DEF Visited
      <4> HIDE DEF verdict
      <4>3. QED
        BY <2>3, <2>4, <4>1, <4>2
    <3>3. QED
      BY <3>1, <3>2
  <2>5. RowsDone(SweepStep(job, st).out)
    BY <2>1, <2>4 DEF SweepStep
  <2>6. QED
    BY <1>1, <1>3, <2>5 DEF JobRows, StepOf
<1>4. QED
  BY <1>2, <1>3

\* So it is at the end of a run.
LEMMA RunRows ==
    ASSUME Describes(work, cat, next_root), next_root \in 4..(MaxRoot + 1),
           \A t \in DOMAIN cat.roots : cat.next_row[t] \in Nat,
           NEW job, job.table \in DOMAIN cat.roots, NEW b \in Nat, GoodJob(job, b),
           NEW a, JobRows(job, a), NEW u, u = RunFrom(job, b, a, u)
    PROVE  JobRows(job, u[b])
<1> DEFINE S == {n \in 0..b : JobRows(job, u[n])}
<1>1. \A n \in 0..b : u[n] = IF n = 0 THEN a ELSE StepOf(job, n, u[n - 1])
  BY DEF RunFrom
<1>2. 0 \in S
  BY <1>1
<1>3. ASSUME NEW n \in 0..(b - 1), n \in S PROVE n + 1 \in S
  <2>1. n + 1 \in 0..b /\ n + 1 \in 1..b /\ n + 1 # 0 /\ (n + 1) - 1 = n
    OBVIOUS
  <2>2. u[n + 1] = StepOf(job, n + 1, u[n])
    BY <1>1, <2>1
  <2>3. JobRows(job, u[n])
    BY <1>3
  <2>4. job.kind = "insert" => GoodRow(cat.schemas[job.table], job.plan[n + 1])
    BY <2>1 DEF GoodJob
  <2>5. JobRows(job, StepOf(job, n + 1, u[n]))
    BY <2>3, <2>4, StepRows
  <2>6. QED
    BY <2>1, <2>2, <2>5
<1> HIDE DEF S
<1>4. b \in S
  <2>1. \A n \in 0..b : n \in S
    BY <1>2, <1>3, BoundedInduction
  <2>2. b \in 0..b
    OBVIOUS
  <2>3. QED
    BY <2>1, <2>2
<1>5. QED
  BY <1>4 DEF S

\* The rows of an INSERT into a declared table are good ones.
LEMMA PlanGood ==
    ASSUME NEW stmt \in Inserts, NEW def \in Tables, def.name = stmt.table,
           NEW schema, schema = Renamed(def.columns, def.name), NEW plan \in plan_insert(stmt, schema)
    PROVE  \A n \in 1..Len(plan) : GoodRow(schema, plan[n])
<1>1. DOMAIN plan = 1..Len(plan) /\ \A n \in DOMAIN plan : DOMAIN plan[n] = DOMAIN schema
  BY PlanIs
<1>2. DOMAIN schema = DOMAIN def.columns
  BY DEF Renamed
<1>3. DOMAIN schema \subseteq Nat
  <2>1. DOMAIN def.columns = 1..Len(def.columns) /\ Len(def.columns) \in Nat
    BY TablesAssumption
  <2>2. QED
    BY <1>2, <2>1
<1>4. \A n \in DOMAIN plan : \A i \in DOMAIN plan[n] : \A v \in evaluate(plan[n][i], <<>>) :
         v.t \in {"Null", "Int", "BigInt"} => v.v \in Nat
  BY KeysAssumption
<1>5. QED
  BY <1>1, <1>3, <1>4 DEF GoodRow

\* What a statement begins with is in order.
LEMMA StartRows ==
    ASSUME RowsOf(work, cat), Unused(work, next_root), NEW res
    PROVE  RowsDone(Outcome(res, work, cat))
<1>1. Outcome(res, work, cat).store = work /\ Outcome(res, work, cat).cat = cat
  BY DEF Outcome
<1>2. CountersDone(cat.next_row)
  BY DEF CountersDone, RowsOf, Ahead
<1>3. StoreDone(work, cat.next_row)
  BY DEF StoreDone, RowsOf, Ahead
<1>4. QED
  BY <1>1, <1>2, <1>3 DEF RowsDone

\* INSERT keeps rows and counters in order.
LEMMA InsertRows ==
    ASSUME Describes(work, cat, next_root), next_root \in 4..(MaxRoot + 1), Declared(cat),
           RowsOf(work, cat), Unused(work, next_root),
           NEW stmt \in Inserts, NEW out, out = insert(stmt)
    PROVE  RowsDone(out)
<1>1. IsCatalog(cat) /\ DOMAIN cat.schemas = DOMAIN cat.roots
  BY SchemasOfTables
<1>2. CASE out = Refused
  BY <1>2, StartRows DEF Refused
<1>3. ASSUME stmt.table \in DOMAIN cat.schemas, NEW plan \in plan_insert(stmt, cat.schemas[stmt.table]), NEW run,
             run = RunFrom(Job("insert", stmt.table, plan, <<>>), Len(plan), Outcome("Ok", work, cat), run),
             out = run[Len(plan)]
      PROVE  RowsDone(out)
  <2> DEFINE job == Job("insert", stmt.table, plan, <<>>)
             b == Len(plan)
             a == Outcome("Ok", work, cat)
  <2>1. job.kind = "insert" /\ job.table = stmt.table /\ job.plan = plan
    BY DEF Job
  <2>2. b \in Nat /\ DataOnly(a) /\ RowsDone(a)
    BY <1>1, PlanIs, NothingDone, StartRows
  <2>3. GoodJob(job, b)
    <3>1. PICK def \in Tables : DeclaredBy(def, cat, stmt.table)
      BY <1>1, <1>3 DEF Declared
    <3>2. \A n \in 1..b : GoodRow(cat.schemas[stmt.table], plan[n])
      BY <1>3, <3>1, PlanGood DEF DeclaredBy
    <3> HIDE DEF job, b
    <3>3. QED
      BY <2>1, <3>2 DEF GoodJob
  <2> HIDE DEF job, a, b
  <2>4. run = RunFrom(job, b, a, run)
    BY <1>3 DEF job, a, b
  <2>5. JobRows(job, a) /\ job.table \in DOMAIN cat.roots
    BY <1>1, <1>3, <2>1, <2>2 DEF JobData, JobRows
  <2>6. \A t \in DOMAIN cat.roots : cat.next_row[t] \in Nat
    BY DEF RowsOf, Ahead
  <2>7. JobRows(job, run[b])
    BY <2>2, <2>3, <2>4, <2>5, <2>6, RunRows
  <2>8. QED
    BY <1>3, <2>1, <2>7 DEF JobRows, b
<1>4. QED
  BY <1>2, <1>3, InsertRuns

\* A sweep keeps them in order.
LEMMA SweptRows ==
    ASSUME Describes(work, cat, next_root), next_root \in 4..(MaxRoot + 1),
           RowsOf(work, cat), Unused(work, next_root),
           NEW kind, kind # "insert", NEW stmt, NEW out,
           out = Refused \/ (stmt.table \in DOMAIN cat.schemas /\ Swept(kind, stmt, out))
    PROVE  RowsDone(out)
<1>1. IsCatalog(cat) /\ DOMAIN cat.schemas = DOMAIN cat.roots
  BY SchemasOfTables
<1>2. CASE out = Refused
  BY <1>2, StartRows DEF Refused
<1>3. CASE stmt.table \in DOMAIN cat.schemas /\ Swept(kind, stmt, out)
  <2>1. PICK plan, set, st, run :
            /\ st.out = Outcome("Ok", work, cat)
            /\ run = RunFrom(Job(kind, stmt.table, plan, set), MaxVisits, st, run)
            /\ out = run[MaxVisits].out
    BY <1>3 DEF Swept
  <2> DEFINE job == Job(kind, stmt.table, plan, set)
  <2>2. job.kind # "insert" /\ job.table \in DOMAIN cat.roots
    BY <1>1, <1>3 DEF Job
  <2>3. MaxVisits \in Nat
    BY BoundsAssumption
  <2> HIDE DEF job
  <2>4. JobRows(job, st) /\ GoodJob(job, MaxVisits)
    BY <1>1, <2>1, <2>2, NothingDone, StartRows DEF JobData, JobRows, GoodJob
  <2>5. run = RunFrom(job, MaxVisits, st, run)
    BY <2>1 DEF job
  <2>6. \A t \in DOMAIN cat.roots : cat.next_row[t] \in Nat
    BY DEF RowsOf, Ahead
  <2>7. JobRows(job, run[MaxVisits])
    BY <2>2, <2>3, <2>4, <2>5, <2>6, RunRows
  <2>8. QED
    BY <2>1, <2>2, <2>7 DEF JobRows
<1>4. QED
  BY <1>2, <1>3

-----------------------------------------------------------------------------
(* The invariant of the rows *)

\* Rows have numbers below the counters, in both stores and under the catalog
\* of the connection; the committed store can be opened again.
RowInv ==
    /\ next_root \in 4..(MaxRoot + 1)
    /\ Unused(disk, next_root) /\ Unused(work, next_root)
    /\ RowTrees(disk, bootstrap(disk)) /\ Declared(bootstrap(disk))
    /\ ~undone => /\ Declared(cat) /\ SysFresh(cat, disk)
                  /\ RowsOf(disk, cat) /\ RowsOf(work, cat)

\* The catalog d is c with counters that have not moved back, and tables whose
\* root is the next page.
Grows(c, d) ==
    /\ DOMAIN d.roots \subseteq DOMAIN d.next_row
    /\ d.next_sys \in Nat /\ d.next_sys >= c.next_sys
    /\ \A t \in DOMAIN d.roots :
          /\ d.next_row[t] \in Nat
          /\ \/ /\ t \in DOMAIN c.roots /\ d.roots[t] = c.roots[t] /\ d.schemas[t] = c.schemas[t]
                /\ d.next_row[t] >= c.next_row[t]
             \/ /\ d.roots[t] = next_root /\ next_root \in 4..MaxRoot
                /\ \E def \in Tables : DeclaredBy(def, d, t)

\* Under such a catalog a store is in as good order as it was.
LEMMA GrowsKeeps ==
    ASSUME NEW c, NEW d, Grows(c, d), NEW s, Unused(s, next_root), RowsOf(s, c), SysFresh(c, s), Declared(c),
           IsStore(s)
    PROVE  RowsOf(s, d) /\ SysFresh(d, s) /\ Declared(d)
<1>1. \A t \in DOMAIN d.roots :
          /\ d.next_row[t] \in Nat
          /\ \/ /\ t \in DOMAIN c.roots /\ d.roots[t] = c.roots[t] /\ d.schemas[t] = c.schemas[t]
                /\ d.next_row[t] >= c.next_row[t]
             \/ /\ d.roots[t] = next_root /\ next_root \in 4..MaxRoot
                /\ \E def \in Tables : DeclaredBy(def, d, t)
  BY DEF Grows
<1>2. \A t \in DOMAIN c.roots :
          /\ SystemTree(s[c.roots[t]]) /\ c.next_row[t] \in Nat
          /\ \A id \in DOMAIN s[c.roots[t]].live : id \in Nat /\ id < c.next_row[t]
  BY DEF RowsOf, RowTrees, Ahead, SystemTree
<1>3. ASSUME next_root \in 4..MaxRoot PROVE SystemTree(s[next_root]) /\ DOMAIN s[next_root].live = {}
  <2>1. next_root \in next_root..MaxRoot
    BY <1>3, BoundsAssumption
  <2>2. QED
    BY <2>1, EmptyTreeIs DEF Unused
<1>4. ASSUME NEW t \in DOMAIN d.roots
      PROVE  /\ SystemTree(s[d.roots[t]])
             /\ \A id \in DOMAIN s[d.roots[t]].live : id < d.next_row[t]
  <2>1. CASE t \in DOMAIN c.roots /\ d.roots[t] = c.roots[t] /\ d.next_row[t] >= c.next_row[t]
    BY <1>1, <1>2, <2>1
  <2>2. CASE d.roots[t] = next_root /\ next_root \in 4..MaxRoot
    BY <1>3, <2>2
  <2>3. QED
    BY <1>1, <2>1, <2>2
<1>5. RowsOf(s, d)
  BY <1>1, <1>4 DEF RowsOf, RowTrees, Ahead, Grows
<1>6. SysFresh(d, s)
  <2>1. \A r \in SysRoots : \A id \in DOMAIN s[r].live : id \in Nat /\ id < c.next_sys
    BY DEF SysFresh, IsStore, SystemTree
  <2>2. QED
    BY <2>1 DEF SysFresh, Grows
<1>7. Declared(d)
  <2>1. ASSUME NEW t \in DOMAIN d.roots PROVE \E def \in Tables : DeclaredBy(def, d, t)
    <3>1. CASE t \in DOMAIN c.roots /\ d.schemas[t] = c.schemas[t]
      BY <3>1 DEF Declared, DeclaredBy
    <3>2. QED
      BY <1>1, <3>1
  <2>2. QED
    BY <2>1 DEF Declared
<1>8. QED
  BY <1>5, <1>6, <1>7

\* A catalog that has grown, and a store with the rows below its counters for
\* a statement that has succeeded.
Orderly(out) ==
    /\ Grows(cat, out.cat)
    /\ out.root \in next_root..(MaxRoot + 1)
    /\ out.res = "Ok" => RowsOf(out.store, out.cat) /\ Unused(out.store, out.root)

\* A catalog that has stayed as it was.
LEMMA GrowsSelf ==
    ASSUME SysFresh(cat, work), RowsOf(work, cat), NEW d, d.roots = cat.roots, d.schemas = cat.schemas,
           d.next_row = cat.next_row, d.next_sys \in Nat, d.next_sys >= cat.next_sys
    PROVE  Grows(cat, d)
BY DEF Grows, RowsOf, Ahead

\* The statements that write rows are orderly.
LEMMA DataOrderly ==
    ASSUME next_root \in 4..(MaxRoot + 1), SysFresh(cat, work), NEW out, DataOnly(out), RowsDone(out)
    PROVE  Orderly(out)
<1>1. /\ out.root = next_root
      /\ out.cat.roots = cat.roots /\ out.cat.schemas = cat.schemas /\ out.cat.next_sys = cat.next_sys
  BY DEF DataOnly, SameMaps
<1>2. /\ DOMAIN cat.roots \subseteq DOMAIN out.cat.next_row
      /\ \A t \in DOMAIN cat.roots : out.cat.next_row[t] \in Nat /\ out.cat.next_row[t] >= cat.next_row[t]
  BY DEF RowsDone, CountersDone
<1>3. /\ Unused(out.store, next_root) /\ RowTrees(out.store, cat)
      /\ \A t \in DOMAIN cat.roots : \A id \in DOMAIN out.store[cat.roots[t]].live : id < out.cat.next_row[t]
  BY DEF RowsDone, StoreDone
<1>4. cat.next_sys \in Nat
  BY DEF SysFresh
<1>5. Grows(cat, out.cat)
  BY <1>1, <1>2, <1>4 DEF Grows
<1>6. RowsOf(out.store, out.cat)
  BY <1>1, <1>2, <1>3 DEF RowsOf, RowTrees, Ahead
<1>7. out.root \in next_root..(MaxRoot + 1)
  BY <1>1, BoundsAssumption
<1>8. QED
  BY <1>1, <1>3, <1>5, <1>6, <1>7 DEF Orderly

\* A statement that changes the system tables only leaves the rows in order.
LEMMA DefinitionRows ==
    ASSUME next_root \in 4..(MaxRoot + 1), Describes(work, cat, next_root), SysFresh(cat, work),
           Unused(work, next_root), RowsOf(work, cat), Declared(cat),
           NEW d, Grows(cat, d), NEW z, DOMAIN z = DOMAIN work,
           \A r \in 1..MaxRoot : r \notin SysRoots => z[r] = work[r], NEW n \in next_root..(MaxRoot + 1)
    PROVE  RowsOf(z, d) /\ Unused(z, n)
<1>1. RowsOf(work, d)
  BY GrowsKeeps DEF Describes
<1>2. MaxRoot \in Nat /\ \A r \in 4..MaxRoot : r \in 1..MaxRoot /\ r \notin SysRoots
  BY BoundsAssumption DEF SysRoots, SYS_ROOTS, SYS_SCHEMAS, SYS_INDEXES
<1>3. \A t \in DOMAIN d.roots : d.roots[t] \in 4..MaxRoot
  <2>1. \A t \in DOMAIN cat.roots : cat.roots[t] \in 4..(next_root - 1)
    BY DEF Describes, RootsDistinct
  <2>2. \A r \in 4..(next_root - 1) : r \in 4..MaxRoot
    BY <1>2
  <2>3. QED
    BY <2>1, <2>2 DEF Grows
<1>4. \A t \in DOMAIN d.roots : z[d.roots[t]] = work[d.roots[t]]
  BY <1>2, <1>3
<1>5. RowsOf(z, d)
  BY <1>1, <1>4 DEF RowsOf, RowTrees, Ahead
<1>6. \A r \in n..MaxRoot : r \in 4..MaxRoot /\ r \in next_root..MaxRoot
  BY <1>2
<1>7. Unused(z, n)
  BY <1>2, <1>6 DEF Unused
<1>8. QED
  BY <1>5, <1>7

\* CREATE TABLE is orderly.
LEMMA CreateTableOrderly ==
    ASSUME next_root \in 4..(MaxRoot + 1), Describes(work, cat, next_root), SysFresh(cat, work),
           Unused(work, next_root), RowsOf(work, cat), Declared(cat), next_root <= MaxRoot,
           NEW def \in Tables, NEW out, out = create_table(def)
    PROVE  Orderly(out)
<1>1. IsStore(work) /\ IsCatalog(cat) /\ DOMAIN cat.schemas = DOMAIN cat.roots
  BY SchemasOfTables DEF Describes
<1>2. cat.next_sys \in Nat /\ MaxRoot \in Nat
  BY BoundsAssumption DEF SysFresh
<1>3. CASE out.res # "Ok"
  <2>1. out.root = next_root /\ out.cat = cat
    BY <1>1, <1>3, CreateTableFails DEF Fails
  <2>2. Grows(cat, out.cat)
    BY <1>2, <2>1, GrowsSelf
  <2>3. out.root \in next_root..(MaxRoot + 1)
    BY <1>2, <2>1
  <2>4. QED
    BY <1>3, <2>2, <2>3 DEF Orderly
<1>4. CASE out.res = "Ok"
  <2> DEFINE schema == Renamed(def.columns, def.name)
  <2>1. PICK k \in Nat \ {0} :
            ColumnRecords(def) = [i \in 1..k |-> [table |-> def.name, col |-> schema[i]]]
    BY <1>1, <1>4, CreateTableIs
  <2>2. /\ def.name \notin DOMAIN cat.roots
        /\ out.root = next_root + 1
        /\ DOMAIN out.store = DOMAIN work
        /\ \A r \in 1..MaxRoot : r \notin SysRoots => out.store[r] = work[r]
        /\ out.cat.roots = With(cat.roots, def.name, next_root)
        /\ out.cat.schemas = With(cat.schemas, def.name, schema)
        /\ out.cat.next_row = With(cat.next_row, def.name, 1)
        /\ out.cat.next_sys = cat.next_sys + 1 + Len(ColumnRecords(def))
    BY <1>1, <1>4, CreateTableIs, ZenonT(60)
  <2> HIDE DEF schema
  <2>3. Len(ColumnRecords(def)) = k
    BY <2>1
  <2>4. out.cat.next_sys \in Nat /\ out.cat.next_sys >= cat.next_sys
    BY <1>2, <2>2, <2>3
  <2>5. /\ DOMAIN cat.roots \subseteq DOMAIN cat.next_row
        /\ \A t \in DOMAIN cat.roots : cat.next_row[t] \in Nat
    BY DEF RowsOf, Ahead
  <2>6. DOMAIN out.cat.roots \subseteq DOMAIN out.cat.next_row
    BY <2>2, <2>5 DEF With
  <2>7. ASSUME NEW t \in DOMAIN out.cat.roots, t # def.name
        PROVE  /\ t \in DOMAIN cat.roots /\ out.cat.roots[t] = cat.roots[t]
               /\ out.cat.schemas[t] = cat.schemas[t] /\ out.cat.next_row[t] = cat.next_row[t]
    BY <1>1, <2>2, <2>5, <2>7 DEF With
  <2>8. /\ out.cat.roots[def.name] = next_root /\ out.cat.schemas[def.name] = schema
        /\ out.cat.next_row[def.name] = 1
    BY <2>2 DEF With
  <2>9. DeclaredBy(def, out.cat, def.name)
    BY <2>8 DEF DeclaredBy, schema
  <2>10. Grows(cat, out.cat)
    BY <1>2, <2>4, <2>5, <2>6, <2>7, <2>8, <2>9 DEF Grows
  <2>11. out.root \in next_root..(MaxRoot + 1)
    BY <1>2, <2>2
  <2>12. RowsOf(out.store, out.cat) /\ Unused(out.store, out.root)
    BY <2>2, <2>10, <2>11, DefinitionRows
  <2>13. QED
    BY <2>10, <2>11, <2>12 DEF Orderly
<1>5. QED
  BY <1>3, <1>4

\* DROP TABLE is orderly.
LEMMA DropTableOrderly ==
    ASSUME next_root \in 4..(MaxRoot + 1), Describes(work, cat, next_root), SysFresh(cat, work),
           Unused(work, next_root), RowsOf(work, cat), Declared(cat),
           NEW table, NEW out, out = drop_table(table)
    PROVE  Orderly(out)
<1>1. IsStore(work) /\ IsCatalog(cat) /\ DOMAIN cat.schemas = DOMAIN cat.roots
  BY SchemasOfTables DEF Describes
<1>2. cat.next_sys \in Nat /\ next_root \in next_root..(MaxRoot + 1)
  BY BoundsAssumption DEF SysFresh
<1>3. CASE out.res # "Ok"
  <2>1. out.root = next_root /\ out.cat = cat
    BY <1>1, <1>3, DropTableFails DEF Fails
  <2>2. Grows(cat, out.cat)
    BY <1>2, <2>1, GrowsSelf
  <2>3. QED
    BY <1>2, <1>3, <2>1, <2>2 DEF Orderly
<1>4. CASE out.res = "Ok"
  <2>1. /\ out.root = next_root
        /\ DOMAIN out.store = DOMAIN work
        /\ \A r \in 1..MaxRoot : r \notin SysRoots => out.store[r] = work[r]
        /\ out.cat.roots = Without(cat.roots, table)
        /\ out.cat.schemas = Without(cat.schemas, table)
        /\ out.cat.next_sys = cat.next_sys /\ out.cat.next_row = cat.next_row
    BY <1>1, <1>4, DropTableIs
  <2>2. ASSUME NEW t \in DOMAIN out.cat.roots
        PROVE  t \in DOMAIN cat.roots /\ out.cat.roots[t] = cat.roots[t] /\ out.cat.schemas[t] = cat.schemas[t]
    BY <1>1, <2>1 DEF Without
  <2>3. Grows(cat, out.cat)
    BY <1>2, <2>1, <2>2 DEF Grows, RowsOf, Ahead
  <2>4. RowsOf(out.store, out.cat) /\ Unused(out.store, next_root)
    BY <1>2, <2>1, <2>3, DefinitionRows
  <2>5. QED
    BY <1>2, <2>1, <2>3, <2>4 DEF Orderly
<1>5. QED
  BY <1>3, <1>4

\* CREATE INDEX is orderly.
LEMMA CreateIndexOrderly ==
    ASSUME next_root \in 4..(MaxRoot + 1), Describes(work, cat, next_root), SysFresh(cat, work),
           Unused(work, next_root), RowsOf(work, cat), Declared(cat), next_root <= MaxRoot,
           NEW def, NEW out, out = create_index(def)
    PROVE  Orderly(out)
<1>1. IsStore(work) /\ IsCatalog(cat)
  BY DEF Describes
<1>2. cat.next_sys \in Nat /\ {next_root, next_root + 1} \subseteq next_root..(MaxRoot + 1)
  BY BoundsAssumption DEF SysFresh
<1>3. CASE out.res # "Ok"
  <2>1. out.root = next_root /\ SameMaps(cat, out.cat) /\ out.cat.next_row = cat.next_row
    BY <1>1, <1>3, CreateIndexFails
  <2>2. out.cat.roots = cat.roots /\ out.cat.schemas = cat.schemas /\ out.cat.next_sys = cat.next_sys
    BY <2>1 DEF SameMaps
  <2>3. Grows(cat, out.cat)
    BY <1>2, <2>1, <2>2, GrowsSelf
  <2>4. QED
    BY <1>2, <1>3, <2>1, <2>3 DEF Orderly
<1>4. CASE out.res = "Ok"
  <2>1. /\ out.root = next_root + 1
        /\ DOMAIN out.store = DOMAIN work
        /\ \A r \in 1..MaxRoot : r \notin SysRoots => out.store[r] = work[r]
        /\ out.cat.roots = cat.roots /\ out.cat.schemas = cat.schemas
        /\ out.cat.next_sys = cat.next_sys + 1 /\ out.cat.next_row = cat.next_row
    BY <1>1, <1>4, CreateIndexIs, ZenonT(60)
  <2>2. Grows(cat, out.cat)
    BY <1>2, <2>1, GrowsSelf
  <2>3. RowsOf(out.store, out.cat) /\ Unused(out.store, out.root)
    BY <1>2, <2>1, <2>2, DefinitionRows
  <2>4. QED
    BY <1>2, <2>1, <2>2, <2>3 DEF Orderly
<1>5. QED
  BY <1>3, <1>4

-----------------------------------------------------------------------------
(* The rows and the catalog together *)

\* The tables that are read back are as good as those of the cache.
LEMMA BootstrapRows ==
    ASSUME NEW s, NEW c, NEW n, Describes(s, c, n), RowTrees(s, c), Declared(c)
    PROVE  RowTrees(s, bootstrap(s)) /\ Declared(bootstrap(s))
<1> DEFINE b == bootstrap(s)
<1>1. b.roots = c.roots /\ b.schemas = c.schemas
  BY BootstrapRoots, BootstrapSchemas DEF Describes
<1> HIDE DEF b
<1>2. RowTrees(s, b) /\ Declared(b)
  BY <1>1 DEF RowTrees, Declared, DeclaredBy
<1>3. QED
  BY <1>2 DEF b

\* The counters that are computed again are ahead of the rows.
LEMMA BootstrapAhead ==
    ASSUME NEW s, RowTrees(s, bootstrap(s))
    PROVE  RowsOf(s, bootstrap(s))
<1> DEFINE b == bootstrap(s)
           R == s[SYS_ROOTS].live
           Root(t) == R[Max(IdsOf(R, t))].root
<1>1. /\ b.roots = [t \in TablesIn(R) |-> Root(t)]
      /\ b.next_row = [t \in TablesIn(R) |-> get_max_row_id(s[Root(t)]) + 1]
  BY BootstrapParts, ZenonT(60)
<1> HIDE DEF b, Root
<1>2. DOMAIN b.roots = TablesIn(R) /\ DOMAIN b.next_row = TablesIn(R)
  BY <1>1
<1>3. ASSUME NEW t \in DOMAIN b.roots
      PROVE  b.next_row[t] \in Nat /\ \A id \in DOMAIN s[b.roots[t]].live : id < b.next_row[t]
  <2>1. b.roots[t] = Root(t) /\ b.next_row[t] = get_max_row_id(s[Root(t)]) + 1
    BY <1>1, <1>2
  <2>2. SystemTree(s[Root(t)])
    BY <2>1 DEF RowTrees, b
  <2>3. get_max_row_id(s[Root(t)]) \in Nat /\ \A id \in DOMAIN s[Root(t)].live : get_max_row_id(s[Root(t)]) >= id
    BY <2>2, LargestIdIs
  <2>4. DOMAIN s[Root(t)].live \subseteq Nat
    BY <2>2 DEF SystemTree
  <2>5. QED
    BY <2>1, <2>3, <2>4
<1>4. RowsOf(s, b)
  BY <1>2, <1>3 DEF RowsOf, Ahead, b
<1>5. QED
  BY <1>4 DEF b

\* Whether an orderly statement succeeds or fails, the rows stay in order.
LEMMA StatementRows ==
    ASSUME CatInv, CatInv', RowInv, NEW out, NEW changes, execute_statement(out, changes), Orderly(out)
    PROVE  RowInv'
<1>1. /\ ~undone /\ next_root \in 4..(MaxRoot + 1)
      /\ Unused(disk, next_root) /\ Unused(work, next_root)
      /\ RowTrees(disk, bootstrap(disk)) /\ Declared(bootstrap(disk))
      /\ Declared(cat) /\ SysFresh(cat, disk) /\ RowsOf(disk, cat) /\ RowsOf(work, cat)
  BY DEF RowInv, execute_statement
<1>2. /\ Grows(cat, out.cat)
      /\ out.root \in next_root..(MaxRoot + 1)
      /\ out.res = "Ok" => RowsOf(out.store, out.cat) /\ Unused(out.store, out.root)
  BY DEF Orderly
<1>3. cat' = out.cat /\ next_root' = out.root
  BY DEF execute_statement
<1>4. IsStore(disk)
  BY DEF CatInv, Describes
<1>5. RowsOf(disk, cat') /\ SysFresh(cat', disk) /\ Declared(cat')
  BY <1>1, <1>2, <1>3, <1>4, GrowsKeeps
<1>6. MaxRoot \in Nat
  BY BoundsAssumption
<1>7. next_root' \in 4..(MaxRoot + 1) /\ \A r \in next_root'..MaxRoot : r \in next_root..MaxRoot
  BY <1>1, <1>2, <1>3, <1>6
<1>8. Unused(disk, next_root')
  BY <1>1, <1>7 DEF Unused
<1>9. CASE out.res = "Ok"
  <2>1. /\ work' = out.store /\ disk' = (IF txn THEN disk ELSE out.store)
        /\ undone' = undone
    BY <1>9 DEF execute_statement
  <2>2. RowsOf(work', cat') /\ Unused(work', next_root')
    BY <1>2, <1>3, <1>9, <2>1
  <2>3. Describes(work', cat', next_root') /\ SysFresh(cat', work')
    BY <1>1, <2>1 DEF CatInv
  <2>4. CASE txn
    <3>1. disk' = disk
      BY <2>1, <2>4
    <3>2. QED
      BY <1>1, <1>5, <1>7, <1>8, <2>2, <3>1 DEF RowInv
  <2>5. CASE ~txn
    <3>1. disk' = work'
      BY <2>1, <2>5
    <3>2. RowTrees(work', bootstrap(work')) /\ Declared(bootstrap(work'))
      BY <1>5, <2>2, <2>3, BootstrapRows DEF RowsOf
    <3>3. QED
      BY <1>5, <1>7, <2>2, <2>3, <3>1, <3>2 DEF RowInv
  <2>6. QED
    BY <2>4, <2>5
<1>10. CASE out.res # "Ok"
  <2>1. work' = disk /\ disk' = disk
    BY <1>10 DEF execute_statement
  <2>2. QED
    BY <1>1, <1>5, <1>7, <1>8, <2>1 DEF RowInv
<1>11. QED
  BY <1>9, <1>10

\* An empty database has no rows.
LEMMA RowInit == Init => RowInv
<1> SUFFICES ASSUME Init PROVE RowInv
  OBVIOUS
<1>1. /\ disk = [r \in 1..MaxRoot |-> EmptyTree] /\ work = disk /\ cat = bootstrap(disk)
      /\ next_root = 4 /\ undone = FALSE
  BY DEF Init
<1>2. IsStore(disk)
  BY CatInit DEF CatInv, Describes
<1>3. SysFresh(cat, disk)
  BY <1>1, <1>2, BootstrapFresh
<1>4. DOMAIN cat.roots = {}
  <2> DEFINE b == bootstrap(disk)
             R == disk[SYS_ROOTS].live
  <2>1. b.roots = [t \in TablesIn(R) |-> R[Max(IdsOf(R, t))].root]
    BY BootstrapParts, ZenonT(60)
  <2> HIDE DEF b
  <2>2. disk[SYS_ROOTS] = EmptyTree
    BY <1>1, BoundsAssumption DEF SYS_ROOTS
  <2>3. TablesIn(R) = {}
    BY <2>2, EmptyTreeIs DEF TablesIn
  <2>4. QED
    BY <1>1, <2>1, <2>3 DEF b, R
<1>5. RowTrees(disk, cat) /\ Declared(cat)
  BY <1>4 DEF RowTrees, Declared
<1>6. RowsOf(disk, cat)
  BY <1>1, <1>5, BootstrapAhead
<1>7. Unused(disk, next_root) /\ next_root \in 4..(MaxRoot + 1)
  BY <1>1, BoundsAssumption DEF Unused
<1>8. QED
  BY <1>1, <1>3, <1>5, <1>6, <1>7 DEF RowInv

\* A statement that writes rows, or none, keeps both invariants.
LEMMA RowsOrderly ==
    ASSUME CatInv, RowInv, NEW out, DataOnly(out), RowsDone(out), execute_statement(out, FALSE)
    PROVE  RowInv'
<1>1. CatInv'
  BY RowsKeep, Zenon
<1>2. next_root \in 4..(MaxRoot + 1) /\ SysFresh(cat, work)
  BY DEF CatInv, RowInv, execute_statement
<1>3. Orderly(out)
  BY <1>2, DataOrderly
<1>4. QED
  BY <1>1, <1>3, StatementRows, Zenon

\* What a statement finds.
Ready ==
    /\ next_root \in 4..(MaxRoot + 1) /\ Describes(work, cat, next_root) /\ SysFresh(cat, work)
    /\ Unused(work, next_root) /\ RowsOf(work, cat) /\ Declared(cat)

\* Every step keeps the rows in order.
LEMMA RowNext == CatInv /\ RowInv /\ [Next]_vars => RowInv'
<1> SUFFICES ASSUME CatInv, RowInv, [Next]_vars PROVE RowInv'
  OBVIOUS
<1>1. CatInv'
  BY CatNext
<1>2. /\ next_root \in 4..(MaxRoot + 1)
      /\ Unused(disk, next_root) /\ Unused(work, next_root)
      /\ RowTrees(disk, bootstrap(disk)) /\ Declared(bootstrap(disk))
      /\ ~undone => Declared(cat) /\ SysFresh(cat, disk) /\ RowsOf(disk, cat) /\ RowsOf(work, cat)
  BY DEF RowInv
<1>3. ASSUME NEW out, NEW changes, execute_statement(out, changes) PROVE Ready
  BY <1>2, <1>3 DEF CatInv, Ready, execute_statement
<1>4. ASSUME NEW def \in Tables, CreateTable(def) PROVE RowInv'
  <2> DEFINE out == create_table(def)
  <2>1. execute_statement(out, TRUE) /\ next_root <= MaxRoot
    BY <1>4, Zenon DEF CreateTable
  <2>2. Ready
    BY <1>3, <2>1, Zenon
  <2>3. Orderly(out)
    BY <2>1, <2>2, CreateTableOrderly DEF Ready
  <2> HIDE DEF out
  <2>4. QED
    BY <1>1, <2>1, <2>3, StatementRows, Zenon
<1>5. ASSUME NEW table, DropTable(table) PROVE RowInv'
  <2> DEFINE out == drop_table(table)
  <2>1. execute_statement(out, TRUE)
    BY <1>5, Zenon DEF DropTable
  <2>2. Ready
    BY <1>3, <2>1, Zenon
  <2>3. Orderly(out)
    BY <2>2, DropTableOrderly DEF Ready
  <2> HIDE DEF out
  <2>4. QED
    BY <1>1, <2>1, <2>3, StatementRows, Zenon
<1>6. ASSUME NEW def, CreateIndex(def) PROVE RowInv'
  <2> DEFINE out == create_index(def)
  <2>1. execute_statement(out, TRUE) /\ next_root <= MaxRoot
    BY <1>6 DEF CreateIndex
  <2>2. Ready
    BY <1>3, <2>1, Zenon
  <2>3. Orderly(out)
    BY <2>1, <2>2, CreateIndexOrderly DEF Ready
  <2> HIDE DEF out
  <2>4. QED
    BY <1>1, <2>1, <2>3, StatementRows, Zenon
<1>7. ASSUME NEW stmt \in Inserts, Insert(stmt) PROVE RowInv'
  <2> DEFINE out == insert(stmt)
  <2>1. execute_statement(out, FALSE)
    BY <1>7 DEF Insert
  <2>2. Ready
    BY <1>3, <2>1, Zenon
  <2>3. DataOnly(out)
    BY <2>2, InsertData, Zenon DEF Ready
  <2>4. RowsDone(out)
    BY <2>2, InsertRows, Zenon DEF Ready
  <2> HIDE DEF out
  <2>5. QED
    BY <2>1, <2>3, <2>4, RowsOrderly, Zenon
<1>8. ASSUME NEW stmt, Update(stmt) PROVE RowInv'
  <2> DEFINE out == update(stmt)
  <2>1. execute_statement(out, FALSE)
    BY <1>8 DEF Update
  <2>2. Ready
    BY <1>3, <2>1, Zenon
  <2>3. DataOnly(out)
    BY <2>2, UpdateData, Zenon DEF Ready
  <2>4. RowsDone(out)
    <3>1. out = Refused \/ (stmt.table \in DOMAIN cat.schemas /\ Swept("update", stmt, out))
      BY <2>2, UpdateRuns, Zenon DEF Ready
    <3> HIDE DEF out
    <3>2. QED
      BY <2>2, <3>1, SweptRows DEF Ready
  <2> HIDE DEF out
  <2>5. QED
    BY <2>1, <2>3, <2>4, RowsOrderly, Zenon
<1>9. ASSUME NEW stmt, Delete(stmt) PROVE RowInv'
  <2> DEFINE out == delete(stmt)
  <2>1. execute_statement(out, FALSE)
    BY <1>9, Zenon DEF Delete
  <2>2. Ready
    BY <1>3, <2>1, Zenon
  <2>3. DataOnly(out)
    BY <2>2, DeleteData, Zenon DEF Ready
  <2>4. RowsDone(out)
    <3>1. out = Refused \/ (stmt.table \in DOMAIN cat.schemas /\ Swept("delete", stmt, out))
      BY <2>2, DeleteRuns, Zenon DEF Ready
    <3> HIDE DEF out
    <3>2. QED
      BY <2>2, <3>1, SweptRows DEF Ready
  <2> HIDE DEF out
  <2>5. QED
    BY <2>1, <2>3, <2>4, RowsOrderly, Zenon
<1>10. ASSUME NEW stmt, Select(stmt) PROVE RowInv'
  <2> DEFINE out == Outcome("Exec", work, cat)
  <2>1. execute_statement(out, FALSE)
    BY <1>10 DEF Select
  <2>2. Ready
    BY <1>3, <2>1, Zenon
  <2>3. DataOnly(out)
    BY <2>2, SchemasOfTables, NothingDone, Zenon DEF Ready
  <2>4. RowsDone(out)
    BY <2>2, StartRows, Zenon DEF Ready
  <2> HIDE DEF out
  <2>5. QED
    BY <2>1, <2>3, <2>4, RowsOrderly, Zenon
<1>11. CASE handle_begin
  <2>1. UNCHANGED <<disk, work, cat, next_root, undone>>
    BY <1>11 DEF handle_begin
  <2>2. QED
    BY <1>2, <2>1 DEF RowInv
<1>12. CASE handle_commit
  <2>1. txn /\ disk' = work /\ UNCHANGED <<work, cat, next_root, undone>>
    BY <1>12 DEF handle_commit
  <2>2. ~undone /\ Describes(work, cat, next_root) /\ SysFresh(cat, work)
    BY <2>1 DEF CatInv
  <2>3. RowTrees(work, bootstrap(work)) /\ Declared(bootstrap(work))
    BY <1>2, <2>2, BootstrapRows DEF RowsOf
  <2>4. QED
    BY <1>2, <2>1, <2>2, <2>3 DEF RowInv
<1>13. CASE handle_rollback
  <2>1. txn /\ work' = disk /\ undone' = ddl /\ UNCHANGED <<disk, cat, next_root>>
    BY <1>13 DEF handle_rollback
  <2>2. ~undone
    BY <2>1 DEF CatInv
  <2>3. QED
    BY <1>2, <2>1, <2>2 DEF RowInv
<1>14. CASE Restart
  <2>1. work' = disk /\ cat' = bootstrap(disk) /\ UNCHANGED <<disk, next_root>>
    BY <1>14 DEF Restart
  <2>2. SysFresh(bootstrap(disk), disk)
    BY BootstrapFresh DEF CatInv, Describes
  <2>3. RowsOf(disk, bootstrap(disk))
    BY <1>2, BootstrapAhead
  <2>4. QED
    BY <1>2, <2>1, <2>2, <2>3 DEF RowInv
<1>15. CASE UNCHANGED vars
  BY <1>2, <1>15 DEF RowInv, vars
<1>16. QED
  BY <1>4, <1>5, <1>6, <1>7, <1>8, <1>9, <1>10, <1>11, <1>12, <1>13, <1>14, <1>15 DEF Next

\* The counters of the cache are ahead of every row id and of every id of a
\* system table, committed or not, whatever the statements, explicit keys,
\* transactions and restarts, as long as no change to the catalog is rolled
\* back: an automatic id never meets a row.
THEOREM RowIdsFresh == Spec => []FreshRowIds
<1>1. CatInv /\ RowInv => FreshRowIds
  <2> SUFFICES ASSUME CatInv, RowInv, ~undone, NEW s \in {disk, work}
               PROVE  /\ \A t \in DOMAIN cat.roots : \A id \in DOMAIN Rows(s, t) : id < cat.next_row[t]
                      /\ \A r \in SysRoots : \A id \in DOMAIN s[r].live : id < cat.next_sys
    BY DEF FreshRowIds
  <2>1. RowsOf(disk, cat) /\ RowsOf(work, cat) /\ SysFresh(cat, disk) /\ SysFresh(cat, work)
    BY DEF CatInv, RowInv
  <2>2. RowsOf(s, cat) /\ SysFresh(cat, s)
    BY <2>1
  <2>3. QED
    BY <2>2 DEF RowsOf, Ahead, SysFresh, Rows
<1>2. Spec => [](CatInv /\ RowInv)
  BY CatInit, CatNext, RowInit, RowNext, PTL DEF Spec
<1>3. QED
  BY <1>1, <1>2, PTL

-----------------------------------------------------------------------------
(* The lists of an index *)

\* A list of row ids without repetitions.
Distinct(ids) == ids \in Seq(Nat) /\ \A a, b \in DOMAIN ids : ids[a] = ids[b] => a = b

\* What is kept of a list is every other id, once.
LEMMA RemoveIdIs ==
    ASSUME NEW ids, Distinct(ids), NEW row_id
    PROVE  Distinct(RemoveId(ids, row_id)) /\ ToSet(RemoveId(ids, row_id)) = ToSet(ids) \ {row_id}
<1> DEFINE k == Len(ids)
           body(u) == [n \in 0..k |->
               IF n = 0 THEN <<>> ELSE IF ids[n] = row_id THEN u[n - 1] ELSE Append(u[n - 1], ids[n])]
           kept == CHOOSE u : u = body(u)
           g == [n \in 1..k |-> [v \in Seq(Nat) |-> IF ids[n] = row_id THEN v ELSE Append(v, ids[n])]]
<1>1. RemoveId(ids, row_id) = kept[k]
  BY Zenon DEF RemoveId
<1>2. k \in Nat /\ DOMAIN ids = 1..k /\ \A n \in 1..k : ids[n] \in Nat
  BY DEF Distinct
<1> HIDE DEF k
<1>3. g \in [1..k -> [Seq(Nat) -> Seq(Nat)]]
  BY <1>2
<1>4. \A n \in 1..k : \A v \in Seq(Nat) : g[n][v] = IF ids[n] = row_id THEN v ELSE Append(v, ids[n])
  OBVIOUS
<1> HIDE DEF g
<1>5. <<>> \in Seq(Nat)
  OBVIOUS
<1>6. PICK f : IsRecursive(f, k, Seq(Nat), <<>>, g)
  BY <1>2, <1>3, <1>5, RecursiveFunction
<1>7. /\ f \in [0..k -> Seq(Nat)] /\ f[0] = <<>>
      /\ \A n \in 1..k : f[n] = IF ids[n] = row_id THEN f[n - 1] ELSE Append(f[n - 1], ids[n])
  <2>1. /\ f \in [0..k -> Seq(Nat)] /\ f[0] = <<>>
        /\ \A n \in 1..k : f[n] = g[n][f[n - 1]]
    BY <1>6 DEF IsRecursive
  <2>2. \A n \in 1..k : n - 1 \in 0..k
    BY <1>2
  <2>3. QED
    BY <1>4, <2>1, <2>2
<1>8. f = body(f)
  <2>1. f = [n \in 0..k |-> f[n]]
    BY <1>7
  <2>2. \A n \in 0..k : f[n] = IF n = 0 THEN <<>> ELSE IF ids[n] = row_id THEN f[n - 1] ELSE Append(f[n - 1], ids[n])
    <3>1. \A n \in 0..k : n # 0 => n \in 1..k
      BY <1>2
    <3>2. QED
      BY <1>7, <3>1
  <2>3. QED
    BY <2>1, <2>2
<1>9. kept = body(kept)
  <2> HIDE DEF body
  <2>1. QED
    BY <1>8
<1> HIDE DEF kept
<1>10. kept[0] = <<>> /\ \A n \in 0..(k - 1) :
          kept[n + 1] = IF ids[n + 1] = row_id THEN kept[n] ELSE Append(kept[n], ids[n + 1])
  <2>1. 0 \in 0..k /\ \A n \in 0..(k - 1) : n + 1 \in 0..k /\ n + 1 # 0 /\ (n + 1) - 1 = n
    BY <1>2
  <2>2. \A n \in 0..k : kept[n] =
           IF n = 0 THEN <<>> ELSE IF ids[n] = row_id THEN kept[n - 1] ELSE Append(kept[n - 1], ids[n])
    BY <1>9
  <2> HIDE DEF body
  <2>3. QED
    BY <2>1, <2>2
<1> HIDE DEF body
<1> DEFINE Part(n) == {ids[i] : i \in 1..n} \ {row_id}
           S == {n \in 0..k : Distinct(kept[n]) /\ ToSet(kept[n]) = Part(n)}
<1>11. 0 \in S
  <2>1. Distinct(<<>>) /\ ToSet(<<>>) = {} /\ Part(0) = {} /\ 0 \in 0..k
    BY <1>2 DEF Distinct, ToSet
  <2> HIDE DEF Part
  <2>2. QED
    BY <1>10, <2>1
<1>12. ASSUME NEW n \in 0..(k - 1), n \in S PROVE n + 1 \in S
  <2>1. n + 1 \in 0..k /\ n + 1 \in 1..k /\ 1..(n + 1) = 1..n \cup {n + 1} /\ n + 1 \notin 1..n
    BY <1>2
  <2>2. Distinct(kept[n]) /\ ToSet(kept[n]) = Part(n)
    BY <1>12
  <2>3. CASE ids[n + 1] = row_id
    <3>1. kept[n + 1] = kept[n]
      BY <1>10, <2>3
    <3>2. Part(n + 1) = Part(n)
      BY <2>1, <2>3
    <3>3. QED
      BY <2>1, <2>2, <3>1, <3>2
  <2>4. CASE ids[n + 1] # row_id
    <3> DEFINE x == ids[n + 1]
               s == kept[n]
    <3>1. kept[n + 1] = Append(s, x) /\ x \in Nat /\ s \in Seq(Nat)
      BY <1>2, <1>10, <2>1, <2>2, <2>4 DEF Distinct
    <3>2. Part(n + 1) = Part(n) \cup {x}
      BY <2>1, <2>4
    <3>3. x \notin Part(n)
      <4>1. \A i \in 1..n : i \in DOMAIN ids /\ n + 1 \in DOMAIN ids /\ i # n + 1
        BY <1>2, <2>1
      <4>2. QED
        BY <4>1 DEF Distinct
    <3> HIDE DEF x, s, Part
    <3>4. \A a \in DOMAIN s : s[a] # x
      BY <2>2, <3>3 DEF ToSet, s
    <3>5. Distinct(s) /\ ToSet(s) = Part(n)
      BY <2>2 DEF s
    <3>6. /\ Append(s, x) \in Seq(Nat)
          /\ DOMAIN Append(s, x) = 1..(Len(s) + 1) /\ DOMAIN s = 1..Len(s) /\ Len(s) \in Nat
          /\ Append(s, x)[Len(s) + 1] = x
          /\ \A a \in 1..Len(s) : Append(s, x)[a] = s[a]
      BY <3>1
    <3>7. DOMAIN Append(s, x) = DOMAIN s \cup {Len(s) + 1}
      BY <3>6
    <3>8. Distinct(Append(s, x))
      BY <3>4, <3>5, <3>6, <3>7 DEF Distinct
    <3>9. ToSet(Append(s, x)) = ToSet(s) \cup {x}
      BY <3>6, <3>7 DEF ToSet
    <3>10. QED
      BY <2>1, <3>1, <3>2, <3>5, <3>8, <3>9
  <2>5. QED
    BY <2>3, <2>4
<1> HIDE DEF S
<1>13. k \in S
  <2>1. \A n \in 0..k : n \in S
    BY <1>2, <1>11, <1>12, BoundedInduction
  <2>2. k \in 0..k
    BY <1>2
  <2>3. QED
    BY <2>1, <2>2
<1>14. QED
  BY <1>1, <1>2, <1>13 DEF S, ToSet

\* A tree of lists of row ids, none of them empty.
Lists(ix) ==
    /\ DOMAIN ix = {"live", "dead"} /\ IsFiniteSet(DOMAIN ix.live) /\ IsFiniteSet(ix.dead)
    /\ \A k \in DOMAIN ix.live : Distinct(ix.live[k]) /\ ix.live[k] # <<>>

\* The row id stands in the list of the key.
Listed(ix, k, id) == k \in DOMAIN ix.live /\ id \in ToSet(ix.live[k])

\* The list of one key is another one, or a new one.
PutsList(ix, key, ids, new) ==
    /\ DOMAIN new = {"live", "dead"} /\ IsFiniteSet(new.dead)
    /\ DOMAIN new.live = DOMAIN ix.live \cup {key} /\ new.live[key] = ids
    /\ \A k \in DOMAIN ix.live : k # key => new.live[k] = ix.live[k]

\* The other lists are what they were.
LEMMA ListPut ==
    ASSUME NEW ix, Lists(ix), NEW key, NEW ids, Distinct(ids), ids # <<>>,
           NEW new, PutsList(ix, key, ids, new)
    PROVE  /\ Lists(new)
           /\ \A k, x : Listed(new, k, x) <=> IF k = key THEN x \in ToSet(ids) ELSE Listed(ix, k, x)
<1>0. /\ DOMAIN new = {"live", "dead"} /\ IsFiniteSet(new.dead)
      /\ DOMAIN new.live = DOMAIN ix.live \cup {key} /\ new.live[key] = ids
      /\ \A k \in DOMAIN ix.live : k # key => new.live[k] = ix.live[k]
  BY DEF PutsList
<1>1. IsFiniteSet(DOMAIN new.live)
  BY <1>0, FS_AddElement DEF Lists
<1>2. \A k \in DOMAIN new.live : Distinct(new.live[k]) /\ new.live[k] # <<>>
  BY <1>0 DEF Lists
<1>3. Lists(new)
  BY <1>0, <1>1, <1>2 DEF Lists
<1>4. ASSUME NEW k, NEW x
      PROVE  Listed(new, k, x) <=> IF k = key THEN x \in ToSet(ids) ELSE Listed(ix, k, x)
  <2>1. CASE k = key
    BY <1>0, <2>1 DEF Listed
  <2>2. CASE k # key
    BY <1>0, <2>2 DEF Listed
  <2>3. QED
    BY <2>1, <2>2
<1>5. QED
  BY <1>3, <1>4

\* An id is added to the list of its key.
LEMMA IndexAddIs ==
    ASSUME NEW ix, Lists(ix), NEW unique, NEW key, NEW id \in Nat, ~Listed(ix, key, id),
           NEW new \in index_add(ix, unique, key, id)
    PROVE  /\ Lists(new)
           /\ \A k, x : Listed(new, k, x) <=> (Listed(ix, k, x) \/ (k = key /\ x = id))
           /\ unique => \A x : ~Listed(ix, key, x)
<1> DEFINE fresh == tree_insert(ix, key, <<id>>)
           old == ix.live[key]
<1>1. /\ DOMAIN ix = {"live", "dead"} /\ IsFiniteSet(DOMAIN ix.live) /\ IsFiniteSet(ix.dead)
      /\ \A k \in DOMAIN ix.live : Distinct(ix.live[k]) /\ ix.live[k] # <<>>
  BY DEF Lists
<1>2. new \in IF fresh # {} THEN fresh
              ELSE IF unique \/ Len(old) = MAX_ROW_IDS THEN {}
              ELSE {tree_update(ix, key, Append(old, id))}
  BY Zenon DEF index_add
<1>3. CASE key \notin DOMAIN ix.live
  <2> DEFINE live == With(ix.live, key, <<id>>)
             dead == IF key \in ix.dead THEN {} ELSE ix.dead
  <2>1. fresh = {[live |-> live, dead |-> dead]}
    BY <1>3, Zenon DEF tree_insert
  <2>0. dead \subseteq ix.dead
    OBVIOUS
  <2>2. /\ DOMAIN live = DOMAIN ix.live \cup {key} /\ live[key] = <<id>>
        /\ \A k \in DOMAIN ix.live : k # key => live[k] = ix.live[k]
    BY DEF With
  <2> HIDE DEF live, dead, fresh
  <2>3. new = [live |-> live, dead |-> dead]
    BY <1>2, <2>1
  <2>4. DOMAIN new = {"live", "dead"} /\ new.live = live /\ IsFiniteSet(new.dead)
    BY <1>1, <2>0, <2>3, FS_Subset
  <2>5. Distinct(<<id>>) /\ <<id>> # <<>> /\ ToSet(<<id>>) = {id}
    BY DEF Distinct, ToSet
  <2>6. /\ Lists(new)
        /\ \A k, x : Listed(new, k, x) <=> IF k = key THEN x \in ToSet(<<id>>) ELSE Listed(ix, k, x)
    <3>1. PutsList(ix, key, <<id>>, new)
      BY <2>2, <2>4 DEF PutsList
    <3>2. QED
      BY <2>5, <3>1, ListPut
  <2>7. \A x : ~Listed(ix, key, x)
    BY <1>3 DEF Listed
  <2>8. QED
    BY <2>5, <2>6, <2>7
<1>4. CASE key \in DOMAIN ix.live
  <2> DEFINE ids == Append(old, id)
             live == [ix.live EXCEPT ![key] = ids]
  <2>1. fresh = {}
    BY <1>4, Zenon DEF tree_insert
  <2>2. ~unique
    BY <1>2, <2>1, Zenon
  <2>3. new = tree_update(ix, key, ids)
    BY <1>2, <2>1
  <2>4. /\ DOMAIN live = DOMAIN ix.live \cup {key} /\ live[key] = ids
        /\ \A k \in DOMAIN ix.live : k # key => live[k] = ix.live[k]
    BY <1>4
  <2>5. new = [ix EXCEPT !.live = live]
    BY <2>3, Zenon DEF tree_update
  <2> HIDE DEF live, ids, old, fresh
  <2>6. DOMAIN new = {"live", "dead"} /\ new.live = live /\ new.dead = ix.dead
    BY <1>1, <2>5
  <2>7. Distinct(ids) /\ ids # <<>> /\ ToSet(ids) = ToSet(old) \cup {id}
    <3>1. Distinct(old) /\ old \in Seq(Nat)
      BY <1>1, <1>4 DEF Distinct, old
    <3>2. \A a \in DOMAIN old : old[a] # id
      BY <1>4 DEF Listed, ToSet, old
    <3>3. /\ ids \in Seq(Nat)
          /\ DOMAIN ids = 1..(Len(old) + 1) /\ DOMAIN old = 1..Len(old) /\ Len(old) \in Nat
          /\ ids[Len(old) + 1] = id
          /\ \A a \in 1..Len(old) : ids[a] = old[a]
      BY <3>1 DEF ids
    <3>4. DOMAIN ids = DOMAIN old \cup {Len(old) + 1}
      BY <3>3
    <3>5. Distinct(ids)
      BY <3>1, <3>2, <3>3, <3>4 DEF Distinct
    <3>6. ToSet(ids) = ToSet(old) \cup {id}
      BY <3>3, <3>4 DEF ToSet
    <3>7. ids # <<>>
      BY <3>3
    <3>8. QED
      BY <3>5, <3>6, <3>7
  <2>8. /\ Lists(new)
        /\ \A k, x : Listed(new, k, x) <=> IF k = key THEN x \in ToSet(ids) ELSE Listed(ix, k, x)
    <3>1. PutsList(ix, key, ids, new)
      BY <1>1, <2>4, <2>6 DEF PutsList
    <3>2. QED
      BY <2>7, <3>1, ListPut
  <2>9. \A x : Listed(ix, key, x) <=> x \in ToSet(old)
    BY <1>4 DEF Listed, old
  <2>10. \A k, x : Listed(new, k, x) <=> (Listed(ix, k, x) \/ (k = key /\ x = id))
    BY <2>7, <2>8, <2>9
  <2>11. QED
    BY <2>2, <2>8, <2>10
<1>5. QED
  BY <1>3, <1>4

\* An id is removed from the list of its key.
LEMMA IndexRemoveIs ==
    ASSUME NEW ix, Lists(ix), NEW key, NEW id, NEW new, new = index_remove(ix, key, id)
    PROVE  /\ Lists(new)
           /\ \A k, x : Listed(new, k, x) <=> (Listed(ix, k, x) /\ ~(k = key /\ x = id))
<1> DEFINE old == ix.live[key]
           ids == RemoveId(old, id)
<1>1. /\ DOMAIN ix = {"live", "dead"} /\ IsFiniteSet(DOMAIN ix.live) /\ IsFiniteSet(ix.dead)
      /\ \A k \in DOMAIN ix.live : Distinct(ix.live[k]) /\ ix.live[k] # <<>>
  BY DEF Lists
<1>2. new = IF key \notin DOMAIN ix.live THEN ix
            ELSE IF ids = <<>> THEN tree_delete(ix, key) ELSE tree_update(ix, key, ids)
  BY Zenon DEF index_remove
<1>3. CASE key \notin DOMAIN ix.live
  <2>1. new = ix
    BY <1>2, <1>3
  <2>2. \A k, x : Listed(ix, k, x) => k # key
    BY <1>3 DEF Listed
  <2>3. QED
    BY <2>1, <2>2
<1>4. CASE key \in DOMAIN ix.live
  <2>1. Distinct(ids) /\ ToSet(ids) = ToSet(old) \ {id}
    BY <1>1, <1>4, RemoveIdIs
  <2>2. \A x : Listed(ix, key, x) <=> x \in ToSet(old)
    BY <1>4 DEF Listed
  <2>3. CASE ids = <<>>
    <3> DEFINE live == [k \in DOMAIN ix.live \ {key} |-> ix.live[k]]
               dead == ix.dead \cup ({key} \cap DOMAIN ix.live)
    <3>1. new = [live |-> live, dead |-> dead]
      BY <1>2, <1>4, <2>3, Zenon DEF tree_delete
    <3>2. DOMAIN live = DOMAIN ix.live \ {key} /\ \A k \in DOMAIN live : live[k] = ix.live[k]
      OBVIOUS
    <3>3. IsFiniteSet(DOMAIN live) /\ IsFiniteSet(dead)
      <4>1. dead = ix.dead \cup {key}
        BY <1>4
      <4>2. QED
        BY <1>1, <3>2, <4>1, FS_Subset, FS_AddElement
    <3>4. ToSet(ids) = {}
      BY <2>3 DEF ToSet
    <3> HIDE DEF live, dead, ids
    <3>5. DOMAIN new = {"live", "dead"} /\ new.live = live /\ new.dead = dead
      BY <3>1
    <3>6. Lists(new)
      BY <1>1, <3>2, <3>3, <3>5 DEF Lists
    <3>7. ASSUME NEW k, NEW x PROVE Listed(new, k, x) <=> (Listed(ix, k, x) /\ ~(k = key /\ x = id))
      <4>1. CASE k = key
        <5>1. ~Listed(new, k, x)
          BY <3>2, <3>5, <4>1 DEF Listed
        <5>2. Listed(ix, k, x) => x = id
          BY <2>1, <2>2, <3>4, <4>1
        <5>3. QED
          BY <4>1, <5>1, <5>2
      <4>2. CASE k # key
        <5>1. Listed(new, k, x) <=> Listed(ix, k, x)
          BY <3>2, <3>5, <4>2 DEF Listed
        <5>2. QED
          BY <4>2, <5>1
      <4>3. QED
        BY <4>1, <4>2
    <3>8. QED
      BY <3>6, <3>7
  <2>4. CASE ids # <<>>
    <3> DEFINE live == [ix.live EXCEPT ![key] = ids]
    <3>1. new = [ix EXCEPT !.live = live]
      BY <1>2, <1>4, <2>4, Zenon DEF tree_update
    <3>2. /\ DOMAIN live = DOMAIN ix.live \cup {key} /\ live[key] = ids
          /\ \A k \in DOMAIN ix.live : k # key => live[k] = ix.live[k]
      BY <1>4
    <3> HIDE DEF live, ids, old
    <3>3. DOMAIN new = {"live", "dead"} /\ new.live = live /\ new.dead = ix.dead
      BY <1>1, <3>1
    <3>4. PutsList(ix, key, ids, new)
      BY <1>1, <3>2, <3>3 DEF PutsList
    <3>5. /\ Lists(new)
          /\ \A k, x : Listed(new, k, x) <=> IF k = key THEN x \in ToSet(ids) ELSE Listed(ix, k, x)
      BY <2>1, <2>4, <3>4, ListPut
    <3>6. QED
      BY <2>1, <2>2, <3>5
  <2>5. QED
    BY <2>3, <2>4
<1>5. QED
  BY <1>3, <1>4

-----------------------------------------------------------------------------
(* An index and the rows of its table *)

\* The lists of an index hold row ids under the keys of the rows: all of them
\* when the index is whole, and one per key when it is unique.
IndexSound(ix, rows, i, unique, whole) ==
    /\ Lists(ix)
    /\ \A k, id : Listed(ix, k, id) => id \in DOMAIN rows /\ k = to_index_key(rows[id][i])
    /\ whole => \A id \in DOMAIN rows : Listed(ix, to_index_key(rows[id][i]), id)
    /\ unique => \A k, x, y : Listed(ix, k, x) /\ Listed(ix, k, y) => x = y

\* The rows and one more, and the rows but one.
RowAdded(rows, id, values, more) ==
    /\ DOMAIN more = DOMAIN rows \cup {id} /\ more[id] = values
    /\ \A x \in DOMAIN rows : x # id => more[x] = rows[x]
RowRemoved(rows, id, less) == DOMAIN less = DOMAIN rows \ {id} /\ \A x \in DOMAIN less : less[x] = rows[x]

\* A row comes with its entry.
LEMMA EntryAdded ==
    ASSUME NEW ix, NEW rows, NEW i, NEW unique, NEW whole,
           IndexSound(ix, rows, i, unique, whole), NEW id \in Nat, id \notin DOMAIN rows, NEW values,
           NEW new \in index_add(ix, unique, to_index_key(values[i]), id),
           NEW more, RowAdded(rows, id, values, more)
    PROVE  IndexSound(new, more, i, unique, whole)
<1> DEFINE key == to_index_key(values[i])
<1> HIDE DEF key
<1>1. /\ Lists(ix)
      /\ \A k, x : Listed(ix, k, x) => x \in DOMAIN rows /\ k = to_index_key(rows[x][i])
      /\ whole => \A x \in DOMAIN rows : Listed(ix, to_index_key(rows[x][i]), x)
      /\ unique => \A k, x, y : Listed(ix, k, x) /\ Listed(ix, k, y) => x = y
  BY Zenon DEF IndexSound
<1>2. ~Listed(ix, key, id) /\ new \in index_add(ix, unique, key, id)
  BY <1>1 DEF key
<1>3. /\ Lists(new)
      /\ \A k, x : Listed(new, k, x) <=> (Listed(ix, k, x) \/ (k = key /\ x = id))
      /\ unique => \A x : ~Listed(ix, key, x)
  BY <1>1, <1>2, IndexAddIs
<1>4. /\ DOMAIN more = DOMAIN rows \cup {id} /\ more[id][i] = values[i]
      /\ \A x \in DOMAIN rows : more[x] = rows[x]
  BY DEF RowAdded
<1>5. \A k, x : Listed(new, k, x) => x \in DOMAIN more /\ k = to_index_key(more[x][i])
  BY <1>1, <1>3, <1>4 DEF key
<1>6. whole => \A x \in DOMAIN more : Listed(new, to_index_key(more[x][i]), x)
  BY <1>1, <1>3, <1>4 DEF key
<1>7. unique => \A k, x, y : Listed(new, k, x) /\ Listed(new, k, y) => x = y
  BY <1>1, <1>3
<1>8. QED
  BY <1>3, <1>5, <1>6, <1>7, Zenon DEF IndexSound

\* A row goes with its entry.
LEMMA EntryRemoved ==
    ASSUME NEW ix, NEW rows, NEW i, NEW unique, NEW whole,
           IndexSound(ix, rows, i, unique, whole), NEW id \in DOMAIN rows,
           NEW new, new = index_remove(ix, to_index_key(rows[id][i]), id),
           NEW less, RowRemoved(rows, id, less)
    PROVE  IndexSound(new, less, i, unique, whole)
<1> DEFINE key == to_index_key(rows[id][i])
<1> HIDE DEF key
<1>1. /\ Lists(ix)
      /\ \A k, x : Listed(ix, k, x) => x \in DOMAIN rows /\ k = to_index_key(rows[x][i])
      /\ whole => \A x \in DOMAIN rows : Listed(ix, to_index_key(rows[x][i]), x)
      /\ unique => \A k, x, y : Listed(ix, k, x) /\ Listed(ix, k, y) => x = y
  BY Zenon DEF IndexSound
<1>2. new = index_remove(ix, key, id)
  BY DEF key
<1>3. /\ Lists(new)
      /\ \A k, x : Listed(new, k, x) <=> (Listed(ix, k, x) /\ ~(k = key /\ x = id))
  BY <1>1, <1>2, IndexRemoveIs
<1>4. /\ \A k : Listed(ix, k, id) => k = key
      /\ DOMAIN less = DOMAIN rows \ {id} /\ \A x \in DOMAIN less : less[x] = rows[x]
  BY <1>1 DEF key, RowRemoved
<1>5. \A k, x : Listed(new, k, x) => x \in DOMAIN less /\ k = to_index_key(less[x][i])
  BY <1>1, <1>3, <1>4
<1>6. whole => \A x \in DOMAIN less : Listed(new, to_index_key(less[x][i]), x)
  BY <1>1, <1>3, <1>4
<1>7. unique => \A k, x, y : Listed(new, k, x) /\ Listed(new, k, y) => x = y
  BY <1>1, <1>3
<1>8. QED
  BY <1>3, <1>5, <1>6, <1>7, Zenon DEF IndexSound

\* A row that changes moves its entry.
LEMMA EntryMoved ==
    ASSUME NEW ix, NEW rows, NEW i, NEW unique, NEW whole,
           IndexSound(ix, rows, i, unique, whole), NEW id \in DOMAIN rows, id \in Nat, NEW values,
           NEW new \in Reindex(ix, unique, id, rows[id][i], values[i]),
           NEW other, RowAdded(rows, id, values, other)
    PROVE  IndexSound(new, other, i, unique, whole)
<1>1. DOMAIN other = DOMAIN rows /\ other[id] = values /\ \A x \in DOMAIN rows : x # id => other[x] = rows[x]
  BY DEF RowAdded
<1>2. CASE rows[id][i] = values[i]
  <2>1. new = ix
    BY <1>2 DEF Reindex
  <2>2. \A x \in DOMAIN rows : other[x][i] = rows[x][i]
    BY <1>1, <1>2
  <2>3. QED
    BY <1>1, <2>1, <2>2, ZenonT(60) DEF IndexSound
<1>3. CASE rows[id][i] # values[i]
  <2> DEFINE mid == index_remove(ix, to_index_key(rows[id][i]), id)
             less == [x \in DOMAIN rows \ {id} |-> rows[x]]
  <2>1. new \in index_add(mid, unique, to_index_key(values[i]), id)
    BY <1>3, Zenon DEF Reindex
  <2>2. RowRemoved(rows, id, less) /\ id \notin DOMAIN less
    BY DEF RowRemoved
  <2>3. RowAdded(less, id, values, other)
    BY <1>1 DEF RowAdded
  <2> HIDE DEF less
  <2>4. IndexSound(mid, less, i, unique, whole)
    BY <2>2, EntryRemoved
  <2> HIDE DEF mid
  <2>5. QED
    BY <2>1, <2>2, <2>3, <2>4, EntryAdded
<1>4. QED
  BY <1>2, <1>3

-----------------------------------------------------------------------------
(* The rows that a scan yields *)

\* A place in a scan.
CursorOK(cursor) == cursor.slot \in Nat \ {0} /\ cursor.pending \in Seq(Nat)

\* A scan goes through the rows of a table, or through the lists of an index.
ScanReady(store, scan) ==
    /\ SystemTree(store[scan.primary])
    /\ IF scan.kind = "Secondary" THEN Lists(store[scan.root]) ELSE scan.root = scan.primary

\* It is at its end, or at a row of the table.
Yielded(rows, got) ==
    /\ CursorOK(got.cursor)
    /\ got.row = <<>> \/ \E id \in DOMAIN rows : got.row = <<[row_id |-> id, values |-> rows[id]]>>

\* The slots of a tree.
LEMMA SlotsAre ==
    ASSUME NEW tree, IsFiniteSet(DOMAIN tree.live), IsFiniteSet(tree.dead)
    PROVE  Len(Slots(tree)) \in Nat
<1> DEFINE S == DOMAIN tree.live \cup tree.dead
           k == Cardinality(S)
           P(n) == CHOOSE x \in S : Cardinality({y \in S : y < x}) = n - 1
<1>1. k \in Nat
  BY FS_Union, FS_CardinalityType
<1>2. Slots(tree) = [n \in 1..k |-> P(n)]
  BY Zenon DEF Slots, InOrder
<1> HIDE DEF k, P
<1>3. QED
  BY <1>1, <1>2

\* A scan begins somewhere.
LEMMA OpenScanIs ==
    ASSUME NEW store, NEW scan, ScanReady(store, scan)
    PROVE  CursorOK(open_scan(store, scan))
<1> DEFINE tree == store[scan.root]
           S == {k \in DOMAIN tree.live \cup tree.dead : k < scan.key}
           cursor == open_scan(store, scan)
<1>1. IsFiniteSet(DOMAIN tree.live) /\ IsFiniteSet(tree.dead)
  BY DEF ScanReady, SystemTree, Lists
<1>2. IsFiniteSet(S)
  <2>1. IsFiniteSet(DOMAIN tree.live \cup tree.dead)
    BY <1>1, FS_Union
  <2>2. S \subseteq DOMAIN tree.live \cup tree.dead
    OBVIOUS
  <2> HIDE DEF S
  <2>3. QED
    BY <2>1, <2>2, FS_Subset
<1>3. Cardinality(S) \in Nat
  BY <1>2, FS_CardinalityType
<1> HIDE DEF S
<1>4. /\ cursor.slot = IF scan.op \in {"Eq", "Gt", "Gte"} THEN 1 + Cardinality(S) ELSE 1
      /\ cursor.pending = <<>>
  BY DEF open_scan, SlotFrom, S
<1>5. QED
  BY <1>3, <1>4 DEF CursorOK

\* A scan yields rows of the table.
LEMMA ScanNextIs ==
    ASSUME NEW store, NEW scan, ScanReady(store, scan), NEW cursor, CursorOK(cursor),
           NEW got, got = scan_next(store, scan, cursor)
    PROVE  Yielded(store[scan.primary].live, got)
<1> DEFINE tree == store[scan.root]
           keys == Slots(tree)
           rows == store[scan.primary].live
           Held(slot)  == IF scan.kind = "Secondary" THEN tree.live[keys[slot]] ELSE <<keys[slot]>>
           Found(ids)  == {i \in DOMAIN ids : ids[i] \in DOMAIN rows}
           Live(slot, bound) == keys[slot] \in DOMAIN tree.live
                                /\ Boundary(scan.op, keys[slot], scan.key) = bound
           Stops(slot)  == slot > Len(keys) \/ Live(slot, "stop")
           Yields(slot) == slot <= Len(keys) /\ Live(slot, "take") /\ Found(Held(slot)) # {}
           C == {slot \in cursor.slot..(cursor.slot + Len(keys)) : Stops(slot) \/ Yields(slot)}
           next == Min(C)
           Yield(slot, ids, i) ==
            [row    |-> <<[row_id |-> ids[i], values |-> rows[ids[i]]]>>,
             cursor |-> [slot |-> slot, pending |-> SubSeq(ids, i + 1, Len(ids))]]
<1>1. got = IF Found(cursor.pending) # {}
            THEN Yield(cursor.slot, cursor.pending, Min(Found(cursor.pending)))
            ELSE IF Stops(next) THEN [row |-> <<>>, cursor |-> [slot |-> next + 1, pending |-> <<>>]]
            ELSE Yield(next + 1, Held(next), Min(Found(Held(next))))
  BY Zenon DEF scan_next
<1>2. cursor.slot \in Nat \ {0} /\ cursor.pending \in Seq(Nat)
  BY DEF CursorOK
<1>3. Len(keys) \in Nat
  <2>1. IsFiniteSet(DOMAIN tree.live) /\ IsFiniteSet(tree.dead)
    BY DEF ScanReady, SystemTree, Lists
  <2>2. QED
    BY <2>1, SlotsAre
<1>4. ASSUME NEW slot \in Nat \ {0}, NEW ids \in Seq(Nat), Found(ids) # {}
      PROVE  Yielded(rows, Yield(slot, ids, Min(Found(ids))))
  <2> DEFINE i == Min(Found(ids))
  <2>1. Found(ids) \in SUBSET Nat
    OBVIOUS
  <2>2. i \in Found(ids)
    BY <1>4, <2>1, MinOfNumbers
  <2> HIDE DEF i
  <2>3. i \in 1..Len(ids) /\ Len(ids) \in Nat /\ ids[i] \in DOMAIN rows
    BY <2>2
  <2>4. SubSeq(ids, i + 1, Len(ids)) \in Seq(Nat)
    BY <2>3, SubSeqProperties
  <2>5. CursorOK(Yield(slot, ids, i).cursor)
    BY <2>4 DEF CursorOK
  <2>6. Yield(slot, ids, i).row = <<[row_id |-> ids[i], values |-> rows[ids[i]]]>>
    OBVIOUS
  <2>7. QED
    BY <2>3, <2>5, <2>6, Zenon DEF Yielded, i
<1>5. next \in C
  <2> DEFINE last == cursor.slot + Len(keys)
  <2>1. last \in cursor.slot..last /\ last > Len(keys)
    BY <1>2, <1>3
  <2>2. Stops(last)
    BY <2>1, Zenon
  <2> HIDE DEF Stops, Yields
  <2>3. last \in C
    BY <2>1, <2>2, Zenon
  <2>4. C \in SUBSET Nat
    BY <1>2, <1>3
  <2> HIDE DEF C
  <2>5. QED
    BY <2>3, <2>4, MinOfNumbers
<1> HIDE DEF next
<1>6. next \in Nat \ {0} /\ (Stops(next) \/ Yields(next))
  <2> HIDE DEF Stops, Yields
  <2>1. next \in cursor.slot..(cursor.slot + Len(keys)) /\ (Stops(next) \/ Yields(next))
    BY <1>5, Zenon
  <2>2. next \in Nat \ {0}
    BY <1>2, <1>3, <2>1
  <2>3. QED
    BY <2>1, <2>2, Zenon
<1>7. ASSUME Yields(next) PROVE Held(next) \in Seq(Nat)
  <2>1. keys[next] \in DOMAIN tree.live
    BY <1>7, Zenon
  <2>2. CASE scan.kind = "Secondary"
    <3>1. Distinct(tree.live[keys[next]])
      BY <2>1, <2>2 DEF ScanReady, Lists
    <3>2. QED
      BY <2>2, <3>1 DEF Distinct
  <2>3. CASE scan.kind # "Secondary"
    <3>1. keys[next] \in Nat
      BY <2>1, <2>3 DEF ScanReady, SystemTree
    <3>2. QED
      BY <2>3, <3>1
  <2>4. QED
    BY <2>2, <2>3
<1>0. Yields(next) => Found(Held(next)) # {}
  BY Zenon
<1> HIDE DEF Held, Found, Stops, Yields, Live, C
<1>8. CASE Found(cursor.pending) # {}
  <2>1. Yielded(rows, Yield(cursor.slot, cursor.pending, Min(Found(cursor.pending))))
    BY <1>2, <1>4, <1>8
  <2>2. QED
    BY <1>1, <1>8, <2>1, Zenon
<1>9. CASE Found(cursor.pending) = {} /\ Stops(next)
  <2>1. got = [row |-> <<>>, cursor |-> [slot |-> next + 1, pending |-> <<>>]]
    BY <1>1, <1>9, Zenon
  <2> DEFINE slot == next + 1
             none == <<>>
  <2>2. slot \in Nat \ {0} /\ none \in Seq(Nat)
    BY <1>6
  <2>3. got = [row |-> none, cursor |-> [slot |-> slot, pending |-> none]]
    BY <2>1
  <2> HIDE DEF slot
  <2>4. got.row = none /\ got.cursor.slot = slot /\ got.cursor.pending = none
    BY <2>3
  <2>5. QED
    BY <2>2, <2>4 DEF Yielded, CursorOK
<1>10. CASE Found(cursor.pending) = {} /\ ~Stops(next)
  <2>1. Held(next) \in Seq(Nat) /\ Found(Held(next)) # {} /\ next + 1 \in Nat \ {0}
    <3>1. Yields(next)
      BY <1>6, <1>10
    <3>2. next + 1 \in Nat \ {0}
      BY <1>6
    <3>3. QED
      BY <1>0, <1>7, <3>1, <3>2
  <2>2. Yielded(rows, Yield(next + 1, Held(next), Min(Found(Held(next)))))
    BY <1>4, <2>1
  <2>3. QED
    BY <1>1, <1>10, <2>2, Zenon
<1>11. QED
  BY <1>8, <1>9, <1>10, Zenon

\* The scan that is chosen goes through the rows of the table.
ScansTable(scan, table) ==
    /\ scan.primary = cat.roots[table]
    /\ IF scan.kind = "Secondary" THEN \E meta \in IndexesOf(cat, table) : scan.root = meta.root
       ELSE scan.root = scan.primary

LEMMA ScanIs ==
    ASSUME NEW table, NEW schema, NEW where, NEW scan \in build_index_or_seq_pipeline(cat, table, schema, where)
    PROVE  ScansTable(scan, table)
<1> DEFINE primary == cat.roots[table]
           seq     == {Scan("Seq", primary, primary, "All", 0)}
           indexes == table_indexes(cat, table)
           usable(p)  == {i \in DOMAIN indexes : indexes[i].column = schema[p.col_idx].name}
           Root(p) == indexes[CHOOSE i \in usable(p) : TRUE].root
           Choice(p) ==
                IF p.col_idx = primary_key_idx(schema)
                THEN IF p.val.t \in {"Int", "BigInt"}
                     THEN {Scan("Primary", primary, primary, p.op, p.val.v)} ELSE {}
                ELSE IF usable(p) = {} THEN seq
                ELSE {Scan("Secondary", Root(p), primary, p.op, to_index_key(p.val))}
           preds == UNION {extract_predicate(w) : w \in where}
<1>1. scan \in IF preds = {} THEN seq ELSE UNION {Choice(p) : p \in preds}
  BY Zenon DEF build_index_or_seq_pipeline
<1>2. \A kind, root, op, key : Scan(kind, root, primary, op, key).primary = primary
                              /\ Scan(kind, root, primary, op, key).kind = kind
                              /\ Scan(kind, root, primary, op, key).root = root
  BY DEF Scan
<1>3. CASE scan \in seq
  BY <1>2, <1>3 DEF ScansTable
<1>4. ASSUME NEW p, scan \in Choice(p) PROVE ScansTable(scan, table)
  <2>1. CASE scan \in {Scan("Primary", primary, primary, p.op, p.val.v)}
    BY <1>2, <2>1 DEF ScansTable
  <2>2. CASE usable(p) # {} /\ scan = Scan("Secondary", Root(p), primary, p.op, to_index_key(p.val))
    <3>1. \E i \in DOMAIN indexes : Root(p) = indexes[i].root
      BY <2>2
    <3>2. \E meta \in IndexesOf(cat, table) : Root(p) = meta.root
      BY <3>1 DEF IndexesOf
    <3> HIDE DEF Root
    <3>3. QED
      BY <1>2, <2>2, <3>2 DEF ScansTable
  <2>3. QED
    BY <1>3, <1>4, <2>1, <2>2
<1> HIDE DEF Choice, seq
<1>5. QED
  BY <1>1, <1>3, <1>4

LEMMA PlanScans ==
    ASSUME NEW stmt, NEW schema, NEW plan \in plan_where(stmt, schema)
    PROVE  ScansTable(plan.scan, stmt.table)
<1> DEFINE W == OneOfEach([i \in DOMAIN stmt.where |-> bind_expr(stmt.where[i], schema, "Boolean", 0)])
           B(w) == build_index_or_seq_pipeline(cat, stmt.table, schema, ToSet(w))
<1>1. plan \in UNION {{[scan |-> s, where |-> w] : s \in B(w)} : w \in W}
  BY Zenon DEF plan_where
<1> HIDE DEF W, B
<1>2. PICK w, s : s \in B(w) /\ plan = [scan |-> s, where |-> w]
  BY <1>1
<1>3. plan.scan = s /\ ScansTable(s, stmt.table)
  BY <1>2, ScanIs DEF B
<1>4. QED
  BY <1>3

-----------------------------------------------------------------------------
(* Stores whose rows and indexes are sound *)

\* The rows of a table fit its schema, and their keys are their ids unless an
\* UPDATE assigned them.
RowsSound(rows, schema, keyed) ==
    /\ \A id \in DOMAIN rows : DOMAIN rows[id] = DOMAIN schema /\ encode(schema, rows[id])
    /\ keyed /\ primary_key_idx(schema) # 0 =>
          \A id \in DOMAIN rows : id <= INT_MAX => rows[id][primary_key_idx(schema)].v = id

\* A tree is an index of the rows, on the column that it names.
MetaSound(ix, rows, schema, meta, whole) ==
    \E i : get_col_idx(schema, meta.column) = {i} /\ IndexSound(ix, rows, i, meta.unique, whole)

\* L are the indexes that were created late, K the tables with assigned keys.
TableSound(s, c, t, L, K) ==
    /\ RowsSound(s[c.roots[t]].live, c.schemas[t], c.roots[t] \notin K)
    /\ \A meta \in IndexesOf(c, t) :
          MetaSound(s[meta.root], s[c.roots[t]].live, c.schemas[t], meta, meta.root \notin L)

Sound(s, c, L, K) == \A t \in DOMAIN c.roots : TableSound(s, c, t, L, K)

\* Indexes have pages of their own.
LEMMA IndexRoots ==
    ASSUME Describes(work, cat, next_root), next_root \in 4..(MaxRoot + 1),
           NEW t, NEW meta \in IndexesOf(cat, t)
    PROVE  /\ meta.root \in 1..MaxRoot
           /\ \A u \in DOMAIN cat.roots : cat.roots[u] # meta.root
           /\ \A u : \A other \in IndexesOf(cat, u) : other.root = meta.root => u = t /\ other = meta
<1>1. DOMAIN <<>> = {}
  OBVIOUS
<1>2. PICK i : t \in DOMAIN cat.indexes /\ i \in DOMAIN cat.indexes[t] /\ meta = cat.indexes[t][i]
  BY <1>1 DEF IndexesOf, table_indexes
<1>3. 4..(next_root - 1) \subseteq 1..MaxRoot
  BY BoundsAssumption
<1>4. RootsDistinct(cat, next_root)
  BY DEF Describes
<1>5. ASSUME NEW u, NEW other \in IndexesOf(cat, u), other.root = meta.root PROVE u = t /\ other = meta
  <2>1. PICK j : u \in DOMAIN cat.indexes /\ j \in DOMAIN cat.indexes[u] /\ other = cat.indexes[u][j]
    BY <1>1 DEF IndexesOf, table_indexes
  <2>2. u = t /\ j = i
    BY <1>2, <1>4, <1>5, <2>1 DEF RootsDistinct
  <2>3. QED
    BY <1>2, <2>1, <2>2
<1>6. meta.root \in 4..(next_root - 1) /\ \A u \in DOMAIN cat.roots : cat.roots[u] # meta.root
  BY <1>2, <1>4 DEF RootsDistinct
<1>7. QED
  BY <1>3, <1>5, <1>6

\* A scan of a sound store is ready.
LEMMA SoundScan ==
    ASSUME NEW s, RowTrees(s, cat), NEW L, NEW K, Sound(s, cat, L, K), NEW table \in DOMAIN cat.roots,
           NEW scan, ScansTable(scan, table)
    PROVE  ScanReady(s, scan)
<1>1. SystemTree(s[scan.primary])
  BY DEF RowTrees, ScansTable
<1>2. ASSUME NEW meta \in IndexesOf(cat, table) PROVE Lists(s[meta.root])
  BY DEF Sound, TableSound, MetaSound, IndexSound
<1>3. QED
  BY <1>1, <1>2 DEF ScanReady, ScansTable

\* The rows and the indexes of a table are sound after a write.
TableWritten(z, w, table, rows, L, K) ==
    /\ RowsSound(rows, cat.schemas[table], cat.roots[table] \notin K)
    /\ \A meta \in IndexesOf(cat, table) : meta.root \in DOMAIN w =>
           MetaSound(z[meta.root], rows, cat.schemas[table], meta, meta.root \notin L)

\* A write of a row leaves the other tables alone.
LEMMA RowWriteSound ==
    ASSUME Describes(work, cat, next_root), next_root \in 4..(MaxRoot + 1), NEW table \in DOMAIN cat.roots,
           NEW s, Unused(s, next_root), NEW tree, NEW w, w = [s EXCEPT ![cat.roots[table]] = tree],
           NEW z, OnlyIndexes(w, z, table), NEW L, NEW K, Sound(s, cat, L, K),
           TableWritten(z, w, table, tree.live, L, K)
    PROVE  Sound(z, cat, L, K)
<1>1. /\ z[cat.roots[table]] = tree
      /\ \A t \in DOMAIN cat.roots : t # table => z[cat.roots[t]] = s[cat.roots[t]]
  <2>1. WritesTree(s, z, table, tree)
    BY RowWriteKeeps, Zenon
  <2>2. QED
    BY <2>1 DEF WritesTree
<1>2. DOMAIN w = 1..MaxRoot /\ \A r \in 1..MaxRoot : r # cat.roots[table] => w[r] = s[r]
  BY DEF Unused
<1>3. TableSound(z, cat, table, L, K)
  BY <1>1, <1>2, IndexRoots DEF TableSound, TableWritten
<1>4. ASSUME NEW t \in DOMAIN cat.roots, t # table PROVE TableSound(z, cat, t, L, K)
  <2>1. TableSound(s, cat, t, L, K)
    BY DEF Sound
  <2>2. ASSUME NEW meta \in IndexesOf(cat, t) PROVE z[meta.root] = s[meta.root]
    <3>1. /\ meta.root \in 1..MaxRoot /\ cat.roots[table] # meta.root
          /\ \A other \in IndexesOf(cat, table) : other.root # meta.root
      BY <1>4, IndexRoots
    <3>2. z[meta.root] = w[meta.root]
      BY <1>2, <3>1 DEF OnlyIndexes
    <3>3. QED
      BY <1>2, <3>1, <3>2
  <2>3. QED
    BY <1>1, <1>4, <2>1, <2>2 DEF TableSound
<1>5. QED
  BY <1>3, <1>4 DEF Sound

\* A row of a table, as a scan yields it.
RowOf(s, table, row) ==
    /\ row.row_id \in DOMAIN s[cat.roots[table]].live
    /\ row.values = s[cat.roots[table]].live[row.row_id]

\* The deletion of a row leaves a store sound.
LEMMA DeletedSound ==
    ASSUME Describes(work, cat, next_root), next_root \in 4..(MaxRoot + 1), NEW table \in DOMAIN cat.roots,
           NEW s, Unused(s, next_root), RowTrees(s, cat), NEW L, NEW K, Sound(s, cat, L, K),
           NEW row, RowOf(s, table, row), NEW z \in Deleted(table, s, row)
    PROVE  Sound(z, cat, L, K)
<1> DEFINE root == cat.roots[table]
           schema == cat.schemas[table]
           id == row.row_id
           rows == s[root].live
           tree == tree_delete(s[root], id)
           less == tree.live
<1>1. PICK w : w = [s EXCEPT ![root] = tree]
  OBVIOUS
<1>2. OnlyIndexes(w, z, table) /\ Unlisted(w, z, table, row)
  BY <1>1, DeletedOnly
<1>3. RowRemoved(rows, id, less)
  <2> DEFINE live == [k \in DOMAIN rows \ {id} |-> rows[k]]
  <2>1. less = live
    BY DEF tree_delete
  <2>2. RowRemoved(rows, id, live)
    BY DEF RowRemoved
  <2>3. QED
    BY <2>1, <2>2
<1>4. id \in DOMAIN rows /\ row.values = rows[id]
  BY DEF RowOf
<1>5. TableSound(s, cat, table, L, K)
  BY DEF Sound
<1>6. DOMAIN w = 1..MaxRoot /\ \A r \in 1..MaxRoot : r # root => w[r] = s[r]
  BY <1>1 DEF Unused
<1> HIDE DEF tree, less
<1>7. RowsSound(less, schema, root \notin K)
  <2> DEFINE keyed == root \notin K
  <2>1. RowsSound(rows, schema, keyed)
    BY <1>5 DEF TableSound
  <2>2. DOMAIN less \subseteq DOMAIN rows /\ \A x \in DOMAIN less : less[x] = rows[x]
    BY <1>3 DEF RowRemoved
  <2> HIDE DEF keyed, rows, schema
  <2>3. RowsSound(less, schema, keyed)
    BY <2>1, <2>2 DEF RowsSound
  <2>4. QED
    BY <2>3 DEF keyed
<1>8. ASSUME NEW meta \in IndexesOf(cat, table), meta.root \in DOMAIN w
      PROVE  MetaSound(z[meta.root], less, schema, meta, meta.root \notin L)
  <2> DEFINE whole == meta.root \notin L
  <2>1. PICK i : /\ get_col_idx(schema, meta.column) = {i}
                 /\ IndexSound(s[meta.root], rows, i, meta.unique, whole)
    BY <1>5 DEF TableSound, MetaSound
  <2>2. PICK other \in IndexesOf(cat, table) : other.root = meta.root
            /\ \E j \in get_col_idx(schema, other.column) :
                  z[meta.root] = index_remove(w[meta.root], to_index_key(row.values[j]), id)
    BY <1>2, <1>8 DEF Unlisted
  <2>3. other = meta /\ w[meta.root] = s[meta.root]
    BY <1>6, <1>8, <2>2, IndexRoots
  <2>4. z[meta.root] = index_remove(s[meta.root], to_index_key(rows[id][i]), id)
    BY <1>4, <2>1, <2>2, <2>3
  <2> HIDE DEF whole, rows, schema, id
  <2>5. IndexSound(z[meta.root], less, i, meta.unique, whole)
    BY <1>3, <1>4, <2>1, <2>4, EntryRemoved
  <2>6. MetaSound(z[meta.root], less, schema, meta, whole)
    BY <2>1, <2>5, Zenon DEF MetaSound
  <2>7. QED
    BY <2>6 DEF whole
<1>9. TableWritten(z, w, table, less, L, K)
  BY <1>7, <1>8, Zenon DEF TableWritten
<1>10. QED
  BY <1>1, <1>2, <1>9, RowWriteSound DEF less

\* So does an update that keeps the key, or is known to assign it.
LEMMA UpdatedSound ==
    ASSUME Describes(work, cat, next_root), next_root \in 4..(MaxRoot + 1), NEW table \in DOMAIN cat.roots,
           NEW s, Unused(s, next_root), RowTrees(s, cat), NEW L, NEW K, Sound(s, cat, L, K),
           NEW row, RowOf(s, table, row), NEW schema, schema = cat.schemas[table],
           NEW values, DOMAIN values = DOMAIN schema,
           cat.roots[table] \in K \/ primary_key_idx(schema) = 0
               \/ values[primary_key_idx(schema)] = row.values[primary_key_idx(schema)],
           NEW z \in update_row(s, table, schema, row, values)
    PROVE  Sound(z, cat, L, K)
<1> DEFINE root == cat.roots[table]
           id == row.row_id
           rows == s[root].live
           tree == tree_update(s[root], id, values)
           other == tree.live
           pk == primary_key_idx(schema)
<1>1. PICK w : w = [s EXCEPT ![root] = tree]
  OBVIOUS
<1>2. OnlyIndexes(w, z, table) /\ Relisted(w, z, table, schema, row, values) /\ encode(schema, values)
  BY <1>1, UpdatedOnly
<1>3. id \in DOMAIN rows /\ row.values = rows[id]
  BY DEF RowOf
<1>4. SystemTree(s[root]) /\ id \in Nat
  BY <1>3 DEF RowTrees, SystemTree
<1>5. RowAdded(rows, id, values, other)
  <2> DEFINE live == [rows EXCEPT ![id] = values]
  <2>1. tree = [s[root] EXCEPT !.live = live]
    BY Zenon DEF tree_update
  <2>2. RowAdded(rows, id, values, live)
    BY <1>3 DEF RowAdded
  <2> HIDE DEF live, tree
  <2>3. tree.live = live
    BY <1>4, <2>1 DEF SystemTree
  <2>4. QED
    BY <2>2, <2>3
<1>6. TableSound(s, cat, table, L, K)
  BY DEF Sound
<1>7. DOMAIN w = 1..MaxRoot /\ \A r \in 1..MaxRoot : r # root => w[r] = s[r]
  BY <1>1 DEF Unused
<1> HIDE DEF tree, other
<1>8. RowsSound(other, schema, root \notin K)
  <2> DEFINE keyed == root \notin K
  <2>1. RowsSound(rows, schema, keyed)
    BY <1>6 DEF TableSound
  <2>2. keyed /\ pk # 0 => values[pk] = rows[id][pk]
    BY <1>3
  <2> HIDE DEF keyed, rows, pk, id
  <2>3. /\ DOMAIN other = DOMAIN rows /\ other[id] = values
        /\ \A x \in DOMAIN rows : x # id => other[x] = rows[x]
    BY <1>3, <1>5 DEF RowAdded
  <2>4. \A x \in DOMAIN other : DOMAIN other[x] = DOMAIN schema /\ encode(schema, other[x])
    BY <1>2, <2>1, <2>3 DEF RowsSound
  <2>5. ASSUME keyed, pk # 0, NEW x \in DOMAIN other, x <= INT_MAX PROVE other[x][pk].v = x
    <3>1. rows[x][pk].v = x
      BY <2>1, <2>3, <2>5 DEF RowsSound, pk
    <3>2. QED
      BY <2>2, <2>3, <2>5, <3>1
  <2>6. RowsSound(other, schema, keyed)
    BY <2>4, <2>5, Zenon DEF RowsSound, pk
  <2>7. QED
    BY <2>6 DEF keyed
<1>9. ASSUME NEW meta \in IndexesOf(cat, table), meta.root \in DOMAIN w
      PROVE  MetaSound(z[meta.root], other, schema, meta, meta.root \notin L)
  <2> DEFINE whole == meta.root \notin L
  <2>1. PICK i : /\ get_col_idx(schema, meta.column) = {i}
                 /\ IndexSound(s[meta.root], rows, i, meta.unique, whole)
    BY <1>6 DEF TableSound, MetaSound
  <2>2. PICK same \in IndexesOf(cat, table) : same.root = meta.root
            /\ \E j \in get_col_idx(schema, same.column) :
                  z[meta.root] \in Reindex(w[meta.root], same.unique, id, row.values[j], values[j])
    BY <1>2, <1>9 DEF Relisted
  <2>3. same = meta /\ w[meta.root] = s[meta.root]
    BY <1>7, <1>9, <2>2, IndexRoots
  <2>4. z[meta.root] \in Reindex(s[meta.root], meta.unique, id, rows[id][i], values[i])
    BY <1>3, <2>1, <2>2, <2>3
  <2> HIDE DEF whole, rows, id
  <2>5. IndexSound(z[meta.root], other, i, meta.unique, whole)
    BY <1>3, <1>4, <1>5, <2>1, <2>4, EntryMoved
  <2>6. MetaSound(z[meta.root], other, schema, meta, whole)
    BY <2>1, <2>5, Zenon DEF MetaSound
  <2>7. QED
    BY <2>6 DEF whole
<1>10. TableWritten(z, w, table, other, L, K)
  BY <1>8, <1>9, Zenon DEF TableWritten
<1>11. QED
  BY <1>1, <1>2, <1>10, RowWriteSound DEF other

\* So does an insertion of a row whose key is its id.
LEMMA InsertedSound ==
    ASSUME Describes(work, cat, next_root), next_root \in 4..(MaxRoot + 1), NEW table \in DOMAIN cat.roots,
           NEW s, Unused(s, next_root), RowTrees(s, cat), NEW L, NEW K, Sound(s, cat, L, K),
           NEW schema, schema = cat.schemas[table], NEW id \in Nat, NEW values, DOMAIN values = DOMAIN schema,
           primary_key_idx(schema) # 0 /\ id <= INT_MAX => values[primary_key_idx(schema)].v = id,
           NEW z \in insert_row(s, table, schema, id, values)
    PROVE  Sound(z, cat, L, K)
<1> DEFINE root == cat.roots[table]
           rows == s[root].live
           pk == primary_key_idx(schema)
<1>1. /\ encode(schema, values)
      /\ \E tree \in tree_insert(s[root], id, values) : \A w : w = [s EXCEPT ![root] = tree] =>
             OnlyIndexes(w, z, table) /\ Enlisted(w, z, table, schema, id, values)
  BY InsertedOnly
<1>2. PICK tree \in tree_insert(s[root], id, values) : \A w : w = [s EXCEPT ![root] = tree] =>
          OnlyIndexes(w, z, table) /\ Enlisted(w, z, table, schema, id, values)
  BY <1>1
<1>3. PICK w : w = [s EXCEPT ![root] = tree]
  OBVIOUS
<1>4. OnlyIndexes(w, z, table) /\ Enlisted(w, z, table, schema, id, values)
  BY <1>2, <1>3
<1> DEFINE more == tree.live
<1>5. id \notin DOMAIN rows /\ RowAdded(rows, id, values, more)
  <2> DEFINE live == With(rows, id, values)
  <2>1. id \notin DOMAIN rows /\ tree.live = live
    BY <1>2 DEF tree_insert
  <2>2. RowAdded(rows, id, values, live)
    BY DEF RowAdded, With
  <2> HIDE DEF live
  <2>3. QED
    BY <2>1, <2>2
<1>6. TableSound(s, cat, table, L, K)
  BY DEF Sound
<1>7. DOMAIN w = 1..MaxRoot /\ \A r \in 1..MaxRoot : r # root => w[r] = s[r]
  BY <1>3 DEF Unused
<1> HIDE DEF more
<1>8. RowsSound(more, schema, root \notin K)
  <2> DEFINE keyed == root \notin K
  <2>1. RowsSound(rows, schema, keyed)
    BY <1>6 DEF TableSound
  <2>2. /\ DOMAIN more = DOMAIN rows \cup {id} /\ more[id] = values
        /\ \A x \in DOMAIN rows : more[x] = rows[x]
    BY <1>5 DEF RowAdded
  <2> HIDE DEF keyed, rows
  <2>3. \A x \in DOMAIN more : DOMAIN more[x] = DOMAIN schema /\ encode(schema, more[x])
    BY <1>1, <2>1, <2>2 DEF RowsSound
  <2>4. ASSUME keyed, pk # 0, NEW x \in DOMAIN more, x <= INT_MAX PROVE more[x][pk].v = x
    <3>1. CASE x = id
      BY <2>2, <2>4, <3>1
    <3>2. CASE x # id
      <4>1. rows[x][pk].v = x
        BY <2>1, <2>2, <2>4, <3>2 DEF RowsSound
      <4>2. QED
        BY <2>2, <3>2, <4>1
    <3>3. QED
      BY <3>1, <3>2
  <2>5. RowsSound(more, schema, keyed)
    BY <2>3, <2>4, Zenon DEF RowsSound
  <2>6. QED
    BY <2>5 DEF keyed
<1>9. ASSUME NEW meta \in IndexesOf(cat, table), meta.root \in DOMAIN w
      PROVE  MetaSound(z[meta.root], more, schema, meta, meta.root \notin L)
  <2> DEFINE whole == meta.root \notin L
  <2>1. PICK i : /\ get_col_idx(schema, meta.column) = {i}
                 /\ IndexSound(s[meta.root], rows, i, meta.unique, whole)
    BY <1>6 DEF TableSound, MetaSound
  <2>2. PICK same \in IndexesOf(cat, table) : same.root = meta.root
            /\ \E j \in get_col_idx(schema, same.column) :
                  z[meta.root] \in index_add(w[meta.root], same.unique, to_index_key(values[j]), id)
    BY <1>4, <1>9 DEF Enlisted
  <2>3. same = meta /\ w[meta.root] = s[meta.root]
    BY <1>7, <1>9, <2>2, IndexRoots
  <2>4. z[meta.root] \in index_add(s[meta.root], meta.unique, to_index_key(values[i]), id)
    BY <2>1, <2>2, <2>3
  <2> HIDE DEF whole, rows
  <2>5. IndexSound(z[meta.root], more, i, meta.unique, whole)
    BY <1>5, <2>1, <2>4, EntryAdded
  <2>6. MetaSound(z[meta.root], more, schema, meta, whole)
    BY <2>1, <2>5, Zenon DEF MetaSound
  <2>7. QED
    BY <2>6 DEF whole
<1>10. TableWritten(z, w, table, more, L, K)
  BY <1>8, <1>9, Zenon DEF TableWritten
<1>11. QED
  BY <1>3, <1>4, <1>10, RowWriteSound DEF more

\* It goes on with one of the stores.
LEMMA WrittenSound ==
    ASSUME NEW out, DataOnly(out), NEW L, NEW K, Sound(out.store, cat, L, K),
           NEW stores, \A s \in stores : Sound(s, cat, L, K)
    PROVE  Sound(Written(out, stores).store, cat, L, K)
<1>1. CASE stores = {}
  BY <1>1 DEF Written, DataOnly
<1>2. CASE stores # {}
  <2> DEFINE s == CHOOSE s \in stores : TRUE
  <2>1. s \in stores
    BY <1>2
  <2> HIDE DEF s
  <2>2. Written(out, stores) = [out EXCEPT !.store = s, !.affected = @ + 1]
    BY <1>2, Zenon DEF Written, s
  <2>3. Written(out, stores).store = s
    BY <2>2 DEF DataOnly
  <2>4. QED
    BY <2>1, <2>3
<1>3. QED
  BY <1>1, <1>2

\* A row id within the range of INT fits a key of that type.
LEMMA AsIntIs == \A n \in Nat : n <= INT_MAX => AsInt(n) = n
<1> SUFFICES ASSUME NEW n \in Nat, n <= INT_MAX PROVE AsInt(n) = n
  OBVIOUS
<1> DEFINE m == INT_MAX + 1
<1>1. INT_MAX \in Nat
  BY ValuesAssumption
<1>2. n + m \in Nat /\ 2 * m \in Nat /\ 0 <= n + m /\ n + m < 2 * m /\ m \in Nat
  BY <1>1
<1>3. AsInt(n) = ((n + m) % (2 * m)) - m
  BY <1>1 DEF AsInt
<1> HIDE DEF m
<1> DEFINE a == n + m
           b == 2 * m
<1>4. a \in Nat /\ b \in Nat /\ 0 <= a /\ a < b
  BY <1>2
<1>5. a % b = a
  <2> HIDE DEF a, b
  <2>1. QED
    BY <1>4
<1>6. QED
  BY <1>2, <1>3, <1>5

\* One row of an INSERT leaves a store sound.
LEMMA InsertRowSound ==
    ASSUME Describes(work, cat, next_root), next_root \in 4..(MaxRoot + 1),
           NEW table \in DOMAIN cat.roots, NEW schema, schema = cat.schemas[table],
           NEW exprs, GoodRow(schema, exprs), NEW out, DataOnly(out), RowsDone(out),
           NEW L, NEW K, Sound(out.store, cat, L, K)
    PROVE  Sound(InsertRow(out, table, schema, exprs).store, cat, L, K)
<1> DEFINE pk == primary_key_idx(schema)
<1> DEFINE Key(row_id) == IF schema[pk].type = "Int" THEN Value("Int", AsInt(row_id)) ELSE Value("BigInt", row_id)
<1> DEFINE Keyed(given, row_id) ==
            IF pk = 0 \/ given[pk] # Null THEN given ELSE [given EXCEPT ![pk] = Key(row_id)]
<1> DEFINE Moved(row_id) == [out EXCEPT !.cat = update_high_watermark(@, table, row_id)]
<1> DEFINE Failed == [out EXCEPT !.res = "Exec"]
<1> DEFINE Mistyped(given) == pk # 0 /\ given[pk].t \notin {"Null", "Int", "BigInt"}
<1> DEFINE Put(given, row_id) ==
            IF Mistyped(given) THEN Failed
            ELSE Written(Moved(row_id), insert_row(out.store, table, schema, row_id, Keyed(given, row_id)))
<1> DEFINE Values == OneOfEach([i \in DOMAIN exprs |-> evaluate(exprs[i], <<>>)])
<1> DEFINE Id(given) == RowIdOf(schema, given, out.cat.next_row[table])
<1>1. InsertRow(out, table, schema, exprs) =
         IF out.res # "Ok" THEN out ELSE OneOr({Put(given, Id(given)) : given \in Values}, Failed)
  BY Zenon DEF InsertRow
<1>2. Sound(Failed.store, cat, L, K)
  BY DEF DataOnly
<1>3. /\ Unused(out.store, next_root) /\ RowTrees(out.store, cat) /\ out.cat.next_row[table] \in Nat
  BY DEF RowsDone, CountersDone, StoreDone
<1>4. ASSUME NEW given \in Values PROVE Sound(Put(given, Id(given)).store, cat, L, K)
  <2> DEFINE row_id == Id(given)
             values == Keyed(given, row_id)
             stores == insert_row(out.store, table, schema, row_id, values)
  <2>1. Put(given, row_id) = IF Mistyped(given) THEN Failed ELSE Written(Moved(row_id), stores)
    BY Zenon
  <2>2. CASE Mistyped(given)
    <3> HIDE DEF Failed, Put, Mistyped
    <3>1. QED
      BY <1>2, <2>1, <2>2
  <2>3. CASE ~Mistyped(given)
    <3>1. row_id \in Nat
      BY <1>3, <2>3, RowIdIs
    <3>2. DOMAIN given = DOMAIN schema
      BY DEF OneOfEach, GoodRow
    <3>3. pk # 0 => pk \in DOMAIN schema
      BY PrimaryKeyIs DEF GoodRow
    <3>4. pk # 0 /\ given[pk] # Null => row_id = given[pk].v
      BY DEF RowIdOf
    <3>5. row_id <= INT_MAX => Key(row_id).v = row_id
      BY <3>1, AsIntIs DEF Value
    <3> HIDE DEF row_id, pk, Key, Id, Put
    <3>6. DOMAIN values = DOMAIN schema
      BY <3>2
    <3>7. pk # 0 /\ row_id <= INT_MAX => values[pk].v = row_id
      BY <3>2, <3>3, <3>4, <3>5
    <3> HIDE DEF values, Keyed, Mistyped
    <3>8. \A s \in stores : Sound(s, cat, L, K)
      BY <1>3, <3>1, <3>6, <3>7, InsertedSound DEF pk
    <3> HIDE DEF stores
    <3> DEFINE mid == Moved(row_id)
               c == update_high_watermark(out.cat, table, row_id)
    <3>9. DataOnly(mid) /\ mid.store = out.store
      <4>1. SameMaps(cat, c)
        BY WatermarkMaps DEF DataOnly
      <4>2. Moved(row_id) = [out EXCEPT !.cat = c]
        BY Zenon
      <4> HIDE DEF c, Moved
      <4>3. QED
        BY <4>1, <4>2 DEF DataOnly
    <3> HIDE DEF mid
    <3>10. Sound(Written(mid, stores).store, cat, L, K)
      BY <3>8, <3>9, WrittenSound
    <3>11. Put(given, row_id) = Written(mid, stores)
      BY <2>1, <2>3 DEF mid
    <3>12. QED
      BY <3>10, <3>11 DEF row_id
  <2>4. QED
    BY <2>2, <2>3
<1> HIDE DEF Put, Id, Values, Failed
<1>5. QED
  BY <1>1, <1>2, <1>4, OneOrIs

\* An assignment keeps the columns that it does not name.
LEMMA AssignIs ==
    ASSUME NEW set, NEW values, NEW new \in Assign(set, values)
    PROVE  /\ DOMAIN new = DOMAIN values
           /\ \A c \in DOMAIN values : (\A i \in DOMAIN set : set[i].idx # c) => new[c] = values[c]
<1> DEFINE vals == OneOfEach([i \in DOMAIN set |-> evaluate(set[i].expr, values)])
           For(c) == {i \in DOMAIN set : set[i].idx = c}
           Row(vs) == [c \in DOMAIN values |-> IF For(c) = {} THEN values[c] ELSE vs[Max(For(c))]]
<1>1. new \in {Row(vs) : vs \in vals}
  BY Zenon DEF Assign
<1> HIDE DEF vals
<1>2. PICK vs : new = Row(vs)
  BY <1>1
<1>3. \A c \in DOMAIN values : (\A i \in DOMAIN set : set[i].idx # c) => For(c) = {}
  OBVIOUS
<1> HIDE DEF For
<1>4. QED
  BY <1>2, <1>3

\* The assignments go to the columns that the statement names.
LEMMA PlanSetIs ==
    ASSUME NEW stmt, NEW schema, NEW set \in plan_set(stmt, schema)
    PROVE  /\ DOMAIN set = DOMAIN stmt.set
           /\ \A i \in DOMAIN set : set[i].idx \in get_col_idx(schema, stmt.set[i].column)
<1> DEFINE E(a, c) == bind_expr(a.value, schema, schema[c].type, schema[c].length)
           Bind(a) == UNION {{[idx |-> c, expr |-> e] : e \in E(a, c)} : c \in get_col_idx(schema, a.column)}
           sets == [i \in DOMAIN stmt.set |-> Bind(stmt.set[i])]
<1>1. set \in OneOfEach(sets)
  BY Zenon DEF plan_set
<1> HIDE DEF E
<1>2. \A a : \A b \in Bind(a) : b.idx \in get_col_idx(schema, a.column)
  OBVIOUS
<1> HIDE DEF Bind
<1>3. DOMAIN sets = DOMAIN stmt.set /\ \A i \in DOMAIN stmt.set : sets[i] = Bind(stmt.set[i])
  OBVIOUS
<1> HIDE DEF sets
<1>4. DOMAIN set = DOMAIN stmt.set /\ \A i \in DOMAIN stmt.set : set[i] \in sets[i]
  BY <1>1, <1>3 DEF OneOfEach
<1>5. QED
  BY <1>2, <1>3, <1>4

-----------------------------------------------------------------------------
(* Sound stores under the statements that write rows *)

\* What a job goes through, and that its assignments keep the primary key or
\* that its table is one with assigned keys.
GoodSweep(job, K) ==
    job.kind # "insert" =>
        /\ ScansTable(job.plan.scan, job.table)
        /\ \/ job.kind = "delete" \/ cat.roots[job.table] \in K
           \/ \A i \in DOMAIN job.set : job.set[i].idx # primary_key_idx(cat.schemas[job.table])

\* What a job has done so far is sound.
JobSound(job, st, L, K) ==
    /\ JobRows(job, st)
    /\ IF job.kind = "insert" THEN Sound(st.store, cat, L, K)
       ELSE Sound(st.out.store, cat, L, K) /\ CursorOK(st.cursor)

\* A change of a row that a scan yields leaves a store sound.
LEMMA ChangeSound ==
    ASSUME Describes(work, cat, next_root), next_root \in 4..(MaxRoot + 1),
           NEW L, NEW K, NEW job, job.table \in DOMAIN cat.roots, job.kind # "insert", GoodSweep(job, K),
           \A i \in DOMAIN cat.schemas[job.table] : i \in Nat,
           NEW s, Unused(s, next_root), RowTrees(s, cat), Sound(s, cat, L, K),
           NEW row, RowOf(s, job.table, row), NEW z \in Change(job, s, row)
    PROVE  Sound(z, cat, L, K)
<1> DEFINE schema == cat.schemas[job.table]
           pk == primary_key_idx(schema)
<1>1. CASE job.kind = "delete"
  <2>1. z \in Deleted(job.table, s, row)
    BY <1>1 DEF Change
  <2>2. QED
    BY <2>1, DeletedSound
<1>2. CASE job.kind # "delete"
  <2>1. PICK values \in Assign(job.set, row.values) : z \in update_row(s, job.table, schema, row, values)
    <3> DEFINE D == Assign(job.set, row.values)
    <3>1. z \in UNION {update_row(s, job.table, schema, row, values) : values \in D}
      BY <1>2, Zenon DEF Change
    <3> HIDE DEF D
    <3>2. QED
      BY <3>1 DEF D
  <2>2. /\ DOMAIN values = DOMAIN row.values
        /\ \A c \in DOMAIN row.values : (\A i \in DOMAIN job.set : job.set[i].idx # c) => values[c] = row.values[c]
    BY AssignIs
  <2>3. DOMAIN row.values = DOMAIN schema
    <3> DEFINE rows == s[cat.roots[job.table]].live
               keyed == cat.roots[job.table] \notin K
    <3>1. RowsSound(rows, schema, keyed)
      BY DEF Sound, TableSound
    <3>2. row.row_id \in DOMAIN rows /\ row.values = rows[row.row_id]
      BY DEF RowOf
    <3> HIDE DEF rows, keyed, schema
    <3>3. QED
      BY <3>1, <3>2 DEF RowsSound
  <2>4. pk # 0 => pk \in DOMAIN schema
    BY PrimaryKeyIs
  <2>5. cat.roots[job.table] \in K \/ \A i \in DOMAIN job.set : job.set[i].idx # pk
    BY <1>2 DEF GoodSweep
  <2>6. cat.roots[job.table] \in K \/ pk = 0 \/ values[pk] = row.values[pk]
    BY <2>2, <2>3, <2>4, <2>5
  <2>7. QED
    BY <2>1, <2>2, <2>3, <2>6, UpdatedSound
<1>3. QED
  BY <1>1, <1>2

\* The next row leaves it sound.
LEMMA StepSound ==
    ASSUME Describes(work, cat, next_root), next_root \in 4..(MaxRoot + 1),
           \A t \in DOMAIN cat.roots : cat.next_row[t] \in Nat,
           NEW L, NEW K, NEW job, job.table \in DOMAIN cat.roots, GoodSweep(job, K),
           \A i \in DOMAIN cat.schemas[job.table] : i \in Nat,
           NEW n, job.kind = "insert" => GoodRow(cat.schemas[job.table], job.plan[n]),
           NEW st, JobSound(job, st, L, K)
    PROVE  JobSound(job, StepOf(job, n, st), L, K)
<1>1. JobRows(job, StepOf(job, n, st))
  BY StepRows DEF JobSound
<1>2. CASE job.kind = "insert"
  <2>1. DataOnly(st) /\ RowsDone(st) /\ Sound(st.store, cat, L, K)
    BY <1>2 DEF JobSound, JobRows, JobData
  <2>2. Sound(InsertRow(st, job.table, cat.schemas[job.table], job.plan[n]).store, cat, L, K)
    BY <1>2, <2>1, InsertRowSound
  <2>3. QED
    BY <1>1, <1>2, <2>2 DEF JobSound, StepOf
<1>3. CASE job.kind # "insert"
  <2> DEFINE out == st.out
             got == scan_next(out.store, job.plan.scan, st.cursor)
  <2>1. DataOnly(out) /\ RowsDone(out) /\ Sound(out.store, cat, L, K) /\ CursorOK(st.cursor)
    BY <1>3 DEF JobSound, JobRows, JobData
  <2>2. Unused(out.store, next_root) /\ RowTrees(out.store, cat)
    BY <2>1 DEF RowsDone, StoreDone
  <2>3. ScansTable(job.plan.scan, job.table)
    BY <1>3 DEF GoodSweep
  <2>4. ScanReady(out.store, job.plan.scan)
    BY <2>1, <2>2, <2>3, SoundScan
  <2>5. Yielded(out.store[job.plan.scan.primary].live, got)
    BY <2>1, <2>4, ScanNextIs
  <2> HIDE DEF got, out
  <2>6. CursorOK(got.cursor) /\ (got.row = <<>> \/ RowOf(out.store, job.table, got.row[1]))
    <3> DEFINE rows == out.store[cat.roots[job.table]].live
    <3>1. out.store[job.plan.scan.primary].live = rows
      BY <2>3 DEF ScansTable
    <3> HIDE DEF rows
    <3>2. CursorOK(got.cursor) /\ (got.row = <<>> \/ \E id \in DOMAIN rows : got.row = <<[row_id |-> id, values |-> rows[id]]>>)
      BY <2>5, <3>1 DEF Yielded
    <3>3. ASSUME NEW id \in DOMAIN rows, got.row = <<[row_id |-> id, values |-> rows[id]]>>
          PROVE  got.row[1].row_id \in DOMAIN rows /\ got.row[1].values = rows[got.row[1].row_id]
      <4> DEFINE one == [row_id |-> id, values |-> rows[id]]
      <4>1. one.row_id = id /\ one.values = rows[id]
        OBVIOUS
      <4> HIDE DEF one
      <4>2. got.row[1] = one
        BY <3>3 DEF one
      <4>3. QED
        BY <4>1, <4>2
    <3>4. CASE got.row # <<>>
      <4>1. \E id \in DOMAIN rows : got.row = <<[row_id |-> id, values |-> rows[id]]>>
        BY <3>2, <3>4
      <4>2. got.row[1].row_id \in DOMAIN rows /\ got.row[1].values = rows[got.row[1].row_id]
        BY <3>3, <4>1, Zenon
      <4>3. RowOf(out.store, job.table, got.row[1])
        BY <4>2 DEF RowOf, rows
      <4>4. QED
        BY <3>2, <4>3
    <3>5. QED
      BY <3>2, <3>4
  <2>7. ASSUME NEW row, RowOf(out.store, job.table, row), NEW verdict \in {"true", "false", "error"}
        PROVE  Sound(Applied(job, out, row, verdict).store, cat, L, K)
    <3>1. CASE verdict = "true"
      <4>1. Applied(job, out, row, verdict) = Written(out, Change(job, out.store, row))
        BY <3>1 DEF Applied
      <4>2. \A z \in Change(job, out.store, row) : Sound(z, cat, L, K)
        BY <1>3, <2>1, <2>2, <2>7, ChangeSound
      <4>3. QED
        BY <2>1, <4>1, <4>2, WrittenSound
    <3>2. CASE verdict = "false"
      BY <2>1, <3>2 DEF Applied
    <3>3. CASE verdict = "error"
      <4>1. Applied(job, out, row, verdict) = [out EXCEPT !.res = "Exec"]
        BY <3>3 DEF Applied
      <4>2. QED
        BY <2>1, <4>1 DEF DataOnly
    <3>4. QED
      BY <2>7, <3>1, <3>2, <3>3
  <2>8. Sound(Visited(job, out, got).out.store, cat, L, K) /\ CursorOK(Visited(job, out, got).cursor)
    <3>1. CASE got.row = <<>>
      BY <2>1, <2>6, <3>1 DEF Visited
    <3>2. CASE got.row # <<>>
      <4> DEFINE verdict == Verdict(job.plan.where, got.row[1].values)
      <4>1. verdict \in {"true", "false", "error"}
        BY VerdictIs
      <4>2. /\ Visited(job, out, got).out = Applied(job, out, got.row[1], verdict)
            /\ Visited(job, out, got).cursor = got.cursor
        BY <3>2 DEF Visited
      <4> HIDE DEF verdict
      <4>3. QED
        BY <2>6, <2>7, <3>2, <4>1, <4>2
    <3>3. QED
      BY <3>1, <3>2
  <2>9. SweepStep(job, st) = IF st.going /\ st.out.res = "Ok" THEN Visited(job, out, got) ELSE st
    BY Zenon DEF SweepStep, out, got
  <2>10. Sound(SweepStep(job, st).out.store, cat, L, K) /\ CursorOK(SweepStep(job, st).cursor)
    BY <2>1, <2>8, <2>9 DEF out
  <2>11. QED
    BY <1>1, <1>3, <2>10 DEF JobSound, StepOf
<1>4. QED
  BY <1>2, <1>3

\* So it is at the end of a run.
LEMMA RunSound ==
    ASSUME Describes(work, cat, next_root), next_root \in 4..(MaxRoot + 1),
           \A t \in DOMAIN cat.roots : cat.next_row[t] \in Nat,
           NEW L, NEW K, NEW job, job.table \in DOMAIN cat.roots, NEW b \in Nat, GoodJob(job, b), GoodSweep(job, K),
           \A i \in DOMAIN cat.schemas[job.table] : i \in Nat,
           NEW a, JobSound(job, a, L, K), NEW u, u = RunFrom(job, b, a, u)
    PROVE  JobSound(job, u[b], L, K)
<1> DEFINE S == {n \in 0..b : JobSound(job, u[n], L, K)}
<1>1. \A n \in 0..b : u[n] = IF n = 0 THEN a ELSE StepOf(job, n, u[n - 1])
  BY DEF RunFrom
<1>2. 0 \in S
  BY <1>1
<1>3. ASSUME NEW n \in 0..(b - 1), n \in S PROVE n + 1 \in S
  <2>1. n + 1 \in 0..b /\ n + 1 \in 1..b /\ n + 1 # 0 /\ (n + 1) - 1 = n
    OBVIOUS
  <2>2. u[n + 1] = StepOf(job, n + 1, u[n])
    BY <1>1, <2>1
  <2>3. JobSound(job, u[n], L, K)
    BY <1>3
  <2>4. job.kind = "insert" => GoodRow(cat.schemas[job.table], job.plan[n + 1])
    BY <2>1 DEF GoodJob
  <2>5. JobSound(job, StepOf(job, n + 1, u[n]), L, K)
    BY <2>3, <2>4, StepSound
  <2>6. QED
    BY <2>1, <2>2, <2>5
<1> HIDE DEF S
<1>4. b \in S
  <2>1. \A n \in 0..b : n \in S
    BY <1>2, <1>3, BoundedInduction
  <2>2. b \in 0..b
    OBVIOUS
  <2>3. QED
    BY <2>1, <2>2
<1>5. QED
  BY <1>4 DEF S

\* The columns of a declared table are numbered.
LEMMA ColumnsAre ==
    ASSUME Declared(cat), NEW t \in DOMAIN cat.roots
    PROVE  (\A i \in DOMAIN cat.schemas[t] : i \in Nat) /\ IsFiniteSet(DOMAIN cat.schemas[t])
<1>1. PICK def \in Tables : cat.schemas[t] = Renamed(def.columns, def.name)
  BY DEF Declared, DeclaredBy
<1>2. DOMAIN cat.schemas[t] = DOMAIN def.columns
  BY <1>1 DEF Renamed
<1>3. DOMAIN def.columns = 1..Len(def.columns) /\ Len(def.columns) \in Nat
  BY TablesAssumption
<1>4. IsFiniteSet(1..Len(def.columns))
  BY <1>3, FS_Interval
<1>5. QED
  BY <1>2, <1>3, <1>4

\* INSERT leaves a store sound.
LEMMA InsertSound ==
    ASSUME Ready, NEW L, NEW K, Sound(work, cat, L, K), NEW stmt \in Inserts, NEW out, out = insert(stmt)
    PROVE  Sound(out.store, cat, L, K)
<1>1. /\ Describes(work, cat, next_root) /\ next_root \in 4..(MaxRoot + 1) /\ Declared(cat)
      /\ RowsOf(work, cat) /\ Unused(work, next_root)
  BY DEF Ready
<1>2. IsCatalog(cat) /\ DOMAIN cat.schemas = DOMAIN cat.roots
  BY <1>1, SchemasOfTables
<1>3. CASE out = Refused
  BY <1>3 DEF Refused, Outcome
<1>4. ASSUME stmt.table \in DOMAIN cat.schemas, NEW plan \in plan_insert(stmt, cat.schemas[stmt.table]), NEW run,
             run = RunFrom(Job("insert", stmt.table, plan, <<>>), Len(plan), Outcome("Ok", work, cat), run),
             out = run[Len(plan)]
      PROVE  Sound(out.store, cat, L, K)
  <2> DEFINE job == Job("insert", stmt.table, plan, <<>>)
             b == Len(plan)
             a == Outcome("Ok", work, cat)
  <2>1. job.kind = "insert" /\ job.table = stmt.table /\ job.plan = plan
    BY DEF Job
  <2>2. b \in Nat /\ DataOnly(a) /\ RowsDone(a)
    BY <1>1, <1>2, PlanIs, NothingDone, StartRows
  <2>3. GoodJob(job, b)
    <3>1. PICK def \in Tables : DeclaredBy(def, cat, stmt.table)
      BY <1>1, <1>2, <1>4 DEF Declared
    <3>2. \A n \in 1..b : GoodRow(cat.schemas[stmt.table], plan[n])
      BY <1>4, <3>1, PlanGood DEF DeclaredBy
    <3> HIDE DEF job, b
    <3>3. QED
      BY <2>1, <3>2 DEF GoodJob
  <2>4. Sound(a.store, cat, L, K)
    BY DEF Outcome
  <2> HIDE DEF job, a, b
  <2>5. run = RunFrom(job, b, a, run)
    BY <1>4 DEF job, a, b
  <2>6. JobSound(job, a, L, K) /\ job.table \in DOMAIN cat.roots /\ GoodSweep(job, K)
    BY <1>2, <1>4, <2>1, <2>2, <2>4 DEF JobData, JobRows, JobSound, GoodSweep
  <2>7. \A t \in DOMAIN cat.roots : cat.next_row[t] \in Nat
    BY <1>1 DEF RowsOf, Ahead
  <2>8. \A i \in DOMAIN cat.schemas[job.table] : i \in Nat
    BY <1>1, <2>6, ColumnsAre
  <2>9. JobSound(job, run[b], L, K)
    BY <1>1, <2>2, <2>3, <2>5, <2>6, <2>7, <2>8, RunSound
  <2>10. QED
    BY <1>4, <2>1, <2>9 DEF JobSound, b
<1>5. QED
  BY <1>2, <1>3, <1>4, InsertRuns

\* So does a sweep: an UPDATE of a table of K, or of other columns.
LEMMA SweptSound ==
    ASSUME Ready, NEW L, NEW K, Sound(work, cat, L, K),
           NEW kind \in {"update", "delete"}, NEW stmt,
           kind = "update" =>
               \/ cat.roots[stmt.table] \in K
               \/ ~AssignsColumn(stmt, primary_key_idx(cat.schemas[stmt.table])),
           NEW out, out = Refused \/ (stmt.table \in DOMAIN cat.schemas /\ Swept(kind, stmt, out))
    PROVE  Sound(out.store, cat, L, K)
<1>1. /\ Describes(work, cat, next_root) /\ next_root \in 4..(MaxRoot + 1) /\ Declared(cat)
      /\ RowsOf(work, cat) /\ Unused(work, next_root)
  BY DEF Ready
<1>2. IsCatalog(cat) /\ DOMAIN cat.schemas = DOMAIN cat.roots
  BY <1>1, SchemasOfTables
<1>3. CASE out = Refused
  BY <1>3 DEF Refused, Outcome
<1>4. CASE stmt.table \in DOMAIN cat.schemas /\ Swept(kind, stmt, out)
  <2> DEFINE schema == cat.schemas[stmt.table]
  <2>1. PICK plan \in plan_where(stmt, schema) : \E set, st, run :
            /\ kind = "update" => set \in plan_set(stmt, schema)
            /\ st.out = Outcome("Ok", work, cat) /\ st.cursor = open_scan(work, plan.scan)
            /\ run = RunFrom(Job(kind, stmt.table, plan, set), MaxVisits, st, run)
            /\ out = run[MaxVisits].out
    BY <1>4 DEF Swept
  <2>2. PICK set, st, run :
            /\ kind = "update" => set \in plan_set(stmt, schema)
            /\ st.out = Outcome("Ok", work, cat) /\ st.cursor = open_scan(work, plan.scan)
            /\ run = RunFrom(Job(kind, stmt.table, plan, set), MaxVisits, st, run)
            /\ out = run[MaxVisits].out
    BY <2>1
  <2> DEFINE job == Job(kind, stmt.table, plan, set)
  <2>3. /\ job.kind = kind /\ job.table = stmt.table /\ job.plan = plan /\ job.set = set
        /\ job.kind # "insert" /\ job.table \in DOMAIN cat.roots
    BY <1>2, <1>4 DEF Job
  <2>4. MaxVisits \in Nat
    BY BoundsAssumption
  <2> HIDE DEF job
  <2>5. ScansTable(plan.scan, stmt.table)
    BY PlanScans
  <2>6. CursorOK(st.cursor)
    <3>1. ScanReady(work, plan.scan)
      BY <1>1, <2>3, <2>5, SoundScan DEF RowsOf
    <3>2. QED
      BY <2>2, <3>1, OpenScanIs
  <2>7. ASSUME kind = "update", ~AssignsColumn(stmt, primary_key_idx(schema))
        PROVE  \A i \in DOMAIN set : set[i].idx # primary_key_idx(schema)
    <3>1. DOMAIN set = DOMAIN stmt.set /\ \A i \in DOMAIN set : set[i].idx \in get_col_idx(schema, stmt.set[i].column)
      BY <2>2, <2>7, PlanSetIs
    <3>2. QED
      BY <2>7, <3>1 DEF AssignsColumn
  <2>8. GoodSweep(job, K)
    BY <2>3, <2>5, <2>7 DEF GoodSweep
  <2>9. JobRows(job, st) /\ GoodJob(job, MaxVisits)
    BY <1>1, <1>2, <2>2, <2>3, NothingDone, StartRows DEF JobData, JobRows, GoodJob
  <2>10. JobSound(job, st, L, K)
    <3>1. st.out.store = work
      BY <2>2 DEF Outcome
    <3>2. QED
      BY <2>3, <2>6, <2>9, <3>1 DEF JobSound
  <2>11. run = RunFrom(job, MaxVisits, st, run)
    BY <2>2 DEF job
  <2>12. \A t \in DOMAIN cat.roots : cat.next_row[t] \in Nat
    BY <1>1 DEF RowsOf, Ahead
  <2>13. \A i \in DOMAIN cat.schemas[job.table] : i \in Nat
    BY <1>1, <2>3, ColumnsAre
  <2>14. JobSound(job, run[MaxVisits], L, K)
    BY <1>1, <2>3, <2>4, <2>8, <2>9, <2>10, <2>11, <2>12, <2>13, RunSound
  <2>15. QED
    BY <2>2, <2>3, <2>14 DEF JobSound
<1>5. QED
  BY <1>3, <1>4

-----------------------------------------------------------------------------
(* Sound stores under the other statements *)

\* With fewer promises about keys and missing entries.
LEMMA RowsWeaker ==
    ASSUME NEW rows, NEW schema, NEW keyed, NEW fewer, fewer => keyed, RowsSound(rows, schema, keyed)
    PROVE  RowsSound(rows, schema, fewer)
BY Zenon DEF RowsSound

LEMMA MetaWeaker ==
    ASSUME NEW ix, NEW rows, NEW schema, NEW meta, NEW whole, NEW fewer, fewer => whole,
           MetaSound(ix, rows, schema, meta, whole)
    PROVE  MetaSound(ix, rows, schema, meta, fewer)
BY Zenon DEF MetaSound, IndexSound

\* The indexes of a table in one catalog are those of another with the same
\* trees, or sound.
IndexesKept(s, c, z, d, t, M) ==
    \A meta \in IndexesOf(d, t) :
        \/ meta \in IndexesOf(c, t) /\ z[meta.root] = s[meta.root]
        \/ MetaSound(z[meta.root], z[d.roots[t]].live, d.schemas[t], meta, meta.root \notin M)

\* A table is sound in a store and a catalog that agree on it.
LEMMA TableKept ==
    ASSUME NEW s, NEW c, NEW z, NEW d, NEW t, NEW L, NEW K, NEW M, NEW N, L \subseteq M, K \subseteq N,
           TableSound(s, c, t, L, K), d.roots[t] = c.roots[t], d.schemas[t] = c.schemas[t],
           z[c.roots[t]] = s[c.roots[t]], IndexesKept(s, c, z, d, t, M)
    PROVE  TableSound(z, d, t, M, N)
<1> DEFINE root == c.roots[t]
           rows == s[root].live
           schema == c.schemas[t]
<1>1. /\ RowsSound(rows, schema, root \notin K)
      /\ \A meta \in IndexesOf(c, t) : MetaSound(s[meta.root], rows, schema, meta, meta.root \notin L)
  BY DEF TableSound
<1>2. z[d.roots[t]].live = rows /\ d.schemas[t] = schema /\ d.roots[t] = root
  OBVIOUS
<1> HIDE DEF rows, schema, root
<1>3. RowsSound(rows, schema, root \notin N)
  <2> DEFINE keyed == root \notin K
             fewer == root \notin N
  <2>1. RowsSound(rows, schema, keyed) /\ (fewer => keyed)
    BY <1>1
  <2> HIDE DEF keyed, fewer
  <2>2. RowsSound(rows, schema, fewer)
    BY <2>1, RowsWeaker, Zenon
  <2>3. QED
    BY <2>2 DEF fewer
<1>4. ASSUME NEW meta \in IndexesOf(d, t) PROVE MetaSound(z[meta.root], rows, schema, meta, meta.root \notin M)
  <2>1. CASE meta \in IndexesOf(c, t) /\ z[meta.root] = s[meta.root]
    <3> DEFINE whole == meta.root \notin L
               fewer == meta.root \notin M
    <3>1. MetaSound(z[meta.root], rows, schema, meta, whole) /\ (fewer => whole)
      BY <1>1, <2>1
    <3> HIDE DEF whole, fewer
    <3>2. MetaSound(z[meta.root], rows, schema, meta, fewer)
      BY <3>1, MetaWeaker, Zenon
    <3>3. QED
      BY <3>2 DEF fewer
  <2>2. CASE MetaSound(z[meta.root], z[d.roots[t]].live, d.schemas[t], meta, meta.root \notin M)
    BY <1>2, <2>2
  <2>3. QED
    BY <2>1, <2>2 DEF IndexesKept
<1>5. QED
  BY <1>2, <1>3, <1>4 DEF TableSound

\* So is a store under a catalog with the same tables and indexes.
LEMMA SameSound ==
    ASSUME NEW s, NEW c, NEW d, NEW L, NEW K, NEW M, NEW N, L \subseteq M, K \subseteq N, Sound(s, c, L, K),
           d.roots = c.roots, d.schemas = c.schemas,
           \A t \in DOMAIN c.roots : IndexesOf(d, t) = IndexesOf(c, t)
    PROVE  Sound(s, d, M, N)
<1> SUFFICES ASSUME NEW t \in DOMAIN d.roots PROVE TableSound(s, d, t, M, N)
  BY DEF Sound
<1>1. TableSound(s, c, t, L, K)
  BY DEF Sound
<1>2. IndexesKept(s, c, s, d, t, M)
  BY DEF IndexesKept
<1>3. QED
  BY <1>1, <1>2, TableKept

\* The catalog that is read back has the same ones.
LEMMA ReadBackSound ==
    ASSUME NEW s, NEW c, NEW n, Describes(s, c, n), NEW L, NEW K
    PROVE  Sound(s, c, L, K) <=> Sound(s, bootstrap(s), L, K)
<1> DEFINE b == bootstrap(s)
<1>1. b.roots = c.roots /\ b.schemas = c.schemas /\ \A t \in DOMAIN c.roots : IndexesOf(b, t) = IndexesOf(c, t)
  BY BootstrapSame, Zenon DEF SameCatalog
<1> HIDE DEF b
<1>2. Sound(s, c, L, K) => Sound(s, b, L, K)
  BY <1>1, SameSound
<1>3. Sound(s, b, L, K) => Sound(s, c, L, K)
  BY <1>1, SameSound
<1>4. QED
  BY <1>2, <1>3 DEF b

\* So has one with other maps without indexes.
LEMMA SameMapsSound ==
    ASSUME NEW c, NEW d, SameMaps(c, d), NEW s, NEW L, NEW K, NEW M, NEW N, L \subseteq M, K \subseteq N,
           Sound(s, c, L, K)
    PROVE  Sound(s, d, M, N)
<1>1. ASSUME NEW t PROVE IndexesOf(d, t) = IndexesOf(c, t)
  <2>1. DOMAIN <<>> = {}
    OBVIOUS
  <2>2. CASE t \in DOMAIN c.indexes
    <3>1. table_indexes(d, t) = table_indexes(c, t)
      BY <2>2 DEF SameMaps, table_indexes
    <3>2. QED
      BY <3>1 DEF IndexesOf
  <2>3. CASE t \notin DOMAIN c.indexes
    <3>1. DOMAIN table_indexes(d, t) = {} /\ DOMAIN table_indexes(c, t) = {}
      BY <2>1, <2>3 DEF SameMaps, table_indexes
    <3>2. QED
      BY <3>1 DEF IndexesOf
  <2>4. QED
    BY <2>2, <2>3
<1>2. QED
  BY <1>1, SameSound DEF SameMaps

\* The trees of tables and indexes are not system tables.
LEMMA TreesKept ==
    ASSUME Ready, NEW z, \A r \in 1..MaxRoot : r \notin SysRoots => z[r] = work[r]
    PROVE  /\ \A t \in DOMAIN cat.roots : z[cat.roots[t]] = work[cat.roots[t]]
           /\ \A t : \A meta \in IndexesOf(cat, t) : z[meta.root] = work[meta.root]
<1>1. RootsDistinct(cat, next_root) /\ next_root \in 4..(MaxRoot + 1)
  BY DEF Ready, Describes
<1>2. \A r \in 4..(next_root - 1) : r \in 1..MaxRoot /\ r \notin SysRoots
  BY <1>1, BoundsAssumption DEF SysRoots, SYS_ROOTS, SYS_SCHEMAS, SYS_INDEXES
<1>3. \A t \in DOMAIN cat.roots : cat.roots[t] \in 4..(next_root - 1)
  BY <1>1 DEF RootsDistinct
<1>4. ASSUME NEW t, NEW meta \in IndexesOf(cat, t) PROVE meta.root \in 4..(next_root - 1)
  <2>1. DOMAIN <<>> = {}
    OBVIOUS
  <2>2. PICK i : t \in DOMAIN cat.indexes /\ i \in DOMAIN cat.indexes[t] /\ meta = cat.indexes[t][i]
    BY <2>1 DEF IndexesOf, table_indexes
  <2>3. QED
    BY <1>1, <2>2 DEF RootsDistinct
<1>5. QED
  BY <1>2, <1>3, <1>4

\* A new page is an empty tree.
LEMMA NextTree ==
    ASSUME Ready, next_root <= MaxRoot, NEW z, \A r \in 1..MaxRoot : r \notin SysRoots => z[r] = work[r]
    PROVE  z[next_root] = EmptyTree
<1>1. next_root \in 4..(MaxRoot + 1) /\ Unused(work, next_root)
  BY DEF Ready
<1>2. next_root \in 1..MaxRoot /\ next_root \notin SysRoots /\ next_root \in next_root..MaxRoot
  BY <1>1, BoundsAssumption DEF SysRoots, SYS_ROOTS, SYS_SCHEMAS, SYS_INDEXES
<1>3. QED
  BY <1>1, <1>2 DEF Unused

\* CREATE TABLE leaves a store sound.
LEMMA CreateTableSound ==
    ASSUME Ready, next_root <= MaxRoot, NEW L, NEW K, Sound(work, cat, L, K),
           NEW def \in Tables, NEW out, out = create_table(def), out.res = "Ok"
    PROVE  Sound(out.store, out.cat, L, K)
<1>1. IsStore(work) /\ IsCatalog(cat) /\ IndexesAgree(cat, work) /\ DOMAIN cat.schemas = DOMAIN cat.roots
  BY SchemasOfTables DEF Ready, Describes
<1> DEFINE schema == Renamed(def.columns, def.name)
<1>2. /\ def.name \notin DOMAIN cat.roots
      /\ \A r \in 1..MaxRoot : r \notin SysRoots => out.store[r] = work[r]
      /\ out.cat.roots = With(cat.roots, def.name, next_root)
      /\ out.cat.schemas = With(cat.schemas, def.name, schema)
      /\ out.cat.indexes = cat.indexes
  <2>1. IsStore(work) /\ IsCatalog(cat) /\ out.res = "Ok"
    BY <1>1
  <2>2. QED
    BY <2>1, CreateTableIs, ZenonT(60)
<1> HIDE DEF schema
<1>3. \A t : IndexesOf(out.cat, t) = IndexesOf(cat, t)
  BY <1>2 DEF IndexesOf, table_indexes
<1>4. ASSUME NEW t \in DOMAIN cat.roots PROVE TableSound(out.store, out.cat, t, L, K)
  <2>1. out.cat.roots[t] = cat.roots[t] /\ out.cat.schemas[t] = cat.schemas[t]
    BY <1>1, <1>2 DEF With
  <2>2. /\ out.store[cat.roots[t]] = work[cat.roots[t]]
        /\ \A meta \in IndexesOf(cat, t) : out.store[meta.root] = work[meta.root]
    BY <1>2, TreesKept
  <2>3. IndexesKept(work, cat, out.store, out.cat, t, L)
    BY <1>3, <2>2 DEF IndexesKept
  <2>4. TableSound(work, cat, t, L, K)
    BY DEF Sound
  <2>5. QED
    BY <2>1, <2>2, <2>3, <2>4, TableKept
<1>5. TableSound(out.store, out.cat, def.name, L, K)
  <2>1. out.cat.roots[def.name] = next_root
    BY <1>2 DEF With
  <2>2. out.store[next_root] = EmptyTree
    BY <1>2, NextTree
  <2>3. DOMAIN out.store[out.cat.roots[def.name]].live = {}
    BY <2>1, <2>2, EmptyTreeIs
  <2>4. IndexesOf(out.cat, def.name) = {}
    <3>1. DOMAIN <<>> = {}
      OBVIOUS
    <3>2. def.name \in DOMAIN cat.indexes => DOMAIN cat.indexes[def.name] = {}
      BY <1>1, <1>2, SMTT(30) DEF IndexesAgree, IndexKnown, IndexIds, IdsOf
    <3>3. DOMAIN table_indexes(cat, def.name) = {}
      BY <3>1, <3>2 DEF table_indexes
    <3>4. IndexesOf(cat, def.name) = {}
      BY <3>3 DEF IndexesOf
    <3>5. QED
      BY <1>3, <3>4
  <2>5. QED
    BY <2>3, <2>4 DEF TableSound, RowsSound
<1>6. DOMAIN out.cat.roots = DOMAIN cat.roots \cup {def.name}
  BY <1>2 DEF With
<1>7. QED
  BY <1>4, <1>5, <1>6 DEF Sound

\* So does DROP TABLE.
LEMMA DropTableSound ==
    ASSUME Ready, NEW L, NEW K, Sound(work, cat, L, K), NEW table, NEW out, out = drop_table(table), out.res = "Ok"
    PROVE  Sound(out.store, out.cat, L, K)
<1>1. IsStore(work) /\ IsCatalog(cat) /\ DOMAIN cat.schemas = DOMAIN cat.roots
  BY SchemasOfTables DEF Ready, Describes
<1>2. /\ \A r \in 1..MaxRoot : r \notin SysRoots => out.store[r] = work[r]
      /\ out.cat.roots = Without(cat.roots, table)
      /\ out.cat.schemas = Without(cat.schemas, table)
      /\ out.cat.indexes = Without(cat.indexes, table)
  BY <1>1, DropTableIs
<1> SUFFICES ASSUME NEW t \in DOMAIN out.cat.roots PROVE TableSound(out.store, out.cat, t, L, K)
  BY DEF Sound
<1>3. /\ t \in DOMAIN cat.roots /\ t # table
      /\ out.cat.roots[t] = cat.roots[t] /\ out.cat.schemas[t] = cat.schemas[t]
  BY <1>1, <1>2 DEF Without
<1>4. IndexesOf(out.cat, t) = IndexesOf(cat, t)
  <2>1. table_indexes(out.cat, t) = table_indexes(cat, t)
    BY <1>2, <1>3 DEF table_indexes, Without
  <2>2. QED
    BY <2>1 DEF IndexesOf
<1>5. /\ out.store[cat.roots[t]] = work[cat.roots[t]]
      /\ \A meta \in IndexesOf(cat, t) : out.store[meta.root] = work[meta.root]
  BY <1>2, <1>3, TreesKept
<1>6. IndexesKept(work, cat, out.store, out.cat, t, L)
  BY <1>4, <1>5 DEF IndexesKept
<1>7. TableSound(work, cat, t, L, K)
  BY <1>3 DEF Sound
<1>8. QED
  BY <1>3, <1>5, <1>6, <1>7, TableKept

\* A column that is found is the only one of its name.
LEMMA ColumnFound ==
    ASSUME NEW schema, IsFiniteSet(DOMAIN schema), NEW name, get_col_idx(schema, name) # {}
    PROVE  \E i : get_col_idx(schema, name) = {i}
<1> DEFINE found == {i \in DOMAIN schema : schema[i].name = name /\ "None" \in {"None", schema[i].table}}
<1>1. get_col_idx(schema, name) = IF Cardinality(found) = 1 THEN found ELSE {}
  BY Zenon DEF get_col_idx, get_col_idx_with_qualifier
<1>2. found \subseteq DOMAIN schema
  OBVIOUS
<1> HIDE DEF found
<1>3. IsFiniteSet(found)
  BY <1>2, FS_Subset
<1>4. Cardinality(found) = 1 /\ get_col_idx(schema, name) = found
  BY <1>1
<1>5. \E i : found = {i}
  BY <1>3, <1>4, FS_Singleton
<1>6. QED
  BY <1>4, <1>5

\* CREATE INDEX names a column.
LEMMA IndexedColumn ==
    ASSUME NEW def, NEW out, out = create_index(def), out.res = "Ok"
    PROVE  get_col_idx(cat.schemas[def.table], def.column) # {}
<1> DEFINE known == table_indexes(cat, def.table)
           touched == [cat EXCEPT !.indexes = With(@, def.table, known)]
           Absent == def.table \notin DOMAIN cat.schemas \/ get_col_idx(cat.schemas[def.table], def.column) = {}
           Taken == def.name \in DOMAIN known \/ \E i \in DOMAIN known : known[i].column = def.column
           s == [work EXCEPT ![SYS_INDEXES] = InsertAll(@, cat.next_sys, <<MetaOf(def)>>)]
           c == [cat EXCEPT !.indexes  = With(@, def.table, With(known, def.name, MetaOf(def))),
                            !.next_sys = @ + 1]
<1>1. out = IF Absent THEN Outcome("Exec", work, cat)
            ELSE IF Taken THEN Outcome("Exec", work, touched)
            ELSE [Outcome("Ok", s, c) EXCEPT !.root = next_root + 1]
  BY Zenon DEF create_index, MetaOf
<1> HIDE DEF s, c, touched, Taken
<1>2. Outcome("Exec", work, cat).res # "Ok"
  BY DEF Outcome
<1>3. QED
  BY <1>1, <1>2

\* CREATE INDEX leaves a store sound: its index is whole when the table has no
\* rows.
LEMMA CreateIndexSound ==
    ASSUME Ready, next_root <= MaxRoot, NEW L, NEW K, Sound(work, cat, L, K),
           NEW def, NEW out, out = create_index(def), out.res = "Ok",
           NEW M, L \subseteq M, work[cat.roots[def.table]].live = <<>> \/ next_root \in M
    PROVE  Sound(out.store, out.cat, M, K)
<1>1. IsStore(work) /\ IsCatalog(cat) /\ DOMAIN cat.schemas = DOMAIN cat.roots /\ Declared(cat)
  BY SchemasOfTables DEF Ready, Describes
<1>2. /\ def.table \in DOMAIN cat.schemas
      /\ \A r \in 1..MaxRoot : r \notin SysRoots => out.store[r] = work[r]
      /\ out.cat.roots = cat.roots /\ out.cat.schemas = cat.schemas
      /\ out.cat.indexes =
            With(cat.indexes, def.table, With(table_indexes(cat, def.table), def.name, MetaOf(def)))
  BY <1>1, CreateIndexIs
<1>3. ASSUME NEW t, NEW meta \in IndexesOf(out.cat, t)
      PROVE  meta \in IndexesOf(cat, t) \/ (t = def.table /\ meta = MetaOf(def))
  <2>1. PICK i \in DOMAIN table_indexes(out.cat, t) : meta = table_indexes(out.cat, t)[i]
    BY DEF IndexesOf
  <2>2. CASE t # def.table
    <3>1. table_indexes(out.cat, t) = table_indexes(cat, t)
      BY <1>2, <2>2 DEF table_indexes, With
    <3>2. QED
      BY <2>1, <3>1 DEF IndexesOf
  <2>3. CASE t = def.table
    <3>1. table_indexes(out.cat, t) = With(table_indexes(cat, t), def.name, MetaOf(def))
      BY <1>2, <2>3 DEF table_indexes, With
    <3> DEFINE known == table_indexes(cat, t)
    <3> HIDE DEF known
    <3>2. i = def.name \/ i \in DOMAIN known
      BY <2>1, <3>1 DEF With, known
    <3>3. meta = IF i = def.name THEN MetaOf(def) ELSE known[i]
      BY <2>1, <3>1, <3>2 DEF With, known
    <3>4. QED
      BY <2>3, <3>2, <3>3 DEF IndexesOf, known
  <2>4. QED
    BY <2>2, <2>3
<1> SUFFICES ASSUME NEW t \in DOMAIN out.cat.roots PROVE TableSound(out.store, out.cat, t, M, K)
  BY DEF Sound
<1>4. t \in DOMAIN cat.roots /\ out.cat.roots[t] = cat.roots[t] /\ out.cat.schemas[t] = cat.schemas[t]
  BY <1>2
<1>5. /\ out.store[cat.roots[t]] = work[cat.roots[t]]
      /\ \A meta \in IndexesOf(cat, t) : out.store[meta.root] = work[meta.root]
  BY <1>2, <1>4, TreesKept
<1>6. ASSUME t = def.table, NEW meta, meta = MetaOf(def)
      PROVE  MetaSound(out.store[meta.root], out.store[out.cat.roots[t]].live, out.cat.schemas[t], meta,
                       meta.root \notin M)
  <2> DEFINE rows == work[cat.roots[t]].live
             whole == next_root \notin M
  <2>1. meta.root = next_root /\ meta.column = def.column
    BY <1>6 DEF MetaOf
  <2>2. out.store[next_root] = EmptyTree
    BY <1>2, NextTree
  <2>3. PICK i : get_col_idx(cat.schemas[t], def.column) = {i}
    <3> DEFINE schema == cat.schemas[t]
    <3>1. get_col_idx(schema, def.column) # {}
      BY <1>6, IndexedColumn
    <3>2. IsFiniteSet(DOMAIN schema)
      BY <1>1, <1>4, ColumnsAre
    <3> HIDE DEF schema
    <3>3. \E i : get_col_idx(schema, def.column) = {i}
      BY <3>1, <3>2, ColumnFound
    <3>4. QED
      BY <3>3 DEF schema
  <2>4. whole => DOMAIN rows = {}
    BY <1>6
  <2>5. Lists(EmptyTree) /\ \A k, id : ~Listed(EmptyTree, k, id)
    BY EmptyTreeIs DEF Lists, Listed, SystemTree
  <2> HIDE DEF rows, whole
  <2>6. IndexSound(EmptyTree, rows, i, meta.unique, whole)
    BY <2>4, <2>5 DEF IndexSound
  <2>7. MetaSound(EmptyTree, rows, cat.schemas[t], meta, whole)
    BY <2>1, <2>3, <2>6, Zenon DEF MetaSound
  <2>8. QED
    BY <1>4, <1>5, <2>1, <2>2, <2>7 DEF rows, whole
<1>7. IndexesKept(work, cat, out.store, out.cat, t, M)
  BY <1>3, <1>5, <1>6 DEF IndexesKept
<1>8. TableSound(work, cat, t, L, K)
  BY <1>4 DEF Sound
<1>9. QED
  BY <1>4, <1>5, <1>7, <1>8, TableKept

-----------------------------------------------------------------------------
(* The invariant of the stores *)

\* Both stores are sound: the committed one under the catalog that is read
\* back from it, the connection's under its cache.
SoundInv ==
    /\ statements \in Nat
    /\ Sound(disk, bootstrap(disk), late, rekeyed)
    /\ ~undone => Sound(work, cat, late, rekeyed)

\* What is sound stays so when less is promised of it.
LEMMA SoundLater ==
    ASSUME NEW s, NEW c, NEW L, NEW K, NEW M, NEW N, L \subseteq M, K \subseteq N, Sound(s, c, L, K)
    PROVE  Sound(s, c, M, N)
BY SameSound

\* Whether a statement succeeds or fails, the stores stay sound.
LEMMA StatementSound ==
    ASSUME CatInv, CatInv', SoundInv, NEW out, NEW changes, execute_statement(out, changes),
           late \subseteq late', rekeyed \subseteq rekeyed',
           out.res = "Ok" => Sound(out.store, out.cat, late', rekeyed')
    PROVE  SoundInv'
<1>1. /\ ~undone /\ cat' = out.cat
      /\ statements \in Nat /\ Sound(disk, bootstrap(disk), late, rekeyed)
  BY DEF SoundInv, execute_statement
<1>2. Sound(disk, bootstrap(disk), late', rekeyed')
  BY <1>1, SoundLater
<1>3. ~undone' => Describes(work', cat', next_root')
  BY DEF CatInv
<1>4. CASE out.res = "Ok"
  <2>1. /\ work' = out.store /\ disk' = (IF txn THEN disk ELSE out.store)
        /\ undone' = undone /\ statements' = statements + 1
    BY <1>4 DEF execute_statement
  <2>2. Sound(work', cat', late', rekeyed')
    BY <1>1, <1>4, <2>1
  <2>3. Sound(disk', bootstrap(disk'), late', rekeyed')
    <3>1. CASE txn
      <4>1. disk' = disk
        BY <2>1, <3>1
      <4>2. QED
        BY <1>2, <4>1
    <3>2. CASE ~txn
      <4>1. disk' = work'
        BY <2>1, <3>2
      <4>2. Describes(work', cat', next_root')
        BY <1>1, <1>3, <2>1
      <4>3. Sound(work', bootstrap(work'), late', rekeyed')
        BY <2>2, <4>2, ReadBackSound
      <4>4. QED
        BY <4>1, <4>3
    <3>3. QED
      BY <3>1, <3>2
  <2>4. statements' \in Nat
    BY <1>1, <2>1
  <2>5. QED
    BY <2>2, <2>3, <2>4 DEF SoundInv
<1>5. CASE out.res # "Ok"
  <2>1. work' = disk /\ disk' = disk /\ statements' = statements
    BY <1>5 DEF execute_statement
  <2>2. Sound(disk', bootstrap(disk'), late', rekeyed')
    BY <1>2, <2>1
  <2>3. ASSUME ~undone' PROVE Sound(work', cat', late', rekeyed')
    <3>1. Describes(work', cat', next_root') /\ disk' = work'
      BY <1>3, <2>1, <2>3
    <3>2. Sound(work', bootstrap(work'), late', rekeyed')
      BY <2>2, <3>1
    <3>3. QED
      BY <3>1, <3>2, ReadBackSound
  <2>4. QED
    BY <1>1, <2>1, <2>2, <2>3 DEF SoundInv
<1>6. QED
  BY <1>4, <1>5

\* So they do after a statement that writes rows, or none.
LEMMA RowsStaySound ==
    ASSUME CatInv, CatInv', SoundInv, NEW out, DataOnly(out), execute_statement(out, FALSE),
           late \subseteq late', rekeyed \subseteq rekeyed',
           out.res = "Ok" => Sound(out.store, cat, late', rekeyed')
    PROVE  SoundInv'
<1>1. SameMaps(cat, out.cat)
  BY DEF DataOnly
<1>2. out.res = "Ok" => Sound(out.store, out.cat, late', rekeyed')
  BY <1>1, SameMapsSound
<1>3. QED
  BY <1>2, StatementSound, Zenon

\* An empty database is sound.
LEMMA SoundInit == Init => SoundInv
<1> SUFFICES ASSUME Init PROVE SoundInv
  OBVIOUS
<1>1. /\ disk = [r \in 1..MaxRoot |-> EmptyTree] /\ work = disk /\ cat = bootstrap(disk) /\ statements = 0
  BY DEF Init
<1> DEFINE b == bootstrap(disk)
           R == disk[SYS_ROOTS].live
<1>2. b.roots = [t \in TablesIn(R) |-> R[Max(IdsOf(R, t))].root]
  BY BootstrapParts, ZenonT(60)
<1>3. disk[SYS_ROOTS] = EmptyTree
  BY <1>1, BoundsAssumption DEF SYS_ROOTS
<1>4. TablesIn(R) = {}
  BY <1>3, EmptyTreeIs DEF TablesIn
<1> HIDE DEF b, R
<1>5. DOMAIN b.roots = {}
  BY <1>2, <1>4
<1>6. Sound(disk, b, late, rekeyed)
  BY <1>5 DEF Sound
<1>7. QED
  BY <1>1, <1>6 DEF SoundInv, b

\* Every step keeps the stores sound.
LEMMA SoundNext == CatInv /\ RowInv /\ SoundInv /\ [Next]_vars => SoundInv'
<1> SUFFICES ASSUME CatInv, RowInv, SoundInv, [Next]_vars PROVE SoundInv'
  OBVIOUS
<1>1. CatInv'
  BY CatNext
<1>2. /\ statements \in Nat /\ Sound(disk, bootstrap(disk), late, rekeyed)
      /\ ~undone => Sound(work, cat, late, rekeyed)
  BY DEF SoundInv
<1>3. ASSUME NEW out, NEW changes, execute_statement(out, changes)
      PROVE  Ready /\ Sound(work, cat, late, rekeyed)
  BY <1>2, <1>3 DEF CatInv, RowInv, Ready, execute_statement
<1>4. ASSUME NEW def \in Tables, CreateTable(def) PROVE SoundInv'
  <2> DEFINE out == create_table(def)
  <2>1. execute_statement(out, TRUE) /\ next_root <= MaxRoot /\ late' = late /\ rekeyed' = rekeyed
    BY <1>4, Zenon DEF CreateTable
  <2>2. Ready /\ Sound(work, cat, late, rekeyed)
    BY <1>3, <2>1, Zenon
  <2>3. out.res = "Ok" => Sound(out.store, out.cat, late', rekeyed')
    BY <2>1, <2>2, CreateTableSound
  <2> HIDE DEF out
  <2>4. late \subseteq late' /\ rekeyed \subseteq rekeyed'
    BY <2>1
  <2>5. QED
    BY <1>1, <2>1, <2>3, <2>4, StatementSound, Zenon
<1>5. ASSUME NEW table, DropTable(table) PROVE SoundInv'
  <2> DEFINE out == drop_table(table)
  <2>1. execute_statement(out, TRUE) /\ late' = late /\ rekeyed' = rekeyed
    BY <1>5, Zenon DEF DropTable
  <2>2. Ready /\ Sound(work, cat, late, rekeyed)
    BY <1>3, <2>1, Zenon
  <2>3. out.res = "Ok" => Sound(out.store, out.cat, late', rekeyed')
    BY <2>1, <2>2, DropTableSound
  <2> HIDE DEF out
  <2>4. late \subseteq late' /\ rekeyed \subseteq rekeyed'
    BY <2>1
  <2>5. QED
    BY <1>1, <2>1, <2>3, <2>4, StatementSound, Zenon
<1>6. ASSUME NEW def, CreateIndex(def) PROVE SoundInv'
  <2> DEFINE out == create_index(def)
  <2>1. /\ execute_statement(out, TRUE) /\ next_root <= MaxRoot /\ rekeyed' = rekeyed
        /\ late' = IF out.res = "Ok" /\ work[cat.roots[def.table]].live # <<>>
                   THEN late \cup {next_root} ELSE late
    BY <1>6 DEF CreateIndex
  <2>2. Ready /\ Sound(work, cat, late, rekeyed)
    BY <1>3, <2>1, Zenon
  <2>3. late \subseteq late' /\ rekeyed \subseteq rekeyed'
    BY <2>1
  <2>4. out.res = "Ok" => work[cat.roots[def.table]].live = <<>> \/ next_root \in late'
    BY <2>1
  <2>5. out.res = "Ok" => Sound(out.store, out.cat, late', rekeyed')
    BY <2>1, <2>2, <2>3, <2>4, CreateIndexSound
  <2> HIDE DEF out
  <2>6. QED
    BY <1>1, <2>1, <2>3, <2>5, StatementSound, Zenon
<1>7. ASSUME NEW stmt \in Inserts, Insert(stmt) PROVE SoundInv'
  <2> DEFINE out == insert(stmt)
  <2>1. execute_statement(out, FALSE) /\ late' = late /\ rekeyed' = rekeyed
    BY <1>7 DEF Insert
  <2>2. Ready /\ Sound(work, cat, late, rekeyed)
    BY <1>3, <2>1, Zenon
  <2>3. DataOnly(out)
    BY <2>2, InsertData, Zenon DEF Ready
  <2>4. Sound(out.store, cat, late', rekeyed')
    BY <2>1, <2>2, InsertSound
  <2> HIDE DEF out
  <2>5. late \subseteq late' /\ rekeyed \subseteq rekeyed'
    BY <2>1
  <2>6. QED
    BY <1>1, <2>1, <2>3, <2>4, <2>5, RowsStaySound, Zenon
<1>8. ASSUME NEW stmt, Update(stmt) PROVE SoundInv'
  <2> DEFINE out == update(stmt)
             assigns == AssignsColumn(stmt, primary_key_idx(cat.schemas[stmt.table]))
  <2>1. /\ execute_statement(out, FALSE) /\ late' = late
        /\ rekeyed' = IF statements' > statements /\ assigns
                      THEN rekeyed \cup {cat.roots[stmt.table]} ELSE rekeyed
    BY <1>8 DEF Update
  <2>2. Ready /\ Sound(work, cat, late, rekeyed)
    BY <1>3, <2>1, Zenon
  <2>3. DataOnly(out)
    BY <2>2, UpdateData, Zenon DEF Ready
  <2>4. out = Refused \/ (stmt.table \in DOMAIN cat.schemas /\ Swept("update", stmt, out))
    BY <2>2, UpdateRuns, Zenon DEF Ready
  <2> HIDE DEF out
  <2>5. late \subseteq late' /\ rekeyed \subseteq rekeyed'
    BY <2>1
  <2>6. ASSUME out.res = "Ok" PROVE Sound(out.store, cat, late', rekeyed')
    <3>1. statements' = statements + 1
      BY <2>1, <2>6 DEF execute_statement
    <3>2. cat.roots[stmt.table] \in rekeyed' \/ ~assigns
      BY <1>2, <2>1, <3>1
    <3>3. Sound(work, cat, late', rekeyed')
      BY <2>2, <2>5, SoundLater
    <3>4. QED
      BY <2>2, <2>4, <3>2, <3>3, SweptSound
  <2>7. QED
    BY <1>1, <2>1, <2>3, <2>5, <2>6, RowsStaySound, Zenon
<1>9. ASSUME NEW stmt, Delete(stmt) PROVE SoundInv'
  <2> DEFINE out == delete(stmt)
  <2>1. execute_statement(out, FALSE) /\ late' = late /\ rekeyed' = rekeyed
    BY <1>9, Zenon DEF Delete
  <2>2. Ready /\ Sound(work, cat, late, rekeyed)
    BY <1>3, <2>1, Zenon
  <2>3. DataOnly(out)
    BY <2>2, DeleteData, Zenon DEF Ready
  <2>4. out = Refused \/ (stmt.table \in DOMAIN cat.schemas /\ Swept("delete", stmt, out))
    BY <2>2, DeleteRuns, Zenon DEF Ready
  <2> HIDE DEF out
  <2>5. Sound(out.store, cat, late', rekeyed')
    BY <2>1, <2>2, <2>4, SweptSound
  <2>6. late \subseteq late' /\ rekeyed \subseteq rekeyed'
    BY <2>1
  <2>7. QED
    BY <1>1, <2>1, <2>3, <2>5, <2>6, RowsStaySound, Zenon
<1>10. ASSUME NEW stmt, Select(stmt) PROVE SoundInv'
  <2> DEFINE out == Outcome("Exec", work, cat)
  <2>1. execute_statement(out, FALSE) /\ late' = late /\ rekeyed' = rekeyed
    BY <1>10 DEF Select
  <2>2. out.res # "Ok"
    BY DEF Outcome
  <2> HIDE DEF out
  <2>3. late \subseteq late' /\ rekeyed \subseteq rekeyed'
    BY <2>1
  <2>4. QED
    BY <1>1, <2>1, <2>2, <2>3, StatementSound, Zenon
<1>11. CASE handle_begin
  <2>1. UNCHANGED <<disk, work, cat, statements, undone, late, rekeyed>>
    BY <1>11 DEF handle_begin
  <2>2. QED
    BY <1>2, <2>1 DEF SoundInv
<1>12. CASE handle_commit
  <2>1. txn /\ disk' = work /\ UNCHANGED <<work, cat, statements, undone, late, rekeyed>>
    BY <1>12 DEF handle_commit
  <2>2. ~undone /\ Describes(work, cat, next_root)
    BY <2>1 DEF CatInv
  <2>3. Sound(work, bootstrap(work), late, rekeyed)
    BY <1>2, <2>2, ReadBackSound
  <2>4. QED
    BY <1>2, <2>1, <2>3 DEF SoundInv
<1>13. CASE handle_rollback
  <2>1. work' = disk /\ UNCHANGED <<disk, cat, statements, late, rekeyed>>
    BY <1>13 DEF handle_rollback
  <2>2. ASSUME ~undone' PROVE Sound(disk, cat, late, rekeyed)
    <3>1. Describes(disk, cat, next_root')
      BY <1>1, <2>1, <2>2 DEF CatInv
    <3>2. QED
      BY <1>2, <3>1, ReadBackSound
  <2>3. QED
    BY <1>2, <2>1, <2>2 DEF SoundInv
<1>14. CASE Restart
  <2>1. work' = disk /\ cat' = bootstrap(disk) /\ UNCHANGED <<disk, statements, late, rekeyed>>
    BY <1>14 DEF Restart
  <2>2. QED
    BY <1>2, <2>1 DEF SoundInv
<1>15. CASE UNCHANGED vars
  BY <1>2, <1>15 DEF SoundInv, vars
<1>16. QED
  BY <1>4, <1>5, <1>6, <1>7, <1>8, <1>9, <1>10, <1>11, <1>12, <1>13, <1>14, <1>15 DEF Next

\* A list of row ids is as long as the set of them.
LEMMA DistinctCount ==
    ASSUME NEW ids, Distinct(ids)
    PROVE  Len(ids) = Cardinality(ToSet(ids))
<1> DEFINE k == Len(ids)
           T == ToSet(ids)
<1>1. k \in Nat /\ DOMAIN ids = 1..k /\ \A a, b \in 1..k : ids[a] = ids[b] => a = b
  BY DEF Distinct
<1>2. ids \in [1..k -> T] /\ \A x \in T : \E a \in 1..k : ids[a] = x
  BY <1>1 DEF ToSet, Distinct
<1> HIDE DEF k, T
<1>3. ids \in Injection(1..k, T) /\ ids \in Surjection(1..k, T)
  BY <1>1, <1>2 DEF Injection, IsInjective, Surjection
<1>4. ExistsBijection(1..k, T)
  BY <1>3 DEF ExistsBijection, Bijection
<1>5. Cardinality(T) = k
  BY <1>1, <1>4, FS_CountingElements
<1>6. QED
  BY <1>5 DEF k, T

\* What the invariant says of an index.
LEMMA IndexIs ==
    ASSUME SoundInv, ~undone, NEW t \in DOMAIN cat.roots, NEW meta \in IndexesOf(cat, t)
    PROVE  IndexSound(work[meta.root], Rows(work, t), ColumnOf(t, meta), meta.unique, meta.root \notin late)
<1>1. TableSound(work, cat, t, late, rekeyed)
  BY DEF SoundInv, Sound
<1>2. PICK i : /\ get_col_idx(cat.schemas[t], meta.column) = {i}
               /\ IndexSound(work[meta.root], work[cat.roots[t]].live, i, meta.unique, meta.root \notin late)
  BY <1>1 DEF TableSound, MetaSound
<1>3. ColumnOf(t, meta) = i
  BY <1>2 DEF ColumnOf
<1>4. QED
  BY <1>2, <1>3 DEF Rows

\* An index lists exactly the rows of its table under their keys, once each,
\* and an index that was created on a table with rows lists nothing that is not
\* there: the executors write the row and the entries of every index, and a
\* statement that fails between the two is rolled back as a whole.
THEOREM IndexesAreExact == Spec => []IndexesExact
<1>1. SoundInv => IndexesExact
  <2> SUFFICES ASSUME SoundInv, ~undone, NEW t \in DOMAIN cat.roots, NEW meta \in IndexesOf(cat, t)
               PROVE  LET lists == work[meta.root].live
                          rows  == Rows(work, t)
                          c     == ColumnOf(t, meta)
                          listed == UNION {{<<k, id>> : id \in ToSet(lists[k])} : k \in DOMAIN lists}
                          keyed  == {<<to_index_key(rows[id][c]), id>> : id \in DOMAIN rows}
                      IN  /\ listed \subseteq keyed
                          /\ meta.root \notin late => listed = keyed
                          /\ \A k \in DOMAIN lists :
                                Len(lists[k]) = Cardinality(ToSet(lists[k])) /\ lists[k] # <<>>
    BY Zenon DEF IndexesExact
  <2> DEFINE ix == work[meta.root]
             lists == ix.live
             rows  == Rows(work, t)
             c     == ColumnOf(t, meta)
             whole == meta.root \notin late
             listed == UNION {{<<k, id>> : id \in ToSet(lists[k])} : k \in DOMAIN lists}
             keyed  == {<<to_index_key(rows[id][c]), id>> : id \in DOMAIN rows}
  <2>1. IndexSound(ix, rows, c, meta.unique, whole)
    BY IndexIs
  <2> HIDE DEF rows, c, whole
  <2>2. \A p : p \in listed <=> \E k, id : p = <<k, id>> /\ Listed(ix, k, id)
    <3> DEFINE E(k) == {<<k, id>> : id \in ToSet(lists[k])}
    <3>1. \A p, k : p \in E(k) <=> \E id \in ToSet(lists[k]) : p = <<k, id>>
      BY Zenon
    <3>2. listed = UNION {E(k) : k \in DOMAIN lists}
      BY Zenon
    <3> HIDE DEF E, listed, lists
    <3>3. \A p : p \in listed <=> \E k \in DOMAIN lists : p \in E(k)
      BY <3>2
    <3>4. \A k, id : Listed(ix, k, id) <=> k \in DOMAIN lists /\ id \in ToSet(lists[k])
      BY Zenon DEF Listed, lists
    <3>5. QED
      BY <3>1, <3>3, <3>4, Zenon
  <2>3. \A p : p \in keyed <=> \E id \in DOMAIN rows : p = <<to_index_key(rows[id][c]), id>>
    BY Zenon
  <2>4. /\ \A k, id : Listed(ix, k, id) => id \in DOMAIN rows /\ k = to_index_key(rows[id][c])
        /\ whole => \A id \in DOMAIN rows : Listed(ix, to_index_key(rows[id][c]), id)
    BY <2>1 DEF IndexSound
  <2> HIDE DEF listed, keyed
  <2>5. \A p \in listed : p \in keyed
    BY <2>2, <2>3, <2>4, Zenon
  <2>6. ASSUME whole PROVE \A p \in keyed : p \in listed
    BY <2>2, <2>3, <2>4, <2>6, Zenon
  <2>7. ASSUME NEW k \in DOMAIN lists PROVE Len(lists[k]) = Cardinality(ToSet(lists[k])) /\ lists[k] # <<>>
    <3>1. Distinct(lists[k]) /\ lists[k] # <<>>
      BY <2>1 DEF IndexSound, Lists
    <3>2. QED
      BY <3>1, DistinctCount
  <2>8. listed \subseteq keyed /\ (whole => listed = keyed)
    BY <2>5, <2>6
  <2> HIDE DEF lists
  <2>9. QED
    BY <2>7, <2>8, Zenon DEF listed, keyed, rows, c, whole, lists, ix
<1>2. Spec => [](CatInv /\ RowInv /\ SoundInv)
  BY CatInit, CatNext, RowInit, RowNext, SoundInit, SoundNext, PTL DEF Spec
<1>3. QED
  BY <1>1, <1>2, PTL

\* No two rows of a table have the same value in a column with a unique index
\* that was there before them, whichever of INSERT and UPDATE wrote them.
THEOREM UniqueIsUnique == Spec => []UniqueHolds
<1>1. SoundInv => UniqueHolds
  <2> SUFFICES ASSUME SoundInv, ~undone, NEW t \in DOMAIN cat.roots, NEW meta \in IndexesOf(cat, t),
                      meta.unique, meta.root \notin late,
                      NEW i \in DOMAIN Rows(work, t), NEW j \in DOMAIN Rows(work, t),
                      Rows(work, t)[i][ColumnOf(t, meta)] = Rows(work, t)[j][ColumnOf(t, meta)]
               PROVE  i = j
    BY Zenon DEF UniqueHolds
  <2> DEFINE ix == work[meta.root]
             rows == Rows(work, t)
             c == ColumnOf(t, meta)
             k == to_index_key(rows[i][c])
  <2>1. IndexSound(ix, rows, c, meta.unique, meta.root \notin late)
    BY IndexIs
  <2> HIDE DEF rows, c
  <2>2. Listed(ix, k, i) /\ Listed(ix, k, j)
    BY <2>1 DEF IndexSound, rows, c
  <2>3. QED
    BY <2>1, <2>2 DEF IndexSound
<1>2. Spec => [](CatInv /\ RowInv /\ SoundInv)
  BY CatInit, CatNext, RowInit, RowNext, SoundInit, SoundNext, PTL DEF Spec
<1>3. QED
  BY <1>1, <1>2, PTL

\* The primary key of a row is its row id, as long as no UPDATE assigned the
\* key and the counter of an INT key has not passed the largest INT.
THEOREM KeysAreRowIds == Spec => []PkIsRowId
<1>1. SoundInv => PkIsRowId
  <2> SUFFICES ASSUME SoundInv, ~undone, NEW t \in DOMAIN cat.roots,
                      primary_key_idx(cat.schemas[t]) # 0, cat.roots[t] \notin rekeyed,
                      NEW id \in DOMAIN Rows(work, t), id <= INT_MAX
               PROVE  Rows(work, t)[id][primary_key_idx(cat.schemas[t])].v = id
    BY Zenon DEF PkIsRowId
  <2>1. TableSound(work, cat, t, late, rekeyed)
    BY DEF SoundInv, Sound
  <2>2. QED
    BY <2>1 DEF TableSound, RowsSound, Rows
<1>2. Spec => [](CatInv /\ RowInv /\ SoundInv)
  BY CatInit, CatNext, RowInit, RowNext, SoundInit, SoundNext, PTL DEF Spec
<1>3. QED
  BY <1>1, <1>2, PTL

\* Every stored row can be read under the schema of its table: it has a value
\* of the column's type, or NULL, for every column.
RowsReadable ==
    ~undone => \A t \in DOMAIN cat.roots : \A id \in DOMAIN Rows(work, t) :
        encode(cat.schemas[t], Rows(work, t)[id])

\* INSERT, UPDATE, DELETE, rollbacks and restarts leave every row readable.
THEOREM RowsStayReadable == Spec => []RowsReadable
<1>1. SoundInv => RowsReadable
  BY DEF SoundInv, RowsReadable, Sound, TableSound, RowsSound, Rows
<1>2. Spec => [](CatInv /\ RowInv /\ SoundInv)
  BY CatInit, CatNext, RowInit, RowNext, SoundInit, SoundNext, PTL DEF Spec
<1>3. QED
  BY <1>1, <1>2, PTL

=============================================================================
