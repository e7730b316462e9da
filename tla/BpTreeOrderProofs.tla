------------------------- MODULE BpTreeOrderProofs -------------------------
(***************************************************************************)
(* The B+-tree acts as a map, for every page size, every set of keys and   *)
(* payloads and every history of insertions, updates, deletions and        *)
(* reloads.                                                                *)
(*                                                                         *)
(* Every page owns a set of keys: the root all of them, and pages of one   *)
(* height share none.  Owned says that a leaf holds, in ascending order,   *)
(* records of keys it owns, and that find_child turns, for every key of an *)
(* internal node, to the child that owns it: find_leaf therefore ends at   *)
(* the one leaf that owns the key, and whether a key is bound is decided   *)
(* there.  While a split is on its way up the pages have a Seam: one page  *)
(* more than the parent of the level above knows of, and a middle key that *)
(* cuts what the split page owned in two.  The parent closes the seam, or  *)
(* splits and raises it one level; split_root closes the last one.         *)
(*                                                                         *)
(* The last section shows that while all records have one length no write  *)
(* fails for want of room: a split by count then also halves the bytes.    *)
(***************************************************************************)
EXTENDS BpTreeProofs

-----------------------------------------------------------------------------
(* Searches by counting: the positions of a sequence in order whose elements
   are small are a prefix of it. *)

Prefixed(T) == \A i \in T : \A j \in 1..i : j \in T

LEMMA PrefixIsInterval ==
    ASSUME NEW n \in Nat, NEW T \in SUBSET (1..n), Prefixed(T)
    PROVE  \E c \in 0..n : T = 1..c
<1> DEFINE S == {m \in Nat : \A U \in SUBSET (1..m) : Prefixed(U) => \E c \in 0..m : U = 1..c}
<1>1. 0 \in S
  <2>1. 1..0 = {} /\ 0 \in 0..0
    OBVIOUS
  <2>2. \A U \in SUBSET (1..0) : U = 1..0
    BY <2>1
  <2>3. QED
    BY <2>1, <2>2
<1>2. ASSUME NEW m \in Nat, m \in S PROVE m + 1 \in S
  <2>1. SUFFICES ASSUME NEW U \in SUBSET (1..(m + 1)), Prefixed(U)
                 PROVE  \E c \in 0..(m + 1) : U = 1..c
    OBVIOUS
  <2>2. CASE m + 1 \in U
    <3>1. U = 1..(m + 1)
      BY <2>1, <2>2 DEF Prefixed
    <3>2. QED
      BY <3>1
  <2>3. CASE m + 1 \notin U
    <3>1. U \in SUBSET (1..m)
      BY <2>3
    <3>2. QED
      BY <1>2, <2>1, <3>1
  <2>4. QED
    BY <2>2, <2>3
<1> HIDE DEF S
<1>3. n \in S
  BY <1>1, <1>2, Induction
<1>4. QED
  BY <1>3 DEF S

LEMMA PrefixCount ==
    ASSUME NEW n \in Nat, NEW T \in SUBSET (1..n), Prefixed(T)
    PROVE  /\ 1 + Cardinality(T) \in 1..(n + 1)
           /\ \A i \in 1..n : i \in T <=> i < 1 + Cardinality(T)
<1>1. PICK c \in 0..n : T = 1..c
  BY PrefixIsInterval
<1>2. Cardinality(1..c) = c
  BY FS_Interval
<1>3. QED
  BY <1>1, <1>2

LEMMA KeyTypes ==
    ASSUME NEW keys \in Seq(Keys)
    PROVE  DOMAIN keys = 1..Len(keys) /\ Len(keys) \in Nat /\ \A i \in 1..Len(keys) : keys[i] \in Int
<1>1. DOMAIN keys = 1..Len(keys) /\ Len(keys) \in Nat /\ \A i \in 1..Len(keys) : keys[i] \in Keys
  BY ElementOfSeq
<1>2. \A k \in Keys : k \in Int
  BY KeysAssumption
<1>3. QED
  BY <1>1, <1>2

LEMMA RowIdInt == \A rec \in Records : rec.row_id \in Int
<1>1. \A k \in Keys : k \in Int
  BY KeysAssumption
<1>2. \A rec \in Records : rec.row_id \in Keys
  BY DEF Records
<1>3. QED
  BY <1>1, <1>2

LEMMA RowIdTypes ==
    ASSUME NEW records \in Seq(Records)
    PROVE  /\ DOMAIN records = 1..Len(records) /\ Len(records) \in Nat
           /\ \A i \in 1..Len(records) : records[i] \in Records /\ records[i].row_id \in Int
<1>1. /\ DOMAIN records = 1..Len(records) /\ Len(records) \in Nat
      /\ \A i \in 1..Len(records) : records[i] \in Records
  BY ElementOfSeq
<1>2. QED
  BY <1>1, RowIdInt

\* The keys of an internal node in order.
SortedKeys(keys) == \A i, j \in 1..Len(keys) : i < j => keys[i] < keys[j]

\* partition_point separates the keys that are at most the key searched for.
LEMMA PartitionCuts ==
    ASSUME NEW keys \in Seq(Keys), SortedKeys(keys), NEW key \in Int
    PROVE  /\ Partition(keys, key) \in 1..(Len(keys) + 1)
           /\ \A i \in 1..Len(keys) : keys[i] <= key <=> i < Partition(keys, key)
<1> DEFINE T == {i \in DOMAIN keys : keys[i] <= key}
<1>1. DOMAIN keys = 1..Len(keys) /\ Len(keys) \in Nat /\ \A i \in 1..Len(keys) : keys[i] \in Int
  BY KeyTypes
<1>2. T \in SUBSET (1..Len(keys)) /\ Prefixed(T)
  <2>1. SUFFICES ASSUME NEW i \in T, NEW j \in 1..i PROVE j \in T
    BY <1>1 DEF Prefixed
  <2>2. i \in 1..Len(keys) /\ j \in 1..Len(keys) /\ keys[i] <= key
    BY <1>1, <2>1
  <2>3. keys[i] \in Int /\ keys[j] \in Int
    BY <1>1, <2>2
  <2>4. keys[j] <= keys[i]
    BY <2>1, <2>2, <2>3 DEF SortedKeys
  <2>5. QED
    BY <1>1, <2>2, <2>3, <2>4
<1>3. \A i \in 1..Len(keys) : i \in T <=> keys[i] <= key
  BY <1>1
<1>4. Partition(keys, key) = 1 + Cardinality(T)
  BY DEF Partition
<1> HIDE DEF T
<1>5. /\ 1 + Cardinality(T) \in 1..(Len(keys) + 1)
      /\ \A i \in 1..Len(keys) : i \in T <=> i < 1 + Cardinality(T)
  BY <1>1, <1>2, PrefixCount
<1>6. QED
  BY <1>3, <1>4, <1>5

\* The slot of a key separates the records with smaller keys.
LEMMA SlotCuts ==
    ASSUME NEW records \in Seq(Records), Ascending(records), NEW row_id \in Int
    PROVE  /\ SlotOf(records, row_id) \in 1..(Len(records) + 1)
           /\ \A i \in 1..Len(records) : records[i].row_id < row_id <=> i < SlotOf(records, row_id)
<1> DEFINE T == {i \in DOMAIN records : records[i].row_id < row_id}
<1>1. /\ DOMAIN records = 1..Len(records) /\ Len(records) \in Nat
      /\ \A i \in 1..Len(records) : records[i].row_id \in Int
  BY RowIdTypes
<1>2. T \in SUBSET (1..Len(records)) /\ Prefixed(T)
  BY <1>1, SMTT(30) DEF Prefixed, Ascending
<1>3. \A i \in 1..Len(records) : i \in T <=> records[i].row_id < row_id
  BY <1>1
<1>4. SlotOf(records, row_id) = 1 + Cardinality(T)
  BY DEF SlotOf
<1> HIDE DEF T
<1>5. QED
  BY <1>1, <1>2, <1>3, <1>4, PrefixCount

\* Binary search finds a key exactly when a record has it.
LEMMA SearchFinds ==
    ASSUME NEW records \in Seq(Records), Ascending(records), NEW row_id \in Int
    PROVE  /\ HasKey(records, row_id) <=> \E i \in 1..Len(records) : records[i].row_id = row_id
           /\ \A i \in 1..Len(records) : records[i].row_id = row_id => i = SlotOf(records, row_id)
<1> DEFINE s == SlotOf(records, row_id)
<1>1. /\ DOMAIN records = 1..Len(records) /\ Len(records) \in Nat
      /\ \A i \in 1..Len(records) : records[i].row_id \in Int
  BY RowIdTypes
<1>2. s \in 1..(Len(records) + 1) /\ \A i \in 1..Len(records) : records[i].row_id < row_id <=> i < s
  BY SlotCuts
<1>3. HasKey(records, row_id) <=> s \in 1..Len(records) /\ records[s].row_id = row_id
  BY <1>1 DEF HasKey
<1> HIDE DEF s
<1>4. ASSUME NEW i \in 1..Len(records), records[i].row_id = row_id PROVE i = s
  <2>1. ~(i < s)
    BY <1>1, <1>2, <1>4
  <2>2. ~(s < i)
    <3>1. SUFFICES ASSUME s < i PROVE FALSE
      OBVIOUS
    <3>2. s \in 1..Len(records)
      BY <1>1, <1>2, <3>1
    <3>3. records[s].row_id < row_id
      BY <1>1, <1>4, <3>1, <3>2 DEF Ascending
    <3>4. QED
      BY <1>2, <3>2, <3>3
  <2>3. QED
    BY <1>1, <1>2, <2>1, <2>2
<1>5. QED
  BY <1>3, <1>4 DEF s

-----------------------------------------------------------------------------
(* Records in order: what the operations on sequences do to the order and to
   the set of records. *)

LEMMA Members ==
    ASSUME NEW records \in Seq(Records), NEW rec
    PROVE  rec \in ToSet(records) <=> \E i \in 1..Len(records) : rec = records[i]
<1>1. DOMAIN records = 1..Len(records)
  BY RowIdTypes
<1>2. QED
  BY <1>1 DEF ToSet

\* The records s are those of the first n of r that are no tombstones.
LiveUpTo(s, r, n) ==
    /\ s \in Seq(Records) /\ Ascending(s)
    /\ \A j \in 1..Len(s) : \E i \in 1..n : s[j] = r[i] /\ ~r[i].is_deleted
    /\ \A i \in 1..n : ~r[i].is_deleted => \E j \in 1..Len(s) : s[j] = r[i]

LEMMA LiveUpToNext ==
    ASSUME NEW r \in Seq(Records), Ascending(r), NEW n \in 1..Len(r),
           NEW s, LiveUpTo(s, r, n - 1), ~r[n].is_deleted
    PROVE  LiveUpTo(Append(s, r[n]), r, n)
<1> DEFINE t == Append(s, r[n])
<1>1. /\ s \in Seq(Records) /\ Len(s) \in Nat /\ Ascending(s)
      /\ \A j \in 1..Len(s) : \E i \in 1..(n - 1) : s[j] = r[i] /\ ~r[i].is_deleted
      /\ \A i \in 1..(n - 1) : ~r[i].is_deleted => \E j \in 1..Len(s) : s[j] = r[i]
  BY DEF LiveUpTo
<1>2. /\ Len(r) \in Nat /\ DOMAIN r = 1..Len(r)
      /\ \A i \in 1..Len(r) : r[i] \in Records /\ r[i].row_id \in Int
  BY RowIdTypes
<1>3. /\ t \in Seq(Records) /\ Len(t) = Len(s) + 1 /\ t[Len(s) + 1] = r[n]
      /\ \A j \in 1..Len(s) : t[j] = s[j]
  BY <1>1, <1>2
<1>4. DOMAIN t = 1..(Len(s) + 1) /\ DOMAIN s = 1..Len(s)
  BY <1>1, <1>3
<1> HIDE DEF t
<1>5. \A j \in 1..Len(s) : s[j].row_id < r[n].row_id
  <2>1. SUFFICES ASSUME NEW j \in 1..Len(s) PROVE s[j].row_id < r[n].row_id
    OBVIOUS
  <2>2. PICK i \in 1..(n - 1) : s[j] = r[i]
    BY <1>1
  <2>3. i \in 1..Len(r) /\ i < n
    BY <1>2, <2>2
  <2>4. QED
    BY <1>2, <2>2, <2>3 DEF Ascending
<1>6. Ascending(t)
  <2>1. SUFFICES ASSUME NEW i \in 1..(Len(s) + 1), NEW j \in 1..(Len(s) + 1), i < j
                 PROVE  t[i].row_id < t[j].row_id
    BY <1>4 DEF Ascending
  <2>2. i \in 1..Len(s)
    BY <1>1, <2>1
  <2>3. CASE j \in 1..Len(s)
    BY <1>1, <1>3, <1>4, <2>1, <2>2, <2>3 DEF Ascending
  <2>4. CASE j = Len(s) + 1
    BY <1>3, <1>5, <2>2, <2>4
  <2>5. QED
    BY <1>1, <2>3, <2>4
<1>7. \A j \in 1..(Len(s) + 1) : \E i \in 1..n : t[j] = r[i] /\ ~r[i].is_deleted
  <2>1. SUFFICES ASSUME NEW j \in 1..(Len(s) + 1) PROVE \E i \in 1..n : t[j] = r[i] /\ ~r[i].is_deleted
    OBVIOUS
  <2>2. CASE j \in 1..Len(s)
    <3>1. PICK i \in 1..(n - 1) : s[j] = r[i] /\ ~r[i].is_deleted
      BY <1>1, <2>2
    <3>2. i \in 1..n /\ t[j] = r[i]
      BY <1>3, <2>2, <3>1
    <3>3. QED
      BY <3>1, <3>2
  <2>3. CASE j = Len(s) + 1
    BY <1>3, <2>3
  <2>4. QED
    BY <1>1, <2>2, <2>3
<1>8. ASSUME NEW i \in 1..n, ~r[i].is_deleted PROVE \E j \in 1..(Len(s) + 1) : t[j] = r[i]
  <2>1. CASE i = n
    <3>1. Len(s) + 1 \in 1..(Len(s) + 1)
      BY <1>1
    <3>2. QED
      BY <1>3, <2>1, <3>1
  <2>2. CASE i # n
    <3>1. i \in 1..(n - 1)
      BY <2>2
    <3>2. PICK j \in 1..Len(s) : s[j] = r[i]
      BY <1>1, <1>8, <3>1
    <3>3. j \in 1..(Len(s) + 1) /\ t[j] = r[i]
      BY <1>1, <1>3, <3>2
    <3>4. QED
      BY <3>3
  <2>3. QED
    BY <2>1, <2>2
<1>9. QED
  BY <1>3, <1>6, <1>7, <1>8 DEF LiveUpTo, t

LEMMA LiveUpToAll ==
    ASSUME NEW r \in Seq(Records), Ascending(r)
    PROVE  LiveUpTo(live(r), r, Len(r))
<1>1. PICK kept : IsKept(kept, r) /\ live(r) = kept[Len(r)]
  BY KeptExists
<1>2. Len(r) \in Nat /\ \A i \in 1..Len(r) : r[i] \in Records
  BY RowIdTypes
<1>3. /\ kept \in [0..Len(r) -> Seq(Records)] /\ kept[0] = <<>>
      /\ \A n \in 1..Len(r) : kept[n] = IF r[n].is_deleted THEN kept[n - 1] ELSE Append(kept[n - 1], r[n])
  BY <1>1 DEF IsKept
<1> DEFINE S == {n \in 0..Len(r) : LiveUpTo(kept[n], r, n)}
<1>4. 0 \in S
  <2>1. <<>> \in Seq(Records) /\ Len(<<>>) = 0 /\ DOMAIN <<>> = {}
    OBVIOUS
  <2>2. LiveUpTo(<<>>, r, 0)
    BY <2>1 DEF LiveUpTo, Ascending
  <2>3. QED
    BY <1>2, <1>3, <2>2
<1>5. ASSUME NEW m \in 0..(Len(r) - 1), m \in S PROVE m + 1 \in S
  <2> DEFINE n == m + 1
  <2>1. n \in 1..Len(r) /\ n \in 0..Len(r) /\ n - 1 = m /\ n \in Nat
    BY <1>2
  <2>2. LiveUpTo(kept[n - 1], r, n - 1)
    BY <1>5, <2>1
  <2> HIDE DEF n
  <2>3. CASE ~r[n].is_deleted
    <3>1. kept[n] = Append(kept[n - 1], r[n])
      BY <1>3, <2>1, <2>3
    <3>2. LiveUpTo(kept[n], r, n)
      BY <2>1, <2>2, <2>3, <3>1, LiveUpToNext
    <3>3. QED
      BY <2>1, <3>2 DEF n
  <2>4. CASE r[n].is_deleted
    <3>1. kept[n] = kept[n - 1]
      BY <1>3, <2>1, <2>4
    <3> DEFINE s == kept[n - 1]
    <3>2. /\ s \in Seq(Records) /\ Ascending(s)
          /\ \A j \in 1..Len(s) : \E i \in 1..(n - 1) : s[j] = r[i] /\ ~r[i].is_deleted
          /\ \A i \in 1..(n - 1) : ~r[i].is_deleted => \E j \in 1..Len(s) : s[j] = r[i]
      BY <2>2 DEF LiveUpTo
    <3>3. \A i \in 1..(n - 1) : i \in 1..n
      BY <2>1
    <3>4. \A i \in 1..n : ~r[i].is_deleted => i \in 1..(n - 1)
      BY <2>1, <2>4
    <3> HIDE DEF s
    <3>5. LiveUpTo(s, r, n)
      BY <3>2, <3>3, <3>4 DEF LiveUpTo
    <3>6. QED
      BY <2>1, <3>1, <3>5 DEF s, n
  <2>5. QED
    BY <2>3, <2>4
<1> HIDE DEF S
<1>6. \A n \in 0..Len(r) : n \in S
  BY <1>2, <1>4, <1>5, BoundedInduction
<1>7. Len(r) \in S
  BY <1>2, <1>6
<1>8. QED
  BY <1>1, <1>7 DEF S

\* Compaction keeps the records that are no tombstones, in order.
LEMMA LiveOrder ==
    ASSUME NEW r \in Seq(Records), Ascending(r)
    PROVE  /\ Ascending(live(r)) /\ live(r) \in Seq(Records)
           /\ ToSet(live(r)) = {rec \in ToSet(r) : ~rec.is_deleted}
<1> DEFINE s == live(r)
<1>1. LiveUpTo(s, r, Len(r))
  BY LiveUpToAll
<1> HIDE DEF s
<1>2. s \in Seq(Records) /\ Ascending(s)
  BY <1>1 DEF LiveUpTo
<1>3. ASSUME NEW rec \in ToSet(s) PROVE rec \in ToSet(r) /\ ~rec.is_deleted
  <2>1. PICK j \in 1..Len(s) : rec = s[j]
    BY <1>2, <1>3, Members
  <2>2. PICK i \in 1..Len(r) : s[j] = r[i] /\ ~r[i].is_deleted
    BY <1>1 DEF LiveUpTo
  <2>3. QED
    BY <2>1, <2>2, Members
<1>4. ASSUME NEW rec \in ToSet(r), ~rec.is_deleted PROVE rec \in ToSet(s)
  <2>1. PICK i \in 1..Len(r) : rec = r[i]
    BY <1>4, Members
  <2>2. PICK j \in 1..Len(s) : s[j] = r[i]
    BY <1>1, <1>4, <2>1 DEF LiveUpTo
  <2>3. QED
    BY <1>2, <2>1, <2>2, Members
<1>5. ToSet(s) = {rec \in ToSet(r) : ~rec.is_deleted}
  BY <1>3, <1>4
<1>6. QED
  BY <1>2, <1>5 DEF s

\* A record put in its place.
LEMMA InsertAtElements ==
    ASSUME NEW S, NEW s \in Seq(S), NEW e \in S, NEW i \in 1..(Len(s) + 1)
    PROVE  /\ InsertAt(s, i, e) \in Seq(S) /\ Len(InsertAt(s, i, e)) = Len(s) + 1
           /\ \A j \in 1..(Len(s) + 1) :
                InsertAt(s, i, e)[j] = IF j < i THEN s[j] ELSE IF j = i THEN e ELSE s[j - 1]
<1> DEFINE a == SubSeq(s, 1, i - 1)
           b == SubSeq(s, i, Len(s))
<1>1. Len(s) \in Nat /\ i \in Nat /\ i >= 1 /\ i <= Len(s) + 1
  OBVIOUS
<1>2. a \in Seq(S) /\ Len(a) = i - 1 /\ \A j \in 1..(i - 1) : a[j] = s[j]
  BY <1>1
<1>3. b \in Seq(S) /\ Len(b) = Len(s) - i + 1 /\ \A j \in 1..(Len(s) - i + 1) : b[j] = s[i + j - 1]
  BY <1>1
<1>4. InsertAt(s, i, e) = (a \o <<e>>) \o b
  BY DEF InsertAt
<1> HIDE DEF a, b
<1>5. <<e>> \in Seq(S) /\ Len(<<e>>) = 1 /\ <<e>>[1] = e
  OBVIOUS
<1>6. /\ a \o <<e>> \in Seq(S) /\ Len(a \o <<e>>) = i
      /\ \A j \in 1..i : (a \o <<e>>)[j] = IF j <= i - 1 THEN a[j] ELSE <<e>>[j - (i - 1)]
  BY <1>1, <1>2, <1>5, ConcatProperties
<1> DEFINE c == a \o <<e>>
<1> HIDE DEF c
<1>7. c \in Seq(S) /\ Len(c) = i /\ \A j \in 1..i : c[j] = IF j <= i - 1 THEN a[j] ELSE e
  BY <1>1, <1>5, <1>6 DEF c
<1>8. /\ c \o b \in Seq(S) /\ Len(c \o b) = Len(s) + 1
      /\ \A j \in 1..(Len(s) + 1) : (c \o b)[j] = IF j <= i THEN c[j] ELSE b[j - i]
  <2>1. /\ c \o b \in Seq(S) /\ Len(c \o b) = Len(c) + Len(b)
        /\ \A j \in 1..(Len(c) + Len(b)) : (c \o b)[j] = IF j <= Len(c) THEN c[j] ELSE b[j - Len(c)]
    BY <1>3, <1>7, ConcatProperties
  <2>2. Len(c) + Len(b) = Len(s) + 1
    BY <1>1, <1>3, <1>7
  <2>3. QED
    BY <1>7, <2>1, <2>2
<1>9. ASSUME NEW j \in 1..(Len(s) + 1)
      PROVE  (c \o b)[j] = IF j < i THEN s[j] ELSE IF j = i THEN e ELSE s[j - 1]
  <2>1. CASE j < i
    BY <1>1, <1>2, <1>7, <1>8, <2>1
  <2>2. CASE j = i
    BY <1>1, <1>7, <1>8, <2>2
  <2>3. CASE j > i
    <3>1. j - i \in 1..(Len(s) - i + 1) /\ i + (j - i) - 1 = j - 1 /\ ~(j <= i)
      BY <1>1, <2>3
    <3>2. (c \o b)[j] = b[j - i]
      BY <1>8, <3>1
    <3>3. b[j - i] = s[i + (j - i) - 1]
      BY <1>3, <3>1
    <3>4. QED
      BY <3>1, <3>2, <3>3
  <2>4. j < i \/ j = i \/ j > i
    BY <1>1
  <2>5. QED
    BY <2>1, <2>2, <2>3, <2>4
<1>10. QED
  BY <1>4, <1>8, <1>9 DEF c

LEMMA InsertAtOrder ==
    ASSUME NEW r \in Seq(Records), Ascending(r), NEW rec \in Records,
           NEW i \in 1..(Len(r) + 1),
           \A j \in 1..Len(r) : j < i => r[j].row_id < rec.row_id,
           \A j \in 1..Len(r) : j >= i => rec.row_id < r[j].row_id
    PROVE  /\ Ascending(InsertAt(r, i, rec)) /\ InsertAt(r, i, rec) \in Seq(Records)
           /\ ToSet(InsertAt(r, i, rec)) = ToSet(r) \cup {rec}
<1> DEFINE t == InsertAt(r, i, rec)
           n == Len(r) + 1
<1>1. /\ Len(r) \in Nat /\ DOMAIN r = 1..Len(r)
      /\ \A j \in 1..Len(r) : r[j] \in Records /\ r[j].row_id \in Int
  BY RowIdTypes
<1> HIDE DEF t
<1>2. /\ t \in Seq(Records) /\ Len(t) = n
      /\ \A j \in 1..n : t[j] = IF j < i THEN r[j] ELSE IF j = i THEN rec ELSE r[j - 1]
  <2>1. /\ InsertAt(r, i, rec) \in Seq(Records) /\ Len(InsertAt(r, i, rec)) = Len(r) + 1
        /\ \A j \in 1..(Len(r) + 1) :
             InsertAt(r, i, rec)[j] = IF j < i THEN r[j] ELSE IF j = i THEN rec ELSE r[j - 1]
    BY InsertAtElements
  <2>2. QED
    BY <2>1 DEF t
<1>3. DOMAIN t = 1..n
  BY <1>2
<1>4. rec.row_id \in Int
  BY RowIdInt
<1>5. Ascending(t)
  <2>1. SUFFICES ASSUME NEW j \in 1..n, NEW k \in 1..n, j < k
                 PROVE  t[j].row_id < t[k].row_id
    BY <1>3 DEF Ascending
  <2>2. CASE k < i
    <3>1. t[j] = r[j] /\ t[k] = r[k] /\ j \in 1..Len(r) /\ k \in 1..Len(r)
      BY <1>1, <1>2, <2>1, <2>2
    <3>2. QED
      BY <1>1, <2>1, <3>1 DEF Ascending
  <2>3. CASE k = i
    <3>1. t[j] = r[j] /\ t[k] = rec /\ j \in 1..Len(r) /\ j < i
      BY <1>1, <1>2, <2>1, <2>3
    <3>2. QED
      BY <3>1
  <2>4. CASE k > i /\ j < i
    <3>1. t[j] = r[j] /\ t[k] = r[k - 1] /\ j \in 1..Len(r) /\ k - 1 \in 1..Len(r) /\ k - 1 >= i
      BY <1>1, <1>2, <2>1, <2>4
    <3>2. j < k - 1
      BY <1>1, <2>1, <2>4
    <3>3. QED
      BY <1>1, <3>1, <3>2 DEF Ascending
  <2>5. CASE k > i /\ j = i
    <3>1. t[j] = rec /\ t[k] = r[k - 1] /\ k - 1 \in 1..Len(r) /\ k - 1 >= i
      BY <1>1, <1>2, <2>1, <2>5
    <3>2. QED
      BY <3>1
  <2>6. CASE k > i /\ j > i
    <3>1. t[j] = r[j - 1] /\ t[k] = r[k - 1] /\ j - 1 \in 1..Len(r) /\ k - 1 \in 1..Len(r)
      BY <1>1, <1>2, <2>1, <2>6
    <3>2. j - 1 < k - 1
      BY <1>1, <2>1
    <3>3. QED
      BY <1>1, <3>1, <3>2 DEF Ascending
  <2>7. QED
    BY <1>1, <2>2, <2>3, <2>4, <2>5, <2>6
<1>6. ASSUME NEW x \in ToSet(t) PROVE x \in ToSet(r) \cup {rec}
  <2>1. PICK j \in 1..n : x = t[j]
    BY <1>2, <1>6, Members
  <2>2. CASE j = i
    BY <1>2, <2>1, <2>2
  <2>3. CASE j < i
    <3>1. j \in 1..Len(r) /\ x = r[j]
      BY <1>1, <1>2, <2>1, <2>3
    <3>2. QED
      BY <3>1, Members
  <2>4. CASE j > i
    <3>1. j - 1 \in 1..Len(r) /\ x = r[j - 1]
      BY <1>1, <1>2, <2>1, <2>4
    <3>2. QED
      BY <3>1, Members
  <2>5. QED
    BY <1>1, <2>2, <2>3, <2>4
<1>7. ASSUME NEW x \in ToSet(r) PROVE x \in ToSet(t)
  <2>1. PICK j \in 1..Len(r) : x = r[j]
    BY <1>7, Members
  <2>2. CASE j < i
    <3>1. j \in 1..n /\ t[j] = x
      BY <1>1, <1>2, <2>1, <2>2
    <3>2. QED
      BY <1>2, <3>1, Members
  <2>3. CASE j >= i
    <3>1. j + 1 \in 1..n /\ j + 1 > i /\ (j + 1) - 1 = j
      BY <1>1, <2>3
    <3>2. t[j + 1] = x
      BY <1>1, <1>2, <2>1, <3>1
    <3>3. QED
      BY <1>2, <3>1, <3>2, Members
  <2>4. QED
    BY <1>1, <2>2, <2>3
<1>8. rec \in ToSet(t)
  <2>1. i \in 1..n /\ t[i] = rec
    BY <1>1, <1>2
  <2>2. QED
    BY <1>2, <2>1, Members
<1>9. ToSet(t) = ToSet(r) \cup {rec}
  BY <1>6, <1>7, <1>8
<1>10. QED
  BY <1>2, <1>5, <1>9 DEF t

\* A record replaced by one with the same key.
LEMMA ReplaceOrder ==
    ASSUME NEW r \in Seq(Records), Ascending(r), NEW i \in 1..Len(r), NEW rec \in Records,
           rec.row_id = r[i].row_id
    PROVE  /\ Ascending([r EXCEPT ![i] = rec]) /\ [r EXCEPT ![i] = rec] \in Seq(Records)
           /\ Len([r EXCEPT ![i] = rec]) = Len(r)
           /\ ToSet([r EXCEPT ![i] = rec])
                = {x \in ToSet(r) : x.row_id # rec.row_id} \cup {rec}
<1> DEFINE t == [r EXCEPT ![i] = rec]
<1>1. /\ Len(r) \in Nat /\ DOMAIN r = 1..Len(r)
      /\ \A j \in 1..Len(r) : r[j] \in Records /\ r[j].row_id \in Int
  BY RowIdTypes
<1>2. /\ t \in Seq(Records) /\ Len(t) = Len(r) /\ DOMAIN t = 1..Len(r)
      /\ \A j \in 1..Len(r) : t[j] = IF j = i THEN rec ELSE r[j]
  BY <1>1
<1> HIDE DEF t
<1>3. \A j \in 1..Len(r) : t[j].row_id = r[j].row_id
  BY <1>2
<1>4. Ascending(t)
  BY <1>1, <1>2, <1>3 DEF Ascending
<1>5. \A j \in 1..Len(r) : r[j].row_id = rec.row_id => j = i
  <2>1. SUFFICES ASSUME NEW j \in 1..Len(r), r[j].row_id = r[i].row_id PROVE j = i
    OBVIOUS
  <2>2. ~(j < i) /\ ~(i < j)
    BY <1>1, <2>1 DEF Ascending
  <2>3. QED
    BY <1>1, <2>2
<1>6. ASSUME NEW x PROVE x \in ToSet(t) <=> x = rec \/ (x \in ToSet(r) /\ x.row_id # rec.row_id)
  <2>1. x \in ToSet(t) <=> \E j \in 1..Len(r) : x = t[j]
    BY <1>2, Members
  <2>2. x \in ToSet(r) <=> \E j \in 1..Len(r) : x = r[j]
    BY Members
  <2>3. QED
    BY <1>2, <1>5, <2>1, <2>2
<1>7. ToSet(t) = {x \in ToSet(r) : x.row_id # rec.row_id} \cup {rec}
  BY <1>6
<1>8. QED
  BY <1>2, <1>4, <1>7 DEF t

-----------------------------------------------------------------------------
(* Leaves in order. *)

\* The keys of a leaf ascend and are among the keys R it is responsible for,
\* and no payload is too large.
LeafOrd(node, R) ==
    /\ Ascending(node.records)
    /\ \A rec \in ToSet(node.records) : rec.row_id \in R /\ rec.len <= MAX_VALUE_SIZE

\* The map a sequence of records holds, and whether a key is bound in a map.
Pairs(records) == {<<rec.row_id, rec.len>> : rec \in {x \in ToSet(records) : ~x.is_deleted}}

Bound(map, key) == \E pair \in map : pair[1] = key

LEMMA PairsMember ==
    ASSUME NEW records, NEW x
    PROVE  x \in Pairs(records) <=>
             \E rec \in ToSet(records) : ~rec.is_deleted /\ x = <<rec.row_id, rec.len>>
BY DEF Pairs

LEMMA BoundPairs ==
    ASSUME NEW records, NEW key
    PROVE  Bound(Pairs(records), key) <=> \E rec \in ToSet(records) : ~rec.is_deleted /\ rec.row_id = key
<1>1. ASSUME Bound(Pairs(records), key)
      PROVE  \E rec \in ToSet(records) : ~rec.is_deleted /\ rec.row_id = key
  <2>1. PICK x \in Pairs(records) : x[1] = key
    BY <1>1 DEF Bound
  <2>2. PICK rec \in ToSet(records) : ~rec.is_deleted /\ x = <<rec.row_id, rec.len>>
    BY <2>1, PairsMember
  <2>3. QED
    BY <2>1, <2>2
<1>2. ASSUME NEW rec \in ToSet(records), ~rec.is_deleted, rec.row_id = key
      PROVE  Bound(Pairs(records), key)
  <2>1. <<rec.row_id, rec.len>> \in Pairs(records)
    BY <1>2, PairsMember
  <2>2. <<rec.row_id, rec.len>>[1] = key
    BY <1>2
  <2>3. QED
    BY <2>1, <2>2 DEF Bound
<1>3. QED
  BY <1>1, <1>2

LEMMA BoundRecord ==
    ASSUME NEW records \in Seq(Records), NEW key
    PROVE  Bound(Pairs(records), key) <=>
             \E i \in 1..Len(records) : records[i].row_id = key /\ ~records[i].is_deleted
<1>1. Bound(Pairs(records), key) <=> \E rec \in ToSet(records) : ~rec.is_deleted /\ rec.row_id = key
  BY BoundPairs
<1>2. \A rec : rec \in ToSet(records) <=> \E i \in 1..Len(records) : rec = records[i]
  BY Members
<1>3. QED
  BY <1>1, <1>2

\* Tombstones bind nothing.
LEMMA CompactOrd ==
    ASSUME NEW leaf, leaf.records \in Seq(Records), NEW R, LeafOrd(leaf, R)
    PROVE  /\ LeafOrd(compact(leaf), R)
           /\ Pairs(compact(leaf).records) = Pairs(leaf.records)
           /\ ToSet(compact(leaf).records) = {rec \in ToSet(leaf.records) : ~rec.is_deleted}
           /\ compact(leaf).records = live(leaf.records)
<1>1. compact(leaf).records = live(leaf.records)
  BY DEF compact, Leaf
<1>2. /\ Ascending(live(leaf.records))
      /\ ToSet(live(leaf.records)) = {rec \in ToSet(leaf.records) : ~rec.is_deleted}
  BY LiveOrder DEF LeafOrd
<1>3. Pairs(live(leaf.records)) = Pairs(leaf.records)
  <2>1. {x \in ToSet(live(leaf.records)) : ~x.is_deleted} = {x \in ToSet(leaf.records) : ~x.is_deleted}
    BY <1>2
  <2>2. QED
    BY <2>1 DEF Pairs
<1>4. QED
  BY <1>1, <1>2, <1>3 DEF LeafOrd

\* insert_record binds a key that was not bound, and refuses one that was.
LEMMA InsertRecordOrd ==
    ASSUME NEW leaf, LeafOK(leaf), NEW R, LeafOrd(leaf, R),
           NEW row_id \in Keys, row_id \in R, NEW len \in Payloads
    PROVE  /\ insert_record(leaf, row_id, len).res = "Ok" =>
                /\ LeafOrd(insert_record(leaf, row_id, len).leaf, R)
                /\ Pairs(insert_record(leaf, row_id, len).leaf.records)
                     = Pairs(leaf.records) \cup {<<row_id, len>>}
                /\ ~Bound(Pairs(leaf.records), row_id)
           /\ len <= MAX_VALUE_SIZE =>
                (insert_record(leaf, row_id, len).res = "DuplicateKey" <=> Bound(Pairs(leaf.records), row_id))
<1> DEFINE put == insert_record(leaf, row_id, len)
           r == leaf.records
           i == SlotOf(r, row_id)
           found == HasKey(r, row_id)
           new == [row_id |-> row_id, len |-> len, is_deleted |-> FALSE]
           needed == LeafBytes(r) + SLOT_ELEM_SIZE + RecordSize(new)
           over == [leaf EXCEPT !.records[i] = new]
           inserted == [leaf EXCEPT !.records = InsertAt(@, i, new), !.free_size = PAGE_SIZE - needed]
<1>1. r \in Seq(Records) /\ Ascending(r) /\ \A rec \in ToSet(r) : rec.row_id \in R /\ rec.len <= MAX_VALUE_SIZE
  BY LeafParts DEF LeafOrd
<1>2. new \in Records /\ new.row_id = row_id /\ new.len = len /\ ~new.is_deleted
  BY NewRecord
<1>3. /\ row_id \in Int /\ len \in Nat /\ MAX_VALUE_SIZE \in Nat
  BY KeysAssumption, PayloadsAssumption, SizesAssumption
<1>4. /\ Len(r) \in Nat /\ DOMAIN r = 1..Len(r)
      /\ \A j \in 1..Len(r) : r[j] \in Records /\ r[j].row_id \in Int
  BY <1>1, RowIdTypes
<1>5. /\ i \in 1..(Len(r) + 1)
      /\ \A j \in 1..Len(r) : r[j].row_id < row_id <=> j < i
  BY <1>1, <1>3, SlotCuts
<1>6. /\ found \in BOOLEAN /\ (found => i \in 1..Len(r) /\ r[i].row_id = row_id)
      /\ found <=> \E j \in 1..Len(r) : r[j].row_id = row_id
      /\ \A j \in 1..Len(r) : r[j].row_id = row_id => j = i
  <2>1. found \in BOOLEAN /\ (found => i \in 1..Len(r) /\ r[i].row_id = row_id)
    BY <1>1, Found
  <2>2. /\ found <=> \E j \in 1..Len(r) : r[j].row_id = row_id
        /\ \A j \in 1..Len(r) : r[j].row_id = row_id => j = i
    BY <1>1, <1>3, SearchFinds
  <2>3. QED
    BY <2>1, <2>2
<1>7. found => r[i].is_deleted \in BOOLEAN
  <2>1. found => r[i] \in Records
    BY <1>4, <1>6
  <2>2. QED
    BY <2>1 DEF Records
<1>8. Bound(Pairs(r), row_id) <=> found /\ ~r[i].is_deleted
  <2> HIDE DEF found, i
  <2>1. Bound(Pairs(r), row_id) <=> \E j \in 1..Len(r) : r[j].row_id = row_id /\ ~r[j].is_deleted
    BY <1>1, BoundRecord
  <2>2. QED
    BY <1>6, <2>1
<1>9. put = CASE len > MAX_VALUE_SIZE -> Err("TupleTooLarge")
          [] len <= MAX_VALUE_SIZE /\ found /\ ~r[i].is_deleted -> Err("DuplicateKey")
          [] len <= MAX_VALUE_SIZE /\ found /\ r[i].is_deleted ->
               IF len - r[i].len > leaf.free_size THEN Err("PageFull") ELSE Ok(compact(over))
          [] len <= MAX_VALUE_SIZE /\ ~found ->
               IF needed > PAGE_SIZE \/ Len(r) > MAX_LEAF_NODE_CELLS
               THEN Err("PageFull")
               ELSE Ok(inserted)
  BY DEF insert_record
<1> SUFFICES /\ put.res = "Ok" => /\ LeafOrd(put.leaf, R)
                                  /\ Pairs(put.leaf.records) = Pairs(r) \cup {<<row_id, len>>}
                                  /\ ~Bound(Pairs(r), row_id)
             /\ len <= MAX_VALUE_SIZE => (put.res = "DuplicateKey" <=> Bound(Pairs(r), row_id))
  OBVIOUS
<1>10. CASE len > MAX_VALUE_SIZE
  <2> HIDE DEF over, inserted, needed, found, i, new, put
  <2>1. put = Err("TupleTooLarge")
    BY <1>3, <1>9, <1>10
  <2>2. put.res = "TupleTooLarge" /\ ~(len <= MAX_VALUE_SIZE)
    BY <1>3, <1>10, <2>1 DEF Err
  <2>3. QED
    BY <2>2
<1>11. CASE len <= MAX_VALUE_SIZE /\ found /\ ~r[i].is_deleted
  <2> HIDE DEF over, inserted, needed, found, i, new, put
  <2>1. put = Err("DuplicateKey")
    BY <1>3, <1>9, <1>11
  <2>2. put.res = "DuplicateKey"
    BY <2>1 DEF Err
  <2>3. QED
    BY <1>8, <1>11, <2>2
<1>12. CASE len <= MAX_VALUE_SIZE /\ found /\ r[i].is_deleted
  <2> DEFINE t == [r EXCEPT ![i] = new]
  <2>1. over.records = t
    BY DEF LeafOK, LeafNodes
  <2>2. i \in 1..Len(r) /\ r[i].row_id = row_id
    BY <1>6, <1>12
  <2> HIDE DEF over, inserted, needed, found, i, new, put, r
  <2>3. put = IF len - r[i].len > leaf.free_size THEN Err("PageFull") ELSE Ok(compact(over))
    BY <1>3, <1>9, <1>12
  <2>4. ~Bound(Pairs(r), row_id)
    BY <1>8, <1>12
  <2>5. CASE len - r[i].len > leaf.free_size
    <3>1. put.res = "PageFull"
      BY <2>3, <2>5 DEF Err
    <3>2. QED
      BY <2>4, <3>1
  <2>6. CASE ~(len - r[i].len > leaf.free_size)
    <3>1. put.res = "Ok" /\ put.leaf = compact(over)
      BY <2>3, <2>6 DEF Ok
    <3>2. /\ Ascending(t) /\ t \in Seq(Records)
          /\ ToSet(t) = {x \in ToSet(r) : x.row_id # new.row_id} \cup {new}
      BY <1>1, <1>2, <2>2, ReplaceOrder, ZenonT(60)
    <3> HIDE DEF t
    <3>3. LeafOrd(over, R)
      BY <1>1, <1>2, <1>12, <2>1, <3>2 DEF LeafOrd
    <3>4. LeafOrd(compact(over), R) /\ Pairs(compact(over).records) = Pairs(t)
      BY <2>1, <3>2, <3>3, CompactOrd
    <3>5. \A x \in ToSet(r) : ~x.is_deleted => x.row_id # row_id
      BY <2>4, BoundPairs
    <3>6. {x \in ToSet(t) : ~x.is_deleted} = {x \in ToSet(r) : ~x.is_deleted} \cup {new}
      BY <1>2, <3>2, <3>5
    <3>7. Pairs(t) = Pairs(r) \cup {<<new.row_id, new.len>>}
      BY <3>6 DEF Pairs
    <3>8. QED
      BY <1>2, <2>4, <3>1, <3>4, <3>7
  <2>7. QED
    BY <2>5, <2>6
<1>13. CASE len <= MAX_VALUE_SIZE /\ ~found
  <2> DEFINE t == InsertAt(r, i, new)
  <2>1. inserted.records = t
    BY DEF LeafOK, LeafNodes
  <2> HIDE DEF over, inserted, found, i, new, put, r
  <2>2. put = IF needed > PAGE_SIZE \/ Len(r) > MAX_LEAF_NODE_CELLS THEN Err("PageFull") ELSE Ok(inserted)
    <3> HIDE DEF needed
    <3>1. QED
      BY <1>3, <1>9, <1>13
  <2> HIDE DEF needed
  <2>3. ~Bound(Pairs(r), row_id)
    BY <1>8, <1>13
  <2>4. CASE needed > PAGE_SIZE \/ Len(r) > MAX_LEAF_NODE_CELLS
    <3>1. put.res = "PageFull"
      BY <2>2, <2>4 DEF Err
    <3>2. QED
      BY <2>3, <3>1
  <2>5. CASE ~(needed > PAGE_SIZE \/ Len(r) > MAX_LEAF_NODE_CELLS)
    <3>1. put.res = "Ok" /\ put.leaf = inserted
      BY <2>2, <2>5 DEF Ok
    <3>2. \A j \in 1..Len(r) : j < i => r[j].row_id < new.row_id
      BY <1>2, <1>5
    <3>3. \A j \in 1..Len(r) : j >= i => new.row_id < r[j].row_id
      <4>1. SUFFICES ASSUME NEW j \in 1..Len(r), j >= i PROVE row_id < r[j].row_id
        BY <1>2
      <4>2. ~(r[j].row_id < row_id)
        BY <1>4, <1>5, <4>1
      <4>3. r[j].row_id # row_id
        BY <1>6, <1>13
      <4>4. QED
        BY <1>3, <1>4, <4>2, <4>3
    <3>4. /\ Ascending(t) /\ t \in Seq(Records)
          /\ ToSet(t) = ToSet(r) \cup {new}
      BY <1>1, <1>2, <1>5, <3>2, <3>3, InsertAtOrder
    <3> HIDE DEF t
    <3>5. LeafOrd(inserted, R)
      BY <1>1, <1>2, <1>13, <2>1, <3>4 DEF LeafOrd
    <3>6. {x \in ToSet(t) : ~x.is_deleted} = {x \in ToSet(r) : ~x.is_deleted} \cup {new}
      BY <1>2, <3>4
    <3>7. Pairs(t) = Pairs(r) \cup {<<new.row_id, new.len>>}
      BY <3>6 DEF Pairs
    <3>8. QED
      BY <1>2, <2>1, <2>3, <3>1, <3>5, <3>7
  <2>6. QED
    BY <2>4, <2>5
<1>14. QED
  BY <1>3, <1>7, <1>10, <1>11, <1>12, <1>13


\* What a record written over one with the same key does to the map.
LEMMA ReplacePairs ==
    ASSUME NEW r \in Seq(Records), Ascending(r), NEW i \in 1..Len(r), NEW rec \in Records,
           rec.row_id = r[i].row_id
    PROVE  Pairs([r EXCEPT ![i] = rec])
             = {x \in Pairs(r) : x[1] # rec.row_id}
                 \cup (IF rec.is_deleted THEN {} ELSE {<<rec.row_id, rec.len>>})
<1> DEFINE t == [r EXCEPT ![i] = rec]
           new == {x \in Pairs(r) : x[1] # rec.row_id}
                    \cup (IF rec.is_deleted THEN {} ELSE {<<rec.row_id, rec.len>>})
<1>1. ToSet(t) = {x \in ToSet(r) : x.row_id # rec.row_id} \cup {rec}
  BY ReplaceOrder
<1> HIDE DEF t
<1>2. ASSUME NEW x \in Pairs(t) PROVE x \in new
  <2>1. PICK y \in ToSet(t) : ~y.is_deleted /\ x = <<y.row_id, y.len>>
    BY <1>2, PairsMember
  <2>2. x[1] = y.row_id
    BY <2>1
  <2>3. CASE y = rec
    BY <2>1, <2>3
  <2>4. CASE y # rec
    <3>1. y \in ToSet(r) /\ y.row_id # rec.row_id
      BY <1>1, <2>1, <2>4
    <3>2. x \in Pairs(r)
      BY <2>1, <3>1, PairsMember
    <3>3. QED
      BY <2>2, <3>1, <3>2
  <2>5. QED
    BY <2>3, <2>4
<1>3. ASSUME NEW x \in new PROVE x \in Pairs(t)
  <2>1. CASE x \in Pairs(r) /\ x[1] # rec.row_id
    <3>1. PICK y \in ToSet(r) : ~y.is_deleted /\ x = <<y.row_id, y.len>>
      BY <2>1, PairsMember
    <3>2. y.row_id # rec.row_id
      BY <2>1, <3>1
    <3>3. y \in ToSet(t)
      BY <1>1, <3>1, <3>2
    <3>4. QED
      BY <3>1, <3>3, PairsMember
  <2>2. CASE ~rec.is_deleted /\ x = <<rec.row_id, rec.len>>
    <3>1. rec \in ToSet(t)
      BY <1>1
    <3>2. QED
      BY <2>2, <3>1, PairsMember
  <2>3. QED
    BY <1>3, <2>1, <2>2
<1> HIDE DEF new
<1>4. Pairs(t) = new
  BY <1>2, <1>3
<1>5. QED
  BY <1>4 DEF t, new

\* update_record rebinds a key that is bound.
LEMMA UpdateRecordOrd ==
    ASSUME NEW leaf, LeafOK(leaf), NEW R, LeafOrd(leaf, R), NEW row_id \in Keys, NEW len \in Payloads,
           update_record(leaf, row_id, len).res = "Ok"
    PROVE  /\ LeafOrd(update_record(leaf, row_id, len).leaf, R)
           /\ Bound(Pairs(leaf.records), row_id) =>
                Pairs(update_record(leaf, row_id, len).leaf.records)
                  = {x \in Pairs(leaf.records) : x[1] # row_id} \cup {<<row_id, len>>}
<1> DEFINE up == update_record(leaf, row_id, len)
           r == leaf.records
           i == SlotOf(r, row_id)
           diff == len - r[i].len
           over == [leaf EXCEPT !.records[i].len = len, !.free_size = @ - diff]
           new == [r[i] EXCEPT !.len = len]
           t == [r EXCEPT ![i] = new]
<1>1. r \in Seq(Records) /\ Ascending(r) /\ \A rec \in ToSet(r) : rec.row_id \in R /\ rec.len <= MAX_VALUE_SIZE
  BY LeafParts DEF LeafOrd
<1>2. row_id \in Int
  BY KeysAssumption
<1>3. up = IF len >= MAX_VALUE_SIZE THEN Err("TupleTooLarge")
           ELSE IF ~HasKey(r, row_id) THEN Err("KeyNotFound")
           ELSE IF diff > leaf.free_size THEN Err("PageFull")
           ELSE Ok(over)
  BY DEF update_record
<1>4. HasKey(r, row_id) /\ up = Ok(over) /\ ~(len >= MAX_VALUE_SIZE)
  <2> HIDE DEF over, diff, i
  <2>1. up.res = "Ok"
    OBVIOUS
  <2> HIDE DEF up
  <2>2. QED
    BY <1>3, <2>1 DEF Err
<1>5. up.leaf = over
  <2> HIDE DEF over, up
  <2>1. QED
    BY <1>4 DEF Ok
<1>6. over.records = t
  BY DEF LeafOK, LeafNodes
<1>7. i \in 1..Len(r) /\ r[i].row_id = row_id
  BY <1>1, <1>4, Found
<1>8. r[i] \in Records
  BY <1>1, <1>7, RowIdTypes
<1>9. new \in Records /\ new.row_id = row_id /\ new.len = len /\ new.is_deleted = r[i].is_deleted
  BY <1>7, <1>8 DEF Records
<1> HIDE DEF new, over, up, i
<1>10. /\ Ascending(t) /\ t \in Seq(Records)
       /\ ToSet(t) = {x \in ToSet(r) : x.row_id # new.row_id} \cup {new}
  BY <1>1, <1>7, <1>9, ReplaceOrder
<1>11. Pairs(t) = {x \in Pairs(r) : x[1] # new.row_id}
                    \cup (IF new.is_deleted THEN {} ELSE {<<new.row_id, new.len>>})
  BY <1>1, <1>7, <1>9, ReplacePairs
<1>12. r[i] \in ToSet(r)
  BY <1>1, <1>7, Members
<1> HIDE DEF t, r
<1>13. LeafOrd(over, R)
  <2>1. len <= MAX_VALUE_SIZE
    BY <1>4, PayloadsAssumption, SizesAssumption
  <2>2. QED
    BY <1>1, <1>6, <1>7, <1>9, <1>10, <1>12, <2>1 DEF LeafOrd
<1>14. Bound(Pairs(r), row_id) => ~r[i].is_deleted
  <2>1. SUFFICES ASSUME Bound(Pairs(r), row_id) PROVE ~r[i].is_deleted
    OBVIOUS
  <2>2. PICK j \in 1..Len(r) : r[j].row_id = row_id /\ ~r[j].is_deleted
    BY <1>1, <2>1, BoundRecord
  <2>3. j = i
    BY <1>1, <1>2, <2>2, SearchFinds DEF i
  <2>4. QED
    BY <2>2, <2>3
<1>15. QED
  BY <1>5, <1>6, <1>9, <1>11, <1>13, <1>14 DEF up, r

\* delete_record unbinds its key, and fails only when nothing is bound to it.
LEMMA DeleteRecordOrd ==
    ASSUME NEW leaf, LeafOK(leaf), NEW R, LeafOrd(leaf, R), NEW row_id \in Keys
    PROVE  /\ delete_record(leaf, row_id).res = "Ok" =>
                /\ LeafOrd(delete_record(leaf, row_id).leaf, R)
                /\ Pairs(delete_record(leaf, row_id).leaf.records)
                     = {x \in Pairs(leaf.records) : x[1] # row_id}
           /\ delete_record(leaf, row_id).res # "Ok" => ~Bound(Pairs(leaf.records), row_id)
<1> DEFINE del == delete_record(leaf, row_id)
           r == leaf.records
           i == SlotOf(r, row_id)
           over == [leaf EXCEPT !.records[i].is_deleted = TRUE]
           new == [r[i] EXCEPT !.is_deleted = TRUE]
           t == [r EXCEPT ![i] = new]
<1>1. r \in Seq(Records) /\ Ascending(r) /\ \A rec \in ToSet(r) : rec.row_id \in R /\ rec.len <= MAX_VALUE_SIZE
  BY LeafParts DEF LeafOrd
<1>2. row_id \in Int
  BY KeysAssumption
<1>3. del = IF HasKey(r, row_id) THEN Ok(over) ELSE Err("KeyNotFound")
  BY DEF delete_record
<1> SUFFICES /\ del.res = "Ok" => /\ LeafOrd(del.leaf, R)
                                  /\ Pairs(del.leaf.records) = {x \in Pairs(r) : x[1] # row_id}
             /\ del.res # "Ok" => ~Bound(Pairs(r), row_id)
  OBVIOUS
<1>4. CASE ~HasKey(r, row_id)
  <2> HIDE DEF del, over, i
  <2>1. del.res # "Ok"
    BY <1>3, <1>4 DEF Err
  <2>2. ~Bound(Pairs(r), row_id)
    <3>1. ~ \E j \in 1..Len(r) : r[j].row_id = row_id
      BY <1>1, <1>2, <1>4, SearchFinds
    <3>2. QED
      BY <1>1, <3>1, BoundRecord
  <2>3. QED
    BY <2>1, <2>2
<1>5. CASE HasKey(r, row_id)
  <2>1. del.res = "Ok" /\ del.leaf = over
    <3> HIDE DEF del, over, i
    <3>1. QED
      BY <1>3, <1>5 DEF Ok
  <2>2. over.records = t
    BY DEF LeafOK, LeafNodes
  <2>3. i \in 1..Len(r) /\ r[i].row_id = row_id
    BY <1>1, <1>5, Found
  <2>4. r[i] \in Records
    BY <1>1, <2>3, RowIdTypes
  <2>5. new \in Records /\ new.row_id = row_id /\ new.is_deleted /\ new.len = r[i].len
    BY <2>3, <2>4 DEF Records
  <2> HIDE DEF new, over, del, i
  <2>6. /\ Ascending(t) /\ t \in Seq(Records)
        /\ ToSet(t) = {x \in ToSet(r) : x.row_id # new.row_id} \cup {new}
    BY <1>1, <2>3, <2>5, ReplaceOrder
  <2>7. Pairs(t) = {x \in Pairs(r) : x[1] # new.row_id}
                     \cup (IF new.is_deleted THEN {} ELSE {<<new.row_id, new.len>>})
    BY <1>1, <2>3, <2>5, ReplacePairs
  <2>8. r[i] \in ToSet(r)
    BY <1>1, <2>3, Members
  <2> HIDE DEF t, r
  <2>9. LeafOrd(over, R)
    BY <1>1, <2>2, <2>3, <2>5, <2>6, <2>8 DEF LeafOrd
  <2>10. Pairs(t) = {x \in Pairs(r) : x[1] # row_id}
    BY <2>5, <2>7
  <2>11. QED
    BY <2>1, <2>2, <2>9, <2>10
<1>6. QED
  BY <1>4, <1>5

\* The keys of R on the two sides of m.
Under(R, m) == {k \in R : k < m}
From(R, m) == {k \in R : m <= k}

\* The first record of the right half separates the halves of a leaf.
LEMMA SplitOrd ==
    ASSUME NEW leaf, LeafOK(leaf), AllLive(leaf.records), leaf.records # <<>>,
           NEW R, LeafOrd(leaf, R)
    PROVE  LET m == split(leaf).right.records[1].row_id
           IN  /\ m \in From(R, m)
               /\ Len(leaf.records) > 1 => Under(R, m) # {}
               /\ LeafOrd(split(leaf).left, Under(R, m))
               /\ LeafOrd(split(leaf).right, From(R, m))
               /\ Pairs(split(leaf).left.records) \cup Pairs(split(leaf).right.records)
                    = Pairs(leaf.records)
<1> DEFINE r == leaf.records
           n == Len(r)
           mid == n \div 2
           x == SubSeq(r, 1, mid)
           y == SubSeq(r, mid + 1, n)
           a == [leaf EXCEPT !.records = x]
           b == [new_empty EXCEPT !.records = y]
           m == r[mid + 1].row_id
<1>1. r \in Seq(Records) /\ Ascending(r) /\ \A rec \in ToSet(r) : rec.row_id \in R /\ rec.len <= MAX_VALUE_SIZE
  BY LeafParts DEF LeafOrd
<1>2. split(leaf).left = compact(a) /\ split(leaf).right = compact(b)
  BY DEF split
<1>3. a.records = x /\ b.records = y
  BY DEF LeafOK, LeafNodes, new_empty, Leaf
<1>4. n \in Nat \ {0} /\ mid \in 0..n /\ mid < n
  <2>1. n \in Nat \ {0}
    BY <1>1
  <2>2. \A k \in Nat \ {0} : k \div 2 \in 0..k /\ k \div 2 < k
    OBVIOUS
  <2>3. QED
    BY <2>1, <2>2
<1>5. DOMAIN r = 1..n /\ \A i \in 1..n : r[i] \in Records /\ r[i].row_id \in Int
  BY <1>1, RowIdTypes
<1> HIDE DEF mid
<1>6. /\ x \in Seq(Records) /\ Len(x) = mid
      /\ y \in Seq(Records) /\ Len(y) = n - mid
      /\ \A j \in 1..(n - mid) : y[j] = r[mid + j]
  BY <1>1, <1>4, BytesParts
<1>7. \A j \in 1..mid : x[j] = r[j]
  BY <1>1, <1>4
<1> HIDE DEF x, y, a, b, r, n
<1>8. DOMAIN x = 1..mid /\ DOMAIN y = 1..(n - mid)
  BY <1>6, RowIdTypes
<1>9. \A j \in 1..mid : j \in 1..n /\ r[j].row_id < m
  <2>1. SUFFICES ASSUME NEW j \in 1..mid PROVE j \in 1..n /\ r[j].row_id < m
    OBVIOUS
  <2>2. j \in 1..n /\ mid + 1 \in 1..n /\ j < mid + 1
    BY <1>4
  <2>3. QED
    BY <1>1, <1>5, <2>2 DEF Ascending
<1>10. \A j \in 1..(n - mid) : mid + j \in 1..n /\ m <= r[mid + j].row_id
  <2>1. SUFFICES ASSUME NEW j \in 1..(n - mid) PROVE mid + j \in 1..n /\ m <= r[mid + j].row_id
    OBVIOUS
  <2>2. mid + j \in 1..n /\ mid + 1 \in 1..n /\ (j = 1 \/ mid + 1 < mid + j)
    BY <1>4
  <2>3. r[mid + j].row_id \in Int /\ m \in Int
    BY <1>5, <2>2
  <2>4. CASE j = 1
    BY <2>2, <2>3, <2>4
  <2>5. CASE mid + 1 < mid + j
    BY <1>1, <1>5, <2>2, <2>3, <2>5 DEF Ascending
  <2>6. QED
    BY <2>2, <2>4, <2>5
<1>11. Ascending(x)
  BY <1>1, <1>5, <1>7, <1>8, <1>9 DEF Ascending
<1>12. Ascending(y)
  <2>1. SUFFICES ASSUME NEW i \in 1..(n - mid), NEW j \in 1..(n - mid), i < j
                 PROVE  y[i].row_id < y[j].row_id
    BY <1>8 DEF Ascending
  <2>2. mid + i \in 1..n /\ mid + j \in 1..n /\ mid + i < mid + j
    BY <1>4, <2>1
  <2>3. QED
    BY <1>1, <1>5, <1>6, <2>2 DEF Ascending
<1>13. ASSUME NEW rec PROVE rec \in ToSet(x) <=> \E j \in 1..mid : rec = r[j]
  BY <1>6, <1>7, Members
<1>14. ASSUME NEW rec PROVE rec \in ToSet(y) <=> \E j \in 1..(n - mid) : rec = r[mid + j]
  BY <1>6, Members
<1>15. ASSUME NEW rec PROVE rec \in ToSet(r) <=> rec \in ToSet(x) \/ rec \in ToSet(y)
  <2>1. rec \in ToSet(r) <=> \E j \in 1..n : rec = r[j]
    BY <1>1, Members DEF n
  <2>2. ASSUME NEW j \in 1..n, rec = r[j] PROVE rec \in ToSet(x) \/ rec \in ToSet(y)
    <3>1. CASE j <= mid
      BY <1>4, <1>13, <2>2, <3>1
    <3>2. CASE j > mid
      <4>1. j - mid \in 1..(n - mid) /\ mid + (j - mid) = j
        BY <1>4, <3>2
      <4>2. QED
        BY <1>14, <2>2, <4>1
    <3>3. QED
      BY <1>4, <3>1, <3>2
  <2>3. QED
    BY <1>9, <1>10, <1>13, <1>14, <2>1, <2>2
<1>16. LeafOrd(a, Under(R, m))
  <2>1. ASSUME NEW rec \in ToSet(x) PROVE rec.row_id \in Under(R, m) /\ rec.len <= MAX_VALUE_SIZE
    <3>1. rec.row_id \in R /\ rec.len <= MAX_VALUE_SIZE
      BY <1>1, <1>15, <2>1
    <3>2. rec.row_id < m
      BY <1>9, <1>13, <2>1
    <3>3. QED
      BY <3>1, <3>2 DEF Under
  <2>2. QED
    BY <1>3, <1>11, <2>1 DEF LeafOrd
<1>17. LeafOrd(b, From(R, m))
  <2>1. ASSUME NEW rec \in ToSet(y) PROVE rec.row_id \in From(R, m) /\ rec.len <= MAX_VALUE_SIZE
    <3>1. rec.row_id \in R /\ rec.len <= MAX_VALUE_SIZE
      BY <1>1, <1>15, <2>1
    <3>2. m <= rec.row_id
      BY <1>10, <1>14, <2>1
    <3>3. QED
      BY <3>1, <3>2 DEF From
  <2>2. QED
    BY <1>3, <1>12, <2>1 DEF LeafOrd
<1>18. LeafOrd(compact(a), Under(R, m)) /\ Pairs(compact(a).records) = Pairs(x)
  BY <1>3, <1>6, <1>16, CompactOrd
<1>19. /\ LeafOrd(compact(b), From(R, m)) /\ Pairs(compact(b).records) = Pairs(y)
       /\ compact(b).records = live(y)
  BY <1>3, <1>6, <1>17, CompactOrd
<1>20. live(y) = y
  <2>1. AllLive(y)
    BY <1>6, <1>10 DEF AllLive, r, n
  <2>2. QED
    BY <1>6, <2>1, LiveSame
<1>21. y[1].row_id = m /\ y[1] \in ToSet(y)
  <2>1. 1 \in 1..(n - mid)
    BY <1>4
  <2>2. QED
    BY <1>6, <2>1, Members
<1>22. m \in From(R, m)
  BY <1>3, <1>17, <1>21 DEF LeafOrd
<1>23. Pairs(x) \cup Pairs(y) = Pairs(r)
  <2>1. ASSUME NEW z PROVE z \in Pairs(r) <=> z \in Pairs(x) \/ z \in Pairs(y)
    BY <1>15, PairsMember
  <2>2. QED
    BY <2>1
<1> HIDE DEF m
<1>24. split(leaf).right.records[1].row_id = m
  BY <1>2, <1>19, <1>20, <1>21
<1>25. n > 1 => Under(R, m) # {}
  <2>1. SUFFICES ASSUME n > 1 PROVE Under(R, m) # {}
    OBVIOUS
  <2>2. \A k \in Nat : k > 1 => k \div 2 >= 1
    OBVIOUS
  <2>3. 1 \in 1..mid /\ 1 \in 1..n
    BY <1>4, <2>1, <2>2 DEF mid
  <2>4. r[1] \in ToSet(x)
    BY <1>13, <2>3
  <2>5. QED
    BY <1>3, <1>16, <2>4 DEF LeafOrd
<1>26. QED
  BY <1>2, <1>18, <1>19, <1>22, <1>23, <1>24, <1>25 DEF r, n

\* A leaf with one record has room for another: a page holds two of the largest.
LEMMA OneMoreFits ==
    ASSUME NEW leaf, LeafOK(leaf), AllLive(leaf.records), NEW R, LeafOrd(leaf, R),
           Len(leaf.records) = 1, NEW row_id \in Keys, NEW len \in Payloads, len <= MAX_VALUE_SIZE
    PROVE  insert_record(leaf, row_id, len).res # "PageFull"
<1> DEFINE put == insert_record(leaf, row_id, len)
           r == leaf.records
           i == SlotOf(r, row_id)
           found == HasKey(r, row_id)
           new == [row_id |-> row_id, len |-> len, is_deleted |-> FALSE]
           needed == LeafBytes(r) + SLOT_ELEM_SIZE + RecordSize(new)
           over == [leaf EXCEPT !.records[i] = new]
           inserted == [leaf EXCEPT !.records = InsertAt(@, i, new), !.free_size = PAGE_SIZE - needed]
<1>1. r \in Seq(Records) /\ \A rec \in ToSet(r) : rec.len <= MAX_VALUE_SIZE
  BY LeafParts DEF LeafOrd
<1>2. r[1] \in Records /\ r = <<r[1]>> /\ r[1] \in ToSet(r)
  BY <1>1, Members
<1>3. /\ len \in Nat /\ RecordSize(new) = SLOT_ELEM_SIZE + RECORD_META_SIZE + len
  BY NewRecord
<1>4. /\ r[1].len \in Nat /\ r[1].len <= MAX_VALUE_SIZE
      /\ RecordSize(r[1]) = SLOT_ELEM_SIZE + RECORD_META_SIZE + r[1].len
  BY <1>1, <1>2, RecordSizeNat DEF RecordSize
<1>5. LeafBytes(r) = LEAF_NODE_HEADER_SIZE + RecordSize(r[1])
  <2> HIDE DEF r
  <2>1. LeafBytes(<<r[1]>>) = LEAF_NODE_HEADER_SIZE + RecordSize(r[1])
    BY <1>2, BytesOne
  <2>2. QED
    BY <1>2, <2>1
<1>6. put = CASE len > MAX_VALUE_SIZE -> Err("TupleTooLarge")
          [] len <= MAX_VALUE_SIZE /\ found /\ ~r[i].is_deleted -> Err("DuplicateKey")
          [] len <= MAX_VALUE_SIZE /\ found /\ r[i].is_deleted ->
               IF len - r[i].len > leaf.free_size THEN Err("PageFull") ELSE Ok(compact(over))
          [] len <= MAX_VALUE_SIZE /\ ~found ->
               IF needed > PAGE_SIZE \/ Len(r) > MAX_LEAF_NODE_CELLS
               THEN Err("PageFull")
               ELSE Ok(inserted)
  BY DEF insert_record
<1>7. found \in BOOLEAN /\ (found => i \in 1..Len(r))
  BY <1>1, Found
<1>8. found => ~r[i].is_deleted
  BY <1>7 DEF AllLive
<1>9. needed <= PAGE_SIZE
  <2> HIDE DEF new, r
  <2>1. needed = LEAF_NODE_HEADER_SIZE + (SLOT_ELEM_SIZE + RECORD_META_SIZE + r[1].len) + SLOT_ELEM_SIZE
                   + (SLOT_ELEM_SIZE + RECORD_META_SIZE + len)
    BY <1>3, <1>4, <1>5
  <2> HIDE DEF needed
  <2>2. QED
    BY <1>3, <1>4, <2>1, SizesAssumption
<1>10. MAX_LEAF_NODE_CELLS >= 1
  <2>1. \A a, b \in Nat : b > 0 /\ a >= b => a \div b >= 1
    <3>1. SUFFICES ASSUME NEW a \in Nat, NEW b \in Nat, b > 0, a >= b, ~(a \div b >= 1) PROVE FALSE
      OBVIOUS
    <3>2. a \div b \in Int /\ a % b \in 0..(b - 1) /\ a = b * (a \div b) + (a % b)
      BY <3>1
    <3>3. a \div b <= 0 /\ b * (a \div b) <= 0
      BY <3>1, <3>2
    <3>4. QED
      BY <3>1, <3>2, <3>3
  <2> DEFINE a == PAGE_SIZE - LEAF_NODE_HEADER_SIZE
             b == SLOT_ELEM_SIZE + RECORD_META_SIZE
  <2>2. a \in Nat /\ b \in Nat /\ b > 0 /\ a >= b
    BY SizesAssumption
  <2>3. MAX_LEAF_NODE_CELLS = a \div b
    BY DEF MAX_LEAF_NODE_CELLS
  <2> HIDE DEF a, b
  <2>4. QED
    BY <2>1, <2>2, <2>3
<1>11. MAX_LEAF_NODE_CELLS \in Int
  BY SizesAssumption DEF MAX_LEAF_NODE_CELLS
<1> HIDE DEF over, inserted, needed, found, i, new, put, r
<1>12. CASE found
  <2>1. put = Err("DuplicateKey")
    BY <1>3, <1>6, <1>8, <1>12, SizesAssumption
  <2>2. QED
    BY <2>1 DEF Err, put
<1>13. CASE ~found
  <2>1. needed \in Int /\ PAGE_SIZE \in Int
    BY <1>3, <1>4, <1>5, SizesAssumption DEF needed
  <2>2. ~(needed > PAGE_SIZE \/ Len(r) > MAX_LEAF_NODE_CELLS)
    BY <1>9, <1>10, <1>11, <2>1 DEF r
  <2>3. put = IF needed > PAGE_SIZE \/ Len(r) > MAX_LEAF_NODE_CELLS THEN Err("PageFull") ELSE Ok(inserted)
    BY <1>3, <1>6, <1>13, SizesAssumption
  <2>4. put = Ok(inserted)
    BY <2>2, <2>3
  <2>5. QED
    BY <2>4 DEF Ok, put
<1>14. QED
  BY <1>7, <1>12, <1>13

-----------------------------------------------------------------------------
(* Internal nodes in order.  J gives every page the keys that the pages above
   it hold it responsible for. *)

\* The key belongs between the keys number i - 1 and i.
InSlot(keys, i, k) == (i > 1 => keys[i - 1] <= k) /\ (i <= Len(keys) => k < keys[i])

\* The keys of the node are in order and among the keys R it is responsible
\* for, and each kid is responsible for its part of R.
Sees(node, R, J) ==
    /\ SortedKeys(node.keys)
    /\ \A i \in 1..Len(node.keys) : node.keys[i] \in R
    /\ \A i \in 1..(Len(node.keys) + 1), k \in Int :
         k \in J[node.kids[i]] <=> k \in R /\ InSlot(node.keys, i, k)

\* A key belongs to one slot, the one that partition_point finds.
LEMMA SlotIsPartition ==
    ASSUME NEW keys \in Seq(Keys), SortedKeys(keys), NEW k \in Int, NEW i \in 1..(Len(keys) + 1)
    PROVE  InSlot(keys, i, k) <=> i = Partition(keys, k)
<1> DEFINE c == Partition(keys, k)
<1>1. Len(keys) \in Nat /\ \A j \in 1..Len(keys) : keys[j] \in Int
  BY KeyTypes
<1>2. c \in 1..(Len(keys) + 1) /\ \A j \in 1..Len(keys) : keys[j] <= k <=> j < c
  BY PartitionCuts
<1> HIDE DEF c
<1>3. ASSUME i = c PROVE InSlot(keys, i, k)
  <2>1. ASSUME i > 1 PROVE keys[i - 1] <= k
    <3>1. i - 1 \in 1..Len(keys) /\ i - 1 < c
      BY <1>1, <1>3, <2>1
    <3>2. QED
      BY <1>2, <3>1
  <2>2. ASSUME i <= Len(keys) PROVE k < keys[i]
    <3>1. i \in 1..Len(keys) /\ ~(i < c)
      BY <1>1, <1>2, <1>3, <2>2
    <3>2. ~(keys[i] <= k) /\ keys[i] \in Int
      BY <1>1, <1>2, <3>1
    <3>3. QED
      BY <3>2
  <2>3. QED
    BY <2>1, <2>2 DEF InSlot
<1>4. ASSUME InSlot(keys, i, k) PROVE i = c
  <2>1. ~(c < i)
    <3>1. SUFFICES ASSUME c < i PROVE FALSE
      OBVIOUS
    <3>2. i > 1 /\ i - 1 \in 1..Len(keys) /\ ~(i - 1 < c)
      BY <1>1, <1>2, <3>1
    <3>3. keys[i - 1] <= k
      BY <1>4, <3>2 DEF InSlot
    <3>4. QED
      BY <1>2, <3>2, <3>3
  <2>2. ~(i < c)
    <3>1. SUFFICES ASSUME i < c PROVE FALSE
      OBVIOUS
    <3>2. i \in 1..Len(keys) /\ i <= Len(keys)
      BY <1>1, <1>2, <3>1
    <3>3. k < keys[i] /\ keys[i] <= k /\ keys[i] \in Int
      BY <1>1, <1>2, <1>4, <3>1, <3>2 DEF InSlot
    <3>4. QED
      BY <3>3
  <2>3. QED
    BY <1>1, <1>2, <2>1, <2>2
<1>5. QED
  BY <1>3, <1>4 DEF c

\* A descent for a key that the node is responsible for goes to the kid that
\* is responsible for it, and to no other.
LEMMA RouteSees ==
    ASSUME NEW S, NEW node, InternalOK(node, S), NEW R, NEW J, Sees(node, R, J), NEW k \in Int, k \in R
    PROVE  /\ Partition(node.keys, k) \in 1..(Len(node.keys) + 1)
           /\ route_key(node, k) = node.kids[Partition(node.keys, k)]
           /\ k \in J[route_key(node, k)]
           /\ \A i \in 1..(Len(node.keys) + 1) : k \in J[node.kids[i]] => i = Partition(node.keys, k)
<1> DEFINE c == Partition(node.keys, k)
<1>1. node.keys \in Seq(Keys) /\ SortedKeys(node.keys)
  BY InternalParts DEF Sees
<1>2. c \in 1..(Len(node.keys) + 1)
  BY <1>1, PartitionCuts
<1>3. \A i \in 1..(Len(node.keys) + 1) : InSlot(node.keys, i, k) <=> i = c
  BY <1>1, SlotIsPartition
<1>4. route_key(node, k) = node.kids[c]
  BY DEF route_key
<1> HIDE DEF c
<1>5. \A i \in 1..(Len(node.keys) + 1) : k \in J[node.kids[i]] <=> i = c
  BY <1>3 DEF Sees
<1>6. QED
  BY <1>2, <1>4, <1>5 DEF c

\* Only what the kids are responsible for matters.
LEMMA SeesSame ==
    ASSUME NEW node, NEW R, NEW J, NEW K, Sees(node, R, J),
           \A i \in 1..(Len(node.keys) + 1) : K[node.kids[i]] = J[node.kids[i]]
    PROVE  Sees(node, R, K)
BY DEF Sees

\* A page responsible for a key outside of R is no kid.
LEMMA NotKid ==
    ASSUME NEW node, NEW R, NEW J, Sees(node, R, J), NEW p, NEW k \in Int, k \in J[p], k \notin R
    PROVE  \A i \in 1..(Len(node.keys) + 1) : node.kids[i] # p
BY DEF Sees

\* The kids after one was put behind the kid number c.
LEMMA NextKids ==
    ASSUME NEW S, NEW kids \in Seq(S), NEW right \in S, NEW c \in 1..Len(kids)
    PROVE  \A j \in 1..(Len(kids) + 1) : InsertAt(kids, c + 1, right)[j] =
              IF j < c + 1 THEN kids[j] ELSE IF j = c + 1 THEN right ELSE kids[j - 1]
<1> DEFINE e == c + 1
<1>1. e \in 1..(Len(kids) + 1)
  OBVIOUS
<1> HIDE DEF e
<1>2. \A j \in 1..(Len(kids) + 1) :
         InsertAt(kids, e, right)[j] = IF j < e THEN kids[j] ELSE IF j = e THEN right ELSE kids[j - 1]
  BY <1>1, InsertAtElements
<1>3. QED
  BY <1>2 DEF e

\* A new key takes the part of its slot from it on away from the kid there.
LEMMA InsertEntrySees ==
    ASSUME NEW S, NEW node, InternalOK(node, S), NEW R, NEW J, Sees(node, R, J),
           NEW m \in Keys, m \in R, NEW p, p = node.kids[Partition(node.keys, m)],
           NEW right \in S, NEW low \in Int, low \in J[p], low < m, NEW x,
           \A k \in Int : k \in x[p] <=> k \in J[p] /\ k < m,
           \A k \in Int : k \in x[right] <=> k \in J[p] /\ m <= k,
           \A i \in 1..(Len(node.keys) + 1) : node.kids[i] # p => x[node.kids[i]] = J[node.kids[i]]
    PROVE  Sees(insert_entry(node, m, right), R, x)
<1> DEFINE keys == node.keys
           kids == node.kids
           n == Len(keys)
           c == Partition(keys, m)
           nk == InsertAt(keys, c, m)
           nc == InsertAt(kids, c + 1, right)
<1>1. keys \in Seq(Keys) /\ kids \in Seq(S) /\ n \in Nat /\ Len(kids) = n + 1
  BY InternalParts
<1>2. /\ SortedKeys(keys) /\ \A i \in 1..n : keys[i] \in R
      /\ \A i \in 1..(n + 1), k \in Int : k \in J[kids[i]] <=> k \in R /\ InSlot(keys, i, k)
  BY DEF Sees
<1>3. \A i \in 1..n : keys[i] \in Int
  BY <1>1, KeyTypes
<1>4. m \in Int
  BY KeysAssumption
<1>5. c \in 1..(n + 1) /\ \A i \in 1..n : keys[i] <= m <=> i < c
  BY <1>1, <1>2, <1>4, PartitionCuts
<1>6. insert_entry(node, m, right) = Internal(nk, nc)
  BY DEF insert_entry
<1>7. p = kids[c]
  OBVIOUS
<1>8. \A i \in 1..(n + 1) : kids[i] # p => x[kids[i]] = J[kids[i]]
  OBVIOUS
<1> HIDE DEF c, keys, kids, n
<1>9. /\ Len(nk) = n + 1
      /\ \A j \in 1..(n + 1) : nk[j] = IF j < c THEN keys[j] ELSE IF j = c THEN m ELSE keys[j - 1]
  BY <1>1, <1>5, InsertAtElements DEF n
<1>10. \A j \in 1..(n + 2) : nc[j] = IF j < c + 1 THEN kids[j] ELSE IF j = c + 1 THEN right ELSE kids[j - 1]
  <2>1. kids \in Seq(S) /\ c \in 1..Len(kids)
    BY <1>1, <1>5
  <2>2. \A j \in 1..(Len(kids) + 1) :
           nc[j] = IF j < c + 1 THEN kids[j] ELSE IF j = c + 1 THEN right ELSE kids[j - 1]
    BY <2>1, NextKids
  <2>3. Len(kids) + 1 = n + 2
    BY <1>1
  <2>4. QED
    BY <2>2, <2>3
<1> HIDE DEF nk, nc
<1>11. InSlot(keys, c, low) /\ low \in R
  BY <1>2, <1>5, <1>7
<1>12. \A i \in 1..n : i < c => keys[i] < m
  <2>1. SUFFICES ASSUME NEW i \in 1..n, i < c PROVE keys[i] < m
    OBVIOUS
  <2>2. c > 1 /\ c - 1 \in 1..n /\ i <= c - 1
    BY <1>1, <1>5, <2>1
  <2>3. keys[c - 1] <= low /\ keys[c - 1] \in Int /\ keys[i] \in Int
    BY <1>3, <1>11, <2>2 DEF InSlot
  <2>4. keys[i] <= keys[c - 1]
    <3>1. i = c - 1 \/ i < c - 1
      BY <1>5, <2>2
    <3>2. QED
      BY <1>2, <2>2, <2>3, <3>1 DEF SortedKeys, n
  <2>5. QED
    BY <1>4, <2>3, <2>4
<1>13. \A i \in 1..n : i >= c => m < keys[i]
  <2>1. SUFFICES ASSUME NEW i \in 1..n, i >= c PROVE m < keys[i]
    OBVIOUS
  <2>2. ~(keys[i] <= m)
    BY <1>5, <2>1
  <2>3. QED
    BY <1>3, <1>4, <2>2
<1>14. SortedKeys(nk)
  <2>1. SUFFICES ASSUME NEW i \in 1..(n + 1), NEW j \in 1..(n + 1), i < j PROVE nk[i] < nk[j]
    BY <1>9 DEF SortedKeys
  <2>2. CASE j < c
    <3>1. i \in 1..n /\ j \in 1..n /\ nk[i] = keys[i] /\ nk[j] = keys[j]
      BY <1>1, <1>5, <1>9, <2>1, <2>2
    <3>2. QED
      BY <1>2, <2>1, <3>1 DEF SortedKeys, n
  <2>3. CASE j = c
    <3>1. i \in 1..n /\ nk[i] = keys[i] /\ nk[j] = m /\ i < c
      BY <1>1, <1>5, <1>9, <2>1, <2>3
    <3>2. QED
      BY <1>12, <3>1
  <2>4. CASE j > c /\ i < c
    <3>1. /\ i \in 1..n /\ nk[i] = keys[i] /\ j - 1 \in 1..n /\ nk[j] = keys[j - 1] /\ i < j - 1
      BY <1>1, <1>5, <1>9, <2>1, <2>4
    <3>2. QED
      BY <1>2, <3>1 DEF SortedKeys, n
  <2>5. CASE j > c /\ i = c
    <3>1. /\ nk[i] = m /\ j - 1 \in 1..n /\ nk[j] = keys[j - 1] /\ j - 1 >= c
      BY <1>1, <1>5, <1>9, <2>1, <2>5
    <3>2. QED
      BY <1>13, <3>1
  <2>6. CASE j > c /\ i > c
    <3>1. /\ i - 1 \in 1..n /\ nk[i] = keys[i - 1] /\ j - 1 \in 1..n /\ nk[j] = keys[j - 1] /\ i - 1 < j - 1
      BY <1>1, <1>5, <1>9, <2>1, <2>6
    <3>2. QED
      BY <1>2, <3>1 DEF SortedKeys, n
  <2>7. QED
    BY <1>5, <2>2, <2>3, <2>4, <2>5, <2>6
<1>15. \A i \in 1..(n + 1) : nk[i] \in R
  <2>1. SUFFICES ASSUME NEW i \in 1..(n + 1) PROVE nk[i] \in R
    OBVIOUS
  <2>2. CASE i < c
    <3>1. i \in 1..n /\ nk[i] = keys[i]
      BY <1>1, <1>5, <1>9, <2>2
    <3>2. QED
      BY <1>2, <3>1
  <2>3. CASE i = c
    BY <1>9, <2>3
  <2>4. CASE i > c
    <3>1. i - 1 \in 1..n /\ nk[i] = keys[i - 1]
      BY <1>1, <1>5, <1>9, <2>4
    <3>2. QED
      BY <1>2, <3>1
  <2>5. QED
    BY <1>5, <2>2, <2>3, <2>4
<1>16. ASSUME NEW i \in 1..(n + 1), i # c PROVE x[kids[i]] = J[kids[i]]
  <2>1. kids[i] # p
    <3>1. SUFFICES ASSUME kids[i] = p PROVE FALSE
      OBVIOUS
    <3>2. InSlot(keys, i, low)
      BY <1>2, <3>1
    <3>3. \A j \in 1..(n + 1) : InSlot(keys, j, low) <=> j = Partition(keys, low)
      BY <1>1, <1>2, SlotIsPartition DEF n
    <3>4. QED
      BY <1>5, <1>11, <1>16, <3>2, <3>3
  <2>2. QED
    BY <1>8, <2>1
<1>17. ASSUME NEW i \in 1..(n + 2), NEW k \in Int
       PROVE  k \in x[nc[i]] <=> k \in R /\ InSlot(nk, i, k)
  <2>1. CASE i < c
    <3>1. i \in 1..(n + 1) /\ nc[i] = kids[i] /\ i # c /\ i \in 1..n /\ nk[i] = keys[i]
      BY <1>1, <1>5, <1>9, <1>10, <2>1
    <3>2. k \in x[nc[i]] <=> k \in R /\ InSlot(keys, i, k)
      BY <1>2, <1>16, <3>1
    <3>3. i > 1 => nk[i - 1] = keys[i - 1]
      BY <1>5, <1>9, <2>1
    <3>4. InSlot(keys, i, k) <=> InSlot(nk, i, k)
      BY <1>1, <1>9, <3>1, <3>3 DEF InSlot, n
    <3>5. QED
      BY <3>2, <3>4
  <2>2. CASE i = c
    <3>1. nc[i] = p /\ nk[i] = m /\ i \in 1..(n + 1)
      BY <1>5, <1>7, <1>9, <1>10, <2>2
    <3>2. i > 1 => nk[i - 1] = keys[i - 1]
      BY <1>5, <1>9, <2>2
    <3>3. k \in J[p] <=> k \in R /\ InSlot(keys, c, k)
      BY <1>2, <1>5, <1>7
    <3>4. InSlot(keys, c, k) /\ k < m <=> InSlot(nk, i, k)
      <4>1. c <= n => m < keys[c] /\ keys[c] \in Int
        BY <1>1, <1>3, <1>5, <1>13
      <4>2. QED
        BY <1>1, <1>4, <1>5, <1>9, <2>2, <3>1, <3>2, <4>1 DEF InSlot, n
    <3>5. QED
      BY <3>1, <3>3, <3>4
  <2>3. CASE i = c + 1
    <3>1. nc[i] = right /\ nk[i - 1] = m /\ i > 1
      BY <1>5, <1>9, <1>10, <2>3
    <3>2. i <= n + 1 => c <= n /\ nk[i] = keys[c]
      BY <1>1, <1>5, <1>9, <2>3
    <3>3. k \in J[p] <=> k \in R /\ InSlot(keys, c, k)
      BY <1>2, <1>5, <1>7
    <3>4. InSlot(keys, c, k) /\ m <= k <=> InSlot(nk, i, k)
      <4>1. c > 1 => keys[c - 1] < m /\ keys[c - 1] \in Int
        BY <1>1, <1>3, <1>5, <1>12
      <4>2. QED
        BY <1>1, <1>4, <1>5, <1>9, <2>3, <3>1, <3>2, <4>1 DEF InSlot, n
    <3>5. QED
      BY <3>1, <3>3, <3>4
  <2>4. CASE i > c + 1
    <3>1. /\ i - 1 \in 1..(n + 1) /\ nc[i] = kids[i - 1] /\ i - 1 # c /\ i - 1 \in 1..(n + 1)
          /\ (i - 1) - 1 \in 1..n /\ nk[i - 1] = keys[(i - 1) - 1] /\ i > 1 /\ i - 1 > 1
      BY <1>1, <1>5, <1>9, <1>10, <2>4
    <3>2. k \in x[nc[i]] <=> k \in R /\ InSlot(keys, i - 1, k)
      BY <1>2, <1>16, <3>1
    <3>3. i <= n + 1 => nk[i] = keys[i - 1]
      BY <1>1, <1>5, <1>9, <2>4
    <3>4. i <= n + 1 <=> i - 1 <= n
      BY <1>1
    <3>5. InSlot(keys, i - 1, k) <=> InSlot(nk, i, k)
      BY <1>9, <3>1, <3>3, <3>4 DEF InSlot, n
    <3>6. QED
      BY <3>2, <3>5
  <2>5. QED
    BY <1>5, <2>1, <2>2, <2>3, <2>4
<1>18. Internal(nk, nc).keys = nk /\ Internal(nk, nc).kids = nc /\ (n + 1) + 1 = n + 2
  BY <1>1 DEF Internal
<1>19. QED
  BY <1>6, <1>9, <1>14, <1>15, <1>17, <1>18 DEF Sees

\* The middle key separates the halves of a full node.
LEMMA SplitEntriesSees ==
    ASSUME NEW S, NEW node, InternalOK(node, S), InternalFull(node), NEW R, NEW J, Sees(node, R, J)
    PROVE  LET m == split_entries(node).promoted
           IN  /\ m \in From(R, m) /\ Under(R, m) # {}
               /\ Sees(split_entries(node).left, Under(R, m), J)
               /\ Sees(split_entries(node).right, From(R, m), J)
<1> DEFINE keys == node.keys
           kids == node.kids
           n == Len(keys)
           mid == n \div 2 + 1
           lk == SubSeq(keys, 1, mid - 1)
           lc == SubSeq(kids, 1, mid)
           rk == SubSeq(keys, mid + 1, n)
           rc == SubSeq(kids, mid + 1, n + 1)
           m == keys[mid]
<1>1. keys \in Seq(Keys) /\ kids \in Seq(S) /\ n \in Nat /\ Len(kids) = n + 1
  BY InternalParts
<1>2. /\ SortedKeys(keys) /\ \A i \in 1..n : keys[i] \in R
      /\ \A i \in 1..(n + 1), k \in Int : k \in J[kids[i]] <=> k \in R /\ InSlot(keys, i, k)
  BY DEF Sees
<1>3. \A i \in 1..n : keys[i] \in Int
  BY <1>1, KeyTypes
<1>4. /\ split_entries(node).left = Internal(lk, lc)
      /\ split_entries(node).right = Internal(rk, rc)
      /\ split_entries(node).promoted = m
  BY DEF split_entries
<1>5. n >= 2
  BY FullHasTwo
<1>6. mid \in Nat /\ 2 <= mid /\ mid <= n /\ n \in Nat
  <2>1. \A k \in Nat : k >= 2 => k \div 2 \in Nat /\ k \div 2 >= 1 /\ k \div 2 + 1 <= k
    OBVIOUS
  <2> HIDE DEF n
  <2>2. QED
    BY <1>1, <1>5, <2>1
<1> HIDE DEF mid
<1>7. Len(lk) = mid - 1 /\ \A j \in 1..(mid - 1) : lk[j] = keys[j]
  BY <1>1, <1>6
<1>8. \A j \in 1..mid : lc[j] = kids[j]
  BY <1>1, <1>6
<1>9. Len(rk) = n - mid /\ \A j \in 1..(n - mid) : rk[j] = keys[mid + j]
  BY <1>1, <1>6
<1>10. \A j \in 1..(n - mid + 1) : rc[j] = kids[mid + j]
  BY <1>1, <1>6
<1> HIDE DEF keys, kids, n, lk, lc, rk, rc
<1>11. mid \in 1..n /\ m \in Int /\ m \in R
  BY <1>1, <1>2, <1>3, <1>6
<1>12. m \in From(R, m)
  BY <1>11 DEF From
<1>13. \A i, j \in 1..n : i < j => keys[i] < keys[j]
  BY <1>2 DEF SortedKeys, n
<1>14. Under(R, m) # {}
  <2>1. 1 \in 1..n /\ 1 < mid
    BY <1>6
  <2>2. keys[1] \in Under(R, m)
    BY <1>2, <1>11, <1>13, <2>1 DEF Under
  <2>3. QED
    BY <2>2
<1>15. ASSUME NEW i \in 1..mid, NEW k \in Int
       PROVE  k \in J[lc[i]] <=> k \in Under(R, m) /\ InSlot(lk, i, k)
  <2>1. i \in 1..(n + 1) /\ lc[i] = kids[i]
    BY <1>6, <1>8
  <2>2. k \in J[lc[i]] <=> k \in R /\ InSlot(keys, i, k)
    BY <1>2, <2>1
  <2>3. i > 1 => lk[i - 1] = keys[i - 1]
    BY <1>6, <1>7
  <2>4. CASE i = mid
    <3>1. InSlot(keys, i, k) <=> (i > 1 => keys[i - 1] <= k) /\ k < m
      BY <1>6, <2>4 DEF InSlot, n
    <3>2. InSlot(lk, i, k) <=> (i > 1 => keys[i - 1] <= k)
      BY <1>6, <1>7, <2>3, <2>4 DEF InSlot
    <3>3. QED
      BY <2>2, <3>1, <3>2 DEF Under
  <2>5. CASE i < mid
    <3>1. i \in 1..(mid - 1) /\ lk[i] = keys[i] /\ i \in 1..n /\ keys[i] < m /\ keys[i] \in Int
      BY <1>3, <1>6, <1>7, <1>11, <1>13, <2>5
    <3>2. InSlot(keys, i, k) <=> (i > 1 => keys[i - 1] <= k) /\ k < keys[i]
      BY <1>6, <3>1 DEF InSlot, n
    <3>3. InSlot(lk, i, k) <=> (i > 1 => keys[i - 1] <= k) /\ k < keys[i]
      BY <1>6, <1>7, <2>3, <3>1 DEF InSlot
    <3>4. k < keys[i] => k < m
      BY <1>11, <3>1
    <3>5. QED
      BY <2>2, <3>2, <3>3, <3>4 DEF Under
  <2>6. QED
    BY <1>6, <2>4, <2>5
<1>16. ASSUME NEW i \in 1..(n - mid + 1), NEW k \in Int
       PROVE  k \in J[rc[i]] <=> k \in From(R, m) /\ InSlot(rk, i, k)
  <2>1. mid + i \in 1..(n + 1) /\ rc[i] = kids[mid + i] /\ mid + i > 1
    BY <1>1, <1>6, <1>10
  <2>2. k \in J[rc[i]] <=> k \in R /\ InSlot(keys, mid + i, k)
    BY <1>2, <2>1
  <2>3. i <= n - mid => rk[i] = keys[mid + i]
    BY <1>1, <1>6, <1>9
  <2>4. mid + i <= n <=> i <= n - mid
    BY <1>1, <1>6
  <2>5. CASE i = 1
    <3>1. (mid + i) - 1 = mid
      BY <1>6, <2>5
    <3>2. InSlot(keys, mid + i, k) <=> m <= k /\ (i <= n - mid => k < keys[mid + i])
      BY <2>1, <2>4, <3>1 DEF InSlot, n
    <3>3. InSlot(rk, i, k) <=> (i <= n - mid => k < keys[mid + i])
      BY <1>9, <2>3, <2>5 DEF InSlot
    <3>4. QED
      BY <2>2, <3>2, <3>3 DEF From
  <2>6. CASE i > 1
    <3>1. /\ (mid + i) - 1 = mid + (i - 1) /\ i - 1 \in 1..(n - mid)
          /\ mid + (i - 1) \in 1..n /\ mid < mid + (i - 1)
      BY <1>1, <1>6, <2>6
    <3>2. rk[i - 1] = keys[mid + (i - 1)] /\ m < keys[mid + (i - 1)] /\ keys[mid + (i - 1)] \in Int
      BY <1>3, <1>9, <1>11, <1>13, <3>1
    <3>3. InSlot(keys, mid + i, k) <=> keys[mid + (i - 1)] <= k /\ (i <= n - mid => k < keys[mid + i])
      BY <2>1, <2>4, <3>1 DEF InSlot, n
    <3>4. InSlot(rk, i, k) <=> keys[mid + (i - 1)] <= k /\ (i <= n - mid => k < keys[mid + i])
      BY <1>9, <2>3, <2>6, <3>2 DEF InSlot
    <3>5. keys[mid + (i - 1)] <= k => m <= k
      BY <1>11, <3>2
    <3>6. QED
      BY <2>2, <3>3, <3>4, <3>5 DEF From
  <2>7. QED
    BY <1>1, <1>6, <2>5, <2>6
<1>17. SortedKeys(lk) /\ \A i \in 1..(mid - 1) : lk[i] \in Under(R, m)
  <2>1. \A i \in 1..(mid - 1) : i \in 1..n /\ i < mid /\ lk[i] = keys[i]
    BY <1>6, <1>7
  <2>2. SortedKeys(lk)
    BY <1>7, <1>13, <2>1 DEF SortedKeys
  <2>3. QED
    BY <1>2, <1>11, <1>13, <2>1, <2>2 DEF Under
<1>18. SortedKeys(rk) /\ \A i \in 1..(n - mid) : rk[i] \in From(R, m)
  <2>1. \A i \in 1..(n - mid) : mid + i \in 1..n /\ mid < mid + i /\ rk[i] = keys[mid + i]
    BY <1>1, <1>6, <1>9
  <2>2. \A i, j \in 1..(n - mid) : i < j => mid + i < mid + j
    BY <1>6
  <2>3. SortedKeys(rk)
    BY <1>9, <1>13, <2>1, <2>2 DEF SortedKeys
  <2>4. ASSUME NEW i \in 1..(n - mid) PROVE rk[i] \in From(R, m)
    <3>1. rk[i] \in R /\ m < rk[i] /\ rk[i] \in Int
      BY <1>2, <1>3, <1>11, <1>13, <2>1
    <3>2. QED
      BY <1>11, <3>1 DEF From
  <2>5. QED
    BY <2>3, <2>4
<1> HIDE DEF m
<1>19. /\ Internal(lk, lc).keys = lk /\ Internal(lk, lc).kids = lc
       /\ Internal(rk, rc).keys = rk /\ Internal(rk, rc).kids = rc
       /\ (mid - 1) + 1 = mid /\ n - mid + 1 = (n - mid) + 1
  BY <1>1, <1>6 DEF Internal
<1>20. Sees(Internal(lk, lc), Under(R, m), J)
  BY <1>7, <1>15, <1>17, <1>19 DEF Sees
<1>21. Sees(Internal(rk, rc), From(R, m), J)
  BY <1>9, <1>16, <1>18, <1>19 DEF Sees
<1>22. QED
  BY <1>4, <1>12, <1>14, <1>20, <1>21

-----------------------------------------------------------------------------
(* Ownership: every page is responsible for a set of keys, the root for all
   of them, and no two pages of a height for the same one. *)

\* A node of height d is in order for the keys R it is responsible for, where
\* J says what its kids are responsible for.
NodeOrd(node, d, R, J) == IF d = 0 THEN LeafOrd(node, R) ELSE Sees(node, R, J)

\* Pages of one height share no key.
Apart(o, g) == \A p, q \in DOMAIN o, k \in Int : g[p] = g[q] /\ k \in o[p] /\ k \in o[q] => p = q

Owners(o, g, n) == o \in [1..n -> SUBSET Int] /\ (\A k \in Int : k \in o[1]) /\ Apart(o, g)

Owned(pgs, g, o) ==
    /\ Owners(o, g, Len(pgs))
    /\ \A q \in 1..Len(pgs) : NodeOrd(pgs[q], g[q], o[q], o)

\* Two owners of a key at one height are the same page.
LEMMA OneOwner ==
    ASSUME NEW n, NEW g, NEW o, Owners(o, g, n), NEW p \in 1..n, NEW q \in 1..n, g[p] = g[q],
           NEW k \in Int, k \in o[p], k \in o[q]
    PROVE  p = q
<1>1. DOMAIN o = 1..n
  BY DEF Owners
<1>2. QED
  BY <1>1 DEF Owners, Apart

\* A descent passes only owners of its key.
LEMMA PathOwned ==
    ASSUME NEW pgs, NEW g, TreeOK(pgs, g), NEW o, Owned(pgs, g, o), NEW k \in Int
    PROVE  \A i \in 1..Len(PathTo(pgs, k)) : PathTo(pgs, k)[i] \in 1..Len(pgs) /\ k \in o[PathTo(pgs, k)[i]]
<1> DEFINE s == PathTo(pgs, k)
           H == g[1]
           P == {i \in 0..H : k \in o[s[i + 1]]}
<1>1. IsPath(s, g, 1) /\ Routed(s, pgs, k)
  BY PathOK DEF Root
<1>2. DOMAIN g = 1..Len(pgs) /\ H \in Nat
  BY TreeParts
<1> HIDE DEF s
<1>3. /\ s \in Seq(1..Len(pgs)) /\ Len(s) = H + 1 /\ s[1] = 1
      /\ \A i \in 1..Len(s) : g[s[i]] = H - (i - 1)
  BY <1>1, <1>2 DEF IsPath
<1> HIDE DEF H
<1>4. \A i \in 1..(H + 1) : s[i] \in 1..Len(pgs) /\ g[s[i]] = H - (i - 1)
  <2>1. ASSUME NEW i \in 1..Len(s) PROVE s[i] \in 1..Len(pgs)
    <3> DEFINE D == 1..Len(pgs)
    <3>1. s \in Seq(D)
      BY <1>3
    <3> HIDE DEF D
    <3>2. s[i] \in D
      BY <3>1
    <3>3. QED
      BY <3>2 DEF D
  <2>2. 1..(H + 1) = 1..Len(s)
    BY <1>3
  <2>3. QED
    BY <1>3, <2>1, <2>2
<1>5. 0 \in P
  <2>1. k \in o[1]
    BY DEF Owned, Owners
  <2>2. QED
    BY <1>2, <1>3, <2>1
<1>6. ASSUME NEW i \in 0..(H - 1), i \in P PROVE i + 1 \in P
  <2>1. i + 1 \in 1..(H + 1) /\ i + 1 \in 0..H /\ i + 1 \in 1..(Len(s) - 1) /\ (i + 1) + 1 = i + 2
    BY <1>2, <1>3
  <2>2. s[i + 1] \in 1..Len(pgs) /\ g[s[i + 1]] # 0
    <3>1. s[i + 1] \in 1..Len(pgs) /\ g[s[i + 1]] = H - ((i + 1) - 1)
      BY <1>4, <2>1
    <3>2. QED
      BY <1>2, <3>1
  <2>3. s[(i + 1) + 1] = route_key(pgs[s[i + 1]], k)
    BY <1>1, <2>1 DEF Routed
  <2> DEFINE q == s[i + 1]
  <2>4. k \in o[q]
    BY <1>6
  <2> HIDE DEF q
  <2>5. q \in 1..Len(pgs) /\ g[q] # 0
    BY <2>2 DEF q
  <2>6. InternalOK(pgs[q], Below(g, g[q]))
    BY <2>5, KindOf
  <2>7. Sees(pgs[q], o[q], o)
    BY <2>5 DEF Owned, NodeOrd
  <2>8. k \in o[route_key(pgs[q], k)]
    BY <2>4, <2>6, <2>7, RouteSees
  <2>9. k \in o[s[(i + 1) + 1]]
    BY <2>3, <2>8 DEF q
  <2>10. QED
    BY <2>1, <2>9
<1>7. \A i \in 0..H : i \in P
  <2> HIDE DEF P
  <2>1. QED
    BY <1>2, <1>5, <1>6, BoundedInduction
<1>8. ASSUME NEW i \in 1..Len(s) PROVE s[i] \in 1..Len(pgs) /\ k \in o[s[i]]
  <2>1. i - 1 \in 0..H /\ (i - 1) + 1 = i /\ i \in 1..(H + 1)
    BY <1>2, <1>3
  <2>2. i - 1 \in P
    BY <1>7, <2>1
  <2>3. QED
    BY <1>4, <2>1, <2>2
<1>9. QED
  BY <1>8 DEF s

\* A descent ends at the owner of its key.
LEMMA LeafOwned ==
    ASSUME NEW pgs, NEW g, TreeOK(pgs, g), NEW o, Owned(pgs, g, o), NEW k \in Int
    PROVE  /\ LeafFor(pgs, k) \in 1..Len(pgs) /\ g[LeafFor(pgs, k)] = 0 /\ LeafOK(pgs[LeafFor(pgs, k)])
           /\ k \in o[LeafFor(pgs, k)] /\ LeafOrd(pgs[LeafFor(pgs, k)], o[LeafFor(pgs, k)])
<1> DEFINE s == PathTo(pgs, k)
           leaf == LeafFor(pgs, k)
<1>1. leaf \in 1..Len(pgs) /\ g[leaf] = 0 /\ LeafOK(pgs[leaf])
  BY LeafForOK
<1>2. IsPath(s, g, 1)
  BY PathOK DEF Root
<1>3. \A i \in 1..Len(s) : k \in o[s[i]]
  BY PathOwned
<1>4. leaf = s[Len(s)]
  BY DEF LeafFor, Last
<1> HIDE DEF s, leaf
<1>5. Len(s) \in 1..Len(s)
  <2>1. g[1] \in Nat
    BY TreeParts
  <2>2. Len(s) = g[1] + 1
    BY <1>2 DEF IsPath
  <2>3. QED
    BY <2>1, <2>2
<1>6. k \in o[leaf]
  BY <1>3, <1>4, <1>5
<1>7. LeafOrd(pgs[leaf], o[leaf])
  BY <1>1 DEF Owned, NodeOrd
<1>8. QED
  BY <1>1, <1>6, <1>7 DEF leaf

-----------------------------------------------------------------------------
(* The map of a tree, leaf by leaf. *)

LEMMA ContentsOf ==
    ASSUME NEW pgs, NEW g, TreeOK(pgs, g), NEW x
    PROVE  x \in Contents(pgs) <=> \E q \in 1..Len(pgs) : g[q] = 0 /\ x \in Pairs(pgs[q].records)
<1>1. DOMAIN pgs = 1..Len(pgs)
  BY TreeParts
<1>2. \A q \in 1..Len(pgs) : IsLeaf(pgs[q]) <=> g[q] = 0
  BY KindOf
<1>3. Contents(pgs) = UNION {Pairs(pgs[p].records) : p \in LeafIds(pgs)}
  BY DEF Contents, Pairs
<1>4. x \in Contents(pgs) <=> \E q \in LeafIds(pgs) : x \in Pairs(pgs[q].records)
  BY <1>3
<1>5. QED
  BY <1>1, <1>2, <1>4 DEF LeafIds

\* A page owns the keys it binds.
LEMMA PairOwned ==
    ASSUME NEW node, LeafOK(node), NEW R, LeafOrd(node, R), NEW x \in Pairs(node.records)
    PROVE  x[1] \in R /\ x[1] \in Int
<1>1. PICK rec \in ToSet(node.records) : ~rec.is_deleted /\ x = <<rec.row_id, rec.len>>
  BY PairsMember
<1>2. x[1] = rec.row_id
  BY <1>1
<1>3. rec \in Records
  <2>1. node.records \in Seq(Records)
    BY LeafParts
  <2>2. PICK i \in DOMAIN node.records : node.records[i] = rec
    BY DEF ToSet
  <2>3. QED
    BY <2>1, <2>2
<1>4. rec.row_id \in Keys
  BY <1>3 DEF Records
<1>5. rec.row_id \in R
  BY DEF LeafOrd
<1>6. rec.row_id \in Int
  BY <1>3, RowIdInt
<1>7. QED
  BY <1>2, <1>5, <1>6

\* The leaf that a descent for a key ends at is the only one that may bind it.
LEMMA OnlyLeaf ==
    ASSUME NEW pgs, NEW g, TreeOK(pgs, g), NEW o, Owned(pgs, g, o),
           NEW p \in 1..Len(pgs), g[p] = 0, NEW k \in Int, k \in o[p],
           NEW q \in 1..Len(pgs), g[q] = 0, NEW x \in Pairs(pgs[q].records), x[1] = k
    PROVE  q = p
<1>1. LeafOK(pgs[q])
  BY KindOf
<1>2. LeafOrd(pgs[q], o[q])
  BY DEF Owned, NodeOrd
<1>3. x[1] \in o[q]
  BY <1>1, <1>2, PairOwned
<1>4. Owners(o, g, Len(pgs))
  BY DEF Owned
<1>5. QED
  BY <1>3, <1>4, OneOwner

LEMMA BoundAtLeaf ==
    ASSUME NEW pgs, NEW g, TreeOK(pgs, g), NEW o, Owned(pgs, g, o),
           NEW p \in 1..Len(pgs), g[p] = 0, NEW k \in Int, k \in o[p]
    PROVE  Bound(Contents(pgs), k) <=> Bound(Pairs(pgs[p].records), k)
<1>1. ASSUME Bound(Contents(pgs), k) PROVE Bound(Pairs(pgs[p].records), k)
  <2>1. PICK x \in Contents(pgs) : x[1] = k
    BY <1>1 DEF Bound
  <2>2. PICK q \in 1..Len(pgs) : g[q] = 0 /\ x \in Pairs(pgs[q].records)
    BY <2>1, ContentsOf
  <2>3. q = p
    BY <2>1, <2>2, OnlyLeaf
  <2>4. QED
    BY <2>1, <2>2, <2>3 DEF Bound
<1>2. ASSUME Bound(Pairs(pgs[p].records), k) PROVE Bound(Contents(pgs), k)
  <2>1. PICK x \in Pairs(pgs[p].records) : x[1] = k
    BY <1>2 DEF Bound
  <2>2. x \in Contents(pgs)
    BY <2>1, ContentsOf
  <2>3. QED
    BY <2>1, <2>2 DEF Bound
<1>3. QED
  BY <1>1, <1>2

\* A leaf is replaced by one in order.
LEMMA ReplaceOrd ==
    ASSUME NEW pgs, NEW g, TreeOK(pgs, g), NEW o, Owned(pgs, g, o),
           NEW p \in 1..Len(pgs), g[p] = 0, NEW x, LeafOrd(x, o[p])
    PROVE  Owned([pgs EXCEPT ![p] = x], g, o)
<1> DEFINE t == [pgs EXCEPT ![p] = x]
<1>1. Len(t) = Len(pgs) /\ t[p] = x /\ \A q \in 1..Len(pgs) : q # p => t[q] = pgs[q]
  BY TreeParts
<1> HIDE DEF t
<1>2. ASSUME NEW q \in 1..Len(pgs) PROVE NodeOrd(t[q], g[q], o[q], o)
  <2>1. CASE q = p
    BY <1>1, <2>1 DEF NodeOrd
  <2>2. CASE q # p
    BY <1>1, <2>2 DEF Owned
  <2>3. QED
    BY <2>1, <2>2
<1>3. Owned(t, g, o)
  BY <1>1, <1>2 DEF Owned
<1>4. QED
  BY <1>3 DEF t

\* A map without a key.
Without(map, key) == {pair \in map : pair[1] # key}

\* new is old with the pairs of A.
Adds(new, old, A) == new = old \cup A

\* What that does to the map.
LEMMA ReplaceContents ==
    ASSUME NEW pgs, NEW g, TreeOK(pgs, g), NEW o, Owned(pgs, g, o),
           NEW p \in 1..Len(pgs), g[p] = 0, NEW x, TreeOK([pgs EXCEPT ![p] = x], g),
           NEW k \in Int, k \in o[p], NEW A
    PROVE  /\ Adds(Pairs(x.records), Pairs(pgs[p].records), A) =>
                Adds(Contents([pgs EXCEPT ![p] = x]), Contents(pgs), A)
           /\ Adds(Pairs(x.records), Without(Pairs(pgs[p].records), k), A) =>
                Adds(Contents([pgs EXCEPT ![p] = x]), Without(Contents(pgs), k), A)
<1> DEFINE t == [pgs EXCEPT ![p] = x]
           Elsewhere(y) == \E q \in 1..Len(pgs) : q # p /\ g[q] = 0 /\ y \in Pairs(pgs[q].records)
<1>1. Len(t) = Len(pgs) /\ t[p] = x /\ \A q \in 1..Len(pgs) : q # p => t[q] = pgs[q]
  BY TreeParts
<1>2. TreeOK(t, g)
  OBVIOUS
<1> HIDE DEF t
<1>3. \A y : y \in Contents(pgs) <=> y \in Pairs(pgs[p].records) \/ Elsewhere(y)
  BY ContentsOf
<1>4. \A y : y \in Contents(t) <=> y \in Pairs(x.records) \/ Elsewhere(y)
  <2>1. \A y : y \in Contents(t) <=> \E q \in 1..Len(t) : g[q] = 0 /\ y \in Pairs(t[q].records)
    BY <1>2, ContentsOf
  <2>2. QED
    BY <1>1, <2>1
<1>5. \A y : Elsewhere(y) => y[1] # k
  BY OnlyLeaf
<1> HIDE DEF Elsewhere
<1>6. ASSUME Adds(Pairs(x.records), Pairs(pgs[p].records), A) PROVE Adds(Contents(t), Contents(pgs), A)
  <2>1. ASSUME NEW y PROVE y \in Contents(t) <=> y \in Contents(pgs) \cup A
    BY <1>3, <1>4, <1>6 DEF Adds
  <2>2. QED
    BY <2>1 DEF Adds
<1>7. ASSUME Adds(Pairs(x.records), Without(Pairs(pgs[p].records), k), A)
      PROVE  Adds(Contents(t), Without(Contents(pgs), k), A)
  <2>1. ASSUME NEW y PROVE y \in Contents(t) <=> y \in Without(Contents(pgs), k) \cup A
    BY <1>3, <1>4, <1>5, <1>7 DEF Without, Adds
  <2>2. QED
    BY <2>1 DEF Adds
<1>8. QED
  BY <1>6, <1>7 DEF t

\* The same records on the same or other pages.
SameLeaves(t, f, pgs, g) ==
    /\ \A q \in 1..Len(pgs) : g[q] = 0 =>
         \E r \in 1..Len(t) : f[r] = 0 /\ t[r].records = pgs[q].records
    /\ \A r \in 1..Len(t) : f[r] = 0 =>
         \E q \in 1..Len(pgs) : g[q] = 0 /\ t[r].records = pgs[q].records

LEMMA SameContents ==
    ASSUME NEW pgs, NEW g, TreeOK(pgs, g), NEW t, NEW f, TreeOK(t, f),
           SameLeaves(t, f, pgs, g)
    PROVE  Contents(t) = Contents(pgs)
<1>1. ASSUME NEW y PROVE y \in Contents(t) <=> y \in Contents(pgs)
  <2>1. y \in Contents(pgs) <=> \E q \in 1..Len(pgs) : g[q] = 0 /\ y \in Pairs(pgs[q].records)
    BY ContentsOf
  <2>2. y \in Contents(t) <=> \E q \in 1..Len(t) : f[q] = 0 /\ y \in Pairs(t[q].records)
    BY ContentsOf
  <2>3. QED
    BY <2>1, <2>2 DEF SameLeaves
<1>2. QED
  BY <1>1

-----------------------------------------------------------------------------
(* A page was split and its parent does not know yet. *)

\* Page p keeps the keys under m; the new page n + 1 gets the others.
Cut(o, n, p, m) ==
    [q \in 1..(n + 1) |-> IF q = n + 1 THEN From(o[p], m) ELSE IF q = p THEN Under(o[p], m) ELSE o[q]]

\* The pages up to n that may be kids of a page of height d.
Kids(g, n, d) == {c \in 1..n : g[c] = d - 1}

\* Pages p and n + 1 share what o gives to p, both with a key of their own; for
\* all others it is as if p had not been split.  The key w is on its way.
Seam(pgs, g, n, o, p, m, w) ==
    /\ n \in Nat /\ Len(pgs) = n + 1 /\ Owners(o, g, n) /\ p \in 1..n /\ g[n + 1] = g[p]
    /\ m \in Keys /\ m \in o[p] /\ Under(o[p], m) # {} /\ w \in Int /\ w \in o[p]
    /\ \A q \in 1..(n + 1) : g[q] # 0 => InternalOK(pgs[q], Kids(g, n, g[q]))
    /\ \A q \in 1..n : q # p => NodeOrd(pgs[q], g[q], o[q], o)
    /\ NodeOrd(pgs[p], g[p], Under(o[p], m), o)
    /\ NodeOrd(pgs[n + 1], g[p], From(o[p], m), o)

LEMMA KeyInt == ASSUME NEW m \in Keys PROVE m \in Int
BY KeysAssumption

LEMMA CutIs ==
    ASSUME NEW n \in Nat, NEW o, NEW p \in 1..n, NEW m
    PROVE  /\ Cut(o, n, p, m)[n + 1] = From(o[p], m) /\ Cut(o, n, p, m)[p] = Under(o[p], m)
           /\ \A q \in 1..n : q # p => Cut(o, n, p, m)[q] = o[q]
           /\ DOMAIN Cut(o, n, p, m) = 1..(n + 1)
BY DEF Cut

LEMMA CutOwners ==
    ASSUME NEW n \in Nat, NEW g, NEW o, Owners(o, g, n), NEW p \in 1..n, p # 1, g[n + 1] = g[p],
           NEW m \in Int
    PROVE  Owners(Cut(o, n, p, m), g, n + 1)
<1> DEFINE x == Cut(o, n, p, m)
           old(q) == IF q = n + 1 THEN p ELSE q
<1>1. /\ x[n + 1] = From(o[p], m) /\ x[p] = Under(o[p], m)
      /\ \A q \in 1..n : q # p => x[q] = o[q]
      /\ DOMAIN x = 1..(n + 1)
  BY CutIs, SMTT(30)
<1>2. o \in [1..n -> SUBSET Int] /\ (\A k \in Int : k \in o[1]) /\ Apart(o, g) /\ DOMAIN o = 1..n
  BY DEF Owners
<1>3. \A k \in Int : /\ k \in x[n + 1] <=> k \in o[p] /\ m <= k
                     /\ k \in x[p] <=> k \in o[p] /\ k < m
  BY <1>1 DEF From, Under
<1>4. \A q \in 1..(n + 1) : x[q] \in SUBSET Int
  <2>1. o[p] \subseteq Int
    BY <1>2
  <2>2. x[n + 1] \subseteq Int /\ x[p] \subseteq Int
    BY <1>1, <2>1 DEF From, Under
  <2>3. QED
    BY <1>1, <1>2, <2>2
<1>5. x \in [1..(n + 1) -> SUBSET Int]
  <2>1. x = [q \in 1..(n + 1) |-> x[q]]
    BY DEF Cut
  <2> HIDE DEF x
  <2>2. QED
    BY <1>4, <2>1
<1>6. \A k \in Int : k \in x[1]
  BY <1>1, <1>2
<1> HIDE DEF x
<1>7. \A q \in 1..(n + 1), k \in Int : k \in x[q] => old(q) \in 1..n /\ k \in o[old(q)] /\ g[old(q)] = g[q]
  <2>1. ASSUME NEW q \in 1..(n + 1), NEW k \in Int, k \in x[q]
        PROVE  old(q) \in 1..n /\ k \in o[old(q)] /\ g[old(q)] = g[q]
    <3>1. CASE q = n + 1
      BY <1>3, <2>1, <3>1
    <3>2. CASE q = p
      BY <1>3, <2>1, <3>2
    <3>3. CASE q # n + 1 /\ q # p
      BY <1>1, <2>1, <3>3
    <3>4. QED
      BY <3>1, <3>2, <3>3
  <2>2. QED
    BY <2>1
<1>8. ASSUME NEW a \in 1..(n + 1), NEW b \in 1..(n + 1), NEW k \in Int,
             g[a] = g[b], k \in x[a], k \in x[b]
      PROVE  a = b
  <2>1. old(a) \in 1..n /\ old(b) \in 1..n /\ k \in o[old(a)] /\ k \in o[old(b)] /\ g[old(a)] = g[old(b)]
    BY <1>7, <1>8
  <2>2. old(a) = old(b)
    BY <2>1, OneOwner
  <2>3. ~(k \in x[n + 1] /\ k \in x[p])
    BY <1>3
  <2>4. CASE a = n + 1
    BY <1>8, <2>2, <2>3, <2>4
  <2>5. CASE b = n + 1
    BY <1>8, <2>2, <2>3, <2>5
  <2>6. CASE a # n + 1 /\ b # n + 1
    BY <2>2, <2>6
  <2>7. QED
    BY <2>4, <2>5, <2>6
<1>9. Apart(x, g)
  <2>1. DOMAIN x = 1..(n + 1)
    BY <1>1
  <2>2. QED
    BY <1>8, <2>1 DEF Apart
<1>10. QED
  BY <1>5, <1>6, <1>9 DEF Owners, x

LEMMA InternalWider ==
    ASSUME NEW S, NEW T, S \subseteq T, NEW node, InternalOK(node, S)
    PROVE  InternalOK(node, T)
<1>1. \A s \in Seq(S) : s \in Seq(T)
  OBVIOUS
<1>2. node \in InternalNodes(T)
  BY <1>1 DEF InternalOK, InternalNodes
<1>3. QED
  BY <1>2 DEF InternalOK

LEMMA KidNumber ==
    ASSUME NEW S, NEW node, InternalOK(node, S), NEW i \in 1..(Len(node.keys) + 1)
    PROVE  node.kids[i] \in S
<1>1. node.kids \in Seq(S) /\ Len(node.kids) = Len(node.keys) + 1
  BY InternalParts
<1>2. i \in 1..Len(node.kids)
  BY <1>1
<1>3. QED
  BY <1>1, <1>2, ElementOfSeq

\* The node without p among its kids does not notice.
LEMMA EntryOut ==
    ASSUME NEW g, NEW n \in Nat, NEW d, NEW node, InternalOK(node, Kids(g, n, d)),
           NEW R, NEW o, Sees(node, R, o), NEW p \in 1..n, NEW m \in Int, m \in o[p],
           m \notin R \/ g[p] # d - 1
    PROVE  Sees(node, R, Cut(o, n, p, m))
<1>1. ASSUME NEW i \in 1..(Len(node.keys) + 1) PROVE node.kids[i] \in 1..n /\ node.kids[i] # p
  <2>1. node.kids[i] \in Kids(g, n, d)
    BY KidNumber
  <2>2. CASE m \notin R
    <3>1. node.kids[i] # p
      BY <2>2, NotKid
    <3>2. QED
      BY <2>1, <3>1 DEF Kids
  <2>3. CASE g[p] # d - 1
    BY <2>1, <2>3 DEF Kids
  <2>4. QED
    BY <2>2, <2>3
<1> DEFINE x == Cut(o, n, p, m)
<1>2. \A q \in 1..n : q # p => x[q] = o[q]
  BY CutIs
<1> HIDE DEF x
<1>3. \A i \in 1..(Len(node.keys) + 1) : x[node.kids[i]] = o[node.kids[i]]
  BY <1>1, <1>2
<1>4. Sees(node, R, x)
  BY <1>3, SeesSame
<1>5. QED
  BY <1>4 DEF x

\* The node with m among its keys takes the entry.
LEMMA EntryIn ==
    ASSUME NEW g, NEW n \in Nat, NEW d, NEW node, InternalOK(node, Kids(g, n, d)),
           NEW R, NEW o, Owners(o, g, n), Sees(node, R, o), NEW p \in 1..n, g[p] = d - 1,
           NEW m \in Keys, m \in R, m \in o[p], Under(o[p], m) # {}
    PROVE  Sees(insert_entry(node, m, n + 1), R, Cut(o, n, p, m))
<1> DEFINE S == 1..(n + 1)
           x == Cut(o, n, p, m)
<1>1. m \in Int
  BY KeyInt
<1>2. /\ route_key(node, m) = node.kids[Partition(node.keys, m)] /\ m \in o[route_key(node, m)]
  BY <1>1, RouteSees
<1>3. route_key(node, m) \in Kids(g, n, d)
  BY RouteOK
<1>4. route_key(node, m) \in 1..n /\ g[route_key(node, m)] = d - 1
  BY <1>3 DEF Kids
<1>5. route_key(node, m) = p
  BY <1>1, <1>2, <1>4, OneOwner
<1>6. p = node.kids[Partition(node.keys, m)]
  BY <1>2, <1>5
<1>7. InternalOK(node, S)
  <2>1. Kids(g, n, d) \subseteq S
    BY DEF Kids
  <2>2. QED
    BY <2>1, InternalWider
<1>8. n + 1 \in S
  OBVIOUS
<1>9. PICK low : low \in Under(o[p], m)
  OBVIOUS
<1>10. low \in Int /\ low \in o[p] /\ low < m
  <2>1. o[p] \subseteq Int
    BY DEF Owners
  <2>2. QED
    BY <1>9, <2>1 DEF Under
<1>11. /\ x[n + 1] = From(o[p], m) /\ x[p] = Under(o[p], m)
       /\ \A q \in 1..n : q # p => x[q] = o[q]
  BY CutIs
<1>12. \A i \in 1..(Len(node.keys) + 1) : node.kids[i] \in 1..n
  BY KidNumber DEF Kids
<1> HIDE DEF x, S
<1>13. \A k \in Int : /\ k \in x[p] <=> k \in o[p] /\ k < m
                      /\ k \in x[n + 1] <=> k \in o[p] /\ m <= k
  BY <1>11 DEF Under, From
<1>14. \A i \in 1..(Len(node.keys) + 1) : node.kids[i] # p => x[node.kids[i]] = o[node.kids[i]]
  BY <1>11, <1>12
<1>15. Sees(insert_entry(node, m, n + 1), R, x)
  BY <1>6, <1>7, <1>8, <1>10, <1>13, <1>14, InsertEntrySees
<1>16. QED
  BY <1>15 DEF x

\* What the split of p means for the other pages once its parent knows.
LEMMA SeamOthers ==
    ASSUME NEW pgs, NEW g, TreeOK(pgs, g), NEW n, NEW o, NEW p, NEW m, NEW w, Seam(pgs, g, n, o, p, m, w),
           NEW parent \in 1..n, g[parent] = g[p] + 1, w \in o[parent]
    PROVE  /\ p # 1 /\ parent # p /\ m \in o[parent]
           /\ g[p] \in Nat /\ InternalOK(pgs[parent], Kids(g, n, g[p] + 1)) /\ Sees(pgs[parent], o[parent], o)
           /\ Owners(Cut(o, n, p, m), g, n + 1)
           /\ \A q \in 1..(n + 1) : q # parent =>
                NodeOrd(pgs[q], g[q], Cut(o, n, p, m)[q], Cut(o, n, p, m))
<1> DEFINE x == Cut(o, n, p, m)
           d == g[p]
<1>1. /\ n \in Nat /\ Owners(o, g, n) /\ p \in 1..n /\ g[n + 1] = d
      /\ m \in Keys /\ m \in o[p] /\ w \in Int /\ w \in o[p]
      /\ \A q \in 1..(n + 1) : g[q] # 0 => InternalOK(pgs[q], Kids(g, n, g[q]))
      /\ \A q \in 1..n : q # p => NodeOrd(pgs[q], g[q], o[q], o)
      /\ NodeOrd(pgs[p], d, Under(o[p], m), o)
      /\ NodeOrd(pgs[n + 1], d, From(o[p], m), o)
  BY DEF Seam
<1>2. /\ \A q \in 1..(n + 1) : g[q] \in Nat /\ g[q] <= g[1]
      /\ 1 \in 1..(n + 1)
  <2>1. Len(pgs) = n + 1
    BY DEF Seam
  <2>2. \A q \in 1..Len(pgs) : g[q] \in Nat /\ g[q] <= g[1]
    BY TreeParts
  <2>3. QED
    BY <1>1, <2>1, <2>2
<1>3. p \in 1..(n + 1) /\ parent \in 1..(n + 1) /\ n + 1 \in 1..(n + 1)
  BY <1>1
<1>4. d \in Nat /\ g[parent] <= g[1] /\ m \in Int
  BY <1>1, <1>2, <1>3, KeyInt
<1>5. p # 1 /\ parent # p
  BY <1>4
<1>6. InternalOK(pgs[parent], Kids(g, n, d + 1)) /\ Sees(pgs[parent], o[parent], o)
  <2>1. g[parent] # 0 /\ g[parent] = d + 1
    BY <1>4
  <2> HIDE DEF d
  <2>2. NodeOrd(pgs[parent], g[parent], o[parent], o)
    BY <1>1, <1>5
  <2>3. Sees(pgs[parent], o[parent], o)
    BY <2>1, <2>2 DEF NodeOrd
  <2>4. InternalOK(pgs[parent], Kids(g, n, g[parent]))
    BY <1>1, <1>3, <2>1
  <2>5. QED
    BY <2>1, <2>3, <2>4
<1>7. m \in o[parent]
  <2> DEFINE c == Partition(pgs[parent].keys, w)
             r == route_key(pgs[parent], w)
  <2>1. c \in 1..(Len(pgs[parent].keys) + 1) /\ r = pgs[parent].kids[c] /\ w \in o[r]
    BY <1>1, <1>6, RouteSees
  <2>2. r \in Kids(g, n, d + 1)
    BY <1>6, RouteOK
  <2> HIDE DEF c, r
  <2>3. r \in 1..n /\ g[r] = g[p]
    BY <1>4, <2>2 DEF Kids
  <2>4. r = p
    BY <1>1, <2>1, <2>3, OneOwner, SMTT(30)
  <2>5. m \in o[pgs[parent].kids[c]]
    BY <1>1, <2>1, <2>4
  <2>6. QED
    BY <1>4, <1>6, <2>1, <2>5 DEF Sees
<1>8. /\ x[n + 1] = From(o[p], m) /\ x[p] = Under(o[p], m)
      /\ \A q \in 1..n : q # p => x[q] = o[q]
  BY <1>1, CutIs
<1>9. Owners(x, g, n + 1)
  BY <1>1, <1>4, <1>5, CutOwners
<1>10. ASSUME NEW q \in 1..(n + 1), q # parent PROVE NodeOrd(pgs[q], g[q], x[q], x)
  <2> HIDE DEF x, d
  <2>1. NodeOrd(pgs[q], g[q], x[q], o)
    <3>1. CASE q = n + 1
      BY <1>1, <1>8, <3>1
    <3>2. CASE q = p
      BY <1>1, <1>8, <3>2 DEF d
    <3>3. CASE q # n + 1 /\ q # p
      <4>1. q \in 1..n
        BY <1>1, <3>3
      <4>2. QED
        BY <1>1, <1>8, <3>3, <4>1
    <3>4. QED
      BY <3>1, <3>2, <3>3
  <2>2. CASE g[q] = 0
    BY <2>1, <2>2 DEF NodeOrd
  <2>3. CASE g[q] # 0
    <3>1. Sees(pgs[q], x[q], o) /\ InternalOK(pgs[q], Kids(g, n, g[q]))
      BY <1>1, <2>1, <2>3 DEF NodeOrd
    <3>2. ASSUME g[p] = g[q] - 1 PROVE m \notin x[q]
      <4>1. g[q] = g[parent] /\ g[q] # d
        BY <1>2, <1>4, <3>2 DEF d
      <4>2. q # p /\ q # n + 1
        BY <1>1, <4>1 DEF d
      <4>3. q \in 1..n
        BY <1>1, <4>2
      <4>4. x[q] = o[q]
        BY <1>8, <4>2, <4>3
      <4>5. m \in o[q] => q = parent
        BY <1>1, <1>4, <1>7, <4>1, <4>3, OneOwner
      <4>6. QED
        BY <1>10, <4>4, <4>5
    <3>3. Sees(pgs[q], x[q], x)
      <4>1. m \notin x[q] \/ g[p] # g[q] - 1
        BY <3>2
      <4>2. QED
        BY <1>1, <1>4, <3>1, <4>1, EntryOut DEF x
    <3>4. QED
      BY <2>3, <3>3 DEF NodeOrd
  <2>4. QED
    BY <2>2, <2>3
<1>11. QED
  BY <1>4, <1>5, <1>6, <1>7, <1>9, <1>10

\* A parent with room closes the seam.
LEMMA SeamCloses ==
    ASSUME NEW pgs, NEW g, TreeOK(pgs, g), NEW n, NEW o, NEW p, NEW m, NEW w, Seam(pgs, g, n, o, p, m, w),
           NEW parent \in 1..n, g[parent] = g[p] + 1, w \in o[parent]
    PROVE  Owned([pgs EXCEPT ![parent] = insert_entry(pgs[parent], m, n + 1)], g, Cut(o, n, p, m))
<1> DEFINE x == Cut(o, n, p, m)
           node == insert_entry(pgs[parent], m, n + 1)
           t == [pgs EXCEPT ![parent] = node]
<1>1. /\ p # 1 /\ parent # p /\ m \in o[parent]
      /\ g[p] \in Nat /\ InternalOK(pgs[parent], Kids(g, n, g[p] + 1)) /\ Sees(pgs[parent], o[parent], o)
      /\ Owners(x, g, n + 1)
      /\ \A q \in 1..(n + 1) : q # parent => NodeOrd(pgs[q], g[q], x[q], x)
  BY SeamOthers
<1>2. /\ n \in Nat /\ Len(pgs) = n + 1 /\ Owners(o, g, n) /\ p \in 1..n
      /\ m \in Keys /\ m \in o[p] /\ Under(o[p], m) # {}
  BY DEF Seam
<1>3. g[p] = (g[p] + 1) - 1 /\ parent \in 1..(n + 1) /\ n + 1 \in Nat
  BY <1>1, <1>2
<1>4. Sees(node, o[parent], x)
  BY <1>1, <1>2, <1>3, EntryIn
<1>5. x[parent] = o[parent]
  BY <1>1, <1>2, CutIs, SMTT(30)
<1>6. Len(t) = Len(pgs) /\ t[parent] = node /\ \A q \in 1..(n + 1) : q # parent => t[q] = pgs[q]
  <2>1. DOMAIN pgs = 1..Len(pgs) /\ pgs \in Seq(Nodes)
    BY TreeParts
  <2> HIDE DEF node
  <2>2. DOMAIN pgs = 1..(n + 1)
    BY <1>2, <2>1
  <2>3. t[parent] = node /\ \A q \in 1..(n + 1) : q # parent => t[q] = pgs[q]
    BY <1>3, <2>2
  <2>4. Len(t) = Len(pgs)
    BY <2>1
  <2>5. QED
    BY <2>3, <2>4
<1> HIDE DEF x, node, t
<1>7. NodeOrd(node, g[parent], o[parent], x)
  BY <1>1, <1>4 DEF NodeOrd
<1>8. ASSUME NEW q \in 1..(n + 1) PROVE NodeOrd(t[q], g[q], x[q], x)
  <2>1. CASE q = parent
    BY <1>5, <1>6, <1>7, <2>1
  <2>2. CASE q # parent
    BY <1>1, <1>6, <2>2
  <2>3. QED
    BY <2>1, <2>2
<1>9. Owned(t, g, x)
  <2>1. Len(t) = n + 1
    BY <1>2, <1>6
  <2>2. QED
    BY <1>1, <1>8, <2>1 DEF Owned
<1>10. QED
  BY <1>9 DEF t, x, node

LEMMA HalvesOK ==
    ASSUME NEW S, NEW node, InternalOK(node, S), InternalFull(node), NEW key \in Keys, NEW child \in S
    PROVE  InternalOK(LeftHalf(node, key, child), S) /\ InternalOK(RightHalf(node, key, child), S)
<1> DEFINE l == split_entries(node).left
           r == split_entries(node).right
<1>1. /\ InternalOK(l, S) /\ InternalOK(r, S)
      /\ InternalBytes(Len(l.keys) + 1) <= PAGE_SIZE /\ InternalBytes(Len(r.keys) + 1) <= PAGE_SIZE
  BY SplitEntriesOK
<1>2. LeftHalf(node, key, child) \in {l, insert_entry(l, key, child)}
  BY DEF LeftHalf
<1>3. RightHalf(node, key, child) \in {r, insert_entry(r, key, child)}
  BY DEF RightHalf
<1> HIDE DEF l, r
<1>4. InternalOK(insert_entry(l, key, child), S) /\ InternalOK(insert_entry(r, key, child), S)
  BY <1>1, InsertEntryOK
<1>5. QED
  BY <1>1, <1>2, <1>3, <1>4

\* The halves of a full node with the entry in one of them.
LEMMA HalvesSee ==
    ASSUME NEW g, NEW n \in Nat, NEW d, NEW node, InternalOK(node, Kids(g, n, d)), InternalFull(node),
           NEW R, NEW o, Owners(o, g, n), Sees(node, R, o), NEW p \in 1..n, g[p] = d - 1,
           NEW m \in Keys, m \in R, m \in o[p], Under(o[p], m) # {}
    PROVE  /\ split_entries(node).promoted \in R /\ Under(R, split_entries(node).promoted) # {}
           /\ Sees(LeftHalf(node, m, n + 1), Under(R, split_entries(node).promoted), Cut(o, n, p, m))
           /\ Sees(RightHalf(node, m, n + 1), From(R, split_entries(node).promoted), Cut(o, n, p, m))
<1> DEFINE M == split_entries(node).promoted
           l == split_entries(node).left
           r == split_entries(node).right
           x == Cut(o, n, p, m)
<1>1. /\ InternalOK(l, Kids(g, n, d)) /\ InternalOK(r, Kids(g, n, d)) /\ M \in Keys
  BY SplitEntriesOK
<1>2. /\ M \in From(R, M) /\ Under(R, M) # {}
      /\ Sees(l, Under(R, M), o) /\ Sees(r, From(R, M), o)
  BY SplitEntriesSees
<1>3. LeftHalf(node, m, n + 1) = IF m < M THEN insert_entry(l, m, n + 1) ELSE l
  BY DEF LeftHalf
<1>4. RightHalf(node, m, n + 1) = IF m < M THEN r ELSE insert_entry(r, m, n + 1)
  BY DEF RightHalf
<1> HIDE DEF M, l, r, x
<1>5. M \in R /\ M \in Int /\ m \in Int
  BY <1>1, <1>2, KeyInt DEF From
<1>6. CASE m < M
  <2>1. m \in Under(R, M) /\ m \notin From(R, M)
    BY <1>5, <1>6 DEF Under, From
  <2>2. Sees(insert_entry(l, m, n + 1), Under(R, M), x)
    BY <1>1, <1>2, <2>1, EntryIn DEF x
  <2>3. Sees(r, From(R, M), x)
    BY <1>1, <1>2, <1>5, <2>1, EntryOut DEF x
  <2>4. QED
    BY <1>2, <1>3, <1>4, <1>5, <1>6, <2>2, <2>3 DEF M, x
<1>7. CASE ~(m < M)
  <2>1. m \in From(R, M) /\ m \notin Under(R, M)
    BY <1>5, <1>7 DEF Under, From
  <2>2. Sees(insert_entry(r, m, n + 1), From(R, M), x)
    BY <1>1, <1>2, <2>1, EntryIn DEF x
  <2>3. Sees(l, Under(R, M), x)
    BY <1>1, <1>2, <1>5, <2>1, EntryOut DEF x
  <2>4. QED
    BY <1>2, <1>3, <1>4, <1>5, <1>7, <2>2, <2>3 DEF M, x
<1>8. QED
  BY <1>6, <1>7

LEMMA SameOwners ==
    ASSUME NEW n, NEW o, NEW g, Owners(o, g, n), NEW f, \A q \in 1..n : f[q] = g[q]
    PROVE  Owners(o, f, n)
<1>1. DOMAIN o = 1..n
  BY DEF Owners
<1>2. QED
  BY <1>1 DEF Owners, Apart

\* A full parent hands the seam to the level above.
LEMMA SeamRises ==
    ASSUME NEW pgs, NEW g, TreeOK(pgs, g), NEW n, NEW o, NEW p, NEW m, NEW w, Seam(pgs, g, n, o, p, m, w),
           NEW parent \in 1..n, g[parent] = g[p] + 1, w \in o[parent], InternalFull(pgs[parent]),
           NEW f, \A q \in 1..(n + 1) : f[q] = g[q], f[n + 2] = g[parent]
    PROVE  Seam(HalvedPages(pgs, parent, m, n + 1), f, n + 1, Cut(o, n, p, m), parent,
                split_entries(pgs[parent]).promoted, w)
<1> DEFINE x == Cut(o, n, p, m)
           node == pgs[parent]
           M == split_entries(node).promoted
           l == LeftHalf(node, m, n + 1)
           r == RightHalf(node, m, n + 1)
           t == HalvedPages(pgs, parent, m, n + 1)
           d == g[p] + 1
<1>1. /\ p # 1 /\ parent # p /\ m \in o[parent]
      /\ g[p] \in Nat /\ InternalOK(node, Kids(g, n, d)) /\ Sees(node, o[parent], o)
      /\ Owners(x, g, n + 1)
      /\ \A q \in 1..(n + 1) : q # parent => NodeOrd(pgs[q], g[q], x[q], x)
  BY SeamOthers
<1>2. /\ n \in Nat /\ Len(pgs) = n + 1 /\ Owners(o, g, n) /\ p \in 1..n /\ g[n + 1] = g[p]
      /\ m \in Keys /\ m \in o[p] /\ Under(o[p], m) # {} /\ w \in Int /\ w \in o[p]
      /\ \A q \in 1..(n + 1) : g[q] # 0 => InternalOK(pgs[q], Kids(g, n, g[q]))
  BY DEF Seam
<1>3. /\ g[p] = d - 1 /\ parent \in 1..(n + 1) /\ n + 1 \in 1..(n + 1) /\ n + 1 \in Nat
      /\ (n + 1) + 1 = n + 2 /\ d # 0 /\ d = g[parent]
  BY <1>1, <1>2
<1>4. /\ t[parent] = l /\ t[n + 2] = r /\ Len(t) = (n + 1) + 1
      /\ \A q \in 1..(n + 1) : q # parent => t[q] = pgs[q]
  <2> DEFINE u == [pgs EXCEPT ![parent] = l]
  <2>1. DOMAIN pgs = 1..(n + 1)
    BY <1>2, TreeParts
  <2>2. pgs = [q \in 1..(n + 1) |-> pgs[q]]
    <3>1. pgs \in Seq(Nodes)
      BY TreeParts
    <3>2. QED
      BY <2>1, <3>1
  <2> HIDE DEF l, r
  <2>3. u = [q \in 1..(n + 1) |-> IF q = parent THEN l ELSE pgs[q]]
    BY <1>3, <2>2
  <2> DEFINE T == {l} \cup {pgs[q] : q \in 1..(n + 1)}
  <2>4. u \in Seq(T) /\ Len(u) = n + 1
    <3>1. u \in [1..(n + 1) -> T]
      BY <2>3
    <3> HIDE DEF u, T
    <3>2. QED
      BY <1>3, <3>1, FunctionIsSeq
  <2>5. t = Append(u, r)
    BY DEF HalvedPages, l, r
  <2>6. \A q \in 1..(n + 1) : u[q] = IF q = parent THEN l ELSE pgs[q]
    BY <2>3
  <2> HIDE DEF u, T, t
  <2>7. Append(u, r)[(n + 1) + 1] = r /\ Len(Append(u, r)) = (n + 1) + 1
        /\ \A q \in 1..(n + 1) : Append(u, r)[q] = u[q]
    BY <2>4
  <2>8. QED
    BY <1>3, <2>5, <2>6, <2>7
<1>5. /\ M \in o[parent] /\ Under(o[parent], M) # {}
      /\ Sees(l, Under(o[parent], M), x) /\ Sees(r, From(o[parent], M), x)
  BY <1>1, <1>2, <1>3, HalvesSee
<1>6. M \in Keys
  BY <1>1, SplitEntriesOK
<1>7. x[parent] = o[parent]
  BY <1>1, <1>2, CutIs
<1>8. Owners(x, f, n + 1)
  BY <1>1, SameOwners
<1>9. \A e : Kids(g, n, e) \subseteq Kids(f, n + 1, e)
  BY <1>2 DEF Kids
<1>10. InternalOK(l, Kids(f, n + 1, d)) /\ InternalOK(r, Kids(f, n + 1, d))
  <2>1. n + 1 \in Kids(f, n + 1, d)
    BY <1>2, <1>3 DEF Kids
  <2>2. InternalOK(node, Kids(f, n + 1, d))
    BY <1>1, <1>9, InternalWider
  <2>3. QED
    BY <1>2, <2>1, <2>2, HalvesOK
<1> HIDE DEF x, M, l, r, t, d, node
<1>11. ASSUME NEW q \in 1..((n + 1) + 1), f[q] # 0 PROVE InternalOK(t[q], Kids(f, n + 1, f[q]))
  <2>1. CASE q = n + 2
    BY <1>3, <1>4, <1>10, <2>1
  <2>2. CASE q = parent
    BY <1>3, <1>4, <1>10, <2>2
  <2>3. CASE q # n + 2 /\ q # parent
    <3>1. q \in 1..(n + 1)
      BY <1>2, <2>3
    <3>2. t[q] = pgs[q] /\ f[q] = g[q]
      BY <1>4, <2>3, <3>1
    <3>3. InternalOK(pgs[q], Kids(g, n, f[q]))
      BY <1>2, <1>11, <3>1, <3>2
    <3>4. QED
      BY <1>9, <3>2, <3>3, InternalWider
  <2>4. QED
    BY <2>1, <2>2, <2>3
<1>12. \A q \in 1..(n + 1) : q # parent => NodeOrd(t[q], f[q], x[q], x)
  BY <1>1, <1>4
<1>13. /\ NodeOrd(t[parent], f[parent], Under(x[parent], M), x)
       /\ NodeOrd(t[(n + 1) + 1], f[parent], From(x[parent], M), x)
  <2>1. f[parent] # 0
    BY <1>3
  <2>2. t[parent] = l /\ t[(n + 1) + 1] = r
    BY <1>3, <1>4
  <2>3. QED
    BY <1>5, <1>7, <2>1, <2>2 DEF NodeOrd
<1>14. f[(n + 1) + 1] = f[parent]
  BY <1>3
<1>15. Seam(t, f, n + 1, x, parent, M, w)
  BY <1>2, <1>3, <1>4, <1>5, <1>6, <1>7, <1>8, <1>11, <1>12, <1>13, <1>14 DEF Seam
<1>16. QED
  BY <1>15 DEF t, x, M, node

-----------------------------------------------------------------------------
(* The seam reaches the root. *)

LEMMA AppendIs ==
    ASSUME NEW n \in Nat, NEW u, u = [q \in 1..n |-> u[q]], NEW e
    PROVE  /\ Len(Append(u, e)) = n + 1 /\ Append(u, e)[n + 1] = e
           /\ \A q \in 1..n : Append(u, e)[q] = u[q]
<1> DEFINE T == {u[q] : q \in 1..n}
<1>1. u \in [1..n -> T]
  OBVIOUS
<1> HIDE DEF T
<1>2. u \in Seq(T) /\ Len(u) = n
  BY <1>1, FunctionIsSeq
<1>3. QED
  BY <1>2

LEMMA RelinkRecords ==
    ASSUME NEW x, LeafOK(x), NEW a, NEW b
    PROVE  /\ [x EXCEPT !.prev = a].records = x.records
           /\ [x EXCEPT !.next = b].records = x.records
           /\ [x EXCEPT !.prev = a, !.next = b].records = x.records
BY DEF LeafOK, LeafNodes

\* The root is on page n + 2 and the parent of that and of page n + 1.
RootMoved(t, pgs, g, n, m) ==
    /\ Len(t) = n + 2 /\ t[1] = Internal(<<m>>, <<n + 2, n + 1>>) /\ t[n + 2] = pgs[1]
    /\ \A q \in 2..n : t[q] = pgs[q]
    /\ g[1] # 0 => t[n + 1] = pgs[n + 1]
    /\ g[1] = 0 => t[n + 1].records = pgs[n + 1].records

LEMMA RootPages ==
    ASSUME NEW pgs, NEW g, TreeOK(pgs, g), NEW n \in Nat, Len(pgs) = n + 1, n # 0, g[n + 1] = g[1], NEW m
    PROVE  RootMoved(split_root(pgs, m, n + 1), pgs, g, n, m)
<1> DEFINE N == n + 1
           left == N + 1
           y == [pgs[N] EXCEPT !.prev = left]
           root == Internal(<<m>>, <<left, N>>)
           relinked == IF IsLeaf(pgs[1]) THEN [pgs EXCEPT ![N].prev = left] ELSE pgs
           u == [relinked EXCEPT ![1] = root]
           t == split_root(pgs, m, N)
<1>1. /\ DOMAIN pgs = 1..N /\ 1 \in 1..N /\ N \in 1..N /\ N \in Nat /\ N # 1 /\ left = n + 2
      /\ pgs \in Seq(Nodes)
  <2>1. DOMAIN pgs = 1..Len(pgs) /\ pgs \in Seq(Nodes)
    BY TreeParts
  <2>2. QED
    BY <2>1
<1>2. pgs = [q \in 1..N |-> pgs[q]]
  <2> HIDE DEF N
  <2>1. QED
    BY <1>1
<1>3. /\ IsLeaf(pgs[1]) <=> g[1] = 0
      /\ g[1] = 0 => LeafOK(pgs[N])
  BY <1>1, KindOf
<1>4. t = Append(u, pgs[1])
  BY DEF split_root, Root
<1> HIDE DEF N, left, root
<1>5. /\ relinked = [q \in 1..N |-> relinked[q]]
      /\ \A q \in 1..N : q # N => relinked[q] = pgs[q]
      /\ g[1] # 0 => relinked[N] = pgs[N]
      /\ g[1] = 0 => relinked[N] = y
  <2>1. CASE g[1] = 0
    <3>1. relinked = [pgs EXCEPT ![N] = y]
      BY <1>3, <2>1
    <3> HIDE DEF y, relinked
    <3>2. relinked = [q \in 1..N |-> IF q = N THEN y ELSE pgs[q]]
      BY <1>1, <1>2, <3>1
    <3>3. QED
      BY <1>1, <2>1, <3>2
  <2>2. CASE g[1] # 0
    <3>1. relinked = pgs
      BY <1>3, <2>2
    <3> HIDE DEF relinked
    <3>2. QED
      BY <1>1, <1>2, <2>2, <3>1
  <2>3. QED
    BY <2>1, <2>2
<1>6. g[1] = 0 => y.records = pgs[N].records
  BY <1>3, RelinkRecords
<1> HIDE DEF y, relinked
<1>7. u = [q \in 1..N |-> u[q]] /\ \A q \in 1..N : u[q] = IF q = 1 THEN root ELSE relinked[q]
  BY <1>1, <1>5
<1> HIDE DEF u
<1>8. Len(t) = N + 1 /\ t[N + 1] = pgs[1] /\ \A q \in 1..N : t[q] = u[q]
  <2> HIDE DEF t
  <2>1. QED
    BY <1>1, <1>4, <1>7, AppendIs
<1> HIDE DEF t
<1>9. t[1] = root /\ \A q \in 1..N : q # 1 => t[q] = relinked[q]
  BY <1>1, <1>7, <1>8
<1>10. \A q \in 2..n : q \in 1..N /\ q # 1 /\ q # N
  BY DEF N
<1>11. \A q \in 2..n : t[q] = pgs[q]
  BY <1>5, <1>9, <1>10
<1>12. Len(t) = n + 2 /\ t[n + 2] = pgs[1]
  BY <1>1, <1>8 DEF N
<1>13. t[1] = Internal(<<m>>, <<n + 2, n + 1>>)
  BY <1>1, <1>9 DEF root, N
<1>14. /\ g[1] # 0 => t[N] = pgs[N]
       /\ g[1] = 0 => t[N].records = pgs[N].records
  BY <1>1, <1>5, <1>6, <1>9
<1>15. QED
  BY <1>11, <1>12, <1>13, <1>14 DEF t, N, RootMoved

\* The owners once the root moved to page n + 2.
CutRoot(o, n, m) ==
    [q \in 1..(n + 2) |-> IF q = 1 THEN Int
                          ELSE IF q = n + 2 THEN Under(o[1], m)
                          ELSE IF q = n + 1 THEN From(o[1], m) ELSE o[q]]

LEMMA CutRootOwners ==
    ASSUME NEW n \in Nat \ {0}, NEW g, NEW o, Owners(o, g, n), NEW m \in Int,
           \A q \in 1..(n + 1) : g[q] \in Nat /\ g[q] <= g[1], g[n + 1] = g[1],
           NEW f, f[1] = g[1] + 1, f[n + 2] = g[1], \A q \in 2..(n + 1) : f[q] = g[q]
    PROVE  /\ Owners(CutRoot(o, n, m), f, n + 2)
           /\ \A k \in Int : k \in CutRoot(o, n, m)[n + 2] <=> k < m
           /\ \A k \in Int : k \in CutRoot(o, n, m)[n + 1] <=> m <= k
           /\ CutRoot(o, n, m)[n + 2] = Under(o[1], m) /\ CutRoot(o, n, m)[n + 1] = From(o[1], m)
           /\ CutRoot(o, n, m)[1] = Int /\ \A q \in 2..n : CutRoot(o, n, m)[q] = o[q]
<1> DEFINE x == CutRoot(o, n, m)
           old(q) == IF q = n + 1 \/ q = n + 2 THEN 1 ELSE q
<1>1. /\ x[1] = Int /\ x[n + 2] = Under(o[1], m) /\ x[n + 1] = From(o[1], m)
      /\ \A q \in 2..n : x[q] = o[q]
      /\ DOMAIN x = 1..(n + 2) /\ x = [q \in 1..(n + 2) |-> x[q]]
  BY DEF CutRoot
<1>2. o \in [1..n -> SUBSET Int] /\ (\A k \in Int : k \in o[1])
  BY DEF Owners
<1> HIDE DEF x
<1>3. /\ \A k \in Int : k \in x[n + 2] <=> k < m
      /\ \A k \in Int : k \in x[n + 1] <=> m <= k
  BY <1>1, <1>2 DEF Under, From
<1>4. \A q \in 1..(n + 2) : q = 1 \/ q = n + 1 \/ q = n + 2 \/ q \in 2..n
  OBVIOUS
<1>5. x \in [1..(n + 2) -> SUBSET Int]
  <2>1. o[1] \subseteq Int
    BY <1>2
  <2>2. x[n + 1] \subseteq Int /\ x[n + 2] \subseteq Int
    BY <1>1, <2>1 DEF Under, From
  <2>3. \A q \in 1..(n + 2) : x[q] \in SUBSET Int
    <3>1. ASSUME NEW q \in 2..n PROVE x[q] \in SUBSET Int
      <4>1. q \in 1..n
        OBVIOUS
      <4>2. x[q] = o[q]
        BY <1>1
      <4>3. QED
        BY <1>2, <4>1, <4>2
    <3>2. QED
      BY <1>1, <1>4, <2>2, <3>1
  <2>4. QED
    BY <1>1, <2>3
<1>6. ASSUME NEW q \in 1..(n + 2), q # 1, NEW k \in Int, k \in x[q]
      PROVE  old(q) \in 1..n /\ k \in o[old(q)] /\ g[old(q)] = f[q] /\ f[q] # f[1]
  <2>1. CASE q = n + 2
    BY <1>2, <2>1
  <2>2. CASE q = n + 1
    BY <1>2, <2>2
  <2>3. CASE q \in 2..n
    <3>1. q \in 1..(n + 1) /\ q \in 2..(n + 1) /\ q \in 1..n /\ q # n + 1 /\ q # n + 2 /\ 1 \in 1..(n + 1)
      BY <2>3
    <3>2. f[q] = g[q] /\ x[q] = o[q] /\ old(q) = q
      BY <1>1, <2>3, <3>1
    <3>3. g[q] \in Nat /\ g[q] <= g[1] /\ g[1] \in Nat
      BY <3>1
    <3>4. f[q] # f[1]
      BY <3>2, <3>3
    <3>5. QED
      BY <1>6, <3>1, <3>2, <3>4
  <2>4. QED
    BY <1>4, <1>6, <2>1, <2>2, <2>3
<1>7. ASSUME NEW a \in 1..(n + 2), NEW b \in 1..(n + 2), NEW k \in Int,
             f[a] = f[b], k \in x[a], k \in x[b]
      PROVE  a = b
  <2>1. CASE a = 1 \/ b = 1
    BY <1>6, <1>7, <2>1
  <2>2. CASE a # 1 /\ b # 1
    <3>1. old(a) \in 1..n /\ old(b) \in 1..n /\ k \in o[old(a)] /\ k \in o[old(b)] /\ g[old(a)] = g[old(b)]
      BY <1>6, <1>7, <2>2
    <3>2. old(a) = old(b)
      BY <3>1, OneOwner
    <3>3. ~(k \in x[n + 1] /\ k \in x[n + 2])
      BY <1>3
    <3>4. CASE old(a) # 1
      BY <3>2, <3>4
    <3>5. CASE old(a) = 1
      <4>1. a \in {n + 1, n + 2} /\ b \in {n + 1, n + 2}
        BY <2>2, <3>2, <3>5
      <4>2. QED
        BY <1>7, <3>3, <4>1
    <3>6. QED
      BY <3>4, <3>5
  <2>3. QED
    BY <2>1, <2>2
<1>8. Apart(x, f)
  <2>1. DOMAIN x = 1..(n + 2)
    BY <1>1
  <2>2. QED
    BY <1>7, <2>1 DEF Apart
<1>9. Owners(x, f, n + 2)
  BY <1>1, <1>5, <1>8 DEF Owners
<1>10. QED
  BY <1>1, <1>3, <1>9 DEF x

\* Root pinning closes the seam.
LEMMA SeamRoot ==
    ASSUME NEW pgs, NEW g, TreeOK(pgs, g), NEW n, NEW o, NEW p, NEW m, NEW w, Seam(pgs, g, n, o, p, m, w),
           g[p] = g[1]
    PROVE  /\ TreeOK(split_root(pgs, m, n + 1), Raise(g, n + 1))
           /\ Owned(split_root(pgs, m, n + 1), Raise(g, n + 1), CutRoot(o, n, m))
           /\ Contents(split_root(pgs, m, n + 1)) = Contents(pgs)
<1> DEFINE x == CutRoot(o, n, m)
           f == Raise(g, n + 1)
           t == split_root(pgs, m, n + 1)
           root == Internal(<<m>>, <<n + 2, n + 1>>)
<1>1. /\ n \in Nat /\ Len(pgs) = n + 1 /\ Owners(o, g, n) /\ p \in 1..n /\ g[n + 1] = g[p]
      /\ m \in Keys /\ m \in o[p] /\ w \in Int /\ w \in o[p]
      /\ \A q \in 1..(n + 1) : g[q] # 0 => InternalOK(pgs[q], Kids(g, n, g[q]))
      /\ \A q \in 1..n : q # p => NodeOrd(pgs[q], g[q], o[q], o)
      /\ NodeOrd(pgs[p], g[p], Under(o[p], m), o)
      /\ NodeOrd(pgs[n + 1], g[p], From(o[p], m), o)
  BY DEF Seam
<1>2. n \in Nat \ {0} /\ n # 0 /\ 1 \in 1..n /\ m \in Int /\ n + 1 \in 1..(n + 1) /\ n + 1 # 1 /\ (n + 1) + 1 = n + 2
  BY <1>1, KeyInt
<1>3. p = 1
  <2>1. w \in o[1]
    BY <1>1 DEF Owners
  <2>2. QED
    BY <1>1, <1>2, <2>1, OneOwner
<1>4. g[n + 1] = g[1] /\ \A q \in 1..(n + 1) : g[q] \in Nat /\ g[q] <= g[1]
  BY <1>1, <1>3, TreeParts
<1>5. TreeOK(t, f)
  <2>1. n + 1 \in 1..Len(pgs)
    BY <1>1, <1>2
  <2>2. TreeOK(split_root(pgs, m, n + 1), Raise(g, Len(pgs)))
    BY <1>1, <1>2, <1>4, <2>1, SplitRootOK
  <2>3. QED
    BY <1>1, <2>2
<1>6. f[1] = g[1] + 1 /\ f[n + 2] = g[1] /\ \A q \in 2..(n + 1) : f[q] = g[q]
  BY <1>2 DEF Raise
<1>7. /\ Len(t) = n + 2 /\ t[1] = root /\ t[n + 2] = pgs[1]
      /\ \A q \in 2..n : t[q] = pgs[q]
      /\ g[1] # 0 => t[n + 1] = pgs[n + 1]
      /\ g[1] = 0 => t[n + 1].records = pgs[n + 1].records
  <2>1. RootMoved(t, pgs, g, n, m)
    BY <1>1, <1>2, <1>4, RootPages
  <2> HIDE DEF t
  <2>2. QED
    BY <2>1 DEF RootMoved
<1>8. /\ Owners(x, f, n + 2)
      /\ \A k \in Int : k \in x[n + 2] <=> k < m
      /\ \A k \in Int : k \in x[n + 1] <=> m <= k
      /\ x[n + 2] = Under(o[1], m) /\ x[n + 1] = From(o[1], m)
      /\ x[1] = Int /\ \A q \in 2..n : x[q] = o[q]
  <2> HIDE DEF f
  <2>1. QED
    BY <1>1, <1>2, <1>4, <1>6, CutRootOwners
<1>9. root.keys = <<m>> /\ root.kids = <<n + 2, n + 1>>
  BY DEF Internal
<1> HIDE DEF x, f, t, root
<1>10. Sees(root, x[1], x)
  <2>1. /\ Len(root.keys) = 1 /\ root.keys[1] = m
        /\ root.kids[1] = n + 2 /\ root.kids[2] = n + 1
    BY <1>9
  <2>2. SortedKeys(root.keys) /\ \A i \in 1..Len(root.keys) : root.keys[i] \in x[1]
    BY <1>2, <1>8, <2>1 DEF SortedKeys
  <2>3. ASSUME NEW i \in 1..(Len(root.keys) + 1), NEW k \in Int
        PROVE  k \in x[root.kids[i]] <=> k \in x[1] /\ InSlot(root.keys, i, k)
    <3>1. CASE i = 1
      BY <1>8, <2>1, <3>1 DEF InSlot
    <3>2. CASE i = 2
      BY <1>8, <2>1, <3>2 DEF InSlot
    <3>3. i = 1 \/ i = 2
      BY <2>1
    <3>4. QED
      BY <3>1, <3>2, <3>3
  <2>4. QED
    BY <2>2, <2>3 DEF Sees
\* No page had the root among its kids.
<1>11. ASSUME NEW q \in 1..(n + 1), NEW R, NodeOrd(pgs[q], g[q], R, o)
       PROVE  NodeOrd(pgs[q], g[q], R, x)
  <2>1. CASE g[q] = 0
    BY <1>11, <2>1 DEF NodeOrd
  <2>2. CASE g[q] # 0
    <3>1. Sees(pgs[q], R, o) /\ InternalOK(pgs[q], Kids(g, n, g[q]))
      BY <1>1, <1>11, <2>2 DEF NodeOrd
    <3>2. ASSUME NEW i \in 1..(Len(pgs[q].keys) + 1) PROVE x[pgs[q].kids[i]] = o[pgs[q].kids[i]]
      <4> DEFINE c == pgs[q].kids[i]
      <4>1. c \in Kids(g, n, g[q])
        BY <3>1, KidNumber
      <4> HIDE DEF c
      <4>2. c \in 1..n /\ g[c] = g[q] - 1
        BY <4>1 DEF Kids
      <4>3. c # 1
        BY <1>4, <4>2
      <4>4. c \in 2..n
        BY <4>2, <4>3
      <4>5. QED
        BY <1>8, <4>4 DEF c
    <3>3. Sees(pgs[q], R, x)
      BY <3>1, <3>2, SeesSame
    <3>4. QED
      BY <2>2, <3>3 DEF NodeOrd
  <2>3. QED
    BY <2>1, <2>2
<1>12. \A q \in 1..(n + 2) : q = 1 \/ q = n + 1 \/ q = n + 2 \/ q \in 2..n
  BY <1>2
<1>13. ASSUME NEW q \in 1..(n + 2) PROVE NodeOrd(t[q], f[q], x[q], x)
  <2>1. CASE q = 1
    <3>1. f[1] # 0
      BY <1>2, <1>4, <1>6
    <3>2. QED
      BY <1>7, <1>10, <2>1, <3>1 DEF NodeOrd
  <2>2. CASE q = n + 2
    <3>1. NodeOrd(pgs[1], g[1], Under(o[1], m), o)
      BY <1>1, <1>3
    <3>2. NodeOrd(pgs[1], g[1], Under(o[1], m), x)
      BY <1>2, <1>11, <3>1
    <3>3. QED
      BY <1>6, <1>7, <1>8, <2>2, <3>2
  <2>3. CASE q = n + 1
    <3>1. NodeOrd(pgs[n + 1], g[n + 1], From(o[1], m), o)
      BY <1>1, <1>3
    <3>2. NodeOrd(pgs[n + 1], g[n + 1], From(o[1], m), x)
      BY <1>2, <1>11, <3>1
    <3>3. f[n + 1] = g[1]
      BY <1>2, <1>4, <1>6
    <3>4. NodeOrd(t[n + 1], f[n + 1], From(o[1], m), x)
      <4>1. CASE g[1] = 0
        BY <1>4, <1>7, <3>2, <3>3, <4>1 DEF NodeOrd, LeafOrd
      <4>2. CASE g[1] # 0
        BY <1>4, <1>7, <3>2, <3>3, <4>2
      <4>3. QED
        BY <4>1, <4>2
    <3>5. QED
      BY <1>8, <2>3, <3>4
  <2>4. CASE q \in 2..n
    <3>1. q \in 1..n /\ q \in 1..(n + 1) /\ q # p /\ q \in 2..(n + 1)
      BY <1>2, <1>3, <2>4
    <3>2. NodeOrd(pgs[q], g[q], o[q], o)
      BY <1>1, <3>1
    <3>3. NodeOrd(pgs[q], g[q], o[q], x)
      BY <1>11, <3>1, <3>2
    <3>4. QED
      BY <1>6, <1>7, <1>8, <2>4, <3>1, <3>3
  <2>5. QED
    BY <1>12, <2>1, <2>2, <2>3, <2>4
<1>14. Owned(t, f, x)
  BY <1>7, <1>8, <1>13 DEF Owned
<1>15. Contents(t) = Contents(pgs)
  <2>1. ASSUME NEW q \in 1..(n + 1), g[q] = 0
        PROVE  \E r \in 1..(n + 2) : f[r] = 0 /\ t[r].records = pgs[q].records
    <3>1. CASE q = 1
      <4>1. n + 2 \in 1..(n + 2)
        BY <1>2
      <4>2. QED
        BY <1>6, <1>7, <2>1, <3>1, <4>1
    <3>2. CASE q # 1
      <4>1. q \in 2..(n + 1) /\ q \in 1..(n + 2)
        BY <1>2, <3>2
      <4>2. f[q] = 0
        BY <1>6, <2>1, <4>1
      <4>3. t[q].records = pgs[q].records
        <5>1. CASE q = n + 1
          <6>1. g[1] = 0
            BY <1>4, <2>1, <5>1
          <6>2. QED
            BY <1>7, <5>1, <6>1
        <5>2. CASE q # n + 1
          <6>1. q \in 2..n
            BY <1>2, <4>1, <5>2
          <6>2. QED
            BY <1>7, <6>1
        <5>3. QED
          BY <5>1, <5>2
      <4>4. QED
        BY <4>1, <4>2, <4>3
    <3>3. QED
      BY <3>1, <3>2
  <2>2. ASSUME NEW r \in 1..(n + 2), f[r] = 0
        PROVE  \E q \in 1..(n + 1) : g[q] = 0 /\ t[r].records = pgs[q].records
    <3>1. r # 1
      BY <1>2, <1>4, <1>6, <2>2
    <3>2. CASE r = n + 2
      <4>1. 1 \in 1..(n + 1)
        BY <1>2
      <4>2. QED
        BY <1>6, <1>7, <2>2, <3>2, <4>1
    <3>3. CASE r = n + 1
      <4>1. r \in 2..(n + 1)
        BY <1>2, <3>3
      <4>2. g[n + 1] = 0
        BY <1>6, <2>2, <3>3, <4>1
      <4>3. QED
        BY <1>2, <1>4, <1>7, <3>3, <4>2
    <3>4. CASE r \in 2..n
      <4>1. r \in 2..(n + 1) /\ r \in 1..(n + 1)
        BY <1>2, <3>4
      <4>2. QED
        BY <1>6, <1>7, <2>2, <3>4, <4>1
    <3>5. QED
      BY <1>12, <3>1, <3>2, <3>3, <3>4
  <2>3. SameLeaves(t, f, pgs, g)
    BY <1>1, <1>7, <2>1, <2>2 DEF SameLeaves
  <2>4. QED
    BY <1>5, <2>3, SameContents
<1>16. QED
  BY <1>5, <1>14, <1>15 DEF t, f, x

-----------------------------------------------------------------------------
(* A leaf is split. *)

\* Page leaf has the records of l, page n + 1 those of r, and all others their own.
LinkedAs(t, pgs, h, n, leaf, l, r) ==
    /\ Len(t) = n + 1 /\ t[leaf].records = l.records /\ t[n + 1].records = r.records
    /\ \A q \in 1..n : q # leaf => /\ h[q] = 0 => t[q].records = pgs[q].records
                                   /\ h[q] # 0 => t[q] = pgs[q]

LEMMA LinkedIs ==
    ASSUME NEW pgs, NEW h, TreeOK(pgs, h), NEW leaf \in 1..Len(pgs), h[leaf] = 0,
           NEW l, LeafOK(l), NEW r, LeafOK(r)
    PROVE  LinkedAs(LinkedPages(pgs, leaf, l, r), pgs, h, Len(pgs), leaf, l, r)
<1> DEFINE N == Len(pgs)
           right == N + 1
           old_next == pgs[leaf].next
           relinked == IF old_next = None THEN pgs ELSE [pgs EXCEPT ![old_next].prev = right]
           a == [l EXCEPT !.next = right]
           b == [r EXCEPT !.prev = leaf, !.next = old_next]
           u == [relinked EXCEPT ![leaf] = a]
           t == LinkedPages(pgs, leaf, l, r)
<1>1. N \in Nat /\ DOMAIN pgs = 1..N /\ pgs \in Seq(Nodes) /\ DOMAIN h = 1..N
  BY TreeParts
<1>2. pgs = [q \in 1..N |-> pgs[q]]
  <2> HIDE DEF N
  <2>1. QED
    BY <1>1
<1>3. old_next \in {None} \cup 1..N
  <2>1. NodeOK(pgs[leaf], h, 0)
    BY TreeNode
  <2>2. QED
    BY <1>1, <2>1 DEF NodeOK, None
<1>4. \A q \in 1..N : /\ h[q] = 0 => LeafOK(pgs[q])
                      /\ h[q] # 0 => InternalOK(pgs[q], Below(h, h[q]))
  BY KindOf
<1>5. t = Append(u, b)
  BY DEF LinkedPages
<1>6. a.records = l.records /\ b.records = r.records
  BY RelinkRecords
<1>7. leaf \in 1..N
  OBVIOUS
<1> HIDE DEF N, right, old_next, a, b
<1>8. ASSUME NEW q \in 1..N
      PROVE  /\ h[q] = 0 => [pgs[q] EXCEPT !.prev = right].records = pgs[q].records
             /\ h[q] # 0 => [pgs[q] EXCEPT !.prev = right] = pgs[q]
  <2>1. ASSUME h[q] = 0 PROVE [pgs[q] EXCEPT !.prev = right].records = pgs[q].records
    BY <1>4, <2>1, RelinkRecords
  <2>2. ASSUME h[q] # 0 PROVE [pgs[q] EXCEPT !.prev = right] = pgs[q]
    <3>1. pgs[q] \in InternalNodes(Below(h, h[q]))
      BY <1>4, <2>2 DEF InternalOK
    <3>2. QED
      BY <3>1 DEF InternalNodes
  <2>3. QED
    BY <2>1, <2>2
<1>9. /\ relinked = [q \in 1..N |-> relinked[q]]
      /\ \A q \in 1..N : /\ h[q] = 0 => relinked[q].records = pgs[q].records
                         /\ h[q] # 0 => relinked[q] = pgs[q]
  <2>1. CASE old_next = None
    <3>1. relinked = pgs
      BY <2>1
    <3> HIDE DEF relinked
    <3>2. QED
      BY <1>2, <3>1
  <2>2. CASE old_next # None
    <3> DEFINE y == [pgs[old_next] EXCEPT !.prev = right]
    <3>1. old_next \in 1..N
      BY <1>3, <2>2
    <3>2. relinked = [pgs EXCEPT ![old_next] = y]
      BY <2>2
    <3>3. /\ h[old_next] = 0 => y.records = pgs[old_next].records
          /\ h[old_next] # 0 => y = pgs[old_next]
      BY <1>8, <3>1
    <3> HIDE DEF y, relinked
    <3>4. relinked = [q \in 1..N |-> IF q = old_next THEN y ELSE pgs[q]]
      BY <1>1, <1>2, <3>1, <3>2
    <3>5. QED
      BY <3>3, <3>4
  <2>3. QED
    BY <2>1, <2>2
<1> HIDE DEF relinked
<1>10. u = [q \in 1..N |-> u[q]] /\ \A q \in 1..N : u[q] = IF q = leaf THEN a ELSE relinked[q]
  BY <1>7, <1>9
<1> HIDE DEF u
<1>11. Len(t) = N + 1 /\ t[N + 1] = b /\ \A q \in 1..N : t[q] = u[q]
  <2> HIDE DEF t
  <2>1. QED
    BY <1>1, <1>5, <1>10, AppendIs
<1> HIDE DEF t
<1>12. LinkedAs(t, pgs, h, N, leaf, l, r)
  BY <1>6, <1>7, <1>9, <1>10, <1>11 DEF LinkedAs
<1>13. QED
  BY <1>12 DEF t, N

LEMMA LeafSeam ==
    ASSUME NEW pgs, NEW h, TreeOK(pgs, h), NEW o, Owned(pgs, h, o),
           NEW n, n = Len(pgs), NEW leaf \in 1..n, h[leaf] = 0,
           NEW m \in Keys, m \in o[leaf], Under(o[leaf], m) # {}, NEW w \in Int, w \in o[leaf],
           NEW l, LeafOrd(l, Under(o[leaf], m)), NEW r, LeafOrd(r, From(o[leaf], m)),
           NEW t, LinkedAs(t, pgs, h, n, leaf, l, r),
           NEW g, \A q \in 1..n : g[q] = h[q], g[n + 1] = 0
    PROVE  Seam(t, g, n, o, leaf, m, w)
<1>1. n \in Nat /\ DOMAIN h = 1..n
  BY TreeParts
<1>2. Owners(o, h, n) /\ \A q \in 1..n : NodeOrd(pgs[q], h[q], o[q], o)
  BY DEF Owned
<1>3. Owners(o, g, n)
  BY <1>2, SameOwners
<1>4. /\ Len(t) = n + 1 /\ t[leaf].records = l.records /\ t[n + 1].records = r.records
      /\ \A q \in 1..n : q # leaf => /\ h[q] = 0 => t[q].records = pgs[q].records
                                     /\ h[q] # 0 => t[q] = pgs[q]
  BY DEF LinkedAs
<1>5. ASSUME NEW q \in 1..(n + 1), g[q] # 0 PROVE InternalOK(t[q], Kids(g, n, g[q]))
  <2>1. q \in 1..n /\ q # leaf
    BY <1>1, <1>5
  <2>2. t[q] = pgs[q] /\ g[q] = h[q]
    BY <1>4, <1>5, <2>1
  <2>3. InternalOK(pgs[q], Below(h, h[q]))
    BY <1>5, <2>1, <2>2, KindOf
  <2>4. Below(h, h[q]) \subseteq Kids(g, n, g[q])
    BY <1>1, <2>2 DEF Below, Kids
  <2>5. QED
    BY <2>2, <2>3, <2>4, InternalWider
<1>6. ASSUME NEW q \in 1..n, q # leaf PROVE NodeOrd(t[q], g[q], o[q], o)
  <2>1. NodeOrd(pgs[q], h[q], o[q], o)
    BY <1>2
  <2>2. CASE h[q] = 0
    <3>1. t[q].records = pgs[q].records
      BY <1>4, <1>6, <2>2
    <3>2. LeafOrd(t[q], o[q])
      BY <2>1, <2>2, <3>1 DEF NodeOrd, LeafOrd
    <3>3. QED
      BY <2>2, <3>2 DEF NodeOrd
  <2>3. CASE h[q] # 0
    BY <1>4, <1>6, <2>1, <2>3
  <2>4. QED
    BY <2>2, <2>3
<1>7. NodeOrd(t[leaf], g[leaf], Under(o[leaf], m), o) /\ NodeOrd(t[n + 1], g[leaf], From(o[leaf], m), o)
  <2>1. LeafOrd(t[leaf], Under(o[leaf], m)) /\ LeafOrd(t[n + 1], From(o[leaf], m))
    BY <1>4 DEF LeafOrd
  <2>2. QED
    BY <2>1 DEF NodeOrd
<1>8. QED
  BY <1>1, <1>3, <1>4, <1>5, <1>6, <1>7 DEF Seam

\* What that does to the map.
LEMMA LinkedContents ==
    ASSUME NEW pgs, NEW h, TreeOK(pgs, h), NEW n, n = Len(pgs), NEW leaf \in 1..n, h[leaf] = 0,
           NEW l, NEW r, NEW t, LinkedAs(t, pgs, h, n, leaf, l, r),
           NEW g, TreeOK(t, g), \A q \in 1..n : g[q] = h[q], g[n + 1] = 0,
           NEW A, Pairs(l.records) \cup Pairs(r.records) = Pairs(pgs[leaf].records) \cup A
    PROVE  Contents(t) = Contents(pgs) \cup A
<1> DEFINE Elsewhere(y) == \E q \in 1..n : q # leaf /\ h[q] = 0 /\ y \in Pairs(pgs[q].records)
<1>1. n \in Nat
  BY TreeParts
<1>2. /\ Len(t) = n + 1 /\ t[leaf].records = l.records /\ t[n + 1].records = r.records
      /\ \A q \in 1..n : q # leaf /\ h[q] = 0 => t[q].records = pgs[q].records
  BY DEF LinkedAs
<1>3. \A y : y \in Contents(pgs) <=> y \in Pairs(pgs[leaf].records) \/ Elsewhere(y)
  BY ContentsOf
<1>4. ASSUME NEW y PROVE y \in Contents(t) <=> y \in Pairs(l.records) \/ y \in Pairs(r.records) \/ Elsewhere(y)
  <2>1. y \in Contents(t) <=> \E q \in 1..Len(t) : g[q] = 0 /\ y \in Pairs(t[q].records)
    BY ContentsOf
  <2>2. \A q : q \in 1..(n + 1) <=> q = n + 1 \/ q = leaf \/ (q \in 1..n /\ q # leaf)
    BY <1>1
  <2>3. ASSUME NEW q \in 1..n, q # leaf
        PROVE  g[q] = 0 /\ y \in Pairs(t[q].records) <=> h[q] = 0 /\ y \in Pairs(pgs[q].records)
    BY <1>2, <2>3
  <2>4. y \in Contents(t) <=> \E q \in 1..(n + 1) : g[q] = 0 /\ y \in Pairs(t[q].records)
    BY <1>2, <2>1
  <2>5. g[leaf] = 0
    OBVIOUS
  <2>6. QED
    BY <1>2, <2>2, <2>3, <2>4, <2>5, SMTT(30)
<1> HIDE DEF Elsewhere
<1>5. ASSUME NEW y PROVE y \in Contents(t) <=> y \in Contents(pgs) \cup A
  BY <1>3, <1>4
<1>6. QED
  BY <1>5

-----------------------------------------------------------------------------
(* Insertion into a leaf, and the way up. *)

\* The pages of h above height d that owned w still own it.
Keeps(x, n, h, o, d, w) == \A q \in DOMAIN h : q \in 1..n /\ (h[q] > d /\ w \in o[q] => w \in x[q])

\* A step of the insertion of w into a tree with heights h and owners o that has
\* reached height d: the map is C, and the tree is in order but for a seam at
\* height d if a split is still to be told.
Climb(st, C, h, o, d, w) ==
    /\ st \in States /\ st.res = "Ok" /\ Contents(st.pages) = C
    /\ \E g : /\ TreeOK(st.pages, g) /\ Extends(g, h)
              /\ \/ st.split = <<>> /\ \E x : Owned(st.pages, g, x)
                 \/ \E n, x, p, m : /\ st.split = <<m, n + 1>> /\ Seam(st.pages, g, n, x, p, m, w)
                                    /\ g[p] = d /\ Keeps(x, n, h, o, d, w)

LEMMA ClimbDone ==
    ASSUME NEW t, NEW g, TreeOK(t, g), NEW h, Extends(g, h), NEW x, Owned(t, g, x), NEW o, NEW d, NEW w
    PROVE  Climb(Done(t), Contents(t), h, o, d, w)
<1>1. Done(t) \in States
  BY DoneRises DEF Rising
<1>2. Done(t).res = "Ok" /\ Done(t).pages = t /\ Done(t).split = <<>>
  BY DEF Done
<1>3. QED
  BY <1>1, <1>2 DEF Climb

LEMMA ClimbSplit ==
    ASSUME NEW t, NEW g, TreeOK(t, g), NEW h, Extends(g, h), NEW n, NEW x, NEW p, NEW m, NEW w,
           Seam(t, g, n, x, p, m, w), NEW o, NEW d, g[p] = d, Keeps(x, n, h, o, d, w)
    PROVE  Climb(SplitStep(t, m, n + 1), Contents(t), h, o, d, w)
<1> DEFINE st == SplitStep(t, m, n + 1)
<1>1. st.res = "Ok" /\ st.pages = t /\ st.split = <<m, n + 1>>
  BY DEF SplitStep
<1>2. st \in States
  <2>1. m \in Nat /\ n + 1 \in Nat
    <3>1. m \in Keys /\ n \in Nat
      BY DEF Seam
    <3>2. QED
      BY <3>1, KeysAssumption
  <2>2. t \in Seq(Nodes)
    BY TreeParts
  <2>3. <<m, n + 1>> \in Seq(Nat)
    BY <2>1
  <2>4. QED
    BY <2>2, <2>3 DEF SplitStep, States, Results
<1> HIDE DEF st
<1>3. Climb(st, Contents(t), h, o, d, w)
  BY <1>1, <1>2 DEF Climb
<1>4. QED
  BY <1>3 DEF st

\* split_leaf on a leaf with two records or more once it is compacted.
LEMMA SplitLeafOrd ==
    ASSUME NEW pgs, NEW h, TreeOK(pgs, h), NEW o, Owned(pgs, h, o),
           NEW leaf \in 1..Len(pgs), h[leaf] = 0,
           NEW row_id \in Keys, row_id \in o[leaf], NEW len \in Payloads, len <= MAX_VALUE_SIZE,
           ~Bound(Pairs(pgs[leaf].records), row_id),
           compact(pgs[leaf]).records # <<>>, Len(compact(pgs[leaf]).records) > 1
    PROVE  /\ split_leaf(pgs, leaf, row_id, len).res = "Ok" =>
                Climb(split_leaf(pgs, leaf, row_id, len), Contents(pgs) \cup {<<row_id, len>>}, h, o, 0, row_id)
           /\ split_leaf(pgs, leaf, row_id, len).res # "Ok" =>
                /\ split_leaf(pgs, leaf, row_id, len).split = <<>>
                /\ split_leaf(pgs, leaf, row_id, len).res # "DuplicateKey"
<1> DEFINE N == Len(pgs)
           R == o[leaf]
           c == compact(pgs[leaf])
           halves == split(c)
           m == halves.right.records[1].row_id
           half == IF row_id < m THEN halves.left ELSE halves.right
           put == insert_record(half, row_id, len)
           st == split_leaf(pgs, leaf, row_id, len)
           pair == <<row_id, len>>
           C == Contents(pgs) \cup {pair}
<1>1. LeafOK(pgs[leaf]) /\ LeafOrd(pgs[leaf], R)
  <2>1. LeafOK(pgs[leaf])
    BY KindOf
  <2>2. QED
    BY <2>1 DEF Owned, NodeOrd
<1>2. LeafOK(c) /\ SameLinks(c, pgs[leaf]) /\ AllLive(c.records)
  BY <1>1, LeafParts, CompactOK
<1>3. LeafOrd(c, R) /\ Pairs(c.records) = Pairs(pgs[leaf].records)
  BY <1>1, LeafParts, CompactOrd
<1>4. /\ LeafOK(halves.left) /\ SameLinks(halves.left, c) /\ LeafOK(halves.right)
      /\ m \in Keys
  <2> HIDE DEF c
  <2>1. c.records # <<>>
    BY DEF c
  <2>2. QED
    BY <1>2, <2>1, SplitOK
<1>5. /\ m \in From(R, m) /\ Under(R, m) # {}
      /\ LeafOrd(halves.left, Under(R, m)) /\ LeafOrd(halves.right, From(R, m))
      /\ Pairs(halves.left.records) \cup Pairs(halves.right.records) = Pairs(c.records)
  <2> HIDE DEF c, R
  <2>1. c.records # <<>> /\ Len(c.records) > 1
    BY DEF c
  <2>2. QED
    BY <1>2, <1>3, <2>1, SplitOrd
<1>6. SameLinks(halves.left, pgs[leaf])
  BY <1>2, <1>4 DEF SameLinks
<1>7. st = IF put.res # "Ok" THEN Failed(put.res, pgs)
           ELSE IF row_id < m
                THEN SplitStep(LinkedPages(pgs, leaf, put.leaf, halves.right), m, N + 1)
                ELSE SplitStep(LinkedPages(pgs, leaf, halves.left, put.leaf), m, N + 1)
  BY DEF split_leaf, SplitStep, LinkedPages
<1> HIDE DEF c, halves, m, st, C, pair, R
<1>8. m \in Int /\ row_id \in Int /\ m \in R
  BY <1>4, <1>5, KeyInt DEF From
\* The pages with two halves in order.
<1>9. ASSUME NEW l, LeafOK(l), SameLinks(l, pgs[leaf]), LeafOrd(l, Under(R, m)),
             NEW r, LeafOK(r), LeafOrd(r, From(R, m)),
             Pairs(l.records) \cup Pairs(r.records) = Pairs(pgs[leaf].records) \cup {pair}
      PROVE  Climb(SplitStep(LinkedPages(pgs, leaf, l, r), m, N + 1), C, h, o, 0, row_id)
  <2> DEFINE t == LinkedPages(pgs, leaf, l, r)
             g == Grow(h, N, 0)
  <2>1. TreeOK(t, g)
    BY <1>9, LinkedOK
  <2>2. N \in Nat \ {0} /\ Heights(h, N) /\ h[1] \in Nat /\ 0 <= h[1] /\ DOMAIN h = 1..N
    BY TreeParts DEF TreeOK
  <2>3. LinkedAs(t, pgs, h, N, leaf, l, r)
    BY <1>9, LinkedIs
  <2>4. N = Len(pgs) /\ leaf \in 1..N
    OBVIOUS
  <2> HIDE DEF N, t
  <2>5. /\ Extends(g, h) /\ g[N + 1] = 0 /\ \A q \in 1..N : g[q] = h[q]
    BY <2>2, GrowExtends
  <2> HIDE DEF g
  <2>6. Seam(t, g, N, o, leaf, m, row_id)
    BY <1>4, <1>5, <1>8, <1>9, <2>3, <2>4, <2>5, LeafSeam DEF R
  <2>7. Contents(t) = C
    <3> DEFINE A == {pair}
    <3>1. Pairs(l.records) \cup Pairs(r.records) = Pairs(pgs[leaf].records) \cup A
      BY <1>9
    <3> HIDE DEF A
    <3>2. Contents(t) = Contents(pgs) \cup A
      BY <2>1, <2>3, <2>4, <2>5, <3>1, LinkedContents
    <3>3. QED
      BY <3>2 DEF A, C
  <2>8. Keeps(o, N, h, o, 0, row_id)
    BY <2>2 DEF Keeps
  <2>9. g[leaf] = 0
    BY <2>4, <2>5
  <2>10. Climb(SplitStep(t, m, N + 1), Contents(t), h, o, 0, row_id)
    BY <2>1, <2>5, <2>6, <2>8, <2>9, ClimbSplit
  <2>11. QED
    BY <2>7, <2>10 DEF t
<1>10. Pairs(halves.left.records) \cup Pairs(halves.right.records) = Pairs(pgs[leaf].records)
  BY <1>3, <1>5
<1>11. ~Bound(Pairs(half.records), row_id)
  BY <1>10 DEF Bound
<1>12. CASE row_id < m
  <2>1. row_id \in Under(R, m) /\ half = halves.left
    BY <1>8, <1>12 DEF Under, R
  <2> HIDE DEF half
  <2>2. /\ put.res = "Ok" => /\ LeafOK(put.leaf) /\ SameLinks(put.leaf, half)
                             /\ LeafOrd(put.leaf, Under(R, m))
                             /\ Pairs(put.leaf.records) = Pairs(half.records) \cup {pair}
        /\ put.res # "DuplicateKey"
    <3>1. LeafOK(half) /\ LeafOrd(half, Under(R, m))
      BY <1>4, <1>5, <2>1
    <3>2. put.res = "Ok" => LeafOK(put.leaf) /\ SameLinks(put.leaf, half)
      BY <3>1, InsertRecordOK
    <3>3. /\ put.res = "Ok" => /\ LeafOrd(put.leaf, Under(R, m))
                               /\ Pairs(put.leaf.records) = Pairs(half.records) \cup {<<row_id, len>>}
          /\ put.res = "DuplicateKey" <=> Bound(Pairs(half.records), row_id)
      BY <2>1, <3>1, InsertRecordOrd
    <3>4. QED
      BY <1>11, <3>2, <3>3 DEF pair
  <2> HIDE DEF put
  <2>3. CASE put.res = "Ok"
    <3>1. st = SplitStep(LinkedPages(pgs, leaf, put.leaf, halves.right), m, N + 1)
      BY <1>7, <1>12, <2>3
    <3>2. SameLinks(put.leaf, pgs[leaf])
      BY <1>6, <2>1, <2>2, <2>3 DEF SameLinks
    <3>3. Pairs(put.leaf.records) \cup Pairs(halves.right.records) = Pairs(pgs[leaf].records) \cup {pair}
      BY <1>10, <2>1, <2>2, <2>3
    <3>4. Climb(st, C, h, o, 0, row_id)
      BY <1>4, <1>5, <1>9, <2>2, <2>3, <3>1, <3>2, <3>3
    <3>5. st.res = "Ok"
      BY <3>1 DEF SplitStep
    <3>6. QED
      BY <3>4, <3>5 DEF st, C, pair
  <2>4. CASE put.res # "Ok"
    <3>1. st = Failed(put.res, pgs)
      BY <1>7, <2>4
    <3>2. st.res # "Ok" /\ st.res # "DuplicateKey" /\ st.split = <<>>
      BY <2>2, <2>4, <3>1 DEF Failed
    <3>3. QED
      BY <3>2 DEF st
  <2>5. QED
    BY <2>3, <2>4
<1>13. CASE ~(row_id < m)
  <2>1. row_id \in From(R, m) /\ half = halves.right
    BY <1>8, <1>13 DEF From, R
  <2> HIDE DEF half
  <2>2. /\ put.res = "Ok" => /\ LeafOK(put.leaf)
                             /\ LeafOrd(put.leaf, From(R, m))
                             /\ Pairs(put.leaf.records) = Pairs(half.records) \cup {pair}
        /\ put.res # "DuplicateKey"
    <3>1. LeafOK(half) /\ LeafOrd(half, From(R, m))
      BY <1>4, <1>5, <2>1
    <3>2. put.res = "Ok" => LeafOK(put.leaf)
      BY <3>1, InsertRecordOK
    <3>3. /\ put.res = "Ok" => /\ LeafOrd(put.leaf, From(R, m))
                               /\ Pairs(put.leaf.records) = Pairs(half.records) \cup {<<row_id, len>>}
          /\ put.res = "DuplicateKey" <=> Bound(Pairs(half.records), row_id)
      BY <2>1, <3>1, InsertRecordOrd
    <3>4. QED
      BY <1>11, <3>2, <3>3 DEF pair
  <2> HIDE DEF put
  <2>3. CASE put.res = "Ok"
    <3>1. st = SplitStep(LinkedPages(pgs, leaf, halves.left, put.leaf), m, N + 1)
      BY <1>7, <1>13, <2>3
    <3>2. Pairs(halves.left.records) \cup Pairs(put.leaf.records) = Pairs(pgs[leaf].records) \cup {pair}
      BY <1>10, <2>1, <2>2, <2>3
    <3>3. Climb(st, C, h, o, 0, row_id)
      BY <1>4, <1>5, <1>6, <1>9, <2>2, <2>3, <3>1, <3>2
    <3>4. st.res = "Ok"
      BY <3>1 DEF SplitStep
    <3>5. QED
      BY <3>3, <3>4 DEF st, C, pair
  <2>4. CASE put.res # "Ok"
    <3>1. st = Failed(put.res, pgs)
      BY <1>7, <2>4
    <3>2. st.res # "Ok" /\ st.res # "DuplicateKey" /\ st.split = <<>>
      BY <2>2, <2>4, <3>1 DEF Failed
    <3>3. QED
      BY <3>2 DEF st
  <2>5. QED
    BY <2>3, <2>4
<1>14. QED
  BY <1>12, <1>13

\* A payload that is not too large is refused as a duplicate or for lack of room.
LEMMA InsertResults ==
    ASSUME NEW leaf, LeafOK(leaf), NEW row_id \in Keys, NEW len \in Payloads, len <= MAX_VALUE_SIZE
    PROVE  insert_record(leaf, row_id, len).res \in {"Ok", "DuplicateKey", "PageFull"}
<1> DEFINE put == insert_record(leaf, row_id, len)
           r == leaf.records
           i == SlotOf(r, row_id)
           found == HasKey(r, row_id)
           gone == r[i].is_deleted
           new == [row_id |-> row_id, len |-> len, is_deleted |-> FALSE]
           needed == LeafBytes(r) + SLOT_ELEM_SIZE + RecordSize(new)
           over == Ok(compact([leaf EXCEPT !.records[i] = new]))
           inserted == Ok([leaf EXCEPT !.records = InsertAt(@, i, new), !.free_size = PAGE_SIZE - needed])
           fits == ~(len - r[i].len > leaf.free_size)
           room == ~(needed > PAGE_SIZE \/ Len(r) > MAX_LEAF_NODE_CELLS)
<1>1. found \in BOOLEAN /\ (found => gone \in BOOLEAN)
  <2>1. r \in Seq(Records)
    BY LeafParts
  <2>2. found \in BOOLEAN /\ (found => i \in 1..Len(r))
    BY <2>1, Found
  <2>3. ASSUME i \in 1..Len(r) PROVE gone \in BOOLEAN
    <3>1. r[i] \in Records
      BY <2>1, <2>3
    <3>2. QED
      BY <3>1 DEF Records
  <2>4. QED
    BY <2>2, <2>3
<1>2. ~(len > MAX_VALUE_SIZE)
  BY PayloadsAssumption, SizesAssumption
<1>3. put = CASE len > MAX_VALUE_SIZE -> Err("TupleTooLarge")
          [] len <= MAX_VALUE_SIZE /\ found /\ ~gone -> Err("DuplicateKey")
          [] len <= MAX_VALUE_SIZE /\ found /\ gone -> IF fits THEN over ELSE Err("PageFull")
          [] len <= MAX_VALUE_SIZE /\ ~found -> IF room THEN inserted ELSE Err("PageFull")
  BY DEF insert_record
<1>4. over.res = "Ok" /\ inserted.res = "Ok"
  BY DEF Ok
<1> HIDE DEF put, found, gone, over, inserted, fits, room
<1>5. put \in {Err("DuplicateKey"), Err("PageFull"), over, inserted}
  BY <1>1, <1>2, <1>3
<1>6. QED
  BY <1>4, <1>5 DEF put, Err

\* The insertion into a leaf binds a key that was not bound, and refuses one
\* that was.
LEMMA InsertLeafOrd ==
    ASSUME NEW pgs, NEW h, TreeOK(pgs, h), NEW o, Owned(pgs, h, o),
           NEW leaf \in 1..Len(pgs), h[leaf] = 0,
           NEW row_id \in Keys, row_id \in o[leaf], NEW len \in Payloads
    PROVE  /\ insert_leaf(pgs, leaf, row_id, len).res = "Ok" =>
                /\ Climb(insert_leaf(pgs, leaf, row_id, len), Contents(pgs) \cup {<<row_id, len>>},
                         h, o, 0, row_id)
                /\ ~Bound(Contents(pgs), row_id)
           /\ insert_leaf(pgs, leaf, row_id, len).res # "Ok" => insert_leaf(pgs, leaf, row_id, len).split = <<>>
           /\ len <= MAX_VALUE_SIZE =>
                (insert_leaf(pgs, leaf, row_id, len).res = "DuplicateKey" <=> Bound(Contents(pgs), row_id))
<1> DEFINE R == o[leaf]
           c == compact(pgs[leaf])
           first == insert_record(pgs[leaf], row_id, len)
           again == insert_record(c, row_id, len)
           halved == split_leaf(pgs, leaf, row_id, len)
           st == insert_leaf(pgs, leaf, row_id, len)
           A == {<<row_id, len>>}
           C == Contents(pgs) \cup A
           bound == Bound(Pairs(pgs[leaf].records), row_id)
<1>1. LeafOK(pgs[leaf]) /\ LeafOrd(pgs[leaf], R)
  <2>1. LeafOK(pgs[leaf])
    BY KindOf
  <2>2. QED
    BY <2>1 DEF Owned, NodeOrd
<1>2. LeafOK(c) /\ SameLinks(c, pgs[leaf]) /\ AllLive(c.records)
  BY <1>1, LeafParts, CompactOK
<1>3. LeafOrd(c, R) /\ Pairs(c.records) = Pairs(pgs[leaf].records)
  BY <1>1, LeafParts, CompactOrd
<1>4. Bound(Contents(pgs), row_id) <=> bound
  BY KeyInt, BoundAtLeaf
<1>5. /\ first.res \in Results
      /\ first.res = "Ok" => LeafOK(first.leaf) /\ SameLinks(first.leaf, pgs[leaf])
      /\ first.res = "PageFull" => len <= MAX_VALUE_SIZE
  BY <1>1, InsertRecordOK
<1>6. /\ first.res = "Ok" => /\ LeafOrd(first.leaf, R) /\ ~bound
                             /\ Pairs(first.leaf.records) = Pairs(pgs[leaf].records) \cup A
      /\ len <= MAX_VALUE_SIZE => (first.res = "DuplicateKey" <=> bound)
  BY <1>1, InsertRecordOrd
<1>7. st = CASE first.res = "Ok" -> Done([pgs EXCEPT ![leaf] = first.leaf])
             [] first.res \notin {"Ok", "PageFull"} -> Failed(first.res, pgs)
             [] first.res = "PageFull" ->
                   IF again.res = "Ok" THEN Done([pgs EXCEPT ![leaf] = again.leaf]) ELSE halved
  BY DEF insert_leaf
<1> HIDE DEF first, bound, A
\* The leaf is replaced by one with the new record.
<1>8. ASSUME NEW x, LeafOK(x), SameLinks(x, pgs[leaf]), LeafOrd(x, R),
             Pairs(x.records) = Pairs(pgs[leaf].records) \cup A
      PROVE  Climb(Done([pgs EXCEPT ![leaf] = x]), C, h, o, 0, row_id)
  <2> DEFINE t == [pgs EXCEPT ![leaf] = x]
  <2>1. TreeOK(t, h)
    BY <1>8, ReplaceLeaf
  <2>2. Owned(t, h, o)
    BY <1>8, ReplaceOrd
  <2>3. Contents(t) = C
    <3>1. row_id \in Int
      BY KeyInt
    <3>2. TreeOK(pgs, h) /\ Owned(pgs, h, o) /\ leaf \in 1..Len(pgs) /\ h[leaf] = 0 /\ row_id \in o[leaf]
          /\ TreeOK([pgs EXCEPT ![leaf] = x], h)
      BY <2>1
    <3>3. Adds(Pairs(x.records), Pairs(pgs[leaf].records), A)
      BY <1>8 DEF Adds
    <3> HIDE DEF R, c, again, halved, st, C
    <3>4. Adds(Contents([pgs EXCEPT ![leaf] = x]), Contents(pgs), A)
      BY <3>1, <3>2, <3>3, ReplaceContents
    <3>5. QED
      BY <3>4 DEF C, Adds
  <2> HIDE DEF t
  <2>4. Climb(Done(t), Contents(t), h, o, 0, row_id)
    BY <2>1, <2>2, ExtendsSelf, ClimbDone
  <2>5. QED
    BY <2>3, <2>4 DEF t
<1>9. CASE first.res = "Ok"
  <2>1. st = Done([pgs EXCEPT ![leaf] = first.leaf])
    BY <1>7, <1>9
  <2>2. st.res = "Ok"
    BY <2>1 DEF Done
  <2> HIDE DEF st, C
  <2>3. Climb(st, C, h, o, 0, row_id) /\ ~bound
    BY <1>5, <1>6, <1>8, <1>9, <2>1
  <2>4. QED
    BY <1>4, <2>2, <2>3 DEF st, C, A
<1>10. CASE first.res \notin {"Ok", "PageFull"}
  <2>1. st = Failed(first.res, pgs)
    BY <1>7, <1>10
  <2>2. st.res = first.res /\ st.split = <<>>
    BY <2>1 DEF Failed
  <2> HIDE DEF st
  <2>3. QED
    BY <1>4, <1>6, <1>10, <2>2 DEF st
<1>11. CASE first.res = "PageFull"
  <2>1. len <= MAX_VALUE_SIZE /\ ~bound
    BY <1>5, <1>6, <1>11
  <2>2. ~Bound(Pairs(c.records), row_id)
    BY <1>3, <2>1 DEF bound
  <2> HIDE DEF c, R
  <2>3. /\ again.res \in Results
        /\ again.res = "Ok" => LeafOK(again.leaf) /\ SameLinks(again.leaf, c)
        /\ c.records = <<>> /\ len <= MAX_VALUE_SIZE => again.res = "Ok"
    BY <1>2, InsertRecordOK
  <2>4. /\ again.res = "Ok" => /\ LeafOrd(again.leaf, R)
                               /\ Pairs(again.leaf.records) = Pairs(c.records) \cup {<<row_id, len>>}
        /\ again.res = "DuplicateKey" <=> Bound(Pairs(c.records), row_id)
    BY <1>2, <1>3, <2>1, InsertRecordOrd DEF R
  <2>5. again.res \notin {"TupleTooLarge", "KeyNotFound"}
    <3>1. again.res \in {"Ok", "DuplicateKey", "PageFull"}
      BY <1>2, <2>1, InsertResults
    <3> HIDE DEF again
    <3>2. QED
      BY <3>1
  <2>6. CASE again.res = "Ok"
    <3>1. st = Done([pgs EXCEPT ![leaf] = again.leaf])
      BY <1>7, <1>11, <2>6
    <3>2. st.res = "Ok"
      BY <3>1 DEF Done
    <3> HIDE DEF st, C, again
    <3>3. SameLinks(again.leaf, pgs[leaf]) /\ Pairs(again.leaf.records) = Pairs(pgs[leaf].records) \cup A
      BY <1>2, <1>3, <2>3, <2>4, <2>6 DEF SameLinks, A
    <3>4. Climb(st, C, h, o, 0, row_id)
      BY <1>8, <2>3, <2>4, <2>6, <3>1, <3>3
    <3>5. QED
      BY <1>4, <2>1, <3>2, <3>4 DEF st, C, A
  <2>7. CASE again.res # "Ok"
    <3>1. st = halved
      BY <1>7, <1>11, <2>7
    <3>2. again.res = "PageFull"
      BY <2>2, <2>3, <2>4, <2>5, <2>7 DEF Results
    <3>3. c.records # <<>> /\ Len(c.records) # 1
      <4>1. c.records # <<>>
        BY <2>1, <2>3, <2>7
      <4>2. Len(c.records) # 1
        BY <1>2, <1>3, <2>1, <3>2, OneMoreFits
      <4>3. QED
        BY <4>1, <4>2
    <3>4. Len(c.records) > 1
      <4>1. c.records \in Seq(Records)
        BY <1>2, LeafParts
      <4> DEFINE k == Len(c.records)
      <4>2. k \in Nat /\ k # 0
        BY <3>3, <4>1
      <4>3. k # 1
        BY <3>3
      <4> HIDE DEF k
      <4>4. k > 1
        BY <4>2, <4>3
      <4>5. QED
        BY <4>4 DEF k
    <3>5. /\ halved.res = "Ok" => Climb(halved, Contents(pgs) \cup {<<row_id, len>>}, h, o, 0, row_id)
          /\ halved.res # "Ok" => halved.split = <<>> /\ halved.res # "DuplicateKey"
      BY <2>1, <3>3, <3>4, SplitLeafOrd DEF c, bound
    <3>6. halved.res = "Ok" => halved.res # "DuplicateKey"
      OBVIOUS
    <3> HIDE DEF halved, st, C
    <3>7. QED
      BY <1>4, <2>1, <3>1, <3>5, <3>6 DEF st, C, A
  <2>8. QED
    BY <2>6, <2>7
<1>12. QED
  BY <1>5, <1>9, <1>10, <1>11

\* One level up.
LEMMA ClimbUp ==
    ASSUME NEW st, NEW C, NEW h, NEW o, NEW d \in Nat, NEW w, Climb(st, C, h, o, d, w),
           NEW parent \in DOMAIN h, h[parent] = d + 1, w \in o[parent]
    PROVE  Climb(Up(parent, st), C, h, o, d + 1, w)
<1> DEFINE pgs == st.pages
<1>1. st \in States /\ st.res = "Ok" /\ Contents(pgs) = C
  BY DEF Climb
<1>2. PICK g : /\ TreeOK(pgs, g) /\ Extends(g, h)
               /\ \/ st.split = <<>> /\ \E x : Owned(pgs, g, x)
                  \/ \E n, x, p, m : /\ st.split = <<m, n + 1>> /\ Seam(pgs, g, n, x, p, m, w)
                                     /\ g[p] = d /\ Keeps(x, n, h, o, d, w)
  BY DEF Climb
<1>3. CASE st.split = <<>>
  <2>1. Up(parent, st) = st
    BY <1>3 DEF Up
  <2>2. \E x : Owned(pgs, g, x)
    BY <1>2, <1>3
  <2>3. QED
    BY <1>1, <1>2, <1>3, <2>1, <2>2 DEF Climb
<1>4. CASE st.split # <<>>
  <2>1. PICK n, x, p, m : /\ st.split = <<m, n + 1>> /\ Seam(pgs, g, n, x, p, m, w)
                          /\ g[p] = d /\ Keeps(x, n, h, o, d, w)
    BY <1>2, <1>4
  <2>2. Up(parent, st) = insert_internal(pgs, parent, m, n + 1)
    BY <1>4, <2>1 DEF Up
  <2> HIDE DEF pgs
  <2>3. /\ n \in Nat /\ Len(pgs) = n + 1 /\ p \in 1..n /\ g[n + 1] = d /\ m \in Keys
    BY <2>1 DEF Seam
  <2>4. /\ parent \in 1..n /\ g[parent] = d + 1 /\ w \in x[parent]
    BY <1>2, <2>1 DEF Extends, Keeps
  <2>5. /\ DOMAIN g = 1..(n + 1) /\ DOMAIN pgs = 1..(n + 1) /\ pgs \in Seq(Nodes) /\ Heights(g, n + 1)
        /\ \A q \in 1..(n + 1) : g[q] \in Nat /\ g[q] <= g[1]
    BY <1>2, <2>3, TreeParts DEF TreeOK
  <2>6. parent \in 1..(n + 1) /\ n + 1 \in 1..(n + 1) /\ parent \in 1..Len(pgs) /\ n + 1 \in DOMAIN g /\ g[parent] # 0
    BY <2>3, <2>4, <2>5
  <2>7. g[parent] = g[p] + 1
    BY <2>1, <2>4
  <2>8. CASE ~InternalFull(pgs[parent])
    <3> DEFINE t == [pgs EXCEPT ![parent] = insert_entry(pgs[parent], m, n + 1)]
    <3>1. insert_internal(pgs, parent, m, n + 1) = Done(t) /\ TreeOK(t, g)
      BY <1>2, <2>3, <2>4, <2>6, <2>8, InternalSteps
    <3>2. Owned(t, g, Cut(x, n, p, m))
      BY <1>2, <2>1, <2>4, <2>7, SeamCloses
    <3>3. Len(t) = n + 1 /\ \A q \in 1..(n + 1) : q # parent => t[q] = pgs[q]
      <4>1. Len(t) = Len(pgs)
        BY <2>5
      <4>2. QED
        BY <2>3, <2>5, <4>1
    <3> HIDE DEF t
    <3>4. SameLeaves(t, g, pgs, g)
      BY <2>3, <2>6, <3>3 DEF SameLeaves
    <3>5. Contents(t) = C
      BY <1>1, <1>2, <3>1, <3>4, SameContents
    <3>6. Climb(Done(t), Contents(t), h, o, d + 1, w)
      BY <1>2, <3>1, <3>2, ClimbDone
    <3>7. QED
      BY <2>2, <3>1, <3>5, <3>6
  <2>9. CASE InternalFull(pgs[parent])
    <3> DEFINE u == HalvedPages(pgs, parent, m, n + 1)
               M == split_entries(pgs[parent]).promoted
               f == Grow(g, n + 1, d + 1)
               y == Cut(x, n, p, m)
    <3>1. Halved(pgs, g, d, parent, m, n + 1)
      BY <1>2, <2>3, <2>4, <2>6, <2>9, InternalSteps
    <3>2. insert_internal(pgs, parent, m, n + 1) = SplitStep(u, M, (n + 1) + 1) /\ TreeOK(u, f)
      <4>1. /\ insert_internal(pgs, parent, m, n + 1) = SplitStep(u, M, Len(pgs) + 1)
            /\ TreeOK(u, Grow(g, Len(pgs), d + 1))
        BY <3>1 DEF Halved
      <4> HIDE DEF u, M
      <4>2. QED
        BY <2>3, <4>1
    <3>3. d + 1 \in Nat /\ d + 1 <= g[1] /\ n + 1 \in Nat \ {0} /\ (n + 1) + 1 = n + 2
      BY <2>3, <2>4, <2>5, <2>6
    <3>4. Extends(f, g) /\ f[(n + 1) + 1] = d + 1 /\ \A q \in 1..(n + 1) : f[q] = g[q]
      BY <2>5, <3>3, GrowExtends
    <3> HIDE DEF f
    <3>5. f[n + 2] = g[parent]
      BY <2>4, <3>3, <3>4
    <3>6. Seam(u, f, n + 1, y, parent, M, w)
      BY <1>2, <2>1, <2>4, <2>7, <2>9, <3>4, <3>5, SeamRises
    <3> HIDE DEF M, y
    <3>7. Len(u) = (n + 1) + 1 /\ \A q \in 1..(n + 1) : q # parent => u[q] = pgs[q]
      <4> DEFINE l == LeftHalf(pgs[parent], m, n + 1)
                 v == [pgs EXCEPT ![parent] = l]
      <4>1. u = Append(v, RightHalf(pgs[parent], m, n + 1))
        BY DEF HalvedPages
      <4> HIDE DEF l, u
      <4>2. pgs = [q \in 1..(n + 1) |-> pgs[q]]
        BY <2>5
      <4>3. v = [q \in 1..(n + 1) |-> v[q]] /\ \A q \in 1..(n + 1) : q # parent => v[q] = pgs[q]
        BY <2>5, <2>6, <4>2
      <4> HIDE DEF v
      <4>4. n + 1 \in Nat
        BY <2>3
      <4>5. Len(u) = (n + 1) + 1 /\ \A q \in 1..(n + 1) : u[q] = v[q]
        BY <4>1, <4>3, <4>4, AppendIs
      <4>6. QED
        BY <4>3, <4>5
    <3> HIDE DEF u
    <3>8. SameLeaves(u, f, pgs, g)
      <4>1. \A q \in 1..(n + 1) : q \in 1..((n + 1) + 1)
        BY <2>3
      <4>2. \A q \in 1..((n + 1) + 1) : q = (n + 1) + 1 \/ q \in 1..(n + 1)
        BY <2>3
      <4>3. f[(n + 1) + 1] # 0
        BY <3>4
      <4>4. f[parent] # 0
        BY <2>6, <3>4
      <4>5. \A q \in 1..(n + 1) : f[q] = 0 => u[q].records = pgs[q].records /\ g[q] = 0
        BY <3>4, <3>7, <4>4
      <4>6. \A q \in 1..(n + 1) : g[q] = 0 => f[q] = 0
        BY <3>4
      <4>7. QED
        BY <2>3, <3>7, <4>1, <4>2, <4>3, <4>5, <4>6 DEF SameLeaves
    <3>9. Contents(u) = C
      BY <1>1, <1>2, <3>2, <3>8, SameContents
    <3>10. Extends(f, h)
      BY <1>2, <3>4, ExtendsTransitive
    <3>11. Keeps(y, n + 1, h, o, d + 1, w)
      <4>1. \A q \in 1..n : q # p => y[q] = x[q]
        BY <2>3, CutIs DEF y
      <4>2. ASSUME NEW q \in DOMAIN h
            PROVE  q \in 1..(n + 1) /\ (h[q] > d + 1 /\ w \in o[q] => w \in y[q])
        <5>1. q \in 1..n /\ (h[q] > d /\ w \in o[q] => w \in x[q])
          BY <2>1 DEF Keeps
        <5>2. g[q] = h[q] /\ g[q] \in Nat /\ q \in 1..(n + 1)
          BY <1>2, <2>3, <2>5, <5>1 DEF Extends
        <5>3. ASSUME h[q] > d + 1 PROVE q # p /\ h[q] > d
          BY <2>1, <5>2, <5>3
        <5>4. QED
          BY <4>1, <5>1, <5>2, <5>3
      <4>3. QED
        BY <4>2 DEF Keeps
    <3>12. f[parent] = d + 1
      BY <2>4, <2>6, <3>4
    <3>13. Climb(SplitStep(u, M, (n + 1) + 1), Contents(u), h, o, d + 1, w)
      BY <3>2, <3>6, <3>10, <3>11, <3>12, ClimbSplit
    <3>14. QED
      BY <2>2, <3>2, <3>9, <3>13
  <2>10. QED
    BY <2>8, <2>9
<1>5. QED
  BY <1>3, <1>4

\* The pages are a tree in order.
InOrder(pgs) == \E g, o : TreeOK(pgs, g) /\ Owned(pgs, g, o)

\* The end of the way up.
LEMMA ClimbRoot ==
    ASSUME NEW st, NEW C, NEW h, NEW o, NEW w, 1 \in DOMAIN h, Climb(st, C, h, o, h[1], w)
    PROVE  AtRoot(st).res = "Ok" /\ Contents(AtRoot(st).pages) = C /\ InOrder(AtRoot(st).pages)
<1> DEFINE pgs == st.pages
<1>1. st \in States /\ st.res = "Ok" /\ Contents(pgs) = C
  BY DEF Climb
<1>2. PICK g : /\ TreeOK(pgs, g) /\ Extends(g, h)
               /\ \/ st.split = <<>> /\ \E x : Owned(pgs, g, x)
                  \/ \E n, x, p, m : /\ st.split = <<m, n + 1>> /\ Seam(pgs, g, n, x, p, m, w)
                                     /\ g[p] = h[1] /\ Keeps(x, n, h, o, h[1], w)
  BY DEF Climb
<1>3. CASE st.split = <<>>
  <2>1. AtRoot(st) = st
    BY <1>3 DEF AtRoot
  <2>2. InOrder(pgs)
    BY <1>2, <1>3 DEF InOrder
  <2>3. QED
    BY <1>1, <2>1, <2>2
<1>4. CASE st.split # <<>>
  <2>1. PICK n, x, p, m : st.split = <<m, n + 1>> /\ Seam(pgs, g, n, x, p, m, w) /\ g[p] = h[1]
    BY <1>2, <1>4
  <2> DEFINE t == split_root(pgs, m, n + 1)
  <2>2. AtRoot(st) = Done(t)
    BY <1>4, <2>1 DEF AtRoot
  <2>3. g[p] = g[1]
    BY <1>2, <2>1 DEF Extends
  <2> HIDE DEF pgs
  <2>4. TreeOK(t, Raise(g, n + 1)) /\ Owned(t, Raise(g, n + 1), CutRoot(x, n, m)) /\ Contents(t) = Contents(pgs)
    BY <1>2, <2>1, <2>3, SeamRoot
  <2> HIDE DEF t
  <2>5. AtRoot(st).res = "Ok" /\ AtRoot(st).pages = t
    BY <2>2 DEF Done
  <2>6. QED
    BY <1>1, <2>4, <2>5 DEF InOrder
<1>5. QED
  BY <1>3, <1>4

-----------------------------------------------------------------------------
(* The operations keep the tree in order and act as a map. *)

LEMMA InsertOrd ==
    ASSUME NEW pgs, NEW h, TreeOK(pgs, h), NEW o, Owned(pgs, h, o), NEW row_id \in Keys, NEW len \in Payloads
    PROVE  /\ insert(pgs, row_id, len).res = "Ok" =>
                /\ InOrder(insert(pgs, row_id, len).pages) /\ ~Bound(Contents(pgs), row_id)
                /\ Contents(insert(pgs, row_id, len).pages) = Contents(pgs) \cup {<<row_id, len>>}
           /\ len <= MAX_VALUE_SIZE =>
                (insert(pgs, row_id, len).res = "DuplicateKey" <=> Bound(Contents(pgs), row_id))
           /\ insert_leaf(pgs, LeafFor(pgs, row_id), row_id, len).res = "Ok" => insert(pgs, row_id, len).res = "Ok"
<1> DEFINE leaf == LeafFor(pgs, row_id)
           path == PathTo(pgs, row_id)
           inserted == insert_leaf(pgs, leaf, row_id, len)
           st == insert(pgs, row_id, len)
           C == Contents(pgs) \cup {<<row_id, len>>}
           H == h[1]
<1>1. DOMAIN h = 1..Len(pgs) /\ 1 \in DOMAIN h /\ H \in Nat
  BY TreeParts
<1>2. row_id \in Int
  BY KeyInt
<1>3. leaf \in 1..Len(pgs) /\ h[leaf] = 0 /\ row_id \in o[leaf]
  BY <1>2, LeafOwned
<1>4. IsPath(path, h, 1)
  BY PathOK DEF Root
<1>5. \A i \in 1..Len(path) : path[i] \in 1..Len(pgs) /\ row_id \in o[path[i]]
  BY <1>2, PathOwned
<1>6. st = propagate(path, inserted)
  BY DEF insert
<1> HIDE DEF leaf, path
<1>7. inserted \in States
  BY <1>3, InsertLeafOK DEF Rising
<1>8. /\ inserted.res = "Ok" => Climb(inserted, C, h, o, 0, row_id) /\ ~Bound(Contents(pgs), row_id)
      /\ inserted.res # "Ok" => inserted.split = <<>>
      /\ len <= MAX_VALUE_SIZE => (inserted.res = "DuplicateKey" <=> Bound(Contents(pgs), row_id))
  BY <1>3, InsertLeafOrd
<1> HIDE DEF inserted, C, H
<1>9. Len(path) = H + 1 /\ \A i \in 1..(H + 1) : path[i] \in DOMAIN h /\ row_id \in o[path[i]] /\ h[path[i]] = H - (i - 1)
  <2>1. Len(path) = H + 1 /\ \A i \in 1..Len(path) : h[path[i]] = H - (i - 1)
    BY <1>4 DEF IsPath, H
  <2>2. QED
    BY <1>1, <1>5, <2>1
<1>10. CASE inserted.res = "Ok"
  <2> DEFINE Q == [k \in 0..H |-> {v \in States : Climb(v, C, h, o, k, row_id)}]
  <2>1. Q \in [0..H -> SUBSET States] /\ \A k \in 0..H : \A v : v \in Q[k] <=> Climb(v, C, h, o, k, row_id)
    BY DEF Climb
  <2> HIDE DEF Q
  <2>2. inserted \in Q[0]
    BY <1>1, <1>8, <1>10, <2>1
  <2>3. ASSUME NEW k \in 1..H, NEW v \in Q[k - 1] PROVE Up(path[(H + 1) - k], v) \in Q[k]
    <3> DEFINE p == path[(H + 1) - k]
    <3>1. (H + 1) - k \in 1..(H + 1) /\ H - (((H + 1) - k) - 1) = k /\ k - 1 \in 0..H /\ k - 1 \in Nat
          /\ k \in 0..H /\ (k - 1) + 1 = k
      BY <1>1
    <3>2. p \in DOMAIN h /\ row_id \in o[p] /\ h[p] = (k - 1) + 1
      BY <1>9, <3>1
    <3>3. Climb(v, C, h, o, k - 1, row_id)
      BY <2>1, <2>3, <3>1
    <3> HIDE DEF p
    <3>4. Climb(Up(p, v), C, h, o, (k - 1) + 1, row_id)
      BY <3>1, <3>2, <3>3, ClimbUp
    <3>5. Up(p, v) \in Q[k]
      BY <2>1, <3>1, <3>4
    <3>6. QED
      BY <3>5 DEF p
  <2>4. CarriedUp(path, Q, H)
    BY <2>3 DEF CarriedUp
  <2>5. PICK v \in Q[H] : propagate(path, inserted) = AtRoot(v)
    BY <1>1, <1>9, <2>1, <2>2, <2>4, PropagateUp
  <2>6. Climb(v, C, h, o, h[1], row_id)
    <3>1. H \in 0..H
      BY <1>1
    <3>2. Climb(v, C, h, o, H, row_id)
      BY <2>1, <3>1
    <3>3. QED
      BY <3>2 DEF H
  <2>7. st.res = "Ok" /\ Contents(st.pages) = C /\ InOrder(st.pages)
    BY <1>1, <1>6, <2>5, <2>6, ClimbRoot
  <2> HIDE DEF st
  <2>8. QED
    BY <1>8, <1>10, <2>7 DEF st, C
<1>11. CASE inserted.res # "Ok"
  <2> DEFINE Q == [k \in 0..H |-> {inserted}]
  <2>1. Q \in [0..H -> SUBSET States] /\ \A k \in 0..H : Q[k] = {inserted}
    BY <1>7
  <2> HIDE DEF Q
  <2>2. inserted \in Q[0] /\ H \in 0..H
    BY <1>1, <2>1
  <2>3. ASSUME NEW k \in 1..H, NEW v \in Q[k - 1] PROVE Up(path[(H + 1) - k], v) \in Q[k]
    <3>1. k - 1 \in 0..H /\ k \in 0..H
      BY <1>1
    <3>2. v = inserted
      BY <2>1, <2>3, <3>1
    <3>3. Up(path[(H + 1) - k], v) = inserted
      BY <1>8, <1>11, <3>2 DEF Up
    <3>4. QED
      BY <2>1, <3>1, <3>3
  <2>4. CarriedUp(path, Q, H)
    BY <2>3 DEF CarriedUp
  <2>5. PICK v \in Q[H] : propagate(path, inserted) = AtRoot(v)
    BY <1>1, <1>9, <2>1, <2>2, <2>4, PropagateUp
  <2>6. v = inserted
    BY <2>1, <2>2, <2>5
  <2>7. st = inserted
    BY <1>6, <1>8, <1>11, <2>5, <2>6 DEF AtRoot
  <2> HIDE DEF st
  <2>8. insert_leaf(pgs, LeafFor(pgs, row_id), row_id, len).res # "Ok"
    BY <1>11 DEF inserted, leaf
  <2>9. QED
    BY <1>8, <1>11, <2>7, <2>8 DEF st
<1>12. QED
  BY <1>10, <1>11

LEMMA DeleteOrd ==
    ASSUME NEW pgs, NEW h, TreeOK(pgs, h), NEW o, Owned(pgs, h, o), NEW row_id \in Keys
    PROVE  /\ Owned(delete(pgs, row_id).pages, h, o)
           /\ Contents(delete(pgs, row_id).pages) = Without(Contents(pgs), row_id)
<1> DEFINE leaf == LeafFor(pgs, row_id)
           del == delete_record(pgs[leaf], row_id)
           st == delete(pgs, row_id)
<1>1. row_id \in Int
  BY KeyInt
<1>2. /\ leaf \in 1..Len(pgs) /\ h[leaf] = 0 /\ LeafOK(pgs[leaf]) /\ row_id \in o[leaf]
      /\ LeafOrd(pgs[leaf], o[leaf])
  BY <1>1, LeafOwned
<1>3. st = IF del.res = "Ok" THEN Done([pgs EXCEPT ![leaf] = del.leaf]) ELSE Failed(del.res, pgs)
  BY DEF delete
<1>4. leaf = LeafFor(pgs, row_id)
  OBVIOUS
<1> HIDE DEF leaf
<1>5. del.res = "Ok" => LeafOK(del.leaf) /\ SameLinks(del.leaf, pgs[leaf])
  BY <1>2, DeleteRecordOK
<1>6. /\ del.res = "Ok" => /\ LeafOrd(del.leaf, o[leaf])
                           /\ Pairs(del.leaf.records) = Without(Pairs(pgs[leaf].records), row_id)
      /\ del.res # "Ok" => ~Bound(Pairs(pgs[leaf].records), row_id)
  BY <1>2, DeleteRecordOrd DEF Without
<1> HIDE DEF del, st
<1>7. CASE del.res = "Ok"
  <2> DEFINE x == del.leaf
             t == [pgs EXCEPT ![leaf] = x]
             none == {}
  <2>1. st.pages = t
    BY <1>3, <1>7 DEF Done
  <2>2. LeafOK(x) /\ SameLinks(x, pgs[leaf]) /\ LeafOrd(x, o[leaf])
        /\ Adds(Pairs(x.records), Without(Pairs(pgs[leaf].records), row_id), none)
    BY <1>5, <1>6, <1>7 DEF Adds
  <2> HIDE DEF x, none
  <2>3. Owned(t, h, o) /\ Adds(Contents(t), Without(Contents(pgs), row_id), none)
    <3>1. TreeOK([pgs EXCEPT ![leaf] = x], h)
      BY <1>2, <2>2, ReplaceLeaf
    <3>2. Owned([pgs EXCEPT ![leaf] = x], h, o)
      BY <1>2, <2>2, ReplaceOrd
    <3>3. Adds(Contents([pgs EXCEPT ![leaf] = x]), Without(Contents(pgs), row_id), none)
      BY <1>1, <1>2, <2>2, <3>1, ReplaceContents
    <3>4. QED
      BY <3>2, <3>3
  <2> HIDE DEF t
  <2>4. QED
    BY <2>1, <2>3 DEF st, none, Adds
<1>8. CASE del.res # "Ok"
  <2>1. st.pages = pgs
    BY <1>3, <1>8 DEF Failed
  <2>2. ~Bound(Contents(pgs), row_id)
    BY <1>1, <1>2, <1>6, <1>8, BoundAtLeaf
  <2>3. Contents(pgs) = Without(Contents(pgs), row_id)
    BY <2>2 DEF Bound, Without
  <2>4. QED
    BY <2>1, <2>3 DEF st
<1>9. QED
  BY <1>7, <1>8

LEMMA UpdateOrd ==
    ASSUME NEW pgs, NEW h, TreeOK(pgs, h), NEW o, Owned(pgs, h, o), NEW row_id \in Keys, NEW len \in Payloads,
           update(pgs, row_id, len).res = "Ok"
    PROVE  /\ InOrder(update(pgs, row_id, len).pages)
           /\ Bound(Contents(pgs), row_id) =>
                Contents(update(pgs, row_id, len).pages) = Without(Contents(pgs), row_id) \cup {<<row_id, len>>}
<1> DEFINE leaf == LeafFor(pgs, row_id)
           up == update_record(pgs[leaf], row_id, len)
           del == delete_record(pgs[leaf], row_id)
           without == [pgs EXCEPT ![leaf] = del.leaf]
           moved == insert(without, row_id, len)
           st == update(pgs, row_id, len)
           A == {<<row_id, len>>}
<1>1. row_id \in Int
  BY KeyInt
<1>2. /\ leaf \in 1..Len(pgs) /\ h[leaf] = 0 /\ LeafOK(pgs[leaf]) /\ row_id \in o[leaf]
      /\ LeafOrd(pgs[leaf], o[leaf])
  BY <1>1, LeafOwned
<1>3. st = CASE up.res = "Ok" -> Done([pgs EXCEPT ![leaf] = up.leaf])
             [] up.res = "PageFull" -> IF moved.res = "Ok" THEN moved ELSE Failed(moved.res, pgs)
             [] up.res \notin {"Ok", "PageFull"} -> Failed(up.res, pgs)
  BY DEF update
<1>4. leaf = LeafFor(pgs, row_id)
  OBVIOUS
<1> HIDE DEF leaf
<1>5. /\ up.res \in Results
      /\ up.res = "Ok" => LeafOK(up.leaf) /\ SameLinks(up.leaf, pgs[leaf])
      /\ up.res = "PageFull" => HasKey(pgs[leaf].records, row_id)
  BY <1>2, UpdateRecordOK
<1>6. up.res = "Ok" =>
        /\ LeafOrd(up.leaf, o[leaf])
        /\ Bound(Pairs(pgs[leaf].records), row_id) =>
             Pairs(up.leaf.records) = Without(Pairs(pgs[leaf].records), row_id) \cup A
  BY <1>2, UpdateRecordOrd DEF Without
<1>7. /\ HasKey(pgs[leaf].records, row_id) => del.res = "Ok"
      /\ del.res = "Ok" => LeafOK(del.leaf) /\ SameLinks(del.leaf, pgs[leaf])
  BY <1>2, DeleteRecordOK
<1>8. del.res = "Ok" => /\ LeafOrd(del.leaf, o[leaf])
                        /\ Pairs(del.leaf.records) = Without(Pairs(pgs[leaf].records), row_id)
  BY <1>2, DeleteRecordOrd DEF Without
<1>9. Bound(Contents(pgs), row_id) <=> Bound(Pairs(pgs[leaf].records), row_id)
  BY <1>1, <1>2, BoundAtLeaf
<1> HIDE DEF up, del, moved, A
<1>10. CASE up.res = "Ok"
  <2> DEFINE x == up.leaf
             t == [pgs EXCEPT ![leaf] = x]
  <2>1. LeafOK(x) /\ SameLinks(x, pgs[leaf]) /\ LeafOrd(x, o[leaf])
        /\ (Bound(Contents(pgs), row_id) =>
              Adds(Pairs(x.records), Without(Pairs(pgs[leaf].records), row_id), A))
    BY <1>5, <1>6, <1>9, <1>10 DEF Adds
  <2>2. st = Done(t)
    <3> HIDE DEF st
    <3>1. QED
      BY <1>3, <1>10
  <2> HIDE DEF x, st
  <2>3. /\ TreeOK(t, h) /\ Owned(t, h, o)
        /\ Adds(Pairs(x.records), Without(Pairs(pgs[leaf].records), row_id), A) =>
             Adds(Contents(t), Without(Contents(pgs), row_id), A)
    <3>1. TreeOK([pgs EXCEPT ![leaf] = x], h)
      BY <1>2, <2>1, ReplaceLeaf
    <3>2. Owned([pgs EXCEPT ![leaf] = x], h, o)
      BY <1>2, <2>1, ReplaceOrd
    <3>3. ASSUME Adds(Pairs(x.records), Without(Pairs(pgs[leaf].records), row_id), A)
          PROVE  Adds(Contents([pgs EXCEPT ![leaf] = x]), Without(Contents(pgs), row_id), A)
      BY <1>1, <1>2, <3>1, <3>3, ReplaceContents
    <3>4. QED
      BY <3>1, <3>2, <3>3
  <2> HIDE DEF t
  <2>4. st.pages = t
    BY <2>2 DEF Done
  <2>5. InOrder(st.pages) /\ (Bound(Contents(pgs), row_id) =>
                                Adds(Contents(st.pages), Without(Contents(pgs), row_id), A))
    BY <2>1, <2>3, <2>4 DEF InOrder
  <2>6. QED
    BY <2>5 DEF st, A, Adds
<1>11. CASE up.res = "PageFull"
  <2>1. st = IF moved.res = "Ok" THEN moved ELSE Failed(moved.res, pgs)
    BY <1>3, <1>11
  <2>2. moved.res = "Ok" /\ st = moved
    <3>1. st.res = "Ok"
      OBVIOUS
    <3> HIDE DEF st
    <3>2. moved.res = "Ok"
      BY <2>1, <3>1 DEF Failed
    <3>3. QED
      BY <2>1, <3>2
  <2>3. /\ TreeOK(without, h) /\ Owned(without, h, o)
        /\ Contents(without) = Without(Contents(pgs), row_id)
    <3> DEFINE x == del.leaf
               none == {}
    <3>1. LeafOK(x) /\ SameLinks(x, pgs[leaf]) /\ LeafOrd(x, o[leaf])
          /\ Adds(Pairs(x.records), Without(Pairs(pgs[leaf].records), row_id), none)
      BY <1>5, <1>7, <1>8, <1>11 DEF Adds
    <3> HIDE DEF x, none
    <3>2. TreeOK([pgs EXCEPT ![leaf] = x], h)
      BY <1>2, <3>1, ReplaceLeaf
    <3>3. Owned([pgs EXCEPT ![leaf] = x], h, o)
      BY <1>2, <3>1, ReplaceOrd
    <3>4. Adds(Contents([pgs EXCEPT ![leaf] = x]), Without(Contents(pgs), row_id), none)
      BY <1>1, <1>2, <3>1, <3>2, ReplaceContents
    <3>5. QED
      BY <3>2, <3>3, <3>4 DEF x, none, Adds
  <2> HIDE DEF without, st
  <2>4. Contents(without) = Without(Contents(pgs), row_id)
    BY <2>3
  <2>5. InOrder(moved.pages) /\ Contents(moved.pages) = Contents(without) \cup {<<row_id, len>>}
    BY <2>2, <2>3, InsertOrd DEF moved
  <2>6. QED
    BY <2>2, <2>4, <2>5 DEF st
<1>12. CASE up.res \notin {"Ok", "PageFull"}
  <2>1. st = Failed(up.res, pgs)
    BY <1>3, <1>12
  <2>2. st.res # "Ok"
    BY <1>12, <2>1 DEF Failed
  <2>3. QED
    BY <2>2
<1>13. QED
  BY <1>5, <1>10, <1>11, <1>12

LEMMA ReloadOrd ==
    ASSUME NEW pgs, NEW h, TreeOK(pgs, h), NEW o, Owned(pgs, h, o), NEW p \in DOMAIN pgs
    PROVE  Owned([pgs EXCEPT ![p] = decode_encode(pgs[p])], h, o)
<1>1. p \in 1..Len(pgs)
  BY TreeParts
<1>2. CASE h[p] = 0
  <2> DEFINE x == decode_encode(pgs[p])
  <2>1. LeafOK(pgs[p]) /\ IsLeaf(pgs[p])
    BY <1>1, <1>2, KindOf
  <2>2. x = Leaf(pgs[p].records, pgs[p].prev, pgs[p].next)
    BY <2>1 DEF decode_encode
  <2>3. x.records = pgs[p].records
    BY <2>2 DEF Leaf
  <2>4. LeafOrd(pgs[p], o[p])
    BY <1>1, <1>2 DEF Owned, NodeOrd
  <2> HIDE DEF x
  <2>5. LeafOrd(x, o[p])
    BY <2>3, <2>4 DEF LeafOrd
  <2>6. Owned([pgs EXCEPT ![p] = x], h, o)
    BY <1>1, <1>2, <2>5, ReplaceOrd
  <2>7. QED
    BY <2>6 DEF x
<1>3. CASE h[p] # 0
  <2>1. ~IsLeaf(pgs[p])
    BY <1>1, <1>3, KindOf
  <2>2. decode_encode(pgs[p]) = pgs[p]
    BY <2>1 DEF decode_encode
  <2>3. [pgs EXCEPT ![p] = pgs[p]] = pgs
    BY TreeParts
  <2>4. QED
    BY <2>2, <2>3
<1>4. QED
  BY <1>2, <1>3

-----------------------------------------------------------------------------
(* The theorems. *)

\* The pages are a tree in which every key has one leaf.
OrderInv == InOrder(pages)

LEMMA InitOrd == Init => OrderInv
<1> SUFFICES ASSUME Init PROVE OrderInv
  OBVIOUS
<1>1. PICK h : TreeOK(pages, h)
  BY InitTree DEF TreeInv
<1>2. pages = <<new_empty>> /\ new_empty = Leaf(<<>>, 0, 0)
  BY DEF Init, new_empty, None
<1>3. Leaf(<<>>, 0, 0).records = <<>> /\ IsLeaf(Leaf(<<>>, 0, 0))
  BY DEF Leaf, IsLeaf
<1>4. Len(pages) = 1 /\ IsLeaf(pages[1]) /\ pages[1].records = <<>>
  BY <1>2, <1>3
<1>5. h[1] = 0
  BY <1>1, <1>4, KindOf
<1> DEFINE o == [p \in 1..1 |-> Int]
<1>6. o \in [1..1 -> SUBSET Int] /\ o[1] = Int /\ DOMAIN o = 1..1
  OBVIOUS
<1> HIDE DEF o
<1>7. Owners(o, h, 1)
  BY <1>6 DEF Owners, Apart
<1>8. LeafOrd(pages[1], o[1])
  <2>1. ToSet(pages[1].records) = {}
    BY <1>4 DEF ToSet
  <2>2. Ascending(pages[1].records)
    BY <1>4 DEF Ascending
  <2>3. QED
    BY <2>1, <2>2 DEF LeafOrd
<1>9. NodeOrd(pages[1], h[1], o[1], o)
  BY <1>5, <1>8 DEF NodeOrd
<1>10. Owned(pages, h, o)
  BY <1>4, <1>7, <1>9 DEF Owned
<1>11. QED
  BY <1>1, <1>10 DEF OrderInv, InOrder

LEMMA NextOrd == OrderInv /\ [Next]_pages => OrderInv'
<1> SUFFICES ASSUME OrderInv, [Next]_pages PROVE OrderInv'
  OBVIOUS
<1>1. PICK h, o : TreeOK(pages, h) /\ Owned(pages, h, o)
  BY DEF OrderInv, InOrder
<1>2. ASSUME NEW row_id \in Keys, NEW len \in Payloads, Insert(row_id, len)
      PROVE  OrderInv'
  <2>1. insert(pages, row_id, len).res = "Ok" /\ pages' = insert(pages, row_id, len).pages
    BY <1>2 DEF Insert, Succeeds
  <2>2. InOrder(insert(pages, row_id, len).pages)
    BY <1>1, <2>1, InsertOrd
  <2>3. QED
    BY <2>1, <2>2 DEF OrderInv
<1>3. ASSUME NEW row_id \in Keys, NEW len \in Payloads, Update(row_id, len)
      PROVE  OrderInv'
  <2>1. update(pages, row_id, len).res = "Ok" /\ pages' = update(pages, row_id, len).pages
    BY <1>3 DEF Update, Succeeds
  <2>2. InOrder(update(pages, row_id, len).pages)
    BY <1>1, <2>1, UpdateOrd
  <2>3. QED
    BY <2>1, <2>2 DEF OrderInv
<1>4. ASSUME NEW row_id \in Keys, Delete(row_id)
      PROVE  OrderInv'
  <2>1. pages' = delete(pages, row_id).pages
    BY <1>4 DEF Delete, Succeeds
  <2>2. TreeOK(delete(pages, row_id).pages, h)
    BY <1>1, DeleteOK
  <2>3. Owned(delete(pages, row_id).pages, h, o)
    BY <1>1, DeleteOrd
  <2>4. InOrder(delete(pages, row_id).pages)
    BY <2>2, <2>3 DEF InOrder
  <2>5. QED
    BY <2>1, <2>4 DEF OrderInv
<1>5. ASSUME NEW p \in DOMAIN pages, Reload(p)
      PROVE  OrderInv'
  <2>1. pages' = [pages EXCEPT ![p] = decode_encode(pages[p])]
    BY <1>5 DEF Reload
  <2>2. TreeOK([pages EXCEPT ![p] = decode_encode(pages[p])], h)
    BY <1>1, ReloadOK
  <2>3. Owned([pages EXCEPT ![p] = decode_encode(pages[p])], h, o)
    BY <1>1, ReloadOrd
  <2>4. InOrder([pages EXCEPT ![p] = decode_encode(pages[p])])
    BY <2>2, <2>3 DEF InOrder
  <2>5. QED
    BY <2>1, <2>4 DEF OrderInv
<1>6. CASE UNCHANGED pages
  BY <1>6 DEF OrderInv
<1>7. QED
  BY <1>2, <1>3, <1>4, <1>5, <1>6 DEF Next

\* Every insertion, update, deletion and reload, with the splits, compactions
\* and moves they make, leaves each key to one leaf and every separator where
\* find_leaf turns to that leaf.
THEOREM OrderInvariant == Spec => []OrderInv
BY InitOrd, NextOrd, PTL DEF Spec

LEMMA OrderActs == OrderInv => ActsAsMap
<1> SUFFICES ASSUME OrderInv PROVE ActsAsMap
  OBVIOUS
<1>1. PICK h, o : TreeOK(pages, h) /\ Owned(pages, h, o)
  BY DEF OrderInv, InOrder
<1> DEFINE old == Contents(pages)
<1>2. ASSUME NEW k \in Keys, NEW len \in Payloads
      PROVE  /\ insert(pages, k, len).res = "Ok" =>
                  ~Bound(old, k) /\ Contents(insert(pages, k, len).pages) = old \cup {<<k, len>>}
             /\ len <= MAX_VALUE_SIZE => (insert(pages, k, len).res = "DuplicateKey" <=> Bound(old, k))
  BY <1>1, InsertOrd
<1>3. ASSUME NEW k \in Keys, NEW len \in Payloads
      PROVE  Bound(old, k) /\ update(pages, k, len).res = "Ok" =>
               Contents(update(pages, k, len).pages) = Without(old, k) \cup {<<k, len>>}
  BY <1>1, UpdateOrd
<1>4. ASSUME NEW k \in Keys
      PROVE  Contents(delete(pages, k).pages) = Without(old, k)
  BY <1>1, DeleteOrd
<1> HIDE DEF old
<1>5. \A x \in {old}, k \in Keys :
        /\ \A len \in Payloads :
             /\ /\ insert(pages, k, len).res = "Ok" =>
                     ~Bound(x, k) /\ Contents(insert(pages, k, len).pages) = x \cup {<<k, len>>}
                /\ len <= MAX_VALUE_SIZE => (insert(pages, k, len).res = "DuplicateKey" <=> Bound(x, k))
             /\ Bound(x, k) /\ update(pages, k, len).res = "Ok" =>
                  Contents(update(pages, k, len).pages) = Without(x, k) \cup {<<k, len>>}
        /\ Contents(delete(pages, k).pages) = Without(x, k)
  BY <1>2, <1>3, <1>4
<1>6. QED
  BY <1>5 DEF ActsAsMap, Bound, Without, old

\* What callers see of the tree is a map: a successful insertion binds a key
\* that was not bound, a successful update rebinds one, a deletion unbinds one,
\* all other keys keep their values through every split, compaction and move,
\* and a key is refused as a duplicate exactly when it is bound.
THEOREM TreeActsAsMap == Spec => []ActsAsMap
BY OrderInvariant, OrderActs, PTL

-----------------------------------------------------------------------------
(* Leaves of records of one size. *)

\* The bytes of a leaf with n records with payloads of length len.
SameBytes(n, len) == LEAF_NODE_HEADER_SIZE + n * (SLOT_ELEM_SIZE + RECORD_META_SIZE + len)

\* The record is a tombstone or as long as len.
AllOf(records, len) == \A i \in 1..Len(records) : records[i].is_deleted \/ records[i].len = len

\* One record more, one record's bytes more; and more records, more bytes.
LEMMA SameBytesGrow ==
    ASSUME NEW len \in Nat
    PROVE  /\ \A n \in Nat : SameBytes(n, len) \in Nat
           /\ SameBytes(0, len) = LEAF_NODE_HEADER_SIZE
           /\ \A n \in Nat : SameBytes(n + 1, len)
                              = SameBytes(n, len) + (SLOT_ELEM_SIZE + RECORD_META_SIZE + len)
           /\ \A m, n \in Nat : m <= n => SameBytes(m, len) <= SameBytes(n, len)
<1> DEFINE s == SLOT_ELEM_SIZE + RECORD_META_SIZE + len
<1>1. s \in Nat /\ LEAF_NODE_HEADER_SIZE \in Nat
  BY SizesAssumption
<1>2. \A n : SameBytes(n, len) = LEAF_NODE_HEADER_SIZE + n * s
  BY DEF SameBytes
<1> HIDE DEF s
<1>3. \A a, b \in Nat : a * b \in Nat
  OBVIOUS
<1>4. \A n, x \in Nat : (n + 1) * x = n * x + x
  OBVIOUS
<1>5. \A m, n, x \in Nat : m <= n => m * x <= n * x
  <2> SUFFICES ASSUME NEW m \in Nat, NEW n \in Nat, NEW x \in Nat, m <= n PROVE m * x <= n * x
    OBVIOUS
  <2>1. n - m \in Nat /\ n = m + (n - m)
    OBVIOUS
  <2>2. \A k \in Nat : (m + k) * x = m * x + k * x /\ k * x >= 0 /\ k * x \in Int /\ m * x \in Int
    OBVIOUS
  <2>3. QED
    BY <2>1, <2>2
<1>6. QED
  BY <1>1, <1>2, <1>3, <1>4, <1>5 DEF s

\* The bytes of a leaf of live records of one size.
LEMMA SameSize ==
    ASSUME NEW len \in Payloads, NEW r \in Seq(Records), AllLive(r), AllOf(r, len)
    PROVE  LeafBytes(r) = SameBytes(Len(r), len)
<1> DEFINE s == SLOT_ELEM_SIZE + RECORD_META_SIZE + len
<1>1. len \in Nat /\ Len(r) \in Nat
  BY PayloadsAssumption
<1>2. PICK bytes : IsBytes(bytes, r) /\ LeafBytes(r) = bytes[Len(r)]
  BY BytesExist
<1>3. \A n \in 1..Len(r) : RecordSize(r[n]) = s
  BY DEF AllLive, AllOf, RecordSize
<1> HIDE DEF s
<1>4. bytes[0] = LEAF_NODE_HEADER_SIZE /\ \A n \in 1..Len(r) : bytes[n] = bytes[n - 1] + s
  BY <1>2, <1>3 DEF IsBytes
<1> DEFINE P == {n \in 0..Len(r) : bytes[n] = SameBytes(n, len)}
<1>5. 0 \in P
  <2>1. 0 \in 0..Len(r) /\ SameBytes(0, len) = LEAF_NODE_HEADER_SIZE
    BY <1>1, SameBytesGrow
  <2>2. QED
    BY <1>4, <2>1
<1>6. ASSUME NEW n \in 0..(Len(r) - 1), n \in P PROVE n + 1 \in P
  <2>1. n + 1 \in 1..Len(r) /\ (n + 1) - 1 = n /\ n \in Nat /\ n + 1 \in 0..Len(r)
    BY <1>1
  <2>2. bytes[n + 1] = bytes[n] + s /\ bytes[n] = SameBytes(n, len)
    BY <1>4, <1>6, <2>1
  <2>3. SameBytes(n + 1, len) = SameBytes(n, len) + s
    BY <1>1, <2>1, SameBytesGrow DEF s
  <2>4. QED
    BY <2>1, <2>2, <2>3
<1> HIDE DEF P
<1>7. \A n \in 0..Len(r) : n \in P
  BY <1>1, <1>5, <1>6, BoundedInduction
<1>8. Len(r) \in P
  BY <1>1, <1>7
<1>9. QED
  BY <1>2, <1>8 DEF P

\* The number of cells is never what keeps a record out of a leaf.
LEMMA CellsEnough ==
    ASSUME NEW len \in Nat, NEW n \in Nat, SameBytes(n, len) <= PAGE_SIZE
    PROVE  MAX_LEAF_NODE_CELLS \in Int /\ n <= MAX_LEAF_NODE_CELLS
<1> DEFINE a == PAGE_SIZE - LEAF_NODE_HEADER_SIZE
           b == SLOT_ELEM_SIZE + RECORD_META_SIZE
<1>1. a \in Nat /\ b \in Nat /\ b > 0 /\ b + len \in Nat
  BY SizesAssumption
<1>2. MAX_LEAF_NODE_CELLS = a \div b
  BY DEF MAX_LEAF_NODE_CELLS
<1>3. n * (b + len) <= a
  <2>1. \A x \in Nat : LEAF_NODE_HEADER_SIZE + x <= PAGE_SIZE => x <= a
    BY SizesAssumption
  <2>2. SameBytes(n, len) = LEAF_NODE_HEADER_SIZE + n * (b + len)
    BY DEF SameBytes
  <2>3. \A y \in Nat : n * y \in Nat
    OBVIOUS
  <2> HIDE DEF a, b
  <2>4. QED
    BY <1>1, <2>1, <2>2, <2>3
<1> HIDE DEF a, b
<1>4. n * b <= a
  <2>1. \A x, y \in Nat : n * (x + y) = n * x + n * y /\ n * y >= 0 /\ n * x \in Int /\ n * y \in Int
    OBVIOUS
  <2>2. n * (b + len) = n * b + n * len /\ n * len >= 0 /\ n * b \in Int /\ n * len \in Int
    BY <1>1, <2>1
  <2>3. QED
    BY <1>1, <1>3, <2>2
<1>5. \A x \in Nat : x * b <= a => x <= a \div b
  <2>1. SUFFICES ASSUME NEW x \in Nat, x * b <= a, ~(x <= a \div b) PROVE FALSE
    OBVIOUS
  <2>2. a \div b \in Int /\ a % b \in 0..(b - 1) /\ a = b * (a \div b) + (a % b)
    BY <1>1
  <2>3. PICK q \in Int, m \in Int : q = a \div b /\ m < b /\ a = b * q + m
    BY <1>1, <2>2
  <2>4. x - (q + 1) \in Nat /\ x = (q + 1) + (x - (q + 1))
    BY <2>1, <2>3
  <2>5. \A k \in Nat : ((q + 1) + k) * b = b * q + b + k * b /\ k * b >= 0 /\ k * b \in Int /\ b * q \in Int
    BY <1>1
  <2>6. x * b >= b * q + b
    BY <1>1, <2>4, <2>5
  <2>7. QED
    BY <1>1, <2>1, <2>3, <2>6
<1>6. a \div b \in Int
  BY <1>1
<1>7. QED
  BY <1>2, <1>4, <1>5, <1>6

\* A payload of the legal size fits beside the records of its size when their
\* bytes and its own, with its second slot, are a page or less, and only then.
LEMMA RoomInLeaf ==
    ASSUME NEW leaf, LeafOK(leaf), NEW row_id \in Keys, NEW len \in Payloads, len <= MAX_VALUE_SIZE,
           AllLive(leaf.records), AllOf(leaf.records, len), ~Bound(Pairs(leaf.records), row_id)
    PROVE  insert_record(leaf, row_id, len).res = "Ok"
             <=> SameBytes(Len(leaf.records) + 1, len) + SLOT_ELEM_SIZE <= PAGE_SIZE
<1> DEFINE put == insert_record(leaf, row_id, len)
           r == leaf.records
           i == SlotOf(r, row_id)
           found == HasKey(r, row_id)
           new == [row_id |-> row_id, len |-> len, is_deleted |-> FALSE]
           needed == LeafBytes(r) + SLOT_ELEM_SIZE + RecordSize(new)
           over == [leaf EXCEPT !.records[i] = new]
           inserted == [leaf EXCEPT !.records = InsertAt(@, i, new), !.free_size = PAGE_SIZE - needed]
           s == SLOT_ELEM_SIZE + RECORD_META_SIZE + len
<1>1. r \in Seq(Records) /\ LeafBytes(r) \in Nat /\ LeafBytes(r) <= PAGE_SIZE /\ Len(r) \in Nat
  BY LeafParts
<1>2. /\ len \in Nat /\ RecordSize(new) = s
  BY NewRecord
<1>3. LeafBytes(r) = SameBytes(Len(r), len)
  BY <1>1, SameSize
<1>4. put = CASE len > MAX_VALUE_SIZE -> Err("TupleTooLarge")
          [] len <= MAX_VALUE_SIZE /\ found /\ ~r[i].is_deleted -> Err("DuplicateKey")
          [] len <= MAX_VALUE_SIZE /\ found /\ r[i].is_deleted ->
               IF len - r[i].len > leaf.free_size THEN Err("PageFull") ELSE Ok(compact(over))
          [] len <= MAX_VALUE_SIZE /\ ~found ->
               IF needed > PAGE_SIZE \/ Len(r) > MAX_LEAF_NODE_CELLS
               THEN Err("PageFull")
               ELSE Ok(inserted)
  BY DEF insert_record
<1>5. ~found
  <2>1. found => i \in 1..Len(r) /\ r[i].row_id = row_id
    BY <1>1, Found
  <2>2. \A j \in 1..Len(r) : r[j].row_id = row_id => r[j].is_deleted
    BY <1>1, BoundRecord
  <2>3. \A j \in 1..Len(r) : ~r[j].is_deleted
    BY DEF AllLive
  <2> HIDE DEF found, i, r
  <2>4. QED
    BY <2>1, <2>2, <2>3
<1>6. MAX_LEAF_NODE_CELLS \in Int /\ ~(Len(r) > MAX_LEAF_NODE_CELLS)
  <2>1. SameBytes(Len(r), len) <= PAGE_SIZE
    BY <1>1, <1>3
  <2> HIDE DEF r
  <2>2. MAX_LEAF_NODE_CELLS \in Int /\ Len(r) <= MAX_LEAF_NODE_CELLS
    BY <1>1, <1>2, <2>1, CellsEnough
  <2>3. QED
    BY <1>1, <2>2
<1>7. needed = SameBytes(Len(r) + 1, len) + SLOT_ELEM_SIZE /\ needed \in Int
  <2>1. SameBytes(Len(r) + 1, len) = SameBytes(Len(r), len) + s
    BY <1>1, <1>2, SameBytesGrow
  <2>2. SLOT_ELEM_SIZE \in Nat /\ s \in Nat
    BY <1>2, SizesAssumption
  <2>3. needed = LeafBytes(r) + SLOT_ELEM_SIZE + s
    BY <1>2
  <2> HIDE DEF needed, s, r
  <2>4. QED
    BY <1>1, <1>3, <2>1, <2>2, <2>3
<1> HIDE DEF over, inserted, needed, found, i, new, put, r, s
<1>8. put = IF needed > PAGE_SIZE \/ Len(r) > MAX_LEAF_NODE_CELLS THEN Err("PageFull") ELSE Ok(inserted)
  BY <1>2, <1>4, <1>5, SizesAssumption
<1>9. PAGE_SIZE \in Int
  BY SizesAssumption
<1>10. put.res = "Ok" <=> needed <= PAGE_SIZE
  BY <1>6, <1>7, <1>8, <1>9 DEF Ok, Err
<1>11. QED
  BY <1>7, <1>10 DEF put, r

\* The page has no size at which three records of one length fill it so far
\* that they fit, but not with the second slot an insertion is charged for: the
\* 8 KiB page of the code holds more than three records of every legal length.
RoomForThree ==
    \A len \in {l \in Payloads : l < MAX_VALUE_SIZE} :
        SameBytes(3, len) <= PAGE_SIZE => SameBytes(3, len) + SLOT_ELEM_SIZE <= PAGE_SIZE

\* Halving a leaf of records of one size makes room for one more.
LEMMA HalvesHaveRoom ==
    ASSUME RoomForThree, NEW len \in Payloads, len < MAX_VALUE_SIZE,
           NEW n \in Nat, SameBytes(n, len) <= PAGE_SIZE,
           ~(SameBytes(n + 1, len) + SLOT_ELEM_SIZE <= PAGE_SIZE)
    PROVE  /\ n >= 2
           /\ \A k \in Nat : k <= n - (n \div 2) => SameBytes(k + 1, len) + SLOT_ELEM_SIZE <= PAGE_SIZE
<1> DEFINE B(k) == SameBytes(k, len)
           s == SLOT_ELEM_SIZE + RECORD_META_SIZE + len
<1>1. len \in Nat /\ SLOT_ELEM_SIZE \in Nat /\ PAGE_SIZE \in Nat /\ s \in Nat /\ SLOT_ELEM_SIZE <= s
  BY PayloadsAssumption, SizesAssumption
<1>2. /\ \A k \in Nat : B(k) \in Nat /\ B(k + 1) = B(k) + s
      /\ \A j, k \in Nat : j <= k => B(j) <= B(k)
  BY <1>1, SameBytesGrow
<1>3. B(2) + SLOT_ELEM_SIZE <= PAGE_SIZE
  <2>1. B(2) = LEAF_NODE_HEADER_SIZE + 2 * s
    BY DEF SameBytes
  <2>2. QED
    BY <1>1, <2>1, SizesAssumption
<1>4. B(3) <= PAGE_SIZE => B(3) + SLOT_ELEM_SIZE <= PAGE_SIZE
  BY DEF RoomForThree
<1> HIDE DEF B, s
<1>5. n >= 2
  <2>1. SUFFICES ASSUME n + 1 <= 2 PROVE FALSE
    OBVIOUS
  <2>2. B(n + 1) <= B(2) /\ B(n + 1) \in Nat /\ B(2) \in Nat
    BY <1>2, <2>1
  <2>3. B(n + 1) + SLOT_ELEM_SIZE <= PAGE_SIZE
    BY <1>1, <1>3, <2>2
  <2>4. QED
    BY <2>3 DEF B
<1>6. ASSUME NEW k \in Nat, k <= n - (n \div 2) PROVE B(k + 1) + SLOT_ELEM_SIZE <= PAGE_SIZE
  <2>1. CASE n = 2
    <3>1. k + 1 <= 2
      BY <1>6, <2>1
    <3>2. B(k + 1) <= B(2) /\ B(k + 1) \in Nat /\ B(2) \in Nat
      BY <1>2, <3>1
    <3>3. QED
      BY <1>1, <1>3, <3>2
  <2>2. CASE n = 3
    <3>1. k + 1 <= 3
      BY <1>6, <2>2
    <3>2. B(k + 1) <= B(3) /\ B(k + 1) \in Nat /\ B(3) \in Nat
      BY <1>2, <3>1
    <3>3. B(3) <= PAGE_SIZE
      BY <2>2 DEF B
    <3>4. QED
      BY <1>1, <1>4, <3>2, <3>3
  <2>3. CASE n >= 4
    <3>1. (k + 1) + 1 <= n
      BY <1>6, <2>3
    <3>2. B((k + 1) + 1) <= B(n) /\ B((k + 1) + 1) = B(k + 1) + s /\ B(n) \in Nat /\ B(k + 1) \in Nat
      BY <1>2, <3>1
    <3>3. B(n) <= PAGE_SIZE
      BY DEF B
    <3>4. QED
      BY <1>1, <3>2, <3>3
  <2>4. QED
    BY <1>5, <2>1, <2>2, <2>3
<1>7. QED
  BY <1>5, <1>6 DEF B

\* What halving a leaf of live records of one size gives.
LEMMA HalvesAlike ==
    ASSUME NEW leaf, LeafOK(leaf), AllLive(leaf.records), leaf.records # <<>>,
           NEW len, AllOf(leaf.records, len)
    PROVE  LET n   == Len(leaf.records)
               mid == n \div 2
           IN  /\ AllLive(split(leaf).left.records) /\ AllOf(split(leaf).left.records, len)
               /\ AllLive(split(leaf).right.records) /\ AllOf(split(leaf).right.records, len)
               /\ Len(split(leaf).left.records) = mid
               /\ Len(split(leaf).right.records) = n - mid
               /\ mid \in Nat /\ mid <= n - mid /\ n - mid \in Nat
<1> DEFINE r == leaf.records
           n == Len(r)
           mid == n \div 2
           x == SubSeq(r, 1, mid)
           y == SubSeq(r, mid + 1, n)
           a == [leaf EXCEPT !.records = x]
           b == [new_empty EXCEPT !.records = y]
<1>1. /\ r \in Seq(Records) /\ leaf.prev \in Nat /\ leaf.next \in Nat
      /\ LeafBytes(r) \in Nat /\ LeafBytes(r) <= PAGE_SIZE
  BY LeafParts
<1>2. split(leaf).left = compact(a) /\ split(leaf).right = compact(b)
  BY DEF split
<1>3. a.records = x /\ a.prev = leaf.prev /\ a.next = leaf.next
  BY DEF LeafOK, LeafNodes
<1>4. b.records = y /\ b.prev = 0 /\ b.next = 0
  BY DEF new_empty, Leaf, None
<1>5. n \in Nat \ {0} /\ mid \in 0..n /\ mid <= n - mid
  <2>1. n \in Nat \ {0}
    BY <1>1
  <2>2. \A k \in Nat \ {0} : k \div 2 \in 0..k /\ k \div 2 <= k - (k \div 2)
    OBVIOUS
  <2>3. QED
    BY <2>1, <2>2
<1> HIDE DEF mid
<1>6. /\ x \in Seq(Records) /\ y \in Seq(Records) /\ LeafBytes(x) \in Nat /\ LeafBytes(y) \in Nat
      /\ LeafBytes(x) <= LeafBytes(r) /\ LeafBytes(y) <= LeafBytes(r)
      /\ Len(x) = mid /\ Len(y) = n - mid /\ \A j \in 1..(n - mid) : y[j] = r[mid + j]
  BY <1>1, <1>5, BytesParts
<1>7. \A j \in 1..mid : x[j] = r[j]
  BY <1>1, <1>5
<1> HIDE DEF x, y, a, b, r, n
<1>8. LeafBytes(x) <= PAGE_SIZE /\ LeafBytes(y) <= PAGE_SIZE
  BY <1>1, <1>6, SizesAssumption
<1>9. compact(a).records = live(x) /\ compact(b).records = live(y)
  <2>1. compact(a).records = live(x)
    BY <1>1, <1>3, <1>6, <1>8, CompactOK
  <2>2. 0 \in Nat
    OBVIOUS
  <2>3. compact(b).records = live(y)
    BY <1>4, <1>6, <1>8, <2>2, CompactOK
  <2>4. QED
    BY <2>1, <2>3
<1>10. \A j \in 1..n : ~r[j].is_deleted /\ r[j].len = len
  BY DEF AllLive, AllOf, r, n
<1>11. AllLive(x) /\ AllOf(x, len)
  <2>1. ASSUME NEW j \in 1..Len(x) PROVE ~x[j].is_deleted /\ x[j].len = len
    <3>1. x[j] = r[j] /\ j \in 1..n
      BY <1>5, <1>6, <1>7
    <3>2. QED
      BY <1>10, <3>1
  <2>2. QED
    BY <2>1 DEF AllLive, AllOf
<1>12. AllLive(y) /\ AllOf(y, len)
  <2>1. ASSUME NEW j \in 1..Len(y) PROVE ~y[j].is_deleted /\ y[j].len = len
    <3>1. y[j] = r[mid + j] /\ mid + j \in 1..n
      BY <1>5, <1>6
    <3>2. QED
      BY <1>10, <3>1
  <2>2. QED
    BY <2>1 DEF AllLive, AllOf
<1>13. split(leaf).left.records = x /\ split(leaf).right.records = y
  BY <1>2, <1>6, <1>9, <1>11, <1>12, LiveSame
<1>14. mid \in Nat /\ mid <= n - mid /\ n - mid \in Nat
  BY <1>5
<1>15. QED
  BY <1>6, <1>11, <1>12, <1>13, <1>14 DEF mid, n, r

\* A leaf whose live records are as long as the new one takes it, at the
\* latest in one of its halves.
LEMMA SameSizeFits ==
    ASSUME RoomForThree, NEW pgs, NEW h, TreeOK(pgs, h), NEW o, Owned(pgs, h, o),
           NEW leaf \in 1..Len(pgs), h[leaf] = 0,
           NEW row_id \in Keys, row_id \in o[leaf], NEW len \in Payloads, len < MAX_VALUE_SIZE,
           AllOf(pgs[leaf].records, len), ~Bound(Pairs(pgs[leaf].records), row_id)
    PROVE  insert_leaf(pgs, leaf, row_id, len).res = "Ok"
<1> DEFINE R == o[leaf]
           c == compact(pgs[leaf])
           n == Len(c.records)
           halves == split(c)
           m == halves.right.records[1].row_id
           half == IF row_id < m THEN halves.left ELSE halves.right
           put == insert_record(half, row_id, len)
           first == insert_record(pgs[leaf], row_id, len)
           again == insert_record(c, row_id, len)
           halved == split_leaf(pgs, leaf, row_id, len)
           st == insert_leaf(pgs, leaf, row_id, len)
<1>1. LeafOK(pgs[leaf]) /\ LeafOrd(pgs[leaf], R)
  <2>1. LeafOK(pgs[leaf])
    BY KindOf
  <2>2. QED
    BY <2>1 DEF Owned, NodeOrd
<1>2. LeafOK(c) /\ AllLive(c.records)
  BY <1>1, LeafParts, CompactOK
<1>3. /\ LeafOrd(c, R) /\ Pairs(c.records) = Pairs(pgs[leaf].records)
      /\ ToSet(c.records) = {rec \in ToSet(pgs[leaf].records) : ~rec.is_deleted}
  BY <1>1, LeafParts, CompactOrd
<1>4. len <= MAX_VALUE_SIZE /\ len \in Nat
  BY PayloadsAssumption, SizesAssumption
<1>5. pgs[leaf].records \in Seq(Records) /\ c.records \in Seq(Records)
      /\ LeafBytes(c.records) <= PAGE_SIZE
  BY <1>1, <1>2, LeafParts
<1>6. st = CASE first.res = "Ok" -> Done([pgs EXCEPT ![leaf] = first.leaf])
             [] first.res \notin {"Ok", "PageFull"} -> Failed(first.res, pgs)
             [] first.res = "PageFull" ->
                   IF again.res = "Ok" THEN Done([pgs EXCEPT ![leaf] = again.leaf]) ELSE halved
  BY DEF insert_leaf
<1>7. halved.res = put.res \/ halved.res = "Ok"
  <2>1. halved = IF put.res # "Ok" THEN Failed(put.res, pgs)
           ELSE IF row_id < m
                THEN SplitStep(LinkedPages(pgs, leaf, put.leaf, halves.right), m, Len(pgs) + 1)
                ELSE SplitStep(LinkedPages(pgs, leaf, halves.left, put.leaf), m, Len(pgs) + 1)
    BY DEF split_leaf, SplitStep, LinkedPages
  <2> HIDE DEF put, halved, m, halves
  <2>2. QED
    BY <2>1 DEF Failed, SplitStep
<1> HIDE DEF c, R, halves, m, st, first, again, halved, put
<1>8. first.res = "Ok" \/ first.res = "PageFull"
  <2>1. first.res \in {"Ok", "DuplicateKey", "PageFull"}
    BY <1>1, <1>4, InsertResults DEF first
  <2>2. first.res # "DuplicateKey"
    BY <1>1, <1>4, InsertRecordOrd DEF first, R
  <2>3. QED
    BY <2>1, <2>2
<1>9. AllOf(c.records, len)
  <2>1. ASSUME NEW i \in 1..Len(c.records) PROVE c.records[i].len = len
    <3>1. c.records[i] \in ToSet(c.records)
      BY <1>5, Members
    <3>2. c.records[i] \in ToSet(pgs[leaf].records) /\ ~c.records[i].is_deleted
      BY <1>3, <3>1
    <3>3. PICK j \in 1..Len(pgs[leaf].records) : c.records[i] = pgs[leaf].records[j]
      BY <1>5, <3>2, Members
    <3>4. QED
      BY <3>2, <3>3 DEF AllOf
  <2>2. QED
    BY <2>1 DEF AllOf
<1>10. ~Bound(Pairs(c.records), row_id)
  BY <1>3
<1>11. n \in Nat /\ SameBytes(n, len) <= PAGE_SIZE
  <2>1. LeafBytes(c.records) = SameBytes(n, len)
    BY <1>2, <1>5, <1>9, SameSize
  <2>2. QED
    BY <1>5, <2>1
<1>12. again.res = "Ok" <=> SameBytes(n + 1, len) + SLOT_ELEM_SIZE <= PAGE_SIZE
  BY <1>2, <1>4, <1>9, <1>10, RoomInLeaf DEF again
<1>13. ASSUME again.res # "Ok" PROVE put.res = "Ok"
  <2>1. /\ n >= 2
        /\ \A k \in Nat : k <= n - (n \div 2) => SameBytes(k + 1, len) + SLOT_ELEM_SIZE <= PAGE_SIZE
    <3> HIDE DEF n
    <3>1. QED
      BY <1>11, <1>12, <1>13, HalvesHaveRoom
  <2>2. c.records # <<>>
    BY <2>1
  <2>3. LeafOK(halves.left) /\ LeafOK(halves.right)
    BY <1>2, <2>2, SplitOK DEF halves
  <2>4. Pairs(halves.left.records) \cup Pairs(halves.right.records) = Pairs(c.records)
    BY <1>2, <1>3, <2>2, SplitOrd DEF halves
  <2>5. /\ AllLive(halves.left.records) /\ AllOf(halves.left.records, len)
        /\ AllLive(halves.right.records) /\ AllOf(halves.right.records, len)
        /\ Len(halves.left.records) = n \div 2 /\ Len(halves.right.records) = n - (n \div 2)
        /\ n \div 2 \in Nat /\ n \div 2 <= n - (n \div 2) /\ n - (n \div 2) \in Nat
    BY <1>2, <1>9, <2>2, HalvesAlike DEF halves
  <2> HIDE DEF n
  <2>6. LeafOK(half) /\ AllLive(half.records) /\ AllOf(half.records, len)
    BY <2>3, <2>5
  <2>7. ~Bound(Pairs(half.records), row_id)
    BY <1>10, <2>4 DEF Bound
  <2>8. Len(half.records) \in Nat /\ Len(half.records) <= n - (n \div 2)
    BY <2>5
  <2>9. SameBytes(Len(half.records) + 1, len) + SLOT_ELEM_SIZE <= PAGE_SIZE
    BY <2>1, <2>8
  <2> HIDE DEF half
  <2>10. QED
    BY <1>4, <2>6, <2>7, <2>9, RoomInLeaf DEF put
<1>14. CASE first.res = "Ok"
  BY <1>6, <1>14 DEF Done, st
<1>15. CASE first.res = "PageFull"
  <2>1. st = IF again.res = "Ok" THEN Done([pgs EXCEPT ![leaf] = again.leaf]) ELSE halved
    BY <1>6, <1>15
  <2>2. QED
    BY <1>7, <1>13, <2>1 DEF Done, st
<1>16. QED
  BY <1>8, <1>14, <1>15

\* An update that keeps the length of a live record succeeds in place.
LEMMA SameSizeUpdates ==
    ASSUME NEW leaf, LeafOK(leaf), NEW R, LeafOrd(leaf, R), NEW row_id \in Keys,
           NEW len \in Payloads, len < MAX_VALUE_SIZE,
           AllOf(leaf.records, len), Bound(Pairs(leaf.records), row_id)
    PROVE  update_record(leaf, row_id, len).res = "Ok"
<1> DEFINE r == leaf.records
           i == SlotOf(r, row_id)
           up == update_record(leaf, row_id, len)
           x == [leaf EXCEPT !.records[i].len = len, !.free_size = @ - (len - r[i].len)]
<1>1. r \in Seq(Records) /\ Ascending(r) /\ leaf.free_size \in Int /\ leaf.free_size >= 0
  BY LeafParts DEF LeafOrd
<1>2. row_id \in Int
  BY KeyInt
<1>3. PICK j \in 1..Len(r) : r[j].row_id = row_id /\ ~r[j].is_deleted
  BY <1>1, BoundRecord
<1>4. HasKey(r, row_id) /\ j = i
  BY <1>1, <1>2, <1>3, SearchFinds
<1>5. r[i].len = len /\ len \in Nat /\ MAX_VALUE_SIZE \in Nat
  BY <1>3, <1>4, PayloadsAssumption, SizesAssumption DEF AllOf
<1>6. up = IF len >= MAX_VALUE_SIZE THEN Err("TupleTooLarge")
           ELSE IF ~HasKey(r, row_id) THEN Err("KeyNotFound")
           ELSE IF len - r[i].len > leaf.free_size THEN Err("PageFull")
           ELSE Ok(x)
  BY DEF update_record
<1> HIDE DEF x, up, i, r
<1>7. ~(len >= MAX_VALUE_SIZE) /\ ~(len - r[i].len > leaf.free_size)
  BY <1>1, <1>5
<1>8. up = Ok(x)
  BY <1>4, <1>6, <1>7
<1>9. QED
  BY <1>8 DEF Ok, up

\* In an ordered tree, writes of one size succeed.
LEMMA SameSizeWrites ==
    ASSUME RoomForThree, NEW h, TreeOK(pages, h), NEW o, Owned(pages, h, o),
           NEW k \in Keys, NEW len \in Payloads, len < MAX_VALUE_SIZE,
           AllOf(pages[LeafFor(pages, k)].records, len)
    PROVE  IF Bound(Pairs(pages[LeafFor(pages, k)].records), k)
           THEN insert(pages, k, len).res = "DuplicateKey" /\ update(pages, k, len).res = "Ok"
           ELSE insert(pages, k, len).res = "Ok"
<1> DEFINE leaf == LeafFor(pages, k)
           up == update_record(pages[leaf], k, len)
           moved == insert([pages EXCEPT ![leaf] = delete_record(@, k).leaf], k, len)
<1>1. k \in Int /\ len <= MAX_VALUE_SIZE
  BY KeyInt, PayloadsAssumption, SizesAssumption
<1>2. /\ leaf \in 1..Len(pages) /\ h[leaf] = 0 /\ LeafOK(pages[leaf]) /\ k \in o[leaf]
      /\ LeafOrd(pages[leaf], o[leaf])
  BY <1>1, LeafOwned
<1>3. Bound(Contents(pages), k) <=> Bound(Pairs(pages[leaf].records), k)
  BY <1>1, <1>2, BoundAtLeaf
<1>4. /\ insert(pages, k, len).res = "DuplicateKey" <=> Bound(Contents(pages), k)
      /\ insert_leaf(pages, leaf, k, len).res = "Ok" => insert(pages, k, len).res = "Ok"
  BY <1>1, InsertOrd
<1>5. update(pages, k, len)
        = CASE up.res = "Ok" -> Done([pages EXCEPT ![leaf] = up.leaf])
            [] up.res = "PageFull" -> IF moved.res = "Ok" THEN moved ELSE Failed(moved.res, pages)
            [] up.res \notin {"Ok", "PageFull"} -> Failed(up.res, pages)
  BY DEF update
<1> HIDE DEF moved
<1>6. CASE Bound(Pairs(pages[leaf].records), k)
  <2>1. up.res = "Ok"
    BY <1>2, <1>6, SameSizeUpdates
  <2> HIDE DEF up
  <2>2. update(pages, k, len).res = "Ok"
    BY <1>5, <2>1 DEF Done
  <2>3. QED
    BY <1>3, <1>4, <1>6, <2>2
<1>7. CASE ~Bound(Pairs(pages[leaf].records), k)
  <2> HIDE DEF leaf
  <2>1. insert_leaf(pages, leaf, k, len).res = "Ok"
    BY <1>2, <1>7, SameSizeFits DEF leaf
  <2>2. QED
    BY <1>4, <1>7, <2>1 DEF leaf
<1>8. QED
  BY <1>6, <1>7

\* Unless three records of some length fill a page to the last slot, an
\* insertion or update of a legal size into a leaf whose live records have that
\* size is never refused for lack of room, whatever tombstones and earlier
\* splits have left there: compacting and halving the leaf makes enough of it.
THEOREM UniformWrites == RoomForThree => (Spec => []UniformWritesSucceed)
<1> SUFFICES ASSUME RoomForThree PROVE Spec => []UniformWritesSucceed
  OBVIOUS
<1>1. OrderInv => UniformWritesSucceed
  <2> SUFFICES ASSUME OrderInv PROVE UniformWritesSucceed
    OBVIOUS
  <2>1. PICK h, o : TreeOK(pages, h) /\ Owned(pages, h, o)
    BY DEF OrderInv, InOrder
  <2>2. ASSUME NEW k \in Keys, NEW len \in Payloads, len < MAX_VALUE_SIZE,
               \A i \in DOMAIN pages[LeafFor(pages, k)].records :
                  \/ pages[LeafFor(pages, k)].records[i].is_deleted
                  \/ pages[LeafFor(pages, k)].records[i].len = len
        PROVE  IF \E i \in DOMAIN pages[LeafFor(pages, k)].records :
                     /\ pages[LeafFor(pages, k)].records[i].row_id = k
                     /\ ~pages[LeafFor(pages, k)].records[i].is_deleted
               THEN insert(pages, k, len).res = "DuplicateKey" /\ update(pages, k, len).res = "Ok"
               ELSE insert(pages, k, len).res = "Ok"
    <3> DEFINE r == pages[LeafFor(pages, k)].records
    <3>1. k \in Int
      BY KeyInt
    <3>2. r \in Seq(Records)
      BY <2>1, <3>1, LeafOwned, LeafParts
    <3>3. DOMAIN r = 1..Len(r)
      BY <3>2
    <3>4. AllOf(r, len)
      BY <2>2, <3>3 DEF AllOf
    <3>5. Bound(Pairs(r), k) <=> \E i \in DOMAIN r : r[i].row_id = k /\ ~r[i].is_deleted
      BY <3>2, <3>3, BoundRecord
    <3>6. IF Bound(Pairs(r), k)
          THEN insert(pages, k, len).res = "DuplicateKey" /\ update(pages, k, len).res = "Ok"
          ELSE insert(pages, k, len).res = "Ok"
      BY <2>1, <2>2, <3>4, SameSizeWrites
    <3>7. QED
      BY <3>5, <3>6
  <2>3. QED
    BY <2>2 DEF UniformWritesSucceed
<1>2. QED
  BY <1>1, OrderInvariant, PTL
=============================================================================
