---------------------------- MODULE BpTreeProofs ----------------------------
(***************************************************************************)
(* The B+-tree keeps its nodes well-formed, its pages small enough to be   *)
(* encoded and its leaves at one depth, for every page size, every set of  *)
(* keys and payloads and every history of insertions, updates, deletions   *)
(* and reloads.                                                            *)
(***************************************************************************)
EXTENDS BpTree, Recursion, FiniteSetTheorems, SequenceTheorems

-----------------------------------------------------------------------------
(* The bytes of a leaf. *)

\* bytes is the recursion of LeafBytes on records.
IsBytes(bytes, records) ==
    /\ bytes \in [0..Len(records) -> Nat]
    /\ bytes[0] = LEAF_NODE_HEADER_SIZE
    /\ \A n \in 1..Len(records) : bytes[n] = bytes[n - 1] + RecordSize(records[n])

\* A function on 1..n is a sequence of length n.
LEMMA FunctionIsSeq ==
    ASSUME NEW S, NEW n \in Nat, NEW f \in [1..n -> S]
    PROVE  f \in Seq(S) /\ Len(f) = n /\ DOMAIN f = 1..n
OBVIOUS

\* The size of a record.
LEMMA RecordSizeNat ==
    ASSUME NEW rec \in Records
    PROVE  RecordSize(rec) \in Nat /\ rec.len \in Nat
<1>1. rec.len \in Payloads
  BY DEF Records
<1>2. rec.len \in Nat
  BY <1>1, PayloadsAssumption
<1>3. QED
  BY <1>2, SizesAssumption DEF RecordSize

\* LeafBytes is the last value of its recursion.
LEMMA BytesExist ==
    ASSUME NEW records \in Seq(Records)
    PROVE  \E bytes : IsBytes(bytes, records) /\ LeafBytes(records) = bytes[Len(records)]
<1> DEFINE N == Len(records)
           body(u) == [n \in 0..N |->
                         IF n = 0 THEN LEAF_NODE_HEADER_SIZE ELSE u[n - 1] + RecordSize(records[n])]
           g == [n \in 1..N |-> [v \in Nat |-> v + RecordSize(records[n])]]
           w == CHOOSE u : u = body(u)
<1>1. N \in Nat /\ LEAF_NODE_HEADER_SIZE \in Nat
  BY SizesAssumption
<1>2. \A n \in 1..N : RecordSize(records[n]) \in Nat
  BY RecordSizeNat
<1>3. g \in [1..N -> [Nat -> Nat]]
  BY <1>2
<1>4. \A n \in 1..N, v \in Nat : g[n][v] = v + RecordSize(records[n])
  OBVIOUS
<1>5. \E u : u = body(u)
  <2> HIDE DEF g, N
  <2>1. PICK u : IsRecursive(u, N, Nat, LEAF_NODE_HEADER_SIZE, g)
    BY <1>1, <1>3, RecursiveFunction
  <2>2. /\ u = [n \in 0..N |-> u[n]] /\ u[0] = LEAF_NODE_HEADER_SIZE
        /\ \A n \in 1..N : u[n] = u[n - 1] + RecordSize(records[n])
    <3>1. u \in [0..N -> Nat] /\ \A n \in 1..N : u[n] = g[n][u[n - 1]]
      BY <2>1 DEF IsRecursive
    <3>2. \A n \in 1..N : u[n - 1] \in Nat
      BY <1>1, <3>1
    <3>3. \A n \in 1..N : u[n] = u[n - 1] + RecordSize(records[n])
      BY <1>4, <3>1, <3>2
    <3>4. QED
      BY <2>1, <3>1, <3>3 DEF IsRecursive
  <2>3. \A n \in 0..N : u[n] = IF n = 0 THEN LEAF_NODE_HEADER_SIZE
                               ELSE u[n - 1] + RecordSize(records[n])
    <3>1. SUFFICES ASSUME NEW n \in 0..N
                   PROVE  u[n] = IF n = 0 THEN LEAF_NODE_HEADER_SIZE
                                 ELSE u[n - 1] + RecordSize(records[n])
      OBVIOUS
    <3>2. CASE n = 0
      BY <2>2, <3>2
    <3>3. CASE n # 0
      <4>1. n \in 1..N
        BY <1>1, <3>3
      <4>2. u[n] = u[n - 1] + RecordSize(records[n])
        BY <2>2, <4>1
      <4>3. QED
        BY <3>3, <4>2
    <3>4. QED
      BY <3>2, <3>3
  <2>4. u = body(u)
    BY <2>2, <2>3
  <2>5. QED
    BY <2>4
<1>6. w = body(w)
  <2> HIDE DEF body
  <2>1. QED
    BY <1>5
<1>7. LeafBytes(records) = w[N]
  BY DEF LeafBytes
<1> HIDE DEF w
<1>8. \A n \in 0..N : w[n] = IF n = 0 THEN LEAF_NODE_HEADER_SIZE
                             ELSE w[n - 1] + RecordSize(records[n])
  <2>1. \A n \in 0..N : body(w)[n] = IF n = 0 THEN LEAF_NODE_HEADER_SIZE
                                     ELSE w[n - 1] + RecordSize(records[n])
    OBVIOUS
  <2> HIDE DEF body
  <2>2. QED
    BY <1>6, <2>1
<1>9. w[0] = LEAF_NODE_HEADER_SIZE /\ \A n \in 1..N : w[n] = w[n - 1] + RecordSize(records[n])
  BY <1>1, <1>8
<1>10. \A n \in 0..N : w[n] \in Nat
  <2> DEFINE P == {n \in 0..N : w[n] \in Nat}
  <2>1. 0 \in P
    BY <1>1, <1>9
  <2>2. ASSUME NEW n \in 0..(N - 1), n \in P PROVE n + 1 \in P
    <3>1. n + 1 \in 1..N /\ (n + 1) - 1 = n
      BY <1>1
    <3>2. w[n + 1] = w[n] + RecordSize(records[n + 1]) /\ RecordSize(records[n + 1]) \in Nat
      BY <1>2, <1>9, <3>1
    <3>3. QED
      BY <2>2, <3>1, <3>2
  <2>3. \A n \in 0..N : n \in P
    <3> HIDE DEF P, N
    <3>1. QED
      BY <1>1, <2>1, <2>2, BoundedInduction
  <2>4. QED
    BY <2>3
<1>11. w = [n \in 0..N |-> w[n]]
  <2>1. body(w) = [n \in 0..N |-> body(w)[n]]
    OBVIOUS
  <2> HIDE DEF body
  <2>2. QED
    BY <1>6, <2>1
<1>12. w \in [0..N -> Nat]
  BY <1>10, <1>11
<1>13. IsBytes(w, records)
  BY <1>9, <1>12 DEF IsBytes
<1>14. QED
  BY <1>7, <1>13

\* A leaf needs at least its header, and every record its size.
LEMMA BytesNat ==
    ASSUME NEW records \in Seq(Records)
    PROVE  LeafBytes(records) \in Nat
<1>1. PICK b : IsBytes(b, records) /\ LeafBytes(records) = b[Len(records)]
  BY BytesExist
<1>2. QED
  BY <1>1 DEF IsBytes

\* No records, no bytes but the header.
LEMMA BytesEmpty == LeafBytes(<<>>) = LEAF_NODE_HEADER_SIZE
<1>1. <<>> \in Seq(Records) /\ Len(<<>>) = 0
  OBVIOUS
<1>2. PICK b : IsBytes(b, <<>>) /\ LeafBytes(<<>>) = b[Len(<<>>)]
  BY <1>1, BytesExist
<1>3. QED
  BY <1>1, <1>2 DEF IsBytes

\* The records of two sequences one after the other.
LEMMA BytesConcat ==
    ASSUME NEW r \in Seq(Records), NEW s \in Seq(Records)
    PROVE  /\ r \o s \in Seq(Records)
           /\ LeafBytes(r \o s) = LeafBytes(r) + LeafBytes(s) - LEAF_NODE_HEADER_SIZE
<1> DEFINE t == r \o s
           H == LEAF_NODE_HEADER_SIZE
           M == Len(r)
           N == Len(s)
<1>1. /\ t \in Seq(Records) /\ Len(t) = M + N /\ M \in Nat /\ N \in Nat /\ H \in Nat
      /\ \A j \in 1..M : t[j] = r[j]
      /\ \A j \in 1..N : t[M + j] = s[j]
  BY SizesAssumption
<1> HIDE DEF t, H
<1>2. PICK a : IsBytes(a, r) /\ LeafBytes(r) = a[M]
  BY BytesExist
<1>3. PICK b : IsBytes(b, s) /\ LeafBytes(s) = b[N]
  BY BytesExist
<1>4. PICK c : IsBytes(c, t) /\ LeafBytes(t) = c[M + N]
  BY <1>1, BytesExist
<1> HIDE DEF M, N
<1>5. /\ a[0] = H /\ b[0] = H /\ c[0] = H
      /\ \A j \in 0..M : a[j] \in Nat
      /\ \A j \in 0..N : b[j] \in Nat
      /\ \A j \in 1..M : a[j] = a[j - 1] + RecordSize(r[j])
      /\ \A j \in 1..N : b[j] = b[j - 1] + RecordSize(s[j])
      /\ \A j \in 1..(M + N) : c[j] = c[j - 1] + RecordSize(t[j])
  BY <1>1, <1>2, <1>3, <1>4 DEF IsBytes, M, N, H
<1>6. \A n \in 0..M : c[n] = a[n]
  <2> DEFINE P == {n \in 0..M : c[n] = a[n]}
  <2>1. 0 \in P
    BY <1>1, <1>5
  <2>2. ASSUME NEW n \in 0..(M - 1), n \in P PROVE n + 1 \in P
    <3>1. n + 1 \in 1..M /\ n + 1 \in 1..(M + N) /\ (n + 1) - 1 = n
      BY <1>1
    <3>2. a[n + 1] = a[n] + RecordSize(r[n + 1]) /\ c[n + 1] = c[n] + RecordSize(t[n + 1])
      BY <1>5, <3>1
    <3>3. t[n + 1] = r[n + 1] /\ c[n] = a[n]
      BY <1>1, <2>2, <3>1
    <3>4. QED
      BY <3>1, <3>2, <3>3
  <2>3. \A n \in 0..M : n \in P
    <3> HIDE DEF P
    <3>1. QED
      BY <1>1, <2>1, <2>2, BoundedInduction
  <2>4. QED
    BY <2>3
<1>7. \A n \in 0..N : c[M + n] = a[M] + b[n] - H
  <2> DEFINE P == {n \in 0..N : c[M + n] = a[M] + b[n] - H}
  <2>1. 0 \in P
    <3>1. c[M] = a[M] /\ a[M] \in Nat /\ M + 0 = M
      BY <1>1, <1>5, <1>6
    <3>2. QED
      BY <1>1, <1>5, <3>1
  <2>2. ASSUME NEW n \in 0..(N - 1), n \in P PROVE n + 1 \in P
    <3>1. /\ n + 1 \in 1..N /\ M + (n + 1) \in 1..(M + N) /\ (n + 1) - 1 = n /\ n \in 0..N
          /\ (M + (n + 1)) - 1 = M + n
      BY <1>1
    <3>2. /\ b[n + 1] = b[n] + RecordSize(s[n + 1])
          /\ c[M + (n + 1)] = c[M + n] + RecordSize(t[M + (n + 1)])
      BY <1>5, <3>1
    <3>3. t[M + (n + 1)] = s[n + 1] /\ c[M + n] = a[M] + b[n] - H
      BY <1>1, <2>2, <3>1
    <3>4. a[M] \in Nat /\ b[n] \in Nat /\ RecordSize(s[n + 1]) \in Nat
      BY <1>1, <1>5, <3>1, RecordSizeNat DEF N
    <3>5. c[M + (n + 1)] = a[M] + b[n + 1] - H
      <4>1. c[M + (n + 1)] = (a[M] + b[n] - H) + RecordSize(s[n + 1])
        BY <3>2, <3>3
      <4>2. \A x, y, z \in Nat : (x + y - H) + z = x + (y + z) - H
        BY <1>1
      <4>3. (a[M] + b[n] - H) + RecordSize(s[n + 1]) = a[M] + (b[n] + RecordSize(s[n + 1])) - H
        BY <3>4, <4>2
      <4>4. QED
        BY <3>2, <4>1, <4>3
    <3>6. QED
      BY <3>1, <3>5
  <2>3. \A n \in 0..N : n \in P
    <3> HIDE DEF P
    <3>1. QED
      BY <1>1, <2>1, <2>2, BoundedInduction
  <2>4. QED
    BY <2>3
<1>8. c[M + N] = a[M] + b[N] - H
  BY <1>1, <1>7
<1>9. QED
  BY <1>1, <1>2, <1>3, <1>4, <1>8 DEF t, H

\* One record.
LEMMA BytesOne ==
    ASSUME NEW rec \in Records
    PROVE  /\ <<rec>> \in Seq(Records)
           /\ LeafBytes(<<rec>>) = LEAF_NODE_HEADER_SIZE + RecordSize(rec)
<1>1. <<rec>> \in Seq(Records) /\ Len(<<rec>>) = 1 /\ <<rec>>[1] = rec
  OBVIOUS
<1>2. PICK b : IsBytes(b, <<rec>>) /\ LeafBytes(<<rec>>) = b[Len(<<rec>>)]
  BY <1>1, BytesExist
<1>3. /\ b[0] = LEAF_NODE_HEADER_SIZE
      /\ \A n \in 1..1 : b[n] = b[n - 1] + RecordSize(<<rec>>[n])
  BY <1>1, <1>2 DEF IsBytes
<1>4. b[1] = b[1 - 1] + RecordSize(rec) /\ 1 - 1 = 0
  BY <1>1, <1>3
<1>5. QED
  BY <1>1, <1>2, <1>3, <1>4

\* A leaf needs at least its header.
LEMMA BytesHeader ==
    ASSUME NEW records \in Seq(Records)
    PROVE  LeafBytes(records) >= LEAF_NODE_HEADER_SIZE
<1> DEFINE N == Len(records)
<1>1. PICK b : IsBytes(b, records) /\ LeafBytes(records) = b[N]
  BY BytesExist
<1>2. /\ N \in Nat /\ b[0] = LEAF_NODE_HEADER_SIZE
      /\ \A n \in 0..N : b[n] \in Nat
      /\ \A n \in 1..N : b[n] = b[n - 1] + RecordSize(records[n]) /\ RecordSize(records[n]) \in Nat
  <2>1. N \in Nat /\ \A n \in 1..N : records[n] \in Records
    OBVIOUS
  <2>2. \A n \in 1..N : RecordSize(records[n]) \in Nat
    BY <2>1, RecordSizeNat
  <2>3. /\ b[0] = LEAF_NODE_HEADER_SIZE /\ \A n \in 0..N : b[n] \in Nat
        /\ \A n \in 1..N : b[n] = b[n - 1] + RecordSize(records[n])
    BY <1>1 DEF IsBytes
  <2>4. QED
    BY <2>1, <2>2, <2>3
<1> DEFINE P == {n \in 0..N : b[n] >= LEAF_NODE_HEADER_SIZE}
<1> HIDE DEF N
<1>3. 0 \in P
  BY <1>2, SizesAssumption
<1>4. ASSUME NEW n \in 0..(N - 1), n \in P PROVE n + 1 \in P
  <2>1. n + 1 \in 1..N /\ (n + 1) - 1 = n /\ n \in 0..N
    BY <1>2
  <2>2. b[n + 1] = b[n] + RecordSize(records[n + 1]) /\ RecordSize(records[n + 1]) \in Nat /\ b[n] \in Nat
    BY <1>2, <2>1
  <2>3. b[n] >= LEAF_NODE_HEADER_SIZE
    BY <1>4
  <2>4. b[n + 1] >= LEAF_NODE_HEADER_SIZE
    BY <2>2, <2>3, SizesAssumption
  <2>5. QED
    BY <2>1, <2>4
<1>5. \A n \in 0..N : n \in P
  <2> HIDE DEF P
  <2>1. QED
    BY <1>2, <1>3, <1>4, BoundedInduction
<1>6. QED
  BY <1>1, <1>2, <1>5

\* A part of the records needs no more than all of them.
LEMMA BytesParts ==
    ASSUME NEW r \in Seq(Records), NEW k \in 0..Len(r)
    PROVE  /\ SubSeq(r, 1, k) \in Seq(Records) /\ Len(SubSeq(r, 1, k)) = k
           /\ SubSeq(r, k + 1, Len(r)) \in Seq(Records)
           /\ Len(SubSeq(r, k + 1, Len(r))) = Len(r) - k
           /\ \A j \in 1..(Len(r) - k) : SubSeq(r, k + 1, Len(r))[j] = r[k + j]
           /\ LeafBytes(SubSeq(r, 1, k)) \in Nat /\ LeafBytes(SubSeq(r, k + 1, Len(r))) \in Nat
           /\ LeafBytes(r) = LeafBytes(SubSeq(r, 1, k)) + LeafBytes(SubSeq(r, k + 1, Len(r)))
                               - LEAF_NODE_HEADER_SIZE
           /\ LeafBytes(SubSeq(r, 1, k)) <= LeafBytes(r)
           /\ LeafBytes(SubSeq(r, k + 1, Len(r))) <= LeafBytes(r)
<1> DEFINE x == SubSeq(r, 1, k)
           y == SubSeq(r, k + 1, Len(r))
<1>1. x \in Seq(Records) /\ Len(x) = k /\ \A j \in 1..k : x[j] = r[j]
  OBVIOUS
<1>2. /\ y \in Seq(Records) /\ Len(y) = Len(r) - k
      /\ \A j \in 1..(Len(r) - k) : y[j] = r[k + j]
  OBVIOUS
<1>3. r = x \o y
  <2>1. /\ 1 \in 1..(Len(r) + 1) /\ k \in (1 - 1)..Len(r) /\ Len(r) \in k..Len(r)
    OBVIOUS
  <2>2. x \o y = SubSeq(r, 1, Len(r))
    BY <2>1, ConcatAdjacentSubSeq
  <2>3. QED
    BY <2>2, SubSeqFull
<1>4. LeafBytes(x) \in Nat /\ LeafBytes(y) \in Nat /\ LeafBytes(r) \in Nat
  BY <1>1, <1>2, BytesNat
<1>5. LeafBytes(x \o y) = LeafBytes(x) + LeafBytes(y) - LEAF_NODE_HEADER_SIZE
  BY <1>1, <1>2, BytesConcat
<1>6. LeafBytes(x) >= LEAF_NODE_HEADER_SIZE /\ LeafBytes(y) >= LEAF_NODE_HEADER_SIZE
  BY <1>1, <1>2, BytesHeader
<1> HIDE DEF x, y
<1>7. /\ LeafBytes(r) = LeafBytes(x) + LeafBytes(y) - LEAF_NODE_HEADER_SIZE
      /\ LeafBytes(x) <= LeafBytes(r) /\ LeafBytes(y) <= LeafBytes(r)
  <2>1. LeafBytes(r) = LeafBytes(x) + LeafBytes(y) - LEAF_NODE_HEADER_SIZE
    BY <1>3, <1>5
  <2>2. QED
    BY <1>4, <1>6, <2>1, SizesAssumption
<1>8. QED
  BY <1>1, <1>2, <1>4, <1>7 DEF x, y

\* A record is put between others.
LEMMA BytesInsert ==
    ASSUME NEW r \in Seq(Records), NEW rec \in Records, NEW i \in 1..(Len(r) + 1)
    PROVE  /\ InsertAt(r, i, rec) \in Seq(Records)
           /\ LeafBytes(InsertAt(r, i, rec)) = LeafBytes(r) + RecordSize(rec)
<1> DEFINE x == SubSeq(r, 1, i - 1)
           y == SubSeq(r, i, Len(r))
           H == LEAF_NODE_HEADER_SIZE
<1>1. i - 1 \in 0..Len(r) /\ (i - 1) + 1 = i
  OBVIOUS
<1>2. /\ x \in Seq(Records) /\ y \in Seq(Records)
      /\ LeafBytes(x) \in Nat /\ LeafBytes(y) \in Nat
      /\ LeafBytes(r) = LeafBytes(x) + LeafBytes(y) - H
  BY <1>1, BytesParts
<1>3. InsertAt(r, i, rec) = (x \o <<rec>>) \o y
  BY DEF InsertAt
<1>4. <<rec>> \in Seq(Records) /\ LeafBytes(<<rec>>) = H + RecordSize(rec)
  BY BytesOne
<1> HIDE DEF x, y
<1>5. /\ x \o <<rec>> \in Seq(Records)
      /\ LeafBytes(x \o <<rec>>) = LeafBytes(x) + LeafBytes(<<rec>>) - H
  BY <1>2, <1>4, BytesConcat
<1>6. /\ (x \o <<rec>>) \o y \in Seq(Records)
      /\ LeafBytes((x \o <<rec>>) \o y) = LeafBytes(x \o <<rec>>) + LeafBytes(y) - H
  BY <1>2, <1>5, BytesConcat
<1>7. RecordSize(rec) \in Nat /\ H \in Nat
  BY RecordSizeNat, SizesAssumption
<1> HIDE DEF H
<1>8. LeafBytes(InsertAt(r, i, rec)) = LeafBytes(x) + (H + RecordSize(rec)) - H + LeafBytes(y) - H
  BY <1>3, <1>4, <1>5, <1>6
<1>9. QED
  BY <1>2, <1>3, <1>6, <1>7, <1>8

\* A sequence with one element replaced, as a concatenation.
LEMMA ReplaceSplits ==
    ASSUME NEW S, NEW r \in Seq(S), NEW e \in S, NEW i \in 1..Len(r)
    PROVE  [r EXCEPT ![i] = e] = (SubSeq(r, 1, i - 1) \o <<e>>) \o SubSeq(r, i + 1, Len(r))
<1> DEFINE t == [r EXCEPT ![i] = e]
           x == SubSeq(r, 1, i - 1)
           u == SubSeq(r, i + 1, Len(r))
           xe == x \o <<e>>
<1>1. t \in Seq(S) /\ Len(t) = Len(r) /\ \A j \in 1..Len(r) : t[j] = IF j = i THEN e ELSE r[j]
  BY ExceptSeq
<1>2. x \in Seq(S) /\ Len(x) = i - 1 /\ \A j \in 1..(i - 1) : x[j] = r[j]
  OBVIOUS
<1>3. u \in Seq(S) /\ Len(u) = Len(r) - i /\ \A j \in 1..(Len(r) - i) : u[j] = r[i + j]
  OBVIOUS
<1> HIDE DEF x, u, t
<1>4. xe \in Seq(S) /\ Len(xe) = i /\ \A j \in 1..i : xe[j] = IF j = i THEN e ELSE r[j]
  <2>1. <<e>> \in Seq(S) /\ Len(<<e>>) = 1 /\ <<e>>[1] = e
    OBVIOUS
  <2>2. /\ xe \in Seq(S) /\ Len(xe) = i
        /\ \A j \in 1..i : xe[j] = IF j <= i - 1 THEN x[j] ELSE <<e>>[j - (i - 1)]
    BY <1>2, <2>1, ConcatProperties
  <2>3. ASSUME NEW j \in 1..i PROVE xe[j] = IF j = i THEN e ELSE r[j]
    <3>1. CASE j = i
      <4>1. ~(j <= i - 1) /\ j - (i - 1) = 1
        BY <3>1
      <4>2. xe[j] = <<e>>[1]
        BY <2>2, <4>1
      <4>3. QED
        BY <2>1, <3>1, <4>2
    <3>2. CASE j # i
      <4>1. j <= i - 1 /\ j \in 1..(i - 1)
        BY <3>2
      <4>2. QED
        BY <1>2, <2>2, <3>2, <4>1
    <3>3. QED
      BY <3>1, <3>2
  <2>4. QED
    BY <2>2, <2>3
<1> HIDE DEF xe
<1>5. /\ xe \o u \in Seq(S) /\ Len(xe \o u) = Len(r)
      /\ \A j \in 1..Len(r) : (xe \o u)[j] = IF j <= i THEN xe[j] ELSE u[j - i]
  BY <1>3, <1>4, ConcatProperties
<1>6. ASSUME NEW j \in 1..Len(r) PROVE t[j] = (xe \o u)[j]
  <2>1. CASE j <= i
    <3>1. j \in 1..i
      BY <2>1
    <3>2. QED
      BY <1>1, <1>4, <1>5, <2>1, <3>1
  <2>2. CASE ~(j <= i)
    <3>1. j - i \in 1..(Len(r) - i) /\ i + (j - i) = j /\ j # i
      BY <2>2
    <3>2. u[j - i] = r[j]
      BY <1>3, <3>1
    <3>3. QED
      BY <1>1, <1>5, <2>2, <3>1, <3>2
  <2>3. QED
    BY <2>1, <2>2
<1>7. t = xe \o u
  BY <1>1, <1>5, <1>6, SeqEqual
<1>8. QED
  BY <1>7 DEF t, xe, x, u

\* A record takes the place of another.
LEMMA BytesReplace ==
    ASSUME NEW r \in Seq(Records), NEW rec \in Records, NEW i \in 1..Len(r)
    PROVE  /\ [r EXCEPT ![i] = rec] \in Seq(Records)
           /\ LeafBytes([r EXCEPT ![i] = rec]) = LeafBytes(r) + rec.len - r[i].len
<1> DEFINE t == [r EXCEPT ![i] = rec]
           x == SubSeq(r, 1, i - 1)
           y == SubSeq(r, i, Len(r))
           z == SubSeq(t, i, Len(r))
           u == SubSeq(r, i + 1, Len(r))
<1>1. i - 1 \in 0..Len(r) /\ (i - 1) + 1 = i /\ i \in 0..Len(r)
  OBVIOUS
<1>2. t \in Seq(Records) /\ Len(t) = Len(r)
  OBVIOUS
<1>3. /\ x \in Seq(Records) /\ u \in Seq(Records) /\ Len(x) = i - 1 /\ Len(u) = Len(r) - i
      /\ \A j \in 1..(Len(r) - i) : u[j] = r[i + j]
      /\ LeafBytes(x) \in Nat /\ LeafBytes(u) \in Nat
  BY <1>1, BytesParts
<1>4. \A j \in 1..(i - 1) : x[j] = r[j]
  OBVIOUS
<1> HIDE DEF x, u
<1>5. r = (x \o <<r[i]>>) \o u
  <2>1. r = [r EXCEPT ![i] = r[i]] /\ r[i] \in Records
    OBVIOUS
  <2>2. QED
    BY <2>1, ReplaceSplits DEF x, u
<1>6. t = (x \o <<rec>>) \o u
  BY ReplaceSplits DEF x, u
<1>7. ASSUME NEW e \in Records
      PROVE  LeafBytes((x \o <<e>>) \o u) = LeafBytes(x) + LeafBytes(u) + RecordSize(e) - LEAF_NODE_HEADER_SIZE
  <2>1. <<e>> \in Seq(Records) /\ LeafBytes(<<e>>) = LEAF_NODE_HEADER_SIZE + RecordSize(e)
    BY BytesOne
  <2>2. /\ x \o <<e>> \in Seq(Records)
        /\ LeafBytes(x \o <<e>>) = LeafBytes(x) + LeafBytes(<<e>>) - LEAF_NODE_HEADER_SIZE
    BY <1>3, <2>1, BytesConcat
  <2>3. LeafBytes((x \o <<e>>) \o u) = LeafBytes(x \o <<e>>) + LeafBytes(u) - LEAF_NODE_HEADER_SIZE
    BY <1>3, <2>2, BytesConcat
  <2>4. RecordSize(e) \in Nat /\ LEAF_NODE_HEADER_SIZE \in Nat
    BY RecordSizeNat, SizesAssumption
  <2>5. LeafBytes((x \o <<e>>) \o u)
          = (LeafBytes(x) + (LEAF_NODE_HEADER_SIZE + RecordSize(e)) - LEAF_NODE_HEADER_SIZE)
              + LeafBytes(u) - LEAF_NODE_HEADER_SIZE
    BY <2>1, <2>2, <2>3
  <2>6. QED
    BY <1>3, <2>4, <2>5
<1>8. r[i] \in Records /\ r[i].len \in Nat /\ rec.len \in Nat
  BY RecordSizeNat
<1>9. /\ LeafBytes(r) = LeafBytes(x) + LeafBytes(u) + RecordSize(r[i]) - LEAF_NODE_HEADER_SIZE
      /\ LeafBytes(t) = LeafBytes(x) + LeafBytes(u) + RecordSize(rec) - LEAF_NODE_HEADER_SIZE
  BY <1>5, <1>6, <1>7, <1>8
<1>10. /\ RecordSize(r[i]) = SLOT_ELEM_SIZE + RECORD_META_SIZE + r[i].len
       /\ RecordSize(rec) = SLOT_ELEM_SIZE + RECORD_META_SIZE + rec.len
  BY DEF RecordSize
<1> HIDE DEF t
<1>11. LeafBytes(t) = LeafBytes(r) + rec.len - r[i].len
  <2>1. SLOT_ELEM_SIZE \in Nat /\ RECORD_META_SIZE \in Nat /\ LEAF_NODE_HEADER_SIZE \in Nat
    BY SizesAssumption
  <2>2. LeafBytes(x) \in Nat /\ LeafBytes(u) \in Nat /\ r[i].len \in Nat /\ rec.len \in Nat
    BY <1>3, <1>8
  <2>3. LeafBytes(x) + LeafBytes(u) + (SLOT_ELEM_SIZE + RECORD_META_SIZE + rec.len) - LEAF_NODE_HEADER_SIZE
          = (LeafBytes(x) + LeafBytes(u) + (SLOT_ELEM_SIZE + RECORD_META_SIZE + r[i].len)
               - LEAF_NODE_HEADER_SIZE) + rec.len - r[i].len
    BY <2>1, <2>2, SMTT(30)
  <2>4. QED
    BY <1>9, <1>10, <2>3
<1>12. QED
  BY <1>2, <1>11 DEF t

\* A record behind the others.
LEMMA BytesAppend ==
    ASSUME NEW r \in Seq(Records), NEW rec \in Records
    PROVE  /\ Append(r, rec) \in Seq(Records)
           /\ LeafBytes(Append(r, rec)) = LeafBytes(r) + RecordSize(rec)
<1>1. Append(r, rec) = r \o <<rec>>
  BY AppendIsConcat
<1>2. <<rec>> \in Seq(Records) /\ LeafBytes(<<rec>>) = LEAF_NODE_HEADER_SIZE + RecordSize(rec)
  BY BytesOne
<1>3. /\ r \o <<rec>> \in Seq(Records)
      /\ LeafBytes(r \o <<rec>>) = LeafBytes(r) + LeafBytes(<<rec>>) - LEAF_NODE_HEADER_SIZE
  BY <1>2, BytesConcat
<1>4. RecordSize(rec) \in Nat /\ LeafBytes(r) \in Nat /\ LEAF_NODE_HEADER_SIZE \in Nat
  BY RecordSizeNat, BytesNat, SizesAssumption
<1>5. LeafBytes(Append(r, rec)) = LeafBytes(r) + (LEAF_NODE_HEADER_SIZE + RecordSize(rec)) - LEAF_NODE_HEADER_SIZE
  BY <1>1, <1>2, <1>3
<1>6. QED
  BY <1>1, <1>3, <1>4, <1>5

-----------------------------------------------------------------------------
(* The records that a compaction keeps. *)

\* kept is the recursion of live on records.
IsKept(kept, records) ==
    /\ kept \in [0..Len(records) -> Seq(Records)]
    /\ kept[0] = <<>>
    /\ \A n \in 1..Len(records) :
          kept[n] = IF records[n].is_deleted THEN kept[n - 1] ELSE Append(kept[n - 1], records[n])

\* live is the last value of its recursion.
LEMMA KeptExists ==
    ASSUME NEW records \in Seq(Records)
    PROVE  \E kept : IsKept(kept, records) /\ live(records) = kept[Len(records)]
<1> DEFINE N == Len(records)
           step(n, v) == IF records[n].is_deleted THEN v ELSE Append(v, records[n])
           body(u) == [n \in 0..N |-> IF n = 0 THEN <<>> ELSE
                                      IF records[n].is_deleted THEN u[n - 1]
                                      ELSE Append(u[n - 1], records[n])]
           g == [n \in 1..N |-> [v \in Seq(Records) |-> step(n, v)]]
           w == CHOOSE u : u = body(u)
<1>1. N \in Nat /\ <<>> \in Seq(Records)
  OBVIOUS
<1>2. \A n \in 1..N, v \in Seq(Records) : step(n, v) \in Seq(Records)
  OBVIOUS
<1>3. g \in [1..N -> [Seq(Records) -> Seq(Records)]]
  BY <1>2
<1>4. \A n \in 1..N, v \in Seq(Records) : g[n][v] = step(n, v)
  OBVIOUS
<1>5. \E u : u = body(u)
  <2> HIDE DEF g, N
  <2>1. PICK u : IsRecursive(u, N, Seq(Records), <<>>, g)
    BY <1>1, <1>3, RecursiveFunction
  <2>2. u \in [0..N -> Seq(Records)] /\ u[0] = <<>> /\ \A n \in 1..N : u[n] = g[n][u[n - 1]]
    BY <2>1 DEF IsRecursive
  <2>3. ASSUME NEW n \in 0..N
        PROVE  u[n] = IF n = 0 THEN <<>> ELSE
                      IF records[n].is_deleted THEN u[n - 1] ELSE Append(u[n - 1], records[n])
    <3>1. CASE n = 0
      BY <2>2, <3>1
    <3>2. CASE n # 0
      <4>1. n \in 1..N /\ n - 1 \in 0..N
        BY <1>1, <3>2
      <4>2. u[n] = g[n][u[n - 1]] /\ u[n - 1] \in Seq(Records)
        BY <2>2, <4>1
      <4>3. u[n] = step(n, u[n - 1])
        BY <1>4, <4>1, <4>2
      <4>4. QED
        BY <3>2, <4>3
    <3>3. QED
      BY <3>1, <3>2
  <2>4. u = body(u)
    BY <2>2, <2>3
  <2>5. QED
    BY <2>4
<1>6. w = body(w)
  <2> HIDE DEF body
  <2>1. QED
    BY <1>5
<1>7. live(records) = w[N]
  BY DEF live
<1> HIDE DEF w
<1>8. \A n \in 0..N : w[n] = IF n = 0 THEN <<>> ELSE
                             IF records[n].is_deleted THEN w[n - 1] ELSE Append(w[n - 1], records[n])
  <2>1. \A n \in 0..N : body(w)[n] = IF n = 0 THEN <<>> ELSE
                             IF records[n].is_deleted THEN w[n - 1] ELSE Append(w[n - 1], records[n])
    OBVIOUS
  <2> HIDE DEF body
  <2>2. QED
    BY <1>6, <2>1
<1>9. w[0] = <<>>
  BY <1>1, <1>8
<1>10. ASSUME NEW n \in 1..N
       PROVE  w[n] = IF records[n].is_deleted THEN w[n - 1] ELSE Append(w[n - 1], records[n])
  <2>1. n \in 0..N /\ n # 0
    BY <1>1
  <2>2. QED
    BY <1>8, <2>1
<1>11. \A n \in 0..N : w[n] \in Seq(Records)
  <2> DEFINE P == {n \in 0..N : w[n] \in Seq(Records)}
  <2>1. 0 \in P
    <3>1. w[0] \in Seq(Records)
      BY <1>1, <1>9
    <3>2. 0 \in 0..N
      BY <1>1
    <3>3. QED
      BY <3>1, <3>2
  <2>2. ASSUME NEW n \in 0..(N - 1), n \in P PROVE n + 1 \in P
    <3>1. n + 1 \in 1..N /\ (n + 1) - 1 = n
      BY <1>1
    <3>2. w[n + 1] = step(n + 1, w[n]) /\ w[n] \in Seq(Records)
      BY <1>10, <2>2, <3>1
    <3>3. w[n + 1] \in Seq(Records)
      BY <1>2, <3>1, <3>2
    <3>4. QED
      BY <3>1, <3>3
  <2>3. \A n \in 0..N : n \in P
    <3> HIDE DEF P, N
    <3>1. QED
      BY <1>1, <2>1, <2>2, BoundedInduction
  <2>4. QED
    BY <2>3
<1>12. w = [n \in 0..N |-> w[n]]
  <2>1. body(w) = [n \in 0..N |-> body(w)[n]]
    OBVIOUS
  <2> HIDE DEF body
  <2>2. QED
    BY <1>6, <2>1
<1>13. w \in [0..N -> Seq(Records)]
  BY <1>11, <1>12
<1>14. IsKept(w, records)
  BY <1>9, <1>10, <1>13 DEF IsKept
<1>15. QED
  BY <1>7, <1>14

\* None of the records is a tombstone.
AllLive(records) == \A i \in 1..Len(records) : ~records[i].is_deleted

\* A compaction keeps records, no tombstone, and needs no more bytes.
LEMMA LiveShrinks ==
    ASSUME NEW r \in Seq(Records)
    PROVE  /\ live(r) \in Seq(Records) /\ AllLive(live(r))
           /\ LeafBytes(live(r)) \in Nat /\ LeafBytes(live(r)) <= LeafBytes(r)
<1> DEFINE N == Len(r)
<1>1. PICK kept : IsKept(kept, r) /\ live(r) = kept[N]
  BY KeptExists
<1>2. PICK b : IsBytes(b, r) /\ LeafBytes(r) = b[N]
  BY BytesExist
<1>3. /\ N \in Nat /\ kept[0] = <<>> /\ b[0] = LEAF_NODE_HEADER_SIZE
      /\ \A n \in 0..N : kept[n] \in Seq(Records) /\ b[n] \in Nat
      /\ \A n \in 1..N : kept[n] = IF r[n].is_deleted THEN kept[n - 1] ELSE Append(kept[n - 1], r[n])
      /\ \A n \in 1..N : b[n] = b[n - 1] + RecordSize(r[n])
  <2>1. /\ N \in Nat /\ kept[0] = <<>> /\ kept \in [0..N -> Seq(Records)]
        /\ \A n \in 1..N : kept[n] = IF r[n].is_deleted THEN kept[n - 1] ELSE Append(kept[n - 1], r[n])
    BY <1>1 DEF IsKept
  <2>2. /\ b[0] = LEAF_NODE_HEADER_SIZE /\ b \in [0..N -> Nat]
        /\ \A n \in 1..N : b[n] = b[n - 1] + RecordSize(r[n])
    BY <1>2 DEF IsBytes
  <2> HIDE DEF N
  <2>3. QED
    BY <2>1, <2>2
<1> DEFINE P == {n \in 0..N : AllLive(kept[n]) /\ LeafBytes(kept[n]) <= b[n]}
<1>4. 0 \in P
  BY <1>3, BytesEmpty, SizesAssumption DEF AllLive
<1>5. ASSUME NEW n \in 0..(N - 1), n \in P PROVE n + 1 \in P
  <2>1. n + 1 \in 1..N /\ (n + 1) - 1 = n /\ n \in 0..N
    BY <1>3
  <2>2. /\ kept[n + 1] = IF r[n + 1].is_deleted THEN kept[n] ELSE Append(kept[n], r[n + 1])
        /\ b[n + 1] = b[n] + RecordSize(r[n + 1])
    BY <1>3, <2>1
  <2>3. /\ kept[n] \in Seq(Records) /\ b[n] \in Nat /\ r[n + 1] \in Records
    BY <1>3, <2>1
  <2>4. RecordSize(r[n + 1]) \in Nat /\ LeafBytes(kept[n]) \in Nat
    BY <2>3, RecordSizeNat, BytesNat
  <2>5. AllLive(kept[n]) /\ LeafBytes(kept[n]) <= b[n]
    BY <1>5
  <2>6. CASE r[n + 1].is_deleted
    <3>1. kept[n + 1] = kept[n] /\ LeafBytes(kept[n]) <= b[n + 1]
      BY <2>2, <2>3, <2>4, <2>5, <2>6
    <3>2. QED
      BY <2>1, <2>5, <3>1
  <2>7. CASE ~r[n + 1].is_deleted
    <3>1. kept[n + 1] = Append(kept[n], r[n + 1])
      BY <2>2, <2>7
    <3>2. LeafBytes(kept[n + 1]) = LeafBytes(kept[n]) + RecordSize(r[n + 1])
      BY <2>3, <3>1, BytesAppend
    <3>3. LeafBytes(kept[n + 1]) <= b[n + 1]
      BY <2>2, <2>3, <2>4, <2>5, <3>2
    <3>4. AllLive(kept[n + 1])
      <4>1. ASSUME NEW i \in 1..Len(kept[n + 1]) PROVE ~kept[n + 1][i].is_deleted
        <5>1. CASE i \in 1..Len(kept[n])
          BY <2>3, <2>5, <3>1, <5>1 DEF AllLive
        <5>2. CASE i \notin 1..Len(kept[n])
          <6>1. i = Len(kept[n]) + 1 /\ kept[n + 1][i] = r[n + 1]
            BY <2>3, <3>1, <5>2
          <6>2. QED
            BY <2>7, <6>1
        <5>3. QED
          BY <5>1, <5>2
      <4>2. QED
        BY <4>1 DEF AllLive
    <3>5. QED
      BY <2>1, <3>3, <3>4
  <2>8. QED
    BY <2>6, <2>7
<1>6. \A n \in 0..N : n \in P
  <2> HIDE DEF P, N
  <2>1. QED
    BY <1>3, <1>4, <1>5, BoundedInduction
<1>7. N \in P /\ kept[N] \in Seq(Records)
  BY <1>3, <1>6
<1>8. QED
  BY <1>1, <1>2, <1>7, BytesNat

\* Without tombstones a compaction changes nothing.
LEMMA LiveSame ==
    ASSUME NEW r \in Seq(Records), AllLive(r)
    PROVE  live(r) = r
<1> DEFINE N == Len(r)
<1>1. PICK kept : IsKept(kept, r) /\ live(r) = kept[N]
  BY KeptExists
<1>2. /\ N \in Nat /\ kept[0] = <<>>
      /\ \A n \in 1..N : kept[n] = IF r[n].is_deleted THEN kept[n - 1] ELSE Append(kept[n - 1], r[n])
  BY <1>1 DEF IsKept
<1>3. \A n \in 1..N : kept[n] = Append(kept[n - 1], r[n])
  BY <1>2 DEF AllLive
<1> DEFINE P == {n \in 0..N : kept[n] = SubSeq(r, 1, n)}
<1>4. 0 \in P
  <2>1. SubSeq(r, 1, 0) = <<>> /\ 0 \in 0..N
    BY <1>2, SubSeqEmpty
  <2>2. QED
    BY <1>2, <2>1
<1>5. ASSUME NEW n \in 0..(N - 1), n \in P PROVE n + 1 \in P
  <2>1. n + 1 \in 1..N /\ (n + 1) - 1 = n /\ n \in 0..N /\ 1 \in 1..N
    BY <1>2
  <2>2. kept[n + 1] = Append(SubSeq(r, 1, n), r[n + 1])
    BY <1>3, <1>5, <2>1
  <2>3. SubSeq(r, 1, n + 1) = SubSeq(r, 1, n) \o <<r[n + 1]>>
    BY <2>1, SubSeqRecursiveSecond
  <2>4. SubSeq(r, 1, n) \in Seq(Records) /\ r[n + 1] \in Records
    BY <2>1
  <2>5. Append(SubSeq(r, 1, n), r[n + 1]) = SubSeq(r, 1, n) \o <<r[n + 1]>>
    BY <2>4, AppendIsConcat
  <2>6. kept[n + 1] = SubSeq(r, 1, n + 1) /\ n + 1 \in 0..N
    BY <2>1, <2>2, <2>3, <2>5
  <2> HIDE DEF N
  <2>7. QED
    BY <2>6
<1>6. \A n \in 0..N : n \in P
  <2> HIDE DEF P, N
  <2>1. QED
    BY <1>2, <1>4, <1>5, BoundedInduction
<1>7. N \in P
  BY <1>2, <1>6
<1>8. QED
  BY <1>1, <1>7, SubSeqFull

-----------------------------------------------------------------------------
(* Operations on one leaf. *)

LeafNodes == [kind : {"leaf"}, records : Seq(Records), prev : Nat, next : Nat, free_size : Int]

\* A leaf that fits its page and does not promise more room than there is.
LeafOK(node) ==
    node \in LeafNodes /\ node.free_size \in 0..(PAGE_SIZE - LeafBytes(node.records))

Results == {"Ok", "PageFull", "TupleTooLarge", "DuplicateKey", "KeyNotFound"}

SameLinks(node, old) == node.prev = old.prev /\ node.next = old.next

LEMMA LeafMade ==
    ASSUME NEW records \in Seq(Records), LeafBytes(records) <= PAGE_SIZE,
           NEW a \in Nat, NEW b \in Nat
    PROVE  /\ LeafOK(Leaf(records, a, b)) /\ Leaf(records, a, b).records = records
           /\ Leaf(records, a, b).prev = a /\ Leaf(records, a, b).next = b
<1>1. LeafBytes(records) \in Nat /\ PAGE_SIZE \in Nat
  BY BytesNat, SizesAssumption
<1>2. PAGE_SIZE - LeafBytes(records) \in 0..(PAGE_SIZE - LeafBytes(records))
  BY <1>1
<1>3. PAGE_SIZE - LeafBytes(records) \in Int
  BY <1>1
<1>4. QED
  BY <1>2, <1>3 DEF LeafOK, LeafNodes, Leaf

LEMMA LeafParts ==
    ASSUME NEW leaf, LeafOK(leaf)
    PROVE  /\ leaf.records \in Seq(Records) /\ leaf.prev \in Nat /\ leaf.next \in Nat
           /\ leaf.free_size \in Int /\ leaf.free_size >= 0
           /\ leaf.free_size + LeafBytes(leaf.records) <= PAGE_SIZE
           /\ LeafBytes(leaf.records) \in Nat /\ LeafBytes(leaf.records) <= PAGE_SIZE
           /\ leaf.kind = "leaf"
<1>1. leaf.records \in Seq(Records) /\ leaf.prev \in Nat /\ leaf.next \in Nat /\ leaf.kind = "leaf"
  BY DEF LeafOK, LeafNodes
<1>2. LeafBytes(leaf.records) \in Nat /\ PAGE_SIZE \in Nat
  BY <1>1, BytesNat, SizesAssumption
<1>3. leaf.free_size \in 0..(PAGE_SIZE - LeafBytes(leaf.records))
  BY DEF LeafOK
<1>4. QED
  BY <1>1, <1>2, <1>3

\* A compaction of records that fit.
LEMMA CompactOK ==
    ASSUME NEW leaf, leaf.records \in Seq(Records), LeafBytes(leaf.records) <= PAGE_SIZE,
           leaf.prev \in Nat, leaf.next \in Nat
    PROVE  /\ LeafOK(compact(leaf)) /\ SameLinks(compact(leaf), leaf)
           /\ compact(leaf).records = live(leaf.records)
           /\ AllLive(compact(leaf).records)
<1> DEFINE r == live(leaf.records)
<1>1. r \in Seq(Records) /\ AllLive(r) /\ LeafBytes(r) \in Nat /\ LeafBytes(r) <= LeafBytes(leaf.records)
  BY LiveShrinks
<1>2. LeafBytes(leaf.records) \in Nat /\ PAGE_SIZE \in Nat
  BY BytesNat, SizesAssumption
<1>3. LeafBytes(r) <= PAGE_SIZE
  BY <1>1, <1>2
<1>4. compact(leaf) = Leaf(r, leaf.prev, leaf.next)
  BY DEF compact
<1> HIDE DEF r
<1>5. /\ LeafOK(Leaf(r, leaf.prev, leaf.next)) /\ Leaf(r, leaf.prev, leaf.next).records = r
      /\ Leaf(r, leaf.prev, leaf.next).prev = leaf.prev /\ Leaf(r, leaf.prev, leaf.next).next = leaf.next
  BY <1>1, <1>3, LeafMade
<1>6. QED
  BY <1>1, <1>4, <1>5 DEF SameLinks, r

\* The position that a binary search finds.
LEMMA PositionRange ==
    ASSUME NEW n \in Nat, NEW T \in SUBSET (1..n)
    PROVE  1 + Cardinality(T) \in 1..(n + 1)
<1>1. IsFiniteSet(1..n) /\ Cardinality(1..n) = n
  BY FS_Interval
<1>2. IsFiniteSet(T) /\ Cardinality(T) <= n
  BY <1>1, FS_Subset
<1>3. Cardinality(T) \in Nat
  BY <1>2, FS_CardinalityType
<1>4. QED
  BY <1>2, <1>3

LEMMA SlotRange ==
    ASSUME NEW S, NEW records \in Seq(S), NEW row_id
    PROVE  SlotOf(records, row_id) \in 1..(Len(records) + 1)
<1>1. Len(records) \in Nat /\ DOMAIN records = 1..Len(records)
  OBVIOUS
<1>2. {i \in DOMAIN records : records[i].row_id < row_id} \in SUBSET (1..Len(records))
  BY <1>1
<1>3. QED
  BY <1>1, <1>2, PositionRange DEF SlotOf

\* The record that an operation writes.
LEMMA NewRecord ==
    ASSUME NEW row_id \in Keys, NEW len \in Payloads, NEW del \in BOOLEAN
    PROVE  /\ [row_id |-> row_id, len |-> len, is_deleted |-> del] \in Records
           /\ len \in Nat
           /\ RecordSize([row_id |-> row_id, len |-> len, is_deleted |-> del])
                = SLOT_ELEM_SIZE + RECORD_META_SIZE + len
BY PayloadsAssumption DEF Records, RecordSize

\* A leaf with other records and another account of its room.
LEMMA LeafChanged ==
    ASSUME NEW leaf, LeafOK(leaf), NEW r \in Seq(Records), NEW f \in Int,
           f >= 0, f + LeafBytes(r) <= PAGE_SIZE
    PROVE  /\ LeafOK([leaf EXCEPT !.records = r, !.free_size = f])
           /\ SameLinks([leaf EXCEPT !.records = r, !.free_size = f], leaf)
<1>1. LeafBytes(r) \in Nat /\ PAGE_SIZE \in Nat
  BY BytesNat, SizesAssumption
<1>2. f \in 0..(PAGE_SIZE - LeafBytes(r))
  BY <1>1
<1> DEFINE new == [leaf EXCEPT !.records = r, !.free_size = f]
<1>3. /\ new \in LeafNodes /\ new.records = r /\ new.free_size = f
      /\ new.prev = leaf.prev /\ new.next = leaf.next
  BY DEF LeafOK, LeafNodes
<1> HIDE DEF new
<1>4. LeafOK(new) /\ SameLinks(new, leaf)
  BY <1>2, <1>3 DEF LeafOK, SameLinks
<1>5. QED
  BY <1>4 DEF new

\* Whether a key is present, and where.
LEMMA Found ==
    ASSUME NEW S, NEW records \in Seq(S), NEW row_id
    PROVE  /\ HasKey(records, row_id) \in BOOLEAN
           /\ HasKey(records, row_id) => /\ SlotOf(records, row_id) \in 1..Len(records)
                                         /\ records[SlotOf(records, row_id)].row_id = row_id
BY DEF HasKey

\* insert_record keeps a leaf well-formed.
LEMMA InsertRecordOK ==
    ASSUME NEW leaf, LeafOK(leaf), NEW row_id \in Keys, NEW len \in Payloads
    PROVE  /\ insert_record(leaf, row_id, len).res \in Results
           /\ insert_record(leaf, row_id, len).res = "Ok" =>
                 /\ LeafOK(insert_record(leaf, row_id, len).leaf)
                 /\ SameLinks(insert_record(leaf, row_id, len).leaf, leaf)
           /\ insert_record(leaf, row_id, len).res = "PageFull" => len <= MAX_VALUE_SIZE
           /\ leaf.records = <<>> /\ len <= MAX_VALUE_SIZE => insert_record(leaf, row_id, len).res = "Ok"
<1> DEFINE put == insert_record(leaf, row_id, len)
           r == leaf.records
           i == SlotOf(r, row_id)
           found == HasKey(r, row_id)
           new == [row_id |-> row_id, len |-> len, is_deleted |-> FALSE]
           needed == LeafBytes(r) + SLOT_ELEM_SIZE + RecordSize(new)
           over == [leaf EXCEPT !.records[i] = new]
           inserted == [leaf EXCEPT !.records = InsertAt(@, i, new), !.free_size = PAGE_SIZE - needed]
<1>1. /\ r \in Seq(Records) /\ leaf.prev \in Nat /\ leaf.next \in Nat
      /\ leaf.free_size \in Int /\ leaf.free_size >= 0 /\ leaf.free_size + LeafBytes(r) <= PAGE_SIZE
      /\ LeafBytes(r) \in Nat
  BY LeafParts
<1>2. /\ new \in Records /\ len \in Nat /\ RecordSize(new) = SLOT_ELEM_SIZE + RECORD_META_SIZE + len
      /\ new.len = len
  BY NewRecord
<1>3. i \in 1..(Len(r) + 1) /\ found \in BOOLEAN /\ (found => i \in 1..Len(r) /\ r[i].is_deleted \in BOOLEAN)
  <2>1. i \in 1..(Len(r) + 1)
    BY <1>1, SlotRange
  <2>2. found \in BOOLEAN /\ (found => i \in 1..Len(r))
    BY <1>1, Found
  <2>3. ASSUME i \in 1..Len(r) PROVE r[i].is_deleted \in BOOLEAN
    <3>1. r[i] \in Records
      BY <1>1, <2>3
    <3>2. QED
      BY <3>1 DEF Records
  <2>4. QED
    BY <2>1, <2>2, <2>3
<1>4. put = CASE len > MAX_VALUE_SIZE -> Err("TupleTooLarge")
          [] len <= MAX_VALUE_SIZE /\ found /\ ~r[i].is_deleted -> Err("DuplicateKey")
          [] len <= MAX_VALUE_SIZE /\ found /\ r[i].is_deleted ->
               IF len - r[i].len > leaf.free_size THEN Err("PageFull") ELSE Ok(compact(over))
          [] len <= MAX_VALUE_SIZE /\ ~found ->
               IF needed > PAGE_SIZE \/ Len(r) > MAX_LEAF_NODE_CELLS
               THEN Err("PageFull")
               ELSE Ok(inserted)
  BY DEF insert_record
<1>5. MAX_VALUE_SIZE \in Nat /\ PAGE_SIZE \in Nat
  BY SizesAssumption
<1> SUFFICES /\ put.res \in Results
             /\ put.res = "Ok" => LeafOK(put.leaf) /\ SameLinks(put.leaf, leaf)
             /\ put.res = "PageFull" => len <= MAX_VALUE_SIZE
             /\ r = <<>> /\ len <= MAX_VALUE_SIZE => put.res = "Ok"
  OBVIOUS
<1>6. CASE len > MAX_VALUE_SIZE
  <2> HIDE DEF over, inserted, needed, found, i, new, put
  <2>1. put = Err("TupleTooLarge")
    BY <1>2, <1>4, <1>5, <1>6
  <2>2. QED
    BY <1>2, <1>5, <1>6, <2>1 DEF Err, Results
<1>7. CASE len <= MAX_VALUE_SIZE /\ found /\ ~r[i].is_deleted
  <2> HIDE DEF over, inserted, needed, found, i, new, put
  <2>1. put = Err("DuplicateKey")
    BY <1>2, <1>4, <1>5, <1>7
  <2>2. i \in 1..Len(r)
    BY <1>3, <1>7
  <2>3. r # <<>>
    BY <2>2
  <2>4. QED
    BY <2>1, <2>3 DEF Err, Results
<1>8. CASE len <= MAX_VALUE_SIZE /\ found /\ r[i].is_deleted
  <2>1. i \in 1..Len(r)
    BY <1>3, <1>8
  <2>2. r # <<>> /\ r[i] \in Records
    BY <1>1, <2>1
  <2>3. r[i].len \in Nat
    BY <2>2, RecordSizeNat
  <2> DEFINE t == [r EXCEPT ![i] = new]
  <2>4. over.records = t /\ over.prev = leaf.prev /\ over.next = leaf.next
    BY DEF LeafOK, LeafNodes
  <2> HIDE DEF over, inserted, needed, found, i, new, put, r
  <2>5. t \in Seq(Records) /\ LeafBytes(t) = LeafBytes(r) + len - r[i].len
    BY <1>1, <1>2, <2>1, BytesReplace
  <2>6. put = IF len - r[i].len > leaf.free_size THEN Err("PageFull") ELSE Ok(compact(over))
    BY <1>2, <1>4, <1>5, <1>8
  <2>7. CASE len - r[i].len > leaf.free_size
    <3>1. put = Err("PageFull")
      BY <2>6, <2>7
    <3>2. QED
      BY <1>8, <2>2, <3>1 DEF Err, Results
  <2>8. CASE ~(len - r[i].len > leaf.free_size)
    <3>1. put = Ok(compact(over))
      BY <2>6, <2>8
    <3> HIDE DEF t
    <3>2. LeafBytes(t) <= PAGE_SIZE
      BY <1>1, <1>2, <1>5, <2>3, <2>5, <2>8, SMTT(30)
    <3>3. LeafOK(compact(over)) /\ SameLinks(compact(over), over)
      BY <1>1, <2>4, <2>5, <3>2, CompactOK
    <3>4. SameLinks(compact(over), leaf)
      BY <2>4, <3>3 DEF SameLinks
    <3>5. put.res = "Ok" /\ put.leaf = compact(over)
      BY <3>1 DEF Ok
    <3>6. QED
      BY <3>3, <3>4, <3>5 DEF Results
  <2>9. QED
    BY <2>7, <2>8
<1>9. CASE len <= MAX_VALUE_SIZE /\ ~found
  <2> DEFINE t == InsertAt(r, i, new)
  <2>1. inserted = [leaf EXCEPT !.records = t, !.free_size = PAGE_SIZE - needed]
    OBVIOUS
  <2>2. needed = LeafBytes(r) + SLOT_ELEM_SIZE + RecordSize(new)
    OBVIOUS
  <2> HIDE DEF over, inserted, needed, found, i, new, put, r
  <2>3. t \in Seq(Records) /\ LeafBytes(t) = LeafBytes(r) + RecordSize(new)
    BY <1>1, <1>2, <1>3, BytesInsert
  <2>4. put = IF needed > PAGE_SIZE \/ Len(r) > MAX_LEAF_NODE_CELLS THEN Err("PageFull") ELSE Ok(inserted)
    BY <1>2, <1>4, <1>5, <1>9
  <2> HIDE DEF t
  <2>5. RecordSize(new) \in Nat /\ needed \in Nat /\ SLOT_ELEM_SIZE \in Nat /\ LeafBytes(t) \in Nat
    <3>1. RecordSize(new) \in Nat /\ SLOT_ELEM_SIZE \in Nat
      BY <1>2, RecordSizeNat, SizesAssumption
    <3>2. LeafBytes(t) \in Nat
      BY <2>3, BytesNat
    <3>3. needed \in Nat
      BY <1>1, <2>2, <3>1
    <3>4. QED
      BY <3>1, <3>2, <3>3
  <2>6. CASE needed > PAGE_SIZE \/ Len(r) > MAX_LEAF_NODE_CELLS
    <3>1. put = Err("PageFull")
      BY <2>4, <2>6
    <3>2. r # <<>>
      <4>1. SUFFICES ASSUME r = <<>> PROVE FALSE
        OBVIOUS
      <4>2. LeafBytes(r) = LEAF_NODE_HEADER_SIZE
        BY <4>1, BytesEmpty
      <4>3. needed <= PAGE_SIZE
        BY <1>2, <1>9, <2>2, <4>2, SizesAssumption
      <4>4. MAX_LEAF_NODE_CELLS \in Nat
        <5>1. /\ PAGE_SIZE - LEAF_NODE_HEADER_SIZE \in Nat
              /\ SLOT_ELEM_SIZE + RECORD_META_SIZE \in Nat \ {0}
          BY SizesAssumption
        <5>2. \A a \in Nat, b \in Nat \ {0} : a \div b \in Nat
          OBVIOUS
        <5>3. QED
          BY <5>1, <5>2 DEF MAX_LEAF_NODE_CELLS
      <4>5. Len(r) = 0
        BY <4>1
      <4>6. QED
        BY <1>5, <2>5, <2>6, <4>3, <4>4, <4>5
    <3>3. QED
      BY <1>9, <3>1, <3>2 DEF Err, Results
  <2>7. CASE ~(needed > PAGE_SIZE \/ Len(r) > MAX_LEAF_NODE_CELLS)
    <3>1. put = Ok(inserted)
      BY <2>4, <2>7
    <3>2. PAGE_SIZE - needed \in Int /\ PAGE_SIZE - needed >= 0
      BY <1>5, <2>5, <2>7
    <3>3. (PAGE_SIZE - needed) + LeafBytes(t) <= PAGE_SIZE
      <4>1. \A x, y, z, p \in Nat : (p - (x + y + z)) + (x + z) <= p
        OBVIOUS
      <4>2. QED
        BY <1>1, <1>5, <2>2, <2>3, <2>5, <4>1
    <3>4. LeafOK(inserted) /\ SameLinks(inserted, leaf)
      BY <2>1, <2>3, <3>2, <3>3, LeafChanged
    <3>5. put.res = "Ok" /\ put.leaf = inserted
      BY <3>1 DEF Ok
    <3>6. QED
      BY <3>4, <3>5 DEF Results
  <2>8. QED
    BY <2>6, <2>7
<1>10. QED
  BY <1>2, <1>3, <1>5, <1>6, <1>7, <1>8, <1>9

\* update_record keeps a leaf well-formed, and finds no room only for a key it has.
LEMMA UpdateRecordOK ==
    ASSUME NEW leaf, LeafOK(leaf), NEW row_id \in Keys, NEW len \in Payloads
    PROVE  /\ update_record(leaf, row_id, len).res \in Results
           /\ update_record(leaf, row_id, len).res = "Ok" =>
                 /\ LeafOK(update_record(leaf, row_id, len).leaf)
                 /\ SameLinks(update_record(leaf, row_id, len).leaf, leaf)
           /\ update_record(leaf, row_id, len).res = "PageFull" => HasKey(leaf.records, row_id)
<1> DEFINE up == update_record(leaf, row_id, len)
           r == leaf.records
           i == SlotOf(r, row_id)
           diff == len - r[i].len
           over == [leaf EXCEPT !.records[i].len = len, !.free_size = @ - diff]
<1>1. /\ r \in Seq(Records) /\ leaf.prev \in Nat /\ leaf.next \in Nat
      /\ leaf.free_size \in Int /\ leaf.free_size >= 0 /\ leaf.free_size + LeafBytes(r) <= PAGE_SIZE
      /\ LeafBytes(r) \in Nat
  BY LeafParts
<1>2. len \in Nat /\ PAGE_SIZE \in Nat
  BY PayloadsAssumption, SizesAssumption
<1>3. up = IF len >= MAX_VALUE_SIZE THEN Err("TupleTooLarge")
           ELSE IF ~HasKey(r, row_id) THEN Err("KeyNotFound")
           ELSE IF diff > leaf.free_size THEN Err("PageFull")
           ELSE Ok(over)
  BY DEF update_record
<1> SUFFICES /\ up.res \in Results
             /\ up.res = "Ok" => LeafOK(up.leaf) /\ SameLinks(up.leaf, leaf)
             /\ up.res = "PageFull" => HasKey(r, row_id)
  OBVIOUS
<1>4. CASE len >= MAX_VALUE_SIZE
  <2> HIDE DEF up, over, diff, i
  <2>1. up = Err("TupleTooLarge")
    BY <1>3, <1>4
  <2>2. QED
    BY <2>1 DEF Err, Results
<1>5. CASE ~(len >= MAX_VALUE_SIZE) /\ ~HasKey(r, row_id)
  <2> HIDE DEF up, over, diff, i
  <2>1. up = Err("KeyNotFound")
    BY <1>3, <1>5
  <2>2. QED
    BY <2>1 DEF Err, Results
<1>6. CASE ~(len >= MAX_VALUE_SIZE) /\ HasKey(r, row_id) /\ diff > leaf.free_size
  <2> HIDE DEF up, over, diff, i
  <2>1. up = Err("PageFull")
    BY <1>3, <1>6
  <2>2. QED
    BY <1>6, <2>1 DEF Err, Results
<1>7. CASE ~(len >= MAX_VALUE_SIZE) /\ HasKey(r, row_id) /\ ~(diff > leaf.free_size)
  <2>1. up = Ok(over)
    <3> HIDE DEF up, over, diff, i
    <3>1. QED
      BY <1>3, <1>7
  <2>2. i \in 1..Len(r)
    BY <1>1, <1>7, Found
  <2>3. r[i] \in Records /\ i \in DOMAIN r
    BY <1>1, <2>2
  <2>4. r[i].len \in Nat
    BY <2>3, RecordSizeNat
  <2> DEFINE new == [r[i] EXCEPT !.len = len]
             t == [r EXCEPT ![i] = new]
             f == leaf.free_size - diff
  <2>5. new \in Records /\ new.len = len
    BY <2>3 DEF Records
  <2>6. over = [leaf EXCEPT !.records = t, !.free_size = f]
    OBVIOUS
  <2>7. diff = len - r[i].len /\ f = leaf.free_size - diff
    OBVIOUS
  <2> HIDE DEF new, over, up, diff, r, i, f
  <2>8. t \in Seq(Records) /\ LeafBytes(t) = LeafBytes(r) + len - r[i].len
    BY <1>1, <2>2, <2>5, BytesReplace
  <2> HIDE DEF t
  <2>9. diff \in Int /\ f \in Int /\ f >= 0
    BY <1>1, <1>2, <1>7, <2>4, <2>7, SMTT(30)
  <2>10. f + LeafBytes(t) <= PAGE_SIZE
    <3>1. \A b, n, l \in Nat, a \in Int : (a - (n - l)) + (b + n - l) = a + b
      OBVIOUS
    <3>2. f + LeafBytes(t) = (leaf.free_size - (len - r[i].len)) + (LeafBytes(r) + len - r[i].len)
      BY <2>7, <2>8
    <3>3. f + LeafBytes(t) = leaf.free_size + LeafBytes(r)
      BY <1>1, <1>2, <2>4, <3>1, <3>2
    <3>4. QED
      BY <1>1, <3>3
  <2>11. LeafOK(over) /\ SameLinks(over, leaf)
    BY <2>6, <2>8, <2>9, <2>10, LeafChanged
  <2>12. up.res = "Ok" /\ up.leaf = over
    BY <2>1 DEF Ok
  <2>13. QED
    BY <2>11, <2>12 DEF Results
<1>8. QED
  BY <1>4, <1>5, <1>6, <1>7

\* delete_record keeps a leaf well-formed and fails only without the key.
LEMMA DeleteRecordOK ==
    ASSUME NEW leaf, LeafOK(leaf), NEW row_id \in Keys
    PROVE  /\ delete_record(leaf, row_id).res \in Results
           /\ HasKey(leaf.records, row_id) => delete_record(leaf, row_id).res = "Ok"
           /\ delete_record(leaf, row_id).res = "Ok" =>
                 /\ LeafOK(delete_record(leaf, row_id).leaf)
                 /\ SameLinks(delete_record(leaf, row_id).leaf, leaf)
<1> DEFINE del == delete_record(leaf, row_id)
           r == leaf.records
           i == SlotOf(r, row_id)
           over == [leaf EXCEPT !.records[i].is_deleted = TRUE]
<1>1. /\ r \in Seq(Records) /\ leaf.prev \in Nat /\ leaf.next \in Nat
      /\ leaf.free_size \in Int /\ leaf.free_size >= 0 /\ leaf.free_size + LeafBytes(r) <= PAGE_SIZE
      /\ LeafBytes(r) \in Nat
  BY LeafParts
<1>2. del = IF HasKey(r, row_id) THEN Ok(over) ELSE Err("KeyNotFound")
  BY DEF delete_record
<1> SUFFICES /\ del.res \in Results
             /\ HasKey(r, row_id) => del.res = "Ok"
             /\ del.res = "Ok" => LeafOK(del.leaf) /\ SameLinks(del.leaf, leaf)
  OBVIOUS
<1>3. CASE ~HasKey(r, row_id)
  <2> HIDE DEF del, over, i
  <2>1. del = Err("KeyNotFound")
    BY <1>2, <1>3
  <2>2. QED
    BY <1>3, <2>1 DEF Err, Results
<1>4. CASE HasKey(r, row_id)
  <2>1. del = Ok(over)
    <3> HIDE DEF del, over, i
    <3>1. QED
      BY <1>2, <1>4
  <2>2. i \in 1..Len(r)
    BY <1>1, <1>4, Found
  <2>3. r[i] \in Records /\ i \in DOMAIN r
    BY <1>1, <2>2
  <2>4. r[i].len \in Nat
    BY <2>3, RecordSizeNat
  <2> DEFINE new == [r[i] EXCEPT !.is_deleted = TRUE]
             t == [r EXCEPT ![i] = new]
  <2>5. new \in Records /\ new.len = r[i].len
    BY <2>3 DEF Records
  <2>6. over = [leaf EXCEPT !.records = t, !.free_size = leaf.free_size]
    BY DEF LeafOK, LeafNodes
  <2> HIDE DEF new, over, del, r, i
  <2>7. t \in Seq(Records) /\ LeafBytes(t) = LeafBytes(r) + new.len - r[i].len
    BY <1>1, <2>2, <2>5, BytesReplace
  <2> HIDE DEF t
  <2>8. LeafBytes(t) = LeafBytes(r)
    BY <1>1, <2>4, <2>5, <2>7
  <2>9. LeafOK(over) /\ SameLinks(over, leaf)
    BY <1>1, <2>6, <2>7, <2>8, LeafChanged
  <2>10. del.res = "Ok" /\ del.leaf = over
    BY <2>1 DEF Ok
  <2>11. QED
    BY <2>9, <2>10 DEF Results
<1>5. QED
  BY <1>3, <1>4

\* The halves of a leaf without tombstones: both fit, and the right one has a
\* first record.
LEMMA SplitOK ==
    ASSUME NEW leaf, LeafOK(leaf), AllLive(leaf.records), leaf.records # <<>>
    PROVE  /\ LeafOK(split(leaf).left) /\ SameLinks(split(leaf).left, leaf)
           /\ LeafOK(split(leaf).right)
           /\ split(leaf).right.records[1].row_id \in Keys
<1> DEFINE r == leaf.records
           mid == Len(r) \div 2
           x == SubSeq(r, 1, mid)
           y == SubSeq(r, mid + 1, Len(r))
           a == [leaf EXCEPT !.records = x]
           b == [new_empty EXCEPT !.records = y]
<1>1. /\ r \in Seq(Records) /\ leaf.prev \in Nat /\ leaf.next \in Nat
      /\ LeafBytes(r) \in Nat /\ LeafBytes(r) <= PAGE_SIZE
  BY LeafParts
<1>2. split(leaf).left = compact(a) /\ split(leaf).right = compact(b)
  BY DEF split
<1>3. a.records = x /\ a.prev = leaf.prev /\ a.next = leaf.next
  BY DEF LeafOK, LeafNodes
<1>4. b.records = y /\ b.prev = 0 /\ b.next = 0
  BY DEF new_empty, Leaf, None
<1>5. Len(r) \in Nat \ {0} /\ mid \in 0..Len(r) /\ mid < Len(r)
  <2>1. Len(r) \in Nat \ {0}
    BY <1>1
  <2>2. \A n \in Nat \ {0} : n \div 2 \in 0..n /\ n \div 2 < n
    OBVIOUS
  <2>3. QED
    BY <2>1, <2>2
<1> HIDE DEF mid, r
<1>6. /\ x \in Seq(Records) /\ y \in Seq(Records) /\ LeafBytes(x) \in Nat /\ LeafBytes(y) \in Nat
      /\ LeafBytes(x) <= LeafBytes(r) /\ LeafBytes(y) <= LeafBytes(r)
      /\ Len(y) = Len(r) - mid /\ \A j \in 1..(Len(r) - mid) : y[j] = r[mid + j]
  BY <1>1, <1>5, BytesParts
<1> HIDE DEF x, y, a, b
<1>7. LeafBytes(x) <= PAGE_SIZE /\ LeafBytes(y) <= PAGE_SIZE
  BY <1>1, <1>6, SizesAssumption
<1>8. LeafOK(compact(a)) /\ SameLinks(compact(a), a)
  BY <1>1, <1>3, <1>6, <1>7, CompactOK
<1>9. LeafOK(compact(b)) /\ compact(b).records = live(y)
  BY <1>4, <1>6, <1>7, CompactOK
<1>10. AllLive(y)
  <2>1. ASSUME NEW j \in 1..Len(y) PROVE ~y[j].is_deleted
    <3>1. y[j] = r[mid + j] /\ mid + j \in 1..Len(r)
      BY <1>5, <1>6
    <3>2. QED
      BY <3>1 DEF AllLive, r
  <2>2. QED
    BY <2>1 DEF AllLive
<1>11. compact(b).records = y
  BY <1>6, <1>9, <1>10, LiveSame
<1>12. y[1].row_id \in Keys
  <2>1. 1 \in 1..Len(y)
    BY <1>5, <1>6
  <2>2. y[1] \in Records
    BY <1>6, <2>1
  <2>3. QED
    BY <2>2 DEF Records
<1>13. QED
  BY <1>2, <1>3, <1>8, <1>9, <1>11, <1>12 DEF SameLinks

-----------------------------------------------------------------------------
(* Operations on one internal node. *)

InternalNodes(S) == [kind : {"internal"}, keys : Seq(Keys), kids : Seq(S)]

\* An internal node that fits its page, with its kids in S.
InternalOK(node, S) ==
    /\ node \in InternalNodes(S)
    /\ Len(node.kids) = Len(node.keys) + 1
    /\ InternalBytes(Len(node.keys)) <= PAGE_SIZE

LEMMA InternalParts ==
    ASSUME NEW S, NEW node, InternalOK(node, S)
    PROVE  /\ node.kind = "internal" /\ node.keys \in Seq(Keys) /\ node.kids \in Seq(S)
           /\ Len(node.keys) \in Nat /\ Len(node.kids) = Len(node.keys) + 1
           /\ InternalBytes(Len(node.keys)) <= PAGE_SIZE
<1>1. node.kind = "internal" /\ node.keys \in Seq(Keys) /\ node.kids \in Seq(S)
  BY DEF InternalOK, InternalNodes
<1>2. QED
  BY <1>1 DEF InternalOK

LEMMA InternalMade ==
    ASSUME NEW S, NEW keys \in Seq(Keys), NEW kids \in Seq(S),
           Len(kids) = Len(keys) + 1, InternalBytes(Len(keys)) <= PAGE_SIZE
    PROVE  /\ InternalOK(Internal(keys, kids), S)
           /\ Internal(keys, kids).keys = keys /\ Internal(keys, kids).kids = kids
BY DEF InternalOK, InternalNodes, Internal

\* More keys need more bytes.
LEMMA InternalMonotone ==
    ASSUME NEW m \in Nat, NEW n \in Nat, m <= n
    PROVE  /\ InternalBytes(m) \in Nat /\ InternalBytes(n) \in Nat
           /\ InternalBytes(m) <= InternalBytes(n)
<1> DEFINE c == INDEX_ENTRY_SIZE + SLOT_ELEM_SIZE
           d == n - m
<1>1. c \in Nat /\ INTERNAL_NODE_HEADER_SIZE \in Nat /\ d \in Nat /\ n = m + d
  BY SizesAssumption
<1>2. InternalBytes(m) = INTERNAL_NODE_HEADER_SIZE + m * c /\ InternalBytes(n) = INTERNAL_NODE_HEADER_SIZE + n * c
  BY DEF InternalBytes
<1> HIDE DEF c, d
<1>3. \A x, y \in Nat : x * y \in Nat
  OBVIOUS
<1>4. n * c = m * c + d * c
  BY <1>1
<1>5. m * c \in Nat /\ d * c \in Nat /\ n * c \in Nat
  BY <1>1, <1>3
<1>6. QED
  BY <1>1, <1>2, <1>4, <1>5

LEMMA InsertAtSeq ==
    ASSUME NEW S, NEW s \in Seq(S), NEW e \in S, NEW i \in 1..(Len(s) + 1)
    PROVE  InsertAt(s, i, e) \in Seq(S) /\ Len(InsertAt(s, i, e)) = Len(s) + 1
<1> DEFINE x == SubSeq(s, 1, i - 1)
           y == SubSeq(s, i, Len(s))
<1>1. x \in Seq(S) /\ Len(x) = i - 1
  OBVIOUS
<1>2. y \in Seq(S) /\ Len(y) = Len(s) - i + 1
  OBVIOUS
<1>3. InsertAt(s, i, e) = (x \o <<e>>) \o y
  BY DEF InsertAt
<1> HIDE DEF x, y
<1>4. x \o <<e>> \in Seq(S) /\ Len(x \o <<e>>) = i
  BY <1>1
<1>5. (x \o <<e>>) \o y \in Seq(S) /\ Len((x \o <<e>>) \o y) = i + (Len(s) - i + 1)
  BY <1>2, <1>4
<1>6. QED
  BY <1>3, <1>5

\* insert_entry adds one key and one kid.
LEMMA InsertEntryOK ==
    ASSUME NEW S, NEW node, InternalOK(node, S), NEW key \in Keys, NEW child \in S,
           InternalBytes(Len(node.keys) + 1) <= PAGE_SIZE
    PROVE  InternalOK(insert_entry(node, key, child), S)
<1> DEFINE i == Partition(node.keys, key)
           keys == InsertAt(node.keys, i, key)
           kids == InsertAt(node.kids, i + 1, child)
<1>1. /\ node.keys \in Seq(Keys) /\ node.kids \in Seq(S)
      /\ Len(node.keys) \in Nat /\ Len(node.kids) = Len(node.keys) + 1
  BY InternalParts
<1>2. i \in 1..(Len(node.keys) + 1)
  <2>1. DOMAIN node.keys = 1..Len(node.keys)
    BY <1>1
  <2>2. {j \in DOMAIN node.keys : node.keys[j] <= key} \in SUBSET (1..Len(node.keys))
    BY <2>1
  <2>3. QED
    BY <1>1, <2>2, PositionRange DEF Partition
<1>3. insert_entry(node, key, child) = Internal(keys, kids)
  BY DEF insert_entry
<1> HIDE DEF i
<1>4. i + 1 \in 1..(Len(node.kids) + 1)
  BY <1>1, <1>2
<1>5. keys \in Seq(Keys) /\ Len(keys) = Len(node.keys) + 1
  BY <1>1, <1>2, InsertAtSeq
<1>6. kids \in Seq(S) /\ Len(kids) = Len(node.kids) + 1
  BY <1>1, <1>4, InsertAtSeq
<1> HIDE DEF keys, kids
<1>7. Len(kids) = Len(keys) + 1 /\ InternalBytes(Len(keys)) <= PAGE_SIZE
  BY <1>1, <1>5, <1>6
<1>8. QED
  BY <1>3, <1>5, <1>6, <1>7, InternalMade

\* A full node has at least two keys.
LEMMA FullHasTwo ==
    ASSUME NEW S, NEW node, InternalOK(node, S), InternalFull(node)
    PROVE  Len(node.keys) >= 2
<1> DEFINE n == Len(node.keys)
<1>1. n \in Nat
  BY InternalParts
<1>2. InternalBytes(n + 1) >= PAGE_SIZE
  BY DEF InternalFull
<1>3. InternalBytes(2) < PAGE_SIZE
  BY SizesAssumption DEF InternalBytes
<1> HIDE DEF n
<1>4. n >= 2
  <2>1. SUFFICES ASSUME ~(n >= 2) PROVE FALSE
    OBVIOUS
  <2>2. n + 1 \in Nat /\ n + 1 <= 2
    BY <1>1, <2>1
  <2>3. InternalBytes(n + 1) \in Nat /\ InternalBytes(2) \in Nat /\ InternalBytes(n + 1) <= InternalBytes(2)
    BY <2>2, InternalMonotone
  <2>4. QED
    BY <1>2, <1>3, <2>3, SizesAssumption
<1>5. QED
  BY <1>4 DEF n

\* The halves of a full node have room for one more entry, and the key between
\* them moves up.
LEMMA SplitEntriesOK ==
    ASSUME NEW S, NEW node, InternalOK(node, S), InternalFull(node)
    PROVE  /\ InternalOK(split_entries(node).left, S)
           /\ InternalOK(split_entries(node).right, S)
           /\ InternalBytes(Len(split_entries(node).left.keys) + 1) <= PAGE_SIZE
           /\ InternalBytes(Len(split_entries(node).right.keys) + 1) <= PAGE_SIZE
           /\ split_entries(node).promoted \in Keys
<1> DEFINE n == Len(node.keys)
           mid == n \div 2 + 1
           lk == SubSeq(node.keys, 1, mid - 1)
           lc == SubSeq(node.kids, 1, mid)
           rk == SubSeq(node.keys, mid + 1, n)
           rc == SubSeq(node.kids, mid + 1, n + 1)
<1>1. /\ node.keys \in Seq(Keys) /\ node.kids \in Seq(S) /\ n \in Nat /\ Len(node.kids) = n + 1
      /\ InternalBytes(n) <= PAGE_SIZE
  BY InternalParts
<1>2. /\ split_entries(node).left = Internal(lk, lc)
      /\ split_entries(node).right = Internal(rk, rc)
      /\ split_entries(node).promoted = node.keys[mid]
  BY DEF split_entries
<1>3. n >= 2
  BY FullHasTwo
<1> HIDE DEF n
<1>4. mid \in Nat /\ mid >= 1 /\ mid <= n /\ n - mid + 1 <= n /\ n - mid \in Nat
  <2>1. \A k \in Nat : k >= 2 => k \div 2 \in Nat /\ k \div 2 + 1 <= k
    OBVIOUS
  <2>2. QED
    BY <1>1, <1>3, <2>1
<1> HIDE DEF mid
<1>5. lk \in Seq(Keys) /\ Len(lk) = mid - 1
  BY <1>1, <1>4 DEF n
<1>6. lc \in Seq(S) /\ Len(lc) = mid
  BY <1>1, <1>4 DEF n
<1>7. rk \in Seq(Keys) /\ Len(rk) = n - mid
  BY <1>1, <1>4 DEF n
<1>8. rc \in Seq(S) /\ Len(rc) = n - mid + 1
  BY <1>1, <1>4 DEF n
<1>9. node.keys[mid] \in Keys
  BY <1>1, <1>4 DEF n
<1> HIDE DEF lk, lc, rk, rc
<1>10. ASSUME NEW k \in Nat, k <= n PROVE InternalBytes(k) <= PAGE_SIZE
  <2>1. InternalBytes(k) \in Nat /\ InternalBytes(n) \in Nat /\ InternalBytes(k) <= InternalBytes(n)
    BY <1>1, <1>10, InternalMonotone
  <2>2. QED
    BY <1>1, <2>1, SizesAssumption
<1>11. /\ InternalBytes(Len(lk)) <= PAGE_SIZE /\ InternalBytes(Len(lk) + 1) <= PAGE_SIZE
       /\ InternalBytes(Len(rk)) <= PAGE_SIZE /\ InternalBytes(Len(rk) + 1) <= PAGE_SIZE
  <2>1. /\ mid - 1 \in Nat /\ mid - 1 <= n /\ (mid - 1) + 1 = mid /\ n - mid <= n
        /\ (n - mid) + 1 \in Nat /\ (n - mid) + 1 <= n
    BY <1>1, <1>4
  <2>2. InternalBytes(mid - 1) <= PAGE_SIZE /\ InternalBytes(mid) <= PAGE_SIZE
    BY <1>4, <1>10, <2>1
  <2>3. InternalBytes(n - mid) <= PAGE_SIZE /\ InternalBytes((n - mid) + 1) <= PAGE_SIZE
    BY <1>4, <1>10, <2>1
  <2>4. QED
    BY <1>5, <1>7, <2>1, <2>2, <2>3
<1>12. InternalOK(Internal(lk, lc), S) /\ Internal(lk, lc).keys = lk
  <2>1. Len(lc) = Len(lk) + 1
    BY <1>4, <1>5, <1>6
  <2>2. QED
    BY <1>5, <1>6, <1>11, <2>1, InternalMade
<1>13. InternalOK(Internal(rk, rc), S) /\ Internal(rk, rc).keys = rk
  <2>1. Len(rc) = Len(rk) + 1
    BY <1>4, <1>7, <1>8
  <2>2. QED
    BY <1>7, <1>8, <1>11, <2>1, InternalMade
<1>14. QED
  BY <1>2, <1>9, <1>11, <1>12, <1>13

\* A descent goes to one of the kids.
LEMMA RouteOK ==
    ASSUME NEW S, NEW node, InternalOK(node, S), NEW key
    PROVE  route_key(node, key) \in S
<1>1. /\ node.keys \in Seq(Keys) /\ node.kids \in Seq(S)
      /\ Len(node.keys) \in Nat /\ Len(node.kids) = Len(node.keys) + 1
  BY InternalParts
<1>2. DOMAIN node.keys = 1..Len(node.keys)
  BY <1>1
<1>3. {j \in DOMAIN node.keys : node.keys[j] <= key} \in SUBSET (1..Len(node.keys))
  BY <1>2
<1>4. Partition(node.keys, key) \in 1..Len(node.kids)
  BY <1>1, <1>3, PositionRange DEF Partition
<1>5. QED
  BY <1>1, <1>4, ElementOfSeq DEF route_key

-----------------------------------------------------------------------------
(* Trees.  h gives every page its height: leaves have height 0, the kids of an
   internal node are one below it, and no page is above the root. *)

Nodes == LeafNodes \cup InternalNodes(Nat)

\* The pages one below height d.
Below(h, d) == {q \in DOMAIN h : h[q] = d - 1}

NodeOK(node, h, d) ==
    IF d = 0 THEN LeafOK(node) /\ node.prev \in {0} \cup DOMAIN h /\ node.next \in {0} \cup DOMAIN h
    ELSE InternalOK(node, Below(h, d))

\* The first n pages are what their heights say.
LevelsOK(pgs, h, n) == \A p \in 1..n : NodeOK(pgs[p], h, h[p])

Heights(h, n) == h \in [1..n -> Nat] /\ \A p \in 1..n : h[p] <= h[1]

TreeOK(pgs, h) ==
    /\ pgs \in Seq(Nodes) /\ Len(pgs) \in Nat \ {0}
    /\ Heights(h, Len(pgs))
    /\ LevelsOK(pgs, h, Len(pgs))

\* The heights g agree with h on the pages of h.
Extends(g, h) == \A p \in DOMAIN h : p \in DOMAIN g /\ g[p] = h[p]

\* One more page, of height d.
Grow(h, n, d) == [p \in 1..(n + 1) |-> IF p = n + 1 THEN d ELSE h[p]]

\* The numbers of the pages of a tree.
LEMMA TreeParts ==
    ASSUME NEW pgs, NEW h, TreeOK(pgs, h)
    PROVE  /\ pgs \in Seq(Nodes) /\ Len(pgs) \in Nat \ {0} /\ DOMAIN pgs = 1..Len(pgs)
           /\ h \in [1..Len(pgs) -> Nat] /\ DOMAIN h = 1..Len(pgs)
           /\ \A p \in 1..Len(pgs) : h[p] \in Nat /\ h[p] <= h[1]
           /\ 1 \in 1..Len(pgs) /\ h[1] \in Nat
<1>1. /\ pgs \in Seq(Nodes) /\ Len(pgs) \in Nat \ {0} /\ h \in [1..Len(pgs) -> Nat]
      /\ \A p \in 1..Len(pgs) : h[p] <= h[1]
  BY DEF TreeOK, Heights
<1>2. DOMAIN pgs = 1..Len(pgs) /\ 1 \in 1..Len(pgs)
  BY <1>1
<1>3. QED
  BY <1>1, <1>2

LEMMA TreeNode ==
    ASSUME NEW pgs, NEW h, TreeOK(pgs, h), NEW p \in 1..Len(pgs)
    PROVE  NodeOK(pgs[p], h, h[p])
BY DEF TreeOK, LevelsOK

LEMMA NodeTyped ==
    ASSUME NEW node, NEW n \in Nat, NEW h \in [1..n -> Nat], NEW d \in Nat, NodeOK(node, h, d)
    PROVE  node \in Nodes
<1>1. CASE d = 0
  BY <1>1 DEF NodeOK, LeafOK, Nodes
<1>2. CASE d # 0
  <2>1. node \in InternalNodes(Below(h, d)) /\ Below(h, d) \subseteq Nat
    BY <1>2 DEF NodeOK, InternalOK, Below
  <2>2. /\ node = [kind |-> node.kind, keys |-> node.keys, kids |-> node.kids]
        /\ node.kind \in {"internal"} /\ node.keys \in Seq(Keys) /\ node.kids \in Seq(Below(h, d))
    BY <2>1 DEF InternalNodes
  <2>3. node.kids \in Seq(Nat)
    BY <2>1, <2>2, SeqMonotonic
  <2>4. node \in InternalNodes(Nat)
    BY <2>2, <2>3 DEF InternalNodes
  <2>5. QED
    BY <2>4 DEF Nodes
<1>3. QED
  BY <1>1, <1>2

\* A node of height d under h is one under g: the pages of h are pages of g,
\* and the ones below d still are.
Lifts(h, g, d) == DOMAIN h \subseteq DOMAIN g /\ Below(h, d) \subseteq Below(g, d)

LEMMA NodeLifts ==
    ASSUME NEW node, NEW h, NEW g, NEW d, NodeOK(node, h, d), Lifts(h, g, d)
    PROVE  NodeOK(node, g, d)
<1>1. DOMAIN h \subseteq DOMAIN g
  BY DEF Lifts
<1>2. CASE d = 0
  BY <1>1, <1>2 DEF NodeOK
<1>3. CASE d # 0
  <2>1. InternalOK(node, Below(h, d))
    BY <1>3 DEF NodeOK
  <2>2. Below(h, d) \subseteq Below(g, d)
    BY DEF Lifts
  <2>3. /\ node = [kind |-> node.kind, keys |-> node.keys, kids |-> node.kids]
        /\ node.kind \in {"internal"} /\ node.keys \in Seq(Keys) /\ node.kids \in Seq(Below(h, d))
    BY <2>1 DEF InternalOK, InternalNodes
  <2>4. node.kids \in Seq(Below(g, d))
    BY <2>2, <2>3, SeqMonotonic
  <2>5. node \in InternalNodes(Below(g, d))
    BY <2>3, <2>4 DEF InternalNodes
  <2>6. InternalOK(node, Below(g, d))
    BY <2>1, <2>5 DEF InternalOK
  <2>7. QED
    BY <1>3, <2>6 DEF NodeOK
<1>4. QED
  BY <1>2, <1>3

LEMMA ExtendsLifts ==
    ASSUME NEW h, NEW g, Extends(g, h), NEW d
    PROVE  Lifts(h, g, d)
BY DEF Extends, Lifts, Below

\* A node stays well-formed when the tree grows.
LEMMA NodeGrows ==
    ASSUME NEW node, NEW h, NEW g, NEW d, NodeOK(node, h, d), Extends(g, h)
    PROVE  NodeOK(node, g, d)
BY NodeLifts, ExtendsLifts

LEMMA GrowExtends ==
    ASSUME NEW n \in Nat \ {0}, NEW h, Heights(h, n), NEW d \in Nat, d <= h[1]
    PROVE  /\ Heights(Grow(h, n, d), n + 1) /\ Extends(Grow(h, n, d), h)
           /\ Grow(h, n, d)[n + 1] = d
           /\ \A p \in 1..n : Grow(h, n, d)[p] = h[p]
           /\ DOMAIN Grow(h, n, d) = 1..(n + 1)
<1> DEFINE g == Grow(h, n, d)
<1>1. /\ h \in [1..n -> Nat] /\ \A p \in 1..n : h[p] <= h[1]
  BY DEF Heights
<1>2. DOMAIN g = 1..(n + 1) /\ g[n + 1] = d
  BY DEF Grow
<1>3. \A p \in 1..n : p \in 1..(n + 1) /\ g[p] = h[p]
  BY DEF Grow
<1>4. g \in [1..(n + 1) -> Nat]
  BY <1>1 DEF Grow
<1>5. ASSUME NEW p \in 1..(n + 1) PROVE g[p] <= g[1]
  <2>1. 1 \in 1..n /\ g[1] = h[1]
    BY <1>3
  <2>2. CASE p = n + 1
    BY <1>2, <2>1, <2>2
  <2>3. CASE p # n + 1
    <3>1. p \in 1..n
      BY <2>3
    <3>2. QED
      BY <1>1, <1>3, <2>1, <3>1
  <2>4. QED
    BY <2>2, <2>3
<1>6. Heights(g, n + 1)
  BY <1>4, <1>5 DEF Heights
<1>7. Extends(g, h)
  BY <1>1, <1>2, <1>3 DEF Extends
<1>8. QED
  BY <1>2, <1>3, <1>6, <1>7

\* One node of a tree is replaced by another of its height.
LEMMA ReplaceNode ==
    ASSUME NEW pgs, NEW h, TreeOK(pgs, h), NEW p \in 1..Len(pgs), NEW node, NodeOK(node, h, h[p])
    PROVE  TreeOK([pgs EXCEPT ![p] = node], h)
<1> DEFINE t == [pgs EXCEPT ![p] = node]
<1>1. /\ pgs \in Seq(Nodes) /\ Len(pgs) \in Nat \ {0} /\ h \in [1..Len(pgs) -> Nat]
      /\ \A q \in 1..Len(pgs) : h[q] \in Nat
  BY TreeParts
<1>2. node \in Nodes
  BY <1>1, NodeTyped
<1>3. t \in Seq(Nodes) /\ Len(t) = Len(pgs) /\ \A q \in 1..Len(pgs) : t[q] = IF q = p THEN node ELSE pgs[q]
  BY <1>1, <1>2, ExceptSeq
<1> HIDE DEF t
<1>4. ASSUME NEW q \in 1..Len(pgs) PROVE NodeOK(t[q], h, h[q])
  <2>1. NodeOK(pgs[q], h, h[q])
    BY TreeNode
  <2>2. QED
    BY <1>3, <2>1
<1>5. LevelsOK(t, h, Len(t))
  BY <1>3, <1>4 DEF LevelsOK
<1>6. Heights(h, Len(t))
  BY <1>3 DEF TreeOK
<1>7. TreeOK(t, h)
  BY <1>1, <1>3, <1>5, <1>6 DEF TreeOK
<1>8. QED
  BY <1>7 DEF t

\* A new page behind the others, some of which may have changed.
LEMMA GrowTree ==
    ASSUME NEW pgs, NEW h, TreeOK(pgs, h), NEW d \in Nat, d <= h[1],
           NEW t \in Seq(Nodes), Len(t) = Len(pgs), NEW node,
           \A q \in 1..Len(pgs) : NodeOK(t[q], Grow(h, Len(pgs), d), h[q]),
           NodeOK(node, Grow(h, Len(pgs), d), d)
    PROVE  TreeOK(Append(t, node), Grow(h, Len(pgs), d))
<1> DEFINE n == Len(pgs)
           g == Grow(h, n, d)
           u == Append(t, node)
<1>1. n \in Nat \ {0} /\ Heights(h, n)
  BY DEF TreeOK
<1>2. /\ Heights(g, n + 1) /\ Extends(g, h) /\ g[n + 1] = d
      /\ \A p \in 1..n : g[p] = h[p]
  BY <1>1, GrowExtends
<1>3. g \in [1..(n + 1) -> Nat] /\ n + 1 \in Nat
  BY <1>1, <1>2 DEF Heights
<1> HIDE DEF g
<1>4. NodeOK(node, g, d)
  BY DEF g
<1>5. node \in Nodes
  BY <1>3, <1>4, NodeTyped
<1>6. /\ u \in Seq(Nodes) /\ Len(u) = n + 1 /\ u[n + 1] = node
      /\ \A q \in 1..n : u[q] = t[q]
  BY <1>5
<1> HIDE DEF u
<1>7. ASSUME NEW q \in 1..(n + 1) PROVE NodeOK(u[q], g, g[q])
  <2>1. CASE q = n + 1
    BY <1>2, <1>4, <1>6, <2>1
  <2>2. CASE q # n + 1
    <3>1. q \in 1..n
      BY <1>1, <2>2
    <3>2. NodeOK(t[q], g, h[q])
      BY <3>1 DEF g
    <3>3. QED
      BY <1>2, <1>6, <3>1, <3>2
  <2>3. QED
    BY <2>1, <2>2
<1>8. LevelsOK(u, g, Len(u))
  BY <1>6, <1>7 DEF LevelsOK
<1>9. TreeOK(u, g)
  BY <1>1, <1>2, <1>6, <1>8 DEF TreeOK
<1>10. QED
  BY <1>9 DEF u, g

-----------------------------------------------------------------------------
(* Descents. *)

\* s starts at p and goes down one level at a time, to a leaf.
IsPath(s, h, p) ==
    /\ s \in Seq(DOMAIN h) /\ Len(s) = h[p] + 1 /\ s[1] = p
    /\ \A i \in 1..Len(s) : h[s[i]] = h[p] - (i - 1)

\* s goes to the kid that the key is routed to.
Routed(s, pgs, row_id) == \A i \in 1..(Len(s) - 1) : s[i + 1] = route_key(pgs[s[i]], row_id)

\* The leaves are the pages of height 0, and a descent from any other page
\* goes to a page one below it.
LEMMA KindOf ==
    ASSUME NEW pgs, NEW h, TreeOK(pgs, h), NEW p \in 1..Len(pgs)
    PROVE  /\ IsLeaf(pgs[p]) <=> h[p] = 0
           /\ h[p] = 0 => LeafOK(pgs[p])
           /\ h[p] # 0 => InternalOK(pgs[p], Below(h, h[p]))
<1>1. NodeOK(pgs[p], h, h[p])
  BY TreeNode
<1>2. CASE h[p] = 0
  <2>1. LeafOK(pgs[p])
    BY <1>1, <1>2 DEF NodeOK
  <2>2. pgs[p].kind = "leaf"
    BY <2>1, LeafParts
  <2>3. QED
    BY <1>2, <2>1, <2>2 DEF IsLeaf
<1>3. CASE h[p] # 0
  <2>1. InternalOK(pgs[p], Below(h, h[p]))
    BY <1>1, <1>3 DEF NodeOK
  <2>2. pgs[p].kind = "internal"
    BY <2>1, InternalParts
  <2>3. QED
    BY <1>3, <2>1, <2>2 DEF IsLeaf
<1>4. QED
  BY <1>2, <1>3

LEMMA DescentStep ==
    ASSUME NEW pgs, NEW h, TreeOK(pgs, h), NEW p \in 1..Len(pgs), h[p] # 0, NEW row_id
    PROVE  /\ route_key(pgs[p], row_id) \in 1..Len(pgs)
           /\ h[route_key(pgs[p], row_id)] = h[p] - 1
<1>1. route_key(pgs[p], row_id) \in Below(h, h[p])
  BY KindOf, RouteOK
<1>2. DOMAIN h = 1..Len(pgs)
  BY TreeParts
<1>3. QED
  BY <1>1, <1>2 DEF Below

LEMMA PathStep ==
    ASSUME NEW n \in Nat, NEW h \in [1..n -> Nat], NEW p \in 1..n, NEW q \in 1..n,
           h[p] # 0, h[q] = h[p] - 1, NEW s, IsPath(s, h, q)
    PROVE  IsPath(<<p>> \o s, h, p)
<1> DEFINE t == <<p>> \o s
<1>1. /\ DOMAIN h = 1..n /\ h[p] \in Nat /\ h[q] \in Nat
      /\ s \in Seq(1..n) /\ Len(s) = h[p] /\ \A i \in 1..Len(s) : h[s[i]] = h[q] - (i - 1)
  BY DEF IsPath
<1>2. <<p>> \in Seq(1..n) /\ Len(<<p>>) = 1 /\ <<p>>[1] = p
  OBVIOUS
<1>3. /\ t \in Seq(1..n) /\ Len(t) = 1 + Len(s)
      /\ \A i \in 1..(1 + Len(s)) : t[i] = IF i <= 1 THEN <<p>>[i] ELSE s[i - 1]
  BY <1>1, <1>2, ConcatProperties, SMTT(30)
<1>4. Len(t) = h[p] + 1 /\ t[1] = p
  BY <1>1, <1>2, <1>3
<1>5. ASSUME NEW i \in 1..Len(t) PROVE h[t[i]] = h[p] - (i - 1)
  <2>1. CASE i = 1
    <3>1. h[t[1]] = h[p] /\ h[p] - (1 - 1) = h[p]
      BY <1>1, <1>4
    <3>2. QED
      BY <2>1, <3>1
  <2>2. CASE i # 1
    <3>1. i - 1 \in 1..Len(s) /\ t[i] = s[i - 1]
      BY <1>1, <1>3, <2>2
    <3>2. h[s[i - 1]] = h[q] - ((i - 1) - 1)
      BY <1>1, <3>1
    <3>3. h[q] - ((i - 1) - 1) = h[p] - (i - 1)
      BY <1>1, <1>3
    <3>4. QED
      BY <3>1, <3>2, <3>3
  <2>3. QED
    BY <2>1, <2>2
<1> HIDE DEF t
<1>6. IsPath(t, h, p)
  BY <1>1, <1>3, <1>4, <1>5 DEF IsPath
<1>7. QED
  BY <1>6 DEF t

LEMMA RoutedStep ==
    ASSUME NEW D, NEW s \in Seq(D), s # <<>>, NEW p \in D, NEW pgs, NEW row_id,
           s[1] = route_key(pgs[p], row_id), Routed(s, pgs, row_id)
    PROVE  Routed(<<p>> \o s, pgs, row_id)
<1> DEFINE t == <<p>> \o s
<1>1. <<p>> \in Seq(D) /\ Len(<<p>>) = 1 /\ <<p>>[1] = p /\ Len(s) \in Nat /\ Len(s) >= 1
  OBVIOUS
<1>2. /\ Len(t) = 1 + Len(s)
      /\ \A i \in 1..(1 + Len(s)) : t[i] = IF i <= 1 THEN <<p>>[i] ELSE s[i - 1]
  BY <1>1, ConcatProperties
<1> HIDE DEF t
<1>3. ASSUME NEW i \in 1..(Len(t) - 1) PROVE t[i + 1] = route_key(pgs[t[i]], row_id)
  <2>1. i \in 1..Len(s) /\ t[i + 1] = s[i]
    BY <1>1, <1>2
  <2>2. CASE i = 1
    <3>1. t[i] = p /\ t[i + 1] = s[1]
      BY <1>1, <1>2, <2>1, <2>2
    <3>2. QED
      BY <3>1
  <2>3. CASE i # 1
    <3>1. i - 1 \in 1..(Len(s) - 1) /\ (i - 1) + 1 = i /\ t[i] = s[i - 1]
      BY <1>1, <1>2, <2>1, <2>3
    <3>2. s[(i - 1) + 1] = route_key(pgs[s[i - 1]], row_id)
      BY <3>1 DEF Routed
    <3>3. QED
      BY <2>1, <3>1, <3>2
  <2>4. QED
    BY <2>2, <2>3
<1>4. QED
  BY <1>3 DEF Routed, t

\* Every descent is a path from the root to a leaf, routed by its key.
LEMMA PathOK ==
    ASSUME NEW pgs, NEW h, TreeOK(pgs, h), NEW row_id
    PROVE  IsPath(PathTo(pgs, row_id), h, Root) /\ Routed(PathTo(pgs, row_id), pgs, row_id)
<1> DEFINE N == Len(pgs)
           D == 1..N
           H == h[1]
           r(p) == route_key(pgs[p], row_id)
           V == [D -> Seq(D)]
           body(u) == [p \in DOMAIN pgs |-> IF IsLeaf(pgs[p]) THEN <<p>>
                                            ELSE <<p>> \o u[route_key(pgs[p], row_id)]]
           step(v) == [p \in D |-> IF h[p] = 0 THEN <<p>> ELSE <<p>> \o v[r(p)]]
           a == [p \in D |-> <<p>>]
           g == [k \in 1..H |-> [v \in V |-> step(v)]]
           w == CHOOSE u : u = body(u)
<1>1. /\ N \in Nat \ {0} /\ DOMAIN pgs = D /\ h \in [D -> Nat] /\ H \in Nat /\ 1 \in D
      /\ \A p \in D : h[p] \in Nat /\ h[p] \in 0..H
  <2>1. \A p \in D : h[p] \in Nat /\ h[p] <= H /\ H \in Nat
    BY TreeParts
  <2>2. \A p \in D : h[p] \in 0..H
    BY <2>1
  <2>3. QED
    BY <2>1, <2>2, TreeParts
<1>2. \A p \in D : /\ IsLeaf(pgs[p]) <=> h[p] = 0
                   /\ h[p] # 0 => r(p) \in D /\ h[r(p)] = h[p] - 1
  BY KindOf, DescentStep
<1> HIDE DEF N, H, r
<1>3. a \in V
  OBVIOUS
<1>4. ASSUME NEW v \in V PROVE step(v) \in V
  <2>1. ASSUME NEW p \in D PROVE (IF h[p] = 0 THEN <<p>> ELSE <<p>> \o v[r(p)]) \in Seq(D)
    <3>1. CASE h[p] = 0
      BY <3>1
    <3>2. CASE h[p] # 0
      <4>1. v[r(p)] \in Seq(D) /\ <<p>> \in Seq(D)
        BY <1>2, <3>2
      <4>2. <<p>> \o v[r(p)] \in Seq(D)
        BY <4>1, ConcatProperties
      <4>3. QED
        BY <3>2, <4>2
    <3>3. QED
      BY <3>1, <3>2
  <2>2. QED
    BY <2>1
<1>5. g \in [1..H -> [V -> V]]
  <2> HIDE DEF V, step
  <2>1. QED
    BY <1>4
<1>6. \A k \in 1..H, v \in V : g[k][v] = step(v)
  <2> HIDE DEF V, step
  <2>1. QED
    OBVIOUS
<1>7. \E u : u = body(u)
  <2>1. PICK f : IsRecursive(f, H, V, a, g)
    <3> HIDE DEF V, a, g
    <3>1. QED
      BY <1>1, <1>3, <1>5, RecursiveFunction
  <2>2. f \in [0..H -> V] /\ f[0] = a /\ \A k \in 1..H : f[k] = g[k][f[k - 1]]
    <3> HIDE DEF V, a, g
    <3>1. QED
      BY <2>1 DEF IsRecursive
  <2>3. \A k \in 1..H : f[k] = step(f[k - 1])
    <3> HIDE DEF V, a, g, step
    <3>1. ASSUME NEW k \in 1..H PROVE f[k] = step(f[k - 1])
      <4>1. k - 1 \in 0..H
        BY <1>1
      <4>2. f[k - 1] \in V
        BY <2>2, <4>1
      <4>3. QED
        BY <1>6, <2>2, <4>2
    <3>2. QED
      BY <3>1
  <2>4. \A p \in D : f[0][p] = <<p>>
    BY <2>2
  <2>5. \A p \in D, k \in 1..H : h[p] # 0 => f[k][p] = <<p>> \o f[k - 1][r(p)]
    <3>1. ASSUME NEW p \in D, NEW k \in 1..H, h[p] # 0
          PROVE  f[k][p] = <<p>> \o f[k - 1][r(p)]
      <4>1. f[k] = step(f[k - 1])
        BY <2>3
      <4>2. step(f[k - 1])[p] = <<p>> \o f[k - 1][r(p)]
        BY <3>1
      <4> HIDE DEF step
      <4>3. QED
        BY <4>1, <4>2
    <3>2. QED
      BY <3>1
  <2> DEFINE d == [p \in D |-> f[h[p]][p]]
  <2>6. \A p \in D : d[p] = f[h[p]][p]
    OBVIOUS
  <2>7. ASSUME NEW p \in D
        PROVE  d[p] = IF IsLeaf(pgs[p]) THEN <<p>> ELSE <<p>> \o d[r(p)]
    <3> HIDE DEF d
    <3>1. CASE h[p] = 0
      BY <1>2, <2>4, <2>6, <3>1
    <3>2. CASE h[p] # 0
      <4>1. h[p] \in 1..H /\ r(p) \in D /\ h[r(p)] = h[p] - 1
        BY <1>1, <1>2, <3>2
      <4>2. d[p] = <<p>> \o f[h[p] - 1][r(p)]
        BY <2>5, <2>6, <3>2, <4>1
      <4>3. d[r(p)] = f[h[p] - 1][r(p)]
        BY <2>6, <4>1
      <4>4. QED
        BY <1>2, <3>2, <4>2, <4>3
    <3>3. QED
      BY <3>1, <3>2
  <2>8. d = [p \in D |-> d[p]]
    OBVIOUS
  <2> HIDE DEF d
  <2>9. d = body(d)
    BY <1>1, <2>7, <2>8 DEF r
  <2>10. QED
    BY <2>9
<1>8. w = body(w)
  <2> HIDE DEF body
  <2>1. QED
    BY <1>7
<1>9. PathTo(pgs, row_id) = w[1]
  BY DEF PathTo, Root
<1> HIDE DEF w
<1>10. ASSUME NEW p \in D
       PROVE  w[p] = IF h[p] = 0 THEN <<p>> ELSE <<p>> \o w[r(p)]
  <2>1. body(w)[p] = IF IsLeaf(pgs[p]) THEN <<p>> ELSE <<p>> \o w[r(p)]
    BY <1>1 DEF r
  <2> HIDE DEF body
  <2>2. QED
    BY <1>2, <1>8, <2>1
<1> DEFINE P == {k \in 0..H : \A p \in D : h[p] = k => IsPath(w[p], h, p) /\ Routed(w[p], pgs, row_id)}
<1>11. 0 \in P
  <2>1. ASSUME NEW p \in D, h[p] = 0 PROVE IsPath(w[p], h, p) /\ Routed(w[p], pgs, row_id)
    <3>1. w[p] = <<p>>
      BY <1>10, <2>1
    <3>2. <<p>> \in Seq(D) /\ Len(<<p>>) = 1 /\ <<p>>[1] = p
      OBVIOUS
    <3>3. \A i \in 1..1 : h[<<p>>[i]] = h[p] - (i - 1)
      BY <1>1, <2>1
    <3>4. IsPath(w[p], h, p)
      BY <1>1, <2>1, <3>1, <3>2, <3>3 DEF IsPath
    <3>5. Routed(w[p], pgs, row_id)
      BY <3>1, <3>2 DEF Routed
    <3>6. QED
      BY <3>4, <3>5
  <2>2. QED
    BY <1>1, <2>1
<1>12. ASSUME NEW k \in 0..(H - 1), k \in P PROVE k + 1 \in P
  <2>1. ASSUME NEW p \in D, h[p] = k + 1 PROVE IsPath(w[p], h, p) /\ Routed(w[p], pgs, row_id)
    <3>1. h[p] # 0 /\ r(p) \in D /\ h[r(p)] = h[p] - 1 /\ h[r(p)] = k
      BY <1>1, <1>2, <2>1
    <3>2. IsPath(w[r(p)], h, r(p)) /\ Routed(w[r(p)], pgs, row_id)
      BY <1>12, <3>1
    <3>3. IsPath(<<p>> \o w[r(p)], h, p)
      BY <1>1, <3>1, <3>2, PathStep
    <3>4. w[r(p)] \in Seq(D) /\ w[r(p)] # <<>> /\ w[r(p)][1] = r(p)
      <4>1. DOMAIN h = D /\ h[r(p)] \in Nat
        BY <1>1, <3>1
      <4>2. w[r(p)] \in Seq(D) /\ Len(w[r(p)]) = h[r(p)] + 1 /\ w[r(p)][1] = r(p)
        BY <3>2, <4>1 DEF IsPath
      <4>3. Len(w[r(p)]) # 0
        BY <4>1, <4>2
      <4>4. QED
        BY <4>2, <4>3
    <3>5. Routed(<<p>> \o w[r(p)], pgs, row_id)
      BY <3>2, <3>4, RoutedStep DEF r
    <3>6. QED
      BY <1>10, <3>1, <3>3, <3>5
  <2>2. k + 1 \in 0..H
    BY <1>1
  <2>3. QED
    BY <2>1, <2>2
<1>13. \A k \in 0..H : k \in P
  <2> HIDE DEF P
  <2>1. QED
    BY <1>1, <1>11, <1>12, BoundedInduction
<1>14. IsPath(w[1], h, 1) /\ Routed(w[1], pgs, row_id)
  BY <1>1, <1>13
<1>15. QED
  BY <1>9, <1>14 DEF Root

\* A descent ends at a leaf.
LEMMA LeafForOK ==
    ASSUME NEW pgs, NEW h, TreeOK(pgs, h), NEW row_id
    PROVE  /\ LeafFor(pgs, row_id) \in 1..Len(pgs) /\ h[LeafFor(pgs, row_id)] = 0
           /\ LeafOK(pgs[LeafFor(pgs, row_id)])
<1> DEFINE s == PathTo(pgs, row_id)
<1>1. DOMAIN h = 1..Len(pgs) /\ h[1] \in Nat
  BY TreeParts
<1>2. IsPath(s, h, 1)
  BY PathOK DEF Root
<1> HIDE DEF s
<1>3. /\ s \in Seq(1..Len(pgs)) /\ Len(s) = h[1] + 1
      /\ \A i \in 1..Len(s) : h[s[i]] = h[1] - (i - 1)
  BY <1>1, <1>2 DEF IsPath
<1>4. Len(s) \in 1..Len(s)
  BY <1>1, <1>3
<1>5. s[Len(s)] \in 1..Len(pgs) /\ h[s[Len(s)]] = h[1] - (Len(s) - 1)
  BY <1>3, <1>4
<1>6. h[1] - (Len(s) - 1) = 0
  BY <1>1, <1>3
<1>7. LeafFor(pgs, row_id) = s[Len(s)]
  BY DEF LeafFor, Last, s
<1>8. QED
  BY <1>5, <1>6, <1>7, KindOf

-----------------------------------------------------------------------------
(* Insertion: the leaf. *)

States == [res : Results, pages : Seq(Nodes), split : Seq(Nat)]

\* The split still to be told to the parent has a key and a new page of height d.
Pending(told, g, d) ==
    \/ told = <<>>
    \/ \E key \in Keys, child \in DOMAIN g : told = <<key, child>> /\ g[child] = d /\ child # 1

\* A step of an insertion into a tree with heights h that has reached height d:
\* the pages are a tree, and a pending split is one of height d.
Rising(st, h, d) ==
    st \in States /\ \E g : TreeOK(st.pages, g) /\ Extends(g, h) /\ Pending(st.split, g, d)

LEMMA ExtendsSelf == ASSUME NEW h PROVE Extends(h, h)
BY DEF Extends

LEMMA ExtendsTransitive ==
    ASSUME NEW f, NEW g, NEW h, Extends(f, g), Extends(g, h)
    PROVE  Extends(f, h)
BY DEF Extends

\* A step that ends the insertion, successfully or not.
LEMMA FailedRises ==
    ASSUME NEW t, NEW h, TreeOK(t, h), NEW e \in Results, NEW d
    PROVE  Rising(Failed(e, t), h, d)
<1>1. t \in Seq(Nodes) /\ <<>> \in Seq(Nat)
  BY TreeParts
<1>2. Failed(e, t) \in States /\ Failed(e, t).pages = t /\ Failed(e, t).split = <<>>
  BY <1>1 DEF Failed, States
<1>3. Pending(Failed(e, t).split, h, d)
  BY <1>2 DEF Pending
<1>4. QED
  BY <1>2, <1>3, ExtendsSelf DEF Rising

LEMMA DoneRises ==
    ASSUME NEW t, NEW h, TreeOK(t, h), NEW d
    PROVE  Rising(Done(t), h, d)
<1>1. Done(t) = Failed("Ok", t) /\ "Ok" \in Results
  BY DEF Done, Failed, Results
<1>2. QED
  BY <1>1, FailedRises

\* New links for a leaf.
LEMMA RelinkPrev ==
    ASSUME NEW x, LeafOK(x), NEW a \in Nat
    PROVE  /\ LeafOK([x EXCEPT !.prev = a])
           /\ [x EXCEPT !.prev = a].prev = a
           /\ [x EXCEPT !.prev = a].next = x.next
<1> DEFINE y == [x EXCEPT !.prev = a]
<1>1. x \in LeafNodes /\ x.free_size \in 0..(PAGE_SIZE - LeafBytes(x.records))
  BY DEF LeafOK
<1>2. /\ y \in LeafNodes /\ y.records = x.records /\ y.free_size = x.free_size
      /\ y.prev = a /\ y.next = x.next
  BY <1>1 DEF LeafNodes
<1> HIDE DEF y
<1>3. LeafOK(y)
  BY <1>1, <1>2 DEF LeafOK
<1>4. QED
  BY <1>2, <1>3 DEF y

LEMMA RelinkNext ==
    ASSUME NEW x, LeafOK(x), NEW b \in Nat
    PROVE  /\ LeafOK([x EXCEPT !.next = b])
           /\ [x EXCEPT !.next = b].prev = x.prev
           /\ [x EXCEPT !.next = b].next = b
<1> DEFINE y == [x EXCEPT !.next = b]
<1>1. x \in LeafNodes /\ x.free_size \in 0..(PAGE_SIZE - LeafBytes(x.records))
  BY DEF LeafOK
<1>2. /\ y \in LeafNodes /\ y.records = x.records /\ y.free_size = x.free_size
      /\ y.prev = x.prev /\ y.next = b
  BY <1>1 DEF LeafNodes
<1> HIDE DEF y
<1>3. LeafOK(y)
  BY <1>1, <1>2 DEF LeafOK
<1>4. QED
  BY <1>2, <1>3 DEF y

\* A new back link leaves a node well-formed; an internal node has none.
LEMMA RelinkNode ==
    ASSUME NEW node, NEW h, NEW g, NEW d, NodeOK(node, h, d), Lifts(h, g, d),
           NEW a \in DOMAIN g, a \in Nat
    PROVE  NodeOK([node EXCEPT !.prev = a], g, d)
<1>1. NodeOK(node, g, d)
  BY NodeLifts
<1>2. CASE d = 0
  <2>1. LeafOK(node) /\ node.next \in {0} \cup DOMAIN g
    BY <1>1, <1>2 DEF NodeOK
  <2>2. LeafOK([node EXCEPT !.prev = a]) /\ [node EXCEPT !.prev = a].prev = a
        /\ [node EXCEPT !.prev = a].next = node.next
    BY <2>1, RelinkPrev
  <2>3. QED
    BY <1>2, <2>1, <2>2 DEF NodeOK
<1>3. CASE d # 0
  <2>1. node \in InternalNodes(Below(g, d))
    BY <1>1, <1>3 DEF NodeOK, InternalOK
  <2>2. [node EXCEPT !.prev = a] = node
    BY <2>1 DEF InternalNodes
  <2>3. QED
    BY <1>1, <2>2
<1>4. QED
  BY <1>2, <1>3

\* The pages after a leaf was split: the left half in its place, the right
\* half on a new page, and the old right sibling linked back to that.
LinkedPages(pgs, leaf, left_leaf, right_leaf) ==
    LET right    == Len(pgs) + 1
        old_next == pgs[leaf].next
        relinked == IF old_next = None THEN pgs ELSE [pgs EXCEPT ![old_next].prev = right]
    IN  Append([relinked EXCEPT ![leaf] = [left_leaf EXCEPT !.next = right]],
               [right_leaf EXCEPT !.prev = leaf, !.next = old_next])

LEMMA LinkedOK ==
    ASSUME NEW pgs, NEW h, TreeOK(pgs, h), NEW leaf \in 1..Len(pgs), h[leaf] = 0,
           NEW l, LeafOK(l), SameLinks(l, pgs[leaf]), NEW r, LeafOK(r)
    PROVE  TreeOK(LinkedPages(pgs, leaf, l, r), Grow(h, Len(pgs), 0))
<1> DEFINE N == Len(pgs)
           right == N + 1
           old_next == pgs[leaf].next
           relinked == IF old_next = None THEN pgs ELSE [pgs EXCEPT ![old_next].prev = right]
           a == [l EXCEPT !.next = right]
           b == [r EXCEPT !.prev = leaf, !.next = old_next]
           t == [relinked EXCEPT ![leaf] = a]
           g == Grow(h, N, 0)
<1>1. /\ pgs \in Seq(Nodes) /\ N \in Nat \ {0} /\ DOMAIN h = 1..N /\ h[1] \in Nat /\ 0 <= h[1]
      /\ h \in [1..N -> Nat]
  BY TreeParts
<1>2. Heights(h, N)
  BY DEF TreeOK
<1>3. /\ Heights(g, N + 1) /\ Extends(g, h) /\ g[N + 1] = 0 /\ DOMAIN g = 1..(N + 1)
      /\ \A q \in 1..N : g[q] = h[q]
  BY <1>1, <1>2, GrowExtends
<1>4. NodeOK(pgs[leaf], h, 0)
  BY TreeNode
<1>5. /\ pgs[leaf].prev \in {0} \cup 1..N /\ old_next \in {0} \cup 1..N
  BY <1>1, <1>4 DEF NodeOK
<1> HIDE DEF g, N
<1>6. right \in Nat /\ right \in DOMAIN g /\ leaf \in Nat /\ leaf \in DOMAIN g /\ old_next \in Nat
      /\ old_next \in {0} \cup DOMAIN g
  <2>1. right \in Nat /\ right \in 1..(N + 1) /\ leaf \in Nat /\ leaf \in 1..(N + 1)
    BY <1>1 DEF N
  <2>2. old_next \in Nat /\ old_next \in {0} \cup 1..(N + 1)
    BY <1>1, <1>5
  <2>3. QED
    BY <1>3, <2>1, <2>2
<1>7. NodeOK(a, g, 0)
  <2>1. LeafOK(a) /\ a.prev = l.prev /\ a.next = right
    BY <1>6, RelinkNext
  <2>2. l.prev = pgs[leaf].prev
    BY DEF SameLinks
  <2>3. a.prev \in {0} \cup DOMAIN g
    BY <1>1, <1>3, <1>5, <2>1, <2>2
  <2> HIDE DEF a, right
  <2>4. QED
    BY <1>6, <2>1, <2>3 DEF NodeOK
<1>8. NodeOK(b, g, 0)
  <2>1. LeafOK(b) /\ b.prev = leaf /\ b.next = old_next
    <3>1. leaf \in Nat /\ old_next \in Nat
      BY <1>6
    <3> DEFINE y == [r EXCEPT !.prev = leaf]
    <3> HIDE DEF old_next
    <3>2. b = [y EXCEPT !.next = old_next]
      OBVIOUS
    <3>3. LeafOK(y) /\ y.prev = leaf
      BY <3>1, RelinkPrev
    <3> HIDE DEF y, b
    <3>4. QED
      BY <3>1, <3>2, <3>3, RelinkNext
  <2> HIDE DEF b, old_next
  <2>2. QED
    BY <1>6, <2>1 DEF NodeOK
<1>9. ASSUME NEW q \in 1..N PROVE NodeOK([pgs[q] EXCEPT !.prev = right], g, h[q])
  <2>1. NodeOK(pgs[q], h, h[q])
    BY TreeNode DEF N
  <2>2. Lifts(h, g, h[q])
    BY <1>3, ExtendsLifts
  <2> HIDE DEF right
  <2>3. QED
    BY <1>6, <2>1, <2>2, RelinkNode
<1>10. \A q \in 1..N : NodeOK(pgs[q], g, h[q])
  <2>1. \A q \in 1..N : NodeOK(pgs[q], h, h[q])
    BY TreeNode DEF N
  <2>2. QED
    BY <1>3, <2>1, NodeGrows
<1>11. g \in [1..(N + 1) -> Nat] /\ N + 1 \in Nat
  BY <1>1, <1>3 DEF Heights
<1>12. /\ relinked \in Seq(Nodes) /\ Len(relinked) = N
       /\ \A q \in 1..N : NodeOK(relinked[q], g, h[q])
  <2>1. CASE old_next = None
    <3>1. relinked = pgs
      BY <2>1
    <3>2. QED
      BY <1>1, <1>10, <3>1 DEF N
  <2>2. CASE old_next # None
    <3>1. old_next \in 1..N
      BY <1>5, <2>2 DEF None
    <3> DEFINE y == [pgs[old_next] EXCEPT !.prev = right]
    <3>2. relinked = [pgs EXCEPT ![old_next] = y]
      BY <2>2
    <3>3. NodeOK(y, g, h[old_next])
      BY <1>9, <3>1
    <3>4. h[old_next] \in Nat
      BY <1>1, <3>1
    <3>5. y \in Nodes
      BY <1>11, <3>3, <3>4, NodeTyped
    <3> HIDE DEF y, old_next, relinked
    <3>6. /\ relinked \in Seq(Nodes) /\ Len(relinked) = N
          /\ \A q \in 1..N : relinked[q] = IF q = old_next THEN y ELSE pgs[q]
      BY <1>1, <3>1, <3>2, <3>5, ExceptSeq DEF N
    <3>7. QED
      BY <1>10, <3>3, <3>6
  <2>3. QED
    BY <2>1, <2>2
<1>13. LinkedPages(pgs, leaf, l, r) = Append(t, b)
  BY DEF LinkedPages, N
<1>14. a \in Nodes
  BY <1>7, <1>11, NodeTyped
<1> HIDE DEF relinked, a, b, old_next, right
<1>15. /\ t \in Seq(Nodes) /\ Len(t) = N
       /\ \A q \in 1..N : t[q] = IF q = leaf THEN a ELSE relinked[q]
  BY <1>12, <1>14, ExceptSeq DEF N
<1> HIDE DEF t
<1>16. \A q \in 1..N : NodeOK(t[q], g, h[q])
  BY <1>7, <1>12, <1>15
<1>17. TreeOK(Append(t, b), g)
  <2>1. \A q \in 1..Len(pgs) : NodeOK(t[q], Grow(h, Len(pgs), 0), h[q])
    BY <1>16 DEF g, N
  <2>2. NodeOK(b, Grow(h, Len(pgs), 0), 0)
    BY <1>8 DEF g, N
  <2>3. TreeOK(Append(t, b), Grow(h, Len(pgs), 0))
    BY <1>1, <1>15, <2>1, <2>2, GrowTree DEF N
  <2>4. QED
    BY <2>3 DEF g, N
<1>18. QED
  BY <1>13, <1>17 DEF g, N

\* A step that split a page of height d into itself and a new last page.
SplitStep(pgs, key, right) == [res |-> "Ok", pages |-> pgs, split |-> <<key, right>>]

LEMMA SplitRises ==
    ASSUME NEW pgs, NEW g, TreeOK(pgs, g), NEW h, Extends(g, h), NEW d,
           NEW key \in Keys, NEW right \in DOMAIN g, right # 1, g[right] = d
    PROVE  Rising(SplitStep(pgs, key, right), h, d)
<1>1. pgs \in Seq(Nodes) /\ DOMAIN g = 1..Len(pgs) /\ Len(pgs) \in Nat
  BY TreeParts
<1>2. <<key, right>> \in Seq(Nat)
  <2>1. key \in Nat /\ right \in Nat
    BY <1>1, KeysAssumption
  <2>2. QED
    BY <2>1
<1> DEFINE st == SplitStep(pgs, key, right)
<1>3. st \in States /\ st.pages = pgs /\ st.split = <<key, right>>
  BY <1>1, <1>2 DEF SplitStep, States, Results
<1> HIDE DEF st
<1>4. Pending(st.split, g, d)
  BY <1>3 DEF Pending
<1>5. Rising(st, h, d)
  BY <1>3, <1>4 DEF Rising
<1>6. QED
  BY <1>5 DEF st

\* split_leaf on a leaf that is not empty once it is compacted.
LEMMA SplitLeafOK ==
    ASSUME NEW pgs, NEW h, TreeOK(pgs, h), NEW leaf \in 1..Len(pgs), h[leaf] = 0,
           NEW row_id \in Keys, NEW len \in Payloads, compact(pgs[leaf]).records # <<>>
    PROVE  Rising(split_leaf(pgs, leaf, row_id, len), h, 0)
<1> DEFINE N == Len(pgs)
           c == compact(pgs[leaf])
           halves == split(c)
           promoted == halves.right.records[1].row_id
           put == insert_record(IF row_id < promoted THEN halves.left ELSE halves.right, row_id, len)
           st == split_leaf(pgs, leaf, row_id, len)
<1>1. LeafOK(pgs[leaf])
  BY KindOf
<1>2. LeafOK(c) /\ SameLinks(c, pgs[leaf]) /\ AllLive(c.records)
  BY <1>1, LeafParts, CompactOK
<1>3. /\ LeafOK(halves.left) /\ SameLinks(halves.left, c) /\ LeafOK(halves.right)
      /\ promoted \in Keys
  <2> HIDE DEF c
  <2>1. c.records # <<>>
    BY DEF c
  <2>2. QED
    BY <1>2, <2>1, SplitOK
<1>4. SameLinks(halves.left, pgs[leaf])
  BY <1>2, <1>3 DEF SameLinks
<1>5. st = IF put.res # "Ok" THEN Failed(put.res, pgs)
           ELSE IF row_id < promoted
                THEN SplitStep(LinkedPages(pgs, leaf, put.leaf, halves.right), promoted, N + 1)
                ELSE SplitStep(LinkedPages(pgs, leaf, halves.left, put.leaf), promoted, N + 1)
  BY DEF split_leaf, SplitStep, LinkedPages
<1> DEFINE half == IF row_id < promoted THEN halves.left ELSE halves.right
<1>6. LeafOK(half)
  BY <1>3
<1>7. put = insert_record(half, row_id, len)
  OBVIOUS
<1> HIDE DEF half
<1>8. /\ put.res \in Results
      /\ put.res = "Ok" => LeafOK(put.leaf) /\ SameLinks(put.leaf, half)
  BY <1>6, <1>7, InsertRecordOK
<1>9. row_id < promoted => half = halves.left
  BY DEF half
<1> HIDE DEF c, halves, promoted, put, st
<1>10. ASSUME NEW l, LeafOK(l), SameLinks(l, pgs[leaf]), NEW r, LeafOK(r)
       PROVE  Rising(SplitStep(LinkedPages(pgs, leaf, l, r), promoted, N + 1), h, 0)
  <2>1. TreeOK(LinkedPages(pgs, leaf, l, r), Grow(h, N, 0))
    BY <1>10, LinkedOK
  <2>2. N \in Nat \ {0} /\ Heights(h, N) /\ h[1] \in Nat
    BY TreeParts DEF TreeOK
  <2> HIDE DEF N
  <2>3. /\ Extends(Grow(h, N, 0), h) /\ Grow(h, N, 0)[N + 1] = 0
        /\ DOMAIN Grow(h, N, 0) = 1..(N + 1)
    BY <2>2, GrowExtends
  <2>4. N + 1 \in 1..(N + 1) /\ N + 1 # 1
    BY <2>2
  <2>5. QED
    BY <1>3, <2>1, <2>3, <2>4, SplitRises
<1>11. CASE put.res # "Ok"
  BY <1>5, <1>8, <1>11, FailedRises DEF st
<1>12. CASE put.res = "Ok" /\ row_id < promoted
  <2>1. LeafOK(put.leaf) /\ SameLinks(put.leaf, pgs[leaf])
    BY <1>4, <1>8, <1>9, <1>12 DEF SameLinks
  <2>2. st = SplitStep(LinkedPages(pgs, leaf, put.leaf, halves.right), promoted, N + 1)
    BY <1>5, <1>12
  <2>3. QED
    BY <1>3, <1>10, <2>1, <2>2 DEF st
<1>13. CASE put.res = "Ok" /\ ~(row_id < promoted)
  <2>1. LeafOK(put.leaf)
    BY <1>8, <1>13
  <2>2. st = SplitStep(LinkedPages(pgs, leaf, halves.left, put.leaf), promoted, N + 1)
    BY <1>5, <1>13
  <2>3. QED
    BY <1>3, <1>4, <1>10, <2>1, <2>2 DEF st
<1>14. QED
  BY <1>11, <1>12, <1>13

\* A leaf is replaced by one with the same links.
LEMMA ReplaceLeaf ==
    ASSUME NEW pgs, NEW h, TreeOK(pgs, h), NEW leaf \in 1..Len(pgs), h[leaf] = 0,
           NEW x, LeafOK(x), SameLinks(x, pgs[leaf])
    PROVE  TreeOK([pgs EXCEPT ![leaf] = x], h)
<1>1. NodeOK(pgs[leaf], h, 0)
  BY TreeNode
<1>2. NodeOK(x, h, h[leaf])
  BY <1>1 DEF NodeOK, SameLinks
<1>3. QED
  BY <1>2, ReplaceNode

LEMMA InsertLeafOK ==
    ASSUME NEW pgs, NEW h, TreeOK(pgs, h), NEW leaf \in 1..Len(pgs), h[leaf] = 0,
           NEW row_id \in Keys, NEW len \in Payloads
    PROVE  Rising(insert_leaf(pgs, leaf, row_id, len), h, 0)
<1> DEFINE c == compact(pgs[leaf])
           first == insert_record(pgs[leaf], row_id, len)
           again == insert_record(c, row_id, len)
           halved == split_leaf(pgs, leaf, row_id, len)
           st == insert_leaf(pgs, leaf, row_id, len)
<1>1. LeafOK(pgs[leaf])
  BY KindOf
<1>2. LeafOK(c) /\ SameLinks(c, pgs[leaf])
  BY <1>1, LeafParts, CompactOK
<1>3. /\ first.res \in Results
      /\ first.res = "Ok" => LeafOK(first.leaf) /\ SameLinks(first.leaf, pgs[leaf])
      /\ first.res = "PageFull" => len <= MAX_VALUE_SIZE
  BY <1>1, InsertRecordOK
<1>4. /\ again.res \in Results
      /\ again.res = "Ok" => LeafOK(again.leaf) /\ SameLinks(again.leaf, c)
      /\ c.records = <<>> /\ len <= MAX_VALUE_SIZE => again.res = "Ok"
  <2> HIDE DEF c
  <2>1. QED
    BY <1>2, InsertRecordOK
<1>5. st = CASE first.res = "Ok" -> Done([pgs EXCEPT ![leaf] = first.leaf])
             [] first.res \notin {"Ok", "PageFull"} -> Failed(first.res, pgs)
             [] first.res = "PageFull" ->
                   IF again.res = "Ok" THEN Done([pgs EXCEPT ![leaf] = again.leaf]) ELSE halved
  BY DEF insert_leaf
<1>6. c.records # <<>> => Rising(halved, h, 0)
  BY SplitLeafOK
<1> HIDE DEF first, again, halved, c, st
<1>7. CASE first.res = "Ok"
  <2>1. st = Done([pgs EXCEPT ![leaf] = first.leaf])
    BY <1>5, <1>7
  <2>2. TreeOK([pgs EXCEPT ![leaf] = first.leaf], h)
    BY <1>3, <1>7, ReplaceLeaf
  <2>3. QED
    BY <2>1, <2>2, DoneRises DEF st
<1>8. CASE first.res \notin {"Ok", "PageFull"}
  <2>1. st = Failed(first.res, pgs)
    BY <1>5, <1>8
  <2>2. QED
    BY <1>3, <2>1, FailedRises DEF st
<1>9. CASE first.res = "PageFull" /\ again.res = "Ok"
  <2>1. st = Done([pgs EXCEPT ![leaf] = again.leaf])
    BY <1>5, <1>9
  <2>2. LeafOK(again.leaf) /\ SameLinks(again.leaf, pgs[leaf])
    BY <1>2, <1>4, <1>9 DEF SameLinks
  <2>3. TreeOK([pgs EXCEPT ![leaf] = again.leaf], h)
    BY <2>2, ReplaceLeaf
  <2>4. QED
    BY <2>1, <2>3, DoneRises DEF st
<1>10. CASE first.res = "PageFull" /\ again.res # "Ok"
  <2>1. st = halved
    BY <1>5, <1>10
  <2>2. c.records # <<>>
    BY <1>3, <1>4, <1>10
  <2>3. QED
    BY <1>6, <2>1, <2>2 DEF st
<1>11. QED
  BY <1>7, <1>8, <1>9, <1>10

-----------------------------------------------------------------------------
(* Insertion: the way back up. *)

LEMMA RisingWeaker ==
    ASSUME NEW st, NEW g, NEW h, NEW d, Rising(st, g, d), Extends(g, h)
    PROVE  Rising(st, h, d)
<1>1. PICK f : TreeOK(st.pages, f) /\ Extends(f, g) /\ Pending(st.split, f, d)
  BY DEF Rising
<1>2. Extends(f, h)
  BY <1>1, ExtendsTransitive
<1>3. QED
  BY <1>1, <1>2 DEF Rising

\* The halves of a full node, with the pending entry in the one that owns it.
LeftHalf(node, key, child) ==
    IF key < split_entries(node).promoted
    THEN insert_entry(split_entries(node).left, key, child) ELSE split_entries(node).left

RightHalf(node, key, child) ==
    IF key < split_entries(node).promoted
    THEN split_entries(node).right ELSE insert_entry(split_entries(node).right, key, child)

HalvedPages(pgs, parent, key, child) ==
    Append([pgs EXCEPT ![parent] = LeftHalf(pgs[parent], key, child)], RightHalf(pgs[parent], key, child))

\* insert_internal adds an entry to a node with room, and halves a full one.
\* A full parent becomes two, which hand a key and a page to the level above.
Halved(pgs, g, d, parent, key, child) ==
    /\ insert_internal(pgs, parent, key, child)
         = SplitStep(HalvedPages(pgs, parent, key, child),
                     split_entries(pgs[parent]).promoted, Len(pgs) + 1)
    /\ TreeOK(HalvedPages(pgs, parent, key, child), Grow(g, Len(pgs), d + 1))
    /\ split_entries(pgs[parent]).promoted \in Keys

LEMMA InternalSteps ==
    ASSUME NEW pgs, NEW g, TreeOK(pgs, g), NEW d \in Nat,
           NEW parent \in 1..Len(pgs), g[parent] = d + 1,
           NEW key \in Keys, NEW child \in DOMAIN g, g[child] = d
    PROVE  /\ ~InternalFull(pgs[parent]) =>
                /\ insert_internal(pgs, parent, key, child)
                     = Done([pgs EXCEPT ![parent] = insert_entry(pgs[parent], key, child)])
                /\ TreeOK([pgs EXCEPT ![parent] = insert_entry(pgs[parent], key, child)], g)
           /\ InternalFull(pgs[parent]) => Halved(pgs, g, d, parent, key, child)
<1> DEFINE N == Len(pgs)
           S == Below(g, d + 1)
           node == pgs[parent]
           halves == split_entries(node)
           left_node == LeftHalf(node, key, child)
           right_node == RightHalf(node, key, child)
           st == insert_internal(pgs, parent, key, child)
           u == HalvedPages(pgs, parent, key, child)
<1>1. InternalOK(node, S)
  <2>1. g[parent] # 0
    OBVIOUS
  <2>2. QED
    BY <2>1, KindOf
<1>2. child \in S
  BY DEF Below
<1>3. st = IF ~InternalFull(node)
           THEN Done([pgs EXCEPT ![parent] = insert_entry(node, key, child)])
           ELSE SplitStep(u, halves.promoted, N + 1)
  BY DEF insert_internal, SplitStep, HalvedPages, LeftHalf, RightHalf
<1> HIDE DEF S, st
<1>4. ASSUME NEW x, InternalOK(x, S) PROVE NodeOK(x, g, d + 1)
  <2>1. d + 1 # 0
    OBVIOUS
  <2>2. QED
    BY <1>4, <2>1 DEF NodeOK, S
<1>5. ASSUME ~InternalFull(node)
      PROVE  /\ st = Done([pgs EXCEPT ![parent] = insert_entry(node, key, child)])
             /\ TreeOK([pgs EXCEPT ![parent] = insert_entry(node, key, child)], g)
  <2> DEFINE x == insert_entry(node, key, child)
             t == [pgs EXCEPT ![parent] = x]
  <2>1. st = Done(t)
    <3> HIDE DEF x, node, u, halves
    <3>1. QED
      BY <1>3, <1>5 DEF x
  <2>2. InternalBytes(Len(node.keys) + 1) <= PAGE_SIZE
    <3>1. Len(node.keys) + 1 \in Nat /\ Len(node.keys) + 1 <= Len(node.keys) + 1
      BY <1>1, InternalParts
    <3>2. InternalBytes(Len(node.keys) + 1) \in Nat /\ PAGE_SIZE \in Nat
      BY <3>1, InternalMonotone, SizesAssumption
    <3>3. QED
      BY <1>5, <3>2 DEF InternalFull
  <2>3. InternalOK(x, S)
    BY <1>1, <1>2, <2>2, InsertEntryOK
  <2> HIDE DEF x
  <2>4. NodeOK(x, g, g[parent])
    BY <1>4, <2>3
  <2>5. TreeOK(t, g)
    BY <2>4, ReplaceNode
  <2>6. QED
    BY <2>1, <2>5 DEF x
<1>6. ASSUME InternalFull(node)
      PROVE  /\ st = SplitStep(u, halves.promoted, N + 1)
             /\ TreeOK(u, Grow(g, N, d + 1))
             /\ halves.promoted \in Keys
  <2> DEFINE t == [pgs EXCEPT ![parent] = left_node]
             f == Grow(g, N, d + 1)
  <2>1. st = SplitStep(u, halves.promoted, N + 1)
    <3> HIDE DEF node, u, halves
    <3>1. QED
      BY <1>3, <1>6
  <2>2. /\ InternalOK(halves.left, S) /\ InternalOK(halves.right, S)
        /\ InternalBytes(Len(halves.left.keys) + 1) <= PAGE_SIZE
        /\ InternalBytes(Len(halves.right.keys) + 1) <= PAGE_SIZE
        /\ halves.promoted \in Keys
    BY <1>1, <1>6, SplitEntriesOK
  <2>3. InternalOK(left_node, S)
    <3>1. InternalOK(insert_entry(halves.left, key, child), S)
      <4> HIDE DEF halves
      <4>1. QED
        BY <1>2, <2>2, InsertEntryOK
    <3>2. QED
      BY <2>2, <3>1 DEF LeftHalf
  <2>4. InternalOK(right_node, S)
    <3>1. InternalOK(insert_entry(halves.right, key, child), S)
      <4> HIDE DEF halves
      <4>1. QED
        BY <1>2, <2>2, InsertEntryOK
    <3>2. QED
      BY <2>2, <3>1 DEF RightHalf
  <2>5. u = Append(t, right_node)
    BY DEF HalvedPages
  <2> HIDE DEF left_node, right_node, halves, u
  <2>6. /\ N \in Nat \ {0} /\ Heights(g, N) /\ DOMAIN g = 1..N /\ d + 1 \in Nat /\ d + 1 <= g[1]
        /\ \A q \in 1..N : g[q] \in Nat
    <3>1. \A q \in 1..N : g[q] \in Nat /\ g[q] <= g[1]
      BY TreeParts
    <3>2. g[parent] <= g[1]
      BY <3>1
    <3>3. QED
      BY <3>1, <3>2, TreeParts DEF TreeOK
  <2>7. TreeOK(t, g)
    <3>1. NodeOK(left_node, g, g[parent])
      BY <1>4, <2>3
    <3>2. QED
      BY <3>1, ReplaceNode
  <2>8. t \in Seq(Nodes) /\ Len(t) = N
    <3>1. t \in Seq(Nodes)
      BY <2>7, TreeParts
    <3>2. pgs \in Seq(Nodes)
      BY TreeParts
    <3>3. Len(t) = N
      BY <3>2
    <3>4. QED
      BY <3>1, <3>3
  <2> HIDE DEF t, N
  <2>9. Extends(f, g)
    BY <2>6, GrowExtends
  <2> HIDE DEF f
  <2>10. ASSUME NEW q \in 1..N PROVE NodeOK(t[q], f, g[q])
    <3>1. NodeOK(t[q], g, g[q])
      BY <2>7, <2>8, TreeNode
    <3>2. QED
      BY <2>9, <3>1, NodeGrows
  <2>11. NodeOK(right_node, f, d + 1)
    BY <1>4, <2>4, <2>9, NodeGrows
  <2>12. TreeOK(Append(t, right_node), f)
    <3>1. \A q \in 1..Len(pgs) : NodeOK(t[q], Grow(g, Len(pgs), d + 1), g[q])
      BY <2>10 DEF f, N
    <3>2. NodeOK(right_node, Grow(g, Len(pgs), d + 1), d + 1)
      BY <2>11 DEF f, N
    <3>3. QED
      BY <2>6, <2>8, <3>1, <3>2, GrowTree DEF f, N
  <2>13. QED
    BY <2>1, <2>2, <2>5, <2>12 DEF f
<1>7. QED
  BY <1>5, <1>6 DEF st, Halved

LEMMA InsertInternalOK ==
    ASSUME NEW pgs, NEW g, TreeOK(pgs, g), NEW h, Extends(g, h), NEW d \in Nat,
           NEW parent \in 1..Len(pgs), g[parent] = d + 1,
           NEW key \in Keys, NEW child \in DOMAIN g, g[child] = d
    PROVE  Rising(insert_internal(pgs, parent, key, child), h, d + 1)
<1>0. InternalFull(pgs[parent]) =>
        /\ insert_internal(pgs, parent, key, child)
             = SplitStep(HalvedPages(pgs, parent, key, child),
                         split_entries(pgs[parent]).promoted, Len(pgs) + 1)
        /\ TreeOK(HalvedPages(pgs, parent, key, child), Grow(g, Len(pgs), d + 1))
        /\ split_entries(pgs[parent]).promoted \in Keys
  <2>1. InternalFull(pgs[parent]) => Halved(pgs, g, d, parent, key, child)
    BY InternalSteps
  <2>2. QED
    BY <2>1 DEF Halved
<1> DEFINE N == Len(pgs)
           t == [pgs EXCEPT ![parent] = insert_entry(pgs[parent], key, child)]
           u == HalvedPages(pgs, parent, key, child)
           f == Grow(g, N, d + 1)
<1>1. CASE ~InternalFull(pgs[parent])
  <2>1. insert_internal(pgs, parent, key, child) = Done(t) /\ TreeOK(t, g)
    BY <1>1, InternalSteps
  <2> HIDE DEF t
  <2>2. Rising(Done(t), g, d + 1)
    BY <2>1, DoneRises
  <2>3. Rising(Done(t), h, d + 1)
    BY <2>2, RisingWeaker
  <2>4. QED
    BY <2>1, <2>3
<1>2. CASE InternalFull(pgs[parent])
  <2> DEFINE m == split_entries(pgs[parent]).promoted
  <2>1. insert_internal(pgs, parent, key, child) = SplitStep(u, m, N + 1) /\ TreeOK(u, f) /\ m \in Keys
    BY <1>0, <1>2
  <2>2. N \in Nat \ {0} /\ Heights(g, N) /\ d + 1 \in Nat /\ d + 1 <= g[1]
    <3>1. g[parent] <= g[1]
      BY TreeParts
    <3>2. QED
      BY <3>1, TreeParts DEF TreeOK
  <2> HIDE DEF u, m, N
  <2>3. Extends(f, g) /\ f[N + 1] = d + 1 /\ DOMAIN f = 1..(N + 1)
    BY <2>2, GrowExtends
  <2> HIDE DEF f
  <2>4. Extends(f, h)
    BY <2>3, ExtendsTransitive
  <2>5. N + 1 \in DOMAIN f /\ N + 1 # 1
    BY <2>2, <2>3
  <2>6. Rising(SplitStep(u, m, N + 1), h, d + 1)
    BY <2>1, <2>3, <2>4, <2>5, SplitRises
  <2>7. QED
    BY <2>1, <2>6
<1>3. QED
  BY <1>1, <1>2

\* One level up.
LEMMA UpOK ==
    ASSUME NEW st, NEW h, NEW d \in Nat, Rising(st, h, d), NEW parent \in DOMAIN h, h[parent] = d + 1
    PROVE  Rising(Up(parent, st), h, d + 1)
<1>1. st \in States
  BY DEF Rising
<1>2. PICK g : TreeOK(st.pages, g) /\ Extends(g, h) /\ Pending(st.split, g, d)
  BY DEF Rising
<1>3. CASE st.split = <<>>
  <2>1. Up(parent, st) = st
    BY <1>3 DEF Up
  <2>2. Pending(st.split, g, d + 1)
    BY <1>3 DEF Pending
  <2>3. QED
    BY <1>1, <1>2, <2>1, <2>2 DEF Rising
<1>4. CASE st.split # <<>>
  <2>1. PICK key \in Keys, child \in DOMAIN g : st.split = <<key, child>> /\ g[child] = d
    BY <1>2, <1>4 DEF Pending
  <2>2. st.split[1] = key /\ st.split[2] = child
    BY <2>1
  <2>3. Up(parent, st) = insert_internal(st.pages, parent, key, child)
    BY <1>4, <2>2 DEF Up
  <2>4. parent \in DOMAIN g /\ g[parent] = d + 1
    BY <1>2 DEF Extends
  <2>5. parent \in 1..Len(st.pages)
    BY <1>2, <2>4, TreeParts
  <2>6. QED
    BY <1>2, <2>1, <2>3, <2>4, <2>5, InsertInternalOK
<1>5. QED
  BY <1>3, <1>4

\* The heights once the root moved to a new page and became its parent.
Raise(h, n) == [p \in 1..(n + 1) |-> IF p = n + 1 THEN h[1] ELSE IF p = 1 THEN h[1] + 1 ELSE h[p]]

\* Root pinning grows the tree by one level.
LEMMA SplitRootOK ==
    ASSUME NEW pgs, NEW h, TreeOK(pgs, h), NEW key \in Keys,
           NEW right \in 1..Len(pgs), right # 1, h[right] = h[1]
    PROVE  TreeOK(split_root(pgs, key, right), Raise(h, Len(pgs)))
<1> DEFINE N == Len(pgs)
           H == h[1]
           left == N + 1
           g == Raise(h, N)
           root == Internal(<<key>>, <<left, right>>)
           relinked == IF IsLeaf(pgs[1]) THEN [pgs EXCEPT ![right].prev = left] ELSE pgs
           t == [relinked EXCEPT ![1] = root]
           u == Append(t, pgs[1])
<1>1. /\ pgs \in Seq(Nodes) /\ N \in Nat \ {0} /\ h \in [1..N -> Nat] /\ H \in Nat /\ DOMAIN h = 1..N
      /\ \A p \in 1..N : h[p] \in Nat /\ h[p] <= H
      /\ 1 \in 1..N
  BY TreeParts
<1>2. split_root(pgs, key, right) = u
  BY DEF split_root, Root
<1>3. \A q \in 1..N : NodeOK(pgs[q], h, h[q])
  BY TreeNode
<1> HIDE DEF N, H
<1>4. /\ DOMAIN g = 1..(N + 1) /\ g[N + 1] = H /\ g[1] = H + 1 /\ g \in [1..(N + 1) -> Nat]
      /\ \A p \in 1..N : p # 1 => g[p] = h[p]
      /\ \A p \in 1..(N + 1) : g[p] <= H + 1
  <2>1. DOMAIN g = 1..(N + 1)
    BY DEF Raise
  <2>2. g[N + 1] = H /\ g[1] = H + 1
    BY <1>1 DEF Raise, H
  <2>3. \A p \in 1..N : p # 1 => g[p] = h[p]
    BY <1>1 DEF Raise, H
  <2>4. \A p \in 1..(N + 1) : g[p] \in Nat /\ g[p] <= H + 1
    <3> HIDE DEF g
    <3>1. ASSUME NEW p \in 1..(N + 1) PROVE g[p] \in Nat /\ g[p] <= H + 1
      <4>1. CASE p = N + 1
        BY <1>1, <2>2, <4>1
      <4>2. CASE p = 1
        BY <1>1, <2>2, <4>2
      <4>3. CASE p # N + 1 /\ p # 1
        <5>1. p \in 1..N
          BY <1>1, <4>3
        <5>2. h[p] \in Nat /\ h[p] <= H /\ g[p] = h[p]
          BY <1>1, <2>3, <4>3, <5>1
        <5>3. QED
          BY <1>1, <5>2
      <4>4. QED
        BY <4>1, <4>2, <4>3
    <3>2. QED
      BY <3>1
  <2>5. g = [p \in 1..(N + 1) |-> g[p]]
    BY DEF Raise
  <2> HIDE DEF g
  <2>6. g \in [1..(N + 1) -> Nat]
    BY <2>4, <2>5
  <2>7. QED
    BY <2>1, <2>2, <2>3, <2>4, <2>6
<1> HIDE DEF g
<1>5. ASSUME NEW d \in Nat, d <= H PROVE Lifts(h, g, d)
  <2>1. DOMAIN h \subseteq DOMAIN g
    BY <1>1, <1>4
  <2>2. ASSUME NEW q \in Below(h, d) PROVE q \in Below(g, d)
    <3>1. q \in 1..N /\ h[q] = d - 1
      BY <1>1, <2>2 DEF Below
    <3>2. q # 1
      BY <1>1, <1>5, <3>1 DEF H
    <3>3. g[q] = d - 1 /\ q \in DOMAIN g
      BY <1>1, <1>4, <3>1, <3>2
    <3>4. QED
      BY <3>3 DEF Below
  <2>3. QED
    BY <2>1, <2>2 DEF Lifts
<1>6. \A q \in 1..N : NodeOK(pgs[q], g, h[q])
  <2>1. \A q \in 1..N : Lifts(h, g, h[q])
    BY <1>1, <1>5
  <2>2. QED
    BY <1>3, <2>1, NodeLifts
<1>7. NodeOK(root, g, g[1])
  <2> DEFINE S == Below(g, H + 1)
  <2>1. left \in S /\ right \in S
    <3>1. right \in DOMAIN g /\ g[right] = H
      BY <1>1, <1>4 DEF N, H
    <3>2. left \in DOMAIN g /\ g[left] = H
      BY <1>1, <1>4
    <3>3. (H + 1) - 1 = H
      BY <1>1
    <3>4. QED
      BY <3>1, <3>2, <3>3 DEF Below
  <2> HIDE DEF S, left
  <2>2. <<left, right>> \in Seq(S) /\ <<key>> \in Seq(Keys) /\ Len(<<left, right>>) = Len(<<key>>) + 1 /\ Len(<<key>>) = 1
    BY <2>1
  <2>3. InternalBytes(1) <= PAGE_SIZE
    BY SizesAssumption DEF InternalBytes
  <2>4. InternalOK(root, S)
    BY <2>2, <2>3, InternalMade
  <2> HIDE DEF root
  <2>5. H + 1 # 0
    BY <1>1
  <2>6. QED
    BY <1>4, <2>4, <2>5 DEF NodeOK, S
<1>8. root \in Nodes
  <2> HIDE DEF root
  <2>1. g[1] \in Nat /\ N + 1 \in Nat
    BY <1>1, <1>4
  <2>2. QED
    BY <1>4, <1>7, <2>1, NodeTyped
<1> HIDE DEF root
<1>9. /\ relinked \in Seq(Nodes) /\ Len(relinked) = N
      /\ \A q \in 1..N : NodeOK(relinked[q], g, h[q])
  <2>1. CASE ~IsLeaf(pgs[1])
    <3>1. relinked = pgs
      BY <2>1
    <3>2. QED
      BY <1>1, <1>6, <3>1 DEF N
  <2>2. CASE IsLeaf(pgs[1])
    <3> DEFINE y == [pgs[right] EXCEPT !.prev = left]
    <3>1. relinked = [pgs EXCEPT ![right] = y]
      BY <2>2
    <3>2. left \in DOMAIN g /\ left \in Nat
      BY <1>1, <1>4
    <3>3. NodeOK(pgs[right], h, h[right]) /\ Lifts(h, g, h[right]) /\ h[right] \in Nat /\ right \in 1..N
      <4>1. right \in 1..N
        BY DEF N
      <4>2. h[right] \in Nat /\ h[right] <= H
        BY <1>1, <4>1
      <4>3. QED
        BY <1>3, <1>5, <4>1, <4>2
    <3> HIDE DEF left
    <3>4. NodeOK(y, g, h[right])
      BY <3>2, <3>3, RelinkNode
    <3> HIDE DEF y, relinked
    <3>5. y \in Nodes
      <4>1. N + 1 \in Nat
        BY <1>1
      <4>2. QED
        BY <1>4, <3>3, <3>4, <4>1, NodeTyped
    <3>6. /\ relinked \in Seq(Nodes) /\ Len(relinked) = N
          /\ \A q \in 1..N : relinked[q] = IF q = right THEN y ELSE pgs[q]
      BY <1>1, <3>1, <3>3, <3>5, ExceptSeq DEF N
    <3>7. QED
      BY <1>6, <3>4, <3>6
  <2>3. QED
    BY <2>1, <2>2
<1> HIDE DEF relinked, left
<1>10. /\ t \in Seq(Nodes) /\ Len(t) = N
       /\ \A q \in 1..N : t[q] = IF q = 1 THEN root ELSE relinked[q]
  BY <1>1, <1>8, <1>9, ExceptSeq
<1> HIDE DEF t
<1>11. /\ u \in Seq(Nodes) /\ Len(u) = N + 1 /\ u[N + 1] = pgs[1] /\ \A q \in 1..N : u[q] = t[q]
  <2>1. pgs[1] \in Nodes
    BY <1>1 DEF N
  <2>2. QED
    BY <1>10, <2>1
<1> HIDE DEF u
<1>12. ASSUME NEW q \in 1..(N + 1) PROVE NodeOK(u[q], g, g[q])
  <2>1. CASE q = N + 1
    <3>1. NodeOK(pgs[1], g, H)
      BY <1>1, <1>6 DEF H
    <3>2. QED
      BY <1>4, <1>11, <2>1, <3>1
  <2>2. CASE q = 1
    BY <1>1, <1>7, <1>10, <1>11, <2>2
  <2>3. CASE q # N + 1 /\ q # 1
    <3>1. q \in 1..N
      BY <1>1, <2>3
    <3>2. u[q] = relinked[q] /\ g[q] = h[q]
      BY <1>4, <1>10, <1>11, <2>3, <3>1
    <3>3. QED
      BY <1>9, <3>1, <3>2
  <2>4. QED
    BY <2>1, <2>2, <2>3
<1>13. LevelsOK(u, g, Len(u))
  BY <1>11, <1>12 DEF LevelsOK
<1>14. Heights(g, Len(u))
  BY <1>4, <1>11 DEF Heights
<1>15. TreeOK(u, g)
  BY <1>1, <1>11, <1>13, <1>14 DEF TreeOK
<1>16. QED
  BY <1>2, <1>15 DEF g, N

\* The end of the way up leaves a tree.
LEMMA AtRootOK ==
    ASSUME NEW st, NEW h, 1 \in DOMAIN h, Rising(st, h, h[1])
    PROVE  \E g : TreeOK(AtRoot(st).pages, g)
<1>1. PICK g : TreeOK(st.pages, g) /\ Extends(g, h) /\ Pending(st.split, g, h[1])
  BY DEF Rising
<1>2. CASE st.split = <<>>
  BY <1>1, <1>2 DEF AtRoot
<1>3. CASE st.split # <<>>
  <2>1. PICK key \in Keys, child \in DOMAIN g : st.split = <<key, child>> /\ g[child] = h[1] /\ child # 1
    BY <1>1, <1>3 DEF Pending
  <2>2. st.split[1] = key /\ st.split[2] = child
    BY <2>1
  <2>3. AtRoot(st) = Done(split_root(st.pages, key, child))
    BY <1>3, <2>2 DEF AtRoot
  <2>4. AtRoot(st).pages = split_root(st.pages, key, child)
    BY <2>3 DEF Done
  <2>5. g[1] = h[1]
    BY <1>1 DEF Extends
  <2>6. child \in 1..Len(st.pages)
    BY <1>1, <2>1, TreeParts
  <2>7. TreeOK(split_root(st.pages, key, child), Raise(g, Len(st.pages)))
    BY <1>1, <2>1, <2>5, <2>6, SplitRootOK
  <2>8. QED
    BY <2>4, <2>7
<1>4. QED
  BY <1>2, <1>3

\* What holds of a level holds of the next one up.
CarriedUp(path, Q, H) == \A k \in 1..H : \A v \in Q[k - 1] : Up(path[(H + 1) - k], v) \in Q[k]

\* The way up: what holds after the insertion into the leaf, and is carried
\* from each level to the next, holds when the root is reached.
LEMMA PropagateUp ==
    ASSUME NEW H \in Nat, NEW path, Len(path) = H + 1, NEW inserted,
           NEW Q \in [0..H -> SUBSET States], inserted \in Q[0],
           CarriedUp(path, Q, H)
    PROVE  \E v \in Q[H] : propagate(path, inserted) = AtRoot(v)
<1> DEFINE L == Len(path)
           body(u) == [k \in 0..(L - 1) |-> IF k = 0 THEN inserted ELSE Up(path[L - k], u[k - 1])]
           step(k, v) == Up(path[L - k], v)
           g == [k \in 1..H |-> [v \in States |-> IF step(k, v) \in States THEN step(k, v) ELSE v]]
           w == CHOOSE u : u = body(u)
<1>1. L - 1 = H /\ inserted \in States
  <2>1. 0 \in 0..H
    OBVIOUS
  <2>2. Q[0] \subseteq States
    BY <2>1
  <2>3. QED
    BY <2>2
<1>2. propagate(path, inserted) = AtRoot(w[L - 1])
  BY DEF propagate
<1>3. ASSUME NEW k \in 1..H, NEW v \in Q[k - 1]
      PROVE  step(k, v) \in Q[k] /\ step(k, v) \in States /\ v \in States
  <2>1. k - 1 \in 0..H /\ k \in 0..H
    OBVIOUS
  <2>2. Q[k - 1] \subseteq States /\ Q[k] \subseteq States
    BY <2>1
  <2>3. L - k = (H + 1) - k
    OBVIOUS
  <2>31. step(k, v) \in Q[k]
    BY <1>3, <2>3 DEF CarriedUp
  <2>4. QED
    BY <1>3, <2>2, <2>31
<1> HIDE DEF L, step
<1>4. g \in [1..H -> [States -> States]]
  OBVIOUS
<1>5. \A k \in 1..H, v \in States : g[k][v] = IF step(k, v) \in States THEN step(k, v) ELSE v
  OBVIOUS
<1>6. \E u : u = body(u)
  <2> HIDE DEF g
  <2>1. PICK u : IsRecursive(u, H, States, inserted, g)
    BY <1>1, <1>4, RecursiveFunction
  <2>2. u \in [0..H -> States] /\ u[0] = inserted /\ \A k \in 1..H : u[k] = g[k][u[k - 1]]
    BY <2>1 DEF IsRecursive
  <2>3. ASSUME NEW k \in 1..H, u[k - 1] \in Q[k - 1]
        PROVE  u[k] = step(k, u[k - 1])
    <3>1. u[k - 1] \in States /\ step(k, u[k - 1]) \in States
      BY <1>3, <2>3
    <3>2. QED
      BY <1>5, <2>2, <3>1
  <2> DEFINE P == {k \in 0..H : u[k] \in Q[k]}
  <2>4. 0 \in P
    BY <2>2
  <2>5. ASSUME NEW k \in 0..(H - 1), k \in P PROVE k + 1 \in P
    <3>1. k + 1 \in 1..H /\ (k + 1) - 1 = k /\ k + 1 \in 0..H
      OBVIOUS
    <3>2. u[(k + 1) - 1] \in Q[(k + 1) - 1]
      BY <2>5, <3>1
    <3>3. u[k + 1] = step(k + 1, u[(k + 1) - 1])
      BY <2>3, <3>1, <3>2
    <3>4. u[k + 1] \in Q[k + 1]
      BY <1>3, <3>1, <3>2, <3>3
    <3>5. QED
      BY <3>1, <3>4
  <2>6. \A k \in 0..H : k \in P
    <3> HIDE DEF P
    <3>1. QED
      BY <2>4, <2>5, BoundedInduction
  <2>7. ASSUME NEW k \in 0..H
        PROVE  u[k] = IF k = 0 THEN inserted ELSE Up(path[L - k], u[k - 1])
    <3>1. CASE k = 0
      BY <2>2, <3>1
    <3>2. CASE k # 0
      <4>1. k \in 1..H /\ k - 1 \in 0..H
        BY <3>2
      <4>2. u[k - 1] \in Q[k - 1]
        BY <2>6, <4>1
      <4>3. u[k] = Up(path[L - k], u[k - 1])
        BY <2>3, <4>1, <4>2 DEF step
      <4>4. QED
        BY <3>2, <4>3
    <3>3. QED
      BY <3>1, <3>2
  <2>8. u = [k \in 0..H |-> u[k]]
    BY <2>2
  <2>9. u = body(u)
    BY <1>1, <2>7, <2>8
  <2>10. QED
    BY <2>9
<1>7. w = body(w)
  <2> HIDE DEF body
  <2>1. QED
    BY <1>6
<1> HIDE DEF w
<1>8. \A k \in 0..H : w[k] = IF k = 0 THEN inserted ELSE Up(path[L - k], w[k - 1])
  <2>1. \A k \in 0..H : body(w)[k] = IF k = 0 THEN inserted ELSE Up(path[L - k], w[k - 1])
    BY <1>1
  <2> HIDE DEF body
  <2>2. QED
    BY <1>7, <2>1
<1> DEFINE P == {k \in 0..H : w[k] \in Q[k]}
<1>9. 0 \in P
  <2>1. 0 \in 0..H
    OBVIOUS
  <2>2. w[0] = inserted
    BY <1>8, <2>1
  <2>3. QED
    BY <2>1, <2>2
<1>10. ASSUME NEW k \in 0..(H - 1), k \in P PROVE k + 1 \in P
  <2>1. k + 1 \in 1..H /\ (k + 1) - 1 = k /\ k + 1 \in 0..H /\ k + 1 # 0
    OBVIOUS
  <2>2. w[k] \in Q[(k + 1) - 1]
    BY <1>10, <2>1
  <2>3. w[k + 1] = Up(path[L - (k + 1)], w[k])
    BY <1>8, <2>1
  <2>4. w[k + 1] = step(k + 1, w[k])
    BY <2>3 DEF step
  <2>5. w[k + 1] \in Q[k + 1]
    BY <1>3, <2>1, <2>2, <2>4
  <2>6. QED
    BY <2>1, <2>5
<1>11. \A k \in 0..H : k \in P
  <2> HIDE DEF P
  <2>1. QED
    BY <1>9, <1>10, BoundedInduction
<1>12. w[H] \in Q[H]
  BY <1>11
<1>13. QED
  BY <1>1, <1>2, <1>12

\* The splits on the way up leave a tree.
LEMMA PropagateOK ==
    ASSUME NEW n \in Nat, NEW h \in [1..n -> Nat], 1 \in 1..n, NEW path, IsPath(path, h, 1),
           NEW inserted, Rising(inserted, h, 0)
    PROVE  \E f : TreeOK(propagate(path, inserted).pages, f)
<1> DEFINE L == Len(path)
           H == h[1]
           Q == [k \in 0..H |-> {v \in States : Rising(v, h, k)}]
<1>1. /\ DOMAIN h = 1..n /\ H \in Nat /\ L = H + 1 /\ path \in Seq(1..n)
      /\ \A i \in 1..L : path[i] \in 1..n /\ h[path[i]] = H - (i - 1)
  <2>1. DOMAIN h = 1..n /\ H \in Nat
    OBVIOUS
  <2>2. /\ path \in Seq(1..n) /\ L = H + 1
        /\ \A i \in 1..L : h[path[i]] = H - (i - 1)
    BY <2>1 DEF IsPath
  <2>3. \A i \in 1..L : path[i] \in 1..n
    BY <2>2
  <2>4. QED
    BY <2>1, <2>2, <2>3
<1> HIDE DEF H
<1>2. ASSUME NEW k \in 1..H, NEW v, Rising(v, h, k - 1) PROVE Rising(Up(path[L - k], v), h, k)
  <2> HIDE DEF L
  <2>1. L - k \in 1..L /\ H - ((L - k) - 1) = k
    BY <1>1
  <2>2. path[L - k] \in DOMAIN h /\ h[path[L - k]] = (k - 1) + 1 /\ k - 1 \in Nat /\ (k - 1) + 1 = k
    BY <1>1, <2>1
  <2>3. Rising(Up(path[L - k], v), h, (k - 1) + 1)
    BY <1>2, <2>2, UpOK
  <2>4. QED
    BY <2>2, <2>3
<1>3. Q \in [0..H -> SUBSET States] /\ \A k \in 0..H : \A v : v \in Q[k] <=> Rising(v, h, k)
  BY DEF Rising
<1> HIDE DEF Q
<1>4. inserted \in Q[0]
  BY <1>1, <1>3
<1>5. ASSUME NEW k \in 1..H, NEW v \in Q[k - 1] PROVE Up(path[L - k], v) \in Q[k]
  <2>1. k \in 0..H /\ k - 1 \in 0..H
    BY <1>1
  <2>2. QED
    BY <1>2, <1>3, <1>5, <2>1
<1>6. PICK v \in Q[H] : propagate(path, inserted) = AtRoot(v)
  <2>1. Len(path) = H + 1 /\ H \in Nat /\ Q \in [0..H -> SUBSET States]
    BY <1>1, <1>3
  <2>2. CarriedUp(path, Q, H)
    BY <1>1, <1>5 DEF CarriedUp
  <2> HIDE DEF L
  <2>3. QED
    BY <1>4, <2>1, <2>2, PropagateUp
<1>7. Rising(v, h, h[1])
  BY <1>1, <1>3 DEF H
<1>8. QED
  BY <1>1, <1>6, <1>7, AtRootOK

-----------------------------------------------------------------------------
(* The operations keep a tree. *)

LEMMA InsertOK ==
    ASSUME NEW pgs, NEW h, TreeOK(pgs, h), NEW row_id \in Keys, NEW len \in Payloads
    PROVE  \E g : TreeOK(insert(pgs, row_id, len).pages, g)
<1> DEFINE leaf == LeafFor(pgs, row_id)
           path == PathTo(pgs, row_id)
           inserted == insert_leaf(pgs, leaf, row_id, len)
<1>1. Len(pgs) \in Nat /\ h \in [1..Len(pgs) -> Nat] /\ 1 \in 1..Len(pgs)
  BY TreeParts
<1>2. leaf \in 1..Len(pgs) /\ h[leaf] = 0
  BY LeafForOK
<1>3. IsPath(path, h, 1)
  BY PathOK DEF Root
<1>4. insert(pgs, row_id, len) = propagate(path, inserted)
  BY DEF insert
<1> HIDE DEF leaf, path
<1>5. Rising(inserted, h, 0)
  BY <1>2, InsertLeafOK
<1> HIDE DEF inserted
<1>6. \E g : TreeOK(propagate(path, inserted).pages, g)
  BY <1>1, <1>3, <1>5, PropagateOK
<1>7. QED
  BY <1>4, <1>6

LEMMA UpdateOK ==
    ASSUME NEW pgs, NEW h, TreeOK(pgs, h), NEW row_id \in Keys, NEW len \in Payloads,
           update(pgs, row_id, len).res = "Ok"
    PROVE  \E g : TreeOK(update(pgs, row_id, len).pages, g)
<1> DEFINE leaf == LeafFor(pgs, row_id)
           up == update_record(pgs[leaf], row_id, len)
           del == delete_record(pgs[leaf], row_id)
           without == [pgs EXCEPT ![leaf] = del.leaf]
           moved == insert(without, row_id, len)
           st == update(pgs, row_id, len)
<1>1. leaf \in 1..Len(pgs) /\ h[leaf] = 0 /\ LeafOK(pgs[leaf])
  BY LeafForOK
<1>2. st = CASE up.res = "Ok" -> Done([pgs EXCEPT ![leaf] = up.leaf])
             [] up.res = "PageFull" -> IF moved.res = "Ok" THEN moved ELSE Failed(moved.res, pgs)
             [] up.res \notin {"Ok", "PageFull"} -> Failed(up.res, pgs)
  BY DEF update
<1> HIDE DEF leaf
<1>3. /\ up.res \in Results
      /\ up.res = "Ok" => LeafOK(up.leaf) /\ SameLinks(up.leaf, pgs[leaf])
      /\ up.res = "PageFull" => HasKey(pgs[leaf].records, row_id)
  BY <1>1, UpdateRecordOK
<1>4. /\ HasKey(pgs[leaf].records, row_id) => del.res = "Ok"
      /\ del.res = "Ok" => LeafOK(del.leaf) /\ SameLinks(del.leaf, pgs[leaf])
  BY <1>1, DeleteRecordOK
<1> HIDE DEF up, del, moved, st
<1>5. CASE up.res = "Ok"
  <2>1. st = Done([pgs EXCEPT ![leaf] = up.leaf])
    BY <1>2, <1>5
  <2>2. TreeOK([pgs EXCEPT ![leaf] = up.leaf], h)
    BY <1>1, <1>3, <1>5, ReplaceLeaf
  <2>3. st.pages = [pgs EXCEPT ![leaf] = up.leaf]
    BY <2>1 DEF Done
  <2>4. QED
    BY <2>2, <2>3 DEF st
<1>6. CASE up.res = "PageFull"
  <2>1. st = IF moved.res = "Ok" THEN moved ELSE Failed(moved.res, pgs)
    BY <1>2, <1>6
  <2>2. TreeOK(without, h)
    BY <1>1, <1>3, <1>4, <1>6, ReplaceLeaf
  <2> HIDE DEF without
  <2>3. \E g : TreeOK(moved.pages, g)
    BY <2>2, InsertOK DEF moved
  <2>4. CASE moved.res = "Ok"
    BY <2>1, <2>3, <2>4 DEF st
  <2>5. CASE moved.res # "Ok"
    <3>1. st.pages = pgs
      BY <2>1, <2>5 DEF Failed
    <3>2. QED
      BY <3>1 DEF st
  <2>6. QED
    BY <2>4, <2>5
<1>7. CASE up.res \notin {"Ok", "PageFull"}
  <2>1. st = Failed(up.res, pgs)
    BY <1>2, <1>7
  <2>2. st.pages = pgs
    BY <2>1 DEF Failed
  <2>3. QED
    BY <2>2 DEF st
<1>8. QED
  BY <1>5, <1>6, <1>7

LEMMA DeleteOK ==
    ASSUME NEW pgs, NEW h, TreeOK(pgs, h), NEW row_id \in Keys
    PROVE  TreeOK(delete(pgs, row_id).pages, h)
<1> DEFINE leaf == LeafFor(pgs, row_id)
           del == delete_record(pgs[leaf], row_id)
           st == delete(pgs, row_id)
<1>1. leaf \in 1..Len(pgs) /\ h[leaf] = 0 /\ LeafOK(pgs[leaf])
  BY LeafForOK
<1>2. st = IF del.res = "Ok" THEN Done([pgs EXCEPT ![leaf] = del.leaf]) ELSE Failed(del.res, pgs)
  BY DEF delete
<1> HIDE DEF leaf
<1>3. del.res = "Ok" => LeafOK(del.leaf) /\ SameLinks(del.leaf, pgs[leaf])
  BY <1>1, DeleteRecordOK
<1> HIDE DEF del, st
<1>4. CASE del.res = "Ok"
  <2>1. TreeOK([pgs EXCEPT ![leaf] = del.leaf], h)
    BY <1>1, <1>3, <1>4, ReplaceLeaf
  <2>2. st.pages = [pgs EXCEPT ![leaf] = del.leaf]
    BY <1>2, <1>4 DEF Done
  <2>3. QED
    BY <2>1, <2>2 DEF st
<1>5. CASE del.res # "Ok"
  <2>1. st.pages = pgs
    BY <1>2, <1>5 DEF Failed
  <2>2. QED
    BY <2>1 DEF st
<1>6. QED
  BY <1>4, <1>5

LEMMA ReloadOK ==
    ASSUME NEW pgs, NEW h, TreeOK(pgs, h), NEW p \in DOMAIN pgs
    PROVE  TreeOK([pgs EXCEPT ![p] = decode_encode(pgs[p])], h)
<1>1. p \in 1..Len(pgs)
  BY TreeParts
<1>2. NodeOK(pgs[p], h, h[p])
  BY <1>1, TreeNode
<1>3. CASE h[p] = 0
  <2>1. LeafOK(pgs[p]) /\ IsLeaf(pgs[p])
    BY <1>1, <1>3, KindOf
  <2>2. /\ pgs[p].records \in Seq(Records) /\ pgs[p].prev \in Nat /\ pgs[p].next \in Nat
        /\ LeafBytes(pgs[p].records) <= PAGE_SIZE
    BY <2>1, LeafParts
  <2> DEFINE x == Leaf(pgs[p].records, pgs[p].prev, pgs[p].next)
  <2>3. decode_encode(pgs[p]) = x
    BY <2>1 DEF decode_encode
  <2>4. LeafOK(x) /\ SameLinks(x, pgs[p])
    BY <2>2, LeafMade DEF SameLinks
  <2> HIDE DEF x
  <2>5. QED
    BY <1>1, <1>3, <2>3, <2>4, ReplaceLeaf
<1>4. CASE h[p] # 0
  <2>1. ~IsLeaf(pgs[p])
    BY <1>1, <1>4, KindOf
  <2>2. decode_encode(pgs[p]) = pgs[p]
    BY <2>1 DEF decode_encode
  <2>3. QED
    BY <1>1, <1>2, <2>2, ReplaceNode
<1>5. QED
  BY <1>3, <1>4

-----------------------------------------------------------------------------
(* The theorems. *)

\* The pages are a tree.
TreeInv == \E h : TreeOK(pages, h)

LEMMA InitTree == Init => TreeInv
<1> SUFFICES ASSUME Init PROVE TreeInv
  OBVIOUS
<1> DEFINE h == [p \in 1..1 |-> 0]
<1>1. pages = <<new_empty>>
  BY DEF Init
<1>2. new_empty = Leaf(<<>>, 0, 0)
  BY DEF new_empty, None
<1>3. <<>> \in Seq(Records) /\ LeafBytes(<<>>) <= PAGE_SIZE
  BY BytesEmpty, SizesAssumption
<1>4. LeafOK(new_empty) /\ new_empty.prev = 0 /\ new_empty.next = 0
  <2>1. LeafOK(Leaf(<<>>, 0, 0))
    BY <1>3, LeafMade
  <2>2. Leaf(<<>>, 0, 0).prev = 0 /\ Leaf(<<>>, 0, 0).next = 0
    BY DEF Leaf
  <2>3. QED
    BY <1>2, <2>1, <2>2
<1>5. NodeOK(new_empty, h, 0)
  BY <1>4 DEF NodeOK
<1>6. new_empty \in Nodes
  BY <1>4 DEF LeafOK, Nodes
<1>7. pages \in Seq(Nodes) /\ Len(pages) = 1 /\ pages[1] = new_empty
  BY <1>1, <1>6
<1>8. Heights(h, 1)
  BY DEF Heights
<1>9. h[1] = 0
  OBVIOUS
<1> HIDE DEF h
<1>10. LevelsOK(pages, h, 1)
  BY <1>5, <1>7, <1>9 DEF LevelsOK
<1>11. TreeOK(pages, h)
  BY <1>7, <1>8, <1>10 DEF TreeOK
<1>12. QED
  BY <1>11 DEF TreeInv

LEMMA NextTree == TreeInv /\ [Next]_pages => TreeInv'
<1> SUFFICES ASSUME TreeInv, [Next]_pages PROVE TreeInv'
  OBVIOUS
<1>1. PICK h : TreeOK(pages, h)
  BY DEF TreeInv
<1>2. ASSUME NEW row_id \in Keys, NEW len \in Payloads, Insert(row_id, len)
      PROVE  TreeInv'
  <2>1. pages' = insert(pages, row_id, len).pages
    BY <1>2 DEF Insert, Succeeds
  <2>2. \E g : TreeOK(insert(pages, row_id, len).pages, g)
    BY <1>1, InsertOK
  <2>3. QED
    BY <2>1, <2>2 DEF TreeInv
<1>3. ASSUME NEW row_id \in Keys, NEW len \in Payloads, Update(row_id, len)
      PROVE  TreeInv'
  <2>1. update(pages, row_id, len).res = "Ok" /\ pages' = update(pages, row_id, len).pages
    BY <1>3 DEF Update, Succeeds
  <2>2. \E g : TreeOK(update(pages, row_id, len).pages, g)
    BY <1>1, <2>1, UpdateOK
  <2>3. QED
    BY <2>1, <2>2 DEF TreeInv
<1>4. ASSUME NEW row_id \in Keys, Delete(row_id)
      PROVE  TreeInv'
  <2>1. pages' = delete(pages, row_id).pages
    BY <1>4 DEF Delete, Succeeds
  <2>2. TreeOK(delete(pages, row_id).pages, h)
    BY <1>1, DeleteOK
  <2>3. QED
    BY <2>1, <2>2 DEF TreeInv
<1>5. ASSUME NEW p \in DOMAIN pages, Reload(p)
      PROVE  TreeInv'
  <2>1. pages' = [pages EXCEPT ![p] = decode_encode(pages[p])]
    BY <1>5 DEF Reload
  <2>2. TreeOK([pages EXCEPT ![p] = decode_encode(pages[p])], h)
    BY <1>1, ReloadOK
  <2>3. QED
    BY <2>1, <2>2 DEF TreeInv
<1>6. CASE UNCHANGED pages
  BY <1>1, <1>6 DEF TreeInv
<1>7. QED
  BY <1>2, <1>3, <1>4, <1>5, <1>6 DEF Next

\* Splits of leaves, of internal nodes and of the pinned root, compactions,
\* updates that move a record and reloads keep the pages one levelled tree.
THEOREM TreeInvariant == Spec => []TreeInv
BY InitTree, NextTree, PTL DEF Spec

LEMMA TreeIsTyped == TreeInv => TreeTypeOK
<1> SUFFICES ASSUME TreeInv, NEW p \in DOMAIN pages
             PROVE  IF IsLeaf(pages[p])
                    THEN /\ ToSet(pages[p].records) \subseteq Records
                         /\ {pages[p].prev, pages[p].next} \subseteq {None} \cup DOMAIN pages
                         /\ pages[p].free_size \in Int
                    ELSE /\ ToSet(pages[p].keys) \subseteq Keys
                         /\ ToSet(pages[p].kids) \subseteq DOMAIN pages
                         /\ Len(pages[p].kids) = Len(pages[p].keys) + 1
  BY DEF TreeTypeOK
<1>1. PICK h : TreeOK(pages, h)
  BY DEF TreeInv
<1>2. DOMAIN pages = 1..Len(pages) /\ DOMAIN h = 1..Len(pages)
  BY <1>1, TreeParts
<1>3. NodeOK(pages[p], h, h[p]) /\ (IsLeaf(pages[p]) <=> h[p] = 0)
  BY <1>1, <1>2, TreeNode, KindOf
<1>4. CASE h[p] = 0
  <2>1. /\ LeafOK(pages[p])
        /\ pages[p].prev \in {0} \cup DOMAIN pages /\ pages[p].next \in {0} \cup DOMAIN pages
    BY <1>2, <1>3, <1>4 DEF NodeOK
  <2>2. pages[p].records \in Seq(Records) /\ pages[p].free_size \in Int
    BY <2>1, LeafParts
  <2>3. ToSet(pages[p].records) \subseteq Records
    BY <2>2 DEF ToSet
  <2>4. QED
    BY <1>3, <1>4, <2>1, <2>2, <2>3 DEF None
<1>5. CASE h[p] # 0
  <2>1. InternalOK(pages[p], Below(h, h[p]))
    BY <1>3, <1>5 DEF NodeOK
  <2>2. /\ pages[p].keys \in Seq(Keys) /\ pages[p].kids \in Seq(Below(h, h[p]))
        /\ Len(pages[p].kids) = Len(pages[p].keys) + 1
    BY <2>1, InternalParts
  <2>3. Below(h, h[p]) \subseteq DOMAIN pages
    BY <1>2 DEF Below
  <2>4. ToSet(pages[p].keys) \subseteq Keys
    BY <2>2 DEF ToSet
  <2>5. ToSet(pages[p].kids) \subseteq Below(h, h[p])
    BY <2>2 DEF ToSet
  <2>6. QED
    BY <1>3, <1>5, <2>2, <2>3, <2>4, <2>5
<1>6. QED
  BY <1>4, <1>5

LEMMA TreeFits == TreeInv => PagesFit
<1> SUFFICES ASSUME TreeInv, NEW p \in DOMAIN pages
             PROVE  /\ EncodedBytes(pages[p]) <= PAGE_SIZE
                    /\ IsLeaf(pages[p]) =>
                          pages[p].free_size \in 0..(PAGE_SIZE - LeafBytes(pages[p].records))
  BY DEF PagesFit
<1>1. PICK h : TreeOK(pages, h)
  BY DEF TreeInv
<1>2. p \in 1..Len(pages)
  BY <1>1, TreeParts
<1>3. IsLeaf(pages[p]) => LeafOK(pages[p])
  BY <1>1, <1>2, KindOf
<1>4. ~IsLeaf(pages[p]) => InternalOK(pages[p], Below(h, h[p]))
  BY <1>1, <1>2, KindOf
<1>5. CASE IsLeaf(pages[p])
  <2>1. EncodedBytes(pages[p]) = LeafBytes(pages[p].records)
    BY <1>5 DEF EncodedBytes
  <2>2. QED
    BY <1>3, <1>5, <2>1, LeafParts DEF LeafOK
<1>6. CASE ~IsLeaf(pages[p])
  <2>1. EncodedBytes(pages[p]) = InternalBytes(Len(pages[p].keys))
    BY <1>6 DEF EncodedBytes
  <2>2. QED
    BY <1>4, <1>6, <2>1, InternalParts
<1>7. QED
  BY <1>5, <1>6

LEMMA TreeIsBalanced == TreeInv => Balanced
<1> SUFFICES ASSUME TreeInv, NEW k \in Keys, NEW l \in Keys
             PROVE  Len(PathTo(pages, k)) = Len(PathTo(pages, l))
  BY DEF Balanced
<1>1. PICK h : TreeOK(pages, h)
  BY DEF TreeInv
<1>2. IsPath(PathTo(pages, k), h, Root) /\ IsPath(PathTo(pages, l), h, Root)
  BY <1>1, PathOK
<1>3. QED
  BY <1>2 DEF IsPath

\* Every page is a leaf or an internal node with the fields of its kind, every
\* sibling link and child pointer names a page that exists, and an internal
\* node has one more child than keys, whatever was split, moved or reloaded.
THEOREM TreeTypeCorrect == Spec => []TreeTypeOK
BY TreeInvariant, TreeIsTyped, PTL

\* encode never meets a node larger than a page and free_size never promises
\* room that is not there, for every page layout that holds two of the largest
\* records in a leaf and two entries in an internal node.
THEOREM PagesAlwaysFit == Spec => []PagesFit
BY TreeInvariant, TreeFits, PTL

\* All descents have the same length: splits propagate level by level and the
\* tree grows at its root only.
THEOREM TreeStaysBalanced == Spec => []Balanced
BY TreeInvariant, TreeIsBalanced, PTL

=============================================================================
