------------------------- MODULE BpTreeShapeProofs -------------------------
(***************************************************************************)
(* The shape of the B+-tree, for trees of every height: each page is       *)
(* reached once, the keys ascend across the leaves, the sibling links are  *)
(* the leaves in that order, descents for stored keys end at their leaves, *)
(* and the rightmost leaf holds the largest key.  Then what cursors do on  *)
(* such a tree: what next finds, and what SELECT, DELETE and UPDATE        *)
(* without a predicate see and leave.                                      *)
(*                                                                         *)
(* ChainInv speaks of pages and what they own; these properties speak of   *)
(* sequences that recursion over the tree puts together.  FlattenSorted is *)
(* the bridge: sequences that are sorted and come one before the other     *)
(* flatten to a sorted sequence of all they hold.  It is used for the      *)
(* children of all pages, the leaves under the children of a page and the  *)
(* records of the leaves.  The recursions themselves are solved by         *)
(* induction on the height of a page.                                      *)
(*                                                                         *)
(* The recursion of next is solved by induction on the number of slots     *)
(* ahead of the cursor (DescendExists); NextFinds says that next finds the *)
(* first row behind the one it yielded last.  Scanned is the invariant of  *)
(* a statement's scan, by induction on its steps: the rows seen so far are *)
(* all rows up to the cursor in the order of their keys, the statement's   *)
(* change is done to them, and the rows ahead are as they were.  A scan    *)
(* sees ascending keys, so it ends before MaxScanSteps.                    *)
(***************************************************************************)
EXTENDS BpTreeOrderProofs

-----------------------------------------------------------------------------
(***************************************************************************)
(* First, the leaves form a chain.                                         *)
(*                                                                         *)
(* OrderInv gives every page its keys and says nothing of the sibling      *)
(* links that a scan follows.  LeafChain says that no leaf but the root's  *)
(* is empty, so that the keys they hold order the leaves, and that the     *)
(* links lead to the neighbours in that order, 0 at the two ends.  A split *)
(* of a leaf links its right half in behind it (LinksSplice); the split of *)
(* a root that is a leaf moves the leaf to another page and relinks its    *)
(* sibling (RootChain); everything else leaves the links alone.  That no   *)
(* leaf becomes empty is due to the tombstones: a deletion keeps its slot, *)
(* and a leaf is compacted only to take one more record.                   *)
(***************************************************************************)

-----------------------------------------------------------------------------
(* The order of the leaves. *)

\* Some record of r has a smaller key than some record of s.
LeftOf(r, s) == \E x \in ToSet(r), y \in ToSet(s) : x.row_id < y.row_id

\* The order of the leaves by the keys they hold.
LeafOrder(pgs) ==
    {e \in LeafIds(pgs) \X LeafIds(pgs) :
        e[1] # e[2] /\ LeftOf(pgs[e[1]].records, pgs[e[2]].records)}

\* No leaf but the root's is empty.
Filled(pgs) == \A p \in LeafIds(pgs) : p # 1 => pgs[p].records # <<>>

\* The links of p lead to its neighbours in the order L of the pages S.
NextOK(pgs, S, L, p) ==
    IF pgs[p].next = 0 THEN \A q \in S : <<p, q>> \notin L
    ELSE /\ pgs[p].next \in S /\ <<p, pgs[p].next>> \in L /\ pgs[pgs[p].next].prev = p
         /\ \A q \in S : ~(<<p, q>> \in L /\ <<q, pgs[p].next>> \in L)

\* What leads to p leads back.
PrevOK(pgs, S, L, p) ==
    IF pgs[p].prev = 0 THEN \A q \in S : <<q, p>> \notin L
    ELSE pgs[p].prev \in S /\ pgs[pgs[p].prev].next = p

\* All pages of S are linked in the order L.
Links(pgs, S, L) == \A p \in S : NextOK(pgs, S, L, p) /\ PrevOK(pgs, S, L, p)

\* The leaves are linked in the order of their keys, and only the root may be empty.
LeafChain(pgs) == Filled(pgs) /\ Links(pgs, LeafIds(pgs), LeafOrder(pgs))

\* The leaves are the pages of height 0.
LEMMA LeafIdsAre ==
    ASSUME NEW pgs, NEW g, TreeOK(pgs, g), NEW q
    PROVE  q \in LeafIds(pgs) <=> q \in 1..Len(pgs) /\ g[q] = 0
<1>1. DOMAIN pgs = 1..Len(pgs)
  BY TreeParts
<1>2. q \in 1..Len(pgs) => (IsLeaf(pgs[q]) <=> g[q] = 0)
  BY KindOf
<1>3. QED
  BY <1>1, <1>2 DEF LeafIds

\* Membership in LeafOrder, without the comprehension.
LEMMA LeafOrderIs ==
    ASSUME NEW pgs, NEW p \in LeafIds(pgs), NEW q \in LeafIds(pgs)
    PROVE  <<p, q>> \in LeafOrder(pgs) <=> p # q /\ LeftOf(pgs[p].records, pgs[q].records)
BY DEF LeafOrder

\* What a page owns has no gap.
Convex(R) == \A a, b \in R, c \in Int : a < c /\ c < b => c \in R

\* A page that owns a key is on the path to it.
LEMMA OnPath ==
    ASSUME NEW pgs, NEW g, TreeOK(pgs, g), NEW o, Owned(pgs, g, o), NEW k \in Int,
           NEW p \in 1..Len(pgs), k \in o[p]
    PROVE  /\ (g[1] - g[p]) + 1 \in 1..Len(PathTo(pgs, k))
           /\ PathTo(pgs, k)[(g[1] - g[p]) + 1] = p
<1> DEFINE path == PathTo(pgs, k)
           i == (g[1] - g[p]) + 1
<1>1. g[1] \in Nat /\ g[p] \in Nat /\ g[p] <= g[1] /\ DOMAIN g = 1..Len(pgs)
  BY TreeParts
<1>2. Len(path) = g[1] + 1 /\ \A j \in 1..Len(path) : g[path[j]] = g[1] - (j - 1)
  BY PathOK DEF IsPath, Root
<1>3. \A j \in 1..Len(path) : path[j] \in 1..Len(pgs) /\ k \in o[path[j]]
  BY PathOwned
<1> HIDE DEF path
<1>4. i \in 1..Len(path) /\ g[1] - (i - 1) = g[p]
  BY <1>1, <1>2
<1>5. path[i] \in 1..Len(pgs) /\ k \in o[path[i]] /\ g[path[i]] = g[p]
  BY <1>2, <1>3, <1>4
<1> HIDE DEF i
<1>6. Owners(o, g, Len(pgs))
  BY DEF Owned
<1>7. path[i] = p
  BY <1>5, <1>6, OneOwner
<1>8. QED
  BY <1>4, <1>7 DEF path, i

\* Every page that owns a key and is not as high as the root has a parent.
LEMMA HasParent ==
    ASSUME NEW pgs, NEW g, TreeOK(pgs, g), NEW o, Owned(pgs, g, o), NEW k \in Int,
           NEW p \in 1..Len(pgs), k \in o[p], g[p] # g[1]
    PROVE  \E q \in 1..Len(pgs) : g[q] = g[p] + 1 /\ k \in o[q] /\ route_key(pgs[q], k) = p
<1> DEFINE path == PathTo(pgs, k)
           i == (g[1] - g[p]) + 1
<1>1. g[1] \in Nat /\ g[p] \in Nat /\ g[p] <= g[1] /\ DOMAIN g = 1..Len(pgs)
  BY TreeParts
<1>2. Len(path) = g[1] + 1 /\ \A j \in 1..Len(path) : g[path[j]] = g[1] - (j - 1)
  BY PathOK DEF IsPath, Root
<1>3. \A j \in 1..Len(path) : path[j] \in 1..Len(pgs) /\ k \in o[path[j]]
  BY PathOwned
<1>4. \A j \in 1..(Len(path) - 1) : path[j + 1] = route_key(pgs[path[j]], k)
  BY PathOK DEF Routed
<1>5. i \in 1..Len(path) /\ path[i] = p
  BY OnPath
<1> HIDE DEF path
<1>6. i - 1 \in 1..(Len(path) - 1) /\ i - 1 \in 1..Len(path) /\ (i - 1) + 1 = i /\ g[1] - ((i - 1) - 1) = g[p] + 1
  BY <1>1, <1>2
<1>7. g[path[i - 1]] = g[p] + 1 /\ path[i - 1] \in 1..Len(pgs) /\ k \in o[path[i - 1]]
  BY <1>2, <1>3, <1>6
<1>8. route_key(pgs[path[i - 1]], k) = p
  BY <1>4, <1>5, <1>6
<1>9. QED
  BY <1>7, <1>8

\* A child owns what its parent owns between two separators.
LEMMA KidIs ==
    ASSUME NEW pgs, NEW g, TreeOK(pgs, g), NEW o, Owned(pgs, g, o), NEW q \in 1..Len(pgs), g[q] # 0
    PROVE  InternalOK(pgs[q], Below(g, g[q])) /\ Sees(pgs[q], o[q], o)
<1>1. NodeOrd(pgs[q], g[q], o[q], o)
  BY DEF Owned
<1>2. InternalOK(pgs[q], Below(g, g[q]))
  BY KindOf
<1>3. QED
  BY <1>1, <1>2 DEF NodeOrd

\* A child of a page that owns a range owns a range.
LEMMA ConvexKid ==
    ASSUME NEW S, NEW node, InternalOK(node, S), NEW R, Convex(R), R \subseteq Int, NEW J, Sees(node, R, J),
           NEW i \in 1..(Len(node.keys) + 1), J[node.kids[i]] \subseteq Int
    PROVE  Convex(J[node.kids[i]])
<1>1. node.keys \in Seq(Keys)
  BY InternalParts
<1>2. Len(node.keys) \in Nat /\ \A j \in 1..Len(node.keys) : node.keys[j] \in Int
  BY <1>1, KeyTypes
<1>3. SUFFICES ASSUME NEW a \in J[node.kids[i]], NEW b \in J[node.kids[i]], NEW c \in Int, a < c, c < b
               PROVE  c \in J[node.kids[i]]
  BY DEF Convex
<1>4. a \in Int /\ b \in Int
  OBVIOUS
<1>5. a \in R /\ InSlot(node.keys, i, a) /\ b \in R /\ InSlot(node.keys, i, b)
  BY <1>3, <1>4 DEF Sees
<1>6. c \in R
  BY <1>3, <1>5 DEF Convex
<1>7. InSlot(node.keys, i, c)
  BY <1>2, <1>3, <1>4, <1>5, SMTT(30) DEF InSlot
<1>8. QED
  BY <1>6, <1>7 DEF Sees

\* What a page owns is a range.
LEMMA AllConvex ==
    ASSUME NEW pgs, NEW g, TreeOK(pgs, g), NEW o, Owned(pgs, g, o)
    PROVE  \A p \in 1..Len(pgs) : Convex(o[p])
<1> DEFINE H == g[1]
           T == {d \in 0..H : \A p \in 1..Len(pgs) : g[p] = H - d => Convex(o[p])}
<1>1. /\ H \in Nat /\ DOMAIN g = 1..Len(pgs) /\ \A p \in 1..Len(pgs) : g[p] \in Nat /\ g[p] <= H
      /\ 1 \in 1..Len(pgs) /\ Len(pgs) \in Nat
  BY TreeParts
<1>2. /\ Owners(o, g, Len(pgs)) /\ o \in [1..Len(pgs) -> SUBSET Int]
      /\ \A k \in Int : k \in o[1]
  BY DEF Owned, Owners
<1>3. 0 \in T
  <2>1. ASSUME NEW p \in 1..Len(pgs), g[p] = H - 0 PROVE Convex(o[p])
    <3>1. ASSUME NEW a \in o[p] PROVE p = 1
      <4>1. a \in Int /\ a \in o[1]
        BY <1>2
      <4>2. g[p] = g[1]
        BY <1>1, <2>1
      <4>3. QED
        BY <1>1, <1>2, <3>1, <4>1, <4>2, OneOwner
    <3>2. QED
      BY <1>2, <3>1 DEF Convex
  <2>2. QED
    BY <1>1, <2>1
<1>4. ASSUME NEW d \in 0..(H - 1), d \in T PROVE d + 1 \in T
  <2>1. ASSUME NEW p \in 1..Len(pgs), g[p] = H - (d + 1) PROVE Convex(o[p])
    <3>1. CASE o[p] = {}
      BY <3>1 DEF Convex
    <3>2. CASE o[p] # {}
      <4>1. PICK k \in o[p] : k \in Int
        BY <1>2, <3>2
      <4>2. g[p] # g[1]
        BY <1>1, <2>1
      <4>3. PICK q \in 1..Len(pgs) : g[q] = g[p] + 1 /\ k \in o[q] /\ route_key(pgs[q], k) = p
        BY <4>1, <4>2, HasParent
      <4>4. g[q] = H - d /\ g[q] # 0
        BY <1>1, <2>1, <4>3
      <4>5. Convex(o[q])
        BY <1>4, <4>4
      <4>6. InternalOK(pgs[q], Below(g, g[q])) /\ Sees(pgs[q], o[q], o)
        BY <4>4, KidIs
      <4> DEFINE i == Partition(pgs[q].keys, k)
      <4>7. i \in 1..(Len(pgs[q].keys) + 1) /\ pgs[q].kids[i] = p
        BY <4>1, <4>3, <4>6, RouteSees
      <4> HIDE DEF i
      <4>8. QED
        BY <1>2, <4>5, <4>6, <4>7, ConvexKid
    <3>3. QED
      BY <3>1, <3>2
  <2>2. d + 1 \in 0..H
    BY <1>1
  <2>3. QED
    BY <2>1, <2>2
<1>5. \A d \in 0..H : d \in T
  <2> HIDE DEF T
  <2>1. QED
    BY <1>1, <1>3, <1>4, BoundedInduction
<1>6. ASSUME NEW p \in 1..Len(pgs) PROVE Convex(o[p])
  <2>1. H - g[p] \in 0..H /\ g[p] = H - (H - g[p])
    BY <1>1
  <2>2. H - g[p] \in T
    BY <1>5, <2>1
  <2>3. QED
    BY <2>1, <2>2
<1>7. QED
  BY <1>6

\* What two pages of one height own lies side by side.
LEMMA SideBySide ==
    ASSUME NEW pgs, NEW g, TreeOK(pgs, g), NEW o, Owned(pgs, g, o),
           NEW p \in 1..Len(pgs), NEW q \in 1..Len(pgs), p # q, g[p] = g[q],
           NEW a \in Int, a \in o[p], NEW b \in Int, b \in o[q], a < b,
           NEW c \in Int, c \in o[p], NEW d \in Int, d \in o[q]
    PROVE  c < d
<1>1. Owners(o, g, Len(pgs))
  BY DEF Owned
<1>2. Convex(o[p]) /\ Convex(o[q])
  BY AllConvex
<1>3. a \notin o[q] /\ c \notin o[q] /\ b \notin o[p] /\ d \notin o[p]
  BY <1>1, OneOwner
<1>4. a # d /\ c # d /\ c # b
  BY <1>3
<1>5. ASSUME d < c PROVE FALSE
  <2>1. CASE a < d
    BY <1>2, <1>3, <1>5, <2>1 DEF Convex
  <2>2. CASE d < a
    BY <1>2, <1>3, <2>2 DEF Convex
  <2>3. QED
    BY <1>4, <2>1, <2>2
<1>6. QED
  BY <1>4, <1>5

\* Some key of p is smaller than some key of q, by what they own.
Lower(o, p, q) == \E a \in o[p], b \in o[q] : a < b

\* The keys of a leaf's records are keys it owns.
LEMMA RecordOwned ==
    ASSUME NEW pgs, NEW g, TreeOK(pgs, g), NEW o, Owned(pgs, g, o), NEW p \in 1..Len(pgs), g[p] = 0,
           NEW x \in ToSet(pgs[p].records)
    PROVE  x.row_id \in Int /\ x.row_id \in o[p] /\ x \in Records
<1>1. LeafOK(pgs[p])
  BY KindOf
<1>2. pgs[p].records \in Seq(Records)
  BY <1>1, LeafParts
<1>3. x \in Records
  BY <1>2, Members
<1>4. LeafOrd(pgs[p], o[p])
  BY DEF Owned, NodeOrd
<1>5. QED
  BY <1>3, <1>4, RowIdInt DEF LeafOrd

\* A sequence that is not empty has an element.
LEMMA FilledHas ==
    ASSUME NEW S, NEW r \in Seq(S), r # <<>>
    PROVE  \E x : x \in ToSet(r)
<1>1. Len(r) \in Nat /\ Len(r) # 0 /\ DOMAIN r = 1..Len(r)
  OBVIOUS
<1>2. 1 \in DOMAIN r
  BY <1>1
<1>3. r[1] \in ToSet(r)
  BY <1>2 DEF ToSet
<1>4. QED
  BY <1>3

\* A leaf that is not the root owns a key and holds a record.
LEMMA LeafHas ==
    ASSUME NEW pgs, NEW g, TreeOK(pgs, g), NEW o, Owned(pgs, g, o), Filled(pgs),
           NEW p \in 1..Len(pgs), g[p] = 0, p # 1
    PROVE  \E x \in ToSet(pgs[p].records) : x.row_id \in Int /\ x.row_id \in o[p]
<1>1. LeafOK(pgs[p])
  BY KindOf
<1>2. pgs[p].records \in Seq(Records)
  BY <1>1, LeafParts
<1>3. pgs[p].records # <<>>
  BY LeafIdsAre DEF Filled
<1>4. PICK x : x \in ToSet(pgs[p].records)
  BY <1>2, <1>3, FilledHas
<1>5. x.row_id \in Int /\ x.row_id \in o[p]
  BY <1>4, RecordOwned
<1>6. QED
  BY <1>4, <1>5

\* There is a second number.
LEMMA SecondOf == ASSUME NEW n \in Nat, n # 0, n # 1 PROVE 2 \in 1..n
OBVIOUS

\* A root that is a leaf is the only page.
LEMMA LoneRoot ==
    ASSUME NEW pgs, NEW g, TreeOK(pgs, g), NEW o, Owned(pgs, g, o), Filled(pgs), g[1] = 0
    PROVE  Len(pgs) = 1
<1>1. Len(pgs) \in Nat \ {0} /\ \A p \in 1..Len(pgs) : g[p] \in Nat /\ g[p] <= g[1]
  BY TreeParts
<1>2. SUFFICES ASSUME Len(pgs) # 1 PROVE FALSE
  OBVIOUS
<1>3. 2 \in 1..Len(pgs) /\ g[2] = 0
  <2> DEFINE N == Len(pgs)
  <2>0. N \in Nat /\ N # 0 /\ N # 1
    BY <1>1, <1>2
  <2> HIDE DEF N
  <2>00. 2 \in 1..N
    BY <2>0, SecondOf
  <2>1. 2 \in 1..Len(pgs)
    BY <2>00 DEF N
  <2>2. QED
    BY <1>1, <2>1
<1>4. PICK x \in ToSet(pgs[2].records) : x.row_id \in Int /\ x.row_id \in o[2]
  BY <1>3, LeafHas
<1>5. x.row_id \in o[1] /\ Owners(o, g, Len(pgs)) /\ 1 \in 1..Len(pgs)
  BY <1>1, <1>4 DEF Owned, Owners
<1>6. 2 = 1
  BY <1>3, <1>4, <1>5, OneOwner
<1>7. QED
  BY <1>6

\* Of two leaves none is the root.
LEMMA NotRoot ==
    ASSUME NEW pgs, NEW g, TreeOK(pgs, g), NEW o, Owned(pgs, g, o), Filled(pgs),
           NEW p \in 1..Len(pgs), NEW q \in 1..Len(pgs), p # q, g[p] = 0
    PROVE  p # 1
<1>1. SUFFICES ASSUME p = 1 PROVE FALSE
  OBVIOUS
<1>2. Len(pgs) = 1
  BY <1>1, LoneRoot
<1>3. QED
  BY <1>1, <1>2

\* The order of the leaves is that of what they own.
LEMMA OrderIs ==
    ASSUME NEW pgs, NEW g, TreeOK(pgs, g), NEW o, Owned(pgs, g, o), Filled(pgs),
           NEW p \in LeafIds(pgs), NEW q \in LeafIds(pgs)
    PROVE  <<p, q>> \in LeafOrder(pgs) <=> p # q /\ Lower(o, p, q)
<1>1. p \in 1..Len(pgs) /\ g[p] = 0 /\ q \in 1..Len(pgs) /\ g[q] = 0
  BY LeafIdsAre
<1>2. SUFFICES ASSUME p # q PROVE LeftOf(pgs[p].records, pgs[q].records) <=> Lower(o, p, q)
  BY LeafOrderIs
<1>3. ASSUME LeftOf(pgs[p].records, pgs[q].records) PROVE Lower(o, p, q)
  <2>1. PICK x \in ToSet(pgs[p].records), y \in ToSet(pgs[q].records) : x.row_id < y.row_id
    BY <1>3 DEF LeftOf
  <2>2. x.row_id \in o[p] /\ y.row_id \in o[q]
    BY <1>1, RecordOwned
  <2>3. QED
    BY <2>1, <2>2 DEF Lower
<1>4. ASSUME Lower(o, p, q) PROVE LeftOf(pgs[p].records, pgs[q].records)
  <2>1. PICK a \in o[p], b \in o[q] : a < b
    BY <1>4 DEF Lower
  <2>2. a \in Int /\ b \in Int
    BY <1>1 DEF Owned, Owners
  <2>3. p # 1 /\ q # 1
    BY <1>1, <1>2, NotRoot
  <2>4. PICK x \in ToSet(pgs[p].records) : x.row_id \in Int /\ x.row_id \in o[p]
    BY <1>1, <2>3, LeafHas
  <2>5. PICK y \in ToSet(pgs[q].records) : y.row_id \in Int /\ y.row_id \in o[q]
    BY <1>1, <2>3, LeafHas
  <2>6. x.row_id < y.row_id
    BY <1>1, <1>2, <2>1, <2>2, <2>4, <2>5, SideBySide
  <2>7. QED
    BY <2>6 DEF LeftOf
<1>5. QED
  BY <1>3, <1>4

\* L orders S.
Orders(L, S) ==
    /\ \A p \in S : <<p, p>> \notin L
    /\ \A p, q \in S : p # q => <<p, q>> \in L \/ <<q, p>> \in L
    /\ \A p, q, r \in S : <<p, q>> \in L /\ <<q, r>> \in L => <<p, r>> \in L

\* LeafOrder is a strict total order of the leaves.
LEMMA LeavesOrdered ==
    ASSUME NEW pgs, NEW g, TreeOK(pgs, g), NEW o, Owned(pgs, g, o), Filled(pgs)
    PROVE  Orders(LeafOrder(pgs), LeafIds(pgs))
<1> DEFINE S == LeafIds(pgs)
           L == LeafOrder(pgs)
<1>1. \A p, q \in S : <<p, q>> \in L <=> p # q /\ Lower(o, p, q)
  BY OrderIs
<1>2. \A p \in S : p \in 1..Len(pgs) /\ g[p] = 0
  BY LeafIdsAre
<1>3. ASSUME NEW p \in S, NEW q \in S, p # q
      PROVE  /\ \E a \in Int : a \in o[p]
             /\ \E b \in Int : b \in o[q]
  <2>1. p # 1 /\ q # 1
    BY <1>2, <1>3, NotRoot
  <2>2. QED
    BY <1>2, <2>1, LeafHas
<1>4. \A p \in S : o[p] \subseteq Int
  BY <1>2 DEF Owned, Owners
<1> HIDE DEF S, L
<1>5. ASSUME NEW p \in S, NEW q \in S, p # q PROVE <<p, q>> \in L \/ <<q, p>> \in L
  <2>1. PICK a \in Int, b \in Int : a \in o[p] /\ b \in o[q]
    BY <1>3, <1>5
  <2>2. a # b
    <3>1. Owners(o, g, Len(pgs))
      BY DEF Owned
    <3>2. QED
      BY <1>2, <1>5, <2>1, <3>1, OneOwner
  <2>3. Lower(o, p, q) \/ Lower(o, q, p)
    <3>1. CASE a < b
      BY <2>1, <3>1 DEF Lower
    <3>2. CASE b < a
      BY <2>1, <3>2 DEF Lower
    <3>3. QED
      BY <2>2, <3>1, <3>2
  <2>4. QED
    BY <1>1, <1>5, <2>3
<1>6. ASSUME NEW p \in S, NEW q \in S, NEW r \in S, <<p, q>> \in L, <<q, r>> \in L PROVE <<p, r>> \in L
  <2>1. p # q /\ q # r /\ Lower(o, p, q) /\ Lower(o, q, r)
    BY <1>1, <1>6
  <2>2. PICK a \in o[p], b \in o[q] : a < b
    BY <2>1 DEF Lower
  <2>3. PICK c \in o[q], d \in o[r] : c < d
    BY <2>1 DEF Lower
  <2>4. a \in Int /\ b \in Int /\ c \in Int /\ d \in Int
    BY <1>4
  <2>5. a < c
    BY <1>2, <2>1, <2>2, <2>4, SideBySide
  <2>6. a < d /\ Lower(o, p, r)
    BY <2>3, <2>4, <2>5 DEF Lower
  <2>7. p # r
    <3>1. SUFFICES ASSUME p = r PROVE FALSE
      OBVIOUS
    <3>2. d < c
      BY <1>2, <2>1, <2>2, <2>4, <3>1, SideBySide
    <3>3. QED
      BY <2>3, <2>4, <3>2
  <2>8. QED
    BY <1>1, <2>6, <2>7
<1>7. QED
  BY <1>1, <1>5, <1>6 DEF Orders, S, L

-----------------------------------------------------------------------------
(* The links. *)

\* The pages of S have the same links.
SameChain(t, pgs, S) == \A p \in S : t[p].next = pgs[p].next /\ t[p].prev = pgs[p].prev

\* Pages with the same links are linked the same way.
LEMMA LinksSame ==
    ASSUME NEW pgs, NEW S, NEW L, Links(pgs, S, L), NEW t, SameChain(t, pgs, S)
    PROVE  Links(t, S, L)
BY DEF Links, NextOK, PrevOK, SameChain

\* right is linked in behind leaf.
Spliced(t, pgs, S, leaf, right) ==
    /\ t[leaf].prev = pgs[leaf].prev /\ t[leaf].next = right
    /\ t[right].prev = leaf /\ t[right].next = pgs[leaf].next
    /\ \A q \in S : q # leaf =>
         /\ t[q].next = pgs[q].next
         /\ t[q].prev = IF q = pgs[leaf].next THEN right ELSE pgs[q].prev

\* In the order M right follows leaf.
Follows(M, L, S, leaf, right) ==
    /\ \A p, q \in S : <<p, q>> \in M <=> <<p, q>> \in L
    /\ \A p \in S : <<p, right>> \in M <=> p = leaf \/ <<p, leaf>> \in L
    /\ \A p \in S : <<right, p>> \in M <=> <<leaf, p>> \in L
    /\ <<right, right>> \notin M

\* Linking right in behind leaf keeps the links right in the order with right behind leaf.
LEMMA LinksSplice ==
    ASSUME NEW pgs, NEW S, NEW L, Orders(L, S), Links(pgs, S, L), NEW leaf \in S, NEW right,
           right \notin S, right # 0, 0 \notin S,
           NEW t, Spliced(t, pgs, S, leaf, right), NEW M, Follows(M, L, S, leaf, right)
    PROVE  Links(t, S \cup {right}, M)
<1> DEFINE SS == S \cup {right}
           old == pgs[leaf].next
<1>1. /\ t[leaf].prev = pgs[leaf].prev /\ t[leaf].next = right
      /\ t[right].prev = leaf /\ t[right].next = old
      /\ \A q \in S : q # leaf => /\ t[q].next = pgs[q].next
                                  /\ t[q].prev = IF q = old THEN right ELSE pgs[q].prev
  BY DEF Spliced
<1>2. /\ \A p, q \in S : <<p, q>> \in M <=> <<p, q>> \in L
      /\ \A p \in S : <<p, right>> \in M <=> p = leaf \/ <<p, leaf>> \in L
      /\ \A p \in S : <<right, p>> \in M <=> <<leaf, p>> \in L
      /\ <<right, right>> \notin M
  BY DEF Follows
<1>3. \A p \in S : NextOK(pgs, S, L, p) /\ PrevOK(pgs, S, L, p)
  BY DEF Links
<1>4. /\ \A p \in S : <<p, p>> \notin L
      /\ \A p, q, r \in S : <<p, q>> \in L /\ <<q, r>> \in L => <<p, r>> \in L
  BY DEF Orders
<1>5. \A q : q \in SS <=> q \in S \/ q = right
  OBVIOUS
<1>6. old # leaf
  BY <1>3, <1>4 DEF NextOK
<1> HIDE DEF SS, old
<1>7. NextOK(t, SS, M, leaf) /\ PrevOK(t, SS, M, leaf)
  <2>1. ASSUME NEW q \in SS PROVE ~(<<leaf, q>> \in M /\ <<q, right>> \in M)
    <3>1. CASE q = right
      BY <1>2, <3>1
    <3>2. CASE q \in S
      BY <1>2, <1>4, <3>2
    <3>3. QED
      BY <1>5, <3>1, <3>2
  <2>2. NextOK(t, SS, M, leaf)
    BY <1>1, <1>2, <1>5, <2>1 DEF NextOK
  <2>3. CASE pgs[leaf].prev = 0
    <3>1. \A q \in S : <<q, leaf>> \notin L
      BY <1>3, <2>3 DEF PrevOK
    <3>2. \A q \in SS : <<q, leaf>> \notin M
      BY <1>2, <1>5, <3>1
    <3>3. QED
      BY <1>1, <2>2, <2>3, <3>2 DEF PrevOK
  <2>4. CASE pgs[leaf].prev # 0
    <3>1. pgs[leaf].prev \in S /\ pgs[pgs[leaf].prev].next = leaf
      BY <1>3, <2>4 DEF PrevOK
    <3>2. pgs[leaf].prev # leaf
      BY <1>6, <3>1 DEF old
    <3>3. t[pgs[leaf].prev].next = leaf
      BY <1>1, <3>1, <3>2
    <3>4. QED
      BY <1>1, <1>5, <2>2, <2>4, <3>1, <3>3 DEF PrevOK
  <2>5. QED
    BY <2>3, <2>4
<1>8. NextOK(t, SS, M, right) /\ PrevOK(t, SS, M, right)
  <2>1. PrevOK(t, SS, M, right)
    BY <1>1, <1>5 DEF PrevOK
  <2>2. CASE old = 0
    <3>1. \A q \in S : <<leaf, q>> \notin L
      BY <1>3, <2>2 DEF NextOK, old
    <3>2. \A q \in SS : <<right, q>> \notin M
      BY <1>2, <1>5, <3>1
    <3>3. QED
      BY <1>1, <2>1, <2>2, <3>2 DEF NextOK
  <2>3. CASE old # 0
    <3>1. old \in S /\ <<leaf, old>> \in L /\ \A q \in S : ~(<<leaf, q>> \in L /\ <<q, old>> \in L)
      BY <1>3, <2>3 DEF NextOK, old
    <3>2. \A q \in SS : ~(<<right, q>> \in M /\ <<q, old>> \in M)
      BY <1>2, <1>5, <3>1
    <3>3. t[old].prev = right
      BY <1>1, <1>6, <3>1
    <3>4. QED
      BY <1>1, <1>2, <1>5, <2>1, <2>3, <3>1, <3>2, <3>3 DEF NextOK
  <2>4. QED
    BY <2>2, <2>3
<1>9. ASSUME NEW p \in S, p # leaf PROVE NextOK(t, SS, M, p) /\ PrevOK(t, SS, M, p)
  <2>1. t[p].next = pgs[p].next /\ t[p].prev = IF p = old THEN right ELSE pgs[p].prev
    BY <1>1, <1>9
  <2>2. NextOK(t, SS, M, p)
    <3>1. CASE pgs[p].next = 0
      <4>1. \A q \in S : <<p, q>> \notin L
        BY <1>3, <3>1 DEF NextOK
      <4>2. \A q \in SS : <<p, q>> \notin M
        BY <1>2, <1>5, <1>9, <4>1
      <4>3. QED
        BY <2>1, <3>1, <4>2 DEF NextOK
    <3>2. CASE pgs[p].next # 0
      <4> DEFINE c == pgs[p].next
      <4>1. c \in S /\ <<p, c>> \in L /\ pgs[c].prev = p /\ \A q \in S : ~(<<p, q>> \in L /\ <<q, c>> \in L)
        BY <1>3, <3>2 DEF NextOK
      <4>2. c # old
        <5>1. SUFFICES ASSUME c = old PROVE FALSE
          OBVIOUS
        <5>2. pgs[old].prev = leaf
          BY <1>3, <3>2, <5>1 DEF NextOK, old
        <5>3. QED
          BY <1>9, <4>1, <5>1, <5>2
      <4>3. t[c].prev = p
        <5>1. CASE c = leaf
          BY <1>1, <4>1, <5>1
        <5>2. CASE c # leaf
          BY <1>1, <4>1, <4>2, <5>2
        <5>3. QED
          BY <5>1, <5>2
      <4> HIDE DEF c
      <4>4. \A q \in SS : ~(<<p, q>> \in M /\ <<q, c>> \in M)
        BY <1>2, <1>5, <1>9, <4>1
      <4>5. c \in SS /\ <<p, c>> \in M
        BY <1>2, <1>5, <4>1
      <4>6. QED
        BY <2>1, <3>2, <4>3, <4>4, <4>5 DEF NextOK, c
    <3>3. QED
      BY <3>1, <3>2
  <2>3. PrevOK(t, SS, M, p)
    <3>1. CASE p = old
      BY <1>1, <1>5, <2>1, <3>1 DEF PrevOK
    <3>2. CASE p # old /\ pgs[p].prev = 0
      <4>1. \A q \in S : <<q, p>> \notin L
        BY <1>3, <3>2 DEF PrevOK
      <4>2. \A q \in SS : <<q, p>> \notin M
        BY <1>2, <1>5, <4>1
      <4>3. QED
        BY <2>1, <3>2, <4>2 DEF PrevOK
    <3>3. CASE p # old /\ pgs[p].prev # 0
      <4> DEFINE b == pgs[p].prev
      <4>1. b \in S /\ pgs[b].next = p
        BY <1>3, <3>3 DEF PrevOK
      <4>2. b # leaf
        BY <3>3, <4>1 DEF old
      <4>3. t[b].next = p
        BY <1>1, <4>1, <4>2
      <4>4. QED
        BY <1>5, <2>1, <3>3, <4>1, <4>3 DEF PrevOK
    <3>4. QED
      BY <3>1, <3>2, <3>3
  <2>4. QED
    BY <2>2, <2>3
<1>10. \A p \in SS : NextOK(t, SS, M, p) /\ PrevOK(t, SS, M, p)
  BY <1>5, <1>7, <1>8, <1>9
<1>11. QED
  BY <1>10 DEF Links, SS

\* The same order on S.
SameOrder(M, L, S) == \A p, q \in S : <<p, q>> \in M <=> <<p, q>> \in L

\* Links depend on nothing but the links and the order.
LEMMA LinksAgree ==
    ASSUME NEW pgs, NEW S, NEW L, Links(pgs, S, L), NEW t, SameChain(t, pgs, S), NEW M, SameOrder(M, L, S)
    PROVE  Links(t, S, M)
<1>1. ASSUME NEW p \in S PROVE NextOK(t, S, M, p) /\ PrevOK(t, S, M, p)
  <2>1. NextOK(pgs, S, L, p) /\ PrevOK(pgs, S, L, p)
    BY DEF Links
  <2>2. NextOK(t, S, M, p)
    BY <2>1 DEF NextOK, SameChain, SameOrder
  <2>3. PrevOK(t, S, M, p)
    BY <2>1 DEF PrevOK, SameChain, SameOrder
  <2>4. QED
    BY <2>2, <2>3
<1>2. QED
  BY <1>1 DEF Links

\* r is not empty and its keys are among R.
Within(r, R) == (\E x : x \in ToSet(r)) /\ \A x \in ToSet(r) : x.row_id \in R /\ x.row_id \in Int

\* The order of two sets of owned keys is the order of the owners.
LEMMA RecordsSide ==
    ASSUME NEW pgs, NEW h, TreeOK(pgs, h), NEW o, Owned(pgs, h, o),
           NEW p \in 1..Len(pgs), NEW q \in 1..Len(pgs), p # q, h[p] = h[q],
           NEW r, Within(r, o[p]), NEW s, Within(s, o[q])
    PROVE  LeftOf(r, s) <=> Lower(o, p, q)
<1>1. o[p] \subseteq Int /\ o[q] \subseteq Int
  BY DEF Owned, Owners
<1>2. PICK x \in ToSet(r) : x.row_id \in o[p] /\ x.row_id \in Int
  BY DEF Within
<1>3. PICK y \in ToSet(s) : y.row_id \in o[q] /\ y.row_id \in Int
  BY DEF Within
<1>4. ASSUME LeftOf(r, s) PROVE Lower(o, p, q)
  BY <1>4 DEF LeftOf, Lower, Within
<1>5. ASSUME Lower(o, p, q) PROVE LeftOf(r, s)
  <2>1. PICK a \in o[p], b \in o[q] : a < b
    BY <1>5 DEF Lower
  <2>2. a \in Int /\ b \in Int
    BY <1>1
  <2>3. x.row_id < y.row_id
    BY <1>2, <1>3, <2>1, <2>2, SideBySide
  <2>4. QED
    BY <2>3 DEF LeftOf
<1>6. QED
  BY <1>4, <1>5

\* A leaf in order that is not empty holds keys it owns.
LEMMA WithinOf ==
    ASSUME NEW x, LeafOK(x), NEW R, LeafOrd(x, R), x.records # <<>>
    PROVE  Within(x.records, R)
<1>1. x.records \in Seq(Records)
  BY LeafParts
<1>2. \E y : y \in ToSet(x.records)
  BY <1>1, FilledHas
<1>3. ASSUME NEW y \in ToSet(x.records) PROVE y.row_id \in R /\ y.row_id \in Int
  BY <1>1, Members, RowIdInt DEF LeafOrd
<1>4. QED
  BY <1>2, <1>3 DEF Within

\* The same for a page of height 0.
LEMMA LeavesWithin ==
    ASSUME NEW pgs, NEW h, TreeOK(pgs, h), NEW o, Owned(pgs, h, o), NEW p \in 1..Len(pgs), h[p] = 0,
           pgs[p].records # <<>>
    PROVE  Within(pgs[p].records, o[p])
<1>1. LeafOK(pgs[p])
  BY KindOf
<1>2. LeafOrd(pgs[p], o[p])
  BY DEF Owned, NodeOrd
<1>3. QED
  BY <1>1, <1>2, WithinOf

\* A leaf that keeps its links and holds other keys it owns keeps the chain.
LEMMA ReplaceChain ==
    ASSUME NEW pgs, NEW h, TreeOK(pgs, h), NEW o, Owned(pgs, h, o), LeafChain(pgs),
           NEW leaf \in 1..Len(pgs), h[leaf] = 0,
           NEW x, LeafOK(x), SameLinks(x, pgs[leaf]), LeafOrd(x, o[leaf]), x.records # <<>>
    PROVE  LeafChain([pgs EXCEPT ![leaf] = x])
<1> DEFINE t == [pgs EXCEPT ![leaf] = x]
           S == LeafIds(pgs)
<1>1. TreeOK(t, h)
  BY ReplaceLeaf
<1>2. Owned(t, h, o)
  BY ReplaceOrd
<1>3. DOMAIN pgs = 1..Len(pgs) /\ Len(pgs) \in Nat
  BY TreeParts
<1>4. DOMAIN t = 1..Len(pgs) /\ \A q \in 1..Len(pgs) : t[q] = IF q = leaf THEN x ELSE pgs[q]
  BY <1>3
<1>5. Len(t) = Len(pgs)
  <2>1. Len(t) \in Nat /\ DOMAIN t = 1..Len(t)
    BY <1>1, TreeParts
  <2> HIDE DEF t
  <2>2. QED
    BY <1>3, <1>4, <2>1
<1> HIDE DEF t, S
<1>6. \A q : q \in S <=> q \in 1..Len(pgs) /\ h[q] = 0
  BY LeafIdsAre DEF S
<1>7. \A q : q \in LeafIds(t) <=> q \in 1..Len(pgs) /\ h[q] = 0
  BY <1>1, <1>5, LeafIdsAre
<1>8. LeafIds(t) = S
  BY <1>6, <1>7
<1>9. Filled(pgs) /\ Links(pgs, S, LeafOrder(pgs))
  BY DEF LeafChain, S
<1>10. Filled(t)
  BY <1>4, <1>6, <1>8, <1>9 DEF Filled, S
<1>11. SameOrder(LeafOrder(t), LeafOrder(pgs), S)
  <2>1. ASSUME NEW p \in S, NEW q \in S PROVE <<p, q>> \in LeafOrder(t) <=> <<p, q>> \in LeafOrder(pgs)
    <3>1. <<p, q>> \in LeafOrder(pgs) <=> p # q /\ Lower(o, p, q)
      BY <1>9, OrderIs DEF S
    <3>2. <<p, q>> \in LeafOrder(t) <=> p # q /\ Lower(o, p, q)
      BY <1>1, <1>2, <1>8, <1>10, OrderIs
    <3>3. QED
      BY <3>1, <3>2
  <2>2. QED
    BY <2>1 DEF SameOrder
<1>12. SameChain(t, pgs, S)
  BY <1>4, <1>6 DEF SameChain, SameLinks
<1>13. Links(t, S, LeafOrder(t))
  BY <1>9, <1>11, <1>12, LinksAgree
<1>14. LeafChain(t)
  BY <1>8, <1>10, <1>13 DEF LeafChain
<1>15. QED
  BY <1>14 DEF t

\* What the split of a leaf does to the links.
LEMMA LinkedSpliced ==
    ASSUME NEW pgs, NEW h, TreeOK(pgs, h), NEW leaf \in 1..Len(pgs), h[leaf] = 0,
           NEW l, LeafOK(l), SameLinks(l, pgs[leaf]), NEW r, LeafOK(r)
    PROVE  Spliced(LinkedPages(pgs, leaf, l, r), pgs, LeafIds(pgs), leaf, Len(pgs) + 1)
<1> DEFINE N == Len(pgs)
           right == N + 1
           old_next == pgs[leaf].next
           relinked == IF old_next = None THEN pgs ELSE [pgs EXCEPT ![old_next].prev = right]
           a == [l EXCEPT !.next = right]
           b1 == [r EXCEPT !.prev = leaf]
           b == [r EXCEPT !.prev = leaf, !.next = old_next]
           u == [relinked EXCEPT ![leaf] = a]
           t == LinkedPages(pgs, leaf, l, r)
           S == LeafIds(pgs)
<1>1. N \in Nat /\ DOMAIN pgs = 1..N /\ pgs \in Seq(Nodes) /\ DOMAIN h = 1..N
  BY TreeParts
<1>2. pgs = [q \in 1..N |-> pgs[q]]
  <2> HIDE DEF N
  <2>1. QED
    BY <1>1
<1>3. old_next \in {None} \cup 1..N /\ old_next \in Nat
  <2>1. NodeOK(pgs[leaf], h, 0)
    BY TreeNode
  <2>2. QED
    BY <1>1, <2>1 DEF NodeOK, None
<1>4. \A q \in S : q \in 1..N /\ LeafOK(pgs[q])
  BY LeafIdsAre, KindOf
<1>5. t = Append(u, b)
  BY DEF LinkedPages
<1>6. right \in Nat /\ leaf \in Nat /\ leaf \in 1..N
  BY <1>1
<1>7. a.prev = pgs[leaf].prev /\ a.next = right
  <2> HIDE DEF right
  <2>1. QED
    BY <1>6, RelinkNext DEF SameLinks
<1>8. b.prev = leaf /\ b.next = old_next
  <2>1. LeafOK(b1) /\ b1.prev = leaf
    BY <1>6, RelinkPrev
  <2>2. b = [b1 EXCEPT !.next = old_next]
    OBVIOUS
  <2> HIDE DEF b1, b, old_next
  <2>3. QED
    BY <1>3, <2>1, <2>2, RelinkNext
<1> HIDE DEF N, right, old_next, a, b, S
<1>9. \A q \in S : LET y == [pgs[q] EXCEPT !.prev = right] IN y.prev = right /\ y.next = pgs[q].next
  BY <1>4, <1>6, RelinkPrev
<1>10. /\ relinked = [q \in 1..N |-> relinked[q]]
       /\ \A q \in 1..N : relinked[q] = IF q = old_next THEN [pgs[q] EXCEPT !.prev = right] ELSE pgs[q]
  <2>1. CASE old_next = None
    <3>1. relinked = pgs
      BY <2>1
    <3>2. \A q \in 1..N : q # old_next
      BY <1>1, <2>1 DEF None
    <3> HIDE DEF relinked
    <3>3. QED
      BY <1>2, <3>1, <3>2
  <2>2. CASE old_next # None
    <3> DEFINE y == [pgs[old_next] EXCEPT !.prev = right]
    <3>1. old_next \in 1..N
      BY <1>3, <2>2
    <3>2. relinked = [pgs EXCEPT ![old_next] = y]
      BY <2>2
    <3>3. \A q \in 1..N : q = old_next => y = [pgs[q] EXCEPT !.prev = right]
      OBVIOUS
    <3> HIDE DEF y, relinked
    <3>4. relinked = [q \in 1..N |-> IF q = old_next THEN y ELSE pgs[q]]
      BY <1>1, <1>2, <3>1, <3>2
    <3>5. QED
      BY <3>3, <3>4
  <2>3. QED
    BY <2>1, <2>2
<1> HIDE DEF relinked
<1>11. u = [q \in 1..N |-> u[q]] /\ \A q \in 1..N : u[q] = IF q = leaf THEN a ELSE relinked[q]
  BY <1>6, <1>10
<1> HIDE DEF u
<1>12. t[right] = b /\ \A q \in 1..N : t[q] = u[q]
  <2> HIDE DEF t
  <2>1. t[N + 1] = b /\ \A q \in 1..N : t[q] = u[q]
    BY <1>1, <1>5, <1>11, AppendIs
  <2>2. QED
    BY <2>1 DEF right
<1> HIDE DEF t
<1>13. ASSUME NEW q \in S, q # leaf
       PROVE  /\ t[q].next = pgs[q].next
              /\ t[q].prev = IF q = old_next THEN right ELSE pgs[q].prev
  <2>1. t[q] = relinked[q]
    BY <1>4, <1>11, <1>12, <1>13
  <2>2. CASE q = old_next
    <3>1. t[q] = [pgs[q] EXCEPT !.prev = right]
      BY <1>4, <1>10, <2>1, <2>2
    <3>2. QED
      BY <1>9, <2>2, <3>1
  <2>3. CASE q # old_next
    <3>1. t[q] = pgs[q]
      BY <1>4, <1>10, <2>1, <2>3
    <3>2. QED
      BY <2>3, <3>1
  <2>4. QED
    BY <2>2, <2>3
<1>14. t[leaf] = a
  BY <1>6, <1>11, <1>12
<1>15. Spliced(t, pgs, S, leaf, right)
  BY <1>7, <1>8, <1>12, <1>13, <1>14 DEF Spliced, old_next
<1>16. QED
  BY <1>15 DEF t, S, right, N

\* The split of a leaf keeps the chain, and the new leaf comes after the old one.
LEMMA SplitChain ==
    ASSUME NEW pgs, NEW h, TreeOK(pgs, h), NEW o, Owned(pgs, h, o), LeafChain(pgs),
           NEW leaf \in 1..Len(pgs), h[leaf] = 0, NEW m \in Int,
           NEW l, LeafOK(l), SameLinks(l, pgs[leaf]), LeafOrd(l, Under(o[leaf], m)), l.records # <<>>,
           NEW r, LeafOK(r), LeafOrd(r, From(o[leaf], m)), r.records # <<>>,
           NEW t, t = LinkedPages(pgs, leaf, l, r), NEW right, right = Len(pgs) + 1
    PROVE  /\ LeafChain(t)
           /\ <<leaf, right>> \in LeafOrder(t) /\ <<right, leaf>> \notin LeafOrder(t)
           /\ right \in LeafIds(t)
<1> DEFINE N == Len(pgs)
           g == Grow(h, N, 0)
           S == LeafIds(pgs)
           L == LeafOrder(pgs)
           M == LeafOrder(t)
<1>1. TreeOK(t, g)
  BY LinkedOK
<1>2. N \in Nat \ {0} /\ Heights(h, N) /\ h[1] \in Nat /\ 0 <= h[1] /\ DOMAIN h = 1..N
  BY TreeParts DEF TreeOK
<1>3. LinkedAs(t, pgs, h, N, leaf, l, r)
  BY LinkedIs
<1>4. Spliced(t, pgs, S, leaf, right)
  BY LinkedSpliced
<1>5. /\ right = N + 1 /\ leaf \in 1..N
      /\ \A q : q \in S <=> q \in 1..N /\ h[q] = 0
  BY LeafIdsAre
<1>6. Filled(pgs) /\ Links(pgs, S, L) /\ Orders(L, S)
  BY LeavesOrdered DEF LeafChain
<1>7. \A p, q \in S : <<p, q>> \in L <=> p # q /\ Lower(o, p, q)
  BY <1>6, OrderIs
<1>8. \A p \in 1..N : h[p] = 0 /\ p # leaf => p # 1
  BY <1>6, NotRoot
<1>9. \A p \in 1..N : h[p] = 0 /\ pgs[p].records # <<>> => Within(pgs[p].records, o[p])
  BY LeavesWithin
<1>10. \A p, q \in 1..N : p # q /\ h[p] = h[q] => \A x, y : Within(x, o[p]) /\ Within(y, o[q]) => (LeftOf(x, y) <=> Lower(o, p, q))
  BY RecordsSide
<1>11. Within(l.records, Under(o[leaf], m)) /\ Within(r.records, From(o[leaf], m))
  BY WithinOf
<1>12. Len(t) = N + 1
  BY <1>3 DEF LinkedAs
<1>13. \A q : q \in LeafIds(t) <=> q \in 1..(N + 1) /\ g[q] = 0
  BY <1>1, <1>12, LeafIdsAre
<1> HIDE DEF N, S, L, M
<1>14. g[N + 1] = 0 /\ \A q \in 1..N : g[q] = h[q]
  BY <1>2, GrowExtends
<1> HIDE DEF g
<1>15. \A q : q \in LeafIds(t) <=> q \in S \/ q = right
  BY <1>2, <1>5, <1>13, <1>14
<1>16. LeafIds(t) = S \cup {right}
  BY <1>15
<1>17. leaf \in S /\ right \notin S /\ right # 0 /\ 0 \notin S
  BY <1>2, <1>5
<1>18. /\ t[leaf].records = l.records /\ t[right].records = r.records
       /\ \A q \in S : q # leaf => t[q].records = pgs[q].records /\ pgs[q].records # <<>>
  BY <1>3, <1>5, <1>6, <1>8 DEF LinkedAs, Filled, S
<1>19. \A q \in S : Within(t[q].records, o[q])
  <2>1. Within(t[leaf].records, o[leaf])
    BY <1>11, <1>18 DEF Within, Under
  <2>2. QED
    BY <1>5, <1>9, <1>18, <2>1
<1>20. Within(t[right].records, o[leaf])
  BY <1>11, <1>18 DEF Within, From
<1>21. \A p, q \in LeafIds(t) : <<p, q>> \in M <=> p # q /\ LeftOf(t[p].records, t[q].records)
  BY LeafOrderIs DEF M
<1>22. ASSUME NEW p \in S, NEW q \in S PROVE <<p, q>> \in M <=> <<p, q>> \in L
  BY <1>5, <1>7, <1>10, <1>15, <1>19, <1>21
<1>23. <<leaf, right>> \in M /\ <<right, leaf>> \notin M
  <2>1. PICK x : x \in ToSet(l.records)
    BY <1>11 DEF Within
  <2>2. PICK y : y \in ToSet(r.records)
    BY <1>11 DEF Within
  <2>3. \A v \in ToSet(l.records) : v.row_id \in Int /\ v.row_id < m
    BY <1>11 DEF Within, Under
  <2>4. \A v \in ToSet(r.records) : v.row_id \in Int /\ m <= v.row_id
    BY <1>11 DEF Within, From
  <2>5. x.row_id < y.row_id
    BY <2>1, <2>2, <2>3, <2>4
  <2>6. LeftOf(l.records, r.records)
    BY <2>1, <2>2, <2>5 DEF LeftOf
  <2>7. ~LeftOf(r.records, l.records)
    <3>1. ASSUME NEW v \in ToSet(r.records), NEW w \in ToSet(l.records), v.row_id < w.row_id PROVE FALSE
      <4>1. v.row_id \in Int /\ w.row_id \in Int /\ m <= v.row_id /\ w.row_id < m
        BY <2>3, <2>4
      <4>2. QED
        BY <3>1, <4>1
    <3>2. QED
      BY <3>1 DEF LeftOf
  <2>8. QED
    BY <1>15, <1>17, <1>18, <1>21, <2>6, <2>7
<1>24. ASSUME NEW p \in S PROVE <<p, right>> \in M <=> p = leaf \/ <<p, leaf>> \in L
  <2>1. CASE p = leaf
    BY <1>23, <2>1
  <2>2. CASE p # leaf
    <3>1. LeftOf(t[p].records, t[right].records) <=> Lower(o, p, leaf)
      BY <1>5, <1>10, <1>17, <1>19, <1>20, <2>2
    <3>2. QED
      BY <1>7, <1>15, <1>17, <1>21, <2>2, <3>1
  <2>3. QED
    BY <2>1, <2>2
<1>25. ASSUME NEW p \in S PROVE <<right, p>> \in M <=> <<leaf, p>> \in L
  <2>1. CASE p = leaf
    BY <1>7, <1>23, <2>1
  <2>2. CASE p # leaf
    <3>1. LeftOf(t[right].records, t[p].records) <=> Lower(o, leaf, p)
      BY <1>5, <1>10, <1>17, <1>19, <1>20, <2>2
    <3>2. QED
      BY <1>7, <1>15, <1>17, <1>21, <2>2, <3>1
  <2>3. QED
    BY <2>1, <2>2
<1>26. <<right, right>> \notin M
  BY <1>15, <1>21
<1>27. Follows(M, L, S, leaf, right)
  BY <1>22, <1>24, <1>25, <1>26 DEF Follows
<1>28. Links(t, S \cup {right}, M)
  BY <1>4, <1>6, <1>17, <1>27, LinksSplice
<1>29. Filled(t)
  <2>1. ASSUME NEW q \in LeafIds(t) PROVE t[q].records # <<>>
    BY <1>15, <1>18
  <2>2. QED
    BY <2>1 DEF Filled
<1>30. LeafChain(t)
  BY <1>16, <1>28, <1>29 DEF LeafChain, M
<1>31. QED
  BY <1>15, <1>23, <1>30 DEF M

-----------------------------------------------------------------------------
(* Insertion keeps the chain. *)

\* What compact keeps is not empty when a live record was there.
LEMMA LiveFilled ==
    ASSUME NEW x \in Seq(Records), AllLive(x), Len(x) # 0
    PROVE  live(x) # <<>>
<1>1. live(x) = x
  BY LiveSame
<1>2. QED
  BY <1>1

\* Both halves of a leaf with more than one record hold one.
LEMMA HalvesFilled ==
    ASSUME NEW leaf, LeafOK(leaf), AllLive(leaf.records), Len(leaf.records) > 1
    PROVE  split(leaf).left.records # <<>> /\ split(leaf).right.records # <<>>
<1> DEFINE r == leaf.records
           n == Len(r)
           mid == n \div 2
           x == SubSeq(r, 1, mid)
           y == SubSeq(r, mid + 1, n)
           a == [leaf EXCEPT !.records = x]
           b == [new_empty EXCEPT !.records = y]
<1>1. r \in Seq(Records)
  BY LeafParts
<1>2. split(leaf).left = compact(a) /\ split(leaf).right = compact(b)
  BY DEF split
<1>3. a.records = x /\ b.records = y
  BY DEF LeafOK, LeafNodes, new_empty, Leaf
<1>4. n \in Nat /\ mid \in 0..n /\ mid < n /\ mid # 0
  <2>1. n \in Nat /\ n > 1
    BY <1>1
  <2>2. \A k \in Nat : k > 1 => k \div 2 \in 0..k /\ k \div 2 < k /\ k \div 2 # 0
    OBVIOUS
  <2>3. QED
    BY <2>1, <2>2
<1>5. \A i \in 1..n : ~r[i].is_deleted
  BY DEF AllLive
<1> HIDE DEF mid
<1>6. /\ x \in Seq(Records) /\ Len(x) = mid
      /\ y \in Seq(Records) /\ Len(y) = n - mid
      /\ \A j \in 1..(n - mid) : y[j] = r[mid + j]
  BY <1>1, <1>4, BytesParts
<1>7. \A j \in 1..mid : x[j] = r[j]
  BY <1>1, <1>4
<1> HIDE DEF x, y, a, b, r, n
<1>8. AllLive(x) /\ AllLive(y)
  <2>1. \A j \in 1..mid : j \in 1..n
    BY <1>4
  <2>2. \A j \in 1..(n - mid) : mid + j \in 1..n
    BY <1>4
  <2>3. QED
    BY <1>5, <1>6, <1>7, <2>1, <2>2 DEF AllLive
<1>9. live(x) # <<>>
  BY <1>4, <1>6, <1>8, LiveFilled
<1>10. live(y) # <<>>
  <2>1. n - mid # 0
    BY <1>4
  <2>2. QED
    BY <1>6, <1>8, <2>1, LiveFilled
<1>11. compact(a).records = live(x) /\ compact(b).records = live(y)
  BY <1>3 DEF compact, Leaf
<1>12. QED
  BY <1>2, <1>9, <1>10, <1>11

\* A leaf with a record inserted is not empty.
LEMMA InsertedFilled ==
    ASSUME NEW leaf, LeafOK(leaf), NEW R, LeafOrd(leaf, R), NEW row_id \in Keys, row_id \in R,
           NEW len \in Payloads, insert_record(leaf, row_id, len).res = "Ok"
    PROVE  insert_record(leaf, row_id, len).leaf.records # <<>>
<1> DEFINE x == insert_record(leaf, row_id, len).leaf.records
<1>1. Pairs(x) = Pairs(leaf.records) \cup {<<row_id, len>>}
  BY InsertRecordOrd
<1> HIDE DEF x
<1>2. <<row_id, len>> \in Pairs(x)
  BY <1>1
<1>3. PICK rec : rec \in ToSet(x)
  BY <1>2, PairsMember
<1>4. x # <<>>
  BY <1>3 DEF ToSet
<1>5. QED
  BY <1>4 DEF x

\* The chain in a step of an insertion; a leaf at the root is split from page 1 to page 2.
Chained(st, h) ==
    /\ LeafChain(st.pages)
    /\ h[1] = 0 /\ st.split # <<>> =>
         /\ Len(st.pages) = 2 /\ st.split[2] = 2 /\ LeafIds(st.pages) = {1, 2}
         /\ <<1, 2>> \in LeafOrder(st.pages) /\ <<2, 1>> \notin LeafOrder(st.pages)

\* split_leaf keeps the chain of leaves.
LEMMA SplitLeafChain ==
    ASSUME NEW pgs, NEW h, TreeOK(pgs, h), NEW o, Owned(pgs, h, o), LeafChain(pgs),
           NEW leaf \in 1..Len(pgs), h[leaf] = 0,
           NEW row_id \in Keys, row_id \in o[leaf], NEW len \in Payloads,
           compact(pgs[leaf]).records # <<>>, Len(compact(pgs[leaf]).records) > 1,
           split_leaf(pgs, leaf, row_id, len).res = "Ok"
    PROVE  Chained(split_leaf(pgs, leaf, row_id, len), h)
<1> DEFINE N == Len(pgs)
           R == o[leaf]
           c == compact(pgs[leaf])
           halves == split(c)
           m == halves.right.records[1].row_id
           half == IF row_id < m THEN halves.left ELSE halves.right
           put == insert_record(half, row_id, len)
           st == split_leaf(pgs, leaf, row_id, len)
<1>1. LeafOK(pgs[leaf]) /\ LeafOrd(pgs[leaf], R)
  <2>1. LeafOK(pgs[leaf])
    BY KindOf
  <2>2. QED
    BY <2>1 DEF Owned, NodeOrd
<1>2. LeafOK(c) /\ SameLinks(c, pgs[leaf]) /\ AllLive(c.records)
  BY <1>1, LeafParts, CompactOK
<1>3. LeafOrd(c, R)
  BY <1>1, LeafParts, CompactOrd
<1>4. /\ LeafOK(halves.left) /\ SameLinks(halves.left, c) /\ LeafOK(halves.right)
      /\ m \in Keys /\ halves.left.records # <<>> /\ halves.right.records # <<>>
  <2> HIDE DEF c
  <2>1. c.records # <<>> /\ Len(c.records) > 1
    BY DEF c
  <2>2. QED
    BY <1>2, <2>1, SplitOK, HalvesFilled
<1>5. LeafOrd(halves.left, Under(R, m)) /\ LeafOrd(halves.right, From(R, m))
  <2> HIDE DEF c, R
  <2>1. c.records # <<>>
    BY DEF c
  <2>2. QED
    BY <1>2, <1>3, <2>1, SplitOrd
<1>6. SameLinks(halves.left, pgs[leaf])
  BY <1>2, <1>4 DEF SameLinks
<1>7. st = IF put.res # "Ok" THEN Failed(put.res, pgs)
           ELSE IF row_id < m
                THEN SplitStep(LinkedPages(pgs, leaf, put.leaf, halves.right), m, N + 1)
                ELSE SplitStep(LinkedPages(pgs, leaf, halves.left, put.leaf), m, N + 1)
  BY DEF split_leaf, SplitStep, LinkedPages
<1>8. st.res = "Ok"
  OBVIOUS
<1> HIDE DEF c, halves, m, st, R
<1>9. m \in Int /\ row_id \in Int
  BY <1>4, KeyInt
<1>10. put.res = "Ok"
  <2> HIDE DEF put
  <2>1. QED
    BY <1>7, <1>8 DEF Failed
\* The pages with two halves in order.
<1>11. ASSUME NEW l, LeafOK(l), SameLinks(l, pgs[leaf]), LeafOrd(l, Under(R, m)), l.records # <<>>,
              NEW r, LeafOK(r), LeafOrd(r, From(R, m)), r.records # <<>>
       PROVE  Chained(SplitStep(LinkedPages(pgs, leaf, l, r), m, N + 1), h)
  <2> DEFINE t == LinkedPages(pgs, leaf, l, r)
             right == N + 1
  <2>1. /\ LeafChain(t) /\ <<leaf, right>> \in LeafOrder(t) /\ <<right, leaf>> \notin LeafOrder(t)
        /\ right \in LeafIds(t)
    BY <1>9, <1>11, SplitChain, SMTT(40) DEF R
  <2>2. LinkedAs(t, pgs, h, N, leaf, l, r)
    BY <1>11, LinkedIs
  <2>3. Len(t) = N + 1
    BY <2>2 DEF LinkedAs
  <2>4. TreeOK(t, Grow(h, N, 0))
    BY <1>11, LinkedOK
  <2>5. h[1] = 0 => N = 1
    BY LoneRoot DEF LeafChain
  <2>6. leaf \in 1..N
    OBVIOUS
  <2>7. \A q : q \in LeafIds(t) <=> q \in 1..Len(t) /\ Grow(h, N, 0)[q] = 0
    BY <2>4, LeafIdsAre
  <2> HIDE DEF N, t
  <2>8. ASSUME h[1] = 0
        PROVE  Len(t) = 2 /\ right = 2 /\ LeafIds(t) = {1, 2} /\ <<1, 2>> \in LeafOrder(t) /\ <<2, 1>> \notin LeafOrder(t)
    <3>1. N = 1 /\ right = 2 /\ leaf = 1 /\ Len(t) = 2
      BY <2>3, <2>5, <2>6, <2>8
    <3>2. Grow(h, 1, 0)[1] = 0 /\ Grow(h, 1, 0)[2] = 0
      BY <2>8 DEF Grow
    <3>3. \A q : q \in LeafIds(t) <=> q \in 1..2
      <4>1. \A q \in 1..2 : q = 1 \/ q = 2
        OBVIOUS
      <4>2. QED
        BY <2>7, <3>1, <3>2, <4>1
    <3>4. LeafIds(t) = {1, 2}
      BY <3>3
    <3>5. QED
      BY <2>1, <3>1, <3>4
  <2> DEFINE s == SplitStep(t, m, right)
  <2>9. s.pages = t /\ s.split = <<m, right>>
    BY DEF SplitStep
  <2> HIDE DEF s, right
  <2>10. s.split[2] = right
    BY <2>9
  <2>11. Chained(s, h)
    BY <2>1, <2>8, <2>9, <2>10 DEF Chained
  <2>12. QED
    BY <2>11 DEF s, t, right
<1>12. CASE row_id < m
  <2>1. row_id \in Under(R, m) /\ half = halves.left
    BY <1>9, <1>12 DEF Under, R
  <2>2. LeafOK(half) /\ LeafOrd(half, Under(R, m))
    BY <1>4, <1>5, <2>1
  <2> HIDE DEF half
  <2>3. LeafOK(put.leaf) /\ SameLinks(put.leaf, half) /\ LeafOrd(put.leaf, Under(R, m)) /\ put.leaf.records # <<>>
    <3>1. LeafOK(put.leaf) /\ SameLinks(put.leaf, half)
      BY <1>10, <2>2, InsertRecordOK
    <3>2. LeafOrd(put.leaf, Under(R, m))
      BY <1>10, <2>1, <2>2, InsertRecordOrd
    <3>3. put.leaf.records # <<>>
      BY <1>10, <2>1, <2>2, InsertedFilled
    <3>4. QED
      BY <3>1, <3>2, <3>3
  <2> HIDE DEF put
  <2>4. st = SplitStep(LinkedPages(pgs, leaf, put.leaf, halves.right), m, N + 1)
    BY <1>7, <1>10, <1>12
  <2>5. SameLinks(put.leaf, pgs[leaf])
    BY <1>6, <2>1, <2>3 DEF SameLinks
  <2>6. QED
    BY <1>4, <1>5, <1>11, <2>3, <2>4, <2>5 DEF st
<1>13. CASE ~(row_id < m)
  <2>1. row_id \in From(R, m) /\ half = halves.right
    BY <1>9, <1>13 DEF From, R
  <2>2. LeafOK(half) /\ LeafOrd(half, From(R, m))
    BY <1>4, <1>5, <2>1
  <2> HIDE DEF half
  <2>3. LeafOK(put.leaf) /\ LeafOrd(put.leaf, From(R, m)) /\ put.leaf.records # <<>>
    <3>1. LeafOK(put.leaf)
      BY <1>10, <2>2, InsertRecordOK
    <3>2. LeafOrd(put.leaf, From(R, m))
      BY <1>10, <2>1, <2>2, InsertRecordOrd
    <3>3. put.leaf.records # <<>>
      BY <1>10, <2>1, <2>2, InsertedFilled
    <3>4. QED
      BY <3>1, <3>2, <3>3
  <2> HIDE DEF put
  <2>4. st = SplitStep(LinkedPages(pgs, leaf, halves.left, put.leaf), m, N + 1)
    BY <1>7, <1>10, <1>13
  <2>5. QED
    BY <1>4, <1>5, <1>6, <1>11, <2>3, <2>4 DEF st
<1>14. QED
  BY <1>12, <1>13

\* insert_leaf keeps the chain, whether it inserts, compacts or splits.
LEMMA InsertLeafChain ==
    ASSUME NEW pgs, NEW h, TreeOK(pgs, h), NEW o, Owned(pgs, h, o), LeafChain(pgs),
           NEW leaf \in 1..Len(pgs), h[leaf] = 0,
           NEW row_id \in Keys, row_id \in o[leaf], NEW len \in Payloads,
           insert_leaf(pgs, leaf, row_id, len).res = "Ok"
    PROVE  Chained(insert_leaf(pgs, leaf, row_id, len), h)
<1> DEFINE R == o[leaf]
           c == compact(pgs[leaf])
           first == insert_record(pgs[leaf], row_id, len)
           again == insert_record(c, row_id, len)
           halved == split_leaf(pgs, leaf, row_id, len)
           st == insert_leaf(pgs, leaf, row_id, len)
<1>1. LeafOK(pgs[leaf]) /\ LeafOrd(pgs[leaf], R)
  <2>1. LeafOK(pgs[leaf])
    BY KindOf
  <2>2. QED
    BY <2>1 DEF Owned, NodeOrd
<1>2. LeafOK(c) /\ SameLinks(c, pgs[leaf]) /\ AllLive(c.records)
  BY <1>1, LeafParts, CompactOK
<1>3. LeafOrd(c, R) /\ Pairs(c.records) = Pairs(pgs[leaf].records)
  BY <1>1, LeafParts, CompactOrd
<1>4. /\ first.res = "Ok" => LeafOK(first.leaf) /\ SameLinks(first.leaf, pgs[leaf])
      /\ first.res = "PageFull" => len <= MAX_VALUE_SIZE
  BY <1>1, InsertRecordOK
<1>5. /\ first.res = "Ok" => LeafOrd(first.leaf, R)
      /\ len <= MAX_VALUE_SIZE => (first.res = "DuplicateKey" <=> Bound(Pairs(pgs[leaf].records), row_id))
  BY <1>1, InsertRecordOrd
<1>6. first.res = "Ok" => first.leaf.records # <<>>
  BY <1>1, InsertedFilled
<1>7. st = CASE first.res = "Ok" -> Done([pgs EXCEPT ![leaf] = first.leaf])
             [] first.res \notin {"Ok", "PageFull"} -> Failed(first.res, pgs)
             [] first.res = "PageFull" ->
                   IF again.res = "Ok" THEN Done([pgs EXCEPT ![leaf] = again.leaf]) ELSE halved
  BY DEF insert_leaf
<1>8. st.res = "Ok"
  OBVIOUS
\* The leaf is replaced by one with the new record.
<1>9. ASSUME NEW x, LeafOK(x), SameLinks(x, pgs[leaf]), LeafOrd(x, R), x.records # <<>>
      PROVE  Chained(Done([pgs EXCEPT ![leaf] = x]), h)
  <2> DEFINE t == [pgs EXCEPT ![leaf] = x]
  <2>1. LeafChain(t)
    BY <1>9, ReplaceChain
  <2> HIDE DEF t
  <2>2. Done(t).pages = t /\ Done(t).split = <<>>
    BY DEF Done
  <2>3. Chained(Done(t), h)
    BY <2>1, <2>2 DEF Chained
  <2>4. QED
    BY <2>3 DEF t
<1> HIDE DEF first, st
<1>10. CASE first.res = "Ok"
  <2>1. st = Done([pgs EXCEPT ![leaf] = first.leaf])
    BY <1>7, <1>10
  <2>2. QED
    BY <1>4, <1>5, <1>6, <1>9, <1>10, <2>1 DEF st
<1>11. CASE first.res \notin {"Ok", "PageFull"}
  BY <1>7, <1>8, <1>11 DEF Failed
<1>12. CASE first.res = "PageFull"
  <2>1. len <= MAX_VALUE_SIZE /\ ~Bound(Pairs(c.records), row_id)
    BY <1>3, <1>4, <1>5, <1>12
  <2> HIDE DEF c, R
  <2>2. /\ again.res = "Ok" => LeafOK(again.leaf) /\ SameLinks(again.leaf, c)
        /\ c.records = <<>> /\ len <= MAX_VALUE_SIZE => again.res = "Ok"
    BY <1>2, InsertRecordOK
  <2>3. /\ again.res = "Ok" => LeafOrd(again.leaf, R)
        /\ again.res = "DuplicateKey" <=> Bound(Pairs(c.records), row_id)
    BY <1>2, <1>3, <2>1, InsertRecordOrd DEF R
  <2>4. again.res = "Ok" => again.leaf.records # <<>>
    BY <1>2, <1>3, InsertedFilled DEF R
  <2>5. again.res \in {"Ok", "DuplicateKey", "PageFull"}
    BY <1>2, <2>1, InsertResults
  <2> HIDE DEF again
  <2>6. CASE again.res = "Ok"
    <3>1. st = Done([pgs EXCEPT ![leaf] = again.leaf])
      BY <1>7, <1>12, <2>6
    <3>2. SameLinks(again.leaf, pgs[leaf])
      BY <1>2, <2>2, <2>6 DEF SameLinks
    <3>3. QED
      BY <1>9, <2>2, <2>3, <2>4, <2>6, <3>1, <3>2 DEF st
  <2>7. CASE again.res # "Ok"
    <3>1. st = halved
      BY <1>7, <1>12, <2>7
    <3>2. again.res = "PageFull"
      BY <2>1, <2>3, <2>5, <2>7
    <3>3. c.records # <<>> /\ Len(c.records) # 1
      <4>1. c.records # <<>>
        BY <2>1, <2>2, <2>7
      <4>2. Len(c.records) # 1
        BY <1>2, <1>3, <2>1, <3>2, OneMoreFits DEF again
      <4>3. QED
        BY <4>1, <4>2
    <3>4. Len(c.records) > 1
      <4>1. c.records \in Seq(Records)
        BY <1>2, LeafParts
      <4> DEFINE k == Len(c.records)
      <4>2. k \in Nat /\ k # 0
        BY <3>3, <4>1
      <4>3. k # 1
        BY <3>3
      <4> HIDE DEF k
      <4>4. k > 1
        BY <4>2, <4>3
      <4>5. QED
        BY <4>4 DEF k
    <3>5. halved.res = "Ok"
      BY <1>8, <3>1
    <3>6. Chained(halved, h)
      BY <3>3, <3>4, <3>5, SplitLeafChain DEF c
    <3>7. QED
      BY <3>1, <3>6 DEF st
  <2>8. QED
    BY <2>6, <2>7
<1>13. QED
  BY <1>10, <1>11, <1>12

\* The same leaves.
Untouched(t, pgs) == LeafIds(t) = LeafIds(pgs) /\ \A p \in LeafIds(pgs) : t[p] = pgs[p]

\* A step that leaves the leaves alone keeps the chain.
LEMMA UntouchedChain ==
    ASSUME NEW pgs, LeafChain(pgs), NEW t, Untouched(t, pgs)
    PROVE  LeafChain(t)
<1> DEFINE S == LeafIds(pgs)
<1>1. LeafIds(t) = S /\ \A p \in S : t[p] = pgs[p]
  BY DEF Untouched
<1>2. Filled(pgs) /\ Links(pgs, S, LeafOrder(pgs))
  BY DEF LeafChain
<1>3. \A p, q \in S : <<p, q>> \in LeafOrder(t) <=> p # q /\ LeftOf(t[p].records, t[q].records)
  BY <1>1, LeafOrderIs
<1>4. \A p, q \in S : <<p, q>> \in LeafOrder(pgs) <=> p # q /\ LeftOf(pgs[p].records, pgs[q].records)
  BY LeafOrderIs
<1>5. Filled(t)
  BY <1>1, <1>2 DEF Filled
<1> HIDE DEF S
<1>6. SameOrder(LeafOrder(t), LeafOrder(pgs), S)
  BY <1>1, <1>3, <1>4, ZenonT(60) DEF SameOrder
<1>7. SameChain(t, pgs, S)
  BY <1>1 DEF SameChain
<1>8. Links(t, S, LeafOrder(t))
  BY <1>2, <1>6, <1>7, LinksAgree
<1>9. QED
  BY <1>1, <1>5, <1>8 DEF LeafChain

\* One level up, where there are no leaves.
LEMMA InternalUntouched ==
    ASSUME NEW pgs, NEW g, TreeOK(pgs, g), NEW d \in Nat,
           NEW parent \in 1..Len(pgs), g[parent] = d + 1,
           NEW key \in Keys, NEW child \in DOMAIN g, g[child] = d
    PROVE  Untouched(insert_internal(pgs, parent, key, child).pages, pgs)
<1> DEFINE N == Len(pgs)
           t == insert_internal(pgs, parent, key, child).pages
<1>1. DOMAIN pgs = 1..N /\ N \in Nat /\ N # 0 /\ parent \in 1..N /\ g[1] \in Nat /\ d + 1 <= g[1]
      /\ pgs \in Seq(Nodes)
  BY TreeParts
<1>2. \A q : q \in LeafIds(pgs) <=> q \in 1..N /\ g[q] = 0
  BY LeafIdsAre
<1>3. \A q \in LeafIds(pgs) : q # parent /\ q \in 1..N
  BY <1>2
<1>4. pgs = [q \in 1..N |-> pgs[q]]
  <2> HIDE DEF N
  <2>1. QED
    BY <1>1
<1>5. CASE ~InternalFull(pgs[parent])
  <2> DEFINE x == insert_entry(pgs[parent], key, child)
             u == [pgs EXCEPT ![parent] = x]
  <2>1. insert_internal(pgs, parent, key, child) = Done(u) /\ TreeOK(u, g)
    BY <1>5, InternalSteps
  <2>2. t = u
    BY <2>1 DEF Done
  <2> HIDE DEF x
  <2>3. DOMAIN u = 1..N /\ \A q \in 1..N : q # parent => u[q] = pgs[q]
    BY <1>1
  <2>4. \A q : q \in LeafIds(u) <=> q \in 1..Len(u) /\ g[q] = 0
    BY <2>1, LeafIdsAre
  <2>5. DOMAIN u = 1..Len(u)
    BY <2>1, TreeParts
  <2> HIDE DEF u, t
  <2>6. LeafIds(t) = LeafIds(pgs)
    BY <1>2, <2>2, <2>3, <2>4, <2>5
  <2>7. QED
    BY <1>3, <2>2, <2>3, <2>6 DEF Untouched, t
<1>6. CASE InternalFull(pgs[parent])
  <2> DEFINE f == Grow(g, N, d + 1)
             u == HalvedPages(pgs, parent, key, child)
             l == LeftHalf(pgs[parent], key, child)
             r == RightHalf(pgs[parent], key, child)
             v == [pgs EXCEPT ![parent] = l]
  <2>1. Halved(pgs, g, d, parent, key, child)
    BY <1>6, InternalSteps
  <2>2. t = u /\ TreeOK(u, f)
    BY <2>1 DEF Halved, SplitStep
  <2>3. u = Append(v, r)
    BY DEF HalvedPages
  <2>4. Heights(g, N)
    BY DEF TreeOK
  <2>5. \A q : q \in LeafIds(u) <=> q \in 1..Len(u) /\ f[q] = 0
    BY <2>2, LeafIdsAre
  <2>6. f[N + 1] = d + 1 /\ \A q \in 1..N : f[q] = g[q]
    <3> HIDE DEF N
    <3>1. QED
      BY <1>1, <2>4, GrowExtends
  <2> HIDE DEF l, r, N
  <2>7. v = [q \in 1..N |-> v[q]] /\ \A q \in 1..N : q # parent => v[q] = pgs[q]
    BY <1>1, <1>4
  <2> HIDE DEF v
  <2>8. Len(u) = N + 1 /\ \A q \in 1..N : u[q] = v[q]
    <3> HIDE DEF u
    <3>1. QED
      BY <1>1, <2>3, <2>7, AppendIs
  <2> HIDE DEF u, f, t
  <2>9. \A q : q \in 1..(N + 1) <=> q \in 1..N \/ q = N + 1
    BY <1>1
  <2>10. d + 1 # 0
    OBVIOUS
  <2>11. LeafIds(t) = LeafIds(pgs)
    BY <1>2, <2>2, <2>5, <2>6, <2>8, <2>9, <2>10
  <2>12. QED
    BY <1>3, <2>2, <2>7, <2>8, <2>11 DEF Untouched, t
<1>7. QED
  BY <1>5, <1>6

\* A step up of an insertion keeps the chain.
LEMMA UpChain ==
    ASSUME NEW st, NEW h, NEW d \in Nat, Rising(st, h, d), Chained(st, h),
           NEW parent \in DOMAIN h, h[parent] = d + 1, h[1] # 0
    PROVE  Chained(Up(parent, st), h)
<1>1. PICK g : TreeOK(st.pages, g) /\ Extends(g, h) /\ Pending(st.split, g, d)
  BY DEF Rising
<1>2. CASE st.split = <<>>
  BY <1>2 DEF Up
<1>3. CASE st.split # <<>>
  <2>1. PICK key \in Keys, child \in DOMAIN g : st.split = <<key, child>> /\ g[child] = d
    BY <1>1, <1>3 DEF Pending
  <2>2. st.split[1] = key /\ st.split[2] = child
    BY <2>1
  <2>3. Up(parent, st) = insert_internal(st.pages, parent, key, child)
    BY <1>3, <2>2 DEF Up
  <2>4. parent \in 1..Len(st.pages) /\ g[parent] = d + 1
    BY <1>1, TreeParts DEF Extends
  <2>5. Untouched(insert_internal(st.pages, parent, key, child).pages, st.pages)
    BY <1>1, <2>1, <2>4, InternalUntouched
  <2>6. LeafChain(Up(parent, st).pages)
    BY <2>3, <2>5, UntouchedChain DEF Chained
  <2>7. QED
    BY <2>6 DEF Chained
<1>4. QED
  BY <1>2, <1>3

\* The pages after a split of the root.
LEMMA RootSplitIs ==
    ASSUME NEW pgs, NEW g, TreeOK(pgs, g), NEW key, NEW right \in 1..Len(pgs), right # 1
    PROVE  LET t == split_root(pgs, key, right)
           IN  /\ t[Len(pgs) + 1] = pgs[1]
               /\ \A q \in 2..Len(pgs) : q # right => t[q] = pgs[q]
               /\ g[1] # 0 => t[right] = pgs[right]
               /\ g[1] = 0 => t[right] = [pgs[right] EXCEPT !.prev = Len(pgs) + 1]
<1> DEFINE N == Len(pgs)
           left == N + 1
           y == [pgs[right] EXCEPT !.prev = left]
           root == Internal(<<key>>, <<left, right>>)
           relinked == IF IsLeaf(pgs[1]) THEN [pgs EXCEPT ![right].prev = left] ELSE pgs
           u == [relinked EXCEPT ![1] = root]
           t == split_root(pgs, key, right)
<1>1. DOMAIN pgs = 1..N /\ 1 \in 1..N /\ right \in 1..N /\ N \in Nat /\ pgs \in Seq(Nodes)
  BY TreeParts
<1>2. pgs = [q \in 1..N |-> pgs[q]]
  <2> HIDE DEF N
  <2>1. QED
    BY <1>1
<1>3. IsLeaf(pgs[1]) <=> g[1] = 0
  BY <1>1, KindOf
<1>4. t = Append(u, pgs[1])
  BY DEF split_root, Root
<1> HIDE DEF N, left, root
<1>5. /\ relinked = [q \in 1..N |-> relinked[q]]
      /\ \A q \in 1..N : q # right => relinked[q] = pgs[q]
      /\ g[1] # 0 => relinked[right] = pgs[right]
      /\ g[1] = 0 => relinked[right] = y
  <2>1. CASE g[1] = 0
    <3>1. relinked = [pgs EXCEPT ![right] = y]
      BY <1>3, <2>1
    <3> HIDE DEF y, relinked
    <3>2. relinked = [q \in 1..N |-> IF q = right THEN y ELSE pgs[q]]
      BY <1>1, <1>2, <3>1
    <3>3. QED
      BY <1>1, <2>1, <3>2
  <2>2. CASE g[1] # 0
    <3>1. relinked = pgs
      BY <1>3, <2>2
    <3> HIDE DEF relinked
    <3>2. QED
      BY <1>1, <1>2, <2>2, <3>1
  <2>3. QED
    BY <2>1, <2>2
<1> HIDE DEF y, relinked
<1>6. u = [q \in 1..N |-> u[q]] /\ \A q \in 1..N : u[q] = IF q = 1 THEN root ELSE relinked[q]
  BY <1>1, <1>5
<1> HIDE DEF u
<1>7. t[N + 1] = pgs[1] /\ \A q \in 1..N : t[q] = u[q]
  <2> HIDE DEF t
  <2>1. QED
    BY <1>1, <1>4, <1>6, AppendIs
<1> HIDE DEF t
<1>8. \A q \in 1..N : q # 1 => t[q] = relinked[q]
  BY <1>6, <1>7
<1>9. \A q \in 2..N : q \in 1..N /\ q # 1
  BY <1>1
<1>10. /\ t[N + 1] = pgs[1]
       /\ \A q \in 2..N : q # right => t[q] = pgs[q]
       /\ g[1] # 0 => t[right] = pgs[right]
       /\ g[1] = 0 => t[right] = y
  BY <1>1, <1>5, <1>7, <1>8, <1>9
<1>11. QED
  BY <1>10 DEF t, N, y, left

\* The leaves after a split of the root: page 1 is none of them.
LEMMA RootLeaves ==
    ASSUME NEW pgs, NEW g, TreeOK(pgs, g), NEW key \in Keys,
           NEW right \in 1..Len(pgs), right # 1, g[right] = g[1], NEW q
    PROVE  q \in LeafIds(split_root(pgs, key, right)) <=>
              \/ q \in 2..Len(pgs) /\ g[q] = 0
              \/ q = Len(pgs) + 1 /\ g[1] = 0
<1> DEFINE N == Len(pgs)
           f == Raise(g, N)
           t == split_root(pgs, key, right)
<1>1. N \in Nat \ {0} /\ g[1] \in Nat
  BY TreeParts
<1>2. TreeOK(t, f)
  BY SplitRootOK
<1>3. q \in LeafIds(t) <=> q \in 1..Len(t) /\ f[q] = 0
  BY <1>2, LeafIdsAre
<1>4. DOMAIN f = 1..Len(t) /\ Len(t) \in Nat
  BY <1>2, TreeParts
<1>5. DOMAIN f = 1..(N + 1)
  BY DEF Raise
<1> HIDE DEF t, N
<1>6. \A p \in 1..(N + 1) : f[p] = IF p = N + 1 THEN g[1] ELSE IF p = 1 THEN g[1] + 1 ELSE g[p]
  BY DEF Raise
<1> HIDE DEF f
<1>7. q \in LeafIds(t) <=> q \in 1..(N + 1) /\ f[q] = 0
  BY <1>3, <1>4, <1>5
<1>8. q \in 1..(N + 1) <=> q = 1 \/ q \in 2..N \/ q = N + 1
  BY <1>1
<1>9. q \in 2..N => q # 1 /\ q # N + 1 /\ q \in 1..(N + 1)
  BY <1>1
<1>10. g[1] + 1 # 0 /\ 1 # N + 1 /\ 1 \in 1..(N + 1) /\ N + 1 \in 1..(N + 1)
  BY <1>1
<1>11. f[1] # 0 /\ f[N + 1] = g[1] /\ (q \in 2..N => f[q] = g[q])
  BY <1>6, <1>9, <1>10
<1>12. q \in LeafIds(t) <=> (q \in 2..N /\ g[q] = 0) \/ (q = N + 1 /\ g[1] = 0)
  BY <1>7, <1>8, <1>10, <1>11
<1>13. QED
  BY <1>12 DEF t, N

\* The chain of two leaves, the first of which moves from page 1 to page 3.
LEMMA TwoLeaves ==
    ASSUME NEW pgs, LeafChain(pgs), LeafIds(pgs) = {1, 2},
           <<1, 2>> \in LeafOrder(pgs), <<2, 1>> \notin LeafOrder(pgs),
           NEW t, LeafIds(t) = {2, 3}, t[3] = pgs[1],
           t[2].records = pgs[2].records, t[2].prev = 3, t[2].next = pgs[2].next
    PROVE  LeafChain(t)
<1> DEFINE S == LeafIds(pgs)
           L == LeafOrder(pgs)
           T == LeafIds(t)
           M == LeafOrder(t)
<1>1. S = {1, 2} /\ T = {2, 3}
  OBVIOUS
<1>2. \A p \in S : NextOK(pgs, S, L, p) /\ PrevOK(pgs, S, L, p)
  BY DEF LeafChain, Links
<1>3. /\ LeftOf(pgs[1].records, pgs[2].records) /\ ~LeftOf(pgs[2].records, pgs[1].records)
      /\ <<1, 1>> \notin L /\ <<2, 2>> \notin L
  BY <1>1, LeafOrderIs
<1>4. LeftOf(t[3].records, t[2].records) /\ ~LeftOf(t[2].records, t[3].records)
  BY <1>3
<1>5. \A p, q \in T : <<p, q>> \in M <=> p # q /\ LeftOf(t[p].records, t[q].records)
  BY LeafOrderIs
<1>6. pgs[1].records # <<>> /\ pgs[2].records # <<>>
  <2>1. pgs[2].records # <<>>
    BY <1>1 DEF LeafChain, Filled
  <2>2. PICK x : x \in ToSet(pgs[1].records)
    BY <1>3 DEF LeftOf
  <2>3. QED
    BY <2>1, <2>2 DEF ToSet
<1> HIDE DEF S, L, T, M
<1>7. <<3, 2>> \in M /\ <<2, 3>> \notin M /\ <<2, 2>> \notin M /\ <<3, 3>> \notin M
  BY <1>1, <1>4, <1>5
<1>8. <<1, 2>> \in L /\ <<2, 1>> \notin L
  BY DEF L
<1>9. pgs[1].next = 2
  BY <1>1, <1>2, <1>3, <1>8 DEF NextOK
<1>10. pgs[2].next = 0
  BY <1>1, <1>2, <1>3, <1>8 DEF NextOK
<1>11. pgs[1].prev = 0
  BY <1>1, <1>2, <1>9, <1>10 DEF PrevOK
<1>12. t[3].next = 2 /\ t[3].prev = 0 /\ t[2].next = 0 /\ t[2].prev = 3
  BY <1>9, <1>10, <1>11
<1>13. NextOK(t, T, M, 3) /\ PrevOK(t, T, M, 3)
  BY <1>1, <1>7, <1>12 DEF NextOK, PrevOK
<1>14. NextOK(t, T, M, 2) /\ PrevOK(t, T, M, 2)
  BY <1>1, <1>7, <1>12 DEF NextOK, PrevOK
<1>15. Links(t, T, M)
  BY <1>1, <1>13, <1>14 DEF Links
<1>16. Filled(t)
  <2>1. \A p \in T : t[p].records # <<>>
    BY <1>1, <1>6
  <2>2. QED
    BY <2>1 DEF Filled, T
<1>17. QED
  BY <1>15, <1>16 DEF LeafChain, T, M

\* split_root keeps the chain: a leaf that moves from the root page is relinked.
LEMMA RootChain ==
    ASSUME NEW st, NEW h, 1 \in DOMAIN h, Rising(st, h, h[1]), Chained(st, h)
    PROVE  LeafChain(AtRoot(st).pages)
<1>1. PICK g : TreeOK(st.pages, g) /\ Extends(g, h) /\ Pending(st.split, g, h[1])
  BY DEF Rising
<1>2. CASE st.split = <<>>
  BY <1>2 DEF AtRoot, Chained
<1>3. CASE st.split # <<>>
  <2>1. PICK key \in Keys, child \in DOMAIN g : st.split = <<key, child>> /\ g[child] = h[1] /\ child # 1
    BY <1>1, <1>3 DEF Pending
  <2>2. st.split[1] = key /\ st.split[2] = child
    BY <2>1
  <2> DEFINE pgs == st.pages
             t == split_root(pgs, key, child)
  <2>3. AtRoot(st) = Done(t)
    BY <1>3, <2>2 DEF AtRoot
  <2>4. AtRoot(st).pages = t
    BY <2>3 DEF Done
  <2>5. g[1] = h[1]
    BY <1>1 DEF Extends
  <2>6. child \in 1..Len(pgs) /\ Len(pgs) \in Nat /\ 1 \in 1..Len(pgs)
    BY <1>1, <2>1, TreeParts
  <2>7. \A q : q \in LeafIds(t) <=> \/ q \in 2..Len(pgs) /\ g[q] = 0
                                    \/ q = Len(pgs) + 1 /\ g[1] = 0
    BY <1>1, <2>1, <2>5, <2>6, RootLeaves
  <2>8. /\ t[Len(pgs) + 1] = pgs[1]
        /\ \A q \in 2..Len(pgs) : q # child => t[q] = pgs[q]
        /\ g[1] # 0 => t[child] = pgs[child]
        /\ g[1] = 0 => t[child] = [pgs[child] EXCEPT !.prev = Len(pgs) + 1]
    BY <1>1, <2>1, <2>6, RootSplitIs
  <2>9. \A q : q \in LeafIds(pgs) <=> q \in 1..Len(pgs) /\ g[q] = 0
    BY <1>1, LeafIdsAre
  <2>10. LeafChain(pgs)
    BY DEF Chained
  <2>11. child \in 1..Len(pgs) => LeafOK(pgs[child]) \/ g[child] # 0
    BY <1>1, KindOf
  <2>12. CASE g[1] # 0
    <3> DEFINE N == Len(pgs)
    <3>1. \A q : q \in 1..N <=> q = 1 \/ q \in 2..N
      BY <2>6
    <3> HIDE DEF t, pgs, N
    <3>2. \A q : q \in LeafIds(t) <=> q \in LeafIds(pgs)
      BY <2>7, <2>9, <2>12, <3>1 DEF N
    <3>3. ASSUME NEW q \in LeafIds(pgs) PROVE t[q] = pgs[q]
      <4>1. q \in 2..Len(pgs)
        BY <2>9, <2>12, <3>1 DEF N
      <4>2. QED
        BY <2>8, <2>12, <4>1
    <3>4. Untouched(t, pgs)
      BY <3>2, <3>3 DEF Untouched
    <3>5. QED
      BY <2>4, <2>10, <3>4, UntouchedChain DEF pgs
  <2>13. CASE g[1] = 0
    <3>1. /\ Len(pgs) = 2 /\ child = 2 /\ LeafIds(pgs) = {1, 2}
          /\ <<1, 2>> \in LeafOrder(pgs) /\ <<2, 1>> \notin LeafOrder(pgs)
      BY <1>3, <2>2, <2>5, <2>13 DEF Chained
    <3>2. LeafOK(pgs[2]) /\ g[2] = 0
      BY <2>1, <2>5, <2>6, <2>11, <2>13, <3>1
    <3> HIDE DEF t, pgs
    <3>3. t[3] = pgs[1] /\ t[2] = [pgs[2] EXCEPT !.prev = 3]
      BY <2>8, <2>13, <3>1
    <3>4. t[2].prev = 3 /\ t[2].next = pgs[2].next
      BY <3>2, <3>3, RelinkPrev
    <3>5. t[2].records = pgs[2].records
      BY <3>2, <3>3, RelinkRecords
    <3>6. LeafIds(t) = {2, 3}
      <4>1. \A q : q \in 2..2 <=> q = 2
        OBVIOUS
      <4>2. \A q : q \in LeafIds(t) <=> q = 2 \/ q = 3
        BY <2>7, <2>13, <3>1, <3>2, <4>1
      <4>3. QED
        BY <4>2
    <3>7. LeafChain(t)
      BY <2>10, <3>1, <3>3, <3>4, <3>5, <3>6, TwoLeaves
    <3>8. QED
      BY <2>4, <3>7
  <2>14. QED
    BY <2>12, <2>13
<1>4. QED
  BY <1>2, <1>3

\* An insertion that succeeds keeps the chain.
LEMMA InsertChain ==
    ASSUME NEW pgs, NEW h, TreeOK(pgs, h), NEW o, Owned(pgs, h, o), LeafChain(pgs),
           NEW row_id \in Keys, NEW len \in Payloads, insert(pgs, row_id, len).res = "Ok"
    PROVE  LeafChain(insert(pgs, row_id, len).pages)
<1> DEFINE leaf == LeafFor(pgs, row_id)
           path == PathTo(pgs, row_id)
           inserted == insert_leaf(pgs, leaf, row_id, len)
           st == insert(pgs, row_id, len)
           H == h[1]
<1>1. DOMAIN h = 1..Len(pgs) /\ 1 \in DOMAIN h /\ H \in Nat /\ \A p \in DOMAIN h : h[p] \in Nat /\ h[p] <= H
  BY TreeParts
<1>2. row_id \in Int
  BY KeyInt
<1>3. leaf \in 1..Len(pgs) /\ h[leaf] = 0 /\ row_id \in o[leaf]
  BY <1>2, LeafOwned
<1>4. IsPath(path, h, 1)
  BY PathOK DEF Root
<1>5. st = propagate(path, inserted) /\ st.res = "Ok"
  BY DEF insert
<1> HIDE DEF leaf, path
<1>6. Rising(inserted, h, 0) /\ inserted \in States
  BY <1>3, InsertLeafOK DEF Rising
<1>7. inserted.res # "Ok" => inserted.split = <<>>
  BY <1>3, InsertLeafOrd
<1>8. inserted.res = "Ok" => Chained(inserted, h)
  BY <1>3, InsertLeafChain
<1> HIDE DEF inserted, H, st
<1>9. Len(path) = H + 1 /\ \A i \in 1..(H + 1) : path[i] \in DOMAIN h /\ h[path[i]] = H - (i - 1)
  <2>1. Len(path) = H + 1 /\ \A i \in 1..Len(path) : h[path[i]] = H - (i - 1)
    BY <1>4 DEF IsPath, H
  <2>2. path \in Seq(DOMAIN h)
    BY <1>4 DEF IsPath
  <2>3. \A i \in 1..Len(path) : path[i] \in DOMAIN h
    BY <2>2
  <2>4. QED
    BY <2>1, <2>3
<1>10. CASE inserted.res = "Ok"
  <2> DEFINE Q == [k \in 0..H |-> {v \in States : Rising(v, h, k) /\ Chained(v, h)}]
  <2>1. Q \in [0..H -> SUBSET States] /\ \A k \in 0..H : \A v : v \in Q[k] <=> Rising(v, h, k) /\ Chained(v, h)
    BY DEF Rising
  <2> HIDE DEF Q
  <2>2. inserted \in Q[0]
    BY <1>1, <1>6, <1>8, <1>10, <2>1
  <2>3. ASSUME NEW k \in 1..H, NEW v \in Q[k - 1] PROVE Up(path[(H + 1) - k], v) \in Q[k]
    <3> DEFINE p == path[(H + 1) - k]
    <3>1. (H + 1) - k \in 1..(H + 1) /\ H - (((H + 1) - k) - 1) = k /\ k - 1 \in 0..H /\ k - 1 \in Nat
          /\ k \in 0..H /\ (k - 1) + 1 = k /\ H # 0
      BY <1>1
    <3>2. p \in DOMAIN h /\ h[p] = (k - 1) + 1
      BY <1>9, <3>1
    <3>3. Rising(v, h, k - 1) /\ Chained(v, h)
      BY <2>1, <2>3, <3>1
    <3> HIDE DEF p
    <3>4. Rising(Up(p, v), h, (k - 1) + 1)
      BY <3>1, <3>2, <3>3, UpOK
    <3>5. Chained(Up(p, v), h)
      BY <3>1, <3>2, <3>3, UpChain DEF H
    <3>6. Up(p, v) \in Q[k]
      BY <2>1, <3>1, <3>4, <3>5
    <3>7. QED
      BY <3>6 DEF p
  <2>4. CarriedUp(path, Q, H)
    BY <2>3 DEF CarriedUp
  <2>5. PICK v \in Q[H] : propagate(path, inserted) = AtRoot(v)
    <3>1. H \in Nat /\ Len(path) = H + 1 /\ Q \in [0..H -> SUBSET States]
      BY <1>1, <1>9, <2>1
    <3>2. QED
      BY <2>2, <2>4, <3>1, PropagateUp
  <2>6. Rising(v, h, h[1]) /\ Chained(v, h)
    <3>1. H \in 0..H
      BY <1>1
    <3>2. Rising(v, h, H) /\ Chained(v, h)
      BY <2>1, <3>1
    <3>3. QED
      BY <3>2 DEF H
  <2>7. LeafChain(st.pages)
    BY <1>1, <1>5, <2>5, <2>6, RootChain
  <2>8. QED
    BY <2>7 DEF st
<1>11. CASE inserted.res # "Ok"
  <2> DEFINE Q == [k \in 0..H |-> {inserted}]
  <2>1. Q \in [0..H -> SUBSET States] /\ \A k \in 0..H : Q[k] = {inserted}
    BY <1>6
  <2> HIDE DEF Q
  <2>2. inserted \in Q[0] /\ H \in 0..H
    BY <1>1, <2>1
  <2>3. ASSUME NEW k \in 1..H, NEW v \in Q[k - 1] PROVE Up(path[(H + 1) - k], v) \in Q[k]
    <3>1. k - 1 \in 0..H /\ k \in 0..H
      BY <1>1
    <3>2. v = inserted
      BY <2>1, <2>3, <3>1
    <3>3. Up(path[(H + 1) - k], v) = inserted
      BY <1>7, <1>11, <3>2 DEF Up
    <3>4. QED
      BY <2>1, <3>1, <3>3
  <2>4. CarriedUp(path, Q, H)
    BY <2>3 DEF CarriedUp
  <2>5. PICK v \in Q[H] : propagate(path, inserted) = AtRoot(v)
    <3>1. H \in Nat /\ Len(path) = H + 1 /\ Q \in [0..H -> SUBSET States]
      BY <1>1, <1>9, <2>1
    <3>2. QED
      BY <2>2, <2>4, <3>1, PropagateUp
  <2>6. v = inserted
    BY <2>1, <2>2, <2>5
  <2>7. st = inserted
    BY <1>5, <1>7, <1>11, <2>5, <2>6 DEF AtRoot
  <2>8. QED
    BY <1>5, <1>11, <2>7
<1>12. QED
  BY <1>10, <1>11

\* A leaf with as many records is as full.
LEMMA SameSlots ==
    ASSUME NEW S, NEW r \in Seq(S), NEW i \in 1..Len(r), NEW e
    PROVE  [r EXCEPT ![i] = e] # <<>>
<1>1. i \in DOMAIN r
  OBVIOUS
<1>2. i \in DOMAIN [r EXCEPT ![i] = e]
  BY <1>1
<1>3. DOMAIN <<>> = {}
  OBVIOUS
<1>4. QED
  BY <1>2, <1>3

\* delete_record leaves a tombstone, so the leaf is not emptied.
LEMMA DeletedFilled ==
    ASSUME NEW leaf, LeafOK(leaf), NEW row_id \in Keys, delete_record(leaf, row_id).res = "Ok"
    PROVE  delete_record(leaf, row_id).leaf.records # <<>>
<1> DEFINE r == leaf.records
           i == SlotOf(r, row_id)
           e == [r[i] EXCEPT !.is_deleted = TRUE]
<1>1. r \in Seq(Records)
  BY LeafParts
<1>2. HasKey(r, row_id)
  BY DEF delete_record, Err
<1>3. i \in 1..Len(r)
  BY <1>1, <1>2, Found
<1>4. delete_record(leaf, row_id).leaf.records = [r EXCEPT ![i] = e]
  BY <1>2 DEF delete_record, Ok, LeafOK, LeafNodes
<1> HIDE DEF r, i, e
<1>5. [r EXCEPT ![i] = e] # <<>>
  BY <1>1, <1>3, SameSlots
<1>6. QED
  BY <1>4, <1>5

\* update_record keeps the slot, so the leaf is not emptied.
LEMMA UpdatedFilled ==
    ASSUME NEW leaf, LeafOK(leaf), NEW row_id \in Keys, NEW len \in Payloads,
           update_record(leaf, row_id, len).res = "Ok"
    PROVE  update_record(leaf, row_id, len).leaf.records # <<>>
<1> DEFINE r == leaf.records
           i == SlotOf(r, row_id)
           e == [r[i] EXCEPT !.len = len]
           diff == len - r[i].len
<1>1. r \in Seq(Records)
  BY LeafParts
<1>2. /\ HasKey(r, row_id)
      /\ update_record(leaf, row_id, len) = Ok([leaf EXCEPT !.records[i].len = len, !.free_size = @ - diff])
  BY DEF update_record, Err
<1>3. i \in 1..Len(r)
  BY <1>1, <1>2, Found
<1>4. update_record(leaf, row_id, len).leaf.records = [r EXCEPT ![i] = e]
  <2>1. update_record(leaf, row_id, len).leaf = [leaf EXCEPT !.records[i].len = len, !.free_size = @ - diff]
    BY <1>2 DEF Ok
  <2> HIDE DEF diff, i
  <2>2. [leaf EXCEPT !.records[i].len = len, !.free_size = @ - diff]
          = [leaf EXCEPT !.records = [r EXCEPT ![i] = e], !.free_size = leaf.free_size - diff]
    OBVIOUS
  <2>3. leaf \in LeafNodes
    BY DEF LeafOK
  <2> DEFINE s == [r EXCEPT ![i] = e]
             fs == leaf.free_size - diff
  <2> HIDE DEF s, fs, e
  <2>4. [leaf EXCEPT !.records = s, !.free_size = fs].records = s
    BY <2>3 DEF LeafNodes
  <2>5. QED
    BY <2>1, <2>2, <2>4 DEF s, fs
<1> HIDE DEF r, i, e
<1>5. [r EXCEPT ![i] = e] # <<>>
  BY <1>1, <1>3, SameSlots
<1>6. QED
  BY <1>4, <1>5

\* A deletion keeps the chain.
LEMMA DeleteChain ==
    ASSUME NEW pgs, NEW h, TreeOK(pgs, h), NEW o, Owned(pgs, h, o), LeafChain(pgs), NEW row_id \in Keys
    PROVE  LeafChain(delete(pgs, row_id).pages)
<1> DEFINE leaf == LeafFor(pgs, row_id)
           del == delete_record(pgs[leaf], row_id)
           st == delete(pgs, row_id)
<1>1. row_id \in Int
  BY KeyInt
<1>2. /\ leaf \in 1..Len(pgs) /\ h[leaf] = 0 /\ LeafOK(pgs[leaf]) /\ LeafOrd(pgs[leaf], o[leaf])
  BY <1>1, LeafOwned
<1>3. st = IF del.res = "Ok" THEN Done([pgs EXCEPT ![leaf] = del.leaf]) ELSE Failed(del.res, pgs)
  BY DEF delete
<1> HIDE DEF leaf
<1>4. del.res = "Ok" => /\ LeafOK(del.leaf) /\ SameLinks(del.leaf, pgs[leaf])
                        /\ LeafOrd(del.leaf, o[leaf]) /\ del.leaf.records # <<>>
  BY <1>2, DeleteRecordOK, DeleteRecordOrd, DeletedFilled
<1> HIDE DEF del, st
<1>5. CASE del.res = "Ok"
  <2>1. st.pages = [pgs EXCEPT ![leaf] = del.leaf]
    BY <1>3, <1>5 DEF Done
  <2>2. LeafChain([pgs EXCEPT ![leaf] = del.leaf])
    BY <1>2, <1>4, <1>5, ReplaceChain
  <2>3. QED
    BY <2>1, <2>2 DEF st
<1>6. CASE del.res # "Ok"
  BY <1>3, <1>6 DEF Failed, st
<1>7. QED
  BY <1>5, <1>6

\* An update keeps the chain, in place or as a deletion and an insertion.
LEMMA UpdateChain ==
    ASSUME NEW pgs, NEW h, TreeOK(pgs, h), NEW o, Owned(pgs, h, o), LeafChain(pgs),
           NEW row_id \in Keys, NEW len \in Payloads, update(pgs, row_id, len).res = "Ok"
    PROVE  LeafChain(update(pgs, row_id, len).pages)
<1> DEFINE leaf == LeafFor(pgs, row_id)
           up == update_record(pgs[leaf], row_id, len)
           del == delete_record(pgs[leaf], row_id)
           without == [pgs EXCEPT ![leaf] = del.leaf]
           moved == insert(without, row_id, len)
           st == update(pgs, row_id, len)
<1>1. row_id \in Int
  BY KeyInt
<1>2. /\ leaf \in 1..Len(pgs) /\ h[leaf] = 0 /\ LeafOK(pgs[leaf]) /\ LeafOrd(pgs[leaf], o[leaf])
  BY <1>1, LeafOwned
<1>3. /\ st.res = "Ok"
      /\ st = CASE up.res = "Ok" -> Done([pgs EXCEPT ![leaf] = up.leaf])
                [] up.res = "PageFull" -> IF moved.res = "Ok" THEN moved ELSE Failed(moved.res, pgs)
                [] up.res \notin {"Ok", "PageFull"} -> Failed(up.res, pgs)
  BY DEF update
<1> HIDE DEF leaf
<1>4. /\ up.res = "Ok" => LeafOK(up.leaf) /\ SameLinks(up.leaf, pgs[leaf])
      /\ up.res = "PageFull" => HasKey(pgs[leaf].records, row_id)
  BY <1>2, UpdateRecordOK
<1>5. up.res = "Ok" => LeafOrd(up.leaf, o[leaf]) /\ up.leaf.records # <<>>
  BY <1>2, UpdateRecordOrd, UpdatedFilled
<1>6. HasKey(pgs[leaf].records, row_id) =>
        /\ LeafOK(del.leaf) /\ SameLinks(del.leaf, pgs[leaf])
        /\ LeafOrd(del.leaf, o[leaf]) /\ del.leaf.records # <<>>
  BY <1>2, DeleteRecordOK, DeleteRecordOrd, DeletedFilled
<1> HIDE DEF up, del, st
<1>7. CASE up.res = "Ok"
  <2>1. st.pages = [pgs EXCEPT ![leaf] = up.leaf]
    BY <1>3, <1>7 DEF Done
  <2>2. LeafChain([pgs EXCEPT ![leaf] = up.leaf])
    BY <1>2, <1>4, <1>5, <1>7, ReplaceChain
  <2>3. QED
    BY <2>1, <2>2 DEF st
<1>8. CASE up.res = "PageFull"
  <2>1. LeafOK(del.leaf) /\ SameLinks(del.leaf, pgs[leaf]) /\ LeafOrd(del.leaf, o[leaf]) /\ del.leaf.records # <<>>
    BY <1>4, <1>6, <1>8
  <2>2. TreeOK(without, h)
    BY <1>2, <2>1, ReplaceLeaf
  <2>3. Owned(without, h, o)
    BY <1>2, <2>1, ReplaceOrd
  <2>4. LeafChain(without)
    BY <1>2, <2>1, ReplaceChain
  <2> HIDE DEF without
  <2>5. moved.res = "Ok" => LeafChain(moved.pages)
    BY <2>2, <2>3, <2>4, InsertChain
  <2> HIDE DEF moved
  <2>6. st = IF moved.res = "Ok" THEN moved ELSE Failed(moved.res, pgs)
    BY <1>3, <1>8
  <2>7. moved.res = "Ok"
    BY <1>3, <2>6 DEF Failed
  <2>8. QED
    BY <2>5, <2>6, <2>7 DEF st
<1>9. CASE up.res \notin {"Ok", "PageFull"}
  BY <1>3, <1>9 DEF Failed
<1>10. QED
  BY <1>7, <1>8, <1>9

\* encode and decode keep the chain.
LEMMA ReloadChain ==
    ASSUME NEW pgs, NEW h, TreeOK(pgs, h), LeafChain(pgs), NEW p \in DOMAIN pgs
    PROVE  LeafChain([pgs EXCEPT ![p] = decode_encode(pgs[p])])
<1> DEFINE x == decode_encode(pgs[p])
           t == [pgs EXCEPT ![p] = x]
           S == LeafIds(pgs)
<1>1. IsLeaf(x) <=> IsLeaf(pgs[p])
  BY DEF decode_encode, Leaf, IsLeaf
<1>2. IsLeaf(pgs[p]) => x.records = pgs[p].records /\ x.prev = pgs[p].prev /\ x.next = pgs[p].next
  BY DEF decode_encode, Leaf
<1>3. ~IsLeaf(pgs[p]) => x = pgs[p]
  BY DEF decode_encode
<1> HIDE DEF x
<1>4. DOMAIN t = DOMAIN pgs /\ \A q \in DOMAIN pgs : t[q] = IF q = p THEN x ELSE pgs[q]
  OBVIOUS
<1> HIDE DEF t
<1>5. LeafIds(t) = S
  BY <1>1, <1>4 DEF LeafIds
<1>6. \A q \in S : t[q].records = pgs[q].records /\ t[q].prev = pgs[q].prev /\ t[q].next = pgs[q].next
  BY <1>2, <1>3, <1>4 DEF LeafIds
<1>7. Filled(pgs) /\ Links(pgs, S, LeafOrder(pgs))
  BY DEF LeafChain
<1>8. \A a, b \in S : <<a, b>> \in LeafOrder(t) <=> a # b /\ LeftOf(t[a].records, t[b].records)
  BY <1>5, LeafOrderIs
<1>9. \A a, b \in S : <<a, b>> \in LeafOrder(pgs) <=> a # b /\ LeftOf(pgs[a].records, pgs[b].records)
  BY LeafOrderIs
<1>10. Filled(t)
  BY <1>5, <1>6, <1>7 DEF Filled
<1> HIDE DEF S
<1>11. SameOrder(LeafOrder(t), LeafOrder(pgs), S)
  BY <1>6, <1>8, <1>9 DEF SameOrder
<1>12. SameChain(t, pgs, S)
  BY <1>6 DEF SameChain
<1>13. Links(t, S, LeafOrder(t))
  BY <1>7, <1>11, <1>12, LinksAgree
<1>14. LeafChain(t)
  BY <1>5, <1>10, <1>13 DEF LeafChain
<1>15. QED
  BY <1>14 DEF t, x

-----------------------------------------------------------------------------
(* The invariant. *)

\* The inductive invariant: a tree in order whose leaves form a chain.
ChainInv == OrderInv /\ LeafChain(pages)

\* The empty tree has a chain of one leaf.
LEMMA InitChain == Init => LeafChain(pages)
<1> SUFFICES ASSUME Init PROVE LeafChain(pages)
  OBVIOUS
<1>1. pages = <<new_empty>> /\ new_empty = Leaf(<<>>, 0, 0)
  BY DEF Init, new_empty, None
<1>2. Leaf(<<>>, 0, 0).next = 0 /\ Leaf(<<>>, 0, 0).prev = 0 /\ IsLeaf(Leaf(<<>>, 0, 0))
  BY DEF Leaf, IsLeaf
<1>3. DOMAIN pages = {1} /\ pages[1].next = 0 /\ pages[1].prev = 0 /\ IsLeaf(pages[1])
  <2>1. DOMAIN <<new_empty>> = {1} /\ <<new_empty>>[1] = new_empty
    OBVIOUS
  <2>2. QED
    BY <1>1, <1>2, <2>1
<1>4. \A p : p \in LeafIds(pages) <=> p = 1
  BY <1>3 DEF LeafIds
<1>5. <<1, 1>> \notin LeafOrder(pages)
  BY <1>4, LeafOrderIs
<1>6. Filled(pages)
  BY <1>4 DEF Filled
<1>7. Links(pages, LeafIds(pages), LeafOrder(pages))
  BY <1>3, <1>4, <1>5 DEF Links, NextOK, PrevOK
<1>8. QED
  BY <1>6, <1>7 DEF LeafChain

\* Every step keeps the chain.
LEMMA NextChain == ChainInv /\ [Next]_pages => LeafChain(pages)'
<1> SUFFICES ASSUME ChainInv, [Next]_pages PROVE LeafChain(pages)'
  OBVIOUS
<1>1. PICK h, o : TreeOK(pages, h) /\ Owned(pages, h, o)
  BY DEF ChainInv, OrderInv, InOrder
<1>2. LeafChain(pages)
  BY DEF ChainInv
<1>3. LeafChain(pages') => LeafChain(pages)'
  OBVIOUS
<1>4. ASSUME NEW row_id \in Keys, NEW len \in Payloads, Insert(row_id, len)
      PROVE  LeafChain(pages')
  <2>1. insert(pages, row_id, len).res = "Ok" /\ pages' = insert(pages, row_id, len).pages
    BY <1>4 DEF Insert, Succeeds
  <2>2. QED
    BY <1>1, <1>2, <2>1, InsertChain
<1>5. ASSUME NEW row_id \in Keys, NEW len \in Payloads, Update(row_id, len)
      PROVE  LeafChain(pages')
  <2>1. update(pages, row_id, len).res = "Ok" /\ pages' = update(pages, row_id, len).pages
    BY <1>5 DEF Update, Succeeds
  <2>2. QED
    BY <1>1, <1>2, <2>1, UpdateChain
<1>6. ASSUME NEW row_id \in Keys, Delete(row_id)
      PROVE  LeafChain(pages')
  <2>1. pages' = delete(pages, row_id).pages
    BY <1>6 DEF Delete, Succeeds
  <2>2. QED
    BY <1>1, <1>2, <2>1, DeleteChain
<1>7. ASSUME NEW p \in DOMAIN pages, Reload(p)
      PROVE  LeafChain(pages')
  <2>1. pages' = [pages EXCEPT ![p] = decode_encode(pages[p])]
    BY <1>7 DEF Reload
  <2>2. QED
    BY <1>1, <1>2, <2>1, ReloadChain
<1>8. CASE UNCHANGED pages
  BY <1>2, <1>8
<1>9. QED
  BY <1>3, <1>4, <1>5, <1>6, <1>7, <1>8 DEF Next

\* Every reachable tree is in order and its sibling links are the chain of its
\* leaves in the order of their keys, with no leaf but the root's empty:
\* the links that split_leaf and split_root set are right in both directions.
THEOREM ChainInvariant == Spec => []ChainInv
<1>1. Init => ChainInv
  BY InitOrd, InitChain DEF ChainInv
<1>2. ChainInv /\ [Next]_pages => ChainInv'
  BY NextOrd, NextChain DEF ChainInv
<1>3. QED
  BY <1>1, <1>2, PTL DEF Spec


-----------------------------------------------------------------------------
(* Sequences put together from sequences. *)

\* s goes up in the relation L.
Sorted(s, L) == \A i, j \in 1..Len(s) : i < j => <<s[i], s[j]>> \in L

\* Membership in a sequence by places.
LEMMA InSeq ==
    ASSUME NEW T, NEW s \in Seq(T), NEW x
    PROVE  x \in ToSet(s) <=> \E i \in 1..Len(s) : x = s[i]
<1>1. DOMAIN s = 1..Len(s)
  OBVIOUS
<1>2. QED
  BY <1>1 DEF ToSet

\* Everything in r comes before everything in s.
Before(r, s, L) == \A x \in ToSet(r), y \in ToSet(s) : <<x, y>> \in L

\* t holds what r and s hold.
Joins(t, r, s) == \A x : x \in ToSet(t) <=> x \in ToSet(r) \/ x \in ToSet(s)

\* A concatenation place by place.
LEMMA ConcatIs ==
    ASSUME NEW T, NEW r \in Seq(T), NEW s \in Seq(T), NEW a, a = Len(r), NEW b, b = Len(s)
    PROVE  /\ r \o s \in Seq(T) /\ Len(r \o s) = a + b /\ a \in Nat /\ b \in Nat
           /\ \A i \in 1..a : (r \o s)[i] = r[i]
           /\ \A i \in 1..b : (r \o s)[a + i] = s[i]
<1>1. r \o s \in Seq(T) /\ Len(r \o s) = Len(r) + Len(s)
      /\ \A i \in 1..(Len(r) + Len(s)) : (r \o s)[i] = IF i <= Len(r) THEN r[i] ELSE s[i - Len(r)]
  BY ConcatProperties
<1>2. a \in Nat /\ b \in Nat
  OBVIOUS
<1> DEFINE t == r \o s
<1>3. Len(t) = a + b /\ \A i \in 1..(a + b) : t[i] = IF i <= a THEN r[i] ELSE s[i - a]
  BY <1>1
<1> HIDE DEF t
<1>4. ASSUME NEW i \in 1..a PROVE t[i] = r[i]
  <2>1. i \in 1..(a + b) /\ i <= a
    BY <1>2
  <2>2. QED
    BY <1>3, <2>1
<1>5. ASSUME NEW i \in 1..b PROVE t[a + i] = s[i]
  <2>1. a + i \in 1..(a + b) /\ ~(a + i <= a) /\ (a + i) - a = i
    BY <1>2
  <2>2. QED
    BY <1>3, <2>1
<1>6. QED
  BY <1>1, <1>2, <1>3, <1>4, <1>5 DEF t

\* Two sorted sequences, one before the other, make a sorted sequence.
LEMMA ConcatSorted ==
    ASSUME NEW T, NEW L, NEW r \in Seq(T), NEW s \in Seq(T), Sorted(r, L), Sorted(s, L), Before(r, s, L)
    PROVE  r \o s \in Seq(T) /\ Sorted(r \o s, L) /\ Joins(r \o s, r, s)
<1> DEFINE a == Len(r)
           b == Len(s)
           t == r \o s
<1>1. /\ t \in Seq(T) /\ Len(t) = a + b /\ a \in Nat /\ b \in Nat
      /\ \A i \in 1..a : t[i] = r[i]
      /\ \A i \in 1..b : t[a + i] = s[i]
  BY ConcatIs
<1>2. /\ \A i, j \in 1..a : i < j => <<r[i], r[j]>> \in L
      /\ \A i, j \in 1..b : i < j => <<s[i], s[j]>> \in L
  BY DEF Sorted
<1>3. /\ \A x : x \in ToSet(r) <=> \E i \in 1..a : x = r[i]
      /\ \A x : x \in ToSet(s) <=> \E i \in 1..b : x = s[i]
      /\ \A x : x \in ToSet(t) <=> \E i \in 1..Len(t) : x = t[i]
  BY <1>1, InSeq
<1> HIDE DEF a, b, t
<1>4. \A i \in 1..(a + b) : i \in 1..a \/ (i - a \in 1..b /\ a + (i - a) = i /\ ~(i \in 1..a))
  BY <1>1
<1>5. ASSUME NEW i \in 1..(a + b), NEW j \in 1..(a + b), i < j PROVE <<t[i], t[j]>> \in L
  <2>1. CASE i \in 1..a /\ j \in 1..a
    BY <1>1, <1>2, <1>5, <2>1
  <2>2. CASE i \in 1..a /\ ~(j \in 1..a)
    <3>1. t[i] \in ToSet(r)
      BY <1>1, <1>3, <2>2
    <3>2. t[j] \in ToSet(s)
      BY <1>1, <1>3, <1>4, <2>2, SMTT(30)
    <3>3. QED
      BY <3>1, <3>2 DEF Before
  <2>3. CASE ~(i \in 1..a)
    <3>1. i - a \in 1..b /\ a + (i - a) = i
      BY <1>4, <2>3
    <3>2. ~(j \in 1..a)
      BY <1>1, <1>5, <2>3
    <3>3. j - a \in 1..b /\ a + (j - a) = j /\ i - a < j - a
      BY <1>1, <1>4, <1>5, <3>2
    <3>4. t[i] = s[i - a] /\ t[j] = s[j - a]
      BY <1>1, <3>1, <3>3
    <3>5. QED
      BY <1>2, <3>1, <3>3, <3>4
  <2>4. QED
    BY <2>1, <2>2, <2>3
<1>6. Sorted(t, L)
  BY <1>1, <1>5 DEF Sorted
<1>7. ASSUME NEW x PROVE x \in ToSet(t) <=> x \in ToSet(r) \/ x \in ToSet(s)
  <2>1. ASSUME x \in ToSet(t) PROVE x \in ToSet(r) \/ x \in ToSet(s)
    <3>1. PICK i \in 1..(a + b) : x = t[i]
      BY <1>1, <1>3, <2>1
    <3>2. CASE i \in 1..a
      BY <1>1, <1>3, <3>1, <3>2
    <3>3. CASE ~(i \in 1..a)
      <4>1. i - a \in 1..b /\ a + (i - a) = i
        BY <1>4, <3>3
      <4>2. x = s[i - a]
        BY <1>1, <3>1, <4>1
      <4>3. QED
        BY <1>3, <4>1, <4>2
    <3>4. QED
      BY <3>2, <3>3
  <2>2. ASSUME x \in ToSet(r) PROVE x \in ToSet(t)
    <3>1. PICK i \in 1..a : x = r[i]
      BY <1>3, <2>2
    <3>2. i \in 1..(a + b)
      BY <1>1
    <3>3. QED
      BY <1>1, <1>3, <3>1, <3>2
  <2>3. ASSUME x \in ToSet(s) PROVE x \in ToSet(t)
    <3>1. PICK i \in 1..b : x = s[i]
      BY <1>3, <2>3
    <3>2. a + i \in 1..(a + b)
      BY <1>1
    <3>3. QED
      BY <1>1, <1>3, <3>1, <3>2
  <2>4. QED
    BY <2>1, <2>2, <2>3
<1>8. QED
  BY <1>1, <1>6, <1>7 DEF Joins, t

\* The steps of FlattenSeq.
Flattening(w, s, n) == w[1] = s[1] /\ \A i \in 2..n : w[i] = w[i - 1] \o s[i]

\* FlattenSeq appends one sequence after the other.
LEMMA FlattenSteps ==
    ASSUME NEW T, NEW n \in Nat \ {0}, NEW s \in [1..n -> Seq(T)], Len(s) = n
    PROVE  \E w : Flattening(w, s, n) /\ FlattenSeq(s) = w[n]
<1> DEFINE V == Seq(T)
           body(u) == [i \in 1..Len(s) |-> IF i = 1 THEN s[i] ELSE u[i - 1] \o s[i]]
           w == CHOOSE u : u = body(u)
           b == n - 1
           g == [k \in 1..b |-> [v \in V |-> v \o s[k + 1]]]
<1>1. FlattenSeq(s) = w[n]
  BY DEF FlattenSeq
<1>2. b \in Nat /\ \A k \in 1..b : k + 1 \in 1..n
  OBVIOUS
<1>3. g \in [1..b -> [V -> V]]
  <2>1. ASSUME NEW k \in 1..b, NEW v \in V PROVE v \o s[k + 1] \in V
    BY <1>2, ConcatProperties
  <2> HIDE DEF V
  <2>2. QED
    BY <2>1
<1>4. \A k \in 1..b, v \in V : g[k][v] = v \o s[k + 1]
  <2> HIDE DEF V
  <2>1. QED
    OBVIOUS
<1>5. s[1] \in V
  OBVIOUS
<1>6. \E u : u = body(u)
  <2> HIDE DEF V, g
  <2>1. PICK f : IsRecursive(f, b, V, s[1], g)
    BY <1>2, <1>3, <1>5, RecursiveFunction
  <2>2. f \in [0..b -> V] /\ f[0] = s[1] /\ \A k \in 1..b : f[k] = g[k][f[k - 1]]
    BY <2>1 DEF IsRecursive
  <2>3. ASSUME NEW k \in 1..b PROVE f[k] = f[k - 1] \o s[k + 1]
    <3>1. k - 1 \in 0..b
      BY <1>2
    <3>2. f[k - 1] \in V
      BY <2>2, <3>1
    <3>3. QED
      BY <1>4, <2>2, <3>2
  <2> DEFINE d == [i \in 1..n |-> f[i - 1]]
  <2>4. \A i \in 1..n : d[i] = f[i - 1]
    OBVIOUS
  <2>5. d = [i \in 1..n |-> d[i]]
    OBVIOUS
  <2> HIDE DEF d
  <2>6. ASSUME NEW i \in 1..n PROVE d[i] = IF i = 1 THEN s[i] ELSE d[i - 1] \o s[i]
    <3>1. CASE i = 1
      BY <2>2, <2>4, <3>1
    <3>2. CASE i # 1
      <4>1. i - 1 \in 1..b /\ i - 1 \in 1..n /\ (i - 1) + 1 = i
        BY <3>2
      <4>2. f[i - 1] = f[(i - 1) - 1] \o s[i]
        BY <2>3, <4>1
      <4>3. d[i] = f[i - 1] /\ d[i - 1] = f[(i - 1) - 1]
        BY <2>4, <4>1
      <4>4. QED
        BY <3>2, <4>2, <4>3
    <3>3. QED
      BY <3>1, <3>2
  <2>7. d = [i \in 1..n |-> IF i = 1 THEN s[i] ELSE d[i - 1] \o s[i]]
    BY <2>5, <2>6
  <2>8. d = body(d)
    BY <2>7
  <2>9. QED
    BY <2>8
<1>7. w = body(w)
  <2> HIDE DEF body
  <2>1. QED
    BY <1>6
<1> HIDE DEF w
<1>8. \A i \in 1..n : w[i] = IF i = 1 THEN s[i] ELSE w[i - 1] \o s[i]
  <2>1. \A i \in 1..n : body(w)[i] = IF i = 1 THEN s[i] ELSE w[i - 1] \o s[i]
    OBVIOUS
  <2> HIDE DEF body
  <2>2. QED
    BY <1>7, <2>1
<1>9. 1 \in 1..n /\ \A i \in 2..n : i \in 1..n /\ i # 1
  OBVIOUS
<1>10. Flattening(w, s, n)
  BY <1>8, <1>9 DEF Flattening
<1>11. QED
  BY <1>1, <1>10

\* t holds what the first n of s hold.
Gathers(t, s, n) == \A x : x \in ToSet(t) <=> \E i \in 1..n : x \in ToSet(s[i])

\* Sorted sequences, each before the next ones, flatten to a sorted sequence of what they hold.
LEMMA FlattenSorted ==
    ASSUME NEW T, NEW L, NEW n \in Nat \ {0}, NEW s \in [1..n -> Seq(T)], Len(s) = n,
           \A i \in 1..n : Sorted(s[i], L),
           \A i, j \in 1..n : i < j => Before(s[i], s[j], L)
    PROVE  FlattenSeq(s) \in Seq(T) /\ Sorted(FlattenSeq(s), L) /\ Gathers(FlattenSeq(s), s, n)
<1>1. PICK w : Flattening(w, s, n) /\ FlattenSeq(s) = w[n]
  BY FlattenSteps
<1>2. w[1] = s[1] /\ \A i \in 2..n : w[i] = w[i - 1] \o s[i]
  BY <1>1 DEF Flattening
<1> DEFINE P == {k \in 0..(n - 1) : w[k + 1] \in Seq(T) /\ Sorted(w[k + 1], L) /\ Gathers(w[k + 1], s, k + 1)}
<1>3. 0 \in P
  <2>1. 0 \in 0..(n - 1) /\ 1 \in 1..n /\ 0 + 1 = 1
    OBVIOUS
  <2>2. \A i : i \in 1..1 <=> i = 1
    OBVIOUS
  <2>3. Gathers(s[1], s, 1)
    BY <2>2 DEF Gathers
  <2>4. s[1] \in Seq(T) /\ Sorted(s[1], L)
    BY <2>1
  <2>5. QED
    BY <1>2, <2>1, <2>3, <2>4
<1>4. ASSUME NEW k \in 0..((n - 1) - 1), k \in P PROVE k + 1 \in P
  <2> DEFINE m == k + 1
  <2>1. /\ m \in 1..n /\ m + 1 \in 2..n /\ m + 1 \in 1..n /\ (m + 1) - 1 = m /\ m \in 0..(n - 1) /\ m \in Nat
    OBVIOUS
  <2>2. w[m] \in Seq(T) /\ Sorted(w[m], L) /\ Gathers(w[m], s, m)
    BY <1>4
  <2> HIDE DEF m
  <2>3. w[m + 1] = w[m] \o s[m + 1]
    BY <1>2, <2>1
  <2>4. Before(w[m], s[m + 1], L)
    <3>1. ASSUME NEW x \in ToSet(w[m]), NEW y \in ToSet(s[m + 1]) PROVE <<x, y>> \in L
      <4>1. PICK i \in 1..m : x \in ToSet(s[i])
        BY <2>2, <3>1 DEF Gathers
      <4>2. i \in 1..n /\ i < m + 1
        BY <2>1
      <4>3. Before(s[i], s[m + 1], L)
        BY <2>1, <4>2
      <4>4. QED
        BY <4>1, <4>3 DEF Before
    <3>2. QED
      BY <3>1 DEF Before
  <2>5. s[m + 1] \in Seq(T) /\ Sorted(s[m + 1], L)
    BY <2>1
  <2>6. w[m + 1] \in Seq(T) /\ Sorted(w[m + 1], L) /\ Joins(w[m + 1], w[m], s[m + 1])
    BY <2>2, <2>3, <2>4, <2>5, ConcatSorted
  <2>7. Gathers(w[m + 1], s, m + 1)
    <3>1. \A i : i \in 1..(m + 1) <=> i \in 1..m \/ i = m + 1
      BY <2>1
    <3>2. QED
      BY <2>2, <2>6, <3>1 DEF Gathers, Joins
  <2>8. m \in P
    BY <2>1, <2>6, <2>7
  <2>9. QED
    BY <2>8 DEF m
<1>5. n - 1 \in P
  <2>1. n - 1 \in Nat /\ n - 1 \in 0..(n - 1)
    OBVIOUS
  <2> HIDE DEF P
  <2>2. \A k \in 0..(n - 1) : k \in P
    BY <1>3, <1>4, <2>1, BoundedInduction
  <2>3. QED
    BY <2>1, <2>2
<1>6. (n - 1) + 1 = n
  OBVIOUS
<1>7. QED
  BY <1>1, <1>5, <1>6

-----------------------------------------------------------------------------
(* Parents and children. *)

\* What a child owns its parent owns, and the child is the one between the separators.
LEMMA KidOwned ==
    ASSUME NEW pgs, NEW h, TreeOK(pgs, h), NEW o, Owned(pgs, h, o), NEW p \in 1..Len(pgs), h[p] # 0,
           NEW i \in 1..Len(pgs[p].kids)
    PROVE  /\ pgs[p].kids[i] \in 1..Len(pgs) /\ h[pgs[p].kids[i]] = h[p] - 1
           /\ \A k \in Int : k \in o[pgs[p].kids[i]] =>
                k \in o[p] /\ InSlot(pgs[p].keys, i, k) /\ i = Partition(pgs[p].keys, k)
<1>1. InternalOK(pgs[p], Below(h, h[p])) /\ Sees(pgs[p], o[p], o)
  BY KidIs
<1>2. i \in 1..(Len(pgs[p].keys) + 1) /\ Len(pgs[p].keys) \in Nat
  BY <1>1, InternalParts
<1>3. pgs[p].kids[i] \in Below(h, h[p])
  BY <1>1, <1>2, KidNumber
<1>4. pgs[p].kids[i] \in 1..Len(pgs) /\ h[pgs[p].kids[i]] = h[p] - 1
  BY <1>3, TreeParts DEF Below
<1>5. ASSUME NEW k \in Int, k \in o[pgs[p].kids[i]]
      PROVE  k \in o[p] /\ InSlot(pgs[p].keys, i, k) /\ i = Partition(pgs[p].keys, k)
  <2>1. k \in o[p] /\ InSlot(pgs[p].keys, i, k)
    BY <1>1, <1>2, <1>5 DEF Sees
  <2>2. i = Partition(pgs[p].keys, k)
    BY <1>1, <1>2, <1>5, <2>1, RouteSees
  <2>3. QED
    BY <2>1, <2>2
<1>6. QED
  BY <1>4, <1>5

\* An internal page has one child more than keys, and so at least one.
LEMMA KidCount ==
    ASSUME NEW pgs, NEW h, TreeOK(pgs, h), NEW p \in 1..Len(pgs), h[p] # 0
    PROVE  /\ Len(pgs[p].kids) \in Nat \ {0} /\ DOMAIN pgs[p].kids = 1..Len(pgs[p].kids)
           /\ Len(pgs[p].kids) = Len(pgs[p].keys) + 1 /\ Len(pgs[p].keys) \in Nat
           /\ pgs[p].kids \in Seq(1..Len(pgs)) /\ pgs[p].keys \in Seq(Keys)
<1>1. InternalOK(pgs[p], Below(h, h[p]))
  BY KindOf
<1>2. /\ pgs[p].kids \in Seq(Below(h, h[p])) /\ Len(pgs[p].keys) \in Nat
      /\ Len(pgs[p].kids) = Len(pgs[p].keys) + 1 /\ pgs[p].keys \in Seq(Keys)
  BY <1>1, InternalParts
<1>3. Below(h, h[p]) \subseteq 1..Len(pgs)
  BY TreeParts DEF Below
<1>4. DOMAIN pgs[p].kids = 1..Len(pgs[p].kids) /\ pgs[p].kids \in Seq(1..Len(pgs))
  BY <1>2, <1>3
<1> DEFINE a == Len(pgs[p].kids)
           b == Len(pgs[p].keys)
<1>5. a = b + 1 /\ b \in Nat
  BY <1>2
<1> HIDE DEF a, b
<1>6. a \in Nat \ {0}
  BY <1>5
<1>7. QED
  BY <1>2, <1>4, <1>6 DEF a

\* p owns a key.
Owns(o, p) == \E k \in Int : k \in o[p]

\* Every page owns a key.
LEMMA AllOwn ==
    ASSUME NEW pgs, NEW h, TreeOK(pgs, h), NEW o, Owned(pgs, h, o), Filled(pgs)
    PROVE  \A p \in 1..Len(pgs) : Owns(o, p)
<1> DEFINE H == h[1]
           N == Len(pgs)
           T == {d \in 0..H : \A p \in 1..N : h[p] = d => Owns(o, p)}
<1>1. H \in Nat /\ \A p \in 1..N : h[p] \in Nat /\ h[p] <= H
  BY TreeParts
<1>2. Owns(o, 1)
  BY DEF Owned, Owners, Owns
<1>3. 0 \in T
  <2>1. ASSUME NEW p \in 1..N, h[p] = 0 PROVE Owns(o, p)
    <3>1. CASE p = 1
      BY <1>2, <3>1
    <3>2. CASE p # 1
      BY <2>1, <3>2, LeafHas DEF Owns
    <3>3. QED
      BY <3>1, <3>2
  <2>2. QED
    BY <1>1, <2>1
<1>4. ASSUME NEW d \in 0..(H - 1), d \in T PROVE d + 1 \in T
  <2>1. ASSUME NEW p \in 1..N, h[p] = d + 1 PROVE Owns(o, p)
    <3> DEFINE c == pgs[p].kids[1]
    <3>1. h[p] # 0 /\ h[p] - 1 = d
      BY <1>1, <2>1
    <3>2. 1 \in 1..Len(pgs[p].kids)
      BY <3>1, KidCount
    <3>3. c \in 1..N /\ h[c] = d /\ \A k \in Int : k \in o[c] => k \in o[p]
      BY <3>1, <3>2, KidOwned
    <3> HIDE DEF c
    <3>4. Owns(o, c)
      BY <1>4, <3>3
    <3>5. QED
      BY <3>3, <3>4 DEF Owns
  <2>2. d + 1 \in 0..H
    BY <1>1
  <2>3. QED
    BY <2>1, <2>2
<1>5. \A d \in 0..H : d \in T
  <2> HIDE DEF T
  <2>1. QED
    BY <1>1, <1>3, <1>4, BoundedInduction
<1>6. \A p \in 1..N : h[p] \in 0..H
  BY <1>1
<1>7. QED
  BY <1>5, <1>6

\* The children of one page are different pages.
LEMMA KidsDiffer ==
    ASSUME NEW pgs, NEW h, TreeOK(pgs, h), NEW o, Owned(pgs, h, o), Filled(pgs), NEW p \in 1..Len(pgs), h[p] # 0,
           NEW i \in 1..Len(pgs[p].kids), NEW j \in 1..Len(pgs[p].kids), pgs[p].kids[i] = pgs[p].kids[j]
    PROVE  i = j
<1> DEFINE c == pgs[p].kids[i]
<1>1. /\ c \in 1..Len(pgs)
      /\ \A k \in Int : k \in o[c] => i = Partition(pgs[p].keys, k)
      /\ \A k \in Int : k \in o[c] => j = Partition(pgs[p].keys, k)
  BY KidOwned
<1> HIDE DEF c
<1>2. PICK k \in Int : k \in o[c]
  BY <1>1, AllOwn DEF Owns
<1>3. QED
  BY <1>1, <1>2

\* A page is a child of one page only.
LEMMA OneParent ==
    ASSUME NEW pgs, NEW h, TreeOK(pgs, h), NEW o, Owned(pgs, h, o), Filled(pgs),
           NEW p \in 1..Len(pgs), h[p] # 0, NEW i \in 1..Len(pgs[p].kids),
           NEW q \in 1..Len(pgs), h[q] # 0, NEW j \in 1..Len(pgs[q].kids), pgs[p].kids[i] = pgs[q].kids[j]
    PROVE  p = q
<1> DEFINE c == pgs[p].kids[i]
<1>1. /\ c \in 1..Len(pgs) /\ h[c] = h[p] - 1 /\ h[c] = h[q] - 1
      /\ \A k \in Int : k \in o[c] => k \in o[p]
      /\ \A k \in Int : k \in o[c] => k \in o[q]
  <2>1. /\ c \in 1..Len(pgs) /\ h[c] = h[p] - 1
        /\ \A k \in Int : k \in o[c] => k \in o[p]
    BY KidOwned
  <2> DEFINE d == pgs[q].kids[j]
  <2>2. h[d] = h[q] - 1 /\ \A k \in Int : k \in o[d] => k \in o[q]
    BY KidOwned
  <2>3. c = d
    OBVIOUS
  <2> HIDE DEF c, d
  <2>4. QED
    BY <2>1, <2>2, <2>3
<1> HIDE DEF c
<1>2. PICK k \in Int : k \in o[c]
  BY <1>1, AllOwn DEF Owns
<1>3. h[p] = h[q]
  <2>1. h[p] \in Nat /\ h[q] \in Nat /\ h[p] - 1 = h[q] - 1
    BY <1>1, TreeParts
  <2> HIDE DEF c
  <2>2. \A a, b \in Nat : a - 1 = b - 1 => a = b
    OBVIOUS
  <2>3. QED
    BY <2>1, <2>2
<1>4. Owners(o, h, Len(pgs))
  BY DEF Owned
<1>5. QED
  BY <1>1, <1>2, <1>3, <1>4, OneOwner, SMTT(30)

\* Every page but the root is the child of a page, and the root is nobody's child.
LEMMA KidsCover ==
    ASSUME NEW pgs, NEW h, TreeOK(pgs, h), NEW o, Owned(pgs, h, o), Filled(pgs), NEW c \in 1..Len(pgs)
    PROVE  c # 1 <=> \E p \in 1..Len(pgs) : h[p] # 0 /\ \E i \in 1..Len(pgs[p].kids) : pgs[p].kids[i] = c
<1>1. \A p \in 1..Len(pgs) : h[p] \in Nat /\ h[p] <= h[1]
  BY TreeParts
<1>2. 1 \in 1..Len(pgs) /\ h[1] \in Nat
  BY TreeParts
<1>3. ASSUME c # 1 PROVE \E p \in 1..Len(pgs) : h[p] # 0 /\ \E i \in 1..Len(pgs[p].kids) : pgs[p].kids[i] = c
  <2>1. PICK k \in Int : k \in o[c]
    BY AllOwn DEF Owns
  <2>2. h[c] # h[1]
    <3>1. k \in o[1] /\ Owners(o, h, Len(pgs))
      BY DEF Owned, Owners
    <3>2. QED
      BY <1>2, <1>3, <2>1, <3>1, OneOwner
  <2>3. PICK p \in 1..Len(pgs) : h[p] = h[c] + 1 /\ k \in o[p] /\ route_key(pgs[p], k) = c
    BY <2>1, <2>2, HasParent
  <2>4. h[p] # 0
    BY <1>1, <2>3
  <2>5. InternalOK(pgs[p], Below(h, h[p])) /\ Sees(pgs[p], o[p], o)
    BY <2>4, KidIs
  <2> DEFINE i == Partition(pgs[p].keys, k)
  <2>6. i \in 1..(Len(pgs[p].keys) + 1) /\ pgs[p].kids[i] = c
    BY <2>1, <2>3, <2>5, RouteSees
  <2> HIDE DEF i
  <2>7. i \in 1..Len(pgs[p].kids)
    BY <2>4, <2>6, KidCount
  <2>8. QED
    BY <2>4, <2>6, <2>7
<1>4. ASSUME NEW p \in 1..Len(pgs), h[p] # 0, NEW i \in 1..Len(pgs[p].kids), pgs[p].kids[i] = c PROVE c # 1
  <2>1. h[c] = h[p] - 1
    BY <1>4, KidOwned
  <2>2. QED
    BY <1>1, <1>2, <1>4, <2>1
<1>5. QED
  BY <1>3, <1>4

-----------------------------------------------------------------------------
(* Every page is reached once. *)

\* The length of a sequence given as a function.
LEMMA FunLen ==
    ASSUME NEW S, NEW n \in Nat, NEW s \in [1..n -> S]
    PROVE  s \in Seq(S) /\ Len(s) = n
<1>1. s \in Seq(S) /\ DOMAIN s = 1..n
  BY SeqDef
<1>2. Len(s) \in Nat /\ DOMAIN s = 1..Len(s)
  BY <1>1, LenProperties
<1>3. QED
  BY <1>1, <1>2

\* A sequence that repeats nothing is as long as the set of its elements.
LEMMA DistinctLen ==
    ASSUME NEW T, NEW s \in Seq(T), \A i, j \in 1..Len(s) : i < j => s[i] # s[j]
    PROVE  Cardinality(ToSet(s)) = Len(s)
<1> DEFINE n == Len(s)
           S == ToSet(s)
<1>1. n \in Nat /\ DOMAIN s = 1..n /\ s \in [1..n -> T]
  OBVIOUS
<1>2. \A x : x \in S <=> \E i \in 1..n : x = s[i]
  BY InSeq
<1>3. \A i, j \in 1..n : i < j => s[i] # s[j]
  OBVIOUS
<1> HIDE DEF n, S
<1>4. s \in [1..n -> S]
  BY <1>1, <1>2
<1>5. \A i, j \in 1..n : s[i] = s[j] => i = j
  BY <1>1, <1>3
<1>6. s \in Bijection(1..n, S)
  <2>1. s \in Injection(1..n, S)
    BY <1>4, <1>5 DEF Injection, IsInjective
  <2>2. s \in Surjection(1..n, S)
    BY <1>2, <1>4 DEF Surjection
  <2>3. QED
    BY <2>1, <2>2 DEF Bijection
<1>7. ExistsBijection(1..n, S)
  BY <1>6 DEF ExistsBijection
<1>8. Cardinality(S) = n
  BY <1>1, <1>7, FS_CountingElements
<1>9. QED
  BY <1>8 DEF n, S

\* The children of every page.
KidsOf(pgs) == [p \in DOMAIN pgs |-> IF IsLeaf(pgs[p]) THEN <<>> ELSE pgs[p].kids]

\* The children of a page are pages one below it.
LEMMA KidHeight ==
    ASSUME NEW pgs, NEW h, TreeOK(pgs, h), NEW p \in 1..Len(pgs), h[p] # 0, NEW i \in 1..Len(pgs[p].kids)
    PROVE  pgs[p].kids[i] \in 1..Len(pgs) /\ h[pgs[p].kids[i]] = h[p] - 1
<1>1. InternalOK(pgs[p], Below(h, h[p]))
  BY KindOf
<1>2. i \in 1..(Len(pgs[p].keys) + 1)
  BY <1>1, InternalParts
<1>3. pgs[p].kids[i] \in Below(h, h[p])
  BY <1>1, <1>2, KidNumber
<1>4. QED
  BY <1>3, TreeParts DEF Below

\* x is the child of an internal page p.
IsKid(pgs, h, p, x) == h[p] # 0 /\ \E i \in 1..Len(pgs[p].kids) : pgs[p].kids[i] = x

\* A page is the child of one page.
LEMMA OneKidOf ==
    ASSUME NEW pgs, NEW h, TreeOK(pgs, h), NEW o, Owned(pgs, h, o), Filled(pgs),
           NEW p \in 1..Len(pgs), NEW q \in 1..Len(pgs), NEW x, IsKid(pgs, h, p, x), IsKid(pgs, h, q, x)
    PROVE  p = q
<1>1. PICK i \in 1..Len(pgs[p].kids) : h[p] # 0 /\ pgs[p].kids[i] = x
  BY DEF IsKid
<1>2. PICK j \in 1..Len(pgs[q].kids) : h[q] # 0 /\ pgs[q].kids[j] = x
  BY DEF IsKid
<1>3. pgs[p].kids[i] = pgs[q].kids[j]
  BY <1>1, <1>2
<1>4. h[p] # 0 /\ h[q] # 0
  BY <1>1, <1>2
<1>5. QED
  BY <1>3, <1>4, OneParent, SMTT(30)

\* s[p] holds the children of p.
KidsAre(s, pgs, h, n) == \A p \in 1..n : \A x : x \in ToSet(s[p]) <=> IsKid(pgs, h, p, x)

\* What KidsOf says of a page.
LEMMA KidsOfIs ==
    ASSUME NEW pgs, NEW h, TreeOK(pgs, h)
    PROVE  /\ KidsOf(pgs) \in [1..Len(pgs) -> Seq(1..Len(pgs))] /\ Len(KidsOf(pgs)) = Len(pgs)
           /\ KidsAre(KidsOf(pgs), pgs, h, Len(pgs))
<1> DEFINE N == Len(pgs)
           s == KidsOf(pgs)
<1>1. N \in Nat \ {0} /\ DOMAIN pgs = 1..N
  BY TreeParts
<1>2. \A p \in 1..N : s[p] = IF IsLeaf(pgs[p]) THEN <<>> ELSE pgs[p].kids
  BY <1>1 DEF KidsOf
<1>3. \A p \in 1..N : s[p] = IF h[p] = 0 THEN <<>> ELSE pgs[p].kids
  BY <1>2, KindOf
<1>4. s = [p \in 1..N |-> s[p]]
  BY <1>1 DEF KidsOf
<1>5. \A p \in 1..N : h[p] # 0 => pgs[p].kids \in Seq(1..N)
  BY KidCount
<1>6. <<>> \in Seq(1..N) /\ \A x : x \notin ToSet(<<>>)
  BY DEF ToSet
<1> HIDE DEF N, s
<1>7. \A p \in 1..N : s[p] \in Seq(1..N)
  BY <1>3, <1>5, <1>6
<1>8. s \in [1..N -> Seq(1..N)]
  BY <1>4, <1>7
<1>9. Len(s) = N
  BY <1>1, <1>8, FunLen
<1>10. ASSUME NEW p \in 1..N, NEW x
       PROVE  x \in ToSet(s[p]) <=> IsKid(pgs, h, p, x)
  <2>1. CASE h[p] = 0
    BY <1>3, <1>6, <2>1 DEF IsKid
  <2>2. CASE h[p] # 0
    <3>1. s[p] = pgs[p].kids
      BY <1>3, <2>2
    <3>2. x \in ToSet(s[p]) <=> \E i \in 1..Len(s[p]) : x = s[p][i]
      BY <1>7, InSeq
    <3>3. QED
      BY <2>2, <3>1, <3>2 DEF IsKid
  <2>3. QED
    BY <2>1, <2>2
<1>11. KidsAre(s, pgs, h, N)
  BY <1>10 DEF KidsAre
<1>12. QED
  BY <1>8, <1>9, <1>11 DEF N, s

\* The children of all pages are the pages but the root, each once.
LEMMA ReachedOnce ==
    ASSUME NEW pgs, NEW h, TreeOK(pgs, h), NEW o, Owned(pgs, h, o), Filled(pgs)
    PROVE  /\ ToSet(FlattenSeq(KidsOf(pgs))) = 1..Len(pgs) \ {1}
           /\ Len(FlattenSeq(KidsOf(pgs))) = Len(pgs) - 1
<1> DEFINE N == Len(pgs)
           s == KidsOf(pgs)
           L == {e \in (1..N) \X (1..N) : e[1] # e[2]}
           t == FlattenSeq(s)
<1>1. N \in Nat \ {0}
  BY TreeParts
<1>2. /\ s \in [1..N -> Seq(1..N)] /\ Len(s) = N
      /\ \A p \in 1..N : \A x : x \in ToSet(s[p]) <=>
                 h[p] # 0 /\ \E i \in 1..Len(pgs[p].kids) : pgs[p].kids[i] = x
  <2>1. s \in [1..N -> Seq(1..N)] /\ Len(s) = N /\ KidsAre(s, pgs, h, N)
    BY KidsOfIs
  <2> HIDE DEF N, s
  <2>2. QED
    BY <2>1 DEF KidsAre, IsKid
<1>3. \A x, y \in 1..N : <<x, y>> \in L <=> x # y
  OBVIOUS
<1>4. ASSUME NEW p \in 1..N PROVE Sorted(s[p], L)
  <2>1. ASSUME NEW i \in 1..Len(s[p]), NEW j \in 1..Len(s[p]), i < j PROVE <<s[p][i], s[p][j]>> \in L
    <3>1. s[p] \in Seq(1..N)
      BY <1>2
    <3>2. s[p][i] \in 1..N /\ s[p][j] \in 1..N /\ s[p][i] \in ToSet(s[p])
      BY <3>1, InSeq
    <3>3. h[p] # 0
      BY <1>2, <3>2
    <3>4. s[p] = pgs[p].kids
      BY <3>3, KindOf, TreeParts DEF KidsOf
    <3>5. s[p][i] # s[p][j]
      <4>1. SUFFICES ASSUME s[p][i] = s[p][j] PROVE FALSE
        OBVIOUS
      <4>2. i = j
        <5> HIDE DEF s, N
        <5>1. i \in 1..Len(pgs[p].kids) /\ j \in 1..Len(pgs[p].kids) /\ pgs[p].kids[i] = pgs[p].kids[j]
          BY <3>4, <4>1
        <5>2. p \in 1..Len(pgs)
          BY DEF N
        <5>3. QED
          BY <3>3, <5>1, <5>2, KidsDiffer
      <4>3. QED
        BY <2>1, <4>2
    <3>6. QED
      BY <1>3, <3>2, <3>5
  <2>2. QED
    BY <2>1 DEF Sorted
<1>5. ASSUME NEW p \in 1..N, NEW q \in 1..N, p < q PROVE Before(s[p], s[q], L)
  <2>1. ASSUME NEW x \in ToSet(s[p]), NEW y \in ToSet(s[q]) PROVE <<x, y>> \in L
    <3>1. IsKid(pgs, h, p, x) /\ IsKid(pgs, h, q, y)
      BY <1>2, <2>1 DEF IsKid
    <3>2. p \in 1..Len(pgs) /\ q \in 1..Len(pgs)
      OBVIOUS
    <3> HIDE DEF s, N
    <3>3. x \in 1..N /\ y \in 1..N
      BY <3>1, <3>2, KidHeight DEF IsKid, N
    <3>4. ASSUME x = y PROVE FALSE
      <4>1. p = q
        BY <3>1, <3>2, <3>4, OneKidOf
      <4>2. QED
        BY <1>5, <4>1
    <3>5. QED
      BY <1>3, <3>3, <3>4
  <2>2. QED
    BY <2>1 DEF Before
<1> HIDE DEF s, L
<1>6. t \in Seq(1..N) /\ Sorted(t, L) /\ Gathers(t, s, N)
  BY <1>1, <1>2, <1>4, <1>5, FlattenSorted
<1> HIDE DEF t
<1>7. \A x \in ToSet(t) : x \in 1..N
  BY <1>6, InSeq
<1>8. ASSUME NEW x \in 1..N PROVE x \in ToSet(t) <=> x # 1
  <2>1. x \in ToSet(t) <=> \E p \in 1..N : x \in ToSet(s[p])
    BY <1>6 DEF Gathers
  <2>2. x # 1 <=> \E p \in 1..N : h[p] # 0 /\ \E i \in 1..Len(pgs[p].kids) : pgs[p].kids[i] = x
    BY KidsCover
  <2>3. QED
    BY <1>2, <2>1, <2>2
<1>9. ToSet(t) = 1..N \ {1}
  BY <1>7, <1>8
<1>10. Cardinality(ToSet(t)) = Len(t)
  <2>1. ASSUME NEW i \in 1..Len(t), NEW j \in 1..Len(t), i < j PROVE t[i] # t[j]
    <3>1. <<t[i], t[j]>> \in L
      BY <1>6, <2>1 DEF Sorted
    <3>2. t[i] \in 1..N /\ t[j] \in 1..N
      BY <1>6
    <3>3. QED
      BY <1>3, <3>1, <3>2
  <2>2. QED
    BY <1>6, <2>1, DistinctLen
<1>11. Cardinality(ToSet(t)) = N - 1
  <2>1. 1..N \ {1} = 2..N
    BY <1>1
  <2>2. Cardinality(2..N) = IF 2 > N THEN 0 ELSE N - 2 + 1
    BY <1>1, FS_Interval, SMTT(30)
  <2>3. Cardinality(2..N) = N - 1
    BY <1>1, <2>2
  <2>4. QED
    BY <1>9, <2>1, <2>3
<1>12. QED
  BY <1>9, <1>10, <1>11 DEF t, s

-----------------------------------------------------------------------------
(* The leaves under a page, from left to right. *)

\* Sequences over T flatten to a sequence over T.
LEMMA FlattenType ==
    ASSUME NEW T, NEW n \in Nat \ {0}, NEW s \in [1..n -> Seq(T)]
    PROVE  FlattenSeq(s) \in Seq(T)
<1> DEFINE L == T \X T
<1>1. Len(s) = n
  BY FunLen
<1>2. ASSUME NEW r \in Seq(T), NEW x \in ToSet(r) PROVE x \in T
  BY <1>2, InSeq
<1>3. ASSUME NEW r \in Seq(T) PROVE Sorted(r, L)
  BY <1>3 DEF Sorted
<1>4. ASSUME NEW r \in Seq(T), NEW t \in Seq(T) PROVE Before(r, t, L)
  <2>1. ASSUME NEW x \in ToSet(r), NEW y \in ToSet(t) PROVE <<x, y>> \in L
    BY <1>2
  <2>2. QED
    BY <2>1 DEF Before
<1> HIDE DEF L
<1>5. \A i \in 1..n : s[i] \in Seq(T)
  OBVIOUS
<1>6. \A i \in 1..n : Sorted(s[i], L)
  BY <1>3, <1>5
<1>7. \A i, j \in 1..n : i < j => Before(s[i], s[j], L)
  BY <1>4, <1>5
<1>8. QED
  BY <1>1, <1>6, <1>7, FlattenSorted

\* What u says of the children of p, one after the other.
Gathered(pgs, p, u) == FlattenSeq([i \in DOMAIN pgs[p].kids |-> u[pgs[p].kids[i]]])

\* Gathered looks at the children only.
LEMMA GatheredAgree ==
    ASSUME NEW pgs, NEW h, TreeOK(pgs, h), NEW p \in 1..Len(pgs), h[p] # 0, NEW u, NEW v,
           \A i \in 1..Len(pgs[p].kids) : u[pgs[p].kids[i]] = v[pgs[p].kids[i]]
    PROVE  Gathered(pgs, p, u) = Gathered(pgs, p, v)
<1>1. DOMAIN pgs[p].kids = 1..Len(pgs[p].kids)
  BY KidCount
<1> DEFINE n == Len(pgs[p].kids)
           c == pgs[p].kids
<1>2. \A i \in DOMAIN c : u[c[i]] = v[c[i]]
  BY <1>1
<1> HIDE DEF n, c
<1>3. [i \in DOMAIN c |-> u[c[i]]] = [i \in DOMAIN c |-> v[c[i]]]
  BY <1>2
<1>4. QED
  BY <1>3 DEF Gathered, c

\* Gathered is a sequence over T when u is.
LEMMA GatheredType ==
    ASSUME NEW pgs, NEW h, TreeOK(pgs, h), NEW p \in 1..Len(pgs), h[p] # 0, NEW T,
           NEW u, \A q \in 1..Len(pgs) : u[q] \in Seq(T)
    PROVE  Gathered(pgs, p, u) \in Seq(T)
<1> DEFINE c == pgs[p].kids
           n == Len(pgs[p].kids)
<1>1. n \in Nat \ {0} /\ DOMAIN c = 1..n /\ c \in Seq(1..Len(pgs))
  BY KidCount
<1>2. \A i \in 1..n : c[i] \in 1..Len(pgs)
  <2>1. ASSUME NEW i \in 1..n PROVE c[i] \in 1..Len(pgs)
    BY KidHeight
  <2>2. QED
    BY <2>1
<1> HIDE DEF c, n
<1>3. \A i \in 1..n : u[c[i]] \in Seq(T)
  BY <1>2
<1>4. [i \in 1..n |-> u[c[i]]] \in [1..n -> Seq(T)]
  BY <1>3
<1>5. FlattenSeq([i \in 1..n |-> u[c[i]]]) \in Seq(T)
  BY <1>1, <1>4, FlattenType
<1>6. QED
  BY <1>1, <1>5 DEF Gathered, c

\* w unfolds the tree: a leaf to itself, another page to what its children unfold to.
Unfolds(w, pgs, h) ==
    \A p \in 1..Len(pgs) : w[p] = IF h[p] = 0 THEN <<p>> ELSE Gathered(pgs, p, w)

\* The recursion of LeavesInOrder has a solution, by induction on the height.
LEMMA UnfoldExists ==
    ASSUME NEW pgs, NEW h, TreeOK(pgs, h)
    PROVE  \E w : Unfolds(w, pgs, h) /\ LeavesInOrder(pgs) = w[1]
<1> DEFINE N == Len(pgs)
           D == 1..N
           H == h[1]
           V == [D -> Seq(D)]
           body(u) == [p \in DOMAIN pgs |-> IF IsLeaf(pgs[p]) THEN <<p>>
                         ELSE FlattenSeq([i \in DOMAIN pgs[p].kids |-> u[pgs[p].kids[i]]])]
           step(v) == [p \in D |-> IF h[p] = 0 THEN <<p>> ELSE Gathered(pgs, p, v)]
           a == [p \in D |-> <<p>>]
           g == [k \in 1..H |-> [v \in V |-> step(v)]]
           w == CHOOSE u : u = body(u)
<1>1. /\ N \in Nat \ {0} /\ DOMAIN pgs = D /\ h \in [D -> Nat] /\ H \in Nat /\ 1 \in D
      /\ \A p \in D : h[p] \in Nat /\ h[p] \in 0..H
  <2>1. \A p \in D : h[p] \in Nat /\ h[p] <= H /\ H \in Nat
    BY TreeParts
  <2>2. \A p \in D : h[p] \in 0..H
    BY <2>1
  <2>3. QED
    BY <2>1, <2>2, TreeParts
<1>2. \A p \in D : IsLeaf(pgs[p]) <=> h[p] = 0
  BY KindOf
<1>3. a \in V
  OBVIOUS
<1>4. ASSUME NEW v \in V PROVE step(v) \in V
  <2>1. \A q \in D : v[q] \in Seq(D)
    OBVIOUS
  <2>2. ASSUME NEW p \in D, h[p] # 0 PROVE Gathered(pgs, p, v) \in Seq(D)
    BY <2>1, <2>2, GatheredType
  <2> HIDE DEF N
  <2>3. \A p \in D : <<p>> \in Seq(D)
    OBVIOUS
  <2>4. QED
    BY <2>2, <2>3
<1>5. g \in [1..H -> [V -> V]]
  <2> HIDE DEF V, step
  <2>1. QED
    BY <1>4
<1>6. \A k \in 1..H, v \in V : g[k][v] = step(v)
  <2> HIDE DEF V, step
  <2>1. QED
    OBVIOUS
<1>7. ASSUME NEW u PROVE body(u) = [p \in D |-> IF h[p] = 0 THEN <<p>> ELSE Gathered(pgs, p, u)]
  <2>1. body(u) = [p \in D |-> IF IsLeaf(pgs[p]) THEN <<p>> ELSE Gathered(pgs, p, u)]
    BY <1>1 DEF Gathered
  <2> HIDE DEF body
  <2>2. QED
    BY <1>2, <2>1
<1>8. \E u : u = body(u)
  <2>1. PICK f : IsRecursive(f, H, V, a, g)
    <3> HIDE DEF V, a, g
    <3>1. QED
      BY <1>1, <1>3, <1>5, RecursiveFunction
  <2>2. f \in [0..H -> V] /\ f[0] = a /\ \A k \in 1..H : f[k] = g[k][f[k - 1]]
    <3> HIDE DEF V, a, g
    <3>1. QED
      BY <2>1 DEF IsRecursive
  <2>3. \A k \in 1..H : f[k] = step(f[k - 1])
    <3> HIDE DEF V, a, g, step
    <3>1. ASSUME NEW k \in 1..H PROVE f[k] = step(f[k - 1])
      <4>1. k - 1 \in 0..H
        BY <1>1
      <4>2. f[k - 1] \in V
        BY <2>2, <4>1
      <4>3. QED
        BY <1>6, <2>2, <4>2
    <3>2. QED
      BY <3>1
  <2>4. \A p \in D : f[0][p] = <<p>>
    BY <2>2
  <2>5. ASSUME NEW p \in D, NEW k \in 1..H, h[p] # 0 PROVE f[k][p] = Gathered(pgs, p, f[k - 1])
    <3>1. f[k] = step(f[k - 1])
      BY <2>3
    <3>2. step(f[k - 1])[p] = Gathered(pgs, p, f[k - 1])
      BY <2>5
    <3> HIDE DEF step
    <3>3. QED
      BY <3>1, <3>2
  <2> DEFINE d == [p \in D |-> f[h[p]][p]]
  <2>6. \A p \in D : d[p] = f[h[p]][p]
    OBVIOUS
  <2>7. d = [p \in D |-> d[p]]
    OBVIOUS
  <2> HIDE DEF d
  <2>8. ASSUME NEW p \in D PROVE d[p] = IF h[p] = 0 THEN <<p>> ELSE Gathered(pgs, p, d)
    <3>1. CASE h[p] = 0
      BY <2>4, <2>6, <3>1
    <3>2. CASE h[p] # 0
      <4>1. h[p] \in 1..H
        BY <1>1, <3>2
      <4>2. d[p] = Gathered(pgs, p, f[h[p] - 1])
        BY <2>5, <2>6, <3>2, <4>1
      <4>3. ASSUME NEW i \in 1..Len(pgs[p].kids) PROVE f[h[p] - 1][pgs[p].kids[i]] = d[pgs[p].kids[i]]
        <5>1. pgs[p].kids[i] \in D /\ h[pgs[p].kids[i]] = h[p] - 1
          BY <3>2, KidHeight
        <5>2. QED
          BY <2>6, <5>1
      <4>4. Gathered(pgs, p, f[h[p] - 1]) = Gathered(pgs, p, d)
        BY <3>2, <4>3, GatheredAgree
      <4>5. QED
        BY <3>2, <4>2, <4>4
    <3>3. QED
      BY <3>1, <3>2
  <2>9. d = body(d)
    <3> HIDE DEF body
    <3>1. QED
      BY <1>7, <2>7, <2>8
  <2>10. QED
    BY <2>9
<1>9. w = body(w)
  <2> HIDE DEF body
  <2>1. QED
    BY <1>8
<1>10. LeavesInOrder(pgs) = w[1]
  BY DEF LeavesInOrder, Root
<1> HIDE DEF w
<1>11. ASSUME NEW p \in D PROVE w[p] = IF h[p] = 0 THEN <<p>> ELSE Gathered(pgs, p, w)
  <2> HIDE DEF body, N
  <2>1. QED
    BY <1>7, <1>9
<1>12. Unfolds(w, pgs, h)
  BY <1>11 DEF Unfolds
<1>13. QED
  BY <1>10, <1>12

-----------------------------------------------------------------------------
(* What the unfolding of a page holds: the leaves that own a key of it, in order. *)

\* s holds leaves under p only, all of them, in the order L.
LeavesUnder(s, pgs, h, o, L, p) ==
    /\ s \in Seq(1..Len(pgs))
    /\ \A x \in ToSet(s) : h[x] = 0 /\ \A k \in Int : k \in o[x] => k \in o[p]
    /\ \A x \in 1..Len(pgs), k \in Int : h[x] = 0 /\ k \in o[x] /\ k \in o[p] => x \in ToSet(s)
    /\ Sorted(s, L)

\* A sequence of one element holds it.
LEMMA OneIn ==
    ASSUME NEW T, NEW s \in Seq(T), Len(s) = 1, NEW p, s[1] = p
    PROVE  \A x : x \in ToSet(s) <=> x = p
<1>1. \A x : x \in ToSet(s) <=> \E i \in 1..Len(s) : x = s[i]
  BY InSeq
<1>2. \A i : i \in 1..1 <=> i = 1
  OBVIOUS
<1>3. QED
  BY <1>1, <1>2

\* Under a leaf is the leaf.
LEMMA LeafUnder ==
    ASSUME NEW pgs, NEW h, TreeOK(pgs, h), NEW o, Owned(pgs, h, o), NEW L,
           NEW p \in 1..Len(pgs), h[p] = 0
    PROVE  LeavesUnder(<<p>>, pgs, h, o, L, p)
<1>1. <<p>> \in Seq(1..Len(pgs)) /\ Len(<<p>>) = 1 /\ <<p>>[1] = p
  OBVIOUS
<1>2. \A x : x \in ToSet(<<p>>) <=> x = p
  BY <1>1, OneIn
<1>3. Sorted(<<p>>, L)
  BY <1>1 DEF Sorted
<1>4. ASSUME NEW x \in 1..Len(pgs), NEW k \in Int, h[x] = 0, k \in o[x], k \in o[p] PROVE x = p
  <2>1. Owners(o, h, Len(pgs))
    BY DEF Owned
  <2>2. h[x] = h[p]
    BY <1>4
  <2>3. QED
    BY <1>4, <2>1, <2>2, OneOwner
<1>5. QED
  BY <1>1, <1>2, <1>3, <1>4 DEF LeavesUnder

\* The keys of one slot are below those of the slots behind it.
LEMMA SlotsApart ==
    ASSUME NEW keys \in Seq(Keys), SortedKeys(keys), NEW n \in Nat, n = Len(keys) + 1,
           NEW i \in 1..n, NEW j \in 1..n, i < j,
           NEW a \in Int, InSlot(keys, i, a), NEW b \in Int, InSlot(keys, j, b)
    PROVE  a < b
<1> DEFINE m == Len(keys)
<1>1. m \in Nat /\ \A l \in 1..m : keys[l] \in Int
  BY KeyTypes
<1>2. n = m + 1
  OBVIOUS
<1>3. \A u, v \in 1..m : u < v => keys[u] < keys[v]
  BY <1>1 DEF SortedKeys
<1>4. (i <= m => a < keys[i]) /\ (j > 1 => keys[j - 1] <= b)
  BY DEF InSlot
<1> HIDE DEF m
<1>5. i \in 1..m /\ j - 1 \in 1..m /\ j > 1 /\ i <= m /\ i <= j - 1
  BY <1>1, <1>2
<1>6. keys[i] \in Int /\ keys[j - 1] \in Int /\ a < keys[i] /\ keys[j - 1] <= b
  BY <1>1, <1>4, <1>5
<1>7. keys[i] <= keys[j - 1]
  <2>1. CASE i = j - 1
    BY <1>6, <2>1
  <2>2. CASE i # j - 1
    <3>1. i < j - 1
      BY <1>5, <2>2
    <3>2. QED
      BY <1>3, <1>5, <1>6, <3>1
  <2>3. QED
    BY <2>1, <2>2
<1>8. QED
  BY <1>6, <1>7

\* Leaves under an earlier child come before leaves under a later one.
LEMMA KidsInOrder ==
    ASSUME NEW pgs, NEW h, TreeOK(pgs, h), NEW o, Owned(pgs, h, o), Filled(pgs),
           NEW p \in 1..Len(pgs), h[p] # 0,
           NEW i \in 1..Len(pgs[p].kids), NEW j \in 1..Len(pgs[p].kids), i < j,
           NEW r, LeavesUnder(r, pgs, h, o, LeafOrder(pgs), pgs[p].kids[i]),
           NEW s, LeavesUnder(s, pgs, h, o, LeafOrder(pgs), pgs[p].kids[j])
    PROVE  Before(r, s, LeafOrder(pgs))
<1> DEFINE n == Len(pgs[p].kids)
           keys == pgs[p].keys
           c == pgs[p].kids[i]
           d == pgs[p].kids[j]
<1>1. n \in Nat /\ n = Len(keys) + 1 /\ keys \in Seq(Keys)
  BY KidCount
<1>2. SortedKeys(keys)
  BY KidIs DEF Sees
<1>3. \A k \in Int : k \in o[c] => InSlot(keys, i, k) /\ i = Partition(keys, k)
  BY KidOwned
<1>4. \A k \in Int : k \in o[d] => InSlot(keys, j, k) /\ j = Partition(keys, k)
  BY KidOwned
<1>5. i \in 1..n /\ j \in 1..n
  OBVIOUS
<1>6. ASSUME NEW x \in ToSet(r), NEW y \in ToSet(s) PROVE <<x, y>> \in LeafOrder(pgs)
  <2>1. x \in 1..Len(pgs) /\ h[x] = 0 /\ \A k \in Int : k \in o[x] => k \in o[c]
    <3>1. r \in Seq(1..Len(pgs))
      BY DEF LeavesUnder
    <3>2. x \in 1..Len(pgs)
      BY <3>1, InSeq, SMTT(20)
    <3>3. QED
      BY <3>2 DEF LeavesUnder
  <2>2. y \in 1..Len(pgs) /\ h[y] = 0 /\ \A k \in Int : k \in o[y] => k \in o[d]
    <3>1. s \in Seq(1..Len(pgs))
      BY DEF LeavesUnder
    <3>2. y \in 1..Len(pgs)
      BY <3>1, InSeq, SMTT(20)
    <3>3. QED
      BY <3>2 DEF LeavesUnder
  <2>3. PICK a \in Int : a \in o[x]
    BY <2>1, AllOwn DEF Owns
  <2>4. PICK b \in Int : b \in o[y]
    BY <2>2, AllOwn DEF Owns
  <2>5. InSlot(keys, i, a) /\ InSlot(keys, j, b) /\ i = Partition(keys, a) /\ j = Partition(keys, b)
    BY <1>3, <1>4, <2>1, <2>2, <2>3, <2>4
  <2>6. x # y
    <3>1. SUFFICES ASSUME x = y PROVE FALSE
      OBVIOUS
    <3>2. j = Partition(keys, a)
      BY <1>4, <2>2, <2>3, <3>1
    <3> HIDE DEF keys
    <3>3. i = j
      BY <2>5, <3>2
    <3>4. QED
      BY <3>3
  <2>7. a < b
    <3> HIDE DEF n, keys
    <3>1. QED
      BY <1>1, <1>2, <1>5, <2>5, SlotsApart
  <2>8. Lower(o, x, y)
    BY <2>3, <2>4, <2>7 DEF Lower
  <2>9. x \in LeafIds(pgs) /\ y \in LeafIds(pgs)
    BY <2>1, <2>2, LeafIdsAre
  <2>10. QED
    BY <2>6, <2>8, <2>9, OrderIs
<1>7. QED
  BY <1>6 DEF Before

\* What is under the children is under their parent.
LEMMA GatheredUnder ==
    ASSUME NEW pgs, NEW h, TreeOK(pgs, h), NEW o, Owned(pgs, h, o), Filled(pgs),
           NEW p \in 1..Len(pgs), h[p] # 0, NEW w,
           \A i \in 1..Len(pgs[p].kids) :
              LeavesUnder(w[pgs[p].kids[i]], pgs, h, o, LeafOrder(pgs), pgs[p].kids[i])
    PROVE  LeavesUnder(Gathered(pgs, p, w), pgs, h, o, LeafOrder(pgs), p)
<1> DEFINE L == LeafOrder(pgs)
           c == pgs[p].kids
           n == Len(pgs[p].kids)
           s == [i \in 1..n |-> w[c[i]]]
           t == FlattenSeq(s)
           D == 1..Len(pgs)
<1>1. n \in Nat \ {0} /\ DOMAIN c = 1..n
  BY KidCount
<1>2. Gathered(pgs, p, w) = t
  BY <1>1 DEF Gathered
<1>3. \A i \in 1..n : LeavesUnder(w[c[i]], pgs, h, o, L, c[i])
  OBVIOUS
<1>4. \A i \in 1..n : s[i] = w[c[i]]
  OBVIOUS
<1>5. \A i \in 1..n : s[i] \in Seq(D) /\ Sorted(s[i], L)
  BY <1>3 DEF LeavesUnder
<1>6. ASSUME NEW i \in 1..n, NEW j \in 1..n, i < j PROVE Before(s[i], s[j], L)
  <2> HIDE DEF s
  <2>1. LeavesUnder(s[i], pgs, h, o, LeafOrder(pgs), pgs[p].kids[i])
    BY <1>3, <1>4
  <2>2. LeavesUnder(s[j], pgs, h, o, LeafOrder(pgs), pgs[p].kids[j])
    BY <1>3, <1>4
  <2>3. QED
    BY <1>6, <2>1, <2>2, KidsInOrder
<1>7. s \in [1..n -> Seq(D)]
  BY <1>5
<1> HIDE DEF L, s, n, D
<1>8. t \in Seq(D) /\ Sorted(t, L) /\ Gathers(t, s, n)
  <2>1. Len(s) = n
    BY <1>1, <1>7, FunLen
  <2>2. \A i \in 1..n : Sorted(s[i], L)
    BY <1>5
  <2>3. \A i, j \in 1..n : i < j => Before(s[i], s[j], L)
    BY <1>6
  <2>4. QED
    BY <1>1, <1>7, <2>1, <2>2, <2>3, FlattenSorted
<1> HIDE DEF t
<1>9. ASSUME NEW x \in ToSet(t) PROVE h[x] = 0 /\ \A k \in Int : k \in o[x] => k \in o[p]
  <2>1. PICK i \in 1..n : x \in ToSet(w[c[i]])
    BY <1>4, <1>8 DEF Gathers
  <2>2. h[x] = 0 /\ \A k \in Int : k \in o[x] => k \in o[c[i]]
    BY <1>3, <2>1 DEF LeavesUnder
  <2>3. \A k \in Int : k \in o[c[i]] => k \in o[p]
    BY KidOwned DEF n
  <2>4. QED
    BY <2>2, <2>3
<1>10. ASSUME NEW x \in 1..Len(pgs), NEW k \in Int, h[x] = 0, k \in o[x], k \in o[p] PROVE x \in ToSet(t)
  <2>1. InternalOK(pgs[p], Below(h, h[p])) /\ Sees(pgs[p], o[p], o)
    BY KidIs
  <2> DEFINE i == Partition(pgs[p].keys, k)
  <2>2. /\ i \in 1..(Len(pgs[p].keys) + 1) /\ route_key(pgs[p], k) = c[i]
        /\ k \in o[route_key(pgs[p], k)]
    BY <1>10, <2>1, RouteSees
  <2> HIDE DEF i, c
  <2>3. i \in 1..n /\ k \in o[c[i]]
    BY <2>2, KidCount DEF n
  <2>4. x \in ToSet(w[c[i]])
    BY <1>3, <1>10, <2>3 DEF LeavesUnder
  <2>5. QED
    BY <1>4, <1>8, <2>3, <2>4 DEF Gathers
<1>11. LeavesUnder(t, pgs, h, o, L, p)
  BY <1>8, <1>9, <1>10 DEF LeavesUnder, D
<1>12. QED
  BY <1>2, <1>11 DEF L

\* The unfolding of every page lists the leaves under it.
LEMMA AllUnder ==
    ASSUME NEW pgs, NEW h, TreeOK(pgs, h), NEW o, Owned(pgs, h, o), Filled(pgs), NEW w, Unfolds(w, pgs, h)
    PROVE  \A p \in 1..Len(pgs) : LeavesUnder(w[p], pgs, h, o, LeafOrder(pgs), p)
<1> DEFINE H == h[1]
           N == Len(pgs)
           OK(p) == LeavesUnder(w[p], pgs, h, o, LeafOrder(pgs), p)
           T == {d \in 0..H : \A p \in 1..N : h[p] = d => OK(p)}
<1>1. H \in Nat /\ \A p \in 1..N : h[p] \in Nat /\ h[p] <= H
  BY TreeParts
<1>2. \A p \in 1..N : w[p] = IF h[p] = 0 THEN <<p>> ELSE Gathered(pgs, p, w)
  BY DEF Unfolds
<1>3. 0 \in T
  <2>1. ASSUME NEW p \in 1..N, h[p] = 0 PROVE OK(p)
    <3>1. w[p] = <<p>>
      BY <1>2, <2>1
    <3>2. LeavesUnder(<<p>>, pgs, h, o, LeafOrder(pgs), p)
      BY <2>1, LeafUnder
    <3>3. QED
      BY <3>1, <3>2
  <2> HIDE DEF OK
  <2>2. QED
    BY <1>1, <2>1
<1>4. ASSUME NEW d \in 0..(H - 1), d \in T PROVE d + 1 \in T
  <2>1. ASSUME NEW p \in 1..N, h[p] = d + 1 PROVE OK(p)
    <3>1. h[p] # 0 /\ h[p] - 1 = d
      BY <1>1, <2>1
    <3>2. ASSUME NEW i \in 1..Len(pgs[p].kids) PROVE OK(pgs[p].kids[i])
      <4>1. pgs[p].kids[i] \in 1..N /\ h[pgs[p].kids[i]] = d
        BY <3>1, KidHeight
      <4> HIDE DEF OK
      <4>2. QED
        BY <1>4, <4>1
    <3>3. LeavesUnder(Gathered(pgs, p, w), pgs, h, o, LeafOrder(pgs), p)
      BY <3>1, <3>2, GatheredUnder
    <3>4. QED
      BY <1>2, <3>1, <3>3
  <2>2. d + 1 \in 0..H
    BY <1>1
  <2> HIDE DEF OK
  <2>3. QED
    BY <2>1, <2>2
<1>5. \A d \in 0..H : d \in T
  <2> HIDE DEF T
  <2>1. QED
    BY <1>1, <1>3, <1>4, BoundedInduction
<1>6. \A p \in 1..N : h[p] \in 0..H
  BY <1>1
<1> HIDE DEF OK
<1>7. \A p \in 1..N : OK(p)
  BY <1>5, <1>6
<1>8. QED
  BY <1>7 DEF OK

\* The leaves under the root are the leaves, each once, in their order.
LEMMA LeavesListed ==
    ASSUME NEW pgs, NEW h, TreeOK(pgs, h), NEW o, Owned(pgs, h, o), Filled(pgs)
    PROVE  /\ LeavesInOrder(pgs) \in Seq(1..Len(pgs))
           /\ \A x : x \in ToSet(LeavesInOrder(pgs)) <=> x \in LeafIds(pgs)
           /\ Sorted(LeavesInOrder(pgs), LeafOrder(pgs))
<1>1. PICK w : Unfolds(w, pgs, h) /\ LeavesInOrder(pgs) = w[1]
  BY UnfoldExists
<1> DEFINE s == LeavesInOrder(pgs)
<1>2. 1 \in 1..Len(pgs)
  BY TreeParts
<1>3. LeavesUnder(s, pgs, h, o, LeafOrder(pgs), 1)
  BY <1>1, <1>2, AllUnder
<1> HIDE DEF s
<1>4. s \in Seq(1..Len(pgs)) /\ Sorted(s, LeafOrder(pgs))
  BY <1>3 DEF LeavesUnder
<1>5. ASSUME NEW x \in ToSet(s) PROVE x \in LeafIds(pgs)
  <2>1. x \in 1..Len(pgs)
    BY <1>4, InSeq
  <2>2. h[x] = 0
    BY <1>3 DEF LeavesUnder
  <2>3. QED
    BY <2>1, <2>2, LeafIdsAre
<1>6. ASSUME NEW x \in LeafIds(pgs) PROVE x \in ToSet(s)
  <2>1. x \in 1..Len(pgs) /\ h[x] = 0
    BY LeafIdsAre
  <2>2. PICK k \in Int : k \in o[x]
    BY <2>1, AllOwn DEF Owns
  <2>3. k \in o[1]
    BY DEF Owned, Owners
  <2>4. QED
    BY <1>3, <2>1, <2>2, <2>3 DEF LeavesUnder
<1>7. QED
  BY <1>4, <1>5, <1>6 DEF s

-----------------------------------------------------------------------------
(* The links of the leaves, their records, and the descents to them. *)

\* The entry at a place of a sequence, 0 beside it.
Entry(s, i) == IF i \in DOMAIN s THEN s[i] ELSE 0

\* In a sorted list of all pages the next link leads to the next entry.
LEMMA NextListed ==
    ASSUME NEW pgs, NEW S, NEW L, Orders(L, S), Links(pgs, S, L), NEW s \in Seq(S),
           \A x \in S : x \in ToSet(s), Sorted(s, L), NEW i \in 1..Len(s)
    PROVE  pgs[s[i]].next = Entry(s, i + 1)
<1> DEFINE n == Len(s)
           p == s[i]
           q == pgs[s[i]].next
<1>1. n \in Nat /\ DOMAIN s = 1..n /\ i \in 1..n
  OBVIOUS
<1>2. \A j \in 1..n : s[j] \in S
  OBVIOUS
<1>3. \A j, k \in 1..n : j < k => <<s[j], s[k]>> \in L
  BY DEF Sorted
<1>4. \A x \in S : \E j \in 1..n : x = s[j]
  BY InSeq
<1>5. NextOK(pgs, S, L, p)
  BY <1>1, <1>2 DEF Links
<1>6. p \in S /\ <<p, p>> \notin L
  BY <1>1, <1>2 DEF Orders
<1> HIDE DEF n
<1>7. i + 1 \in 1..n => <<p, s[i + 1]>> \in L /\ s[i + 1] \in S
  <2>1. ASSUME i + 1 \in 1..n PROVE <<p, s[i + 1]>> \in L /\ s[i + 1] \in S
    <3>1. i < i + 1
      BY <1>1
    <3>2. QED
      BY <1>1, <1>2, <1>3, <2>1, <3>1
  <2>2. QED
    BY <2>1
<1> HIDE DEF p, q
<1>8. CASE q = 0
  <2>1. \A x \in S : <<p, x>> \notin L
    BY <1>5, <1>8 DEF NextOK, p, q
  <2>2. i + 1 \notin 1..n
    BY <1>7, <2>1
  <2>3. Entry(s, i + 1) = 0
    BY <1>1, <2>2 DEF Entry
  <2>4. QED
    BY <1>8, <2>3 DEF q
<1>9. CASE q # 0
  <2>1. q \in S /\ <<p, q>> \in L /\ \A x \in S : ~(<<p, x>> \in L /\ <<x, q>> \in L)
    BY <1>5, <1>9 DEF NextOK, p, q
  <2>2. PICK j \in 1..n : q = s[j]
    BY <1>4, <2>1
  <2>3. j # i
    BY <1>6, <2>1, <2>2 DEF p
  <2>4. ~(j < i)
    <3>1. SUFFICES ASSUME j < i PROVE FALSE
      OBVIOUS
    <3>2. <<q, p>> \in L
      BY <1>1, <1>3, <2>2, <3>1 DEF p
    <3>3. <<p, p>> \in L
      BY <1>6, <2>1, <3>2 DEF Orders
    <3>4. QED
      BY <1>6, <3>3
  <2>5. i + 1 \in 1..n /\ (j = i + 1 \/ i + 1 < j)
    BY <1>1, <2>3, <2>4
  <2>6. ~(i + 1 < j)
    BY <1>3, <1>7, <2>1, <2>2, <2>5
  <2>7. j = i + 1
    BY <2>5, <2>6
  <2>8. Entry(s, i + 1) = q
    BY <1>1, <2>2, <2>5, <2>7 DEF Entry
  <2>9. QED
    BY <2>8 DEF q
<1>10. QED
  BY <1>8, <1>9

\* And the prev link to the one before.
LEMMA PrevListed ==
    ASSUME NEW pgs, NEW S, 0 \notin S, NEW L, Orders(L, S), Links(pgs, S, L), NEW s \in Seq(S),
           \A x \in S : x \in ToSet(s), Sorted(s, L), NEW i \in 1..Len(s)
    PROVE  pgs[s[i]].prev = Entry(s, i - 1)
<1> DEFINE n == Len(s)
           p == s[i]
           q == pgs[s[i]].prev
<1>1. n \in Nat /\ DOMAIN s = 1..n /\ i \in 1..n
  OBVIOUS
<1>2. \A j \in 1..n : s[j] \in S
  OBVIOUS
<1>3. \A j, k \in 1..n : j < k => <<s[j], s[k]>> \in L
  BY DEF Sorted
<1>4. \A x \in S : \E j \in 1..n : x = s[j]
  BY InSeq
<1>5. PrevOK(pgs, S, L, p)
  BY <1>1, <1>2 DEF Links
<1>6. p \in S /\ p # 0
  BY <1>1, <1>2
<1>7. \A j \in 1..n : pgs[s[j]].next = Entry(s, j + 1)
  BY NextListed
<1>8. \A x \in S : <<x, x>> \notin L
  BY DEF Orders
<1> HIDE DEF n, p, q
<1>9. CASE q = 0
  <2>1. \A x \in S : <<x, p>> \notin L
    BY <1>5, <1>9 DEF PrevOK, p, q
  <2>2. i - 1 \notin 1..n
    <3>1. SUFFICES ASSUME i - 1 \in 1..n PROVE FALSE
      OBVIOUS
    <3>2. i - 1 < i
      BY <1>1
    <3>3. <<s[i - 1], p>> \in L /\ s[i - 1] \in S
      BY <1>1, <1>2, <1>3, <3>1, <3>2 DEF p
    <3>4. QED
      BY <2>1, <3>3
  <2>3. Entry(s, i - 1) = 0
    BY <1>1, <2>2 DEF Entry
  <2>4. QED
    BY <1>9, <2>3 DEF q
<1>10. CASE q # 0
  <2>1. q \in S /\ pgs[q].next = p
    BY <1>5, <1>10 DEF PrevOK, p, q
  <2>2. PICK j \in 1..n : q = s[j]
    BY <1>4, <2>1
  <2>3. Entry(s, j + 1) = p
    BY <1>7, <2>1, <2>2
  <2>4. j + 1 \in 1..n /\ s[j + 1] = p
    BY <1>1, <1>6, <2>3 DEF Entry
  <2>5. j + 1 = i
    <3>1. <<p, p>> \notin L
      BY <1>6, <1>8
    <3>2. ~(j + 1 < i) /\ ~(i < j + 1)
      BY <1>1, <1>3, <2>4, <3>1 DEF p
    <3>3. QED
      BY <1>1, <2>4, <3>2
  <2>6. i - 1 = j
    BY <1>1, <2>2, <2>5
  <2>7. Entry(s, i - 1) = q
    BY <1>1, <2>2, <2>6 DEF Entry
  <2>8. QED
    BY <2>7 DEF q
<1>11. QED
  BY <1>9, <1>10

\* The sibling links are the leaves in order.
LEMMA LinksListed ==
    ASSUME NEW pgs, NEW h, TreeOK(pgs, h), NEW o, Owned(pgs, h, o), LeafChain(pgs),
           NEW i \in DOMAIN LeavesInOrder(pgs)
    PROVE  /\ pgs[LeavesInOrder(pgs)[i]].prev = Entry(LeavesInOrder(pgs), i - 1)
           /\ pgs[LeavesInOrder(pgs)[i]].next = Entry(LeavesInOrder(pgs), i + 1)
<1> DEFINE s == LeavesInOrder(pgs)
           S == LeafIds(pgs)
           L == LeafOrder(pgs)
<1>1. Filled(pgs) /\ Links(pgs, S, L)
  BY DEF LeafChain
<1>2. s \in Seq(1..Len(pgs)) /\ (\A x : x \in ToSet(s) <=> x \in S) /\ Sorted(s, L)
  BY <1>1, LeavesListed
<1>3. Orders(L, S)
  BY <1>1, LeavesOrdered
<1>4. 0 \notin S
  BY LeafIdsAre
<1>5. i \in DOMAIN s
  OBVIOUS
<1> HIDE DEF s, S, L
<1>6. s \in Seq(S) /\ i \in 1..Len(s)
  <2>1. DOMAIN s = 1..Len(s) /\ Len(s) \in Nat
    BY <1>2
  <2>2. \A j \in 1..Len(s) : s[j] \in S
    BY <1>2, InSeq
  <2>3. s = [j \in 1..Len(s) |-> s[j]]
    BY <1>2, <2>1
  <2>4. s \in [1..Len(s) -> S]
    BY <2>2, <2>3
  <2>5. QED
    BY <1>5, <2>1, <2>4, SeqDef
<1>7. \A x \in S : x \in ToSet(s)
  BY <1>2
<1>8. pgs[s[i]].next = Entry(s, i + 1)
  BY <1>1, <1>2, <1>3, <1>6, <1>7, NextListed
<1>9. pgs[s[i]].prev = Entry(s, i - 1)
  BY <1>1, <1>2, <1>3, <1>4, <1>6, <1>7, PrevListed
<1>10. QED
  BY <1>8, <1>9 DEF s

-----------------------------------------------------------------------------
(* The records of all leaves, and the shape of the tree. *)

\* x is a record of a leaf.
Stored(pgs, x) == \E p \in LeafIds(pgs) : x \in ToSet(pgs[p].records)

\* Records in the order of their keys.
ByRowId == {e \in Records \X Records : e[1].row_id < e[2].row_id}

\* Membership in ByRowId.
LEMMA ByRowIdIs ==
    ASSUME NEW x \in Records, NEW y \in Records
    PROVE  <<x, y>> \in ByRowId <=> x.row_id < y.row_id
BY DEF ByRowId

\* The records of a leaf ascend.
LEMMA LeafRecords ==
    ASSUME NEW pgs, NEW h, TreeOK(pgs, h), NEW o, Owned(pgs, h, o), NEW p \in LeafIds(pgs)
    PROVE  /\ p \in 1..Len(pgs) /\ h[p] = 0 /\ pgs[p].records \in Seq(Records)
           /\ Ascending(pgs[p].records) /\ Sorted(pgs[p].records, ByRowId)
<1> DEFINE r == pgs[p].records
<1>1. p \in 1..Len(pgs) /\ h[p] = 0
  BY LeafIdsAre
<1>2. LeafOK(pgs[p])
  BY <1>1, KindOf
<1>3. r \in Seq(Records)
  BY <1>2, LeafParts
<1>4. Ascending(r)
  BY <1>1 DEF Owned, NodeOrd, LeafOrd
<1> HIDE DEF r
<1>5. DOMAIN r = 1..Len(r) /\ \A i \in 1..Len(r) : r[i] \in Records
  BY <1>3, ElementOfSeq
<1>6. Sorted(r, ByRowId)
  <2>1. ASSUME NEW i \in 1..Len(r), NEW j \in 1..Len(r), i < j PROVE <<r[i], r[j]>> \in ByRowId
    <3>1. r[i].row_id < r[j].row_id
      BY <1>4, <1>5, <2>1 DEF Ascending
    <3>2. QED
      BY <1>5, <3>1, ByRowIdIs
  <2>2. QED
    BY <2>1 DEF Sorted
<1>7. QED
  BY <1>1, <1>3, <1>4, <1>6 DEF r

\* The records of a leaf come before those of a later one.
LEMMA LeafBefore ==
    ASSUME NEW pgs, NEW h, TreeOK(pgs, h), NEW o, Owned(pgs, h, o), Filled(pgs),
           NEW p \in LeafIds(pgs), NEW q \in LeafIds(pgs), <<p, q>> \in LeafOrder(pgs)
    PROVE  Before(pgs[p].records, pgs[q].records, ByRowId)
<1>1. p \in 1..Len(pgs) /\ h[p] = 0 /\ q \in 1..Len(pgs) /\ h[q] = 0
  BY LeafIdsAre
<1>2. p # q /\ Lower(o, p, q)
  BY OrderIs
<1>3. PICK a \in o[p], b \in o[q] : a < b
  BY <1>2 DEF Lower
<1>4. a \in Int /\ b \in Int
  BY <1>1 DEF Owned, Owners
<1>5. ASSUME NEW x \in ToSet(pgs[p].records), NEW y \in ToSet(pgs[q].records) PROVE <<x, y>> \in ByRowId
  <2>1. x.row_id \in Int /\ x.row_id \in o[p] /\ x \in Records
    BY <1>1, RecordOwned
  <2>2. y.row_id \in Int /\ y.row_id \in o[q] /\ y \in Records
    BY <1>1, RecordOwned
  <2>3. x.row_id < y.row_id
    BY <1>1, <1>2, <1>3, <1>4, <2>1, <2>2, SideBySide
  <2>4. QED
    BY <2>1, <2>2, <2>3, ByRowIdIs
<1>6. QED
  BY <1>5 DEF Before

\* All records in the order of the leaves: each one, in the order of their keys.
LEMMA RecordsListed ==
    ASSUME NEW pgs, NEW h, TreeOK(pgs, h), NEW o, Owned(pgs, h, o), Filled(pgs)
    PROVE  /\ AllRecords(pgs) \in Seq(Records) /\ Ascending(AllRecords(pgs))
           /\ \A x : x \in ToSet(AllRecords(pgs)) <=> Stored(pgs, x)
<1> DEFINE l == LeavesInOrder(pgs)
           n == Len(l)
           s == [i \in 1..n |-> pgs[l[i]].records]
           t == FlattenSeq(s)
<1>1. l \in Seq(1..Len(pgs)) /\ (\A x : x \in ToSet(l) <=> x \in LeafIds(pgs)) /\ Sorted(l, LeafOrder(pgs))
  BY LeavesListed
<1>2. AllRecords(pgs) = t
  <2>1. DOMAIN l = 1..n
    BY <1>1
  <2> HIDE DEF l, n
  <2>2. QED
    BY <2>1 DEF AllRecords, l
<1> HIDE DEF l
<1>3. \A x : x \in ToSet(l) <=> \E i \in 1..n : x = l[i]
  BY <1>1, InSeq
<1>4. n \in Nat \ {0}
  <2>1. n \in Nat
    BY <1>1
  <2>2. LeafFor(pgs, 0) \in 1..Len(pgs) /\ h[LeafFor(pgs, 0)] = 0
    BY LeafOwned
  <2>3. LeafFor(pgs, 0) \in LeafIds(pgs)
    BY <2>2, LeafIdsAre
  <2>4. PICK i \in 1..n : LeafFor(pgs, 0) = l[i]
    BY <1>1, <1>3, <2>3
  <2> HIDE DEF n
  <2>5. n # 0
    BY <2>1, <2>4
  <2>6. QED
    BY <2>1, <2>5
<1>5. \A i, j \in 1..n : i < j => <<l[i], l[j]>> \in LeafOrder(pgs)
  BY <1>1 DEF Sorted
<1>6. \A i \in 1..n : l[i] \in LeafIds(pgs)
  BY <1>1, <1>3
<1> HIDE DEF n
<1>7. \A i \in 1..n : s[i] = pgs[l[i]].records
  OBVIOUS
<1>8. ASSUME NEW i \in 1..n PROVE pgs[l[i]].records \in Seq(Records) /\ Sorted(pgs[l[i]].records, ByRowId)
  BY <1>6, LeafRecords
<1>9. s \in [1..n -> Seq(Records)]
  BY <1>8
<1> HIDE DEF s
<1>10. \A i \in 1..n : Sorted(s[i], ByRowId)
  BY <1>7, <1>8
<1>11. ASSUME NEW i \in 1..n, NEW j \in 1..n, i < j PROVE Before(s[i], s[j], ByRowId)
  <2>1. l[i] \in LeafIds(pgs) /\ l[j] \in LeafIds(pgs) /\ <<l[i], l[j]>> \in LeafOrder(pgs)
    BY <1>5, <1>6, <1>11
  <2>2. Before(pgs[l[i]].records, pgs[l[j]].records, ByRowId)
    BY <2>1, LeafBefore
  <2>3. QED
    BY <1>7, <2>2
<1>12. t \in Seq(Records) /\ Sorted(t, ByRowId) /\ Gathers(t, s, n)
  <2>1. Len(s) = n
    BY <1>4, <1>9, FunLen
  <2>2. \A i, j \in 1..n : i < j => Before(s[i], s[j], ByRowId)
    BY <1>11
  <2>3. QED
    BY <1>4, <1>9, <1>10, <2>1, <2>2, FlattenSorted
<1> HIDE DEF t
<1>13. Ascending(t)
  <2>1. DOMAIN t = 1..Len(t) /\ \A i \in 1..Len(t) : t[i] \in Records
    BY <1>12, ElementOfSeq
  <2>2. ASSUME NEW i \in 1..Len(t), NEW j \in 1..Len(t), i < j PROVE t[i].row_id < t[j].row_id
    <3>1. <<t[i], t[j]>> \in ByRowId
      BY <1>12, <2>2 DEF Sorted
    <3>2. QED
      BY <2>1, <3>1, ByRowIdIs
  <2>3. QED
    BY <2>1, <2>2 DEF Ascending
<1>14. ASSUME NEW x PROVE x \in ToSet(t) <=> Stored(pgs, x)
  <2>1. x \in ToSet(t) <=> \E i \in 1..n : x \in ToSet(pgs[l[i]].records)
    BY <1>7, <1>12 DEF Gathers
  <2>2. \A p \in LeafIds(pgs) : \E i \in 1..n : p = l[i]
    BY <1>1, <1>3
  <2>3. QED
    BY <1>6, <2>1, <2>2 DEF Stored
<1>15. QED
  BY <1>2, <1>12, <1>13, <1>14

\* A descent for a stored key ends at its leaf.
LEMMA FindsLeaf ==
    ASSUME NEW pgs, NEW h, TreeOK(pgs, h), NEW o, Owned(pgs, h, o), NEW p \in LeafIds(pgs),
           NEW x \in ToSet(pgs[p].records)
    PROVE  LeafFor(pgs, x.row_id) = p
<1>1. p \in 1..Len(pgs) /\ h[p] = 0
  BY LeafIdsAre
<1>2. x.row_id \in Int /\ x.row_id \in o[p]
  BY <1>1, RecordOwned
<1> DEFINE k == x.row_id
           q == LeafFor(pgs, k)
<1>3. q \in 1..Len(pgs) /\ h[q] = 0 /\ k \in o[q]
  BY <1>2, LeafOwned
<1>4. Owners(o, h, Len(pgs))
  BY DEF Owned
<1> HIDE DEF q
<1>5. q = p
  BY <1>1, <1>2, <1>3, <1>4, OneOwner
<1>6. QED
  BY <1>5 DEF q

\* An ordered tree with a chain of leaves has the shape.
LEMMA ShapeHolds ==
    ASSUME NEW h, TreeOK(pages, h), NEW o, Owned(pages, h, o), LeafChain(pages)
    PROVE  TreeShape
<1> DEFINE leaves == LeavesInOrder(pages)
           kids == FlattenSeq([p \in DOMAIN pages |-> IF IsLeaf(pages[p]) THEN <<>> ELSE pages[p].kids])
<1>1. DOMAIN pages = 1..Len(pages)
  BY TreeParts
<1>2. Filled(pages)
  BY DEF LeafChain
<1>3. ToSet(kids) = DOMAIN pages \ {Root} /\ Len(kids) = Len(pages) - 1
  <2>1. kids = FlattenSeq(KidsOf(pages))
    BY DEF KidsOf
  <2>2. QED
    BY <1>1, <1>2, <2>1, ReachedOnce DEF Root
<1>4. Ascending(AllRecords(pages))
  BY <1>2, RecordsListed
<1>5. ASSUME NEW i \in DOMAIN leaves
      PROVE  /\ pages[leaves[i]].prev = IF i - 1 \in DOMAIN leaves THEN leaves[i - 1] ELSE None
             /\ pages[leaves[i]].next = IF i + 1 \in DOMAIN leaves THEN leaves[i + 1] ELSE None
  BY LinksListed DEF Entry, None
<1>6. ASSUME NEW p \in LeafIds(pages), NEW i \in DOMAIN pages[p].records
      PROVE  LeafFor(pages, pages[p].records[i].row_id) = p
  <2>1. pages[p].records[i] \in ToSet(pages[p].records)
    BY DEF ToSet
  <2>2. QED
    BY <2>1, FindsLeaf
<1> HIDE DEF leaves, kids
<1>7. QED
  BY <1>3, <1>4, <1>5, <1>6 DEF TreeShape, leaves, kids

-----------------------------------------------------------------------------
(* Descents that take the same child whatever the key, and the rightmost leaf. *)

\* r picks a child of every internal page.
Picks(r, pgs, h) ==
    /\ DOMAIN r = 1..Len(pgs)
    /\ \A p \in 1..Len(pgs) : h[p] # 0 => r[p] \in 1..Len(pgs) /\ h[r[p]] = h[p] - 1

\* w leads from a page down to a leaf along r.
LeadsTo(w, r, pgs, h) ==
    /\ w = [p \in 1..Len(pgs) |-> w[p]]
    /\ \A p \in 1..Len(pgs) : w[p] = IF h[p] = 0 THEN p ELSE w[r[p]]

\* Such a descent exists, by induction on the height.
LEMMA DescentExists ==
    ASSUME NEW pgs, NEW h, TreeOK(pgs, h), NEW r, Picks(r, pgs, h)
    PROVE  \E w : LeadsTo(w, r, pgs, h)
<1> DEFINE N == Len(pgs)
           D == 1..N
           H == h[1]
           V == [D -> D]
           step(v) == [p \in D |-> IF h[p] = 0 THEN p ELSE v[r[p]]]
           a == [p \in D |-> p]
           g == [k \in 1..H |-> [v \in V |-> step(v)]]
<1>1. H \in Nat /\ \A p \in D : h[p] \in Nat /\ h[p] \in 0..H
  <2>1. \A p \in D : h[p] \in Nat /\ h[p] <= H /\ H \in Nat
    BY TreeParts
  <2>2. H \in Nat
    BY TreeParts
  <2> HIDE DEF H, N
  <2>3. QED
    BY <2>1, <2>2
<1>2. \A p \in D : h[p] # 0 => r[p] \in D /\ h[r[p]] = h[p] - 1
  BY DEF Picks
<1> HIDE DEF N, H
<1>3. a \in V
  OBVIOUS
<1>4. ASSUME NEW v \in V PROVE step(v) \in V
  BY <1>2
<1>5. g \in [1..H -> [V -> V]]
  <2> HIDE DEF V, step
  <2>1. QED
    BY <1>4
<1>6. \A k \in 1..H, v \in V : g[k][v] = step(v)
  <2> HIDE DEF V, step
  <2>1. QED
    OBVIOUS
<1>7. PICK f : IsRecursive(f, H, V, a, g)
  <2> HIDE DEF V, a, g
  <2>1. QED
    BY <1>1, <1>3, <1>5, RecursiveFunction
<1>8. f \in [0..H -> V] /\ f[0] = a /\ \A k \in 1..H : f[k] = g[k][f[k - 1]]
  <2> HIDE DEF V, a, g
  <2>1. QED
    BY <1>7 DEF IsRecursive
<1>9. \A k \in 1..H : f[k] = step(f[k - 1])
  <2> HIDE DEF V, a, g, step
  <2>1. ASSUME NEW k \in 1..H PROVE f[k] = step(f[k - 1])
    <3>1. k - 1 \in 0..H
      BY <1>1
    <3>2. f[k - 1] \in V
      BY <1>8, <3>1
    <3>3. QED
      BY <1>6, <1>8, <3>2
  <2>2. QED
    BY <2>1
<1>10. \A p \in D : f[0][p] = p
  BY <1>8
<1>11. ASSUME NEW p \in D, NEW k \in 1..H, h[p] # 0 PROVE f[k][p] = f[k - 1][r[p]]
  <2>1. f[k] = step(f[k - 1])
    BY <1>9
  <2>2. step(f[k - 1])[p] = f[k - 1][r[p]]
    BY <1>11
  <2> HIDE DEF step
  <2>3. QED
    BY <2>1, <2>2
<1> DEFINE d == [p \in D |-> f[h[p]][p]]
<1>12. d = [p \in D |-> d[p]] /\ \A p \in D : d[p] = f[h[p]][p]
  OBVIOUS
<1> HIDE DEF d
<1>13. ASSUME NEW p \in D PROVE d[p] = IF h[p] = 0 THEN p ELSE d[r[p]]
  <2>1. CASE h[p] = 0
    BY <1>10, <1>12, <2>1
  <2>2. CASE h[p] # 0
    <3>1. h[p] \in 1..H /\ r[p] \in D /\ h[r[p]] = h[p] - 1
      BY <1>1, <1>2, <2>2
    <3>2. d[p] = f[h[p] - 1][r[p]]
      BY <1>11, <1>12, <2>2, <3>1
    <3>3. d[r[p]] = f[h[p] - 1][r[p]]
      BY <1>12, <3>1
    <3>4. QED
      BY <2>2, <3>2, <3>3
  <2>3. QED
    BY <2>1, <2>2
<1>14. LeadsTo(d, r, pgs, h)
  BY <1>12, <1>13 DEF LeadsTo, N
<1>15. QED
  BY <1>14

\* The choice of the last child.
Rightmost(pgs) == [p \in DOMAIN pgs |-> Last(pgs[p].kids)]

\* The last child is a child.
LEMMA RightmostPicks ==
    ASSUME NEW pgs, NEW h, TreeOK(pgs, h)
    PROVE  /\ Picks(Rightmost(pgs), pgs, h)
           /\ \A p \in 1..Len(pgs) : h[p] # 0 =>
                /\ Len(pgs[p].kids) \in 1..Len(pgs[p].kids)
                /\ Rightmost(pgs)[p] = pgs[p].kids[Len(pgs[p].kids)]
<1>1. DOMAIN pgs = 1..Len(pgs)
  BY TreeParts
<1>2. DOMAIN Rightmost(pgs) = 1..Len(pgs)
  BY <1>1 DEF Rightmost
<1>3. ASSUME NEW p \in 1..Len(pgs), h[p] # 0
      PROVE  /\ Len(pgs[p].kids) \in 1..Len(pgs[p].kids)
             /\ Rightmost(pgs)[p] = pgs[p].kids[Len(pgs[p].kids)]
  <2>1. Rightmost(pgs)[p] = Last(pgs[p].kids)
    BY <1>1 DEF Rightmost
  <2>2. Last(pgs[p].kids) = pgs[p].kids[Len(pgs[p].kids)]
    BY DEF Last
  <2> DEFINE n == Len(pgs[p].kids)
  <2>3. n \in Nat \ {0}
    BY <1>3, KidCount
  <2> HIDE DEF n
  <2>4. n \in 1..n
    BY <2>3
  <2>5. QED
    BY <2>1, <2>2, <2>4 DEF n
<1>4. ASSUME NEW p \in 1..Len(pgs), h[p] # 0
      PROVE  Rightmost(pgs)[p] \in 1..Len(pgs) /\ h[Rightmost(pgs)[p]] = h[p] - 1
  BY <1>3, <1>4, KidHeight
<1>5. QED
  BY <1>2, <1>3, <1>4 DEF Picks

\* R owns, of what S owns, all keys from some key on.
UpperPart(R, S) == (\A k \in R : k \in S) /\ \A a \in R, b \in S : a < b => b \in R

\* The last child owns the upper part of what its parent owns.
LEMMA LastKidUpper ==
    ASSUME NEW pgs, NEW h, TreeOK(pgs, h), NEW o, Owned(pgs, h, o), NEW p \in 1..Len(pgs), h[p] # 0
    PROVE  UpperPart(o[Rightmost(pgs)[p]], o[p])
<1> DEFINE n == Len(pgs[p].kids)
           keys == pgs[p].keys
           c == Rightmost(pgs)[p]
<1>1. n \in 1..n /\ c = pgs[p].kids[n]
  BY RightmostPicks
<1>2. n = Len(keys) + 1 /\ keys \in Seq(Keys)
  BY KidCount
<1>3. Sees(pgs[p], o[p], o)
  BY KidIs
<1>4. n \in 1..(Len(keys) + 1)
  BY <1>1, <1>2
<1>5. \A k \in Int : k \in o[c] <=> k \in o[p] /\ InSlot(keys, n, k)
  BY <1>1, <1>3, <1>4 DEF Sees
<1>6. c \in 1..Len(pgs)
  BY <1>1, KidHeight
<1>7. o[c] \subseteq Int /\ o[p] \subseteq Int
  BY <1>6 DEF Owned, Owners
<1>8. Len(keys) \in Nat /\ \A i \in 1..Len(keys) : keys[i] \in Int
  BY <1>2, KeyTypes
<1> DEFINE m == Len(keys)
<1>9. \A k \in Int : InSlot(keys, n, k) <=> (n > 1 => keys[n - 1] <= k) /\ (n <= m => k < keys[n])
  BY DEF InSlot
<1>10. m \in Nat /\ n = m + 1 /\ \A i \in 1..m : keys[i] \in Int
  BY <1>2, <1>8
<1> HIDE DEF c, m, n, keys
<1>11. ASSUME NEW a \in o[c], NEW b \in o[p], a < b PROVE b \in o[c]
  <2>1. a \in Int /\ b \in Int
    BY <1>7
  <2>2. n > 1 => keys[n - 1] <= a
    BY <1>5, <1>9, <2>1
  <2>3. n > 1 => keys[n - 1] <= b
    <3>1. SUFFICES ASSUME n > 1 PROVE keys[n - 1] <= b
      OBVIOUS
    <3>2. n - 1 \in 1..m
      BY <1>10, <3>1
    <3>3. keys[n - 1] \in Int
      BY <1>10, <3>2
    <3>4. QED
      BY <1>11, <2>1, <2>2, <3>1, <3>3
  <2>4. ~(n <= m)
    BY <1>10
  <2>5. QED
    BY <1>5, <1>9, <2>1, <2>3, <2>4
<1>12. QED
  BY <1>5, <1>7, <1>11 DEF UpperPart, c

\* So does the leaf at the end of the descent.
LEMMA RightmostUpper ==
    ASSUME NEW pgs, NEW h, TreeOK(pgs, h), NEW o, Owned(pgs, h, o), NEW w, LeadsTo(w, Rightmost(pgs), pgs, h)
    PROVE  \A p \in 1..Len(pgs) : w[p] \in 1..Len(pgs) /\ h[w[p]] = 0 /\ UpperPart(o[w[p]], o[p])
<1> DEFINE H == h[1]
           N == Len(pgs)
           OK(p) == w[p] \in 1..N /\ h[w[p]] = 0 /\ UpperPart(o[w[p]], o[p])
           T == {d \in 0..H : \A p \in 1..N : h[p] = d => OK(p)}
<1>1. H \in Nat /\ \A p \in 1..N : h[p] \in Nat /\ h[p] <= H
  BY TreeParts
<1>2. \A p \in 1..N : w[p] = IF h[p] = 0 THEN p ELSE w[Rightmost(pgs)[p]]
  BY DEF LeadsTo
<1>3. 0 \in T
  <2>1. ASSUME NEW p \in 1..N, h[p] = 0 PROVE OK(p)
    <3>1. w[p] = p
      BY <1>2, <2>1
    <3>2. UpperPart(o[p], o[p])
      BY DEF UpperPart
    <3>3. QED
      BY <2>1, <3>1, <3>2
  <2> HIDE DEF OK
  <2>2. QED
    BY <1>1, <2>1
<1>4. ASSUME NEW d \in 0..(H - 1), d \in T PROVE d + 1 \in T
  <2>1. ASSUME NEW p \in 1..N, h[p] = d + 1 PROVE OK(p)
    <3> DEFINE c == Rightmost(pgs)[p]
    <3>1. h[p] # 0 /\ h[p] - 1 = d
      BY <1>1, <2>1
    <3>2. c \in 1..N /\ h[c] = d /\ w[p] = w[c]
      BY <1>2, <3>1, RightmostPicks DEF Picks
    <3>3. UpperPart(o[c], o[p])
      BY <3>1, LastKidUpper
    <3> HIDE DEF c
    <3>4. OK(c)
      <4> HIDE DEF OK
      <4>1. QED
        BY <1>4, <3>2
    <3>5. UpperPart(o[w[c]], o[p])
      BY <3>3, <3>4 DEF UpperPart
    <3>6. QED
      BY <3>2, <3>4, <3>5
  <2>2. d + 1 \in 0..H
    BY <1>1
  <2> HIDE DEF OK
  <2>3. QED
    BY <2>1, <2>2
<1>5. \A d \in 0..H : d \in T
  <2> HIDE DEF T
  <2>1. QED
    BY <1>1, <1>3, <1>4, BoundedInduction
<1>6. \A p \in 1..N : h[p] \in 0..H
  BY <1>1
<1> HIDE DEF OK
<1>7. \A p \in 1..N : OK(p)
  BY <1>5, <1>6
<1>8. QED
  BY <1>7 DEF OK

\* The leaf get_max_row_id reads.
LastLeaf(pgs, p) ==
    /\ p \in LeafIds(pgs)
    /\ get_max_row_id(pgs) = IF pgs[p].records = <<>> THEN 0 ELSE Last(pgs[p].records).row_id

\* The leaf that get_max_row_id reads owns all keys from some key on.
LEMMA LastLeafIs ==
    ASSUME NEW pgs, NEW h, TreeOK(pgs, h), NEW o, Owned(pgs, h, o)
    PROVE  \E p : LastLeaf(pgs, p) /\ \A a \in o[p], b \in Int : a < b => b \in o[p]
<1> DEFINE body(u) == [p \in DOMAIN pgs |-> IF IsLeaf(pgs[p]) THEN p ELSE u[Last(pgs[p].kids)]]
           w == CHOOSE u : u = body(u)
           N == Len(pgs)
<1>1. DOMAIN pgs = 1..N /\ 1 \in 1..N
  BY TreeParts
<1>2. \A p \in 1..N : IsLeaf(pgs[p]) <=> h[p] = 0
  BY KindOf
<1>3. \A p \in 1..N : Rightmost(pgs)[p] = Last(pgs[p].kids)
  BY <1>1 DEF Rightmost
<1>4. ASSUME NEW u PROVE body(u) = [p \in 1..N |-> IF h[p] = 0 THEN p ELSE u[Rightmost(pgs)[p]]]
  BY <1>1, <1>2, <1>3
<1>5. \E u : u = body(u)
  <2>1. PICK d : LeadsTo(d, Rightmost(pgs), pgs, h)
    BY RightmostPicks, DescentExists
  <2>2. \A p \in 1..N : d[p] = IF h[p] = 0 THEN p ELSE d[Rightmost(pgs)[p]]
    BY <2>1 DEF LeadsTo
  <2>3. body(d) = [p \in 1..N |-> IF h[p] = 0 THEN p ELSE d[Rightmost(pgs)[p]]]
    BY <1>4
  <2>4. d = [p \in 1..N |-> d[p]]
    BY <2>1 DEF LeadsTo
  <2>5. d = body(d)
    <3> HIDE DEF body, N
    <3>1. QED
      BY <2>2, <2>3, <2>4
  <2>6. QED
    BY <2>5
<1>6. w = body(w)
  <2> HIDE DEF body
  <2>1. QED
    BY <1>5
<1>7. get_max_row_id(pgs) = IF pgs[w[1]].records = <<>> THEN 0 ELSE Last(pgs[w[1]].records).row_id
  BY DEF get_max_row_id, Root
<1> HIDE DEF w
<1>8. LeadsTo(w, Rightmost(pgs), pgs, h)
  <2>1. w = [p \in 1..N |-> IF h[p] = 0 THEN p ELSE w[Rightmost(pgs)[p]]]
    <3> HIDE DEF body
    <3>1. QED
      BY <1>4, <1>6
  <2> HIDE DEF N
  <2>2. w = [p \in 1..N |-> w[p]] /\ \A p \in 1..N : w[p] = IF h[p] = 0 THEN p ELSE w[Rightmost(pgs)[p]]
    BY <2>1
  <2>3. QED
    BY <2>2 DEF LeadsTo, N
<1>9. w[1] \in 1..N /\ h[w[1]] = 0 /\ UpperPart(o[w[1]], o[1])
  BY <1>1, <1>8, RightmostUpper
<1>10. \A k \in Int : k \in o[1]
  BY DEF Owned, Owners
<1>11. \A a \in o[w[1]], b \in Int : a < b => b \in o[w[1]]
  BY <1>9, <1>10 DEF UpperPart
<1>12. w[1] \in LeafIds(pgs)
  BY <1>9, LeafIdsAre
<1>13. QED
  BY <1>7, <1>11, <1>12 DEF LastLeaf

\* Nothing stored has a larger key than what get_max_row_id returns, which is
\* 0 or the key of a record.
LEMMA LargestIs ==
    ASSUME NEW pgs, NEW h, TreeOK(pgs, h), NEW o, Owned(pgs, h, o), Filled(pgs)
    PROVE  /\ get_max_row_id(pgs) \in Int /\ get_max_row_id(pgs) >= 0
           /\ get_max_row_id(pgs) # 0 => \E x : Stored(pgs, x) /\ x.row_id = get_max_row_id(pgs)
           /\ \A x : Stored(pgs, x) => x.row_id \in Int /\ x.row_id <= get_max_row_id(pgs)
<1>1. PICK p : LastLeaf(pgs, p) /\ \A a \in o[p], b \in Int : a < b => b \in o[p]
  BY LastLeafIs
<1> DEFINE m == get_max_row_id(pgs)
           r == pgs[p].records
           n == Len(r)
<1>2. p \in LeafIds(pgs) /\ m = IF r = <<>> THEN 0 ELSE Last(r).row_id
  BY <1>1 DEF LastLeaf
<1>3. p \in 1..Len(pgs) /\ h[p] = 0 /\ r \in Seq(Records) /\ Ascending(r)
  BY <1>2, LeafRecords
<1>4. Owners(o, h, Len(pgs))
  BY DEF Owned
<1>5. ASSUME NEW x, Stored(pgs, x)
      PROVE  \E q \in 1..Len(pgs) : /\ h[q] = 0 /\ x \in ToSet(pgs[q].records)
                                    /\ x.row_id \in o[q] /\ x.row_id \in Int
  <2>1. PICK q \in LeafIds(pgs) : x \in ToSet(pgs[q].records)
    BY <1>5 DEF Stored
  <2>2. q \in 1..Len(pgs) /\ h[q] = 0
    BY LeafIdsAre
  <2>3. QED
    BY <2>1, <2>2, RecordOwned
<1>6. CASE r = <<>>
  <2>1. m = 0
    BY <1>2, <1>6
  <2>2. p = 1
    BY <1>2, <1>6 DEF Filled
  <2>3. Len(pgs) = 1
    BY <1>3, <2>2, LoneRoot
  <2>4. \A x : ~(x \in ToSet(<<>>))
    BY DEF ToSet
  <2>5. \A x : ~Stored(pgs, x)
    <3>1. ASSUME NEW x, Stored(pgs, x) PROVE FALSE
      <4>1. PICK q \in 1..Len(pgs) : x \in ToSet(pgs[q].records)
        BY <1>5, <3>1
      <4>2. q = 1
        BY <2>3
      <4>3. QED
        BY <1>6, <2>2, <2>4, <4>1, <4>2
    <3>2. QED
      BY <3>1
  <2> HIDE DEF m
  <2>6. m \in Int /\ m >= 0
    BY <2>1
  <2>7. QED
    BY <2>1, <2>5, <2>6 DEF m
<1>7. CASE r # <<>>
  <2>1. n \in Nat \ {0} /\ DOMAIN r = 1..n /\ \A i \in 1..n : r[i] \in Records
    BY <1>3, <1>7, ElementOfSeq
  <2>2. m = r[n].row_id
    BY <1>2, <1>7 DEF Last
  <2>3. \A i \in 1..n : r[i] \in ToSet(r)
    BY <2>1 DEF ToSet
  <2>4. \A x : x \in ToSet(r) <=> \E i \in 1..n : x = r[i]
    BY <1>3, InSeq
  <2> HIDE DEF n
  <2>5. n \in 1..n
    BY <2>1
  <2>6. r[n] \in ToSet(r) /\ r[n] \in Records
    BY <2>1, <2>3, <2>5
  <2>7. Stored(pgs, r[n])
    BY <1>2, <2>6 DEF Stored
  <2>8. m \in Int /\ m \in o[p]
    BY <1>3, <2>2, <2>6, RecordOwned
  <2>9. m >= 0
    <3>1. r[n].row_id \in Keys
      BY <2>6 DEF Records
    <3>2. \A k \in Keys : k >= 0
      BY KeysAssumption
    <3>3. QED
      BY <2>2, <3>1, <3>2
  <2> HIDE DEF m, r
  <2>10. ASSUME NEW x, Stored(pgs, x) PROVE x.row_id \in Int /\ x.row_id <= m
    <3>1. PICK q \in 1..Len(pgs) : /\ h[q] = 0 /\ x \in ToSet(pgs[q].records)
                                   /\ x.row_id \in o[q] /\ x.row_id \in Int
      BY <1>5, <2>10
    <3>2. CASE q = p
      <4>1. PICK i \in 1..n : x = r[i]
        BY <2>4, <3>1, <3>2 DEF r
      <4>2. CASE i = n
        BY <2>2, <3>1, <4>1, <4>2
      <4>3. CASE i # n
        <5>1. i < n
          BY <2>1, <4>3
        <5>2. x.row_id < m
          BY <1>3, <2>1, <2>2, <2>5, <4>1, <5>1 DEF Ascending
        <5>3. QED
          BY <2>8, <3>1, <5>2
      <4>4. QED
        BY <4>2, <4>3
    <3>3. CASE q # p
      <4>1. x.row_id # m /\ ~(m < x.row_id)
        <5>1. x.row_id \notin o[p]
          BY <1>3, <1>4, <3>1, <3>3, OneOwner
        <5>2. QED
          BY <1>1, <2>8, <3>1, <5>1
      <4>2. QED
        BY <2>8, <3>1, <4>1
    <3>4. QED
      BY <3>2, <3>3
  <2>11. QED
    BY <2>2, <2>7, <2>8, <2>9, <2>10 DEF m
<1>8. QED
  BY <1>6, <1>7

\* The largest element is the maximum.
LEMMA MaxIs ==
    ASSUME NEW S, NEW m \in S, \A y \in S : y \in Int /\ y <= m
    PROVE  Max(S) = m
<1>1. \E x \in S : \A y \in S : x >= y
  OBVIOUS
<1>2. Max(S) \in S /\ \A y \in S : Max(S) >= y
  BY <1>1 DEF Max
<1> DEFINE x == Max(S)
<1> HIDE DEF x
<1>3. x \in S /\ x >= m
  BY <1>2 DEF x
<1>4. x = m
  BY <1>3
<1>5. QED
  BY <1>4 DEF x

\* An ordered tree with a chain of leaves gives its largest key.
LEMMA MaxHolds ==
    ASSUME NEW h, TreeOK(pages, h), NEW o, Owned(pages, h, o), LeafChain(pages)
    PROVE  MaxRowIdIsLargest
<1> DEFINE m == get_max_row_id(pages)
           S == {0} \cup {rec.row_id : rec \in ToSet(AllRecords(pages))}
<1>1. Filled(pages)
  BY DEF LeafChain
<1>2. \A x : x \in ToSet(AllRecords(pages)) <=> Stored(pages, x)
  BY <1>1, RecordsListed
<1>3. /\ m \in Int /\ m >= 0
      /\ m # 0 => \E x : Stored(pages, x) /\ x.row_id = m
      /\ \A x : Stored(pages, x) => x.row_id \in Int /\ x.row_id <= m
  BY <1>1, LargestIs
<1>4. \A y : y \in S <=> y = 0 \/ \E x : Stored(pages, x) /\ y = x.row_id
  BY <1>2
<1> HIDE DEF m, S
<1>5. m \in S
  BY <1>3, <1>4
<1>6. ASSUME NEW y \in S PROVE y \in Int /\ y <= m
  BY <1>3, <1>4
<1>7. Max(S) = m
  BY <1>5, <1>6, MaxIs
<1>8. QED
  BY <1>7 DEF MaxRowIdIsLargest, m, S

-----------------------------------------------------------------------------
(* Recursion that gets nearer to its end with every step. *)

\* Every step from a place outside of T leads to a place with a smaller measure.
Descends(mu, T, r, D) ==
    /\ \A d \in D : mu[d] \in Nat
    /\ \A d \in D : d \notin T => r[d] \in D /\ mu[r[d]] < mu[d]

\* w is b at the places of T and goes along r at the others.
Goes(w, b, T, r, D) ==
    /\ w = [d \in D |-> w[d]]
    /\ \A d \in D : w[d] = IF d \in T THEN b[d] ELSE w[r[d]]

\* Recursion along r has a solution, by induction on a bound of the measure.
LEMMA DescendExists ==
    ASSUME NEW D, NEW T, NEW r, NEW b, NEW mu, Descends(mu, T, r, D),
           NEW M \in Nat, \A d \in D : mu[d] <= M
    PROVE  \E w : Goes(w, b, T, r, D)
<1> DEFINE Upto(w, n) == /\ w = [d \in D |-> w[d]]
                         /\ \A d \in D : mu[d] < n => w[d] = IF d \in T THEN b[d] ELSE w[r[d]]
           S == {n \in Nat : \E w : Upto(w, n)}
<1>1. /\ \A d \in D : mu[d] \in Nat
      /\ \A d \in D : d \notin T => r[d] \in D /\ mu[r[d]] < mu[d]
  BY DEF Descends
<1>2. 0 \in S
  <2> DEFINE w == [d \in D |-> 0]
  <2>1. Upto(w, 0)
    BY <1>1
  <2>2. QED
    BY <2>1
<1>3. ASSUME NEW n \in Nat, n \in S PROVE n + 1 \in S
  <2>1. PICK w : Upto(w, n)
    BY <1>3
  <2> DEFINE new(d) == IF d \in T THEN b[d] ELSE w[r[d]]
             v == [d \in D |-> IF mu[d] = n THEN new(d) ELSE w[d]]
  <2>2. \A d \in D : v[d] = IF mu[d] = n THEN new(d) ELSE w[d]
    OBVIOUS
  <2>3. v = [d \in D |-> v[d]]
    OBVIOUS
  <2> HIDE DEF v
  <2>4. ASSUME NEW d \in D, mu[d] < n + 1 PROVE v[d] = IF d \in T THEN b[d] ELSE v[r[d]]
    <3>1. mu[d] \in Nat /\ (mu[d] = n \/ mu[d] < n)
      BY <1>1, <2>4
    <3>2. CASE d \in T
      BY <2>1, <2>2, <3>1, <3>2
    <3>3. CASE d \notin T
      <4>1. r[d] \in D /\ mu[r[d]] \in Nat /\ mu[r[d]] < mu[d]
        BY <1>1, <3>3
      <4>2. mu[r[d]] # n
        BY <3>1, <4>1
      <4>3. v[r[d]] = w[r[d]]
        BY <2>2, <4>1, <4>2
      <4>4. v[d] = w[r[d]]
        BY <2>1, <2>2, <3>1, <3>3
      <4>5. QED
        BY <3>3, <4>3, <4>4
    <3>4. QED
      BY <3>2, <3>3
  <2>5. Upto(v, n + 1)
    BY <2>3, <2>4
  <2>6. QED
    BY <2>5
<1>4. \A n \in Nat : n \in S
  <2> HIDE DEF S
  <2>1. QED
    BY <1>2, <1>3, Induction
<1>5. PICK w : Upto(w, M + 1)
  BY <1>4
<1>6. \A d \in D : mu[d] < M + 1
  BY <1>1
<1>7. QED
  BY <1>5, <1>6 DEF Goes

\* What holds at the places of T and is passed on along r holds everywhere.
LEMMA DescendHolds ==
    ASSUME NEW D, NEW T, NEW r, NEW mu, Descends(mu, T, r, D),
           NEW P, \A d \in D : d \in T => d \in P,
           \A d \in D : d \notin T /\ r[d] \in P => d \in P
    PROVE  \A d \in D : d \in P
<1> DEFINE S == {n \in Nat : \A d \in D : mu[d] < n => d \in P}
<1>1. /\ \A d \in D : mu[d] \in Nat
      /\ \A d \in D : d \notin T => r[d] \in D /\ mu[r[d]] < mu[d]
  BY DEF Descends
<1>2. 0 \in S
  BY <1>1
<1>3. ASSUME NEW n \in Nat, n \in S PROVE n + 1 \in S
  <2>1. ASSUME NEW d \in D, mu[d] < n + 1 PROVE d \in P
    <3>1. CASE d \in T
      BY <3>1
    <3>2. CASE d \notin T
      <4>1. r[d] \in D /\ mu[r[d]] < mu[d] /\ mu[d] \in Nat /\ mu[r[d]] \in Nat
        BY <1>1, <3>2
      <4>2. mu[r[d]] < n
        BY <2>1, <4>1
      <4>3. QED
        BY <1>3, <3>2, <4>1, <4>2
    <3>3. QED
      BY <3>1, <3>2
  <2>2. QED
    BY <2>1
<1>4. \A n \in Nat : n \in S
  <2> HIDE DEF S
  <2>1. QED
    BY <1>2, <1>3, Induction
<1>5. ASSUME NEW d \in D PROVE d \in P
  <2>1. mu[d] \in Nat
    BY <1>1
  <2>2. mu[d] + 1 \in S /\ mu[d] < mu[d] + 1
    BY <1>4, <2>1
  <2>3. QED
    BY <2>2
<1>6. QED
  BY <1>5

-----------------------------------------------------------------------------
(* The records ahead of a cursor. *)

\* The leaves hold records in the order of their keys.
LeavesHold(pgs) ==
    \A p \in LeafIds(pgs) : pgs[p].records \in Seq(Records) /\ Ascending(pgs[p].records)

\* So do leaves one after the other.
LeavesApart(pgs) ==
    \A p, q \in LeafIds(pgs) : <<p, q>> \in LeafOrder(pgs) =>
        \A i \in 1..Len(pgs[p].records), j \in 1..Len(pgs[q].records) :
            pgs[p].records[i].row_id < pgs[q].records[j].row_id

\* What a cursor relies on: leaves linked in the order of their keys.
Rolled(pgs) ==
    /\ LeafIds(pgs) \subseteq 1..Len(pgs) /\ DOMAIN pgs = 1..Len(pgs) /\ Len(pgs) \in Nat
    /\ Orders(LeafOrder(pgs), LeafIds(pgs))
    /\ Links(pgs, LeafIds(pgs), LeafOrder(pgs))
    /\ LeavesHold(pgs) /\ LeavesApart(pgs)

\* A tree in order with a chain of leaves is one.
LEMMA RolledTree ==
    ASSUME NEW pgs, NEW h, TreeOK(pgs, h), NEW o, Owned(pgs, h, o), LeafChain(pgs)
    PROVE  Rolled(pgs)
<1>1. Filled(pgs) /\ Links(pgs, LeafIds(pgs), LeafOrder(pgs))
  BY DEF LeafChain
<1>2. DOMAIN pgs = 1..Len(pgs) /\ Len(pgs) \in Nat
  BY TreeParts
<1>3. LeafIds(pgs) \subseteq 1..Len(pgs)
  BY LeafIdsAre
<1>4. Orders(LeafOrder(pgs), LeafIds(pgs))
  BY <1>1, LeavesOrdered
<1>5. LeavesHold(pgs)
  BY LeafRecords DEF LeavesHold
<1>6. ASSUME NEW p \in LeafIds(pgs), NEW q \in LeafIds(pgs), <<p, q>> \in LeafOrder(pgs),
             NEW i \in 1..Len(pgs[p].records), NEW j \in 1..Len(pgs[q].records)
      PROVE  pgs[p].records[i].row_id < pgs[q].records[j].row_id
  <2> DEFINE r == pgs[p].records
             s == pgs[q].records
  <2>1. r \in Seq(Records) /\ s \in Seq(Records)
    BY LeafRecords
  <2>2. Before(r, s, ByRowId)
    BY <1>1, <1>6, LeafBefore
  <2> HIDE DEF r, s
  <2>3. i \in 1..Len(r) /\ j \in 1..Len(s)
    BY <1>6 DEF r, s
  <2>4. r[i] \in ToSet(r) /\ s[j] \in ToSet(s) /\ r[i] \in Records /\ s[j] \in Records
    BY <2>1, <2>3, Members
  <2>5. <<r[i], s[j]>> \in ByRowId
    BY <2>2, <2>4 DEF Before
  <2>6. r[i].row_id < s[j].row_id
    BY <2>4, <2>5, ByRowIdIs
  <2>7. QED
    BY <2>6 DEF r, s
<1>7. LeavesApart(pgs)
  BY <1>6 DEF LeavesApart
<1>8. QED
  BY <1>1, <1>2, <1>3, <1>4, <1>5, <1>7 DEF Rolled

\* x is in leaf c, from slot s on.
InLeaf(pgs, c, s, x) == \E i \in 1..Len(pgs[c].records) : s <= i /\ x = pgs[c].records[i]

\* x is in a leaf behind c.
InLater(pgs, c, x) ==
    \E q \in LeafIds(pgs) : <<c, q>> \in LeafOrder(pgs) /\ InLeaf(pgs, q, 1, x)

\* The rows ahead of a cursor at slot s of leaf c.
Ahead(pgs, c, s) == {x \in Records : ~x.is_deleted /\ (InLeaf(pgs, c, s, x) \/ InLater(pgs, c, x))}

\* A tombstone is passed over.
LEMMA AheadSkips ==
    ASSUME NEW pgs, Rolled(pgs), NEW c \in LeafIds(pgs), NEW s \in Nat \ {0},
           s <= Len(pgs[c].records), pgs[c].records[s].is_deleted
    PROVE  Ahead(pgs, c, s) = Ahead(pgs, c, s + 1)
<1> DEFINE r == pgs[c].records
           n == Len(r)
<1>1. r \in Seq(Records)
  BY DEF Rolled, LeavesHold
<1>2. n \in Nat
  BY <1>1
<1>3. \A i \in 1..n : s <= i <=> i = s \/ s + 1 <= i
  BY <1>2
<1>4. \A x : ~x.is_deleted => (InLeaf(pgs, c, s, x) <=> InLeaf(pgs, c, s + 1, x))
  BY <1>3 DEF InLeaf
<1>5. QED
  BY <1>4 DEF Ahead

\* Behind the last slot the cursor goes on with the next leaf,
LEMMA AheadNext ==
    ASSUME NEW pgs, Rolled(pgs), NEW c \in LeafIds(pgs), NEW s \in Nat \ {0},
           s > Len(pgs[c].records), pgs[c].next # 0
    PROVE  pgs[c].next \in LeafIds(pgs) /\ <<c, pgs[c].next>> \in LeafOrder(pgs)
           /\ Ahead(pgs, c, s) = Ahead(pgs, pgs[c].next, 1)
<1> DEFINE S == LeafIds(pgs)
           L == LeafOrder(pgs)
           d == pgs[c].next
<1>1. Orders(L, S) /\ Links(pgs, S, L) /\ LeavesHold(pgs)
  BY DEF Rolled
<1>2. NextOK(pgs, S, L, c)
  BY <1>1 DEF Links
<1>3. d \in S /\ <<c, d>> \in L /\ \A q \in S : ~(<<c, q>> \in L /\ <<q, d>> \in L)
  BY <1>2 DEF NextOK
<1> HIDE DEF S, L, d
<1>4. \A q \in S : <<c, q>> \in L <=> q = d \/ <<d, q>> \in L
  BY <1>1, <1>3 DEF Orders, S
<1>5. Len(pgs[c].records) \in Nat
  BY <1>1 DEF LeavesHold
<1>6. \A x : ~InLeaf(pgs, c, s, x)
  BY <1>5 DEF InLeaf
<1>7. \A x : InLater(pgs, c, x) <=> InLeaf(pgs, d, 1, x) \/ InLater(pgs, d, x)
  BY <1>3, <1>4 DEF InLater, S, L
<1>8. QED
  BY <1>3, <1>6, <1>7 DEF Ahead, S, L, d

\* and behind the last slot of the last leaf there is nothing.
LEMMA AheadEnds ==
    ASSUME NEW pgs, Rolled(pgs), NEW c \in LeafIds(pgs), NEW s \in Nat \ {0},
           s > Len(pgs[c].records), pgs[c].next = 0
    PROVE  Ahead(pgs, c, s) = {}
<1>1. Links(pgs, LeafIds(pgs), LeafOrder(pgs)) /\ LeavesHold(pgs)
  BY DEF Rolled
<1>2. NextOK(pgs, LeafIds(pgs), LeafOrder(pgs), c)
  BY <1>1 DEF Links
<1>3. \A x : ~InLater(pgs, c, x)
  BY <1>2 DEF NextOK, InLater
<1>4. Len(pgs[c].records) \in Nat
  BY <1>1 DEF LeavesHold
<1>5. \A x : ~InLeaf(pgs, c, s, x)
  BY <1>4 DEF InLeaf
<1>6. QED
  BY <1>3, <1>5 DEF Ahead

\* x is the row of A with the smallest key.
FirstOf(A, x) == x \in A /\ \A y \in A : y = x \/ x.row_id < y.row_id

\* A row at the cursor is the first one.
LEMMA AheadFirst ==
    ASSUME NEW pgs, Rolled(pgs), NEW c \in LeafIds(pgs), NEW s \in Nat \ {0},
           s <= Len(pgs[c].records), ~pgs[c].records[s].is_deleted
    PROVE  FirstOf(Ahead(pgs, c, s), pgs[c].records[s])
<1> DEFINE r == pgs[c].records
           x == pgs[c].records[s]
<1>1. LeavesHold(pgs) /\ LeavesApart(pgs)
  BY DEF Rolled
<1>2. r \in Seq(Records) /\ Ascending(r)
  BY <1>1 DEF LeavesHold
<1>3. Len(r) \in Nat /\ DOMAIN r = 1..Len(r)
  BY <1>2
<1>4. s \in 1..Len(r)
  BY <1>3
<1>5. x \in Records
  BY <1>2, <1>4
<1>6. InLeaf(pgs, c, s, x)
  BY <1>4 DEF InLeaf
<1>7. x \in Ahead(pgs, c, s)
  BY <1>5, <1>6 DEF Ahead
<1>8. ASSUME NEW y \in Ahead(pgs, c, s) PROVE y = x \/ x.row_id < y.row_id
  <2>1. CASE InLeaf(pgs, c, s, y)
    <3>1. PICK i \in 1..Len(r) : s <= i /\ y = r[i]
      BY <2>1 DEF InLeaf
    <3>2. CASE i = s
      BY <3>1, <3>2
    <3>3. CASE i # s
      <4>1. s < i
        BY <1>3, <3>1, <3>3
      <4>2. x.row_id < r[i].row_id
        BY <1>2, <1>3, <1>4, <4>1 DEF Ascending
      <4>3. QED
        BY <3>1, <4>2
    <3>4. QED
      BY <3>2, <3>3
  <2>2. CASE InLater(pgs, c, y)
    <3>1. PICK q \in LeafIds(pgs) : <<c, q>> \in LeafOrder(pgs) /\ InLeaf(pgs, q, 1, y)
      BY <2>2 DEF InLater
    <3>2. PICK j \in 1..Len(pgs[q].records) : y = pgs[q].records[j]
      BY <3>1 DEF InLeaf
    <3>3. x.row_id < pgs[q].records[j].row_id
      BY <1>1, <1>4, <3>1 DEF LeavesApart
    <3>4. QED
      BY <3>2, <3>3
  <2>3. QED
    BY <2>1, <2>2 DEF Ahead
<1>9. QED
  BY <1>7, <1>8 DEF FirstOf

-----------------------------------------------------------------------------
(* next: the walk of the cursor ends. *)

\* Numbers up to a place have a bound.
LEMMA BoundExists ==
    ASSUME NEW n \in Nat, NEW f, \A p \in 1..n : f[p] \in Nat
    PROVE  \E B \in Nat : \A p \in 1..n : f[p] < B
<1> DEFINE S == {m \in Nat : m <= n => \E B \in Nat : \A p \in 1..m : f[p] < B}
<1>1. 0 \in S
  OBVIOUS
<1>2. ASSUME NEW m \in Nat, m \in S PROVE m + 1 \in S
  <2>1. SUFFICES ASSUME m + 1 <= n PROVE \E B \in Nat : \A p \in 1..(m + 1) : f[p] < B
    OBVIOUS
  <2>2. PICK B \in Nat : \A p \in 1..m : f[p] < B
    BY <1>2, <2>1
  <2>3. m + 1 \in 1..n
    BY <2>1
  <2>4. f[m + 1] \in Nat
    BY <2>3
  <2> DEFINE C == B + f[m + 1] + 1
  <2>5. C \in Nat /\ B <= C /\ f[m + 1] < C
    BY <2>4
  <2> HIDE DEF C
  <2>6. ASSUME NEW p \in 1..(m + 1) PROVE f[p] < C
    <3>1. p = m + 1 \/ p \in 1..m
      OBVIOUS
    <3>2. p \in 1..n
      BY <2>1
    <3>3. f[p] \in Nat
      BY <3>2
    <3>4. QED
      BY <2>2, <2>5, <3>1, <3>3
  <2>7. QED
    BY <2>5, <2>6
<1>3. \A m \in Nat : m \in S
  <2> HIDE DEF S
  <2>1. QED
    BY <1>1, <1>2, Induction
<1>4. n \in S
  <2> HIDE DEF S
  <2>1. QED
    BY <1>3
<1>5. n <= n
  OBVIOUS
<1>6. QED
  BY <1>4, <1>5

\* The places of a cursor; 0 is the place behind the last leaf.
Cursors(pgs) == ({0} \cup DOMAIN pgs) \X (Nat \ {0})

\* The places where it comes to rest,
AtRest(pgs) ==
    {at \in Cursors(pgs) : \/ at[1] = 0
                           \/ at[1] # 0 /\ ~IsLeaf(pgs[at[1]])
                           \/ /\ at[1] # 0 /\ IsLeaf(pgs[at[1]])
                              /\ ~(at[2] > Len(pgs[at[1]].records))
                              /\ ~pgs[at[1]].records[at[2]].is_deleted}

\* what next reports of it there,
Reported(pgs) ==
    [at \in Cursors(pgs) |->
        [res |-> IF at[1] = 0 THEN "End" ELSE IF ~IsLeaf(pgs[at[1]]) THEN "CorruptPage" ELSE "Row",
         page |-> at[1], slot |-> at[2]]]

\* and its move from the other places.
Moved(pgs) ==
    [at \in Cursors(pgs) |->
        IF at[2] > Len(pgs[at[1]].records)
        THEN <<pgs[at[1]].next, IF pgs[at[1]].next = 0 THEN at[2] ELSE 1>>
        ELSE <<at[1], at[2] + 1>>]

\* The slots under B ahead of a cursor.
Places(pgs, B, c, s) ==
    {e \in LeafIds(pgs) \X (1..B) :
        <<c, e[1]>> \in LeafOrder(pgs) \/ (e[1] = c /\ (s <= e[2] \/ e[2] = B))}

\* Their number.
Distance(pgs, B) ==
    [at \in Cursors(pgs) |-> IF at[1] \in LeafIds(pgs) THEN 1 + Cardinality(Places(pgs, B, at[1], at[2])) ELSE 0]

\* There are finitely many.
LEMMA PlacesFinite ==
    ASSUME NEW pgs, Rolled(pgs), NEW B \in Nat
    PROVE  /\ IsFiniteSet(LeafIds(pgs) \X (1..B)) /\ Cardinality(LeafIds(pgs) \X (1..B)) \in Nat
           /\ \A c, s : /\ IsFiniteSet(Places(pgs, B, c, s)) /\ Cardinality(Places(pgs, B, c, s)) \in Nat
                        /\ Cardinality(Places(pgs, B, c, s)) <= Cardinality(LeafIds(pgs) \X (1..B))
<1> DEFINE E == LeafIds(pgs) \X (1..B)
<1>1. LeafIds(pgs) \subseteq 1..Len(pgs) /\ Len(pgs) \in Nat
  BY DEF Rolled
<1>2. IsFiniteSet(1..Len(pgs)) /\ IsFiniteSet(1..B)
  BY <1>1, FS_Interval
<1>3. IsFiniteSet(LeafIds(pgs))
  BY <1>1, <1>2, FS_Subset
<1>4. IsFiniteSet(E)
  BY <1>2, <1>3, FS_Product
<1>5. \A c, s : Places(pgs, B, c, s) \subseteq E
  BY DEF Places
<1> HIDE DEF E
<1>6. \A c, s : IsFiniteSet(Places(pgs, B, c, s)) /\ Cardinality(Places(pgs, B, c, s)) <= Cardinality(E)
  BY <1>4, <1>5, FS_Subset
<1>7. QED
  BY <1>4, <1>6, FS_CardinalityType DEF E

\* Fewer places have a smaller number.
LEMMA PlacesFewer ==
    ASSUME NEW pgs, Rolled(pgs), NEW B \in Nat, NEW c, NEW s, NEW d, NEW t,
           Places(pgs, B, d, t) \subseteq Places(pgs, B, c, s),
           NEW e, e \in Places(pgs, B, c, s), e \notin Places(pgs, B, d, t)
    PROVE  Cardinality(Places(pgs, B, d, t)) < Cardinality(Places(pgs, B, c, s))
<1> DEFINE S == Places(pgs, B, c, s)
           T == Places(pgs, B, d, t)
<1>1. IsFiniteSet(S) /\ Cardinality(S) \in Nat /\ Cardinality(T) \in Nat
  BY PlacesFinite
<1>2. T \in SUBSET S /\ T # S
  OBVIOUS
<1> HIDE DEF S, T
<1>3. Cardinality(T) <= Cardinality(S) /\ (Cardinality(S) = Cardinality(T) => S = T)
  BY <1>1, <1>2, FS_Subset
<1>4. Cardinality(T) < Cardinality(S)
  BY <1>1, <1>2, <1>3
<1>5. QED
  BY <1>4 DEF S, T

\* Every leaf has fewer than B slots.
Bounded(pgs, B) == \A p \in LeafIds(pgs) : Len(pgs[p].records) < B

\* There is such a bound, since there are finitely many leaves.
LEMMA SlotBound ==
    ASSUME NEW pgs, Rolled(pgs)
    PROVE  \E B \in Nat : Bounded(pgs, B)
<1> DEFINE f == [p \in 1..Len(pgs) |-> IF p \in LeafIds(pgs) THEN Len(pgs[p].records) ELSE 0]
<1>1. Len(pgs) \in Nat /\ LeafIds(pgs) \subseteq 1..Len(pgs) /\ LeavesHold(pgs)
  BY DEF Rolled
<1>2. \A p \in LeafIds(pgs) : Len(pgs[p].records) \in Nat /\ p \in 1..Len(pgs) /\ f[p] = Len(pgs[p].records)
  BY <1>1 DEF LeavesHold
<1>3. \A p \in 1..Len(pgs) : f[p] \in Nat
  BY <1>1 DEF LeavesHold
<1> HIDE DEF f
<1>4. PICK B \in Nat : \A p \in 1..Len(pgs) : f[p] < B
  BY <1>1, <1>3, BoundExists
<1>5. QED
  BY <1>2, <1>4 DEF Bounded

\* A place that is not at rest is one in a leaf.
LEMMA NotAtRest ==
    ASSUME NEW pgs, Rolled(pgs), NEW at \in Cursors(pgs), at \notin AtRest(pgs)
    PROVE  /\ at[1] \in LeafIds(pgs) /\ at[2] \in Nat \ {0} /\ at = <<at[1], at[2]>>
           /\ Len(pgs[at[1]].records) \in Nat
           /\ at[2] <= Len(pgs[at[1]].records) => pgs[at[1]].records[at[2]].is_deleted
<1>1. at[1] \in {0} \cup DOMAIN pgs /\ at[2] \in Nat \ {0} /\ at = <<at[1], at[2]>>
  BY DEF Cursors
<1>2. at[1] # 0 /\ IsLeaf(pgs[at[1]])
  BY DEF AtRest
<1>3. at[1] \in LeafIds(pgs)
  BY <1>1, <1>2 DEF LeafIds
<1>4. Len(pgs[at[1]].records) \in Nat
  BY <1>3 DEF Rolled, LeavesHold
<1>5. ~(at[2] > Len(pgs[at[1]].records)) => pgs[at[1]].records[at[2]].is_deleted
  BY <1>2 DEF AtRest
<1>6. QED
  BY <1>1, <1>3, <1>4, <1>5

\* From such a place the cursor moves to one with fewer slots ahead.
LEMMA MoveDescends ==
    ASSUME NEW pgs, Rolled(pgs), NEW B \in Nat, Bounded(pgs, B),
           NEW at \in Cursors(pgs), at \notin AtRest(pgs)
    PROVE  Moved(pgs)[at] \in Cursors(pgs) /\ Distance(pgs, B)[Moved(pgs)[at]] < Distance(pgs, B)[at]
<1> DEFINE c == at[1]
           s == at[2]
           S == LeafIds(pgs)
           L == LeafOrder(pgs)
           C == Cursors(pgs)
           n == Len(pgs[c].records)
<1>1. c \in S /\ s \in Nat \ {0} /\ n \in Nat
  BY NotAtRest
<1>2. \A d, t : Cardinality(Places(pgs, B, d, t)) \in Nat
  BY PlacesFinite
<1>3. Distance(pgs, B)[at] = 1 + Cardinality(Places(pgs, B, c, s))
  BY <1>1 DEF Distance
<1>4. n < B /\ S \subseteq DOMAIN pgs /\ 0 \notin S
  BY <1>1 DEF Bounded, Rolled
<1>5. \A d \in S, t \in Nat \ {0} : /\ <<d, t>> \in C
                                    /\ Distance(pgs, B)[<<d, t>>] = 1 + Cardinality(Places(pgs, B, d, t))
  BY <1>4 DEF Distance, Cursors
<1>6. CASE s > n /\ pgs[c].next = 0
  <2>1. Moved(pgs)[at] = <<0, s>>
    BY <1>6 DEF Moved
  <2>2. <<0, s>> \in C /\ Distance(pgs, B)[<<0, s>>] = 0
    BY <1>1, <1>4 DEF Distance, Cursors
  <2>3. QED
    BY <1>2, <1>3, <2>1, <2>2
<1>7. CASE s > n /\ pgs[c].next # 0
  <2> DEFINE d == pgs[c].next
  <2>1. Moved(pgs)[at] = <<d, 1>>
    BY <1>7 DEF Moved
  <2>2. d \in S /\ <<c, d>> \in L
    BY <1>1, <1>7, AheadNext
  <2>3. Orders(L, S)
    BY DEF Rolled
  <2>4. <<c, c>> \notin L /\ <<d, c>> \notin L /\ d # c /\ \A q \in S : <<d, q>> \in L => <<c, q>> \in L
    BY <1>1, <2>2, <2>3 DEF Orders
  <2>5. Places(pgs, B, d, 1) \subseteq Places(pgs, B, c, s)
    BY <2>2, <2>4 DEF Places
  <2>6. B \in 1..B
    BY <1>1, <1>4
  <2>7. <<c, B>> \in Places(pgs, B, c, s) /\ <<c, B>> \notin Places(pgs, B, d, 1)
    BY <1>1, <2>4, <2>6 DEF Places
  <2>8. Cardinality(Places(pgs, B, d, 1)) < Cardinality(Places(pgs, B, c, s))
    BY <2>5, <2>7, PlacesFewer
  <2>9. Distance(pgs, B)[<<d, 1>>] = 1 + Cardinality(Places(pgs, B, d, 1)) /\ <<d, 1>> \in C
    BY <1>5, <2>2
  <2> HIDE DEF d, C
  <2>10. QED
    BY <1>2, <1>3, <2>1, <2>8, <2>9 DEF C
<1>8. CASE ~(s > n)
  <2>1. Moved(pgs)[at] = <<c, s + 1>>
    BY <1>8 DEF Moved
  <2>2. <<c, c>> \notin L
    BY <1>1 DEF Rolled, Orders
  <2>3. s \in 1..B /\ s # B /\ ~(s + 1 <= s) /\ \A i \in 1..B : s + 1 <= i => s <= i
    BY <1>1, <1>4, <1>8
  <2>4. Places(pgs, B, c, s + 1) \subseteq Places(pgs, B, c, s)
    BY <2>3 DEF Places
  <2>5. <<c, s>> \in Places(pgs, B, c, s) /\ <<c, s>> \notin Places(pgs, B, c, s + 1)
    BY <1>1, <2>2, <2>3 DEF Places
  <2>6. Cardinality(Places(pgs, B, c, s + 1)) < Cardinality(Places(pgs, B, c, s))
    BY <2>4, <2>5, PlacesFewer
  <2>7. s + 1 \in Nat \ {0}
    BY <1>1
  <2>8. Distance(pgs, B)[<<c, s + 1>>] = 1 + Cardinality(Places(pgs, B, c, s + 1)) /\ <<c, s + 1>> \in C
    BY <1>1, <1>5, <2>7
  <2> HIDE DEF C
  <2>9. QED
    BY <1>2, <1>3, <2>1, <2>6, <2>8 DEF C
<1>9. QED
  BY <1>6, <1>7, <1>8

\* The moves of the cursor come to an end.
LEMMA CursorDescends ==
    ASSUME NEW pgs, Rolled(pgs)
    PROVE  \E B \in Nat : /\ Descends(Distance(pgs, B), AtRest(pgs), Moved(pgs), Cursors(pgs))
                          /\ \E M \in Nat : \A at \in Cursors(pgs) : Distance(pgs, B)[at] <= M
<1>1. PICK B \in Nat : Bounded(pgs, B)
  BY SlotBound
<1> DEFINE M == 1 + Cardinality(LeafIds(pgs) \X (1..B))
<1>2. /\ Cardinality(LeafIds(pgs) \X (1..B)) \in Nat
      /\ \A c, s : Cardinality(Places(pgs, B, c, s)) \in Nat
                   /\ Cardinality(Places(pgs, B, c, s)) <= Cardinality(LeafIds(pgs) \X (1..B))
  BY PlacesFinite
<1>3. M \in Nat
  BY <1>2
<1>4. ASSUME NEW at \in Cursors(pgs) PROVE Distance(pgs, B)[at] \in Nat /\ Distance(pgs, B)[at] <= M
  <2>1. Distance(pgs, B)[at] = 0 \/ Distance(pgs, B)[at] = 1 + Cardinality(Places(pgs, B, at[1], at[2]))
    BY DEF Distance
  <2>2. QED
    BY <1>2, <2>1
<1>5. Descends(Distance(pgs, B), AtRest(pgs), Moved(pgs), Cursors(pgs))
  BY <1>1, <1>4, MoveDescends DEF Descends
<1> HIDE DEF M
<1>6. QED
  BY <1>3, <1>4, <1>5

\* What next reports when the cursor comes to rest at a place.
FoundAt(pgs, from, at) ==
    [res |-> at.res,
     row |-> IF at.res = "Row" THEN <<pgs[at.page].records[at.slot]>> ELSE <<>>,
     it  |-> [start |-> from.start, initialized |-> TRUE, page |-> at.page,
              slot |-> IF at.res = "Row" THEN at.slot + 1 ELSE at.slot]]

\* next solves the recursion of the cursor.
LEMMA NextIs ==
    ASSUME NEW pgs, Rolled(pgs), NEW it
    PROVE  \E w : /\ Goes(w, Reported(pgs), AtRest(pgs), Moved(pgs), Cursors(pgs))
                  /\ next(pgs, it) = FoundAt(pgs, Positioned(pgs, it),
                                             w[<<Positioned(pgs, it).page, Positioned(pgs, it).slot>>])
<1> DEFINE C == Cursors(pgs)
           seek(u, at) ==
              IF at[1] = 0 THEN [res |-> "End", page |-> 0, slot |-> at[2]]
              ELSE IF ~IsLeaf(pgs[at[1]]) THEN [res |-> "CorruptPage", page |-> at[1], slot |-> at[2]]
              ELSE IF at[2] > Len(pgs[at[1]].records)
                   THEN u[<<pgs[at[1]].next, IF pgs[at[1]].next = 0 THEN at[2] ELSE 1>>]
              ELSE IF pgs[at[1]].records[at[2]].is_deleted THEN u[<<at[1], at[2] + 1>>]
              ELSE [res |-> "Row", page |-> at[1], slot |-> at[2]]
           body(u) == [at \in C |-> seek(u, at)]
           w == CHOOSE u : u = body(u)
           from == Positioned(pgs, it)
<1>1. next(pgs, it) = FoundAt(pgs, from, w[<<from.page, from.slot>>])
  BY DEF next, FoundAt, Cursors, None
<1>2. PICK v : Goes(v, Reported(pgs), AtRest(pgs), Moved(pgs), C)
  BY CursorDescends, DescendExists
<1>3. ASSUME NEW u, NEW at \in C
      PROVE  seek(u, at) = IF at \in AtRest(pgs) THEN Reported(pgs)[at] ELSE u[Moved(pgs)[at]]
  <2>1. CASE at \in AtRest(pgs)
    BY <2>1 DEF AtRest, Reported
  <2>2. CASE at \notin AtRest(pgs)
    BY <2>2 DEF AtRest, Moved
  <2>3. QED
    BY <2>1, <2>2
<1> HIDE DEF C, seek
<1>4. v = body(v)
  BY <1>2, <1>3 DEF Goes
<1> HIDE DEF body
<1>5. w = body(w)
  BY <1>4
<1> HIDE DEF w
<1>6. \A at \in C : w[at] = seek(w, at)
  BY <1>5 DEF body
<1>7. w = [at \in C |-> w[at]]
  <2>1. body(w) = [at \in C |-> body(w)[at]]
    BY DEF body
  <2>2. QED
    BY <1>5, <2>1
<1>8. Goes(w, Reported(pgs), AtRest(pgs), Moved(pgs), C)
  BY <1>3, <1>6, <1>7 DEF Goes
<1>9. QED
  BY <1>1, <1>8 DEF w, body, seek, C

\* at is where the first row of A is, or the end if there is none.
Rests(pgs, A, at) ==
    IF A = {} THEN at.res = "End"
    ELSE /\ at.res = "Row" /\ at.page \in LeafIds(pgs) /\ at.slot \in 1..Len(pgs[at.page].records)
         /\ FirstOf(A, pgs[at.page].records[at.slot])

\* From a place in a leaf the cursor comes to rest at the first row ahead of it.
LEMMA SeekRests ==
    ASSUME NEW pgs, Rolled(pgs), NEW w, Goes(w, Reported(pgs), AtRest(pgs), Moved(pgs), Cursors(pgs)),
           NEW c \in LeafIds(pgs), NEW s \in Nat \ {0}
    PROVE  Rests(pgs, Ahead(pgs, c, s), w[<<c, s>>])
<1> DEFINE C == Cursors(pgs)
           S == LeafIds(pgs)
           P == {at \in C : at[1] = 0 /\ w[at].res = "End"}
                  \cup {at \in C : at[1] \in S /\ Rests(pgs, Ahead(pgs, at[1], at[2]), w[at])}
                  \cup {at \in C : at[1] # 0 /\ at[1] \notin S}
<1>1. 0 \notin S /\ S \subseteq DOMAIN pgs /\ LeavesHold(pgs)
  BY DEF Rolled
<1>2. \A at \in C : w[at] = IF at \in AtRest(pgs) THEN Reported(pgs)[at] ELSE w[Moved(pgs)[at]]
  BY DEF Goes
<1>3. \A at \in C : at[1] \in {0} \cup DOMAIN pgs /\ at[2] \in Nat \ {0} /\ at = <<at[1], at[2]>>
  BY DEF Cursors
<1>4. ASSUME NEW at \in C, at \in AtRest(pgs) PROVE at \in P
  <2>1. w[at] = Reported(pgs)[at]
    BY <1>2, <1>4
  <2>2. CASE at[1] = 0
    <3>1. w[at].res = "End"
      BY <2>1, <2>2 DEF Reported
    <3>2. QED
      BY <2>2, <3>1
  <2>3. CASE at[1] \in S
    <3>1. at[1] # 0 /\ IsLeaf(pgs[at[1]])
      BY <1>1, <2>3 DEF LeafIds
    <3>2. ~(at[2] > Len(pgs[at[1]].records)) /\ ~pgs[at[1]].records[at[2]].is_deleted
      BY <1>4, <3>1 DEF AtRest
    <3>3. w[at] = [res |-> "Row", page |-> at[1], slot |-> at[2]]
      BY <2>1, <3>1 DEF Reported
    <3>4. Len(pgs[at[1]].records) \in Nat
      BY <1>1, <2>3 DEF LeavesHold
    <3>5. at[2] <= Len(pgs[at[1]].records) /\ at[2] \in Nat \ {0} /\ at[2] \in 1..Len(pgs[at[1]].records)
      BY <1>3, <3>2, <3>4
    <3>6. FirstOf(Ahead(pgs, at[1], at[2]), pgs[at[1]].records[at[2]])
      BY <2>3, <3>2, <3>5, AheadFirst
    <3>7. Ahead(pgs, at[1], at[2]) # {}
      BY <3>6 DEF FirstOf
    <3>8. Rests(pgs, Ahead(pgs, at[1], at[2]), w[at])
      BY <2>3, <3>3, <3>5, <3>6, <3>7 DEF Rests
    <3>9. QED
      BY <2>3, <3>8
  <2>4. QED
    BY <2>2, <2>3
<1>5. ASSUME NEW at \in C, at \notin AtRest(pgs), Moved(pgs)[at] \in P PROVE at \in P
  <2> DEFINE n == Len(pgs[at[1]].records)
             to == Moved(pgs)[at]
  <2>1. at[1] \in S /\ at[2] \in Nat \ {0} /\ n \in Nat /\ (at[2] <= n => pgs[at[1]].records[at[2]].is_deleted)
    BY <1>5, NotAtRest
  <2>2. w[at] = w[to]
    BY <1>2, <1>5
  <2>3. CASE at[2] > n /\ pgs[at[1]].next = 0
    <3>1. to = <<0, at[2]>>
      BY <2>3 DEF Moved
    <3>2. to[1] = 0
      BY <3>1
    <3>3. w[to].res = "End"
      BY <1>1, <1>5, <3>2
    <3>4. Ahead(pgs, at[1], at[2]) = {}
      BY <2>1, <2>3, AheadEnds
    <3>5. QED
      BY <2>1, <2>2, <3>3, <3>4 DEF Rests
  <2>4. CASE at[2] > n /\ pgs[at[1]].next # 0
    <3>1. to = <<pgs[at[1]].next, 1>>
      BY <2>4 DEF Moved
    <3>2. pgs[at[1]].next \in S /\ Ahead(pgs, at[1], at[2]) = Ahead(pgs, pgs[at[1]].next, 1)
      BY <2>1, <2>4, AheadNext
    <3>3. to[1] \in S /\ Ahead(pgs, at[1], at[2]) = Ahead(pgs, to[1], to[2])
      BY <3>1, <3>2
    <3>4. Rests(pgs, Ahead(pgs, to[1], to[2]), w[to])
      BY <1>1, <1>5, <3>3
    <3>5. QED
      BY <2>1, <2>2, <3>3, <3>4
  <2>5. CASE ~(at[2] > n)
    <3>1. to = <<at[1], at[2] + 1>>
      BY <2>5 DEF Moved
    <3>2. Ahead(pgs, at[1], at[2]) = Ahead(pgs, at[1], at[2] + 1)
      BY <2>1, <2>5, AheadSkips
    <3>3. to[1] \in S /\ Ahead(pgs, at[1], at[2]) = Ahead(pgs, to[1], to[2])
      BY <2>1, <3>1, <3>2
    <3>4. Rests(pgs, Ahead(pgs, to[1], to[2]), w[to])
      BY <1>1, <1>5, <3>3
    <3>5. QED
      BY <2>1, <2>2, <3>3, <3>4
  <2>6. QED
    BY <2>3, <2>4, <2>5
<1>6. PICK B \in Nat : Descends(Distance(pgs, B), AtRest(pgs), Moved(pgs), C)
  BY CursorDescends
<1> HIDE DEF P, C
<1>7. \A at \in C : at \in P
  BY <1>4, <1>5, <1>6, DescendHolds
<1>8. <<c, s>> \in C
  BY <1>1 DEF C, Cursors
<1>9. <<c, s>> \in P
  BY <1>7, <1>8
<1>10. QED
  BY <1>1, <1>9 DEF P

-----------------------------------------------------------------------------
(* Where a cursor stands: in front of the rows from a key on. *)

\* The rows of the tree with keys from t on.
RowsFrom(pgs, t) == {x \in Records : ~x.is_deleted /\ Stored(pgs, x) /\ t <= x.row_id}

\* The key t parts the leaves at slot s of leaf c.
Parts(pgs, c, s, t) ==
    /\ \A i \in 1..Len(pgs[c].records) : s <= i <=> t <= pgs[c].records[i].row_id
    /\ \A q \in LeafIds(pgs) : q # c =>
         \A i \in 1..Len(pgs[q].records) : <<c, q>> \in LeafOrder(pgs) <=> t <= pgs[q].records[i].row_id

\* Then the rows ahead are those from t on.
LEMMA AheadIs ==
    ASSUME NEW pgs, Rolled(pgs), NEW c \in LeafIds(pgs), NEW s \in Nat \ {0}, NEW t, Parts(pgs, c, s, t)
    PROVE  Ahead(pgs, c, s) = RowsFrom(pgs, t)
<1>1. LeavesHold(pgs) /\ <<c, c>> \notin LeafOrder(pgs)
  BY DEF Rolled, Orders
<1>2. \A q \in LeafIds(pgs) : Len(pgs[q].records) \in Nat /\ DOMAIN pgs[q].records = 1..Len(pgs[q].records)
  BY <1>1 DEF LeavesHold
<1>3. \A q \in LeafIds(pgs) : \A x :
          x \in ToSet(pgs[q].records) <=> \E i \in 1..Len(pgs[q].records) : x = pgs[q].records[i]
  BY <1>2 DEF ToSet
<1>4. \A x : Stored(pgs, x) <=>
               \E q \in LeafIds(pgs) : \E i \in 1..Len(pgs[q].records) : x = pgs[q].records[i]
  <2> TAKE x
  <2> DEFINE Has(q) == \E i \in 1..Len(pgs[q].records) : x = pgs[q].records[i]
  <2>1. \A q \in LeafIds(pgs) : x \in ToSet(pgs[q].records) <=> Has(q)
    BY <1>3
  <2> HIDE DEF Has
  <2>2. Stored(pgs, x) <=> \E q \in LeafIds(pgs) : Has(q)
    BY <2>1 DEF Stored
  <2>3. QED
    BY <2>2 DEF Has
<1>5. ASSUME NEW x
      PROVE  InLeaf(pgs, c, s, x) \/ InLater(pgs, c, x) <=> Stored(pgs, x) /\ t <= x.row_id
  <2>1. ASSUME InLeaf(pgs, c, s, x) PROVE Stored(pgs, x) /\ t <= x.row_id
    BY <1>4, <2>1 DEF InLeaf, Parts
  <2>2. ASSUME InLater(pgs, c, x) PROVE Stored(pgs, x) /\ t <= x.row_id
    <3>1. PICK q \in LeafIds(pgs) : <<c, q>> \in LeafOrder(pgs) /\ InLeaf(pgs, q, 1, x)
      BY <2>2 DEF InLater
    <3>2. PICK i \in 1..Len(pgs[q].records) : x = pgs[q].records[i]
      BY <3>1 DEF InLeaf
    <3>3. q # c
      BY <1>1, <3>1
    <3>4. t <= x.row_id
      BY <3>1, <3>2, <3>3 DEF Parts
    <3>5. QED
      BY <1>4, <3>2, <3>4
  <2>3. ASSUME Stored(pgs, x), t <= x.row_id PROVE InLeaf(pgs, c, s, x) \/ InLater(pgs, c, x)
    <3>1. PICK q \in LeafIds(pgs) : \E i \in 1..Len(pgs[q].records) : x = pgs[q].records[i]
      BY <1>4, <2>3
    <3>2. PICK i \in 1..Len(pgs[q].records) : x = pgs[q].records[i]
      BY <3>1
    <3>3. CASE q = c
      <4>1. s <= i
        BY <2>3, <3>2, <3>3 DEF Parts
      <4>2. QED
        BY <3>2, <3>3, <4>1 DEF InLeaf
    <3>4. CASE q # c
      <4>1. <<c, q>> \in LeafOrder(pgs)
        BY <2>3, <3>2, <3>4 DEF Parts
      <4>2. 1 <= i
        BY <1>2
      <4>3. InLeaf(pgs, q, 1, x)
        BY <3>2, <4>2 DEF InLeaf
      <4>4. QED
        BY <4>1, <4>3 DEF InLater
    <3>5. QED
      BY <3>3, <3>4
  <2>4. QED
    BY <2>1, <2>2, <2>3
<1>6. QED
  BY <1>5 DEF Ahead, RowsFrom

\* Behind the slot that holds the key before t.
LEMMA PartsBehind ==
    ASSUME NEW pgs, Rolled(pgs), NEW c \in LeafIds(pgs), NEW i \in 1..Len(pgs[c].records)
    PROVE  Parts(pgs, c, i + 1, pgs[c].records[i].row_id + 1)
<1> DEFINE r == pgs[c].records
           t == r[i].row_id + 1
<1>1. LeavesHold(pgs) /\ LeavesApart(pgs) /\ Orders(LeafOrder(pgs), LeafIds(pgs))
  BY DEF Rolled
<1>2. \A q \in LeafIds(pgs) : \A j \in 1..Len(pgs[q].records) : pgs[q].records[j].row_id \in Int
  BY <1>1, RowIdTypes DEF LeavesHold
<1>3. r \in Seq(Records) /\ Ascending(r) /\ DOMAIN r = 1..Len(r) /\ Len(r) \in Nat
  BY <1>1 DEF LeavesHold
<1>4. ASSUME NEW j \in 1..Len(r) PROVE i + 1 <= j <=> t <= r[j].row_id
  <2>1. r[i].row_id \in Int /\ r[j].row_id \in Int
    BY <1>2
  <2>2. i < j => r[i].row_id < r[j].row_id
    BY <1>3 DEF Ascending
  <2>3. j < i => r[j].row_id < r[i].row_id
    BY <1>3 DEF Ascending
  <2>4. i \in Int /\ j \in Int
    BY <1>3
  <2> HIDE DEF r
  <2>5. i + 1 <= j <=> i < j
    BY <2>4
  <2>6. j < i \/ j = i \/ i < j
    BY <2>4
  <2>7. t <= r[j].row_id <=> r[i].row_id < r[j].row_id
    BY <2>1
  <2>8. QED
    BY <2>1, <2>2, <2>3, <2>4, <2>5, <2>6, <2>7
<1>5. ASSUME NEW q \in LeafIds(pgs), q # c, NEW j \in 1..Len(pgs[q].records)
      PROVE  <<c, q>> \in LeafOrder(pgs) <=> t <= pgs[q].records[j].row_id
  <2> DEFINE y == pgs[q].records[j].row_id
  <2>1. r[i].row_id \in Int /\ y \in Int
    BY <1>2
  <2>2. <<c, q>> \in LeafOrder(pgs) => r[i].row_id < y
    BY <1>1 DEF LeavesApart
  <2>3. <<q, c>> \in LeafOrder(pgs) => y < r[i].row_id
    BY <1>1 DEF LeavesApart
  <2>4. <<c, q>> \in LeafOrder(pgs) \/ <<q, c>> \in LeafOrder(pgs)
    BY <1>1, <1>5 DEF Orders
  <2> HIDE DEF y, r
  <2>5. QED
    BY <2>1, <2>2, <2>3, <2>4 DEF y
<1>6. QED
  BY <1>4, <1>5 DEF Parts

\* At the slot that get_leaf_and_slot finds for the key t.
LEMMA PartsAt ==
    ASSUME NEW pgs, NEW h, TreeOK(pgs, h), NEW o, Owned(pgs, h, o), LeafChain(pgs), NEW t \in Int
    PROVE  /\ LeafFor(pgs, t) \in LeafIds(pgs) /\ SlotOf(pgs[LeafFor(pgs, t)].records, t) \in Nat \ {0}
           /\ Parts(pgs, LeafFor(pgs, t), SlotOf(pgs[LeafFor(pgs, t)].records, t), t)
<1> DEFINE c == LeafFor(pgs, t)
           r == pgs[c].records
           s == SlotOf(r, t)
<1>1. c \in 1..Len(pgs) /\ h[c] = 0 /\ t \in o[c]
  BY LeafOwned
<1> HIDE DEF c
<1>2. c \in LeafIds(pgs) /\ Filled(pgs) /\ Owners(o, h, Len(pgs))
  BY <1>1, LeafIdsAre DEF LeafChain, Owned
<1>3. r \in Seq(Records) /\ Ascending(r)
  BY <1>2, LeafRecords
<1>4. s \in 1..(Len(r) + 1) /\ (\A i \in 1..Len(r) : r[i].row_id < t <=> i < s)
  BY <1>3, SlotCuts
<1>5. Len(r) \in Nat /\ \A i \in 1..Len(r) : r[i].row_id \in Int
  BY <1>3, RowIdTypes
<1> HIDE DEF r
<1>6. s \in Nat \ {0}
  BY <1>4, <1>5
<1> HIDE DEF s
<1>7. ASSUME NEW i \in 1..Len(r) PROVE s <= i <=> t <= r[i].row_id
  <2>1. r[i].row_id \in Int /\ i \in Int /\ s \in Int
    BY <1>5, <1>6
  <2>2. r[i].row_id < t <=> i < s
    BY <1>4
  <2>3. QED
    BY <2>1, <2>2
<1>8. ASSUME NEW q \in LeafIds(pgs), q # c, NEW i \in 1..Len(pgs[q].records)
      PROVE  <<c, q>> \in LeafOrder(pgs) <=> t <= pgs[q].records[i].row_id
  <2> DEFINE y == pgs[q].records[i].row_id
  <2>1. q \in 1..Len(pgs) /\ h[q] = 0 /\ pgs[q].records \in Seq(Records)
    BY <1>8, LeafIdsAre, LeafRecords
  <2>2. pgs[q].records[i] \in ToSet(pgs[q].records)
    BY <2>1, Members
  <2>3. y \in Int /\ y \in o[q]
    BY <2>1, <2>2, RecordOwned
  <2> HIDE DEF y
  <2>4. y # t
    BY <1>1, <1>2, <1>8, <2>1, <2>3, OneOwner
  <2>5. <<c, q>> \in LeafOrder(pgs) <=> \E a \in o[c], b \in o[q] : a < b
    BY <1>2, <1>8, OrderIs DEF Lower
  <2>6. ASSUME NEW a \in o[c], NEW b \in o[q], a < b PROVE t < y
    <3>1. a \in Int /\ b \in Int
      BY <1>1, <1>2, <2>1 DEF Owners
    <3>2. QED
      BY <1>1, <1>8, <2>1, <2>3, <2>6, <3>1, SideBySide
  <2>7. t < y => \E a \in o[c], b \in o[q] : a < b
    BY <1>1, <2>3
  <2>8. t <= y <=> t < y
    BY <2>3, <2>4
  <2>9. QED
    BY <2>5, <2>6, <2>7, <2>8 DEF y
<1>9. Parts(pgs, c, s, t)
  BY <1>7, <1>8 DEF Parts, r
<1>10. QED
  BY <1>2, <1>6, <1>9 DEF c, r, s

\* The choice of the first child.
Leftmost(pgs) == [p \in DOMAIN pgs |-> Head(pgs[p].kids)]

\* It is the child that 0, which is smaller than every key, is routed to.
LEMMA LeftmostPicks ==
    ASSUME NEW pgs, NEW h, TreeOK(pgs, h), NEW o, Owned(pgs, h, o)
    PROVE  /\ Picks(Leftmost(pgs), pgs, h)
           /\ \A p \in 1..Len(pgs) : h[p] # 0 /\ 0 \in o[p] => 0 \in o[Leftmost(pgs)[p]]
<1>1. DOMAIN pgs = 1..Len(pgs) /\ DOMAIN Leftmost(pgs) = 1..Len(pgs)
  BY TreeParts DEF Leftmost
<1>2. ASSUME NEW p \in 1..Len(pgs), h[p] # 0
      PROVE  1 \in 1..Len(pgs[p].kids) /\ Leftmost(pgs)[p] = pgs[p].kids[1]
  <2>1. Leftmost(pgs)[p] = Head(pgs[p].kids)
    BY <1>1 DEF Leftmost
  <2>2. pgs[p].kids \in Seq(1..Len(pgs)) /\ Len(pgs[p].kids) \in Nat \ {0}
    BY <1>2, KidCount
  <2>3. QED
    BY <2>1, <2>2
<1>3. ASSUME NEW p \in 1..Len(pgs), h[p] # 0
      PROVE  Leftmost(pgs)[p] \in 1..Len(pgs) /\ h[Leftmost(pgs)[p]] = h[p] - 1
  BY <1>2, <1>3, KidHeight
<1>4. ASSUME NEW p \in 1..Len(pgs), h[p] # 0, 0 \in o[p] PROVE 0 \in o[Leftmost(pgs)[p]]
  <2> DEFINE keys == pgs[p].keys
             n == Len(keys)
  <2>1. Sees(pgs[p], o[p], o)
    BY <1>4, KidIs
  <2>2. Len(pgs[p].kids) = n + 1 /\ n \in Nat /\ keys \in Seq(Keys)
    BY <1>4, KidCount
  <2>3. \A i \in 1..n : keys[i] \in Nat \ {0}
    BY <2>2, KeysAssumption
  <2> HIDE DEF keys
  <2>4. 1 <= n => 0 < keys[1]
    BY <2>2, <2>3
  <2>5. InSlot(keys, 1, 0)
    BY <2>4 DEF InSlot, n
  <2>6. 1 \in 1..(n + 1)
    BY <2>2
  <2>7. 0 \in o[pgs[p].kids[1]]
    BY <1>4, <2>1, <2>5, <2>6 DEF Sees, keys, n
  <2>8. QED
    BY <1>2, <1>4, <2>7
<1>5. QED
  BY <1>1, <1>3, <1>4 DEF Picks

\* So a descent along the first children ends at the leaf that owns 0.
LEMMA LeftmostIs ==
    ASSUME NEW pgs, NEW h, TreeOK(pgs, h), NEW o, Owned(pgs, h, o)
    PROVE  get_leftmost_leaf(pgs) = LeafFor(pgs, 0)
<1> DEFINE body(u) == [p \in DOMAIN pgs |-> IF IsLeaf(pgs[p]) THEN p ELSE u[Head(pgs[p].kids)]]
           w == CHOOSE u : u = body(u)
           N == Len(pgs)
           H == h[1]
           r == Leftmost(pgs)
           OK(p) == w[p] \in 1..N /\ h[w[p]] = 0 /\ (0 \in o[p] => 0 \in o[w[p]])
           T == {d \in 0..H : \A p \in 1..N : h[p] = d => OK(p)}
<1>1. DOMAIN pgs = 1..N /\ 1 \in 1..N
  BY TreeParts
<1>2. \A p \in 1..N : IsLeaf(pgs[p]) <=> h[p] = 0
  BY KindOf
<1>3. \A p \in 1..N : r[p] = Head(pgs[p].kids)
  BY <1>1 DEF Leftmost
<1>4. ASSUME NEW u PROVE body(u) = [p \in 1..N |-> IF h[p] = 0 THEN p ELSE u[r[p]]]
  BY <1>1, <1>2, <1>3
<1>5. \E u : u = body(u)
  <2>1. PICK d : LeadsTo(d, r, pgs, h)
    BY LeftmostPicks, DescentExists
  <2>2. \A p \in 1..N : d[p] = IF h[p] = 0 THEN p ELSE d[r[p]]
    BY <2>1 DEF LeadsTo
  <2>3. body(d) = [p \in 1..N |-> IF h[p] = 0 THEN p ELSE d[r[p]]]
    BY <1>4
  <2>4. d = [p \in 1..N |-> d[p]]
    BY <2>1 DEF LeadsTo
  <2>5. d = body(d)
    <3> HIDE DEF body, N, r
    <3>1. QED
      BY <2>2, <2>3, <2>4
  <2>6. QED
    BY <2>5
<1>6. w = body(w)
  <2> HIDE DEF body
  <2>1. QED
    BY <1>5
<1>7. get_leftmost_leaf(pgs) = w[1]
  BY DEF get_leftmost_leaf, Root
<1> HIDE DEF w
<1>8. \A p \in 1..N : w[p] = IF h[p] = 0 THEN p ELSE w[r[p]]
  <2> HIDE DEF body, r, N
  <2>1. w = [p \in 1..N |-> IF h[p] = 0 THEN p ELSE w[r[p]]]
    BY <1>4, <1>6
  <2>2. QED
    BY <2>1
<1>9. H \in Nat /\ \A p \in 1..N : h[p] \in Nat /\ h[p] <= H
  BY TreeParts
<1> HIDE DEF body, r
<1>10. 0 \in T
  <2>1. ASSUME NEW p \in 1..N, h[p] = 0 PROVE OK(p)
    BY <1>8, <2>1
  <2> HIDE DEF OK
  <2>2. QED
    BY <1>9, <2>1
<1>11. ASSUME NEW d \in 0..(H - 1), d \in T PROVE d + 1 \in T
  <2>1. ASSUME NEW p \in 1..N, h[p] = d + 1 PROVE OK(p)
    <3>1. h[p] # 0 /\ h[p] - 1 = d
      BY <1>9, <2>1
    <3>2. r[p] \in 1..N /\ h[r[p]] = d /\ w[p] = w[r[p]] /\ (0 \in o[p] => 0 \in o[r[p]])
      BY <1>8, <3>1, LeftmostPicks DEF Picks, r
    <3>3. OK(r[p])
      <4> HIDE DEF OK
      <4>1. QED
        BY <1>11, <3>2
    <3>4. QED
      BY <3>2, <3>3
  <2>2. d + 1 \in 0..H
    BY <1>9
  <2> HIDE DEF OK
  <2>3. QED
    BY <2>1, <2>2
<1>12. \A d \in 0..H : d \in T
  <2> HIDE DEF T
  <2>1. QED
    BY <1>9, <1>10, <1>11, BoundedInduction
<1>13. h[1] \in 0..H
  BY <1>1, <1>9
<1>14. OK(1)
  <2> HIDE DEF OK
  <2>1. QED
    BY <1>1, <1>12, <1>13
<1>15. Owners(o, h, N) /\ 0 \in o[1]
  BY DEF Owned, Owners
<1>16. LeafFor(pgs, 0) \in 1..N /\ h[LeafFor(pgs, 0)] = 0 /\ 0 \in o[LeafFor(pgs, 0)]
  BY LeafOwned
<1>17. w[1] = LeafFor(pgs, 0)
  BY <1>14, <1>15, <1>16, OneOwner
<1>18. QED
  BY <1>7, <1>17

\* The cursor stands in front of the rows from t on: it is new and starts with
\* the first leaf or with t, or it has just yielded the row before.
Stands(pgs, it, t) ==
    \/ ~it.initialized /\ it.start = {} /\ t = 0
    \/ ~it.initialized /\ it.start = {t} /\ t \in Keys
    \/ /\ it.initialized /\ it.page \in LeafIds(pgs)
       /\ \E i \in 1..Len(pgs[it.page].records) :
             it.slot = i + 1 /\ t = pgs[it.page].records[i].row_id + 1

\* Then that is where next begins.
LEMMA StandsAhead ==
    ASSUME NEW pgs, NEW h, TreeOK(pgs, h), NEW o, Owned(pgs, h, o), LeafChain(pgs),
           NEW it, NEW t, Stands(pgs, it, t)
    PROVE  LET from == Positioned(pgs, it)
           IN  /\ from.page \in LeafIds(pgs) /\ from.slot \in Nat \ {0} /\ from.start = it.start
               /\ Ahead(pgs, from.page, from.slot) = RowsFrom(pgs, t)
<1> DEFINE from == Positioned(pgs, it)
           leaf(k) == LeafFor(pgs, k)
           slot(k) == SlotOf(pgs[leaf(k)].records, k)
<1>1. Rolled(pgs)
  BY RolledTree
<1>2. \A k \in Int : leaf(k) \in LeafIds(pgs) /\ slot(k) \in Nat \ {0} /\ Parts(pgs, leaf(k), slot(k), k)
  BY PartsAt
<1> HIDE DEF leaf, slot
<1>3. CASE ~it.initialized /\ it.start = {} /\ t = 0
  <2>1. from.page = leaf(0) /\ from.slot = 1 /\ from.start = it.start
    BY <1>3, LeftmostIs DEF Positioned, leaf
  <2>2. slot(0) = 1
    <3> DEFINE r == pgs[leaf(0)].records
    <3>1. leaf(0) \in LeafIds(pgs)
      BY <1>2
    <3>2. r \in Seq(Records)
      BY <1>1, <3>1 DEF Rolled, LeavesHold
    <3> HIDE DEF r
    <3>8. \A rec \in Records : rec.row_id \in Nat
      BY KeysAssumption DEF Records
    <3>9. \A i \in DOMAIN r : r[i].row_id \in Nat
      BY <3>2, <3>8
    <3>4. {i \in DOMAIN r : r[i].row_id < 0} = {}
      BY <3>9
    <3>5. Cardinality({i \in DOMAIN r : r[i].row_id < 0}) = 0
      BY <3>4, FS_EmptySet
    <3>6. SlotOf(r, 0) = 1
      BY <3>5 DEF SlotOf
    <3>7. QED
      BY <3>6 DEF slot, r
  <2>3. leaf(0) \in LeafIds(pgs) /\ Parts(pgs, leaf(0), 1, 0)
    BY <1>2, <2>2
  <2>4. Ahead(pgs, leaf(0), 1) = RowsFrom(pgs, 0)
    BY <1>1, <2>3, AheadIs
  <2>5. QED
    BY <1>3, <2>1, <2>3, <2>4
<1>4. CASE ~it.initialized /\ it.start = {t} /\ t \in Keys
  <2>1. t \in Int
    BY <1>4, KeyInt
  <2>2. (CHOOSE k \in it.start : TRUE) = t /\ it.start # {}
    BY <1>4
  <2>3. from.page = leaf(t) /\ from.slot = slot(t) /\ from.start = it.start
    BY <1>4, <2>2 DEF Positioned, get_leaf_and_slot, leaf, slot
  <2>4. leaf(t) \in LeafIds(pgs) /\ slot(t) \in Nat \ {0} /\ Parts(pgs, leaf(t), slot(t), t)
    BY <1>2, <2>1
  <2>5. Ahead(pgs, leaf(t), slot(t)) = RowsFrom(pgs, t)
    BY <1>1, <2>4, AheadIs
  <2>6. QED
    BY <2>3, <2>4, <2>5
<1>5. CASE it.initialized /\ it.page \in LeafIds(pgs)
           /\ \E i \in 1..Len(pgs[it.page].records) :
                it.slot = i + 1 /\ t = pgs[it.page].records[i].row_id + 1
  <2>1. from = it
    BY <1>5 DEF Positioned
  <2>2. PICK i \in 1..Len(pgs[it.page].records) : it.slot = i + 1 /\ t = pgs[it.page].records[i].row_id + 1
    BY <1>5
  <2>3. Parts(pgs, it.page, i + 1, t)
    BY <1>1, <1>5, <2>2, PartsBehind
  <2>4. Len(pgs[it.page].records) \in Nat
    BY <1>1, <1>5 DEF Rolled, LeavesHold
  <2>5. i + 1 \in Nat \ {0}
    BY <2>4
  <2>6. Ahead(pgs, it.page, i + 1) = RowsFrom(pgs, t)
    BY <1>1, <1>5, <2>3, <2>5, AheadIs
  <2>7. QED
    BY <1>5, <2>1, <2>2, <2>5, <2>6
<1>6. QED
  BY <1>3, <1>4, <1>5 DEF Stands

-----------------------------------------------------------------------------
(* What next does to a cursor that stands in front of the rows from t on. *)

\* A tree in order with a chain of leaves.
Whole(pgs) == InOrder(pgs) /\ LeafChain(pgs)

\* The cursor has just yielded the row with key k.
Behind(pgs, it, k) ==
    /\ it.initialized /\ it.page \in LeafIds(pgs)
    /\ \E i \in 1..Len(pgs[it.page].records) : it.slot = i + 1 /\ k = pgs[it.page].records[i].row_id

\* Then it stands in front of the rows behind k.
LEMMA BehindStands ==
    ASSUME NEW pgs, NEW it, NEW k, Behind(pgs, it, k)
    PROVE  Stands(pgs, it, k + 1)
BY DEF Behind, Stands

\* got is the first row from t on, or the end.
Finds(pgs, got, start, t) ==
    /\ got.it.start = start
    /\ IF RowsFrom(pgs, t) = {} THEN got.res = "End"
       ELSE /\ got.res = "Row" /\ FirstOf(RowsFrom(pgs, t), got.row[1])
            /\ Behind(pgs, got.it, got.row[1].row_id)

\* next finds the first row from t on.
LEMMA NextFinds ==
    ASSUME NEW pgs, Whole(pgs), NEW it, NEW t, Stands(pgs, it, t)
    PROVE  Finds(pgs, next(pgs, it), it.start, t)
<1> DEFINE from == Positioned(pgs, it)
           A == RowsFrom(pgs, t)
           got == next(pgs, it)
<1>1. PICK h, o : TreeOK(pgs, h) /\ Owned(pgs, h, o)
  BY DEF Whole, InOrder
<1>2. LeafChain(pgs)
  BY DEF Whole
<1>3. Rolled(pgs)
  BY <1>1, <1>2, RolledTree
<1>4. /\ from.page \in LeafIds(pgs) /\ from.slot \in Nat \ {0} /\ from.start = it.start
      /\ Ahead(pgs, from.page, from.slot) = A
  BY <1>1, <1>2, StandsAhead
<1>5. PICK w : /\ Goes(w, Reported(pgs), AtRest(pgs), Moved(pgs), Cursors(pgs))
               /\ got = FoundAt(pgs, from, w[<<from.page, from.slot>>])
  BY <1>3, NextIs
<1> HIDE DEF from, A, got
<1> DEFINE at == w[<<from.page, from.slot>>]
<1>6. Rests(pgs, A, at)
  BY <1>3, <1>4, <1>5, SeekRests
<1>7. got = FoundAt(pgs, from, at)
  BY <1>5
<1> HIDE DEF at
<1>8. /\ got.res = at.res /\ got.it.start = it.start
      /\ at.res = "Row" => /\ got.row[1] = pgs[at.page].records[at.slot]
                           /\ got.it.initialized /\ got.it.page = at.page /\ got.it.slot = at.slot + 1
  BY <1>4, <1>7 DEF FoundAt
<1>9. CASE A = {}
  <2>1. at.res = "End"
    BY <1>6, <1>9 DEF Rests
  <2>2. QED
    BY <1>8, <1>9, <2>1 DEF Finds, A, got
<1>10. CASE A # {}
  <2>1. /\ at.res = "Row" /\ at.page \in LeafIds(pgs) /\ at.slot \in 1..Len(pgs[at.page].records)
        /\ FirstOf(A, pgs[at.page].records[at.slot])
    BY <1>6, <1>10 DEF Rests
  <2>2. Behind(pgs, got.it, got.row[1].row_id)
    BY <1>8, <2>1 DEF Behind
  <2>3. QED
    BY <1>8, <1>10, <2>1, <2>2 DEF Finds, A, got
<1>11. QED
  BY <1>9, <1>10

-----------------------------------------------------------------------------
(* What a statement's change of one row does to the rows. *)

\* x is a row of the tree.
IsRow(pgs, x) == x \in Records /\ ~x.is_deleted /\ Stored(pgs, x)

\* The rows are what Contents holds.
LEMMA RowIs ==
    ASSUME NEW pgs, NEW h, TreeOK(pgs, h), NEW x \in Records
    PROVE  IsRow(pgs, x) <=> ~x.is_deleted /\ <<x.row_id, x.len>> \in Contents(pgs)
<1>1. \A q \in LeafIds(pgs) : q \in 1..Len(pgs) /\ h[q] = 0
  BY LeafIdsAre
<1>2. ASSUME IsRow(pgs, x) PROVE ~x.is_deleted /\ <<x.row_id, x.len>> \in Contents(pgs)
  <2>1. PICK q \in LeafIds(pgs) : x \in ToSet(pgs[q].records)
    BY <1>2 DEF IsRow, Stored
  <2>2. ~x.is_deleted
    BY <1>2 DEF IsRow
  <2>3. <<x.row_id, x.len>> \in Pairs(pgs[q].records)
    BY <2>1, <2>2, PairsMember
  <2>4. <<x.row_id, x.len>> \in Contents(pgs)
    BY <1>1, <2>3, ContentsOf
  <2>5. QED
    BY <2>2, <2>4
<1>3. ASSUME ~x.is_deleted, <<x.row_id, x.len>> \in Contents(pgs) PROVE IsRow(pgs, x)
  <2>1. PICK q \in 1..Len(pgs) : h[q] = 0 /\ <<x.row_id, x.len>> \in Pairs(pgs[q].records)
    BY <1>3, ContentsOf
  <2>2. PICK rec \in ToSet(pgs[q].records) : ~rec.is_deleted /\ <<x.row_id, x.len>> = <<rec.row_id, rec.len>>
    BY <2>1, PairsMember
  <2>3. LeafOK(pgs[q]) /\ q \in LeafIds(pgs)
    BY <2>1, KindOf, LeafIdsAre
  <2>4. pgs[q].records \in Seq(Records)
    BY <2>3, LeafParts
  <2>5. rec \in Records
    BY <2>2, <2>4, Members
  <2>6. rec.row_id = x.row_id /\ rec.len = x.len
    BY <2>2
  <2>7. rec = x
    BY <1>3, <2>2, <2>5, <2>6 DEF Records
  <2>8. QED
    BY <1>3, <2>2, <2>3, <2>7 DEF IsRow, Stored
<1>4. QED
  BY <1>2, <1>3

\* The changes of SELECT, DELETE and UPDATE.
Change(kind, len, pgs, k) ==
    IF kind = "select" THEN Done(pgs)
    ELSE IF kind = "delete" THEN delete(pgs, k)
    ELSE update(pgs, k, len)

\* What a row with a key that was visited looks like.
After(kind, len, x) == kind = "select" \/ (kind = "update" /\ x.len = len)

\* new is old with the row k changed.
Changed(new, old, k, kind, len) ==
    /\ Whole(new)
    /\ \A x \in Records : x.row_id # k => (IsRow(new, x) <=> IsRow(old, x))
    /\ \A x \in Records : IsRow(new, x) /\ x.row_id = k => After(kind, len, x)

\* Changes change one row.
LEMMA ChangeRows ==
    ASSUME NEW pgs, Whole(pgs), NEW k, NEW x, IsRow(pgs, x), k = x.row_id,
           NEW kind \in {"select", "delete", "update"}, NEW len \in Payloads,
           Change(kind, len, pgs, k).res = "Ok"
    PROVE  Changed(Change(kind, len, pgs, k).pages, pgs, k, kind, len)
<1> DEFINE new == Change(kind, len, pgs, k).pages
           C == Contents(pgs)
           D == Contents(new)
<1>1. PICK h, o : TreeOK(pgs, h) /\ Owned(pgs, h, o)
  BY DEF Whole, InOrder
<1>2. LeafChain(pgs) /\ x \in Records
  BY DEF Whole, IsRow
<1>3. k \in Keys
  BY <1>2 DEF Records
<1>4. CASE kind = "select"
  <2>1. new = pgs
    BY <1>4 DEF Change, Done
  <2> HIDE DEF new
  <2>2. Changed(new, pgs, k, kind, len)
    BY <1>4, <2>1 DEF Changed, After
  <2>3. QED
    BY <2>2 DEF new
<1>5. CASE kind = "delete"
  <2>1. new = delete(pgs, k).pages
    BY <1>5 DEF Change
  <2>2. TreeOK(new, h) /\ Owned(new, h, o) /\ LeafChain(new)
    BY <1>1, <1>2, <1>3, <2>1, DeleteOK, DeleteOrd, DeleteChain
  <2>3. D = Without(C, k)
    BY <1>1, <1>3, <2>1, DeleteOrd
  <2> HIDE DEF new
  <2>4. \A p : p \in D <=> p \in C /\ p[1] # k
    BY <2>3 DEF Without
  <2> HIDE DEF C, D
  <2>5. \A y \in Records : IsRow(new, y) <=> ~y.is_deleted /\ <<y.row_id, y.len>> \in D
    BY <2>2, RowIs DEF D
  <2>6. \A y \in Records : IsRow(pgs, y) <=> ~y.is_deleted /\ <<y.row_id, y.len>> \in C
    BY <1>1, RowIs DEF C
  <2>7. \A y \in Records : <<y.row_id, y.len>> \in D <=> <<y.row_id, y.len>> \in C /\ y.row_id # k
    BY <2>4
  <2>8. Whole(new)
    BY <2>2 DEF Whole, InOrder
  <2>9. Changed(new, pgs, k, kind, len)
    BY <2>5, <2>6, <2>7, <2>8 DEF Changed
  <2>10. QED
    BY <2>9 DEF new
<1>6. CASE kind = "update"
  <2>1. Change(kind, len, pgs, k) = update(pgs, k, len)
    BY <1>6 DEF Change
  <2>2. new = update(pgs, k, len).pages /\ update(pgs, k, len).res = "Ok"
    BY <2>1
  <2>3. <<k, x.len>> \in C
    BY <1>1, <1>2, RowIs
  <2>4. Bound(C, k)
    BY <2>3 DEF Bound
  <2>5. InOrder(new) /\ LeafChain(new)
    BY <1>1, <1>2, <1>3, <2>2, UpdateOrd, UpdateChain
  <2>6. D = Without(C, k) \cup {<<k, len>>}
    BY <1>1, <1>3, <2>2, <2>4, UpdateOrd
  <2> HIDE DEF new
  <2>7. \A p : p \in D <=> (p \in C /\ p[1] # k) \/ p = <<k, len>>
    BY <2>6 DEF Without
  <2>8. PICK g : TreeOK(new, g)
    BY <2>5 DEF InOrder
  <2> HIDE DEF C, D
  <2>9. \A y \in Records : IsRow(new, y) <=> ~y.is_deleted /\ <<y.row_id, y.len>> \in D
    BY <2>8, RowIs DEF D
  <2>10. \A y \in Records : IsRow(pgs, y) <=> ~y.is_deleted /\ <<y.row_id, y.len>> \in C
    BY <1>1, RowIs DEF C
  <2>11. \A y \in Records : y.row_id # k => (<<y.row_id, y.len>> \in D <=> <<y.row_id, y.len>> \in C)
    BY <2>7
  <2>12. \A y \in Records : y.row_id = k /\ <<y.row_id, y.len>> \in D => y.len = len
    BY <2>7
  <2>13. Whole(new)
    BY <2>5 DEF Whole
  <2>14. Changed(new, pgs, k, kind, len)
    BY <1>6, <2>9, <2>10, <2>11, <2>12, <2>13 DEF Changed, After
  <2>15. QED
    BY <2>14 DEF new
<1>7. QED
  BY <1>4, <1>5, <1>6

\* delete_record marks one slot and leaves the others alone.
LEMMA DeleteSlots ==
    ASSUME NEW leaf, LeafOK(leaf), NEW row_id \in Keys, delete_record(leaf, row_id).res = "Ok"
    PROVE  LET r == leaf.records
               s == delete_record(leaf, row_id).leaf.records
           IN  Len(s) = Len(r) /\ \A i \in 1..Len(r) : s[i].row_id = r[i].row_id
<1> DEFINE r == leaf.records
           j == SlotOf(r, row_id)
           e == [r[j] EXCEPT !.is_deleted = TRUE]
           s == [r EXCEPT ![j] = e]
<1>1. r \in Seq(Records)
  BY LeafParts
<1>2. HasKey(r, row_id)
  BY DEF delete_record, Err
<1>3. j \in 1..Len(r)
  BY <1>1, <1>2, Found
<1>4. delete_record(leaf, row_id).leaf.records = s
  BY <1>2 DEF delete_record, Ok, LeafOK, LeafNodes
<1>5. r[j] \in Records
  BY <1>1, <1>3
<1>6. e.row_id = r[j].row_id
  BY <1>5 DEF Records
<1> HIDE DEF r, j, e
<1>7. Len(s) = Len(r) /\ \A i \in 1..Len(r) : s[i] = IF i = j THEN e ELSE r[i]
  BY <1>1, <1>3
<1> HIDE DEF s
<1>8. \A i \in 1..Len(r) : s[i].row_id = r[i].row_id
  BY <1>6, <1>7
<1>9. QED
  BY <1>4, <1>7, <1>8 DEF r

\* A deletion of a row succeeds and keeps all slots.
LEMMA DeleteKeeps ==
    ASSUME NEW pgs, NEW h, TreeOK(pgs, h), NEW o, Owned(pgs, h, o), NEW k \in Keys, Bound(Contents(pgs), k)
    PROVE  delete(pgs, k).res = "Ok" /\ SlotsKept(pgs, delete(pgs, k).pages)
<1> DEFINE leaf == LeafFor(pgs, k)
           del == delete_record(pgs[leaf], k)
           st == delete(pgs, k)
           t == [pgs EXCEPT ![leaf] = del.leaf]
<1>1. k \in Int
  BY KeyInt
<1>2. /\ leaf \in 1..Len(pgs) /\ h[leaf] = 0 /\ LeafOK(pgs[leaf]) /\ k \in o[leaf]
      /\ LeafOrd(pgs[leaf], o[leaf])
  BY <1>1, LeafOwned
<1>3. st = IF del.res = "Ok" THEN Done(t) ELSE Failed(del.res, pgs)
  BY DEF delete
<1> HIDE DEF leaf
<1>4. del.res = "Ok"
  <2>1. Bound(Pairs(pgs[leaf].records), k)
    BY <1>1, <1>2, BoundAtLeaf
  <2>2. QED
    BY <1>2, <2>1, DeleteRecordOrd
<1>5. LeafOK(del.leaf) /\ SameLinks(del.leaf, pgs[leaf])
  BY <1>2, <1>4, DeleteRecordOK
<1> DEFINE r == pgs[leaf].records
           s == del.leaf.records
<1>6. Len(s) = Len(r) /\ \A i \in 1..Len(r) : s[i].row_id = r[i].row_id
  BY <1>2, <1>4, DeleteSlots
<1>7. TreeOK(t, h)
  BY <1>2, <1>5, ReplaceLeaf
<1>8. DOMAIN pgs = 1..Len(pgs)
  BY TreeParts
<1>9. t[leaf] = del.leaf /\ \A q \in 1..Len(pgs) : q # leaf => t[q] = pgs[q]
  BY <1>2, <1>8
<1>10. st.res = "Ok" /\ st.pages = t
  BY <1>3, <1>4 DEF Done
<1> HIDE DEF st, del, t
<1>11. ASSUME NEW p \in LeafIds(pgs)
       PROVE  /\ p \in LeafIds(t) /\ Len(t[p].records) = Len(pgs[p].records)
              /\ \A i \in DOMAIN pgs[p].records : t[p].records[i].row_id = pgs[p].records[i].row_id
  <2>1. p \in 1..Len(pgs) /\ h[p] = 0
    BY LeafIdsAre
  <2>2. Len(t) = Len(pgs)
    BY <1>8 DEF t
  <2>3. p \in LeafIds(t)
    BY <1>7, <2>1, <2>2, LeafIdsAre
  <2>4. LeafOK(pgs[p])
    BY <2>1, KindOf
  <2>5. pgs[p].records \in Seq(Records)
    BY <2>4, LeafParts
  <2>6. DOMAIN pgs[p].records = 1..Len(pgs[p].records)
    BY <2>5
  <2>7. CASE p = leaf
    BY <1>6, <1>9, <2>3, <2>6, <2>7
  <2>8. CASE p # leaf
    BY <1>9, <2>1, <2>3, <2>8
  <2>9. QED
    BY <2>7, <2>8
<1>12. SlotsKept(pgs, t)
  BY <1>11 DEF SlotsKept
<1>13. QED
  BY <1>10, <1>12 DEF st

\* Every insertion has a result.
LEMMA InsertRes ==
    ASSUME NEW pgs, NEW h, TreeOK(pgs, h), NEW o, Owned(pgs, h, o), NEW row_id \in Keys, NEW len \in Payloads
    PROVE  insert(pgs, row_id, len).res \in Results
<1> DEFINE leaf == LeafFor(pgs, row_id)
           path == PathTo(pgs, row_id)
           inserted == insert_leaf(pgs, leaf, row_id, len)
           H == h[1]
<1>1. row_id \in Int /\ H \in Nat
  BY KeyInt, TreeParts
<1>2. leaf \in 1..Len(pgs) /\ h[leaf] = 0 /\ row_id \in o[leaf]
  BY <1>1, LeafOwned
<1>3. IsPath(path, h, 1)
  BY PathOK DEF Root
<1>4. insert(pgs, row_id, len) = propagate(path, inserted)
  BY DEF insert
<1>5. inserted.res = "Ok" => insert(pgs, row_id, len).res = "Ok"
  BY InsertOrd
<1> HIDE DEF leaf, path
<1>6. inserted \in States
  BY <1>2, InsertLeafOK DEF Rising
<1>7. inserted.res # "Ok" => inserted.split = <<>>
  BY <1>2, InsertLeafOrd
<1> HIDE DEF inserted, H
<1>8. Len(path) = H + 1
  BY <1>3 DEF IsPath, H
<1>9. CASE inserted.res = "Ok"
  BY <1>5, <1>9 DEF Results
<1>10. CASE inserted.res # "Ok"
  <2> DEFINE Q == [k \in 0..H |-> {inserted}]
  <2>1. Q \in [0..H -> SUBSET States] /\ \A k \in 0..H : Q[k] = {inserted}
    BY <1>6
  <2> HIDE DEF Q
  <2>2. inserted \in Q[0] /\ H \in 0..H
    BY <1>1, <2>1
  <2>3. ASSUME NEW k \in 1..H, NEW v \in Q[k - 1] PROVE Up(path[(H + 1) - k], v) \in Q[k]
    <3>1. k - 1 \in 0..H /\ k \in 0..H
      BY <1>1
    <3>2. v = inserted
      BY <2>1, <2>3, <3>1
    <3>3. Up(path[(H + 1) - k], v) = inserted
      BY <1>7, <1>10, <3>2 DEF Up
    <3>4. QED
      BY <2>1, <3>1, <3>3
  <2>4. CarriedUp(path, Q, H)
    BY <2>3 DEF CarriedUp
  <2>5. PICK v \in Q[H] : propagate(path, inserted) = AtRoot(v)
    BY <1>1, <1>8, <2>1, <2>2, <2>4, PropagateUp
  <2>6. v = inserted
    BY <2>1, <2>2, <2>5
  <2>7. insert(pgs, row_id, len) = inserted
    BY <1>4, <1>7, <1>10, <2>5, <2>6 DEF AtRoot
  <2>8. inserted.res \in Results
    BY <1>6 DEF States
  <2>9. QED
    BY <2>7, <2>8
<1>11. QED
  BY <1>9, <1>10

\* Every update has a result.
LEMMA UpdateRes ==
    ASSUME NEW pgs, NEW h, TreeOK(pgs, h), NEW o, Owned(pgs, h, o), NEW row_id \in Keys, NEW len \in Payloads
    PROVE  update(pgs, row_id, len).res \in Results
<1> DEFINE leaf == LeafFor(pgs, row_id)
           up == update_record(pgs[leaf], row_id, len)
           del == delete_record(pgs[leaf], row_id)
           without == [pgs EXCEPT ![leaf] = del.leaf]
           moved == insert(without, row_id, len)
           st == update(pgs, row_id, len)
<1>1. row_id \in Int
  BY KeyInt
<1>2. /\ leaf \in 1..Len(pgs) /\ h[leaf] = 0 /\ LeafOK(pgs[leaf]) /\ LeafOrd(pgs[leaf], o[leaf])
  BY <1>1, LeafOwned
<1>3. st = CASE up.res = "Ok" -> Done([pgs EXCEPT ![leaf] = up.leaf])
             [] up.res = "PageFull" -> IF moved.res = "Ok" THEN moved ELSE Failed(moved.res, pgs)
             [] up.res \notin {"Ok", "PageFull"} -> Failed(up.res, pgs)
  BY DEF update
<1> HIDE DEF leaf
<1>4. up.res \in Results /\ (up.res = "PageFull" => HasKey(pgs[leaf].records, row_id))
  BY <1>2, UpdateRecordOK
<1>5. HasKey(pgs[leaf].records, row_id) =>
        LeafOK(del.leaf) /\ SameLinks(del.leaf, pgs[leaf]) /\ LeafOrd(del.leaf, o[leaf])
  BY <1>2, DeleteRecordOK, DeleteRecordOrd
<1> HIDE DEF up, del, moved, st
<1>6. CASE up.res = "Ok"
  <2>1. st = Done([pgs EXCEPT ![leaf] = up.leaf])
    BY <1>3, <1>6
  <2>2. st.res = "Ok"
    BY <2>1 DEF Done
  <2>3. QED
    BY <2>2 DEF st, Results
<1>7. CASE up.res = "PageFull"
  <2>1. TreeOK(without, h) /\ Owned(without, h, o)
    BY <1>2, <1>4, <1>5, <1>7, ReplaceLeaf, ReplaceOrd
  <2>2. st = IF moved.res = "Ok" THEN moved ELSE Failed(moved.res, pgs)
    BY <1>3, <1>7
  <2> HIDE DEF without
  <2>3. moved.res \in Results
    BY <2>1, InsertRes DEF moved
  <2>4. st.res = moved.res
    BY <2>2 DEF Failed
  <2>5. QED
    BY <2>3, <2>4 DEF st
<1>8. CASE up.res \notin {"Ok", "PageFull"}
  <2>1. st = Failed(up.res, pgs)
    BY <1>3, <1>8
  <2>2. st.res = up.res
    BY <2>1 DEF Failed
  <2>3. QED
    BY <1>4, <2>2 DEF st
<1>9. QED
  BY <1>6, <1>7, <1>8

\* Changes have a result, and those of SELECT and DELETE succeed in place.
LEMMA ChangeRes ==
    ASSUME NEW pgs, Whole(pgs), NEW k, NEW x, IsRow(pgs, x), k = x.row_id,
           NEW kind \in {"select", "delete", "update"}, NEW len \in Payloads
    PROVE  /\ Change(kind, len, pgs, k).res \in Results
           /\ kind # "update" => /\ Change(kind, len, pgs, k).res = "Ok"
                                 /\ SlotsKept(pgs, Change(kind, len, pgs, k).pages)
<1> DEFINE st == Change(kind, len, pgs, k)
<1>1. PICK h, o : TreeOK(pgs, h) /\ Owned(pgs, h, o)
  BY DEF Whole, InOrder
<1>2. x \in Records
  BY DEF IsRow
<1>3. k \in Keys
  BY <1>2 DEF Records
<1>4. CASE kind = "select"
  <2>1. st = Done(pgs)
    BY <1>4 DEF Change
  <2>2. st.res = "Ok" /\ st.pages = pgs
    BY <2>1 DEF Done
  <2>3. SlotsKept(pgs, pgs)
    BY DEF SlotsKept
  <2> HIDE DEF st
  <2>4. QED
    BY <2>2, <2>3 DEF Results, st
<1>5. CASE kind = "delete"
  <2>1. st = delete(pgs, k)
    BY <1>5 DEF Change
  <2>2. <<k, x.len>> \in Contents(pgs)
    BY <1>1, <1>2, RowIs
  <2>3. Bound(Contents(pgs), k)
    BY <2>2 DEF Bound
  <2>4. delete(pgs, k).res = "Ok" /\ SlotsKept(pgs, delete(pgs, k).pages)
    BY <1>1, <1>3, <2>3, DeleteKeeps
  <2>5. QED
    BY <2>1, <2>4 DEF Results
<1>6. CASE kind = "update"
  <2>1. st = update(pgs, k, len)
    BY <1>6 DEF Change
  <2>2. update(pgs, k, len).res \in Results
    BY <1>1, <1>3, UpdateRes
  <2>3. QED
    BY <1>6, <2>1, <2>2
<1>7. QED
  BY <1>4, <1>5, <1>6

\* A change that keeps the slots keeps the place of the cursor.
LEMMA BehindKept ==
    ASSUME NEW pgs, Whole(pgs), NEW new, SlotsKept(pgs, new), NEW it, NEW k, Behind(pgs, it, k)
    PROVE  Behind(new, it, k)
<1>1. PICK h, o : TreeOK(pgs, h) /\ Owned(pgs, h, o)
  BY DEF Whole, InOrder
<1> DEFINE p == it.page
<1>2. p \in LeafIds(pgs)
  BY DEF Behind
<1>3. pgs[p].records \in Seq(Records)
  BY <1>1, <1>2, LeafRecords
<1>4. DOMAIN pgs[p].records = 1..Len(pgs[p].records)
  BY <1>3
<1>5. /\ p \in LeafIds(new) /\ Len(new[p].records) = Len(pgs[p].records)
      /\ \A i \in 1..Len(pgs[p].records) : new[p].records[i].row_id = pgs[p].records[i].row_id
  BY <1>2, <1>4 DEF SlotsKept
<1>6. QED
  BY <1>5 DEF Behind

-----------------------------------------------------------------------------
(* One row of a scan. *)

\* seen lists the rows from t0 on that have keys smaller than t.
Seen(pgs, seen, t0, t) ==
    /\ seen \in Seq(Records) /\ Ascending(seen)
    /\ \A x \in Records : x \in ToSet(seen) <=> IsRow(pgs, x) /\ t0 <= x.row_id /\ x.row_id < t

\* The rows with keys smaller than t are changed, and the others are not.
Treated(pgs, now, kind, len, t) ==
    \A x \in Records : IF x.row_id < t THEN IsRow(now, x) => After(kind, len, x)
                       ELSE IsRow(now, x) <=> IsRow(pgs, x)

\* x is the first row from t on.
Leads(now, t, x) ==
    /\ IsRow(now, x) /\ t <= x.row_id
    /\ \A y \in Records : IsRow(now, y) /\ t <= y.row_id => y = x \/ x.row_id < y.row_id

\* FirstOf in these terms.
LEMMA FirstLeads ==
    ASSUME NEW now, NEW t, NEW x, FirstOf(RowsFrom(now, t), x)
    PROVE  Leads(now, t, x) /\ x \in Records
BY DEF FirstOf, RowsFrom, Leads, IsRow

\* One more row is seen.
LEMMA SeenGrows ==
    ASSUME NEW pgs, NEW now, NEW seen, NEW t0 \in Nat, NEW t \in Nat, t0 <= t, Seen(pgs, seen, t0, t),
           NEW kind, NEW len, Treated(pgs, now, kind, len, t), NEW x \in Records, Leads(now, t, x)
    PROVE  Seen(pgs, Append(seen, x), t0, x.row_id + 1) /\ Len(Append(seen, x)) = Len(seen) + 1
<1> DEFINE s == Append(seen, x)
           n == Len(seen)
<1>1. seen \in Seq(Records) /\ Ascending(seen)
  BY DEF Seen
<1>2. \A y \in Records : y.row_id \in Int
  BY RowIdInt
<1>3. n \in Nat /\ DOMAIN seen = 1..n /\ \A i \in 1..n : seen[i] \in Records
  BY <1>1
<1>4. /\ s \in Seq(Records) /\ Len(s) = n + 1 /\ DOMAIN s = 1..(n + 1)
      /\ \A i \in 1..n : s[i] = seen[i]
      /\ s[n + 1] = x
  BY <1>1
<1> HIDE DEF s, n
<1>5. \A i \in 1..(n + 1) : i \in 1..n \/ i = n + 1
  BY <1>3
<1>6. \A i \in 1..n : seen[i].row_id < t
  <2>1. \A i \in 1..n : seen[i] \in ToSet(seen)
    BY <1>1, Members DEF n
  <2>2. QED
    BY <1>3, <2>1 DEF Seen
<1>7. t <= x.row_id /\ IsRow(now, x)
  BY DEF Leads
<1>8. \A i \in 1..n : seen[i].row_id < x.row_id
  <2> SUFFICES ASSUME NEW i \in 1..n PROVE seen[i].row_id < x.row_id
    OBVIOUS
  <2>1. seen[i].row_id \in Int /\ x.row_id \in Int /\ seen[i].row_id < t
    BY <1>2, <1>3, <1>6
  <2>2. QED
    BY <1>7, <2>1
<1>9. Ascending(s)
  <2> SUFFICES ASSUME NEW i \in 1..(n + 1), NEW j \in 1..(n + 1), i < j PROVE s[i].row_id < s[j].row_id
    BY <1>4 DEF Ascending
  <2>1. i \in 1..n
    BY <1>3
  <2>2. CASE j \in 1..n
    BY <1>1, <1>3, <1>4, <2>1, <2>2 DEF Ascending
  <2>3. CASE j = n + 1
    BY <1>4, <1>8, <2>1, <2>3
  <2>4. QED
    BY <1>5, <2>2, <2>3
<1>10. \A y : y \in ToSet(s) <=> y \in ToSet(seen) \/ y = x
  <2>1. \A y : y \in ToSet(s) <=> \E i \in 1..(n + 1) : y = s[i]
    BY <1>4, InSeq
  <2>2. \A y : y \in ToSet(seen) <=> \E i \in 1..n : y = seen[i]
    BY <1>1, InSeq DEF n
  <2>3. \A i \in 1..n : i \in 1..(n + 1)
    BY <1>3
  <2>4. n + 1 \in 1..(n + 1)
    BY <1>3
  <2>5. QED
    BY <1>4, <1>5, <2>1, <2>2, <2>3, <2>4
<1>11. ASSUME NEW y \in Records
       PROVE  y \in ToSet(s) <=> IsRow(pgs, y) /\ t0 <= y.row_id /\ y.row_id < x.row_id + 1
  <2>1. y.row_id \in Int /\ x.row_id \in Int
    BY <1>2
  <2>2. y \in ToSet(seen) <=> IsRow(pgs, y) /\ t0 <= y.row_id /\ y.row_id < t
    BY DEF Seen
  <2>3. ~(y.row_id < t) => (IsRow(now, y) <=> IsRow(pgs, y))
    BY DEF Treated
  <2>4. ~(x.row_id < t) => (IsRow(now, x) <=> IsRow(pgs, x))
    BY DEF Treated
  <2>5. ~(x.row_id < t) /\ t0 <= x.row_id /\ x.row_id < x.row_id + 1
    BY <1>7, <2>1
  <2>6. CASE y = x
    BY <1>7, <1>10, <2>4, <2>5, <2>6
  <2>7. CASE y # x /\ y.row_id < t
    <3>1. y.row_id < x.row_id + 1
      BY <1>7, <2>1, <2>7
    <3>2. QED
      BY <1>10, <2>2, <2>7, <3>1
  <2>8. CASE y # x /\ ~(y.row_id < t)
    <3>1. t <= y.row_id
      BY <2>1, <2>8
    <3>2. IsRow(now, y) => x.row_id < y.row_id
      BY <2>8, <3>1 DEF Leads
    <3>3. x.row_id < y.row_id => ~(y.row_id < x.row_id + 1)
      BY <2>1
    <3>4. QED
      BY <1>10, <2>2, <2>3, <2>8, <3>2, <3>3
  <2>9. QED
    BY <2>6, <2>7, <2>8
<1>12. Seen(pgs, s, t0, x.row_id + 1)
  BY <1>4, <1>9, <1>11 DEF Seen
<1>13. QED
  BY <1>4, <1>12 DEF s, n

\* One more row is changed.
LEMMA TreatedGrows ==
    ASSUME NEW pgs, NEW now, NEW kind, NEW len, NEW t \in Nat, Treated(pgs, now, kind, len, t),
           NEW x \in Records, Leads(now, t, x), NEW new, Changed(new, now, x.row_id, kind, len)
    PROVE  Treated(pgs, new, kind, len, x.row_id + 1)
<1> SUFFICES ASSUME NEW y \in Records
             PROVE  IF y.row_id < x.row_id + 1 THEN IsRow(new, y) => After(kind, len, y)
                    ELSE IsRow(new, y) <=> IsRow(pgs, y)
  BY DEF Treated
<1>1. y.row_id \in Int /\ x.row_id \in Int
  BY RowIdInt
<1>2. /\ y.row_id # x.row_id => (IsRow(new, y) <=> IsRow(now, y))
      /\ IsRow(new, y) /\ y.row_id = x.row_id => After(kind, len, y)
  BY DEF Changed
<1>3. IF y.row_id < t THEN IsRow(now, y) => After(kind, len, y) ELSE IsRow(now, y) <=> IsRow(pgs, y)
  BY DEF Treated
<1>4. t <= x.row_id /\ (IsRow(now, y) /\ t <= y.row_id => y = x \/ x.row_id < y.row_id)
  BY DEF Leads
<1>5. CASE y.row_id = x.row_id
  <2>1. y.row_id < x.row_id + 1
    BY <1>1, <1>5
  <2>2. QED
    BY <1>2, <1>5, <2>1
<1>6. CASE y.row_id < t
  <2>1. y.row_id < x.row_id + 1 /\ y.row_id # x.row_id
    BY <1>1, <1>4, <1>6
  <2>2. QED
    BY <1>2, <1>3, <1>6, <2>1
<1>7. CASE y.row_id # x.row_id /\ ~(y.row_id < t)
  <2>1. t <= y.row_id
    BY <1>1, <1>7
  <2>2. IsRow(new, y) <=> IsRow(pgs, y)
    BY <1>2, <1>3, <1>7
  <2>3. IsRow(now, y) => ~(y.row_id < x.row_id + 1)
    <3>1. IsRow(now, y) => x.row_id < y.row_id
      BY <1>4, <1>7, <2>1
    <3>2. QED
      BY <1>1, <3>1
  <2>4. QED
    BY <1>2, <1>7, <2>2, <2>3
<1>8. QED
  BY <1>5, <1>6, <1>7

\* The step of a scan after next and the change of the row it found.
StepWith(st, got, mut) ==
    IF st.res # "Row" THEN st
    ELSE IF got.res # "Row"
    THEN [pages |-> st.pages, it |-> got.it, res |-> got.res, seen |-> st.seen, kept |-> st.kept]
    ELSE IF mut.res # "Ok" THEN [st EXCEPT !.res = mut.res]
    ELSE [pages |-> mut.pages, it |-> got.it, res |-> "Row",
          seen |-> Append(st.seen, got.row[1]),
          kept |-> st.kept /\ SlotsKept(st.pages, mut.pages)]

\* The step that next and the statement's change make.
StepOf(kind, len, st) ==
    StepWith(st, next(st.pages, st.it), Change(kind, len, st.pages, next(st.pages, st.it).row[1].row_id))

\* A scan that has changed n rows and goes on.
Going(pgs, kind, len, t0, st, n) ==
    /\ Whole(st.pages) /\ Len(st.seen) = n
    /\ \E t \in Nat : /\ t0 <= t /\ Stands(st.pages, st.it, t) /\ Seen(pgs, st.seen, t0, t)
                      /\ Treated(pgs, st.pages, kind, len, t)

\* A scan that is over.
Over(pgs, kind, len, t0, st) ==
    /\ Whole(st.pages) /\ st.seen \in Seq(Records) /\ Ascending(st.seen)
    /\ \A x \in Records : x \in ToSet(st.seen) <=> IsRow(pgs, x) /\ t0 <= x.row_id
    /\ \A x \in Records : IsRow(st.pages, x) => After(kind, len, x)

\* What holds of a scan after n steps, as long as it keeps the slots.
Scanned(pgs, kind, len, start, t0, st, n) ==
    /\ st.kept => /\ st.it.start = start
                  /\ st.res = "Row" => Going(pgs, kind, len, t0, st, n)
                  /\ st.res = "End" => Over(pgs, kind, len, t0, st)
    /\ kind # "update" => st.kept /\ st.res \in {"Row", "End"}
    /\ DOMAIN st = {"pages", "it", "seen", "res", "kept"}

\* The end is reached when there is no row from t on.
LEMMA ScanEnds ==
    ASSUME NEW pgs, NEW kind, NEW len, NEW t0 \in Nat, NEW st, NEW t \in Nat, t0 <= t, Whole(st.pages),
           Seen(pgs, st.seen, t0, t), Treated(pgs, st.pages, kind, len, t), RowsFrom(st.pages, t) = {}
    PROVE  Over(pgs, kind, len, t0, st)
<1>1. \A x \in Records : x.row_id \in Int
  BY RowIdInt
<1>2. \A x \in Records : IsRow(st.pages, x) => ~(t <= x.row_id)
  BY DEF RowsFrom, IsRow
<1>3. \A x \in Records : ~(t <= x.row_id) <=> x.row_id < t
  BY <1>1
<1>4. \A x \in Records : IsRow(pgs, x) => x.row_id < t
  BY <1>2, <1>3 DEF Treated
<1>5. \A x \in Records : x \in ToSet(st.seen) <=> IsRow(pgs, x) /\ t0 <= x.row_id
  BY <1>4 DEF Seen
<1>6. \A x \in Records : IsRow(st.pages, x) => After(kind, len, x)
  BY <1>2, <1>3 DEF Treated
<1>7. QED
  BY <1>5, <1>6 DEF Over, Seen

\* A step sees and changes one more row, or ends the scan.
LEMMA ScanGoes ==
    ASSUME NEW pgs, NEW kind \in {"select", "delete", "update"}, NEW len \in Payloads, NEW start,
           NEW t0 \in Nat, NEW st, NEW n \in Nat, Scanned(pgs, kind, len, start, t0, st, n)
    PROVE  Scanned(pgs, kind, len, start, t0, StepOf(kind, len, st), n + 1)
<1> DEFINE got == next(st.pages, st.it)
           x == got.row[1]
           k == x.row_id
           mut == Change(kind, len, st.pages, k)
           new == StepWith(st, got, mut)
           S(s, m) == Scanned(pgs, kind, len, start, t0, s, m)
<1>1. StepOf(kind, len, st) = new
  BY DEF StepOf
<1> HIDE DEF got, x, k, mut
<1>2. CASE st.res # "Row"
  <2>1. new = st
    BY <1>2 DEF StepWith
  <2>2. S(st, n + 1)
    BY <1>2 DEF Scanned
  <2>3. QED
    BY <1>1, <2>1, <2>2
<1>3. CASE st.res = "Row" /\ got.res # "Row"
  <2>1. new = [pages |-> st.pages, it |-> got.it, res |-> got.res, seen |-> st.seen, kept |-> st.kept]
    BY <1>3 DEF StepWith
  <2>2. /\ new.pages = st.pages /\ new.it = got.it /\ new.res = got.res /\ new.seen = st.seen
        /\ new.kept = st.kept /\ DOMAIN new = {"pages", "it", "seen", "res", "kept"}
    BY <2>1
  <2> HIDE DEF new
  <2>3. CASE ~st.kept
    BY <1>1, <2>2, <2>3 DEF Scanned
  <2>4. CASE st.kept
    <3>1. PICK t \in Nat : /\ t0 <= t /\ Stands(st.pages, st.it, t) /\ Seen(pgs, st.seen, t0, t)
                           /\ Treated(pgs, st.pages, kind, len, t) /\ Whole(st.pages) /\ st.it.start = start
      BY <1>3, <2>4 DEF Scanned, Going
    <3>2. Finds(st.pages, got, start, t)
      BY <3>1, NextFinds DEF got
    <3>3. got.it.start = start /\ got.res = "End" /\ RowsFrom(st.pages, t) = {}
      BY <1>3, <3>2 DEF Finds
    <3>4. Over(pgs, kind, len, t0, st)
      BY <3>1, <3>3, ScanEnds
    <3>5. Over(pgs, kind, len, t0, new)
      BY <2>2, <3>4 DEF Over
    <3>6. S(new, n + 1)
      BY <2>2, <2>4, <3>3, <3>5 DEF Scanned
    <3>7. QED
      BY <1>1, <3>6
  <2>5. QED
    BY <2>3, <2>4
<1>4. CASE st.res = "Row" /\ got.res = "Row" /\ mut.res # "Ok"
  <2>1. new = [st EXCEPT !.res = mut.res]
    BY <1>4 DEF StepWith
  <2>2. DOMAIN st = {"pages", "it", "seen", "res", "kept"}
    BY DEF Scanned
  <2>3. /\ new.res = mut.res /\ new.kept = st.kept /\ new.it = st.it
        /\ DOMAIN new = {"pages", "it", "seen", "res", "kept"}
    BY <2>1, <2>2
  <2> HIDE DEF new
  <2>4. CASE ~st.kept
    BY <1>1, <2>3, <2>4 DEF Scanned
  <2>5. CASE st.kept
    <3>1. PICK t \in Nat : Stands(st.pages, st.it, t) /\ Whole(st.pages) /\ st.it.start = start
      BY <1>4, <2>5 DEF Scanned, Going
    <3>2. Finds(st.pages, got, start, t)
      BY <3>1, NextFinds DEF got
    <3>3. FirstOf(RowsFrom(st.pages, t), x)
      BY <1>4, <3>2 DEF Finds, x
    <3>4. IsRow(st.pages, x)
      BY <3>3, FirstLeads DEF Leads
    <3>5. mut.res \in Results /\ (kind # "update" => mut.res = "Ok")
      BY <3>1, <3>4, ChangeRes DEF mut, k
    <3>6. new.res # "Row" /\ new.res # "End"
      BY <1>4, <2>3, <3>5 DEF Results
    <3>7. S(new, n + 1)
      BY <1>4, <2>3, <2>5, <3>1, <3>5, <3>6 DEF Scanned
    <3>8. QED
      BY <1>1, <3>7
  <2>6. QED
    BY <2>4, <2>5
<1>5. CASE st.res = "Row" /\ got.res = "Row" /\ mut.res = "Ok"
  <2>1. new = [pages |-> mut.pages, it |-> got.it, res |-> "Row", seen |-> Append(st.seen, got.row[1]),
               kept |-> st.kept /\ SlotsKept(st.pages, mut.pages)]
    BY <1>5 DEF StepWith
  <2> DEFINE both == st.kept /\ SlotsKept(st.pages, mut.pages)
  <2>11. new = [pages |-> mut.pages, it |-> got.it, res |-> "Row", seen |-> Append(st.seen, x), kept |-> both]
    BY <2>1 DEF x
  <2> HIDE DEF both, new
  <2>12. /\ new.pages = mut.pages /\ new.it = got.it /\ new.res = "Row" /\ new.seen = Append(st.seen, x)
        /\ new.kept = both
        /\ DOMAIN new = {"pages", "it", "seen", "res", "kept"}
    BY <2>11
  <2>2. /\ new.pages = mut.pages /\ new.it = got.it /\ new.res = "Row" /\ new.seen = Append(st.seen, x)
        /\ new.kept <=> st.kept /\ SlotsKept(st.pages, mut.pages)
        /\ DOMAIN new = {"pages", "it", "seen", "res", "kept"}
    BY <2>12 DEF both
  <2> HIDE DEF new
  <2>3. CASE ~st.kept
    BY <1>1, <2>2, <2>3 DEF Scanned
  <2>4. CASE st.kept
    <3>1. PICK t \in Nat : /\ t0 <= t /\ Stands(st.pages, st.it, t) /\ Seen(pgs, st.seen, t0, t)
                           /\ Treated(pgs, st.pages, kind, len, t) /\ Whole(st.pages) /\ st.it.start = start
                           /\ Len(st.seen) = n
      BY <1>5, <2>4 DEF Scanned, Going
    <3>2. Finds(st.pages, got, start, t)
      BY <3>1, NextFinds DEF got
    <3>3. got.it.start = start /\ FirstOf(RowsFrom(st.pages, t), x) /\ Behind(st.pages, got.it, k)
      BY <1>5, <3>2 DEF Finds, x, k
    <3>4. Leads(st.pages, t, x) /\ x \in Records /\ IsRow(st.pages, x) /\ t <= k
      BY <3>3, FirstLeads DEF Leads, k
    <3>5. Changed(mut.pages, st.pages, k, kind, len)
      BY <1>5, <3>1, <3>4, ChangeRows DEF mut, k
    <3>6. kind # "update" => SlotsKept(st.pages, mut.pages)
      BY <3>1, <3>4, ChangeRes DEF mut, k
    <3>7. ASSUME SlotsKept(st.pages, mut.pages) PROVE Going(pgs, kind, len, t0, new, n + 1)
      <4>1. Behind(mut.pages, got.it, k)
        BY <3>1, <3>3, <3>7, BehindKept
      <4>2. Stands(new.pages, new.it, k + 1)
        BY <2>2, <4>1, BehindStands
      <4>3. Seen(pgs, new.seen, t0, k + 1) /\ Len(new.seen) = n + 1
        BY <2>2, <3>1, <3>4, SeenGrows DEF k
      <4>4. Treated(pgs, new.pages, kind, len, k + 1)
        BY <2>2, <3>1, <3>4, <3>5, TreatedGrows DEF k
      <4>5. Whole(new.pages)
        BY <2>2, <3>5 DEF Changed
      <4>6. k \in Int
        BY <3>4, RowIdInt DEF k
      <4>7. k + 1 \in Nat /\ t0 <= k + 1
        BY <3>1, <3>4, <4>6
      <4>8. QED
        BY <4>2, <4>3, <4>4, <4>5, <4>7 DEF Going
    <3>8. S(new, n + 1)
      BY <2>2, <2>4, <3>3, <3>6, <3>7 DEF Scanned
    <3>9. QED
      BY <1>1, <3>8
  <2>5. QED
    BY <2>3, <2>4
<1>6. QED
  BY <1>2, <1>3, <1>4, <1>5

-----------------------------------------------------------------------------
(* Whole scans. *)

\* The states of a scan of M steps.
Runs(w, kind, len, pgs, start, M) ==
    w = [n \in 0..M |-> IF n = 0 THEN Opened(pgs, start) ELSE StepOf(kind, len, w[n - 1])]

\* Scans of every length exist, by induction on the length.
LEMMA RunExists ==
    ASSUME NEW kind, NEW len, NEW pgs, NEW start, NEW M \in Nat
    PROVE  \E w : Runs(w, kind, len, pgs, start, M)
<1> DEFINE a == Opened(pgs, start)
           F(s) == StepOf(kind, len, s)
           R(w, m) == w = [n \in 0..m |-> IF n = 0 THEN a ELSE F(w[n - 1])]
           T == {m \in 0..M : \E w : R(w, m)}
<1> HIDE DEF a, F
<1>1. 0 \in T
  <2> DEFINE w == [n \in 0..0 |-> a]
  <2>1. \A n \in 0..0 : n = 0
    OBVIOUS
  <2>2. w = [n \in 0..0 |-> IF n = 0 THEN a ELSE F(w[n - 1])]
    BY <2>1
  <2>3. R(w, 0)
    BY <2>2
  <2>4. 0 \in 0..M
    OBVIOUS
  <2> HIDE DEF R, w
  <2>5. QED
    BY <2>3, <2>4
<1>2. ASSUME NEW m \in 0..(M - 1), m \in T PROVE m + 1 \in T
  <2>1. PICK v : R(v, m)
    BY <1>2
  <2>2. v = [n \in 0..m |-> IF n = 0 THEN a ELSE F(v[n - 1])]
    BY <2>1
  <2>3. \A n \in 0..m : v[n] = IF n = 0 THEN a ELSE F(v[n - 1])
    BY <2>2
  <2> DEFINE w == [n \in 0..(m + 1) |-> IF n = m + 1 THEN F(v[m]) ELSE v[n]]
  <2>4. m \in Nat /\ m + 1 \in 0..M /\ \A n \in 0..(m + 1) : n = m + 1 \/ (n \in 0..m /\ n # m + 1)
    OBVIOUS
  <2>5. \A n \in 0..m : n \in 0..(m + 1) /\ n # m + 1
    OBVIOUS
  <2>6. w = [n \in 0..(m + 1) |-> w[n]] /\ \A n \in 0..(m + 1) : w[n] = IF n = m + 1 THEN F(v[m]) ELSE v[n]
    OBVIOUS
  <2> HIDE DEF w
  <2>7. ASSUME NEW n \in 0..(m + 1) PROVE w[n] = IF n = 0 THEN a ELSE F(w[n - 1])
    <3>1. CASE n = m + 1
      <4>1. n - 1 = m /\ n # 0 /\ m \in 0..m
        BY <2>4, <3>1
      <4>2. w[m] = v[m]
        BY <2>4, <2>5, <2>6, <4>1
      <4>3. QED
        BY <2>6, <3>1, <4>1, <4>2
    <3>2. CASE n \in 0..m /\ n # m + 1
      <4>1. w[n] = v[n]
        BY <2>6, <3>2
      <4>2. CASE n = 0
        BY <2>3, <3>2, <4>1, <4>2
      <4>3. CASE n # 0
        <5>1. n - 1 \in 0..m
          BY <2>4, <3>2, <4>3
        <5>2. w[n - 1] = v[n - 1]
          BY <2>5, <2>6, <5>1
        <5>3. QED
          BY <2>3, <3>2, <4>1, <4>3, <5>2
      <4>4. QED
        BY <4>2, <4>3
    <3>3. QED
      BY <2>4, <3>1, <3>2
  <2>8. R(w, m + 1)
    BY <2>6, <2>7
  <2> HIDE DEF R
  <2>9. QED
    BY <2>4, <2>8
<1>3. M \in T
  <2> HIDE DEF T
  <2>1. \A m \in 0..M : m \in T
    BY <1>1, <1>2, BoundedInduction
  <2>2. QED
    BY <2>1
<1>4. PICK w : R(w, M)
  <2> HIDE DEF R
  <2>1. QED
    BY <1>3
<1>5. QED
  BY <1>4 DEF Runs, a, F

\* The rows in front of which a new cursor stands.
StartsAt(start, t0, kind) == (start = {} /\ t0 = 0) \/ (start = {t0} /\ t0 \in Keys /\ kind = "select")

\* A scan that was just opened.
LEMMA OpenedScans ==
    ASSUME NEW pgs, Whole(pgs), NEW kind \in {"select", "delete", "update"}, NEW len, NEW start, NEW t0,
           StartsAt(start, t0, kind)
    PROVE  t0 \in Nat /\ Scanned(pgs, kind, len, start, t0, Opened(pgs, start), 0)
<1> DEFINE st == Opened(pgs, start)
<1>1. st = [pages |-> pgs, it |-> new_at_key(start), seen |-> <<>>, res |-> "Row", kept |-> TRUE]
  BY DEF Opened
<1>2. /\ st.pages = pgs /\ st.it = new_at_key(start) /\ st.seen = <<>> /\ st.res = "Row" /\ st.kept
      /\ DOMAIN st = {"pages", "it", "seen", "res", "kept"}
  BY <1>1
<1>3. ~st.it.initialized /\ st.it.start = start
  BY <1>2 DEF new_at_key
<1>4. t0 \in Nat
  <2>1. t0 = 0 \/ t0 \in Keys
    BY DEF StartsAt
  <2>2. CASE t0 = 0
    BY <2>2
  <2>3. CASE t0 \in Keys
    BY <2>3, KeysAssumption
  <2>4. QED
    BY <2>1, <2>2, <2>3
<1>5. Stands(pgs, st.it, t0)
  BY <1>3 DEF Stands, StartsAt
<1> HIDE DEF st
<1>6. \A x \in Records : x.row_id \in Int /\ ~(x.row_id < 0)
  <2>1. \A x \in Records : x.row_id \in Nat
    BY KeysAssumption DEF Records
  <2>2. QED
    BY <2>1
<1>7. Seen(pgs, <<>>, t0, t0)
  <2>1. <<>> \in Seq(Records) /\ ToSet(<<>>) = {} /\ Ascending(<<>>)
    BY DEF ToSet, Ascending
  <2>2. \A x \in Records : ~(t0 <= x.row_id /\ x.row_id < t0)
    BY <1>4, <1>6
  <2>3. QED
    BY <2>1, <2>2 DEF Seen
<1>8. Treated(pgs, pgs, kind, len, t0)
  <2>1. CASE t0 = 0
    BY <1>6, <2>1 DEF Treated
  <2>2. CASE kind = "select"
    BY <2>2 DEF Treated, After
  <2>3. QED
    BY <2>1, <2>2 DEF StartsAt
<1>9. Len(<<>>) = 0 /\ t0 <= t0
  BY <1>4
<1>10. Going(pgs, kind, len, t0, st, 0)
  BY <1>2, <1>4, <1>5, <1>7, <1>8, <1>9 DEF Going
<1>11. Scanned(pgs, kind, len, start, t0, st, 0)
  BY <1>2, <1>3, <1>10 DEF Scanned
<1>12. QED
  BY <1>4, <1>11 DEF st

\* The states of a scan.
LEMMA RunScans ==
    ASSUME NEW pgs, Whole(pgs), NEW kind \in {"select", "delete", "update"}, NEW len \in Payloads, NEW start,
           NEW t0, StartsAt(start, t0, kind), NEW M \in Nat, NEW w, Runs(w, kind, len, pgs, start, M)
    PROVE  Scanned(pgs, kind, len, start, t0, w[M], M)
<1> DEFINE S(s, m) == Scanned(pgs, kind, len, start, t0, s, m)
           F(s) == StepOf(kind, len, s)
           a == Opened(pgs, start)
           T == {m \in 0..M : S(w[m], m)}
<1>1. w = [n \in 0..M |-> IF n = 0 THEN a ELSE F(w[n - 1])]
  BY DEF Runs
<1>2. t0 \in Nat /\ S(a, 0)
  BY OpenedScans
<1>3. \A m \in Nat : \A s : S(s, m) => S(F(s), m + 1)
  BY <1>2, ScanGoes
<1> HIDE DEF S, F, a
<1>4. \A n \in 0..M : w[n] = IF n = 0 THEN a ELSE F(w[n - 1])
  BY <1>1
<1>5. 0 \in T
  BY <1>2, <1>4
<1>6. ASSUME NEW m \in 0..(M - 1), m \in T PROVE m + 1 \in T
  <2>1. m \in Nat /\ m + 1 \in 0..M /\ m + 1 # 0 /\ (m + 1) - 1 = m
    OBVIOUS
  <2>2. S(w[m], m)
    BY <1>6
  <2>3. w[m + 1] = F(w[m])
    BY <1>4, <2>1
  <2>4. QED
    BY <1>3, <2>1, <2>2, <2>3
<1> HIDE DEF T
<1>7. \A m \in 0..M : m \in T
  BY <1>5, <1>6, BoundedInduction
<1>8. QED
  BY <1>7 DEF T, S

\* A scan sees no more rows than there are keys.
LEMMA SeenFew ==
    ASSUME NEW seen \in Seq(Records), Ascending(seen)
    PROVE  Cardinality(Keys) \in Nat /\ Len(seen) <= Cardinality(Keys)
<1> DEFINE n == Len(seen)
           ks == [i \in 1..n |-> seen[i].row_id]
<1>1. n \in Nat /\ DOMAIN seen = 1..n /\ \A i \in 1..n : seen[i] \in Records /\ seen[i].row_id \in Int
  BY RowIdTypes
<1>2. \A i \in 1..n : seen[i].row_id \in Keys
  BY <1>1 DEF Records
<1>3. \A i, j \in 1..n : i < j => seen[i].row_id < seen[j].row_id
  BY <1>1 DEF Ascending
<1> HIDE DEF n
<1>4. ks \in [1..n -> Keys] /\ \A i \in 1..n : ks[i] = seen[i].row_id
  BY <1>2
<1> HIDE DEF ks
<1>5. ks \in Seq(Keys) /\ Len(ks) = n
  BY <1>1, <1>4, FunLen
<1>6. \A i, j \in 1..Len(ks) : i < j => ks[i] # ks[j]
  <2> SUFFICES ASSUME NEW i \in 1..n, NEW j \in 1..n, i < j PROVE ks[i] # ks[j]
    BY <1>5
  <2>1. seen[i].row_id < seen[j].row_id /\ seen[i].row_id \in Int /\ seen[j].row_id \in Int
    BY <1>1, <1>3
  <2>2. QED
    BY <1>4, <2>1
<1>7. Cardinality(ToSet(ks)) = n
  BY <1>5, <1>6, DistinctLen
<1>8. ToSet(ks) \subseteq Keys
  <2>1. \A x : x \in ToSet(ks) <=> \E i \in 1..n : x = ks[i]
    BY <1>5, InSeq
  <2>2. QED
    BY <1>2, <1>4, <2>1
<1>9. Cardinality(ToSet(ks)) <= Cardinality(Keys) /\ Cardinality(Keys) \in Nat
  BY <1>8, KeysAssumption, FS_Subset, FS_CardinalityType
<1>10. QED
  BY <1>7, <1>9 DEF n

\* SELECT and DELETE have ended after MaxScanSteps.
LEMMA ScanIsOver ==
    ASSUME NEW pgs, NEW kind, kind # "update", NEW len, NEW start, NEW t0, NEW st,
           Scanned(pgs, kind, len, start, t0, st, MaxScanSteps)
    PROVE  st.res = "End" /\ st.it.start = start /\ Over(pgs, kind, len, t0, st)
<1>1. st.kept /\ st.res \in {"Row", "End"}
  BY DEF Scanned
<1>2. ASSUME st.res = "Row" PROVE FALSE
  <2>1. PICK t \in Nat : Seen(pgs, st.seen, t0, t) /\ Len(st.seen) = MaxScanSteps
    BY <1>1, <1>2 DEF Scanned, Going
  <2>2. st.seen \in Seq(Records) /\ Ascending(st.seen)
    BY <2>1 DEF Seen
  <2>3. Cardinality(Keys) \in Nat /\ MaxScanSteps <= Cardinality(Keys)
    BY <2>1, <2>2, SeenFew
  <2>4. QED
    BY <2>3 DEF MaxScanSteps
<1>3. QED
  BY <1>1, <1>2 DEF Scanned

\* MaxScanSteps is a number of steps.
LEMMA StepsNat == MaxScanSteps \in Nat
<1>1. Cardinality(Keys) \in Nat
  BY KeysAssumption, FS_CardinalityType
<1>2. QED
  BY <1>1 DEF MaxScanSteps

\* What a scan of the pages ends with.
EndsWith(kind, len, start, st) == \E w : Runs(w, kind, len, pages, start, MaxScanSteps) /\ st = w[MaxScanSteps]

\* SELECT is such a scan,
LEMMA SelectIs ==
    ASSUME NEW start, NEW len
    PROVE  EndsWith("select", len, start, SelectScan(start))
<1> DEFINE M == MaxScanSteps
           body(u) == [n \in 0..M |-> IF n = 0 THEN Opened(pages, start)
                                     ELSE ScanStep(LAMBDA pgs, row_id : Done(pgs), u[n - 1])]
           w == CHOOSE u : u = body(u)
<1>1. SelectScan(start) = w[M]
  BY Zenon DEF SelectScan, Scan
<1>2. ASSUME NEW st PROVE ScanStep(LAMBDA pgs, row_id : Done(pgs), st) = StepOf("select", len, st)
  BY DEF ScanStep, StepOf, StepWith, Change
<1>3. \A u : body(u) = [n \in 0..M |-> IF n = 0 THEN Opened(pages, start) ELSE StepOf("select", len, u[n - 1])]
  BY <1>2
<1>4. PICK u : Runs(u, "select", len, pages, start, M)
  BY RunExists, StepsNat
<1>5. u = body(u)
  BY <1>3, <1>4 DEF Runs
<1> HIDE DEF body
<1>6. w = body(w)
  BY <1>5
<1> HIDE DEF w
<1>7. Runs(w, "select", len, pages, start, M)
  BY <1>3, <1>6 DEF Runs
<1>8. QED
  BY <1>1, <1>7 DEF EndsWith

\* so is DELETE,
LEMMA DeleteIs ==
    ASSUME NEW len
    PROVE  EndsWith("delete", len, {}, DeleteScan)
<1> DEFINE M == MaxScanSteps
           start == {}
           body(u) == [n \in 0..M |-> IF n = 0 THEN Opened(pages, {}) ELSE ScanStep(delete, u[n - 1])]
           w == CHOOSE u : u = body(u)
<1>1. DeleteScan = w[M]
  BY Zenon DEF DeleteScan, Scan
<1>2. ASSUME NEW st PROVE ScanStep(delete, st) = StepOf("delete", len, st)
  BY DEF ScanStep, StepOf, StepWith, Change
<1>3. \A u : body(u) = [n \in 0..M |-> IF n = 0 THEN Opened(pages, {}) ELSE StepOf("delete", len, u[n - 1])]
  BY <1>2
<1>4. PICK u : Runs(u, "delete", len, pages, {}, M)
  BY RunExists, StepsNat
<1>5. u = body(u)
  BY <1>3, <1>4 DEF Runs
<1> HIDE DEF body
<1>6. w = body(w)
  BY <1>5
<1> HIDE DEF w
<1>7. Runs(w, "delete", len, pages, {}, M)
  BY <1>3, <1>6 DEF Runs
<1>8. QED
  BY <1>1, <1>7 DEF EndsWith

\* and so is UPDATE.
LEMMA UpdateIs ==
    ASSUME NEW len
    PROVE  EndsWith("update", len, {}, UpdateScan(len))
<1> DEFINE M == MaxScanSteps
           body(u) == [n \in 0..M |-> IF n = 0 THEN Opened(pages, {})
                                     ELSE ScanStep(LAMBDA pgs, row_id : update(pgs, row_id, len), u[n - 1])]
           w == CHOOSE u : u = body(u)
<1>1. UpdateScan(len) = w[M]
  BY Zenon DEF UpdateScan, Scan
<1>2. ASSUME NEW st PROVE ScanStep(LAMBDA pgs, row_id : update(pgs, row_id, len), st) = StepOf("update", len, st)
  BY DEF ScanStep, StepOf, StepWith, Change
<1>3. \A u : body(u) = [n \in 0..M |-> IF n = 0 THEN Opened(pages, {}) ELSE StepOf("update", len, u[n - 1])]
  BY <1>2
<1>4. PICK u : Runs(u, "update", len, pages, {}, M)
  BY RunExists, StepsNat
<1>5. u = body(u)
  BY <1>3, <1>4 DEF Runs
<1> HIDE DEF body
<1>6. w = body(w)
  BY <1>5
<1> HIDE DEF w
<1>7. Runs(w, "update", len, pages, {}, M)
  BY <1>3, <1>6 DEF Runs
<1>8. QED
  BY <1>1, <1>7 DEF EndsWith

-----------------------------------------------------------------------------
(* The rows of a tree as a sequence. *)

\* An ascending sequence starts like any other with the same records.
LEMMA AscendingPrefix ==
    ASSUME NEW s \in Seq(Records), NEW t \in Seq(Records), Ascending(s), Ascending(t),
           \A x \in Records : x \in ToSet(s) <=> x \in ToSet(t)
    PROVE  \A i \in 1..Len(s) : i \in 1..Len(t) /\ s[i] = t[i]
<1> DEFINE n == Len(s)
           m == Len(t)
           T == {b \in 0..n : \A i \in 1..b : i \in 1..m /\ s[i] = t[i]}
<1>1. /\ n \in Nat /\ DOMAIN s = 1..n /\ m \in Nat /\ DOMAIN t = 1..m
      /\ \A i \in 1..n : s[i] \in Records /\ s[i].row_id \in Int
      /\ \A i \in 1..m : t[i] \in Records /\ t[i].row_id \in Int
  BY RowIdTypes
<1>2. \A i \in 1..n : \E j \in 1..m : s[i] = t[j]
  <2>1. \A i \in 1..n : s[i] \in ToSet(s)
    BY Members
  <2>2. QED
    BY <1>1, <2>1, Members
<1>3. \A j \in 1..m : \E i \in 1..n : t[j] = s[i]
  <2>1. \A j \in 1..m : t[j] \in ToSet(t)
    BY Members
  <2>2. QED
    BY <1>1, <2>1, Members
<1>4. \A i, j \in 1..n : i < j => s[i].row_id < s[j].row_id
  BY <1>1 DEF Ascending
<1>5. \A i, j \in 1..m : i < j => t[i].row_id < t[j].row_id
  BY <1>1 DEF Ascending
<1> HIDE DEF n, m
<1>6. 0 \in T
  BY <1>1
<1>7. ASSUME NEW b \in 0..(n - 1), b \in T PROVE b + 1 \in T
  <2>1. \A i \in 1..b : i \in 1..m /\ s[i] = t[i]
    BY <1>7
  <2>2. b \in Nat /\ b + 1 \in 1..n /\ b + 1 \in 0..n /\ \A i \in 1..(b + 1) : i \in 1..b \/ i = b + 1
    BY <1>1
  <2> HIDE DEF T
  <2>3. PICK j \in 1..m : s[b + 1] = t[j]
    BY <1>2, <2>2
  <2>4. ~(j \in 1..b)
    <3> SUFFICES ASSUME j \in 1..b PROVE FALSE
      OBVIOUS
    <3>1. s[j] = t[j] /\ j \in 1..n /\ j < b + 1
      BY <1>1, <2>1, <2>2
    <3>2. s[j].row_id < s[b + 1].row_id
      BY <1>4, <2>2, <3>1
    <3>3. s[b + 1].row_id \in Int
      BY <1>1, <2>2
    <3>4. QED
      BY <2>3, <3>1, <3>2, <3>3
  <2>5. b + 1 <= j /\ j \in Nat /\ b + 1 \in 1..m
    BY <1>1, <2>2, <2>4
  <2>6. ~(b + 1 < j)
    <3> SUFFICES ASSUME b + 1 < j PROVE FALSE
      OBVIOUS
    <3>1. t[b + 1].row_id < s[b + 1].row_id
      BY <1>5, <2>3, <2>5
    <3>2. PICK i \in 1..n : t[b + 1] = s[i]
      BY <1>3, <2>5
    <3>3. s[i].row_id < s[b + 1].row_id /\ s[i].row_id \in Int /\ s[b + 1].row_id \in Int
      BY <1>1, <2>2, <3>1, <3>2
    <3>4. ~(b + 1 < i) /\ b + 1 # i
      <4>1. b + 1 < i => s[b + 1].row_id < s[i].row_id
        BY <1>4, <2>2
      <4>2. QED
        BY <3>3, <4>1
    <3>5. i \in 1..b /\ i < b + 1
      BY <1>1, <2>2, <3>4
    <3>6. t[i] = t[b + 1] /\ i \in 1..m
      BY <2>1, <3>2, <3>5
    <3>7. t[i].row_id < t[b + 1].row_id /\ t[i].row_id \in Int
      BY <1>1, <1>5, <2>5, <3>5, <3>6
    <3>8. QED
      BY <3>6, <3>7
  <2>7. j = b + 1
    BY <2>2, <2>5, <2>6
  <2>8. \A i \in 1..(b + 1) : i \in 1..m /\ s[i] = t[i]
    BY <2>1, <2>2, <2>3, <2>7
  <2>9. QED
    BY <2>2, <2>8 DEF T
<1>8. n \in T
  <2> HIDE DEF T
  <2>1. \A b \in 0..n : b \in T
    BY <1>1, <1>6, <1>7, BoundedInduction
  <2>2. QED
    BY <1>1, <2>1
<1>9. QED
  BY <1>8 DEF n, m

\* There is one ascending sequence of a set of records.
LEMMA AscendingUnique ==
    ASSUME NEW s \in Seq(Records), NEW t \in Seq(Records), Ascending(s), Ascending(t),
           \A x \in Records : x \in ToSet(s) <=> x \in ToSet(t)
    PROVE  s = t
<1>1. \A i \in 1..Len(s) : i \in 1..Len(t) /\ s[i] = t[i]
  BY AscendingPrefix
<1>2. \A i \in 1..Len(t) : i \in 1..Len(s) /\ t[i] = s[i]
  BY AscendingPrefix
<1>3. Len(s) \in Nat /\ Len(t) \in Nat
  OBVIOUS
<1>4. Len(s) = Len(t)
  <2> DEFINE n == Len(s)
             m == Len(t)
  <2>1. n \in Nat /\ m \in Nat /\ (\A i \in 1..n : i \in 1..m) /\ (\A i \in 1..m : i \in 1..n)
    BY <1>1, <1>2, <1>3
  <2> HIDE DEF n, m
  <2>2. n = m
    <3>1. n # 0 => n \in 1..m
      BY <2>1
    <3>2. m # 0 => m \in 1..n
      BY <2>1
    <3>3. QED
      BY <2>1, <3>1, <3>2
  <2>3. QED
    BY <2>2 DEF n, m
<1>5. QED
  BY <1>1, <1>4, SeqEqual

\* The records that are no tombstones, leaf by leaf, are the rows in order.
LEMMA RowsListed ==
    ASSUME NEW pgs, Whole(pgs)
    PROVE  /\ live(AllRecords(pgs)) \in Seq(Records) /\ Ascending(live(AllRecords(pgs)))
           /\ \A x \in Records : x \in ToSet(live(AllRecords(pgs))) <=> IsRow(pgs, x)
<1> DEFINE all == AllRecords(pgs)
<1>1. PICK h, o : TreeOK(pgs, h) /\ Owned(pgs, h, o)
  BY DEF Whole, InOrder
<1>2. Filled(pgs)
  BY DEF Whole, LeafChain
<1>3. all \in Seq(Records) /\ Ascending(all) /\ \A x : x \in ToSet(all) <=> Stored(pgs, x)
  BY <1>1, <1>2, RecordsListed
<1> HIDE DEF all
<1>4. /\ live(all) \in Seq(Records) /\ Ascending(live(all))
      /\ ToSet(live(all)) = {rec \in ToSet(all) : ~rec.is_deleted}
  BY <1>3, LiveOrder
<1>5. \A x \in Records : x \in ToSet(live(all)) <=> IsRow(pgs, x)
  BY <1>3, <1>4 DEF IsRow
<1>6. QED
  BY <1>4, <1>5 DEF all

\* The rows from a key on are the end of the sequence of rows.
LEMMA RowsSuffix ==
    ASSUME NEW rows \in Seq(Records), Ascending(rows), NEW k \in Int, NEW n, n = SlotOf(rows, k) - 1
    PROVE  /\ n \in 0..Len(rows) /\ \A i \in DOMAIN rows : i > n <=> rows[i].row_id >= k
           /\ SubSeq(rows, n + 1, Len(rows)) \in Seq(Records) /\ Ascending(SubSeq(rows, n + 1, Len(rows)))
           /\ \A x \in Records : x \in ToSet(SubSeq(rows, n + 1, Len(rows))) <=> x \in ToSet(rows) /\ k <= x.row_id
<1> DEFINE m == Len(rows)
           s == SlotOf(rows, k)
           r == SubSeq(rows, n + 1, m)
<1>1. DOMAIN rows = 1..m /\ m \in Nat /\ \A i \in 1..m : rows[i] \in Records /\ rows[i].row_id \in Int
  BY RowIdTypes
<1>2. s \in 1..(m + 1) /\ \A i \in 1..m : rows[i].row_id < k <=> i < s
  BY SlotCuts
<1>3. \A i, j \in 1..m : i < j => rows[i].row_id < rows[j].row_id
  BY <1>1 DEF Ascending
<1>4. n = s - 1
  OBVIOUS
<1>5. \A x \in Records : x \in ToSet(rows) <=> \E i \in 1..m : x = rows[i]
  BY Members
<1> HIDE DEF m, s
<1>6. n \in 0..m
  BY <1>1, <1>2, <1>4
<1>7. ASSUME NEW i \in 1..m PROVE i > n <=> rows[i].row_id >= k
  <2>1. rows[i].row_id < k <=> i < s
    BY <1>2
  <2>2. rows[i].row_id \in Int
    BY <1>1
  <2>3. i < s <=> ~(i > n)
    BY <1>1, <1>2, <1>4
  <2>4. QED
    BY <2>1, <2>2, <2>3
<1>8. /\ r \in Seq(Records) /\ Len(r) = m - n /\ \A j \in 1..(m - n) : r[j] = rows[n + j]
  BY <1>1, <1>6, SMTT(30) DEF m
<1> HIDE DEF r
<1>9. DOMAIN r = 1..(m - n)
  BY <1>8
<1>10. \A j \in 1..(m - n) : n + j \in 1..m /\ n + j > n
  BY <1>1, <1>6
<1>11. Ascending(r)
  <2> SUFFICES ASSUME NEW i \in 1..(m - n), NEW j \in 1..(m - n), i < j PROVE r[i].row_id < r[j].row_id
    BY <1>9 DEF Ascending
  <2>1. n + i \in 1..m /\ n + j \in 1..m /\ n + i < n + j
    BY <1>1, <1>6
  <2>2. QED
    BY <1>3, <1>8, <2>1
<1>12. ASSUME NEW x \in Records PROVE x \in ToSet(r) <=> x \in ToSet(rows) /\ k <= x.row_id
  <2>1. x \in ToSet(r) <=> \E j \in 1..(m - n) : x = r[j]
    BY <1>8, Members
  <2>2. ASSUME NEW j \in 1..(m - n), x = r[j] PROVE x \in ToSet(rows) /\ k <= x.row_id
    <3>1. x = rows[n + j] /\ n + j \in 1..m /\ n + j > n
      BY <1>8, <1>10, <2>2
    <3>2. rows[n + j].row_id >= k
      BY <1>7, <3>1
    <3>3. x.row_id >= k /\ x.row_id \in Int
      BY <3>1, <3>2, RowIdInt
    <3>4. k <= x.row_id
      BY <3>3
    <3>5. QED
      BY <1>5, <3>1, <3>4
  <2>3. ASSUME x \in ToSet(rows), k <= x.row_id PROVE \E j \in 1..(m - n) : x = r[j]
    <3>1. PICK i \in 1..m : x = rows[i]
      BY <1>5, <2>3
    <3>2. x.row_id \in Int
      BY RowIdInt
    <3>3. rows[i].row_id >= k
      BY <2>3, <3>1, <3>2
    <3>4. i > n
      BY <1>7, <3>3
    <3>5. i - n \in 1..(m - n) /\ n + (i - n) = i
      BY <1>1, <1>6, <3>4
    <3>6. QED
      BY <1>8, <3>1, <3>5
  <2>4. QED
    BY <2>1, <2>2, <2>3
<1>13. QED
  BY <1>1, <1>6, <1>7, <1>8, <1>11, <1>12 DEF m, r

-----------------------------------------------------------------------------
(* Lookups and scans of the tree agree with its rows. *)

\* A lookup gives the payload of the row with its key.
LEMMA LookupFinds ==
    ASSUME NEW pgs, Whole(pgs), NEW k \in Keys, NEW v
    PROVE  v \in find_record(pgs, k) <=> \E x \in Records : IsRow(pgs, x) /\ x.row_id = k /\ v = x.len
<1> DEFINE p == LeafFor(pgs, k)
           r == pgs[p].records
<1>1. PICK h, o : TreeOK(pgs, h) /\ Owned(pgs, h, o)
  BY DEF Whole, InOrder
<1>2. k \in Int
  BY KeysAssumption
<1>3. p \in 1..Len(pgs) /\ h[p] = 0 /\ LeafOK(pgs[p])
  BY <1>1, <1>2, LeafOwned
<1>4. p \in LeafIds(pgs) /\ r \in Seq(Records)
  BY <1>1, <1>3, LeafIdsAre, LeafParts
<1>5. v \in find_record(pgs, k) <=> \E i \in DOMAIN r : r[i].row_id = k /\ ~r[i].is_deleted /\ v = r[i].len
  BY DEF find_record, get_record
<1>6. \A q \in LeafIds(pgs) : \A x \in ToSet(pgs[q].records) : x.row_id = k => q = p
  BY <1>1, FindsLeaf
<1> HIDE DEF p
<1>7. DOMAIN r = 1..Len(r) /\ \A x : x \in ToSet(r) <=> \E i \in 1..Len(r) : x = r[i]
  BY <1>4, InSeq, RowIdTypes
<1>8. \A x \in ToSet(r) : x \in Records
  BY <1>4, <1>7, RowIdTypes
<1> HIDE DEF r
<1>9. v \in find_record(pgs, k) <=> \E x \in ToSet(r) : x.row_id = k /\ ~x.is_deleted /\ v = x.len
  BY <1>5, <1>7
<1>10. \A x \in Records : x.row_id = k => (Stored(pgs, x) <=> x \in ToSet(r))
  BY <1>4, <1>6 DEF Stored, r
<1>11. QED
  BY <1>8, <1>9, <1>10 DEF IsRow

\* SELECT from a key, or from the start, ends and has seen the rows from there on.
LEMMA SelectSees ==
    ASSUME Whole(pages), NEW start, NEW t0, StartsAt(start, t0, "select")
    PROVE  /\ SelectScan(start).res = "End" /\ SelectScan(start).it.start = start
           /\ SelectScan(start).seen \in Seq(Records) /\ Ascending(SelectScan(start).seen)
           /\ \A x \in Records : x \in ToSet(SelectScan(start).seen) <=> IsRow(pages, x) /\ t0 <= x.row_id
<1> DEFINE st == SelectScan(start)
<1>1. PICK len \in Payloads : TRUE
  BY PayloadsAssumption
<1>2. EndsWith("select", len, start, st)
  BY SelectIs
<1> HIDE DEF st
<1>3. PICK w : Runs(w, "select", len, pages, start, MaxScanSteps) /\ st = w[MaxScanSteps]
  BY <1>2 DEF EndsWith
<1>4. Scanned(pages, "select", len, start, t0, st, MaxScanSteps)
  BY <1>3, RunScans, StepsNat
<1>5. st.res = "End" /\ st.it.start = start /\ Over(pages, "select", len, t0, st)
  BY <1>4, ScanIsOver
<1>6. QED
  BY <1>5 DEF Over, st

\* All keys come after 0.
LEMMA AfterStart == \A x \in Records : 0 <= x.row_id
<1>1. \A x \in Records : x.row_id \in Nat
  BY KeysAssumption DEF Records
<1>2. QED
  BY <1>1

\* Reads of an ordered tree with a chain of leaves agree.
LEMMA ReadsHold ==
    ASSUME Whole(pages)
    PROVE  ReadsInOrder
<1> DEFINE rows == live(AllRecords(pages))
           full == SelectScan({})
           Reads == /\ full.seen = rows /\ full.res = "End"
                    /\ next(pages, reset(full.it)) = next(pages, new_at_key({}))
           ReadsFrom(k) ==
               /\ find_record(pages, k) = {rows[i].len : i \in {j \in DOMAIN rows : rows[j].row_id = k}}
               /\ \E n \in 0..Len(rows) :
                     /\ \A i \in DOMAIN rows : i > n <=> rows[i].row_id >= k
                     /\ SelectScan({k}).seen = SubSeq(rows, n + 1, Len(rows))
<1>1. /\ rows \in Seq(Records) /\ Ascending(rows)
      /\ \A x \in Records : x \in ToSet(rows) <=> IsRow(pages, x)
  BY RowsListed
<1>2. StartsAt({}, 0, "select")
  BY DEF StartsAt
<1>3. /\ full.res = "End" /\ full.it.start = {} /\ full.seen \in Seq(Records) /\ Ascending(full.seen)
      /\ \A x \in Records : x \in ToSet(full.seen) <=> IsRow(pages, x) /\ 0 <= x.row_id
  BY <1>2, SelectSees
<1> HIDE DEF full, rows
<1>4. \A x \in Records : x \in ToSet(full.seen) <=> x \in ToSet(rows)
  BY <1>1, <1>3, AfterStart
<1>5. full.seen = rows
  BY <1>1, <1>3, <1>4, AscendingUnique
<1>6. reset(full.it) = new_at_key({})
  BY <1>3 DEF reset
<1>7. Reads
  BY <1>3, <1>5, <1>6
<1>8. ASSUME NEW k \in Keys PROVE ReadsFrom(k)
  <2> DEFINE A == {rows[i].len : i \in {j \in DOMAIN rows : rows[j].row_id = k}}
             n == SlotOf(rows, k) - 1
             r == SubSeq(rows, n + 1, Len(rows))
             sel == SelectScan({k}).seen
  <2>1. k \in Int
    BY KeysAssumption
  <2>2. DOMAIN rows = 1..Len(rows) /\ \A x : x \in ToSet(rows) <=> \E i \in 1..Len(rows) : x = rows[i]
    BY <1>1, InSeq, RowIdTypes
  <2>3. \A i \in 1..Len(rows) : rows[i] \in Records
    BY <1>1, RowIdTypes
  <2>4. ASSUME NEW v PROVE v \in A <=> v \in find_record(pages, k)
    <3>1. v \in A <=> \E i \in 1..Len(rows) : rows[i].row_id = k /\ v = rows[i].len
      BY <2>2
    <3>2. v \in find_record(pages, k) <=> \E x \in Records : IsRow(pages, x) /\ x.row_id = k /\ v = x.len
      BY LookupFinds
    <3> HIDE DEF A
    <3>3. v \in find_record(pages, k) <=> \E x \in Records : x \in ToSet(rows) /\ x.row_id = k /\ v = x.len
      BY <1>1, <3>2
    <3>4. QED
      BY <2>2, <2>3, <3>1, <3>3
  <2>5. find_record(pages, k) = A
    <3> HIDE DEF A
    <3>1. QED
      BY <2>4
  <2>6. /\ n \in 0..Len(rows) /\ \A i \in DOMAIN rows : i > n <=> rows[i].row_id >= k
        /\ r \in Seq(Records) /\ Ascending(r)
        /\ \A x \in Records : x \in ToSet(r) <=> x \in ToSet(rows) /\ k <= x.row_id
    BY <1>1, <2>1, RowsSuffix
  <2>7. /\ sel \in Seq(Records) /\ Ascending(sel)
        /\ \A x \in Records : x \in ToSet(sel) <=> IsRow(pages, x) /\ k <= x.row_id
    <3>1. StartsAt({k}, k, "select")
      BY DEF StartsAt
    <3>2. QED
      BY <3>1, SelectSees
  <2> HIDE DEF n, sel
  <2>8. sel = r
    <3> HIDE DEF r
    <3>1. \A x \in Records : x \in ToSet(sel) <=> x \in ToSet(r)
      BY <1>1, <2>6, <2>7
    <3>2. QED
      BY <2>6, <2>7, <3>1, AscendingUnique
  <2>9. /\ \A i \in DOMAIN rows : i > n <=> rows[i].row_id >= k
        /\ SelectScan({k}).seen = SubSeq(rows, n + 1, Len(rows))
    BY <2>6, <2>8 DEF sel
  <2> HIDE DEF A, r
  <2>10. \E b \in 0..Len(rows) :
             /\ \A i \in DOMAIN rows : i > b <=> rows[i].row_id >= k
             /\ SelectScan({k}).seen = SubSeq(rows, b + 1, Len(rows))
    BY <2>6, <2>9
  <2>11. QED
    BY <2>5, <2>10 DEF A
<1> HIDE DEF Reads, ReadsFrom
<1>9. Reads /\ \A k \in Keys : ReadsFrom(k)
  BY <1>7, <1>8
<1>10. QED
  BY <1>9, Zenon DEF ReadsInOrder, Reads, ReadsFrom, rows, full

\* A scan that has ended has seen the rows in order.
LEMMA OverSees ==
    ASSUME NEW kind, NEW len, NEW st, Whole(pages), Over(pages, kind, len, 0, st)
    PROVE  /\ st.seen = live(AllRecords(pages))
           /\ \A x \in ToSet(live(AllRecords(st.pages))) : x \in Records /\ After(kind, len, x)
<1> DEFINE rows == live(AllRecords(pages))
           left == live(AllRecords(st.pages))
<1>1. /\ rows \in Seq(Records) /\ Ascending(rows)
      /\ \A x \in Records : x \in ToSet(rows) <=> IsRow(pages, x)
  BY RowsListed
<1>2. /\ st.seen \in Seq(Records) /\ Ascending(st.seen) /\ Whole(st.pages)
      /\ \A x \in Records : x \in ToSet(st.seen) <=> IsRow(pages, x) /\ 0 <= x.row_id
      /\ \A x \in Records : IsRow(st.pages, x) => After(kind, len, x)
  BY DEF Over
<1>3. left \in Seq(Records) /\ \A x \in Records : x \in ToSet(left) <=> IsRow(st.pages, x)
  BY <1>2, RowsListed
<1> HIDE DEF rows, left
<1>4. \A x \in Records : x \in ToSet(st.seen) <=> x \in ToSet(rows)
  BY <1>1, <1>2, AfterStart
<1>5. st.seen = rows
  BY <1>1, <1>2, <1>4, AscendingUnique
<1>6. \A x \in ToSet(left) : x \in Records
  BY <1>3, Members, RowIdTypes
<1>7. \A x \in ToSet(left) : x \in Records /\ After(kind, len, x)
  BY <1>2, <1>3, <1>6
<1>8. QED
  BY <1>5, <1>7 DEF rows, left

\* DELETE of an ordered tree with a chain of leaves leaves no row.
LEMMA DeleteHolds ==
    ASSUME Whole(pages)
    PROVE  DeleteVisitsAll
<1> DEFINE st == DeleteScan
           left == live(AllRecords(st.pages))
<1>1. PICK len \in Payloads : TRUE
  BY PayloadsAssumption
<1>2. EndsWith("delete", len, {}, st)
  BY DeleteIs
<1> HIDE DEF st
<1>3. PICK w : Runs(w, "delete", len, pages, {}, MaxScanSteps) /\ st = w[MaxScanSteps]
  BY <1>2 DEF EndsWith
<1>4. StartsAt({}, 0, "delete")
  BY DEF StartsAt
<1>5. Scanned(pages, "delete", len, {}, 0, st, MaxScanSteps)
  BY <1>3, <1>4, RunScans, StepsNat
<1>6. st.res = "End" /\ Over(pages, "delete", len, 0, st)
  BY <1>5, ScanIsOver
<1>7. /\ st.seen = live(AllRecords(pages))
      /\ \A x \in ToSet(left) : x \in Records /\ After("delete", len, x)
  BY <1>6, OverSees
<1>8. left \in Seq(Records)
  BY <1>6, RowsListed DEF Over
<1> HIDE DEF left
<1>9. left = <<>>
  BY <1>7, <1>8, FilledHas DEF After
<1>10. QED
  BY <1>6, <1>7, <1>9, Zenon DEF DeleteVisitsAll, st, left

\* UPDATE of an ordered tree with a chain of leaves changes all rows, if it moves none.
LEMMA UpdateHolds ==
    ASSUME Whole(pages)
    PROVE  UpdateVisitsAll
<1> SUFFICES ASSUME NEW len \in Payloads, UpdateScan(len).kept, UpdateScan(len).res = "End"
             PROVE  /\ UpdateScan(len).seen = live(AllRecords(pages))
                    /\ \A rec \in ToSet(live(AllRecords(UpdateScan(len).pages))) : rec.len = len
  BY DEF UpdateVisitsAll
<1> DEFINE st == UpdateScan(len)
<1>1. EndsWith("update", len, {}, st)
  BY UpdateIs
<1>2. st.kept /\ st.res = "End"
  OBVIOUS
<1> HIDE DEF st
<1>3. PICK w : Runs(w, "update", len, pages, {}, MaxScanSteps) /\ st = w[MaxScanSteps]
  BY <1>1 DEF EndsWith
<1>4. StartsAt({}, 0, "update")
  BY DEF StartsAt
<1>5. Scanned(pages, "update", len, {}, 0, st, MaxScanSteps)
  BY <1>3, <1>4, RunScans, StepsNat
<1>6. Over(pages, "update", len, 0, st)
  BY <1>2, <1>5 DEF Scanned
<1>7. /\ st.seen = live(AllRecords(pages))
      /\ \A x \in ToSet(live(AllRecords(st.pages))) : x \in Records /\ After("update", len, x)
  BY <1>6, OverSees
<1>8. QED
  BY <1>7 DEF After, st

-----------------------------------------------------------------------------
(* The theorems. *)

\* Every reachable tree is one tree: each page is reached once from the root,
\* the keys ascend across the leaves, the sibling links are the leaves in that
\* order in both directions, and a descent for a stored key ends at its leaf,
\* whatever was split before.
THEOREM TreeKeepsShape == Spec => []TreeShape
<1>1. ChainInv => TreeShape
  <2> SUFFICES ASSUME ChainInv PROVE TreeShape
    OBVIOUS
  <2>1. PICK h, o : TreeOK(pages, h) /\ Owned(pages, h, o)
    BY DEF ChainInv, OrderInv, InOrder
  <2>2. QED
    BY <2>1, ShapeHolds DEF ChainInv
<1>2. QED
  BY <1>1, ChainInvariant, PTL

\* get_max_row_id, which reads the last slot of the rightmost leaf only,
\* returns the largest row id of all leaves, tombstones included.
THEOREM MaxRowIdLargest == Spec => []MaxRowIdIsLargest
<1>1. ChainInv => MaxRowIdIsLargest
  <2> SUFFICES ASSUME ChainInv PROVE MaxRowIdIsLargest
    OBVIOUS
  <2>1. PICK h, o : TreeOK(pages, h) /\ Owned(pages, h, o)
    BY DEF ChainInv, OrderInv, InOrder
  <2>2. QED
    BY <2>1, MaxHolds DEF ChainInv
<1>2. QED
  BY <1>1, ChainInvariant, PTL

\* Lookups, full scans, scans from a key and scans of a reset cursor of every
\* reachable tree agree on the rows and their order: the cursor crosses the
\* sibling links, empty stretches of tombstones and split leaves without
\* skipping a row or yielding one twice, and MaxScanSteps steps end it.
THEOREM ReadsAreInOrder == Spec => []ReadsInOrder
<1>1. ChainInv => Whole(pages)
  BY DEF ChainInv, OrderInv, Whole
<1>2. ChainInv => ReadsInOrder
  BY <1>1, ReadsHold
<1>3. QED
  BY <1>2, ChainInvariant, PTL

\* DELETE without a predicate, whose executor deletes the row under the open
\* cursor before it moves on, sees every row once and leaves none.
THEOREM DeletesVisitAll == Spec => []DeleteVisitsAll
<1>1. ChainInv => Whole(pages)
  BY DEF ChainInv, OrderInv, Whole
<1>2. ChainInv => DeleteVisitsAll
  BY <1>1, DeleteHolds
<1>3. QED
  BY <1>2, ChainInvariant, PTL

\* UPDATE without a predicate, whose executor updates the row under the open
\* cursor, sees every row once and changes it, when no update moved a slot.
THEOREM UpdatesVisitAll == Spec => []UpdateVisitsAll
<1>1. ChainInv => Whole(pages)
  BY DEF ChainInv, OrderInv, Whole
<1>2. ChainInv => UpdateVisitsAll
  BY <1>1, UpdateHolds
<1>3. QED
  BY <1>2, ChainInvariant, PTL
=============================================================================
