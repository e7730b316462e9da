-------------------------- MODULE LruReplacerProofs --------------------------
(***************************************************************************)
(* The arena list of LruReplacer keeps its shape, for every set of pages   *)
(* and every capacity.  The list is treated as a record, as the methods    *)
(* unlink and insert_head do, together with the set U of slots in use.     *)
(***************************************************************************)
EXTENDS LruReplacer, FiniteSetTheorems, SequenceTheorems, Recursion, TLAPS

LruNode == [prev : Nat, page : Pages, next : Nat]

LinkedList == [arena : Seq(LruNode), head : Nat, tail : Nat]

\* LinksMirror, for the list l and the slots U.
Mirror(U, l) ==
    /\ l.head = 0 <=> l.tail = 0
    /\ l.head # 0 => l.head \in U
    /\ l.tail # 0 => l.tail \in U
    /\ \A i \in U :
         /\ l.arena[i].prev = 0 <=> l.head = i
         /\ l.arena[i].next = 0 <=> l.tail = i
         /\ l.arena[i].prev # 0 => /\ l.arena[i].prev \in U
                                   /\ l.arena[l.arena[i].prev].next = i
         /\ l.arena[i].next # 0 => /\ l.arena[i].next \in U
                                   /\ l.arena[l.arena[i].next].prev = i

\* The slots in use.
Used == {pages[p] : p \in Tracked}

\* What holds in every reachable state.
LruInv ==
    /\ LruTypeOK
    /\ SlotsPartition
    /\ Mirror(Used, List)
    /\ curr # 0 => curr \in Used

-----------------------------------------------------------------------------
(* The two private methods. *)

\* A function on 1..n is a sequence of length n.
LEMMA FunctionIsSeq ==
    ASSUME NEW S, NEW n \in Nat, NEW f \in [1..n -> S]
    PROVE  f \in Seq(S) /\ Len(f) = n
OBVIOUS

\* unlink touches only links, and takes its slot out of the list.
LEMMA UnlinkMirrors ==
    ASSUME NEW l \in LinkedList, NEW U \in SUBSET DOMAIN l.arena, NEW i \in U,
           Mirror(U, l)
    PROVE  /\ unlink(l, i) \in LinkedList
           /\ Len(unlink(l, i).arena) = Len(l.arena)
           /\ \A k \in DOMAIN l.arena : unlink(l, i).arena[k].page = l.arena[k].page
           /\ Mirror(U \ {i}, unlink(l, i))
<1> DEFINE prev == l.arena[i].prev
           next == l.arena[i].next
           m == unlink(l, i)
<1>1. /\ l.arena \in Seq(LruNode) /\ l.head \in Nat /\ l.tail \in Nat
      /\ DOMAIN l.arena = 1..Len(l.arena) /\ Len(l.arena) \in Nat
      /\ \A k \in DOMAIN l.arena : l.arena[k] \in LruNode
  BY DEF LinkedList
<1>2. /\ prev \in Nat /\ next \in Nat
      /\ \A k \in DOMAIN l.arena :
           l.arena[k].prev \in Nat /\ l.arena[k].next \in Nat /\ l.arena[k].page \in Pages
  BY <1>1 DEF LruNode
<1>3. m = [arena |-> [k \in DOMAIN l.arena |->
                        [prev |-> IF k = next THEN prev ELSE l.arena[k].prev,
                         page |-> l.arena[k].page,
                         next |-> IF k = prev THEN next ELSE l.arena[k].next]],
           head |-> IF prev = 0 THEN next ELSE l.head,
           tail |-> IF next = 0 THEN prev ELSE l.tail]
  BY DEF unlink
<1> HIDE DEF m
<1>4. \A k \in DOMAIN l.arena :
        /\ m.arena[k].page = l.arena[k].page
        /\ m.arena[k].next = IF k = prev THEN next ELSE l.arena[k].next
        /\ m.arena[k].prev = IF k = next THEN prev ELSE l.arena[k].prev
  BY <1>3
<1>5. /\ m.head = IF prev = 0 THEN next ELSE l.head
      /\ m.tail = IF next = 0 THEN prev ELSE l.tail
  BY <1>3
<1>6. m.arena \in [1..Len(l.arena) -> LruNode]
  BY <1>1, <1>2, <1>3 DEF LruNode
<1>7. m.arena \in Seq(LruNode) /\ Len(m.arena) = Len(l.arena)
  BY <1>1, <1>6, FunctionIsSeq
<1>8. m \in LinkedList
  <2>1. m.head \in Nat /\ m.tail \in Nat
    BY <1>1, <1>2, <1>5
  <2>2. m = [arena |-> m.arena, head |-> m.head, tail |-> m.tail]
    BY <1>3
  <2>3. QED
    BY <1>7, <2>1, <2>2 DEF LinkedList
<1> HIDE DEF prev, next
<1>9. /\ prev = 0 <=> l.head = i
      /\ next = 0 <=> l.tail = i
      /\ prev # 0 => prev \in U /\ l.arena[prev].next = i
      /\ next # 0 => next \in U /\ l.arena[next].prev = i
      /\ l.head = 0 <=> l.tail = 0
      /\ l.head # 0 => l.head \in U
      /\ l.tail # 0 => l.tail \in U
      /\ i # 0
  BY <1>1 DEF Mirror, prev, next
<1>10. ASSUME NEW j \in U \ {i}
       PROVE  /\ m.arena[j].prev = 0 <=> m.head = j
              /\ m.arena[j].next = 0 <=> m.tail = j
              /\ m.arena[j].prev # 0 => /\ m.arena[j].prev \in U \ {i}
                                        /\ m.arena[m.arena[j].prev].next = j
              /\ m.arena[j].next # 0 => /\ m.arena[j].next \in U \ {i}
                                        /\ m.arena[m.arena[j].next].prev = j
  <2>1. /\ l.arena[j].prev = 0 <=> l.head = j
        /\ l.arena[j].next = 0 <=> l.tail = j
        /\ l.arena[j].prev # 0 => l.arena[j].prev \in U /\ l.arena[l.arena[j].prev].next = j
        /\ l.arena[j].next # 0 => l.arena[j].next \in U /\ l.arena[l.arena[j].next].prev = j
    BY DEF Mirror
  <2>2. l.arena[j].prev = i <=> j = next
    BY <1>1, <1>9, <2>1 DEF next
  <2>3. l.arena[j].next = i <=> j = prev
    BY <1>1, <1>9, <2>1 DEF prev
  <2>4. j \in DOMAIN l.arena /\ j # 0
    BY <1>1
  <2>5. m.arena[j].prev = 0 <=> m.head = j
    BY <1>4, <1>5, <1>9, <2>1, <2>2, <2>3, <2>4
  <2>6. m.arena[j].next = 0 <=> m.tail = j
    BY <1>4, <1>5, <1>9, <2>1, <2>2, <2>3, <2>4
  <2>7. m.arena[j].prev # 0 => m.arena[j].prev \in U \ {i} /\ m.arena[m.arena[j].prev].next = j
    <3>1. CASE j = next
      <4>1. m.arena[j].prev = prev
        BY <1>4, <2>4, <3>1
      <4>2. prev # 0 => prev # i
        BY <1>9, <3>1 DEF prev, next
      <4>3. prev # 0 => m.arena[prev].next = next
        BY <1>4, <1>9
      <4>4. QED
        BY <1>9, <3>1, <4>1, <4>2, <4>3
    <3>2. CASE j # next
      <4>1. m.arena[j].prev = l.arena[j].prev
        BY <1>4, <2>4, <3>2
      <4>2. l.arena[j].prev # 0 => m.arena[l.arena[j].prev].next = j
        BY <1>4, <1>9, <2>1, <2>2, <3>2
      <4>3. QED
        BY <2>1, <2>2, <3>2, <4>1, <4>2
    <3>3. QED
      BY <3>1, <3>2
  <2>8. m.arena[j].next # 0 => m.arena[j].next \in U \ {i} /\ m.arena[m.arena[j].next].prev = j
    <3>1. CASE j = prev
      <4>1. m.arena[j].next = next
        BY <1>4, <2>4, <3>1
      <4>2. next # 0 => next # i
        BY <1>9, <3>1 DEF prev, next
      <4>3. next # 0 => m.arena[next].prev = prev
        BY <1>4, <1>9
      <4>4. QED
        BY <1>9, <3>1, <4>1, <4>2, <4>3
    <3>2. CASE j # prev
      <4>1. m.arena[j].next = l.arena[j].next
        BY <1>4, <2>4, <3>2
      <4>2. l.arena[j].next # 0 => m.arena[l.arena[j].next].prev = j
        BY <1>4, <1>9, <2>1, <2>3, <3>2
      <4>3. QED
        BY <2>1, <2>3, <3>2, <4>1, <4>2
    <3>3. QED
      BY <3>1, <3>2
  <2>9. QED
    BY <2>5, <2>6, <2>7, <2>8
<1>11. /\ m.head = 0 <=> m.tail = 0
       /\ m.head # 0 => m.head \in U \ {i}
       /\ m.tail # 0 => m.tail \in U \ {i}
  <2>1. prev = 0 /\ next # 0 => next # i
    BY <1>9 DEF prev, next
  <2>2. next = 0 /\ prev # 0 => prev # i
    BY <1>9 DEF prev, next
  <2>3. CASE prev = 0 /\ next = 0
    BY <1>5, <2>3
  <2>4. CASE prev = 0 /\ next # 0
    BY <1>5, <1>9, <2>1, <2>4
  <2>5. CASE prev # 0 /\ next = 0
    BY <1>5, <1>9, <2>2, <2>5
  <2>6. CASE prev # 0 /\ next # 0
    BY <1>5, <1>9, <2>6
  <2>7. QED
    BY <2>3, <2>4, <2>5, <2>6
<1>12. Mirror(U \ {i}, m)
  BY <1>10, <1>11 DEF Mirror
<1>13. QED
  BY <1>4, <1>7, <1>8, <1>12 DEF m

\* insert_head puts an unused slot in front.
LEMMA InsertMirrors ==
    ASSUME NEW l \in LinkedList, NEW U \in SUBSET DOMAIN l.arena,
           NEW i \in DOMAIN l.arena, i \notin U, Mirror(U, l)
    PROVE  /\ insert_head(l, i) \in LinkedList
           /\ Len(insert_head(l, i).arena) = Len(l.arena)
           /\ \A k \in DOMAIN l.arena : insert_head(l, i).arena[k].page = l.arena[k].page
           /\ Mirror(U \cup {i}, insert_head(l, i))
<1> DEFINE m == insert_head(l, i)
<1>1. /\ l.arena \in Seq(LruNode) /\ l.head \in Nat /\ l.tail \in Nat
      /\ DOMAIN l.arena = 1..Len(l.arena) /\ Len(l.arena) \in Nat
      /\ \A k \in DOMAIN l.arena : l.arena[k] \in LruNode
  BY DEF LinkedList
<1>2. i \in Nat /\ i # 0 /\ \A k \in DOMAIN l.arena :
        l.arena[k].prev \in Nat /\ l.arena[k].next \in Nat /\ l.arena[k].page \in Pages
  BY <1>1, SMTT(30) DEF LruNode
<1>3. m = [arena |-> [k \in DOMAIN l.arena |->
                        [prev |-> IF k = i THEN 0
                                  ELSE IF k = l.head THEN i ELSE l.arena[k].prev,
                         page |-> l.arena[k].page,
                         next |-> IF k = i THEN l.head ELSE l.arena[k].next]],
           head |-> i,
           tail |-> IF l.head = 0 THEN i ELSE l.tail]
  BY DEF insert_head
<1> HIDE DEF m
<1>4. \A k \in DOMAIN l.arena :
        /\ m.arena[k].page = l.arena[k].page
        /\ m.arena[k].next = IF k = i THEN l.head ELSE l.arena[k].next
        /\ m.arena[k].prev = IF k = i THEN 0 ELSE IF k = l.head THEN i ELSE l.arena[k].prev
  BY <1>3
<1>5. m.head = i /\ m.tail = IF l.head = 0 THEN i ELSE l.tail
  BY <1>3
<1>6. m.arena \in [1..Len(l.arena) -> LruNode]
  BY <1>1, <1>2, <1>3 DEF LruNode
<1>7. m.arena \in Seq(LruNode) /\ Len(m.arena) = Len(l.arena)
  BY <1>1, <1>6, FunctionIsSeq
<1>8. m \in LinkedList
  <2>1. m.head \in Nat /\ m.tail \in Nat
    BY <1>1, <1>2, <1>5
  <2>2. m = [arena |-> m.arena, head |-> m.head, tail |-> m.tail]
    BY <1>3
  <2>3. QED
    BY <1>7, <2>1, <2>2 DEF LinkedList
<1>9. ASSUME NEW j \in U \cup {i}
      PROVE  /\ m.arena[j].prev = 0 <=> m.head = j
             /\ m.arena[j].next = 0 <=> m.tail = j
             /\ m.arena[j].prev # 0 => /\ m.arena[j].prev \in U \cup {i}
                                       /\ m.arena[m.arena[j].prev].next = j
             /\ m.arena[j].next # 0 => /\ m.arena[j].next \in U \cup {i}
                                       /\ m.arena[m.arena[j].next].prev = j
  <2>1. CASE j = i
    BY <1>1, <1>2, <1>4, <1>5, <2>1 DEF Mirror
  <2>2. CASE j # i
    <3>1. /\ l.arena[j].prev = 0 <=> l.head = j
          /\ l.arena[j].next = 0 <=> l.tail = j
          /\ l.arena[j].prev # 0 => l.arena[j].prev \in U /\ l.arena[l.arena[j].prev].next = j
          /\ l.arena[j].next # 0 => l.arena[j].next \in U /\ l.arena[l.arena[j].next].prev = j
      BY <2>2 DEF Mirror
    <3>2. j \in DOMAIN l.arena /\ j # 0
      BY <1>1, <2>2
    <3>3. /\ m.arena[j].prev = IF j = l.head THEN i ELSE l.arena[j].prev
          /\ m.arena[j].next = l.arena[j].next
      BY <1>4, <2>2, <3>2
    <3>4. l.head = 0 => l.tail = 0
      BY DEF Mirror
    <3>5. m.arena[j].prev = 0 <=> m.head = j
      BY <1>2, <1>5, <2>2, <3>1, <3>3
    <3>6. m.arena[j].next = 0 <=> m.tail = j
      BY <1>5, <2>2, <3>1, <3>2, <3>3, <3>4
    <3>7. m.arena[j].prev # 0 => /\ m.arena[j].prev \in U \cup {i}
                                 /\ m.arena[m.arena[j].prev].next = j
      <4>1. CASE j = l.head
        BY <1>4, <3>3, <4>1
      <4>2. CASE j # l.head
        <5>1. l.arena[j].prev # 0
          BY <3>1, <4>2
        <5>2. m.arena[l.arena[j].prev].next = l.arena[l.arena[j].prev].next
          BY <1>4, <3>1, <5>1
        <5>3. QED
          BY <3>1, <3>3, <4>2, <5>1, <5>2
      <4>3. QED
        BY <4>1, <4>2
    <3>8. m.arena[j].next # 0 => /\ m.arena[j].next \in U \cup {i}
                                 /\ m.arena[m.arena[j].next].prev = j
      <4>1. SUFFICES ASSUME l.arena[j].next # 0
                     PROVE  /\ l.arena[j].next \in U \cup {i}
                            /\ m.arena[l.arena[j].next].prev = j
        BY <3>3
      <4>2. l.arena[j].next # l.head
        BY <3>1, <3>2, <4>1 DEF Mirror
      <4>3. m.arena[l.arena[j].next].prev = l.arena[l.arena[j].next].prev
        BY <1>4, <3>1, <4>1, <4>2
      <4>4. QED
        BY <3>1, <4>1, <4>3
    <3>9. QED
      BY <3>5, <3>6, <3>7, <3>8
  <2>3. QED
    BY <2>1, <2>2
<1>10. /\ m.head = 0 <=> m.tail = 0
       /\ m.head # 0 => m.head \in U \cup {i}
       /\ m.tail # 0 => m.tail \in U \cup {i}
  BY <1>2, <1>5 DEF Mirror
<1>11. Mirror(U \cup {i}, m)
  BY <1>9, <1>10 DEF Mirror
<1>12. QED
  BY <1>4, <1>7, <1>8, <1>11 DEF m

\* The shape depends only on the nodes in use.
LEMMA MirrorFrame ==
    ASSUME NEW l, NEW m, NEW U, Mirror(U, l),
           m.head = l.head, m.tail = l.tail, \A i \in U : m.arena[i] = l.arena[i]
    PROVE  Mirror(U, m)
<1> SUFFICES ASSUME NEW i \in U
             PROVE  /\ m.arena[i].prev = 0 <=> m.head = i
                    /\ m.arena[i].next = 0 <=> m.tail = i
                    /\ m.arena[i].prev # 0 => /\ m.arena[i].prev \in U
                                              /\ m.arena[m.arena[i].prev].next = i
                    /\ m.arena[i].next # 0 => /\ m.arena[i].next \in U
                                              /\ m.arena[m.arena[i].next].prev = i
  BY DEF Mirror
<1>1. /\ l.arena[i].prev = 0 <=> l.head = i
      /\ l.arena[i].next = 0 <=> l.tail = i
      /\ l.arena[i].prev # 0 => l.arena[i].prev \in U /\ l.arena[l.arena[i].prev].next = i
      /\ l.arena[i].next # 0 => l.arena[i].next \in U /\ l.arena[l.arena[i].next].prev = i
  BY DEF Mirror
<1>2. m.arena[i] = l.arena[i]
  OBVIOUS
<1>3. QED
  BY <1>1, <1>2

-----------------------------------------------------------------------------
(* The public methods. *)

\* Becomes makes a list the state's list.
LEMMA BecomesList ==
    ASSUME NEW l \in LinkedList, Becomes(l)
    PROVE  List' = l
BY DEF Becomes, List, LinkedList

\* The state's list is a list, its slots in use are slots, and no two pages
\* share one.
LEMMA ListFacts ==
    ASSUME LruTypeOK, SlotsPartition
    PROVE  /\ List \in LinkedList
           /\ List.arena = arena /\ List.head = head /\ List.tail = tail
           /\ Len(arena) \in Nat /\ DOMAIN arena = 1..Len(arena)
           /\ Used \in SUBSET DOMAIN arena
           /\ 0 \notin Used
           /\ \A p \in Tracked : \A q \in Pages : pages[q] = pages[p] => q = p
<1>1. /\ List \in LinkedList
      /\ Len(arena) \in Nat /\ DOMAIN arena = 1..Len(arena)
  BY DEF LruTypeOK, List, LinkedList, LruNode
<1>2. List.arena = arena /\ List.head = head /\ List.tail = tail
  BY DEF List
<1>3. Used \in SUBSET DOMAIN arena
  BY DEF SlotsPartition, Used, Slots
<1>4. ASSUME NEW p \in Tracked, NEW q \in Pages, pages[q] = pages[p]
      PROVE  q = p
  <2>1. q \in Tracked
    BY <1>4 DEF Tracked
  <2>2. QED
    BY <1>4, <2>1 DEF SlotsPartition
<1>5. QED
  BY <1>1, <1>2, <1>3, <1>4

\* A linked-list step that keeps the slots in use inside the arena types head
\* and tail.
LEMMA EndsInArena ==
    ASSUME NEW l \in LinkedList, NEW U \in SUBSET DOMAIN l.arena, Mirror(U, l)
    PROVE  l.head \in 0..Len(l.arena) /\ l.tail \in 0..Len(l.arena)
<1>1. DOMAIN l.arena = 1..Len(l.arena) /\ Len(l.arena) \in Nat /\ l.head \in Nat /\ l.tail \in Nat
  BY DEF LinkedList
<1>2. QED
  BY <1>1 DEF Mirror

\* record_access of a tracked page moves its slot and nothing else.
LEMMA AccessHitInv ==
    ASSUME LruInv, NEW p \in Pages, AccessHit(p)
    PROVE  LruInv'
<1> DEFINE i == pages[p]
           m == unlink(List, i)
           n == insert_head(m, i)
<1>1. /\ List \in LinkedList
      /\ List.arena = arena /\ List.head = head /\ List.tail = tail
      /\ Len(arena) \in Nat /\ DOMAIN arena = 1..Len(arena)
      /\ Used \in SUBSET DOMAIN arena
  BY ListFacts DEF LruInv
<1>2. i \in Used
  BY DEF AccessHit, Used, Tracked
<1>3. /\ m \in LinkedList /\ Len(m.arena) = Len(arena)
      /\ \A k \in DOMAIN arena : m.arena[k].page = arena[k].page
      /\ Mirror(Used \ {i}, m)
  BY <1>1, <1>2, UnlinkMirrors DEF LruInv
<1>4. DOMAIN m.arena = DOMAIN arena
  BY <1>1, <1>3 DEF LinkedList
<1> HIDE DEF m
<1>5. /\ n \in LinkedList /\ Len(n.arena) = Len(m.arena)
      /\ \A k \in DOMAIN arena : n.arena[k].page = m.arena[k].page
      /\ Mirror((Used \ {i}) \cup {i}, n)
  <2>1. Used \ {i} \in SUBSET DOMAIN m.arena /\ i \in DOMAIN m.arena /\ i \notin Used \ {i}
    BY <1>1, <1>2, <1>4
  <2>2. QED
    BY <1>3, <1>4, <2>1, InsertMirrors
<1>6. (Used \ {i}) \cup {i} = Used
  BY <1>2
<1> HIDE DEF n
<1>7. List' = n
  BY <1>5, BecomesList DEF AccessHit, m, n
<1>8. /\ pages' = pages /\ free' = free /\ curr' = curr /\ keep' = keep
      /\ arena' = n.arena /\ head' = n.head /\ tail' = n.tail
  BY DEF AccessHit, Idle, Becomes, m, n
<1>9. Used' = Used /\ Tracked' = Tracked
  BY <1>8 DEF Used, Tracked
<1>10. Mirror(Used', List')
  BY <1>5, <1>6, <1>7, <1>9
<1>11. n.head \in 0..Len(n.arena) /\ n.tail \in 0..Len(n.arena)
  <2>1. Used \in SUBSET DOMAIN n.arena
    BY <1>1, <1>3, <1>5 DEF LinkedList
  <2>2. QED
    BY <1>5, <1>6, <2>1, EndsInArena
<1>12. LruTypeOK'
  BY <1>3, <1>5, <1>8, <1>11 DEF LruInv, LruTypeOK, LinkedList, LruNode
<1>13. DOMAIN n.arena = DOMAIN arena
  BY <1>1, <1>3, <1>5 DEF LinkedList
<1>14. SlotsPartition'
  BY <1>3, <1>5, <1>8, <1>9, <1>13 DEF LruInv, SlotsPartition, Slots
<1>15. QED
  BY <1>8, <1>9, <1>10, <1>12, <1>14 DEF LruInv

\* A new page p enters with the slot i of a list l that agrees with the
\* state's on the slots in use.
LEMMA Enters ==
    ASSUME LruInv, NEW p \in Pages, pages[p] = 0,
           NEW l \in LinkedList, NEW i \in DOMAIN l.arena, i \notin Used,
           l.head = head, l.tail = tail, Len(arena) <= Len(l.arena),
           \A k \in Used : l.arena[k] = arena[k],
           l.arena[i].page = p,
           pages' = [pages EXCEPT ![p] = i],
           Becomes(insert_head(l, i)),
           UNCHANGED <<curr, keep>>, free' \in Seq(Nat)
    PROVE  /\ LruTypeOK'
           /\ Used' = Used \cup {i}
           /\ Mirror(Used', List')
           /\ Len(arena') = Len(l.arena)
           /\ \A q \in Tracked' : pages'[q] \in Slots' /\ arena'[pages'[q]].page = q
<1> DEFINE n == insert_head(l, i)
<1>1. /\ List \in LinkedList
      /\ List.arena = arena /\ List.head = head /\ List.tail = tail
      /\ Len(arena) \in Nat /\ DOMAIN arena = 1..Len(arena)
      /\ Used \in SUBSET DOMAIN arena
  BY ListFacts DEF LruInv
<1>2. DOMAIN l.arena = 1..Len(l.arena) /\ Len(l.arena) \in Nat
  BY DEF LinkedList
<1>3. Used \in SUBSET DOMAIN l.arena
  BY <1>1, <1>2
<1>4. Mirror(Used, l)
  <2>1. Mirror(Used, List)
    BY DEF LruInv
  <2>2. QED
    BY <1>1, <2>1, MirrorFrame
<1>5. /\ n \in LinkedList /\ Len(n.arena) = Len(l.arena)
      /\ \A k \in DOMAIN l.arena : n.arena[k].page = l.arena[k].page
      /\ Mirror(Used \cup {i}, n)
  BY <1>3, <1>4, InsertMirrors
<1> HIDE DEF n
<1>6. List' = n /\ arena' = n.arena /\ head' = n.head /\ tail' = n.tail
  BY <1>5, BecomesList DEF n, Becomes
<1>7. pages \in [Pages -> 0..Len(arena)]
  BY DEF LruInv, LruTypeOK
<1>8. i # 0
  BY <1>2
<1>9. /\ pages'[p] = i
      /\ \A q \in Pages : q # p => pages'[q] = pages[q]
      /\ Tracked' = Tracked \cup {p}
      /\ p \notin Tracked
  BY <1>7, <1>8 DEF Tracked
<1>10. Used' = Used \cup {i}
  BY <1>9 DEF Used, Tracked
<1>11. DOMAIN n.arena = DOMAIN l.arena
  BY <1>2, <1>5 DEF LinkedList
<1>12. ASSUME NEW q \in Tracked'
       PROVE  pages'[q] \in Slots' /\ arena'[pages'[q]].page = q
  <2>1. CASE q = p
    BY <1>5, <1>6, <1>9, <1>11, <2>1 DEF Slots
  <2>2. CASE q # p
    <3>1. q \in Tracked /\ pages'[q] = pages[q] /\ pages[q] \in Used
      BY <1>9, <2>2 DEF Tracked, Used
    <3>2. arena[pages[q]].page = q
      BY <3>1 DEF LruInv, SlotsPartition
    <3>3. n.arena[pages[q]].page = q
      BY <1>3, <1>5, <3>1, <3>2
    <3>4. QED
      BY <1>3, <1>6, <1>11, <3>1, <3>3 DEF Slots
  <2>3. QED
    BY <2>1, <2>2
<1>13. n.head \in 0..Len(n.arena) /\ n.tail \in 0..Len(n.arena)
  <2>1. Used \cup {i} \in SUBSET DOMAIN n.arena
    BY <1>3, <1>11
  <2>2. QED
    BY <1>5, <2>1, EndsInArena
<1>14. LruTypeOK'
  <2>1. pages' \in [Pages -> 0..Len(n.arena)]
    BY <1>1, <1>2, <1>5, <1>7
  <2>2. n.arena \in Seq([prev : Nat, page : Pages, next : Nat])
    BY <1>5 DEF LinkedList, LruNode
  <2>3. curr' \in 0..Len(n.arena) /\ keep' \subseteq Pages
    BY <1>1, <1>2, <1>5 DEF LruInv, LruTypeOK
  <2>4. QED
    BY <1>6, <1>13, <2>1, <2>2, <2>3 DEF LruTypeOK
<1>15. QED
  BY <1>5, <1>6, <1>10, <1>12, <1>14

\* With an empty free list the tracked pages fill the arena, so there is room
\* for one slot more when the assertion on the capacity holds.
LEMMA PushHasRoom ==
    ASSUME LruInv, free = <<>>, Cardinality(Tracked) < Capacity
    PROVE  Len(arena) < Capacity
<1> DEFINE f == [q \in Tracked |-> pages[q]]
<1>1. /\ Len(arena) \in Nat /\ DOMAIN arena = 1..Len(arena)
      /\ \A p \in Tracked : \A q \in Pages : pages[q] = pages[p] => q = p
  BY ListFacts DEF LruInv
<1>2. f \in [Tracked -> 1..Len(arena)]
  BY <1>1 DEF LruInv, SlotsPartition, Slots
<1>3. f \in Injection(Tracked, 1..Len(arena))
  BY <1>1, <1>2 DEF Injection, IsInjective, Tracked
<1>4. f \in Surjection(Tracked, 1..Len(arena))
  <2>1. ASSUME NEW i \in 1..Len(arena)
        PROVE  \E q \in Tracked : f[q] = i
    <3>1. PICK q \in Pages : pages[q] = i
      BY <1>1 DEF LruInv, SlotsPartition, Slots
    <3>2. q \in Tracked
      BY <3>1 DEF Tracked
    <3>3. QED
      BY <3>1, <3>2
  <2>2. QED
    BY <1>2, <2>1 DEF Surjection
<1>5. IsFiniteSet(1..Len(arena)) /\ Cardinality(1..Len(arena)) = Len(arena)
  BY <1>1, FS_Interval, SMTT(30)
<1>6. Cardinality(Tracked) = Len(arena)
  BY <1>3, <1>4, <1>5, FS_Injection
<1>7. QED
  BY <1>6

\* record_access of a new page takes the top of the free list ...
LEMMA AccessReuseInv ==
    ASSUME LruInv, NEW p \in Pages, AccessReuse(p)
    PROVE  LruInv'
<1> DEFINE i == free[Len(free)]
           l == [List EXCEPT !.arena[i] = Node(p)]
<1>1. /\ List \in LinkedList
      /\ List.arena = arena /\ List.head = head /\ List.tail = tail
      /\ Len(arena) \in Nat /\ DOMAIN arena = 1..Len(arena)
      /\ Used \in SUBSET DOMAIN arena
  BY ListFacts DEF LruInv
<1>2. /\ free \in Seq(Nat) /\ Len(free) \in Nat \ {0}
      /\ DOMAIN free = 1..Len(free) /\ Len(free) \in DOMAIN free
  BY DEF LruInv, LruTypeOK, AccessReuse
<1>3. /\ i \in DOMAIN arena
      /\ \A q \in Pages : pages[q] # i
      /\ \A j \in DOMAIN free : free[j] = i => j = Len(free)
  BY <1>2 DEF LruInv, SlotsPartition, Slots
<1>4. i \notin Used
  BY <1>3 DEF Used, Tracked
<1>5. Node(p) \in LruNode /\ Node(p).page = p
  BY DEF Node, LruNode
<1>6. /\ l \in LinkedList /\ l.head = head /\ l.tail = tail
      /\ l.arena = [arena EXCEPT ![i] = Node(p)]
  BY <1>1, <1>3, <1>5, SMTT(30) DEF LinkedList
<1>7. Len(l.arena) = Len(arena) /\ DOMAIN l.arena = DOMAIN arena
  BY <1>1, <1>6 DEF LinkedList
<1>8. l.arena[i] = Node(p) /\ \A k \in Used : l.arena[k] = arena[k]
  BY <1>1, <1>3, <1>4, <1>6
<1>9. /\ free' = SubSeq(free, 1, Len(free) - 1)
      /\ free' \in Seq(Nat) /\ Len(free') = Len(free) - 1
      /\ DOMAIN free' = 1..(Len(free) - 1)
      /\ \A k \in DOMAIN free' : free'[k] = free[k] /\ k \in DOMAIN free /\ k # Len(free)
  <2>1. free' = SubSeq(free, 1, Len(free) - 1)
    BY DEF AccessReuse
  <2>2. /\ SubSeq(free, 1, Len(free) - 1) \in Seq(Nat)
        /\ Len(SubSeq(free, 1, Len(free) - 1)) = Len(free) - 1
        /\ \A k \in 1..(Len(free) - 1) : SubSeq(free, 1, Len(free) - 1)[k] = free[k]
    BY <1>2
  <2>3. QED
    BY <1>2, <2>1, <2>2
<1>10. /\ pages[p] = 0 /\ pages' = [pages EXCEPT ![p] = i]
       /\ Becomes(insert_head(l, i)) /\ curr' = curr /\ keep' = keep
  BY DEF AccessReuse, Idle
<1> HIDE DEF l, i
<1>11. /\ LruTypeOK'
       /\ Used' = Used \cup {i}
       /\ Mirror(Used', List')
       /\ Len(arena') = Len(l.arena)
       /\ \A q \in Tracked' : pages'[q] \in Slots' /\ arena'[pages'[q]].page = q
  <2>1. i \in DOMAIN l.arena /\ l.arena[i].page = p /\ Len(arena) <= Len(l.arena)
    BY <1>1, <1>3, <1>5, <1>7, <1>8
  <2>2. l \in LinkedList /\ l.head = head /\ l.tail = tail
    BY <1>6
  <2>3. free' \in Seq(Nat) /\ \A k \in Used : l.arena[k] = arena[k]
    BY <1>8, <1>9
  <2>4. QED
    BY <1>4, <1>10, <2>1, <2>2, <2>3, Enters
<1>12. DOMAIN arena' = DOMAIN arena
  BY <1>1, <1>7, <1>11 DEF LruTypeOK
<1>13. pages'[p] = i /\ \A q \in Pages : q # p => pages'[q] = pages[q]
  BY <1>10 DEF LruInv, LruTypeOK
<1>14. ASSUME NEW k \in DOMAIN free'
       PROVE  /\ free'[k] \in Slots'
              /\ \A q \in Pages : pages'[q] # free'[k]
              /\ \A j \in DOMAIN free' : free'[j] = free'[k] => j = k
  <2>1. free[k] \in Slots /\ \A q \in Pages : pages[q] # free[k]
    BY <1>9 DEF LruInv, SlotsPartition
  <2>2. free[k] # i
    BY <1>3, <1>9
  <2>3. \A j \in DOMAIN free' : free[j] = free[k] => j = k
    BY <1>9 DEF LruInv, SlotsPartition
  <2>4. QED
    BY <1>9, <1>12, <1>13, <2>1, <2>2, <2>3 DEF Slots
<1>15. ASSUME NEW j \in Slots'
       PROVE  \/ \E q \in Pages : pages'[q] = j
              \/ \E k \in DOMAIN free' : free'[k] = j
  <2>1. CASE j = i
    BY <1>13, <2>1
  <2>2. CASE \E q \in Pages : pages[q] = j
    <3>1. PICK q \in Pages : pages[q] = j
      BY <2>2
    <3>2. q # p
      BY <1>1, <1>10, <1>12, <3>1 DEF Slots
    <3>3. QED
      BY <1>13, <3>1, <3>2
  <2>3. CASE j # i /\ \E k \in DOMAIN free : free[k] = j
    <3>1. PICK k \in DOMAIN free : free[k] = j
      BY <2>3
    <3>2. k # Len(free)
      BY <2>3, <3>1 DEF i
    <3>3. QED
      BY <1>2, <1>9, <3>1, <3>2
  <2>4. QED
    BY <1>12, <2>1, <2>2, <2>3 DEF LruInv, SlotsPartition, Slots
<1>16. SlotsPartition'
  BY <1>7, <1>11, <1>14, <1>15 DEF LruInv, SlotsPartition
<1>17. QED
  BY <1>10, <1>11, <1>16 DEF LruInv

\* ... or, when that is empty, a new slot at the end of the arena.
LEMMA AccessPushInv ==
    ASSUME LruInv, NEW p \in Pages, AccessPush(p)
    PROVE  LruInv'
<1> DEFINE i == Len(arena) + 1
           l == [List EXCEPT !.arena = Append(arena, Node(p))]
<1>1. /\ List \in LinkedList
      /\ List.arena = arena /\ List.head = head /\ List.tail = tail
      /\ Len(arena) \in Nat /\ DOMAIN arena = 1..Len(arena)
      /\ Used \in SUBSET DOMAIN arena
  BY ListFacts DEF LruInv
<1>2. Node(p) \in LruNode /\ Node(p).page = p
  BY DEF Node, LruNode
<1>3. /\ l \in LinkedList /\ l.head = head /\ l.tail = tail
      /\ l.arena = Append(arena, Node(p))
  BY <1>1, <1>2, SMTT(30) DEF LinkedList
<1>4. /\ Len(l.arena) = i /\ DOMAIN l.arena = 1..i /\ l.arena[i] = Node(p)
      /\ \A k \in Used : l.arena[k] = arena[k]
  BY <1>1, <1>2, <1>3 DEF LinkedList
<1>5. i \in DOMAIN l.arena /\ i \notin Used /\ Len(arena) <= Len(l.arena)
  BY <1>1, <1>4
<1>6. /\ pages[p] = 0 /\ pages' = [pages EXCEPT ![p] = i]
      /\ Becomes(insert_head(l, i)) /\ curr' = curr /\ keep' = keep
      /\ free = <<>> /\ free' = free
  BY DEF AccessPush, Idle
<1>7. free' \in Seq(Nat)
  BY <1>6 DEF LruInv, LruTypeOK
<1>8. Len(arena) < Capacity
  BY <1>6, PushHasRoom DEF AccessPush
<1> HIDE DEF l
<1>9. /\ LruTypeOK'
      /\ Used' = Used \cup {i}
      /\ Mirror(Used', List')
      /\ Len(arena') = Len(l.arena)
      /\ \A q \in Tracked' : pages'[q] \in Slots' /\ arena'[pages'[q]].page = q
  BY <1>2, <1>3, <1>4, <1>5, <1>6, <1>7, Enters
<1>10. DOMAIN arena' = 1..i
  BY <1>4, <1>9 DEF LruTypeOK
<1>11. ASSUME NEW j \in Slots'
       PROVE  \E q \in Pages : pages'[q] = j
  <2>1. pages'[p] = i /\ \A q \in Pages : q # p => pages'[q] = pages[q]
    BY <1>6 DEF LruInv, LruTypeOK
  <2>2. CASE j = i
    BY <2>1, <2>2
  <2>3. CASE j # i
    <3>1. j \in Slots /\ j # 0
      BY <1>1, <1>10, <2>3 DEF Slots
    <3>2. PICK q \in Pages : pages[q] = j
      BY <1>6, <3>1 DEF LruInv, SlotsPartition
    <3>3. QED
      BY <1>6, <2>1, <3>1, <3>2
  <2>4. QED
    BY <2>2, <2>3
<1>12. SlotsPartition'
  BY <1>1, <1>4, <1>6, <1>8, <1>9, <1>11, LruAssumption DEF SlotsPartition
<1>13. QED
  BY <1>6, <1>9, <1>12 DEF LruInv

\* remove and evict_if hand a slot back.
LEMMA ReleaseInv ==
    ASSUME LruInv, NEW p \in Pages, pages[p] # 0, Release(p, pages[p]),
           curr' = 0, keep' \subseteq Pages
    PROVE  LruInv'
<1> DEFINE i == pages[p]
           m == unlink(List, i)
<1>1. /\ List \in LinkedList
      /\ List.arena = arena /\ List.head = head /\ List.tail = tail
      /\ Len(arena) \in Nat /\ DOMAIN arena = 1..Len(arena)
      /\ Used \in SUBSET DOMAIN arena
      /\ \A r \in Tracked : \A q \in Pages : pages[q] = pages[r] => q = r
  BY ListFacts DEF LruInv
<1>2. p \in Tracked /\ i \in Used /\ i \in Slots /\ i \in Nat
  BY <1>1 DEF Used, Tracked, Slots
<1>3. /\ m \in LinkedList /\ Len(m.arena) = Len(arena)
      /\ \A k \in DOMAIN arena : m.arena[k].page = arena[k].page
      /\ Mirror(Used \ {i}, m)
  BY <1>1, <1>2, UnlinkMirrors DEF LruInv
<1> HIDE DEF m
<1>4. List' = m /\ arena' = m.arena /\ head' = m.head /\ tail' = m.tail
  BY <1>3, BecomesList DEF Release, Becomes, m
<1>5. DOMAIN m.arena = DOMAIN arena
  BY <1>1, <1>3 DEF LinkedList
<1>6. pages' = [pages EXCEPT ![p] = 0] /\ free' = Append(free, i)
  BY DEF Release
<1>7. /\ pages \in [Pages -> 0..Len(arena)]
      /\ free \in Seq(Nat) /\ Len(free) \in Nat /\ DOMAIN free = 1..Len(free)
  BY DEF LruInv, LruTypeOK
<1>8. /\ pages'[p] = 0 /\ \A q \in Pages : q # p => pages'[q] = pages[q]
      /\ Tracked' = Tracked \ {p}
  BY <1>6, <1>7 DEF Tracked
<1>9. Used' = Used \ {i}
  <2>1. ASSUME NEW q \in Tracked'
        PROVE  pages'[q] \in Used \ {i}
    <3>1. q \in Tracked /\ q # p /\ q \in Pages /\ pages'[q] = pages[q]
      BY <1>8 DEF Tracked
    <3>2. pages[q] # i
      BY <1>1, <1>2, <3>1
    <3>3. QED
      BY <3>1, <3>2 DEF Used
  <2>2. ASSUME NEW j \in Used \ {i}
        PROVE  \E q \in Tracked' : pages'[q] = j
    <3>1. PICK q \in Tracked : pages[q] = j
      BY <2>2 DEF Used
    <3>2. q # p /\ q \in Pages
      BY <2>2, <3>1 DEF Tracked
    <3>3. QED
      BY <1>8, <3>1, <3>2
  <2>3. QED
    BY <2>1, <2>2 DEF Used
<1>10. Mirror(Used', List')
  BY <1>3, <1>4, <1>9
<1>11. /\ free' \in Seq(Nat) /\ DOMAIN free' = 1..(Len(free) + 1)
       /\ \A k \in DOMAIN free : free'[k] = free[k]
       /\ free'[Len(free) + 1] = i
  BY <1>2, <1>6, <1>7
<1>12. /\ Len(free) + 1 \in DOMAIN free'
       /\ \A j \in DOMAIN free' : j # Len(free) + 1 => j \in DOMAIN free /\ free'[j] = free[j]
  BY <1>7, <1>11
<1>13. LruTypeOK'
  <2>1. m.head \in 0..Len(m.arena) /\ m.tail \in 0..Len(m.arena)
    <3>1. Used \ {i} \in SUBSET DOMAIN m.arena
      BY <1>1, <1>5
    <3>2. QED
      BY <1>3, <3>1, EndsInArena
  <2>2. pages' \in [Pages -> 0..Len(m.arena)]
    BY <1>1, <1>3, <1>6, <1>7
  <2>3. m.arena \in Seq([prev : Nat, page : Pages, next : Nat])
    BY <1>3 DEF LinkedList, LruNode
  <2>4. curr' \in 0..Len(m.arena)
    BY <1>1, <1>3
  <2>5. QED
    BY <1>4, <1>11, <2>1, <2>2, <2>3, <2>4 DEF LruTypeOK
<1>14. \A q \in Tracked' : pages'[q] \in Slots' /\ arena'[pages'[q]].page = q
  <2>1. SUFFICES ASSUME NEW q \in Tracked'
                 PROVE  pages'[q] \in Slots' /\ arena'[pages'[q]].page = q
    OBVIOUS
  <2>2. q \in Tracked /\ pages'[q] = pages[q]
    BY <1>8 DEF Tracked
  <2>3. pages[q] \in Slots /\ arena[pages[q]].page = q
    BY <2>2 DEF LruInv, SlotsPartition
  <2>4. QED
    BY <1>3, <1>4, <1>5, <2>2, <2>3 DEF Slots
<1>15. ASSUME NEW k \in DOMAIN free'
       PROVE  /\ free'[k] \in Slots'
              /\ \A q \in Pages : pages'[q] # free'[k]
              /\ \A j \in DOMAIN free' : free'[j] = free'[k] => j = k
  <2>1. \A j \in DOMAIN free : free[j] # i
    BY <1>2 DEF LruInv, SlotsPartition
  <2>2. i # 0 /\ \A j \in DOMAIN free : free[j] # 0
    BY <1>1, <1>2 DEF LruInv, SlotsPartition, Slots
  <2>3. CASE k = Len(free) + 1
    <3>1. \A q \in Pages : pages'[q] # i
      BY <1>1, <1>2, <1>8, <2>2
    <3>2. \A j \in DOMAIN free' : free'[j] = i => j = k
      BY <1>12, <2>1, <2>3
    <3>3. QED
      BY <1>2, <1>4, <1>5, <1>11, <2>3, <3>1, <3>2 DEF Slots
  <2>4. CASE k # Len(free) + 1
    <3>1. k \in DOMAIN free /\ free'[k] = free[k]
      BY <1>12, <2>4
    <3>2. /\ free[k] \in Slots
          /\ \A q \in Pages : pages[q] # free[k]
          /\ \A j \in DOMAIN free : free[j] = free[k] => j = k
      BY <3>1 DEF LruInv, SlotsPartition
    <3>3. \A q \in Pages : pages'[q] # free[k]
      BY <1>8, <2>2, <3>1, <3>2
    <3>4. \A j \in DOMAIN free' : free'[j] = free[k] => j = k
      BY <1>11, <1>12, <2>1, <3>1, <3>2
    <3>5. QED
      BY <1>4, <1>5, <3>1, <3>2, <3>3, <3>4 DEF Slots
  <2>5. QED
    BY <2>3, <2>4
<1>16. ASSUME NEW j \in Slots'
       PROVE  \/ \E q \in Pages : pages'[q] = j
              \/ \E k \in DOMAIN free' : free'[k] = j
  <2>1. j \in Slots
    BY <1>4, <1>5 DEF Slots
  <2>2. CASE j = i
    BY <1>11, <1>12, <2>2
  <2>3. CASE j # i /\ \E q \in Pages : pages[q] = j
    BY <1>8, <2>3
  <2>4. CASE \E k \in DOMAIN free : free[k] = j
    BY <1>7, <1>11, <2>4
  <2>5. QED
    BY <2>1, <2>2, <2>3, <2>4 DEF LruInv, SlotsPartition
<1>17. SlotsPartition'
  BY <1>3, <1>4, <1>14, <1>15, <1>16 DEF LruInv, SlotsPartition
<1>18. QED
  BY <1>10, <1>13, <1>17 DEF LruInv

-----------------------------------------------------------------------------
(* Every step. *)

\* A new replacer is empty.
LEMMA InitInv == Init => LruInv
<1> SUFFICES ASSUME Init PROVE LruInv
  OBVIOUS
<1>1. LruTypeOK
  BY DEF Init, LruTypeOK
<1>2. Tracked = {} /\ Used = {}
  BY DEF Init, Tracked, Used
<1>3. SlotsPartition
  BY <1>2, LruAssumption DEF Init, SlotsPartition, Slots
<1>4. Mirror(Used, List)
  BY <1>2 DEF Init, Mirror, List
<1>5. QED
  BY <1>1, <1>3, <1>4 DEF Init, LruInv

\* Every method keeps the invariant; the walk of evict_if stays on slots in
\* use because the prev links do.
LEMMA StepInv == LruInv /\ [Next]_lruVars => LruInv'
<1> SUFFICES ASSUME LruInv, [Next]_lruVars
             PROVE  LruInv'
  OBVIOUS
<1> USE DEF LruInv
<1>1. Used \in SUBSET DOMAIN arena /\ DOMAIN arena = 1..Len(arena) /\ Len(arena) \in Nat
  BY ListFacts
<1>2. ASSUME NEW p \in Pages, AccessHit(p)
      PROVE  LruInv'
  BY <1>2, AccessHitInv
<1>3. ASSUME NEW p \in Pages, AccessReuse(p)
      PROVE  LruInv'
  BY <1>3, AccessReuseInv
<1>4. ASSUME NEW p \in Pages, AccessPush(p)
      PROVE  LruInv'
  BY <1>4, AccessPushInv
<1>5. ASSUME NEW p \in Pages, Remove(p)
      PROVE  LruInv'
  BY <1>5, ReleaseInv DEF Remove, Idle, LruTypeOK
<1>6. ASSUME NEW refused \in SUBSET Pages, EvictStart(refused)
      PROVE  LruInv'
  <2>1. /\ pages' = pages /\ arena' = arena /\ head' = head /\ tail' = tail /\ free' = free
        /\ curr' = tail /\ keep' = refused
    BY <1>6 DEF EvictStart
  <2>2. tail # 0 => tail \in Used
    BY DEF Mirror, List
  <2>3. LruTypeOK'
    BY <2>1 DEF LruTypeOK
  <2>4. Used' = Used /\ List' = List /\ Tracked' = Tracked
    BY <2>1 DEF Used, List, Tracked
  <2>5. SlotsPartition'
    BY <2>1, <2>4 DEF SlotsPartition, Slots
  <2>6. QED
    BY <2>1, <2>2, <2>3, <2>4, <2>5
<1>7. CASE EvictSkip
  <2>1. /\ pages' = pages /\ arena' = arena /\ head' = head /\ tail' = tail /\ free' = free
        /\ curr' = arena[curr].prev /\ keep' \subseteq Pages
    BY <1>7 DEF EvictSkip, LruTypeOK
  <2>2. curr \in Used
    BY <1>7 DEF EvictSkip
  <2>3. curr' # 0 => curr' \in Used
    BY <2>1, <2>2 DEF Mirror, List
  <2>4. LruTypeOK'
    BY <1>1, <2>1, <2>3, SMTT(30) DEF LruTypeOK
  <2>5. Used' = Used /\ List' = List /\ Tracked' = Tracked
    BY <2>1 DEF Used, List, Tracked
  <2>6. SlotsPartition'
    BY <2>1, <2>5 DEF SlotsPartition, Slots
  <2>7. QED
    BY <2>3, <2>4, <2>5, <2>6
<1>8. CASE EvictTake
  <2>1. PICK p \in Tracked : pages[p] = curr
    BY <1>8 DEF EvictTake, Used
  <2>2. p \in Pages /\ pages[p] # 0 /\ arena[curr].page = p
    BY <2>1 DEF SlotsPartition, Tracked
  <2>3. QED
    BY <1>8, <2>1, <2>2, ReleaseInv DEF EvictTake
<1>9. CASE UNCHANGED lruVars
  <2>1. /\ pages' = pages /\ arena' = arena /\ head' = head /\ tail' = tail /\ free' = free
        /\ curr' = curr /\ keep' = keep
    BY <1>9 DEF lruVars
  <2>2. Used' = Used /\ List' = List /\ Tracked' = Tracked
    BY <2>1 DEF Used, List, Tracked
  <2>3. LruTypeOK' /\ SlotsPartition'
    BY <2>1, <2>2 DEF LruTypeOK, SlotsPartition, Slots
  <2>4. QED
    BY <2>1, <2>2, <2>3
<1>10. QED
  BY <1>2, <1>3, <1>4, <1>5, <1>6, <1>7, <1>8, <1>9 DEF Next

\* The invariant holds in every reachable state.
LEMMA LruInvariance == Spec => []LruInv
BY InitInv, StepInv, PTL DEF Spec

\* The shape of the list, in the terms of the state's own variables.
LEMMA InvImpliesLinks == LruInv => LinksMirror
<1> SUFFICES ASSUME LruInv PROVE LinksMirror
  OBVIOUS
<1>1. \A j \in Used : \E p \in Pages : pages[p] = j
  BY DEF Used, Tracked
<1>2. \A p \in Tracked : pages[p] \in Used
  BY DEF Used
<1>3. Mirror(Used, List) /\ List.arena = arena /\ List.head = head /\ List.tail = tail
  BY DEF LruInv, List
<1>4. QED
  BY <1>1, <1>2, <1>3 DEF LinksMirror, Mirror

\* Every variable of the replacer keeps its type: the indices that unlink,
\* insert_head and evict_if use on the arena are always in bounds.
THEOREM LruTypeCorrect == Spec => []LruTypeOK
BY LruInvariance, PTL DEF LruInv

\* Every slot has exactly one owner, a page or the free list, and the arena
\* never grows past the capacity, whatever the order of accesses, removals
\* and evictions.
THEOREM SlotsArePartitioned == Spec => []SlotsPartition
BY LruInvariance, PTL DEF LruInv

\* The links of the nodes in use always mirror each other, head and tail at
\* the ends.
THEOREM LinksAreMirrored == Spec => []LinksMirror
BY LruInvariance, InvImpliesLinks, PTL

-----------------------------------------------------------------------------
(* LruReplacer implements LruList: the doubly-linked list in the arena is a
   sequence of slots, which unlink and insert_head shorten and lengthen, and
   the walks of peek_rev and Order along the links read it in the two
   directions. *)

Injective(s, n) == \A x, y \in 1..n : s[x] = s[y] => x = y

\* In an arena of N slots, with links nx and pv that stay inside it, the list
\* from h to t is the slots s[1], ..., s[n].
Linked(N, nx, pv, h, t, n, s) ==
    /\ \A j \in 1..N : nx[j] \in 0..N /\ pv[j] \in 0..N
    /\ \A x \in 1..n : s[x] \in 1..N
    /\ Injective(s, n)
    /\ h = IF n > 0 THEN s[1] ELSE 0
    /\ t = IF n > 0 THEN s[n] ELSE 0
    /\ \A x \in 1..n : nx[s[x]] = IF x < n THEN s[x + 1] ELSE 0
    /\ \A x \in 1..n : pv[s[x]] = IF x > 1 THEN s[x - 1] ELSE 0

\* What unlink makes of the links and ends, and what that does to the slots.
Unlinked(N, nx, pv, h, t, i, nx2, pv2, h2, t2) ==
    /\ \A j \in 1..N : /\ nx2[j] = IF j = pv[i] THEN nx[i] ELSE nx[j]
                       /\ pv2[j] = IF j = nx[i] THEN pv[i] ELSE pv[j]
    /\ h2 = IF pv[i] = 0 THEN nx[i] ELSE h
    /\ t2 = IF nx[i] = 0 THEN pv[i] ELSE t

Dropped(n, s, k, s2) == \A j \in 1..(n - 1) : s2[j] = IF j < k THEN s[j] ELSE s[j + 1]

\* The same for insert_head.
Inserted(N, nx, pv, h, t, i, nx2, pv2, h2, t2) ==
    /\ \A j \in 1..N : /\ nx2[j] = IF j = i THEN h ELSE nx[j]
                       /\ pv2[j] = IF j = i THEN 0 ELSE IF j = h THEN i ELSE pv[j]
    /\ h2 = i
    /\ t2 = IF h = 0 THEN i ELSE t

Prefixed(n, s, i, s2) == \A j \in 1..(n + 1) : s2[j] = IF j = 1 THEN i ELSE s[j - 1]

-----------------------------------------------------------------------------
(* The private methods on the slots of a list. *)

\* unlink takes its slot out of the list and leaves the rest in order.
LEMMA UnlinkLinked ==
    ASSUME NEW N \in Nat, NEW n \in Nat, NEW nx, NEW pv, NEW h, NEW t, NEW s,
           Linked(N, nx, pv, h, t, n, s), NEW k \in 1..n,
           NEW nx2, NEW pv2, NEW h2, NEW t2, NEW s2,
           Unlinked(N, nx, pv, h, t, s[k], nx2, pv2, h2, t2),
           Dropped(n, s, k, s2)
    PROVE  Linked(N, nx2, pv2, h2, t2, n - 1, s2)
<1> DEFINE p == IF k > 1 THEN s[k - 1] ELSE 0
           q == IF k < n THEN s[k + 1] ELSE 0
<1>1. /\ \A j \in 1..N : /\ nx2[j] = IF j = p THEN q ELSE nx[j]
                         /\ pv2[j] = IF j = q THEN p ELSE pv[j]
      /\ h2 = IF p = 0 THEN q ELSE h
      /\ t2 = IF q = 0 THEN p ELSE t
  <2>1. pv[s[k]] = p /\ nx[s[k]] = q
    BY DEF Linked
  <2> HIDE DEF p, q
  <2>2. QED
    BY <2>1 DEF Unlinked
<1>2. p \in 0..N /\ q \in 0..N
  BY DEF Linked
<1>3. \A j \in 1..N : nx2[j] \in 0..N /\ pv2[j] \in 0..N
  <2> HIDE DEF p, q
  <2>1. QED
    BY <1>1, <1>2 DEF Linked
<1>4. \A x \in 1..(n - 1) : s2[x] \in 1..N
  BY DEF Dropped, Linked
<1>5. \A x \in 1..n : s[x] = p <=> x = k - 1
  BY DEF Linked, Injective
<1>6. \A x \in 1..n : s[x] = q <=> x = k + 1
  BY DEF Linked, Injective
<1>7. Injective(s2, n - 1)
  BY DEF Linked, Injective, Dropped
<1>8. h2 = IF n - 1 > 0 THEN s2[1] ELSE 0
  BY <1>1 DEF Linked, Dropped
<1>9. t2 = IF n - 1 > 0 THEN s2[n - 1] ELSE 0
  BY <1>1 DEF Linked, Dropped
<1>10. ASSUME NEW x \in 1..(n - 1)
       PROVE  nx2[s2[x]] = IF x < n - 1 THEN s2[x + 1] ELSE 0
  <2>1. CASE x < k - 1
    BY <1>1, <1>5, <2>1 DEF Linked, Dropped
  <2>2. CASE x = k - 1
    BY <1>1, <1>5, <2>2 DEF Linked, Dropped
  <2>3. CASE x >= k
    BY <1>1, <1>5, <2>3 DEF Linked, Dropped
  <2>4. QED
    BY <2>1, <2>2, <2>3
<1>11. ASSUME NEW x \in 1..(n - 1)
       PROVE  pv2[s2[x]] = IF x > 1 THEN s2[x - 1] ELSE 0
  <2>1. CASE x < k
    BY <1>1, <1>6, <2>1 DEF Linked, Dropped
  <2>2. CASE x = k
    BY <1>1, <1>6, <2>2 DEF Linked, Dropped
  <2>3. CASE x > k
    BY <1>1, <1>6, <2>3 DEF Linked, Dropped
  <2>4. QED
    BY <2>1, <2>2, <2>3
<1>12. QED
  BY <1>3, <1>4, <1>7, <1>8, <1>9, <1>10, <1>11 DEF Linked

\* insert_head puts a slot that is not in the list in front of it.
LEMMA InsertLinked ==
    ASSUME NEW N \in Nat, NEW n \in Nat, NEW nx, NEW pv, NEW h, NEW t, NEW s,
           Linked(N, nx, pv, h, t, n, s), NEW i \in 1..N, \A x \in 1..n : s[x] # i,
           NEW nx2, NEW pv2, NEW h2, NEW t2, NEW s2,
           Inserted(N, nx, pv, h, t, i, nx2, pv2, h2, t2),
           Prefixed(n, s, i, s2)
    PROVE  Linked(N, nx2, pv2, h2, t2, n + 1, s2)
<1>1. h \in 0..N
  BY DEF Linked
<1>2. \A j \in 1..N : nx2[j] \in 0..N /\ pv2[j] \in 0..N
  BY <1>1 DEF Linked, Inserted
<1>3. \A x \in 1..(n + 1) : s2[x] \in 1..N
  BY DEF Prefixed, Linked
<1>4. \A x \in 1..n : s[x] = h <=> x = 1
  BY DEF Linked, Injective
<1>5. Injective(s2, n + 1)
  BY DEF Linked, Injective, Prefixed
<1>6. h2 = IF n + 1 > 0 THEN s2[1] ELSE 0
  BY DEF Inserted, Prefixed
<1>7. t2 = IF n + 1 > 0 THEN s2[n + 1] ELSE 0
  BY DEF Linked, Inserted, Prefixed
<1>8. ASSUME NEW x \in 1..(n + 1)
      PROVE  nx2[s2[x]] = IF x < n + 1 THEN s2[x + 1] ELSE 0
  <2>1. CASE x = 1
    BY <1>1, <2>1 DEF Linked, Inserted, Prefixed
  <2>2. CASE x > 1
    BY <2>2, SMTT(30) DEF Linked, Inserted, Prefixed
  <2>3. QED
    BY <2>1, <2>2
<1>9. ASSUME NEW x \in 1..(n + 1)
      PROVE  pv2[s2[x]] = IF x > 1 THEN s2[x - 1] ELSE 0
  <2>1. CASE x = 1
    BY <2>1 DEF Linked, Inserted, Prefixed
  <2>2. CASE x = 2
    BY <1>4, <2>2 DEF Linked, Inserted, Prefixed
  <2>3. CASE x > 2
    BY <1>4, <2>3 DEF Linked, Inserted, Prefixed
  <2>4. QED
    BY <2>1, <2>2, <2>3
<1>10. QED
  BY <1>2, <1>3, <1>5, <1>6, <1>7, <1>8, <1>9 DEF Linked

\* A list is no longer than its arena.
LEMMA LinkedLength ==
    ASSUME NEW N \in Nat, NEW n \in Nat, NEW nx, NEW pv, NEW h, NEW t, NEW s,
           Linked(N, nx, pv, h, t, n, s)
    PROVE  n <= N
<1> DEFINE f == [x \in 1..n |-> s[x]]
<1>1. f \in Injection(1..n, 1..N)
  BY DEF Linked, Injective, Injection, IsInjective
<1>2. IsFiniteSet(1..N) /\ Cardinality(1..N) = N /\ Cardinality(1..n) = n
  BY FS_Interval
<1>3. QED
  BY <1>1, <1>2, FS_Injection

\* A sequence with an element in front.
LEMMA PrefixedSeq ==
    ASSUME NEW S, NEW a \in Seq(S), NEW b \in Seq(S), NEW v \in S, NEW c \in Nat,
           Len(a) = c, Len(b) = c + 1, b[1] = v, \A i \in 1..c : b[i + 1] = a[i]
    PROVE  b = <<v>> \o a
<1> DEFINE d == <<v>> \o a
<1>1. d \in Seq(S) /\ Len(d) = c + 1
  OBVIOUS
<1>2. d[1] = v /\ \A i \in 1..c : d[i + 1] = a[i]
  OBVIOUS
<1> HIDE DEF d
<1>3. ASSUME NEW i \in 1..(c + 1) PROVE b[i] = d[i]
  <2>1. CASE i = 1
    BY <1>2, <2>1
  <2>2. CASE i # 1
    <3>1. i - 1 \in 1..c /\ (i - 1) + 1 = i
      BY <2>2
    <3>2. QED
      BY <1>2, <3>1
  <2>3. QED
    BY <2>1, <2>2
<1>4. b = d
  BY <1>1, <1>3, SeqEqual
<1>5. QED
  BY <1>4 DEF d

-----------------------------------------------------------------------------
(* Walks along links. *)

\* The recursion of Walk, over the pages pg of the nodes.
IsWalk(w, N, limit, link, pg) ==
    \A k \in 0..limit : \A j \in 0..N :
        w[k][j] = IF k = 0 \/ j = 0 THEN <<>> ELSE <<pg[j]>> \o w[k - 1][link[j]]

\* The same as the definition of a function.
WalkEquals(w, N, limit, link, pg) ==
    w = [k \in 0..limit |->
           [j \in 0..N |-> IF k = 0 \/ j = 0 THEN <<>> ELSE <<pg[j]>> \o w[k - 1][link[j]]]]

\* The nodes have links inside the arena and pages of S.
Nodes(N, link, pg, S) == \A j \in 1..N : link[j] \in 0..N /\ pg[j] \in S

\* The slots r[1], ..., r[n] follow each other along link to the end.
IsPath(N, link, n, r) ==
    /\ \A x \in 1..n : r[x] \in 1..N
    /\ \A x \in 1..n : link[r[x]] = IF x < n THEN r[x + 1] ELSE 0

Shorter(a, b) == IF a < b THEN a ELSE b

\* The pages of at most k slots of a path from its x-th slot on.
PagesFrom(r, n, pg, k, x) == [i \in 1..Shorter(k, n + 1 - x) |-> pg[r[x + i - 1]]]

\* What a walk along the path reads.
ReadsPath(w, limit, n, r, pg) ==
    \A k \in 0..limit : \A x \in 1..(n + 1) :
        w[k][IF x <= n THEN r[x] ELSE 0] = PagesFrom(r, n, pg, k, x)

\* A walk of k links along a path reads the pages of its slots in order.
LEMMA WalkReadsPath ==
    ASSUME NEW N \in Nat, NEW n \in Nat, NEW limit \in Nat, NEW w, NEW link, NEW r,
           NEW S, NEW pg, Nodes(N, link, pg, S),
           IsWalk(w, N, limit, link, pg), IsPath(N, link, n, r)
    PROVE  ReadsPath(w, limit, n, r, pg)
<1> DEFINE at(x) == IF x <= n THEN r[x] ELSE 0
           P == {k \in 0..limit : \A x \in 1..(n + 1) : w[k][at(x)] = PagesFrom(r, n, pg, k, x)}
<1>1. \A x \in 1..(n + 1) : at(x) \in 0..N
  BY DEF IsPath
<1>2. \A k \in 0..limit, x \in 1..(n + 1) :
        /\ Shorter(k, n + 1 - x) \in Nat
        /\ PagesFrom(r, n, pg, k, x) \in Seq(S)
        /\ Len(PagesFrom(r, n, pg, k, x)) = Shorter(k, n + 1 - x)
        /\ \A i \in 1..Shorter(k, n + 1 - x) : PagesFrom(r, n, pg, k, x)[i] = pg[r[x + i - 1]]
  <2> SUFFICES ASSUME NEW k \in 0..limit, NEW x \in 1..(n + 1)
               PROVE  /\ Shorter(k, n + 1 - x) \in Nat
                      /\ PagesFrom(r, n, pg, k, x) \in Seq(S)
                      /\ Len(PagesFrom(r, n, pg, k, x)) = Shorter(k, n + 1 - x)
                      /\ \A i \in 1..Shorter(k, n + 1 - x) :
                           PagesFrom(r, n, pg, k, x)[i] = pg[r[x + i - 1]]
    OBVIOUS
  <2>1. Shorter(k, n + 1 - x) \in Nat /\ Shorter(k, n + 1 - x) <= n + 1 - x
    BY DEF Shorter
  <2>2. \A i \in 1..Shorter(k, n + 1 - x) : pg[r[x + i - 1]] \in S
    <3>1. \A i \in 1..Shorter(k, n + 1 - x) : x + i - 1 \in 1..n
      BY <2>1
    <3>2. QED
      BY <3>1 DEF IsPath, Nodes
  <2>3. PagesFrom(r, n, pg, k, x) \in [1..Shorter(k, n + 1 - x) -> S]
    BY <2>2 DEF PagesFrom
  <2>4. PagesFrom(r, n, pg, k, x) \in Seq(S) /\ Len(PagesFrom(r, n, pg, k, x)) = Shorter(k, n + 1 - x)
    BY <2>1, <2>3, FunctionIsSeq
  <2>5. \A i \in 1..Shorter(k, n + 1 - x) : PagesFrom(r, n, pg, k, x)[i] = pg[r[x + i - 1]]
    BY DEF PagesFrom
  <2>6. QED
    BY <2>1, <2>4, <2>5
<1>3. 0 \in P
  <2> SUFFICES ASSUME NEW x \in 1..(n + 1)
               PROVE  w[0][at(x)] = PagesFrom(r, n, pg, 0, x)
    OBVIOUS
  <2>1. w[0][at(x)] = <<>>
    <3>1. 0 \in 0..limit /\ at(x) \in 0..N
      BY <1>1
    <3> HIDE DEF at
    <3>2. QED
      BY <3>1 DEF IsWalk
  <2>2. Shorter(0, n + 1 - x) = 0
    BY DEF Shorter
  <2>3. PagesFrom(r, n, pg, 0, x) = <<>>
    BY <1>2, <2>2
  <2>4. QED
    BY <2>1, <2>3
<1>4. ASSUME NEW k \in 0..(limit - 1), k \in P PROVE k + 1 \in P
  <2> SUFFICES ASSUME NEW x \in 1..(n + 1)
               PROVE  w[k + 1][at(x)] = PagesFrom(r, n, pg, k + 1, x)
    OBVIOUS
  <2>1. CASE x = n + 1
    <3>1. w[k + 1][at(x)] = <<>>
      <4>1. k + 1 \in 0..limit /\ at(x) \in 0..N /\ at(x) = 0
        BY <1>1, <2>1
      <4> HIDE DEF at
      <4>2. QED
        BY <4>1 DEF IsWalk
    <3>2. Shorter(k + 1, n + 1 - x) = 0
      BY <2>1 DEF Shorter
    <3>3. PagesFrom(r, n, pg, k + 1, x) = <<>>
      BY <1>2, <3>2
    <3>4. QED
      BY <3>1, <3>3
  <2>2. CASE x # n + 1
    <3>1. x \in 1..n /\ x + 1 \in 1..(n + 1) /\ at(x) = r[x] /\ r[x] \in 1..N
      BY <2>2 DEF IsPath
    <3>2. link[r[x]] = at(x + 1)
      BY <3>1 DEF IsPath
    <3>3. w[k + 1][r[x]] = <<pg[r[x]]>> \o w[k][at(x + 1)]
      <4>1. k + 1 \in 0..limit /\ k + 1 # 0 /\ (k + 1) - 1 = k /\ r[x] \in 0..N /\ r[x] # 0
        BY <3>1
      <4> HIDE DEF at
      <4>2. QED
        BY <3>2, <4>1 DEF IsWalk
    <3>4. w[k][at(x + 1)] = PagesFrom(r, n, pg, k, x + 1)
      BY <1>4, <3>1
    <3>5. Shorter(k + 1, n + 1 - x) = Shorter(k, n + 1 - (x + 1)) + 1
      BY <3>1 DEF Shorter
    <3> DEFINE a == PagesFrom(r, n, pg, k, x + 1)
               b == PagesFrom(r, n, pg, k + 1, x)
               c == Shorter(k, n + 1 - (x + 1))
               v == pg[r[x]]
    <3>6. /\ a \in Seq(S) /\ Len(a) = c /\ c \in Nat
          /\ \A i \in 1..c : a[i] = pg[r[(x + 1) + i - 1]]
      <4>1. k \in 0..limit
        OBVIOUS
      <4>2. QED
        BY <1>2, <3>1, <4>1
    <3>7. /\ b \in Seq(S) /\ Len(b) = c + 1
          /\ \A i \in 1..(c + 1) : b[i] = pg[r[x + i - 1]]
      <4>1. k + 1 \in 0..limit
        OBVIOUS
      <4>2. QED
        BY <1>2, <3>5, <4>1
    <3>8. v \in S
      BY <3>1 DEF Nodes
    <3>9. b[1] = v /\ \A i \in 1..c : b[i + 1] = a[i]
      <4>1. x + 1 - 1 = x /\ \A i \in 1..c : x + (i + 1) - 1 = (x + 1) + i - 1
        BY <3>6
      <4> HIDE DEF a, b, c
      <4>2. b[1] = v
        BY <3>6, <3>7, <4>1
      <4>3. ASSUME NEW i \in 1..c PROVE b[i + 1] = a[i]
        <5>1. i + 1 \in 1..(c + 1)
          BY <3>6
        <5>2. b[i + 1] = pg[r[x + (i + 1) - 1]]
          BY <3>7, <5>1
        <5>3. a[i] = pg[r[(x + 1) + i - 1]]
          BY <3>6
        <5>4. QED
          BY <4>1, <5>2, <5>3
      <4>4. QED
        BY <4>2, <4>3
    <3> HIDE DEF a, b, c, v
    <3>10. b = <<v>> \o a
      BY <3>6, <3>7, <3>8, <3>9, PrefixedSeq
    <3>11. QED
      BY <3>1, <3>3, <3>4, <3>10 DEF a, b, v
  <2>3. QED
    BY <2>1, <2>2
<1>5. \A k \in 0..limit : k \in P
  <2> HIDE DEF P
  <2>1. QED
    BY <1>3, <1>4, BoundedInduction
<1>6. QED
  BY <1>5 DEF ReadsPath

\* The function Walk chooses exists, so that it satisfies its recursion.
LEMMA WalkExists ==
    ASSUME NEW N \in Nat, NEW limit \in Nat, NEW S, NEW link, NEW pg,
           Nodes(N, link, pg, S)
    PROVE  \E w : WalkEquals(w, N, limit, link, pg)
<1> DEFINE V == [0..N -> Seq(S)]
           a == [j \in 0..N |-> <<>>]
           step(v) == [j \in 0..N |-> IF j = 0 THEN <<>> ELSE <<pg[j]>> \o v[link[j]]]
           g == [k \in 1..limit |-> [v \in V |-> step(v)]]
<1>1. a \in V
  OBVIOUS
<1>2. ASSUME NEW v \in V PROVE step(v) \in V
  <2>1. ASSUME NEW j \in 0..N, j # 0 PROVE <<pg[j]>> \o v[link[j]] \in Seq(S)
    <3>1. link[j] \in 0..N /\ pg[j] \in S
      BY <2>1 DEF Nodes
    <3>2. v[link[j]] \in Seq(S) /\ <<pg[j]>> \in Seq(S)
      BY <3>1
    <3>3. QED
      BY <3>2, ConcatProperties
  <2>2. QED
    BY <2>1
<1>3. g \in [1..limit -> [V -> V]]
  <2> HIDE DEF V, step
  <2>1. QED
    BY <1>2
<1>4. \A k \in 1..limit : \A v \in V : g[k][v] = step(v)
  <2> HIDE DEF V, step
  <2>1. QED
    OBVIOUS
<1> HIDE DEF V, g, step
<1>5. PICK w : IsRecursive(w, limit, V, a, g)
  BY <1>1, <1>3, RecursiveFunction
<1>6. /\ w = [k \in 0..limit |-> w[k]] /\ w[0] = a
      /\ \A k \in 1..limit : w[k - 1] \in V /\ w[k] = step(w[k - 1])
  BY <1>4, <1>5 DEF IsRecursive
<1>7. \A k \in 0..limit :
        w[k] = [j \in 0..N |-> IF k = 0 \/ j = 0 THEN <<>> ELSE <<pg[j]>> \o w[k - 1][link[j]]]
  <2> SUFFICES ASSUME NEW k \in 0..limit
               PROVE  w[k] = [j \in 0..N |-> IF k = 0 \/ j = 0 THEN <<>>
                                             ELSE <<pg[j]>> \o w[k - 1][link[j]]]
    OBVIOUS
  <2>1. CASE k = 0
    BY <1>6, <2>1
  <2>2. CASE k # 0
    <3>1. k \in 1..limit
      BY <2>2
    <3>2. QED
      BY <1>6, <2>2, <3>1 DEF step
  <2>3. QED
    BY <2>1, <2>2
<1>8. w = [k \in 0..limit |->
             [j \in 0..N |-> IF k = 0 \/ j = 0 THEN <<>> ELSE <<pg[j]>> \o w[k - 1][link[j]]]]
  BY <1>6, <1>7
<1>9. QED
  BY <1>8 DEF WalkEquals

-----------------------------------------------------------------------------
(* The list of the state. *)

NextsOf(l) == [i \in DOMAIN l.arena |-> l.arena[i].next]
PrevsOf(l) == [i \in DOMAIN l.arena |-> l.arena[i].prev]

Chain(l, n, s) ==
    n \in Nat /\ Linked(Len(l.arena), NextsOf(l), PrevsOf(l), l.head, l.tail, n, s)

SlotsOf(n, s) == {s[x] : x \in 1..n}

\* The slots s[1], ..., s[n] are the list, they are the slots in use, and a
\* running evict_if has passed only pages its predicate refuses.
ChainInv(n, s) ==
    /\ Chain(List, n, s)
    /\ Used = SlotsOf(n, s)
    /\ curr # 0 => \E x \in 1..n : /\ s[x] = curr
                                   /\ \A y \in 1..n : y > x => arena[s[y]].page \in keep

HasChain == \E n, s : ChainInv(n, s)

\* What Order and peek_rev read of the list.
Read(n, s) ==
    /\ Order = [x \in 1..n |-> arena[s[x]].page]
    /\ Order \in Seq(Pages) /\ Len(Order) = n
    /\ \A limit \in Nat :
         peek_rev(limit) = [i \in 1..Shorter(limit, n) |-> arena[s[n + 1 - i]].page]

Mapped == \A n, s : ChainInv(n, s) => Read(n, s)

\* The links of a list.
LEMMA LinksOf ==
    ASSUME NEW l \in LinkedList
    PROVE  /\ Len(l.arena) \in Nat /\ DOMAIN l.arena = 1..Len(l.arena)
           /\ \A j \in 1..Len(l.arena) : /\ NextsOf(l)[j] = l.arena[j].next
                                         /\ PrevsOf(l)[j] = l.arena[j].prev
BY DEF LinkedList, NextsOf, PrevsOf

\* unlink on the record of a list.
LEMMA UnlinkChain ==
    ASSUME NEW l \in LinkedList, NEW n, NEW s, Chain(l, n, s), NEW k \in 1..n,
           unlink(l, s[k]) \in LinkedList, Len(unlink(l, s[k]).arena) = Len(l.arena),
           NEW s2, Dropped(n, s, k, s2)
    PROVE  Chain(unlink(l, s[k]), n - 1, s2)
<1> DEFINE m == unlink(l, s[k])
           i == s[k]
<1>1. n \in Nat /\ n - 1 \in Nat /\ s[k] \in 1..Len(l.arena)
  BY DEF Chain, Linked
<1>2. /\ Len(l.arena) \in Nat /\ DOMAIN l.arena = 1..Len(l.arena)
      /\ \A j \in 1..Len(l.arena) : NextsOf(l)[j] = l.arena[j].next /\ PrevsOf(l)[j] = l.arena[j].prev
  BY LinksOf
<1>3. \A j \in 1..Len(l.arena) : NextsOf(m)[j] = m.arena[j].next /\ PrevsOf(m)[j] = m.arena[j].prev
  BY LinksOf
<1>4. /\ \A j \in DOMAIN l.arena :
           /\ m.arena[j].next = IF j = l.arena[i].prev THEN l.arena[i].next ELSE l.arena[j].next
           /\ m.arena[j].prev = IF j = l.arena[i].next THEN l.arena[i].prev ELSE l.arena[j].prev
      /\ m.head = IF l.arena[i].prev = 0 THEN l.arena[i].next ELSE l.head
      /\ m.tail = IF l.arena[i].next = 0 THEN l.arena[i].prev ELSE l.tail
  BY DEF unlink
<1> HIDE DEF m
<1>5. Unlinked(Len(l.arena), NextsOf(l), PrevsOf(l), l.head, l.tail, s[k],
               NextsOf(m), PrevsOf(m), m.head, m.tail)
  <2>1. s[k] \in DOMAIN l.arena /\ NextsOf(l)[i] = l.arena[i].next /\ PrevsOf(l)[i] = l.arena[i].prev
    BY <1>1, <1>2
  <2>2. ASSUME NEW j \in 1..Len(l.arena)
        PROVE  /\ NextsOf(m)[j] = IF j = PrevsOf(l)[i] THEN NextsOf(l)[i] ELSE NextsOf(l)[j]
               /\ PrevsOf(m)[j] = IF j = NextsOf(l)[i] THEN PrevsOf(l)[i] ELSE PrevsOf(l)[j]
    <3>1. /\ m.arena[j].next = IF j = l.arena[i].prev THEN l.arena[i].next ELSE l.arena[j].next
          /\ m.arena[j].prev = IF j = l.arena[i].next THEN l.arena[i].prev ELSE l.arena[j].prev
      BY <1>2, <1>4
    <3>2. NextsOf(l)[j] = l.arena[j].next /\ PrevsOf(l)[j] = l.arena[j].prev
      BY <1>2
    <3>3. NextsOf(m)[j] = m.arena[j].next /\ PrevsOf(m)[j] = m.arena[j].prev
      BY <1>3
    <3>4. QED
      BY <2>1, <3>1, <3>2, <3>3
  <2>3. /\ m.head = IF PrevsOf(l)[i] = 0 THEN NextsOf(l)[i] ELSE l.head
        /\ m.tail = IF NextsOf(l)[i] = 0 THEN PrevsOf(l)[i] ELSE l.tail
    BY <1>4, <2>1
  <2>4. QED
    BY <2>2, <2>3 DEF Unlinked
<1>6. Linked(Len(l.arena), NextsOf(m), PrevsOf(m), m.head, m.tail, n - 1, s2)
  BY <1>1, <1>2, <1>5, UnlinkLinked DEF Chain
<1>7. QED
  BY <1>1, <1>6 DEF Chain, m

\* insert_head on the record of a list.
LEMMA InsertChain ==
    ASSUME NEW l \in LinkedList, NEW n, NEW s, Chain(l, n, s),
           NEW i \in DOMAIN l.arena, \A x \in 1..n : s[x] # i,
           insert_head(l, i) \in LinkedList, Len(insert_head(l, i).arena) = Len(l.arena),
           NEW s2, Prefixed(n, s, i, s2)
    PROVE  Chain(insert_head(l, i), n + 1, s2)
<1> DEFINE m == insert_head(l, i)
<1>1. n \in Nat /\ n + 1 \in Nat
  BY DEF Chain
<1>2. /\ Len(l.arena) \in Nat /\ DOMAIN l.arena = 1..Len(l.arena)
      /\ \A j \in 1..Len(l.arena) : NextsOf(l)[j] = l.arena[j].next /\ PrevsOf(l)[j] = l.arena[j].prev
  BY LinksOf
<1>3. \A j \in 1..Len(l.arena) : NextsOf(m)[j] = m.arena[j].next /\ PrevsOf(m)[j] = m.arena[j].prev
  BY LinksOf
<1>4. /\ \A j \in DOMAIN l.arena :
           /\ m.arena[j].next = IF j = i THEN l.head ELSE l.arena[j].next
           /\ m.arena[j].prev = IF j = i THEN 0 ELSE IF j = l.head THEN i ELSE l.arena[j].prev
      /\ m.head = i
      /\ m.tail = IF l.head = 0 THEN i ELSE l.tail
  BY DEF insert_head
<1> HIDE DEF m
<1>5. Inserted(Len(l.arena), NextsOf(l), PrevsOf(l), l.head, l.tail, i,
               NextsOf(m), PrevsOf(m), m.head, m.tail)
  BY <1>2, <1>3, <1>4 DEF Inserted
<1>6. Linked(Len(l.arena), NextsOf(m), PrevsOf(m), m.head, m.tail, n + 1, s2)
  BY <1>1, <1>2, <1>5, InsertLinked DEF Chain
<1>7. QED
  BY <1>1, <1>6 DEF Chain, m

\* The list m differs from l in the node i at most, which may be a new one.
AgreeExcept(l, m, i) ==
    /\ m.head = l.head /\ m.tail = l.tail /\ Len(l.arena) <= Len(m.arena)
    /\ \A j \in DOMAIN m.arena : j # i => j \in DOMAIN l.arena /\ m.arena[j] = l.arena[j]

\* Slots outside the list may be rewritten or added, with empty links.
LEMMA ChainFrame ==
    ASSUME NEW l \in LinkedList, NEW n, NEW s, Chain(l, n, s),
           NEW m \in LinkedList, NEW i \in DOMAIN m.arena, \A x \in 1..n : s[x] # i,
           m.arena[i].prev = 0, m.arena[i].next = 0, AgreeExcept(l, m, i)
    PROVE  Chain(m, n, s)
<1>1. /\ m.head = l.head /\ m.tail = l.tail /\ Len(l.arena) <= Len(m.arena)
      /\ \A j \in DOMAIN m.arena : j # i => j \in DOMAIN l.arena /\ m.arena[j] = l.arena[j]
  BY DEF AgreeExcept
<1>2. n \in Nat
  BY DEF Chain
<1>3. /\ Len(l.arena) \in Nat /\ DOMAIN l.arena = 1..Len(l.arena)
      /\ \A j \in 1..Len(l.arena) : NextsOf(l)[j] = l.arena[j].next /\ PrevsOf(l)[j] = l.arena[j].prev
  BY LinksOf
<1>4. /\ Len(m.arena) \in Nat /\ DOMAIN m.arena = 1..Len(m.arena)
      /\ \A j \in 1..Len(m.arena) : NextsOf(m)[j] = m.arena[j].next /\ PrevsOf(m)[j] = m.arena[j].prev
  BY LinksOf
<1>5. \A j \in 1..Len(m.arena) :
        NextsOf(m)[j] \in 0..Len(m.arena) /\ PrevsOf(m)[j] \in 0..Len(m.arena)
  <2> SUFFICES ASSUME NEW j \in 1..Len(m.arena)
               PROVE  NextsOf(m)[j] \in 0..Len(m.arena) /\ PrevsOf(m)[j] \in 0..Len(m.arena)
    OBVIOUS
  <2>1. CASE j = i
    BY <1>4, <2>1
  <2>2. CASE j # i
    <3>1. j \in 1..Len(l.arena) /\ NextsOf(m)[j] = NextsOf(l)[j] /\ PrevsOf(m)[j] = PrevsOf(l)[j]
      BY <1>1, <1>3, <1>4, <2>2
    <3>2. NextsOf(l)[j] \in 0..Len(l.arena) /\ PrevsOf(l)[j] \in 0..Len(l.arena)
      BY <3>1 DEF Chain, Linked
    <3>3. QED
      BY <1>1, <1>3, <1>4, <3>1, <3>2
  <2>3. QED
    BY <2>1, <2>2
<1>6. \A x \in 1..n : NextsOf(m)[s[x]] = NextsOf(l)[s[x]] /\ PrevsOf(m)[s[x]] = PrevsOf(l)[s[x]]
  <2> SUFFICES ASSUME NEW x \in 1..n
               PROVE  NextsOf(m)[s[x]] = NextsOf(l)[s[x]] /\ PrevsOf(m)[s[x]] = PrevsOf(l)[s[x]]
    OBVIOUS
  <2>1. s[x] \in 1..Len(l.arena) /\ s[x] \in 1..Len(m.arena) /\ s[x] # i
    BY <1>1, <1>3, <1>4 DEF Chain, Linked
  <2>2. m.arena[s[x]] = l.arena[s[x]]
    BY <1>1, <1>4, <2>1
  <2>3. QED
    BY <1>3, <1>4, <2>1, <2>2, ZenonT(60)
<1>7. Linked(Len(m.arena), NextsOf(m), PrevsOf(m), l.head, l.tail, n, s)
  <2>1. Linked(Len(l.arena), NextsOf(l), PrevsOf(l), l.head, l.tail, n, s)
    BY DEF Chain
  <2>2. \A x \in 1..n : s[x] \in 1..Len(m.arena)
    BY <1>1, <1>3, <1>4, <2>1 DEF Linked
  <2>3. QED
    BY <1>5, <1>6, <2>1, <2>2 DEF Linked
<1>8. QED
  BY <1>1, <1>2, <1>7 DEF Chain

\* The pages along the list are the tracked ones, each once.
LEMMA ChainPages ==
    ASSUME LruInv, NEW n, NEW s, ChainInv(n, s)
    PROVE  /\ n \in Nat /\ n <= Len(arena) /\ Cardinality(Tracked) = n
           /\ \A x \in 1..n : /\ s[x] \in 1..Len(arena) /\ s[x] \in Used
                              /\ arena[s[x]].page \in Tracked
                              /\ pages[arena[s[x]].page] = s[x]
           /\ \A x, y \in 1..n : s[x] = s[y] => x = y
           /\ \A x, y \in 1..n : arena[s[x]].page = arena[s[y]].page => x = y
           /\ \A p \in Tracked : \E x \in 1..n : s[x] = pages[p] /\ arena[s[x]].page = p
<1>1. /\ List.arena = arena /\ Len(arena) \in Nat /\ DOMAIN arena = 1..Len(arena)
      /\ \A r \in Tracked : \A q \in Pages : pages[q] = pages[r] => q = r
  BY ListFacts DEF LruInv
<1>2. /\ n \in Nat /\ \A x \in 1..n : s[x] \in 1..Len(arena)
      /\ \A x, y \in 1..n : s[x] = s[y] => x = y
  BY <1>1 DEF ChainInv, Chain, Linked, Injective
<1>3. n <= Len(arena)
  BY <1>1, <1>2, LinkedLength DEF ChainInv, Chain
<1>4. \A x \in 1..n : s[x] \in Used
  BY DEF ChainInv, SlotsOf
<1>5. ASSUME NEW x \in 1..n
      PROVE  arena[s[x]].page \in Tracked /\ pages[arena[s[x]].page] = s[x]
  <2>1. PICK p \in Tracked : pages[p] = s[x]
    BY <1>4 DEF Used
  <2>2. QED
    BY <2>1 DEF LruInv, SlotsPartition
<1>6. \A x, y \in 1..n : arena[s[x]].page = arena[s[y]].page => x = y
  BY <1>2, <1>5
<1>7. ASSUME NEW p \in Tracked PROVE \E x \in 1..n : s[x] = pages[p] /\ arena[s[x]].page = p
  <2>1. pages[p] \in Used /\ arena[pages[p]].page = p
    BY DEF Used, LruInv, SlotsPartition
  <2>2. PICK x \in 1..n : s[x] = pages[p]
    BY <2>1 DEF ChainInv, SlotsOf
  <2>3. QED
    BY <2>1, <2>2
<1>8. Cardinality(Tracked) = n
  <2> DEFINE f == [x \in 1..n |-> arena[s[x]].page]
  <2>1. f \in [1..n -> Tracked]
    BY <1>5
  <2>2. f \in Injection(1..n, Tracked)
    BY <1>6, <2>1 DEF Injection, IsInjective
  <2>3. f \in Surjection(1..n, Tracked)
    BY <1>7, <2>1 DEF Surjection
  <2>4. f \in Bijection(1..n, Tracked)
    BY <2>2, <2>3 DEF Bijection
  <2>5. ExistsBijection(1..n, Tracked)
    BY <2>4 DEF ExistsBijection
  <2>6. IsFiniteSet(1..n) /\ Cardinality(1..n) = n
    BY <1>2, FS_Interval
  <2>7. QED
    BY <2>5, <2>6, FS_Bijection
<1>9. QED
  BY <1>2, <1>3, <1>4, <1>5, <1>6, <1>7, <1>8

\* Walk from the x-th slot of a path.
LEMMA WalkOfPath ==
    ASSUME LruInv, NEW n \in Nat, NEW r, NEW link, NEW limit \in Nat,
           \A j \in 1..Len(arena) : link[j] \in 0..Len(arena),
           IsPath(Len(arena), link, n, r)
    PROVE  Walk(link, IF n > 0 THEN r[1] ELSE 0, limit)
             = [i \in 1..Shorter(limit, n) |-> arena[r[i]].page]
<1> DEFINE N == Len(arena)
           pg == [j \in 1..N |-> arena[j].page]
           body(u) == [k \in 0..limit |->
                         [j \in 0..N |-> IF k = 0 \/ j = 0 THEN <<>>
                                         ELSE <<arena[j].page>> \o u[k - 1][link[j]]]]
           w == CHOOSE u : u = body(u)
<1>1. N \in Nat /\ DOMAIN arena = 1..N /\ \A j \in 1..N : arena[j].page \in Pages
  <2>1. arena \in Seq(LruNode)
    BY DEF LruInv, LruTypeOK, LruNode
  <2>2. N \in Nat /\ DOMAIN arena = 1..N /\ \A j \in 1..N : arena[j] \in LruNode
    BY <2>1
  <2>3. QED
    BY <2>2 DEF LruNode
<1>2. \A j \in 1..N : pg[j] = arena[j].page /\ pg[j] \in Pages
  BY <1>1
<1>3. \E u : u = body(u)
  <2>1. Nodes(N, link, pg, Pages)
    BY <1>2 DEF Nodes
  <2>2. PICK u : WalkEquals(u, N, limit, link, pg)
    <3> HIDE DEF pg
    <3>1. QED
      BY <1>1, <2>1, WalkExists
  <2>3. ASSUME NEW k \in 0..limit
        PROVE  [j \in 0..N |-> IF k = 0 \/ j = 0 THEN <<>>
                               ELSE <<pg[j]>> \o u[k - 1][link[j]]]
               = [j \in 0..N |-> IF k = 0 \/ j = 0 THEN <<>>
                                 ELSE <<arena[j].page>> \o u[k - 1][link[j]]]
    <3>1. ASSUME NEW j \in 0..N, j # 0 PROVE pg[j] = arena[j].page
      BY <1>1, <1>2, <3>1
    <3> HIDE DEF pg
    <3>2. QED
      BY <3>1
  <2>4. u = body(u)
    <3> HIDE DEF pg
    <3>1. QED
      BY <2>2, <2>3 DEF WalkEquals
  <2>5. QED
    BY <2>4
<1>4. w = body(w)
  <2> HIDE DEF body
  <2>1. QED
    BY <1>3
<1>5. Walk(link, IF n > 0 THEN r[1] ELSE 0, limit) = w[limit][IF n > 0 THEN r[1] ELSE 0]
  BY DEF Walk
<1> HIDE DEF w
<1>6. IsWalk(w, N, limit, link, pg)
  <2> SUFFICES ASSUME NEW k \in 0..limit, NEW j \in 0..N
               PROVE  w[k][j] = IF k = 0 \/ j = 0 THEN <<>> ELSE <<pg[j]>> \o w[k - 1][link[j]]
    BY DEF IsWalk
  <2>1. w[k][j] = IF k = 0 \/ j = 0 THEN <<>> ELSE <<arena[j].page>> \o w[k - 1][link[j]]
    <3>1. body(w)[k][j] = IF k = 0 \/ j = 0 THEN <<>> ELSE <<arena[j].page>> \o w[k - 1][link[j]]
      OBVIOUS
    <3> HIDE DEF body
    <3>2. QED
      BY <1>4, <3>1
  <2>2. j # 0 => pg[j] = arena[j].page
    BY <1>1, <1>2
  <2> HIDE DEF pg
  <2>3. QED
    BY <2>1, <2>2
<1> HIDE DEF pg, N
<1>7. ReadsPath(w, limit, n, r, pg)
  <2>1. N \in Nat /\ Nodes(N, link, pg, Pages) /\ IsPath(N, link, n, r)
    BY <1>1, <1>2 DEF N, Nodes
  <2>2. QED
    BY <1>6, <2>1, WalkReadsPath
<1>8. w[limit][IF 1 <= n THEN r[1] ELSE 0] = PagesFrom(r, n, pg, limit, 1)
  BY <1>7 DEF ReadsPath
<1>9. (IF 1 <= n THEN r[1] ELSE 0) = IF n > 0 THEN r[1] ELSE 0
  OBVIOUS
<1>10. PagesFrom(r, n, pg, limit, 1) = [i \in 1..Shorter(limit, n) |-> arena[r[i]].page]
  <2>1. n + 1 - 1 = n /\ Shorter(limit, n) \in Nat /\ Shorter(limit, n) <= n
    BY DEF Shorter
  <2>2. \A i \in 1..Shorter(limit, n) : 1 + i - 1 = i /\ i \in 1..n
    BY <2>1
  <2>3. \A i \in 1..Shorter(limit, n) : pg[r[1 + i - 1]] = arena[r[i]].page
    BY <1>1, <1>2, <2>2 DEF IsPath, N
  <2>4. QED
    BY <2>1, <2>3 DEF PagesFrom
<1>11. QED
  BY <1>5, <1>8, <1>9, <1>10

\* Order and peek_rev read the list in its two directions.
LEMMA InvReads == LruInv => Mapped
<1> SUFFICES ASSUME LruInv, NEW n, NEW s, ChainInv(n, s)
             PROVE  Read(n, s)
  BY DEF Mapped
<1> DEFINE N == Len(arena)
           back == [x \in 1..n |-> s[n + 1 - x]]
<1>1. /\ n \in Nat /\ n <= N
      /\ \A x \in 1..n : s[x] \in 1..N /\ arena[s[x]].page \in Tracked
  BY ChainPages
<1>2. /\ List.arena = arena /\ List.head = head /\ List.tail = tail
      /\ N \in Nat /\ DOMAIN arena = 1..N
  BY ListFacts DEF LruInv
<1>3. Linked(N, Nexts, Prevs, head, tail, n, s)
  BY <1>2 DEF ChainInv, Chain, NextsOf, PrevsOf, Nexts, Prevs, Slots
<1>4. \A x \in 1..n : back[x] = s[n + 1 - x] /\ n + 1 - x \in 1..n
  BY <1>1
<1> HIDE DEF N, back
<1>5. IsPath(N, Nexts, n, s)
  BY <1>3 DEF Linked, IsPath
<1>6. IsPath(N, Prevs, n, back)
  <2>1. ASSUME NEW x \in 1..n
        PROVE  back[x] \in 1..N /\ Prevs[back[x]] = IF x < n THEN back[x + 1] ELSE 0
    <3>1. Prevs[s[n + 1 - x]] = IF n + 1 - x > 1 THEN s[(n + 1 - x) - 1] ELSE 0
      BY <1>3, <1>4 DEF Linked
    <3>2. (n + 1 - x > 1 <=> x < n) /\ (n + 1 - x) - 1 = n + 1 - (x + 1)
      BY <1>1
    <3>3. x < n => back[x + 1] = s[n + 1 - (x + 1)]
      BY <1>1, <1>4
    <3>4. QED
      BY <1>1, <1>4, <3>1, <3>2, <3>3
  <2>2. QED
    BY <2>1 DEF IsPath
<1>7. \A j \in 1..N : Nexts[j] \in 0..N /\ Prevs[j] \in 0..N
  BY <1>3 DEF Linked
<1>8. head = (IF n > 0 THEN s[1] ELSE 0) /\ tail = IF n > 0 THEN back[1] ELSE 0
  <2>1. head = (IF n > 0 THEN s[1] ELSE 0) /\ tail = IF n > 0 THEN s[n] ELSE 0
    BY <1>3 DEF Linked
  <2>2. n > 0 => back[1] = s[n]
    BY <1>1, <1>4
  <2>3. QED
    BY <2>1, <2>2
<1>9. Order = [i \in 1..Shorter(N, n) |-> arena[s[i]].page]
  <2>1. Walk(Nexts, IF n > 0 THEN s[1] ELSE 0, N) = [i \in 1..Shorter(N, n) |-> arena[s[i]].page]
    BY <1>1, <1>2, <1>5, <1>7, WalkOfPath DEF N
  <2>2. QED
    BY <1>8, <2>1 DEF Order, N
<1>10. Shorter(N, n) = n
  BY <1>1, <1>2 DEF Shorter
<1>11. Order = [x \in 1..n |-> arena[s[x]].page] /\ Order \in Seq(Pages) /\ Len(Order) = n
  <2>1. Order = [x \in 1..n |-> arena[s[x]].page]
    BY <1>9, <1>10
  <2>2. Order \in [1..n -> Pages]
    BY <1>1, <2>1 DEF Tracked
  <2>3. QED
    BY <1>1, <2>1, <2>2, FunctionIsSeq
<1>12. ASSUME NEW limit \in Nat
       PROVE  peek_rev(limit) = [i \in 1..Shorter(limit, n) |-> arena[s[n + 1 - i]].page]
  <2>1. Walk(Prevs, IF n > 0 THEN back[1] ELSE 0, limit)
          = [i \in 1..Shorter(limit, n) |-> arena[back[i]].page]
    BY <1>1, <1>2, <1>6, <1>7, WalkOfPath DEF N
  <2>2. peek_rev(limit) = [i \in 1..Shorter(limit, n) |-> arena[back[i]].page]
    BY <1>8, <2>1 DEF peek_rev
  <2>3. \A i \in 1..Shorter(limit, n) : back[i] = s[n + 1 - i]
    BY <1>1, <1>4 DEF Shorter
  <2>4. QED
    BY <2>2, <2>3
<1>13. QED
  BY <1>11, <1>12 DEF Read

-----------------------------------------------------------------------------
(* The steps of the list. *)

\* The slots without the k-th, and with i in front.
Without(n, s, k) == [j \in 1..(n - 1) |-> IF j < k THEN s[j] ELSE s[j + 1]]
With(n, s, i) == [j \in 1..(n + 1) |-> IF j = 1 THEN i ELSE s[j - 1]]

LEMMA WithoutDrops ==
    ASSUME NEW n, NEW s, NEW k
    PROVE  Dropped(n, s, k, Without(n, s, k))
BY DEF Dropped, Without

LEMMA WithPrefixes ==
    ASSUME NEW n, NEW s, NEW i
    PROVE  Prefixed(n, s, i, With(n, s, i))
BY DEF Prefixed, With

\* A dropped slot leaves the set of slots, and only that one.
LEMMA DroppedRange ==
    ASSUME NEW n \in Nat, NEW s, Injective(s, n), NEW k \in 1..n, NEW s2, Dropped(n, s, k, s2)
    PROVE  SlotsOf(n - 1, s2) = SlotsOf(n, s) \ {s[k]}
<1>1. ASSUME NEW x \in 1..(n - 1)
      PROVE  \E y \in 1..n : y # k /\ s2[x] = s[y]
  <2>1. CASE x < k
    BY <2>1 DEF Dropped
  <2>2. CASE x >= k
    BY <2>2 DEF Dropped
  <2>3. QED
    BY <2>1, <2>2
<1>2. ASSUME NEW y \in 1..n, y # k
      PROVE  \E x \in 1..(n - 1) : s2[x] = s[y]
  <2>1. CASE y < k
    BY <2>1 DEF Dropped
  <2>2. CASE y > k
    <3>1. y - 1 \in 1..(n - 1) /\ ~(y - 1 < k) /\ (y - 1) + 1 = y
      BY <2>2
    <3>2. QED
      BY <3>1 DEF Dropped
  <2>3. QED
    BY <1>2, <2>1, <2>2
<1>3. QED
  BY <1>1, <1>2 DEF Injective, SlotsOf

\* A slot put in front joins the set of slots.
LEMMA PrefixedRange ==
    ASSUME NEW n \in Nat, NEW s, NEW i, NEW s2, Prefixed(n, s, i, s2)
    PROVE  SlotsOf(n + 1, s2) = SlotsOf(n, s) \cup {i}
<1>1. ASSUME NEW x \in 1..(n + 1)
      PROVE  s2[x] = i \/ \E y \in 1..n : s2[x] = s[y]
  BY DEF Prefixed
<1>2. ASSUME NEW y \in 1..n
      PROVE  \E x \in 1..(n + 1) : s2[x] = s[y]
  <2>1. y + 1 \in 1..(n + 1) /\ y + 1 # 1 /\ (y + 1) - 1 = y
    OBVIOUS
  <2>2. QED
    BY <2>1 DEF Prefixed
<1>3. 1 \in 1..(n + 1) /\ s2[1] = i
  BY DEF Prefixed
<1>4. QED
  BY <1>1, <1>2, <1>3 DEF SlotsOf

\* remove and evict_if take their slot out of the list.
LEMMA ReleaseChain ==
    ASSUME LruInv, LruInv', NEW n, NEW s, ChainInv(n, s), NEW k \in 1..n,
           Release(arena[s[k]].page, s[k]), curr' = 0
    PROVE  /\ ChainInv(n - 1, Without(n, s, k))'
           /\ \A j \in 1..Len(arena) : arena'[j].page = arena[j].page
<1> DEFINE m == unlink(List, s[k])
           t == Without(n, s, k)
           p == arena[s[k]].page
<1>1. /\ List \in LinkedList
      /\ List.arena = arena /\ List.head = head /\ List.tail = tail
      /\ Len(arena) \in Nat /\ DOMAIN arena = 1..Len(arena)
      /\ Used \in SUBSET DOMAIN arena
  BY ListFacts DEF LruInv
<1>2. /\ n \in Nat /\ s[k] \in Used /\ p \in Tracked /\ pages[p] = s[k]
      /\ Injective(s, n)
  BY ChainPages DEF Injective
<1>3. /\ m \in LinkedList /\ Len(m.arena) = Len(arena)
      /\ \A j \in DOMAIN arena : m.arena[j].page = arena[j].page
  BY <1>1, <1>2, UnlinkMirrors DEF LruInv
<1>4. List' = m /\ arena' = m.arena
  BY <1>3, BecomesList DEF Release, Becomes
<1>5. Chain(m, n - 1, t)
  <2>1. Chain(List, n, s) /\ Dropped(n, s, k, t)
    BY WithoutDrops DEF ChainInv
  <2> HIDE DEF t
  <2>2. QED
    BY <1>1, <1>3, <2>1, UnlinkChain
<1>6. Used' = Used \ {s[k]}
  <2>1. pages' = [pages EXCEPT ![p] = 0]
    BY DEF Release
  <2>2. pages \in [Pages -> 0..Len(arena)] /\ p \in Pages
    BY <1>2 DEF LruInv, LruTypeOK, Tracked
  <2>3. pages'[p] = 0 /\ \A q \in Pages : q # p => pages'[q] = pages[q]
    BY <2>1, <2>2
  <2>4. \A q \in Tracked : pages[q] = s[k] => q = p
    BY <1>2, ListFacts DEF LruInv, Tracked
  <2> HIDE DEF p
  <2>5. ASSUME NEW i \in Used' PROVE i \in Used \ {s[k]}
    <3>1. PICK q \in Pages : pages'[q] # 0 /\ pages'[q] = i
      BY <2>5 DEF Used, Tracked
    <3>2. q # p /\ pages[q] = i /\ q \in Tracked
      BY <2>3, <3>1 DEF Tracked
    <3>3. QED
      BY <2>4, <3>2 DEF Used
  <2>6. ASSUME NEW i \in Used \ {s[k]} PROVE i \in Used'
    <3>1. PICK q \in Pages : pages[q] # 0 /\ pages[q] = i
      BY <2>6 DEF Used, Tracked
    <3>2. q # p
      BY <1>2, <2>6, <3>1
    <3>3. pages'[q] = i /\ pages'[q] # 0
      BY <2>3, <3>1, <3>2
    <3>4. QED
      BY <3>3 DEF Used, Tracked
  <2>7. QED
    BY <2>5, <2>6
<1>7. Used' = SlotsOf(n - 1, t)
  <2>1. Dropped(n, s, k, t)
    BY WithoutDrops
  <2> HIDE DEF t
  <2>2. SlotsOf(n - 1, t) = SlotsOf(n, s) \ {s[k]}
    BY <1>2, <2>1, DroppedRange
  <2>3. Used = SlotsOf(n, s)
    BY DEF ChainInv
  <2>4. QED
    BY <1>6, <2>2, <2>3
<1>8. ChainInv(n - 1, t)'
  <2> HIDE DEF t
  <2>1. QED
    BY <1>4, <1>5, <1>7 DEF ChainInv
<1>9. QED
  BY <1>1, <1>3, <1>4, <1>8

\* record_access of a tracked page moves its slot to the front.
LEMMA AccessHitChain ==
    ASSUME LruInv, LruInv', NEW n, NEW s, ChainInv(n, s), NEW k \in 1..n,
           AccessHit(arena[s[k]].page)
    PROVE  /\ ChainInv(n, With(n - 1, Without(n, s, k), s[k]))'
           /\ \A j \in 1..Len(arena) : arena'[j].page = arena[j].page
<1> DEFINE m == unlink(List, s[k])
           t == Without(n, s, k)
           u == With(n - 1, t, s[k])
           i == s[k]
           l == insert_head(m, i)
<1>1. /\ List \in LinkedList
      /\ List.arena = arena /\ List.head = head /\ List.tail = tail
      /\ Len(arena) \in Nat /\ DOMAIN arena = 1..Len(arena)
      /\ Used \in SUBSET DOMAIN arena
  BY ListFacts DEF LruInv
<1>2. /\ n \in Nat /\ i \in Used /\ pages[arena[s[k]].page] = i
      /\ Injective(s, n)
  BY ChainPages DEF Injective
<1>3. /\ m \in LinkedList /\ Len(m.arena) = Len(arena)
      /\ \A j \in DOMAIN arena : m.arena[j].page = arena[j].page
      /\ Mirror(Used \ {i}, m)
  BY <1>1, <1>2, UnlinkMirrors DEF LruInv
<1>4. Chain(m, n - 1, t)
  <2>1. Chain(List, n, s) /\ Dropped(n, s, k, t)
    BY WithoutDrops DEF ChainInv
  <2> HIDE DEF t
  <2>2. QED
    BY <1>1, <1>3, <2>1, UnlinkChain
<1>5. SlotsOf(n - 1, t) = Used \ {i}
  <2>1. Dropped(n, s, k, t)
    BY WithoutDrops
  <2> HIDE DEF t
  <2>2. QED
    BY <1>2, <2>1, DroppedRange DEF ChainInv
<1>6. DOMAIN m.arena = DOMAIN arena
  BY <1>1, <1>3 DEF LinkedList
<1> HIDE DEF m
<1>7. /\ l \in LinkedList /\ Len(l.arena) = Len(m.arena)
      /\ \A j \in DOMAIN arena : l.arena[j].page = m.arena[j].page
  <2>1. Used \ {i} \in SUBSET DOMAIN m.arena /\ i \in DOMAIN m.arena /\ i \notin Used \ {i}
    BY <1>1, <1>2, <1>6
  <2>2. QED
    BY <1>3, <1>6, <2>1, InsertMirrors
<1> HIDE DEF t
<1>8. Prefixed(n - 1, t, i, u)
  BY WithPrefixes
<1> HIDE DEF u
<1>9. Chain(l, n, u)
  <2>1. \A x \in 1..(n - 1) : t[x] # i
    BY <1>5 DEF SlotsOf
  <2>2. i \in DOMAIN m.arena
    BY <1>1, <1>2, <1>6
  <2>3. Chain(l, (n - 1) + 1, u)
    BY <1>3, <1>4, <1>7, <1>8, <2>1, <2>2, InsertChain
  <2>4. QED
    BY <1>2, <2>3
<1>10. SlotsOf(n, u) = Used
  <2>1. n - 1 \in Nat
    BY <1>2
  <2>2. SlotsOf((n - 1) + 1, u) = SlotsOf(n - 1, t) \cup {i}
    BY <1>8, <2>1, PrefixedRange
  <2>3. (n - 1) + 1 = n
    BY <1>2
  <2>4. QED
    BY <1>2, <1>5, <2>2, <2>3
<1>11. /\ Becomes(l) /\ pages' = pages /\ curr = 0 /\ curr' = curr
  BY <1>2 DEF AccessHit, Idle, m
<1> HIDE DEF l
<1>12. List' = l /\ arena' = l.arena
  BY <1>7, <1>11, BecomesList DEF Becomes
<1>13. Used' = Used
  BY <1>11 DEF Used, Tracked
<1>14. ChainInv(n, u)'
  BY <1>9, <1>10, <1>11, <1>12, <1>13 DEF ChainInv
<1>15. QED
  BY <1>1, <1>3, <1>7, <1>12, <1>14 DEF u, t

\* record_access of a new page: a slot i of a list l that agrees with the
\* state's on the other slots, its own links empty, comes to the front.
LEMMA EntersChain ==
    ASSUME LruInv, LruInv', NEW n, NEW s, ChainInv(n, s), NEW p \in Pages,
           NEW l \in LinkedList, NEW i \in DOMAIN l.arena, i \notin Used,
           l.arena[i] = Node(p), AgreeExcept(List, l, i),
           Used' = Used \cup {i}, Becomes(insert_head(l, i)), curr = 0, curr' = 0
    PROVE  /\ ChainInv(n + 1, With(n, s, i))'
           /\ arena'[i].page = p
           /\ \A x \in 1..n : arena'[s[x]].page = arena[s[x]].page
<1> DEFINE m == insert_head(l, i)
           u == With(n, s, i)
<1>1. /\ List \in LinkedList
      /\ List.arena = arena /\ List.head = head /\ List.tail = tail
      /\ Len(arena) \in Nat /\ DOMAIN arena = 1..Len(arena)
      /\ Used \in SUBSET DOMAIN arena
  BY ListFacts DEF LruInv
<1>2. n \in Nat
  BY ChainPages
<1>3. \A x \in 1..n : s[x] \in Used
  BY ChainPages
<1>4. \A x \in 1..n : s[x] # i
  BY <1>3
<1>5. Len(l.arena) \in Nat /\ DOMAIN l.arena = 1..Len(l.arena)
  BY DEF LinkedList
<1>6. Used \in SUBSET DOMAIN l.arena /\ \A j \in Used : l.arena[j] = arena[j]
  BY <1>1, <1>5 DEF AgreeExcept
<1>7. Chain(l, n, s)
  <2>1. Chain(List, n, s)
    BY DEF ChainInv
  <2>2. l.arena[i].prev = 0 /\ l.arena[i].next = 0
    BY DEF Node
  <2>3. QED
    BY <1>1, <1>4, <2>1, <2>2, ChainFrame
<1>8. Mirror(Used, l)
  <2>1. Mirror(Used, List)
    BY DEF LruInv
  <2>2. QED
    BY <1>1, <1>6, <2>1, MirrorFrame DEF AgreeExcept
<1>9. /\ m \in LinkedList /\ Len(m.arena) = Len(l.arena)
      /\ \A j \in DOMAIN l.arena : m.arena[j].page = l.arena[j].page
  BY <1>6, <1>8, InsertMirrors
<1>10. Prefixed(n, s, i, u)
  BY WithPrefixes
<1> HIDE DEF u
<1>11. Chain(m, n + 1, u)
  BY <1>4, <1>7, <1>9, <1>10, InsertChain
<1>12. Used' = SlotsOf(n + 1, u)
  <2>1. SlotsOf(n + 1, u) = SlotsOf(n, s) \cup {i}
    BY <1>2, <1>10, PrefixedRange
  <2>2. QED
    BY <2>1 DEF ChainInv
<1> HIDE DEF m
<1>13. List' = m /\ arena' = m.arena
  BY <1>9, BecomesList DEF Becomes, m
<1>14. ChainInv(n + 1, u)'
  BY <1>11, <1>12, <1>13 DEF ChainInv
<1>15. arena'[i].page = p
  BY <1>9, <1>13 DEF Node
<1>16. \A x \in 1..n : arena'[s[x]].page = arena[s[x]].page
  BY <1>3, <1>6, <1>9, <1>13
<1>17. QED
  BY <1>14, <1>15, <1>16 DEF u

\* A new page brings its slot.
LEMMA UsedGrows ==
    ASSUME LruInv, NEW p \in Pages, NEW i, i # 0, pages[p] = 0, pages' = [pages EXCEPT ![p] = i]
    PROVE  Used' = Used \cup {i}
<1>1. pages'[p] = i /\ \A q \in Pages : q # p => pages'[q] = pages[q]
  BY DEF LruInv, LruTypeOK
<1>2. Tracked' = Tracked \cup {p} /\ p \notin Tracked
  BY <1>1 DEF Tracked
<1>3. \A q \in Tracked : q \in Pages /\ q # p /\ pages'[q] = pages[q]
  BY <1>1, <1>2 DEF Tracked
<1>4. QED
  BY <1>1, <1>2, <1>3 DEF Used

-----------------------------------------------------------------------------
(* The steps of the abstract list. *)

\* LruList's order without the page at k.
LEMMA OthersOf ==
    ASSUME NEW n \in Nat, Injective(Order, n), Order \in Seq(Pages), Len(Order) = n,
           NEW k \in 1..n
    PROVE  Order[k] \in Abstract!Tracked /\ Abstract!Others(Order[k]) = Without(n, Order, k)
<1>1. DOMAIN Order = 1..n
  OBVIOUS
<1>2. Order[k] \in Abstract!Tracked
  BY <1>1 DEF Abstract!Tracked
<1> DEFINE at == CHOOSE i \in DOMAIN Order : Order[i] = Order[k]
<1>3. at \in DOMAIN Order /\ Order[at] = Order[k]
  BY <1>1
<1> HIDE DEF at
<1>4. at = k
  BY <1>1, <1>3 DEF Injective
<1>5. Abstract!Others(Order[k])
        = [i \in 1..(Len(Order) - 1) |-> Order[IF i < at THEN i ELSE i + 1]]
  BY <1>2 DEF Abstract!Others, at
<1>6. \A j \in 1..(n - 1) :
        Order[IF j < k THEN j ELSE j + 1] = IF j < k THEN Order[j] ELSE Order[j + 1]
  OBVIOUS
<1>7. QED
  BY <1>2, <1>4, <1>5, <1>6 DEF Without

\* LruList's order when the page is not in it.
LEMMA OthersAbsent ==
    ASSUME NEW n \in Nat, NEW o, Order = [x \in 1..n |-> o[x]],
           NEW p, \A x \in 1..n : o[x] # p
    PROVE  p \notin Abstract!Tracked /\ Abstract!Others(p) = Order
<1>1. DOMAIN Order = 1..n /\ \A x \in 1..n : Order[x] = o[x]
  OBVIOUS
<1>2. p \notin Abstract!Tracked
  BY <1>1 DEF Abstract!Tracked
<1>3. QED
  BY <1>2 DEF Abstract!Others

\* A hit is an access of a page of the order.
LEMMA HitStep ==
    ASSUME LruInv, LruInv', Mapped, Mapped', NEW n, NEW s, ChainInv(n, s),
           NEW p \in Pages, AccessHit(p)
    PROVE  HasChain' /\ Abstract!Access(p)
<1>1. /\ n \in Nat
      /\ \A x \in 1..n : s[x] \in 1..Len(arena) /\ arena[s[x]].page \in Tracked
      /\ \A x, y \in 1..n : arena[s[x]].page = arena[s[y]].page => x = y
  BY ChainPages
<1>2. PICK k \in 1..n : arena[s[k]].page = p
  <2>1. p \in Tracked
    BY DEF AccessHit, Tracked
  <2>2. QED
    BY <2>1, ChainPages
<1> DEFINE t == Without(n, s, k)
           u == With(n - 1, t, s[k])
           o == [x \in 1..n |-> arena[s[x]].page]
<1>3. ChainInv(n, u)' /\ \A j \in 1..Len(arena) : arena'[j].page = arena[j].page
  BY <1>2, AccessHitChain
<1>4. Read(n, s) /\ Read(n, u)'
  BY <1>3 DEF Mapped
<1>5. /\ Order = o /\ Order \in Seq(Pages) /\ Len(Order) = n
      /\ Order' = [x \in 1..n |-> arena'[u[x]].page] /\ Order' \in Seq(Pages) /\ Len(Order') = n
  BY <1>4 DEF Read
<1>6. /\ \A x \in 1..(n - 1) : t[x] = IF x < k THEN s[x] ELSE s[x + 1]
      /\ \A x \in 1..((n - 1) + 1) : u[x] = IF x = 1 THEN s[k] ELSE t[x - 1]
  BY DEF With, Without
<1> HIDE DEF t, u
<1>7. Order[k] \in Abstract!Tracked /\ Abstract!Others(Order[k]) = Without(n, Order, k)
  <2>1. Injective(Order, n)
    BY <1>1, <1>5 DEF Injective
  <2>2. QED
    BY <1>1, <1>5, <2>1, OthersOf
<1>8. o[k] = p /\ \A x \in 1..n : o[x] = arena[s[x]].page /\ o[x] \in Pages
  BY <1>1, <1>2 DEF Tracked
<1> DEFINE a == Abstract!Others(p)
<1>9. /\ a = [j \in 1..(n - 1) |-> IF j < k THEN o[j] ELSE o[j + 1]]
      /\ p \in Abstract!Tracked
  <2>1. a = Without(n, o, k) /\ p \in Abstract!Tracked
    <3> HIDE DEF o
    <3>1. QED
      BY <1>5, <1>7, <1>8
  <2>2. QED
    BY <2>1 DEF Without
<1> HIDE DEF o, a
<1>10. a \in Seq(Pages) /\ Len(a) = n - 1 /\ n - 1 \in Nat
  <2>1. n - 1 \in Nat /\ a \in [1..(n - 1) -> Pages]
    BY <1>1, <1>8, <1>9
  <2>2. QED
    BY <2>1, FunctionIsSeq
<1>11. Order'[1] = p /\ \A j \in 1..(n - 1) : Order'[j + 1] = a[j]
  <2>1. Order'[1] = p
    <3>1. 1 \in 1..n /\ 1 \in 1..((n - 1) + 1)
      BY <1>1
    <3>2. u[1] = s[k]
      BY <1>6, <3>1
    <3>3. QED
      BY <1>1, <1>2, <1>3, <1>5, <3>1, <3>2
  <2>2. ASSUME NEW j \in 1..(n - 1) PROVE Order'[j + 1] = a[j]
    <3>1. j + 1 \in 1..n /\ j + 1 \in 1..((n - 1) + 1) /\ j + 1 # 1 /\ (j + 1) - 1 = j /\ j \in 1..n
      BY <1>1
    <3>2. u[j + 1] = IF j < k THEN s[j] ELSE s[j + 1]
      BY <1>6, <3>1
    <3>3. Order'[j + 1] = arena'[u[j + 1]].page
      BY <1>5, <3>1
    <3>4. a[j] = IF j < k THEN o[j] ELSE o[j + 1]
      BY <1>9
    <3>5. CASE j < k
      BY <1>1, <1>3, <1>8, <3>1, <3>2, <3>3, <3>4, <3>5
    <3>6. CASE ~(j < k)
      BY <1>1, <1>3, <1>8, <3>1, <3>2, <3>3, <3>4, <3>6
    <3>7. QED
      BY <3>5, <3>6
  <2>3. QED
    BY <2>1, <2>2
<1>12. Order' = <<p>> \o a
  <2>1. Len(Order') = (n - 1) + 1
    BY <1>1, <1>5
  <2>2. QED
    BY <1>5, <1>10, <1>11, <2>1, PrefixedSeq
<1>13. curr = 0 /\ curr' = curr /\ keep' = keep
  BY DEF AccessHit, Idle
<1>14. Abstract!Access(p)
  BY <1>9, <1>12, <1>13 DEF Abstract!Access, a
<1>15. QED
  BY <1>3, <1>14 DEF HasChain

\* The page and slot of a new page come to the front of the order.
LEMMA EnterStep ==
    ASSUME LruInv, LruInv', Mapped, Mapped', NEW n, NEW s, ChainInv(n, s),
           NEW p \in Pages, p \notin Tracked, Cardinality(Tracked) < Capacity,
           NEW i, ChainInv(n + 1, With(n, s, i))', arena'[i].page = p,
           \A x \in 1..n : arena'[s[x]].page = arena[s[x]].page,
           curr = 0, curr' = 0, keep' = keep
    PROVE  HasChain' /\ Abstract!Access(p)
<1> DEFINE u == With(n, s, i)
           o == [x \in 1..n |-> arena[s[x]].page]
<1>1. /\ n \in Nat /\ Cardinality(Tracked) = n
      /\ \A x \in 1..n : arena[s[x]].page \in Tracked
  BY ChainPages
<1>2. Read(n, s) /\ Read(n + 1, u)'
  BY DEF Mapped
<1>3. /\ Order = o /\ Order \in Seq(Pages) /\ Len(Order) = n
      /\ Order' = [x \in 1..(n + 1) |-> arena'[u[x]].page]
      /\ Order' \in Seq(Pages) /\ Len(Order') = n + 1
  BY <1>2 DEF Read
<1>4. \A x \in 1..(n + 1) : u[x] = IF x = 1 THEN i ELSE s[x - 1]
  BY DEF With
<1> HIDE DEF u
<1>5. p \notin Abstract!Tracked /\ Abstract!Others(p) = Order
  <2>1. Order = [x \in 1..n |-> o[x]] /\ \A x \in 1..n : o[x] # p
    BY <1>1, <1>3
  <2> HIDE DEF o
  <2>2. QED
    BY <1>1, <2>1, OthersAbsent
<1>6. Order'[1] = p
  <2>1. 1 \in 1..(n + 1) /\ u[1] = i
    BY <1>1, <1>4
  <2>2. QED
    BY <1>3, <2>1
<1>7. ASSUME NEW j \in 1..n PROVE Order'[j + 1] = Order[j]
  <2>1. j + 1 \in 1..(n + 1) /\ j + 1 # 1 /\ (j + 1) - 1 = j
    BY <1>1
  <2>2. u[j + 1] = s[j]
    BY <1>4, <2>1
  <2>3. Order'[j + 1] = arena'[s[j]].page
    BY <1>3, <2>1, <2>2
  <2>4. QED
    BY <1>3, <2>3
<1>8. Order' = <<p>> \o Order
  BY <1>1, <1>3, <1>6, <1>7, PrefixedSeq
<1>9. Len(Order) < Capacity
  BY <1>1, <1>3
<1>10. Abstract!Access(p)
  BY <1>5, <1>8, <1>9 DEF Abstract!Access
<1>11. QED
  BY <1>10 DEF HasChain

\* A miss in a free slot, and one in a new slot, are accesses of a new page.
LEMMA ReuseStep ==
    ASSUME LruInv, LruInv', Mapped, Mapped', NEW n, NEW s, ChainInv(n, s),
           NEW p \in Pages, AccessReuse(p)
    PROVE  HasChain' /\ Abstract!Access(p)
<1>1. PICK i : i = free[Len(free)]
  OBVIOUS
<1> DEFINE l == [List EXCEPT !.arena[i] = Node(p)]
<1>2. /\ List \in LinkedList
      /\ List.arena = arena /\ List.head = head /\ List.tail = tail
      /\ Len(arena) \in Nat /\ DOMAIN arena = 1..Len(arena)
      /\ Used \in SUBSET DOMAIN arena
  BY ListFacts DEF LruInv
<1>3. free \in Seq(Nat) /\ Len(free) \in DOMAIN free
  BY DEF LruInv, LruTypeOK, AccessReuse
<1>4. i \in DOMAIN arena /\ \A q \in Pages : pages[q] # i
  BY <1>1, <1>3 DEF LruInv, SlotsPartition, Slots
<1>5. i \notin Used
  BY <1>4 DEF Used, Tracked
<1>6. Node(p) \in LruNode
  BY DEF Node, LruNode
<1>7. /\ l \in LinkedList /\ l.head = head /\ l.tail = tail
      /\ l.arena = [arena EXCEPT ![i] = Node(p)]
  BY <1>2, <1>4, <1>6 DEF LinkedList
<1>8. /\ Len(l.arena) = Len(arena) /\ DOMAIN l.arena = DOMAIN arena /\ l.arena[i] = Node(p)
      /\ \A j \in DOMAIN l.arena : j # i => j \in DOMAIN arena /\ l.arena[j] = arena[j]
  BY <1>2, <1>4, <1>7 DEF LinkedList
<1>9. /\ pages[p] = 0 /\ pages' = [pages EXCEPT ![p] = i] /\ Cardinality(Tracked) < Capacity
      /\ Becomes(insert_head(l, i)) /\ curr = 0 /\ curr' = 0 /\ keep' = keep
  BY <1>1 DEF AccessReuse, Idle
<1>10. Used' = Used \cup {i}
  <2>1. i # 0
    BY <1>2, <1>4
  <2>2. QED
    BY <1>9, <2>1, UsedGrows
<1> HIDE DEF l
<1>11. /\ ChainInv(n + 1, With(n, s, i))' /\ arena'[i].page = p
       /\ \A x \in 1..n : arena'[s[x]].page = arena[s[x]].page
  <2>1. AgreeExcept(List, l, i)
    BY <1>2, <1>7, <1>8 DEF AgreeExcept
  <2>2. i \in DOMAIN l.arena /\ l \in LinkedList /\ l.arena[i] = Node(p)
    BY <1>4, <1>7, <1>8
  <2>3. Becomes(insert_head(l, i)) /\ curr = 0 /\ curr' = 0
    BY <1>9
  <2>4. QED
    BY <1>5, <1>10, <2>1, <2>2, <2>3, EntersChain
<1>12. p \notin Tracked
  BY <1>9 DEF Tracked
<1>13. QED
  BY <1>9, <1>11, <1>12, EnterStep

LEMMA PushStep ==
    ASSUME LruInv, LruInv', Mapped, Mapped', NEW n, NEW s, ChainInv(n, s),
           NEW p \in Pages, AccessPush(p)
    PROVE  HasChain' /\ Abstract!Access(p)
<1>1. PICK i : i = Len(arena) + 1
  OBVIOUS
<1> DEFINE l == [List EXCEPT !.arena = Append(arena, Node(p))]
<1>2. /\ List \in LinkedList
      /\ List.arena = arena /\ List.head = head /\ List.tail = tail
      /\ Len(arena) \in Nat /\ DOMAIN arena = 1..Len(arena)
      /\ Used \in SUBSET DOMAIN arena
  BY ListFacts DEF LruInv
<1>3. Node(p) \in LruNode
  BY DEF Node, LruNode
<1>4. /\ l \in LinkedList /\ l.head = head /\ l.tail = tail
      /\ l.arena = Append(arena, Node(p))
  BY <1>2, <1>3, SMTT(30) DEF LinkedList
<1>5. /\ Len(l.arena) = i /\ DOMAIN l.arena = 1..i /\ l.arena[i] = Node(p)
      /\ \A j \in DOMAIN l.arena : j # i => j \in DOMAIN arena /\ l.arena[j] = arena[j]
  BY <1>1, <1>2, <1>3, <1>4 DEF LinkedList
<1>6. i \in DOMAIN l.arena /\ i \notin Used /\ Len(arena) <= Len(l.arena) /\ i # 0
  BY <1>1, <1>2, <1>5
<1>7. /\ pages[p] = 0 /\ pages' = [pages EXCEPT ![p] = i] /\ Cardinality(Tracked) < Capacity
      /\ Becomes(insert_head(l, i)) /\ curr = 0 /\ curr' = 0 /\ keep' = keep
  BY <1>1 DEF AccessPush, Idle
<1>8. Used' = Used \cup {i}
  BY <1>6, <1>7, UsedGrows
<1> HIDE DEF l
<1>9. /\ ChainInv(n + 1, With(n, s, i))' /\ arena'[i].page = p
      /\ \A x \in 1..n : arena'[s[x]].page = arena[s[x]].page
  <2>1. AgreeExcept(List, l, i)
    BY <1>2, <1>4, <1>5, <1>6 DEF AgreeExcept
  <2>2. QED
    BY <1>4, <1>5, <1>6, <1>7, <1>8, <2>1, EntersChain
<1>10. p \notin Tracked
  BY <1>7 DEF Tracked
<1>11. QED
  BY <1>7, <1>9, <1>10, EnterStep

\* A released slot takes its page out of the order.
LEMMA ReleaseOrder ==
    ASSUME LruInv, LruInv', Mapped, Mapped', NEW n, NEW s, ChainInv(n, s), NEW k \in 1..n,
           Release(arena[s[k]].page, s[k]), curr' = 0
    PROVE  /\ HasChain'
           /\ arena[s[k]].page \in Abstract!Tracked
           /\ Order' = Abstract!Others(arena[s[k]].page)
<1> DEFINE t == Without(n, s, k)
<1>1. /\ n \in Nat /\ \A x \in 1..n : s[x] \in 1..Len(arena)
      /\ \A x, y \in 1..n : arena[s[x]].page = arena[s[y]].page => x = y
  BY ChainPages
<1>2. ChainInv(n - 1, t)' /\ \A j \in 1..Len(arena) : arena'[j].page = arena[j].page
  BY ReleaseChain
<1>3. Read(n, s) /\ Read(n - 1, t)'
  BY <1>2 DEF Mapped
<1>4. /\ Order \in Seq(Pages) /\ Len(Order) = n
      /\ \A x \in 1..n : Order[x] = arena[s[x]].page
      /\ Order' = [x \in 1..(n - 1) |-> arena'[t[x]].page]
  BY <1>3 DEF Read
<1>5. Order[k] \in Abstract!Tracked /\ Abstract!Others(Order[k]) = Without(n, Order, k)
  <2>1. Injective(Order, n)
    BY <1>1, <1>4, SMTT(30) DEF Injective
  <2>2. QED
    BY <1>1, <1>4, <2>1, OthersOf
<1>6. \A x \in 1..(n - 1) : t[x] = IF x < k THEN s[x] ELSE s[x + 1]
  BY DEF Without
<1> HIDE DEF t
<1>7. ASSUME NEW x \in 1..(n - 1)
      PROVE  arena'[t[x]].page = IF x < k THEN Order[x] ELSE Order[x + 1]
  <2>1. x \in 1..n /\ x + 1 \in 1..n
    BY <1>1
  <2>2. \A y \in 1..n : arena'[s[y]].page = Order[y]
    BY <1>1, <1>2, <1>4
  <2>3. t[x] = IF x < k THEN s[x] ELSE s[x + 1]
    BY <1>6
  <2>4. QED
    BY <2>1, <2>2, <2>3
<1>8. Order' = Without(n, Order, k)
  BY <1>4, <1>7 DEF Without
<1>9. Order[k] = arena[s[k]].page
  BY <1>4
<1>10. QED
  BY <1>2, <1>5, <1>8, <1>9 DEF HasChain

\* Every step of the replacer keeps the list a list, and is a step of LruList
\* or changes nothing there.
LEMMA StepRefines ==
    ASSUME LruInv, LruInv', HasChain, Mapped, Mapped', [Next]_lruVars
    PROVE  HasChain' /\ [Abstract!Next]_Abstract!vars
<1>1. PICK n, s : ChainInv(n, s)
  BY DEF HasChain
<1>2. /\ n \in Nat
      /\ \A x \in 1..n : /\ s[x] \in 1..Len(arena) /\ arena[s[x]].page \in Tracked
                         /\ pages[arena[s[x]].page] = s[x]
      /\ \A x, y \in 1..n : s[x] = s[y] => x = y
      /\ \A p \in Tracked : \E x \in 1..n : s[x] = pages[p] /\ arena[s[x]].page = p
  BY <1>1, ChainPages
<1>3. /\ Order \in Seq(Pages) /\ Len(Order) = n /\ DOMAIN Order = 1..n
      /\ \A x \in 1..n : Order[x] = arena[s[x]].page
  <2>1. Read(n, s)
    BY <1>1 DEF Mapped
  <2>2. QED
    BY <2>1 DEF Read
<1>4. /\ head = (IF n > 0 THEN s[1] ELSE 0) /\ tail = (IF n > 0 THEN s[n] ELSE 0)
      /\ \A x \in 1..n : arena[s[x]].prev = IF x > 1 THEN s[x - 1] ELSE 0
  <2>1. /\ List \in LinkedList /\ List.arena = arena /\ List.head = head /\ List.tail = tail
    BY ListFacts DEF LruInv
  <2>2. Linked(Len(arena), NextsOf(List), PrevsOf(List), head, tail, n, s)
    BY <1>1, <2>1 DEF ChainInv, Chain
  <2>3. \A j \in 1..Len(arena) : PrevsOf(List)[j] = arena[j].prev
    BY <2>1, LinksOf
  <2>4. QED
    BY <1>2, <2>2, <2>3 DEF Linked
<1>5. ASSUME NEW p \in Pages, AccessHit(p) PROVE HasChain' /\ [Abstract!Next]_Abstract!vars
  <2>1. HasChain' /\ Abstract!Access(p)
    BY <1>1, <1>5, HitStep
  <2>2. QED
    BY <2>1 DEF Abstract!Next
<1>6. ASSUME NEW p \in Pages, AccessReuse(p) PROVE HasChain' /\ [Abstract!Next]_Abstract!vars
  <2>1. HasChain' /\ Abstract!Access(p)
    BY <1>1, <1>6, ReuseStep
  <2>2. QED
    BY <2>1 DEF Abstract!Next
<1>7. ASSUME NEW p \in Pages, AccessPush(p) PROVE HasChain' /\ [Abstract!Next]_Abstract!vars
  <2>1. HasChain' /\ Abstract!Access(p)
    BY <1>1, <1>7, PushStep
  <2>2. QED
    BY <2>1 DEF Abstract!Next
<1>8. ASSUME NEW p \in Pages, Remove(p) PROVE HasChain' /\ [Abstract!Next]_Abstract!vars
  <2>1. p \in Tracked /\ Release(p, pages[p]) /\ curr = 0 /\ curr' = 0 /\ keep' = keep
    BY <1>8 DEF Remove, Idle, Tracked
  <2>2. PICK k \in 1..n : s[k] = pages[p] /\ arena[s[k]].page = p
    BY <1>2, <2>1
  <2>3. HasChain' /\ p \in Abstract!Tracked /\ Order' = Abstract!Others(p)
    BY <1>1, <2>1, <2>2, ReleaseOrder
  <2>4. Abstract!Forget(p)
    BY <2>1, <2>3 DEF Abstract!Forget
  <2>5. QED
    BY <2>3, <2>4 DEF Abstract!Next
<1>9. ASSUME Order' = Order, curr' # 0, curr # 0, keep' = keep
      PROVE  UNCHANGED Abstract!vars
  BY <1>9 DEF Abstract!vars
<1>10. ASSUME NEW refused \in SUBSET Pages, EvictStart(refused)
       PROVE  HasChain' /\ [Abstract!Next]_Abstract!vars
  <2>1. /\ pages' = pages /\ arena' = arena /\ head' = head /\ tail' = tail /\ free' = free
        /\ curr = 0 /\ tail # 0 /\ curr' = tail /\ keep' = refused
    BY <1>10 DEF EvictStart
  <2>2. List' = List /\ Used' = Used /\ Order' = Order
    BY <2>1 DEF List, Used, Tracked, Order, Walk, Nexts, Slots
  <2>3. n > 0 /\ tail = s[n]
    BY <1>2, <1>4, <2>1
  <2>4. ChainInv(n, s)'
    BY <1>1, <1>2, <2>1, <2>2, <2>3 DEF ChainInv
  <2>5. Order # <<>>
    BY <1>3, <2>3
  <2>6. Abstract!Ask(refused)
    BY <2>1, <2>2, <2>5 DEF Abstract!Ask
  <2>7. QED
    BY <2>4, <2>6 DEF HasChain, Abstract!Next
<1>11. ASSUME curr # 0
       PROVE  \E x \in 1..n : s[x] = curr /\ \A y \in 1..n : y > x => arena[s[y]].page \in keep
  BY <1>1, <1>11 DEF ChainInv
<1>12. CASE EvictSkip
  <2>1. /\ pages' = pages /\ arena' = arena /\ head' = head /\ tail' = tail /\ free' = free
        /\ curr # 0 /\ arena[curr].page \in keep /\ curr' = arena[curr].prev
        /\ keep' = IF curr' = 0 THEN {} ELSE keep
    BY <1>12 DEF EvictSkip
  <2>2. List' = List /\ Used' = Used /\ Order' = Order
    BY <2>1 DEF List, Used, Tracked, Order, Walk, Nexts, Slots
  <2>3. PICK x \in 1..n : s[x] = curr /\ \A y \in 1..n : y > x => arena[s[y]].page \in keep
    BY <1>11, <2>1
  <2>4. curr' = IF x > 1 THEN s[x - 1] ELSE 0
    BY <1>4, <2>1, <2>3
  <2>5. \A y \in 1..n : y >= x => arena[s[y]].page \in keep
    BY <2>1, <2>3
  <2>6. CASE x = 1
    <3>1. curr' = 0 /\ keep' = {}
      BY <2>1, <2>4, <2>6
    <3>2. ChainInv(n, s)'
      BY <1>1, <2>2, <3>1 DEF ChainInv
    <3>3. Abstract!Tracked \subseteq keep
      BY <1>3, <2>5, <2>6 DEF Abstract!Tracked
    <3>4. Abstract!Refuse
      BY <2>1, <2>2, <3>1, <3>3 DEF Abstract!Refuse, Abstract!Answer
    <3>5. QED
      BY <3>2, <3>4 DEF HasChain, Abstract!Next
  <2>7. CASE x # 1
    <3>1. x - 1 \in 1..n /\ curr' = s[x - 1] /\ curr' # 0 /\ keep' = keep
      BY <1>2, <2>1, <2>4, <2>7
    <3>2. \A y \in 1..n : y > x - 1 => arena'[s[y]].page \in keep'
      BY <2>1, <2>5, <3>1
    <3>3. ChainInv(n, s)'
      BY <1>1, <2>2, <3>1, <3>2 DEF ChainInv
    <3>4. UNCHANGED Abstract!vars
      BY <1>9, <2>1, <2>2, <3>1
    <3>5. QED
      BY <3>3, <3>4 DEF HasChain
  <2>8. QED
    BY <2>6, <2>7
<1>13. CASE EvictTake
  <2>1. /\ curr # 0 /\ arena[curr].page \notin keep /\ Release(arena[curr].page, curr)
        /\ curr' = 0 /\ keep' = {}
    BY <1>13 DEF EvictTake
  <2>2. PICK x \in 1..n : s[x] = curr /\ \A y \in 1..n : y > x => arena[s[y]].page \in keep
    BY <1>11, <2>1
  <2>3. HasChain' /\ Order' = Abstract!Others(arena[s[x]].page)
    BY <1>1, <2>1, <2>2, ReleaseOrder
  <2>4. /\ x \in DOMAIN Order /\ Order[x] \notin keep /\ Order' = Abstract!Others(Order[x])
        /\ \A y \in DOMAIN Order : y > x => Order[y] \in keep
    BY <1>3, <2>1, <2>2, <2>3
  <2>5. Abstract!Evict
    BY <2>1, <2>4 DEF Abstract!Evict, Abstract!Answer
  <2>6. QED
    BY <2>3, <2>5 DEF Abstract!Next
<1>14. CASE UNCHANGED lruVars
  <2>1. /\ pages' = pages /\ arena' = arena /\ head' = head /\ tail' = tail /\ free' = free
        /\ curr' = curr /\ keep' = keep
    BY <1>14 DEF lruVars
  <2>2. List' = List /\ Used' = Used /\ Order' = Order
    BY <2>1 DEF List, Used, Tracked, Order, Walk, Nexts, Slots
  <2>3. ChainInv(n, s)'
    BY <1>1, <2>1, <2>2 DEF ChainInv
  <2>4. UNCHANGED Abstract!vars
    BY <2>1, <2>2 DEF Abstract!vars
  <2>5. QED
    BY <2>3, <2>4 DEF HasChain
<1>15. QED
  BY <1>5, <1>6, <1>7, <1>8, <1>10, <1>12, <1>13, <1>14 DEF Next

\* A new replacer has an empty list.
LEMMA InitHasChain ==
    ASSUME Init, LruInv
    PROVE  ChainInv(0, <<>>)
<1>1. Used = {} /\ SlotsOf(0, <<>>) = {}
  BY DEF Init, Used, Tracked, SlotsOf
<1>2. Len(arena) = 0 /\ head = 0 /\ tail = 0 /\ curr = 0
  BY DEF Init
<1>3. Linked(0, NextsOf(List), PrevsOf(List), 0, 0, 0, <<>>)
  BY DEF Linked, Injective
<1>4. Chain(List, 0, <<>>)
  BY <1>2, <1>3 DEF Chain, List
<1>5. QED
  BY <1>1, <1>2, <1>4 DEF ChainInv

-----------------------------------------------------------------------------
(* The theorems. *)

ListInv == LruInv /\ HasChain /\ Mapped

\* The list is a list in every reachable state.
LEMMA ListInvariance == Spec => []ListInv
<1>1. Init => ListInv
  BY InitInv, InitHasChain, InvReads DEF ListInv, HasChain
<1>2. LruInv => Mapped
  BY InvReads
<1>3. ListInv /\ LruInv' /\ Mapped' /\ [Next]_lruVars => ListInv'
  BY StepRefines DEF ListInv
<1>4. ListInv => LruInv
  BY DEF ListInv
<1>5. QED
  BY <1>1, <1>2, <1>3, <1>4, StepInv, PTL DEF Spec

\* Walking back from the tail always yields the pages of the forward walk in
\* the opposite order, cut at the limit: peek_rev(limit) hands the flusher the
\* pages an eviction would try first, for every capacity and history.
THEOREM PeekReadsOldestFirst == Spec => []PeekIsOldestFirst
<1>1. ListInv => PeekIsOldestFirst
  <2> SUFFICES ASSUME ListInv PROVE PeekIsOldestFirst
    OBVIOUS
  <2>1. PICK n, s : ChainInv(n, s)
    BY DEF ListInv, HasChain
  <2>2. Read(n, s) /\ n \in Nat /\ Len(arena) \in Nat
    BY <2>1, ChainPages, ListFacts DEF ListInv, Mapped, LruInv
  <2>3. Len(Order) = n /\ \A x \in 1..n : Order[x] = arena[s[x]].page
    BY <2>2 DEF Read
  <2>4. ASSUME NEW limit \in 0..Len(arena)
        PROVE  peek_rev(limit) = [k \in 1..(IF limit < n THEN limit ELSE n) |-> Order[n + 1 - k]]
    <3>1. limit \in Nat
      BY <2>2
    <3>2. peek_rev(limit) = [k \in 1..Shorter(limit, n) |-> arena[s[n + 1 - k]].page]
      BY <2>2, <3>1 DEF Read
    <3>3. \A k \in 1..Shorter(limit, n) : n + 1 - k \in 1..n
      BY <2>2, <3>1 DEF Shorter
    <3>4. \A k \in 1..Shorter(limit, n) : arena[s[n + 1 - k]].page = Order[n + 1 - k]
      BY <2>3, <3>3
    <3>5. QED
      BY <3>2, <3>4 DEF Shorter
  <2>5. QED
    BY <2>3, <2>4 DEF PeekIsOldestFirst
<1>2. QED
  BY <1>1, ListInvariance, PTL

\* The arena list implements the list of recency LruList, for every capacity
\* and every set of pages: accesses move pages to the front, reused slots
\* leave no trace, and evict_if takes the oldest page its predicate accepts.
THEOREM ListRefinement == Spec => ImplementsLruList
<1>1. Init => Abstract!Init
  <2> SUFFICES ASSUME Init PROVE Abstract!Init
    OBVIOUS
  <2>1. LruInv /\ Mapped
    BY InitInv, InvReads
  <2>2. Read(0, <<>>)
    BY <2>1, InitHasChain DEF Mapped
  <2>3. Order = <<>>
    BY <2>2 DEF Read
  <2>4. QED
    BY <2>3 DEF Init, Abstract!Init
<1>2. ListInv /\ ListInv' /\ [Next]_lruVars => [Abstract!Next]_Abstract!vars
  BY StepRefines DEF ListInv
<1>3. QED
  BY <1>1, <1>2, ListInvariance, PTL DEF Spec, ImplementsLruList, Abstract!Spec
=============================================================================
