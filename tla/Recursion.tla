------------------------------ MODULE Recursion ------------------------------
(***************************************************************************)
(* Induction over the natural numbers and recursive functions, stated over *)
(* sets and functions, so that they can be cited in first-order proofs.    *)
(***************************************************************************)
EXTENDS Integers, WellFoundedInduction, TLAPS

\* A set of numbers that holds 0 and is closed under successor holds them all.
LEMMA Induction ==
    ASSUME NEW S, 0 \in S, \A n \in Nat : n \in S => n + 1 \in S
    PROVE  \A n \in Nat : n \in S
<1>1. SUFFICES ASSUME Nat \ S # {} PROVE FALSE
  OBVIOUS
<1> DEFINE R == {ss \in Nat \X Nat : ss[1] < ss[2]}
<1>2. IsWellFoundedOn(R, Nat)
  BY NatLessThanWellFounded DEF OpToRel
<1> HIDE DEF R
<1>3. PICK m \in Nat \ S : \A k \in Nat \ S : ~(<<k, m>> \in R)
  BY <1>1, <1>2, WFMin
<1>4. m # 0 /\ m - 1 \in Nat /\ m - 1 < m /\ (m - 1) + 1 = m
  BY <1>3
<1>5. <<m - 1, m>> \in R
  BY <1>4 DEF R
<1>6. QED
  BY <1>3, <1>4, <1>5

\* The same up to a bound.
LEMMA BoundedInduction ==
    ASSUME NEW b \in Nat, NEW S, 0 \in S, \A n \in 0..(b - 1) : n \in S => n + 1 \in S
    PROVE  \A n \in 0..b : n \in S
<1> DEFINE T == {n \in Nat : n <= b => n \in S}
<1>1. 0 \in T /\ \A n \in Nat : n \in T => n + 1 \in T
  OBVIOUS
<1> HIDE DEF T
<1>2. \A n \in Nat : n \in T
  BY <1>1, Induction
<1>3. QED
  BY <1>2 DEF T

\* f starts with a and goes on with the step function g.
IsIteration(f, V, a, g) ==
    f \in [Nat -> V] /\ f[0] = a /\ \A n \in Nat : f[n + 1] = g[n][f[n]]

\* The same up to a bound, with the step that leads to n called g[n].
IsRecursive(f, b, V, a, g) ==
    f \in [0..b -> V] /\ f[0] = a /\ \A n \in 1..b : f[n] = g[n][f[n - 1]]

\* Every step function can be iterated.
LEMMA Iterates ==
    ASSUME NEW V, NEW a \in V, NEW g \in [Nat -> [V -> V]]
    PROVE  \E f : IsIteration(f, V, a, g)
<1> DEFINE Starts(n, f) == f \in [0..n -> V] /\ f[0] = a /\ \A k \in 0..(n - 1) : f[k + 1] = g[k][f[k]]
<1> DEFINE S == {n \in Nat : \E f \in [0..n -> V] : Starts(n, f)}
<1>1. 0 \in S
  <2>1. Starts(0, [k \in 0..0 |-> a])
    OBVIOUS
  <2>2. QED
    BY <2>1
<1>2. ASSUME NEW n \in Nat, n \in S PROVE n + 1 \in S
  <2>1. PICK f \in [0..n -> V] : Starts(n, f)
    BY <1>2
  <2> DEFINE e == [k \in 0..(n + 1) |-> IF k = n + 1 THEN g[n][f[n]] ELSE f[k]]
  <2>2. g[n][f[n]] \in V
    OBVIOUS
  <2>3. e \in [0..(n + 1) -> V]
    BY <2>2
  <2>4. e[n + 1] = g[n][f[n]] /\ \A k \in 0..n : e[k] = f[k]
    OBVIOUS
  <2> HIDE DEF e
  <2>5. e[0] = a
    BY <2>1, <2>4
  <2>6. ASSUME NEW k \in 0..n PROVE e[k + 1] = g[k][e[k]]
    <3>1. CASE k = n
      BY <2>4, <3>1
    <3>2. CASE k # n
      BY <2>1, <2>4, <3>2
    <3>3. QED
      BY <3>1, <3>2
  <2>7. Starts(n + 1, e)
    BY <2>3, <2>5, <2>6
  <2> HIDE DEF Starts
  <2>8. QED
    BY <2>3, <2>7
<1>3. \A n \in Nat : n \in S
  <2> HIDE DEF S
  <2>1. QED
    BY <1>1, <1>2, Induction
<1> DEFINE F == [n \in Nat |-> CHOOSE f \in [0..n -> V] : Starts(n, f)]
<1>4. \A n \in Nat : Starts(n, F[n])
  BY <1>3
<1>5. ASSUME NEW n \in Nat, NEW m \in Nat, n <= m PROVE \A k \in 0..n : F[n][k] = F[m][k]
  <2> DEFINE T == {k \in 0..n : F[n][k] = F[m][k]}
  <2>1. Starts(n, F[n]) /\ Starts(m, F[m])
    BY <1>4
  <2> HIDE DEF F
  <2>2. 0 \in T
    BY <2>1
  <2>3. ASSUME NEW k \in 0..(n - 1), k \in T PROVE k + 1 \in T
    <3>1. F[n][k + 1] = g[k][F[n][k]]
      BY <2>1
    <3>2. F[m][k + 1] = g[k][F[m][k]]
      BY <2>1, <1>5
    <3>3. QED
      BY <2>3, <3>1, <3>2
  <2> HIDE DEF T
  <2>4. \A k \in 0..n : k \in T
    BY <2>2, <2>3, BoundedInduction
  <2>5. QED
    BY <2>4 DEF T
<1> DEFINE h == [n \in Nat |-> F[n][n]]
<1>6. h \in [Nat -> V]
  <2> HIDE DEF F
  <2>1. QED BY <1>4
<1>7. h[0] = a
  <2> HIDE DEF F
  <2>1. QED BY <1>4
<1>8. ASSUME NEW n \in Nat PROVE h[n + 1] = g[n][h[n]]
  <2> HIDE DEF F
  <2>1. F[n + 1][n + 1] = g[n][F[n + 1][n]]
    BY <1>4
  <2>2. F[n][n] = F[n + 1][n]
    BY <1>5
  <2>3. QED
    BY <2>1, <2>2
<1>9. QED
  <2> HIDE DEF h
  <2>1. QED BY <1>6, <1>7, <1>8 DEF IsIteration

\* A function defined by recursion up to a bound exists.
LEMMA RecursiveFunction ==
    ASSUME NEW b \in Nat, NEW V, NEW a \in V, NEW g \in [1..b -> [V -> V]]
    PROVE  \E f : IsRecursive(f, b, V, a, g)
<1> DEFINE h == [n \in Nat |-> [v \in V |-> IF n + 1 \in 1..b THEN g[n + 1][v] ELSE a]]
<1>1. h \in [Nat -> [V -> V]]
  OBVIOUS
<1>2. \A n \in Nat, v \in V : h[n][v] = IF n + 1 \in 1..b THEN g[n + 1][v] ELSE a
  OBVIOUS
<1> HIDE DEF h
<1>3. PICK f : IsIteration(f, V, a, h)
  BY <1>1, Iterates
<1> DEFINE e == [n \in 0..b |-> f[n]]
<1>4. e \in [0..b -> V] /\ e[0] = a
  BY <1>3 DEF IsIteration
<1>5. ASSUME NEW n \in 1..b PROVE e[n] = g[n][e[n - 1]]
  <2>1. n - 1 \in Nat /\ (n - 1) + 1 = n
    OBVIOUS
  <2>2. f[n] = h[n - 1][f[n - 1]]
    BY <1>3, <2>1 DEF IsIteration
  <2>3. f[n - 1] \in V
    BY <1>3, <2>1 DEF IsIteration
  <2>4. QED
    BY <1>2, <2>1, <2>2, <2>3
<1>6. QED
  BY <1>4, <1>5 DEF IsRecursive
=============================================================================
