----------------------------- MODULE Recursion -----------------------------
(***************************************************************************)
(* Recursion over the natural numbers: a function that is defined by its   *)
(* value at 0 and by a step satisfies its equations.  The library states   *)
(* this for an operator parameter; here the base and the step are          *)
(* constants, which an INSTANCE gives their values, so that the fact can   *)
(* be cited for every recursive function of the project.                   *)
(***************************************************************************)
EXTENDS Naturals, TLAPS, WellFoundedInduction

CONSTANTS
    Base,        \* the value at 0
    Step(_, _)   \* the value at n + 1, from n and the value at n

Rec[n \in Nat] == IF n = 0 THEN Base ELSE Step(n - 1, Rec[n - 1])

\* Every set of natural numbers that has a member has a least one.
LEMMA LeastNat ==
    ASSUME NEW T, T \subseteq Nat, T # {}
    PROVE  \E m \in T : \A k \in T : m <= k
<1> DEFINE R == OpToRel(<, Nat)
<1>1. IsWellFoundedOn(R, Nat)
  BY NatLessThanWellFounded
<1>2. \A x, y \in Nat : x < y => <<x, y>> \in R
  BY DEF OpToRel
<1> HIDE DEF R
<1>3. PICK m \in T : \A k \in T : ~(<<k, m>> \in R)
  BY <1>1, WFMin
<1>4. ASSUME NEW k \in T PROVE m <= k
  <2>1. m \in Nat /\ k \in Nat /\ ~(k < m)
    BY <1>2, <1>3
  <2> QED BY <2>1
<1> QED BY <1>4

\* A set of numbers that has 0 and the next of each has all numbers.
LEMMA AllNat ==
    ASSUME NEW T, 0 \in T, \A k \in Nat : k \in T => k + 1 \in T
    PROVE  Nat \subseteq T
<1> DEFINE Bad == Nat \ T
<1>1. ASSUME Bad # {} PROVE FALSE
  <2>1. Bad \subseteq Nat
    OBVIOUS
  <2>2. PICK m \in Bad : \A k \in Bad : m <= k
    BY <1>1, <2>1, LeastNat
  <2>3. m \in Nat /\ m # 0 /\ m \notin T
    BY <2>2
  <2>4. m - 1 \in Nat /\ (m - 1) + 1 = m /\ ~(m <= m - 1)
    BY <2>3
  <2>5. m - 1 \in T
    BY <2>2, <2>4
  <2> QED BY <2>3, <2>4, <2>5
<1> QED BY <1>1

\* A function that follows the equations up to n.
Upto(n, h) ==
    /\ h = [k \in 0..n |-> h[k]]
    /\ h[0] = Base
    /\ \A k \in 0..n : k # n => h[k + 1] = Step(k, h[k])

\* Two functions that follow the equations agree as far as both go.
LEMMA UptoAgree ==
    ASSUME NEW m \in Nat, NEW n \in Nat, NEW g, NEW h, Upto(m, g), Upto(n, h),
           m <= n
    PROVE  \A k \in 0..m : g[k] = h[k]
<1> DEFINE T == {k \in Nat : k <= m => g[k] = h[k]}
<1>1. 0 \in T
  BY DEF Upto
<1>2. ASSUME NEW k \in Nat, k \in T PROVE k + 1 \in T
  <2>1. SUFFICES ASSUME k + 1 <= m PROVE g[k + 1] = h[k + 1]
    OBVIOUS
  <2>2. k \in 0..m /\ k # m /\ k \in 0..n /\ k # n /\ g[k] = h[k]
    BY <1>2, <2>1
  <2>3. g[k + 1] = Step(k, g[k]) /\ h[k + 1] = Step(k, h[k])
    BY <2>2 DEF Upto
  <2> QED BY <2>2, <2>3
<1>3. Nat \subseteq T
  <2> HIDE DEF T
  <2> QED BY <1>1, <1>2, AllNat
<1> QED BY <1>3

\* There is such a function for every n.
LEMMA UptoExists == \A n \in Nat : \E h : Upto(n, h)
<1> DEFINE T == {n \in Nat : \E h : Upto(n, h)}
<1>1. 0 \in T
  <2> DEFINE h == [k \in 0..0 |-> Base]
  <2>1. Upto(0, h)
    BY DEF Upto
  <2> QED BY <2>1
<1>2. ASSUME NEW n \in Nat, n \in T PROVE n + 1 \in T
  <2>1. PICK g : Upto(n, g)
    BY <1>2
  <2> DEFINE h == [k \in 0..(n + 1) |-> IF k = n + 1 THEN Step(n, g[n]) ELSE g[k]]
  <2>2. h[0] = Base
    BY <2>1 DEF Upto
  <2>3. ASSUME NEW k \in 0..(n + 1), k # n + 1 PROVE h[k + 1] = Step(k, h[k])
    <3>1. CASE k = n
      BY <3>1
    <3>2. CASE k # n
      <4>1. k \in 0..n /\ k + 1 \in 0..(n + 1) /\ k + 1 # n + 1
        BY <2>3, <3>2
      <4>2. g[k + 1] = Step(k, g[k])
        BY <2>1, <3>2, <4>1 DEF Upto
      <4> QED BY <2>3, <4>1, <4>2
    <3> QED BY <3>1, <3>2
  <2>4. Upto(n + 1, h)
    BY <2>2, <2>3 DEF Upto
  <2> QED BY <2>4
<1>3. Nat \subseteq T
  <2> HIDE DEF T
  <2> QED BY <1>1, <1>2, AllNat
<1> QED BY <1>3

\* Rec has the value Base at 0 and goes on by Step.
THEOREM RecEquations == Rec[0] = Base /\ \A n \in Nat : Rec[n + 1] = Step(n, Rec[n])
<1> DEFINE Walk(n) == CHOOSE h : Upto(n, h)
           F == [n \in Nat |-> Walk(n)[n]]
<1>1. ASSUME NEW n \in Nat PROVE Upto(n, Walk(n))
  BY UptoExists
<1> HIDE DEF Walk
<1>2. F[0] = Base
  <2>1. Upto(0, Walk(0))
    BY <1>1
  <2> QED BY <2>1 DEF Upto
<1>3. ASSUME NEW n \in Nat PROVE F[n + 1] = Step(n, F[n])
  <2>1. Upto(n, Walk(n)) /\ Upto(n + 1, Walk(n + 1)) /\ n <= n + 1 /\ n + 1 \in Nat
    BY <1>1
  <2>2. Walk(n)[n] = Walk(n + 1)[n]
    BY <2>1, UptoAgree, n \in 0..n
  <2>3. Walk(n + 1)[n + 1] = Step(n, Walk(n + 1)[n])
    BY <2>1, n \in 0..(n + 1), n # n + 1 DEF Upto
  <2> QED BY <2>1, <2>2, <2>3
<1> DEFINE Eq(g) == g = [n \in Nat |-> IF n = 0 THEN Base ELSE Step(n - 1, g[n - 1])]
<1>4. Eq(F)
  <2>1. ASSUME NEW n \in Nat PROVE F[n] = IF n = 0 THEN Base ELSE Step(n - 1, F[n - 1])
    <3>1. CASE n = 0
      BY <1>2, <3>1
    <3>2. CASE n # 0
      <4>1. n - 1 \in Nat /\ (n - 1) + 1 = n
        BY <3>2
      <4>2. F[(n - 1) + 1] = Step(n - 1, F[n - 1])
        BY <1>3, <4>1
      <4> QED BY <3>2, <4>1, <4>2
    <3> QED BY <3>1, <3>2
  <2> QED BY <2>1
<1>5. Rec = CHOOSE g : Eq(g)
  BY DEF Rec
<1> HIDE DEF F, Eq
<1>6. Eq(Rec)
  BY <1>4, <1>5
<1>7. Rec = [n \in Nat |-> IF n = 0 THEN Base ELSE Step(n - 1, Rec[n - 1])]
  BY <1>6 DEF Eq
<1>8. ASSUME NEW n \in Nat PROVE Rec[n + 1] = Step(n, Rec[n])
  <2>1. n + 1 \in Nat /\ n + 1 # 0 /\ (n + 1) - 1 = n
    OBVIOUS
  <2> DEFINE m == n + 1
  <2>2. m \in Nat /\ m # 0 /\ m - 1 = n
    BY <2>1
  <2> HIDE DEF m
  <2>3. Rec[m] = Step(m - 1, Rec[m - 1])
    BY <1>7, <2>2
  <2>4. Rec[m] = Step(n, Rec[n])
    BY <2>2, <2>3
  <2> QED BY <2>4 DEF m
<1> QED BY <1>7, <1>8
=============================================================================
