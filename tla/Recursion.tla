------------------------------ MODULE Recursion ------------------------------
(***************************************************************************)
(* Facts about the natural numbers that the proofs of other modules use:   *)
(* induction, stated for a set of numbers rather than for a formula, and   *)
(* that a function that is defined by recursion exists.                    *)
(***************************************************************************)
EXTENDS Integers, WellFoundedInduction, TLAPS

\* A set of naturals has a least element.
LEMMA LeastNatural ==
  ASSUME NEW S \in SUBSET Nat, S # {}
  PROVE  \E m \in S : \A n \in S : m <= n
<1>1. PICK R : R = {p \in Nat \X Nat : p[1] < p[2]}
  OBVIOUS
<1>2. IsWellFoundedOn(R, Nat)
  BY <1>1, NatLessThanWellFounded DEF OpToRel
<1>3. PICK m \in S : \A n \in S : ~(<<n, m>> \in R)
  BY <1>2, WFMin
<1>4. \A n \in S : ~(n < m)
  BY <1>1, <1>3
<1>5. QED
  BY <1>4

\* Induction: a set that has 0 and, with a number below n, the next one, has all up to n.
LEMMA UpTo ==
  ASSUME NEW n \in Nat, NEW P, 0 \in P, \A k \in 0..n - 1 : k \in P => k + 1 \in P
  PROVE  \A k \in 0..n : k \in P
<1> SUFFICES ASSUME {k \in 0..n : k \notin P} # {} PROVE FALSE
  OBVIOUS
<1>1. PICK m \in {k \in 0..n : k \notin P} : \A k \in {k \in 0..n : k \notin P} : m <= k
  <2>1. {k \in 0..n : k \notin P} \in SUBSET Nat
    OBVIOUS
  <2>2. QED
    BY <2>1, LeastNatural
<1>2. m # 0 /\ m - 1 \in 0..n - 1
  BY <1>1
<1>3. m - 1 \in P
  BY <1>1, <1>2
<1>4. QED
  BY <1>1, <1>2, <1>3

\* f is a on 0, and step of the value before it on each number up to n.
AreSteps(step, n, S) == step \in [1..n -> [S -> S]]
Unfolds(f, n, S, a, step) ==
  f \in [0..n -> S] /\ f[0] = a /\ \A k \in 1..n : f[k] = step[k][f[k - 1]]

\* A function on 0..n that is defined by recursion exists.
LEMMA RecursiveFunction ==
  ASSUME NEW S, NEW a \in S, NEW n \in Nat, NEW step, AreSteps(step, n, S)
  PROVE  \E f : Unfolds(f, n, S, a, step)
<1> USE DEF AreSteps
<1> DEFINE Good(f, m) == f[0] = a /\ \A k \in 1..m : f[k] = step[k][f[k - 1]]
           P == {m \in 0..n : \E f \in [0..m -> S] : Good(f, m)}
<1>1. 0 \in P
  <2>1. PICK f : f = [k \in 0..0 |-> a]
    OBVIOUS
  <2>2. f \in [0..0 -> S] /\ Good(f, 0)
    BY <2>1
  <2>3. QED
    BY <2>2
<1>2. ASSUME NEW m \in 0..n - 1, m \in P
      PROVE  m + 1 \in P
  <2>1. PICK f \in [0..m -> S] : Good(f, m)
    BY <1>2
  <2>2. PICK g : g = [k \in 0..m + 1 |-> IF k = m + 1 THEN step[m + 1][f[m]] ELSE f[k]]
    OBVIOUS
  <2>3. step[m + 1][f[m]] \in S
    OBVIOUS
  <2>4. g \in [0..m + 1 -> S] /\ g[0] = a
    BY <2>1, <2>2, <2>3
  <2>5. ASSUME NEW k \in 1..m + 1
        PROVE  g[k] = step[k][g[k - 1]]
    <3>1. CASE k = m + 1
      <4>1. k - 1 = m /\ m \in 0..m + 1 /\ m # m + 1
        BY <3>1
      <4>2. g[k - 1] = f[m]
        BY <4>1, <2>2
      <4>3. QED
        BY <3>1, <4>1, <4>2, <2>2
    <3>2. CASE k \in 1..m
      <4>1. k - 1 \in 0..m /\ g[k - 1] = f[k - 1] /\ g[k] = f[k]
        BY <3>2, <2>2
      <4>2. f[k] = step[k][f[k - 1]]
        BY <3>2, <2>1
      <4>3. QED
        BY <4>1, <4>2
    <3>3. QED
      BY <3>1, <3>2
  <2>6. Good(g, m + 1)
    BY <2>4, <2>5
  <2>7. m + 1 \in 0..n
    OBVIOUS
  <2>8. QED
    BY <2>4, <2>6, <2>7
<1> HIDE DEF P
<1>3. \A k \in 0..n : k \in P
  BY <1>1, <1>2, UpTo
<1>4. QED
  <2>1. n \in P
    BY <1>3
  <2>2. QED
    BY <2>1 DEF P, Unfolds
===============================================================================
