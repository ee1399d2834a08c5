------------------------- MODULE ConstantTableProofs -------------------------
(***************************************************************************)
(* The table of constants, whatever its size: what the collector deletes   *)
(* is not in use, counts cover the references, and the free list goes      *)
(* through the deleted entries.  The inductive invariant is in three       *)
(* layers: the table alone, the table and how often each constant is       *)
(* owned, and the owners.                                                  *)
(***************************************************************************)
EXTENDS ConstantTable, FiniteSetTheorems, SequenceTheorems, Recursion, TLAPS

(***************************************************************************)
(* Sums                                                                    *)
(***************************************************************************)
\* (The recursive function of SumTo, as an operator the provers do not look into)
Adds(f, n, h) == f = [k \in 0..n |-> IF k = 0 THEN 0 ELSE f[k - 1] + h[k]]

\* Numbers are summed.
Ints(n, h) == \A k \in 1..n : h[k] \in Int

\* What the function is on each number
LEMMA AddsFacts ==
  ASSUME NEW f, NEW n \in Nat, NEW h, Adds(f, n, h)
  PROVE  f[0] = 0 /\ \A k \in 0..n - 1 : f[k + 1] = f[k] + h[k + 1]
<1>1. f = [k \in 0..n |-> IF k = 0 THEN 0 ELSE f[k - 1] + h[k]]
  BY DEF Adds
<1>2. ASSUME NEW k \in 0..n - 1
      PROVE  f[k + 1] = f[k] + h[k + 1]
  <2>1. PICK m \in 0..n : m = k + 1 /\ m # 0 /\ m - 1 = k
    OBVIOUS
  <2>2. f[m] = f[m - 1] + h[m]
    BY <1>1, <2>1
  <2>3. QED
    BY <2>1, <2>2
<1>3. f[0] = 0
  <2>1. PICK m \in 0..n : m = 0
    OBVIOUS
  <2>2. f[m] = 0
    BY <1>1, <2>1
  <2>3. QED
    BY <2>1, <2>2
<1>4. QED
  BY <1>2, <1>3

\* The function exists, and its values are numbers.
LEMMA AddsExists ==
  ASSUME NEW n \in Nat, NEW h, Ints(n, h)
  PROVE  \E f : Adds(f, n, h) /\ f \in [0..n -> Int] /\ SumTo(n, h) = f[n]
<1>1. ASSUME NEW k \in 1..n, NEW x \in Int
      PROVE  x + h[k] \in Int
  BY DEF Ints
<1>2. PICK step : step = [k \in 1..n |-> [x \in Int |-> x + h[k]]]
  OBVIOUS
<1>3. AreSteps(step, n, Int)
  BY <1>1, <1>2 DEF AreSteps
<1>4. PICK f : Unfolds(f, n, Int, 0, step)
  <2>1. 0 \in Int
    OBVIOUS
  <2>2. QED
    BY <1>3, <2>1, RecursiveFunction
<1>5. f \in [0..n -> Int] /\ f[0] = 0 /\ \A k \in 1..n : f[k] = step[k][f[k - 1]]
  BY <1>4 DEF Unfolds
<1>6. ASSUME NEW k \in 0..n
      PROVE  f[k] = IF k = 0 THEN 0 ELSE f[k - 1] + h[k]
  <2>1. CASE k = 0
    BY <1>5, <2>1
  <2>2. CASE k # 0
    <3>1. k \in 1..n /\ f[k - 1] \in Int
      BY <1>5, <2>2
    <3>2. QED
      BY <1>2, <1>5, <2>2, <3>1
  <2>3. QED
    BY <2>1, <2>2
<1>7. Adds(f, n, h)
  BY <1>5, <1>6 DEF Adds
<1>8. PICK g : g = CHOOSE e : Adds(e, n, h)
  OBVIOUS
<1>9. Adds(g, n, h)
  BY <1>7, <1>8
<1>10. SumTo(n, h) = g[n]
  BY <1>8 DEF SumTo, Adds
<1>11. g \in [0..n -> Int]
  <2>1. \A k \in 0..n : g[k] = f[k]
    <3> DEFINE P == {k \in 0..n : g[k] = f[k]}
    <3>1. 0 \in P
      <4>1. g[0] = 0 /\ f[0] = 0
        BY <1>5, <1>9, AddsFacts
      <4>2. QED
        BY <4>1
    <3>2. ASSUME NEW k \in 0..n - 1, k \in P
          PROVE  k + 1 \in P
      <4>1. g[k + 1] = g[k] + h[k + 1] /\ f[k + 1] = f[k] + h[k + 1]
        BY <1>7, <1>9, AddsFacts
      <4>2. QED
        BY <3>2, <4>1
    <3> HIDE DEF P
    <3>3. \A k \in 0..n : k \in P
      BY <3>1, <3>2, UpTo
    <3>4. QED
      BY <3>3 DEF P
  <2>2. g = [k \in 0..n |-> g[k]]
    BY <1>9 DEF Adds
  <2>3. QED
    BY <1>5, <2>1, <2>2
<1>12. QED
  BY <1>9, <1>10, <1>11

\* Sums are numbers, and do not fall where nothing is negative.
LEMMA SumOfNats ==
  ASSUME NEW n \in Nat, NEW h, \A k \in 1..n : h[k] \in Nat
  PROVE  SumTo(n, h) \in Nat /\ \A k \in 1..n : h[k] <= SumTo(n, h)
<1>1. Ints(n, h)
  BY DEF Ints
<1>2. PICK f : Adds(f, n, h) /\ f \in [0..n -> Int] /\ SumTo(n, h) = f[n]
  BY <1>1, AddsExists
<1>3. f[0] = 0 /\ \A k \in 0..n - 1 : f[k + 1] = f[k] + h[k + 1]
  BY <1>2, AddsFacts
<1> DEFINE P == {k \in 0..n : f[k] \in Nat /\ \A j \in 1..k : h[j] <= f[k]}
<1>4. 0 \in P
  BY <1>3
<1>5. ASSUME NEW k \in 0..n - 1, k \in P
      PROVE  k + 1 \in P
  <2>1. f[k + 1] = f[k] + h[k + 1] /\ h[k + 1] \in Nat /\ f[k] \in Nat
    BY <1>3, <1>5
  <2>2. ASSUME NEW j \in 1..k + 1
        PROVE  h[j] <= f[k + 1]
    <3>1. CASE j = k + 1
      BY <2>1, <3>1
    <3>2. CASE j \in 1..k
      <4>1. h[j] <= f[k] /\ h[j] \in Nat
        BY <1>5, <3>2
      <4>2. QED
        BY <2>1, <4>1
    <3>3. QED
      BY <3>1, <3>2
  <2>3. QED
    BY <2>1, <2>2
<1> HIDE DEF P
<1>6. \A k \in 0..n : k \in P
  BY <1>4, <1>5, UpTo
<1>7. n \in P
  BY <1>6
<1>8. QED
  BY <1>2, <1>7 DEF P

\* A sum of smaller numbers is smaller, and of the same numbers the same.
LEMMA SumOfSmaller ==
  ASSUME NEW n \in Nat, NEW g, NEW h, Ints(n, g), Ints(n, h), \A k \in 1..n : g[k] <= h[k]
  PROVE  SumTo(n, g) \in Int /\ SumTo(n, h) \in Int /\ SumTo(n, g) <= SumTo(n, h)
<1>1. PICK f : Adds(f, n, g) /\ f \in [0..n -> Int] /\ SumTo(n, g) = f[n]
  BY AddsExists
<1>2. PICK e : Adds(e, n, h) /\ e \in [0..n -> Int] /\ SumTo(n, h) = e[n]
  BY AddsExists
<1>3. f[0] = 0 /\ \A k \in 0..n - 1 : f[k + 1] = f[k] + g[k + 1]
  BY <1>1, AddsFacts
<1>4. e[0] = 0 /\ \A k \in 0..n - 1 : e[k + 1] = e[k] + h[k + 1]
  BY <1>2, AddsFacts
<1> DEFINE P == {k \in 0..n : f[k] <= e[k]}
<1>5. 0 \in P
  BY <1>3, <1>4
<1>6. ASSUME NEW k \in 0..n - 1, k \in P
      PROVE  k + 1 \in P
  <2>1. k \in 0..n /\ k + 1 \in 1..n
    OBVIOUS
  <2>2. f[k] \in Int /\ e[k] \in Int /\ f[k] <= e[k]
    BY <1>1, <1>2, <1>6, <2>1
  <2>3. g[k + 1] \in Int /\ h[k + 1] \in Int /\ g[k + 1] <= h[k + 1]
    BY <2>1 DEF Ints
  <2>4. f[k + 1] = f[k] + g[k + 1] /\ e[k + 1] = e[k] + h[k + 1]
    BY <1>3, <1>4
  <2>5. QED
    BY <2>1, <2>2, <2>3, <2>4
<1> HIDE DEF P
<1>7. \A k \in 0..n : k \in P
  BY <1>5, <1>6, UpTo
<1>8. n \in P
  BY <1>7
<1>9. QED
  BY <1>1, <1>2, <1>8 DEF P

(* Sequences that agree up to a point have the same sum up to it. *)
LEMMA SumOfSame ==
  ASSUME NEW n \in Nat, NEW g, NEW h, Ints(n, g), \A k \in 1..n : g[k] = h[k]
  PROVE  SumTo(n, g) = SumTo(n, h)
<1>1. Ints(n, h)
  BY DEF Ints
<1>2. \A k \in 1..n : g[k] <= h[k] /\ h[k] <= g[k]
  BY DEF Ints
<1>3. SumTo(n, g) \in Int /\ SumTo(n, h) \in Int /\ SumTo(n, g) <= SumTo(n, h)
  BY <1>1, <1>2, SumOfSmaller
<1>4. SumTo(n, h) <= SumTo(n, g)
  BY <1>1, <1>2, SumOfSmaller
<1>5. QED
  BY <1>3, <1>4

\* h is g with a number more, its j-th.
Inserted(g, h, n, j) ==
  /\ j \in 1..n + 1
  /\ \A k \in 1..n : k < j => h[k] = g[k]
  /\ \A k \in 1..n : k >= j => h[k + 1] = g[k]

\* Then its sum is larger by that number.
LEMMA SumOfInserted ==
  ASSUME NEW n \in Nat, NEW g, NEW h, NEW j, Ints(n, g), Ints(n + 1, h), Inserted(g, h, n, j)
  PROVE  SumTo(n + 1, h) = SumTo(n, g) + h[j]
<1>1. PICK f : Adds(f, n, g) /\ f \in [0..n -> Int] /\ SumTo(n, g) = f[n]
  BY AddsExists
<1>2. PICK e : Adds(e, n + 1, h) /\ e \in [0..n + 1 -> Int] /\ SumTo(n + 1, h) = e[n + 1]
  <2>1. n + 1 \in Nat
    OBVIOUS
  <2>2. QED
    BY <2>1, AddsExists
<1>3. f[0] = 0 /\ \A k \in 0..n - 1 : f[k + 1] = f[k] + g[k + 1]
  BY <1>1, AddsFacts
<1>4. e[0] = 0 /\ \A k \in 0..n : e[k + 1] = e[k] + h[k + 1]
  <2>1. n + 1 \in Nat /\ n + 1 - 1 = n
    OBVIOUS
  <2>2. QED
    BY <1>2, <2>1, AddsFacts
<1>5. /\ j \in 1..n + 1 /\ h[j] \in Int
      /\ \A k \in 1..n : k < j => h[k] = g[k]
      /\ \A k \in 1..n : k >= j => h[k + 1] = g[k]
  BY DEF Inserted, Ints
<1> DEFINE P == {k \in 0..n : /\ k < j => e[k] = f[k]
                              /\ k + 1 >= j => e[k + 1] = f[k] + h[j]}
<1>6. 0 \in P
  <2>1. j <= 1 => j = 1
    BY <1>5
  <2>2. e[1] = e[0] + h[1]
    BY <1>4
  <2>3. QED
    BY <1>3, <1>4, <1>5, <2>1, <2>2
<1>7. ASSUME NEW k \in 0..n - 1, k \in P
      PROVE  k + 1 \in P
  <2>1. k \in 0..n /\ k + 1 \in 1..n /\ k + 1 \in 0..n
    OBVIOUS
  <2>2. f[k + 1] = f[k] + g[k + 1] /\ e[k + 1] = e[k] + h[k + 1] /\ e[k + 2] = e[k + 1] + h[k + 2]
    <3>1. e[(k + 1) + 1] = e[k + 1] + h[(k + 1) + 1]
      BY <1>4, <2>1
    <3>2. QED
      BY <1>3, <1>4, <2>1, <3>1
  <2>3. f[k] \in Int /\ f[k + 1] \in Int /\ e[k] \in Int /\ e[k + 1] \in Int /\ g[k + 1] \in Int
    BY <1>1, <1>2, <2>1 DEF Ints
  <2>4. /\ k < j => e[k] = f[k]
        /\ k + 1 >= j => e[k + 1] = f[k] + h[j]
    BY <1>7
  <2>5. k + 1 < j => e[k + 1] = f[k + 1]
    <3>1. k + 1 < j => h[k + 1] = g[k + 1]
      BY <1>5, <2>1
    <3>2. k + 1 < j => k < j
      BY <1>5
    <3>3. QED
      BY <2>2, <2>4, <3>1, <3>2
  <2>6. k + 2 >= j => e[k + 2] = f[k + 1] + h[j]
    <3>1. CASE j = k + 2
      <4>1. e[k + 1] = f[k + 1]
        BY <2>5, <3>1
      <4>2. QED
        BY <2>2, <3>1, <4>1
    <3>2. CASE k + 1 >= j
      <4>1. h[k + 2] = g[k + 1]
        <5>1. h[(k + 1) + 1] = g[k + 1]
          BY <1>5, <2>1, <3>2
        <5>2. QED
          BY <5>1
      <4>2. e[k + 1] = f[k] + h[j]
        BY <2>4, <3>2
      <4>3. QED
        BY <1>5, <2>2, <2>3, <4>1, <4>2
    <3>3. QED
      BY <1>5, <3>1, <3>2
  <2>7. (k + 1) + 1 = k + 2
    OBVIOUS
  <2>8. QED
    BY <2>1, <2>5, <2>6, <2>7
<1> HIDE DEF P
<1>8. \A k \in 0..n : k \in P
  BY <1>6, <1>7, UpTo
<1>9. n \in P
  BY <1>8
<1>10. QED
  BY <1>1, <1>2, <1>5, <1>9 DEF P

\* What a sum changes by when one of its numbers does
LEMMA SumOfChanged ==
  ASSUME NEW n \in Nat, NEW g, NEW h, NEW j \in 1..n, Ints(n, g), Ints(n, h),
         \A k \in 1..n : k # j => h[k] = g[k]
  PROVE  SumTo(n, h) = SumTo(n, g) + h[j] - g[j] /\ SumTo(n, g) \in Int /\ SumTo(n, h) \in Int
<1>1. PICK f : Adds(f, n, g) /\ f \in [0..n -> Int] /\ SumTo(n, g) = f[n]
  BY AddsExists
<1>2. PICK e : Adds(e, n, h) /\ e \in [0..n -> Int] /\ SumTo(n, h) = e[n]
  BY AddsExists
<1>3. f[0] = 0 /\ \A k \in 0..n - 1 : f[k + 1] = f[k] + g[k + 1]
  BY <1>1, AddsFacts
<1>4. e[0] = 0 /\ \A k \in 0..n - 1 : e[k + 1] = e[k] + h[k + 1]
  BY <1>2, AddsFacts
<1>5. h[j] \in Int /\ g[j] \in Int
  BY DEF Ints
<1> DEFINE P == {k \in 0..n : e[k] = f[k] + (IF k < j THEN 0 ELSE h[j] - g[j])}
<1>6. 0 \in P
  BY <1>3, <1>4
<1>7. ASSUME NEW k \in 0..n - 1, k \in P
      PROVE  k + 1 \in P
  <2>1. k \in 0..n /\ k + 1 \in 1..n
    OBVIOUS
  <2>2. f[k] \in Int /\ e[k] \in Int /\ g[k + 1] \in Int /\ h[k + 1] \in Int
    BY <1>1, <1>2, <2>1 DEF Ints
  <2>3. f[k + 1] = f[k] + g[k + 1] /\ e[k + 1] = e[k] + h[k + 1]
    BY <1>3, <1>4
  <2>4. e[k] = f[k] + (IF k < j THEN 0 ELSE h[j] - g[j])
    BY <1>7
  <2>5. k + 1 # j => h[k + 1] = g[k + 1]
    BY <2>1
  <2>6. e[k + 1] = f[k + 1] + (IF k + 1 < j THEN 0 ELSE h[j] - g[j])
    <3>1. CASE k + 1 < j
      BY <2>2, <2>3, <2>4, <2>5, <3>1
    <3>2. CASE k + 1 = j
      BY <1>5, <2>2, <2>3, <2>4, <3>2
    <3>3. CASE k + 1 > j
      BY <1>5, <2>2, <2>3, <2>4, <2>5, <3>3
    <3>4. QED
      BY <3>1, <3>2, <3>3
  <2>7. QED
    BY <2>1, <2>6
<1> HIDE DEF P
<1>8. \A k \in 0..n : k \in P
  BY <1>6, <1>7, UpTo
<1>9. n \in P
  BY <1>8
<1>10. e[n] = f[n] + (h[j] - g[j])
  BY <1>9 DEF P
<1>11. QED
  BY <1>1, <1>2, <1>5, <1>10

\* A sum of zeros
LEMMA SumOfZeros ==
  ASSUME NEW n \in Nat, NEW h, \A k \in 1..n : h[k] = 0
  PROVE  SumTo(n, h) = 0
<1>1. Ints(n, h)
  BY DEF Ints
<1>2. PICK f : Adds(f, n, h) /\ f \in [0..n -> Int] /\ SumTo(n, h) = f[n]
  BY <1>1, AddsExists
<1>3. f[0] = 0 /\ \A k \in 0..n - 1 : f[k + 1] = f[k] + h[k + 1]
  BY <1>2, AddsFacts
<1> DEFINE Z == {k \in 0..n : f[k] = 0}
<1>4. 0 \in Z
  BY <1>3
<1>5. ASSUME NEW k \in 0..n - 1, k \in Z
      PROVE  k + 1 \in Z
  <2>1. k + 1 \in 1..n /\ h[k + 1] = 0
    OBVIOUS
  <2>2. QED
    BY <1>3, <1>5, <2>1
<1> HIDE DEF Z
<1>6. \A k \in 0..n : k \in Z
  BY <1>4, <1>5, UpTo
<1>7. QED
  BY <1>2, <1>6 DEF Z

(***************************************************************************)
(* The table alone: entries, and the free list through those deleted       *)
(***************************************************************************)
Texts    == Names \cup FunctorNames
Atoms    == [type : {"atom"}, name : Texts, references : Int]
Functors == [type : {"functor"}, name : Nat, references : Int]
Entries  == Atoms \cup Functors \cup [type : {"tombstone"}, next : Int]
Stores   == [ct : Seq(Entries), free : Int]

Indices(s) == 0..Len(s.ct) - 1
Dead(s)    == Indices(s) \ Live(s)

\* L begins with the head of the free list of s, and goes through all that is deleted.
FreeList(s, L) ==
  /\ L \in Seq(Int) /\ Len(L) > 0 /\ L[1] = s.free /\ L[Len(L)] = None
  /\ \A k \in 1..Len(L) - 1 : L[k] \in Dead(s) /\ At0(s, L[k]).next = L[k + 1]
  /\ \A i \in Dead(s) : \E k \in 1..Len(L) - 1 : L[k] = i
  /\ \A j, k \in 1..Len(L) - 1 : L[j] = L[k] => j = k

\* Equal constants have one index.
Unique(s) == \A i, j \in Live(s) : SameConstant(At0(s, i), At0(s, j)) => i = j

TableOK(s) == s \in Stores /\ (\E L : FreeList(s, L)) /\ Unique(s)

\* An atom, or a functor
AConstant(e) == e \in Atoms \cup Functors

\* The entries of a table, and which of them are live
LEMMA StoreFacts ==
  ASSUME NEW s \in Stores
  PROVE  /\ Len(s.ct) \in Nat /\ s.free \in Int
         /\ \A i \in Indices(s) : At0(s, i) \in Entries
         /\ \A i \in Live(s) : i \in Indices(s) /\ i \in Nat /\ AConstant(At0(s, i))
         /\ \A i \in Indices(s) : AConstant(At0(s, i)) => i \in Live(s)
         /\ \A i \in Dead(s) : i \in Indices(s) /\ At0(s, i) \in [type : {"tombstone"}, next : Int]
<1>1. s.ct \in Seq(Entries) /\ s.free \in Int
  BY DEF Stores
<1>2. PICK n \in Nat : n = Len(s.ct) /\ \A i \in 1..n : s.ct[i] \in Entries
  BY <1>1, LenProperties, ElementOfSeq
<1>3. ASSUME NEW i \in Indices(s)
      PROVE  At0(s, i) \in Entries
  <2>1. i + 1 \in 1..n
    BY <1>2 DEF Indices
  <2>2. QED
    BY <1>2, <2>1 DEF At0
<1>4. \A e \in Entries : e.type # "tombstone" <=> AConstant(e)
  BY DEF Entries, Atoms, Functors, AConstant
<1>5. \A e \in Entries : e.type = "tombstone" => e \in [type : {"tombstone"}, next : Int]
  BY DEF Entries, Atoms, Functors
<1>6. \A i : i \in Live(s) <=> i \in Indices(s) /\ At0(s, i).type # "tombstone"
  BY DEF Live, Indices
<1>7. ASSUME NEW i \in Live(s)
      PROVE  i \in Indices(s) /\ i \in Nat /\ AConstant(At0(s, i))
  <2>1. i \in Indices(s) /\ At0(s, i).type # "tombstone"
    BY <1>6
  <2>2. i \in Nat
    BY <1>2, <2>1 DEF Indices
  <2>3. QED
    BY <1>3, <1>4, <2>1, <2>2
<1>8. ASSUME NEW i \in Dead(s)
      PROVE  i \in Indices(s) /\ At0(s, i) \in [type : {"tombstone"}, next : Int]
  <2>1. i \in Indices(s) /\ i \notin Live(s)
    BY DEF Dead
  <2>2. QED
    BY <1>3, <1>5, <1>6, <2>1
<1>9. \A i \in Indices(s) : AConstant(At0(s, i)) => i \in Live(s)
  BY <1>3, <1>4, <1>6
<1>10. QED
  BY <1>1, <1>2, <1>3, <1>7, <1>8, <1>9

\* t is s where index i has entry e.
Differs(s, t, i, e) ==
  /\ t \in Stores /\ i \in Indices(t) /\ At0(t, i) = e
  /\ \A j \in Indices(s) : j # i => At0(t, j) = At0(s, j)

\* A table that is updated, and one that has an entry more
LEMMA UpdateFacts ==
  ASSUME NEW s \in Stores, NEW i \in Indices(s), NEW e \in Entries
  PROVE  /\ Differs(s, Update(s, i, e), i, e)
         /\ Indices(Update(s, i, e)) = Indices(s) /\ Len(Update(s, i, e).ct) = Len(s.ct)
         /\ Update(s, i, e).free = s.free
<1>a. s.ct \in Seq(Entries) /\ s.free \in Int
  BY DEF Stores
<1>b. PICK n \in Nat : n = Len(s.ct)
  BY <1>a, LenProperties
<1>1. PICK c : c = s.ct /\ c \in Seq(Entries) /\ n = Len(c) /\ s.free \in Int
  BY <1>a, <1>b
<1>2. i + 1 \in 1..n /\ i \in Nat
  BY <1>1 DEF Indices
<1>3. PICK d : d = [c EXCEPT ![i + 1] = e]
  OBVIOUS
<1>4. d \in Seq(Entries) /\ Len(d) = n /\ d[i + 1] = e /\ \A j \in 1..n : j # i + 1 => d[j] = c[j]
  BY <1>1, <1>2, <1>3, ExceptSeq
<1>5. PICK t : t = Update(s, i, e)
  OBVIOUS
<1>6. t = [ct |-> d, free |-> s.free]
  BY <1>1, <1>3, <1>5 DEF Update, Stores
<1>7. t \in Stores /\ t.ct = d /\ t.free = s.free
  BY <1>1, <1>4, <1>6 DEF Stores
<1>8. At0(t, i) = e
  BY <1>4, <1>7 DEF At0
<1>9. ASSUME NEW j \in Indices(s), j # i
      PROVE  At0(t, j) = At0(s, j)
  <2>1. j + 1 \in 1..n /\ j + 1 # i + 1
    BY <1>1, <1>2, <1>9 DEF Indices
  <2>2. QED
    BY <1>1, <1>4, <1>7, <2>1 DEF At0
<1>10. Indices(t) = Indices(s) /\ Len(t.ct) = Len(s.ct)
  BY <1>1, <1>4, <1>7 DEF Indices
<1>11. QED
  BY <1>5, <1>7, <1>8, <1>9, <1>10 DEF Differs

(* Entries and a head of the free list make a store. *)
LEMMA StoreMade ==
  ASSUME NEW d \in Seq(Entries), NEW g \in Int
  PROVE  [ct |-> d, free |-> g] \in Stores
BY DEF Stores

(* Appending an entry, as add_constant does when no slot is free: the
   entries before it stay, and the new index is the old length of the table. *)
LEMMA AppendFacts ==
  ASSUME NEW s \in Stores, NEW e \in Entries, NEW t, t = [s EXCEPT !.ct = Append(@, e)]
  PROVE  /\ Differs(s, t, Len(s.ct), e) /\ t.free = s.free /\ Len(t.ct) = Len(s.ct) + 1
         /\ \A j : j \in Indices(t) <=> j \in Indices(s) \/ j = Len(s.ct)
<1>a. s.ct \in Seq(Entries) /\ s.free \in Int
  BY DEF Stores
<1>b. PICK n \in Nat : n = Len(s.ct)
  BY <1>a, LenProperties
<1>1. PICK c : c = s.ct /\ c \in Seq(Entries) /\ n = Len(c) /\ s.free \in Int
  BY <1>a, <1>b
<1>3. PICK d : d = Append(c, e)
  OBVIOUS
<1>4. d \in Seq(Entries) /\ Len(d) = n + 1 /\ d[n + 1] = e /\ \A j \in 1..n : d[j] = c[j]
  BY <1>1, <1>3, AppendProperties
<1>6. t = [ct |-> d, free |-> s.free]
  BY <1>1, <1>3 DEF Stores
<1>5. PICK g : g = s.free /\ g \in Int
  BY <1>1
<1>7. t \in Stores /\ t.ct = d /\ t.free = s.free
  <2>1. t = [ct |-> d, free |-> g] /\ d \in Seq(Entries)
    BY <1>4, <1>5, <1>6
  <2>2. t.ct = d /\ t.free = g
    BY <2>1
  <2>3. t \in Stores
    BY <1>5, <2>1, StoreMade
  <2>4. QED
    BY <1>5, <2>2, <2>3
<1>8. At0(t, n) = e
  BY <1>4, <1>7 DEF At0
<1>9. ASSUME NEW j \in Indices(s)
      PROVE  At0(t, j) = At0(s, j)
  <2>1. j + 1 \in 1..n
    BY <1>1 DEF Indices
  <2>2. QED
    BY <1>1, <1>4, <1>7, <2>1 DEF At0
<1>10. \A j : j \in Indices(t) <=> j \in Indices(s) \/ j = n
  BY <1>1, <1>4, <1>7 DEF Indices
<1>11. QED
  BY <1>1, <1>4, <1>7, <1>8, <1>9, <1>10 DEF Differs

\* t is s but for the counts.
Counts(s, t) ==
  /\ s \in Stores /\ t \in Stores /\ Len(t.ct) = Len(s.ct) /\ t.free = s.free
  /\ \A i : i \in Live(t) <=> i \in Live(s)
  /\ \A i \in Live(s) : At0(t, i).type = At0(s, i).type /\ At0(t, i).name = At0(s, i).name
  /\ \A i \in Dead(s) : At0(t, i) = At0(s, i)

(* Nothing changes the counts of a table that is left alone. *)
LEMMA CountsSelf ==
  ASSUME NEW s \in Stores
  PROVE  Counts(s, s)
BY DEF Counts

(* Two changes of counts, one after the other, are a change of counts. *)
LEMMA CountsTwice ==
  ASSUME NEW s, NEW t, NEW u, Counts(s, t), Counts(t, u)
  PROVE  Counts(s, u)
<1>1. \A i : i \in Dead(s) <=> i \in Dead(t)
  BY DEF Counts, Dead, Indices
<1>2. QED
  BY <1>1 DEF Counts

\* One reference more, or less
LEMMA CountingOne ==
  ASSUME NEW s \in Stores, NEW i \in Live(s), NEW t, NEW d \in Int,
         \/ t = acquire_constant(s, i) /\ d = 1
         \/ t = release_constant(s, i) /\ d = -1
  PROVE  /\ Counts(s, t)
         /\ \A j \in Live(s) : At0(s, j).references \in Int
         /\ \A j \in Live(s) : At0(t, j).references = At0(s, j).references + (IF j = i THEN d ELSE 0)
<1>1. /\ i \in Indices(s) /\ AConstant(At0(s, i))
      /\ \A j \in Live(s) : j \in Indices(s) /\ AConstant(At0(s, j))
      /\ \A j \in Dead(s) : j \in Indices(s) /\ j \notin Live(s)
  BY StoreFacts DEF Dead
<1>2. \A e : AConstant(e) => e.references \in Int
  BY DEF AConstant, Atoms, Functors
<1>3. PICK e : e = [At0(s, i) EXCEPT !.references = @ + d]
  OBVIOUS
<1>4. t = Update(s, i, e)
  BY <1>1, <1>2, <1>3 DEF acquire_constant, release_constant
<1>5. AConstant(e) /\ e.type = At0(s, i).type /\ e.name = At0(s, i).name
      /\ e.references = At0(s, i).references + d
  BY <1>1, <1>3 DEF AConstant, Atoms, Functors
<1>6. e \in Entries
  BY <1>5 DEF AConstant, Entries
<1>7. Differs(s, t, i, e) /\ Indices(t) = Indices(s) /\ Len(t.ct) = Len(s.ct) /\ t.free = s.free
  BY <1>1, <1>4, <1>6, UpdateFacts
<1>8. t \in Stores /\ At0(t, i) = e /\ \A j \in Indices(s) : j # i => At0(t, j) = At0(s, j)
  BY <1>7 DEF Differs
<1>9. ASSUME NEW j
      PROVE  j \in Live(t) <=> j \in Live(s)
  <2>1. j \in Live(t) <=> j \in Indices(s) /\ At0(t, j).type # "tombstone"
    BY <1>7 DEF Live, Indices
  <2>2. j \in Live(s) <=> j \in Indices(s) /\ At0(s, j).type # "tombstone"
    BY DEF Live, Indices
  <2>3. QED
    BY <1>5, <1>8, <2>1, <2>2
<1>10. Counts(s, t)
  BY <1>1, <1>5, <1>7, <1>8, <1>9 DEF Counts
<1>11. QED
  BY <1>1, <1>2, <1>5, <1>8, <1>10

\* Counting does not touch the rest.
LEMMA CountsKeepTable ==
  ASSUME NEW s, NEW t, Counts(s, t), TableOK(s)
  PROVE  TableOK(t)
<1>1. \A i : i \in Dead(s) <=> i \in Dead(t)
  BY DEF Counts, Dead, Indices
<1>2. PICK L : FreeList(s, L)
  BY DEF TableOK
<1>3. FreeList(t, L)
  <2>1. /\ L \in Seq(Int) /\ Len(L) > 0 /\ L[1] = t.free /\ L[Len(L)] = None
        /\ \A j, k \in 1..Len(L) - 1 : L[j] = L[k] => j = k
    BY <1>2 DEF FreeList, Counts
  <2>2. \A k \in 1..Len(L) - 1 : L[k] \in Dead(t) /\ At0(t, L[k]).next = L[k + 1]
    BY <1>1, <1>2 DEF FreeList, Counts
  <2>3. \A i \in Dead(t) : \E k \in 1..Len(L) - 1 : L[k] = i
    BY <1>1, <1>2 DEF FreeList
  <2>4. QED
    BY <2>1, <2>2, <2>3 DEF FreeList
<1>4. Unique(t)
  BY DEF Unique, SameConstant, Counts, TableOK
<1>5. QED
  BY <1>3, <1>4 DEF TableOK, Counts

(* acquire_constant and release_constant leave what every index stands for. *)
LEMMA CountsKeepMeaning ==
  ASSUME NEW s, NEW t, Counts(s, t), NEW i
  PROVE  Meaning(t, i) = Meaning(s, i)
<1>1. CASE i \notin Live(s)
  <2>1. i \notin Live(t)
    BY <1>1 DEF Counts
  <2>2. QED
    BY <1>1, <2>1 DEF Meaning
<1>2. CASE i \in Live(s)
  <2>1. i \in Live(t) /\ At0(t, i).type = At0(s, i).type /\ At0(t, i).name = At0(s, i).name
    BY <1>2 DEF Counts
  <2>2. PICK n : n = At0(s, i).name
    OBVIOUS
  <2>3. n \in Live(t) <=> n \in Live(s)
    BY DEF Counts
  <2>4. n \in Live(s) => At0(t, n).type = At0(s, n).type /\ At0(t, n).name = At0(s, n).name
    BY DEF Counts
  <2>5. QED
    BY <1>2, <2>1, <2>2, <2>3, <2>4 DEF Meaning
<1>3. QED
  BY <1>1, <1>2

\* A new entry: its index was not in use, and all else is as it was.
IsAdded(s, t, w, e) ==
  /\ w \in Nat /\ w \notin Live(s) /\ At0(t, w) = e
  /\ \A j : j \in Live(t) <=> j \in Live(s) \/ j = w
  /\ \A j \in Live(s) : At0(t, j) = At0(s, j)

\* The head of the free list is deleted, and what it names is the free list after it.
LEMMA AddingReuses ==
  ASSUME NEW s \in Stores, NEW L, FreeList(s, L), s.free # None
  PROVE  /\ s.free \in Dead(s) /\ s.free \in Indices(s)
         /\ \E M : /\ M \in Seq(Int) /\ Len(M) > 0 /\ M[1] = At0(s, s.free).next /\ M[Len(M)] = None
                   /\ \A k \in 1..Len(M) - 1 :
                        M[k] \in Dead(s) /\ M[k] # s.free /\ At0(s, M[k]).next = M[k + 1]
                   /\ \A i \in Dead(s) : i # s.free => \E k \in 1..Len(M) - 1 : M[k] = i
                   /\ \A j, k \in 1..Len(M) - 1 : M[j] = M[k] => j = k
<1>1. PICK n \in Nat : n = Len(L) /\ \A k \in 1..n : L[k] \in Int
  BY LenProperties, ElementOfSeq DEF FreeList
<1>2. /\ n > 0 /\ L[1] = s.free /\ L[n] = None
      /\ \A k \in 1..n - 1 : L[k] \in Dead(s) /\ At0(s, L[k]).next = L[k + 1]
      /\ \A i \in Dead(s) : \E k \in 1..n - 1 : L[k] = i
      /\ \A j, k \in 1..n - 1 : L[j] = L[k] => j = k
  BY <1>1 DEF FreeList
<1>3. n > 1
  BY <1>2
<1>4. PICK m \in Nat : m = n - 1 /\ m > 0 /\ 1 \in 1..n - 1
  BY <1>3
<1>5. L[1] \in Dead(s) /\ At0(s, L[1]).next = L[2]
  <2>1. L[1] \in Dead(s) /\ At0(s, L[1]).next = L[1 + 1]
    BY <1>2, <1>4
  <2>2. QED
    BY <2>1
<1>6. PICK M : M = [k \in 1..m |-> L[k + 1]]
  OBVIOUS
<1>7. M \in Seq(Int) /\ Len(M) = m
  <2>1. \A k \in 1..m : k + 1 \in 1..n
    BY <1>4
  <2>2. \A k \in 1..m : L[k + 1] \in Int
    BY <1>1, <2>1
  <2>3. QED
    BY <1>6, <2>2, IsASeq
<1>8. M[1] = L[2] /\ M[m] = None
  <2>1. 1 \in 1..m /\ m \in 1..m /\ m + 1 = n
    BY <1>4
  <2>2. QED
    BY <1>2, <1>6, <2>1
<1>9. \A k \in 1..m - 1 : M[k] \in Dead(s) /\ M[k] # s.free /\ At0(s, M[k]).next = M[k + 1]
  <2>1. SUFFICES ASSUME NEW k \in 1..m - 1
                 PROVE  M[k] \in Dead(s) /\ M[k] # s.free /\ At0(s, M[k]).next = M[k + 1]
    OBVIOUS
  <2>2. k \in 1..m /\ k + 1 \in 1..m /\ k + 1 \in 1..n - 1 /\ k + 1 # 1
    BY <1>4
  <2>3. M[k] = L[k + 1] /\ M[k + 1] = L[(k + 1) + 1]
    BY <1>6, <2>2
  <2>4. L[k + 1] \in Dead(s) /\ At0(s, L[k + 1]).next = L[(k + 1) + 1]
    BY <1>2, <2>2
  <2>5. L[k + 1] # L[1]
    BY <1>2, <1>4, <2>2
  <2>6. QED
    BY <1>2, <2>3, <2>4, <2>5
<1>10. ASSUME NEW i \in Dead(s), i # s.free
       PROVE  \E k \in 1..m - 1 : M[k] = i
  <2>1. PICK k \in 1..n - 1 : L[k] = i
    BY <1>2
  <2>2. k # 1
    BY <1>2, <1>10, <2>1
  <2>3. k - 1 \in 1..m - 1 /\ k - 1 \in 1..m /\ (k - 1) + 1 = k
    BY <1>4, <2>2
  <2>4. M[k - 1] = i
    BY <1>6, <2>1, <2>3
  <2>5. QED
    BY <2>3, <2>4
<1>11. ASSUME NEW j \in 1..m - 1, NEW k \in 1..m - 1, M[j] = M[k]
       PROVE  j = k
  <2>1. j \in 1..m /\ k \in 1..m /\ j + 1 \in 1..n - 1 /\ k + 1 \in 1..n - 1
    BY <1>4
  <2>2. L[j + 1] = L[k + 1]
    BY <1>6, <1>11, <2>1
  <2>3. j + 1 = k + 1
    BY <1>2, <2>1, <2>2
  <2>4. QED
    BY <2>3
<1>12. s.free \in Indices(s)
  BY <1>2, <1>5, StoreFacts
<1>13. /\ M \in Seq(Int) /\ Len(M) > 0 /\ M[1] = At0(s, s.free).next /\ M[Len(M)] = None
       /\ \A k \in 1..Len(M) - 1 :
            M[k] \in Dead(s) /\ M[k] # s.free /\ At0(s, M[k]).next = M[k + 1]
       /\ \A i \in Dead(s) : i # s.free => \E k \in 1..Len(M) - 1 : M[k] = i
       /\ \A j, k \in 1..Len(M) - 1 : M[j] = M[k] => j = k
  BY <1>2, <1>4, <1>5, <1>7, <1>8, <1>9, <1>10, <1>11
<1>14. QED
  BY <1>2, <1>5, <1>12, <1>13

\* A new entry keeps the table in order.
LEMMA AddedFacts ==
  ASSUME NEW s, TableOK(s), NEW e, AConstant(e), Interned(s, e) = {}, NEW t, t = Added(s, e),
         NEW w, w = allocate_ctable_index(s)
  PROVE  TableOK(t) /\ IsAdded(s, t, w, e)
<1>1. s \in Stores /\ Unique(s) /\ e \in Entries /\ e.type # "tombstone"
  BY DEF TableOK, AConstant, Entries, Atoms, Functors
<1>2. PICK L : FreeList(s, L)
  BY DEF TableOK
<1>3. \A i \in Live(s) : ~SameConstant(At0(s, i), e) /\ ~SameConstant(e, At0(s, i))
  BY DEF Interned, SameConstant
<1>4. \A j : j \in Live(s) <=> j \in Indices(s) /\ At0(s, j).type # "tombstone"
  BY DEF Live, Indices
<1>5. \A j : j \in Dead(s) <=> j \in Indices(s) /\ j \notin Live(s)
  BY DEF Dead
<1>6. Len(s.ct) \in Nat
  BY <1>1, StoreFacts
<1>7. ASSUME IsAdded(s, t, w, e)
      PROVE  Unique(t)
  <2>1. /\ \A j : j \in Live(t) <=> j \in Live(s) \/ j = w
        /\ \A j \in Live(s) : At0(t, j) = At0(s, j)
        /\ At0(t, w) = e
    BY <1>7 DEF IsAdded
  <2>2. SUFFICES ASSUME NEW i \in Live(t), NEW j \in Live(t), SameConstant(At0(t, i), At0(t, j))
                 PROVE  i = j
    BY DEF Unique
  <2>3. CASE i = w \/ j = w
    BY <1>3, <2>1, <2>2, <2>3
  <2>4. CASE i # w /\ j # w
    <3>1. i \in Live(s) /\ j \in Live(s) /\ SameConstant(At0(s, i), At0(s, j))
      BY <2>1, <2>2, <2>4
    <3>2. QED
      BY <1>1, <3>1 DEF Unique
  <2>5. QED
    BY <2>3, <2>4
<1>8. CASE s.free # None
  <2>1. /\ s.free \in Dead(s) /\ s.free \in Indices(s)
        /\ \E M : /\ M \in Seq(Int) /\ Len(M) > 0 /\ M[1] = At0(s, s.free).next /\ M[Len(M)] = None
                  /\ \A k \in 1..Len(M) - 1 :
                       M[k] \in Dead(s) /\ M[k] # s.free /\ At0(s, M[k]).next = M[k + 1]
                  /\ \A i \in Dead(s) : i # s.free => \E k \in 1..Len(M) - 1 : M[k] = i
                  /\ \A j, k \in 1..Len(M) - 1 : M[j] = M[k] => j = k
    BY <1>1, <1>2, <1>8, AddingReuses
  <2>2. w = s.free
    BY <1>8 DEF allocate_ctable_index
  <2>3. PICK u : u = Update(s, w, e)
    OBVIOUS
  <2>4. Differs(s, u, w, e) /\ Indices(u) = Indices(s)
    BY <1>1, <2>1, <2>2, <2>3, UpdateFacts
  <2>5. At0(s, w) \in [type : {"tombstone"}, next : Int]
    BY <1>1, <2>1, <2>2, StoreFacts
  <2>6. PICK x \in Int : x = At0(s, w).next
    BY <2>5
  <2>7. t = [u EXCEPT !.free = x]
    BY <1>8, <2>2, <2>3, <2>6 DEF Added
  <2>8. u \in Stores
    BY <2>4 DEF Differs
  <2>9. t \in Stores /\ t.ct = u.ct /\ t.free = x
    BY <2>7, <2>8 DEF Stores
  <2>10. /\ At0(t, w) = e /\ Indices(t) = Indices(s)
         /\ \A j \in Indices(s) : j # w => At0(t, j) = At0(s, j)
    BY <2>4, <2>9 DEF Differs, At0, Indices
  <2>11. \A j : j \in Live(t) <=> j \in Indices(t) /\ At0(t, j).type # "tombstone"
    BY DEF Live, Indices
  <2>12. \A j : j \in Live(t) <=> j \in Live(s) \/ j = w
    BY <1>1, <1>4, <2>1, <2>2, <2>10, <2>11
  <2>13. w \notin Live(s) /\ w \in Nat
    BY <1>6, <2>1, <2>2 DEF Dead, Indices
  <2>14. IsAdded(s, t, w, e)
    BY <1>4, <2>10, <2>12, <2>13 DEF IsAdded
  <2>15. \A j : j \in Dead(t) <=> j \in Dead(s) /\ j # w
    BY <1>5, <2>10, <2>12 DEF Dead
  <2>a. PICK M : /\ M \in Seq(Int) /\ Len(M) > 0 /\ M[1] = At0(s, s.free).next /\ M[Len(M)] = None
                 /\ \A k \in 1..Len(M) - 1 :
                      M[k] \in Dead(s) /\ M[k] # s.free /\ At0(s, M[k]).next = M[k + 1]
                 /\ \A i \in Dead(s) : i # s.free => \E k \in 1..Len(M) - 1 : M[k] = i
                 /\ \A j, k \in 1..Len(M) - 1 : M[j] = M[k] => j = k
    BY <2>1
  <2>16. /\ M \in Seq(Int) /\ Len(M) > 0 /\ M[1] = t.free /\ M[Len(M)] = None
         /\ \A k \in 1..Len(M) - 1 :
              M[k] \in Dead(s) /\ M[k] # w /\ At0(s, M[k]).next = M[k + 1]
         /\ \A i \in Dead(s) : i # w => \E k \in 1..Len(M) - 1 : M[k] = i
         /\ \A j, k \in 1..Len(M) - 1 : M[j] = M[k] => j = k
    <3>1. t.free = At0(s, s.free).next
      BY <2>2, <2>6, <2>9
    <3>2. QED
      BY <2>2, <2>a, <3>1
  <2>17. \A i \in Dead(t) : At0(t, i) = At0(s, i)
    BY <1>5, <2>10, <2>15
  <2>18. \A k \in 1..Len(M) - 1 : M[k] \in Dead(t) /\ At0(t, M[k]).next = M[k + 1]
    BY <2>15, <2>16, <2>17
  <2>19. \A i \in Dead(t) : \E k \in 1..Len(M) - 1 : M[k] = i
    BY <2>15, <2>16
  <2>20. FreeList(t, M)
    BY <2>16, <2>18, <2>19 DEF FreeList
  <2>21. QED
    BY <1>7, <2>9, <2>14, <2>20 DEF TableOK
<1>9. CASE s.free = None
  <2>1. w = Len(s.ct) /\ t = [s EXCEPT !.ct = Append(@, e)]
    BY <1>9 DEF allocate_ctable_index, Added
  <2>2. /\ Differs(s, t, w, e) /\ t.free = s.free
        /\ \A j : j \in Indices(t) <=> j \in Indices(s) \/ j = w
    BY <1>1, <2>1, AppendFacts
  <2>3. w \notin Indices(s) /\ w \in Nat
    BY <1>6, <2>1 DEF Indices
  <2>4. t \in Stores /\ At0(t, w) = e /\ \A j \in Indices(s) : At0(t, j) = At0(s, j)
    BY <2>2, <2>3 DEF Differs
  <2>5. \A j : j \in Live(t) <=> j \in Indices(t) /\ At0(t, j).type # "tombstone"
    BY DEF Live, Indices
  <2>6. \A j : j \in Live(t) <=> j \in Live(s) \/ j = w
    BY <1>1, <1>4, <2>2, <2>4, <2>5
  <2>7. IsAdded(s, t, w, e)
    BY <1>4, <2>3, <2>4, <2>6 DEF IsAdded
  <2>8. \A j : j \in Dead(t) <=> j \in Dead(s)
    BY <1>5, <2>2, <2>3, <2>6 DEF Dead
  <2>9. \A j \in Dead(s) : At0(t, j) = At0(s, j)
    BY <1>5, <2>4
  <2>10. /\ L \in Seq(Int) /\ Len(L) > 0 /\ L[1] = t.free /\ L[Len(L)] = None
         /\ \A j, k \in 1..Len(L) - 1 : L[j] = L[k] => j = k
    BY <1>2, <2>2 DEF FreeList
  <2>11. \A k \in 1..Len(L) - 1 : L[k] \in Dead(t) /\ At0(t, L[k]).next = L[k + 1]
    BY <1>2, <2>8, <2>9 DEF FreeList
  <2>12. \A i \in Dead(t) : \E k \in 1..Len(L) - 1 : L[k] = i
    BY <1>2, <2>8 DEF FreeList
  <2>13. FreeList(t, L)
    BY <2>10, <2>11, <2>12 DEF FreeList
  <2>14. QED
    BY <1>7, <2>4, <2>7, <2>13 DEF TableOK
<1>10. QED
  BY <1>8, <1>9

\* An entry deleted, and all else as it was
IsBuried(s, t, i) ==
  /\ Len(t.ct) = Len(s.ct)
  /\ \A j : j \in Live(t) <=> j \in Live(s) /\ j # i
  /\ \A j \in Live(t) : At0(t, j) = At0(s, j)

\* An entry that is deleted is the head of the free list, and the table is in order.
LEMMA BuryFacts ==
  ASSUME NEW s, TableOK(s), NEW i \in Live(s), NEW t, t = Bury(s, i)
  PROVE  TableOK(t) /\ IsBuried(s, t, i)
<1>1. s \in Stores /\ Unique(s) /\ s.free \in Int
  BY StoreFacts DEF TableOK
<1>2. PICK L : FreeList(s, L)
  BY DEF TableOK
<1>3. i \in Indices(s) /\ i \in Nat /\ i \notin Dead(s)
  BY <1>1, StoreFacts DEF Dead
<1>4. PICK e : e = Tombstone(s.free)
  OBVIOUS
<1>5. e \in Entries /\ e.type = "tombstone" /\ e.next = s.free
  BY <1>1, <1>4 DEF Tombstone, Entries
<1>6. PICK u : u = Update(s, i, e)
  OBVIOUS
<1>7. Differs(s, u, i, e) /\ Indices(u) = Indices(s) /\ Len(u.ct) = Len(s.ct)
  BY <1>1, <1>3, <1>5, <1>6, UpdateFacts
<1>8. t = [u EXCEPT !.free = i]
  BY <1>4, <1>6 DEF Bury
<1>9. u \in Stores
  BY <1>7 DEF Differs
<1>10. t \in Stores /\ t.ct = u.ct /\ t.free = i
  BY <1>3, <1>8, <1>9 DEF Stores
<1>11. /\ At0(t, i) = e /\ Indices(t) = Indices(s)
       /\ \A j \in Indices(s) : j # i => At0(t, j) = At0(s, j)
  BY <1>7, <1>10 DEF Differs, At0, Indices
<1>12. \A j : j \in Live(t) <=> j \in Indices(t) /\ At0(t, j).type # "tombstone"
  BY DEF Live, Indices
<1>13. \A j : j \in Live(s) <=> j \in Indices(s) /\ At0(s, j).type # "tombstone"
  BY DEF Live, Indices
<1>14. \A j : j \in Live(t) <=> j \in Live(s) /\ j # i
  BY <1>5, <1>11, <1>12, <1>13
<1>15. IsBuried(s, t, i)
  BY <1>7, <1>10, <1>11, <1>13, <1>14 DEF IsBuried
<1>16. \A j : j \in Dead(t) <=> j \in Dead(s) \/ j = i
  BY <1>3, <1>11, <1>14 DEF Dead
<1>17. \A j \in Dead(s) : At0(t, j) = At0(s, j)
  BY <1>3, <1>11 DEF Dead
<1>18. PICK n \in Nat : n = Len(L) /\ \A k \in 1..n : L[k] \in Int
  BY <1>2, LenProperties, ElementOfSeq DEF FreeList
<1>19. /\ n > 0 /\ L[1] = s.free /\ L[n] = None
       /\ \A k \in 1..n - 1 : L[k] \in Dead(s) /\ At0(s, L[k]).next = L[k + 1]
       /\ \A j \in Dead(s) : \E k \in 1..n - 1 : L[k] = j
       /\ \A j, k \in 1..n - 1 : L[j] = L[k] => j = k
  BY <1>2, <1>18 DEF FreeList
<1>20. PICK M : M = [k \in 1..n + 1 |-> IF k = 1 THEN i ELSE L[k - 1]]
  OBVIOUS
<1>21. M[1] = i /\ \A k \in 1..n : M[k + 1] = L[k]
  <2>1. 1 \in 1..n + 1
    BY <1>18
  <2>2. ASSUME NEW k \in 1..n
        PROVE  M[k + 1] = L[k]
    <3>1. PICK m \in 1..n + 1 : m = k + 1 /\ m # 1 /\ m - 1 = k
      OBVIOUS
    <3>2. QED
      BY <1>20, <3>1
  <2>3. QED
    BY <1>20, <2>1, <2>2
<1>22. M \in Seq(Int) /\ Len(M) = n + 1
  <2>1. \A k \in 1..n + 1 : (IF k = 1 THEN i ELSE L[k - 1]) \in Int
    BY <1>3, <1>18
  <2>2. n + 1 \in Nat
    OBVIOUS
  <2>3. QED
    BY <1>20, <2>1, <2>2, IsASeq
<1>23. \A k \in 1..n : M[k] \in Dead(t) /\ At0(t, M[k]).next = M[k + 1]
  <2>1. SUFFICES ASSUME NEW k \in 1..n
                 PROVE  M[k] \in Dead(t) /\ At0(t, M[k]).next = M[k + 1]
    OBVIOUS
  <2>2. CASE k = 1
    <3>1. M[k] = i /\ M[k + 1] = L[1]
      <4>1. M[1 + 1] = L[1]
        BY <1>21, <2>1, <2>2
      <4>2. QED
        BY <1>21, <2>2, <4>1
    <3>2. QED
      BY <1>5, <1>11, <1>16, <1>19, <3>1
  <2>3. CASE k # 1
    <3>1. PICK m \in 1..n - 1 : k = m + 1 /\ m \in 1..n /\ m + 1 \in 1..n
      BY <2>1, <2>3
    <3>2. M[k] = L[m] /\ M[k + 1] = L[m + 1]
      BY <1>21, <3>1
    <3>3. L[m] \in Dead(s) /\ At0(s, L[m]).next = L[m + 1]
      BY <1>19, <3>1
    <3>4. QED
      BY <1>16, <1>17, <3>2, <3>3
  <2>4. QED
    BY <2>2, <2>3
<1>24. ASSUME NEW j \in Dead(t)
       PROVE  \E k \in 1..n : M[k] = j
  <2>1. CASE j = i
    <3>1. 1 \in 1..n
      BY <1>18, <1>19
    <3>2. QED
      BY <1>21, <2>1, <3>1
  <2>2. CASE j # i
    <3>1. j \in Dead(s)
      BY <1>16, <1>24, <2>2
    <3>2. PICK k \in 1..n - 1 : L[k] = j
      BY <1>19, <3>1
    <3>3. k \in 1..n /\ k + 1 \in 1..n
      BY <1>18, <3>2
    <3>4. M[k + 1] = j
      BY <1>21, <3>2, <3>3
    <3>5. QED
      BY <3>3, <3>4
  <2>3. QED
    BY <2>1, <2>2
<1>25. ASSUME NEW j \in 1..n, NEW k \in 1..n, M[j] = M[k]
       PROVE  j = k
  <2>1. ASSUME NEW m \in 1..n, m # 1
        PROVE  \E x \in 1..n - 1 : m = x + 1 /\ M[m] = L[x] /\ M[m] # i
    <3>1. PICK x \in 1..n - 1 : m = x + 1 /\ x \in 1..n
      BY <2>1
    <3>2. M[m] = L[x] /\ L[x] \in Dead(s)
      BY <1>19, <1>21, <3>1
    <3>3. QED
      BY <1>3, <3>1, <3>2
  <2>2. CASE j = 1 \/ k = 1
    BY <1>21, <1>25, <2>1, <2>2
  <2>3. CASE j # 1 /\ k # 1
    <3>1. PICK x \in 1..n - 1 : j = x + 1 /\ M[j] = L[x]
      BY <2>1, <2>3
    <3>2. PICK y \in 1..n - 1 : k = y + 1 /\ M[k] = L[y]
      BY <2>1, <2>3
    <3>3. x = y
      BY <1>19, <1>25, <3>1, <3>2
    <3>4. QED
      BY <3>1, <3>2, <3>3
  <2>4. QED
    BY <2>2, <2>3
<1>26. M[n + 1] = None
  BY <1>18, <1>19, <1>21
<1>27. FreeList(t, M)
  <2>1. Len(M) - 1 = n /\ Len(M) > 0
    BY <1>18, <1>22
  <2>2. M[1] = t.free /\ M[Len(M)] = None
    BY <1>10, <1>21, <1>22, <1>26
  <2>3. QED
    BY <1>22, <1>23, <1>24, <1>25, <2>1, <2>2 DEF FreeList
<1>28. Unique(t)
  <2>1. SUFFICES ASSUME NEW j \in Live(t), NEW k \in Live(t), SameConstant(At0(t, j), At0(t, k))
                 PROVE  j = k
    BY DEF Unique
  <2>2. j \in Live(s) /\ k \in Live(s) /\ At0(t, j) = At0(s, j) /\ At0(t, k) = At0(s, k)
    BY <1>14, <1>15, <2>1 DEF IsBuried
  <2>3. QED
    BY <1>1, <2>1, <2>2 DEF Unique
<1>29. QED
  BY <1>10, <1>15, <1>27, <1>28 DEF TableOK

(***************************************************************************)
(* The table and its counts. o says how often each constant is owned, by   *)
(* others than functors.                                                   *)
(***************************************************************************)
NamedBy(s, i) == {j \in Live(s) : At0(s, j).type = "functor" /\ At0(s, j).name = i}
Named(s, i)   == Cardinality(NamedBy(s, i))

\* Functors have atoms as their names.
NamesOK(s) ==
  \A j \in Live(s) : At0(s, j).type = "functor" =>
    At0(s, j).name \in Live(s) /\ At0(s, At0(s, j).name).type = "atom"

\* What is owned is there, and counted.
Covers(s, o) ==
  /\ o \in [Nat -> Nat]
  /\ \A i \in Nat : o[i] > 0 => i \in Live(s)
  /\ \A i \in Live(s) : At0(s, i).references >= o[i] + Named(s, i)

Sound(s, o) == TableOK(s) /\ NamesOK(s) /\ Covers(s, o)

\* Functors of a name are counted.
LEMMA NamedFacts ==
  ASSUME NEW s \in Stores, NEW i
  PROVE  /\ IsFiniteSet(NamedBy(s, i)) /\ Named(s, i) \in Nat
         /\ Named(s, i) = 0 <=> NamedBy(s, i) = {}
<1>1. Len(s.ct) \in Nat
  BY StoreFacts
<1>2. IsFiniteSet(Indices(s))
  BY <1>1, FS_Interval DEF Indices
<1>3. NamedBy(s, i) \in SUBSET Indices(s)
  BY StoreFacts DEF NamedBy
<1>4. IsFiniteSet(NamedBy(s, i))
  BY <1>2, <1>3, FS_Subset
<1>5. QED
  BY <1>4, FS_CardinalityType, FS_EmptySet DEF Named

(* Changing counts keeps every functor on a live name. *)
LEMMA CountsKeepNames ==
  ASSUME NEW s, NEW t, Counts(s, t)
  PROVE  (NamesOK(s) => NamesOK(t)) /\ \A i : Named(t, i) = Named(s, i)
<1>1. \A i : NamedBy(t, i) = NamedBy(s, i)
  BY DEF NamedBy, Counts
<1>2. NamesOK(s) => NamesOK(t)
  BY DEF NamesOK, Counts
<1>3. QED
  BY <1>1, <1>2 DEF Named

\* o2 owns what is there, and the counts have grown as much as it did.
Recounted(s, t, o, o2) ==
  /\ Counts(s, t) /\ o2 \in [Nat -> Nat]
  /\ \A i \in Nat : o2[i] > 0 => i \in Live(s)
  /\ \A i \in Live(s) : At0(t, i).references >= At0(s, i).references + o2[i] - o[i]

(* A table recounted for new owners is sound for them: no count falls
   below what the owners hold. *)
LEMMA RecountedIsSound ==
  ASSUME NEW s, NEW t, NEW o, NEW o2, Sound(s, o), Recounted(s, t, o, o2)
  PROVE  Sound(t, o2)
<1>1. Counts(s, t) /\ TableOK(s) /\ NamesOK(s) /\ s \in Stores /\ t \in Stores
  BY DEF Recounted, Sound, Counts
<1>2. TableOK(t)
  BY <1>1, CountsKeepTable
<1>3. NamesOK(t) /\ \A i : Named(t, i) = Named(s, i)
  BY <1>1, CountsKeepNames
<1>4. \A i : i \in Live(t) <=> i \in Live(s)
  BY <1>1 DEF Counts
<1>5. ASSUME NEW i \in Live(t)
      PROVE  At0(t, i).references >= o2[i] + Named(t, i)
  <2>1. i \in Live(s) /\ i \in Nat
    BY <1>1, <1>4, <1>5, StoreFacts
  <2>2. AConstant(At0(s, i)) /\ AConstant(At0(t, i))
    BY <1>1, <1>5, <2>1, StoreFacts
  <2>3. At0(s, i).references \in Int /\ At0(t, i).references \in Int
    BY <2>2 DEF AConstant, Atoms, Functors
  <2>4. o[i] \in Nat /\ o2[i] \in Nat /\ Named(s, i) \in Nat
    BY <1>1, <2>1, NamedFacts DEF Sound, Covers, Recounted
  <2>5. At0(s, i).references >= o[i] + Named(s, i)
    BY <2>1 DEF Sound, Covers
  <2>6. At0(t, i).references >= At0(s, i).references + o2[i] - o[i]
    BY <2>1 DEF Recounted
  <2>7. Named(t, i) = Named(s, i)
    BY <1>3
  <2>8. QED
    BY <2>3, <2>4, <2>5, <2>6, <2>7
<1>6. o2 \in [Nat -> Nat] /\ \A i \in Nat : o2[i] > 0 => i \in Live(t)
  BY <1>4 DEF Recounted
<1>7. Covers(t, o2)
  BY <1>5, <1>6 DEF Covers
<1>8. QED
  BY <1>2, <1>3, <1>7 DEF Sound

\* What was live is live, and what it was.
Extends(s, t) ==
  \A j \in Live(s) :
    j \in Live(t) /\ At0(t, j).type = At0(s, j).type /\ At0(t, j).name = At0(s, j).name

(* A table to which constants are added keeps what its live indices
   stand for. *)
LEMMA ExtendsKeepsMeaning ==
  ASSUME NEW s \in Stores, NEW t, NamesOK(s), Extends(s, t), NEW i \in Live(s)
  PROVE  Meaning(t, i) = Meaning(s, i)
<1>1. i \in Live(t) /\ At0(t, i).type = At0(s, i).type /\ At0(t, i).name = At0(s, i).name
  BY DEF Extends
<1>2. CASE At0(s, i).type = "atom"
  BY <1>1, <1>2 DEF Meaning
<1>3. CASE At0(s, i).type # "atom"
  <2>1. PICK n : n = At0(s, i).name
    OBVIOUS
  <2>2. Meaning(s, i) = IF n \in Live(s) /\ At0(s, n).type = "atom"
                          THEN <<"functor", At0(s, n).name>> ELSE <<"deleted">>
    BY <1>3, <2>1 DEF Meaning
  <2>3. Meaning(t, i) = IF n \in Live(t) /\ At0(t, n).type = "atom"
                          THEN <<"functor", At0(t, n).name>> ELSE <<"deleted">>
    BY <1>1, <1>3, <2>1 DEF Meaning
  <2>4. n \in Live(s) /\ At0(s, n).type = "atom"
    <3>1. At0(s, i).type = "functor"
      BY <1>3, StoreFacts DEF AConstant, Atoms, Functors
    <3>2. QED
      BY <2>1, <3>1 DEF NamesOK
  <2>5. n \in Live(t) /\ At0(t, n).type = "atom" /\ At0(t, n).name = At0(s, n).name
    BY <2>4 DEF Extends
  <2>6. QED
    BY <2>2, <2>3, <2>4, <2>5
<1>4. QED
  BY <1>2, <1>3

\* Interning: an equal constant is there, or is added without references.
LEMMA InternFacts ==
  ASSUME NEW s, TableOK(s), NEW e, AConstant(e), NEW r, r = intern(s, e)
  PROVE  \/ Interned(s, e) # {} /\ r.s = s /\ r.word \in Interned(s, e)
         \/ Interned(s, e) = {} /\ TableOK(r.s) /\ IsAdded(s, r.s, r.word, e)
<1>1. CASE Interned(s, e) # {}
  BY <1>1 DEF intern
<1>2. CASE Interned(s, e) = {}
  <2>1. r.s = Added(s, e) /\ r.word = allocate_ctable_index(s)
    BY <1>2 DEF intern
  <2>2. QED
    BY <1>2, <2>1, AddedFacts
<1>3. QED
  BY <1>1, <1>2

\* What is interned: an index of a constant
IsMade(s, r, e, o) ==
  /\ Sound(r.s, o) /\ Extends(s, r.s)
  /\ r.word \in Live(r.s) /\ At0(r.s, r.word).type = e.type /\ At0(r.s, r.word).name = e.name

\* Nothing names a new entry, and nothing owns it.
LEMMA AddedCovers ==
  ASSUME NEW s, NEW t, NEW w, NEW e, NEW o, Sound(s, o), TableOK(t), IsAdded(s, t, w, e)
  PROVE  o[w] = 0 /\ Named(s, w) = 0 /\ Extends(s, t)
<1>1. /\ w \in Nat /\ w \notin Live(s) /\ At0(t, w) = e
      /\ \A j : j \in Live(t) <=> j \in Live(s) \/ j = w
      /\ \A j \in Live(s) : At0(t, j) = At0(s, j)
  BY DEF IsAdded
<1>2. o[w] = 0
  <2>1. o[w] \in Nat /\ ~(o[w] > 0)
    BY <1>1 DEF Sound, Covers
  <2>2. QED
    BY <2>1
<1>3. NamedBy(s, w) = {}
  BY <1>1 DEF NamedBy, Sound, NamesOK
<1>4. Named(s, w) = 0
  BY <1>3, NamedFacts DEF Sound, TableOK
<1>5. QED
  BY <1>1, <1>2, <1>4 DEF Extends

(* MAKE_ATOM finds the atom or adds it, and the table stays sound. *)
LEMMA MakeAtomFacts ==
  ASSUME NEW s, NEW o, Sound(s, o), NEW n \in Texts, NEW r, r = MAKE_ATOM(s, n)
  PROVE  IsMade(s, r, AtomEntry(n), o)
<1>1. PICK e : e = AtomEntry(n)
  OBVIOUS
<1>2. AConstant(e) /\ e.type = "atom" /\ e.name = n /\ e.references = 0
  BY <1>1 DEF AtomEntry, AConstant, Atoms
<1>3. TableOK(s) /\ s \in Stores /\ NamesOK(s) /\ Covers(s, o)
  BY DEF Sound, TableOK
<1>4. r = intern(s, e)
  BY <1>1 DEF MAKE_ATOM
<1>5. CASE Interned(s, e) # {}
  <2>1. r.s = s /\ r.word \in Interned(s, e)
    BY <1>2, <1>3, <1>4, <1>5, InternFacts
  <2>2. QED
    BY <1>1, <2>1 DEF Interned, SameConstant, IsMade, Extends
<1>6. CASE Interned(s, e) = {}
  <2>1. PICK t, w : t = r.s /\ w = r.word /\ TableOK(t) /\ IsAdded(s, t, w, e)
    BY <1>2, <1>3, <1>4, <1>6, InternFacts
  <2>2. /\ w \in Nat /\ w \notin Live(s) /\ At0(t, w) = e
        /\ \A j : j \in Live(t) <=> j \in Live(s) \/ j = w
        /\ \A j \in Live(s) : At0(t, j) = At0(s, j)
    BY <2>1 DEF IsAdded
  <2>3. o[w] = 0 /\ Named(s, w) = 0 /\ Extends(s, t)
    BY <2>1, AddedCovers
  <2>4. \A i : NamedBy(t, i) = NamedBy(s, i)
    BY <1>2, <2>2 DEF NamedBy
  <2>5. NamesOK(t)
    BY <1>2, <1>3, <2>2 DEF NamesOK
  <2>6. Covers(t, o)
    BY <1>2, <1>3, <2>2, <2>3, <2>4 DEF Covers, Named
  <2>7. QED
    BY <1>1, <2>1, <2>2, <2>3, <2>5, <2>6 DEF IsMade, Sound
<1>7. QED
  BY <1>5, <1>6

\* A new functor is one more reference to its name.
LEMMA MakeFunctorFacts ==
  ASSUME NEW s, NEW o, Sound(s, o), NEW n \in Live(s), At0(s, n).type = "atom",
         NEW r, r = MAKE_FUNCTOR(s, n)
  PROVE  IsMade(s, r, FunctorEntry(n), o)
<1>1. PICK e : e = FunctorEntry(n)
  OBVIOUS
<1>3. TableOK(s) /\ s \in Stores /\ NamesOK(s) /\ Covers(s, o) /\ n \in Nat
  BY StoreFacts DEF Sound, TableOK
<1>2. AConstant(e) /\ e.type = "functor" /\ e.name = n /\ e.references = 0
  BY <1>1, <1>3 DEF FunctorEntry, AConstant, Functors
<1>4. PICK f : f = intern(s, e)
  OBVIOUS
<1>5. CASE Interned(s, e) # {}
  <2>1. f.s = s /\ f.word \in Interned(s, e)
    BY <1>2, <1>3, <1>4, <1>5, InternFacts
  <2>2. r = f
    BY <1>1, <1>4, <1>5 DEF MAKE_FUNCTOR
  <2>3. QED
    BY <1>1, <2>1, <2>2 DEF Interned, SameConstant, IsMade, Extends
<1>6. CASE Interned(s, e) = {}
  <2>1. PICK t, w : t = f.s /\ w = f.word /\ TableOK(t) /\ IsAdded(s, t, w, e)
    BY <1>2, <1>3, <1>4, <1>6, InternFacts
  <2>2. /\ w \in Nat /\ w \notin Live(s) /\ At0(t, w) = e
        /\ \A j : j \in Live(t) <=> j \in Live(s) \/ j = w
        /\ \A j \in Live(s) : At0(t, j) = At0(s, j)
    BY <2>1 DEF IsAdded
  <2>3. o[w] = 0 /\ Named(s, w) = 0 /\ Extends(s, t)
    BY <2>1, AddedCovers
  <2>4. PICK u : u = acquire_constant(t, n)
    OBVIOUS
  <2>5. r.s = u /\ r.word = w
    <3>1. f = [s |-> t, word |-> w]
      BY <1>4, <1>6, <2>1 DEF intern
    <3>2. QED
      BY <1>1, <1>4, <1>6, <2>1, <2>4, <3>1 DEF MAKE_FUNCTOR
  <2>6. /\ Counts(t, u)
        /\ \A j \in Live(t) : At0(t, j).references \in Int
        /\ \A j \in Live(t) : At0(u, j).references = At0(t, j).references + (IF j = n THEN 1 ELSE 0)
    <3>1. t \in Stores /\ n \in Live(t)
      BY <2>1, <2>2 DEF TableOK
    <3>2. QED
      BY <2>4, <3>1, CountingOne
  <2>7. TableOK(u)
    BY <2>1, <2>6, CountsKeepTable
  <2>8. NamesOK(t)
    <3>1. SUFFICES ASSUME NEW j \in Live(t), At0(t, j).type = "functor"
                   PROVE  At0(t, j).name \in Live(t) /\ At0(t, At0(t, j).name).type = "atom"
      BY DEF NamesOK
    <3>2. CASE j = w
      BY <1>2, <2>2, <3>2
    <3>3. CASE j \in Live(s)
      <4>1. PICK m : m = At0(s, j).name /\ m \in Live(s) /\ At0(s, m).type = "atom"
        BY <1>3, <2>2, <3>1, <3>3 DEF NamesOK
      <4>2. QED
        BY <2>2, <3>3, <4>1
    <3>4. QED
      BY <2>2, <3>1, <3>2, <3>3
  <2>9. NamesOK(u) /\ \A i : Named(u, i) = Named(t, i)
    BY <2>6, <2>8, CountsKeepNames
  <2>10. ASSUME NEW i
         PROVE  Named(t, i) = Named(s, i) + (IF i = n THEN 1 ELSE 0)
    <3>1. NamedBy(t, i) = IF i = n THEN NamedBy(s, i) \cup {w} ELSE NamedBy(s, i)
      BY <1>2, <2>2 DEF NamedBy
    <3>2. w \notin NamedBy(s, i) /\ IsFiniteSet(NamedBy(s, i)) /\ Cardinality(NamedBy(s, i)) \in Nat
      BY <1>3, <2>2, NamedFacts DEF NamedBy, Named
    <3>3. QED
      BY <3>1, <3>2, FS_AddElement DEF Named
  <2>11. ASSUME NEW i \in Live(u)
         PROVE  At0(u, i).references >= o[i] + Named(u, i)
    <3>1. i \in Live(t) /\ Named(u, i) = Named(s, i) + (IF i = n THEN 1 ELSE 0)
      BY <2>6, <2>9, <2>10, <2>11 DEF Counts
    <3>2. At0(u, i).references = At0(t, i).references + (IF i = n THEN 1 ELSE 0)
          /\ At0(t, i).references \in Int
      BY <2>6, <3>1
    <3>3. At0(t, i).references >= o[i] + Named(s, i)
      <4>1. CASE i = w
        BY <1>2, <2>2, <2>3, <4>1
      <4>2. CASE i \in Live(s)
        BY <1>3, <2>2, <4>2 DEF Covers
      <4>3. QED
        BY <2>2, <3>1, <4>1, <4>2
    <3>4. o[i] \in Nat /\ Named(s, i) \in Nat
      <4>1. i \in Nat
        BY <1>3, <2>2, <3>1, StoreFacts
      <4>2. QED
        BY <1>3, <4>1, NamedFacts DEF Covers
    <3>5. QED
      BY <3>1, <3>2, <3>3, <3>4
  <2>12. \A i : i \in Live(u) <=> i \in Live(t)
    BY <2>6 DEF Counts
  <2>13. Covers(u, o)
    BY <1>3, <2>2, <2>11, <2>12 DEF Covers
  <2>14. Extends(s, u)
    BY <2>3, <2>6 DEF Extends, Counts
  <2>15. w \in Live(u) /\ At0(u, w).type = e.type /\ At0(u, w).name = e.name
    BY <2>2, <2>6 DEF Counts
  <2>16. QED
    BY <1>1, <2>5, <2>7, <2>9, <2>13, <2>14, <2>15 DEF IsMade, Sound
<1>7. QED
  BY <1>5, <1>6

(***************************************************************************)
(* Deleting what has no references                                         *)
(***************************************************************************)
\* i is deleted, and with a functor perhaps its name. What is left is as it was, but
\* for the count of the name. What is owned is left, and so are all other functors.
IsDeleted(s, t, i, o) ==
  /\ Sound(t, o) /\ Len(t.ct) = Len(s.ct)
  /\ \A j \in Live(t) : /\ j \in Live(s) /\ At0(t, j).type = At0(s, j).type
                        /\ At0(t, j).name = At0(s, j).name
                        /\ At0(t, j).references <= At0(s, j).references
  /\ \A j \in Live(s) :
       o[j] > 0 \/ (j # i /\ (At0(s, i).type = "functor" => At0(s, i).name # j)) => j \in Live(t)

\* What has no references is not owned, and is no functor's name.
LEMMA Unreferenced ==
  ASSUME NEW s, NEW o, Sound(s, o), NEW i \in Live(s), At0(s, i).references = 0
  PROVE  o[i] = 0 /\ NamedBy(s, i) = {}
<1>1. s \in Stores /\ i \in Nat
  BY StoreFacts DEF Sound, TableOK
<1>2. o[i] \in Nat /\ Named(s, i) \in Nat /\ 0 >= o[i] + Named(s, i)
  BY <1>1, NamedFacts DEF Sound, Covers
<1>3. o[i] = 0 /\ Named(s, i) = 0
  BY <1>2
<1>4. QED
  BY <1>1, <1>3, NamedFacts

\* Counts are numbers.
LEMMA CountsAreInts ==
  ASSUME NEW s \in Stores, NEW i \in Live(s)
  PROVE  /\ At0(s, i).references \in Int
         /\ At0(s, i).type \in {"atom", "functor"}
         /\ At0(s, i).type = "functor" => At0(s, i).name \in Nat
         /\ At0(s, i).type = "atom" => At0(s, i).name \in Texts
<1>1. AConstant(At0(s, i))
  BY StoreFacts
<1>2. QED
  BY <1>1 DEF AConstant, Atoms, Functors

(* delete_constant of an atom nothing counts: its slot becomes free and
   the table stays sound for the owners. *)
LEMMA DeleteAtom ==
  ASSUME NEW s, NEW o, Sound(s, o), NEW i \in Live(s), At0(s, i).references = 0,
         At0(s, i).type = "atom", NEW t, t = Bury(s, i)
  PROVE  IsDeleted(s, t, i, o)
<1>1. TableOK(s) /\ s \in Stores /\ NamesOK(s) /\ Covers(s, o)
  BY DEF Sound, TableOK
<1>2. TableOK(t) /\ IsBuried(s, t, i)
  BY <1>1, BuryFacts
<1>3. /\ Len(t.ct) = Len(s.ct)
      /\ \A j : j \in Live(t) <=> j \in Live(s) /\ j # i
      /\ \A j \in Live(t) : At0(t, j) = At0(s, j)
  BY <1>2 DEF IsBuried
<1>4. o[i] = 0 /\ NamedBy(s, i) = {}
  BY Unreferenced
<1>5. \A j : NamedBy(t, j) = NamedBy(s, j)
  BY <1>3 DEF NamedBy
<1>6. NamesOK(t)
  <2>1. SUFFICES ASSUME NEW j \in Live(t), At0(t, j).type = "functor"
                 PROVE  At0(t, j).name \in Live(t) /\ At0(t, At0(t, j).name).type = "atom"
    BY DEF NamesOK
  <2>2. PICK m : m = At0(s, j).name /\ m \in Live(s) /\ At0(s, m).type = "atom"
    BY <1>1, <1>3, <2>1 DEF NamesOK
  <2>3. m # i
    BY <1>3, <1>4, <2>1, <2>2 DEF NamedBy
  <2>4. QED
    BY <1>3, <2>1, <2>2, <2>3
<1>7. Covers(t, o)
  <2>1. ASSUME NEW j \in Nat, o[j] > 0
        PROVE  j \in Live(t)
    BY <1>1, <1>3, <1>4, <2>1 DEF Covers
  <2>2. \A j \in Live(t) : At0(t, j).references >= o[j] + Named(t, j)
    BY <1>1, <1>3, <1>5 DEF Covers, Named
  <2>3. QED
    BY <1>1, <2>1, <2>2 DEF Covers
<1>8. \A j \in Live(t) : At0(t, j).references <= At0(s, j).references
  BY <1>1, <1>3, CountsAreInts
<1>9. \A j \in Live(s) :
        o[j] > 0 \/ (j # i /\ (At0(s, i).type = "functor" => At0(s, i).name # j)) => j \in Live(t)
  BY <1>3, <1>4
<1>10. QED
  BY <1>2, <1>3, <1>6, <1>7, <1>8, <1>9 DEF IsDeleted, Sound

(* delete_constant of a functor nothing counts: its name loses one
   reference, and the slot becomes free. *)
LEMMA DeleteFunctor ==
  ASSUME NEW s, NEW o, Sound(s, o), NEW i \in Live(s), At0(s, i).references = 0,
         At0(s, i).type = "functor", NEW t, t = delete_constant(s, i)
  PROVE  IsDeleted(s, t, i, o)
<1>1. TableOK(s) /\ s \in Stores /\ NamesOK(s) /\ Covers(s, o) /\ i \in Nat
  BY StoreFacts DEF Sound, TableOK
<1>2. PICK m : m = At0(s, i).name /\ m \in Live(s) /\ At0(s, m).type = "atom" /\ m # i /\ m \in Nat
  BY <1>1, StoreFacts DEF NamesOK
<1>3. PICK r : r = release_constant(s, m)
  OBVIOUS
<1>4. /\ Counts(s, r)
      /\ \A j \in Live(s) : At0(s, j).references \in Int
      /\ \A j \in Live(s) : At0(r, j).references = At0(s, j).references + (IF j = m THEN -1 ELSE 0)
  <2>1. PICK d \in Int : d = -1
    OBVIOUS
  <2>2. /\ Counts(s, r)
        /\ \A j \in Live(s) : At0(s, j).references \in Int
        /\ \A j \in Live(s) : At0(r, j).references = At0(s, j).references + (IF j = m THEN d ELSE 0)
    BY <1>1, <1>2, <1>3, <2>1, CountingOne
  <2>3. QED
    BY <2>1, <2>2
<1>5. TableOK(r)
  BY <1>1, <1>4, CountsKeepTable
<1>6. t = IF At0(r, m).references = 0 THEN Bury(Bury(r, m), i) ELSE Bury(r, i)
  BY <1>2, <1>3 DEF delete_constant
<1>7. /\ Len(r.ct) = Len(s.ct)
      /\ \A j : j \in Live(r) <=> j \in Live(s)
      /\ \A j \in Live(s) : At0(r, j).type = At0(s, j).type /\ At0(r, j).name = At0(s, j).name
  BY <1>4 DEF Counts
<1>8. o[i] = 0 /\ NamedBy(s, i) = {}
  BY Unreferenced
<1>9. IsFiniteSet(NamedBy(s, m)) /\ Named(s, m) \in Nat /\ i \in NamedBy(s, m) /\ o[m] \in Nat
      /\ At0(s, m).references \in Int /\ At0(s, m).references >= o[m] + Named(s, m)
  <2>1. IsFiniteSet(NamedBy(s, m)) /\ Named(s, m) \in Nat
    BY <1>1, NamedFacts
  <2>2. i \in NamedBy(s, m)
    BY <1>2 DEF NamedBy
  <2>3. o[m] \in Nat /\ At0(s, m).references \in Int /\ At0(s, m).references >= o[m] + Named(s, m)
    BY <1>1, <1>2, <1>4 DEF Covers
  <2>4. QED
    BY <2>1, <2>2, <2>3
<1>10. Named(s, m) >= 1
  <2>1. Named(s, m) # 0
    BY <1>1, <1>9, NamedFacts
  <2>2. QED
    BY <1>9, <2>1
<1>11. At0(r, m).references = At0(s, m).references - 1
  BY <1>2, <1>4, <1>9
<1>12. \A j \in Live(s) : At0(r, j).references <= At0(s, j).references
  BY <1>4
<1>13. CASE At0(r, m).references # 0
  <2>1. t = Bury(r, i) /\ i \in Live(r)
    BY <1>6, <1>7, <1>13
  <2>2. TableOK(t) /\ IsBuried(r, t, i)
    BY <1>5, <2>1, BuryFacts
  <2>3. /\ Len(t.ct) = Len(s.ct)
        /\ \A j : j \in Live(t) <=> j \in Live(s) /\ j # i
        /\ \A j \in Live(t) : At0(t, j) = At0(r, j)
    BY <1>7, <2>2 DEF IsBuried
  <2>4. \A j \in Live(t) : /\ j \in Live(s) /\ At0(t, j).type = At0(s, j).type
                           /\ At0(t, j).name = At0(s, j).name
                           /\ At0(t, j).references <= At0(s, j).references
    BY <1>7, <1>12, <2>3
  <2>5. NamesOK(t)
    <3>1. SUFFICES ASSUME NEW j \in Live(t), At0(t, j).type = "functor"
                   PROVE  At0(t, j).name \in Live(t) /\ At0(t, At0(t, j).name).type = "atom"
      BY DEF NamesOK
    <3>2. PICK n : n = At0(s, j).name /\ n \in Live(s) /\ At0(s, n).type = "atom"
      BY <1>1, <2>4, <3>1 DEF NamesOK
    <3>3. n # i
      BY <3>2
    <3>4. n \in Live(t) /\ At0(t, n).type = "atom"
      BY <2>3, <2>4, <3>2, <3>3
    <3>5. QED
      BY <2>4, <3>1, <3>2, <3>4
  <2>6. ASSUME NEW j \in Live(t)
        PROVE  At0(t, j).references >= o[j] + Named(t, j)
    <3>1. j \in Live(s) /\ j \in Nat /\ At0(t, j) = At0(r, j) /\ o[j] \in Nat
      BY <1>1, <2>3, StoreFacts DEF Covers
    <3>2. At0(s, j).references \in Int /\ Named(s, j) \in Nat /\ IsFiniteSet(NamedBy(s, j))
          /\ At0(s, j).references >= o[j] + Named(s, j)
      BY <1>1, <1>4, <3>1, NamedFacts DEF Covers
    <3>3. NamedBy(t, j) = NamedBy(s, j) \ {i}
      BY <2>3, <2>4 DEF NamedBy
    <3>4. i \in NamedBy(s, j) <=> j = m
      BY <1>2 DEF NamedBy
    <3>5. Named(t, j) = IF j = m THEN Named(s, j) - 1 ELSE Named(s, j)
      BY <3>2, <3>3, <3>4, FS_RemoveElement DEF Named
    <3>6. At0(t, j).references = At0(s, j).references + (IF j = m THEN -1 ELSE 0)
      BY <1>4, <3>1
    <3>7. QED
      BY <3>1, <3>2, <3>5, <3>6
  <2>7. Covers(t, o)
    BY <1>1, <1>8, <2>3, <2>6 DEF Covers
  <2>8. \A j \in Live(s) :
          o[j] > 0 \/ (j # i /\ (At0(s, i).type = "functor" => At0(s, i).name # j)) => j \in Live(t)
    BY <1>8, <2>3
  <2>9. QED
    BY <2>2, <2>3, <2>4, <2>5, <2>7, <2>8 DEF IsDeleted, Sound
<1>14. CASE At0(r, m).references = 0
  <2>1. PICK u : u = Bury(r, m)
    OBVIOUS
  <2>2. t = Bury(u, i) /\ m \in Live(r)
    BY <1>2, <1>6, <1>7, <1>14, <2>1
  <2>3. TableOK(u) /\ IsBuried(r, u, m)
    BY <1>5, <2>1, <2>2, BuryFacts
  <2>4. i \in Live(u)
    BY <1>2, <1>7, <2>3 DEF IsBuried
  <2>5. TableOK(t) /\ IsBuried(u, t, i)
    BY <2>2, <2>3, <2>4, BuryFacts
  <2>6. /\ Len(t.ct) = Len(s.ct)
        /\ \A j : j \in Live(t) <=> j \in Live(s) /\ j # i /\ j # m
        /\ \A j \in Live(t) : At0(t, j) = At0(r, j)
    BY <1>7, <2>3, <2>5 DEF IsBuried
  <2>7. \A j \in Live(t) : /\ j \in Live(s) /\ At0(t, j).type = At0(s, j).type
                           /\ At0(t, j).name = At0(s, j).name
                           /\ At0(t, j).references <= At0(s, j).references
    BY <1>7, <1>12, <2>6
  <2>8. o[m] = 0 /\ Named(s, m) = 1
    BY <1>9, <1>10, <1>11, <1>14
  <2>9. NamedBy(s, m) = {i}
    <3>1. \E x : NamedBy(s, m) = {x}
      BY <1>9, <2>8, FS_Singleton DEF Named
    <3>2. QED
      BY <1>9, <3>1
  <2>10. NamesOK(t)
    <3>1. SUFFICES ASSUME NEW j \in Live(t), At0(t, j).type = "functor"
                   PROVE  At0(t, j).name \in Live(t) /\ At0(t, At0(t, j).name).type = "atom"
      BY DEF NamesOK
    <3>2. PICK n : n = At0(s, j).name /\ n \in Live(s) /\ At0(s, n).type = "atom"
      BY <1>1, <2>7, <3>1 DEF NamesOK
    <3>3. n # i
      BY <3>2
    <3>4. n # m
      <4>1. j \in NamedBy(s, n) /\ j # i
        BY <2>6, <2>7, <3>1, <3>2 DEF NamedBy
      <4>2. QED
        BY <2>9, <4>1
    <3>5. n \in Live(t) /\ At0(t, n).type = "atom"
      BY <2>6, <2>7, <3>2, <3>3, <3>4
    <3>6. QED
      BY <2>7, <3>1, <3>2, <3>5
  <2>11. ASSUME NEW j \in Live(t)
         PROVE  At0(t, j).references >= o[j] + Named(t, j)
    <3>1. j \in Live(s) /\ j # m /\ j \in Nat /\ At0(t, j) = At0(r, j) /\ o[j] \in Nat
      BY <1>1, <2>6, StoreFacts DEF Covers
    <3>2. At0(s, j).references \in Int /\ Named(s, j) \in Nat /\ IsFiniteSet(NamedBy(s, j))
          /\ At0(s, j).references >= o[j] + Named(s, j)
      BY <1>1, <1>4, <3>1, NamedFacts DEF Covers
    <3>3. NamedBy(t, j) \subseteq NamedBy(s, j)
      BY <2>6, <2>7 DEF NamedBy
    <3>4. Named(t, j) <= Named(s, j) /\ Named(t, j) \in Nat
      BY <2>5, <3>2, <3>3, FS_Subset, NamedFacts DEF Named, TableOK
    <3>5. At0(t, j).references = At0(s, j).references
      BY <1>4, <3>1, <3>2
    <3>6. QED
      BY <3>1, <3>2, <3>4, <3>5
  <2>12. Covers(t, o)
    <3>1. ASSUME NEW j \in Nat, o[j] > 0
          PROVE  j \in Live(t)
      <4>1. j \in Live(s)
        BY <1>1, <3>1 DEF Covers
      <4>2. j # i /\ j # m
        BY <1>8, <2>8, <3>1
      <4>3. QED
        BY <2>6, <4>1, <4>2
    <3>2. QED
      BY <1>1, <2>11, <3>1 DEF Covers
  <2>13. \A j \in Live(s) :
           o[j] > 0 \/ (j # i /\ (At0(s, i).type = "functor" => At0(s, i).name # j)) => j \in Live(t)
    BY <1>2, <1>8, <2>6, <2>8
  <2>14. QED
    BY <2>5, <2>6, <2>7, <2>10, <2>12, <2>13 DEF IsDeleted, Sound
<1>15. QED
  BY <1>13, <1>14

\* Deleting a constant without references, whatever it is
LEMMA DeleteFacts ==
  ASSUME NEW s, NEW o, Sound(s, o), NEW i \in Live(s), At0(s, i).references = 0,
         NEW t, t = delete_constant(s, i)
  PROVE  IsDeleted(s, t, i, o)
<1>1. At0(s, i).type \in {"atom", "functor"}
  BY CountsAreInts DEF Sound, TableOK
<1>2. CASE At0(s, i).type = "atom"
  <2>1. t = Bury(s, i)
    BY <1>2 DEF delete_constant
  <2>2. QED
    BY <1>2, <2>1, DeleteAtom
<1>3. CASE At0(s, i).type = "functor"
  BY <1>3, DeleteFunctor
<1>4. QED
  BY <1>1, <1>2, <1>3

(***************************************************************************)
(* Counting the constants of a copy                                        *)
(***************************************************************************)
Meanings == {"atom", "functor"} \X Texts
KeptWord == [word : Nat, means : Meanings]
HeapWord == [word : Nat, means : Meanings \cup {Lost}]

\* How often i is among the first n of ws
Often(i, ws, n) == Cardinality({k \in 1..n : ws[k] = i})

(* How often an index occurs in a prefix of a sequence of words: nothing in
   the empty one, one more with each word that is the index. *)
LEMMA OftenFacts ==
  ASSUME NEW i, NEW ws, NEW n \in Nat
  PROVE  /\ Often(i, ws, 0) = 0 /\ Often(i, ws, n) \in Nat
         /\ Often(i, ws, n + 1) = Often(i, ws, n) + (IF ws[n + 1] = i THEN 1 ELSE 0)
         /\ Often(i, ws, n) > 0 <=> \E k \in 1..n : ws[k] = i
<1>1. PICK S : S = {k \in 1..n : ws[k] = i}
  OBVIOUS
<1>2. IsFiniteSet(S) /\ Cardinality(S) \in Nat /\ (Cardinality(S) = 0 <=> S = {})
  <2>1. IsFiniteSet(1..n) /\ S \in SUBSET (1..n)
    BY <1>1, FS_Interval
  <2>2. IsFiniteSet(S)
    BY <2>1, FS_Subset
  <2>3. QED
    BY <2>2, FS_CardinalityType, FS_EmptySet
<1>3. Often(i, ws, 0) = 0
  <2>1. {k \in 1..0 : ws[k] = i} = {}
    OBVIOUS
  <2>2. QED
    BY <2>1, FS_EmptySet DEF Often
<1>4. {k \in 1..n + 1 : ws[k] = i} = IF ws[n + 1] = i THEN S \cup {n + 1} ELSE S
  BY <1>1
<1>5. n + 1 \notin S
  BY <1>1
<1>6. Often(i, ws, n + 1) = Often(i, ws, n) + (IF ws[n + 1] = i THEN 1 ELSE 0)
  <2>1. CASE ws[n + 1] = i
    BY <1>1, <1>2, <1>4, <1>5, <2>1, FS_AddElement DEF Often
  <2>2. CASE ws[n + 1] # i
    BY <1>1, <1>2, <1>4, <2>2 DEF Often
  <2>3. QED
    BY <2>1, <2>2
<1>7. Often(i, ws, n) > 0 <=> \E k \in 1..n : ws[k] = i
  BY <1>1, <1>2 DEF Often
<1>8. QED
  BY <1>1, <1>2, <1>3, <1>6, <1>7 DEF Often

\* How often a constant occurs
LEMMA OccurrencesFacts ==
  ASSUME NEW kept \in Seq(KeptWord), NEW i
  PROVE  /\ Occurrences(i, kept) \in Nat
         /\ Occurrences(i, kept) > 0 <=> \E k \in 1..Len(kept) : kept[k].word = i
         /\ Occurrences(i, kept) = Often(i, WordsOf(kept), Len(kept))
         /\ \A k \in 1..Len(kept) : WordsOf(kept)[k] = kept[k].word
         /\ Len(WordsOf(kept)) = Len(kept) /\ WordsOf(kept) \in Seq(Nat)
<1>1. PICK n \in Nat : n = Len(kept) /\ DOMAIN kept = 1..n /\ \A k \in 1..n : kept[k] \in KeptWord
  BY LenProperties, ElementOfSeq
<1>2. PICK ws : ws = WordsOf(kept)
  OBVIOUS
<1>3. ws = [k \in 1..n |-> kept[k].word]
  BY <1>1, <1>2 DEF WordsOf
<1>4. ws \in Seq(Nat) /\ Len(ws) = n /\ \A k \in 1..n : ws[k] = kept[k].word
  <2>1. \A k \in 1..n : kept[k].word \in Nat
    BY <1>1 DEF KeptWord
  <2>2. ws \in Seq(Nat)
    BY <1>1, <1>3, <2>1, IsASeq
  <2>3. QED
    BY <1>1, <1>3, <2>2, LenProperties
<1>5. Occurrences(i, kept) = Often(i, ws, n)
  <2>1. {k \in DOMAIN kept : kept[k].word = i} = {k \in 1..n : ws[k] = i}
    BY <1>1, <1>4
  <2>2. QED
    BY <2>1 DEF Occurrences, Often
<1>6. Often(i, ws, n) \in Nat /\ (Often(i, ws, n) > 0 <=> \E k \in 1..n : ws[k] = i)
  BY <1>1, OftenFacts
<1>7. QED
  BY <1>1, <1>2, <1>4, <1>5, <1>6

\* One constant acquired, or released
One(up, s, i) == IF up THEN acquire_constant(s, i) ELSE release_constant(s, i)
Change(up, x) == IF up THEN x ELSE 0 - x

\* (The recursive function of ForAll)
Eaches(f, s, ws, up) ==
  f = [n \in 0..Len(ws) |-> IF n = 0 THEN s ELSE One(up, f[n - 1], ws[n])]

(* The recursive function of acquireAll and releaseAll exists: every prefix
   of the words leaves a table that differs in its counts only. *)
LEMMA EachesExists ==
  ASSUME NEW s \in Stores, NEW ws \in Seq(Nat), \A k \in 1..Len(ws) : ws[k] \in Live(s),
         NEW up \in BOOLEAN
  PROVE  \E f : Eaches(f, s, ws, up)
<1>1. PICK n \in Nat : n = Len(ws)
  BY LenProperties
<1>2. PICK S : S = {t \in Stores : Counts(s, t)}
  OBVIOUS
<1>3. s \in S
  BY <1>2, CountsSelf
<1>4. ASSUME NEW k \in 1..n, NEW t \in S
      PROVE  One(up, t, ws[k]) \in S
  <2>1. Counts(s, t) /\ t \in Stores /\ ws[k] \in Live(t)
    BY <1>1, <1>2 DEF Counts
  <2>2. PICK u : u = One(up, t, ws[k])
    OBVIOUS
  <2>3. PICK d \in Int : d = IF up THEN 1 ELSE -1
    OBVIOUS
  <2>4. \/ u = acquire_constant(t, ws[k]) /\ d = 1
        \/ u = release_constant(t, ws[k]) /\ d = -1
    BY <2>2, <2>3 DEF One
  <2>5. Counts(t, u)
    BY <2>1, <2>4, CountingOne
  <2>6. Counts(s, u)
    BY <2>1, <2>5, CountsTwice
  <2>7. QED
    BY <1>2, <2>2, <2>6 DEF Counts
<1>5. PICK step : step = [k \in 1..n |-> [t \in S |-> One(up, t, ws[k])]]
  OBVIOUS
<1>6. AreSteps(step, n, S)
  BY <1>4, <1>5 DEF AreSteps
<1>7. PICK f : Unfolds(f, n, S, s, step)
  BY <1>3, <1>6, RecursiveFunction
<1>8. f \in [0..n -> S] /\ f[0] = s /\ \A k \in 1..n : f[k] = step[k][f[k - 1]]
  BY <1>7 DEF Unfolds
<1>9. ASSUME NEW k \in 0..n
      PROVE  f[k] = IF k = 0 THEN s ELSE One(up, f[k - 1], ws[k])
  <2>1. CASE k = 0
    BY <1>8, <2>1
  <2>2. CASE k # 0
    <3>1. k \in 1..n /\ f[k - 1] \in S
      BY <1>8, <2>2
    <3>2. QED
      BY <1>5, <1>8, <2>2, <3>1
  <2>3. QED
    BY <2>1, <2>2
<1>10. QED
  BY <1>1, <1>8, <1>9 DEF Eaches

\* t is s with the constants of kept counted once more each, or once less.
Shifts(s, t, kept, up) ==
  /\ Counts(s, t)
  /\ \A j \in Live(s) : At0(s, j).references \in Int
  /\ \A j \in Live(s) :
       At0(t, j).references = At0(s, j).references + Change(up, Occurrences(j, kept))

\* All words of a copy are constants of the table.
AllLive(s, kept) == kept \in Seq(KeptWord) /\ \A k \in 1..Len(kept) : kept[k].word \in Live(s)

(* After all the kept words of a clause, every count has moved by the number
   of times its index occurs in them. *)
LEMMA EachesFacts ==
  ASSUME NEW s \in Stores, NEW kept, AllLive(s, kept), NEW up \in BOOLEAN,
         NEW f, Eaches(f, s, WordsOf(kept), up)
  PROVE  Shifts(s, f[Len(kept)], kept, up)
<1>1. PICK n \in Nat : n = Len(kept)
  BY LenProperties DEF AllLive
<1>2. PICK ws : ws = WordsOf(kept)
  OBVIOUS
<1>3. Len(ws) = n /\ \A k \in 1..n : ws[k] \in Live(s)
  BY <1>1, <1>2, OccurrencesFacts DEF AllLive
<1>4. f = [k \in 0..n |-> IF k = 0 THEN s ELSE One(up, f[k - 1], ws[k])]
  BY <1>2, <1>3 DEF Eaches
<1>5. f[0] = s
  <2>1. PICK k \in 0..n : k = 0
    OBVIOUS
  <2>2. f[k] = s
    BY <1>4, <2>1
  <2>3. QED
    BY <2>1, <2>2
<1>6. ASSUME NEW k \in 0..n - 1
      PROVE  f[k + 1] = One(up, f[k], ws[k + 1])
  <2>1. PICK m \in 0..n : m = k + 1 /\ m # 0 /\ m - 1 = k
    OBVIOUS
  <2>2. f[m] = One(up, f[m - 1], ws[m])
    BY <1>4, <2>1
  <2>3. QED
    BY <2>1, <2>2
<1>7. \A j \in Live(s) : At0(s, j).references \in Int
  BY CountsAreInts
<1> DEFINE P == {k \in 0..n : /\ Counts(s, f[k])
                              /\ \A j \in Live(s) : At0(f[k], j).references =
                                   At0(s, j).references + Change(up, Often(j, ws, k))}
<1>8. 0 \in P
  <2>1. \A j : Often(j, ws, 0) = 0
    BY OftenFacts
  <2>2. Counts(s, f[0])
    BY <1>5, CountsSelf
  <2>3. \A j \in Live(s) : At0(f[0], j).references = At0(s, j).references + Change(up, Often(j, ws, 0))
    BY <1>5, <1>7, <2>1 DEF Change
  <2>4. QED
    BY <2>2, <2>3
<1>9. ASSUME NEW k \in 0..n - 1, k \in P
      PROVE  k + 1 \in P
  <2>1. k + 1 \in 1..n /\ k \in Nat /\ k + 1 \in 0..n
    OBVIOUS
  <2>2. PICK t, u : t = f[k] /\ u = f[k + 1] /\ u = One(up, t, ws[k + 1])
    BY <1>6
  <2>3. /\ Counts(s, t)
        /\ \A j \in Live(s) : At0(t, j).references = At0(s, j).references + Change(up, Often(j, ws, k))
    BY <1>9, <2>2
  <2>4. t \in Stores /\ ws[k + 1] \in Live(t)
    BY <1>3, <2>1, <2>3 DEF Counts
  <2>5. PICK d \in Int : d = IF up THEN 1 ELSE -1
    OBVIOUS
  <2>6. \/ u = acquire_constant(t, ws[k + 1]) /\ d = 1
        \/ u = release_constant(t, ws[k + 1]) /\ d = -1
    BY <2>2, <2>5 DEF One
  <2>7. /\ Counts(t, u)
        /\ \A j \in Live(t) :
             At0(u, j).references = At0(t, j).references + (IF j = ws[k + 1] THEN d ELSE 0)
    BY <2>4, <2>6, CountingOne
  <2>8. Counts(s, u)
    BY <2>3, <2>7, CountsTwice
  <2>9. ASSUME NEW j \in Live(s)
        PROVE  At0(u, j).references = At0(s, j).references + Change(up, Often(j, ws, k + 1))
    <3>1. j \in Live(t) /\ At0(s, j).references \in Int
      BY <1>7, <2>3 DEF Counts
    <3>2. Often(j, ws, k) \in Nat
          /\ Often(j, ws, k + 1) = Often(j, ws, k) + (IF ws[k + 1] = j THEN 1 ELSE 0)
      BY <2>1, OftenFacts
    <3>3. At0(t, j).references = At0(s, j).references + Change(up, Often(j, ws, k))
      BY <2>3
    <3>4. At0(u, j).references = At0(t, j).references + (IF j = ws[k + 1] THEN d ELSE 0)
      BY <2>7, <3>1
    <3>5. QED
      BY <2>5, <3>1, <3>2, <3>3, <3>4 DEF Change
  <2>10. QED
    BY <2>1, <2>2, <2>8, <2>9
<1> HIDE DEF P
<1>10. \A k \in 0..n : k \in P
  BY <1>8, <1>9, UpTo
<1>11. n \in P
  BY <1>10
<1>12. \A j : Occurrences(j, kept) = Often(j, ws, n)
  BY <1>1, <1>2, OccurrencesFacts DEF AllLive
<1>13. QED
  BY <1>1, <1>7, <1>11, <1>12 DEF P, Shifts

\* Copying a term counts its constants, freeing the copy takes the counts back.
LEMMA AcquireAllFacts ==
  ASSUME NEW s \in Stores, NEW kept, AllLive(s, kept)
  PROVE  Shifts(s, acquireAll(s, WordsOf(kept)), kept, TRUE)
<1>1. PICK ws : ws = WordsOf(kept)
  OBVIOUS
<1>2. Len(ws) = Len(kept) /\ ws \in Seq(Nat) /\ \A k \in 1..Len(ws) : ws[k] \in Live(s)
  BY <1>1, OccurrencesFacts DEF AllLive
<1> DEFINE A(f) == f = [n \in 0..Len(ws) |-> IF n = 0 THEN s ELSE acquire_constant(f[n - 1], ws[n])]
<1>3. \A f : A(f) <=> Eaches(f, s, ws, TRUE)
  BY DEF Eaches, One
<1>4. \E f : A(f)
  BY <1>2, <1>3, EachesExists
<1>5. PICK g : g = CHOOSE f : A(f)
  OBVIOUS
<1>6. Eaches(g, s, ws, TRUE)
  BY <1>3, <1>4, <1>5
<1>7. acquireAll(s, ws) = g[Len(ws)]
  BY <1>5 DEF acquireAll, ForAll
<1>8. QED
  BY <1>1, <1>2, <1>6, <1>7, EachesFacts

(* releaseAll takes from each count what the words of a clause hold. *)
LEMMA ReleaseAllFacts ==
  ASSUME NEW s \in Stores, NEW kept, AllLive(s, kept)
  PROVE  Shifts(s, releaseAll(s, WordsOf(kept)), kept, FALSE)
<1>1. PICK ws : ws = WordsOf(kept)
  OBVIOUS
<1>2. Len(ws) = Len(kept) /\ ws \in Seq(Nat) /\ \A k \in 1..Len(ws) : ws[k] \in Live(s)
  BY <1>1, OccurrencesFacts DEF AllLive
<1> DEFINE A(f) == f = [n \in 0..Len(ws) |-> IF n = 0 THEN s ELSE release_constant(f[n - 1], ws[n])]
<1>3. \A f : A(f) <=> Eaches(f, s, ws, FALSE)
  BY DEF Eaches, One
<1>4. \E f : A(f)
  BY <1>2, <1>3, EachesExists
<1>5. PICK g : g = CHOOSE f : A(f)
  OBVIOUS
<1>6. Eaches(g, s, ws, FALSE)
  BY <1>3, <1>4, <1>5
<1>7. releaseAll(s, ws) = g[Len(ws)]
  BY <1>5 DEF releaseAll, ForAll
<1>8. QED
  BY <1>1, <1>2, <1>6, <1>7, EachesFacts

(***************************************************************************)
(* The owners: how often each constant is referred to                      *)
(***************************************************************************)
Facts   == [term : {t \in Seq(KeptWord) : Len(t) = 2}, times : 1..2]
Preds   == [dynamic : BOOLEAN, clauses : Seq(Facts), code : Seq(KeptWord)]

\* How often the clauses cs refer to i, each of them and together
Weights(cs, i) == [k \in DOMAIN cs |-> cs[k].times * Occurrences(i, cs[k].term)]
InClauses(cs, i) == SumTo(Len(cs), Weights(cs, i))

(* A clause added several times holds its constants that many times. *)
LEMMA WeightsFacts ==
  ASSUME NEW cs \in Seq(Facts), NEW i
  PROVE  \A k \in 1..Len(cs) :
           /\ Weights(cs, i)[k] = cs[k].times * Occurrences(i, cs[k].term)
           /\ Weights(cs, i)[k] \in Nat /\ Occurrences(i, cs[k].term) \in Nat
           /\ Weights(cs, i)[k] >= Occurrences(i, cs[k].term)
           /\ cs[k].times = 1 => Weights(cs, i)[k] = Occurrences(i, cs[k].term)
           /\ cs[k].times = 2 => Weights(cs, i)[k] = Occurrences(i, cs[k].term) + Occurrences(i, cs[k].term)
<1>1. SUFFICES ASSUME NEW k \in 1..Len(cs)
               PROVE  /\ Weights(cs, i)[k] = cs[k].times * Occurrences(i, cs[k].term)
                      /\ Weights(cs, i)[k] \in Nat /\ Occurrences(i, cs[k].term) \in Nat
                      /\ Weights(cs, i)[k] >= Occurrences(i, cs[k].term)
                      /\ cs[k].times = 1 => Weights(cs, i)[k] = Occurrences(i, cs[k].term)
                      /\ cs[k].times = 2 => Weights(cs, i)[k]
                           = Occurrences(i, cs[k].term) + Occurrences(i, cs[k].term)
  OBVIOUS
<1>2. k \in DOMAIN cs /\ cs[k] \in Facts
  BY LenProperties, ElementOfSeq
<1>3. cs[k].term \in Seq(KeptWord) /\ cs[k].times \in 1..2
  BY <1>2 DEF Facts
<1>4. PICK n \in Nat : n = Occurrences(i, cs[k].term)
  BY <1>3, OccurrencesFacts
<1>5. PICK w : w = Weights(cs, i)[k] /\ w = cs[k].times * n
  BY <1>2, <1>4 DEF Weights
<1>6. CASE cs[k].times = 1
  <2>1. w = n
    BY <1>4, <1>5, <1>6
  <2>2. QED
    BY <1>4, <1>5, <1>6, <2>1
<1>7. CASE cs[k].times = 2
  <2>1. w = n + n
    BY <1>4, <1>5, <1>7
  <2>2. w >= n /\ w \in Nat
    BY <1>4, <2>1
  <2>3. QED
    BY <1>4, <1>5, <1>7, <2>1, <2>2
<1>8. QED
  BY <1>3, <1>6, <1>7

\* A constant in a clause is referred to.
LEMMA InClausesFacts ==
  ASSUME NEW cs \in Seq(Facts), NEW i
  PROVE  /\ InClauses(cs, i) \in Nat /\ Ints(Len(cs), Weights(cs, i))
         /\ \A k \in 1..Len(cs) : Occurrences(i, cs[k].term) <= InClauses(cs, i)
<1>1. Len(cs) \in Nat
  BY LenProperties
<1>2. \A k \in 1..Len(cs) :
        /\ Weights(cs, i)[k] \in Nat /\ Occurrences(i, cs[k].term) \in Nat
        /\ Weights(cs, i)[k] >= Occurrences(i, cs[k].term)
  BY WeightsFacts
<1>3. InClauses(cs, i) \in Nat /\ \A k \in 1..Len(cs) : Weights(cs, i)[k] <= InClauses(cs, i)
  BY <1>1, <1>2, SumOfNats DEF InClauses
<1>4. \A k \in 1..Len(cs) : Occurrences(i, cs[k].term) <= InClauses(cs, i)
  BY <1>2, <1>3
<1>5. Ints(Len(cs), Weights(cs, i))
  BY <1>2 DEF Ints
<1>6. QED
  BY <1>3, <1>4, <1>5

\* A clause more
LEMMA InClausesInserted ==
  ASSUME NEW cs \in Seq(Facts), NEW ds \in Seq(Facts), NEW j, Len(ds) = Len(cs) + 1,
         Inserted(cs, ds, Len(cs), j), NEW i
  PROVE  InClauses(ds, i) = InClauses(cs, i) + Weights(ds, i)[j]
<1>1. PICK n \in Nat : n = Len(cs) /\ Len(ds) = n + 1
  BY LenProperties
<1>2. Ints(n, Weights(cs, i)) /\ Ints(n + 1, Weights(ds, i))
  BY <1>1, InClausesFacts
<1>3. /\ j \in 1..n + 1
      /\ \A k \in 1..n : k < j => ds[k] = cs[k]
      /\ \A k \in 1..n : k >= j => ds[k + 1] = cs[k]
  BY <1>1 DEF Inserted
<1>4. \A k \in 1..n : Weights(cs, i)[k] = cs[k].times * Occurrences(i, cs[k].term)
  BY <1>1, WeightsFacts
<1>5. \A k \in 1..n + 1 : Weights(ds, i)[k] = ds[k].times * Occurrences(i, ds[k].term)
  BY <1>1, WeightsFacts
<1>6. ASSUME NEW k \in 1..n, k < j
      PROVE  Weights(ds, i)[k] = Weights(cs, i)[k]
  <2>1. k \in 1..n + 1 /\ ds[k] = cs[k]
    BY <1>3, <1>6
  <2>2. QED
    BY <1>4, <1>5, <2>1
<1>7. ASSUME NEW k \in 1..n, k >= j
      PROVE  Weights(ds, i)[k + 1] = Weights(cs, i)[k]
  <2>1. k + 1 \in 1..n + 1 /\ ds[k + 1] = cs[k]
    BY <1>3, <1>7
  <2>2. QED
    BY <1>4, <1>5, <2>1
<1>8. Inserted(Weights(cs, i), Weights(ds, i), n, j)
  BY <1>3, <1>6, <1>7 DEF Inserted
<1>9. SumTo(n + 1, Weights(ds, i)) = SumTo(n, Weights(cs, i)) + Weights(ds, i)[j]
  BY <1>2, <1>8, SumOfInserted
<1>10. QED
  BY <1>1, <1>9 DEF InClauses

\* Clauses are added at the end or in front, and removed anywhere.
LEMMA ClausesAdded ==
  ASSUME NEW cs \in Seq(Facts), NEW c \in Facts, NEW ds,
         ds = Append(cs, c) \/ ds = <<c>> \o cs
  PROVE  /\ ds \in Seq(Facts) /\ Len(ds) = Len(cs) + 1
         /\ \E j \in 1..Len(ds) : ds[j] = c /\ Inserted(cs, ds, Len(cs), j)
<1>1. PICK n \in Nat : n = Len(cs)
  BY LenProperties
<1>2. CASE ds = Append(cs, c)
  <2>1. ds \in Seq(Facts) /\ Len(ds) = n + 1 /\ ds[n + 1] = c /\ \A k \in 1..n : ds[k] = cs[k]
    BY <1>1, <1>2, AppendProperties
  <2>2. Inserted(cs, ds, n, n + 1)
    BY <2>1 DEF Inserted
  <2>3. n + 1 \in 1..n + 1
    OBVIOUS
  <2>4. QED
    BY <1>1, <2>1, <2>2, <2>3
<1>3. CASE ds = <<c>> \o cs
  <2>1. <<c>> \in Seq(Facts) /\ Len(<<c>>) = 1 /\ <<c>>[1] = c
    OBVIOUS
  <2>2. /\ ds \in Seq(Facts) /\ Len(ds) = 1 + n
        /\ \A k \in 1..1 + n : ds[k] = IF k <= 1 THEN <<c>>[k] ELSE cs[k - 1]
    BY <1>1, <1>3, <2>1, ConcatProperties
  <2>3. ds[1] = c /\ \A k \in 1..n : ds[k + 1] = cs[k]
    <3>1. 1 \in 1..1 + n
      OBVIOUS
    <3>2. ASSUME NEW k \in 1..n
          PROVE  ds[k + 1] = cs[k]
      <4>1. PICK m \in 1..1 + n : m = k + 1 /\ ~(m <= 1) /\ m - 1 = k
        OBVIOUS
      <4>2. QED
        BY <2>2, <4>1
    <3>3. QED
      BY <2>1, <2>2, <3>1, <3>2
  <2>4. Inserted(cs, ds, n, 1)
    BY <2>3 DEF Inserted
  <2>5. 1 \in 1..n + 1 /\ 1 + n = n + 1
    OBVIOUS
  <2>6. QED
    BY <1>1, <2>2, <2>3, <2>4, <2>5
<1>4. QED
  BY <1>2, <1>3

(* The clauses without the j-th are the clauses into which it would be
   inserted at j. *)
LEMMA ClauseRemoved ==
  ASSUME NEW cs \in Seq(Facts), NEW j \in 1..Len(cs), NEW ds,
         ds = SubSeq(cs, 1, j - 1) \o SubSeq(cs, j + 1, Len(cs))
  PROVE  /\ ds \in Seq(Facts) /\ Len(cs) = Len(ds) + 1 /\ Inserted(ds, cs, Len(ds), j)
<1>1. PICK n \in Nat : n = Len(cs) /\ \A k \in 1..n : cs[k] \in Facts
  BY LenProperties, ElementOfSeq
<1>2. j \in 1..n /\ j \in Nat
  BY <1>1
<1>3. PICK p, q : p = SubSeq(cs, 1, j - 1) /\ q = SubSeq(cs, j + 1, n)
  OBVIOUS
<1>4. /\ p \in Seq(Facts) /\ Len(p) = j - 1 /\ \A k \in 1..j - 1 : p[k] = cs[k]
  <2>1. PICK m \in Nat : m = j - 1
    BY <1>2
  <2>2. \A k \in 1..m : k \in 1..n
    BY <1>2, <2>1
  <2>3. p = [k \in 1..m |-> cs[k]]
    BY <1>3, <2>1
  <2>4. \A k \in 1..m : cs[k] \in Facts
    BY <1>1, <2>2
  <2>5. p \in Seq(Facts)
    BY <2>3, <2>4, IsASeq
  <2>6. QED
    BY <2>1, <2>3, <2>5, LenProperties
<1>5. /\ q \in Seq(Facts) /\ Len(q) = n - j /\ \A k \in 1..n - j : q[k] = cs[j + k]
  <2>1. PICK m \in Nat : m = n - j
    BY <1>2
  <2>2. \A k \in 1..m : k + j \in 1..n
    BY <1>2, <2>1
  <2>3. q = [k \in 1..m |-> cs[k + j]]
    <3>1. q = [k \in 1..(n - (j + 1) + 1) |-> cs[k + (j + 1) - 1]]
      BY <1>1, <1>2, <1>3
    <3>2. n - (j + 1) + 1 = m /\ \A k \in 1..m : k + (j + 1) - 1 = k + j
      BY <1>2, <2>1
    <3>3. QED
      BY <3>1, <3>2
  <2>4. \A k \in 1..m : cs[k + j] \in Facts
    BY <1>1, <2>2
  <2>5. q \in Seq(Facts)
    BY <2>3, <2>4, IsASeq
  <2>6. \A k \in 1..m : k + j = j + k
    BY <1>2
  <2>7. QED
    BY <2>1, <2>3, <2>5, <2>6, LenProperties
<1>6. PICK m \in Nat : m = n - 1
  BY <1>2
<1>7. (j - 1) + (n - j) = m
  BY <1>2, <1>6
<1>8. /\ ds \in Seq(Facts) /\ Len(ds) = m
      /\ \A k \in 1..m : ds[k] = IF k <= j - 1 THEN p[k] ELSE q[k - (j - 1)]
  <2>1. ds = p \o q
    BY <1>1, <1>3
  <2>2. /\ p \o q \in Seq(Facts) /\ Len(p \o q) = Len(p) + Len(q)
        /\ \A k \in 1..Len(p) + Len(q) :
             (p \o q)[k] = IF k <= Len(p) THEN p[k] ELSE q[k - Len(p)]
    <3>1. p \in Seq(Facts) /\ q \in Seq(Facts)
      BY <1>4, <1>5
    <3>2. QED
      BY <3>1, ConcatProperties
  <2>3. Len(p) = j - 1 /\ Len(q) = n - j /\ Len(p) + Len(q) = m
    BY <1>4, <1>5, <1>7
  <2>4. QED
    BY <2>1, <2>2, <2>3
<1>9. ASSUME NEW k \in 1..m, k < j
      PROVE  cs[k] = ds[k]
  <2>1. k <= j - 1 /\ k \in 1..j - 1
    BY <1>2, <1>9
  <2>2. QED
    BY <1>4, <1>8, <2>1
<1>10. ASSUME NEW k \in 1..m, k >= j
       PROVE  cs[k + 1] = ds[k]
  <2>1. ~(k <= j - 1) /\ k - (j - 1) \in 1..n - j /\ j + (k - (j - 1)) = k + 1
    BY <1>2, <1>6, <1>10
  <2>2. ds[k] = q[k - (j - 1)]
    BY <1>8, <2>1
  <2>3. q[k - (j - 1)] = cs[j + (k - (j - 1))]
    BY <1>5, <2>1
  <2>4. QED
    BY <2>1, <2>2, <2>3
<1>11. j \in 1..m + 1 /\ n = m + 1
  BY <1>2, <1>6
<1>12. Inserted(ds, cs, m, j)
  BY <1>9, <1>10, <1>11 DEF Inserted
<1>13. QED
  BY <1>1, <1>8, <1>11, <1>12

\* How often the predicate of functor f refers to i
Share(P, f, i) ==
  IF f \in DOMAIN P THEN ReferencesOf(P[f], i) + (IF f = i THEN 1 ELSE 0) ELSE 0
Shares(P, i)    == [n \in 1..TableSize |-> Share(P, n - 1, i)]
RecordsOf(R, i) == {r \in R : \E k \in DOMAIN r : r[k].word = i}

\* How often predicates P and records R refer to each constant
Owned(P, R) == [i \in Nat |-> SumTo(TableSize, Shares(P, i)) + Cardinality(RecordsOf(R, i))]

\* The types of predicates and records
OwnersOK(P, R) ==
  /\ DOMAIN P \subseteq Index /\ \A f \in DOMAIN P : P[f] \in Preds
  /\ R \in SUBSET Seq(KeptWord) /\ IsFiniteSet(R)

\* A word that is kept
IsKept(P, R, w) ==
  \/ \E f \in DOMAIN P :
       \/ \E k \in 1..Len(P[f].clauses) : w = P[f].clauses[k].term[1] \/ w = P[f].clauses[k].term[2]
       \/ \E k \in 1..Len(P[f].code) : w = P[f].code[k]
  \/ \E r \in R : \E k \in 1..Len(r) : w = r[k]

(* What a predicate holds of a constant: in its clauses, and in its code. *)
LEMMA ReferencesOfFacts ==
  ASSUME NEW p \in Preds, NEW i
  PROVE  /\ ReferencesOf(p, i) = InClauses(p.clauses, i) + Occurrences(i, p.code)
         /\ InClauses(p.clauses, i) \in Nat /\ Occurrences(i, p.code) \in Nat
         /\ ReferencesOf(p, i) \in Nat
         /\ p.clauses \in Seq(Facts) /\ p.code \in Seq(KeptWord)
<1>1. p.clauses \in Seq(Facts) /\ p.code \in Seq(KeptWord)
  BY DEF Preds
<1>2. ReferencesOf(p, i) = InClauses(p.clauses, i) + Occurrences(i, p.code)
  BY DEF ReferencesOf, InClauses, Weights
<1>3. InClauses(p.clauses, i) \in Nat
  BY <1>1, InClausesFacts
<1>4. Occurrences(i, p.code) \in Nat
  BY <1>1, OccurrencesFacts
<1>5. QED
  BY <1>1, <1>2, <1>3, <1>4

(* What each predicate of the module holds of a constant is a natural number. *)
LEMMA SharesFacts ==
  ASSUME NEW P, NEW R, OwnersOK(P, R), NEW i
  PROVE  /\ \A f : Share(P, f, i) \in Nat
         /\ TableSize \in Nat /\ Ints(TableSize, Shares(P, i))
         /\ \A n \in 1..TableSize : Shares(P, i)[n] = Share(P, n - 1, i)
<1>1. ASSUME NEW f
      PROVE  Share(P, f, i) \in Nat
  <2>1. CASE f \in DOMAIN P
    <3>1. P[f] \in Preds
      BY <2>1 DEF OwnersOK
    <3>2. ReferencesOf(P[f], i) \in Nat
      BY <3>1, ReferencesOfFacts
    <3>3. QED
      BY <2>1, <3>2 DEF Share
  <2>2. CASE f \notin DOMAIN P
    BY <2>2 DEF Share
  <2>3. QED
    BY <2>1, <2>2
<1>2. \A n \in 1..TableSize : Shares(P, i)[n] = Share(P, n - 1, i)
  BY DEF Shares
<1>3. QED
  BY <1>1, <1>2, TableAssumption DEF Ints

\* Owned is how often what refers to a constant does.
LEMMA OwnedFacts ==
  ASSUME NEW P, NEW R, OwnersOK(P, R)
  PROVE  /\ Owned(P, R) \in [Nat -> Nat]
         /\ \A i \in Nat : /\ SumTo(TableSize, Shares(P, i)) \in Nat
                           /\ IsFiniteSet(RecordsOf(R, i)) /\ Cardinality(RecordsOf(R, i)) \in Nat
                           /\ Owned(P, R)[i]
                                = SumTo(TableSize, Shares(P, i)) + Cardinality(RecordsOf(R, i))
                           /\ \A f \in Index : Share(P, f, i) <= Owned(P, R)[i]
                           /\ RecordsOf(R, i) # {} => Owned(P, R)[i] > 0
<1>1. ASSUME NEW i \in Nat
      PROVE  /\ SumTo(TableSize, Shares(P, i)) \in Nat
             /\ IsFiniteSet(RecordsOf(R, i)) /\ Cardinality(RecordsOf(R, i)) \in Nat
             /\ Owned(P, R)[i] = SumTo(TableSize, Shares(P, i)) + Cardinality(RecordsOf(R, i))
             /\ \A f \in Index : Share(P, f, i) <= Owned(P, R)[i]
             /\ RecordsOf(R, i) # {} => Owned(P, R)[i] > 0
  <2>1. /\ \A f : Share(P, f, i) \in Nat
        /\ TableSize \in Nat
        /\ \A n \in 1..TableSize : Shares(P, i)[n] = Share(P, n - 1, i)
    BY SharesFacts
  <2>2. SumTo(TableSize, Shares(P, i)) \in Nat
        /\ \A n \in 1..TableSize : Shares(P, i)[n] <= SumTo(TableSize, Shares(P, i))
    <3>1. \A n \in 1..TableSize : Shares(P, i)[n] \in Nat
      BY <2>1
    <3>2. QED
      BY <2>1, <3>1, SumOfNats
  <2>3. RecordsOf(R, i) \in SUBSET R /\ IsFiniteSet(R)
    BY DEF OwnersOK, RecordsOf
  <2>4. IsFiniteSet(RecordsOf(R, i))
    BY <2>3, FS_Subset
  <2>5. Cardinality(RecordsOf(R, i)) \in Nat
        /\ (Cardinality(RecordsOf(R, i)) = 0 <=> RecordsOf(R, i) = {})
    BY <2>4, FS_CardinalityType, FS_EmptySet
  <2>6. Owned(P, R)[i] = SumTo(TableSize, Shares(P, i)) + Cardinality(RecordsOf(R, i))
    BY DEF Owned
  <2>7. ASSUME NEW f \in Index
        PROVE  Share(P, f, i) <= Owned(P, R)[i]
    <3>1. PICK n \in 1..TableSize : n - 1 = f
      <4>1. f + 1 \in 1..TableSize /\ (f + 1) - 1 = f
        BY <2>1 DEF Index
      <4>2. QED
        BY <4>1
    <3>2. Share(P, f, i) <= SumTo(TableSize, Shares(P, i)) /\ Share(P, f, i) \in Nat
      BY <2>1, <2>2, <3>1
    <3>3. QED
      BY <2>2, <2>5, <2>6, <3>2
  <2>8. QED
    BY <2>2, <2>4, <2>5, <2>6, <2>7
<1>2. Owned(P, R) = [i \in Nat |-> Owned(P, R)[i]]
  BY DEF Owned
<1>3. \A i \in Nat : Owned(P, R)[i] \in Nat
  BY <1>1
<1>4. Owned(P, R) \in [Nat -> Nat]
  BY <1>2, <1>3
<1>5. QED
  BY <1>1, <1>4

\* P and Q are the same but for the predicate of f.
OnlyAt(P, Q, f) ==
  \A g : g # f => (g \in DOMAIN P <=> g \in DOMAIN Q) /\ (g \in DOMAIN P => Q[g] = P[g])

(* Changing the clauses or code of one predicate changes how often a
   constant is owned by what that predicate gains or loses. *)
LEMMA PredicateChanged ==
  ASSUME NEW P, NEW Q, NEW R, OwnersOK(P, R), OwnersOK(Q, R), NEW f \in Index, OnlyAt(P, Q, f),
         NEW i \in Nat
  PROVE  Owned(Q, R)[i] = Owned(P, R)[i] + Share(Q, f, i) - Share(P, f, i)
<1>1. PICK j \in 1..TableSize : j - 1 = f
  <2>1. f + 1 \in 1..TableSize /\ (f + 1) - 1 = f
    BY TableAssumption DEF Index
  <2>2. QED
    BY <2>1
<1>2. /\ Share(P, f, i) \in Nat /\ Ints(TableSize, Shares(P, i)) /\ TableSize \in Nat
      /\ \A n \in 1..TableSize : Shares(P, i)[n] = Share(P, n - 1, i)
  BY SharesFacts
<1>3. /\ Share(Q, f, i) \in Nat /\ Ints(TableSize, Shares(Q, i))
      /\ \A n \in 1..TableSize : Shares(Q, i)[n] = Share(Q, n - 1, i)
  BY SharesFacts
<1>4. ASSUME NEW n \in 1..TableSize, n # j
      PROVE  Shares(Q, i)[n] = Shares(P, i)[n]
  <2>1. PICK g : g = n - 1 /\ g # f
    BY <1>1, <1>4
  <2>2. (g \in DOMAIN P <=> g \in DOMAIN Q) /\ (g \in DOMAIN P => Q[g] = P[g])
    BY <2>1 DEF OnlyAt
  <2>3. Share(Q, g, i) = Share(P, g, i)
    BY <2>2 DEF Share
  <2>4. QED
    BY <1>2, <1>3, <2>1, <2>3
<1>5. SumTo(TableSize, Shares(Q, i))
        = SumTo(TableSize, Shares(P, i)) + Shares(Q, i)[j] - Shares(P, i)[j]
  BY <1>2, <1>3, <1>4, SumOfChanged
<1>6. Shares(Q, i)[j] = Share(Q, f, i) /\ Shares(P, i)[j] = Share(P, f, i)
  BY <1>1, <1>2, <1>3
<1>7. /\ SumTo(TableSize, Shares(P, i)) \in Nat /\ Cardinality(RecordsOf(R, i)) \in Nat
      /\ Owned(P, R)[i] = SumTo(TableSize, Shares(P, i)) + Cardinality(RecordsOf(R, i))
  BY OwnedFacts
<1>8. /\ SumTo(TableSize, Shares(Q, i)) \in Nat
      /\ Owned(Q, R)[i] = SumTo(TableSize, Shares(Q, i)) + Cardinality(RecordsOf(R, i))
  BY OwnedFacts
<1>9. QED
  BY <1>2, <1>3, <1>5, <1>6, <1>7, <1>8

\* A record more, or less
LEMMA RecordChanged ==
  ASSUME NEW P, NEW R, NEW S, OwnersOK(P, R), OwnersOK(P, S), NEW r, r \notin R, S = R \cup {r},
         NEW i \in Nat
  PROVE  Owned(P, S)[i] = Owned(P, R)[i] + (IF \E k \in DOMAIN r : r[k].word = i THEN 1 ELSE 0)
<1>1. RecordsOf(S, i)
        = IF \E k \in DOMAIN r : r[k].word = i THEN RecordsOf(R, i) \cup {r} ELSE RecordsOf(R, i)
  BY DEF RecordsOf
<1>2. r \notin RecordsOf(R, i)
  BY DEF RecordsOf
<1>3. /\ SumTo(TableSize, Shares(P, i)) \in Nat
      /\ IsFiniteSet(RecordsOf(R, i)) /\ Cardinality(RecordsOf(R, i)) \in Nat
      /\ Owned(P, R)[i] = SumTo(TableSize, Shares(P, i)) + Cardinality(RecordsOf(R, i))
  BY OwnedFacts
<1>4. Owned(P, S)[i] = SumTo(TableSize, Shares(P, i)) + Cardinality(RecordsOf(S, i))
  BY OwnedFacts
<1>5. CASE \E k \in DOMAIN r : r[k].word = i
  <2>1. Cardinality(RecordsOf(S, i)) = Cardinality(RecordsOf(R, i)) + 1
    BY <1>1, <1>2, <1>3, <1>5, FS_AddElement
  <2>2. QED
    BY <1>3, <1>4, <1>5, <2>1
<1>6. CASE ~ \E k \in DOMAIN r : r[k].word = i
  <2>1. RecordsOf(S, i) = RecordsOf(R, i)
    BY <1>1, <1>6
  <2>2. QED
    BY <1>3, <1>4, <1>6, <2>1
<1>7. QED
  BY <1>5, <1>6

\* A word that is kept is owned, and so are the functors of predicates.
LEMMA KeptIsOwned ==
  ASSUME NEW P, NEW R, OwnersOK(P, R)
  PROVE  /\ \A w : IsKept(P, R, w) => w \in KeptWord /\ w.word \in Nat /\ Owned(P, R)[w.word] > 0
         /\ \A f \in DOMAIN P : f \in Nat /\ Owned(P, R)[f] > 0
<1>1. ASSUME NEW f \in DOMAIN P
      PROVE  f \in Index /\ f \in Nat /\ P[f] \in Preds /\ P[f].clauses \in Seq(Facts)
             /\ P[f].code \in Seq(KeptWord)
  <2>1. P[f] \in Preds /\ f \in Index
    BY <1>1 DEF OwnersOK
  <2>2. f \in Nat
    BY <2>1, TableAssumption DEF Index
  <2>3. QED
    BY <2>1, <2>2 DEF Preds
<1>2. ASSUME NEW f \in DOMAIN P, NEW i \in Nat
      PROVE  /\ InClauses(P[f].clauses, i) <= Owned(P, R)[i]
             /\ Occurrences(i, P[f].code) <= Owned(P, R)[i]
             /\ f = i => Owned(P, R)[i] > 0
             /\ Owned(P, R)[i] \in Nat
  <2>1. Share(P, f, i) <= Owned(P, R)[i] /\ Owned(P, R)[i] \in Nat
    BY <1>1, OwnedFacts
  <2>2. Share(P, f, i) = ReferencesOf(P[f], i) + (IF f = i THEN 1 ELSE 0)
    BY DEF Share
  <2>3. /\ ReferencesOf(P[f], i) = InClauses(P[f].clauses, i) + Occurrences(i, P[f].code)
        /\ InClauses(P[f].clauses, i) \in Nat /\ Occurrences(i, P[f].code) \in Nat
    BY <1>1, ReferencesOfFacts
  <2>4. QED
    BY <2>1, <2>2, <2>3
<1>3. ASSUME NEW w, NEW f \in DOMAIN P, NEW k \in 1..Len(P[f].clauses),
             w = P[f].clauses[k].term[1] \/ w = P[f].clauses[k].term[2]
      PROVE  w \in KeptWord /\ w.word \in Nat /\ Owned(P, R)[w.word] > 0
  <2>1. P[f].clauses[k] \in Facts
    BY <1>1, ElementOfSeq
  <2>2. PICK t : t = P[f].clauses[k].term
    OBVIOUS
  <2>3. t \in Seq(KeptWord) /\ Len(t) = 2
    BY <2>1, <2>2 DEF Facts
  <2>4. PICK m \in 1..2 : w = t[m]
    BY <1>3, <2>2
  <2>5. w \in KeptWord
    BY <2>3, <2>4, ElementOfSeq
  <2>6. w.word \in Nat
    BY <2>5 DEF KeptWord
  <2>7. Occurrences(w.word, t) > 0 /\ Occurrences(w.word, t) \in Nat
    BY <2>3, <2>4, OccurrencesFacts
  <2>8. Occurrences(w.word, t) <= InClauses(P[f].clauses, w.word)
        /\ InClauses(P[f].clauses, w.word) \in Nat
    BY <1>1, <2>2, InClausesFacts
  <2>9. InClauses(P[f].clauses, w.word) <= Owned(P, R)[w.word] /\ Owned(P, R)[w.word] \in Nat
    BY <1>2, <2>6
  <2>10. QED
    BY <2>5, <2>6, <2>7, <2>8, <2>9
<1>4. ASSUME NEW w, NEW f \in DOMAIN P, NEW k \in 1..Len(P[f].code), w = P[f].code[k]
      PROVE  w \in KeptWord /\ w.word \in Nat /\ Owned(P, R)[w.word] > 0
  <2>1. w \in KeptWord
    BY <1>1, <1>4, ElementOfSeq
  <2>2. w.word \in Nat
    BY <2>1 DEF KeptWord
  <2>3. Occurrences(w.word, P[f].code) > 0 /\ Occurrences(w.word, P[f].code) \in Nat
    BY <1>1, <1>4, OccurrencesFacts
  <2>4. Occurrences(w.word, P[f].code) <= Owned(P, R)[w.word] /\ Owned(P, R)[w.word] \in Nat
    BY <1>2, <2>2
  <2>5. QED
    BY <2>1, <2>2, <2>3, <2>4
<1>5. ASSUME NEW w, NEW r \in R, NEW k \in 1..Len(r), w = r[k]
      PROVE  w \in KeptWord /\ w.word \in Nat /\ Owned(P, R)[w.word] > 0
  <2>1. r \in Seq(KeptWord)
    BY DEF OwnersOK
  <2>2. w \in KeptWord /\ k \in DOMAIN r
    BY <1>5, <2>1, ElementOfSeq, LenProperties
  <2>3. w.word \in Nat
    BY <2>2 DEF KeptWord
  <2>4. RecordsOf(R, w.word) # {}
    BY <1>5, <2>2 DEF RecordsOf
  <2>5. QED
    BY <2>2, <2>3, <2>4, OwnedFacts
<1>6. \A f \in DOMAIN P : f \in Nat /\ Owned(P, R)[f] > 0
  BY <1>1, <1>2
<1>7. QED
  BY <1>3, <1>4, <1>5, <1>6 DEF IsKept

(***************************************************************************)
(* The invariant                                                           *)
(***************************************************************************)
\* Table s is sound for what predicates P and records R refer to; what they keep means
\* what it did, and so do the words ws of the heap that are not lost.
Good(s, ws, P, R) ==
  /\ OwnersOK(P, R) /\ Sound(s, Owned(P, R)) /\ Len(s.ct) <= TableSize
  /\ ws \in Seq(HeapWord)
  /\ \A k \in 1..Len(ws) : ws[k].means # Lost => Meaning(s, ws[k].word) = ws[k].means
  /\ \A w : IsKept(P, R, w) => Meaning(s, w.word) = w.means
  /\ \A f \in DOMAIN P : Meaning(s, f)[1] = "functor"

TableInv == Good(Here, words, predicates, records)

\* A word that is a constant, and means what it did
Fine(s, w) == w \in KeptWord /\ w.word \in Live(s) /\ Meaning(s, w.word) = w.means
FineWords(s, kept) == kept \in Seq(KeptWord) /\ \A k \in 1..Len(kept) : Fine(s, kept[k])
FineClauses(s, cs) ==
  /\ cs \in Seq(Facts)
  /\ \A k \in 1..Len(cs) : Fine(s, cs[k].term[1]) /\ Fine(s, cs[k].term[2])

\* What is live means an atom or a functor, and what is not means nothing.
LEMMA MeaningFacts ==
  ASSUME NEW s \in Stores, NamesOK(s), NEW i
  PROVE  /\ i \in Live(s) => Meaning(s, i) \in Meanings /\ Meaning(s, i)[1] = At0(s, i).type
         /\ i \notin Live(s) => Meaning(s, i) \notin Meanings
                                 /\ Meaning(s, i)[1] # "functor" /\ Meaning(s, i)[1] # "atom"
<1>1. CASE i \notin Live(s)
  <2>1. Meaning(s, i) = <<"deleted">>
    BY <1>1 DEF Meaning
  <2>2. Meaning(s, i)[1] = "deleted"
    BY <2>1
  <2>3. \A m \in Meanings : m[1] = "atom" \/ m[1] = "functor"
    BY DEF Meanings
  <2>4. QED
    BY <1>1, <2>2, <2>3
<1>2. CASE i \in Live(s) /\ At0(s, i).type = "atom"
  <2>1. Meaning(s, i) = <<"atom", At0(s, i).name>> /\ At0(s, i).name \in Texts
    BY <1>2, CountsAreInts DEF Meaning
  <2>2. QED
    BY <1>2, <2>1 DEF Meanings
<1>3. CASE i \in Live(s) /\ At0(s, i).type = "functor"
  <2>1. PICK n : n = At0(s, i).name /\ n \in Live(s) /\ At0(s, n).type = "atom"
    BY <1>3 DEF NamesOK
  <2>2. Meaning(s, i) = <<"functor", At0(s, n).name>>
    BY <1>3, <2>1 DEF Meaning
  <2>3. At0(s, n).name \in Texts
    BY <2>1, CountsAreInts
  <2>4. QED
    BY <1>3, <2>2, <2>3 DEF Meanings
<1>4. QED
  BY <1>1, <1>2, <1>3, CountsAreInts

\* No word is found to mean that it was lost.
LEMMA NothingIsLost ==
  ASSUME NEW s \in Stores, NamesOK(s), NEW i
  PROVE  Meaning(s, i) # Lost
<1>1. CASE i \in Live(s)
  <2>1. PICK m : m = Meaning(s, i) /\ (m[1] = "atom" \/ m[1] = "functor")
    BY <1>1, MeaningFacts, CountsAreInts
  <2>2. Lost[1] = "lost"
    BY DEF Lost
  <2>3. QED
    BY <2>1, <2>2
<1>2. CASE i \notin Live(s)
  <2>1. PICK m : m = Meaning(s, i) /\ m = <<"deleted">>
    BY <1>2 DEF Meaning
  <2>2. m[1] = "deleted" /\ Lost[1] = "lost"
    BY <2>1 DEF Lost
  <2>3. QED
    BY <2>1, <2>2
<1>3. QED
  BY <1>1, <1>2

\* The store that the variables hold
LEMMA BecomeFacts ==
  ASSUME NEW s \in Stores
  PROVE  Store(s.ct, s.free) = s /\ (Become(s) => Here' = s)
<1>1. Store(s.ct, s.free) = s
  BY DEF Store, Stores
<1>2. Become(s) => Here' = Store(s.ct, s.free)
  BY DEF Become, Here
<1>3. QED
  BY <1>1, <1>2

(* What Good says, in the parts that the steps below use. *)
LEMMA GoodFacts ==
  ASSUME NEW s, NEW ws, NEW P, NEW R, Good(s, ws, P, R)
  PROVE  /\ s \in Stores /\ NamesOK(s) /\ Sound(s, Owned(P, R)) /\ OwnersOK(P, R)
         /\ \A w : IsKept(P, R, w) => Fine(s, w)
         /\ \A f \in DOMAIN P : f \in Live(s) /\ f \in Index /\ P[f] \in Preds
                                /\ Meaning(s, f)[1] = "functor"
                                /\ FineClauses(s, P[f].clauses) /\ FineWords(s, P[f].code)
         /\ \A r \in R : FineWords(s, r)
<1>1. s \in Stores /\ NamesOK(s) /\ Sound(s, Owned(P, R)) /\ OwnersOK(P, R)
  BY DEF Good, Sound, TableOK
<1>2. \A i \in Nat : Owned(P, R)[i] > 0 => i \in Live(s)
  BY <1>1 DEF Sound, Covers
<1>3. \A w : IsKept(P, R, w) => Fine(s, w)
  BY <1>1, <1>2, KeptIsOwned DEF Good, Fine
<1>4. ASSUME NEW f \in DOMAIN P
      PROVE  f \in Live(s) /\ f \in Index /\ P[f] \in Preds /\ Meaning(s, f)[1] = "functor"
             /\ FineClauses(s, P[f].clauses) /\ FineWords(s, P[f].code)
  <2>1. f \in Live(s)
    BY <1>1, <1>2, KeptIsOwned
  <2>2. f \in Index /\ P[f] \in Preds
    BY <1>1 DEF OwnersOK
  <2>3. P[f].clauses \in Seq(Facts) /\ P[f].code \in Seq(KeptWord)
    BY <2>2 DEF Preds
  <2>4. ASSUME NEW k \in 1..Len(P[f].clauses)
        PROVE  Fine(s, P[f].clauses[k].term[1]) /\ Fine(s, P[f].clauses[k].term[2])
    BY <1>3 DEF IsKept
  <2>5. ASSUME NEW k \in 1..Len(P[f].code)
        PROVE  Fine(s, P[f].code[k])
    BY <1>3 DEF IsKept
  <2>6. QED
    BY <2>1, <2>2, <2>3, <2>4, <2>5 DEF Good, FineClauses, FineWords
<1>5. ASSUME NEW r \in R
      PROVE  FineWords(s, r)
  <2>1. r \in Seq(KeptWord)
    BY <1>1 DEF OwnersOK
  <2>2. ASSUME NEW k \in 1..Len(r)
        PROVE  Fine(s, r[k])
    BY <1>3 DEF IsKept
  <2>3. QED
    BY <2>1, <2>2 DEF FineWords
<1>6. QED
  BY <1>1, <1>3, <1>4, <1>5

\* Counting again
LEMMA RecountingKeeps ==
  ASSUME NEW s, NEW ws, NEW P, NEW R, Good(s, ws, P, R), NEW Q, NEW S, OwnersOK(Q, S),
         NEW t, Recounted(s, t, Owned(P, R), Owned(Q, S)),
         \A w : IsKept(Q, S, w) => Fine(s, w),
         \A f \in DOMAIN Q : Meaning(s, f)[1] = "functor"
  PROVE  Good(t, ws, Q, S)
<1>1. Sound(t, Owned(Q, S))
  BY RecountedIsSound DEF Good
<1>2. Counts(s, t)
  BY DEF Recounted
<1>3. \A i : Meaning(t, i) = Meaning(s, i)
  BY <1>2, CountsKeepMeaning
<1>4. Len(t.ct) <= TableSize
  BY <1>2 DEF Counts, Good
<1>5. \A k \in 1..Len(ws) : ws[k].means # Lost => Meaning(t, ws[k].word) = ws[k].means
  BY <1>3 DEF Good
<1>6. \A w : IsKept(Q, S, w) => Meaning(t, w.word) = w.means
  BY <1>3 DEF Fine
<1>7. \A f \in DOMAIN Q : Meaning(t, f)[1] = "functor"
  BY <1>3
<1>8. QED
  BY <1>1, <1>4, <1>5, <1>6, <1>7 DEF Good

\* Interning
LEMMA InterningKeeps ==
  ASSUME NEW s, NEW ws, NEW P, NEW R, Good(s, ws, P, R), NEW t, Sound(t, Owned(P, R)),
         Extends(s, t), Len(t.ct) <= TableSize
  PROVE  Good(t, ws, P, R)
<1>1. /\ s \in Stores /\ NamesOK(s) /\ OwnersOK(P, R)
      /\ \A w : IsKept(P, R, w) => Fine(s, w)
      /\ \A f \in DOMAIN P : f \in Live(s) /\ Meaning(s, f)[1] = "functor"
  BY GoodFacts
<1>2. \A i \in Live(s) : Meaning(t, i) = Meaning(s, i)
  BY <1>1, ExtendsKeepsMeaning
<1>3. \A w : IsKept(P, R, w) => Meaning(t, w.word) = w.means
  BY <1>1, <1>2 DEF Fine
<1>4. \A f \in DOMAIN P : Meaning(t, f)[1] = "functor"
  BY <1>1, <1>2
<1>5. ASSUME NEW k \in 1..Len(ws), ws[k].means # Lost
      PROVE  Meaning(t, ws[k].word) = ws[k].means
  <2>1. Meaning(s, ws[k].word) = ws[k].means
    BY <1>5 DEF Good
  <2>a. ws[k] \in HeapWord
    <3>1. ws \in Seq(HeapWord)
      BY DEF Good
    <3>2. QED
      BY <3>1, ElementOfSeq
  <2>b. ws[k].means \in Meanings
    BY <1>5, <2>a DEF HeapWord
  <2>2. ws[k].word \in Live(s)
    BY <1>1, <2>1, <2>b, MeaningFacts
  <2>3. QED
    BY <1>2, <2>1, <2>2
<1>6. QED
  BY <1>1, <1>3, <1>4, <1>5 DEF Good

\* A word more on the heap
LEMMA HeapGrows ==
  ASSUME NEW s, NEW ws, NEW P, NEW R, Good(s, ws, P, R), NEW t, NamesOK(t), Extends(t, s),
         t \in Stores, NEW i \in Live(t)
  PROVE  Good(s, Append(ws, Keep(t, i)), P, R)
<1>1. s \in Stores /\ NamesOK(s) /\ ws \in Seq(HeapWord)
  BY GoodFacts DEF Good
<1>a. PICK w : w = Keep(t, i)
  OBVIOUS
<1>2. w = Keep(t, i) /\ w.word = i /\ w.means = Meaning(t, i)
  BY <1>a DEF Keep
<1>3. Meaning(s, i) = Meaning(t, i) /\ Meaning(t, i) \in Meanings /\ i \in Nat
  BY MeaningFacts, ExtendsKeepsMeaning, StoreFacts
<1>4. w \in HeapWord
  BY <1>2, <1>3 DEF Keep, HeapWord
<1>5. PICK n \in Nat : n = Len(ws)
  BY <1>1, LenProperties
<1>6. PICK v : v = Append(ws, w)
  OBVIOUS
<1>7. v \in Seq(HeapWord) /\ Len(v) = n + 1 /\ v[n + 1] = w /\ \A k \in 1..n : v[k] = ws[k]
  BY <1>1, <1>4, <1>5, <1>6, AppendProperties
<1>8. ASSUME NEW k \in 1..n + 1, v[k].means # Lost
      PROVE  Meaning(s, v[k].word) = v[k].means
  <2>1. CASE k = n + 1
    BY <1>2, <1>3, <1>7, <2>1
  <2>2. CASE k \in 1..n
    BY <1>5, <1>7, <1>8, <2>2 DEF Good
  <2>3. QED
    BY <2>1, <2>2
<1>9. QED
  BY <1>2, <1>6, <1>7, <1>8 DEF Good

(***************************************************************************)
(* Predicates that change                                                  *)
(***************************************************************************)
\* What is not in the table is not counted by words that are.
LEMMA FineWordsFacts ==
  ASSUME NEW s, NEW kept, FineWords(s, kept), NEW i, i \notin Live(s)
  PROVE  Occurrences(i, kept) = 0
<1>1. kept \in Seq(KeptWord) /\ \A k \in 1..Len(kept) : kept[k].word # i
  BY DEF FineWords, Fine
<1>2. Occurrences(i, kept) \in Nat /\ ~(Occurrences(i, kept) > 0)
  BY <1>1, OccurrencesFacts
<1>3. QED
  BY <1>2

(* Clauses whose constants are live hold nothing that is not. *)
LEMMA FineClausesFacts ==
  ASSUME NEW s, NEW cs, FineClauses(s, cs), NEW i, i \notin Live(s)
  PROVE  InClauses(cs, i) = 0
<1>1. cs \in Seq(Facts)
  BY DEF FineClauses
<1>2. ASSUME NEW k \in 1..Len(cs)
      PROVE  Weights(cs, i)[k] = 0
  <2>1. cs[k] \in Facts
    BY <1>1, ElementOfSeq
  <2>2. PICK t : t = cs[k].term /\ t \in Seq(KeptWord) /\ Len(t) = 2
    BY <2>1 DEF Facts
  <2>3. Fine(s, t[1]) /\ Fine(s, t[2])
    BY <2>2 DEF FineClauses
  <2>4. FineWords(s, t)
    BY <2>2, <2>3 DEF FineWords
  <2>5. Occurrences(i, t) = 0
    BY <2>4, FineWordsFacts
  <2>6. cs[k].times \in 1..2
    BY <2>1 DEF Facts
  <2>7. cs[k].times = 1 => Weights(cs, i)[k] = Occurrences(i, t)
    BY <1>1, <2>2, WeightsFacts
  <2>8. cs[k].times = 2 => Weights(cs, i)[k] = Occurrences(i, t) + Occurrences(i, t)
    BY <1>1, <2>2, WeightsFacts
  <2>9. QED
    BY <2>5, <2>6, <2>7, <2>8
<1>3. PICK n \in Nat : n = Len(cs)
  BY <1>1, LenProperties
<1>4. SumTo(n, Weights(cs, i)) = 0
  BY <1>2, <1>3, SumOfZeros
<1>5. QED
  BY <1>3, <1>4 DEF InClauses

\* No clauses and no code refer to nothing.
LEMMA NothingRefers ==
  ASSUME NEW i
  PROVE  InClauses(<<>>, i) = 0 /\ Occurrences(i, <<>>) = 0
<1>1. <<>> \in Seq(Facts) /\ <<>> \in Seq(KeptWord) /\ Len(<<>>) = 0
  OBVIOUS
<1>2. FineClauses(Store(<<>>, None), <<>>) /\ FineWords(Store(<<>>, None), <<>>)
  BY <1>1 DEF FineClauses, FineWords
<1>3. i \notin Live(Store(<<>>, None))
  <2>1. Store(<<>>, None).ct = <<>>
    BY DEF Store
  <2>2. QED
    BY <1>1, <2>1 DEF Live
<1>4. QED
  BY <1>2, <1>3, FineClausesFacts, FineWordsFacts

\* How often the clauses and the code of a predicate refer to i
Within(p, i) == InClauses(p.clauses, i) + Occurrences(i, p.code)

\* What a predicate of functor f is, whether there is one or not
LEMMA OldFacts ==
  ASSUME TableInv, NEW f \in Live(Here), NEW d \in BOOLEAN, NEW p, p = Old(f, d)
  PROVE  /\ p \in Preds /\ FineClauses(Here, p.clauses) /\ FineWords(Here, p.code)
         /\ \A i : Within(p, i) \in Nat
         /\ \A i : Share(predicates, f, i) = Within(p, i) + (IF Known(f) /\ f = i THEN 1 ELSE 0)
<1>1. \A g \in DOMAIN predicates : /\ predicates[g] \in Preds
                                   /\ FineClauses(Here, predicates[g].clauses)
                                   /\ FineWords(Here, predicates[g].code)
  BY GoodFacts DEF TableInv
<1>2. p \in Preds /\ FineClauses(Here, p.clauses) /\ FineWords(Here, p.code)
  <2>1. CASE Known(f)
    BY <1>1, <2>1 DEF Known, Old
  <2>2. CASE ~Known(f)
    <3>1. p = Predicate(d, <<>>, <<>>)
      BY <2>2 DEF Old
    <3>2. p = [dynamic |-> d, clauses |-> <<>>, code |-> <<>>]
      BY <3>1 DEF Predicate
    <3>3. <<>> \in Seq(Facts) /\ <<>> \in Seq(KeptWord) /\ Len(<<>>) = 0
      OBVIOUS
    <3>4. p \in Preds /\ p.clauses = <<>> /\ p.code = <<>>
      BY <3>2, <3>3 DEF Preds
    <3>5. QED
      BY <3>3, <3>4 DEF FineClauses, FineWords
  <2>3. QED
    BY <2>1, <2>2
<1>3. ASSUME NEW i
      PROVE  /\ Within(p, i) \in Nat
             /\ Share(predicates, f, i) = Within(p, i) + (IF Known(f) /\ f = i THEN 1 ELSE 0)
  <2>1. InClauses(p.clauses, i) \in Nat /\ Occurrences(i, p.code) \in Nat
        /\ ReferencesOf(p, i) = InClauses(p.clauses, i) + Occurrences(i, p.code)
    BY <1>2, ReferencesOfFacts
  <2>2. CASE Known(f)
    <3>1. p = predicates[f] /\ f \in DOMAIN predicates
      BY <2>2 DEF Old, Known
    <3>2. Share(predicates, f, i) = ReferencesOf(p, i) + (IF f = i THEN 1 ELSE 0)
      BY <3>1 DEF Share
    <3>3. QED
      BY <2>1, <2>2, <3>2 DEF Within
  <2>3. CASE ~Known(f)
    <3>1. p = Predicate(d, <<>>, <<>>)
      BY <2>3 DEF Old
    <3>2. p.clauses = <<>> /\ p.code = <<>>
      BY <3>1 DEF Predicate
    <3>3. Within(p, i) = 0
      BY <3>2, NothingRefers DEF Within
    <3>4. Share(predicates, f, i) = 0
      BY <2>3 DEF Share, Known
    <3>5. QED
      BY <2>3, <3>3, <3>4
  <2>4. QED
    BY <2>2, <2>3
<1>4. QED
  BY <1>2, <1>3

\* The predicate of f becomes q, the counts grow as much as the references do.
Grown(f, p, q, t) ==
  /\ Counts(Here, t)
  /\ \A i \in Live(Here) :
       At0(t, i).references >= At0(Here, i).references + Within(q, i) - Within(p, i)
                                 + (IF Known(f) \/ f # i THEN 0 ELSE 1)

(* Giving one predicate other clauses or code, with the table recounted for
   them, keeps the invariant. *)
LEMMA DefiningKeeps ==
  ASSUME TableInv, NEW f \in Live(Here), Meaning(Here, f)[1] = "functor",
         NEW d \in BOOLEAN, NEW p, p = Old(f, d),
         NEW q \in Preds, FineClauses(Here, q.clauses), FineWords(Here, q.code),
         NEW t, Grown(f, p, q, t)
  PROVE  Good(t, words, Define(f, q), records)
<1>1. PICK P, R, Q, s : P = predicates /\ R = records /\ Q = Define(f, q) /\ s = Here
  OBVIOUS
<1>2. Good(s, words, P, R)
  BY <1>1 DEF TableInv
<1>3. /\ s \in Stores /\ NamesOK(s) /\ Sound(s, Owned(P, R)) /\ OwnersOK(P, R)
      /\ \A w : IsKept(P, R, w) => Fine(s, w)
      /\ \A g \in DOMAIN P : Meaning(s, g)[1] = "functor"
  BY <1>2, GoodFacts
<1>4. f \in Index /\ f \in Nat
  <2>1. f \in Indices(s) /\ f \in Nat /\ Len(s.ct) \in Nat
    BY <1>1, <1>3, StoreFacts
  <2>2. Len(s.ct) <= TableSize
    BY <1>2 DEF Good
  <2>3. QED
    BY <2>1, <2>2, TableAssumption DEF Indices, Index
<1>5. Q = [g \in DOMAIN P \cup {f} |-> IF g = f THEN q ELSE P[g]]
  BY <1>1 DEF Define
<1>6. DOMAIN Q = DOMAIN P \cup {f} /\ Q[f] = q /\ \A g \in DOMAIN P : g # f => Q[g] = P[g]
  BY <1>5
<1>7. OwnersOK(Q, R)
  BY <1>3, <1>4, <1>6 DEF OwnersOK
<1>8. OnlyAt(P, Q, f)
  BY <1>6 DEF OnlyAt
<1>9. ASSUME NEW i \in Nat
      PROVE  Owned(Q, R)[i] = Owned(P, R)[i] + Within(q, i) - Within(p, i)
                                + (IF Known(f) \/ f # i THEN 0 ELSE 1)
             /\ Within(q, i) \in Nat /\ Within(p, i) \in Nat
             /\ Owned(P, R)[i] \in Nat /\ Owned(Q, R)[i] \in Nat
  <2>1. Owned(Q, R)[i] = Owned(P, R)[i] + Share(Q, f, i) - Share(P, f, i)
    BY <1>3, <1>4, <1>7, <1>8, PredicateChanged
  <2>2. Share(P, f, i) = Within(p, i) + (IF Known(f) /\ f = i THEN 1 ELSE 0) /\ Within(p, i) \in Nat
    BY <1>1, OldFacts
  <2>3. ReferencesOf(q, i) = Within(q, i) /\ Within(q, i) \in Nat
    BY ReferencesOfFacts DEF Within
  <2>4. Share(Q, f, i) = Within(q, i) + (IF f = i THEN 1 ELSE 0)
    BY <1>6, <2>3 DEF Share
  <2>5. Owned(P, R)[i] \in Nat /\ Owned(Q, R)[i] \in Nat
    BY <1>3, <1>7, OwnedFacts
  <2>6. QED
    BY <2>1, <2>2, <2>3, <2>4, <2>5
<1>10. ASSUME NEW i \in Nat, Owned(Q, R)[i] > 0
       PROVE  i \in Live(s)
  <2>1. SUFFICES ASSUME i \notin Live(s) PROVE FALSE
    OBVIOUS
  <2>2. InClauses(q.clauses, i) = 0 /\ Occurrences(i, q.code) = 0
    BY <1>1, <2>1, FineClausesFacts, FineWordsFacts
  <2>3. Within(q, i) = 0
    BY <2>2 DEF Within
  <2>4. f # i
    BY <1>1, <2>1
  <2>5. Owned(P, R)[i] = 0
    <3>1. ~(Owned(P, R)[i] > 0) /\ Owned(P, R)[i] \in Nat
      BY <1>3, <1>9, <2>1 DEF Sound, Covers
    <3>2. QED
      BY <3>1
  <2>6. QED
    BY <1>9, <1>10, <2>3, <2>4, <2>5
<1>11. ASSUME NEW i \in Live(s)
       PROVE  At0(t, i).references >= At0(s, i).references + Owned(Q, R)[i] - Owned(P, R)[i]
  <2>1. i \in Nat /\ At0(s, i).references \in Int
    BY <1>3, StoreFacts, CountsAreInts
  <2>2. At0(t, i).references >= At0(s, i).references + Within(q, i) - Within(p, i)
                                  + (IF Known(f) \/ f # i THEN 0 ELSE 1)
    BY <1>1 DEF Grown
  <2>3. Owned(Q, R)[i] = Owned(P, R)[i] + Within(q, i) - Within(p, i)
                           + (IF Known(f) \/ f # i THEN 0 ELSE 1)
        /\ Within(q, i) \in Nat /\ Within(p, i) \in Nat
        /\ Owned(P, R)[i] \in Nat /\ Owned(Q, R)[i] \in Nat
    BY <1>9, <2>1
  <2>4. PICK x, y \in Int : x = Within(q, i) - Within(p, i) + (IF Known(f) \/ f # i THEN 0 ELSE 1)
                            /\ y = At0(s, i).references
    BY <2>1, <2>3
  <2>5. Owned(Q, R)[i] - Owned(P, R)[i] = x
    BY <2>3, <2>4
  <2>6. At0(t, i).references >= y + x
    BY <2>2, <2>3, <2>4
  <2>7. y + Owned(Q, R)[i] - Owned(P, R)[i] = y + x
    BY <2>3, <2>4, <2>5
  <2>8. QED
    BY <2>4, <2>6, <2>7
<1>12. Counts(s, t)
  BY <1>1 DEF Grown
<1>13. Recounted(s, t, Owned(P, R), Owned(Q, R))
  <2>1. Owned(Q, R) \in [Nat -> Nat]
    BY <1>7, OwnedFacts
  <2>2. QED
    BY <1>10, <1>11, <1>12, <2>1 DEF Recounted
<1>14. ASSUME NEW w, IsKept(Q, R, w)
       PROVE  Fine(s, w)
  <2>1. CASE IsKept(P, R, w)
    BY <1>3, <2>1
  <2>2. CASE \/ \E k \in 1..Len(q.clauses) : w = q.clauses[k].term[1] \/ w = q.clauses[k].term[2]
             \/ \E k \in 1..Len(q.code) : w = q.code[k]
    BY <1>1, <2>2 DEF FineClauses, FineWords
  <2>3. QED
    BY <1>6, <1>14, <2>1, <2>2 DEF IsKept
<1>15. \A g \in DOMAIN Q : Meaning(s, g)[1] = "functor"
  BY <1>1, <1>3, <1>6
<1>16. Good(t, words, Q, R)
  BY <1>2, <1>7, <1>13, <1>14, <1>15, RecountingKeeps
<1>17. QED
  BY <1>1, <1>16

(***************************************************************************)
(* The actions                                                             *)
(***************************************************************************)
\* What the variables hold after a step
LEMMA HeldAfter ==
  ASSUME NEW t, NEW P, NEW R, NEW ws, Good(t, ws, P, R), Become(t),
         words' = ws, predicates' = P, records' = R
  PROVE  TableInv'
<1>1. t \in Stores
  BY GoodFacts
<1>2. Here' = t
  BY <1>1, BecomeFacts
<1>3. QED
  BY <1>2 DEF TableInv

\* A term on the heap: constants that mean what they did
LEMMA TermFacts ==
  ASSUME TableInv, NEW t \in HeapTerms
  PROVE  /\ FineWords(Here, t) /\ Len(t) \in 1..2
         /\ t \in Compounds => Len(t) = 2 /\ Meaning(Here, t[1].word)[1] = "functor"
<1>1. words \in Seq(HeapWord) /\ Here \in Stores /\ NamesOK(Here)
  BY GoodFacts DEF TableInv, Good
<1>2. PICK n \in Nat : n = Len(words) /\ DOMAIN words = 1..n /\ \A k \in 1..n : words[k] \in HeapWord
  BY <1>1, LenProperties, ElementOfSeq
<1>3. ASSUME NEW w \in HeapWord, Means(w)
      PROVE  Fine(Here, w) /\ w \in KeptWord
  <2>1. Meaning(Here, w.word) = w.means
    BY <1>3 DEF Means
  <2>2. w.means \in Meanings
    BY <1>1, <2>1, NothingIsLost DEF HeapWord
  <2>3. w.word \in Live(Here)
    BY <1>1, <2>1, <2>2, MeaningFacts
  <2>4. w \in KeptWord
    BY <2>2 DEF HeapWord, KeptWord
  <2>5. QED
    BY <2>1, <2>3, <2>4 DEF Fine
<1>4. CASE \E k \in DOMAIN words : t = <<words[k]>> /\ Means(words[k])
  <2>1. PICK w : w \in KeptWord /\ t = <<w>> /\ Fine(Here, w)
    BY <1>2, <1>3, <1>4
  <2>2. t \in Seq(KeptWord) /\ Len(t) = 1 /\ t[1] = w
    BY <2>1
  <2>3. FineWords(Here, t)
    BY <2>1, <2>2 DEF FineWords
  <2>4. t \notin Compounds
    BY <2>2 DEF Compounds
  <2>5. QED
    BY <2>2, <2>3, <2>4
<1>5. CASE \E k \in 1..Len(words) - 1 :
             /\ t = <<words[k], words[k + 1]>>
             /\ words[k].means[1] = "functor" /\ Means(words[k]) /\ Means(words[k + 1])
  <2>1. PICK k \in 1..n - 1 :
             /\ t = <<words[k], words[k + 1]>>
             /\ words[k].means[1] = "functor" /\ Means(words[k]) /\ Means(words[k + 1])
    BY <1>2, <1>5
  <2>2. k \in 1..n /\ k + 1 \in 1..n
    BY <2>1
  <2>3. PICK v, w : v = words[k] /\ w = words[k + 1] /\ v \in HeapWord /\ w \in HeapWord
    BY <1>2, <2>2
  <2>4. t = <<v, w>> /\ v.means[1] = "functor" /\ Means(v) /\ Means(w)
    BY <2>1, <2>3
  <2>5. t \in Seq(KeptWord) /\ Len(t) = 2 /\ t[1] = v /\ t[2] = w
    BY <1>3, <2>3, <2>4
  <2>6. Fine(Here, v) /\ Fine(Here, w)
    BY <1>3, <2>3, <2>4
  <2>7. FineWords(Here, t)
    BY <2>5, <2>6 DEF FineWords
  <2>8. Meaning(Here, v.word)[1] = "functor"
    BY <2>4 DEF Means
  <2>9. QED
    BY <2>5, <2>7, <2>8
<1>6. QED
  BY <1>4, <1>5 DEF HeapTerms, AtomsOnHeap

\* The words of a copy stay in the table while it is counted.
LEMMA FineIsLive ==
  ASSUME NEW s, NEW t, Counts(s, t), NEW kept, FineWords(s, kept)
  PROVE  AllLive(t, kept) /\ t \in Stores
BY DEF FineWords, Fine, AllLive, Counts

\* The name of a new predicate
LEMMA NamedForFacts ==
  ASSUME NEW s, NEW f, s \in Stores, f \in Live(s), NEW t, t = NamedFor(s, f)
  PROVE  /\ Counts(s, t)
         /\ \A j \in Live(s) : At0(s, j).references \in Int
         /\ \A j \in Live(s) : At0(t, j).references
              = At0(s, j).references + (IF Known(f) \/ f # j THEN 0 ELSE 1)
<1>1. CASE Known(f)
  <2>1. t = s
    BY <1>1 DEF NamedFor
  <2>2. \A j \in Live(s) : At0(s, j).references \in Int
    BY CountsAreInts
  <2>3. QED
    BY <1>1, <2>1, <2>2, CountsSelf
<1>2. CASE ~Known(f)
  <2>1. t = acquire_constant(s, f)
    BY <1>2 DEF NamedFor
  <2>2. PICK d \in Int : d = 1
    OBVIOUS
  <2>3. /\ Counts(s, t)
        /\ \A j \in Live(s) : At0(s, j).references \in Int
        /\ \A j \in Live(s) : At0(t, j).references = At0(s, j).references + (IF j = f THEN d ELSE 0)
    BY <2>1, <2>2, CountingOne
  <2>4. QED
    BY <1>2, <2>2, <2>3
<1>3. QED
  BY <1>1, <1>2

\* ds is cs with clause c more, at the end or in front.
WithClause(cs, c, ds) == ds = Append(cs, c) \/ ds = <<c>> \o cs

\* A clause more, or less, and the words of clauses
LEMMA FineAdded ==
  ASSUME NEW s, NEW cs, FineClauses(s, cs), NEW c \in Facts,
         Fine(s, c.term[1]), Fine(s, c.term[2]), NEW ds, WithClause(cs, c, ds)
  PROVE  /\ FineClauses(s, ds) /\ cs \in Seq(Facts)
         /\ \A i : \E j \in 1..Len(ds) : ds[j] = c /\ InClauses(ds, i) = InClauses(cs, i) + Weights(ds, i)[j]
<1>1. cs \in Seq(Facts)
  BY DEF FineClauses
<1>2. PICK j : /\ ds \in Seq(Facts) /\ Len(ds) = Len(cs) + 1
               /\ j \in 1..Len(ds) /\ ds[j] = c /\ Inserted(cs, ds, Len(cs), j)
  BY <1>1, ClausesAdded DEF WithClause
<1>3. \A i : InClauses(ds, i) = InClauses(cs, i) + Weights(ds, i)[j]
  BY <1>1, <1>2, InClausesInserted
<1>4. PICK n \in Nat : n = Len(cs) /\ Len(ds) = n + 1
  BY <1>1, <1>2, LenProperties
<1>5. ASSUME NEW k \in 1..n + 1
      PROVE  Fine(s, ds[k].term[1]) /\ Fine(s, ds[k].term[2])
  <2>1. /\ j \in 1..n + 1
        /\ \A m \in 1..n : m < j => ds[m] = cs[m]
        /\ \A m \in 1..n : m >= j => ds[m + 1] = cs[m]
    BY <1>2, <1>4 DEF Inserted
  <2>2. \A m \in 1..n : Fine(s, cs[m].term[1]) /\ Fine(s, cs[m].term[2])
    BY <1>4 DEF FineClauses
  <2>3. CASE k = j
    BY <1>2, <2>3
  <2>4. CASE k < j
    <3>1. k \in 1..n /\ ds[k] = cs[k]
      BY <2>1, <2>4
    <3>2. QED
      BY <2>2, <3>1
  <2>5. CASE k > j
    <3>1. PICK m \in 1..n : m + 1 = k /\ m >= j
      <4>1. k - 1 \in 1..n /\ (k - 1) + 1 = k /\ k - 1 >= j
        BY <2>1, <2>5
      <4>2. QED
        BY <4>1
    <3>2. ds[k] = cs[m]
      BY <2>1, <3>1
    <3>3. QED
      BY <2>2, <3>2
  <2>6. QED
    BY <2>1, <2>3, <2>4, <2>5
<1>6. FineClauses(s, ds)
  BY <1>2, <1>4, <1>5 DEF FineClauses
<1>7. QED
  BY <1>1, <1>2, <1>3, <1>6

\* ds is cs without its j-th.
Without(cs, j, ds) == ds = SubSeq(cs, 1, j - 1) \o SubSeq(cs, j + 1, Len(cs))

(* Clauses without one of them keep their constants live and hold no more. *)
LEMMA FineRemoved ==
  ASSUME NEW s, NEW cs, FineClauses(s, cs), NEW j \in 1..Len(cs), NEW ds, Without(cs, j, ds)
  PROVE  FineClauses(s, ds) /\ \A i : InClauses(ds, i) <= InClauses(cs, i)
<1>1. cs \in Seq(Facts)
  BY DEF FineClauses
<1>2. ds \in Seq(Facts) /\ Len(cs) = Len(ds) + 1 /\ Inserted(ds, cs, Len(ds), j)
  BY <1>1, ClauseRemoved DEF Without
<1>3. ASSUME NEW i
      PROVE  InClauses(ds, i) <= InClauses(cs, i)
  <2>1. InClauses(cs, i) = InClauses(ds, i) + Weights(cs, i)[j]
    BY <1>1, <1>2, InClausesInserted
  <2>2. InClauses(ds, i) \in Nat /\ Weights(cs, i)[j] \in Nat
    BY <1>1, <1>2, InClausesFacts, WeightsFacts
  <2>3. QED
    BY <2>1, <2>2
<1>4. PICK n \in Nat : n = Len(ds) /\ Len(cs) = n + 1
  BY <1>2, LenProperties
<1>5. ASSUME NEW k \in 1..n
      PROVE  Fine(s, ds[k].term[1]) /\ Fine(s, ds[k].term[2])
  <2>1. /\ \A m \in 1..n : m < j => cs[m] = ds[m]
        /\ \A m \in 1..n : m >= j => cs[m + 1] = ds[m]
    BY <1>2, <1>4 DEF Inserted
  <2>2. k \in 1..Len(cs) /\ k + 1 \in 1..Len(cs)
    BY <1>4
  <2>3. ds[k] = cs[k] \/ ds[k] = cs[k + 1]
    BY <2>1
  <2>4. QED
    BY <2>2, <2>3 DEF FineClauses
<1>6. QED
  BY <1>2, <1>3, <1>4, <1>5 DEF FineClauses

\* The code of clauses: their arguments
LEMMA CodeOfFacts ==
  ASSUME NEW s, NEW cs, FineClauses(s, cs)
  PROVE  FineWords(s, CodeOf(cs))
<1>1. cs \in Seq(Facts)
  BY DEF FineClauses
<1>2. PICK n \in Nat : n = Len(cs) /\ DOMAIN cs = 1..n
  BY <1>1, LenProperties
<1>3. PICK c : c = CodeOf(cs) /\ c = [k \in 1..n |-> cs[k].term[2]]
  BY <1>2 DEF CodeOf
<1>4. \A k \in 1..n : Fine(s, cs[k].term[2]) /\ cs[k].term[2] \in KeptWord
  BY <1>2 DEF FineClauses, Fine
<1>5. c \in Seq(KeptWord)
  BY <1>3, <1>4, IsASeq
<1>6. Len(c) = n
  BY <1>2, <1>3, <1>5, LenProperties
<1>7. QED
  BY <1>3, <1>4, <1>5, <1>6 DEF FineWords

\* A clause that refers to a compound on the heap
LEMMA NewClause ==
  ASSUME NEW s, NEW t, FineWords(s, t), Len(t) = 2, NEW n \in 1..2
  PROVE  /\ Clause(t, n) \in Facts /\ Clause(t, n).term = t /\ Clause(t, n).times = n
         /\ Fine(s, Clause(t, n).term[1]) /\ Fine(s, Clause(t, n).term[2])
<1>1. Clause(t, n).term = t /\ Clause(t, n).times = n /\ Clause(t, n) \in Facts
  BY DEF Clause, Facts, FineWords
<1>2. QED
  BY <1>1 DEF FineWords

\* Consulting: two copies of the references
LEMMA AddClauseKeeps ==
  ASSUME TableInv, NEW t \in Compounds, AddClause(t)
  PROVE  TableInv'
<1>1. FineWords(Here, t) /\ Len(t) = 2 /\ Meaning(Here, t[1].word)[1] = "functor" /\ t \in Seq(KeptWord)
  BY TermFacts DEF Compounds, FineWords
<1>2. PICK f : f = t[1].word /\ f \in Live(Here)
  BY <1>1 DEF FineWords, Fine
<1>3. PICK p : p = Old(f, FALSE)
  OBVIOUS
<1>4. Here \in Stores
  BY GoodFacts DEF TableInv
<1>5. /\ p \in Preds /\ FineClauses(Here, p.clauses) /\ FineWords(Here, p.code)
      /\ \A i : Within(p, i) \in Nat
  BY <1>2, <1>3, OldFacts
<1>6. PICK c : c = Clause(t, 2)
  OBVIOUS
<1>7. c \in Facts /\ c.term = t /\ c.times = 2 /\ Fine(Here, c.term[1]) /\ Fine(Here, c.term[2])
  BY <1>1, <1>6, NewClause
<1>8. PICK ds : ds = Append(p.clauses, c)
  OBVIOUS
<1>9. /\ FineClauses(Here, ds) /\ ds \in Seq(Facts)
      /\ \A i : \E j \in 1..Len(ds) : ds[j] = c /\ InClauses(ds, i) = InClauses(p.clauses, i) + Weights(ds, i)[j]
  <2>1. PICK cs : cs = p.clauses
    OBVIOUS
  <2>2. FineClauses(Here, cs) /\ WithClause(cs, c, ds)
    BY <1>5, <1>8, <2>1 DEF WithClause
  <2>3. /\ FineClauses(Here, ds)
        /\ \A i : \E j \in 1..Len(ds) : ds[j] = c /\ InClauses(ds, i) = InClauses(cs, i) + Weights(ds, i)[j]
    BY <1>7, <2>2, FineAdded
  <2>4. ds \in Seq(Facts)
    BY <2>3 DEF FineClauses
  <2>5. QED
    BY <2>1, <2>3, <2>4
<1>10. PICK q : q = [p EXCEPT !.clauses = Append(@, c)]
  OBVIOUS
<1>11. q \in Preds /\ q.clauses = ds /\ q.code = p.code
  BY <1>5, <1>8, <1>9, <1>10 DEF Preds
<1>12. \A i : Within(q, i) = Within(p, i) + Occurrences(i, t) + Occurrences(i, t)
  <2>1. SUFFICES ASSUME NEW i
                 PROVE  Within(q, i) = Within(p, i) + Occurrences(i, t) + Occurrences(i, t)
    OBVIOUS
  <2>2. PICK j \in 1..Len(ds) : ds[j] = c /\ InClauses(ds, i) = InClauses(p.clauses, i) + Weights(ds, i)[j]
    BY <1>9
  <2>3. Weights(ds, i)[j] = Occurrences(i, t) + Occurrences(i, t) /\ Occurrences(i, t) \in Nat
    BY <1>7, <1>9, <2>2, WeightsFacts
  <2>4. InClauses(p.clauses, i) \in Nat /\ Occurrences(i, p.code) \in Nat
    BY <1>5, ReferencesOfFacts
  <2>5. QED
    BY <1>11, <2>2, <2>3, <2>4 DEF Within
<1>13. PICK s1, s2, s3 : s1 = copy_local(Here, t) /\ s2 = copy_local(s1, t) /\ s3 = NamedFor(s2, f)
  OBVIOUS
<1>14. Shifts(Here, s1, t, TRUE)
  BY <1>1, <1>4, <1>13, FineIsLive, CountsSelf, AcquireAllFacts DEF copy_local
<1>15. Counts(Here, s1)
  BY <1>14 DEF Shifts
<1>16. Shifts(s1, s2, t, TRUE)
  BY <1>1, <1>13, <1>15, FineIsLive, AcquireAllFacts DEF copy_local
<1>17. Counts(Here, s2) /\ s2 \in Stores /\ f \in Live(s2)
  BY <1>2, <1>15, <1>16, CountsTwice DEF Shifts, Counts
<1>18. /\ Counts(s2, s3)
       /\ \A j \in Live(s2) : At0(s2, j).references \in Int
       /\ \A j \in Live(s2) : At0(s3, j).references
            = At0(s2, j).references + (IF Known(f) \/ f # j THEN 0 ELSE 1)
  BY <1>13, <1>17, NamedForFacts
<1>19. Counts(Here, s3)
  BY <1>17, <1>18, CountsTwice
<1>20. ASSUME NEW i \in Live(Here)
       PROVE  At0(s3, i).references >= At0(Here, i).references + Within(q, i) - Within(p, i)
                                         + (IF Known(f) \/ f # i THEN 0 ELSE 1)
  <2>1. i \in Live(s1) /\ i \in Live(s2)
    BY <1>15, <1>17 DEF Counts
  <2>2. PICK n \in Nat : n = Occurrences(i, t)
    BY <1>1, OccurrencesFacts
  <2>3. At0(s1, i).references = At0(Here, i).references + n /\ At0(Here, i).references \in Int
    BY <1>14, <2>2 DEF Shifts, Change
  <2>4. At0(s2, i).references = At0(s1, i).references + n
    BY <1>16, <2>1, <2>2 DEF Shifts, Change
  <2>5. At0(s3, i).references = At0(s2, i).references + (IF Known(f) \/ f # i THEN 0 ELSE 1)
    BY <1>18, <2>1
  <2>6. Within(q, i) = Within(p, i) + n + n /\ Within(p, i) \in Nat
    BY <1>5, <1>12, <2>2
  <2>7. QED
    BY <2>3, <2>4, <2>5, <2>6
<1>21. Grown(f, p, q, s3)
  BY <1>19, <1>20 DEF Grown
<1>22. Good(s3, words, Define(f, q), records)
  BY <1>1, <1>2, <1>3, <1>5, <1>9, <1>11, <1>21, DefiningKeeps
<1>23. Become(s3) /\ words' = words /\ predicates' = Define(f, q) /\ records' = records
  BY <1>2, <1>3, <1>6, <1>10, <1>13 DEF AddClause
<1>24. QED
  BY <1>22, <1>23, HeldAfter

\* Code that is freed is not counted, and code that is assembled is.
LEMMA ReassembledFacts ==
  ASSUME NEW s \in Stores, NEW old, NEW new, FineWords(s, old), FineWords(s, new),
         NEW r, Counts(s, r), NEW t, t = acquireAll(releaseAll(r, WordsOf(old)), WordsOf(new))
  PROVE  /\ Counts(r, t)
         /\ \A i \in Live(r) :
              /\ At0(r, i).references \in Int /\ Occurrences(i, new) \in Nat /\ Occurrences(i, old) \in Nat
              /\ At0(t, i).references
                   = At0(r, i).references + Occurrences(i, new) - Occurrences(i, old)
<1>1. PICK u : u = releaseAll(r, WordsOf(old))
  OBVIOUS
<1>2. Shifts(r, u, old, FALSE)
  BY <1>1, FineIsLive, ReleaseAllFacts
<1>3. Counts(r, u) /\ Counts(s, u)
  BY <1>2, CountsTwice DEF Shifts
<1>4. Shifts(u, t, new, TRUE)
  BY <1>1, <1>3, FineIsLive, AcquireAllFacts
<1>5. Counts(r, t)
  BY <1>3, <1>4, CountsTwice DEF Shifts
<1>6. ASSUME NEW i \in Live(r)
      PROVE  /\ At0(r, i).references \in Int /\ Occurrences(i, new) \in Nat /\ Occurrences(i, old) \in Nat
             /\ At0(t, i).references = At0(r, i).references + Occurrences(i, new) - Occurrences(i, old)
  <2>1. i \in Live(u)
    BY <1>3 DEF Counts
  <2>2. PICK n, m \in Nat : n = Occurrences(i, new) /\ m = Occurrences(i, old)
    BY OccurrencesFacts DEF FineWords
  <2>3. At0(u, i).references = At0(r, i).references + (0 - m) /\ At0(r, i).references \in Int
    BY <1>2, <2>2 DEF Shifts, Change
  <2>4. At0(t, i).references = At0(u, i).references + n
    BY <1>4, <2>1, <2>2 DEF Shifts, Change
  <2>5. QED
    BY <2>2, <2>3, <2>4
<1>7. QED
  BY <1>5, <1>6

\* Asserting
LEMMA AssertClauseKeeps ==
  ASSUME TableInv, NEW t \in Compounds, NEW atEnd \in BOOLEAN, AssertClause(t, atEnd)
  PROVE  TableInv'
<1>1. FineWords(Here, t) /\ Len(t) = 2 /\ Meaning(Here, t[1].word)[1] = "functor" /\ t \in Seq(KeptWord)
  BY TermFacts DEF Compounds, FineWords
<1>2. PICK f : f = t[1].word /\ f \in Live(Here)
  BY <1>1 DEF FineWords, Fine
<1>3. PICK p : p = Old(f, TRUE)
  OBVIOUS
<1>4. Here \in Stores
  BY GoodFacts DEF TableInv
<1>5. /\ p \in Preds /\ FineClauses(Here, p.clauses) /\ FineWords(Here, p.code)
      /\ \A i : Within(p, i) \in Nat
  BY <1>2, <1>3, OldFacts
<1>6. PICK c : c = Clause(t, 1)
  OBVIOUS
<1>7. c \in Facts /\ c.term = t /\ c.times = 1 /\ Fine(Here, c.term[1]) /\ Fine(Here, c.term[2])
  BY <1>1, <1>6, NewClause
<1>8. PICK ds : ds = IF atEnd THEN Append(p.clauses, c) ELSE <<c>> \o p.clauses
  OBVIOUS
<1>a. ds = Append(p.clauses, c) \/ ds = <<c>> \o p.clauses
  BY <1>8
<1>9. /\ FineClauses(Here, ds) /\ ds \in Seq(Facts)
      /\ \A i : \E j \in 1..Len(ds) : ds[j] = c /\ InClauses(ds, i) = InClauses(p.clauses, i) + Weights(ds, i)[j]
  <2>1. PICK cs : cs = p.clauses
    OBVIOUS
  <2>2. FineClauses(Here, cs) /\ WithClause(cs, c, ds)
    BY <1>5, <1>a, <2>1 DEF WithClause
  <2>3. /\ FineClauses(Here, ds)
        /\ \A i : \E j \in 1..Len(ds) : ds[j] = c /\ InClauses(ds, i) = InClauses(cs, i) + Weights(ds, i)[j]
    BY <1>7, <2>2, FineAdded
  <2>4. ds \in Seq(Facts)
    BY <2>3 DEF FineClauses
  <2>5. QED
    BY <2>1, <2>3, <2>4
<1>10. PICK new : new = CodeOf(ds) /\ FineWords(Here, new)
  BY <1>9, CodeOfFacts
<1>11. PICK q : q = Predicate(TRUE, ds, new)
  OBVIOUS
<1>12. q \in Preds /\ q.clauses = ds /\ q.code = new
  BY <1>9, <1>10, <1>11 DEF Predicate, Preds, FineWords
<1>13. PICK s1, s2, s4 : /\ s1 = copy_local(Here, t) /\ s2 = NamedFor(s1, f)
                         /\ s4 = acquireAll(releaseAll(s2, WordsOf(p.code)), WordsOf(new))
  OBVIOUS
<1>14. Shifts(Here, s1, t, TRUE)
  BY <1>1, <1>4, <1>13, FineIsLive, CountsSelf, AcquireAllFacts DEF copy_local
<1>15. Counts(Here, s1) /\ s1 \in Stores /\ f \in Live(s1)
  BY <1>2, <1>14 DEF Shifts, Counts
<1>16. /\ Counts(s1, s2)
       /\ \A j \in Live(s1) : At0(s1, j).references \in Int
       /\ \A j \in Live(s1) : At0(s2, j).references
            = At0(s1, j).references + (IF Known(f) \/ f # j THEN 0 ELSE 1)
  BY <1>13, <1>15, NamedForFacts
<1>17. Counts(Here, s2)
  BY <1>15, <1>16, CountsTwice
<1>18. /\ Counts(s2, s4)
       /\ \A i \in Live(s2) :
            /\ At0(s2, i).references \in Int /\ Occurrences(i, new) \in Nat /\ Occurrences(i, p.code) \in Nat
            /\ At0(s4, i).references
                 = At0(s2, i).references + Occurrences(i, new) - Occurrences(i, p.code)
  BY <1>4, <1>5, <1>10, <1>13, <1>17, ReassembledFacts
<1>19. Counts(Here, s4)
  BY <1>17, <1>18, CountsTwice
<1>20. ASSUME NEW i \in Live(Here)
       PROVE  At0(s4, i).references >= At0(Here, i).references + Within(q, i) - Within(p, i)
                                         + (IF Known(f) \/ f # i THEN 0 ELSE 1)
  <2>1. i \in Live(s1) /\ i \in Live(s2)
    BY <1>15, <1>17 DEF Counts
  <2>2. PICK n \in Nat : n = Occurrences(i, t)
    BY <1>1, OccurrencesFacts
  <2>3. At0(s1, i).references = At0(Here, i).references + n /\ At0(Here, i).references \in Int
    BY <1>14, <2>2 DEF Shifts, Change
  <2>4. At0(s2, i).references = At0(s1, i).references + (IF Known(f) \/ f # i THEN 0 ELSE 1)
    BY <1>16, <2>1
  <2>5. PICK x, y \in Nat : /\ x = Occurrences(i, new) /\ y = Occurrences(i, p.code)
                            /\ At0(s4, i).references = At0(s2, i).references + x - y
    BY <1>18, <2>1
  <2>6. PICK j \in 1..Len(ds) : ds[j] = c /\ InClauses(ds, i) = InClauses(p.clauses, i) + Weights(ds, i)[j]
    BY <1>9
  <2>7. Weights(ds, i)[j] = n
    BY <1>7, <1>9, <2>2, <2>6, WeightsFacts
  <2>8. PICK z \in Nat : z = InClauses(p.clauses, i)
    BY <1>5, ReferencesOfFacts
  <2>9. Within(q, i) = z + n + x /\ Within(p, i) = z + y
    BY <1>12, <2>5, <2>6, <2>7, <2>8 DEF Within
  <2>10. PICK b \in Int : b = IF Known(f) \/ f # i THEN 0 ELSE 1
    OBVIOUS
  <2>11. PICK h \in Int : h = At0(Here, i).references
    BY <2>3
  <2>12. At0(s2, i).references = h + n + b
    BY <2>3, <2>4, <2>10, <2>11
  <2>13. At0(s4, i).references = h + n + b + x - y
    BY <2>5, <2>12
  <2>14. Within(q, i) - Within(p, i) = n + x - y
    BY <2>2, <2>5, <2>8, <2>9
  <2>15. h + n + b + x - y >= h + (n + x - y) + b
    <3>1. n \in Int /\ x \in Int /\ y \in Int /\ b \in Int /\ h \in Int
      BY <2>2, <2>5, <2>10, <2>11
    <3>2. QED
      BY <3>1
  <2>16. PICK v, w \in Int : v = Within(q, i) /\ w = Within(p, i)
    BY <2>2, <2>5, <2>8, <2>9
  <2>17. h + v - w + b = h + (n + x - y) + b
    BY <2>2, <2>5, <2>10, <2>11, <2>14, <2>16
  <2>18. At0(s4, i).references >= At0(Here, i).references + Within(q, i) - Within(p, i) + b
    BY <2>11, <2>13, <2>15, <2>16, <2>17
  <2>19. QED
    BY <2>10, <2>18
<1>21. Grown(f, p, q, s4)
  BY <1>19, <1>20 DEF Grown
<1>22. Good(s4, words, Define(f, q), records)
  BY <1>1, <1>2, <1>3, <1>5, <1>9, <1>10, <1>12, <1>21, DefiningKeeps
<1>23. Become(s4) /\ words' = words /\ predicates' = Define(f, q) /\ records' = records
  BY <1>2, <1>3, <1>6, <1>8, <1>10, <1>11, <1>13 DEF AssertClause, assemble, free_clauses
<1>24. QED
  BY <1>22, <1>23, HeldAfter

\* A predicate that there is
LEMMA KnownFacts ==
  ASSUME TableInv, NEW f \in DOMAIN predicates, NEW p, p = predicates[f]
  PROVE  /\ Known(f) /\ f \in Live(Here) /\ Meaning(Here, f)[1] = "functor" /\ p = Old(f, TRUE)
         /\ p \in Preds /\ FineClauses(Here, p.clauses) /\ FineWords(Here, p.code)
         /\ Here \in Stores /\ Counts(Here, Here)
         /\ \A i : /\ Within(p, i) = InClauses(p.clauses, i) + Occurrences(i, p.code)
                   /\ InClauses(p.clauses, i) \in Nat /\ Occurrences(i, p.code) \in Nat
                   /\ Within(p, i) \in Nat /\ (IF Known(f) \/ f # i THEN 0 ELSE 1) = 0
         /\ \A i \in Live(Here) : At0(Here, i).references \in Int
<1>1. /\ Here \in Stores /\ f \in Live(Here) /\ Meaning(Here, f)[1] = "functor"
      /\ p \in Preds /\ FineClauses(Here, p.clauses) /\ FineWords(Here, p.code)
  BY GoodFacts DEF TableInv
<1>2. Known(f) /\ p = Old(f, TRUE)
  BY DEF Known, Old
<1>3. \A i : /\ Within(p, i) = InClauses(p.clauses, i) + Occurrences(i, p.code)
             /\ InClauses(p.clauses, i) \in Nat /\ Occurrences(i, p.code) \in Nat
  BY <1>1, ReferencesOfFacts DEF Within
<1>a. \A i : Within(p, i) \in Nat /\ (IF Known(f) \/ f # i THEN 0 ELSE 1) = 0
  <2>1. SUFFICES ASSUME NEW i
                 PROVE  Within(p, i) \in Nat /\ (IF Known(f) \/ f # i THEN 0 ELSE 1) = 0
    OBVIOUS
  <2>2. PICK x, y \in Nat : Within(p, i) = x + y
    BY <1>3
  <2>3. Within(p, i) \in Nat
    BY <2>2
  <2>4. QED
    BY <1>2, <2>3
<1>4. \A i \in Live(Here) : At0(Here, i).references \in Int
  BY <1>1, CountsAreInts
<1>5. QED
  BY <1>1, <1>2, <1>3, <1>a, <1>4, CountsSelf

\* set_dynamic changes no references.
LEMMA SetDynamicKeeps ==
  ASSUME TableInv, NEW f \in DOMAIN predicates, SetDynamic(f)
  PROVE  TableInv'
<1>1. PICK p : p = predicates[f]
  OBVIOUS
<1>2. /\ Known(f) /\ f \in Live(Here) /\ Meaning(Here, f)[1] = "functor" /\ p = Old(f, TRUE)
      /\ p \in Preds /\ FineClauses(Here, p.clauses) /\ FineWords(Here, p.code)
      /\ Counts(Here, Here)
      /\ \A i : /\ Within(p, i) = InClauses(p.clauses, i) + Occurrences(i, p.code)
                /\ InClauses(p.clauses, i) \in Nat /\ Occurrences(i, p.code) \in Nat
                /\ Within(p, i) \in Nat /\ (IF Known(f) \/ f # i THEN 0 ELSE 1) = 0
      /\ \A i \in Live(Here) : At0(Here, i).references \in Int
  BY <1>1, KnownFacts
<1>3. PICK q : q = [p EXCEPT !.dynamic = TRUE]
  OBVIOUS
<1>4. q \in Preds /\ q.clauses = p.clauses /\ q.code = p.code
  BY <1>2, <1>3 DEF Preds
<1>5. \A i : Within(q, i) = Within(p, i)
  BY <1>4 DEF Within
<1>6. ASSUME NEW i \in Live(Here)
      PROVE  At0(Here, i).references >= At0(Here, i).references + Within(q, i) - Within(p, i)
                                          + (IF Known(f) \/ f # i THEN 0 ELSE 1)
  <2>1. PICK w \in Int : w = Within(p, i) /\ Within(q, i) = w
    <3>1. Within(p, i) \in Nat
      BY <1>2
    <3>2. Within(q, i) = Within(p, i)
      BY <1>5
    <3>3. QED
      BY <3>1, <3>2
  <2>2. PICK h \in Int : h = At0(Here, i).references
    BY <1>2
  <2>3. h >= h + w - w + 0
    BY <2>1, <2>2
  <2>4. QED
    BY <1>2, <2>1, <2>2, <2>3
<1>7. Grown(f, p, q, Here)
  BY <1>2, <1>6 DEF Grown
<1>8. Good(Here, words, Define(f, q), records)
  BY <1>2, <1>4, <1>7, DefiningKeeps
<1>9. /\ Become(Here) /\ words' = words /\ predicates' = Define(f, q) /\ records' = records
  BY <1>1, <1>3 DEF SetDynamic, Become, Here, Store
<1>10. QED
  BY <1>8, <1>9, HeldAfter

\* Compiling counts the constants of the code.
LEMMA CompileOnCallKeeps ==
  ASSUME TableInv, NEW f \in DOMAIN predicates, CompileOnCall(f)
  PROVE  TableInv'
<1>1. PICK p, new : p = predicates[f] /\ new = CodeOf(p.clauses)
  OBVIOUS
<1>2. /\ Known(f) /\ f \in Live(Here) /\ Meaning(Here, f)[1] = "functor" /\ p = Old(f, TRUE)
      /\ p \in Preds /\ FineClauses(Here, p.clauses) /\ FineWords(Here, p.code)
      /\ Here \in Stores /\ Counts(Here, Here)
      /\ \A i : /\ Within(p, i) = InClauses(p.clauses, i) + Occurrences(i, p.code)
                /\ InClauses(p.clauses, i) \in Nat /\ Occurrences(i, p.code) \in Nat
                /\ Within(p, i) \in Nat /\ (IF Known(f) \/ f # i THEN 0 ELSE 1) = 0
      /\ \A i \in Live(Here) : At0(Here, i).references \in Int
  BY <1>1, KnownFacts
<1>3. FineWords(Here, new)
  BY <1>1, <1>2, CodeOfFacts
<1>4. PICK q : q = [p EXCEPT !.code = new]
  OBVIOUS
<1>5. q \in Preds /\ q.clauses = p.clauses /\ q.code = new
  BY <1>2, <1>3, <1>4 DEF Preds, FineWords
<1>6. PICK t : t = acquireAll(Here, WordsOf(new))
  OBVIOUS
<1>7. Shifts(Here, t, new, TRUE) /\ Counts(Here, t)
  BY <1>2, <1>3, <1>6, FineIsLive, AcquireAllFacts DEF Shifts
<1>8. ASSUME NEW i \in Live(Here)
      PROVE  At0(t, i).references >= At0(Here, i).references + Within(q, i) - Within(p, i)
                                       + (IF Known(f) \/ f # i THEN 0 ELSE 1)
  <2>1. PICK n \in Nat : n = Occurrences(i, new)
    BY <1>3, OccurrencesFacts DEF FineWords
  <2>2. PICK h \in Int : h = At0(Here, i).references
    BY <1>2
  <2>3. At0(t, i).references = h + n
    BY <1>7, <2>1, <2>2 DEF Shifts, Change
  <2>4. PICK z \in Nat : z = InClauses(p.clauses, i)
    BY <1>2
  <2>5. p.code = <<>>
    BY <1>1 DEF CompileOnCall
  <2>6. Within(p, i) = z + 0
    BY <2>4, <2>5, NothingRefers DEF Within
  <2>7. Within(q, i) = z + n
    BY <1>5, <2>1, <2>4 DEF Within
  <2>8. h + n >= h + (z + n) - (z + 0) + 0
    <3>1. h \in Int /\ z \in Int /\ n \in Int
      BY <2>1, <2>2, <2>4
    <3>2. QED
      BY <3>1
  <2>9. QED
    BY <1>2, <2>2, <2>3, <2>6, <2>7, <2>8
<1>9. Grown(f, p, q, t)
  BY <1>7, <1>8 DEF Grown
<1>10. Good(t, words, Define(f, q), records)
  BY <1>2, <1>3, <1>5, <1>9, DefiningKeeps
<1>11. Become(t) /\ words' = words /\ predicates' = Define(f, q) /\ records' = records
  BY <1>1, <1>4, <1>6 DEF CompileOnCall, assemble
<1>12. QED
  BY <1>10, <1>11, HeldAfter

\* Retracting: the references of the clause are kept, those of the code are counted again.
LEMMA RetractClauseKeeps ==
  ASSUME TableInv, NEW f \in DOMAIN predicates, NEW k \in DOMAIN predicates[f].clauses,
         RetractClause(f, k)
  PROVE  TableInv'
<1>1. PICK p, cs : p = predicates[f] /\ cs = p.clauses
  OBVIOUS
<1>2. /\ Known(f) /\ f \in Live(Here) /\ Meaning(Here, f)[1] = "functor" /\ p = Old(f, TRUE)
      /\ p \in Preds /\ FineClauses(Here, p.clauses) /\ FineWords(Here, p.code)
      /\ Here \in Stores /\ Counts(Here, Here)
      /\ \A i : /\ Within(p, i) = InClauses(p.clauses, i) + Occurrences(i, p.code)
                /\ InClauses(p.clauses, i) \in Nat /\ Occurrences(i, p.code) \in Nat
                /\ Within(p, i) \in Nat /\ (IF Known(f) \/ f # i THEN 0 ELSE 1) = 0
      /\ \A i \in Live(Here) : At0(Here, i).references \in Int
  BY <1>1, KnownFacts
<1>3. cs \in Seq(Facts) /\ FineClauses(Here, cs)
  BY <1>1, <1>2 DEF FineClauses
<1>4. k \in 1..Len(cs)
  BY <1>1, <1>3
<1>5. PICK ds : ds = SubSeq(cs, 1, k - 1) \o SubSeq(cs, k + 1, Len(cs))
  OBVIOUS
<1>6. FineClauses(Here, ds) /\ \A i : InClauses(ds, i) <= InClauses(cs, i)
  <2>1. Without(cs, k, ds)
    BY <1>5 DEF Without
  <2>2. QED
    BY <1>3, <1>4, <2>1, FineRemoved
<1>7. ds \in Seq(Facts)
  BY <1>6 DEF FineClauses
<1>8. PICK new : new = CodeOf(ds) /\ FineWords(Here, new)
  BY <1>6, CodeOfFacts
<1>9. PICK q : q = Predicate(TRUE, ds, new)
  OBVIOUS
<1>10. q \in Preds /\ q.clauses = ds /\ q.code = new
  BY <1>7, <1>8, <1>9 DEF Predicate, Preds, FineWords
<1>11. PICK t : t = acquireAll(releaseAll(Here, WordsOf(p.code)), WordsOf(new))
  OBVIOUS
<1>12. /\ Counts(Here, t)
       /\ \A i \in Live(Here) :
            /\ At0(Here, i).references \in Int /\ Occurrences(i, new) \in Nat /\ Occurrences(i, p.code) \in Nat
            /\ At0(t, i).references
                 = At0(Here, i).references + Occurrences(i, new) - Occurrences(i, p.code)
  <2>1. PICK old : old = p.code
    OBVIOUS
  <2>2. Here \in Stores /\ FineWords(Here, old) /\ FineWords(Here, new) /\ Counts(Here, Here)
    BY <1>2, <1>8, <2>1
  <2>3. t = acquireAll(releaseAll(Here, WordsOf(old)), WordsOf(new))
    BY <1>11, <2>1
  <2>4. /\ Counts(Here, t)
        /\ \A i \in Live(Here) :
             /\ At0(Here, i).references \in Int /\ Occurrences(i, new) \in Nat /\ Occurrences(i, old) \in Nat
             /\ At0(t, i).references
                  = At0(Here, i).references + Occurrences(i, new) - Occurrences(i, old)
    BY <2>2, <2>3, ReassembledFacts
  <2>5. QED
    BY <2>1, <2>4
<1>13. ASSUME NEW i \in Live(Here)
       PROVE  At0(t, i).references >= At0(Here, i).references + Within(q, i) - Within(p, i)
                                        + (IF Known(f) \/ f # i THEN 0 ELSE 1)
  <2>1. PICK x, y \in Nat : x = Occurrences(i, new) /\ y = Occurrences(i, p.code)
    BY <1>12
  <2>2. PICK h \in Int : h = At0(Here, i).references
    BY <1>2
  <2>3. At0(t, i).references = h + x - y
    BY <1>12, <2>1, <2>2
  <2>4. PICK v \in Nat : v = InClauses(ds, i)
    BY <1>7, InClausesFacts
  <2>5. PICK z \in Nat : z = InClauses(cs, i) /\ v <= z
    BY <1>1, <1>2, <1>6, <2>4
  <2>6. Within(p, i) = z + y /\ Within(q, i) = v + x
    BY <1>1, <1>10, <2>1, <2>4, <2>5 DEF Within
  <2>7. h + x - y >= h + (v + x) - (z + y) + 0
    <3>1. h \in Int /\ x \in Int /\ y \in Int /\ v \in Int /\ z \in Int /\ v <= z
      BY <2>1, <2>2, <2>4, <2>5
    <3>2. QED
      BY <3>1
  <2>8. QED
    BY <1>2, <2>2, <2>3, <2>6, <2>7
<1>14. Grown(f, p, q, t)
  BY <1>12, <1>13 DEF Grown
<1>15. Good(t, words, Define(f, q), records)
  BY <1>2, <1>6, <1>8, <1>10, <1>14, DefiningKeeps
<1>16. Become(t) /\ words' = words /\ predicates' = Define(f, q) /\ records' = records
  BY <1>1, <1>5, <1>8, <1>9, <1>11 DEF RetractClause, assemble, free_clauses
<1>17. QED
  BY <1>15, <1>16, HeldAfter

\* Freeing a copy of which all words are constants
LEMMA FreeLocalFacts ==
  ASSUME NEW s, NEW t, Counts(s, t), NEW kept, FineWords(s, kept)
  PROVE  Shifts(t, free_local(t, kept), kept, FALSE) /\ Counts(s, free_local(t, kept))
<1>1. PICK u : u = free_local(t, kept)
  OBVIOUS
<1>2. Shifts(t, u, kept, FALSE)
  BY <1>1, FineIsLive, ReleaseAllFacts DEF free_local
<1>3. Counts(s, u)
  BY <1>2, CountsTwice DEF Shifts
<1>4. QED
  BY <1>1, <1>2, <1>3

\* A predicate that is removed, with what it referred to
LEMMA RemovingKeeps ==
  ASSUME TableInv, NEW f \in DOMAIN predicates, NEW p, p = predicates[f],
         NEW Q, Q = [g \in DOMAIN predicates \ {f} |-> predicates[g]],
         NEW t, Counts(Here, t),
         \A i \in Live(Here) : At0(t, i).references >= At0(Here, i).references - Within(p, i)
  PROVE  Good(t, words, Q, records)
<1>1. PICK P, R, s : P = predicates /\ R = records /\ s = Here
  OBVIOUS
<1>2. Good(s, words, P, R)
  BY <1>1 DEF TableInv
<1>3. /\ s \in Stores /\ Sound(s, Owned(P, R)) /\ OwnersOK(P, R)
      /\ \A w : IsKept(P, R, w) => Fine(s, w)
      /\ \A g \in DOMAIN P : Meaning(s, g)[1] = "functor"
  BY <1>2, GoodFacts
<1>4. f \in Index /\ f \in Nat /\ p \in Preds
  <2>1. f \in Index
    BY <1>1, <1>3 DEF OwnersOK
  <2>2. QED
    BY <1>1, <1>3, <2>1, TableAssumption DEF OwnersOK, Index
<1>5. DOMAIN Q = DOMAIN P \ {f} /\ \A g \in DOMAIN Q : Q[g] = P[g]
  BY <1>1
<1>6. OwnersOK(Q, R)
  BY <1>3, <1>5 DEF OwnersOK
<1>7. OnlyAt(P, Q, f)
  BY <1>5 DEF OnlyAt
<1>8. ASSUME NEW i \in Nat
      PROVE  Owned(Q, R)[i] <= Owned(P, R)[i] - Within(p, i) /\ Within(p, i) \in Nat
             /\ Owned(P, R)[i] \in Nat /\ Owned(Q, R)[i] \in Nat
  <2>1. Owned(Q, R)[i] = Owned(P, R)[i] + Share(Q, f, i) - Share(P, f, i)
    BY <1>3, <1>4, <1>6, <1>7, PredicateChanged
  <2>2. ReferencesOf(p, i) = Within(p, i) /\ Within(p, i) \in Nat
    BY <1>4, ReferencesOfFacts DEF Within
  <2>3. PICK w \in Nat : w = Within(p, i)
    BY <2>2
  <2>4. Share(P, f, i) = w + (IF f = i THEN 1 ELSE 0)
    BY <1>1, <2>2, <2>3 DEF Share
  <2>5. Share(Q, f, i) = 0
    BY <1>5 DEF Share
  <2>6. Owned(P, R)[i] \in Nat /\ Owned(Q, R)[i] \in Nat
    BY <1>3, <1>6, OwnedFacts
  <2>7. Owned(Q, R)[i] <= Owned(P, R)[i] - w
    BY <2>1, <2>4, <2>5, <2>6
  <2>8. QED
    BY <2>3, <2>6, <2>7
<1>9. ASSUME NEW i \in Nat, Owned(Q, R)[i] > 0
      PROVE  i \in Live(s)
  <2>1. Owned(P, R)[i] > 0
    <3>1. PICK x, y, w \in Nat : x = Owned(Q, R)[i] /\ y = Owned(P, R)[i] /\ w = Within(p, i)
      BY <1>8
    <3>2. x <= y - w /\ x > 0
      BY <1>8, <1>9, <3>1
    <3>3. QED
      BY <3>1, <3>2
  <2>2. QED
    BY <1>3, <2>1 DEF Sound, Covers
<1>10. ASSUME NEW i \in Live(s)
       PROVE  At0(t, i).references >= At0(s, i).references + Owned(Q, R)[i] - Owned(P, R)[i]
  <2>1. i \in Nat /\ At0(s, i).references \in Int /\ i \in Live(t) /\ t \in Stores
    BY <1>1, <1>3, StoreFacts, CountsAreInts DEF Counts
  <2>2. PICK x, y, w \in Nat : x = Owned(Q, R)[i] /\ y = Owned(P, R)[i] /\ w = Within(p, i)
    BY <1>8, <2>1
  <2>3. x <= y - w
    BY <1>8, <2>1, <2>2
  <2>4. PICK h, k \in Int : h = At0(s, i).references /\ k = At0(t, i).references
    BY <2>1, CountsAreInts
  <2>5. k >= h - w
    BY <1>1, <2>2, <2>4
  <2>6. k >= h + x - y
    BY <2>2, <2>3, <2>4, <2>5
  <2>7. QED
    BY <2>2, <2>4, <2>6
<1>11. Recounted(s, t, Owned(P, R), Owned(Q, R))
  <2>1. Owned(Q, R) \in [Nat -> Nat]
    BY <1>6, OwnedFacts
  <2>2. QED
    BY <1>1, <1>9, <1>10, <2>1 DEF Recounted
<1>12. ASSUME NEW w, IsKept(Q, R, w)
       PROVE  Fine(s, w)
  <2>1. IsKept(P, R, w)
    BY <1>5, <1>12 DEF IsKept
  <2>2. QED
    BY <1>3, <2>1
<1>13. \A g \in DOMAIN Q : Meaning(s, g)[1] = "functor"
  BY <1>3, <1>5
<1>14. Good(t, words, Q, R)
  BY <1>2, <1>6, <1>11, <1>12, <1>13, RecountingKeeps
<1>15. QED
  BY <1>1, <1>14

\* Without clauses there is nothing to free.
LEMMA NothingToFree ==
  ASSUME NEW s, NEW clauses, Len(clauses) = 0, NEW found
  PROVE  freed_locals(s, clauses, found) = s
<1> DEFINE A(a) == a = [k \in 0..Len(clauses) |->
                          IF k = 0 THEN s
                          ELSE IF found[k] = 0 THEN a[k - 1]
                          ELSE free_local(a[k - 1], clauses[found[k]].term)]
<1>1. PICK each : each = CHOOSE a : A(a)
  OBVIOUS
<1>2. PICK a : a = [k \in 0..0 |-> s]
  OBVIOUS
<1>3. A(a)
  BY <1>2
<1>4. A(each)
  BY <1>1, <1>3
<1>5. PICK k \in 0..0 : k = 0
  OBVIOUS
<1>6. each[k] = s
  BY <1>4, <1>5
<1>7. freed_locals(s, clauses, found) = each[Len(clauses)]
  BY <1>1 DEF freed_locals
<1>8. QED
  BY <1>5, <1>6, <1>7

\* Abolishing a predicate without clauses; of one with clauses nothing is said.
LEMMA AbolishKeeps ==
  ASSUME TableInv, NEW f \in DOMAIN predicates, Abolish(f), ~undefined'
  PROVE  TableInv'
<1>1. PICK p, code : p = predicates[f] /\ code = p.code
  OBVIOUS
<1>2. p.clauses = <<>> /\ Len(p.clauses) = 0
  BY <1>1 DEF Abolish
<1>3. /\ FineWords(Here, code) /\ Here \in Stores /\ Counts(Here, Here)
      /\ \A i : /\ Within(p, i) = InClauses(p.clauses, i) + Occurrences(i, code)
                /\ Occurrences(i, code) \in Nat
      /\ \A i \in Live(Here) : At0(Here, i).references \in Int
  BY <1>1, KnownFacts
<1>4. \A found : freed_locals(Here, p.clauses, found) = Here
  BY <1>2, NothingToFree
<1>5. \E found : Become(free_clauses(freed_locals(Here, p.clauses, found), code))
  BY <1>1 DEF Abolish
<1>6. PICK t : t = free_clauses(Here, code) /\ Become(t)
  BY <1>4, <1>5
<1>7. PICK Q : Q = [g \in DOMAIN predicates \ {f} |-> predicates[g]]
  OBVIOUS
<1>8. words' = words /\ predicates' = Q /\ records' = records
  BY <1>7 DEF Abolish
<1>9. Shifts(Here, t, code, FALSE) /\ Counts(Here, t)
  <2>1. t = free_local(Here, code)
    BY <1>6 DEF free_clauses, free_local
  <2>2. QED
    BY <1>3, <2>1, FreeLocalFacts
<1>10. ASSUME NEW i \in Live(Here)
       PROVE  At0(t, i).references >= At0(Here, i).references - Within(p, i)
  <2>1. PICK y \in Nat : y = Occurrences(i, code) /\ Within(p, i) = y
    <3>1. InClauses(p.clauses, i) = 0
      BY <1>2, NothingRefers
    <3>2. QED
      BY <1>3, <3>1
  <2>2. PICK b \in Int : b = At0(Here, i).references
    BY <1>3
  <2>3. At0(t, i).references = b + (0 - y)
    BY <1>9, <2>1, <2>2 DEF Shifts, Change
  <2>4. b + (0 - y) >= b - y
    BY <2>1, <2>2
  <2>5. QED
    BY <2>1, <2>2, <2>3, <2>4
<1>11. Good(t, words, Q, records)
  BY <1>1, <1>7, <1>9, <1>10, RemovingKeeps
<1>12. QED
  BY <1>6, <1>8, <1>11, HeldAfter

\* Recording
LEMMA RecordKeeps ==
  ASSUME TableInv, NEW t \in HeapTerms, Record(t)
  PROVE  TableInv'
<1>1. PICK P, R, S, s, u : /\ P = predicates /\ R = records /\ S = R \cup {t} /\ s = Here
                           /\ u = copy_local(s, t)
  OBVIOUS
<1>2. Good(s, words, P, R)
  BY <1>1 DEF TableInv
<1>3. /\ s \in Stores /\ Sound(s, Owned(P, R)) /\ OwnersOK(P, R)
      /\ \A w : IsKept(P, R, w) => Fine(s, w)
      /\ \A g \in DOMAIN P : Meaning(s, g)[1] = "functor"
  BY <1>2, GoodFacts
<1>4. FineWords(s, t) /\ t \in Seq(KeptWord)
  BY <1>1, TermFacts DEF FineWords
<1>5. OwnersOK(P, S)
  <2>1. IsFiniteSet(S)
    BY <1>1, <1>3, FS_AddElement DEF OwnersOK
  <2>2. S \in SUBSET Seq(KeptWord)
    BY <1>1, <1>3, <1>4 DEF OwnersOK
  <2>3. QED
    BY <1>3, <2>1, <2>2 DEF OwnersOK
<1>6. t \notin R
  BY <1>1 DEF Record
<1>7. \A i \in Nat : Owned(P, S)[i] = Owned(P, R)[i] + (IF \E k \in DOMAIN t : t[k].word = i THEN 1 ELSE 0)
  BY <1>1, <1>3, <1>5, <1>6, RecordChanged
<1>8. \A i \in Nat : Owned(P, R)[i] \in Nat /\ Owned(P, S)[i] \in Nat
  BY <1>3, <1>5, OwnedFacts
<1>9. \A i : Occurrences(i, t) \in Nat /\ (Occurrences(i, t) > 0 <=> \E k \in DOMAIN t : t[k].word = i)
  <2>1. DOMAIN t = 1..Len(t)
    BY <1>4
  <2>2. QED
    BY <1>4, <2>1, OccurrencesFacts
<1>10. Shifts(s, u, t, TRUE) /\ Counts(s, u)
  BY <1>1, <1>3, <1>4, CountsSelf, FineIsLive, AcquireAllFacts DEF copy_local, Shifts
<1>11. ASSUME NEW i \in Nat, Owned(P, S)[i] > 0
       PROVE  i \in Live(s)
  <2>1. CASE \E k \in DOMAIN t : t[k].word = i
    BY <1>4, <2>1 DEF FineWords, Fine
  <2>2. CASE ~\E k \in DOMAIN t : t[k].word = i
    <3>1. Owned(P, R)[i] > 0
      BY <1>7, <1>8, <1>11, <2>2
    <3>2. QED
      BY <1>3, <3>1 DEF Sound, Covers
  <2>3. QED
    BY <2>1, <2>2
<1>12. ASSUME NEW i \in Live(s)
       PROVE  At0(u, i).references >= At0(s, i).references + Owned(P, S)[i] - Owned(P, R)[i]
  <2>1. i \in Nat /\ At0(s, i).references \in Int
    BY <1>3, StoreFacts, CountsAreInts
  <2>2. PICK x \in Nat : x = Occurrences(i, t)
    BY <1>9
  <2>3. PICK b \in 0..1 : b = IF \E k \in DOMAIN t : t[k].word = i THEN 1 ELSE 0
    OBVIOUS
  <2>4. x >= b
    BY <1>9, <2>2, <2>3
  <2>5. PICK y \in Nat : y = Owned(P, R)[i] /\ Owned(P, S)[i] = y + b
    BY <1>7, <1>8, <2>1, <2>3
  <2>6. PICK h \in Int : h = At0(s, i).references /\ At0(u, i).references = h + x
    BY <1>10, <2>1, <2>2 DEF Shifts, Change
  <2>7. h + x >= h + (y + b) - y
    <3>1. h \in Int /\ x \in Int /\ y \in Int /\ b \in Int /\ x >= b
      BY <2>2, <2>3, <2>4, <2>5, <2>6
    <3>2. QED
      BY <3>1
  <2>8. QED
    BY <2>5, <2>6, <2>7
<1>13. Recounted(s, u, Owned(P, R), Owned(P, S))
  <2>1. Owned(P, S) \in [Nat -> Nat]
    BY <1>5, OwnedFacts
  <2>2. QED
    BY <1>10, <1>11, <1>12, <2>1 DEF Recounted
<1>14. ASSUME NEW w, IsKept(P, S, w)
       PROVE  Fine(s, w)
  <2>1. CASE IsKept(P, R, w)
    BY <1>3, <2>1
  <2>2. CASE \E k \in 1..Len(t) : w = t[k]
    BY <1>4, <2>2 DEF FineWords
  <2>3. QED
    BY <1>1, <1>14, <2>1, <2>2 DEF IsKept
<1>15. Good(u, words, P, S)
  BY <1>2, <1>3, <1>5, <1>13, <1>14, RecountingKeeps
<1>16. Become(u) /\ words' = words /\ predicates' = P /\ records' = S
  BY <1>1 DEF Record
<1>17. QED
  BY <1>15, <1>16, HeldAfter

\* Erasing: the references are kept.
LEMMA EraseKeeps ==
  ASSUME TableInv, NEW r \in records, Erase(r)
  PROVE  TableInv'
<1>1. PICK P, R, S, s : P = predicates /\ R = records /\ S = R \ {r} /\ s = Here
  OBVIOUS
<1>2. Good(s, words, P, R)
  BY <1>1 DEF TableInv
<1>3. /\ s \in Stores /\ Sound(s, Owned(P, R)) /\ OwnersOK(P, R)
      /\ \A w : IsKept(P, R, w) => Fine(s, w)
      /\ \A g \in DOMAIN P : Meaning(s, g)[1] = "functor"
  BY <1>2, GoodFacts
<1>4. OwnersOK(P, S)
  <2>1. IsFiniteSet(S)
    BY <1>1, <1>3, FS_Subset DEF OwnersOK
  <2>2. QED
    BY <1>1, <1>3, <2>1 DEF OwnersOK
<1>5. ASSUME NEW i \in Nat
      PROVE  Owned(P, S)[i] <= Owned(P, R)[i] /\ Owned(P, R)[i] \in Nat /\ Owned(P, S)[i] \in Nat
  <2>1. r \notin S /\ R = S \cup {r}
    BY <1>1
  <2>2. Owned(P, R)[i] = Owned(P, S)[i] + (IF \E k \in DOMAIN r : r[k].word = i THEN 1 ELSE 0)
    BY <1>3, <1>4, <2>1, RecordChanged
  <2>3. Owned(P, R)[i] \in Nat /\ Owned(P, S)[i] \in Nat
    BY <1>3, <1>4, OwnedFacts
  <2>4. QED
    BY <2>2, <2>3
<1>6. ASSUME NEW i \in Nat, Owned(P, S)[i] > 0
      PROVE  i \in Live(s)
  <2>1. Owned(P, R)[i] > 0
    BY <1>5, <1>6
  <2>2. QED
    BY <1>3, <2>1 DEF Sound, Covers
<1>7. ASSUME NEW i \in Live(s)
      PROVE  At0(s, i).references >= At0(s, i).references + Owned(P, S)[i] - Owned(P, R)[i]
  <2>1. i \in Nat /\ At0(s, i).references \in Int
    BY <1>3, StoreFacts, CountsAreInts
  <2>2. QED
    BY <1>5, <2>1
<1>8. Recounted(s, s, Owned(P, R), Owned(P, S))
  <2>1. Owned(P, S) \in [Nat -> Nat]
    BY <1>4, OwnedFacts
  <2>2. QED
    BY <1>3, <1>6, <1>7, <2>1, CountsSelf DEF Recounted
<1>9. ASSUME NEW w, IsKept(P, S, w)
      PROVE  Fine(s, w)
  <2>1. IsKept(P, R, w)
    BY <1>1, <1>9 DEF IsKept
  <2>2. QED
    BY <1>3, <2>1
<1>10. Good(s, words, P, S)
  BY <1>2, <1>3, <1>4, <1>8, <1>9, RecountingKeeps
<1>11. Become(s) /\ words' = words /\ predicates' = P /\ records' = S
  BY <1>1 DEF Erase, Become, Here, Store
<1>12. QED
  BY <1>10, <1>11, HeldAfter

\* What was live is live, over two steps.
LEMMA ExtendsTwice ==
  ASSUME NEW s, NEW t, NEW u, Extends(s, t), Extends(t, u)
  PROVE  Extends(s, u)
BY DEF Extends

\* An atom on the heap
LEMMA MakeAtomKeeps ==
  ASSUME TableInv, NEW n \in Names, MakeAtom(n)
  PROVE  TableInv'
<1>1. PICK o, a, t : o = Owned(predicates, records) /\ a = MAKE_ATOM(Here, n) /\ t = a.s
  OBVIOUS
<1>2. Good(Here, words, predicates, records) /\ Sound(Here, o)
  BY <1>1 DEF TableInv, Good
<1>3. IsMade(Here, a, AtomEntry(n), o)
  BY <1>1, <1>2, MakeAtomFacts DEF Texts
<1>4. Sound(t, o) /\ Extends(Here, t) /\ a.word \in Live(t)
  BY <1>1, <1>3 DEF IsMade
<1>5. Len(t.ct) <= TableSize /\ Become(t) /\ words' = Append(words, Keep(t, a.word))
      /\ predicates' = predicates /\ records' = records
  BY <1>1 DEF MakeAtom
<1>6. Good(t, words, predicates, records)
  BY <1>1, <1>2, <1>4, <1>5, InterningKeeps
<1>7. NamesOK(t) /\ t \in Stores /\ Extends(t, t)
  BY <1>6, GoodFacts DEF Extends
<1>8. Good(t, Append(words, Keep(t, a.word)), predicates, records)
  BY <1>4, <1>6, <1>7, HeapGrows
<1>9. QED
  BY <1>5, <1>8, HeldAfter

\* A compound on the heap: its functor, with the atom that names it, and its argument
LEMMA MakeCompoundKeeps ==
  ASSUME TableInv, NEW n \in FunctorNames, NEW argument \in Names, MakeCompound(n, argument)
  PROVE  TableInv'
<1>1. PICK o, name, f, a, t : /\ o = Owned(predicates, records) /\ name = MAKE_ATOM(Here, n)
                              /\ f = MAKE_FUNCTOR(name.s, name.word)
                              /\ a = MAKE_ATOM(f.s, argument) /\ t = a.s
  OBVIOUS
<1>2. Good(Here, words, predicates, records) /\ Sound(Here, o)
  BY <1>1 DEF TableInv, Good
<1>3. IsMade(Here, name, AtomEntry(n), o)
  BY <1>1, <1>2, MakeAtomFacts DEF Texts
<1>4. PICK s1, w1 : /\ s1 = name.s /\ w1 = name.word /\ Sound(s1, o) /\ Extends(Here, s1)
                    /\ w1 \in Live(s1) /\ At0(s1, w1).type = "atom"
  BY <1>3 DEF IsMade, AtomEntry
<1>5. IsMade(s1, f, FunctorEntry(w1), o)
  BY <1>1, <1>4, MakeFunctorFacts
<1>6. PICK s2, w2 : /\ s2 = f.s /\ w2 = f.word /\ Sound(s2, o) /\ Extends(s1, s2) /\ w2 \in Live(s2)
  BY <1>5 DEF IsMade
<1>7. IsMade(s2, a, AtomEntry(argument), o)
  BY <1>1, <1>6, MakeAtomFacts DEF Texts
<1>8. Sound(t, o) /\ Extends(s2, t) /\ a.word \in Live(t)
  BY <1>1, <1>7 DEF IsMade
<1>9. Extends(Here, t) /\ w2 \in Live(t)
  BY <1>4, <1>6, <1>8, ExtendsTwice DEF Extends
<1>10. PICK x, y : x = Keep(t, w2) /\ y = Keep(t, a.word)
  OBVIOUS
<1>11. /\ Len(t.ct) <= TableSize /\ Become(t) /\ words' = words \o <<x, y>>
       /\ predicates' = predicates /\ records' = records
  BY <1>1, <1>6, <1>10 DEF MakeCompound
<1>12. Good(t, words, predicates, records)
  BY <1>1, <1>2, <1>8, <1>9, <1>11, InterningKeeps
<1>13. NamesOK(t) /\ t \in Stores /\ Extends(t, t)
  BY <1>12, GoodFacts DEF Extends
<1>14. PICK v : v = Append(words, x)
  OBVIOUS
<1>15. Good(t, v, predicates, records)
  BY <1>9, <1>10, <1>12, <1>13, <1>14, HeapGrows
<1>16. Good(t, Append(v, y), predicates, records)
  BY <1>8, <1>10, <1>13, <1>15, HeapGrows
<1>17. words' = Append(v, y)
  <2>1. words \in Seq(HeapWord) /\ v \in Seq(HeapWord) /\ Append(v, y) \in Seq(HeapWord)
    BY <1>12, <1>15, <1>16 DEF Good
  <2>2. PICK z : z = Append(v, y)
    OBVIOUS
  <2>3. x \in HeapWord /\ y \in HeapWord
    <3>1. PICK m \in Nat : m = Len(words)
      BY <2>1, LenProperties
    <3>2. Len(v) = m + 1 /\ v[m + 1] = x
      BY <1>14, <2>1, <3>1
    <3>3. m + 1 \in 1..Len(v)
      BY <3>2
    <3>4. x \in HeapWord
      BY <2>1, <3>2, <3>3, ElementOfSeq
    <3>5. Len(z) = m + 2 /\ z[m + 2] = y
      BY <2>1, <2>2, <3>1, <3>2
    <3>6. m + 2 \in 1..Len(z)
      BY <3>1, <3>5
    <3>7. y \in HeapWord
      BY <2>1, <2>2, <3>5, <3>6, ElementOfSeq
    <3>8. QED
      BY <3>4, <3>7
  <2>4. words \o <<x, y>> = Append(Append(words, x), y)
    BY <2>1, <2>3
  <2>5. QED
    BY <1>11, <1>14, <2>4
<1>18. QED
  BY <1>11, <1>16, <1>17, HeldAfter

\* The top of the heap is given up.
LEMMA ShrinkHeapKeeps ==
  ASSUME TableInv, ShrinkHeap
  PROVE  TableInv'
<1>1. PICK s, ws : s = Here /\ ws = words /\ Good(s, ws, predicates, records)
  BY DEF TableInv
<1>2. ws \in Seq(HeapWord)
  BY <1>1 DEF Good
<1>3. PICK m \in Nat : m = Len(ws)
  BY <1>2, LenProperties
<1>4. PICK n \in 0..m - 1 : words' = SubSeq(ws, 1, n)
  BY <1>1, <1>3 DEF ShrinkHeap
<1>5. PICK v : v = SubSeq(ws, 1, n)
  OBVIOUS
<1>6. v \in Seq(HeapWord) /\ Len(v) = n /\ \A k \in 1..n : v[k] = ws[k]
  <2>1. \A k \in 1..n : ws[k] \in HeapWord
    BY <1>2, <1>3, ElementOfSeq
  <2>2. v = [k \in 1..n |-> ws[k]]
    BY <1>3, <1>5
  <2>3. n \in Nat
    OBVIOUS
  <2>4. v \in [1..n -> HeapWord]
    BY <2>1, <2>2
  <2>5. v \in Seq(HeapWord)
    BY <2>3, <2>4
  <2>6. QED
    BY <2>2, <2>3, <2>5
<1>7. \A k \in 1..Len(v) : v[k].means # Lost => Meaning(s, v[k].word) = v[k].means
  BY <1>1, <1>3, <1>6 DEF Good
<1>8. Good(s, v, predicates, records)
  BY <1>1, <1>6, <1>7 DEF Good
<1>9. Become(s) /\ words' = v /\ predicates' = predicates /\ records' = records
  BY <1>1, <1>4, <1>5 DEF ShrinkHeap, Become, Here, Store
<1>10. QED
  BY <1>8, <1>9, HeldAfter

(***************************************************************************)
(* The collector                                                           *)
(***************************************************************************)
\* i is the name of a functor that is marked.
NameOfMarked(s, marked, i) == \E j \in marked : At0(s, j).type = "functor" /\ At0(s, j).name = i

\* t is s after some of the sweep: what is left is as it was, but for smaller counts, and
\* what is owned is left, and so is what neither is marked nor names what is.
Swept(s, t, o, marked) ==
  /\ Sound(t, o) /\ Len(t.ct) = Len(s.ct)
  /\ \A j \in Live(t) : /\ j \in Live(s) /\ At0(t, j).type = At0(s, j).type
                        /\ At0(t, j).name = At0(s, j).name
                        /\ At0(t, j).references <= At0(s, j).references
  /\ \A j \in Live(s) :
       o[j] > 0 \/ (j \notin marked /\ ~NameOfMarked(s, marked, j)) => j \in Live(t)

\* What is marked has no references.
Marks(s, marked) == \A i \in marked : i \in Live(s) /\ At0(s, i).references = 0

\* One index of the sweep
SweepOne(t, marked, i) ==
  IF i \in marked /\ i \in Live(t) THEN delete_constant(t, i) ELSE t

(* One index of the sweep: a marked constant that is still live is deleted,
   and nothing that is owned goes. *)
LEMMA SweepOneFacts ==
  ASSUME NEW s, NEW o, NEW marked, Sound(s, o), Marks(s, marked), NEW t, Swept(s, t, o, marked), NEW i
  PROVE  Swept(s, SweepOne(t, marked, i), o, marked)
<1>1. CASE ~(i \in marked /\ i \in Live(t))
  BY <1>1 DEF SweepOne
<1>2. CASE i \in marked /\ i \in Live(t)
  <2>1. PICK u : u = delete_constant(t, i) /\ u = SweepOne(t, marked, i)
    BY <1>2 DEF SweepOne
  <2>2. Sound(t, o) /\ t \in Stores /\ s \in Stores /\ i \in Live(t) /\ i \in Live(s)
    BY <1>2 DEF Swept, Sound, TableOK, Marks
  <2>3. At0(t, i).references = 0
    <3>1. At0(t, i).references \in Int /\ At0(t, i).references <= 0
      BY <1>2, <2>2, CountsAreInts DEF Swept, Marks
    <3>2. Named(t, i) \in Nat
      BY <2>2, NamedFacts
    <3>3. o[i] \in Nat /\ At0(t, i).references >= o[i] + Named(t, i)
      BY <2>2, StoreFacts DEF Sound, Covers
    <3>4. QED
      BY <3>1, <3>2, <3>3
  <2>4. IsDeleted(t, u, i, o)
    BY <2>1, <2>2, <2>3, DeleteFacts
  <2>5. Sound(u, o) /\ Len(u.ct) = Len(s.ct)
    BY <2>4 DEF IsDeleted, Swept
  <2>6. ASSUME NEW j \in Live(u)
        PROVE  /\ j \in Live(s) /\ At0(u, j).type = At0(s, j).type
               /\ At0(u, j).name = At0(s, j).name /\ At0(u, j).references <= At0(s, j).references
    <3>1. /\ j \in Live(t) /\ At0(u, j).type = At0(t, j).type
          /\ At0(u, j).name = At0(t, j).name /\ At0(u, j).references <= At0(t, j).references
      BY <2>4 DEF IsDeleted
    <3>2. /\ j \in Live(s) /\ At0(t, j).type = At0(s, j).type
          /\ At0(t, j).name = At0(s, j).name /\ At0(t, j).references <= At0(s, j).references
      BY <3>1 DEF Swept
    <3>3. u \in Stores
      BY <2>5 DEF Sound, TableOK
    <3>4. PICK x, y, z \in Int : /\ x = At0(u, j).references /\ y = At0(t, j).references
                                 /\ z = At0(s, j).references
      BY <2>2, <3>1, <3>2, <3>3, CountsAreInts
    <3>5. x <= z
      BY <3>1, <3>2, <3>4
    <3>6. QED
      BY <3>1, <3>2, <3>4, <3>5
  <2>7. ASSUME NEW j \in Live(s), o[j] > 0 \/ (j \notin marked /\ ~NameOfMarked(s, marked, j))
        PROVE  j \in Live(u)
    <3>1. j \in Live(t)
      BY <2>7 DEF Swept
    <3>2. At0(t, i).type = At0(s, i).type /\ At0(t, i).name = At0(s, i).name
      BY <2>2 DEF Swept
    <3>3. o[j] > 0 \/ (j # i /\ (At0(t, i).type = "functor" => At0(t, i).name # j))
      BY <1>2, <2>7, <3>2 DEF NameOfMarked
    <3>4. QED
      BY <2>4, <3>1, <3>3 DEF IsDeleted
  <2>8. Swept(s, u, o, marked)
    BY <2>5, <2>6, <2>7 DEF Swept
  <2>9. QED
    BY <2>1, <2>8
<1>3. QED
  BY <1>1, <1>2

\* (The recursive function of Collect)
Sweeps(f, s, n, marked) ==
  f = [k \in 0..n |-> IF k = 0 THEN s ELSE SweepOne(f[k - 1], marked, k - 1)]

(* The recursive function of the sweep exists, and each prefix of it leaves
   a swept table. *)
LEMMA SweepsFacts ==
  ASSUME NEW s, NEW o, NEW marked, Sound(s, o), Marks(s, marked), NEW n \in Nat
  PROVE  \E f : Sweeps(f, s, n, marked)
<1>1. PICK S : S = {t \in Stores : Swept(s, t, o, marked)}
  OBVIOUS
<1>2. s \in Stores
  BY DEF Sound, TableOK
<1>3. s \in S
  <2>1. \A j \in Live(s) : At0(s, j).references <= At0(s, j).references
    BY <1>2, CountsAreInts
  <2>2. Swept(s, s, o, marked)
    BY <2>1 DEF Swept
  <2>3. QED
    BY <1>1, <1>2, <2>2
<1>4. ASSUME NEW k \in 1..n, NEW t \in S
      PROVE  SweepOne(t, marked, k - 1) \in S
  <2>1. Swept(s, t, o, marked)
    BY <1>1
  <2>2. PICK u : u = SweepOne(t, marked, k - 1)
    OBVIOUS
  <2>3. Swept(s, u, o, marked)
    BY <2>1, <2>2, SweepOneFacts
  <2>4. u \in Stores
    BY <2>3 DEF Swept, Sound, TableOK
  <2>5. QED
    BY <1>1, <2>2, <2>3, <2>4
<1>5. PICK step : step = [k \in 1..n |-> [t \in S |-> SweepOne(t, marked, k - 1)]]
  OBVIOUS
<1>6. AreSteps(step, n, S)
  BY <1>4, <1>5 DEF AreSteps
<1>7. PICK f : Unfolds(f, n, S, s, step)
  BY <1>3, <1>6, RecursiveFunction
<1>8. f \in [0..n -> S] /\ f[0] = s /\ \A k \in 1..n : f[k] = step[k][f[k - 1]]
  BY <1>7 DEF Unfolds
<1>9. ASSUME NEW k \in 0..n
      PROVE  f[k] = IF k = 0 THEN s ELSE SweepOne(f[k - 1], marked, k - 1)
  <2>1. CASE k = 0
    BY <1>8, <2>1
  <2>2. CASE k # 0
    <3>1. k \in 1..n /\ f[k - 1] \in S
      BY <1>8, <2>2
    <3>2. QED
      BY <1>5, <1>8, <2>2, <3>1
  <2>3. QED
    BY <2>1, <2>2
<1>10. QED
  BY <1>8, <1>9 DEF Sweeps

\* After the whole sweep
LEMMA SweepIsSwept ==
  ASSUME NEW s, NEW o, NEW marked, Sound(s, o), Marks(s, marked), NEW n \in Nat,
         NEW f, Sweeps(f, s, n, marked)
  PROVE  Swept(s, f[n], o, marked)
<1>1. f = [k \in 0..n |-> IF k = 0 THEN s ELSE SweepOne(f[k - 1], marked, k - 1)]
  BY DEF Sweeps
<1>2. f[0] = s
  <2>1. PICK k \in 0..n : k = 0
    OBVIOUS
  <2>2. f[k] = s
    BY <1>1, <2>1
  <2>3. QED
    BY <2>1, <2>2
<1>3. ASSUME NEW k \in 0..n - 1
      PROVE  f[k + 1] = SweepOne(f[k], marked, k)
  <2>1. PICK m \in 0..n : m = k + 1 /\ m # 0 /\ m - 1 = k
    OBVIOUS
  <2>2. f[m] = SweepOne(f[m - 1], marked, m - 1)
    BY <1>1, <2>1
  <2>3. QED
    BY <2>1, <2>2
<1> DEFINE P == {k \in 0..n : Swept(s, f[k], o, marked)}
<1>4. 0 \in P
  <2>1. s \in Stores
    BY DEF Sound, TableOK
  <2>2. \A j \in Live(s) : At0(s, j).references <= At0(s, j).references
    BY <2>1, CountsAreInts
  <2>3. Swept(s, s, o, marked)
    BY <2>2 DEF Swept
  <2>4. QED
    BY <1>2, <2>3
<1>5. ASSUME NEW k \in 0..n - 1, k \in P
      PROVE  k + 1 \in P
  <2>1. Swept(s, f[k + 1], o, marked)
    BY <1>3, <1>5, SweepOneFacts
  <2>2. QED
    BY <2>1
<1> HIDE DEF P
<1>6. \A k \in 0..n : k \in P
  BY <1>4, <1>5, UpTo
<1>7. QED
  BY <1>6 DEF P

\* What is used is left, and means what it did.
LEMMA CollectKeeps ==
  ASSUME TableInv, Collect
  PROVE  TableInv'
<1>1. PICK P, R, s, ws, o : /\ P = predicates /\ R = records /\ s = Here /\ ws = words
                            /\ o = Owned(P, R)
  OBVIOUS
<1>2. Good(s, ws, P, R)
  BY <1>1 DEF TableInv
<1>3. /\ s \in Stores /\ NamesOK(s) /\ Sound(s, o) /\ OwnersOK(P, R)
      /\ \A w : IsKept(P, R, w) => Fine(s, w)
      /\ \A f \in DOMAIN P : f \in Live(s) /\ Meaning(s, f)[1] = "functor"
  BY <1>1, <1>2, GoodFacts
<1>4. PICK marked : marked = {i \in Live(s) : At0(s, i).references = 0} \ OnHeap
  OBVIOUS
<1>5. Marks(s, marked)
  BY <1>4 DEF Marks
<1>6. PICK n \in Nat : n = CNext /\ n = Len(s.ct)
  <2>1. CNext = Len(s.ct)
    BY <1>1 DEF CNext, Here, Store
  <2>2. QED
    BY <1>3, <2>1, StoreFacts
<1> DEFINE A(f) == f = [k \in 0..n |->
                          IF k = 0 THEN s
                          ELSE IF k - 1 \in marked /\ k - 1 \in Live(f[k - 1])
                                 THEN delete_constant(f[k - 1], k - 1)
                                 ELSE f[k - 1]]
<1>7. \A f : A(f) <=> Sweeps(f, s, n, marked)
  BY DEF Sweeps, SweepOne
<1>8. PICK sweep : sweep = CHOOSE f : A(f)
  OBVIOUS
<1>9. Sweeps(sweep, s, n, marked)
  <2>1. \E f : Sweeps(f, s, n, marked)
    BY <1>3, <1>5, SweepsFacts
  <2>2. \E f : A(f)
    BY <1>7, <2>1
  <2>3. A(sweep)
    BY <1>8, <2>2
  <2>4. QED
    BY <1>7, <2>3
<1>10. PICK t : t = sweep[n]
  OBVIOUS
<1>11. Swept(s, t, o, marked)
  BY <1>3, <1>5, <1>9, <1>10, SweepIsSwept
<1>a. PICK names : names = {At0(s, i).name : i \in {j \in marked : At0(s, j).type = "functor"}}
  OBVIOUS
<1>b. PICK vs : vs = [k \in DOMAIN ws |->
                        IF ws[k].word \in names \ Live(t) THEN [ws[k] EXCEPT !.means = Lost] ELSE ws[k]]
  OBVIOUS
<1>12. Become(t) /\ words' = vs /\ predicates' = P /\ records' = R
  BY <1>1, <1>4, <1>6, <1>8, <1>10, <1>a, <1>b DEF Collect
<1>13. Sound(t, o) /\ t \in Stores /\ NamesOK(t) /\ Len(t.ct) <= TableSize
  BY <1>2, <1>11 DEF Swept, Sound, TableOK, Good
<1>14. \A i \in Live(t) : Meaning(t, i) = Meaning(s, i)
  <2>1. Extends(t, s)
    BY <1>11 DEF Swept, Extends
  <2>2. QED
    BY <1>13, <2>1, ExtendsKeepsMeaning
<1>15. ASSUME NEW i \in Nat, o[i] > 0
       PROVE  i \in Live(t)
  BY <1>13, <1>15 DEF Sound, Covers
<1>16. ASSUME NEW w, IsKept(P, R, w)
       PROVE  Meaning(t, w.word) = w.means
  <2>1. w.word \in Nat /\ o[w.word] > 0
    BY <1>1, <1>3, <1>16, KeptIsOwned
  <2>2. w.word \in Live(t)
    BY <1>15, <2>1
  <2>3. QED
    BY <1>3, <1>14, <1>16, <2>2 DEF Fine
<1>17. ASSUME NEW f \in DOMAIN P
       PROVE  Meaning(t, f)[1] = "functor"
  <2>1. f \in Nat /\ o[f] > 0
    BY <1>1, <1>3, KeptIsOwned
  <2>2. f \in Live(t)
    BY <1>15, <2>1
  <2>3. QED
    BY <1>3, <1>14, <2>2
<1>18. /\ ws \in Seq(HeapWord) /\ Len(ws) \in Nat
       /\ \A k \in 1..Len(ws) : ws[k] \in HeapWord
       /\ vs = [k \in 1..Len(ws) |-> vs[k]]
       /\ \A k \in 1..Len(ws) :
            vs[k] = IF ws[k].word \in names \ Live(t) THEN [ws[k] EXCEPT !.means = Lost] ELSE ws[k]
  <2>1. ws \in Seq(HeapWord)
    BY <1>2 DEF Good
  <2>2. DOMAIN ws = 1..Len(ws) /\ Len(ws) \in Nat
    BY <2>1
  <2>3. QED
    BY <1>b, <2>1, <2>2, ElementOfSeq
<1>c. vs \in Seq(HeapWord) /\ Len(vs) = Len(ws)
  <2>1. PICK m \in Nat : m = Len(ws)
    BY <1>18
  <2>2. ASSUME NEW k \in 1..m
        PROVE  vs[k] \in HeapWord
    <3>1. ws[k] \in HeapWord
      BY <1>18, <2>1
    <3>2. [ws[k] EXCEPT !.means = Lost] \in HeapWord
      BY <3>1 DEF HeapWord
    <3>3. QED
      BY <1>18, <2>1, <3>1, <3>2
  <2>3. vs \in [1..m -> HeapWord]
    BY <1>18, <2>1, <2>2
  <2>4. QED
    BY <2>1, <2>3
<1>d. ASSUME NEW k \in 1..Len(vs), vs[k].means # Lost
      PROVE  Meaning(t, vs[k].word) = vs[k].means
  <2>1. PICK i : i = ws[k].word /\ k \in 1..Len(ws)
    BY <1>c
  <2>2. vs[k] = ws[k] /\ i \notin names \ Live(t)
    <3>1. ws[k] \in HeapWord
      BY <1>18, <2>1
    <3>2. [ws[k] EXCEPT !.means = Lost].means = Lost
      BY <3>1 DEF HeapWord
    <3>3. QED
      BY <1>18, <1>d, <2>1, <3>2
  <2>3. Meaning(s, i) = ws[k].means
    BY <1>2, <1>d, <2>1, <2>2 DEF Good
  <2>4. i \in Live(s)
    <3>1. ws[k].means \in Meanings
      BY <1>18, <1>d, <2>1, <2>2 DEF HeapWord
    <3>2. QED
      BY <1>3, <2>3, <3>1, MeaningFacts
  <2>5. i \in OnHeap
    <3>1. k \in DOMAIN ws
      BY <1>18, <2>1
    <3>2. QED
      BY <1>1, <2>1, <3>1 DEF OnHeap
  <2>6. i \in Live(t)
    <3>1. CASE i \in names
      BY <2>2, <3>1
    <3>2. CASE i \notin names
      <4>1. i \notin marked /\ ~NameOfMarked(s, marked, i)
        BY <1>4, <1>a, <2>5, <3>2 DEF NameOfMarked
      <4>2. QED
        BY <1>11, <2>4, <4>1 DEF Swept
    <3>3. QED
      BY <3>1, <3>2
  <2>7. QED
    BY <1>14, <2>1, <2>2, <2>3, <2>6
<1>19. Good(t, vs, P, R)
  BY <1>1, <1>2, <1>13, <1>16, <1>17, <1>c, <1>d DEF Good
<1>20. QED
  BY <1>12, <1>19, HeldAfter

(***************************************************************************)
(* The specification                                                       *)
(***************************************************************************)
\* An empty table, and nothing that refers to it
LEMMA NothingYet ==
  ASSUME TableInit
  PROVE  TableInv
<1>1. PICK s, P, R, ws : s = Here /\ P = predicates /\ R = records /\ ws = words
  OBVIOUS
<1>2. /\ s.ct = <<>> /\ s.free = None /\ s \in Stores /\ Len(s.ct) = 0
      /\ ws = <<>> /\ Len(ws) = 0 /\ DOMAIN P = {} /\ R = {}
  <2>1. s = [ct |-> <<>>, free |-> None] /\ ws = <<>> /\ P = <<>> /\ R = {}
    BY <1>1 DEF TableInit, Here, Store
  <2>2. None \in Int
    BY DEF None
  <2>3. DOMAIN <<>> = {}
    OBVIOUS
  <2>4. QED
    BY <2>1, <2>2, <2>3 DEF Stores
<1>3. Live(s) = {} /\ Dead(s) = {} /\ Indices(s) = {}
  BY <1>2 DEF Live, Dead, Indices
<1>4. OwnersOK(P, R)
  BY <1>2, FS_EmptySet DEF OwnersOK
<1>5. \E L : FreeList(s, L)
  <2>1. PICK n \in Int : n = None
    BY DEF None
  <2>2. PICK L : L = <<n>>
    OBVIOUS
  <2>3. L \in Seq(Int) /\ Len(L) = 1 /\ L[1] = n
    BY <2>2
  <2>4. FreeList(s, L)
    BY <1>2, <1>3, <2>1, <2>3 DEF FreeList
  <2>5. QED
    BY <2>4
<1>6. TableOK(s) /\ NamesOK(s)
  BY <1>2, <1>3, <1>5 DEF TableOK, Unique, NamesOK
<1>7. Covers(s, Owned(P, R))
  <2>1. Owned(P, R) \in [Nat -> Nat]
    BY <1>4, OwnedFacts
  <2>2. ASSUME NEW i \in Nat
        PROVE  Owned(P, R)[i] = 0
    <3>1. PICK h : h = Shares(P, i)
      OBVIOUS
    <3>2. TableSize \in Nat /\ \A n \in 1..TableSize : h[n] = Share(P, n - 1, i)
      BY <1>4, <3>1, SharesFacts
    <3>3. \A n \in 1..TableSize : h[n] = 0
      BY <1>2, <3>2 DEF Share
    <3>4. SumTo(TableSize, h) = 0
      BY <3>2, <3>3, SumOfZeros
    <3>5. RecordsOf(R, i) = {}
      BY <1>2 DEF RecordsOf
    <3>6. Cardinality(RecordsOf(R, i)) = 0
      BY <3>5, FS_EmptySet
    <3>7. Owned(P, R)[i] = SumTo(TableSize, h) + Cardinality(RecordsOf(R, i))
      BY <1>4, <3>1, OwnedFacts
    <3>8. QED
      BY <3>4, <3>6, <3>7
  <2>3. QED
    BY <1>3, <2>1, <2>2 DEF Covers
<1>8. \A w : ~IsKept(P, R, w)
  BY <1>2 DEF IsKept
<1>9. ws \in Seq(HeapWord)
  BY <1>2
<1>10. Len(s.ct) <= TableSize
  BY <1>2, TableAssumption
<1>11. Good(s, ws, P, R)
  BY <1>2, <1>4, <1>6, <1>7, <1>8, <1>9, <1>10 DEF Good, Sound
<1>12. QED
  BY <1>1, <1>11 DEF TableInv

\* Every step keeps the invariant, unless it leads to where nothing is defined.
LEMMA StepsKeep ==
  ASSUME ~undefined => TableInv, [TableNext]_tableVars, ~undefined'
  PROVE  TableInv'
<1>0. TableInv
  <2>1. CASE TableNext
    BY <2>1 DEF TableNext
  <2>2. CASE UNCHANGED tableVars
    BY <2>2 DEF tableVars
  <2>3. QED
    BY <2>1, <2>2
<1>1. ASSUME NEW n \in Names, MakeAtom(n)
      PROVE  TableInv'
  BY <1>0, <1>1, MakeAtomKeeps
<1>2. ASSUME NEW n \in Names, NEW f \in FunctorNames, MakeCompound(f, n)
      PROVE  TableInv'
  BY <1>0, <1>2, MakeCompoundKeeps
<1>3. CASE ShrinkHeap
  BY <1>0, <1>3, ShrinkHeapKeeps
<1>4. ASSUME NEW t \in Compounds, AddClause(t)
      PROVE  TableInv'
  BY <1>0, <1>4, AddClauseKeeps
<1>5. ASSUME NEW t \in Compounds, NEW atEnd \in BOOLEAN, AssertClause(t, atEnd)
      PROVE  TableInv'
  BY <1>0, <1>5, AssertClauseKeeps
<1>6. ASSUME NEW f \in DOMAIN predicates, CompileOnCall(f)
      PROVE  TableInv'
  BY <1>0, <1>6, CompileOnCallKeeps
<1>7. ASSUME NEW f \in DOMAIN predicates, SetDynamic(f)
      PROVE  TableInv'
  BY <1>0, <1>7, SetDynamicKeeps
<1>8. ASSUME NEW f \in DOMAIN predicates, Abolish(f)
      PROVE  TableInv'
  BY <1>0, <1>8, AbolishKeeps
<1>9. ASSUME NEW f \in DOMAIN predicates, NEW k \in DOMAIN predicates[f].clauses,
             RetractClause(f, k)
      PROVE  TableInv'
  BY <1>0, <1>9, RetractClauseKeeps
<1>10. ASSUME NEW t \in HeapTerms, Record(t)
       PROVE  TableInv'
  BY <1>0, <1>10, RecordKeeps
<1>11. ASSUME NEW r \in records, Erase(r)
       PROVE  TableInv'
  BY <1>0, <1>11, EraseKeeps
<1>12. CASE Collect
  BY <1>0, <1>12, CollectKeeps
<1>13. CASE UNCHANGED tableVars
  <2>1. Good(Here, words, predicates, records)
    BY <1>0 DEF TableInv
  <2>2. Become(Here) /\ words' = words /\ predicates' = predicates /\ records' = records
    BY <1>13 DEF tableVars, Become, Here, Store
  <2>3. QED
    BY <2>1, <2>2, HeldAfter
<1>16. ASSUME NEW k \in AtomsOnHeap, AbolishUnknown(words[k].word)
       PROVE  TableInv'
  BY <1>16 DEF AbolishUnknown
<1>14. TRUE \in BOOLEAN /\ FALSE \in BOOLEAN
  OBVIOUS
<1>15. QED
  BY <1>1, <1>2, <1>3, <1>4, <1>5, <1>6, <1>7, <1>8, <1>9, <1>10, <1>11, <1>12, <1>13, <1>14, <1>16
     DEF TableNext

\* The table is sound for what refers to it in every state that abolish has not led astray:
\* the inductive invariant.
THEOREM TableIsSound == TableSpec => [](~undefined => TableInv)
<1>1. TableInit => (~undefined => TableInv)
  BY NothingYet
<1>2. (~undefined => TableInv) /\ [TableNext]_tableVars => (~undefined => TableInv)'
  BY StepsKeep
<1>3. QED
  BY <1>1, <1>2, PTL DEF TableSpec

\* Until abolish reads what it has freed, nothing that is kept is deleted, nor any word on
\* the heap but an atom that names a functor which is deleted (garbage_collect_constants,
\* delete_constant).
THEOREM CollectorIsSafe == TableSpec => []OnlyGarbageIsDeleted
<1>1. (~undefined => TableInv) => OnlyGarbageIsDeleted
  <2>1. SUFFICES ASSUME TableInv PROVE OnlyGarbageIsDeleted
    BY DEF OnlyGarbageIsDeleted
  <2>2. PICK s, P, R : s = Here /\ P = predicates /\ R = records /\ Good(s, words, P, R)
    BY <2>1 DEF TableInv
  <2>3. /\ \A w : IsKept(P, R, w) => Fine(s, w)
        /\ \A f \in DOMAIN P : /\ Meaning(s, f)[1] = "functor"
                               /\ FineClauses(s, P[f].clauses) /\ FineWords(s, P[f].code)
        /\ \A r \in R : FineWords(s, r)
    BY <2>2, GoodFacts
  <2>4. ASSUME NEW w \in Kept
        PROVE  Means(w)
    <3>1. CASE \E f \in DOMAIN P : w \in ClauseWords(f)
      <4>1. PICK f \in DOMAIN P : w \in ClauseWords(f)
        BY <3>1
      <4>2. PICK cs, code : cs = P[f].clauses /\ code = P[f].code
        OBVIOUS
      <4>3. cs \in Seq(Facts) /\ code \in Seq(KeptWord)
        BY <2>3, <4>2 DEF FineClauses, FineWords
      <4>4. \/ \E k \in DOMAIN cs : w = cs[k].term[1] \/ w = cs[k].term[2]
            \/ \E k \in DOMAIN code : w = code[k]
        <5> DEFINE p == predicates[f]
                   A == {p.clauses[k].term[1] : k \in DOMAIN p.clauses}
                   B == {p.clauses[k].term[2] : k \in DOMAIN p.clauses}
                   C == {p.code[k] : k \in DOMAIN p.code}
        <5>1. ClauseWords(f) = A \cup B \cup C
          BY DEF ClauseWords
        <5>2. cs = p.clauses /\ code = p.code
          BY <2>2, <4>2
        <5> HIDE DEF p, A, B, C
        <5>3. w \in A \/ w \in B \/ w \in C
          BY <4>1, <5>1
        <5>4. (w \in A => \E k \in DOMAIN cs : w = cs[k].term[1])
              /\ (w \in B => \E k \in DOMAIN cs : w = cs[k].term[2])
          BY <5>2 DEF A, B
        <5>5. w \in C => \E k \in DOMAIN code : w = code[k]
          BY <5>2 DEF C
        <5>6. QED
          BY <5>3, <5>4, <5>5
      <4>5. DOMAIN cs = 1..Len(cs) /\ DOMAIN code = 1..Len(code)
        BY <4>3
      <4>6. IsKept(P, R, w)
        BY <4>2, <4>4, <4>5 DEF IsKept
      <4>7. QED
        BY <2>2, <2>3, <4>6 DEF Fine, Means
    <3>2. CASE \E r \in R : \E k \in DOMAIN r : w = r[k]
      <4>1. PICK r \in R : \E k \in DOMAIN r : w = r[k]
        BY <3>2
      <4>2. r \in Seq(KeptWord)
        BY <2>3 DEF FineWords
      <4>3. DOMAIN r = 1..Len(r)
        BY <4>2
      <4>4. IsKept(P, R, w)
        BY <4>1, <4>3 DEF IsKept
      <4>5. QED
        BY <2>2, <2>3, <4>4 DEF Fine, Means
    <3> DEFINE A == UNION {ClauseWords(f) : f \in DOMAIN predicates}
               B == UNION {{r[k] : k \in DOMAIN r} : r \in records}
    <3>4. Kept = A \cup B
      BY DEF Kept
    <3> HIDE DEF A, B
    <3>5. w \in A \/ w \in B
      BY <2>4, <3>4
    <3>6. w \in A => \E f \in DOMAIN P : w \in ClauseWords(f)
      BY <2>2 DEF A
    <3>7. w \in B => \E r \in R : \E k \in DOMAIN r : w = r[k]
      BY <2>2 DEF B
    <3>8. QED
      BY <3>1, <3>2, <3>5, <3>6, <3>7
  <2>5. ASSUME NEW k \in DOMAIN words, words[k].means # Lost
        PROVE  Means(words[k])
    <3>1. words \in Seq(HeapWord)
      BY <2>2 DEF Good
    <3>2. k \in 1..Len(words)
      BY <3>1
    <3>3. QED
      BY <2>2, <2>5, <3>2 DEF Good, Means
  <2>6. QED
    BY <2>2, <2>3, <2>4, <2>5 DEF OnlyGarbageIsDeleted
<1>2. QED
  BY <1>1, TableIsSound, PTL

\* No count is less than the references that are counted (acquire_constant and
\* release_constant).
THEOREM NoCountTooLow == TableSpec => []CountsCover
<1>1. (~undefined => TableInv) => CountsCover
  <2>1. SUFFICES ASSUME TableInv, NEW i \in Live(Here)
                 PROVE  At0(Here, i).references >= References(i)
                          + Cardinality({r \in records : \E k \in DOMAIN r : r[k].word = i})
    BY DEF CountsCover
  <2>2. PICK s, P, R : s = Here /\ P = predicates /\ R = records /\ Good(s, words, P, R)
    BY <2>1 DEF TableInv
  <2>3. s \in Stores /\ OwnersOK(P, R) /\ Sound(s, Owned(P, R)) /\ i \in Live(s)
    BY <2>1, <2>2, GoodFacts
  <2>4. i \in Nat
    BY <2>3, StoreFacts
  <2>5. At0(s, i).references >= Owned(P, R)[i] + Named(s, i) /\ At0(s, i).references \in Int
    BY <2>3, <2>4, CountsAreInts DEF Sound, Covers
  <2>6. PICK a, b, c \in Nat : /\ a = SumTo(TableSize, Shares(P, i))
                               /\ b = Cardinality(RecordsOf(R, i)) /\ c = Named(s, i)
    BY <2>3, <2>4, OwnedFacts, NamedFacts
  <2>7. Owned(P, R)[i] = a + b
    BY <2>3, <2>4, <2>6, OwnedFacts
  <2>8. Cardinality({r \in records : \E k \in DOMAIN r : r[k].word = i}) = b
    BY <2>2, <2>6 DEF RecordsOf
  <2>9. References(i) = a + c
    <3>1. PICK h : h = [n \in 1..TableSize |->
                          IF n - 1 \in DOMAIN P
                            THEN ReferencesOf(P[n - 1], i) + (IF n - 1 = i THEN 1 ELSE 0)
                            ELSE 0]
      OBVIOUS
    <3>2. h = Shares(P, i)
      BY <3>1 DEF Shares, Share
    <3>3. Cardinality({j \in Live(s) : At0(s, j).type = "functor" /\ At0(s, j).name = i}) = c
      BY <2>6 DEF Named, NamedBy
    <3>4. References(i) = SumTo(TableSize, h)
            + Cardinality({j \in Live(s) : At0(s, j).type = "functor" /\ At0(s, j).name = i})
      BY <2>2, <3>1 DEF References
    <3>5. QED
      BY <2>6, <3>2, <3>3, <3>4
  <2>10. a + c + b = a + b + c
    OBVIOUS
  <2>11. QED
    BY <2>2, <2>5, <2>6, <2>7, <2>8, <2>9, <2>10
<1>2. QED
  BY <1>1, TableIsSound, PTL

(***************************************************************************)
(* The free list, followed from its head                                   *)
(***************************************************************************)
\* (The recursive function of FreeListIsDead)
Followed(s, c) == IF c[Len(c)] \in Dead(s) THEN Append(c, At0(s, c[Len(c)]).next) ELSE c
Chains(f, s, n) == f = [k \in 0..n |-> IF k = 0 THEN <<s.free>> ELSE Followed(s, f[k - 1])]

(* The recursive function that follows the free list exists. *)
LEMMA ChainsExist ==
  ASSUME NEW s \in Stores, NEW n \in Nat
  PROVE  \E f : Chains(f, s, n)
<1>1. PICK S : S = Seq(Int)
  OBVIOUS
<1>2. <<s.free>> \in S
  BY <1>1, StoreFacts
<1>3. ASSUME NEW c \in S
      PROVE  Followed(s, c) \in S
  <2>1. CASE c[Len(c)] \notin Dead(s)
    BY <2>1 DEF Followed
  <2>2. CASE c[Len(c)] \in Dead(s)
    <3>1. PICK x : x = At0(s, c[Len(c)]).next /\ x \in Int
      BY <2>2, StoreFacts
    <3>2. Followed(s, c) = Append(c, x)
      BY <2>2, <3>1 DEF Followed
    <3>3. QED
      BY <1>1, <3>1, <3>2
  <2>3. QED
    BY <2>1, <2>2
<1>4. PICK step : step = [k \in 1..n |-> [c \in S |-> Followed(s, c)]]
  OBVIOUS
<1>5. AreSteps(step, n, S)
  BY <1>3, <1>4 DEF AreSteps
<1>6. PICK a : a = <<s.free>> /\ a \in S
  BY <1>2
<1>7. PICK f : Unfolds(f, n, S, a, step)
  BY <1>5, <1>6, RecursiveFunction
<1>8. f \in [0..n -> S] /\ f[0] = a /\ \A k \in 1..n : f[k] = step[k][f[k - 1]]
  BY <1>7 DEF Unfolds
<1>9. ASSUME NEW k \in 0..n
      PROVE  f[k] = IF k = 0 THEN a ELSE Followed(s, f[k - 1])
  <2>1. CASE k = 0
    BY <1>8, <2>1
  <2>2. CASE k # 0
    <3>1. k \in 1..n /\ f[k - 1] \in S
      BY <1>8, <2>2
    <3>2. QED
      BY <1>4, <1>8, <2>2, <3>1
  <2>3. QED
    BY <2>1, <2>2
<1>10. QED
  BY <1>6, <1>8, <1>9 DEF Chains

\* A free list has each deleted entry once.
LEMMA ListCounts ==
  ASSUME NEW s \in Stores, NEW L, FreeList(s, L)
  PROVE  /\ Len(L) \in Nat \ {0} /\ Len(L) - 1 = Cardinality(Dead(s)) /\ Len(L) - 1 <= Len(s.ct)
         /\ \A k \in 1..Len(L) : L[k] \in Int
<1>1. PICK m \in Nat : m + 1 = Len(L)
  <2>1. Len(L) \in Nat /\ Len(L) > 0
    BY LenProperties DEF FreeList
  <2>2. Len(L) - 1 \in Nat /\ (Len(L) - 1) + 1 = Len(L)
    BY <2>1
  <2>3. QED
    BY <2>2
<1>2. m = Len(L) - 1
  BY <1>1
<1>3. /\ \A k \in 1..m : L[k] \in Dead(s)
      /\ \A i \in Dead(s) : \E k \in 1..m : L[k] = i
      /\ \A j, k \in 1..m : L[j] = L[k] => j = k
  BY <1>2 DEF FreeList
<1>4. PICK f : f = [k \in 1..m |-> L[k]]
  OBVIOUS
<1>5. f \in [1..m -> Dead(s)] /\ \A k \in 1..m : f[k] = L[k]
  BY <1>3, <1>4
<1>6. f \in Injection(1..m, Dead(s))
  BY <1>3, <1>5 DEF Injection, IsInjective
<1>7. f \in Surjection(1..m, Dead(s))
  BY <1>3, <1>5 DEF Surjection
<1>8. PICK c \in Nat : c = Len(s.ct)
  BY StoreFacts
<1>9. IsFiniteSet(0..c - 1) /\ Cardinality(0..c - 1) = c
  <2>1. PICK d \in Int : d = c - 1
    BY <1>8
  <2>2. IsFiniteSet(0..d) /\ Cardinality(0..d) = IF 0 > d THEN 0 ELSE d - 0 + 1
    BY FS_Interval
  <2>3. (IF 0 > d THEN 0 ELSE d - 0 + 1) = c
    BY <1>8, <2>1
  <2>4. QED
    BY <2>1, <2>2, <2>3
<1>10. IsFiniteSet(Dead(s)) /\ Cardinality(Dead(s)) <= c
  <2>1. Dead(s) \in SUBSET (0..c - 1)
    BY <1>8 DEF Dead, Indices
  <2>2. QED
    BY <1>9, <2>1, FS_Subset
<1>11. Cardinality(1..m) = m
  BY FS_Interval
<1>12. Cardinality(1..m) = Cardinality(Dead(s))
  BY <1>6, <1>7, <1>10, FS_Injection
<1>13. \A k \in 1..Len(L) : L[k] \in Int
  BY ElementOfSeq DEF FreeList
<1>14. QED
  BY <1>1, <1>2, <1>8, <1>10, <1>11, <1>12, <1>13

\* Followed often enough, it is all found.
LEMMA ChainIsList ==
  ASSUME NEW s \in Stores, NEW L, FreeList(s, L), NEW n \in Nat, Len(L) - 1 <= n,
         NEW f, Chains(f, s, n)
  PROVE  Len(f[n]) = Len(L) /\ \A j \in 1..Len(L) : f[n][j] = L[j]
<1>1. PICK m \in Nat : m + 1 = Len(L) /\ m <= n
  <2>1. Len(L) - 1 \in Nat /\ (Len(L) - 1) + 1 = Len(L)
    BY ListCounts
  <2>2. QED
    BY <2>1
<1>2. m = Len(L) - 1
  BY <1>1
<1>3. /\ L[1] = s.free /\ L[m + 1] = None
      /\ \A k \in 1..m : L[k] \in Dead(s) /\ At0(s, L[k]).next = L[k + 1]
  BY <1>1, <1>2 DEF FreeList
<1>4. \A k \in 1..m + 1 : L[k] \in Int
  BY <1>1, ListCounts
<1>5. None \notin Dead(s)
  BY StoreFacts DEF None, Dead, Indices
<1>6. f = [k \in 0..n |-> IF k = 0 THEN <<s.free>> ELSE Followed(s, f[k - 1])]
  BY DEF Chains
<1>7. f[0] = <<s.free>>
  <2>1. PICK k \in 0..n : k = 0
    OBVIOUS
  <2>2. f[k] = <<s.free>>
    BY <1>6, <2>1
  <2>3. QED
    BY <2>1, <2>2
<1>8. ASSUME NEW k \in 0..n - 1
      PROVE  f[k + 1] = Followed(s, f[k])
  <2>1. PICK i \in 0..n : i = k + 1 /\ i # 0 /\ i - 1 = k
    OBVIOUS
  <2>2. f[i] = Followed(s, f[i - 1])
    BY <1>6, <2>1
  <2>3. QED
    BY <2>1, <2>2
<1> DEFINE P == {k \in 0..n : /\ f[k] \in Seq(Int)
                              /\ Len(f[k]) = IF k < m THEN k + 1 ELSE m + 1
                              /\ \A j \in 1..Len(f[k]) : f[k][j] = L[j]}
<1>9. 0 \in P
  <2>1. PICK x \in Int : x = s.free
    BY StoreFacts
  <2>2. PICK c : c = <<x>>
    OBVIOUS
  <2>3. c \in Seq(Int) /\ Len(c) = 1 /\ c[1] = x
    BY <2>2
  <2>4. \A j \in 1..1 : c[j] = L[j]
    BY <1>3, <2>1, <2>3
  <2>5. (IF 0 < m THEN 0 + 1 ELSE m + 1) = 1
    OBVIOUS
  <2>6. f[0] = c
    BY <1>7, <2>1, <2>2
  <2>7. f[0] \in Seq(Int) /\ Len(f[0]) = (IF 0 < m THEN 0 + 1 ELSE m + 1)
        /\ \A j \in 1..Len(f[0]) : f[0][j] = L[j]
    BY <2>3, <2>4, <2>5, <2>6
  <2>8. 0 \in 0..n
    OBVIOUS
  <2>9. QED
    BY <2>7, <2>8
<1>10. ASSUME NEW k \in 0..n - 1, k \in P
       PROVE  k + 1 \in P
  <2>1. PICK c : c = f[k]
    OBVIOUS
  <2>2. PICK l \in Nat : /\ c \in Seq(Int) /\ l = (IF k < m THEN k + 1 ELSE m + 1) /\ Len(c) = l
                         /\ \A j \in 1..l : c[j] = L[j]
    BY <1>10, <2>1
  <2>3. l \in 1..l
    BY <2>2
  <2>4. c[l] = L[l]
    BY <2>2, <2>3
  <2>5. CASE k < m
    <3>1. l = k + 1 /\ l \in 1..m
      BY <2>2, <2>5
    <3>2. c[l] \in Dead(s) /\ At0(s, c[l]).next = L[l + 1]
      BY <1>3, <2>4, <3>1
    <3>3. PICK x \in Int : x = L[l + 1]
      BY <1>4, <3>1
    <3>4. PICK d : d = Append(c, x)
      OBVIOUS
    <3>5. f[k + 1] = d
      BY <1>8, <2>1, <2>2, <3>2, <3>3, <3>4 DEF Followed
    <3>6. d \in Seq(Int) /\ Len(d) = l + 1 /\ d[l + 1] = x /\ \A j \in 1..l : d[j] = c[j]
      BY <2>2, <3>3, <3>4, AppendProperties
    <3>7. \A j \in 1..l + 1 : d[j] = L[j]
      <4>1. SUFFICES ASSUME NEW j \in 1..l + 1 PROVE d[j] = L[j]
        OBVIOUS
      <4>2. CASE j = l + 1
        BY <3>3, <3>6, <4>2
      <4>3. CASE j \in 1..l
        <5>1. d[j] = c[j] /\ c[j] = L[j]
          BY <2>2, <3>6, <4>3
        <5>2. QED
          BY <5>1
      <4>4. QED
        BY <2>2, <4>2, <4>3
    <3>8. l + 1 = IF k + 1 < m THEN k + 1 + 1 ELSE m + 1
      BY <2>5, <3>1
    <3>9. QED
      BY <3>5, <3>6, <3>7, <3>8
  <2>6. CASE ~(k < m)
    <3>1. l = m + 1 /\ l = IF k + 1 < m THEN k + 1 + 1 ELSE m + 1
      BY <2>2, <2>6
    <3>2. c[l] \notin Dead(s)
      BY <1>3, <1>5, <2>4, <3>1
    <3>3. f[k + 1] = c
      BY <1>8, <2>1, <2>2, <3>2 DEF Followed
    <3>4. QED
      BY <2>2, <3>1, <3>3
  <2>7. QED
    BY <2>5, <2>6
<1> HIDE DEF P
<1>11. \A k \in 0..n : k \in P
  BY <1>9, <1>10, UpTo
<1>12. n \in P /\ (IF n < m THEN n + 1 ELSE m + 1) = m + 1
  BY <1>1, <1>11
<1>13. Len(f[n]) = m + 1 /\ \A j \in 1..m + 1 : f[n][j] = L[j]
  BY <1>12 DEF P
<1>14. QED
  BY <1>1, <1>13

\* The free list goes through the deleted entries, each once, and equal constants have one
\* index (allocate_ctable_index, delete_constant and intern).
THEOREM FreeListIsSound == TableSpec => []FreeListIsDead
<1>1. (~undefined => TableInv) => FreeListIsDead
  <2>1. SUFFICES ASSUME TableInv, ~undefined PROVE FreeListIsDead
    BY DEF FreeListIsDead
  <2> DEFINE dead == (0..CNext - 1) \ Live(Here)
             A(f) == f = [k \in 0..TableSize |->
                            IF k = 0 THEN <<nextFree>>
                            ELSE IF f[k - 1][Len(f[k - 1])] \in dead
                                   THEN Append(f[k - 1], At0(Here, f[k - 1][Len(f[k - 1])]).next)
                                   ELSE f[k - 1]]
             list == CHOOSE f : A(f)
             chain == list[TableSize]
             n == Len(chain) - 1
  <2>2. SUFFICES /\ chain[n + 1] = None
                 /\ {chain[k] : k \in 1..n} = dead /\ n = Cardinality(dead)
                 /\ \A i, j \in Live(Here) : SameConstant(At0(Here, i), At0(Here, j)) => i = j
    BY DEF FreeListIsDead
  <2>3. Good(Here, words, predicates, records)
    BY <2>1 DEF TableInv
  <2>4. /\ Here \in Stores /\ TableOK(Here) /\ Len(Here.ct) <= TableSize
        /\ Here.free = nextFree /\ CNext = Len(Here.ct)
    BY <2>3 DEF Good, Sound, TableOK, Here, Store, CNext
  <2>5. dead = Dead(Here)
    BY <2>4 DEF Dead, Indices
  <2> HIDE DEF dead
  <2>6. \A f : A(f) <=> Chains(f, Here, TableSize)
    BY <2>4, <2>5 DEF Chains, Followed
  <2> HIDE DEF A
  <2>7. TableSize \in Nat
    BY TableAssumption
  <2>8. Chains(list, Here, TableSize)
    <3>1. \E f : Chains(f, Here, TableSize)
      BY <2>4, <2>7, ChainsExist
    <3>2. \E f : A(f)
      BY <2>6, <3>1
    <3>3. A(list)
      BY <3>2
    <3>4. QED
      BY <2>6, <3>3
  <2> HIDE DEF list
  <2>9. PICK L : FreeList(Here, L)
    BY <2>4 DEF TableOK
  <2>10. PICK m \in Nat : /\ m = Len(L) - 1 /\ Len(L) = m + 1 /\ m = Cardinality(Dead(Here))
                          /\ m <= Len(Here.ct)
    <3>1. /\ Len(L) \in Nat \ {0} /\ Len(L) - 1 = Cardinality(Dead(Here))
          /\ Len(L) - 1 <= Len(Here.ct)
      BY <2>4, <2>9, ListCounts
    <3>2. Len(L) - 1 \in Nat /\ Len(L) = (Len(L) - 1) + 1
      BY <3>1
    <3>3. QED
      BY <3>1, <3>2
  <2>11. Len(L) - 1 <= TableSize
    <3>1. Len(Here.ct) \in Nat
      BY <2>4, StoreFacts
    <3>2. QED
      BY <2>4, <2>7, <2>10, <3>1
  <2>12. Len(chain) = Len(L) /\ \A j \in 1..Len(L) : chain[j] = L[j]
    BY <2>4, <2>7, <2>8, <2>9, <2>11, ChainIsList
  <2> HIDE DEF chain
  <2>13. n = m /\ \A j \in 1..m + 1 : chain[j] = L[j]
    BY <2>10, <2>12
  <2> HIDE DEF n
  <2>14. /\ L[m + 1] = None
         /\ \A k \in 1..m : L[k] \in Dead(Here)
         /\ \A i \in Dead(Here) : \E k \in 1..m : L[k] = i
    BY <2>9, <2>10 DEF FreeList
  <2>15. chain[n + 1] = None
    <3>1. m + 1 \in 1..m + 1
      OBVIOUS
    <3>2. QED
      BY <2>13, <2>14, <3>1
  <2>16. {chain[k] : k \in 1..n} = dead
    <3>1. \A k \in 1..m : chain[k] = L[k]
      BY <2>13
    <3>2. \A k \in 1..m : chain[k] \in dead
      BY <2>5, <2>14, <3>1
    <3>3. \A i \in dead : \E k \in 1..m : chain[k] = i
      BY <2>5, <2>14, <3>1
    <3>4. QED
      BY <2>13, <3>2, <3>3
  <2>17. n = Cardinality(dead)
    BY <2>5, <2>10, <2>13
  <2>18. \A i, j \in Live(Here) : SameConstant(At0(Here, i), At0(Here, j)) => i = j
    BY <2>4 DEF TableOK, Unique
  <2>19. QED
    BY <2>15, <2>16, <2>17, <2>18
<1>2. QED
  BY <1>1, TableIsSound, PTL
===============================================================================
