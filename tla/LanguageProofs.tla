---------------------------- MODULE LanguageProofs ----------------------------
(***************************************************************************)
(* What the parts of module Language do whatever their data.  Arithmetic   *)
(* is exact for longs of every width, all integers and all rationals: the  *)
(* proof goes through the functions one by one, and three facts carry it.  *)
(* The tests for an overflow, as they are written, say when a sum or       *)
(* difference leaves the longs; reducing to lowest terms is idempotent;    *)
(* and truncating division is division of absolute values.  Findalls share *)
(* one list of records, and yet each returns the solutions of its own      *)
(* generator: there the inductive invariant says what the records are,     *)
(* group by group, and that a list that is being collected is the end of   *)
(* what the generator gave.                                                *)
(***************************************************************************)
EXTENDS Arithmetic, Findall, Streams, SequenceTheorems, Recursion, TLAPS

(***************************************************************************)
(* The inductive invariant: numbers are what their types say.  Without it  *)
(* an overflow test means nothing.                                         *)
(***************************************************************************)
Coprime(i, j) == \A d \in Divisors(Abs(i), j) : d = 1

IsLong(n)     == n.type = "Integer" /\ n.num \in Long /\ n.den = 1
IsBig(n)      == n.type = "BigInteger" /\ n.num \in Int /\ n.den = 1
IsRational(n) == n.type = "Rational" /\ n.num \in Int /\ n.den \in Nat \ {0} /\ Coprime(n.num, n.den)
IsFailed(n)   == n.type \notin {"Integer", "BigInteger", "Rational", "Float"}

NumberOK(n) ==
  /\ n = NumberOf(n.type, n.num, n.den)
  /\ IsLong(n) \/ IsBig(n) \/ IsRational(n) \/ n = Float \/ (IsFailed(n) /\ n.num = 0 /\ n.den = 0)

ResultOK == NumberOK(result)

(***************************************************************************)
(* Longs                                                                   *)
(***************************************************************************)
\* The longs are the integers from -LONG_MAX - 1 to LONG_MAX.
LEMMA LongFacts ==
  /\ LONG_MAX \in Nat \ {0} /\ LONG_MIN = -LONG_MAX - 1 /\ LONG_MIN \in Int
  /\ \A i : i \in Long <=> i \in Int /\ LONG_MIN <= i /\ i <= LONG_MAX
  /\ -1 \in Long /\ 0 \in Long /\ 1 \in Long
BY ArithmeticAssumption DEF LONG_MIN, Long

\* The tests for an overflow of + are right.
LEMMA AddOverflowsRight ==
  ASSUME NEW i \in Long, NEW j \in Long
  PROVE  AddOverflows(i, j) <=> i + j \notin Long
BY LongFacts DEF AddOverflows

\* What wraps is a long, and what is a long does not wrap.
LEMMA WrappedIsLong ==
  ASSUME NEW i \in Int
  PROVE  Wrapped(i) \in Long /\ (i \in Long => Wrapped(i) = i)
<1>1. PICK m \in Nat \ {0} : m = LONG_MAX - LONG_MIN + 1
  BY LongFacts
<1>2. (i - LONG_MIN) % m \in 0..m - 1
  BY <1>1, LongFacts
<1>3. i \in Long => (i - LONG_MIN) % m = i - LONG_MIN
  BY <1>1, LongFacts
<1>4. QED
  BY <1>1, <1>2, <1>3, LongFacts DEF Wrapped

(***************************************************************************)
(* Division                                                                *)
(***************************************************************************)
\* Absolute values and signs
LEMMA SignFacts ==
  ASSUME NEW i \in Int
  PROVE  /\ Abs(i) \in Nat /\ Sgn(i) \in {-1, 0, 1}
         /\ Abs(-i) = Abs(i) /\ Sgn(-i) = -Sgn(i) /\ Abs(Abs(i)) = Abs(i)
         /\ (Abs(i) = 0 <=> i = 0) /\ (Sgn(i) = 0 <=> i = 0)
         /\ (i > 0 => Abs(i) = i /\ Sgn(i) = 1) /\ (i < 0 => Abs(i) = -i /\ Sgn(i) = -1)
         /\ (i = 0 => Abs(i) = 0 /\ Sgn(i) = 0)
BY DEF Abs, Sgn

\* Division by a positive number
LEMMA Euclid ==
  ASSUME NEW i \in Int, NEW d \in Nat \ {0}
  PROVE  /\ i \div d \in Int /\ i % d \in 0..d - 1 /\ i = d * (i \div d) + (i % d)
         /\ (i >= 0 => i \div d \in 0..i)
         /\ (i > 0 /\ d > 1 => i \div d < i)
         /\ i \div 1 = i /\ 0 \div d = 0
OBVIOUS

\* (The provers need to be told.)
LEMMA MinusZero == \A i \in Int : (i = 0 <=> -i = 0)
<1> TAKE i \in Int
<1>1. -i = 0 - i
  OBVIOUS
<1>2. QED
  BY <1>1

\* A number without remainder is a multiple.
LEMMA Multiple ==
  ASSUME NEW i \in Nat, NEW d \in Nat \ {0}, i % d = 0
  PROVE  \E k \in Nat : k = i \div d /\ i = d * k
OBVIOUS

\* Rounding to zero is division of the absolute values, with a sign.
LEMMA TdivCases ==
  ASSUME NEW i \in Int, NEW j \in Int \ {0}
  PROVE  /\ Tdiv(i, j) \in Int /\ (i = 0 => Tdiv(i, j) = 0)
         /\ Sgn(i) = Sgn(j) => Tdiv(i, j) = Abs(i) \div Abs(j)
         /\ Sgn(i) # Sgn(j) => Tdiv(i, j) = -(Abs(i) \div Abs(j))
<1>1. PICK p \in Nat, q \in Nat \ {0} : p = Abs(i) /\ q = Abs(j)
  BY SignFacts
<1>2. p \div q \in Nat /\ (i = 0 => p \div q = 0)
  <2>1. p \div q \in 0..p /\ 0 \div q = 0
    BY Euclid
  <2>2. i = 0 => p = 0
    BY <1>1, SignFacts
  <2>3. QED
    BY <2>1, <2>2
<1>3. Tdiv(i, j) = Sgn(i) * Sgn(j) * (p \div q)
  BY <1>1 DEF Tdiv
<1>4. CASE i = 0
  <2>1. Sgn(i) = 0 /\ Sgn(j) \in {-1, 1} /\ p \div q = 0
    BY <1>2, <1>4, SignFacts
  <2>2. QED
    BY <1>1, <1>3, <2>1
<1>5. CASE i # 0 /\ Sgn(i) = Sgn(j)
  <2>1. Sgn(i) * Sgn(j) = 1
    BY <1>5, SignFacts
  <2>2. QED
    BY <1>1, <1>2, <1>3, <1>5, <2>1
<1>6. CASE i # 0 /\ Sgn(i) # Sgn(j)
  <2>1. Sgn(i) * Sgn(j) = -1
    BY <1>6, SignFacts
  <2>2. QED
    BY <1>1, <1>2, <1>3, <1>6, <2>1
<1>7. QED
  BY <1>4, <1>5, <1>6

\* Rounding down does the same when the signs are the same, and so Truncated is Tdiv.
LEMMA FdivCases ==
  ASSUME NEW i \in Int, NEW j \in Int \ {0}
  PROVE  /\ Fdiv(i, j) \in Int
         /\ Sgn(i) = Sgn(j) => Fdiv(i, j) = Abs(i) \div Abs(j)
         /\ Truncated(i, j) = Tdiv(i, j)
<1>1. PICK p \in Nat, q \in Nat \ {0} : p = Abs(i) /\ q = Abs(j)
  BY SignFacts
<1>2. ASSUME NEW k \in Int
      PROVE  /\ Fdiv(k, j) = (Sgn(j) * k) \div q /\ Sgn(j) * k \in Int
             /\ Sgn(k) = Sgn(j) => Sgn(j) * k = Abs(k)
  <2>1. Sgn(j) \in {-1, 1}
    BY SignFacts
  <2>2. Sgn(j) * k \in Int /\ (Sgn(k) = Sgn(j) => Sgn(j) * k = Abs(k))
    BY <2>1, SignFacts
  <2>3. QED
    BY <2>2, <1>1 DEF Fdiv
<1>3. Fdiv(i, j) \in Int
  <2>1. PICK x \in Int : x = Sgn(j) * i
    BY <1>2
  <2>2. x \div q \in Int
    BY Euclid
  <2>3. QED
    BY <1>2, <2>1, <2>2
<1>4. ASSUME Sgn(i) = Sgn(j) PROVE Fdiv(i, j) = p \div q
  BY <1>1, <1>2, <1>4
<1>5. ASSUME Sgn(i) # Sgn(j) PROVE Fdiv(-i, j) = p \div q
  <2>1. CASE i = 0
    <3>1. p = 0 /\ 0 \div q = 0
      BY <2>1, <1>1, SignFacts, Euclid
    <3>2. Sgn(j) \in {-1, 0, 1} /\ -i = 0 /\ -i \in Int
      <4>1. j \in Int
        OBVIOUS
      <4>2. Sgn(j) \in {-1, 0, 1}
        BY <4>1, SignFacts
      <4>3. -i = 0
        BY <2>1, MinusZero
      <4>4. QED
        BY <4>2, <4>3
    <3>3. Sgn(j) * (-i) = 0
      BY <3>2
    <3>4. Fdiv(-i, j) = (Sgn(j) * (-i)) \div q
      BY <3>2, <1>2
    <3>5. QED
      BY <3>1, <3>3, <3>4
  <2>2. CASE i # 0
    <3>1. -i \in Int /\ Sgn(-i) = Sgn(j) /\ Abs(-i) = p
      BY <2>2, <1>1, <1>5, SignFacts
    <3>2. QED
      BY <3>1, <1>2
  <2>3. QED
    BY <2>1, <2>2
<1>6. QED
  BY <1>1, <1>3, <1>4, <1>5, TdivCases DEF Truncated

\* The quotient and the remainder of longs are longs, but for LONG_MIN by -1.
LEMMA TdivIsLong ==
  ASSUME NEW i \in Long, NEW j \in Long \ {0}, ~(i = LONG_MIN /\ j = -1)
  PROVE  Tdiv(i, j) \in Long /\ i - Tdiv(i, j) * j \in Long
<1>1. i \in Int /\ j \in Int \ {0}
  BY LongFacts
<1>2. PICK p \in Nat, q \in Nat \ {0} : p = Abs(i) /\ q = Abs(j)
  BY <1>1, SignFacts
<1>3. PICK k \in Nat, m \in 0..q - 1 : k = p \div q /\ m = p % q /\ p = q * k + m
  <2>1. p \div q \in 0..p
    BY Euclid
  <2>2. p % q \in 0..q - 1 /\ p = q * (p \div q) + (p % q)
    BY Euclid
  <2>3. QED
    BY <2>1, <2>2
<1>4. k <= p /\ (p > 0 /\ q > 1 => k < p)
  <2>1. p \div q \in 0..p /\ (p > 0 /\ q > 1 => p \div q < p)
    BY Euclid
  <2>2. QED
    BY <1>3, <2>1
<1>5. p <= LONG_MAX + 1 /\ q <= LONG_MAX + 1 /\ LONG_MAX \in Nat \ {0} /\ LONG_MIN = -LONG_MAX - 1
  BY <1>1, <1>2, LongFacts DEF Abs
<1>6. Tdiv(i, j) = IF Sgn(i) = Sgn(j) THEN k ELSE -k
  BY <1>1, <1>2, <1>3, TdivCases
<1>7. Tdiv(i, j) \in Long
  <2>1. CASE k <= LONG_MAX
    BY <2>1, <1>5, <1>6, LongFacts
  <2>2. CASE k > LONG_MAX
    <3>1. k = LONG_MAX + 1 /\ p = LONG_MAX + 1 /\ q = 1
      BY <2>2, <1>4, <1>5
    <3>2. i = LONG_MIN /\ j = 1
      BY <3>1, <1>1, <1>2, <1>5, LongFacts DEF Abs
    <3>3. Sgn(i) # Sgn(j)
      BY <3>2, <1>5 DEF Sgn
    <3>4. QED
      BY <3>1, <3>3, <1>5, <1>6, LongFacts
  <2>3. QED
    BY <2>1, <2>2, <1>5
<1>8. i - Tdiv(i, j) * j \in Long
  <2>1. k * q + m = p
    BY <1>3
  <2>2. \/ i >= 0 /\ i = p
        \/ i < 0 /\ i = -p
    BY <1>1, <1>2 DEF Abs
  <2>3. Tdiv(i, j) * j = IF i >= 0 THEN k * q ELSE -(k * q)
    <3>1. CASE i = 0
      <4>1. p = 0 /\ k = 0
        BY <3>1, <1>2, <1>4 DEF Abs
      <4>2. Tdiv(i, j) = 0
        BY <3>1, <1>1, TdivCases
      <4>3. QED
        BY <3>1, <4>1, <4>2, <1>1
    <3>2. CASE i > 0 /\ j > 0
      BY <3>2, <1>1, <1>2, <1>6 DEF Sgn, Abs
    <3>3. CASE i > 0 /\ j < 0
      <4>1. Tdiv(i, j) = -k /\ j = -q
        BY <3>3, <1>1, <1>2, <1>6 DEF Sgn, Abs
      <4>2. QED
        BY <3>3, <4>1
    <3>4. CASE i < 0 /\ j > 0
      <4>1. Tdiv(i, j) = -k /\ j = q
        BY <3>4, <1>1, <1>2, <1>6 DEF Sgn, Abs
      <4>2. QED
        BY <3>4, <4>1, <1>1
    <3>5. CASE i < 0 /\ j < 0
      <4>1. Tdiv(i, j) = k /\ j = -q
        BY <3>5, <1>1, <1>2, <1>6 DEF Sgn, Abs
      <4>2. QED
        BY <3>5, <4>1, <1>1
    <3>6. QED
      BY <3>1, <3>2, <3>3, <3>4, <3>5, <1>1
  <2>4. PICK kq \in Nat : kq = k * q
    OBVIOUS
  <2>5. i - Tdiv(i, j) * j = IF i >= 0 THEN m ELSE -m
    BY <2>1, <2>2, <2>3, <2>4, <1>3
  <2>6. QED
    BY <2>5, <1>3, <1>5, LongFacts
<1>9. QED
  BY <1>7, <1>8

(***************************************************************************)
(* Lowest terms                                                            *)
(***************************************************************************)
\* There is a greatest common divisor.
LEMMA GCDFacts ==
  ASSUME NEW i \in Nat, NEW j \in Nat \ {0}
  PROVE  /\ GCD(i, j) \in Divisors(i, j)
         /\ \A e \in Divisors(i, j) : e <= GCD(i, j)
<1>1. PICK S : S = {n \in Nat : n <= j /\ j - n \in Divisors(i, j)}
  OBVIOUS
<1>2. 1 \in Divisors(i, j)
  BY DEF Divisors
<1>3. \A d \in Divisors(i, j) : d \in 1..j
  BY DEF Divisors
<1>4. j - 1 \in S /\ S \in SUBSET Nat
  BY <1>1, <1>2
<1>5. PICK n \in S : \A m \in S : n <= m
  BY <1>4, LeastNatural
<1>6. PICK d : d = j - n
  OBVIOUS
<1>7. d \in Divisors(i, j) /\ d \in Nat
  BY <1>1, <1>3, <1>5, <1>6
<1>8. ASSUME NEW e \in Divisors(i, j)
      PROVE  e <= d
  <2>1. j - e \in S /\ e \in 1..j
    BY <1>1, <1>3
  <2>2. QED
    BY <2>1, <1>5, <1>6, <1>1
<1>9. \E c \in Divisors(i, j) : \A e \in Divisors(i, j) : e <= c
  BY <1>7, <1>8
<1>10. QED
  BY <1>9 DEF GCD

\* What is divided by the greatest common divisor has none left.
LEMMA ReducedIsCoprime ==
  ASSUME NEW i \in Nat, NEW j \in Nat \ {0}
  PROVE  LET d == GCD(i, j)
         IN  /\ d \in 1..j /\ j \div d \in Nat \ {0} /\ i \div d \in Nat
             /\ i = d * (i \div d)
             /\ \A e \in Divisors(i \div d, j \div d) : e = 1
<1>1. PICK d \in 1..j : d = GCD(i, j) /\ i % d = 0 /\ j % d = 0
  BY GCDFacts DEF Divisors
<1>2. PICK m \in Nat : m = i \div d /\ i = d * m
  <2>1. d \in Nat \ {0} /\ i % d = 0
    BY <1>1
  <2>2. QED
    BY <2>1, Multiple
<1>3. PICK n \in Nat : n = j \div d /\ j = d * n
  <2>1. d \in Nat \ {0} /\ j \in Nat /\ j % d = 0
    BY <1>1
  <2>2. QED
    BY <2>1, Multiple
<1>4. n # 0
  BY <1>3
<1>5. ASSUME NEW e \in Divisors(m, n)
      PROVE  e = 1
  <2>1. e \in 1..n /\ m % e = 0 /\ n % e = 0
    BY DEF Divisors
  <2>2. /\ \E m1 \in Nat : m1 = m \div e /\ m = e * m1
        /\ \E n1 \in Nat : n1 = n \div e /\ n = e * n1
    BY <2>1, Multiple
  <2>9. PICK m1 \in Nat, n1 \in Nat : m = e * m1 /\ n = e * n1
    BY <2>2
  <2>3. PICK c \in Nat \ {0} : c = d * e
    BY <2>1
  <2>4. i = c * m1 /\ j = c * n1
    BY <1>2, <1>3, <2>1, <2>9, <2>3
  <2>5. i % c = 0 /\ j % c = 0 /\ c <= j
    BY <2>4
  <2>6. c \in Divisors(i, j)
    BY <2>5 DEF Divisors
  <2>7. c <= d
    BY <2>6, <1>1, GCDFacts
  <2>8. QED
    BY <2>1, <2>3, <2>7
<1>6. QED
  BY <1>1, <1>2, <1>3, <1>4, <1>5

\* A fraction is reduced to lowest terms, with a positive denominator.
LEMMA RationalIsOK ==
  ASSUME NEW i \in Int, NEW j \in Int \ {0}
  PROVE  NumberOK(Rational(i, j)) /\ Rational(i, j).type = "Rational"
<1>1. PICK p \in Nat, q \in Nat \ {0} : p = Abs(i) /\ q = Abs(j)
  BY SignFacts
<1>2. PICK d \in 1..q : /\ d = GCD(p, q) /\ q \div d \in Nat \ {0} /\ p \div d \in Nat
                        /\ p = d * (p \div d)
                        /\ \A e \in Divisors(p \div d, q \div d) : e = 1
  BY ReducedIsCoprime
<1>3. PICK m \in Nat, n \in Nat \ {0} : m = p \div d /\ n = q \div d
  BY <1>2
<1>4. i = p \/ i = -p
  BY <1>1 DEF Abs
<1>5. i \div d = m \/ i \div d = -m
  <2>1. i = d * m \/ i = d * (-m)
    BY <1>2, <1>3, <1>4
  <2>2. -m \in Int /\ d \in Nat \ {0}
    OBVIOUS
  <2>3. QED
    BY <2>1, <2>2
<1>6. PICK s \in {-1, 1} : s = Sgn(j)
  BY SignFacts
<1>7. PICK k \in Int : k = s * (i \div d) /\ (k = m \/ k = -m)
  <2>1. s * (i \div d) = m \/ s * (i \div d) = -m
    BY <1>5, <1>6
  <2>2. QED
    BY <2>1
<1>8. Abs(k) = m
  BY <1>7 DEF Abs
<1>9. Rational(i, j) = NumberOf("Rational", k, n)
  BY <1>1, <1>2, <1>3, <1>6, <1>7 DEF Rational
<1>10. Coprime(k, n)
  BY <1>2, <1>3, <1>8 DEF Coprime
<1>11. QED
  BY <1>9, <1>10 DEF NumberOK, NumberOf, IsRational

\* What is in lowest terms is not reduced further, whatever its sign.
LEMMA RationalOfCoprime ==
  ASSUME NEW i \in Int, NEW j \in Nat \ {0}, Coprime(i, j), NEW k \in Int, Abs(k) = Abs(i)
  PROVE  Rational(k, j) = NumberOf("Rational", k, j) /\ Coprime(k, j)
<1>1. Abs(k) \in Nat /\ Abs(j) = j /\ Sgn(j) = 1
  BY SignFacts
<1>2. GCD(Abs(k), j) = 1
  BY <1>1, GCDFacts DEF Coprime
<1>3. k \div 1 = k /\ j \div 1 = j
  BY Euclid
<1>4. QED
  BY <1>1, <1>2, <1>3 DEF Rational, Coprime

\* A power of an integer is an integer.
LEMMA RaisedType ==
  ASSUME NEW i \in Int, NEW j \in Nat
  PROVE  Raised(i, j) \in Int
<1> DEFINE Powers(f) == f = [k \in 0..j |-> IF k = 0 THEN 1 ELSE i * f[k - 1]]
<1>1. \E f : Powers(f)
  <2>1. PICK step : step = [k \in 1..j |-> [x \in Int |-> i * x]]
    OBVIOUS
  <2>2. AreSteps(step, j, Int) /\ 1 \in Int
    BY <2>1 DEF AreSteps
  <2>3. PICK f : Unfolds(f, j, Int, 1, step)
    BY <2>2, RecursiveFunction
  <2>5. f \in [0..j -> Int] /\ f[0] = 1 /\ \A k \in 1..j : f[k] = step[k][f[k - 1]]
    BY <2>3 DEF Unfolds
  <2>4. ASSUME NEW k \in 0..j
        PROVE  f[k] = IF k = 0 THEN 1 ELSE i * f[k - 1]
    <3>1. CASE k = 0
      BY <3>1, <2>5
    <3>2. CASE k # 0
      <4>1. k \in 1..j /\ f[k - 1] \in Int
        BY <3>2, <2>5
      <4>2. step[k][f[k - 1]] = i * f[k - 1]
        BY <4>1, <2>1
      <4>3. QED
        BY <3>2, <4>2, <2>5
    <3>3. QED
      BY <3>1, <3>2
  <2>7. Powers(f)
    <3>1. f = [k \in 0..j |-> f[k]]
      BY <2>5
    <3>2. QED
      BY <2>4, <3>1
  <2>6. QED
    BY <2>7
<1>2. PICK f : f = CHOOSE g : Powers(g)
  OBVIOUS
<1>3. Powers(f)
  BY <1>1, <1>2
<1>4. \A k \in 0..j : f[k] = IF k = 0 THEN 1 ELSE i * f[k - 1]
  BY <1>3
<1>5. Raised(i, j) = f[j]
  BY <1>2 DEF Raised
<1> DEFINE P == {k \in 0..j : f[k] \in Int}
<1>6. 0 \in P
  BY <1>4
<1>7. ASSUME NEW k \in 0..j - 1, k \in P
      PROVE  k + 1 \in P
  <2>1. f[k + 1] = i * f[k]
    BY <1>4
  <2>2. QED
    BY <1>7, <2>1
<1> HIDE DEF P
<1>8. j \in P
  BY <1>6, <1>7, UpTo
<1>9. QED
  BY <1>5, <1>8 DEF P

(***************************************************************************)
(* Numbers                                                                 *)
(***************************************************************************)
\* The fields of numbers, and the numbers that are made of them
LEMMA Made ==
  /\ \A t, i, d : LET n == NumberOf(t, i, d) IN n.type = t /\ n.num = i /\ n.den = d
  /\ \A i : Integer(i) = NumberOf("Integer", i, 1) /\ Big(i) = NumberOf("BigInteger", i, 1)
  /\ \A e : Failed(e) = NumberOf(e, 0, 0)
  /\ Float = NumberOf("Float", 0, 0)
BY DEF NumberOf, Integer, Big, Failed, Float

\* An integer that is made of its value is what its type says.
LEMMA IntegersAreOK ==
  ASSUME NEW i \in Int
  PROVE  /\ i \in Long => NumberOK(Integer(i))
         /\ NumberOK(Big(i))
         /\ NumberOK(Normal(i)) /\ Meaning(Normal(i)) = Integer(i)
         /\ Meaning(Integer(i)) = Integer(i) /\ Meaning(Big(i)) = Integer(i)
         /\ Normal(i).type = "BigInteger" => i \notin Long /\ Normal(i).num = i
         /\ Integer(i).type = "Integer" /\ Big(i).type = "BigInteger"
         /\ Integer(i).num = i /\ Big(i).num = i
<1>1. i \in Long => NumberOK(Integer(i))
  BY Made DEF NumberOK, IsLong
<1>2. NumberOK(Big(i))
  BY Made DEF NumberOK, IsBig
<1>3. Meaning(Integer(i)) = Integer(i) /\ Meaning(Big(i)) = Integer(i)
  BY Made DEF Meaning
<1>4. QED
  BY <1>1, <1>2, <1>3, Made DEF Normal

\* The names of errors are not the types of numbers.
LEMMA FailuresAreOK ==
  ASSUME NEW e, e \notin {"Integer", "BigInteger", "Rational", "Float"}
  PROVE  NumberOK(Failed(e)) /\ Meaning(Failed(e)) = Failed(e) /\ Failed(e).type = e
BY Made DEF NumberOK, IsFailed, Meaning

\* A float
LEMMA FloatIsOK ==
  NumberOK(Float) /\ Meaning(Float) = Float /\ Float.type = "Float"
BY Made DEF NumberOK, Meaning

\* What a number is, by its type
LEMMA ByType ==
  ASSUME NEW n, NumberOK(n)
  PROVE  /\ n.type = "Integer" => n = Integer(n.num) /\ n.num \in Long /\ n.num \in Int /\ n.den = 1
         /\ n.type = "BigInteger" => n = Big(n.num) /\ n.num \in Int /\ n.den = 1
         /\ n.type = "Rational" =>
              /\ n = NumberOf("Rational", n.num, n.den)
              /\ n.num \in Int /\ n.den \in Nat \ {0} /\ Coprime(n.num, n.den)
         /\ n.type = "Float" => n = Float
         /\ n.num \in Int /\ n.den \in Nat
         /\ n.type # "BigInteger" => Meaning(n) = n
<1>1. n.type = "Integer" => n = Integer(n.num) /\ n.num \in Long /\ n.num \in Int /\ n.den = 1
  BY Made, LongFacts DEF NumberOK, IsLong, IsBig, IsRational, IsFailed
<1>2. n.type = "BigInteger" => n = Big(n.num) /\ n.num \in Int /\ n.den = 1
  BY Made DEF NumberOK, IsLong, IsBig, IsRational, IsFailed
<1>3. n.type = "Rational" =>
        /\ n = NumberOf("Rational", n.num, n.den)
        /\ n.num \in Int /\ n.den \in Nat \ {0} /\ Coprime(n.num, n.den)
  BY Made DEF NumberOK, IsLong, IsBig, IsRational, IsFailed
<1>4. n.type = "Float" => n = Float
  BY Made DEF NumberOK, IsLong, IsBig, IsRational, IsFailed
<1>5. n.num \in Int /\ n.den \in Nat
  BY Made, LongFacts DEF NumberOK, IsLong, IsBig, IsRational, IsFailed
<1>6. QED
  BY <1>1, <1>2, <1>3, <1>4, <1>5 DEF Meaning

\* A fraction is in lowest terms already when it is made.
LEMMA RationalFacts ==
  ASSUME NEW i \in Int, NEW j \in Int \ {0}
  PROVE  /\ NumberOK(Rational(i, j)) /\ Rational(i, j).type = "Rational"
         /\ Meaning(Rational(i, j)) = Rational(i, j)
BY RationalIsOK DEF Meaning

(***************************************************************************)
(* Functions of two numbers.  Right2 is what is to be shown of a result: it *)
(* is what its type says; unless the evaluation is one that departs, it is *)
(* a number that is wanted; and unless it hands on a BigInteger, it is one *)
(* only where no long would do.                                            *)
(***************************************************************************)
Widens(op, a, b) == op \in {"+", "-", "*", "max", "min"} /\ "BigInteger" \in {a.type, b.type}
Right2(op, a, b, r) ==
  /\ NumberOK(r)
  /\ ~Departs2(op, a, b) =>
       /\ Meaning(r) \in Wanted2(op, a, b)
       /\ ~Widens(op, a, b) /\ r.type = "BigInteger" => r.num \notin Long

\* common_type, by the types of the numbers
LEMMA CommonType ==
  ASSUME NEW a, NEW b, IsNumber(a), IsNumber(b)
  PROVE  LET type == common_type(a, b)
         IN  /\ type \in {"Integer", "BigInteger", "Rational", "Float"}
             /\ type = "Float" <=> "Float" \in {a.type, b.type}
             /\ type = "Rational" => ~(IsInteger(a) /\ IsInteger(b))
             /\ type = "BigInteger" => a.type = "BigInteger" /\ IsInteger(b)
             /\ type = "Integer" => a.type = "Integer" /\ IsInteger(b)
<1>1. Rank["Integer"] = 0 /\ Rank["BigInteger"] = 1 /\ Rank["Rational"] = 2 /\ Rank["Float"] = 3
  BY DEF Rank
<1>2. QED
  BY <1>1 DEF common_type, IsNumber, IsInteger

\* A sum, difference or product of integers is one, and of fractions one in lowest terms.
LEMMA AppliedType ==
  ASSUME NEW op \in {"+", "-", "*"}, NEW i \in Int, NEW j \in Int
  PROVE  Applied(op, i, j) \in Int
BY DEF Applied

\* What the sum, difference or product of two rationals is: itself, as a rational.
LEMMA CombinedFacts ==
  ASSUME NEW op \in {"+", "-", "*"}, NEW a, NEW b,
         a.num \in Int, b.num \in Int, a.den \in Nat \ {0}, b.den \in Nat \ {0}
  PROVE  NumberOK(Combined(op, a, b)) /\ Meaning(Combined(op, a, b)) = Combined(op, a, b)
         /\ Combined(op, a, b).type = "Rational"
<1>1. a.den * b.den \in Int \ {0}
  OBVIOUS
<1>2. a.num * b.num \in Int /\ a.num * b.den \in Int /\ b.num * a.den \in Int
  OBVIOUS
<1>3. Applied(op, a.num * b.den, b.num * a.den) \in Int
  BY <1>2, AppliedType
<1>4. QED
  BY <1>1, <1>2, <1>3, RationalFacts DEF Combined

\* +, - and *: the tests for an overflow, where they are right, make the sum exact.
LEMMA AdditiveRight ==
  ASSUME NEW op \in {"+", "-", "*"}, NEW a, NEW b, NumberOK(a), NumberOK(b),
         IsNumber(a), IsNumber(b), NEW r \in Additive(op, a, b)
  PROVE  Right2(op, a, b, r)
<1>1. PICK type : type = common_type(a, b)
  OBVIOUS
<1>2. PICK i \in Int : i = Applied(op, a.num, b.num)
  BY AppliedType, ByType
<1>w. Wanted2(op, a, b) =
        IF "Float" \in {a.type, b.type} THEN {Float, Failed("float_overflow")}
        ELSE {IF IsInteger(a) /\ IsInteger(b) THEN Whole(i, a, b) ELSE Combined(op, a, b)}
  BY <1>2 DEF Wanted2
<1>3. CASE type = "Float"
  <2>1. r \in {Float, Failed("float_overflow")}
    BY <1>1, <1>3 DEF Additive
  <2>2. "Float" \in {a.type, b.type}
    BY <1>1, <1>3, CommonType
  <2>3. NumberOK(r) /\ Meaning(r) = r /\ r.type # "BigInteger"
    BY <2>1, FloatIsOK, FailuresAreOK
  <2>4. QED
    BY <1>w, <2>1, <2>2, <2>3 DEF Right2
<1>4. CASE type = "Rational"
  <2>1. r = Combined(op, a, b)
    BY <1>1, <1>4 DEF Additive
  <2>2. "Float" \notin {a.type, b.type} /\ ~(IsInteger(a) /\ IsInteger(b))
    BY <1>1, <1>4, CommonType
  <2>3. a.num \in Int /\ b.num \in Int /\ a.den \in Nat \ {0} /\ b.den \in Nat \ {0}
    BY <2>2, ByType DEF IsNumber, IsInteger
  <2>4. NumberOK(r) /\ Meaning(r) = r /\ r.type # "BigInteger"
    BY <2>1, <2>3, CombinedFacts
  <2>5. QED
    BY <1>w, <2>1, <2>2, <2>4 DEF Right2
<1>5. CASE type = "BigInteger"
  <2>1. r = Big(i)
    BY <1>1, <1>2, <1>5 DEF Additive
  <2>2. "Float" \notin {a.type, b.type} /\ IsInteger(a) /\ IsInteger(b) /\ a.type = "BigInteger"
    BY <1>1, <1>5, CommonType DEF IsInteger
  <2>3. NumberOK(r) /\ Meaning(r) = Integer(i)
    BY <2>1, IntegersAreOK
  <2>4. Whole(i, a, b) = Integer(i)
    BY <2>2, Made DEF Whole
  <2>5. Widens(op, a, b)
    BY <2>2 DEF Widens
  <2>6. QED
    BY <1>w, <2>2, <2>3, <2>4, <2>5 DEF Right2
<1>6. CASE type = "Integer"
  <2>1. a.type = "Integer" /\ IsInteger(b) /\ AsLong(a) = {a.num} /\ a.num \in Long
    BY <1>1, <1>6, CommonType, ByType DEF AsLong
  <2>2. PICK j \in AsLong(b) :
          r = IF ~Overflows(op, a.num, j) THEN Integer(Wrapped(Applied(op, a.num, j)))
              ELSE IF unbounded THEN Big(i) ELSE Failed("integer_overflow")
    BY <1>1, <1>2, <1>6, <2>1 DEF Additive
  <2>3. j \in Long /\ (b.type = "Integer" => j = b.num)
    BY ByType DEF AsLong
  <2>4. PICK k \in Int : k = Applied(op, a.num, j)
    BY <2>1, <2>3, LongFacts, AppliedType
  <2>5. Wrapped(k) \in Long /\ (k \in Long => Wrapped(k) = k)
    BY WrappedIsLong
  <2>6. NumberOK(r)
    <3>1. NumberOK(Integer(Wrapped(k))) /\ NumberOK(Big(i)) /\ NumberOK(Failed("integer_overflow"))
      BY <2>5, LongFacts, IntegersAreOK, FailuresAreOK
    <3>2. QED
      BY <2>2, <2>4, <3>1
  <2>7. CASE b.type = "BigInteger"
    BY <2>1, <2>6, <2>7 DEF Right2, Departs2, Mixed
  <2>8. CASE b.type = "Integer" /\ ~Departs2(op, a, b)
    <3>1. j = b.num /\ k = i /\ Longs(a, b)
      BY <1>2, <2>1, <2>3, <2>4, <2>8 DEF Longs
    <3>2. Overflows(op, a.num, j) <=> i \notin Long
      <4>1. op = "+" => (Overflows(op, a.num, j) <=> a.num + j \notin Long)
        BY <2>1, <2>3, AddOverflowsRight DEF Overflows
      <4>2. op = "-" => (Overflows(op, a.num, j) <=> a.num - j \notin Long)
        BY <2>8, <3>1 DEF Overflows, Departs2
      <4>3. op = "*" => (Overflows(op, a.num, j) <=> a.num * j \notin Long)
        BY DEF Overflows
      <4>4. QED
        BY <4>1, <4>2, <4>3, <1>2, <3>1 DEF Applied
    <3>3. Whole(i, a, b) = IF ~unbounded /\ i \notin Long THEN Failed("integer_overflow") ELSE Integer(i)
      BY <2>1, <2>8, Made DEF Whole
    <3>4. /\ Meaning(Integer(i)) = Integer(i) /\ Meaning(Big(i)) = Integer(i)
          /\ Meaning(Failed("integer_overflow")) = Failed("integer_overflow")
          /\ Integer(i).type = "Integer" /\ Big(i).num = i
          /\ Failed("integer_overflow").type = "integer_overflow"
      BY IntegersAreOK, FailuresAreOK
    <3>5. r = IF i \in Long THEN Integer(i) ELSE IF unbounded THEN Big(i) ELSE Failed("integer_overflow")
      BY <2>2, <2>4, <2>5, <3>1, <3>2
    <3>6. Meaning(r) = Whole(i, a, b) /\ (r.type = "BigInteger" => r.num \notin Long)
      BY <3>3, <3>4, <3>5
    <3>7. "Float" \notin {a.type, b.type} /\ IsInteger(a)
      BY <2>1, <2>8 DEF IsInteger
    <3>8. QED
      BY <1>w, <2>1, <2>6, <3>6, <3>7 DEF Right2
  <2>9. QED
    BY <2>1, <2>6, <2>7, <2>8 DEF Right2, IsInteger
<1>7. QED
  BY <1>1, <1>3, <1>4, <1>5, <1>6, CommonType

\* Of numbers that are both negative, or neither, the quotient is rounded down.
LEMMA FdivAlike ==
  ASSUME NEW i \in Int, NEW j \in Int \ {0}, (i < 0) <=> (j < 0)
  PROVE  Fdiv(i, j) = Tdiv(i, j)
<1>1. CASE i = 0
  <2>1. Sgn(j) = 1 /\ Abs(j) = j /\ j \in Nat \ {0}
    BY <1>1, SignFacts
  <2>2. Fdiv(i, j) = i \div j
    BY <2>1 DEF Fdiv
  <2>3. 0 \div j = 0
    BY <2>1, Euclid
  <2>4. Tdiv(i, j) = 0
    BY <1>1, TdivCases
  <2>5. QED
    BY <1>1, <2>2, <2>3, <2>4
<1>2. CASE i # 0
  <2>1. Sgn(i) = Sgn(j)
    BY <1>2, SignFacts
  <2>2. QED
    BY <2>1, TdivCases, FdivCases
<1>3. QED
  BY <1>1, <1>2

\* // rem mod of longs
LEMMA DivideLongsFacts ==
  ASSUME NEW op \in {"//", "rem", "mod"}, NEW i \in Long, NEW j \in Long
  PROVE  LET n == DivideLongs(op, i, j)
         IN  /\ NumberOK(n) /\ n.type # "BigInteger" /\ Meaning(n) = n
             /\ j = 0 => n = Failed("zero_divisor")
             /\ j # 0 /\ ~(i = LONG_MIN /\ j = -1) =>
                  /\ op = "//" => n = Integer(Tdiv(i, j))
                  /\ op # "//" => n = Integer(i - Tdiv(i, j) * j)
<1>1. CASE j = 0 \/ (i = LONG_MIN /\ j = -1)
  <2>1. j = 0 => DivideLongs(op, i, j) = Failed("zero_divisor")
    BY DEF DivideLongs
  <2>2. DivideLongs(op, i, j) \in {Failed("zero_divisor"), Failed("crash")}
    BY <1>1 DEF DivideLongs
  <2>3. QED
    BY <1>1, <2>1, <2>2, FailuresAreOK
<1>2. CASE j # 0 /\ ~(i = LONG_MIN /\ j = -1)
  <2>1. PICK k \in Long : k = IF op = "//" THEN Tdiv(i, j) ELSE i - Tdiv(i, j) * j
    BY <1>2, TdivIsLong
  <2>2. DivideLongs(op, i, j) = Integer(k)
    BY <1>2, <2>1 DEF DivideLongs
  <2>3. NumberOK(Integer(k)) /\ Integer(k).type = "Integer" /\ Meaning(Integer(k)) = Integer(k)
    BY IntegersAreOK, LongFacts
  <2>4. QED
    BY <1>2, <2>1, <2>2, <2>3
<1>3. QED
  BY <1>1, <1>2

\* // rem mod of BigIntegers
LEMMA DivideBigFacts ==
  ASSUME NEW op \in {"//", "rem", "mod"}, NEW i \in Int, NEW j \in Int
  PROVE  LET n == DivideBig(op, i, j)
         IN  /\ NumberOK(n)
             /\ j \notin {0, 1} =>
                  /\ n.type = "BigInteger" => n.num \notin Long
                  /\ op = "//" => Meaning(n) = Integer(Tdiv(i, j))
                  /\ op = "rem" => Meaning(n) = Integer(i - Tdiv(i, j) * j)
                  /\ op = "mod" => Meaning(n) = Integer(i % Abs(j))
<1>1. CASE j \in {0, 1}
  <2>1. DivideBig(op, i, j) \in {Failed("zero_divisor"), Failed("crash")}
    BY <1>1 DEF DivideBig
  <2>2. QED
    BY <1>1, <2>1, FailuresAreOK
<1>2. CASE j \notin {0, 1}
  <2>1. Tdiv(i, j) \in Int /\ Abs(j) \in Nat \ {0}
    BY <1>2, TdivCases, SignFacts
  <2>2. i % Abs(j) \in Int
    <3>1. PICK m \in Nat \ {0} : m = Abs(j)
      BY <2>1
    <3>2. i % m \in Int
      OBVIOUS
    <3>3. QED
      BY <3>1, <3>2
  <2>3. i - Tdiv(i, j) * j \in Int
    BY <2>1
  <2>4. PICK k \in Int : k = CASE op = "//"  -> Tdiv(i, j)
                               [] op = "rem" -> i - Tdiv(i, j) * j
                               [] op = "mod" -> i % Abs(j)
    BY <2>1, <2>2, <2>3
  <2>5. DivideBig(op, i, j) = Normal(k)
    BY <1>2, <2>4 DEF DivideBig
  <2>6. NumberOK(Normal(k)) /\ Meaning(Normal(k)) = Integer(k)
        /\ (Normal(k).type = "BigInteger" => Normal(k).num \notin Long)
    BY IntegersAreOK
  <2>7. QED
    BY <2>4, <2>5, <2>6
<1>3. QED
  BY <1>1, <1>2

\* //, rem and mod
LEMMA IntegralRight ==
  ASSUME NEW op \in {"//", "rem", "mod"}, NEW a, NEW b, NumberOK(a), NumberOK(b),
         IsNumber(a), IsNumber(b), NEW r \in Integral(op, a, b)
  PROVE  Right2(op, a, b, r)
<1> DEFINE exact ==
      CASE op = "//"  -> Integer(Tdiv(a.num, b.num))
        [] op = "rem" -> Integer(a.num - Tdiv(a.num, b.num) * b.num)
        [] op = "mod" -> Integer(a.num - b.num * Fdiv(a.num, b.num))
<1>1. a.num \in Int /\ b.num \in Int
  BY ByType
<1>w. Wanted2(op, a, b) =
        {IF ~(IsInteger(a) /\ IsInteger(b)) THEN Failed("type_error")
         ELSE IF b.num = 0 THEN Failed("zero_divisor") ELSE exact}
  <2>1. CASE ~(IsInteger(a) /\ IsInteger(b)) \/ b.num = 0
    BY <2>1 DEF Wanted2
  <2>2. CASE IsInteger(a) /\ IsInteger(b) /\ b.num # 0
    <3>1. PICK q \in Int : q = Tdiv(a.num, b.num) /\ Truncated(a.num, b.num) = q
      BY <1>1, <2>2, TdivCases, FdivCases
    <3>2. Meaning(Integer(q)) = Integer(q)
      BY IntegersAreOK
    <3>3. a.num - b.num * q = a.num - q * b.num /\ a.num - b.num * q \in Int
      BY <1>1
    <3>4. Meaning(Integer(a.num - b.num * q)) = Integer(a.num - q * b.num)
      BY <3>3, IntegersAreOK
    <3>5. PICK f \in Int : f = Fdiv(a.num, b.num)
      BY <1>1, <2>2, FdivCases
    <3>6. a.num - b.num * f \in Int
      BY <1>1
    <3>7. Meaning(Integer(a.num - b.num * f)) = Integer(a.num - b.num * f)
      BY <3>6, IntegersAreOK
    <3>8. QED
      BY <2>2, <3>1, <3>2, <3>4, <3>5, <3>7 DEF Wanted2
  <2>3. QED
    BY <2>1, <2>2
<1> HIDE DEF exact
<1>2. CASE ~(IsInteger(a) /\ IsInteger(b))
  <2>1. r = Failed("type_error")
    BY <1>2 DEF Integral
  <2>2. QED
    BY <1>w, <1>2, <2>1, FailuresAreOK DEF Right2
<1>3. CASE IsInteger(a) /\ IsInteger(b) /\ a.type = "Integer" /\ (op = "//" \/ b.type = "Integer")
  <2>1. PICK j \in AsLong(b) : r = DivideLongs(op, a.num, j)
    BY <1>3 DEF Integral
  <2>2. a.num \in Long /\ j \in Long /\ (b.type = "Integer" => j = b.num)
    BY <1>3, <2>1, ByType DEF AsLong
  <2>3. NumberOK(r) /\ r.type # "BigInteger" /\ Meaning(r) = r
    BY <2>1, <2>2, DivideLongsFacts
  <2>4. CASE b.type # "Integer"
    BY <1>3, <2>3, <2>4 DEF Right2, Departs2, Mixed, IsInteger
  <2>5. CASE b.type = "Integer" /\ b.num = 0
    BY <1>w, <1>3, <2>1, <2>2, <2>3, <2>5, DivideLongsFacts DEF Right2
  <2>6. CASE b.type = "Integer" /\ b.num # 0 /\ ~Departs2(op, a, b)
    <3>1. Longs(a, b) /\ ~(a.num = LONG_MIN /\ b.num = -1)
      BY <1>3, <2>6 DEF Longs, Departs2
    <3>2. /\ op = "//" => r = Integer(Tdiv(a.num, b.num))
          /\ op # "//" => r = Integer(a.num - Tdiv(a.num, b.num) * b.num)
      BY <2>1, <2>2, <2>6, <3>1, DivideLongsFacts
    <3>3. ASSUME op = "mod"
          PROVE  a.num - Tdiv(a.num, b.num) * b.num = a.num - b.num * Fdiv(a.num, b.num)
      <4>1. (a.num < 0) <=> (b.num < 0)
        BY <2>6, <3>1, <3>3 DEF Departs2
      <4>2. PICK q \in Int : q = Tdiv(a.num, b.num) /\ q = Fdiv(a.num, b.num)
        BY <1>1, <2>6, <4>1, FdivAlike, TdivCases
      <4>3. q * b.num = b.num * q
        BY <1>1
      <4>4. QED
        BY <4>2, <4>3
    <3>4. r = exact
      BY <3>2, <3>3 DEF exact
    <3>5. QED
      BY <1>w, <1>3, <2>3, <2>6, <3>4 DEF Right2
  <2>7. QED
    BY <2>3, <2>4, <2>5, <2>6 DEF Right2
<1>4. CASE IsInteger(a) /\ IsInteger(b) /\ ~(a.type = "Integer" /\ (op = "//" \/ b.type = "Integer"))
  <2>1. r = DivideBig(op, a.num, b.num)
    BY <1>4 DEF Integral
  <2>2. NumberOK(r)
    BY <1>1, <2>1, DivideBigFacts
  <2>3. CASE ~Departs2(op, a, b)
    <3>1. ~Longs(a, b)
      BY <1>4 DEF Longs
    <3>2. b.num \notin {0, 1}
      BY <2>3, <3>1 DEF Departs2
    <3>3. /\ r.type = "BigInteger" => r.num \notin Long
          /\ op = "//" => Meaning(r) = Integer(Tdiv(a.num, b.num))
          /\ op = "rem" => Meaning(r) = Integer(a.num - Tdiv(a.num, b.num) * b.num)
          /\ op = "mod" => Meaning(r) = Integer(a.num % Abs(b.num))
      BY <1>1, <2>1, <3>2, DivideBigFacts
    <3>4. ASSUME op = "mod"
          PROVE  a.num % Abs(b.num) = a.num - b.num * Fdiv(a.num, b.num)
      <4>1. b.num \in Nat \ {0}
        BY <1>1, <2>3, <3>1, <3>2, <3>4 DEF Departs2
      <4>2. Abs(b.num) = b.num /\ Sgn(b.num) = 1
        BY <4>1, SignFacts
      <4>3. Fdiv(a.num, b.num) = a.num \div b.num
        BY <1>1, <4>2 DEF Fdiv
      <4>4. PICK i \in Int, m \in Nat \ {0} : i = a.num /\ m = b.num
        BY <1>1, <4>1
      <4>5. i % m = i - m * (i \div m)
        BY Euclid
      <4>6. QED
        BY <4>2, <4>3, <4>4, <4>5
    <3>5. Meaning(r) = exact
      BY <3>3, <3>4 DEF exact
    <3>6. QED
      BY <1>w, <1>4, <2>2, <3>2, <3>3, <3>5 DEF Right2
  <2>4. QED
    BY <2>2, <2>3 DEF Right2
<1>5. QED
  BY <1>2, <1>3, <1>4

\* /
LEMMA DivideRight ==
  ASSUME NEW a, NEW b, NumberOK(a), NumberOK(b),
         IsNumber(a), IsNumber(b), NEW r \in Divide(a, b)
  PROVE  Right2("/", a, b, r)
<1>1. CASE b.type = "Float"
  <2>1. r \in {Float, Failed("zero_divisor")} /\ Wanted2("/", a, b) = {Float, Failed("zero_divisor")}
    BY <1>1 DEF Divide, Wanted2
  <2>2. QED
    BY <2>1, FloatIsOK, FailuresAreOK DEF Right2
<1>2. CASE b.type # "Float" /\ b.num = 0
  <2>1. r = Failed("zero_divisor") /\ Wanted2("/", a, b) = {Failed("zero_divisor")}
    BY <1>2 DEF Divide, Wanted2
  <2>2. QED
    BY <2>1, FailuresAreOK DEF Right2
<1>3. CASE b.type # "Float" /\ b.num # 0 /\ ~(a.type = "Rational" /\ b.type = "Rational")
  <2>1. "Float" \in {a.type, b.type} \/ IsInteger(a) \/ IsInteger(b)
    BY <1>3 DEF IsNumber
  <2>2. r = Float /\ Wanted2("/", a, b) = {Float}
    BY <1>3, <2>1 DEF Divide, Wanted2
  <2>3. QED
    BY <2>2, FloatIsOK DEF Right2
<1>4. CASE b.type = "Rational" /\ b.num # 0 /\ a.type = "Rational"
  <2>1. PICK q : q = Rational(a.num * b.den, a.den * b.num)
    OBVIOUS
  <2>2. r = q /\ Wanted2("/", a, b) = {q}
    BY <1>4, <2>1 DEF Divide, Wanted2, IsInteger
  <2>3. a.num \in Int /\ b.num \in Int \ {0} /\ a.den \in Nat \ {0} /\ b.den \in Nat \ {0}
    BY <1>4, ByType
  <2>4. a.num * b.den \in Int /\ a.den * b.num \in Int \ {0}
    BY <2>3
  <2>5. NumberOK(q) /\ Meaning(q) = q /\ q.type = "Rational"
    BY <2>1, <2>4, RationalFacts
  <2>6. QED
    BY <2>2, <2>5 DEF Right2
<1>5. QED
  BY <1>1, <1>2, <1>3, <1>4

\* ^
LEMMA PowerRight ==
  ASSUME NEW a, NEW b, NumberOK(a), NumberOK(b),
         IsNumber(a), IsNumber(b), NEW r \in Power(a, b)
  PROVE  Right2("^", a, b, r)
<1>w. Wanted2("^", a, b) = IF "Float" \in {a.type, b.type} THEN {Float}
                           ELSE IF b.num \notin Long THEN {Failed("integer_overflow")}
                           ELSE {Integer(Raised(a.num, b.num))}
  BY Made DEF Wanted2
<1>1. CASE "Float" \in {a.type, b.type}
  <2>1. r = Float
    BY <1>1 DEF Power
  <2>2. QED
    BY <1>w, <1>1, <2>1, FloatIsOK DEF Right2
<1>2. CASE "Float" \notin {a.type, b.type} /\ b.type = "BigInteger"
  <2>1. r = Failed("integer_overflow")
    BY <1>2 DEF Power
  <2>2. ~Departs2("^", a, b) => b.num \notin Long
    BY <1>2 DEF Departs2
  <2>3. QED
    BY <1>w, <1>2, <2>1, <2>2, FailuresAreOK DEF Right2
<1>3. CASE /\ "Float" \notin {a.type, b.type} /\ b.type # "BigInteger"
           /\ "Rational" \in {a.type, b.type} \/ b.num < 0 \/ (a.type = "Integer" /\ a.num < 0)
  <2>1. r = Failed("crash")
    BY <1>3 DEF Power
  <2>2. Departs2("^", a, b)
    BY <1>3 DEF Departs2, IsNumber, IsInteger
  <2>3. QED
    BY <2>1, <2>2, FailuresAreOK DEF Right2
<1>4. CASE /\ "Float" \notin {a.type, b.type} /\ b.type # "BigInteger"
           /\ ~("Rational" \in {a.type, b.type} \/ b.num < 0 \/ (a.type = "Integer" /\ a.num < 0))
  <2>1. r = Normal(Raised(a.num, b.num))
    BY <1>4 DEF Power
  <2>2. b.type = "Integer"
    BY <1>4 DEF IsNumber, IsInteger
  <2>3. a.num \in Int /\ b.num \in Long /\ b.num \in Nat
    BY <1>4, <2>2, ByType
  <2>4. PICK k \in Int : k = Raised(a.num, b.num)
    BY <2>3, RaisedType
  <2>5. NumberOK(r) /\ Meaning(r) = Integer(k) /\ (r.type = "BigInteger" => r.num \notin Long)
    BY <2>1, <2>4, IntegersAreOK
  <2>6. QED
    BY <1>w, <1>4, <2>3, <2>4, <2>5 DEF Right2
<1>5. QED
  BY <1>1, <1>2, <1>3, <1>4

\* rdiv
LEMMA RdivRight ==
  ASSUME NEW a, NEW b, NumberOK(a), NumberOK(b),
         IsNumber(a), IsNumber(b), NEW r \in rdiv(a, b)
  PROVE  Right2("rdiv", a, b, r)
<1>w. Wanted2("rdiv", a, b) =
        {IF ~(IsInteger(a) /\ IsInteger(b)) THEN Failed("type_error")
         ELSE IF b.num = 0 THEN Failed("zero_divisor") ELSE Rational(a.num, b.num)}
  BY DEF Wanted2
<1>1. CASE ~(IsInteger(a) /\ IsInteger(b))
  <2>1. r = Failed("type_error")
    BY <1>1 DEF rdiv
  <2>2. QED
    BY <1>w, <1>1, <2>1, FailuresAreOK DEF Right2
<1>2. CASE IsInteger(a) /\ IsInteger(b) /\ b.num = 0
  <2>1. r = Failed("crash") /\ Departs2("rdiv", a, b)
    BY <1>2 DEF rdiv, Departs2
  <2>2. QED
    BY <2>1, FailuresAreOK DEF Right2
<1>3. CASE IsInteger(a) /\ IsInteger(b) /\ b.num # 0
  <2>1. r = Rational(a.num, b.num)
    BY <1>3 DEF rdiv
  <2>2. a.num \in Int /\ b.num \in Int \ {0}
    BY <1>3, ByType
  <2>3. NumberOK(r) /\ Meaning(r) = r /\ r.type = "Rational"
    BY <2>1, <2>2, RationalFacts
  <2>4. QED
    BY <1>w, <1>3, <2>1, <2>3 DEF Right2
<1>4. QED
  BY <1>1, <1>2, <1>3

\* What GMP returns has the sign of the difference.
LEMMA AnyWithFacts ==
  ASSUME NEW o \in Int, NEW c \in AnyWith(Sgn(o))
  PROVE  Sgn(c) = Sgn(o)
BY DEF AnyWith, Sgn

\* Numbers are compared by their values, and by 1, 0 or -1 unless GMP compares them.
LEMMA CompareFacts ==
  ASSUME NEW a, NEW b, NumberOK(a), NumberOK(b), IsNumber(a), IsNumber(b)
  PROVE  /\ "Float" \notin {a.type, b.type} /\ ~Mixed(a, b) =>
              \A c \in arith_compare(a, b) :
                /\ Sgn(c) = Sgn(a.num * b.den - b.num * a.den)
                /\ \/ c = Sgn(a.num * b.den - b.num * a.den)
                   \/ common_type(a, b) \in {"BigInteger", "Rational"}
         /\ a.num * b.den - b.num * a.den \in Int
<1>1. PICK type : type = common_type(a, b)
  OBVIOUS
<1>2. a.num \in Int /\ b.num \in Int /\ a.den \in Int /\ b.den \in Int
  BY ByType
<1>i. a.num * b.den - b.num * a.den \in Int
  BY <1>2
<1>3. CASE type = "Float"
  BY <1>1, <1>i, <1>3, CommonType
<1>4. CASE type = "Rational"
  <2>1. arith_compare(a, b) = AnyWith(Sgn(a.num * b.den - b.num * a.den))
    BY <1>1, <1>4 DEF arith_compare
  <2>2. QED
    BY <1>1, <1>i, <1>4, <2>1, AnyWithFacts
<1>5. CASE type \in {"Integer", "BigInteger"} /\ ~Mixed(a, b)
  <2>1. a.den = 1 /\ b.den = 1
    BY <1>1, <1>5, CommonType, ByType DEF IsInteger
  <2>2. PICK o \in Int : o = a.num * b.den - b.num * a.den /\ o = a.num - b.num
    BY <1>2, <2>1
  <2>3. CASE type = "Integer"
    <3>1. AsLong(a) = {a.num} /\ AsLong(b) = {b.num}
      BY <1>1, <1>5, <2>3, CommonType DEF AsLong, Mixed, IsInteger
    <3>2. arith_compare(a, b) = {Sgn(o)}
      BY <1>1, <2>2, <2>3, <3>1 DEF arith_compare
    <3>3. Sgn(Sgn(o)) = Sgn(o)
      BY DEF Sgn
    <3>4. QED
      BY <1>i, <2>2, <3>2, <3>3
  <2>4. CASE type = "BigInteger"
    <3>1. arith_compare(a, b) = AnyWith(Sgn(o))
      BY <1>1, <2>2, <2>4 DEF arith_compare
    <3>2. QED
      BY <1>1, <1>i, <2>2, <2>4, <3>1, AnyWithFacts
  <2>5. QED
    BY <1>5, <2>3, <2>4
<1>6. CASE Mixed(a, b)
  BY <1>i, <1>6
<1>7. QED
  BY <1>1, <1>3, <1>4, <1>5, <1>6, CommonType

\* max and min
LEMMA ExtremeRight ==
  ASSUME NEW op \in {"max", "min"}, NEW a, NEW b, NumberOK(a), NumberOK(b),
         IsNumber(a), IsNumber(b),
         NEW r \in IF op = "max" THEN Greatest(a, b) ELSE Least(a, b)
  PROVE  Right2(op, a, b, r)
<1>1. PICK c \in Recompared(a, b) : r = IF c = (IF op = "max" THEN 1 ELSE -1) THEN a ELSE b
  BY DEF Greatest, Least
<1>2. NumberOK(r) /\ (~Widens(op, a, b) => r.type # "BigInteger")
  BY <1>1 DEF Widens
<1>3. PICK o \in Int : o = a.num * b.den - b.num * a.den
  BY CompareFacts
<1>4. PICK s \in Int : s = IF op = "max" THEN o ELSE -o
  OBVIOUS
<1>w. Wanted2(op, a, b) =
        {Meaning(n) : n \in (IF "Float" \in {a.type, b.type} \/ s >= 0 THEN {a} ELSE {})
                              \cup (IF "Float" \in {a.type, b.type} \/ s <= 0 THEN {b} ELSE {})}
  BY <1>3, <1>4 DEF Wanted2
<1>5. CASE "Float" \in {a.type, b.type}
  BY <1>w, <1>1, <1>2, <1>5 DEF Right2
<1>6. CASE Departs2(op, a, b)
  BY <1>2, <1>6 DEF Right2
<1>7. CASE "Float" \notin {a.type, b.type} /\ ~Departs2(op, a, b)
  <2>1. ~Mixed(a, b) /\ ~varies
    BY <1>7 DEF Departs2
  <2>2. Sgn(c) = Sgn(o) /\ (c = Sgn(o) \/ common_type(a, b) \in {"BigInteger", "Rational"})
    BY <1>1, <1>3, <1>7, <2>1, CompareFacts DEF Recompared
  <2>3. common_type(a, b) \in {"BigInteger", "Rational"} => s <= 0
    <3>1. PICK x, y \in Int : x = a.num * b.den /\ y = b.num * a.den
      BY ByType
    <3>2. o = x - y
      BY <1>3, <3>1
    <3>3. common_type(a, b) \in {"BigInteger", "Rational"} =>
            IF op = "max" THEN ~(x > y) ELSE ~(x < y)
      BY <1>7, <3>1 DEF Departs2, Above, Below
    <3>4. QED
      BY <1>4, <3>2, <3>3
  <2>4. (r = a /\ s >= 0) \/ (r = b /\ s <= 0)
    <3>1. CASE c = Sgn(o)
      BY <1>1, <1>4, <3>1 DEF Sgn
    <3>2. CASE s <= 0
      <4>1. CASE r = b
        BY <3>2, <4>1
      <4>2. CASE r # b
        <5>1. r = a /\ c = IF op = "max" THEN 1 ELSE -1
          BY <1>1, <4>2
        <5>2. s >= 0
          BY <1>4, <2>2, <5>1 DEF Sgn
        <5>3. QED
          BY <5>1, <5>2
      <4>3. QED
        BY <4>1, <4>2
    <3>3. QED
      BY <2>2, <2>3, <3>1, <3>2
  <2>5. Meaning(r) \in Wanted2(op, a, b)
    BY <1>w, <2>4
  <2>6. QED
    BY <1>2, <2>5 DEF Right2
<1>8. QED
  BY <1>5, <1>6, <1>7

\* All functions of two numbers
LEMMA EvaluatedRight2 ==
  ASSUME NEW op \in Binary, NEW a, NEW b, NumberOK(a), NumberOK(b),
         IsNumber(a), IsNumber(b), NEW r \in Evaluated2(op, a, b)
  PROVE  Right2(op, a, b, r)
<1>1. CASE op \in {"+", "-", "*"}
  BY <1>1, AdditiveRight DEF Evaluated2
<1>2. CASE op \in {"//", "rem", "mod"}
  BY <1>2, IntegralRight DEF Evaluated2
<1>3. CASE op = "/"
  BY <1>3, DivideRight DEF Evaluated2
<1>4. CASE op = "^"
  BY <1>4, PowerRight DEF Evaluated2
<1>5. CASE op = "rdiv"
  BY <1>5, RdivRight DEF Evaluated2
<1>6. CASE op \in {"max", "min"}
  <2>1. r \in IF op = "max" THEN Greatest(a, b) ELSE Least(a, b)
    BY <1>6 DEF Evaluated2
  <2>2. QED
    BY <1>6, <2>1, ExtremeRight
<1>7. QED
  BY <1>1, <1>2, <1>3, <1>4, <1>5, <1>6 DEF Binary

(***************************************************************************)
(* Functions of one number, and what is to be shown of their results       *)
(***************************************************************************)
Widens1(op, a) == op \notin {"sign", "float", "random"} /\ a.type = "BigInteger"
Right1(op, a, r) ==
  /\ NumberOK(r)
  /\ ~Departs1(op, a) =>
       /\ Meaning(r) \in Wanted1(op, a)
       /\ ~Widens1(op, a) /\ r.type = "BigInteger" => r.num \notin Long

\* A number is another one when its numerator is replaced.
LEMMA Replaced ==
  \A t, i, d, k : [NumberOf(t, i, d) EXCEPT !.num = k] = NumberOf(t, k, d)
BY DEF NumberOf

\* negate and abs: the number that is made, for each type of the one it is made of
LEMMA ReplacedIsOK ==
  ASSUME NEW a, NumberOK(a), IsNumber(a), NEW k \in Int, Abs(k) = Abs(a.num),
         a.type = "Integer" => k \in Long
  PROVE  LET r == [a EXCEPT !.num = k]
         IN  /\ NumberOK(r) /\ r.type = a.type
             /\ a.type = "Float" => r = Float
             /\ IsInteger(a) => Meaning(r) = Integer(k) /\ Whole(k, a, a) = Integer(k)
             /\ a.type = "Rational" => Meaning(r) = r /\ r = Rational(k, a.den)
<1>1. CASE a.type = "Integer"
  <2>1. [a EXCEPT !.num = k] = Integer(k)
    BY <1>1, ByType, Replaced, Made
  <2>2. Whole(k, a, a) = Integer(k)
    BY <1>1, Made DEF Whole
  <2>3. QED
    BY <1>1, <2>1, <2>2, IntegersAreOK
<1>2. CASE a.type = "BigInteger"
  <2>1. [a EXCEPT !.num = k] = Big(k)
    BY <1>2, ByType, Replaced, Made
  <2>2. Whole(k, a, a) = Integer(k)
    BY <1>2, Made DEF Whole
  <2>3. QED
    BY <1>2, <2>1, <2>2, IntegersAreOK
<1>3. CASE a.type = "Rational"
  <2>1. /\ a = NumberOf("Rational", a.num, a.den)
        /\ a.num \in Int /\ a.den \in Nat \ {0} /\ Coprime(a.num, a.den)
    BY <1>3, ByType
  <2>2. [a EXCEPT !.num = k] = NumberOf("Rational", k, a.den)
    BY <2>1, Replaced
  <2>3. Rational(k, a.den) = NumberOf("Rational", k, a.den)
    BY <2>1, RationalOfCoprime
  <2>4. a.den \in Int \ {0}
    BY <2>1
  <2>5. NumberOK(Rational(k, a.den)) /\ Rational(k, a.den).type = "Rational"
        /\ Meaning(Rational(k, a.den)) = Rational(k, a.den)
    BY <2>4, RationalFacts
  <2>6. QED
    BY <1>3, <2>2, <2>3, <2>5 DEF IsInteger
<1>4. CASE a.type = "Float"
  <2>1. a = NumberOf("Float", 0, 0) /\ a.num = 0
    BY <1>4, ByType, Made
  <2>2. k = 0
    BY <2>1, SignFacts
  <2>3. [a EXCEPT !.num = k] = Float
    BY <2>1, <2>2, Replaced, Made
  <2>4. QED
    BY <1>4, <2>3, FloatIsOK DEF IsInteger
<1>5. QED
  BY <1>1, <1>2, <1>3, <1>4 DEF IsNumber, IsInteger

\* What is read as LONG_MIN is the one number that negate and abs depart for.
LEMMA LeastLong ==
  ASSUME NEW a, NumberOK(a)
  PROVE  /\ a = Integer(LONG_MIN) => a.type = "Integer" /\ a.num = LONG_MIN
         /\ a # Integer(LONG_MIN) /\ a.type = "Integer" =>
              a.num \in Long /\ a.num # LONG_MIN /\ -a.num \in Long /\ Abs(a.num) \in Long
<1>1. a = Integer(LONG_MIN) => a.type = "Integer" /\ a.num = LONG_MIN
  BY Made
<1>2. ASSUME a # Integer(LONG_MIN), a.type = "Integer"
      PROVE  a.num \in Long /\ a.num # LONG_MIN /\ -a.num \in Long /\ Abs(a.num) \in Long
  <2>1. PICK i \in Long : i = a.num /\ i # LONG_MIN
    BY <1>2, ByType
  <2>2. -i \in Long /\ Abs(i) \in Long
    BY <2>1, LongFacts DEF Abs
  <2>3. QED
    BY <2>1, <2>2
<1>3. QED
  BY <1>1, <1>2

\* Negation is exact, but for the smallest long.
LEMMA NegateRight ==
  ASSUME NEW a, NumberOK(a), IsNumber(a), NEW r \in negate(a)
  PROVE  Right1("negate", a, r)
<1>1. CASE a = Integer(LONG_MIN)
  <2>1. r \in {Big(LONG_MIN), Failed("integer_overflow")}
    BY <1>1 DEF negate
  <2>2. NumberOK(r)
    BY <2>1, LongFacts, IntegersAreOK, FailuresAreOK
  <2>3. QED
    BY <1>1, <2>2 DEF Right1, Departs1
<1>2. CASE a # Integer(LONG_MIN)
  <2>1. PICK k : k = -a.num
    OBVIOUS
  <2>2. k \in Int /\ Abs(k) = Abs(a.num) /\ (a.type = "Integer" => k \in Long)
    BY <1>2, <2>1, ByType, SignFacts, LeastLong
  <2>3. r = [a EXCEPT !.num = k]
    BY <1>2, <2>1 DEF negate
  <2>4. /\ NumberOK(r) /\ r.type = a.type
        /\ a.type = "Float" => r = Float
        /\ IsInteger(a) => Meaning(r) = Integer(k) /\ Whole(k, a, a) = Integer(k)
        /\ a.type = "Rational" => Meaning(r) = r /\ r = Rational(k, a.den)
    BY <2>2, <2>3, ReplacedIsOK
  <2>5. Wanted1("negate", a) =
          IF a.type = "Float" THEN {Float}
          ELSE {IF IsInteger(a) THEN Whole(k, a, a) ELSE Rational(k, a.den)}
    BY <2>1 DEF Wanted1, Roundings
  <2>6. Meaning(r) \in Wanted1("negate", a)
    BY <2>4, <2>5, FloatIsOK DEF IsNumber
  <2>7. QED
    BY <2>4, <2>6 DEF Right1, Widens1
<1>3. QED
  BY <1>1, <1>2

\* The absolute value is exact, but for the smallest long.
LEMMA AbsRight ==
  ASSUME NEW a, NumberOK(a), IsNumber(a), NEW r \in absolute(a)
  PROVE  Right1("abs", a, r)
<1>1. CASE a = Integer(LONG_MIN)
  <2>1. r = a
    BY <1>1 DEF absolute
  <2>2. QED
    BY <1>1, <2>1 DEF Right1, Departs1
<1>2. CASE a # Integer(LONG_MIN)
  <2>1. PICK k : k = Abs(a.num)
    OBVIOUS
  <2>2. k \in Int /\ Abs(k) = Abs(a.num) /\ (a.type = "Integer" => k \in Long)
    BY <1>2, <2>1, ByType, SignFacts, LeastLong
  <2>3. r = [a EXCEPT !.num = k]
    BY <1>2, <2>1 DEF absolute
  <2>4. /\ NumberOK(r) /\ r.type = a.type
        /\ a.type = "Float" => r = Float
        /\ IsInteger(a) => Meaning(r) = Integer(k) /\ Whole(k, a, a) = Integer(k)
        /\ a.type = "Rational" => Meaning(r) = r /\ r = Rational(k, a.den)
    BY <2>2, <2>3, ReplacedIsOK
  <2>5. Wanted1("abs", a) =
          IF a.type = "Float" THEN {Float}
          ELSE {IF IsInteger(a) THEN Whole(k, a, a) ELSE Rational(k, a.den)}
    BY <2>1 DEF Wanted1, Roundings
  <2>6. Meaning(r) \in Wanted1("abs", a)
    BY <2>4, <2>5, FloatIsOK DEF IsNumber
  <2>7. QED
    BY <2>4, <2>6 DEF Right1, Widens1
<1>3. QED
  BY <1>1, <1>2

\* An integer that is made of a float is of the right type.
LEMMA FromFloatFacts ==
  ASSUME NEW r \in FromFloat
  PROVE  NumberOK(r) /\ (r.type = "BigInteger" => r.num \notin Long)
<1>1. PICK i \in (LONG_MIN - 1)..(LONG_MAX + 1) :
        r = IF i \in Long \/ unbounded THEN Normal(i) ELSE Failed("integer_overflow")
  BY DEF FromFloat
<1>2. i \in Int
  BY LongFacts
<1>3. QED
  BY <1>1, <1>2, IntegersAreOK, FailuresAreOK

\* Division by one
LEMMA ByOne ==
  ASSUME NEW i \in Int
  PROVE  Tdiv(i, 1) = i /\ Fdiv(i, 1) = i /\ -Fdiv(-i, 1) = i
<1>1. Abs(1) = 1 /\ Sgn(1) = 1
  BY SignFacts
<1>2. \A k \in Int : Fdiv(k, 1) = k
  <2> TAKE k \in Int
  <2>1. k \div 1 = k
    BY Euclid
  <2>2. QED
    BY <1>1, <2>1 DEF Fdiv
<1>3. PICK m \in Int : m = -i /\ -m = i
  OBVIOUS
<1>4. PICK p \in Nat : p = Abs(i) /\ p \div 1 = p
  BY SignFacts, Euclid
<1>5. Tdiv(i, 1) = Sgn(i) * p
  BY <1>1, <1>4, SignFacts DEF Tdiv
<1>6. Sgn(i) * p = i
  BY <1>4, SignFacts DEF Abs, Sgn
<1>7. QED
  BY <1>2, <1>3, <1>5, <1>6

\* An integer is the nearest one to itself.
LEMMA NearestOfInteger ==
  ASSUME NEW a, a.num \in Int, a.den = 1
  PROVE  Nearest(a) = a.num
<1>1. PICK i \in Int, p \in Nat : i = a.num /\ p = Abs(i)
  BY SignFacts
<1>2. Sgn(2) = 1 /\ Abs(2) = 2
  BY SignFacts
<1>3. Fdiv(2 * p + 1, 2) = p
  <2>1. Fdiv(2 * p + 1, 2) = (1 * (2 * p + 1)) \div 2
    BY <1>2 DEF Fdiv
  <2>2. QED
    BY <2>1
<1>4. Sgn(i) * p = i
  BY <1>1, SignFacts DEF Abs, Sgn
<1>5. Nearest(a) = Sgn(i) * Fdiv(2 * p + 1, 2 * 1)
  BY <1>1 DEF Nearest
<1>6. QED
  BY <1>1, <1>3, <1>4, <1>5

\* The sign has the type of its operand.
LEMMA SignRight ==
  ASSUME NEW a, NumberOK(a), IsNumber(a), NEW r \in sign(a)
  PROVE  Right1("sign", a, r)
<1>1. CASE a.type = "Float"
  <2>1. r = Float /\ Wanted1("sign", a) = {Float}
    BY <1>1, ByType DEF sign, Wanted1, Roundings
  <2>2. QED
    BY <2>1, FloatIsOK DEF Right1
<1>2. CASE a.type # "Float"
  <2>1. PICK k \in Long : k = Sgn(a.num)
    BY ByType, SignFacts, LongFacts
  <2>2. r = Integer(k) /\ Wanted1("sign", a) = {Integer(k)}
    BY <1>2, <2>1, Made DEF sign, Wanted1
  <2>3. QED
    BY <2>2, IntegersAreOK, LongFacts DEF Right1
<1>3. QED
  BY <1>1, <1>2

\* The integer part is exact for integers, and for rationals what Departs1 says.
LEMMA FloatIntegerPartRight ==
  ASSUME NEW a, NumberOK(a), IsNumber(a), NEW r \in float_integer_part(a)
  PROVE  Right1("float_integer_part", a, r)
<1>1. CASE IsInteger(a)
  <2>1. r = a
    BY <1>1 DEF float_integer_part, IsInteger
  <2>2. PICK i \in Int : i = a.num /\ a.den = 1 /\ Meaning(a) = Integer(i)
    BY <1>1, ByType, IntegersAreOK DEF IsInteger
  <2>3. Wanted1("float_integer_part", a) = {Integer(i)}
    BY <1>1, <2>2, ByOne, Made DEF Wanted1, IsInteger
  <2>4. QED
    BY <1>1, <2>1, <2>2, <2>3 DEF Right1, Widens1
<1>2. CASE a.type = "Float"
  <2>1. r \in FromFloat
    BY <1>2 DEF float_integer_part, IsInteger
  <2>2. Wanted1("float_integer_part", a) = {Meaning(i) : i \in FromFloat}
    BY <1>2 DEF Wanted1
  <2>3. QED
    BY <2>1, <2>2, FromFloatFacts DEF Right1
<1>3. CASE a.type = "Rational"
  <2>1. r \in {Failed("crash"), Big(1)}
    BY <1>3 DEF float_integer_part, IsInteger
  <2>2. QED
    BY <1>3, <2>1, FailuresAreOK, IntegersAreOK DEF Right1, Departs1
<1>4. QED
  BY <1>1, <1>2, <1>3 DEF IsNumber

\* So is the fractional part.
LEMMA FloatFractionalPartRight ==
  ASSUME NEW a, NumberOK(a), IsNumber(a), NEW r \in float_fractional_part(a)
  PROVE  Right1("float_fractional_part", a, r)
<1>0. NumberOK(Integer(0)) /\ Meaning(Integer(0)) = Integer(0) /\ Integer(0).type = "Integer"
  BY LongFacts, IntegersAreOK
<1>1. CASE IsInteger(a)
  <2>1. r = Integer(0)
    BY <1>1 DEF float_fractional_part, IsInteger
  <2>2. Wanted1("float_fractional_part", a) = {Integer(0)}
    BY <1>1, Made DEF Wanted1, IsInteger
  <2>3. QED
    BY <1>0, <2>1, <2>2 DEF Right1
<1>2. CASE a.type = "Float"
  <2>1. r = Integer(0)
    BY <1>2 DEF float_fractional_part, IsInteger
  <2>2. QED
    BY <1>0, <1>2, <2>1 DEF Right1, Departs1, IsInteger
<1>3. CASE a.type = "Rational"
  <2>1. r \in {Failed("crash"), Rational(a.num - a.den, a.den)}
    BY <1>3 DEF float_fractional_part, IsInteger
  <2>2. a.num - a.den \in Int /\ a.den \in Int \ {0}
    BY <1>3, ByType
  <2>3. NumberOK(r)
    BY <2>1, <2>2, RationalFacts, FailuresAreOK
  <2>4. QED
    BY <1>3, <2>3 DEF Right1, Departs1, IsInteger
<1>4. QED
  BY <1>1, <1>2, <1>3 DEF IsNumber

\* A random number lies below the absolute value of its bound; where there is none the code crashes.
LEMMA RandomRight ==
  ASSUME NEW a, NumberOK(a), IsNumber(a), NEW r \in random(a)
  PROVE  Right1("random", a, r)
<1>1. CASE ~IsInteger(a) \/ a.num = 0
  <2>1. r = Failed("crash")
    BY <1>1 DEF random
  <2>2. QED
    BY <1>1, <2>1, FailuresAreOK DEF Right1, Departs1
<1>2. CASE IsInteger(a) /\ a.num # 0
  <2>1. PICK i \in 0..Abs(a.num) - 1 : r = Normal(i)
    BY <1>2 DEF random
  <2>2. Abs(a.num) \in Nat
    BY ByType, SignFacts
  <2>3. NumberOK(r) /\ Meaning(r) = Integer(i) /\ (r.type = "BigInteger" => r.num \notin Long)
    BY <2>1, <2>2, IntegersAreOK
  <2>4. Wanted1("random", a) = {Integer(k) : k \in 0..Abs(a.num) - 1}
    BY <1>2, Made DEF Wanted1, IsInteger
  <2>5. QED
    BY <2>3, <2>4 DEF Right1
<1>3. QED
  BY <1>1, <1>2

\* floor, truncate, round and ceiling, of integers and of fractions
LEMMA RoundedRight ==
  ASSUME NEW op \in Roundings, NEW a, NumberOK(a), IsNumber(a), NEW r \in Rounded(op, a)
  PROVE  Right1(op, a, r)
<1>w. Wanted1(op, a) =
        IF a.type = "Float" THEN {Meaning(i) : i \in FromFloat}
        ELSE {Integer(CASE op = "truncate" -> Tdiv(a.num, a.den)
                        [] op = "floor"    -> Fdiv(a.num, a.den)
                        [] op = "ceiling"  -> -Fdiv(-a.num, a.den)
                        [] op = "round"    -> Nearest(a))}
  BY Made DEF Wanted1, Roundings
<1>1. CASE a.type = "Integer"
  <2>1. PICK i \in Int : i = a.num /\ a.den = 1 /\ a = Integer(i) /\ Meaning(a) = Integer(i)
    BY <1>1, ByType, IntegersAreOK
  <2>2. r = a
    BY <1>1 DEF Rounded
  <2>3. Tdiv(i, 1) = i /\ Fdiv(i, 1) = i /\ -Fdiv(-i, 1) = i /\ Nearest(a) = i
    BY <2>1, ByOne, NearestOfInteger
  <2>4. Wanted1(op, a) = {Integer(i)}
    BY <1>w, <1>1, <2>1, <2>3 DEF Roundings
  <2>5. QED
    BY <1>1, <2>1, <2>2, <2>4 DEF Right1
<1>2. CASE a.type = "BigInteger"
  <2>1. PICK i \in Long : r = Integer(i)
    BY <1>2 DEF Rounded
  <2>2. QED
    BY <1>2, <2>1, IntegersAreOK, LongFacts DEF Right1, Departs1
<1>3. CASE a.type = "Float"
  <2>1. r \in FromFloat
    BY <1>3 DEF Rounded
  <2>2. QED
    BY <1>w, <1>3, <2>1, FromFloatFacts DEF Right1
<1>4. CASE a.type = "Rational"
  <2>1. r = Normal(Toward(op, a.num, a.den))
    BY <1>4 DEF Rounded
  <2>2. PICK i \in Int, j \in Int \ {0}, m \in Int : i = a.num /\ j = a.den /\ m = -i
    BY <1>4, ByType
  <2>3. Tdiv(i, j) \in Int /\ Fdiv(i, j) \in Int /\ Fdiv(m, j) \in Int
    BY <2>2, TdivCases, FdivCases
  <2>4. -Fdiv(m, j) \in Int
    BY <2>3
  <2>5. Toward(op, a.num, a.den) =
          CASE op = "truncate" -> Tdiv(i, j) [] op = "floor" -> Fdiv(i, j)
            [] op = "ceiling" -> -Fdiv(m, j) [] op = "round" -> Tdiv(i, j)
    BY <2>2 DEF Toward, Roundings
  <2>6. PICK k \in Int : k = Toward(op, a.num, a.den)
    BY <2>3, <2>4, <2>5 DEF Roundings
  <2>7. NumberOK(r) /\ Meaning(r) = Integer(k) /\ (r.type = "BigInteger" => r.num \notin Long)
    BY <2>1, <2>6, IntegersAreOK
  <2>8. ~Departs1(op, a) /\ op = "round" => Nearest(a) = Tdiv(i, j)
    BY <1>4, <2>2 DEF Departs1
  <2>9. ~Departs1(op, a) => Wanted1(op, a) = {Integer(k)}
    BY <1>w, <1>4, <2>2, <2>5, <2>6, <2>8 DEF Roundings
  <2>10. QED
    BY <2>7, <2>9 DEF Right1
<1>5. QED
  BY <1>1, <1>2, <1>3, <1>4 DEF IsNumber, IsInteger

\* All functions of one number
LEMMA EvaluatedRight1 ==
  ASSUME NEW op \in Unary, NEW a, NumberOK(a), IsNumber(a), NEW r \in Evaluated1(op, a)
  PROVE  Right1(op, a, r)
<1>1. CASE op = "negate"
  BY <1>1, NegateRight DEF Evaluated1, Roundings
<1>2. CASE op = "abs"
  BY <1>2, AbsRight DEF Evaluated1, Roundings
<1>3. CASE op = "sign"
  BY <1>3, SignRight DEF Evaluated1, Roundings
<1>4. CASE op = "float_integer_part"
  BY <1>4, FloatIntegerPartRight DEF Evaluated1, Roundings
<1>5. CASE op = "float_fractional_part"
  BY <1>5, FloatFractionalPartRight DEF Evaluated1, Roundings
<1>6. CASE op = "float"
  <2>1. r = Float /\ Wanted1("float", a) = {Float}
    BY <1>6 DEF Evaluated1, Wanted1, Roundings
  <2>2. QED
    BY <1>6, <2>1, FloatIsOK DEF Right1
<1>7. CASE op = "random"
  BY <1>7, RandomRight DEF Evaluated1, Roundings
<1>8. CASE op \in Roundings
  <2>1. r \in Rounded(op, a)
    BY <1>8 DEF Evaluated1, Roundings
  <2>2. QED
    BY <1>8, <2>1, RoundedRight
<1>9. QED
  BY <1>1, <1>2, <1>3, <1>4, <1>5, <1>6, <1>7, <1>8 DEF Unary

(***************************************************************************)
(* The theorems.  The invariant is inductive: an evaluation starts from a  *)
(* number that is what its type says, and from nothing else of the state.  *)
(***************************************************************************)
ArithmeticInv == ResultOK /\ ArithmeticIsExact /\ FitsMeansLong

\* What is read is a long, or a BigInteger where it does not fit or errno is set.
LEMMA LiteralFacts ==
  ASSUME NEW i \in Int
  PROVE  /\ NumberOK(Literal(i)) /\ Meaning(Literal(i)) = Integer(i)
         /\ Literal(i).type = "BigInteger" => Literal(i).num = i /\ (i \notin Long \/ erange)
<1>1. CASE i \notin Long \/ (erange /\ i \in {LONG_MIN, LONG_MAX})
  BY <1>1, IntegersAreOK DEF Literal
<1>2. CASE ~(i \notin Long \/ (erange /\ i \in {LONG_MIN, LONG_MAX}))
  BY <1>2, IntegersAreOK DEF Literal
<1>3. QED
  BY <1>1, <1>2

\* What stands beside a number is one too, or an error.
LEMMA OperandsAreOK ==
  ASSUME NEW n \in Operands
  PROVE  NumberOK(n)
<1>1. CASE n \in {Literal(i) : i \in Literals}
  BY <1>1, ArithmeticAssumption, LiteralFacts
<1>2. CASE n \in {Rational(r[1], r[2]) : r \in Ratios}
  <2>1. PICK r \in Ratios : n = Rational(r[1], r[2])
    BY <1>2
  <2>2. r[1] \in Int /\ r[2] \in Int \ {0}
    BY ArithmeticAssumption
  <2>3. QED
    BY <2>1, <2>2, RationalFacts
<1>3. CASE n \in {Float, Failed("instantiation_error"), Failed("evaluable_error")}
  BY <1>3, FloatIsOK, FailuresAreOK
<1>4. QED
  BY <1>1, <1>2, <1>3 DEF Operands

\* Reading an integer gives a number, and a long if it fits and errno was clear.
LEMMA ReadKeepsInv ==
  ASSUME NEW i \in Literals, Read(i)
  PROVE  ArithmeticInv'
<1>1. i \in Int
  BY ArithmeticAssumption
<1>2. PICK n : n = Literal(i) /\ n = result'
  BY DEF Read
<1>3. NumberOK(n) /\ Meaning(n) = Integer(i)
      /\ (n.type = "BigInteger" => n.num = i /\ (i \notin Long \/ erange))
  BY <1>1, <1>2, LiteralFacts
<1>4. meant' = {Integer(i)}
  BY Made DEF Read
<1>5. wide' <=> (erange /\ i \in Long)
  BY DEF Read
<1>6. ResultOK' /\ ArithmeticIsExact'
  BY <1>2, <1>3, <1>4 DEF ResultOK, ArithmeticIsExact
<1>7. FitsMeansLong'
  BY <1>2, <1>3, <1>5 DEF FitsMeansLong
<1>8. QED
  BY <1>6, <1>7 DEF ArithmeticInv

\* A function of two numbers keeps the invariant.
LEMMA Evaluate2KeepsInv ==
  ASSUME NEW op \in Binary, NEW a, NEW b, NumberOK(a), NumberOK(b), Evaluate2(op, a, b)
  PROVE  ArithmeticInv'
<1>1. CASE IsNumber(a) /\ IsNumber(b)
  <2>1. PICK r : r = result' /\ r \in Evaluated2(op, a, b)
    BY <1>1 DEF Evaluate2
  <2>2. Right2(op, a, b, r)
    BY <1>1, <2>1, EvaluatedRight2
  <2>3. /\ departs' <=> Departs2(op, a, b)
        /\ ~Departs2(op, a, b) => meant' = Wanted2(op, a, b)
        /\ wide' <=> Widens(op, a, b)
    BY <1>1 DEF Evaluate2, Widens
  <2>4. ResultOK' /\ ArithmeticIsExact'
    BY <2>1, <2>2, <2>3 DEF Right2, ResultOK, ArithmeticIsExact
  <2>5. FitsMeansLong'
    BY <2>1, <2>2, <2>3 DEF Right2, FitsMeansLong
  <2>6. QED
    BY <2>4, <2>5 DEF ArithmeticInv
<1>2. CASE ~(IsNumber(a) /\ IsNumber(b))
  <2>1. PICK r : r = result' /\ r = IF IsNumber(a) THEN b ELSE a
    BY <1>2 DEF Evaluate2
  <2>2. NumberOK(r) /\ ~IsNumber(r)
    BY <1>2, <2>1
  <2>3. r.type # "BigInteger" /\ Meaning(r) = r
    BY <2>2 DEF IsNumber, IsInteger, Meaning
  <2>4. meant' = {r}
    BY <1>2, <2>1 DEF Evaluate2
  <2>5. QED
    BY <2>1, <2>2, <2>3, <2>4 DEF ArithmeticInv, ResultOK, ArithmeticIsExact, FitsMeansLong
<1>3. QED
  BY <1>1, <1>2

\* So does a function of the last result.
LEMMA Evaluate1KeepsInv ==
  ASSUME NEW op \in Unary, ResultOK, Evaluate1(op)
  PROVE  ArithmeticInv'
<1>1. PICK a, r : a = result /\ r = result'
  OBVIOUS
<1>2. NumberOK(a) /\ IsNumber(a) /\ r \in Evaluated1(op, a)
  BY <1>1 DEF ResultOK, Evaluate1, InBounds
<1>3. Right1(op, a, r)
  BY <1>2, EvaluatedRight1
<1>4. /\ departs' <=> Departs1(op, a)
      /\ ~Departs1(op, a) => meant' = Wanted1(op, a)
      /\ wide' <=> Widens1(op, a)
  BY <1>1 DEF Evaluate1, Widens1
<1>5. ResultOK' /\ ArithmeticIsExact'
  BY <1>1, <1>3, <1>4 DEF Right1, ResultOK, ArithmeticIsExact
<1>6. FitsMeansLong'
  BY <1>1, <1>3, <1>4 DEF Right1, FitsMeansLong
<1>7. QED
  BY <1>5, <1>6 DEF ArithmeticInv

\* The invariant of ArithmeticSpec: it is so in the beginning, and every evaluation keeps it.
THEOREM ArithmeticKeepsInv == ArithmeticSpec => []ArithmeticInv
<1>1. ArithmeticInit => ArithmeticInv
  <2> SUFFICES ASSUME ArithmeticInit PROVE ArithmeticInv
    OBVIOUS
  <2>1. result = Integer(0) /\ meant = {Integer(0)}
    BY DEF ArithmeticInit
  <2>2. NumberOK(Integer(0)) /\ Meaning(Integer(0)) = Integer(0) /\ Integer(0).type = "Integer"
    BY LongFacts, IntegersAreOK
  <2>3. QED
    BY <2>1, <2>2 DEF ArithmeticInv, ResultOK, ArithmeticIsExact, FitsMeansLong
<1>2. ArithmeticInv /\ [ArithmeticNext]_arithmeticVars => ArithmeticInv'
  <2> SUFFICES ASSUME ArithmeticInv, [ArithmeticNext]_arithmeticVars PROVE ArithmeticInv'
    OBVIOUS
  <2>0. NumberOK(result) /\ \A n \in Operands : NumberOK(n)
    BY OperandsAreOK DEF ArithmeticInv, ResultOK
  <2>1. ASSUME NEW i \in Literals, Read(i) PROVE ArithmeticInv'
    BY <2>1, ReadKeepsInv
  <2>2. ASSUME NEW op \in Binary, NEW n \in Operands, Evaluate2(op, result, n) PROVE ArithmeticInv'
    BY <2>0, <2>2, Evaluate2KeepsInv
  <2>3. ASSUME NEW op \in Binary, NEW n \in Operands, Evaluate2(op, n, result) PROVE ArithmeticInv'
    BY <2>0, <2>3, Evaluate2KeepsInv
  <2>4. ASSUME NEW op \in Binary, Evaluate2(op, result, result) PROVE ArithmeticInv'
    BY <2>0, <2>4, Evaluate2KeepsInv
  <2>5. ASSUME NEW op \in Unary, Evaluate1(op) PROVE ArithmeticInv'
    BY <2>5, Evaluate1KeepsInv DEF ArithmeticInv
  <2>6. CASE SystemCallFails \/ UNCHANGED arithmeticVars
    BY <2>6 DEF ArithmeticInv, ResultOK, ArithmeticIsExact, FitsMeansLong, SystemCallFails, arithmeticVars
  <2>7. QED
    BY <2>1, <2>2, <2>3, <2>4, <2>5, <2>6 DEF ArithmeticNext
<1>3. QED
  BY <1>1, <1>2, PTL DEF ArithmeticSpec

\* Evaluation gives the number that an expression has, or the error that says why there is
\* none, unless it is one of the evaluations that are known to depart: for longs of every
\* width, all integers and all fractions (evaluate in arithmetic.c).
THEOREM EvaluationIsExact == ArithmeticSpec => []ArithmeticIsExact
<1>1. ArithmeticInv => ArithmeticIsExact
  BY DEF ArithmeticInv
<1>2. QED
  BY <1>1, ArithmeticKeepsInv, PTL

\* What fits a long is one, so that equal integers are one constant, but where a BigInteger
\* is handed on (mpz_fits_slong_p in evaluate, and the tests for an overflow).
THEOREM IntegersThatFitAreLongs == ArithmeticSpec => []FitsMeansLong
<1>1. ArithmeticInv => FitsMeansLong
  BY DEF ArithmeticInv
<1>2. QED
  BY <1>1, ArithmeticKeepsInv, PTL

\* Every number that is made compares with every other by its value, on either side, but a
\* long with a BigInteger (common_type and arith_compare).
THEOREM NumbersCompareAsValues == ArithmeticSpec => []ComparesAsValues
<1>1. ArithmeticInv => ComparesAsValues
  <2> SUFFICES ASSUME ArithmeticInv, NEW n \in Operands, InBounds, IsNumber(n),
                      "Float" \notin {n.type, result.type}
               PROVE  LET order == Sgn(result.num * n.den - n.num * result.den)
                      IN  /\ Mixed(result, n) \/ \A c \in arith_compare(result, n) : Sgn(c) = order
                          /\ Mixed(n, result) \/ \A c \in arith_compare(n, result) : Sgn(c) = -order
    BY DEF ComparesAsValues
  <2>1. PICK a : a = result
    OBVIOUS
  <2>2. NumberOK(a) /\ NumberOK(n) /\ IsNumber(a) /\ IsNumber(n) /\ "Float" \notin {a.type, n.type}
    BY <2>1, OperandsAreOK DEF ArithmeticInv, ResultOK, InBounds
  <2>3. PICK o \in Int : o = a.num * n.den - n.num * a.den
    BY <2>2, CompareFacts
  <2>4. PICK m \in Int : m = n.num * a.den - a.num * n.den
    BY <2>2, CompareFacts
  <2>5. m = -o
    <3>1. PICK x \in Int, y \in Int : x = a.num * n.den /\ y = n.num * a.den
      BY <2>2, ByType
    <3>2. QED
      BY <2>3, <2>4, <3>1
  <2>6. Sgn(m) = -Sgn(o)
    BY <2>5, SignFacts
  <2>7. /\ Mixed(a, n) \/ \A c \in arith_compare(a, n) : Sgn(c) = Sgn(o)
        /\ Mixed(n, a) \/ \A c \in arith_compare(n, a) : Sgn(c) = Sgn(m)
    BY <2>2, <2>3, <2>4, CompareFacts
  <2>8. QED
    BY <2>1, <2>3, <2>6, <2>7
<1>2. QED
  BY <1>1, ArithmeticKeepsInv, PTL

(***************************************************************************)
(* Findall                                                                 *)
(***************************************************************************)
Recorded == Solutions \cup {Marker}

\* A findall: what has been taken off is the end of what was given, and nothing is
\* taken off before the generator has ended.
AFindall ==
  {f \in [phase : {"generate", "list", "throw"}, list : Seq(Solutions), given : Seq(Solutions)] :
     /\ Len(f.list) <= Len(f.given)
     /\ \A i \in 1..Len(f.list) : f.list[i] = f.given[Untaken(f) + i]
     /\ f.phase = "generate" => f.list = <<>>}

\* All generators but the innermost are waiting for a solution
Waiting(fs, n) == \A k \in 1..n : fs[k].phase = "generate"

FindallInv ==
  /\ findalls \in Seq(AFindall) /\ Waiting(findalls, Len(findalls) - 1)
  /\ left \in Seq(Recorded)
  /\ RecordsAreOwned /\ OwnSolutions

(***************************************************************************)
(* The records of one findall                                              *)
(***************************************************************************)
\* The fields of a findall
LEMMA FindallFacts ==
  ASSUME NEW f \in AFindall
  PROVE  /\ f.given \in Seq(Solutions) /\ f.list \in Seq(Solutions)
         /\ Len(f.given) \in Nat /\ Len(f.list) \in Nat /\ Untaken(f) \in Nat
         /\ Untaken(f) = Len(f.given) - Len(f.list)
         /\ \A i \in 1..Len(f.given) : f.given[i] \in Solutions /\ f.given[i] # Marker
         /\ \A i \in 1..Len(f.list) : f.list[i] = f.given[Untaken(f) + i]
         /\ f.phase = "generate" => f.list = <<>>
         /\ f.phase \in {"generate", "list", "throw"}
         /\ f = [phase |-> f.phase, list |-> f.list, given |-> f.given]
<1>1. /\ f \in [phase : {"generate", "list", "throw"}, list : Seq(Solutions), given : Seq(Solutions)]
      /\ Len(f.list) <= Len(f.given)
      /\ \A i \in 1..Len(f.list) : f.list[i] = f.given[Untaken(f) + i]
      /\ f.phase = "generate" => f.list = <<>>
  BY DEF AFindall
<1>2. Len(f.given) \in Nat /\ Len(f.list) \in Nat /\ \A i \in 1..Len(f.given) : f.given[i] \in Solutions
  BY <1>1, LenProperties, ElementOfSeq
<1>3. \A i \in 1..Len(f.given) : f.given[i] # Marker
  BY <1>2, SolutionsAssumption
<1>4. QED
  BY <1>1, <1>2, <1>3 DEF Untaken

\* They are what was not taken off, newest first, and the marker.
LEMMA RecordsFacts ==
  ASSUME NEW f \in AFindall
  PROVE  /\ Records(f) \in Seq(Recorded) /\ Len(Records(f)) = Untaken(f) + 1
         /\ \A i \in 1..Untaken(f) : Records(f)[i] = f.given[Untaken(f) + 1 - i]
         /\ Records(f)[Untaken(f) + 1] = Marker
<1>1. PICK n \in Nat : n = Untaken(f)
  BY FindallFacts
<1>2. PICK r : r = Records(f)
  OBVIOUS
<1>3. r = [i \in 1..n + 1 |-> IF i <= n THEN f.given[n + 1 - i] ELSE Marker]
  BY <1>1, <1>2 DEF Records
<1>4. PICK m \in Nat : m = Len(f.given) /\ n <= m /\ \A i \in 1..m : f.given[i] \in Solutions
  <2>1. /\ Len(f.given) \in Nat /\ Len(f.list) \in Nat /\ Untaken(f) = Len(f.given) - Len(f.list)
        /\ \A i \in 1..Len(f.given) : f.given[i] \in Solutions
    BY FindallFacts
  <2>2. n <= Len(f.given)
    <3>1. PICK m \in Nat, l \in Nat : m = Len(f.given) /\ l = Len(f.list) /\ n = m - l
      BY <1>1, <2>1
    <3>2. \A x, y \in Nat : x - y <= x
      OBVIOUS
    <3>3. QED
      BY <3>1, <3>2
  <2>3. QED
    BY <2>1, <2>2
<1>5. r \in [1..n + 1 -> Recorded]
  <2>1. \A i \in 1..n : n + 1 - i \in 1..m
    BY <1>4
  <2>2. QED
    BY <1>3, <1>4, <2>1 DEF Recorded
<1>6. r \in Seq(Recorded) /\ Len(r) = n + 1
  BY <1>5, LenProperties
<1>7. QED
  BY <1>1, <1>2, <1>3, <1>6

\* Nothing but the fields that Records looks at matters.
LEMMA SameRecords ==
  ASSUME NEW f, NEW g, f.list = g.list, f.given = g.given
  PROVE  Records(f) = Records(g)
BY DEF Records, Untaken

\* A sequence of one
LEMMA Single ==
  ASSUME NEW S, NEW e \in S
  PROVE  \E s \in Seq(S) : s = <<e>> /\ Len(s) = 1 /\ s[1] = e
<1>1. <<e>> \in Seq(S) /\ Len(<<e>>) = 1 /\ <<e>>[1] = e
  OBVIOUS
<1>2. QED
  BY <1>1

\* g has one more solution to take off than f, and those below it are the same.
OneMoreUntaken(g, f) ==
  Untaken(g) = Untaken(f) + 1 /\ \A i \in 1..Untaken(f) : g.given[i] = f.given[i]

\* With one more solution there is one more record, above the others.
LEMMA OneRecordMore ==
  ASSUME NEW f \in AFindall, NEW g \in AFindall, OneMoreUntaken(g, f)
  PROVE  Records(g) = <<g.given[Untaken(g)]>> \o Records(f)
<1>g. PICK gs : gs = g.given
  OBVIOUS
<1>a. PICK n \in Nat : /\ n = Untaken(f) /\ Untaken(g) = n + 1 /\ gs = g.given
                       /\ \A i \in 1..n : gs[i] = f.given[i]
  BY <1>g, FindallFacts DEF OneMoreUntaken
<1>e. gs[n + 1] \in Recorded
  <2>1. Len(g.given) \in Nat /\ Len(g.list) \in Nat /\ Untaken(g) = Len(g.given) - Len(g.list)
        /\ \A i \in 1..Len(g.given) : g.given[i] \in Solutions
    BY FindallFacts
  <2>2. PICK m \in Nat, l \in Nat : m = Len(g.given) /\ l = Len(g.list) /\ n + 1 = m - l
    BY <1>a, <2>1
  <2>3. \A x, y, z \in Nat : z + 1 = x - y => z + 1 \in 1..x
    OBVIOUS
  <2>4. n + 1 \in 1..m
    BY <2>2, <2>3
  <2>5. QED
    BY <1>a, <2>1, <2>2, <2>4 DEF Recorded
<1>s. PICK s \in Seq(Recorded) : s = <<gs[n + 1]>> /\ Len(s) = 1 /\ s[1] = gs[n + 1]
  BY <1>e, Single
<1>1. PICK r \in Seq(Recorded) : /\ r = Records(f) /\ Len(r) = n + 1 /\ r[n + 1] = Marker
                                 /\ \A i \in 1..n : r[i] = f.given[n + 1 - i]
  <2>1. /\ Records(f) \in Seq(Recorded) /\ Len(Records(f)) = Untaken(f) + 1
        /\ \A i \in 1..Untaken(f) : Records(f)[i] = f.given[Untaken(f) + 1 - i]
        /\ Records(f)[Untaken(f) + 1] = Marker
    BY RecordsFacts
  <2>2. QED
    BY <1>a, <2>1
<1>2. PICK q \in Seq(Recorded) : /\ q = Records(g) /\ Len(q) = n + 2 /\ q[n + 2] = Marker
                                 /\ \A i \in 1..n + 1 : q[i] = gs[n + 2 - i]
  <2>1. /\ Records(g) \in Seq(Recorded) /\ Len(Records(g)) = Untaken(g) + 1
        /\ \A i \in 1..Untaken(g) : Records(g)[i] = g.given[Untaken(g) + 1 - i]
        /\ Records(g)[Untaken(g) + 1] = Marker
    BY RecordsFacts
  <2>2. Untaken(g) = n + 1 /\ Untaken(g) + 1 = n + 2
    BY <1>a
  <2>3. PICK q : q = Records(g)
    OBVIOUS
  <2>4. q \in Seq(Recorded) /\ Len(q) = n + 2 /\ q[n + 2] = Marker
    BY <2>1, <2>2, <2>3
  <2>5. ASSUME NEW i \in 1..n + 1
        PROVE  q[i] = gs[n + 2 - i]
    <3>1. q[i] = g.given[(n + 1) + 1 - i] /\ (n + 1) + 1 - i = n + 2 - i
      BY <2>1, <2>2, <2>3
    <3>2. QED
      BY <1>a, <3>1
  <2>6. QED
    BY <2>3, <2>4, <2>5
<1>3. PICK p \in Seq(Recorded) : /\ p = s \o r /\ Len(p) = n + 2
                                 /\ \A i \in 1..n + 2 : p[i] = IF i <= 1 THEN s[i] ELSE r[i - 1]
  <2>1. /\ s \o r \in Seq(Recorded) /\ Len(s \o r) = Len(s) + Len(r)
        /\ \A i \in 1..Len(s) + Len(r) : (s \o r)[i] = IF i <= Len(s) THEN s[i] ELSE r[i - Len(s)]
    BY ConcatProperties
  <2>2. Len(s) + Len(r) = n + 2 /\ Len(s) = 1
    BY <1>s, <1>1
  <2>3. QED
    BY <2>1, <2>2
<1>4. ASSUME NEW i \in 1..n + 2
      PROVE  q[i] = p[i]
  <2>1. CASE i = 1
    <3>1. n + 2 - i = n + 1 /\ i \in 1..n + 1 /\ i <= 1
      BY <2>1
    <3>2. q[i] = gs[n + 1]
      BY <1>2, <3>1
    <3>3. p[i] = s[1]
      BY <1>3, <2>1, <3>1
    <3>4. QED
      BY <1>a, <1>s, <3>2, <3>3
  <2>2. CASE i = n + 2
    <3>1. i - 1 = n + 1 /\ ~(i <= 1)
      BY <2>2
    <3>2. QED
      BY <1>1, <1>2, <1>3, <2>2, <3>1
  <2>3. CASE i # 1 /\ i # n + 2
    <3>1. PICK j \in 1..n : j = i - 1 /\ n + 2 - i = n + 1 - j /\ n + 1 - j \in 1..n /\ i \in 1..n + 1
      BY <2>3
    <3>2. p[i] = r[j] /\ r[j] = f.given[n + 1 - j]
      <4>1. ~(i <= 1)
        BY <2>3
      <4>2. p[i] = r[i - 1]
        BY <1>3, <4>1
      <4>3. QED
        BY <1>1, <3>1, <4>2
    <3>3. q[i] = gs[n + 1 - j]
      BY <1>2, <3>1
    <3>4. QED
      BY <1>a, <3>1, <3>2, <3>3
  <2>4. QED
    BY <2>1, <2>2, <2>3
<1>5. q = p
  BY <1>2, <1>3, <1>4, SeqEqual
<1>6. QED
  BY <1>1, <1>2, <1>3, <1>5, <1>a, <1>s

(***************************************************************************)
(* The records of all findalls                                             *)
(***************************************************************************)
\* (The recursive function of AllRecords, as an operator the provers do not look into)
Stacks(u, fs, b) == u = [n \in 0..Len(fs) |-> IF n = 0 THEN b ELSE Records(fs[n]) \o u[n - 1]]

\* What the function is on each number
LEMMA StacksFacts ==
  ASSUME NEW u, NEW fs, NEW b, NEW n \in Nat, n = Len(fs), Stacks(u, fs, b)
  PROVE  /\ u[0] = b
         /\ \A k \in 0..n - 1 : u[k + 1] = Records(fs[k + 1]) \o u[k]
<1>1. u = [m \in 0..n |-> IF m = 0 THEN b ELSE Records(fs[m]) \o u[m - 1]]
  BY DEF Stacks
<1>2. ASSUME NEW k \in 0..n - 1
      PROVE  u[k + 1] = Records(fs[k + 1]) \o u[k]
  <2>1. PICK m \in 0..n : m = k + 1 /\ m # 0 /\ m - 1 = k
    OBVIOUS
  <2>2. u[m] = Records(fs[m]) \o u[m - 1]
    BY <1>1, <2>1
  <2>3. QED
    BY <2>1, <2>2
<1>3. u[0] = b
  <2>1. PICK m \in 0..n : m = 0
    OBVIOUS
  <2>2. u[m] = b
    BY <1>1, <2>1
  <2>3. QED
    BY <2>1, <2>2
<1>4. QED
  BY <1>2, <1>3

\* The function exists, and its values are sequences of records.
LEMMA StacksExists ==
  ASSUME NEW fs \in Seq(AFindall), NEW b \in Seq(Recorded)
  PROVE  \E u : Stacks(u, fs, b) /\ u \in [0..Len(fs) -> Seq(Recorded)] /\ AllRecords(fs, b) = u[Len(fs)]
<1>1. PICK S : S = Seq(Recorded)
  OBVIOUS
<1>2. PICK n \in Nat : n = Len(fs)
  BY LenProperties
<1>3. \A k \in 1..n : fs[k] \in AFindall
  BY <1>2, ElementOfSeq
<1>4. ASSUME NEW k \in 1..n, NEW x \in S
      PROVE  Records(fs[k]) \o x \in S
  <2>1. Records(fs[k]) \in Seq(Recorded)
    BY <1>3, RecordsFacts
  <2>2. QED
    BY <1>1, <2>1, ConcatProperties
<1>5. PICK step : step = [k \in 1..n |-> [x \in S |-> Records(fs[k]) \o x]]
  OBVIOUS
<1>6. AreSteps(step, n, S)
  BY <1>4, <1>5 DEF AreSteps
<1>7. PICK f : Unfolds(f, n, S, b, step)
  BY <1>1, <1>6, RecursiveFunction
<1>8. f \in [0..n -> S] /\ f[0] = b /\ \A k \in 1..n : f[k] = step[k][f[k - 1]]
  BY <1>7 DEF Unfolds
<1>9. ASSUME NEW k \in 0..n
      PROVE  f[k] = IF k = 0 THEN b ELSE Records(fs[k]) \o f[k - 1]
  <2>1. CASE k = 0
    BY <1>8, <2>1
  <2>2. CASE k # 0
    <3>1. k \in 1..n /\ f[k - 1] \in S
      BY <1>8, <2>2
    <3>2. QED
      BY <1>5, <1>8, <2>2, <3>1
  <2>3. QED
    BY <2>1, <2>2
<1>10. Stacks(f, fs, b)
  BY <1>2, <1>8, <1>9 DEF Stacks
<1>11. PICK g : g = CHOOSE h : Stacks(h, fs, b)
  OBVIOUS
<1>12. Stacks(g, fs, b)
  BY <1>10, <1>11
<1>13. AllRecords(fs, b) = g[Len(fs)]
  BY <1>11 DEF AllRecords, Stacks
<1>14. g \in [0..Len(fs) -> Seq(Recorded)]
  <2>1. \A k \in 0..n : g[k] = f[k]
    <3> DEFINE P == {k \in 0..n : g[k] = f[k]}
    <3>1. 0 \in P
      <4>1. g[0] = b /\ f[0] = b
        BY <1>2, <1>8, <1>12, StacksFacts
      <4>2. QED
        BY <4>1
    <3>2. ASSUME NEW k \in 0..n - 1, k \in P
          PROVE  k + 1 \in P
      <4>1. k + 1 \in 0..n /\ k + 1 # 0 /\ k + 1 - 1 = k
        OBVIOUS
      <4>2. g[k + 1] = Records(fs[k + 1]) \o g[k] /\ f[k + 1] = Records(fs[k + 1]) \o f[k]
        BY <1>2, <1>10, <1>12, StacksFacts
      <4>3. QED
        BY <3>2, <4>1, <4>2
    <3> HIDE DEF P
    <3>3. \A k \in 0..n : k \in P
      BY <3>1, <3>2, UpTo
    <3>4. QED
      BY <3>3 DEF P
  <2>2. g = [k \in 0..n |-> g[k]]
    BY <1>2, <1>12 DEF Stacks
  <2>3. QED
    BY <1>1, <1>2, <1>8, <2>1, <2>2
<1>15. QED
  BY <1>12, <1>13, <1>14

\* Without findalls there is what was left.
LEMMA NoFindalls ==
  ASSUME NEW b \in Seq(Recorded)
  PROVE  AllRecords(<<>>, b) = b
<1>1. PICK fs \in Seq(AFindall) : fs = <<>> /\ Len(fs) = 0
  <2>1. <<>> \in Seq(AFindall) /\ Len(<<>>) = 0
    BY EmptySeq
  <2>2. QED
    BY <2>1
<1>2. PICK u : Stacks(u, fs, b) /\ AllRecords(fs, b) = u[Len(fs)]
  BY StacksExists
<1>3. u[0] = b
  BY <1>1, <1>2 DEF Stacks
<1>4. QED
  BY <1>1, <1>2, <1>3

\* The records of a findall are above those of the ones around it.
LEMMA OneMore ==
  ASSUME NEW o \in Seq(AFindall), NEW f \in AFindall, NEW b \in Seq(Recorded)
  PROVE  /\ AllRecords(o, b) \in Seq(Recorded)
         /\ AllRecords(Append(o, f), b) = Records(f) \o AllRecords(o, b)
<1>1. PICK n \in Nat : n = Len(o)
  BY LenProperties
<1>2. PICK fs \in Seq(AFindall) : /\ fs = Append(o, f) /\ Len(fs) = n + 1
                                  /\ (\A k \in 1..n : fs[k] = o[k]) /\ fs[n + 1] = f
  BY <1>1, AppendProperties
<1>3. PICK u : Stacks(u, o, b) /\ u \in [0..Len(o) -> Seq(Recorded)] /\ AllRecords(o, b) = u[Len(o)]
  BY StacksExists
<1>4. PICK v : Stacks(v, fs, b) /\ AllRecords(fs, b) = v[Len(fs)]
  BY StacksExists
<1>5. \A k \in 0..n : v[k] = u[k]
  <2> DEFINE P == {k \in 0..n : v[k] = u[k]}
  <2>1. 0 \in P
    <3>1. u[0] = b
      BY <1>1, <1>3, StacksFacts
    <3>2. PICK m \in Nat : m = Len(fs)
      BY <1>2
    <3>3. v[0] = b
      BY <1>4, <3>2, StacksFacts
    <3>4. QED
      BY <3>1, <3>3
  <2>2. ASSUME NEW k \in 0..n - 1, k \in P
        PROVE  k + 1 \in P
    <3>1. k + 1 \in 0..n /\ k + 1 \in 0..n + 1 /\ k + 1 # 0 /\ k + 1 - 1 = k /\ k + 1 \in 1..n
      OBVIOUS
    <3>2. u[k + 1] = Records(o[k + 1]) \o u[k]
      BY <1>1, <1>3, StacksFacts
    <3>5. v[k + 1] = Records(fs[k + 1]) \o v[k]
      <4>1. PICK m \in Nat : m = Len(fs) /\ k \in 0..m - 1
        BY <1>2, <3>1
      <4>2. QED
        BY <1>4, <4>1, StacksFacts
    <3>3. fs[k + 1] = o[k + 1]
      BY <1>2, <3>1
    <3>4. QED
      BY <2>2, <3>1, <3>2, <3>3, <3>5
  <2> HIDE DEF P
  <2>3. \A k \in 0..n : k \in P
    BY <2>1, <2>2, UpTo
  <2>4. QED
    BY <2>3 DEF P
<1>6. v[n + 1] = Records(f) \o v[n]
  <2>1. PICK m \in Nat : m = Len(fs) /\ n \in 0..m - 1
    BY <1>2
  <2>2. v[n + 1] = Records(fs[n + 1]) \o v[n]
    BY <1>4, <2>1, StacksFacts
  <2>3. QED
    BY <1>2, <2>2
<1>7. v[n] = u[n]
  BY <1>5
<1>8. AllRecords(o, b) = u[n] /\ u[n] \in Seq(Recorded)
  BY <1>1, <1>3
<1>9. AllRecords(Append(o, f), b) = v[n + 1]
  BY <1>2, <1>4
<1>10. QED
  BY <1>6, <1>7, <1>8, <1>9

(***************************************************************************)
(* Steps                                                                   *)
(***************************************************************************)
\* While a findall runs, the records are its own above those of the others.
LEMMA InnermostFacts ==
  ASSUME FindallInv, Running
  PROVE  /\ Outer \in Seq(AFindall) /\ Innermost \in AFindall /\ findalls = Append(Outer, Innermost)
         /\ Waiting(Outer, Len(Outer))
         /\ AllRecords(Outer, left) \in Seq(Recorded)
         /\ recs = Records(Innermost) \o AllRecords(Outer, left)
<1>1. findalls \in Seq(AFindall) /\ findalls # <<>> /\ Waiting(findalls, Len(findalls) - 1)
      /\ left \in Seq(Recorded) /\ recs = AllRecords(findalls, left)
  BY DEF FindallInv, Running, RecordsAreOwned
<1>2. PICK o \in Seq(AFindall), f \in AFindall : findalls = Append(o, f)
  BY <1>1, SequenceEmptyOrAppend
<1>3. PICK n \in Nat : n = Len(o)
  BY LenProperties
<1>4. /\ Len(findalls) = n + 1 /\ (\A k \in 1..n : findalls[k] = o[k]) /\ findalls[n + 1] = f
  BY <1>2, <1>3, AppendProperties
<1>5. Innermost = f
  BY <1>4 DEF Innermost
<1>6. Outer = o
  <2>1. Outer = SubSeq(findalls, 1, n)
    BY <1>4 DEF Outer
  <2>2. PICK s : s = SubSeq(findalls, 1, n)
    OBVIOUS
  <2>3. \A k \in 1..n : findalls[k] \in AFindall
    BY <1>1, <1>4, ElementOfSeq
  <2>4. s \in Seq(AFindall) /\ Len(s) = n /\ \A k \in 1..n : s[k] = findalls[k]
    <3>1. /\ SubSeq(findalls, 1, n) \in Seq(AFindall)
          /\ Len(SubSeq(findalls, 1, n)) = IF 1 <= n THEN n - 1 + 1 ELSE 0
          /\ \A k \in 1..n - 1 + 1 : SubSeq(findalls, 1, n)[k] = findalls[1 + k - 1]
      BY <2>3, SubSeqProperties
    <3>2. QED
      BY <2>2, <3>1
  <2>5. s = o
    BY <1>3, <1>4, <2>4, SeqEqual
  <2>6. QED
    BY <2>1, <2>2, <2>5
<1>7. Waiting(o, n)
  BY <1>1, <1>4 DEF Waiting
<1>8. AllRecords(o, left) \in Seq(Recorded) /\ AllRecords(Append(o, f), left) = Records(f) \o AllRecords(o, left)
  BY <1>1, OneMore
<1>9. QED
  BY <1>1, <1>2, <1>3, <1>5, <1>6, <1>7, <1>8

\* What a step has to show: what the innermost findall is now, and its records.
LEMMA StepTo ==
  ASSUME NEW o \in Seq(AFindall), NEW f \in AFindall, Waiting(o, Len(o)), findalls' = Append(o, f),
         left' \in Seq(Recorded), recs' = Records(f) \o AllRecords(o, left'), answer' = wanted'
  PROVE  FindallInv'
<1>1. PICK n \in Nat : n = Len(o)
  BY LenProperties
<1>2. PICK fs \in Seq(AFindall) : /\ fs = Append(o, f) /\ Len(fs) = n + 1
                                  /\ \A k \in 1..n : fs[k] = o[k]
  <2>1. /\ Append(o, f) \in Seq(AFindall) /\ Len(Append(o, f)) = Len(o) + 1
        /\ \A k \in 1..Len(o) : Append(o, f)[k] = o[k]
    BY AppendProperties
  <2>2. QED
    BY <1>1, <2>1
<1>3. Waiting(fs, n)
  BY <1>1, <1>2 DEF Waiting
<1>4. PICK b : b = left'
  OBVIOUS
<1>5. AllRecords(fs, b) = Records(f) \o AllRecords(o, b)
  BY <1>2, <1>4, OneMore
<1>6. findalls' = fs /\ Len(fs) - 1 = n
  BY <1>2
<1>7. findalls' \in Seq(AFindall) /\ Waiting(findalls', Len(findalls') - 1)
  BY <1>3, <1>6
<1>8. RecordsAreOwned'
  BY <1>4, <1>5, <1>6 DEF RecordsAreOwned
<1>9. OwnSolutions'
  BY DEF OwnSolutions
<1>10. QED
  BY <1>7, <1>8, <1>9 DEF FindallInv

\* A generator that has given these solutions
LEMMA GeneratorFacts ==
  ASSUME NEW sols \in Seq(Solutions)
  PROVE  /\ Generator(sols) \in AFindall
         /\ Generator(sols).given = sols /\ Generator(sols).list = <<>>
         /\ Untaken(Generator(sols)) = Len(sols)
<1>1. PICK f : f = Generator(sols)
  OBVIOUS
<1>2. f = [phase |-> "generate", list |-> <<>>, given |-> sols]
  BY <1>1 DEF Generator
<1>3. PICK e \in Seq(Solutions) : e = <<>> /\ Len(e) = 0
  <2>1. <<>> \in Seq(Solutions) /\ Len(<<>>) = 0
    BY EmptySeq
  <2>2. QED
    BY <2>1
<1>4. Len(sols) \in Nat
  BY LenProperties
<1>5. f.given = sols /\ f.list = e
  BY <1>2, <1>3
<1>6. Untaken(f) = Len(sols)
  BY <1>3, <1>4, <1>5 DEF Untaken
<1>7. f \in AFindall
  BY <1>2, <1>3, <1>4 DEF AFindall
<1>8. QED
  BY <1>1, <1>3, <1>5, <1>6, <1>7

\* save_instances: the marker is the one record of a new findall.
LEMMA StartSteps ==
  ASSUME FindallInv, StartFindall
  PROVE  FindallInv'
<1>1. PICK f : f = Generator(<<>>)
  OBVIOUS
<1>2. PICK e \in Seq(Solutions) : e = <<>> /\ Len(e) = 0
  <2>1. <<>> \in Seq(Solutions) /\ Len(<<>>) = 0
    BY EmptySeq
  <2>2. QED
    BY <2>1
<1>3. f \in AFindall /\ Untaken(f) = 0
  BY <1>1, <1>2, GeneratorFacts
<1>4. Records(f) = <<Marker>>
  <2>1. PICK s \in Seq(Recorded) : s = <<Marker>> /\ Len(s) = 1 /\ s[1] = Marker
    BY Single DEF Recorded
  <2>2. PICK r \in Seq(Recorded) : r = Records(f) /\ Len(r) = 1 /\ r[1] = Marker
    <3>1. /\ Records(f) \in Seq(Recorded) /\ Len(Records(f)) = Untaken(f) + 1
          /\ Records(f)[Untaken(f) + 1] = Marker
      BY <1>3, RecordsFacts
    <3>2. QED
      BY <1>3, <3>1
  <2>3. r = s
    BY <2>1, <2>2, SeqEqual
  <2>4. QED
    BY <2>1, <2>2, <2>3
<1>5. findalls \in Seq(AFindall) /\ left \in Seq(Recorded) /\ recs = AllRecords(findalls, left)
  BY DEF FindallInv, RecordsAreOwned
<1>6. Waiting(findalls, Len(findalls))
  <2>1. Len(findalls) \in Nat
    BY <1>5, LenProperties
  <2>2. CASE findalls = <<>>
    BY <2>2 DEF Waiting
  <2>3. CASE findalls # <<>>
    <3>1. findalls[Len(findalls)].phase = "generate"
      BY <2>3 DEF StartFindall, Running, Innermost
    <3>2. \A k \in 1..Len(findalls) - 1 : findalls[k].phase = "generate"
      BY DEF FindallInv, Waiting
    <3>3. \A k \in 1..Len(findalls) : k = Len(findalls) \/ k \in 1..Len(findalls) - 1
      BY <2>1
    <3>4. QED
      BY <3>1, <3>2, <3>3 DEF Waiting
  <2>4. QED
    BY <2>2, <2>3
<1>7. findalls' = Append(findalls, f) /\ left' = left /\ recs' = <<Marker>> \o recs
      /\ answer' = answer /\ wanted' = wanted
  BY <1>1 DEF StartFindall, recorda
<1>8. recs' = Records(f) \o AllRecords(findalls, left')
  BY <1>4, <1>5, <1>7
<1>9. answer' = wanted'
  BY <1>7 DEF FindallInv, OwnSolutions
<1>10. QED
  BY <1>3, <1>5, <1>6, <1>7, <1>8, <1>9, StepTo

\* A solution is recorded above those that were given before.
LEMMA SolutionSteps ==
  ASSUME FindallInv, NEW v \in Solutions, Solution(v)
  PROVE  FindallInv'
<1>1. PICK o, f : o = Outer /\ f = Innermost
  OBVIOUS
<1>2. PICK B : B = AllRecords(o, left)
  OBVIOUS
<1>3. /\ o \in Seq(AFindall) /\ f \in AFindall /\ Waiting(o, Len(o))
      /\ B \in Seq(Recorded) /\ recs = Records(f) \o B
  BY <1>1, <1>2, InnermostFacts DEF Solution
<1>4. PICK n \in Nat : n = Len(f.given) /\ f.given \in Seq(Solutions)
  BY <1>3, FindallFacts
<1>5. Untaken(f) = n
  <2>1. f.list = <<>>
    BY <1>1, <1>3, FindallFacts DEF Solution
  <2>2. Len(f.list) = 0
    BY <2>1, EmptySeq
  <2>3. Untaken(f) = n - 0
    BY <1>4, <2>2 DEF Untaken
  <2>4. QED
    BY <2>3
<1>6. PICK gs \in Seq(Solutions) : /\ gs = Append(f.given, v) /\ Len(gs) = n + 1
                                   /\ (\A i \in 1..n : gs[i] = f.given[i]) /\ gs[n + 1] = v
  BY <1>4, AppendProperties
<1>7. PICK g \in AFindall : g = Generator(gs) /\ g.given = gs /\ Untaken(g) = n + 1
  BY <1>6, GeneratorFacts
<1>8. PICK s \in Seq(Recorded) : s = <<v>> /\ Len(s) = 1 /\ s[1] = v
  BY Single DEF Recorded
<1>9. Records(g) = s \o Records(f)
  <2>1. OneMoreUntaken(g, f)
    BY <1>5, <1>6, <1>7 DEF OneMoreUntaken
  <2>2. g.given[Untaken(g)] = v
    BY <1>6, <1>7
  <2>3. QED
    BY <1>3, <1>8, <2>1, <2>2, OneRecordMore
<1>10. Records(f) \in Seq(Recorded)
  BY <1>3, RecordsFacts
<1>11. Records(g) \o B = <<v>> \o recs
  <2>1. (s \o Records(f)) \o B = s \o (Records(f) \o B)
    BY <1>3, <1>10, ConcatAssociative
  <2>2. QED
    BY <1>3, <1>8, <1>9, <2>1
<1>12. findalls' = Append(o, g) /\ left' = left /\ recs' = <<v>> \o recs /\ answer' = answer /\ wanted' = wanted
  BY <1>1, <1>6, <1>7 DEF Solution, recorda
<1>13. recs' = Records(g) \o AllRecords(o, left')
  BY <1>2, <1>11, <1>12
<1>14. left' \in Seq(Recorded) /\ answer' = wanted'
  BY <1>12 DEF FindallInv, OwnSolutions
<1>15. QED
  BY <1>3, <1>12, <1>13, <1>14, StepTo

\* A findall that is in another phase has the same records.
LEMMA OtherPhase ==
  ASSUME NEW f \in AFindall, NEW phase \in {"list", "throw"}, NEW g, g = [f EXCEPT !.phase = phase]
  PROVE  g \in AFindall /\ Records(g) = Records(f)
<1>1. g = [phase |-> phase, list |-> f.list, given |-> f.given]
  <2>1. PICK ph, ls, gs : f = [phase |-> ph, list |-> ls, given |-> gs]
    <3>1. f = [phase |-> f.phase, list |-> f.list, given |-> f.given]
      BY FindallFacts
    <3>2. QED
      BY <3>1
  <2>2. g = [phase |-> phase, list |-> ls, given |-> gs]
    BY <2>1
  <2>3. f.list = ls /\ f.given = gs
    BY <2>1
  <2>4. QED
    BY <2>2, <2>3
<1>2. g.list = f.list /\ g.given = f.given /\ g.phase = phase
  BY <1>1
<1>3. g \in AFindall
  BY <1>1, <1>2 DEF AFindall, Untaken
<1>4. QED
  BY <1>2, <1>3, SameRecords

\* A generator that ends, with no more solutions or with an error, changes no record.
LEMMA PhaseSteps ==
  ASSUME FindallInv, Running, NEW phase \in {"list", "throw"},
         findalls' = Append(Outer, [Innermost EXCEPT !.phase = phase]),
         UNCHANGED <<recs, answer, wanted, left>>
  PROVE  FindallInv'
<1>1. PICK o, f : o = Outer /\ f = Innermost
  OBVIOUS
<1>2. PICK B : B = AllRecords(o, left)
  OBVIOUS
<1>3. /\ o \in Seq(AFindall) /\ f \in AFindall /\ Waiting(o, Len(o))
      /\ B \in Seq(Recorded) /\ recs = Records(f) \o B
  BY <1>1, <1>2, InnermostFacts
<1>4. PICK g : g = [f EXCEPT !.phase = phase]
  OBVIOUS
<1>5. g \in AFindall /\ Records(g) = Records(f)
  BY <1>3, <1>4, OtherPhase
<1>6. left' \in Seq(Recorded) /\ answer' = wanted' /\ recs' = recs /\ left' = left
  BY DEF FindallInv, OwnSolutions
<1>7. findalls' = Append(o, g) /\ recs' = Records(g) \o AllRecords(o, left')
  BY <1>1, <1>2, <1>3, <1>4, <1>5, <1>6
<1>8. QED
  BY <1>3, <1>5, <1>6, <1>7, StepTo

\* Taking the first off
LEMMA TailOf ==
  ASSUME NEW S, NEW e \in S, NEW t \in Seq(S)
  PROVE  /\ Tail(<<e>> \o t) = t /\ (<<e>> \o t)[1] = e /\ <<e>> \o t \in Seq(S)
         /\ Len(<<e>> \o t) = Len(t) + 1 /\ \A i \in 1..Len(t) : (<<e>> \o t)[i + 1] = t[i]
<1>1. PICK s \in Seq(S) : s = <<e>> /\ Len(s) = 1 /\ s[1] = e
  BY Single
<1>2. PICK n \in Nat : n = Len(t)
  BY LenProperties
<1>3. PICK p \in Seq(S) : /\ p = s \o t /\ Len(p) = n + 1
                          /\ \A i \in 1..n + 1 : p[i] = IF i <= 1 THEN s[i] ELSE t[i - 1]
  <2>1. /\ s \o t \in Seq(S) /\ Len(s \o t) = Len(s) + Len(t)
        /\ \A i \in 1..Len(s) + Len(t) : (s \o t)[i] = IF i <= Len(s) THEN s[i] ELSE t[i - Len(s)]
    BY ConcatProperties
  <2>2. Len(s) + Len(t) = n + 1 /\ Len(s) = 1
    BY <1>1, <1>2
  <2>3. QED
    BY <2>1, <2>2
<1>4. p[1] = e
  BY <1>1, <1>3
<1>5. ASSUME NEW i \in 1..n
      PROVE  p[i + 1] = t[i]
  <2>1. i + 1 \in 1..n + 1 /\ ~(i + 1 <= 1) /\ i + 1 - 1 = i
    OBVIOUS
  <2>2. p[i + 1] = t[i + 1 - 1]
    BY <1>3, <2>1
  <2>3. QED
    BY <2>1, <2>2
<1>6. Tail(p) = t
  <2>1. p # <<>>
    BY <1>3, EmptySeq
  <2>2. Tail(p) \in Seq(S) /\ Len(Tail(p)) = n /\ \A i \in 1..n : Tail(p)[i] = p[i + 1]
    <3>1. /\ Tail(p) \in Seq(S) /\ Len(Tail(p)) = Len(p) - 1
          /\ \A i \in 1..Len(Tail(p)) : Tail(p)[i] = p[i + 1]
      BY <2>1, HeadTailProperties
    <3>2. Len(p) - 1 = n
      BY <1>3
    <3>3. QED
      BY <3>1, <3>2
  <2>3. \A i \in 1..n : Tail(p)[i] = t[i]
    BY <1>5, <2>2
  <2>4. QED
    BY <1>2, <2>2, <2>3, SeqEqual
<1>7. QED
  BY <1>1, <1>2, <1>3, <1>4, <1>5, <1>6

\* The first of the records is that of the last solution not taken off, or the marker.
LEMMA FirstRecord ==
  ASSUME NEW f \in AFindall, NEW B \in Seq(Recorded)
  PROVE  /\ (Records(f) \o B)[1] = Marker <=> Untaken(f) = 0
         /\ Untaken(f) # 0 => (Records(f) \o B)[1] = f.given[Untaken(f)]
         /\ Untaken(f) = 0 => Records(f) = <<Marker>> /\ Tail(Records(f) \o B) = B
<1>1. PICK n \in Nat : n = Untaken(f)
  BY FindallFacts
<1>2. PICK r \in Seq(Recorded) : /\ r = Records(f) /\ Len(r) = n + 1 /\ r[n + 1] = Marker
                                 /\ \A i \in 1..n : r[i] = f.given[n + 1 - i]
  <2>1. /\ Records(f) \in Seq(Recorded) /\ Len(Records(f)) = Untaken(f) + 1
        /\ \A i \in 1..Untaken(f) : Records(f)[i] = f.given[Untaken(f) + 1 - i]
        /\ Records(f)[Untaken(f) + 1] = Marker
    BY RecordsFacts
  <2>2. QED
    BY <1>1, <2>1
<1>3. (r \o B)[1] = r[1]
  <2>1. /\ Len(r \o B) = Len(r) + Len(B)
        /\ \A i \in 1..Len(r) + Len(B) : (r \o B)[i] = IF i <= Len(r) THEN r[i] ELSE B[i - Len(r)]
    BY ConcatProperties
  <2>2. 1 \in 1..Len(r) + Len(B) /\ 1 <= Len(r)
    <3>1. Len(B) \in Nat
      BY LenProperties
    <3>2. QED
      BY <1>2, <3>1
  <2>3. QED
    BY <2>1, <2>2
<1>4. CASE n = 0
  <2>1. r[1] = Marker
    BY <1>2, <1>4
  <2>2. PICK s \in Seq(Recorded) : s = <<Marker>> /\ Len(s) = 1 /\ s[1] = Marker
    BY Single DEF Recorded
  <2>3. r = s
    BY <1>2, <1>4, <2>1, <2>2, SeqEqual
  <2>4. Tail(<<Marker>> \o B) = B
    BY TailOf DEF Recorded
  <2>5. QED
    BY <1>1, <1>2, <1>3, <1>4, <2>1, <2>2, <2>3, <2>4
<1>5. CASE n # 0
  <2>1. r[1] = f.given[n]
    <3>1. 1 \in 1..n /\ n + 1 - 1 = n
      BY <1>5
    <3>2. r[1] = f.given[n + 1 - 1]
      BY <1>2, <3>1
    <3>3. QED
      BY <3>1, <3>2
  <2>2. f.given[n] # Marker
    <3>1. /\ Len(f.given) \in Nat /\ Len(f.list) \in Nat /\ Untaken(f) = Len(f.given) - Len(f.list)
          /\ \A i \in 1..Len(f.given) : f.given[i] # Marker
      BY FindallFacts
    <3>2. PICK m \in Nat, l \in Nat : m = Len(f.given) /\ l = Len(f.list) /\ n = m - l
      BY <1>1, <3>1
    <3>3. \A x, y, z \in Nat : z = x - y /\ z # 0 => z \in 1..x
      OBVIOUS
    <3>4. n \in 1..m
      BY <1>5, <3>2, <3>3
    <3>5. QED
      BY <3>1, <3>2, <3>4
  <2>3. QED
    BY <1>1, <1>2, <1>3, <1>5, <2>1, <2>2
<1>6. QED
  BY <1>4, <1>5

\* list_instances: the record that is taken off goes in front of the list, where it was
\* among the solutions.
LEMMA InstanceSteps ==
  ASSUME FindallInv, ListInstance
  PROVE  FindallInv'
<1>1. PICK o, f : o = Outer /\ f = Innermost
  OBVIOUS
<1>2. PICK B : B = AllRecords(o, left)
  OBVIOUS
<1>3. /\ o \in Seq(AFindall) /\ f \in AFindall /\ Waiting(o, Len(o))
      /\ B \in Seq(Recorded) /\ recs = Records(f) \o B
  BY <1>1, <1>2, InnermostFacts DEF ListInstance, Ending
<1>4. Untaken(f) # 0 /\ recs[1] = f.given[Untaken(f)]
  BY <1>3, FirstRecord DEF ListInstance
<1>5. PICK m \in Nat, l \in Nat : /\ m = Len(f.given) /\ l = Len(f.list) /\ Untaken(f) = m - l /\ m - l >= 1
                                  /\ \A i \in 1..m : f.given[i] \in Solutions
                                  /\ \A i \in 1..l : f.list[i] = f.given[m - l + i]
  <2>1. /\ Len(f.given) \in Nat /\ Len(f.list) \in Nat /\ Untaken(f) = Len(f.given) - Len(f.list)
        /\ Untaken(f) \in Nat
        /\ \A i \in 1..Len(f.given) : f.given[i] \in Solutions
        /\ \A i \in 1..Len(f.list) : f.list[i] = f.given[Untaken(f) + i]
    BY <1>3, FindallFacts
  <2>2. Untaken(f) >= 1
    BY <1>4, <2>1
  <2>3. QED
    BY <2>1, <2>2
<1>6. PICK x : x = recs[1] /\ x = f.given[m - l] /\ x \in Solutions
  <2>1. \A y, z \in Nat : y - z >= 1 => y - z \in 1..y
    OBVIOUS
  <2>2. m - l \in 1..m
    BY <1>5, <2>1
  <2>3. QED
    BY <1>4, <1>5, <2>2
<1>7. PICK ls \in Seq(Solutions) : /\ ls = <<x>> \o f.list /\ Len(ls) = l + 1 /\ ls[1] = x
                                   /\ \A i \in 1..l : ls[i + 1] = f.list[i]
  <2>1. PICK t \in Seq(Solutions) : t = f.list /\ Len(t) = l
    BY <1>3, <1>5, FindallFacts
  <2>2. /\ <<x>> \o t \in Seq(Solutions) /\ (<<x>> \o t)[1] = x /\ Len(<<x>> \o t) = Len(t) + 1
        /\ \A i \in 1..Len(t) : (<<x>> \o t)[i + 1] = t[i]
    BY <1>6, TailOf
  <2>3. QED
    BY <2>1, <2>2
<1>8. PICK g : g = [f EXCEPT !.list = <<recs[1]>> \o @]
  OBVIOUS
<1>9. g = [phase |-> f.phase, list |-> ls, given |-> f.given]
  <2>1. PICK ph, ks, gs : f = [phase |-> ph, list |-> ks, given |-> gs]
    <3>1. f = [phase |-> f.phase, list |-> f.list, given |-> f.given]
      BY <1>3, FindallFacts
    <3>2. QED
      BY <3>1
  <2>2. f.phase = ph /\ f.list = ks /\ f.given = gs
    BY <2>1
  <2>3. g = [f EXCEPT !.list = ls]
    BY <1>6, <1>7, <1>8
  <2>4. g = [phase |-> ph, list |-> ls, given |-> gs]
    BY <2>1, <2>3
  <2>5. QED
    BY <2>2, <2>4
<1>10. g.list = ls /\ g.given = f.given /\ g.phase = f.phase
  BY <1>9
<1>11. Untaken(g) = m - (l + 1)
  BY <1>5, <1>7, <1>10 DEF Untaken
<1>12. g \in AFindall
  <2>1. f.phase \in {"list", "throw"} /\ f.given \in Seq(Solutions)
    BY <1>1, <1>3, FindallFacts DEF ListInstance, Ending
  <2>2. Len(g.list) <= Len(g.given)
    BY <1>5, <1>7, <1>10
  <2>3. ASSUME NEW i \in 1..l + 1
        PROVE  ls[i] = f.given[m - (l + 1) + i]
    <3>1. CASE i = 1
      <4>1. m - (l + 1) + i = m - l
        BY <1>5, <3>1
      <4>2. QED
        BY <1>6, <1>7, <3>1, <4>1
    <3>2. CASE i # 1
      <4>1. PICK j \in 1..l : j + 1 = i /\ m - (l + 1) + i = m - l + j
        <5>1. i - 1 \in 1..l /\ (i - 1) + 1 = i /\ m - (l + 1) + i = m - l + (i - 1)
          BY <1>5, <3>2
        <5>2. QED
          BY <5>1
      <4>2. ls[j + 1] = f.list[j] /\ f.list[j] = f.given[m - l + j]
        BY <1>5, <1>7
      <4>3. QED
        BY <4>1, <4>2
    <3>3. QED
      BY <3>1, <3>2
  <2>4. \A i \in 1..Len(g.list) : g.list[i] = g.given[Untaken(g) + i]
    BY <1>7, <1>10, <1>11, <2>3
  <2>5. g \in [phase : {"generate", "list", "throw"}, list : Seq(Solutions), given : Seq(Solutions)]
    BY <1>9, <2>1
  <2>6. g.phase # "generate"
    BY <1>10, <2>1
  <2>7. QED
    BY <2>2, <2>4, <2>5, <2>6 DEF AFindall
<1>13. Records(f) = <<x>> \o Records(g)
  <2>1. Untaken(f) = Untaken(g) + 1
    BY <1>5, <1>11
  <2>2. OneMoreUntaken(f, g)
    BY <1>10, <2>1 DEF OneMoreUntaken
  <2>3. QED
    BY <1>3, <1>4, <1>6, <1>12, <2>2, OneRecordMore
<1>14. Tail(recs) = Records(g) \o B
  <2>1. PICK q \in Seq(Recorded) : q = Records(g)
    BY <1>12, RecordsFacts
  <2>2. PICK s \in Seq(Recorded) : s = <<x>>
    BY <1>6, Single DEF Recorded
  <2>3. (s \o q) \o B = s \o (q \o B)
    BY <1>3, ConcatAssociative
  <2>4. q \o B \in Seq(Recorded) /\ x \in Recorded
    BY <1>3, <1>6, ConcatProperties DEF Recorded
  <2>5. Tail(<<x>> \o (q \o B)) = q \o B
    BY <2>4, TailOf
  <2>6. QED
    BY <1>3, <1>13, <2>1, <2>2, <2>3, <2>5
<1>15. /\ findalls' = Append(o, g) /\ left' = left /\ recs' = Tail(recs)
       /\ answer' = answer /\ wanted' = wanted
  BY <1>1, <1>8 DEF ListInstance
<1>16. recs' = Records(g) \o AllRecords(o, left')
  BY <1>2, <1>14, <1>15
<1>17. left' \in Seq(Recorded) /\ answer' = wanted'
  BY <1>15 DEF FindallInv, OwnSolutions
<1>18. QED
  BY <1>3, <1>12, <1>15, <1>16, <1>17, StepTo

\* A findall that has taken everything off has listed what it was given.
LEMMA AllListed ==
  ASSUME NEW f \in AFindall, Untaken(f) = 0
  PROVE  f.list = f.given
<1>1. /\ f.given \in Seq(Solutions) /\ f.list \in Seq(Solutions)
      /\ Len(f.given) \in Nat /\ Len(f.list) \in Nat /\ Untaken(f) = Len(f.given) - Len(f.list)
      /\ \A i \in 1..Len(f.list) : f.list[i] = f.given[Untaken(f) + i]
  BY FindallFacts
<1>2. PICK n \in Nat : n = Len(f.given) /\ n = Len(f.list)
  <2>1. \A x, y \in Nat : x - y = 0 => x = y
    OBVIOUS
  <2>2. Len(f.given) = Len(f.list)
    BY <1>1, <2>1
  <2>3. QED
    BY <1>1, <2>2
<1>3. \A i \in 1..n : f.list[i] = f.given[i]
  <2>1. \A i \in 1..n : Untaken(f) + i = i
    OBVIOUS
  <2>2. QED
    BY <1>1, <1>2, <2>1
<1>4. QED
  BY <1>1, <1>2, <1>3, SeqEqual

\* The findall around one that ended goes on, or ends with the error itself.
LEMMA OuterSteps ==
  ASSUME NEW o \in Seq(AFindall), Waiting(o, Len(o)), left' \in Seq(Recorded),
         recs' = AllRecords(o, left'), answer' = wanted',
         findalls' = o \/ (o # <<>> /\ findalls' = [o EXCEPT ![Len(o)].phase = "throw"])
  PROVE  FindallInv'
<1>1. CASE findalls' = o
  <2>1. Len(o) \in Nat
    BY LenProperties
  <2>2. Waiting(o, Len(o) - 1)
    BY <2>1 DEF Waiting
  <2>3. QED
    BY <1>1, <2>2 DEF FindallInv, RecordsAreOwned, OwnSolutions
<1>2. CASE o # <<>> /\ findalls' = [o EXCEPT ![Len(o)].phase = "throw"]
  <2>1. PICK p \in Seq(AFindall), h \in AFindall : o = Append(p, h)
    BY <1>2, SequenceEmptyOrAppend
  <2>2. PICK n \in Nat : n = Len(p)
    BY LenProperties
  <2>3. /\ Len(o) = n + 1 /\ (\A k \in 1..n : o[k] = p[k]) /\ o[n + 1] = h
    <3>1. /\ Len(Append(p, h)) = Len(p) + 1 /\ (\A k \in 1..Len(p) : Append(p, h)[k] = p[k])
          /\ Append(p, h)[Len(p) + 1] = h
      BY AppendProperties
    <3>2. QED
      BY <2>1, <2>2, <3>1
  <2>4. PICK g : g = [h EXCEPT !.phase = "throw"]
    OBVIOUS
  <2>5. g \in AFindall /\ Records(g) = Records(h)
    BY <2>4, OtherPhase
  <2>6. findalls' = Append(p, g)
    <3>1. PICK q : q = [o EXCEPT ![n + 1] = g]
      OBVIOUS
    <3>2. findalls' = q
      BY <1>2, <2>3, <2>4, <3>1
    <3>3. q \in Seq(AFindall) /\ Len(q) = n + 1 /\ \A k \in 1..n + 1 : q[k] = IF k = n + 1 THEN g ELSE o[k]
      <4>1. n + 1 \in 1..Len(o)
        BY <2>3
      <4>2. /\ [o EXCEPT ![n + 1] = g] \in Seq(AFindall) /\ Len([o EXCEPT ![n + 1] = g]) = Len(o)
            /\ \A k \in 1..Len(o) : [o EXCEPT ![n + 1] = g][k] = IF k = n + 1 THEN g ELSE o[k]
        BY <2>5, <4>1, ExceptSeq
      <4>3. QED
        BY <2>3, <3>1, <4>2
    <3>4. PICK s \in Seq(AFindall) : /\ s = Append(p, g) /\ Len(s) = n + 1 /\ s[n + 1] = g
                                     /\ \A k \in 1..n : s[k] = p[k]
      <4>1. /\ Append(p, g) \in Seq(AFindall) /\ Len(Append(p, g)) = Len(p) + 1
            /\ (\A k \in 1..Len(p) : Append(p, g)[k] = p[k]) /\ Append(p, g)[Len(p) + 1] = g
        BY <2>5, AppendProperties
      <4>2. QED
        BY <2>2, <4>1
    <3>5. ASSUME NEW k \in 1..n + 1
          PROVE  q[k] = s[k]
      <4>1. CASE k = n + 1
        BY <3>3, <3>4, <4>1
      <4>2. CASE k # n + 1
        <5>1. k \in 1..n
          BY <4>2
        <5>2. QED
          BY <2>3, <3>3, <3>4, <4>2, <5>1
      <4>3. QED
        BY <4>1, <4>2
    <3>6. q = s
      BY <3>3, <3>4, <3>5, SeqEqual
    <3>7. QED
      BY <3>2, <3>4, <3>6
  <2>7. Waiting(p, Len(p))
    BY <2>2, <2>3 DEF Waiting
  <2>8. recs' = Records(g) \o AllRecords(p, left')
    <3>1. PICK b \in Seq(Recorded) : b = left'
      OBVIOUS
    <3>2. AllRecords(Append(p, h), b) = Records(h) \o AllRecords(p, b)
      BY OneMore
    <3>3. QED
      BY <2>1, <2>5, <3>1, <3>2
  <2>9. QED
    BY <2>5, <2>6, <2>7, <2>8, StepTo
<1>3. QED
  BY <1>1, <1>2

\* The marker is taken off when nothing else is left of the findall.
LEMMA MarkerSteps ==
  ASSUME FindallInv, ListMarker
  PROVE  FindallInv'
<1>1. PICK o, f : o = Outer /\ f = Innermost
  OBVIOUS
<1>2. PICK B : B = AllRecords(o, left)
  OBVIOUS
<1>3. /\ o \in Seq(AFindall) /\ f \in AFindall /\ Waiting(o, Len(o))
      /\ B \in Seq(Recorded) /\ recs = Records(f) \o B
  BY <1>1, <1>2, InnermostFacts DEF ListMarker, Ending
<1>4. Untaken(f) = 0 /\ Tail(recs) = B
  BY <1>3, FirstRecord DEF ListMarker
<1>5. f.list = f.given
  BY <1>3, <1>4, AllListed
<1>6. answer = wanted /\ left \in Seq(Recorded)
  BY DEF FindallInv, OwnSolutions
<1>7. CASE f.phase = "list"
  <2>1. recs' = Tail(recs) /\ findalls' = o /\ answer' = f.list /\ wanted' = f.given /\ left' = left
    BY <1>1, <1>7 DEF ListMarker
  <2>2. recs' = AllRecords(o, left') /\ answer' = wanted' /\ left' \in Seq(Recorded)
    BY <1>2, <1>4, <1>5, <1>6, <2>1
  <2>3. QED
    BY <1>3, <2>1, <2>2, OuterSteps
<1>8. CASE f.phase # "list"
  <2>1. recs' = Tail(recs) /\ findalls' \in Rethrown /\ answer' = answer /\ wanted' = wanted /\ left' = left
    BY <1>1, <1>8 DEF ListMarker
  <2>2. findalls' = o \/ (o # <<>> /\ findalls' = [o EXCEPT ![Len(o)].phase = "throw"])
    BY <1>1, <2>1 DEF Rethrown
  <2>3. recs' = AllRecords(o, left') /\ answer' = wanted' /\ left' \in Seq(Recorded)
    BY <1>2, <1>4, <1>6, <2>1
  <2>4. QED
    BY <1>3, <2>2, <2>3, OuterSteps
<1>9. QED
  BY <1>7, <1>8

\* A query that is dropped leaves its records below those of the next.
LEMMA DropSteps ==
  ASSUME FindallInv, DropQuery
  PROVE  FindallInv'
<1>1. PICK b : b = recs
  OBVIOUS
<1>2. b \in Seq(Recorded)
  <2>1. Innermost \in AFindall /\ AllRecords(Outer, left) \in Seq(Recorded)
        /\ recs = Records(Innermost) \o AllRecords(Outer, left)
    BY InnermostFacts DEF DropQuery
  <2>2. Records(Innermost) \in Seq(Recorded)
    BY <2>1, RecordsFacts
  <2>3. QED
    BY <1>1, <2>1, <2>2, ConcatProperties
<1>3. AllRecords(<<>>, b) = b
  BY <1>2, NoFindalls
<1>4. findalls' = <<>> /\ left' = b /\ recs' = b /\ answer' = answer /\ wanted' = wanted
  BY <1>1 DEF DropQuery
<1>5. RecordsAreOwned'
  BY <1>3, <1>4 DEF RecordsAreOwned
<1>6. OwnSolutions'
  BY <1>4 DEF FindallInv, OwnSolutions
<1>7. findalls' \in Seq(AFindall) /\ Waiting(findalls', Len(findalls') - 1)
  <2>1. <<>> \in Seq(AFindall) /\ Len(<<>>) = 0
    BY EmptySeq
  <2>2. \A k \in 1..Len(<<>>) - 1 : FALSE
    BY <2>1
  <2>3. QED
    BY <1>4, <2>1, <2>2 DEF Waiting
<1>8. QED
  BY <1>2, <1>4, <1>5, <1>6, <1>7 DEF FindallInv

\* No findall runs and nothing is recorded at first.
LEMMA FindallStart ==
  ASSUME FindallInit
  PROVE  FindallInv
<1>1. PICK b \in Seq(Recorded) : b = <<>> /\ Len(b) = 0
  <2>1. <<>> \in Seq(Recorded) /\ Len(<<>>) = 0
    BY EmptySeq
  <2>2. QED
    BY <2>1
<1>2. AllRecords(<<>>, b) = b
  BY NoFindalls
<1>3. findalls = <<>> /\ left = b /\ recs = b
  BY <1>1 DEF FindallInit
<1>4. findalls \in Seq(AFindall) /\ Waiting(findalls, Len(findalls) - 1)
  <2>1. <<>> \in Seq(AFindall) /\ Len(<<>>) = 0
    BY EmptySeq
  <2>2. \A k \in 1..Len(<<>>) - 1 : FALSE
    BY <2>1
  <2>3. QED
    BY <1>3, <2>1, <2>2 DEF Waiting
<1>5. QED
  BY <1>2, <1>3, <1>4 DEF FindallInv, RecordsAreOwned, OwnSolutions, FindallInit

(***************************************************************************)
(* The theorems                                                            *)
(***************************************************************************)
\* The invariant holds, whatever findalls there are and whatever ends them.
THEOREM FindallKeepsInv == FindallSpec => []FindallInv
<1>1. FindallInit => FindallInv
  BY FindallStart
<1>2. FindallInv /\ [FindallNext]_findallVars => FindallInv'
  <2> SUFFICES ASSUME FindallInv, [FindallNext]_findallVars PROVE FindallInv'
    OBVIOUS
  <2>1. CASE StartFindall
    BY <2>1, StartSteps
  <2>2. CASE \E v \in Solutions : Solution(v)
    BY <2>2, SolutionSteps
  <2>3. CASE Exhausted
    BY <2>3, PhaseSteps DEF Exhausted
  <2>4. CASE GeneratorThrows
    BY <2>4, PhaseSteps DEF GeneratorThrows
  <2>5. CASE DropQuery
    BY <2>5, DropSteps
  <2>6. CASE ListInstance
    BY <2>6, InstanceSteps
  <2>7. CASE ListMarker
    BY <2>7, MarkerSteps
  <2>8. CASE Enough \/ UNCHANGED findallVars
    BY <2>8 DEF Enough, findallVars, FindallInv, RecordsAreOwned, OwnSolutions
  <2>9. QED
    BY <2>1, <2>2, <2>3, <2>4, <2>5, <2>6, <2>7, <2>8 DEF FindallNext, Collecting
<1>3. QED
  BY <1>1, <1>2, PTL DEF FindallSpec

\* A findall returns the solutions of its own generator, all of them and in their order,
\* though all findalls share one list of records.
THEOREM FindallsReturnTheirOwn == FindallSpec => []OwnSolutions
<1>1. FindallInv => OwnSolutions
  BY DEF FindallInv
<1>2. QED
  BY <1>1, FindallKeepsInv, PTL

\* A findall that ends, with its answer or an error, leaves the records as they were.
THEOREM FindallsTakeTheirRecords == FindallSpec => []RecordsAreOwned
<1>1. FindallInv => RecordsAreOwned
  BY DEF FindallInv
<1>2. QED
  BY <1>1, FindallKeepsInv, PTL

(***************************************************************************)
(* Bytes and code points                                                   *)
(***************************************************************************)
CodePoints == {c \in Nat : c <= 1114111}

\* A byte that can be read has one to four bits clear from 0x20 down.
LEMMA FollowingFacts ==
  ASSUME NEW b \in Nat, b > 127, ~TooLong(b)
  PROVE  Following(b) \in 1..4
<1> DEFINE clear == {i \in 1..4 : (b \div Bit(i)) % 2 = 0}
<1>1. Bit(1) = 32 /\ Bit(2) = 16 /\ Bit(3) = 8 /\ Bit(4) = 4
  BY DEF Bit
<1>2. b % 64 < 60
  BY DEF TooLong
<1>3. (b \div 32) % 2 = 0 \/ (b \div 16) % 2 = 0 \/ (b \div 8) % 2 = 0 \/ (b \div 4) % 2 = 0
  BY <1>2
<1>4. clear \in SUBSET (1..4) /\ clear # {}
  BY <1>1, <1>3
<1> HIDE DEF clear
<1>5. clear \in SUBSET Nat
  BY <1>4
<1>6. \E i \in clear : \A j \in clear : i <= j
  BY <1>4, <1>5, LeastNatural
<1>7. (CHOOSE i \in clear : \A j \in clear : i <= j) \in clear
  BY <1>6
<1>8. Following(b) = CHOOSE i \in clear : \A j \in clear : i <= j
  BY DEF Following, clear
<1>9. QED
  BY <1>4, <1>7, <1>8

\* How many bytes follow, by the value of the first.
LEMMA FollowingIs ==
  ASSUME NEW b \in Nat, NEW n \in 1..3,
         n = 1 => b \in 192..223, n = 2 => b \in 224..239, n = 3 => b \in 240..247
  PROVE  Following(b) = n /\ ~TooLong(b)
<1> DEFINE clear == {i \in 1..4 : (b \div Bit(i)) % 2 = 0}
<1>1. Bit(1) = 32 /\ Bit(2) = 16 /\ Bit(3) = 8 /\ Bit(4) = 4
  BY DEF Bit
<1>2. n \in clear /\ \A j \in clear : n <= j
  <2>1. CASE n = 1
    BY <1>1, <2>1
  <2>2. CASE n = 2
    BY <1>1, <2>2
  <2>3. CASE n = 3
    BY <1>1, <2>3
  <2>4. QED
    BY <2>1, <2>2, <2>3
<1>3. clear \in SUBSET Nat
  OBVIOUS
<1>4. Following(b) = CHOOSE i \in clear : \A j \in clear : i <= j
  BY DEF Following
<1>5. ~TooLong(b)
  BY DEF TooLong
<1> HIDE DEF clear
<1>6. PICK m : m = Following(b)
  OBVIOUS
<1>7. m \in clear /\ \A j \in clear : m <= j
  BY <1>2, <1>4, <1>6
<1>8. QED
  BY <1>2, <1>3, <1>5, <1>6, <1>7

\* Decoded is a fold over the bytes.
Decodes(f, bytes) ==
  /\ f[0] = bytes[1] % Bit(Len(bytes) - 1)
  /\ \A k \in 1..Len(bytes) - 1 : f[k] = 64 * f[k - 1] + (bytes[k + 1] % 64)

\* Bytes that are decoded have such a function.
LEMMA DecodedFolds ==
  ASSUME NEW bytes \in Seq(Nat), Len(bytes) \in 2..4
  PROVE  \E f : Decodes(f, bytes) /\ Decoded(bytes) = f[Len(bytes) - 1]
<1> DEFINE n == Len(bytes) - 1
           A(f) == f = [i \in 0..n |->
                     IF i = 0 THEN bytes[1] % Bit(n) ELSE 64 * f[i - 1] + (bytes[i + 1] % 64)]
           step == [k \in 1..n |-> [v \in Int |-> 64 * v + (bytes[k + 1] % 64)]]
<1>1. n \in 1..3 /\ \A k \in 0..n : bytes[k + 1] \in Nat
  BY ElementOfSeq
<1>2. bytes[1] % Bit(n) \in Int
  <2>1. n = 1 \/ n = 2 \/ n = 3
    BY <1>1
  <2>2. Bit(n) \in {32, 16, 8}
    <3>1. Bit(1) = 32 /\ Bit(2) = 16 /\ Bit(3) = 8
      BY DEF Bit
    <3>2. QED
      BY <2>1, <3>1
  <2>3. bytes[1] \in Nat
    BY ElementOfSeq
  <2>4. QED
    BY <2>2, <2>3
<1>3. AreSteps(step, n, Int)
  BY <1>1 DEF AreSteps
<1>4. PICK a : a = bytes[1] % Bit(n) /\ a \in Int
  BY <1>2
<1> HIDE DEF step, n
<1>5. PICK f : Unfolds(f, n, Int, a, step)
  <2>1. n \in Nat
    BY <1>1
  <2>2. QED
    BY <1>3, <1>4, <2>1, RecursiveFunction
<1>6. \A k \in 1..n : f[k] = 64 * f[k - 1] + (bytes[k + 1] % 64)
  <2>1. ASSUME NEW k \in 1..n
        PROVE  f[k] = 64 * f[k - 1] + (bytes[k + 1] % 64)
    <3>1. f[k] = step[k][f[k - 1]] /\ f[k - 1] \in Int
      BY <1>1, <1>5, <2>1 DEF Unfolds
    <3>2. QED
      BY <2>1, <3>1 DEF step
  <2>2. QED
    BY <2>1
<1>7. A(f)
  BY <1>1, <1>4, <1>5, <1>6 DEF Unfolds
<1>8. PICK g : g = (CHOOSE h : A(h)) /\ A(g)
  BY <1>7
<1>9. Decoded(bytes) = g[n]
  BY <1>8 DEF Decoded, n
<1>10. g[0] = bytes[1] % Bit(n) /\ \A k \in 1..n : g[k] = 64 * g[k - 1] + (bytes[k + 1] % 64)
  <2>1. n \in Nat /\ \A k \in 1..n : k \in 0..n /\ k # 0
    BY <1>1
  <2>2. 0 \in 0..n
    BY <2>1
  <2>3. QED
    BY <1>8, <2>1, <2>2
<1>11. QED
  BY <1>9, <1>10 DEF Decodes, n

\* The bytes of a code point are one to four; the first tells how many, and decoding gives
\* the code point back, but for 2048.
LEMMA BytesFacts ==
  ASSUME NEW c \in CodePoints
  PROVE  /\ Bytes(c) \in Seq(Nat) /\ Len(Bytes(c)) \in 1..4
         /\ c <= 127 => Bytes(c) = <<c>>
         /\ c > 127 /\ c # 2048 =>
              /\ Len(Bytes(c)) > 1 /\ Bytes(c)[1] > 127 /\ ~TooLong(Bytes(c)[1])
              /\ Following(Bytes(c)[1]) = Len(Bytes(c)) - 1
              /\ Decoded(Bytes(c)) = c
<1>a. c \in Nat
  BY SMT DEF CodePoints
<1>1. CASE c <= 127
  <2>1. Bytes(c) = <<c>>
    BY SMT, <1>a, <1>1 DEF Bytes
  <2>2. QED
    BY SMT, <1>1, <1>a, <2>1
<1>2. CASE c > 127 /\ c <= 2048
  <2>1. PICK x, y : x = 192 + c \div 64 /\ y = 128 + ((c \div 1) % 64)
    OBVIOUS
  <2>2. Bytes(c) = <<x, y>>
    <3>1. ~(c <= 127) /\ ~(c > 2048 /\ c < 65535) /\ ~(c >= 65535)
      BY SMT, <1>2, <1>a
    <3>2. Bytes(c) = <<192 + c \div 64, 128 + ((c \div 1) % 64)>>
      BY SMT, <1>2, <3>1 DEF Bytes
    <3>3. QED
      BY <2>1, <3>2
  <2>3. x \in Nat /\ y \in Nat /\ c = 64 * (x - 192) + (y - 128) /\ y - 128 \in 0..63
        /\ x \in 192..224 /\ (c # 2048 => x \in 192..223)
    BY SMT, <1>2, <2>1 DEF CodePoints
  <2>4. PICK s : s = <<x, y>> /\ s \in Seq(Nat) /\ Len(s) = 2 /\ s[1] = x /\ s[2] = y
    <3>1. x \in Nat /\ y \in Nat
      BY <2>3
    <3>2. PICK s : s = <<x, y>>
      OBVIOUS
    <3>3. s \in Seq(Nat)
      BY <3>1, <3>2
    <3>4. Len(s) = 2 /\ s[1] = x /\ s[2] = y
      BY <3>2
    <3>5. QED
      BY <3>2, <3>3, <3>4
  <2>5. PICK f : Decodes(f, s) /\ Decoded(s) = f[1]
    <3>1. Len(s) \in 2..4 /\ Len(s) - 1 = 1
      BY <2>4
    <3>2. \E f : Decodes(f, s) /\ Decoded(s) = f[Len(s) - 1]
      BY <2>4, <3>1, DecodedFolds
    <3>3. QED
      BY <3>1, <3>2
  <2>6. f[0] = x % 32 /\ f[1] = 64 * f[0] + (y % 64)
    BY <2>4, <2>5 DEF Decodes, Bit
  <2>7. c # 2048 => x % 32 = x - 192 /\ y % 64 = y - 128
    BY <2>3
  <2>8. c # 2048 => Decoded(s) = c
    BY SMT, <2>3, <2>5, <2>6, <2>7
  <2>9. c # 2048 => Following(x) = 1 /\ ~TooLong(x)
    BY <2>3, FollowingIs
  <2>10. QED
    BY SMT, <1>2, <2>2, <2>3, <2>4, <2>8, <2>9
<1>3. CASE c > 2048 /\ c < 65535
  <2>1. PICK x, y, z : x = 224 + c \div 4096 /\ y = 128 + ((c \div 64) % 64) /\ z = 128 + ((c \div 1) % 64)
    OBVIOUS
  <2>2. Bytes(c) = <<x, y, z>>
    <3>1. ~(c <= 127) /\ ~(c > 127 /\ c <= 2048) /\ ~(c >= 65535)
      BY SMT, <1>3, <1>a
    <3>2. Bytes(c) = <<224 + c \div 4096, 128 + ((c \div 64) % 64), 128 + ((c \div 1) % 64)>>
      BY SMT, <1>3, <3>1 DEF Bytes
    <3>3. QED
      BY <2>1, <3>2
  <2>3. /\ x \in Nat /\ y \in Nat /\ z \in Nat
        /\ c = 64 * (64 * (x - 224) + (y - 128)) + (z - 128)
        /\ y - 128 \in 0..63 /\ z - 128 \in 0..63 /\ x \in 224..239
    BY SMT, <1>3, <2>1 DEF CodePoints
  <2>4. PICK s : s = <<x, y, z>> /\ s \in Seq(Nat) /\ Len(s) = 3 /\ s[1] = x /\ s[2] = y /\ s[3] = z
    <3>1. x \in Nat /\ y \in Nat /\ z \in Nat
      BY <2>3
    <3>2. PICK s : s = <<x, y, z>>
      OBVIOUS
    <3>3. s \in Seq(Nat)
      BY <3>1, <3>2
    <3>4. Len(s) = 3 /\ s[1] = x /\ s[2] = y /\ s[3] = z
      BY <3>2
    <3>5. QED
      BY <3>2, <3>3, <3>4
  <2>5. PICK f : Decodes(f, s) /\ Decoded(s) = f[2]
    <3>1. Len(s) \in 2..4 /\ Len(s) - 1 = 2
      BY <2>4
    <3>2. \E f : Decodes(f, s) /\ Decoded(s) = f[Len(s) - 1]
      BY <2>4, <3>1, DecodedFolds
    <3>3. QED
      BY <3>1, <3>2
  <2>6. f[0] = x % 16 /\ f[1] = 64 * f[0] + (y % 64) /\ f[2] = 64 * f[1] + (z % 64)
    BY <2>4, <2>5 DEF Decodes, Bit
  <2>7. x % 16 = x - 224 /\ y % 64 = y - 128 /\ z % 64 = z - 128
    BY <2>3
  <2>8. Decoded(s) = c
    BY SMT, <2>3, <2>5, <2>6, <2>7
  <2>9. Following(x) = 2 /\ ~TooLong(x)
    BY <2>3, FollowingIs
  <2>10. QED
    BY SMT, <1>3, <2>2, <2>3, <2>4, <2>8, <2>9
<1>4. CASE c >= 65535
  <2>1. PICK x, y, z, w : /\ x = 240 + c \div 262144 /\ y = 128 + ((c \div 4096) % 64)
                          /\ z = 128 + ((c \div 64) % 64) /\ w = 128 + ((c \div 1) % 64)
    OBVIOUS
  <2>2. Bytes(c) = <<x, y, z, w>>
    BY SMT, <1>4, <2>1 DEF Bytes
  <2>3. /\ x \in Nat /\ y \in Nat /\ z \in Nat /\ w \in Nat
        /\ c = 64 * (64 * (64 * (x - 240) + (y - 128)) + (z - 128)) + (w - 128)
        /\ y - 128 \in 0..63 /\ z - 128 \in 0..63 /\ w - 128 \in 0..63 /\ x \in 240..247
    BY SMT, <1>4, <2>1 DEF CodePoints
  <2>4. PICK s : /\ s = <<x, y, z, w>> /\ s \in Seq(Nat) /\ Len(s) = 4
                 /\ s[1] = x /\ s[2] = y /\ s[3] = z /\ s[4] = w
    <3>1. x \in Nat /\ y \in Nat /\ z \in Nat /\ w \in Nat
      BY <2>3
    <3>2. PICK s : s = <<x, y, z, w>>
      OBVIOUS
    <3>3. s \in Seq(Nat)
      BY <3>1, <3>2
    <3>4. Len(s) = 4 /\ s[1] = x /\ s[2] = y /\ s[3] = z /\ s[4] = w
      BY <3>2
    <3>5. QED
      BY <3>2, <3>3, <3>4
  <2>5. PICK f : Decodes(f, s) /\ Decoded(s) = f[3]
    <3>1. Len(s) \in 2..4 /\ Len(s) - 1 = 3
      BY <2>4
    <3>2. \E f : Decodes(f, s) /\ Decoded(s) = f[Len(s) - 1]
      BY <2>4, <3>1, DecodedFolds
    <3>3. QED
      BY <3>1, <3>2
  <2>6. /\ f[0] = x % 8 /\ f[1] = 64 * f[0] + (y % 64) /\ f[2] = 64 * f[1] + (z % 64)
        /\ f[3] = 64 * f[2] + (w % 64)
    BY <2>4, <2>5 DEF Decodes, Bit
  <2>7. x % 8 = x - 240 /\ y % 64 = y - 128 /\ z % 64 = z - 128 /\ w % 64 = w - 128
    BY <2>3
  <2>8. Decoded(s) = c
    BY SMT, <2>3, <2>5, <2>6, <2>7
  <2>9. Following(x) = 3 /\ ~TooLong(x)
    BY <2>3, FollowingIs
  <2>10. QED
    BY SMT, <1>4, <2>2, <2>3, <2>4, <2>8, <2>9
<1>5. QED
  BY SMT, <1>a, <1>1, <1>2, <1>3, <1>4

\* The code points that are encoded rightly.
Encodable == CodePoints \ {2048}

\* What BytesFacts says of them.
LEMMA EncodableFacts ==
  ASSUME NEW c \in Encodable
  PROVE  /\ c \in Nat /\ Bytes(c) \in Seq(Nat) /\ Len(Bytes(c)) \in 1..4
         /\ c <= 127 => Bytes(c) = <<c>>
         /\ c > 127 =>
              /\ Len(Bytes(c)) > 1 /\ Bytes(c)[1] > 127 /\ ~TooLong(Bytes(c)[1])
              /\ Following(Bytes(c)[1]) = Len(Bytes(c)) - 1
              /\ Decoded(Bytes(c)) = c
<1>1. c \in CodePoints /\ c # 2048
  BY DEF Encodable
<1>2. c \in Nat
  BY SMT, <1>1 DEF CodePoints
<1>3. QED
  BY <1>1, <1>2, BytesFacts

(***************************************************************************)
(* Streams                                                                 *)
(***************************************************************************)
StreamType == [buffer : [1..BufferSize -> Nat], filled : 0..BufferSize, ptr : Nat, at : Nat]

\* A stream on file f
StreamOK(s, f) == s \in StreamType /\ s.ptr <= s.filled /\ s.at <= Len(f)

\* ... of which p bytes have been read, and whose buffer holds the next ones
ReadTo(s, p, f) ==
  /\ StreamOK(s, f) /\ s.at - (s.filled - s.ptr) = p
  /\ \A i \in s.ptr + 1..s.filled : s.buffer[i] = f[p + (i - s.ptr)]

\* What a fresh stream is.
LEMMA NewStreamFacts ==
  ASSUME NEW at \in Nat, NEW f, at <= Len(f)
  PROVE  StreamOK(NewStream(at), f) /\ ReadTo(NewStream(at), at, f)
<1>1. BufferSize \in Nat
  BY StreamsAssumption
<1>2. PICK s : s = NewStream(at)
  OBVIOUS
<1>3. s \in StreamType /\ s.ptr = 0 /\ s.filled = 0 /\ s.at = at
  BY <1>1, <1>2 DEF NewStream, StreamType
<1>4. QED
  BY <1>2, <1>3 DEF StreamOK, ReadTo

\* Refilling leaves a byte in the buffer, or the file is at its end.
LEMMA RefilledFacts ==
  ASSUME file \in Seq(Nat), NEW s, StreamOK(s, file)
  PROVE  /\ StreamOK(Refilled(s), file)
         /\ Refilled(s).filled = 0 \/ Refilled(s).ptr < Refilled(s).filled
         /\ s.ptr < s.filled => Refilled(s) = s
         /\ \A p \in Nat : ReadTo(s, p, file) =>
              /\ ReadTo(Refilled(s), p, file)
              /\ Refilled(s).filled = 0 => p = Len(file)
<1>1. PICK L, B : L = Len(file) /\ L \in Nat /\ B = BufferSize /\ B \in Nat /\ B > 0
  BY StreamsAssumption, LenProperties
<1>2. /\ s.ptr \in Nat /\ s.filled \in 0..B /\ s.at \in Nat /\ s.at <= L /\ s.ptr <= s.filled
      /\ s.buffer \in [1..B -> Nat]
  BY <1>1 DEF StreamOK, StreamType
<1>3. CASE s.ptr # s.filled
  <2>1. Refilled(s) = s /\ s.ptr < s.filled /\ s.filled # 0
    BY <1>1, <1>2, <1>3 DEF Refilled
  <2>2. QED
    BY <1>1, <1>2, <2>1
<1>4. CASE s.ptr = s.filled
  <2>1. PICK n : n = IF L - s.at > B THEN B ELSE L - s.at
    OBVIOUS
  <2>2. n \in 0..B /\ s.at + n <= L /\ (n = 0 => s.at = L)
    BY <1>1, <1>2, <2>1
  <2>3. PICK b : b = [i \in 1..B |-> IF i <= n THEN file[s.at + i] ELSE s.buffer[i]]
    OBVIOUS
  <2>4. b \in [1..B -> Nat]
    <3>1. ASSUME NEW i \in 1..B
          PROVE  b[i] \in Nat
      <4>1. CASE i <= n
        <5>0. PICK a : a = s.at /\ a \in Nat /\ a + n <= L /\ n \in Nat /\ i \in Nat /\ i >= 1 /\ i <= n /\ L \in Nat
          BY <1>1, <1>2, <2>2, <4>1
        <5>1. s.at + i \in 1..L
          BY <5>0
        <5>2. file[s.at + i] \in Nat
          BY <1>1, <5>1, ElementOfSeq
        <5>3. QED
          BY <2>3, <4>1, <5>2
      <4>2. CASE ~(i <= n)
        BY <1>2, <2>3, <4>2
      <4>3. QED
        BY <4>1, <4>2
    <3>2. QED
      BY <2>3, <3>1
  <2>5. PICK t : t = Refilled(s)
    OBVIOUS
  <2>6. t = [s EXCEPT !.buffer = b, !.filled = n, !.at = s.at + n, !.ptr = 0]
    BY <1>1, <1>4, <2>1, <2>3, <2>5 DEF Refilled
  <2>7. t = [buffer |-> b, filled |-> n, ptr |-> 0, at |-> s.at + n]
    BY <2>6 DEF StreamOK, StreamType
  <2>8. t.buffer = b /\ t.filled = n /\ t.ptr = 0 /\ t.at = s.at + n
    BY <2>7
  <2>9. t \in StreamType
    BY <1>1, <1>2, <2>2, <2>4, <2>7 DEF StreamType
  <2>10. StreamOK(t, file)
    BY <1>1, <2>2, <2>8, <2>9 DEF StreamOK
  <2>11. ASSUME NEW p \in Nat, ReadTo(s, p, file)
         PROVE  ReadTo(t, p, file) /\ (t.filled = 0 => p = L)
    <3>1. p = s.at
      BY <1>2, <1>4, <2>11 DEF ReadTo
    <3>2. \A i \in 1..n : t.buffer[i] = file[p + (i - 0)]
      BY <1>1, <1>2, <2>2, <2>3, <2>8, <3>1
    <3>3. t.at - (t.filled - t.ptr) = p
      BY <1>2, <2>2, <2>8, <3>1
    <3>4. QED
      BY <2>2, <2>8, <2>10, <3>1, <3>2, <3>3 DEF ReadTo
  <2>12. t.filled = 0 \/ t.ptr < t.filled
    BY <1>1, <2>2, <2>8
  <2>13. ~(s.ptr < s.filled)
    BY <1>2, <1>4
  <2>14. QED
    BY <1>1, <2>5, <2>10, <2>11, <2>12, <2>13
<1>5. QED
  BY <1>3, <1>4

\* The bytes left in the buffer, when one more is read.
LEMMA NextByte ==
  ASSUME NEW x \in Nat, NEW y \in Nat, NEW p \in Nat, NEW i \in (x + 1) + 1..y
  PROVE  i \in x + 1..y /\ p + (i - x) = (p + 1) + (i - (x + 1))
OBVIOUS

\* getb: the next byte, and the stream after it; peekb the same without moving.
LEMMA GetbFacts ==
  ASSUME file \in Seq(Nat), NEW s, StreamOK(s, file)
  PROVE  /\ getb(s).value \in Nat \cup {EOF} /\ peekb(s).value = getb(s).value
         /\ StreamOK(getb(s).stream, file) /\ StreamOK(peekb(s).stream, file)
         /\ peekb(s).stream = Refilled(s)
         /\ getb(s).value # EOF => getb(s).stream = [Refilled(s) EXCEPT !.ptr = @ + 1]
         /\ getb(s).value = EOF => getb(s).stream = Refilled(s)
         /\ \A p \in Nat : ReadTo(s, p, file) =>
              /\ p <= Len(file) /\ ReadTo(peekb(s).stream, p, file)
              /\ p < Len(file) => getb(s).value = file[p + 1] /\ ReadTo(getb(s).stream, p + 1, file)
              /\ p = Len(file) => getb(s).value = EOF /\ ReadTo(getb(s).stream, p, file)
<1>1. PICK L, B : L = Len(file) /\ L \in Nat /\ B = BufferSize /\ B \in Nat /\ B > 0
  BY StreamsAssumption, LenProperties
<1>2. PICK t : t = Refilled(s)
  OBVIOUS
<1>3. /\ StreamOK(t, file) /\ (t.filled = 0 \/ t.ptr < t.filled)
      /\ \A p \in Nat : ReadTo(s, p, file) => ReadTo(t, p, file) /\ (t.filled = 0 => p = L)
  BY <1>1, <1>2, RefilledFacts
<1>4. /\ t.ptr \in Nat /\ t.filled \in 0..B /\ t.at \in Nat /\ t.at <= L /\ t.ptr <= t.filled
      /\ t.buffer \in [1..B -> Nat] /\ t \in StreamType
  BY <1>1, <1>3 DEF StreamOK, StreamType
<1>5. PICK v : v = IF t.filled = 0 THEN EOF ELSE t.buffer[t.ptr + 1]
  OBVIOUS
<1>6. peekb(s) = [value |-> v, stream |-> t]
  BY <1>2, <1>5 DEF peekb, Gives
<1>7. v \in Nat \cup {EOF} /\ (v = EOF <=> t.filled = 0)
  <2>1. CASE t.filled = 0
    BY <1>5, <2>1
  <2>2. CASE t.filled # 0
    <3>0. PICK x, y : x = t.ptr /\ y = t.filled /\ x \in Nat /\ y \in 0..B /\ x < y
      BY <1>3, <1>4, <2>2
    <3>1. t.ptr + 1 \in 1..B
      BY <1>1, <3>0
    <3>2. t.buffer[t.ptr + 1] \in Nat
      BY <1>4, <3>1
    <3>3. QED
      BY <1>5, <2>2, <3>2 DEF EOF
  <2>3. QED
    BY <2>1, <2>2
<1>8. ASSUME NEW p \in Nat, ReadTo(s, p, file)
      PROVE  /\ p <= L /\ ReadTo(t, p, file) /\ (v = EOF => p = L)
             /\ v # EOF => p < L /\ v = file[p + 1]
  <2>1. ReadTo(t, p, file) /\ (t.filled = 0 => p = L)
    BY <1>3, <1>8
  <2>2. t.at - (t.filled - t.ptr) = p /\ \A i \in t.ptr + 1..t.filled : t.buffer[i] = file[p + (i - t.ptr)]
    BY <2>1 DEF ReadTo
  <2>3. p <= L /\ (t.filled # 0 => p < L)
    BY <1>1, <1>3, <1>4, <2>2
  <2>4. CASE t.filled # 0
    <3>1. t.ptr + 1 \in t.ptr + 1..t.filled /\ (t.ptr + 1) - t.ptr = 1
      BY <1>3, <1>4, <2>4
    <3>2. t.buffer[t.ptr + 1] = file[p + 1]
      BY <2>2, <3>1
    <3>3. QED
      BY <1>5, <1>7, <2>1, <2>3, <2>4, <3>2
  <2>5. CASE t.filled = 0
    BY <1>7, <2>1, <2>3, <2>5
  <2>6. QED
    BY <2>4, <2>5
<1>9. CASE v = EOF
  <2>1. getb(s) = [value |-> v, stream |-> t]
    BY <1>6, <1>9 DEF getb
  <2>2. getb(s).value = v /\ getb(s).stream = t /\ peekb(s).value = v /\ peekb(s).stream = t
    BY <1>6, <2>1
  <2>3. ASSUME NEW p \in Nat, ReadTo(s, p, file)
        PROVE  p = L /\ p <= L /\ ~(p < L) /\ ReadTo(t, p, file)
    BY <1>1, <1>8, <1>9, <2>3
  <2>4. QED
    BY <1>1, <1>2, <1>3, <1>7, <1>9, <2>2, <2>3
<1>10. CASE v # EOF
  <2>1. PICK u : u = [t EXCEPT !.ptr = @ + 1]
    OBVIOUS
  <2>2. getb(s) = [value |-> v, stream |-> u]
    BY <1>6, <1>10, <2>1 DEF getb
  <2>3. getb(s).value = v /\ getb(s).stream = u /\ peekb(s).value = v /\ peekb(s).stream = t
    BY <1>6, <2>2
  <2>4. u.ptr = t.ptr + 1 /\ u.filled = t.filled /\ u.at = t.at /\ u.buffer = t.buffer /\ u \in StreamType
    <3>1. t \in StreamType /\ t.ptr + 1 \in Nat
      BY <1>4
    <3>2. t = [buffer |-> t.buffer, filled |-> t.filled, ptr |-> t.ptr, at |-> t.at]
      BY <3>1 DEF StreamType
    <3>3. u.ptr = t.ptr + 1 /\ u.filled = t.filled /\ u.at = t.at /\ u.buffer = t.buffer
      BY <2>1, <3>2
    <3>4. u \in StreamType
      BY <2>1, <3>1 DEF StreamType
    <3>5. QED
      BY <3>3, <3>4
  <2>5. t.filled # 0 /\ t.ptr < t.filled
    BY <1>3, <1>7, <1>10
  <2>6. StreamOK(u, file)
    BY <1>1, <1>4, <2>4, <2>5 DEF StreamOK
  <2>7. ASSUME NEW p \in Nat, ReadTo(s, p, file)
        PROVE  p < L /\ p # L /\ p <= L /\ ReadTo(t, p, file) /\ v = file[p + 1] /\ ReadTo(u, p + 1, file)
    <3>1. p < L /\ ReadTo(t, p, file) /\ v = file[p + 1]
      BY <1>8, <1>10, <2>7
    <3>2. t.at - (t.filled - t.ptr) = p /\ \A i \in t.ptr + 1..t.filled : t.buffer[i] = file[p + (i - t.ptr)]
      BY <3>1 DEF ReadTo
    <3>3. u.at - (u.filled - u.ptr) = p + 1
      <4>1. PICK x, y, a : x = t.ptr /\ y = t.filled /\ a = t.at /\ x \in Nat /\ y \in Nat /\ a \in Nat /\ a - (y - x) = p
        BY <1>1, <1>4, <3>2
      <4>2. u.at = a /\ u.filled = y /\ u.ptr = x + 1
        BY <2>4, <4>1
      <4>3. a - (y - (x + 1)) = p + 1
        <5>1. a \in Int /\ x \in Int /\ y \in Int /\ p \in Int /\ a - (y - x) = p
          BY <2>7, <4>1
        <5>2. QED
          BY <5>1
      <4>4. QED
        BY <4>2, <4>3
    <3>4. ASSUME NEW i \in u.ptr + 1..u.filled
          PROVE  u.buffer[i] = file[(p + 1) + (i - u.ptr)]
      <4>0. PICK x, y : x = t.ptr /\ y = t.filled /\ x \in Nat /\ y \in Nat /\ u.ptr = x + 1 /\ u.filled = y
        BY <1>1, <1>4, <2>4
      <4>1. i \in t.ptr + 1..t.filled /\ p + (i - t.ptr) = (p + 1) + (i - u.ptr)
        <5>1. i \in (x + 1) + 1..y
          BY <4>0
        <5>2. i \in x + 1..y /\ p + (i - x) = (p + 1) + (i - (x + 1))
          BY <4>0, <5>1, NextByte
        <5>3. QED
          BY <4>0, <5>2
      <4>2. QED
        BY <2>4, <3>2, <4>1
    <3>5. ReadTo(u, p + 1, file)
      BY <2>6, <3>3, <3>4 DEF ReadTo
    <3>6. QED
      BY <1>1, <3>1, <3>5
  <2>8. QED
    BY <1>1, <1>2, <1>3, <1>7, <1>10, <2>1, <2>3, <2>6, <2>7
<1>11. QED
  BY <1>9, <1>10

\* What getch has while it takes the bytes of a code point
Readings == [bytes : Seq(Int), stream : {t \in StreamType : StreamOK(t, file)}]
Reading(r, k) ==
  IF r.bytes[k] = EOF
    THEN [r EXCEPT !.bytes = Append(@, EOF)]
    ELSE [bytes |-> Append(r.bytes, getb(r.stream).value), stream |-> getb(r.stream).stream]
Takes(take, n, first) ==
  /\ take[0] = [bytes |-> <<first.value>>, stream |-> first.stream]
  /\ \A k \in 0..n : take[k] \in Readings
  /\ \A k \in 1..n : take[k] = Reading(take[k - 1], k)

TakenWhole(take, n) ==
  Gives(IF EOF \in {take[n].bytes[i] : i \in 1..n + 1} THEN EOF ELSE Decoded(take[n].bytes),
        take[n].stream)

\* One more byte leaves what getch has as it should be.
LEMMA ReadingFacts ==
  ASSUME file \in Seq(Nat), NEW r \in Readings, NEW k \in Nat
  PROVE  Reading(r, k) \in Readings
<1>1. r.bytes \in Seq(Int) /\ StreamOK(r.stream, file) /\ r.stream \in StreamType
  BY DEF Readings
<1>2. EOF \in Int
  BY DEF EOF
<1>3. PICK v, t : v = getb(r.stream).value /\ t = getb(r.stream).stream
  OBVIOUS
<1>4. v \in Int /\ StreamOK(t, file) /\ t \in StreamType
  <2>1. v \in Nat \cup {EOF} /\ StreamOK(t, file)
    BY <1>1, <1>3, GetbFacts
  <2>2. QED
    BY <1>2, <2>1 DEF StreamOK
<1>5. Append(r.bytes, EOF) \in Seq(Int) /\ Append(r.bytes, v) \in Seq(Int)
  BY <1>1, <1>2, <1>4, AppendProperties
<1>6. CASE r.bytes[k] = EOF
  <2>1. Reading(r, k) = [r EXCEPT !.bytes = Append(r.bytes, EOF)]
    BY <1>6 DEF Reading
  <2>2. QED
    BY <1>1, <1>5, <2>1 DEF Readings
<1>7. CASE r.bytes[k] # EOF
  <2>1. Reading(r, k) = [bytes |-> Append(r.bytes, v), stream |-> t]
    BY <1>3, <1>7 DEF Reading
  <2>2. QED
    BY <1>4, <1>5, <2>1 DEF Readings
<1>8. QED
  BY <1>6, <1>7

\* getch of a code point of several bytes takes one byte after the other.
LEMMA GetchTakes ==
  ASSUME file \in Seq(Nat), NEW s, StreamOK(s, file), ~TooLong(getb(s).value), getb(s).value > 127
  PROVE  /\ Following(getb(s).value) \in 1..4
         /\ \E take : /\ Takes(take, Following(getb(s).value), getb(s))
                      /\ getch(s) = TakenWhole(take, Following(getb(s).value))
<1> DEFINE first == getb(s)
           n == Following(first.value)
           A(take) == take = [i \in 0..n |->
             IF i = 0 THEN [bytes |-> <<first.value>>, stream |-> first.stream]
             ELSE LET b == getb(take[i - 1].stream)
                  IN  IF take[i - 1].bytes[i] = EOF
                        THEN [take[i - 1] EXCEPT !.bytes = Append(@, EOF)]
                      ELSE [bytes |-> Append(take[i - 1].bytes, b.value), stream |-> b.stream]]
           step == [k \in 1..n |-> [r \in Readings |-> Reading(r, k)]]
<1>1. first.value \in Nat /\ StreamOK(first.stream, file) /\ first.stream \in StreamType
  <2>1. first.value \in Nat \cup {EOF} /\ StreamOK(first.stream, file)
    BY GetbFacts
  <2>2. first.value # EOF
    BY DEF EOF
  <2>3. QED
    BY <2>1, <2>2 DEF StreamOK
<1>2. n \in 1..4
  BY <1>1, FollowingFacts
<1>3. PICK a : a = [bytes |-> <<first.value>>, stream |-> first.stream]
  OBVIOUS
<1>4. a \in Readings
  <2>1. <<first.value>> \in Seq(Int)
    BY <1>1
  <2>2. QED
    BY <1>1, <1>3, <2>1 DEF Readings
<1> HIDE DEF n, first
<1>5. AreSteps(step, n, Readings)
  <2>1. \A k \in 1..n : \A r \in Readings : Reading(r, k) \in Readings
    BY <1>2, ReadingFacts
  <2>2. QED
    BY <2>1 DEF AreSteps
<1>6. PICK f : Unfolds(f, n, Readings, a, step)
  <2>1. n \in Nat
    BY <1>2
  <2> HIDE DEF step
  <2>2. QED
    BY <1>4, <1>5, <2>1, RecursiveFunction
<1>7. \A k \in 1..n : f[k] = Reading(f[k - 1], k)
  <2>1. ASSUME NEW k \in 1..n
        PROVE  f[k] = Reading(f[k - 1], k)
    <3>1. k - 1 \in 0..n
      BY <1>2
    <3>2. f[k] = step[k][f[k - 1]] /\ f[k - 1] \in Readings
      BY <1>6, <3>1 DEF Unfolds
    <3>3. QED
      BY <3>2
  <2>2. QED
    BY <2>1
<1> HIDE DEF step
<1>8. A(f)
  <2>1. f \in [0..n -> Readings] /\ f[0] = a
    BY <1>6 DEF Unfolds
  <2>2. ASSUME NEW i \in 0..n
        PROVE  f[i] = IF i = 0 THEN [bytes |-> <<first.value>>, stream |-> first.stream]
                      ELSE LET b == getb(f[i - 1].stream)
                           IN  IF f[i - 1].bytes[i] = EOF
                                 THEN [f[i - 1] EXCEPT !.bytes = Append(@, EOF)]
                               ELSE [bytes |-> Append(f[i - 1].bytes, b.value), stream |-> b.stream]
    <3>1. CASE i = 0
      BY <1>3, <2>1, <3>1
    <3>2. CASE i # 0
      <4>1. i \in 1..n
        BY <1>2, <3>2
      <4>2. f[i] = Reading(f[i - 1], i)
        BY <1>7, <4>1
      <4>3. QED
        BY <3>2, <4>2 DEF Reading
    <3>3. QED
      BY <3>1, <3>2
  <2>3. QED
    BY <2>1, <2>2
<1>9. PICK take : take = (CHOOSE h : A(h)) /\ A(take)
  BY <1>8
<1>10. Takes(take, n, first)
  <2>1. take[0] = a
    <3>1. 0 \in 0..n
      BY <1>2
    <3>2. QED
      BY <1>3, <1>9, <3>1
  <2>2. ASSUME NEW k \in 1..n
        PROVE  take[k] = Reading(take[k - 1], k)
    <3>1. k \in 0..n /\ k # 0
      BY <1>2
    <3>2. QED
      BY <1>9, <3>1 DEF Reading
  <2>3. \A k \in 0..n : take[k] \in Readings
    <3>1. PICK P : P = {k \in 0..n : take[k] \in Readings}
      OBVIOUS
    <3>2. n \in Nat /\ 0 \in P
      BY <1>2, <1>4, <2>1, <3>1
    <3>3. ASSUME NEW k \in 0..n - 1, k \in P
          PROVE  k + 1 \in P
      <4>1. k + 1 \in 1..n /\ (k + 1) - 1 = k /\ k + 1 \in Nat /\ k + 1 \in 0..n
        BY <1>2
      <4>2. take[k] \in Readings
        BY <3>1, <3>3
      <4>3. take[k + 1] = Reading(take[k], k + 1)
        BY <2>2, <4>1
      <4>4. take[k + 1] \in Readings
        BY <4>1, <4>2, <4>3, ReadingFacts
      <4>5. QED
        BY <3>1, <4>1, <4>4
    <3>4. \A k \in 0..n : k \in P
      BY <3>2, <3>3, UpTo
    <3>5. QED
      BY <3>1, <3>4
  <2>4. QED
    BY <1>3, <2>1, <2>2, <2>3 DEF Takes
<1>11. getch(s) = TakenWhole(take, n)
  <2>1. ~(first.value <= 127)
    BY <1>1 DEF first
  <2>2. Taken(first, n) = take[n]
    BY <1>9 DEF Taken
  <2>3. getch(s) = Gives(IF EOF \in {Taken(first, n).bytes[i] : i \in 1..n + 1}
                           THEN EOF ELSE Decoded(Taken(first, n).bytes),
                         Taken(first, n).stream)
    BY <2>1 DEF getch, first, n
  <2>4. QED
    BY <2>2, <2>3 DEF TakenWhole
<1>12. QED
  BY <1>2, <1>10, <1>11 DEF first, n

\* ... of a stream of which p bytes have been read.
LEMMA GetbReads ==
  ASSUME file \in Seq(Nat), NEW s, NEW p \in Nat, ReadTo(s, p, file)
  PROVE  /\ p <= Len(file) /\ ReadTo(peekb(s).stream, p, file)
         /\ p < Len(file) => getb(s).value = file[p + 1] /\ ReadTo(getb(s).stream, p + 1, file)
         /\ p = Len(file) => getb(s).value = EOF /\ ReadTo(getb(s).stream, p, file)
<1>1. StreamOK(s, file)
  BY DEF ReadTo
<1>2. \A q \in Nat : ReadTo(s, q, file) =>
        /\ q <= Len(file) /\ ReadTo(peekb(s).stream, q, file)
        /\ q < Len(file) => getb(s).value = file[q + 1] /\ ReadTo(getb(s).stream, q + 1, file)
        /\ q = Len(file) => getb(s).value = EOF /\ ReadTo(getb(s).stream, q, file)
  BY <1>1, GetbFacts
<1>3. QED
  BY <1>2

\* getch leaves a stream.
LEMMA GetchFacts ==
  ASSUME file \in Seq(Nat), NEW s, StreamOK(s, file), ~TooLong(getb(s).value)
  PROVE  /\ StreamOK(getch(s).stream, file)
         /\ getb(s).value <= 127 => getch(s) = getb(s)
<1>1. StreamOK(getb(s).stream, file) /\ getb(s).value \in Int
  <2>1. StreamOK(getb(s).stream, file) /\ getb(s).value \in Nat \cup {EOF}
    BY GetbFacts
  <2>2. QED
    BY <2>1 DEF EOF
<1>2. CASE getb(s).value <= 127
  <2>1. getch(s) = getb(s)
    BY <1>2 DEF getch
  <2>2. QED
    BY <1>1, <2>1
<1>3. CASE getb(s).value > 127
  <2>1. PICK n : n = Following(getb(s).value)
    OBVIOUS
  <2>2. PICK take : Takes(take, n, getb(s)) /\ getch(s) = TakenWhole(take, n) /\ n \in 1..4
    BY <1>3, <2>1, GetchTakes
  <2>3. take[n] \in Readings
    BY <2>2 DEF Takes
  <2>4. getch(s).stream = take[n].stream
    BY <2>2 DEF TakenWhole, Gives
  <2>5. ~(getb(s).value <= 127)
    BY <1>1, <1>3
  <2>6. QED
    BY <2>3, <2>4, <2>5 DEF Readings
<1>4. QED
  BY <1>1, <1>2, <1>3

\* At the end of the file getch gives EOF.
LEMMA GetchEnds ==
  ASSUME file \in Seq(Nat), NEW s, NEW p, p = Len(file), ReadTo(s, p, file)
  PROVE  getch(s).value = EOF /\ ReadTo(getch(s).stream, p, file)
<1>1. p \in Nat
  BY LenProperties
<1>2. getb(s).value = EOF /\ ReadTo(getb(s).stream, p, file)
  BY <1>1, GetbReads
<1>3. getb(s).value <= 127
  BY <1>2 DEF EOF
<1>4. getch(s) = getb(s)
  BY <1>3 DEF getch
<1>5. QED
  BY <1>2, <1>4

\* The bytes of code point c come after the first p bytes of f.
Follows(c, p, f) ==
  /\ p + Len(Bytes(c)) <= Len(f)
  /\ \A j \in 1..Len(Bytes(c)) : f[p + j] = Bytes(c)[j]

\* getch reads back the code point whose bytes come next.
LEMMA GetchReads ==
  ASSUME file \in Seq(Nat), NEW s, NEW p \in Nat, ReadTo(s, p, file),
         NEW c \in Encodable, Follows(c, p, file)
  PROVE  getch(s).value = c /\ ReadTo(getch(s).stream, p + Len(Bytes(c)), file)
<1>1. PICK bs, L : /\ bs = Bytes(c) /\ L = Len(bs) /\ L \in 1..4 /\ bs \in Seq(Nat)
                   /\ \A j \in 1..L : bs[j] \in Nat
  <2>1. PICK bs : bs = Bytes(c)
    OBVIOUS
  <2>2. bs \in Seq(Nat) /\ Len(bs) \in 1..4
    BY <2>1, EncodableFacts
  <2>3. \A j \in 1..Len(bs) : bs[j] \in Nat
    BY <2>2, ElementOfSeq
  <2>4. QED
    BY <2>1, <2>2, <2>3
<1>2. PICK F : F = Len(file) /\ F \in Nat
  BY LenProperties
<1>3. p + L <= F /\ \A j \in 1..L : file[p + j] = bs[j]
  BY <1>1, <1>2 DEF Follows
<1>4. StreamOK(s, file)
  BY DEF ReadTo
<1>5. getb(s).value = bs[1] /\ ReadTo(getb(s).stream, p + 1, file)
  <2>1. p < F /\ 1 \in 1..L
    BY <1>1, <1>2, <1>3
  <2>2. QED
    BY <1>2, <1>3, <2>1, GetbReads
<1>6. CASE c <= 127
  <2>1. bs = <<c>>
    <3>1. Bytes(c) = <<c>>
      BY <1>6, EncodableFacts
    <3>2. QED
      BY <1>1, <3>1
  <2>2. L = 1 /\ bs[1] = c
    BY <1>1, <2>1
  <2>3. getb(s).value <= 127
    BY <1>5, <1>6, <2>2
  <2>4. getch(s) = getb(s)
    BY <2>3 DEF getch
  <2>5. QED
    BY <1>1, <1>5, <2>2, <2>4
<1>7. CASE c > 127
  <2>1. L > 1 /\ bs[1] > 127 /\ ~TooLong(bs[1]) /\ Following(bs[1]) = L - 1 /\ Decoded(bs) = c
    BY <1>1, <1>7, EncodableFacts
  <2>2. PICK n : n = L - 1 /\ n \in 1..3 /\ L = n + 1
    <3>1. L \in 1..4
      BY <1>1
    <3>2. L > 1
      BY <2>1
    <3>3. QED
      BY <3>1, <3>2
  <2>3. PICK take : Takes(take, n, getb(s)) /\ getch(s) = TakenWhole(take, n)
    BY <1>4, <1>5, <2>1, <2>2, GetchTakes
  <2>4. PICK P : P = {k \in 0..n : /\ Len(take[k].bytes) = k + 1
                                   /\ \A j \in 1..k + 1 : take[k].bytes[j] = bs[j]
                                   /\ ReadTo(take[k].stream, (p + k) + 1, file)}
    OBVIOUS
  <2>5. 0 \in P
    <3>1. take[0] = [bytes |-> <<bs[1]>>, stream |-> getb(s).stream]
      BY <1>5, <2>3 DEF Takes
    <3>2. Len(take[0].bytes) = 1 /\ take[0].bytes[1] = bs[1] /\ ReadTo(take[0].stream, p + 1, file)
      BY <1>5, <3>1
    <3>3. 0 \in 0..n /\ (p + 0) + 1 = p + 1
      BY <2>2
    <3>4. QED
      BY <2>4, <3>2, <3>3
  <2>6. ASSUME NEW k \in 0..n - 1, k \in P
        PROVE  k + 1 \in P
    <3>1. PICK r : r = take[k]
      OBVIOUS
    <3>2. PICK q : q = (p + k) + 1 /\ q \in Nat /\ q < F /\ q + 1 = (p + (k + 1)) + 1 /\ q + 1 = p + (k + 2)
      BY <1>2, <1>3, <2>2
    <3>3. Len(r.bytes) = k + 1 /\ (\A j \in 1..k + 1 : r.bytes[j] = bs[j]) /\ ReadTo(r.stream, q, file)
      BY <2>4, <2>6, <3>1, <3>2
    <3>4. k + 1 \in 1..n /\ (k + 1) - 1 = k /\ k \in 0..n /\ k + 2 \in 1..L /\ k + 1 \in 1..k + 1 /\ k + 1 \in 1..L /\ k \in Nat
      BY <2>2
    <3>5. take[k + 1] = Reading(r, k + 1) /\ r \in Readings
      BY <2>3, <3>1, <3>4 DEF Takes
    <3>6. StreamOK(r.stream, file)
      BY <3>3 DEF ReadTo
    <3>7. getb(r.stream).value = bs[k + 2] /\ ReadTo(getb(r.stream).stream, q + 1, file)
      <4>1. getb(r.stream).value = file[q + 1] /\ ReadTo(getb(r.stream).stream, q + 1, file)
        BY <1>2, <3>2, <3>3, GetbReads
      <4>2. QED
        BY <1>3, <3>2, <3>4, <4>1
    <3>8. r.bytes[k + 1] # EOF
      <4>1. r.bytes[k + 1] = bs[k + 1]
        BY <3>3, <3>4
      <4>2. bs[k + 1] \in Nat
        BY <1>1, <3>4
      <4>3. QED
        BY <4>1, <4>2 DEF EOF
    <3>9. take[k + 1] = [bytes |-> Append(r.bytes, bs[k + 2]), stream |-> getb(r.stream).stream]
      BY <3>5, <3>7, <3>8 DEF Reading
    <3>10. PICK b : b = r.bytes /\ b \in Seq(Int) /\ Len(b) = k + 1
      BY <3>3, <3>5 DEF Readings
    <3>11. PICK d : d = Append(b, bs[k + 2])
      OBVIOUS
    <3>12. Len(d) = (k + 1) + 1 /\ d[(k + 1) + 1] = bs[k + 2] /\ \A j \in 1..k + 1 : d[j] = b[j]
      <4>1. bs[k + 2] \in Int
        BY <1>1, <3>4
      <4>2. QED
        BY <3>10, <3>11, <4>1, AppendProperties
    <3>13. take[k + 1].bytes = d /\ take[k + 1].stream = getb(r.stream).stream
      BY <3>9, <3>10, <3>11
    <3>14. \A j \in 1..(k + 1) + 1 : d[j] = bs[j]
      <4>1. (k + 1) + 1 = k + 2 /\ \A j \in 1..k + 2 : j \in 1..k + 1 \/ j = k + 2
        BY <3>4
      <4>2. QED
        BY <3>3, <3>10, <3>12, <4>1
    <3>15. k + 1 \in 0..n
      BY <3>4
    <3>16. QED
      BY <2>4, <3>2, <3>7, <3>12, <3>13, <3>14, <3>15
  <2>7. n \in P
    <3>1. n \in Nat
      BY <2>2
    <3>a. \A k \in 0..n - 1 : k \in P => k + 1 \in P
      BY <2>6
    <3>2. \A k \in 0..n : k \in P
      BY <2>5, <3>a, <3>1, UpTo
    <3>3. n \in 0..n
      BY <3>1
    <3>4. QED
      BY <3>2, <3>3
  <2>8. /\ Len(take[n].bytes) = L /\ \A j \in 1..L : take[n].bytes[j] = bs[j]
        /\ ReadTo(take[n].stream, p + L, file) /\ take[n].bytes \in Seq(Int)
    <3>1. (p + n) + 1 = p + L /\ n \in 0..n
      BY <2>2
    <3>2. take[n] \in Readings
      BY <2>3, <3>1 DEF Takes
    <3>3. QED
      BY <2>2, <2>4, <2>7, <3>1, <3>2 DEF Readings
  <2>9. take[n].bytes = bs
    <3>1. PICK b : b = take[n].bytes /\ b \in Seq(Int) /\ Len(b) = L /\ \A j \in 1..L : b[j] = bs[j]
      BY <2>8
    <3>2. bs \in Seq(Int)
      BY <1>1
    <3>3. QED
      BY <1>1, <3>1, <3>2, SeqEqual
  <2>10. EOF \notin {take[n].bytes[i] : i \in 1..n + 1}
    BY <1>1, <2>2, <2>9 DEF EOF
  <2>11. getch(s) = [value |-> c, stream |-> take[n].stream]
    BY <2>1, <2>3, <2>9, <2>10 DEF TakenWhole, Gives
  <2>12. QED
    BY <1>1, <2>8, <2>11
<1>8. QED
  <2>1. c \in Nat
    BY EncodableFacts
  <2>2. QED
    BY <1>6, <1>7, <2>1

\* getb of what is in the buffer.
LEMMA GetbInBuffer ==
  ASSUME file \in Seq(Nat), NEW s, StreamOK(s, file), s.ptr < s.filled
  PROVE  /\ getb(s).value = s.buffer[s.ptr + 1] /\ s.buffer[s.ptr + 1] \in Nat
         /\ StreamOK(getb(s).stream, file)
         /\ getb(s).stream.buffer = s.buffer /\ getb(s).stream.filled = s.filled
         /\ getb(s).stream.ptr = s.ptr + 1
<1>1. Refilled(s) = s
  BY RefilledFacts
<1>2. PICK x, y, B : /\ x = s.ptr /\ y = s.filled /\ B = BufferSize /\ x \in Nat /\ y \in 0..B /\ x < y
                     /\ B \in Nat /\ s.buffer \in [1..B -> Nat]
  BY StreamsAssumption DEF StreamOK, StreamType
<1>3. x + 1 \in 1..B /\ y # 0
  BY <1>2
<1>4. s.buffer[s.ptr + 1] \in Nat
  BY <1>2, <1>3
<1>5. peekb(s) = [value |-> s.buffer[s.ptr + 1], stream |-> s]
  BY <1>1, <1>2, <1>3 DEF peekb, Gives
<1>6. getb(s) = [value |-> s.buffer[s.ptr + 1], stream |-> [s EXCEPT !.ptr = @ + 1]]
  <2>1. s.buffer[s.ptr + 1] # EOF
    BY <1>4 DEF EOF
  <2>2. QED
    BY <1>5, <2>1 DEF getb
<1>7. StreamOK(getb(s).stream, file)
  BY GetbFacts
<1>8. PICK t : t = getb(s).stream /\ t = [s EXCEPT !.ptr = @ + 1]
  BY <1>6
<1>9. getb(s).value = s.buffer[s.ptr + 1]
  BY <1>6
<1>10. t.buffer = s.buffer /\ t.filled = s.filled /\ t.ptr = s.ptr + 1
  <2>1. s \in StreamType
    BY DEF StreamOK
  <2>2. s = [buffer |-> s.buffer, filled |-> s.filled, ptr |-> s.ptr, at |-> s.at]
    BY <2>1 DEF StreamType
  <2>3. QED
    BY <1>8, <2>2
<1>11. QED
  BY <1>4, <1>7, <1>8, <1>9, <1>10

\* What is peeked at is what would be read: peekch takes the bytes after the first from
\* the start of the buffer, so it is right if the first is there.
LEMMA PeekIsGet ==
  ASSUME file \in Seq(Nat), NEW s, StreamOK(s, file), NEW b, b = peekb(s).value,
         NEW t, t = peekb(s).stream,
         b > 127 => t.ptr = 0 /\ ~TooLong(b) /\ Following(b) < t.filled
  PROVE  peekch(s).value = getch(s).value
<1>1. /\ b = getb(s).value /\ b \in Nat \cup {EOF} /\ t = Refilled(s) /\ StreamOK(t, file)
      /\ b # EOF => getb(s).stream = [t EXCEPT !.ptr = @ + 1]
      /\ StreamOK(getb(s).stream, file)
  BY GetbFacts
<1>2. CASE b <= 127
  <2>1. peekch(s) = peekb(s)
    BY <1>2 DEF peekch
  <2>2. getch(s) = getb(s)
    BY <1>1, <1>2 DEF getch
  <2>3. QED
    BY <1>1, <2>1, <2>2
<1>3. CASE ~(b <= 127)
  <2>1. b \in Nat /\ b > 127 /\ b # EOF
    BY <1>1, <1>3 DEF EOF
  <2>2. t.ptr = 0 /\ ~TooLong(b)
    BY <2>1
  <2>3. PICK n : n = Following(b) /\ n < t.filled
    BY <2>1
  <2>4. PICK take : n \in 1..4 /\ Takes(take, n, getb(s)) /\ getch(s) = TakenWhole(take, n)
    BY <1>1, <2>1, <2>2, <2>3, GetchTakes
  <2>5. PICK B, y : /\ B = BufferSize /\ y = t.filled /\ B \in Nat /\ y \in 0..B /\ n < y
                    /\ t \in StreamType /\ t.buffer \in [1..B -> Nat]
    BY <1>1, <2>3, StreamsAssumption DEF StreamOK, StreamType
  <2>6. \A i \in 1..n + 1 : i \in 1..B /\ t.buffer[i] \in Nat
    BY <2>4, <2>5
  <2>7. b = t.buffer[1]
    <3>1. y # 0 /\ t.ptr + 1 = 1
      BY <2>2, <2>4, <2>5
    <3>2. peekb(s).value = t.buffer[t.ptr + 1]
      BY <1>1, <2>5, <3>1 DEF peekb, Gives
    <3>3. QED
      BY <3>1, <3>2
  <2>8. PICK P : P = {k \in 0..n : /\ Len(take[k].bytes) = k + 1
                                   /\ \A j \in 1..k + 1 : take[k].bytes[j] = t.buffer[j]
                                   /\ StreamOK(take[k].stream, file)
                                   /\ take[k].stream.buffer = t.buffer
                                   /\ take[k].stream.filled = y /\ take[k].stream.ptr = k + 1}
    OBVIOUS
  <2>9. 0 \in P
    <3>1. take[0] = [bytes |-> <<b>>, stream |-> getb(s).stream]
      BY <1>1, <2>4 DEF Takes
    <3>2. Len(take[0].bytes) = 1 /\ take[0].bytes[1] = b /\ take[0].stream = getb(s).stream
      BY <3>1
    <3>3. getb(s).stream = [t EXCEPT !.ptr = @ + 1]
      BY <1>1, <2>1
    <3>4. getb(s).stream.buffer = t.buffer /\ getb(s).stream.filled = y /\ getb(s).stream.ptr = 0 + 1
      BY <2>2, <2>5, <3>3 DEF StreamType
    <3>5. 0 \in 0..n /\ \A j \in 1..0 + 1 : j = 1
      BY <2>4
    <3>6. QED
      BY <1>1, <2>7, <2>8, <3>2, <3>4, <3>5
  <2>10. ASSUME NEW k \in 0..n - 1, k \in P
         PROVE  k + 1 \in P
    <3>1. PICK r, u : r = take[k] /\ u = r.stream
      OBVIOUS
    <3>2. /\ Len(r.bytes) = k + 1 /\ (\A j \in 1..k + 1 : r.bytes[j] = t.buffer[j])
          /\ StreamOK(u, file) /\ u.buffer = t.buffer /\ u.filled = y /\ u.ptr = k + 1
      BY <2>8, <2>10, <3>1
    <3>3. /\ k + 1 \in 1..n /\ (k + 1) - 1 = k /\ k \in 0..n /\ k + 1 \in 1..k + 1 /\ k \in Nat
          /\ k + 1 \in 0..n /\ k + 1 \in 1..n + 1 /\ (k + 1) + 1 \in 1..n + 1 /\ k + 1 < y
      <4>1. n \in Nat /\ y \in Nat /\ n < y
        BY <2>4, <2>5
      <4>2. QED
        BY <4>1
    <3>4. take[k + 1] = Reading(r, k + 1) /\ r \in Readings
      BY <2>4, <3>1, <3>3 DEF Takes
    <3>5. /\ getb(u).value = t.buffer[(k + 1) + 1] /\ StreamOK(getb(u).stream, file)
          /\ getb(u).stream.buffer = t.buffer /\ getb(u).stream.filled = y
          /\ getb(u).stream.ptr = (k + 1) + 1
      BY <3>2, <3>3, GetbInBuffer
    <3>6. r.bytes[k + 1] # EOF
      <4>1. r.bytes[k + 1] = t.buffer[k + 1]
        BY <3>2, <3>3
      <4>2. t.buffer[k + 1] \in Nat
        BY <2>6, <3>3
      <4>3. QED
        BY <4>1, <4>2 DEF EOF
    <3>7. PICK v : v = t.buffer[(k + 1) + 1] /\ v \in Nat
      BY <2>6, <3>3
    <3>8. take[k + 1] = [bytes |-> Append(r.bytes, v), stream |-> getb(u).stream]
      BY <3>1, <3>4, <3>5, <3>6, <3>7 DEF Reading
    <3>9. PICK a : a = r.bytes /\ a \in Seq(Int) /\ Len(a) = k + 1
      BY <3>2, <3>4 DEF Readings
    <3>10. PICK d : d = Append(a, v)
      OBVIOUS
    <3>11. Len(d) = (k + 1) + 1 /\ d[(k + 1) + 1] = v /\ \A j \in 1..k + 1 : d[j] = a[j]
      <4>1. v \in Int
        BY <3>7
      <4>2. QED
        BY <3>9, <3>10, <4>1, AppendProperties
    <3>12. take[k + 1].bytes = d /\ take[k + 1].stream = getb(u).stream
      BY <3>8, <3>9, <3>10
    <3>13. \A j \in 1..(k + 1) + 1 : d[j] = t.buffer[j]
      <4>1. \A j \in 1..(k + 1) + 1 : j \in 1..k + 1 \/ j = (k + 1) + 1
        BY <3>3
      <4>2. QED
        BY <3>2, <3>7, <3>9, <3>11, <4>1
    <3>14. QED
      BY <2>8, <3>3, <3>5, <3>11, <3>12, <3>13
  <2>11. n \in P
    <3>1. n \in Nat
      BY <2>4
    <3>2. \A k \in 0..n - 1 : k \in P => k + 1 \in P
      BY <2>10
    <3>3. \A k \in 0..n : k \in P
      BY <2>9, <3>1, <3>2, UpTo
    <3>4. n \in 0..n
      BY <3>1
    <3>5. QED
      BY <3>3, <3>4
  <2>12. PICK d : /\ d = take[n].bytes /\ d \in Seq(Int) /\ Len(d) = n + 1
                  /\ \A j \in 1..n + 1 : d[j] = t.buffer[j]
    <3>1. n \in 0..n
      BY <2>4
    <3>2. take[n].bytes \in Seq(Int)
      BY <2>4, <3>1 DEF Takes, Readings
    <3>3. QED
      BY <2>8, <2>11, <3>2
  <2>13. EOF \notin {d[i] : i \in 1..n + 1}
    <3>1. ASSUME NEW i \in 1..n + 1
          PROVE  d[i] # EOF
      <4>1. d[i] = t.buffer[i] /\ t.buffer[i] \in Nat
        BY <2>6, <2>12
      <4>2. QED
        BY <4>1 DEF EOF
    <3>2. QED
      BY <3>1
  <2>14. getch(s).value = Decoded(d)
    BY <2>4, <2>12, <2>13 DEF TakenWhole, Gives
  <2>15. PICK c : c = <<b>> \o [i \in 1..n |-> Ahead(t, i)]
    OBVIOUS
  <2>16. \A i \in 1..n : Ahead(t, i) = t.buffer[i + 1] /\ t.buffer[i + 1] \in Nat
    <3>1. ASSUME NEW i \in 1..n
          PROVE  Ahead(t, i) = t.buffer[i + 1] /\ t.buffer[i + 1] \in Nat
      <4>1. i < B /\ i + 1 \in 1..n + 1
        BY <2>4, <2>5
      <4>2. QED
        BY <2>5, <2>6, <4>1 DEF Ahead
    <3>2. QED
      BY <3>1
  <2>17. c = d
    <3>1. PICK e : e = [i \in 1..n |-> Ahead(t, i)]
      OBVIOUS
    <3>2. e \in Seq(Nat) /\ Len(e) = n /\ \A i \in 1..n : e[i] = t.buffer[i + 1]
      <4>0. \A i \in 1..n : Ahead(t, i) \in Nat
        BY <2>16
      <4>1. n \in Nat /\ e \in [1..n -> Nat]
        BY <2>4, <3>1, <4>0
      <4>2. e \in Seq(Nat) /\ Len(e) = n
        BY <4>1, SeqDef, LenProperties
      <4>3. QED
        BY <2>16, <3>1, <4>2
    <3>3. PICK a : a = <<b>>
      OBVIOUS
    <3>4. a \in Seq(Nat) /\ Len(a) = 1 /\ a[1] = b
      BY <2>1, <3>3
    <3>5. c = a \o e
      BY <2>15, <3>1, <3>3
    <3>6. /\ c \in Seq(Nat) /\ Len(c) = 1 + n
          /\ \A i \in 1..Len(a) + Len(e) : c[i] = IF i <= Len(a) THEN a[i] ELSE e[i - Len(a)]
      <4>1. /\ a \o e \in Seq(Nat) /\ Len(a \o e) = Len(a) + Len(e)
            /\ \A i \in 1..Len(a) + Len(e) : (a \o e)[i] = IF i <= Len(a) THEN a[i] ELSE e[i - Len(a)]
        <5>1. a \in Seq(Nat) /\ e \in Seq(Nat)
          BY <3>2, <3>4
        <5>2. QED
          BY <5>1, ConcatProperties
      <4>2. QED
        BY <3>2, <3>4, <3>5, <4>1
    <3>7. ASSUME NEW i \in 1..n + 1
          PROVE  c[i] = d[i]
      <4>1. i \in 1..Len(a) + Len(e)
        BY <2>4, <3>2, <3>4
      <4>2. CASE i = 1
        BY <2>7, <2>12, <3>4, <3>6, <4>1, <4>2
      <4>3. CASE i # 1
        <5>1. ~(i <= 1) /\ i - 1 \in 1..n /\ (i - 1) + 1 = i
          BY <2>4, <4>3
        <5>2. c[i] = e[i - 1]
          BY <3>4, <3>6, <4>1, <5>1
        <5>3. e[i - 1] = t.buffer[(i - 1) + 1]
          BY <3>2, <5>1
        <5>4. QED
          BY <2>12, <5>1, <5>2, <5>3
      <4>4. QED
        BY <4>2, <4>3
    <3>8. c \in Seq(Int) /\ Len(c) = n + 1
      BY <2>4, <3>6
    <3>9. QED
      BY <2>12, <3>7, <3>8, SeqEqual
  <2>18. peekch(s).value = Decoded(c)
    <3>1. ~(n - 1 > t.filled)
      BY <2>4, <2>5
    <3>2. QED
      BY <1>3, <2>3, <2>15, <3>1 DEF peekch, Gives
  <2>19. QED
    BY <2>14, <2>17, <2>18
<1>4. QED
  BY <1>2, <1>3

(***************************************************************************)
(* The invariant                                                           *)
(***************************************************************************)
\* The bytes of code points cs are file f, each at its offset.
Laid(off, f, cs) ==
  /\ off \in [0..Len(cs) -> Nat] /\ off[0] = 0 /\ off[Len(cs)] = Len(f)
  /\ \A i \in 1..Len(cs) :
       /\ cs[i] \in Encodable /\ off[i] = off[i - 1] + Len(Bytes(cs[i]))
       /\ Follows(cs[i], off[i - 1], f)

\* What was read is what was put, as far as it goes; g code points were read.
Place(g) == IF g <= Len(put) THEN g ELSE Len(put)
Told(off, s, gs) ==
  /\ gs \in Seq(Int)
  /\ \A i \in 1..Len(gs) : gs[i] = IF i <= Len(put) THEN put[i] ELSE EOF
  /\ ReadTo(s, off[Place(Len(gs))], file)

StreamsTypes ==
  /\ file \in Seq(Nat) /\ StreamOK(handle, file) /\ put \in Seq(Codes)
  /\ access \in {"closed", "read", "write", "append", "console"}
  /\ lost \in BOOLEAN /\ strayed \in BOOLEAN
  /\ access # "read" => given = <<>> /\ ~strayed
StreamsInv ==
  /\ StreamsTypes
  /\ ~lost => \E off : /\ Laid(off, file, put)
                       /\ access = "read" /\ ~strayed => Told(off, handle, given)

\* The invariant holds before a stream is opened.
LEMMA StreamsStart == ASSUME StreamsInit PROVE StreamsInv
<1>1. file = <<>> /\ access = "closed" /\ handle = NewStream(0) /\ put = <<>> /\ given = <<>>
      /\ ~strayed /\ ~lost /\ lost \in BOOLEAN /\ strayed \in BOOLEAN
  BY DEF StreamsInit
<1>2. file \in Seq(Nat) /\ Len(file) = 0 /\ put \in Seq(Codes) /\ Len(put) = 0
  BY <1>1
<1>3. StreamOK(handle, file)
  BY <1>1, <1>2, NewStreamFacts
<1>4. StreamsTypes
  BY <1>1, <1>2, <1>3 DEF StreamsTypes
<1>5. PICK off : off = [i \in 0..0 |-> 0]
  OBVIOUS
<1>6. Laid(off, file, put)
  BY <1>2, <1>5 DEF Laid
<1>7. QED
  BY <1>1, <1>4, <1>6 DEF StreamsInv

\* Of a file that is laid out, each offset is within it.
LEMMA LaidFacts ==
  ASSUME NEW off, NEW f, f \in Seq(Nat), NEW cs, Len(cs) \in Nat, Laid(off, f, cs), NEW i \in 0..Len(cs)
  PROVE  /\ off[i] \in Nat
         /\ i = Len(cs) => off[i] = Len(f)
         /\ i < Len(cs) => /\ cs[i + 1] \in Encodable /\ Follows(cs[i + 1], off[i], f)
                           /\ off[i + 1] = off[i] + Len(Bytes(cs[i + 1]))
<1>1. off[i] \in Nat /\ off[Len(cs)] = Len(f)
  BY DEF Laid
<1>2. ASSUME i < Len(cs)
      PROVE  /\ cs[i + 1] \in Encodable /\ Follows(cs[i + 1], off[i], f)
             /\ off[i + 1] = off[i] + Len(Bytes(cs[i + 1]))
  <2>1. i + 1 \in 1..Len(cs) /\ (i + 1) - 1 = i
    BY <1>2
  <2>2. QED
    BY <2>1 DEF Laid
<1>3. QED
  BY <1>1, <1>2

\* Reading one more: what was read before, and the next code point, or the end.
LEMMA TellsNext ==
  ASSUME StreamsTypes, NEW off, Laid(off, file, put), NEW gs, Told(off, handle, gs),
         NEW v, NEW t,
         LET p == Place(Len(gs))
         IN  IF p < Len(put) THEN v = put[p + 1] /\ ReadTo(t, off[p + 1], file)
             ELSE v = EOF /\ ReadTo(t, off[p], file)
  PROVE  Told(off, t, Append(gs, v))
<1>1. PICK L, g : L = Len(put) /\ L \in Nat /\ g = Len(gs) /\ g \in Nat
  BY LenProperties DEF StreamsTypes, Told
<1>2. gs \in Seq(Int) /\ \A i \in 1..g : gs[i] = IF i <= L THEN put[i] ELSE EOF
  BY <1>1 DEF Told
<1>3. IF g < L THEN v = put[g + 1] /\ ReadTo(t, off[g + 1], file)
      ELSE v = EOF /\ ReadTo(t, off[L], file)
  <2>1. CASE g < L
    <3>1. Place(Len(gs)) = g
      BY <1>1, <2>1 DEF Place
    <3>2. QED
      BY <1>1, <2>1, <3>1
  <2>2. CASE ~(g < L)
    <3>1. Place(Len(gs)) = L /\ ~(L < L)
      BY <1>1, <2>2 DEF Place
    <3>2. QED
      BY <1>1, <2>2, <3>1
  <2>3. QED
    BY <2>1, <2>2
<1>4. v \in Int
  <2>1. CASE g < L
    <3>1. put[g + 1] \in Encodable
      <4>1. g \in 0..Len(put) /\ file \in Seq(Nat) /\ Len(put) \in Nat
        BY <1>1, <2>1 DEF StreamsTypes
      <4>2. QED
        BY <1>1, <2>1, <4>1, LaidFacts
    <3>2. QED
      BY <1>3, <2>1, <3>1, EncodableFacts
  <2>2. CASE ~(g < L)
    BY <1>3, <2>2 DEF EOF
  <2>3. QED
    BY <2>1, <2>2
<1>5. PICK hs : hs = Append(gs, v)
  OBVIOUS
<1>6. hs \in Seq(Int) /\ Len(hs) = g + 1 /\ hs[g + 1] = v /\ \A i \in 1..g : hs[i] = gs[i]
  BY <1>1, <1>2, <1>4, <1>5, AppendProperties
<1>7. \A i \in 1..g + 1 : hs[i] = IF i <= L THEN put[i] ELSE EOF
  <2>1. ASSUME NEW i \in 1..g + 1
        PROVE  hs[i] = IF i <= L THEN put[i] ELSE EOF
    <3>1. CASE i = g + 1
      <4>1. i <= L <=> g < L
        BY <1>1, <3>1
      <4>2. hs[i] = v
        BY <1>6, <3>1
      <4>3. QED
        BY <1>3, <3>1, <4>1, <4>2
    <3>2. CASE i # g + 1
      <4>1. i \in 1..g
        BY <1>1, <3>2
      <4>2. QED
        BY <1>2, <1>6, <4>1
    <3>3. QED
      BY <3>1, <3>2
  <2>2. QED
    BY <2>1
<1>8. ReadTo(t, off[Place(g + 1)], file)
  <2>1. CASE g < L
    <3>1. Place(g + 1) = g + 1
      BY <1>1, <2>1 DEF Place
    <3>2. QED
      BY <1>3, <2>1, <3>1
  <2>2. CASE ~(g < L)
    <3>1. Place(g + 1) = L
      BY <1>1, <2>2 DEF Place
    <3>2. QED
      BY <1>3, <2>2, <3>1
  <2>3. QED
    BY <2>1, <2>2
<1>9. QED
  BY <1>1, <1>5, <1>6, <1>7, <1>8 DEF Told

\* A step of a stream that is read: the file stays.
LEMMA ReadStep ==
  ASSUME StreamsInv, UNCHANGED <<file, access, put, lost>>, StreamOK(handle', file),
         strayed' \in BOOLEAN, access # "read" => given' = given /\ strayed' = strayed,
         \A off : Laid(off, file, put) /\ access = "read" /\ ~strayed' /\ ~lost /\ (~strayed => Told(off, handle, given))
                    => Told(off, handle', given')
  PROVE  StreamsInv'
<1>1. StreamsTypes /\ file' = file /\ access' = access /\ put' = put /\ lost' = lost
  BY DEF StreamsInv
<1>2. StreamsTypes'
  BY <1>1 DEF StreamsTypes, StreamOK
<1>3. ASSUME ~lost
      PROVE  \E off : Laid(off, file, put) /\ (access = "read" /\ ~strayed' => Told(off, handle', given'))
  BY <1>3 DEF StreamsInv
<1>4. ASSUME NEW off, Told(off, handle', given')
      PROVE  Told(off, handle, given)'
  BY <1>1, <1>4 DEF Told, Place
<1>5. QED
  BY <1>1, <1>2, <1>3, <1>4 DEF StreamsInv

\* get_code reads the next code point.
LEMMA GetCodeStep == ASSUME StreamsInv, get_code PROVE StreamsInv'
<1>1. StreamsTypes /\ file \in Seq(Nat) /\ StreamOK(handle, file)
  BY DEF StreamsInv, StreamsTypes
<1>2. PICK g : /\ g = getch(handle) /\ access = "read" /\ handle' = g.stream /\ given' = Append(given, g.value)
               /\ UNCHANGED <<file, access, put, lost>> /\ strayed' = strayed
  BY DEF get_code, Given
<1>3. ~TooLong(getb(handle).value)
  BY <1>1, GetbFacts DEF get_code
<1>4. StreamOK(g.stream, file)
  BY <1>1, <1>2, <1>3, GetchFacts
<1>5. ASSUME NEW off, Laid(off, file, put), Told(off, handle, given)
      PROVE  Told(off, g.stream, Append(given, g.value))
  <2>1. PICK L, p : /\ L = Len(put) /\ L \in Nat /\ p = Place(Len(given)) /\ p \in 0..L
                    /\ ReadTo(handle, off[p], file)
    <3>1. Len(put) \in Nat /\ Len(given) \in Nat
      BY <1>1, <1>5, LenProperties DEF StreamsTypes, Told
    <3>2. Place(Len(given)) \in 0..Len(put)
      BY <3>1 DEF Place
    <3>3. QED
      BY <1>5, <3>1, <3>2 DEF Told
  <2>2. /\ off[p] \in Nat
        /\ p = L => off[p] = Len(file)
        /\ p < L => /\ put[p + 1] \in Encodable /\ Follows(put[p + 1], off[p], file)
                    /\ off[p + 1] = off[p] + Len(Bytes(put[p + 1]))
    <3>1. Len(put) \in Nat /\ p \in 0..Len(put)
      BY <2>1
    <3>2. file \in Seq(Nat) /\ Laid(off, file, put)
      BY <1>1, <1>5
    <3>3. /\ off[p] \in Nat
          /\ p = Len(put) => off[p] = Len(file)
          /\ p < Len(put) => /\ put[p + 1] \in Encodable /\ Follows(put[p + 1], off[p], file)
                             /\ off[p + 1] = off[p] + Len(Bytes(put[p + 1]))
      BY <3>1, <3>2, LaidFacts
    <3>4. QED
      BY <2>1, <3>3
  <2>3. CASE p < L
    <3>1. g.value = put[p + 1] /\ ReadTo(g.stream, off[p + 1], file)
      <4>1. PICK c, q : c = put[p + 1] /\ q = off[p]
        OBVIOUS
      <4>2. q \in Nat /\ c \in Encodable /\ Follows(c, q, file) /\ ReadTo(handle, q, file)
        BY <2>1, <2>2, <2>3, <4>1
      <4>3. getch(handle).value = c /\ ReadTo(getch(handle).stream, q + Len(Bytes(c)), file)
        BY <1>1, <4>2, GetchReads
      <4>4. q + Len(Bytes(c)) = off[p + 1]
        BY <2>2, <2>3, <4>1
      <4>5. QED
        BY <1>2, <4>1, <4>3, <4>4
    <3>2. QED
      BY <1>1, <1>5, <2>1, <2>3, <3>1, TellsNext
  <2>4. CASE ~(p < L)
    <3>1. p = L
      BY <2>1, <2>4
    <3>2. g.value = EOF /\ ReadTo(g.stream, off[p], file)
      <4>1. PICK q : q = off[p] /\ q = Len(file) /\ ReadTo(handle, q, file)
        BY <2>1, <2>2, <3>1
      <4>2. getch(handle).value = EOF /\ ReadTo(getch(handle).stream, q, file)
        BY <1>1, <4>1, GetchEnds
      <4>3. QED
        BY <1>2, <4>1, <4>2
    <3>3. QED
      BY <1>1, <1>5, <2>1, <2>4, <3>2, TellsNext
  <2>5. QED
    BY <2>3, <2>4
<1>6. strayed \in BOOLEAN
  BY <1>1 DEF StreamsTypes
<1>7. QED
  BY <1>1, <1>2, <1>4, <1>5, <1>6, ReadStep

\* get_byte reads the next byte, which is a code point unless the stream has strayed.
LEMMA GetByteStep == ASSUME StreamsInv, get_byte PROVE StreamsInv'
<1>1. StreamsTypes /\ file \in Seq(Nat) /\ StreamOK(handle, file) /\ strayed \in BOOLEAN
  BY DEF StreamsInv, StreamsTypes
<1>2. PICK g : /\ g = getb(handle) /\ access = "read" /\ handle' = g.stream /\ given' = Append(given, g.value)
               /\ UNCHANGED <<file, access, put, lost>> /\ strayed' = (strayed \/ g.value > 127)
  BY DEF get_byte, Given
<1>3. StreamOK(g.stream, file)
  BY <1>1, <1>2, GetbFacts
<1>4. ASSUME NEW off, Laid(off, file, put), Told(off, handle, given), ~(g.value > 127)
      PROVE  Told(off, g.stream, Append(given, g.value))
  <2>1. PICK L, p : /\ L = Len(put) /\ L \in Nat /\ p = Place(Len(given)) /\ p \in 0..L
                    /\ ReadTo(handle, off[p], file)
    <3>1. Len(put) \in Nat /\ Len(given) \in Nat
      BY <1>1, <1>4, LenProperties DEF StreamsTypes, Told
    <3>2. Place(Len(given)) \in 0..Len(put)
      BY <3>1 DEF Place
    <3>3. QED
      BY <1>4, <3>1, <3>2 DEF Told
  <2>2. /\ off[p] \in Nat
        /\ p = L => off[p] = Len(file)
        /\ p < L => /\ put[p + 1] \in Encodable /\ Follows(put[p + 1], off[p], file)
                    /\ off[p + 1] = off[p] + Len(Bytes(put[p + 1]))
    <3>1. Len(put) \in Nat /\ p \in 0..Len(put)
      BY <2>1
    <3>2. file \in Seq(Nat) /\ Laid(off, file, put)
      BY <1>1, <1>4
    <3>3. /\ off[p] \in Nat
          /\ p = Len(put) => off[p] = Len(file)
          /\ p < Len(put) => /\ put[p + 1] \in Encodable /\ Follows(put[p + 1], off[p], file)
                             /\ off[p + 1] = off[p] + Len(Bytes(put[p + 1]))
      BY <3>1, <3>2, LaidFacts
    <3>4. QED
      BY <2>1, <3>3
  <2>3. CASE p < L
    <3>1. PICK c, n : /\ c = put[p + 1] /\ n = Len(Bytes(c)) /\ c \in Encodable /\ n \in 1..4 /\ c \in Nat
                      /\ off[p] + n <= Len(file) /\ file[off[p] + 1] = Bytes(c)[1]
      <4>1. PICK c : c = put[p + 1] /\ c \in Encodable
        BY <2>2, <2>3
      <4>2. Len(Bytes(c)) \in 1..4 /\ c \in Nat
        BY <4>1, EncodableFacts
      <4>3. 1 \in 1..Len(Bytes(c))
        <5>1. PICK n : n = Len(Bytes(c)) /\ n \in 1..4
          BY <4>2
        <5>2. 1 \in 1..n
          BY <5>1
        <5>3. QED
          BY <5>1, <5>2
      <4>4. off[p] + Len(Bytes(c)) <= Len(file) /\ file[off[p] + 1] = Bytes(c)[1]
        BY <2>2, <2>3, <4>1, <4>3 DEF Follows
      <4>5. QED
        BY <4>1, <4>2, <4>4
    <3>2. PICK q, l : /\ q = off[p] /\ l = Len(file) /\ q \in Nat /\ l \in Nat /\ q + n <= l
                      /\ ReadTo(handle, q, file)
      <4>1. Len(file) \in Nat
        BY <1>1, LenProperties
      <4>2. QED
        BY <2>1, <2>2, <3>1, <4>1
    <3>3. g.value = Bytes(c)[1] /\ ReadTo(g.stream, off[p] + 1, file)
      <4>1. q < l
        BY <3>1, <3>2
      <4>2. q < Len(file)
        BY <3>2, <4>1
      <4>3. getb(handle).value = file[q + 1] /\ ReadTo(getb(handle).stream, q + 1, file)
        BY <1>1, <3>2, <4>2, GetbReads
      <4>4. QED
        BY <1>2, <3>1, <3>2, <4>3
    <3>4. c <= 127
      <4>1. ~(c > 127)
        BY <1>4, <3>1, <3>3, EncodableFacts
      <4>2. QED
        BY <3>1, <4>1
    <3>5. Bytes(c) = <<c>>
      BY <3>1, <3>4, EncodableFacts
    <3>6. n = 1 /\ Bytes(c)[1] = c
      BY <3>1, <3>5
    <3>7. g.value = put[p + 1] /\ ReadTo(g.stream, off[p + 1], file)
      BY <2>2, <2>3, <3>1, <3>3, <3>6
    <3>8. QED
      BY <1>1, <1>4, <2>1, <2>3, <3>7, TellsNext
  <2>4. CASE ~(p < L)
    <3>1. p = L
      BY <2>1, <2>4
    <3>2. g.value = EOF /\ ReadTo(g.stream, off[p], file)
      <4>1. PICK q : q = off[p] /\ q = Len(file) /\ q \in Nat /\ ReadTo(handle, q, file)
        BY <2>1, <2>2, <3>1
      <4>2. getb(handle).value = EOF /\ ReadTo(getb(handle).stream, q, file)
        BY <1>1, <4>1, GetbReads
      <4>3. QED
        BY <1>2, <4>1, <4>2
    <3>3. QED
      BY <1>1, <1>4, <2>1, <2>4, <3>2, TellsNext
  <2>5. QED
    BY <2>3, <2>4
<1>5. strayed' \in BOOLEAN /\ (~strayed' => ~strayed /\ ~(g.value > 127))
  BY <1>2
<1>6. QED
  BY <1>1, <1>2, <1>3, <1>4, <1>5, ReadStep

\* Peeking fills the buffer, and reads nothing.
LEMMA PeekStep == ASSUME StreamsInv, Peek PROVE StreamsInv'
<1>1. StreamsTypes /\ file \in Seq(Nat) /\ StreamOK(handle, file) /\ strayed \in BOOLEAN
  BY DEF StreamsInv, StreamsTypes
<1>2. /\ access = "read" /\ handle' = peekb(handle).stream
      /\ UNCHANGED <<file, access, put, lost, given, strayed>>
  BY DEF Peek
<1>3. StreamOK(handle', file)
  BY <1>1, <1>2, GetbFacts
<1>4. ASSUME NEW off, Laid(off, file, put), Told(off, handle, given)
      PROVE  Told(off, handle', given')
  <2>1. PICK p : p = Place(Len(given)) /\ p \in 0..Len(put) /\ ReadTo(handle, off[p], file) /\ Len(put) \in Nat
    <3>1. Len(put) \in Nat /\ Len(given) \in Nat
      BY <1>1, <1>4, LenProperties DEF StreamsTypes, Told
    <3>2. Place(Len(given)) \in 0..Len(put)
      BY <3>1 DEF Place
    <3>3. QED
      BY <1>4, <3>1, <3>2 DEF Told
  <2>2. off[p] \in Nat
    <3>1. off \in [0..Len(put) -> Nat]
      BY <1>4 DEF Laid
    <3>2. QED
      BY <2>1, <3>1
  <2>3. ReadTo(handle', off[p], file)
    BY <1>1, <1>2, <2>1, <2>2, GetbReads
  <2>4. QED
    BY <1>2, <1>4, <2>1, <2>3 DEF Told
<1>5. QED
  BY <1>1, <1>2, <1>3, <1>4, ReadStep

\* set_stream_position: the buffer is kept, so that a stream that is not at its start,
\* with nothing left in the buffer, has strayed.
LEMMA PositionStep == ASSUME StreamsInv, NEW i \in {0, Len(file)}, set_stream_position(i) PROVE StreamsInv'
<1>1. /\ StreamsTypes /\ file \in Seq(Nat) /\ StreamOK(handle, file) /\ strayed \in BOOLEAN /\ Len(file) \in Nat
      /\ handle \in StreamType
  BY LenProperties DEF StreamsInv, StreamsTypes, StreamOK
<1>2. /\ handle' = [handle EXCEPT !.at = i] /\ UNCHANGED <<file, access, put, lost>>
      /\ access = "read" => given' = <<>> /\ strayed' = (strayed \/ i # 0 \/ handle.ptr # handle.filled)
      /\ access # "read" => UNCHANGED <<given, strayed>>
  BY DEF set_stream_position
<1>3. i \in Nat /\ i <= Len(file)
  BY <1>1
<1>4. /\ handle' \in StreamType /\ handle'.at = i /\ handle'.ptr = handle.ptr /\ handle'.filled = handle.filled
  BY <1>1, <1>2, <1>3 DEF StreamType
<1>5. StreamOK(handle', file)
  BY <1>1, <1>3, <1>4 DEF StreamOK
<1>6. strayed' \in BOOLEAN
  BY <1>1, <1>2
<1>7. ASSUME NEW off, Laid(off, file, put), access = "read", ~strayed'
      PROVE  Told(off, handle', given')
  <2>1. i = 0 /\ handle.ptr = handle.filled /\ given' = <<>>
    BY <1>2, <1>7
  <2>2. off[0] = 0
    BY <1>7 DEF Laid
  <2>3. ReadTo(handle', 0, file)
    <3>1. handle'.ptr = handle'.filled /\ handle'.at = 0 /\ handle'.ptr \in Nat
      BY <1>1, <1>4, <2>1 DEF StreamType
    <3>2. handle'.at - (handle'.filled - handle'.ptr) = 0 /\ handle'.ptr + 1..handle'.filled = {}
      BY <3>1
    <3>3. QED
      BY <1>5, <3>2 DEF ReadTo
  <2>4. PICK gs : gs = <<>>
    OBVIOUS
  <2>5. Place(0) = 0
    <3>1. Len(put) \in Nat
      BY <1>1, LenProperties DEF StreamsTypes
    <3>2. QED
      BY <3>1 DEF Place
  <2>6. Told(off, handle', gs)
    <3>1. gs \in Seq(Int) /\ Len(gs) = 0
      BY <2>4
    <3>2. QED
      BY <2>2, <2>3, <2>5, <3>1 DEF Told
  <2>7. QED
    BY <2>1, <2>4, <2>6
<1>8. QED
  BY <1>2, <1>5, <1>6, <1>7, ReadStep


\* File f2 is f, and bytes after it.
Extends(f2, f, bytes) ==
  /\ f2 \in Seq(Nat) /\ Len(f2) = Len(f) + Len(bytes)
  /\ \A i \in 1..Len(f) : f2[i] = f[i]
  /\ \A j \in 1..Len(bytes) : f2[Len(f) + j] = bytes[j]

\* A code point in a file is still there when the file is extended.
LEMMA FollowsStill ==
  ASSUME NEW f, Len(f) \in Nat, NEW f2, NEW bytes, Len(bytes) \in Nat, Extends(f2, f, bytes),
         NEW c, Len(Bytes(c)) \in Nat, NEW p \in Nat, Follows(c, p, f)
  PROVE  Follows(c, p, f2)
<1>1. PICK l, m, k : /\ l = Len(f) /\ m = Len(Bytes(c)) /\ k = Len(f2)
                     /\ l \in Nat /\ m \in Nat /\ k \in Nat /\ p + m <= l /\ l <= k
  <2>1. PICK l, m, k, n : l = Len(f) /\ m = Len(Bytes(c)) /\ k = Len(f2) /\ n = Len(bytes)
    OBVIOUS
  <2>2. l \in Nat /\ m \in Nat /\ n \in Nat /\ k = l + n /\ p + m <= l
    BY <2>1 DEF Follows, Extends
  <2>3. k \in Nat /\ l <= k
    BY <2>2
  <2>4. QED
    BY <2>1, <2>2, <2>3
<1>2. ASSUME NEW j \in 1..m
      PROVE  f2[p + j] = Bytes(c)[j]
  <2>1. p + j \in 1..l
    BY <1>1
  <2>2. f2[p + j] = f[p + j] /\ f[p + j] = Bytes(c)[j]
    BY <1>1, <2>1 DEF Extends, Follows
  <2>3. QED
    BY <2>2
<1>3. p + m <= k
  BY <1>1
<1>4. QED
  BY <1>1, <1>2, <1>3 DEF Follows

\* The code points of the file are laid out, and the one it was extended by.
LEMMA LaidExtends ==
  ASSUME NEW f, Len(f) \in Nat, NEW cs \in Seq(Nat), NEW off, Laid(off, f, cs),
         NEW c \in Encodable, NEW f2, Extends(f2, f, Bytes(c))
  PROVE  \E off2 : Laid(off2, f2, Append(cs, c))
<1>1. PICK n, m, l : n = Len(cs) /\ n \in Nat /\ m = Len(Bytes(c)) /\ m \in 1..4 /\ l = Len(f) /\ l \in Nat
  BY EncodableFacts, LenProperties
<1>2. PICK ds : ds = Append(cs, c)
  OBVIOUS
<1>3. /\ Len(ds) = n + 1 /\ ds[n + 1] = c
      /\ \A i \in 1..n : ds[i] = cs[i]
  BY <1>1, <1>2, AppendProperties, EncodableFacts
<1>4. PICK off2 : off2 = [i \in 0..n + 1 |-> IF i <= n THEN off[i] ELSE l + m]
  OBVIOUS
<1>5. off \in [0..n -> Nat] /\ off[0] = 0 /\ off[n] = l
  BY <1>1 DEF Laid
<1>6. off2 \in [0..n + 1 -> Nat] /\ off2[0] = 0 /\ off2[n + 1] = l + m /\ \A i \in 0..n : off2[i] = off[i]
  BY <1>1, <1>4, <1>5
<1>7. Len(f2) = l + m
  BY <1>1 DEF Extends
<1>8. ASSUME NEW i \in 1..n + 1
      PROVE  /\ ds[i] \in Encodable /\ off2[i] = off2[i - 1] + Len(Bytes(ds[i]))
             /\ Follows(ds[i], off2[i - 1], f2)
  <2>1. CASE i = n + 1
    <3>1. ds[i] = c /\ off2[i] = l + m /\ i - 1 = n /\ n \in 0..n
      BY <1>1, <1>3, <1>6, <2>1
    <3>2. off2[i - 1] = l
      BY <1>5, <1>6, <3>1
    <3>3. Follows(c, l, f2)
      BY <1>1, <1>7 DEF Follows, Extends
    <3>4. QED
      BY <1>1, <3>1, <3>2, <3>3
  <2>2. CASE i # n + 1
    <3>1. PICK k : k = i - 1 /\ k \in 0..n /\ i \in 1..n /\ i \in 0..n
      BY <1>1, <2>2
    <3>2. ds[i] = cs[i] /\ off2[i] = off[i] /\ off2[k] = off[k] /\ off[k] \in Nat
      BY <1>3, <1>5, <1>6, <3>1
    <3>3. cs[i] \in Encodable /\ off[i] = off[k] + Len(Bytes(cs[i])) /\ Follows(cs[i], off[k], f)
      BY <1>1, <3>1 DEF Laid
    <3>4. Follows(cs[i], off[k], f2)
      <4>1. Len(Bytes(cs[i])) \in Nat /\ Len(Bytes(c)) \in Nat
        BY <1>1, <3>3, EncodableFacts
      <4>2. QED
        BY <3>2, <3>3, <4>1, FollowsStill
    <3>5. QED
      BY <3>1, <3>2, <3>3, <3>4
  <2>3. QED
    BY <2>1, <2>2
<1>9. Laid(off2, f2, ds)
  BY <1>3, <1>6, <1>7, <1>8 DEF Laid
<1>10. QED
  BY <1>2, <1>9

\* What is put for a code point: its bytes, if it is whole.
PutOK(c, bytes, whole) ==
  /\ c \in Codes /\ bytes \in Seq(Nat) /\ Len(bytes) \in 1..4
  /\ whole => bytes = Bytes(c) /\ c \in Encodable

\* The code points that are put.
LEMMA CodesAre ==
  ASSUME NEW c \in Codes
  PROVE  /\ c \in CodePoints /\ c \in Nat /\ Bytes(c) \in Seq(Nat) /\ Len(Bytes(c)) \in 1..4
         /\ Bytes(c)[1] \in Nat
         /\ c # 2048 => c \in Encodable
         /\ c <= 127 => c \in Encodable /\ Bytes(c) = <<c>>
<1>1. c \in CodePoints /\ c \in Nat
  BY SMT, StreamsAssumption DEF CodePoints
<1>2. Bytes(c) \in Seq(Nat) /\ Len(Bytes(c)) \in 1..4 /\ (c <= 127 => Bytes(c) = <<c>>)
  BY <1>1, BytesFacts
<1>3. c # 2048 => c \in Encodable
  BY <1>1 DEF Encodable
<1>4. c <= 127 => c \in Encodable
  BY SMT, <1>1 DEF Encodable
<1>5. Bytes(c)[1] \in Nat
  <2>1. PICK n, bs : n = Len(Bytes(c)) /\ n \in 1..4 /\ bs = Bytes(c) /\ bs \in Seq(Nat) /\ n = Len(bs)
    BY <1>2
  <2>2. 1 \in 1..n
    BY <2>1
  <2>3. bs[1] \in Nat
    BY <2>1, <2>2, ElementOfSeq
  <2>4. QED
    BY <2>1, <2>3
<1>6. QED
  BY <1>1, <1>2, <1>3, <1>4, <1>5

\* One byte is bytes to put.
LEMMA OneByte == ASSUME NEW b \in Nat PROVE <<b>> \in Seq(Nat) /\ Len(<<b>>) \in 1..4
OBVIOUS

\* What put_code, put_char and put_byte put for a code point.
LEMMA CodesPutOK ==
  ASSUME NEW c \in Codes, NEW whole \in BOOLEAN
  PROVE  /\ (whole => c # 2048) => PutOK(c, Bytes(c), whole)
         /\ (whole => c <= 127) => PutOK(c, <<Bytes(c)[1]>>, whole) /\ PutOK(c, <<c>>, whole)
<1>1. (whole => c # 2048) => PutOK(c, Bytes(c), whole)
  BY CodesAre DEF PutOK
<1>2. Bytes(c)[1] \in Nat /\ c \in Nat
  BY CodesAre
<1>3. /\ <<Bytes(c)[1]>> \in Seq(Nat) /\ Len(<<Bytes(c)[1]>>) \in 1..4
      /\ <<c>> \in Seq(Nat) /\ Len(<<c>>) \in 1..4
  BY <1>2, OneByte
<1>4. c <= 127 => c \in Encodable /\ Bytes(c) = <<c>> /\ Bytes(c)[1] = c
  BY CodesAre
<1>5. QED
  BY <1>1, <1>3, <1>4 DEF PutOK

\* What Write makes of the file and the stream.
LEMMA WriteFacts ==
  ASSUME file \in Seq(Nat), StreamOK(handle, file),
         NEW bytes \in Seq(Nat), Len(bytes) \in 1..4, Write(bytes)
  PROVE  /\ file' \in Seq(Nat) /\ StreamOK(handle', file')
         /\ (access = "write" => handle.at = Len(file)) => Extends(file', file, bytes)
<1>1. PICK L, k, B : L = Len(file) /\ L \in Nat /\ k = Len(bytes) /\ k \in 1..4 /\ B = BufferSize
  BY LenProperties
<1>2. PICK at : at = (IF access = "write" THEN handle.at ELSE Len(file)) /\ at \in Nat /\ at <= L
  <2>1. handle.at \in Nat /\ handle.at <= L
    BY <1>1 DEF StreamOK, StreamType
  <2>2. QED
    BY <1>1, <2>1
<1>3. PICK n, m : n = at + k /\ m = (IF n > L THEN n ELSE L) /\ n \in Nat /\ m \in Nat /\ n <= m /\ L <= m
  <2>1. at \in Nat /\ k \in Nat /\ L \in Nat
    BY <1>1, <1>2
  <2>2. PICK n : n = at + k /\ n \in Nat
    BY <2>1
  <2>3. QED
    BY <2>1, <2>2
<1>4. /\ file' = [i \in 1..m |-> IF i > at /\ i <= n THEN bytes[i - at] ELSE file[i]]
      /\ handle' = [handle EXCEPT !.at = n]
  BY <1>1, <1>2, <1>3 DEF Write
<1>5. \A i \in 1..L : file[i] \in Nat
  BY <1>1, ElementOfSeq
<1>6. \A j \in 1..k : bytes[j] \in Nat
  BY <1>1, ElementOfSeq
<1>7. \A i \in 1..m : file'[i] \in Nat
  <2>1. ASSUME NEW i \in 1..m
        PROVE  file'[i] \in Nat
    <3>1. CASE i > at /\ i <= n
      <4>1. i - at \in 1..k
        <5>1. at \in Nat /\ k \in Nat /\ n = at + k /\ i \in Nat
          BY <1>1, <1>2, <1>3, <2>1
        <5>2. QED
          BY <3>1, <5>1
      <4>2. QED
        BY <1>4, <1>6, <3>1, <4>1
    <3>2. CASE ~(i > at /\ i <= n)
      <4>1. i \in 1..L
        BY <1>1, <1>2, <1>3, <3>2
      <4>2. QED
        BY <1>4, <1>5, <3>2, <4>1
    <3>3. QED
      BY <3>1, <3>2
  <2>2. QED
    BY <2>1
<1>8. file' \in Seq(Nat) /\ Len(file') = m
  <2>1. file' \in [1..m -> Nat]
    BY <1>4, <1>7
  <2>2. file' \in Seq(Nat)
    BY <1>3, <2>1, SeqDef
  <2>3. DOMAIN file' = 1..m
    BY <2>1
  <2>4. QED
    BY <1>3, <2>2, <2>3, LenProperties
<1>9. StreamOK(handle', file')
  <2>1. handle \in StreamType /\ handle.ptr <= handle.filled
    BY DEF StreamOK
  <2>2. /\ handle' \in StreamType /\ handle'.ptr = handle.ptr /\ handle'.filled = handle.filled
        /\ handle'.at = n
    BY <1>3, <1>4, <2>1 DEF StreamType
  <2>3. QED
    BY <1>3, <1>8, <2>1, <2>2 DEF StreamOK
<1>10. ASSUME access = "write" => handle.at = Len(file)
       PROVE  Extends(file', file, bytes)
  <2>1. at = L /\ n = L + k /\ m = L + k
    <3>1. at = L
      BY <1>1, <1>2, <1>10
    <3>2. L + k > L /\ n = L + k
      BY <1>1, <1>3, <3>1
    <3>3. QED
      BY <1>3, <3>1, <3>2
  <2>2. \A i \in 1..L : file'[i] = file[i]
    <3>1. \A i \in 1..L : i \in 1..m /\ ~(i > at)
      BY <1>1, <2>1
    <3>2. QED
      BY <1>4, <3>1
  <2>3. \A j \in 1..k : file'[L + j] = bytes[j]
    <3>1. \A j \in 1..k : /\ L + j \in 1..m /\ L + j > at /\ L + j <= n /\ (L + j) - at = j
      BY <1>1, <2>1
    <3>2. QED
      BY <1>4, <3>1
  <2>4. QED
    BY <1>1, <1>8, <2>1, <2>2, <2>3 DEF Extends
<1>11. QED
  BY <1>8, <1>9, <1>10

\* What putch leaves out of a code point it puts in a file is told by lost.
LEMMA PutStep ==
  ASSUME StreamsInv, NEW c, NEW bytes, NEW whole \in BOOLEAN, PutOK(c, bytes, whole), Put(c, bytes, whole)
  PROVE  StreamsInv'
<1>1. /\ StreamsTypes /\ file \in Seq(Nat) /\ StreamOK(handle, file) /\ put \in Seq(Codes)
      /\ access \in {"closed", "read", "write", "append", "console"} /\ (access # "read" => given = <<>> /\ ~strayed)
      /\ lost \in BOOLEAN /\ strayed \in BOOLEAN
  BY DEF StreamsInv, StreamsTypes
<1>2. PICK n : n = Len(bytes) /\ n \in 1..4 /\ bytes \in Seq(Nat) /\ c \in Codes
  BY DEF PutOK
<1>3. bytes[1] \in Nat
  <2>1. 1 \in 1..Len(bytes)
    BY <1>2
  <2>2. QED
    BY <1>2, <2>1, ElementOfSeq
<1>4. CASE PutToInput(bytes[1])
  <2>1. /\ access = "read" /\ UNCHANGED <<file, access, put, lost>> /\ strayed'
        /\ handle' = [handle EXCEPT !.buffer[handle.filled + 1] = bytes[1], !.filled = @ + 1]
        /\ handle.filled < BufferSize /\ strayed' \in BOOLEAN
    BY <1>4 DEF PutToInput
  <2>2. StreamOK(handle', file)
    <3>1. BufferSize \in Nat
      BY StreamsAssumption
    <3>2. /\ handle \in StreamType /\ handle.ptr \in Nat /\ handle.ptr <= handle.filled
          /\ handle.filled \in 0..BufferSize /\ handle.at <= Len(file)
      BY <1>1 DEF StreamOK, StreamType
    <3>3. handle.filled + 1 \in 0..BufferSize /\ handle.ptr <= handle.filled + 1
      BY <2>1, <3>1, <3>2
    <3>4. /\ handle' \in StreamType /\ handle'.ptr = handle.ptr /\ handle'.at = handle.at
          /\ handle'.filled = handle.filled + 1
      BY <1>3, <2>1, <3>2, <3>3 DEF StreamType
    <3>5. QED
      BY <3>2, <3>3, <3>4 DEF StreamOK
  <2>3. QED
    BY <2>1, <2>2, ReadStep
<1>5. CASE ~PutToInput(bytes[1])
  <2>1. PICK w : /\ w = ToFile(bytes) /\ Writing /\ ~lost /\ Write(w) /\ put' = Append(put, c)
                 /\ lost' = (lost \/ ~whole \/ Len(w) < Len(bytes) \/ (access = "write" /\ handle.at # Len(file)))
                 /\ access' = access /\ given' = given /\ strayed' = strayed
    BY <1>5 DEF Put
  <2>2. access \in {"write", "append", "console"}
    BY <2>1 DEF Writing
  <2>3. /\ w \in Seq(Nat) /\ Len(w) \in 1..4
        /\ w = bytes \/ Len(w) = 1
    <3>1. PICK one : one = <<bytes[1]>>
      OBVIOUS
    <3>2. one \in Seq(Nat) /\ Len(one) = 1
      BY <1>3, <3>1
    <3>3. w = bytes \/ w = one
      BY <2>1, <3>1 DEF ToFile
    <3>4. Len(one) \in 1..4
      BY <3>2
    <3>5. QED
      BY <1>2, <3>2, <3>3, <3>4
  <2>4. /\ file' \in Seq(Nat) /\ StreamOK(handle', file')
        /\ (access = "write" => handle.at = Len(file)) => Extends(file', file, w)
    BY <1>1, <2>1, <2>3, WriteFacts
  <2>5. put' \in Seq(Codes)
    BY <1>1, <1>2, <2>1, AppendProperties
  <2>6. StreamsTypes'
    BY <1>1, <2>1, <2>2, <2>4, <2>5 DEF StreamsTypes, StreamOK
  <2>7. ASSUME ~lost'
        PROVE  \E off : Laid(off, file', put')
    <3>1. whole /\ ~(Len(w) < Len(bytes)) /\ (access = "write" => handle.at = Len(file))
      BY <1>1, <2>1, <2>7
    <3>2. bytes = Bytes(c) /\ c \in Encodable
      BY <3>1 DEF PutOK
    <3>3. w = Bytes(c)
      <4>1. CASE w = bytes
        BY <3>2, <4>1
      <4>2. CASE Len(w) = 1
        <5>1. n = 1
          BY <1>2, <3>1, <4>2
        <5>2. w = <<bytes[1]>> \/ w = bytes
          BY <2>1 DEF ToFile
        <5>3. bytes = <<bytes[1]>>
          <6>1. PICK one : one = <<bytes[1]>>
            OBVIOUS
          <6>2. one \in Seq(Nat) /\ Len(one) = 1 /\ one[1] = bytes[1]
            BY <1>3, <6>1
          <6>3. Len(bytes) = Len(one) /\ \A i \in 1..Len(bytes) : bytes[i] = one[i]
            BY <1>2, <5>1, <6>2
          <6>4. QED
            BY <1>2, <6>1, <6>2, <6>3, SeqEqual
        <5>4. QED
          BY <3>2, <5>2, <5>3
      <4>3. QED
        BY <2>3, <4>1, <4>2
    <3>4. Extends(file', file, Bytes(c))
      BY <2>4, <3>1, <3>3
    <3>5. PICK off : Laid(off, file, put)
      BY <2>1 DEF StreamsInv
    <3>6. Len(file) \in Nat /\ put \in Seq(Nat)
      <4>1. Codes \subseteq Nat
        BY CodesAre
      <4>2. QED
        BY <1>1, <4>1, LenProperties, SeqMonotonic
    <3>7. \E off2 : Laid(off2, file', Append(put, c))
      BY <3>2, <3>4, <3>5, <3>6, LaidExtends
    <3>8. QED
      BY <2>1, <3>7
  <2>8. access' # "read"
    BY <2>1, <2>2
  <2>9. QED
    BY <2>6, <2>7, <2>8 DEF StreamsInv
<1>6. QED
  BY <1>4, <1>5

\* Opening and closing.
LEMMA OpenStep == ASSUME StreamsInv, OpenWrite \/ OpenAppend \/ OpenRead \/ Close PROVE StreamsInv'
<1>1. /\ StreamsTypes /\ file \in Seq(Nat) /\ StreamOK(handle, file) /\ put \in Seq(Codes)
      /\ access \in {"closed", "read", "write", "append", "console"} /\ (access # "read" => given = <<>> /\ ~strayed)
      /\ lost \in BOOLEAN /\ strayed \in BOOLEAN
      /\ Len(file) \in Nat
  BY LenProperties DEF StreamsInv, StreamsTypes
<1>2. CASE OpenWrite
  <2>1. PICK f : f = <<>>
    OBVIOUS
  <2>2. /\ access = "closed" /\ access' \in {"write", "console"} /\ file' = f /\ handle' = NewStream(0)
        /\ put' = f /\ lost' = FALSE /\ given' = given /\ strayed' = strayed
    BY <1>2, <2>1 DEF OpenWrite
  <2>3. f \in Seq(Nat) /\ f \in Seq(Codes) /\ Len(f) = 0
    BY <2>1
  <2>4. StreamOK(handle', f)
    BY <2>2, <2>3, NewStreamFacts
  <2>5. StreamsTypes'
    BY <1>1, <2>2, <2>3, <2>4 DEF StreamsTypes, StreamOK
  <2>6. PICK off : off = [i \in 0..0 |-> 0]
    OBVIOUS
  <2>7. Laid(off, f, f)
    BY <2>3, <2>6 DEF Laid
  <2>8. access' # "read"
    BY <2>2
  <2>9. QED
    BY <2>2, <2>5, <2>7, <2>8 DEF StreamsInv
<1>3. CASE OpenAppend
  <2>1. access' = "append" /\ handle' = NewStream(Len(file)) /\ UNCHANGED <<file, put, lost, given, strayed>>
        /\ given = <<>> /\ ~strayed
    BY <1>1, <1>3 DEF OpenAppend
  <2>2. StreamOK(handle', file)
    BY <1>1, <2>1, NewStreamFacts
  <2>3. StreamsTypes'
    BY <1>1, <2>1, <2>2 DEF StreamsTypes, StreamOK
  <2>4. ~lost => \E off : Laid(off, file, put)
    BY DEF StreamsInv
  <2>5. QED
    BY <2>1, <2>3, <2>4 DEF StreamsInv
<1>4. CASE OpenRead
  <2>1. access' = "read" /\ handle' = NewStream(0) /\ UNCHANGED <<file, put, lost, given, strayed>>
        /\ given = <<>> /\ ~strayed
    BY <1>1, <1>4 DEF OpenRead
  <2>2. StreamOK(handle', file) /\ ReadTo(handle', 0, file)
    BY <1>1, <2>1, NewStreamFacts
  <2>3. StreamsTypes'
    BY <1>1, <2>1, <2>2 DEF StreamsTypes, StreamOK
  <2>4. ASSUME NEW off, Laid(off, file, put)
        PROVE  Told(off, handle', given)
    <3>1. off[0] = 0
      BY <2>4 DEF Laid
    <3>2. PICK gs : gs = <<>>
      OBVIOUS
    <3>3. gs \in Seq(Int) /\ Len(gs) = 0
      BY <3>2
    <3>4. Place(0) = 0
      <4>1. Len(put) \in Nat
        BY <1>1, LenProperties
      <4>2. QED
        BY <4>1 DEF Place
    <3>5. Told(off, handle', gs)
      BY <2>2, <3>1, <3>3, <3>4 DEF Told
    <3>6. QED
      BY <2>1, <3>2, <3>5
  <2>5. ~lost => \E off : Laid(off, file, put)
    BY DEF StreamsInv
  <2>6. ASSUME NEW off, Told(off, handle', given)
        PROVE  Told(off, handle, given)'
    BY <2>1, <2>6 DEF Told, Place
  <2>7. QED
    BY <2>1, <2>3, <2>4, <2>5, <2>6 DEF StreamsInv
<1>5. CASE Close
  <2>1. access' = "closed" /\ handle' = NewStream(0) /\ UNCHANGED <<file, put, lost>>
        /\ given' = <<>> /\ strayed' = FALSE
    BY <1>5 DEF Close
  <2>2. StreamOK(handle', file)
    BY <1>1, <2>1, NewStreamFacts
  <2>3. StreamsTypes'
    BY <1>1, <2>1, <2>2 DEF StreamsTypes, StreamOK
  <2>4. ~lost => \E off : Laid(off, file, put)
    BY DEF StreamsInv
  <2>5. QED
    BY <2>1, <2>3, <2>4 DEF StreamsInv
<1>6. QED
  BY <1>2, <1>3, <1>4, <1>5

\* What code points are in a file, and how far it has been read, is an invariant of
\* every step of a stream (stream.c).
THEOREM StreamsKeepInv == StreamsSpec => []StreamsInv
<1>1. StreamsInit => StreamsInv
  BY StreamsStart
<1>2. StreamsInv /\ [StreamsNext]_streamVars => StreamsInv'
  <2> SUFFICES ASSUME StreamsInv, [StreamsNext]_streamVars PROVE StreamsInv'
    OBVIOUS
  <2>1. CASE UNCHANGED streamVars
    <3>1. /\ file' = file /\ access' = access /\ handle' = handle /\ put' = put /\ lost' = lost
          /\ given' = given /\ strayed' = strayed
      BY <2>1 DEF streamVars
    <3>2. StreamsTypes' = StreamsTypes
      BY <3>1 DEF StreamsTypes, StreamOK
    <3>3. ASSUME NEW off, Told(off, handle, given)
          PROVE  Told(off, handle, given)'
      BY <3>1, <3>3 DEF Told, Place
    <3>4. QED
      BY <3>1, <3>2, <3>3 DEF StreamsInv
  <2>2. CASE OpenWrite \/ OpenAppend \/ OpenRead \/ Close
    BY <2>2, OpenStep
  <2>3. CASE \E c \in Codes : put_code(c) \/ put_char(c)
    <3>1. PICK c \in Codes : put_code(c) \/ put_char(c)
      BY <2>3
    <3>2. CASE put_code(c)
      <4> DEFINE whole == c # 2048
      <4>1. whole \in BOOLEAN /\ (whole => c # 2048)
        BY SMT, <3>1, CodesAre
      <4>2. Put(c, Bytes(c), whole)
        BY <3>2 DEF put_code
      <4> HIDE DEF whole
      <4>3. PutOK(c, Bytes(c), whole)
        BY <3>1, <4>1, CodesPutOK
      <4>4. QED
        BY <4>1, <4>2, <4>3, PutStep
    <3>3. CASE put_char(c)
      <4> DEFINE whole == c <= 127
      <4>1. whole \in BOOLEAN /\ (whole => c <= 127)
        BY SMT, <3>1, CodesAre
      <4>2. Put(c, <<Bytes(c)[1]>>, whole)
        BY <3>3 DEF put_char
      <4> HIDE DEF whole
      <4>3. PutOK(c, <<Bytes(c)[1]>>, whole)
        BY <3>1, <4>1, CodesPutOK
      <4>4. QED
        BY <4>1, <4>2, <4>3, PutStep
    <3>4. QED
      BY <3>1, <3>2, <3>3
  <2>4. CASE \E b \in Codes \cap 0..255 : put_byte(b)
    <3>1. PICK b \in Codes : put_byte(b)
      BY <2>4
    <3>2. QED
      <4> DEFINE whole == b <= 127
      <4>1. whole \in BOOLEAN /\ (whole => b <= 127)
        BY SMT, <3>1, CodesAre
      <4>2. Put(b, <<b>>, whole)
        BY <3>1 DEF put_byte
      <4> HIDE DEF whole
      <4>3. PutOK(b, <<b>>, whole)
        BY <3>1, <4>1, CodesPutOK
      <4>4. QED
        BY <4>1, <4>2, <4>3, PutStep
  <2>5. CASE get_code
    BY <2>5, GetCodeStep
  <2>6. CASE get_byte
    BY <2>6, GetByteStep
  <2>7. CASE Peek
    BY <2>7, PeekStep
  <2>8. CASE \E i \in {0, Len(file)} : set_stream_position(i)
    BY <2>8, PositionStep
  <2>9. QED
    BY <2>1, <2>2, <2>3, <2>4, <2>5, <2>6, <2>7, <2>8 DEF StreamsNext
<1>3. QED
  BY <1>1, <1>2, PTL DEF StreamsSpec

\* What is peeked at is what would be read next, wherever peekch takes the right bytes
\* (peekch, _getch).
THEOREM PeeksAreNext == StreamsSpec => []PeekIsNext
<1>1. StreamsInv => PeekIsNext
  <2> SUFFICES ASSUME StreamsInv PROVE PeekIsNext
    OBVIOUS
  <2>1. file \in Seq(Nat) /\ StreamOK(handle, file)
    BY DEF StreamsInv, StreamsTypes
  <2>2. PICK s, b : s = peekb(handle).stream /\ b = peekb(handle).value
    OBVIOUS
  <2>3. (b > 127 => s.ptr = 0 /\ ~TooLong(b) /\ Following(b) < s.filled)
          => peekch(handle).value = getch(handle).value
    BY <2>1, <2>2, PeekIsGet
  <2>4. QED
    BY <2>2, <2>3 DEF PeekIsNext
<1>2. QED
  BY <1>1, StreamsKeepInv, PTL

\* The bytes of what was read, added up.
Sums(read, gs) ==
  /\ read[0] = 0
  /\ \A i \in 1..Len(gs) : read[i] = read[i - 1] + (IF gs[i] = EOF THEN 0 ELSE Len(Bytes(gs[i])))

\* ... is where the stream is in the file.
LEMMA SumsArePlaces ==
  ASSUME StreamsTypes, NEW off, Laid(off, file, put), Told(off, handle, given), NEW read, Sums(read, given)
  PROVE  read[Len(given)] = off[Place(Len(given))]
<1>1. PICK g, L : g = Len(given) /\ g \in Nat /\ L = Len(put) /\ L \in Nat /\ file \in Seq(Nat)
  BY LenProperties DEF StreamsTypes, Told
<1> DEFINE P == {i \in 0..g : read[i] = off[Place(i)]}
<1>2. 0 \in P
  <2>1. Place(0) = 0 /\ off[0] = 0 /\ read[0] = 0
    BY <1>1 DEF Place, Laid, Sums
  <2>2. QED
    BY <1>1, <2>1
<1>3. ASSUME NEW k \in 0..g - 1, k \in P
      PROVE  k + 1 \in P
  <2>1. k + 1 \in 1..g /\ (k + 1) - 1 = k /\ k + 1 \in 0..g /\ k \in 0..g /\ k \in Nat
    BY <1>1
  <2>2. /\ read[k + 1] = read[k] + (IF given[k + 1] = EOF THEN 0 ELSE Len(Bytes(given[k + 1])))
        /\ given[k + 1] = IF k + 1 <= L THEN put[k + 1] ELSE EOF
    BY <1>1, <2>1 DEF Sums, Told
  <2>3. CASE k + 1 <= L
    <3>1. k \in 0..L /\ k < L /\ Place(k) = k /\ Place(k + 1) = k + 1
      BY <1>1, <2>1, <2>3 DEF Place
    <3>2. put[k + 1] \in Encodable /\ off[k + 1] = off[k] + Len(Bytes(put[k + 1]))
      <4>1. k \in 0..Len(put) /\ k < Len(put) /\ Len(put) \in Nat /\ file \in Seq(Nat)
        BY <1>1, <3>1
      <4>2. QED
        BY <4>1, LaidFacts
    <3>3. given[k + 1] = put[k + 1] /\ given[k + 1] # EOF
      <4>1. put[k + 1] \in Nat
        BY <3>2, EncodableFacts
      <4>2. QED
        BY <2>2, <2>3, <4>1 DEF EOF
    <3>4. read[k] = off[k]
      BY <1>3, <3>1
    <3>5. read[k + 1] = off[Place(k + 1)]
      BY <2>2, <3>1, <3>2, <3>3, <3>4
    <3>6. QED
      BY <2>1, <3>5
  <2>4. CASE ~(k + 1 <= L)
    <3>1. Place(k) = L /\ Place(k + 1) = L
      BY <1>1, <2>1, <2>4 DEF Place
    <3>2. given[k + 1] = EOF
      BY <2>2, <2>4
    <3>3. read[k] = off[L] /\ off[L] \in Nat
      <4>1. off[L] \in Nat
        BY <1>1 DEF Laid
      <4>2. QED
        BY <1>3, <3>1, <4>1
    <3>4. read[k + 1] = off[Place(k + 1)]
      BY <2>2, <3>1, <3>2, <3>3
    <3>5. QED
      BY <2>1, <3>4
  <2>5. QED
    BY <2>3, <2>4
<1> HIDE DEF P
<1>4. \A k \in 0..g - 1 : k \in P => k + 1 \in P
  BY <1>3
<1>5. \A k \in 0..g : k \in P
  BY <1>1, <1>2, <1>4, UpTo
<1>6. g \in P
  BY <1>1, <1>5
<1>7. QED
  BY <1>1, <1>6 DEF P

\* What is put in a file is what is read from it, to its end, wherever the buffer ends and
\* whatever is peeked at, and the stream's position is after it (_getch, getb, putch).
THEOREM WhatIsWrittenIsRead == StreamsSpec => []WrittenReadsBack
<1>1. StreamsInv => WrittenReadsBack
  <2> SUFFICES ASSUME StreamsInv, access = "read", ~lost, ~strayed
               PROVE  LET read[i \in 0..Len(given)] ==
                            IF i = 0 THEN 0
                            ELSE read[i - 1] + (IF given[i] = EOF THEN 0 ELSE Len(Bytes(given[i])))
                      IN  /\ \A i \in DOMAIN given : given[i] = IF i <= Len(put) THEN put[i] ELSE EOF
                          /\ Position = read[Len(given)]
    BY DEF WrittenReadsBack
  <2> DEFINE R(f) == f = [i \in 0..Len(given) |->
                            IF i = 0 THEN 0
                            ELSE f[i - 1] + (IF given[i] = EOF THEN 0 ELSE Len(Bytes(given[i])))]
             step == [k \in 1..Len(given) |-> [v \in Int |-> v + (IF given[k] = EOF THEN 0 ELSE Len(Bytes(given[k])))]]
  <2>1. StreamsTypes /\ \E off : Laid(off, file, put) /\ Told(off, handle, given)
    BY DEF StreamsInv
  <2>2. PICK off : Laid(off, file, put) /\ Told(off, handle, given)
    BY <2>1
  <2>3. PICK g : g = Len(given) /\ g \in Nat /\ given \in Seq(Int) /\ DOMAIN given = 1..g
    BY <2>2, LenProperties DEF Told
  <2>4. PICK L : L = Len(put) /\ L \in Nat /\ file \in Seq(Nat)
    BY <2>1, LenProperties DEF StreamsTypes
  <2>5. \A i \in 1..g : given[i] = IF i <= L THEN put[i] ELSE EOF
    BY <2>2, <2>3, <2>4 DEF Told
  <2>6. ASSUME NEW i \in 1..g
        PROVE  (IF given[i] = EOF THEN 0 ELSE Len(Bytes(given[i]))) \in Int
    <3>1. CASE i <= L
      <4>1. i \in 1..L
        BY <2>3, <3>1
      <4>2. put[i] \in Encodable
        BY <2>2, <2>4, <4>1 DEF Laid
      <4>3. Len(Bytes(put[i])) \in Int
        BY <4>2, EncodableFacts
      <4>4. QED
        BY <2>5, <3>1, <4>3
    <3>2. CASE ~(i <= L)
      BY <2>5, <3>2
    <3>3. QED
      BY <3>1, <3>2
  <2>7. AreSteps(step, g, Int)
    BY <2>3, <2>6 DEF AreSteps
  <2> HIDE DEF step
  <2>8. PICK f : Unfolds(f, g, Int, 0, step)
    <3>1. 0 \in Int
      OBVIOUS
    <3>2. QED
      BY <2>3, <2>7, <3>1, RecursiveFunction
  <2>9. R(f)
    <3>1. f \in [0..g -> Int] /\ f[0] = 0
      BY <2>8 DEF Unfolds
    <3>2. ASSUME NEW k \in 1..g
          PROVE  f[k] = f[k - 1] + (IF given[k] = EOF THEN 0 ELSE Len(Bytes(given[k])))
      <4>1. k - 1 \in 0..g
        BY <2>3
      <4>2. f[k] = step[k][f[k - 1]] /\ f[k - 1] \in Int
        BY <2>8, <3>1, <4>1 DEF Unfolds
      <4>3. QED
        BY <2>3, <4>2 DEF step
    <3>3. QED
      BY <2>3, <3>1, <3>2
  <2>10. PICK read : read = (CHOOSE h : R(h)) /\ R(read)
    BY <2>9
  <2>11. Sums(read, given)
    <3>1. 0 \in 0..g /\ \A k \in 1..g : k \in 0..g /\ k # 0
      BY <2>3
    <3>2. QED
      BY <2>3, <2>10, <3>1 DEF Sums
  <2>12. read[g] = off[Place(g)]
    BY <2>1, <2>2, <2>3, <2>11, SumsArePlaces
  <2>13. Position = off[Place(g)]
    BY <2>2, <2>3 DEF Position, Told, ReadTo
  <2>14. /\ \A i \in DOMAIN given : given[i] = IF i <= Len(put) THEN put[i] ELSE EOF
         /\ Position = read[Len(given)]
    BY <2>3, <2>4, <2>5, <2>12, <2>13
  <2>15. QED
    BY <2>10, <2>14
<1>2. QED
  BY <1>1, StreamsKeepInv, PTL
===============================================================================
