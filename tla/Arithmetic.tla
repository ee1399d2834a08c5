------------------------------ MODULE Arithmetic ------------------------------
(***************************************************************************)
(* Evaluation of expressions (arithmetic.c): integers that are longs, or   *)
(* GMP's integers once they do not fit, rationals in lowest terms and      *)
(* floats.  An expression is evaluated one function at a time, each from   *)
(* the number the last one made and an operand.  Of a float only its type  *)
(* is modelled.                                                            *)
(***************************************************************************)
EXTENDS Integers

CONSTANTS
  LONG_MAX,  \* the greatest long (limits.h)
  Literals,  \* the integers that are read
  Ratios,    \* numerator and denominator of the rationals that are at hand
  Magnitude  \* bound: numbers greater than this are evaluated no further

ASSUME ArithmeticAssumption ==
  /\ LONG_MAX \in Nat \ {0} /\ Literals \subseteq Int /\ Magnitude \in Nat
  /\ Ratios \subseteq Int \X (Int \ {0})

VARIABLES
  unbounded,  \* is_unbounded
  erange,     \* errno = ERANGE: a long that did not fit was read before
  varies,     \* there is random in the expression: evaluated again, it may differ
  result,     \* the number, or the error, of the last evaluation
  meant,      \* history: what the last evaluation should have given
  departs,    \* history: whether it is one of those that go wrong (Departs)
  wide        \* history: whether it handed on an integer that was not a long

arithmeticVars == <<unbounded, erange, varies, result, meant, departs, wide>>

LONG_MIN == -LONG_MAX - 1
Long     == LONG_MIN..LONG_MAX
Wrapped(i) == ((i - LONG_MIN) % (LONG_MAX - LONG_MIN + 1)) + LONG_MIN

NumberOf(type, num, den) == [type |-> type, num |-> num, den |-> den]
Integer(i) == NumberOf("Integer", i, 1)
Big(i)     == NumberOf("BigInteger", i, 1)
Float      == NumberOf("Float", 0, 0)
Failed(e)  == NumberOf(e, 0, 0)

IsInteger(n) == n.type \in {"Integer", "BigInteger"}
IsNumber(n)  == IsInteger(n) \/ n.type \in {"Rational", "Float"}

Abs(i)  == IF i < 0 THEN -i ELSE i
Sgn(i) == IF i < 0 THEN -1 ELSE IF i = 0 THEN 0 ELSE 1
Tdiv(i, j) == Sgn(i) * Sgn(j) * (Abs(i) \div Abs(j))   \* rounds to zero
Fdiv(i, j) == (Sgn(j) * i) \div Abs(j)                   \* rounds down

\* The greatest common divisor (mpz_gcd)
Divisors(i, j) == {d \in 1..j : i % d = 0 /\ j % d = 0}
GCD(i, j) == CHOOSE d \in Divisors(i, j) : \A e \in Divisors(i, j) : e <= d

\* mpq_canonicalize
Rational(i, j) ==
  LET d == GCD(Abs(i), Abs(j)) IN NumberOf("Rational", Sgn(j) * (i \div d), Abs(j) \div d)

\* Mutation of Normal: what fits a long is left as it is
NotNormal(i) == Big(i)

\* mpz_fits_slong_p: an integer that fits becomes a long again
Normal(i) == IF i \in Long THEN Integer(i) ELSE Big(i)

Rank == [Integer |-> 0, BigInteger |-> 1, Rational |-> 2, Float |-> 3]

\* Mutation of common_type: a rational does not prevail
common_type_floats(a, b) == IF b.type = "Float" THEN "Float" ELSE a.type

\* common_type: of a long and a BigInteger it is Integer
common_type(a, b) ==
  IF b.type # "BigInteger" /\ Rank[a.type] < Rank[b.type] THEN b.type ELSE a.type

\* What the member i of the union holds: of a BigInteger, the head of its mpz_t
AsLong(n) == IF n.type = "Integer" THEN {n.num} ELSE Long

\* The sum, difference or product of longs, and of fractions
Applied(op, i, j) == CASE op = "+" -> i + j [] op = "-" -> i - j [] op = "*" -> i * j
Combined(op, a, b) ==
  IF op = "*" THEN Rational(a.num * b.num, a.den * b.den)
  ELSE Rational(Applied(op, a.num * b.den, b.num * a.den), a.den * b.den)

\* Mutation of AddOverflows: the sum of negative numbers is not tested
AddOverflowsAbove(i, j) == i > 0 /\ j > LONG_MAX - i

\* The tests for an overflow, as they are written: that of "-" is that of "+"
AddOverflows(i, j) ==
  \/ i > 0 /\ j > LONG_MAX - i
  \/ i < 0 /\ j < LONG_MIN - i
SubtractOverflows(i, j) ==
  \/ j < 0 /\ i < LONG_MIN - j
  \/ j > 0 /\ i > LONG_MAX - j
Overflows(op, i, j) ==
  CASE op = "+" -> AddOverflows(i, j)
    [] op = "-" -> SubtractOverflows(i, j)
    [] op = "*" -> i * j \notin Long

\* + - *: a BigInteger is not made a long again
Additive(op, a, b) ==
  LET type == common_type(a, b)
      big  == Big(Applied(op, a.num, b.num))
  IN  CASE type = "Integer" ->
             {IF ~Overflows(op, i, j) THEN Integer(Wrapped(Applied(op, i, j)))
              ELSE IF unbounded THEN big ELSE Failed("integer_overflow")
                : i \in AsLong(a), j \in AsLong(b)}
        [] type = "BigInteger" -> {big}
        [] type = "Rational"   -> {Combined(op, a, b)}
        [] type = "Float"      -> {Float, Failed("float_overflow")}

\* // rem mod of longs, where a long of LONG_MIN divided by -1 traps, and of
\* BigIntegers, where it is 1 that is taken for 0
DivideLongs(op, i, j) ==
  IF j = 0 THEN Failed("zero_divisor")
  ELSE IF i = LONG_MIN /\ j = -1 THEN Failed("crash")
  ELSE Integer(IF op = "//" THEN Tdiv(i, j) ELSE i - Tdiv(i, j) * j)
DivideBig(op, i, j) ==
  IF j = 1 THEN Failed("zero_divisor")
  ELSE IF j = 0 THEN Failed("crash")
  ELSE Normal(CASE op = "//"  -> Tdiv(i, j)
                [] op = "rem" -> i - Tdiv(i, j) * j
                [] op = "mod" -> i % Abs(j))
Integral(op, a, b) ==
  IF ~IsInteger(a) \/ ~IsInteger(b) THEN {Failed("type_error")}
  ELSE IF a.type = "Integer" /\ (op = "//" \/ b.type = "Integer")
         THEN {DivideLongs(op, a.num, j) : j \in AsLong(b)}
  ELSE {DivideBig(op, a.num, b.num)}

\* /: of rationals a rational, of all others a float
Divide(a, b) ==
  IF b.type = "Float" THEN {Float, Failed("zero_divisor")}
  ELSE IF b.num = 0 THEN {Failed("zero_divisor")}
  ELSE IF a.type = "Rational" /\ b.type = "Rational"
         THEN {Rational(a.num * b.den, a.den * b.num)}
  ELSE {Float}

\* mpz_pow_ui
Raised(i, j) == LET power[k \in 0..j] == IF k = 0 THEN 1 ELSE i * power[k - 1] IN power[j]

\* ^: what is not implemented is an assertion that fails
Power(a, b) ==
  IF "Float" \in {a.type, b.type} THEN {Float}
  ELSE IF b.type = "BigInteger" THEN {Failed("integer_overflow")}
  ELSE IF "Rational" \in {a.type, b.type} \/ b.num < 0 \/ (a.type = "Integer" /\ a.num < 0)
         THEN {Failed("crash")}
  ELSE {Normal(Raised(a.num, b.num))}

rdiv(a, b) ==
  IF ~IsInteger(a) \/ ~IsInteger(b) THEN {Failed("type_error")}
  ELSE IF b.num = 0 THEN {Failed("crash")}
  ELSE {Rational(a.num, b.num)}

\* mpz_cmp and mpq_cmp: some number with this sign
AnyWith(sgn) == {sgn, 2 * sgn}

arith_compare(a, b) ==
  LET type == common_type(a, b)
  IN  CASE type = "Integer"    -> {Sgn(i - j) : i \in AsLong(a), j \in AsLong(b)}
        [] type = "BigInteger" -> AnyWith(Sgn(a.num - b.num))
        [] type = "Rational"   -> AnyWith(Sgn(a.num * b.den - b.num * a.den))
        [] type = "Float"      -> {-1, 0, 1}

\* max and min have their operands evaluated again to compare them, with any outcome if
\* these vary, and compare what arith_compare returns with 1 and -1
Recompared(a, b) == IF varies THEN {-1, 0, 1} ELSE arith_compare(a, b)
Greatest(a, b) == {IF c = 1 THEN a ELSE b : c \in Recompared(a, b)}
Least(a, b)    == {IF c = -1 THEN a ELSE b : c \in Recompared(a, b)}

Binary == {"+", "-", "*", "//", "rem", "mod", "/", "^", "rdiv", "max", "min"}
Evaluated2(op, a, b) ==
  CASE op \in {"+", "-", "*"}      -> Additive(op, a, b)
    [] op \in {"//", "rem", "mod"} -> Integral(op, a, b)
    [] op = "/"    -> Divide(a, b)
    [] op = "^"    -> Power(a, b)
    [] op = "rdiv" -> rdiv(a, b)
    [] op = "max"  -> Greatest(a, b)
    [] op = "min"  -> Least(a, b)

negate(a) ==
  IF a # Integer(LONG_MIN) THEN {[a EXCEPT !.num = -@]}
  ELSE IF unbounded THEN {Big(LONG_MIN)} ELSE {Failed("integer_overflow")}

\* labs(LONG_MIN) is itself
absolute(a) == {IF a = Integer(LONG_MIN) THEN a ELSE [a EXCEPT !.num = Abs(@)]}
sign(a) == {IF a.type = "Float" THEN a ELSE Integer(Sgn(a.num))}

\* A float that becomes an integer: it may be any
FromFloat ==
  {IF i \in Long \/ unbounded THEN Normal(i) ELSE Failed("integer_overflow")
     : i \in (LONG_MIN - 1)..(LONG_MAX + 1)}

\* The numerator is taken for the denominator too
float_integer_part(a) ==
  CASE IsInteger(a) -> {a}
    [] a.type = "Float" -> FromFloat
    [] a.type = "Rational" -> {IF a.num = 0 THEN Failed("crash") ELSE Big(1)}
float_fractional_part(a) ==
  CASE IsInteger(a) -> {Integer(0)}
    [] a.type = "Float" -> {Integer(0)}
    [] a.type = "Rational" ->
         {IF a.num = 0 THEN Failed("crash") ELSE Rational(a.num - a.den, a.den)}

\* floor, truncate, round and ceiling: a BigInteger is called a long
Toward(op, i, j) ==
  CASE op = "floor" -> Fdiv(i, j)
    [] op \in {"truncate", "round"} -> Tdiv(i, j)
    [] op = "ceiling" -> -Fdiv(-i, j)
Rounded(op, a) ==
  CASE a.type = "Integer"    -> {a}
    [] a.type = "BigInteger" -> {Integer(i) : i \in Long}
    [] a.type = "Float"      -> FromFloat
    [] a.type = "Rational"   -> {Normal(Toward(op, a.num, a.den))}

random(a) ==
  IF ~IsInteger(a) \/ a.num = 0 THEN {Failed("crash")}
  ELSE {Normal(i) : i \in 0..Abs(a.num) - 1}

Roundings == {"floor", "truncate", "round", "ceiling"}
Unary ==
  {"negate", "abs", "sign", "float_integer_part", "float_fractional_part", "float", "random"}
    \cup Roundings
Evaluated1(op, a) ==
  CASE op = "negate" -> negate(a)
    [] op = "abs"    -> absolute(a)
    [] op = "sign"   -> sign(a)
    [] op = "float_integer_part"    -> float_integer_part(a)
    [] op = "float_fractional_part" -> float_fractional_part(a)
    [] op = "float"  -> {Float}
    [] op = "random" -> random(a)
    [] op \in Roundings -> Rounded(op, a)

-----------------------------------------------------------------------------
\* What evaluation is for: integers of any size, or of a long if ~unbounded

Meaning(n) == IF n.type = "BigInteger" THEN NumberOf("Integer", n.num, 1) ELSE n
Whole(i, a, b) ==
  IF ~unbounded /\ i \notin Long /\ a.type = "Integer" /\ b.type = "Integer"
    THEN Failed("integer_overflow") ELSE NumberOf("Integer", i, 1)

\* The quotient, rounded to zero
Truncated(i, j) == IF Sgn(i) = Sgn(j) THEN Fdiv(i, j) ELSE -Fdiv(-i, j)

Wanted2(op, a, b) ==
  LET integers == IsInteger(a) /\ IsInteger(b)
      floats   == "Float" \in {a.type, b.type}
      order    == a.num * b.den - b.num * a.den
  IN  CASE op \in {"+", "-", "*"} ->
             IF floats THEN {Float, Failed("float_overflow")}
             ELSE {IF integers THEN Whole(Applied(op, a.num, b.num), a, b) ELSE Combined(op, a, b)}
        [] op \in {"//", "rem", "mod", "rdiv"} ->
             {IF ~integers THEN Failed("type_error")
              ELSE IF b.num = 0 THEN Failed("zero_divisor")
              ELSE CASE op = "rdiv" -> Rational(a.num, b.num)
                     [] op = "//"   -> Meaning(Integer(Truncated(a.num, b.num)))
                     [] op = "rem"  -> Meaning(Integer(a.num - b.num * Tdiv(a.num, b.num)))
                     [] op = "mod"  -> Meaning(Integer(a.num - b.num * Fdiv(a.num, b.num)))}
        [] op = "/" ->
             IF b.type = "Float" THEN {Float, Failed("zero_divisor")}
             ELSE IF b.num = 0 THEN {Failed("zero_divisor")}
             ELSE IF floats \/ IsInteger(a) \/ IsInteger(b) THEN {Float}
             ELSE {Rational(a.num * b.den, a.den * b.num)}
        [] op = "^" -> IF floats THEN {Float}
                       ELSE IF b.num \notin Long THEN {Failed("integer_overflow")}
                       ELSE {NumberOf("Integer", Raised(a.num, b.num), 1)}
        [] op \in {"max", "min"} ->
             LET s == IF op = "max" THEN order ELSE -order
             IN  {Meaning(n) : n \in (IF floats \/ s >= 0 THEN {a} ELSE {})
                                        \cup (IF floats \/ s <= 0 THEN {b} ELSE {})}

Nearest(a) == Sgn(a.num) * Fdiv(2 * Abs(a.num) + a.den, 2 * a.den)
Wanted1(op, a) ==
  LET part == Tdiv(a.num, a.den)
  IN  IF a.type = "Float"
        THEN IF op \in Roundings \cup {"float_integer_part"} THEN {Meaning(i) : i \in FromFloat}
             ELSE {Float}
      ELSE CASE op = "negate" -> {IF IsInteger(a) THEN Whole(-a.num, a, a) ELSE Rational(-a.num, a.den)}
             [] op = "abs" -> {IF IsInteger(a) THEN Whole(Abs(a.num), a, a) ELSE Rational(Abs(a.num), a.den)}
             [] op = "sign" -> {NumberOf("Integer", Sgn(a.num), 1)}
             [] op = "float" -> {Float}
             [] op = "random" -> {NumberOf("Integer", i, 1) : i \in 0..Abs(a.num) - 1}
             [] op = "float_fractional_part" -> {NumberOf("Integer", 0, 1)}
             [] op \in {"float_integer_part", "truncate"} -> {NumberOf("Integer", part, 1)}
             [] op = "floor" -> {NumberOf("Integer", Fdiv(a.num, a.den), 1)}
             [] op = "ceiling" -> {NumberOf("Integer", -Fdiv(-a.num, a.den), 1)}
             [] op = "round" -> {NumberOf("Integer", Nearest(a), 1)}

\* Evaluations of which the code is known to make something else
Mixed(a, b) == a.type = "Integer" /\ b.type = "BigInteger"
Longs(a, b) == a.type = "Integer" /\ b.type = "Integer"
\* Where GMP compares, what it returns for the first one above or below the other need
\* not be 1 or -1.
Above(a, b) == common_type(a, b) \in {"BigInteger", "Rational"} /\ a.num * b.den > b.num * a.den
Below(a, b) == common_type(a, b) \in {"BigInteger", "Rational"} /\ a.num * b.den < b.num * a.den
Departs2(op, a, b) ==
  \/ op \in {"max", "min"} /\ varies
  \/ op = "max" /\ Above(a, b)
  \/ op = "min" /\ Below(a, b)
  \/ op \in {"+", "-", "*", "//", "max", "min"} /\ Mixed(a, b)
  \/ op = "-" /\ Longs(a, b) /\ SubtractOverflows(a.num, b.num) # (a.num - b.num \notin Long)
  \/ op \in {"//", "rem", "mod"} /\ ~Longs(a, b) /\ b.num \in {0, 1}
  \/ op \in {"//", "rem", "mod"} /\ Longs(a, b) /\ a.num = LONG_MIN /\ b.num = -1
  \/ op = "mod" /\ IF Longs(a, b) THEN (a.num < 0) # (b.num < 0) ELSE b.num < 0
  \/ op = "^" /\ "Float" \notin {a.type, b.type}
       /\ \/ "Rational" \in {a.type, b.type}
          \/ b.type = "Integer" /\ (b.num < 0 \/ (a.type = "Integer" /\ a.num < 0))
          \/ b.type = "BigInteger" /\ b.num \in Long
  \/ op = "rdiv" /\ b.num = 0
Departs1(op, a) ==
  \/ op \in {"negate", "abs"} /\ a = Integer(LONG_MIN)
  \/ op = "float_integer_part" /\ a.type = "Rational"
  \/ op = "float_fractional_part" /\ ~IsInteger(a)
  \/ op \in Roundings /\ a.type = "BigInteger"
  \/ op = "round" /\ a.type = "Rational" /\ Nearest(a) # Tdiv(a.num, a.den)
  \/ op = "random" /\ (~IsInteger(a) \/ a.num = 0)

-----------------------------------------------------------------------------
\* An integer as it is read: strtol gives LONG_MIN or LONG_MAX for what does not
\* fit and sets errno, which stays until a call to the system fails for another reason
Literal(i) ==
  IF i \notin Long \/ (erange /\ i \in {LONG_MIN, LONG_MAX}) THEN Big(i) ELSE Integer(i)

\* What stands beside a number in an expression
Operands ==
  {Literal(i) : i \in Literals} \cup {Rational(r[1], r[2]) : r \in Ratios}
    \cup {Float, Failed("instantiation_error"), Failed("evaluable_error")}

InBounds == IsNumber(result) /\ Abs(result.num) <= Magnitude /\ result.den <= Magnitude

ArithmeticInit ==
  /\ unbounded \in BOOLEAN /\ erange = FALSE
  /\ varies = FALSE /\ result = Integer(0) /\ meant = {Integer(0)} /\ departs = FALSE /\ wide = FALSE

Read(i) ==
  /\ result' = Literal(i)
  /\ meant' = {NumberOf("Integer", i, 1)} /\ departs' = FALSE
  /\ wide' = (erange /\ i \in Long)
  /\ erange' = (erange \/ i \notin Long) /\ varies' = FALSE
  /\ UNCHANGED unbounded

SystemCallFails ==
  erange /\ erange' = FALSE /\ UNCHANGED <<unbounded, varies, result, meant, departs, wide>>

\* The operands are evaluated before the function, and the first error ends it
Evaluate2(op, a, b) ==
  /\ InBounds
  /\ IF IsNumber(a) /\ IsNumber(b)
       THEN /\ result' \in Evaluated2(op, a, b)
            /\ departs' = Departs2(op, a, b)
            /\ meant' = IF departs' THEN {} ELSE Wanted2(op, a, b)
       ELSE /\ result' = IF IsNumber(a) THEN b ELSE a
            /\ departs' = FALSE /\ meant' = {result'}
  /\ wide' = (op \in {"+", "-", "*", "max", "min"} /\ "BigInteger" \in {a.type, b.type})
  /\ UNCHANGED <<unbounded, erange, varies>>

Evaluate1(op) ==
  /\ InBounds
  /\ result' \in Evaluated1(op, result)
  /\ departs' = Departs1(op, result)
  /\ meant' = IF departs' THEN {} ELSE Wanted1(op, result)
  /\ wide' = (op \notin {"sign", "float", "random"} /\ result.type = "BigInteger")
  /\ varies' = (varies \/ op = "random")
  /\ UNCHANGED <<unbounded, erange>>

ArithmeticNext ==
  \/ \E i \in Literals : Read(i)
  \/ \E op \in Binary, n \in Operands : Evaluate2(op, result, n)
  \/ \E op \in Binary, n \in Operands : Evaluate2(op, n, result)
  \/ \E op \in Binary : Evaluate2(op, result, result)
  \/ \E op \in Unary : Evaluate1(op)
  \/ SystemCallFails

ArithmeticSpec == ArithmeticInit /\ [][ArithmeticNext]_arithmeticVars

\* Evaluation gives the number that the functions of the expression have, whatever
\* the types it is represented by on the way, or the error that says why there is
\* none (evaluate in arithmetic.c), except where the code is known to depart.
ArithmeticIsExact == ~departs => Meaning(result) \in meant

\* Numbers are compared by their values, whatever types they have and on which side
\* they stand, except a long with a BigInteger (common_type and arith_compare).
ComparesAsValues ==
  \A n \in Operands :
    InBounds /\ IsNumber(n) /\ "Float" \notin {n.type, result.type} =>
      LET order == Sgn(result.num * n.den - n.num * result.den)
      IN  /\ Mixed(result, n) \/ \A c \in arith_compare(result, n) : Sgn(c) = order
          /\ Mixed(n, result) \/ \A c \in arith_compare(n, result) : Sgn(c) = -order

\* An integer that fits a long is one: == and unification, which compare constants,
\* tell a long from a BigInteger of the same value.  A BigInteger that fits came of
\* another one, or was read once errno was set (mpz_fits_slong_p in evaluate, and
\* the tests for an overflow).
FitsMeansLong ==
  ~departs /\ ~wide /\ result.type = "BigInteger" => result.num \notin Long
===============================================================================
