------------------------------ MODULE MCLanguage ------------------------------
(* A small instance of Language: queries and definitions of a predicate with       *)
(* every shape of argument and of body, terms two operators deep, and numbers.      *)
EXTENDS Language

X == V("X")
Y == V("Y")
Z == V("Z")
A == V("A")
B == V("B")
a == K("a")
b == K("b")
f(t)    == S("f", <<t>>)
g(t, u) == S("g", <<t, u>>)

\* Bodies
Calling(ts)   == <<"call", "q", ts>>
And(s, t)     == <<"and", s, t>>
Either(s, t)  == <<"or", s, t>>
Ite(c, s, t)  == <<"ite", c, s, t>>
Not(s)        == <<"not", s>>
Eq(s, t)      == <<"unify", <<s, t>>>>
True == <<"true">>
False == <<"fail">>
Fact == <<"fact">>

MCHeads ==
  <<<<X, Y>>, <<X, X>>, <<a, X>>, <<f(X), Y>>, <<g(X, Y), Y>>, <<f(f(X)), X>>,
    <<g(f(X), X), f(Y)>>, <<Y, g(X, f(a))>>>>
MCBodies ==
  <<Fact, True, Calling(<<X>>), Calling(<<Z, X>>), Calling(<<g(f(Z), X), Z>>),
    Calling(<<f(g(X, Z))>>),
    And(Calling(<<Z>>), Calling(<<Z, f(X)>>)),
    And(Either(Eq(X, a), True), Calling(<<X>>)),
    And(Either(Eq(Z, X), True), Calling(<<Z, X>>)),
    And(Either(Calling(<<Z>>), Calling(<<X>>)), Calling(<<f(Z), Z>>)),
    And(Either(Calling(<<f(Z)>>), Eq(Y, X)), And(Calling(<<Z, Y>>), Calling(<<Z>>))),
    Either(Calling(<<Z>>), And(Eq(Z, f(X)), Calling(<<Z>>))),
    And(Ite(Calling(<<X>>), Eq(Z, X), Eq(Y, Z)), Calling(<<Z, f(Y)>>)),
    Ite(Eq(X, f(Z)), Calling(<<Z, X>>), Calling(<<X, Z>>)),
    And(Not(Calling(<<X>>)), Calling(<<X, Y>>)),
    And(Eq(X, f(Z)), And(Not(Eq(Z, a)), Calling(<<Z>>))),
    And(Ite(Not(Eq(X, b)), Eq(Z, Y), False), Calling(<<g(Z, X)>>)),
    And(Either(Eq(Z, X), True), Either(And(Calling(<<Z>>), False), Calling(<<Y, g(Z, Y)>>)))>>
MCGoals ==
  <<Calling(<<A, B>>), Calling(<<A, A>>), Calling(<<f(A), B>>), Calling(<<g(A, a), f(B)>>),
    And(Either(Eq(A, f(B)), True), Calling(<<A, B>>)),
    And(Either(True, Eq(A, b)), Calling(<<f(B), A>>)),
    And(Eq(A, f(B)), Calling(<<A, g(B, A)>>))>>

C(head, body) == [head |-> head, body |-> body]
MCProcedures ==
  LET n == Len(MCBodies)
  IN  [i \in 1..Len(MCHeads) * n |-> <<C(MCHeads[((i - 1) \div n) + 1], MCBodies[((i - 1) % n) + 1])>>]
      \o [i \in 1..Len(MCHeads) |->
            <<C(MCHeads[i], Calling(<<f(Y), X>>)), C(<<Y, f(X)>>, Calling(<<X, Y, Z>>))>>]
      \o <<<<>>>>

\* A negation, and then a goal with its variable in a structure or as it is
NegationGoals == <<Calling(<<A>>), Calling(<<a>>)>>
NegationProcedures ==
  <<<<C(<<X>>, And(Not(Calling(<<Z>>)), Calling(<<Z, f(Y)>>)))>>,
    <<C(<<X>>, And(Not(Eq(Z, f(X))), Calling(<<Z, f(Y)>>)))>>,
    <<C(<<X>>, And(Not(Calling(<<Z>>)), Calling(<<f(X), Z>>)))>>>>

\* Terms
PrefixNames == {"-", "\\+", ":-", "dynamic", "f", "{}"}
InfixNames  == {":-", ",", ";", "=", "-", "+", "*", "^", "->", "is", "f", "\\+"}
Flat ==
  {S(o, <<t>>) : o \in PrefixNames, t \in {a, I(1), I(-1)}} \cup {S(o, <<a, b>>) : o \in InfixNames}
  \cup {List(a, Nil), List(a, b), List(a, List(b, Nil)), V("_"), S("f", <<V("_"), a>>),
        S("$dict", <<a, S("{}", <<b>>)>>), S("-", <<a, I(0)>>), S("-", <<I(1), I(1)>>),
        S("-", <<I(1), I(-1)>>)}
Terms2 ==
  {a, I(-1), I(0), I(1), Nil} \cup Flat
  \cup UNION {{S(o, <<t>>) : o \in PrefixNames} \cup {S(o, <<t, b>>) : o \in InfixNames}
                \cup {S(o, <<b, t>>) : o \in InfixNames}
                \cup {List(t, Nil), List(t, b), List(b, t), List(t, List(b, Nil))} : t \in Flat}
\* ... all of them evaluated at once
MCWritten == {t : t \in Terms2}

\* Numbers, around the limits of a long of 4 bits
MCLiterals == {-9, -8, -7, -3, -1, 0, 1, 2, 7, 8}
MCRatios   == {<<1, 2>>, <<-3, 2>>, <<7, 3>>, <<-4, 1>>}
===============================================================================
