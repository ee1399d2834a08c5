-------------------------------- MODULE Terms --------------------------------
(***************************************************************************)
(* Terms, and what unification means for them: the reference that compiled *)
(* clauses are checked against.  A term is a variable, a constant, or a    *)
(* structure: a name and its arguments.                                    *)
(***************************************************************************)
EXTENDS Integers, Sequences, FiniteSets
LOCAL INSTANCE SequencesExt
LOCAL INSTANCE TLC

V(name)        == <<"var", name>>
K(name)        == <<"con", name>>
S(name, args)  == <<"str", name, args>>
IsVar(t) == t[1] = "var"
IsStr(t) == t[1] = "str"

\* The variables of a sequence of terms, in the order of their first occurrence
RECURSIVE Occurrences(_)
Occurrences(t) ==
  IF IsVar(t) THEN <<t>>
  ELSE IF IsStr(t) THEN FlattenSeq([i \in DOMAIN t[3] |-> Occurrences(t[3][i])])
  ELSE <<>>
VariablesOf(ts) ==
  LET all == FlattenSeq([i \in DOMAIN ts |-> Occurrences(ts[i])])
      new == {i \in DOMAIN all : \A j \in 1..i - 1 : all[j] # all[i]}
  IN  [n \in 1..Cardinality(new) |->
         all[CHOOSE i \in new : Cardinality({j \in new : j <= i}) = n]]

\* A term with its variables replaced
RECURSIVE Replaced(_, _)
Replaced(t, sub) ==
  IF IsVar(t) THEN IF t \in DOMAIN sub THEN sub[t] ELSE t
  ELSE IF IsStr(t) THEN S(t[2], [i \in DOMAIN t[3] |-> Replaced(t[3][i], sub)])
  ELSE t

\* The same terms but for the names of variables
Variants(ts, us) ==
  LET canonical(xs) ==
        LET vs == VariablesOf(xs)
        IN  [i \in DOMAIN xs |->
               Replaced(xs[i], [v \in ToSet(vs) |-> V(CHOOSE n \in DOMAIN vs : vs[n] = v)])]
  IN  canonical(ts) = canonical(us)

\* The most general unifier of the two sides of every equation: `result` is
\* "unified", "different" or, if a variable would have to contain itself, "cyclic"
Equations(ts, us) == [i \in DOMAIN ts |-> <<ts[i], us[i]>>]

RECURSIVE Solve(_, _)
Solve(eqs, sub) ==
  IF eqs = <<>> THEN [result |-> "unified", sub |-> sub]
  ELSE LET t == Replaced(eqs[1][1], sub)
           u == Replaced(eqs[1][2], sub)
           bound(v, x) ==
             IF v \in ToSet(Occurrences(x)) THEN [result |-> "cyclic", sub |-> sub]
             ELSE Solve(Tail(eqs), [w \in DOMAIN sub \cup {v} |->
                                      IF w = v THEN x ELSE Replaced(sub[w], v :> x)])
       IN  IF t = u THEN Solve(Tail(eqs), sub)
           ELSE IF IsVar(t) THEN bound(t, u)
           ELSE IF IsVar(u) THEN bound(u, t)
           ELSE IF IsStr(t) /\ IsStr(u) /\ t[2] = u[2] /\ Len(t[3]) = Len(u[3])
                  THEN Solve(Equations(t[3], u[3]) \o Tail(eqs), sub)
           ELSE [result |-> "different", sub |-> sub]
MostGeneral(eqs) == Solve(eqs, [v \in {} |-> v])
===============================================================================
