------------------------------- MODULE Compiler -------------------------------
(***************************************************************************)
(* The part of src/src/compiler.c that turns the terms of a clause into    *)
(* instructions: heads, arguments, unification, and the control constructs *)
(* that have branches.  An instruction is its name and an operand; it      *)
(* counts as one, where the code counts its bytes.                         *)
(*                                                                         *)
(* What is being compiled is a record: the code so far, what is known of   *)
(* each variable, and the next slot for a choicepoint.                     *)
(***************************************************************************)
EXTENDS Terms
LOCAL INSTANCE SequencesExt

Push(s, instruction) == [s EXCEPT !.code = Append(@, instruction)]
Seen(s, v, safe) ==
  [s EXCEPT !.vars[v] = [@ EXCEPT !.fresh = FALSE, !.safe = safe]]
SlotOf(s, name, v) == Push(s, <<name, s.vars[v].slot>>)
Each(op(_, _), s, args) == FoldLeft(op, s, args)

\* compile_argument, compile_head: matching
RECURSIVE compile_argument(_, _)
compile_argument(arg, s) ==
  IF IsVar(arg) THEN
    Seen(SlotOf(s, IF s.vars[arg].fresh THEN "H_FIRSTVAR" ELSE "H_VAR", arg), arg, TRUE)
  ELSE IF ~IsStr(arg) THEN Push(s, <<"H_ATOM", arg>>)
  ELSE Push(Each(LAMBDA acc, a : compile_argument(a, acc),
                 Push(s, <<"H_FUNCTOR", <<arg[2], Len(arg[3])>>>>), arg[3]),
            <<"H_POP", 0>>)
compile_head(args, s) == Each(LAMBDA acc, a : compile_argument(a, acc), s, args)

\* A variable that has been seen
NotFresh(s, v, depth) ==
  IF depth > 0 THEN SlotOf(s, "B_ARGVAR", v)
  ELSE IF s.vars[v].safe THEN SlotOf(s, "B_VAR", v)
  ELSE Seen(SlotOf(s, "B_UNSAFEVAR", v), v, TRUE)

\* compile_term_creation: building.  The last argument of a structure is built
\* without remembering where to go on.
RECURSIVE compile_term_creation(_, _, _, _)
compile_term_creation(term, s, depth, isFinalArg) ==
  IF IsVar(term) THEN
    IF s.vars[term].fresh
      THEN Seen(SlotOf(s, IF depth > 0 THEN "B_ARGFIRSTVAR" ELSE "B_FIRSTUNSAFEVAR", term),
                term, TRUE)
      ELSE NotFresh(s, term, depth)
  ELSE IF ~IsStr(term) THEN Push(s, <<"B_ATOM", term>>)
  ELSE LET args == term[3]
           n    == Len(args)
           open == Push(s, <<IF isFinalArg THEN "B_RFUNCTOR" ELSE "B_FUNCTOR", <<term[2], n>>>>)
           most == Each(LAMBDA acc, a : compile_term_creation(a, acc, depth + 1, FALSE),
                        open, SubSeq(args, 1, n - 1))
           all  == compile_term_creation(args[n], most, depth + 1, TRUE)
       IN  IF isFinalArg THEN all ELSE Push(all, <<"B_POP", 0>>)
Arguments(args, s) == Each(LAMBDA acc, a : compile_term_creation(a, acc, 0, FALSE), s, args)

\* _make_cvars: the variables one branch has not seen and the other has, which the
\* first makes in the frame at its end
MissedVars(here, there) ==
  LET vs == {v \in DOMAIN here.vars : here.vars[v].fresh /\ ~there.vars[v].fresh}
  IN  SetToSeq({<<"C_VAR", here.vars[v].slot>> : v \in vs})

\* Mutation of Joined: what is safe after the first branch stays so
JoinedLeft(left, right) ==
  [v \in DOMAIN left |->
     [left[v] EXCEPT !.fresh = @ /\ right[v].fresh]]

\* ... and what is known after both: a variable is safe if it is in both
Joined(left, right) ==
  [v \in DOMAIN left |->
     [left[v] EXCEPT !.fresh = @ /\ right[v].fresh, !.safe = @ /\ right[v].safe]]

\* Two branches, the first begun by `open`
Branches(s, open(_), left, right, isTail, exit) ==
  LET lv == IF isTail /\ exit THEN <<>> ELSE MissedVars(left, right)
      rv == IF isTail /\ exit THEN <<>> ELSE MissedVars(right, left)
      jump == IF isTail /\ exit THEN <<"I_EXIT", 0>>
              ELSE <<"C_JUMP", 1 + Len(right.code) + Len(rv)>>
      first == left.code \o lv \o <<jump>>
  IN  [code |-> s.code \o <<open(1 + Len(first))>> \o first \o right.code \o rv
                \o (IF isTail /\ ~exit THEN <<<<"I_EXIT", 0>>>> ELSE <<>>),
       vars |-> IF isTail /\ exit THEN left.vars ELSE Joined(left.vars, right.vars),
       reserved |-> right.reserved]
Within(s) == [s EXCEPT !.code = <<>>]

\* compile_body, of calls, true, fail, =, (,), ;, -> with ; and \+
RECURSIVE compile_body(_, _, _)
compile_body(term, s, isTail) ==
  LET exit(x) == IF isTail THEN Push(x, <<"I_EXIT", 0>>) ELSE x
  IN
  CASE term[1] = "true" -> exit(s)
    [] term[1] = "fail" -> Push(s, <<"I_FAIL", 0>>)
    [] term[1] = "call" ->
         Push(Arguments(term[3], s), <<IF isTail THEN "I_DEPART" ELSE "I_CALL", term[3]>>)
    [] term[1] = "unify" ->
         exit(Push(Arguments(term[2], s), <<"I_UNIFY", term[2]>>))
    [] term[1] = "and" ->
         compile_body(term[3], compile_body(term[2], s, FALSE), isTail)
    [] term[1] = "or" ->
         LET left  == compile_body(term[2], Within(s), isTail)
             right == compile_body(term[3], [Within(s) EXCEPT !.reserved = left.reserved], isTail)
         IN  Branches(s, LAMBDA n : <<"C_OR", n>>, left, right, isTail, TRUE)
    [] term[1] = "ite" ->
         LET cut   == s.reserved
             test  == Push(compile_body(term[2], [Within(s) EXCEPT !.reserved = cut + 1], FALSE),
                           <<"C_CUT", cut>>)
             left  == compile_body(term[3], test, isTail)
             right == compile_body(term[4], [Within(s) EXCEPT !.reserved = left.reserved], isTail)
         IN  Branches(s, LAMBDA n : <<"C_IF_THEN_ELSE", <<cut, n>>>>, left, right, isTail, FALSE)
    [] term[1] = "not" ->
         LET cut  == s.reserved
             test == compile_body(term[2], [Within(s) EXCEPT !.reserved = cut + 1], FALSE)
         IN  exit([test EXCEPT !.code =
                     s.code \o <<<<"C_IF_THEN_ELSE", <<cut, Len(test.code) + 3>>>>>>
                            \o test.code \o <<<<"C_CUT", cut>>, <<"I_FAIL", 0>>>>])

\* The terms of a body, from left to right
RECURSIVE TermsOf(_)
TermsOf(term) ==
  CASE term[1] = "call"  -> term[3]
    [] term[1] = "unify" -> term[2]
    [] term[1] \in {"and", "or"} -> TermsOf(term[2]) \o TermsOf(term[3])
    [] term[1] = "ite" -> TermsOf(term[2]) \o TermsOf(term[3]) \o TermsOf(term[4])
    [] term[1] = "not" -> TermsOf(term[2])
    [] OTHER -> <<>>

\* analyze_variables: slots in the order of occurrence; those of the head are safe
analyze_variables(head, body) ==
  LET vs == VariablesOf(head \o TermsOf(body))
  IN  [v \in ToSet(vs) |->
         [fresh |-> TRUE, safe |-> v \in ToSet(VariablesOf(head)),
          slot |-> (CHOOSE n \in DOMAIN vs : vs[n] = v) - 1]]

\* get_reserved_slots: a slot for each choicepoint to cut to
RECURSIVE get_reserved_slots(_)
get_reserved_slots(term) ==
  CASE term[1] \in {"and", "or"} -> get_reserved_slots(term[2]) + get_reserved_slots(term[3])
    [] term[1] = "ite" -> get_reserved_slots(term[2]) + get_reserved_slots(term[3])
                          + get_reserved_slots(term[4]) + 1
    [] term[1] = "not" -> get_reserved_slots(term[2]) + 1
    [] OTHER -> 0

\* compile_predicate_clause, compile_clause: with a choicepoint if another follows
compile_clause(head, body, another) ==
  LET vars == analyze_variables(head, body)
      n    == Cardinality(DOMAIN vars)
      s    == compile_head(head, [code |-> IF another THEN <<<<"TRY_ME_OR_NEXT_CLAUSE", 0>>>> ELSE <<>>,
                                  vars |-> vars, reserved |-> n])
      done == IF body = <<"fact">> THEN Push(s, <<"I_EXIT_FACT", 0>>)
              ELSE compile_body(body, Push(s, <<"I_ENTER", 0>>), TRUE)
  IN  [code |-> done.code, slot_count |-> n + get_reserved_slots(body)]

\* compile_query: the variables of the goal are the arguments of its head
compile_query(goal) == compile_clause(VariablesOf(TermsOf(goal)), goal, FALSE)

\* compile_predicate: a predicate without clauses fails
compile_predicate(clauses) ==
  IF clauses = <<>> THEN <<[code |-> <<<<"I_FAIL", 0>>>>, slot_count |-> 0]>>
  ELSE FoldLeft(LAMBDA acc, c : Append(acc, compile_clause(c.head, c.body, Len(acc) + 1 < Len(clauses))),
                <<>>, clauses)
===============================================================================
