------------------------------- MODULE Clauses -------------------------------
(***************************************************************************)
(* Compiled clauses executed (execute in src/src/kernel.c): a query calls  *)
(* the predicate p, whose clause matches the arguments, builds those of    *)
(* its own goals, and backtracks.  Memory is one array of words: the heap, *)
(* the slots of the frame and ARGS, in the order of their addresses.       *)
(*                                                                         *)
(* The frame of the query is overwritten by that of p, its last call; the  *)
(* goals p calls are other predicates, which fail, succeed, or bind a      *)
(* variable of their arguments.                                            *)
(***************************************************************************)
EXTENDS Compiler
LOCAL INSTANCE SequencesExt

CONSTANTS
  Goals,      \* a sequence of queries
  Procedures, \* a sequence of definitions of p, each a sequence of clauses
  MaxHeap     \* bound: cells of the heap

MaxSlots == 8                 \* bounds: of a frame, and of a call
MaxArity == 3
STACK    == 100               \* the addresses of the first slot and of the first argument
ARGS     == 201
Heap     == 1..MaxHeap
Slots    == STACK + 1..STACK + 2 * MaxSlots
Args     == ARGS..ARGS + MaxArity - 1

VARIABLES
  program,    \* what is executed: a query and a definition of p
  compiled,   \* q->clause, and p->firstClause and those that follow it
  clause,     \* the clause that is executed, 0 for the query
  PC,         \* its next instruction
  cells,      \* the memory
  FR,         \* the address of the first slot of the frame
  H,          \* the last cell of the heap in use
  ARGP,       \* the argument to match or to build
  argStack,   \* where to go on after a structure, and in which mode
  mode,       \* READ or WRITE
  TR,         \* the addresses of bound variables
  CP,         \* choicepoints, newest last
  goal,       \* history: the arguments p was called with, and what was unified by then
  equations,  \* history: what has been unified
  attempt,    \* history: what has been unified at the last failure to match
  status      \* "run", "exit" or "fail"

clauseVars == <<program, compiled, clause, PC, cells, FR, H, ARGP, argStack, mode, TR, CP,
                goal, equations, attempt, status>>

-----------------------------------------------------------------------------
Ref(a)      == <<"ref", a>>
Compound(a) == <<"cmp", a>>
Unset       == <<"unset", 0>>
IsRef(w)    == w[1] = "ref"

Query       == Goals[program[1]]
Procedure   == Procedures[program[2]]
Code        == IF clause = 0 THEN compiled.query ELSE compiled.clauses[clause]
Opcode      == Code.code[PC][1]
Operand     == Code.code[PC][2]
Executing(name) == status = "run" /\ Opcode = name
SlotAt(n)   == FR + n

\* DEREF
RECURSIVE DEREF(_, _)
DEREF(mem, w) ==
  IF IsRef(w) /\ mem[w[2]] # w THEN DEREF(mem, mem[w[2]]) ELSE w

\* _bind, of a memory and a trail
_bind(m, var, value) ==
  [m EXCEPT !.mem[var[2]] = value, !.trail = Append(@, var[2])]

\* Of two variables the one of the higher address is bound to the other
Bound(m, a, b) == _bind(m, IF b[2] > a[2] THEN b ELSE a, IF b[2] > a[2] THEN a ELSE b)

\* unify
RECURSIVE unify(_, _, _)
unify(m, x, y) ==
  LET a == DEREF(m.mem, x)
      b == DEREF(m.mem, y)
      arity == m.mem[a[2]][2][2]
  IN  IF ~m.ok \/ a = b THEN m
      ELSE IF IsRef(a) /\ IsRef(b) THEN Bound(m, a, b)
      ELSE IF IsRef(a) THEN _bind(m, a, b)
      ELSE IF IsRef(b) THEN _bind(m, b, a)
      ELSE IF a[1] = "cmp" /\ b[1] = "cmp" /\ m.mem[a[2]] = m.mem[b[2]]
        THEN FoldLeft(LAMBDA acc, i : unify(acc, acc.mem[a[2] + i], acc.mem[b[2] + i]),
                      m, [i \in 1..arity |-> i])
      ELSE [m EXCEPT !.ok = FALSE]
Memory == [mem |-> cells, trail |-> TR, ok |-> TRUE]

\* MAKE_VAR at the address given; MAKE_COMPOUND, with variables for arguments
MAKE_VAR(mem, a) == [mem EXCEPT ![a] = Ref(a)]
MAKE_COMPOUND(mem, functor) ==
  [a \in DOMAIN mem |->
     IF a = H + 1 THEN <<"fun", functor>>
     ELSE IF a \in H + 2..H + 1 + functor[2] THEN Ref(a) ELSE mem[a]]
Room(n) == H + n \in Heap

-----------------------------------------------------------------------------
\* create_choicepoint, of a frame's body or of a clause
Choicepoint(pc, next, args) ==
  [PC |-> pc, clause |-> next, FR |-> FR, H |-> H, TR |-> Len(TR), args |-> args,
   equations |-> IF args = <<>> THEN equations ELSE goal.equations]

\* Mutation of Unwound: the bindings of the slots stay
UnwoundHeap(mem, from) ==
  [a \in DOMAIN mem |-> IF a \in Heap /\ a \in ToSet(SubSeq(TR, from + 1, Len(TR)))
                          THEN Ref(a) ELSE mem[a]]

\* unwind_trail
Unwound(mem, from) ==
  [a \in DOMAIN mem |-> IF a \in ToSet(SubSeq(TR, from + 1, Len(TR)))
                          THEN Ref(a) ELSE mem[a]]

\* Mutation of Restored: the arguments are those of the clause that failed
NotRestored(mem, c) == mem

\* apply_choicepoint: the arguments, if it is that of a clause
Restored(mem, c) ==
  [a \in DOMAIN mem |-> IF a \in Args /\ c.args # <<>> THEN c.args[a - ARGS + 1] ELSE mem[a]]

\* backtrack
NoChoice ==
  /\ CP = <<>>
  /\ cells' = Unwound(cells, 0) /\ TR' = <<>>
  /\ status' = "fail"
  /\ UNCHANGED <<clause, PC, FR, H, ARGP, argStack, mode, CP, equations>>
Retry ==
  /\ CP # <<>>
  /\ LET c == Last(CP)
     IN  /\ PC' = c.PC /\ clause' = c.clause /\ FR' = c.FR /\ H' = c.H
         /\ TR' = SubSeq(TR, 1, c.TR)
         /\ cells' = Unwound(Restored(cells, c), c.TR)
         /\ mode' = IF c.args # <<>> THEN "READ" ELSE mode
         /\ equations' = c.equations \o
              (IF c.args = <<>> THEN <<>>
               ELSE Equations(Procedure[c.clause].head, goal.terms))
  /\ CP' = Front(CP)
  /\ ARGP' = ARGS /\ argStack' = <<>>
  /\ status' = "run"
Backtrack == UNCHANGED <<program, compiled, goal>> /\ (NoChoice \/ Retry)

\* An attempt to match `eqs` has failed
NoMatch(eqs) == attempt' = eqs /\ Backtrack

-----------------------------------------------------------------------------
\* What an instruction that goes on leaves alone
Steps(n) == PC' = PC + n /\ UNCHANGED <<program, compiled, clause, FR, goal, attempt, status>>

\* What a program may unify: what it says, and the arguments of p with those of its heads
RECURSIVE Unifications(_)
Unifications(term) ==
  CASE term[1] = "unify" -> {term[2]}
    [] term[1] \in {"and", "or"} -> Unifications(term[2]) \cup Unifications(term[3])
    [] term[1] = "ite" -> UNION {Unifications(term[i]) : i \in 2..4}
    [] term[1] = "not" -> Unifications(term[2])
    [] OTHER -> {}
RECURSIVE LastGoal(_)
LastGoal(term) == IF term[1] = "and" THEN LastGoal(term[3]) ELSE term
Acyclic ==
  \A c \in DOMAIN Procedure :
    \A eqs \in SUBSET (Unifications(Query) \cup Unifications(Procedure[c].body)
                         \cup ToSet(Equations(Procedure[c].head, LastGoal(Query)[3]))) :
      MostGeneral(SetToSeq(eqs)).result # "cyclic"

\* Initially the variables of the query are on the heap and in ARGS; nothing will
\* make a term that contains itself
ClausesInit ==
  /\ program \in (DOMAIN Goals) \X (DOMAIN Procedures)
  /\ compiled = [query |-> compile_query(Query), clauses |-> compile_predicate(Procedure)]
  /\ Acyclic
  /\ clause = 0 /\ PC = 1 /\ FR = STACK + 1
  /\ LET n == Len(VariablesOf(TermsOf(Query)))
     IN  /\ H = n
         /\ cells = [a \in Heap \cup Slots \cup Args |->
                       IF a \in 1..n THEN Ref(a)
                       ELSE IF a \in ARGS..ARGS + n - 1 THEN Ref(a - ARGS + 1) ELSE Unset]
  /\ ARGP = ARGS /\ argStack = <<>> /\ mode = "READ"
  /\ TR = <<>> /\ CP = <<>>
  /\ goal = [words |-> <<>>, terms |-> <<>>, equations |-> <<>>]
  /\ equations = <<>> /\ attempt = <<>>
  /\ status = "run"

\* H_FIRSTVAR, where a structure is built
WriteFirstVar ==
  /\ Executing("H_FIRSTVAR") /\ mode = "WRITE" /\ Room(1)
  /\ H' = H + 1
  /\ cells' = [MAKE_VAR(cells, H + 1) EXCEPT ![ARGP] = Ref(H + 1), ![SlotAt(Operand)] = Ref(ARGP)]
  /\ ARGP' = ARGP + 1
  /\ Steps(1) /\ UNCHANGED <<argStack, mode, TR, CP, equations>>

\* H_FIRSTVAR, where one is matched
ReadFirstVar ==
  /\ Executing("H_FIRSTVAR") /\ mode = "READ"
  /\ cells' = [cells EXCEPT ![SlotAt(Operand)] = cells[ARGP]]
  /\ ARGP' = ARGP + 1
  /\ Steps(1) /\ UNCHANGED <<H, argStack, mode, TR, CP, equations>>

\* H_VAR
MatchVar ==
  /\ Executing("H_VAR")
  /\ LET m == unify(Memory, cells[ARGP], cells[SlotAt(Operand)])
     IN  \/ /\ m.ok
            /\ cells' = m.mem /\ TR' = m.trail /\ ARGP' = ARGP + 1
            /\ Steps(1) /\ UNCHANGED <<H, argStack, mode, CP, equations>>
         \/ ~m.ok /\ NoMatch(equations)

\* H_ATOM
MatchAtom ==
  /\ Executing("H_ATOM")
  /\ LET arg == DEREF(cells, cells[ARGP])
         m   == _bind(Memory, arg, Operand)
     IN  \/ /\ arg = Operand \/ IsRef(arg)
            /\ IF IsRef(arg) THEN cells' = m.mem /\ TR' = m.trail ELSE UNCHANGED <<cells, TR>>
            /\ ARGP' = ARGP + 1
            /\ Steps(1) /\ UNCHANGED <<H, argStack, mode, CP, equations>>
         \/ arg # Operand /\ ~IsRef(arg) /\ NoMatch(equations)

\* H_FUNCTOR of a structure
MatchFunctor ==
  /\ Executing("H_FUNCTOR")
  /\ LET arg == DEREF(cells, cells[ARGP])
         same == arg[1] = "cmp" /\ cells[arg[2]] = <<"fun", Operand>>
     IN  /\ ~IsRef(arg)
         /\ \/ /\ same
               /\ argStack' = Append(argStack, <<ARGP + 1, mode>>)
               /\ ARGP' = arg[2] + 1
               /\ Steps(1) /\ UNCHANGED <<cells, H, mode, TR, CP, equations>>
            \/ ~same /\ NoMatch(equations)

\* H_FUNCTOR of a variable
WriteFunctor ==
  /\ Executing("H_FUNCTOR")
  /\ LET arg == DEREF(cells, cells[ARGP])
         m   == _bind([Memory EXCEPT !.mem = MAKE_COMPOUND(cells, Operand)], arg, Compound(H + 1))
     IN  /\ IsRef(arg) /\ Room(1 + Operand[2])
         /\ cells' = m.mem /\ TR' = m.trail
  /\ H' = H + 1 + Operand[2] /\ ARGP' = H + 2
  /\ argStack' = Append(argStack, <<ARGP + 1, mode>>)
  /\ mode' = "WRITE"
  /\ Steps(1) /\ UNCHANGED <<CP, equations>>

\* H_POP
SavedMode == Last(argStack)[2]
PopMatched ==
  /\ Executing("H_POP")
  /\ ARGP' = Last(argStack)[1] /\ mode' = SavedMode /\ argStack' = Front(argStack)
  /\ Steps(1) /\ UNCHANGED <<cells, H, TR, CP, equations>>

\* I_ENTER
Enter ==
  /\ Executing("I_ENTER")
  /\ ARGP' = ARGS
  /\ Steps(1) /\ UNCHANGED <<cells, H, argStack, mode, TR, CP, equations>>

-----------------------------------------------------------------------------
\* B_ARGFIRSTVAR, B_FIRSTUNSAFEVAR: a new variable, where it is an argument of a
\* structure or in a cell of its own
FirstVar ==
  /\ Executing("B_ARGFIRSTVAR") \/ Executing("B_FIRSTUNSAFEVAR")
  /\ Room(1)
  /\ H' = H + 1
  /\ cells' = [MAKE_VAR(cells, H + 1) EXCEPT ![ARGP] = Ref(H + 1), ![SlotAt(Operand)] = Ref(H + 1)]
  /\ ARGP' = ARGP + 1
  /\ Steps(1) /\ UNCHANGED <<argStack, mode, TR, CP, equations>>

\* B_VAR
BuildVar ==
  /\ Executing("B_VAR")
  /\ cells' = [cells EXCEPT ![ARGP] = cells[SlotAt(Operand)]]
  /\ ARGP' = ARGP + 1
  /\ Steps(1) /\ UNCHANGED <<H, argStack, mode, TR, CP, equations>>

\* B_ARGVAR, B_UNSAFEVAR: a variable of the frame is made one of the heap
IsLocal(w) == IsRef(w) /\ w[2] > STACK
GlobalVar ==
  /\ Executing("B_ARGVAR") \/ Executing("B_UNSAFEVAR")
  /\ LET arg == DEREF(cells, cells[SlotAt(Operand)])
         var == IF Opcode = "B_ARGVAR" THEN arg ELSE cells[SlotAt(Operand)]
         m   == _bind([Memory EXCEPT !.mem = [MAKE_VAR(cells, H + 1) EXCEPT ![ARGP] = Ref(H + 1)]],
                      var, Ref(H + 1))
     IN  IF IsLocal(arg) THEN Room(1) /\ H' = H + 1 /\ cells' = m.mem /\ TR' = m.trail
         ELSE cells' = [cells EXCEPT ![ARGP] = arg] /\ UNCHANGED <<H, TR>>
  /\ ARGP' = ARGP + 1
  /\ Steps(1) /\ UNCHANGED <<argStack, mode, CP, equations>>

\* B_ATOM
BuildAtom ==
  /\ Executing("B_ATOM")
  /\ cells' = [cells EXCEPT ![ARGP] = Operand]
  /\ ARGP' = ARGP + 1
  /\ Steps(1) /\ UNCHANGED <<H, argStack, mode, TR, CP, equations>>

\* B_FUNCTOR, and B_RFUNCTOR, which does not come back
BuildFunctor ==
  /\ Executing("B_FUNCTOR") \/ Executing("B_RFUNCTOR")
  /\ Room(1 + Operand[2])
  /\ cells' = [MAKE_COMPOUND(cells, Operand) EXCEPT ![ARGP] = Compound(H + 1)]
  /\ H' = H + 1 + Operand[2] /\ ARGP' = H + 2
  /\ argStack' = IF Opcode = "B_FUNCTOR" THEN Append(argStack, <<ARGP + 1, "READ">>) ELSE argStack
  /\ Steps(1) /\ UNCHANGED <<mode, TR, CP, equations>>

\* B_POP
PopBuilt ==
  /\ Executing("B_POP")
  /\ ARGP' = Last(argStack)[1] /\ argStack' = Front(argStack)
  /\ Steps(1) /\ UNCHANGED <<cells, H, mode, TR, CP, equations>>

-----------------------------------------------------------------------------
\* I_UNIFY
Unify ==
  /\ Executing("I_UNIFY")
  /\ LET m   == unify(Memory, cells[ARGP - 1], cells[ARGP - 2])
         eqs == Append(equations, Operand)
     IN  \/ /\ m.ok
            /\ cells' = m.mem /\ TR' = m.trail /\ ARGP' = ARGP - 2
            /\ equations' = eqs
            /\ Steps(1) /\ UNCHANGED <<H, argStack, mode, CP>>
         \/ ~m.ok /\ NoMatch(eqs)

\* I_FAIL
Fail == Executing("I_FAIL") /\ UNCHANGED attempt /\ Backtrack

\* TRY_ME_OR_NEXT_CLAUSE, C_OR
TryMe ==
  /\ Executing("TRY_ME_OR_NEXT_CLAUSE")
  /\ CP' = Append(CP, Choicepoint(1, clause + 1, [i \in 1..MaxArity |-> cells[ARGS + i - 1]]))
  /\ Steps(1) /\ UNCHANGED <<cells, H, ARGP, argStack, mode, TR, equations>>
Or ==
  /\ Executing("C_OR")
  /\ CP' = Append(CP, Choicepoint(PC + Operand, clause, <<>>))
  /\ Steps(1) /\ UNCHANGED <<cells, H, ARGP, argStack, mode, TR, equations>>

\* C_JUMP
Jump ==
  /\ Executing("C_JUMP")
  /\ Steps(Operand) /\ UNCHANGED <<cells, H, ARGP, argStack, mode, TR, CP, equations>>

\* C_VAR
LocalVar ==
  /\ Executing("C_VAR")
  /\ cells' = [cells EXCEPT ![SlotAt(Operand)] = Ref(SlotAt(Operand))]
  /\ Steps(1) /\ UNCHANGED <<H, ARGP, argStack, mode, TR, CP, equations>>

\* C_IF_THEN_ELSE; C_CUT
IfThenElse ==
  /\ Executing("C_IF_THEN_ELSE")
  /\ cells' = [cells EXCEPT ![SlotAt(Operand[1])] = <<"cp", Len(CP)>>]
  /\ CP' = Append(CP, Choicepoint(PC + Operand[2], clause, <<>>))
  /\ Steps(1) /\ UNCHANGED <<H, ARGP, argStack, mode, TR, equations>>
Cut ==
  /\ Executing("C_CUT")
  /\ CP' = SubSeq(CP, 1, cells[SlotAt(Operand)][2])
  /\ Steps(1) /\ UNCHANGED <<cells, H, ARGP, argStack, mode, TR, equations>>

-----------------------------------------------------------------------------
\* The term a word is, a variable by its address; a word that is none
RECURSIVE TermOf(_, _)
TermOf(mem, word) ==
  LET w == DEREF(mem, word)
  IN  IF IsRef(w) THEN V(w[2])
      ELSE IF w[1] = "cmp" THEN S(mem[w[2]][2][1], [i \in 1..mem[w[2]][2][2] |-> TermOf(mem, mem[w[2] + i])])
      ELSE w
Called     == Operand
CallWords == [i \in DOMAIN Called |-> cells[ARGS + i - 1]]
TermsAt(words) == [i \in DOMAIN words |-> TermOf(cells, words[i])]
\* The terms under everything that has been unified
Unified == MostGeneral(equations)
Instances(terms) == [i \in DOMAIN terms |-> Replaced(terms[i], Unified.sub)]
Calls      == status = "run" /\ Opcode \in {"I_CALL", "I_DEPART"}

\* I_DEPART of the query: its frame becomes that of p, unless a choicepoint keeps it
Depart ==
  /\ clause = 0 /\ Executing("I_DEPART")
  /\ clause' = 1 /\ PC' = 1 /\ ARGP' = ARGS
  /\ FR' = IF CP = <<>> THEN FR ELSE FR + MaxSlots
  /\ goal' = [words |-> CallWords, terms |-> Called, equations |-> equations]
  /\ equations' = equations \o
       (IF Procedure = <<>> THEN <<>> ELSE Equations(Procedure[1].head, Called))
  /\ cells' = [a \in DOMAIN cells |-> IF a \in Slots /\ CP = <<>> THEN Unset ELSE cells[a]]
  /\ UNCHANGED <<program, compiled, H, argStack, mode, TR, CP, attempt, status>>

\* I_CALL and I_DEPART of p: the goal fails, or succeeds ...
Continue(then) ==
  IF Opcode = "I_CALL" THEN PC' = PC + 1 /\ status' = "run" /\ UNCHANGED then
  ELSE UNCHANGED PC /\ status' = "exit" /\ UNCHANGED then
CallFails == clause > 0 /\ Calls /\ UNCHANGED attempt /\ Backtrack
CallSucceeds ==
  /\ clause > 0 /\ Calls
  /\ Continue(<<program, compiled, clause, cells, FR, H, argStack, mode, TR, CP, goal, attempt, equations>>)
  /\ ARGP' = ARGS

\* ... and may bind the first variable of its arguments to a constant
CallBinds ==
  /\ clause > 0 /\ Calls
  /\ LET var  == VariablesOf(TermsAt(CallWords))
         meant == VariablesOf(Instances(Called))
         m    == _bind(Memory, Ref(var[1][2]), K("k"))
     IN  /\ var # <<>> /\ meant # <<>>
         /\ cells' = m.mem /\ TR' = m.trail
         /\ equations' = Append(equations, <<meant[1], K("k")>>)
  /\ Continue(<<program, compiled, clause, FR, H, argStack, mode, CP, goal, attempt>>)
  /\ ARGP' = ARGS

\* I_EXIT, I_EXIT_FACT
Exit ==
  /\ Executing("I_EXIT") \/ Executing("I_EXIT_FACT")
  /\ status' = "exit" /\ ARGP' = ARGS
  /\ UNCHANGED <<program, compiled, clause, PC, cells, FR, H, argStack, mode, TR, CP, goal, equations, attempt>>

\* Another solution is asked for
Redo == status = "exit" /\ UNCHANGED attempt /\ Backtrack

Ended == status = "fail" /\ UNCHANGED clauseVars

ClausesNext ==
  \/ WriteFirstVar \/ ReadFirstVar \/ MatchVar \/ MatchAtom \/ MatchFunctor
  \/ WriteFunctor \/ PopMatched \/ Enter
  \/ FirstVar \/ BuildVar \/ GlobalVar \/ BuildAtom \/ BuildFunctor \/ PopBuilt
  \/ Unify \/ Fail \/ TryMe \/ Or \/ Jump \/ LocalVar \/ IfThenElse \/ Cut
  \/ Depart \/ CallFails \/ CallSucceeds \/ CallBinds \/ Exit \/ Redo \/ Ended

ClausesSpec == ClausesInit /\ [][ClausesNext]_clauseVars

-----------------------------------------------------------------------------
OnFrame(w) == IsRef(w) /\ w[2] \in Slots

\* Whenever a goal is called and whenever p exits, the arguments of the goal and of
\* p are what the source says: the most general instance under everything that has
\* been unified since the query, with the same variables shared (compile_head,
\* compile_term_creation, compile_body, _make_cvars; execute; unify; backtrack).
CallsAreInstances ==
  /\ Calls \/ status = "exit" => Unified.result = "unified"
  /\ Calls => Variants(TermsAt(CallWords \o goal.words), Instances(Called \o goal.terms))
  /\ status = "exit" => Variants(TermsAt(goal.words), Instances(goal.terms))

\* Matching fails only where what was to be unified cannot be.
FailsRightly == attempt # <<>> => MostGeneral(attempt).result = "different"

\* No cell of the heap and no argument of a call is a reference to the frame,
\* which the next call may overwrite ("a variable on the heap should never point to a
\* location on the stack", README.md); and matching ends in the mode it began in.
NoFrameReferences ==
  /\ \A a \in 1..H : ~OnFrame(cells[a])
  /\ Calls => \A i \in DOMAIN Called : ~OnFrame(cells[ARGS + i - 1])
  /\ Calls => mode = "READ" /\ argStack = <<>>
  /\ status = "run" /\ Opcode \in {"H_FIRSTVAR", "H_VAR"} => Operand < Code.slot_count
===============================================================================
