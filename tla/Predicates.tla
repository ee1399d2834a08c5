------------------------------ MODULE Predicates ------------------------------
(***************************************************************************)
(* One dynamic predicate p/1, its clauses and its code (src/src/module.c), *)
(* and the builtins that read and change them (foreign_impl.c: clause/2,   *)
(* asserta/1, assertz/1, retract/1, abolish/1) while calls of p, clause/2  *)
(* and retract/1 have choicepoints left.                                   *)
(*                                                                         *)
(* A clause is a copy in allocated memory, by block, in the form it was    *)
(* given: of a fact p(A), or of a rule p(A) :- true.  A is atomic or a     *)
(* variable.  clause/2 and retract/1 unify the goal with that copy itself: *)
(* a variable of the clause is bound in place, and trailed.                *)
(***************************************************************************)
EXTENDS Integers, Sequences, FiniteSets

CONSTANTS
  Atomic,      \* constants that are arguments of clauses
  Programs,    \* the clauses that occur together in a program, by form and argument
  MaxBlocks,   \* bound: clauses ever copied
  MaxChoices   \* bound: choicepoints on p/1 at a time

\* A variable is no constant
ASSUME PredAssumption == "var" \notin Atomic

VARIABLES
  texts,      \* the clauses of the program
  clauses,    \* p->clauses: blocks, in order
  stored,     \* the argument in each block, as it is now
  asserted,   \* the clause each block was copied from
  freed,      \* the blocks that have been freed
  code,       \* p->firstClause: for each clause, the argument it was compiled from
  choices,    \* choicepoints of calls, clause/2 and retract/1 (by form) on p, oldest first
  trail,      \* blocks bound in place, oldest first
  events      \* history: what has happened

predicateVars == <<texts, clauses, stored, asserted, freed, code, choices, trail, events>>

Var == "var"
Forms == {"fact", "rule"}
arguments == {t.argument : t \in texts}
Goals == arguments \cup {Var}
NotCompiled == <<"none">>
Block == 1..MaxBlocks

Compiled == [k \in DOMAIN clauses |-> stored[clauses[k]]]
Without1(s, k) == SubSeq(s, 1, k - 1) \o SubSeq(s, k + 1, Len(s))
FirstOf(ks) == CHOOSE k \in ks : \A j \in ks : k <= j

\* unify, of the argument of a goal with the argument of a clause
Unifies(goal, argument) == goal = Var \/ argument = Var \/ goal = argument
\* ... and of a clause with the copy in a block, where `contents` are the arguments
Matches(form, goal, contents, b) == asserted[b].form = form /\ Unifies(goal, contents[b])
Choice(kind, goal, rest, live) ==
  [kind |-> kind, goal |-> goal, rest |-> rest, live |-> live,
   trail |-> Len(trail)]

PredInit ==
  /\ texts \in Programs
  /\ clauses = <<>> /\ stored = <<>> /\ asserted = <<>> /\ freed = {}
  /\ code = NotCompiled /\ choices = <<>> /\ trail = <<>>
  /\ events = {}

(***************************************************************************)
(* Changes.  Whoever changes clauses frees the code, which choicepoints of *)
(* calls run.                                                              *)
(***************************************************************************)
Outdated(chs) == [k \in DOMAIN chs |->
                    IF chs[k].kind = "call" THEN [chs[k] EXCEPT !.live = FALSE] ELSE chs[k]]
Disturbing(others) == IF others = <<>> THEN {} ELSE {"disturbed"}

\* Mutation of AddBlock: the clause is not compiled
AddBlockOnly(text, atEnd) ==
  LET b == Len(stored) + 1
  IN  /\ stored'   = Append(stored, text.argument)
      /\ asserted' = Append(asserted, text)
      /\ clauses'  = IF atEnd THEN Append(clauses, b) ELSE <<b>> \o clauses
      /\ UNCHANGED code

\* The copy of a new clause in the list, and all clauses compiled
AddBlock(text, atEnd) ==
  LET b == Len(stored) + 1
  IN  /\ stored'   = Append(stored, text.argument)
      /\ asserted' = Append(asserted, text)
      /\ clauses'  = IF atEnd THEN Append(clauses, b) ELSE <<b>> \o clauses
      /\ code'     = IF atEnd THEN Append(Compiled, text.argument)
                           ELSE <<text.argument>> \o Compiled

\* asserta, assertz
Assert1(text, atEnd) ==
  /\ Len(stored) < MaxBlocks
  /\ AddBlock(text, atEnd)
  /\ choices' = Outdated(choices)
  /\ events'  = (events \ {"late"}) \cup Disturbing(choices)
  /\ UNCHANGED <<freed, trail>>

\* add_clause, while consulting: nothing is compiled, and old code stays.  (A directive has
\* made p dynamic.)
Consult1(text) ==
  /\ Len(stored) < MaxBlocks
  /\ LET b == Len(stored) + 1
     IN  clauses' = Append(clauses, b)
  /\ stored'   = Append(stored, text.argument)
  /\ asserted' = Append(asserted, text)
  /\ events'   = IF code = NotCompiled THEN events ELSE events \cup {"late"}
  /\ UNCHANGED <<freed, code, choices, trail>>

\* abolish/1: everything goes, and the next clause makes a new predicate.  The copies are
\* freed, and then free_predicate reads them to release their constants: as they were, or
\* whatever they hold by then.  Nothing is wrong with a predicate that has no clauses, but
\* with one that is not known, of which the flags are read.
Abolish1 ==
  /\ freed'   = freed \cup {clauses[k] : k \in DOMAIN clauses}
  /\ clauses' = <<>> /\ code' = NotCompiled
  /\ choices' = Outdated(choices)
  /\ LET done == (events \ {"late"}) \cup Disturbing(choices)
     IN  \/ clauses = <<>>  /\ events' = done
         \/ clauses # <<>> /\ events' = done \cup {"abolished"}
         \/ /\ clauses # <<>> \/ code = NotCompiled
            /\ events' = done \cup {"abolished", "misused"}
  /\ UNCHANGED <<stored, asserted, trail>>

(***************************************************************************)
(* Answers                                                                 *)
(***************************************************************************)
\* Unifying the goal with block b itself: what is bound is the variable in the block,
\* if there is one, and otherwise the variable of the goal.  (Two variables: that in the
\* block is bound to that of the goal, which does not get a value here.)
Binds(goal, b) == stored[b] = Var /\ goal # Var
StoredAfter(goal, b)      == IF Binds(goal, b) THEN [stored EXCEPT ![b] = goal] ELSE stored
TrailAfter(tr, goal, b)   == IF Binds(goal, b) THEN Append(tr, b) ELSE tr

\* The goal, once it is unified with block b
Instance(goal, b) == IF goal = Var THEN stored[b] ELSE goal

\* Mutation of Rest: the clause is left in
RestWithThis(snapshot) == snapshot

\* What the choicepoint keeps: the rest of the list made of the clauses (term_from_list)
Rest(snapshot) == Tail(snapshot)

\* clause/2 with the snapshot `snapshot`.  The choicepoint comes before unification.  Every
\* compound clause is taken for a rule.  A fact's argument is so unified with the goal,
\* which fails; or, if it is a variable, succeeds, and the body is looked for beyond the
\* end of the copy.
TryClause(goal, snapshot, chs) ==
  IF snapshot = <<>> THEN
       /\ choices' = chs
       /\ UNCHANGED <<clauses, stored, freed, code, trail, events>>
  ELSE LET b      == snapshot[1]
           isFact == asserted[b].form = "fact"
       IN  /\ choices' = Append(chs, Choice("clause", goal, Rest(snapshot), TRUE))
           /\ events'  = IF b \in freed \/ (isFact /\ stored[b] = Var)
                           THEN events \cup {"misused"} ELSE events
           /\ IF b \notin freed /\ ~isFact /\ Unifies(goal, stored[b])
                THEN /\ stored'  = StoredAfter(goal, b)
                     /\ trail'   = TrailAfter(trail, goal, b)
                ELSE UNCHANGED <<stored, trail>>
           /\ UNCHANGED <<clauses, freed, code>>

\* Mutation of Victims: the last one goes
LastVictim(form, instance, contents) ==
  LET ks == {k \in DOMAIN clauses : Matches(form, instance, contents, clauses[k])}
  IN  {k \in ks : \A j \in ks : k >= j}

\* retract in module.c, list_delete_first: the first clause that unifies with what
\* the goal has become, fact or rule
Victims(form, instance, contents) ==
  LET ks == {k \in DOMAIN clauses : Matches(form, instance, contents, clauses[k])}
  IN  {k \in ks : \A j \in ks : k <= j}

\* retract/1: the goal is unified with the next clause of the snapshot, then the first
\* clause that unifies is deleted and freed, and the others are compiled
TryRetract(form, goal, snapshot, chs) ==
  IF snapshot = <<>> THEN
       /\ choices' = chs
       /\ UNCHANGED <<clauses, stored, freed, code, trail, events>>
  ELSE LET b     == snapshot[1]
           left  == IF Rest(snapshot) = <<>> THEN chs
                    ELSE Append(chs, Choice(form, goal, Rest(snapshot), TRUE))
           after == StoredAfter(goal, b)
           gone  == Victims(form, Instance(goal, b), after)
       IN  IF b \in freed \/ ~Matches(form, goal, stored, b) THEN
                /\ choices' = left
                /\ events'  = IF b \in freed THEN events \cup {"misused"} ELSE events
                /\ UNCHANGED <<clauses, stored, freed, code, trail>>
           ELSE /\ stored'  = after
                /\ trail'   = TrailAfter(trail, goal, b)
                /\ clauses' = IF gone = {} THEN clauses
                              ELSE Without1(clauses, CHOOSE k \in gone : TRUE)
                /\ freed'   = freed \cup {clauses[k] : k \in gone}
                /\ code'    = [k \in DOMAIN clauses' |-> after[clauses'[k]]]
                /\ choices' = Outdated(left)
                /\ events'  = (events \ {"late"}) \cup Disturbing(chs)
                                \cup (IF {clauses[k] : k \in gone} = {b} THEN {} ELSE {"other"})

\* The code of the clauses from the k-th on
TryCall(goal, program, k, chs) ==
  /\ choices' = IF k < Len(program)
                  THEN Append(chs, Choice("call", goal, SubSeq(program, k + 1, Len(program)), TRUE))
                  ELSE chs
  /\ UNCHANGED <<clauses, stored, freed, trail, events>>

(***************************************************************************)
(* Goals                                                                   *)
(***************************************************************************)
MayChoose == Len(choices) < MaxChoices

\* p(goal): get_predicate_code compiles what has not been compiled
CallPredicate(goal) ==
  /\ MayChoose /\ clauses # <<>>
  /\ code' = IF code = NotCompiled THEN Compiled ELSE code
  /\ TryCall(goal, code', 1, choices)
  /\ UNCHANGED asserted

ClauseGoal(goal) ==
  MayChoose /\ clauses # <<>> /\ TryClause(goal, clauses, choices) /\ UNCHANGED asserted

RetractGoal(form, goal) ==
  MayChoose /\ clauses # <<>> /\ TryRetract(form, goal, clauses, choices) /\ UNCHANGED asserted

\* The newest choicepoints are cut
CutChoices ==
  /\ choices # <<>>
  /\ \E n \in 0..Len(choices) - 1 : choices' = SubSeq(choices, 1, n)
  /\ UNCHANGED <<clauses, stored, asserted, freed, code, trail, events>>

\* Mutation of Unbound: clauses are not reset
UnboundNothing(blocks) == stored

\* unwind_trail: the variables in the blocks are free again
Unbound(blocks) == [b \in DOMAIN stored |-> IF b \in blocks THEN Var ELSE stored[b]]

\* backtrack, to the newest choicepoint, or one before all these: what was bound since is
\* undone, in freed blocks too.  The goal is tried again in a step of its own.
Undo ==
  /\ LET mark == IF choices = <<>> THEN 0 ELSE choices[Len(choices)].trail
         blocks == {trail[k] : k \in mark + 1..Len(trail)}
     IN  /\ Len(trail) > mark
         /\ stored'  = Unbound(blocks)
         /\ trail'   = SubSeq(trail, 1, mark)
         /\ events'  = IF blocks \cap freed # {} THEN events \cup {"misused"} ELSE events
  /\ UNCHANGED <<clauses, asserted, freed, code, choices>>

Retry ==
  /\ choices # <<>>
  /\ LET c   == choices[Len(choices)]
         chs == SubSeq(choices, 1, Len(choices) - 1)
     IN  /\ Len(trail) = c.trail
         /\ \/ c.kind = "clause" /\ TryClause(c.goal, c.rest, chs)
            \/ c.kind \in Forms /\ TryRetract(c.kind, c.goal, c.rest, chs)
            \/ /\ c.kind = "call" /\ c.live
               /\ TryCall(c.goal, c.rest, 1, chs) /\ UNCHANGED code
            \/ \* The code has been freed, whatever runs now
               /\ c.kind = "call" /\ ~c.live
               /\ choices' = chs /\ events' = events \cup {"misused"}
               /\ UNCHANGED <<clauses, stored, freed, code, trail>>
  /\ UNCHANGED asserted

PredNext ==
  /\ "misused" \notin events /\ UNCHANGED texts
  /\ \/ \E t \in texts : Assert1(t, TRUE) \/ Assert1(t, FALSE) \/ Consult1(t)
     \/ Abolish1
     \/ \E g \in Goals : \/ CallPredicate(g) \/ ClauseGoal(g)
                        \/ \E f \in Forms : RetractGoal(f, g)
     \/ CutChoices \/ Undo \/ Retry

PredSpec == PredInit /\ [][PredNext]_predicateVars

(***************************************************************************)
(* Properties                                                              *)
(***************************************************************************)
\* Programs whose clauses have constants as arguments
Plain == arguments \subseteq Atomic
\* ... and that change p only when no other goal on p can be resumed
Careful == Plain /\ "disturbed" \notin events

\* The code of p is that of the clauses as they were asserted, in order.  Not so after a
\* clause has been consulted since p was first called, until p is changed by other
\* means; nor if clauses have variables, which clause/2 and retract/1 may have bound
\* when the clauses are compiled.
CodeIsClauses ==
  Plain /\ code # NotCompiled /\ "late" \notin events =>
    code = [k \in DOMAIN clauses |-> asserted[clauses[k]].argument]

\* A variable in a clause that no goal can be backtracked to is bound by none: when all
\* choicepoints have been tried to the end, every clause is as it was asserted.
ClausesRecover ==
  trail = <<>> => \A k \in DOMAIN clauses : stored[clauses[k]] = asserted[clauses[k]].argument

\* retract/1 removes the clause its goal was unified with, as long as nobody else
\* changes p between its answers.
RetractsItsClause == Careful => "other" \notin events

\* Freed clauses and freed code are neither read nor written, and nothing is read beyond a
\* clause, by programs that do not change p while other goals on it can be resumed, if
\* clauses are plain.  Except by abolish/1, which always reads the clauses it has freed.
NoFreedUse == Careful /\ "abolished" \notin events => "misused" \notin events
===============================================================================
