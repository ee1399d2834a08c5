------------------------------ MODULE Queries -------------------------------
(***************************************************************************)
(* Queries within queries (README.md, Recursive Queries): a foreign        *)
(* predicate, or the host while a query has yielded, saves the state of    *)
(* the machine (push_state), runs queries of its own above it and goes     *)
(* back to it (restore_state); src/src/kernel.c.                           *)
(*                                                                         *)
(* A saved state is a choicepoint; the choicepoints below it are out of    *)
(* reach until it is restored.  The trail is not moved by push_state, but  *)
(* a query that fails resets it, and restore_state sets TR back to where   *)
(* it was: so the words of TRAIL above TR matter here.                     *)
(***************************************************************************)
EXTENDS Exceptions

CONSTANT MaxStates   \* bound: states that are saved at a time

ASSUME StatesAssumption == MaxStates \in Nat

VARIABLES
  states,  \* the saved states: the choicepoints up to the saved one, and
           \* whether the machine was running or had yielded
  memory   \* the words of TRAIL that have been written

qvars == <<vars, states, memory>>

\* What is left in TRAIL once its first words are those of t
Written(t) ==
  [k \in DOMAIN memory \cup DOMAIN t |-> IF k \in DOMAIN t THEN t[k] ELSE memory[k]]

(***************************************************************************)
(* The machine, with no regard for the saved states                        *)
(***************************************************************************)
Machine ==
  /\ Next \/ Throw
  /\ UNCHANGED states
  /\ memory' = Written(trail')

\* A foreign predicate returns YIELD: execute() returns to the host
Yield ==
  /\ Running("foreign")
  /\ status' = "yield"
  /\ Unify(heap, trail)
  /\ UNCHANGED <<FR, SP, frames, cps, pos, owned, states, uses>>
  /\ memory' = Written(trail')

\* resume_yield: the host lets the predicate succeed, fail or raise an error
ResumeYield ==
  /\ status = "yield"
  /\ \/ status' = "run" /\ Unify(heap, trail) /\ Leave(cps) /\ UNCHANGED cps
     \/ Backtrack
     \/ status' = "throw" /\ UNCHANGED <<FR, SP, frames, cps, pos, heap, trail, owned>>
  /\ UNCHANGED <<states, uses>>
  /\ memory' = Written(trail')

(***************************************************************************)
(* Saving and restoring                                                    *)
(***************************************************************************)
\* Mutation of PushState: the choicepoints below stay within reach
PushStateOpen ==
  /\ Running("foreign") \/ status = "yield"
  /\ Len(states) < MaxStates
  /\ LET c == Alternative("Body", pos, Null)
     IN  /\ Fits(c)
         /\ SP' = AfterChoice(c)
         /\ states' = Append(states, [choices |-> Append(cps, c), status |-> status])
         /\ cps' = Append(cps, c)
  /\ status' = "host"
  /\ UNCHANGED <<FR, frames, pos, heap, trail, owned, uses, memory>>

PushState ==
  /\ Running("foreign") \/ status = "yield"
  /\ Len(states) < MaxStates
  /\ LET c == Alternative("Body", pos, Null)
     IN  /\ Fits(c)
         /\ SP' = AfterChoice(c)
         /\ states' = Append(states, [choices |-> Append(cps, c), status |-> status])
  /\ cps' = <<>>
  /\ status' = "host"
  /\ UNCHANGED <<FR, frames, pos, heap, trail, owned, uses, memory>>

\* execute_query, up to its first instruction (prepare_query)
ExecuteQuery ==
  /\ status \in {"host", "success", "choices", "fail", "error"} /\ states # <<>>
  /\ SP + 1 + QueryReserved <= StackSize
  /\ \E clause \in 1..MaxLocals :
       /\ Fresh(clause, owned)
       /\ owned'  = owned \cup {clause}
       /\ frames' = Put(Put(Below(SP, frames), SP, HostFrame(cps)),
                        SP + 1, GoalFrame(cps, SP, clause))
  /\ FR' = SP + 1 /\ SP' = SP + 2
  /\ pos' = At("body")
  /\ status' = "run"
  /\ UNCHANGED <<cps, heap, trail, states, uses, memory>>

\* Mutation of ChoicesUnder: CP stays NULL
ChoicesUnderNone(saved) == <<>>
\* The choicepoints below that of a saved state
ChoicesUnder(saved)     == SubSeq(saved.choices, 1, Len(saved.choices) - 1)

\* cut_to(0) may stop at a cleanup choicepoint; restore_state goes on all the
\* same, to the choicepoint of the state
RestoreState ==
  /\ status \in {"host", "success", "choices", "fail", "error", "yield"}
  /\ states # <<>>
  /\ LET saved == states[Len(states)]
         c     == saved.choices[Len(saved.choices)]
     IN  \E n \in {1} \cup {i \in DOMAIN cps : cps[i].cleanup # Null} :
           LET left == {f \in Continuation : f > c.fr /\ frames[f].isLocal}
               gone == CutFrames(n - 1) \cup left
           IN  /\ cps'    = ChoicesUnder(saved)
               /\ status' = saved.status
               /\ heap'   = SubSeq(heap, 1, c.h)
               /\ trail'  = SubSeq(memory, 1, c.tr)
               /\ Apply(c, gone)
  /\ states' = SubSeq(states, 1, Len(states) - 1)
  /\ UNCHANGED <<uses, memory>>

QueriesInit == Init /\ states = <<>> /\ memory = <<>>

QueriesNext ==
  Machine \/ Yield \/ ResumeYield \/ PushState \/ ExecuteQuery \/ RestoreState

QueriesSpec == QueriesInit /\ [][QueriesNext]_qvars

(***************************************************************************)
(* Properties                                                              *)
(***************************************************************************)
SavedChoices ==
  UNION {{states[i].choices[k] : k \in DOMAIN states[i].choices} : i \in DOMAIN states}
AllChoices == Choices \cup SavedChoices

\* The registers and the saved states have their types.
QueriesTypeOK ==
  /\ status \in Statuses \cup {"throw", "error", "yield", "host"}
  /\ RegistersOK
  /\ states \in Seq([choices : Seq(ChoiceType), status : {"run", "yield"}])
  /\ memory \in Seq(1..HeapSize)

\* As long as states are saved and restored, queries within queries are safe
\* (README.md:64): nothing is written over a frame or a choicepoint, with the arguments
\* it saves, that can still be gone back to, in the queries around the one that runs or
\* in those that ended with an error before it.
QueriesAreSafe == Separate(AllChoices)

\* So it is, however many queries end with an error, as long as no foreign predicate
\* raises one after it left a choicepoint.
OuterIntact == "late error" \notin uses => QueriesAreSafe

\* The clauses that the frames of the queries around it run are not freed by a
\* query, nor by going back to them, in programs without cleanup handlers.
OuterNotFreed ==
  "cleanup" \notin uses =>
    \A f \in UNION {Ancestors(c.fr) : c \in SavedChoices} :
      frames[f].clause # Null => frames[f].clause \in owned

\* The choicepoint of a saved state
Mark(saved) == saved.choices[Len(saved.choices)]

\* As long as a state is saved, nothing is done to the frames below its choicepoint, and
\* nothing is written over that: whatever the queries above it call, cut, throw or
\* backtrack over, and whichever of them are given up halfway.
OuterStay ==
  [][\A k \in DOMAIN states :
       LET c == Mark(states[k])
       IN  /\ Below(c.at, frames') = Below(c.at, frames)
           /\ k \in DOMAIN states' => AfterChoice(c) <= SP']_qvars

\* Going back to a saved state undoes what was bound since, and nothing else
\* (README.md:64).
RestoreUndoes ==
  [][Len(states') < Len(states) =>
       LET saved == states[Len(states)].choices
       IN  heap' = saved[Len(saved)].snap]_qvars
=============================================================================
