----------------------------- MODULE Exceptions -----------------------------
(***************************************************************************)
(* Errors in the abstract machine: how throw/1, foreign predicates, calls  *)
(* of unknown procedures and goals that cannot be compiled raise a ball,   *)
(* and how b_throw_foreign (src/src/kernel.c) looks for the catch/3 that   *)
(* takes it.  While the ball is on its way, status is "throw".             *)
(***************************************************************************)
EXTENDS Kernel

(***************************************************************************)
(* Raising                                                                 *)
(***************************************************************************)
\* B_THROW, I_CALL of an unknown procedure, I_USERCALL of a goal that cannot
\* be compiled, or an error of a foreign predicate
Raise ==
  /\ status = "run" /\ pos.phase \in {"body", "foreign"}
  /\ status' = "throw"
  /\ UNCHANGED <<FR, SP, frames, cps, pos, heap, trail, owned, uses>>

\* A foreign predicate fails with an error after it left a choicepoint; SP is
\* moved past that, but not past the arguments it saves
RaiseNondet ==
  /\ Running("foreign") /\ "late error" \in uses
  /\ LET c == Alternative("Head", At("foreign"), Null)
     IN  /\ Fits(c)
         /\ cps' = Append(cps, c)
         /\ SP'  = c.at + 1
  /\ status' = "throw"
  /\ UNCHANGED <<FR, frames, pos, heap, trail, owned, uses>>

\* I_CATCH of a goal that cannot be compiled: its choicepoint is there already
RaiseCatch ==
  /\ Running("catch")
  /\ LET c == Alternative("Head", NoPC, Null)
     IN  /\ Fits(c)
         /\ cps'    = Append(cps, c)
         /\ SP'     = AfterChoice(c)
         /\ frames' = [frames EXCEPT ![FR].choicepoint = c.at, ![FR].cuts[1] = c.at]
  /\ status' = "throw"
  /\ UNCHANGED <<FR, pos, heap, trail, owned, uses>>

\* I_DEPART to an unknown procedure, with the flag unknown set to error: the
\* clause of the frame is freed, and SP moved back, before the procedure is
\* looked up; FR stays
RaiseDepart ==
  /\ Running("body") /\ ~InCondition /\ "unknown" \in uses
  /\ owned' = owned \ IF FR >= CP THEN ClausesOf({FR}) ELSE {}
  /\ SP' = AfterExit(cps)
  /\ status' = "throw"
  /\ UNCHANGED <<FR, frames, cps, pos, heap, trail, uses>>

(***************************************************************************)
(* b_throw_foreign: each active catch/3, innermost first, is returned to,  *)
(* and may take the ball.  Going back to its choicepoint applies it and    *)
(* the choicepoints above it, which frees clauses as backtracking does;    *)
(* the trail is unwound down to the choicepoint above its own only.        *)
(***************************************************************************)
Catchers == {f \in Continuation : frames[f].kind = "catch/3"}

ChoiceOf(f) == CHOOSE i \in DOMAIN cps : cps[i].at = frames[f].choicepoint

\* The trail entries from the creation of choicepoint i to that of the next
Segment(i) ==
  {trail[k] : k \in cps[i].tr + 1..(IF i = Len(cps) THEN Len(trail) ELSE cps[i + 1].tr)}

\* The cells that are reset on the way back to the catcher at choicepoint n
Unwound(n) ==
  UNION {Segment(i) : i \in n..Len(cps) \ {ChoiceOf(f) : f \in Catchers}}

\* The heap, the stack, the clauses and the choicepoints once the catchers up
\* to the one at choicepoint n have been returned to
HeapAt(n)  == [cell \in 1..cps[n].h |-> IF cell \in Unwound(n) THEN cell ELSE heap[cell]]
StackAt(n) == Below(cps[n].at, Disowned(frames, Abandoned(n)))

\* Mutations of OwnedAt: every active frame loses its clause, or only FR does
OwnedAtNone(n) == owned \ ClausesOf(Continuation)
OwnedAtTop(n)  == owned \ ClausesOf({FR})
OwnedAt(n)     == owned \ ClausesOf(Abandoned(n))

\* Mutations of ChoicesAt: the choicepoint of the catcher stays, or the one below goes
ChoicesAtCatch(n) == SubSeq(cps, 1, n)
ChoicesAtLess(n)  == SubSeq(cps, 1, n - 2)
ChoicesAt(n)      == SubSeq(cps, 1, n - 1)

\* The catcher f takes the ball: its handler is called in place of it, above
\* its frame, which can no longer catch
Caught ==
  /\ status = "throw" /\ status' = "run"
  /\ \E f \in Catchers :
       LET n == ChoiceOf(f)
       IN  /\ cps' = ChoicesAt(n)
           /\ Unify(HeapAt(n), SubSeq(trail, 1, cps[n].tr))
           /\ UserCall(frames[f].parent, AfterFrame(f),
                       [StackAt(n) EXCEPT ![f].kind = "caught"],
                       cps', OwnedAt(n), frames[f].ret)
  /\ UNCHANGED uses

\* No catcher takes the ball: the query ends, without a current frame
Uncaught ==
  /\ status = "throw" /\ status' = "error"
  /\ FR' = Null
  /\ \/ /\ Catchers = {}
        /\ UNCHANGED <<SP, frames, cps, pos, heap, trail, owned>>
     \/ \E f \in Catchers :
          LET n == ChoiceOf(f)
          IN  /\ \A g \in Catchers : f <= g
              /\ SP'     = AfterFrame(f)
              /\ pos'    = NoPC
              /\ frames' = StackAt(n)
              /\ cps'    = ChoicesAt(n)
              /\ heap'   = HeapAt(n)
              /\ trail'  = SubSeq(trail, 1, cps[n].tr)
              /\ owned'  = OwnedAt(n)
  /\ UNCHANGED uses

Throw == Raise \/ RaiseNondet \/ RaiseCatch \/ RaiseDepart \/ Caught \/ Uncaught

ThrowSpec == Init /\ [][Next \/ Throw]_vars

(***************************************************************************)
(* Properties, besides those of Kernel                                     *)
(***************************************************************************)
\* The registers have their types while a ball is on its way, and after an error.
ThrowTypeOK == status \in Statuses \cup {"throw", "error"} /\ RegistersOK

\* The choicepoint that a catch/3 pushed is there, and still its own, for as long
\* as a ball can be caught by it (the frame's choicepoint is cached: cuts and
\* backtracking that discard choicepoints do not look at it).
CatchTargets ==
  status \in {"run", "throw"} =>
    \A f \in Catchers :
      \/ pos.phase = "catch" /\ f = FR /\ status = "run"
      \/ \E c \in Choices : c.at = frames[f].choicepoint /\ c.fr = f

\* Every clause that is freed on the way to a catch/3 has not been freed before.
FreedOnce ==
  status = "throw" => \A f \in Catchers : ClausesOf(Abandoned(ChoiceOf(f))) \subseteq owned
=============================================================================
