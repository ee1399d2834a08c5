------------------------------- MODULE Kernel -------------------------------
(***************************************************************************)
(* The abstract machine of src/src/kernel.c while it proves one query:     *)
(* frames and choicepoints on the stack, the heap, the trail, cuts and     *)
(* conditions, catch/3 as long as nothing is thrown, cleanup handlers,     *)
(* foreign predicates, and the ownership of clauses compiled by call/1.    *)
(*                                                                         *)
(* The module runs no particular program.  The next instruction is any     *)
(* instruction the compiler could have emitted at this place of a clause,  *)
(* so that every program (within the bounds) is a behaviour.  What is kept *)
(* of PC is the place within the clause: how far the clause has got and    *)
(* which conditions of if-then-elses are open around it.                   *)
(*                                                                         *)
(* Stack addresses are counted so that a frame takes one word and one per  *)
(* slot, and a choicepoint one word and, if it saves the argument          *)
(* registers, ArgWords more.                                               *)
(***************************************************************************)
EXTENDS Integers, Sequences

CONSTANTS
  StackSize,      \* STACK_SIZE, in words
  HeapSize,       \* HEAP_SIZE, in cells
  TrailSize,      \* TRAIL_SIZE, in entries
  ArgWords,       \* words of ARGS a Head choicepoint saves
  MaxSlots,       \* most cut slots any clause reserves
  QueryReserved,  \* cut slots the clause of the top-level goal reserves
  MaxLocals,      \* bound: clauses compiled by call/1 that exist at a time
  Atoms,          \* constants a variable can be bound to
  Programs        \* sets of facilities; a program uses those of one of them

\* "predicate" stands for calls of predicates defined by clauses, "unknown" for
\* calls of procedures that are not defined, and "late error" for foreign predicates
\* that raise an error after they left a choicepoint (module Exceptions)
Facilities ==
  {"predicate", "call/1", "catch/3", "condition", "C_LCUT", "foreign", "cleanup",
   "unknown", "late error"}

ASSUME BoundsAssumption ==
  /\ StackSize \in Nat /\ HeapSize \in Nat /\ TrailSize \in Nat
  /\ ArgWords \in Nat /\ MaxSlots \in Nat \ {0} /\ MaxLocals \in Nat \ {0}
  /\ QueryReserved \in 0..MaxSlots
  /\ StackSize >= 2 + QueryReserved
  /\ Atoms \cap 1..HeapSize = {}
  /\ Programs \subseteq SUBSET Facilities

VARIABLES
  status,   \* what execute() is doing, or how it ended
  FR,       \* the current frame
  SP,       \* the next free stack address
  frames,   \* the frames in the stack below SP, by address
  cps,      \* the choicepoints, oldest first: CP is the last one
  pos,      \* PC, as a place within the clause of FR
  heap,     \* HEAP up to H: a cell holding its own address is unbound
  trail,    \* TRAIL up to TR
  owned,    \* clauses allocated by compile_query and not yet freed
  uses      \* the facilities the program uses

vars == <<status, FR, SP, frames, cps, pos, heap, trail, owned, uses>>

(***************************************************************************)
(* Places in a clause.  "open" lists the cut slots of the conditions that  *)
(* are open, innermost last; "used" counts the cut slots handed out.       *)
(***************************************************************************)
Null == 0
Slot == 1..MaxSlots
Phases == {"entry", "body", "catch", "exitcatch", "foreign", "query", "none"}
Pos == [phase : Phases, open : Seq(Slot), used : 0..MaxSlots]

At(phase) == [phase |-> phase, open |-> <<>>, used |-> 0]
NoPC      == At("none")

\* What can be called, where its code starts and the slots its clauses need:
\* the first slot of catch/3 holds its choicepoint, that of a foreign
\* predicate its backtrack pointer.
Kinds == (IF "predicate" \in uses THEN {"pred"} ELSE {})
         \cup (uses \cap {"catch/3", "foreign"})
Start(kind) ==
  At(CASE kind = "pred" -> "entry" [] kind = "catch/3" -> "catch" [] kind = "foreign" -> "foreign")
SlotCounts(kind) == IF kind = "pred" THEN 0..MaxSlots ELSE {1}

(***************************************************************************)
(* Reading the registers and the stack                                     *)
(***************************************************************************)
Top(cs) == IF cs = <<>> THEN Null ELSE cs[Len(cs)].at
CP      == Top(cps)

AfterFrame(f)  == f + 1 + frames[f].slotCount
AfterChoice(c) == c.at + 1 + (IF c.type = "Head" THEN ArgWords ELSE 0)

\* f and the frames reached from it through parent links
Ancestors(f) ==
  LET anc[a \in 0..StackSize] ==
        IF a \in DOMAIN frames THEN {a} \cup anc[frames[a].parent] ELSE {}
  IN  anc[f]

\* The frames of fs that lie below the stack pointer sp
Below(sp, fs) == [f \in {g \in DOMAIN fs : g < sp} |-> fs[f]]
Put(fs, at, frame) ==
  [f \in DOMAIN fs \cup {at} |-> IF f = at THEN frame ELSE fs[f]]

Frame(kind, parent, target, clause, slotCount, ret) ==
  [kind |-> kind, parent |-> parent, choicepoint |-> target,
   clause |-> clause, isLocal |-> clause # Null, slotCount |-> slotCount,
   ret |-> ret, cuts |-> [s \in Slot |-> Null]]

Running(phase) == status = "run" /\ pos.phase = phase
InCondition    == pos.open # <<>>
Innermost      == pos.open[Len(pos.open)]

\* Whether the allocator returns clause c when the ids in used are taken
Fresh(c, used) == c \notin used /\ 1..c - 1 \subseteq used
ClausesOf(fs) == {frames[f].clause : f \in {g \in fs : frames[g].isLocal}}

(***************************************************************************)
(* Undoing bindings                                                        *)
(***************************************************************************)

\* Mutation of Trailed: unwind_trail stops one entry early
TrailedButLast(t) == {trail[k] : k \in t + 1..Len(trail) - 1}
Trailed(t)   == {trail[k] : k \in t + 1..Len(trail)}
\* The first h cells once the trail is unwound down to t
Undone(t, h) == [c \in 1..h |-> IF c \in Trailed(t) THEN c ELSE heap[c]]

\* Mutation of Bind: the newest cell is not trailed
BindOldTrailed(h, t, cell, value) ==
  /\ h[cell] = cell
  /\ value \in Atoms \cup {older \in 1..cell - 1 : h[older] = older}
  /\ Len(t) < TrailSize
  /\ heap'  = [h EXCEPT ![cell] = value]
  /\ trail' = IF cell < Len(h) THEN Append(t, cell) ELSE t

\* _bind: an unbound cell of h gets a constant, or a reference to an older cell
Bind(h, t, cell, value) ==
  /\ h[cell] = cell
  /\ value \in Atoms \cup {older \in 1..cell - 1 : h[older] = older}
  /\ Len(t) < TrailSize
  /\ heap'  = [h EXCEPT ![cell] = value]
  /\ trail' = Append(t, cell)

BindSome(h, t) ==
  \E cell \in DOMAIN h, value \in Atoms \cup DOMAIN h : Bind(h, t, cell, value)

\* A unification that succeeds and binds at most one variable, from heap h and trail t
Unify(h, t) ==
  \/ heap' = h /\ trail' = t
  \/ BindSome(h, t)

(***************************************************************************)
(* Choicepoints.  snap is a history variable: the heap when the            *)
(* choicepoint was created.                                                *)
(***************************************************************************)
NewChoice(type, pc, clause, slotCount, cleanup) ==
  [at |-> SP, fr |-> FR, tr |-> Len(trail), h |-> Len(heap), type |-> type,
   pc |-> pc, clause |-> clause, slotCount |-> slotCount,
   cleanup |-> cleanup, snap |-> heap]

\* A choicepoint that comes back to the clause of FR at pc
Alternative(type, pc, cleanup) ==
  NewChoice(type, pc, frames[FR].clause, frames[FR].slotCount, cleanup)

Fits(c) == AfterChoice(c) <= StackSize + 1

(***************************************************************************)
(* Frames                                                                  *)
(***************************************************************************)
\* Mutation of Push: the check against STOP allows one word too many
PushPastStop(fs, at, frame) ==
  /\ at + frame.slotCount <= StackSize + 1
  /\ frames' = Put(fs, at, frame)
  /\ FR' = at
  /\ SP' = at + 1 + frame.slotCount

\* Push frame at address "at" over what fs keeps
Push(fs, at, frame) ==
  /\ at + frame.slotCount <= StackSize
  /\ frames' = Put(fs, at, frame)
  /\ FR' = at
  /\ SP' = at + 1 + frame.slotCount

\* i_usercall: compile the goal, and run it in a frame of its own that owns
\* the clause
UserCall(parent, at, fs, cs, kept, ret) ==
  /\ \E clause \in 1..MaxLocals :
       /\ Fresh(clause, kept)
       /\ owned' = kept \cup {clause}
       /\ \E n \in 0..MaxSlots :
            Push(fs, at, Frame("pred", parent, Top(cs), clause, n, ret))
  /\ pos' = At("body")

\* Mutation of AfterExit: the last choicepoint is not looked at
AfterExitAlwaysFrame(cs) == AfterFrame(frames[FR].parent)

\* i_exit, with cs the choicepoints that are left
AfterExit(cs) ==
  IF Top(cs) < frames[FR].parent
    THEN AfterFrame(frames[FR].parent)
    ELSE AfterChoice(cs[Len(cs)])

\* Mutation of Leave: the clause is freed although a choicepoint may need it
LeaveFreeing(cs) ==
  /\ SP'     = AfterExit(cs)
  /\ FR'     = frames[FR].parent
  /\ pos'    = frames[FR].ret
  /\ frames' = Below(AfterExit(cs), frames)
  /\ owned'  = owned \ ClausesOf({FR})

Leave(cs) ==
  /\ SP'     = AfterExit(cs)
  /\ FR'     = frames[FR].parent
  /\ pos'    = frames[FR].ret
  /\ frames' = Below(AfterExit(cs), frames)
  /\ owned'  = owned \ IF FR >= AfterExit(cs) THEN ClausesOf({FR}) ELSE {}

(***************************************************************************)
(* backtrack(): apply choicepoints until one has code to resume.  Each     *)
(* application frees the clauses of the frames between the current frame   *)
(* and the frame of the choicepoint.                                       *)
(***************************************************************************)
Resumed(n) ==
  /\ \A i \in n + 1..Len(cps) : cps[i].pc = NoPC
  /\ cps[n].pc = NoPC => n = 1

Abandoned(n) ==
  UNION {{f \in Ancestors(IF i = Len(cps) THEN FR ELSE cps[i + 1].fr) :
             f > cps[i].fr /\ frames[f].isLocal} : i \in n..Len(cps)}

Disowned(fs, gone) ==
  [f \in DOMAIN fs |-> IF f \in gone THEN [fs[f] EXCEPT !.isLocal = FALSE]
                                     ELSE fs[f]]

\* apply_choicepoint(c), having abandoned the frames in gone
Apply(c, gone) ==
  /\ FR'     = c.fr
  /\ SP'     = IF c.type = "Head" THEN c.fr + 1 + c.slotCount ELSE c.at
  /\ pos'    = c.pc
  /\ frames' = [Below(c.at, Disowned(frames, gone)) EXCEPT
                  ![c.fr].clause = c.clause, ![c.fr].slotCount = c.slotCount]
  /\ owned'  = owned \ ClausesOf(gone)

Backtrack ==
  \/ /\ cps = <<>>
     /\ status' = "fail"
     /\ heap'   = Undone(0, Len(heap))
     /\ trail'  = <<>>
     /\ UNCHANGED <<FR, SP, frames, cps, pos, owned>>
  \/ \E n \in DOMAIN cps :
       LET c == cps[n]
           t == IF c.pc = NoPC THEN 0 ELSE c.tr
       IN  /\ Resumed(n)
           /\ status' = IF c.pc = NoPC THEN "fail" ELSE "run"
           /\ heap'   = Undone(t, c.h)
           /\ trail'  = SubSeq(trail, 1, t)
           /\ cps'    = SubSeq(cps, 1, n - 1)
           /\ Apply(c, Abandoned(n))

(***************************************************************************)
(* cut_to(target): pop every choicepoint above target.  A cleanup          *)
(* choicepoint whose catcher unifies with ! interrupts the cut: its        *)
(* handler is called, and returns to the cut instruction.                  *)
(***************************************************************************)
\* Mutation of CutFrames: the frames below that of a choicepoint are forgotten
CutFramesOnce(n) ==
  {f \in {cps[i].fr : i \in n + 1..Len(cps)} : f > FR /\ frames[f].isLocal}

CutFrames(n) ==
  {f \in UNION {Ancestors(cps[i].fr) : i \in n + 1..Len(cps)} :
     f > FR /\ frames[f].isLocal}

CutSP(n) ==
  LET deeper == {i \in n + 1..Len(cps) : cps[i].fr > FR}
  IN  IF deeper = {} THEN SP
      ELSE AfterFrame(cps[CHOOSE i \in deeper : \A j \in deeper : i <= j].fr)

\* Mutation of Cut: the target is cut, too
CutThrough(target, next) ==
  \E n \in 0..Len(cps) :
    /\ \A i \in DOMAIN cps : i > n <=> cps[i].at >= target
    /\ cps'    = SubSeq(cps, 1, n)
    /\ SP'     = CutSP(n)
    /\ frames' = Below(CutSP(n), Disowned(frames, CutFrames(n)))
    /\ owned'  = owned \ ClausesOf(CutFrames(n))
    /\ pos'    = next
    /\ UNCHANGED <<status, FR, heap, trail>>

Cut(target, next) ==
  \E n \in 0..Len(cps) :
    /\ \A i \in DOMAIN cps : i > n <=> cps[i].at > target
    /\ cps'    = SubSeq(cps, 1, n)
    /\ SP'     = CutSP(n)
    /\ frames' = Below(CutSP(n), Disowned(frames, CutFrames(n)))
    /\ owned'  = owned \ ClausesOf(CutFrames(n))
    /\ pos'    = next
    /\ UNCHANGED <<status, FR, heap, trail>>

CutCleanup(target) ==
  \E n \in DOMAIN cps :
    /\ cps[n].at > target /\ cps[n].cleanup # Null
    /\ cps' = SubSeq(cps, 1, n - 1)
    /\ Unify(heap, trail)
    /\ UserCall(FR, SP, Disowned(frames, CutFrames(n - 1)), cps',
                owned \ ClausesOf(CutFrames(n - 1)), pos)
    /\ UNCHANGED status

(***************************************************************************)
(* Instructions: one action for each handler of execute()                  *)
(***************************************************************************)
\* TRY_ME_OR_NEXT_CLAUSE: n is the number of slots of the next clause
TryMe ==
  /\ Running("entry")
  /\ \E n \in 0..MaxSlots :
       LET c == NewChoice("Head", At("entry"), frames[FR].clause, n, Null)
       IN  /\ Fits(c)
           /\ cps' = Append(cps, c)
           /\ SP'  = AfterChoice(c)
  /\ pos' = At("body")
  /\ UNCHANGED <<status, FR, frames, heap, trail, owned, uses>>

\* A last clause starts without a choicepoint
Enter ==
  /\ Running("entry")
  /\ pos' = At("body")
  /\ UNCHANGED <<status, FR, SP, frames, cps, heap, trail, owned, uses>>

\* MAKE_VAR, by the instructions that build terms
MakeVar ==
  /\ Running("body")
  /\ Len(heap) < HeapSize
  /\ heap' = Append(heap, Len(heap) + 1)
  /\ UNCHANGED <<status, FR, SP, frames, cps, pos, trail, owned, uses>>

\* H_ATOM, H_VAR and I_UNIFY when they bind a variable
BindVar ==
  /\ Running("body")
  /\ BindSome(heap, trail)
  /\ UNCHANGED <<status, FR, SP, frames, cps, pos, owned, uses>>

\* I_FAIL, and any unification that fails
Fail ==
  /\ Running("body")
  /\ Backtrack
  /\ UNCHANGED uses

Call ==
  /\ Running("body")
  /\ \E kind \in Kinds : \E n \in SlotCounts(kind) :
       /\ Push(frames, SP, Frame(kind, FR, CP, Null, n, pos))
       /\ pos' = Start(kind)
  /\ UNCHANGED <<status, cps, heap, trail, owned, uses>>

\* The last call of a clause: the frame is given up first
Depart ==
  /\ Running("body") /\ ~InCondition
  /\ owned' = owned \ IF FR >= CP THEN ClausesOf({FR}) ELSE {}
  /\ \E kind \in Kinds : \E n \in SlotCounts(kind) :
       /\ Push(Below(AfterExit(cps), frames), AfterExit(cps),
               Frame(kind, frames[FR].parent, CP, Null, n, frames[FR].ret))
       /\ pos' = Start(kind)
  /\ UNCHANGED <<status, cps, heap, trail, uses>>

CallGoal ==
  /\ Running("body") /\ "call/1" \in uses
  /\ UserCall(FR, SP, frames, cps, owned, pos)
  /\ UNCHANGED <<status, cps, heap, trail, uses>>

Exit ==
  /\ Running("body") /\ ~InCondition
  /\ Leave(cps)
  /\ UNCHANGED <<status, cps, heap, trail, uses>>

\* The goal of the query has succeeded
ExitQuery ==
  /\ Running("query")
  /\ status' = IF CP = Null THEN "success" ELSE "choices"
  /\ UNCHANGED <<FR, SP, frames, cps, pos, heap, trail, owned, uses>>

\* C_OR
Or ==
  /\ Running("body")
  /\ LET c == Alternative("Body", pos, Null)
     IN  /\ Fits(c)
         /\ cps' = Append(cps, c)
         /\ SP'  = AfterChoice(c)
  /\ UNCHANGED <<status, FR, frames, pos, heap, trail, owned, uses>>

\* C_IF_THEN_ELSE and C_IF_THEN hand out the next slot of the clause and
\* note the choicepoint a C_CUT at the end of the condition cuts to
OpenCondition ==
  /\ Running("body") /\ "condition" \in uses
  /\ pos.used < frames[FR].slotCount
  /\ frames' = [frames EXCEPT ![FR].cuts[pos.used + 1] = CP]
  /\ pos'    = [pos EXCEPT !.open = Append(@, pos.used + 1), !.used = @ + 1]
  /\ UNCHANGED <<status, FR, heap, trail, owned, uses>>

IfThen ==
  /\ OpenCondition
  /\ UNCHANGED <<SP, cps>>

IfThenElse ==
  /\ OpenCondition
  /\ LET c == Alternative("Body", [pos EXCEPT !.used = @ + 1], Null)
     IN  /\ Fits(c)
         /\ cps' = Append(cps, c)
         /\ SP'  = AfterChoice(c)

\* I_CUT
CutBody ==
  /\ Running("body") /\ ~InCondition
  /\ \/ Cut(frames[FR].choicepoint, pos)
     \/ CutCleanup(frames[FR].choicepoint)
  /\ UNCHANGED uses

\* C_CUT ends the innermost condition
CutCondition ==
  /\ Running("body") /\ InCondition
  /\ \/ Cut(frames[FR].cuts[Innermost],
            [pos EXCEPT !.open = SubSeq(@, 1, Len(@) - 1)])
     \/ CutCleanup(frames[FR].cuts[Innermost])
  /\ UNCHANGED uses

\* C_LCUT, a cut within a condition: the loop over the choicepoints looks
\* for the one above the slot, but never moves on from CP.  It is found if
\* it is CP (and nothing is left to cut); above others the loop spins, and
\* if there is none the assertion fails.
CutWithinCondition ==
  /\ Running("body") /\ InCondition /\ "C_LCUT" \in uses
  /\ LET target == frames[FR].cuts[Innermost]
         below  == Top(SubSeq(cps, 1, Len(cps) - 1))
     IN  \/ CP > target /\ below = target /\ UNCHANGED status
         \/ CP > target /\ below # target /\ status' = "spin"
         \/ CP <= target /\ status' = "abort"
  /\ UNCHANGED <<FR, SP, frames, cps, pos, heap, trail, owned, uses>>

\* I_CATCH leaves a choicepoint that cannot be resumed, and calls the goal
Catch ==
  /\ Running("catch")
  /\ LET c == Alternative("Head", NoPC, Null)
     IN  /\ Fits(c)
         /\ cps' = Append(cps, c)
         /\ UserCall(FR, AfterChoice(c),
                     [frames EXCEPT ![FR].choicepoint = c.at, ![FR].cuts[1] = c.at],
                     Append(cps, c), owned, At("exitcatch"))
  /\ UNCHANGED <<status, heap, trail, uses>>

\* I_EXITCATCH drops that choicepoint again if it is still the last one
ExitCatch ==
  /\ Running("exitcatch")
  /\ LET left == IF frames[FR].cuts[1] = CP THEN SubSeq(cps, 1, Len(cps) - 1)
                                           ELSE cps
     IN  cps' = left /\ Leave(left)
  /\ UNCHANGED <<status, heap, trail, uses>>

\* B_CLEANUP_CHOICEPOINT
CleanupChoicepoint ==
  /\ Running("body") /\ "cleanup" \in uses
  /\ LET c == Alternative("Body", NoPC, FR)
     IN  /\ Fits(c)
         /\ cps' = Append(cps, c)
         /\ SP'  = AfterChoice(c)
  /\ UNCHANGED <<status, FR, frames, pos, heap, trail, owned, uses>>

\* I_FOREIGN, and the last solution of I_FOREIGN_NONDET and I_FOREIGN_RETRY
Foreign ==
  /\ Running("foreign")
  /\ Unify(heap, trail)
  /\ Leave(cps)
  /\ UNCHANGED <<status, cps, uses>>

\* A foreign predicate leaves a choicepoint before it unifies
ForeignNondet ==
  /\ Running("foreign")
  /\ LET c == Alternative("Head", At("foreign"), Null)
     IN  /\ Fits(c)
         /\ cps' = Append(cps, c)
         /\ Leave(Append(cps, c))
  /\ Unify(heap, trail)
  /\ UNCHANGED <<status, uses>>

ForeignFail ==
  /\ Running("foreign")
  /\ Backtrack
  /\ UNCHANGED uses

\* backtrack_query: the host asks for the next solution
BacktrackQuery ==
  /\ status = "choices"
  /\ Backtrack
  /\ UNCHANGED uses

(***************************************************************************)
(* prepare_query has pushed the frame that returns to the host and the     *)
(* frame of the goal, and moved SP past the variables of the goal only.    *)
(***************************************************************************)
HostFrame(cs) == Frame("query", Null, Top(cs), Null, 0, NoPC)
GoalFrame(cs, host, clause) ==
  Frame("pred", host, Top(cs), clause, QueryReserved, At("query"))

Init ==
  /\ status = "run"
  /\ cps = <<>>
  /\ frames = <<HostFrame(<<>>), GoalFrame(<<>>, 1, 1)>>
  /\ FR = 2 /\ SP = 3
  /\ pos = At("body")
  /\ heap = <<>> /\ trail = <<>>
  /\ owned = {1}
  /\ uses \in Programs

Instruction ==
  \/ TryMe \/ Enter \/ MakeVar \/ BindVar \/ Fail
  \/ Call \/ Depart \/ CallGoal \/ Exit \/ ExitQuery
  \/ Or \/ IfThen \/ IfThenElse \/ CutBody \/ CutCondition \/ CutWithinCondition
  \/ Catch \/ ExitCatch \/ CleanupChoicepoint
  \/ Foreign \/ ForeignNondet \/ ForeignFail

Next == Instruction \/ BacktrackQuery

Spec == Init /\ [][Next]_vars

(***************************************************************************)
(* Properties                                                              *)
(***************************************************************************)
\* What can still run: the frames of the current continuation, and those of
\* the choicepoints in choices
Continuation == Ancestors(FR)
AliveWith(choices) == Continuation \cup UNION {Ancestors(c.fr) : c \in choices}
Choices == {cps[i] : i \in DOMAIN cps}
Alive   == AliveWith(Choices)

Statuses == {"run", "success", "choices", "fail", "spin", "abort"}

FrameType ==
  [kind : Kinds \cup {"pred", "query", "caught"}, parent : Nat, choicepoint : Nat, clause : 0..MaxLocals,
   isLocal : BOOLEAN, slotCount : 0..MaxSlots, ret : Pos, cuts : [Slot -> Nat]]

ChoiceType ==
  [at : Nat, fr : Nat, tr : Nat, h : Nat, type : {"Head", "Body"}, pc : Pos,
   clause : 0..MaxLocals, slotCount : 0..MaxSlots, cleanup : Nat,
   snap : Seq(1..HeapSize \cup Atoms)]

RegistersOK ==
  /\ FR \in Nat /\ SP \in Nat
  /\ \A f \in DOMAIN frames : f \in 1..StackSize /\ frames[f] \in FrameType
  /\ cps \in Seq(ChoiceType)
  /\ pos \in Pos
  /\ heap \in Seq(1..HeapSize \cup Atoms)
  /\ trail \in Seq(1..HeapSize)
  /\ owned \subseteq 1..MaxLocals
  /\ uses \in Programs

\* Every register and every record on the stack has its type.
TypeOK == status \in Statuses /\ RegistersOK

\* Unwinding the trail to any choicepoint gives back the heap as it was when
\* the choicepoint was created (kernel.c: unwind_trail, apply_choicepoint).
TrailRestores ==
  \A i \in DOMAIN cps : Undone(cps[i].tr, cps[i].h) = cps[i].snap

\* A frame or choicepoint that can still be used is below SP, and nothing was
\* written over it: no two of them overlap.  (Until an error is handled SP may be
\* lower: below FR when an unknown procedure was the last call of a clause, within
\* the saved arguments when a foreign predicate had just left a choicepoint.)
Separate(choices) ==
  LET alive       == AliveWith(choices)
      frameAt(f)  == f..AfterFrame(f) - 1
      choiceAt(c) == c.at..AfterChoice(c) - 1
  IN  /\ \A c \in choices : c.fr \in DOMAIN frames
      /\ status \notin {"throw", "error"} =>
           /\ \A c \in choices : AfterChoice(c) <= SP
           /\ \A f \in Continuation : AfterFrame(f) <= SP
      /\ \A c \in choices, f \in alive : frameAt(f) \cap choiceAt(c) = {}
      /\ \A f, g \in alive : f # g => frameAt(f) \cap frameAt(g) = {}
      /\ \A c, d \in choices : c # d => choiceAt(c) \cap choiceAt(d) = {}
      /\ \A c \in choices : c.cleanup # Null => c.cleanup \in alive

NoOverlap == Separate(Choices)

\* Whatever the running clause may still cut to is there: the choicepoint that was
\* current when it was called (kernel.c:1330 assert(CP == FR->choicepoint)), and those
\* that its open conditions noted.
CutTargets ==
  LET points == {Null} \cup {cps[i].at : i \in DOMAIN cps}
  IN  status = "run" =>
        /\ frames[FR].choicepoint \in points
        /\ \A k \in DOMAIN pos.open : frames[FR].cuts[pos.open[k]] \in points

\* A clause compiled for a call is freed only when no frame that can still run
\* executes it, and it has one owner, so it is freed once.
ClausesInUse ==
  /\ \A f \in Alive : frames[f].clause # Null => frames[f].clause \in owned
  /\ \A f, g \in Alive : frames[f].isLocal /\ frames[g].isLocal /\ f # g
                         => frames[f].clause # frames[g].clause

\* So it is for programs that have no cleanup handlers and call no unknown
\* procedures.
NoUseAfterFree == uses \cap {"cleanup", "unknown"} = {} => ClausesInUse

\* Until the query fails or ends with an error, every clause compiled for a call is
\* owned by a frame that can still run: it will be freed when that frame is left or
\* backtracked over.
NoLeak ==
  status \in {"run", "throw", "choices", "success"} => owned \subseteq ClausesOf(Alive)

\* Backtracking as a Prolog program sees it: the trail and the saved heap top
\* stand for a copy of the heap in every choicepoint (abstract specification:
\* module Checkpoints).
Copies == INSTANCE Checkpoints WITH
            store <- heap, saved <- [i \in DOMAIN cps |-> cps[i].snap]
Backtracking == Copies!Spec

\* While a condition is open, nothing is written over the slot in which it noted
\* the choicepoint to cut to (kernel.c:1379).  In frames that were called this
\* follows from NoOverlap; the frame of the goal of a query is laid out by
\* prepare_query.
NotesKept ==
  LET words == (UNION {c.at..AfterChoice(c) - 1 : c \in Choices})
               \cup UNION {f..AfterFrame(f) - 1 : f \in DOMAIN frames \ {FR}}
  IN  status = "run" => \A k \in DOMAIN pos.open : FR + pos.open[k] \notin words
=============================================================================
