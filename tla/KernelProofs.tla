---------------------------- MODULE KernelProofs ----------------------------
(***************************************************************************)
(* The heap, the trail and the stack of the abstract machine, whatever     *)
(* the sizes of its memories and whatever the program.                     *)
(*                                                                         *)
(* 1. Backtracking is correct although cuts and cleanup handlers drop      *)
(* choicepoints from the middle of a computation: unwinding the trail is   *)
(* the same as bringing back a copy of the heap.                           *)
(*                                                                         *)
(* 2. The stack is well formed: the registers and the records on the stack *)
(* have their types, and what the running clause may cut to is there.      *)
(*                                                                         *)
(* The first proof does not look at frames.  Seen from the heap, the trail and   *)
(* the choicepoints, every instruction is one of four kinds of step: it    *)
(* keeps the choicepoints, pushes one, drops the newest ones, or           *)
(* backtracks (StepShape).                                                 *)
(***************************************************************************)
EXTENDS Kernel, SequenceTheorems, WellFoundedInduction, TLAPS

(***************************************************************************)
(* The four kinds of step                                                  *)
(***************************************************************************)
Data == <<heap, trail, cps>>

\* New variables, or a binding of an unbound one
Grows ==
  \/ UNCHANGED <<heap, trail>>
  \/ BindSome(heap, trail)
  \/ /\ Len(heap) < HeapSize
     /\ heap' = Append(heap, Len(heap) + 1)
     /\ UNCHANGED trail

Keeps  == UNCHANGED cps
Pushes == \E c : /\ cps' = Append(cps, c)
                 /\ c.tr = Len(trail) /\ c.h = Len(heap) /\ c.snap = heap
Drops  == \E n \in 0..Len(cps) : cps' = SubSeq(cps, 1, n)

Returns ==
  \E n \in DOMAIN cps :
    /\ heap'  = Undone(cps[n].tr, cps[n].h)
    /\ trail' = SubSeq(trail, 1, cps[n].tr)
    /\ cps'   = SubSeq(cps, 1, n - 1)

\* The query has failed: everything is unwound
Empties ==
  /\ \E h \in {Len(heap)} \cup {cps[n].h : n \in DOMAIN cps} : heap' = Undone(0, h)
  /\ trail' = <<>>
  /\ cps'   = <<>>

DataStep == (Grows /\ (Keeps \/ Pushes \/ Drops)) \/ Returns \/ Empties

(***************************************************************************)
(* The inductive invariant.  TrailRestores alone does not survive a step:  *)
(* that a binding made now is undone later depends on the marks of the     *)
(* choicepoints being ordered, and on every bound cell being trailed.      *)
(***************************************************************************)
MemoryOK ==
  /\ heap \in Seq(1..HeapSize \cup Atoms)
  /\ Len(heap) <= HeapSize
  /\ trail \in Seq(1..HeapSize)

MarksOrdered ==
  /\ cps \in Seq(Choices)
  /\ \A i \in DOMAIN cps : cps[i].tr \in 0..Len(trail) /\ cps[i].h \in 0..Len(heap)
  /\ \A i, j \in DOMAIN cps : i <= j => cps[i].tr <= cps[j].tr /\ cps[i].h <= cps[j].h

BoundAreTrailed == \A c \in 1..Len(heap) : heap[c] # c => c \in Trailed(0)

TrailInv == MemoryOK /\ MarksOrdered /\ BoundAreTrailed /\ TrailRestores

(***************************************************************************)
(* Every step is of one of the four kinds                                  *)
(***************************************************************************)
\* Backtrack returns to a choicepoint, or empties the heap of bindings.
LEMMA BacktrackShape ==
  ASSUME cps \in Seq(Choices), trail \in Seq(1..HeapSize), Backtrack
  PROVE  Returns \/ Empties
<1>1. CASE cps = <<>> /\ heap' = Undone(0, Len(heap)) /\ trail' = <<>> /\ UNCHANGED cps
  BY <1>1 DEF Empties
<1>2. CASE \E n \in DOMAIN cps :
             LET c == cps[n]
                 t == IF c.pc = NoPC THEN 0 ELSE c.tr
             IN  /\ Resumed(n)
                 /\ heap'  = Undone(t, c.h)
                 /\ trail' = SubSeq(trail, 1, t)
                 /\ cps'   = SubSeq(cps, 1, n - 1)
  <2>1. PICK n \in DOMAIN cps :
          LET c == cps[n]
              t == IF c.pc = NoPC THEN 0 ELSE c.tr
          IN  /\ Resumed(n)
              /\ heap'  = Undone(t, c.h)
              /\ trail' = SubSeq(trail, 1, t)
              /\ cps'   = SubSeq(cps, 1, n - 1)
    BY <1>2
  <2>2. CASE cps[n].pc = NoPC
    <3>1. n = 1
      BY <2>1, <2>2 DEF Resumed
    <3>2. heap' = Undone(0, cps[n].h) /\ trail' = SubSeq(trail, 1, 0) /\ cps' = SubSeq(cps, 1, 0)
      BY <2>1, <2>2, <3>1
    <3>3. SubSeq(trail, 1, 0) = <<>> /\ SubSeq(cps, 1, 0) = <<>>
      BY SubSeqEmpty
    <3>4. QED
      BY <3>2, <3>3 DEF Empties
  <2>3. CASE cps[n].pc # NoPC
    BY <2>1, <2>3 DEF Returns
  <2>4. QED
    BY <2>2, <2>3
<1>3. QED
  BY <1>1, <1>2, Zenon DEF Backtrack

\* A new choicepoint marks the ends of the heap and of the trail.
LEMMA ChoiceMarks ==
  ASSUME NEW type, NEW pc, NEW clause, NEW n, NEW cleanup
  PROVE  LET c == NewChoice(type, pc, clause, n, cleanup)
             d == Alternative(type, pc, cleanup)
         IN  /\ c.tr = Len(trail) /\ c.h = Len(heap) /\ c.snap = heap
             /\ d.tr = Len(trail) /\ d.h = Len(heap) /\ d.snap = heap
  BY DEF NewChoice, Alternative

\* Every step does one of the four things of DataStep to heap, trail and choicepoints.
LEMMA StepShape ==
  ASSUME cps \in Seq(Choices), trail \in Seq(1..HeapSize), [Next]_vars
  PROVE  DataStep
<1> USE DEF Grows, Keeps
<1>0. Len(cps) \in Nat /\ DOMAIN cps = 1..Len(cps)
  BY LenProperties
<1>1. CASE TryMe
  BY <1>1, ChoiceMarks DEF TryMe, DataStep, Pushes
<1>2. CASE Enter \/ Call \/ Depart \/ CallGoal \/ Exit \/ ExitQuery
           \/ IfThen \/ CutWithinCondition
  BY <1>2 DEF Enter, Call, Depart, CallGoal, Exit, ExitQuery, IfThen,
              OpenCondition, CutWithinCondition, DataStep
<1>3. CASE MakeVar
  BY <1>3 DEF MakeVar, DataStep
<1>4. CASE BindVar
  BY <1>4 DEF BindVar, DataStep
<1>5. CASE Fail \/ ForeignFail \/ BacktrackQuery
  BY <1>5, BacktrackShape DEF Fail, ForeignFail, BacktrackQuery, DataStep
<1>6. CASE Or
  BY <1>6, ChoiceMarks DEF Or, DataStep, Pushes
<1>7. CASE IfThenElse
  BY <1>7, ChoiceMarks DEF IfThenElse, OpenCondition, DataStep, Pushes
<1>8. ASSUME NEW target, NEW next, Cut(target, next)
      PROVE  DataStep
  BY <1>8 DEF Cut, DataStep, Drops
<1>9. ASSUME NEW target, CutCleanup(target)
      PROVE  DataStep
  <2>1. PICK n \in DOMAIN cps : cps' = SubSeq(cps, 1, n - 1) /\ Unify(heap, trail)
    BY <1>9 DEF CutCleanup
  <2>2. n - 1 \in 0..Len(cps)
    BY <1>0
  <2>3. QED
    BY <2>1, <2>2 DEF DataStep, Drops, Unify
<1>10. CASE CutBody \/ CutCondition
  BY <1>8, <1>9, <1>10 DEF CutBody, CutCondition
<1>11. CASE Catch \/ CleanupChoicepoint
  BY <1>11, ChoiceMarks DEF Catch, CleanupChoicepoint, DataStep, Pushes
<1>12. CASE ExitCatch
  <2>1. CASE cps' = SubSeq(cps, 1, Len(cps) - 1) /\ cps # <<>>
    <3>1. Len(cps) - 1 \in 0..Len(cps)
      BY <1>0, <2>1, EmptySeq
    <3>2. QED
      BY <1>12, <2>1, <3>1 DEF ExitCatch, DataStep, Drops
  <2>2. CASE cps' = SubSeq(cps, 1, Len(cps) - 1) /\ cps = <<>>
    <3>1. SubSeq(cps, 1, Len(cps) - 1) = <<>>
      BY <2>2, SubSeqEmpty, EmptySeq
    <3>2. QED
      BY <1>12, <2>2, <3>1 DEF ExitCatch, DataStep
  <2>3. CASE cps' = cps
    BY <1>12, <2>3 DEF ExitCatch, DataStep
  <2>4. QED
    BY <1>12, <2>1, <2>2, <2>3 DEF ExitCatch
<1>13. CASE Foreign
  BY <1>13 DEF Foreign, Unify, DataStep
<1>14. CASE ForeignNondet
  BY <1>14, ChoiceMarks DEF ForeignNondet, Unify, DataStep, Pushes
<1>15. CASE UNCHANGED vars
  BY <1>15 DEF vars, DataStep
<1>16. QED
  BY <1>1, <1>2, <1>3, <1>4, <1>5, <1>6, <1>7, <1>10, <1>11, <1>12, <1>13, <1>14, <1>15
     DEF Next, Instruction

(***************************************************************************)
(* What each kind of step does to the heap and the trail                   *)
(***************************************************************************)
\* The trail grown by one entry, and the cells reset by unwinding it.
LEMMA TrailedAppend ==
  ASSUME trail \in Seq(1..HeapSize), NEW cell \in 1..HeapSize,
         trail' = Append(trail, cell), NEW t \in 0..Len(trail)
  PROVE  Trailed(t)' = Trailed(t) \cup {cell}
<1>1. /\ Len(trail) \in Nat /\ Len(trail') = Len(trail) + 1
      /\ trail'[Len(trail) + 1] = cell
      /\ \A k \in 1..Len(trail) : trail'[k] = trail[k]
  BY LenProperties, AppendProperties
<1>2. Trailed(t)' = {trail'[k] : k \in t + 1..Len(trail) + 1}
  BY <1>1 DEF Trailed
<1>3. Trailed(t)' \subseteq Trailed(t) \cup {cell}
  BY <1>1, <1>2 DEF Trailed
<1>4. Trailed(t) \cup {cell} \subseteq Trailed(t)'
  BY <1>1, <1>2 DEF Trailed
<1>5. QED
  BY <1>3, <1>4

\* A binding made now does not change what unwinding the trail to an earlier
\* entry gives: the cell was unbound, and is reset.
LEMMA GrowsKeeps ==
  ASSUME MemoryOK, Grows
  PROVE  /\ MemoryOK'
         /\ Len(heap) <= Len(heap') /\ Len(trail) <= Len(trail')
         /\ \A c \in 1..Len(heap) : heap[c] # c => heap'[c] = heap[c]
         /\ \A t \in 0..Len(trail), h \in 0..Len(heap) : Undone(t, h)' = Undone(t, h)
         /\ BoundAreTrailed => BoundAreTrailed'
<1>0. /\ Len(heap) \in Nat /\ Len(trail) \in Nat /\ HeapSize \in Nat
      /\ DOMAIN heap = 1..Len(heap)
      /\ \A c \in 1..Len(heap) : heap[c] \in 1..HeapSize \cup Atoms
  BY BoundsAssumption, LenProperties, ElementOfSeq DEF MemoryOK
<1>1. CASE UNCHANGED <<heap, trail>>
  BY <1>0, <1>1 DEF MemoryOK, Undone, Trailed, BoundAreTrailed
<1>2. CASE BindSome(heap, trail)
  <2>1. PICK cell \in DOMAIN heap, value \in Atoms \cup DOMAIN heap :
          Bind(heap, trail, cell, value)
    BY <1>2 DEF BindSome
  <2>2. /\ heap[cell] = cell
        /\ heap' = [heap EXCEPT ![cell] = value]
        /\ trail' = Append(trail, cell)
        /\ cell \in 1..HeapSize /\ value \in 1..HeapSize \cup Atoms
    BY <1>0, <2>1 DEF Bind, MemoryOK
  <2>3. /\ Len(heap') = Len(heap)
        /\ heap' \in Seq(1..HeapSize \cup Atoms)
        /\ \A c \in 1..Len(heap) : heap'[c] = IF c = cell THEN value ELSE heap[c]
    BY <1>0, <2>2, ExceptSeq DEF MemoryOK
  <2>4. trail' \in Seq(1..HeapSize) /\ Len(trail') = Len(trail) + 1
    BY <2>2, AppendProperties DEF MemoryOK
  <2>5. \A t \in 0..Len(trail) : Trailed(t)' = Trailed(t) \cup {cell}
    BY <2>2, TrailedAppend DEF MemoryOK
  <2>6. \A t \in 0..Len(trail), h \in 0..Len(heap) : Undone(t, h)' = Undone(t, h)
    <3>1. TAKE t \in 0..Len(trail), h \in 0..Len(heap)
    <3>2. \A c \in 1..h : (IF c \in Trailed(t)' THEN c ELSE heap'[c])
                          = (IF c \in Trailed(t) THEN c ELSE heap[c])
      BY <1>0, <2>2, <2>3, <2>5
    <3>3. QED
      BY <3>2 DEF Undone
  <2>7. BoundAreTrailed => BoundAreTrailed'
    BY <1>0, <2>2, <2>3, <2>5 DEF BoundAreTrailed
  <2>8. QED
    BY <1>0, <2>2, <2>3, <2>4, <2>6, <2>7 DEF MemoryOK
<1>3. CASE /\ Len(heap) < HeapSize
           /\ heap' = Append(heap, Len(heap) + 1)
           /\ UNCHANGED trail
  <2>1. Len(heap) + 1 \in 1..HeapSize \cup Atoms
    BY <1>0, <1>3
  <2>2. /\ heap' \in Seq(1..HeapSize \cup Atoms)
        /\ Len(heap') = Len(heap) + 1
        /\ heap'[Len(heap) + 1] = Len(heap) + 1
        /\ \A c \in 1..Len(heap) : heap'[c] = heap[c]
    BY <1>3, <2>1, AppendProperties DEF MemoryOK
  <2>3. \A t : Trailed(t)' = Trailed(t)
    BY <1>3 DEF Trailed
  <2>4. \A t \in 0..Len(trail), h \in 0..Len(heap) : Undone(t, h)' = Undone(t, h)
    <3>1. TAKE t \in 0..Len(trail), h \in 0..Len(heap)
    <3>2. \A c \in 1..h : (IF c \in Trailed(t)' THEN c ELSE heap'[c])
                          = (IF c \in Trailed(t) THEN c ELSE heap[c])
      BY <1>0, <2>2, <2>3
    <3>3. QED
      BY <3>2 DEF Undone
  <2>5. BoundAreTrailed => BoundAreTrailed'
    BY <1>0, <2>2, <2>3 DEF BoundAreTrailed
  <2>6. QED
    BY <1>0, <1>3, <2>2, <2>4, <2>5 DEF MemoryOK
<1>4. QED
  BY <1>1, <1>2, <1>3 DEF Grows

\* Unwinding the trail in two stages is unwinding it at once.
LEMMA UndoneTwice ==
  ASSUME MemoryOK,
         NEW t \in 0..Len(trail), NEW h \in 0..Len(heap),
         NEW s \in 0..t, NEW g \in 0..h,
         heap' = Undone(t, h), trail' = SubSeq(trail, 1, t)
  PROVE  Undone(s, g)' = Undone(s, g)
<1>0. Len(heap) \in Nat /\ Len(trail) \in Nat
  BY LenProperties DEF MemoryOK
<1>1. Len(trail') = t /\ \A k \in 1..t : trail'[k] = trail[k]
  <2>1. \A k \in 1..t : trail[k] \in 1..HeapSize
    <3>1. trail \in [1..Len(trail) -> 1..HeapSize]
      BY LenProperties DEF MemoryOK
    <3>2. QED
      BY <1>0, <3>1
  <2>2. QED
    BY <1>0, <2>1, SubSeqProperties, Z3
<1>2. Trailed(s) = Trailed(s)' \cup Trailed(t)
  <2>1. Trailed(s)' = {trail[k] : k \in s + 1..t}
    BY <1>1, <1>0 DEF Trailed
  <2>2. QED
    BY <2>1, <1>0 DEF Trailed
<1>3. \A c \in 1..g : heap'[c] = IF c \in Trailed(t) THEN c ELSE heap[c]
  BY <1>0 DEF Undone
<1>4. \A c \in 1..g : (IF c \in Trailed(s)' THEN c ELSE heap'[c])
                      = (IF c \in Trailed(s) THEN c ELSE heap[c])
  BY <1>2, <1>3
<1>5. QED
  BY <1>4 DEF Undone

\* An unwound heap is a heap.
LEMMA UndoneMemory ==
  ASSUME MemoryOK,
         NEW t \in 0..Len(trail), NEW h \in 0..Len(heap)
  PROVE  /\ Undone(t, h) \in Seq(1..HeapSize \cup Atoms)
         /\ Len(Undone(t, h)) = h
         /\ h <= HeapSize
         /\ SubSeq(trail, 1, t) \in Seq(1..HeapSize)
         /\ Len(SubSeq(trail, 1, t)) = t
<1>0. Len(heap) \in Nat /\ Len(trail) \in Nat /\ HeapSize \in Nat
  BY LenProperties, BoundsAssumption DEF MemoryOK
<1>1. h <= HeapSize
  BY <1>0 DEF MemoryOK
<1>2. \A c \in 1..h : (IF c \in Trailed(t) THEN c ELSE heap[c]) \in 1..HeapSize \cup Atoms
  BY <1>0, <1>1, ElementOfSeq DEF MemoryOK
<1>3. Undone(t, h) \in [1..h -> 1..HeapSize \cup Atoms]
  BY <1>2 DEF Undone
<1>4. Undone(t, h) \in Seq(1..HeapSize \cup Atoms) /\ Len(Undone(t, h)) = h
  BY <1>3
<1>5. \A k \in 1..t : trail[k] \in 1..HeapSize
  BY <1>0, ElementOfSeq DEF MemoryOK
<1>6. SubSeq(trail, 1, t) \in Seq(1..HeapSize) /\ Len(SubSeq(trail, 1, t)) = t
  BY <1>0, <1>5, SubSeqProperties, Z3
<1>7. QED
  BY <1>1, <1>4, <1>6

(***************************************************************************)
(* The choicepoints                                                        *)
(***************************************************************************)
\* A sequence is a sequence of its elements.
LEMMA SeqOfElements ==
  ASSUME NEW S, NEW s \in Seq(S)
  PROVE  s \in Seq({s[i] : i \in DOMAIN s})
<1>1. Len(s) \in Nat /\ s \in [1..Len(s) -> {s[i] : i \in DOMAIN s}]
  BY LenProperties
<1>2. QED
  BY <1>1, SeqDef

\* The choicepoints after one is pushed.
LEMMA AfterPush ==
  ASSUME cps \in Seq(Choices), NEW c, cps' = Append(cps, c)
  PROVE  /\ cps' \in Seq(Choices)'
         /\ DOMAIN cps' = 1..Len(cps) + 1
         /\ \A i \in DOMAIN cps : i \in DOMAIN cps' /\ cps'[i] = cps[i]
         /\ cps'[Len(cps) + 1] = c
<1> DEFINE S == Choices \cup {c}
<1>1. cps \in Seq(S) /\ c \in S
  BY SeqMonotonic
<1> HIDE DEF S
<1>2. /\ cps' \in Seq(S) /\ Len(cps') = Len(cps) + 1
      /\ \A i \in 1..Len(cps) : cps'[i] = cps[i]
      /\ cps'[Len(cps) + 1] = c
  BY <1>1, AppendProperties
<1>3. Len(cps) \in Nat /\ DOMAIN cps = 1..Len(cps) /\ DOMAIN cps' = 1..Len(cps')
  BY <1>1, <1>2, LenProperties
<1>4. cps' \in Seq({cps'[i] : i \in DOMAIN cps'})
  BY <1>2, SeqOfElements
<1>5. QED
  BY <1>2, <1>3, <1>4 DEF Choices

\* The choicepoints after all but the first n are dropped.
LEMMA AfterDrop ==
  ASSUME cps \in Seq(Choices), NEW n \in 0..Len(cps), cps' = SubSeq(cps, 1, n)
  PROVE  /\ cps' \in Seq(Choices)'
         /\ DOMAIN cps' = 1..n
         /\ n <= Len(cps)
         /\ \A i \in 1..n : i \in DOMAIN cps /\ cps'[i] = cps[i]
<1>1. Len(cps) \in Nat /\ DOMAIN cps = 1..Len(cps) /\ cps \in [1..Len(cps) -> Choices]
  BY LenProperties
<1>2. \A i \in 1..n : cps[i] \in Choices
  BY <1>1
<1>3. /\ cps' \in Seq(Choices) /\ Len(cps') = n
      /\ \A i \in 1..n : cps'[i] = cps[i]
  BY <1>1, <1>2, SubSeqProperties, Z3
<1>4. DOMAIN cps' = 1..n
  BY <1>3, LenProperties
<1>5. cps' \in Seq({cps'[i] : i \in DOMAIN cps'})
  <2>1. PICK s \in Seq(Choices) : s = cps'
    BY <1>3
  <2>2. s \in Seq({s[i] : i \in DOMAIN s})
    BY SeqOfElements
  <2>3. QED
    BY <2>1, <2>2
<1>6. n <= Len(cps) /\ \A i \in 1..n : i \in DOMAIN cps
  BY <1>1
<1>7. Choices' = {cps'[i] : i \in DOMAIN cps'}
  BY DEF Choices
<1>8. QED
  BY <1>3, <1>4, <1>5, <1>6, <1>7

(***************************************************************************)
(* The invariant                                                           *)
(***************************************************************************)
LEMMA InitTrailInv == Init => TrailInv
<1> SUFFICES ASSUME Init PROVE TrailInv
  OBVIOUS
<1>1. heap = <<>> /\ trail = <<>> /\ cps = <<>>
  BY DEF Init
<1>2. MemoryOK
  BY <1>1, BoundsAssumption DEF MemoryOK
<1>3. MarksOrdered
  BY <1>1, EmptySeq DEF MarksOrdered
<1>4. BoundAreTrailed /\ TrailRestores
  BY <1>1 DEF BoundAreTrailed, TrailRestores
<1>5. QED
  BY <1>2, <1>3, <1>4 DEF TrailInv

\* Whatever a step does to the data, heap and trail keep their sizes, and the marks their order.
LEMMA MarksStep ==
  ASSUME MemoryOK, MarksOrdered, DataStep
  PROVE  MemoryOK' /\ MarksOrdered'
<1>0. /\ Len(heap) \in Nat /\ Len(trail) \in Nat
      /\ Len(cps) \in Nat /\ DOMAIN cps = 1..Len(cps) /\ cps \in Seq(Choices)
  BY LenProperties DEF MemoryOK, MarksOrdered
<1>1. CASE Grows /\ (Keeps \/ Pushes \/ Drops)
  <2>1. /\ MemoryOK'
        /\ Len(heap) <= Len(heap') /\ Len(trail) <= Len(trail')
        /\ Len(heap') \in Nat /\ Len(trail') \in Nat
    BY <1>1, GrowsKeeps, LenProperties DEF MemoryOK
  <2>2. ASSUME NEW n \in 0..Len(cps), cps' \in Seq(Choices)', DOMAIN cps' = 1..n,
               \A i \in 1..n : i \in DOMAIN cps /\ cps'[i] = cps[i]
        PROVE  MarksOrdered'
    BY <1>0, <2>1, <2>2 DEF MarksOrdered
  <2>3. CASE Keeps
    <3>1. cps' = cps /\ Choices' = Choices
      BY <2>3 DEF Keeps, Choices
    <3>2. cps' \in Seq(Choices') /\ DOMAIN cps' = 1..Len(cps)
      BY <1>0, <3>1
    <3>3. Len(cps) \in 0..Len(cps) /\ \A i \in 1..Len(cps) : i \in DOMAIN cps /\ cps'[i] = cps[i]
      BY <1>0, <3>1
    <3>4. QED
      BY <2>1, <2>2, <3>2, <3>3
  <2>4. CASE Drops
    BY <1>0, <2>1, <2>2, <2>4, AfterDrop DEF Drops
  <2>5. CASE Pushes
    <3>1. PICK c : /\ cps' = Append(cps, c)
                   /\ c.tr = Len(trail) /\ c.h = Len(heap) /\ c.snap = heap
      BY <2>5 DEF Pushes
    <3>2. /\ cps' \in Seq(Choices)'
          /\ DOMAIN cps' = 1..Len(cps) + 1
          /\ \A i \in DOMAIN cps : i \in DOMAIN cps' /\ cps'[i] = cps[i]
          /\ cps'[Len(cps) + 1] = c
      BY <1>0, <3>1, AfterPush
    <3>3. QED
      BY <1>0, <2>1, <3>1, <3>2 DEF MarksOrdered
  <2>6. QED
    BY <1>1, <2>3, <2>4, <2>5
<1>2. CASE Returns
  <2>1. PICK n \in DOMAIN cps :
          /\ heap'  = Undone(cps[n].tr, cps[n].h)
          /\ trail' = SubSeq(trail, 1, cps[n].tr)
          /\ cps'   = SubSeq(cps, 1, n - 1)
    BY <1>2 DEF Returns
  <2>2. cps[n].tr \in 0..Len(trail) /\ cps[n].h \in 0..Len(heap)
    BY DEF MarksOrdered
  <2>3. MemoryOK' /\ Len(heap') = cps[n].h /\ Len(trail') = cps[n].tr
    BY <2>1, <2>2, UndoneMemory DEF MemoryOK
  <2>4. /\ cps' \in Seq(Choices)' /\ DOMAIN cps' = 1..n - 1
        /\ \A i \in 1..n - 1 : i \in DOMAIN cps /\ cps'[i] = cps[i]
    BY <1>0, <2>1, AfterDrop
  <2>5. MarksOrdered'
    BY <1>0, <2>3, <2>4 DEF MarksOrdered
  <2>6. QED
    BY <2>3, <2>5
<1>3. CASE Empties
  <2>1. PICK h \in {Len(heap)} \cup {cps[n].h : n \in DOMAIN cps} : heap' = Undone(0, h)
    BY <1>3 DEF Empties
  <2>2. h \in 0..Len(heap) /\ 0 \in 0..Len(trail)
    BY <1>0 DEF MarksOrdered
  <2>3. cps' = <<>> /\ trail' = <<>>
    BY <1>3 DEF Empties
  <2>4. MemoryOK' /\ Len(heap') = h
    BY <2>1, <2>2, <2>3, UndoneMemory, EmptySeq DEF MemoryOK
  <2>5. MarksOrdered'
    BY <2>3, EmptySeq DEF MarksOrdered
  <2>6. QED
    BY <2>4, <2>5
<1>4. QED
  BY <1>1, <1>2, <1>3 DEF DataStep

\* The invariant survives every kind of step.
LEMMA TrailInvStep ==
  ASSUME TrailInv, [Next]_vars
  PROVE  TrailInv'
<1> USE DEF TrailInv
<1>0. /\ Len(heap) \in Nat /\ Len(trail) \in Nat
      /\ Len(cps) \in Nat /\ DOMAIN cps = 1..Len(cps) /\ cps \in Seq(Choices)
  BY LenProperties DEF MemoryOK, MarksOrdered
<1>1. DataStep
  BY StepShape DEF MemoryOK, MarksOrdered
<1>2. MemoryOK' /\ MarksOrdered'
  BY <1>1, MarksStep
<1>3. CASE Grows /\ (Keeps \/ Pushes \/ Drops)
  <2>1. BoundAreTrailed'
    BY <1>3, GrowsKeeps
  <2>2. \A t \in 0..Len(trail), h \in 0..Len(heap) : Undone(t, h)' = Undone(t, h)
    BY <1>3, GrowsKeeps
  <2>3. ASSUME NEW n \in 0..Len(cps), cps' \in Seq(Choices)', DOMAIN cps' = 1..n,
               \A i \in 1..n : i \in DOMAIN cps /\ cps'[i] = cps[i]
        PROVE  TrailRestores'
    BY <1>0, <2>2, <2>3 DEF MarksOrdered, TrailRestores
  <2>4. CASE Keeps
    <3>1. cps' = cps /\ Choices' = Choices
      BY <2>4 DEF Keeps, Choices
    <3>2. cps' \in Seq(Choices') /\ DOMAIN cps' = 1..Len(cps)
      BY <1>0, <3>1
    <3>3. Len(cps) \in 0..Len(cps) /\ \A i \in 1..Len(cps) : i \in DOMAIN cps /\ cps'[i] = cps[i]
      BY <1>0, <3>1
    <3>4. QED
      BY <1>2, <2>1, <2>3, <3>2, <3>3
  <2>5. CASE Drops
    BY <1>0, <1>2, <2>1, <2>3, <2>5, AfterDrop DEF Drops
  <2>6. CASE Pushes
    <3>1. PICK c : /\ cps' = Append(cps, c)
                   /\ c.tr = Len(trail) /\ c.h = Len(heap) /\ c.snap = heap
      BY <2>6 DEF Pushes
    <3>2. /\ cps' \in Seq(Choices)'
          /\ DOMAIN cps' = 1..Len(cps) + 1
          /\ \A i \in DOMAIN cps : i \in DOMAIN cps' /\ cps'[i] = cps[i]
          /\ cps'[Len(cps) + 1] = c
      BY <1>0, <3>1, AfterPush
    <3>3. Undone(Len(trail), Len(heap)) = heap
      <4>1. Trailed(Len(trail)) = {}
        BY <1>0 DEF Trailed
      <4>2. Undone(Len(trail), Len(heap)) = [x \in 1..Len(heap) |-> heap[x]]
        BY <4>1 DEF Undone
      <4>3. QED
        BY <4>2 DEF MemoryOK
    <3>4. TrailRestores'
      BY <1>0, <2>2, <3>1, <3>2, <3>3 DEF MarksOrdered, TrailRestores
    <3>5. QED
      BY <1>2, <2>1, <3>4
  <2>7. QED
    BY <1>3, <2>4, <2>5, <2>6
<1>4. CASE Returns
  <2>1. PICK n \in DOMAIN cps :
          /\ heap'  = Undone(cps[n].tr, cps[n].h)
          /\ trail' = SubSeq(trail, 1, cps[n].tr)
          /\ cps'   = SubSeq(cps, 1, n - 1)
    BY <1>4 DEF Returns
  <2>2. cps[n].tr \in 0..Len(trail) /\ cps[n].h \in 0..Len(heap)
    BY DEF MarksOrdered
  <2>3. Len(heap') = cps[n].h /\ Len(trail') = cps[n].tr
    BY <2>1, <2>2, UndoneMemory
  <2>4. /\ cps' \in Seq(Choices)' /\ DOMAIN cps' = 1..n - 1
        /\ \A i \in 1..n - 1 : i \in DOMAIN cps /\ cps'[i] = cps[i]
    BY <1>0, <2>1, AfterDrop
  <2>5. \A s \in 0..cps[n].tr, g \in 0..cps[n].h : Undone(s, g)' = Undone(s, g)
    BY <2>1, <2>2, UndoneTwice
  <2>6. TrailRestores'
    BY <1>0, <2>4, <2>5 DEF MarksOrdered, TrailRestores
  <2>7. BoundAreTrailed'
    <3>1. PICK h \in 0..Len(heap) : h = cps[n].h
      BY <2>2
    <3>2. ASSUME NEW c \in 1..h, heap'[c] # c
          PROVE  c \in Trailed(0)'
      <4>1. c \in 1..Len(heap) /\ heap'[c] = (IF c \in Trailed(cps[n].tr) THEN c ELSE heap[c])
        BY <1>0, <2>1, <3>1 DEF Undone
      <4>2. c \in Trailed(0)
        BY <3>2, <4>1 DEF BoundAreTrailed
      <4>3. Undone(0, h)' = Undone(0, h)
        BY <2>2, <2>5, <3>1
      <4>4. Undone(0, h)[c] = c
        BY <3>1, <4>2 DEF Undone
      <4>5. Undone(0, h)'[c] = (IF c \in Trailed(0)' THEN c ELSE heap'[c])
        BY <3>1 DEF Undone
      <4>6. QED
        BY <3>2, <4>3, <4>4, <4>5
    <3>3. QED
      BY <2>3, <3>1, <3>2 DEF BoundAreTrailed
  <2>8. QED
    BY <1>2, <2>6, <2>7
<1>5. CASE Empties
  <2>1. PICK h \in {Len(heap)} \cup {cps[n].h : n \in DOMAIN cps} : heap' = Undone(0, h)
    BY <1>5 DEF Empties
  <2>2. h \in 0..Len(heap) /\ 0 \in 0..Len(trail)
    BY <1>0 DEF MarksOrdered
  <2>3. cps' = <<>> /\ trail' = <<>>
    BY <1>5 DEF Empties
  <2>4. Len(heap') = h
    BY <2>1, <2>2, UndoneMemory
  <2>5. \A c \in 1..h : heap'[c] = c
    BY <1>0, <2>1, <2>2 DEF Undone, BoundAreTrailed
  <2>6. TrailRestores'
    BY <2>3 DEF TrailRestores
  <2>7. QED
    BY <1>2, <2>4, <2>5, <2>6 DEF BoundAreTrailed
<1>6. QED
  BY <1>1, <1>3, <1>4, <1>5 DEF DataStep

\* Unwinding the trail to any choicepoint gives back the heap as it was when
\* the choicepoint was created, in every state of every program.
THEOREM TrailIsSound == Spec => []TrailRestores
<1>1. TrailInv /\ [Next]_vars => TrailInv'
  BY TrailInvStep
<1>2. TrailInv => TrailRestores
  BY DEF TrailInv
<1>3. QED
  BY InitTrailInv, <1>1, <1>2, PTL DEF Spec

\* The heap and the trail stay within their sizes, and the marks of the
\* choicepoints within them and in order, so that unwinding never reads outside.
THEOREM MarksAreInRange == Spec => [](MemoryOK /\ MarksOrdered)
<1>1. TrailInv /\ [Next]_vars => TrailInv'
  BY TrailInvStep
<1>2. TrailInv => MemoryOK /\ MarksOrdered
  BY DEF TrailInv
<1>3. QED
  BY InitTrailInv, <1>1, <1>2, PTL DEF Spec

(***************************************************************************)
(* The machine implements Checkpoints                                      *)
(***************************************************************************)
Saved == [i \in DOMAIN cps |-> cps[i].snap]

\* Dropping choicepoints drops their copies.
LEMMA SavedDrop ==
  ASSUME cps \in Seq(Choices), NEW n \in 0..Len(cps), cps' = SubSeq(cps, 1, n)
  PROVE  /\ Saved' = SubSeq(Saved, 1, n)
         /\ Len(Saved) = Len(cps) /\ DOMAIN Saved = DOMAIN cps
<1>1. Len(cps) \in Nat /\ DOMAIN cps = 1..Len(cps)
  BY LenProperties
<1>2. DOMAIN cps' = 1..n /\ \A i \in 1..n : i \in DOMAIN cps /\ cps'[i] = cps[i]
  BY AfterDrop
<1>3. Saved \in Seq({Saved[i] : i \in DOMAIN Saved}) /\ Len(Saved) = Len(cps)
  <2>1. Saved = [i \in 1..Len(cps) |-> cps[i].snap]
    BY <1>1 DEF Saved
  <2>2. Saved \in [1..Len(cps) -> {Saved[i] : i \in DOMAIN Saved}]
    BY <2>1
  <2>3. Saved \in Seq({Saved[i] : i \in DOMAIN Saved})
    BY <1>1, <2>2, SeqDef
  <2>4. QED
    BY <1>1, <2>1, <2>3
<1>4. Saved' = [i \in 1..n |-> cps[i].snap]
  BY <1>2 DEF Saved
<1>5. SubSeq(Saved, 1, n) = [i \in 1..n |-> cps[i].snap]
  <2>1. SubSeq(Saved, 1, n) = [i \in 1..n |-> Saved[i]]
    BY <1>1, <1>3
  <2>2. \A i \in 1..n : Saved[i] = cps[i].snap
    BY <1>2 DEF Saved
  <2>3. QED
    BY <2>1, <2>2
<1>6. QED
  BY <1>3, <1>4, <1>5 DEF Saved

\* Pushing a choicepoint saves a copy of the heap.
LEMMA SavedPush ==
  ASSUME cps \in Seq(Choices), NEW c, cps' = Append(cps, c)
  PROVE  Saved' = Append(Saved, c.snap)
<1>1. Len(cps) \in Nat /\ DOMAIN cps = 1..Len(cps)
  BY LenProperties
<1>2. /\ DOMAIN cps' = 1..Len(cps) + 1
      /\ \A i \in 1..Len(cps) : cps'[i] = cps[i]
      /\ cps'[Len(cps) + 1] = c
  BY <1>1, AfterPush
<1>3. Saved = [i \in 1..Len(cps) |-> cps[i].snap]
  BY <1>1 DEF Saved
<1>4. Saved' = [i \in 1..Len(cps) + 1 |-> cps'[i].snap]
  BY <1>2 DEF Saved
<1>5. Append(Saved, c.snap) = [i \in 1..Len(cps) + 1 |-> IF i = Len(cps) + 1 THEN c.snap ELSE Saved[i]]
  BY <1>1, <1>3
<1>6. \A i \in 1..Len(cps) + 1 : cps'[i].snap = IF i = Len(cps) + 1 THEN c.snap ELSE Saved[i]
  BY <1>1, <1>2, <1>3
<1>7. QED
  BY <1>4, <1>5, <1>6

\* A step that grows the heap is one that Checkpoints allows.
LEMMA GrowsExtends ==
  ASSUME MemoryOK, Grows
  PROVE  Copies!Extends(heap', heap)
<1>1. /\ MemoryOK' /\ Len(heap) <= Len(heap')
      /\ \A c \in 1..Len(heap) : heap[c] # c => heap'[c] = heap[c]
  BY GrowsKeeps
<1>2. /\ DOMAIN heap = 1..Len(heap) /\ DOMAIN heap' = 1..Len(heap')
      /\ Len(heap) \in Nat /\ Len(heap') \in Nat
  BY <1>1, LenProperties DEF MemoryOK
<1>3. QED
  BY <1>1, <1>2 DEF Copies!Extends

\* Every step of the machine is a step of Checkpoints.
LEMMA CopiesStep ==
  ASSUME TrailInv, [Next]_vars
  PROVE  [Copies!Next]_(Copies!cvars)
<1>0. /\ Len(cps) \in Nat /\ DOMAIN cps = 1..Len(cps) /\ cps \in Seq(Choices)
      /\ Len(heap) \in Nat /\ MemoryOK /\ MarksOrdered
  BY LenProperties DEF MemoryOK, MarksOrdered, TrailInv
<1>1. DataStep
  BY <1>0, StepShape DEF MemoryOK
<1>2. CASE Grows /\ (Keeps \/ Pushes \/ Drops)
  <2>1. Copies!Extends(heap', heap)
    BY <1>0, <1>2, GrowsExtends
  <2>2. CASE Keeps
    <3>1. Saved' = Saved
      BY <2>2 DEF Keeps, Saved
    <3>2. Copies!Proceed
      BY <2>1, <3>1 DEF Copies!Proceed, Saved
    <3>3. QED
      BY <3>2 DEF Copies!Next
  <2>3. CASE Pushes
    <3>1. Saved' = Append(Saved, heap)
      BY <1>0, <2>3, SavedPush DEF Pushes
    <3>2. Copies!Save
      BY <2>1, <3>1 DEF Copies!Save, Saved
    <3>3. QED
      BY <3>2 DEF Copies!Next
  <2>4. CASE Drops
    <3>1. \E n \in 0..Len(Saved) : Saved' = SubSeq(Saved, 1, n)
      BY <1>0, <2>4, SavedDrop DEF Drops
    <3>2. Copies!Commit
      BY <2>1, <3>1 DEF Copies!Commit, Saved
    <3>3. QED
      BY <3>2 DEF Copies!Next
  <2>5. QED
    BY <1>2, <2>2, <2>3, <2>4
<1>3. CASE Returns
  <2>1. PICK n \in DOMAIN cps :
          /\ heap' = Undone(cps[n].tr, cps[n].h)
          /\ cps'  = SubSeq(cps, 1, n - 1)
    BY <1>3 DEF Returns
  <2>2. n - 1 \in 0..Len(cps)
    BY <1>0
  <2>3. Saved' = SubSeq(Saved, 1, n - 1) /\ DOMAIN Saved = DOMAIN cps
    BY <1>0, <2>1, <2>2, SavedDrop
  <2>4. heap' = Saved[n]
    BY <2>1 DEF TrailInv, TrailRestores, Saved
  <2>5. Copies!Restore
    BY <2>3, <2>4 DEF Copies!Restore, Saved
  <2>6. QED
    BY <2>5 DEF Copies!Next
<1>4. CASE Empties
  <2>1. PICK h \in {Len(heap)} \cup {cps[n].h : n \in DOMAIN cps} : heap' = Undone(0, h)
    BY <1>4 DEF Empties
  <2>2. h \in 0..Len(heap)
    BY <1>0 DEF MarksOrdered
  <2>3. \A c \in 1..h : (IF c \in Trailed(0) THEN c ELSE heap[c]) = c
    BY <1>0, <2>2 DEF TrailInv, BoundAreTrailed
  <2>4. heap' = [c \in 1..h |-> c]
    BY <2>1, <2>3 DEF Undone
  <2>5. Saved' = <<>>
    BY <1>4, EmptySeq DEF Empties, Saved
  <2>6. Copies!GiveUp
    BY <2>2, <2>4, <2>5 DEF Copies!GiveUp, Saved
  <2>7. QED
    BY <2>6 DEF Copies!Next
<1>5. QED
  BY <1>1, <1>2, <1>3, <1>4 DEF DataStep

\* The trail and the marks in the choicepoints implement copies of the heap:
\* a binding disappears only when a copy from before it comes back, and then
\* every binding made since disappears.
THEOREM BacktrackingIsCorrect == Spec => Backtracking
<1>1. Init => Copies!Init
  <2>1. SUFFICES ASSUME Init PROVE Copies!Init
    OBVIOUS
  <2>2. heap = <<>> /\ cps = <<>>
    BY <2>1 DEF Init
  <2>3. QED
    BY <2>2, EmptySeq DEF Copies!Init
<1>2. TrailInv /\ [Next]_vars => TrailInv'
  BY TrailInvStep
<1>3. TrailInv /\ [Next]_vars => [Copies!Next]_(Copies!cvars)
  BY CopiesStep
<1>4. QED
  BY InitTrailInv, <1>1, <1>2, <1>3, PTL DEF Spec, Backtracking, Copies!Spec

(***************************************************************************)
(* The stack is well formed                                                *)
(*                                                                         *)
(* Frames and choicepoints are stacked together, frames of finished calls  *)
(* stay below choicepoints, and cuts, exits and backtracking give up       *)
(* different parts of the stack.  The proof describes the stack by what    *)
(* holds at each place to which control can come back: a frame, a position *)
(* in its clause, and the stack address above which everything is younger. *)
(* There are three sorts of places: the current one, one for each frame    *)
(* (where its call returns), and one for each choicepoint (where it        *)
(* resumes).                                                               *)
(*                                                                         *)
(* The definitions have the frames fs and the choicepoints cs as           *)
(* parameters, because an instruction changes the stack in several stages: *)
(* it drops choicepoints, gives up frames, pushes a choicepoint, pushes a  *)
(* frame.  There is a lemma for each stage.                                *)
(***************************************************************************)

(***************************************************************************)
(* What holds at a place                                                   *)
(***************************************************************************)
\* The instructions a frame of each kind can be at
Executes(kind, phase) ==
  \/ kind = "pred"    /\ phase \in {"entry", "body"}
  \/ kind = "catch/3" /\ phase \in {"catch", "exitcatch"}
  \/ kind = "foreign" /\ phase = "foreign"
  \/ kind = "query"   /\ phase = "query"

\* The choicepoints that frame g can cut to from position p: its own, and those
\* of the conditions that are open
Noted(fs, g, p)   == {fs[g].cuts[p.open[k]] : k \in DOMAIN p.open}
Targets(fs, g, p) == {fs[g].choicepoint} \cup Noted(fs, g, p)

Points(cs) == {Null} \cup {c.at : c \in cs}

\* Cut targets are noted one above the other, each in a slot of its own
TargetsOrdered(fs, g, p) ==
  /\ \A k \in DOMAIN p.open :
       /\ p.open[k] <= p.used
       /\ fs[g].choicepoint <= fs[g].cuts[p.open[k]]
  /\ \A j, k \in DOMAIN p.open :
       j <= k => fs[g].cuts[p.open[j]] <= fs[g].cuts[p.open[k]]

\* Below "top", what was pushed after g was pushed by g or by what it called; and
\* what was pushed by calls after a target was noted lies in frames above it
Younger(fs, cs, g, p, top) ==
  /\ \A f \in DOMAIN fs : g < f /\ f < top => g <= fs[f].parent
  /\ \A c \in cs : g <= c.at /\ c.at < top => g <= c.fr
  /\ \A t \in Targets(fs, g, p) :
       /\ t < top
       /\ \A c \in cs : t < c.at /\ c.at < top /\ g < c.fr => t < c.fr

\* Places in g that were left before have seen no more slots handed out
SlotsGrow(fs, cs, g, p, top) ==
  /\ \A c \in cs : c.at < top /\ c.fr = g => c.pc.used <= p.used
  /\ \A f \in DOMAIN fs : f < top /\ fs[f].parent = g => fs[f].ret.used <= p.used

\* Nothing lies between g and top
OnTop(fs, cs, g, top) ==
  /\ \A f \in DOMAIN fs : f <= g \/ top <= f
  /\ \A c \in cs : c.at < top => c.at < g

Place(fs, cs, g, p, top) ==
  /\ g \in DOMAIN fs /\ g < top
  /\ Executes(fs[g].kind, p.phase)
  /\ p.phase # "body" => p.open = <<>>
  /\ p.phase = "body" => SlotsGrow(fs, cs, g, p, top)
  /\ p.phase \in {"entry", "catch", "foreign"} => OnTop(fs, cs, g, top)
  /\ p.phase = "exitcatch" => /\ g < fs[g].choicepoint
                              /\ fs[g].cuts[1] = fs[g].choicepoint
  /\ p.phase # "exitcatch" => fs[g].choicepoint < g
  /\ TargetsOrdered(fs, g, p)
  /\ Younger(fs, cs, g, p, top)

(***************************************************************************)
(* The inductive invariant                                                 *)
(***************************************************************************)
\* The choicepoint of f is one that was there when f was called, or the one
\* that f pushed to catch errors
Anchored(fs, cs, f) ==
  fs[f].choicepoint \in Points({c \in cs : c.at < f \/ c.fr = f})

\* A call returns to a place below it, whose targets are there if its own is
CallOK(fs, cs, f) ==
  LET g == fs[f].parent
      r == fs[f].ret
  IN  /\ Place(fs, cs, g, r, f)
      /\ r.phase \in {"body", "exitcatch", "query"}
      /\ \A t \in Targets(fs, g, r) : t <= fs[f].choicepoint
      /\ Anchored(fs, cs, f) => Anchored(fs, cs, g) /\ Noted(fs, g, r) \subseteq Points(cs)

FrameOK(fs, cs, f) ==
  /\ fs[f].kind \notin {"catch/3", "caught"} => fs[f].choicepoint < f
  /\ fs[f].kind # "query" => CallOK(fs, cs, f)
  /\ fs[f].kind = "query" => fs[f].parent = Null

\* A choicepoint with code to resume comes back to a place below it
ResumeOK(fs, cs, c) ==
  /\ Place(fs, cs, c.fr, c.pc, c.at)
  /\ c.pc.phase \in IF c.type = "Head" THEN {"entry", "foreign"} ELSE {"body"}
  /\ Targets(fs, c.fr, c.pc) \subseteq Points(cs)

\* A choicepoint lies above its frame; that of a catch/3 immediately above it
ChoiceOK(fs, cs, c) ==
  /\ c.fr \in DOMAIN fs /\ c.fr < c.at
  /\ fs[c.fr].kind = "catch/3" => OnTop(fs, cs, c.fr, c.at)
  /\ c.pc # NoPC => ResumeOK(fs, cs, c)

\* All that is on the stack can be come back to.
StackOK(fs, cs) ==
  /\ \A f \in DOMAIN fs : FrameOK(fs, cs, f)
  /\ \A c \in cs : ChoiceOK(fs, cs, c)

\* Everything lies below sp, and execution goes on in frame g at p
RunsAt(fs, cs, g, p, sp) ==
  /\ \A f \in DOMAIN fs : f < sp
  /\ \A c \in cs : c.at < sp
  /\ Place(fs, cs, g, p, sp)
  /\ Anchored(fs, cs, g)
  /\ Noted(fs, g, p) \subseteq Points(cs)

\* The frames fs and the sequence s of choicepoints
FramesIn(fs)  == \A f \in DOMAIN fs : f \in 1..StackSize /\ fs[f] \in FrameType
Ascending(s)  == \A i, j \in DOMAIN s : i < j => s[i].at < s[j].at
ElementsOf(s) == {s[i] : i \in DOMAIN s}

\* The stack, with its types and in its order
Stacked(fs, s) ==
  /\ FramesIn(fs) /\ s \in Seq(ChoiceType)
  /\ Ascending(s)
  /\ StackOK(fs, ElementsOf(s))

\* The stack, and the registers of an execution that goes on with it
Ready(fs, s, g, p, sp) ==
  /\ g \in Nat /\ p \in Pos /\ sp \in Nat
  /\ Stacked(fs, s)
  /\ RunsAt(fs, ElementsOf(s), g, p, sp)

\* The inductive invariant: a query that has failed keeps its stack only.
StackInv ==
  /\ FR \in Nat /\ pos \in Pos /\ SP \in Nat
  /\ owned \subseteq 1..MaxLocals
  /\ Stacked(frames, cps)
  /\ status # "fail" => Ready(frames, cps, FR, pos, SP)

(***************************************************************************)
(* Types, as far as the stages need them                                   *)
(***************************************************************************)
FramesTyped(fs) ==
  \A f \in DOMAIN fs :
    /\ f \in Nat /\ 0 < f
    /\ fs[f].parent \in Nat /\ fs[f].choicepoint \in Nat
    /\ fs[f].cuts \in [Slot -> Nat] /\ fs[f].ret \in Pos

ChoicesTyped(cs) ==
  \A c \in cs : c.at \in Nat /\ c.fr \in Nat /\ c.pc \in Pos

\* Slots in use are slots, and targets are addresses.
LEMMA TargetsAreAddresses ==
  ASSUME NEW fs, FramesTyped(fs), NEW g \in DOMAIN fs, NEW p \in Pos
  PROVE  /\ \A k \in DOMAIN p.open : p.open[k] \in Slot
         /\ p.used \in Nat
         /\ Targets(fs, g, p) \subseteq Nat
<1>1. p.open \in Seq(Slot) /\ p.used \in 0..MaxSlots
  BY DEF Pos
<1>2. p.used \in Nat
  BY <1>1, BoundsAssumption
<1>3. \A k \in DOMAIN p.open : p.open[k] \in Slot
  BY <1>1, ElementOfSeq, LenProperties
<1>4. QED
  BY <1>2, <1>3 DEF Targets, Noted, FramesTyped

(***************************************************************************)
(* A place stays as it is when the stack changes above it, or loses some   *)
(* of what it has below                                                    *)
(***************************************************************************)
\* What was at "top" may be moved, if nothing comes in between.
LEMMA PlaceMoved ==
  ASSUME NEW fs, NEW gs, NEW cs, NEW ds, NEW g, NEW p, NEW top, NEW new,
         FramesTyped(gs), ChoicesTyped(ds), g \in Nat, top \in Nat, new \in Nat,
         Place(fs, cs, g, p, top),
         g \in DOMAIN gs, g < new, \A t \in Targets(fs, g, p) : t < new,
         gs[g].kind = fs[g].kind, gs[g].choicepoint = fs[g].choicepoint,
         \A k \in DOMAIN p.open : gs[g].cuts[p.open[k]] = fs[g].cuts[p.open[k]],
         gs[g].kind = "catch/3" => gs[g].cuts[1] = fs[g].cuts[1],
         \A f \in DOMAIN gs :
           f < new => /\ f \in DOMAIN fs /\ f < top
                      /\ gs[f].parent = fs[f].parent /\ gs[f].ret = fs[f].ret,
         \A c \in ds : c.at < new => c \in cs /\ c.at < top
  PROVE  Place(gs, ds, g, p, new)
<1>1. Noted(gs, g, p) = Noted(fs, g, p) /\ Targets(gs, g, p) = Targets(fs, g, p)
  BY DEF Noted, Targets
<1>2. TargetsOrdered(gs, g, p)
  BY DEF TargetsOrdered, Place
<1>3. Younger(gs, ds, g, p, new)
  BY <1>1 DEF Younger, Place
<1>4. p.phase = "body" => SlotsGrow(gs, ds, g, p, new)
  BY DEF SlotsGrow, Place
<1>5. p.phase \in {"entry", "catch", "foreign"} => OnTop(gs, ds, g, new)
  BY DEF OnTop, Place, FramesTyped, ChoicesTyped
<1>6. p.phase = "exitcatch" => gs[g].kind = "catch/3"
  BY DEF Place, Executes
<1>7. QED
  BY <1>2, <1>3, <1>4, <1>5, <1>6 DEF Place

\* A place stays what it is if the notes of its frame and its targets stay.
LEMMA PlaceKept ==
  ASSUME NEW fs, NEW gs, NEW cs, NEW ds, NEW g, NEW p, NEW top,
         FramesTyped(gs), ChoicesTyped(ds), g \in Nat, top \in Nat,
         Place(fs, cs, g, p, top),
         g \in DOMAIN gs,
         gs[g].kind = fs[g].kind, gs[g].choicepoint = fs[g].choicepoint,
         \A k \in DOMAIN p.open : gs[g].cuts[p.open[k]] = fs[g].cuts[p.open[k]],
         gs[g].kind = "catch/3" => gs[g].cuts[1] = fs[g].cuts[1],
         \A f \in DOMAIN gs :
           f < top => f \in DOMAIN fs /\ gs[f].parent = fs[f].parent /\ gs[f].ret = fs[f].ret,
         \A c \in ds : c.at < top => c \in cs
  PROVE  Place(gs, ds, g, p, top)
<1>1. g < top /\ \A t \in Targets(fs, g, p) : t < top
  BY DEF Place, Younger
<1>2. QED
  BY <1>1, PlaceMoved

(***************************************************************************)
(* The stack loses its upper part: the oldest choicepoints stay, and the   *)
(* lower frames                                                            *)
(***************************************************************************)
OldestOf(cs, ds) == ds \subseteq cs /\ \A c \in cs \ ds, d \in ds : d.at < c.at

\* What is written into frames otherwise (the clause, its slots, its owner) does
\* not matter here
SameFrame(a, b) ==
  /\ a.kind = b.kind /\ a.parent = b.parent /\ a.choicepoint = b.choicepoint
  /\ a.ret = b.ret /\ a.cuts = b.cuts

\* gs holds the frames of fs that lie below some address: none is missing between them.
LowerPart(fs, gs) ==
  \A f \in DOMAIN gs :
    /\ f \in DOMAIN fs /\ SameFrame(gs[f], fs[f])
    /\ \A e \in DOMAIN fs : e < f => e \in DOMAIN gs

\* A target that is older than one that is left is left, too.
LEMMA PointsKept ==
  ASSUME NEW cs, NEW ds, ChoicesTyped(cs), OldestOf(cs, ds),
         NEW es \in SUBSET cs, NEW t \in Nat, t \in Points(es),
         NEW u \in Points(ds), t <= u
  PROVE  t \in Points(es \cap ds)
<1>1. CASE t = Null
  BY <1>1 DEF Points
<1>2. CASE t # Null
  <2>1. PICK c \in es : t = c.at
    BY <1>2 DEF Points
  <2>2. PICK d \in ds : u = d.at
    BY <1>2 DEF Points, Null
  <2>3. c \in ds
    BY <2>1, <2>2 DEF OldestOf, ChoicesTyped
  <2>4. QED
    BY <2>1, <2>3 DEF Points
<1>3. QED
  BY <1>1, <1>2

\* The stack loses its upper part.
LEMMA StackShrinks ==
  ASSUME NEW fs, NEW gs, NEW cs, NEW ds,
         FramesTyped(fs), FramesTyped(gs), ChoicesTyped(cs), StackOK(fs, cs),
         LowerPart(fs, gs), OldestOf(cs, ds), \A c \in ds : c.fr \in DOMAIN gs
  PROVE  StackOK(gs, ds)
<1>0. ChoicesTyped(ds) /\ ds \subseteq cs
  BY DEF ChoicesTyped, OldestOf
<1>1. ASSUME NEW g, NEW p, NEW top \in Nat, g \in DOMAIN gs, Place(fs, cs, g, p, top)
      PROVE  Place(gs, ds, g, p, top) /\ Targets(gs, g, p) = Targets(fs, g, p)
                                      /\ Noted(gs, g, p) = Noted(fs, g, p)
  BY <1>0, <1>1, PlaceKept DEF LowerPart, SameFrame, FramesTyped, Targets, Noted
<1>2. ASSUME NEW f \in DOMAIN gs
      PROVE  FrameOK(gs, ds, f)
  <2>0. f \in DOMAIN fs /\ f \in Nat /\ FrameOK(fs, cs, f) /\ SameFrame(gs[f], fs[f])
    BY DEF StackOK, LowerPart, FramesTyped
  <2>1. ASSUME fs[f].kind # "query"
        PROVE  CallOK(gs, ds, f)
    <3> DEFINE g == fs[f].parent
               r == fs[f].ret
    <3>1. /\ Place(fs, cs, g, r, f) /\ r.phase \in {"body", "exitcatch", "query"}
          /\ \A t \in Targets(fs, g, r) : t <= fs[f].choicepoint
          /\ Anchored(fs, cs, f) => Anchored(fs, cs, g) /\ Noted(fs, g, r) \subseteq Points(cs)
      BY <2>0, <2>1 DEF FrameOK, CallOK
    <3>2. g \in DOMAIN gs /\ g \in DOMAIN fs
      BY <3>1 DEF Place, LowerPart
    <3>3. Place(gs, ds, g, r, f) /\ Targets(gs, g, r) = Targets(fs, g, r)
          /\ Noted(gs, g, r) = Noted(fs, g, r)
      BY <1>1, <2>0, <3>1, <3>2
    <3>4. ASSUME Anchored(gs, ds, f)
          PROVE  Anchored(gs, ds, g) /\ Noted(fs, g, r) \subseteq Points(ds)
      <4>1. Anchored(fs, cs, f) /\ fs[f].choicepoint \in Points(ds)
        BY <1>0, <2>0, <3>4 DEF Anchored, Points, SameFrame
      <4>2. \A t \in Targets(fs, g, r) : t \in Nat /\ t <= fs[f].choicepoint
        BY <2>0, <3>1, <3>2, TargetsAreAddresses DEF FramesTyped
      <4>3. Noted(fs, g, r) \subseteq Points(cs)
        BY <3>1, <4>1
      <4>4. ASSUME NEW t \in Noted(fs, g, r)
            PROVE  t \in Points(ds)
        <5>1. t \in Points(cs \cap ds)
          BY <4>1, <4>2, <4>3, <4>4, PointsKept DEF Targets
        <5>2. QED
          BY <5>1 DEF Points
      <4>5. gs[g].choicepoint \in Points({c \in cs : c.at < g \/ c.fr = g} \cap ds)
        <5>1. fs[g].choicepoint \in Points({c \in cs : c.at < g \/ c.fr = g})
          BY <3>1, <4>1 DEF Anchored
        <5>2. gs[g].choicepoint = fs[g].choicepoint /\ fs[g].choicepoint \in Targets(fs, g, r)
          BY <3>2 DEF LowerPart, SameFrame, Targets
        <5>3. QED
          BY <4>1, <4>2, <5>1, <5>2, PointsKept
      <4>6. Anchored(gs, ds, g)
        BY <4>5 DEF Anchored, Points
      <4>7. QED
        BY <4>4, <4>6
    <3>5. QED
      BY <2>0, <3>1, <3>3, <3>4 DEF CallOK, SameFrame
  <2>2. QED
    BY <2>0, <2>1 DEF FrameOK, SameFrame
<1>3. ASSUME NEW c \in ds
      PROVE  ChoiceOK(gs, ds, c)
  <2>1. ChoiceOK(fs, cs, c) /\ c.at \in Nat
    BY <1>0 DEF StackOK, ChoicesTyped
  <2>2. ASSUME c.pc # NoPC
        PROVE  ResumeOK(gs, ds, c)
    <3>1. ResumeOK(fs, cs, c) /\ c.fr \in DOMAIN gs /\ c.fr \in DOMAIN fs
      BY <2>1, <2>2 DEF ChoiceOK
    <3>2. Place(gs, ds, c.fr, c.pc, c.at) /\ Targets(gs, c.fr, c.pc) = Targets(fs, c.fr, c.pc)
      BY <1>1, <2>1, <3>1 DEF ResumeOK
    <3>3. \A t \in Targets(fs, c.fr, c.pc) : t \in Nat /\ t < c.at /\ t \in Points(cs)
      BY <1>0, <3>1, TargetsAreAddresses DEF ResumeOK, Place, Younger, ChoicesTyped
    <3>4. ASSUME NEW t \in Targets(fs, c.fr, c.pc)
          PROVE  t \in Points(ds)
      <4>1. c.at \in Points(ds) /\ t <= c.at
        BY <2>1, <3>3, <3>4 DEF Points
      <4>2. t \in Points(cs \cap ds)
        BY <3>3, <3>4, <4>1, PointsKept
      <4>3. QED
        BY <4>2 DEF Points
    <3>5. QED
      BY <3>1, <3>2, <3>4 DEF ResumeOK
  <2>3. gs[c.fr].kind = "catch/3" => OnTop(gs, ds, c.fr, c.at)
    BY <1>0, <2>1 DEF ChoiceOK, OnTop, LowerPart, SameFrame
  <2>4. c.fr \in DOMAIN gs
    OBVIOUS
  <2>5. QED
    BY <2>1, <2>2, <2>3, <2>4 DEF ChoiceOK
<1>4. QED
  BY <1>2, <1>3 DEF StackOK

(***************************************************************************)
(* Execution goes on in the same frame                                     *)
(***************************************************************************)
\* A place with fewer open conditions, or with more slots handed out.
LEMMA PlaceNarrows ==
  ASSUME NEW fs, NEW cs, NEW g, NEW p \in Pos, NEW q \in Pos, NEW top,
         FramesTyped(fs), ChoicesTyped(cs),
         Place(fs, cs, g, p, top), p.phase = "body", q.phase = "body", p.used <= q.used,
         DOMAIN q.open \subseteq DOMAIN p.open,
         \A k \in DOMAIN q.open : q.open[k] = p.open[k]
  PROVE  /\ Place(fs, cs, g, q, top)
         /\ Targets(fs, g, q) \subseteq Targets(fs, g, p)
         /\ Noted(fs, g, q) \subseteq Noted(fs, g, p)
<1>1. /\ Targets(fs, g, q) \subseteq Targets(fs, g, p)
      /\ Noted(fs, g, q) \subseteq Noted(fs, g, p)
  BY DEF Targets, Noted
<1>2. p.used \in Nat /\ q.used \in Nat
  BY BoundsAssumption DEF Pos
<1>3. TargetsOrdered(fs, g, q)
  <2>1. g \in DOMAIN fs /\ TargetsOrdered(fs, g, p)
    BY DEF Place
  <2>2. \A k \in DOMAIN p.open : p.open[k] \in Slot
    BY <2>1, TargetsAreAddresses
  <2>3. \A k \in DOMAIN p.open : p.open[k] \in Nat
    BY <2>2, BoundsAssumption DEF Slot
  <2>4. \A k \in DOMAIN q.open : q.open[k] <= q.used
    BY <1>2, <2>1, <2>3 DEF TargetsOrdered
  <2>5. QED
    BY <2>1, <2>4 DEF TargetsOrdered
<1>4. Younger(fs, cs, g, q, top)
  BY <1>1 DEF Place, Younger
<1>5. SlotsGrow(fs, cs, g, q, top)
  <2>1. \A c \in cs : c.pc.used \in Nat
    BY BoundsAssumption DEF ChoicesTyped, Pos
  <2>2. \A f \in DOMAIN fs : fs[f].ret.used \in Nat
    BY BoundsAssumption DEF FramesTyped, Pos
  <2>3. SlotsGrow(fs, cs, g, p, top)
    BY DEF Place
  <2>4. QED
    BY <1>2, <2>1, <2>2, <2>3 DEF SlotsGrow
<1>6. QED
  BY <1>1, <1>3, <1>4, <1>5 DEF Place

\* The slots handed out do not matter where no condition is open.
LEMMA PlaceReset ==
  ASSUME NEW fs, NEW cs, NEW g, NEW p, NEW top, Place(fs, cs, g, p, top), p.phase # "body"
  PROVE  Place(fs, cs, g, At(p.phase), top) /\ Noted(fs, g, At(p.phase)) = {}
<1>1. /\ At(p.phase).phase = p.phase /\ At(p.phase).open = <<>> /\ p.open = <<>>
  BY DEF At, Place
<1>2. Noted(fs, g, At(p.phase)) = {} /\ Targets(fs, g, At(p.phase)) = Targets(fs, g, p)
  BY <1>1 DEF Noted, Targets
<1>3. Younger(fs, cs, g, At(p.phase), top)
  BY <1>2 DEF Place, Younger
<1>4. TargetsOrdered(fs, g, At(p.phase))
  BY <1>1 DEF TargetsOrdered
<1>5. QED
  BY <1>1, <1>2, <1>3, <1>4 DEF Place

\* A frame that has just been entered has no places that were left before.
LEMMA PlaceEntered ==
  ASSUME NEW fs, NEW cs, NEW g, NEW p, NEW top \in Nat,
         FramesTyped(fs), ChoicesTyped(cs), StackOK(fs, cs),
         Place(fs, cs, g, p, top), p.phase = "entry", \A f \in DOMAIN fs : f < top
  PROVE  Place(fs, cs, g, At("body"), top) /\ Noted(fs, g, At("body")) = {}
<1>0. g \in DOMAIN fs /\ g \in Nat
  BY DEF Place, FramesTyped
<1>1. OnTop(fs, cs, g, top)
  BY DEF Place
<1>2. \A f \in DOMAIN fs : fs[f].parent # g
  <2>1. ASSUME NEW f \in DOMAIN fs, fs[f].parent = g
        PROVE  FALSE
    <3>1. f <= g
      BY <1>1, <2>1 DEF OnTop, FramesTyped, Place
    <3>2. fs[f].kind = "query" => FALSE
      BY <1>0, <2>1 DEF StackOK, FrameOK, FramesTyped, Null
    <3>3. g < f
      BY <2>1, <3>2 DEF StackOK, FrameOK, CallOK, Place
    <3>4. QED
      BY <1>0, <3>1, <3>3 DEF FramesTyped
  <2>2. QED
    BY <2>1
<1>3. \A c \in cs : c.at < top => c.fr # g
  BY <1>0, <1>1 DEF OnTop, StackOK, ChoiceOK, ChoicesTyped
<1>4. SlotsGrow(fs, cs, g, At("body"), top)
  BY <1>2, <1>3 DEF SlotsGrow
<1>5. /\ p.open = <<>> /\ At("body").open = <<>> /\ At("body").used = 0
      /\ At("body").phase = "body"
  BY DEF At, Place
<1>6. Noted(fs, g, At("body")) = {} /\ Targets(fs, g, p) = Targets(fs, g, At("body"))
  BY <1>5 DEF Noted, Targets
<1>7. Executes(fs[g].kind, "body")
  BY <1>5 DEF Place, Executes
<1>8. TargetsOrdered(fs, g, At("body"))
  BY <1>5 DEF TargetsOrdered
<1>9. Younger(fs, cs, g, At("body"), top)
  BY <1>6 DEF Younger, Place
<1>10. QED
  BY <1>4, <1>5, <1>6, <1>7, <1>8, <1>9 DEF Place

\* A cut drops the choicepoints above a target, and the frames only they needed.
LEMMA CutGoesOn ==
  ASSUME NEW fs, NEW gs, NEW cs, NEW ds, NEW g, NEW p \in Pos, NEW q \in Pos,
         NEW sp \in Nat, NEW new \in Nat, NEW u,
         FramesTyped(fs), FramesTyped(gs), ChoicesTyped(cs),
         RunsAt(fs, cs, g, p, sp), LowerPart(fs, gs), OldestOf(cs, ds),
         g \in DOMAIN gs, \A f \in DOMAIN gs : f < new, \A c \in ds : c.at < new,
         p.phase = "body", q.phase = "body", p.used = q.used,
         DOMAIN q.open \subseteq DOMAIN p.open,
         \A k \in DOMAIN q.open : q.open[k] = p.open[k],
         u \in Points(ds), u < new, u \in Nat, \A t \in Targets(fs, g, q) : t <= u
  PROVE  RunsAt(gs, ds, g, q, new)
<1>0. ChoicesTyped(ds) /\ ds \subseteq cs
  BY DEF ChoicesTyped, OldestOf
<1>1. p.used <= q.used
  BY BoundsAssumption DEF Pos
<1>2. Place(fs, cs, g, q, sp) /\ Noted(fs, g, q) \subseteq Noted(fs, g, p)
  BY <1>1, PlaceNarrows DEF RunsAt
<1>3. g \in DOMAIN fs /\ g \in Nat /\ SameFrame(gs[g], fs[g]) /\ g < new
  BY DEF LowerPart, FramesTyped
<1>4. \A t \in Targets(fs, g, q) : t \in Nat /\ t < new
  BY <1>3, TargetsAreAddresses
<1>5. Place(gs, ds, g, q, new)
  <2>1. \A f \in DOMAIN gs :
          /\ f \in DOMAIN fs /\ f < sp
          /\ gs[f].parent = fs[f].parent /\ gs[f].ret = fs[f].ret
    BY DEF LowerPart, SameFrame, RunsAt
  <2>2. \A c \in ds : c \in cs /\ c.at < sp
    BY <1>0 DEF RunsAt
  <2>3. QED
    BY <1>0, <1>2, <1>3, <1>4, <2>1, <2>2, PlaceMoved DEF SameFrame
<1>6. \A t \in Noted(fs, g, q) : t \in Points(ds)
  <2>1. ASSUME NEW t \in Noted(fs, g, q)
        PROVE  t \in Points(ds)
    <3>1. t \in Points(cs) /\ t \in Targets(fs, g, q)
      BY <1>2 DEF RunsAt, Targets
    <3>2. t \in Points(cs \cap ds)
      BY <1>4, <3>1, PointsKept
    <3>3. QED
      BY <3>2 DEF Points
  <2>2. QED
    BY <2>1
<1>7. Anchored(gs, ds, g)
  <2>1. fs[g].choicepoint \in Points({c \in cs : c.at < g \/ c.fr = g})
    BY DEF RunsAt, Anchored
  <2>2. fs[g].choicepoint \in Targets(fs, g, q)
    BY DEF Targets
  <2>3. fs[g].choicepoint \in Points({c \in cs : c.at < g \/ c.fr = g} \cap ds)
    BY <1>4, <2>1, <2>2, PointsKept
  <2>4. QED
    BY <1>3, <2>3 DEF Anchored, Points, SameFrame
<1>8. Noted(gs, g, q) = Noted(fs, g, q)
  BY <1>3 DEF Noted, SameFrame
<1>9. QED
  BY <1>5, <1>6, <1>7, <1>8 DEF RunsAt

(***************************************************************************)
(* A choicepoint is pushed by the current frame                            *)
(***************************************************************************)
LEMMA ChoicePushed ==
  ASSUME NEW fs, NEW cs, NEW g, NEW p, NEW sp \in Nat, NEW c,
         FramesTyped(fs), ChoicesTyped(cs), ChoicesTyped({c}),
         StackOK(fs, cs), RunsAt(fs, cs, g, p, sp), p.phase # "exitcatch", c.at = sp, c.fr = g,
         c.pc # NoPC =>
           /\ Place(fs, cs, g, c.pc, sp)
           /\ c.pc.phase \in IF c.type = "Head" THEN {"entry", "foreign"} ELSE {"body"}
           /\ Noted(fs, g, c.pc) \subseteq Points(cs)
  PROVE  /\ StackOK(fs, cs \cup {c})
         /\ Anchored(fs, cs \cup {c}, g)
<1> DEFINE ds == cs \cup {c}
<1>0. ChoicesTyped(ds) /\ g \in DOMAIN fs /\ g \in Nat /\ g < sp
      /\ \A f \in DOMAIN fs : f < sp /\ f \in Nat
      /\ \A d \in cs : d.at < sp /\ d.at \in Nat
  BY DEF ChoicesTyped, RunsAt, Place, FramesTyped
<1>1. Points(cs) \subseteq Points(ds)
  BY DEF Points
<1>2. ASSUME NEW f, NEW r, NEW top \in Nat, Place(fs, cs, f, r, top), top <= sp
      PROVE  Place(fs, ds, f, r, top)
  <2>1. \A d \in ds : d.at < top => d \in cs
    BY <1>0, <1>2
  <2>2. f \in DOMAIN fs /\ f \in Nat
    BY <1>2 DEF Place, FramesTyped
  <2>3. QED
    BY <1>0, <1>2, <2>1, <2>2, PlaceKept
<1>3. ASSUME NEW f \in DOMAIN fs, Anchored(fs, cs, f)
      PROVE  Anchored(fs, ds, f)
  BY <1>3 DEF Anchored, Points
<1>4. ASSUME NEW f \in DOMAIN fs, Anchored(fs, ds, f)
      PROVE  Anchored(fs, cs, f)
  <2>1. CASE f = g
    BY <2>1 DEF RunsAt
  <2>2. CASE f # g
    <3>1. ~(c.at < f \/ c.fr = f)
      BY <1>0, <2>2
    <3>2. QED
      BY <1>4, <3>1 DEF Anchored, Points
  <2>3. QED
    BY <2>1, <2>2
<1>5. ASSUME NEW f \in DOMAIN fs
      PROVE  FrameOK(fs, ds, f)
  <2>1. FrameOK(fs, cs, f) /\ f \in Nat /\ f <= sp
    BY <1>0 DEF StackOK
  <2>2. ASSUME fs[f].kind # "query"
        PROVE  CallOK(fs, ds, f)
    <3>1. CallOK(fs, cs, f)
      BY <2>1, <2>2 DEF FrameOK
    <3>2. Place(fs, ds, fs[f].parent, fs[f].ret, f) /\ fs[f].parent \in DOMAIN fs
      BY <1>2, <2>1, <3>1 DEF CallOK, Place
    <3>3. QED
      BY <1>1, <1>3, <1>4, <3>1, <3>2 DEF CallOK
  <2>3. QED
    BY <2>1, <2>2 DEF FrameOK
<1>6. ASSUME NEW d \in cs
      PROVE  ChoiceOK(fs, ds, d)
  <2>1. ChoiceOK(fs, cs, d) /\ d.at \in Nat /\ d.at <= sp
    BY <1>0 DEF StackOK
  <2>2. ASSUME d.pc # NoPC
        PROVE  ResumeOK(fs, ds, d)
    BY <1>1, <1>2, <2>1, <2>2 DEF ChoiceOK, ResumeOK
  <2>3. fs[d.fr].kind = "catch/3" => OnTop(fs, ds, d.fr, d.at)
    BY <1>0, <2>1 DEF ChoiceOK, OnTop
  <2>4. QED
    BY <2>1, <2>2, <2>3 DEF ChoiceOK
<1>7. ChoiceOK(fs, ds, c)
  <2>1. ASSUME c.pc # NoPC
        PROVE  ResumeOK(fs, ds, c)
    <3>0. Place(fs, cs, g, c.pc, sp) /\ sp <= sp
      BY <2>1
    <3>1. Place(fs, ds, g, c.pc, sp)
      BY <1>2, <3>0
    <3>2. fs[g].choicepoint \in Points(cs)
      BY DEF RunsAt, Anchored, Points
    <3>3. QED
      BY <1>1, <2>1, <3>1, <3>2 DEF ResumeOK, Targets
  <2>2. fs[g].kind = "catch/3" => OnTop(fs, cs, g, sp)
    BY DEF RunsAt, Place, Executes
  <2>3. fs[g].kind = "catch/3" => OnTop(fs, ds, g, sp)
    BY <1>0, <2>2 DEF OnTop
  <2>4. QED
    BY <1>0, <2>1, <2>3 DEF ChoiceOK
<1>8. QED
  BY <1>0, <1>3, <1>5, <1>6, <1>7 DEF StackOK, RunsAt

\* A clause goes on after it has pushed a choicepoint.
LEMMA ChoiceGoesOn ==
  ASSUME NEW fs, NEW cs, NEW g, NEW p \in Pos, NEW sp \in Nat, NEW new \in Nat, NEW c,
         FramesTyped(fs), ChoicesTyped(cs), ChoicesTyped({c}),
         RunsAt(fs, cs, g, p, sp), c.at = sp, c.fr = g, sp < new,
         p.phase = "body", c.pc.used <= p.used, Anchored(fs, cs \cup {c}, g)
  PROVE  RunsAt(fs, cs \cup {c}, g, p, new)
<1> DEFINE ds == cs \cup {c}
<1>0. /\ g \in DOMAIN fs /\ g \in Nat /\ g < sp
      /\ \A f \in DOMAIN fs : f < sp /\ f \in Nat
      /\ \A d \in cs : d.at < sp /\ d.at \in Nat
      /\ Place(fs, cs, g, p, sp)
  BY DEF ChoicesTyped, RunsAt, Place, FramesTyped
<1>1. \A t \in Targets(fs, g, p) : t \in Nat /\ t < sp
  BY <1>0, TargetsAreAddresses DEF Place, Younger
<1>2. Younger(fs, ds, g, p, new)
  BY <1>0, <1>1 DEF Place, Younger
<1>3. SlotsGrow(fs, ds, g, p, new)
  BY <1>0 DEF Place, SlotsGrow
<1>4. Place(fs, ds, g, p, new)
  BY <1>0, <1>2, <1>3 DEF Place
<1>5. Noted(fs, g, p) \subseteq Points(ds)
  BY DEF RunsAt, Points
<1>6. (\A f \in DOMAIN fs : f < new) /\ (\A d \in ds : d.at < new)
  BY <1>0
<1>7. QED
  BY <1>4, <1>5, <1>6 DEF RunsAt

(***************************************************************************)
(* The current frame notes choicepoints                                    *)
(***************************************************************************)
\* What is noted does not touch places in g that were left before.
SameNotes(fs, gs, g, p) ==
  /\ gs[g].choicepoint = fs[g].choicepoint /\ gs[g].kind # "catch/3"
  /\ \A k \in DOMAIN p.open : gs[g].cuts[p.open[k]] = fs[g].cuts[p.open[k]]

\* A frame of catch/3 notes a choicepoint above it.
LEMMA FrameNoted ==
  ASSUME NEW fs, NEW gs, NEW cs, NEW g \in DOMAIN fs,
         FramesTyped(fs), FramesTyped(gs), ChoicesTyped(cs), StackOK(fs, cs),
         DOMAIN gs = DOMAIN fs, \A f \in DOMAIN fs : f # g => gs[f] = fs[f],
         gs[g].kind = fs[g].kind, gs[g].parent = fs[g].parent, gs[g].ret = fs[g].ret,
         fs[g].choicepoint <= gs[g].choicepoint,
         gs[g].kind # "catch/3" => gs[g].choicepoint = fs[g].choicepoint,
         Anchored(fs, cs, g),
         \A f \in DOMAIN fs :
           fs[f].kind # "query" /\ fs[f].parent = g => SameNotes(fs, gs, g, fs[f].ret),
         \A c \in cs : c.fr = g /\ c.pc # NoPC => SameNotes(fs, gs, g, c.pc)
  PROVE  StackOK(gs, cs)
<1>0. \A f \in DOMAIN fs : gs[f].parent = fs[f].parent /\ gs[f].ret = fs[f].ret
                           /\ gs[f].kind = fs[f].kind
  OBVIOUS
<1>1. ASSUME NEW h, NEW r, NEW top \in Nat, Place(fs, cs, h, r, top),
             h = g => SameNotes(fs, gs, g, r)
      PROVE  /\ Place(gs, cs, h, r, top)
             /\ Targets(gs, h, r) = Targets(fs, h, r) /\ Noted(gs, h, r) = Noted(fs, h, r)
             /\ Anchored(gs, cs, h) = Anchored(fs, cs, h)
  <2>1. /\ h \in DOMAIN gs /\ h \in Nat
        /\ gs[h].choicepoint = fs[h].choicepoint
        /\ \A k \in DOMAIN r.open : gs[h].cuts[r.open[k]] = fs[h].cuts[r.open[k]]
        /\ gs[h].kind = "catch/3" => gs[h].cuts[1] = fs[h].cuts[1]
    BY <1>1 DEF Place, SameNotes, FramesTyped
  <2>2. Place(gs, cs, h, r, top)
    BY <1>0, <1>1, <2>1, PlaceKept
  <2>3. QED
    BY <2>1, <2>2 DEF Targets, Noted, Anchored
<1>2. ASSUME NEW f \in DOMAIN gs
      PROVE  FrameOK(gs, cs, f)
  <2>1. FrameOK(fs, cs, f) /\ f \in Nat
    BY DEF StackOK, FramesTyped
  <2>2. ASSUME fs[f].kind # "query"
        PROVE  CallOK(gs, cs, f)
    <3> DEFINE h == fs[f].parent
               r == fs[f].ret
    <3>1. /\ Place(fs, cs, h, r, f) /\ r.phase \in {"body", "exitcatch", "query"}
          /\ \A t \in Targets(fs, h, r) : t <= fs[f].choicepoint
          /\ Anchored(fs, cs, f) => Anchored(fs, cs, h) /\ Noted(fs, h, r) \subseteq Points(cs)
      BY <2>1, <2>2 DEF FrameOK, CallOK
    <3>2. h \in DOMAIN fs /\ h = g => SameNotes(fs, gs, g, r)
      BY <2>2
    <3>3. /\ Place(gs, cs, h, r, f)
          /\ Targets(gs, h, r) = Targets(fs, h, r) /\ Noted(gs, h, r) = Noted(fs, h, r)
          /\ Anchored(gs, cs, h) = Anchored(fs, cs, h)
      BY <1>1, <2>1, <2>2, <3>1, <3>2
    <3>4. \A t \in Targets(fs, h, r) : t \in Nat
      BY <3>1, TargetsAreAddresses DEF Place, FramesTyped
    <3>5. fs[f].choicepoint <= gs[f].choicepoint /\ fs[f].choicepoint \in Nat
          /\ gs[f].choicepoint \in Nat
      BY DEF FramesTyped
    <3>6. Anchored(gs, cs, f) => Anchored(fs, cs, f)
      BY DEF Anchored
    <3>7. QED
      BY <1>0, <3>1, <3>3, <3>4, <3>5, <3>6 DEF CallOK
  <2>3. QED
    BY <1>0, <2>1, <2>2 DEF FrameOK
<1>3. ASSUME NEW c \in cs
      PROVE  ChoiceOK(gs, cs, c)
  <2>1. ChoiceOK(fs, cs, c) /\ c.at \in Nat
    BY DEF StackOK, ChoicesTyped
  <2>2. ASSUME c.pc # NoPC
        PROVE  ResumeOK(gs, cs, c)
    <3>1. Place(fs, cs, c.fr, c.pc, c.at) /\ (c.fr = g => SameNotes(fs, gs, g, c.pc))
      BY <2>1, <2>2 DEF ChoiceOK, ResumeOK
    <3>2. /\ Place(gs, cs, c.fr, c.pc, c.at)
          /\ Targets(gs, c.fr, c.pc) = Targets(fs, c.fr, c.pc)
      BY <1>1, <2>1, <3>1
    <3>3. QED
      BY <2>1, <2>2, <3>2 DEF ChoiceOK, ResumeOK
  <2>3. gs[c.fr].kind = "catch/3" => OnTop(gs, cs, c.fr, c.at)
    BY <1>0, <2>1 DEF ChoiceOK, OnTop
  <2>4. QED
    BY <2>1, <2>2, <2>3 DEF ChoiceOK
<1>4. QED
  BY <1>2, <1>3 DEF StackOK

\* A condition is opened: x, the newest choicepoint, is noted in the next slot.
Opened(p) == [p EXCEPT !.open = Append(@, p.used + 1), !.used = @ + 1]

\* The running clause notes a choicepoint in its next cut slot.
LEMMA ConditionOpened ==
  ASSUME NEW fs, NEW gs, NEW cs, NEW g, NEW p \in Pos, NEW sp \in Nat, NEW x \in Nat,
         FramesTyped(fs), FramesTyped(gs), ChoicesTyped(cs),
         StackOK(fs, cs), RunsAt(fs, cs, g, p, sp), p.phase = "body", p.used < MaxSlots,
         DOMAIN gs = DOMAIN fs, \A f \in DOMAIN fs : f # g => gs[f] = fs[f],
         gs[g].kind = fs[g].kind, gs[g].parent = fs[g].parent, gs[g].ret = fs[g].ret,
         gs[g].choicepoint = fs[g].choicepoint,
         gs[g].cuts = [fs[g].cuts EXCEPT ![p.used + 1] = x],
         x \in Points(cs), \A c \in cs : c.at <= x
  PROVE  /\ Opened(p) \in Pos
         /\ StackOK(gs, cs)
         /\ RunsAt(gs, cs, g, Opened(p), sp)
<1> DEFINE q == Opened(p)
<1>0. /\ g \in DOMAIN fs /\ g \in Nat /\ g < sp
      /\ Place(fs, cs, g, p, sp) /\ Anchored(fs, cs, g) /\ Noted(fs, g, p) \subseteq Points(cs)
      /\ \A f \in DOMAIN fs : f < sp
      /\ \A c \in cs : c.at < sp /\ c.at \in Nat
  BY DEF RunsAt, Place, FramesTyped, ChoicesTyped
<1>1. p.used + 1 \in Slot /\ p.used + 1 \in 0..MaxSlots /\ p.open \in Seq(Slot)
      /\ p.used \in Nat /\ p.phase \in Phases
  BY BoundsAssumption DEF Pos, Slot
<1>2. q.phase = "body" /\ q.used = p.used + 1 /\ q.open = Append(p.open, p.used + 1)
  BY DEF Opened, Pos
<1>3. /\ q.open \in Seq(Slot)
      /\ Len(q.open) = Len(p.open) + 1 /\ q.open[Len(p.open) + 1] = p.used + 1
      /\ \A k \in 1..Len(p.open) : q.open[k] = p.open[k]
      /\ DOMAIN q.open = 1..Len(p.open) + 1 /\ DOMAIN p.open = 1..Len(p.open)
      /\ Len(p.open) \in Nat
  BY <1>1, <1>2, AppendProperties, LenProperties
<1>4. q \in Pos
  BY <1>1, <1>2, <1>3 DEF Opened, Pos
<1>5. /\ DOMAIN gs = DOMAIN fs /\ \A f \in DOMAIN fs : f # g => gs[f] = fs[f]
      /\ gs[g].kind = fs[g].kind /\ gs[g].parent = fs[g].parent /\ gs[g].ret = fs[g].ret
      /\ gs[g].choicepoint = fs[g].choicepoint
      /\ gs[g].cuts = [fs[g].cuts EXCEPT ![p.used + 1] = x]
  OBVIOUS
<1>6. gs[g].cuts[p.used + 1] = x /\ \A s \in Slot : s <= p.used => gs[g].cuts[s] = fs[g].cuts[s]
  <2>1. fs[g].cuts \in [Slot -> Nat]
    BY <1>0 DEF FramesTyped
  <2>2. \A s \in Slot : s \in Nat
    BY BoundsAssumption DEF Slot
  <2>3. QED
    BY <1>1, <1>5, <2>1, <2>2
<1>7. gs[g].kind = "pred"
  BY <1>0, <1>5 DEF Place, Executes
<1>8. ASSUME NEW r \in Pos, r.used <= p.used, TargetsOrdered(fs, g, r)
      PROVE  \A k \in DOMAIN r.open : r.open[k] \in Slot /\ gs[g].cuts[r.open[k]] = fs[g].cuts[r.open[k]]
  <2>1. \A k \in DOMAIN r.open : r.open[k] \in Slot /\ r.open[k] \in Nat
    BY <1>0, TargetsAreAddresses, BoundsAssumption DEF Slot
  <2>2. r.used \in Nat
    BY BoundsAssumption DEF Pos
  <2>3. \A k \in DOMAIN r.open : r.open[k] <= p.used
    BY <1>1, <1>8, <2>1, <2>2 DEF TargetsOrdered
  <2>4. QED
    BY <1>6, <2>1, <2>3
<1>9. StackOK(gs, cs)
  <2>1. SlotsGrow(fs, cs, g, p, sp)
    BY <1>0 DEF Place
  <2>2. ASSUME NEW f \in DOMAIN fs, fs[f].kind # "query", fs[f].parent = g
        PROVE  SameNotes(fs, gs, g, fs[f].ret)
    <3>1. fs[f].ret \in Pos /\ fs[f].ret.used <= p.used
      BY <1>0, <2>1, <2>2 DEF SlotsGrow, FramesTyped
    <3>2. TargetsOrdered(fs, g, fs[f].ret)
      BY <2>2 DEF StackOK, FrameOK, CallOK, Place
    <3>3. QED
      BY <1>5, <1>7, <1>8, <3>1, <3>2 DEF SameNotes
  <2>3. ASSUME NEW c \in cs, c.fr = g, c.pc # NoPC
        PROVE  SameNotes(fs, gs, g, c.pc)
    <3>1. c.pc \in Pos /\ c.pc.used <= p.used
      BY <1>0, <2>1, <2>3 DEF SlotsGrow, ChoicesTyped
    <3>2. TargetsOrdered(fs, g, c.pc)
      BY <2>3 DEF StackOK, ChoiceOK, ResumeOK, Place
    <3>3. QED
      BY <1>5, <1>7, <1>8, <3>1, <3>2 DEF SameNotes
  <2>4. fs[g].choicepoint <= gs[g].choicepoint
    BY <1>0, <1>5 DEF FramesTyped
  <2>5. QED
    BY <1>0, <1>5, <2>2, <2>3, <2>4, FrameNoted
<1>10. \A k \in 1..Len(p.open) : p.open[k] \in Slot /\ gs[g].cuts[p.open[k]] = fs[g].cuts[p.open[k]]
  <2>1. p.used <= p.used /\ TargetsOrdered(fs, g, p)
    BY <1>0, <1>1 DEF Place
  <2>2. QED
    BY <1>3, <1>8, <2>1
<1>11. Noted(gs, g, q) = Noted(fs, g, p) \cup {x}
  <2>1. Noted(gs, g, q) = {gs[g].cuts[q.open[k]] : k \in 1..Len(p.open) + 1}
    BY <1>3 DEF Noted
  <2>2. Noted(fs, g, p) = {fs[g].cuts[p.open[k]] : k \in 1..Len(p.open)}
    BY <1>3 DEF Noted
  <2>3. \A k \in 1..Len(p.open) : gs[g].cuts[q.open[k]] = fs[g].cuts[p.open[k]]
    BY <1>3, <1>10
  <2>4. gs[g].cuts[q.open[Len(p.open) + 1]] = x
    BY <1>3, <1>6
  <2>5. \A k \in 1..Len(p.open) + 1 : k \in 1..Len(p.open) \/ k = Len(p.open) + 1
    BY <1>3
  <2>6. Len(p.open) + 1 \in 1..Len(p.open) + 1 /\ \A k \in 1..Len(p.open) : k \in 1..Len(p.open) + 1
    BY <1>3
  <2>7. Noted(gs, g, q) \subseteq Noted(fs, g, p) \cup {x}
    BY <2>1, <2>2, <2>3, <2>4, <2>5
  <2>8. Noted(fs, g, p) \subseteq Noted(gs, g, q)
    BY <2>1, <2>2, <2>3, <2>6
  <2>9. x \in Noted(gs, g, q)
    BY <2>1, <2>4, <2>6
  <2>10. QED
    BY <2>7, <2>8, <2>9
<1>12. \A t \in Points(cs) : t <= x /\ t < sp
  BY <1>0 DEF Points, Null
<1>13. fs[g].choicepoint \in Points(cs)
  BY <1>0 DEF Anchored, Points
<1>14. TargetsOrdered(gs, g, q)
  <2>1. TargetsOrdered(fs, g, p)
    BY <1>0 DEF Place
  <2>2. \A k \in 1..Len(p.open) :
          /\ gs[g].cuts[q.open[k]] = fs[g].cuts[p.open[k]]
          /\ fs[g].cuts[p.open[k]] \in Points(cs)
          /\ q.open[k] <= p.used /\ q.open[k] \in Nat
    <3>1. TAKE k \in 1..Len(p.open)
    <3>2. p.open[k] <= p.used /\ p.open[k] \in Nat
      <4>1. p.open[k] <= p.used
        BY <1>3, <2>1 DEF TargetsOrdered
      <4>2. p.open[k] \in Nat
        BY <1>10, BoundsAssumption DEF Slot
      <4>3. QED
        BY <4>1, <4>2
    <3>3. fs[g].cuts[p.open[k]] \in Points(cs)
      BY <1>0, <1>3 DEF Noted
    <3>4. QED
      BY <1>3, <1>10, <3>2, <3>3
  <2>3. gs[g].cuts[q.open[Len(p.open) + 1]] = x
    BY <1>3, <1>6
  <2>4. \A k \in DOMAIN q.open :
          q.open[k] <= q.used /\ gs[g].choicepoint <= gs[g].cuts[q.open[k]]
    <3>1. ASSUME NEW k \in 1..Len(p.open)
          PROVE  q.open[k] <= q.used /\ gs[g].choicepoint <= gs[g].cuts[q.open[k]]
      BY <1>1, <1>2, <1>3, <1>5, <2>1, <2>2 DEF TargetsOrdered
    <3>2. q.open[Len(p.open) + 1] <= q.used
      BY <1>1, <1>2, <1>3
    <3>3. gs[g].choicepoint <= gs[g].cuts[q.open[Len(p.open) + 1]]
      BY <1>5, <1>12, <1>13, <2>3
    <3>4. QED
      BY <1>3, <3>1, <3>2, <3>3
  <2>5. \A j, k \in DOMAIN q.open :
          j <= k => gs[g].cuts[q.open[j]] <= gs[g].cuts[q.open[k]]
    <3>1. \A j, k \in 1..Len(p.open) :
            j <= k => gs[g].cuts[q.open[j]] <= gs[g].cuts[q.open[k]]
      BY <1>3, <2>1, <2>2 DEF TargetsOrdered
    <3>2. \A j \in DOMAIN q.open : gs[g].cuts[q.open[j]] <= x
      <4>1. \A j \in 1..Len(p.open) : gs[g].cuts[q.open[j]] <= x
        BY <1>12, <2>2
      <4>2. QED
        BY <1>3, <2>3, <4>1
    <3>3. \A j, k \in DOMAIN q.open :
            j <= k => (j \in 1..Len(p.open) /\ k \in 1..Len(p.open)) \/ k = Len(p.open) + 1
      BY <1>3
    <3>4. QED
      BY <2>3, <3>1, <3>2, <3>3
  <2>6. QED
    BY <2>4, <2>5 DEF TargetsOrdered
<1>15. Younger(gs, cs, g, q, sp)
  <2>1. Younger(fs, cs, g, p, sp)
    BY <1>0 DEF Place
  <2>2. Targets(gs, g, q) = Targets(fs, g, p) \cup {x}
    BY <1>5, <1>11 DEF Targets
  <2>3. \A f \in DOMAIN gs : gs[f].parent = fs[f].parent
    BY <1>5
  <2>4. x < sp /\ \A c \in cs : ~(x < c.at)
    BY <1>0, <1>12
  <2>5. QED
    BY <1>5, <2>1, <2>2, <2>3, <2>4 DEF Younger
<1>16. SlotsGrow(gs, cs, g, q, sp)
  <2>1. SlotsGrow(fs, cs, g, p, sp)
    BY <1>0 DEF Place
  <2>2. \A c \in cs : c.pc.used \in Nat
    BY BoundsAssumption DEF ChoicesTyped, Pos
  <2>3. \A f \in DOMAIN fs : fs[f].ret.used \in Nat
    BY BoundsAssumption DEF FramesTyped, Pos
  <2>4. \A f \in DOMAIN gs : gs[f].parent = fs[f].parent /\ gs[f].ret = fs[f].ret
    BY <1>5
  <2>5. QED
    BY <1>1, <1>2, <1>5, <2>1, <2>2, <2>3, <2>4 DEF SlotsGrow
<1>17. Place(gs, cs, g, q, sp)
  <2>1. Executes(gs[g].kind, q.phase) /\ gs[g].choicepoint < g
    BY <1>0, <1>2, <1>5 DEF Place
  <2>2. QED
    BY <1>0, <1>2, <1>5, <1>14, <1>15, <1>16, <2>1 DEF Place
<1>18. Anchored(gs, cs, g) /\ Noted(gs, g, q) \subseteq Points(cs)
  BY <1>0, <1>5, <1>11 DEF Anchored
<1>19. QED
  BY <1>0, <1>4, <1>5, <1>9, <1>17, <1>18 DEF RunsAt

(***************************************************************************)
(* A frame is pushed above everything                                      *)
(***************************************************************************)
LEMMA FramePushed ==
  ASSUME NEW fs, NEW cs, NEW h, NEW r, NEW at \in Nat, NEW b, NEW p, NEW new \in Nat,
         FramesTyped(fs), ChoicesTyped(cs), FramesTyped(Put(fs, at, b)),
         StackOK(fs, cs), RunsAt(fs, cs, h, r, at),
         r.phase \in {"body", "exitcatch", "query"},
         b.parent = h, b.ret = r, b.choicepoint \in Points(cs),
         \A c \in cs : c.at <= b.choicepoint,
         b.kind # "query", Executes(b.kind, p.phase),
         p.phase \in {"entry", "body", "catch", "foreign"}, p.open = <<>>,
         at < new
  PROVE  /\ StackOK(Put(fs, at, b), cs)
         /\ RunsAt(Put(fs, at, b), cs, at, p, new)
<1> DEFINE gs == Put(fs, at, b)
<1>0. /\ DOMAIN gs = DOMAIN fs \cup {at} /\ gs[at] = b
      /\ \A f \in DOMAIN fs : f < at /\ f \in Nat /\ gs[f] = fs[f] /\ f # at
      /\ \A c \in cs : c.at < at /\ c.at \in Nat /\ c.fr \in Nat
      /\ Place(fs, cs, h, r, at) /\ h \in DOMAIN fs /\ h \in Nat /\ h < at
  BY DEF Put, RunsAt, FramesTyped, ChoicesTyped, Place
<1>1. ASSUME NEW f, NEW q, NEW top \in Nat, Place(fs, cs, f, q, top), top <= at
      PROVE  /\ Place(gs, cs, f, q, top) /\ f \in DOMAIN fs
             /\ Targets(gs, f, q) = Targets(fs, f, q) /\ Noted(gs, f, q) = Noted(fs, f, q)
             /\ Anchored(gs, cs, f) = Anchored(fs, cs, f)
  <2>1. f \in DOMAIN gs /\ f \in DOMAIN fs /\ f \in Nat /\ gs[f] = fs[f]
    BY <1>0, <1>1 DEF Place
  <2>2. \A e \in DOMAIN gs :
          e < top => e \in DOMAIN fs /\ gs[e].parent = fs[e].parent /\ gs[e].ret = fs[e].ret
    BY <1>0, <1>1
  <2>3. Place(gs, cs, f, q, top)
    BY <1>1, <2>1, <2>2, PlaceKept
  <2>4. QED
    BY <2>1, <2>3 DEF Targets, Noted, Anchored
<1>2. \A t \in Points(cs) : t \in Nat /\ t < at /\ t <= b.choicepoint
  <2>1. b.choicepoint \in Nat
    BY <1>0 DEF FramesTyped
  <2>2. QED
    BY <1>0, <2>1 DEF Points, Null
<1>3. /\ Targets(fs, h, r) \subseteq Points(cs)
      /\ Anchored(fs, cs, h) /\ Noted(fs, h, r) \subseteq Points(cs)
  BY DEF RunsAt, Targets, Anchored, Points
<1>4. ASSUME NEW f \in DOMAIN fs
      PROVE  FrameOK(gs, cs, f)
  <2>1. FrameOK(fs, cs, f) /\ f \in Nat /\ f <= at /\ gs[f] = fs[f]
    BY <1>0 DEF StackOK
  <2>2. ASSUME fs[f].kind # "query"
        PROVE  CallOK(gs, cs, f)
    <3>1. CallOK(fs, cs, f)
      BY <2>1, <2>2 DEF FrameOK
    <3>2. /\ Place(gs, cs, fs[f].parent, fs[f].ret, f)
          /\ Targets(gs, fs[f].parent, fs[f].ret) = Targets(fs, fs[f].parent, fs[f].ret)
          /\ Noted(gs, fs[f].parent, fs[f].ret) = Noted(fs, fs[f].parent, fs[f].ret)
          /\ Anchored(gs, cs, fs[f].parent) = Anchored(fs, cs, fs[f].parent)
      BY <1>1, <2>1, <3>1 DEF CallOK
    <3>3. Anchored(gs, cs, f) = Anchored(fs, cs, f)
      BY <2>1 DEF Anchored
    <3>4. QED
      BY <2>1, <3>1, <3>2, <3>3 DEF CallOK
  <2>3. QED
    BY <2>1, <2>2 DEF FrameOK
<1>5. FrameOK(gs, cs, at)
  <2>1. /\ Place(gs, cs, h, r, at) /\ Targets(gs, h, r) = Targets(fs, h, r)
        /\ Noted(gs, h, r) = Noted(fs, h, r) /\ Anchored(gs, cs, h) = Anchored(fs, cs, h)
    BY <1>0, <1>1
  <2>2. CallOK(gs, cs, at)
    BY <1>0, <1>2, <1>3, <2>1 DEF CallOK
  <2>3. QED
    BY <1>0, <1>2, <2>2 DEF FrameOK
<1>6. ASSUME NEW c \in cs
      PROVE  ChoiceOK(gs, cs, c)
  <2>1. ChoiceOK(fs, cs, c) /\ c.at \in Nat /\ c.at <= at
    BY <1>0 DEF StackOK
  <2>2. ASSUME c.pc # NoPC
        PROVE  ResumeOK(gs, cs, c)
    <3>1. ResumeOK(fs, cs, c)
      BY <2>1, <2>2 DEF ChoiceOK
    <3>2. /\ Place(gs, cs, c.fr, c.pc, c.at)
          /\ Targets(gs, c.fr, c.pc) = Targets(fs, c.fr, c.pc)
      BY <1>1, <2>1, <3>1 DEF ResumeOK
    <3>3. QED
      BY <3>1, <3>2 DEF ResumeOK
  <2>3. gs[c.fr].kind = "catch/3" => OnTop(gs, cs, c.fr, c.at)
    BY <1>0, <2>1 DEF ChoiceOK, OnTop
  <2>4. QED
    BY <1>0, <2>1, <2>2, <2>3 DEF ChoiceOK
<1>7. StackOK(gs, cs)
  BY <1>0, <1>4, <1>5, <1>6 DEF StackOK
<1>8. Noted(gs, at, p) = {} /\ Targets(gs, at, p) = {b.choicepoint}
  BY <1>0 DEF Noted, Targets
<1>9. b.choicepoint < at /\ b.choicepoint \in Nat
  BY <1>2
<1>10. \A f \in DOMAIN gs : f \in Nat /\ f <= at
  BY <1>0
<1>11. Younger(gs, cs, at, p, new)
  <2>1. \A c \in cs : ~(at <= c.at) /\ ~(b.choicepoint < c.at)
    BY <1>0, <1>9
  <2>2. \A f \in DOMAIN gs : ~(at < f)
    BY <1>10
  <2>3. b.choicepoint < new
    BY <1>9
  <2>4. QED
    BY <1>8, <2>1, <2>2, <2>3 DEF Younger
<1>12. SlotsGrow(gs, cs, at, p, new)
  <2>1. \A c \in cs : c.fr # at
    BY <1>0 DEF StackOK, ChoiceOK
  <2>2. \A f \in DOMAIN fs : fs[f].parent # at
    <3>1. ASSUME NEW f \in DOMAIN fs, fs[f].parent = at
          PROVE  FALSE
      <4>1. fs[f].kind # "query"
        BY <1>0, <3>1 DEF StackOK, FrameOK, Null
      <4>2. at \in DOMAIN fs
        BY <3>1, <4>1 DEF StackOK, FrameOK, CallOK, Place
      <4>3. QED
        BY <1>0, <4>2
    <3>2. QED
      BY <3>1
  <2>3. \A f \in DOMAIN gs : gs[f].parent # at
    BY <1>0, <2>2
  <2>4. QED
    BY <2>1, <2>3 DEF SlotsGrow
<1>13. OnTop(gs, cs, at, new)
  BY <1>0, <1>10 DEF OnTop
<1>14. TargetsOrdered(gs, at, p)
  BY DEF TargetsOrdered
<1>15. Place(gs, cs, at, p, new)
  BY <1>0, <1>9, <1>11, <1>12, <1>13, <1>14 DEF Place
<1>16. Anchored(gs, cs, at)
  BY <1>0 DEF Anchored, Points
<1>17. (\A f \in DOMAIN gs : f < new) /\ (\A c \in cs : c.at < new)
  BY <1>0, <1>10
<1>18. QED
  BY <1>7, <1>8, <1>15, <1>16, <1>17 DEF RunsAt

(***************************************************************************)
(* A call returns: to the place its frame f holds, although what it pushed *)
(* may stay                                                                *)
(***************************************************************************)
LEMMA CallReturns ==
  ASSUME NEW fs, NEW gs, NEW cs, NEW ds, NEW f \in DOMAIN fs, NEW p, NEW sp, NEW new \in Nat,
         FramesTyped(fs), FramesTyped(gs), ChoicesTyped(cs), StackOK(fs, cs),
         \A e \in DOMAIN fs : e < sp, \A c \in cs : c.at < sp,
         Younger(fs, cs, f, p, sp), fs[f].kind # "query",
         LowerPart(fs, gs), OldestOf(cs, ds),
         fs[f].parent \in DOMAIN gs,
         \A e \in DOMAIN gs : e < new, \A c \in ds : c.at < new,
         Anchored(fs, ds, fs[f].parent),
         Noted(fs, fs[f].parent, fs[f].ret) \subseteq Points(ds),
         0 < new
  PROVE  RunsAt(gs, ds, fs[f].parent, fs[f].ret, new)
<1> DEFINE h == fs[f].parent
           r == fs[f].ret
<1>0. /\ ds \subseteq cs /\ ChoicesTyped(ds) /\ f \in Nat
      /\ h \in DOMAIN fs /\ h \in Nat /\ h < f /\ h < new
      /\ r \in Pos
      /\ Place(fs, cs, h, r, f) /\ r.phase \in {"body", "exitcatch", "query"}
  BY DEF OldestOf, ChoicesTyped, LowerPart, FramesTyped, StackOK, FrameOK, CallOK, Place
<1>1. /\ \A e \in DOMAIN fs : f < e => f <= fs[e].parent
      /\ \A c \in cs : f <= c.at => f <= c.fr
  BY DEF Younger
<1>2. \A e \in DOMAIN fs : e \in Nat /\ fs[e].parent \in Nat
  BY DEF FramesTyped
<1>3. \A c \in cs : c.at \in Nat /\ c.fr \in Nat
  BY DEF ChoicesTyped
<1>4. /\ \A t \in Targets(fs, h, r) : t \in Nat
      /\ \A t \in Targets(fs, h, r) : t < f
  BY <1>0, TargetsAreAddresses DEF Place, Younger
<1>5. Targets(fs, h, r) \subseteq Points(ds)
  BY DEF Targets, Anchored, Points
<1>6. \A t \in Targets(fs, h, r) : t < new
  BY <1>5 DEF Points, Null
<1>7. \A e \in DOMAIN gs : e \in DOMAIN fs /\ SameFrame(gs[e], fs[e])
  BY DEF LowerPart
<1>8. Targets(gs, h, r) = Targets(fs, h, r) /\ Noted(gs, h, r) = Noted(fs, h, r)
  BY <1>7 DEF Targets, Noted, SameFrame
<1>9. Younger(gs, ds, h, r, new)
  <2>1. Younger(fs, cs, h, r, f)
    BY <1>0 DEF Place
  <2>2. ASSUME NEW e \in DOMAIN gs, h < e
        PROVE  h <= gs[e].parent
    <3>1. e \in DOMAIN fs /\ gs[e].parent = fs[e].parent
      BY <1>7 DEF SameFrame
    <3>2. CASE e < f
      BY <2>1, <2>2, <3>1, <3>2 DEF Younger
    <3>3. CASE e = f
      BY <1>0, <3>1, <3>3
    <3>4. CASE f < e
      BY <1>0, <1>1, <1>2, <3>1, <3>4
    <3>5. QED
      BY <1>0, <1>2, <3>1, <3>2, <3>3, <3>4
  <2>3. ASSUME NEW c \in ds, h <= c.at
        PROVE  h <= c.fr
    <3>1. CASE c.at < f
      BY <1>0, <2>1, <2>3, <3>1 DEF Younger
    <3>2. CASE f <= c.at
      BY <1>0, <1>1, <1>3, <3>2
    <3>3. QED
      BY <1>0, <1>3, <3>1, <3>2
  <2>4. ASSUME NEW t \in Targets(fs, h, r), NEW c \in ds, t < c.at, h < c.fr
        PROVE  t < c.fr
    <3>1. CASE c.at < f
      BY <1>0, <2>1, <2>4, <3>1 DEF Younger
    <3>2. CASE f <= c.at
      BY <1>0, <1>1, <1>3, <1>4, <3>2
    <3>3. QED
      BY <1>0, <1>3, <3>1, <3>2
  <2>5. QED
    BY <1>6, <1>8, <2>2, <2>3, <2>4 DEF Younger
<1>10. r.phase = "body" => SlotsGrow(gs, ds, h, r, new)
  <2>1. SUFFICES ASSUME r.phase = "body"
                 PROVE  SlotsGrow(gs, ds, h, r, new)
    OBVIOUS
  <2>2. SlotsGrow(fs, cs, h, r, f)
    BY <1>0, <2>1 DEF Place
  <2>3. ASSUME NEW c \in ds, c.fr = h
        PROVE  c.pc.used <= r.used
    <3>1. c.at < f
      BY <1>0, <1>1, <1>3, <2>3
    <3>2. QED
      BY <1>0, <2>2, <2>3, <3>1 DEF SlotsGrow
  <2>4. ASSUME NEW e \in DOMAIN gs, gs[e].parent = h
        PROVE  gs[e].ret.used <= r.used
    <3>1. e \in DOMAIN fs /\ fs[e].parent = h /\ gs[e].ret = fs[e].ret
      BY <1>7, <2>4 DEF SameFrame
    <3>2. CASE e < f
      BY <2>2, <3>1, <3>2 DEF SlotsGrow
    <3>3. CASE e = f
      BY <1>0, <3>1, <3>3, BoundsAssumption DEF Pos
    <3>4. CASE f < e
      BY <1>0, <1>1, <1>2, <3>1, <3>4
    <3>5. QED
      BY <1>0, <1>2, <3>1, <3>2, <3>3, <3>4
  <2>5. QED
    BY <2>3, <2>4 DEF SlotsGrow
<1>11. TargetsOrdered(gs, h, r)
  BY <1>0, <1>7 DEF TargetsOrdered, SameFrame, Place
<1>12. Place(gs, ds, h, r, new)
  BY <1>0, <1>7, <1>9, <1>10, <1>11 DEF Place, SameFrame
<1>13. Anchored(gs, ds, h)
  BY <1>7 DEF Anchored, SameFrame
<1>14. QED
  BY <1>8, <1>12, <1>13 DEF RunsAt

\* Nothing the caller can cut to is lost if no choicepoint is.
LEMMA CallerAnchored ==
  ASSUME NEW fs, NEW cs, NEW f \in DOMAIN fs,
         StackOK(fs, cs), Anchored(fs, cs, f), fs[f].kind # "query"
  PROVE  /\ Anchored(fs, cs, fs[f].parent)
         /\ Noted(fs, fs[f].parent, fs[f].ret) \subseteq Points(cs)
         /\ fs[f].parent \in DOMAIN fs /\ fs[f].parent < f
  BY DEF StackOK, FrameOK, CallOK, Place

(***************************************************************************)
(* Backtracking resumes at choicepoint c                                   *)
(***************************************************************************)
LEMMA ChoiceResumes ==
  ASSUME NEW fs, NEW gs, NEW cs, NEW ds, NEW c \in cs, NEW new \in Nat,
         FramesTyped(fs), FramesTyped(gs), ChoicesTyped(cs), StackOK(fs, cs),
         LowerPart(fs, gs), OldestOf(cs, ds), c.pc # NoPC,
         c.fr \in DOMAIN gs, \A f \in DOMAIN gs : f < c.at,
         \A d \in cs : d \in ds <=> d.at < c.at,
         IF c.type = "Head" THEN c.fr < new ELSE new = c.at
  PROVE  RunsAt(gs, ds, c.fr, c.pc, new)
<1> DEFINE g == c.fr
           p == c.pc
<1>0. /\ ds \subseteq cs /\ ChoicesTyped(ds) /\ g \in Nat /\ c.at \in Nat /\ p \in Pos
      /\ g \in DOMAIN fs /\ g < c.at
      /\ Place(fs, cs, g, p, c.at) /\ Targets(fs, g, p) \subseteq Points(cs)
      /\ p.phase \in IF c.type = "Head" THEN {"entry", "foreign"} ELSE {"body"}
  BY DEF OldestOf, ChoicesTyped, StackOK, ChoiceOK, ResumeOK, LowerPart
<1>1. \A e \in DOMAIN gs : e \in DOMAIN fs /\ SameFrame(gs[e], fs[e])
  BY DEF LowerPart
<1>2. \A t \in Targets(fs, g, p) : t \in Nat /\ t < c.at
  BY <1>0, TargetsAreAddresses DEF Place, Younger
<1>3. fs[g].choicepoint < g
  BY <1>0 DEF Place
<1>4. (\A f \in DOMAIN gs : f < new) /\ (\A d \in ds : d.at < new)
      /\ g < new /\ \A t \in Targets(fs, g, p) : t < new
  <2>1. CASE c.type # "Head"
    BY <1>0, <1>2, <2>1
  <2>2. CASE c.type = "Head"
    <3>1. OnTop(fs, cs, g, c.at) /\ p.open = <<>>
      BY <1>0, <2>2 DEF Place
    <3>2. \A f \in DOMAIN gs : f <= g /\ f \in Nat
      BY <1>0, <1>1, <3>1 DEF OnTop, FramesTyped
    <3>3. \A d \in ds : d.at < g /\ d.at \in Nat
      BY <1>0, <3>1 DEF OnTop, ChoicesTyped
    <3>4. Targets(fs, g, p) = {fs[g].choicepoint}
      BY <3>1 DEF Targets, Noted
    <3>5. fs[g].choicepoint \in Nat
      BY <1>2, <3>4
    <3>6. QED
      BY <1>0, <1>3, <2>2, <3>2, <3>3, <3>4, <3>5
  <2>3. QED
    BY <2>1, <2>2
<1>5. Place(gs, ds, g, p, new)
  <2>1. \A f \in DOMAIN gs :
          /\ f \in DOMAIN fs /\ f < c.at
          /\ gs[f].parent = fs[f].parent /\ gs[f].ret = fs[f].ret
    BY <1>1 DEF SameFrame
  <2>2. \A d \in ds : d \in cs /\ d.at < c.at
    BY <1>0
  <2>3. SameFrame(gs[g], fs[g])
    BY <1>1
  <2>4. QED
    BY <1>0, <1>4, <2>1, <2>2, <2>3, PlaceMoved DEF SameFrame
<1>6. \A t \in Targets(fs, g, p) : t \in Points(ds)
  BY <1>0, <1>2 DEF Points
<1>7. Noted(gs, g, p) \subseteq Points(ds)
  BY <1>1, <1>6 DEF Noted, Targets, SameFrame
<1>8. Anchored(gs, ds, g)
  <2>1. fs[g].choicepoint \in Points(ds)
    BY <1>6 DEF Targets
  <2>2. fs[g].choicepoint \in Points({d \in ds : d.at < g \/ d.fr = g})
    BY <1>3, <2>1 DEF Points
  <2>3. QED
    BY <1>1, <2>2 DEF Anchored, SameFrame
<1>9. QED
  BY <1>4, <1>5, <1>7, <1>8 DEF RunsAt

(***************************************************************************)
(* The choicepoints as a sequence                                          *)
(***************************************************************************)
LEMMA TopIsNewest ==
  ASSUME NEW S, NEW s \in Seq(S), Ascending(s), \A c \in S : c.at \in Nat
  PROVE  /\ Top(s) \in Points(ElementsOf(s)) /\ Top(s) \in Nat
         /\ \A c \in ElementsOf(s) : c.at <= Top(s)
         /\ s # <<>> => s[Len(s)] \in ElementsOf(s) /\ s[Len(s)] \in S
<1>1. Len(s) \in Nat /\ DOMAIN s = 1..Len(s) /\ \A i \in 1..Len(s) : s[i] \in S
  BY LenProperties, ElementOfSeq
<1>2. CASE s = <<>>
  BY <1>1, <1>2 DEF Top, Points, ElementsOf, Null
<1>3. CASE s # <<>>
  <2>1. Len(s) \in 1..Len(s)
    BY <1>1, <1>3, EmptySeq
  <2>2. Top(s) = s[Len(s)].at /\ s[Len(s)] \in ElementsOf(s) /\ s[Len(s)] \in S
    BY <1>1, <1>3, <2>1 DEF Top, ElementsOf
  <2>3. \A i \in 1..Len(s) : s[i].at <= s[Len(s)].at
    <3>1. TAKE i \in 1..Len(s)
    <3>2. i = Len(s) \/ i < Len(s)
      <4>1. Len(s) \in Nat
        BY <1>1
      <4>2. QED
        BY <4>1
    <3>3. s[i] \in S /\ s[Len(s)] \in S
      BY <1>1, <2>1
    <3>4. s[i].at \in Nat /\ s[Len(s)].at \in Nat
      BY <3>3
    <3>5. CASE i = Len(s)
      BY <3>4, <3>5
    <3>6. CASE i < Len(s)
      <4>1. s[i].at < s[Len(s)].at
        BY <1>1, <2>1, <3>6 DEF Ascending
      <4>2. QED
        BY <3>4, <4>1
    <3>7. QED
      BY <3>2, <3>5, <3>6
  <2>4. QED
    BY <1>1, <2>2, <2>3 DEF Points, ElementsOf
<1>4. QED
  BY <1>2, <1>3

\* A choicepoint pushed above all others keeps the chain ascending.
LEMMA AppendElements ==
  ASSUME NEW S, NEW s \in Seq(S), NEW c \in S, Ascending(s),
         \A d \in ElementsOf(s) : d.at < c.at
  PROVE  /\ Append(s, c) \in Seq(S)
         /\ ElementsOf(Append(s, c)) = ElementsOf(s) \cup {c}
         /\ Ascending(Append(s, c))
<1>1. Len(s) \in Nat /\ DOMAIN s = 1..Len(s)
  BY LenProperties
<1>2. /\ Append(s, c) \in Seq(S) /\ DOMAIN Append(s, c) = 1..Len(s) + 1
      /\ \A i \in 1..Len(s) : Append(s, c)[i] = s[i]
      /\ Append(s, c)[Len(s) + 1] = c
  BY AppendProperties, LenProperties
<1>3. \A i \in 1..Len(s) + 1 : i \in 1..Len(s) \/ i = Len(s) + 1
  BY <1>1
<1>4. Len(s) + 1 \in 1..Len(s) + 1 /\ \A i \in 1..Len(s) : i \in 1..Len(s) + 1
  BY <1>1
<1>5. ElementsOf(Append(s, c)) = ElementsOf(s) \cup {c}
  <2>1. ElementsOf(Append(s, c)) \subseteq ElementsOf(s) \cup {c}
    BY <1>1, <1>2, <1>3 DEF ElementsOf
  <2>2. ElementsOf(s) \subseteq ElementsOf(Append(s, c))
    BY <1>1, <1>2, <1>4 DEF ElementsOf
  <2>3. c \in ElementsOf(Append(s, c))
    BY <1>1, <1>2, <1>4 DEF ElementsOf
  <2>4. QED
    BY <2>1, <2>2, <2>3
<1>6. Ascending(Append(s, c))
  <2>1. ASSUME NEW i \in 1..Len(s) + 1, NEW j \in 1..Len(s) + 1, i < j
        PROVE  Append(s, c)[i].at < Append(s, c)[j].at
    <3>1. i \in 1..Len(s) /\ (j \in 1..Len(s) \/ j = Len(s) + 1)
      BY <1>1, <2>1
    <3>2. s[i] \in ElementsOf(s)
      BY <1>1, <3>1 DEF ElementsOf
    <3>3. QED
      BY <1>1, <1>2, <2>1, <3>1, <3>2 DEF Ascending
  <2>2. QED
    BY <1>2, <2>1 DEF Ascending
<1>7. QED
  BY <1>2, <1>5, <1>6

\* The oldest choicepoints are an ascending chain too.
LEMMA PrefixElements ==
  ASSUME NEW S, NEW s \in Seq(S), Ascending(s), NEW n \in 0..Len(s)
  PROVE  /\ SubSeq(s, 1, n) \in Seq(S) /\ Ascending(SubSeq(s, 1, n))
         /\ OldestOf(ElementsOf(s), ElementsOf(SubSeq(s, 1, n)))
         /\ ElementsOf(SubSeq(s, 1, n)) = {s[i] : i \in 1..n}
<1>1. Len(s) \in Nat /\ DOMAIN s = 1..Len(s) /\ \A i \in 1..Len(s) : s[i] \in S
  BY LenProperties, ElementOfSeq
<1>2. \A i \in 1..n : s[i] \in S
  BY <1>1
<1>3. /\ SubSeq(s, 1, n) \in Seq(S) /\ Len(SubSeq(s, 1, n)) = n
      /\ \A i \in 1..n : SubSeq(s, 1, n)[i] = s[i]
  BY <1>1, <1>2, SubSeqProperties, Z3
<1>4. DOMAIN SubSeq(s, 1, n) = 1..n
  BY <1>3, LenProperties
<1>5. ElementsOf(SubSeq(s, 1, n)) = {s[i] : i \in 1..n}
  BY <1>3, <1>4 DEF ElementsOf
<1>6. \A i \in 1..n : i \in 1..Len(s)
  BY <1>1
<1>7. Ascending(SubSeq(s, 1, n))
  BY <1>1, <1>3, <1>4, <1>6 DEF Ascending
<1>8. OldestOf(ElementsOf(s), ElementsOf(SubSeq(s, 1, n)))
  <2>1. ElementsOf(SubSeq(s, 1, n)) \subseteq ElementsOf(s)
    BY <1>1, <1>5, <1>6 DEF ElementsOf
  <2>2. ASSUME NEW c \in ElementsOf(s), c \notin {s[i] : i \in 1..n}, NEW d \in {s[i] : i \in 1..n}
        PROVE  d.at < c.at
    <3>1. PICK i \in 1..Len(s) : c = s[i]
      BY <1>1 DEF ElementsOf
    <3>2. PICK j \in 1..n : d = s[j]
      OBVIOUS
    <3>3. i \notin 1..n
      BY <2>2, <3>1
    <3>4. j < i /\ j \in 1..Len(s)
      BY <1>1, <3>3
    <3>5. QED
      BY <1>1, <3>1, <3>2, <3>4 DEF Ascending
  <2>3. QED
    BY <1>5, <2>1, <2>2 DEF OldestOf
<1>9. QED
  BY <1>3, <1>5, <1>7, <1>8

(***************************************************************************)
(* Types of what is pushed, and of what is left                            *)
(***************************************************************************)
LEMMA FramesInAreTyped ==
  ASSUME NEW fs, FramesIn(fs)
  PROVE  FramesTyped(fs)
  BY BoundsAssumption DEF FramesIn, FrameType, FramesTyped

\* The fields of the choicepoints in a chain have their types.
LEMMA ChoicesAreTyped ==
  ASSUME NEW s \in Seq(ChoiceType)
  PROVE  /\ ChoicesTyped(ElementsOf(s)) /\ \A c \in ElementsOf(s) : c \in ChoiceType
         /\ \A c \in ChoiceType : c.at \in Nat /\ c.fr \in Nat /\ c.pc \in Pos
<1>1. \A c \in ElementsOf(s) : c \in ChoiceType
  BY ElementOfSeq, LenProperties DEF ElementsOf
<1>2. \A c \in ChoiceType : c.at \in Nat /\ c.fr \in Nat /\ c.pc \in Pos
  BY DEF ChoiceType
<1>3. QED
  BY <1>1, <1>2 DEF ChoicesTyped

\* The beginning of a phase is a place in a clause.
LEMMA AtIsPos ==
  ASSUME NEW phase \in Phases
  PROVE  At(phase) \in Pos /\ At(phase).phase = phase /\ At(phase).open = <<>> /\ At(phase).used = 0
<1>1. <<>> \in Seq(Slot) /\ 0 \in 0..MaxSlots
  BY BoundsAssumption
<1>2. QED
  BY <1>1 DEF At, Pos

\* What is left below sp, whoever owns the clauses.
LEMMA BelowIsLower ==
  ASSUME NEW fs, FramesIn(fs), NEW sp \in Nat, NEW gone
  PROVE  /\ LowerPart(fs, Below(sp, Disowned(fs, gone))) /\ LowerPart(fs, Below(sp, fs))
         /\ LowerPart(fs, Disowned(fs, gone)) /\ LowerPart(fs, fs)
         /\ FramesIn(Below(sp, Disowned(fs, gone))) /\ FramesIn(Below(sp, fs))
         /\ FramesIn(Disowned(fs, gone))
         /\ DOMAIN Below(sp, Disowned(fs, gone)) = {f \in DOMAIN fs : f < sp}
         /\ DOMAIN Below(sp, fs) = {f \in DOMAIN fs : f < sp}
         /\ DOMAIN Disowned(fs, gone) = DOMAIN fs
<1>1. \A f \in DOMAIN fs : f \in Nat
  BY BoundsAssumption DEF FramesIn
<1>2. /\ DOMAIN Disowned(fs, gone) = DOMAIN fs
      /\ \A f \in DOMAIN fs : SameFrame(Disowned(fs, gone)[f], fs[f]) /\ Disowned(fs, gone)[f] \in FrameType
  <2>1. \A a \in FrameType : SameFrame([a EXCEPT !.isLocal = FALSE], a) /\ [a EXCEPT !.isLocal = FALSE] \in FrameType
    BY DEF FrameType, SameFrame
  <2>2. QED
    BY <2>1 DEF Disowned, FramesIn, SameFrame
<1>3. /\ DOMAIN Below(sp, fs) = {f \in DOMAIN fs : f < sp}
      /\ \A f \in DOMAIN Below(sp, fs) : Below(sp, fs)[f] = fs[f]
      /\ DOMAIN Below(sp, Disowned(fs, gone)) = {f \in DOMAIN fs : f < sp}
      /\ \A f \in DOMAIN Below(sp, Disowned(fs, gone)) :
           Below(sp, Disowned(fs, gone))[f] = Disowned(fs, gone)[f]
  BY <1>2 DEF Below
<1>4. QED
  BY <1>1, <1>2, <1>3 DEF LowerPart, FramesIn, SameFrame

(***************************************************************************)
(* The stages as the instructions take them                                *)
(***************************************************************************)
\* What a stack that is ready to run provides
LEMMA ReadyProvides ==
  ASSUME NEW fs, NEW s, NEW g, NEW p, NEW sp, Ready(fs, s, g, p, sp)
  PROVE  /\ FramesTyped(fs) /\ FramesIn(fs)
         /\ s \in Seq(ChoiceType) /\ Ascending(s) /\ ChoicesTyped(ElementsOf(s))
         /\ StackOK(fs, ElementsOf(s)) /\ RunsAt(fs, ElementsOf(s), g, p, sp)
         /\ Place(fs, ElementsOf(s), g, p, sp)
         /\ g \in DOMAIN fs /\ g \in Nat /\ 0 < g /\ g < sp /\ sp \in Nat /\ p \in Pos
         /\ fs[g] \in FrameType
         /\ Top(s) \in Points(ElementsOf(s)) /\ Top(s) \in Nat /\ Top(s) < sp
         /\ \A c \in ElementsOf(s) : c.at <= Top(s)
<1>1. /\ FramesTyped(fs) /\ ChoicesTyped(ElementsOf(s))
      /\ \A c \in ChoiceType : c.at \in Nat
  BY FramesInAreTyped, ChoicesAreTyped DEF Ready, Stacked
<1>2. /\ s \in Seq(ChoiceType) /\ Ascending(s) /\ FramesIn(fs)
      /\ StackOK(fs, ElementsOf(s)) /\ RunsAt(fs, ElementsOf(s), g, p, sp)
      /\ g \in Nat /\ sp \in Nat /\ p \in Pos
  BY DEF Ready, Stacked
<1>3. /\ Top(s) \in Points(ElementsOf(s)) /\ Top(s) \in Nat
      /\ \A c \in ElementsOf(s) : c.at <= Top(s)
  BY <1>1, <1>2, TopIsNewest
<1>4. Place(fs, ElementsOf(s), g, p, sp) /\ g \in DOMAIN fs /\ g < sp
      /\ \A c \in ElementsOf(s) : c.at < sp
  BY <1>2 DEF RunsAt, Place
<1>5. 0 < g /\ fs[g] \in FrameType
  BY <1>1, <1>2, <1>4 DEF FramesTyped, FramesIn
<1>6. Top(s) < sp
  BY <1>2, <1>3, <1>4, <1>5 DEF Points, Null
<1>7. QED
  BY <1>1, <1>2, <1>3, <1>4, <1>5, <1>6

\* A frame is pushed, and starts to run.
LEMMA Calls ==
  ASSUME NEW fs, NEW s, NEW h, NEW r, NEW at, Ready(fs, s, h, r, at),
         r.phase \in {"body", "exitcatch", "query"},
         NEW kind \in Kinds \cup {"pred"}, kind # "query",
         NEW clause \in 0..MaxLocals, NEW n \in 0..MaxSlots,
         NEW p \in Pos, Executes(kind, p.phase),
         p.phase \in {"entry", "body", "catch", "foreign"}, p.open = <<>>,
         Push(fs, at, Frame(kind, h, Top(s), clause, n, r))
  PROVE  Ready(frames', s, FR', p, SP')
<1> DEFINE b == Frame(kind, h, Top(s), clause, n, r)
           cs == ElementsOf(s)
<1>0. /\ FramesTyped(fs) /\ FramesIn(fs)
      /\ s \in Seq(ChoiceType) /\ Ascending(s) /\ ChoicesTyped(cs)
      /\ StackOK(fs, cs) /\ RunsAt(fs, cs, h, r, at)
      /\ h \in Nat /\ 0 < h /\ h < at /\ at \in Nat /\ r \in Pos
      /\ Top(s) \in Points(cs) /\ Top(s) \in Nat /\ \A c \in cs : c.at <= Top(s)
  BY ReadyProvides
<1>1. /\ b \in FrameType /\ b.kind = kind /\ b.parent = h /\ b.choicepoint = Top(s)
      /\ b.ret = r /\ b.slotCount = n
  <2>1. [i \in Slot |-> Null] \in [Slot -> Nat] /\ (clause # Null) \in BOOLEAN
    BY DEF Null
  <2>2. kind \in Kinds \cup {"pred", "query", "caught"}
    OBVIOUS
  <2>3. QED
    BY <1>0, <2>1, <2>2 DEF Frame, FrameType
<1>2. /\ at + n <= StackSize /\ frames' = Put(fs, at, b) /\ FR' = at /\ SP' = at + 1 + n
  BY <1>1 DEF Push
<1> HIDE DEF b
<1>3. at \in 1..StackSize /\ n \in Nat /\ SP' \in Nat /\ at < SP'
  BY <1>0, <1>2, BoundsAssumption
<1>4. FramesIn(Put(fs, at, b))
  BY <1>0, <1>1, <1>3 DEF FramesIn, Put
<1>5. FramesTyped(Put(fs, at, b))
  BY <1>4, FramesInAreTyped
<1>6. StackOK(Put(fs, at, b), cs) /\ RunsAt(Put(fs, at, b), cs, at, p, SP')
  BY <1>0, <1>1, <1>3, <1>5, FramePushed
<1>7. QED
  BY <1>0, <1>2, <1>3, <1>4, <1>6 DEF Ready, Stacked

\* i_usercall
LEMMA UserCalls ==
  ASSUME NEW fs, NEW s, NEW h, NEW r, NEW at, Ready(fs, s, h, r, at),
         r.phase \in {"body", "exitcatch", "query"},
         NEW kept \in SUBSET (1..MaxLocals), UserCall(h, at, fs, s, kept, r)
  PROVE  /\ Ready(frames', s, FR', pos', SP')
         /\ owned' \subseteq 1..MaxLocals
<1>1. PICK clause \in 1..MaxLocals :
        /\ owned' = kept \cup {clause}
        /\ \E n \in 0..MaxSlots : Push(fs, at, Frame("pred", h, Top(s), clause, n, r))
  BY DEF UserCall
<1>2. PICK n \in 0..MaxSlots : Push(fs, at, Frame("pred", h, Top(s), clause, n, r))
  BY <1>1
<1>3. pos' = At("body") /\ clause \in 0..MaxLocals
  BY BoundsAssumption DEF UserCall
<1>4. /\ At("body") \in Pos /\ At("body").phase = "body" /\ At("body").open = <<>>
      /\ Executes("pred", At("body").phase)
  BY AtIsPos DEF Phases, Executes
<1>5. Ready(frames', s, FR', At("body"), SP')
  BY <1>2, <1>3, <1>4, Calls
<1>6. QED
  BY <1>1, <1>3, <1>5

\* A choicepoint is pushed by the frame that runs.
LEMMA Branches ==
  ASSUME NEW fs, NEW s, NEW g, NEW p, NEW sp, Ready(fs, s, g, p, sp), p.phase # "exitcatch",
         NEW c \in ChoiceType, c.at = sp, c.fr = g,
         c.pc # NoPC =>
           /\ Place(fs, ElementsOf(s), g, c.pc, sp)
           /\ c.pc.phase \in IF c.type = "Head" THEN {"entry", "foreign"} ELSE {"body"}
           /\ Noted(fs, g, c.pc) \subseteq Points(ElementsOf(s))
  PROVE  /\ Stacked(fs, Append(s, c))
         /\ ElementsOf(Append(s, c)) = ElementsOf(s) \cup {c}
         /\ Anchored(fs, ElementsOf(s) \cup {c}, g)
         /\ AfterChoice(c) \in Nat /\ sp < AfterChoice(c)
         /\ Top(Append(s, c)) = sp
<1>0. /\ FramesTyped(fs) /\ FramesIn(fs)
      /\ s \in Seq(ChoiceType) /\ Ascending(s) /\ ChoicesTyped(ElementsOf(s))
      /\ StackOK(fs, ElementsOf(s)) /\ RunsAt(fs, ElementsOf(s), g, p, sp)
      /\ sp \in Nat /\ \A d \in ElementsOf(s) : d.at < sp
  BY ReadyProvides DEF RunsAt
<1>1. ChoicesTyped({c})
  BY DEF ChoicesTyped, ChoiceType
<1>2. StackOK(fs, ElementsOf(s) \cup {c}) /\ Anchored(fs, ElementsOf(s) \cup {c}, g)
  BY <1>0, <1>1, ChoicePushed
<1>3. /\ Append(s, c) \in Seq(ChoiceType) /\ Ascending(Append(s, c))
      /\ ElementsOf(Append(s, c)) = ElementsOf(s) \cup {c}
  BY <1>0, AppendElements
<1>4. AfterChoice(c) \in Nat /\ sp < AfterChoice(c)
  BY <1>0, BoundsAssumption DEF AfterChoice
<1>5. Top(Append(s, c)) = sp
  <2>1. /\ Len(Append(s, c)) = Len(s) + 1 /\ Append(s, c)[Len(s) + 1] = c
        /\ Append(s, c) # <<>>
    BY <1>0, AppendProperties, LenProperties, EmptySeq
  <2>2. QED
    BY <2>1 DEF Top
<1>6. QED
  BY <1>0, <1>2, <1>3, <1>4, <1>5 DEF Stacked

\* ... and its clause goes on
LEMMA BranchGoesOn ==
  ASSUME NEW fs, NEW s, NEW g, NEW p, NEW sp, Ready(fs, s, g, p, sp), p.phase = "body",
         NEW c \in ChoiceType, c.at = sp, c.fr = g, c.pc.used <= p.used,
         c.pc # NoPC =>
           /\ Place(fs, ElementsOf(s), g, c.pc, sp)
           /\ c.pc.phase \in IF c.type = "Head" THEN {"entry", "foreign"} ELSE {"body"}
           /\ Noted(fs, g, c.pc) \subseteq Points(ElementsOf(s))
  PROVE  Ready(fs, Append(s, c), g, p, AfterChoice(c))
<1>0. /\ FramesTyped(fs) /\ ChoicesTyped(ElementsOf(s))
      /\ RunsAt(fs, ElementsOf(s), g, p, sp)
      /\ sp \in Nat /\ g \in Nat /\ p \in Pos
  BY ReadyProvides
<1>1. ChoicesTyped({c})
  BY DEF ChoicesTyped, ChoiceType
<1>2. /\ Stacked(fs, Append(s, c))
      /\ ElementsOf(Append(s, c)) = ElementsOf(s) \cup {c}
      /\ Anchored(fs, ElementsOf(s) \cup {c}, g)
      /\ AfterChoice(c) \in Nat /\ sp < AfterChoice(c)
  BY Branches
<1>3. RunsAt(fs, ElementsOf(s) \cup {c}, g, p, AfterChoice(c))
  BY <1>0, <1>1, <1>2, ChoiceGoesOn
<1>4. QED
  BY <1>0, <1>2, <1>3 DEF Ready

\* i_exit, when the choicepoints in t are left of those in s
LEMMA LeavesCall ==
  ASSUME NEW s, Stacked(frames, s), FR \in DOMAIN frames, NEW p, NEW sp,
         \A f \in DOMAIN frames : f < sp, \A c \in ElementsOf(s) : c.at < sp,
         Younger(frames, ElementsOf(s), FR, p, sp), frames[FR].kind # "query",
         NEW t \in Seq(ChoiceType), Ascending(t), OldestOf(ElementsOf(s), ElementsOf(t)),
         Anchored(frames, ElementsOf(t), frames[FR].parent),
         Noted(frames, frames[FR].parent, frames[FR].ret) \subseteq Points(ElementsOf(t))
  PROVE  Ready(Below(AfterExit(t), frames), t, frames[FR].parent, frames[FR].ret, AfterExit(t))
<1> DEFINE h   == frames[FR].parent
           new == AfterExit(t)
           gs  == Below(new, frames)
<1>0. /\ FramesTyped(frames) /\ FramesIn(frames)
      /\ s \in Seq(ChoiceType) /\ ChoicesTyped(ElementsOf(s)) /\ ChoicesTyped(ElementsOf(t))
      /\ \A c \in ElementsOf(t) : c \in ChoiceType /\ c.at \in Nat /\ c \in ElementsOf(s)
      /\ \A c \in ChoiceType : c.at \in Nat
      /\ StackOK(frames, ElementsOf(s))
  BY FramesInAreTyped, ChoicesAreTyped DEF Stacked, OldestOf
<1>1. /\ h \in DOMAIN frames /\ h \in Nat /\ frames[h].slotCount \in Nat
      /\ frames[FR].ret \in Pos
  <2>1. h \in DOMAIN frames /\ h \in Nat
    BY <1>0 DEF StackOK, FrameOK, CallOK, Place, FramesTyped
  <2>2. frames[h] \in FrameType /\ frames[FR] \in FrameType
    BY <1>0, <2>1 DEF FramesIn
  <2>3. QED
    BY <2>1, <2>2, BoundsAssumption DEF FrameType
<1>2. /\ Top(t) \in Nat /\ \A c \in ElementsOf(t) : c.at <= Top(t)
      /\ t # <<>> => t[Len(t)] \in ElementsOf(t) /\ t[Len(t)] \in ChoiceType
  BY <1>0, TopIsNewest
<1>3. new \in Nat /\ h < new /\ Top(t) < new
  <2>1. CASE Top(t) < h
    BY <1>1, <1>2, <2>1 DEF AfterExit, AfterFrame
  <2>2. CASE ~(Top(t) < h)
    <3>1. t # <<>>
      BY <1>0, <1>1, <2>2 DEF Top, FramesTyped, Null
    <3>2. new = AfterChoice(t[Len(t)]) /\ Top(t) = t[Len(t)].at
      BY <2>2, <3>1 DEF AfterExit, Top
    <3>3. AfterChoice(t[Len(t)]) \in Nat /\ t[Len(t)].at < AfterChoice(t[Len(t)])
      BY <1>2, <3>1, <3>2, BoundsAssumption DEF AfterChoice
    <3>4. QED
      BY <1>1, <1>2, <2>2, <3>2, <3>3
  <2>3. QED
    BY <2>1, <2>2
<1> HIDE DEF new
<1>4. /\ LowerPart(frames, gs) /\ FramesIn(gs) /\ DOMAIN gs = {f \in DOMAIN frames : f < new}
  BY <1>0, <1>3, BelowIsLower
<1> HIDE DEF gs
<1>5. FramesTyped(gs)
  BY <1>4, FramesInAreTyped
<1>6. \A c \in ElementsOf(t) : c.at < new
  BY <1>0, <1>2, <1>3
<1>7. \A c \in ElementsOf(t) : c.fr \in DOMAIN gs
  <2>1. ASSUME NEW c \in ElementsOf(t)
        PROVE  c.fr \in DOMAIN gs
    <3>1. c.fr \in DOMAIN frames /\ c.fr < c.at /\ c.at \in Nat /\ c.fr \in Nat
      BY <1>0 DEF StackOK, ChoiceOK, ChoicesTyped
    <3>2. c.fr < new
      BY <1>3, <1>6, <3>1
    <3>3. QED
      BY <1>4, <3>1, <3>2
  <2>2. QED
    BY <2>1
<1>8. StackOK(gs, ElementsOf(t))
  BY <1>0, <1>4, <1>5, <1>7, StackShrinks
<1>9. h \in DOMAIN gs /\ \A f \in DOMAIN gs : f < new
  BY <1>1, <1>3, <1>4
<1>10. RunsAt(gs, ElementsOf(t), h, frames[FR].ret, new)
  <2>1. 0 < new
    BY <1>1, <1>3
  <2>2. QED
    BY <1>0, <1>3, <1>4, <1>5, <1>6, <1>9, <2>1, CallReturns
<1>11. QED
  BY <1>1, <1>3, <1>4, <1>8, <1>10 DEF Ready, Stacked, gs, new

\* ... when all of them are left
LEMMA LeavesRunning ==
  ASSUME Ready(frames, cps, FR, pos, SP), frames[FR].kind # "query"
  PROVE  Ready(Below(AfterExit(cps), frames), cps, frames[FR].parent, frames[FR].ret,
               AfterExit(cps))
<1>1. /\ Stacked(frames, cps) /\ FR \in DOMAIN frames /\ StackOK(frames, ElementsOf(cps))
      /\ cps \in Seq(ChoiceType) /\ Ascending(cps)
      /\ \A f \in DOMAIN frames : f < SP
      /\ \A c \in ElementsOf(cps) : c.at < SP
      /\ Younger(frames, ElementsOf(cps), FR, pos, SP)
      /\ Anchored(frames, ElementsOf(cps), FR)
  BY ReadyProvides DEF Ready, RunsAt, Place
<1>2. /\ Anchored(frames, ElementsOf(cps), frames[FR].parent)
      /\ Noted(frames, frames[FR].parent, frames[FR].ret) \subseteq Points(ElementsOf(cps))
  BY <1>1, CallerAnchored
<1>3. OldestOf(ElementsOf(cps), ElementsOf(cps))
  BY DEF OldestOf
<1>4. QED
  BY <1>1, <1>2, <1>3, LeavesCall

\* A place to which a call returns
LEMMA ReturnPlace ==
  ASSUME NEW fs, NEW s, Stacked(fs, s), NEW f \in DOMAIN fs, fs[f].kind # "query"
  PROVE  fs[f].ret.phase \in {"body", "exitcatch", "query"}
  BY DEF Stacked, StackOK, FrameOK, CallOK

(***************************************************************************)
(* Backtracking                                                            *)
(***************************************************************************)
LEMMA Backtracks ==
  ASSUME StackInv, Ready(frames, cps, FR, pos, SP), Backtrack
  PROVE  /\ FR' \in Nat /\ pos' \in Pos /\ SP' \in Nat /\ owned' \subseteq 1..MaxLocals
         /\ Stacked(frames', cps')
         /\ status' # "fail" => Ready(frames', cps', FR', pos', SP')
<1>1. CASE cps = <<>> /\ status' = "fail" /\ UNCHANGED <<FR, SP, frames, cps, pos, owned>>
  BY <1>1 DEF StackInv
<1>2. ASSUME NEW n \in DOMAIN cps, Resumed(n),
             status' = IF cps[n].pc = NoPC THEN "fail" ELSE "run",
             cps' = SubSeq(cps, 1, n - 1), Apply(cps[n], Abandoned(n))
      PROVE  /\ FR' \in Nat /\ pos' \in Pos /\ SP' \in Nat /\ owned' \subseteq 1..MaxLocals
             /\ Stacked(frames', cps')
             /\ status' # "fail" => Ready(frames', cps', FR', pos', SP')
  <2> DEFINE c   == cps[n]
             cs  == ElementsOf(cps)
             ds  == ElementsOf(cps')
             low == Below(c.at, Disowned(frames, Abandoned(n)))
  <2>0. /\ FramesTyped(frames) /\ FramesIn(frames) /\ StackOK(frames, cs)
        /\ cps \in Seq(ChoiceType) /\ Ascending(cps) /\ ChoicesTyped(cs)
        /\ Len(cps) \in Nat /\ DOMAIN cps = 1..Len(cps)
    BY ReadyProvides, LenProperties
  <2>1. /\ c \in cs /\ c \in ChoiceType /\ c.at \in Nat /\ c.fr \in Nat /\ c.pc \in Pos
        /\ c.clause \in 0..MaxLocals /\ c.slotCount \in 0..MaxSlots
        /\ c.fr \in DOMAIN frames /\ c.fr < c.at
    <3>1. c \in cs /\ c \in ChoiceType
      BY <2>0, ElementOfSeq DEF ElementsOf
    <3>2. QED
      BY <2>0, <3>1 DEF ChoiceType, StackOK, ChoiceOK
  <2>2. n - 1 \in 0..Len(cps) /\ n \in 1..Len(cps)
    BY <2>0
  <2>3. /\ cps' \in Seq(ChoiceType) /\ Ascending(cps') /\ OldestOf(cs, ds)
        /\ ds = {cps[i] : i \in 1..n - 1}
    BY <1>2, <2>0, <2>2, PrefixElements
  <2>4. \A d \in cs : d \in ds <=> d.at < c.at
    <3>1. ASSUME NEW d \in cs
          PROVE  d \in ds <=> d.at < c.at
      <4>1. PICK i \in 1..Len(cps) : d = cps[i]
        BY <2>0 DEF ElementsOf
      <4>2. CASE i < n
        <5>1. i \in 1..n - 1
          BY <2>0, <2>2, <4>2
        <5>2. d.at < c.at
          BY <2>0, <4>1, <4>2 DEF Ascending
        <5>3. QED
          BY <2>3, <4>1, <5>1, <5>2
      <4>3. CASE n <= i
        <5>1. ~(d.at < c.at)
          <6>1. d.at \in Nat /\ c.at \in Nat
            BY <2>0, <2>1 DEF ChoicesTyped
          <6>2. i = n \/ n < i
            BY <2>2, <4>3
          <6>3. n < i => c.at < d.at
            BY <2>0, <4>1 DEF Ascending
          <6>4. QED
            BY <4>1, <6>1, <6>2, <6>3
        <5>2. \A j \in 1..n - 1 : cps[j].at < c.at
          BY <2>0, <2>2 DEF Ascending
        <5>3. QED
          BY <2>3, <5>1, <5>2
      <4>4. QED
        BY <2>2, <4>2, <4>3
    <3>2. QED
      BY <3>1
  <2>5. /\ LowerPart(frames, low) /\ FramesIn(low)
        /\ DOMAIN low = {f \in DOMAIN frames : f < c.at}
    <3> DEFINE sp   == c.at
               gone == Abandoned(n)
    <3>1. FramesIn(frames) /\ sp \in Nat /\ low = Below(sp, Disowned(frames, gone))
      BY <2>0, <2>1
    <3> HIDE DEF sp, gone
    <3>2. /\ LowerPart(frames, Below(sp, Disowned(frames, gone)))
          /\ FramesIn(Below(sp, Disowned(frames, gone)))
          /\ DOMAIN Below(sp, Disowned(frames, gone)) = {f \in DOMAIN frames : f < sp}
      BY <3>1, BelowIsLower
    <3>3. QED
      BY <3>1, <3>2 DEF sp
  <2> HIDE DEF low
  <2>6. /\ FR' = c.fr /\ pos' = c.pc
        /\ SP' = IF c.type = "Head" THEN c.fr + 1 + c.slotCount ELSE c.at
        /\ frames' = [low EXCEPT ![c.fr].clause = c.clause, ![c.fr].slotCount = c.slotCount]
        /\ owned' \subseteq owned
    BY <1>2 DEF Apply, low
  <2>7. c.fr \in DOMAIN low
    BY <2>1, <2>5
  <2>8. /\ DOMAIN frames' = DOMAIN low
        /\ \A f \in DOMAIN low : frames'[f] \in FrameType /\ SameFrame(frames'[f], low[f])
    <3>1. \A a \in FrameType :
            LET a2 == [a EXCEPT !.clause = c.clause, !.slotCount = c.slotCount]
            IN  a2 \in FrameType /\ SameFrame(a2, a)
      BY <2>1 DEF FrameType, SameFrame
    <3>2. /\ DOMAIN frames' = DOMAIN low
          /\ \A f \in DOMAIN low : f # c.fr => frames'[f] = low[f]
          /\ frames'[c.fr] = [low[c.fr] EXCEPT !.clause = c.clause, !.slotCount = c.slotCount]
      BY <2>6, <2>7
    <3>3. \A f \in DOMAIN low : low[f] \in FrameType /\ SameFrame(low[f], low[f])
      BY <2>5 DEF FramesIn, SameFrame
    <3>4. QED
      BY <2>7, <3>1, <3>2, <3>3
  <2>9. LowerPart(frames, frames') /\ FramesIn(frames')
    BY <2>5, <2>8 DEF LowerPart, FramesIn, SameFrame
  <2>10. FramesTyped(frames')
    BY <2>9, FramesInAreTyped
  <2>11. \A d \in ds : d.fr \in DOMAIN frames'
    <3>1. ASSUME NEW d \in ds
          PROVE  d.fr \in DOMAIN frames'
      <4>1. d \in cs /\ d.at < c.at
        BY <2>3, <2>4 DEF OldestOf
      <4>2. d.fr \in DOMAIN frames /\ d.fr < d.at /\ d.at \in Nat /\ d.fr \in Nat
        BY <2>0, <4>1 DEF StackOK, ChoiceOK, ChoicesTyped
      <4>3. d.fr < c.at
        BY <2>1, <4>1, <4>2
      <4>4. QED
        BY <2>5, <2>8, <4>2, <4>3
    <3>2. QED
      BY <3>1
  <2>12. Stacked(frames', cps')
    <3>1. StackOK(frames', ds)
      BY <2>0, <2>3, <2>9, <2>10, <2>11, StackShrinks
    <3>2. QED
      BY <2>3, <2>9, <3>1 DEF Stacked
  <2>13. SP' \in Nat /\ IF c.type = "Head" THEN c.fr < SP' ELSE SP' = c.at
    BY <2>1, <2>6, BoundsAssumption
  <2>14. ASSUME status' # "fail"
         PROVE  Ready(frames', cps', FR', pos', SP')
    <3>1. c.pc # NoPC
      BY <1>2, <2>14
    <3>2. c.fr \in DOMAIN frames' /\ \A f \in DOMAIN frames' : f < c.at
      BY <2>5, <2>7, <2>8
    <3>3. RunsAt(frames', ds, c.fr, c.pc, SP')
      BY <2>0, <2>1, <2>3, <2>4, <2>9, <2>10, <2>13, <3>1, <3>2, ChoiceResumes
    <3>4. QED
      BY <2>1, <2>6, <2>12, <2>13, <3>3 DEF Ready
  <2>15. QED
    BY <2>1, <2>6, <2>12, <2>13, <2>14 DEF StackInv
<1>3. QED
  BY <1>1, <1>2 DEF Backtrack

(***************************************************************************)
(* Cuts                                                                    *)
(***************************************************************************)
\* q is pos, or a position with fewer open conditions.
Narrower(q, p) ==
  /\ p.phase = "body" /\ q.phase = "body" /\ p.used = q.used
  /\ DOMAIN q.open \subseteq DOMAIN p.open
  /\ \A k \in DOMAIN q.open : q.open[k] = p.open[k]

\* Dropping the choicepoints above one that may be cut to leaves the stack well formed.
LEMMA DropsAbove ==
  ASSUME Ready(frames, cps, FR, pos, SP),
         NEW target \in Targets(frames, FR, pos), NEW q \in Pos, Narrower(q, pos),
         \A t \in Targets(frames, FR, q) : t <= target,
         NEW m \in 0..Len(cps), \A i \in DOMAIN cps : cps[i].at <= target => i <= m,
         NEW gs, LowerPart(frames, gs), FramesIn(gs), NEW new \in Nat,
         FR \in DOMAIN gs, \A f \in DOMAIN gs : f < new, target < new,
         \A i \in 1..m : cps[i].at < new /\ cps[i].fr \in DOMAIN gs
  PROVE  Ready(gs, SubSeq(cps, 1, m), FR, q, new)
<1> DEFINE cs == ElementsOf(cps)
           ds == ElementsOf(SubSeq(cps, 1, m))
<1>0. /\ FramesTyped(frames) /\ FramesIn(frames) /\ StackOK(frames, cs)
      /\ cps \in Seq(ChoiceType) /\ Ascending(cps) /\ ChoicesTyped(cs)
      /\ RunsAt(frames, cs, FR, pos, SP) /\ SP \in Nat /\ pos \in Pos /\ FR \in Nat
      /\ FR \in DOMAIN frames
      /\ Len(cps) \in Nat /\ DOMAIN cps = 1..Len(cps)
  BY ReadyProvides, LenProperties
<1>1. /\ SubSeq(cps, 1, m) \in Seq(ChoiceType) /\ Ascending(SubSeq(cps, 1, m))
      /\ OldestOf(cs, ds) /\ ds = {cps[i] : i \in 1..m}
  BY <1>0, PrefixElements
<1>2. FramesTyped(gs)
  BY FramesInAreTyped
<1>3. \A c \in ds : c.at < new /\ c.fr \in DOMAIN gs
  BY <1>1
<1>4. StackOK(gs, ds)
  BY <1>0, <1>1, <1>2, <1>3, StackShrinks
<1>5. target \in Nat /\ target \in Points(ds)
  <2>1. target \in Nat /\ target \in Points(cs)
    BY <1>0, TargetsAreAddresses DEF RunsAt, Targets, Anchored, Points
  <2>2. CASE target = Null
    BY <2>1, <2>2 DEF Points
  <2>3. CASE target # Null
    <3>1. PICK i \in 1..Len(cps) : target = cps[i].at
      BY <1>0, <2>1, <2>3 DEF Points, ElementsOf
    <3>2. i <= m
      BY <1>0, <2>1, <3>1
    <3>3. cps[i] \in ds
      BY <1>1, <3>2
    <3>4. QED
      BY <2>1, <3>1, <3>3 DEF Points
  <2>4. QED
    BY <2>2, <2>3, <2>1
<1>6. RunsAt(gs, ds, FR, q, new)
  BY <1>0, <1>1, <1>2, <1>3, <1>5, CutGoesOn DEF Narrower
<1>7. QED
  BY <1>0, <1>1, <1>4, <1>6 DEF Ready, Stacked

\* A set of numbers has a least one.
LEMMA LeastNumber ==
  ASSUME NEW T \in SUBSET Nat, T # {}
  PROVE  \E x \in T : \A y \in T : x <= y
<1>1. PICK x \in T : \A y \in T : ~(<<y, x>> \in OpToRel(<, Nat))
  BY NatLessThanWellFounded, WFMin
<1>2. \A y \in T : <<y, x>> \in Nat \X Nat
  OBVIOUS
<1>3. \A y \in T : ~(y < x)
  BY <1>1, <1>2 DEF OpToRel
<1>4. QED
  BY <1>3

\* A cut leaves the running frame and what it may still cut to below SP.
LEMMA CutLeaves ==
  ASSUME Ready(frames, cps, FR, pos, SP), NEW target \in Targets(frames, FR, pos),
         NEW n \in 0..Len(cps), \A i \in DOMAIN cps : i > n <=> cps[i].at > target
  PROVE  CutSP(n) \in Nat /\ FR < CutSP(n) /\ target < CutSP(n)
<1> DEFINE deeper == {i \in n + 1..Len(cps) : cps[i].fr > FR}
<1>0. /\ FramesTyped(frames) /\ FramesIn(frames) /\ StackOK(frames, ElementsOf(cps))
      /\ cps \in Seq(ChoiceType) /\ ChoicesTyped(ElementsOf(cps))
      /\ RunsAt(frames, ElementsOf(cps), FR, pos, SP) /\ SP \in Nat /\ FR \in Nat
      /\ Place(frames, ElementsOf(cps), FR, pos, SP) /\ FR < SP
      /\ Len(cps) \in Nat /\ DOMAIN cps = 1..Len(cps)
  BY ReadyProvides, LenProperties
<1>1. /\ target < SP
      /\ \A c \in ElementsOf(cps) : target < c.at /\ c.at < SP /\ FR < c.fr => target < c.fr
  BY <1>0 DEF Place, Younger
<1>2. CASE deeper = {}
  BY <1>0, <1>1, <1>2 DEF CutSP
<1>3. CASE deeper # {}
  <2>1. deeper \in SUBSET Nat
    BY <1>0
  <2>2. \E i \in deeper : \A j \in deeper : i <= j
    BY <1>3, <2>1, LeastNumber
  <2>3. PICK i \in deeper : CutSP(n) = AfterFrame(cps[i].fr)
    <3>1. (CHOOSE i \in deeper : \A j \in deeper : i <= j) \in deeper
      BY <2>2
    <3>2. CutSP(n) = AfterFrame(cps[CHOOSE i \in deeper : \A j \in deeper : i <= j].fr)
      BY <1>3 DEF CutSP
    <3>3. QED
      BY <3>1, <3>2
  <2>4. i \in 1..Len(cps) /\ i > n /\ cps[i] \in ElementsOf(cps) /\ cps[i].fr > FR
    BY <1>0, <2>3 DEF ElementsOf
  <2>5. /\ cps[i].fr \in DOMAIN frames /\ cps[i].fr \in Nat /\ cps[i].at \in Nat
        /\ cps[i].at < SP
    BY <1>0, <2>4 DEF StackOK, ChoiceOK, ChoicesTyped, RunsAt
  <2>6. frames[cps[i].fr].slotCount \in Nat
    BY <1>0, <2>5, BoundsAssumption DEF FramesIn, FrameType
  <2>7. target < cps[i].fr
    BY <1>0, <1>1, <2>4, <2>5
  <2>8. target \in Nat
    BY <1>0, TargetsAreAddresses DEF Ready, RunsAt, Place
  <2>9. AfterFrame(cps[i].fr) \in Nat /\ cps[i].fr < AfterFrame(cps[i].fr)
    BY <2>5, <2>6 DEF AfterFrame
  <2>10. QED
    BY <1>0, <2>3, <2>4, <2>5, <2>7, <2>8, <2>9
<1>4. QED
  BY <1>2, <1>3

\* The step leaves the query where it can go on.
GoesOn == Ready(frames', cps', FR', pos', SP') /\ owned' \subseteq 1..MaxLocals

\* cut_to, when no cleanup handler interrupts it
LEMMA Cuts ==
  ASSUME Ready(frames, cps, FR, pos, SP), owned \subseteq 1..MaxLocals,
         NEW target \in Targets(frames, FR, pos), NEW q \in Pos, Narrower(q, pos),
         \A t \in Targets(frames, FR, q) : t <= target,
         Cut(target, q)
  PROVE  GoesOn
<1>1. PICK n \in 0..Len(cps) :
        /\ \A i \in DOMAIN cps : i > n <=> cps[i].at > target
        /\ cps'    = SubSeq(cps, 1, n)
        /\ SP'     = CutSP(n)
        /\ frames' = Below(CutSP(n), Disowned(frames, CutFrames(n)))
        /\ owned'  = owned \ ClausesOf(CutFrames(n))
        /\ pos'    = q /\ FR' = FR
  BY DEF Cut
<1>0. /\ FramesIn(frames) /\ FramesTyped(frames) /\ FR \in DOMAIN frames /\ pos \in Pos
      /\ cps \in Seq(ChoiceType) /\ ChoicesTyped(ElementsOf(cps))
      /\ StackOK(frames, ElementsOf(cps))
      /\ Len(cps) \in Nat /\ DOMAIN cps = 1..Len(cps)
  BY ReadyProvides, LenProperties
<1> DEFINE new  == CutSP(n)
           gone == CutFrames(n)
<1>2. new \in Nat /\ FR < new /\ target < new
  BY <1>1, CutLeaves
<1>3. frames' = Below(new, Disowned(frames, gone))
  BY <1>1
<1> HIDE DEF new, gone
<1>4. /\ LowerPart(frames, frames') /\ FramesIn(frames')
      /\ DOMAIN frames' = {f \in DOMAIN frames : f < new}
  <2>1. /\ LowerPart(frames, Below(new, Disowned(frames, gone)))
        /\ FramesIn(Below(new, Disowned(frames, gone)))
        /\ DOMAIN Below(new, Disowned(frames, gone)) = {f \in DOMAIN frames : f < new}
    <3>1. FramesIn(frames) /\ new \in Nat
      BY <1>0, <1>2
    <3>2. QED
      BY <3>1, BelowIsLower
  <2>2. QED
    BY <1>3, <2>1
<1>5. FR \in DOMAIN frames' /\ \A f \in DOMAIN frames' : f < new
  BY <1>0, <1>2, <1>4
<1>6. target \in Nat
  BY <1>0, TargetsAreAddresses
<1>7. \A i \in 1..Len(cps) : cps[i].at \in Nat /\ cps[i].fr \in Nat /\ cps[i].fr < cps[i].at
                             /\ cps[i].fr \in DOMAIN frames
  BY <1>0 DEF ElementsOf, ChoicesTyped, StackOK, ChoiceOK
<1>8. ASSUME NEW i \in 1..n
      PROVE  cps[i].at < new /\ cps[i].fr \in DOMAIN frames'
  <2>1. i \in 1..Len(cps) /\ ~(i > n)
    BY <1>0
  <2>2. cps[i].at <= target
    BY <1>0, <1>1, <1>6, <1>7, <2>1
  <2>3. cps[i].at < new /\ cps[i].fr < new
    BY <1>2, <1>6, <1>7, <2>1, <2>2
  <2>4. QED
    BY <1>4, <1>7, <2>1, <2>3
<1>9. \A i \in DOMAIN cps : cps[i].at <= target => i <= n
  BY <1>0, <1>1, <1>6, <1>7
<1>10. Ready(frames', SubSeq(cps, 1, n), FR, q, new)
  BY <1>2, <1>4, <1>5, <1>8, <1>9, DropsAbove
<1>11. owned' \subseteq 1..MaxLocals
  BY <1>1
<1>12. QED
  BY <1>1, <1>10, <1>11 DEF GoesOn, new

\* ... and when one does: its handler is called above what the cut has left so far.
LEMMA HandlerStage ==
  ASSUME Ready(frames, cps, FR, pos, SP), pos.phase = "body",
         NEW target \in Targets(frames, FR, pos),
         \A t \in Targets(frames, FR, pos) : t <= target,
         NEW n \in DOMAIN cps, cps[n].at > target
  PROVE  Ready(Disowned(frames, CutFrames(n - 1)), SubSeq(cps, 1, n - 1), FR, pos, SP)
<1>0. /\ FramesIn(frames) /\ FramesTyped(frames) /\ FR \in DOMAIN frames /\ pos \in Pos
      /\ cps \in Seq(ChoiceType) /\ ChoicesTyped(ElementsOf(cps)) /\ Ascending(cps)
      /\ StackOK(frames, ElementsOf(cps)) /\ SP \in Nat
      /\ RunsAt(frames, ElementsOf(cps), FR, pos, SP)
      /\ Len(cps) \in Nat /\ DOMAIN cps = 1..Len(cps)
  BY ReadyProvides, LenProperties
<1> DEFINE m    == n - 1
           gone == CutFrames(m)
           gs   == Disowned(frames, gone)
<1>2. m \in 0..Len(cps) /\ n \in 1..Len(cps)
  BY <1>0
<1>3. LowerPart(frames, gs) /\ FramesIn(gs) /\ DOMAIN gs = DOMAIN frames
  <2> HIDE DEF gone
  <2>1. QED
    BY <1>0, BelowIsLower
<1> HIDE DEF gs
<1>4. \A i \in 1..Len(cps) : /\ cps[i].at \in Nat /\ cps[i].at < SP
                             /\ cps[i].fr \in DOMAIN frames
  BY <1>0 DEF ElementsOf, ChoicesTyped, StackOK, ChoiceOK, RunsAt
<1>5. target \in Nat /\ target < SP
  BY <1>0, TargetsAreAddresses DEF RunsAt, Place, Younger
<1>6. \A i \in DOMAIN cps : cps[i].at <= target => i <= m
  <2>1. ASSUME NEW i \in 1..Len(cps), cps[i].at <= target
        PROVE  i <= m
    <3>1. CASE n < i
      <4>1. cps[n].at < cps[i].at
        BY <1>0, <1>2, <3>1 DEF Ascending
      <4>2. QED
        BY <1>2, <1>4, <1>5, <2>1, <4>1
    <3>2. CASE n = i
      BY <1>2, <1>4, <1>5, <2>1, <3>2
    <3>3. CASE i < n
      BY <1>2, <3>3
    <3>4. QED
      BY <1>2, <3>1, <3>2, <3>3
  <2>2. QED
    BY <1>0, <2>1
<1>7. Narrower(pos, pos)
  BY DEF Narrower
<1>8. \A i \in 1..m : cps[i].at < SP /\ cps[i].fr \in DOMAIN gs
  BY <1>2, <1>3, <1>4
<1>9. FR \in DOMAIN gs /\ \A f \in DOMAIN gs : f < SP
  BY <1>0, <1>3 DEF RunsAt
<1>10. QED
  BY <1>0, <1>2, <1>3, <1>5, <1>6, <1>7, <1>8, <1>9, DropsAbove DEF gs

\* cut_to, when the cleanup handler of a choicepoint interrupts it: the cut is done as far as that
\* choicepoint, and the handler is called.
LEMMA CutsToHandler ==
  ASSUME Ready(frames, cps, FR, pos, SP), owned \subseteq 1..MaxLocals, pos.phase = "body",
         NEW target \in Targets(frames, FR, pos),
         \A t \in Targets(frames, FR, pos) : t <= target,
         CutCleanup(target)
  PROVE  GoesOn
<1>1. PICK n \in DOMAIN cps :
        /\ cps[n].at > target
        /\ cps' = SubSeq(cps, 1, n - 1)
        /\ UserCall(FR, SP, Disowned(frames, CutFrames(n - 1)), cps',
                    owned \ ClausesOf(CutFrames(n - 1)), pos)
  BY DEF CutCleanup
<1> DEFINE m    == n - 1
           gone == CutFrames(m)
           gs   == Disowned(frames, gone)
<1> HIDE DEF gs
<1>2. Ready(gs, SubSeq(cps, 1, m), FR, pos, SP)
  BY <1>1, HandlerStage DEF gs
<1>3. owned \ ClausesOf(gone) \in SUBSET (1..MaxLocals)
  OBVIOUS
<1>4. UserCall(FR, SP, gs, SubSeq(cps, 1, m), owned \ ClausesOf(gone), pos)
  BY <1>1 DEF gs
<1>5. Ready(frames', SubSeq(cps, 1, m), FR', pos', SP') /\ owned' \subseteq 1..MaxLocals
  <2> HIDE DEF gone
  <2>1. QED
    BY <1>2, <1>3, <1>4, UserCalls
<1>6. QED
  BY <1>1, <1>5 DEF GoesOn

(***************************************************************************)
(* The instructions, one by one                                            *)
(***************************************************************************)
CanRun ==
  /\ Ready(frames, cps, FR, pos, SP)
  /\ owned \subseteq 1..MaxLocals
  /\ MemoryOK

\* Which frames execute the instructions of each phase
LEMMA KindRuns ==
  ASSUME CanRun
  PROVE  /\ pos.phase = "body" => frames[FR].kind = "pred"
         /\ pos.phase = "foreign" => frames[FR].kind = "foreign"
         /\ pos.phase \in {"catch", "exitcatch"} => frames[FR].kind = "catch/3"
  BY DEF CanRun, Ready, RunsAt, Place, Executes

\* A choicepoint that saves arguments or alternatives has its type.
LEMMA ChoiceTyped ==
  ASSUME CanRun, NEW type \in {"Head", "Body"}, NEW pc \in Pos,
         NEW clause \in 0..MaxLocals, NEW n \in 0..MaxSlots, NEW cleanup \in Nat
  PROVE  /\ NewChoice(type, pc, clause, n, cleanup) \in ChoiceType
         /\ NewChoice(type, pc, clause, n, cleanup).at = SP
         /\ NewChoice(type, pc, clause, n, cleanup).fr = FR
         /\ NewChoice(type, pc, clause, n, cleanup).pc = pc
         /\ NewChoice(type, pc, clause, n, cleanup).type = type
<1>1. /\ SP \in Nat /\ FR \in Nat
      /\ heap \in Seq(1..HeapSize \cup Atoms) /\ Len(heap) \in Nat /\ Len(trail) \in Nat
  BY LenProperties DEF CanRun, Ready, MemoryOK
<1>2. QED
  BY <1>1 DEF NewChoice, ChoiceType

\* So has one for an alternative.
LEMMA AlternativeTyped ==
  ASSUME CanRun, NEW type \in {"Head", "Body"}, NEW pc \in Pos, NEW cleanup \in Nat
  PROVE  /\ Alternative(type, pc, cleanup) \in ChoiceType
         /\ Alternative(type, pc, cleanup).at = SP
         /\ Alternative(type, pc, cleanup).fr = FR
         /\ Alternative(type, pc, cleanup).pc = pc
         /\ Alternative(type, pc, cleanup).type = type
<1>1. frames[FR].clause \in 0..MaxLocals /\ frames[FR].slotCount \in 0..MaxSlots
  <2>1. frames[FR] \in FrameType
    BY ReadyProvides DEF CanRun
  <2>2. QED
    BY <2>1 DEF FrameType
<1>2. QED
  BY <1>1, ChoiceTyped DEF Alternative

\* NULL is a place and an address.
LEMMA PlacesAreTyped == NoPC \in Pos /\ NoPC.used = 0 /\ Null \in Nat
  BY AtIsPos DEF NoPC, Phases, At, Null

\* What leaves registers, frames and choicepoints alone.
LEMMA Keeping ==
  ASSUME CanRun, UNCHANGED <<FR, SP, frames, cps, pos, owned>>
  PROVE  GoesOn
  BY DEF CanRun, GoesOn

(***************************************************************************)
(* Entering a clause                                                       *)
(***************************************************************************)
LEMMA Enters ==
  ASSUME CanRun, pos.phase = "entry"
  PROVE  /\ Ready(frames, cps, FR, At("body"), SP)
         /\ Place(frames, ElementsOf(cps), FR, At("entry"), SP)
         /\ Noted(frames, FR, At("entry")) = {}
<1>0. /\ FramesTyped(frames) /\ ChoicesTyped(ElementsOf(cps))
      /\ StackOK(frames, ElementsOf(cps)) /\ RunsAt(frames, ElementsOf(cps), FR, pos, SP)
      /\ Place(frames, ElementsOf(cps), FR, pos, SP) /\ SP \in Nat
  BY ReadyProvides DEF CanRun
<1>1. \A f \in DOMAIN frames : f < SP
  BY <1>0 DEF RunsAt
<1>2. Place(frames, ElementsOf(cps), FR, At("body"), SP) /\ Noted(frames, FR, At("body")) = {}
  BY <1>0, <1>1, PlaceEntered
<1>3. Place(frames, ElementsOf(cps), FR, At("entry"), SP) /\ Noted(frames, FR, At("entry")) = {}
  BY <1>0, PlaceReset
<1>4. RunsAt(frames, ElementsOf(cps), FR, At("body"), SP)
  BY <1>0, <1>2 DEF RunsAt
<1>5. At("body") \in Pos
  BY AtIsPos DEF Phases
<1>6. QED
  BY <1>3, <1>4, <1>5 DEF CanRun, Ready

\* I_ENTER.
LEMMA EnterGoesOn ==
  ASSUME CanRun, Enter
  PROVE  GoesOn
  BY Enters DEF Enter, Running, GoesOn, CanRun

\* TRY_ME_ELSE and its like.
LEMMA TryMeGoesOn ==
  ASSUME CanRun, TryMe
  PROVE  GoesOn
<1>0. /\ pos.phase = "entry" /\ pos' = At("body")
      /\ UNCHANGED <<FR, frames, owned>>
  BY DEF TryMe, Running
<1>1. PICK n \in 0..MaxSlots :
        /\ cps' = Append(cps, NewChoice("Head", At("entry"), frames[FR].clause, n, Null))
        /\ SP'  = AfterChoice(NewChoice("Head", At("entry"), frames[FR].clause, n, Null))
  BY DEF TryMe
<1>2. frames[FR].clause \in 0..MaxLocals
  <2>1. frames[FR] \in FrameType
    BY ReadyProvides DEF CanRun
  <2>2. QED
    BY <2>1 DEF FrameType
<1>3. /\ Ready(frames, cps, FR, At("body"), SP)
      /\ Place(frames, ElementsOf(cps), FR, At("entry"), SP)
      /\ Noted(frames, FR, At("entry")) = {}
  BY <1>0, Enters
<1>4. At("entry") \in Pos /\ Null \in Nat
  BY AtIsPos DEF Phases, Null
<1>5. PICK c \in ChoiceType :
        /\ cps' = Append(cps, c) /\ SP' = AfterChoice(c)
        /\ c.at = SP /\ c.fr = FR /\ c.pc = At("entry") /\ c.type = "Head"
  BY <1>1, <1>2, <1>4, ChoiceTyped
<1>6. At("entry").phase = "entry" /\ At("entry").used <= At("body").used /\ At("body").phase = "body"
  BY DEF At
<1>7. Ready(frames, Append(cps, c), FR, At("body"), AfterChoice(c))
  BY <1>3, <1>5, <1>6, BranchGoesOn
<1>8. QED
  BY <1>0, <1>5, <1>7 DEF GoesOn, CanRun

(***************************************************************************)
(* Calls and exits                                                         *)
(***************************************************************************)
LEMMA StartIsTyped ==
  ASSUME NEW kind \in Kinds, NEW n \in SlotCounts(kind)
  PROVE  /\ kind # "query" /\ n \in 0..MaxSlots
         /\ Start(kind) \in Pos /\ Executes(kind, Start(kind).phase)
         /\ Start(kind).phase \in {"entry", "body", "catch", "foreign"}
         /\ Start(kind).open = <<>>
<1>1. kind \in {"pred", "catch/3", "foreign"}
  BY DEF Kinds
<1>2. n \in 0..MaxSlots
  BY BoundsAssumption DEF SlotCounts
<1>3. CASE kind = "pred"
  <2>1. Start(kind) = At("entry")
    BY <1>3 DEF Start
  <2>2. QED
    BY <1>2, <1>3, <2>1, AtIsPos DEF Phases, Executes
<1>4. CASE kind = "catch/3"
  <2>1. Start(kind) = At("catch")
    BY <1>4 DEF Start
  <2>2. QED
    BY <1>2, <1>4, <2>1, AtIsPos DEF Phases, Executes
<1>5. CASE kind = "foreign"
  <2>1. Start(kind) = At("foreign")
    BY <1>5 DEF Start
  <2>2. QED
    BY <1>2, <1>5, <2>1, AtIsPos DEF Phases, Executes
<1>6. QED
  BY <1>1, <1>3, <1>4, <1>5

\* I_CALL.
LEMMA CallGoesOn ==
  ASSUME CanRun, Call
  PROVE  GoesOn
<1>1. PICK kind \in Kinds : \E n \in SlotCounts(kind) :
        /\ Push(frames, SP, Frame(kind, FR, CP, Null, n, pos))
        /\ pos' = Start(kind)
  BY DEF Call
<1>2. PICK n \in SlotCounts(kind) :
        /\ Push(frames, SP, Frame(kind, FR, Top(cps), Null, n, pos))
        /\ pos' = Start(kind)
  BY <1>1 DEF CP
<1>3. Null \in 0..MaxLocals
  BY BoundsAssumption DEF Null
<1>4. pos.phase = "body" /\ UNCHANGED <<cps, owned>>
  BY DEF Call, Running
<1>5. Ready(frames', cps, FR', Start(kind), SP')
  BY <1>2, <1>3, <1>4, StartIsTyped, Calls DEF CanRun
<1>6. QED
  BY <1>2, <1>4, <1>5 DEF GoesOn, CanRun

\* I_DEPART.
LEMMA DepartGoesOn ==
  ASSUME CanRun, Depart
  PROVE  GoesOn
<1>1. PICK kind \in Kinds : \E n \in SlotCounts(kind) :
        /\ Push(Below(AfterExit(cps), frames), AfterExit(cps),
                Frame(kind, frames[FR].parent, CP, Null, n, frames[FR].ret))
        /\ pos' = Start(kind)
  BY DEF Depart
<1>2. PICK n \in SlotCounts(kind) :
        /\ Push(Below(AfterExit(cps), frames), AfterExit(cps),
                Frame(kind, frames[FR].parent, Top(cps), Null, n, frames[FR].ret))
        /\ pos' = Start(kind)
  BY <1>1 DEF CP
<1>3. Null \in 0..MaxLocals
  BY BoundsAssumption DEF Null
<1>4. pos.phase = "body" /\ UNCHANGED cps /\ owned' \subseteq owned
  BY DEF Depart, Running
<1>5. frames[FR].kind # "query"
  BY <1>4, KindRuns
<1>6. Ready(Below(AfterExit(cps), frames), cps, frames[FR].parent, frames[FR].ret,
            AfterExit(cps))
  BY <1>5, LeavesRunning DEF CanRun
<1>7. frames[FR].ret.phase \in {"body", "exitcatch", "query"}
  <2>1. FR \in DOMAIN frames /\ Stacked(frames, cps)
    BY ReadyProvides DEF CanRun, Ready
  <2>2. QED
    BY <1>5, <2>1, ReturnPlace
<1>8. Ready(frames', cps, FR', Start(kind), SP')
  BY <1>2, <1>3, <1>6, <1>7, StartIsTyped, Calls
<1>9. QED
  BY <1>2, <1>4, <1>8 DEF GoesOn, CanRun

\* I_USERCALL.
LEMMA CallGoalGoesOn ==
  ASSUME CanRun, CallGoal
  PROVE  GoesOn
<1>1. pos.phase = "body" /\ UserCall(FR, SP, frames, cps, owned, pos) /\ UNCHANGED cps
  BY DEF CallGoal, Running
<1>2. owned \in SUBSET (1..MaxLocals) /\ Ready(frames, cps, FR, pos, SP)
  BY DEF CanRun
<1>3. Ready(frames', cps, FR', pos', SP') /\ owned' \subseteq 1..MaxLocals
  BY <1>1, <1>2, UserCalls
<1>4. QED
  BY <1>1, <1>3 DEF GoesOn

\* Exits that leave the choicepoints alone
LEMMA ExitGoesOn ==
  ASSUME CanRun, frames[FR].kind # "query", Leave(cps), UNCHANGED cps
  PROVE  GoesOn
<1>1. Ready(Below(AfterExit(cps), frames), cps, frames[FR].parent, frames[FR].ret,
            AfterExit(cps))
  BY LeavesRunning DEF CanRun
<1>2. QED
  BY <1>1 DEF Leave, GoesOn, CanRun

(***************************************************************************)
(* Choicepoints, conditions and cuts                                       *)
(***************************************************************************)
LEMMA OrGoesOn ==
  ASSUME CanRun, Or
  PROVE  GoesOn
<1>1. /\ pos.phase = "body" /\ UNCHANGED <<FR, frames, pos, owned>>
      /\ cps' = Append(cps, Alternative("Body", pos, Null))
      /\ SP'  = AfterChoice(Alternative("Body", pos, Null))
  BY DEF Or, Running
<1>2. pos \in Pos /\ Null \in Nat
  BY PlacesAreTyped DEF CanRun, Ready
<1>3. PICK c \in ChoiceType :
        /\ cps' = Append(cps, c) /\ SP' = AfterChoice(c)
        /\ c.at = SP /\ c.fr = FR /\ c.pc = pos /\ c.type = "Body"
  BY <1>1, <1>2, AlternativeTyped
<1>4. /\ Place(frames, ElementsOf(cps), FR, pos, SP)
      /\ Noted(frames, FR, pos) \subseteq Points(ElementsOf(cps))
  BY ReadyProvides DEF CanRun, RunsAt
<1>5. c.pc.used <= pos.used
  BY <1>2, <1>3, BoundsAssumption DEF Pos
<1>6. Ready(frames, Append(cps, c), FR, pos, AfterChoice(c))
  BY <1>1, <1>3, <1>4, <1>5, BranchGoesOn DEF CanRun
<1>7. QED
  BY <1>1, <1>3, <1>6 DEF GoesOn, CanRun

\* The choicepoint of a cleanup handler.
LEMMA CleanupChoicepointGoesOn ==
  ASSUME CanRun, CleanupChoicepoint
  PROVE  GoesOn
<1>1. /\ pos.phase = "body" /\ UNCHANGED <<FR, frames, pos, owned>>
      /\ cps' = Append(cps, Alternative("Body", NoPC, FR))
      /\ SP'  = AfterChoice(Alternative("Body", NoPC, FR))
  BY DEF CleanupChoicepoint, Running
<1>2. pos \in Pos /\ FR \in Nat /\ NoPC \in Pos /\ NoPC.used = 0
  BY PlacesAreTyped DEF CanRun, Ready
<1>3. PICK c \in ChoiceType :
        /\ cps' = Append(cps, c) /\ SP' = AfterChoice(c)
        /\ c.at = SP /\ c.fr = FR /\ c.pc = NoPC
  BY <1>1, <1>2, AlternativeTyped
<1>4. c.pc.used <= pos.used
  BY <1>2, <1>3, BoundsAssumption DEF Pos
<1>5. Ready(frames, Append(cps, c), FR, pos, AfterChoice(c))
  BY <1>1, <1>3, <1>4, BranchGoesOn DEF CanRun
<1>6. QED
  BY <1>1, <1>3, <1>5 DEF GoesOn, CanRun

\* A condition notes CP in a new cut slot.
LEMMA Opens ==
  ASSUME CanRun, OpenCondition
  PROVE  /\ Ready(frames', cps, FR, Opened(pos), SP)
         /\ pos' = Opened(pos) /\ UNCHANGED <<FR, owned>> /\ pos.phase = "body"
<1>1. /\ pos.phase = "body" /\ UNCHANGED <<FR, owned>>
      /\ pos.used < frames[FR].slotCount
      /\ frames' = [frames EXCEPT ![FR].cuts[pos.used + 1] = CP]
      /\ pos' = Opened(pos)
  BY DEF OpenCondition, Running, Opened
<1>2. /\ FramesTyped(frames) /\ FramesIn(frames) /\ ChoicesTyped(ElementsOf(cps))
      /\ StackOK(frames, ElementsOf(cps)) /\ RunsAt(frames, ElementsOf(cps), FR, pos, SP)
      /\ FR \in DOMAIN frames /\ frames[FR] \in FrameType /\ SP \in Nat /\ pos \in Pos
      /\ CP \in Nat /\ CP \in Points(ElementsOf(cps))
      /\ \A c \in ElementsOf(cps) : c.at <= CP
      /\ cps \in Seq(ChoiceType) /\ Ascending(cps) /\ FR \in Nat
  BY ReadyProvides DEF CanRun, CP
<1>3. pos.used \in Nat /\ pos.used < MaxSlots /\ pos.used + 1 \in Slot
  <2>1. frames[FR].slotCount \in 0..MaxSlots /\ pos.used \in 0..MaxSlots
    BY <1>2 DEF FrameType, Pos
  <2>2. QED
    BY <1>1, <2>1, BoundsAssumption DEF Slot
<1>4. /\ DOMAIN frames' = DOMAIN frames
      /\ \A f \in DOMAIN frames : f # FR => frames'[f] = frames[f]
      /\ frames'[FR] = [frames[FR] EXCEPT !.cuts[pos.used + 1] = CP]
  BY <1>1, <1>2
<1>5. /\ frames'[FR] \in FrameType
      /\ frames'[FR].kind = frames[FR].kind /\ frames'[FR].parent = frames[FR].parent
      /\ frames'[FR].ret = frames[FR].ret
      /\ frames'[FR].choicepoint = frames[FR].choicepoint
      /\ frames'[FR].cuts = [frames[FR].cuts EXCEPT ![pos.used + 1] = CP]
  <2> DEFINE a    == frames[FR]
             b    == frames'[FR]
             slot == pos.used + 1
  <2>1. a \in FrameType /\ slot \in Slot /\ CP \in Nat /\ b = [a EXCEPT !.cuts[slot] = CP]
    BY <1>2, <1>3, <1>4
  <2> HIDE DEF a, b, slot
  <2>2. a.cuts \in [Slot -> Nat] /\ b = [a EXCEPT !.cuts = [a.cuts EXCEPT ![slot] = CP]]
    BY <2>1 DEF FrameType
  <2>3. [a.cuts EXCEPT ![slot] = CP] \in [Slot -> Nat]
    BY <2>1, <2>2
  <2>4. /\ b \in FrameType
        /\ b.kind = a.kind /\ b.parent = a.parent /\ b.ret = a.ret
        /\ b.choicepoint = a.choicepoint /\ b.cuts = [a.cuts EXCEPT ![slot] = CP]
    BY <2>1, <2>2, <2>3 DEF FrameType
  <2>5. QED
    BY <2>4 DEF a, b, slot
<1>6. FramesIn(frames')
  BY <1>2, <1>4, <1>5 DEF FramesIn
<1>7. FramesTyped(frames')
  BY <1>6, FramesInAreTyped
<1>8. /\ Opened(pos) \in Pos
      /\ StackOK(frames', ElementsOf(cps))
      /\ RunsAt(frames', ElementsOf(cps), FR, Opened(pos), SP)
  BY <1>1, <1>2, <1>3, <1>4, <1>5, <1>7, ConditionOpened
<1>9. QED
  BY <1>1, <1>2, <1>6, <1>8 DEF Ready, Stacked

\* C_IF_THEN.
LEMMA IfThenGoesOn ==
  ASSUME CanRun, IfThen
  PROVE  GoesOn
  BY Opens DEF IfThen, GoesOn, CanRun

\* C_IF_THEN_ELSE.
LEMMA IfThenElseGoesOn ==
  ASSUME CanRun, IfThenElse
  PROVE  GoesOn
<1> DEFINE q == [pos EXCEPT !.used = @ + 1]
<1>1. /\ OpenCondition
      /\ cps' = Append(cps, Alternative("Body", q, Null))
      /\ SP'  = AfterChoice(Alternative("Body", q, Null))
  BY DEF IfThenElse
<1>2. /\ Ready(frames', cps, FR, Opened(pos), SP)
      /\ pos' = Opened(pos) /\ UNCHANGED <<FR, owned>> /\ pos.phase = "body"
  BY <1>1, Opens
<1>3. /\ FramesTyped(frames') /\ ChoicesTyped(ElementsOf(cps))
      /\ Place(frames', ElementsOf(cps), FR, Opened(pos), SP)
      /\ Noted(frames', FR, Opened(pos)) \subseteq Points(ElementsOf(cps))
      /\ Opened(pos) \in Pos /\ pos \in Pos
  BY <1>2, ReadyProvides DEF RunsAt, CanRun, Ready
<1>4. /\ q \in Pos /\ q.phase = "body" /\ q.used = pos.used + 1 /\ q.open = pos.open
      /\ Opened(pos).phase = "body" /\ Opened(pos).used = pos.used + 1
      /\ Opened(pos).open = Append(pos.open, pos.used + 1)
      /\ pos.used \in Nat
  <2>1. /\ Opened(pos).phase = "body" /\ Opened(pos).used = pos.used + 1
        /\ Opened(pos).open = Append(pos.open, pos.used + 1)
    BY <1>2, <1>3 DEF Opened, Pos
  <2>2. pos.used \in Nat /\ pos.used + 1 \in 0..MaxSlots
    BY <1>3, <2>1, BoundsAssumption DEF Pos
  <2>3. QED
    BY <1>2, <1>3, <2>1, <2>2 DEF Pos
<1> HIDE DEF q
<1>5. /\ DOMAIN q.open \subseteq DOMAIN Opened(pos).open
      /\ \A k \in DOMAIN q.open : q.open[k] = Opened(pos).open[k]
  <2>1. pos.open \in Seq(Slot) /\ Opened(pos).open \in Seq(Slot)
    BY <1>3 DEF Pos
  <2>2. pos.used + 1 \in Slot
    BY <1>3, <1>4, BoundsAssumption DEF Pos, Slot
  <2>3. /\ DOMAIN pos.open = 1..Len(pos.open) /\ Len(pos.open) \in Nat
        /\ DOMAIN Append(pos.open, pos.used + 1) = 1..Len(pos.open) + 1
        /\ \A k \in 1..Len(pos.open) : Append(pos.open, pos.used + 1)[k] = pos.open[k]
    BY <2>1, <2>2, AppendProperties, LenProperties
  <2>4. QED
    BY <1>4, <2>3
<1>6. /\ Place(frames', ElementsOf(cps), FR, q, SP)
      /\ Noted(frames', FR, q) \subseteq Noted(frames', FR, Opened(pos))
  <2> DEFINE fs == frames'
             cs == ElementsOf(cps)
             o  == Opened(pos)
  <2>1. /\ FramesTyped(fs) /\ ChoicesTyped(cs) /\ Place(fs, cs, FR, o, SP)
        /\ o \in Pos /\ q \in Pos /\ o.phase = "body" /\ q.phase = "body"
        /\ DOMAIN q.open \subseteq DOMAIN o.open
        /\ \A k \in DOMAIN q.open : q.open[k] = o.open[k]
    BY <1>3, <1>4, <1>5
  <2>2. o.used <= q.used
    BY <1>4
  <2> HIDE DEF fs, cs, o
  <2>3. Place(fs, cs, FR, q, SP) /\ Noted(fs, FR, q) \subseteq Noted(fs, FR, o)
    BY <2>1, <2>2, PlaceNarrows
  <2>4. QED
    BY <2>3 DEF fs, cs, o
<1>7. PICK c \in ChoiceType :
        /\ cps' = Append(cps, c) /\ SP' = AfterChoice(c)
        /\ c.at = SP /\ c.fr = FR /\ c.pc = q /\ c.type = "Body"
  BY <1>1, <1>4, PlacesAreTyped, AlternativeTyped DEF q
<1>8. c.pc.used <= Opened(pos).used
  BY <1>4, <1>7
<1>9. Ready(frames', Append(cps, c), FR, Opened(pos), AfterChoice(c))
  BY <1>2, <1>3, <1>4, <1>6, <1>7, <1>8, BranchGoesOn
<1>10. QED
  BY <1>2, <1>7, <1>9 DEF GoesOn, CanRun

\* A cut is made to the newest choicepoint that its place has noted, and
\* execution goes on at a place that has noted no more.
CutsTo(target, q) ==
  /\ pos.phase = "body" /\ q \in Pos /\ Narrower(q, pos)
  /\ target \in Targets(frames, FR, pos)
  /\ \A t \in Targets(frames, FR, pos) : t <= target
  /\ \A t \in Targets(frames, FR, q) : t <= target

\* A cut in the body of the clause.
LEMMA CutBodyTarget ==
  ASSUME CanRun, CutBody
  PROVE  \E target, q : CutsTo(target, q) /\ (Cut(target, q) \/ CutCleanup(target))
<1> DEFINE target == frames[FR].choicepoint
<1>1. /\ pos.phase = "body" /\ pos.open = <<>>
      /\ Cut(target, pos) \/ CutCleanup(target)
  BY DEF CutBody, Running, InCondition
<1>2. FramesTyped(frames) /\ FR \in DOMAIN frames /\ pos \in Pos
  BY ReadyProvides DEF CanRun
<1>3. Targets(frames, FR, pos) = {target} /\ target \in Nat
  BY <1>1, <1>2 DEF Targets, Noted, FramesTyped
<1>4. Narrower(pos, pos)
  BY <1>1 DEF Narrower
<1>5. target \in Targets(frames, FR, pos) /\ \A t \in Targets(frames, FR, pos) : t <= target
  BY <1>3
<1> HIDE DEF target
<1>6. CutsTo(target, pos)
  BY <1>1, <1>2, <1>4, <1>5 DEF CutsTo
<1>7. QED
  BY <1>1, <1>6

\* The cut that ends a condition.
LEMMA CutConditionTarget ==
  ASSUME CanRun, CutCondition
  PROVE  \E target, q : CutsTo(target, q) /\ (Cut(target, q) \/ CutCleanup(target))
<1> DEFINE target == frames[FR].cuts[Innermost]
           q == [pos EXCEPT !.open = SubSeq(@, 1, Len(@) - 1)]
<1>1. /\ pos.phase = "body" /\ pos.open # <<>>
      /\ Cut(target, q) \/ CutCleanup(target)
  BY DEF CutCondition, Running, InCondition
<1>2. /\ FramesTyped(frames) /\ FR \in DOMAIN frames /\ pos \in Pos
      /\ TargetsOrdered(frames, FR, pos)
  BY ReadyProvides DEF CanRun, Place
<1>3. /\ pos.open \in Seq(Slot) /\ Len(pos.open) \in Nat
      /\ DOMAIN pos.open = 1..Len(pos.open) /\ Len(pos.open) \in 1..Len(pos.open)
  <2>1. pos.open \in Seq(Slot)
    BY <1>2 DEF Pos
  <2>2. QED
    BY <1>1, <2>1, LenProperties, EmptySeq
<1>4. target \in Noted(frames, FR, pos)
  BY <1>3 DEF Noted, Innermost
<1>5. /\ target \in Targets(frames, FR, pos)
      /\ \A t \in Targets(frames, FR, pos) : t <= target
  <2>1. target \in Targets(frames, FR, pos)
    BY <1>4 DEF Targets
  <2>2. \A k \in 1..Len(pos.open) : frames[FR].cuts[pos.open[k]] <= target
    <3>1. \A j, k \in 1..Len(pos.open) :
            j <= k => frames[FR].cuts[pos.open[j]] <= frames[FR].cuts[pos.open[k]]
      BY <1>2, <1>3 DEF TargetsOrdered
    <3>2. \A k \in 1..Len(pos.open) : k <= Len(pos.open)
      BY <1>3
    <3>3. QED
      BY <1>3, <3>1, <3>2 DEF Innermost
  <2>3. frames[FR].choicepoint <= target
    BY <1>2, <1>3 DEF TargetsOrdered, Innermost
  <2>4. \A t \in Targets(frames, FR, pos) : t <= target
    BY <1>3, <2>2, <2>3 DEF Targets, Noted
  <2>5. QED
    BY <2>1, <2>4
<1>6. /\ SubSeq(pos.open, 1, Len(pos.open) - 1) \in Seq(Slot)
      /\ DOMAIN SubSeq(pos.open, 1, Len(pos.open) - 1) = 1..Len(pos.open) - 1
      /\ \A k \in 1..Len(pos.open) - 1 :
           SubSeq(pos.open, 1, Len(pos.open) - 1)[k] = pos.open[k]
  BY <1>3, SubSeqProperties
<1>7. /\ q \in Pos /\ q.phase = pos.phase /\ q.used = pos.used
      /\ q.open = SubSeq(pos.open, 1, Len(pos.open) - 1)
  BY <1>2, <1>6 DEF Pos
<1> HIDE DEF target, q
<1>8. Narrower(q, pos)
  BY <1>1, <1>3, <1>6, <1>7 DEF Narrower
<1>9. Targets(frames, FR, q) \subseteq Targets(frames, FR, pos)
  BY <1>8 DEF Narrower, Targets, Noted
<1>10. CutsTo(target, q)
  BY <1>1, <1>5, <1>7, <1>8, <1>9 DEF CutsTo
<1>11. QED
  BY <1>1, <1>10

\* Both cuts go on.
LEMMA BothCutsGoOn ==
  ASSUME CanRun, CutBody \/ CutCondition
  PROVE  GoesOn
<1>1. PICK target, q : CutsTo(target, q) /\ (Cut(target, q) \/ CutCleanup(target))
  BY CutBodyTarget, CutConditionTarget
<1>2. QED
  BY <1>1, Cuts, CutsToHandler DEF CutsTo, CanRun

(***************************************************************************)
(* catch/3 and foreign predicates                                          *)
(***************************************************************************)
\* Nothing was called by a frame that is on top, and it has not branched.
LEMMA NothingCalled ==
  ASSUME NEW fs, NEW cs, NEW g, NEW p, NEW sp \in Nat,
         FramesTyped(fs), ChoicesTyped(cs), StackOK(fs, cs),
         RunsAt(fs, cs, g, p, sp), OnTop(fs, cs, g, sp)
  PROVE  /\ \A f \in DOMAIN fs : f <= g
         /\ \A c \in cs : c.at < g /\ c.fr # g
         /\ \A f \in DOMAIN fs : ~(fs[f].kind # "query" /\ fs[f].parent = g)
<1>1. /\ \A f \in DOMAIN fs : f \in Nat /\ f < sp
      /\ \A c \in cs : c.at \in Nat /\ c.fr \in Nat /\ c.at < sp
      /\ g \in DOMAIN fs
  BY DEF FramesTyped, ChoicesTyped, RunsAt, Place
<1>2. \A f \in DOMAIN fs : f <= g
  BY <1>1 DEF OnTop
<1>3. \A c \in cs : c.at < g /\ c.fr # g
  BY <1>1 DEF OnTop, StackOK, ChoiceOK
<1>4. ASSUME NEW f \in DOMAIN fs, fs[f].kind # "query", fs[f].parent = g
      PROVE  FALSE
  <2>1. g < f
    BY <1>4 DEF StackOK, FrameOK, CallOK, Place
  <2>2. QED
    BY <1>1, <1>2, <2>1
<1>5. QED
  BY <1>2, <1>3, <1>4

\* catch/3 leaves a choicepoint, and marks its frame with it.
LEMMA CatchMarks ==
  ASSUME CanRun, pos.phase = "catch",
         NEW c \in ChoiceType, c.at = SP, c.fr = FR, c.pc = NoPC
  PROVE  /\ Ready([frames EXCEPT ![FR].choicepoint = c.at, ![FR].cuts[1] = c.at],
                  Append(cps, c), FR, At("exitcatch"), AfterChoice(c))
         /\ ElementsOf(Append(cps, c)) = ElementsOf(cps) \cup {c}
         /\ \A f \in DOMAIN frames : frames[f].parent # FR
         /\ \A d \in ElementsOf(cps) : d.fr # FR
<1>1. c.at = SP /\ c.fr = FR /\ c.pc = NoPC
  OBVIOUS
<1> DEFINE gs  == [frames EXCEPT ![FR].choicepoint = c.at, ![FR].cuts[1] = c.at]
           cs  == ElementsOf(cps)
           ds  == cs \cup {c}
           new == AfterChoice(c)
           q   == At("exitcatch")
<1>2. pos.phase = "catch" /\ frames[FR].kind = "catch/3"
  BY KindRuns
<1>3. /\ FramesTyped(frames) /\ FramesIn(frames) /\ ChoicesTyped(cs)
      /\ cps \in Seq(ChoiceType) /\ Ascending(cps)
      /\ StackOK(frames, cs) /\ RunsAt(frames, cs, FR, pos, SP)
      /\ Place(frames, cs, FR, pos, SP)
      /\ FR \in DOMAIN frames /\ FR \in Nat /\ FR < SP /\ SP \in Nat
      /\ frames[FR] \in FrameType
  BY ReadyProvides DEF CanRun
<1>4. /\ Stacked(frames, Append(cps, c)) /\ ElementsOf(Append(cps, c)) = ds
      /\ Anchored(frames, ds, FR)
      /\ new \in Nat /\ SP < new
  <2>1. Ready(frames, cps, FR, pos, SP)
    BY DEF CanRun
  <2>2. c.at = SP /\ c.fr = FR /\ c.pc = NoPC /\ pos.phase # "exitcatch"
    BY <1>1
  <2> HIDE DEF gs, q
  <2>3. QED
    BY <2>1, <2>2, Branches
<1>5. /\ \A f \in DOMAIN frames : f <= FR
      /\ \A d \in cs : d.at < FR /\ d.fr # FR
      /\ \A f \in DOMAIN frames : ~(frames[f].kind # "query" /\ frames[f].parent = FR)
  <2>1. OnTop(frames, cs, FR, SP)
    BY <1>2, <1>3 DEF Place
  <2>2. QED
    BY <1>3, <2>1, NothingCalled
<1>6. /\ DOMAIN gs = DOMAIN frames /\ \A f \in DOMAIN frames : f # FR => gs[f] = frames[f]
      /\ gs[FR] \in FrameType
      /\ gs[FR].kind = frames[FR].kind /\ gs[FR].parent = frames[FR].parent
      /\ gs[FR].ret = frames[FR].ret
      /\ gs[FR].choicepoint = SP /\ gs[FR].cuts[1] = SP
  <2> DEFINE a == frames[FR]
             b == [a EXCEPT !.choicepoint = SP, !.cuts = [a.cuts EXCEPT ![1] = SP]]
  <2>1. a \in FrameType /\ a.cuts \in [Slot -> Nat] /\ 1 \in Slot
    BY <1>3, BoundsAssumption DEF FrameType, Slot
  <2>2. DOMAIN gs = DOMAIN frames /\ (\A f \in DOMAIN frames : f # FR => gs[f] = frames[f])
        /\ gs[FR] = b
    BY <1>1, <1>3, <2>1 DEF FrameType
  <2> HIDE DEF a
  <2>3. [a.cuts EXCEPT ![1] = SP] \in [Slot -> Nat] /\ [a.cuts EXCEPT ![1] = SP][1] = SP
    BY <1>3, <2>1
  <2>4. /\ b \in FrameType
        /\ b.kind = a.kind /\ b.parent = a.parent /\ b.ret = a.ret
        /\ b.choicepoint = SP /\ b.cuts = [a.cuts EXCEPT ![1] = SP]
    BY <1>3, <2>1, <2>3 DEF FrameType
  <2>5. QED
    BY <2>2, <2>3, <2>4 DEF a
<1> HIDE DEF gs, new
<1>7. FramesIn(gs) /\ FramesTyped(gs)
  <2>1. FramesIn(gs)
    BY <1>3, <1>6 DEF FramesIn
  <2>2. QED
    BY <2>1, FramesInAreTyped
<1>8. ChoicesTyped(ds)
  BY <1>1, <1>3 DEF ChoicesTyped, ChoiceType
<1>9. frames[FR].choicepoint <= gs[FR].choicepoint
  <2>1. frames[FR].choicepoint \in Nat
    BY <1>3 DEF FrameType
  <2>2. frames[FR].choicepoint < FR
    BY <1>2, <1>3 DEF Place
  <2>3. QED
    BY <1>3, <1>6, <2>1, <2>2
<1>10. StackOK(gs, ds)
  <2>1. StackOK(frames, ds)
    BY <1>4 DEF Stacked
  <2>2. \A d \in ds : ~(d.fr = FR /\ d.pc # NoPC)
    BY <1>1, <1>5
  <2>3. gs[FR].kind = "catch/3"
    BY <1>2, <1>6
  <2>4. QED
    BY <1>3, <1>4, <1>5, <1>6, <1>7, <1>8, <1>9, <2>1, <2>2, <2>3, FrameNoted
<1>11. q \in Pos /\ q.phase = "exitcatch" /\ q.open = <<>>
  BY AtIsPos DEF Phases
<1>12. /\ \A f \in DOMAIN gs : f < new /\ f <= FR
       /\ \A d \in ds : d.at < new /\ (d = c \/ d.at < FR) /\ d.at <= SP
  <2>1. \A f \in DOMAIN frames : f \in Nat
    BY <1>3 DEF FramesTyped
  <2>2. \A d \in cs : d.at \in Nat
    BY <1>3 DEF ChoicesTyped
  <2>3. QED
    BY <1>1, <1>3, <1>4, <1>5, <1>6, <2>1, <2>2
<1>13. Targets(gs, FR, q) = {SP} /\ Noted(gs, FR, q) = {}
  BY <1>6, <1>11 DEF Targets, Noted
<1>14. Younger(gs, ds, FR, q, new)
  <2>1. \A f \in DOMAIN gs : ~(FR < f)
    BY <1>3, <1>7, <1>12 DEF FramesTyped
  <2>2. \A d \in ds : FR <= d.at => d = c
    BY <1>3, <1>8, <1>12 DEF ChoicesTyped
  <2>3. \A d \in ds : ~(SP < d.at)
    BY <1>3, <1>8, <1>12 DEF ChoicesTyped
  <2>4. \A d \in ds : FR <= d.at => FR <= d.fr
    BY <1>1, <1>3, <2>2
  <2>5. QED
    BY <1>4, <1>13, <2>1, <2>3, <2>4 DEF Younger
<1>15. Place(gs, ds, FR, q, new)
  <2>1. Executes(gs[FR].kind, q.phase) /\ TargetsOrdered(gs, FR, q)
    BY <1>2, <1>6, <1>11 DEF Executes, TargetsOrdered
  <2>2. FR \in DOMAIN gs /\ FR < new
    BY <1>3, <1>4, <1>6
  <2>3. FR < gs[FR].choicepoint /\ gs[FR].cuts[1] = gs[FR].choicepoint
    BY <1>3, <1>6
  <2>4. QED
    BY <1>11, <1>14, <2>1, <2>2, <2>3 DEF Place
<1>16. Anchored(gs, ds, FR)
  BY <1>1, <1>6 DEF Anchored, Points
<1>17. RunsAt(gs, ds, FR, q, new)
  BY <1>12, <1>13, <1>15, <1>16 DEF RunsAt
<1>18. Ready(gs, Append(cps, c), FR, q, new)
  BY <1>3, <1>4, <1>7, <1>10, <1>11, <1>17 DEF Ready, Stacked
<1>19. \A f \in DOMAIN frames : frames[f].parent # FR
  <2>1. \A f \in DOMAIN frames : frames[f].kind = "query" => frames[f].parent = Null
    BY <1>3 DEF StackOK, FrameOK
  <2>2. 0 < FR
    BY <1>3 DEF FramesTyped
  <2>3. QED
    BY <1>5, <2>1, <2>2 DEF Null
<1>20. QED
  BY <1>4, <1>5, <1>18, <1>19 DEF gs, new

\* I_CATCH.
LEMMA CatchGoesOn ==
  ASSUME CanRun, Catch
  PROVE  GoesOn
<1>1. PICK c \in ChoiceType :
        /\ c.at = SP /\ c.fr = FR /\ c.pc = NoPC
        /\ cps' = Append(cps, c)
        /\ UserCall(FR, AfterChoice(c),
                    [frames EXCEPT ![FR].choicepoint = c.at, ![FR].cuts[1] = c.at],
                    Append(cps, c), owned, At("exitcatch"))
  BY PlacesAreTyped, AlternativeTyped DEF Catch
<1> DEFINE gs  == [frames EXCEPT ![FR].choicepoint = c.at, ![FR].cuts[1] = c.at]
           new == AfterChoice(c)
           q   == At("exitcatch")
<1>2. Ready(gs, Append(cps, c), FR, q, new)
  BY <1>1, CatchMarks DEF Catch, Running
<1>3. owned \in SUBSET (1..MaxLocals) /\ UserCall(FR, new, gs, Append(cps, c), owned, q)
  BY <1>1 DEF CanRun
<1>4. q.phase = "exitcatch"
  BY AtIsPos DEF Phases
<1> HIDE DEF gs, new, q
<1>5. Ready(frames', Append(cps, c), FR', pos', SP') /\ owned' \subseteq 1..MaxLocals
  BY <1>2, <1>3, <1>4, UserCalls
<1>6. QED
  BY <1>1, <1>5 DEF GoesOn

\* I_EXIT_CATCH.
LEMMA ExitCatchGoesOn ==
  ASSUME CanRun, ExitCatch
  PROVE  GoesOn
<1> DEFINE t  == SubSeq(cps, 1, Len(cps) - 1)
           cs == ElementsOf(cps)
           h  == frames[FR].parent
           r  == frames[FR].ret
<1>1. pos.phase = "exitcatch" /\ frames[FR].kind = "catch/3"
  BY KindRuns DEF ExitCatch, Running
<1>2. CASE frames[FR].cuts[1] # CP
  <2>1. Leave(cps) /\ UNCHANGED cps
    BY <1>2 DEF ExitCatch
  <2>2. QED
    BY <1>1, <2>1, ExitGoesOn
<1>3. CASE frames[FR].cuts[1] = CP
  <2>0. cps' = t /\ Leave(t)
    BY <1>3 DEF ExitCatch
  <2>1. /\ FramesTyped(frames) /\ ChoicesTyped(cs) /\ StackOK(frames, cs)
        /\ cps \in Seq(ChoiceType) /\ Ascending(cps) /\ Stacked(frames, cps)
        /\ RunsAt(frames, cs, FR, pos, SP) /\ Place(frames, cs, FR, pos, SP)
        /\ FR \in DOMAIN frames /\ FR \in Nat /\ 0 < FR /\ Top(cps) \in Nat
        /\ Len(cps) \in Nat /\ DOMAIN cps = 1..Len(cps)
    BY ReadyProvides, LenProperties DEF CanRun, Ready
  <2>2. FR < Top(cps)
    BY <1>1, <1>3, <2>1 DEF Place, CP
  <2>3. cps # <<>> /\ Len(cps) \in 1..Len(cps) /\ Len(cps) - 1 \in 0..Len(cps)
        /\ Top(cps) = cps[Len(cps)].at
    <3>1. cps # <<>>
      BY <2>1, <2>2 DEF Top, Null
    <3>2. QED
      BY <2>1, <3>1, EmptySeq DEF Top
  <2>4. /\ t \in Seq(ChoiceType) /\ Ascending(t) /\ OldestOf(cs, ElementsOf(t))
        /\ ElementsOf(t) = {cps[i] : i \in 1..Len(cps) - 1}
    BY <2>1, <2>3, PrefixElements
  <2> HIDE DEF t
  <2>5. \A d \in cs : d.at < Top(cps) => d \in ElementsOf(t)
    <3>1. ASSUME NEW d \in cs, d.at < Top(cps)
          PROVE  d \in ElementsOf(t)
      <4>1. PICK i \in 1..Len(cps) : d = cps[i]
        BY <2>1 DEF ElementsOf
      <4>2. i # Len(cps)
        <5>1. d.at \in Nat /\ d.at < cps[Len(cps)].at
          BY <2>1, <2>3, <3>1 DEF ChoicesTyped
        <5>2. CASE i = Len(cps)
          <6>1. d.at < d.at
            BY <4>1, <5>1, <5>2
          <6>2. QED
            BY <5>1, <6>1
        <5>3. QED
          BY <5>2
      <4>3. i \in 1..Len(cps) - 1
        <5>1. Len(cps) \in Nat
          BY <2>1
        <5>2. QED
          BY <4>2, <5>1
      <4>4. QED
        BY <2>4, <4>1, <4>3
    <3>2. QED
      BY <3>1
  <2>6. /\ Anchored(frames, cs, h) /\ Noted(frames, h, r) \subseteq Points(cs)
        /\ Place(frames, cs, h, r, FR) /\ h \in DOMAIN frames /\ r \in Pos
    <3>1. Anchored(frames, cs, FR)
      BY <2>1 DEF RunsAt
    <3>2. Place(frames, cs, h, r, FR)
      BY <1>1, <2>1 DEF StackOK, FrameOK, CallOK
    <3>3. QED
      BY <1>1, <2>1, <3>1, <3>2, CallerAnchored DEF FramesTyped
  <2>7. \A x \in Targets(frames, h, r) : x \in Nat /\ x < Top(cps)
    <3>1. \A x \in Targets(frames, h, r) : x \in Nat
      BY <2>1, <2>6, TargetsAreAddresses
    <3>2. \A x \in Targets(frames, h, r) : x < FR
      BY <2>6 DEF Place, Younger
    <3>3. QED
      BY <2>1, <2>2, <3>1, <3>2
  <2>8. Anchored(frames, ElementsOf(t), h)
    <3>1. frames[h].choicepoint < Top(cps)
      BY <2>7 DEF Targets
    <3>2. QED
      BY <2>5, <2>6, <3>1 DEF Anchored, Points
  <2>9. Noted(frames, h, r) \subseteq Points(ElementsOf(t))
    BY <2>5, <2>6, <2>7 DEF Points, Targets
  <2>10. /\ \A f \in DOMAIN frames : f < SP
         /\ \A c \in cs : c.at < SP
         /\ Younger(frames, cs, FR, pos, SP)
    BY <2>1 DEF RunsAt, Place
  <2>11. Ready(Below(AfterExit(t), frames), t, h, r, AfterExit(t))
    BY <1>1, <2>1, <2>4, <2>8, <2>9, <2>10, LeavesCall
  <2>12. QED
    BY <2>0, <2>11 DEF Leave, GoesOn, CanRun
<1>4. QED
  BY <1>2, <1>3

\* I_FOREIGN.
LEMMA ForeignGoesOn ==
  ASSUME CanRun, Foreign
  PROVE  GoesOn
<1>1. frames[FR].kind = "foreign"
  BY KindRuns DEF Foreign, Running
<1>2. QED
  BY <1>1, ExitGoesOn DEF Foreign

\* I_FOREIGN_NONDET.
LEMMA ForeignNondetGoesOn ==
  ASSUME CanRun, ForeignNondet
  PROVE  GoesOn
<1>1. At("foreign") \in Pos /\ Null \in Nat /\ At("foreign") # NoPC
  BY AtIsPos DEF Phases, Null, NoPC
<1>2. PICK c \in ChoiceType :
        /\ c.at = SP /\ c.fr = FR /\ c.pc = At("foreign") /\ c.type = "Head"
        /\ cps' = Append(cps, c)
        /\ Leave(Append(cps, c))
  BY <1>1, AlternativeTyped DEF ForeignNondet
<1> DEFINE s  == Append(cps, c)
           cs == ElementsOf(cps)
<1>3. pos.phase = "foreign" /\ frames[FR].kind = "foreign"
  BY KindRuns DEF ForeignNondet, Running
<1>4. /\ FramesTyped(frames) /\ ChoicesTyped(cs)
      /\ RunsAt(frames, cs, FR, pos, SP) /\ Place(frames, cs, FR, pos, SP)
      /\ FR \in DOMAIN frames /\ FR \in Nat /\ FR < SP /\ SP \in Nat /\ pos \in Pos
  BY ReadyProvides DEF CanRun
<1>5. Place(frames, cs, FR, At("foreign"), SP) /\ Noted(frames, FR, At("foreign")) = {}
  BY <1>3, <1>4, PlaceReset
<1>6. At("foreign").phase = "foreign"
  BY AtIsPos DEF Phases
<1>7. /\ Stacked(frames, s) /\ ElementsOf(s) = cs \cup {c}
      /\ Anchored(frames, cs \cup {c}, FR)
      /\ AfterChoice(c) \in Nat /\ SP < AfterChoice(c)
  <2>1. Ready(frames, cps, FR, pos, SP)
    BY DEF CanRun
  <2>2. c.at = SP /\ c.fr = FR /\ pos.phase # "exitcatch"
    BY <1>2, <1>3
  <2>3. /\ Place(frames, cs, FR, c.pc, SP) /\ c.type = "Head" /\ c.pc.phase = "foreign"
        /\ Noted(frames, FR, c.pc) \subseteq Points(cs)
    BY <1>2, <1>5, <1>6
  <2>4. QED
    BY <2>1, <2>2, <2>3, Branches
<1> HIDE DEF s
<1>8. /\ \A f \in DOMAIN frames : f < AfterChoice(c) /\ f < SP
      /\ \A d \in cs \cup {c} : d.at < AfterChoice(c)
      /\ \A d \in cs : d.at < SP
  BY <1>2, <1>4, <1>7 DEF RunsAt, FramesTyped, ChoicesTyped
<1>9. Younger(frames, cs \cup {c}, FR, pos, AfterChoice(c))
  <2>1. Younger(frames, cs, FR, pos, SP)
    BY <1>4 DEF Place
  <2>2. \A x \in Targets(frames, FR, pos) : x \in Nat
    BY <1>4, TargetsAreAddresses
  <2>3. \A f \in DOMAIN frames : FR < f => FR <= frames[f].parent
    BY <1>8, <2>1 DEF Younger
  <2>4. \A d \in cs \cup {c} : FR <= d.at => FR <= d.fr
    BY <1>2, <1>4, <1>8, <2>1 DEF Younger
  <2>5. \A x \in Targets(frames, FR, pos) : x < AfterChoice(c)
    BY <1>4, <1>7, <2>1, <2>2 DEF Younger
  <2>6. \A x \in Targets(frames, FR, pos), d \in cs \cup {c} : x < d.at /\ FR < d.fr => x < d.fr
    BY <1>2, <1>4, <1>8, <2>1 DEF Younger
  <2>7. QED
    BY <2>3, <2>4, <2>5, <2>6 DEF Younger
<1>10. /\ s \in Seq(ChoiceType) /\ Ascending(s) /\ StackOK(frames, ElementsOf(s))
  BY <1>7 DEF Stacked
<1>11. /\ Anchored(frames, ElementsOf(s), frames[FR].parent)
       /\ Noted(frames, frames[FR].parent, frames[FR].ret) \subseteq Points(ElementsOf(s))
  BY <1>3, <1>4, <1>7, <1>10, CallerAnchored
<1>12. OldestOf(ElementsOf(s), ElementsOf(s))
  BY DEF OldestOf
<1>13. Ready(Below(AfterExit(s), frames), s, frames[FR].parent, frames[FR].ret, AfterExit(s))
  BY <1>3, <1>4, <1>7, <1>8, <1>9, <1>10, <1>11, <1>12, LeavesCall
<1>14. QED
  BY <1>2, <1>13 DEF Leave, GoesOn, CanRun, s

(***************************************************************************)
(* Every step                                                              *)
(***************************************************************************)
LEMMA StepGoesOn ==
  ASSUME CanRun, Next, ~Backtrack
  PROVE  GoesOn
<1>1. CASE MakeVar \/ BindVar \/ ExitQuery \/ CutWithinCondition
  BY <1>1, Keeping DEF MakeVar, BindVar, ExitQuery, CutWithinCondition
<1>2. CASE Exit
  <2>1. frames[FR].kind # "query" /\ Leave(cps) /\ UNCHANGED cps
    BY <1>2, KindRuns DEF Exit, Running
  <2>2. QED
    BY <2>1, ExitGoesOn
<1>3. CASE TryMe \/ Enter \/ Call \/ Depart \/ CallGoal
  BY <1>3, TryMeGoesOn, EnterGoesOn, CallGoesOn, DepartGoesOn, CallGoalGoesOn
<1>4. CASE Or \/ IfThen \/ IfThenElse \/ CutBody \/ CutCondition
  <2>1. CASE Or \/ IfThen \/ IfThenElse
    BY <2>1, OrGoesOn, IfThenGoesOn, IfThenElseGoesOn
  <2>2. CASE CutBody \/ CutCondition
    BY <2>2, BothCutsGoOn
  <2>3. QED
    BY <1>4, <2>1, <2>2
<1>5. CASE Catch \/ ExitCatch \/ CleanupChoicepoint \/ Foreign \/ ForeignNondet
  BY <1>5, CatchGoesOn, ExitCatchGoesOn, CleanupChoicepointGoesOn, ForeignGoesOn,
     ForeignNondetGoesOn
<1>6. CASE Fail \/ ForeignFail \/ BacktrackQuery
  BY <1>6 DEF Fail, ForeignFail, BacktrackQuery
<1>7. QED
  BY <1>1, <1>2, <1>3, <1>4, <1>5, <1>6 DEF Next, Instruction

\* Instructions run, and the host asks for another solution, only while the query
\* has not failed; the program does not change
LEMMA StepOfRunning ==
  ASSUME Next
  PROVE  /\ status \in {"run", "choices"} /\ uses' = uses
         /\ status' = status \/ status' \in Statuses
<1> USE DEF Running, Statuses
<1>1. Backtrack => status' \in {"run", "fail"}
  <2>1. CASE cps = <<>> /\ status' = "fail"
    BY <2>1
  <2>2. CASE \E n \in DOMAIN cps : status' = IF cps[n].pc = NoPC THEN "fail" ELSE "run"
    BY <2>2
  <2>3. QED
    BY <2>1, <2>2, Zenon DEF Backtrack
<1>2. CASE Fail \/ ForeignFail \/ BacktrackQuery
  BY <1>1, <1>2 DEF Fail, ForeignFail, BacktrackQuery
<1>3. CASE TryMe \/ Enter \/ MakeVar \/ BindVar \/ Call \/ Depart \/ CallGoal \/ Exit
  BY <1>3 DEF TryMe, Enter, MakeVar, BindVar, Call, Depart, CallGoal, Exit
<1>4. CASE ExitQuery \/ CutWithinCondition
  BY <1>4 DEF ExitQuery, CutWithinCondition
<1>5. CASE Or \/ IfThen \/ IfThenElse
  BY <1>5 DEF Or, IfThen, IfThenElse, OpenCondition
<1>6. CASE CutBody \/ CutCondition
  <2>1. \A target, next : Cut(target, next) => status' = status
    BY DEF Cut
  <2>2. \A target : CutCleanup(target) => status' = status
    BY DEF CutCleanup
  <2>3. QED
    BY <1>6, <2>1, <2>2 DEF CutBody, CutCondition
<1>7. CASE Catch \/ ExitCatch \/ CleanupChoicepoint \/ Foreign \/ ForeignNondet
  BY <1>7 DEF Catch, ExitCatch, CleanupChoicepoint, Foreign, ForeignNondet
<1>8. QED
  BY <1>2, <1>3, <1>4, <1>5, <1>6, <1>7 DEF Next, Instruction

\* What the stages say of the new values of the registers is the invariant of
\* the next state.
LEMMA NextStack ==
  ASSUME FR' \in Nat, pos' \in Pos, SP' \in Nat, owned' \subseteq 1..MaxLocals, uses' = uses,
         Stacked(frames', cps'),
         status' # "fail" => Ready(frames', cps', FR', pos', SP')
  PROVE  StackInv'
<1>1. FrameType' = FrameType
  BY DEF FrameType, Kinds
<1>2. FramesIn(frames') = FramesIn(frames)'
  BY <1>1 DEF FramesIn
<1>3. Stacked(frames', cps') = Stacked(frames, cps)'
  BY <1>2 DEF Stacked
<1>4. Ready(frames', cps', FR', pos', SP') = Ready(frames, cps, FR, pos, SP)'
  BY <1>3 DEF Ready
<1>5. QED
  BY <1>3, <1>4 DEF StackInv

\* Every step keeps the stack well formed.
LEMMA StackInvStep ==
  ASSUME StackInv, MemoryOK, [Next]_vars
  PROVE  StackInv'
<1>1. CASE UNCHANGED vars
  <2>1. /\ UNCHANGED <<FR, SP, pos, frames, cps, status, owned, uses>>
    BY <1>1 DEF vars
  <2>2. QED
    BY <2>1, NextStack DEF StackInv
<1>2. CASE Next
  <2>1. Ready(frames, cps, FR, pos, SP) /\ uses' = uses
    BY <1>2, StepOfRunning DEF StackInv
  <2>2. CASE Backtrack
    BY <2>1, <2>2, Backtracks, NextStack
  <2>3. CASE ~Backtrack
    <3>1. GoesOn
      BY <1>2, <2>1, <2>3, StepGoesOn DEF CanRun, StackInv
    <3>2. QED
      BY <2>1, <3>1, NextStack DEF GoesOn, Ready
  <2>4. QED
    BY <2>2, <2>3
<1>3. QED
  BY <1>1, <1>2

\* The stack of a query that starts is well formed.
LEMMA InitStackInv == Init => StackInv
<1> SUFFICES ASSUME Init PROVE StackInv
  OBVIOUS
<1> DEFINE none == ElementsOf(cps)
<1>1. /\ cps = <<>> /\ FR = 2 /\ SP = 3 /\ pos = At("body") /\ owned = {1}
      /\ frames = <<HostFrame(<<>>), GoalFrame(<<>>, 1, 1)>>
  BY DEF Init
<1>2. none = {} /\ cps \in Seq(ChoiceType) /\ Ascending(cps)
  BY <1>1 DEF ElementsOf, Ascending
<1>3. /\ At("body") \in Pos /\ At("body").phase = "body" /\ At("body").open = <<>>
      /\ At("query") \in Pos /\ At("query").phase = "query" /\ At("query").open = <<>>
      /\ NoPC \in Pos
  BY AtIsPos, PlacesAreTyped DEF Phases
<1>4. /\ DOMAIN frames = {1, 2}
      /\ frames[1] = HostFrame(<<>>) /\ frames[2] = GoalFrame(<<>>, 1, 1)
  BY <1>1
<1>5. /\ frames[1].kind = "query" /\ frames[1].parent = 0 /\ frames[1].choicepoint = 0
      /\ frames[2].kind = "pred" /\ frames[2].parent = 1 /\ frames[2].choicepoint = 0
      /\ frames[2].ret = At("query")
      /\ frames[1] \in FrameType /\ frames[2] \in FrameType
  <2>1. Top(<<>>) = 0 /\ Null = 0
    BY DEF Top, Null
  <2>2. [s \in Slot |-> Null] \in [Slot -> Nat]
    BY DEF Null
  <2>3. 0 \in 0..MaxSlots /\ QueryReserved \in 0..MaxSlots /\ 0 \in 0..MaxLocals /\ 1 \in 0..MaxLocals
    BY BoundsAssumption
  <2>4. HostFrame(<<>>) \in FrameType /\ GoalFrame(<<>>, 1, 1) \in FrameType
    BY <1>3, <2>1, <2>2, <2>3 DEF HostFrame, GoalFrame, Frame, FrameType
  <2>5. QED
    BY <1>4, <2>1, <2>4 DEF HostFrame, GoalFrame, Frame
<1>6. FramesIn(frames)
  <2>1. 1 \in 1..StackSize /\ 2 \in 1..StackSize
    BY BoundsAssumption
  <2>2. QED
    BY <1>4, <1>5, <2>1 DEF FramesIn
<1> HIDE DEF none
<1>7. \A p : \A f \in {1, 2} : p.open = <<>> =>
        Targets(frames, f, p) = {0} /\ Noted(frames, f, p) = {} /\ TargetsOrdered(frames, f, p)
  BY <1>5 DEF Targets, Noted, TargetsOrdered
<1>8. Anchored(frames, none, 1) /\ Anchored(frames, none, 2)
  BY <1>5 DEF Anchored, Points, Null
<1>9. Place(frames, none, 1, At("query"), 2)
  <2>1. Younger(frames, none, 1, At("query"), 2)
    BY <1>2, <1>3, <1>4, <1>7 DEF Younger
  <2>2. QED
    BY <1>3, <1>4, <1>5, <1>7, <2>1 DEF Place, Executes
<1>10. Place(frames, none, 2, At("body"), 3)
  <2>1. Younger(frames, none, 2, At("body"), 3)
    BY <1>2, <1>3, <1>4, <1>7 DEF Younger
  <2>2. SlotsGrow(frames, none, 2, At("body"), 3)
    BY <1>2, <1>4, <1>5 DEF SlotsGrow
  <2>3. QED
    BY <1>3, <1>4, <1>5, <1>7, <2>1, <2>2 DEF Place, Executes
<1>11. StackOK(frames, none)
  <2>1. FrameOK(frames, none, 1)
    BY <1>5 DEF FrameOK, Null
  <2>2. CallOK(frames, none, 2)
    BY <1>3, <1>5, <1>7, <1>8, <1>9 DEF CallOK
  <2>3. FrameOK(frames, none, 2)
    BY <1>5, <2>2 DEF FrameOK
  <2>4. QED
    BY <1>2, <1>4, <2>1, <2>3 DEF StackOK
<1>12. RunsAt(frames, none, FR, pos, SP)
  BY <1>1, <1>2, <1>3, <1>4, <1>7, <1>8, <1>10 DEF RunsAt
<1>13. owned \subseteq 1..MaxLocals
  BY <1>1, BoundsAssumption
<1>14. QED
  BY <1>1, <1>2, <1>3, <1>6, <1>11, <1>12, <1>13 DEF StackInv, Ready, Stacked, none

(***************************************************************************)
(* The theorems                                                            *)
(***************************************************************************)
WellFormed ==
  /\ TrailInv /\ StackInv
  /\ status \in Statuses /\ uses \in Programs

\* Heap, trail and stack are well formed in every state.
LEMMA AlwaysWellFormed == Spec => []WellFormed
<1>1. Init => WellFormed
  BY InitTrailInv, InitStackInv DEF Init, WellFormed, Statuses
<1>2. WellFormed /\ [Next]_vars => WellFormed'
  <2>1. SUFFICES ASSUME WellFormed, [Next]_vars PROVE WellFormed'
    OBVIOUS
  <2>2. TrailInv' /\ StackInv'
    BY <2>1, TrailInvStep, StackInvStep DEF WellFormed, TrailInv
  <2>3. status' \in Statuses /\ uses' \in Programs
    <3>1. CASE Next
      BY <2>1, <3>1, StepOfRunning DEF WellFormed
    <3>2. CASE UNCHANGED vars
      BY <2>1, <3>2 DEF WellFormed, vars
    <3>3. QED
      BY <2>1, <3>1, <3>2
  <2>4. QED
    BY <2>2, <2>3 DEF WellFormed
<1>3. QED
  BY <1>1, <1>2, PTL DEF Spec

\* The registers, and the frames and choicepoints on the stack, keep their types,
\* although exits, cuts and backtracking restore most of them from the stack
\* (kernel.c: i_exit, cut_to, apply_choicepoint).
THEOREM TypesAreRight == Spec => []TypeOK
<1>1. WellFormed => TypeOK
  BY DEF WellFormed, StackInv, Stacked, FramesIn, TrailInv, MemoryOK, TypeOK, RegistersOK
<1>2. QED
  BY AlwaysWellFormed, <1>1, PTL

\* Whatever a running clause can still cut to is there: cuts, exits, catch/3 and
\* backtracking never remove a choicepoint that the current clause, or an open
\* condition of it, has noted (kernel.c:1330).
THEOREM CutsFindTheirTargets == Spec => []CutTargets
<1>1. WellFormed => CutTargets
  <2>1. SUFFICES ASSUME WellFormed, status = "run" PROVE CutTargets
    BY DEF CutTargets
  <2>2. RunsAt(frames, ElementsOf(cps), FR, pos, SP)
    BY <2>1 DEF WellFormed, StackInv, Ready
  <2>3. Points(ElementsOf(cps)) = {Null} \cup {cps[i].at : i \in DOMAIN cps}
    BY DEF Points, ElementsOf
  <2>4. frames[FR].choicepoint \in Points(ElementsOf(cps))
    BY <2>2 DEF RunsAt, Anchored, Points
  <2>5. \A k \in DOMAIN pos.open : frames[FR].cuts[pos.open[k]] \in Points(ElementsOf(cps))
    BY <2>2 DEF RunsAt, Noted
  <2>6. QED
    BY <2>3, <2>4, <2>5 DEF CutTargets
<1>2. QED
  BY AlwaysWellFormed, <1>1, PTL
=============================================================================
