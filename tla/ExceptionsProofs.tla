-------------------------- MODULE ExceptionsProofs --------------------------
(***************************************************************************)
(* Errors, and queries within queries, whatever the sizes of the memories  *)
(* and whatever the program.  A ball finds the choicepoints of the         *)
(* catchers it passes, and what is left when one of them takes it is a     *)
(* stack on which execution can go on, with the right clauses freed.  A    *)
(* query leaves the queries around it alone, whichever way it ends.        *)
(***************************************************************************)
EXTENDS Queries, MemoryProofs

(***************************************************************************)
(* Only predicates own clauses: the frame of a catch/3 does not.           *)
(***************************************************************************)
LocalFrames(fs) == \A f \in DOMAIN fs : fs[f].isLocal => fs[f].kind = "pred"

\* Frames that are left own no more than before.
LEMMA LocalKept ==
  ASSUME NEW fs, NEW gs, LocalFrames(fs),
         \A f \in DOMAIN gs :
           f \in DOMAIN fs /\ gs[f].kind = fs[f].kind /\ (gs[f].isLocal => fs[f].isLocal)
  PROVE  LocalFrames(gs)
  BY DEF LocalFrames

\* Neither do those below an address, when some of them have given up their clauses.
LEMMA LocalBelow ==
  ASSUME NEW fs, FramesIn(fs), LocalFrames(fs), NEW sp, NEW gone
  PROVE  /\ LocalFrames(Below(sp, fs)) /\ LocalFrames(Disowned(fs, gone))
         /\ LocalFrames(Below(sp, Disowned(fs, gone)))
<1>1. \A f \in DOMAIN fs :
        Disowned(fs, gone)[f].kind = fs[f].kind /\ (Disowned(fs, gone)[f].isLocal => fs[f].isLocal)
  <2>1. \A a \in FrameType : [a EXCEPT !.isLocal = FALSE].kind = a.kind /\ ~[a EXCEPT !.isLocal = FALSE].isLocal
    BY DEF FrameType
  <2>2. QED
    BY <2>1 DEF Disowned, FramesIn
<1>2. PICK low, dis, both : /\ low = Below(sp, fs) /\ dis = Disowned(fs, gone)
                           /\ both = Below(sp, Disowned(fs, gone))
  OBVIOUS
<1>3. /\ \A f \in DOMAIN low : f \in DOMAIN fs /\ low[f] = fs[f]
      /\ DOMAIN dis = DOMAIN fs
      /\ \A f \in DOMAIN both : f \in DOMAIN fs /\ both[f] = dis[f]
  BY <1>2 DEF Below, Disowned
<1>4. LocalFrames(low)
  BY <1>3, LocalKept
<1>5. LocalFrames(dis)
  BY <1>1, <1>2, <1>3, LocalKept
<1>6. LocalFrames(both)
  BY <1>3, <1>5, LocalKept
<1>7. QED
  BY <1>2, <1>4, <1>5, <1>6

\* A frame that is pushed with a clause of its own is one of a predicate.
LEMMA LocalPushed ==
  ASSUME NEW fs, LocalFrames(fs), NEW at, NEW kind, NEW h, NEW t, NEW clause, NEW n, NEW r,
         clause = Null \/ kind = "pred", Push(fs, at, Frame(kind, h, t, clause, n, r))
  PROVE  LocalFrames(frames')
<1>1. PICK b : b = Frame(kind, h, t, clause, n, r)
  OBVIOUS
<1>2. b.kind = kind /\ (b.isLocal => clause # Null)
  BY <1>1 DEF Frame
<1>3. LocalFrames(Put(fs, at, b))
  BY <1>2 DEF Put, LocalFrames
<1>4. QED
  BY <1>1, <1>3 DEF Push

\* So is the frame of a goal compiled by call/1.
LEMMA LocalCalled ==
  ASSUME NEW fs, LocalFrames(fs), NEW h, NEW at, NEW s, NEW kept, NEW r, UserCall(h, at, fs, s, kept, r)
  PROVE  LocalFrames(frames')
  BY LocalPushed DEF UserCall

\* Notes do not matter.
LEMMA LocalNoted ==
  ASSUME CanRun, LocalFrames(frames), NEW x, NEW y, NEW i
  PROVE  /\ LocalFrames([frames EXCEPT ![FR].cuts[i] = x])
         /\ LocalFrames([frames EXCEPT ![FR].choicepoint = x, ![FR].cuts[i] = y])
<1>1. FR \in DOMAIN frames /\ frames[FR] \in FrameType
  BY RunningProvides DEF FramesIn
<1>2. \A a \in FrameType : LET b == [a EXCEPT !.cuts[i] = x]
                               d == [a EXCEPT !.choicepoint = x, !.cuts[i] = y]
                           IN  /\ b.kind = a.kind /\ b.isLocal = a.isLocal
                               /\ d.kind = a.kind /\ d.isLocal = a.isLocal
  BY DEF FrameType
<1>3. PICK gs, hs : /\ gs = [frames EXCEPT ![FR].cuts[i] = x]
                    /\ hs = [frames EXCEPT ![FR].choicepoint = x, ![FR].cuts[i] = y]
  OBVIOUS
<1>4. /\ DOMAIN gs = DOMAIN frames /\ gs[FR] = [frames[FR] EXCEPT !.cuts[i] = x]
      /\ DOMAIN hs = DOMAIN frames /\ hs[FR] = [frames[FR] EXCEPT !.choicepoint = x, !.cuts[i] = y]
      /\ \A f \in DOMAIN frames : f # FR => gs[f] = frames[f] /\ hs[f] = frames[f]
  BY <1>1, <1>3
<1>5. \A f \in DOMAIN frames : /\ gs[f].kind = frames[f].kind /\ gs[f].isLocal = frames[f].isLocal
                               /\ hs[f].kind = frames[f].kind /\ hs[f].isLocal = frames[f].isLocal
  <2>1. PICK a : a = frames[FR]
    OBVIOUS
  <2>2. /\ a \in FrameType /\ gs[FR] = [a EXCEPT !.cuts[i] = x]
        /\ hs[FR] = [a EXCEPT !.choicepoint = x, !.cuts[i] = y]
    BY <1>1, <1>4, <2>1
  <2>3. gs[FR].kind = a.kind /\ gs[FR].isLocal = a.isLocal /\ hs[FR].kind = a.kind /\ hs[FR].isLocal = a.isLocal
    BY <1>2, <2>2
  <2>4. QED
    BY <1>4, <2>1, <2>3
<1>6. LocalFrames(gs) /\ LocalFrames(hs)
  BY <1>4, <1>5, LocalKept
<1>7. QED
  BY <1>3, <1>6

\* Backtracking brings no clause back.
LEMMA LocalBacktrack ==
  ASSUME CanOwn, LocalFrames(frames), Backtrack
  PROVE  LocalFrames(frames')
<1>1. ASSUME NEW n \in DOMAIN cps, Apply(cps[n], Abandoned(n))
      PROVE  LocalFrames(frames')
  <2>1. PICK c, at, g, k, m, gone, gs :
          /\ c = cps[n] /\ at = c.at /\ g = c.fr /\ k = c.clause /\ m = c.slotCount
          /\ gone = Abandoned(n) /\ gs = Reinstated(at, gone, g, k, m)
    OBVIOUS
  <2>2. frames' = gs
    BY <1>1, <2>1 DEF Apply, Reinstated
  <2>3. /\ FramesIn(frames) /\ c \in ChoiceType
        /\ c.fr \in DOMAIN frames /\ c.fr < c.at /\ c.clause = frames[c.fr].clause
    BY <2>1, ChoiceAppliedOK
  <2>4. /\ FramesIn(frames) /\ at \in Nat /\ g \in DOMAIN frames /\ g < at
        /\ k = frames[g].clause /\ m \in 0..MaxSlots
    BY <2>1, <2>3 DEF ChoiceType
  <2>5. OlderThan(gs, at, gone)
    BY <2>1, <2>4, ReinstatedIsLower
  <2>6. LocalFrames(gs)
    BY <2>5, LocalKept DEF OlderThan, LowerPart, SameFrame
  <2>7. QED
    BY <2>2, <2>6
<1>2. QED
  BY <1>1 DEF Backtrack

\* No instruction gives a clause to a frame of another kind.
LEMMA LocalStep ==
  ASSUME CanOwn, LocalFrames(frames), Next
  PROVE  LocalFrames(frames')
<1>1. CanRun /\ FramesIn(frames)
  BY RunningProvides DEF CanOwn
<1>2. CASE UNCHANGED frames
  BY <1>2
<1>3. CASE Backtrack
  BY <1>3, LocalBacktrack
<1>4. CASE \E cs : Leave(cs)
  BY <1>1, <1>4, LocalBelow DEF Leave
<1>5. CASE Call \/ Depart
  BY <1>1, <1>5, LocalBelow, LocalPushed DEF Call, Depart
<1>6. CASE OpenCondition
  BY <1>1, <1>6, LocalNoted DEF OpenCondition
<1>7. CASE CallGoal \/ Catch
  BY <1>1, <1>7, LocalNoted, LocalCalled DEF CallGoal, Catch
<1>8. CASE CutBody \/ CutCondition
  <2>1. PICK target, q : Cut(target, q) \/ CutCleanup(target)
    BY <1>8 DEF CutBody, CutCondition
  <2>2. QED
    BY <1>1, <2>1, LocalBelow, LocalCalled DEF Cut, CutCleanup
<1>9. QED
  BY <1>2, <1>3, <1>4, <1>5, <1>6, <1>7, <1>8
     DEF Next, Instruction, TryMe, Enter, MakeVar, BindVar, Fail, Exit, ExitQuery, Or, IfThen, IfThenElse,
         CutWithinCondition, ExitCatch, CleanupChoicepoint, Foreign, ForeignNondet, ForeignFail, BacktrackQuery

(***************************************************************************)
(* The choicepoints of the catchers                                        *)
(***************************************************************************)
\* Execution can come back to g from what it called, if g is a catch/3 (not only to start it).
Catchable(fs, s, g) ==
  /\ Anchored(fs, ElementsOf(s), g)
  /\ fs[g].kind = "catch/3" => g < fs[g].choicepoint

\* A call that can return finds what its callers can cut to: those that are catch/3 have pushed
\* their choicepoints.
LEMMA CallersCatch ==
  ASSUME NEW fs, NEW s, Stacked(fs, s), NEW g \in DOMAIN fs, Catchable(fs, s, g)
  PROVE  \A f \in AncestorsIn(fs, g) : f \in DOMAIN fs /\ Catchable(fs, s, f)
<1>1. /\ Grounded(fs) /\ FramesIn(fs) /\ StackOK(fs, ElementsOf(s))
      /\ \A f \in DOMAIN fs : fs[f].kind # "query" <=> fs[f].parent # Null
  BY StackGrounded DEF Stacked
<1>2. \A x \in DOMAIN fs : \A f \in AncestorsIn(fs, x) : f \in DOMAIN fs
  BY <1>1, Ancestry
<1> DEFINE T == {x \in DOMAIN fs : Catchable(fs, s, x) /\ \E f \in AncestorsIn(fs, x) : ~Catchable(fs, s, f)}
<1>3. CASE T = {}
  BY <1>2, <1>3
<1>4. CASE T # {}
  <2>1. T \in SUBSET Nat
    BY <1>1 DEF FramesIn
  <2>2. PICK x \in T : \A y \in T : x <= y
    BY <1>4, <2>1, LeastNumber
  <2>3. PICK f \in AncestorsIn(fs, x) : ~Catchable(fs, s, f)
    BY <2>2
  <2>4. x \in DOMAIN fs /\ Catchable(fs, s, x) /\ f # x
    BY <2>2, <2>3
  <2>5. PICK h : h = fs[x].parent
    OBVIOUS
  <2>6. /\ x \in Nat /\ h \in Nat /\ h < x /\ h \in DOMAIN fs /\ f \in AncestorsIn(fs, h)
    BY <1>1, <2>3, <2>4, <2>5, Ancestry DEF Grounded
  <2>7. fs[x].kind # "query"
    BY <1>1, <2>4, <2>5, <2>6, Ancestry
  <2>8. Anchored(fs, ElementsOf(s), h)
    BY <1>1, <2>4, <2>5, <2>7, CallerAnchored DEF Catchable
  <2>9. CallOK(fs, ElementsOf(s), x)
    BY <1>1, <2>4, <2>7 DEF StackOK, FrameOK
  <2>10. fs[h].kind = "catch/3" => h < fs[h].choicepoint
    BY <2>5, <2>9 DEF CallOK, Place, Executes
  <2>11. h \in T
    BY <2>3, <2>6, <2>8, <2>10 DEF Catchable
  <2>12. QED
    BY <2>2, <2>6, <2>11
<1>5. QED
  BY <1>3, <1>4

\* The choicepoint of a catch/3 is there, and still its own.
LEMMA CatcherHasChoice ==
  ASSUME NEW fs, NEW s, Stacked(fs, s), NEW f \in DOMAIN fs, Catchable(fs, s, f), fs[f].kind = "catch/3"
  PROVE  \E c \in ElementsOf(s) : c.at = fs[f].choicepoint /\ c.fr = f
<1>1. f \in Nat /\ fs[f].choicepoint \in Nat
  BY DEF Stacked, FramesIn, FrameType
<1>2. f < fs[f].choicepoint
  BY DEF Catchable
<1>3. fs[f].choicepoint \in Points({c \in ElementsOf(s) : c.at < f \/ c.fr = f})
  BY DEF Catchable, Anchored
<1>4. fs[f].choicepoint # Null
  BY <1>1, <1>2 DEF Null
<1>5. PICK c \in ElementsOf(s) : (c.at < f \/ c.fr = f) /\ fs[f].choicepoint = c.at
  BY <1>3, <1>4 DEF Points
<1>6. ~(c.at < f)
  BY <1>1, <1>2, <1>5
<1>7. QED
  BY <1>5, <1>6

\* The frames that can take the ball are those of the continuation.
LEMMA CatchersAre ==
  Catchers = {f \in AncestorsIn(frames, FR) : frames[f].kind = "catch/3"}
  BY DEF Catchers, Continuation, Ancestors, AncestorsIn

\* What a catcher f returns to: its choicepoint is number n.
Returning(f, n) ==
  /\ Stacked(frames, cps) /\ FR \in DOMAIN frames
  /\ f \in AncestorsIn(frames, FR) /\ f \in DOMAIN frames /\ frames[f].kind = "catch/3"
  /\ n \in DOMAIN cps /\ cps[n].fr = f /\ cps[n].at = frames[f].choicepoint

\* Every catcher finds its choicepoint.
LEMMA CatcherReturns ==
  ASSUME Stacked(frames, cps), FR \in DOMAIN frames, Catchable(frames, cps, FR), NEW f \in Catchers
  PROVE  Returning(f, ChoiceOf(f))
<1>1. f \in AncestorsIn(frames, FR) /\ frames[f].kind = "catch/3"
  BY CatchersAre
<1>2. f \in DOMAIN frames /\ Catchable(frames, cps, f)
  BY <1>1, CallersCatch
<1>3. PICK c \in ElementsOf(cps) : c.at = frames[f].choicepoint /\ c.fr = f
  BY <1>1, <1>2, CatcherHasChoice
<1>4. PICK i \in DOMAIN cps : cps[i] = c
  BY DEF ElementsOf
<1>5. ChoiceOf(f) \in DOMAIN cps /\ cps[ChoiceOf(f)].at = frames[f].choicepoint
  BY <1>3, <1>4 DEF ChoiceOf
<1>6. cps[ChoiceOf(f)] = c
  BY <1>3, <1>5, AscendingOnce DEF Stacked, ElementsOf
<1>7. QED
  BY <1>1, <1>2, <1>3, <1>5, <1>6 DEF Returning

(***************************************************************************)
(* Raising                                                                 *)
(***************************************************************************)
\* The stack while a ball is on its way: SP need not be right, but there is a place above
\* everything that belongs to frame g.
Thrown(fs, s, g) == (\E top \in Nat : Standing(fs, s, g, top)) /\ Catchable(fs, s, g)

\* What holds when a ball has been raised.
Raised ==
  /\ Thrown(frames', cps', FR') /\ LocalFrames(frames')
  /\ SP' \in Nat /\ pos' \in Pos /\ owned' \subseteq 1..MaxLocals
  /\ Owners(frames, Live(frames, ElementsOf(cps), FR), owned)
       => Owners(frames', Live(frames', ElementsOf(cps'), FR'), owned') \/ RaiseDepart
  /\ NoOrphans(frames, Live(frames, ElementsOf(cps), FR), owned)
       => NoOrphans(frames', Live(frames', ElementsOf(cps'), FR'), owned')
  /\ SizeInv => \E top \in Nat : Sized(frames', ElementsOf(cps'), top)

\* Where a frame runs, a ball can be raised.
LEMMA RunsThrows ==
  ASSUME NEW fs, NEW s, NEW g, NEW p, NEW sp, Sound(fs, s, g, p, sp), p.phase # "catch"
  PROVE  Thrown(fs, s, g)
<1>1. Standing(fs, s, g, sp) /\ sp \in Nat
  BY SoundStands DEF Standing
<1>2. Anchored(fs, ElementsOf(s), g) /\ Place(fs, ElementsOf(s), g, p, sp)
  BY DEF Sound, Ready, RunsAt
<1>3. fs[g].kind = "catch/3" => g < fs[g].choicepoint
  BY <1>2 DEF Place, Executes
<1>4. QED
  BY <1>1, <1>2, <1>3 DEF Thrown, Catchable

\* B_THROW and its like leave the stack alone.
LEMMA RaiseThrows ==
  ASSUME CanOwn, LocalFrames(frames), Raise
  PROVE  Raised
<1>1. UNCHANGED <<FR, SP, frames, cps, pos, owned>> /\ pos.phase # "catch"
  BY DEF Raise
<1>2. Thrown(frames, cps, FR) /\ SP \in Nat /\ pos \in Pos /\ owned \subseteq 1..MaxLocals
  BY <1>1, RunsThrows, ReadyProvides DEF CanOwn, CanRun
<1>3. SizeInv => \E top \in Nat : Sized(frames, ElementsOf(cps), top)
  BY <1>2 DEF SizeInv
<1>4. QED
  BY <1>1, <1>2, <1>3 DEF Raised

\* A foreign predicate fails with an error after it left a choicepoint.
LEMMA RaiseNondetThrows ==
  ASSUME CanOwn, LocalFrames(frames), RaiseNondet
  PROVE  Raised
<1>1. PICK c, s : ForeignLeaves(c, s)
  BY DEF ForeignLeaves
<1>2. /\ pos.phase = "foreign" /\ cps' = s /\ SP' = c.at + 1
      /\ UNCHANGED <<FR, frames, pos, owned>>
  BY <1>1 DEF RaiseNondet, Running, ForeignLeaves
<1>3. /\ c.at = SP /\ Standing(frames, s, FR, AfterChoice(c)) /\ Anchored(frames, ElementsOf(s), FR)
      /\ Live(frames, ElementsOf(s), FR) = Live(frames, ElementsOf(cps), FR)
  BY <1>1, <1>2, ForeignBranches
<1>4. CanRun /\ SP \in Nat /\ pos \in Pos /\ owned \subseteq 1..MaxLocals /\ frames[FR].kind = "foreign"
  BY <1>2, ReadyProvides, KindRuns DEF CanOwn, CanRun
<1>5. AfterChoice(c) \in Nat
  BY <1>3 DEF Standing
<1>6. Thrown(frames, s, FR)
  BY <1>3, <1>4, <1>5 DEF Thrown, Catchable
<1>7. ASSUME SizeInv PROVE Sized(frames, ElementsOf(s), AfterChoice(c))
  BY <1>1, <1>2, <1>4, <1>7, HeadChoiceSized DEF ForeignLeaves
<1>8. QED
  BY <1>2, <1>3, <1>4, <1>5, <1>6, <1>7 DEF Raised

\* The goal of a catch/3 cannot be compiled: its choicepoint is there already.
LEMMA RaiseCatchThrows ==
  ASSUME CanOwn, LocalFrames(frames), RaiseCatch
  PROVE  Raised
<1>1. PICK c, s, gs : CatchLeaves(c, s, gs)
  BY DEF CatchLeaves
<1>2. /\ pos.phase = "catch" /\ cps' = s /\ frames' = gs /\ SP' = AfterChoice(c)
      /\ UNCHANGED <<FR, pos, owned>>
  BY <1>1 DEF RaiseCatch, Running, CatchLeaves, CatchFrames
<1>3. /\ Sound(gs, s, FR, At("exitcatch"), AfterChoice(c))
      /\ Owners(frames, Live(frames, ElementsOf(cps), FR), owned) => Owners(gs, Live(gs, ElementsOf(s), FR), owned)
      /\ NoOrphans(frames, Live(frames, ElementsOf(cps), FR), owned)
           => NoOrphans(gs, Live(gs, ElementsOf(s), FR), owned)
  BY <1>1, <1>2, CatchMarksOwned
<1>4. CanRun /\ pos \in Pos /\ owned \subseteq 1..MaxLocals
  BY ReadyProvides DEF CanOwn, CanRun
<1>5. Thrown(gs, s, FR) /\ AfterChoice(c) \in Nat
  BY <1>3, RunsThrows DEF At, Sound, Ready
<1>6. LocalFrames(gs)
  BY <1>1, <1>4, LocalNoted DEF CatchLeaves, CatchFrames
<1>7. ASSUME SizeInv PROVE Sized(gs, ElementsOf(s), AfterChoice(c))
  BY <1>1, <1>2, <1>4, <1>7, CatchMarksSized DEF CatchLeaves
<1>8. QED
  BY <1>2, <1>3, <1>4, <1>5, <1>6, <1>7 DEF Raised

\* I_DEPART to an unknown procedure frees the clause of the frame, and moves SP below it.
LEMMA RaiseDepartThrows ==
  ASSUME CanOwn, LocalFrames(frames), RaiseDepart
  PROVE  Raised
<1>1. /\ pos.phase = "body" /\ "unknown" \in uses /\ SP' = AfterExit(cps)
      /\ UNCHANGED <<FR, frames, cps, pos>> /\ owned' \subseteq owned
  BY DEF RaiseDepart, Running
<1>2. CanRun /\ SP \in Nat /\ pos \in Pos /\ owned \subseteq 1..MaxLocals /\ frames[FR].kind = "pred"
  BY <1>1, ReadyProvides, KindRuns DEF CanOwn, CanRun
<1>3. Thrown(frames, cps, FR)
  BY <1>1, RunsThrows DEF CanOwn
<1>4. AfterExit(cps) \in Nat
  BY <1>2, LeavesRunning DEF CanRun, Ready
<1>5. SizeInv => \E top \in Nat : Sized(frames, ElementsOf(cps), top)
  BY <1>2 DEF SizeInv
<1>6. NoOrphans(frames, Live(frames, ElementsOf(cps), FR), owned)
        => NoOrphans(frames, Live(frames, ElementsOf(cps), FR), owned')
  BY <1>1 DEF NoOrphans
<1>7. QED
  BY <1>1, <1>2, <1>3, <1>4, <1>5, <1>6 DEF Raised

(***************************************************************************)
(* What a catcher returns to: the stack                                    *)
(***************************************************************************)
\* The stack and the choicepoints below the choicepoint of catcher f, which is number n.
ReturnsTo(f, n, low, t) ==
  /\ Returning(f, n)
  /\ low = StackAt(n) /\ t = ChoicesAt(n)

\* They are the older ones, and nothing but f lies between them and the choicepoint.
LEMMA CatcherLeaves ==
  ASSUME NEW f, NEW n, NEW low, NEW t, ReturnsTo(f, n, low, t)
  PROVE  /\ Stacked(low, t) /\ LowerPart(frames, low) /\ OldestOf(ElementsOf(cps), ElementsOf(t))
         /\ OlderThan(low, cps[n].at, Abandoned(n))
         /\ cps[n] \in ElementsOf(cps) /\ cps[n].at \in Nat /\ f \in DOMAIN low /\ f \in Nat /\ f < cps[n].at
         /\ DOMAIN low = {e \in DOMAIN frames : e < cps[n].at}
         /\ \A d : d \in ElementsOf(t) <=> d \in ElementsOf(cps) /\ d.at < cps[n].at
         /\ \A e \in DOMAIN low : e \in Nat /\ e <= f
         /\ \A d \in ElementsOf(t) : d.at \in Nat /\ d.at < f
<1>1. PICK c, at, gone, cs, ds : /\ c = cps[n] /\ at = c.at /\ gone = Abandoned(n)
                                 /\ cs = ElementsOf(cps) /\ ds = ElementsOf(t)
  OBVIOUS
<1>2. /\ Stacked(frames, cps) /\ n \in DOMAIN cps /\ c.fr = f /\ f \in DOMAIN frames
      /\ frames[f].kind = "catch/3" /\ low = Below(at, Disowned(frames, gone))
      /\ t = SubSeq(cps, 1, n - 1)
  BY <1>1 DEF ReturnsTo, Returning, StackAt, ChoicesAt
<1>3. /\ FramesIn(frames) /\ cps \in Seq(ChoiceType) /\ Ascending(cps) /\ StackOK(frames, cs)
      /\ Len(cps) \in Nat /\ DOMAIN cps = 1..Len(cps)
  BY <1>1, <1>2, LenProperties DEF Stacked
<1>4. /\ c \in cs /\ c \in ChoiceType
      /\ \A d : d \in ds <=> d \in cs /\ d.at < at
  BY <1>1, <1>2, OlderChoices
<1>5. at \in Nat /\ \A d \in cs : d.at \in Nat /\ d.fr \in Nat
  BY <1>1, <1>3, <1>4, ChoicesAreTyped DEF ChoiceType
<1>6. ChoiceOK(frames, cs, c) /\ \A d \in cs : d.fr \in DOMAIN frames /\ d.fr < d.at
  BY <1>3, <1>4 DEF StackOK, ChoiceOK
<1>7. f < at /\ OnTop(frames, cs, f, at)
  BY <1>1, <1>2, <1>6 DEF ChoiceOK
<1>8. n - 1 \in 0..Len(cps)
  BY <1>2, <1>3
<1>9. t \in Seq(ChoiceType) /\ Ascending(t) /\ OldestOf(cs, ds)
  BY <1>1, <1>2, <1>3, <1>8, PrefixElements
<1>10. /\ LowerPart(frames, low) /\ FramesIn(low) /\ DOMAIN low = {e \in DOMAIN frames : e < at}
  <2>1. /\ LowerPart(frames, Below(at, Disowned(frames, gone)))
        /\ FramesIn(Below(at, Disowned(frames, gone)))
        /\ DOMAIN Below(at, Disowned(frames, gone)) = {e \in DOMAIN frames : e < at}
    <3>1. FramesIn(frames) /\ at \in Nat
      BY <1>3, <1>5
    <3>2. QED
      BY <3>1, BelowIsLower
  <2>2. QED
    BY <1>2, <2>1
<1>11. OlderThan(low, at, gone)
  <2>1. \A e \in DOMAIN low :
          low[e] = IF e \in gone THEN [frames[e] EXCEPT !.isLocal = FALSE] ELSE frames[e]
    BY <1>2, <1>10 DEF Below, Disowned
  <2>2. \A a \in FrameType : [a EXCEPT !.isLocal = FALSE].clause = a.clause /\ ~[a EXCEPT !.isLocal = FALSE].isLocal
    BY DEF FrameType
  <2>3. \A e \in DOMAIN low : e \in DOMAIN frames /\ frames[e] \in FrameType
    BY <1>3, <1>10 DEF FramesIn
  <2>4. \A e \in DOMAIN low :
          /\ low[e].clause = frames[e].clause /\ (low[e].isLocal => frames[e].isLocal)
          /\ e \notin gone => SameOwner(low[e], frames[e])
    BY <2>1, <2>2, <2>3 DEF SameOwner
  <2>5. QED
    BY <1>10, <2>4 DEF OlderThan
<1>12. /\ \A e \in DOMAIN low : e \in Nat /\ e <= f
       /\ f \in DOMAIN low /\ f \in Nat
  <2>1. \A e \in DOMAIN frames : e \in Nat
    BY <1>3 DEF FramesIn
  <2>2. \A e \in DOMAIN frames : e <= f \/ at <= e
    BY <1>7 DEF OnTop
  <2>3. QED
    BY <1>2, <1>5, <1>7, <1>10, <2>1, <2>2
<1>13. \A d \in ds : d.at \in Nat /\ d.at < f
  BY <1>4, <1>5, <1>7 DEF OnTop
<1>14. StackOK(low, ds)
  <2>1. \A d \in ds : d.fr \in DOMAIN low
    BY <1>4, <1>5, <1>6, <1>10
  <2>2. FramesTyped(frames) /\ FramesTyped(low) /\ ChoicesTyped(cs)
    BY <1>1, <1>3, <1>10, FramesInAreTyped, ChoicesAreTyped
  <2>3. QED
    BY <1>3, <1>9, <1>10, <2>1, <2>2, StackShrinks
<1>15. Stacked(low, t)
  BY <1>1, <1>9, <1>10, <1>14 DEF Stacked
<1>16. QED
  BY <1>1, <1>4, <1>5, <1>7, <1>9, <1>10, <1>11, <1>12, <1>13, <1>15

\* The clauses of the frames above have been freed, of no others.
LEMMA CatcherOwns ==
  ASSUME NEW top, Standing(frames, cps, FR, top),
         NEW f, NEW n, NEW low, NEW t, ReturnsTo(f, n, low, t), NEW own
  PROVE  /\ Tidy(low, ElementsOf(t))
         /\ Owners(frames, Live(frames, ElementsOf(cps), FR), own)
              => Owners(low, Live(low, ElementsOf(t), f), own \ ClausesOf(Abandoned(n)))
         /\ NoOrphans(frames, Live(frames, ElementsOf(cps), FR), own)
              => NoOrphans(low, Live(low, ElementsOf(t), f), own \ ClausesOf(Abandoned(n)))
<1>1. PICK c, gone : c = cps[n] /\ gone = Abandoned(n)
  OBVIOUS
<1>2. n \in DOMAIN cps /\ c.fr = f /\ t = SubSeq(cps, 1, n - 1)
  BY <1>1 DEF ReturnsTo, Returning, ChoicesAt
<1>3. OlderThan(low, c.at, gone) /\ Stacked(low, t)
  BY <1>1, CatcherLeaves
<1>4. /\ Tidy(low, ElementsOf(t))
      /\ Owners(frames, Live(frames, ElementsOf(cps), FR), own)
           => Owners(low, Live(low, ElementsOf(t), c.fr), own \ ClausesOf(gone))
      /\ NoOrphans(frames, Live(frames, ElementsOf(cps), FR), own)
           => NoOrphans(low, Live(low, ElementsOf(t), c.fr), own \ ClausesOf(gone))
  BY <1>1, <1>2, <1>3, BacktrackDrops
<1>5. QED
  BY <1>1, <1>2, <1>4

(***************************************************************************)
(* What a catcher returns to: the place of its call                        *)
(***************************************************************************)
\* What the caller h of catcher f can cut to at r is in the part of the stack that is left.
LEMMA CatcherTargets ==
  ASSUME Thrown(frames, cps, FR), NEW f, NEW n, NEW low, NEW t, ReturnsTo(f, n, low, t),
         NEW h, h = frames[f].parent, NEW r, r = frames[f].ret
  PROVE  /\ h \in DOMAIN low /\ h \in Nat /\ 0 < h /\ h < f /\ r \in Pos
         /\ r.phase \in {"body", "exitcatch", "query"}
         /\ Noted(low, h, r) = Noted(frames, h, r)
         /\ \A x \in Noted(frames, h, r) : x \in Nat /\ x < f
         /\ Anchored(low, ElementsOf(t), h) /\ Noted(low, h, r) \subseteq Points(ElementsOf(t))
<1>1. PICK cs, ds : cs = ElementsOf(cps) /\ ds = ElementsOf(t)
  OBVIOUS
<1>2. /\ LowerPart(frames, low) /\ f \in DOMAIN low /\ f \in Nat
      /\ \A d : d \in ds <=> d \in cs /\ d.at < cps[n].at
      /\ f < cps[n].at /\ cps[n].at \in Nat
      /\ DOMAIN low = {e \in DOMAIN frames : e < cps[n].at}
  BY <1>1, CatcherLeaves
<1>3. /\ Stacked(frames, cps) /\ FR \in DOMAIN frames /\ f \in AncestorsIn(frames, FR)
      /\ f \in DOMAIN frames /\ frames[f].kind = "catch/3"
  BY DEF ReturnsTo, Returning
<1>4. /\ FramesIn(frames) /\ FramesTyped(frames) /\ StackOK(frames, cs) /\ ChoicesTyped(cs)
  BY <1>1, <1>3, FramesInAreTyped, ChoicesAreTyped DEF Stacked
<1>5. Anchored(frames, cs, f)
  BY <1>1, <1>3, CallersCatch DEF Thrown, Catchable
<1>6. frames[f].kind # "query" /\ CallOK(frames, cs, f)
  BY <1>3, <1>4 DEF StackOK, FrameOK
<1>7. /\ Anchored(frames, cs, h) /\ Noted(frames, h, r) \subseteq Points(cs)
      /\ h \in DOMAIN frames /\ h < f
  BY <1>3, <1>4, <1>5, <1>6, CallerAnchored
<1>8. /\ Place(frames, cs, h, r, f) /\ r.phase \in {"body", "exitcatch", "query"}
  BY <1>6 DEF CallOK
<1>9. h \in Nat /\ 0 < h /\ r \in Pos /\ \A x \in Targets(frames, h, r) : x \in Nat
  <2>1. h \in Nat /\ 0 < h /\ r \in Pos
    BY <1>3, <1>4, <1>7 DEF FramesTyped
  <2>2. QED
    BY <1>4, <1>7, <2>1, TargetsAreAddresses
<1>10. \A x \in Targets(frames, h, r) : x < f
  BY <1>8 DEF Place, Younger
<1>11. h \in DOMAIN low
  BY <1>2, <1>7, <1>9
<1>12. SameFrame(low[h], frames[h])
  BY <1>2, <1>11 DEF LowerPart
<1>13. /\ Noted(low, h, r) = Noted(frames, h, r)
       /\ \A x \in Noted(frames, h, r) : x \in Nat /\ x < f
  BY <1>9, <1>10, <1>12 DEF SameFrame, Noted, Targets
<1>14. Noted(low, h, r) \subseteq Points(ds)
  <2>1. SUFFICES ASSUME NEW x \in Noted(frames, h, r), x # Null PROVE x \in Points(ds)
    BY <1>13 DEF Points
  <2>2. PICK d \in cs : d.at = x
    BY <1>7, <2>1 DEF Points
  <2>3. x \in Nat /\ x < cps[n].at
    BY <1>2, <1>13
  <2>4. QED
    BY <1>2, <2>2, <2>3 DEF Points
<1>15. Anchored(low, ds, h)
  <2>1. frames[h].choicepoint \in Nat /\ frames[h].choicepoint < cps[n].at
    BY <1>2, <1>9, <1>10 DEF Targets
  <2>2. low[h].choicepoint = frames[h].choicepoint
    BY <1>12 DEF SameFrame
  <2>3. CASE frames[h].choicepoint = Null
    BY <2>2, <2>3 DEF Anchored, Points
  <2>4. CASE frames[h].choicepoint # Null
    <3>1. PICK d \in cs : (d.at < h \/ d.fr = h) /\ d.at = frames[h].choicepoint
      BY <1>7, <2>4 DEF Anchored, Points
    <3>2. d \in ds
      BY <1>2, <2>1, <3>1
    <3>3. QED
      BY <2>2, <3>1, <3>2 DEF Anchored, Points
  <2>5. QED
    BY <2>3, <2>4
<1>16. QED
  BY <1>1, <1>7, <1>8, <1>9, <1>11, <1>13, <1>14, <1>15

\* So its handler can be called from there.
LEMMA CatcherRuns ==
  ASSUME Thrown(frames, cps, FR), NEW f, NEW n, NEW low, NEW t, ReturnsTo(f, n, low, t),
         NEW h, h = frames[f].parent, NEW r, r = frames[f].ret,
         NEW new \in Nat, f < new
  PROVE  RunsAt(low, ElementsOf(t), h, r, new)
<1>1. PICK ds, sp, p : ds = ElementsOf(t) /\ sp = cps[n].at + 1 /\ p = At("body")
  OBVIOUS
<1>2. /\ Stacked(low, t) /\ LowerPart(frames, low) /\ f \in DOMAIN low /\ f \in Nat
      /\ f < cps[n].at /\ cps[n].at \in Nat
      /\ \A e \in DOMAIN low : e \in Nat /\ e <= f
      /\ \A d \in ds : d.at \in Nat /\ d.at < f
  BY <1>1, CatcherLeaves
<1>3. /\ h \in DOMAIN low /\ Anchored(low, ds, h) /\ Noted(low, h, r) \subseteq Points(ds)
  BY <1>1, CatcherTargets
<1>4. /\ low[f].parent = h /\ low[f].ret = r /\ low[f].choicepoint = cps[n].at /\ low[f].kind = "catch/3"
  BY <1>2 DEF LowerPart, SameFrame, ReturnsTo, Returning
<1>5. FramesTyped(low) /\ ChoicesTyped(ds) /\ StackOK(low, ds)
  BY <1>1, <1>2, FramesInAreTyped, ChoicesAreTyped DEF Stacked
<1>6. Younger(low, ds, f, p, sp)
  <2>1. Targets(low, f, p) = {cps[n].at}
    BY <1>1, <1>4 DEF Targets, Noted, At
  <2>2. \A e \in DOMAIN low : ~(f < e)
    BY <1>2
  <2>3. \A d \in ds : ~(f <= d.at) /\ ~(cps[n].at < d.at)
    BY <1>2
  <2>4. cps[n].at < sp
    BY <1>1, <1>2
  <2>5. QED
    BY <2>1, <2>2, <2>3, <2>4 DEF Younger
<1>7. /\ \A e \in DOMAIN low : e < sp /\ e < new
      /\ \A d \in ds : d.at < sp /\ d.at < new
      /\ 0 < new
  BY <1>1, <1>2
<1>8. LowerPart(low, low) /\ OldestOf(ds, ds) /\ low[f].kind # "query"
  BY <1>4 DEF LowerPart, SameFrame, OldestOf
<1>9. RunsAt(low, ds, low[f].parent, low[f].ret, new)
  <2>1. /\ f \in DOMAIN low /\ new \in Nat
        /\ FramesTyped(low) /\ ChoicesTyped(ds) /\ StackOK(low, ds)
        /\ \A e \in DOMAIN low : e < sp
        /\ \A d \in ds : d.at < sp
        /\ Younger(low, ds, f, p, sp) /\ low[f].kind # "query"
        /\ LowerPart(low, low) /\ OldestOf(ds, ds)
        /\ low[f].parent \in DOMAIN low
        /\ \A e \in DOMAIN low : e < new
        /\ \A d \in ds : d.at < new
        /\ Anchored(low, ds, low[f].parent)
        /\ Noted(low, low[f].parent, low[f].ret) \subseteq Points(ds)
        /\ 0 < new
    BY <1>2, <1>3, <1>4, <1>5, <1>6, <1>7, <1>8
  <2>2. QED
    BY <2>1, CallReturns
<1>10. QED
  BY <1>1, <1>4, <1>9

(***************************************************************************)
(* The frame of the catcher is marked: it cannot catch again.              *)
(***************************************************************************)
\* Of frame f, the last one, only the kind is changed.
Caught1(fs, gs, f) ==
  /\ f \in DOMAIN fs /\ DOMAIN gs = DOMAIN fs
  /\ \A e \in DOMAIN fs : e # f => gs[e] = fs[e]
  /\ fs[f].kind = "catch/3" /\ gs[f].kind = "caught" /\ gs[f] \in FrameType
  /\ gs[f].parent = fs[f].parent /\ gs[f].choicepoint = fs[f].choicepoint
  /\ gs[f].ret = fs[f].ret /\ gs[f].cuts = fs[f].cuts
  /\ SameOwner(gs[f], fs[f]) /\ gs[f].slotCount = fs[f].slotCount

\* All places but those in f stay what they are, and there are none in f.
LEMMA CaughtPlaces ==
  ASSUME NEW fs, NEW gs, NEW cs, NEW f, Caught1(fs, gs, f),
         FramesTyped(fs), FramesTyped(gs), ChoicesTyped(cs), StackOK(fs, cs),
         \A e \in DOMAIN fs : e <= f, \A c \in cs : c.at < f
  PROVE  /\ StackOK(gs, cs)
         /\ \A g, p : \A top \in Nat : RunsAt(fs, cs, g, p, top) /\ g # f => RunsAt(gs, cs, g, p, top)
<1>0. \A e \in DOMAIN fs : gs[e].parent = fs[e].parent /\ gs[e].ret = fs[e].ret
                           /\ gs[e].choicepoint = fs[e].choicepoint
  BY DEF Caught1
<1>1. ASSUME NEW g, NEW p, NEW top \in Nat, Place(fs, cs, g, p, top), g # f
      PROVE  /\ Place(gs, cs, g, p, top) /\ gs[g] = fs[g]
             /\ Targets(gs, g, p) = Targets(fs, g, p) /\ Noted(gs, g, p) = Noted(fs, g, p)
             /\ Anchored(gs, cs, g) = Anchored(fs, cs, g)
  <2>1. g \in DOMAIN fs /\ g \in Nat
    BY <1>1 DEF Place, FramesTyped
  <2>2. gs[g] = fs[g] /\ DOMAIN gs = DOMAIN fs
    BY <1>1, <2>1 DEF Caught1
  <2>3. Place(gs, cs, g, p, top)
    BY <1>0, <1>1, <2>1, <2>2, PlaceKept
  <2>4. QED
    BY <2>2, <2>3 DEF Targets, Noted, Anchored
<1>2. ASSUME NEW e \in DOMAIN gs
      PROVE  FrameOK(gs, cs, e)
  <2>1. e \in DOMAIN fs /\ FrameOK(fs, cs, e) /\ e \in Nat /\ f \in Nat /\ e <= f
    BY DEF StackOK, FramesTyped, Caught1
  <2>2. ASSUME fs[e].kind # "query"
        PROVE  CallOK(gs, cs, e)
    <3>1. PICK h, r : h = fs[e].parent /\ r = fs[e].ret
      OBVIOUS
    <3>2. /\ Place(fs, cs, h, r, e) /\ r.phase \in {"body", "exitcatch", "query"}
          /\ \A t \in Targets(fs, h, r) : t <= fs[e].choicepoint
          /\ Anchored(fs, cs, e) => Anchored(fs, cs, h) /\ Noted(fs, h, r) \subseteq Points(cs)
      BY <2>1, <2>2, <3>1 DEF FrameOK, CallOK
    <3>3. h # f
      <4>1. h \in DOMAIN fs /\ h < e
        BY <3>2 DEF Place
      <4>2. h \in Nat
        BY <4>1 DEF FramesTyped
      <4>3. QED
        BY <2>1, <4>1, <4>2
    <3>4. /\ Place(gs, cs, h, r, e)
          /\ Targets(gs, h, r) = Targets(fs, h, r) /\ Noted(gs, h, r) = Noted(fs, h, r)
          /\ Anchored(gs, cs, h) = Anchored(fs, cs, h)
      BY <1>1, <2>1, <3>2, <3>3
    <3>5. Anchored(gs, cs, e) = Anchored(fs, cs, e)
      BY <1>0, <2>1 DEF Anchored
    <3>6. gs[e].parent = h /\ gs[e].ret = r /\ gs[e].choicepoint = fs[e].choicepoint
      BY <1>0, <2>1, <3>1
    <3>7. QED
      BY <3>2, <3>4, <3>5, <3>6 DEF CallOK
  <2>3. CASE e = f
    <3>1. gs[e].kind = "caught" /\ fs[e].kind = "catch/3"
      BY <2>3 DEF Caught1
    <3>2. QED
      BY <2>2, <3>1 DEF FrameOK
  <2>4. CASE e # f
    <3>1. gs[e] = fs[e]
      BY <2>1, <2>4 DEF Caught1
    <3>2. QED
      BY <2>1, <2>2, <3>1 DEF FrameOK
  <2>5. QED
    BY <2>3, <2>4
<1>3. ASSUME NEW c \in cs
      PROVE  ChoiceOK(gs, cs, c)
  <2>1. ChoiceOK(fs, cs, c) /\ c.at \in Nat /\ c.fr \in Nat /\ c.at < f
    BY DEF StackOK, ChoicesTyped
  <2>2. c.fr \in DOMAIN fs /\ c.fr < c.at /\ f \in Nat
    BY <2>1 DEF ChoiceOK, Caught1, FramesTyped
  <2>3. c.fr # f
    BY <2>1, <2>2
  <2>4. ASSUME c.pc # NoPC
        PROVE  ResumeOK(gs, cs, c)
    <3>1. Place(fs, cs, c.fr, c.pc, c.at)
      BY <2>1, <2>4 DEF ChoiceOK, ResumeOK
    <3>2. /\ Place(gs, cs, c.fr, c.pc, c.at)
          /\ Targets(gs, c.fr, c.pc) = Targets(fs, c.fr, c.pc)
      BY <1>1, <2>1, <2>3, <3>1
    <3>3. QED
      BY <2>1, <2>4, <3>2 DEF ChoiceOK, ResumeOK
  <2>5. DOMAIN gs = DOMAIN fs /\ gs[c.fr] = fs[c.fr]
    BY <2>2, <2>3 DEF Caught1
  <2>6. QED
    BY <2>1, <2>4, <2>5 DEF ChoiceOK, OnTop
<1>4. StackOK(gs, cs)
  BY <1>2, <1>3 DEF StackOK
<1>5. ASSUME NEW g, NEW p, NEW top \in Nat, RunsAt(fs, cs, g, p, top), g # f
      PROVE  RunsAt(gs, cs, g, p, top)
  <2>1. Place(fs, cs, g, p, top)
    BY <1>5 DEF RunsAt
  <2>2. DOMAIN gs = DOMAIN fs
    BY DEF Caught1
  <2>3. QED
    BY <1>1, <1>5, <2>1, <2>2 DEF RunsAt
<1>6. QED
  BY <1>4, <1>5

\* The catcher f, at choicepoint n, takes the ball: gs are the frames that are left.
Takes(f, n, low, t, gs) == ReturnsTo(f, n, low, t) /\ gs = [low EXCEPT ![f].kind = "caught"]

\* Of the frames that are left, only that of the catcher is changed.
LEMMA TakesMarks ==
  ASSUME NEW f, NEW n, NEW low, NEW t, NEW gs, Takes(f, n, low, t, gs)
  PROVE  Caught1(low, gs, f)
<1>1. ReturnsTo(f, n, low, t) /\ gs = [low EXCEPT ![f].kind = "caught"]
  BY DEF Takes
<1>2. f \in DOMAIN low /\ LowerPart(frames, low) /\ Stacked(low, t)
  BY <1>1, CatcherLeaves
<1>3. low[f] \in FrameType /\ low[f].kind = "catch/3"
  BY <1>1, <1>2 DEF Stacked, FramesIn, LowerPart, SameFrame, ReturnsTo, Returning
<1>4. \A a \in FrameType :
        LET b == [a EXCEPT !.kind = "caught"]
        IN  /\ b.kind = "caught" /\ b \in FrameType
            /\ b.parent = a.parent /\ b.choicepoint = a.choicepoint /\ b.ret = a.ret /\ b.cuts = a.cuts
            /\ b.clause = a.clause /\ b.isLocal = a.isLocal /\ b.slotCount = a.slotCount
  BY DEF FrameType
<1>5. /\ DOMAIN gs = DOMAIN low /\ \A e \in DOMAIN low : e # f => gs[e] = low[e]
      /\ gs[f] = [low[f] EXCEPT !.kind = "caught"]
  BY <1>1, <1>2
<1>6. PICK a : a = low[f]
  OBVIOUS
<1>7. a \in FrameType /\ gs[f] = [a EXCEPT !.kind = "caught"]
  BY <1>3, <1>5, <1>6
<1>8. /\ gs[f].kind = "caught" /\ gs[f] \in FrameType
      /\ gs[f].parent = a.parent /\ gs[f].choicepoint = a.choicepoint /\ gs[f].ret = a.ret /\ gs[f].cuts = a.cuts
      /\ gs[f].clause = a.clause /\ gs[f].isLocal = a.isLocal /\ gs[f].slotCount = a.slotCount
  BY <1>4, <1>7
<1>9. QED
  BY <1>2, <1>3, <1>5, <1>6, <1>8 DEF Caught1, SameOwner

\* Execution can go on where the catcher was called.
LEMMA TakesRuns ==
  ASSUME Thrown(frames, cps, FR), NEW f, NEW n, NEW low, NEW t, NEW gs, Takes(f, n, low, t, gs),
         NEW h, h = frames[f].parent, NEW r, r = frames[f].ret,
         NEW new \in Nat, f < new
  PROVE  Ready(gs, t, h, r, new) /\ r.phase \in {"body", "exitcatch", "query"}
<1>1. PICK ds : ds = ElementsOf(t)
  OBVIOUS
<1>2. ReturnsTo(f, n, low, t) /\ Caught1(low, gs, f)
  BY TakesMarks DEF Takes
<1>3. /\ Stacked(low, t) /\ \A e \in DOMAIN low : e \in Nat /\ e <= f
      /\ \A d \in ds : d.at \in Nat /\ d.at < f
  BY <1>1, <1>2, CatcherLeaves
<1>4. /\ h \in Nat /\ h < f /\ r \in Pos /\ r.phase \in {"body", "exitcatch", "query"}
  BY <1>2, CatcherTargets
<1>5. RunsAt(low, ds, h, r, new)
  BY <1>1, <1>2, CatcherRuns
<1>6. /\ FramesIn(low) /\ StackOK(low, ds) /\ t \in Seq(ChoiceType) /\ Ascending(t)
  BY <1>1, <1>3 DEF Stacked
<1>7. FramesIn(gs)
  BY <1>2, <1>6 DEF FramesIn, Caught1
<1>8. FramesTyped(low) /\ FramesTyped(gs) /\ ChoicesTyped(ds)
  BY <1>1, <1>6, <1>7, FramesInAreTyped, ChoicesAreTyped
<1>9. f \in Nat /\ h # f
  BY <1>2, <1>3, <1>4 DEF Caught1
<1>10. StackOK(gs, ds) /\ RunsAt(gs, ds, h, r, new)
  BY <1>2, <1>3, <1>5, <1>6, <1>8, <1>9, CaughtPlaces
<1>11. QED
  BY <1>1, <1>4, <1>6, <1>7, <1>10 DEF Ready, Stacked

\* ... and the clauses have their owners.
LEMMA TakesSound ==
  ASSUME Thrown(frames, cps, FR), NEW f, NEW n, NEW low, NEW t, NEW gs, Takes(f, n, low, t, gs),
         NEW h, h = frames[f].parent, NEW r, r = frames[f].ret,
         NEW new \in Nat, f < new
  PROVE  Sound(gs, t, h, r, new)
<1>1. PICK ds : ds = ElementsOf(t)
  OBVIOUS
<1>2. ReturnsTo(f, n, low, t) /\ Caught1(low, gs, f)
  BY TakesMarks DEF Takes
<1>3. Stacked(low, t) /\ Tidy(low, ds)
  BY <1>1, <1>2, CatcherLeaves, CatcherOwns DEF Thrown
<1>4. Ready(gs, t, h, r, new)
  BY TakesRuns
<1>5. Stacked(gs, t)
  BY <1>4 DEF Ready
<1>6. Grounded(low) /\ Grounded(gs)
  BY <1>3, <1>5, StackGrounded
<1>7. \A d \in ds : d.fr \in DOMAIN low /\ d.at \in Nat
  BY <1>1, <1>3, StackNumbers DEF Numbers
<1>8. \A e \in DOMAIN low :
        /\ gs[e].parent = low[e].parent /\ gs[e].ret = low[e].ret
        /\ low[e].choicepoint \in Nat /\ gs[e].choicepoint \in Nat
        /\ low[e].choicepoint <= gs[e].choicepoint
        /\ gs[e].clause = low[e].clause /\ (gs[e].isLocal => low[e].isLocal)
        /\ gs[e].cuts = low[e].cuts
  <2>1. \A e \in DOMAIN low : low[e].choicepoint \in Nat
    BY <1>3 DEF Stacked, FramesIn, FrameType
  <2>2. \A e \in DOMAIN low :
          /\ gs[e].parent = low[e].parent /\ gs[e].ret = low[e].ret /\ gs[e].choicepoint = low[e].choicepoint
          /\ gs[e].clause = low[e].clause /\ gs[e].isLocal = low[e].isLocal /\ gs[e].cuts = low[e].cuts
    BY <1>2 DEF Caught1, SameOwner
  <2>3. QED
    BY <2>1, <2>2
<1>9. \A e \in DOMAIN low : \A p : Noted(gs, e, p) = Noted(low, e, p)
  BY <1>8 DEF Noted
<1>10. DOMAIN gs = DOMAIN low
  BY <1>2 DEF Caught1
<1>11. Tidy(gs, ds)
  <2>1. \A e \in DOMAIN gs :
          low[e].parent # Null => Noted(gs, low[e].parent, low[e].ret) \subseteq Noted(low, low[e].parent, low[e].ret)
    BY <1>6, <1>9, <1>10 DEF Grounded
  <2>2. \A d \in ds : d.pc # NoPC => Noted(gs, d.fr, d.pc) \subseteq Noted(low, d.fr, d.pc)
    BY <1>7, <1>9
  <2>3. /\ \A d \in ds : d.fr \in DOMAIN gs /\ d.at \in Nat
        /\ \A e \in DOMAIN gs :
           /\ e \in DOMAIN low /\ gs[e].parent = low[e].parent /\ gs[e].ret = low[e].ret
           /\ low[e].choicepoint \in Nat /\ gs[e].choicepoint \in Nat
           /\ low[e].choicepoint <= gs[e].choicepoint
           /\ gs[e].clause = low[e].clause /\ (gs[e].isLocal => low[e].isLocal)
    BY <1>7, <1>8, <1>10
  <2>4. ds \in SUBSET ds
    OBVIOUS
  <2>5. QED
    BY <1>3, <1>6, <2>1, <2>2, <2>3, <2>4, TidyKept
<1>12. Apart(gs, ds, h, r, new)
  <2>1. /\ \A e \in DOMAIN low : e \in Nat /\ e <= f
        /\ \A d \in ds : d.at \in Nat /\ d.at < f
    BY <1>1, <1>2, CatcherLeaves
  <2>2. /\ h \in DOMAIN low /\ \A x \in Noted(low, h, r) : x \in Nat /\ x < f
    BY <1>2, CatcherTargets
  <2>3. f \in DOMAIN gs /\ gs[f].parent = h /\ gs[f].ret = r
    <3>1. f \in DOMAIN low /\ LowerPart(frames, low)
      BY <1>2, CatcherLeaves
    <3>2. QED
      BY <1>8, <1>10, <3>1 DEF LowerPart, SameFrame
  <2>4. Nested(gs, ds)
    BY <1>1, <1>5, <1>11, StackNested
  <2>5. Around(gs, ds, f, new) /\ \A d \in ds : d.at < new
    <3>1. f \in Nat /\ (\A e \in DOMAIN gs : ~(f < e)) /\ (\A d \in ds : ~(f <= d.at) /\ d.at < new)
      BY <1>10, <2>1, <2>3
    <3>2. QED
      BY <3>1 DEF Around
  <2>6. h \in DOMAIN gs /\ \A x \in Noted(gs, h, r) : x \in Nat /\ x < f
    BY <1>9, <1>10, <2>2
  <2>7. QED
    BY <1>11, <2>3, <2>4, <2>5, <2>6, ApartReturn
<1>13. QED
  BY <1>1, <1>4, <1>11, <1>12 DEF Sound

\* The catcher owns no clause: the others still have their owners when it is left.
LEMMA TakesOwners ==
  ASSUME Thrown(frames, cps, FR), LocalFrames(frames),
         NEW f, NEW n, NEW low, NEW t, NEW gs, Takes(f, n, low, t, gs),
         NEW h, h = frames[f].parent, NEW own
  PROVE  /\ LocalFrames(gs)
         /\ Owners(low, Live(low, ElementsOf(t), f), own) => Owners(gs, Live(gs, ElementsOf(t), h), own)
         /\ NoOrphans(low, Live(low, ElementsOf(t), f), own) => NoOrphans(gs, Live(gs, ElementsOf(t), h), own)
<1>1. PICK ds : ds = ElementsOf(t)
  OBVIOUS
<1>2. ReturnsTo(f, n, low, t) /\ Caught1(low, gs, f)
  BY TakesMarks DEF Takes
<1>3. /\ Stacked(low, t) /\ OlderThan(low, cps[n].at, Abandoned(n)) /\ LowerPart(frames, low) /\ f \in DOMAIN low
  BY <1>2, CatcherLeaves
<1>4. h \in DOMAIN low /\ low[f].parent = h /\ low[f].kind = "catch/3"
  <2>1. h \in DOMAIN low
    BY <1>2, CatcherTargets
  <2>2. QED
    BY <1>2, <1>3, <2>1 DEF LowerPart, SameFrame, Caught1
<1>5. LocalFrames(low)
  BY <1>3, LocalKept DEF OlderThan, LowerPart, SameFrame
<1>6. ~low[f].isLocal
  BY <1>3, <1>4, <1>5 DEF LocalFrames
<1>7. /\ DOMAIN gs = DOMAIN low
      /\ \A e \in DOMAIN low : gs[e].parent = low[e].parent /\ SameOwner(gs[e], low[e])
  BY <1>2 DEF Caught1, SameOwner
<1>8. LocalFrames(gs)
  <2>1. \A e \in DOMAIN gs : gs[e].isLocal => e # f /\ gs[e] = low[e]
    BY <1>2, <1>6, <1>7 DEF Caught1, SameOwner
  <2>2. QED
    BY <1>5, <1>7, <2>1 DEF LocalFrames
<1>9. /\ Grounded(low) /\ \A d \in ds : d.fr \in DOMAIN low
  BY <1>1, <1>3, StackGrounded, StackNumbers DEF Numbers
<1>10. Grounded(gs)
  BY <1>7, <1>9 DEF Grounded, Rooted
<1>11. PICK A, B : A = Live(low, ds, f) /\ B = Live(gs, ds, h)
  OBVIOUS
<1>12. \A e : e \in A <=> e = f \/ e \in B
  <2>1. \A e \in DOMAIN low : AncestorsIn(gs, e) = AncestorsIn(low, e)
    BY <1>7, <1>9, <1>10, AncestorsKept
  <2>2. AncestorsIn(low, f) = {f} \cup AncestorsIn(low, h)
    BY <1>3, <1>4, <1>9, Ancestry
  <2>3. \A e : e \in A <=> e \in AncestorsIn(low, f) \/ \E d \in ds : e \in AncestorsIn(low, d.fr)
    BY <1>11, LiveFrames
  <2>4. \A e : e \in B <=> e \in AncestorsIn(gs, h) \/ \E d \in ds : e \in AncestorsIn(gs, d.fr)
    BY <1>11, LiveFrames
  <2>5. AncestorsIn(gs, h) = AncestorsIn(low, h) /\ \A d \in ds : AncestorsIn(gs, d.fr) = AncestorsIn(low, d.fr)
    BY <1>4, <1>9, <2>1
  <2>6. QED
    BY <2>2, <2>3, <2>4, <2>5
<1>13. A \subseteq DOMAIN low
  BY <1>3, <1>9, <1>11, LiveAreFrames
<1>14. own \ OwnedBy(low, {}) = own
  BY DEF OwnedBy
<1>15. Owners(low, A, own) => Owners(gs, B, own)
  BY <1>7, <1>12, <1>13 DEF Owners, SameOwner
<1>16. NoOrphans(low, A, own) => NoOrphans(gs, B, own)
  <2>1. \A e \in A : low[e].isLocal /\ e \notin {} => e \in B /\ SameOwner(gs[e], low[e])
    BY <1>6, <1>7, <1>12, <1>13
  <2>2. NoOrphans(low, A, own) => NoOrphans(gs, B, own \ OwnedBy(low, {}))
    BY <2>1, OrphansPass
  <2>3. QED
    BY <1>14, <2>2
<1>17. QED
  BY <1>1, <1>8, <1>11, <1>15, <1>16

(***************************************************************************)
(* What a catcher returns to: the sizes, the heap and the trail            *)
(***************************************************************************)
\* The stack ends above the frame of the catcher.
LEMMA CatcherEnds ==
  ASSUME NEW f, NEW n, NEW low, NEW t, ReturnsTo(f, n, low, t)
  PROVE  /\ AfterFrame(f) \in Nat /\ f < AfterFrame(f) /\ EndOf(low, f) = AfterFrame(f)
         /\ \A e \in DOMAIN low : low[e].slotCount = frames[e].slotCount
<1>1. f \in DOMAIN low /\ DOMAIN low = {e \in DOMAIN frames : e < cps[n].at}
  BY CatcherLeaves
<1>2. FramesIn(frames) /\ f \in DOMAIN frames
  BY <1>1 DEF ReturnsTo, Returning, Stacked
<1>3. f \in Nat /\ frames[f].slotCount \in Nat
  BY <1>2, BoundsAssumption DEF FramesIn, FrameType
<1>4. \A e \in DOMAIN frames : Disowned(frames, Abandoned(n))[e].slotCount = frames[e].slotCount
  BY <1>2, DisownedSlots
<1>5. \A e \in DOMAIN low : low[e] = Disowned(frames, Abandoned(n))[e] /\ e \in DOMAIN frames
  <2>1. low = Below(cps[n].at, Disowned(frames, Abandoned(n)))
    BY DEF ReturnsTo, StackAt
  <2>2. QED
    BY <2>1 DEF Below, Disowned
<1>6. \A e \in DOMAIN low : low[e].slotCount = frames[e].slotCount
  BY <1>4, <1>5
<1>7. QED
  BY <1>1, <1>3, <1>6 DEF AfterFrame, EndOf

\* What is left of the stack ends above the frame of the catcher.
LEMMA CatcherSized ==
  ASSUME NEW f, NEW n, NEW low, NEW t, NEW gs, Takes(f, n, low, t, gs),
         NEW top \in Nat, Sized(frames, ElementsOf(cps), top)
  PROVE  /\ Sized(low, ElementsOf(t), AfterFrame(f))
         /\ Sized(gs, ElementsOf(t), AfterFrame(f)) /\ Numbers(gs, ElementsOf(t))
<1>1. PICK cs, ds, at, new : /\ cs = ElementsOf(cps) /\ ds = ElementsOf(t)
                             /\ at = cps[n].at /\ new = AfterFrame(f)
  OBVIOUS
<1>2. ReturnsTo(f, n, low, t) /\ Caught1(low, gs, f)
  BY TakesMarks DEF Takes
<1>3. /\ at \in Nat /\ f \in DOMAIN low /\ f \in Nat
      /\ DOMAIN low = {e \in DOMAIN frames : e < at}
      /\ \A d : d \in ds <=> d \in cs /\ d.at < at
      /\ \A e \in DOMAIN low : e \in Nat /\ e <= f
      /\ \A d \in ds : d.at \in Nat /\ d.at < f
      /\ cps[n] \in cs
  BY <1>1, <1>2, CatcherLeaves
<1>4. Stacked(frames, cps)
  BY <1>2 DEF ReturnsTo, Returning
<1>5. Numbers(frames, cs) /\ Sized(frames, cs, top)
  BY <1>1, <1>4, StackNumbers
<1>6. Boundary(frames, cs, at)
  BY <1>1, <1>3, <1>5 DEF Boundary, Sized
<1>7. \A e \in DOMAIN low : low[e].slotCount = frames[e].slotCount
  BY <1>2, CatcherEnds
<1>8. Sized(low, ds, at) /\ Numbers(low, ds)
  <2>1. ds \in SUBSET cs /\ \A d \in ds : d.at < at
    BY <1>3
  <2>2. QED
    BY <1>3, <1>5, <1>6, <1>7, <2>1, SizedCutOff
<1>9. new \in Nat /\ f < new /\ EndOf(low, f) = new
  BY <1>1, <1>2, CatcherEnds
<1>10. Boundary(low, ds, new)
  BY <1>3, <1>8, <1>9, FrameBoundary
<1>11. DOMAIN low = {e \in DOMAIN low : e < new} /\ \A d \in ds : d.at < new
  BY <1>3, <1>9
<1>12. ds \in SUBSET ds
  OBVIOUS
<1>13. Sized(low, ds, new) /\ Numbers(low, ds)
  <2>1. \A e \in DOMAIN low : low[e].slotCount = low[e].slotCount
    OBVIOUS
  <2>2. QED
    BY <1>3, <1>8, <1>10, <1>11, <1>12, <2>1, SizedCutOff
<1>14. DOMAIN gs = DOMAIN low /\ \A e \in DOMAIN low : gs[e].slotCount = low[e].slotCount
  BY <1>2 DEF Caught1
<1>15. Sized(gs, ds, new) /\ Numbers(gs, ds)
  BY <1>9, <1>12, <1>13, <1>14, SizedSame
<1>16. QED
  BY <1>1, <1>13, <1>15

\* The heap and the trail to which a catcher returns are no longer than its choicepoint says.
LEMMA CatcherData ==
  ASSUME MemoryOK, MarksOrdered, NEW n \in DOMAIN cps
  PROVE  /\ HeapAt(n) \in Seq(1..HeapSize \cup Atoms) /\ Len(HeapAt(n)) = cps[n].h
         /\ SubSeq(trail, 1, cps[n].tr) \in Seq(1..HeapSize)
         /\ Len(SubSeq(trail, 1, cps[n].tr)) = cps[n].tr
         /\ cps[n].h \in Nat /\ cps[n].h <= HeapSize /\ cps[n].tr \in Nat
<1>1. PICK h, k : h = cps[n].h /\ k = cps[n].tr
  OBVIOUS
<1>2. h \in 0..Len(heap) /\ k \in 0..Len(trail)
  BY <1>1 DEF MarksOrdered
<1>3. /\ h <= HeapSize /\ SubSeq(trail, 1, k) \in Seq(1..HeapSize) /\ Len(SubSeq(trail, 1, k)) = k
  BY <1>2, UndoneMemory
<1>4. Len(heap) \in Nat /\ Len(trail) \in Nat /\ HeapSize \in Nat
  BY LenProperties, BoundsAssumption DEF MemoryOK
<1>5. \A cell \in 1..h : (IF cell \in Unwound(n) THEN cell ELSE heap[cell]) \in 1..HeapSize \cup Atoms
  BY <1>2, <1>3, <1>4, ElementOfSeq DEF MemoryOK
<1>6. HeapAt(n) \in [1..h -> 1..HeapSize \cup Atoms]
  BY <1>1, <1>5 DEF HeapAt
<1>7. h \in Nat /\ k \in Nat
  BY <1>2, <1>4
<1>8. HeapAt(n) \in Seq(1..HeapSize \cup Atoms) /\ Len(HeapAt(n)) = h
  BY <1>6, <1>7
<1>9. QED
  BY <1>1, <1>3, <1>7, <1>8

\* A unification keeps the length of the heap, and the trail.
LEMMA UnifyKeeps ==
  ASSUME NEW h \in Seq(1..HeapSize \cup Atoms), Len(h) <= HeapSize, NEW k \in Seq(1..HeapSize), Unify(h, k)
  PROVE  /\ MemoryOK' /\ Len(heap') = Len(h) /\ Len(k) <= Len(trail')
<1>1. /\ Len(h) \in Nat /\ Len(k) \in Nat /\ HeapSize \in Nat /\ DOMAIN h = 1..Len(h)
      /\ \A c \in 1..Len(h) : h[c] \in 1..HeapSize \cup Atoms
  BY BoundsAssumption, LenProperties, ElementOfSeq
<1>2. CASE heap' = h /\ trail' = k
  BY <1>1, <1>2 DEF MemoryOK
<1>3. CASE BindSome(h, k)
  <2>1. PICK cell \in DOMAIN h, value \in Atoms \cup DOMAIN h : Bind(h, k, cell, value)
    BY <1>3 DEF BindSome
  <2>2. /\ heap' = [h EXCEPT ![cell] = value] /\ trail' = Append(k, cell)
        /\ cell \in 1..HeapSize /\ value \in 1..HeapSize \cup Atoms
    BY <1>1, <2>1 DEF Bind
  <2>3. /\ Len(heap') = Len(h) /\ heap' \in Seq(1..HeapSize \cup Atoms)
    BY <1>1, <2>2, ExceptSeq
  <2>4. trail' \in Seq(1..HeapSize) /\ Len(trail') = Len(k) + 1
    BY <2>2, AppendProperties
  <2>5. QED
    BY <1>1, <2>3, <2>4 DEF MemoryOK
<1>4. QED
  BY <1>2, <1>3 DEF Unify

\* The marks of the older choicepoints stay within what is left.
LEMMA CatcherMarks ==
  ASSUME MemoryOK, MarksOrdered, NEW n \in DOMAIN cps, cps' = ChoicesAt(n), MemoryOK',
         Len(heap') = cps[n].h, cps[n].tr <= Len(trail')
  PROVE  MarksOrdered'
<1>1. /\ Len(heap) \in Nat /\ Len(trail) \in Nat /\ Len(trail') \in Nat
      /\ Len(cps) \in Nat /\ DOMAIN cps = 1..Len(cps) /\ cps \in Seq(Choices)
  BY LenProperties DEF MemoryOK, MarksOrdered
<1>2. n - 1 \in 0..Len(cps) /\ cps' = SubSeq(cps, 1, n - 1)
  BY <1>1 DEF ChoicesAt
<1>3. /\ cps' \in Seq(Choices)' /\ DOMAIN cps' = 1..n - 1
      /\ \A i \in 1..n - 1 : i \in DOMAIN cps /\ cps'[i] = cps[i]
  BY <1>1, <1>2, AfterDrop
<1>4. QED
  BY <1>1, <1>3 DEF MarksOrdered

(***************************************************************************)
(* The ball is caught, or not                                              *)
(***************************************************************************)
\* While a ball is on its way
OnItsWay ==
  /\ MemoryOK /\ MarksOrdered
  /\ owned \subseteq 1..MaxLocals /\ LocalFrames(frames)
  /\ Thrown(frames, cps, FR)

\* A catcher that is found can be returned to.
LEMMA FoundReturns ==
  ASSUME OnItsWay, NEW f \in Catchers, NEW n, n = ChoiceOf(f)
  PROVE  n \in DOMAIN cps /\ ReturnsTo(f, n, StackAt(n), ChoicesAt(n))
<1>1. Stacked(frames, cps) /\ FR \in DOMAIN frames /\ Catchable(frames, cps, FR)
  BY DEF OnItsWay, Thrown, Standing
<1>2. Returning(f, n)
  BY <1>1, CatcherReturns
<1>3. QED
  BY <1>2 DEF ReturnsTo, Returning

\* The clauses own are those in use, and that of FR if the call of an unknown procedure has
\* freed it: FR is not needed any more then, because no choicepoint lies above it.
Released(own) ==
  \/ own = owned
  \/ /\ frames[FR].isLocal /\ own = owned \cup {frames[FR].clause}
     /\ \A c \in ElementsOf(cps) : c.at <= FR

\* Every catcher gives up the clause of FR as well.
LEMMA ReleasedAnyway ==
  ASSUME OnItsWay, NEW own, Released(own), NEW f \in Catchers, NEW n, n = ChoiceOf(f)
  PROVE  own \ ClausesOf(Abandoned(n)) = OwnedAt(n)
<1>1. n \in DOMAIN cps
  BY FoundReturns
<1>2. Stacked(frames, cps) /\ FR \in DOMAIN frames
  BY DEF OnItsWay, Thrown, Standing
<1>3. CASE own = owned
  BY <1>3 DEF OwnedAt
<1>4. CASE /\ frames[FR].isLocal /\ own = owned \cup {frames[FR].clause}
           /\ \A c \in ElementsOf(cps) : c.at <= FR
  <2>1. Len(cps) \in n..Len(cps) /\ Len(cps) \in DOMAIN cps /\ n \in Nat
    BY <1>1, <1>2 DEF Stacked
  <2>2. cps[Len(cps)].fr < cps[Len(cps)].at /\ cps[Len(cps)].at <= FR
    BY <1>2, <1>4, <2>1 DEF Stacked, StackOK, ChoiceOK, ElementsOf
  <2>3. cps[Len(cps)].fr \in Nat /\ cps[Len(cps)].at \in Nat /\ FR \in Nat
    <3>1. cps[Len(cps)] \in ChoiceType
      BY <1>2, <2>1 DEF Stacked
    <3>2. FR \in Nat
      BY <1>2 DEF Stacked, FramesIn
    <3>3. QED
      BY <3>1, <3>2 DEF ChoiceType
  <2>4. FR > cps[Len(cps)].fr
    BY <2>2, <2>3
  <2>5. FR \in Ancestors(FR)
    <3>1. FR \in AncestorsIn(frames, FR)
      BY <1>2, StackGrounded, Ancestry
    <3>2. QED
      BY <3>1 DEF AncestorsIn, Ancestors
  <2>6. FR \in Abandoned(n)
    BY <1>4, <2>1, <2>4, <2>5 DEF Abandoned
  <2>7. frames[FR].clause \in ClausesOf(Abandoned(n))
    BY <1>4, <2>6 DEF ClausesOf
  <2>8. QED
    BY <1>4, <2>7 DEF OwnedAt
<1>5. QED
  BY <1>3, <1>4 DEF Released

\* The handler of a catch/3 is called where the catch/3 was.
LEMMA CaughtGoesOn ==
  ASSUME OnItsWay, Caught, NEW own, Released(own)
  PROVE  /\ Sound(frames', cps', FR', pos', SP') /\ LocalFrames(frames')
         /\ owned' \subseteq 1..MaxLocals
         /\ Owners(frames, Live(frames, ElementsOf(cps), FR), own)
              => Owners(frames', Live(frames', ElementsOf(cps'), FR'), owned')
         /\ NoOrphans(frames, Live(frames, ElementsOf(cps), FR), owned)
              => NoOrphans(frames', Live(frames', ElementsOf(cps'), FR'), owned')
         /\ (\E top \in Nat : Sized(frames, ElementsOf(cps), top)) => SizesStay
         /\ MemoryOK' /\ MarksOrdered'
<1>1. PICK f \in Catchers :
        LET n == ChoiceOf(f)
        IN  /\ cps' = ChoicesAt(n)
            /\ Unify(HeapAt(n), SubSeq(trail, 1, cps[n].tr))
            /\ UserCall(frames[f].parent, AfterFrame(f), [StackAt(n) EXCEPT ![f].kind = "caught"],
                        cps', OwnedAt(n), frames[f].ret)
  BY DEF Caught
<1>2. PICK n, low, t, gs, h, r, new, kept :
        /\ n = ChoiceOf(f) /\ low = StackAt(n) /\ t = ChoicesAt(n)
        /\ gs = [low EXCEPT ![f].kind = "caught"]
        /\ h = frames[f].parent /\ r = frames[f].ret /\ new = AfterFrame(f) /\ kept = OwnedAt(n)
  OBVIOUS
<1>3. n \in DOMAIN cps /\ ReturnsTo(f, n, low, t)
  BY <1>2, FoundReturns
<1>4. Takes(f, n, low, t, gs)
  BY <1>2, <1>3 DEF Takes
<1>5. cps' = t /\ UserCall(h, new, gs, t, kept, r)
  BY <1>1, <1>2
<1>6. new \in Nat /\ f < new
  BY <1>2, <1>3, CatcherEnds
<1>7. Thrown(frames, cps, FR) /\ LocalFrames(frames) /\ owned \subseteq 1..MaxLocals
  BY DEF OnItsWay
<1>8. Sound(gs, t, h, r, new) /\ r.phase \in {"body", "exitcatch", "query"}
  BY <1>2, <1>4, <1>6, <1>7, TakesSound, TakesRuns
<1>9. kept \in SUBSET (1..MaxLocals)
  BY <1>2, <1>7 DEF OwnedAt
<1>10. /\ Sound(frames', t, FR', pos', SP')
       /\ Owners(gs, Live(gs, ElementsOf(t), h), kept)
            => Owners(frames', Live(frames', ElementsOf(t), FR'), owned')
       /\ NoOrphans(gs, Live(gs, ElementsOf(t), h), kept)
            => NoOrphans(frames', Live(frames', ElementsOf(t), FR'), owned')
  BY <1>5, <1>8, <1>9, UserCallStage
<1>11. /\ LocalFrames(gs)
       /\ Owners(low, Live(low, ElementsOf(t), f), kept) => Owners(gs, Live(gs, ElementsOf(t), h), kept)
       /\ NoOrphans(low, Live(low, ElementsOf(t), f), kept) => NoOrphans(gs, Live(gs, ElementsOf(t), h), kept)
  BY <1>2, <1>4, <1>7, TakesOwners
<1>12. /\ Owners(frames, Live(frames, ElementsOf(cps), FR), own) => Owners(low, Live(low, ElementsOf(t), f), kept)
       /\ NoOrphans(frames, Live(frames, ElementsOf(cps), FR), owned)
            => NoOrphans(low, Live(low, ElementsOf(t), f), kept)
  <2>1. PICK top : Standing(frames, cps, FR, top)
    BY <1>7 DEF Thrown
  <2>2. \A x : /\ Owners(frames, Live(frames, ElementsOf(cps), FR), x)
                   => Owners(low, Live(low, ElementsOf(t), f), x \ ClausesOf(Abandoned(n)))
               /\ NoOrphans(frames, Live(frames, ElementsOf(cps), FR), x)
                   => NoOrphans(low, Live(low, ElementsOf(t), f), x \ ClausesOf(Abandoned(n)))
    BY <1>3, <2>1, CatcherOwns
  <2>3. own \ ClausesOf(Abandoned(n)) = kept /\ owned \ ClausesOf(Abandoned(n)) = kept
    BY <1>2, ReleasedAnyway DEF OwnedAt
  <2>4. QED
    BY <2>2, <2>3
<1>13. LocalFrames(frames')
  BY <1>5, <1>11, LocalCalled
<1>14. owned' \subseteq 1..MaxLocals
  BY <1>5, <1>9 DEF UserCall
<1>15. ASSUME NEW top \in Nat, Sized(frames, ElementsOf(cps), top)
       PROVE  SizesStay
  <2>1. Sized(gs, ElementsOf(t), new) /\ Numbers(gs, ElementsOf(t))
    BY <1>2, <1>4, <1>15, CatcherSized
  <2>2. Sized(frames', ElementsOf(t), SP')
    BY <1>5, <1>6, <2>1, UserCallSized
  <2>3. QED
    BY <1>5, <2>2 DEF SizesStay
<1>16. MemoryOK' /\ MarksOrdered'
  <2>1. MemoryOK /\ MarksOrdered
    BY DEF OnItsWay
  <2>2. PICK hp, tr : hp = HeapAt(n) /\ tr = SubSeq(trail, 1, cps[n].tr)
    OBVIOUS
  <2>3. /\ hp \in Seq(1..HeapSize \cup Atoms) /\ Len(hp) = cps[n].h
        /\ tr \in Seq(1..HeapSize) /\ Len(tr) = cps[n].tr
        /\ cps[n].h \in Nat /\ cps[n].h <= HeapSize /\ cps[n].tr \in Nat
    BY <1>3, <2>1, <2>2, CatcherData
  <2>4. Unify(hp, tr)
    BY <1>1, <1>2, <2>2
  <2>5. MemoryOK' /\ Len(heap') = Len(hp) /\ Len(tr) <= Len(trail')
    BY <2>3, <2>4, UnifyKeeps
  <2>6. cps' = ChoicesAt(n)
    BY <1>2, <1>5
  <2>7. QED
    BY <1>3, <2>1, <2>3, <2>5, <2>6, CatcherMarks
<1>17. QED
  BY <1>5, <1>10, <1>11, <1>12, <1>13, <1>14, <1>15, <1>16

\* Without a current frame, what the choicepoints need can still run.
LEMMA LiveWithoutFrame ==
  ASSUME NEW fs, NEW s, Stacked(fs, s), NEW g
  PROVE  Live(fs, ElementsOf(s), Null) \subseteq Live(fs, ElementsOf(s), g)
<1>1. Grounded(fs) /\ Null \notin DOMAIN fs
  BY StackGrounded DEF Stacked, FramesIn, Null
<1>2. Null \in 0..StackSize
  BY BoundsAssumption DEF Null
<1>3. AncestorsIn(fs, Null) = {}
  BY <1>1, <1>2, AncestorsStep DEF Grounded
<1>4. QED
  BY <1>3, LiveFrames

\* A clause that has been freed already is not needed then.
LEMMA ReleasedWithoutFrame ==
  ASSUME OnItsWay, NEW own, Released(own), Owners(frames, Live(frames, ElementsOf(cps), FR), own)
  PROVE  Owners(frames, Live(frames, ElementsOf(cps), Null), owned)
<1>1. Stacked(frames, cps) /\ FR \in DOMAIN frames
  BY DEF OnItsWay, Thrown, Standing
<1>2. Live(frames, ElementsOf(cps), Null) \subseteq Live(frames, ElementsOf(cps), FR)
  BY <1>1, LiveWithoutFrame
<1>3. Owners(frames, Live(frames, ElementsOf(cps), Null), own)
  BY <1>2 DEF Owners
<1>4. CASE own = owned
  BY <1>3, <1>4
<1>5. CASE /\ frames[FR].isLocal /\ own = owned \cup {frames[FR].clause}
           /\ \A c \in ElementsOf(cps) : c.at <= FR
  <2>1. Grounded(frames) /\ FR \in Nat
    BY <1>1, StackGrounded DEF Stacked, FramesIn
  <2>2. FR \in Live(frames, ElementsOf(cps), FR)
    BY <1>1, <2>1, Ancestry, LiveFrames
  <2>3. ASSUME NEW e \in Live(frames, ElementsOf(cps), Null)
        PROVE  e # FR
    <3>1. Null \notin DOMAIN frames /\ Null \in 0..StackSize
      BY <1>1, BoundsAssumption DEF Stacked, FramesIn, Null
    <3>2. AncestorsIn(frames, Null) = {}
      BY <2>1, <3>1, AncestorsStep DEF Grounded
    <3>3. PICK c \in ElementsOf(cps) : e \in AncestorsIn(frames, c.fr)
      BY <2>3, <3>2, LiveFrames
    <3>4. c.fr \in DOMAIN frames /\ c.fr < c.at /\ c.at <= FR /\ c.at \in Nat
      BY <1>1, <1>5, <3>3, ChoicesAreTyped DEF Stacked, StackOK, ChoiceOK, ChoicesTyped
    <3>5. e \in Nat /\ e <= c.fr /\ c.fr \in Nat
      BY <2>1, <3>3, <3>4, Ancestry
    <3>6. QED
      BY <2>1, <3>4, <3>5
  <2>4. ASSUME NEW e \in Live(frames, ElementsOf(cps), Null), frames[e].clause # Null
        PROVE  frames[e].isLocal /\ frames[e].clause \in owned
    <3>1. frames[e].isLocal /\ frames[e].clause \in own
      BY <1>3, <2>4 DEF Owners
    <3>2. frames[e].clause # frames[FR].clause
      BY <1>2, <1>5, <2>2, <2>3, <2>4, <3>1 DEF Owners
    <3>3. QED
      BY <1>5, <3>1, <3>2
  <2>5. QED
    BY <1>3, <2>4 DEF Owners
<1>6. QED
  BY <1>4, <1>5 DEF Released

\* A query that ends with an error leaves a stack that is well formed.
LEMMA UncaughtEnds ==
  ASSUME OnItsWay, SP \in Nat, pos \in Pos, Uncaught, NEW own, Released(own)
  PROVE  /\ FR' = Null /\ SP' \in Nat /\ pos' \in Pos /\ owned' \subseteq 1..MaxLocals
         /\ Stacked(frames', cps') /\ Tidy(frames', ElementsOf(cps')) /\ LocalFrames(frames')
         /\ Owners(frames, Live(frames, ElementsOf(cps), FR), own)
              => Owners(frames', Live(frames', ElementsOf(cps'), FR'), owned')
         /\ (\E top \in Nat : Sized(frames, ElementsOf(cps), top))
              => \E top \in Nat : Sized(frames', ElementsOf(cps'), top)
         /\ MemoryOK' /\ MarksOrdered'
<1>1. FR' = Null
  BY DEF Uncaught
<1>2. /\ MemoryOK /\ MarksOrdered /\ owned \subseteq 1..MaxLocals /\ LocalFrames(frames)
      /\ Stacked(frames, cps) /\ Tidy(frames, ElementsOf(cps)) /\ Thrown(frames, cps, FR)
  BY DEF OnItsWay, Thrown, Standing
<1>3. CASE UNCHANGED <<SP, frames, cps, pos, heap, trail, owned>>
  <2>1. Owners(frames, Live(frames, ElementsOf(cps), FR), own)
          => Owners(frames, Live(frames, ElementsOf(cps), Null), owned)
    BY ReleasedWithoutFrame
  <2>2. MemoryOK' /\ MarksOrdered'
    BY <1>2, <1>3 DEF MemoryOK, MarksOrdered, Choices
  <2>3. QED
    BY <1>1, <1>2, <1>3, <2>1, <2>2
<1>4. ASSUME NEW f \in Catchers, NEW n, n = ChoiceOf(f),
             SP' = AfterFrame(f), pos' = NoPC, frames' = StackAt(n), cps' = ChoicesAt(n),
             heap' = HeapAt(n), trail' = SubSeq(trail, 1, cps[n].tr), owned' = OwnedAt(n)
      PROVE  /\ SP' \in Nat /\ pos' \in Pos /\ owned' \subseteq 1..MaxLocals
             /\ Stacked(frames', cps') /\ Tidy(frames', ElementsOf(cps')) /\ LocalFrames(frames')
             /\ Owners(frames, Live(frames, ElementsOf(cps), FR), own)
                  => Owners(frames', Live(frames', ElementsOf(cps'), FR'), owned')
             /\ (\E top \in Nat : Sized(frames, ElementsOf(cps), top))
                  => \E top \in Nat : Sized(frames', ElementsOf(cps'), top)
             /\ MemoryOK' /\ MarksOrdered'
  <2>1. PICK low, t, new, kept : low = StackAt(n) /\ t = ChoicesAt(n) /\ new = AfterFrame(f) /\ kept = OwnedAt(n)
    OBVIOUS
  <2>2. n \in DOMAIN cps /\ ReturnsTo(f, n, low, t)
    BY <1>4, <2>1, FoundReturns
  <2>3. frames' = low /\ cps' = t /\ SP' = new /\ owned' = kept
    BY <1>4, <2>1
  <2>4. new \in Nat /\ NoPC \in Pos /\ kept \subseteq 1..MaxLocals
    BY <1>2, <2>1, <2>2, CatcherEnds, PlacesAreTyped DEF OwnedAt
  <2>5. Stacked(low, t) /\ OlderThan(low, cps[n].at, Abandoned(n))
    BY <2>2, CatcherLeaves
  <2>6. /\ Tidy(low, ElementsOf(t))
        /\ Owners(frames, Live(frames, ElementsOf(cps), FR), own) => Owners(low, Live(low, ElementsOf(t), f), kept)
    <3>1. own \ ClausesOf(Abandoned(n)) = kept
      BY <1>4, <2>1, ReleasedAnyway
    <3>2. QED
      BY <1>2, <2>2, <3>1, CatcherOwns DEF Thrown
  <2>7. LocalFrames(low)
    BY <1>2, <2>5, LocalKept DEF OlderThan, LowerPart, SameFrame
  <2>8. Owners(low, Live(low, ElementsOf(t), f), kept) => Owners(low, Live(low, ElementsOf(t), Null), kept)
    <3>1. Live(low, ElementsOf(t), Null) \subseteq Live(low, ElementsOf(t), f)
      BY <2>5, LiveWithoutFrame
    <3>2. QED
      BY <3>1 DEF Owners
  <2>9. ASSUME NEW top \in Nat, Sized(frames, ElementsOf(cps), top)
        PROVE  Sized(low, ElementsOf(t), new)
    <3>1. PICK gs : gs = [low EXCEPT ![f].kind = "caught"]
      OBVIOUS
    <3>2. Takes(f, n, low, t, gs)
      BY <2>2, <3>1 DEF Takes
    <3>3. QED
      BY <2>1, <2>9, <3>2, CatcherSized
  <2>10. MemoryOK' /\ MarksOrdered'
    <3>1. /\ HeapAt(n) \in Seq(1..HeapSize \cup Atoms) /\ Len(HeapAt(n)) = cps[n].h
          /\ SubSeq(trail, 1, cps[n].tr) \in Seq(1..HeapSize)
          /\ Len(SubSeq(trail, 1, cps[n].tr)) = cps[n].tr
          /\ cps[n].h \in Nat /\ cps[n].h <= HeapSize /\ cps[n].tr \in Nat
      BY <1>2, <2>2, CatcherData
    <3>2. MemoryOK' /\ Len(heap') = cps[n].h /\ cps[n].tr <= Len(trail')
      BY <1>4, <3>1 DEF MemoryOK
    <3>3. QED
      BY <1>2, <1>4, <2>2, <3>2, CatcherMarks
  <2>11. QED
    BY <1>1, <1>4, <2>3, <2>4, <2>5, <2>6, <2>7, <2>8, <2>9, <2>10
<1>5. QED
  BY <1>1, <1>3, <1>4 DEF Uncaught
(***************************************************************************)
(* The invariant                                                           *)
(***************************************************************************)
\* Besides the types: execution can go on, or a ball can be caught, or the query has ended.
ThrowInv ==
  /\ MemoryOK /\ MarksOrdered
  /\ status \in Statuses \cup {"throw", "error"} /\ uses \in Programs
  /\ FR \in Nat /\ pos \in Pos /\ SP \in Nat /\ owned \subseteq 1..MaxLocals
  /\ Stacked(frames, cps) /\ Tidy(frames, ElementsOf(cps)) /\ LocalFrames(frames)
  /\ status \in Statuses \ {"fail"} => Sound(frames, cps, FR, pos, SP)
  /\ status = "throw" => Thrown(frames, cps, FR)
  /\ status = "error" => FR = Null

\* Without cleanup handlers and unknown procedures the clauses in use are there.
ThrowUse ==
  uses \cap {"cleanup", "unknown"} = {} => Owners(frames, Live(frames, ElementsOf(cps), FR), owned)

\* Only a query that ends with an error leaves clauses without an owner.
ThrowLeak == status # "error" => NoOrphans(frames, Live(frames, ElementsOf(cps), FR), owned)

\* What is on the stack ends below SP or, while there is an error, somewhere.
ThrowSizes ==
  /\ status \in Statuses => MemoryInv
  /\ status \in {"throw", "error"} => \E top \in Nat : Sized(frames, ElementsOf(cps), top)

\* What holds of the new values of the registers is the invariant of the next state.
LEMMA NextThrow ==
  ASSUME MemoryOK', MarksOrdered',
         status' \in Statuses \cup {"throw", "error"}, uses \in Programs, uses' = uses,
         FR' \in Nat, pos' \in Pos, SP' \in Nat, owned' \subseteq 1..MaxLocals,
         Stacked(frames', cps'), Tidy(frames', ElementsOf(cps')), LocalFrames(frames'),
         status' \in Statuses \ {"fail"} => Sound(frames', cps', FR', pos', SP'),
         status' = "throw" => Thrown(frames', cps', FR'),
         status' = "error" => FR' = Null
  PROVE  ThrowInv'
<1>1. FrameType' = FrameType
  BY DEF FrameType, Kinds
<1>2. FramesIn(frames') = FramesIn(frames)'
  BY <1>1 DEF FramesIn
<1>3. Stacked(frames', cps') = Stacked(frames, cps)'
  BY <1>2 DEF Stacked
<1>4. Ready(frames', cps', FR', pos', SP') = Ready(frames, cps, FR, pos, SP)'
  BY <1>3 DEF Ready
<1>5. Labelled(frames', ElementsOf(cps')) = Labelled(frames, ElementsOf(cps))'
  BY DEF Labelled
<1>6. Tidy(frames', ElementsOf(cps')) = Tidy(frames, ElementsOf(cps))'
  BY <1>5 DEF Tidy
<1>7. Sound(frames', cps', FR', pos', SP') = Sound(frames, cps, FR, pos, SP)'
  BY <1>4, <1>6 DEF Sound
<1>8. \A top : Standing(frames', cps', FR', top) = Standing(frames, cps, FR, top)'
  BY <1>3, <1>6 DEF Standing
<1>9. Thrown(frames', cps', FR') = Thrown(frames, cps, FR)'
  BY <1>8 DEF Thrown
<1>10. QED
  BY <1>3, <1>6, <1>7, <1>9 DEF ThrowInv, Statuses

\* While execution goes on, all that is known of a query that throws nothing holds.
LEMMA ThrowRuns ==
  ASSUME ThrowInv, status \in Statuses \ {"fail"}
  PROVE  CanOwn /\ CanRun /\ StackInv /\ LocalFrames(frames)
<1>1. Sound(frames, cps, FR, pos, SP)
  BY DEF ThrowInv
<1>2. CanRun
  BY <1>1 DEF ThrowInv, CanRun, Sound
<1>3. StackInv
  BY <1>1 DEF ThrowInv, StackInv, Sound
<1>4. QED
  BY <1>1, <1>2, <1>3 DEF CanOwn, ThrowInv

\* What every step does with the invariant, and with what holds of some programs only.
Survives ==
  /\ ThrowInv'
  /\ ThrowUse => ThrowUse'
  /\ ThrowSizes /\ ThrowLeak => ThrowLeak'
  /\ ThrowSizes => ThrowSizes'

\* The instructions that raise nothing.
LEMMA NextSurvives ==
  ASSUME ThrowInv, Next
  PROVE  Survives
<1>1. /\ status \in {"run", "choices"} /\ uses' = uses /\ status' \in Statuses
      /\ status \in Statuses \ {"fail"} /\ status' \notin {"throw", "error"}
  BY StepOfRunning DEF Statuses
<1>2. CanOwn /\ CanRun /\ StackInv /\ LocalFrames(frames)
  BY <1>1, ThrowRuns
<1>3. /\ Tidy(frames', ElementsOf(cps'))
      /\ status' # "fail" => Sound(frames', cps', FR', pos', SP')
      /\ "cleanup" \notin uses /\ Owners(frames, Live(frames, ElementsOf(cps), FR), owned)
           => Owners(frames', Live(frames', ElementsOf(cps'), FR'), owned')
      /\ SizeInv /\ NoOrphans(frames, Live(frames, ElementsOf(cps), FR), owned)
           => NoOrphans(frames', Live(frames', ElementsOf(cps'), FR'), owned')
  BY <1>2, StepOwned
<1>4. LocalFrames(frames')
  BY <1>2, LocalStep
<1>5. MemoryOK /\ MarksOrdered /\ uses \in Programs
  BY DEF ThrowInv
<1>6. MemoryOK' /\ MarksOrdered'
  BY <1>5, StepShape, MarksStep DEF MemoryOK, MarksOrdered
<1>7. /\ FR' \in Nat /\ pos' \in Pos /\ SP' \in Nat /\ owned' \subseteq 1..MaxLocals
      /\ Stacked(frames', cps')
  <2>1. StackInv'
    BY <1>2, <1>5, StackInvStep
  <2>2. FrameType' = FrameType
    BY <1>1 DEF FrameType, Kinds
  <2>3. FramesIn(frames') = FramesIn(frames)'
    BY <2>2 DEF FramesIn
  <2>4. Stacked(frames', cps') = Stacked(frames, cps)'
    BY <2>3 DEF Stacked
  <2>5. QED
    BY <2>1, <2>4 DEF StackInv
<1>8. ThrowInv'
  BY <1>1, <1>3, <1>4, <1>5, <1>6, <1>7, NextThrow
<1>9. ThrowUse => ThrowUse'
  BY <1>1, <1>3 DEF ThrowUse
<1>10. ASSUME ThrowSizes
       PROVE  MemoryInv /\ MemoryInv'
  <2>1. MemoryInv
    BY <1>1, <1>10 DEF ThrowSizes
  <2>2. QED
    BY <1>2, <1>5, <2>1, SizeStep
<1>11. ThrowSizes => ThrowSizes'
  BY <1>1, <1>10 DEF ThrowSizes, Statuses
<1>12. ASSUME ThrowSizes, ThrowLeak
       PROVE  ThrowLeak'
  <2>1. SizeInv /\ status # "error"
    BY <1>1, <1>10, <1>12 DEF MemoryInv
  <2>2. NoOrphans(frames', Live(frames', ElementsOf(cps'), FR'), owned')
    BY <1>3, <1>12, <2>1 DEF ThrowLeak
  <2>3. QED
    BY <2>2 DEF ThrowLeak
<1>13. QED
  BY <1>8, <1>9, <1>11, <1>12 DEF Survives

\* Raising changes the data only by the marks of a choicepoint.
LEMMA RaiseShape ==
  ASSUME Raise \/ RaiseNondet \/ RaiseCatch \/ RaiseDepart
  PROVE  DataStep /\ status = "run" /\ status' = "throw" /\ uses' = uses
<1>1. CASE Raise \/ RaiseDepart
  BY <1>1 DEF Raise, RaiseDepart, Running, DataStep, Grows, Keeps
<1>2. CASE RaiseNondet \/ RaiseCatch
  <2>1. PICK c : /\ \E pc : c = Alternative("Head", pc, Null)
                 /\ cps' = Append(cps, c) /\ UNCHANGED <<heap, trail, uses>>
                 /\ status = "run" /\ status' = "throw"
    BY <1>2 DEF RaiseNondet, RaiseCatch, Running
  <2>2. c.tr = Len(trail) /\ c.h = Len(heap) /\ c.snap = heap
    BY <2>1, ChoiceMarks
  <2>3. Pushes
    BY <2>1, <2>2 DEF Pushes
  <2>4. QED
    BY <2>1, <2>3 DEF DataStep, Grows
<1>3. QED
  BY <1>1, <1>2

\* The instructions that raise a ball.
LEMMA RaiseSurvives ==
  ASSUME ThrowInv, Raise \/ RaiseNondet \/ RaiseCatch \/ RaiseDepart
  PROVE  Survives
<1>1. /\ DataStep /\ status = "run" /\ status' = "throw" /\ uses' = uses
      /\ status \in Statuses \ {"fail"} /\ status' \notin Statuses
      /\ RaiseDepart => "unknown" \in uses
  BY RaiseShape DEF Statuses, RaiseDepart
<1>2. CanOwn /\ CanRun /\ LocalFrames(frames)
  BY <1>1, ThrowRuns
<1>3. Raised
  BY <1>2, RaiseThrows, RaiseNondetThrows, RaiseCatchThrows, RaiseDepartThrows
<1>4. MemoryOK /\ MarksOrdered /\ uses \in Programs
  BY DEF ThrowInv
<1>5. MemoryOK' /\ MarksOrdered'
  BY <1>1, <1>4, MarksStep
<1>6. /\ Thrown(frames', cps', FR') /\ LocalFrames(frames')
      /\ SP' \in Nat /\ pos' \in Pos /\ owned' \subseteq 1..MaxLocals
      /\ "unknown" \notin uses /\ Owners(frames, Live(frames, ElementsOf(cps), FR), owned)
           => Owners(frames', Live(frames', ElementsOf(cps'), FR'), owned')
      /\ NoOrphans(frames, Live(frames, ElementsOf(cps), FR), owned)
           => NoOrphans(frames', Live(frames', ElementsOf(cps'), FR'), owned')
      /\ SizeInv => \E top \in Nat : Sized(frames', ElementsOf(cps'), top)
  BY <1>1, <1>3 DEF Raised
<1>7. Stacked(frames', cps') /\ Tidy(frames', ElementsOf(cps')) /\ FR' \in DOMAIN frames'
  BY <1>6 DEF Thrown, Standing
<1>8. FR' \in Nat
  BY <1>7 DEF Stacked, FramesIn
<1>9. ThrowInv'
  BY <1>1, <1>4, <1>5, <1>6, <1>7, <1>8, NextThrow
<1>10. ThrowUse => ThrowUse'
  BY <1>1, <1>6 DEF ThrowUse
<1>11. ThrowLeak => ThrowLeak'
  BY <1>1, <1>6 DEF ThrowLeak
<1>12. ASSUME ThrowSizes
       PROVE  ThrowSizes'
  <2>1. PICK top \in Nat : Sized(frames', ElementsOf(cps'), top)
    BY <1>1, <1>6, <1>12 DEF ThrowSizes, MemoryInv
  <2>2. QED
    BY <1>1, <2>1 DEF ThrowSizes, Statuses
<1>13. QED
  BY <1>9, <1>10, <1>11, <1>12 DEF Survives

\* The ball is caught.
LEMMA CaughtSurvives ==
  ASSUME ThrowInv, Caught
  PROVE  Survives
<1>1. /\ status = "throw" /\ status' = "run" /\ uses' = uses
      /\ status' \in Statuses \ {"fail"} /\ status \notin Statuses
  BY DEF Caught, Statuses
<1>2. OnItsWay /\ uses \in Programs
  BY <1>1 DEF ThrowInv, OnItsWay
<1>3. /\ Sound(frames', cps', FR', pos', SP') /\ LocalFrames(frames')
      /\ owned' \subseteq 1..MaxLocals
      /\ Owners(frames, Live(frames, ElementsOf(cps), FR), owned)
           => Owners(frames', Live(frames', ElementsOf(cps'), FR'), owned')
      /\ NoOrphans(frames, Live(frames, ElementsOf(cps), FR), owned)
           => NoOrphans(frames', Live(frames', ElementsOf(cps'), FR'), owned')
      /\ (\E top \in Nat : Sized(frames, ElementsOf(cps), top)) => SizesStay
      /\ MemoryOK' /\ MarksOrdered'
  BY <1>2, CaughtGoesOn DEF Released
<1>4. /\ FR' \in Nat /\ pos' \in Pos /\ SP' \in Nat /\ FR' \in DOMAIN frames'
      /\ Stacked(frames', cps') /\ Tidy(frames', ElementsOf(cps'))
  BY <1>3 DEF Sound, Ready, RunsAt, Place
<1>5. ThrowInv'
  BY <1>1, <1>2, <1>3, <1>4, NextThrow
<1>6. ThrowUse => ThrowUse'
  BY <1>1, <1>3 DEF ThrowUse
<1>7. ThrowLeak => ThrowLeak'
  BY <1>1, <1>3 DEF ThrowLeak
<1>8. ASSUME ThrowSizes
      PROVE  ThrowSizes'
  <2>1. SizesStay
    BY <1>1, <1>3, <1>8 DEF ThrowSizes
  <2>2. SizeInv'
    BY <2>1 DEF SizesStay, SizeInv, Sized, EndOf, Restores, OnTop, ElementsOf
  <2>3. QED
    BY <1>1, <1>4, <2>2 DEF ThrowSizes, MemoryInv
<1>9. QED
  BY <1>5, <1>6, <1>7, <1>8 DEF Survives

\* The query ends with an error.
LEMMA UncaughtSurvives ==
  ASSUME ThrowInv, Uncaught
  PROVE  Survives
<1>1. /\ status = "throw" /\ status' = "error" /\ uses' = uses
      /\ status' \notin Statuses /\ status \notin Statuses
  BY DEF Uncaught, Statuses
<1>2. OnItsWay /\ uses \in Programs /\ SP \in Nat /\ pos \in Pos
  BY <1>1 DEF ThrowInv, OnItsWay
<1>3. /\ FR' = Null /\ SP' \in Nat /\ pos' \in Pos /\ owned' \subseteq 1..MaxLocals
      /\ Stacked(frames', cps') /\ Tidy(frames', ElementsOf(cps')) /\ LocalFrames(frames')
      /\ Owners(frames, Live(frames, ElementsOf(cps), FR), owned)
           => Owners(frames', Live(frames', ElementsOf(cps'), FR'), owned')
      /\ (\E top \in Nat : Sized(frames, ElementsOf(cps), top))
           => \E top \in Nat : Sized(frames', ElementsOf(cps'), top)
      /\ MemoryOK' /\ MarksOrdered'
  BY <1>2, UncaughtEnds DEF Released
<1>4. FR' \in Nat
  BY <1>3, PlacesAreTyped
<1>5. ThrowInv'
  BY <1>1, <1>2, <1>3, <1>4, NextThrow
<1>6. ThrowUse => ThrowUse'
  BY <1>1, <1>3 DEF ThrowUse
<1>7. ThrowLeak'
  BY <1>1 DEF ThrowLeak
<1>8. ASSUME ThrowSizes
      PROVE  ThrowSizes'
  <2>1. PICK top \in Nat : Sized(frames', ElementsOf(cps'), top)
    BY <1>1, <1>3, <1>8 DEF ThrowSizes
  <2>2. QED
    BY <1>1, <2>1 DEF ThrowSizes, Statuses
<1>9. QED
  BY <1>5, <1>6, <1>7, <1>8 DEF Survives

\* Every step.
LEMMA ThrowStep ==
  ASSUME ThrowInv, [Next \/ Throw]_vars
  PROVE  Survives
<1>1. CASE UNCHANGED vars
  <2>1. UNCHANGED <<status, FR, SP, frames, cps, pos, heap, trail, owned, uses>>
    BY <1>1 DEF vars
  <2>2. MemoryOK' /\ MarksOrdered'
    BY <2>1 DEF ThrowInv, MemoryOK, MarksOrdered, Choices
  <2>3. ThrowInv'
    BY <2>1, <2>2, NextThrow DEF ThrowInv
  <2>4. ThrowUse => ThrowUse'
    BY <2>1 DEF ThrowUse
  <2>5. ThrowLeak => ThrowLeak'
    BY <2>1 DEF ThrowLeak
  <2>6. ThrowSizes => ThrowSizes'
    BY <2>1 DEF ThrowSizes, MemoryInv, SizeInv, Statuses
  <2>7. QED
    BY <2>3, <2>4, <2>5, <2>6 DEF Survives
<1>2. CASE Next
  BY <1>2, NextSurvives
<1>3. CASE Throw
  BY <1>3, RaiseSurvives, CaughtSurvives, UncaughtSurvives DEF Throw
<1>4. QED
  BY <1>1, <1>2, <1>3

\* A query starts without a ball.
LEMMA InitThrow ==
  ASSUME Init
  PROVE  ThrowInv /\ ThrowUse /\ ThrowLeak /\ (QueryReserved = 0 => ThrowSizes)
<1>1. TrailInv /\ StackInv /\ UseInv /\ LeakInv /\ (QueryReserved = 0 => MemoryInv)
  BY InitTrailInv, InitStackInv, InitUse, InitMemoryInv
<1>2. status = "run" /\ uses \in Programs
  BY DEF Init
<1>3. /\ DOMAIN frames = {1, 2}
      /\ frames[1] = HostFrame(<<>>) /\ frames[2] = GoalFrame(<<>>, 1, 1)
  BY DEF Init
<1>4. LocalFrames(frames)
  <2>1. ~frames[1].isLocal
    <3>1. HostFrame(<<>>) = Frame("query", Null, Top(<<>>), Null, 0, NoPC)
      BY DEF HostFrame
    <3>2. ASSUME NEW b, NEW kind, NEW h, NEW target, NEW k, NEW n, NEW r,
                 b = Frame(kind, h, target, k, n, r)
          PROVE  b.isLocal <=> k # Null
      BY <3>2 DEF Frame
    <3>3. QED
      BY <1>3, <3>1, <3>2
  <2>2. frames[2].kind = "pred"
    BY <1>3 DEF GoalFrame, Frame
  <2>3. QED
    BY <1>3, <2>1, <2>2 DEF LocalFrames
<1>5. MemoryOK /\ MarksOrdered
  BY <1>1 DEF TrailInv
<1>6. /\ FR \in Nat /\ pos \in Pos /\ SP \in Nat /\ owned \subseteq 1..MaxLocals
      /\ Stacked(frames, cps) /\ Ready(frames, cps, FR, pos, SP)
  BY <1>1, <1>2 DEF StackInv
<1>7. Tidy(frames, ElementsOf(cps)) /\ Apart(frames, ElementsOf(cps), FR, pos, SP)
  BY <1>1, <1>2 DEF UseInv
<1>8. ThrowInv
  BY <1>2, <1>4, <1>5, <1>6, <1>7 DEF ThrowInv, Sound, Statuses
<1>9. ThrowUse /\ ThrowLeak
  BY <1>1 DEF ThrowUse, ThrowLeak, UseInv, LeakInv
<1>10. QED
  BY <1>1, <1>2, <1>8, <1>9 DEF ThrowSizes

(***************************************************************************)
(* The theorems                                                            *)
(***************************************************************************)
\* The invariant holds in every state.
LEMMA AlwaysThrowInv == ThrowSpec => []ThrowInv
<1>1. Init => ThrowInv
  BY InitThrow
<1>2. ThrowInv /\ [Next \/ Throw]_vars => ThrowInv'
  BY ThrowStep DEF Survives
<1>3. QED
  BY <1>1, <1>2, PTL DEF ThrowSpec

\* The registers and what is on the stack have their types also while a ball is on its
\* way, and after an error (kernel.c: b_throw_foreign restores them from the choicepoints
\* of the catchers it passes).
THEOREM TypesStayRight == ThrowSpec => []ThrowTypeOK
<1>1. ThrowInv => ThrowTypeOK
  BY DEF ThrowInv, Stacked, FramesIn, MemoryOK, ThrowTypeOK, RegistersOK
<1>2. QED
  BY AlwaysThrowInv, <1>1, PTL

\* Also with catch/3 and throw/1 whatever a running clause can still cut to is there:
\* when a catcher takes the ball, what the clause that called it has noted lies below the
\* choicepoint that is returned to.
THEOREM CutsStillFindTargets == ThrowSpec => []CutTargets
<1>1. ThrowInv => CutTargets
  <2>1. SUFFICES ASSUME ThrowInv, status = "run" PROVE CutTargets
    BY DEF CutTargets
  <2>2. RunsAt(frames, ElementsOf(cps), FR, pos, SP)
    BY <2>1, ThrowRuns DEF Statuses, CanRun, Ready
  <2>3. Points(ElementsOf(cps)) = {Null} \cup {cps[i].at : i \in DOMAIN cps}
    BY DEF Points, ElementsOf
  <2>4. frames[FR].choicepoint \in Points(ElementsOf(cps))
    BY <2>2 DEF RunsAt, Anchored, Points
  <2>5. \A k \in DOMAIN pos.open : frames[FR].cuts[pos.open[k]] \in Points(ElementsOf(cps))
    BY <2>2 DEF RunsAt, Noted
  <2>6. QED
    BY <2>3, <2>4, <2>5 DEF CutTargets
<1>2. QED
  BY AlwaysThrowInv, <1>1, PTL

\* What execution of g at p finds of the catchers among its callers
LEMMA CatchersAreThere ==
  ASSUME Stacked(frames, cps), FR \in DOMAIN frames,
         Catchable(frames, cps, FR) \/
           /\ Anchored(frames, ElementsOf(cps), FR) /\ pos.phase = "catch" /\ status = "run",
         NEW f \in Catchers
  PROVE  \/ pos.phase = "catch" /\ f = FR /\ status = "run"
         \/ \E c \in ElementsOf(cps) : c.at = frames[f].choicepoint /\ c.fr = f
<1>1. f \in AncestorsIn(frames, FR) /\ frames[f].kind = "catch/3"
  BY CatchersAre
<1>2. ASSUME NEW g \in DOMAIN frames, Catchable(frames, cps, g), f \in AncestorsIn(frames, g)
      PROVE  \E c \in ElementsOf(cps) : c.at = frames[f].choicepoint /\ c.fr = f
  <2>1. f \in DOMAIN frames /\ Catchable(frames, cps, f)
    BY <1>2, CallersCatch
  <2>2. QED
    BY <1>1, <2>1, CatcherHasChoice
<1>3. CASE Catchable(frames, cps, FR)
  BY <1>1, <1>2, <1>3
<1>4. CASE /\ Anchored(frames, ElementsOf(cps), FR) /\ pos.phase = "catch" /\ status = "run"
           /\ f # FR
  <2>1. /\ Grounded(frames) /\ StackOK(frames, ElementsOf(cps))
        /\ \A x \in DOMAIN frames : frames[x].kind # "query" <=> frames[x].parent # Null
    BY StackGrounded DEF Stacked
  <2>2. PICK h : h = frames[FR].parent
    OBVIOUS
  <2>3. h \in DOMAIN frames /\ f \in AncestorsIn(frames, h) /\ h # Null
    BY <1>1, <1>4, <2>1, <2>2, Ancestry DEF Grounded
  <2>4. frames[FR].kind # "query"
    BY <2>1, <2>2, <2>3
  <2>5. Anchored(frames, ElementsOf(cps), h)
    BY <1>4, <2>1, <2>2, <2>4, CallerAnchored
  <2>6. CallOK(frames, ElementsOf(cps), FR)
    BY <2>1, <2>4 DEF StackOK, FrameOK
  <2>7. frames[h].kind = "catch/3" => h < frames[h].choicepoint
    BY <2>2, <2>6 DEF CallOK, Place, Executes
  <2>8. Catchable(frames, cps, h)
    BY <2>5, <2>7 DEF Catchable
  <2>9. QED
    BY <1>2, <2>3, <2>8
<1>5. QED
  BY <1>3, <1>4

\* Every catch/3 among the callers of the goal that runs, or that has thrown a ball, finds
\* its choicepoint, although cuts and backtracking that drop choicepoints never look at the
\* frames that have noted them (kernel.c: b_throw_foreign, cut_to, backtrack).
THEOREM CatchersFindTheirChoices == ThrowSpec => []CatchTargets
<1>1. ThrowInv => CatchTargets
  <2>1. SUFFICES ASSUME ThrowInv, status \in {"run", "throw"}, NEW f \in Catchers
                 PROVE  \/ pos.phase = "catch" /\ f = FR /\ status = "run"
                        \/ \E c \in Choices : c.at = frames[f].choicepoint /\ c.fr = f
    BY DEF CatchTargets
  <2>2. Choices = ElementsOf(cps)
    BY DEF Choices, ElementsOf
  <2>3. Stacked(frames, cps)
    BY <2>1 DEF ThrowInv
  <2>4. CASE status = "throw"
    <3>1. Catchable(frames, cps, FR) /\ FR \in DOMAIN frames
      BY <2>1, <2>4 DEF ThrowInv, Thrown, Standing
    <3>2. QED
      BY <2>1, <2>2, <2>3, <3>1, CatchersAreThere
  <2>5. CASE status = "run"
    <3>1. Sound(frames, cps, FR, pos, SP)
      BY <2>1, <2>5 DEF ThrowInv, Statuses
    <3>2. Anchored(frames, ElementsOf(cps), FR) /\ FR \in DOMAIN frames
      BY <3>1 DEF Sound, Ready, RunsAt, Place
    <3>3. pos.phase # "catch" => Catchable(frames, cps, FR)
      BY <3>1, RunsThrows DEF Thrown
    <3>4. QED
      BY <2>1, <2>2, <2>3, <2>5, <3>2, <3>3, CatchersAreThere
  <2>6. QED
    BY <2>1, <2>4, <2>5
<1>2. QED
  BY AlwaysThrowInv, <1>1, PTL

\* In a program without cleanup handlers that calls no unknown procedures, errors free no
\* clause that a frame which can still run executes: neither when a catcher takes the ball
\* nor when the query ends (kernel.c: b_throw_foreign applies choicepoints).
THEOREM ErrorsKeepClausesInUse == ThrowSpec => []NoUseAfterFree
<1>1. Init => ThrowUse
  BY InitThrow
<1>2. ThrowInv /\ ThrowUse /\ [Next \/ Throw]_vars => ThrowUse'
  BY ThrowStep DEF Survives
<1>3. ThrowUse => NoUseAfterFree
  <2>1. SUFFICES ASSUME ThrowUse PROVE NoUseAfterFree
    OBVIOUS
  <2>2. uses \cap {"cleanup", "unknown"} = {} => Owners(frames, Alive, owned)
    BY <2>1, AliveIsLive DEF ThrowUse
  <2>3. QED
    BY <2>2 DEF NoUseAfterFree, ClausesInUse, Owners
<1>4. QED
  BY AlwaysThrowInv, <1>1, <1>2, <1>3, PTL DEF ThrowSpec

\* Nothing that can still be used is overwritten after an error, although SP may be too low
\* until it is caught: the catcher that takes the ball sets SP from its frame.
THEOREM ErrorsOverwriteNothing ==
  ASSUME QueryReserved = 0
  PROVE  ThrowSpec => []NoOverlap
<1>1. Init => ThrowSizes
  BY InitThrow
<1>2. ThrowInv /\ ThrowSizes /\ [Next \/ Throw]_vars => ThrowSizes'
  BY ThrowStep DEF Survives
<1>3. ThrowInv /\ ThrowSizes => NoOverlap
  <2>1. SUFFICES ASSUME ThrowInv, ThrowSizes PROVE NoOverlap
    OBVIOUS
  <2>2. Stacked(frames, cps) /\ SP \in Nat /\ status \in Statuses \cup {"throw", "error"}
    BY <2>1 DEF ThrowInv
  <2>3. CASE status \in Statuses
    <3>1. FR \in DOMAIN frames /\ Sized(frames, ElementsOf(cps), SP)
      BY <2>1, <2>3 DEF ThrowSizes, MemoryInv, SizeInv
    <3>2. QED
      BY <2>2, <3>1, SizedApart
  <2>4. CASE status \in {"throw", "error"}
    <3>1. FR \in DOMAIN frames \cup {Null}
      BY <2>1, <2>4 DEF ThrowInv, Thrown, Standing
    <3>2. PICK top \in Nat : Sized(frames, ElementsOf(cps), top)
      BY <2>1, <2>4 DEF ThrowSizes
    <3>3. QED
      BY <2>2, <2>4, <3>1, <3>2, SizedApart
  <2>5. QED
    BY <2>2, <2>3, <2>4
<1>4. QED
  BY AlwaysThrowInv, <1>1, <1>2, <1>3, PTL DEF ThrowSpec

\* Until the query fails or ends with an error, every clause that was compiled for a call
\* belongs to a frame that can still run: passing catchers frees the clauses of all the
\* frames that are given up.
THEOREM CaughtErrorsLeakNothing ==
  ASSUME QueryReserved = 0
  PROVE  ThrowSpec => []NoLeak
<1>1. Init => ThrowSizes /\ ThrowLeak
  BY InitThrow
<1>2. ThrowInv /\ ThrowSizes /\ ThrowLeak /\ [Next \/ Throw]_vars => ThrowSizes' /\ ThrowLeak'
  BY ThrowStep DEF Survives
<1>3. ThrowLeak => NoLeak
  <2>1. SUFFICES ASSUME ThrowLeak, status # "error" PROVE owned \subseteq ClausesOf(Alive)
    BY DEF NoLeak
  <2>2. owned \subseteq OwnedBy(frames, Alive)
    BY <2>1, AliveIsLive DEF ThrowLeak, NoOrphans
  <2>3. QED
    BY <2>2, ClausesAreOwned
<1>4. QED
  BY AlwaysThrowInv, <1>1, <1>2, <1>3, PTL DEF ThrowSpec

(***************************************************************************)
(* A query leaves what lies below an address alone                         *)
(***************************************************************************)
\* The clauses in own that no frame at or above b owns
Elsewhere(fs, own, b) == own \ {fs[f].clause : f \in {g \in DOMAIN fs : b <= g /\ fs[g].isLocal}}

\* The frames at or above b have been called from there.
Above(fs, b) == \A f \in DOMAIN fs : b <= f /\ fs[f].kind # "query" => b <= fs[f].parent

\* The frames below b are the same.
SameBelow(fs, gs, b) ==
  /\ \A f \in DOMAIN fs : f < b => f \in DOMAIN gs /\ gs[f] = fs[f]
  /\ \A f \in DOMAIN gs : f < b => f \in DOMAIN fs

\* From frames fs and clauses own to gs and new, nothing is done to what lies below b.
Stays(fs, own, gs, new, b) ==
  /\ SameBelow(fs, gs, b)
  /\ Above(gs, b)
  /\ Elsewhere(fs, own, b) \subseteq Elsewhere(gs, new, b)

\* Frames at or above b are given up, or give up their clauses.
LEMMA StaysLower ==
  ASSUME NEW fs, NEW own, NEW gs, NEW new, NEW b, Above(fs, b),
         DOMAIN gs \subseteq DOMAIN fs,
         \A f \in DOMAIN fs : f < b => f \in DOMAIN gs /\ gs[f] = fs[f],
         \A f \in DOMAIN gs :
           b <= f => /\ gs[f].parent = fs[f].parent /\ gs[f].clause = fs[f].clause
                     /\ gs[f].isLocal => fs[f].isLocal
                     /\ gs[f].kind # "query" => fs[f].kind # "query",
         Elsewhere(fs, own, b) \subseteq new
  PROVE  Stays(fs, own, gs, new, b)
<1>1. SameBelow(fs, gs, b)
  BY DEF SameBelow
<1>2. Above(gs, b)
  BY DEF Above
<1>3. ASSUME NEW k \in Elsewhere(fs, own, b)
      PROVE  k \in Elsewhere(gs, new, b)
  <2>1. \A f \in DOMAIN fs : b <= f /\ fs[f].isLocal => fs[f].clause # k
    BY <1>3 DEF Elsewhere
  <2>2. \A f \in DOMAIN gs : b <= f /\ gs[f].isLocal => gs[f].clause # k
    BY <2>1
  <2>3. QED
    BY <2>2 DEF Elsewhere
<1>4. QED
  BY <1>1, <1>2, <1>3 DEF Stays

\* A frame is pushed at or above b, and owns its clause if that is new.
LEMMA StaysPut ==
  ASSUME NEW fs, NEW own, NEW at \in Nat, NEW frame, NEW new, NEW b \in Nat, Above(fs, b),
         b <= at, frame.kind # "query" => b <= frame.parent,
         own \subseteq new, frame.isLocal => frame.clause \notin own
  PROVE  Stays(fs, own, Put(fs, at, frame), new, b)
<1> DEFINE gs == Put(fs, at, frame)
<1>1. /\ DOMAIN gs = DOMAIN fs \cup {at} /\ gs[at] = frame
      /\ \A f \in DOMAIN fs : f # at => gs[f] = fs[f]
  BY DEF Put
<1>2. ~(at < b)
  OBVIOUS
<1> HIDE DEF gs
<1>3. SameBelow(fs, gs, b)
  BY <1>1, <1>2 DEF SameBelow
<1>4. Above(gs, b)
  BY <1>1 DEF Above
<1>5. ASSUME NEW k \in Elsewhere(fs, own, b)
      PROVE  k \in Elsewhere(gs, new, b)
  <2>1. k \in own /\ \A f \in DOMAIN fs : b <= f /\ fs[f].isLocal => fs[f].clause # k
    BY <1>5 DEF Elsewhere
  <2>2. ASSUME NEW f \in DOMAIN gs, b <= f, gs[f].isLocal
        PROVE  gs[f].clause # k
    BY <1>1, <2>1, <2>2
  <2>3. QED
    BY <2>1, <2>2 DEF Elsewhere
<1>6. Stays(fs, own, gs, new, b)
  BY <1>3, <1>4, <1>5 DEF Stays
<1>7. QED
  BY <1>6 DEF gs

\* Two such changes are one.
LEMMA StaysTwice ==
  ASSUME NEW fs, NEW own, NEW gs, NEW mid, NEW hs, NEW new, NEW b,
         Stays(fs, own, gs, mid, b), Stays(gs, mid, hs, new, b)
  PROVE  Stays(fs, own, hs, new, b)
BY DEF Stays, SameBelow

\* What is below sp is left, when the frames in gone have given up their clauses.
LEMMA StaysBelow ==
  ASSUME NEW fs, NEW own, NEW sp \in Nat, NEW gone, NEW new, NEW b \in Nat, Above(fs, b), FramesIn(fs),
         b <= sp, \A f \in gone : f \in DOMAIN fs => b <= f, Elsewhere(fs, own, b) \subseteq new
  PROVE  /\ Stays(fs, own, Below(sp, Disowned(fs, gone)), new, b)
         /\ Stays(fs, own, Below(sp, fs), new, b)
         /\ Stays(fs, own, Disowned(fs, gone), new, b)
         /\ Stays(fs, own, fs, new, b)
<1>1. \A f \in DOMAIN fs : f \in Nat /\ fs[f] \in FrameType
  BY BoundsAssumption DEF FramesIn
<1> DEFINE ds == Disowned(fs, gone)
<1>2. /\ DOMAIN ds = DOMAIN fs
      /\ \A f \in DOMAIN fs : f \notin gone => ds[f] = fs[f]
      /\ \A f \in DOMAIN fs : /\ ds[f].parent = fs[f].parent /\ ds[f].clause = fs[f].clause
                              /\ ds[f].isLocal => fs[f].isLocal
                              /\ ds[f].kind = fs[f].kind
  <2>1. DOMAIN ds = DOMAIN fs /\ \A f \in DOMAIN fs : f \notin gone => ds[f] = fs[f]
    BY DEF Disowned
  <2>2. ASSUME NEW f \in DOMAIN fs
        PROVE  /\ ds[f].parent = fs[f].parent /\ ds[f].clause = fs[f].clause
               /\ ds[f].isLocal => fs[f].isLocal
               /\ ds[f].kind = fs[f].kind
    <3>1. CASE f \in gone
      <4>1. ds[f] = [fs[f] EXCEPT !.isLocal = FALSE]
        BY <3>1 DEF Disowned
      <4>2. fs[f] \in FrameType
        BY <1>1
      <4>3. QED
        BY <4>1, <4>2 DEF FrameType
    <3>2. CASE f \notin gone
      BY <2>1, <3>2
    <3>3. QED
      BY <3>1, <3>2
  <2>3. QED
    BY <2>1, <2>2
<1> HIDE DEF ds
<1>3. ASSUME NEW hs, \/ DOMAIN hs = {f \in DOMAIN fs : f < sp}
                     \/ DOMAIN hs = DOMAIN fs,
             \/ \A f \in DOMAIN hs : hs[f] = ds[f]
             \/ \A f \in DOMAIN hs : hs[f] = fs[f]
      PROVE  Stays(fs, own, hs, new, b)
  <2>1. DOMAIN hs \subseteq DOMAIN fs
    BY <1>3
  <2>2. \A f \in DOMAIN fs : f < b => f \in DOMAIN hs /\ f \notin gone
    BY <1>1, <1>3
  <2>3. \A f \in DOMAIN fs : f < b => f \in DOMAIN hs /\ hs[f] = fs[f]
    BY <1>2, <1>3, <2>2
  <2>4. \A f \in DOMAIN hs :
           b <= f => /\ hs[f].parent = fs[f].parent /\ hs[f].clause = fs[f].clause
                     /\ hs[f].isLocal => fs[f].isLocal
                     /\ hs[f].kind # "query" => fs[f].kind # "query"
    BY <1>2, <1>3, <2>1
  <2>5. QED
    BY <2>1, <2>3, <2>4, StaysLower
<1>4. /\ DOMAIN Below(sp, ds) = {f \in DOMAIN fs : f < sp}
      /\ \A f \in DOMAIN Below(sp, ds) : Below(sp, ds)[f] = ds[f]
  BY <1>2 DEF Below
<1>5. /\ DOMAIN Below(sp, fs) = {f \in DOMAIN fs : f < sp}
      /\ \A f \in DOMAIN Below(sp, fs) : Below(sp, fs)[f] = fs[f]
  BY DEF Below
<1>6. Stays(fs, own, Below(sp, ds), new, b)
  BY <1>3, <1>4
<1>7. Stays(fs, own, Below(sp, fs), new, b)
  BY <1>3, <1>5
<1>8. Stays(fs, own, ds, new, b)
  BY <1>2, <1>3
<1>9. Stays(fs, own, fs, new, b)
  BY <1>3
<1>10. QED
  BY <1>6, <1>7, <1>8, <1>9 DEF ds

\* i_usercall
LEMMA StaysUserCall ==
  ASSUME NEW fs, NEW h, NEW at \in Nat, NEW cs, NEW kept, NEW r, NEW b \in Nat, Above(fs, b),
         b <= at, b <= h, UserCall(h, at, fs, cs, kept, r)
  PROVE  /\ Stays(fs, kept, frames', owned', b)
         /\ b <= SP' /\ b <= FR' /\ at < SP'
<1>1. PICK clause \in 1..MaxLocals, n \in 0..MaxSlots :
        /\ Fresh(clause, kept) /\ owned' = kept \cup {clause}
        /\ Push(fs, at, Frame("pred", h, Top(cs), clause, n, r))
  BY DEF UserCall
<1> DEFINE frame == Frame("pred", h, Top(cs), clause, n, r)
<1>2. frame.parent = h /\ frame.clause = clause /\ frame.slotCount = n
  BY DEF Frame
<1>3. frames' = Put(fs, at, frame) /\ FR' = at /\ SP' = at + 1 + n
  BY <1>1, <1>2 DEF Push
<1>4. clause \notin kept
  BY <1>1 DEF Fresh
<1> HIDE DEF frame
<1>5. Stays(fs, kept, Put(fs, at, frame), owned', b)
  BY <1>1, <1>2, <1>4, StaysPut
<1>6. n \in Nat
  BY BoundsAssumption
<1>7. QED
  BY <1>3, <1>5, <1>6

\* The callers of a frame at or above b are at or above b.
LEMMA CallersAbove ==
  ASSUME NEW fs, Grounded(fs), NEW b \in Nat, Above(fs, b),
         \A f \in DOMAIN fs : fs[f].kind # "query" <=> fs[f].parent # Null
  PROVE  \A f \in DOMAIN fs : b <= f => \A e \in AncestorsIn(fs, f) : e \in DOMAIN fs /\ b <= e
<1> DEFINE Safe(f) == b <= f => \A e \in AncestorsIn(fs, f) : e \in DOMAIN fs /\ b <= e
<1>0. /\ \A f \in DOMAIN fs : f \in Nat /\ 0 < f /\ f <= StackSize /\ fs[f].parent < f
                              /\ fs[f].parent \in Nat
      /\ \A f \in DOMAIN fs : fs[f].parent = Null => AncestorsIn(fs, f) = {f}
      /\ \A f \in DOMAIN fs :
           fs[f].parent \in DOMAIN fs => AncestorsIn(fs, f) = {f} \cup AncestorsIn(fs, fs[f].parent)
  BY Ancestry
<1>1. \A f \in DOMAIN fs : fs[f].parent \in DOMAIN fs \/ fs[f].parent = Null
  BY DEF Grounded
<1>2. StackSize \in Nat
  BY BoundsAssumption
<1>3. PICK P : P = {k \in 0..StackSize : \A f \in DOMAIN fs : f <= k => Safe(f)}
  OBVIOUS
<1>4. 0 \in P
  <2>1. \A f \in DOMAIN fs : ~(f <= 0)
    BY <1>0
  <2>2. QED
    BY <1>2, <1>3, <2>1
<1>5. ASSUME NEW k \in 0..StackSize - 1, k \in P
      PROVE  k + 1 \in P
  <2>1. k + 1 \in 0..StackSize /\ k \in Nat
    BY <1>2
  <2>2. ASSUME NEW f \in DOMAIN fs, f <= k + 1
        PROVE  Safe(f)
    <3>1. CASE fs[f].parent = Null
      BY <1>0, <3>1
    <3>2. CASE fs[f].parent # Null
      <4>1. fs[f].parent \in DOMAIN fs /\ fs[f].parent <= k /\ fs[f].kind # "query"
        BY <1>0, <1>1, <2>1, <2>2, <3>2
      <4>2. Safe(fs[f].parent)
        BY <1>3, <1>5, <4>1
      <4>3. b <= f => b <= fs[f].parent
        BY <4>1 DEF Above
      <4>4. AncestorsIn(fs, f) = {f} \cup AncestorsIn(fs, fs[f].parent)
        BY <1>0, <4>1
      <4>5. QED
        BY <4>2, <4>3, <4>4
    <3>3. QED
      BY <3>1, <3>2
  <2>3. QED
    BY <1>3, <2>1, <2>2
<1>6. \A k \in 0..StackSize : k \in P
  BY <1>2, <1>4, <1>5, UpTo
<1>7. StackSize \in P
  BY <1>2, <1>6
<1>8. QED
  BY <1>0, <1>3, <1>7

\* The stack of a query: all of it is at or above b.
Inside(b) ==
  /\ Above(frames, b) /\ b <= SP
  /\ \A c \in ElementsOf(cps) : b <= c.at /\ b <= c.fr

\* A step of the machine leaves what is below b alone, and the query above it.
StaysInside(b) ==
  /\ Stays(frames, owned, frames', owned', b)
  /\ b <= SP'
  /\ \A c \in ElementsOf(cps') : b <= c.at /\ b <= c.fr
  /\ status' # "error" => b <= FR'

\* The frames that can still run are at or above b.
LEMMA LiveAbove ==
  ASSUME Stacked(frames, cps), NEW b \in Nat, Inside(b)
  PROVE  /\ FR \in DOMAIN frames /\ b <= FR => \A f \in Continuation : f \in DOMAIN frames /\ b <= f
         /\ \A i \in DOMAIN cps : \A f \in Ancestors(cps[i].fr) : f \in DOMAIN frames /\ b <= f
<1>1. Grounded(frames) /\ \A f \in DOMAIN frames : frames[f].kind # "query" <=> frames[f].parent # Null
  BY StackGrounded
<1>2. \A f \in DOMAIN frames : b <= f => \A e \in AncestorsIn(frames, f) : e \in DOMAIN frames /\ b <= e
  BY <1>1, CallersAbove DEF Inside
<1>3. \A a : Ancestors(a) = AncestorsIn(frames, a)
  BY DEF Ancestors, AncestorsIn
<1>4. \A c \in ElementsOf(cps) : c.fr \in DOMAIN frames /\ b <= c.fr
  BY DEF Stacked, StackOK, ChoiceOK, Inside
<1>5. \A i \in DOMAIN cps : cps[i] \in ElementsOf(cps)
  BY DEF ElementsOf
<1>6. QED
  BY <1>2, <1>3, <1>4, <1>5 DEF Continuation

\* Clauses of frames at or above b only are freed.
LEMMA FreesAbove ==
  ASSUME NEW gone, NEW b, \A f \in gone : f \in DOMAIN frames /\ b <= f
  PROVE  Elsewhere(frames, owned, b) \subseteq owned \ ClausesOf(gone)
BY DEF Elsewhere, ClausesOf

\* The choicepoints of s are at or above b.
LEMMA OldestInside ==
  ASSUME cps \in Seq(ChoiceType), NEW b, \A c \in ElementsOf(cps) : b <= c.at /\ b <= c.fr,
         NEW n \in 0..Len(cps)
  PROVE  \A c \in ElementsOf(SubSeq(cps, 1, n)) : b <= c.at /\ b <= c.fr
<1>1. Len(cps) \in Nat /\ DOMAIN cps = 1..Len(cps)
  OBVIOUS
<1>2. Len(SubSeq(cps, 1, n)) = n /\ \A i \in 1..n : SubSeq(cps, 1, n)[i] = cps[i]
  BY <1>1
<1>3. DOMAIN SubSeq(cps, 1, n) = 1..n
  BY <1>1, <1>2
<1>4. \A i \in 1..n : cps[i] \in ElementsOf(cps)
  BY <1>1 DEF ElementsOf
<1>5. QED
  BY <1>2, <1>3, <1>4 DEF ElementsOf

(***************************************************************************)
(* The instructions, one by one, in a query that lies at or above b        *)
(***************************************************************************)
Confined(b) == CanOwn /\ b \in Nat /\ Inside(b) /\ b <= FR

\* What is known of the registers of such a query.
LEMMA ConfinedProvides ==
  ASSUME NEW b, Confined(b)
  PROVE  /\ b \in Nat /\ Above(frames, b) /\ b <= SP /\ b <= FR
         /\ FR \in DOMAIN frames /\ FR \in Nat /\ SP \in Nat /\ FramesIn(frames)
         /\ Stacked(frames, cps) /\ cps \in Seq(ChoiceType) /\ Len(cps) \in Nat /\ DOMAIN cps = 1..Len(cps)
         /\ \A c \in ElementsOf(cps) : b <= c.at /\ b <= c.fr
         /\ frames[FR].kind # "query" =>
              /\ frames[FR].parent \in DOMAIN frames /\ 0 < frames[FR].parent /\ b <= frames[FR].parent
              /\ frames[FR].parent \in Nat
         /\ pos.phase \in {"entry", "body", "catch", "exitcatch", "foreign"} => frames[FR].kind # "query"
         /\ CanRun /\ CanOwn
<1>1. CanRun /\ CanOwn
  BY DEF Confined, CanOwn
<1>2. /\ Stacked(frames, cps) /\ FramesIn(frames) /\ cps \in Seq(ChoiceType)
      /\ FR \in DOMAIN frames /\ FR \in Nat /\ SP \in Nat
      /\ Place(frames, ElementsOf(cps), FR, pos, SP)
      /\ frames[FR].kind # "query" =>
           frames[FR].parent \in DOMAIN frames /\ 0 < frames[FR].parent
      /\ Len(cps) \in Nat /\ DOMAIN cps = 1..Len(cps)
  BY <1>1, RunningProvides
<1>3. /\ b \in Nat /\ Above(frames, b) /\ b <= SP /\ b <= FR
      /\ \A c \in ElementsOf(cps) : b <= c.at /\ b <= c.fr
  BY DEF Confined, Inside
<1>4. frames[FR].kind # "query" => b <= frames[FR].parent
  BY <1>2, <1>3 DEF Above
<1>5. \A f \in DOMAIN frames : f \in Nat
  BY <1>2 DEF FramesIn
<1>6. pos.phase \in {"entry", "body", "catch", "exitcatch", "foreign"} => frames[FR].kind # "query"
  BY <1>2 DEF Place, Executes
<1>7. QED
  BY <1>1, <1>2, <1>3, <1>4, <1>5, <1>6

\* A choicepoint ends above where it starts.
LEMMA AfterChoiceAbove ==
  ASSUME NEW c, c.at \in Nat
  PROVE  AfterChoice(c) \in Nat /\ c.at < AfterChoice(c)
<1>1. PICK n \in Nat : AfterChoice(c) = c.at + 1 + n
  <2>1. (IF c.type = "Head" THEN ArgWords ELSE 0) \in Nat
    BY BoundsAssumption
  <2>2. QED
    BY <2>1 DEF AfterChoice
<1>2. QED
  BY <1>1

\* A frame ends above where it starts.
LEMMA AfterFrameAbove ==
  ASSUME FramesIn(frames), NEW f \in DOMAIN frames
  PROVE  AfterFrame(f) \in Nat /\ f < AfterFrame(f) /\ f \in Nat
<1>1. f \in 1..StackSize /\ frames[f].slotCount \in 0..MaxSlots
  BY DEF FramesIn, FrameType
<1>2. PICK n \in Nat : n = frames[f].slotCount
  BY <1>1, BoundsAssumption
<1>3. f \in Nat /\ AfterFrame(f) = f + 1 + n
  BY <1>1, <1>2, BoundsAssumption DEF AfterFrame
<1>4. QED
  BY <1>3

\* What leaves the stack alone
LEMMA KeepsInside ==
  ASSUME NEW b, Confined(b), UNCHANGED <<FR, SP, frames, cps, owned>>
  PROVE  StaysInside(b)
<1>1. Stays(frames, owned, frames, owned, b)
  BY ConfinedProvides DEF Stays, SameBelow
<1>2. QED
  BY <1>1, ConfinedProvides DEF StaysInside

\* A choicepoint that is pushed at SP by the current frame
LEMMA AppendInside ==
  ASSUME NEW b, Confined(b), NEW c, c.at = SP, c.fr = FR
  PROVE  /\ \A d \in ElementsOf(Append(cps, c)) : b <= d.at /\ b <= d.fr
         /\ AfterChoice(c) \in Nat /\ SP < AfterChoice(c) /\ b <= AfterChoice(c)
<1>1. ElementsOf(Append(cps, c)) = ElementsOf(cps) \cup {c}
  BY ConfinedProvides, ElementsAppended
<1>2. AfterChoice(c) \in Nat /\ SP < AfterChoice(c)
  BY ConfinedProvides, AfterChoiceAbove
<1>3. b \in Nat /\ b <= SP /\ SP \in Nat
  BY ConfinedProvides
<1>4. QED
  BY <1>1, <1>2, <1>3, ConfinedProvides

\* The choicepoints of the machine start at SP and resume FR.
LEMMA ChoiceAtTop ==
  /\ \A type, pc, clause, n, cleanup : /\ NewChoice(type, pc, clause, n, cleanup).at = SP
                                       /\ NewChoice(type, pc, clause, n, cleanup).fr = FR
  /\ \A type, pc, cleanup : /\ Alternative(type, pc, cleanup).at = SP
                            /\ Alternative(type, pc, cleanup).fr = FR
BY DEF NewChoice, Alternative

\* TRY_ME_ELSE, C_OR and B_CLEANUP_CHOICEPOINT.
LEMMA BranchInside ==
  ASSUME NEW b, Confined(b), TryMe \/ Or \/ CleanupChoicepoint
  PROVE  StaysInside(b)
<1>1. PICK c : /\ c.at = SP /\ c.fr = FR
               /\ cps' = Append(cps, c) /\ SP' = AfterChoice(c) /\ UNCHANGED <<FR, frames, owned>>
  BY ChoiceAtTop DEF TryMe, Or, CleanupChoicepoint
<1>2. Stays(frames, owned, frames, owned, b)
  BY ConfinedProvides DEF Stays, SameBelow
<1>3. b <= FR
  BY ConfinedProvides
<1>4. QED
  BY <1>1, <1>2, <1>3, AppendInside DEF StaysInside

\* A return goes to where the caller or the last choicepoint ends.
LEMMA ExitAbove ==
  ASSUME NEW b, Confined(b), frames[FR].kind # "query",
         NEW t \in Seq(ChoiceType), \A c \in ElementsOf(t) : b <= c.at
  PROVE  b <= AfterExit(t) /\ AfterExit(t) \in Nat
<1>1. CASE Top(t) < frames[FR].parent
  <2>1. AfterExit(t) = AfterFrame(frames[FR].parent)
    BY <1>1 DEF AfterExit
  <2>2. AfterFrame(frames[FR].parent) \in Nat /\ frames[FR].parent < AfterFrame(frames[FR].parent)
    BY ConfinedProvides, AfterFrameAbove
  <2>3. b \in Nat /\ frames[FR].parent \in Nat /\ b <= frames[FR].parent
    BY ConfinedProvides
  <2>4. QED
    BY <2>1, <2>2, <2>3
<1>2. CASE ~(Top(t) < frames[FR].parent)
  <2>1. t # <<>>
    BY <1>2, ConfinedProvides DEF Top, Null
  <2>2. PICK c : c = t[Len(t)] /\ c \in ElementsOf(t) /\ c \in ChoiceType
    <3>1. Len(t) \in DOMAIN t
      BY <2>1
    <3>2. t[Len(t)] \in ElementsOf(t)
      BY <3>1 DEF ElementsOf
    <3>3. t[Len(t)] \in ChoiceType
      BY <3>1, ElementOfSeq
    <3>4. QED
      BY <3>2, <3>3
  <2>3. c.at \in Nat /\ b \in Nat
    BY <2>2, ConfinedProvides DEF ChoiceType
  <2>4. AfterChoice(c) \in Nat /\ c.at < AfterChoice(c)
    BY <2>3, AfterChoiceAbove
  <2>5. AfterExit(t) = AfterChoice(c)
    BY <1>2, <2>2 DEF AfterExit
  <2>6. QED
    BY <2>2, <2>3, <2>4, <2>5
<1>3. QED
  BY <1>1, <1>2

\* The clause of the frame that runs is freed, or not.
LEMMA OwnAbove ==
  ASSUME NEW b, Confined(b)
  PROVE  /\ Elsewhere(frames, owned, b) \subseteq owned
         /\ Elsewhere(frames, owned, b) \subseteq owned \ ClausesOf({FR})
<1>1. \A f \in {FR} : f \in DOMAIN frames /\ b <= f
  BY ConfinedProvides
<1>2. Elsewhere(frames, owned, b) \subseteq owned \ ClausesOf({FR})
  BY <1>1, FreesAbove
<1>3. QED
  BY <1>2

\* The stack is cut off above b.
LEMMA CutOffInside ==
  ASSUME NEW b, Confined(b), NEW sp \in Nat, b <= sp, NEW new, Elsewhere(frames, owned, b) \subseteq new
  PROVE  Stays(frames, owned, Below(sp, frames), new, b)
<1>1. PICK gone : gone = {}
  OBVIOUS
<1>2. /\ b \in Nat /\ Above(frames, b) /\ FramesIn(frames)
      /\ \A f \in gone : f \in DOMAIN frames => b <= f
  BY <1>1, ConfinedProvides
<1>3. QED
  BY <1>2, StaysBelow

\* i_exit
LEMMA LeaveInside ==
  ASSUME NEW b, Confined(b), frames[FR].kind # "query",
         NEW t \in Seq(ChoiceType), \A c \in ElementsOf(t) : b <= c.at /\ b <= c.fr,
         Leave(t), cps' = t
  PROVE  StaysInside(b)
<1>1. b <= AfterExit(t) /\ AfterExit(t) \in Nat
  BY ExitAbove
<1>2. /\ SP' = AfterExit(t) /\ FR' = frames[FR].parent
      /\ frames' = Below(AfterExit(t), frames)
      /\ owned' = owned \ ClausesOf({FR}) \/ owned' = owned
  BY DEF Leave, ClausesOf
<1>3. Elsewhere(frames, owned, b) \subseteq owned'
  BY <1>2, OwnAbove
<1>4. Stays(frames, owned, Below(AfterExit(t), frames), owned', b)
  BY <1>1, <1>3, CutOffInside
<1>5. b <= frames[FR].parent
  BY ConfinedProvides
<1>6. QED
  BY <1>1, <1>2, <1>4, <1>5 DEF StaysInside

\* I_CALL.
LEMMA CallInside ==
  ASSUME NEW b, Confined(b), Call
  PROVE  StaysInside(b)
<1>0. PICK kind \in Kinds : \E n \in SlotCounts(kind) : Push(frames, SP, Frame(kind, FR, CP, Null, n, pos))
  BY DEF Call
<1>1. PICK n \in SlotCounts(kind) : Push(frames, SP, Frame(kind, FR, CP, Null, n, pos))
  BY <1>0
<1> DEFINE frame == Frame(kind, FR, CP, Null, n, pos)
<1>2. frame.parent = FR /\ ~frame.isLocal /\ frame.slotCount = n
  BY DEF Frame
<1>3. n \in Nat
  BY StartIsTyped, BoundsAssumption
<1>4. frames' = Put(frames, SP, frame) /\ FR' = SP /\ SP' = SP + 1 + n
  BY <1>1, <1>2 DEF Push
<1>5. UNCHANGED <<cps, owned>>
  BY DEF Call
<1> HIDE DEF frame
<1>6. b \in Nat /\ SP \in Nat /\ b <= SP /\ b <= FR /\ Above(frames, b)
  BY ConfinedProvides
<1>7. Stays(frames, owned, Put(frames, SP, frame), owned, b)
  BY <1>2, <1>6, StaysPut
<1>8. b <= SP' /\ b <= FR'
  BY <1>3, <1>4, <1>6
<1>9. QED
  BY <1>4, <1>5, <1>7, <1>8, ConfinedProvides DEF StaysInside

\* I_DEPART.
LEMMA DepartInside ==
  ASSUME NEW b, Confined(b), Depart
  PROVE  StaysInside(b)
<1>0. PICK kind \in Kinds : \E n \in SlotCounts(kind) :
        Push(Below(AfterExit(cps), frames), AfterExit(cps),
             Frame(kind, frames[FR].parent, CP, Null, n, frames[FR].ret))
  BY DEF Depart
<1>1. PICK n \in SlotCounts(kind) :
        Push(Below(AfterExit(cps), frames), AfterExit(cps),
             Frame(kind, frames[FR].parent, CP, Null, n, frames[FR].ret))
  BY <1>0
<1> DEFINE frame == Frame(kind, frames[FR].parent, CP, Null, n, frames[FR].ret)
           fs    == Below(AfterExit(cps), frames)
<1>2. frame.parent = frames[FR].parent /\ ~frame.isLocal /\ frame.slotCount = n
  BY DEF Frame
<1>3. n \in Nat
  BY StartIsTyped, BoundsAssumption
<1>4. /\ frames' = Put(fs, AfterExit(cps), frame)
      /\ FR' = AfterExit(cps) /\ SP' = AfterExit(cps) + 1 + n
  BY <1>1, <1>2 DEF Push
<1>5. /\ UNCHANGED cps
      /\ owned' = owned \ ClausesOf({FR}) \/ owned' = owned
  BY DEF Depart
<1> HIDE DEF frame
<1>6. frames[FR].kind # "query" /\ b <= frames[FR].parent /\ b \in Nat
  BY ConfinedProvides DEF Depart, Running
<1>7. b <= AfterExit(cps) /\ AfterExit(cps) \in Nat
  BY <1>6, ExitAbove, ConfinedProvides
<1>8. Elsewhere(frames, owned, b) \subseteq owned'
  BY <1>5, OwnAbove
<1>9. Stays(frames, owned, fs, owned', b)
  BY <1>7, <1>8, CutOffInside
<1> HIDE DEF fs
<1>10. Above(fs, b)
  BY <1>9 DEF Stays
<1>11. Stays(fs, owned', Put(fs, AfterExit(cps), frame), owned', b)
  BY <1>2, <1>6, <1>7, <1>10, StaysPut
<1>12. Stays(frames, owned, Put(fs, AfterExit(cps), frame), owned', b)
  BY <1>9, <1>11, StaysTwice
<1>13. b <= SP' /\ b <= FR'
  BY <1>3, <1>4, <1>6, <1>7
<1>14. QED
  BY <1>4, <1>5, <1>12, <1>13, ConfinedProvides DEF StaysInside

\* I_USERCALL.
LEMMA CallGoalInside ==
  ASSUME NEW b, Confined(b), CallGoal
  PROVE  StaysInside(b)
<1>1. UserCall(FR, SP, frames, cps, owned, pos) /\ UNCHANGED cps
  BY DEF CallGoal
<1>2. b \in Nat /\ SP \in Nat /\ b <= SP /\ b <= FR /\ Above(frames, b)
  BY ConfinedProvides
<1>3. /\ Stays(frames, owned, frames', owned', b)
      /\ b <= SP' /\ b <= FR'
  BY <1>1, <1>2, StaysUserCall
<1>4. QED
  BY <1>1, <1>3, ConfinedProvides DEF StaysInside

\* Notes in the frame that runs do not matter.
LEMMA NotesInside ==
  ASSUME NEW b, Confined(b), NEW gs, DOMAIN gs = DOMAIN frames,
         \A f \in DOMAIN frames : f # FR => gs[f] = frames[f],
         gs[FR].parent = frames[FR].parent, gs[FR].clause = frames[FR].clause,
         gs[FR].isLocal = frames[FR].isLocal, gs[FR].kind = frames[FR].kind
  PROVE  Stays(frames, owned, gs, owned, b)
<1>1. b \in Nat /\ FR \in Nat /\ b <= FR /\ Above(frames, b)
  BY ConfinedProvides
<1>2. \A f \in DOMAIN frames : f < b => f # FR
  BY <1>1
<1>3. Elsewhere(frames, owned, b) \subseteq owned
  BY OwnAbove
<1>4. \A f \in DOMAIN gs :
           b <= f => /\ gs[f].parent = frames[f].parent /\ gs[f].clause = frames[f].clause
                     /\ gs[f].isLocal => frames[f].isLocal
                     /\ gs[f].kind # "query" => frames[f].kind # "query"
  OBVIOUS
<1>5. \A f \in DOMAIN frames : f < b => f \in DOMAIN gs /\ gs[f] = frames[f]
  BY <1>2
<1>6. QED
  BY <1>1, <1>3, <1>4, <1>5, StaysLower

\* I_EXIT, I_FOREIGN, and a foreign predicate that leaves a choicepoint.
LEMMA ExitsInside ==
  ASSUME NEW b, Confined(b), Exit \/ Foreign \/ ForeignNondet
  PROVE  StaysInside(b)
<1>1. frames[FR].kind # "query"
  BY ConfinedProvides DEF Exit, Foreign, ForeignNondet, Running
<1>2. CASE Exit \/ Foreign
  BY <1>1, <1>2, LeaveInside, ConfinedProvides DEF Exit, Foreign
<1>3. CASE ForeignNondet
  <2>1. PICK c : c = Alternative("Head", At("foreign"), Null)
    OBVIOUS
  <2>2. c.at = SP /\ c.fr = FR
    BY <2>1, ChoiceAtTop
  <2>3. cps' = Append(cps, c) /\ Leave(Append(cps, c)) /\ pos.phase = "foreign"
    BY <1>3, <2>1 DEF ForeignNondet, Running
  <2>4. c \in ChoiceType
    BY <2>1, <2>3, ForeignBranches, ConfinedProvides DEF ForeignLeaves
  <2>5. Append(cps, c) \in Seq(ChoiceType)
    BY <2>4, ConfinedProvides
  <2>6. \A d \in ElementsOf(Append(cps, c)) : b <= d.at /\ b <= d.fr
    BY <2>2, AppendInside
  <2>7. PICK t \in Seq(ChoiceType) : t = Append(cps, c)
    BY <2>5
  <2>8. QED
    BY <1>1, <2>3, <2>6, <2>7, LeaveInside
<1>4. QED
  BY <1>2, <1>3

\* The last choicepoint is dropped, or not.
LEMMA ExitCatchInside ==
  ASSUME NEW b, Confined(b), ExitCatch
  PROVE  StaysInside(b)
<1>1. frames[FR].kind # "query"
  BY ConfinedProvides DEF ExitCatch, Running
<1>2. PICK t : /\ t = SubSeq(cps, 1, Len(cps) - 1) \/ t = cps
               /\ Leave(t) /\ cps' = t
  BY DEF ExitCatch
<1>3. \A c \in ElementsOf(t) : b <= c.at /\ b <= c.fr
  <2>1. CASE cps = <<>>
    <3>1. SubSeq(cps, 1, Len(cps) - 1) = <<>>
      BY <2>1
    <3>2. QED
      BY <1>2, <2>1, <3>1, ConfinedProvides
  <2>2. CASE cps # <<>>
    <3>1. Len(cps) - 1 \in 0..Len(cps)
      BY <2>2, ConfinedProvides
    <3>2. QED
      BY <1>2, <3>1, OldestInside, ConfinedProvides
  <2>3. QED
    BY <2>1, <2>2
<1>4. t \in Seq(ChoiceType)
  BY <1>2, ConfinedProvides
<1>5. QED
  BY <1>1, <1>2, <1>3, <1>4, LeaveInside

\* C_IF_THEN and C_IF_THEN_ELSE.
LEMMA ConditionsInside ==
  ASSUME NEW b, Confined(b), IfThen \/ IfThenElse
  PROVE  StaysInside(b)
<1>1. OpenCondition
  BY DEF IfThen, IfThenElse
<1>2. /\ DOMAIN frames' = DOMAIN frames
      /\ \A f \in DOMAIN frames : f # FR => frames'[f] = frames[f]
      /\ frames'[FR] = [frames[FR] EXCEPT !.cuts = [@ EXCEPT ![pos.used + 1] = CP]]
      /\ UNCHANGED <<FR, owned>>
  BY <1>1, ConfinedProvides DEF OpenCondition
<1>3. frames[FR] \in FrameType
  BY ConfinedProvides DEF FramesIn
<1>4. /\ frames'[FR].parent = frames[FR].parent /\ frames'[FR].clause = frames[FR].clause
      /\ frames'[FR].isLocal = frames[FR].isLocal /\ frames'[FR].kind = frames[FR].kind
  BY <1>2, <1>3 DEF FrameType
<1>5. Stays(frames, owned, frames', owned, b)
  BY <1>2, <1>4, NotesInside
<1>6. /\ \A c \in ElementsOf(cps') : b <= c.at /\ b <= c.fr
      /\ b <= SP'
  <2>1. CASE IfThen
    BY <2>1, ConfinedProvides DEF IfThen
  <2>2. CASE IfThenElse
    <3>1. PICK c : c.at = SP /\ c.fr = FR /\ cps' = Append(cps, c) /\ SP' = AfterChoice(c)
      BY <2>2, ChoiceAtTop DEF IfThenElse
    <3>2. QED
      BY <3>1, AppendInside
  <2>3. QED
    BY <2>1, <2>2
<1>7. b <= FR
  BY ConfinedProvides
<1>8. QED
  BY <1>2, <1>5, <1>6, <1>7 DEF StaysInside

\* I_CATCH leaves a choicepoint, and calls the goal; RaiseCatch does the first only.
LEMMA CatchInside ==
  ASSUME NEW b, Confined(b), Catch \/ RaiseCatch
  PROVE  StaysInside(b)
<1>1. PICK c : c = Alternative("Head", NoPC, Null)
  OBVIOUS
<1>2. c.at = SP /\ c.fr = FR
  BY <1>1, ChoiceAtTop
<1>3. PICK gs : gs = CatchFrames(c)
  OBVIOUS
<1>4. /\ \A d \in ElementsOf(Append(cps, c)) : b <= d.at /\ b <= d.fr
      /\ AfterChoice(c) \in Nat /\ SP < AfterChoice(c) /\ b <= AfterChoice(c)
  BY <1>2, AppendInside
<1>5. frames[FR] \in FrameType
  BY ConfinedProvides DEF FramesIn
<1>6. /\ DOMAIN gs = DOMAIN frames
      /\ \A f \in DOMAIN frames : f # FR => gs[f] = frames[f]
      /\ gs[FR].parent = frames[FR].parent /\ gs[FR].clause = frames[FR].clause
      /\ gs[FR].isLocal = frames[FR].isLocal /\ gs[FR].kind = frames[FR].kind
  <2>1. FR \in DOMAIN frames
    BY ConfinedProvides
  <2>2. /\ DOMAIN gs = DOMAIN frames
        /\ \A f \in DOMAIN frames : f # FR => gs[f] = frames[f]
        /\ gs[FR] = [frames[FR] EXCEPT !.choicepoint = c.at, !.cuts = [@ EXCEPT ![1] = c.at]]
    BY <1>3, <2>1 DEF CatchFrames
  <2>3. QED
    BY <1>5, <2>2 DEF FrameType
<1>7. Stays(frames, owned, gs, owned, b)
  BY <1>6, NotesInside
<1>8. b \in Nat /\ b <= FR
  BY ConfinedProvides
<1>9. CASE Catch
  <2>1. cps' = Append(cps, c) /\ UserCall(FR, AfterChoice(c), gs, Append(cps, c), owned, At("exitcatch"))
    BY <1>1, <1>3, <1>9 DEF Catch, CatchFrames
  <2>2. Above(gs, b)
    BY <1>7 DEF Stays
  <2>3. Stays(gs, owned, frames', owned', b) /\ b <= SP' /\ b <= FR'
    BY <1>4, <1>8, <2>1, <2>2, StaysUserCall
  <2>4. Stays(frames, owned, frames', owned', b)
    BY <1>7, <2>3, StaysTwice
  <2>5. QED
    BY <1>4, <2>1, <2>3, <2>4 DEF StaysInside
<1>10. CASE RaiseCatch
  <2>1. /\ cps' = Append(cps, c) /\ frames' = gs /\ SP' = AfterChoice(c)
        /\ UNCHANGED <<FR, owned>>
    BY <1>1, <1>3, <1>10 DEF RaiseCatch, CatchFrames
  <2>2. QED
    BY <1>4, <1>7, <1>8, <2>1 DEF StaysInside
<1>11. QED
  BY <1>9, <1>10

\* A foreign predicate raises an error after it left a choicepoint; and the call of an unknown
\* procedure, after the clause has been given up.
LEMMA RaisesInside ==
  ASSUME NEW b, Confined(b), RaiseNondet \/ RaiseDepart
  PROVE  StaysInside(b)
<1>1. b \in Nat /\ SP \in Nat /\ b <= SP /\ b <= FR
  BY ConfinedProvides
<1>2. CASE RaiseNondet
  <2>1. PICK c : /\ c.at = SP /\ c.fr = FR
                 /\ cps' = Append(cps, c) /\ SP' = SP + 1 /\ UNCHANGED <<FR, frames, owned>>
    BY <1>2, ChoiceAtTop DEF RaiseNondet
  <2>2. Stays(frames, owned, frames, owned, b)
    BY ConfinedProvides DEF Stays, SameBelow
  <2>3. \A d \in ElementsOf(Append(cps, c)) : b <= d.at /\ b <= d.fr
    BY <2>1, AppendInside
  <2>4. b <= SP'
    BY <1>1, <2>1
  <2>5. QED
    BY <1>1, <2>1, <2>2, <2>3, <2>4 DEF StaysInside
<1>3. CASE RaiseDepart
  <2>1. /\ SP' = AfterExit(cps) /\ UNCHANGED <<FR, frames, cps>>
        /\ owned' = owned \ ClausesOf({FR}) \/ owned' = owned
    BY <1>3 DEF RaiseDepart
  <2>2. frames[FR].kind # "query"
    BY <1>3, ConfinedProvides DEF RaiseDepart, Running
  <2>3. b <= AfterExit(cps)
    BY <2>2, ExitAbove, ConfinedProvides
  <2>4. Elsewhere(frames, owned, b) \subseteq owned'
    BY <2>1, OwnAbove
  <2>5. PICK gone : gone = {}
    OBVIOUS
  <2>6. /\ b \in Nat /\ SP \in Nat /\ b <= SP /\ Above(frames, b) /\ FramesIn(frames)
        /\ \A f \in gone : f \in DOMAIN frames => b <= f
    BY <2>5, ConfinedProvides
  <2>7. Stays(frames, owned, frames, owned', b)
    BY <2>4, <2>6, StaysBelow
  <2>8. QED
    BY <1>1, <2>1, <2>3, <2>7, ConfinedProvides DEF StaysInside
<1>4. QED
  BY <1>2, <1>3

\* What cuts and backtracking abandon lies at or above b.
LEMMA AbandonedAbove ==
  ASSUME Stacked(frames, cps), NEW b \in Nat, Inside(b), NEW n \in Nat
  PROVE  /\ \A f \in CutFrames(n) : f \in DOMAIN frames /\ b <= f
         /\ FR \in DOMAIN frames /\ b <= FR /\ n \in DOMAIN cps =>
              \A f \in Abandoned(n) : f \in DOMAIN frames /\ b <= f
<1>1. cps \in Seq(ChoiceType)
  BY DEF Stacked
<1>2. Len(cps) \in Nat /\ DOMAIN cps = 1..Len(cps)
  BY <1>1
<1>3. \A i \in DOMAIN cps : \A f \in Ancestors(cps[i].fr) : f \in DOMAIN frames /\ b <= f
  BY LiveAbove
<1>4. \A f \in CutFrames(n) : f \in DOMAIN frames /\ b <= f
  <2>1. ASSUME NEW f \in CutFrames(n)
        PROVE  f \in DOMAIN frames /\ b <= f
    <3>1. PICK i \in n + 1..Len(cps) : f \in Ancestors(cps[i].fr)
      BY <2>1 DEF CutFrames
    <3>2. i \in DOMAIN cps
      BY <1>2, <3>1
    <3>3. QED
      BY <1>3, <3>1, <3>2
  <2>2. QED
    BY <2>1
<1>5. ASSUME FR \in DOMAIN frames, b <= FR, n \in DOMAIN cps, NEW f \in Abandoned(n)
      PROVE  f \in DOMAIN frames /\ b <= f
  <2>1. \A g \in Continuation : g \in DOMAIN frames /\ b <= g
    BY <1>5, LiveAbove
  <2>2. PICK i \in n..Len(cps) : f \in Ancestors(IF i = Len(cps) THEN FR ELSE cps[i + 1].fr)
    BY <1>5 DEF Abandoned
  <2>3. CASE i = Len(cps)
    BY <2>1, <2>2, <2>3 DEF Continuation
  <2>4. CASE i # Len(cps)
    <3>1. i + 1 \in DOMAIN cps
      <4>1. n \in 1..Len(cps)
        BY <1>2, <1>5
      <4>2. i \in n..Len(cps)
        BY <2>2
      <4>3. PICK l \in Nat : l = Len(cps)
        BY <1>2
      <4>4. n \in 1..l /\ i \in n..l /\ i # l
        BY <2>4, <4>1, <4>2, <4>3
      <4>5. i + 1 \in 1..l
        BY <4>4
      <4>6. QED
        BY <1>2, <4>3, <4>5
    <3>2. QED
      BY <1>3, <2>2, <2>4, <3>1
  <2>5. QED
    BY <2>3, <2>4
<1>6. QED
  BY <1>4, <1>5

\* I_CUT and C_CUT.
LEMMA CutsInside ==
  ASSUME NEW b, Confined(b), CutBody \/ CutCondition
  PROVE  StaysInside(b)
<1>1. PICK target, q : CutsTo(target, q) /\ (Cut(target, q) \/ CutCleanup(target))
  BY CutBodyTarget, CutConditionTarget, ConfinedProvides
<1>2. /\ b \in Nat /\ Stacked(frames, cps) /\ Inside(b) /\ FR \in Nat /\ SP \in Nat /\ b <= SP /\ b <= FR
      /\ Ready(frames, cps, FR, pos, SP) /\ Above(frames, b) /\ FramesIn(frames)
      /\ Len(cps) \in Nat /\ DOMAIN cps = 1..Len(cps)
  BY ConfinedProvides DEF Confined, CanRun
<1>3. target \in Targets(frames, FR, pos)
  BY <1>1 DEF CutsTo
<1>4. CASE Cut(target, q)
  <2>1. PICK n \in 0..Len(cps) :
          /\ \A i \in DOMAIN cps : i > n <=> cps[i].at > target
          /\ cps'    = SubSeq(cps, 1, n)
          /\ SP'     = CutSP(n)
          /\ frames' = Below(CutSP(n), Disowned(frames, CutFrames(n)))
          /\ owned'  = owned \ ClausesOf(CutFrames(n))
          /\ FR' = FR
    BY <1>4 DEF Cut
  <2>2. CutSP(n) \in Nat /\ FR < CutSP(n)
    BY <1>2, <1>3, <2>1, CutLeaves
  <2>3. b <= CutSP(n)
    BY <1>2, <2>2
  <2>4. PICK gone : gone = CutFrames(n)
    OBVIOUS
  <2>5. n \in Nat
    BY <1>2, <2>1
  <2>6. \A f \in gone : f \in DOMAIN frames /\ b <= f
    BY <1>2, <2>4, <2>5, AbandonedAbove
  <2>7. Elsewhere(frames, owned, b) \subseteq owned \ ClausesOf(gone)
    BY <2>6, FreesAbove
  <2>8. Stays(frames, owned, Below(CutSP(n), Disowned(frames, gone)), owned \ ClausesOf(gone), b)
    BY <1>2, <2>2, <2>3, <2>6, <2>7, StaysBelow
  <2>9. \A c \in ElementsOf(SubSeq(cps, 1, n)) : b <= c.at /\ b <= c.fr
    BY <1>2, OldestInside, ConfinedProvides
  <2>10. QED
    BY <1>2, <2>1, <2>3, <2>4, <2>8, <2>9 DEF StaysInside
<1>5. CASE CutCleanup(target)
  <2>1. PICK n \in DOMAIN cps :
          /\ cps' = SubSeq(cps, 1, n - 1)
          /\ UserCall(FR, SP, Disowned(frames, CutFrames(n - 1)), cps',
                      owned \ ClausesOf(CutFrames(n - 1)), pos)
    BY <1>5 DEF CutCleanup
  <2>2. n - 1 \in 0..Len(cps) /\ n - 1 \in Nat
    BY <1>2, <2>1
  <2>3. PICK gone : gone = CutFrames(n - 1)
    OBVIOUS
  <2>4. \A f \in gone : f \in DOMAIN frames /\ b <= f
    BY <1>2, <2>2, <2>3, AbandonedAbove
  <2>5. Elsewhere(frames, owned, b) \subseteq owned \ ClausesOf(gone)
    BY <2>4, FreesAbove
  <2>6. PICK fs, kept : fs = Disowned(frames, gone) /\ kept = owned \ ClausesOf(gone)
    OBVIOUS
  <2>7. Stays(frames, owned, fs, kept, b)
    BY <1>2, <2>4, <2>5, <2>6, StaysBelow
  <2>8. Above(fs, b) /\ UserCall(FR, SP, fs, cps', kept, pos)
    BY <2>1, <2>3, <2>6, <2>7 DEF Stays
  <2>9. Stays(fs, kept, frames', owned', b) /\ b <= SP' /\ b <= FR'
    BY <1>2, <2>8, StaysUserCall
  <2>10. Stays(frames, owned, frames', owned', b)
    BY <2>7, <2>9, StaysTwice
  <2>11. \A c \in ElementsOf(SubSeq(cps, 1, n - 1)) : b <= c.at /\ b <= c.fr
    BY <1>2, <2>2, OldestInside, ConfinedProvides
  <2>12. QED
    BY <2>1, <2>9, <2>10, <2>11 DEF StaysInside
<1>6. QED
  BY <1>1, <1>4, <1>5

\* apply_choicepoint leaves what is below b alone.
LEMMA ApplyInside ==
  ASSUME Stacked(frames, cps), NEW b \in Nat, Inside(b), NEW c, c.at \in Nat, c.fr \in Nat, b <= c.at, b <= c.fr,
         c.fr \in DOMAIN frames, c.fr < c.at, c.clause = frames[c.fr].clause, c.slotCount \in 0..MaxSlots,
         NEW gone, \A f \in gone : f \in DOMAIN frames /\ b <= f, Apply(c, gone)
  PROVE  /\ Stays(frames, owned, frames', owned', b)
         /\ b <= SP' /\ b <= FR'
<1> DEFINE low == Below(c.at, Disowned(frames, gone))
<1>1. /\ FR' = c.fr /\ owned' = owned \ ClausesOf(gone)
      /\ SP' = c.at \/ SP' = c.fr + 1 + c.slotCount
      /\ frames' = [low EXCEPT ![c.fr].clause = c.clause, ![c.fr].slotCount = c.slotCount]
  BY DEF Apply
<1>2. FramesIn(frames) /\ Above(frames, b) /\ b <= SP
  BY DEF Stacked, Inside
<1>3. \A f \in DOMAIN frames : f \in Nat /\ frames[f] \in FrameType
  BY <1>2, BoundsAssumption DEF FramesIn
<1>4. /\ DOMAIN low = {f \in DOMAIN frames : f < c.at}
      /\ \A f \in DOMAIN low : low[f] = IF f \in gone THEN [frames[f] EXCEPT !.isLocal = FALSE] ELSE frames[f]
  BY DEF Below, Disowned
<1> HIDE DEF low
<1>5. c.fr \in DOMAIN low /\ low[c.fr] \in FrameType
  <2>1. c.fr \in DOMAIN low
    BY <1>4
  <2>2. PICK r \in FrameType : r = frames[c.fr]
    BY <1>3
  <2>3. low[c.fr] = r \/ low[c.fr] = [r EXCEPT !.isLocal = FALSE]
    BY <1>4, <2>1, <2>2
  <2>4. [r EXCEPT !.isLocal = FALSE] \in FrameType
    BY DEF FrameType
  <2>5. QED
    BY <2>1, <2>3, <2>4
<1>6. /\ DOMAIN frames' = DOMAIN low
      /\ \A f \in DOMAIN low : f # c.fr => frames'[f] = low[f]
      /\ frames'[c.fr] = [low[c.fr] EXCEPT !.clause = c.clause, !.slotCount = c.slotCount]
  BY <1>1, <1>5
<1>7. \A f \in DOMAIN low : /\ low[f].parent = frames[f].parent /\ low[f].clause = frames[f].clause
                            /\ low[f].isLocal => frames[f].isLocal
                            /\ low[f].kind = frames[f].kind
  <2>1. ASSUME NEW f \in DOMAIN low
        PROVE  /\ low[f].parent = frames[f].parent /\ low[f].clause = frames[f].clause
               /\ low[f].isLocal => frames[f].isLocal
               /\ low[f].kind = frames[f].kind
    <3>1. frames[f] \in FrameType
      BY <1>3, <1>4
    <3>2. QED
      BY <1>4, <3>1 DEF FrameType
  <2>2. QED
    BY <2>1
<1>8. /\ frames'[c.fr].parent = low[c.fr].parent /\ frames'[c.fr].clause = c.clause
      /\ frames'[c.fr].isLocal = low[c.fr].isLocal /\ frames'[c.fr].kind = low[c.fr].kind
  BY <1>5, <1>6 DEF FrameType
<1>9. \A f \in DOMAIN frames' :
           b <= f => /\ frames'[f].parent = frames[f].parent /\ frames'[f].clause = frames[f].clause
                     /\ frames'[f].isLocal => frames[f].isLocal
                     /\ frames'[f].kind # "query" => frames[f].kind # "query"
  <2>1. ASSUME NEW f \in DOMAIN frames'
        PROVE  /\ frames'[f].parent = frames[f].parent /\ frames'[f].clause = frames[f].clause
               /\ frames'[f].isLocal => frames[f].isLocal
               /\ frames'[f].kind = frames[f].kind
    <3>1. CASE f = c.fr
      BY <1>5, <1>7, <1>8, <3>1
    <3>2. CASE f # c.fr
      BY <1>6, <1>7, <3>2
    <3>3. QED
      BY <3>1, <3>2
  <2>2. QED
    BY <2>1
<1>10. \A f \in DOMAIN frames : f < b => f \in DOMAIN frames' /\ frames'[f] = frames[f]
  <2>1. ASSUME NEW f \in DOMAIN frames, f < b
        PROVE  f \in DOMAIN frames' /\ frames'[f] = frames[f]
    <3>1. f \in Nat /\ f < c.at /\ f # c.fr /\ ~(b <= f)
      BY <1>3, <2>1
    <3>2. f \notin gone
      BY <3>1
    <3>3. QED
      BY <1>4, <1>6, <3>1, <3>2
  <2>2. QED
    BY <2>1
<1>11. DOMAIN frames' \subseteq DOMAIN frames
  BY <1>4, <1>6
<1>12. Elsewhere(frames, owned, b) \subseteq owned'
  BY <1>1, FreesAbove
<1>13. Stays(frames, owned, frames', owned', b)
  BY <1>2, <1>9, <1>10, <1>11, <1>12, StaysLower
<1>14. b <= SP'
  <2>1. c.slotCount \in Nat
    BY BoundsAssumption
  <2>2. QED
    BY <1>1, <2>1
<1>15. QED
  BY <1>1, <1>13, <1>14

\* I_FAIL and its like.
LEMMA BacktrackInside ==
  ASSUME NEW b, Confined(b), Backtrack
  PROVE  StaysInside(b)
<1>1. CASE cps = <<>> /\ UNCHANGED <<FR, SP, frames, cps, owned>>
  BY <1>1, KeepsInside
<1>2. ASSUME NEW n \in DOMAIN cps, cps' = SubSeq(cps, 1, n - 1), Apply(cps[n], Abandoned(n))
      PROVE  StaysInside(b)
  <2>1. PICK c, gone : c = cps[n] /\ gone = Abandoned(n)
    OBVIOUS
  <2>2. /\ b \in Nat /\ Stacked(frames, cps) /\ Inside(b) /\ FR \in DOMAIN frames /\ b <= FR
        /\ Len(cps) \in Nat /\ DOMAIN cps = 1..Len(cps)
    BY ConfinedProvides DEF Confined
  <2>3. /\ c \in ChoiceType /\ c.fr \in DOMAIN frames /\ c.fr < c.at /\ c.clause = frames[c.fr].clause
    BY <1>2, <2>1, ChoiceAppliedOK, ConfinedProvides
  <2>4. c.at \in Nat /\ c.fr \in Nat /\ c.slotCount \in 0..MaxSlots
    BY <2>3 DEF ChoiceType
  <2>5. b <= c.at /\ b <= c.fr
    <3>1. c \in ElementsOf(cps)
      BY <1>2, <2>1 DEF ElementsOf
    <3>2. QED
      BY <3>1, ConfinedProvides
  <2>6. n \in Nat /\ n - 1 \in 0..Len(cps)
    BY <1>2, <2>2
  <2>7. \A f \in gone : f \in DOMAIN frames /\ b <= f
    BY <1>2, <2>1, <2>2, <2>6, AbandonedAbove
  <2>8. Apply(c, gone)
    BY <1>2, <2>1
  <2>9. /\ Stays(frames, owned, frames', owned', b)
        /\ b <= SP' /\ b <= FR'
    BY <2>2, <2>3, <2>4, <2>5, <2>7, <2>8, ApplyInside
  <2>10. \A d \in ElementsOf(SubSeq(cps, 1, n - 1)) : b <= d.at /\ b <= d.fr
    BY <2>6, OldestInside, ConfinedProvides
  <2>11. QED
    BY <1>2, <2>9, <2>10 DEF StaysInside
<1>3. QED
  BY <1>1, <1>2 DEF Backtrack

\* While a ball is on its way in a query that lies at or above b
ThrownInside(b) == OnItsWay /\ b \in Nat /\ Inside(b) /\ b <= FR

\* What a catcher f returns to, at choicepoint n, leaves what is below b alone.
LEMMA ReturnInside ==
  ASSUME NEW b, ThrownInside(b), NEW f \in Catchers, NEW n, n = ChoiceOf(f)
  PROVE  /\ ReturnsTo(f, n, StackAt(n), ChoicesAt(n))
         /\ Stays(frames, owned, StackAt(n), OwnedAt(n), b)
         /\ \A c \in ElementsOf(ChoicesAt(n)) : b <= c.at /\ b <= c.fr
         /\ AfterFrame(f) \in Nat /\ b <= AfterFrame(f) /\ b <= frames[f].parent /\ b <= f
<1>1. OnItsWay /\ b \in Nat /\ Inside(b) /\ b <= FR
  BY DEF ThrownInside
<1>2. n \in DOMAIN cps /\ ReturnsTo(f, n, StackAt(n), ChoicesAt(n))
  BY <1>1, FoundReturns
<1>3. /\ Stacked(frames, cps) /\ FR \in DOMAIN frames
      /\ f \in DOMAIN frames /\ frames[f].kind = "catch/3"
      /\ cps[n].fr = f
  BY <1>2 DEF ReturnsTo, Returning
<1>4. cps \in Seq(ChoiceType) /\ FramesIn(frames)
  BY <1>3 DEF Stacked
<1>5. Len(cps) \in Nat /\ DOMAIN cps = 1..Len(cps)
  BY <1>4
<1>6. n \in Nat /\ n - 1 \in 0..Len(cps)
  BY <1>2, <1>5
<1>7. /\ Above(frames, b) /\ b <= SP
      /\ \A c \in ElementsOf(cps) : b <= c.at /\ b <= c.fr
  BY <1>1 DEF Inside
<1>8. cps[n] \in ElementsOf(cps) /\ cps[n].at \in Nat
  BY <1>2, CatcherLeaves
<1>9. b <= cps[n].at /\ b <= f
  BY <1>3, <1>7, <1>8
<1>10. PICK gone : gone = Abandoned(n)
  OBVIOUS
<1>11. \A g \in gone : g \in DOMAIN frames /\ b <= g
  BY <1>1, <1>2, <1>3, <1>6, <1>10, AbandonedAbove
<1>12. Elsewhere(frames, owned, b) \subseteq owned \ ClausesOf(gone)
  BY <1>11, FreesAbove
<1>13. Stays(frames, owned, Below(cps[n].at, Disowned(frames, gone)), owned \ ClausesOf(gone), b)
  BY <1>1, <1>4, <1>7, <1>8, <1>9, <1>11, <1>12, StaysBelow
<1>14. \A c \in ElementsOf(SubSeq(cps, 1, n - 1)) : b <= c.at /\ b <= c.fr
  BY <1>4, <1>6, <1>7, OldestInside
<1>15. AfterFrame(f) \in Nat /\ f < AfterFrame(f) /\ f \in Nat
  BY <1>3, <1>4, AfterFrameAbove
<1>16. b <= frames[f].parent
  BY <1>3, <1>7, <1>9 DEF Above
<1>17. b <= AfterFrame(f)
  BY <1>1, <1>9, <1>15
<1>18. QED
  BY <1>2, <1>9, <1>10, <1>13, <1>14, <1>15, <1>16, <1>17 DEF StackAt, OwnedAt, ChoicesAt

\* The ball is caught.
LEMMA CaughtInside ==
  ASSUME NEW b, ThrownInside(b), Caught
  PROVE  StaysInside(b)
<1>1. PICK f \in Catchers : \E n : /\ n = ChoiceOf(f)
                                   /\ cps' = ChoicesAt(n)
                                   /\ UserCall(frames[f].parent, AfterFrame(f),
                                               [StackAt(n) EXCEPT ![f].kind = "caught"],
                                               cps', OwnedAt(n), frames[f].ret)
  BY DEF Caught
<1>2. PICK n : /\ n = ChoiceOf(f)
               /\ cps' = ChoicesAt(n)
               /\ UserCall(frames[f].parent, AfterFrame(f), [StackAt(n) EXCEPT ![f].kind = "caught"],
                           cps', OwnedAt(n), frames[f].ret)
  BY <1>1
<1>3. PICK low, gs, kept : /\ low = StackAt(n) /\ gs = [low EXCEPT ![f].kind = "caught"]
                           /\ kept = OwnedAt(n)
  OBVIOUS
<1>4. /\ ReturnsTo(f, n, low, ChoicesAt(n))
      /\ Stays(frames, owned, low, kept, b)
      /\ \A c \in ElementsOf(cps') : b <= c.at /\ b <= c.fr
      /\ AfterFrame(f) \in Nat /\ b <= AfterFrame(f) /\ b <= frames[f].parent /\ b <= f
  BY <1>2, <1>3, ReturnInside
<1>5. Takes(f, n, low, ChoicesAt(n), gs)
  BY <1>3, <1>4 DEF Takes
<1>6. Caught1(low, gs, f)
  BY <1>5, TakesMarks
<1>7. b \in Nat /\ Above(low, b)
  BY <1>4 DEF Stays, ThrownInside
<1>8. Stays(low, kept, gs, kept, b)
  <2>1. /\ DOMAIN gs = DOMAIN low /\ \A e \in DOMAIN low : e # f => gs[e] = low[e]
        /\ gs[f].parent = low[f].parent /\ gs[f].clause = low[f].clause /\ gs[f].isLocal = low[f].isLocal
        /\ low[f].kind # "query"
    BY <1>6 DEF Caught1, SameOwner
  <2>2. \A e \in DOMAIN low : e \in Nat
    BY <1>4, CatcherLeaves
  <2>3. \A e \in DOMAIN low : e < b => e # f
    BY <1>4, <1>7, <2>2
  <2>4. \A e \in DOMAIN low : e < b => e \in DOMAIN gs /\ gs[e] = low[e]
    BY <2>1, <2>3
  <2>5. \A e \in DOMAIN gs :
           b <= e => /\ gs[e].parent = low[e].parent /\ gs[e].clause = low[e].clause
                     /\ gs[e].isLocal => low[e].isLocal
                     /\ gs[e].kind # "query" => low[e].kind # "query"
    BY <2>1
  <2>6. Elsewhere(low, kept, b) \subseteq kept
    BY DEF Elsewhere
  <2>7. QED
    BY <1>7, <2>1, <2>4, <2>5, <2>6, StaysLower
<1>9. Above(gs, b) /\ UserCall(frames[f].parent, AfterFrame(f), gs, cps', kept, frames[f].ret)
  BY <1>2, <1>3, <1>8 DEF Stays
<1>10. Stays(gs, kept, frames', owned', b) /\ b <= SP' /\ b <= FR'
  BY <1>4, <1>7, <1>9, StaysUserCall
<1>11. Stays(frames, owned, gs, kept, b)
  BY <1>4, <1>8, StaysTwice
<1>12. Stays(frames, owned, frames', owned', b)
  BY <1>10, <1>11, StaysTwice
<1>13. QED
  BY <1>4, <1>10, <1>12 DEF StaysInside

\* The query ends with an error.
LEMMA UncaughtInside ==
  ASSUME NEW b, ThrownInside(b), Uncaught
  PROVE  StaysInside(b)
<1>1. status' = "error"
  BY DEF Uncaught
<1>2. CASE UNCHANGED <<SP, frames, cps, owned>>
  <2>1. Stays(frames, owned, frames, owned, b)
    BY DEF Stays, SameBelow, ThrownInside, Inside
  <2>2. QED
    BY <1>1, <1>2, <2>1 DEF StaysInside, ThrownInside, Inside
<1>3. ASSUME NEW f \in Catchers, NEW n, n = ChoiceOf(f),
             SP' = AfterFrame(f), frames' = StackAt(n), cps' = ChoicesAt(n), owned' = OwnedAt(n)
      PROVE  StaysInside(b)
  BY <1>1, <1>3, ReturnInside DEF StaysInside
<1>4. QED
  BY <1>2, <1>3 DEF Uncaught

\* Every instruction, and every way to raise a ball.
LEMMA StepInside ==
  ASSUME NEW b, Confined(b), Next \/ Raise \/ RaiseNondet \/ RaiseCatch \/ RaiseDepart
  PROVE  StaysInside(b)
<1>1. ASSUME Enter \/ MakeVar \/ BindVar \/ ExitQuery \/ CutWithinCondition \/ Raise
      PROVE  StaysInside(b)
  <2>1. UNCHANGED <<FR, SP, frames, cps, owned>>
    BY <1>1 DEF Enter, MakeVar, BindVar, ExitQuery, CutWithinCondition, Raise
  <2>2. QED
    BY <2>1, KeepsInside
<1>2. CASE Fail \/ ForeignFail \/ BacktrackQuery
  BY <1>2, BacktrackInside DEF Fail, ForeignFail, BacktrackQuery
<1>3. CASE TryMe \/ Or \/ CleanupChoicepoint
  BY <1>3, BranchInside
<1>4. CASE Call \/ Depart \/ CallGoal
  BY <1>4, CallInside, DepartInside, CallGoalInside
<1>5. CASE Exit \/ Foreign \/ ForeignNondet \/ ExitCatch
  BY <1>5, ExitsInside, ExitCatchInside
<1>6. CASE IfThen \/ IfThenElse \/ CutBody \/ CutCondition
  BY <1>6, ConditionsInside, CutsInside
<1>7. CASE Catch \/ RaiseCatch \/ RaiseNondet \/ RaiseDepart
  BY <1>7, CatchInside, RaisesInside
<1>8. QED
  BY <1>1, <1>2, <1>3, <1>4, <1>5, <1>6, <1>7 DEF Next, Instruction

(***************************************************************************)
(* The heap of a query                                                     *)
(***************************************************************************)
\* Its first h cells are older than the query.
Higher(h) == h <= Len(heap) /\ \A c \in ElementsOf(cps) : h <= c.h

\* What is known of the marks, as numbers
LEMMA MarksAreNumbers ==
  ASSUME MemoryOK, MarksOrdered
  PROVE  /\ Len(heap) \in Nat /\ Len(trail) \in Nat /\ Len(cps) \in Nat /\ DOMAIN cps = 1..Len(cps)
         /\ \A i \in DOMAIN cps : cps[i].h \in Nat /\ cps[i].tr \in Nat /\ cps[i].h <= Len(heap)
                                  /\ cps[i].tr <= Len(trail) /\ cps[i] \in ElementsOf(cps)
<1>1. heap \in Seq(1..HeapSize \cup Atoms) /\ trail \in Seq(1..HeapSize) /\ cps \in Seq(Choices)
  BY DEF MemoryOK, MarksOrdered
<1>2. Len(heap) \in Nat /\ Len(trail) \in Nat /\ Len(cps) \in Nat /\ DOMAIN cps = 1..Len(cps)
  BY <1>1
<1>3. \A i \in DOMAIN cps : cps[i].tr \in 0..Len(trail) /\ cps[i].h \in 0..Len(heap)
  BY DEF MarksOrdered
<1>4. QED
  BY <1>2, <1>3 DEF ElementsOf

\* No choicepoints but those that were there.
LEMMA OldestHigher ==
  ASSUME NEW h \in Nat, Higher(h), MemoryOK, MarksOrdered, NEW n \in 0..Len(cps), cps' = SubSeq(cps, 1, n)
  PROVE  \A c \in ElementsOf(cps') : h <= c.h
<1>1. DOMAIN cps' = 1..n /\ \A i \in 1..n : i \in DOMAIN cps /\ cps'[i] = cps[i]
  BY AfterDrop DEF MarksOrdered
<1>2. \A i \in DOMAIN cps : cps[i] \in ElementsOf(cps)
  BY DEF ElementsOf
<1>3. \A c \in ElementsOf(cps) : h <= c.h
  BY DEF Higher
<1>4. QED
  BY <1>1, <1>2, <1>3 DEF ElementsOf

\* No instruction resets the heap below.
LEMMA StaysHigher ==
  ASSUME NEW h \in Nat, Higher(h), MemoryOK, MarksOrdered, DataStep
  PROVE  h <= Len(heap') /\ \A c \in ElementsOf(cps') : h <= c.h
<1>1. h <= Len(heap) /\ \A c \in ElementsOf(cps) : h <= c.h
  BY DEF Higher
<1>2. CASE Grows /\ (Keeps \/ Pushes \/ Drops)
  <2>1. MemoryOK' /\ Len(heap) <= Len(heap')
    BY <1>2, GrowsKeeps
  <2>2. Len(heap') \in Nat /\ Len(heap) \in Nat
    BY <2>1 DEF MemoryOK
  <2>3. h <= Len(heap')
    BY <1>1, <2>1, <2>2
  <2>4. CASE Keeps
    BY <1>1, <2>3, <2>4 DEF Keeps
  <2>5. CASE Pushes
    <3>1. PICK c : cps' = Append(cps, c) /\ c.h = Len(heap)
      BY <2>5 DEF Pushes
    <3>2. /\ DOMAIN cps' = 1..Len(cps) + 1
          /\ \A i \in DOMAIN cps : i \in DOMAIN cps' /\ cps'[i] = cps[i]
          /\ cps'[Len(cps) + 1] = c
      BY <3>1, AfterPush DEF MarksOrdered
    <3>3. Len(cps) \in Nat /\ DOMAIN cps = 1..Len(cps)
      BY MarksAreNumbers
    <3>4. \A i \in DOMAIN cps' : i \in DOMAIN cps \/ i = Len(cps) + 1
      BY <3>2, <3>3
    <3>5. \A i \in DOMAIN cps : h <= cps[i].h
      BY <1>1 DEF ElementsOf
    <3>6. \A i \in DOMAIN cps' : h <= cps'[i].h
      BY <1>1, <3>1, <3>2, <3>4, <3>5
    <3>7. QED
      BY <2>3, <3>6 DEF ElementsOf
  <2>6. CASE Drops
    <3>1. PICK n \in 0..Len(cps) : cps' = SubSeq(cps, 1, n)
      BY <2>6 DEF Drops
    <3>2. QED
      BY <2>3, <3>1, OldestHigher
  <2>7. QED
    BY <1>2, <2>4, <2>5, <2>6
<1>3. CASE Returns
  <2>1. PICK n \in DOMAIN cps :
          /\ heap'  = Undone(cps[n].tr, cps[n].h)
          /\ cps'   = SubSeq(cps, 1, n - 1)
    BY <1>3 DEF Returns
  <2>2. n - 1 \in 0..Len(cps) /\ cps[n] \in ElementsOf(cps)
    BY MarksAreNumbers
  <2>3. cps[n].tr \in 0..Len(trail) /\ cps[n].h \in 0..Len(heap)
    BY DEF MarksOrdered
  <2>4. Len(Undone(cps[n].tr, cps[n].h)) = cps[n].h
    BY <2>3, UndoneMemory
  <2>5. QED
    BY <1>1, <2>1, <2>2, <2>4, OldestHigher
<1>4. CASE Empties
  <2>1. PICK k \in {Len(heap)} \cup {cps[n].h : n \in DOMAIN cps} : heap' = Undone(0, k)
    BY <1>4 DEF Empties
  <2>2. k \in 0..Len(heap) /\ h <= k
    <3>1. CASE k = Len(heap)
      BY <1>1, <3>1, MarksAreNumbers
    <3>2. ASSUME NEW n \in DOMAIN cps, k = cps[n].h
          PROVE  k \in 0..Len(heap) /\ h <= k
      BY <1>1, <3>2, MarksAreNumbers DEF MarksOrdered
    <3>3. QED
      BY <2>1, <3>1, <3>2
  <2>3. 0 \in 0..Len(trail)
    BY MarksAreNumbers
  <2>4. Len(heap') = k
    BY <2>1, <2>2, <2>3, UndoneMemory
  <2>5. ElementsOf(cps') = {}
    BY <1>4 DEF Empties, ElementsOf
  <2>6. QED
    BY <2>2, <2>4, <2>5
<1>5. QED
  BY <1>2, <1>3, <1>4 DEF DataStep

\* Nor does a catcher that is returned to.
LEMMA ThrowHigher ==
  ASSUME NEW h \in Nat, Higher(h), OnItsWay, Caught \/ Uncaught
  PROVE  h <= Len(heap') /\ \A c \in ElementsOf(cps') : h <= c.h
<1>1. MemoryOK /\ MarksOrdered
  BY DEF OnItsWay
<1>2. h <= Len(heap) /\ \A c \in ElementsOf(cps) : h <= c.h
  BY DEF Higher
<1>3. ASSUME NEW n \in DOMAIN cps, cps' = ChoicesAt(n), Len(heap') = cps[n].h
      PROVE  h <= Len(heap') /\ \A c \in ElementsOf(cps') : h <= c.h
  <2>1. n - 1 \in 0..Len(cps) /\ cps[n] \in ElementsOf(cps)
    BY <1>1, MarksAreNumbers
  <2>2. QED
    BY <1>1, <1>2, <1>3, <2>1, OldestHigher DEF ChoicesAt
<1>4. CASE Caught
  <2>1. PICK f \in Catchers : \E n : /\ n = ChoiceOf(f) /\ cps' = ChoicesAt(n)
                                     /\ Unify(HeapAt(n), SubSeq(trail, 1, cps[n].tr))
    BY <1>4 DEF Caught
  <2>2. PICK n : n = ChoiceOf(f) /\ cps' = ChoicesAt(n) /\ Unify(HeapAt(n), SubSeq(trail, 1, cps[n].tr))
    BY <2>1
  <2>3. n \in DOMAIN cps
    BY <2>2, FoundReturns
  <2>4. /\ HeapAt(n) \in Seq(1..HeapSize \cup Atoms) /\ Len(HeapAt(n)) = cps[n].h
        /\ SubSeq(trail, 1, cps[n].tr) \in Seq(1..HeapSize)
        /\ cps[n].h <= HeapSize
    BY <1>1, <2>3, CatcherData
  <2>5. Len(heap') = Len(HeapAt(n))
    BY <2>2, <2>4, UnifyKeeps
  <2>6. QED
    BY <1>3, <2>2, <2>3, <2>4, <2>5
<1>5. CASE Uncaught /\ UNCHANGED <<cps, heap>>
  BY <1>2, <1>5
<1>6. CASE Uncaught /\ ~UNCHANGED <<cps, heap>>
  <2>1. PICK f \in Catchers : \E n : n = ChoiceOf(f) /\ cps' = ChoicesAt(n) /\ heap' = HeapAt(n)
    BY <1>6 DEF Uncaught
  <2>2. PICK n : n = ChoiceOf(f) /\ cps' = ChoicesAt(n) /\ heap' = HeapAt(n)
    BY <2>1
  <2>3. n \in DOMAIN cps
    BY <2>2, FoundReturns
  <2>4. QED
    BY <1>1, <1>3, <2>2, <2>3, CatcherData
<1>7. QED
  BY <1>4, <1>5, <1>6

(***************************************************************************)
(* What is saved                                                           *)
(***************************************************************************)
\* A query that lies above the choicepoint m of a saved state: its frames fs and choicepoints cs,
\* its stack pointer sp and the length h of its heap; g is where it runs.
Lies(m, fs, cs, sp, h, g) ==
  /\ AfterChoice(m) <= sp /\ AfterChoice(m) <= g /\ m.h <= h
  /\ Above(fs, AfterChoice(m))
  /\ \A c \in cs : AfterChoice(m) <= c.at /\ AfterChoice(m) <= c.fr /\ m.h <= c.h

\* Marks of the choicepoints in cs that are in order, and not above t and h
MarksBelow(s, t, h) ==
  /\ \A i \in DOMAIN s : s[i].tr \in 0..t /\ s[i].h \in 0..h
  /\ \A i, j \in DOMAIN s : i <= j => s[i].tr <= s[j].tr /\ s[i].h <= s[j].h

\* A state has been saved while a foreign predicate ran, or had yielded.
SavedOK(s) ==
  /\ s.choices \in Seq(ChoiceType) /\ s.choices # <<>> /\ s.status \in {"run", "yield"}
  /\ Mark(s).type = "Body" /\ Mark(s).pc.phase = "foreign"

\* With the frames below its choicepoint, and the clauses that no newer frame owns, it can be
\* restored.
Resumable(s, fs, own) ==
  LET c == Mark(s)
      low == Below(c.at, fs)
      t == ChoicesUnder(s)
  IN  /\ Sound(low, t, c.fr, c.pc, c.at) /\ LocalFrames(low)
      /\ c.clause = fs[c.fr].clause /\ c.slotCount = fs[c.fr].slotCount
      /\ MarksBelow(t, c.tr, c.h)
      /\ "cleanup" \notin uses =>
           Owners(low, Live(low, ElementsOf(t), c.fr), Elsewhere(fs, own, AfterChoice(c)))

\* So it is with all the states in ss; n words of TRAIL have been written.
Levels(ss, fs, own, n) ==
  \A k \in DOMAIN ss : SavedOK(ss[k]) /\ Resumable(ss[k], fs, own) /\ Mark(ss[k]).tr <= n

\* The query that runs lies above them all.
Reaches(ss, fs, cs, sp, h, g) ==
  \A k \in DOMAIN ss : Lies(Mark(ss[k]), fs, cs, sp, h, g)

\* Each query that was interrupted lies above those that were interrupted before.
Layered(ss, fs) ==
  \A j, k \in DOMAIN ss :
    j < k => LET c == Mark(ss[k])
             IN  Lies(Mark(ss[j]), Below(c.at, fs), ElementsOf(ChoicesUnder(ss[k])), c.at, c.h, c.fr)

(***************************************************************************)
(* The invariant                                                           *)
(***************************************************************************)
\* The machine, with no regard for what is saved; the host may have asked for a query.
MachineInv ==
  /\ MemoryOK /\ MarksOrdered
  /\ status \in Statuses \cup {"throw", "error", "yield", "host"} /\ uses \in Programs
  /\ FR \in Nat /\ pos \in Pos /\ SP \in Nat /\ owned \subseteq 1..MaxLocals
  /\ Stacked(frames, cps) /\ Tidy(frames, ElementsOf(cps)) /\ LocalFrames(frames)
  /\ status \in (Statuses \ {"fail"}) \cup {"yield"} => Sound(frames, cps, FR, pos, SP)
  /\ status = "yield" => pos.phase = "foreign"
  /\ status = "throw" => Thrown(frames, cps, FR)
  /\ IF status = "error" THEN FR = Null ELSE FR \in DOMAIN frames
  /\ \A c \in ElementsOf(cps) : c.at < SP
  /\ status \in {"fail", "host"} => cps = <<>>

\* The clauses in use are there.  (When a ball is raised by the call of an unknown procedure, that
\* of the frame that called it is gone.)
Kept ==
  \/ Owners(frames, Live(frames, ElementsOf(cps), FR), owned)
  \/ /\ status = "throw" /\ FR \in DOMAIN frames /\ frames[FR].isLocal
     /\ \A c \in ElementsOf(cps) : c.at <= FR
     /\ Owners(frames, Live(frames, ElementsOf(cps), FR), owned \cup {frames[FR].clause})

\* Where the query runs that lies above the saved states, or where the next one will
Runner == IF status \in {"host", "error"} THEN SP ELSE FR

QueriesInv ==
  /\ MachineInv
  /\ "cleanup" \notin uses /\ status \notin {"host", "fail"} => Kept
  /\ memory \in Seq(1..HeapSize) /\ Len(trail) <= Len(memory)
  /\ status = "host" => states # <<>> /\ FR = Mark(states[Len(states)]).fr
  /\ Len(states) \in Nat /\ DOMAIN states = 1..Len(states)
  /\ Levels(states, frames, owned, Len(memory))
  /\ Reaches(states, frames, ElementsOf(cps), SP, Len(heap), Runner)
  /\ Layered(states, frames)

(***************************************************************************)
(* The steps that leave the saved states alone                             *)
(***************************************************************************)
\* A query that runs is one of module Exceptions.
LEMMA MachineRuns ==
  ASSUME MachineInv, status \in Statuses \cup {"throw", "error"}
  PROVE  ThrowInv
BY DEF MachineInv, ThrowInv, Null, RegistersOK

\* ... and what is known of that is known of it.
LEMMA RunsMachine ==
  ASSUME ThrowInv', IF status' = "error" THEN FR' = Null ELSE FR' \in DOMAIN frames',
         \A c \in ElementsOf(cps') : c.at < SP', status' = "fail" => cps' = <<>>
  PROVE  MachineInv'
<1>1. /\ MemoryOK' /\ MarksOrdered'
      /\ status' \in Statuses \cup {"throw", "error"} /\ (uses \in Programs)'
      /\ FR' \in Nat /\ pos' \in Pos /\ SP' \in Nat /\ owned' \subseteq 1..MaxLocals
      /\ Stacked(frames, cps)' /\ Tidy(frames, ElementsOf(cps))' /\ LocalFrames(frames)'
      /\ status' \in Statuses \ {"fail"} => Sound(frames, cps, FR, pos, SP)'
      /\ status' = "throw" => Thrown(frames, cps, FR)'
  BY DEF ThrowInv
<1>2. status' # "yield" /\ status' # "host"
  BY <1>1 DEF Statuses
<1>3. QED
  BY <1>1, <1>2 DEF MachineInv

\* What such a step does with the machine, for what lies below addresses b and h
Moves ==
  /\ MachineInv'
  /\ "cleanup" \notin uses /\ Kept /\ status' # "fail" => Kept'
  /\ \A b \in Nat : Inside(b) /\ b <= FR => StaysInside(b)
  /\ \A h \in Nat : Higher(h) => h <= Len(heap') /\ \A c \in ElementsOf(cps') : h <= c.h

\* A query that fails has tried all its choicepoints.
LEMMA FailEnds ==
  ASSUME CanOwn, Backtrack, status' = "fail"
  PROVE  cps' = <<>> /\ FR' \in DOMAIN frames'
<1>1. CASE cps = <<>> /\ UNCHANGED <<FR, frames, cps>>
  BY <1>1, RunningProvides DEF CanOwn
<1>2. ASSUME NEW n \in DOMAIN cps, Resumed(n), cps[n].pc = NoPC, cps' = SubSeq(cps, 1, n - 1),
             Apply(cps[n], Abandoned(n))
      PROVE  cps' = <<>> /\ FR' \in DOMAIN frames'
  <2>1. n = 1
    BY <1>2 DEF Resumed
  <2>2. cps' = <<>>
    BY <1>2, <2>1
  <2>3. PICK c, gs : c = cps[n] /\ gs = Below(c.at, Disowned(frames, Abandoned(n)))
    OBVIOUS
  <2>4. FramesIn(frames) /\ c \in ChoiceType /\ c.fr \in DOMAIN frames /\ c.fr < c.at
    BY <1>2, <2>3, ChoiceAppliedOK
  <2>5. c.at \in Nat
    BY <2>4 DEF ChoiceType
  <2>6. DOMAIN gs = {f \in DOMAIN frames : f < c.at}
    BY <2>3, <2>4, <2>5, BelowIsLower
  <2>7. FR' = c.fr /\ frames' = [gs EXCEPT ![c.fr].clause = c.clause, ![c.fr].slotCount = c.slotCount]
    BY <1>2, <2>3 DEF Apply
  <2>8. DOMAIN frames' = DOMAIN gs
    BY <2>7
  <2>9. QED
    BY <2>2, <2>4, <2>6, <2>7, <2>8
<1>3. status' = "fail" /\ "fail" # "run"
  OBVIOUS
<1>4. QED
  BY <1>1, <1>2, <1>3 DEF Backtrack

\* Only backtracking can fail.
LEMMA OnlyBacktrackFails ==
  ASSUME Next, status' = "fail"
  PROVE  Backtrack
<1>1. status \in {"run", "choices"}
  BY StepOfRunning
<1>2. CASE Fail \/ ForeignFail \/ BacktrackQuery
  BY <1>2 DEF Fail, ForeignFail, BacktrackQuery
<1>3. CASE TryMe \/ Enter \/ MakeVar \/ BindVar \/ Call \/ Depart \/ CallGoal \/ Exit
  BY <1>1, <1>3 DEF TryMe, Enter, MakeVar, BindVar, Call, Depart, CallGoal, Exit
<1>4. CASE ExitQuery \/ CutWithinCondition
  BY <1>1, <1>4 DEF ExitQuery, CutWithinCondition
<1>5. CASE Or \/ IfThen \/ IfThenElse
  BY <1>1, <1>5 DEF Or, IfThen, IfThenElse, OpenCondition
<1>6. CASE CutBody \/ CutCondition
  <2>1. \A target, next : Cut(target, next) => status' = status
    BY DEF Cut
  <2>2. \A target : CutCleanup(target) => status' = status
    BY DEF CutCleanup
  <2>3. QED
    BY <1>1, <1>6, <2>1, <2>2 DEF CutBody, CutCondition
<1>7. CASE Catch \/ ExitCatch \/ CleanupChoicepoint \/ Foreign \/ ForeignNondet
  BY <1>1, <1>7 DEF Catch, ExitCatch, CleanupChoicepoint, Foreign, ForeignNondet
<1>8. QED
  BY <1>2, <1>3, <1>4, <1>5, <1>6, <1>7 DEF Next, Instruction

\* A query that goes on has a frame, and its choicepoints lie below SP.
LEMMA SoundEnds ==
  ASSUME NEW fs, NEW s, NEW g, NEW p, NEW sp, Sound(fs, s, g, p, sp)
  PROVE  g \in DOMAIN fs /\ \A c \in ElementsOf(s) : c.at < sp
BY DEF Sound, Ready, RunsAt, Place

\* The instructions.
LEMMA NextMoves ==
  ASSUME MachineInv, Next
  PROVE  Moves
<1>1. /\ status \in {"run", "choices"} /\ uses' = uses /\ status' \in Statuses /\ status' # "error"
      /\ status \in Statuses \ {"fail"} /\ status # "throw"
  BY StepOfRunning DEF Statuses
<1>2. ThrowInv
  BY <1>1, MachineRuns
<1>3. CanOwn /\ CanRun /\ StackInv /\ LocalFrames(frames) /\ MemoryOK /\ MarksOrdered
  BY <1>1, <1>2, ThrowRuns DEF ThrowInv
<1>4. ThrowInv'
  BY <1>2, NextSurvives DEF Survives
<1>5. /\ status' # "fail" => Sound(frames', cps', FR', pos', SP')
      /\ "cleanup" \notin uses /\ Owners(frames, Live(frames, ElementsOf(cps), FR), owned)
           => Owners(frames', Live(frames', ElementsOf(cps'), FR'), owned')
  BY <1>3, StepOwned
<1>6. /\ FR' \in DOMAIN frames' /\ \A c \in ElementsOf(cps') : c.at < SP'
      /\ status' = "fail" => cps' = <<>>
  <2>1. CASE status' = "fail"
    <3>1. cps' = <<>> /\ FR' \in DOMAIN frames'
      BY <1>3, <2>1, OnlyBacktrackFails, FailEnds
    <3>2. ElementsOf(cps') = {}
      BY <3>1 DEF ElementsOf
    <3>3. QED
      BY <3>1, <3>2
  <2>2. CASE status' # "fail"
    BY <1>5, <2>2, SoundEnds
  <2>3. QED
    BY <2>1, <2>2
<1>7. MachineInv'
  BY <1>1, <1>4, <1>6, RunsMachine
<1>8. "cleanup" \notin uses /\ Kept => Kept'
  BY <1>1, <1>5 DEF Kept
<1>9. ASSUME NEW b \in Nat, Inside(b), b <= FR
      PROVE  StaysInside(b)
  <2>1. Confined(b)
    BY <1>3, <1>9 DEF Confined
  <2>2. QED
    BY <2>1, StepInside
<1>10. ASSUME NEW h \in Nat, Higher(h)
       PROVE  h <= Len(heap') /\ \A c \in ElementsOf(cps') : h <= c.h
  <2>1. DataStep
    BY <1>3, StepShape DEF MemoryOK, MarksOrdered
  <2>2. QED
    BY <1>3, <1>10, <2>1, StaysHigher
<1>11. QED
  BY <1>7, <1>8, <1>9, <1>10 DEF Moves

\* Raising a ball.
LEMMA RaiseMoves ==
  ASSUME MachineInv, Raise \/ RaiseNondet \/ RaiseCatch \/ RaiseDepart
  PROVE  Moves
<1>1. /\ DataStep /\ status = "run" /\ status' = "throw" /\ uses' = uses
      /\ status \in Statuses \ {"fail"} /\ status # "throw"
      /\ status' # "error" /\ status' # "fail"
  BY RaiseShape DEF Statuses
<1>2. ThrowInv
  BY <1>1, MachineRuns
<1>3. CanOwn /\ CanRun /\ LocalFrames(frames) /\ MemoryOK /\ MarksOrdered
  BY <1>1, <1>2, ThrowRuns DEF ThrowInv
<1>4. ThrowInv'
  BY <1>2, RaiseSurvives DEF Survives
<1>5. /\ Thrown(frames', cps', FR')
      /\ Owners(frames, Live(frames, ElementsOf(cps), FR), owned)
           => Owners(frames', Live(frames', ElementsOf(cps'), FR'), owned') \/ RaiseDepart
  BY <1>3, RaiseThrows, RaiseNondetThrows, RaiseCatchThrows, RaiseDepartThrows DEF Raised
<1>6. FR' \in DOMAIN frames'
  BY <1>5 DEF Thrown, Standing
<1>7. cps \in Seq(ChoiceType) /\ SP \in Nat /\ \A c \in ElementsOf(cps) : c.at \in Nat /\ c.at < SP
  <2>1. cps \in Seq(ChoiceType) /\ SP \in Nat /\ \A c \in ElementsOf(cps) : c.at < SP
    BY <1>3, ReadyProvides DEF MachineInv, CanRun
  <2>2. QED
    BY <2>1, ChoicesAreTyped DEF ChoicesTyped
<1>8. ASSUME NEW d \in ElementsOf(cps')
      PROVE  d.at < SP'
  <2>1. CASE Raise
    BY <1>7, <1>8, <2>1 DEF Raise
  <2>2. CASE RaiseNondet \/ RaiseCatch
    <3>1. PICK c : /\ c.at = SP /\ cps' = Append(cps, c) /\ SP' \in {c.at + 1, AfterChoice(c)}
      BY <2>2, ChoiceAtTop DEF RaiseNondet, RaiseCatch
    <3>2. AfterChoice(c) \in Nat /\ SP < AfterChoice(c)
      BY <1>7, <3>1, AfterChoiceAbove
    <3>3. SP < SP' /\ SP' \in Nat
      BY <1>7, <3>1, <3>2
    <3>4. d \in ElementsOf(cps) \/ d = c
      BY <1>7, <1>8, <3>1, ElementsAppended
    <3>5. QED
      BY <1>7, <3>1, <3>3, <3>4
  <2>3. CASE RaiseDepart
    <3>1. pos.phase = "body" /\ SP' = AfterExit(cps) /\ cps' = cps
      BY <2>3 DEF RaiseDepart, Running
    <3>2. frames[FR].kind # "query"
      BY <1>3, <3>1, KindRuns
    <3>3. Ready(Below(AfterExit(cps), frames), cps, frames[FR].parent, frames[FR].ret, AfterExit(cps))
      BY <1>3, <3>2, LeavesRunning DEF CanRun
    <3>4. QED
      BY <1>8, <3>1, <3>3 DEF Ready, RunsAt
  <2>4. QED
    BY <2>1, <2>2, <2>3
<1>9. MachineInv'
  BY <1>1, <1>4, <1>6, <1>8, RunsMachine
<1>10. ASSUME Owners(frames, Live(frames, ElementsOf(cps), FR), owned), RaiseDepart
       PROVE  Kept'
  <2>1. /\ owned' = owned \ IF FR >= CP THEN ClausesOf({FR}) ELSE {}
        /\ FR' = FR /\ frames' = frames /\ cps' = cps
    BY <1>10 DEF RaiseDepart
  <2>2. CASE owned' = owned
    BY <1>10, <2>1, <2>2 DEF Kept
  <2>3. CASE FR >= CP /\ frames[FR].isLocal
    <3>1. ClausesOf({FR}) = {frames[FR].clause}
      BY <2>3 DEF ClausesOf
    <3>2. owned \subseteq owned' \cup {frames[FR].clause}
      BY <2>1, <2>3, <3>1
    <3>3. Owners(frames, Live(frames, ElementsOf(cps), FR), owned' \cup {frames[FR].clause})
      BY <1>10, <3>2 DEF Owners
    <3>4. \A c \in ElementsOf(cps) : c.at <= CP
      BY <1>3, ReadyProvides DEF CanRun, CP
    <3>5. CP \in Nat /\ FR \in Nat
      BY <1>3, ReadyProvides DEF CanRun, CP
    <3>6. \A c \in ElementsOf(cps) : c.at <= FR
      BY <1>7, <2>3, <3>4, <3>5
    <3>7. FR \in DOMAIN frames
      BY <1>6, <2>1
    <3>8. QED
      BY <1>1, <2>1, <2>3, <3>3, <3>6, <3>7 DEF Kept
  <2>4. FR >= CP /\ ~frames[FR].isLocal => ClausesOf({FR}) = {}
    BY DEF ClausesOf
  <2>5. QED
    BY <2>1, <2>2, <2>3, <2>4
<1>11. Kept => Kept'
  <2>1. Kept => Owners(frames, Live(frames, ElementsOf(cps), FR), owned)
    BY <1>1 DEF Kept
  <2>2. Owners(frames', Live(frames', ElementsOf(cps'), FR'), owned') => Kept'
    BY DEF Kept
  <2>3. QED
    BY <1>5, <1>10, <2>1, <2>2
<1>12. ASSUME NEW b \in Nat, Inside(b), b <= FR
      PROVE  StaysInside(b)
  <2>1. Confined(b)
    BY <1>3, <1>12 DEF Confined
  <2>2. QED
    BY <2>1, StepInside
<1>13. ASSUME NEW h \in Nat, Higher(h)
       PROVE  h <= Len(heap') /\ \A c \in ElementsOf(cps') : h <= c.h
  BY <1>1, <1>3, <1>13, StaysHigher
<1>14. QED
  BY <1>9, <1>11, <1>12, <1>13 DEF Moves

\* The ball is caught, or the query ends with an error.
LEMMA ThrowMoves ==
  ASSUME MachineInv, Caught \/ Uncaught
  PROVE  Moves
<1>1. /\ status = "throw" /\ uses' = uses /\ status \in Statuses \cup {"throw", "error"}
      /\ Caught => status' = "run"
      /\ Uncaught => status' = "error"
      /\ status' # "fail"
  BY DEF Caught, Uncaught
<1>2. ThrowInv
  BY <1>1, MachineRuns
<1>3. OnItsWay /\ SP \in Nat /\ pos \in Pos
  BY <1>1, <1>2 DEF ThrowInv, OnItsWay
<1>4. ThrowInv'
  BY <1>2, CaughtSurvives, UncaughtSurvives DEF Survives
<1>5. Caught => Sound(frames', cps', FR', pos', SP')
  <2>1. Released(owned)
    BY DEF Released
  <2>2. QED
    BY <1>3, <2>1, CaughtGoesOn
<1>6. Uncaught => FR' = Null /\ \A c \in ElementsOf(cps') : c.at < SP'
  <2>1. CASE Uncaught /\ UNCHANGED <<SP, cps>>
    BY <2>1 DEF Uncaught, MachineInv
  <2>2. ASSUME NEW f \in Catchers, SP' = AfterFrame(f), cps' = ChoicesAt(ChoiceOf(f))
        PROVE  \A c \in ElementsOf(cps') : c.at < SP'
    <3>1. PICK n, low, t : n = ChoiceOf(f) /\ low = StackAt(n) /\ t = ChoicesAt(n)
      OBVIOUS
    <3>2. ReturnsTo(f, n, low, t)
      BY <1>3, <3>1, FoundReturns
    <3>3. f \in Nat /\ \A d \in ElementsOf(t) : d.at \in Nat /\ d.at < f
      BY <3>2, CatcherLeaves
    <3>4. AfterFrame(f) \in Nat /\ f < AfterFrame(f)
      BY <3>2, CatcherEnds
    <3>5. QED
      BY <2>2, <3>1, <3>3, <3>4
  <2>3. Uncaught => \/ UNCHANGED <<SP, cps>>
                    \/ \E f \in Catchers : SP' = AfterFrame(f) /\ cps' = ChoicesAt(ChoiceOf(f))
    BY DEF Uncaught
  <2>4. QED
    BY <2>1, <2>2, <2>3 DEF Uncaught
<1>7. MachineInv'
  <2>1. CASE Caught
    BY <1>1, <1>4, <1>5, <2>1, SoundEnds, RunsMachine
  <2>2. CASE Uncaught
    BY <1>1, <1>4, <1>6, <2>2, RunsMachine
  <2>3. QED
    BY <2>1, <2>2
<1>8. Kept => Kept'
  <2>1. Kept => \E own : Released(own) /\ Owners(frames, Live(frames, ElementsOf(cps), FR), own)
    BY DEF Kept, Released
  <2>2. ASSUME NEW own, Released(own), Owners(frames, Live(frames, ElementsOf(cps), FR), own)
        PROVE  Owners(frames', Live(frames', ElementsOf(cps'), FR'), owned')
    BY <1>3, <2>2, CaughtGoesOn, UncaughtEnds
  <2>3. Owners(frames', Live(frames', ElementsOf(cps'), FR'), owned') => Kept'
    BY DEF Kept
  <2>4. QED
    BY <2>1, <2>2, <2>3
<1>9. ASSUME NEW b \in Nat, Inside(b), b <= FR
      PROVE  StaysInside(b)
  <2>1. ThrownInside(b)
    BY <1>3, <1>9 DEF ThrownInside
  <2>2. QED
    BY <2>1, CaughtInside, UncaughtInside
<1>10. ASSUME NEW h \in Nat, Higher(h)
       PROVE  h <= Len(heap') /\ \A c \in ElementsOf(cps') : h <= c.h
  BY <1>3, <1>10, ThrowHigher
<1>11. QED
  BY <1>7, <1>8, <1>9, <1>10 DEF Moves

\* What holds of the new values of the registers is the invariant of the next state.
LEMMA NextMachine ==
  ASSUME MemoryOK', MarksOrdered',
         status' \in Statuses \cup {"throw", "error", "yield", "host"}, uses \in Programs, uses' = uses,
         FR' \in Nat, pos' \in Pos, SP' \in Nat, owned' \subseteq 1..MaxLocals,
         Stacked(frames', cps'), Tidy(frames', ElementsOf(cps')), LocalFrames(frames'),
         status' \in (Statuses \ {"fail"}) \cup {"yield"} => Sound(frames', cps', FR', pos', SP'),
         status' = "yield" => pos'.phase = "foreign",
         status' = "throw" => Thrown(frames', cps', FR'),
         IF status' = "error" THEN FR' = Null ELSE FR' \in DOMAIN frames',
         \A c \in ElementsOf(cps') : c.at < SP',
         status' \in {"fail", "host"} => cps' = <<>>
  PROVE  MachineInv'
<1>1. FrameType' = FrameType
  BY DEF FrameType, Kinds
<1>2. FramesIn(frames') = FramesIn(frames)'
  BY <1>1 DEF FramesIn
<1>3. Stacked(frames', cps') = Stacked(frames, cps)'
  BY <1>2 DEF Stacked
<1>4. Ready(frames', cps', FR', pos', SP') = Ready(frames, cps, FR, pos, SP)'
  BY <1>3 DEF Ready
<1>5. Labelled(frames', ElementsOf(cps')) = Labelled(frames, ElementsOf(cps))'
  BY DEF Labelled
<1>6. Tidy(frames', ElementsOf(cps')) = Tidy(frames, ElementsOf(cps))'
  BY <1>5 DEF Tidy
<1>7. Sound(frames', cps', FR', pos', SP') = Sound(frames, cps, FR, pos, SP)'
  BY <1>4, <1>6 DEF Sound
<1>8. \A top : Standing(frames', cps', FR', top) = Standing(frames, cps, FR, top)'
  BY <1>3, <1>6 DEF Standing
<1>9. Thrown(frames', cps', FR') = Thrown(frames, cps, FR)'
  BY <1>8 DEF Thrown
<1>10. QED
  BY <1>3, <1>6, <1>7, <1>9 DEF MachineInv, Statuses

\* A query that has yielded can run, like one that runs.
LEMMA YieldedRuns ==
  ASSUME MachineInv, status \in {"run", "yield"}
  PROVE  /\ CanOwn /\ CanRun /\ StackInv /\ LocalFrames(frames) /\ MemoryOK /\ MarksOrdered /\ uses \in Programs
         /\ Owners(frames, Live(frames, ElementsOf(cps), FR), owned) <=> Kept
<1>1. Sound(frames, cps, FR, pos, SP)
  BY DEF MachineInv, Statuses
<1>2. CanRun
  BY <1>1 DEF MachineInv, CanRun, Sound
<1>3. StackInv
  BY <1>1 DEF MachineInv, StackInv, Sound
<1>4. QED
  BY <1>1, <1>2, <1>3 DEF CanOwn, MachineInv, Kept

\* A step after which execution goes on, or a ball is on its way.
LEMMA MovesOn ==
  ASSUME MachineInv, status \in {"run", "yield"}, uses' = uses, DataStep,
         \/ status' \in {"run", "yield"} /\ Sound(frames', cps', FR', pos', SP')
         \/ status' = "throw" /\ Thrown(frames', cps', FR') /\ \A c \in ElementsOf(cps') : c.at < SP'
         \/ status' = "fail" /\ cps' = <<>>,
         status' = "yield" => pos'.phase = "foreign",
         FR' \in Nat, FR' \in DOMAIN frames', pos' \in Pos, SP' \in Nat, owned' \subseteq 1..MaxLocals,
         Stacked(frames', cps'), Tidy(frames', ElementsOf(cps')), LocalFrames(frames'),
         "cleanup" \notin uses /\ Owners(frames, Live(frames, ElementsOf(cps), FR), owned)
           => Owners(frames', Live(frames', ElementsOf(cps'), FR'), owned'),
         \A b : Confined(b) => StaysInside(b)
  PROVE  Moves
<1>1. /\ CanOwn /\ MemoryOK /\ MarksOrdered /\ uses \in Programs
      /\ Owners(frames, Live(frames, ElementsOf(cps), FR), owned) <=> Kept
  BY YieldedRuns
<1>2. MemoryOK' /\ MarksOrdered'
  BY <1>1, MarksStep
<1>3. \A c \in ElementsOf(cps') : c.at < SP'
  <2>1. CASE cps' = <<>>
    BY <2>1 DEF ElementsOf
  <2>2. QED
    BY <2>1, SoundEnds
<1>4. MachineInv'
  <2>1. /\ status' \in Statuses \cup {"throw", "error", "yield", "host"}
        /\ status' \in (Statuses \ {"fail"}) \cup {"yield"} => Sound(frames', cps', FR', pos', SP')
        /\ status' = "throw" => Thrown(frames', cps', FR')
        /\ IF status' = "error" THEN FR' = Null ELSE FR' \in DOMAIN frames'
        /\ status' \in {"fail", "host"} => cps' = <<>>
    BY DEF Statuses
  <2>2. QED
    BY <1>1, <1>2, <1>3, <2>1, NextMachine
<1>5. "cleanup" \notin uses /\ Kept => Kept'
  BY <1>1 DEF Kept
<1>6. ASSUME NEW b \in Nat, Inside(b), b <= FR
      PROVE  StaysInside(b)
  BY <1>1, <1>6 DEF Confined
<1>7. ASSUME NEW h \in Nat, Higher(h)
      PROVE  h <= Len(heap') /\ \A c \in ElementsOf(cps') : h <= c.h
  BY <1>1, <1>7, StaysHigher
<1>8. QED
  BY <1>4, <1>5, <1>6, <1>7 DEF Moves

\* A foreign predicate yields.
LEMMA YieldMoves ==
  ASSUME MachineInv, Yield
  PROVE  Moves
<1>1. /\ status = "run" /\ pos.phase = "foreign" /\ status' = "yield" /\ Unify(heap, trail)
      /\ UNCHANGED <<FR, SP, frames, cps, pos, owned, uses>>
  BY DEF Yield, Running
<1>2. DataStep
  BY <1>1 DEF DataStep, Grows, Keeps, Unify
<1>3. /\ Sound(frames, cps, FR, pos, SP) /\ FR \in Nat /\ FR \in DOMAIN frames /\ pos \in Pos
      /\ SP \in Nat /\ owned \subseteq 1..MaxLocals
      /\ Stacked(frames, cps) /\ Tidy(frames, ElementsOf(cps)) /\ LocalFrames(frames)
  BY <1>1 DEF MachineInv, Statuses
<1>4. \A b : Confined(b) => StaysInside(b)
  BY <1>1, KeepsInside
<1>5. QED
  BY <1>1, <1>2, <1>3, <1>4, MovesOn

\* The host lets the predicate succeed, or fail, or throw an error.
LEMMA ResumeMoves ==
  ASSUME MachineInv, ResumeYield
  PROVE  Moves
<1>1. status = "yield" /\ pos.phase = "foreign" /\ uses' = uses
  BY DEF ResumeYield, MachineInv
<1>2. CanOwn /\ CanRun /\ StackInv /\ LocalFrames(frames) /\ MemoryOK /\ MarksOrdered /\ uses \in Programs
  BY <1>1, YieldedRuns
<1>3. /\ Sound(frames, cps, FR, pos, SP) /\ FR \in Nat /\ FR \in DOMAIN frames /\ pos \in Pos
      /\ SP \in Nat /\ owned \subseteq 1..MaxLocals
      /\ Stacked(frames, cps) /\ Tidy(frames, ElementsOf(cps)) /\ FramesIn(frames)
  BY <1>1, <1>2, RunningProvides DEF MachineInv
<1>4. CASE status' = "run" /\ Unify(heap, trail) /\ Leave(cps) /\ UNCHANGED cps
  <2>1. frames[FR].kind # "query"
    BY <1>1, <1>2, KindRuns
  <2>2. OwnGoesOn
    BY <1>2, <1>4, <2>1, ExitOwned
  <2>3. DataStep
    BY <1>4 DEF DataStep, Grows, Keeps, Unify
  <2>4. LocalFrames(frames')
    BY <1>2, <1>3, <1>4, LocalBelow DEF Leave
  <2>5. \A b : Confined(b) => StaysInside(b)
    <3>1. SUFFICES ASSUME NEW b, Confined(b)
                   PROVE  StaysInside(b)
      OBVIOUS
    <3>2. \A c \in ElementsOf(cps) : b <= c.at /\ b <= c.fr
      BY <3>1, ConfinedProvides
    <3>3. cps \in Seq(ChoiceType)
      BY <1>3 DEF Stacked
    <3>4. QED
      BY <1>4, <2>1, <3>1, <3>2, <3>3, LeaveInside
  <2>6. owned' \subseteq 1..MaxLocals
    BY <1>3, <1>4 DEF Leave
  <2>7. Sound(frames', cps', FR', pos', SP')
    BY <2>2 DEF OwnGoesOn
  <2>8. FR' \in DOMAIN frames' /\ FR' \in Nat /\ pos' \in Pos /\ SP' \in Nat /\ Stacked(frames', cps')
        /\ Tidy(frames', ElementsOf(cps'))
    BY <2>7, SoundEnds DEF Sound, Ready
  <2>9. "cleanup" \notin uses /\ Owners(frames, Live(frames, ElementsOf(cps), FR), owned)
          => Owners(frames', Live(frames', ElementsOf(cps'), FR'), owned')
    BY <2>2 DEF OwnGoesOn
  <2>10. QED
    BY <1>1, <1>4, <2>3, <2>4, <2>5, <2>6, <2>7, <2>8, <2>9, MovesOn
<1>5. CASE Backtrack
  <2>1. /\ Tidy(frames', ElementsOf(cps'))
        /\ status' # "fail" => Sound(frames', cps', FR', pos', SP')
        /\ Owners(frames, Live(frames, ElementsOf(cps), FR), owned)
             => Owners(frames', Live(frames', ElementsOf(cps'), FR'), owned')
    BY <1>2, <1>5, BacktrackOwned
  <2>2. LocalFrames(frames')
    BY <1>2, <1>5, LocalBacktrack
  <2>3. /\ Stacked(frames', cps') /\ FR' \in Nat /\ pos' \in Pos /\ SP' \in Nat /\ owned' \subseteq 1..MaxLocals
    BY <1>2, <1>5, Backtracks DEF CanRun
  <2>4. DataStep
    BY <1>2, <1>5, BacktrackShape DEF DataStep, MemoryOK, MarksOrdered
  <2>5. status' \in {"run", "fail"}
    BY <1>5 DEF Backtrack
  <2>6. FR' \in DOMAIN frames' /\ (status' = "fail" => cps' = <<>>)
    BY <1>2, <1>5, <2>1, FailEnds, SoundEnds
  <2>7. \A b : Confined(b) => StaysInside(b)
    BY <1>5, BacktrackInside
  <2>8. QED
    BY <1>1, <2>1, <2>2, <2>3, <2>4, <2>5, <2>6, <2>7, MovesOn
<1>6. CASE status' = "throw" /\ UNCHANGED <<FR, SP, frames, cps, pos, heap, trail, owned>>
  <2>1. Thrown(frames, cps, FR)
    BY <1>1, <1>3, RunsThrows
  <2>2. \A c \in ElementsOf(cps) : c.at < SP
    BY DEF MachineInv
  <2>3. DataStep
    BY <1>6 DEF DataStep, Grows, Keeps
  <2>4. \A b : Confined(b) => StaysInside(b)
    BY <1>6, KeepsInside
  <2>5. QED
    BY <1>1, <1>2, <1>3, <1>6, <2>1, <2>2, <2>3, <2>4, MovesOn
<1>7. QED
  BY <1>4, <1>5, <1>6 DEF ResumeYield

(***************************************************************************)
(* What is saved stays                                                     *)
(***************************************************************************)
\* What holds of the new values of the registers and the saved states is the invariant of the
\* next state.
LEMMA NextQueries ==
  ASSUME MachineInv', uses' = uses,
         "cleanup" \notin uses /\ status' \notin {"host", "fail"} => Kept',
         memory' \in Seq(1..HeapSize), Len(trail') <= Len(memory'),
         status' = "host" => states' # <<>> /\ FR' = Mark(states'[Len(states')]).fr,
         Len(states') \in Nat, DOMAIN states' = 1..Len(states'),
         Levels(states', frames', owned', Len(memory')),
         Reaches(states', frames', ElementsOf(cps'), SP', Len(heap'), Runner'),
         Layered(states', frames')
  PROVE  QueriesInv'
<1>1. FrameType' = FrameType
  BY DEF FrameType, Kinds
<1>2. \A k : FramesIn(Below(Mark(states'[k]).at, frames')) = FramesIn(Below(Mark(states[k]).at, frames))'
  BY <1>1 DEF FramesIn
<1>3. \A k : Stacked(Below(Mark(states'[k]).at, frames'), ChoicesUnder(states'[k]))
               = Stacked(Below(Mark(states[k]).at, frames), ChoicesUnder(states[k]))'
  BY <1>2 DEF Stacked
<1>4. \A k : Labelled(Below(Mark(states'[k]).at, frames'), ElementsOf(ChoicesUnder(states'[k])))
               = Labelled(Below(Mark(states[k]).at, frames), ElementsOf(ChoicesUnder(states[k])))'
  BY DEF Labelled
<1>5. \A k : Resumable(states'[k], frames', owned') = Resumable(states[k], frames, owned)'
  BY <1>3, <1>4 DEF Resumable, Sound, Ready, Tidy
<1>6. Levels(states', frames', owned', Len(memory')) = Levels(states, frames, owned, Len(memory))'
  BY <1>5 DEF Levels
<1>7. QED
  BY <1>6 DEF QueriesInv

\* TRAIL grows to hold what has been trailed.
LEMMA WrittenOK ==
  ASSUME memory \in Seq(1..HeapSize), NEW t \in Seq(1..HeapSize)
  PROVE  Written(t) \in Seq(1..HeapSize) /\ Len(t) <= Len(Written(t)) /\ Len(memory) <= Len(Written(t))
<1>1. PICK m \in Nat : m = Len(memory) /\ DOMAIN memory = 1..m
  BY LenProperties
<1>2. PICK n \in Nat : n = Len(t) /\ DOMAIN t = 1..n
  BY LenProperties
<1>3. PICK k \in Nat : k = (IF m <= n THEN n ELSE m)
  BY <1>1, <1>2
<1>4. m <= k /\ n <= k /\ (1..m) \cup (1..n) = 1..k
  BY <1>1, <1>2, <1>3
<1>5. Written(t) = [i \in 1..k |-> IF i \in DOMAIN t THEN t[i] ELSE memory[i]]
  BY <1>1, <1>2, <1>4 DEF Written
<1>6. \A i \in 1..k : (IF i \in DOMAIN t THEN t[i] ELSE memory[i]) \in 1..HeapSize
  <2>1. \A i \in 1..m : memory[i] \in 1..HeapSize
    BY <1>1, ElementOfSeq
  <2>2. \A i \in 1..n : t[i] \in 1..HeapSize
    BY <1>2, ElementOfSeq
  <2>3. QED
    BY <1>1, <1>2, <1>4, <2>1, <2>2
<1>7. Written(t) \in [1..k -> 1..HeapSize]
  BY <1>5, <1>6
<1>8. Written(t) \in Seq(1..HeapSize) /\ Len(Written(t)) = k
  <2>1. PICK w \in [1..k -> 1..HeapSize] : w = Written(t)
    BY <1>7
  <2>2. w \in Seq(1..HeapSize)
    BY SeqDef
  <2>3. DOMAIN w = 1..k /\ Len(w) \in Nat /\ DOMAIN w = 1..Len(w)
    BY <2>2, LenProperties
  <2>4. QED
    BY <2>1, <2>2, <2>3
<1>9. QED
  BY <1>1, <1>2, <1>4, <1>8

\* The mark of a saved state
LEMMA MarkOK ==
  ASSUME NEW s, SavedOK(s)
  PROVE  /\ Mark(s) \in ChoiceType /\ Mark(s).at \in Nat /\ Mark(s).fr \in Nat /\ Mark(s).pc \in Pos
         /\ Mark(s).h \in Nat /\ Mark(s).tr \in Nat
         /\ AfterChoice(Mark(s)) = Mark(s).at + 1 /\ AfterChoice(Mark(s)) \in Nat
         /\ ChoicesUnder(s) \in Seq(ChoiceType) /\ Len(s.choices) \in DOMAIN s.choices
<1>1. Len(s.choices) \in DOMAIN s.choices /\ Mark(s) \in ChoiceType
  BY EmptySeq, LenProperties, ElementOfSeq DEF SavedOK, Mark
<1>2. /\ Mark(s).at \in Nat /\ Mark(s).fr \in Nat /\ Mark(s).pc \in Pos
      /\ Mark(s).h \in Nat /\ Mark(s).tr \in Nat
  BY <1>1 DEF ChoiceType
<1>3. AfterChoice(Mark(s)) = Mark(s).at + 1
  BY <1>2 DEF SavedOK, AfterChoice
<1>4. ChoicesUnder(s) \in Seq(ChoiceType)
  <2>1. PICK n \in Nat : n = Len(s.choices) /\ DOMAIN s.choices = 1..n /\ n # 0
    BY <1>1, LenProperties DEF SavedOK
  <2>2. s.choices \in Seq(ChoiceType) /\ n - 1 \in 0..Len(s.choices)
    BY <2>1 DEF SavedOK
  <2>3. SubSeq(s.choices, 1, n - 1) \in Seq(ChoiceType)
    BY <2>1, <2>2, SubSeqProperties
  <2>4. QED
    BY <2>1, <2>3 DEF ChoicesUnder
<1>5. QED
  BY <1>1, <1>2, <1>3, <1>4

\* A state can be restored as long as nothing is done to what lies below its mark.
LEMMA ResumableStays ==
  ASSUME NEW s, SavedOK(s), NEW fs, NEW own, NEW gs, NEW new, Resumable(s, fs, own),
         \A f \in DOMAIN gs : f \in Nat, Stays(fs, own, gs, new, AfterChoice(Mark(s)))
  PROVE  Resumable(s, gs, new) /\ Below(Mark(s).at, gs) = Below(Mark(s).at, fs)
<1>1. PICK c, low, t : c = Mark(s) /\ low = Below(c.at, fs) /\ t = ChoicesUnder(s)
  OBVIOUS
<1>2. PICK b : b = AfterChoice(c)
  OBVIOUS
<1>3. c.at \in Nat /\ c.at < b /\ b = c.at + 1
  BY <1>1, <1>2, MarkOK
<1>4. /\ Sound(low, t, c.fr, c.pc, c.at) /\ LocalFrames(low)
      /\ c.clause = fs[c.fr].clause /\ c.slotCount = fs[c.fr].slotCount
      /\ MarksBelow(t, c.tr, c.h)
      /\ "cleanup" \notin uses => Owners(low, Live(low, ElementsOf(t), c.fr), Elsewhere(fs, own, b))
  BY <1>1, <1>2 DEF Resumable
<1>5. SameBelow(fs, gs, b) /\ Elsewhere(fs, own, b) \subseteq Elsewhere(gs, new, b)
  BY <1>1, <1>2 DEF Stays
<1>6. FramesIn(low) /\ c.fr \in DOMAIN low
  BY <1>4, SoundEnds DEF Sound, Ready, Stacked
<1>7. \A f : f \in DOMAIN fs /\ f < c.at <=> f \in DOMAIN gs /\ f < c.at
  <2>1. ASSUME NEW f \in DOMAIN fs, f < c.at
        PROVE  f < b
    <3>1. f \in DOMAIN low
      BY <1>1, <2>1 DEF Below
    <3>2. f \in Nat
      BY <1>6, <3>1 DEF FramesIn
    <3>3. QED
      BY <1>3, <2>1, <3>2
  <2>2. ASSUME NEW f \in DOMAIN gs, f < c.at
        PROVE  f < b
    BY <1>3, <2>2
  <2>3. QED
    BY <1>5, <2>1, <2>2 DEF SameBelow
<1>8. \A f \in DOMAIN fs : f < c.at => gs[f] = fs[f]
  <2>1. ASSUME NEW f \in DOMAIN fs, f < c.at
        PROVE  f < b
    BY <1>3, <1>7, <2>1
  <2>2. QED
    BY <1>5, <2>1 DEF SameBelow
<1>9. Below(c.at, gs) = low
  <2>1. {f \in DOMAIN gs : f < c.at} = {f \in DOMAIN fs : f < c.at}
    BY <1>7
  <2>2. QED
    BY <1>1, <1>8, <2>1 DEF Below
<1>10. gs[c.fr] = fs[c.fr]
  BY <1>1, <1>6, <1>8 DEF Below
<1>11. "cleanup" \notin uses => Owners(low, Live(low, ElementsOf(t), c.fr), Elsewhere(gs, new, b))
  BY <1>4, <1>5 DEF Owners
<1>12. QED
  BY <1>1, <1>2, <1>4, <1>9, <1>10, <1>11 DEF Resumable

\* The states stay restorable when nothing is done to what lies below their marks.
LEMMA LevelsStay ==
  ASSUME NEW ss, NEW fs, NEW own, NEW n, Levels(ss, fs, own, n), Layered(ss, fs),
         NEW gs, NEW new, NEW m, \A f \in DOMAIN gs : f \in Nat,
         \A k \in DOMAIN ss : Stays(fs, own, gs, new, AfterChoice(Mark(ss[k]))),
         n \in Nat, m \in Nat, n <= m
  PROVE  Levels(ss, gs, new, m) /\ Layered(ss, gs)
<1>1. ASSUME NEW k \in DOMAIN ss
      PROVE  /\ SavedOK(ss[k]) /\ Resumable(ss[k], gs, new) /\ Mark(ss[k]).tr <= m
             /\ Below(Mark(ss[k]).at, gs) = Below(Mark(ss[k]).at, fs)
  <2>1. SavedOK(ss[k]) /\ Resumable(ss[k], fs, own) /\ Mark(ss[k]).tr <= n
    BY <1>1 DEF Levels
  <2>2. Mark(ss[k]).tr <= m
    <3>1. Mark(ss[k]).tr \in Nat
      BY <2>1, MarkOK
    <3>2. QED
      BY <2>1, <3>1
  <2>3. Stays(fs, own, gs, new, AfterChoice(Mark(ss[k])))
    BY <1>1
  <2>4. QED
    BY <2>1, <2>2, <2>3, ResumableStays
<1>2. Levels(ss, gs, new, m)
  BY <1>1 DEF Levels
<1>3. Layered(ss, gs)
  BY <1>1 DEF Layered
<1>4. QED
  BY <1>2, <1>3

\* A query that lies above a mark does so after a step.
LEMMA LiesStays ==
  ASSUME NEW s, SavedOK(s), Lies(Mark(s), frames, ElementsOf(cps), SP, Len(heap), FR),
         FR \in Nat, SP \in Nat, Moves
  PROVE  /\ Stays(frames, owned, frames', owned', AfterChoice(Mark(s)))
         /\ Lies(Mark(s), frames', ElementsOf(cps'), SP', Len(heap'), Runner')
<1>1. PICK m, b : m = Mark(s) /\ b = AfterChoice(m)
  OBVIOUS
<1>2. b \in Nat /\ m.h \in Nat
  BY <1>1, MarkOK
<1>3. Inside(b) /\ b <= FR /\ Higher(m.h)
  BY <1>1 DEF Lies, Inside, Higher
<1>4. StaysInside(b) /\ m.h <= Len(heap') /\ \A c \in ElementsOf(cps') : m.h <= c.h
  BY <1>2, <1>3 DEF Moves
<1>5. /\ Stays(frames, owned, frames', owned', b) /\ Above(frames', b) /\ b <= SP'
      /\ \A c \in ElementsOf(cps') : b <= c.at /\ b <= c.fr
      /\ status' # "error" => b <= FR'
  BY <1>4 DEF StaysInside, Stays
<1>6. b <= Runner'
  BY <1>5 DEF Runner
<1>7. Lies(m, frames', ElementsOf(cps'), SP', Len(heap'), Runner')
  BY <1>1, <1>4, <1>5, <1>6 DEF Lies
<1>8. QED
  BY <1>1, <1>5, <1>7

\* What holds for the machine holds for the machine and the saved states, as long as it does not
\* touch them.
LEMMA MovesKeep ==
  ASSUME QueriesInv, Moves, UNCHANGED <<states, uses>>, memory' = Written(trail'),
         status \notin {"host", "error"}, status' # "host", status = "fail" => status' = "fail"
  PROVE  QueriesInv'
<1>1. /\ MachineInv /\ memory \in Seq(1..HeapSize) /\ Len(states) \in Nat /\ DOMAIN states = 1..Len(states)
      /\ Levels(states, frames, owned, Len(memory))
      /\ Reaches(states, frames, ElementsOf(cps), SP, Len(heap), FR)
      /\ Layered(states, frames)
      /\ "cleanup" \notin uses /\ status # "fail" => Kept
  BY DEF QueriesInv, Runner
<1>2. FR \in Nat /\ SP \in Nat
  BY <1>1 DEF MachineInv
<1>3. /\ MachineInv' /\ ("cleanup" \notin uses /\ Kept /\ status' # "fail" => Kept')
  BY DEF Moves
<1>4. trail' \in Seq(1..HeapSize) /\ \A f \in DOMAIN frames' : f \in Nat
  BY <1>3 DEF MachineInv, MemoryOK, Stacked, FramesIn
<1>5. memory' \in Seq(1..HeapSize) /\ Len(trail') <= Len(memory') /\ Len(memory) <= Len(memory')
      /\ Len(memory) \in Nat /\ Len(memory') \in Nat
  <2>1. memory' \in Seq(1..HeapSize) /\ Len(trail') <= Len(memory') /\ Len(memory) <= Len(memory')
    BY <1>1, <1>4, WrittenOK
  <2>2. QED
    BY <1>1, <2>1, LenProperties
<1>6. ASSUME NEW k \in DOMAIN states
      PROVE  /\ Stays(frames, owned, frames', owned', AfterChoice(Mark(states[k])))
             /\ Lies(Mark(states[k]), frames', ElementsOf(cps'), SP', Len(heap'), Runner')
  <2>1. SavedOK(states[k]) /\ Lies(Mark(states[k]), frames, ElementsOf(cps), SP, Len(heap), FR)
    BY <1>1, <1>6 DEF Levels, Reaches
  <2>2. QED
    BY <1>2, <2>1, LiesStays
<1>7. Levels(states, frames', owned', Len(memory')) /\ Layered(states, frames')
  BY <1>1, <1>4, <1>5, <1>6, LevelsStay
<1>8. Reaches(states, frames', ElementsOf(cps'), SP', Len(heap'), Runner')
  BY <1>6 DEF Reaches
<1>9. "cleanup" \notin uses /\ status' \notin {"host", "fail"} => Kept'
  BY <1>1, <1>3
<1>10. QED
  BY <1>1, <1>3, <1>5, <1>7, <1>8, <1>9, NextQueries

\* Machine, Yield and ResumeYield
LEMMA MachineKeeps ==
  ASSUME QueriesInv, Machine \/ Yield \/ ResumeYield
  PROVE  /\ QueriesInv'
         /\ \A k \in DOMAIN states : /\ Stays(frames, owned, frames', owned', AfterChoice(Mark(states[k])))
                                     /\ AfterChoice(Mark(states[k])) <= SP'
         /\ states' = states
<1>1. MachineInv
  BY DEF QueriesInv
<1>2. /\ UNCHANGED <<states, uses>> /\ memory' = Written(trail')
      /\ status \in {"run", "choices", "throw", "yield"} /\ status' # "host"
  <2>1. CASE Next
    BY <2>1, StepOfRunning DEF Statuses, Machine, Yield, ResumeYield
  <2>2. CASE Throw
    BY <2>2 DEF Throw, Raise, RaiseNondet, RaiseCatch, RaiseDepart, Running, Caught, Uncaught, Machine, Yield, ResumeYield
  <2>3. CASE Yield \/ ResumeYield
    BY <2>3 DEF Yield, ResumeYield, Backtrack, Running
  <2>4. QED
    BY <2>1, <2>2, <2>3 DEF Machine
<1>3. Moves
  BY <1>1, NextMoves, RaiseMoves, ThrowMoves, YieldMoves, ResumeMoves DEF Machine, Throw
<1>4. QueriesInv'
  BY <1>2, <1>3, MovesKeep
<1>5. ASSUME NEW k \in DOMAIN states
      PROVE  /\ Stays(frames, owned, frames', owned', AfterChoice(Mark(states[k])))
             /\ AfterChoice(Mark(states[k])) <= SP'
  <2>1. SavedOK(states[k]) /\ Lies(Mark(states[k]), frames, ElementsOf(cps), SP, Len(heap), FR)
    BY <1>2, <1>5 DEF QueriesInv, Levels, Reaches, Runner
  <2>2. FR \in Nat /\ SP \in Nat
    BY <1>1 DEF MachineInv
  <2>3. QED
    BY <1>3, <2>1, <2>2, LiesStays DEF Lies
<1>6. QED
  BY <1>2, <1>4, <1>5

(***************************************************************************)
(* Saving                                                                  *)
(***************************************************************************)
\* What is below sp is a stack, with all the choicepoints or none.
LEMMA StackBelow ==
  ASSUME NEW fs, NEW s, Stacked(fs, s), Tidy(fs, ElementsOf(s)), LocalFrames(fs), NEW sp \in Nat,
         \A c \in ElementsOf(s) : c.at < sp, NEW t \in {s, <<>>}
  PROVE  /\ Stacked(Below(sp, fs), t) /\ Tidy(Below(sp, fs), ElementsOf(t)) /\ LocalFrames(Below(sp, fs))
         /\ LeftOf(fs, s, Below(sp, fs), t)
<1>1. PICK gs : gs = Below(sp, fs)
  OBVIOUS
<1>2. /\ FramesIn(fs) /\ s \in Seq(ChoiceType) /\ Ascending(s) /\ StackOK(fs, ElementsOf(s))
      /\ FramesTyped(fs) /\ ChoicesTyped(ElementsOf(s))
  BY FramesInAreTyped, ChoicesAreTyped DEF Stacked
<1>3. /\ LowerPart(fs, gs) /\ FramesIn(gs) /\ DOMAIN gs = {f \in DOMAIN fs : f < sp}
      /\ LocalFrames(gs)
  BY <1>1, <1>2, BelowIsLower, LocalBelow
<1>4. FramesTyped(gs)
  BY <1>3, FramesInAreTyped
<1>5. ElementsOf(<<>>) = {}
  BY DEF ElementsOf
<1>6. t \in Seq(ChoiceType) /\ Ascending(t) /\ OldestOf(ElementsOf(s), ElementsOf(t))
  <2>1. CASE t = s
    BY <1>2, <2>1 DEF OldestOf
  <2>2. CASE t = <<>>
    <3>1. <<>> \in Seq(ChoiceType)
      BY EmptySeq
    <3>2. QED
      BY <1>5, <2>2, <3>1 DEF OldestOf, Ascending
  <2>3. QED
    BY <2>1, <2>2
<1>7. \A c \in ElementsOf(t) : c.fr \in DOMAIN gs
  <2>1. \A c \in ElementsOf(s) : c.fr \in DOMAIN fs /\ c.fr < c.at /\ c.at < sp /\ c.at \in Nat /\ c.fr \in Nat
    BY <1>2 DEF StackOK, ChoiceOK, ChoicesTyped
  <2>2. \A c \in ElementsOf(s) : c.fr \in DOMAIN gs
    BY <1>3, <2>1
  <2>3. QED
    BY <1>6, <2>2 DEF OldestOf
<1>8. StackOK(gs, ElementsOf(t))
  BY <1>2, <1>3, <1>4, <1>6, <1>7, StackShrinks
<1>9. Stacked(gs, t)
  BY <1>3, <1>6, <1>8 DEF Stacked
<1>10. \A f \in DOMAIN gs : gs[f] = fs[f]
  BY <1>1 DEF Below
<1>11. LeftOf(fs, s, gs, t)
  BY <1>3, <1>6, <1>9, <1>10 DEF LeftOf, OldestOf
<1>12. Tidy(gs, ElementsOf(t))
  BY <1>11, LeftIsTidy
<1>13. QED
  BY <1>1, <1>3, <1>9, <1>11, <1>12

\* Nothing is done.
LEMMA SameStays ==
  ASSUME NEW fs, NEW own, NEW b, Above(fs, b)
  PROVE  Stays(fs, own, fs, own, b)
BY DEF Stays, SameBelow

\* What is appended is dropped again.
LEMMA AppendThenDrop ==
  ASSUME NEW S, NEW s \in Seq(S), NEW c \in S
  PROVE  SubSeq(Append(s, c), 1, Len(s)) = s
<1>1. PICK n \in Nat : n = Len(s) /\ DOMAIN s = 1..n
  BY LenProperties
<1>2. PICK a : a = Append(s, c)
  OBVIOUS
<1>3. \A i \in 1..n : a[i] = s[i]
  BY <1>1, <1>2, AppendProperties
<1>4. \A i \in 1..n : a[i] \in S
  BY <1>1, <1>3, ElementOfSeq
<1>5. /\ SubSeq(a, 1, n) \in Seq(S) /\ Len(SubSeq(a, 1, n)) = n
      /\ \A i \in 1..n : SubSeq(a, 1, n)[i] = a[i]
  <2>1. /\ SubSeq(a, 1, n) \in Seq(S) /\ Len(SubSeq(a, 1, n)) = (IF 1 <= n THEN n - 1 + 1 ELSE 0)
        /\ \A i \in 1..n - 1 + 1 : SubSeq(a, 1, n)[i] = a[1 + i - 1]
    BY <1>1, <1>4, SubSeqProperties
  <2>2. n - 1 + 1 = n /\ (IF 1 <= n THEN n - 1 + 1 ELSE 0) = n /\ \A i \in 1..n : 1 + i - 1 = i
    BY <1>1
  <2>3. QED
    BY <2>1, <2>2
<1>6. \A i \in 1..n : SubSeq(a, 1, n)[i] = s[i]
  BY <1>3, <1>5
<1>7. SubSeq(a, 1, n) = s
  BY <1>1, <1>5, <1>6, SeqEqual
<1>8. QED
  BY <1>1, <1>2, <1>7

\* All is below where everything ends.
LEMMA BelowIsAll ==
  ASSUME NEW fs, NEW s, NEW g, NEW p, NEW sp, Sound(fs, s, g, p, sp), LocalFrames(fs), NEW own
  PROVE  /\ Sound(Below(sp, fs), s, g, p, sp) /\ LocalFrames(Below(sp, fs))
         /\ Owners(fs, Live(fs, ElementsOf(s), g), own)
              => Owners(Below(sp, fs), Live(Below(sp, fs), ElementsOf(s), g), own)
<1>1. PICK gs, cs : gs = Below(sp, fs) /\ cs = ElementsOf(s)
  OBVIOUS
<1>2. /\ Stacked(fs, s) /\ Tidy(fs, cs) /\ sp \in Nat /\ g \in Nat /\ p \in Pos /\ RunsAt(fs, cs, g, p, sp)
      /\ Apart(fs, cs, g, p, sp) /\ g \in DOMAIN fs
      /\ \A c \in cs : c.at < sp
      /\ \A f \in DOMAIN fs : f < sp
  BY <1>1, SoundEnds DEF Sound, Ready, RunsAt
<1>3. Stacked(gs, s) /\ Tidy(gs, cs) /\ LocalFrames(gs) /\ LeftOf(fs, s, gs, s)
  BY <1>1, <1>2, StackBelow
<1>4. DOMAIN gs = DOMAIN fs /\ \A f \in DOMAIN fs : gs[f] = fs[f]
  BY <1>1, <1>2 DEF Below
<1>5. Apart(gs, cs, g, p, sp)
  <2>1. Noted(fs, g, p) \subseteq Noted(fs, g, p)
    OBVIOUS
  <2>2. QED
    BY <1>1, <1>2, <1>3, <1>4, <2>1, LeftIsApart
<1>6. RunsAt(gs, cs, g, p, sp)
  <2>1. Targets(gs, g, p) = Targets(fs, g, p) /\ Noted(gs, g, p) = Noted(fs, g, p)
    BY <1>2, <1>4 DEF Targets, Noted
  <2>2. Younger(gs, cs, g, p, sp)
    BY <1>2, <1>4, <2>1 DEF Younger, RunsAt, Place
  <2>3. TargetsOrdered(gs, g, p)
    BY <1>2, <1>4 DEF TargetsOrdered, RunsAt, Place
  <2>4. p.phase = "body" => SlotsGrow(gs, cs, g, p, sp)
    BY <1>2, <1>4 DEF SlotsGrow, RunsAt, Place
  <2>5. p.phase \in {"entry", "catch", "foreign"} => OnTop(gs, cs, g, sp)
    BY <1>2, <1>4 DEF OnTop, RunsAt, Place
  <2>6. Place(gs, cs, g, p, sp)
    BY <1>2, <1>4, <2>2, <2>3, <2>4, <2>5 DEF RunsAt, Place
  <2>7. Anchored(gs, cs, g)
    BY <1>2, <1>4 DEF RunsAt, Anchored
  <2>8. QED
    BY <1>2, <1>4, <2>1, <2>6, <2>7 DEF RunsAt
<1>7. Sound(gs, s, g, p, sp)
  BY <1>1, <1>2, <1>3, <1>5, <1>6 DEF Sound, Ready
<1>8. ASSUME Owners(fs, Live(fs, cs, g), own)
      PROVE  Owners(gs, Live(gs, cs, g), own)
  <2>1. Grounded(fs) /\ Grounded(gs) /\ \A c \in cs : c.fr \in DOMAIN fs
    BY <1>1, <1>2, <1>3, StackGrounded, SoundProvides
  <2>2. \A f \in DOMAIN fs : gs[f].parent = fs[f].parent /\ SameOwner(gs[f], fs[f])
    BY <1>4 DEF SameOwner
  <2>3. QED
    BY <1>2, <1>4, <1>8, <2>1, <2>2, OwnersSame
<1>9. QED
  BY <1>1, <1>3, <1>7, <1>8

\* The state of a foreign predicate, or of a query that has yielded, can be saved.
LEMMA SavedNow ==
  ASSUME MachineInv, status \in {"run", "yield"}, pos.phase = "foreign",
         "cleanup" \notin uses => Kept,
         NEW c, c = Alternative("Body", pos, Null),
         NEW s, s = [choices |-> Append(cps, c), status |-> status]
  PROVE  /\ SavedOK(s) /\ Resumable(s, frames, owned)
         /\ Mark(s) = c /\ ChoicesUnder(s) = cps /\ c.at = SP /\ c.fr = FR /\ c.h = Len(heap)
         /\ c.tr = Len(trail) /\ AfterChoice(c) = SP + 1
<1>1. /\ CanOwn /\ CanRun /\ LocalFrames(frames) /\ MemoryOK /\ MarksOrdered
      /\ Owners(frames, Live(frames, ElementsOf(cps), FR), owned) <=> Kept
  BY YieldedRuns
<1>2. /\ FR \in DOMAIN frames /\ FR \in Nat /\ SP \in Nat /\ FR < SP /\ pos \in Pos
      /\ frames[FR].slotCount \in 0..MaxSlots /\ frames[FR].clause \in 0..MaxLocals
      /\ cps \in Seq(ChoiceType) /\ Sound(frames, cps, FR, pos, SP)
  BY <1>1, RunningProvides DEF CanOwn, Sound, Ready
<1>3. /\ c.at = SP /\ c.fr = FR /\ c.tr = Len(trail) /\ c.h = Len(heap) /\ c.type = "Body" /\ c.pc = pos
      /\ c.clause = frames[FR].clause /\ c.slotCount = frames[FR].slotCount
  BY DEF Alternative, NewChoice
<1>4. c \in ChoiceType
  BY <1>1, <1>2, LenProperties DEF Alternative, NewChoice, ChoiceType, MemoryOK, Null
<1>5. PICK n \in Nat : n = Len(cps) /\ DOMAIN cps = 1..n
  BY <1>2, LenProperties
<1>6. /\ Append(cps, c) \in Seq(ChoiceType) /\ Len(Append(cps, c)) = n + 1
      /\ \A i \in 1..n : Append(cps, c)[i] = cps[i]
      /\ Append(cps, c)[n + 1] = c
  BY <1>2, <1>4, <1>5, AppendProperties
<1>7. s.choices = Append(cps, c) /\ s.status = status
  OBVIOUS
<1>8. Mark(s) = c
  BY <1>6, <1>7 DEF Mark
<1>9. ChoicesUnder(s) = cps
  <2>1. SubSeq(Append(cps, c), 1, n) = cps
    BY <1>2, <1>4, <1>5, AppendThenDrop
  <2>2. QED
    BY <1>5, <1>6, <1>7, <2>1 DEF ChoicesUnder
<1>10. AfterChoice(c) = SP + 1
  BY <1>2, <1>3 DEF AfterChoice
<1>11. SavedOK(s)
  <2>1. Append(cps, c) # <<>>
    BY <1>5, <1>6
  <2>2. QED
    BY <1>3, <1>6, <1>7, <1>8, <2>1 DEF SavedOK
<1>12. /\ Sound(Below(SP, frames), cps, FR, pos, SP) /\ LocalFrames(Below(SP, frames))
       /\ "cleanup" \notin uses =>
            Owners(Below(SP, frames), Live(Below(SP, frames), ElementsOf(cps), FR), owned)
  BY <1>1, <1>2, BelowIsAll
<1>13. Elsewhere(frames, owned, SP + 1) = owned
  <2>1. \A f \in DOMAIN frames : f < SP /\ f \in Nat
    BY <1>2, SoundProvides
  <2>2. {g \in DOMAIN frames : SP + 1 <= g /\ frames[g].isLocal} = {}
    BY <1>2, <2>1
  <2>3. QED
    BY <2>2 DEF Elsewhere
<1>14. MarksBelow(cps, Len(trail), Len(heap))
  BY <1>1 DEF MarksOrdered, MarksBelow
<1>15. Resumable(s, frames, owned)
  BY <1>3, <1>8, <1>9, <1>10, <1>12, <1>13, <1>14 DEF Resumable
<1>16. QED
  BY <1>3, <1>8, <1>9, <1>10, <1>11, <1>15

\* The choicepoints are put out of reach.
LEMMA NoChoices ==
  ASSUME NEW fs, NEW s, Stacked(fs, s), Tidy(fs, ElementsOf(s))
  PROVE  Stacked(fs, <<>>) /\ Tidy(fs, ElementsOf(<<>>))
<1>1. /\ FramesIn(fs) /\ s \in Seq(ChoiceType) /\ StackOK(fs, ElementsOf(s))
      /\ FramesTyped(fs) /\ ChoicesTyped(ElementsOf(s))
  BY FramesInAreTyped, ChoicesAreTyped DEF Stacked
<1>2. ElementsOf(<<>>) = {} /\ <<>> \in Seq(ChoiceType)
  BY EmptySeq DEF ElementsOf
<1>3. LowerPart(fs, fs) /\ OldestOf(ElementsOf(s), {})
  BY DEF LowerPart, SameFrame, OldestOf
<1>4. StackOK(fs, {})
  BY <1>1, <1>3, StackShrinks
<1>5. Stacked(fs, <<>>)
  <2>1. Ascending(<<>>)
    BY DEF Ascending
  <2>2. StackOK(fs, ElementsOf(<<>>))
    BY <1>2, <1>4
  <2>3. QED
    BY <1>1, <1>2, <2>1, <2>2 DEF Stacked
<1>6. LeftOf(fs, s, fs, <<>>)
  BY <1>2, <1>3, <1>5 DEF LeftOf
<1>7. QED
  BY <1>5, <1>6, LeftIsTidy

\* A state is saved above those that were.
LEMMA LayersAppended ==
  ASSUME NEW ss, NEW n \in Nat, DOMAIN ss = 1..n, NEW s, NEW tt, DOMAIN tt = 1..n + 1,
         \A k \in 1..n : tt[k] = ss[k], tt[n + 1] = s,
         NEW fs, NEW own, NEW m,
         Levels(ss, fs, own, m), Layered(ss, fs),
         SavedOK(s), Resumable(s, fs, own), Mark(s).tr <= m,
         \A k \in 1..n : Lies(Mark(ss[k]), Below(Mark(s).at, fs), ElementsOf(ChoicesUnder(s)),
                              Mark(s).at, Mark(s).h, Mark(s).fr)
  PROVE  Levels(tt, fs, own, m) /\ Layered(tt, fs)
<1>1. \A k \in DOMAIN tt : k \in 1..n \/ k = n + 1
  OBVIOUS
<1>2. Levels(tt, fs, own, m)
  BY <1>1 DEF Levels
<1>3. ASSUME NEW j \in DOMAIN tt, NEW k \in DOMAIN tt, j < k
      PROVE  Lies(Mark(tt[j]), Below(Mark(tt[k]).at, fs), ElementsOf(ChoicesUnder(tt[k])),
                  Mark(tt[k]).at, Mark(tt[k]).h, Mark(tt[k]).fr)
  <2>1. CASE k \in 1..n
    <3>1. j \in 1..n
      BY <1>3, <2>1
    <3>2. QED
      BY <1>3, <2>1, <3>1 DEF Layered
  <2>2. CASE k = n + 1
    <3>1. j \in 1..n
      BY <1>3, <2>2
    <3>2. QED
      BY <2>2, <3>1
  <2>3. QED
    BY <1>1, <2>1, <2>2
<1>4. Layered(tt, fs)
  BY <1>3 DEF Layered
<1>5. QED
  BY <1>2, <1>4

\* Saving a state
LEMMA PushStateKeeps ==
  ASSUME QueriesInv, PushState
  PROVE  /\ QueriesInv'
         /\ \A k \in DOMAIN states : AfterChoice(Mark(states[k])) <= SP'
<1>1. PICK c, s : c = Alternative("Body", pos, Null) /\ s = [choices |-> Append(cps, c), status |-> status]
  OBVIOUS
<1>2. /\ status \in {"run", "yield"} /\ pos.phase = "foreign"
      /\ SP' = AfterChoice(c) /\ states' = Append(states, s) /\ cps' = <<>> /\ status' = "host"
      /\ UNCHANGED <<FR, frames, pos, heap, trail, owned, uses, memory>>
  BY <1>1 DEF PushState, Running, QueriesInv, MachineInv
<1>3. /\ MachineInv /\ ("cleanup" \notin uses => Kept)
      /\ memory \in Seq(1..HeapSize) /\ Len(trail) <= Len(memory)
      /\ Levels(states, frames, owned, Len(memory)) /\ Layered(states, frames)
      /\ Reaches(states, frames, ElementsOf(cps), SP, Len(heap), FR)
  BY <1>2 DEF QueriesInv, Runner
<1>4. PICK n \in Nat : n = Len(states) /\ DOMAIN states = 1..n
  BY DEF QueriesInv
<1>5. /\ DOMAIN states' = 1..n + 1 /\ Len(states') = n + 1
      /\ \A k \in 1..n : states'[k] = states[k]
      /\ states'[n + 1] = s
  BY <1>2, <1>4
<1>6. /\ SavedOK(s) /\ Resumable(s, frames, owned)
      /\ Mark(s) = c /\ ChoicesUnder(s) = cps /\ c.at = SP /\ c.fr = FR /\ c.h = Len(heap)
      /\ c.tr = Len(trail) /\ AfterChoice(c) = SP + 1
  BY <1>1, <1>2, <1>3, SavedNow
<1>7. /\ CanOwn /\ CanRun /\ LocalFrames(frames) /\ MemoryOK /\ MarksOrdered /\ uses \in Programs
  BY <1>2, <1>3, YieldedRuns
<1>8. /\ FR \in DOMAIN frames /\ FR \in Nat /\ SP \in Nat /\ pos \in Pos /\ owned \subseteq 1..MaxLocals
      /\ Stacked(frames, cps) /\ Tidy(frames, ElementsOf(cps)) /\ Len(heap) \in Nat
      /\ \A f \in DOMAIN frames : f < SP /\ f \in Nat
  BY <1>7, RunningProvides, SoundProvides, LenProperties DEF CanOwn, CanRun, Sound, Ready, MemoryOK
<1>9. MachineInv'
  <2>1. cps' = SubSeq(cps, 1, 0) /\ 0 \in 0..Len(cps)
    <3>1. Len(cps) \in Nat
      BY <1>8, LenProperties DEF Stacked
    <3>2. SubSeq(cps, 1, 0) = <<>>
      BY SubSeqEmpty
    <3>3. QED
      BY <1>2, <3>1, <3>2
  <2>2. DataStep
    BY <1>2, <2>1 DEF DataStep, Grows, Drops
  <2>3. MemoryOK' /\ MarksOrdered'
    BY <1>7, <2>2, MarksStep
  <2>4. Stacked(frames, <<>>) /\ Tidy(frames, ElementsOf(<<>>))
    BY <1>7, <1>8, NoChoices
  <2>5. ElementsOf(<<>>) = {}
    BY DEF ElementsOf
  <2>6. \A d \in ElementsOf(cps') : d.at < SP'
    BY <1>2, <2>5
  <2>7. SP' \in Nat
    BY <1>2, <1>6, <1>8
  <2>8. QED
    BY <1>2, <1>7, <1>8, <2>3, <2>4, <2>6, <2>7, NextMachine DEF Statuses
<1>10. ASSUME NEW k \in 1..n
       PROVE  /\ Lies(Mark(states[k]), Below(SP, frames), ElementsOf(cps), SP, Len(heap), FR)
              /\ Lies(Mark(states[k]), frames, {}, SP + 1, Len(heap), SP + 1)
              /\ AfterChoice(Mark(states[k])) <= SP + 1
  <2>1. SavedOK(states[k]) /\ Lies(Mark(states[k]), frames, ElementsOf(cps), SP, Len(heap), FR)
    BY <1>3, <1>4 DEF Levels, Reaches
  <2>2. PICK b \in Nat : b = AfterChoice(Mark(states[k]))
    BY <2>1, MarkOK
  <2>3. b <= SP /\ b <= SP + 1 /\ Above(frames, b)
    BY <1>8, <2>1, <2>2 DEF Lies
  <2>4. Above(Below(SP, frames), b)
    BY <2>3 DEF Above, Below
  <2>5. QED
    BY <2>1, <2>2, <2>3, <2>4 DEF Lies
<1>11. Lies(c, frames, {}, SP + 1, Len(heap), SP + 1)
  <2>1. Above(frames, SP + 1)
    BY <1>8 DEF Above
  <2>2. QED
    BY <1>6, <1>8, <2>1 DEF Lies
<1>12. Levels(states', frames, owned, Len(memory)) /\ Layered(states', frames)
  <2>1. PICK tt, m : tt = states' /\ m = Len(memory)
    OBVIOUS
  <2>2. \A k \in 1..n : Lies(Mark(states[k]), Below(Mark(s).at, frames), ElementsOf(ChoicesUnder(s)),
                             Mark(s).at, Mark(s).h, Mark(s).fr)
    BY <1>6, <1>10
  <2>3. Mark(s).tr <= m
    BY <1>3, <1>6, <2>1
  <2>4. Levels(tt, frames, owned, m) /\ Layered(tt, frames)
    BY <1>3, <1>4, <1>5, <1>6, <2>1, <2>2, <2>3, LayersAppended
  <2>5. QED
    BY <2>1, <2>4
<1>13. Reaches(states', frames', ElementsOf(cps'), SP', Len(heap'), Runner')
  <2>1. Runner' = SP + 1 /\ SP' = SP + 1 /\ heap' = heap /\ frames' = frames
    BY <1>2, <1>6 DEF Runner
  <2>2. ElementsOf(cps') = {}
    BY <1>2 DEF ElementsOf
  <2>3. ASSUME NEW k \in 1..n + 1
        PROVE  Lies(Mark(states'[k]), frames, {}, SP + 1, Len(heap), SP + 1)
    <3>1. k \in 1..n \/ k = n + 1
      OBVIOUS
    <3>2. QED
      BY <1>5, <1>6, <1>10, <1>11, <3>1
  <2>4. QED
    BY <1>5, <2>1, <2>2, <2>3 DEF Reaches
<1>14. QueriesInv'
  <2>1. states' # <<>> /\ FR' = Mark(states'[Len(states')]).fr
    BY <1>2, <1>5, <1>6
  <2>2. Len(states') \in Nat /\ DOMAIN states' = 1..Len(states')
    BY <1>5
  <2>3. Levels(states', frames', owned', Len(memory')) /\ Layered(states', frames')
    BY <1>2, <1>12
  <2>4. QED
    BY <1>2, <1>3, <1>9, <1>13, <2>1, <2>2, <2>3, NextQueries
<1>15. QED
  BY <1>2, <1>4, <1>6, <1>10, <1>14

(***************************************************************************)
(* A query is asked                                                        *)
(***************************************************************************)
\* The frame that returns to the host is pushed on a stack: nothing returns to what is below it.
LEMMA HostStands ==
  ASSUME NEW fs, NEW s, Stacked(fs, s), NEW at \in 1..StackSize,
         \A f \in DOMAIN fs : f < at, \A c \in ElementsOf(s) : c.at < at,
         NEW gs, gs = Put(fs, at, HostFrame(s))
  PROVE  Ready(gs, s, at, At("query"), at + 1)
<1>1. PICK b, cs, p : b = HostFrame(s) /\ cs = ElementsOf(s) /\ p = At("query")
  OBVIOUS
<1>2. /\ FramesIn(fs) /\ s \in Seq(ChoiceType) /\ Ascending(s) /\ StackOK(fs, cs)
      /\ FramesTyped(fs) /\ ChoicesTyped(cs)
  BY <1>1, FramesInAreTyped, ChoicesAreTyped DEF Stacked
<1>3. Top(s) \in Points(cs) /\ Top(s) \in Nat /\ \A c \in cs : c.at <= Top(s)
  <2>1. \A c \in ChoiceType : c.at \in Nat
    BY ChoicesAreTyped DEF ChoiceType
  <2>2. QED
    BY <1>1, <1>2, <2>1, TopIsNewest
<1>4. /\ b \in FrameType /\ b.kind = "query" /\ b.parent = Null /\ b.choicepoint = Top(s)
  <2>1. [i \in Slot |-> Null] \in [Slot -> Nat] /\ (Null # Null) \in BOOLEAN /\ Null \in Nat
    BY DEF Null
  <2>2. NoPC \in Pos
    BY PlacesAreTyped
  <2>3. Null \in 0..MaxLocals /\ 0 \in 0..MaxSlots
    BY BoundsAssumption DEF Null
  <2>4. QED
    BY <1>1, <1>3, <2>1, <2>2, <2>3 DEF HostFrame, Frame, FrameType
<1>5. at \in Nat /\ 0 < at
  OBVIOUS
<1>6. /\ DOMAIN gs = DOMAIN fs \cup {at} /\ gs[at] = b
      /\ \A f \in DOMAIN fs : f < at /\ f \in Nat /\ gs[f] = fs[f] /\ f # at
      /\ \A c \in cs : c.at < at /\ c.at \in Nat /\ c.fr \in Nat
  <2>1. \A f \in DOMAIN fs : f \in Nat
    BY <1>2 DEF FramesTyped
  <2>2. \A c \in cs : c.at \in Nat /\ c.fr \in Nat
    BY <1>2 DEF ChoicesTyped
  <2>3. QED
    BY <1>1, <2>1, <2>2 DEF Put
<1>7. FramesIn(gs) /\ FramesTyped(gs)
  <2>1. FramesIn(gs)
    BY <1>2, <1>4, <1>6 DEF FramesIn
  <2>2. QED
    BY <2>1, FramesInAreTyped
<1>8. ASSUME NEW f, NEW q, NEW top \in Nat, Place(fs, cs, f, q, top), top <= at
      PROVE  /\ Place(gs, cs, f, q, top) /\ f \in DOMAIN fs
             /\ Targets(gs, f, q) = Targets(fs, f, q) /\ Noted(gs, f, q) = Noted(fs, f, q)
             /\ Anchored(gs, cs, f) = Anchored(fs, cs, f)
  <2>1. f \in DOMAIN gs /\ f \in DOMAIN fs /\ f \in Nat /\ gs[f] = fs[f]
    BY <1>6, <1>8 DEF Place
  <2>2. \A e \in DOMAIN gs :
          e < top => e \in DOMAIN fs /\ gs[e].parent = fs[e].parent /\ gs[e].ret = fs[e].ret
    BY <1>6, <1>8
  <2>3. Place(gs, cs, f, q, top)
    BY <1>2, <1>7, <1>8, <2>1, <2>2, PlaceKept
  <2>4. QED
    BY <2>1, <2>3 DEF Targets, Noted, Anchored
<1>9. ASSUME NEW f \in DOMAIN fs
      PROVE  FrameOK(gs, cs, f)
  <2>1. FrameOK(fs, cs, f) /\ f \in Nat /\ f <= at /\ gs[f] = fs[f]
    BY <1>2, <1>6 DEF StackOK
  <2>2. ASSUME fs[f].kind # "query"
        PROVE  CallOK(gs, cs, f)
    <3>1. CallOK(fs, cs, f)
      BY <2>1, <2>2 DEF FrameOK
    <3>2. /\ Place(gs, cs, fs[f].parent, fs[f].ret, f)
          /\ Targets(gs, fs[f].parent, fs[f].ret) = Targets(fs, fs[f].parent, fs[f].ret)
          /\ Noted(gs, fs[f].parent, fs[f].ret) = Noted(fs, fs[f].parent, fs[f].ret)
          /\ Anchored(gs, cs, fs[f].parent) = Anchored(fs, cs, fs[f].parent)
      BY <1>8, <2>1, <3>1 DEF CallOK
    <3>3. Anchored(gs, cs, f) = Anchored(fs, cs, f)
      BY <2>1 DEF Anchored
    <3>4. QED
      BY <2>1, <3>1, <3>2, <3>3 DEF CallOK
  <2>3. QED
    BY <2>1, <2>2 DEF FrameOK
<1>10. Top(s) < at
  BY <1>3, <1>5, <1>6 DEF Points, Null
<1>11. FrameOK(gs, cs, at)
  BY <1>4, <1>6, <1>10 DEF FrameOK
<1>12. ASSUME NEW c \in cs
      PROVE  ChoiceOK(gs, cs, c)
  <2>1. ChoiceOK(fs, cs, c) /\ c.at \in Nat /\ c.at <= at
    BY <1>2, <1>6 DEF StackOK
  <2>2. ASSUME c.pc # NoPC
        PROVE  ResumeOK(gs, cs, c)
    <3>1. ResumeOK(fs, cs, c)
      BY <2>1, <2>2 DEF ChoiceOK
    <3>2. /\ Place(gs, cs, c.fr, c.pc, c.at)
          /\ Targets(gs, c.fr, c.pc) = Targets(fs, c.fr, c.pc)
      BY <1>8, <2>1, <3>1 DEF ResumeOK
    <3>3. QED
      BY <3>1, <3>2 DEF ResumeOK
  <2>3. gs[c.fr].kind = "catch/3" => OnTop(gs, cs, c.fr, c.at)
    BY <1>6, <2>1 DEF ChoiceOK, OnTop
  <2>4. QED
    BY <1>6, <2>1, <2>2, <2>3 DEF ChoiceOK
<1>13. StackOK(gs, cs)
  BY <1>6, <1>9, <1>11, <1>12 DEF StackOK
<1>14. p \in Pos /\ p.phase = "query" /\ p.open = <<>>
  BY <1>1, AtIsPos DEF Phases
<1>15. Noted(gs, at, p) = {} /\ Targets(gs, at, p) = {Top(s)} /\ TargetsOrdered(gs, at, p)
  BY <1>4, <1>6, <1>14 DEF Noted, Targets, TargetsOrdered
<1>16. \A f \in DOMAIN gs : f \in Nat /\ f <= at
  BY <1>5, <1>6
<1>17. Younger(gs, cs, at, p, at + 1)
  <2>1. \A c \in cs : ~(at <= c.at) /\ ~(Top(s) < c.at)
    BY <1>3, <1>5, <1>6
  <2>2. \A f \in DOMAIN gs : ~(at < f)
    BY <1>5, <1>16
  <2>3. Top(s) < at + 1
    BY <1>3, <1>5, <1>10
  <2>4. QED
    BY <1>15, <2>1, <2>2, <2>3 DEF Younger
<1>18. Place(gs, cs, at, p, at + 1)
  BY <1>4, <1>5, <1>6, <1>10, <1>14, <1>15, <1>17 DEF Place, Executes
<1>19. Anchored(gs, cs, at)
  BY <1>3, <1>4, <1>6 DEF Anchored, Points
<1>20. (\A f \in DOMAIN gs : f < at + 1) /\ (\A c \in cs : c.at < at + 1)
  BY <1>5, <1>6, <1>16
<1>21. RunsAt(gs, cs, at, p, at + 1)
  BY <1>15, <1>18, <1>19, <1>20 DEF RunsAt
<1>22. QED
  BY <1>1, <1>2, <1>5, <1>7, <1>13, <1>14, <1>21 DEF Ready, Stacked

\* ... and those below keep their places.
LEMMA HostPushed ==
  ASSUME NEW fs, NEW s, Stacked(fs, s), Tidy(fs, ElementsOf(s)), LocalFrames(fs),
         NEW at \in 1..StackSize, \A f \in DOMAIN fs : f < at, \A c \in ElementsOf(s) : c.at < at,
         NEW gs, gs = Put(fs, at, HostFrame(s))
  PROVE  /\ Sound(gs, s, at, At("query"), at + 1) /\ LocalFrames(gs)
         /\ \A f \in DOMAIN fs : AncestorsIn(gs, f) = AncestorsIn(fs, f) /\ gs[f] = fs[f]
         /\ DOMAIN gs = DOMAIN fs \cup {at} /\ at \notin DOMAIN fs
         /\ AncestorsIn(gs, at) = {at} /\ gs[at].clause = Null /\ ~gs[at].isLocal
<1>1. PICK b, cs, p : b = HostFrame(s) /\ cs = ElementsOf(s) /\ p = At("query")
  OBVIOUS
<1>2. Ready(gs, s, at, p, at + 1)
  BY <1>1, HostStands
<1>3. /\ Grounded(fs) /\ Grounded(gs) /\ Nested(fs, cs) /\ \A c \in cs : c.fr \in DOMAIN fs
      /\ \A f \in DOMAIN fs : f \in Nat
  BY <1>1, <1>2, StackGrounded, StackNested, Ancestry DEF Ready, Nested
<1>4. /\ b.parent = Null /\ b.clause = Null /\ ~b.isLocal /\ b.choicepoint = Top(s)
  BY <1>1 DEF HostFrame, Frame
<1>5. /\ DOMAIN gs = DOMAIN fs \cup {at} /\ gs[at] = b
      /\ \A f \in DOMAIN fs : f # at /\ gs[f] = fs[f]
  BY <1>1, <1>3 DEF Put
<1>6. \A f \in DOMAIN fs : AncestorsIn(gs, f) = AncestorsIn(fs, f)
  <2>1. \A f \in DOMAIN fs : f \in DOMAIN gs /\ fs[f].parent = gs[f].parent
    BY <1>5
  <2>2. \A f \in DOMAIN fs : AncestorsIn(fs, f) = AncestorsIn(gs, f)
    BY <1>3, <2>1, AncestorsKept
  <2>3. QED
    BY <2>2
<1>7. AncestorsIn(gs, at) = {at}
  BY <1>3, <1>4, <1>5, Ancestry
<1>8. \A g \in DOMAIN fs : \A q : Noted(gs, g, q) = Noted(fs, g, q)
  BY <1>5 DEF Noted
<1>9. \A g \in DOMAIN fs : \A q, top : Apart(fs, cs, g, q, top) => Apart(gs, cs, g, q, top)
  BY <1>3, <1>6, <1>8 DEF Apart
<1>10. Tidy(fs, cs)
  BY <1>1
<1>11. ASSUME NEW c \in cs
      PROVE  Around(gs, cs, c.fr, c.at) /\ (c.pc # NoPC => Apart(gs, cs, c.fr, c.pc, c.at))
  <2>1. Around(fs, cs, c.fr, c.at) /\ (c.pc # NoPC => Apart(fs, cs, c.fr, c.pc, c.at))
    BY <1>10 DEF Tidy
  <2>2. ~(at < c.at)
    BY <1>1, <1>3 DEF Nested
  <2>3. Around(gs, cs, c.fr, c.at)
    BY <1>5, <2>1, <2>2 DEF Around
  <2>4. QED
    BY <1>3, <1>9, <2>1, <2>3
<1>12. ASSUME NEW f \in DOMAIN gs, gs[f].parent # Null
      PROVE  Apart(gs, cs, gs[f].parent, gs[f].ret, f)
  <2>1. f \in DOMAIN fs /\ gs[f] = fs[f]
    BY <1>4, <1>5, <1>12
  <2>2. fs[f].parent \in DOMAIN fs
    BY <1>3, <1>12, <2>1 DEF Grounded
  <2>3. QED
    BY <1>9, <1>10, <1>12, <2>1, <2>2 DEF Tidy
<1>13. Since(gs, cs)
  <2>1. \A c \in cs : ~(b.choicepoint < c.at)
    <3>1. \A c \in cs : c.at <= Top(s) /\ c.at \in Nat
      BY <1>1, <1>2, <1>3, ReadyProvides DEF Nested
    <3>2. Top(s) \in Nat
      BY <1>2, ReadyProvides
    <3>3. QED
      BY <1>4, <3>1, <3>2
  <2>2. QED
    BY <1>5, <1>10, <2>1 DEF Since, Tidy
<1>14. Labelled(gs, cs)
  BY <1>3, <1>4, <1>5, <1>10 DEF Labelled, Tidy
<1>15. Tidy(gs, cs)
  BY <1>11, <1>12, <1>13, <1>14 DEF Tidy
<1>16. Apart(gs, cs, at, p, at + 1)
  <2>1. p.open = <<>>
    BY <1>1 DEF At
  <2>2. QED
    BY <2>1, NothingNoted
<1>17. LocalFrames(gs)
  BY <1>4, <1>5 DEF LocalFrames
<1>18. QED
  BY <1>1, <1>2, <1>4, <1>5, <1>6, <1>7, <1>15, <1>16, <1>17 DEF Sound

\* The frame of the goal is pushed on that: the stack pointer is moved past its variables only.
LEMMA GoalPushed ==
  ASSUME NEW fs, NEW s, NEW h, NEW at, at \in 1..StackSize, NEW clause, clause \in 1..MaxLocals,
         Sound(fs, s, h, At("query"), at), LocalFrames(fs),
         NEW gs, gs = Put(fs, at, GoalFrame(s, h, clause))
  PROVE  Sound(gs, s, at, At("body"), at + 1) /\ LocalFrames(gs)
<1>1. PICK b, cs, r, p : b = GoalFrame(s, h, clause) /\ cs = ElementsOf(s) /\ r = At("query") /\ p = At("body")
  OBVIOUS
<1>2. /\ r \in Pos /\ r.phase = "query" /\ r.open = <<>> /\ p \in Pos /\ p.phase = "body" /\ p.open = <<>>
  BY <1>1, AtIsPos DEF Phases
<1>3. /\ Ready(fs, s, h, r, at) /\ Tidy(fs, cs) /\ Apart(fs, cs, h, r, at)
  BY <1>1 DEF Sound
<1>4. /\ FramesTyped(fs) /\ FramesIn(fs)
      /\ s \in Seq(ChoiceType) /\ Ascending(s) /\ ChoicesTyped(cs)
      /\ StackOK(fs, cs) /\ RunsAt(fs, cs, h, r, at)
      /\ h \in Nat /\ 0 < h /\ at \in Nat
      /\ Top(s) \in Points(cs) /\ Top(s) \in Nat /\ \A c \in cs : c.at <= Top(s)
  BY <1>1, <1>3, ReadyProvides
<1>5. /\ b \in FrameType /\ b.kind = "pred" /\ b.parent = h /\ b.choicepoint = Top(s)
      /\ b.ret = r /\ b.clause = clause /\ b.isLocal
  <2>1. [i \in Slot |-> Null] \in [Slot -> Nat] /\ (clause # Null) = TRUE
    BY BoundsAssumption DEF Null
  <2>2. clause \in 0..MaxLocals /\ QueryReserved \in 0..MaxSlots
    BY BoundsAssumption
  <2>3. QED
    BY <1>1, <1>2, <1>4, <2>1, <2>2 DEF GoalFrame, Frame, FrameType
<1>6. /\ Nested(fs, cs) /\ Grounded(fs) /\ h \in DOMAIN fs
      /\ \A f \in DOMAIN fs : f \in Nat /\ f < at /\ (fs[f].isLocal => fs[f].clause # Null)
      /\ \A c \in cs : c.at \in Nat /\ c.at < at /\ c.fr \in DOMAIN fs /\ c.at <= Top(s)
  BY <1>1, SoundProvides
<1>7. /\ DOMAIN gs = DOMAIN fs \cup {at} /\ gs[at] = b
      /\ \A f \in DOMAIN fs : f # at /\ gs[f] = fs[f]
  BY <1>1, <1>4, <1>6 DEF Put
<1>8. FramesIn(gs) /\ FramesTyped(gs)
  <2>1. FramesIn(gs)
    BY <1>4, <1>5, <1>7 DEF FramesIn
  <2>2. QED
    BY <2>1, FramesInAreTyped
<1>9. StackOK(gs, cs) /\ RunsAt(gs, cs, at, p, at + 1)
  <2>1. at + 1 \in Nat /\ at < at + 1
    BY <1>4
  <2>2. /\ b.kind # "query" /\ Executes(b.kind, p.phase)
        /\ p.phase \in {"entry", "body", "catch", "foreign"}
        /\ r.phase \in {"body", "exitcatch", "query"}
    BY <1>2, <1>5 DEF Executes
  <2>3. \A c \in cs : c.at <= b.choicepoint
    BY <1>4, <1>5
  <2>4. FramesTyped(Put(fs, at, b))
    BY <1>1, <1>8
  <2>5. StackOK(Put(fs, at, b), cs) /\ RunsAt(Put(fs, at, b), cs, at, p, at + 1)
    BY <1>2, <1>4, <1>5, <2>1, <2>2, <2>3, <2>4, FramePushed
  <2>6. QED
    BY <1>1, <2>5
<1>10. Ready(gs, s, at, p, at + 1)
  <2>1. at + 1 \in Nat /\ cs = ElementsOf(s)
    BY <1>1, <1>4
  <2>2. QED
    BY <1>2, <1>4, <1>8, <1>9, <2>1 DEF Ready, Stacked
<1>11. Tidy(gs, cs)
  <2>1. Grounded(Put(fs, at, b))
    BY <1>1, <1>10, StackGrounded DEF Ready
  <2>2. /\ \A f \in DOMAIN fs : f < at
        /\ \A d \in cs : d.at \in Nat /\ d.at < at /\ d.fr \in DOMAIN fs /\ d.at <= b.choicepoint
        /\ b.parent = h /\ b.ret = r /\ b.choicepoint \in Nat /\ (b.isLocal => b.clause # Null)
        /\ h \in DOMAIN fs /\ at \in Nat
    BY <1>4, <1>5, <1>6, BoundsAssumption DEF Null
  <2>3. Tidy(Put(fs, at, b), cs)
    BY <1>3, <1>6, <2>1, <2>2, TidyFrame
  <2>4. QED
    BY <1>1, <2>3
<1>12. Apart(gs, cs, at, p, at + 1)
  BY <1>2, NothingNoted
<1>13. LocalFrames(gs)
  BY <1>5, <1>7 DEF LocalFrames
<1>14. QED
  BY <1>1, <1>5, <1>7, <1>10, <1>11, <1>12, <1>13 DEF Sound

\* Those that own the clauses of more frames own those of some of them.
LEMMA OwnersOfFewer ==
  ASSUME NEW fs, NEW A, NEW own, Owners(fs, A, own), NEW B \in SUBSET A
  PROVE  Owners(fs, B, own)
BY DEF Owners

\* The two frames of a query are pushed on what is left below the stack pointer.
LEMMA QueryRuns ==
  ASSUME MachineInv, ExecuteQuery, 1 <= SP,
         "cleanup" \notin uses /\ status \notin {"host", "fail"} => Kept
  PROVE  /\ MachineInv' /\ ("cleanup" \notin uses => Kept')
         /\ \A b \in 0..SP : Above(frames, b) => Stays(frames, owned, frames', owned', b)
         /\ \A f \in DOMAIN frames' : f \in Nat
<1>1. PICK cs : cs = ElementsOf(cps)
  OBVIOUS
<1>2. PICK clause \in 1..MaxLocals :
        /\ Fresh(clause, owned)
        /\ owned'  = owned \cup {clause}
        /\ frames' = Put(Put(Below(SP, frames), SP, HostFrame(cps)), SP + 1, GoalFrame(cps, SP, clause))
  BY DEF ExecuteQuery
<1>3. /\ status \in {"host", "success", "choices", "fail", "error"}
      /\ SP + 1 + QueryReserved <= StackSize
      /\ FR' = SP + 1 /\ SP' = SP + 2 /\ pos' = At("body") /\ status' = "run"
      /\ UNCHANGED <<cps, heap, trail, states, uses, memory>>
  BY DEF ExecuteQuery
<1>4. /\ MemoryOK /\ MarksOrdered /\ uses \in Programs /\ SP \in Nat /\ owned \subseteq 1..MaxLocals
      /\ Stacked(frames, cps) /\ Tidy(frames, cs) /\ LocalFrames(frames) /\ FramesIn(frames)
      /\ \A c \in cs : c.at < SP
      /\ status \in {"fail", "host"} => cps = <<>>
  BY <1>1 DEF MachineInv, Stacked
<1>5. SP \in 1..StackSize /\ SP + 1 \in 1..StackSize /\ SP + 1 \in Nat /\ SP + 1 + 1 = SP + 2 /\ SP + 2 \in Nat
  BY <1>3, <1>4, BoundsAssumption
<1>6. PICK low : low = Below(SP, frames)
  OBVIOUS
<1>7. PICK mid : mid = Put(low, SP, HostFrame(cps))
  OBVIOUS
<1>8. frames' = Put(mid, SP + 1, GoalFrame(cps, SP, clause))
  BY <1>2, <1>6, <1>7
<1>9. Stacked(low, cps) /\ Tidy(low, cs) /\ LocalFrames(low)
  <2>1. cps \in {cps, <<>>}
    OBVIOUS
  <2>2. QED
    BY <1>1, <1>4, <1>6, <2>1, StackBelow
<1>10. DOMAIN low = {f \in DOMAIN frames : f < SP} /\ \A f \in DOMAIN low : f < SP /\ low[f] = frames[f]
  BY <1>6 DEF Below
<1>11. /\ Sound(mid, cps, SP, At("query"), SP + 1) /\ LocalFrames(mid)
       /\ \A f \in DOMAIN low : AncestorsIn(mid, f) = AncestorsIn(low, f) /\ mid[f] = low[f]
       /\ DOMAIN mid = DOMAIN low \cup {SP} /\ SP \notin DOMAIN low
       /\ AncestorsIn(mid, SP) = {SP} /\ mid[SP].clause = Null /\ ~mid[SP].isLocal
  <2>1. /\ Stacked(low, cps) /\ Tidy(low, ElementsOf(cps)) /\ LocalFrames(low) /\ SP \in 1..StackSize
        /\ \A f \in DOMAIN low : f < SP
        /\ \A c \in ElementsOf(cps) : c.at < SP
        /\ mid = Put(low, SP, HostFrame(cps))
    BY <1>1, <1>4, <1>5, <1>7, <1>9, <1>10
  <2>2. QED
    BY <2>1, HostPushed
<1>12. /\ Sound(frames', cps, SP + 1, At("body"), SP + 2) /\ LocalFrames(frames')
       /\ \A f \in DOMAIN mid : AncestorsIn(frames', f) = AncestorsIn(mid, f) /\ frames'[f] = mid[f]
       /\ DOMAIN frames' = DOMAIN mid \cup {SP + 1} /\ SP + 1 \notin DOMAIN mid
       /\ AncestorsIn(frames', SP + 1) = {SP + 1} \cup AncestorsIn(mid, SP)
       /\ frames'[SP + 1].clause = clause /\ frames'[SP + 1].isLocal
  <2>1. PICK at, gs : at = SP + 1 /\ gs = frames'
    OBVIOUS
  <2>2. /\ Sound(mid, cps, SP, At("query"), at) /\ LocalFrames(mid)
        /\ at \in 1..StackSize /\ clause \in 1..MaxLocals
        /\ gs = Put(mid, at, GoalFrame(cps, SP, clause))
        /\ at + 1 = SP + 2
    BY <1>5, <1>8, <1>11, <2>1
  <2>3. Sound(gs, cps, at, At("body"), at + 1) /\ LocalFrames(gs)
    BY <2>2, GoalPushed
  <2>4. \A f \in DOMAIN mid : f \in Nat /\ f < at
    BY <2>2, SoundProvides
  <2>5. /\ DOMAIN gs = DOMAIN mid \cup {at} /\ at \notin DOMAIN mid
        /\ gs[at] = GoalFrame(cps, SP, clause)
        /\ \A f \in DOMAIN mid : gs[f] = mid[f]
    BY <2>2, <2>4 DEF Put
  <2>6. gs[at].clause = clause /\ gs[at].parent = SP /\ gs[at].isLocal = (clause # Null)
    BY <2>5 DEF GoalFrame, Frame
  <2>7. gs[at].isLocal
    <3>1. clause # Null
      BY BoundsAssumption DEF Null
    <3>2. QED
      BY <2>6, <3>1
  <2>8. Grounded(gs) /\ Grounded(mid)
    BY <1>11, <2>3, SoundProvides
  <2>9. \A f \in DOMAIN mid : AncestorsIn(gs, f) = AncestorsIn(mid, f)
    <3>1. \A f \in DOMAIN mid : f \in DOMAIN gs /\ mid[f].parent = gs[f].parent
      BY <2>5
    <3>2. \A f \in DOMAIN mid : AncestorsIn(mid, f) = AncestorsIn(gs, f)
      BY <2>8, <3>1, AncestorsKept
    <3>3. QED
      BY <3>2
  <2>10. AncestorsIn(gs, at) = {at} \cup AncestorsIn(mid, SP)
    <3>1. SP \in DOMAIN mid /\ SP \in DOMAIN gs /\ at \in DOMAIN gs
      BY <1>11, <2>5
    <3>2. AncestorsIn(gs, at) = {at} \cup AncestorsIn(gs, SP)
      BY <2>6, <2>8, <3>1, Ancestry
    <3>3. QED
      BY <2>9, <3>1, <3>2
  <2>11. QED
    BY <2>1, <2>2, <2>3, <2>5, <2>6, <2>7, <2>9, <2>10
<1>13. MachineInv'
  <2>1. MemoryOK' /\ MarksOrdered'
    <3>1. DataStep
      BY <1>3 DEF DataStep, Grows, Keeps
    <3>2. QED
      BY <1>4, <3>1, MarksStep
  <2>2. Sound(frames', cps', FR', pos', SP')
    BY <1>3, <1>12
  <2>3. Stacked(frames', cps') /\ Tidy(frames', ElementsOf(cps')) /\ FR' \in DOMAIN frames'
        /\ \A c \in ElementsOf(cps') : c.at < SP'
    BY <2>2, SoundEnds DEF Sound, Ready
  <2>4. owned' \subseteq 1..MaxLocals /\ FR' \in Nat /\ SP' \in Nat /\ pos' \in Pos
    BY <1>2, <1>3, <1>4, <1>5, AtIsPos DEF Phases
  <2>5. QED
    BY <1>3, <1>4, <1>12, <2>1, <2>2, <2>3, <2>4, NextMachine DEF Statuses
<1>14. \A f \in DOMAIN frames' : f \in Nat
  BY <1>12, SoundProvides
<1>15. ASSUME NEW b \in 0..SP, Above(frames, b)
       PROVE  Stays(frames, owned, frames', owned', b)
  <2>1. b \in Nat /\ b <= SP /\ b <= SP + 1
    BY <1>4
  <2>2. Stays(frames, owned, low, owned, b)
    <3>1. PICK gone : gone = {}
      OBVIOUS
    <3>2. /\ \A f \in gone : f \in DOMAIN frames => b <= f
          /\ Elsewhere(frames, owned, b) \subseteq owned
      BY <3>1 DEF Elsewhere
    <3>3. Stays(frames, owned, Below(SP, frames), owned, b)
      BY <1>4, <1>15, <2>1, <3>2, StaysBelow
    <3>4. QED
      BY <1>6, <3>3
  <2>3. Stays(low, owned, mid, owned, b)
    <3>1. HostFrame(cps).kind = "query" /\ ~HostFrame(cps).isLocal
      BY DEF HostFrame, Frame
    <3>2. Above(low, b)
      BY <2>2 DEF Stays
    <3>3. Stays(low, owned, Put(low, SP, HostFrame(cps)), owned, b)
      BY <1>4, <2>1, <3>1, <3>2, StaysPut
    <3>4. QED
      BY <1>7, <3>3
  <2>4. Stays(mid, owned, frames', owned', b)
    <3>1. /\ GoalFrame(cps, SP, clause).parent = SP
          /\ GoalFrame(cps, SP, clause).clause = clause
      BY DEF GoalFrame, Frame
    <3>2. Above(mid, b)
      BY <2>3 DEF Stays
    <3>3. clause \notin owned /\ owned \subseteq owned'
      BY <1>2 DEF Fresh
    <3>4. Stays(mid, owned, Put(mid, SP + 1, GoalFrame(cps, SP, clause)), owned', b)
      BY <1>5, <2>1, <3>1, <3>2, <3>3, StaysPut
    <3>5. QED
      BY <1>8, <3>4
  <2>5. Stays(frames, owned, mid, owned, b)
    BY <2>2, <2>3, StaysTwice
  <2>6. QED
    BY <2>4, <2>5, StaysTwice
<1>16. ASSUME "cleanup" \notin uses
       PROVE  Kept'
  <2>1. PICK A : A = UNION {AncestorsIn(low, c.fr) : c \in cs}
    OBVIOUS
  <2>2. /\ Grounded(frames) /\ Grounded(low) /\ \A c \in cs : c.fr \in DOMAIN low
    <3>1. Nested(low, cs)
      BY <1>1, <1>9, StackNested
    <3>2. QED
      BY <1>4, <1>9, <3>1, StackGrounded DEF Nested
  <2>3. \A f \in DOMAIN low : AncestorsIn(low, f) = AncestorsIn(frames, f)
    <3>1. \A f \in DOMAIN low : f \in DOMAIN frames /\ low[f].parent = frames[f].parent
      BY <1>10
    <3>2. QED
      BY <2>2, <3>1, AncestorsKept
  <2>4. A \subseteq DOMAIN low
    <3>1. \A f \in DOMAIN low : \A e \in AncestorsIn(low, f) : e \in DOMAIN low
      BY <2>2, Ancestry
    <3>2. QED
      BY <2>1, <2>2, <3>1
  <2>5. Owners(low, A, owned)
    <3>1. CASE cps = <<>>
      <4>1. A = {}
        BY <1>1, <2>1, <3>1 DEF ElementsOf
      <4>2. QED
        BY <4>1 DEF Owners
    <3>2. CASE cps # <<>>
      <4>1. Owners(frames, Live(frames, cs, FR), owned)
        BY <1>1, <1>3, <1>4, <1>16, <3>2 DEF Kept
      <4>2. A \subseteq Live(frames, cs, FR)
        BY <2>1, <2>2, <2>3 DEF Live
      <4>3. Owners(frames, A, owned)
        BY <4>1, <4>2, OwnersOfFewer
      <4>4. QED
        BY <1>10, <2>4, <4>3 DEF Owners
    <3>3. QED
      BY <3>1, <3>2
  <2>6. Owners(mid, A \cup {SP}, owned)
    <3>1. /\ SP \notin A /\ \A f \in A : mid[f] = low[f]
          /\ \A f \in A : low[f].isLocal => low[f].clause # Null
      BY <1>9, <1>11, <2>4 DEF Tidy, Labelled
    <3>2. /\ mid[SP].clause = Null /\ (mid[SP].isLocal <=> Null # Null)
          /\ owned = IF Null = Null THEN owned ELSE owned \cup {Null}
      BY <1>11
    <3>3. QED
      BY <2>5, <3>1, <3>2, OwnersPush
  <2>7. Owners(frames', (A \cup {SP}) \cup {SP + 1}, owned')
    <3>1. /\ A \cup {SP} \subseteq DOMAIN mid /\ SP + 1 \notin A \cup {SP}
          /\ \A f \in A \cup {SP} : frames'[f] = mid[f]
      BY <1>11, <1>12, <2>4
    <3>2. \A f \in A \cup {SP} : mid[f].isLocal => mid[f].clause # Null
      BY <1>11, <3>1 DEF Sound, Tidy, Labelled
    <3>3. clause # Null /\ clause \notin owned
      BY <1>2, BoundsAssumption DEF Fresh, Null
    <3>4. /\ frames'[SP + 1].clause = clause /\ (frames'[SP + 1].isLocal <=> clause # Null)
          /\ owned' = IF clause = Null THEN owned ELSE owned \cup {clause}
      BY <1>2, <1>12, <3>3
    <3>5. QED
      BY <2>6, <3>1, <3>2, <3>3, <3>4, OwnersPush
  <2>8. Live(frames', cs, SP + 1) = (A \cup {SP}) \cup {SP + 1}
    <3>1. \A c \in cs : AncestorsIn(frames', c.fr) = AncestorsIn(low, c.fr)
      BY <1>11, <1>12, <2>2
    <3>2. AncestorsIn(frames', SP + 1) = {SP + 1} \cup {SP}
      BY <1>11, <1>12
    <3>3. QED
      BY <2>1, <3>1, <3>2 DEF Live
  <2>9. Owners(frames', Live(frames', ElementsOf(cps'), FR'), owned')
    BY <1>1, <1>3, <2>7, <2>8
  <2>10. QED
    BY <2>9 DEF Kept
<1>17. QED
  BY <1>13, <1>14, <1>15, <1>16

\* Asking a query
LEMMA ExecuteQueryKeeps ==
  ASSUME QueriesInv, ExecuteQuery
  PROVE  /\ QueriesInv'
         /\ \A k \in DOMAIN states : /\ Stays(frames, owned, frames', owned', AfterChoice(Mark(states[k])))
                                     /\ AfterChoice(Mark(states[k])) <= SP'
         /\ states' = states
<1>1. /\ status \in {"host", "success", "choices", "fail", "error"} /\ states # <<>>
      /\ FR' = SP + 1 /\ SP' = SP + 2 /\ status' = "run"
      /\ UNCHANGED <<cps, heap, trail, states, uses, memory>>
  BY DEF ExecuteQuery
<1>2. /\ MachineInv /\ ("cleanup" \notin uses /\ status \notin {"host", "fail"} => Kept)
      /\ memory \in Seq(1..HeapSize) /\ Len(trail) <= Len(memory)
      /\ Levels(states, frames, owned, Len(memory)) /\ Layered(states, frames)
      /\ Reaches(states, frames, ElementsOf(cps), SP, Len(heap), Runner)
  BY DEF QueriesInv
<1>3. PICK n \in Nat : n = Len(states) /\ DOMAIN states = 1..n
  BY DEF QueriesInv
<1>4. SP \in Nat
  BY <1>2 DEF MachineInv
<1>5. ASSUME NEW k \in DOMAIN states
      PROVE  /\ AfterChoice(Mark(states[k])) \in 1..SP
             /\ Lies(Mark(states[k]), frames, ElementsOf(cps), SP, Len(heap), Runner)
  <2>1. SavedOK(states[k]) /\ Lies(Mark(states[k]), frames, ElementsOf(cps), SP, Len(heap), Runner)
    BY <1>2 DEF Levels, Reaches
  <2>2. AfterChoice(Mark(states[k])) \in Nat /\ AfterChoice(Mark(states[k])) # 0
    BY <2>1, MarkOK
  <2>3. AfterChoice(Mark(states[k])) <= SP
    BY <2>1 DEF Lies
  <2>4. QED
    BY <1>4, <2>1, <2>2, <2>3
<1>6. 1 <= SP
  <2>1. n # 0
    BY <1>1, <1>3
  <2>2. 1 \in DOMAIN states
    BY <1>3, <2>1
  <2>3. QED
    BY <1>4, <1>5, <2>2
<1>7. /\ MachineInv' /\ ("cleanup" \notin uses => Kept')
      /\ \A b \in 0..SP : Above(frames, b) => Stays(frames, owned, frames', owned', b)
      /\ \A f \in DOMAIN frames' : f \in Nat
  BY <1>2, <1>6, QueryRuns
<1>8. ASSUME NEW k \in DOMAIN states
      PROVE  /\ Stays(frames, owned, frames', owned', AfterChoice(Mark(states[k])))
             /\ AfterChoice(Mark(states[k])) <= SP'
             /\ Lies(Mark(states[k]), frames', ElementsOf(cps'), SP', Len(heap'), Runner')
  <2>1. PICK b \in 1..SP : b = AfterChoice(Mark(states[k]))
    BY <1>5
  <2>2. Lies(Mark(states[k]), frames, ElementsOf(cps), SP, Len(heap), Runner)
    BY <1>5
  <2>3. Above(frames, b)
    BY <2>1, <2>2 DEF Lies
  <2>4. Stays(frames, owned, frames', owned', b)
    BY <1>7, <2>3
  <2>5. Above(frames', b)
    BY <2>4 DEF Stays
  <2>6. b <= SP + 1 /\ b <= SP + 2
    BY <1>4
  <2>7. Runner' = SP + 1
    BY <1>1 DEF Runner
  <2>8. Lies(Mark(states[k]), frames', ElementsOf(cps), SP + 2, Len(heap), SP + 1)
    BY <2>1, <2>2, <2>5, <2>6 DEF Lies
  <2>9. QED
    BY <1>1, <2>1, <2>4, <2>6, <2>7, <2>8
<1>9. Levels(states, frames', owned', Len(memory)) /\ Layered(states, frames')
  <2>1. PICK m \in Nat : m = Len(memory)
    BY <1>2, LenProperties
  <2>2. /\ Levels(states, frames, owned, m) /\ m <= m
        /\ \A k \in DOMAIN states : Stays(frames, owned, frames', owned', AfterChoice(Mark(states[k])))
    BY <1>2, <1>8, <2>1
  <2>3. Levels(states, frames', owned', m) /\ Layered(states, frames')
    BY <1>2, <1>7, <2>2, LevelsStay
  <2>4. QED
    BY <2>1, <2>3
<1>10. Reaches(states', frames', ElementsOf(cps'), SP', Len(heap'), Runner')
  BY <1>1, <1>8 DEF Reaches
<1>11. QueriesInv'
  <2>1. /\ memory' \in Seq(1..HeapSize) /\ Len(trail') <= Len(memory')
        /\ status' # "host" /\ Len(states') \in Nat /\ DOMAIN states' = 1..Len(states') /\ uses' = uses
        /\ Levels(states', frames', owned', Len(memory')) /\ Layered(states', frames')
    BY <1>1, <1>2, <1>3, <1>9
  <2>2. QED
    BY <1>7, <1>10, <2>1, NextQueries
<1>12. QED
  BY <1>1, <1>8, <1>11

(***************************************************************************)
(* Going back                                                              *)
(***************************************************************************)
\* What is left below a choicepoint when the frames above it give up their clauses, and its frame
\* gets back what it had.
LEMMA BackBelow ==
  ASSUME NEW fs, FramesIn(fs), NEW at, NEW gone, \A f \in gone : ~(f < at),
         NEW g, g \in DOMAIN fs, g < at, NEW k, k = fs[g].clause, NEW m, m = fs[g].slotCount,
         NEW gs, gs = [Below(at, Disowned(fs, gone)) EXCEPT ![g].clause = k, ![g].slotCount = m]
  PROVE  gs = Below(at, fs)
<1>1. PICK low, D : low = Below(at, Disowned(fs, gone)) /\ D = {f \in DOMAIN fs : f < at}
  OBVIOUS
<1>2. low = [f \in D |-> fs[f]]
  <2>1. DOMAIN Disowned(fs, gone) = DOMAIN fs
    BY DEF Disowned
  <2>2. \A f \in DOMAIN fs : f < at => Disowned(fs, gone)[f] = fs[f]
    BY DEF Disowned
  <2>3. low = [f \in D |-> Disowned(fs, gone)[f]]
    BY <1>1, <2>1 DEF Below
  <2>4. QED
    BY <1>1, <2>2, <2>3
<1>3. g \in D /\ low[g] = fs[g] /\ fs[g] \in FrameType
  BY <1>1, <1>2 DEF FramesIn
<1>4. [low[g] EXCEPT !.clause = k] = low[g]
  BY <1>3 DEF FrameType
<1>5. [low[g] EXCEPT !.slotCount = m] = low[g]
  BY <1>3 DEF FrameType
<1>6. [low EXCEPT ![g].clause = k] = low
  BY <1>2, <1>3, <1>4
<1>7. [low EXCEPT ![g].slotCount = m] = low
  BY <1>2, <1>3, <1>5
<1>8. gs = low
  BY <1>1, <1>6, <1>7
<1>9. Below(at, fs) = [f \in D |-> fs[f]]
  BY <1>1 DEF Below
<1>10. QED
  BY <1>2, <1>8, <1>9

\* Only frames above the choicepoint of a saved state are given up when it is restored.
LEMMA GivenUpAbove ==
  ASSUME MachineInv, NEW c, c.fr \in Nat, NEW b \in Nat,
         Lies(c, frames, ElementsOf(cps), SP, Len(heap), Runner), b = AfterChoice(c),
         status \in {"host", "success", "choices", "fail", "error", "yield"},
         status = "host" => FR = c.fr,
         NEW n \in Nat
  PROVE  \A f \in CutFrames(n) \cup {f \in Continuation : f > c.fr /\ frames[f].isLocal} :
           f \in DOMAIN frames /\ b <= f
<1>1. /\ Stacked(frames, cps) /\ FR \in Nat /\ SP \in Nat
      /\ IF status = "error" THEN FR = Null ELSE FR \in DOMAIN frames
  BY DEF MachineInv
<1>2. Inside(b)
  BY DEF Lies, Inside
<1>3. \A f \in CutFrames(n) : f \in DOMAIN frames /\ b <= f
  BY <1>1, <1>2, AbandonedAbove
<1>4. Grounded(frames) /\ \A a : Ancestors(a) = AncestorsIn(frames, a)
  BY <1>1, StackGrounded DEF Ancestors, AncestorsIn
<1>5. ASSUME NEW f \in Continuation, f > c.fr
      PROVE  f \in DOMAIN frames /\ b <= f
  <2>1. CASE status = "error"
    <3>1. Null \notin DOMAIN frames /\ Null \in 0..StackSize
      BY <1>1, BoundsAssumption DEF Stacked, FramesIn, Null
    <3>2. AncestorsIn(frames, Null) = {}
      BY <1>4, <3>1, AncestorsStep DEF Grounded
    <3>3. QED
      BY <1>1, <1>4, <1>5, <2>1, <3>2 DEF Continuation
  <2>2. CASE status = "host"
    <3>1. f <= FR /\ f \in DOMAIN frames
      BY <1>1, <1>4, <1>5, <2>2, Ancestry DEF Continuation
    <3>2. f \in Nat
      BY <1>4, <3>1, Ancestry
    <3>3. QED
      BY <1>1, <1>5, <2>2, <3>1, <3>2
  <2>3. CASE status \notin {"error", "host"}
    <3>1. b <= FR /\ FR \in DOMAIN frames
      BY <1>1, <2>3 DEF Lies, Runner
    <3>2. QED
      BY <1>1, <1>2, <1>5, <3>1, LiveAbove
  <2>4. QED
    BY <2>1, <2>2, <2>3
<1>6. QED
  BY <1>3, <1>5

\* The first elements of a sequence
LEMMA PrefixOf ==
  ASSUME NEW S, NEW s \in Seq(S), NEW n \in Nat, n <= Len(s)
  PROVE  SubSeq(s, 1, n) \in Seq(S) /\ Len(SubSeq(s, 1, n)) = n
<1>1. PICK k \in Nat : k = Len(s) /\ DOMAIN s = 1..k
  BY LenProperties
<1>2. \A i \in 1..n : s[i] \in S
  BY <1>1, ElementOfSeq
<1>3. /\ SubSeq(s, 1, n) \in Seq(S)
      /\ Len(SubSeq(s, 1, n)) = (IF 1 <= n THEN n - 1 + 1 ELSE 0)
  BY <1>1, <1>2, SubSeqProperties
<1>4. (IF 1 <= n THEN n - 1 + 1 ELSE 0) = n
  OBVIOUS
<1>5. QED
  BY <1>3, <1>4

\* The machine is as it was when the state was saved.
LEMMA RestoredRuns ==
  ASSUME MachineInv, RestoreState,
         NEW s, s = states[Len(states)], NEW c, c = Mark(s),
         memory \in Seq(1..HeapSize), c.tr <= Len(memory),
         SavedOK(s), Resumable(s, frames, owned),
         Lies(c, frames, ElementsOf(cps), SP, Len(heap), Runner),
         status = "host" => FR = c.fr
  PROVE  /\ MachineInv' /\ ("cleanup" \notin uses => Kept')
         /\ frames' = Below(c.at, frames) /\ SP' = c.at /\ FR' = c.fr /\ cps' = ChoicesUnder(s)
         /\ Len(heap') = c.h /\ Len(trail') = c.tr
         /\ Elsewhere(frames, owned, AfterChoice(c)) \subseteq owned'
<1>1. /\ c \in ChoiceType /\ c.at \in Nat /\ c.fr \in Nat /\ c.pc \in Pos /\ c.h \in Nat /\ c.tr \in Nat
      /\ AfterChoice(c) = c.at + 1 /\ AfterChoice(c) \in Nat
      /\ ChoicesUnder(s) \in Seq(ChoiceType)
      /\ c.type = "Body" /\ c.pc.phase = "foreign" /\ s.status \in {"run", "yield"}
  BY MarkOK DEF SavedOK
<1>2. PICK n \in {1} \cup {i \in DOMAIN cps : cps[i].cleanup # Null} :
        /\ cps'    = ChoicesUnder(s)
        /\ status' = s.status
        /\ heap'   = SubSeq(heap, 1, c.h)
        /\ trail'  = SubSeq(memory, 1, c.tr)
        /\ Apply(c, CutFrames(n - 1) \cup {f \in Continuation : f > c.fr /\ frames[f].isLocal})
  BY DEF RestoreState, Mark
<1>3. /\ status \in {"host", "success", "choices", "fail", "error", "yield"}
      /\ UNCHANGED <<uses, memory>>
  BY DEF RestoreState
<1>4. PICK gone : gone = CutFrames(n - 1) \cup {f \in Continuation : f > c.fr /\ frames[f].isLocal}
  OBVIOUS
<1>5. /\ FR' = c.fr /\ SP' = c.at /\ pos' = c.pc
      /\ frames' = [Below(c.at, Disowned(frames, gone)) EXCEPT
                      ![c.fr].clause = c.clause, ![c.fr].slotCount = c.slotCount]
      /\ owned' = owned \ ClausesOf(gone)
  BY <1>1, <1>2, <1>4 DEF Apply
<1>6. /\ MemoryOK /\ uses \in Programs /\ owned \subseteq 1..MaxLocals
      /\ Stacked(frames, cps) /\ FramesIn(frames)
  BY DEF MachineInv, Stacked
<1>7. \A f \in gone : f \in DOMAIN frames /\ AfterChoice(c) <= f
  <2>1. n - 1 \in Nat
    <3>1. cps \in Seq(ChoiceType)
      BY <1>6 DEF Stacked
    <3>2. DOMAIN cps = 1..Len(cps) /\ Len(cps) \in Nat
      BY <3>1, LenProperties
    <3>3. QED
      BY <3>2
  <2>2. PICK m \in Nat, b \in Nat : m = n - 1 /\ b = AfterChoice(c)
    BY <1>1, <2>1
  <2>3. \A f \in CutFrames(m) \cup {f \in Continuation : f > c.fr /\ frames[f].isLocal} :
          f \in DOMAIN frames /\ b <= f
    BY <1>1, <1>3, <2>2, GivenUpAbove
  <2>4. QED
    BY <1>4, <2>2, <2>3
<1>8. PICK low, t : low = Below(c.at, frames) /\ t = ChoicesUnder(s)
  OBVIOUS
<1>9. /\ Sound(low, t, c.fr, c.pc, c.at) /\ LocalFrames(low)
      /\ c.clause = frames[c.fr].clause /\ c.slotCount = frames[c.fr].slotCount
      /\ MarksBelow(t, c.tr, c.h)
      /\ "cleanup" \notin uses =>
           Owners(low, Live(low, ElementsOf(t), c.fr), Elsewhere(frames, owned, AfterChoice(c)))
  BY <1>8 DEF Resumable
<1>10. c.fr \in DOMAIN frames /\ c.fr < c.at
  <2>1. c.fr \in DOMAIN low
    BY <1>9, SoundEnds
  <2>2. QED
    BY <1>8, <2>1 DEF Below
<1>11. frames' = low
  <2>1. \A f \in gone : ~(f < c.at)
    <3>1. \A f \in DOMAIN frames : f \in Nat
      BY <1>6, FramesInAreTyped DEF FramesTyped
    <3>2. QED
      BY <1>1, <1>7, <3>1
  <2>2. PICK gs, at, g, k, m :
          gs = frames' /\ at = c.at /\ g = c.fr /\ k = c.clause /\ m = c.slotCount
    OBVIOUS
  <2>3. /\ FramesIn(frames) /\ (\A f \in gone : ~(f < at))
        /\ g \in DOMAIN frames /\ g < at /\ k = frames[g].clause /\ m = frames[g].slotCount
        /\ gs = [Below(at, Disowned(frames, gone)) EXCEPT ![g].clause = k, ![g].slotCount = m]
    BY <1>5, <1>6, <1>9, <1>10, <2>1, <2>2
  <2>4. gs = Below(at, frames)
    BY <2>3, BackBelow
  <2>5. QED
    BY <1>8, <2>2, <2>4
<1>12. Elsewhere(frames, owned, AfterChoice(c)) \subseteq owned'
  BY <1>5, <1>7, FreesAbove
<1>13. /\ heap' \in Seq(1..HeapSize \cup Atoms) /\ Len(heap') = c.h /\ c.h <= Len(heap)
  <2>1. c.h <= Len(heap) /\ heap \in Seq(1..HeapSize \cup Atoms) /\ Len(heap) \in Nat
    BY <1>6, LenProperties DEF Lies, MemoryOK
  <2>2. QED
    BY <1>1, <1>2, <2>1, PrefixOf
<1>14. /\ trail' \in Seq(1..HeapSize) /\ Len(trail') = c.tr
  BY <1>1, <1>2, PrefixOf
<1>15. MemoryOK' /\ MarksOrdered'
  <2>1. Len(heap') <= HeapSize
    <3>1. Len(heap) <= HeapSize /\ Len(heap) \in Nat
      BY <1>6, LenProperties DEF MemoryOK
    <3>2. QED
      BY <1>1, <1>13, <3>1, BoundsAssumption
  <2>2. cps' \in Seq({cps'[i] : i \in DOMAIN cps'})
    BY <1>1, <1>2, SeqOfElements
  <2>3. /\ \A i \in DOMAIN cps' : cps'[i].tr \in 0..Len(trail') /\ cps'[i].h \in 0..Len(heap')
        /\ \A i, j \in DOMAIN cps' : i <= j => cps'[i].tr <= cps'[j].tr /\ cps'[i].h <= cps'[j].h
    BY <1>2, <1>8, <1>9, <1>13, <1>14 DEF MarksBelow
  <2>4. QED
    BY <1>13, <1>14, <2>1, <2>2, <2>3 DEF MemoryOK, MarksOrdered, Choices
<1>16. MachineInv'
  <2>1. Sound(frames', cps', FR', pos', SP')
    BY <1>2, <1>5, <1>8, <1>9, <1>11
  <2>2. Stacked(frames', cps') /\ Tidy(frames', ElementsOf(cps')) /\ FR' \in DOMAIN frames'
        /\ \A d \in ElementsOf(cps') : d.at < SP'
    BY <2>1, SoundEnds DEF Sound, Ready
  <2>3. LocalFrames(frames') /\ FR' \in Nat /\ pos' \in Pos /\ SP' \in Nat /\ owned' \subseteq 1..MaxLocals
    BY <1>1, <1>5, <1>6, <1>9, <1>11
  <2>4. status' \in {"run", "yield"} /\ pos'.phase = "foreign"
    BY <1>1, <1>2, <1>5
  <2>5. QED
    BY <1>3, <1>6, <1>15, <2>1, <2>2, <2>3, <2>4, NextMachine DEF Statuses
<1>17. ASSUME "cleanup" \notin uses
       PROVE  Kept'
  <2>1. Owners(low, Live(low, ElementsOf(t), c.fr), Elsewhere(frames, owned, AfterChoice(c)))
    BY <1>9, <1>17
  <2>2. Owners(low, Live(low, ElementsOf(t), c.fr), owned')
    BY <1>12, <2>1 DEF Owners
  <2>3. Owners(frames', Live(frames', ElementsOf(cps'), FR'), owned')
    BY <1>2, <1>5, <1>8, <1>11, <2>2
  <2>4. QED
    BY <2>3 DEF Kept
<1>18. QED
  BY <1>2, <1>5, <1>8, <1>11, <1>12, <1>13, <1>14, <1>16, <1>17

\* Restoring a state
LEMMA RestoreStateKeeps ==
  ASSUME QueriesInv, RestoreState
  PROVE  /\ QueriesInv'
         /\ \A k \in DOMAIN states : /\ Below(Mark(states[k]).at, frames') = Below(Mark(states[k]).at, frames)
                                     /\ k \in DOMAIN states' => AfterChoice(Mark(states[k])) <= SP'
<1>1. PICK n \in Nat : n = Len(states) /\ DOMAIN states = 1..n
  BY DEF QueriesInv
<1>2. /\ states # <<>> /\ states' = SubSeq(states, 1, n - 1) /\ UNCHANGED <<uses, memory>>
      /\ status' = states[n].status
  BY <1>1 DEF RestoreState
<1>3. n # 0 /\ n - 1 \in Nat /\ n \in DOMAIN states
  BY <1>1, <1>2
<1>4. PICK s, c : s = states[n] /\ c = Mark(s)
  OBVIOUS
<1>5. /\ MachineInv /\ memory \in Seq(1..HeapSize)
      /\ Levels(states, frames, owned, Len(memory)) /\ Layered(states, frames)
      /\ Reaches(states, frames, ElementsOf(cps), SP, Len(heap), Runner)
      /\ status = "host" => FR = c.fr
  BY <1>1, <1>4 DEF QueriesInv
<1>6. /\ SavedOK(s) /\ Resumable(s, frames, owned) /\ c.tr <= Len(memory)
      /\ Lies(c, frames, ElementsOf(cps), SP, Len(heap), Runner)
  BY <1>3, <1>4, <1>5 DEF Levels, Reaches
<1>7. /\ c.at \in Nat /\ AfterChoice(c) = c.at + 1 /\ AfterChoice(c) \in Nat /\ c.tr \in Nat
      /\ s.status \in {"run", "yield"} /\ ChoicesUnder(s) \in Seq(ChoiceType)
  BY <1>4, <1>6, MarkOK DEF SavedOK
<1>8. /\ MachineInv' /\ ("cleanup" \notin uses => Kept')
      /\ frames' = Below(c.at, frames) /\ SP' = c.at /\ FR' = c.fr /\ cps' = ChoicesUnder(s)
      /\ Len(heap') = c.h /\ Len(trail') = c.tr
      /\ Elsewhere(frames, owned, AfterChoice(c)) \subseteq owned'
  BY <1>1, <1>4, <1>5, <1>6, RestoredRuns
<1>9. /\ Len(states') = n - 1 /\ DOMAIN states' = 1..n - 1
      /\ \A k \in 1..n - 1 : states'[k] = states[k]
  <2>1. PICK tt : tt = SubSeq(states, 1, n - 1)
    OBVIOUS
  <2>2. tt = [i \in 1..n - 1 |-> states[i]]
    BY <1>1, <1>3, <2>1
  <2>3. QED
    BY <1>2, <1>3, <2>1, <2>2
<1>10. FramesIn(frames) /\ (\A f \in DOMAIN frames : f \in Nat)
  BY <1>5, FramesInAreTyped DEF MachineInv, Stacked, FramesTyped
<1>11. ASSUME NEW k \in 1..n - 1
       PROVE  /\ Lies(Mark(states[k]), Below(c.at, frames), ElementsOf(ChoicesUnder(s)), c.at, c.h, c.fr)
              /\ AfterChoice(Mark(states[k])) <= c.at
              /\ Stays(frames, owned, frames', owned', AfterChoice(Mark(states[k])))
              /\ Below(Mark(states[k]).at, frames') = Below(Mark(states[k]).at, frames)
  <2>1. k \in DOMAIN states /\ k < n
    BY <1>1, <1>3
  <2>2. Lies(Mark(states[k]), Below(c.at, frames), ElementsOf(ChoicesUnder(s)), c.at, c.h, c.fr)
    BY <1>3, <1>4, <1>5, <2>1 DEF Layered
  <2>3. SavedOK(states[k]) /\ Resumable(states[k], frames, owned) /\ Above(frames, AfterChoice(Mark(states[k])))
    BY <1>5, <2>1 DEF Levels, Reaches, Lies
  <2>4. PICK b \in Nat : b = AfterChoice(Mark(states[k]))
    BY <2>3, MarkOK
  <2>5. b <= c.at
    BY <2>2, <2>4 DEF Lies
  <2>6. Stays(frames, owned, frames', owned', b)
    <3>1. PICK gone : gone = {}
      OBVIOUS
    <3>2. \A f \in gone : f \in DOMAIN frames => b <= f
      BY <3>1
    <3>3. Elsewhere(frames, owned, b) \subseteq owned'
      <4>1. \A f \in DOMAIN frames : AfterChoice(c) <= f => b <= f
        BY <1>7, <1>10, <2>5
      <4>2. Elsewhere(frames, owned, b) \subseteq Elsewhere(frames, owned, AfterChoice(c))
        BY <4>1 DEF Elsewhere
      <4>3. QED
        BY <1>8, <4>2
    <3>4. Stays(frames, owned, Below(c.at, frames), owned', b)
      BY <1>7, <1>10, <2>3, <2>4, <2>5, <3>2, <3>3, StaysBelow
    <3>5. QED
      BY <1>8, <3>4
  <2>7. \A f \in DOMAIN frames' : f \in Nat
    BY <1>8, <1>10 DEF Below
  <2>8. Below(Mark(states[k]).at, frames') = Below(Mark(states[k]).at, frames)
    BY <2>3, <2>4, <2>6, <2>7, ResumableStays
  <2>9. QED
    BY <2>2, <2>4, <2>5, <2>6, <2>8
<1>12. Levels(states', frames', owned', Len(memory)) /\ Layered(states', frames')
  <2>1. PICK tt, fs, own : tt = states' /\ fs = frames' /\ own = owned'
    OBVIOUS
  <2>2. PICK m \in Nat : m = Len(memory)
    BY <1>5, LenProperties
  <2>3. DOMAIN tt \subseteq DOMAIN states /\ \A k \in DOMAIN tt : tt[k] = states[k]
    BY <1>1, <1>3, <1>9, <2>1
  <2>4. Levels(tt, frames, owned, m)
    BY <1>5, <2>2, <2>3 DEF Levels
  <2>5. Layered(tt, frames)
    BY <1>5, <2>3 DEF Layered
  <2>6. \A k \in DOMAIN tt : Stays(frames, owned, fs, own, AfterChoice(Mark(tt[k])))
    BY <1>9, <1>11, <2>1
  <2>7. \A f \in DOMAIN fs : f \in Nat
    BY <1>8, <1>10, <2>1 DEF Below
  <2>8. m <= m
    OBVIOUS
  <2>9. Levels(tt, fs, own, m) /\ Layered(tt, fs)
    BY <2>4, <2>5, <2>6, <2>7, <2>8, LevelsStay
  <2>10. QED
    BY <2>1, <2>2, <2>9
<1>13. Reaches(states', frames', ElementsOf(cps'), SP', Len(heap'), Runner')
  <2>1. Runner' = c.fr
    BY <1>2, <1>4, <1>7, <1>8 DEF Runner
  <2>2. QED
    BY <1>8, <1>9, <1>11, <2>1 DEF Reaches
<1>14. QueriesInv'
  <2>1. /\ memory' \in Seq(1..HeapSize) /\ Len(trail') <= Len(memory') /\ memory' = memory
        /\ status' # "host" /\ Len(states') \in Nat /\ DOMAIN states' = 1..Len(states') /\ uses' = uses
    BY <1>2, <1>3, <1>4, <1>5, <1>6, <1>7, <1>8, <1>9
  <2>2. QED
    BY <1>8, <1>12, <1>13, <2>1, NextQueries
<1>15. Below(c.at, frames') = Below(c.at, frames)
  BY <1>8 DEF Below
<1>16. ASSUME NEW k \in DOMAIN states
       PROVE  /\ Below(Mark(states[k]).at, frames') = Below(Mark(states[k]).at, frames)
              /\ k \in DOMAIN states' => AfterChoice(Mark(states[k])) <= SP'
  <2>1. CASE k \in 1..n - 1
    BY <1>8, <1>11, <2>1
  <2>2. CASE k = n
    BY <1>3, <1>4, <1>9, <1>15, <2>2
  <2>3. QED
    BY <1>1, <1>3, <2>1, <2>2
<1>17. QED
  BY <1>14, <1>16

(***************************************************************************)
(* The invariant of queries within queries                                 *)
(***************************************************************************)
\* The saved states have their types.
StatesTyped == states \in Seq([choices : Seq(ChoiceType), status : {"run", "yield"}])

\* What a step does for what has been saved
KeepsSaved ==
  /\ QueriesInv'
  /\ \A k \in DOMAIN states :
       /\ Below(Mark(states[k]).at, frames') = Below(Mark(states[k]).at, frames)
       /\ k \in DOMAIN states' => AfterChoice(Mark(states[k])) <= SP'

\* The first query starts with nothing saved.
LEMMA InitQueries ==
  ASSUME QueriesInit
  PROVE  QueriesInv /\ StatesTyped
<1>1. /\ Init /\ states = <<>> /\ memory = <<>> /\ ThrowInv /\ ThrowUse
      /\ status = "run" /\ FR = 2 /\ SP = 3 /\ cps = <<>> /\ trail = <<>>
      /\ DOMAIN frames = {1, 2}
  BY InitThrow DEF QueriesInit, Init
<1>2. PICK cs : cs = ElementsOf(cps) /\ \A c \in cs : c.at < SP
  BY <1>1 DEF ElementsOf
<1>3. MachineInv
  BY <1>1, <1>2 DEF ThrowInv, MachineInv
<1>4. "cleanup" \notin uses => Kept
  <2>1. UseInv
    BY <1>1, InitUse
  <2>2. QED
    BY <2>1 DEF UseInv, Kept
<1>5. /\ DOMAIN states = {} /\ Len(states) = 0 /\ DOMAIN states = 1..Len(states)
      /\ memory \in Seq(1..HeapSize) /\ Len(trail) <= Len(memory)
  BY <1>1
<1>6. /\ Levels(states, frames, owned, Len(memory)) /\ Layered(states, frames)
      /\ Reaches(states, frames, ElementsOf(cps), SP, Len(heap), Runner)
  BY <1>5 DEF Levels, Layered, Reaches
<1>7. QueriesInv
  BY <1>1, <1>3, <1>4, <1>5, <1>6 DEF QueriesInv
<1>8. StatesTyped
  BY <1>1 DEF StatesTyped
<1>9. QED
  BY <1>7, <1>8

\* The frames below the choicepoint of a saved state stay, when what lies below its end does.
LEMMA SavedStay ==
  ASSUME QueriesInv, QueriesInv',
         \A k \in DOMAIN states : Stays(frames, owned, frames', owned', AfterChoice(Mark(states[k])))
  PROVE  \A k \in DOMAIN states :
           Below(Mark(states[k]).at, frames') = Below(Mark(states[k]).at, frames)
<1>1. Levels(states, frames, owned, Len(memory))
  BY DEF QueriesInv
<1>2. \A f \in DOMAIN frames' : f \in Nat
  <2>1. \A f \in DOMAIN frames' : f \in 1..StackSize
    BY DEF QueriesInv, MachineInv, Stacked, FramesIn
  <2>2. QED
    BY <2>1, BoundsAssumption
<1>3. ASSUME NEW k \in DOMAIN states
      PROVE  Below(Mark(states[k]).at, frames') = Below(Mark(states[k]).at, frames)
  <2>1. PICK s : s = states[k] /\ SavedOK(s) /\ Resumable(s, frames, owned)
    BY <1>1, <1>3 DEF Levels
  <2>2. Stays(frames, owned, frames', owned', AfterChoice(Mark(s)))
    BY <1>3, <2>1
  <2>3. PICK gs, new : gs = frames' /\ new = owned'
    OBVIOUS
  <2>4. \A f \in DOMAIN gs : f \in Nat
    BY <1>2, <2>3
  <2>5. Stays(frames, owned, gs, new, AfterChoice(Mark(s)))
    BY <2>2, <2>3
  <2>6. Below(Mark(s).at, gs) = Below(Mark(s).at, frames)
    BY <2>1, <2>4, <2>5, ResumableStays
  <2>7. QED
    BY <2>1, <2>3, <2>6
<1>4. QED
  BY <1>3

\* Every step keeps the invariant, and leaves alone what is saved.
LEMMA QueriesStep ==
  ASSUME QueriesInv, QueriesNext
  PROVE  KeepsSaved
<1>1. CASE Machine \/ Yield \/ ResumeYield \/ ExecuteQuery
  <2>1. /\ QueriesInv' /\ states' = states
        /\ \A k \in DOMAIN states : /\ Stays(frames, owned, frames', owned', AfterChoice(Mark(states[k])))
                                    /\ AfterChoice(Mark(states[k])) <= SP'
    BY <1>1, MachineKeeps, ExecuteQueryKeeps
  <2>2. \A k \in DOMAIN states :
          Below(Mark(states[k]).at, frames') = Below(Mark(states[k]).at, frames)
    BY <2>1, SavedStay
  <2>3. QED
    BY <2>1, <2>2 DEF KeepsSaved
<1>2. CASE PushState
  <2>1. QueriesInv' /\ \A k \in DOMAIN states : AfterChoice(Mark(states[k])) <= SP'
    BY <1>2, PushStateKeeps
  <2>2. frames' = frames
    BY <1>2 DEF PushState
  <2>3. QED
    BY <2>1, <2>2 DEF KeepsSaved
<1>3. CASE RestoreState
  BY <1>3, RestoreStateKeeps DEF KeepsSaved
<1>4. QED
  BY <1>1, <1>2, <1>3 DEF QueriesNext

\* A state is saved on top of the others, and the last one is restored.
LEMMA StatesStep ==
  ASSUME QueriesInv, StatesTyped, [QueriesNext]_qvars
  PROVE  StatesTyped'
<1>1. /\ states \in Seq([choices : Seq(ChoiceType), status : {"run", "yield"}])
      /\ Len(states) \in Nat
  BY DEF StatesTyped
<1>2. CASE Machine \/ Yield \/ ResumeYield \/ ExecuteQuery \/ UNCHANGED qvars
  <2>1. states' = states
    BY <1>2 DEF Machine, Yield, ResumeYield, ExecuteQuery, qvars
  <2>2. QED
    BY <1>1, <2>1 DEF StatesTyped
<1>3. CASE PushState
  <2>1. PICK c : /\ c = Alternative("Body", pos, Null)
                 /\ states' = Append(states, [choices |-> Append(cps, c), status |-> status])
    BY <1>3 DEF PushState
  <2>2. MachineInv /\ status \in {"run", "yield"}
    BY <1>3 DEF QueriesInv, PushState, Running
  <2>3. pos.phase = "foreign"
    BY <1>3, <2>2 DEF PushState, Running, MachineInv
  <2>4. "cleanup" \notin uses => Kept
    BY <2>2 DEF QueriesInv
  <2>5. PICK s : s = [choices |-> Append(cps, c), status |-> status]
    OBVIOUS
  <2>6. SavedOK(s)
    BY <2>1, <2>2, <2>3, <2>4, <2>5, SavedNow
  <2>7. s.choices \in Seq(ChoiceType) /\ s.status \in {"run", "yield"}
    BY <2>6 DEF SavedOK
  <2>8. s \in [choices : Seq(ChoiceType), status : {"run", "yield"}]
    BY <2>5, <2>7
  <2>9. states' = Append(states, s)
    BY <2>1, <2>5
  <2>10. QED
    BY <1>1, <2>8, <2>9 DEF StatesTyped
<1>4. CASE RestoreState
  <2>1. states' = SubSeq(states, 1, Len(states) - 1) /\ states # <<>>
    BY <1>4 DEF RestoreState
  <2>2. PICK n \in Nat : n = Len(states) - 1 /\ n <= Len(states)
    BY <1>1, <2>1
  <2>3. PICK R : R = [choices : Seq(ChoiceType), status : {"run", "yield"}]
    OBVIOUS
  <2>4. SubSeq(states, 1, n) \in Seq(R)
    BY <1>1, <2>2, <2>3, PrefixOf
  <2>5. QED
    BY <2>1, <2>2, <2>3, <2>4 DEF StatesTyped
<1>5. QED
  BY <1>2, <1>3, <1>4 DEF QueriesNext

\* Nothing changes.
LEMMA QueriesStutter ==
  ASSUME QueriesInv, UNCHANGED qvars
  PROVE  QueriesInv'
<1>1. /\ UNCHANGED <<status, FR, SP, frames, cps, pos, heap, trail, owned, uses>>
      /\ states' = states /\ memory' = memory
  BY DEF qvars, vars
<1>2. PICK fs, s, h, t, own, ss, m :
        /\ fs = frames /\ s = cps /\ h = heap /\ t = trail /\ own = owned /\ ss = states /\ m = memory
        /\ fs = frames' /\ s = cps' /\ h = heap' /\ t = trail' /\ own = owned' /\ ss = states'
        /\ m = memory'
  BY <1>1
<1>3. MachineInv
  BY DEF QueriesInv
<1>4. MemoryOK' /\ MarksOrdered'
  BY <1>1, <1>3 DEF MachineInv, MemoryOK, MarksOrdered, Choices
<1>5. MachineInv'
  BY <1>1, <1>2, <1>3, <1>4, NextMachine DEF MachineInv
<1>6. Kept => Kept'
  BY <1>1, <1>2 DEF Kept
<1>7. Runner' = Runner
  BY <1>1 DEF Runner
<1>8. QED
  BY <1>1, <1>2, <1>5, <1>6, <1>7, NextQueries DEF QueriesInv

\* The invariant holds in every state.
LEMMA AlwaysQueriesInv == QueriesSpec => [](QueriesInv /\ StatesTyped)
<1>1. QueriesInit => QueriesInv /\ StatesTyped
  BY InitQueries
<1>2. QueriesInv /\ StatesTyped /\ [QueriesNext]_qvars => (QueriesInv /\ StatesTyped)'
  BY QueriesStep, StatesStep, QueriesStutter DEF KeepsSaved
<1>3. QED
  BY <1>1, <1>2, PTL DEF QueriesSpec

(***************************************************************************)
(* The theorems about queries within queries                               *)
(***************************************************************************)
\* The registers and the saved states have their types, whichever queries are asked within
\* which (kernel.c: push_state, execute_query, restore_state).
THEOREM SavedStatesTyped == QueriesSpec => []QueriesTypeOK
<1>1. QueriesInv /\ StatesTyped => QueriesTypeOK
  BY DEF QueriesInv, MachineInv, Stacked, FramesIn, MemoryOK, StatesTyped, QueriesTypeOK, RegistersOK
<1>2. QED
  BY AlwaysQueriesInv, <1>1, PTL

\* What a running clause can still cut to is there, also in a query within a query and after
\* going back from one: neither push_state, which puts the choicepoints out of reach, nor
\* restore_state leaves a frame with a choicepoint that is gone.
THEOREM CutsFindTargetsWithin == QueriesSpec => []CutTargets
<1>1. QueriesInv => CutTargets
  <2>1. SUFFICES ASSUME QueriesInv, status = "run" PROVE CutTargets
    BY DEF CutTargets
  <2>2. Sound(frames, cps, FR, pos, SP)
    BY <2>1 DEF QueriesInv, MachineInv, Statuses
  <2>3. RunsAt(frames, ElementsOf(cps), FR, pos, SP)
    BY <2>2 DEF Sound, Ready
  <2>4. Points(ElementsOf(cps)) = {Null} \cup {cps[i].at : i \in DOMAIN cps}
    BY DEF Points, ElementsOf
  <2>5. frames[FR].choicepoint \in Points(ElementsOf(cps))
    BY <2>3 DEF RunsAt, Anchored, Points
  <2>6. \A k \in DOMAIN pos.open : frames[FR].cuts[pos.open[k]] \in Points(ElementsOf(cps))
    BY <2>3 DEF RunsAt, Noted
  <2>7. QED
    BY <2>4, <2>5, <2>6 DEF CutTargets
<1>2. QED
  BY AlwaysQueriesInv, <1>1, PTL

\* The frames that a saved state will need are below its choicepoint, and their callers are
\* the same there.
LEMMA SavedFrames ==
  ASSUME NEW s, SavedOK(s), NEW fs, FramesIn(fs), Grounded(fs), NEW own, Resumable(s, fs, own),
         NEW low, low = Below(Mark(s).at, fs), NEW k \in DOMAIN s.choices,
         NEW f \in AncestorsIn(fs, s.choices[k].fr)
  PROVE  /\ f \in Live(low, ElementsOf(ChoicesUnder(s)), Mark(s).fr)
         /\ low[f] = fs[f]
<1>1. PICK c, t : c = Mark(s) /\ t = ChoicesUnder(s)
  OBVIOUS
<1>2. Sound(low, t, c.fr, c.pc, c.at)
  BY <1>1 DEF Resumable
<1>3. Stacked(low, t) /\ c.fr \in DOMAIN low
  BY <1>2, SoundEnds DEF Sound, Ready
<1>4. Grounded(low)
  BY <1>3, StackGrounded
<1>5. (\A g \in DOMAIN low : g \in DOMAIN fs /\ low[g] = fs[g])
  BY DEF Below
<1>6. \A g \in DOMAIN low : AncestorsIn(low, g) = AncestorsIn(fs, g)
  BY <1>4, <1>5, AncestorsKept
<1>7. \A x \in ElementsOf(t) : x.fr \in DOMAIN low
  BY <1>3 DEF Stacked, StackOK, ChoiceOK
<1>8. \A g \in DOMAIN low : \A e \in AncestorsIn(low, g) : e \in DOMAIN low
  BY <1>4, Ancestry
<1>9. s.choices[k] = c \/ s.choices[k] \in ElementsOf(t)
  <2>1. PICK n \in Nat : n = Len(s.choices) /\ DOMAIN s.choices = 1..n
    BY LenProperties DEF SavedOK
  <2>2. CASE k = n
    BY <1>1, <2>1, <2>2 DEF Mark
  <2>3. CASE k # n
    <3>1. k \in 1..n - 1 /\ n - 1 \in Nat
      BY <2>1, <2>3
    <3>2. t = SubSeq(s.choices, 1, n - 1)
      BY <1>1, <2>1 DEF ChoicesUnder
    <3>3. t = [i \in 1..n - 1 |-> s.choices[i]]
      BY <2>1, <3>1, <3>2 DEF SavedOK
    <3>4. QED
      BY <3>1, <3>3 DEF ElementsOf
  <2>4. QED
    BY <2>2, <2>3
<1>10. PICK g \in DOMAIN low : f \in AncestorsIn(low, g) /\ (g = c.fr \/ \E x \in ElementsOf(t) : x.fr = g)
  BY <1>3, <1>6, <1>7, <1>9
<1>11. f \in DOMAIN low
  BY <1>8, <1>10
<1>12. f \in Live(low, ElementsOf(t), c.fr)
  BY <1>10 DEF Live
<1>13. QED
  BY <1>1, <1>5, <1>11, <1>12

\* Without cleanup handlers no query frees a clause that a query around it still runs, nor
\* does going back to that one, although restore_state frees whatever the frames that it
\* gives up own.
THEOREM QueriesFreeTheirOwn == QueriesSpec => []OuterNotFreed
<1>1. QueriesInv => OuterNotFreed
  <2>1. SUFFICES ASSUME QueriesInv, "cleanup" \notin uses, NEW i \in DOMAIN states,
                        NEW k \in DOMAIN states[i].choices,
                        NEW f \in Ancestors(states[i].choices[k].fr), frames[f].clause # Null
                 PROVE  frames[f].clause \in owned
    BY DEF OuterNotFreed, SavedChoices
  <2>2. Stacked(frames, cps) /\ Levels(states, frames, owned, Len(memory))
    BY <2>1 DEF QueriesInv, MachineInv
  <2>3. PICK s, low : /\ s = states[i] /\ SavedOK(s) /\ Resumable(s, frames, owned)
                      /\ low = Below(Mark(s).at, frames)
    BY <2>1, <2>2 DEF Levels
  <2>4. FramesIn(frames) /\ Grounded(frames)
    BY <2>2, StackGrounded DEF Stacked
  <2>5. f \in AncestorsIn(frames, s.choices[k].fr) /\ k \in DOMAIN s.choices
    BY <2>1, <2>3 DEF Ancestors, AncestorsIn
  <2>6. f \in Live(low, ElementsOf(ChoicesUnder(s)), Mark(s).fr) /\ low[f] = frames[f]
    BY <2>3, <2>4, <2>5, SavedFrames
  <2>7. Owners(low, Live(low, ElementsOf(ChoicesUnder(s)), Mark(s).fr),
               Elsewhere(frames, owned, AfterChoice(Mark(s))))
    BY <2>1, <2>3 DEF Resumable
  <2>8. frames[f].clause \in Elsewhere(frames, owned, AfterChoice(Mark(s)))
    BY <2>1, <2>6, <2>7 DEF Owners
  <2>9. QED
    BY <2>8 DEF Elsewhere
<1>2. QED
  BY AlwaysQueriesInv, <1>1, PTL

\* As long as a state is saved, nothing is done to the frames below its choicepoint, and the
\* stack pointer does not fall below the end of that: every call, cut, throw and failure of
\* the queries above it keeps to itself, and so does giving one up halfway.
THEOREM QueriesKeepToThemselves == QueriesSpec => OuterStay
<1>1. QueriesInv /\ [QueriesNext]_qvars
        => [\A k \in DOMAIN states :
              LET c == Mark(states[k])
              IN  /\ Below(c.at, frames') = Below(c.at, frames)
                  /\ k \in DOMAIN states' => AfterChoice(c) <= SP']_qvars
  BY QueriesStep DEF KeepsSaved
<1>2. QED
  BY AlwaysQueriesInv, <1>1, PTL DEF QueriesSpec, OuterStay

(***************************************************************************)
(* The sizes, when no foreign predicate raises an error after it left a    *)
(* choicepoint                                                             *)
(***************************************************************************)
NoLateErrors == "late error" \notin uses

\* Frames and choicepoints lie one above the other.  They end below the stack pointer, or while
\* a ball is on its way, and after an error, nothing extends across that.
Packed(st, fs, cs, sp) ==
  IF st \in {"throw", "error"}
    THEN (\E top \in Nat : Sized(fs, cs, top)) /\ Boundary(fs, cs, sp)
    ELSE Sized(fs, cs, sp)

PackedNow  == Packed(status, frames, ElementsOf(cps), SP)
PackedNext == Packed(status', frames', ElementsOf(cps'), SP')

\* So it is in a query without queries around it.
LEMMA PackedSizes ==
  ASSUME MachineInv, PackedNow, status \in Statuses \cup {"throw", "error"}
  PROVE  ThrowSizes
<1>1. status \in Statuses => status # "throw" /\ status # "error"
  BY DEF Statuses
<1>2. status \in Statuses => MemoryInv
  <2>1. ASSUME status \in Statuses PROVE MemoryInv
    <3>1. Sized(frames, ElementsOf(cps), SP)
      BY <1>1, <2>1 DEF PackedNow, Packed
    <3>2. FR \in DOMAIN frames
      BY <1>1, <2>1 DEF MachineInv
    <3>3. QED
      BY <3>1, <3>2 DEF MemoryInv, SizeInv
  <2>2. QED
    BY <2>1
<1>3. status \in {"throw", "error"} => \E top \in Nat : Sized(frames, ElementsOf(cps), top)
  BY DEF PackedNow, Packed
<1>4. QED
  BY <1>2, <1>3 DEF ThrowSizes

\* The stack of a running machine
LEMMA PackedRuns ==
  ASSUME MachineInv, PackedNow, status \in {"run", "yield"}
  PROVE  CanRun /\ CanOwn /\ SizeInv /\ SP \in Nat /\ Sized(frames, ElementsOf(cps), SP)
<1>1. CanRun /\ CanOwn
  BY YieldedRuns
<1>2. Sized(frames, ElementsOf(cps), SP)
  BY DEF PackedNow, Packed
<1>3. QED
  BY <1>1, <1>2 DEF SizeInv, MachineInv

\* The instructions.
LEMMA NextPacked ==
  ASSUME MachineInv, PackedNow, Next
  PROVE  PackedNext
<1>1. status \in {"run", "choices"} /\ status' \in Statuses /\ status' \notin {"throw", "error"}
      /\ status \in Statuses
  BY StepOfRunning DEF Statuses
<1>2. ThrowInv /\ ThrowSizes
  BY <1>1, MachineRuns, PackedSizes
<1>3. ThrowSizes'
  BY <1>2, NextSurvives DEF Survives
<1>4. SizeInv'
  BY <1>1, <1>3 DEF ThrowSizes, MemoryInv
<1>5. Sized(frames', ElementsOf(cps'), SP')
  BY <1>4 DEF SizeInv, Sized, EndOf, Restores, OnTop, ElementsOf
<1>6. QED
  BY <1>1, <1>5 DEF PackedNext, Packed

\* An exit goes back to where something ends.
LEMMA ExitBoundary ==
  ASSUME CanRun, SizeInv, frames[FR].kind # "query"
  PROVE  Boundary(frames, ElementsOf(cps), AfterExit(cps))
<1>1. /\ Numbers(frames, ElementsOf(cps)) /\ cps \in Seq(ChoiceType) /\ Ascending(cps) /\ SP \in Nat
      /\ frames[FR].parent \in DOMAIN frames /\ 0 < frames[FR].parent
      /\ \A c, d \in ElementsOf(cps) : c.at = d.at => c = d
  BY RunningProvides
<1>2. PICK cs, new : cs = ElementsOf(cps) /\ new = AfterExit(cps)
  OBVIOUS
<1>3. Sized(frames, cs, SP)
  BY <1>2 DEF SizeInv
<1>4. new \in Nat /\ Sized(Below(new, frames), cs, new)
  BY <1>1, <1>2, <1>3, LeaveSized
<1>5. DOMAIN Below(new, frames) = {f \in DOMAIN frames : f < new}
      /\ \A f \in DOMAIN Below(new, frames) : Below(new, frames)[f] = frames[f]
  BY BelowKeepsSlots
<1>6. ASSUME NEW f \in DOMAIN frames, f < new
      PROVE  EndOf(frames, f) <= new
  <2>1. EndOf(Below(new, frames), f) <= new
    BY <1>4, <1>5, <1>6 DEF Sized
  <2>2. QED
    BY <1>5, <1>6, <2>1 DEF EndOf
<1>7. \A c \in cs : AfterChoice(c) <= new
  BY <1>4 DEF Sized
<1>8. QED
  BY <1>2, <1>4, <1>6, <1>7 DEF Boundary

\* Raising a ball leaves the stack pointer where something ends.
LEMMA RaisePacked ==
  ASSUME NoLateErrors, MachineInv, PackedNow, Raise \/ RaiseNondet \/ RaiseCatch \/ RaiseDepart
  PROVE  PackedNext
<1>1. status = "run" /\ status' = "throw" /\ status' \notin Statuses
  BY DEF Raise, RaiseNondet, RaiseCatch, RaiseDepart, Running, Statuses
<1>2. CanRun /\ SizeInv /\ SP \in Nat /\ Sized(frames, ElementsOf(cps), SP)
  BY <1>1, PackedRuns
<1>3. CanOwn /\ LocalFrames(frames)
  BY <1>1, PackedRuns, YieldedRuns
<1>4. Raised
  BY <1>2, <1>3, RaiseThrows, RaiseNondetThrows, RaiseCatchThrows, RaiseDepartThrows
<1>5. \E top \in Nat : Sized(frames', ElementsOf(cps'), top)
  BY <1>2, <1>4 DEF Raised
<1>6. Boundary(frames', ElementsOf(cps'), SP')
  <2>1. CASE Raise
    BY <1>2, <2>1, TopBoundary DEF Raise
  <2>2. CASE RaiseNondet
    BY <2>2 DEF RaiseNondet, NoLateErrors
  <2>3. CASE RaiseCatch
    <3>1. PICK c : /\ c = Alternative("Head", NoPC, Null)
                   /\ cps' = Append(cps, c) /\ SP' = AfterChoice(c) /\ frames' = CatchFrames(c)
      BY <2>3 DEF RaiseCatch, CatchFrames
    <3>2. pos.phase = "catch"
      BY <2>3 DEF RaiseCatch, Running
    <3>3. Sized(CatchFrames(c), ElementsOf(Append(cps, c)), AfterChoice(c)) /\ AfterChoice(c) \in Nat
      BY <1>2, <3>1, <3>2, CatchMarksSized
    <3>4. QED
      BY <3>1, <3>3, TopBoundary
  <2>4. CASE RaiseDepart
    <3>1. frames[FR].kind # "query"
      <4>1. pos.phase = "body"
        BY <2>4 DEF RaiseDepart, Running
      <4>2. QED
        BY <1>2, <4>1, RunningProvides DEF Place, Executes
    <3>2. frames' = frames /\ cps' = cps /\ SP' = AfterExit(cps)
      BY <2>4 DEF RaiseDepart
    <3>3. QED
      BY <1>2, <3>1, <3>2, ExitBoundary
  <2>5. QED
    BY <2>1, <2>2, <2>3, <2>4
<1>7. QED
  BY <1>1, <1>5, <1>6 DEF PackedNext, Packed

\* A query that ends with an error leaves it behind the frame of its outermost catcher.
LEMMA UncaughtPacked ==
  ASSUME MachineInv, PackedNow, Uncaught
  PROVE  PackedNext
<1>1. status = "throw" /\ status' = "error" /\ status' \notin Statuses
  BY DEF Uncaught, Statuses
<1>2. ThrowInv /\ ThrowSizes
  BY <1>1, MachineRuns, PackedSizes
<1>3. PICK top \in Nat : Sized(frames, ElementsOf(cps), top)
  BY <1>1 DEF PackedNow, Packed
<1>4. Boundary(frames, ElementsOf(cps), SP)
  BY <1>1 DEF PackedNow, Packed
<1>5. OnItsWay
  BY <1>1, <1>2 DEF ThrowInv, OnItsWay
<1>6. CASE UNCHANGED <<SP, frames, cps>>
  BY <1>1, <1>3, <1>4, <1>6 DEF PackedNext, Packed
<1>7. ASSUME NEW f \in Catchers, SP' = AfterFrame(f), frames' = StackAt(ChoiceOf(f)),
             cps' = ChoicesAt(ChoiceOf(f))
      PROVE  PackedNext
  <2>1. PICK n, low, t, gs : /\ n = ChoiceOf(f) /\ low = StackAt(n) /\ t = ChoicesAt(n)
                             /\ gs = [low EXCEPT ![f].kind = "caught"]
    OBVIOUS
  <2>2. ReturnsTo(f, n, low, t)
    BY <1>5, <1>7, <2>1, FoundReturns
  <2>3. Takes(f, n, low, t, gs)
    BY <2>1, <2>2 DEF Takes
  <2>4. Sized(low, ElementsOf(t), AfterFrame(f))
    BY <1>3, <2>3, CatcherSized
  <2>5. AfterFrame(f) \in Nat
    <3>1. f \in DOMAIN frames
      BY <2>2 DEF ReturnsTo, Returning
    <3>2. Numbers(frames, ElementsOf(cps))
      BY <2>2, StackNumbers DEF ReturnsTo, Returning
    <3>3. QED
      BY <3>1, <3>2 DEF Numbers, EndOf, AfterFrame
  <2>6. Boundary(low, ElementsOf(t), AfterFrame(f))
    BY <2>4, <2>5, TopBoundary
  <2>7. QED
    BY <1>1, <1>7, <2>1, <2>4, <2>5, <2>6 DEF PackedNext, Packed
<1>8. QED
  BY <1>6, <1>7 DEF Uncaught

\* The ball is caught.
LEMMA CaughtPacked ==
  ASSUME MachineInv, PackedNow, Caught
  PROVE  PackedNext
<1>1. status = "throw" /\ status' = "run" /\ status' \in Statuses
  BY DEF Caught, Statuses
<1>2. ThrowInv /\ ThrowSizes
  BY <1>1, MachineRuns, PackedSizes
<1>3. ThrowSizes'
  BY <1>2, CaughtSurvives DEF Survives
<1>4. SizeInv'
  BY <1>1, <1>3 DEF ThrowSizes, MemoryInv
<1>5. Sized(frames', ElementsOf(cps'), SP')
  BY <1>4 DEF SizeInv, Sized, EndOf, Restores, OnTop, ElementsOf
<1>6. QED
  BY <1>1, <1>5 DEF PackedNext, Packed

\* Yielding moves nothing, and a query that goes on does it like any other.
LEMMA YieldPacked ==
  ASSUME MachineInv, PackedNow, Yield \/ ResumeYield
  PROVE  PackedNext
<1>1. status \in {"run", "yield"}
  BY DEF Yield, ResumeYield, Running
<1>2. CanRun /\ CanOwn /\ SizeInv /\ SP \in Nat /\ Sized(frames, ElementsOf(cps), SP)
  BY <1>1, PackedRuns
<1>3. CASE Yield
  <2>1. status' = "yield" /\ UNCHANGED <<SP, frames, cps>>
    BY <1>3 DEF Yield
  <2>2. QED
    BY <1>2, <2>1 DEF PackedNext, Packed
<1>4. CASE ResumeYield /\ status' = "run" /\ Leave(cps) /\ UNCHANGED cps
  <2>1. pos.phase = "foreign"
    BY <1>4 DEF ResumeYield, MachineInv
  <2>2. frames[FR].kind # "query"
    BY <1>2, <2>1, RunningProvides DEF Place, Executes
  <2>3. SizesStay
    BY <1>2, <1>4, <2>2, ExitSized
  <2>4. QED
    BY <1>4, <2>3 DEF PackedNext, Packed, SizesStay
<1>5. CASE ResumeYield /\ Backtrack
  <2>1. SizesStay
    BY <1>2, <1>5, BacktrackSized
  <2>2. status' \notin {"throw", "error"}
    BY <1>5 DEF Backtrack
  <2>3. QED
    BY <2>1, <2>2 DEF PackedNext, Packed, SizesStay
<1>6. CASE ResumeYield /\ status' = "throw" /\ UNCHANGED <<SP, frames, cps>>
  BY <1>2, <1>6, TopBoundary DEF PackedNext, Packed
<1>7. QED
  BY <1>3, <1>4, <1>5, <1>6 DEF ResumeYield

\* Machine, Yield and ResumeYield
LEMMA MachinePacked ==
  ASSUME NoLateErrors, MachineInv, PackedNow, Machine \/ Yield \/ ResumeYield
  PROVE  PackedNext
BY NextPacked, RaisePacked, CaughtPacked, UncaughtPacked, YieldPacked DEF Machine, Throw

\* What push_state leaves is a choicepoint above everything.
LEMMA PushStatePacked ==
  ASSUME MachineInv, PackedNow, PushState
  PROVE  PackedNext /\ Sized(Below(SP, frames), ElementsOf(cps), SP)
<1>1. status \in {"run", "yield"} /\ status' = "host" /\ cps' = <<>> /\ frames' = frames
  BY DEF PushState, Running
<1>2. CanRun /\ SP \in Nat /\ Sized(frames, ElementsOf(cps), SP)
  BY <1>1, PackedRuns
<1>3. Numbers(frames, ElementsOf(cps))
  BY <1>2, RunningProvides
<1>4. PICK top : top = SP + 1 /\ top \in Nat
  BY <1>2
<1>5. SP' = top
  BY <1>4 DEF PushState, Alternative, NewChoice, AfterChoice
<1>6. ElementsOf(cps') = {}
  BY <1>1 DEF ElementsOf
<1>7. Sized(frames, {}, top)
  <2>1. \A f \in DOMAIN frames : EndOf(frames, f) <= top
    <3>1. \A f \in DOMAIN frames : EndOf(frames, f) \in Nat /\ EndOf(frames, f) <= SP
      BY <1>2, <1>3 DEF Numbers, Sized
    <3>2. QED
      BY <1>2, <1>4, <3>1
  <2>2. \A f, g \in DOMAIN frames : f < g => EndOf(frames, f) <= g
    BY <1>2 DEF Sized
  <2>3. QED
    BY <2>1, <2>2 DEF Sized
<1>8. PackedNext
  BY <1>1, <1>5, <1>6, <1>7 DEF PackedNext, Packed
<1>9. Sized(Below(SP, frames), ElementsOf(cps), SP)
  <2>1. Boundary(frames, ElementsOf(cps), SP)
    BY <1>2, TopBoundary
  <2>2. \A d \in ElementsOf(cps) : d.at < SP
    BY DEF MachineInv
  <2>3. PICK gs : gs = Below(SP, frames)
    OBVIOUS
  <2>4. DOMAIN gs = {f \in DOMAIN frames : f < SP} /\ \A f \in DOMAIN gs : gs[f] = frames[f]
    BY <2>3 DEF Below
  <2>5. PICK ds \in SUBSET ElementsOf(cps) : ds = ElementsOf(cps)
    OBVIOUS
  <2>6. Sized(gs, ds, SP)
    BY <1>2, <1>3, <2>1, <2>2, <2>4, <2>5, SizedCutOff
  <2>7. QED
    BY <2>3, <2>5, <2>6
<1>10. QED
  BY <1>8, <1>9

\* A query is asked where nothing extends, and the two frames are pushed from there.
LEMMA ExecuteQueryPacked ==
  ASSUME QueryReserved = 0, MachineInv, PackedNow, ExecuteQuery
  PROVE  PackedNext
<1>1. /\ SP \in Nat /\ Stacked(frames, cps) /\ \A d \in ElementsOf(cps) : d.at < SP
      /\ cps' = cps /\ status' = "run" /\ SP' = SP + 2
  BY DEF MachineInv, ExecuteQuery
<1>2. Numbers(frames, ElementsOf(cps))
  BY <1>1, StackNumbers
<1>3. PICK top \in Nat : Sized(frames, ElementsOf(cps), top)
  BY <1>1 DEF PackedNow, Packed
<1>4. Boundary(frames, ElementsOf(cps), SP)
  BY <1>1, TopBoundary DEF PackedNow, Packed
<1>5. PICK low, ds, clause, host, goal, mid :
        /\ low = Below(SP, frames) /\ ds = ElementsOf(cps)
        /\ host = HostFrame(cps) /\ goal = GoalFrame(cps, SP, clause)
        /\ mid = Put(low, SP, host) /\ frames' = Put(mid, SP + 1, goal)
  BY DEF ExecuteQuery
<1>6. host.slotCount = 0 /\ goal.slotCount = 0
  BY <1>5 DEF HostFrame, GoalFrame, Frame
<1>7. Sized(low, ds, SP) /\ Numbers(low, ds)
  <2>1. DOMAIN low = {f \in DOMAIN frames : f < SP} /\ \A f \in DOMAIN low : low[f] = frames[f]
    BY <1>5 DEF Below
  <2>2. ds \in SUBSET ElementsOf(cps) /\ \A d \in ds : d.at < SP
    BY <1>1, <1>5
  <2>3. QED
    BY <1>2, <1>3, <1>4, <2>1, <2>2, SizedCutOff
<1>8. PICK at \in Nat : at = SP
  BY <1>1
<1>9. PICK next \in Nat : next = at + 1 /\ next + 1 = SP + 2
  BY <1>8
<1>10. Sized(mid, ds, next) /\ Numbers(mid, ds)
  <2>1. PICK n \in Nat : n = 0
    OBVIOUS
  <2>2. Sized(low, ds, at) /\ mid = Put(low, at, host) /\ host.slotCount = n
    BY <1>5, <1>6, <1>7, <1>8, <2>1
  <2>3. Sized(Put(low, at, host), ds, at + 1 + n) /\ Numbers(Put(low, at, host), ds)
    BY <1>7, <2>2, SizedPush
  <2>4. at + 1 + n = next
    BY <1>9, <2>1
  <2>5. QED
    BY <2>2, <2>3, <2>4
<1>11. Sized(frames', ds, next + 1)
  <2>1. PICK n \in Nat : n = 0
    OBVIOUS
  <2>2. frames' = Put(mid, next, goal) /\ goal.slotCount = n
    BY <1>5, <1>6, <1>8, <1>9, <2>1
  <2>3. Sized(Put(mid, next, goal), ds, next + 1 + n)
    BY <1>10, <2>2, SizedPush
  <2>4. next + 1 + n = next + 1
    BY <2>1
  <2>5. QED
    BY <2>2, <2>3, <2>4
<1>12. ElementsOf(cps') = ds /\ SP' = next + 1
  BY <1>1, <1>5, <1>9
<1>13. QED
  BY <1>1, <1>11, <1>12 DEF PackedNext, Packed

\* The saved states, packed like the stack they were saved from; no frame is where one has its
\* choicepoint.
SavedPacked(ss, fs) ==
  \A k \in DOMAIN ss :
    LET c == Mark(ss[k])
    IN  /\ Sized(Below(c.at, fs), ElementsOf(ChoicesUnder(ss[k])), c.at)
        /\ c.at \notin DOMAIN fs /\ c.cleanup = Null

PackedInv == PackedNow /\ SavedPacked(states, frames)

\* They stay so when the frames below the choicepoints stay.
LEMMA SavedPackedStays ==
  ASSUME NEW ss, NEW fs, SavedPacked(ss, fs), NEW tt, NEW gs,
         \A k \in DOMAIN tt :
           /\ k \in DOMAIN ss /\ tt[k] = ss[k]
           /\ Below(Mark(ss[k]).at, gs) = Below(Mark(ss[k]).at, fs)
           /\ Mark(ss[k]).at \in DOMAIN gs => Mark(ss[k]).at \in DOMAIN fs
  PROVE  SavedPacked(tt, gs)
<1>1. ASSUME NEW k \in DOMAIN tt
      PROVE  /\ Sized(Below(Mark(tt[k]).at, gs), ElementsOf(ChoicesUnder(tt[k])), Mark(tt[k]).at)
             /\ Mark(tt[k]).at \notin DOMAIN gs /\ Mark(tt[k]).cleanup = Null
  BY DEF SavedPacked
<1>2. QED
  BY <1>1 DEF SavedPacked

\* Going back to a saved state, the stack is as it was.
LEMMA RestoreStatePacked ==
  ASSUME QueriesInv, SavedPacked(states, frames), RestoreState
  PROVE  PackedNext
<1>1. PICK n \in Nat : n = Len(states) /\ DOMAIN states = 1..n /\ n # 0
  <2>1. PICK n \in Nat : n = Len(states) /\ DOMAIN states = 1..n
    BY DEF QueriesInv
  <2>2. states # <<>> /\ states' = SubSeq(states, 1, n - 1)
    BY <2>1 DEF RestoreState
  <2>3. n # 0
    BY <2>1, <2>2
  <2>4. QED
    BY <2>1, <2>3
<1>2. PICK s, c : s = states[n] /\ c = Mark(s)
  OBVIOUS
<1>3. n \in DOMAIN states
  BY <1>1
<1>4. /\ MachineInv /\ memory \in Seq(1..HeapSize)
      /\ Levels(states, frames, owned, Len(memory))
      /\ Reaches(states, frames, ElementsOf(cps), SP, Len(heap), Runner)
      /\ status = "host" => FR = c.fr
  BY <1>1, <1>2 DEF QueriesInv
<1>5. /\ SavedOK(s) /\ Resumable(s, frames, owned) /\ c.tr <= Len(memory)
      /\ Lies(c, frames, ElementsOf(cps), SP, Len(heap), Runner)
  BY <1>2, <1>3, <1>4 DEF Levels, Reaches
<1>6. frames' = Below(c.at, frames) /\ SP' = c.at /\ cps' = ChoicesUnder(s)
  BY <1>1, <1>2, <1>4, <1>5, RestoredRuns
<1>7. status' \notin {"throw", "error"}
  BY <1>1, <1>2, <1>5 DEF RestoreState, SavedOK
<1>8. Sized(Below(c.at, frames), ElementsOf(ChoicesUnder(s)), c.at)
  BY <1>2, <1>3 DEF SavedPacked
<1>9. Sized(frames', ElementsOf(cps'), SP')
  <2>1. PICK gs, ds, at : gs = Below(c.at, frames) /\ ds = ElementsOf(ChoicesUnder(s)) /\ at = c.at
    OBVIOUS
  <2>2. gs = frames' /\ ds = ElementsOf(cps') /\ at = SP'
    BY <1>6, <2>1
  <2>3. Sized(gs, ds, at)
    BY <1>8, <2>1
  <2>4. QED
    BY <2>2, <2>3
<1>10. QED
  BY <1>7, <1>9 DEF PackedNext, Packed

\* What is saved stays packed, when a step leaves alone what lies below its end.
LEMMA SavedPackedKept ==
  ASSUME QueriesInv, SavedPacked(states, frames), states' = states,
         \A k \in DOMAIN states : /\ Below(Mark(states[k]).at, frames') = Below(Mark(states[k]).at, frames)
                                  /\ SameBelow(frames, frames', AfterChoice(Mark(states[k])))
  PROVE  SavedPacked(states', frames')
<1>1. Levels(states, frames, owned, Len(memory))
  BY DEF QueriesInv
<1>2. PICK ss, fs, gs : ss = states /\ fs = frames /\ gs = frames'
  OBVIOUS
<1>3. SavedPacked(ss, fs)
  BY <1>2
<1>4. ASSUME NEW k \in DOMAIN ss
      PROVE  /\ Below(Mark(ss[k]).at, gs) = Below(Mark(ss[k]).at, fs)
             /\ Mark(ss[k]).at \in DOMAIN gs => Mark(ss[k]).at \in DOMAIN fs
  <2>1. k \in DOMAIN states /\ SavedOK(ss[k])
    BY <1>1, <1>2, <1>4 DEF Levels
  <2>2. PICK at \in Nat : at = Mark(ss[k]).at /\ AfterChoice(Mark(ss[k])) = at + 1
    BY <2>1, MarkOK
  <2>3. Below(Mark(ss[k]).at, gs) = Below(Mark(ss[k]).at, fs) /\ SameBelow(fs, gs, at + 1)
    BY <1>2, <2>1, <2>2
  <2>4. at < at + 1
    OBVIOUS
  <2>5. QED
    BY <2>2, <2>3, <2>4 DEF SameBelow
<1>5. SavedPacked(ss, gs)
  BY <1>3, <1>4, SavedPackedStays
<1>6. QED
  BY <1>2, <1>5

\* A state has been saved: it is packed like those that were saved before.
LEMMA SavedPackedNow ==
  ASSUME QueriesInv, PackedInv, PushState
  PROVE  SavedPacked(states', frames')
<1>1. PICK c, s : c = Alternative("Body", pos, Null) /\ s = [choices |-> Append(cps, c), status |-> status]
  OBVIOUS
<1>2. /\ status \in {"run", "yield"} /\ pos.phase = "foreign"
      /\ states' = Append(states, s) /\ frames' = frames
  BY <1>1 DEF PushState, Running, QueriesInv, MachineInv
<1>3. MachineInv /\ ("cleanup" \notin uses => Kept)
  BY <1>2 DEF QueriesInv
<1>4. Mark(s) = c /\ ChoicesUnder(s) = cps /\ c.at = SP
  BY <1>1, <1>2, <1>3, SavedNow
<1>5. c.cleanup = Null
  BY <1>1 DEF Alternative, NewChoice
<1>6. Sized(Below(SP, frames), ElementsOf(cps), SP)
  BY <1>3, PushStatePacked DEF PackedInv
<1>7. SP \notin DOMAIN frames
  <2>1. CanOwn
    BY <1>2, <1>3, YieldedRuns
  <2>2. SP \in Nat /\ \A f \in DOMAIN frames : f < SP /\ f \in Nat
    BY <2>1, RunningProvides, SoundProvides DEF CanOwn, Sound, Ready
  <2>3. ~(SP < SP)
    BY <2>2
  <2>4. QED
    BY <2>2, <2>3
<1>8. PICK n \in Nat : n = Len(states) /\ DOMAIN states = 1..n
  BY DEF QueriesInv
<1>9. PICK tt, fs, at, cs : tt = states' /\ fs = frames /\ at = SP /\ cs = ElementsOf(cps)
  OBVIOUS
<1>10. DOMAIN tt = 1..n + 1 /\ (\A k \in 1..n : tt[k] = states[k]) /\ tt[n + 1] = s
  BY <1>2, <1>8, <1>9
<1>11. ASSUME NEW k \in DOMAIN tt
       PROVE  /\ Sized(Below(Mark(tt[k]).at, fs), ElementsOf(ChoicesUnder(tt[k])), Mark(tt[k]).at)
              /\ Mark(tt[k]).at \notin DOMAIN fs /\ Mark(tt[k]).cleanup = Null
  <2>1. CASE k \in 1..n
    BY <1>8, <1>9, <1>10, <2>1 DEF PackedInv, SavedPacked
  <2>2. CASE k = n + 1
    <3>1. Mark(tt[k]) = c /\ Mark(tt[k]).at = SP /\ ElementsOf(ChoicesUnder(tt[k])) = cs
      BY <1>4, <1>9, <1>10, <2>2
    <3>2. QED
      BY <1>5, <1>6, <1>7, <1>9, <3>1
  <2>3. QED
    BY <1>10, <1>11, <2>1, <2>2
<1>12. SavedPacked(tt, fs)
  BY <1>11 DEF SavedPacked
<1>13. QED
  BY <1>2, <1>9, <1>12

\* Going back leaves the older states alone.
LEMMA SavedPackedBack ==
  ASSUME QueriesInv, SavedPacked(states, frames), RestoreState, KeepsSaved
  PROVE  SavedPacked(states', frames')
<1>1. PICK n \in Nat : n = Len(states) /\ DOMAIN states = 1..n /\ n # 0
  <2>1. PICK n \in Nat : n = Len(states) /\ DOMAIN states = 1..n
    BY DEF QueriesInv
  <2>2. states # <<>> /\ states' = SubSeq(states, 1, n - 1)
    BY <2>1 DEF RestoreState
  <2>3. n # 0
    BY <2>1, <2>2
  <2>4. QED
    BY <2>1, <2>3
<1>2. PICK s, c : s = states[n] /\ c = Mark(s)
  OBVIOUS
<1>3. n \in DOMAIN states /\ n - 1 \in Nat
  BY <1>1
<1>4. /\ MachineInv /\ memory \in Seq(1..HeapSize)
      /\ Levels(states, frames, owned, Len(memory))
      /\ Reaches(states, frames, ElementsOf(cps), SP, Len(heap), Runner)
      /\ status = "host" => FR = c.fr
  BY <1>1, <1>2 DEF QueriesInv
<1>5. /\ SavedOK(s) /\ Resumable(s, frames, owned) /\ c.tr <= Len(memory)
      /\ Lies(c, frames, ElementsOf(cps), SP, Len(heap), Runner)
  BY <1>2, <1>3, <1>4 DEF Levels, Reaches
<1>6. frames' = Below(c.at, frames)
  BY <1>1, <1>2, <1>4, <1>5, RestoredRuns
<1>7. DOMAIN states' = 1..n - 1 /\ \A k \in 1..n - 1 : states'[k] = states[k]
  <2>1. PICK tt : tt = SubSeq(states, 1, n - 1)
    OBVIOUS
  <2>2. tt = [i \in 1..n - 1 |-> states[i]]
    BY <1>1, <1>3, <2>1
  <2>3. states' = tt
    BY <1>1, <2>1 DEF RestoreState
  <2>4. QED
    BY <2>2, <2>3
<1>8. PICK tt, gs : tt = states' /\ gs = frames'
  OBVIOUS
<1>9. ASSUME NEW k \in DOMAIN tt
      PROVE  /\ k \in DOMAIN states /\ tt[k] = states[k]
             /\ Below(Mark(states[k]).at, gs) = Below(Mark(states[k]).at, frames)
             /\ Mark(states[k]).at \in DOMAIN gs => Mark(states[k]).at \in DOMAIN frames
  <2>1. k \in DOMAIN states /\ tt[k] = states[k]
    BY <1>1, <1>3, <1>7, <1>8, <1>9
  <2>2. Below(Mark(states[k]).at, gs) = Below(Mark(states[k]).at, frames)
    BY <1>8, <2>1 DEF KeepsSaved
  <2>3. DOMAIN gs \subseteq DOMAIN frames
    BY <1>6, <1>8 DEF Below
  <2>4. QED
    BY <2>1, <2>2, <2>3
<1>10. SavedPacked(tt, gs)
  BY <1>9, SavedPackedStays
<1>11. QED
  BY <1>8, <1>10

\* Every step keeps the stack, and the saved ones, packed.
LEMMA PackedStep ==
  ASSUME QueryReserved = 0, NoLateErrors, QueriesInv, PackedInv, QueriesNext
  PROVE  PackedNext /\ SavedPacked(states', frames')
<1>1. MachineInv /\ KeepsSaved
  BY QueriesStep DEF QueriesInv
<1>2. PackedNow /\ SavedPacked(states, frames)
  BY DEF PackedInv
<1>3. CASE Machine \/ Yield \/ ResumeYield \/ ExecuteQuery
  <2>1. PackedNext
    BY <1>1, <1>2, <1>3, MachinePacked, ExecuteQueryPacked
  <2>2. /\ states' = states
        /\ \A k \in DOMAIN states : Stays(frames, owned, frames', owned', AfterChoice(Mark(states[k])))
    BY <1>3, MachineKeeps, ExecuteQueryKeeps
  <2>3. \A k \in DOMAIN states : /\ Below(Mark(states[k]).at, frames') = Below(Mark(states[k]).at, frames)
                                 /\ SameBelow(frames, frames', AfterChoice(Mark(states[k])))
    BY <1>1, <2>2 DEF KeepsSaved, Stays
  <2>4. QED
    BY <1>2, <2>1, <2>2, <2>3, SavedPackedKept
<1>4. CASE PushState
  BY <1>1, <1>2, <1>4, PushStatePacked, SavedPackedNow
<1>5. CASE RestoreState
  BY <1>1, <1>2, <1>5, RestoreStatePacked, SavedPackedBack
<1>6. QED
  BY <1>3, <1>4, <1>5 DEF QueriesNext

\* What holds of the new values is the invariant of the next state.
LEMMA PackedThen ==
  ASSUME PackedNext, SavedPacked(states', frames')
  PROVE  PackedInv'
<1>1. PackedNow'
  BY DEF PackedNext, PackedNow, Packed, Sized, Boundary, EndOf, Restores, OnTop, ElementsOf
<1>2. SavedPacked(states, frames)'
  BY DEF SavedPacked, Sized, EndOf, Restores, OnTop, ElementsOf
<1>3. QED
  BY <1>1, <1>2 DEF PackedInv

\* Nothing changes.
LEMMA PackedStutter ==
  ASSUME PackedInv, UNCHANGED qvars
  PROVE  PackedInv'
<1>1. status' = status /\ frames' = frames /\ cps' = cps /\ SP' = SP /\ states' = states
  BY DEF qvars, vars
<1>2. PackedNext
  BY <1>1 DEF PackedInv, PackedNow, PackedNext
<1>3. SavedPacked(states', frames')
  BY <1>1 DEF PackedInv
<1>4. QED
  BY <1>2, <1>3, PackedThen

\* The stack of the first query is packed.
LEMMA PackedInit ==
  ASSUME QueryReserved = 0, QueriesInit
  PROVE  PackedInv
<1>1. Init /\ states = <<>> /\ status = "run"
  BY DEF QueriesInit, Init
<1>2. ThrowSizes
  BY <1>1, InitThrow
<1>3. SizeInv
  BY <1>1, <1>2 DEF ThrowSizes, MemoryInv, Statuses
<1>4. PackedNow
  BY <1>1, <1>3 DEF PackedNow, Packed, SizeInv
<1>5. SavedPacked(states, frames)
  <2>1. DOMAIN states = {}
    BY <1>1
  <2>2. QED
    BY <2>1 DEF SavedPacked
<1>6. QED
  BY <1>4, <1>5 DEF PackedInv

\* A program keeps to what it uses.
LEMMA UsesStay ==
  ASSUME [QueriesNext]_qvars
  PROVE  uses' = uses
<1>1. CASE QueriesNext
  <2>1. CASE Machine
    <3>1. Next => uses' = uses
      BY StepOfRunning
    <3>2. Throw => uses' = uses
      BY DEF Throw, Raise, RaiseNondet, RaiseCatch, RaiseDepart, Caught, Uncaught
    <3>3. QED
      BY <2>1, <3>1, <3>2 DEF Machine
  <2>2. CASE Yield \/ ResumeYield \/ PushState \/ ExecuteQuery \/ RestoreState
    BY <2>2 DEF Yield, ResumeYield, PushState, ExecuteQuery, RestoreState
  <2>3. QED
    BY <1>1, <2>1, <2>2 DEF QueriesNext
<1>2. CASE UNCHANGED qvars
  BY <1>2 DEF qvars, vars
<1>3. QED
  BY <1>1, <1>2

\* The sizes stay as they should.
LEMMA AlwaysPacked ==
  ASSUME QueryReserved = 0
  PROVE  QueriesSpec => [](QueriesInv /\ StatesTyped /\ (NoLateErrors => PackedInv))
<1>1. QueriesInit => PackedInv
  BY PackedInit
<1>2. QueriesInv /\ (NoLateErrors => PackedInv) /\ [QueriesNext]_qvars => (NoLateErrors => PackedInv)'
  <2>1. SUFFICES ASSUME QueriesInv, NoLateErrors => PackedInv, [QueriesNext]_qvars, NoLateErrors'
                 PROVE  PackedInv'
    OBVIOUS
  <2>2. NoLateErrors
    BY <2>1, UsesStay DEF NoLateErrors
  <2>3. QED
    BY <2>1, <2>2, PackedStep, PackedThen, PackedStutter
<1>3. QED
  BY AlwaysQueriesInv, <1>1, <1>2, PTL DEF QueriesSpec

(***************************************************************************)
(* Nothing is written over                                                 *)
(***************************************************************************)
\* A choicepoint that lies above its frame, and does not overlap any frame
Placed(fs, c) ==
  /\ c.fr \in DOMAIN fs /\ c.cleanup \in {Null, c.fr}
  /\ c.at \in Nat /\ AfterChoice(c) \in Nat
  /\ \A f \in DOMAIN fs : IF f < c.at THEN EndOf(fs, f) <= c.at ELSE AfterChoice(c) <= f

\* Choicepoints that do not overlap
InOrder(c, d) == AfterChoice(c) <= d.at \/ AfterChoice(d) <= c.at \/ c = d

\* The choicepoints that have been saved with a state, and its own
LevelOf(s) == {Mark(s)} \cup ElementsOf(ChoicesUnder(s))

\* Frames that do not overlap, with choicepoints that do not overlap them or each other
LEMMA PlacedApart ==
  ASSUME Stacked(frames, cps), FR \in DOMAIN frames \cup {Null},
         NEW sp \in Nat, Sized(frames, ElementsOf(cps), sp), NEW all,
         \A c \in all : Placed(frames, c), \A c, d \in all : InOrder(c, d),
         status \notin {"throw", "error"} => sp = SP /\ \A c \in all : AfterChoice(c) <= SP
  PROVE  Separate(all)
<1> DEFINE frameAt(f)  == f..AfterFrame(f) - 1
           choiceAt(c) == c.at..AfterChoice(c) - 1
<1>1. \A f : AfterFrame(f) = EndOf(frames, f)
  BY DEF AfterFrame, EndOf
<1>2. Numbers(frames, ElementsOf(cps))
  BY StackNumbers
<1>3. \A f \in DOMAIN frames : f \in Nat /\ AfterFrame(f) \in Nat /\ AfterFrame(f) <= sp
  BY <1>1, <1>2 DEF Numbers, Sized
<1>4. \A c \in all : /\ c.at \in Nat /\ AfterChoice(c) \in Nat /\ c.fr \in DOMAIN frames
                     /\ c.cleanup \in {Null, c.fr}
  BY DEF Placed
<1>5. \A c \in all, f \in DOMAIN frames : frameAt(f) \cap choiceAt(c) = {}
  <2>1. \A c \in all, f \in DOMAIN frames :
          IF f < c.at THEN AfterFrame(f) <= c.at ELSE AfterChoice(c) <= f
    BY <1>1 DEF Placed
  <2>2. QED
    BY <1>3, <1>4, <2>1
<1>6. \A f, g \in DOMAIN frames : f # g => frameAt(f) \cap frameAt(g) = {}
  <2>1. \A f, g \in DOMAIN frames : f < g => AfterFrame(f) <= g
    BY <1>1 DEF Sized
  <2>2. \A f, g \in DOMAIN frames : f < g => frameAt(f) \cap frameAt(g) = {}
    BY <1>3, <2>1
  <2>3. QED
    BY <1>3, <2>2
<1>7. \A c, d \in all : c # d => choiceAt(c) \cap choiceAt(d) = {}
  <2>1. \A c, d \in all : AfterChoice(c) <= d.at => choiceAt(c) \cap choiceAt(d) = {}
    BY <1>4
  <2>2. \A c, d \in all : c # d => AfterChoice(c) <= d.at \/ AfterChoice(d) <= c.at
    BY DEF InOrder
  <2>3. QED
    BY <2>1, <2>2
<1>8. Continuation \subseteq DOMAIN frames /\ \A f \in DOMAIN frames : f \in Ancestors(f) /\ Ancestors(f) \subseteq DOMAIN frames
  <2>1. Grounded(frames)
    BY StackGrounded
  <2>2. \A a : Ancestors(a) = AncestorsIn(frames, a)
    BY DEF Ancestors, AncestorsIn
  <2>3. \A f \in DOMAIN frames : f \in AncestorsIn(frames, f) /\ \A g \in AncestorsIn(frames, f) : g \in DOMAIN frames
    BY <2>1, Ancestry
  <2>4. Null \in 0..StackSize
    BY BoundsAssumption DEF Null
  <2>5. Rooted(frames)
    BY <2>1 DEF Grounded
  <2>6. \A g \in AncestorsIn(frames, Null) : g \in DOMAIN frames
    BY <2>4, <2>5, AncestorsBelow
  <2>7. QED
    BY <2>2, <2>3, <2>6 DEF Continuation
<1>9. /\ AliveWith(all) \subseteq DOMAIN frames
      /\ \A c \in all : c.fr \in AliveWith(all)
  BY <1>4, <1>8 DEF AliveWith
<1>10. \A c \in all : c.cleanup # Null => c.cleanup \in AliveWith(all)
  BY <1>4, <1>9
<1>11. QED
  BY <1>3, <1>4, <1>5, <1>6, <1>7, <1>8, <1>9, <1>10 DEF Separate

\* The choicepoints that have been saved are the one of the state and those below it.
LEMMA SavedOnLevel ==
  ASSUME NEW s, SavedOK(s), NEW k \in DOMAIN s.choices
  PROVE  s.choices[k] \in LevelOf(s)
<1>1. PICK t : t = ChoicesUnder(s)
  OBVIOUS
<1>2. PICK n \in Nat : n = Len(s.choices) /\ DOMAIN s.choices = 1..n
  BY LenProperties DEF SavedOK
<1>3. CASE k = n
  BY <1>2, <1>3 DEF Mark, LevelOf
<1>4. CASE k # n
  <2>1. k \in 1..n - 1 /\ n - 1 \in Nat
    BY <1>2, <1>4
  <2>2. t = SubSeq(s.choices, 1, n - 1)
    BY <1>1, <1>2 DEF ChoicesUnder
  <2>3. t = [i \in 1..n - 1 |-> s.choices[i]]
    BY <1>2, <2>1, <2>2 DEF SavedOK
  <2>4. s.choices[k] \in ElementsOf(t)
    BY <2>1, <2>3 DEF ElementsOf
  <2>5. QED
    BY <1>1, <2>4 DEF LevelOf
<1>5. QED
  BY <1>3, <1>4

\* The choicepoints of a stack do not overlap its frames or each other.
LEMMA SizedPlaced ==
  ASSUME NEW fs, NEW s, Stacked(fs, s), NEW sp, Sized(fs, ElementsOf(s), sp)
  PROVE  /\ \A c \in ElementsOf(s) : Placed(fs, c) /\ AfterChoice(c) <= sp
         /\ \A c, d \in ElementsOf(s) : InOrder(c, d)
<1>1. Numbers(fs, ElementsOf(s))
  BY StackNumbers
<1>2. PICK cs : cs = ElementsOf(s)
  OBVIOUS
<1>3. \A c, d \in cs : c.at = d.at => c = d
  BY <1>2, AscendingOnce DEF Stacked
<1>4. /\ \A c \in cs : AfterChoice(c) <= sp /\ c.cleanup \in {Null, c.fr}
      /\ \A c \in cs, f \in DOMAIN fs : IF f < c.at THEN EndOf(fs, f) <= c.at ELSE AfterChoice(c) <= f
      /\ \A c, d \in cs : c.at < d.at => AfterChoice(c) <= d.at
  BY <1>2 DEF Sized, Restores
<1>5. \A c \in cs : c.at \in Nat /\ AfterChoice(c) \in Nat /\ c.fr \in DOMAIN fs
  BY <1>1, <1>2 DEF Numbers
<1>6. \A c \in cs : Placed(fs, c) /\ AfterChoice(c) <= sp
  BY <1>4, <1>5 DEF Placed
<1>7. \A c, d \in cs : InOrder(c, d)
  <2>1. \A c, d \in cs : c.at < d.at \/ d.at < c.at \/ c = d
    BY <1>3, <1>5
  <2>2. QED
    BY <1>4, <2>1 DEF InOrder
<1>8. QED
  BY <1>2, <1>6, <1>7

\* Nor do those that have been saved with a state.
LEMMA LevelPlaced ==
  ASSUME NEW fs, FramesIn(fs), NEW s, NEW own, SavedOK(s), Resumable(s, fs, own),
         NEW low, low = Below(Mark(s).at, fs), Sized(low, ElementsOf(ChoicesUnder(s)), Mark(s).at),
         Mark(s).at \notin DOMAIN fs, Mark(s).cleanup = Null
  PROVE  /\ \A c \in LevelOf(s) : Placed(fs, c) /\ AfterChoice(c) <= AfterChoice(Mark(s))
         /\ \A c, d \in LevelOf(s) : InOrder(c, d)
<1>1. PICK m, t, at : m = Mark(s) /\ t = ChoicesUnder(s) /\ at = m.at
  OBVIOUS
<1>2. at \in Nat /\ AfterChoice(m) = at + 1
  BY <1>1, MarkOK
<1>3. Sound(low, t, m.fr, m.pc, at)
  BY <1>1 DEF Resumable
<1>4. Stacked(low, t) /\ m.fr \in DOMAIN low /\ Sized(low, ElementsOf(t), at)
  BY <1>1, <1>3, SoundEnds DEF Sound, Ready
<1>5. /\ \A c \in ElementsOf(t) : Placed(low, c) /\ AfterChoice(c) <= at
      /\ \A c, d \in ElementsOf(t) : InOrder(c, d)
  BY <1>4, SizedPlaced
<1>6. /\ DOMAIN low = {f \in DOMAIN fs : f < at}
      /\ \A f \in DOMAIN low : low[f] = fs[f]
  BY <1>1 DEF Below
<1>7. \A f \in DOMAIN low : EndOf(low, f) = EndOf(fs, f)
  BY <1>6 DEF EndOf
<1>8. \A f \in DOMAIN fs : f \in Nat
  BY BoundsAssumption DEF FramesIn
<1>9. ASSUME NEW c \in ElementsOf(t)
      PROVE  Placed(fs, c) /\ AfterChoice(c) <= at + 1
  <2>1. /\ c.fr \in DOMAIN low /\ c.cleanup \in {Null, c.fr} /\ c.at \in Nat /\ AfterChoice(c) \in Nat
        /\ AfterChoice(c) <= at
    BY <1>5, <1>9 DEF Placed
  <2>2. \A f \in DOMAIN low : IF f < c.at THEN EndOf(fs, f) <= c.at ELSE AfterChoice(c) <= f
    BY <1>5, <1>7, <1>9 DEF Placed
  <2>3. c.at < at
    BY <1>1, <1>3, <1>9, SoundEnds
  <2>4. ASSUME NEW f \in DOMAIN fs, f \notin DOMAIN low
        PROVE  ~(f < c.at) /\ AfterChoice(c) <= f
    <3>1. ~(f < at) /\ f \in Nat
      BY <1>6, <1>8, <2>4
    <3>2. QED
      BY <1>2, <2>1, <2>3, <3>1
  <2>5. \A f \in DOMAIN fs : IF f < c.at THEN EndOf(fs, f) <= c.at ELSE AfterChoice(c) <= f
    BY <2>2, <2>4
  <2>6. c.fr \in DOMAIN fs
    BY <1>6, <2>1
  <2>7. AfterChoice(c) <= at + 1
    BY <1>2, <2>1
  <2>8. QED
    BY <2>1, <2>5, <2>6, <2>7 DEF Placed
<1>10. Placed(fs, m)
  <2>1. ASSUME NEW f \in DOMAIN fs
        PROVE  IF f < at THEN EndOf(fs, f) <= at ELSE AfterChoice(m) <= f
    <3>1. CASE f < at
      <4>1. f \in DOMAIN low
        BY <1>6, <2>1, <3>1
      <4>2. EndOf(low, f) <= at
        BY <1>4, <4>1 DEF Sized
      <4>3. QED
        BY <1>7, <3>1, <4>1, <4>2
    <3>2. CASE ~(f < at)
      <4>1. f # at /\ f \in Nat
        BY <1>1, <1>8, <2>1
      <4>2. at + 1 <= f
        BY <1>2, <3>2, <4>1
      <4>3. QED
        BY <1>2, <3>2, <4>2
    <3>3. QED
      BY <3>1, <3>2
  <2>2. m.fr \in DOMAIN fs /\ m.cleanup = Null /\ AfterChoice(m) \in Nat
    BY <1>1, <1>2, <1>4, <1>6
  <2>3. QED
    BY <1>1, <1>2, <2>1, <2>2 DEF Placed
<1>11. \A c \in ElementsOf(t) : InOrder(c, m) /\ InOrder(m, c)
  BY <1>1, <1>5 DEF InOrder
<1>12. InOrder(m, m)
  BY DEF InOrder
<1>13. LevelOf(s) = {m} \cup ElementsOf(t)
  BY <1>1 DEF LevelOf
<1>14. AfterChoice(m) <= AfterChoice(m)
  BY <1>2
<1>15. QED
  BY <1>1, <1>2, <1>5, <1>9, <1>10, <1>11, <1>12, <1>13, <1>14

\* What lies above a saved state lies above all the choicepoints that were saved with it.
LEMMA LevelsInOrder ==
  ASSUME NEW m, NEW own, NEW other, AfterChoice(m) \in Nat,
         \A c \in own : AfterChoice(c) \in Nat /\ AfterChoice(c) <= AfterChoice(m),
         \A d \in other : d.at \in Nat /\ AfterChoice(m) <= d.at
  PROVE  \A c \in own, d \in other : InOrder(c, d) /\ InOrder(d, c)
<1>1. \A c \in own, d \in other : AfterChoice(c) <= d.at
  OBVIOUS
<1>2. QED
  BY <1>1 DEF InOrder

\* The choicepoints of the query that runs and those of the queries around it.
LEMMA AllInOrder ==
  ASSUME QueriesInv, PackedInv, NEW sp \in Nat, Sized(frames, ElementsOf(cps), sp)
  PROVE  /\ \A c \in AllChoices : Placed(frames, c)
         /\ \A c, d \in AllChoices : InOrder(c, d)
         /\ \A c \in SavedChoices : AfterChoice(c) <= SP
<1>1. /\ Stacked(frames, cps) /\ SP \in Nat
      /\ Levels(states, frames, owned, Len(memory)) /\ Layered(states, frames)
      /\ Reaches(states, frames, ElementsOf(cps), SP, Len(heap), Runner)
      /\ DOMAIN states = 1..Len(states) /\ SavedPacked(states, frames)
  BY DEF QueriesInv, MachineInv, PackedInv
<1>2. PICK Level : Level = [i \in DOMAIN states |-> LevelOf(states[i])]
  OBVIOUS
<1>3. /\ \A c \in ElementsOf(cps) : Placed(frames, c)
      /\ \A c, d \in ElementsOf(cps) : InOrder(c, d)
  BY <1>1, SizedPlaced
<1>4. ASSUME NEW i \in DOMAIN states
      PROVE  /\ \A c \in Level[i] : Placed(frames, c) /\ AfterChoice(c) <= AfterChoice(Mark(states[i]))
             /\ \A c, d \in Level[i] : InOrder(c, d)
             /\ AfterChoice(Mark(states[i])) \in Nat /\ AfterChoice(Mark(states[i])) <= SP
             /\ \A d \in ElementsOf(cps) : AfterChoice(Mark(states[i])) <= d.at
  <2>1. PICK s, low : s = states[i] /\ low = Below(Mark(s).at, frames)
    OBVIOUS
  <2>2. SavedOK(s) /\ Resumable(s, frames, owned)
    BY <1>1, <2>1 DEF Levels
  <2>3. Sized(low, ElementsOf(ChoicesUnder(s)), Mark(s).at) /\ Mark(s).at \notin DOMAIN frames /\ Mark(s).cleanup = Null
    BY <1>1, <2>1 DEF SavedPacked
  <2>4. FramesIn(frames)
    BY <1>1 DEF Stacked
  <2>5. /\ \A c \in LevelOf(s) : Placed(frames, c) /\ AfterChoice(c) <= AfterChoice(Mark(s))
        /\ \A c, d \in LevelOf(s) : InOrder(c, d)
    BY <2>1, <2>2, <2>3, <2>4, LevelPlaced
  <2>6. Lies(Mark(s), frames, ElementsOf(cps), SP, Len(heap), Runner)
    BY <1>1, <2>1 DEF Reaches
  <2>7. QED
    BY <1>2, <2>1, <2>2, <2>5, <2>6, MarkOK DEF Lies
<1>5. ASSUME NEW i \in DOMAIN states, NEW j \in DOMAIN states, i < j
      PROVE  \A d \in Level[j] : AfterChoice(Mark(states[i])) <= d.at
  <2>1. PICK s, c : s = states[j] /\ c = Mark(s)
    OBVIOUS
  <2>2. Lies(Mark(states[i]), Below(c.at, frames), ElementsOf(ChoicesUnder(s)), c.at, c.h, c.fr)
    BY <1>1, <1>5, <2>1 DEF Layered
  <2>3. QED
    BY <1>2, <2>1, <2>2 DEF Lies, LevelOf
<1>6. \A c : Placed(frames, c) => c.at \in Nat /\ AfterChoice(c) \in Nat
  BY DEF Placed
<1>7. ASSUME NEW i \in DOMAIN states
      PROVE  \A c \in Level[i], d \in ElementsOf(cps) : InOrder(c, d) /\ InOrder(d, c)
  <2>1. PICK m, own, other : m = Mark(states[i]) /\ own = Level[i] /\ other = ElementsOf(cps)
    OBVIOUS
  <2>2. /\ AfterChoice(m) \in Nat
        /\ \A c \in own : AfterChoice(c) \in Nat /\ AfterChoice(c) <= AfterChoice(m)
        /\ \A d \in other : d.at \in Nat /\ AfterChoice(m) <= d.at
    BY <1>3, <1>4, <1>6, <2>1
  <2>3. \A c \in own, d \in other : InOrder(c, d) /\ InOrder(d, c)
    BY <2>2, LevelsInOrder
  <2>4. QED
    BY <2>1, <2>3
<1>8. ASSUME NEW i \in DOMAIN states, NEW j \in DOMAIN states, i < j
      PROVE  \A c \in Level[i], d \in Level[j] : InOrder(c, d) /\ InOrder(d, c)
  <2>1. PICK m, own, other : m = Mark(states[i]) /\ own = Level[i] /\ other = Level[j]
    OBVIOUS
  <2>2. /\ AfterChoice(m) \in Nat
        /\ \A c \in own : AfterChoice(c) \in Nat /\ AfterChoice(c) <= AfterChoice(m)
        /\ \A d \in other : d.at \in Nat /\ AfterChoice(m) <= d.at
    BY <1>4, <1>5, <1>6, <1>8, <2>1
  <2>3. \A c \in own, d \in other : InOrder(c, d) /\ InOrder(d, c)
    BY <2>2, LevelsInOrder
  <2>4. QED
    BY <2>1, <2>3
<1>9. \A i, j \in DOMAIN states : i < j \/ j < i \/ i = j
  <2>1. \A i \in DOMAIN states : i \in Int
    BY <1>1
  <2>2. QED
    BY <2>1
<1>10. \A c \in SavedChoices : \E i \in DOMAIN states : c \in Level[i]
  <2>1. ASSUME NEW i \in DOMAIN states, NEW k \in DOMAIN states[i].choices
        PROVE  states[i].choices[k] \in Level[i]
    <3>1. SavedOK(states[i])
      BY <1>1 DEF Levels
    <3>2. QED
      BY <1>2, <3>1, SavedOnLevel
  <2>2. QED
    BY <2>1 DEF SavedChoices
<1>11. \A c \in AllChoices : c \in ElementsOf(cps) \/ \E i \in DOMAIN states : c \in Level[i]
  BY <1>10 DEF AllChoices, Choices, ElementsOf
<1>12. \A c \in AllChoices : Placed(frames, c)
  BY <1>3, <1>4, <1>11
<1>13. \A i, j \in DOMAIN states : \A c \in Level[i], d \in Level[j] : InOrder(c, d)
  BY <1>4, <1>8, <1>9
<1>14. \A c, d \in AllChoices : InOrder(c, d)
  <2>1. SUFFICES ASSUME NEW c \in AllChoices, NEW d \in AllChoices PROVE InOrder(c, d)
    OBVIOUS
  <2>2. CASE c \in ElementsOf(cps) /\ d \in ElementsOf(cps)
    BY <1>3, <2>2
  <2>3. CASE \E i \in DOMAIN states : c \in Level[i] /\ d \in ElementsOf(cps)
    BY <1>7, <2>3
  <2>4. CASE \E i \in DOMAIN states : d \in Level[i] /\ c \in ElementsOf(cps)
    BY <1>7, <2>4
  <2>5. CASE \E i, j \in DOMAIN states : c \in Level[i] /\ d \in Level[j]
    BY <1>13, <2>5
  <2>6. QED
    BY <1>11, <2>1, <2>2, <2>3, <2>4, <2>5
<1>15. ASSUME NEW c \in SavedChoices
       PROVE  AfterChoice(c) <= SP
  <2>1. PICK i \in DOMAIN states : c \in Level[i]
    BY <1>10, <1>15
  <2>2. AfterChoice(c) \in Nat /\ AfterChoice(c) <= AfterChoice(Mark(states[i]))
    BY <1>4, <1>6, <2>1
  <2>3. AfterChoice(Mark(states[i])) \in Nat /\ AfterChoice(Mark(states[i])) <= SP
    BY <1>4, <2>1
  <2>4. QED
    BY <1>1, <2>2, <2>3
<1>16. QED
  BY <1>12, <1>14, <1>15

\* Nothing is written over a frame or a choicepoint, with the arguments saved in it, that can
\* still be gone back to, in the queries around a query or in those that ended before it:
\* whatever the size of the stack, the depth of the queries, the number of arguments and the
\* program, as long as no foreign predicate of it raises an error after it left a choicepoint.
\* A query starts at the stack pointer that push_state left, and exits, cuts, failures, balls
\* and restore_state move SP only to where something ends; only
\* make_foreign_cleanup_choicepoint_h does not (kernel.c:2096, run LateError).  The goal of a
\* query must not need cut slots, for which prepare_query does not reserve room (run
\* QueryCondition).
THEOREM QueriesOverwriteNothing ==
  ASSUME QueryReserved = 0
  PROVE  QueriesSpec => []OuterIntact
<1>1. QueriesInv /\ (NoLateErrors => PackedInv) => OuterIntact
  <2>1. SUFFICES ASSUME QueriesInv, PackedInv PROVE QueriesAreSafe
    BY DEF OuterIntact, NoLateErrors
  <2>2. Stacked(frames, cps) /\ FR \in DOMAIN frames \cup {Null} /\ SP \in Nat
    BY <2>1 DEF QueriesInv, MachineInv
  <2>3. PICK sp \in Nat : /\ Sized(frames, ElementsOf(cps), sp)
                          /\ status \notin {"throw", "error"} => sp = SP
    BY <2>1, <2>2 DEF PackedInv, PackedNow, Packed
  <2>4. PICK all : all = AllChoices
    OBVIOUS
  <2>5. /\ \A c \in all : Placed(frames, c)
        /\ \A c, d \in all : InOrder(c, d)
        /\ \A c \in SavedChoices : AfterChoice(c) <= SP
    BY <2>1, <2>3, <2>4, AllInOrder
  <2>6. status \notin {"throw", "error"} => sp = SP /\ \A c \in all : AfterChoice(c) <= SP
    <3>1. \A c \in ElementsOf(cps) : AfterChoice(c) <= sp
      BY <2>3 DEF Sized
    <3>2. all = ElementsOf(cps) \cup SavedChoices
      BY <2>4 DEF AllChoices, Choices, ElementsOf
    <3>3. QED
      BY <2>3, <2>5, <3>1, <3>2
  <2>7. Separate(all)
    BY <2>2, <2>3, <2>5, <2>6, PlacedApart
  <2>8. QED
    BY <2>4, <2>7 DEF QueriesAreSafe
<1>2. QED
  BY AlwaysPacked, <1>1, PTL
=============================================================================
