---------------------------- MODULE PredicatesProofs ----------------------------
(***************************************************************************)
(* What a predicate keeps while goals on it can be resumed, for every      *)
(* number of clauses and choicepoints, and all programs.                   *)
(*                                                                         *)
(* A clause that a goal has bound is repaired when the goal is backtracked *)
(* to, because every block that differs from the clause that was asserted  *)
(* is on the trail.  Programs that change a predicate only when no other   *)
(* goal on it can be resumed never meet freed memory: what a choicepoint   *)
(* of retract/1 has left to try is a run of the clauses, before which there*)
(* are none that its goal unifies with.                                    *)
(***************************************************************************)
EXTENDS Predicates, SequenceTheorems, Recursion, TLAPS

(***************************************************************************)
(* The inductive invariant                                                 *)
(***************************************************************************)
Kinds == {"clause", "call"} \cup Forms
Choosing == [kind : Kinds, goal : Goals, rest : Seq(Nat \cup Goals),
             live : BOOLEAN, trail : Nat]

\* A list of clauses that have been made
AreBlocks(snapshot) ==
  /\ snapshot \in Seq(Nat)
  /\ \A k \in DOMAIN snapshot : snapshot[k] \in 1..Len(stored)

ChoicesOK(chs) ==
  /\ chs \in Seq(Choosing)
  /\ \A n \in DOMAIN chs : chs[n].kind # "call" => AreBlocks(chs[n].rest)

\* What is not as it was asserted is on the trail, and was a variable
BindingsAreTrailed ==
  /\ \A b \in 1..Len(stored) : stored[b] = asserted[b].argument \/ \E k \in 1..Len(trail) : trail[k] = b
  /\ \A k \in 1..Len(trail) : asserted[trail[k]].argument = Var

\* A clause is in the list once, until it is freed
ListedOnce ==
  /\ \A j, k \in 1..Len(clauses) : clauses[j] = clauses[k] => j = k
  /\ \A k \in 1..Len(clauses) : clauses[k] \notin freed

\* The snapshot is a run of clauses, and none before them unify with the goal
InStep(form, goal, snapshot) ==
  \E p \in 0..Len(clauses) :
    /\ p + Len(snapshot) <= Len(clauses)
    /\ \A k \in 1..Len(snapshot) : snapshot[k] = clauses[p + k]
    /\ \A j \in 1..p : ~Matches(form, goal, stored, clauses[j])

NotFreed(snapshot) == \A k \in 1..Len(snapshot) : snapshot[k] \notin freed

\* What a choicepoint goes on with is still there
Resumable(c) ==
  /\ c.live
  /\ c.kind = "clause"  => NotFreed(c.rest)
  /\ c.kind \in Forms => InStep(c.kind, c.goal, c.rest)

\* Only abolish/1 has used what was freed, and retract/1 deletes what it should.
Unharmed(happened) ==
  "other" \notin happened /\ ("misused" \in happened => "abolished" \in happened)

ResumableWhenCareful == Careful =>
  /\ Unharmed(events)
  /\ \A n \in 1..Len(choices) : Resumable(choices[n])

BlocksOK ==
  /\ stored \in Seq(Goals) /\ asserted \in Seq(texts) /\ Len(stored) = Len(asserted)
  /\ trail \in Seq(Nat)
  /\ \A k \in 1..Len(trail) : trail[k] \in 1..Len(stored)
  /\ BindingsAreTrailed

ClausesOK == AreBlocks(clauses) /\ ListedOnce /\ freed \in SUBSET (1..Len(stored))
CodeOK    == (code \in Seq(Goals) \/ code = NotCompiled) /\ CodeIsClauses

PredInv == BlocksOK /\ ClausesOK /\ CodeOK /\ ChoicesOK(choices) /\ ResumableWhenCareful

(***************************************************************************)
(* Types                                                                   *)
(***************************************************************************)
Rigid == UNCHANGED texts

\* The last choicepoints are dropped, or one is added, or calls learn that their code is gone.
LEMMA ChoicesPrefix ==
  ASSUME NEW chs, ChoicesOK(chs), NEW n \in 0..Len(chs)
  PROVE  ChoicesOK(SubSeq(chs, 1, n))
BY DEF ChoicesOK

\* A new choicepoint among those there are.
LEMMA ChoicesAppend ==
  ASSUME NEW chs, ChoicesOK(chs), NEW c \in Choosing, c.kind # "call" => AreBlocks(c.rest)
  PROVE  ChoicesOK(Append(chs, c))
BY DEF ChoicesOK

\* Outdating choicepoints changes nothing but that.
LEMMA ChoicesOutdated ==
  ASSUME NEW chs, ChoicesOK(chs)
  PROVE  /\ ChoicesOK(Outdated(chs))
         /\ Len(Outdated(chs)) = Len(chs)
         /\ \A n \in 1..Len(chs) : /\ Outdated(chs)[n].kind = chs[n].kind
                                   /\ Outdated(chs)[n].goal = chs[n].goal
                                   /\ Outdated(chs)[n].rest = chs[n].rest
                                   /\ chs[n].kind # "call" => Outdated(chs)[n] = chs[n]
<1> DEFINE o == Outdated(chs)
<1>1. /\ DOMAIN o = 1..Len(chs) /\ DOMAIN chs = 1..Len(chs) /\ Len(chs) \in Nat
      /\ \A n \in 1..Len(chs) : chs[n] \in Choosing
  BY DEF Outdated, ChoicesOK
<1>2. \A n \in 1..Len(chs) :
        o[n] = IF chs[n].kind = "call" THEN [chs[n] EXCEPT !.live = FALSE] ELSE chs[n]
  BY <1>1 DEF Outdated
<1>3. \A c \in Choosing : LET d == [c EXCEPT !.live = FALSE]
                          IN  /\ d \in Choosing
                              /\ d.kind = c.kind /\ d.goal = c.goal /\ d.rest = c.rest
  BY DEF Choosing
<1>4. \A n \in 1..Len(chs) : /\ o[n] \in Choosing
                             /\ o[n].kind = chs[n].kind /\ o[n].goal = chs[n].goal
                             /\ o[n].rest = chs[n].rest
                             /\ chs[n].kind # "call" => o[n] = chs[n]
  BY <1>1, <1>2, <1>3
<1> HIDE DEF o
<1>5. o \in [1..Len(chs) -> Choosing]
  <2>1. o = [n \in 1..Len(chs) |-> o[n]]
    BY <1>1 DEF o, Outdated
  <2>2. QED
    BY <2>1, <1>4
<1>6. o \in Seq(Choosing) /\ Len(o) = Len(chs)
  BY <1>1, <1>5
<1>7. ChoicesOK(o)
  BY <1>1, <1>4, <1>6 DEF ChoicesOK
<1>8. QED
  BY <1>4, <1>6, <1>7 DEF o

(***************************************************************************)
(* The blocks: stored, asserted and trail                                  *)
(***************************************************************************)
\* A goal binds the variable of a block.
LEMMA BindingKeepsBlocks ==
  ASSUME BlocksOK, Rigid, UNCHANGED asserted, NEW goal \in Goals, NEW b \in 1..Len(stored),
         stored' = StoredAfter(goal, b), trail' = TrailAfter(trail, goal, b)
  PROVE  BlocksOK' /\ Len(stored') = Len(stored)
<1> USE DEF BlocksOK, BindingsAreTrailed, Rigid
<1>1. CASE Binds(goal, b)
  <2>1. /\ stored' = [stored EXCEPT ![b] = goal] /\ trail' = Append(trail, b)
        /\ goal # Var /\ stored[b] = Var
    BY <1>1 DEF Binds, StoredAfter, TrailAfter
  <2>2. stored' \in Seq(Goals') /\ Len(stored') = Len(stored)
    BY <2>1 DEF Goals, arguments
  <2>3. /\ trail' \in Seq(Nat) /\ Len(trail') = Len(trail) + 1
        /\ \A k \in 1..Len(trail) : trail'[k] = trail[k]
        /\ trail'[Len(trail) + 1] = b
    BY <2>1
  <2>4. asserted[b].argument = Var
    BY <2>1
  <2>5. \A c \in 1..Len(stored) : c # b => stored'[c] = stored[c]
    BY <2>1
  <2>6. \A c \in 1..Len(stored') : stored'[c] = asserted[c].argument \/ \E k \in 1..Len(trail') : trail'[k] = c
    <3> SUFFICES ASSUME NEW c \in 1..Len(stored), stored'[c] # asserted[c].argument
                 PROVE  \E k \in 1..Len(trail') : trail'[k] = c
      BY <2>2
    <3>1. CASE c = b
      <4>1. Len(trail) + 1 \in 1..Len(trail') /\ trail'[Len(trail) + 1] = c
        BY <3>1, <2>3
      <4>2. QED
        BY <4>1
    <3>2. CASE c # b
      <4>1. PICK k \in 1..Len(trail) : trail[k] = c
        BY <3>2, <2>5
      <4>2. QED
        BY <4>1, <2>3
    <3>3. QED
      BY <3>1, <3>2
  <2>7. \A k \in 1..Len(trail') : trail'[k] \in 1..Len(stored') /\ asserted[trail'[k]].argument = Var
    <3> TAKE k \in 1..Len(trail')
    <3>1. CASE k = Len(trail) + 1
      BY <3>1, <2>2, <2>3, <2>4
    <3>2. CASE k \in 1..Len(trail)
      BY <3>2, <2>2, <2>3
    <3>3. QED
      BY <3>1, <3>2, <2>3
  <2>8. QED
    BY <2>2, <2>3, <2>6, <2>7 DEF Goals, arguments
<1>2. CASE ~Binds(goal, b)
  <2>1. stored' = stored /\ trail' = trail
    BY <1>2 DEF StoredAfter, TrailAfter
  <2>2. QED
    BY <2>1 DEF Goals, arguments
<1>3. QED
  BY <1>1, <1>2

\* A clause is asserted.
LEMMA AssertingKeepsBlocks ==
  ASSUME BlocksOK, Rigid, UNCHANGED trail, NEW text \in texts,
         stored' = Append(stored, text.argument), asserted' = Append(asserted, text)
  PROVE  BlocksOK' /\ Len(stored') = Len(stored) + 1
<1> USE DEF BlocksOK, BindingsAreTrailed, Rigid, Goals, arguments
<1>1. /\ stored' \in Seq(Goals') /\ asserted' \in Seq(texts')
      /\ Len(stored') = Len(stored) + 1 /\ Len(asserted') = Len(stored')
      /\ \A b \in 1..Len(stored) : stored'[b] = stored[b] /\ asserted'[b] = asserted[b]
      /\ stored'[Len(stored) + 1] = text.argument /\ asserted'[Len(stored) + 1] = text
  OBVIOUS
<1>2. \A b \in 1..Len(stored') : stored'[b] = asserted'[b].argument \/ \E k \in 1..Len(trail) : trail[k] = b
  BY <1>1
<1>3. \A k \in 1..Len(trail) : trail[k] \in 1..Len(stored') /\ asserted'[trail[k]].argument = Var
  BY <1>1
<1>4. QED
  BY <1>1, <1>2, <1>3

\* What was bound since a mark is undone.
LEMMA UndoKeepsBlocks ==
  ASSUME BlocksOK, Rigid, UNCHANGED asserted, NEW mark \in Nat, mark < Len(trail),
         stored' = Unbound({trail[k] : k \in mark + 1..Len(trail)}),
         trail' = SubSeq(trail, 1, mark)
  PROVE  BlocksOK' /\ Len(stored') = Len(stored)
<1> USE DEF BlocksOK, BindingsAreTrailed, Rigid
<1> DEFINE undone == {trail[k] : k \in mark + 1..Len(trail)}
<1>1. /\ DOMAIN stored = 1..Len(stored)
      /\ stored' = [b \in 1..Len(stored) |-> IF b \in undone THEN Var ELSE stored[b]]
  BY DEF Unbound
<1>2. stored' \in Seq(Goals') /\ Len(stored') = Len(stored)
  <2> HIDE DEF undone
  <2>1. Goals' = Goals /\ Var \in Goals /\ \A b \in 1..Len(stored) : stored[b] \in Goals
    BY DEF Goals, arguments
  <2>2. stored' \in [1..Len(stored) -> Goals]
    BY <1>1, <2>1
  <2>3. stored' \in Seq(Goals) /\ Len(stored') = Len(stored)
    <3>1. Len(stored) \in Nat
      OBVIOUS
    <3> HIDE DEF BlocksOK
    <3>2. QED
      BY <2>2, <3>1
  <2>4. QED
    BY <2>1, <2>3
<1>3. /\ trail' \in Seq(Nat) /\ Len(trail') = mark
      /\ \A k \in 1..mark : trail'[k] = trail[k]
  OBVIOUS
<1>4. \A b \in 1..Len(stored) : stored'[b] = asserted[b].argument \/ \E k \in 1..Len(trail') : trail'[k] = b
  <2> SUFFICES ASSUME NEW b \in 1..Len(stored), stored'[b] # asserted[b].argument
               PROVE  \E k \in 1..Len(trail') : trail'[k] = b
    OBVIOUS
  <2>1. b \notin undone
    <3> SUFFICES ASSUME b \in undone PROVE FALSE
      OBVIOUS
    <3>1. PICK k \in mark + 1..Len(trail) : b = trail[k]
      OBVIOUS
    <3>2. asserted[b].argument = Var
      BY <3>1
    <3>3. QED
      BY <1>1, <3>2
  <2>2. PICK k \in 1..Len(trail) : trail[k] = b
    BY <1>1, <2>1
  <2>3. k \in 1..mark
    BY <2>1, <2>2
  <2>4. QED
    BY <2>2, <2>3, <1>3
<1>5. \A k \in 1..Len(trail') : trail'[k] \in 1..Len(stored') /\ asserted[trail'[k]].argument = Var
  BY <1>2, <1>3
<1>6. QED
  BY <1>2, <1>3, <1>4, <1>5 DEF Goals, arguments

\* Plain programs bind nothing in clauses.
LEMMA PlainIsUnbound ==
  ASSUME BlocksOK, Plain
  PROVE  /\ trail = <<>>
         /\ \A b \in 1..Len(stored) : stored[b] = asserted[b].argument /\ stored[b] # Var
<1> USE DEF BlocksOK, BindingsAreTrailed
<1>1. \A b \in 1..Len(stored) : asserted[b].argument \in Atomic
  BY DEF Plain, arguments
<1>2. Var \notin Atomic
  BY PredAssumption DEF Var
<1>3. trail = <<>>
  <2> SUFFICES ASSUME Len(trail) # 0 PROVE FALSE
    OBVIOUS
  <2>1. asserted[trail[1]].argument = Var /\ trail[1] \in 1..Len(stored)
    OBVIOUS
  <2>2. QED
    BY <2>1, <1>1, <1>2
<1>4. \A b \in 1..Len(stored) : stored[b] = asserted[b].argument
  BY <1>3
<1>6. QED
  BY <1>1, <1>2, <1>3, <1>4

(***************************************************************************)
(* Steps that change choicepoints, and at most one block                   *)
(***************************************************************************)
\* The choicepoints below the goal that is tried
Below(chs) == ChoicesOK(chs) /\ (Careful => \A n \in 1..Len(chs) : Resumable(chs[n]))

\* If a block is bound, or none, the list of clauses and its code are what they were.
LEMMA BindingKeepsTheRest ==
  ASSUME PredInv, Rigid, UNCHANGED <<asserted, clauses, freed, code>>,
         BlocksOK', Len(stored') = Len(stored),
         "late" \in events' <=> "late" \in events
  PROVE  /\ ClausesOK' /\ CodeOK'
         /\ \A s : AreBlocks(s) => AreBlocks(s)'
         /\ \A chs : ChoicesOK(chs) => ChoicesOK(chs)'
<1>1. ClausesOK'
  BY DEF PredInv, ClausesOK, ListedOnce, AreBlocks
<1>2. CodeOK'
  BY DEF PredInv, CodeOK, CodeIsClauses, Plain, Goals, Rigid, NotCompiled, arguments
<1>3. \A s : AreBlocks(s) => AreBlocks(s)'
  BY DEF AreBlocks
<1>4. \A chs : ChoicesOK(chs) => ChoicesOK(chs)'
  BY <1>3 DEF ChoicesOK, Choosing, Goals, Rigid, arguments
<1>5. QED
  BY <1>1, <1>2, <1>3, <1>4

\* The rest of a snapshot
LEMMA RestIsBlocks ==
  ASSUME NEW s, AreBlocks(s), s # <<>>
  PROVE  /\ AreBlocks(Rest(s)) /\ s[1] \in 1..Len(stored)
         /\ Len(s) \in Nat \ {0} /\ Len(Rest(s)) = Len(s) - 1
         /\ \A k \in 1..Len(s) - 1 : Rest(s)[k] = s[k + 1]
         /\ Rest(s) \in Seq(Nat \cup Goals)
BY DEF AreBlocks, Rest

\* The goal of a choicepoint that is made now
LEMMA ChoiceTypes ==
  ASSUME NEW kind \in Kinds, NEW goal \in Goals,
         NEW rest \in Seq(Nat \cup Goals), BlocksOK
  PROVE  Choice(kind, goal, rest, TRUE) \in Choosing
BY DEF Choice, Choosing, BlocksOK

\* As long as clauses stay, choicepoints stay resumable.
LEMMA ResumableStays ==
  ASSUME UNCHANGED <<stored, asserted, clauses, freed>>, NEW chs, choices' = chs,
         \A n \in 1..Len(chs) : Resumable(chs[n])
  PROVE  \A n \in 1..Len(choices') : Resumable(choices[n])'
<1> SUFFICES ASSUME NEW n \in 1..Len(chs)
             PROVE  Resumable(choices[n])'
  OBVIOUS
<1> PICK c : c = chs[n]
  OBVIOUS
<1>1. Resumable(c) => Resumable(c)'
  BY DEF Resumable, NotFreed, InStep, Matches, Unifies, Forms
<1>2. QED
  BY <1>1 DEF Resumable, NotFreed, InStep, Matches, Unifies, Forms

\* clause/2 keeps the invariant.
LEMMA TryClauseKeeps ==
  ASSUME PredInv, Rigid, UNCHANGED asserted, NEW goal \in Goals,
         NEW snapshot, AreBlocks(snapshot), Careful => NotFreed(snapshot),
         NEW chs, Below(chs), TryClause(goal, snapshot, chs)
  PROVE  PredInv'
<1>1. CASE snapshot = <<>>
  <2>1. choices' = chs /\ UNCHANGED <<clauses, stored, freed, code, trail, events>>
    BY <1>1 DEF TryClause
  <2>2. BlocksOK' /\ Len(stored') = Len(stored)
    BY <2>1 DEF PredInv, BlocksOK, BindingsAreTrailed, Goals, Rigid, arguments
  <2>3. ClausesOK' /\ CodeOK' /\ ChoicesOK(chs)'
    BY <2>1, <2>2, BindingKeepsTheRest DEF Below
  <2>4. ResumableWhenCareful'
    <3> SUFFICES ASSUME Careful'
                 PROVE  /\ Unharmed(events')
                        /\ \A n \in 1..Len(choices') : Resumable(choices[n])'
      BY DEF ResumableWhenCareful, Unharmed
    <3>1. Careful
      BY <2>1 DEF Careful, Plain, Rigid, arguments
    <3>2. Unharmed(events')
      BY <2>1, <3>1 DEF PredInv, ResumableWhenCareful, Unharmed
    <3>3. QED
      BY <2>1, <3>1, <3>2, ResumableStays DEF Below
  <2>5. ChoicesOK(choices)'
    BY <2>1, <2>3 DEF ChoicesOK, AreBlocks
  <2>6. QED
    BY <2>2, <2>3, <2>4, <2>5 DEF PredInv
<1>2. CASE snapshot # <<>>
  <2> DEFINE b == snapshot[1]
  <2>0. PICK c : c = Choice("clause", goal, Rest(snapshot), TRUE)
    OBVIOUS
  <2>1. /\ choices' = Append(chs, c)
        /\ events'  = IF b \in freed \/ (asserted[b].form = "fact" /\ stored[b] = Var)
                       THEN events \cup {"misused"} ELSE events
        /\ \/ Unifies(goal, stored[b]) /\ stored' = StoredAfter(goal, b) /\ trail' = TrailAfter(trail, goal, b)
           \/ UNCHANGED <<stored, trail>>
        /\ UNCHANGED <<clauses, freed, code>>
    BY <1>2, <2>0 DEF TryClause
  <2>2. /\ AreBlocks(Rest(snapshot)) /\ b \in 1..Len(stored) /\ Rest(snapshot) \in Seq(Nat \cup Goals)
        /\ Len(snapshot) \in Nat \ {0} /\ Len(Rest(snapshot)) = Len(snapshot) - 1
        /\ \A k \in 1..Len(snapshot) - 1 : Rest(snapshot)[k] = snapshot[k + 1]
    BY <1>2, RestIsBlocks
  <2>3. BlocksOK' /\ Len(stored') = Len(stored)
    <3>1. CASE UNCHANGED <<stored, trail>>
      BY <3>1 DEF PredInv, BlocksOK, BindingsAreTrailed, Goals, Rigid, arguments
    <3>2. CASE stored' = StoredAfter(goal, b) /\ trail' = TrailAfter(trail, goal, b)
      BY <3>2, <2>2, BindingKeepsBlocks DEF PredInv
    <3>3. QED
      BY <3>1, <3>2, <2>1
  <2>4. "late" \in events' <=> "late" \in events
    BY <2>1
  <2>5. c \in Choosing /\ c.kind = "clause" /\ c.rest = Rest(snapshot) /\ c.live
    <3>1. "clause" \in Kinds
      BY DEF Kinds
    <3>2. BlocksOK
      BY DEF PredInv
    <3>3. Rest(snapshot) \in Seq(Nat \cup Goals)
      BY <2>2
    <3>4. Choice("clause", goal, Rest(snapshot), TRUE) \in Choosing
      BY <3>1, <3>2, <3>3, ChoiceTypes
    <3>5. c.kind = "clause" /\ c.rest = Rest(snapshot) /\ c.live = TRUE
      BY <2>0 DEF Choice
    <3>6. QED
      BY <2>0, <3>4, <3>5, Zenon
  <2> HIDE DEF b
  <2>6. ChoicesOK(Append(chs, c))
    BY <2>2, <2>5, ChoicesAppend DEF Below
  <2>7. ClausesOK' /\ CodeOK' /\ ChoicesOK(Append(chs, c))'
    BY <2>1, <2>3, <2>4, <2>6, BindingKeepsTheRest
  <2>8. ChoicesOK(choices)'
    BY <2>1, <2>7 DEF ChoicesOK, AreBlocks
  <2>9. ResumableWhenCareful'
    <3> SUFFICES ASSUME Careful'
                 PROVE  /\ Unharmed(events')
                        /\ \A n \in 1..Len(choices') : Resumable(choices[n])'
      BY DEF ResumableWhenCareful, Unharmed
    <3>1. Careful
      BY <2>1 DEF Careful, Plain, Rigid, arguments
    <3>2. b \notin freed
      BY <3>1, <2>2 DEF NotFreed, b
    <3>3. UNCHANGED <<stored, events>>
      <4>1. stored[b] # Var
        BY <3>1, <3>2, <2>1, <2>2, PlainIsUnbound DEF PredInv, Careful
      <4>2. QED
        BY <4>1, <3>2, <2>1 DEF StoredAfter, Binds
    <3>4. Len(chs) \in Nat /\ Len(Append(chs, c)) = Len(chs) + 1 /\ Append(chs, c)[Len(chs) + 1] = c
          /\ \A n \in 1..Len(chs) : Append(chs, c)[n] = chs[n]
      BY <2>5 DEF Below, ChoicesOK
    <3>5. NotFreed(Rest(snapshot))
      BY <3>1, <2>2 DEF NotFreed
    <3>6. Resumable(c)
      BY <2>5, <3>5 DEF Resumable, Forms
    <3>7. \A n \in 1..Len(Append(chs, c)) : Resumable(Append(chs, c)[n])
      BY <3>1, <3>4, <3>6 DEF Below
    <3>8. \A n \in 1..Len(choices') : Resumable(choices[n])'
      BY <3>3, <3>7, <2>1, ResumableStays
    <3>9. QED
      BY <3>1, <3>3, <3>8 DEF PredInv, ResumableWhenCareful, Unharmed
  <2>10. QED
    BY <2>3, <2>7, <2>8, <2>9 DEF PredInv
<1>3. QED
  BY <1>1, <1>2

\* A call keeps the invariant, whether it compiles the clauses first or not.
LEMMA TryCallKeeps ==
  ASSUME PredInv, Rigid, UNCHANGED asserted, CodeOK', NEW goal \in Goals,
         NEW program \in Seq(Nat \cup Goals), NEW k \in Nat, NEW chs, Below(chs),
         TryCall(goal, program, k, chs)
  PROVE  PredInv'
<1>0. PICK c : c = Choice("call", goal, SubSeq(program, k + 1, Len(program)), TRUE)
  OBVIOUS
<1>1. /\ choices' = chs \/ choices' = Append(chs, c)
      /\ UNCHANGED <<clauses, stored, freed, trail, events>>
  BY <1>0 DEF TryCall
<1>2. BlocksOK' /\ ClausesOK'
  BY <1>1 DEF PredInv, BlocksOK, BindingsAreTrailed, Goals, Rigid, ClausesOK, ListedOnce, AreBlocks, arguments
<1>3. c \in Choosing /\ c.kind = "call" /\ c.live
  <2>1. "call" \in Kinds /\ BlocksOK
    BY DEF PredInv, Kinds
  <2>2. SubSeq(program, k + 1, Len(program)) \in Seq(Nat \cup Goals)
    OBVIOUS
  <2>3. c \in Choosing
    BY <1>0, <2>1, <2>2, ChoiceTypes
  <2>4. c.kind = "call" /\ c.live = TRUE
    BY <1>0 DEF Choice
  <2>5. QED
    BY <2>3, <2>4, Zenon
<1>4. \A s : ChoicesOK(s) => ChoicesOK(s)'
  BY <1>1 DEF ChoicesOK, Choosing, Goals, Rigid, AreBlocks, arguments
<1>5. ChoicesOK(choices)'
  <2>1. ChoicesOK(chs)' /\ ChoicesOK(Append(chs, c))'
    BY <1>3, <1>4, ChoicesAppend DEF Below
  <2>2. QED
    BY <1>1, <2>1 DEF ChoicesOK, AreBlocks
<1>6. ResumableWhenCareful'
  <2> SUFFICES ASSUME Careful'
               PROVE  /\ Unharmed(events')
                      /\ \A n \in 1..Len(choices') : Resumable(choices[n])'
    BY DEF ResumableWhenCareful, Unharmed
  <2>1. Careful
    BY <1>1 DEF Careful, Plain, Rigid, arguments
  <2>2. Unharmed(events')
    BY <1>1, <2>1 DEF PredInv, ResumableWhenCareful, Unharmed
  <2>3. Resumable(c)
    BY <1>3 DEF Resumable, Forms
  <2>4. Len(chs) \in Nat /\ Len(Append(chs, c)) = Len(chs) + 1 /\ Append(chs, c)[Len(chs) + 1] = c
        /\ \A n \in 1..Len(chs) : Append(chs, c)[n] = chs[n]
    BY <1>3 DEF Below, ChoicesOK
  <2>5. \A n \in 1..Len(Append(chs, c)) : Resumable(Append(chs, c)[n])
    BY <2>1, <2>3, <2>4 DEF Below
  <2>6. \A n \in 1..Len(chs) : Resumable(chs[n])
    BY <2>1 DEF Below
  <2>7. CASE choices' = chs
    BY <2>7, <1>1, <2>2, <2>6, ResumableStays
  <2>8. CASE choices' = Append(chs, c)
    BY <2>8, <1>1, <2>2, <2>5, ResumableStays
  <2>9. QED
    BY <2>7, <2>8, <1>1
<1>7. QED
  BY <1>2, <1>5, <1>6 DEF PredInv

(***************************************************************************)
(* retract/1                                                               *)
(***************************************************************************)
\* What is left when a clause is taken from the list
LEMMA WithoutOne ==
  ASSUME NEW s \in Seq(Nat), NEW k \in 1..Len(s)
  PROVE  /\ Without1(s, k) \in Seq(Nat)
         /\ Len(Without1(s, k)) = Len(s) - 1
         /\ \A j \in 1..Len(s) - 1 : Without1(s, k)[j] = IF j < k THEN s[j] ELSE s[j + 1]
<1>p. PICK l, r : l = SubSeq(s, 1, k - 1) /\ r = SubSeq(s, k + 1, Len(s))
  OBVIOUS
<1>1. l \in Seq(Nat) /\ Len(l) = k - 1 /\ \A j \in 1..k - 1 : l[j] = s[j]
  BY <1>p
<1>2. r \in Seq(Nat) /\ Len(r) = Len(s) - k /\ \A j \in 1..Len(s) - k : r[j] = s[k + j]
  BY <1>p
<1>3. Without1(s, k) = l \o r
  BY <1>p DEF Without1
<1>0. Len(s) \in Nat /\ k \in Int /\ Len(l) = k - 1 /\ Len(r) = Len(s) - k
  BY <1>1, <1>2
<1>4. l \o r \in Seq(Nat) /\ Len(l \o r) = Len(s) - 1
  <2>1. l \o r \in Seq(Nat) /\ Len(l \o r) = Len(l) + Len(r)
    BY <1>1, <1>2, ConcatProperties
  <2>2. QED
    BY <2>1, <1>0
<1>5. ASSUME NEW j \in 1..Len(s) - 1
      PROVE  (l \o r)[j] = IF j < k THEN s[j] ELSE s[j + 1]
  <2>1. CASE j < k
    <3>1. j \in 1..Len(l)
      BY <2>1, <1>1
    <3>2. (l \o r)[j] = l[j]
      BY <3>1, <1>1, <1>2, ConcatProperties
    <3>3. QED
      BY <2>1, <3>1, <3>2, <1>1
  <2>2. CASE ~(j < k)
    <3>1. /\ j - Len(l) \in 1..Len(s) - k /\ k + (j - Len(l)) = j + 1
          /\ j \in 1..Len(l) + Len(r) /\ ~(j <= Len(l))
      BY <2>2, <1>0
    <3>2. (l \o r)[j] = r[j - Len(l)]
      BY <3>1, <1>1, <1>2, ConcatProperties
    <3>3. QED
      BY <2>2, <3>1, <3>2, <1>2
  <2>3. QED
    BY <2>1, <2>2
<1>6. QED
  BY <1>3, <1>4, <1>5

\* There is at most one victim: nothing, or the first clause that unifies.
LEMMA VictimsIsOne ==
  ASSUME NEW form, NEW instance, NEW contents, clauses \in Seq(Nat)
  PROVE  LET gone == Victims(form, instance, contents)
         IN  \/ gone = {}
             \/ \E k \in 1..Len(clauses) :
                  /\ gone = {k} /\ Matches(form, instance, contents, clauses[k])
                  /\ \A j \in 1..k - 1 : ~Matches(form, instance, contents, clauses[j])
<1> DEFINE gone == Victims(form, instance, contents)
<1>1. gone = {k \in 1..Len(clauses) :
                /\ Matches(form, instance, contents, clauses[k])
                /\ \A j \in 1..Len(clauses) : Matches(form, instance, contents, clauses[j]) => k <= j}
  BY DEF Victims
<1> HIDE DEF gone
<1>2. SUFFICES ASSUME NEW k \in gone
               PROVE  /\ gone = {k} /\ k \in 1..Len(clauses) /\ Matches(form, instance, contents, clauses[k])
                      /\ \A j \in 1..k - 1 : ~Matches(form, instance, contents, clauses[j])
  BY DEF gone
<1>3. QED
  BY <1>1

\* What retract/1 leaves to try is in step with the clauses, whether the clause it tried
\* is kept, since it does not unify, or deleted.
LEMMA InStepAfterKept ==
  ASSUME ClausesOK, NEW form, NEW goal, NEW snapshot, AreBlocks(snapshot), snapshot # <<>>,
         InStep(form, goal, snapshot)
  PROVE  /\ snapshot[1] \notin freed
         /\ ~Matches(form, goal, stored, snapshot[1]) => InStep(form, goal, Rest(snapshot))
<1>1. PICK p \in 0..Len(clauses) :
        /\ p + Len(snapshot) <= Len(clauses)
        /\ \A k \in 1..Len(snapshot) : snapshot[k] = clauses[p + k]
        /\ \A j \in 1..p : ~Matches(form, goal, stored, clauses[j])
  BY DEF InStep
<1>2. /\ Len(snapshot) \in Nat \ {0} /\ Len(Rest(snapshot)) = Len(snapshot) - 1
      /\ \A k \in 1..Len(snapshot) - 1 : Rest(snapshot)[k] = snapshot[k + 1]
      /\ Len(clauses) \in Nat
  BY RestIsBlocks DEF ClausesOK, AreBlocks
<1>3. snapshot[1] = clauses[p + 1] /\ p + 1 \in 1..Len(clauses)
  BY <1>1, <1>2
<1>4. snapshot[1] \notin freed
  BY <1>3 DEF ClausesOK, ListedOnce
<1>5. ASSUME ~Matches(form, goal, stored, snapshot[1])
      PROVE  InStep(form, goal, Rest(snapshot))
  <2>1. p + 1 + Len(Rest(snapshot)) <= Len(clauses)
    BY <1>1, <1>2
  <2>2. \A k \in 1..Len(Rest(snapshot)) : Rest(snapshot)[k] = clauses[p + 1 + k]
    <3> TAKE k \in 1..Len(Rest(snapshot))
    <3>1. k + 1 \in 1..Len(snapshot) /\ p + (k + 1) = p + 1 + k /\ k \in 1..Len(snapshot) - 1
      BY <1>2
    <3>2. QED
      BY <3>1, <1>1, <1>2
  <2>3. \A j \in 1..p + 1 : ~Matches(form, goal, stored, clauses[j])
    BY <1>1, <1>3, <1>5
  <2>4. p + 1 \in 0..Len(clauses)
    BY <1>3
  <2>5. QED
    BY <2>1, <2>2, <2>3, <2>4 DEF InStep
<1>6. QED
  BY <1>4, <1>5

\* A snapshot stays in step with the clauses when the clause it is at is deleted.
LEMMA InStepAfterDeleted ==
  ASSUME ClausesOK, BlocksOK, UNCHANGED <<stored, asserted>>,
         \A b \in 1..Len(stored) : stored[b] # Var,
         NEW form, NEW goal, NEW snapshot, AreBlocks(snapshot), snapshot # <<>>,
         InStep(form, goal, snapshot), Matches(form, goal, stored, snapshot[1]),
         NEW k \in 1..Len(clauses),
         Matches(form, Instance(goal, snapshot[1]), stored, clauses[k]),
         \A j \in 1..k - 1 : ~Matches(form, Instance(goal, snapshot[1]), stored, clauses[j]),
         clauses' = Without1(clauses, k)
  PROVE  clauses[k] = snapshot[1] /\ InStep(form, goal, Rest(snapshot))'
<1>1. PICK p \in 0..Len(clauses) :
        /\ p + Len(snapshot) <= Len(clauses)
        /\ \A i \in 1..Len(snapshot) : snapshot[i] = clauses[p + i]
        /\ \A j \in 1..p : ~Matches(form, goal, stored, clauses[j])
  BY DEF InStep
<1>2. /\ Len(snapshot) \in Nat \ {0} /\ Len(Rest(snapshot)) = Len(snapshot) - 1
      /\ \A i \in 1..Len(snapshot) - 1 : Rest(snapshot)[i] = snapshot[i + 1]
      /\ Len(clauses) \in Nat /\ clauses \in Seq(Nat)
      /\ \A j \in 1..Len(clauses) : clauses[j] \in 1..Len(stored)
  BY RestIsBlocks DEF ClausesOK, AreBlocks
<1>3. snapshot[1] = clauses[p + 1] /\ p + 1 \in 1..Len(clauses)
  BY <1>1, <1>2
<1>4. k = p + 1
  <2> DEFINE a == stored[snapshot[1]]
  <2>1. Instance(goal, snapshot[1]) = a /\ a # Var
    BY <1>2, <1>3 DEF Instance, Matches, Unifies
  <2>2. ~(p + 1 < k)
    BY <2>1, <1>3 DEF Matches, Unifies
  <2>3. ~(k < p + 1)
    <3> SUFFICES ASSUME k < p + 1 PROVE FALSE
      OBVIOUS
    <3>1. k \in 1..p /\ stored[clauses[k]] # Var
      BY <1>2
    <3>2. stored[clauses[k]] = a
      BY <2>1, <3>1 DEF Matches, Unifies
    <3>3. Matches(form, goal, stored, clauses[k])
      BY <3>2 DEF Matches, Unifies
    <3>4. QED
      BY <1>1, <3>1, <3>3
  <2>4. QED
    BY <2>2, <2>3, <1>3
<1>5. /\ Len(clauses') = Len(clauses) - 1
      /\ \A j \in 1..Len(clauses) - 1 : clauses'[j] = IF j < k THEN clauses[j] ELSE clauses[j + 1]
  BY <1>2, WithoutOne
<1>6. p \in 0..Len(clauses') /\ p + Len(Rest(snapshot)) <= Len(clauses')
  BY <1>1, <1>2, <1>3, <1>5
<1>7. \A i \in 1..Len(Rest(snapshot)) : Rest(snapshot)[i] = clauses'[p + i]
  <2> TAKE i \in 1..Len(Rest(snapshot))
  <2>1. /\ i + 1 \in 1..Len(snapshot) /\ p + (i + 1) = p + i + 1 /\ i \in 1..Len(snapshot) - 1
        /\ p + i \in 1..Len(clauses) - 1 /\ ~(p + i < k)
    BY <1>1, <1>2, <1>4
  <2>2. Rest(snapshot)[i] = clauses[p + i + 1]
    BY <2>1, <1>1, <1>2
  <2>3. QED
    BY <2>1, <2>2, <1>5
<1>8. \A j \in 1..p : ~Matches(form, goal, stored, clauses[j])'
  <2> TAKE j \in 1..p
  <2>1. j \in 1..Len(clauses) - 1 /\ j < k
    BY <1>3, <1>4
  <2>2. clauses'[j] = clauses[j] /\ ~Matches(form, goal, stored, clauses[j])
    BY <2>1, <1>1, <1>5
  <2>3. QED
    BY <2>2 DEF Matches, Unifies
<1>9. InStep(form, goal, Rest(snapshot))'
  BY <1>6, <1>7, <1>8 DEF InStep, Matches, Unifies, Rest
<1>10. QED
  BY <1>3, <1>4, <1>9

\* retract/1 keeps the invariant.
LEMMA TryRetractKeeps ==
  ASSUME PredInv, Rigid, UNCHANGED asserted, NEW form \in Forms, NEW goal \in Goals,
         NEW snapshot, AreBlocks(snapshot), Careful => InStep(form, goal, snapshot),
         NEW chs, Below(chs), TryRetract(form, goal, snapshot, chs)
  PROVE  PredInv'
<1>1. CASE snapshot = <<>>
  <2>1. choices' = chs /\ UNCHANGED <<clauses, stored, freed, code, trail, events>>
    BY <1>1 DEF TryRetract
  <2>2. NotFreed(snapshot) /\ TryClause(goal, snapshot, chs)
    BY <1>1, <2>1 DEF NotFreed, TryClause
  <2>3. QED
    BY <2>2, TryClauseKeeps
<1>2. CASE snapshot # <<>>
  <2> DEFINE b == snapshot[1]
  <2>0. PICK c : c = Choice(form, goal, Rest(snapshot), TRUE)
    OBVIOUS
  <2>1. PICK left : left = IF Rest(snapshot) = <<>> THEN chs ELSE Append(chs, c)
    OBVIOUS
  <2>2. /\ AreBlocks(Rest(snapshot)) /\ b \in 1..Len(stored) /\ Rest(snapshot) \in Seq(Nat \cup Goals)
        /\ Len(snapshot) \in Nat \ {0} /\ Len(Rest(snapshot)) = Len(snapshot) - 1
    BY <1>2, RestIsBlocks
  <2>3. c \in Choosing /\ c.kind = form /\ c.goal = goal /\ c.rest = Rest(snapshot) /\ c.live
    <3>1. form \in Kinds /\ BlocksOK
      BY DEF PredInv, Kinds
    <3>2. c \in Choosing
      BY <2>0, <2>2, <3>1, ChoiceTypes
    <3>3. c.kind = form /\ c.goal = goal /\ c.rest = Rest(snapshot) /\ c.live = TRUE
      BY <2>0 DEF Choice
    <3>4. QED
      BY <3>2, <3>3, Zenon
  <2>4. ChoicesOK(left)
    BY <2>1, <2>2, <2>3, ChoicesAppend DEF Below
  <2>5. Len(chs) \in Nat /\ Len(Append(chs, c)) = Len(chs) + 1 /\ Append(chs, c)[Len(chs) + 1] = c
        /\ \A n \in 1..Len(chs) : Append(chs, c)[n] = chs[n]
    BY <2>3 DEF Below, ChoicesOK
  <2>6. CASE b \in freed \/ ~Matches(form, goal, stored, b)
    <3>1. /\ choices' = left
          /\ events'  = IF b \in freed THEN events \cup {"misused"} ELSE events
          /\ UNCHANGED <<clauses, stored, freed, code, trail>>
      BY <1>2, <2>0, <2>1, <2>6 DEF TryRetract
    <3>2. BlocksOK' /\ Len(stored') = Len(stored)
      BY <3>1 DEF PredInv, BlocksOK, BindingsAreTrailed, Goals, Rigid, arguments
    <3>3. "late" \in events' <=> "late" \in events
      BY <3>1
    <3>4. ClausesOK' /\ CodeOK' /\ ChoicesOK(left)'
      BY <2>4, <3>1, <3>2, <3>3, BindingKeepsTheRest
    <3>5. ChoicesOK(choices)'
      BY <3>1, <3>4 DEF ChoicesOK, AreBlocks
    <3>6. ResumableWhenCareful'
      <4> SUFFICES ASSUME Careful'
                   PROVE  /\ Unharmed(events')
                          /\ \A n \in 1..Len(choices') : Resumable(choices[n])'
        BY DEF ResumableWhenCareful, Unharmed
      <4>1. Careful
        BY <3>1 DEF Careful, Plain, Rigid, arguments
      <4>2. b \notin freed /\ InStep(form, goal, Rest(snapshot))
        BY <4>1, <1>2, <2>6, InStepAfterKept DEF PredInv
      <4>3. Resumable(c)
        BY <4>2, <2>3 DEF Resumable, Forms
      <4>4. \A n \in 1..Len(left) : Resumable(left[n])
        BY <4>1, <4>3, <2>1, <2>5 DEF Below
      <4>5. \A n \in 1..Len(choices') : Resumable(choices[n])'
        BY <4>4, <3>1, ResumableStays
      <4>6. QED
        BY <4>1, <4>2, <4>5, <3>1 DEF PredInv, ResumableWhenCareful, Unharmed
    <3>7. QED
      BY <3>2, <3>4, <3>5, <3>6 DEF PredInv
  <2>7. CASE ~(b \in freed \/ ~Matches(form, goal, stored, b))
    <3>1. PICK gone : gone = Victims(form, Instance(goal, b), StoredAfter(goal, b))
      OBVIOUS
    <3>2. /\ stored'  = StoredAfter(goal, b)
          /\ trail'   = TrailAfter(trail, goal, b)
          /\ clauses' = IF gone = {} THEN clauses
                        ELSE Without1(clauses, CHOOSE k \in gone : TRUE)
          /\ freed'   = freed \cup {clauses[k] : k \in gone}
          /\ code'    = [k \in DOMAIN clauses' |-> stored'[clauses'[k]]]
          /\ choices' = Outdated(left)
          /\ events'  = (events \ {"late"}) \cup Disturbing(chs)
                          \cup (IF {clauses[k] : k \in gone} = {b} THEN {} ELSE {"other"})
      BY <1>2, <2>0, <2>1, <2>7, <3>1 DEF TryRetract
    <3>3. BlocksOK' /\ Len(stored') = Len(stored)
      BY <2>2, <3>2, BindingKeepsBlocks DEF PredInv
    <3>4. /\ clauses \in Seq(Nat) /\ Len(clauses) \in Nat
          /\ \A j \in 1..Len(clauses) : clauses[j] \in 1..Len(stored)
      BY DEF PredInv, ClausesOK, AreBlocks
    <3>5. \/ gone = {}
          \/ \E k \in 1..Len(clauses) :
               /\ gone = {k} /\ Matches(form, Instance(goal, b), stored', clauses[k])
               /\ \A j \in 1..k - 1 : ~Matches(form, Instance(goal, b), stored', clauses[j])
      BY <3>1, <3>2, <3>4, VictimsIsOne
    <3>6. ClausesOK'
      <4>1. CASE gone = {}
        BY <4>1, <3>2, <3>3 DEF PredInv, ClausesOK, ListedOnce, AreBlocks
      <4>2. CASE gone # {}
        <5>1. PICK k \in 1..Len(clauses) : gone = {k}
          BY <4>2, <3>5
        <5>2. clauses' = Without1(clauses, k) /\ freed' = freed \cup {clauses[k]}
          BY <5>1, <3>2
        <5>3. /\ clauses' \in Seq(Nat) /\ Len(clauses') = Len(clauses) - 1
              /\ \A j \in 1..Len(clauses) - 1 : clauses'[j] = IF j < k THEN clauses[j] ELSE clauses[j + 1]
          BY <5>2, <3>4, WithoutOne
        <5>5. \A i, j \in 1..Len(clauses) : clauses[i] = clauses[j] => i = j
          BY DEF PredInv, ClausesOK, ListedOnce
        <5>6. \A j \in 1..Len(clauses') : \E i \in 1..Len(clauses) :
                clauses'[j] = clauses[i] /\ i # k /\ i = IF j < k THEN j ELSE j + 1
          <6> SUFFICES ASSUME NEW j \in 1..Len(clauses) - 1
                       PROVE  \E i \in 1..Len(clauses) :
                                clauses'[j] = clauses[i] /\ i # k /\ i = IF j < k THEN j ELSE j + 1
            BY <5>3
          <6>1. PICK i \in Nat : i = IF j < k THEN j ELSE j + 1
            BY <3>4
          <6>2. i \in 1..Len(clauses) /\ i # k
            BY <6>1, <3>4
          <6>3. clauses'[j] = clauses[i]
            BY <6>1, <5>3
          <6>4. QED
            BY <6>1, <6>2, <6>3
        <5>4. AreBlocks(clauses)'
          <6>1. \A j \in 1..Len(clauses') : clauses'[j] \in 1..Len(stored')
            BY <5>6, <3>3, <3>4
          <6>2. QED
            BY <6>1, <5>3 DEF AreBlocks
        <5>7. \A i, j \in 1..Len(clauses') : clauses'[i] = clauses'[j] => i = j
          BY <5>5, <5>6
        <5>8. \A j \in 1..Len(clauses') : clauses'[j] \notin freed'
          BY <5>1, <5>2, <5>5, <5>6 DEF PredInv, ClausesOK, ListedOnce
        <5>9. freed' \in SUBSET (1..Len(stored'))
          BY <5>2, <3>3, <3>4 DEF PredInv, ClausesOK
        <5>10. QED
          BY <5>4, <5>7, <5>8, <5>9 DEF ClausesOK, ListedOnce
      <4>3. QED
        BY <4>1, <4>2
    <3>7. Plain => /\ UNCHANGED stored
                     /\ \A x \in 1..Len(stored) : stored[x] = asserted[x].argument /\ stored[x] # Var
      BY <2>2, <3>2, PlainIsUnbound DEF PredInv, StoredAfter, Binds
    <3>8. CodeOK'
      <4>1. code' \in Seq(Goals')
        <5>1. /\ clauses' \in Seq(Nat) /\ \A j \in 1..Len(clauses') : clauses'[j] \in 1..Len(stored')
              /\ stored' \in Seq(Goals')
          BY <3>3, <3>6 DEF ClausesOK, AreBlocks, BlocksOK
        <5>2. code' \in [1..Len(clauses') -> Goals'] /\ Len(clauses') \in Nat
          <6>1. DOMAIN clauses' = 1..Len(clauses') /\ Len(clauses') \in Nat
            BY <5>1
          <6>2. code' = [j \in 1..Len(clauses') |-> stored'[clauses'[j]]]
            BY <6>1, <3>2
          <6>3. \A j \in 1..Len(clauses') : stored'[clauses'[j]] \in Goals'
            BY <5>1
          <6>4. QED
            BY <6>1, <6>2, <6>3
        <5>3. QED
          BY <5>2
      <4>2. CodeIsClauses'
        <5>1. SUFFICES ASSUME Plain
                       PROVE  code' = [j \in DOMAIN clauses' |-> asserted'[clauses'[j]].argument]
          BY DEF CodeIsClauses, Plain, Rigid, arguments
        <5>2. \A j \in DOMAIN clauses' : clauses'[j] \in 1..Len(stored)
          BY <3>3, <3>6 DEF ClausesOK, AreBlocks
        <5>3. \A j \in DOMAIN clauses' : stored'[clauses'[j]] = asserted'[clauses'[j]].argument
          BY <5>1, <5>2, <3>7
        <5>4. QED
          BY <5>3, <3>2
      <4>3. QED
        BY <4>1, <4>2 DEF CodeOK
    <3>9. ChoicesOK(choices)'
      <4>1. PICK o : o = Outdated(left)
        OBVIOUS
      <4>2. ChoicesOK(o)
        BY <4>1, <2>4, ChoicesOutdated
      <4>3. ChoicesOK(o)'
        BY <4>2, <3>3 DEF ChoicesOK, Choosing, Goals, Rigid, AreBlocks, arguments
      <4>4. QED
        BY <4>1, <4>3, <3>2 DEF ChoicesOK, AreBlocks
    <3>10. ResumableWhenCareful'
      <4> SUFFICES ASSUME Careful'
                   PROVE  /\ Unharmed(events')
                          /\ \A n \in 1..Len(choices') : Resumable(choices[n])'
        BY DEF ResumableWhenCareful, Unharmed
      <4>1. Careful /\ Plain /\ chs = <<>>
        BY <3>2 DEF Careful, Plain, Rigid, Disturbing, arguments
      <4>2. InStep(form, goal, snapshot) /\ Matches(form, goal, stored, b) /\ UNCHANGED stored
        BY <4>1, <2>7, <3>7
      <4>3. gone # {}
        <5>1. PICK p \in 0..Len(clauses) : p + Len(snapshot) <= Len(clauses) /\ b = clauses[p + 1]
          BY <4>2, <2>2 DEF InStep
        <5>2. p + 1 \in 1..Len(clauses)
          BY <5>1, <2>2, <3>4
        <5>3. Matches(form, Instance(goal, b), stored, clauses[p + 1])
          BY <5>1, <4>2 DEF Instance, Matches, Unifies
        <5>4. SUFFICES ASSUME gone = {} PROVE FALSE
          OBVIOUS
        <5>5. PICK S : S = {k \in 1..Len(clauses) : Matches(form, Instance(goal, b), stored, clauses[k])}
          OBVIOUS
        <5>6. S # {} /\ S \subseteq Nat
          BY <5>2, <5>3, <5>5
        <5>7. PICK k \in S : \A j \in S : k <= j
          BY <5>6, LeastNatural
        <5>8. k \in gone
          <6>1. gone = {i \in S : \A j \in S : i <= j}
            <7>1. PICK instance : instance = Instance(goal, b)
              OBVIOUS
            <7>2. gone = Victims(form, instance, stored)
              BY <7>1, <3>1, <3>2, <4>2
            <7>3. S = {i \in DOMAIN clauses : Matches(form, instance, stored, clauses[i])}
              BY <7>1, <5>5, <3>4
            <7>4. QED
              BY <7>2, <7>3 DEF Victims
          <6>2. QED
            BY <6>1, <5>7
        <5>9. QED
          BY <5>4, <5>8
      <4>4. PICK k \in 1..Len(clauses) :
              /\ gone = {k} /\ Matches(form, Instance(goal, b), stored, clauses[k])
              /\ \A j \in 1..k - 1 : ~Matches(form, Instance(goal, b), stored, clauses[j])
        BY <4>2, <4>3, <3>5
      <4>5. clauses' = Without1(clauses, k)
        BY <4>4, <3>2
      <4>6. clauses[k] = b /\ InStep(form, goal, Rest(snapshot))'
        BY <4>1, <4>2, <4>4, <4>5, <1>2, <3>7, InStepAfterDeleted DEF PredInv
      <4>7. Unharmed(events')
        <5>1. {clauses[i] : i \in gone} = {b}
          BY <4>4, <4>6
        <5>2. Unharmed(events)
          BY <4>1 DEF PredInv, ResumableWhenCareful, Unharmed
        <5>3. QED
          BY <5>1, <5>2, <4>1, <3>2 DEF Disturbing, Unharmed
      <4>8. \A n \in 1..Len(left) : n = 1 /\ left[n] = c
        BY <4>1, <2>1, <2>5
      <4>9. \A n \in 1..Len(choices') : choices'[n] = c
        <5>1. c.kind # "call"
          BY <2>3 DEF Forms
        <5>2. QED
          BY <5>1, <4>8, <2>4, <3>2, ChoicesOutdated
      <4>10. Resumable(c)'
        BY <4>6, <2>3 DEF Resumable, InStep, Rest, Matches, Unifies, Forms
      <4>11. QED
        <5>1. \A n \in 1..Len(choices') : Resumable(choices[n])'
          <6> TAKE n \in 1..Len(choices')
          <6>1. choices'[n] = c
            BY <4>9
          <6>2. QED
            BY <6>1, <4>10 DEF Resumable, InStep, NotFreed, Matches, Unifies, Forms
        <5>2. QED
          BY <4>7, <5>1
    <3>11. QED
      BY <3>3, <3>6, <3>8, <3>9, <3>10 DEF PredInv
  <2>8. QED
    BY <2>6, <2>7
<1>3. QED
  BY <1>1, <1>2

(***************************************************************************)
(* The operations                                                          *)
(***************************************************************************)
\* The code of the clauses as they are
LEMMA CompiledTypes ==
  ASSUME BlocksOK, AreBlocks(clauses)
  PROVE  /\ Compiled \in Seq(Goals) /\ Len(Compiled) = Len(clauses)
         /\ \A k \in 1..Len(clauses) : Compiled[k] = stored[clauses[k]]
<1>1. /\ DOMAIN clauses = 1..Len(clauses) /\ Len(clauses) \in Nat
      /\ \A k \in 1..Len(clauses) : stored[clauses[k]] \in Goals
  BY DEF BlocksOK, AreBlocks
<1>2. Compiled = [k \in 1..Len(clauses) |-> stored[clauses[k]]]
  BY <1>1 DEF Compiled
<1>3. Compiled \in [1..Len(clauses) -> Goals]
  BY <1>1, <1>2
<1>4. QED
  BY <1>1, <1>2, <1>3

\* A sequence with one more element in front
LEMMA WithOneBefore ==
  ASSUME NEW s \in Seq(Nat), NEW n \in Nat, NEW all, all = <<n>> \o s
  PROVE  /\ all \in Seq(Nat) /\ Len(all) = Len(s) + 1
         /\ \A k \in 1..Len(all) : all[k] = IF k = 1 THEN n ELSE s[k - 1]
<1>1. PICK one : one = <<n>>
  OBVIOUS
<1>2. one \in Seq(Nat) /\ Len(one) = 1 /\ one[1] = n /\ Len(s) \in Nat
  BY <1>1
<1>3. /\ one \o s \in Seq(Nat) /\ Len(one \o s) = Len(one) + Len(s)
      /\ \A k \in 1..Len(one) + Len(s) : (one \o s)[k] = IF k <= Len(one) THEN one[k] ELSE s[k - Len(one)]
  BY <1>2, ConcatProperties
<1>4. all = one \o s
  BY <1>1
<1>5. QED
  BY <1>2, <1>3, <1>4

\* A new clause is listed once, and the choicepoints keep what they have.
LEMMA AddedClause ==
  ASSUME PredInv, Rigid, NEW text \in texts, UNCHANGED <<trail, freed>>,
         stored' = Append(stored, text.argument), asserted' = Append(asserted, text),
         NEW atEnd \in BOOLEAN,
         clauses' = IF atEnd THEN Append(clauses, Len(stored) + 1) ELSE <<Len(stored) + 1>> \o clauses
  PROVE  /\ BlocksOK' /\ ClausesOK' /\ Len(clauses') = Len(clauses) + 1
         /\ \A k \in 1..Len(clauses') :
              clauses'[k] = IF atEnd THEN IF k <= Len(clauses) THEN clauses[k] ELSE Len(stored) + 1
                                     ELSE IF k = 1 THEN Len(stored) + 1 ELSE clauses[k - 1]
         /\ \A chs : ChoicesOK(chs) => ChoicesOK(chs)'
<1>1. BlocksOK' /\ Len(stored') = Len(stored) + 1
  BY AssertingKeepsBlocks DEF PredInv
<1>2. /\ clauses \in Seq(Nat) /\ Len(clauses) \in Nat /\ Len(stored) \in Nat
      /\ \A k \in 1..Len(clauses) : clauses[k] \in 1..Len(stored)
  BY DEF PredInv, ClausesOK, AreBlocks, BlocksOK
<1>3. /\ clauses' \in Seq(Nat) /\ Len(clauses') = Len(clauses) + 1
      /\ \A k \in 1..Len(clauses') :
           clauses'[k] = IF atEnd THEN IF k <= Len(clauses) THEN clauses[k] ELSE Len(stored) + 1
                                  ELSE IF k = 1 THEN Len(stored) + 1 ELSE clauses[k - 1]
  <2>1. CASE atEnd
    BY <2>1, <1>2
  <2>2. CASE ~atEnd
    <3>1. PICK n, all : n = Len(stored) + 1 /\ all = <<n>> \o clauses
      OBVIOUS
    <3>2. n \in Nat /\ clauses \in Seq(Nat)
      BY <3>1, <1>2
    <3>3. /\ all \in Seq(Nat) /\ Len(all) = Len(clauses) + 1
          /\ \A k \in 1..Len(all) : all[k] = IF k = 1 THEN n ELSE clauses[k - 1]
      BY <3>1, <3>2, WithOneBefore
    <3>4. clauses' = all
      BY <2>2, <3>1
    <3>5. QED
      BY <2>2, <3>1, <3>3, <3>4
  <2>3. QED
    BY <2>1, <2>2
<1>4. AreBlocks(clauses)'
  <2>1. \A k \in 1..Len(clauses') : clauses'[k] \in 1..Len(stored) + 1
    <3>1. CASE atEnd
      BY <3>1, <1>2, <1>3
    <3>2. CASE ~atEnd
      <4> TAKE k \in 1..Len(clauses')
      <4>1. CASE k = 1
        BY <3>2, <4>1, <1>2, <1>3
      <4>2. CASE k # 1
        <5>1. k - 1 \in 1..Len(clauses) /\ clauses'[k] = clauses[k - 1]
          BY <3>2, <4>2, <1>2, <1>3
        <5>2. QED
          BY <5>1, <1>2
      <4>3. QED
        BY <4>1, <4>2
    <3>3. QED
      BY <3>1, <3>2
  <2>2. QED
    BY <2>1, <1>1, <1>3 DEF AreBlocks
<1>5. ListedOnce'
  <2>1. \A j, k \in 1..Len(clauses') : clauses'[j] = clauses'[k] => j = k
    <3>1. \A j, k \in 1..Len(clauses) : clauses[j] = clauses[k] => j = k
      BY DEF PredInv, ClausesOK, ListedOnce
    <3>2. CASE atEnd
      BY <3>1, <3>2, <1>2, <1>3
    <3>3. CASE ~atEnd
      <4>1. \A k \in 1..Len(clauses') : \/ k = 1 /\ clauses'[k] = Len(stored) + 1
                                        \/ k - 1 \in 1..Len(clauses) /\ clauses'[k] = clauses[k - 1]
        BY <3>3, <1>2, <1>3
      <4> SUFFICES ASSUME NEW j \in 1..Len(clauses'), NEW k \in 1..Len(clauses'), clauses'[j] = clauses'[k]
                   PROVE  j = k
        OBVIOUS
      <4>2. CASE j = 1
        <5>1. clauses'[k] = Len(stored) + 1
          BY <4>1, <4>2
        <5>2. \A m \in 1..Len(clauses) : clauses[m] # Len(stored) + 1
          BY <1>2
        <5>3. QED
          BY <5>1, <5>2, <4>1, <4>2
      <4>3. CASE j # 1 /\ k # 1
        <5>1. /\ j - 1 \in 1..Len(clauses) /\ k - 1 \in 1..Len(clauses)
              /\ clauses[j - 1] = clauses[k - 1]
          BY <4>1, <4>3
        <5>2. j - 1 = k - 1
          BY <5>1, <3>1
        <5>3. QED
          BY <5>2
      <4>4. CASE j # 1 /\ k = 1
        <5>1. PICK m \in 1..Len(clauses) : clauses[m] = Len(stored) + 1
          BY <4>1, <4>4
        <5>2. clauses[m] \in 1..Len(stored)
          BY <1>2
        <5>3. QED
          BY <5>1, <5>2, <1>2
      <4>5. QED
        BY <4>2, <4>3, <4>4
    <3>4. QED
      BY <3>2, <3>3
  <2>2. \A k \in 1..Len(clauses') : clauses'[k] \notin freed
    <3>1. \A k \in 1..Len(clauses) : clauses[k] \notin freed
      BY DEF PredInv, ClausesOK, ListedOnce
    <3>2. Len(stored) + 1 \notin freed
      BY <1>2 DEF PredInv, ClausesOK
    <3>3. QED
      BY <3>1, <3>2, <1>2, <1>3
  <2>3. QED
    BY <2>1, <2>2 DEF ListedOnce
<1>8. freed' \in SUBSET (1..Len(stored'))
  BY <1>1, <1>2 DEF PredInv, ClausesOK
<1>6. \A chs : ChoicesOK(chs) => ChoicesOK(chs)'
  BY <1>1, <1>2 DEF ChoicesOK, Choosing, Goals, Rigid, AreBlocks, arguments
<1>7. QED
  BY <1>1, <1>3, <1>4, <1>5, <1>6, <1>8 DEF ClausesOK

\* assert: the code is that of the clauses, and nobody careful goes on.
LEMMA AssertKeeps ==
  ASSUME PredInv, Rigid, NEW text \in texts, NEW atEnd \in BOOLEAN, Assert1(text, atEnd)
  PROVE  PredInv'
<1>1. /\ stored'  = Append(stored, text.argument) /\ asserted' = Append(asserted, text)
      /\ clauses' = IF atEnd THEN Append(clauses, Len(stored) + 1) ELSE <<Len(stored) + 1>> \o clauses
      /\ code'    = IF atEnd THEN Append(Compiled, text.argument) ELSE <<text.argument>> \o Compiled
      /\ choices' = Outdated(choices)
      /\ events'  = (events \ {"late"}) \cup Disturbing(choices)
      /\ UNCHANGED <<freed, trail>>
  BY DEF Assert1, AddBlock
<1>2. /\ BlocksOK' /\ ClausesOK' /\ Len(clauses') = Len(clauses) + 1
      /\ \A k \in 1..Len(clauses') :
           clauses'[k] = IF atEnd THEN IF k <= Len(clauses) THEN clauses[k] ELSE Len(stored) + 1
                                  ELSE IF k = 1 THEN Len(stored) + 1 ELSE clauses[k - 1]
      /\ \A chs : ChoicesOK(chs) => ChoicesOK(chs)'
  BY <1>1, AddedClause
<1>3. ChoicesOK(choices)'
  <2>1. PICK o : o = Outdated(choices)
    OBVIOUS
  <2>2. ChoicesOK(o)
    BY <2>1, ChoicesOutdated DEF PredInv
  <2>3. ChoicesOK(o)'
    BY <2>2, <1>2
  <2>4. QED
    BY <2>1, <2>3, <1>1 DEF ChoicesOK, AreBlocks
<1>4. PICK old, argument : old = Compiled /\ argument = text.argument
  OBVIOUS
<1>5. /\ old \in Seq(Goals) /\ Len(old) = Len(clauses) /\ Len(clauses) \in Nat
      /\ \A k \in 1..Len(clauses) : old[k] = stored[clauses[k]] /\ clauses[k] \in 1..Len(stored)
      /\ clauses \in Seq(Nat)
  BY <1>4, CompiledTypes DEF PredInv, ClausesOK, AreBlocks
<1>6. argument \in Goals /\ Goals' = Goals
  BY <1>4 DEF Goals, arguments, Rigid
<1>7. /\ code' \in Seq(Goals') /\ Len(code') = Len(clauses) + 1
      /\ \A k \in 1..Len(code') :
           code'[k] = IF atEnd THEN IF k <= Len(clauses) THEN old[k] ELSE argument
                               ELSE IF k = 1 THEN argument ELSE old[k - 1]
  <2>1. CASE atEnd
    <3>1. code' = Append(old, argument)
      BY <2>1, <1>1, <1>4
    <3>2. QED
      BY <2>1, <3>1, <1>5, <1>6
  <2>2. CASE ~atEnd
    <3>1. PICK s : s = <<argument>>
      OBVIOUS
    <3>2. s \in Seq(Goals) /\ Len(s) = 1 /\ s[1] = argument
      BY <3>1, <1>6
    <3>3. code' = s \o old
      BY <2>2, <3>1, <1>1, <1>4
    <3>4. /\ s \o old \in Seq(Goals) /\ Len(s \o old) = Len(s) + Len(old)
          /\ \A k \in 1..Len(s) + Len(old) :
               (s \o old)[k] = IF k <= Len(s) THEN s[k] ELSE old[k - Len(s)]
      <4>1. s \in Seq(Goals) /\ old \in Seq(Goals)
        BY <3>2, <1>5
      <4>2. QED
        BY <4>1, ConcatProperties
    <3>5. QED
      BY <2>2, <3>2, <3>3, <3>4, <1>5, <1>6
  <2>3. QED
    BY <2>1, <2>2
<1>8. CodeIsClauses'
  <2> SUFFICES ASSUME Plain PROVE code' = [k \in DOMAIN clauses' |-> asserted'[clauses'[k]].argument]
    BY DEF CodeIsClauses, Plain, Rigid, arguments
  <2>1. /\ asserted \in Seq(texts) /\ Len(asserted) = Len(stored)
        /\ \A b \in 1..Len(stored) : stored[b] = asserted[b].argument
    BY PlainIsUnbound DEF PredInv, BlocksOK
  <2>2. /\ asserted' \in Seq(texts) /\ Len(stored) \in Nat
        /\ \A b \in 1..Len(stored) : asserted'[b].argument = stored[b]
        /\ asserted'[Len(stored) + 1].argument = argument
    BY <2>1, <1>1, <1>4
  <2>3. \A k \in 1..Len(code') : code'[k] = asserted'[clauses'[k]].argument
    <3> TAKE k \in 1..Len(code')
    <3>1. CASE atEnd /\ k <= Len(clauses)
      <4>1. k \in 1..Len(clauses) /\ code'[k] = old[k] /\ clauses'[k] = clauses[k]
        BY <3>1, <1>2, <1>5, <1>7
      <4>2. QED
        BY <4>1, <2>2, <1>5
    <3>2. CASE atEnd /\ ~(k <= Len(clauses))
      BY <3>2, <2>2, <1>2, <1>5, <1>7
    <3>3. CASE ~atEnd /\ k = 1
      BY <3>3, <2>2, <1>2, <1>5, <1>7
    <3>4. CASE ~atEnd /\ k # 1
      <4>1. PICK j \in 1..Len(clauses) : j = k - 1
        BY <3>4, <1>5, <1>7
      <4>2. code'[k] = old[j] /\ clauses'[k] = clauses[j]
        BY <3>4, <4>1, <1>2, <1>7
      <4>3. QED
        BY <4>2, <2>2, <1>5
    <3>5. QED
      BY <3>1, <3>2, <3>3, <3>4
  <2>4. DOMAIN clauses' = 1..Len(code') /\ DOMAIN code' = 1..Len(code')
    BY <1>2, <1>5, <1>7 DEF ClausesOK, AreBlocks
  <2>5. code' = [k \in 1..Len(code') |-> code'[k]]
    BY <1>7, <2>4
  <2>6. QED
    BY <2>3, <2>4, <2>5
<1>9. ResumableWhenCareful'
  <2> SUFFICES ASSUME Careful'
               PROVE  /\ Unharmed(events')
                      /\ \A n \in 1..Len(choices') : Resumable(choices[n])'
    BY DEF ResumableWhenCareful, Unharmed
  <2>1. Careful /\ choices = <<>>
    BY <1>1 DEF Careful, Plain, Rigid, Disturbing, arguments
  <2>2. Len(choices') = 0
    BY <2>1, <1>1, ChoicesOutdated DEF PredInv
  <2>3. Unharmed(events')
    BY <2>1, <1>1 DEF PredInv, ResumableWhenCareful, Disturbing, Unharmed
  <2>4. QED
    BY <2>2, <2>3
<1>10. QED
  BY <1>2, <1>3, <1>7, <1>8, <1>9 DEF PredInv, CodeOK

\* A clause is consulted: code and choicepoints stay.
LEMMA ConsultKeeps ==
  ASSUME PredInv, Rigid, NEW text \in texts, Consult1(text)
  PROVE  PredInv'
<1>1. /\ stored'  = Append(stored, text.argument) /\ asserted' = Append(asserted, text)
      /\ clauses' = Append(clauses, Len(stored) + 1)
      /\ events'  = IF code = NotCompiled THEN events ELSE events \cup {"late"}
      /\ UNCHANGED <<freed, code, choices, trail>>
  BY DEF Consult1
<1>2. clauses' = IF TRUE THEN Append(clauses, Len(stored) + 1) ELSE <<Len(stored) + 1>> \o clauses
  BY <1>1
<1>3. /\ BlocksOK' /\ ClausesOK' /\ Len(clauses') = Len(clauses) + 1
      /\ \A k \in 1..Len(clauses') : clauses'[k] = IF k <= Len(clauses) THEN clauses[k] ELSE Len(stored) + 1
      /\ \A chs : ChoicesOK(chs) => ChoicesOK(chs)'
  BY <1>1, <1>2, AddedClause, TRUE \in BOOLEAN
<1>4. ChoicesOK(choices)'
  <2>1. PICK o : o = choices
    OBVIOUS
  <2>2. ChoicesOK(o)'
    BY <2>1, <1>3 DEF PredInv
  <2>3. QED
    BY <2>1, <2>2, <1>1 DEF ChoicesOK, AreBlocks
<1>5. CodeOK'
  BY <1>1 DEF PredInv, CodeOK, CodeIsClauses, Goals, Rigid, Plain, arguments
<1>6. ResumableWhenCareful'
  <2> SUFFICES ASSUME Careful'
               PROVE  /\ Unharmed(events')
                      /\ \A n \in 1..Len(choices') : Resumable(choices[n])'
    BY DEF ResumableWhenCareful, Unharmed
  <2>1. Careful
    BY <1>1 DEF Careful, Plain, Rigid, arguments
  <2>2. Unharmed(events') /\ \A n \in 1..Len(choices) : Resumable(choices[n])
    BY <2>1, <1>1 DEF PredInv, ResumableWhenCareful, Unharmed
  <2>3. /\ Len(clauses) \in Nat
        /\ \A k \in 1..Len(clauses) : /\ clauses'[k] = clauses[k]
                                      /\ stored'[clauses'[k]] = stored[clauses[k]]
                                      /\ asserted'[clauses'[k]] = asserted[clauses[k]]
    BY <1>1, <1>3 DEF PredInv, ClausesOK, AreBlocks, BlocksOK
  <2>4. ASSUME NEW form, NEW goal, NEW s, InStep(form, goal, s), s \in Seq(Nat)
        PROVE  InStep(form, goal, s)'
    <3>1. PICK p \in 0..Len(clauses) :
            /\ p + Len(s) <= Len(clauses)
            /\ \A k \in 1..Len(s) : s[k] = clauses[p + k]
            /\ \A j \in 1..p : ~Matches(form, goal, stored, clauses[j])
      BY <2>4 DEF InStep
    <3>2. p \in 0..Len(clauses') /\ p + Len(s) <= Len(clauses') /\ Len(s) \in Nat
      BY <3>1, <2>3, <2>4, <1>3
    <3>3. \A k \in 1..Len(s) : s[k] = clauses'[p + k]
      <4> TAKE k \in 1..Len(s)
      <4>1. p + k \in 1..Len(clauses)
        BY <3>1, <3>2, <2>3
      <4>2. QED
        BY <4>1, <3>1, <2>3
    <3>4. \A j \in 1..p : ~Matches(form, goal, stored, clauses[j])'
      <4> TAKE j \in 1..p
      <4>1. ~Matches(form, goal, stored, clauses[j]) /\ j \in 1..Len(clauses)
        BY <3>1, <2>3
      <4>2. QED
        BY <4>1, <2>3 DEF Matches, Unifies
    <3>5. QED
      BY <3>2, <3>3, <3>4 DEF InStep, Matches, Unifies
  <2>5. ASSUME NEW n \in 1..Len(choices)
        PROVE  Resumable(choices[n])'
    <3>1. PICK c : c = choices[n]
      OBVIOUS
    <3>2. Resumable(c) /\ (c.kind # "call" => c.rest \in Seq(Nat))
      BY <2>2, <3>1 DEF PredInv, ChoicesOK, AreBlocks
    <3>3. c.live /\ (c.kind = "clause" => NotFreed(c.rest)')
      BY <3>2, <1>1 DEF Resumable, NotFreed, Forms
    <3>4. c.kind \in Forms => InStep(c.kind, c.goal, c.rest)'
      <4> SUFFICES ASSUME c.kind \in Forms PROVE InStep(c.kind, c.goal, c.rest)'
        OBVIOUS
      <4>1. InStep(c.kind, c.goal, c.rest) /\ c.rest \in Seq(Nat)
        BY <3>2 DEF Resumable, Forms
      <4>2. PICK f, g, s : f = c.kind /\ g = c.goal /\ s = c.rest
        OBVIOUS
      <4>3. InStep(f, g, s)'
        BY <4>1, <4>2, <2>4
      <4>4. QED
        BY <4>2, <4>3
    <3>5. choices'[n] = c
      BY <3>1, <1>1
    <3>6. Resumable(c)'
      BY <3>3, <3>4 DEF Resumable, Forms
    <3>7. QED
      BY <3>5, <3>6 DEF Resumable, InStep, NotFreed, Matches, Unifies, Forms
  <2>6. QED
    BY <2>2, <2>5, <1>1
<1>7. QED
  BY <1>3, <1>4, <1>5, <1>6 DEF PredInv

\* abolish/1: everything that is freed was listed.
LEMMA AbolishKeeps ==
  ASSUME PredInv, Rigid, Abolish1
  PROVE  PredInv'
<1>1. /\ freed'   = freed \cup {clauses[k] : k \in DOMAIN clauses}
      /\ clauses' = <<>> /\ code' = NotCompiled
      /\ choices' = Outdated(choices)
      /\ \E harm \in {{}, {"abolished"}, {"abolished", "misused"}} :
           events' = (events \ {"late"}) \cup Disturbing(choices) \cup harm
      /\ UNCHANGED <<stored, asserted, trail>>
  BY DEF Abolish1
<1>2. BlocksOK'
  BY <1>1 DEF PredInv, BlocksOK, BindingsAreTrailed, Goals, Rigid, arguments
<1>3. ClausesOK'
  <2>1. \A k \in DOMAIN clauses : clauses[k] \in 1..Len(stored)
    BY DEF PredInv, ClausesOK, AreBlocks
  <2>2. freed' \in SUBSET (1..Len(stored'))
    BY <2>1, <1>1 DEF PredInv, ClausesOK
  <2>3. Len(clauses') = 0 /\ clauses' \in Seq(Nat) /\ DOMAIN clauses' = {}
    BY <1>1
  <2>4. QED
    BY <2>2, <2>3 DEF ClausesOK, ListedOnce, AreBlocks
<1>4. CodeOK'
  BY <1>1 DEF CodeOK, CodeIsClauses
<1>5. ChoicesOK(choices)'
  <2>1. PICK o : o = Outdated(choices)
    OBVIOUS
  <2>2. ChoicesOK(o)
    BY <2>1, ChoicesOutdated DEF PredInv
  <2>3. ChoicesOK(o)'
    BY <2>2, <1>1 DEF ChoicesOK, Choosing, Goals, Rigid, AreBlocks, arguments
  <2>4. QED
    BY <2>1, <2>3, <1>1 DEF ChoicesOK, AreBlocks
<1>6. ResumableWhenCareful'
  <2> SUFFICES ASSUME Careful'
               PROVE  /\ Unharmed(events')
                      /\ \A n \in 1..Len(choices') : Resumable(choices[n])'
    BY DEF ResumableWhenCareful, Unharmed
  <2>1. Careful /\ choices = <<>>
    BY <1>1 DEF Careful, Plain, Rigid, Disturbing, arguments
  <2>2. Len(choices') = 0
    BY <2>1, <1>1, ChoicesOutdated DEF PredInv
  <2>3. Unharmed(events')
    BY <2>1, <1>1 DEF PredInv, ResumableWhenCareful, Disturbing, Unharmed
  <2>4. QED
    BY <2>2, <2>3
<1>7. QED
  BY <1>2, <1>3, <1>4, <1>5, <1>6 DEF PredInv

\* A cut keeps the older choicepoints.
LEMMA CutKeeps ==
  ASSUME PredInv, Rigid, CutChoices
  PROVE  PredInv'
<1>1. PICK n \in 0..Len(choices) - 1 : choices' = SubSeq(choices, 1, n)
  BY DEF CutChoices
<1>2. UNCHANGED <<clauses, stored, asserted, freed, code, trail, events>>
  BY DEF CutChoices
<1>3. PICK chs : chs = SubSeq(choices, 1, n)
  OBVIOUS
<1>4. Len(choices) \in Nat /\ Len(chs) = n /\ \A k \in 1..n : chs[k] = choices[k]
  BY <1>3 DEF PredInv, ChoicesOK
<1>5. Below(chs)
  BY <1>3, <1>4, ChoicesPrefix DEF PredInv, Below, ResumableWhenCareful, Unharmed
<1>6. PICK none : none = <<>>
  OBVIOUS
<1>7. AreBlocks(none) /\ NotFreed(none)
  BY <1>6 DEF AreBlocks, NotFreed
<1>8. Var \in Goals /\ TryClause(Var, none, chs)
  BY <1>1, <1>2, <1>3, <1>6 DEF Goals, TryClause, arguments
<1>9. QED
  BY <1>2, <1>5, <1>7, <1>8, TryClauseKeeps

\* Backtracking repairs blocks.  Careful programs have nothing to repair.
LEMMA UndoKeeps ==
  ASSUME PredInv, Rigid, Undo
  PROVE  PredInv'
<1> DEFINE Mark == IF choices = <<>> THEN 0 ELSE choices[Len(choices)].trail
<1>1. PICK mark : mark = Mark
  OBVIOUS
<1>2. mark \in Nat
  <2>1. choices \in Seq(Choosing) /\ \A c \in Choosing : c.trail \in Nat
    BY DEF PredInv, ChoicesOK, Choosing
  <2>2. choices # <<>> => choices[Len(choices)] \in Choosing
    BY <2>1
  <2>3. QED
    BY <1>1, <2>1, <2>2
<1>3. /\ Len(trail) > mark
      /\ stored' = Unbound({trail[k] : k \in mark + 1..Len(trail)})
      /\ trail'  = SubSeq(trail, 1, mark)
      /\ events' = events \/ events' = events \cup {"misused"}
      /\ UNCHANGED <<clauses, asserted, freed, code, choices>>
  BY <1>1 DEF Undo
<1>4. BlocksOK' /\ Len(stored') = Len(stored)
  BY <1>2, <1>3, UndoKeepsBlocks DEF PredInv, BlocksOK
<1>5. "late" \in events' <=> "late" \in events
  BY <1>3
<1>6. ClausesOK' /\ CodeOK' /\ \A chs : ChoicesOK(chs) => ChoicesOK(chs)'
  BY <1>3, <1>4, <1>5, BindingKeepsTheRest
<1>7. ChoicesOK(choices)'
  <2>1. PICK chs : chs = choices
    OBVIOUS
  <2>2. ChoicesOK(chs)'
    BY <2>1, <1>6 DEF PredInv
  <2>3. QED
    BY <2>1, <2>2, <1>3 DEF ChoicesOK, AreBlocks
<1>8. ~Plain
  BY <1>2, <1>3, PlainIsUnbound DEF PredInv
<1>9. ResumableWhenCareful'
  BY <1>8 DEF ResumableWhenCareful, Careful, Plain, Rigid, arguments, Unharmed
<1>10. QED
  BY <1>4, <1>6, <1>7, <1>9 DEF PredInv

\* All choicepoints are below a new goal.
LEMMA AllBelow ==
  ASSUME PredInv
  PROVE  /\ Below(choices) /\ AreBlocks(clauses) /\ NotFreed(clauses)
         /\ \A form, goal : InStep(form, goal, clauses)
<1>1. Below(choices) /\ AreBlocks(clauses) /\ NotFreed(clauses)
  BY DEF PredInv, Below, ResumableWhenCareful, ClausesOK, ListedOnce, NotFreed, Unharmed
<1>2. Len(clauses) \in Nat
  BY <1>1 DEF AreBlocks
<1>3. QED
  BY <1>1, <1>2 DEF InStep

\* A call compiles the clauses if there is no code.
LEMMA CallKeeps ==
  ASSUME PredInv, Rigid, NEW goal \in Goals, CallPredicate(goal)
  PROVE  PredInv'
<1>1. /\ code' = IF code = NotCompiled THEN Compiled ELSE code
      /\ TryCall(goal, code', 1, choices) /\ UNCHANGED asserted
  BY DEF CallPredicate
<1>2. UNCHANGED <<clauses, stored, freed, trail, events>>
  BY <1>1 DEF TryCall
<1>3. /\ Compiled \in Seq(Goals) /\ Len(Compiled) = Len(clauses)
      /\ \A k \in 1..Len(clauses) : Compiled[k] = stored[clauses[k]]
  BY CompiledTypes DEF PredInv, ClausesOK
<1>4. code' \in Seq(Goals)
  BY <1>1, <1>3 DEF PredInv, CodeOK
<1>5. CodeIsClauses'
  <2>1. CASE code = NotCompiled
    <3>1. Plain => \A b \in 1..Len(stored) : stored[b] = asserted[b].argument
      BY PlainIsUnbound DEF PredInv
    <3>2. SUFFICES ASSUME Plain
                   PROVE  code' = [k \in DOMAIN clauses |-> asserted[clauses[k]].argument]
      BY <1>1, <1>2 DEF CodeIsClauses, Plain, Rigid, arguments
    <3>3. \A k \in DOMAIN clauses : clauses[k] \in 1..Len(stored)
      BY DEF PredInv, ClausesOK, AreBlocks
    <3>4. QED
      BY <2>1, <3>1, <3>2, <3>3, <1>1 DEF Compiled
  <2>2. CASE code # NotCompiled
    BY <2>2, <1>1, <1>2 DEF PredInv, CodeOK, CodeIsClauses, Plain, Rigid, arguments
  <2>3. QED
    BY <2>1, <2>2
<1>6. CodeOK'
  BY <1>4, <1>5 DEF CodeOK, Goals, Rigid, arguments
<1>7. PICK program, chs : program = code' /\ chs = choices
  OBVIOUS
<1>8. program \in Seq(Nat \cup Goals) /\ 1 \in Nat
  BY <1>4, <1>7
<1>9. Below(chs) /\ TryCall(goal, program, 1, chs)
  BY <1>1, <1>7, AllBelow DEF TryCall
<1>10. QED
  BY <1>1, <1>6, <1>8, <1>9, TryCallKeeps

\* clause/2 and retract/1 start with the clauses there are.
LEMMA GoalKeeps ==
  ASSUME PredInv, Rigid, NEW goal \in Goals, NEW form \in Forms, ClauseGoal(goal) \/ RetractGoal(form, goal)
  PROVE  PredInv'
<1>1. PICK snapshot, chs : snapshot = clauses /\ chs = choices
  OBVIOUS
<1>2. AreBlocks(snapshot) /\ NotFreed(snapshot) /\ InStep(form, goal, snapshot) /\ Below(chs)
  BY <1>1, AllBelow
<1>3. CASE ClauseGoal(goal)
  <2>1. TryClause(goal, snapshot, chs) /\ UNCHANGED asserted
    BY <1>1, <1>3 DEF ClauseGoal, TryClause
  <2>2. QED
    BY <1>2, <2>1, TryClauseKeeps
<1>4. CASE RetractGoal(form, goal)
  <2>1. TryRetract(form, goal, snapshot, chs) /\ UNCHANGED asserted
    BY <1>1, <1>4 DEF RetractGoal, TryRetract
  <2>2. QED
    BY <1>2, <2>1, TryRetractKeeps
<1>5. QED
  BY <1>3, <1>4

\* The newest choicepoint is tried.
LEMMA RetryKeeps ==
  ASSUME PredInv, Rigid, Retry
  PROVE  PredInv'
<1>1. PICK c, chs : c = choices[Len(choices)] /\ chs = SubSeq(choices, 1, Len(choices) - 1)
  OBVIOUS
<1>2. /\ \/ c.kind = "clause"  /\ TryClause(c.goal, c.rest, chs)
         \/ c.kind \in Forms /\ TryRetract(c.kind, c.goal, c.rest, chs)
         \/ c.kind = "call" /\ c.live /\ TryCall(c.goal, c.rest, 1, chs) /\ UNCHANGED code
         \/ /\ c.kind = "call" /\ ~c.live
            /\ choices' = chs /\ events' = events \cup {"misused"}
            /\ UNCHANGED <<clauses, stored, freed, code, trail>>
      /\ choices # <<>> /\ UNCHANGED asserted
  BY <1>1 DEF Retry
<1>3. /\ Len(choices) \in Nat \ {0} /\ Len(chs) = Len(choices) - 1
      /\ c \in Choosing /\ (c.kind # "call" => AreBlocks(c.rest))
      /\ \A k \in 1..Len(chs) : chs[k] = choices[k]
  <2>1. /\ choices \in Seq(Choosing) /\ Len(choices) \in Nat \ {0} /\ Len(choices) \in DOMAIN choices
        /\ \A n \in DOMAIN choices : choices[n].kind # "call" => AreBlocks(choices[n].rest)
    BY <1>2 DEF PredInv, ChoicesOK
  <2>2. c \in Choosing /\ (c.kind # "call" => AreBlocks(c.rest))
    BY <1>1, <2>1
  <2>3. Len(chs) = Len(choices) - 1 /\ \A k \in 1..Len(chs) : chs[k] = choices[k]
    <3>1. PICK n \in 0..Len(choices) : n = Len(choices) - 1
      <4>1. Len(choices) \in Nat \ {0}
        BY <2>1
      <4>2. Len(choices) - 1 \in 0..Len(choices)
        BY <4>1
      <4>3. QED
        BY <4>2
    <3>2. chs = SubSeq(choices, 1, n) /\ choices \in Seq(Choosing)
      BY <1>1, <2>1, <3>1
    <3>3. Len(chs) = n /\ \A k \in 1..n : chs[k] = choices[k]
      BY <3>2
    <3>4. QED
      BY <3>1, <3>3
  <2>4. QED
    BY <2>1, <2>2, <2>3
<1>4. ChoicesOK(chs)
  BY <1>1, <1>3, ChoicesPrefix DEF PredInv
<1>5. Below(chs) /\ (Careful => Resumable(c))
  BY <1>1, <1>3, <1>4 DEF PredInv, Below, ResumableWhenCareful, Unharmed
<1>6. PICK form, goal, rest : form = c.kind /\ goal = c.goal /\ rest = c.rest
  OBVIOUS
<1>7. goal \in Goals /\ rest \in Seq(Nat \cup Goals)
  BY <1>3, <1>6 DEF Choosing
<1>8. CASE c.kind = "clause"  /\ TryClause(c.goal, c.rest, chs)
  <2>1. AreBlocks(rest) /\ (Careful => NotFreed(rest))
    BY <1>3, <1>5, <1>6, <1>8 DEF Resumable, Forms
  <2>2. TryClause(goal, rest, chs)
    BY <1>6, <1>8
  <2>3. QED
    BY <1>2, <1>5, <1>7, <2>1, <2>2, TryClauseKeeps
<1>9. CASE c.kind \in Forms /\ TryRetract(c.kind, c.goal, c.rest, chs)
  <2>1. AreBlocks(rest) /\ (Careful => InStep(form, goal, rest))
    BY <1>3, <1>5, <1>6, <1>9 DEF Resumable, Forms
  <2>2. TryRetract(form, goal, rest, chs)
    BY <1>6, <1>9
  <2>3. form \in Forms
    BY <1>6, <1>9
  <2>4. QED
    BY <1>2, <1>5, <1>7, <2>1, <2>2, <2>3, TryRetractKeeps
<1>10. CASE c.kind = "call" /\ c.live /\ TryCall(c.goal, c.rest, 1, chs) /\ UNCHANGED code
  <2>1. UNCHANGED <<clauses, events, code, asserted>>
    BY <1>2, <1>10 DEF TryCall
  <2>2. CodeOK'
    BY <2>1 DEF PredInv, CodeOK, CodeIsClauses, Goals, Rigid, Plain, arguments
  <2>3. TryCall(goal, rest, 1, chs)
    BY <1>6, <1>10
  <2>4. QED
    BY <1>5, <1>7, <2>1, <2>2, <2>3, TryCallKeeps
<1>11. CASE /\ c.kind = "call" /\ ~c.live
            /\ choices' = chs /\ events' = events \cup {"misused"}
            /\ UNCHANGED <<clauses, stored, freed, code, trail>>
  <2>1. BlocksOK' /\ Len(stored') = Len(stored)
    BY <1>2, <1>11 DEF PredInv, BlocksOK, BindingsAreTrailed, Goals, Rigid, arguments
  <2>2. "late" \in events' <=> "late" \in events
    BY <1>11
  <2>3. ClausesOK' /\ CodeOK' /\ ChoicesOK(chs)'
    BY <1>2, <1>4, <1>11, <2>1, <2>2, BindingKeepsTheRest
  <2>4. ChoicesOK(choices)'
    BY <1>11, <2>3 DEF ChoicesOK, AreBlocks
  <2>5. ~Careful
    BY <1>5, <1>11 DEF Resumable, Forms
  <2>6. ~Careful'
    BY <2>5, <1>11 DEF Careful, Plain, Rigid, arguments
  <2>7. QED
    BY <2>1, <2>3, <2>4, <2>6 DEF PredInv, ResumableWhenCareful, Unharmed
<1>12. QED
  BY <1>2, <1>8, <1>9, <1>10, <1>11

(***************************************************************************)
(* The theorems                                                            *)
(***************************************************************************)
LEMMA InitIsPred == PredInit => PredInv
<1> SUFFICES ASSUME PredInit PROVE PredInv
  OBVIOUS
<1> USE DEF PredInit
<1>1. BlocksOK /\ ClausesOK
  BY DEF BlocksOK, BindingsAreTrailed, ClausesOK, ListedOnce, AreBlocks
<1>2. CodeOK
  BY DEF CodeOK, CodeIsClauses
<1>3. ChoicesOK(choices) /\ ResumableWhenCareful
  BY DEF ChoicesOK, ResumableWhenCareful, Unharmed
<1>4. QED
  BY <1>1, <1>2, <1>3 DEF PredInv

\* One step for each operation
LEMMA NextKeepsPred == PredInv /\ [PredNext]_predicateVars => PredInv'
<1> SUFFICES ASSUME PredInv, [PredNext]_predicateVars PROVE PredInv'
  OBVIOUS
<1>1. CASE UNCHANGED predicateVars
  <2>1. Rigid /\ UNCHANGED <<clauses, stored, asserted, freed, code, choices, trail, events>>
    BY <1>1 DEF predicateVars, Rigid
  <2>2. PICK none, chs : none = <<>> /\ chs = choices
    OBVIOUS
  <2>3. AreBlocks(none) /\ NotFreed(none) /\ Below(chs) /\ Var \in Goals
    BY <2>2, AllBelow DEF AreBlocks, NotFreed, Goals, arguments
  <2>4. TryClause(Var, none, chs)
    BY <2>1, <2>2 DEF TryClause
  <2>5. QED
    BY <2>1, <2>3, <2>4, TryClauseKeeps
<1>2. CASE PredNext
  <2>0. Rigid
    BY <1>2 DEF PredNext, Rigid
  <2>1. CASE \E t \in texts : Assert1(t, TRUE) \/ Assert1(t, FALSE) \/ Consult1(t)
    BY <2>0, <2>1, AssertKeeps, ConsultKeeps
  <2>2. CASE Abolish1
    BY <2>0, <2>2, AbolishKeeps
  <2>3. CASE \E g \in Goals : \/ CallPredicate(g) \/ ClauseGoal(g)
                               \/ \E f \in Forms : RetractGoal(f, g)
    <3>1. "fact" \in Forms
      BY DEF Forms
    <3>2. QED
      BY <2>0, <2>3, <3>1, CallKeeps, GoalKeeps
  <2>4. CASE CutChoices
    BY <2>0, <2>4, CutKeeps
  <2>5. CASE Undo
    BY <2>0, <2>5, UndoKeeps
  <2>6. CASE Retry
    BY <2>0, <2>6, RetryKeeps
  <2>7. QED
    BY <1>2, <2>1, <2>2, <2>3, <2>4, <2>5, <2>6 DEF PredNext
<1>3. QED
  BY <1>1, <1>2

\* The invariant holds of every state.
LEMMA PredInvHolds == PredSpec => []PredInv
<1>1. PredInit => PredInv
  BY InitIsPred
<1>2. PredInv /\ [PredNext]_predicateVars => PredInv'
  BY NextKeepsPred
<1>3. QED
  BY <1>1, <1>2, PTL DEF PredSpec

\* A call runs the code of the clauses as they were asserted, in their order, whatever
\* has been asserted, retracted and abolished, if clauses are plain and none was
\* consulted after the first call.
THEOREM CodeFollowsClauses == PredSpec => []CodeIsClauses
<1>1. PredInv => CodeIsClauses
  BY DEF PredInv, CodeOK
<1>2. QED
  BY <1>1, PredInvHolds, PTL

\* Whatever clause/2 and retract/1 bind in a clause is undone when they are backtracked
\* over: with nothing on the trail, the clauses are as they were asserted.
THEOREM ClausesAreRepaired == PredSpec => []ClausesRecover
<1>1. PredInv => ClausesRecover
  <2> SUFFICES ASSUME PredInv, trail = <<>>, NEW k \in DOMAIN clauses
               PROVE  stored[clauses[k]] = asserted[clauses[k]].argument
    BY DEF ClausesRecover
  <2>1. clauses[k] \in 1..Len(stored) /\ Len(trail) = 0
    BY DEF PredInv, ClausesOK, AreBlocks
  <2>2. QED
    BY <2>1 DEF PredInv, BlocksOK, BindingsAreTrailed
<1>2. QED
  BY <1>1, PredInvHolds, PTL

\* Programs with plain clauses that change p only when no other goal on p can be resumed,
\* and do not abolish it while it has clauses, read no freed clause and run no freed code,
\* although retract/1 goes through a snapshot of clauses while it frees them.
THEOREM NothingFreedIsUsed == PredSpec => []NoFreedUse
<1>1. PredInv => NoFreedUse
  BY DEF PredInv, ResumableWhenCareful, Unharmed, NoFreedUse
<1>2. QED
  BY <1>1, PredInvHolds, PTL

\* In such programs retract/1 deletes the very clause that its goal was unified with,
\* although it looks for it again from the start of the list.
THEOREM RetractDeletesItsClause == PredSpec => []RetractsItsClause
<1>1. PredInv => RetractsItsClause
  BY DEF PredInv, ResumableWhenCareful, Unharmed, RetractsItsClause
<1>2. QED
  BY <1>1, PredInvHolds, PTL
===============================================================================
