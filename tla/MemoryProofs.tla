----------------------------- MODULE MemoryProofs -----------------------------
(***************************************************************************)
(* The memory of the abstract machine, whatever its size and whatever the  *)
(* program.                                                                *)
(*                                                                         *)
(* 1. Nothing in use is overwritten: exits, last calls, cuts and           *)
(* backtracking move SP to where something ends.                           *)
(*                                                                         *)
(* 2. The clauses that are compiled for a call are freed at the right      *)
(* time.                                                                   *)
(***************************************************************************)
EXTENDS KernelProofs, Recursion

(***************************************************************************)
(* The frames reached through parent links                                 *)
(***************************************************************************)
AncestorsIn(fs, f) ==
  LET anc[a \in 0..StackSize] ==
        IF a \in DOMAIN fs THEN {a} \cup anc[fs[a].parent] ELSE {}
  IN  anc[f]

\* (The recursive function of AncestorsIn, as an operator the provers do not look into)
Lineage(h, fs) ==
  h = [a \in 0..StackSize |-> IF a \in DOMAIN fs THEN {a} \cup h[fs[a].parent] ELSE {}]

\* Parents lie below their children.
Rooted(fs) ==
  \A f \in DOMAIN fs : f \in 1..StackSize /\ fs[f].parent \in 0..StackSize /\ fs[f].parent < f

\* What one more address adds to the ancestors of those below it
Enter1(fs, k, x) == [x EXCEPT ![k] = IF k \in DOMAIN fs THEN {k} \cup x[fs[k].parent] ELSE {}]

\* The recursive function exists, because parents lie below.
LEMMA LineageExists ==
  ASSUME NEW fs, Rooted(fs)
  PROVE  \E h : Lineage(h, fs) /\ \A a : AncestorsIn(fs, a) = h[a]
<1>0. StackSize \in Nat
  BY BoundsAssumption
<1>1. PICK S : S = [0..StackSize -> SUBSET Nat]
  OBVIOUS
<1>2. PICK none : none = [a \in 0..StackSize |-> {}]
  OBVIOUS
<1>3. none \in S
  BY <1>1, <1>2
<1>4. ASSUME NEW k \in 1..StackSize, NEW x \in S
      PROVE  /\ Enter1(fs, k, x) \in S
             /\ Enter1(fs, k, x)[k] = IF k \in DOMAIN fs THEN {k} \cup x[fs[k].parent] ELSE {}
             /\ \A a \in 0..StackSize : a # k => Enter1(fs, k, x)[a] = x[a]
  <2>1. k \in 0..StackSize /\ k \in Nat
    BY <1>0
  <2>2. CASE k \in DOMAIN fs
    <3>1. fs[k].parent \in 0..StackSize
      BY <2>2 DEF Rooted
    <3>2. {k} \cup x[fs[k].parent] \in SUBSET Nat
      BY <1>1, <2>1, <3>1
    <3>3. QED
      BY <1>1, <2>1, <2>2, <3>2 DEF Enter1
  <2>3. CASE k \notin DOMAIN fs
    BY <1>1, <2>1, <2>3 DEF Enter1
  <2>4. QED
    BY <2>2, <2>3
<1>5. PICK step : step = [k \in 1..StackSize |-> [x \in S |-> Enter1(fs, k, x)]]
  OBVIOUS
<1>6. AreSteps(step, StackSize, S)
  BY <1>4, <1>5 DEF AreSteps
<1>7. PICK u : Unfolds(u, StackSize, S, none, step)
  BY <1>0, <1>3, <1>6, RecursiveFunction
<1>8. /\ \A k \in 0..StackSize : u[k] \in S
      /\ u[0] = none
      /\ \A k \in 1..StackSize : u[k] = Enter1(fs, k, u[k - 1]) /\ u[k - 1] \in S
  <2>1. u \in [0..StackSize -> S] /\ u[0] = none /\ \A k \in 1..StackSize : u[k] = step[k][u[k - 1]]
    BY <1>7 DEF Unfolds
  <2>2. \A k \in 1..StackSize : k - 1 \in 0..StackSize
    BY <1>0
  <2>3. QED
    BY <1>5, <2>1, <2>2
<1>9. ASSUME NEW a \in 0..StackSize
      PROVE  \A k \in 0..StackSize : a <= k => u[k][a] = u[a][a]
  <2>1. PICK P : P = {k \in 0..StackSize : a <= k => u[k][a] = u[a][a]}
    OBVIOUS
  <2>2. 0 \in P
    BY <1>0, <2>1
  <2>3. ASSUME NEW k \in 0..StackSize - 1, k \in P
        PROVE  k + 1 \in P
    <3>1. k + 1 \in 1..StackSize /\ k + 1 \in 0..StackSize /\ (k + 1) - 1 = k
      BY <1>0
    <3>2. CASE a = k + 1
      BY <2>1, <3>1, <3>2
    <3>3. CASE a # k + 1
      <4>1. u[k + 1][a] = u[k][a]
        <5>1. PICK j \in 1..StackSize : j = k + 1 /\ j - 1 = k
          BY <3>1
        <5>2. u[j] = Enter1(fs, j, u[k]) /\ u[k] \in S
          BY <1>8, <5>1
        <5>3. a # j => Enter1(fs, j, u[k])[a] = u[k][a]
          BY <1>4, <5>2
        <5>4. QED
          BY <3>3, <5>1, <5>2, <5>3
      <4>2. a <= k + 1 => a <= k
        BY <3>1, <3>3
      <4>3. QED
        BY <2>1, <2>3, <3>1, <4>1, <4>2
    <3>4. QED
      BY <3>2, <3>3
  <2>4. \A k \in 0..StackSize : k \in P
    BY <1>0, <2>2, <2>3, UpTo
  <2>5. QED
    BY <2>1, <2>4
<1>10. PICK h : h = [a \in 0..StackSize |-> u[a][a]]
  OBVIOUS
<1>11. ASSUME NEW a \in 0..StackSize
       PROVE  h[a] = IF a \in DOMAIN fs THEN {a} \cup h[fs[a].parent] ELSE {}
  <2>1. CASE a = 0
    <3>1. a \notin DOMAIN fs
      BY <2>1 DEF Rooted
    <3>2. QED
      BY <1>2, <1>8, <1>10, <2>1, <3>1
  <2>2. CASE a # 0
    <3>1. a \in 1..StackSize /\ a - 1 \in 0..StackSize
      BY <1>0, <2>2
    <3>2. h[a] = IF a \in DOMAIN fs THEN {a} \cup u[a - 1][fs[a].parent] ELSE {}
      BY <1>4, <1>8, <1>10, <3>1
    <3>3. ASSUME a \in DOMAIN fs
          PROVE  u[a - 1][fs[a].parent] = h[fs[a].parent]
      <4>1. fs[a].parent \in 0..StackSize /\ fs[a].parent <= a - 1
        BY <3>1, <3>3 DEF Rooted
      <4>2. QED
        BY <1>9, <1>10, <3>1, <4>1
    <3>4. QED
      BY <3>2, <3>3
  <2>3. QED
    BY <2>1, <2>2
<1>12. Lineage(h, fs)
  <2>1. h = [a \in 0..StackSize |-> h[a]]
    BY <1>10
  <2>2. QED
    BY <1>11, <2>1 DEF Lineage
<1>13. PICK g : g = CHOOSE k : Lineage(k, fs)
  OBVIOUS
<1>14. Lineage(g, fs)
  BY <1>12, <1>13
<1>15. \A a : AncestorsIn(fs, a) = g[a]
  BY <1>13 DEF AncestorsIn, Lineage
<1>16. QED
  BY <1>14, <1>15

\* The ancestors of a frame are the frame, and those of its parent.
LEMMA AncestorsStep ==
  ASSUME NEW fs, Rooted(fs)
  PROVE  /\ \A f \in DOMAIN fs : AncestorsIn(fs, f) = {f} \cup AncestorsIn(fs, fs[f].parent)
         /\ \A a \in 0..StackSize : a \notin DOMAIN fs => AncestorsIn(fs, a) = {}
<1>1. PICK h : Lineage(h, fs) /\ \A a : AncestorsIn(fs, a) = h[a]
  BY LineageExists
<1>2. \A a \in 0..StackSize : h[a] = IF a \in DOMAIN fs THEN {a} \cup h[fs[a].parent] ELSE {}
  BY <1>1 DEF Lineage
<1>3. \A f \in DOMAIN fs : f \in 0..StackSize
  BY BoundsAssumption DEF Rooted
<1>4. QED
  BY <1>1, <1>2, <1>3

\* Ancestors are frames, and lie below.
LEMMA AncestorsBelow ==
  ASSUME NEW fs, Rooted(fs)
  PROVE  \A a \in 0..StackSize : \A g \in AncestorsIn(fs, a) : g \in DOMAIN fs /\ g <= a
<1>0. StackSize \in Nat
  BY BoundsAssumption
<1>1. PICK P : P = {k \in 0..StackSize : \A a \in 0..k : \A g \in AncestorsIn(fs, a) : g \in DOMAIN fs /\ g <= a}
  OBVIOUS
<1>2. 0 \in P
  <2>1. \A a \in 0..0 : a = 0 /\ a \notin DOMAIN fs /\ a \in 0..StackSize
    BY <1>0 DEF Rooted
  <2>2. \A a \in 0..0 : AncestorsIn(fs, a) = {}
    BY <2>1, AncestorsStep
  <2>3. QED
    BY <1>0, <1>1, <2>2
<1>3. ASSUME NEW k \in 0..StackSize - 1, k \in P
      PROVE  k + 1 \in P
  <2>1. k + 1 \in 0..StackSize
    BY <1>0
  <2>2. ASSUME NEW a \in 0..k + 1, NEW g \in AncestorsIn(fs, a)
        PROVE  g \in DOMAIN fs /\ g <= a
    <3>1. CASE a \in 0..k
      BY <1>1, <1>3, <3>1
    <3>2. CASE a \notin 0..k
      <4>1. a = k + 1 /\ a \in 0..StackSize
        BY <1>0, <3>2
      <4>2. CASE a \notin DOMAIN fs
        BY <2>2, <4>1, <4>2, AncestorsStep
      <4>3. CASE a \in DOMAIN fs
        <5>1. fs[a].parent \in 0..k
          BY <4>1, <4>3 DEF Rooted
        <5>2. g = a \/ g \in AncestorsIn(fs, fs[a].parent)
          BY <2>2, <4>3, AncestorsStep
        <5>3. g \in AncestorsIn(fs, fs[a].parent) => g \in DOMAIN fs /\ g <= fs[a].parent
          BY <1>1, <1>3, <5>1
        <5>4. \A f \in DOMAIN fs : f \in Nat
          BY DEF Rooted
        <5>5. QED
          BY <4>1, <4>3, <5>1, <5>2, <5>3, <5>4
      <4>4. QED
        BY <4>2, <4>3
    <3>3. QED
      BY <3>1, <3>2
  <2>3. QED
    BY <1>1, <2>1, <2>2
<1>4. \A k \in 0..StackSize : k \in P
  BY <1>0, <1>2, <1>3, UpTo
<1>5. QED
  <2>1. StackSize \in P
    BY <1>0, <1>4
  <2>2. QED
    BY <1>1, <2>1

(***************************************************************************)
(* Sizes                                                                   *)
(***************************************************************************)
EndOf(fs, f) == f + 1 + fs[f].slotCount

\* What apply_choicepoint restores: a choicepoint that saves arguments was pushed over
\* its frame with nothing in between; another one has the size its frame still has.
Restores(fs, cs, c) ==
  /\ c.cleanup \in {Null, c.fr}
  /\ c.type = "Head"  => OnTop(fs, cs, c.fr, c.at)
  /\ c.type # "Head" => c.slotCount = fs[c.fr].slotCount

\* Frames and choicepoints lie one above the other, and below sp
Sized(fs, cs, sp) ==
  /\ \A f \in DOMAIN fs : EndOf(fs, f) <= sp
  /\ \A f, g \in DOMAIN fs : f < g => EndOf(fs, f) <= g
  /\ \A c \in cs : AfterChoice(c) <= sp
  /\ \A c \in cs, f \in DOMAIN fs : IF f < c.at THEN EndOf(fs, f) <= c.at ELSE AfterChoice(c) <= f
  /\ \A c, d \in cs : c.at < d.at => AfterChoice(c) <= d.at
  /\ \A c \in cs : Restores(fs, cs, c)

\* What MemoryInv adds to StackInv
SizeInv == Sized(frames, ElementsOf(cps), SP)

\* Addresses are numbers, and nothing is without a size.
Numbers(fs, cs) ==
  /\ \A f \in DOMAIN fs : f \in Nat /\ EndOf(fs, f) \in Nat /\ f < EndOf(fs, f)
  /\ \A c \in cs : /\ c.at \in Nat /\ c.fr \in Nat /\ AfterChoice(c) \in Nat /\ c.at < AfterChoice(c)
                   /\ c.fr \in DOMAIN fs /\ c.fr < c.at

\* What is on the stack has numbers for addresses, and lies above its frame.
LEMMA StackNumbers ==
  ASSUME NEW fs, NEW s, Stacked(fs, s)
  PROVE  Numbers(fs, ElementsOf(s))
<1>1. \A f \in DOMAIN fs : f \in Nat /\ fs[f].slotCount \in Nat
  BY BoundsAssumption DEF Stacked, FramesIn, FrameType
<1>2. \A c \in ElementsOf(s) : c \in ChoiceType
  BY ChoicesAreTyped DEF Stacked
<1>3. \A c \in ChoiceType : c.at \in Nat /\ c.fr \in Nat /\ AfterChoice(c) \in Nat /\ c.at < AfterChoice(c)
  BY BoundsAssumption DEF ChoiceType, AfterChoice
<1>4. \A c \in ElementsOf(s) : c.fr \in DOMAIN fs /\ c.fr < c.at
  BY DEF Stacked, StackOK, ChoiceOK
<1>5. QED
  BY <1>1, <1>2, <1>3, <1>4 DEF Numbers, EndOf

\* The upper part of the stack is given up, down to where something ends.
LEMMA SizedBelow ==
  ASSUME NEW fs, NEW cs, NEW sp \in Nat, Numbers(fs, cs), Sized(fs, cs, sp),
         NEW new \in Nat, \A f \in DOMAIN fs : f < new => EndOf(fs, f) <= new,
         NEW gs, DOMAIN gs = {f \in DOMAIN fs : f < new},
         \A f \in DOMAIN gs : gs[f].slotCount = fs[f].slotCount,
         NEW ds \in SUBSET cs, \A d \in ds : AfterChoice(d) <= new
  PROVE  Sized(gs, ds, new) /\ Numbers(gs, ds)
<1>1. \A f \in DOMAIN gs : f \in DOMAIN fs /\ f < new /\ EndOf(gs, f) = EndOf(fs, f)
  BY DEF EndOf
<1>2. \A d \in ds : d.fr \in DOMAIN gs
  BY DEF Numbers
<1>3. \A d \in ds : Restores(gs, ds, d)
  <2>1. ASSUME NEW d \in ds
        PROVE  Restores(gs, ds, d)
    <3>1. Restores(fs, cs, d)
      BY DEF Sized
    <3>2. OnTop(fs, cs, d.fr, d.at) => OnTop(gs, ds, d.fr, d.at)
      BY <1>1 DEF OnTop
    <3>3. gs[d.fr].slotCount = fs[d.fr].slotCount
      BY <1>2
    <3>4. QED
      BY <3>1, <3>2, <3>3 DEF Restores
  <2>2. QED
    BY <2>1
<1>4. QED
  BY <1>1, <1>2, <1>3 DEF Sized, Numbers

\* A choicepoint is pushed.
LEMMA SizedChoice ==
  ASSUME NEW fs, NEW cs, NEW sp \in Nat, Numbers(fs, cs), Sized(fs, cs, sp),
         NEW c, c.at = sp, c.fr \in DOMAIN fs, AfterChoice(c) \in Nat, c.at < AfterChoice(c),
         c.cleanup \in {Null, c.fr},
         c.type = "Head" => OnTop(fs, cs, c.fr, sp),
         c.type # "Head" => c.slotCount = fs[c.fr].slotCount
  PROVE  Sized(fs, cs \cup {c}, AfterChoice(c)) /\ Numbers(fs, cs \cup {c})
<1>1. \A f \in DOMAIN fs : f \in Nat /\ EndOf(fs, f) \in Nat /\ f < EndOf(fs, f) /\ EndOf(fs, f) <= sp
  BY DEF Numbers, Sized
<1>2. \A d \in cs : d.at \in Nat /\ AfterChoice(d) \in Nat /\ d.at < AfterChoice(d) /\ AfterChoice(d) <= sp
  BY DEF Numbers, Sized
<1>3. Numbers(fs, cs \cup {c})
  BY <1>1 DEF Numbers
<1>4. \A d \in cs \cup {c} : Restores(fs, cs \cup {c}, d)
  <2>1. ASSUME NEW d \in cs
        PROVE  Restores(fs, cs \cup {c}, d)
    <3>1. Restores(fs, cs, d) /\ ~(c.at < d.at)
      BY <1>2 DEF Sized
    <3>2. QED
      BY <3>1 DEF Restores, OnTop
  <2>2. Restores(fs, cs \cup {c}, c)
    BY DEF Restores, OnTop
  <2>3. QED
    BY <2>1, <2>2
<1>5. \A d \in cs \cup {c}, f \in DOMAIN fs : IF f < d.at THEN EndOf(fs, f) <= d.at ELSE AfterChoice(d) <= f
  <2>1. \A f \in DOMAIN fs : f < c.at /\ EndOf(fs, f) <= c.at
    BY <1>1
  <2>2. QED
    BY <2>1 DEF Sized
<1>6. \A d, e \in cs \cup {c} : d.at < e.at => AfterChoice(d) <= e.at
  BY <1>2 DEF Sized
<1>7. \A d \in cs \cup {c} : AfterChoice(d) <= AfterChoice(c)
  BY <1>2
<1>8. \A f \in DOMAIN fs : EndOf(fs, f) <= AfterChoice(c)
  BY <1>1
<1>9. \A f, g \in DOMAIN fs : f < g => EndOf(fs, f) <= g
  BY DEF Sized
<1>10. QED
  BY <1>3, <1>4, <1>5, <1>6, <1>7, <1>8, <1>9 DEF Sized

\* A frame is pushed.
LEMMA SizedPush ==
  ASSUME NEW fs, NEW cs, NEW at \in Nat, Numbers(fs, cs), Sized(fs, cs, at),
         NEW b, NEW n \in Nat, b.slotCount = n
  PROVE  Sized(Put(fs, at, b), cs, at + 1 + n) /\ Numbers(Put(fs, at, b), cs)
<1> DEFINE gs == Put(fs, at, b)
<1>1. \A f \in DOMAIN fs : f \in Nat /\ EndOf(fs, f) \in Nat /\ f < EndOf(fs, f) /\ EndOf(fs, f) <= at
  BY DEF Numbers, Sized
<1>2. at \notin DOMAIN fs
  BY <1>1
<1>3. /\ DOMAIN gs = DOMAIN fs \cup {at} /\ gs[at] = b
      /\ \A f \in DOMAIN fs : gs[f] = fs[f]
  BY <1>2 DEF Put
<1>4. EndOf(gs, at) = at + 1 + n /\ \A f \in DOMAIN fs : EndOf(gs, f) = EndOf(fs, f)
  BY <1>3 DEF EndOf
<1> HIDE DEF gs
<1>5. \A d \in cs : /\ d.at \in Nat /\ AfterChoice(d) \in Nat /\ d.at < AfterChoice(d) /\ AfterChoice(d) <= at
                    /\ d.fr \in DOMAIN fs
  BY DEF Numbers, Sized
<1>6. \A d \in cs : Restores(gs, cs, d)
  <2>1. ASSUME NEW d \in cs
        PROVE  Restores(gs, cs, d)
    <3>1. Restores(fs, cs, d) /\ d.at <= at /\ d.fr \in DOMAIN fs
      BY <1>5 DEF Sized
    <3>2. QED
      BY <1>3, <3>1 DEF Restores, OnTop
  <2>2. QED
    BY <2>1
<1>7. \A f, g \in DOMAIN gs : f < g => EndOf(gs, f) <= g
  <2>1. ASSUME NEW f \in DOMAIN gs, NEW g \in DOMAIN gs, f < g
        PROVE  EndOf(gs, f) <= g
    <3>1. f \in DOMAIN fs
      BY <1>1, <1>3, <2>1
    <3>2. CASE g = at
      BY <1>1, <1>4, <3>1, <3>2
    <3>3. CASE g \in DOMAIN fs
      BY <1>4, <2>1, <3>1, <3>3 DEF Sized
    <3>4. QED
      BY <1>3, <3>2, <3>3
  <2>2. QED
    BY <2>1
<1>8. \A d \in cs, f \in DOMAIN gs : IF f < d.at THEN EndOf(gs, f) <= d.at ELSE AfterChoice(d) <= f
  <2>1. ASSUME NEW d \in cs, NEW f \in DOMAIN gs
        PROVE  IF f < d.at THEN EndOf(gs, f) <= d.at ELSE AfterChoice(d) <= f
    <3>1. CASE f = at
      <4>1. ~(at < d.at) /\ AfterChoice(d) <= at
        BY <1>5
      <4>2. QED
        BY <3>1, <4>1
    <3>2. CASE f \in DOMAIN fs
      BY <1>4, <3>2 DEF Sized
    <3>3. QED
      BY <1>3, <3>1, <3>2
  <2>2. QED
    BY <2>1
<1>9. /\ \A f \in DOMAIN gs : f \in Nat /\ EndOf(gs, f) \in Nat /\ f < EndOf(gs, f) /\ EndOf(gs, f) <= at + 1 + n
      /\ \A d \in cs : AfterChoice(d) <= at + 1 + n
  BY <1>1, <1>3, <1>4, <1>5
<1>10. Numbers(gs, cs)
  BY <1>3, <1>9 DEF Numbers
<1>11. \A d, e \in cs : d.at < e.at => AfterChoice(d) <= e.at
  BY DEF Sized
<1>12. QED
  BY <1>6, <1>7, <1>8, <1>9, <1>10, <1>11 DEF Sized, gs

\* A choicepoint is applied that gives its frame another size.
LEMMA SizedResume ==
  ASSUME NEW fs, NEW cs, NEW sp \in Nat, Numbers(fs, cs), Sized(fs, cs, sp),
         NEW c \in cs, c.type = "Head",
         NEW gs, DOMAIN gs = {f \in DOMAIN fs : f < c.at},
         \A f \in DOMAIN gs : f # c.fr => gs[f].slotCount = fs[f].slotCount,
         NEW n \in Nat, gs[c.fr].slotCount = n
  PROVE  Sized(gs, {d \in cs : d.at < c.at}, c.fr + 1 + n) /\ Numbers(gs, {d \in cs : d.at < c.at})
<1> DEFINE ds == {d \in cs : d.at < c.at}
           g  == c.fr
<1>1. /\ g \in DOMAIN fs /\ g \in Nat /\ g < c.at /\ c.at \in Nat
      /\ OnTop(fs, cs, g, c.at)
  BY DEF Numbers, Sized, Restores
<1>2. /\ \A f \in DOMAIN fs : f \in Nat /\ EndOf(fs, f) \in Nat /\ f < EndOf(fs, f)
      /\ \A d \in cs : /\ d.at \in Nat /\ d.fr \in Nat /\ AfterChoice(d) \in Nat /\ d.at < AfterChoice(d)
                       /\ d.fr \in DOMAIN fs /\ d.fr < d.at
  BY DEF Numbers
<1>3. /\ g \in DOMAIN gs
      /\ \A f \in DOMAIN gs : f \in DOMAIN fs /\ (f < g \/ f = g)
      /\ \A d \in ds : d \in cs /\ d.at < g
  BY <1>1, <1>2 DEF OnTop
<1>4. /\ EndOf(gs, g) = g + 1 + n
      /\ \A f \in DOMAIN gs : f # g => EndOf(gs, f) = EndOf(fs, f) /\ EndOf(gs, f) <= g
      /\ \A d \in ds : AfterChoice(d) <= g
  <2>1. \A f \in DOMAIN fs : f < g => EndOf(fs, f) <= g
    BY <1>1 DEF Sized
  <2>2. \A d \in ds : AfterChoice(d) <= g
    <3>1. \A d \in ds : IF g < d.at THEN EndOf(fs, g) <= d.at ELSE AfterChoice(d) <= g
      BY <1>1, <1>3 DEF Sized
    <3>2. QED
      BY <1>1, <1>2, <1>3, <3>1
  <2>3. QED
    BY <1>1, <1>3, <2>1, <2>2 DEF EndOf
<1>5. \A d \in ds : d.fr < g /\ d.fr \in DOMAIN gs
  BY <1>1, <1>2, <1>3
<1> HIDE DEF ds, g
<1>6. \A d \in ds : Restores(gs, ds, d)
  <2>1. ASSUME NEW d \in ds
        PROVE  Restores(gs, ds, d)
    <3>1. Restores(fs, cs, d)
      BY <1>3 DEF Sized
    <3>2. gs[d.fr].slotCount = fs[d.fr].slotCount
      BY <1>1, <1>3, <1>5 DEF g
    <3>3. OnTop(fs, cs, d.fr, d.at) => OnTop(gs, ds, d.fr, d.at)
      BY <1>3 DEF OnTop
    <3>4. QED
      BY <3>1, <3>2, <3>3 DEF Restores
  <2>2. QED
    BY <2>1
<1>7. /\ \A f \in DOMAIN gs : f \in Nat /\ EndOf(gs, f) \in Nat /\ f < EndOf(gs, f) /\ EndOf(gs, f) <= g + 1 + n
      /\ \A d \in ds : AfterChoice(d) <= g + 1 + n
  BY <1>1, <1>2, <1>3, <1>4
<1>8. \A f, e \in DOMAIN gs : f < e => EndOf(gs, f) <= e
  <2>1. ASSUME NEW f \in DOMAIN gs, NEW e \in DOMAIN gs, f < e
        PROVE  EndOf(gs, f) <= e
    <3>1. f # g /\ f \in DOMAIN fs /\ e \in DOMAIN fs
      BY <1>1, <1>2, <1>3, <2>1
    <3>2. QED
      BY <1>4, <2>1, <3>1 DEF Sized
  <2>2. QED
    BY <2>1
<1>9. \A d \in ds, f \in DOMAIN gs : IF f < d.at THEN EndOf(gs, f) <= d.at ELSE AfterChoice(d) <= f
  <2>1. ASSUME NEW d \in ds, NEW f \in DOMAIN gs
        PROVE  IF f < d.at THEN EndOf(gs, f) <= d.at ELSE AfterChoice(d) <= f
    <3>1. CASE f = g
      <4>1. ~(g < d.at)
        BY <1>1, <1>2, <1>3
      <4>2. QED
        BY <1>4, <3>1, <4>1
    <3>2. CASE f # g
      BY <1>3, <1>4, <3>2 DEF Sized
    <3>3. QED
      BY <3>1, <3>2
  <2>2. QED
    BY <2>1
<1>10. \A d, e \in ds : d.at < e.at => AfterChoice(d) <= e.at
  BY <1>3 DEF Sized
<1>11. Numbers(gs, ds)
  BY <1>2, <1>3, <1>5, <1>7 DEF Numbers
<1>12. QED
  BY <1>6, <1>7, <1>8, <1>9, <1>10, <1>11 DEF Sized, ds, g

(***************************************************************************)
(* Where something ends                                                    *)
(***************************************************************************)
Boundary(fs, cs, new) ==
  /\ new \in Nat
  /\ \A f \in DOMAIN fs : f < new => EndOf(fs, f) <= new
  /\ \A c \in cs : c.at < new => AfterChoice(c) <= new

\* The stack can be cut off above a frame, and above a choicepoint.
LEMMA FrameBoundary ==
  ASSUME NEW fs, NEW cs, NEW sp, Numbers(fs, cs), Sized(fs, cs, sp), NEW g \in DOMAIN fs
  PROVE  Boundary(fs, cs, EndOf(fs, g)) /\ g < EndOf(fs, g)
<1> DEFINE new == EndOf(fs, g)
<1>1. /\ \A f \in DOMAIN fs : f \in Nat /\ EndOf(fs, f) \in Nat /\ f < EndOf(fs, f)
      /\ \A c \in cs : c.at \in Nat /\ AfterChoice(c) \in Nat /\ c.at < AfterChoice(c)
  BY DEF Numbers
<1>2. \A f \in DOMAIN fs : (f < g => EndOf(fs, f) <= g) /\ (g < f => new <= f)
  BY DEF Sized
<1>3. \A c \in cs : IF g < c.at THEN new <= c.at ELSE AfterChoice(c) <= g
  BY DEF Sized
<1>4. new \in Nat /\ g < new /\ g \in Nat
  BY <1>1
<1>5. \A f \in DOMAIN fs : f < new => EndOf(fs, f) <= new
  <2>1. ASSUME NEW f \in DOMAIN fs, f < new
        PROVE  EndOf(fs, f) <= new
    <3>1. f \in Nat /\ EndOf(fs, f) \in Nat
      BY <1>1
    <3>2. ~(g < f)
      BY <1>2, <1>4, <2>1, <3>1
    <3>3. f = g \/ f < g
      BY <1>4, <3>1, <3>2
    <3>4. f = g => EndOf(fs, f) = new
      OBVIOUS
    <3> HIDE DEF new
    <3>5. QED
      BY <1>2, <1>4, <3>1, <3>3, <3>4
  <2>2. QED
    BY <2>1
<1> HIDE DEF new
<1>6. \A c \in cs : c.at < new => AfterChoice(c) <= new
  BY <1>1, <1>3, <1>4
<1>7. QED
  BY <1>4, <1>5, <1>6 DEF Boundary, new

\* Nothing extends across the end of a choicepoint.
LEMMA ChoiceBoundary ==
  ASSUME NEW fs, NEW cs, NEW sp, Numbers(fs, cs), Sized(fs, cs, sp), NEW c \in cs,
         \A d \in cs : d.at = c.at => d = c
  PROVE  Boundary(fs, cs, AfterChoice(c)) /\ c.at < AfterChoice(c)
<1> DEFINE new == AfterChoice(c)
<1>1. /\ \A f \in DOMAIN fs : f \in Nat /\ EndOf(fs, f) \in Nat /\ f < EndOf(fs, f)
      /\ \A d \in cs : d.at \in Nat /\ AfterChoice(d) \in Nat /\ d.at < AfterChoice(d)
  BY DEF Numbers
<1>2. \A d \in cs : (d.at < c.at => AfterChoice(d) <= c.at) /\ (c.at < d.at => new <= d.at)
  BY DEF Sized
<1>3. \A f \in DOMAIN fs : IF f < c.at THEN EndOf(fs, f) <= c.at ELSE new <= f
  BY DEF Sized
<1>4. new \in Nat /\ c.at < new /\ c.at \in Nat
  BY <1>1
<1>5. \A d \in cs : d.at < new => AfterChoice(d) <= new
  <2>1. ASSUME NEW d \in cs, d.at < new
        PROVE  AfterChoice(d) <= new
    <3>1. d.at \in Nat /\ AfterChoice(d) \in Nat
      BY <1>1
    <3>2. ~(c.at < d.at)
      BY <1>2, <1>4, <2>1, <3>1
    <3>3. d.at = c.at \/ d.at < c.at
      BY <1>4, <3>1, <3>2
    <3>4. d.at = c.at => AfterChoice(d) = new
      OBVIOUS
    <3> HIDE DEF new
    <3>5. QED
      BY <1>2, <1>4, <3>1, <3>3, <3>4
  <2>2. QED
    BY <2>1
<1> HIDE DEF new
<1>6. \A f \in DOMAIN fs : f < new => EndOf(fs, f) <= new
  BY <1>1, <1>3, <1>4
<1>7. QED
  BY <1>4, <1>5, <1>6 DEF Boundary, new

\* ... and where it ends already.
LEMMA TopBoundary ==
  ASSUME NEW fs, NEW cs, NEW sp \in Nat, Sized(fs, cs, sp)
  PROVE  Boundary(fs, cs, sp)
  BY DEF Sized, Boundary

\* What is above such a place is given up.
LEMMA SizedCutOff ==
  ASSUME NEW fs, NEW cs, NEW sp \in Nat, Numbers(fs, cs), Sized(fs, cs, sp),
         NEW new, Boundary(fs, cs, new),
         NEW gs, DOMAIN gs = {f \in DOMAIN fs : f < new},
         \A f \in DOMAIN gs : gs[f].slotCount = fs[f].slotCount,
         NEW ds \in SUBSET cs, \A d \in ds : d.at < new
  PROVE  Sized(gs, ds, new) /\ Numbers(gs, ds)
<1>1. new \in Nat /\ (\A f \in DOMAIN fs : f < new => EndOf(fs, f) <= new)
      /\ \A d \in ds : AfterChoice(d) <= new
  BY DEF Boundary
<1>2. QED
  BY <1>1, SizedBelow

\* The slots and owners of frames are kept when the stack is cut off.
LEMMA BelowKeepsSlots ==
  ASSUME NEW fs, NEW sp, NEW gone
  PROVE  /\ DOMAIN Below(sp, fs) = {f \in DOMAIN fs : f < sp}
         /\ \A f \in DOMAIN Below(sp, fs) : Below(sp, fs)[f] = fs[f]
         /\ DOMAIN Disowned(fs, gone) = DOMAIN fs
         /\ DOMAIN Below(sp, Disowned(fs, gone)) = {f \in DOMAIN fs : f < sp}
         /\ \A f \in DOMAIN Below(sp, Disowned(fs, gone)) :
              Below(sp, Disowned(fs, gone))[f] = Disowned(fs, gone)[f]
  BY DEF Below, Disowned

\* Giving up a clause leaves the size of the frame alone.
LEMMA DisownedSlots ==
  ASSUME NEW fs, FramesIn(fs), NEW gone
  PROVE  \A f \in DOMAIN fs : Disowned(fs, gone)[f].slotCount = fs[f].slotCount
<1>1. \A a \in FrameType : [a EXCEPT !.isLocal = FALSE].slotCount = a.slotCount
  BY DEF FrameType
<1>2. QED
  BY <1>1 DEF Disowned, FramesIn

(***************************************************************************)
(* The instructions                                                        *)
(***************************************************************************)
SizesStay == Sized(frames', ElementsOf(cps'), SP')

\* Choicepoints in an ascending chain have different addresses.
LEMMA AscendingOnce ==
  ASSUME NEW s \in Seq(ChoiceType), Ascending(s)
  PROVE  \A c, d \in ElementsOf(s) : c.at = d.at => c = d
<1>1. Len(s) \in Nat /\ DOMAIN s = 1..Len(s) /\ \A i \in 1..Len(s) : s[i] \in ChoiceType
  BY LenProperties, ElementOfSeq
<1>2. \A i \in 1..Len(s) : s[i].at \in Nat
  BY <1>1 DEF ChoiceType
<1>3. ASSUME NEW i \in 1..Len(s), NEW j \in 1..Len(s), s[i].at = s[j].at
      PROVE  i = j
  <2>1. ~(i < j) /\ ~(j < i)
    BY <1>1, <1>2, <1>3 DEF Ascending
  <2>2. QED
    BY <2>1
<1>4. QED
  BY <1>1, <1>3 DEF ElementsOf

\* The choicepoints when one more is pushed
LEMMA ElementsAppended ==
  ASSUME NEW s \in Seq(ChoiceType), NEW c
  PROVE  ElementsOf(Append(s, c)) = ElementsOf(s) \cup {c}
<1>1. PICK S : S = ChoiceType \cup {c}
  OBVIOUS
<1>2. s \in Seq(S) /\ c \in S
  BY <1>1, SeqMonotonic
<1>3. Len(s) \in Nat /\ DOMAIN s = 1..Len(s)
  BY LenProperties
<1>4. /\ DOMAIN Append(s, c) = 1..Len(s) + 1
      /\ \A i \in 1..Len(s) : Append(s, c)[i] = s[i]
      /\ Append(s, c)[Len(s) + 1] = c
  BY <1>2, AppendProperties, LenProperties
<1>5. /\ \A i \in 1..Len(s) + 1 : i \in 1..Len(s) \/ i = Len(s) + 1
      /\ Len(s) + 1 \in 1..Len(s) + 1 /\ \A i \in 1..Len(s) : i \in 1..Len(s) + 1
  BY <1>3
<1>6. ElementsOf(Append(s, c)) \subseteq ElementsOf(s) \cup {c}
  BY <1>3, <1>4, <1>5 DEF ElementsOf
<1>7. ElementsOf(s) \subseteq ElementsOf(Append(s, c))
  BY <1>3, <1>4, <1>5 DEF ElementsOf
<1>8. c \in ElementsOf(Append(s, c))
  BY <1>4, <1>5 DEF ElementsOf
<1>9. QED
  BY <1>6, <1>7, <1>8

\* What a running machine provides
LEMMA RunningProvides ==
  ASSUME CanRun
  PROVE  /\ Numbers(frames, ElementsOf(cps)) /\ Stacked(frames, cps)
         /\ FramesIn(frames) /\ cps \in Seq(ChoiceType) /\ Ascending(cps)
         /\ FR \in DOMAIN frames /\ FR \in Nat /\ SP \in Nat /\ FR < SP
         /\ frames[FR].slotCount \in 0..MaxSlots /\ frames[FR].clause \in 0..MaxLocals
         /\ Place(frames, ElementsOf(cps), FR, pos, SP)
         /\ frames[FR].kind # "query" =>
              frames[FR].parent \in DOMAIN frames /\ 0 < frames[FR].parent
         /\ \A c, d \in ElementsOf(cps) : c.at = d.at => c = d
         /\ Len(cps) \in Nat /\ DOMAIN cps = 1..Len(cps)
<1>1. Stacked(frames, cps)
  BY DEF CanRun, Ready
<1>2. /\ FramesIn(frames) /\ cps \in Seq(ChoiceType) /\ Ascending(cps)
      /\ FR \in DOMAIN frames /\ FR \in Nat /\ SP \in Nat /\ FR < SP
      /\ frames[FR] \in FrameType
      /\ Place(frames, ElementsOf(cps), FR, pos, SP)
  BY ReadyProvides DEF CanRun
<1>3. frames[FR].slotCount \in 0..MaxSlots /\ frames[FR].clause \in 0..MaxLocals
  BY <1>2 DEF FrameType
<1>4. frames[FR].kind # "query" => frames[FR].parent \in DOMAIN frames
  BY <1>1, <1>2 DEF Stacked, StackOK, FrameOK, CallOK, Place
<1>5. \A f \in DOMAIN frames : 0 < f
  BY <1>2, FramesInAreTyped DEF FramesTyped
<1>6. \A c, d \in ElementsOf(cps) : c.at = d.at => c = d
  BY <1>2, AscendingOnce
<1>7. QED
  BY <1>1, <1>2, <1>3, <1>4, <1>5, <1>6, StackNumbers, LenProperties

\* A frame is pushed.
LEMMA PushSized ==
  ASSUME NEW fs, NEW cs, NEW at \in Nat, Numbers(fs, cs), Sized(fs, cs, at),
         NEW kind, NEW h, NEW t, NEW clause, NEW n \in Nat, NEW r,
         Push(fs, at, Frame(kind, h, t, clause, n, r))
  PROVE  Sized(frames', cs, SP')
<1>1. PICK b : b = Frame(kind, h, t, clause, n, r)
  OBVIOUS
<1>2. b.slotCount = n
  BY <1>1 DEF Frame
<1>3. frames' = Put(fs, at, b) /\ SP' = at + 1 + n
  BY <1>1, <1>2 DEF Push
<1>4. QED
  BY <1>2, <1>3, SizedPush

\* The frame of a goal compiled by call/1 is pushed like any other.
LEMMA UserCallSized ==
  ASSUME NEW fs, NEW cs, NEW at \in Nat, Numbers(fs, cs), Sized(fs, cs, at),
         NEW h, NEW s, NEW kept, NEW r, UserCall(h, at, fs, s, kept, r)
  PROVE  Sized(frames', cs, SP')
<1>1. PICK clause \in 1..MaxLocals :
        \E n \in 0..MaxSlots : Push(fs, at, Frame("pred", h, Top(s), clause, n, r))
  BY DEF UserCall
<1>2. PICK n \in 0..MaxSlots : Push(fs, at, Frame("pred", h, Top(s), clause, n, r))
  BY <1>1
<1>3. n \in Nat
  BY BoundsAssumption
<1>4. QED
  BY <1>2, <1>3, PushSized

\* i_exit gives up what lies above the caller, or above the last choicepoint.
LEMMA LeaveSized ==
  ASSUME NEW cs, NEW sp \in Nat, Numbers(frames, cs), Sized(frames, cs, sp),
         NEW t \in Seq(ChoiceType), Ascending(t), ElementsOf(t) \subseteq cs,
         \A c, d \in cs : c.at = d.at => c = d,
         frames[FR].parent \in DOMAIN frames, 0 < frames[FR].parent
  PROVE  /\ AfterExit(t) \in Nat
         /\ Sized(Below(AfterExit(t), frames), ElementsOf(t), AfterExit(t))
         /\ Numbers(Below(AfterExit(t), frames), ElementsOf(t))
<1> DEFINE h   == frames[FR].parent
           new == AfterExit(t)
           gs  == Below(new, frames)
           ds  == ElementsOf(t)
<1>0. \A c \in ChoiceType : c.at \in Nat
  BY DEF ChoiceType
<1>1. /\ Top(t) \in Nat /\ \A c \in ds : c.at <= Top(t)
      /\ t # <<>> => t[Len(t)] \in ds /\ t[Len(t)] \in ChoiceType
  BY <1>0, TopIsNewest
<1>2. h \in Nat /\ \A c \in cs : c.at \in Nat
  BY DEF Numbers
<1>3. Boundary(frames, cs, new) /\ \A c \in ds : c.at < new
  <2>1. CASE Top(t) < h
    <3>1. new = EndOf(frames, h)
      BY <2>1 DEF AfterExit, AfterFrame, EndOf
    <3>2. Boundary(frames, cs, EndOf(frames, h)) /\ h < EndOf(frames, h)
      BY FrameBoundary
    <3>3. EndOf(frames, h) \in Nat
      BY <3>2 DEF Boundary
    <3>4. \A c \in ds : c.at < EndOf(frames, h)
      BY <1>1, <1>2, <2>1, <3>2, <3>3
    <3>5. QED
      BY <3>1, <3>2, <3>4
  <2>2. CASE ~(Top(t) < h)
    <3>1. t # <<>>
      BY <1>2, <2>2 DEF Top, Null
    <3>2. new = AfterChoice(t[Len(t)]) /\ Top(t) = t[Len(t)].at
      BY <2>2, <3>1 DEF AfterExit, Top
    <3>3. t[Len(t)] \in cs
      BY <1>1, <3>1
    <3>4. Boundary(frames, cs, AfterChoice(t[Len(t)])) /\ t[Len(t)].at < AfterChoice(t[Len(t)])
      BY <3>3, ChoiceBoundary
    <3>5. AfterChoice(t[Len(t)]) \in Nat
      BY <3>4 DEF Boundary
    <3>6. \A c \in ds : c.at < AfterChoice(t[Len(t)])
      BY <1>1, <1>2, <3>2, <3>4, <3>5
    <3>7. QED
      BY <3>2, <3>4, <3>6
  <2>3. QED
    BY <2>1, <2>2
<1> HIDE DEF new
<1>4. DOMAIN gs = {f \in DOMAIN frames : f < new} /\ \A f \in DOMAIN gs : gs[f] = frames[f]
  BY DEF Below
<1> HIDE DEF gs, ds
<1>5. Sized(gs, ds, new) /\ Numbers(gs, ds)
  BY <1>3, <1>4, SizedCutOff DEF ds
<1>6. QED
  BY <1>3, <1>5 DEF new, gs, ds, Boundary

\* A choicepoint is pushed by the frame that runs.
LEMMA BranchSized ==
  ASSUME CanRun, NEW fs, Numbers(fs, ElementsOf(cps)), Sized(fs, ElementsOf(cps), SP), FR \in DOMAIN fs,
         NEW type \in {"Head", "Body"}, NEW pc, NEW clause, NEW n \in Nat, NEW cleanup \in {Null, FR},
         NEW c, c = NewChoice(type, pc, clause, n, cleanup),
         type = "Head" => OnTop(fs, ElementsOf(cps), FR, SP),
         type = "Body" => n = fs[FR].slotCount
  PROVE  /\ Sized(fs, ElementsOf(Append(cps, c)), AfterChoice(c))
         /\ Numbers(fs, ElementsOf(Append(cps, c)))
         /\ ElementsOf(Append(cps, c)) = ElementsOf(cps) \cup {c}
         /\ AfterChoice(c) \in Nat /\ SP < AfterChoice(c)
<1>1. /\ c.at = SP /\ c.fr = FR /\ c.type = type /\ c.slotCount = n /\ c.cleanup = cleanup
  BY DEF NewChoice
<1>2. SP \in Nat /\ cps \in Seq(ChoiceType)
  BY RunningProvides
<1>3. AfterChoice(c) \in Nat /\ SP < AfterChoice(c)
  BY <1>1, <1>2, BoundsAssumption DEF AfterChoice
<1>4. /\ Sized(fs, ElementsOf(cps) \cup {c}, AfterChoice(c))
      /\ Numbers(fs, ElementsOf(cps) \cup {c})
  BY <1>1, <1>2, <1>3, SizedChoice
<1>5. ElementsOf(Append(cps, c)) = ElementsOf(cps) \cup {c}
  BY <1>2, ElementsAppended
<1>6. QED
  BY <1>3, <1>4, <1>5

\* TRY_ME_ELSE and its like.
LEMMA TryMeSized ==
  ASSUME CanRun, SizeInv, TryMe
  PROVE  SizesStay
<1>1. PICK n \in 0..MaxSlots :
        /\ cps' = Append(cps, NewChoice("Head", At("entry"), frames[FR].clause, n, Null))
        /\ SP'  = AfterChoice(NewChoice("Head", At("entry"), frames[FR].clause, n, Null))
  BY DEF TryMe
<1>2. PICK c : c = NewChoice("Head", At("entry"), frames[FR].clause, n, Null)
  OBVIOUS
<1>3. OnTop(frames, ElementsOf(cps), FR, SP) /\ UNCHANGED frames
  BY RunningProvides DEF Place, TryMe, Running
<1>4. n \in Nat
  BY BoundsAssumption
<1>5. Sized(frames, ElementsOf(Append(cps, c)), AfterChoice(c))
  BY <1>2, <1>3, <1>4, RunningProvides, BranchSized DEF SizeInv
<1>6. QED
  BY <1>1, <1>2, <1>3, <1>5 DEF SizesStay

\* Alternatives of the clause that runs, and cleanup handlers.
LEMMA AlternativeSized ==
  ASSUME CanRun, SizeInv, NEW pc, NEW cleanup \in {Null, FR}, UNCHANGED frames,
         cps' = Append(cps, Alternative("Body", pc, cleanup)),
         SP'  = AfterChoice(Alternative("Body", pc, cleanup))
  PROVE  SizesStay
<1>1. PICK c : c = NewChoice("Body", pc, frames[FR].clause, frames[FR].slotCount, cleanup)
  OBVIOUS
<1>2. frames[FR].slotCount \in Nat
  BY RunningProvides, BoundsAssumption
<1>3. Sized(frames, ElementsOf(Append(cps, c)), AfterChoice(c))
  BY <1>1, <1>2, RunningProvides, BranchSized DEF SizeInv
<1>4. QED
  BY <1>1, <1>3 DEF SizesStay, Alternative

\* I_CALL.
LEMMA CallSized ==
  ASSUME CanRun, SizeInv, Call
  PROVE  SizesStay
<1>1. PICK kind \in Kinds : \E n \in SlotCounts(kind) :
        Push(frames, SP, Frame(kind, FR, CP, Null, n, pos))
  BY DEF Call
<1>2. PICK n \in SlotCounts(kind) : Push(frames, SP, Frame(kind, FR, CP, Null, n, pos))
  BY <1>1
<1>3. n \in Nat
  BY StartIsTyped, BoundsAssumption
<1>4. Sized(frames', ElementsOf(cps), SP')
  BY <1>2, <1>3, RunningProvides, PushSized DEF SizeInv
<1>5. QED
  BY <1>4 DEF SizesStay, Call

\* I_USERCALL.
LEMMA CallGoalSized ==
  ASSUME CanRun, SizeInv, CallGoal
  PROVE  SizesStay
<1>1. UserCall(FR, SP, frames, cps, owned, pos) /\ UNCHANGED cps
  BY DEF CallGoal
<1>2. Sized(frames', ElementsOf(cps), SP')
  BY <1>1, RunningProvides, UserCallSized DEF SizeInv
<1>3. QED
  BY <1>1, <1>2 DEF SizesStay

\* I_DEPART.
LEMMA DepartSized ==
  ASSUME CanRun, SizeInv, Depart
  PROVE  SizesStay
<1>1. PICK kind \in Kinds : \E n \in SlotCounts(kind) :
        Push(Below(AfterExit(cps), frames), AfterExit(cps),
             Frame(kind, frames[FR].parent, CP, Null, n, frames[FR].ret))
  BY DEF Depart
<1>2. PICK n \in SlotCounts(kind) :
        Push(Below(AfterExit(cps), frames), AfterExit(cps),
             Frame(kind, frames[FR].parent, CP, Null, n, frames[FR].ret))
  BY <1>1
<1>3. n \in Nat
  BY StartIsTyped, BoundsAssumption
<1>4. pos.phase = "body" /\ UNCHANGED cps
  BY DEF Depart, Running
<1>5. frames[FR].kind # "query"
  BY <1>4, KindRuns
<1>6. /\ AfterExit(cps) \in Nat
      /\ Sized(Below(AfterExit(cps), frames), ElementsOf(cps), AfterExit(cps))
      /\ Numbers(Below(AfterExit(cps), frames), ElementsOf(cps))
  BY <1>5, RunningProvides, LeaveSized DEF SizeInv
<1>7. Sized(frames', ElementsOf(cps), SP')
  BY <1>2, <1>3, <1>6, PushSized
<1>8. QED
  BY <1>4, <1>7 DEF SizesStay

\* Exits that leave the choicepoints alone
LEMMA ExitSized ==
  ASSUME CanRun, SizeInv, frames[FR].kind # "query", Leave(cps), UNCHANGED cps
  PROVE  SizesStay
<1>1. Sized(Below(AfterExit(cps), frames), ElementsOf(cps), AfterExit(cps))
  BY RunningProvides, LeaveSized DEF SizeInv
<1>2. QED
  BY <1>1 DEF Leave, SizesStay

\* What is written into frames, other than their sizes, does not matter.
LEMMA SizedSame ==
  ASSUME NEW fs, NEW cs, NEW sp \in Nat, Numbers(fs, cs), Sized(fs, cs, sp),
         NEW gs, DOMAIN gs = DOMAIN fs, \A f \in DOMAIN fs : gs[f].slotCount = fs[f].slotCount,
         NEW ds \in SUBSET cs
  PROVE  Sized(gs, ds, sp) /\ Numbers(gs, ds)
<1>1. Boundary(fs, cs, sp)
  BY TopBoundary
<1>2. \A f \in DOMAIN fs : f \in Nat /\ EndOf(fs, f) \in Nat /\ f < EndOf(fs, f) /\ EndOf(fs, f) <= sp
  BY DEF Numbers, Sized
<1>3. DOMAIN gs = {f \in DOMAIN fs : f < sp}
  BY <1>2
<1>4. \A c \in cs : c.at < sp
  <2>1. \A c \in cs : c.at \in Nat /\ AfterChoice(c) \in Nat /\ c.at < AfterChoice(c) /\ AfterChoice(c) <= sp
    BY DEF Numbers, Sized
  <2>2. QED
    BY <2>1
<1>5. QED
  BY <1>1, <1>3, <1>4, SizedCutOff

\* A condition notes CP in a new cut slot.
LEMMA OpensSized ==
  ASSUME CanRun, SizeInv, OpenCondition
  PROVE  /\ Sized(frames', ElementsOf(cps), SP) /\ Numbers(frames', ElementsOf(cps))
         /\ FR \in DOMAIN frames' /\ frames'[FR].slotCount = frames[FR].slotCount
<1>1. frames' = [frames EXCEPT ![FR].cuts[pos.used + 1] = CP]
  BY DEF OpenCondition
<1>2. FR \in DOMAIN frames /\ frames[FR] \in FrameType
  BY RunningProvides DEF FramesIn
<1>3. /\ DOMAIN frames' = DOMAIN frames
      /\ \A f \in DOMAIN frames : f # FR => frames'[f] = frames[f]
      /\ frames'[FR] = [frames[FR] EXCEPT !.cuts[pos.used + 1] = CP]
  BY <1>1, <1>2
<1>4. frames'[FR].slotCount = frames[FR].slotCount
  BY <1>2, <1>3 DEF FrameType
<1>5. \A f \in DOMAIN frames : frames'[f].slotCount = frames[f].slotCount
  BY <1>3, <1>4
<1>6. QED
  BY <1>2, <1>3, <1>4, <1>5, RunningProvides, SizedSame DEF SizeInv

\* C_IF_THEN.
LEMMA IfThenSized ==
  ASSUME CanRun, SizeInv, IfThen
  PROVE  SizesStay
  BY OpensSized DEF IfThen, SizesStay

\* C_IF_THEN_ELSE.
LEMMA IfThenElseSized ==
  ASSUME CanRun, SizeInv, IfThenElse
  PROVE  SizesStay
<1>1. PICK pc : /\ cps' = Append(cps, Alternative("Body", pc, Null))
                /\ SP'  = AfterChoice(Alternative("Body", pc, Null))
  BY DEF IfThenElse
<1>2. PICK c : c = NewChoice("Body", pc, frames[FR].clause, frames[FR].slotCount, Null)
  OBVIOUS
<1>3. frames[FR].slotCount \in Nat
  BY RunningProvides, BoundsAssumption
<1>4. /\ Sized(frames', ElementsOf(cps), SP) /\ Numbers(frames', ElementsOf(cps))
      /\ FR \in DOMAIN frames' /\ frames'[FR].slotCount = frames[FR].slotCount
  BY OpensSized DEF IfThenElse
<1>5. Sized(frames', ElementsOf(Append(cps, c)), AfterChoice(c))
  BY <1>2, <1>3, <1>4, BranchSized
<1>6. QED
  BY <1>1, <1>2, <1>5 DEF SizesStay, Alternative

\* The choicepoints that a cut leaves
LEMMA LeftByCut ==
  ASSUME CanRun, NEW n \in 0..Len(cps)
  PROVE  /\ ElementsOf(SubSeq(cps, 1, n)) = {cps[i] : i \in 1..n}
         /\ ElementsOf(SubSeq(cps, 1, n)) \subseteq ElementsOf(cps)
         /\ \A i \in 1..Len(cps) : cps[i] \in ElementsOf(cps)
<1>1. cps \in Seq(ChoiceType) /\ Ascending(cps) /\ DOMAIN cps = 1..Len(cps)
  BY RunningProvides
<1>2. /\ OldestOf(ElementsOf(cps), ElementsOf(SubSeq(cps, 1, n)))
      /\ ElementsOf(SubSeq(cps, 1, n)) = {cps[i] : i \in 1..n}
  BY <1>1, PrefixElements
<1>3. QED
  BY <1>1, <1>2 DEF OldestOf, ElementsOf

\* A cut gives up what lies above the frame of the oldest choicepoint it drops of a frame
\* that was called.
LEMMA CutBoundary ==
  ASSUME CanRun, SizeInv, NEW target \in Targets(frames, FR, pos),
         NEW n \in 0..Len(cps), \A i \in DOMAIN cps : i > n <=> cps[i].at > target
  PROVE  Boundary(frames, ElementsOf(cps), CutSP(n))
<1> DEFINE deeper == {i \in n + 1..Len(cps) : cps[i].fr > FR}
<1>0. /\ Numbers(frames, ElementsOf(cps)) /\ SP \in Nat
      /\ Len(cps) \in Nat /\ DOMAIN cps = 1..Len(cps)
      /\ \A i \in 1..Len(cps) : cps[i] \in ElementsOf(cps)
  BY RunningProvides DEF ElementsOf
<1>1. CASE deeper = {}
  <2>1. CutSP(n) = SP
    BY <1>1 DEF CutSP
  <2>2. QED
    BY <1>0, <2>1, TopBoundary DEF SizeInv
<1>2. CASE deeper # {}
  <2>1. deeper \in SUBSET Nat
    BY <1>0
  <2>2. \E i \in deeper : \A j \in deeper : i <= j
    BY <1>2, <2>1, LeastNumber
  <2>3. PICK i \in deeper : CutSP(n) = AfterFrame(cps[i].fr)
    <3>1. (CHOOSE i \in deeper : \A j \in deeper : i <= j) \in deeper
      BY <2>2
    <3>2. CutSP(n) = AfterFrame(cps[CHOOSE i \in deeper : \A j \in deeper : i <= j].fr)
      BY <1>2 DEF CutSP
    <3>3. QED
      BY <3>1, <3>2
  <2>4. i \in 1..Len(cps)
    BY <1>0, <2>3
  <2>5. cps[i].fr \in DOMAIN frames
    BY <1>0, <2>4 DEF Numbers
  <2>6. CutSP(n) = EndOf(frames, cps[i].fr)
    BY <2>3 DEF AfterFrame, EndOf
  <2>7. QED
    BY <1>0, <2>5, <2>6, FrameBoundary DEF SizeInv
<1>3. QED
  BY <1>1, <1>2

\* cut_to, when no cleanup handler interrupts it
LEMMA CutsSized ==
  ASSUME CanRun, SizeInv, NEW target \in Targets(frames, FR, pos), NEW q, Cut(target, q)
  PROVE  SizesStay
<1>1. PICK n \in 0..Len(cps) :
        /\ \A i \in DOMAIN cps : i > n <=> cps[i].at > target
        /\ cps'    = SubSeq(cps, 1, n)
        /\ SP'     = CutSP(n)
        /\ frames' = Below(CutSP(n), Disowned(frames, CutFrames(n)))
  BY DEF Cut
<1> DEFINE new  == CutSP(n)
           gone == CutFrames(n)
           ds   == ElementsOf(SubSeq(cps, 1, n))
<1>2. Boundary(frames, ElementsOf(cps), new)
  BY <1>1, CutBoundary
<1>3. new \in Nat /\ target < new
  BY <1>1, CutLeaves DEF CanRun
<1>4. frames' = Below(new, Disowned(frames, gone))
  BY <1>1
<1> HIDE DEF new, gone
<1>5. /\ DOMAIN frames' = {f \in DOMAIN frames : f < new}
      /\ \A f \in DOMAIN frames' : frames'[f].slotCount = frames[f].slotCount
  <2>1. /\ DOMAIN Below(new, Disowned(frames, gone)) = {f \in DOMAIN frames : f < new}
        /\ \A f \in DOMAIN Below(new, Disowned(frames, gone)) :
             Below(new, Disowned(frames, gone))[f] = Disowned(frames, gone)[f]
    BY DEF Below, Disowned
  <2>2. \A f \in DOMAIN frames : Disowned(frames, gone)[f].slotCount = frames[f].slotCount
    BY DisownedSlots, RunningProvides
  <2>3. QED
    BY <1>4, <2>1, <2>2
<1>6. ds = {cps[i] : i \in 1..n} /\ ds \subseteq ElementsOf(cps)
  BY LeftByCut
<1>7. \A d \in ds : d.at < new
  <2>1. ASSUME NEW i \in 1..n
        PROVE  cps[i].at < new
    <3>1. Len(cps) \in Nat /\ DOMAIN cps = 1..Len(cps) /\ Numbers(frames, ElementsOf(cps))
      BY RunningProvides
    <3>2. i \in 1..Len(cps) /\ ~(i > n)
      BY <3>1
    <3>3. cps[i].at \in Nat
      BY <3>1, <3>2, LeftByCut DEF Numbers
    <3>4. target \in Nat
      BY TargetsAreAddresses, ReadyProvides DEF CanRun
    <3>5. ~(cps[i].at > target)
      BY <1>1, <3>1, <3>2
    <3>6. QED
      BY <1>3, <3>3, <3>4, <3>5
  <2>2. QED
    BY <1>6, <2>1
<1>8. Sized(frames', ds, new)
  BY <1>2, <1>5, <1>6, <1>7, RunningProvides, SizedCutOff DEF SizeInv
<1>9. QED
  BY <1>1, <1>8 DEF SizesStay, new

\* ... and when one does
LEMMA CutsToHandlerSized ==
  ASSUME CanRun, SizeInv, NEW target, CutCleanup(target)
  PROVE  SizesStay
<1>1. PICK n \in DOMAIN cps :
        /\ cps' = SubSeq(cps, 1, n - 1)
        /\ UserCall(FR, SP, Disowned(frames, CutFrames(n - 1)), cps',
                    owned \ ClausesOf(CutFrames(n - 1)), pos)
  BY DEF CutCleanup
<1>2. n - 1 \in 0..Len(cps)
  BY RunningProvides
<1> DEFINE gone == CutFrames(n - 1)
           gs   == Disowned(frames, gone)
           ds   == ElementsOf(SubSeq(cps, 1, n - 1))
<1> HIDE DEF gone
<1>3. DOMAIN gs = DOMAIN frames /\ \A f \in DOMAIN frames : gs[f].slotCount = frames[f].slotCount
  BY BelowKeepsSlots, DisownedSlots, RunningProvides
<1>4. ds \subseteq ElementsOf(cps)
  BY <1>2, LeftByCut
<1> HIDE DEF gs, ds
<1>5. Sized(gs, ds, SP) /\ Numbers(gs, ds)
  BY <1>3, <1>4, RunningProvides, SizedSame DEF SizeInv
<1>6. UserCall(FR, SP, gs, cps', owned \ ClausesOf(gone), pos)
  BY <1>1 DEF gs, gone
<1>7. Sized(frames', ds, SP')
  BY <1>5, <1>6, RunningProvides, UserCallSized
<1>8. QED
  BY <1>1, <1>7 DEF SizesStay, ds

\* I_CUT and C_CUT
LEMMA CutSized ==
  ASSUME CanRun, SizeInv, CutBody \/ CutCondition
  PROVE  SizesStay
<1>1. FR \in DOMAIN frames /\ pos \in Pos
  BY RunningProvides DEF CanRun, Ready
<1>2. CASE CutBody
  <2>1. frames[FR].choicepoint \in Targets(frames, FR, pos)
    BY DEF Targets
  <2>2. Cut(frames[FR].choicepoint, pos) \/ CutCleanup(frames[FR].choicepoint)
    BY <1>2 DEF CutBody
  <2>3. QED
    BY <2>1, <2>2, CutsSized, CutsToHandlerSized
<1>3. CASE CutCondition
  <2>1. pos.open \in Seq(Slot) /\ pos.open # <<>>
    BY <1>1, <1>3 DEF CutCondition, InCondition, Pos
  <2>2. Len(pos.open) \in DOMAIN pos.open
    BY <2>1, LenProperties, EmptySeq
  <2>3. frames[FR].cuts[Innermost] \in Targets(frames, FR, pos)
    BY <2>2 DEF Targets, Noted, Innermost
  <2>4. PICK q : \/ Cut(frames[FR].cuts[Innermost], q)
                 \/ CutCleanup(frames[FR].cuts[Innermost])
    BY <1>3 DEF CutCondition
  <2>5. QED
    BY <2>3, <2>4, CutsSized, CutsToHandlerSized
<1>4. QED
  BY <1>2, <1>3

\* The choicepoint that a foreign predicate or catch/3 leaves saves arguments: nothing lies
\* between it and its frame.
LEMMA HeadChoiceSized ==
  ASSUME CanRun, SizeInv, pos.phase \in {"catch", "foreign"}, NEW pc,
         NEW c, c = Alternative("Head", pc, Null)
  PROVE  /\ Sized(frames, ElementsOf(Append(cps, c)), AfterChoice(c))
         /\ Numbers(frames, ElementsOf(Append(cps, c)))
         /\ ElementsOf(Append(cps, c)) = ElementsOf(cps) \cup {c}
         /\ AfterChoice(c) \in Nat
<1>1. c = NewChoice("Head", pc, frames[FR].clause, frames[FR].slotCount, Null)
  BY DEF Alternative
<1>2. OnTop(frames, ElementsOf(cps), FR, SP)
  BY RunningProvides DEF Place
<1>3. frames[FR].slotCount \in Nat
  BY RunningProvides, BoundsAssumption
<1>4. QED
  BY <1>1, <1>2, <1>3, RunningProvides, BranchSized DEF SizeInv

\* catch/3 marks its frame with its choicepoint.
CatchFrames(c) == [frames EXCEPT ![FR].choicepoint = c.at, ![FR].cuts[1] = c.at]

\* The marks do not change the sizes.
LEMMA CatchMarksSized ==
  ASSUME CanRun, SizeInv, pos.phase = "catch", NEW c, c = Alternative("Head", NoPC, Null)
  PROVE  /\ Sized(CatchFrames(c), ElementsOf(Append(cps, c)), AfterChoice(c))
         /\ Numbers(CatchFrames(c), ElementsOf(Append(cps, c)))
         /\ AfterChoice(c) \in Nat
<1> DEFINE gs == CatchFrames(c)
<1>1. /\ Sized(frames, ElementsOf(Append(cps, c)), AfterChoice(c))
      /\ Numbers(frames, ElementsOf(Append(cps, c)))
      /\ AfterChoice(c) \in Nat
  BY HeadChoiceSized
<1>2. DOMAIN gs = DOMAIN frames /\ \A f \in DOMAIN frames : gs[f].slotCount = frames[f].slotCount
  <2>1. FR \in DOMAIN frames /\ frames[FR] \in FrameType
    BY RunningProvides DEF FramesIn
  <2>2. /\ DOMAIN gs = DOMAIN frames
        /\ \A f \in DOMAIN frames : f # FR => gs[f] = frames[f]
        /\ gs[FR] = [frames[FR] EXCEPT !.choicepoint = c.at, !.cuts[1] = c.at]
    BY <2>1 DEF CatchFrames
  <2>3. gs[FR].slotCount = frames[FR].slotCount
    BY <2>1, <2>2 DEF FrameType
  <2>4. QED
    BY <2>2, <2>3
<1> HIDE DEF gs
<1>3. Sized(gs, ElementsOf(Append(cps, c)), AfterChoice(c)) /\ Numbers(gs, ElementsOf(Append(cps, c)))
  BY <1>1, <1>2, SizedSame
<1>4. QED
  BY <1>1, <1>3 DEF gs

\* I_CATCH.
LEMMA CatchSized ==
  ASSUME CanRun, SizeInv, Catch
  PROVE  SizesStay
<1>1. PICK c : /\ c = Alternative("Head", NoPC, Null)
               /\ cps' = Append(cps, c)
               /\ UserCall(FR, AfterChoice(c), CatchFrames(c), Append(cps, c), owned, At("exitcatch"))
  BY DEF Catch, CatchFrames
<1>2. PICK gs : gs = CatchFrames(c)
  OBVIOUS
<1>3. /\ Sized(gs, ElementsOf(Append(cps, c)), AfterChoice(c)) /\ Numbers(gs, ElementsOf(Append(cps, c)))
      /\ AfterChoice(c) \in Nat
  BY <1>1, <1>2, CatchMarksSized DEF Catch, Running
<1>4. Sized(frames', ElementsOf(Append(cps, c)), SP')
  BY <1>1, <1>2, <1>3, UserCallSized
<1>5. QED
  BY <1>1, <1>4 DEF SizesStay

\* I_EXIT_CATCH.
LEMMA ExitCatchSized ==
  ASSUME CanRun, SizeInv, ExitCatch
  PROVE  SizesStay
<1>1. frames[FR].kind # "query"
  BY KindRuns DEF ExitCatch, Running
<1>2. CASE frames[FR].cuts[1] # CP
  BY <1>1, <1>2, ExitSized DEF ExitCatch
<1>3. CASE frames[FR].cuts[1] = CP
  <2> DEFINE t == SubSeq(cps, 1, Len(cps) - 1)
  <2>1. cps' = t /\ Leave(t)
    BY <1>3 DEF ExitCatch
  <2>2. /\ Len(cps) \in Nat /\ cps \in Seq(ChoiceType) /\ Ascending(cps)
        /\ Numbers(frames, ElementsOf(cps)) /\ SP \in Nat
        /\ \A c, d \in ElementsOf(cps) : c.at = d.at => c = d
        /\ frames[FR].parent \in DOMAIN frames /\ 0 < frames[FR].parent
    BY <1>1, RunningProvides
  <2>3. Len(cps) - 1 \in 0..Len(cps)
    <3>1. cps # <<>>
      <4>1. FR < frames[FR].cuts[1] /\ FR \in Nat
        BY RunningProvides DEF Place, ExitCatch, Running
      <4>2. CASE cps = <<>>
        BY <1>3, <4>1, <4>2 DEF CP, Top, Null
      <4>3. QED
        BY <4>2
    <3>2. Len(cps) # 0
      BY <2>2, <3>1, EmptySeq
    <3>3. QED
      BY <2>2, <3>2
  <2>4. t \in Seq(ChoiceType) /\ Ascending(t) /\ ElementsOf(t) \subseteq ElementsOf(cps)
    BY <2>2, <2>3, PrefixElements DEF OldestOf
  <2> HIDE DEF t
  <2>5. Sized(Below(AfterExit(t), frames), ElementsOf(t), AfterExit(t))
    BY <2>2, <2>4, LeaveSized DEF SizeInv
  <2>6. QED
    BY <2>1, <2>5 DEF Leave, SizesStay
<1>4. QED
  BY <1>2, <1>3

\* I_FOREIGN_NONDET.
LEMMA ForeignNondetSized ==
  ASSUME CanRun, SizeInv, ForeignNondet
  PROVE  SizesStay
<1>1. PICK c : /\ c = Alternative("Head", At("foreign"), Null)
               /\ cps' = Append(cps, c)
               /\ Leave(Append(cps, c))
  BY DEF ForeignNondet
<1>2. frames[FR].kind # "query" /\ pos.phase = "foreign"
  BY KindRuns DEF ForeignNondet, Running
<1>4. /\ Sized(frames, ElementsOf(Append(cps, c)), AfterChoice(c))
      /\ Numbers(frames, ElementsOf(Append(cps, c)))
      /\ AfterChoice(c) \in Nat
      /\ ElementsOf(Append(cps, c)) = ElementsOf(cps) \cup {c}
  BY <1>1, <1>2, HeadChoiceSized
<1>5. Append(cps, c) \in Seq(ChoiceType) /\ Ascending(Append(cps, c))
  <2>1. At("foreign") \in Pos /\ Null \in Nat
    BY AtIsPos DEF Phases, Null
  <2>2. c \in ChoiceType /\ c.at = SP
    BY <1>1, <2>1, AlternativeTyped
  <2>3. \A d \in ElementsOf(cps) : d.at < SP
    BY ReadyProvides DEF CanRun, RunsAt
  <2>4. QED
    BY <2>2, <2>3, RunningProvides, AppendElements
<1>6. \A d, e \in ElementsOf(Append(cps, c)) : d.at = e.at => d = e
  BY <1>5, AscendingOnce
<1>7. frames[FR].parent \in DOMAIN frames /\ 0 < frames[FR].parent
  BY <1>2, RunningProvides
<1> DEFINE t == Append(cps, c)
<1> HIDE DEF t
<1>8. Sized(Below(AfterExit(t), frames), ElementsOf(t), AfterExit(t))
  <2>1. /\ Sized(frames, ElementsOf(t), AfterChoice(c)) /\ Numbers(frames, ElementsOf(t))
        /\ t \in Seq(ChoiceType) /\ Ascending(t)
        /\ \A d, e \in ElementsOf(t) : d.at = e.at => d = e
    BY <1>4, <1>5, <1>6 DEF t
  <2>2. ElementsOf(t) \subseteq ElementsOf(t)
    OBVIOUS
  <2>3. QED
    BY <1>4, <1>7, <2>1, <2>2, LeaveSized
<1>9. QED
  BY <1>1, <1>8 DEF Leave, SizesStay, t

(***************************************************************************)
(* Backtracking                                                            *)
(***************************************************************************)
\* The choicepoints below the one that is applied
LEMMA OlderChoices ==
  ASSUME Stacked(frames, cps), NEW n \in DOMAIN cps
  PROVE  /\ cps[n] \in ElementsOf(cps) /\ cps[n] \in ChoiceType
         /\ ElementsOf(SubSeq(cps, 1, n - 1)) = {d \in ElementsOf(cps) : d.at < cps[n].at}
<1>1. /\ cps \in Seq(ChoiceType) /\ Ascending(cps)
      /\ Len(cps) \in Nat /\ DOMAIN cps = 1..Len(cps) /\ n \in 1..Len(cps)
  BY LenProperties DEF Stacked
<1>2. n - 1 \in 0..Len(cps)
  BY <1>1
<1>3. \A i \in 1..Len(cps) : cps[i] \in ChoiceType /\ cps[i] \in ElementsOf(cps)
  BY <1>1, ElementOfSeq DEF ElementsOf
<1>4. \A i \in 1..Len(cps) : cps[i].at \in Nat
  BY <1>3 DEF ChoiceType
<1>5. ElementsOf(SubSeq(cps, 1, n - 1)) = {cps[i] : i \in 1..n - 1}
  BY <1>1, <1>2, PrefixElements
<1>6. \A i \in 1..Len(cps) : i \in 1..n - 1 <=> cps[i].at < cps[n].at
  <2>1. ASSUME NEW i \in 1..Len(cps)
        PROVE  i \in 1..n - 1 <=> cps[i].at < cps[n].at
    <3>1. CASE i < n
      BY <1>1, <2>1, <3>1 DEF Ascending
    <3>2. CASE i = n
      BY <1>1, <1>4, <3>2
    <3>3. CASE n < i
      <4>1. cps[n].at < cps[i].at
        BY <1>1, <2>1, <3>3 DEF Ascending
      <4>2. cps[n].at \in Nat /\ cps[i].at \in Nat
        BY <1>1, <1>4
      <4>3. QED
        BY <1>1, <3>3, <4>1, <4>2
    <3>4. QED
      BY <1>1, <3>1, <3>2, <3>3
  <2>2. QED
    BY <2>1
<1>7. {cps[i] : i \in 1..n - 1} = {d \in ElementsOf(cps) : d.at < cps[n].at}
  <2>1. \A i \in 1..n - 1 : i \in 1..Len(cps)
    BY <1>1
  <2>2. ElementsOf(cps) = {cps[i] : i \in 1..Len(cps)}
    BY <1>1 DEF ElementsOf
  <2>3. QED
    BY <1>6, <2>1, <2>2
<1>8. QED
  BY <1>1, <1>3, <1>5, <1>7

\* apply_choicepoint
LEMMA BacktrackSized ==
  ASSUME CanRun, SizeInv, Backtrack
  PROVE  SizesStay /\ FR' \in DOMAIN frames'
<1>1. CASE cps = <<>> /\ UNCHANGED <<FR, SP, frames, cps, pos, owned>>
  BY <1>1, RunningProvides DEF SizesStay, SizeInv
<1>2. ASSUME NEW n \in DOMAIN cps, cps' = SubSeq(cps, 1, n - 1), Apply(cps[n], Abandoned(n))
      PROVE  SizesStay /\ FR' \in DOMAIN frames'
  <2> DEFINE cs == ElementsOf(cps)
             ds == ElementsOf(SubSeq(cps, 1, n - 1))
  <2>1. PICK c \in ChoiceType : c = cps[n] /\ c \in cs /\ ds = {d \in cs : d.at < c.at}
    BY <1>2, RunningProvides, OlderChoices
  <2>2. PICK low : low = Below(c.at, Disowned(frames, Abandoned(n)))
    OBVIOUS
  <2>3. /\ SP' = IF c.type = "Head" THEN c.fr + 1 + c.slotCount ELSE c.at
        /\ frames' = [low EXCEPT ![c.fr].clause = c.clause, ![c.fr].slotCount = c.slotCount]
        /\ FR' = c.fr
    BY <1>2, <2>1, <2>2 DEF Apply
  <2>4. Numbers(frames, cs) /\ Sized(frames, cs, SP) /\ SP \in Nat /\ FramesIn(frames)
    BY RunningProvides DEF SizeInv
  <2> HIDE DEF cs, ds
  <2>5. /\ c.at \in Nat /\ c.fr \in Nat /\ c.fr < c.at /\ c.fr \in DOMAIN frames
        /\ c.slotCount \in Nat /\ c.type \in {"Head", "Body"}
    BY <2>1, <2>4, BoundsAssumption DEF Numbers, ChoiceType
  <2>6. /\ DOMAIN low = {f \in DOMAIN frames : f < c.at}
        /\ \A f \in DOMAIN low : low[f].slotCount = frames[f].slotCount /\ low[f] \in FrameType
    <3>1. \A f \in DOMAIN frames :
            /\ Disowned(frames, Abandoned(n))[f].slotCount = frames[f].slotCount
            /\ Disowned(frames, Abandoned(n))[f] \in FrameType
      <4>1. \A f \in DOMAIN frames :
              Disowned(frames, Abandoned(n))[f] =
                IF f \in Abandoned(n) THEN [frames[f] EXCEPT !.isLocal = FALSE] ELSE frames[f]
        BY DEF Disowned
      <4>2. \A a \in FrameType : /\ [a EXCEPT !.isLocal = FALSE].slotCount = a.slotCount
                                 /\ [a EXCEPT !.isLocal = FALSE] \in FrameType
        BY DEF FrameType
      <4>3. QED
        BY <2>4, <4>1, <4>2 DEF FramesIn
    <3>2. /\ DOMAIN low = {f \in DOMAIN frames : f < c.at}
          /\ \A f \in DOMAIN low : low[f] = Disowned(frames, Abandoned(n))[f]
      BY <2>2 DEF Below, Disowned
    <3>3. QED
      BY <3>1, <3>2
  <2>7. /\ DOMAIN frames' = {f \in DOMAIN frames : f < c.at}
        /\ \A f \in DOMAIN frames' : f # c.fr => frames'[f].slotCount = frames[f].slotCount
        /\ frames'[c.fr].slotCount = c.slotCount
    <3>1. c.fr \in DOMAIN low /\ low[c.fr] \in FrameType
      BY <2>5, <2>6
    <3>2. /\ DOMAIN frames' = DOMAIN low
          /\ \A f \in DOMAIN low : f # c.fr => frames'[f] = low[f]
          /\ frames'[c.fr] = [low[c.fr] EXCEPT !.clause = c.clause, !.slotCount = c.slotCount]
      BY <2>3, <3>1
    <3>3. frames'[c.fr].slotCount = c.slotCount
      BY <3>1, <3>2 DEF FrameType
    <3>4. QED
      BY <2>6, <3>2, <3>3
  <2>8. ASSUME c.type = "Head" PROVE SizesStay
    <3>1. Sized(frames', {d \in cs : d.at < c.at}, c.fr + 1 + c.slotCount)
      BY <2>1, <2>4, <2>5, <2>7, <2>8, SizedResume
    <3>2. QED
      BY <1>2, <2>1, <2>3, <2>8, <3>1 DEF SizesStay, ds
  <2>9. ASSUME c.type # "Head" PROVE SizesStay
    <3>1. frames[c.fr].slotCount = c.slotCount
      BY <2>1, <2>4, <2>9 DEF Sized, Restores
    <3>2. \A f \in DOMAIN frames' : frames'[f].slotCount = frames[f].slotCount
      BY <2>7, <3>1
    <3>3. Boundary(frames, cs, c.at)
      BY <2>1, <2>4, <2>5 DEF Boundary, Sized
    <3>4. ds \subseteq cs /\ \A d \in ds : d.at < c.at
      BY <2>1
    <3>5. Sized(frames', ds, c.at)
      BY <2>4, <2>7, <3>2, <3>3, <3>4, SizedCutOff
    <3>6. QED
      BY <1>2, <2>3, <2>9, <3>5 DEF SizesStay, ds
  <2>10. QED
    BY <2>3, <2>5, <2>7, <2>8, <2>9
<1>3. QED
  BY <1>1, <1>2 DEF Backtrack

(***************************************************************************)
(* Every step                                                              *)
(***************************************************************************)
\* The sizes, and the frame that runs or ran last
MemoryInv == SizeInv /\ FR \in DOMAIN frames

\* Every step keeps the sizes right (kernel.c: the handlers of execute).
LEMMA SizeStep ==
  ASSUME StackInv, MemoryOK, MemoryInv, [Next]_vars
  PROVE  MemoryInv'
<1>0. SizeInv /\ FR \in DOMAIN frames
  BY DEF MemoryInv
<1>1. CASE UNCHANGED vars
  BY <1>0, <1>1 DEF vars, MemoryInv, SizeInv, Sized, EndOf, Restores, OnTop, ElementsOf
<1>2. CASE Next
  <2>1. CanRun
    BY <1>2, StepOfRunning DEF StackInv, CanRun
  <2>2. SizesStay
    <3>1. CASE MakeVar \/ BindVar \/ ExitQuery \/ CutWithinCondition \/ Enter
      BY <1>0, <3>1 DEF MakeVar, BindVar, ExitQuery, CutWithinCondition, Enter, SizesStay, SizeInv
    <3>2. CASE Exit
      <4>1. frames[FR].kind # "query" /\ Leave(cps) /\ UNCHANGED cps
        BY <1>0, <2>1, <3>2, KindRuns DEF Exit, Running
      <4>2. QED
        BY <1>0, <2>1, <4>1, ExitSized
    <3>3. CASE TryMe \/ Call \/ Depart \/ CallGoal
      BY <1>0, <2>1, <3>3, TryMeSized, CallSized, DepartSized, CallGoalSized
    <3>4. CASE Or \/ CleanupChoicepoint
      <4>1. \E pc : \E cleanup \in {Null, FR} :
              /\ cps' = Append(cps, Alternative("Body", pc, cleanup))
              /\ SP'  = AfterChoice(Alternative("Body", pc, cleanup))
              /\ UNCHANGED frames
        <5>1. CASE Or
          BY <5>1 DEF Or
        <5>2. CASE CleanupChoicepoint
          BY <5>2 DEF CleanupChoicepoint
        <5>3. QED
          BY <3>4, <5>1, <5>2
      <4>2. QED
        BY <1>0, <2>1, <4>1, AlternativeSized
    <3>5. CASE IfThen \/ IfThenElse \/ CutBody \/ CutCondition
      BY <1>0, <2>1, <3>5, IfThenSized, IfThenElseSized, CutSized
    <3>6. CASE Catch \/ ExitCatch \/ ForeignNondet
      BY <1>0, <2>1, <3>6, CatchSized, ExitCatchSized, ForeignNondetSized
    <3>7. CASE Foreign
      <4>1. frames[FR].kind # "query" /\ Leave(cps) /\ UNCHANGED cps
        BY <1>0, <2>1, <3>7, KindRuns DEF Foreign, Running
      <4>2. QED
        BY <1>0, <2>1, <4>1, ExitSized
    <3>8. CASE Fail \/ ForeignFail \/ BacktrackQuery
      BY <1>0, <2>1, <3>8, BacktrackSized DEF Fail, ForeignFail, BacktrackQuery
    <3>9. QED
      BY <1>2, <3>1, <3>2, <3>3, <3>4, <3>5, <3>6, <3>7, <3>8 DEF Next, Instruction
  <2>3. FR' \in DOMAIN frames'
    <3>1. CASE Backtrack
      BY <1>0, <2>1, <3>1, BacktrackSized
    <3>2. CASE ~Backtrack
      <4>1. GoesOn
        BY <1>2, <2>1, <3>2, StepGoesOn
      <4>2. QED
        BY <4>1, ReadyProvides DEF GoesOn
    <3>3. QED
      BY <3>1, <3>2
  <2>4. QED
    BY <2>2, <2>3 DEF SizesStay, MemoryInv, SizeInv, Sized, EndOf, Restores, OnTop, ElementsOf
<1>3. QED
  BY <1>1, <1>2

\* Where no cut slots are missing in the frame of the query, sizes are right from the start.
LEMMA InitMemoryInv ==
  ASSUME QueryReserved = 0, Init
  PROVE  MemoryInv
<1>1. /\ cps = <<>> /\ FR = 2 /\ SP = 3
      /\ frames = <<HostFrame(<<>>), GoalFrame(<<>>, 1, 1)>>
  BY DEF Init
<1>2. ElementsOf(cps) = {}
  BY <1>1 DEF ElementsOf
<1>3. /\ DOMAIN frames = {1, 2}
      /\ frames[1].slotCount = 0 /\ frames[2].slotCount = 0
  BY <1>1 DEF HostFrame, GoalFrame, Frame
<1>4. EndOf(frames, 1) = 2 /\ EndOf(frames, 2) = 3
  BY <1>3 DEF EndOf
<1>5. QED
  BY <1>1, <1>2, <1>3, <1>4 DEF MemoryInv, SizeInv, Sized

(***************************************************************************)
(* Nothing is overwritten                                                  *)
(***************************************************************************)
\* The frames that can still run are frames, and lie below their children.
LEMMA AliveAreFrames ==
  ASSUME Stacked(frames, cps), FR \in DOMAIN frames \cup {Null}
  PROVE  /\ Continuation \subseteq DOMAIN frames
         /\ AliveWith(Choices) \subseteq DOMAIN frames
         /\ \A c \in Choices : c.fr \in AliveWith(Choices)
<1>1. FramesIn(frames) /\ StackOK(frames, ElementsOf(cps)) /\ Choices = ElementsOf(cps)
  BY DEF Stacked, Choices, ElementsOf
<1>2. Rooted(frames)
  <2>1. ASSUME NEW f \in DOMAIN frames
        PROVE  f \in 1..StackSize /\ frames[f].parent \in 0..StackSize /\ frames[f].parent < f
    <3>1. f \in 1..StackSize /\ StackSize \in Nat /\ FrameOK(frames, ElementsOf(cps), f)
      BY <1>1, BoundsAssumption DEF FramesIn, StackOK
    <3>2. CASE frames[f].kind = "query"
      BY <3>1, <3>2 DEF FrameOK, Null
    <3>3. CASE frames[f].kind # "query"
      <4>1. frames[f].parent \in DOMAIN frames /\ frames[f].parent < f
        BY <3>1, <3>3 DEF FrameOK, CallOK, Place
      <4>2. frames[f].parent \in 1..StackSize
        BY <1>1, <4>1 DEF FramesIn
      <4>3. QED
        BY <3>1, <4>1, <4>2
    <3>4. QED
      BY <3>2, <3>3
  <2>2. QED
    BY <2>1 DEF Rooted
<1>3. \A a : Ancestors(a) = AncestorsIn(frames, a)
  BY DEF Ancestors, AncestorsIn
<1>4. \A f \in DOMAIN frames : f \in 0..StackSize
  BY <1>1, BoundsAssumption DEF FramesIn
<1>5. \A f \in DOMAIN frames : f \in Ancestors(f) /\ Ancestors(f) \subseteq DOMAIN frames
  <2>1. \A f \in DOMAIN frames : f \in AncestorsIn(frames, f)
    BY <1>2, AncestorsStep
  <2>2. \A f \in DOMAIN frames : \A g \in AncestorsIn(frames, f) : g \in DOMAIN frames
    BY <1>2, <1>4, AncestorsBelow
  <2>3. QED
    BY <1>3, <2>1, <2>2
<1>6. \A c \in Choices : c.fr \in DOMAIN frames
  BY <1>1 DEF StackOK, ChoiceOK
<1>7. Ancestors(Null) \subseteq DOMAIN frames
  <2>1. Null \in 0..StackSize
    BY BoundsAssumption DEF Null
  <2>2. \A g \in AncestorsIn(frames, Null) : g \in DOMAIN frames
    BY <1>2, <2>1, AncestorsBelow
  <2>3. QED
    BY <1>3, <2>2
<1>8. QED
  BY <1>5, <1>6, <1>7 DEF Continuation, AliveWith

\* Things of known size that lie one above the other do not overlap.
LEMMA SizedApart ==
  ASSUME Stacked(frames, cps), FR \in DOMAIN frames \cup {Null},
         NEW sp \in Nat, Sized(frames, ElementsOf(cps), sp),
         status \notin {"throw", "error"} => sp = SP
  PROVE  NoOverlap
<1> DEFINE frameAt(f)  == f..AfterFrame(f) - 1
           choiceAt(c) == c.at..AfterChoice(c) - 1
<1>1. /\ Numbers(frames, Choices) /\ Sized(frames, Choices, sp)
      /\ \A c, d \in Choices : c.at = d.at => c = d
  <2>1. Choices = ElementsOf(cps) /\ cps \in Seq(ChoiceType) /\ Ascending(cps)
    BY DEF Stacked, Choices, ElementsOf
  <2>2. QED
    BY <2>1, StackNumbers, AscendingOnce
<1>2. \A f : AfterFrame(f) = EndOf(frames, f)
  BY DEF AfterFrame, EndOf
<1>3. /\ \A f \in DOMAIN frames : f \in Nat /\ AfterFrame(f) \in Nat /\ AfterFrame(f) <= sp
      /\ \A c \in Choices : /\ c.at \in Nat /\ AfterChoice(c) \in Nat /\ AfterChoice(c) <= sp
                            /\ c.fr \in DOMAIN frames /\ c.cleanup \in {Null, c.fr}
  BY <1>1, <1>2 DEF Numbers, Sized, Restores
<1>4. \A c \in Choices, f \in DOMAIN frames : frameAt(f) \cap choiceAt(c) = {}
  <2>1. \A c \in Choices, f \in DOMAIN frames :
          IF f < c.at THEN AfterFrame(f) <= c.at ELSE AfterChoice(c) <= f
    BY <1>1, <1>2 DEF Sized
  <2>2. QED
    BY <1>3, <2>1
<1>5. \A f, g \in DOMAIN frames : f # g => frameAt(f) \cap frameAt(g) = {}
  <2>1. \A f, g \in DOMAIN frames : f < g => AfterFrame(f) <= g
    BY <1>1, <1>2 DEF Sized
  <2>2. \A f, g \in DOMAIN frames : f < g => frameAt(f) \cap frameAt(g) = {}
    BY <1>3, <2>1
  <2>3. QED
    BY <1>3, <2>2
<1>6. \A c, d \in Choices : c # d => choiceAt(c) \cap choiceAt(d) = {}
  <2>1. \A c, d \in Choices : c.at < d.at => AfterChoice(c) <= d.at
    BY <1>1 DEF Sized
  <2>2. \A c, d \in Choices : c.at < d.at => choiceAt(c) \cap choiceAt(d) = {}
    BY <1>3, <2>1
  <2>3. \A c, d \in Choices : c # d => c.at < d.at \/ d.at < c.at
    BY <1>1, <1>3
  <2>4. QED
    BY <2>2, <2>3
<1>7. /\ Continuation \subseteq DOMAIN frames /\ AliveWith(Choices) \subseteq DOMAIN frames
      /\ \A c \in Choices : c.fr \in AliveWith(Choices)
  BY AliveAreFrames
<1>8. \A c \in Choices : c.cleanup # Null => c.cleanup \in AliveWith(Choices)
  BY <1>3, <1>7
<1>9. QED
  BY <1>3, <1>4, <1>5, <1>6, <1>7, <1>8 DEF NoOverlap, Separate

\* Nothing is written over a frame or a choicepoint that can still be used, whatever the
\* size of the stack and whatever the program: exits, last calls, cuts and backtracking
\* move SP only to where something ends (kernel.c: i_exit, i_depart, cut_to,
\* apply_choicepoint).  The goal of the query must not need cut slots, for which
\* prepare_query does not reserve room (run QueryCondition).
THEOREM NothingOverlaps ==
  ASSUME QueryReserved = 0
  PROVE  Spec => []NoOverlap
<1>1. Init => MemoryInv
  BY InitMemoryInv
<1>2. WellFormed /\ MemoryInv /\ [Next]_vars => MemoryInv'
  BY SizeStep DEF WellFormed, TrailInv
<1>3. WellFormed /\ MemoryInv => NoOverlap
  <2>1. SUFFICES ASSUME WellFormed, MemoryInv PROVE NoOverlap
    OBVIOUS
  <2>2. /\ Stacked(frames, cps) /\ FR \in DOMAIN frames \cup {Null} /\ SP \in Nat
        /\ Sized(frames, ElementsOf(cps), SP)
    BY <2>1 DEF WellFormed, StackInv, MemoryInv, SizeInv
  <2>3. QED
    BY <2>2, SizedApart
<1>4. QED
  BY AlwaysWellFormed, <1>1, <1>2, <1>3, PTL DEF Spec

(***************************************************************************)
(* The clauses that are compiled for a call: each is freed when the frame  *)
(* that owns it is given up, not before a frame that can still run has     *)
(* done with it, not twice, and not too late.                              *)
(*                                                                         *)
(* The frames that can still run are the ancestors of FR and of the frames *)
(* of the choicepoints.  Exits, last calls, cuts and backtracking each     *)
(* decide by comparing addresses whose clauses go: a frame is forgotten if *)
(* it is above a frame (cut_to), or above a choicepoint (backtrack).  The  *)
(* proof shows that addresses tell this: what lies between two places was  *)
(* called from there (Nested), and what was called before a condition was  *)
(* opened lies below the choicepoint that the condition has noted (Apart). *)
(***************************************************************************)

(***************************************************************************)
(* Which frames can still run                                              *)
(***************************************************************************)
\* Every frame has been called by one that is there, or by the host.
Grounded(fs) == Rooted(fs) /\ \A f \in DOMAIN fs : fs[f].parent \in DOMAIN fs \cup {Null}

\* The frames of a stack have been called from below.
LEMMA StackGrounded ==
  ASSUME NEW fs, NEW s, Stacked(fs, s)
  PROVE  /\ Grounded(fs)
         /\ \A f \in DOMAIN fs : fs[f].kind # "query" <=> fs[f].parent # Null
<1>1. ASSUME NEW f \in DOMAIN fs
      PROVE  /\ f \in 1..StackSize /\ fs[f].parent \in 0..StackSize /\ fs[f].parent < f
             /\ fs[f].parent \in DOMAIN fs \cup {Null}
             /\ fs[f].kind # "query" <=> fs[f].parent # Null
  <2>1. f \in 1..StackSize /\ StackSize \in Nat /\ FrameOK(fs, ElementsOf(s), f)
    BY BoundsAssumption DEF Stacked, FramesIn, StackOK
  <2>2. CASE fs[f].kind = "query"
    BY <2>1, <2>2 DEF FrameOK, Null
  <2>3. CASE fs[f].kind # "query"
    <3>1. fs[f].parent \in DOMAIN fs /\ fs[f].parent < f
      BY <2>1, <2>3 DEF FrameOK, CallOK, Place
    <3>2. fs[f].parent \in 1..StackSize
      BY <3>1 DEF Stacked, FramesIn
    <3>3. QED
      BY <2>1, <2>3, <3>1, <3>2 DEF Null
  <2>4. QED
    BY <2>2, <2>3
<1>2. QED
  BY <1>1 DEF Grounded, Rooted

\* The ancestors of frames, one at a time.
LEMMA Ancestry ==
  ASSUME NEW fs, Grounded(fs)
  PROVE  /\ \A f \in DOMAIN fs : f \in Nat /\ 0 < f /\ f <= StackSize /\ fs[f].parent < f
                                 /\ fs[f].parent \in Nat
         /\ \A f \in DOMAIN fs : f \in AncestorsIn(fs, f)
         /\ \A f \in DOMAIN fs : \A e \in AncestorsIn(fs, f) : e \in DOMAIN fs /\ e <= f
         /\ \A f \in DOMAIN fs : fs[f].parent = Null => AncestorsIn(fs, f) = {f}
         /\ \A f \in DOMAIN fs :
              fs[f].parent \in DOMAIN fs => AncestorsIn(fs, f) = {f} \cup AncestorsIn(fs, fs[f].parent)
<1>1. Rooted(fs) /\ StackSize \in Nat
  BY BoundsAssumption DEF Grounded
<1>2. \A f \in DOMAIN fs : f \in 1..StackSize /\ f \in 0..StackSize /\ fs[f].parent \in 0..StackSize
                           /\ fs[f].parent < f
  BY <1>1 DEF Rooted
<1>3. \A f \in DOMAIN fs : AncestorsIn(fs, f) = {f} \cup AncestorsIn(fs, fs[f].parent)
  BY <1>1, AncestorsStep
<1>4. 0 \in 0..StackSize /\ 0 \notin DOMAIN fs
  BY <1>1, <1>2
<1>5. AncestorsIn(fs, 0) = {}
  BY <1>1, <1>4, AncestorsStep
<1>6. \A f \in DOMAIN fs : \A e \in AncestorsIn(fs, f) : e \in DOMAIN fs /\ e <= f
  BY <1>1, <1>2, AncestorsBelow
<1>7. QED
  BY <1>1, <1>2, <1>3, <1>5, <1>6 DEF Null

\* The ancestors of an ancestor of f are those of f that are not above it.
LEMMA AncestorsChain ==
  ASSUME NEW fs, Grounded(fs)
  PROVE  \A f \in DOMAIN fs : \A e \in AncestorsIn(fs, f) :
           AncestorsIn(fs, e) = {x \in AncestorsIn(fs, f) : x <= e}
<1> DEFINE Chained(f) == \A e \in AncestorsIn(fs, f) :
             AncestorsIn(fs, e) = {x \in AncestorsIn(fs, f) : x <= e}
<1>0. /\ \A f \in DOMAIN fs : f \in Nat /\ 0 < f /\ f <= StackSize /\ fs[f].parent < f
      /\ \A f \in DOMAIN fs : f \in AncestorsIn(fs, f)
      /\ \A f \in DOMAIN fs : \A e \in AncestorsIn(fs, f) : e \in DOMAIN fs /\ e <= f
      /\ \A f \in DOMAIN fs : fs[f].parent = Null => AncestorsIn(fs, f) = {f}
      /\ \A f \in DOMAIN fs :
           fs[f].parent \in DOMAIN fs => AncestorsIn(fs, f) = {f} \cup AncestorsIn(fs, fs[f].parent)
  BY Ancestry
<1>1. \A f \in DOMAIN fs : fs[f].parent \in DOMAIN fs \/ fs[f].parent = Null
  BY DEF Grounded
<1>2. StackSize \in Nat
  BY BoundsAssumption
<1>3. PICK P : P = {k \in 0..StackSize : \A f \in DOMAIN fs : f <= k => Chained(f)}
  OBVIOUS
<1>4. 0 \in P
  <2>1. \A f \in DOMAIN fs : ~(f <= 0)
    BY <1>0
  <2>2. QED
    BY <1>2, <1>3, <2>1
<1>5. ASSUME NEW k \in 0..StackSize - 1, k \in P
      PROVE  k + 1 \in P
  <2>1. k + 1 \in 0..StackSize /\ k \in Nat
    BY <1>2
  <2>2. ASSUME NEW f \in DOMAIN fs, f <= k + 1
        PROVE  Chained(f)
    <3>1. CASE f <= k
      BY <1>3, <1>5, <3>1
    <3>2. CASE ~(f <= k)
      <4>1. f = k + 1
        BY <1>0, <2>1, <2>2, <3>2
      <4>2. CASE fs[f].parent = Null
        <5>1. AncestorsIn(fs, f) = {f} /\ f <= f
          BY <1>0, <4>2
        <5>2. QED
          BY <5>1
      <4>3. CASE fs[f].parent \in DOMAIN fs
        <5> DEFINE g == fs[f].parent
        <5>1. g \in DOMAIN fs /\ g <= k /\ AncestorsIn(fs, f) = {f} \cup AncestorsIn(fs, g)
          BY <1>0, <2>1, <4>1, <4>3
        <5>2. Chained(g)
          BY <1>3, <1>5, <5>1
        <5>3. ASSUME NEW e \in AncestorsIn(fs, f)
              PROVE  AncestorsIn(fs, e) = {x \in AncestorsIn(fs, f) : x <= e}
          <6>1. CASE e = f
            <7>1. \A x \in AncestorsIn(fs, f) : x <= e
              BY <1>0, <6>1
            <7>2. QED
              BY <6>1, <7>1
          <6>2. CASE e \in AncestorsIn(fs, g)
            <7>1. AncestorsIn(fs, e) = {x \in AncestorsIn(fs, g) : x <= e}
              BY <5>2, <6>2
            <7>2. e <= g /\ e \in Nat /\ g \in Nat /\ g < f /\ f \in Nat
              BY <1>0, <5>1, <6>2
            <7>3. ~(f <= e)
              BY <7>2
            <7>4. QED
              BY <5>1, <7>1, <7>3
          <6>3. QED
            BY <5>1, <5>3, <6>1, <6>2
        <5>4. QED
          BY <5>3
      <4>4. QED
        BY <1>1, <4>2, <4>3
    <3>3. QED
      BY <3>1, <3>2
  <2>3. QED
    BY <1>3, <2>1, <2>2
<1>6. \A k \in 0..StackSize : k \in P
  BY <1>2, <1>4, <1>5, UpTo
<1>7. StackSize \in P
  BY <1>2, <1>6
<1>8. QED
  BY <1>0, <1>3, <1>7

\* Frames keep their ancestors if the stack changes elsewhere.
LEMMA AncestorsKept ==
  ASSUME NEW fs, NEW gs, Grounded(fs), Grounded(gs),
         \A f \in DOMAIN gs : f \in DOMAIN fs /\ gs[f].parent = fs[f].parent
  PROVE  \A f \in DOMAIN gs : AncestorsIn(gs, f) = AncestorsIn(fs, f)
<1>0. /\ \A f \in DOMAIN fs : f \in Nat /\ 0 < f /\ f <= StackSize /\ fs[f].parent < f
      /\ \A f \in DOMAIN fs : fs[f].parent = Null => AncestorsIn(fs, f) = {f}
      /\ \A f \in DOMAIN fs :
           fs[f].parent \in DOMAIN fs => AncestorsIn(fs, f) = {f} \cup AncestorsIn(fs, fs[f].parent)
  BY Ancestry
<1>1. /\ \A f \in DOMAIN gs : gs[f].parent = Null => AncestorsIn(gs, f) = {f}
      /\ \A f \in DOMAIN gs :
           gs[f].parent \in DOMAIN gs => AncestorsIn(gs, f) = {f} \cup AncestorsIn(gs, gs[f].parent)
      /\ \A f \in DOMAIN gs : gs[f].parent \in DOMAIN gs \/ gs[f].parent = Null
  BY Ancestry DEF Grounded
<1>2. StackSize \in Nat
  BY BoundsAssumption
<1>3. PICK P : P = {k \in 0..StackSize :
                      \A f \in DOMAIN gs : f <= k => AncestorsIn(gs, f) = AncestorsIn(fs, f)}
  OBVIOUS
<1>4. 0 \in P
  <2>1. \A f \in DOMAIN gs : ~(f <= 0)
    BY <1>0
  <2>2. QED
    BY <1>2, <1>3, <2>1
<1>5. ASSUME NEW k \in 0..StackSize - 1, k \in P
      PROVE  k + 1 \in P
  <2>1. k + 1 \in 0..StackSize /\ k \in Nat
    BY <1>2
  <2>2. ASSUME NEW f \in DOMAIN gs, f <= k + 1
        PROVE  AncestorsIn(gs, f) = AncestorsIn(fs, f)
    <3>1. CASE f <= k
      BY <1>3, <1>5, <3>1
    <3>2. CASE ~(f <= k) /\ gs[f].parent = Null
      BY <1>0, <1>1, <3>2
    <3>3. CASE ~(f <= k) /\ gs[f].parent \in DOMAIN gs
      <4>1. f \in Nat /\ gs[f].parent \in Nat /\ gs[f].parent < f /\ gs[f].parent = fs[f].parent
        BY <1>0, <3>3
      <4>2. gs[f].parent <= k
        BY <2>1, <2>2, <4>1
      <4>3. AncestorsIn(gs, gs[f].parent) = AncestorsIn(fs, gs[f].parent)
        BY <1>3, <1>5, <3>3, <4>2
      <4>4. AncestorsIn(gs, f) = {f} \cup AncestorsIn(gs, gs[f].parent)
        BY <1>1, <3>3
      <4>5. AncestorsIn(fs, f) = {f} \cup AncestorsIn(fs, fs[f].parent)
        BY <1>0, <3>3, <4>1
      <4>6. QED
        BY <4>1, <4>3, <4>4, <4>5
    <3>4. QED
      BY <1>1, <3>1, <3>2, <3>3
  <2>3. QED
    BY <1>3, <2>1, <2>2
<1>6. \A k \in 0..StackSize : k \in P
  BY <1>2, <1>4, <1>5, UpTo
<1>7. StackSize \in P
  BY <1>2, <1>6
<1>8. QED
  BY <1>0, <1>3, <1>7

(***************************************************************************)
(* What was pushed since comes from calls made since                       *)
(***************************************************************************)
\* Below top, what was pushed after g was pushed by g or by what it called.
Around(fs, cs, g, top) ==
  /\ \A f \in DOMAIN fs : g < f /\ f < top => g <= fs[f].parent
  /\ \A c \in cs : g <= c.at /\ c.at < top => g <= c.fr

\* So it is at the place of every call and every choicepoint.
Nested(fs, cs) ==
  /\ Grounded(fs)
  /\ \A f \in DOMAIN fs : fs[f].parent # Null => Around(fs, cs, fs[f].parent, f)
  /\ \A c \in cs : /\ c.at \in Nat /\ c.fr \in DOMAIN fs /\ c.fr < c.at
                   /\ Around(fs, cs, c.fr, c.at)

\* Then g is an ancestor of all that was pushed after it.
LEMMA AroundAncestors ==
  ASSUME NEW fs, NEW cs, Nested(fs, cs), NEW g \in DOMAIN fs, NEW top \in Nat, Around(fs, cs, g, top)
  PROVE  /\ \A f \in DOMAIN fs : g <= f /\ f < top => g \in AncestorsIn(fs, f)
         /\ \A c \in cs : g <= c.at /\ c.at < top => g \in AncestorsIn(fs, c.fr)
<1>0. /\ \A f \in DOMAIN fs : f \in Nat /\ 0 < f /\ f <= StackSize /\ fs[f].parent < f
      /\ \A f \in DOMAIN fs : f \in AncestorsIn(fs, f)
      /\ \A f \in DOMAIN fs :
           fs[f].parent \in DOMAIN fs => AncestorsIn(fs, f) = {f} \cup AncestorsIn(fs, fs[f].parent)
      /\ \A f \in DOMAIN fs : fs[f].parent \in DOMAIN fs \/ fs[f].parent = Null
  BY Ancestry DEF Nested, Grounded
<1>1. StackSize \in Nat
  BY BoundsAssumption
<1>2. PICK P : P = {k \in 0..StackSize :
                      \A f \in DOMAIN fs : f <= k /\ g <= f /\ f < top => g \in AncestorsIn(fs, f)}
  OBVIOUS
<1>3. 0 \in P
  <2>1. \A f \in DOMAIN fs : ~(f <= 0)
    BY <1>0
  <2>2. QED
    BY <1>1, <1>2, <2>1
<1>4. ASSUME NEW k \in 0..StackSize - 1, k \in P
      PROVE  k + 1 \in P
  <2>1. k + 1 \in 0..StackSize /\ k \in Nat
    BY <1>1
  <2>2. ASSUME NEW f \in DOMAIN fs, f <= k + 1, g <= f, f < top
        PROVE  g \in AncestorsIn(fs, f)
    <3>1. CASE f = g
      BY <1>0, <3>1
    <3>2. CASE f # g
      <4>1. g < f /\ f \in Nat /\ g \in Nat /\ 0 < g
        BY <1>0, <2>2, <3>2
      <4>2. g <= fs[f].parent
        BY <2>2, <4>1 DEF Around
      <4>3. fs[f].parent \in DOMAIN fs
        BY <1>0, <4>1, <4>2 DEF Null
      <4>4. fs[f].parent \in Nat /\ fs[f].parent < f
        BY <1>0, <4>3
      <4>5. fs[f].parent <= k /\ fs[f].parent < top
        BY <2>1, <2>2, <4>1, <4>4
      <4>6. g \in AncestorsIn(fs, fs[f].parent)
        BY <1>2, <1>4, <4>2, <4>3, <4>5
      <4>7. QED
        BY <1>0, <4>3, <4>6
    <3>3. QED
      BY <3>1, <3>2
  <2>3. QED
    BY <1>2, <2>1, <2>2
<1>5. \A k \in 0..StackSize : k \in P
  BY <1>1, <1>3, <1>4, UpTo
<1>6. StackSize \in P
  BY <1>1, <1>5
<1>7. \A f \in DOMAIN fs : g <= f /\ f < top => g \in AncestorsIn(fs, f)
  BY <1>0, <1>2, <1>6
<1>8. ASSUME NEW c \in cs, g <= c.at, c.at < top
      PROVE  g \in AncestorsIn(fs, c.fr)
  <2>1. g <= c.fr /\ c.fr \in DOMAIN fs /\ c.fr < c.at /\ c.at \in Nat
    BY <1>8 DEF Around, Nested
  <2>2. c.fr \in Nat /\ c.fr < top
    BY <1>0, <1>8, <2>1
  <2>3. QED
    BY <1>7, <2>1, <2>2
<1>9. QED
  BY <1>7, <1>8

\* A frame that can run once h returns could run, too, when a choicepoint between them
\* was pushed.
LEMMA CallersNested ==
  ASSUME NEW fs, NEW cs, Nested(fs, cs), NEW c \in cs
  PROVE  \A h \in DOMAIN fs : \A e \in AncestorsIn(fs, h) :
           e < c.at /\ c.at < h => e \in AncestorsIn(fs, c.fr)
<1>0. /\ \A f \in DOMAIN fs : f \in Nat /\ 0 < f /\ f <= StackSize /\ fs[f].parent < f
      /\ \A f \in DOMAIN fs : fs[f].parent = Null => AncestorsIn(fs, f) = {f}
      /\ \A f \in DOMAIN fs : \A e \in AncestorsIn(fs, f) : e \in DOMAIN fs /\ e <= f
      /\ \A f \in DOMAIN fs :
           fs[f].parent \in DOMAIN fs => AncestorsIn(fs, f) = {f} \cup AncestorsIn(fs, fs[f].parent)
      /\ \A f \in DOMAIN fs : fs[f].parent \in DOMAIN fs \/ fs[f].parent = Null
  BY Ancestry DEF Nested, Grounded
<1>1. StackSize \in Nat /\ c.at \in Nat /\ c.fr \in DOMAIN fs
  BY BoundsAssumption DEF Nested
<1> DEFINE Fine(h) == \A e \in AncestorsIn(fs, h) : e < c.at /\ c.at < h => e \in AncestorsIn(fs, c.fr)
<1>2. PICK P : P = {k \in 0..StackSize : \A h \in DOMAIN fs : h <= k => Fine(h)}
  OBVIOUS
<1>3. 0 \in P
  <2>1. \A f \in DOMAIN fs : ~(f <= 0)
    BY <1>0
  <2>2. QED
    BY <1>1, <1>2, <2>1
<1>4. ASSUME NEW k \in 0..StackSize - 1, k \in P
      PROVE  k + 1 \in P
  <2>1. k + 1 \in 0..StackSize /\ k \in Nat
    BY <1>1
  <2>2. ASSUME NEW h \in DOMAIN fs, h <= k + 1, NEW e \in AncestorsIn(fs, h), e < c.at, c.at < h
        PROVE  e \in AncestorsIn(fs, c.fr)
    <3>1. e # h /\ e \in Nat /\ h \in Nat
      BY <1>0, <1>1, <2>2
    <3>2. fs[h].parent \in DOMAIN fs /\ fs[h].parent # Null
      BY <1>0, <3>1 DEF Null
    <3> DEFINE g == fs[h].parent
    <3>3. g \in Nat /\ g < h /\ g <= k /\ e \in AncestorsIn(fs, g) /\ e <= g
      BY <1>0, <2>1, <2>2, <3>1, <3>2
    <3>4. CASE g <= c.at
      <4>1. Around(fs, cs, g, h)
        BY <3>2 DEF Nested
      <4>2. g \in AncestorsIn(fs, c.fr)
        BY <2>2, <3>1, <3>2, <3>4, <4>1, AroundAncestors
      <4>3. AncestorsIn(fs, g) = {x \in AncestorsIn(fs, c.fr) : x <= g}
        BY <1>1, <4>2, AncestorsChain DEF Nested
      <4>4. QED
        BY <3>3, <4>3
    <3>5. CASE c.at < g
      <4>1. Fine(g)
        BY <1>2, <1>4, <3>2, <3>3
      <4>2. QED
        BY <2>2, <3>3, <3>5, <4>1
    <3>6. QED
      BY <1>1, <3>3, <3>4, <3>5
  <2>3. QED
    BY <1>2, <2>1, <2>2
<1>5. \A k \in 0..StackSize : k \in P
  BY <1>1, <1>3, <1>4, UpTo
<1>6. StackSize \in P
  BY <1>1, <1>5
<1>7. QED
  BY <1>0, <1>2, <1>6

\* The same for what can run at a place in g below top.
LEMMA PlacesNested ==
  ASSUME NEW fs, NEW cs, Nested(fs, cs), NEW g \in DOMAIN fs, NEW top \in Nat, Around(fs, cs, g, top)
  PROVE  \A c \in cs : \A e \in AncestorsIn(fs, g) :
           e < c.at /\ c.at < top => e \in AncestorsIn(fs, c.fr)
<1>1. ASSUME NEW c \in cs, NEW e \in AncestorsIn(fs, g), e < c.at, c.at < top
      PROVE  e \in AncestorsIn(fs, c.fr)
  <2>1. /\ c.at \in Nat /\ c.fr \in DOMAIN fs /\ Grounded(fs) /\ g \in Nat
        /\ e \in AncestorsIn(fs, g) => e <= g
    BY Ancestry DEF Nested
  <2>2. CASE g <= c.at
    <3>1. g \in AncestorsIn(fs, c.fr)
      BY <1>1, <2>2, AroundAncestors
    <3>2. AncestorsIn(fs, g) = {x \in AncestorsIn(fs, c.fr) : x <= g}
      BY <2>1, <3>1, AncestorsChain
    <3>3. QED
      BY <1>1, <3>2
  <2>3. CASE c.at < g
    BY <1>1, <2>3, CallersNested
  <2>4. QED
    BY <2>1, <2>2, <2>3
<1>2. QED
  BY <1>1

(***************************************************************************)
(* What the structure of the stack must be for cuts to give up the right   *)
(* frames, and only those                                                  *)
(***************************************************************************)
\* What was pushed after target t was noted by g has, above g, ancestors above t only:
\* a cut back to t does not reach calls that were made before.
Apart(fs, cs, g, p, top) ==
  \A t \in Noted(fs, g, p) : \A c \in cs :
    t < c.at /\ c.at < top => \A f \in AncestorsIn(fs, c.fr) : g < f => t < f

\* Choicepoints that are newer than that of a frame were pushed after the frame.
Since(fs, cs) == \A f \in DOMAIN fs, c \in cs : fs[f].choicepoint < c.at => f < c.at

\* A choicepoint resumes the clause that its frame runs; only programs with cleanup
\* handlers have choicepoints for them; what a frame owns is a clause.
Labelled(fs, cs) ==
  /\ \A c \in cs : c.clause = fs[c.fr].clause /\ (c.cleanup # Null => "cleanup" \in uses)
  /\ \A f \in DOMAIN fs : fs[f].isLocal => fs[f].clause # Null

\* What holds of the stack besides its form, for each place to which control can come back
Tidy(fs, cs) ==
  /\ \A c \in cs : Around(fs, cs, c.fr, c.at) /\ (c.pc # NoPC => Apart(fs, cs, c.fr, c.pc, c.at))
  /\ \A f \in DOMAIN fs : fs[f].parent # Null => Apart(fs, cs, fs[f].parent, fs[f].ret, f)
  /\ Since(fs, cs)
  /\ Labelled(fs, cs)

\* A stack that is well formed and tidy is nested.
LEMMA StackNested ==
  ASSUME NEW fs, NEW s, Stacked(fs, s), Tidy(fs, ElementsOf(s))
  PROVE  Nested(fs, ElementsOf(s))
<1>1. Grounded(fs) /\ \A f \in DOMAIN fs : fs[f].kind # "query" <=> fs[f].parent # Null
  BY StackGrounded
<1>2. \A f \in DOMAIN fs : fs[f].parent # Null => Around(fs, ElementsOf(s), fs[f].parent, f)
  BY <1>1 DEF Stacked, StackOK, FrameOK, CallOK, Place, Younger, Around
<1>3. \A c \in ElementsOf(s) : c.at \in Nat
  BY ChoicesAreTyped DEF Stacked, ChoicesTyped
<1>4. \A c \in ElementsOf(s) : c.fr \in DOMAIN fs /\ c.fr < c.at
  BY DEF Stacked, StackOK, ChoiceOK
<1>5. QED
  BY <1>1, <1>2, <1>3, <1>4 DEF Nested, Tidy

\* The stack stays tidy when it loses choicepoints and frames, when frames give up their
\* clauses, and when a frame notes a target that no other place looks at.
LEMMA TidyKept ==
  ASSUME NEW fs, NEW gs, NEW cs, NEW ds \in SUBSET cs, Grounded(fs), Grounded(gs), Tidy(fs, cs),
         \A c \in ds : c.fr \in DOMAIN gs /\ c.at \in Nat,
         \A f \in DOMAIN gs :
           /\ f \in DOMAIN fs /\ gs[f].parent = fs[f].parent /\ gs[f].ret = fs[f].ret
           /\ fs[f].choicepoint \in Nat /\ gs[f].choicepoint \in Nat
           /\ fs[f].choicepoint <= gs[f].choicepoint
           /\ gs[f].clause = fs[f].clause /\ (gs[f].isLocal => fs[f].isLocal),
         \A f \in DOMAIN gs :
           fs[f].parent # Null => Noted(gs, fs[f].parent, fs[f].ret) \subseteq Noted(fs, fs[f].parent, fs[f].ret),
         \A c \in ds : c.pc # NoPC => Noted(gs, c.fr, c.pc) \subseteq Noted(fs, c.fr, c.pc)
  PROVE  Tidy(gs, ds)
<1>1. \A c \in ds : AncestorsIn(gs, c.fr) = AncestorsIn(fs, c.fr)
  BY AncestorsKept
<1>2. \A g, p, top : Apart(fs, cs, g, p, top) /\ Noted(gs, g, p) \subseteq Noted(fs, g, p)
                     => Apart(gs, ds, g, p, top)
  BY <1>1 DEF Apart
<1>3. \A g, top : Around(fs, cs, g, top) => Around(gs, ds, g, top)
  BY DEF Around
<1>4. ASSUME NEW c \in ds
      PROVE  Around(gs, ds, c.fr, c.at) /\ (c.pc # NoPC => Apart(gs, ds, c.fr, c.pc, c.at))
  BY <1>2, <1>3 DEF Tidy
<1>5. ASSUME NEW f \in DOMAIN gs, gs[f].parent # Null
      PROVE  Apart(gs, ds, gs[f].parent, gs[f].ret, f)
  <2>1. Apart(fs, cs, fs[f].parent, fs[f].ret, f)
    BY <1>5 DEF Tidy
  <2>2. QED
    BY <1>2, <1>5, <2>1
<1>6. Since(gs, ds)
  BY DEF Since, Tidy
<1>7. Labelled(gs, ds)
  BY DEF Labelled, Tidy
<1>8. QED
  BY <1>4, <1>5, <1>6, <1>7 DEF Tidy

\* A place keeps apart from what remains.
LEMMA ApartKept ==
  ASSUME NEW fs, NEW gs, NEW cs, NEW ds \in SUBSET cs, Grounded(fs), Grounded(gs),
         \A c \in ds : c.fr \in DOMAIN gs,
         \A f \in DOMAIN gs : f \in DOMAIN fs /\ gs[f].parent = fs[f].parent,
         NEW g, NEW p, NEW q, NEW top, NEW new, Apart(fs, cs, g, p, top),
         Noted(gs, g, q) \subseteq Noted(fs, g, p),
         \A c \in ds : c.at < new => c.at < top
  PROVE  Apart(gs, ds, g, q, new)
<1>1. \A c \in ds : AncestorsIn(gs, c.fr) = AncestorsIn(fs, c.fr)
  BY AncestorsKept
<1>2. QED
  BY <1>1 DEF Apart

\* A choicepoint is pushed.
LEMMA TidyChoice ==
  ASSUME NEW fs, NEW cs, NEW g, NEW sp \in Nat, NEW c, Grounded(fs), Tidy(fs, cs),
         g \in DOMAIN fs, \A f \in DOMAIN fs : f < sp,
         \A d \in cs : d.at \in Nat /\ d.at < sp,
         Around(fs, cs, g, sp), c.at = sp, c.fr = g,
         c.clause = fs[g].clause, c.cleanup # Null => "cleanup" \in uses,
         c.pc # NoPC => Apart(fs, cs, g, c.pc, sp)
  PROVE  /\ Tidy(fs, cs \cup {c})
         /\ \A top : Around(fs, cs \cup {c}, g, top)
         /\ \A p, top : Apart(fs, cs, g, p, sp) => Apart(fs, cs \cup {c}, g, p, top)
<1>0. /\ \A f \in DOMAIN fs : f \in Nat
      /\ \A f \in DOMAIN fs : \A e \in AncestorsIn(fs, f) : e \in DOMAIN fs /\ e <= f
  BY Ancestry
<1>1. \A h, top : /\ Around(fs, cs, h, top)
                  /\ c.at < top /\ h <= c.at => h <= c.fr
                  => Around(fs, cs \cup {c}, h, top)
  BY DEF Around
<1>2. \A h, p, top : Apart(fs, cs, h, p, top) /\ ~(c.at < top) => Apart(fs, cs \cup {c}, h, p, top)
  BY DEF Apart
<1>3. \A top : Around(fs, cs \cup {c}, g, top)
  BY <1>0 DEF Around
<1>4. \A f \in AncestorsIn(fs, g) : ~(g < f)
  BY <1>0
<1>5. \A p, top : Apart(fs, cs, g, p, sp) => Apart(fs, cs \cup {c}, g, p, top)
  BY <1>4 DEF Apart
<1>6. ASSUME NEW d \in cs \cup {c}
      PROVE  /\ Around(fs, cs \cup {c}, d.fr, d.at)
             /\ d.pc # NoPC => Apart(fs, cs \cup {c}, d.fr, d.pc, d.at)
  <2>1. CASE d = c
    BY <1>3, <1>5, <2>1
  <2>2. CASE d \in cs
    <3>1. ~(c.at < d.at)
      BY <2>2
    <3>2. Around(fs, cs, d.fr, d.at) /\ (d.pc # NoPC => Apart(fs, cs, d.fr, d.pc, d.at))
      BY <2>2 DEF Tidy
    <3>3. QED
      BY <1>1, <1>2, <3>1, <3>2
  <2>3. QED
    BY <2>1, <2>2
<1>7. ASSUME NEW f \in DOMAIN fs, fs[f].parent # Null
      PROVE  Apart(fs, cs \cup {c}, fs[f].parent, fs[f].ret, f)
  <2>1. ~(c.at < f)
    BY <1>0
  <2>2. Apart(fs, cs, fs[f].parent, fs[f].ret, f)
    BY <1>7 DEF Tidy
  <2>3. QED
    BY <1>2, <2>1, <2>2
<1>8. Since(fs, cs \cup {c}) /\ Labelled(fs, cs \cup {c})
  BY DEF Since, Labelled, Tidy
<1>9. QED
  BY <1>3, <1>5, <1>6, <1>7, <1>8 DEF Tidy

\* A frame is pushed.
LEMMA TidyFrame ==
  ASSUME NEW fs, NEW cs, NEW h \in DOMAIN fs, NEW r, NEW at \in Nat, NEW b,
         Grounded(fs), Grounded(Put(fs, at, b)), Tidy(fs, cs),
         \A f \in DOMAIN fs : f < at,
         \A d \in cs : d.at \in Nat /\ d.at < at /\ d.fr \in DOMAIN fs /\ d.at <= b.choicepoint,
         b.parent = h, b.ret = r, b.choicepoint \in Nat, b.isLocal => b.clause # Null,
         Apart(fs, cs, h, r, at)
  PROVE  /\ Tidy(Put(fs, at, b), cs)
         /\ \A f \in DOMAIN fs : AncestorsIn(Put(fs, at, b), f) = AncestorsIn(fs, f)
         /\ AncestorsIn(Put(fs, at, b), at) = {at} \cup AncestorsIn(fs, h)
<1> DEFINE gs == Put(fs, at, b)
<1>1. /\ DOMAIN gs = DOMAIN fs \cup {at} /\ gs[at] = b
      /\ \A f \in DOMAIN fs : f # at /\ gs[f] = fs[f]
      /\ \A f \in DOMAIN fs : f \in Nat
  <2>1. \A f \in DOMAIN fs : f \in Nat
    BY Ancestry
  <2>2. QED
    BY <2>1 DEF Put
<1> HIDE DEF gs
<1>2. Grounded(gs)
  BY DEF gs
<1>3. \A f \in DOMAIN fs : AncestorsIn(gs, f) = AncestorsIn(fs, f)
  <2>1. \A f \in DOMAIN fs : f \in DOMAIN gs /\ fs[f].parent = gs[f].parent
    BY <1>1
  <2>2. \A f \in DOMAIN fs : AncestorsIn(fs, f) = AncestorsIn(gs, f)
    BY <1>2, <2>1, AncestorsKept
  <2>3. QED
    BY <2>2
<1>4. AncestorsIn(gs, at) = {at} \cup AncestorsIn(fs, h)
  <2>1. at \in DOMAIN gs /\ gs[at].parent = h /\ h \in DOMAIN gs
    BY <1>1
  <2>2. AncestorsIn(gs, at) = {at} \cup AncestorsIn(gs, h)
    BY <1>2, <2>1, Ancestry
  <2>3. QED
    BY <1>3, <2>2
<1>5. \A g \in DOMAIN fs : \A p : Noted(gs, g, p) = Noted(fs, g, p)
  BY <1>1 DEF Noted
<1>6. \A g \in DOMAIN fs : \A p, top : Apart(fs, cs, g, p, top) => Apart(gs, cs, g, p, top)
  BY <1>3, <1>5 DEF Apart
<1>7. ASSUME NEW c \in cs
      PROVE  Around(gs, cs, c.fr, c.at) /\ (c.pc # NoPC => Apart(gs, cs, c.fr, c.pc, c.at))
  <2>1. Around(fs, cs, c.fr, c.at) /\ (c.pc # NoPC => Apart(fs, cs, c.fr, c.pc, c.at))
        /\ ~(at < c.at)
    BY DEF Tidy
  <2>2. Around(gs, cs, c.fr, c.at)
    BY <1>1, <2>1 DEF Around
  <2>3. QED
    BY <1>6, <2>1, <2>2
<1>8. ASSUME NEW f \in DOMAIN gs, gs[f].parent # Null
      PROVE  Apart(gs, cs, gs[f].parent, gs[f].ret, f)
  <2>1. CASE f = at
    BY <1>1, <1>6, <2>1
  <2>2. CASE f # at
    <3>1. f \in DOMAIN fs /\ gs[f] = fs[f]
      BY <1>1, <2>2
    <3>2. fs[f].parent \in DOMAIN fs
      BY <1>8, <3>1 DEF Grounded
    <3>3. QED
      BY <1>6, <1>8, <3>1, <3>2 DEF Tidy
  <2>3. QED
    BY <2>1, <2>2
<1>9. Since(gs, cs)
  <2>1. \A c \in cs : ~(b.choicepoint < c.at)
    OBVIOUS
  <2>2. QED
    BY <1>1, <2>1 DEF Since, Tidy
<1>10. Labelled(gs, cs)
  BY <1>1 DEF Labelled, Tidy
<1>11. QED
  BY <1>3, <1>4, <1>7, <1>8, <1>9, <1>10 DEF Tidy, gs

\* When the call of f returns, what was pushed since lies above it and has it for an
\* ancestor, so the caller's place keeps apart.
LEMMA ApartReturn ==
  ASSUME NEW fs, NEW cs, Nested(fs, cs), Tidy(fs, cs), NEW f \in DOMAIN fs, NEW top \in Nat,
         Around(fs, cs, f, top), \A c \in cs : c.at < top,
         NEW h \in DOMAIN fs, h = fs[f].parent, NEW r, r = fs[f].ret,
         \A t \in Noted(fs, h, r) : t \in Nat /\ t < f,
         NEW new
  PROVE  Apart(fs, cs, h, r, new)
<1>0. /\ \A e \in DOMAIN fs : e \in Nat /\ 0 < e /\ fs[e].parent < e
      /\ \A e \in DOMAIN fs : \A x \in AncestorsIn(fs, e) : x \in DOMAIN fs /\ x <= e
      /\ AncestorsIn(fs, f) = {f} \cup AncestorsIn(fs, h)
      /\ Grounded(fs) /\ \A c \in cs : c.at \in Nat /\ c.fr \in DOMAIN fs
  BY Ancestry DEF Nested
<1>1. Apart(fs, cs, h, r, f)
  BY <1>0 DEF Tidy, Null
<1>2. ASSUME NEW t \in Noted(fs, h, r), NEW c \in cs, t < c.at,
             NEW e \in AncestorsIn(fs, c.fr), h < e
      PROVE  t < e
  <2>1. CASE c.at < f
    BY <1>1, <1>2, <2>1 DEF Apart
  <2>2. CASE ~(c.at < f)
    <3>1. f <= c.at /\ c.at < top
      BY <1>0, <2>2
    <3>2. f \in AncestorsIn(fs, c.fr)
      BY <3>1, AroundAncestors
    <3>3. AncestorsIn(fs, f) = {x \in AncestorsIn(fs, c.fr) : x <= f}
      BY <1>0, <3>2, AncestorsChain
    <3>4. e \in DOMAIN fs /\ e \in Nat /\ h \in Nat /\ f \in Nat /\ h < f
      BY <1>0, <1>2
    <3>5. CASE e < f
      <4>1. e \in AncestorsIn(fs, f) /\ e # f
        BY <3>3, <3>4, <3>5
      <4>2. e \in AncestorsIn(fs, h)
        BY <1>0, <4>1
      <4>3. e <= h
        BY <1>0, <4>2
      <4>4. QED
        BY <1>2, <3>4, <4>3
    <3>6. CASE ~(e < f)
      BY <1>2, <3>4, <3>6
    <3>7. QED
      BY <3>5, <3>6
  <2>3. QED
    BY <2>1, <2>2
<1>3. QED
  BY <1>2 DEF Apart

(***************************************************************************)
(* Owning clauses                                                          *)
(***************************************************************************)
\* The frames that can still run when execution goes on in g
Live(fs, cs, g) == AncestorsIn(fs, g) \cup UNION {AncestorsIn(fs, c.fr) : c \in cs}

\* The clauses that the frames of A own
OwnedBy(fs, A) == {fs[f].clause : f \in {g \in A : fs[g].isLocal}}

\* Every clause of a frame of A that was compiled for a call is there, and has one owner.
Owners(fs, A, own) ==
  /\ \A f \in A : fs[f].clause # Null => fs[f].isLocal /\ fs[f].clause \in own
  /\ \A f, g \in A : fs[f].isLocal /\ fs[g].isLocal /\ f # g => fs[f].clause # fs[g].clause

\* No clause is left without one.
NoOrphans(fs, A, own) == own \subseteq OwnedBy(fs, A)

\* Two versions of a frame that own the same clause, or none
SameOwner(a, b) == a.clause = b.clause /\ a.isLocal = b.isLocal

\* A frame can still run if it continues what runs, or what a choicepoint resumes.
LEMMA LiveFrames ==
  ASSUME NEW fs, NEW cs, NEW g
  PROVE  \A f : f \in Live(fs, cs, g) <=> \/ f \in AncestorsIn(fs, g)
                                          \/ \E c \in cs : f \in AncestorsIn(fs, c.fr)
BY DEF Live

\* The frames that can still run are frames.
LEMMA LiveAreFrames ==
  ASSUME NEW fs, NEW cs, NEW g \in DOMAIN fs, Grounded(fs), \A c \in cs : c.fr \in DOMAIN fs
  PROVE  Live(fs, cs, g) \subseteq DOMAIN fs
<1>1. \A f \in DOMAIN fs : \A e \in AncestorsIn(fs, f) : e \in DOMAIN fs
  BY Ancestry
<1>2. QED
  BY <1>1, LiveFrames

\* The clauses of frames that cannot run any more are freed: no other frame runs one.
LEMMA OwnersPass ==
  ASSUME NEW fs, NEW A, NEW own, Owners(fs, A, own), \A f \in A : fs[f].isLocal => fs[f].clause # Null,
         NEW gs, NEW B \in SUBSET A, NEW gone \in SUBSET A, gone \cap B = {},
         \A f \in B : SameOwner(gs[f], fs[f])
  PROVE  Owners(gs, B, own \ OwnedBy(fs, gone))
<1>1. ASSUME NEW f \in B, gs[f].clause # Null
      PROVE  gs[f].isLocal /\ gs[f].clause \in own \ OwnedBy(fs, gone)
  <2>1. fs[f].isLocal /\ fs[f].clause \in own /\ gs[f].clause = fs[f].clause /\ gs[f].isLocal = fs[f].isLocal
    BY <1>1 DEF Owners, SameOwner
  <2>2. fs[f].clause \notin OwnedBy(fs, gone)
    BY <2>1 DEF OwnedBy, Owners
  <2>3. QED
    BY <2>1, <2>2
<1>2. ASSUME NEW f \in B, NEW g \in B, gs[f].isLocal, gs[g].isLocal, f # g
      PROVE  gs[f].clause # gs[g].clause
  <2>1. gs[f].clause = fs[f].clause /\ gs[g].clause = fs[g].clause /\ fs[f].isLocal /\ fs[g].isLocal
    BY <1>2 DEF SameOwner
  <2>2. QED
    BY <1>2, <2>1 DEF Owners
<1>3. QED
  BY <1>1, <1>2 DEF Owners

\* If those that lose their owner are freed, every clause has one.
LEMMA OrphansPass ==
  ASSUME NEW fs, NEW A, NEW own, NoOrphans(fs, A, own), NEW gs, NEW B, NEW gone,
         \A f \in A : fs[f].isLocal /\ f \notin gone => f \in B /\ SameOwner(gs[f], fs[f])
  PROVE  NoOrphans(gs, B, own \ OwnedBy(fs, gone))
<1>1. ASSUME NEW x \in own, x \notin OwnedBy(fs, gone)
      PROVE  x \in OwnedBy(gs, B)
  <2>1. PICK f \in A : fs[f].isLocal /\ fs[f].clause = x
    BY DEF NoOrphans, OwnedBy
  <2>2. f \notin gone
    BY <1>1, <2>1 DEF OwnedBy
  <2>3. f \in B /\ gs[f].clause = x /\ gs[f].isLocal
    BY <2>1, <2>2 DEF SameOwner
  <2>4. QED
    BY <2>3 DEF OwnedBy
<1>2. QED
  BY <1>1 DEF NoOrphans

\* A frame that is pushed owns the clause it runs, if that was compiled for it.
LEMMA OwnersPush ==
  ASSUME NEW fs, NEW A, NEW own, NEW gs, NEW at, NEW k, at \notin A,
         \A f \in A : gs[f] = fs[f], gs[at].clause = k, gs[at].isLocal <=> k # Null,
         NEW new, new = IF k = Null THEN own ELSE own \cup {k}, k = Null \/ k \notin own
  PROVE  /\ /\ Owners(fs, A, own)
            /\ \A f \in A : fs[f].isLocal => fs[f].clause # Null
            => Owners(gs, A \cup {at}, new)
         /\ NoOrphans(fs, A, own) => NoOrphans(gs, A \cup {at}, new)
<1>1. ASSUME Owners(fs, A, own), \A f \in A : fs[f].isLocal => fs[f].clause # Null
      PROVE  Owners(gs, A \cup {at}, new)
  <2>1. ASSUME NEW f \in A \cup {at}, gs[f].clause # Null
        PROVE  gs[f].isLocal /\ gs[f].clause \in new
    BY <1>1, <2>1 DEF Owners
  <2>2. \A f \in A : fs[f].isLocal => fs[f].clause \in own
    BY <1>1 DEF Owners
  <2>3. ASSUME NEW f \in A \cup {at}, NEW g \in A \cup {at}, gs[f].isLocal, gs[g].isLocal, f # g
        PROVE  gs[f].clause # gs[g].clause
    <3>1. CASE f = at
      BY <2>2, <2>3, <3>1
    <3>2. CASE g = at
      BY <2>2, <2>3, <3>2
    <3>3. CASE f # at /\ g # at
      BY <1>1, <2>3, <3>3 DEF Owners
    <3>4. QED
      BY <3>1, <3>2, <3>3
  <2>4. QED
    BY <2>1, <2>3 DEF Owners
<1>2. ASSUME NoOrphans(fs, A, own)
      PROVE  NoOrphans(gs, A \cup {at}, new)
  <2>1. ASSUME NEW x \in new
        PROVE  x \in OwnedBy(gs, A \cup {at})
    <3>1. CASE x \in own
      <4>1. PICK f \in A : fs[f].isLocal /\ fs[f].clause = x
        BY <1>2, <3>1 DEF NoOrphans, OwnedBy
      <4>2. f \in A \cup {at} /\ gs[f].isLocal /\ gs[f].clause = x
        BY <4>1
      <4>3. QED
        BY <4>2 DEF OwnedBy
    <3>2. CASE x \notin own
      <4>1. gs[at].isLocal /\ gs[at].clause = x
        BY <2>1, <3>2
      <4>2. QED
        BY <4>1 DEF OwnedBy
    <3>3. QED
      BY <3>1, <3>2
  <2>2. QED
    BY <2>1 DEF NoOrphans
<1>3. QED
  BY <1>1, <1>2

(***************************************************************************)
(* The stages of an instruction: a frame is pushed                         *)
(***************************************************************************)
\* Nothing is noted where no condition is open.
LEMMA NothingNoted ==
  ASSUME NEW p, p.open = <<>>
  PROVE  /\ \A fs, g : Noted(fs, g, p) = {}
         /\ \A fs, cs, g, top : Apart(fs, cs, g, p, top)
<1>1. DOMAIN p.open = {}
  OBVIOUS
<1>2. \A fs, g : Noted(fs, g, p) = {}
  BY <1>1 DEF Noted
<1>3. QED
  BY <1>2 DEF Apart

\* What is known of a stack on which execution can go on
Sound(fs, s, g, p, sp) ==
  /\ Ready(fs, s, g, p, sp)
  /\ Tidy(fs, ElementsOf(s))
  /\ Apart(fs, ElementsOf(s), g, p, sp)

\* What is known of a stack below sp that frame g has to itself, whether or not execution can
\* go on there
Standing(fs, s, g, sp) ==
  /\ Stacked(fs, s) /\ Tidy(fs, ElementsOf(s))
  /\ g \in DOMAIN fs /\ sp \in Nat
  /\ \A f \in DOMAIN fs : f < sp
  /\ \A c \in ElementsOf(s) : c.at < sp
  /\ Around(fs, ElementsOf(s), g, sp)

\* How the parts of such a stack lie; and the frames that can still run are frames.
LEMMA StandingProvides ==
  ASSUME NEW fs, NEW s, NEW g, NEW sp, Standing(fs, s, g, sp)
  PROVE  /\ Nested(fs, ElementsOf(s)) /\ Grounded(fs)
         /\ g \in DOMAIN fs /\ sp \in Nat /\ g < sp
         /\ Around(fs, ElementsOf(s), g, sp)
         /\ \A f \in DOMAIN fs : f \in Nat /\ 0 < f /\ f < sp /\ (fs[f].isLocal => fs[f].clause # Null)
         /\ \A c \in ElementsOf(s) : c.at \in Nat /\ c.at < sp /\ c.fr \in DOMAIN fs /\ c.fr < c.at
         /\ Live(fs, ElementsOf(s), g) \subseteq DOMAIN fs
<1>1. /\ Stacked(fs, s) /\ Tidy(fs, ElementsOf(s)) /\ Around(fs, ElementsOf(s), g, sp)
      /\ g \in DOMAIN fs /\ sp \in Nat
      /\ \A f \in DOMAIN fs : f < sp
      /\ \A c \in ElementsOf(s) : c.at < sp
  BY DEF Standing
<1>2. Nested(fs, ElementsOf(s)) /\ Grounded(fs)
  BY <1>1, StackNested DEF Nested
<1>3. \A f \in DOMAIN fs : f \in Nat /\ 0 < f /\ f < sp /\ (fs[f].isLocal => fs[f].clause # Null)
  BY <1>1, <1>2, Ancestry DEF Tidy, Labelled
<1>4. \A c \in ElementsOf(s) : c.at \in Nat /\ c.at < sp /\ c.fr \in DOMAIN fs /\ c.fr < c.at
  BY <1>1, <1>2 DEF Nested
<1>5. Live(fs, ElementsOf(s), g) \subseteq DOMAIN fs
  BY <1>1, <1>2, <1>4, LiveAreFrames
<1>6. QED
  BY <1>1, <1>2, <1>3, <1>4, <1>5

\* A sound stack is one.
LEMMA SoundStands ==
  ASSUME NEW fs, NEW s, NEW g, NEW p, NEW sp, Sound(fs, s, g, p, sp)
  PROVE  Standing(fs, s, g, sp)
<1>1. Ready(fs, s, g, p, sp) /\ Tidy(fs, ElementsOf(s))
  BY DEF Sound
<1>2. Stacked(fs, s) /\ RunsAt(fs, ElementsOf(s), g, p, sp) /\ sp \in Nat
  BY <1>1 DEF Ready
<1>3. g \in DOMAIN fs /\ Around(fs, ElementsOf(s), g, sp)
  BY <1>2 DEF RunsAt, Place, Younger, Around
<1>4. QED
  BY <1>1, <1>2, <1>3 DEF Standing, RunsAt

\* What the proofs below use of a sound stack.
LEMMA SoundProvides ==
  ASSUME NEW fs, NEW s, NEW g, NEW p, NEW sp, Sound(fs, s, g, p, sp)
  PROVE  /\ Nested(fs, ElementsOf(s)) /\ Grounded(fs)
         /\ g \in DOMAIN fs /\ sp \in Nat /\ g < sp
         /\ Around(fs, ElementsOf(s), g, sp)
         /\ \A f \in DOMAIN fs : f \in Nat /\ 0 < f /\ f < sp /\ (fs[f].isLocal => fs[f].clause # Null)
         /\ \A c \in ElementsOf(s) : /\ c.at \in Nat /\ c.at < sp /\ c.fr \in DOMAIN fs /\ c.fr < c.at
                                     /\ c.at <= Top(s)
         /\ Live(fs, ElementsOf(s), g) \subseteq DOMAIN fs
<1>1. Standing(fs, s, g, sp)
  BY SoundStands
<1>2. \A c \in ElementsOf(s) : c.at <= Top(s)
  BY ReadyProvides DEF Sound
<1>3. QED
  BY <1>1, <1>2, StandingProvides

\* A frame is pushed, with the clause it runs if that was compiled for the call.
LEMMA CallStage ==
  ASSUME NEW fs, NEW s, NEW h, NEW r, NEW at, Sound(fs, s, h, r, at),
         NEW kind, NEW clause, NEW n, Push(fs, at, Frame(kind, h, Top(s), clause, n, r)),
         NEW p, p.open = <<>>, Ready(frames', s, FR', p, SP'),
         NEW kept, owned' = IF clause = Null THEN kept ELSE kept \cup {clause},
         clause = Null \/ clause \notin kept
  PROVE  /\ Sound(frames', s, FR', p, SP')
         /\ Owners(fs, Live(fs, ElementsOf(s), h), kept)
              => Owners(frames', Live(frames', ElementsOf(s), FR'), owned')
         /\ NoOrphans(fs, Live(fs, ElementsOf(s), h), kept)
              => NoOrphans(frames', Live(frames', ElementsOf(s), FR'), owned')
<1> DEFINE cs == ElementsOf(s)
           A  == Live(fs, cs, h)
<1>1. PICK b : b = Frame(kind, h, Top(s), clause, n, r)
  OBVIOUS
<1>2. /\ b.parent = h /\ b.ret = r /\ b.choicepoint = Top(s) /\ b.clause = clause
      /\ b.isLocal <=> clause # Null
  BY <1>1 DEF Frame
<1>3. frames' = Put(fs, at, b) /\ FR' = at
  BY <1>1 DEF Push
<1>4. /\ Nested(fs, cs) /\ Grounded(fs) /\ h \in DOMAIN fs /\ at \in Nat
      /\ \A f \in DOMAIN fs : f \in Nat /\ f < at /\ (fs[f].isLocal => fs[f].clause # Null)
      /\ \A c \in cs : c.at \in Nat /\ c.at < at /\ c.fr \in DOMAIN fs /\ c.at <= Top(s)
      /\ A \subseteq DOMAIN fs
  BY SoundProvides
<1>5. Grounded(frames') /\ Top(s) \in Nat
  BY StackGrounded, ReadyProvides DEF Ready
<1>6. /\ Tidy(Put(fs, at, b), cs)
      /\ \A f \in DOMAIN fs : AncestorsIn(Put(fs, at, b), f) = AncestorsIn(fs, f)
      /\ AncestorsIn(Put(fs, at, b), at) = {at} \cup AncestorsIn(fs, h)
  <2>1. Tidy(fs, cs) /\ Apart(fs, cs, h, r, at) /\ Grounded(Put(fs, at, b))
    BY <1>3, <1>5 DEF Sound
  <2>2. /\ \A f \in DOMAIN fs : f < at
        /\ \A d \in cs : d.at \in Nat /\ d.at < at /\ d.fr \in DOMAIN fs /\ d.at <= b.choicepoint
        /\ b.parent = h /\ b.ret = r /\ b.choicepoint \in Nat /\ (b.isLocal => b.clause # Null)
        /\ h \in DOMAIN fs /\ at \in Nat
    BY <1>2, <1>4, <1>5
  <2> HIDE DEF A, cs
  <2>3. Grounded(fs)
    BY <1>4
  <2>4. QED
    BY <2>1, <2>2, <2>3, TidyFrame
<1>7. Live(frames', cs, at) = A \cup {at} /\ at \notin A
  <2>1. \A c \in cs : AncestorsIn(frames', c.fr) = AncestorsIn(fs, c.fr)
    BY <1>3, <1>4, <1>6
  <2>2. AncestorsIn(frames', at) = {at} \cup AncestorsIn(fs, h)
    BY <1>3, <1>6
  <2>3. \A f : f \in Live(frames', cs, at) <=> f = at \/ f \in A
    BY <2>1, <2>2, LiveFrames
  <2>4. QED
    BY <1>4, <2>3
<1>8. \A f \in A : frames'[f] = fs[f]
  BY <1>3, <1>4 DEF Put
<1>9. frames'[at] = b
  BY <1>3 DEF Put
<1>10. \A f \in A : fs[f].isLocal => fs[f].clause # Null
  BY <1>4
<1> HIDE DEF A, cs
<1>11. /\ Owners(fs, A, kept) => Owners(frames', A \cup {at}, owned')
       /\ NoOrphans(fs, A, kept) => NoOrphans(frames', A \cup {at}, owned')
  <2>1. /\ frames'[at].clause = clause
        /\ frames'[at].isLocal <=> clause # Null
    BY <1>2, <1>9
  <2>2. QED
    BY <1>7, <1>8, <1>10, <2>1, OwnersPush
<1>12. Sound(frames', s, FR', p, SP')
  BY <1>3, <1>6, NothingNoted DEF Sound, cs
<1>13. QED
  BY <1>3, <1>7, <1>11, <1>12 DEF A, cs

\* call/1 pushes the frame of a goal that it has compiled.
LEMMA UserCallStage ==
  ASSUME NEW fs, NEW s, NEW h, NEW r, NEW at, Sound(fs, s, h, r, at),
         r.phase \in {"body", "exitcatch", "query"},
         NEW kept \in SUBSET (1..MaxLocals), UserCall(h, at, fs, s, kept, r)
  PROVE  /\ Sound(frames', s, FR', pos', SP')
         /\ Owners(fs, Live(fs, ElementsOf(s), h), kept)
              => Owners(frames', Live(frames', ElementsOf(s), FR'), owned')
         /\ NoOrphans(fs, Live(fs, ElementsOf(s), h), kept)
              => NoOrphans(frames', Live(frames', ElementsOf(s), FR'), owned')
<1>1. Ready(frames', s, FR', pos', SP')
  BY UserCalls DEF Sound
<1>2. PICK clause \in 1..MaxLocals :
        /\ Fresh(clause, kept) /\ owned' = kept \cup {clause}
        /\ \E n \in 0..MaxSlots : Push(fs, at, Frame("pred", h, Top(s), clause, n, r))
  BY DEF UserCall
<1>3. PICK n : Push(fs, at, Frame("pred", h, Top(s), clause, n, r))
  BY <1>2
<1>4. clause # Null /\ clause \notin kept /\ pos'.open = <<>>
  BY <1>2, BoundsAssumption DEF Null, Fresh, UserCall, At
<1>5. owned' = IF clause = Null THEN kept ELSE kept \cup {clause}
  BY <1>2, <1>4
<1>6. QED
  BY <1>1, <1>3, <1>4, <1>5, CallStage

(***************************************************************************)
(* The stages of an instruction: the clause of FR is left                  *)
(***************************************************************************)
\* The frames of ClausesOf are those on the stack.
LEMMA ClausesAreOwned ==
  \A gone : ClausesOf(gone) = OwnedBy(frames, gone)
BY DEF ClausesOf, OwnedBy

\* Execution goes on in the caller, with all below x.  The clause of FR can be freed if
\* nothing that is left can come back to FR, and must be if nothing is left above FR.
LEMMA LeaveStage ==
  ASSUME NEW s, Stacked(frames, s), Tidy(frames, ElementsOf(s)),
         FR \in DOMAIN frames, frames[FR].kind # "query", NEW sp \in Nat,
         \A f \in DOMAIN frames : f < sp, \A c \in ElementsOf(s) : c.at < sp,
         Around(frames, ElementsOf(s), FR, sp),
         NEW t, ElementsOf(t) \subseteq ElementsOf(s),
         \A c \in ElementsOf(s) : c \in ElementsOf(t) \/ c.fr = FR,
         NEW h, h = frames[FR].parent, NEW r, r = frames[FR].ret,
         NEW x, Ready(Below(x, frames), t, h, r, x),
         NEW gone \in SUBSET {FR},
         gone # {} => x <= FR \/ \A c \in ElementsOf(t) : c.at <= FR,
         NEW own
  PROVE  /\ Sound(Below(x, frames), t, h, r, x)
         /\ Owners(frames, Live(frames, ElementsOf(s), FR), own)
              => Owners(Below(x, frames), Live(Below(x, frames), ElementsOf(t), h), own \ ClausesOf(gone))
         /\ /\ NoOrphans(frames, Live(frames, ElementsOf(s), FR), own)
            /\ gone = {} => \E c \in ElementsOf(t) : FR < c.at
            => NoOrphans(Below(x, frames), Live(Below(x, frames), ElementsOf(t), h), own \ ClausesOf(gone))
<1> DEFINE cs == ElementsOf(s)
           ds == ElementsOf(t)
           gs == Below(x, frames)
           A  == Live(frames, cs, FR)
           B  == Live(gs, ds, h)
<1>1. /\ Nested(frames, cs) /\ Grounded(frames) /\ FramesTyped(frames)
      /\ \A c \in cs : c.at \in Nat /\ c.fr \in DOMAIN frames /\ c.fr < c.at
  BY StackNested, FramesInAreTyped DEF Nested, Stacked
<1>2. /\ Place(frames, cs, h, r, FR) /\ h \in DOMAIN frames /\ r \in Pos
      /\ \A f \in DOMAIN frames : f \in Nat /\ 0 < f /\ frames[f].parent < f
      /\ \A f \in DOMAIN frames : \A e \in AncestorsIn(frames, f) : e \in DOMAIN frames /\ e <= f
      /\ FR \in AncestorsIn(frames, FR)
      /\ AncestorsIn(frames, FR) = {FR} \cup AncestorsIn(frames, h)
  <2>1. Place(frames, cs, h, r, FR) /\ h \in DOMAIN frames
    BY DEF Stacked, StackOK, FrameOK, CallOK, Place
  <2>2. r \in Pos
    BY <1>1 DEF FramesTyped
  <2>3. QED
    BY <1>1, <2>1, <2>2, Ancestry
<1>3. \A u \in Noted(frames, h, r) : u \in Nat /\ u < FR
  BY <1>1, <1>2, TargetsAreAddresses DEF Place, Younger, Targets
<1>4. Apart(frames, cs, h, r, x)
  BY <1>1, <1>2, <1>3, ApartReturn
<1>5. /\ DOMAIN gs = {f \in DOMAIN frames : f < x} /\ \A f \in DOMAIN gs : gs[f] = frames[f]
      /\ \A g \in DOMAIN gs : \A p : Noted(gs, g, p) = Noted(frames, g, p)
  <2>1. DOMAIN gs = {f \in DOMAIN frames : f < x} /\ \A f \in DOMAIN gs : gs[f] = frames[f]
    BY DEF Below
  <2> HIDE DEF gs
  <2>2. QED
    BY <2>1 DEF Noted
<1>6. /\ Grounded(gs) /\ h \in DOMAIN gs /\ x \in Nat
      /\ \A c \in ds : c.fr \in DOMAIN gs /\ c.at \in Nat
  <2>1. Stacked(gs, t) /\ h \in DOMAIN gs /\ x \in Nat
    BY ReadyProvides DEF Ready
  <2>2. \A c \in ds : c.fr \in DOMAIN gs
    BY <2>1 DEF Stacked, StackOK, ChoiceOK
  <2> HIDE DEF gs
  <2>3. QED
    BY <1>1, <2>1, <2>2, StackGrounded
<1>7. Sound(gs, t, h, r, x)
  <2>1. Ready(gs, t, h, r, x)
    OBVIOUS
  <2> HIDE DEF gs
  <2>2. \A f \in DOMAIN gs :
          /\ f \in DOMAIN frames /\ gs[f].parent = frames[f].parent /\ gs[f].ret = frames[f].ret
          /\ frames[f].choicepoint \in Nat /\ gs[f].choicepoint \in Nat
          /\ frames[f].choicepoint <= gs[f].choicepoint
          /\ gs[f].clause = frames[f].clause /\ (gs[f].isLocal => frames[f].isLocal)
    BY <1>1, <1>5 DEF FramesTyped
  <2>3. \A f \in DOMAIN gs : frames[f].parent # Null =>
          Noted(gs, frames[f].parent, frames[f].ret) \subseteq Noted(frames, frames[f].parent, frames[f].ret)
    BY <1>5, <1>6 DEF Grounded
  <2>4. \A c \in ds : c.pc # NoPC => Noted(gs, c.fr, c.pc) \subseteq Noted(frames, c.fr, c.pc)
    BY <1>5, <1>6
  <2>5. Tidy(gs, ds)
    BY <1>1, <1>6, <2>2, <2>3, <2>4, TidyKept
  <2>6. Noted(gs, h, r) \subseteq Noted(frames, h, r)
    BY <1>5, <1>6
  <2>7. Apart(gs, ds, h, r, x)
    BY <1>1, <1>4, <1>6, <2>2, <2>6, ApartKept
  <2>8. QED
    BY <2>1, <2>5, <2>7 DEF Sound
<1>8. \A f : f \in B <=> f \in AncestorsIn(frames, h) \/ \E c \in ds : f \in AncestorsIn(frames, c.fr)
  <2>1. \A f \in DOMAIN gs : f \in DOMAIN frames /\ gs[f].parent = frames[f].parent
    BY <1>5
  <2> HIDE DEF gs
  <2>2. \A f \in DOMAIN gs : AncestorsIn(gs, f) = AncestorsIn(frames, f)
    BY <1>1, <1>6, <2>1, AncestorsKept
  <2>3. QED
    BY <1>6, <2>2, LiveFrames
<1>9. B \subseteq DOMAIN gs
  BY <1>6, LiveAreFrames
<1>10. \A f : f \in A <=> \/ f = FR \/ f \in AncestorsIn(frames, h)
                          \/ \E c \in ds : f \in AncestorsIn(frames, c.fr)
  <2>1. \A f : f \in A <=> f \in AncestorsIn(frames, FR) \/ \E c \in cs : f \in AncestorsIn(frames, c.fr)
    BY LiveFrames
  <2>2. QED
    BY <1>2, <2>1
<1>11. A \subseteq DOMAIN frames /\ \A f \in A : frames[f].isLocal => frames[f].clause # Null
  <2>1. A \subseteq DOMAIN frames
    BY <1>1, LiveAreFrames
  <2>2. QED
    BY <2>1 DEF Tidy, Labelled
<1>12. gone \cap B = {}
  <2>1. SUFFICES ASSUME FR \in gone PROVE FR \notin B
    OBVIOUS
  <2>2. CASE x <= FR
    BY <1>2, <1>5, <1>6, <1>9, <2>2
  <2>3. CASE \A c \in ds : c.at <= FR
    <3>1. FR \notin AncestorsIn(frames, h)
      BY <1>2
    <3>2. ASSUME NEW c \in ds
          PROVE  FR \notin AncestorsIn(frames, c.fr)
      <4>1. c.fr \in DOMAIN frames /\ c.fr < c.at /\ c.at \in Nat /\ c.at <= FR /\ c.fr \in Nat
        BY <1>1, <1>2, <2>3
      <4>2. \A e \in AncestorsIn(frames, c.fr) : e <= c.fr
        BY <1>2, <4>1
      <4>3. QED
        BY <1>2, <4>1, <4>2
    <3>3. QED
      BY <1>8, <3>1, <3>2
  <2>4. QED
    BY <2>1, <2>2, <2>3
<1>13. (\A f \in B : SameOwner(gs[f], frames[f])) /\ ClausesOf(gone) = OwnedBy(frames, gone)
  BY <1>5, <1>9, ClausesAreOwned DEF SameOwner
<1>14. B \subseteq A /\ gone \subseteq A
  BY <1>8, <1>10
<1>15. ASSUME gone = {} => \E c \in ds : FR < c.at
       PROVE  \A f \in A : frames[f].isLocal /\ f \notin gone => f \in B /\ SameOwner(gs[f], frames[f])
  <2>1. ASSUME FR \notin gone
        PROVE  FR \in B
    <3>1. PICK c \in ds : FR < c.at
      BY <1>15, <2>1
    <3>2. c \in cs /\ c.at < sp
      BY <3>1
    <3>3. FR \in AncestorsIn(frames, c.fr)
      BY <1>1, <1>2, <3>1, <3>2, PlacesNested
    <3>4. QED
      BY <1>8, <3>1, <3>3
  <2>2. QED
    BY <1>8, <1>10, <1>13, <2>1
<1> HIDE DEF A, B, gs, cs, ds
<1>16. Owners(frames, A, own) => Owners(gs, B, own \ ClausesOf(gone))
  BY <1>11, <1>12, <1>13, <1>14, OwnersPass
<1>17. /\ NoOrphans(frames, A, own)
       /\ gone = {} => \E c \in ds : FR < c.at
       => NoOrphans(gs, B, own \ ClausesOf(gone))
  <2>1. SUFFICES ASSUME NoOrphans(frames, A, own), gone = {} => \E c \in ds : FR < c.at
                 PROVE  NoOrphans(gs, B, own \ ClausesOf(gone))
    OBVIOUS
  <2>2. \A f \in A : frames[f].isLocal /\ f \notin gone => f \in B /\ SameOwner(gs[f], frames[f])
    BY <1>15, <2>1
  <2>3. QED
    BY <1>13, <2>1, <2>2, OrphansPass
<1>18. QED
  BY <1>7, <1>16, <1>17 DEF A, B, gs, cs, ds

(***************************************************************************)
(* The stages of an instruction: choicepoints and notes                    *)
(***************************************************************************)
\* Frames that change nothing that matters here go on owning their clauses.
LEMMA OwnersSame ==
  ASSUME NEW fs, NEW gs, NEW cs, NEW g \in DOMAIN fs, NEW own, Grounded(fs), Grounded(gs),
         DOMAIN gs = DOMAIN fs, \A c \in cs : c.fr \in DOMAIN fs,
         \A f \in DOMAIN fs : gs[f].parent = fs[f].parent /\ SameOwner(gs[f], fs[f])
  PROVE  /\ Owners(fs, Live(fs, cs, g), own) => Owners(gs, Live(gs, cs, g), own)
         /\ NoOrphans(fs, Live(fs, cs, g), own) => NoOrphans(gs, Live(gs, cs, g), own)
<1>1. \A f \in DOMAIN gs : AncestorsIn(gs, f) = AncestorsIn(fs, f)
  BY AncestorsKept
<1>2. \A f : f \in Live(gs, cs, g) <=> f \in Live(fs, cs, g)
  BY <1>1, LiveFrames
<1>3. Live(gs, cs, g) = Live(fs, cs, g) /\ Live(fs, cs, g) \subseteq DOMAIN fs
  BY <1>2, LiveAreFrames
<1> DEFINE A == Live(fs, cs, g)
<1> HIDE DEF A
<1>4. \A f \in A : gs[f].clause = fs[f].clause /\ gs[f].isLocal = fs[f].isLocal
  BY <1>3 DEF SameOwner, A
<1>5. Owners(fs, A, own) => Owners(gs, A, own)
  BY <1>4 DEF Owners
<1>6. OwnedBy(gs, A) = OwnedBy(fs, A)
  BY <1>4 DEF OwnedBy
<1>7. QED
  BY <1>3, <1>5, <1>6 DEF A, NoOrphans

\* The frame g of the run (fs, s, g, p, sp) leaves the choicepoint c on the choicepoints s,
\* and goes on at q.
LeavesChoice(fs, s, g, p, sp, c, t, q, new) ==
  /\ Sound(fs, s, g, p, sp)
  /\ c.at = sp /\ c.fr = g /\ c.clause = fs[g].clause
  /\ c.cleanup # Null => "cleanup" \in uses
  /\ c.pc # NoPC => Apart(fs, ElementsOf(s), g, c.pc, sp)
  /\ Apart(fs, ElementsOf(s), g, q, sp)
  /\ \A d : d \in ElementsOf(t) <=> d \in ElementsOf(s) \/ d = c
  /\ Ready(fs, t, g, q, new)

\* A frame that runs leaves a choicepoint.
LEMMA ChoiceStage ==
  ASSUME NEW fs, NEW s, NEW g, NEW p, NEW sp, NEW c, NEW t, NEW q, NEW new,
         LeavesChoice(fs, s, g, p, sp, c, t, q, new)
  PROVE  /\ Sound(fs, t, g, q, new)
         /\ Live(fs, ElementsOf(t), g) = Live(fs, ElementsOf(s), g)
<1> DEFINE cs == ElementsOf(s)
<1>0. ElementsOf(t) = cs \cup {c}
  BY DEF LeavesChoice
<1>1. /\ Grounded(fs) /\ g \in DOMAIN fs /\ sp \in Nat /\ Around(fs, cs, g, sp) /\ Tidy(fs, cs)
      /\ \A f \in DOMAIN fs : f < sp
      /\ \A d \in cs : d.at \in Nat /\ d.at < sp
  <2>1. Sound(fs, s, g, p, sp)
    BY DEF LeavesChoice
  <2>2. QED
    BY <2>1, SoundProvides DEF Sound
<1> HIDE DEF cs
<1>2. /\ Tidy(fs, cs \cup {c})
      /\ \A r, top : Apart(fs, cs, g, r, sp) => Apart(fs, cs \cup {c}, g, r, top)
  BY <1>1, TidyChoice DEF cs, LeavesChoice
<1>3. Sound(fs, t, g, q, new)
  BY <1>0, <1>2 DEF Sound, cs, LeavesChoice
<1>4. \A f : f \in Live(fs, cs \cup {c}, g) <=> f \in Live(fs, cs, g)
  <2>1. c.fr = g
    BY DEF LeavesChoice
  <2>2. QED
    BY <2>1, LiveFrames
<1>5. QED
  BY <1>0, <1>3, <1>4 DEF cs

(***************************************************************************)
(* The instructions and the clauses that frames own                        *)
(***************************************************************************)
CanOwn == CanRun /\ Sound(frames, cps, FR, pos, SP)

\* Without cleanup handlers no clause in use is freed; none is left without an owner.
OwnGoesOn ==
  /\ Sound(frames', cps', FR', pos', SP')
  /\ "cleanup" \notin uses /\ Owners(frames, Live(frames, ElementsOf(cps), FR), owned)
       => Owners(frames', Live(frames', ElementsOf(cps'), FR'), owned')
  /\ SizeInv /\ NoOrphans(frames, Live(frames, ElementsOf(cps), FR), owned)
       => NoOrphans(frames', Live(frames', ElementsOf(cps'), FR'), owned')

\* What leaves registers, frames and choicepoints alone.
LEMMA KeepingOwned ==
  ASSUME CanOwn, UNCHANGED <<FR, SP, frames, cps, pos, owned>>
  PROVE  OwnGoesOn
  BY DEF CanOwn, OwnGoesOn

\* I_ENTER.
LEMMA EnterOwned ==
  ASSUME CanOwn, Enter
  PROVE  OwnGoesOn
<1>1. /\ UNCHANGED <<FR, SP, frames, cps, owned>> /\ pos' = At("body") /\ pos'.open = <<>>
  BY DEF Enter, At
<1>2. GoesOn
  BY EnterGoesOn DEF CanOwn
<1>3. Apart(frames, ElementsOf(cps), FR, pos', SP)
  BY <1>1, NothingNoted
<1>4. Sound(frames', cps', FR', pos', SP')
  BY <1>1, <1>2, <1>3 DEF GoesOn, Sound, CanOwn
<1>5. QED
  BY <1>1, <1>4 DEF OwnGoesOn

\* The choicepoint of an instruction, in a frame that goes on.
LEMMA AlternativeOwned ==
  ASSUME CanOwn, UNCHANGED <<FR, frames, owned>>, GoesOn,
         NEW type \in {"Head", "Body"}, NEW pc \in Pos, NEW n \in 0..MaxSlots, NEW cleanup \in Nat,
         cleanup # Null => "cleanup" \in uses,
         cps' = Append(cps, NewChoice(type, pc, frames[FR].clause, n, cleanup)),
         pc # NoPC => Apart(frames, ElementsOf(cps), FR, pc, SP),
         Apart(frames, ElementsOf(cps), FR, pos', SP)
  PROVE  OwnGoesOn
<1>0. PICK c : c = NewChoice(type, pc, frames[FR].clause, n, cleanup)
  OBVIOUS
<1>1. /\ c \in ChoiceType /\ c.at = SP /\ c.fr = FR /\ c.pc = pc
      /\ c.clause = frames[FR].clause /\ c.cleanup = cleanup
  <2>1. frames[FR] \in FrameType
    BY ReadyProvides DEF CanOwn, CanRun
  <2>2. frames[FR].clause \in 0..MaxLocals
    BY <2>1 DEF FrameType
  <2>3. c.clause = frames[FR].clause /\ c.cleanup = cleanup
    BY <1>0 DEF NewChoice
  <2>4. QED
    BY <1>0, <2>2, <2>3, ChoiceTyped DEF CanOwn
<1>2. cps' = Append(cps, c)
  BY <1>0
<1>3. ElementsOf(Append(cps, c)) = ElementsOf(cps) \cup {c}
  <2>1. /\ cps \in Seq(ChoiceType) /\ Ascending(cps) /\ SP \in Nat /\ \A d \in ElementsOf(cps) : d.at < SP
        /\ ChoicesTyped(ElementsOf(cps))
    BY ReadyProvides DEF CanOwn, CanRun, RunsAt
  <2>2. QED
    BY <1>1, <2>1, AppendElements
<1>4. Ready(frames, Append(cps, c), FR, pos', SP')
  BY <1>2 DEF GoesOn
<1>5. /\ Sound(frames, Append(cps, c), FR, pos', SP')
      /\ Live(frames, ElementsOf(Append(cps, c)), FR) = Live(frames, ElementsOf(cps), FR)
  <2>1. Sound(frames, cps, FR, pos, SP)
    BY DEF CanOwn
  <2>2. /\ c.pc # NoPC => Apart(frames, ElementsOf(cps), FR, c.pc, SP)
        /\ c.cleanup # Null => "cleanup" \in uses
    BY <1>1
  <2>3. PICK q : q = pos'
    OBVIOUS
  <2>4. PICK new : new = SP'
    OBVIOUS
  <2>5. Apart(frames, ElementsOf(cps), FR, q, SP) /\ Ready(frames, Append(cps, c), FR, q, new)
    BY <1>4, <2>3, <2>4
  <2>6. PICK t : t = Append(cps, c)
    OBVIOUS
  <2>7. ElementsOf(t) = ElementsOf(cps) \cup {c} /\ Ready(frames, t, FR, q, new)
    BY <1>3, <2>5, <2>6
  <2>8. /\ Sound(frames, t, FR, q, new)
        /\ Live(frames, ElementsOf(t), FR) = Live(frames, ElementsOf(cps), FR)
    <3>1. /\ Sound(frames, cps, FR, pos, SP) /\ c.at = SP /\ c.fr = FR /\ c.clause = frames[FR].clause
          /\ c.cleanup # Null => "cleanup" \in uses
          /\ c.pc # NoPC => Apart(frames, ElementsOf(cps), FR, c.pc, SP)
          /\ Apart(frames, ElementsOf(cps), FR, q, SP)
          /\ \A d : d \in ElementsOf(t) <=> d \in ElementsOf(cps) \/ d = c
          /\ Ready(frames, t, FR, q, new)
      BY <1>1, <2>1, <2>2, <2>5, <2>7
    <3>2. LeavesChoice(frames, cps, FR, pos, SP, c, t, q, new)
      BY <3>1 DEF LeavesChoice
    <3>3. QED
      BY <3>2, ChoiceStage
  <2>9. QED
    BY <2>3, <2>4, <2>6, <2>8
<1>6. QED
  BY <1>2, <1>5 DEF OwnGoesOn

\* TRY_ME_ELSE and its like.
LEMMA TryMeOwned ==
  ASSUME CanOwn, TryMe
  PROVE  OwnGoesOn
<1>1. GoesOn
  BY TryMeGoesOn DEF CanOwn
<1>2. UNCHANGED <<FR, frames, owned>> /\ pos' = At("body") /\ At("body").open = <<>> /\ At("entry").open = <<>>
  BY DEF TryMe, At
<1>3. PICK n \in 0..MaxSlots :
        cps' = Append(cps, NewChoice("Head", At("entry"), frames[FR].clause, n, Null))
  BY DEF TryMe
<1>4. At("entry") \in Pos /\ Null \in Nat
  BY AtIsPos DEF Phases, Null
<1>5. /\ Apart(frames, ElementsOf(cps), FR, At("entry"), SP)
      /\ Apart(frames, ElementsOf(cps), FR, pos', SP)
  BY <1>2, NothingNoted
<1>6. QED
  BY <1>1, <1>2, <1>3, <1>4, <1>5, AlternativeOwned

\* C_OR and B_CLEANUP_CHOICEPOINT.
LEMMA OrOwned ==
  ASSUME CanOwn, Or \/ CleanupChoicepoint
  PROVE  OwnGoesOn
<1>1. GoesOn
  BY OrGoesOn, CleanupChoicepointGoesOn DEF CanOwn
<1>2. UNCHANGED <<FR, frames, pos, owned>>
  BY DEF Or, CleanupChoicepoint
<1>3. /\ frames[FR].slotCount \in 0..MaxSlots
      /\ pos \in Pos /\ NoPC \in Pos /\ Null \in Nat /\ FR \in Nat
  <2>1. frames[FR] \in FrameType /\ pos \in Pos /\ FR \in Nat
    BY ReadyProvides DEF CanOwn, CanRun
  <2>2. QED
    BY <2>1, PlacesAreTyped DEF FrameType
<1>4. Apart(frames, ElementsOf(cps), FR, pos, SP)
  BY DEF CanOwn, Sound
<1>5. CASE Or
  <2>1. cps' = Append(cps, NewChoice("Body", pos, frames[FR].clause, frames[FR].slotCount, Null))
    BY <1>5 DEF Or, Alternative
  <2>2. QED
    BY <1>1, <1>2, <1>3, <1>4, <2>1, AlternativeOwned
<1>6. CASE CleanupChoicepoint
  <2>1. cps' = Append(cps, NewChoice("Body", NoPC, frames[FR].clause, frames[FR].slotCount, FR))
        /\ "cleanup" \in uses
    BY <1>6 DEF CleanupChoicepoint, Alternative
  <2>2. QED
    BY <1>1, <1>2, <1>3, <1>4, <2>1, AlternativeOwned
<1>7. QED
  BY <1>5, <1>6

\* A condition notes CP in a new cut slot: nothing was pushed after it.
LEMMA OpensOwned ==
  ASSUME CanOwn, OpenCondition, NEW q, DOMAIN q.open \subseteq DOMAIN pos.open,
         \A k \in DOMAIN q.open : q.open[k] = pos.open[k]
  PROVE  /\ Sound(frames', cps, FR, Opened(pos), SP)
         /\ Apart(frames', ElementsOf(cps), FR, q, SP)
         /\ frames'[FR].clause = frames[FR].clause /\ frames'[FR].slotCount = frames[FR].slotCount
         /\ Owners(frames, Live(frames, ElementsOf(cps), FR), owned)
              => Owners(frames', Live(frames', ElementsOf(cps), FR), owned)
         /\ NoOrphans(frames, Live(frames, ElementsOf(cps), FR), owned)
              => NoOrphans(frames', Live(frames', ElementsOf(cps), FR), owned)
<1> DEFINE cs   == ElementsOf(cps)
           slot == pos.used + 1
<1>1. /\ Ready(frames', cps, FR, Opened(pos), SP)
      /\ pos' = Opened(pos) /\ UNCHANGED <<FR, owned>> /\ pos.phase = "body"
  BY Opens DEF CanOwn
<1>2. /\ FramesTyped(frames) /\ FramesIn(frames) /\ ChoicesTyped(cs)
      /\ StackOK(frames, cs) /\ RunsAt(frames, cs, FR, pos, SP) /\ Place(frames, cs, FR, pos, SP)
      /\ FR \in DOMAIN frames /\ SP \in Nat /\ pos \in Pos
      /\ \A c \in cs : c.at <= CP
  BY ReadyProvides DEF CanOwn, CanRun, CP
<1>3. /\ Grounded(frames) /\ Tidy(frames, cs) /\ Apart(frames, cs, FR, pos, SP)
      /\ \A f \in DOMAIN frames : f < SP
      /\ \A c \in cs : c.at \in Nat /\ c.at < SP /\ c.fr \in DOMAIN frames
      /\ \A f \in DOMAIN frames : frames[f].kind # "query" <=> frames[f].parent # Null
  BY SoundProvides, StackGrounded DEF CanOwn, Sound, Ready
<1>4. Grounded(frames') /\ FramesTyped(frames')
  BY <1>1, StackGrounded, ReadyProvides DEF Ready
<1>5. pos.used \in Nat /\ slot \in Slot /\ \A p \in Pos : p.used \in Nat
  <2>1. frames[FR].slotCount \in 0..MaxSlots /\ pos.used \in 0..MaxSlots
    BY <1>2 DEF FramesIn, FrameType, Pos
  <2>2. pos.used < frames[FR].slotCount
    BY DEF OpenCondition
  <2>3. QED
    BY <2>1, <2>2, BoundsAssumption DEF Slot, Pos
<1>6. /\ DOMAIN frames' = DOMAIN frames
      /\ \A f \in DOMAIN frames : f # FR => frames'[f] = frames[f]
      /\ frames'[FR] = [frames[FR] EXCEPT !.cuts[slot] = CP]
  BY <1>2 DEF OpenCondition
<1>7. \A a \in FrameType : \A x : LET b == [a EXCEPT !.cuts[slot] = x]
                                  IN  /\ b.parent = a.parent /\ b.ret = a.ret /\ b.choicepoint = a.choicepoint
                                      /\ b.clause = a.clause /\ b.isLocal = a.isLocal
                                      /\ b.slotCount = a.slotCount
                                      /\ b.cuts = [a.cuts EXCEPT ![slot] = x]
  BY DEF FrameType
<1>8. frames[FR] \in FrameType /\ frames[FR].cuts \in [Slot -> Nat]
  BY <1>2 DEF FramesIn, FramesTyped
<1>9. \A f \in DOMAIN frames :
        /\ frames'[f].parent = frames[f].parent /\ frames'[f].ret = frames[f].ret
        /\ frames'[f].choicepoint = frames[f].choicepoint
        /\ frames'[f].clause = frames[f].clause /\ frames'[f].isLocal = frames[f].isLocal
        /\ frames'[f].slotCount = frames[f].slotCount
  <2>1. frames'[FR].parent = frames[FR].parent /\ frames'[FR].ret = frames[FR].ret
        /\ frames'[FR].choicepoint = frames[FR].choicepoint
        /\ frames'[FR].clause = frames[FR].clause /\ frames'[FR].isLocal = frames[FR].isLocal
        /\ frames'[FR].slotCount = frames[FR].slotCount
    BY <1>6, <1>7, <1>8
  <2>2. QED
    BY <1>6, <2>1
<1>10. /\ frames'[FR].cuts[slot] = CP
       /\ \A k \in Slot : k # slot => frames'[FR].cuts[k] = frames[FR].cuts[k]
  <2>1. frames'[FR].cuts = [frames[FR].cuts EXCEPT ![slot] = CP]
    BY <1>6, <1>7, <1>8
  <2>2. QED
    BY <1>5, <1>8, <2>1
<1>11. ASSUME NEW g \in DOMAIN frames, NEW p \in Pos, TargetsOrdered(frames, g, p),
              g = FR => p.used <= pos.used
       PROVE  Noted(frames', g, p) = Noted(frames, g, p)
  <2>1. \A k \in DOMAIN p.open : p.open[k] \in Slot /\ p.open[k] <= p.used
    BY <1>2, <1>11, TargetsAreAddresses DEF TargetsOrdered
  <2>2. ASSUME NEW k \in DOMAIN p.open
        PROVE  frames'[g].cuts[p.open[k]] = frames[g].cuts[p.open[k]]
    <3>1. CASE g = FR
      <4>1. p.open[k] \in Slot /\ p.open[k] <= p.used /\ p.used \in Nat /\ p.open[k] \in Nat
        BY <1>5, <2>1, BoundsAssumption DEF Slot
      <4>2. p.open[k] # slot
        BY <1>5, <1>11, <3>1, <4>1
      <4>3. QED
        BY <1>10, <3>1, <4>1, <4>2
    <3>2. CASE g # FR
      BY <1>6, <3>2
    <3>3. QED
      BY <3>1, <3>2
  <2>3. QED
    BY <2>2 DEF Noted
<1>12. Noted(frames', FR, pos) = Noted(frames, FR, pos)
  BY <1>2, <1>5, <1>11 DEF Place
<1>13. SlotsGrow(frames, cs, FR, pos, SP)
  BY <1>1, <1>2 DEF Place
<1>14. ASSUME NEW f \in DOMAIN frames, frames[f].parent # Null
       PROVE  Noted(frames', frames[f].parent, frames[f].ret) = Noted(frames, frames[f].parent, frames[f].ret)
  <2>1. Place(frames, cs, frames[f].parent, frames[f].ret, f)
    BY <1>2, <1>3, <1>14 DEF StackOK, FrameOK, CallOK
  <2>2. frames[f].parent = FR => frames[f].ret.used <= pos.used
    BY <1>3, <1>13 DEF SlotsGrow
  <2>3. frames[f].ret \in Pos /\ frames[f].parent \in DOMAIN frames
    BY <1>2, <2>1 DEF FramesTyped, Place
  <2>4. QED
    BY <1>11, <2>1, <2>2, <2>3 DEF Place
<1>15. ASSUME NEW c \in cs, c.pc # NoPC
       PROVE  Noted(frames', c.fr, c.pc) = Noted(frames, c.fr, c.pc)
  <2>1. Place(frames, cs, c.fr, c.pc, c.at)
    BY <1>2, <1>15 DEF StackOK, ChoiceOK, ResumeOK
  <2>2. c.fr = FR => c.pc.used <= pos.used
    BY <1>3, <1>13 DEF SlotsGrow
  <2>3. c.pc \in Pos /\ c.fr \in DOMAIN frames
    BY <1>2, <2>1 DEF ChoicesTyped, Place
  <2>4. QED
    BY <1>11, <2>1, <2>2, <2>3 DEF Place
<1>16. pos.open \in Seq(Slot) /\ DOMAIN pos.open = 1..Len(pos.open) /\ Len(pos.open) \in Nat
       /\ Opened(pos).open = Append(pos.open, slot)
  BY <1>2, LenProperties DEF Pos, Opened
<1>17. /\ DOMAIN Append(pos.open, slot) = 1..Len(pos.open) + 1
       /\ \A k \in 1..Len(pos.open) : Append(pos.open, slot)[k] = pos.open[k]
       /\ Append(pos.open, slot)[Len(pos.open) + 1] = slot
  BY <1>5, <1>16, AppendProperties, LenProperties
<1>18. \A t \in Noted(frames', FR, Opened(pos)) : t = CP \/ t \in Noted(frames', FR, pos)
  <2>1. \A k \in 1..Len(pos.open) + 1 : k \in 1..Len(pos.open) \/ k = Len(pos.open) + 1
    BY <1>16
  <2> HIDE DEF slot
  <2>2. \A k \in DOMAIN Opened(pos).open : \/ Opened(pos).open[k] = slot
                                           \/ k \in DOMAIN pos.open /\ Opened(pos).open[k] = pos.open[k]
    BY <1>16, <1>17, <2>1
  <2>3. QED
    BY <1>10, <2>2 DEF Noted
<1> DEFINE gs == frames'
<1> HIDE DEF gs, cs, slot
<1>19. Tidy(gs, cs)
  <2>1. \A f \in DOMAIN gs :
           /\ f \in DOMAIN frames /\ gs[f].parent = frames[f].parent /\ gs[f].ret = frames[f].ret
           /\ frames[f].choicepoint \in Nat /\ gs[f].choicepoint \in Nat
           /\ frames[f].choicepoint <= gs[f].choicepoint
           /\ gs[f].clause = frames[f].clause /\ (gs[f].isLocal => frames[f].isLocal)
    BY <1>2, <1>6, <1>9 DEF gs, FramesTyped
  <2>2. \A f \in DOMAIN gs : frames[f].parent # Null =>
           Noted(gs, frames[f].parent, frames[f].ret) \subseteq Noted(frames, frames[f].parent, frames[f].ret)
    BY <1>6, <1>14 DEF gs
  <2>3. \A c \in cs : c.pc # NoPC => Noted(gs, c.fr, c.pc) \subseteq Noted(frames, c.fr, c.pc)
    BY <1>15 DEF gs
  <2>4. Grounded(gs) /\ \A c \in cs : c.fr \in DOMAIN gs /\ c.at \in Nat
    BY <1>3, <1>4, <1>6 DEF gs
  <2>5. QED
    BY <1>3, <2>1, <2>2, <2>3, <2>4, TidyKept
<1>20. \A f \in DOMAIN gs : AncestorsIn(gs, f) = AncestorsIn(frames, f)
  <2>1. Grounded(gs) /\ \A f \in DOMAIN gs : f \in DOMAIN frames /\ gs[f].parent = frames[f].parent
    BY <1>4, <1>6, <1>9 DEF gs
  <2>2. QED
    BY <1>3, <2>1, AncestorsKept
<1>21. \A c \in cs : ~(CP < c.at) /\ AncestorsIn(gs, c.fr) = AncestorsIn(frames, c.fr)
  <2>1. CP \in Nat
    BY ReadyProvides DEF CanOwn, CanRun, CP
  <2>2. QED
    BY <1>2, <1>3, <1>6, <1>20, <2>1 DEF gs
<1>22. Apart(gs, cs, FR, Opened(pos), SP)
  BY <1>3, <1>12, <1>18, <1>21 DEF gs, Apart
<1>23. Apart(gs, cs, FR, q, SP)
  <2>1. Noted(gs, FR, q) \subseteq Noted(gs, FR, pos)
    BY DEF Noted
  <2>2. QED
    BY <1>3, <1>12, <1>21, <2>1 DEF gs, Apart
<1>24. Sound(gs, cps, FR, Opened(pos), SP)
  BY <1>1, <1>19, <1>22 DEF Sound, gs, cs
<1>25. /\ Owners(frames, Live(frames, cs, FR), owned) => Owners(gs, Live(gs, cs, FR), owned)
       /\ NoOrphans(frames, Live(frames, cs, FR), owned) => NoOrphans(gs, Live(gs, cs, FR), owned)
  <2>1. \A f \in DOMAIN frames : gs[f].parent = frames[f].parent /\ SameOwner(gs[f], frames[f])
    BY <1>9 DEF gs, SameOwner
  <2>2. Grounded(gs) /\ DOMAIN gs = DOMAIN frames
    BY <1>4, <1>6 DEF gs
  <2>3. QED
    BY <1>2, <1>3, <2>1, <2>2, OwnersSame
<1>26. QED
  BY <1>2, <1>9, <1>23, <1>24, <1>25 DEF gs, cs

\* C_IF_THEN and C_IF_THEN_ELSE.
LEMMA ConditionsOwned ==
  ASSUME CanOwn, IfThen \/ IfThenElse
  PROVE  OwnGoesOn
<1>1. GoesOn /\ OpenCondition
  BY IfThenGoesOn, IfThenElseGoesOn DEF CanOwn, IfThen, IfThenElse
<1>2. pos' = Opened(pos) /\ UNCHANGED <<FR, owned>>
  BY <1>1, Opens DEF CanOwn
<1>3. CASE IfThen
  <2>1. UNCHANGED <<SP, cps>>
    BY <1>3 DEF IfThen
  <2>2. /\ Sound(frames', cps, FR, Opened(pos), SP)
        /\ Owners(frames, Live(frames, ElementsOf(cps), FR), owned)
             => Owners(frames', Live(frames', ElementsOf(cps), FR), owned)
        /\ NoOrphans(frames, Live(frames, ElementsOf(cps), FR), owned)
             => NoOrphans(frames', Live(frames', ElementsOf(cps), FR), owned)
    BY <1>1, OpensOwned
  <2>3. QED
    BY <1>2, <2>1, <2>2 DEF OwnGoesOn
<1>4. CASE IfThenElse
  <2>1. PICK q : q = [pos EXCEPT !.used = @ + 1]
    OBVIOUS
  <2>2. q \in Pos /\ q.open = pos.open
    <3>1. pos \in Pos /\ frames[FR].slotCount \in 0..MaxSlots
      BY RunningProvides DEF CanOwn, CanRun, Ready
    <3>2. pos.used \in 0..MaxSlots /\ pos.used < frames[FR].slotCount
      BY <1>1, <3>1 DEF OpenCondition, Pos
    <3>3. pos.used + 1 \in 0..MaxSlots
      BY <3>1, <3>2, BoundsAssumption
    <3>4. QED
      BY <2>1, <3>1, <3>3 DEF Pos
  <2>3. /\ Sound(frames', cps, FR, Opened(pos), SP)
        /\ Apart(frames', ElementsOf(cps), FR, q, SP)
        /\ frames'[FR].clause = frames[FR].clause
        /\ Owners(frames, Live(frames, ElementsOf(cps), FR), owned)
             => Owners(frames', Live(frames', ElementsOf(cps), FR), owned)
        /\ NoOrphans(frames, Live(frames, ElementsOf(cps), FR), owned)
             => NoOrphans(frames', Live(frames', ElementsOf(cps), FR), owned)
    BY <1>1, <2>2, OpensOwned
  <2>4. PICK c : /\ c \in ChoiceType /\ cps' = Append(cps, c)
                 /\ c.at = SP /\ c.fr = FR /\ c.pc = q /\ c.clause = frames[FR].clause /\ c.cleanup = Null
    <3>1. cps' = Append(cps, Alternative("Body", q, Null))
      BY <1>4, <2>1 DEF IfThenElse
    <3>2. /\ Alternative("Body", q, Null).clause = frames[FR].clause
          /\ Alternative("Body", q, Null).cleanup = Null
      BY DEF Alternative, NewChoice
    <3>3. QED
      BY <2>2, <3>1, <3>2, PlacesAreTyped, AlternativeTyped DEF CanOwn
  <2>5. \A d : d \in ElementsOf(cps') <=> d \in ElementsOf(cps) \/ d = c
    <3>1. /\ cps \in Seq(ChoiceType) /\ Ascending(cps) /\ \A d \in ElementsOf(cps) : d.at < SP
      BY ReadyProvides DEF CanOwn, CanRun, RunsAt
    <3>2. ElementsOf(Append(cps, c)) = ElementsOf(cps) \cup {c}
      BY <2>4, <3>1, AppendElements
    <3>3. QED
      BY <2>4, <3>2
  <2>6. Ready(frames', cps', FR, Opened(pos), SP') /\ Apart(frames', ElementsOf(cps), FR, Opened(pos), SP)
    BY <1>1, <1>2, <2>3 DEF GoesOn, Sound
  <2>7. PICK t, new, gs, o : t = cps' /\ new = SP' /\ gs = frames' /\ o = Opened(pos)
    OBVIOUS
  <2>8. /\ Sound(gs, t, FR, o, new)
        /\ Live(gs, ElementsOf(t), FR) = Live(gs, ElementsOf(cps), FR)
    <3>1. /\ Sound(gs, cps, FR, o, SP) /\ c.at = SP /\ c.fr = FR /\ c.clause = gs[FR].clause
          /\ c.cleanup # Null => "cleanup" \in uses
          /\ c.pc # NoPC => Apart(gs, ElementsOf(cps), FR, c.pc, SP)
          /\ Apart(gs, ElementsOf(cps), FR, o, SP)
          /\ \A d : d \in ElementsOf(t) <=> d \in ElementsOf(cps) \/ d = c
          /\ Ready(gs, t, FR, o, new)
      BY <2>3, <2>4, <2>5, <2>6, <2>7
    <3>2. LeavesChoice(gs, cps, FR, o, SP, c, t, o, new)
      BY <3>1 DEF LeavesChoice
    <3>3. QED
      BY <3>2, ChoiceStage
  <2>9. QED
    BY <1>2, <2>3, <2>7, <2>8 DEF OwnGoesOn
<1>5. QED
  BY <1>3, <1>4

(***************************************************************************)
(* Calls and exits                                                         *)
(***************************************************************************)
\* I_CALL.
LEMMA CallOwned ==
  ASSUME CanOwn, Call
  PROVE  OwnGoesOn
<1>1. PICK kind \in Kinds : \E n \in SlotCounts(kind) :
        /\ Push(frames, SP, Frame(kind, FR, CP, Null, n, pos))
        /\ pos' = Start(kind)
  BY DEF Call
<1>2. PICK n \in SlotCounts(kind) :
        /\ Push(frames, SP, Frame(kind, FR, Top(cps), Null, n, pos))
        /\ pos' = Start(kind)
  BY <1>1 DEF CP
<1>3. UNCHANGED <<cps, owned>> /\ Start(kind).open = <<>>
  BY StartIsTyped DEF Call
<1>4. Ready(frames', cps, FR', Start(kind), SP')
  <2>1. GoesOn
    BY CallGoesOn DEF CanOwn
  <2>2. QED
    BY <1>2, <1>3, <2>1 DEF GoesOn
<1>5. Sound(frames, cps, FR, pos, SP) /\ owned' = IF Null = Null THEN owned ELSE owned \cup {Null}
  BY <1>3 DEF CanOwn
<1>6. /\ Sound(frames', cps, FR', Start(kind), SP')
      /\ Owners(frames, Live(frames, ElementsOf(cps), FR), owned)
           => Owners(frames', Live(frames', ElementsOf(cps), FR'), owned')
      /\ NoOrphans(frames, Live(frames, ElementsOf(cps), FR), owned)
           => NoOrphans(frames', Live(frames', ElementsOf(cps), FR'), owned')
  BY <1>2, <1>3, <1>4, <1>5, CallStage
<1>7. QED
  BY <1>2, <1>3, <1>6 DEF OwnGoesOn

\* I_USERCALL.
LEMMA CallGoalOwned ==
  ASSUME CanOwn, CallGoal
  PROVE  OwnGoesOn
<1>1. pos.phase = "body" /\ UserCall(FR, SP, frames, cps, owned, pos) /\ UNCHANGED cps
  BY DEF CallGoal, Running
<1>2. owned \in SUBSET (1..MaxLocals) /\ Sound(frames, cps, FR, pos, SP)
  BY DEF CanOwn, CanRun
<1>3. /\ Sound(frames', cps, FR', pos', SP')
      /\ Owners(frames, Live(frames, ElementsOf(cps), FR), owned)
           => Owners(frames', Live(frames', ElementsOf(cps), FR'), owned')
      /\ NoOrphans(frames, Live(frames, ElementsOf(cps), FR), owned)
           => NoOrphans(frames', Live(frames', ElementsOf(cps), FR'), owned')
  BY <1>1, <1>2, UserCallStage
<1>4. QED
  BY <1>1, <1>3 DEF OwnGoesOn

\* What i_exit keeps of the frame that returns is below a choicepoint.
LEMMA KeptBelowChoice ==
  ASSUME NEW cs, NEW sp, Numbers(frames, cs), Sized(frames, cs, sp), FR \in DOMAIN frames,
         NEW t \in Seq(ChoiceType), ElementsOf(t) \subseteq cs,
         frames[FR].parent \in DOMAIN frames, 0 < frames[FR].parent, frames[FR].parent < FR,
         ~(FR >= AfterExit(t))
  PROVE  \E c \in ElementsOf(t) : FR < c.at
<1> DEFINE h == frames[FR].parent
<1>1. \A c \in ChoiceType : c.at \in Nat
  BY DEF ChoiceType
<1>2. Top(t) \in Nat /\ (t # <<>> => t[Len(t)] \in ElementsOf(t))
  <2>1. CASE t = <<>>
    BY <2>1 DEF Top, Null
  <2>2. CASE t # <<>>
    <3>1. Len(t) \in DOMAIN t /\ t[Len(t)] \in ChoiceType
      BY <2>2, EmptySeq, LenProperties, ElementOfSeq
    <3>2. QED
      BY <1>1, <2>2, <3>1 DEF Top, ElementsOf
  <2>3. QED
    BY <2>1, <2>2
<1>3. FR \in Nat /\ h \in Nat /\ EndOf(frames, h) \in Nat /\ EndOf(frames, h) <= FR
  BY DEF Numbers, Sized
<1>4. ~(Top(t) < h)
  <2>1. SUFFICES ASSUME Top(t) < h PROVE FALSE
    OBVIOUS
  <2>2. AfterExit(t) = EndOf(frames, h)
    BY <2>1 DEF AfterExit, AfterFrame, EndOf
  <2>3. QED
    BY <1>3, <2>2
<1>5. t # <<>>
  BY <1>2, <1>3, <1>4 DEF Top, Null
<1>6. PICK c \in ElementsOf(t) : AfterExit(t) = AfterChoice(c)
  BY <1>2, <1>4, <1>5 DEF AfterExit
<1>7. c.at \in Nat /\ AfterChoice(c) \in Nat /\ (~(FR < c.at) => AfterChoice(c) <= FR)
  BY DEF Numbers, Sized
<1>8. FR < c.at
  BY <1>3, <1>6, <1>7
<1>9. QED
  BY <1>8

\* Exits with the choicepoints t of s.
LEMMA LeaveOwned ==
  ASSUME NEW s, Stacked(frames, s), Tidy(frames, ElementsOf(s)),
         FR \in DOMAIN frames, frames[FR].kind # "query", NEW sp \in Nat,
         \A f \in DOMAIN frames : f < sp, \A c \in ElementsOf(s) : c.at < sp,
         Around(frames, ElementsOf(s), FR, sp),
         NEW t, ElementsOf(t) \subseteq ElementsOf(s),
         \A c \in ElementsOf(s) : c \in ElementsOf(t) \/ c.fr = FR,
         Ready(Below(AfterExit(t), frames), t, frames[FR].parent, frames[FR].ret, AfterExit(t)),
         Leave(t)
  PROVE  /\ Sound(frames', t, FR', pos', SP')
         /\ Owners(frames, Live(frames, ElementsOf(s), FR), owned)
              => Owners(frames', Live(frames', ElementsOf(t), FR'), owned')
         /\ /\ NoOrphans(frames, Live(frames, ElementsOf(s), FR), owned)
            /\ ~(FR >= AfterExit(t)) => \E c \in ElementsOf(t) : FR < c.at
            => NoOrphans(frames', Live(frames', ElementsOf(t), FR'), owned')
<1>1. PICK x : x = AfterExit(t)
  OBVIOUS
<1>2. PICK h, r : h = frames[FR].parent /\ r = frames[FR].ret
  OBVIOUS
<1>3. PICK gone \in SUBSET {FR} : gone = IF FR >= x THEN {FR} ELSE {}
  OBVIOUS
<1>4. ClausesOf({}) = {}
  BY DEF ClausesOf
<1>5. /\ SP' = x /\ FR' = h /\ pos' = r /\ frames' = Below(x, frames)
      /\ owned' = owned \ ClausesOf(gone)
  BY <1>1, <1>2, <1>3, <1>4 DEF Leave
<1>6. Ready(Below(x, frames), t, h, r, x)
  BY <1>1, <1>2
<1>7. gone # {} => x <= FR
  <2>1. x \in Nat /\ FR \in Nat
    <3>1. x \in Nat
      BY <1>6, ReadyProvides
    <3>2. FR \in Nat
      BY FramesInAreTyped DEF Stacked, FramesTyped
    <3>3. QED
      BY <3>1, <3>2
  <2>2. QED
    BY <1>3, <2>1
<1>8. /\ Sound(Below(x, frames), t, h, r, x)
      /\ Owners(frames, Live(frames, ElementsOf(s), FR), owned)
           => Owners(Below(x, frames), Live(Below(x, frames), ElementsOf(t), h), owned \ ClausesOf(gone))
      /\ /\ NoOrphans(frames, Live(frames, ElementsOf(s), FR), owned)
         /\ gone = {} => \E c \in ElementsOf(t) : FR < c.at
         => NoOrphans(Below(x, frames), Live(Below(x, frames), ElementsOf(t), h), owned \ ClausesOf(gone))
  BY <1>2, <1>6, <1>7, LeaveStage
<1>9. gone = {} => ~(FR >= AfterExit(t))
  BY <1>1, <1>3
<1>10. QED
  BY <1>5, <1>8, <1>9

\* Exits that leave the choicepoints alone.
LEMMA ExitOwned ==
  ASSUME CanOwn, frames[FR].kind # "query", Leave(cps), UNCHANGED cps
  PROVE  OwnGoesOn
<1>1. Ready(Below(AfterExit(cps), frames), cps, frames[FR].parent, frames[FR].ret, AfterExit(cps))
  BY LeavesRunning DEF CanOwn, CanRun
<1>2. /\ FR \in DOMAIN frames /\ SP \in Nat
      /\ \A f \in DOMAIN frames : f < SP
      /\ \A c \in ElementsOf(cps) : c.at < SP
      /\ Around(frames, ElementsOf(cps), FR, SP)
      /\ Stacked(frames, cps) /\ Tidy(frames, ElementsOf(cps))
  BY SoundProvides DEF CanOwn, Sound, Ready
<1>3. /\ Sound(frames', cps, FR', pos', SP')
      /\ Owners(frames, Live(frames, ElementsOf(cps), FR), owned)
           => Owners(frames', Live(frames', ElementsOf(cps), FR'), owned')
      /\ /\ NoOrphans(frames, Live(frames, ElementsOf(cps), FR), owned)
         /\ ~(FR >= AfterExit(cps)) => \E c \in ElementsOf(cps) : FR < c.at
         => NoOrphans(frames', Live(frames', ElementsOf(cps), FR'), owned')
  BY <1>1, <1>2, LeaveOwned
<1>4. ASSUME SizeInv, ~(FR >= AfterExit(cps))
      PROVE  \E c \in ElementsOf(cps) : FR < c.at
  <2>1. /\ Numbers(frames, ElementsOf(cps)) /\ cps \in Seq(ChoiceType)
        /\ frames[FR].parent \in DOMAIN frames /\ 0 < frames[FR].parent
    BY RunningProvides DEF CanOwn
  <2>2. frames[FR].parent < FR
    BY <1>2, SoundProvides, Ancestry DEF CanOwn
  <2>3. QED
    BY <1>2, <1>4, <2>1, <2>2, KeptBelowChoice DEF SizeInv
<1>5. QED
  BY <1>3, <1>4 DEF OwnGoesOn

\* I_DEPART.
LEMMA DepartOwned ==
  ASSUME CanOwn, Depart
  PROVE  OwnGoesOn
<1>1. PICK kind \in Kinds : \E n \in SlotCounts(kind) :
        /\ Push(Below(AfterExit(cps), frames), AfterExit(cps),
                Frame(kind, frames[FR].parent, CP, Null, n, frames[FR].ret))
        /\ pos' = Start(kind)
  BY DEF Depart
<1>2. PICK n \in SlotCounts(kind) :
        /\ Push(Below(AfterExit(cps), frames), AfterExit(cps),
                Frame(kind, frames[FR].parent, Top(cps), Null, n, frames[FR].ret))
        /\ pos' = Start(kind)
  BY <1>1 DEF CP
<1>3. PICK h, r, x, gone : /\ h = frames[FR].parent /\ r = frames[FR].ret /\ x = AfterExit(cps)
                           /\ gone = IF FR >= CP THEN {FR} ELSE {}
  OBVIOUS
<1>4. /\ UNCHANGED cps /\ owned' = owned \ ClausesOf(gone) /\ Start(kind).open = <<>>
      /\ Ready(frames', cps, FR', Start(kind), SP')
  <2>1. GoesOn
    BY DepartGoesOn DEF CanOwn
  <2>2. ClausesOf({}) = {}
    BY DEF ClausesOf
  <2>3. owned' = owned \ ClausesOf(gone) /\ UNCHANGED cps
    BY <1>3, <2>2 DEF Depart
  <2>4. QED
    BY <1>2, <2>1, <2>3, StartIsTyped DEF GoesOn
<1>5. frames[FR].kind # "query"
  BY KindRuns DEF CanOwn, Depart, Running
<1>6. Ready(Below(x, frames), cps, h, r, x)
  BY <1>3, <1>5, LeavesRunning DEF CanOwn, CanRun
<1>7. /\ FR \in DOMAIN frames /\ SP \in Nat
      /\ \A f \in DOMAIN frames : f < SP
      /\ \A c \in ElementsOf(cps) : c.at < SP /\ c.at \in Nat
      /\ Around(frames, ElementsOf(cps), FR, SP)
      /\ Stacked(frames, cps) /\ Tidy(frames, ElementsOf(cps))
  BY SoundProvides DEF CanOwn, Sound, Ready
<1>8. /\ CP \in Points(ElementsOf(cps)) /\ CP \in Nat /\ FR \in Nat
      /\ \A c \in ElementsOf(cps) : c.at <= CP
  BY ReadyProvides DEF CanOwn, CanRun, CP
<1>9. /\ gone \in SUBSET {FR}
      /\ gone # {} => x <= FR \/ \A c \in ElementsOf(cps) : c.at <= FR
  BY <1>3, <1>7, <1>8
<1>10. gone = {} => \E c \in ElementsOf(cps) : FR < c.at
  <2>1. SUFFICES ASSUME gone = {} PROVE \E c \in ElementsOf(cps) : FR < c.at
    OBVIOUS
  <2>2. FR < CP
    BY <1>3, <1>8, <2>1
  <2>3. QED
    BY <1>8, <2>2 DEF Points, Null
<1>11. PICK kept : kept = owned \ ClausesOf(gone)
  OBVIOUS
<1>12. PICK gs : gs = Below(x, frames)
  OBVIOUS
<1>13. /\ Sound(gs, cps, h, r, x)
       /\ Owners(frames, Live(frames, ElementsOf(cps), FR), owned)
            => Owners(gs, Live(gs, ElementsOf(cps), h), kept)
       /\ NoOrphans(frames, Live(frames, ElementsOf(cps), FR), owned)
            => NoOrphans(gs, Live(gs, ElementsOf(cps), h), kept)
  <2>1. \A c \in ElementsOf(cps) : c \in ElementsOf(cps) \/ c.fr = FR
    OBVIOUS
  <2>2. /\ Sound(Below(x, frames), cps, h, r, x)
        /\ Owners(frames, Live(frames, ElementsOf(cps), FR), owned)
             => Owners(Below(x, frames), Live(Below(x, frames), ElementsOf(cps), h), owned \ ClausesOf(gone))
        /\ /\ NoOrphans(frames, Live(frames, ElementsOf(cps), FR), owned)
           /\ gone = {} => \E c \in ElementsOf(cps) : FR < c.at
           => NoOrphans(Below(x, frames), Live(Below(x, frames), ElementsOf(cps), h), owned \ ClausesOf(gone))
    BY <1>3, <1>5, <1>6, <1>7, <1>9, <2>1, LeaveStage
  <2>3. QED
    BY <1>10, <1>11, <1>12, <2>2
<1>14. Push(gs, x, Frame(kind, h, Top(cps), Null, n, r)) /\ owned' = IF Null = Null THEN kept ELSE kept \cup {Null}
  BY <1>2, <1>3, <1>4, <1>11, <1>12
<1>15. /\ Sound(frames', cps, FR', Start(kind), SP')
       /\ Owners(gs, Live(gs, ElementsOf(cps), h), kept)
            => Owners(frames', Live(frames', ElementsOf(cps), FR'), owned')
       /\ NoOrphans(gs, Live(gs, ElementsOf(cps), h), kept)
            => NoOrphans(frames', Live(frames', ElementsOf(cps), FR'), owned')
  BY <1>4, <1>13, <1>14, CallStage
<1>16. QED
  BY <1>2, <1>4, <1>13, <1>15 DEF OwnGoesOn

\* I_EXIT_CATCH drops only the choicepoint that catch/3 has left itself.
LEMMA ExitCatchOwned ==
  ASSUME CanOwn, ExitCatch
  PROVE  OwnGoesOn
<1>1. pos.phase = "exitcatch" /\ frames[FR].kind # "query"
  BY KindRuns DEF CanOwn, ExitCatch, Running
<1>2. CASE frames[FR].cuts[1] # CP
  BY <1>1, <1>2, ExitOwned DEF ExitCatch
<1>3. CASE frames[FR].cuts[1] = CP
  <2>1. PICK t : t = SubSeq(cps, 1, Len(cps) - 1)
    OBVIOUS
  <2>2. cps' = t /\ Leave(t)
    BY <1>3, <2>1 DEF ExitCatch
  <2>3. Ready(Below(AfterExit(t), frames), t, frames[FR].parent, frames[FR].ret, AfterExit(t))
    <3>1. GoesOn
      BY ExitCatchGoesOn DEF CanOwn
    <3>2. QED
      BY <2>2, <3>1 DEF GoesOn, Leave
  <2>4. /\ FR \in DOMAIN frames /\ FR \in Nat /\ SP \in Nat
        /\ \A f \in DOMAIN frames : f < SP
        /\ \A c \in ElementsOf(cps) : c.at < SP /\ c.at \in Nat
        /\ Around(frames, ElementsOf(cps), FR, SP)
        /\ Stacked(frames, cps) /\ Tidy(frames, ElementsOf(cps))
    BY SoundProvides DEF CanOwn, Sound, Ready
  <2>5. /\ cps \in Seq(ChoiceType) /\ Ascending(cps) /\ Place(frames, ElementsOf(cps), FR, pos, SP)
        /\ \A c, d \in ElementsOf(cps) : c.at = d.at => c = d
        /\ Len(cps) \in Nat /\ DOMAIN cps = 1..Len(cps)
        /\ Anchored(frames, ElementsOf(cps), FR)
        /\ Numbers(frames, ElementsOf(cps))
        /\ frames[FR].parent \in DOMAIN frames /\ 0 < frames[FR].parent
    BY <1>1, RunningProvides DEF CanOwn, CanRun, Ready, RunsAt
  <2>6. FR < CP /\ frames[FR].choicepoint = CP
    BY <1>1, <1>3, <2>5 DEF Place
  <2>7. cps # <<>> /\ Len(cps) \in 1..Len(cps) /\ Len(cps) - 1 \in 0..Len(cps) /\ CP = cps[Len(cps)].at
    <3>1. cps # <<>>
      BY <2>4, <2>6 DEF CP, Top, Null
    <3>2. Len(cps) # 0
      BY <2>5, <3>1, EmptySeq
    <3>3. QED
      BY <2>5, <3>1, <3>2 DEF CP, Top
  <2>8. /\ ElementsOf(t) \subseteq ElementsOf(cps) /\ t \in Seq(ChoiceType)
        /\ ElementsOf(t) = {cps[i] : i \in 1..Len(cps) - 1}
    BY <2>1, <2>5, <2>7, PrefixElements DEF OldestOf
  <2>9. cps[Len(cps)].fr = FR
    <3>1. PICK c \in ElementsOf(cps) : (c.at < FR \/ c.fr = FR) /\ c.at = CP
      BY <2>4, <2>5, <2>6 DEF Anchored, Points, Null
    <3>2. cps[Len(cps)] \in ElementsOf(cps)
      BY <2>5, <2>7 DEF ElementsOf
    <3>3. c = cps[Len(cps)]
      BY <2>5, <2>7, <3>1, <3>2
    <3>4. ~(c.at < FR)
      BY <2>4, <2>6, <3>1
    <3>5. QED
      BY <3>1, <3>3, <3>4
  <2>10. \A c \in ElementsOf(cps) : c \in ElementsOf(t) \/ c.fr = FR
    <3>1. \A i \in 1..Len(cps) : i = Len(cps) \/ i \in 1..Len(cps) - 1
      <4>1. PICK k : k = Len(cps) /\ k \in Nat
        BY <2>5
      <4>2. \A i \in 1..k : i = k \/ i \in 1..k - 1
        BY <4>1
      <4>3. QED
        BY <4>1, <4>2
    <3>2. QED
      BY <2>5, <2>8, <2>9, <3>1 DEF ElementsOf
  <2>11. /\ Sound(frames', t, FR', pos', SP')
         /\ Owners(frames, Live(frames, ElementsOf(cps), FR), owned)
              => Owners(frames', Live(frames', ElementsOf(t), FR'), owned')
         /\ /\ NoOrphans(frames, Live(frames, ElementsOf(cps), FR), owned)
            /\ ~(FR >= AfterExit(t)) => \E c \in ElementsOf(t) : FR < c.at
            => NoOrphans(frames', Live(frames', ElementsOf(t), FR'), owned')
    BY <1>1, <2>2, <2>3, <2>4, <2>8, <2>10, LeaveOwned
  <2>12. ASSUME SizeInv, ~(FR >= AfterExit(t))
         PROVE  \E c \in ElementsOf(t) : FR < c.at
    <3>1. frames[FR].parent < FR
      BY <2>4, SoundProvides, Ancestry DEF CanOwn
    <3>2. QED
      BY <2>4, <2>5, <2>8, <2>12, <3>1, KeptBelowChoice DEF SizeInv
  <2>13. QED
    BY <2>2, <2>11, <2>12 DEF OwnGoesOn
<1>4. QED
  BY <1>2, <1>3

\* A foreign predicate leaves a choicepoint above its frame.
ForeignLeaves(c, s) == c = Alternative("Head", At("foreign"), Null) /\ s = Append(cps, c)

\* Nothing lies between the frame and its choicepoint, and no frame more can run.
LEMMA ForeignBranches ==
  ASSUME CanOwn, pos.phase = "foreign", NEW c, NEW s, ForeignLeaves(c, s)
  PROVE  /\ c \in ChoiceType /\ c.at = SP /\ c.fr = FR /\ c \in ElementsOf(s)
         /\ Standing(frames, s, FR, AfterChoice(c))
         /\ Anchored(frames, ElementsOf(s), FR)
         /\ Live(frames, ElementsOf(s), FR) = Live(frames, ElementsOf(cps), FR)
<1>1. frames[FR].kind = "foreign"
  BY KindRuns DEF CanOwn
<1>2. /\ c \in ChoiceType /\ c.at = SP /\ c.fr = FR /\ c.pc = At("foreign") /\ c.type = "Head"
      /\ c.clause = frames[FR].clause /\ c.cleanup = Null
  <2>1. At("foreign") \in Pos /\ Null \in Nat
    BY AtIsPos DEF Phases, Null
  <2>2. c.clause = frames[FR].clause /\ c.cleanup = Null
    BY DEF ForeignLeaves, Alternative, NewChoice
  <2>3. c \in ChoiceType /\ c.at = SP /\ c.fr = FR /\ c.pc = At("foreign") /\ c.type = "Head"
    BY <2>1, AlternativeTyped DEF CanOwn, ForeignLeaves
  <2>4. QED
    BY <2>2, <2>3
<1>3. PICK cs, new : cs = ElementsOf(cps) /\ new = AfterChoice(c)
  OBVIOUS
<1>4. /\ FR \in DOMAIN frames /\ FR \in Nat /\ SP \in Nat /\ FR < SP
      /\ \A f \in DOMAIN frames : f \in Nat /\ f < SP
      /\ \A d \in cs : d.at < SP /\ d.at \in Nat
      /\ Around(frames, cs, FR, SP) /\ Grounded(frames)
      /\ Stacked(frames, cps) /\ Tidy(frames, cs)
  BY <1>3, SoundProvides DEF CanOwn, Sound, Ready
<1>5. /\ Stacked(frames, s) /\ ElementsOf(s) = cs \cup {c} /\ Anchored(frames, ElementsOf(s), FR)
      /\ new \in Nat /\ SP < new
  <2>1. /\ FramesTyped(frames) /\ ChoicesTyped(cs) /\ Place(frames, cs, FR, pos, SP)
        /\ Ready(frames, cps, FR, pos, SP)
    BY <1>3, ReadyProvides DEF CanOwn, CanRun
  <2>2. Place(frames, cs, FR, At("foreign"), SP) /\ Noted(frames, FR, At("foreign")) = {}
    BY <1>1, <1>4, <2>1, PlaceReset
  <2>3. /\ Place(frames, cs, FR, c.pc, SP) /\ c.type = "Head" /\ c.pc.phase = "foreign"
        /\ Noted(frames, FR, c.pc) \subseteq Points(cs)
    BY <1>2, <2>2 DEF At
  <2>4. /\ Stacked(frames, Append(cps, c)) /\ ElementsOf(Append(cps, c)) = ElementsOf(cps) \cup {c}
        /\ Anchored(frames, ElementsOf(cps) \cup {c}, FR)
        /\ AfterChoice(c) \in Nat /\ SP < AfterChoice(c)
    <3>0. c \in ChoiceType /\ c.at = SP /\ c.fr = FR /\ pos.phase # "exitcatch"
      BY <1>1, <1>2
    <3>1. /\ Ready(frames, cps, FR, pos, SP)
          /\ Place(frames, ElementsOf(cps), FR, c.pc, SP) /\ c.type = "Head" /\ c.pc.phase = "foreign"
          /\ Noted(frames, FR, c.pc) \subseteq Points(ElementsOf(cps))
      BY <1>3, <2>1, <2>3
    <3>2. QED
      BY <3>0, <3>1, Branches
  <2>5. QED
    BY <1>3, <2>4 DEF ForeignLeaves
<1>6. At("foreign").open = <<>>
  BY DEF At
<1>7. Tidy(frames, cs \cup {c}) /\ \A top : Around(frames, cs \cup {c}, FR, top)
  <2>1. Apart(frames, cs, FR, c.pc, SP)
    BY <1>2, <1>6, NothingNoted
  <2>2. QED
    BY <1>2, <1>4, <2>1, TidyChoice
<1>8. /\ Tidy(frames, ElementsOf(s)) /\ Around(frames, ElementsOf(s), FR, new)
      /\ \A f \in DOMAIN frames : f < new
      /\ \A d \in ElementsOf(s) : d.at < new
  <2>1. \A d \in ElementsOf(s) : d \in cs \/ d = c
    BY <1>5
  <2>2. \A d \in ElementsOf(s) : d.at < new
    <3>1. \A d \in cs : d.at < new
      BY <1>4, <1>5
    <3>2. c.at < new
      BY <1>2, <1>5
    <3>3. QED
      BY <2>1, <3>1, <3>2
  <2>3. \A f \in DOMAIN frames : f < new
    BY <1>4, <1>5
  <2>4. Tidy(frames, ElementsOf(s)) /\ Around(frames, ElementsOf(s), FR, new)
    BY <1>5, <1>7
  <2>5. QED
    BY <2>2, <2>3, <2>4
<1>9. Standing(frames, s, FR, new)
  BY <1>4, <1>5, <1>8 DEF Standing
<1>10. Live(frames, ElementsOf(s), FR) = Live(frames, cs, FR)
  <2>1. \A f : f \in Live(frames, cs \cup {c}, FR) <=> f \in Live(frames, cs, FR)
    BY <1>2, LiveFrames
  <2>2. QED
    BY <1>5, <2>1
<1>11. c \in ElementsOf(s)
  BY <1>5
<1>12. QED
  BY <1>2, <1>3, <1>5, <1>9, <1>10, <1>11

\* I_FOREIGN_NONDET leaves a choicepoint above its frame, which stays.
LEMMA ForeignNondetOwned ==
  ASSUME CanOwn, ForeignNondet
  PROVE  OwnGoesOn
<1>1. pos.phase = "foreign" /\ frames[FR].kind # "query"
  BY KindRuns DEF CanOwn, ForeignNondet, Running
<1>2. PICK c : c = Alternative("Head", At("foreign"), Null) /\ cps' = Append(cps, c) /\ Leave(Append(cps, c))
  BY DEF ForeignNondet
<1>3. PICK s, new : s = Append(cps, c) /\ new = AfterChoice(c)
  OBVIOUS
<1>4. /\ c \in ChoiceType /\ c.at = SP /\ c.fr = FR /\ c \in ElementsOf(s)
      /\ Standing(frames, s, FR, new)
      /\ Live(frames, ElementsOf(s), FR) = Live(frames, ElementsOf(cps), FR)
  BY <1>1, <1>2, <1>3, ForeignBranches DEF ForeignLeaves
<1>5. /\ Stacked(frames, s) /\ Tidy(frames, ElementsOf(s)) /\ FR \in DOMAIN frames /\ new \in Nat
      /\ \A f \in DOMAIN frames : f < new
      /\ \A d \in ElementsOf(s) : d.at < new
      /\ Around(frames, ElementsOf(s), FR, new)
  BY <1>4 DEF Standing
<1>6. FR < c.at
  BY <1>4, SoundProvides DEF CanOwn
<1>7. Ready(Below(AfterExit(s), frames), s, frames[FR].parent, frames[FR].ret, AfterExit(s))
  <2>1. GoesOn
    BY ForeignNondetGoesOn DEF CanOwn
  <2>2. QED
    BY <1>2, <1>3, <2>1 DEF GoesOn, Leave
<1>8. Leave(s) /\ cps' = s /\ \A d \in ElementsOf(s) : d \in ElementsOf(s) \/ d.fr = FR
  BY <1>2, <1>3
<1>9. /\ Sound(frames', s, FR', pos', SP')
      /\ Owners(frames, Live(frames, ElementsOf(s), FR), owned)
           => Owners(frames', Live(frames', ElementsOf(s), FR'), owned')
      /\ /\ NoOrphans(frames, Live(frames, ElementsOf(s), FR), owned)
         /\ ~(FR >= AfterExit(s)) => \E d \in ElementsOf(s) : FR < d.at
         => NoOrphans(frames', Live(frames', ElementsOf(s), FR'), owned')
  BY <1>1, <1>5, <1>7, <1>8, LeaveOwned
<1>10. QED
  BY <1>4, <1>6, <1>8, <1>9 DEF OwnGoesOn

\* catch/3 leaves a choicepoint that cannot be resumed, and marks its frame with it.
CatchLeaves(c, s, gs) ==
  c = Alternative("Head", NoPC, Null) /\ s = Append(cps, c) /\ gs = CatchFrames(c)

\* The frame goes on at its exit; no frame more can run.
LEMMA CatchMarksOwned ==
  ASSUME CanOwn, pos.phase = "catch", NEW c, NEW s, NEW gs, CatchLeaves(c, s, gs)
  PROVE  /\ Sound(gs, s, FR, At("exitcatch"), AfterChoice(c))
         /\ Owners(frames, Live(frames, ElementsOf(cps), FR), owned) => Owners(gs, Live(gs, ElementsOf(s), FR), owned)
         /\ NoOrphans(frames, Live(frames, ElementsOf(cps), FR), owned)
              => NoOrphans(gs, Live(gs, ElementsOf(s), FR), owned)
<1>1. /\ c \in ChoiceType /\ c.at = SP /\ c.fr = FR /\ c.pc = NoPC
      /\ c.clause = frames[FR].clause /\ c.cleanup = Null
  <2>1. c.clause = frames[FR].clause /\ c.cleanup = Null
    BY DEF CatchLeaves, Alternative, NewChoice
  <2>2. c \in ChoiceType /\ c.at = SP /\ c.fr = FR /\ c.pc = NoPC
    BY PlacesAreTyped, AlternativeTyped DEF CanOwn, CatchLeaves
  <2>3. QED
    BY <2>1, <2>2
<1>2. gs = [frames EXCEPT ![FR].choicepoint = c.at, ![FR].cuts[1] = c.at]
  BY DEF CatchLeaves, CatchFrames
<1>3. PICK cs, new, q : s = Append(cps, c) /\ cs = ElementsOf(cps) /\ new = AfterChoice(c) /\ q = At("exitcatch")
  BY DEF CatchLeaves
<1>4. /\ Ready(gs, s, FR, q, new)
      /\ ElementsOf(s) = cs \cup {c}
      /\ \A f \in DOMAIN frames : frames[f].parent # FR
      /\ \A d \in cs : d.fr # FR
  BY <1>1, <1>2, <1>3, CatchMarks DEF CanOwn
<1>5. /\ FR \in DOMAIN frames /\ SP \in Nat
      /\ \A f \in DOMAIN frames : f < SP
      /\ \A d \in cs : d.at < SP /\ d.at \in Nat /\ d.fr \in DOMAIN frames
      /\ Around(frames, cs, FR, SP) /\ Grounded(frames) /\ Tidy(frames, cs)
  BY <1>3, SoundProvides DEF CanOwn, Sound
<1>6. FramesTyped(frames) /\ FramesIn(frames) /\ frames[FR].choicepoint <= SP
  <2>1. FramesTyped(frames) /\ FramesIn(frames) /\ Place(frames, cs, FR, pos, SP)
    BY <1>3, ReadyProvides DEF CanOwn, CanRun
  <2>2. frames[FR].choicepoint < SP
    BY <2>1 DEF Place, Younger, Targets
  <2>3. QED
    BY <1>5, <2>1, <2>2 DEF FramesTyped
<1>7. /\ DOMAIN gs = DOMAIN frames /\ \A f \in DOMAIN frames : f # FR => gs[f] = frames[f]
      /\ gs[FR].parent = frames[FR].parent /\ gs[FR].ret = frames[FR].ret
      /\ gs[FR].clause = frames[FR].clause /\ gs[FR].isLocal = frames[FR].isLocal
      /\ gs[FR].choicepoint = SP
  <2> DEFINE a == frames[FR]
  <2>1. a \in FrameType
    BY <1>5, <1>6 DEF FramesIn
  <2>2. /\ DOMAIN gs = DOMAIN frames /\ \A f \in DOMAIN frames : f # FR => gs[f] = frames[f]
        /\ gs[FR] = [a EXCEPT !.choicepoint = SP, !.cuts = [a.cuts EXCEPT ![1] = SP]]
    BY <1>1, <1>2, <1>5, <2>1 DEF FrameType
  <2> HIDE DEF a
  <2>3. LET b == [a EXCEPT !.choicepoint = SP, !.cuts = [a.cuts EXCEPT ![1] = SP]]
        IN  /\ b.parent = a.parent /\ b.ret = a.ret /\ b.clause = a.clause /\ b.isLocal = a.isLocal
            /\ b.choicepoint = SP
    BY <2>1 DEF FrameType
  <2>4. QED
    BY <2>2, <2>3 DEF a
<1>8. Grounded(gs)
  BY <1>4, StackGrounded DEF Ready
<1>9. \A f \in DOMAIN frames : gs[f].parent = frames[f].parent /\ SameOwner(gs[f], frames[f])
  BY <1>7 DEF SameOwner
<1>10. Tidy(gs, cs)
  <2>1. \A f \in DOMAIN gs :
           /\ f \in DOMAIN frames /\ gs[f].parent = frames[f].parent /\ gs[f].ret = frames[f].ret
           /\ frames[f].choicepoint \in Nat /\ gs[f].choicepoint \in Nat
           /\ frames[f].choicepoint <= gs[f].choicepoint
           /\ gs[f].clause = frames[f].clause /\ (gs[f].isLocal => frames[f].isLocal)
    BY <1>5, <1>6, <1>7 DEF FramesTyped
  <2>2. \A g \in DOMAIN frames : g # FR => \A p : Noted(gs, g, p) = Noted(frames, g, p)
    BY <1>7 DEF Noted
  <2>3. \A f \in DOMAIN gs : frames[f].parent # Null =>
          Noted(gs, frames[f].parent, frames[f].ret) \subseteq Noted(frames, frames[f].parent, frames[f].ret)
    BY <1>4, <1>5, <1>7, <2>2 DEF Grounded
  <2>4. \A d \in cs : d.pc # NoPC => Noted(gs, d.fr, d.pc) \subseteq Noted(frames, d.fr, d.pc)
    BY <1>4, <1>5, <2>2
  <2>5. \A d \in cs : d.fr \in DOMAIN gs /\ d.at \in Nat
    BY <1>5, <1>7
  <2>6. QED
    BY <1>5, <1>8, <2>1, <2>3, <2>4, <2>5, TidyKept
<1>11. Tidy(gs, cs \cup {c})
  <2>1. FR \in DOMAIN gs /\ (\A f \in DOMAIN gs : f < SP) /\ c.clause = gs[FR].clause
    BY <1>1, <1>5, <1>7
  <2>2. Around(gs, cs, FR, SP)
    BY <1>5, <1>7, <1>9 DEF Around
  <2>3. QED
    BY <1>1, <1>5, <1>8, <1>10, <2>1, <2>2, TidyChoice
<1>12. q.open = <<>> /\ q.phase = "exitcatch"
  BY <1>3 DEF At
<1>13. Sound(gs, s, FR, q, new)
  BY <1>4, <1>11, <1>12, NothingNoted DEF Sound
<1>16. Live(gs, ElementsOf(s), FR) = Live(gs, cs, FR)
  <2>1. \A f : f \in Live(gs, cs \cup {c}, FR) <=> f \in Live(gs, cs, FR)
    BY <1>1, LiveFrames
  <2>2. QED
    BY <1>4, <2>1
<1>17. /\ Owners(frames, Live(frames, cs, FR), owned) => Owners(gs, Live(gs, cs, FR), owned)
       /\ NoOrphans(frames, Live(frames, cs, FR), owned) => NoOrphans(gs, Live(gs, cs, FR), owned)
  BY <1>5, <1>7, <1>8, <1>9, OwnersSame
<1>18. QED
  BY <1>3, <1>13, <1>16, <1>17

\* I_CATCH.
LEMMA CatchOwned ==
  ASSUME CanOwn, Catch
  PROVE  OwnGoesOn
<1>1. PICK c, s, gs :
        /\ c = Alternative("Head", NoPC, Null) /\ s = Append(cps, c) /\ gs = CatchFrames(c)
        /\ cps' = s /\ UserCall(FR, AfterChoice(c), gs, s, owned, At("exitcatch"))
  BY DEF Catch, CatchFrames
<1>2. PICK new, q : new = AfterChoice(c) /\ q = At("exitcatch") /\ q.phase = "exitcatch"
  <2>1. At("exitcatch").phase = "exitcatch"
    BY DEF At
  <2>2. QED
    BY <2>1
<1>3. /\ Sound(gs, s, FR, q, new)
      /\ Owners(frames, Live(frames, ElementsOf(cps), FR), owned) => Owners(gs, Live(gs, ElementsOf(s), FR), owned)
      /\ NoOrphans(frames, Live(frames, ElementsOf(cps), FR), owned)
           => NoOrphans(gs, Live(gs, ElementsOf(s), FR), owned)
  BY <1>1, <1>2, CatchMarksOwned DEF Catch, Running, CatchLeaves
<1>4. UserCall(FR, new, gs, s, owned, q) /\ owned \in SUBSET (1..MaxLocals)
  BY <1>1, <1>2 DEF CanOwn, CanRun
<1>5. /\ Sound(frames', s, FR', pos', SP')
      /\ Owners(gs, Live(gs, ElementsOf(s), FR), owned)
           => Owners(frames', Live(frames', ElementsOf(s), FR'), owned')
      /\ NoOrphans(gs, Live(gs, ElementsOf(s), FR), owned)
           => NoOrphans(frames', Live(frames', ElementsOf(s), FR'), owned')
  BY <1>2, <1>3, <1>4, UserCallStage
<1>6. QED
  BY <1>1, <1>3, <1>5 DEF OwnGoesOn

(***************************************************************************)
(* What is left of the stack when its newest part is dropped               *)
(***************************************************************************)
LeftOf(fs, s, gs, t) ==
  /\ Stacked(fs, s) /\ Tidy(fs, ElementsOf(s))
  /\ Stacked(gs, t) /\ LowerPart(fs, gs) /\ ElementsOf(t) \subseteq ElementsOf(s)
  /\ \A f \in DOMAIN gs : gs[f].clause = fs[f].clause /\ (gs[f].isLocal => fs[f].isLocal)

\* Nothing else is new in the frames that are left.
LEMMA LeftProvides ==
  ASSUME NEW fs, NEW s, NEW gs, NEW t, LeftOf(fs, s, gs, t)
  PROVE  /\ Grounded(fs) /\ Grounded(gs) /\ FramesTyped(fs) /\ FramesTyped(gs)
         /\ \A f \in DOMAIN gs :
              /\ f \in DOMAIN fs /\ gs[f].parent = fs[f].parent /\ gs[f].ret = fs[f].ret
              /\ fs[f].choicepoint \in Nat /\ gs[f].choicepoint \in Nat
              /\ fs[f].choicepoint <= gs[f].choicepoint
              /\ gs[f].clause = fs[f].clause /\ (gs[f].isLocal => fs[f].isLocal)
         /\ \A g \in DOMAIN gs : \A p : Noted(gs, g, p) = Noted(fs, g, p)
         /\ \A c \in ElementsOf(t) : c.fr \in DOMAIN gs /\ c.at \in Nat
<1>1. /\ Grounded(fs) /\ Grounded(gs) /\ FramesTyped(fs) /\ FramesTyped(gs)
      /\ \A c \in ElementsOf(t) : c.fr \in DOMAIN gs /\ c.at \in Nat
  <2>1. Stacked(fs, s) /\ Stacked(gs, t)
    BY DEF LeftOf
  <2>2. Grounded(fs) /\ Grounded(gs)
    BY <2>1, StackGrounded
  <2>3. FramesTyped(fs) /\ FramesTyped(gs)
    BY <2>1, FramesInAreTyped DEF Stacked
  <2>4. \A c \in ElementsOf(t) : c.fr \in DOMAIN gs
    BY <2>1 DEF Stacked, StackOK, ChoiceOK
  <2>5. ChoicesTyped(ElementsOf(t))
    BY <2>1, ChoicesAreTyped DEF Stacked
  <2>6. QED
    BY <2>2, <2>3, <2>4, <2>5 DEF ChoicesTyped
<1>2. \A f \in DOMAIN gs : f \in DOMAIN fs /\ SameFrame(gs[f], fs[f])
  BY DEF LeftOf, LowerPart
<1>3. \A f \in DOMAIN gs : fs[f].choicepoint \in Nat
  BY <1>1, <1>2 DEF FramesTyped
<1>4. \A f \in DOMAIN gs :
        /\ gs[f].parent = fs[f].parent /\ gs[f].ret = fs[f].ret
        /\ gs[f].choicepoint = fs[f].choicepoint /\ gs[f].cuts = fs[f].cuts
  BY <1>2 DEF SameFrame
<1>5. \A f \in DOMAIN gs : gs[f].clause = fs[f].clause /\ (gs[f].isLocal => fs[f].isLocal)
  BY DEF LeftOf
<1>6. \A g \in DOMAIN gs : \A p : Noted(gs, g, p) = Noted(fs, g, p)
  BY <1>4 DEF Noted
<1>7. \A f \in DOMAIN gs : gs[f].choicepoint \in Nat /\ fs[f].choicepoint <= gs[f].choicepoint
  BY <1>3, <1>4
<1>8. QED
  BY <1>1, <1>2, <1>3, <1>4, <1>5, <1>6, <1>7

\* So what is left is tidy, and its frames have the callers they had.
LEMMA LeftIsTidy ==
  ASSUME NEW fs, NEW s, NEW gs, NEW t, LeftOf(fs, s, gs, t)
  PROVE  /\ Tidy(gs, ElementsOf(t))
         /\ \A g \in DOMAIN gs : \A f :
              f \in Live(gs, ElementsOf(t), g) <=>
                f \in AncestorsIn(fs, g) \/ \E c \in ElementsOf(t) : f \in AncestorsIn(fs, c.fr)
<1>1. /\ Grounded(fs) /\ Grounded(gs)
      /\ \A f \in DOMAIN gs :
           /\ f \in DOMAIN fs /\ gs[f].parent = fs[f].parent /\ gs[f].ret = fs[f].ret
           /\ fs[f].choicepoint \in Nat /\ gs[f].choicepoint \in Nat
           /\ fs[f].choicepoint <= gs[f].choicepoint
           /\ gs[f].clause = fs[f].clause /\ (gs[f].isLocal => fs[f].isLocal)
      /\ \A g \in DOMAIN gs : \A p : Noted(gs, g, p) = Noted(fs, g, p)
      /\ \A c \in ElementsOf(t) : c.fr \in DOMAIN gs /\ c.at \in Nat
  BY LeftProvides
<1>2. \A f \in DOMAIN gs : fs[f].parent # Null =>
        Noted(gs, fs[f].parent, fs[f].ret) \subseteq Noted(fs, fs[f].parent, fs[f].ret)
  BY <1>1 DEF Grounded
<1>3. \A c \in ElementsOf(t) : c.pc # NoPC => Noted(gs, c.fr, c.pc) \subseteq Noted(fs, c.fr, c.pc)
  BY <1>1
<1>4. PICK cs, ds : cs = ElementsOf(s) /\ ds = ElementsOf(t)
  OBVIOUS
<1>5. ds \in SUBSET cs /\ Tidy(fs, cs)
  BY <1>4 DEF LeftOf
<1>6. Tidy(gs, ds)
  BY <1>1, <1>2, <1>3, <1>4, <1>5, TidyKept
<1>7. \A f \in DOMAIN gs : f \in DOMAIN fs /\ gs[f].parent = fs[f].parent
  BY <1>1
<1>8. \A f \in DOMAIN gs : AncestorsIn(gs, f) = AncestorsIn(fs, f)
  BY <1>1, <1>7, AncestorsKept
<1>9. \A g \in DOMAIN gs : \A f :
        f \in Live(gs, ds, g) <=> f \in AncestorsIn(fs, g) \/ \E c \in ds : f \in AncestorsIn(fs, c.fr)
  BY <1>1, <1>4, <1>8, LiveFrames
<1>10. QED
  BY <1>4, <1>6, <1>9

\* ... and so is a place in them that has noted no more.
LEMMA LeftIsApart ==
  ASSUME NEW fs, NEW s, NEW gs, NEW t, LeftOf(fs, s, gs, t),
         NEW g \in DOMAIN gs, NEW p, NEW q, NEW top, NEW new,
         Apart(fs, ElementsOf(s), g, p, top), Noted(fs, g, q) \subseteq Noted(fs, g, p),
         \A c \in ElementsOf(t) : c.at < new => c.at < top
  PROVE  Apart(gs, ElementsOf(t), g, q, new)
<1>1. /\ Grounded(fs) /\ Grounded(gs)
      /\ \A f \in DOMAIN gs : f \in DOMAIN fs /\ gs[f].parent = fs[f].parent
      /\ Noted(gs, g, q) = Noted(fs, g, q)
      /\ \A c \in ElementsOf(t) : c.fr \in DOMAIN gs
  BY LeftProvides
<1>2. PICK cs, ds : cs = ElementsOf(s) /\ ds = ElementsOf(t)
  OBVIOUS
<1>3. ds \in SUBSET cs
  BY <1>2 DEF LeftOf
<1>4. Noted(gs, g, q) \subseteq Noted(fs, g, p)
  BY <1>1
<1>5. QED
  BY <1>1, <1>2, <1>3, <1>4, ApartKept

(***************************************************************************)
(* Cuts                                                                    *)
(***************************************************************************)
\* cut_to frees the clauses of the frames that only the choicepoints it drops could
\* resume, and of all of them if it drops all that are above the target.
LEMMA CutDrops ==
  ASSUME CanOwn, pos.phase = "body", NEW target \in Targets(frames, FR, pos),
         NEW n \in 0..Len(cps), \A i \in n + 1..Len(cps) : cps[i].at > target,
         NEW q, Noted(frames, FR, q) \subseteq Noted(frames, FR, pos), NEW new \in Nat,
         NEW gone, gone = CutFrames(n),
         NEW gs, DOMAIN gs \subseteq DOMAIN frames, gs = Below(new, Disowned(frames, gone)),
         NEW t, t = SubSeq(cps, 1, n), Ready(gs, t, FR, q, new)
  PROVE  /\ Sound(gs, t, FR, q, new)
         /\ /\ Owners(frames, Live(frames, ElementsOf(cps), FR), owned)
            /\ \A i \in 1..n : cps[i].at <= target
            => Owners(gs, Live(gs, ElementsOf(t), FR), owned \ ClausesOf(gone))
         /\ NoOrphans(frames, Live(frames, ElementsOf(cps), FR), owned)
              => NoOrphans(gs, Live(gs, ElementsOf(t), FR), owned \ ClausesOf(gone))
<1>1. PICK cs, ds : cs = ElementsOf(cps) /\ ds = ElementsOf(t)
  OBVIOUS
<1>2. /\ Stacked(frames, cps) /\ Tidy(frames, cs) /\ Apart(frames, cs, FR, pos, SP)
      /\ FramesIn(frames) /\ FramesTyped(frames) /\ FR \in DOMAIN frames /\ FR \in Nat /\ SP \in Nat
      /\ cps \in Seq(ChoiceType) /\ Ascending(cps) /\ Place(frames, cs, FR, pos, SP)
      /\ Len(cps) \in Nat /\ DOMAIN cps = 1..Len(cps) /\ pos \in Pos
  BY <1>1, ReadyProvides, LenProperties DEF CanOwn, Sound, Ready
<1>3. /\ Nested(frames, cs) /\ Grounded(frames) /\ Around(frames, cs, FR, SP) /\ FR < SP
      /\ \A f \in DOMAIN frames : f \in Nat /\ (frames[f].isLocal => frames[f].clause # Null)
      /\ \A c \in cs : c.at \in Nat /\ c.at < SP /\ c.fr \in DOMAIN frames /\ c.fr < c.at
      /\ Live(frames, cs, FR) \subseteq DOMAIN frames
  BY <1>1, SoundProvides DEF CanOwn
<1>4. ds = {cps[i] : i \in 1..n} /\ ds \subseteq cs /\ cs = {cps[i] : i \in 1..Len(cps)}
  <2>1. cps \in Seq(ChoiceType) /\ Ascending(cps)
    BY <1>2
  <2>2. /\ OldestOf(ElementsOf(cps), ElementsOf(SubSeq(cps, 1, n)))
        /\ ElementsOf(SubSeq(cps, 1, n)) = {cps[i] : i \in 1..n}
    BY <2>1, PrefixElements
  <2>3. ElementsOf(cps) = {cps[i] : i \in 1..Len(cps)}
    BY <1>2 DEF ElementsOf
  <2>4. ds = ElementsOf(SubSeq(cps, 1, n)) /\ cs = ElementsOf(cps)
    BY <1>1
  <2>5. {cps[i] : i \in 1..n} \subseteq {cps[i] : i \in 1..Len(cps)}
    BY <1>2
  <2>6. QED
    BY <2>2, <2>3, <2>4, <2>5
<1>5. gone = {f \in UNION {AncestorsIn(frames, cps[i].fr) : i \in n + 1..Len(cps)} :
                f > FR /\ frames[f].isLocal}
  BY DEF CutFrames, Ancestors, AncestorsIn
<1>6. /\ \A f \in DOMAIN gs : f \notin gone => gs[f] = frames[f]
      /\ \A f \in DOMAIN gs : gs[f].clause = frames[f].clause /\ (gs[f].isLocal => frames[f].isLocal)
      /\ LowerPart(frames, gs) /\ DOMAIN gs = {f \in DOMAIN frames : f < new}
  <2>1. LowerPart(frames, gs) /\ DOMAIN gs = {f \in DOMAIN frames : f < new}
    <3>1. /\ LowerPart(frames, Below(new, Disowned(frames, gone)))
          /\ FramesIn(Below(new, Disowned(frames, gone)))
          /\ DOMAIN Below(new, Disowned(frames, gone)) = {f \in DOMAIN frames : f < new}
      <4>1. \A sp \in Nat : \A g :
              /\ LowerPart(frames, Below(sp, Disowned(frames, g)))
              /\ FramesIn(Below(sp, Disowned(frames, g)))
              /\ DOMAIN Below(sp, Disowned(frames, g)) = {f \in DOMAIN frames : f < sp}
        <5>1. FramesIn(frames)
          BY <1>2
        <5>2. QED
          BY <5>1, BelowIsLower
      <4>2. QED
        BY <4>1
    <3>2. QED
      BY <3>1
  <2>2. \A f \in DOMAIN gs : gs[f] = IF f \in gone THEN [frames[f] EXCEPT !.isLocal = FALSE] ELSE frames[f]
    BY DEF Below, Disowned
  <2>3. \A a \in FrameType : /\ [a EXCEPT !.isLocal = FALSE].clause = a.clause
                             /\ ~[a EXCEPT !.isLocal = FALSE].isLocal
    BY DEF FrameType
  <2>4. \A f \in DOMAIN gs : frames[f] \in FrameType
    BY <1>2 DEF FramesIn
  <2>5. QED
    BY <2>1, <2>2, <2>3, <2>4
<1>7. Stacked(gs, t) /\ FR \in DOMAIN gs
  BY ReadyProvides DEF Ready
<1>8. LeftOf(frames, cps, gs, t)
  BY <1>1, <1>2, <1>4, <1>6, <1>7 DEF LeftOf
<1>9. Sound(gs, t, FR, q, new)
  <2>1. Tidy(gs, ElementsOf(t))
    BY <1>8, LeftIsTidy
  <2>2. Apart(frames, ElementsOf(cps), FR, pos, SP)
    BY <1>1, <1>2
  <2>3. \A c \in ElementsOf(t) : c.at < new => c.at < SP
    BY <1>1, <1>3, <1>4
  <2>4. Apart(gs, ElementsOf(t), FR, q, new)
    BY <1>7, <1>8, <2>2, <2>3, LeftIsApart
  <2>5. QED
    BY <2>1, <2>4 DEF Sound
<1>10. PICK A, B : A = Live(frames, cs, FR) /\ B = Live(gs, ds, FR)
  OBVIOUS
<1>11. /\ \A f : f \in A <=> f \in AncestorsIn(frames, FR) \/ \E c \in cs : f \in AncestorsIn(frames, c.fr)
       /\ \A f : f \in B <=> f \in AncestorsIn(frames, FR) \/ \E c \in ds : f \in AncestorsIn(frames, c.fr)
  BY <1>1, <1>7, <1>8, <1>10, LiveFrames, LeftIsTidy
<1>12. /\ \A f \in DOMAIN frames : \A e \in AncestorsIn(frames, f) : e \in DOMAIN frames /\ e <= f
       /\ B \subseteq DOMAIN gs
  <2>1. \A f \in DOMAIN frames : \A e \in AncestorsIn(frames, f) : e \in DOMAIN frames /\ e <= f
    BY <1>3, Ancestry
  <2>2. Grounded(gs) /\ \A c \in ds : c.fr \in DOMAIN gs
    BY <1>1, <1>8, LeftProvides
  <2>3. QED
    BY <1>7, <1>10, <2>1, <2>2, LiveAreFrames
<1>13. /\ \A f \in gone : /\ f \in Nat /\ FR < f /\ frames[f].isLocal
                         /\ \E c \in cs : c.at > target /\ f \in AncestorsIn(frames, c.fr)
       /\ \A f : frames[f].isLocal /\ f \notin gone =>
            \A i \in n + 1..Len(cps) : f \in AncestorsIn(frames, cps[i].fr) => ~(f > FR)
  <2>1. \A i \in n + 1..Len(cps) : i \in 1..Len(cps) /\ cps[i] \in cs /\ cps[i].fr \in DOMAIN frames
    <3>1. \A i \in n + 1..Len(cps) : i \in 1..Len(cps)
      BY <1>2
    <3>2. QED
      BY <1>3, <1>4, <3>1
  <2>2. ASSUME NEW f \in gone
        PROVE  /\ f \in Nat /\ FR < f /\ frames[f].isLocal
               /\ \E c \in cs : c.at > target /\ f \in AncestorsIn(frames, c.fr)
    <3>1. PICK i \in n + 1..Len(cps) : f \in AncestorsIn(frames, cps[i].fr)
      BY <1>5, <2>2
    <3>2. f > FR /\ frames[f].isLocal
      BY <1>5, <2>2
    <3>3. f \in Nat
      BY <1>3, <1>12, <2>1, <3>1
    <3>4. cps[i] \in cs /\ cps[i].at > target
      BY <2>1
    <3>5. FR < f
      BY <1>2, <3>2, <3>3
    <3>6. QED
      BY <3>1, <3>2, <3>3, <3>4, <3>5
  <2>3. QED
    BY <1>5, <2>2
<1>14. target \in Nat /\ frames[FR].choicepoint \in Nat /\ frames[FR].choicepoint <= target
       /\ frames[FR].choicepoint < FR
  <2>1. target \in Nat /\ frames[FR].choicepoint \in Nat
    BY <1>2, TargetsAreAddresses DEF FramesTyped
  <2>2. TargetsOrdered(frames, FR, pos) /\ frames[FR].choicepoint < FR
    BY <1>2 DEF Place
  <2>3. QED
    BY <2>1, <2>2 DEF TargetsOrdered, Targets, Noted
<1>15. \A f \in gone : target < f
  <2>1. SUFFICES ASSUME NEW f \in gone PROVE target < f
    OBVIOUS
  <2>2. CASE target = frames[FR].choicepoint
    BY <1>2, <1>13, <1>14, <2>2
  <2>3. CASE target \in Noted(frames, FR, pos)
    <3>1. PICK c \in cs : c.at > target /\ f \in AncestorsIn(frames, c.fr)
      BY <1>13
    <3>2. target < c.at /\ c.at < SP /\ FR < f
      BY <1>3, <1>13, <1>14, <3>1
    <3>3. QED
      BY <1>2, <2>3, <3>1, <3>2 DEF Apart
  <2>4. QED
    BY <2>2, <2>3 DEF Targets
<1>16. gone \subseteq A /\ B \subseteq A
  BY <1>4, <1>11, <1>13
<1>17. ASSUME \A i \in 1..n : cps[i].at <= target
       PROVE  gone \cap B = {}
  <2>1. SUFFICES ASSUME NEW f \in gone, f \in B PROVE FALSE
    OBVIOUS
  <2>2. target < f /\ FR < f /\ f \in Nat
    BY <1>13, <1>15
  <2>3. f \notin AncestorsIn(frames, FR)
    BY <1>2, <1>12, <2>2
  <2>4. PICK c \in ds : f \in AncestorsIn(frames, c.fr)
    BY <1>11, <2>1, <2>3
  <2>5. c.at <= target /\ c \in cs
    BY <1>4, <1>17
  <2>6. c.at \in Nat /\ c.fr \in DOMAIN frames /\ c.fr \in Nat /\ c.fr < c.at
    BY <1>3, <2>5
  <2>7. f <= c.fr
    BY <1>12, <2>4, <2>6
  <2>8. QED
    BY <1>14, <2>2, <2>5, <2>6, <2>7
<1>18. \A f \in A : frames[f].isLocal /\ f \notin gone => f \in B
  <2>1. SUFFICES ASSUME NEW f \in A, frames[f].isLocal, f \notin gone PROVE f \in B
    OBVIOUS
  <2>2. CASE f \in AncestorsIn(frames, FR)
    BY <1>11, <2>2
  <2>3. CASE f \notin AncestorsIn(frames, FR)
    <3>1. PICK c \in cs : f \in AncestorsIn(frames, c.fr)
      BY <1>11, <2>1, <2>3
    <3>2. PICK i \in 1..Len(cps) : c = cps[i]
      BY <1>4
    <3>3. CASE i <= n
      <4>1. i \in 1..n
        BY <3>3
      <4>2. QED
        BY <1>4, <1>11, <3>1, <3>2, <4>1
    <3>4. CASE ~(i <= n)
      <4>1. i \in n + 1..Len(cps)
        BY <1>2, <3>4
      <4>2. f <= FR
        <5>1. ~(f > FR)
          BY <1>13, <2>1, <3>1, <3>2, <4>1
        <5>2. f \in Nat
          BY <1>3, <1>12, <3>1
        <5>3. QED
          BY <1>2, <5>1, <5>2
      <4>3. c.at > target
        BY <3>2, <4>1
      <4>4. FR < c.at
        BY <1>2, <1>3, <1>14, <4>3 DEF Tidy, Since
      <4>5. FR <= c.at /\ c.at < SP /\ c.fr \in DOMAIN frames
        BY <1>2, <1>3, <4>4
      <4>6. FR \in AncestorsIn(frames, c.fr)
        BY <1>2, <1>3, <4>5, AroundAncestors
      <4>7. AncestorsIn(frames, FR) = {x \in AncestorsIn(frames, c.fr) : x <= FR}
        BY <1>3, <4>5, <4>6, AncestorsChain
      <4>8. QED
        BY <2>3, <3>1, <4>2, <4>7
    <3>5. QED
      BY <3>3, <3>4
  <2>4. QED
    BY <2>2, <2>3
<1>19. \A f \in B : f \notin gone => SameOwner(gs[f], frames[f])
  BY <1>6, <1>12 DEF SameOwner
<1>20. ClausesOf(gone) = OwnedBy(frames, gone) /\ \A f \in A : frames[f].isLocal => frames[f].clause # Null
  BY <1>3, <1>10, ClausesAreOwned
<1>21. Owners(frames, A, owned) /\ (\A i \in 1..n : cps[i].at <= target)
         => Owners(gs, B, owned \ ClausesOf(gone))
  <2>1. SUFFICES ASSUME Owners(frames, A, owned), \A i \in 1..n : cps[i].at <= target
                 PROVE  Owners(gs, B, owned \ ClausesOf(gone))
    OBVIOUS
  <2>2. gone \cap B = {}
    BY <1>17, <2>1
  <2>3. \A f \in B : SameOwner(gs[f], frames[f])
    BY <1>19, <2>2
  <2>4. gone \in SUBSET A /\ B \in SUBSET A
    BY <1>16
  <2>5. QED
    BY <1>20, <2>1, <2>2, <2>3, <2>4, OwnersPass
<1>22. NoOrphans(frames, A, owned) => NoOrphans(gs, B, owned \ ClausesOf(gone))
  <2>1. \A f \in A : frames[f].isLocal /\ f \notin gone => f \in B /\ SameOwner(gs[f], frames[f])
    BY <1>18, <1>19
  <2>2. QED
    BY <1>20, <2>1, OrphansPass
<1>23. QED
  BY <1>1, <1>9, <1>10, <1>21, <1>22

\* A cut that no cleanup handler interrupts ...
LEMMA CutOwned ==
  ASSUME CanOwn, pos.phase = "body", NEW target \in Targets(frames, FR, pos),
         NEW q \in Pos, Narrower(q, pos), \A t \in Targets(frames, FR, q) : t <= target,
         Cut(target, q)
  PROVE  OwnGoesOn
<1>1. PICK n \in 0..Len(cps) :
        /\ \A i \in DOMAIN cps : i > n <=> cps[i].at > target
        /\ cps'    = SubSeq(cps, 1, n)
        /\ SP'     = CutSP(n)
        /\ frames' = Below(CutSP(n), Disowned(frames, CutFrames(n)))
        /\ owned'  = owned \ ClausesOf(CutFrames(n))
        /\ pos'    = q /\ FR' = FR
  BY DEF Cut
<1>2. /\ Ready(frames, cps, FR, pos, SP) /\ owned \subseteq 1..MaxLocals
      /\ cps \in Seq(ChoiceType) /\ Len(cps) \in Nat /\ DOMAIN cps = 1..Len(cps)
      /\ FramesTyped(frames) /\ FramesIn(frames) /\ FR \in DOMAIN frames /\ pos \in Pos
      /\ ChoicesTyped(ElementsOf(cps))
  BY ReadyProvides, LenProperties DEF CanOwn, CanRun
<1>3. GoesOn
  BY <1>2, Cuts
<1>4. CutSP(n) \in Nat
  BY <1>1, <1>2, CutLeaves
<1>5. PICK new, gone, gs, t, kept :
        /\ new = CutSP(n) /\ gone = CutFrames(n)
        /\ gs = Below(new, Disowned(frames, gone)) /\ t = SubSeq(cps, 1, n)
        /\ kept = owned \ ClausesOf(gone)
  OBVIOUS
<1>6. cps' = t /\ SP' = new /\ frames' = gs /\ owned' = kept /\ pos' = q /\ FR' = FR
  BY <1>1, <1>5
<1>7. Ready(gs, t, FR, q, new)
  BY <1>3, <1>6 DEF GoesOn
<1>8. Noted(frames, FR, q) \subseteq Noted(frames, FR, pos)
  BY DEF Narrower, Noted
<1>9. /\ \A i \in n + 1..Len(cps) : cps[i].at > target
      /\ \A i \in 1..n : cps[i].at <= target
  <2>1. target \in Nat
    BY <1>2, TargetsAreAddresses
  <2>2. \A i \in 1..Len(cps) : cps[i].at \in Nat
    BY <1>2 DEF ElementsOf, ChoicesTyped
  <2>3. \A i \in n + 1..Len(cps) : i \in 1..Len(cps) /\ i > n
    BY <1>2
  <2>4. \A i \in 1..n : i \in 1..Len(cps) /\ ~(i > n)
    BY <1>2
  <2>5. \A i \in n + 1..Len(cps) : cps[i].at > target
    BY <1>1, <1>2, <2>3
  <2>6. \A i \in 1..n : ~(cps[i].at > target)
    BY <1>1, <1>2, <2>4
  <2>7. QED
    BY <2>1, <2>2, <2>4, <2>5, <2>6
<1>10. DOMAIN gs \subseteq DOMAIN frames /\ new \in Nat
  BY <1>4, <1>5 DEF Below, Disowned
<1>11. /\ Sound(gs, t, FR, q, new)
       /\ /\ Owners(frames, Live(frames, ElementsOf(cps), FR), owned)
          /\ \A i \in 1..n : cps[i].at <= target
          => Owners(gs, Live(gs, ElementsOf(t), FR), owned \ ClausesOf(gone))
       /\ NoOrphans(frames, Live(frames, ElementsOf(cps), FR), owned)
            => NoOrphans(gs, Live(gs, ElementsOf(t), FR), owned \ ClausesOf(gone))
  BY <1>5, <1>7, <1>8, <1>9, <1>10, CutDrops
<1>12. QED
  BY <1>5, <1>6, <1>9, <1>11 DEF OwnGoesOn

\* ... and one that is interrupted.
LEMMA CutHandlerOwned ==
  ASSUME CanOwn, pos.phase = "body", NEW target \in Targets(frames, FR, pos),
         \A t \in Targets(frames, FR, pos) : t <= target, CutCleanup(target)
  PROVE  OwnGoesOn
<1>1. PICK n \in DOMAIN cps :
        /\ cps[n].at > target /\ cps[n].cleanup # Null
        /\ cps' = SubSeq(cps, 1, n - 1)
        /\ UserCall(FR, SP, Disowned(frames, CutFrames(n - 1)), cps',
                    owned \ ClausesOf(CutFrames(n - 1)), pos)
  BY DEF CutCleanup
<1>2. /\ Ready(frames, cps, FR, pos, SP) /\ owned \subseteq 1..MaxLocals
      /\ cps \in Seq(ChoiceType) /\ Ascending(cps) /\ Len(cps) \in Nat /\ DOMAIN cps = 1..Len(cps)
      /\ FramesTyped(frames) /\ FramesIn(frames) /\ FR \in DOMAIN frames /\ pos \in Pos
      /\ ChoicesTyped(ElementsOf(cps)) /\ SP \in Nat
      /\ Tidy(frames, ElementsOf(cps)) /\ \A f \in DOMAIN frames : f < SP
  BY ReadyProvides, LenProperties DEF CanOwn, CanRun, Sound, RunsAt
<1>3. "cleanup" \in uses
  BY <1>1 DEF ElementsOf, CanOwn, Sound, Tidy, Labelled
<1>4. PICK m, gone, gs, t, kept :
        /\ m = n - 1 /\ gone = CutFrames(m) /\ gs = Disowned(frames, gone)
        /\ t = SubSeq(cps, 1, m) /\ kept = owned \ ClausesOf(gone)
  OBVIOUS
<1>5. n \in 1..Len(cps) /\ m \in 0..Len(cps) /\ m + 1 = n
  BY <1>2, <1>4
<1>6. cps' = t /\ UserCall(FR, SP, gs, t, kept, pos)
  BY <1>1, <1>4
<1>7. Ready(gs, t, FR, pos, SP)
  BY <1>1, <1>2, <1>4, HandlerStage
<1>8. \A i \in m + 1..Len(cps) : cps[i].at > target
  <2>1. target \in Nat
    BY <1>2, TargetsAreAddresses
  <2>2. ASSUME NEW i \in m + 1..Len(cps)
        PROVE  cps[i].at > target
    <3>1. i \in 1..Len(cps) /\ (i = n \/ n < i)
      BY <1>2, <1>5
    <3>2. n < i => cps[n].at < cps[i].at
      BY <1>2, <1>5, <3>1 DEF Ascending
    <3>3. cps[n].at \in Nat /\ cps[i].at \in Nat
      BY <1>2, <1>5, <3>1 DEF ElementsOf, ChoicesTyped
    <3>4. QED
      BY <1>1, <2>1, <3>1, <3>2, <3>3
  <2>3. QED
    BY <2>2
<1>9. gs = Below(SP, gs) /\ DOMAIN gs = DOMAIN frames
  <2>1. DOMAIN gs = DOMAIN frames /\ gs = [f \in DOMAIN gs |-> gs[f]]
    BY <1>4 DEF Disowned
  <2>2. {f \in DOMAIN gs : f < SP} = DOMAIN gs
    BY <1>2, <2>1
  <2>3. QED
    BY <2>1, <2>2 DEF Below
<1>10. /\ Sound(gs, t, FR, pos, SP)
       /\ NoOrphans(frames, Live(frames, ElementsOf(cps), FR), owned)
            => NoOrphans(gs, Live(gs, ElementsOf(t), FR), owned \ ClausesOf(gone))
  <2>1. gs = Below(SP, Disowned(frames, gone)) /\ DOMAIN gs \subseteq DOMAIN frames
    BY <1>4, <1>9
  <2>2. Noted(frames, FR, pos) \subseteq Noted(frames, FR, pos)
    OBVIOUS
  <2>3. QED
    BY <1>2, <1>4, <1>5, <1>7, <1>8, <2>1, <2>2, CutDrops
<1>11. kept \in SUBSET (1..MaxLocals) /\ pos.phase \in {"body", "exitcatch", "query"}
  BY <1>2, <1>4
<1>12. /\ Sound(frames', t, FR', pos', SP')
       /\ NoOrphans(gs, Live(gs, ElementsOf(t), FR), kept)
            => NoOrphans(frames', Live(frames', ElementsOf(t), FR'), owned')
  BY <1>6, <1>10, <1>11, UserCallStage
<1>13. QED
  BY <1>3, <1>4, <1>6, <1>10, <1>12 DEF OwnGoesOn

\* I_CUT and C_CUT.
LEMMA CutsOwned ==
  ASSUME CanOwn, CutBody \/ CutCondition
  PROVE  OwnGoesOn
<1>1. CanRun
  BY DEF CanOwn
<1>2. PICK target, q : CutsTo(target, q) /\ (Cut(target, q) \/ CutCleanup(target))
  BY <1>1, CutBodyTarget, CutConditionTarget
<1>3. QED
  BY <1>2, CutOwned, CutHandlerOwned DEF CutsTo

(***************************************************************************)
(* Backtracking                                                            *)
(***************************************************************************)
\* The frames that backtracking leaves, the one it resumes among them.
Reinstated(at, gone, g, k, n) ==
  [Below(at, Disowned(frames, gone)) EXCEPT ![g].clause = k, ![g].slotCount = n]

\* gs holds the frames below at, of which only those in gone have given up their clauses.
OlderThan(gs, at, gone) ==
  /\ LowerPart(frames, gs) /\ DOMAIN gs = {f \in DOMAIN frames : f < at}
  /\ \A f \in DOMAIN gs :
       /\ gs[f].clause = frames[f].clause /\ (gs[f].isLocal => frames[f].isLocal)
       /\ f \notin gone => SameOwner(gs[f], frames[f])

\* Backtracking keeps the frames below the choicepoint, and resumes the clause that its frame runs.
LEMMA ReinstatedIsLower ==
  ASSUME FramesIn(frames), NEW at \in Nat, NEW gone, NEW g \in DOMAIN frames, g < at,
         NEW k, k = frames[g].clause, NEW n \in 0..MaxSlots,
         NEW gs, gs = Reinstated(at, gone, g, k, n)
  PROVE  OlderThan(gs, at, gone)
<1>1. PICK low : low = Below(at, Disowned(frames, gone))
  OBVIOUS
<1>2. /\ DOMAIN low = {f \in DOMAIN frames : f < at}
      /\ \A f \in DOMAIN low : low[f] = IF f \in gone THEN [frames[f] EXCEPT !.isLocal = FALSE] ELSE frames[f]
  BY <1>1 DEF Below, Disowned
<1>3. g \in DOMAIN low /\ gs = [low EXCEPT ![g].clause = k, ![g].slotCount = n]
  BY <1>1, <1>2 DEF Reinstated
<1>4. /\ DOMAIN gs = DOMAIN low
      /\ \A f \in DOMAIN low : f # g => gs[f] = low[f]
      /\ gs[g] = [low[g] EXCEPT !.clause = k, !.slotCount = n]
  BY <1>3
<1>5. \A a \in FrameType :
        /\ SameFrame([a EXCEPT !.isLocal = FALSE], a) /\ [a EXCEPT !.isLocal = FALSE].clause = a.clause
        /\ ~[a EXCEPT !.isLocal = FALSE].isLocal /\ [a EXCEPT !.isLocal = FALSE] \in FrameType
        /\ SameFrame(a, a)
  BY DEF FrameType, SameFrame
<1>6. \A f \in DOMAIN low :
        /\ low[f] \in FrameType /\ SameFrame(low[f], frames[f]) /\ low[f].clause = frames[f].clause
        /\ low[f].isLocal => frames[f].isLocal
        /\ f \notin gone => low[f].isLocal = frames[f].isLocal
  <2>1. SUFFICES ASSUME NEW f \in DOMAIN low
                 PROVE  /\ low[f] \in FrameType /\ SameFrame(low[f], frames[f])
                        /\ low[f].clause = frames[f].clause /\ (low[f].isLocal => frames[f].isLocal)
                        /\ f \notin gone => low[f].isLocal = frames[f].isLocal
    OBVIOUS
  <2>2. frames[f] \in FrameType
    BY <1>2 DEF FramesIn
  <2>3. CASE f \in gone
    <3>1. low[f] = [frames[f] EXCEPT !.isLocal = FALSE]
      BY <1>2, <2>3
    <3>2. QED
      BY <1>5, <2>2, <2>3, <3>1
  <2>4. CASE f \notin gone
    <3>1. low[f] = frames[f]
      BY <1>2, <2>4
    <3>2. QED
      BY <1>5, <2>2, <3>1
  <2>5. QED
    BY <2>3, <2>4
<1>7. \A a \in FrameType :
        LET a2 == [a EXCEPT !.clause = k, !.slotCount = n]
        IN  SameFrame(a2, a) /\ a2.clause = k /\ a2.isLocal = a.isLocal
  BY DEF FrameType, SameFrame
<1>8. /\ SameFrame(gs[g], low[g]) /\ gs[g].clause = k /\ gs[g].isLocal = low[g].isLocal
  <2>1. PICK a : a = low[g]
    OBVIOUS
  <2>2. a \in FrameType /\ gs[g] = [a EXCEPT !.clause = k, !.slotCount = n]
    BY <1>3, <1>4, <1>6, <2>1
  <2>3. SameFrame(gs[g], a) /\ gs[g].clause = k /\ gs[g].isLocal = a.isLocal
    BY <1>7, <2>2
  <2>4. QED
    BY <2>1, <2>3
<1>9. \A f \in DOMAIN low : /\ SameFrame(gs[f], frames[f]) /\ gs[f].clause = frames[f].clause
                            /\ gs[f].isLocal = low[f].isLocal
  BY <1>3, <1>4, <1>6, <1>8 DEF SameFrame
<1>10. LowerPart(frames, gs)
  <2>1. \A f \in DOMAIN gs : f \in DOMAIN frames /\ f \in Nat /\ f < at
    BY <1>2, <1>4 DEF FramesIn
  <2>2. \A e \in DOMAIN frames : e \in Nat
    BY DEF FramesIn
  <2>3. \A f \in DOMAIN gs : \A e \in DOMAIN frames : e < f => e \in DOMAIN gs
    BY <1>2, <1>4, <2>1, <2>2
  <2>4. QED
    BY <1>4, <1>9, <2>1, <2>3 DEF LowerPart
<1>11. QED
  BY <1>2, <1>4, <1>6, <1>9, <1>10 DEF SameOwner, OlderThan

\* The frame that choicepoint j resumes, or that runs now if there is no such choicepoint
PlaceAbove(j) == IF j = Len(cps) + 1 THEN FR ELSE cps[j].fr

\* A frame that continues what runs, or what a choicepoint resumes, and was pushed before the
\* next choicepoint below, continues what that one resumes.
LEMMA OlderFrames ==
  ASSUME NEW sp, Standing(frames, cps, FR, sp),
         NEW i \in 1..Len(cps), NEW f \in AncestorsIn(frames, PlaceAbove(i + 1)), f < cps[i].at
  PROVE  f \in AncestorsIn(frames, cps[i].fr)
<1>1. /\ cps \in Seq(ChoiceType) /\ Ascending(cps) /\ Len(cps) \in Nat /\ DOMAIN cps = 1..Len(cps)
      /\ Tidy(frames, ElementsOf(cps))
  BY LenProperties DEF Standing, Stacked
<1>2. /\ Nested(frames, ElementsOf(cps)) /\ FR \in DOMAIN frames /\ sp \in Nat
      /\ Around(frames, ElementsOf(cps), FR, sp)
      /\ \A c \in ElementsOf(cps) : c.at \in Nat /\ c.at < sp /\ c.fr \in DOMAIN frames
  BY StandingProvides
<1>3. cps[i] \in ElementsOf(cps)
  BY <1>1 DEF ElementsOf
<1>4. CASE i = Len(cps)
  <2>1. f \in AncestorsIn(frames, FR)
    BY <1>4 DEF PlaceAbove
  <2>2. QED
    BY <1>2, <1>3, <2>1, PlacesNested
<1>5. CASE i # Len(cps)
  <2>1. PICK j : j = i + 1 /\ j \in 1..Len(cps) /\ i < j /\ j # Len(cps) + 1
    <3>1. PICK m : m = Len(cps) /\ m \in Nat /\ i \in 1..m /\ i # m
      BY <1>1, <1>5
    <3>2. i + 1 \in 1..m /\ i < i + 1 /\ i + 1 # m + 1
      BY <3>1
    <3>3. QED
      BY <3>1, <3>2
  <2>2. f \in AncestorsIn(frames, cps[j].fr)
    BY <2>1 DEF PlaceAbove
  <2>3. cps[j] \in ElementsOf(cps) /\ cps[i].at < cps[j].at
    BY <1>1, <2>1 DEF ElementsOf, Ascending
  <2>4. Around(frames, ElementsOf(cps), cps[j].fr, cps[j].at)
    BY <1>1, <2>3 DEF Tidy
  <2>5. PICK d, g, top : d = cps[i] /\ g = cps[j].fr /\ top = cps[j].at
    OBVIOUS
  <2>6. /\ g \in DOMAIN frames /\ top \in Nat /\ Around(frames, ElementsOf(cps), g, top)
        /\ d \in ElementsOf(cps) /\ d.at < top /\ f \in AncestorsIn(frames, g) /\ f < d.at
    BY <1>2, <1>3, <2>2, <2>3, <2>4, <2>5
  <2>7. f \in AncestorsIn(frames, d.fr)
    BY <1>2, <2>6, PlacesNested
  <2>8. QED
    BY <2>5, <2>7
<1>6. QED
  BY <1>4, <1>5

\* Backtracking frees the clauses of the frames that it abandons, and of no other.
LEMMA BacktrackDrops ==
  ASSUME NEW sp, Standing(frames, cps, FR, sp),
         NEW n \in DOMAIN cps, NEW gone, gone = Abandoned(n),
         NEW c, c = cps[n], NEW t, t = SubSeq(cps, 1, n - 1),
         NEW gs, OlderThan(gs, c.at, gone), Stacked(gs, t), NEW own
  PROVE  /\ Tidy(gs, ElementsOf(t))
         /\ c.pc # NoPC => \A new \in Nat : Apart(gs, ElementsOf(t), c.fr, c.pc, new)
         /\ Owners(frames, Live(frames, ElementsOf(cps), FR), own)
              => Owners(gs, Live(gs, ElementsOf(t), c.fr), own \ ClausesOf(gone))
         /\ NoOrphans(frames, Live(frames, ElementsOf(cps), FR), own)
              => NoOrphans(gs, Live(gs, ElementsOf(t), c.fr), own \ ClausesOf(gone))
<1>1. PICK cs, ds, len : cs = ElementsOf(cps) /\ ds = ElementsOf(t) /\ len = Len(cps)
  OBVIOUS
<1>2. /\ Stacked(frames, cps) /\ Tidy(frames, cs) /\ FramesIn(frames)
      /\ FR \in DOMAIN frames /\ cps \in Seq(ChoiceType) /\ Ascending(cps)
      /\ len \in Nat /\ DOMAIN cps = 1..len
  BY <1>1, LenProperties DEF Standing, Stacked
<1>3. /\ Grounded(frames)
      /\ \A f \in DOMAIN frames : f \in Nat /\ (frames[f].isLocal => frames[f].clause # Null)
      /\ \A d \in cs : d.at \in Nat /\ d.fr \in DOMAIN frames /\ d.fr < d.at
      /\ Live(frames, cs, FR) \subseteq DOMAIN frames
  BY <1>1, StandingProvides
<1>4. /\ \A i \in 1..len : cps[i] \in cs
      /\ n \in 1..len /\ c \in cs /\ cs = {cps[i] : i \in 1..len}
  BY <1>1, <1>2 DEF ElementsOf
<1>num. n \in Nat /\ len \in Nat /\ 0 < n /\ n <= len
  <2>1. n \in 1..len /\ len \in Nat
    BY <1>2, <1>4
  <2>2. QED
    BY <2>1
<1>5. ds = {cps[i] : i \in 1..n - 1} /\ ds \subseteq cs
  <2>1. n - 1 \in 0..Len(cps)
    BY <1>1, <1>2, <1>4
  <2>2. /\ OldestOf(ElementsOf(cps), ElementsOf(SubSeq(cps, 1, n - 1)))
        /\ ElementsOf(SubSeq(cps, 1, n - 1)) = {cps[i] : i \in 1..n - 1}
    <3>1. cps \in Seq(ChoiceType) /\ Ascending(cps)
      BY <1>2
    <3>2. QED
      BY <2>1, <3>1, PrefixElements
  <2>3. QED
    BY <1>1, <2>2 DEF OldestOf
<1>6. \A d \in ds : d.at < c.at
  <2>1. \A i \in 1..n - 1 : i \in 1..len /\ i < n
    BY <1>2, <1>4
  <2>2. QED
    BY <1>2, <1>4, <1>5, <2>1 DEF Ascending
<1>7. /\ c.at \in Nat /\ c.fr \in DOMAIN frames /\ c.fr < c.at /\ c.fr \in Nat
      /\ c.pc # NoPC => Apart(frames, cs, c.fr, c.pc, c.at)
  <2>1. c.at \in Nat /\ c.fr \in DOMAIN frames /\ c.fr < c.at
    BY <1>3, <1>4
  <2>2. c.pc # NoPC => Apart(frames, cs, c.fr, c.pc, c.at)
    BY <1>2, <1>4 DEF Tidy
  <2>3. QED
    BY <1>3, <2>1, <2>2
<1>8. /\ LowerPart(frames, gs) /\ DOMAIN gs = {f \in DOMAIN frames : f < c.at}
      /\ \A f \in DOMAIN gs :
           /\ gs[f].clause = frames[f].clause /\ (gs[f].isLocal => frames[f].isLocal)
           /\ f \notin gone => SameOwner(gs[f], frames[f])
  BY DEF OlderThan
<1>9. LeftOf(frames, cps, gs, t) /\ c.fr \in DOMAIN gs
  BY <1>1, <1>2, <1>5, <1>7, <1>8 DEF LeftOf
<1>10. Tidy(gs, ElementsOf(t))
  BY <1>9, LeftIsTidy
<1>11. ASSUME c.pc # NoPC, NEW new \in Nat
       PROVE  Apart(gs, ElementsOf(t), c.fr, c.pc, new)
  <2>1. PICK g, p, top : g = c.fr /\ p = c.pc /\ top = c.at
    OBVIOUS
  <2>2. /\ g \in DOMAIN gs /\ Apart(frames, ElementsOf(cps), g, p, top)
        /\ Noted(frames, g, p) \subseteq Noted(frames, g, p)
        /\ \A d \in ElementsOf(t) : d.at < new => d.at < top
    BY <1>1, <1>6, <1>7, <1>9, <1>11, <2>1
  <2>3. Apart(gs, ElementsOf(t), g, p, new)
    BY <1>9, <2>2, LeftIsApart
  <2>4. QED
    BY <2>1, <2>3
<1>12. PICK A, B : A = Live(frames, cs, FR) /\ B = Live(gs, ds, c.fr)
  OBVIOUS
<1>13. /\ \A f : f \in A <=> f \in AncestorsIn(frames, FR) \/ \E d \in cs : f \in AncestorsIn(frames, d.fr)
       /\ \A f : f \in B <=> f \in AncestorsIn(frames, c.fr) \/ \E d \in ds : f \in AncestorsIn(frames, d.fr)
       /\ B \subseteq DOMAIN gs
  <2>1. \A f : f \in A <=> f \in AncestorsIn(frames, FR) \/ \E d \in cs : f \in AncestorsIn(frames, d.fr)
    BY <1>12, LiveFrames
  <2>2. PICK g : g = c.fr /\ g \in DOMAIN gs
    BY <1>9
  <2>3. \A f : f \in Live(gs, ElementsOf(t), g) <=>
                 f \in AncestorsIn(frames, g) \/ \E d \in ElementsOf(t) : f \in AncestorsIn(frames, d.fr)
    BY <1>9, <2>2, LeftIsTidy
  <2>4. Grounded(gs) /\ \A d \in ds : d.fr \in DOMAIN gs
    BY <1>1, <1>9, LeftProvides
  <2>5. Live(gs, ds, g) \subseteq DOMAIN gs
    BY <2>2, <2>4, LiveAreFrames
  <2>6. QED
    BY <1>1, <1>12, <2>1, <2>2, <2>3, <2>5
<1>14. \A f \in DOMAIN frames : \A e \in AncestorsIn(frames, f) : e \in DOMAIN frames /\ e <= f
  BY <1>3, Ancestry
<1>15. gone = UNION {{f \in AncestorsIn(frames, PlaceAbove(i + 1)) : f > cps[i].fr /\ frames[f].isLocal}
                       : i \in n..len}
  <2>1. \A i \in n..len : PlaceAbove(i + 1) = IF i = Len(cps) THEN FR ELSE cps[i + 1].fr
    <3>1. \A i \in n..len : i + 1 = len + 1 <=> i = len
      BY <1>num
    <3>2. QED
      BY <1>1, <3>1 DEF PlaceAbove
  <2>2. \A f : Ancestors(f) = AncestorsIn(frames, f)
    BY DEF Ancestors, AncestorsIn
  <2>3. QED
    BY <1>1, <2>1, <2>2 DEF Abandoned
<1>16. \A i \in n..len : /\ i \in 1..len /\ cps[i] \in cs /\ c.at <= cps[i].at
                         /\ PlaceAbove(i + 1) \in DOMAIN frames
                         /\ PlaceAbove(i + 1) = FR \/ \E d \in cs : PlaceAbove(i + 1) = d.fr
  <2>1. SUFFICES ASSUME NEW i \in n..len
                 PROVE  /\ i \in 1..len /\ cps[i] \in cs /\ c.at <= cps[i].at
                        /\ PlaceAbove(i + 1) \in DOMAIN frames
                        /\ PlaceAbove(i + 1) = FR \/ \E d \in cs : PlaceAbove(i + 1) = d.fr
    OBVIOUS
  <2>2. i \in 1..len /\ cps[i] \in cs /\ (i = n \/ n < i)
    <3>1. i \in 1..len /\ (i = n \/ n < i)
      BY <1>num
    <3>2. QED
      BY <1>4, <3>1
  <2>3. c.at <= cps[i].at
    <3>1. CASE i = n
      BY <1>7, <3>1
    <3>2. CASE n < i
      <4>1. cps[n].at < cps[i].at /\ cps[n].at \in Nat /\ cps[i].at \in Nat
        BY <1>2, <1>3, <1>4, <2>2, <3>2 DEF Ascending
      <4>2. QED
        BY <4>1
    <3>3. QED
      BY <2>2, <3>1, <3>2
  <2>4. PlaceAbove(i + 1) = FR \/ \E d \in cs : PlaceAbove(i + 1) = d.fr
    <3>1. CASE i = len
      BY <1>1, <3>1 DEF PlaceAbove
    <3>2. CASE i # len
      <4>1. PICK j : j = i + 1 /\ j \in 1..len /\ j # len + 1
        BY <1>2, <2>2, <3>2
      <4>2. PlaceAbove(j) = cps[j].fr /\ cps[j] \in cs
        BY <1>1, <1>4, <4>1 DEF PlaceAbove
      <4>3. QED
        BY <4>1, <4>2
    <3>3. QED
      BY <3>1, <3>2
  <2>5. QED
    BY <1>2, <1>3, <2>2, <2>3, <2>4
<1>17. \A i \in n..len : \A f \in AncestorsIn(frames, PlaceAbove(i + 1)) :
         f < cps[i].at => f \in AncestorsIn(frames, cps[i].fr)
  BY <1>1, <1>16, OlderFrames
<1>18. \A f \in gone : f \in A /\ f \notin B
  <2>1. SUFFICES ASSUME NEW f \in gone PROVE f \in A /\ f \notin B
    OBVIOUS
  <2>2. PICK i \in n..len : f \in AncestorsIn(frames, PlaceAbove(i + 1)) /\ f > cps[i].fr
    BY <1>15
  <2>3. /\ i \in 1..len /\ cps[i] \in cs /\ c.at <= cps[i].at /\ f \in Nat
        /\ cps[i].at \in Nat /\ cps[i].fr \in DOMAIN frames /\ cps[i].fr \in Nat
    BY <1>3, <1>14, <1>16, <2>2
  <2>4. f \in A
    BY <1>13, <1>16, <2>2
  <2>5. f \notin AncestorsIn(frames, cps[i].fr)
    BY <1>14, <2>2, <2>3
  <2>6. ~(f < cps[i].at)
    BY <1>17, <2>2, <2>5
  <2>7. ~(f < c.at)
    BY <1>7, <2>3, <2>6
  <2>8. f \notin B
    BY <1>8, <1>13, <2>7
  <2>9. QED
    BY <2>4, <2>8
<1>19. \A f \in A : frames[f].isLocal /\ f \notin gone => f \in B
  <2>1. SUFFICES ASSUME NEW f \in A, frames[f].isLocal, f \notin gone, f \notin B PROVE FALSE
    OBVIOUS
  <2> DEFINE T == {j \in n + 1..len + 1 : f \in AncestorsIn(frames, PlaceAbove(j))}
  <2>2. T # {}
    <3>1. CASE f \in AncestorsIn(frames, FR)
      <4>1. len + 1 \in n + 1..len + 1 /\ PlaceAbove(len + 1) = FR
        BY <1>1, <1>2, <1>4 DEF PlaceAbove
      <4>2. QED
        BY <3>1, <4>1
    <3>2. ASSUME NEW d \in cs, f \in AncestorsIn(frames, d.fr)
          PROVE  T # {}
      <4>1. PICK k \in 1..len : d = cps[k]
        BY <1>4
      <4>2. ~(k < n)
        <5>1. k < n => k \in 1..n - 1
          BY <1>2, <1>4
        <5>2. QED
          BY <1>5, <1>13, <2>1, <3>2, <4>1, <5>1
      <4>3. k # n
        BY <1>13, <2>1, <3>2, <4>1
      <4>4. k \in n + 1..len + 1 /\ k # len + 1
        <5>1. k \in Nat /\ k <= len /\ 0 < k
          BY <1>num
        <5>2. QED
          BY <1>num, <4>2, <4>3, <5>1
      <4>5. PlaceAbove(k) = d.fr
        BY <1>1, <4>1, <4>4 DEF PlaceAbove
      <4>6. QED
        BY <3>2, <4>4, <4>5
    <3>3. QED
      BY <1>13, <2>1, <3>1, <3>2
  <2>3. T \in SUBSET Nat
    BY <1>2, <1>4
  <2>4. PICK j \in T : \A y \in T : j <= y
    <3> HIDE DEF T
    <3>1. QED
      BY <2>2, <2>3, LeastNumber
  <2>5. PICK i : i = j - 1 /\ i \in n..len /\ j = i + 1 /\ i \in Nat
    <3>1. j \in n + 1..len + 1
      OBVIOUS
    <3> HIDE DEF T
    <3>2. j - 1 \in n..len /\ j = j - 1 + 1 /\ j - 1 \in Nat
      BY <1>num, <3>1
    <3>3. QED
      BY <3>2
  <2>6. f \in AncestorsIn(frames, PlaceAbove(i + 1))
    BY <2>4, <2>5
  <2>7. f \notin AncestorsIn(frames, cps[i].fr)
    <3>1. CASE i = n
      BY <1>13, <2>1, <3>1
    <3>2. CASE i # n
      <4>1. i \in n + 1..len + 1 /\ ~(j <= i) /\ i # len + 1
        <5>1. i \in Nat /\ i <= len /\ n <= i /\ j = i + 1
          BY <1>num, <2>5
        <5> HIDE DEF T
        <5>2. QED
          BY <1>num, <3>2, <5>1
      <4>2. i \notin T
        BY <2>4, <4>1
      <4>3. PlaceAbove(i) = cps[i].fr
        BY <1>1, <4>1 DEF PlaceAbove
      <4>4. QED
        BY <4>1, <4>2, <4>3
    <3>3. QED
      BY <3>1, <3>2
  <2>8. ~(f < cps[i].at)
    BY <1>17, <2>5, <2>6, <2>7
  <2>9. /\ cps[i].at \in Nat /\ cps[i].fr \in Nat /\ cps[i].fr < cps[i].at /\ f \in Nat
    BY <1>3, <1>12, <1>16, <2>1, <2>5
  <2>10. f > cps[i].fr
    BY <2>8, <2>9
  <2>11. QED
    BY <1>15, <2>1, <2>5, <2>6, <2>10
<1>20. ClausesOf(gone) = OwnedBy(frames, gone) /\ \A f \in A : frames[f].isLocal => frames[f].clause # Null
  BY <1>3, <1>12, ClausesAreOwned
<1>21. \A f \in B : f \notin gone => SameOwner(gs[f], frames[f])
  BY <1>8, <1>13
<1>22. B \in SUBSET A
  BY <1>4, <1>5, <1>13
<1>23. Owners(frames, A, own) => Owners(gs, B, own \ ClausesOf(gone))
  <2>1. SUFFICES ASSUME Owners(frames, A, own) PROVE Owners(gs, B, own \ ClausesOf(gone))
    OBVIOUS
  <2>2. gone \in SUBSET A /\ gone \cap B = {} /\ \A f \in B : SameOwner(gs[f], frames[f])
    BY <1>18, <1>21
  <2>3. QED
    BY <1>20, <1>22, <2>1, <2>2, OwnersPass
<1>24. NoOrphans(frames, A, own) => NoOrphans(gs, B, own \ ClausesOf(gone))
  <2>1. \A f \in A : frames[f].isLocal /\ f \notin gone => f \in B /\ SameOwner(gs[f], frames[f])
    BY <1>19, <1>21
  <2>2. QED
    BY <1>20, <2>1, OrphansPass
<1>25. QED
  BY <1>1, <1>10, <1>11, <1>12, <1>23, <1>24

\* The choicepoint that is applied lies above its frame, and resumes the clause that runs there.
LEMMA ChoiceAppliedOK ==
  ASSUME CanOwn, NEW n \in DOMAIN cps, NEW c, c = cps[n]
  PROVE  /\ FramesIn(frames) /\ c \in ChoiceType
         /\ c.fr \in DOMAIN frames /\ c.fr < c.at /\ c.clause = frames[c.fr].clause
<1>1. /\ FramesIn(frames) /\ Tidy(frames, ElementsOf(cps))
      /\ \A d \in ElementsOf(cps) : d \in ChoiceType
  BY ReadyProvides, ChoicesAreTyped DEF CanOwn, Sound
<1>2. \A d \in ElementsOf(cps) : d.fr \in DOMAIN frames /\ d.fr < d.at
  BY SoundProvides DEF CanOwn
<1>3. c \in ElementsOf(cps)
  BY DEF ElementsOf
<1>4. QED
  BY <1>1, <1>2, <1>3 DEF Tidy, Labelled

\* Backtracking, also when there is nothing left to try.
LEMMA BacktrackOwned ==
  ASSUME StackInv, CanOwn, Backtrack
  PROVE  /\ Tidy(frames', ElementsOf(cps'))
         /\ status' # "fail" => Sound(frames', cps', FR', pos', SP')
         /\ Owners(frames, Live(frames, ElementsOf(cps), FR), owned)
              => Owners(frames', Live(frames', ElementsOf(cps'), FR'), owned')
         /\ NoOrphans(frames, Live(frames, ElementsOf(cps), FR), owned)
              => NoOrphans(frames', Live(frames', ElementsOf(cps'), FR'), owned')
<1>1. /\ Stacked(frames', cps')
      /\ status' # "fail" => Ready(frames', cps', FR', pos', SP')
  BY Backtracks DEF CanOwn, CanRun
<1>2. CASE cps = <<>> /\ status' = "fail" /\ UNCHANGED <<FR, SP, frames, cps, pos, owned>>
  BY <1>2 DEF CanOwn, Sound
<1>3. ASSUME NEW n \in DOMAIN cps, status' = IF cps[n].pc = NoPC THEN "fail" ELSE "run",
             cps' = SubSeq(cps, 1, n - 1), Apply(cps[n], Abandoned(n))
      PROVE  /\ Tidy(frames', ElementsOf(cps'))
             /\ status' # "fail" => Sound(frames', cps', FR', pos', SP')
             /\ Owners(frames, Live(frames, ElementsOf(cps), FR), owned)
                  => Owners(frames', Live(frames', ElementsOf(cps'), FR'), owned')
             /\ NoOrphans(frames, Live(frames, ElementsOf(cps), FR), owned)
                  => NoOrphans(frames', Live(frames', ElementsOf(cps'), FR'), owned')
  <2>1. PICK c, gone, t, gs, kept, new :
          /\ c = cps[n] /\ gone = Abandoned(n) /\ t = SubSeq(cps, 1, n - 1)
          /\ gs = Reinstated(c.at, gone, c.fr, c.clause, c.slotCount)
          /\ kept = owned \ ClausesOf(gone) /\ new = SP'
    OBVIOUS
  <2>2. cps' = t /\ frames' = gs /\ FR' = c.fr /\ pos' = c.pc /\ owned' = kept
    BY <1>3, <2>1 DEF Apply, Reinstated
  <2>3. Stacked(gs, t)
    BY <1>1, <2>2
  <2>8. OlderThan(gs, c.at, gone)
    <3>1. /\ FramesIn(frames) /\ c \in ChoiceType
          /\ c.fr \in DOMAIN frames /\ c.fr < c.at /\ c.clause = frames[c.fr].clause
      BY <1>3, <2>1, ChoiceAppliedOK
    <3>2. PICK at, g, k, m : at = c.at /\ g = c.fr /\ k = c.clause /\ m = c.slotCount
      OBVIOUS
    <3>3. /\ FramesIn(frames) /\ at \in Nat /\ g \in DOMAIN frames /\ g < at
          /\ k = frames[g].clause /\ m \in 0..MaxSlots /\ gs = Reinstated(at, gone, g, k, m)
      BY <2>1, <3>1, <3>2 DEF ChoiceType
    <3>4. OlderThan(gs, at, gone)
      BY <3>3, ReinstatedIsLower
    <3>5. QED
      BY <3>2, <3>4
  <2>9. Standing(frames, cps, FR, SP)
    BY SoundStands DEF CanOwn
  <2>4. /\ Tidy(gs, ElementsOf(t))
        /\ c.pc # NoPC => \A top \in Nat : Apart(gs, ElementsOf(t), c.fr, c.pc, top)
        /\ Owners(frames, Live(frames, ElementsOf(cps), FR), owned)
             => Owners(gs, Live(gs, ElementsOf(t), c.fr), kept)
        /\ NoOrphans(frames, Live(frames, ElementsOf(cps), FR), owned)
             => NoOrphans(gs, Live(gs, ElementsOf(t), c.fr), kept)
    BY <1>3, <2>1, <2>3, <2>8, <2>9, BacktrackDrops
  <2>5. ASSUME status' # "fail"
        PROVE  Sound(frames', cps', FR', pos', SP')
    <3>1. Ready(frames', cps', FR', pos', SP') /\ c.pc # NoPC
      BY <1>1, <1>3, <2>1, <2>5
    <3>2. Ready(gs, t, c.fr, c.pc, new)
      BY <2>1, <2>2, <3>1
    <3>3. new \in Nat
      BY <3>2 DEF Ready
    <3>4. Sound(gs, t, c.fr, c.pc, new)
      BY <2>4, <3>1, <3>2, <3>3 DEF Sound
    <3>5. QED
      BY <2>1, <2>2, <3>4
  <2>6. QED
    BY <2>2, <2>4, <2>5
<1>4. QED
  BY <1>2, <1>3 DEF Backtrack

(***************************************************************************)
(* Every step                                                              *)
(***************************************************************************)
\* No instruction, and no backtracking, frees a clause in use or forgets one.
LEMMA StepOwned ==
  ASSUME CanOwn, StackInv, Next
  PROVE  /\ Tidy(frames', ElementsOf(cps'))
         /\ status' # "fail" => Sound(frames', cps', FR', pos', SP')
         /\ "cleanup" \notin uses /\ Owners(frames, Live(frames, ElementsOf(cps), FR), owned)
              => Owners(frames', Live(frames', ElementsOf(cps'), FR'), owned')
         /\ SizeInv /\ NoOrphans(frames, Live(frames, ElementsOf(cps), FR), owned)
              => NoOrphans(frames', Live(frames', ElementsOf(cps'), FR'), owned')
<1>1. CASE Backtrack
  BY <1>1, BacktrackOwned
<1>2. CASE ~Backtrack
  <2>1. OwnGoesOn
    <3>1. CASE MakeVar \/ BindVar \/ ExitQuery \/ CutWithinCondition
      BY <3>1, KeepingOwned DEF MakeVar, BindVar, ExitQuery, CutWithinCondition
    <3>2. CASE Exit \/ Foreign
      <4>1. frames[FR].kind # "query" /\ Leave(cps) /\ UNCHANGED cps
        BY <3>2, KindRuns DEF CanOwn, Exit, Foreign, Running
      <4>2. QED
        BY <4>1, ExitOwned
    <3>3. CASE TryMe \/ Enter \/ Call \/ Depart \/ CallGoal
      BY <3>3, TryMeOwned, EnterOwned, CallOwned, DepartOwned, CallGoalOwned
    <3>4. CASE Or \/ CleanupChoicepoint
      BY <3>4, OrOwned
    <3>5. CASE IfThen \/ IfThenElse
      BY <3>5, ConditionsOwned
    <3>6. CASE CutBody \/ CutCondition
      BY <3>6, CutsOwned
    <3>7. CASE Catch \/ ExitCatch \/ ForeignNondet
      BY <3>7, CatchOwned, ExitCatchOwned, ForeignNondetOwned
    <3>8. CASE Fail \/ ForeignFail \/ BacktrackQuery
      BY <1>2, <3>8 DEF Fail, ForeignFail, BacktrackQuery
    <3>9. QED
      BY <3>1, <3>2, <3>3, <3>4, <3>5, <3>6, <3>7, <3>8 DEF Next, Instruction
  <2>2. QED
    BY <2>1 DEF OwnGoesOn, Sound
<1>3. QED
  BY <1>1, <1>2

\* What tells the owners of clauses apart; without cleanup handlers they are all there.
UseInv ==
  /\ Tidy(frames, ElementsOf(cps))
  /\ status # "fail" => Apart(frames, ElementsOf(cps), FR, pos, SP)
  /\ "cleanup" \notin uses => Owners(frames, Live(frames, ElementsOf(cps), FR), owned)

\* ... and no clause is without one.
LeakInv == NoOrphans(frames, Live(frames, ElementsOf(cps), FR), owned)

\* A frame that runs, or ran last, can go on.
LEMMA RunsOwned ==
  ASSUME WellFormed, UseInv, Next
  PROVE  CanOwn /\ StackInv /\ uses' = uses
<1>1. CanRun /\ status # "fail" /\ StackInv /\ uses' = uses
  BY StepOfRunning DEF WellFormed, StackInv, TrailInv, CanRun
<1>2. QED
  BY <1>1 DEF CanOwn, CanRun, Sound, UseInv

\* What holds of the new values of the registers is the invariant of the next state.
LEMMA NextUse ==
  ASSUME uses' = uses, Tidy(frames', ElementsOf(cps')),
         status' # "fail" => Apart(frames', ElementsOf(cps'), FR', pos', SP'),
         "cleanup" \notin uses => Owners(frames', Live(frames', ElementsOf(cps'), FR'), owned')
  PROVE  UseInv'
<1>1. Labelled(frames', ElementsOf(cps')) = Labelled(frames, ElementsOf(cps))'
  BY DEF Labelled
<1>2. Tidy(frames', ElementsOf(cps')) = Tidy(frames, ElementsOf(cps))'
  BY <1>1 DEF Tidy
<1>3. QED
  BY <1>2 DEF UseInv

\* Every step keeps the clauses in use (kernel.c: i_exit, i_depart, cut_to, backtrack).
LEMMA UseStep ==
  ASSUME WellFormed, UseInv, [Next]_vars
  PROVE  UseInv'
<1>1. CASE UNCHANGED vars
  <2>1. UNCHANGED <<FR, SP, pos, frames, cps, status, owned, uses>>
    BY <1>1 DEF vars
  <2>2. QED
    BY <2>1, NextUse DEF UseInv
<1>2. CASE Next
  <2>1. CanOwn /\ StackInv /\ uses' = uses
    BY <1>2, RunsOwned
  <2>2. /\ Tidy(frames', ElementsOf(cps'))
        /\ status' # "fail" => Sound(frames', cps', FR', pos', SP')
        /\ "cleanup" \notin uses /\ Owners(frames, Live(frames, ElementsOf(cps), FR), owned)
             => Owners(frames', Live(frames', ElementsOf(cps'), FR'), owned')
    BY <1>2, <2>1, StepOwned
  <2>3. status' # "fail" => Apart(frames', ElementsOf(cps'), FR', pos', SP')
    BY <2>2 DEF Sound
  <2>4. "cleanup" \notin uses => Owners(frames', Live(frames', ElementsOf(cps'), FR'), owned')
    BY <2>2 DEF UseInv
  <2>5. QED
    BY <2>1, <2>2, <2>3, <2>4, NextUse
<1>3. QED
  BY <1>1, <1>2

\* Every step keeps an owner for every clause compiled for a call.
LEMMA LeakStep ==
  ASSUME WellFormed, UseInv, MemoryInv, LeakInv, [Next]_vars
  PROVE  LeakInv'
<1>1. CASE UNCHANGED vars
  BY <1>1 DEF vars, LeakInv
<1>2. CASE Next
  <2>1. CanOwn /\ StackInv
    BY <1>2, RunsOwned
  <2>2. NoOrphans(frames', Live(frames', ElementsOf(cps'), FR'), owned')
    BY <1>2, <2>1, StepOwned DEF MemoryInv, LeakInv
  <2>3. QED
    BY <2>2 DEF LeakInv
<1>3. QED
  BY <1>1, <1>2

\* The goal of a query owns the clause it has been compiled to.
LEMMA InitUse ==
  ASSUME Init
  PROVE  UseInv /\ LeakInv
<1>1. /\ cps = <<>> /\ FR = 2 /\ SP = 3 /\ owned = {1} /\ pos = At("body")
      /\ frames = <<HostFrame(<<>>), GoalFrame(<<>>, 1, 1)>>
  BY DEF Init
<1>2. ElementsOf(cps) = {}
  BY <1>1 DEF ElementsOf
<1>3. /\ DOMAIN frames = {1, 2}
      /\ frames[1].clause = Null /\ ~frames[1].isLocal /\ frames[1].parent = Null
      /\ frames[2].clause = 1 /\ frames[2].isLocal /\ frames[2].parent = 1
      /\ frames[2].ret = At("query") /\ 1 # Null
  <2>1. DOMAIN frames = {1, 2} /\ frames[1] = HostFrame(<<>>) /\ frames[2] = GoalFrame(<<>>, 1, 1)
    BY <1>1
  <2>2. HostFrame(<<>>) = Frame("query", Null, Top(<<>>), Null, 0, NoPC)
    BY DEF HostFrame
  <2>3. GoalFrame(<<>>, 1, 1) = Frame("pred", 1, Top(<<>>), 1, QueryReserved, At("query"))
    BY DEF GoalFrame
  <2>4. ASSUME NEW b, NEW kind, NEW h, NEW target, NEW k, NEW n, NEW r,
               b = Frame(kind, h, target, k, n, r)
        PROVE  b.clause = k /\ b.parent = h /\ b.ret = r /\ (b.isLocal <=> k # Null)
    BY <2>4 DEF Frame
  <2>5. 1 # Null
    BY DEF Null
  <2>6. QED
    BY <2>1, <2>2, <2>3, <2>4, <2>5
<1>4. At("query").open = <<>> /\ At("body").open = <<>>
  BY DEF At
<1>5. Tidy(frames, {})
  <2>1. \A f \in DOMAIN frames : frames[f].parent # Null => Apart(frames, {}, frames[f].parent, frames[f].ret, f)
    BY DEF Apart
  <2>2. Labelled(frames, {}) /\ Since(frames, {})
    BY <1>3 DEF Labelled, Since
  <2>3. QED
    BY <2>1, <2>2 DEF Tidy
<1>6. Apart(frames, {}, FR, pos, SP)
  BY DEF Apart
<1>7. StackInv
  BY InitStackInv
<1>8. Grounded(frames) /\ FR \in DOMAIN frames
  BY <1>1, <1>3, <1>7, StackGrounded DEF StackInv
<1>9. 2 \in Live(frames, {}, FR) /\ Live(frames, {}, FR) \subseteq {1, 2}
  <2>1. FR \in AncestorsIn(frames, FR)
    BY <1>8, Ancestry
  <2>2. Live(frames, {}, FR) \subseteq DOMAIN frames
    BY <1>8, LiveAreFrames
  <2>3. QED
    BY <1>1, <1>3, <2>1, <2>2, LiveFrames
<1>10. PICK A : A = Live(frames, {}, FR) /\ 2 \in A /\ A \subseteq {1, 2}
  BY <1>9
<1>11. Owners(frames, A, owned)
  BY <1>1, <1>3, <1>10 DEF Owners
<1>12. NoOrphans(frames, A, owned)
  BY <1>1, <1>3, <1>10 DEF NoOrphans, OwnedBy
<1>13. QED
  BY <1>2, <1>5, <1>6, <1>10, <1>11, <1>12 DEF UseInv, LeakInv

(***************************************************************************)
(* Every clause is freed at the right time                                 *)
(***************************************************************************)
\* The frames that can still run, as the properties name them
LEMMA AliveIsLive == Alive = Live(frames, ElementsOf(cps), FR)
<1>1. \A a : Ancestors(a) = AncestorsIn(frames, a)
  BY DEF Ancestors, AncestorsIn
<1>2. Choices = ElementsOf(cps)
  BY DEF Choices, ElementsOf
<1>3. QED
  BY <1>1, <1>2 DEF Alive, AliveWith, Continuation, Live

\* In a program without cleanup handlers no clause that was compiled for a call is freed
\* while a frame that can still run executes it, and none is freed twice, whatever the
\* program calls, cuts and backtracks over (kernel.c: i_exit, i_depart, cut_to and
\* backtrack free the clauses of local frames).
THEOREM ClausesStayInUse == Spec => []NoUseAfterFree
<1>1. Init => UseInv
  BY InitUse
<1>2. WellFormed /\ UseInv /\ [Next]_vars => UseInv'
  BY UseStep
<1>3. WellFormed /\ UseInv => NoUseAfterFree
  <2>1. SUFFICES ASSUME UseInv PROVE NoUseAfterFree
    OBVIOUS
  <2>2. "cleanup" \notin uses => Owners(frames, Alive, owned)
    BY <2>1, AliveIsLive DEF UseInv
  <2>3. QED
    BY <2>2 DEF NoUseAfterFree, ClausesInUse, Owners
<1>4. QED
  BY AlwaysWellFormed, <1>1, <1>2, <1>3, PTL DEF Spec

\* Until the query fails, every clause that was compiled for a call belongs to a frame that
\* can still run, so that it will be freed: also when cleanup handlers interrupt cuts.
\* As in NothingOverlaps, the goal of the query must not need cut slots.
THEOREM ClausesAreNotLost ==
  ASSUME QueryReserved = 0
  PROVE  Spec => []NoLeak
<1>1. Init => MemoryInv /\ UseInv /\ LeakInv
  BY InitMemoryInv, InitUse
<1>2. WellFormed /\ MemoryInv /\ UseInv /\ LeakInv /\ [Next]_vars => MemoryInv' /\ UseInv' /\ LeakInv'
  BY SizeStep, UseStep, LeakStep DEF WellFormed, TrailInv
<1>3. LeakInv => NoLeak
  <2>1. SUFFICES ASSUME LeakInv PROVE NoLeak
    OBVIOUS
  <2>2. owned \subseteq OwnedBy(frames, Alive)
    BY <2>1, AliveIsLive DEF LeakInv, NoOrphans
  <2>3. QED
    BY <2>2, ClausesAreOwned DEF NoLeak
<1>4. QED
  BY AlwaysWellFormed, <1>1, <1>2, <1>3, PTL DEF Spec
==============================================================================
