--------------------------- MODULE ContainersProofs ---------------------------
(***************************************************************************)
(* The containers, however large they are: the doubly linked lists are     *)
(* sequences, and the hash maps are maps.                                  *)
(*                                                                         *)
(* The first part names the cells of a list in order, which no variable    *)
(* holds: the inductive invariant is that there is such a path.  A walk in *)
(* either direction is shown to follow it.                                 *)
(*                                                                         *)
(* The second part is about tables: every element is in a slot where its   *)
(* key is looked for.  What a put promises is shown for one that may grow  *)
(* the table from the same promise for the put into the larger table, and  *)
(* so by induction on how often a table may double.                        *)
(***************************************************************************)
EXTENDS Lists, HashMap, SequenceTheorems, FiniteSetTheorems, Recursion, TLAPS

(***************************************************************************)
(* LISTS                                                                   *)
(***************************************************************************)
(***************************************************************************)
(* Walks                                                                   *)
(***************************************************************************)
\* p is the way that link goes, and its end
Way(p, n, link) ==
  /\ p \in [1..n -> Address]
  /\ \A i \in 1..n : p[i] \in DOMAIN link /\ link[p[i]] = IF i = n THEN NoCell ELSE p[i + 1]

\* (The recursive function of From, as an operator the provers do not look into)
Walks(f, link) ==
  f = [n \in 0..MaxCells |->
        [b \in Address \cup {NoCell} |->
           IF n = 0 \/ b \notin DOMAIN link THEN <<>> ELSE <<b>> \o f[n - 1][link[b]]]]

\* What a walk makes of the walks one step shorter
Ends == [b \in Address \cup {NoCell} |-> <<>>]
Further(link, x) ==
  [b \in Address \cup {NoCell} |-> IF b \notin DOMAIN link THEN <<>> ELSE <<b>> \o x[link[b]]]

\* Addresses are not NULL.
LEMMA AddressFacts ==
  /\ MaxCells \in Nat /\ NoCell \notin Address /\ NoCell \in Int /\ NoCell = 0
  /\ \A a \in Address : a \in Nat \ {0} /\ a <= MaxCells
BY CellsAssumption DEF Address, NoCell

\* Walks of every length exist, and From takes the longest.
LEMMA WalkExists ==
  ASSUME NEW link, DOMAIN link \subseteq Address,
         \A b \in DOMAIN link : link[b] \in Address \cup {NoCell}, NEW a
  PROVE  \E f : Walks(f, link) /\ From(a, link) = f[MaxCells][a]
<1>1. PICK S : S = [Address \cup {NoCell} -> Seq(Address)]
  OBVIOUS
<1>2. Ends \in S
  <2>1. <<>> \in Seq(Address)
    BY EmptySeq
  <2>2. QED
    BY <1>1, <2>1 DEF Ends
<1>3. ASSUME NEW x \in S
      PROVE  Further(link, x) \in S
  <2>1. ASSUME NEW b \in DOMAIN link
        PROVE  <<b>> \o x[link[b]] \in Seq(Address)
    <3>1. x[link[b]] \in Seq(Address)
      BY <1>1
    <3>2. <<b>> \in Seq(Address)
      OBVIOUS
    <3>3. QED
      BY <3>1, <3>2, ConcatProperties
  <2>2. <<>> \in Seq(Address)
    BY EmptySeq
  <2>3. QED
    BY <1>1, <2>1, <2>2 DEF Further
<1>4. PICK step : step = [k \in 1..MaxCells |-> [x \in S |-> Further(link, x)]]
  OBVIOUS
<1>5. AreSteps(step, MaxCells, S)
  BY <1>3, <1>4 DEF AreSteps
<1>6. PICK f : Unfolds(f, MaxCells, S, Ends, step)
  BY <1>2, <1>5, RecursiveFunction, CellsAssumption
<1>7. f \in [0..MaxCells -> S] /\ f[0] = Ends /\ \A k \in 1..MaxCells : f[k] = step[k][f[k - 1]]
  BY <1>6 DEF Unfolds
<1>8. ASSUME NEW n \in 0..MaxCells
      PROVE  f[n] = [b \in Address \cup {NoCell} |->
                      IF n = 0 \/ b \notin DOMAIN link THEN <<>> ELSE <<b>> \o f[n - 1][link[b]]]
  <2>1. CASE n = 0
    BY <1>7, <2>1 DEF Ends
  <2>2. CASE n # 0
    <3>1. n \in 1..MaxCells /\ f[n - 1] \in S
      BY <1>7, <2>2, CellsAssumption
    <3>2. f[n] = Further(link, f[n - 1])
      BY <1>4, <1>7, <3>1
    <3>3. QED
      BY <2>2, <3>2 DEF Further
  <2>3. QED
    BY <2>1, <2>2
<1>9. Walks(f, link)
  <2>1. f = [n \in 0..MaxCells |-> f[n]]
    BY <1>7
  <2>2. QED
    BY <1>8, <2>1 DEF Walks
<1>10. PICK g : g = CHOOSE h : Walks(h, link)
  OBVIOUS
<1>11. Walks(g, link)
  BY <1>9, <1>10
<1>12. From(a, link) = g[MaxCells][a]
  BY <1>10 DEF From, Walks
<1>13. QED
  BY <1>11, <1>12

\* The last m cells of p, and the first of them
Suffix(p, m) == SubSeq(p, Len(p) - m + 1, Len(p))
Start(p, m)  == IF m = 0 THEN NoCell ELSE p[Len(p) - m + 1]

\* The cells that a chain goes through after one of them
LEMMA SuffixFacts ==
  ASSUME NEW p \in Seq(Address), NEW m \in 0..Len(p)
  PROVE  /\ Suffix(p, m) \in Seq(Address) /\ Len(Suffix(p, m)) = m
         /\ \A i \in 1..m : Suffix(p, m)[i] = p[Len(p) - m + i]
<1>1. PICK n \in Nat, k \in Int : n = Len(p) /\ k = n - m + 1 /\ \A i \in k..n : p[i] \in Address
  BY ElementOfSeq, LenProperties
<1>2. /\ SubSeq(p, k, n) \in Seq(Address)
      /\ Len(SubSeq(p, k, n)) = IF k <= n THEN n - k + 1 ELSE 0
      /\ \A i \in 1..n - k + 1 : SubSeq(p, k, n)[i] = p[k + i - 1]
  BY <1>1, SubSeqProperties
<1>3. Suffix(p, m) = SubSeq(p, k, n)
  BY <1>1 DEF Suffix
<1>4. \A i \in 1..m : p[k + i - 1] = p[n - m + i]
  BY <1>1
<1>5. QED
  BY <1>1, <1>2, <1>3, <1>4

\* One more cell, and all of them
LEMMA SuffixGrows ==
  ASSUME NEW p \in Seq(Address), NEW m \in 0..Len(p) - 1
  PROVE  Suffix(p, m + 1) = <<p[Len(p) - m]>> \o Suffix(p, m)
<1>1. PICK n \in Nat : n = Len(p) /\ m \in 0..n /\ m + 1 \in 0..n
  BY LenProperties
<1>2. PICK s \in Seq(Address) : s = Suffix(p, m) /\ Len(s) = m /\ \A i \in 1..m : s[i] = p[n - m + i]
  BY <1>1, SuffixFacts
<1>3. PICK t \in Seq(Address) :
        t = Suffix(p, m + 1) /\ Len(t) = m + 1 /\ \A i \in 1..m + 1 : t[i] = p[n - (m + 1) + i]
  BY <1>1, SuffixFacts
<1>4. PICK u \in Seq(Address) : u = <<p[n - m]>> /\ Len(u) = 1 /\ u[1] = p[n - m]
  <2>1. PICK a \in Address : a = p[n - m]
    BY <1>1, ElementOfSeq
  <2>2. <<a>> \in Seq(Address) /\ Len(<<a>>) = 1 /\ <<a>>[1] = a
    OBVIOUS
  <2>3. QED
    BY <2>1, <2>2
<1>5. /\ u \o s \in Seq(Address) /\ Len(u \o s) = 1 + m
      /\ \A i \in 1..1 + m : (u \o s)[i] = IF i <= 1 THEN u[i] ELSE s[i - 1]
  BY <1>2, <1>4, ConcatProperties
<1>6. ASSUME NEW i \in 1..m + 1
      PROVE  t[i] = (u \o s)[i]
  <2>1. CASE i = 1
    BY <1>1, <1>3, <1>4, <1>5, <2>1
  <2>2. CASE i # 1
    <3>1. (u \o s)[i] = s[i - 1] /\ i - 1 \in 1..m
      BY <1>5, <2>2
    <3>2. n - m + (i - 1) = n - (m + 1) + i
      BY <1>1
    <3>3. QED
      BY <1>2, <1>3, <3>1, <3>2
  <2>3. QED
    BY <2>1, <2>2
<1>7. t = u \o s
  <2>1. Len(t) = Len(u \o s) /\ Len(t) = m + 1
    BY <1>3, <1>5
  <2>2. QED
    BY <1>3, <1>5, <1>6, <2>1, SeqEqual
<1>8. QED
  BY <1>1, <1>2, <1>3, <1>4, <1>7

\* A walk from a cell of a chain follows it to its end, if it may go on long enough.
LEMMA WalkFollows ==
  ASSUME NEW link, DOMAIN link \subseteq Address, NEW f, Walks(f, link),
         NEW p \in Seq(Address), Way(p, Len(p), link), Len(p) <= MaxCells
  PROVE  f[MaxCells][Start(p, Len(p))] = Suffix(p, Len(p))
<1>1. PICK n \in Nat : n = Len(p) /\ n <= MaxCells
  BY LenProperties
<1>2. \A w \in 0..MaxCells : \A b \in Address \cup {NoCell} :
        f[w][b] = IF w = 0 \/ b \notin DOMAIN link THEN <<>> ELSE <<b>> \o f[w - 1][link[b]]
  <2> TAKE w \in 0..MaxCells
  <2>1. f[w] = [b \in Address \cup {NoCell} |->
                 IF w = 0 \/ b \notin DOMAIN link THEN <<>> ELSE <<b>> \o f[w - 1][link[b]]]
    BY DEF Walks
  <2>2. QED
    BY <2>1
<1> DEFINE P == {m \in 0..n : \A w \in m..MaxCells : f[w][Start(p, m)] = Suffix(p, m)}
<1>3. 0 \in P
  <2>1. PICK s \in Seq(Address) : s = Suffix(p, 0) /\ Len(s) = 0
    BY <1>1, SuffixFacts
  <2>2. s = <<>>
    BY <2>1, EmptySeq
  <2>3. \A w \in 0..MaxCells : f[w][NoCell] = <<>>
    BY <1>2, AddressFacts
  <2>4. QED
    BY <1>1, <2>1, <2>2, <2>3 DEF Start
<1>4. ASSUME NEW m \in 0..n - 1, m \in P
      PROVE  m + 1 \in P
  <2>1. m + 1 \in 0..n
    BY <1>1
  <2>2. ASSUME NEW w \in m + 1..MaxCells
        PROVE  f[w][Start(p, m + 1)] = Suffix(p, m + 1)
    <3>1. PICK b : b = p[n - m]
      OBVIOUS
    <3>2. b \in Address /\ b \in DOMAIN link /\ link[b] = Start(p, m)
      <4>0. n - m \in 1..n /\ (n - m = n <=> m = 0) /\ n - m + 1 = (n - m) + 1
        BY <1>1
      <4>1. PICK i \in 1..n : i = n - m /\ (i = n <=> m = 0) /\ n - m + 1 = i + 1
        BY <4>0
      <4>2. p[i] \in DOMAIN link /\ link[p[i]] = IF i = n THEN NoCell ELSE p[i + 1]
        BY <1>1 DEF Way
      <4>3. QED
        BY <1>1, <3>1, <4>1, <4>2 DEF Start
    <3>3. Start(p, m + 1) = b
      BY <1>1, <3>1 DEF Start
    <3>4. w \in 0..MaxCells /\ w # 0 /\ w - 1 \in m..MaxCells
      BY AddressFacts
    <3>5. f[w][b] = <<b>> \o f[w - 1][link[b]]
      BY <1>2, <3>2, <3>4
    <3>6. f[w - 1][Start(p, m)] = Suffix(p, m)
      BY <1>4, <3>4
    <3>7. Suffix(p, m + 1) = <<b>> \o Suffix(p, m)
      BY <1>1, <3>1, SuffixGrows
    <3>8. QED
      BY <3>2, <3>3, <3>5, <3>6, <3>7
  <2>3. QED
    BY <2>1, <2>2
<1> HIDE DEF P
<1>5. n \in P
  BY <1>3, <1>4, UpTo, <1>1
<1>6. QED
  BY <1>1, <1>5, AddressFacts DEF P

\* From gives the chain that starts there.
LEMMA FromFollows ==
  ASSUME NEW link, DOMAIN link \subseteq Address,
         \A b \in DOMAIN link : link[b] \in Address \cup {NoCell},
         NEW p \in Seq(Address), Way(p, Len(p), link), Len(p) <= MaxCells,
         NEW a, a = IF p = <<>> THEN NoCell ELSE p[1]
  PROVE  From(a, link) = p
<1>1. PICK n \in Nat : n = Len(p)
  BY LenProperties
<1>2. PICK f : Walks(f, link) /\ From(a, link) = f[MaxCells][a]
  BY WalkExists
<1>3. f[MaxCells][Start(p, n)] = Suffix(p, n)
  BY <1>1, <1>2, WalkFollows
<1>4. Start(p, n) = a
  BY <1>1, EmptySeq DEF Start
<1>5. PICK s \in Seq(Address) : s = Suffix(p, n) /\ Len(s) = n /\ \A i \in 1..n : s[i] = p[n - n + i]
  <2>1. n \in 0..Len(p)
    BY <1>1
  <2>2. QED
    BY <1>1, <2>1, SuffixFacts
<1>6. s = p
  <2>1. \A i \in 1..n : s[i] = p[i]
    BY <1>5
  <2>2. QED
    BY <1>1, <1>5, <2>1, SeqEqual
<1>7. QED
  BY <1>2, <1>3, <1>4, <1>5, <1>6

(***************************************************************************)
(* The inductive invariant: the cells, in order, are a path, along which   *)
(* the links are mirror images.  Only the first cell of a list that =../2  *)
(* has taken the functor from may point back to something else.            *)
(***************************************************************************)
At(p, i) == IF i \in 1..Len(p) THEN p[i] ELSE NoCell

CellsOf(p) == {p[i] : i \in 1..Len(p)}

Linked(cs, p, taken) ==
  /\ p \in Seq(Address) /\ \A i, j \in 1..Len(p) : p[i] = p[j] => i = j
  /\ cs \in [CellsOf(p) -> Cell]
  /\ \A i \in 1..Len(p) : /\ cs[p[i]].next = At(p, i + 1)
                          /\ i > 1 \/ ~taken => cs[p[i]].prev = At(p, i - 1)

\* (A path that no cell was shifted from)
Mirrored(cs, p) == Linked(cs, p, FALSE)

IsPath(p) ==
  /\ Linked(cells, p, user = "taken")
  /\ first = At(p, 1) /\ last = At(p, Len(p)) /\ length = Len(p)

ListsInv == user \in {"database", "stack", "univ", "taken"} /\ IsPath(Forward)

(***************************************************************************)
(* A path is what a walk finds                                             *)
(***************************************************************************)
\* What is at a place of a path, and where it is
LEMMA AtFacts ==
  ASSUME NEW p \in Seq(Address), \A i, j \in 1..Len(p) : p[i] = p[j] => i = j
  PROVE  /\ Len(p) \in Nat /\ CellsOf(p) \subseteq Address
         /\ \A i \in Int : At(p, i) \in Address \cup {NoCell}
         /\ \A i \in Int : i \in 1..Len(p) => At(p, i) = p[i] /\ p[i] \in Address /\ p[i] \in CellsOf(p)
         /\ \A i \in Int : i \notin 1..Len(p) <=> At(p, i) = NoCell
         /\ \A i \in Int, j \in 1..Len(p) : p[j] = At(p, i) <=> j = i
         /\ \A a \in CellsOf(p) : \E i \in 1..Len(p) : a = p[i]
<1>1. Len(p) \in Nat /\ \A i \in 1..Len(p) : p[i] \in Address /\ p[i] # NoCell
  BY ElementOfSeq, LenProperties, AddressFacts
<1>2. QED
  BY <1>1, AddressFacts DEF At, CellsOf

\* There are no more cells than addresses.
LEMMA PathIsShort ==
  ASSUME NEW p \in Seq(Address), \A i, j \in 1..Len(p) : p[i] = p[j] => i = j
  PROVE  Len(p) <= MaxCells
<1>1. PICK n \in Nat : n = Len(p) /\ p \in [1..n -> 1..MaxCells]
  BY LenProperties DEF Address
<1>2. p \in Injection(1..n, 1..MaxCells)
  BY <1>1 DEF Injection, IsInjective
<1>3. IsFiniteSet(1..MaxCells) /\ Cardinality(1..MaxCells) = MaxCells /\ Cardinality(1..n) = n
  <2>1. 1 \in Int /\ n \in Int /\ MaxCells \in Int
    BY CellsAssumption
  <2>2. IsFiniteSet(1..MaxCells) /\ Cardinality(1..MaxCells) = IF 1 > MaxCells THEN 0 ELSE MaxCells - 1 + 1
    BY <2>1, FS_Interval
  <2>3. Cardinality(1..n) = IF 1 > n THEN 0 ELSE n - 1 + 1
    BY <2>1, FS_Interval
  <2>4. QED
    BY <2>2, <2>3, CellsAssumption
<1>4. Cardinality(1..n) <= Cardinality(1..MaxCells)
  BY <1>2, <1>3, FS_Injection
<1>5. QED
  BY <1>1, <1>3, <1>4

\* A walk forward finds the path.
LEMMA ForwardFollows ==
  ASSUME NEW cs, NEW p, NEW t, Linked(cs, p, t)
  PROVE  From(At(p, 1), [a \in DOMAIN cs |-> cs[a].next]) = p
<1>1. p \in Seq(Address) /\ (\A i, j \in 1..Len(p) : p[i] = p[j] => i = j) /\ cs \in [CellsOf(p) -> Cell]
  BY DEF Mirrored, Linked
<1>2. PICK link : link = [a \in DOMAIN cs |-> cs[a].next]
  OBVIOUS
<1>3. DOMAIN link = CellsOf(p) /\ CellsOf(p) \subseteq Address
  BY <1>1, <1>2, AtFacts
<1>4. \A b \in DOMAIN link : link[b] \in Address \cup {NoCell}
  BY <1>1, <1>2 DEF Cell
<1>5. Way(p, Len(p), link)
  <2>1. p \in [1..Len(p) -> Address]
    BY <1>1, LenProperties
  <2>2. ASSUME NEW i \in 1..Len(p)
        PROVE  p[i] \in DOMAIN link /\ link[p[i]] = IF i = Len(p) THEN NoCell ELSE p[i + 1]
    <3>1. p[i] \in DOMAIN link /\ i \in Int /\ Len(p) \in Nat
      BY <1>1, <1>3, AtFacts
    <3>2. link[p[i]] = At(p, i + 1)
      BY <1>1, <1>2, <3>1 DEF Mirrored, Linked
    <3>3. QED
      BY <3>1, <3>2 DEF At
  <2>3. QED
    BY <2>1, <2>2 DEF Way
<1>6. Len(p) <= MaxCells
  BY <1>1, PathIsShort
<1>7. At(p, 1) = IF p = <<>> THEN NoCell ELSE p[1]
  BY <1>1, EmptySeq, AtFacts DEF At
<1>8. QED
  BY <1>1, <1>2, <1>3, <1>4, <1>5, <1>6, <1>7, FromFollows

\* A walk backward finds it from the other end, unless the first cell points elsewhere.
Reversed(p) == [i \in 1..Len(p) |-> p[Len(p) + 1 - i]]

\* Following prev from the last cell gives the path from its end.
LEMMA BackwardFollows ==
  ASSUME NEW cs, NEW p, Mirrored(cs, p)
  PROVE  From(At(p, Len(p)), [a \in DOMAIN cs |-> cs[a].prev]) = Reversed(p)
<1>1. p \in Seq(Address) /\ (\A i, j \in 1..Len(p) : p[i] = p[j] => i = j) /\ cs \in [CellsOf(p) -> Cell]
  BY DEF Mirrored, Linked
<1>2. PICK link : link = [a \in DOMAIN cs |-> cs[a].prev]
  OBVIOUS
<1>3. DOMAIN link = CellsOf(p) /\ CellsOf(p) \subseteq Address
  BY <1>1, <1>2, AtFacts
<1>4. \A b \in DOMAIN link : link[b] \in Address \cup {NoCell}
  BY <1>1, <1>2 DEF Cell
<1>5. PICK n \in Nat : n = Len(p)
  BY <1>1, AtFacts
<1>6. PICK r \in Seq(Address) : r = Reversed(p) /\ Len(r) = n /\ \A i \in 1..n : r[i] = p[n + 1 - i]
  <2>1. \A i \in 1..n : n + 1 - i \in 1..n /\ p[n + 1 - i] \in Address
    BY <1>1, <1>5, AtFacts
  <2>2. [i \in 1..n |-> p[n + 1 - i]] \in [1..n -> Address]
    BY <2>1
  <2>3. \A f \in [1..n -> Address] : f \in Seq(Address) /\ Len(f) = n
    BY LenProperties
  <2>4. QED
    BY <1>5, <2>2, <2>3 DEF Reversed
<1>7. Way(r, Len(r), link)
  <2>1. r \in [1..n -> Address]
    BY <1>6, LenProperties
  <2>2. ASSUME NEW i \in 1..n
        PROVE  r[i] \in DOMAIN link /\ link[r[i]] = IF i = n THEN NoCell ELSE r[i + 1]
    <3>1. PICK j \in 1..n : j = n + 1 - i /\ r[i] = p[j]
      BY <1>6
    <3>2. r[i] \in DOMAIN link
      BY <1>1, <1>3, <1>5, <3>1, AtFacts
    <3>3. link[r[i]] = At(p, j - 1)
      BY <1>1, <1>2, <1>5, <3>1, <3>2 DEF Mirrored, Linked
    <3>4. i # n => r[i + 1] = p[j - 1]
      BY <1>6, <3>1
    <3>5. QED
      BY <1>5, <3>1, <3>2, <3>3, <3>4 DEF At
  <2>3. QED
    BY <1>6, <2>1, <2>2 DEF Way
<1>8. Len(r) <= MaxCells
  BY <1>1, <1>5, <1>6, PathIsShort
<1>9. At(p, Len(p)) = IF r = <<>> THEN NoCell ELSE r[1]
  BY <1>5, <1>6, EmptySeq DEF At
<1>10. QED
  BY <1>2, <1>3, <1>4, <1>6, <1>7, <1>8, <1>9, FromFollows

(***************************************************************************)
(* Writing links                                                           *)
(***************************************************************************)
IsMap(cs, D) == D \in SUBSET Address /\ cs \in [D -> Cell]

NextWritten(c, cs, D, a, n) ==
  /\ IsMap(c, D)
  /\ \A b \in D : /\ c[b].data = cs[b].data /\ c[b].prev = cs[b].prev
                  /\ c[b].next = IF b = a THEN n ELSE cs[b].next
PrevWritten(c, cs, D, a, n) ==
  /\ IsMap(c, D)
  /\ \A b \in D : /\ c[b].data = cs[b].data /\ c[b].next = cs[b].next
                  /\ c[b].prev = IF b = a THEN n ELSE cs[b].prev

\* Setting next changes that field of that cell, if there is a cell.
LEMMA SetNextFacts ==
  ASSUME NEW cs, NEW D, IsMap(cs, D), NEW a, a \in D \cup {NoCell}, NEW n, n \in Address \cup {NoCell}
  PROVE  NextWritten(SetNext(cs, a, n), cs, D, a, n)
BY AddressFacts DEF SetNext, Cell, IsMap, NextWritten

\* So does setting prev.
LEMMA SetPrevFacts ==
  ASSUME NEW cs, NEW D, IsMap(cs, D), NEW a, a \in D \cup {NoCell}, NEW n, n \in Address \cup {NoCell}
  PROVE  PrevWritten(SetPrev(cs, a, n), cs, D, a, n)
BY AddressFacts DEF SetPrev, Cell, IsMap, PrevWritten

\* There is an address to give out.
LEMMA NewCellIsFree ==
  ASSUME Room, DOMAIN cells \subseteq Address
  PROVE  NewCell \in Address /\ NewCell \notin DOMAIN cells
<1>1. PICK S : S = Address \ DOMAIN cells
  OBVIOUS
<1>2. S \in SUBSET Nat /\ S # {}
  BY <1>1, AddressFacts DEF Room
<1>3. PICK m \in S : \A n \in S : m <= n
  BY <1>2, LeastNatural
<1>4. 1..m - 1 \subseteq DOMAIN cells
  <2>1. m \in Address
    BY <1>1
  <2>2. \A b \in 1..m - 1 : b \in Address /\ ~(m <= b)
    BY <2>1, AddressFacts DEF Address
  <2>3. QED
    BY <1>1, <1>3, <2>2
<1>5. m \in Address /\ m \notin DOMAIN cells
  BY <1>1
<1>6. \E a \in Address : a \notin DOMAIN cells /\ 1..a - 1 \subseteq DOMAIN cells
  BY <1>4, <1>5
<1>7. QED
  BY <1>6 DEF NewCell

(***************************************************************************)
(* Adding a cell                                                           *)
(***************************************************************************)
\* What is linked, by places: a path may be checked place by place.
LEMMA LinkedFacts ==
  ASSUME NEW cs, NEW p, NEW t, Linked(cs, p, t)
  PROVE  /\ p \in Seq(Address) /\ Len(p) \in Nat /\ \A i, j \in 1..Len(p) : p[i] = p[j] => i = j
         /\ cs \in [CellsOf(p) -> Cell] /\ CellsOf(p) \in SUBSET Address
         /\ \A i \in 1..Len(p) : /\ cs[p[i]].next = At(p, i + 1)
                                 /\ i > 1 \/ ~t => cs[p[i]].prev = At(p, i - 1)
<1>1. /\ p \in Seq(Address) /\ \A i, j \in 1..Len(p) : p[i] = p[j] => i = j
      /\ cs \in [CellsOf(p) -> Cell]
      /\ \A i \in 1..Len(p) : /\ cs[p[i]].next = At(p, i + 1)
                              /\ i > 1 \/ ~t => cs[p[i]].prev = At(p, i - 1)
  BY DEF Mirrored, Linked
<1>2. Len(p) \in Nat /\ CellsOf(p) \in SUBSET Address
  BY <1>1, AtFacts
<1>3. QED
  BY <1>1, <1>2

\* The cells of p hold in c what they hold in cs.
SameData(c, cs, p) == \A i \in 1..Len(p) : c[p[i]].data = cs[p[i]].data

\* list_append links the new cell behind the last one.
Appended(cs, p, a, w) ==
  With(SetNext(cs, At(p, Len(p)), a), a, [prev |-> At(p, Len(p)), next |-> NoCell, data |-> w])

\* Appending a cell makes the path one longer at its end.
LEMMA AppendLinks ==
  ASSUME NEW cs, NEW p, Mirrored(cs, p), NEW a \in Address, a \notin CellsOf(p), NEW w \in Data,
         NEW c, c = Appended(cs, p, a, w)
  PROVE  Mirrored(c, Append(p, a)) /\ c[a].data = w /\ SameData(c, cs, p)
<1>1. /\ p \in Seq(Address) /\ \A i, j \in 1..Len(p) : p[i] = p[j] => i = j
      /\ cs \in [CellsOf(p) -> Cell] /\ CellsOf(p) \in SUBSET Address
  <2>1. /\ p \in Seq(Address) /\ \A i, j \in 1..Len(p) : p[i] = p[j] => i = j
        /\ cs \in [CellsOf(p) -> Cell]
    BY DEF Mirrored, Linked
  <2>2. QED
    BY <2>1, AtFacts
<1>k. \A i \in 1..Len(p) : cs[p[i]].next = At(p, i + 1) /\ cs[p[i]].prev = At(p, i - 1)
  BY DEF Mirrored, Linked
<1>d. PICK D \in SUBSET Address : D = CellsOf(p) /\ cs \in [D -> Cell] /\ a \notin D
  BY <1>1
<1>2. PICK n \in Nat : n = Len(p)
  BY <1>1, AtFacts
<1>3. PICK l \in D \cup {NoCell} : l = At(p, n) /\ l \in Address \cup {NoCell}
  BY <1>1, <1>2, <1>d, AtFacts
<1>4. PICK d : d = SetNext(cs, l, a)
  OBVIOUS
<1>5. /\ d \in [D -> Cell]
      /\ \A b \in D : /\ d[b].data = cs[b].data /\ d[b].prev = cs[b].prev
                               /\ d[b].next = IF b = l THEN a ELSE cs[b].next
  <2>1. IsMap(cs, D) /\ a \in Address \cup {NoCell} /\ l \in D \cup {NoCell}
    BY <1>d DEF IsMap
  <2>2. NextWritten(d, cs, D, l, a)
    BY <2>1, <1>4, SetNextFacts
  <2>3. QED
    BY <2>2 DEF NextWritten, IsMap
<1>6. PICK cell \in Cell : cell = [prev |-> l, next |-> NoCell, data |-> w]
  BY <1>3 DEF Cell
<1>7. c = With(d, a, cell)
  BY <1>2, <1>3, <1>4, <1>6 DEF Appended
<1>8. c \in [D \cup {a} -> Cell] /\ c[a] = cell /\ \A b \in D : c[b] = d[b]
  <2>1. d \in [D -> Cell] /\ cell \in Cell
    BY <1>5
  <2>2. c \in [D \cup {a} -> Cell] /\ c[a] = cell /\ \A b \in D \ {a} : c[b] = d[b]
    BY <2>1, <1>7 DEF With
  <2>3. QED
    BY <2>2, <1>d
<1>9. PICK q : q = Append(p, a)
  OBVIOUS
<1>10. /\ q \in Seq(Address) /\ Len(q) = n + 1
       /\ (\A i \in 1..n : q[i] = p[i]) /\ q[n + 1] = a
  BY <1>1, <1>2, <1>9, AppendProperties
<1>11. \A i \in 1..n : p[i] \in D /\ p[i] # a
  BY <1>2, <1>d DEF CellsOf
<1>12. \A i, j \in 1..Len(q) : q[i] = q[j] => i = j
  BY <1>1, <1>2, <1>10, <1>11
<1>13. CellsOf(q) = CellsOf(p) \cup {a}
  BY <1>2, <1>10 DEF CellsOf
<1>14. \A i \in Int : At(q, i) = IF i = n + 1 THEN a ELSE At(p, i)
  BY <1>2, <1>10 DEF At
<1>15. ASSUME NEW i \in 1..Len(q)
       PROVE  c[q[i]].next = At(q, i + 1) /\ c[q[i]].prev = At(q, i - 1)
  <2>1. CASE i = n + 1
    <3>1. c[q[i]] = cell /\ At(q, i - 1) = l /\ At(q, i + 1) = NoCell
      BY <1>2, <1>3, <1>8, <1>10, <1>14, <2>1 DEF At
    <3>2. QED
      BY <1>6, <3>1
  <2>2. CASE i # n + 1
    <3>1. i \in 1..n /\ q[i] = p[i] /\ p[i] \in D /\ c[q[i]] = d[p[i]]
      BY <1>8, <1>10, <1>11, <2>2
    <3>2. cs[p[i]].next = At(p, i + 1) /\ cs[p[i]].prev = At(p, i - 1)
      BY <1>k, <1>2, <3>1
    <3>3. p[i] = l <=> i = n
      BY <1>1, <1>2, <1>3, <3>1, AtFacts
    <3>4. QED
      BY <1>5, <1>14, <3>1, <3>2, <3>3
  <2>3. QED
    BY <2>1, <2>2
<1>16. Mirrored(c, q)
  BY <1>8, <1>10, <1>12, <1>13, <1>15, <1>d DEF Mirrored, Linked
<1>17. c[a].data = w /\ SameData(c, cs, p)
  BY <1>2, <1>5, <1>6, <1>8, <1>11 DEF SameData
<1>18. QED
  BY <1>9, <1>16, <1>17

\* list_unshift links it before the first.
Unshifted(cs, p, a, w) ==
  With(SetPrev(cs, At(p, 1), a), a, [prev |-> NoCell, next |-> At(p, 1), data |-> w])

\* Unshifting one makes it one longer at its beginning.
LEMMA UnshiftLinks ==
  ASSUME NEW cs, NEW p, Mirrored(cs, p), NEW a \in Address, a \notin CellsOf(p), NEW w \in Data,
         NEW c, c = Unshifted(cs, p, a, w)
  PROVE  Mirrored(c, <<a>> \o p) /\ c[a].data = w /\ SameData(c, cs, p)
<1>1. /\ p \in Seq(Address) /\ \A i, j \in 1..Len(p) : p[i] = p[j] => i = j
      /\ cs \in [CellsOf(p) -> Cell] /\ CellsOf(p) \in SUBSET Address
  <2>1. /\ p \in Seq(Address) /\ \A i, j \in 1..Len(p) : p[i] = p[j] => i = j
        /\ cs \in [CellsOf(p) -> Cell]
    BY DEF Mirrored, Linked
  <2>2. QED
    BY <2>1, AtFacts
<1>k. \A i \in 1..Len(p) : cs[p[i]].next = At(p, i + 1) /\ cs[p[i]].prev = At(p, i - 1)
  BY DEF Mirrored, Linked
<1>d. PICK D \in SUBSET Address : D = CellsOf(p) /\ cs \in [D -> Cell] /\ a \notin D
  BY <1>1
<1>2. PICK n \in Nat : n = Len(p)
  BY <1>1, AtFacts
<1>3. PICK l \in D \cup {NoCell} : l = At(p, 1) /\ l \in Address \cup {NoCell}
  BY <1>1, <1>2, <1>d, AtFacts
<1>4. PICK d : d = SetPrev(cs, l, a)
  OBVIOUS
<1>5. /\ d \in [D -> Cell]
      /\ \A b \in D : /\ d[b].data = cs[b].data /\ d[b].next = cs[b].next
                               /\ d[b].prev = IF b = l THEN a ELSE cs[b].prev
  <2>1. IsMap(cs, D) /\ a \in Address \cup {NoCell} /\ l \in D \cup {NoCell}
    BY <1>d DEF IsMap
  <2>2. PrevWritten(d, cs, D, l, a)
    BY <2>1, <1>4, SetPrevFacts
  <2>3. QED
    BY <2>2 DEF PrevWritten, IsMap
<1>6. PICK cell \in Cell : cell = [prev |-> NoCell, next |-> l, data |-> w]
  BY <1>3 DEF Cell
<1>7. c = With(d, a, cell)
  BY <1>3, <1>4, <1>6 DEF Unshifted
<1>8. c \in [D \cup {a} -> Cell] /\ c[a] = cell /\ \A b \in D : c[b] = d[b]
  <2>1. d \in [D -> Cell] /\ cell \in Cell
    BY <1>5
  <2>2. c \in [D \cup {a} -> Cell] /\ c[a] = cell /\ \A b \in D \ {a} : c[b] = d[b]
    BY <2>1, <1>7 DEF With
  <2>3. QED
    BY <2>2, <1>d
<1>9. PICK q : q = <<a>> \o p
  OBVIOUS
<1>10. /\ q \in Seq(Address) /\ Len(q) = n + 1
       /\ (\A i \in 1..n : q[i + 1] = p[i]) /\ q[1] = a
  <2>0. <<a>> \in Seq(Address) /\ Len(<<a>>) = 1 /\ <<a>>[1] = a
    OBVIOUS
  <2>1. PICK u \in Seq(Address) : u = <<a>> /\ Len(u) = 1 /\ u[1] = a
    BY <2>0
  <2>2. /\ u \o p \in Seq(Address) /\ Len(u \o p) = 1 + n
        /\ \A i \in 1..1 + n : (u \o p)[i] = IF i <= 1 THEN u[i] ELSE p[i - 1]
    BY <1>1, <1>2, <2>1, ConcatProperties
  <2>3. \A i \in 1..n : (u \o p)[i + 1] = p[i]
    BY <2>2
  <2>4. QED
    BY <1>9, <2>1, <2>2, <2>3
<1>11. \A i \in 1..n : p[i] \in D /\ p[i] # a
  BY <1>2, <1>d DEF CellsOf
<1>a. \A i \in 1..Len(q) : IF i = 1 THEN q[i] = a ELSE i - 1 \in 1..n /\ q[i] = p[i - 1]
  <2> TAKE i \in 1..Len(q)
  <2>1. i # 1 => i - 1 \in 1..n /\ (i - 1) + 1 = i
    BY <1>10
  <2>2. QED
    BY <1>10, <2>1
<1>12. \A i, j \in 1..Len(q) : q[i] = q[j] => i = j
  <2> SUFFICES ASSUME NEW i \in 1..Len(q), NEW j \in 1..Len(q), q[i] = q[j] PROVE i = j
    OBVIOUS
  <2>1. i # 1 /\ j # 1 => i - 1 = j - 1
    BY <1>1, <1>2, <1>a
  <2>2. i = 1 <=> j = 1
    BY <1>11, <1>a
  <2>3. QED
    BY <1>10, <2>1, <2>2
<1>13. CellsOf(q) = CellsOf(p) \cup {a}
  <2>1. \A i \in 1..n : i + 1 \in 1..Len(q) /\ q[i + 1] = p[i]
    BY <1>10
  <2>2. 1 \in 1..Len(q) /\ q[1] = a
    BY <1>10
  <2>3. QED
    BY <1>2, <1>10, <1>a, <2>1, <2>2 DEF CellsOf
<1>14. \A i \in Int : At(q, i) = IF i = 1 THEN a ELSE At(p, i - 1)
  <2> TAKE i \in Int
  <2>1. i \in 1..Len(q) /\ i # 1 <=> i - 1 \in 1..n
    BY <1>10
  <2>2. 1 \in 1..Len(q)
    BY <1>10
  <2>3. QED
    BY <1>2, <1>10, <1>a, <2>1, <2>2 DEF At
<1>15. ASSUME NEW i \in 1..Len(q)
       PROVE  c[q[i]].next = At(q, i + 1) /\ c[q[i]].prev = At(q, i - 1)
  <2>1. CASE i = 1
    <3>1. c[q[i]] = cell /\ At(q, i + 1) = l /\ At(q, i - 1) = NoCell
      BY <1>2, <1>3, <1>8, <1>10, <1>14, <2>1 DEF At
    <3>2. QED
      BY <1>6, <3>1
  <2>2. CASE i # 1
    <3>1. PICK k \in 1..n : k = i - 1 /\ i = k + 1 /\ q[i] = p[k]
      BY <1>a, <1>10, <2>2
    <3>2. cs[p[k]].next = At(p, k + 1) /\ cs[p[k]].prev = At(p, k - 1)
      BY <1>k, <1>2
    <3>3. p[k] = l <=> k = 1
      BY <1>1, <1>2, <1>3, AtFacts
    <3>4. c[q[i]] = d[p[k]] /\ p[k] \in D
      BY <1>8, <1>11, <3>1
    <3>5. At(q, i + 1) = At(p, k + 1) /\ At(q, i - 1) = IF k = 1 THEN a ELSE At(p, k - 1)
      BY <1>14, <3>1
    <3>6. QED
      BY <1>5, <3>2, <3>3, <3>4, <3>5
  <2>3. QED
    BY <2>1, <2>2
<1>16. Mirrored(c, q)
  BY <1>8, <1>10, <1>12, <1>13, <1>15, <1>d DEF Mirrored, Linked
<1>17. c[a].data = w /\ SameData(c, cs, p)
  BY <1>2, <1>5, <1>6, <1>8, <1>11 DEF SameData
<1>18. QED
  BY <1>9, <1>16, <1>17

(***************************************************************************)
(* Taking a cell out                                                       *)
(***************************************************************************)
\* A sequence without its k-th element, as ListValues has it
Removed(s, k) == SubSeq(s, 1, k - 1) \o SubSeq(s, k + 1, Len(s))

\* A sequence without its k-th element, element by element.
LEMMA RemovedFacts ==
  ASSUME NEW S, NEW s \in Seq(S), NEW k \in 1..Len(s)
  PROVE  /\ Removed(s, k) \in Seq(S) /\ Len(Removed(s, k)) = Len(s) - 1
         /\ \A i \in 1..Len(s) - 1 : Removed(s, k)[i] = IF i < k THEN s[i] ELSE s[i + 1]
<1>1. PICK n \in Nat : n = Len(s) /\ \A i \in 1..n : s[i] \in S
  BY ElementOfSeq, LenProperties
<1>2. PICK h : h = SubSeq(s, 1, k - 1)
  OBVIOUS
<1>3. h \in Seq(S) /\ Len(h) = k - 1 /\ \A i \in 1..k - 1 : h[i] = s[i]
  <2>1. PICK m \in Int : m = k - 1 /\ \A i \in 1..m : s[i] \in S
    BY <1>1
  <2>2. /\ SubSeq(s, 1, m) \in Seq(S) /\ Len(SubSeq(s, 1, m)) = IF 1 <= m THEN m - 1 + 1 ELSE 0
        /\ \A i \in 1..m - 1 + 1 : SubSeq(s, 1, m)[i] = s[1 + i - 1]
    BY <2>1, SubSeqProperties
  <2>3. QED
    BY <1>1, <1>2, <2>1, <2>2
<1>4. PICK t : t = SubSeq(s, k + 1, n)
  OBVIOUS
<1>5. t \in Seq(S) /\ Len(t) = n - k /\ \A i \in 1..n - k : t[i] = s[k + i]
  <2>1. PICK m \in Int : m = k + 1 /\ \A i \in m..n : s[i] \in S
    BY <1>1
  <2>2. /\ SubSeq(s, m, n) \in Seq(S) /\ Len(SubSeq(s, m, n)) = IF m <= n THEN n - m + 1 ELSE 0
        /\ \A i \in 1..n - m + 1 : SubSeq(s, m, n)[i] = s[m + i - 1]
    BY <2>1, SubSeqProperties
  <2>3. \A i \in 1..n - k : m + i - 1 = k + i
    BY <2>1
  <2>4. n - m + 1 = n - k
    BY <1>1, <2>1
  <2>5. QED
    BY <1>1, <1>4, <2>1, <2>2, <2>3, <2>4
<1>6. /\ h \o t \in Seq(S) /\ Len(h \o t) = Len(h) + Len(t)
      /\ \A i \in 1..Len(h) + Len(t) : (h \o t)[i] = IF i <= Len(h) THEN h[i] ELSE t[i - Len(h)]
  BY <1>3, <1>5, ConcatProperties
<1>7. Removed(s, k) = h \o t
  BY <1>1, <1>2, <1>4 DEF Removed
<1>8. Len(h) + Len(t) = n - 1
  BY <1>1, <1>3, <1>5
<1>9. ASSUME NEW i \in 1..n - 1
      PROVE  (h \o t)[i] = IF i < k THEN s[i] ELSE s[i + 1]
  <2>1. CASE i < k
    BY <1>3, <1>6, <1>8, <2>1
  <2>2. CASE ~(i < k)
    <3>1. PICK j \in 1..n - k : j = i - Len(h) /\ k + j = i + 1
      <4>1. i - Len(h) \in 1..n - k /\ k + (i - Len(h)) = i + 1
        BY <1>1, <1>3, <2>2
      <4>2. QED
        BY <4>1
    <3>2. (h \o t)[i] = t[j]
      BY <1>3, <1>6, <1>8, <2>2, <3>1
    <3>3. QED
      BY <1>5, <2>2, <3>1, <3>2
  <2>3. QED
    BY <2>1, <2>2
<1>10. QED
  BY <1>1, <1>6, <1>7, <1>8, <1>9

\* Where the cells of a path are when one is taken out
Simple(p) == p \in Seq(Address) /\ \A i, j \in 1..Len(p) : p[i] = p[j] => i = j

IsWithout(q, p, k) ==
  /\ Simple(q) /\ Len(q) = Len(p) - 1
  /\ CellsOf(q) = CellsOf(p) \ {p[k]}
  /\ \A i \in Int : At(q, i) = IF i < k THEN At(p, i) ELSE At(p, i + 1)
  /\ \A i \in 1..Len(q) : q[i] = IF i < k THEN p[i] ELSE p[i + 1]

\* A path without its k-th cell is a simple path of the others.
LEMMA RemovedPath ==
  ASSUME NEW p, Simple(p), NEW k \in 1..Len(p), NEW q, q = Removed(p, k)
  PROVE  IsWithout(q, p, k)
<1>0. p \in Seq(Address) /\ \A i, j \in 1..Len(p) : p[i] = p[j] => i = j
  BY DEF Simple
<1>1. PICK n \in Nat : n = Len(p)
  BY <1>0, AtFacts
<1>2. /\ q \in Seq(Address) /\ Len(q) = n - 1
      /\ \A i \in 1..n - 1 : q[i] = IF i < k THEN p[i] ELSE p[i + 1]
  BY <1>0, <1>1, RemovedFacts
<1>3. ASSUME NEW i \in 1..n - 1, NEW j \in 1..n - 1, q[i] = q[j]
      PROVE  i = j
  <2>1. PICK x \in 1..n, y \in 1..n : /\ x = IF i < k THEN i ELSE i + 1
                                      /\ y = IF j < k THEN j ELSE j + 1
    BY <1>1
  <2>2. p[x] = p[y]
    BY <1>2, <1>3, <2>1
  <2>3. x = y
    BY <1>0, <1>1, <2>2
  <2>4. QED
    BY <2>1, <2>3
<1>4. CellsOf(q) = CellsOf(p) \ {p[k]}
  <2>1. ASSUME NEW a \in CellsOf(q)
        PROVE  a \in CellsOf(p) \ {p[k]}
    <3>1. PICK i \in 1..n - 1 : a = q[i]
      BY <1>2 DEF CellsOf
    <3>2. PICK x \in 1..n : x = (IF i < k THEN i ELSE i + 1) /\ x # k
      BY <1>1
    <3>3. a = p[x]
      BY <1>2, <3>1, <3>2
    <3>4. a # p[k]
      BY <1>0, <1>1, <3>2, <3>3
    <3>5. QED
      BY <1>1, <3>3, <3>4 DEF CellsOf
  <2>2. ASSUME NEW a \in CellsOf(p) \ {p[k]}
        PROVE  a \in CellsOf(q)
    <3>1. PICK x \in 1..n : a = p[x] /\ x # k
      BY <1>1 DEF CellsOf
    <3>2. PICK i \in 1..n - 1 : i = IF x < k THEN x ELSE x - 1
      BY <1>1, <3>1
    <3>3. q[i] = p[x]
      <4>1. CASE x < k
        BY <1>2, <3>2, <4>1
      <4>2. CASE x > k
        <5>1. ~(i < k) /\ i + 1 = x
          BY <1>1, <3>2, <4>2
        <5>2. QED
          BY <1>2, <5>1
      <4>3. QED
        BY <1>1, <3>1, <4>1, <4>2
    <3>4. QED
      BY <1>2, <3>1, <3>3 DEF CellsOf
  <2>3. QED
    BY <2>1, <2>2
<1>5. \A i \in Int : At(q, i) = IF i < k THEN At(p, i) ELSE At(p, i + 1)
  <2> TAKE i \in Int
  <2>1. CASE i < k
    <3>1. i \in 1..n - 1 <=> i \in 1..n
      BY <1>1, <2>1
    <3>2. QED
      BY <1>1, <1>2, <2>1, <3>1 DEF At
  <2>2. CASE ~(i < k)
    <3>1. i \in 1..n - 1 <=> i + 1 \in 1..n
      BY <1>1, <2>2
    <3>2. QED
      BY <1>1, <1>2, <2>2, <3>1 DEF At
  <2>3. QED
    BY <2>1, <2>2
<1>6. QED
  <2>1. Simple(q)
    BY <1>2, <1>3 DEF Simple
  <2>2. QED
    BY <1>1, <1>2, <1>4, <1>5, <2>1 DEF IsWithout

\* The neighbours of the k-th cell point past it, the others as they did, and no value
\* is changed; when the first cell was shifted, the second points back as it did.
PointsPast(c, cs, p, k, shifted) ==
  /\ c \in [CellsOf(p) \ {p[k]} -> Cell]
  /\ \A j \in 1..Len(p) : j # k =>
       /\ c[p[j]].data = cs[p[j]].data
       /\ c[p[j]].next = IF j = k - 1 THEN At(p, k + 1) ELSE cs[p[j]].next
       /\ j # k + 1 => c[p[j]].prev = cs[p[j]].prev
       /\ j = k + 1 /\ ~shifted => c[p[j]].prev = At(p, k - 1)

\* Cells are a path still when one is taken out and its neighbours point past it.
LEMMA RemovedLinks ==
  ASSUME NEW cs, NEW p, Mirrored(cs, p), NEW k \in 1..Len(p), NEW t \in BOOLEAN, t => k = 1,
         NEW c, PointsPast(c, cs, p, k, t)
  PROVE  Linked(c, Removed(p, k), t)
<1>1. p \in Seq(Address) /\ \A i, j \in 1..Len(p) : p[i] = p[j] => i = j
  BY DEF Mirrored, Linked
<1>s. Simple(p)
  BY <1>1 DEF Simple
<1>k. \A i \in 1..Len(p) : cs[p[i]].next = At(p, i + 1) /\ cs[p[i]].prev = At(p, i - 1)
  BY DEF Mirrored, Linked
<1>p. /\ c \in [CellsOf(p) \ {p[k]} -> Cell]
      /\ \A j \in 1..Len(p) : j # k =>
           /\ c[p[j]].next = IF j = k - 1 THEN At(p, k + 1) ELSE cs[p[j]].next
           /\ j # k + 1 => c[p[j]].prev = cs[p[j]].prev
           /\ j = k + 1 /\ ~t => c[p[j]].prev = At(p, k - 1)
  BY DEF PointsPast
<1>2. PICK n \in Nat : n = Len(p) /\ k \in 1..n
  BY <1>1, AtFacts
<1>3. PICK q : q = Removed(p, k)
  OBVIOUS
<1>4. /\ q \in Seq(Address) /\ Len(q) = n - 1
      /\ \A i, j \in 1..Len(q) : q[i] = q[j] => i = j
      /\ CellsOf(q) = CellsOf(p) \ {p[k]}
      /\ \A i \in Int : At(q, i) = IF i < k THEN At(p, i) ELSE At(p, i + 1)
      /\ \A i \in 1..Len(q) : q[i] = IF i < k THEN p[i] ELSE p[i + 1]
  <2>1. IsWithout(q, p, k)
    BY <1>s, <1>3, RemovedPath
  <2>2. QED
    BY <1>2, <2>1 DEF IsWithout, Simple
<1>5. ASSUME NEW i \in 1..Len(q)
      PROVE  c[q[i]].next = At(q, i + 1) /\ (i > 1 \/ ~t => c[q[i]].prev = At(q, i - 1))
  <2>1. CASE i < k
    <3>0. i \in 1..n - 1
      BY <1>4
    <3>1. i \in 1..n /\ q[i] = p[i] /\ i # k /\ i # k + 1 /\ i - 1 < k
      <4>1. i \in 1..n /\ i # k /\ i # k + 1 /\ i - 1 < k
        BY <1>2, <2>1, <3>0
      <4>2. QED
        BY <1>4, <2>1, <4>1
    <3>2. c[p[i]].prev = At(p, i - 1) /\ c[p[i]].next = IF i = k - 1 THEN At(p, k + 1) ELSE At(p, i + 1)
      BY <1>k, <1>p, <1>2, <3>1
    <3>3. At(q, i - 1) = At(p, i - 1)
      BY <1>4, <3>1
    <3>4. At(q, i + 1) = IF i + 1 < k THEN At(p, i + 1) ELSE At(p, i + 1 + 1)
      BY <1>4
    <3>5. i + 1 < k <=> i # k - 1
      BY <2>1
    <3>6. i = k - 1 => i + 1 + 1 = k + 1
      OBVIOUS
    <3>7. QED
      BY <3>1, <3>2, <3>3, <3>4, <3>5, <3>6
  <2>2. CASE ~(i < k)
    <3>1. PICK j \in 1..n : j = i + 1 /\ j # k /\ j # k - 1 /\ q[i] = p[j] /\ j - 1 = i /\ (j = k + 1 <=> i = k)
      <4>1. i + 1 \in 1..n /\ i + 1 # k /\ i + 1 # k - 1 /\ (i + 1 = k + 1 <=> i = k)
        <5>1. i \in 1..n - 1
          BY <1>4
        <5>2. QED
          BY <1>2, <2>2, <5>1
      <4>2. q[i] = p[i + 1]
        BY <1>4, <2>2
      <4>3. QED
        BY <4>1, <4>2
    <3>2. c[p[j]].next = At(p, j + 1)
      BY <1>k, <1>p, <1>2, <3>1
    <3>3. At(q, i + 1) = At(p, j + 1)
      <4>1. ~(i + 1 < k)
        BY <2>2
      <4>2. QED
        BY <1>4, <3>1, <4>1
    <3>4. ASSUME i > 1 \/ ~t
          PROVE  c[p[j]].prev = At(q, i - 1)
      <4>1. CASE i = k
        <5>1. ~t /\ j = k + 1
          BY <3>1, <3>4, <4>1
        <5>2. c[p[j]].prev = At(p, k - 1)
          BY <1>p, <1>2, <3>1, <5>1
        <5>3. i - 1 < k /\ i - 1 = k - 1
          BY <4>1
        <5>4. QED
          BY <1>4, <5>2, <5>3
      <4>2. CASE i # k
        <5>1. c[p[j]].prev = At(p, j - 1)
          BY <1>k, <1>p, <1>2, <3>1, <4>2
        <5>2. ~(i - 1 < k) /\ i - 1 + 1 = i
          BY <2>2, <4>2
        <5>3. At(q, i - 1) = At(p, i)
          BY <1>4, <5>2
        <5>4. QED
          BY <3>1, <5>1, <5>3
      <4>3. QED
        BY <4>1, <4>2
    <3>5. QED
      BY <3>1, <3>2, <3>3, <3>4
  <2>3. QED
    BY <2>1, <2>2
<1>6. QED
  BY <1>3, <1>4, <1>5, <1>p DEF Mirrored, Linked

(***************************************************************************)
(* The values along a path                                                 *)
(***************************************************************************)
ValuesOf(cs, p) == [i \in 1..Len(p) |-> cs[p[i]].data]

AreValues(v, cs, p) ==
  v \in Seq(Data) /\ Len(v) = Len(p) /\ \A i \in 1..Len(p) : v[i] = cs[p[i]].data

\* The values along a path are those in its cells.
LEMMA ValuesFacts ==
  ASSUME NEW cs, NEW p, NEW t, Linked(cs, p, t)
  PROVE  AreValues(ValuesOf(cs, p), cs, p)
<1>1. PICK n \in Nat : n = Len(p)
  BY AtFacts DEF Mirrored, Linked
<1>2. \A i \in 1..n : cs[p[i]].data \in Data
  BY <1>1 DEF Mirrored, Linked, Cell, CellsOf
<1>3. PICK v \in [1..n -> Data] : v = ValuesOf(cs, p)
  BY <1>1, <1>2 DEF ValuesOf
<1>4. v \in Seq(Data) /\ Len(v) = n
  BY LenProperties
<1>5. \A i \in 1..n : v[i] = cs[p[i]].data
  BY <1>1, <1>3 DEF ValuesOf
<1>6. QED
  BY <1>1, <1>3, <1>4, <1>5 DEF AreValues

\* An appended cell appends its value, one put before all others puts it there, and one
\* that is taken out takes its value along.
LEMMA AppendedValues ==
  ASSUME NEW cs, NEW p, Mirrored(cs, p), NEW a \in Address,
         NEW c, Mirrored(c, Append(p, a)), SameData(c, cs, p), c[a].data \in Data
  PROVE  ValuesOf(c, Append(p, a)) = Append(ValuesOf(cs, p), c[a].data)
<1>q. PICK q : q = Append(p, a)
  OBVIOUS
<1>w. PICK w \in Data : w = c[a].data
  OBVIOUS
<1>1. PICK n \in Nat : n = Len(p) /\ p \in Seq(Address)
  BY AtFacts DEF Mirrored, Linked
<1>2. Len(q) = n + 1 /\ (\A i \in 1..n : q[i] = p[i]) /\ q[n + 1] = a
  BY <1>1, <1>q, AppendProperties
<1>3. PICK v \in Seq(Data) : v = ValuesOf(cs, p) /\ Len(v) = n /\ \A i \in 1..n : v[i] = cs[p[i]].data
  <2>1. AreValues(ValuesOf(cs, p), cs, p)
    BY ValuesFacts DEF Mirrored
  <2>2. QED
    BY <1>1, <2>1 DEF AreValues
<1>4. PICK u \in Seq(Data) : u = ValuesOf(c, q) /\ Len(u) = n + 1 /\ \A i \in 1..n + 1 : u[i] = c[q[i]].data
  <2>1. AreValues(ValuesOf(c, q), c, q)
    BY <1>q, ValuesFacts DEF Mirrored
  <2>2. QED
    BY <1>2, <2>1 DEF AreValues
<1>5. /\ Append(v, w) \in Seq(Data) /\ Len(Append(v, w)) = n + 1
      /\ \A i \in 1..n : Append(v, w)[i] = v[i]
      /\ Append(v, w)[n + 1] = w
  BY <1>3, AppendProperties
<1>6. \A i \in 1..n + 1 : u[i] = Append(v, w)[i]
  BY <1>1, <1>2, <1>3, <1>4, <1>5, <1>w DEF SameData
<1>7. u = Append(v, w)
  BY <1>4, <1>5, <1>6, SeqEqual
<1>8. QED
  BY <1>3, <1>4, <1>7, <1>q, <1>w

\* After an unshift the values are the new one and then the old ones.
LEMMA UnshiftedValues ==
  ASSUME NEW cs, NEW p, Mirrored(cs, p), NEW a \in Address,
         NEW c, Mirrored(c, <<a>> \o p), SameData(c, cs, p), c[a].data \in Data
  PROVE  ValuesOf(c, <<a>> \o p) = <<c[a].data>> \o ValuesOf(cs, p)
<1>q. PICK q : q = <<a>> \o p
  OBVIOUS
<1>w. PICK w \in Data : w = c[a].data
  OBVIOUS
<1>1. PICK n \in Nat : n = Len(p) /\ p \in Seq(Address)
  BY AtFacts DEF Mirrored, Linked
<1>2. Len(q) = n + 1 /\ \A i \in 1..n + 1 : q[i] = IF i <= 1 THEN a ELSE p[i - 1]
  <2>0. <<a>> \in Seq(Address) /\ Len(<<a>>) = 1 /\ <<a>>[1] = a
    OBVIOUS
  <2>1. PICK u \in Seq(Address) : u = <<a>> /\ Len(u) = 1 /\ u[1] = a
    BY <2>0
  <2>2. /\ Len(u \o p) = 1 + n
        /\ \A i \in 1..1 + n : (u \o p)[i] = IF i <= 1 THEN u[i] ELSE p[i - 1]
    BY <1>1, <2>1, ConcatProperties
  <2>3. QED
    BY <1>q, <2>1, <2>2
<1>3. PICK v \in Seq(Data) : v = ValuesOf(cs, p) /\ Len(v) = n /\ \A i \in 1..n : v[i] = cs[p[i]].data
  <2>1. AreValues(ValuesOf(cs, p), cs, p)
    BY ValuesFacts DEF Mirrored
  <2>2. QED
    BY <1>1, <2>1 DEF AreValues
<1>4. PICK u \in Seq(Data) : u = ValuesOf(c, q) /\ Len(u) = n + 1 /\ \A i \in 1..n + 1 : u[i] = c[q[i]].data
  <2>1. AreValues(ValuesOf(c, q), c, q)
    BY <1>q, ValuesFacts DEF Mirrored
  <2>2. QED
    BY <1>2, <2>1 DEF AreValues
<1>5. PICK x \in Seq(Data) : /\ x = <<w>> \o v /\ Len(x) = n + 1
                             /\ \A i \in 1..n + 1 : x[i] = IF i <= 1 THEN w ELSE v[i - 1]
  <2>0. <<w>> \in Seq(Data) /\ Len(<<w>>) = 1 /\ <<w>>[1] = w
    OBVIOUS
  <2>1. PICK y \in Seq(Data) : y = <<w>> /\ Len(y) = 1 /\ y[1] = w
    BY <2>0
  <2>2. /\ y \o v \in Seq(Data) /\ Len(y \o v) = 1 + n
        /\ \A i \in 1..1 + n : (y \o v)[i] = IF i <= 1 THEN y[i] ELSE v[i - 1]
    <3>1. /\ y \o v \in Seq(Data) /\ Len(y \o v) = Len(y) + Len(v)
          /\ \A i \in 1..Len(y) + Len(v) :
               (y \o v)[i] = IF i <= Len(y) THEN y[i] ELSE v[i - Len(y)]
      BY ConcatProperties
    <3>2. QED
      BY <1>3, <2>1, <3>1
  <2>3. PICK x \in Seq(Data) : x = y \o v
    BY <2>2
  <2>4. \A i \in 1..n + 1 : x[i] = IF i <= 1 THEN w ELSE v[i - 1]
    BY <1>1, <2>1, <2>2, <2>3
  <2>5. x = <<w>> \o v
    BY <2>1, <2>3
  <2>6. Len(x) = n + 1
    BY <1>1, <2>2, <2>3
  <2>7. QED
    BY <2>4, <2>5, <2>6
<1>6. ASSUME NEW i \in 1..n + 1
      PROVE  u[i] = x[i]
  <2>1. CASE i <= 1
    BY <1>2, <1>4, <1>5, <1>w, <2>1
  <2>2. CASE ~(i <= 1)
    <3>1. PICK j \in 1..n : j = i - 1
      BY <2>2
    <3>2. u[i] = c[p[j]].data /\ x[i] = v[j]
      BY <1>2, <1>4, <1>5, <2>2, <3>1
    <3>3. QED
      BY <1>1, <1>3, <3>2 DEF SameData
  <2>3. QED
    BY <2>1, <2>2
<1>7. u = x
  BY <1>4, <1>5, <1>6, SeqEqual
<1>8. QED
  BY <1>3, <1>4, <1>5, <1>7, <1>q, <1>w

\* After a cell has been taken out, the values are the others.
LEMMA RemovedValues ==
  ASSUME NEW cs, NEW p, Mirrored(cs, p), NEW k \in 1..Len(p),
         NEW c, NEW q, NEW t, Linked(c, q, t), q = Removed(p, k),
         \A i \in 1..Len(p) : i # k => c[p[i]].data = cs[p[i]].data
  PROVE  ValuesOf(c, q) = Removed(ValuesOf(cs, p), k)
<1>1. PICK n \in Nat : n = Len(p) /\ p \in Seq(Address) /\ k \in 1..n /\ Simple(p)
  BY AtFacts DEF Mirrored, Linked, Simple
<1>2. Len(q) = n - 1 /\ \A i \in 1..n - 1 : q[i] = IF i < k THEN p[i] ELSE p[i + 1]
  <2>1. IsWithout(q, p, k)
    BY <1>1, RemovedPath
  <2>2. QED
    BY <1>1, <2>1 DEF IsWithout
<1>3. PICK v \in Seq(Data) : v = ValuesOf(cs, p) /\ Len(v) = n /\ \A i \in 1..n : v[i] = cs[p[i]].data
  <2>1. AreValues(ValuesOf(cs, p), cs, p)
    BY ValuesFacts DEF Mirrored
  <2>2. QED
    BY <1>1, <2>1 DEF AreValues
<1>4. PICK u \in Seq(Data) : u = ValuesOf(c, q) /\ Len(u) = n - 1 /\ \A i \in 1..n - 1 : u[i] = c[q[i]].data
  <2>1. AreValues(ValuesOf(c, q), c, q)
    BY ValuesFacts DEF Mirrored
  <2>2. QED
    BY <1>2, <2>1 DEF AreValues
<1>5. PICK x \in Seq(Data) : /\ x = Removed(v, k) /\ Len(x) = n - 1
                             /\ \A i \in 1..n - 1 : x[i] = IF i < k THEN v[i] ELSE v[i + 1]
  <2>1. k \in 1..Len(v)
    BY <1>1, <1>3
  <2>2. /\ Removed(v, k) \in Seq(Data) /\ Len(Removed(v, k)) = Len(v) - 1
        /\ \A i \in 1..Len(v) - 1 : Removed(v, k)[i] = IF i < k THEN v[i] ELSE v[i + 1]
    BY <2>1, RemovedFacts
  <2>3. QED
    BY <1>3, <2>2
<1>6. ASSUME NEW i \in 1..n - 1
      PROVE  u[i] = x[i]
  <2>1. PICK j \in 1..n : j # k /\ j = IF i < k THEN i ELSE i + 1
    BY <1>1
  <2>2. q[i] = p[j] /\ x[i] = v[j]
    BY <1>2, <1>5, <2>1
  <2>3. QED
    BY <1>1, <1>3, <1>4, <2>1, <2>2
<1>7. u = x
  BY <1>4, <1>5, <1>6, SeqEqual
<1>8. QED
  BY <1>3, <1>4, <1>5, <1>7

(***************************************************************************)
(* The operations.  Each keeps the invariant, and does to the values what  *)
(* the abstract operation does.                                            *)
(***************************************************************************)
Users == {"database", "stack", "univ", "taken"}

\* The invariant gives the path, and the values along it.
LEMMA PathOfInv ==
  ASSUME ListsInv
  PROVE  /\ IsPath(Forward) /\ ListApply = ValuesOf(cells, Forward)
         /\ Simple(Forward) /\ Len(Forward) \in Nat
         /\ user # "taken" => Mirrored(cells, Forward)
<1>1. IsPath(Forward)
  BY DEF ListsInv
<1>2. Simple(Forward) /\ Forward \in Seq(Address)
  BY <1>1 DEF IsPath, Mirrored, Linked, Simple
<1>3. DOMAIN Forward = 1..Len(Forward) /\ Len(Forward) \in Nat
  BY <1>2, LenProperties
<1>4. ListApply = ValuesOf(cells, Forward)
  BY <1>3 DEF ListApply, Contents, ValuesOf
<1>5. user # "taken" => Mirrored(cells, Forward)
  BY <1>1 DEF IsPath, Mirrored, Linked
<1>6. QED
  BY <1>1, <1>2, <1>3, <1>4, <1>5

\* A path of the cells of the next state is the one that is found in it.
LEMMA NextPath ==
  ASSUME NEW q, Linked(cells', q, user' = "taken"), user' \in Users,
         first' = At(q, 1), last' = At(q, Len(q)), length' = Len(q)
  PROVE  ListsInv' /\ ListApply' = ValuesOf(cells', q)
<1>1. PICK c, f : c = cells' /\ f = first'
  OBVIOUS
<1>2. From(At(q, 1), [a \in DOMAIN c |-> c[a].next]) = q
  <2>1. PICK t : Linked(c, q, t)
    BY <1>1
  <2>2. QED
    BY <2>1, ForwardFollows
<1>3. Forward' = q
  BY <1>1, <1>2 DEF Forward
<1>5. ListsInv'
  BY <1>3 DEF ListsInv, IsPath, Users
<1>6. q \in Seq(Address)
  BY DEF Mirrored, Linked
<1>7. DOMAIN q = 1..Len(q)
  BY <1>6, LenProperties
<1>8. ListApply' = [i \in DOMAIN q |-> cells'[q[i]].data]
  BY <1>3 DEF ListApply, Contents
<1>9. QED
  BY <1>5, <1>7, <1>8 DEF ValuesOf

\* list_append keeps the invariant, and appends to the sequence.
LEMMA AppendSteps ==
  ASSUME ListsInv, NEW w \in Data, ListAppend(w)
  PROVE  ListsInv' /\ Sequence!Append1
<1>1. PICK p, a : p = Forward /\ a = NewCell
  OBVIOUS
<1>2. /\ Mirrored(cells, p) /\ ListApply = ValuesOf(cells, p)
      /\ last = At(p, Len(p)) /\ first = At(p, 1) /\ length = Len(p) /\ Len(p) \in Nat /\ p \in Seq(Address)
  BY <1>1, PathOfInv DEF ListAppend, IsPath, Simple
<1>3. DOMAIN cells = CellsOf(p) /\ CellsOf(p) \subseteq Address
  BY <1>2, LinkedFacts DEF Mirrored
<1>4. a \in Address /\ a \notin CellsOf(p)
  BY <1>1, <1>3, NewCellIsFree DEF ListAppend
<1>5. PICK c : c = Appended(cells, p, a, w)
  OBVIOUS
<1>6. cells' = c
  BY <1>1, <1>2, <1>5 DEF ListAppend, Appended
<1>7. PICK q : q = Append(p, a)
  OBVIOUS
<1>8. Mirrored(c, q) /\ c[a].data = w /\ SameData(c, cells, p)
  BY <1>2, <1>4, <1>5, <1>7, AppendLinks
<1>9. /\ Len(q) = Len(p) + 1 /\ q[Len(p) + 1] = a
      /\ \A i \in 1..Len(p) : q[i] = p[i] /\ p[i] \in Address
  BY <1>2, <1>4, <1>7, AppendProperties, ElementOfSeq
<1>10. first' = At(q, 1)
  <2>1. last = NoCell <=> Len(p) = 0
    BY <1>2, <1>9, AddressFacts DEF At
  <2>2. At(q, 1) = IF Len(p) = 0 THEN a ELSE At(p, 1)
    BY <1>2, <1>9 DEF At
  <2>3. QED
    BY <1>1, <1>2, <2>1, <2>2 DEF ListAppend
<1>11. last' = At(q, Len(q)) /\ length' = Len(q) /\ user' = user
  BY <1>1, <1>2, <1>9 DEF ListAppend, At
<1>12. ListsInv' /\ ListApply' = ValuesOf(c, q)
  <2>1. user' \in Users
    BY <1>11 DEF ListsInv, Users
  <2>2. Linked(cells', q, user' = "taken")
    BY <1>6, <1>8 DEF Mirrored, Linked
  <2>3. QED
    BY <1>6, <1>10, <1>11, <2>1, <2>2, NextPath
<1>13. ValuesOf(c, q) = Append(ValuesOf(cells, p), w)
  BY <1>2, <1>4, <1>7, <1>8, AppendedValues
<1>14. QED
  BY <1>2, <1>12, <1>13 DEF Sequence!Append1

\* list_unshift keeps the invariant, and prepends to the sequence.
LEMMA UnshiftSteps ==
  ASSUME ListsInv, NEW w \in Data, ListUnshift(w)
  PROVE  ListsInv' /\ Sequence!Prepend1
<1>1. PICK p, a : p = Forward /\ a = NewCell
  OBVIOUS
<1>2. /\ Mirrored(cells, p) /\ ListApply = ValuesOf(cells, p)
      /\ last = At(p, Len(p)) /\ first = At(p, 1) /\ length = Len(p) /\ Len(p) \in Nat /\ p \in Seq(Address)
  BY <1>1, PathOfInv DEF ListUnshift, IsPath, Simple
<1>3. DOMAIN cells = CellsOf(p) /\ CellsOf(p) \subseteq Address
  BY <1>2, LinkedFacts DEF Mirrored
<1>4. a \in Address /\ a \notin CellsOf(p)
  BY <1>1, <1>3, NewCellIsFree DEF ListUnshift
<1>5. PICK c : c = Unshifted(cells, p, a, w)
  OBVIOUS
<1>6. cells' = c
  BY <1>1, <1>2, <1>5 DEF ListUnshift, Unshifted
<1>7. PICK q : q = <<a>> \o p
  OBVIOUS
<1>8. Mirrored(c, q) /\ c[a].data = w /\ SameData(c, cells, p)
  BY <1>2, <1>4, <1>5, <1>7, UnshiftLinks
<1>9. Len(q) = Len(p) + 1 /\ \A i \in 1..Len(p) + 1 : q[i] = IF i <= 1 THEN a ELSE p[i - 1]
  <2>0. <<a>> \in Seq(Address) /\ Len(<<a>>) = 1 /\ <<a>>[1] = a
    BY <1>4
  <2>1. PICK u \in Seq(Address) : u = <<a>> /\ Len(u) = 1 /\ u[1] = a
    BY <2>0
  <2>2. /\ Len(u \o p) = 1 + Len(p)
        /\ \A i \in 1..1 + Len(p) : (u \o p)[i] = IF i <= 1 THEN u[i] ELSE p[i - 1]
    BY <1>2, <2>1, ConcatProperties
  <2>3. QED
    BY <1>2, <1>7, <2>1, <2>2
<1>10. last' = At(q, Len(q))
  <2>1. first = NoCell <=> Len(p) = 0
    BY <1>2, ElementOfSeq, AddressFacts DEF At
  <2>2. At(q, Len(q)) = IF Len(p) = 0 THEN a ELSE At(p, Len(p))
    <3>1. Len(q) \in 1..Len(p) + 1 /\ (Len(q) <= 1 <=> Len(p) = 0) /\ Len(q) - 1 = Len(p)
      BY <1>2, <1>9
    <3>2. QED
      BY <1>2, <1>9, <3>1 DEF At
  <2>3. QED
    BY <1>1, <1>2, <2>1, <2>2 DEF ListUnshift
<1>11. first' = At(q, 1) /\ length' = Len(q) /\ user' = user
  BY <1>1, <1>2, <1>9 DEF ListUnshift, At
<1>12. ListsInv' /\ ListApply' = ValuesOf(c, q)
  <2>1. user' \in Users
    BY <1>11 DEF ListsInv, Users
  <2>2. Linked(cells', q, user' = "taken")
    BY <1>6, <1>8 DEF Mirrored, Linked
  <2>3. QED
    BY <1>6, <1>10, <1>11, <2>1, <2>2, NextPath
<1>13. ValuesOf(c, q) = <<w>> \o ValuesOf(cells, p)
  BY <1>2, <1>4, <1>7, <1>8, UnshiftedValues
<1>14. QED
  BY <1>2, <1>12, <1>13 DEF Sequence!Prepend1

\* Whatever takes out the k-th cell like this takes out the k-th value.
LEMMA RemoveSteps ==
  ASSUME ListsInv, user # "taken", NEW k \in 1..Len(Forward),
         PointsPast(cells', cells, Forward, k, user' = "taken"), user' = "taken" => k = 1,
         user' \in Users, length' = length - 1,
         first' = IF k = 1 THEN At(Forward, 2) ELSE first,
         last' = IF k = Len(Forward) THEN At(Forward, k - 1) ELSE last
  PROVE  ListsInv' /\ Sequence!Take1
<1>1. PICK p, c : p = Forward /\ c = cells'
  OBVIOUS
<1>t. PICK t \in BOOLEAN : t <=> user' = "taken"
  OBVIOUS
<1>2. /\ Mirrored(cells, p) /\ ListApply = ValuesOf(cells, p) /\ Simple(p)
      /\ last = At(p, Len(p)) /\ first = At(p, 1) /\ length = Len(p) /\ Len(p) \in Nat
  BY <1>1, PathOfInv DEF IsPath, Simple
<1>3. PICK q : q = Removed(p, k)
  OBVIOUS
<1>4. IsWithout(q, p, k)
  BY <1>1, <1>2, <1>3, RemovedPath
<1>5. Linked(c, q, t)
  <2>1. PointsPast(c, cells, p, k, t)
    BY <1>1, <1>t DEF PointsPast
  <2>2. t => k = 1
    BY <1>t
  <2>3. k \in 1..Len(p)
    BY <1>1
  <2>4. QED
    BY <1>2, <1>3, <2>1, <2>2, <2>3, RemovedLinks
<1>6. ListsInv' /\ ListApply' = ValuesOf(c, q)
  <2>1. Linked(cells', q, user' = "taken")
    BY <1>1, <1>5, <1>t DEF Linked
  <2>2. Len(q) = Len(p) - 1
    BY <1>4 DEF IsWithout
  <2>3. k \in 1..Len(p)
    BY <1>1
  <2>4. first' = At(q, 1)
    <3>1. At(q, 1) = IF 1 < k THEN At(p, 1) ELSE At(p, 1 + 1)
      BY <1>4 DEF IsWithout
    <3>2. QED
      BY <1>1, <1>2, <2>3, <3>1
  <2>5. last' = At(q, Len(q))
    <3>1. PICK m \in Int : m = Len(p) - 1 /\ m + 1 = Len(p) /\ (m < k <=> k = Len(p)) /\ (k = Len(p) => k - 1 = m)
      BY <1>2, <2>3
    <3>2. At(q, m) = IF m < k THEN At(p, m) ELSE At(p, m + 1)
      BY <1>4 DEF IsWithout
    <3>3. QED
      BY <1>1, <1>2, <2>2, <3>1, <3>2
  <2>6. length' = Len(q)
    BY <1>2, <2>2
  <2>7. QED
    BY <1>1, <2>1, <2>4, <2>5, <2>6, NextPath
<1>7. ValuesOf(c, q) = Removed(ValuesOf(cells, p), k)
  <2>1. \A i \in 1..Len(p) : i # k => c[p[i]].data = cells[p[i]].data
    BY <1>1 DEF PointsPast
  <2>2. k \in 1..Len(p)
    BY <1>1
  <2>3. QED
    BY <1>2, <1>3, <1>5, <2>1, <2>2, RemovedValues
<1>8. k \in DOMAIN ListApply
  BY <1>1, <1>2 DEF ValuesOf
<1>9. QED
  BY <1>2, <1>6, <1>7, <1>8 DEF Sequence!Take1, Removed

\* What the invariant says of the cells, place by place
LEMMA Cells ==
  ASSUME NEW p, Mirrored(cells, p)
  PROVE  /\ IsMap(cells, CellsOf(p)) /\ p \in Seq(Address) /\ Len(p) \in Nat
         /\ \A i \in 1..Len(p) : cells[p[i]].next = At(p, i + 1) /\ cells[p[i]].prev = At(p, i - 1)
         /\ \A i \in 1..Len(p) : At(p, i) = p[i] /\ p[i] \in CellsOf(p) /\ p[i] # NoCell
         /\ \A i \in Int : At(p, i) \in CellsOf(p) \cup {NoCell} /\ At(p, i) \in Address \cup {NoCell}
         /\ \A i \in Int : i \notin 1..Len(p) <=> At(p, i) = NoCell
         /\ \A i \in Int, j \in 1..Len(p) : p[j] = At(p, i) <=> j = i
<1>1. p \in Seq(Address) /\ \A i, j \in 1..Len(p) : p[i] = p[j] => i = j
  BY DEF Mirrored, Linked
<1>2. Len(p) \in Nat /\ CellsOf(p) \subseteq Address
  BY <1>1, AtFacts
<1>3. IsMap(cells, CellsOf(p))
  BY <1>2 DEF IsMap, Mirrored, Linked
<1>4. \A i \in 1..Len(p) : cells[p[i]].next = At(p, i + 1) /\ cells[p[i]].prev = At(p, i - 1)
  BY DEF Mirrored, Linked
<1>5. /\ \A i \in Int : At(p, i) \in Address \cup {NoCell}
      /\ \A i \in Int : i \notin 1..Len(p) <=> At(p, i) = NoCell
      /\ \A i \in Int, j \in 1..Len(p) : p[j] = At(p, i) <=> j = i
      /\ \A i \in 1..Len(p) : At(p, i) = p[i] /\ p[i] \in CellsOf(p)
  BY <1>1, AtFacts
<1>6. \A i \in Int : At(p, i) \in CellsOf(p) \cup {NoCell}
  BY <1>5
<1>7. \A i \in 1..Len(p) : p[i] # NoCell
  BY <1>2, <1>5, AddressFacts
<1>8. QED
  BY <1>1, <1>2, <1>3, <1>4, <1>5, <1>6, <1>7

\* list_splice
LEMMA SpliceSteps ==
  ASSUME ListsInv, user = "database", NEW a \in DOMAIN cells, ListSplice(a)
  PROVE  ListsInv' /\ Sequence!Take1
<1>1. PICK p : p = Forward
  OBVIOUS
<1>2. /\ Mirrored(cells, p) /\ last = At(p, Len(p)) /\ first = At(p, 1) /\ length = Len(p)
  BY <1>1, PathOfInv DEF IsPath
<1>3. /\ IsMap(cells, CellsOf(p)) /\ p \in Seq(Address) /\ Len(p) \in Nat
      /\ \A i \in 1..Len(p) : cells[p[i]].next = At(p, i + 1) /\ cells[p[i]].prev = At(p, i - 1)
      /\ \A i \in 1..Len(p) : At(p, i) = p[i] /\ p[i] \in CellsOf(p) /\ p[i] # NoCell
      /\ \A i \in Int : At(p, i) \in CellsOf(p) \cup {NoCell} /\ At(p, i) \in Address \cup {NoCell}
      /\ \A i \in Int : i \notin 1..Len(p) <=> At(p, i) = NoCell
      /\ \A i \in Int, j \in 1..Len(p) : p[j] = At(p, i) <=> j = i
  BY <1>2, Cells
<1>4. PICK D : D = CellsOf(p)
  OBVIOUS
<1>5. DOMAIN cells = D
  BY <1>3, <1>4 DEF IsMap
<1>6. PICK k \in 1..Len(p) : a = p[k]
  BY <1>4, <1>5 DEF CellsOf
<1>7. PICK x, y : x = At(p, k - 1) /\ y = At(p, k + 1)
  OBVIOUS
<1>8. cells[a].prev = x /\ cells[a].next = y
  BY <1>3, <1>6, <1>7
<1>9. /\ x \in D \cup {NoCell} /\ x \in Address \cup {NoCell}
      /\ y \in D \cup {NoCell} /\ y \in Address \cup {NoCell}
      /\ (x = NoCell <=> k = 1) /\ (y = NoCell <=> k = Len(p))
      /\ \A j \in 1..Len(p) : (p[j] = x <=> j = k - 1) /\ (p[j] = y <=> j = k + 1)
  <2>1. k - 1 \in Int /\ k + 1 \in Int /\ (k - 1 \notin 1..Len(p) <=> k = 1) /\ (k + 1 \notin 1..Len(p) <=> k = Len(p))
    BY <1>3
  <2>2. QED
    BY <1>3, <1>4, <1>7, <2>1
<1>10. PICK d, e : d = SetNext(cells, x, y) /\ e = SetPrev(d, y, x)
  OBVIOUS
<1>11. NextWritten(d, cells, D, x, y)
  BY <1>3, <1>4, <1>9, <1>10, SetNextFacts
<1>12. PrevWritten(e, d, D, y, x)
  <2>1. IsMap(d, D)
    BY <1>11 DEF NextWritten
  <2>2. QED
    BY <1>9, <1>10, <2>1, SetPrevFacts
<1>13. cells' = Without(e, a) /\ length' = length - 1 /\ user' = user
       /\ first' = (IF x = NoCell THEN y ELSE first) /\ last' = (IF y = NoCell THEN x ELSE last)
  BY <1>8, <1>10 DEF ListSplice
<1>14. cells' \in [D \ {a} -> Cell] /\ \A b \in D \ {a} : cells'[b] = e[b]
  <2>1. e \in [D -> Cell]
    BY <1>12 DEF PrevWritten, IsMap
  <2>2. QED
    BY <1>13, <2>1 DEF Without
<1>15. ASSUME NEW j \in 1..Len(p), j # k
       PROVE  /\ cells'[p[j]].data = cells[p[j]].data
              /\ cells'[p[j]].next = IF j = k - 1 THEN At(p, k + 1) ELSE cells[p[j]].next
              /\ j # k + 1 => cells'[p[j]].prev = cells[p[j]].prev
              /\ j = k + 1 => cells'[p[j]].prev = At(p, k - 1)
  <2>1. p[j] \in D /\ p[j] # a /\ cells'[p[j]] = e[p[j]]
    <3>1. p[j] \in D
      BY <1>3, <1>4
    <3>2. p[j] # p[k]
      BY <1>3, <1>15
    <3>3. QED
      BY <1>6, <1>14, <3>1, <3>2
  <2>2. QED
    BY <1>7, <1>9, <1>11, <1>12, <2>1 DEF NextWritten, PrevWritten
<1>16. PointsPast(cells', cells, p, k, user' = "taken")
  BY <1>4, <1>6, <1>14, <1>15 DEF PointsPast
<1>17. first' = (IF k = 1 THEN At(p, 2) ELSE first) /\ last' = (IF k = Len(p) THEN At(p, k - 1) ELSE last)
  BY <1>7, <1>9, <1>13
<1>18. QED
  BY <1>1, <1>13, <1>16, <1>17, RemoveSteps DEF Users

\* list_shift: writing the link of the third cell changes nothing, as it points back to
\* the second already; the second is not written.
LEMMA ShiftSteps ==
  ASSUME ListsInv, ListShift
  PROVE  ListsInv' /\ Sequence!Take1
<1>1. PICK p : p = Forward
  OBVIOUS
<1>2. /\ Mirrored(cells, p) /\ last = At(p, Len(p)) /\ first = At(p, 1) /\ length = Len(p)
  BY <1>1, PathOfInv DEF IsPath, ListShift
<1>3. /\ IsMap(cells, CellsOf(p)) /\ p \in Seq(Address) /\ Len(p) \in Nat
      /\ \A i \in 1..Len(p) : cells[p[i]].next = At(p, i + 1) /\ cells[p[i]].prev = At(p, i - 1)
      /\ \A i \in 1..Len(p) : At(p, i) = p[i] /\ p[i] \in CellsOf(p) /\ p[i] # NoCell
      /\ \A i \in Int : At(p, i) \in CellsOf(p) \cup {NoCell} /\ At(p, i) \in Address \cup {NoCell}
      /\ \A i \in Int : i \notin 1..Len(p) <=> At(p, i) = NoCell
      /\ \A i \in Int, j \in 1..Len(p) : p[j] = At(p, i) <=> j = i
  BY <1>2, Cells
<1>4. PICK D : D = CellsOf(p)
  OBVIOUS
<1>6. 1 \in 1..Len(p) /\ first = p[1]
  BY <1>2, <1>3 DEF ListShift
<1>n. PICK n \in Nat : n = Len(p) /\ n >= 1
  BY <1>3, <1>6
<1>7. PICK x, y : x = At(p, 2) /\ y = At(p, 3)
  OBVIOUS
<1>8. cells[first].next = x /\ y = IF x = NoCell THEN NoCell ELSE cells[x].next
  <2>1. cells[first].next = x
    BY <1>3, <1>6, <1>7
  <2>2. CASE x = NoCell
    BY <1>3, <1>6, <1>7, <2>2
  <2>3. CASE x # NoCell
    <3>1. 2 \in 1..Len(p) /\ x = p[2]
      BY <1>3, <1>7, <2>3
    <3>2. QED
      BY <1>3, <1>7, <2>1, <2>3, <3>1
  <2>4. QED
    BY <2>1, <2>2, <2>3
<1>9. /\ x \in Address \cup {NoCell} /\ y \in D \cup {NoCell}
      /\ (x = NoCell <=> 1 = Len(p)) /\ (y = NoCell <=> Len(p) <= 2)
      /\ \A j \in 1..Len(p) : p[j] = y <=> j = 3
  <2>1. 2 \in Int /\ 3 \in Int /\ (2 \notin 1..Len(p) <=> 1 = Len(p)) /\ (3 \notin 1..Len(p) <=> Len(p) <= 2)
    BY <1>n
  <2>2. QED
    BY <1>3, <1>4, <1>7, <2>1
<1>10. PICK e : e = SetPrev(cells, y, x)
  OBVIOUS
<1>11. PrevWritten(e, cells, D, y, x)
  BY <1>3, <1>4, <1>9, <1>10, SetPrevFacts
<1>13. cells' = Without(e, first) /\ length' = length - 1 /\ user' = "taken"
       /\ first' = x /\ last' = (IF x = NoCell \/ y = NoCell THEN x ELSE last)
  BY <1>8, <1>10 DEF ListShift
<1>14. cells' \in [D \ {first} -> Cell] /\ \A b \in D \ {first} : cells'[b] = e[b]
  <2>1. e \in [D -> Cell]
    BY <1>11 DEF PrevWritten, IsMap
  <2>2. QED
    BY <1>13, <2>1 DEF Without
<1>15. ASSUME NEW j \in 1..Len(p), j # 1
       PROVE  /\ cells'[p[j]].data = cells[p[j]].data
              /\ cells'[p[j]].next = IF j = 1 - 1 THEN At(p, 1 + 1) ELSE cells[p[j]].next
              /\ j # 1 + 1 => cells'[p[j]].prev = cells[p[j]].prev
  <2>1. p[j] \in D /\ cells'[p[j]] = e[p[j]]
    <3>1. p[j] \in D
      BY <1>3, <1>4
    <3>2. p[j] # p[1]
      BY <1>3, <1>6, <1>15
    <3>3. QED
      BY <1>6, <1>14, <3>1, <3>2
  <2>2. j = 3 => cells[p[j]].prev = x
    BY <1>3, <1>7
  <2>3. QED
    BY <1>9, <1>11, <2>1, <2>2 DEF PrevWritten
<1>16. PointsPast(cells', cells, p, 1, user' = "taken")
  BY <1>4, <1>6, <1>13, <1>14, <1>15 DEF PointsPast
<1>17. first' = At(p, 2) /\ last' = (IF 1 = Len(p) THEN At(p, 1 - 1) ELSE last)
  <2>1. 0 \in Int /\ 0 \notin 1..Len(p)
    OBVIOUS
  <2>2. At(p, 1 - 1) = NoCell
    BY <1>3, <2>1
  <2>3. Len(p) = 2 => x = last
    BY <1>2, <1>7
  <2>4. Len(p) <= 2 => Len(p) = 1 \/ Len(p) = 2
    BY <1>n
  <2>5. QED
    BY <1>7, <1>9, <1>13, <2>2, <2>3, <2>4
<1>18. user # "taken" /\ user' \in Users
  BY <1>13 DEF ListShift, Users
<1>19. QED
  BY <1>1, <1>6, <1>13, <1>16, <1>17, <1>18, RemoveSteps

\* list_pop: the cell before the last but one points to that one already.
LEMMA PopSteps ==
  ASSUME ListsInv, ListPop
  PROVE  ListsInv' /\ Sequence!Take1
<1>1. PICK p : p = Forward
  OBVIOUS
<1>2. /\ Mirrored(cells, p) /\ last = At(p, Len(p)) /\ first = At(p, 1) /\ length = Len(p)
  BY <1>1, PathOfInv DEF IsPath, ListPop
<1>3. /\ IsMap(cells, CellsOf(p)) /\ p \in Seq(Address) /\ Len(p) \in Nat
      /\ \A i \in 1..Len(p) : cells[p[i]].next = At(p, i + 1) /\ cells[p[i]].prev = At(p, i - 1)
      /\ \A i \in 1..Len(p) : At(p, i) = p[i] /\ p[i] \in CellsOf(p) /\ p[i] # NoCell
      /\ \A i \in Int : At(p, i) \in CellsOf(p) \cup {NoCell} /\ At(p, i) \in Address \cup {NoCell}
      /\ \A i \in Int : i \notin 1..Len(p) <=> At(p, i) = NoCell
      /\ \A i \in Int, j \in 1..Len(p) : p[j] = At(p, i) <=> j = i
  BY <1>2, Cells
<1>4. PICK D : D = CellsOf(p)
  OBVIOUS
<1>6. PICK k \in 1..Len(p) : k = Len(p) /\ last = p[k]
  <2>1. Len(p) \in 1..Len(p)
    BY <1>2, <1>3 DEF ListPop
  <2>2. QED
    BY <1>2, <1>3, <2>1
<1>7. PICK x, y : x = At(p, k - 1) /\ y = At(p, k - 2)
  OBVIOUS
<1>8. cells[last].prev = x /\ y = IF x = NoCell THEN NoCell ELSE cells[x].prev
  <2>1. cells[last].prev = x
    BY <1>3, <1>6, <1>7
  <2>2. CASE x = NoCell
    <3>1. PICK m \in Int, l \in Int : /\ m = k - 1 /\ l = k - 2
                                      /\ m \notin 1..Len(p) => l \notin 1..Len(p)
      BY <1>3, <1>6
    <3>2. m \notin 1..Len(p)
      BY <1>3, <1>7, <2>2, <3>1
    <3>3. y = NoCell
      BY <1>3, <1>7, <3>1, <3>2
    <3>4. QED
      BY <2>1, <2>2, <3>3
  <2>3. CASE x # NoCell
    <3>1. PICK m \in Int : m = k - 1 /\ m - 1 = k - 2
      BY <1>6
    <3>2. m \in 1..Len(p) /\ x = p[m]
      BY <1>3, <1>7, <2>3, <3>1
    <3>3. cells[x].prev = y
      BY <1>3, <1>7, <3>1, <3>2
    <3>4. QED
      BY <2>1, <2>3, <3>3
  <2>4. QED
    BY <2>1, <2>2, <2>3
<1>9. /\ x \in D \cup {NoCell} /\ x \in Address \cup {NoCell} /\ y \in D \cup {NoCell}
      /\ (x = NoCell <=> k = 1) /\ (y = NoCell <=> k <= 2)
      /\ \A j \in 1..Len(p) : (p[j] = x <=> j = k - 1) /\ (p[j] = y <=> j = k - 2)
  <2>1. k - 1 \in Int /\ k - 2 \in Int /\ (k - 1 \notin 1..Len(p) <=> k = 1) /\ (k - 2 \notin 1..Len(p) <=> k <= 2)
    BY <1>3, <1>6
  <2>2. QED
    BY <1>3, <1>4, <1>7, <2>1
<1>10. PICK d, e : d = SetNext(cells, y, x) /\ e = SetNext(d, x, NoCell)
  OBVIOUS
<1>11. NextWritten(d, cells, D, y, x)
  BY <1>3, <1>4, <1>9, <1>10, SetNextFacts
<1>12. NextWritten(e, d, D, x, NoCell)
  <2>1. IsMap(d, D)
    BY <1>11 DEF NextWritten
  <2>2. QED
    BY <1>9, <1>10, <2>1, SetNextFacts
<1>13. cells' = Without(e, last) /\ length' = length - 1 /\ user' = user
       /\ last' = x /\ first' = (IF x = NoCell \/ y = NoCell THEN x ELSE first)
  BY <1>8, <1>10 DEF ListPop
<1>14. cells' \in [D \ {last} -> Cell] /\ \A b \in D \ {last} : cells'[b] = e[b]
  <2>1. e \in [D -> Cell]
    BY <1>12 DEF NextWritten, IsMap
  <2>2. QED
    BY <1>13, <2>1 DEF Without
<1>15. ASSUME NEW j \in 1..Len(p), j # k
       PROVE  /\ cells'[p[j]].data = cells[p[j]].data
              /\ cells'[p[j]].next = IF j = k - 1 THEN At(p, k + 1) ELSE cells[p[j]].next
              /\ cells'[p[j]].prev = cells[p[j]].prev
  <2>1. p[j] \in D /\ cells'[p[j]] = e[p[j]]
    <3>1. p[j] \in D
      BY <1>3, <1>4
    <3>2. p[j] # p[k]
      BY <1>3, <1>15
    <3>3. QED
      BY <1>6, <1>14, <3>1, <3>2
  <2>2. j = k - 2 => cells[p[j]].next = x
    <3>1. j = k - 2 => j + 1 = k - 1
      BY <1>3, <1>6
    <3>2. cells[p[j]].next = At(p, j + 1)
      BY <1>3
    <3>3. QED
      BY <1>7, <3>1, <3>2
  <2>3. At(p, k + 1) = NoCell
    <3>1. k + 1 \in Int /\ k + 1 \notin 1..Len(p)
      BY <1>3, <1>6
    <3>2. QED
      BY <1>3, <3>1
  <2>4. QED
    BY <1>9, <1>11, <1>12, <2>1, <2>2, <2>3 DEF NextWritten
<1>16. PointsPast(cells', cells, p, k, user' = "taken")
  <2>1. \A j \in 1..Len(p) : j # k + 1
    BY <1>3, <1>6
  <2>2. QED
    BY <1>4, <1>6, <1>14, <1>15, <2>1 DEF PointsPast
<1>17. first' = (IF k = 1 THEN At(p, 2) ELSE first) /\ last' = At(p, k - 1)
  <2>1. k = 1 => 2 \in Int /\ 2 \notin 1..Len(p)
    BY <1>6
  <2>2. k = 1 => At(p, 2) = NoCell
    BY <1>3, <2>1
  <2>3. k = 2 => x = first
    BY <1>2, <1>7
  <2>4. k <= 2 => k = 1 \/ k = 2
    BY <1>3, <1>6
  <2>5. QED
    BY <1>7, <1>9, <1>13, <2>2, <2>3, <2>4
<1>18. user # "taken" /\ user' \in Users /\ user' # "taken"
  BY <1>13 DEF ListPop, Users
<1>19. QED
  BY <1>1, <1>6, <1>13, <1>16, <1>17, <1>18, RemoveSteps

\* A list without cells is the empty path.
LEMMA EmptyPath ==
  ASSUME NEW c, DOMAIN c = {}, c = [a \in DOMAIN c |-> c[a]], NEW t
  PROVE  Linked(c, <<>>, t) /\ At(<<>>, 1) = NoCell /\ At(<<>>, Len(<<>>)) = NoCell
         /\ Len(<<>>) = 0 /\ ValuesOf(c, <<>>) = <<>>
<1>1. PICK p \in Seq(Address) : p = <<>> /\ Len(p) = 0
  <2>1. <<>> \in Seq(Address) /\ Len(<<>>) = 0
    BY EmptySeq
  <2>2. QED
    BY <2>1
<1>2. CellsOf(p) = {} /\ 1..Len(p) = {}
  BY <1>1 DEF CellsOf
<1>3. c \in [{} -> Cell]
  OBVIOUS
<1>4. Linked(c, p, t)
  BY <1>1, <1>2, <1>3 DEF Linked
<1>5. At(p, 1) = NoCell /\ At(p, Len(p)) = NoCell
  BY <1>2 DEF At
<1>6. PICK v : v = ValuesOf(c, p)
  OBVIOUS
<1>7. v \in Seq(Data) /\ Len(v) = 0
  <2>1. AreValues(v, c, p)
    BY <1>4, <1>6, ValuesFacts
  <2>2. QED
    BY <1>1, <2>1 DEF AreValues
<1>8. v = <<>>
  BY <1>7, EmptySeq
<1>9. QED
  BY <1>1, <1>4, <1>5, <1>6, <1>8

\* free_list frees every cell: the walk forward finds them all.
LEMMA FreeSteps ==
  ASSUME ListsInv, FreeList
  PROVE  ListsInv' /\ Sequence!Clear
<1>1. PICK p : p = Forward
  OBVIOUS
<1>2. Linked(cells, p, user = "taken") /\ DOMAIN p = 1..Len(p)
  <2>1. Linked(cells, p, user = "taken")
    BY <1>1, PathOfInv DEF IsPath
  <2>2. p \in Seq(Address)
    BY <2>1 DEF Linked
  <2>3. QED
    BY <2>1, <2>2, LenProperties
<1>3. DOMAIN cells = CellsOf(p)
  BY <1>2 DEF Linked
<1>4. DOMAIN cells \ {Forward[i] : i \in DOMAIN Forward} = {}
  BY <1>1, <1>2, <1>3 DEF CellsOf
<1>5. DOMAIN cells' = {} /\ cells' = [a \in DOMAIN cells' |-> cells'[a]]
  BY <1>4 DEF FreeList
<1>6. PICK c : c = cells'
  OBVIOUS
<1>7. PICK t : t = (user' = "taken")
  OBVIOUS
<1>8. DOMAIN c = {} /\ c = [a \in DOMAIN c |-> c[a]]
  BY <1>5, <1>6
<1>9. /\ Linked(c, <<>>, t) /\ At(<<>>, 1) = NoCell /\ At(<<>>, Len(<<>>)) = NoCell
      /\ Len(<<>>) = 0 /\ ValuesOf(c, <<>>) = <<>>
  BY <1>8, EmptyPath
<1>10. user' \in Users
  BY DEF FreeList, ListsInv, Users
<1>11. first' = NoCell /\ last' = NoCell /\ length' = 0
  BY DEF FreeList
<1>12. Linked(cells', <<>>, user' = "taken")
  BY <1>6, <1>7, <1>9
<1>13. ListsInv' /\ ListApply' = ValuesOf(cells', <<>>)
  BY <1>9, <1>10, <1>11, <1>12, NextPath
<1>14. QED
  BY <1>6, <1>9, <1>13 DEF Sequence!Clear

\* A list starts empty.
LEMMA ListsStart ==
  ASSUME ListsInit
  PROVE  ListsInv /\ Sequence!Init
<1>1. DOMAIN cells = {} /\ cells = [a \in DOMAIN cells |-> cells[a]]
  BY DEF ListsInit
<1>2. PICK c : c = cells
  OBVIOUS
<1>3. PICK t : t = (user = "taken")
  OBVIOUS
<1>4. /\ Linked(c, <<>>, t) /\ At(<<>>, 1) = NoCell /\ At(<<>>, Len(<<>>)) = NoCell
      /\ Len(<<>>) = 0 /\ ValuesOf(c, <<>>) = <<>>
  BY <1>1, <1>2, EmptyPath
<1>5. From(At(<<>>, 1), [a \in DOMAIN c |-> c[a].next]) = <<>>
  BY <1>4, ForwardFollows
<1>6. Forward = <<>>
  BY <1>2, <1>4, <1>5 DEF Forward, ListsInit
<1>7. ListsInv
  BY <1>2, <1>3, <1>4, <1>6 DEF ListsInv, IsPath, ListsInit
<1>8. ListApply = <<>>
  BY <1>2, <1>4, <1>6, <1>7, PathOfInv
<1>9. QED
  BY <1>7, <1>8 DEF Sequence!Init

\* Every step keeps the invariant and is a step of the sequence.
LEMMA ListsStep ==
  ASSUME ListsInv, [ListsNext]_listVars
  PROVE  ListsInv' /\ [Sequence!Next]_ListApply
<1>1. ASSUME NEW w \in Data, ListAppend(w)
      PROVE  ListsInv' /\ [Sequence!Next]_ListApply
  BY <1>1, AppendSteps DEF Sequence!Next
<1>2. ASSUME NEW w \in Data, ListUnshift(w)
      PROVE  ListsInv' /\ [Sequence!Next]_ListApply
  BY <1>2, UnshiftSteps DEF Sequence!Next
<1>3. ASSUME NEW w \in Data, ListDeleteFirst(w)
      PROVE  ListsInv' /\ [Sequence!Next]_ListApply
  <2>1. PICK i \in DOMAIN Forward : ListSplice(Forward[i])
    BY <1>3 DEF ListDeleteFirst
  <2>2. user = "database" /\ Forward \in Seq(Address) /\ Linked(cells, Forward, user = "taken")
    BY <1>3, PathOfInv DEF ListDeleteFirst, IsPath, Simple
  <2>3. Forward[i] \in DOMAIN cells
    BY <2>2, LenProperties DEF Linked, CellsOf
  <2>4. ListsInv' /\ Sequence!Take1
    BY <2>1, <2>2, <2>3, SpliceSteps
  <2>5. QED
    BY <2>4 DEF Sequence!Next
<1>4. CASE SpliceSome
  BY <1>4, SpliceSteps DEF SpliceSome, Sequence!Next
<1>5. CASE ListShift
  BY <1>5, ShiftSteps DEF Sequence!Next
<1>6. CASE ListPop
  BY <1>6, PopSteps DEF Sequence!Next
<1>7. CASE FreeList
  BY <1>7, FreeSteps DEF Sequence!Next
<1>8. CASE UNCHANGED listVars
  <2>1. Forward' = Forward
    BY <1>8 DEF Forward, listVars
  <2>2. ListsInv' /\ ListApply' = ListApply
    BY <1>8, <2>1 DEF ListsInv, IsPath, ListApply, Contents, listVars
  <2>3. QED
    BY <2>2
<1>9. QED
  BY <1>1, <1>2, <1>3, <1>4, <1>5, <1>6, <1>7, <1>8 DEF ListsNext

(***************************************************************************)
(* The theorems                                                            *)
(***************************************************************************)
\* The cells in use are always one path from the head of the list, whoever uses it.
THEOREM ListsKeepInv == ListsSpec => []ListsInv
<1>1. ListsInit => ListsInv
  BY ListsStart
<1>2. ListsInv /\ [ListsNext]_listVars => ListsInv'
  BY ListsStep
<1>3. QED
  BY <1>1, <1>2, PTL DEF ListsSpec

\* The walk backward finds the cells the walk forward finds, in the other order.
LEMMA InvLinksMatch ==
  ASSUME ListsInv
  PROVE  LinksMatch
<1>1. PICK p : p = Forward
  OBVIOUS
<1>2. /\ Linked(cells, p, user = "taken") /\ first = At(p, 1) /\ last = At(p, Len(p)) /\ length = Len(p)
      /\ p \in Seq(Address) /\ (user # "taken" => Mirrored(cells, p))
  BY <1>1, PathOfInv DEF IsPath, Simple
<1>3. Len(p) \in Nat /\ DOMAIN p = 1..Len(p)
  BY <1>2, LenProperties
<1>4. DOMAIN cells = {p[i] : i \in DOMAIN p}
  BY <1>2, <1>3 DEF Linked, CellsOf
<1>5. last = IF p = <<>> THEN NoCell ELSE p[Len(p)]
  <2>1. p = <<>> <=> Len(p) = 0
    BY <1>2, EmptySeq
  <2>2. Len(p) \in 1..Len(p) <=> Len(p) # 0
    BY <1>3
  <2>3. QED
    BY <1>2, <2>1, <2>2 DEF At
<1>6. ASSUME user # "taken"
      PROVE  Len(Backward) = Len(p) /\ \A i \in DOMAIN p : Backward[i] = p[Len(p) + 1 - i]
  <2>1. Mirrored(cells, p)
    BY <1>2, <1>6
  <2>2. From(At(p, Len(p)), [a \in DOMAIN cells |-> cells[a].prev]) = Reversed(p)
    BY <2>1, BackwardFollows
  <2>3. Backward = Reversed(p)
    BY <1>2, <2>2 DEF Backward
  <2>4. PICK n \in Nat : n = Len(p)
    BY <1>3
  <2>5. PICK r : r = Reversed(p) /\ r = [i \in 1..n |-> p[n + 1 - i]]
    BY <2>4 DEF Reversed
  <2>6. \A i \in 1..n : p[n + 1 - i] \in Address
    <3>1. \A i \in 1..n : n + 1 - i \in 1..n
      OBVIOUS
    <3>2. QED
      BY <1>2, <2>4, <3>1, ElementOfSeq
  <2>7. Len(r) = n
    BY <2>5, <2>6, LenProperties
  <2>8. QED
    BY <1>3, <2>3, <2>4, <2>5, <2>7
<1>7. QED
  BY <1>1, <1>2, <1>4, <1>5, <1>6 DEF LinksMatch

\* The links of every list that is still changed are mirror images, no cell is lost or
\* freed twice, and the length is right, however many cells there are.
THEOREM LinksAreMirrored == ListsSpec => []LinksMatch
<1>1. ListsInv => LinksMatch
  BY InvLinksMatch
<1>2. QED
  BY <1>1, ListsKeepInv, PTL

\* The operations of list.c implement those of a sequence: for whoever applies the list
\* forward, each step adds or takes one value at the right place, or frees all.
THEOREM ListsImplementSequences == ListsSpec => ListsAreSequences
<1>1. ListsInit => Sequence!Init
  BY ListsStart
<1>2. ListsInv /\ [ListsNext]_listVars => [Sequence!Next]_ListApply
  BY ListsStep
<1>3. QED
  BY <1>1, <1>2, ListsKeepInv, PTL DEF ListsSpec, ListsAreSequences, Sequence!Spec

(***************************************************************************)
(* HASH MAPS                                                               *)
(***************************************************************************)

(***************************************************************************)
(* Slots                                                                   *)
(***************************************************************************)
InUse(s)  == {i \in 1..Len(s) : s[i].used}
Has(s, k) == \E i \in InUse(s) : s[i].key = k
\* ... with value v
Says(s, k, v) == \E i \in InUse(s) : s[i].key = k /\ s[i].data = v

\* Slot i is one where key k may be, with those before it taken if that is asked for
Reached(s, k, i, taken) ==
  \E m \in 1..ChainLength : /\ Chain(k, Len(s))[m] = i
                            /\ taken => \A j \in 1..m - 1 : s[Chain(k, Len(s))[j]].used
Rooted(s)   == \A i \in InUse(s) : Reached(s, s[i].key, i, FALSE)
Gapless(s)  == \A i \in InUse(s) : Reached(s, s[i].key, i, TRUE)
Distinct(s) == \A i, j \in InUse(s) : s[i].key = s[j].key => i = j

\* A table: its elements are where they are looked for, and are not more than its size.
Good(t) ==
  /\ t \in Tables /\ Len(t.slots) \in Nat /\ Len(t.slots) >= InitialSize
  /\ Rooted(t.slots) /\ Cardinality(InUse(t.slots)) <= t.size
\* Its size is exact.
Exact(t) == Cardinality(InUse(t.slots)) = t.size

\* A chain stays within the table.
LEMMA ChainFacts ==
  ASSUME NEW k \in Keys, NEW n \in Nat, n >= InitialSize
  PROVE  /\ n > 0 /\ DOMAIN Chain(k, n) = 1..ChainLength
         /\ \A m \in 1..ChainLength : Chain(k, n)[m] \in 1..n
         /\ ChainLength \in Nat /\ InitialSize \in Nat \ {0}
<1>1. InitialSize \in Nat /\ InitialSize > 0 /\ ChainLength \in Nat
  BY HashAssumption
<1>2. n > 0 /\ n \in Int
  BY <1>1
<1>3. Hash[k] \in Nat
  BY HashAssumption
<1>4. ASSUME NEW m \in 1..ChainLength
      PROVE  Chain(k, n)[m] \in 1..n
  <2>1. PICK x : x = Hash[k] + m - 1 /\ x \in Nat
    BY <1>1, <1>3
  <2>2. x % n \in 0..n - 1
    BY <1>2, <2>1
  <2>3. 1 + (x % n) \in 1..n
    BY <1>2, <2>2
  <2>4. QED
    BY <2>1, <2>3 DEF Chain
<1>5. QED
  BY <1>1, <1>2, <1>4 DEF Chain

\* A slot is empty or an entry.
LEMMA SlotFacts ==
  ASSUME NEW s \in Seq(Slot)
  PROVE  /\ Len(s) \in Nat /\ DOMAIN s = 1..Len(s) /\ InUse(s) \in SUBSET (1..Len(s)) /\ IsFiniteSet(InUse(s))
         /\ Cardinality(InUse(s)) \in Nat
         /\ \A i \in 1..Len(s) : /\ s[i] \in Slot
                                 /\ s[i].used => s[i] \in Entries /\ i \in InUse(s)
                                 /\ ~s[i].used => i \notin InUse(s)
<1>1. Len(s) \in Nat /\ DOMAIN s = 1..Len(s)
  BY LenProperties
<1>2. InUse(s) \in SUBSET (1..Len(s))
  BY DEF InUse
<1>3. IsFiniteSet(InUse(s)) /\ Cardinality(InUse(s)) \in Nat
  <2>1. IsFiniteSet(1..Len(s))
    BY <1>1, FS_Interval
  <2>2. IsFiniteSet(InUse(s))
    BY <1>2, <2>1, FS_Subset
  <2>3. QED
    BY <2>2, FS_CardinalityType
<1>4. ASSUME NEW i \in 1..Len(s)
      PROVE  /\ s[i] \in Slot
             /\ s[i].used => s[i] \in Entries /\ i \in InUse(s)
             /\ ~s[i].used => i \notin InUse(s)
  <2>1. s[i] \in Slot
    BY ElementOfSeq
  <2>2. s[i] = Empty \/ s[i] \in Entries
    BY <2>1 DEF Slot
  <2>3. s[i].used => s[i] \in Entries
    BY <2>2 DEF Empty
  <2>4. QED
    BY <2>1, <2>3 DEF InUse
<1>5. QED
  BY <1>1, <1>2, <1>3, <1>4

\* An empty table.
LEMMA EmptyTableFacts ==
  ASSUME NEW n \in Nat
  PROVE  /\ EmptyTable(n) \in Tables /\ Len(EmptyTable(n).slots) = n /\ EmptyTable(n).size = 0
         /\ InUse(EmptyTable(n).slots) = {} /\ Cardinality(InUse(EmptyTable(n).slots)) = 0
         /\ Distinct(EmptyTable(n).slots) /\ Gapless(EmptyTable(n).slots)
         /\ n >= InitialSize => Good(EmptyTable(n))
<1>1. PICK s : s = [i \in 1..n |-> Empty]
  OBVIOUS
<1>2. s \in Seq(Slot) /\ Len(s) = n
  <2>1. s \in [1..n -> Slot] /\ DOMAIN s = 1..n
    BY <1>1 DEF Slot
  <2>2. s \in Seq(Slot)
    BY <2>1, SeqDef
  <2>3. QED
    BY <2>1, <2>2, LenProperties
<1>3. EmptyTable(n) = [slots |-> s, size |-> 0]
  BY <1>1 DEF EmptyTable
<1>4. PICK t : t = EmptyTable(n) /\ t.slots = s /\ t.size = 0
  BY <1>3
<1>5. t \in Tables
  BY <1>2, <1>3, <1>4 DEF Tables
<1>6. InUse(s) = {}
  BY <1>1, <1>2 DEF InUse, Empty
<1>7. Cardinality(InUse(s)) = 0
  BY <1>6, FS_EmptySet
<1>8. Distinct(s) /\ Gapless(s) /\ Rooted(s)
  BY <1>6 DEF Distinct, Gapless, Rooted
<1>9. n >= InitialSize => Good(t)
  BY <1>2, <1>4, <1>5, <1>7, <1>8 DEF Good
<1>10. QED
  BY <1>2, <1>4, <1>5, <1>6, <1>7, <1>8, <1>9

\* No table is good that has no slots.
LEMMA StuckFacts == Stuck \in Tables /\ ~Good(Stuck)
<1>1. Stuck \in Tables /\ Len(Stuck.slots) = 0
  BY EmptyTableFacts DEF Stuck
<1>2. InitialSize \in Nat /\ InitialSize > 0
  BY HashAssumption
<1>3. QED
  BY <1>1, <1>2 DEF Good

(***************************************************************************)
(* Putting                                                                 *)
(***************************************************************************)
\* r says what t says, but of e's key what e says.
Told(t, e, r) ==
  \A k \in Keys, v \in Values :
    Says(r.slots, k, v) <=> IF k = e.key THEN v = e.data ELSE Says(t.slots, k, v)
\* Table r is what putting e in table t leaves: where t has no two slots for a key, and e's key
\* is new or no slot was emptied, r has no two either, and says what it should.
Puts(t, e, r) ==
  /\ Good(r)
  /\ Distinct(t.slots) /\ (Gapless(t.slots) \/ ~Has(t.slots, e.key)) =>
       /\ Distinct(r.slots) /\ Told(t, e, r)
       /\ ~Has(t.slots, e.key) /\ Exact(t) => Exact(r)
       /\ Gapless(t.slots) => Gapless(r.slots)

\* The place of a key: the first slot of its chain that is empty or its own.
LEMMA PlaceFacts ==
  ASSUME NEW t, Good(t), NEW k \in Keys, ~Full(t, k)
  PROVE  /\ Place(t, k) \in 1..Len(t.slots)
         /\ ~t.slots[Place(t, k)].used \/ Holds(t.slots[Place(t, k)], k)
         /\ Reached(t.slots, k, Place(t, k), TRUE)
         /\ Gapless(t.slots) /\ Distinct(t.slots) => \A i \in InUse(t.slots) : t.slots[i].key = k => i = Place(t, k)
<1>1. PICK s, n : s = t.slots /\ s \in Seq(Slot) /\ n = Len(s) /\ n \in Nat /\ n >= InitialSize
  BY DEF Good, Tables
<1>2. PICK chain : /\ chain = Chain(k, n) /\ \A m \in 1..ChainLength : chain[m] \in 1..n
                   /\ ChainLength \in Nat
  BY <1>1, ChainFacts
<1>3. PICK U : U = {i \in 1..ChainLength : ~s[chain[i]].used \/ Holds(s[chain[i]], k)} /\ U = Usable(t, k)
  BY <1>1, <1>2 DEF Usable
<1>4. U \in SUBSET Nat /\ U # {}
  <2>1. Usable(t, k) # {}
    BY DEF Full
  <2>2. U \subseteq Nat
    BY <1>3
  <2>3. QED
    BY <1>3, <2>1, <2>2
<1>5. PICK m : m = (CHOOSE i \in U : \A j \in U : i <= j)
  OBVIOUS
<1>6. m \in U /\ \A j \in U : m <= j
  <2>1. \E i \in U : \A j \in U : i <= j
    BY <1>4, LeastNatural
  <2>2. QED
    BY <1>5, <2>1
<1>7. Place(t, k) = chain[m]
  BY <1>1, <1>2, <1>3, <1>5 DEF Place
<1>8. m \in 1..ChainLength /\ (~s[chain[m]].used \/ Holds(s[chain[m]], k)) /\ chain[m] \in 1..n
  BY <1>2, <1>3, <1>6
<1>9. \A j \in 1..m - 1 : s[chain[j]].used /\ ~Holds(s[chain[j]], k)
  <2>1. ASSUME NEW j \in 1..m - 1
        PROVE  j \in 1..ChainLength /\ j \notin U
    BY <1>2, <1>6, <1>8
  <2>2. QED
    BY <1>3, <2>1
<1>10. Reached(s, k, chain[m], TRUE)
  BY <1>1, <1>2, <1>8, <1>9 DEF Reached
<1>11. ASSUME Gapless(s), Distinct(s), NEW i \in InUse(s), s[i].key = k
       PROVE  i = chain[m]
  <2>1. PICK x \in 1..ChainLength : chain[x] = i /\ \A j \in 1..x - 1 : s[chain[j]].used
    BY <1>1, <1>2, <1>11 DEF Gapless, Reached
  <2>2. s[i].used
    BY <1>11 DEF InUse
  <2>3. x \in U
    BY <1>3, <1>11, <2>1, <2>2 DEF Holds
  <2>4. m <= x
    BY <1>6, <2>3
  <2>5. s[chain[m]].used
    <3>1. CASE m = x
      BY <2>1, <2>2, <3>1
    <3>2. CASE m # x
      <4>1. m \in 1..x - 1
        BY <1>2, <1>8, <2>4, <3>2
      <4>2. QED
        BY <2>1, <4>1
    <3>3. QED
      BY <3>1, <3>2
  <2>6. chain[m] \in InUse(s) /\ s[chain[m]].key = k
    BY <1>1, <1>8, <2>5 DEF InUse, Holds
  <2>7. QED
    BY <1>11, <2>6 DEF Distinct
<1>12. QED
  BY <1>1, <1>7, <1>8, <1>10, <1>11

\* Putting where there is room.
LEMMA PlacedFacts ==
  ASSUME NEW t, Good(t), NEW e \in Entries, ~Full(t, e.key)
  PROVE  Puts(t, e, Placed(t, e))
<1>1. PICK s, n : s = t.slots /\ s \in Seq(Slot) /\ n = Len(s) /\ n \in Nat /\ n >= InitialSize
  BY DEF Good, Tables
<1>2. PICK k, p : k = e.key /\ p = Place(t, k) /\ k \in Keys /\ e.used /\ e.data \in Values
  BY DEF Entries
<1>3. /\ p \in 1..n /\ (~s[p].used \/ Holds(s[p], k)) /\ Reached(s, k, p, TRUE)
      /\ Gapless(s) /\ Distinct(s) => \A i \in InUse(s) : s[i].key = k => i = p
  BY <1>1, <1>2, PlaceFacts
<1>4. PICK u : u = [s EXCEPT ![p] = e]
  OBVIOUS
<1>5. PICK r : /\ r = Placed(t, e) /\ r = [slots |-> u, size |-> t.size + 1]
               /\ r.slots = u /\ r.size = t.size + 1
  <2>1. [t.slots EXCEPT ![Place(t, e.key)] = e] = u
    BY <1>1, <1>2, <1>4
  <2>2. Placed(t, e) = [slots |-> u, size |-> t.size + 1]
    BY <2>1 DEF Placed
  <2>3. QED
    BY <2>2
<1>6. /\ u \in Seq(Slot) /\ Len(u) = n /\ u[p] = e /\ \A i \in 1..n : i # p => u[i] = s[i]
  <2>1. s \in [1..n -> Slot] /\ e \in Slot
    BY <1>1, LenProperties DEF Slot
  <2>2. u \in [1..n -> Slot] /\ DOMAIN u = 1..n
    BY <1>4, <2>1
  <2>3. u \in Seq(Slot)
    BY <1>1, <2>2, SeqDef
  <2>4. u[p] = e /\ \A i \in 1..n : i # p => u[i] = s[i]
    BY <1>3, <1>4, <2>1
  <2>5. QED
    BY <1>1, <2>2, <2>3, <2>4, LenProperties
<1>7. InUse(u) = InUse(s) \cup {p}
  BY <1>1, <1>2, <1>3, <1>6 DEF InUse
<1>8. /\ Cardinality(InUse(u)) <= Cardinality(InUse(s)) + 1
      /\ Cardinality(InUse(s)) \in Nat /\ Cardinality(InUse(u)) \in Nat
      /\ p \notin InUse(s) => Cardinality(InUse(u)) = Cardinality(InUse(s)) + 1
  <2>1. IsFiniteSet(InUse(s)) /\ Cardinality(InUse(s)) \in Nat
    BY <1>1, SlotFacts
  <2>2. Cardinality(InUse(u)) = IF p \in InUse(s) THEN Cardinality(InUse(s)) ELSE Cardinality(InUse(s)) + 1
    BY <1>7, <2>1, FS_AddElement
  <2>3. QED
    BY <2>1, <2>2
<1>9. t.size \in Nat /\ Cardinality(InUse(s)) <= t.size
  BY <1>1 DEF Good, Tables
<1>10. \A i \in 1..n : s[i].used => u[i].used
  BY <1>2, <1>6
<1>11. \A j \in Keys, i \in 1..n, taken \in BOOLEAN : Reached(s, j, i, taken) => Reached(u, j, i, taken)
  <2>1. ASSUME NEW j \in Keys, NEW i \in 1..n, NEW taken \in BOOLEAN, Reached(s, j, i, taken)
        PROVE  Reached(u, j, i, taken)
    <3>1. PICK chain : chain = Chain(j, n) /\ \A m \in 1..ChainLength : chain[m] \in 1..n /\ ChainLength \in Nat
      BY <1>1, ChainFacts
    <3>2. PICK m \in 1..ChainLength : chain[m] = i /\ (taken => \A x \in 1..m - 1 : s[chain[x]].used)
      BY <1>1, <2>1, <3>1 DEF Reached
    <3>3. \A x \in 1..m - 1 : x \in 1..ChainLength
      BY <3>1, <3>2
    <3>4. taken => \A x \in 1..m - 1 : u[chain[x]].used
      BY <1>10, <3>1, <3>2, <3>3
    <3>5. QED
      BY <1>6, <3>1, <3>2, <3>4 DEF Reached
  <2>2. QED
    BY <2>1
<1>12. Reached(u, k, p, TRUE) /\ Reached(u, k, p, FALSE)
  <2>1. Reached(u, k, p, TRUE)
    BY <1>2, <1>3, <1>11
  <2>2. QED
    BY <2>1 DEF Reached
<1>13. \A i \in InUse(s) : i \in 1..n /\ s[i].key \in Keys /\ s[i].data \in Values
  BY <1>1, SlotFacts DEF Entries, InUse
<1>14. Rooted(u)
  <2>1. ASSUME NEW i \in InUse(u)
        PROVE  Reached(u, u[i].key, i, FALSE)
    <3>1. CASE i = p
      BY <1>2, <1>6, <1>12, <3>1
    <3>2. CASE i # p
      <4>1. i \in InUse(s) /\ u[i] = s[i]
        BY <1>6, <1>7, <1>13, <2>1, <3>2
      <4>2. Reached(s, s[i].key, i, FALSE)
        BY <1>1, <4>1 DEF Good, Rooted
      <4>3. QED
        BY <1>11, <1>13, <4>1, <4>2
    <3>3. QED
      BY <3>1, <3>2
  <2>2. QED
    BY <2>1 DEF Rooted
<1>15. Good(r)
  <2>1. r \in Tables
    BY <1>5, <1>6, <1>9 DEF Tables
  <2>2. Cardinality(InUse(u)) <= t.size + 1
    BY <1>8, <1>9
  <2>3. QED
    BY <1>1, <1>5, <1>6, <1>14, <2>1, <2>2 DEF Good
<1>16. ASSUME Distinct(s), Gapless(s) \/ ~Has(s, k)
       PROVE  /\ \A i \in InUse(s) : s[i].key = k => i = p
              /\ Distinct(u) /\ Told(t, e, r)
              /\ ~Has(s, k) /\ Exact(t) => Exact(r)
              /\ Gapless(s) => Gapless(u)
  <2>1. \A i \in InUse(s) : s[i].key = k => i = p
    BY <1>3, <1>16 DEF Has
  <2>2. \A i \in InUse(u) : i = p \/ (i \in InUse(s) /\ u[i] = s[i] /\ i # p /\ s[i].key # k)
    BY <1>6, <1>7, <1>13, <2>1
  <2>3. Distinct(u)
    BY <1>2, <1>6, <1>16, <2>2 DEF Distinct
  <2>4. ASSUME NEW j \in Keys, NEW v \in Values
        PROVE  Says(u, j, v) <=> IF j = e.key THEN v = e.data ELSE Says(s, j, v)
    <3>1. CASE j = k
      <4>1. Says(u, j, v) => v = e.data
        BY <1>2, <1>6, <2>2, <3>1 DEF Says
      <4>2. v = e.data => Says(u, j, v)
        BY <1>2, <1>6, <1>7, <3>1 DEF Says
      <4>3. QED
        BY <1>2, <3>1, <4>1, <4>2
    <3>2. CASE j # k
      <4>1. Says(u, j, v) => Says(s, j, v)
        BY <1>2, <1>6, <2>2, <3>2 DEF Says
      <4>2. ASSUME NEW i \in InUse(s), s[i].key = j, s[i].data = v
            PROVE  i \in InUse(u) /\ u[i] = s[i]
        <5>1. i # p
          <6>1. s[i].used
            BY DEF InUse
          <6>2. QED
            BY <1>3, <3>2, <4>2, <6>1 DEF Holds
        <5>2. QED
          BY <1>6, <1>7, <1>13, <4>2, <5>1
      <4>3. Says(s, j, v) => Says(u, j, v)
        BY <4>2 DEF Says
      <4>4. QED
        BY <1>2, <3>2, <4>1, <4>3
    <3>3. QED
      BY <3>1, <3>2
  <2>5. Told(t, e, r)
    BY <1>1, <1>5, <2>4 DEF Told
  <2>6. ~Has(s, k) /\ Exact(t) => Exact(r)
    <3>1. ASSUME ~Has(s, k), Exact(t)
          PROVE  Exact(r)
      <4>1. p \notin InUse(s)
        BY <1>3, <3>1 DEF Has, InUse, Holds
      <4>2. QED
        BY <1>1, <1>5, <1>8, <3>1, <4>1 DEF Exact
    <3>2. QED
      BY <3>1
  <2>7. Gapless(s) => Gapless(u)
    <3>1. ASSUME Gapless(s), NEW i \in InUse(u)
          PROVE  Reached(u, u[i].key, i, TRUE)
      <4>1. CASE i = p
        BY <1>2, <1>6, <1>12, <4>1
      <4>2. CASE i # p
        <5>1. i \in InUse(s) /\ u[i] = s[i]
          BY <2>2, <3>1, <4>2
        <5>2. Reached(s, s[i].key, i, TRUE)
          BY <3>1, <5>1 DEF Gapless
        <5>3. QED
          BY <1>11, <1>13, <5>1, <5>2
      <4>3. QED
        BY <4>1, <4>2
    <3>2. QED
      BY <3>1 DEF Gapless
  <2>8. QED
    BY <2>1, <2>3, <2>5, <2>6, <2>7
<1>17. QED
  BY <1>1, <1>2, <1>5, <1>15, <1>16 DEF Puts

\* What stands for a put: it puts, or is stuck, and stays stuck.
PutFunctions == [Tables -> [Entries -> Tables]]
PutOK(put) ==
  /\ put \in PutFunctions
  /\ \A e \in Entries : put[Stuck][e] = Stuck
  /\ \A t \in Tables, e \in Entries : Good(t) => put[t][e] = Stuck \/ Puts(t, e, put[t][e])

\* The tables of a refill, from one slot to the next
Refills(f, put, from, t) ==
  /\ f \in [0..Len(from) -> Tables] /\ f[0] = t
  /\ \A i \in 1..Len(from) : f[i] = IF from[i].used THEN put[f[i - 1]][from[i]] ELSE f[i - 1]

\* There are such tables, and the last is what a refill gives.
LEMMA RefilledIs ==
  ASSUME NEW put \in PutFunctions, NEW from \in Seq(Slot), NEW t \in Tables
  PROVE  \E f : Refills(f, put, from, t) /\ Refilled(put, from, t) = f[Len(from)]
<1> DEFINE A(f) == f = [i \in 0..Len(from) |->
                          IF i = 0 THEN t
                          ELSE IF from[i].used THEN put[f[i - 1]][from[i]] ELSE f[i - 1]]
           step == [i \in 1..Len(from) |->
                      [x \in Tables |-> IF from[i].used THEN put[x][from[i]] ELSE x]]
<1>1. Len(from) \in Nat /\ \A i \in 1..Len(from) : from[i].used => from[i] \in Entries
  BY SlotFacts
<1>2. AreSteps(step, Len(from), Tables)
  <2>1. \A i \in 1..Len(from), x \in Tables : (IF from[i].used THEN put[x][from[i]] ELSE x) \in Tables
    BY <1>1 DEF PutFunctions
  <2>2. QED
    BY <2>1 DEF AreSteps
<1> HIDE DEF step
<1>3. PICK f : Unfolds(f, Len(from), Tables, t, step)
  BY <1>1, <1>2, RecursiveFunction
<1>4. f \in [0..Len(from) -> Tables] /\ f[0] = t
  BY <1>3 DEF Unfolds
<1>5. ASSUME NEW i \in 1..Len(from)
      PROVE  f[i] = IF from[i].used THEN put[f[i - 1]][from[i]] ELSE f[i - 1]
  <2>1. i - 1 \in 0..Len(from)
    BY <1>1
  <2>2. f[i - 1] \in Tables
    BY <1>4, <2>1
  <2>3. f[i] = step[i][f[i - 1]]
    BY <1>3 DEF Unfolds
  <2>4. QED
    BY <2>2, <2>3 DEF step
<1>6. A(f)
  BY <1>1, <1>4, <1>5
<1>7. PICK g : g = (CHOOSE h : A(h)) /\ A(g)
  BY <1>6
<1>8. Refilled(put, from, t) = g[Len(from)]
  BY <1>7 DEF Refilled
<1>a. g[0] = t /\ \A i \in 1..Len(from) : g[i] = IF from[i].used THEN put[g[i - 1]][from[i]] ELSE g[i - 1]
  <2>1. 0 \in 0..Len(from) /\ \A i \in 1..Len(from) : i \in 0..Len(from) /\ i # 0
    BY <1>1
  <2>2. QED
    BY <1>7, <2>1
<1>9. g = f
  <2>1. \A i \in 0..Len(from) : i \in {j \in 0..Len(from) : g[j] = f[j]}
    <3> DEFINE P == {j \in 0..Len(from) : g[j] = f[j]}
    <3>1. 0 \in P
      BY <1>1, <1>4, <1>a
    <3>2. ASSUME NEW k \in 0..Len(from) - 1, k \in P
          PROVE  k + 1 \in P
      <4>1. k + 1 \in 1..Len(from) /\ k + 1 \in 0..Len(from) /\ (k + 1) - 1 = k /\ k + 1 # 0
        BY <1>1
      <4>2. g[k + 1] = IF from[k + 1].used THEN put[g[k]][from[k + 1]] ELSE g[k]
        BY <1>a, <4>1
      <4>3. f[k + 1] = IF from[k + 1].used THEN put[f[k]][from[k + 1]] ELSE f[k]
        BY <1>5, <4>1
      <4>4. g[k] = f[k]
        BY <3>2
      <4>5. QED
        BY <4>1, <4>2, <4>3, <4>4
    <3> HIDE DEF P
    <3>3. \A k \in 0..Len(from) - 1 : k \in P => k + 1 \in P
      BY <3>2
    <3>4. QED
      <4>1. \A k \in 0..Len(from) : k \in P
        BY <1>1, <3>1, <3>3, UpTo
      <4>2. QED
        BY <4>1 DEF P
  <2>2. \A i \in 0..Len(from) : g[i] = f[i]
    BY <2>1
  <2>3. PICK c : g = [i \in 0..Len(from) |-> c[i]]
    <3>1. g = [i \in 0..Len(from) |-> IF i = 0 THEN t ELSE IF from[i].used THEN put[g[i - 1]][from[i]] ELSE g[i - 1]]
      BY <1>7
    <3>2. g = [i \in 0..Len(from) |-> g[i]]
      BY <3>1
    <3>3. QED
      BY <3>2
  <2>4. QED
    BY <1>4, <2>2, <2>3
<1>10. QED
  BY <1>4, <1>5, <1>8, <1>9 DEF Refills

\* An empty table that is refilled says what the slots said.
LEMMA RefilledFacts ==
  ASSUME NEW put, PutOK(put), NEW from \in Seq(Slot), NEW n \in Nat, n >= InitialSize,
         NEW r, r = Refilled(put, from, EmptyTable(n)), r # Stuck
  PROVE  /\ Good(r)
         /\ Distinct(from) => /\ Distinct(r.slots) /\ Gapless(r.slots) /\ Exact(r)
                              /\ \A k \in Keys, v \in Values : Says(r.slots, k, v) <=> Says(from, k, v)
<1>0. put \in PutFunctions
  BY DEF PutOK
<1>1. PICK f : Refills(f, put, from, EmptyTable(n)) /\ r = f[Len(from)]
  BY <1>0, RefilledIs, EmptyTableFacts
<1>2. Len(from) \in Nat /\ \A i \in 1..Len(from) : from[i].used => from[i] \in Entries /\ i \in InUse(from)
  BY SlotFacts
<1> DEFINE Upto(k, v, i) == \E m \in 1..i : from[m].used /\ from[m].key = k /\ from[m].data = v
           Filled(t, i) == /\ Good(t)
                           /\ Distinct(from) =>
                                /\ Distinct(t.slots) /\ Gapless(t.slots) /\ Exact(t)
                                /\ \A k \in Keys, v \in Values : Says(t.slots, k, v) <=> Upto(k, v, i)
           P == {i \in 0..Len(from) : f[i] = Stuck \/ Filled(f[i], i)}
<1>3. 0 \in P
  <2>1. f[0] = EmptyTable(n)
    BY <1>1 DEF Refills
  <2>2. PICK t : t = EmptyTable(n)
    OBVIOUS
  <2>3. Good(t) /\ Distinct(t.slots) /\ Gapless(t.slots) /\ Exact(t) /\ InUse(t.slots) = {}
    BY <2>2, EmptyTableFacts DEF Exact
  <2>4. \A k \in Keys, v \in Values : Says(t.slots, k, v) <=> Upto(k, v, 0)
    BY <2>3 DEF Says
  <2>5. QED
    BY <1>2, <2>1, <2>2, <2>3, <2>4
<1>4. ASSUME NEW i \in 0..Len(from) - 1, i \in P
      PROVE  i + 1 \in P
  <2>1. i + 1 \in 1..Len(from) /\ i + 1 \in 0..Len(from) /\ (i + 1) - 1 = i /\ i \in 0..Len(from) /\ i \in Nat
    BY <1>2
  <2>2. PICK t : t = f[i] /\ t \in Tables /\ (t = Stuck \/ Filled(t, i))
    BY <1>1, <1>4, <2>1 DEF Refills
  <2>3. PICK u : u = f[i + 1] /\ u = IF from[i + 1].used THEN put[t][from[i + 1]] ELSE t
    BY <1>1, <2>1, <2>2 DEF Refills
  <2>a. ASSUME u = Stuck \/ Filled(u, i + 1)
        PROVE  i + 1 \in P
    <3> HIDE DEF Filled
    <3>1. QED
      BY <2>1, <2>3, <2>a
  <2>4. CASE ~from[i + 1].used
    <3>1. u = t
      BY <2>3, <2>4
    <3>2. \A k, v : Upto(k, v, i + 1) <=> Upto(k, v, i)
      <4>1. \A m \in 1..i + 1 : m \in 1..i \/ m = i + 1
        BY <2>1
      <4>2. \A m \in 1..i : m \in 1..i + 1
        BY <2>1
      <4>3. QED
        BY <2>4, <4>1, <4>2
    <3>3. ASSUME Filled(t, i)
          PROVE  Filled(t, i + 1)
      <4>1. Good(t) /\ (Distinct(from) => Distinct(t.slots) /\ Gapless(t.slots) /\ Exact(t))
        BY <3>3
      <4>2. Distinct(from) => \A k \in Keys, v \in Values : Says(t.slots, k, v) <=> Upto(k, v, i)
        BY <3>3
      <4>3. Distinct(from) => \A k \in Keys, v \in Values : Says(t.slots, k, v) <=> Upto(k, v, i + 1)
        <5> HIDE DEF Upto
        <5>1. QED
          BY <3>2, <4>2
      <4>4. QED
        BY <4>1, <4>3
    <3>4. QED
      <4> HIDE DEF Filled
      <4>1. QED
        BY <2>2, <2>a, <3>1, <3>3
  <2>5. CASE from[i + 1].used
    <3>1. PICK e : e = from[i + 1] /\ e \in Entries /\ e.used /\ i + 1 \in InUse(from)
      BY <1>2, <2>1, <2>5
    <3>2. u = put[t][e]
      BY <2>3, <2>5, <3>1
    <3>3. CASE t = Stuck
      <4>1. u = Stuck
        BY <3>1, <3>2, <3>3 DEF PutOK
      <4>2. QED
        BY <2>a, <4>1
    <3>4. CASE t # Stuck
      <4>1. Filled(t, i) /\ Good(t)
        BY <2>2, <3>4
      <4>2. u = Stuck \/ Puts(t, e, u)
        BY <2>2, <3>1, <3>2, <4>1 DEF PutOK
      <4>3. CASE Puts(t, e, u)
        <5>1. Good(u)
          BY <4>3 DEF Puts
        <5>2. ASSUME Distinct(from)
              PROVE  /\ Distinct(u.slots) /\ Gapless(u.slots) /\ Exact(u)
                     /\ \A k \in Keys, v \in Values : Says(u.slots, k, v) <=> Upto(k, v, i + 1)
          <6>1. /\ Distinct(t.slots) /\ Gapless(t.slots) /\ Exact(t)
                /\ \A k \in Keys, v \in Values : Says(t.slots, k, v) <=> Upto(k, v, i)
            BY <4>1, <5>2
          <6>2. \A m \in 1..i : ~(from[m].used /\ from[m].key = e.key)
            <7>1. ASSUME NEW m \in 1..i, from[m].used, from[m].key = e.key
                  PROVE  FALSE
              <8>1. m \in 1..Len(from) /\ m # i + 1
                BY <1>2, <2>1
              <8>2. m \in InUse(from)
                BY <1>2, <7>1, <8>1
              <8>3. m = i + 1
                BY <3>1, <5>2, <7>1, <8>2 DEF Distinct
              <8>4. QED
                BY <8>1, <8>3
            <7>2. QED
              BY <7>1
          <6>3. ~Has(t.slots, e.key)
            <7>1. ASSUME NEW j \in InUse(t.slots), t.slots[j].key = e.key
                  PROVE  FALSE
              <8>1. t.slots[j].data \in Values /\ e.key \in Keys
                <9>1. t.slots \in Seq(Slot)
                  BY <4>1 DEF Good, Tables
                <9>2. t.slots[j] \in Entries
                  BY <7>1, <9>1, SlotFacts DEF InUse
                <9>3. QED
                  BY <3>1, <9>2 DEF Entries
              <8>2. Says(t.slots, e.key, t.slots[j].data)
                BY <7>1 DEF Says
              <8>3. Upto(e.key, t.slots[j].data, i)
                BY <6>1, <8>1, <8>2
              <8>4. QED
                BY <6>2, <8>3
            <7>2. QED
              BY <7>1 DEF Has
          <6>4. Distinct(u.slots) /\ Gapless(u.slots) /\ Exact(u) /\ Told(t, e, u)
            BY <4>3, <6>1, <6>3 DEF Puts
          <6>5. ASSUME NEW k \in Keys, NEW v \in Values
                PROVE  Says(u.slots, k, v) <=> Upto(k, v, i + 1)
            <7>1. Says(u.slots, k, v) <=> IF k = e.key THEN v = e.data ELSE Upto(k, v, i)
              BY <6>1, <6>4 DEF Told
            <7>2. \A m \in 1..i + 1 : m \in 1..i \/ m = i + 1
              BY <2>1
            <7>3. \A m \in 1..i : m \in 1..i + 1
              BY <2>1
            <7>4. i + 1 \in 1..i + 1
              BY <2>1
            <7>5. Upto(k, v, i + 1) <=> Upto(k, v, i) \/ (k = e.key /\ v = e.data)
              BY <3>1, <7>2, <7>3, <7>4
            <7>6. k = e.key => ~Upto(k, v, i)
              BY <6>2
            <7>7. QED
              BY <7>1, <7>5, <7>6
          <6>6. QED
            BY <6>4, <6>5
        <5>3. Filled(u, i + 1)
          BY <5>1, <5>2
        <5>4. QED
          BY <2>a, <5>3
      <4>4. CASE u = Stuck
        BY <2>a, <4>4
      <4>5. QED
        BY <4>2, <4>3, <4>4
    <3>5. QED
      BY <3>3, <3>4
  <2>6. QED
    BY <2>4, <2>5
<1> HIDE DEF P
<1>5. \A i \in 0..Len(from) - 1 : i \in P => i + 1 \in P
  BY <1>4
<1>6. \A i \in 0..Len(from) : i \in P
  BY <1>2, <1>3, <1>5, UpTo
<1>7. Len(from) \in P
  BY <1>2, <1>6
<1>8. Filled(r, Len(from))
  BY <1>1, <1>7 DEF P
<1>9. \A k, v : Upto(k, v, Len(from)) <=> Says(from, k, v)
  <2>1. \A m \in 1..Len(from) : from[m].used <=> m \in InUse(from)
    BY DEF InUse
  <2>2. InUse(from) \subseteq 1..Len(from)
    BY DEF InUse
  <2>3. QED
    BY <2>1, <2>2 DEF Says
<1>10. QED
  BY <1>8, <1>9

\* A put that grows the table puts, if the puts into the larger one do.
LEMMA PutOrGrowFacts ==
  ASSUME NEW put, PutOK(put), NEW t, Good(t), NEW e \in Entries, NEW r, r = PutOrGrow(put, t, e), r # Stuck
  PROVE  Puts(t, e, r)
<1>1. PICK s, n : s = t.slots /\ s \in Seq(Slot) /\ n = Len(s) /\ n \in Nat /\ n >= InitialSize
  BY DEF Good, Tables
<1>2. t # Stuck
  BY StuckFacts
<1>3. e.key \in Keys
  BY DEF Entries
<1>4. CASE ~Full(t, e.key)
  <2>1. r = Placed(t, e)
    BY <1>2, <1>4 DEF PutOrGrow
  <2>2. QED
    BY <1>4, <2>1, PlacedFacts
<1>5. CASE Full(t, e.key)
  <2>1. PICK u : u = Refilled(put, s, EmptyTable(2 * n)) /\ r = put[u][e]
    BY <1>1, <1>2, <1>5 DEF PutOrGrow
  <2>2. u # Stuck
    BY <2>1 DEF PutOK
  <2>3. 2 * n \in Nat /\ 2 * n >= InitialSize
    BY <1>1, HashAssumption
  <2>4. PICK m : m = 2 * n /\ m \in Nat /\ m >= InitialSize /\ u = Refilled(put, s, EmptyTable(m))
    BY <2>1, <2>3
  <2>5. /\ Good(u)
        /\ Distinct(s) => /\ Distinct(u.slots) /\ Gapless(u.slots) /\ Exact(u)
                          /\ \A k \in Keys, v \in Values : Says(u.slots, k, v) <=> Says(s, k, v)
    BY <1>1, <2>2, <2>4, RefilledFacts
  <2>6. Puts(u, e, r)
    <3>1. u \in Tables
      BY <2>5 DEF Good
    <3>2. QED
      BY <2>1, <2>5, <3>1 DEF PutOK
  <2>7. ASSUME Distinct(s)
        PROVE  /\ Distinct(r.slots) /\ Told(t, e, r) /\ Gapless(r.slots)
               /\ ~Has(s, e.key) => Exact(r)
    <3>1. Distinct(u.slots) /\ Gapless(u.slots) /\ Exact(u)
      BY <2>5, <2>7
    <3>2. Distinct(r.slots) /\ Told(u, e, r) /\ Gapless(r.slots) /\ (~Has(u.slots, e.key) => Exact(r))
      BY <2>6, <3>1 DEF Puts
    <3>3. \A k \in Keys, v \in Values : Says(u.slots, k, v) <=> Says(s, k, v)
      BY <2>5, <2>7
    <3>4. Told(t, e, r)
      BY <1>1, <3>2, <3>3 DEF Told
    <3>5. Has(u.slots, e.key) => Has(s, e.key)
      <4>1. ASSUME NEW i \in InUse(u.slots), u.slots[i].key = e.key
            PROVE  Has(s, e.key)
        <5>1. u.slots \in Seq(Slot)
          BY <2>5 DEF Good, Tables
        <5>2. u.slots[i].data \in Values
          BY <4>1, <5>1, SlotFacts DEF InUse, Entries
        <5>3. Says(u.slots, e.key, u.slots[i].data)
          BY <4>1 DEF Says
        <5>4. Says(s, e.key, u.slots[i].data)
          BY <1>3, <3>3, <5>2, <5>3
        <5>5. QED
          BY <5>4 DEF Says, Has
      <4>2. QED
        BY <4>1 DEF Has
    <3>6. QED
      BY <3>2, <3>4, <3>5
  <2>8. Good(r)
    BY <2>6 DEF Puts
  <2>9. QED
    BY <1>1, <2>7, <2>8 DEF Puts
<1>6. QED
  BY <1>4, <1>5

\* The type of what a put gives.
LEMMA PutOrGrowType ==
  ASSUME NEW put \in PutFunctions, NEW t \in Tables, NEW e \in Entries
  PROVE  PutOrGrow(put, t, e) \in Tables
<1>1. PICK s, n : s = t.slots /\ s \in Seq(Slot) /\ n = Len(s) /\ n \in Nat
  BY DEF Tables
<1>2. Placed(t, e) \in Tables
  <2>1. s \in [1..n -> Slot] /\ e \in Slot
    BY <1>1, LenProperties DEF Slot
  <2>2. PICK p, u : p = Place(t, e.key) /\ u = [s EXCEPT ![p] = e]
    OBVIOUS
  <2>3. u \in [1..n -> Slot]
    BY <2>1, <2>2
  <2>4. u \in Seq(Slot)
    BY <1>1, <2>3, SeqDef
  <2>5. t.size + 1 \in Nat
    BY DEF Tables
  <2>6. Placed(t, e) = [slots |-> u, size |-> t.size + 1]
    BY <1>1, <2>2 DEF Placed
  <2>7. QED
    BY <2>4, <2>5, <2>6 DEF Tables
<1>3. put[Refilled(put, s, EmptyTable(2 * n))][e] \in Tables
  <2>1. 2 * n \in Nat
    BY <1>1
  <2>2. PICK b : b = EmptyTable(2 * n) /\ b \in Tables
    BY <2>1, EmptyTableFacts
  <2>3. PICK f : Refills(f, put, s, b) /\ Refilled(put, s, b) = f[Len(s)]
    BY <1>1, <2>2, RefilledIs
  <2>4. n \in 0..n
    BY <1>1
  <2>5. f[n] \in Tables
    BY <1>1, <2>3, <2>4 DEF Refills
  <2>6. QED
    BY <1>1, <2>2, <2>3, <2>5 DEF PutFunctions
<1>4. Stuck \in Tables
  BY StuckFacts
<1>5. QED
  BY <1>1, <1>2, <1>3, <1>4 DEF PutOrGrow

\* The puts of every depth
IsPuts(puts) ==
  puts = [d \in 0..MaxDoublings + 1 |->
            [t \in Tables |-> [e \in Entries |->
               IF d = 0 THEN Stuck ELSE PutOrGrow(puts[d - 1], t, e)]]]

\* Put is what the code's put is, and puts, or is stuck.
LEMMA PutIsOK == PutOK(Put)
<1>1. PICK n : n = MaxDoublings + 1 /\ n \in Nat
  BY HashAssumption
<1> DEFINE step == [d \in 1..n |-> [p \in PutFunctions |-> [t \in Tables |-> [e \in Entries |-> PutOrGrow(p, t, e)]]]]
           none == [t \in Tables |-> [e \in Entries |-> Stuck]]
<1>2. none \in PutFunctions
  BY StuckFacts DEF PutFunctions
<1>3. AreSteps(step, n, PutFunctions)
  <2>1. \A p \in PutFunctions : [t \in Tables |-> [e \in Entries |-> PutOrGrow(p, t, e)]] \in PutFunctions
    BY PutOrGrowType DEF PutFunctions
  <2>2. QED
    BY <2>1 DEF AreSteps
<1> HIDE DEF step
<1>4. PICK f : Unfolds(f, n, PutFunctions, none, step)
  BY <1>1, <1>2, <1>3, RecursiveFunction
<1>5. f \in [0..n -> PutFunctions] /\ f[0] = none
  BY <1>4 DEF Unfolds
<1>6. ASSUME NEW d \in 1..n
      PROVE  f[d] = [t \in Tables |-> [e \in Entries |-> PutOrGrow(f[d - 1], t, e)]]
  <2>1. d - 1 \in 0..n
    BY <1>1
  <2>2. f[d - 1] \in PutFunctions
    BY <1>5, <2>1
  <2>3. f[d] = step[d][f[d - 1]]
    BY <1>4 DEF Unfolds
  <2>4. QED
    BY <2>2, <2>3 DEF step
<1>7. IsPuts(f)
  <2>1. ASSUME NEW d \in 0..n
        PROVE  f[d] = [t \in Tables |-> [e \in Entries |-> IF d = 0 THEN Stuck ELSE PutOrGrow(f[d - 1], t, e)]]
    <3>1. CASE d = 0
      BY <1>5, <3>1
    <3>2. CASE d # 0
      <4>1. d \in 1..n
        BY <1>1, <3>2
      <4>2. QED
        BY <1>6, <3>2, <4>1
    <3>3. QED
      BY <3>1, <3>2
  <2>2. QED
    BY <1>1, <1>5, <2>1 DEF IsPuts
<1>8. PICK g : g = (CHOOSE h : IsPuts(h)) /\ IsPuts(g)
  BY <1>7
<1>9. Put = g[n]
  BY <1>1, <1>8 DEF Put, IsPuts
<1>10. /\ g[0] = none
       /\ \A d \in 1..n : g[d] = [t \in Tables |-> [e \in Entries |-> PutOrGrow(g[d - 1], t, e)]]
  <2>1. 0 \in 0..n /\ \A d \in 1..n : d \in 0..n /\ d # 0
    BY <1>1
  <2>2. g = [d \in 0..n |-> [t \in Tables |-> [e \in Entries |-> IF d = 0 THEN Stuck ELSE PutOrGrow(g[d - 1], t, e)]]]
    BY <1>1, <1>8 DEF IsPuts
  <2>3. g[0] = none
    BY <2>1, <2>2
  <2>4. ASSUME NEW d \in 1..n
        PROVE  g[d] = [t \in Tables |-> [e \in Entries |-> PutOrGrow(g[d - 1], t, e)]]
    BY <2>1, <2>2
  <2>5. QED
    BY <2>3, <2>4
<1> DEFINE P == {d \in 0..n : PutOK(g[d])}
<1>11. 0 \in P
  <2>1. PutOK(none)
    BY <1>2, StuckFacts DEF PutOK
  <2>2. QED
    BY <1>1, <1>10, <2>1
<1>12. ASSUME NEW d \in 0..n - 1, d \in P
       PROVE  d + 1 \in P
  <2>1. d + 1 \in 1..n /\ d + 1 \in 0..n /\ (d + 1) - 1 = d
    BY <1>1
  <2>2. PICK p : p = g[d] /\ PutOK(p) /\ p \in PutFunctions
    BY <1>12 DEF PutOK
  <2>3. PICK q : q = g[d + 1] /\ q = [t \in Tables |-> [e \in Entries |-> PutOrGrow(p, t, e)]]
    <3>1. PICK c : c = d + 1 /\ c \in 1..n /\ g[c - 1] = p
      BY <2>1, <2>2
    <3>2. g[c] = [t \in Tables |-> [e \in Entries |-> PutOrGrow(g[c - 1], t, e)]]
      BY <1>10, <3>1
    <3>3. g[c] = [t \in Tables |-> [e \in Entries |-> PutOrGrow(p, t, e)]]
      BY <3>1, <3>2
    <3>4. QED
      BY <3>1, <3>3
  <2>4. q \in PutFunctions
    <3>1. \A t \in Tables, e \in Entries : PutOrGrow(p, t, e) \in Tables
      BY <2>2, PutOrGrowType
    <3>2. QED
      BY <2>3, <3>1 DEF PutFunctions
  <2>5. \A t \in Tables, e \in Entries : q[t][e] = PutOrGrow(p, t, e)
    BY <2>3
  <2>6. \A e \in Entries : q[Stuck][e] = Stuck
    BY <2>5, StuckFacts DEF PutOrGrow
  <2>7. \A t \in Tables, e \in Entries : Good(t) => q[t][e] = Stuck \/ Puts(t, e, q[t][e])
    BY <2>2, <2>5, PutOrGrowFacts
  <2>8. PutOK(q)
    BY <2>4, <2>6, <2>7 DEF PutOK
  <2>9. QED
    BY <2>1, <2>3, <2>8
<1> HIDE DEF P
<1>13. \A d \in 0..n - 1 : d \in P => d + 1 \in P
  BY <1>12
<1>14. \A d \in 0..n : d \in P
  BY <1>1, <1>11, <1>13, UpTo
<1>15. n \in P
  BY <1>1, <1>14
<1>16. QED
  BY <1>9, <1>15 DEF P

(***************************************************************************)
(* The invariant: the table is good; until a key has been put over itself  *)
(* in a table that another was removed from, its elements are those of the *)
(* map, each once; nothing but removing leaves a gap before an element;    *)
(* and nothing but putting over a key makes the size too large.            *)
(***************************************************************************)
Answers == \A k \in Keys, v \in Values : Says(slots, k, v) <=> k \in DOMAIN map /\ map[k] = v
MapInv ==
  /\ Good(Table) /\ happened \subseteq {"removed", "replaced"}
  /\ DOMAIN map \subseteq Keys /\ \A k \in DOMAIN map : map[k] \in Values
  /\ happened # {"removed", "replaced"} => Distinct(slots) /\ Answers
  /\ "removed" \notin happened => Gapless(slots)
  /\ "replaced" \notin happened => Exact(Table)

\* A key is found if a slot holds it, and where it is.
LEMMA FoundFacts ==
  ASSUME Good(Table), NEW k \in Keys
  PROVE  /\ Found(k) # {} <=> Has(slots, k)
         /\ Found(k) # {} => FirstFound(k) \in InUse(slots) /\ slots[FirstFound(k)].key = k
<1>1. PICK n : slots \in Seq(Slot) /\ n = Len(slots) /\ n \in Nat /\ n >= InitialSize /\ Rooted(slots)
  BY DEF Good, Tables, Table
<1>2. PICK chain : /\ chain = Chain(k, n) /\ \A m \in 1..ChainLength : chain[m] \in 1..n
                   /\ ChainLength \in Nat
  BY <1>1, ChainFacts
<1>3. PICK F : F = {i \in 1..ChainLength : Holds(slots[chain[i]], k)} /\ F = Found(k)
  BY <1>1, <1>2 DEF Found
<1>4. \A i \in F : chain[i] \in InUse(slots) /\ slots[chain[i]].key = k
  BY <1>1, <1>2, <1>3 DEF Holds, InUse
<1>5. F # {} => Has(slots, k)
  BY <1>4 DEF Has
<1>6. Has(slots, k) => F # {}
  <2>1. ASSUME NEW i \in InUse(slots), slots[i].key = k
        PROVE  F # {}
    <3>1. Reached(slots, k, i, FALSE)
      BY <1>1, <2>1 DEF Rooted
    <3>2. PICK m \in 1..ChainLength : chain[m] = i
      BY <1>1, <1>2, <3>1 DEF Reached
    <3>3. Holds(slots[chain[m]], k)
      BY <2>1, <3>2 DEF Holds, InUse
    <3>4. QED
      BY <1>3, <3>2, <3>3
  <2>2. QED
    BY <2>1 DEF Has
<1>7. ASSUME F # {}
      PROVE  FirstFound(k) \in InUse(slots) /\ slots[FirstFound(k)].key = k
  <2>1. F \in SUBSET Nat
    BY <1>2, <1>3
  <2>2. PICK m : m = (CHOOSE i \in F : \A j \in F : i <= j)
    OBVIOUS
  <2>3. m \in F
    <3>1. \E i \in F : \A j \in F : i <= j
      BY <1>7, <2>1, LeastNatural
    <3>2. QED
      BY <2>2, <3>1
  <2>4. FirstFound(k) = chain[m]
    BY <1>1, <1>2, <1>3, <2>2 DEF FirstFound
  <2>5. QED
    BY <1>4, <2>3, <2>4
<1>8. QED
  BY <1>3, <1>5, <1>6, <1>7

\* Putting: of a key that was not found, or over it.
LEMMA InsertStep ==
  ASSUME MapInv, NEW k \in Keys, NEW v \in Values, PutNew(k, v) \/ Replace(k, v)
  PROVE  MapInv'
<1>1. /\ Good(Table) /\ happened \subseteq {"removed", "replaced"} /\ DOMAIN map \subseteq Keys
      /\ \A j \in DOMAIN map : map[j] \in Values
  BY DEF MapInv
<1>2. PICK e, t : /\ e = Entry(k, v) /\ e \in Entries /\ e.key = k /\ e.data = v
                  /\ t = Put[Table][e] /\ t # Stuck /\ slots' = t.slots /\ size' = t.size
                  /\ map' = [j \in DOMAIN map \cup {k} |-> IF j = k THEN v ELSE map[j]]
  <2>1. Insert(k, v)
    BY DEF PutNew, Replace
  <2>2. PICK e : e = Entry(k, v) /\ e \in Entries /\ e.key = k /\ e.data = v
    <3>1. Entry(k, v) \in Entries /\ Entry(k, v).key = k /\ Entry(k, v).data = v
      BY DEF Entry, Entries
    <3>2. QED
      BY <3>1
  <2>3. PICK t : t = Put[Table][e] /\ t # Stuck /\ slots' = t.slots /\ size' = t.size
    BY <2>1, <2>2 DEF Insert
  <2>4. map' = [j \in DOMAIN map \cup {k} |-> IF j = k THEN v ELSE map[j]]
    BY <2>1 DEF Insert
  <2>5. QED
    BY <2>2, <2>3, <2>4
<1>3. Puts(Table, e, t)
  <2>1. Table \in Tables
    BY <1>1 DEF Good
  <2>2. QED
    BY <1>1, <1>2, <2>1, PutIsOK DEF PutOK
<1>4. Good(t) /\ Good(Table)' /\ Table' = t
  <2>1. Good(t) /\ t \in Tables
    BY <1>3 DEF Puts, Good
  <2>2. t = [slots |-> t.slots, size |-> t.size]
    BY <2>1 DEF Tables
  <2>3. Table' = t
    BY <1>2, <2>2 DEF Table
  <2>4. QED
    BY <2>1, <2>3
<1>5. DOMAIN map' = DOMAIN map \cup {k} /\ DOMAIN map' \subseteq Keys /\ \A j \in DOMAIN map' : map'[j] \in Values
  BY <1>1, <1>2
<1>6. Table.slots = slots
  BY DEF Table
<1>7. ASSUME Distinct(slots), Answers, Gapless(slots) \/ ~Has(slots, k)
      PROVE  /\ Distinct(t.slots) /\ Answers'
             /\ ~Has(slots, k) /\ Exact(Table) => Exact(t)
             /\ Gapless(slots) => Gapless(t.slots)
  <2>1. /\ Distinct(t.slots) /\ Told(Table, e, t)
        /\ ~Has(slots, k) /\ Exact(Table) => Exact(t)
        /\ Gapless(slots) => Gapless(t.slots)
    BY <1>2, <1>3, <1>6, <1>7 DEF Puts
  <2>2. ASSUME NEW j \in Keys, NEW w \in Values
        PROVE  Says(t.slots, j, w) <=> j \in DOMAIN map' /\ map'[j] = w
    <3>1. Says(t.slots, j, w) <=> IF j = k THEN w = v ELSE Says(slots, j, w)
      BY <1>2, <1>6, <2>1 DEF Told
    <3>2. Says(slots, j, w) <=> j \in DOMAIN map /\ map[j] = w
      BY <1>7 DEF Answers
    <3>3. j \in DOMAIN map' => map'[j] = IF j = k THEN v ELSE map[j]
      BY <1>2
    <3>4. QED
      BY <1>5, <3>1, <3>2, <3>3
  <2>3. Answers'
    BY <1>2, <2>2 DEF Answers
  <2>4. QED
    BY <2>1, <2>3
<1>8. CASE PutNew(k, v)
  <2>1. ~Has(slots, k) /\ happened' = happened
    BY <1>1, <1>8, FoundFacts DEF PutNew
  <2>2. happened # {"removed", "replaced"} => Distinct(t.slots) /\ Answers' /\ (Exact(Table) => Exact(t))
    BY <1>7, <2>1 DEF MapInv
  <2>3. "removed" \notin happened => Gapless(t.slots)
    <3>1. ASSUME "removed" \notin happened
          PROVE  Gapless(t.slots)
      <4>1. happened # {"removed", "replaced"}
        BY <3>1
      <4>2. Distinct(slots) /\ Answers /\ Gapless(slots)
        BY <3>1, <4>1 DEF MapInv
      <4>3. QED
        BY <1>7, <4>2
    <3>2. QED
      BY <3>1
  <2>4. "replaced" \notin happened => Exact(t)
    <3>1. "replaced" \notin happened => happened # {"removed", "replaced"}
      OBVIOUS
    <3>2. QED
      BY <2>2, <3>1 DEF MapInv
  <2>5. happened' # {"removed", "replaced"} => Distinct(slots') /\ Answers'
    BY <1>2, <2>1, <2>2
  <2>6. QED
    BY <1>1, <1>2, <1>4, <1>5, <2>1, <2>3, <2>4, <2>5 DEF MapInv, Exact
<1>9. CASE Replace(k, v)
  <2>1. happened' = happened \cup {"replaced"}
    BY <1>9 DEF Replace
  <2>2. happened' \subseteq {"removed", "replaced"} /\ "replaced" \in happened'
    BY <1>1, <2>1
  <2>3. ASSUME "removed" \notin happened
        PROVE  Distinct(t.slots) /\ Answers' /\ Gapless(t.slots)
    <3>1. happened # {"removed", "replaced"}
      BY <2>3
    <3>2. Distinct(slots) /\ Answers /\ Gapless(slots)
      BY <2>3, <3>1 DEF MapInv
    <3>3. QED
      BY <1>7, <3>2
  <2>4. happened' # {"removed", "replaced"} => "removed" \notin happened
    BY <1>1, <2>1
  <2>5. "removed" \notin happened' => "removed" \notin happened
    BY <2>1
  <2>6. happened' # {"removed", "replaced"} => Distinct(slots') /\ Answers'
    BY <1>2, <2>3, <2>4
  <2>7. "removed" \notin happened' => Gapless(slots')
    BY <1>2, <2>3, <2>5
  <2>8. QED
    BY <1>4, <1>5, <2>2, <2>6, <2>7 DEF MapInv
<1>10. QED
  BY <1>8, <1>9

\* Removing: the slot where the key is found is emptied, and there is no other.
LEMMA RemoveStep ==
  ASSUME MapInv, NEW k \in Keys, Remove(k)
  PROVE  MapInv'
<1>1. PICK n, r : /\ slots \in Seq(Slot) /\ n = Len(slots) /\ n \in Nat /\ n >= InitialSize /\ Rooted(slots)
                  /\ r = FirstFound(k) /\ r \in InUse(slots) /\ r \in 1..n /\ slots[r].key = k
                  /\ size \in Nat /\ Cardinality(InUse(slots)) <= size
  <2>1. Good(Table) /\ Found(k) # {}
    BY DEF MapInv, Remove
  <2>2. /\ slots \in Seq(Slot) /\ Len(slots) \in Nat /\ Len(slots) >= InitialSize /\ Rooted(slots)
        /\ size \in Nat /\ Cardinality(InUse(slots)) <= size
    BY <2>1 DEF Good, Table, Tables
  <2>3. FirstFound(k) \in InUse(slots) /\ slots[FirstFound(k)].key = k
    BY <2>1, FoundFacts
  <2>4. FirstFound(k) \in 1..Len(slots)
    BY <2>3 DEF InUse
  <2>5. QED
    BY <2>2, <2>3, <2>4
<1>2. PICK s : s = [slots EXCEPT ![r] = Empty] /\ s = slots'
  BY <1>1 DEF Remove
<1>3. size' = size - 1 /\ happened' = happened \cup {"removed"} /\ map' = [j \in DOMAIN map \ {k} |-> map[j]]
  BY DEF Remove
<1>4. s \in Seq(Slot) /\ Len(s) = n /\ DOMAIN slots = 1..n
  <2>1. Empty \in Slot
    BY DEF Slot
  <2>2. QED
    BY <1>1, <1>2, <2>1, ExceptSeq, LenProperties
<1>5. /\ s[r] = Empty /\ ~s[r].used
      /\ \A i \in 1..n : i # r => s[i] = slots[i]
  BY <1>1, <1>2, <1>4 DEF Empty
<1>6. InUse(s) = InUse(slots) \ {r}
  BY <1>1, <1>4, <1>5 DEF InUse
<1>7. /\ Cardinality(InUse(s)) = Cardinality(InUse(slots)) - 1
      /\ Cardinality(InUse(s)) \in Nat /\ Cardinality(InUse(slots)) \in Nat
  <2>1. IsFiniteSet(InUse(slots)) /\ Cardinality(InUse(slots)) \in Nat
    BY <1>1, SlotFacts
  <2>2. Cardinality(InUse(slots) \ {r}) = Cardinality(InUse(slots)) - 1
    BY <1>1, <2>1, FS_RemoveElement
  <2>3. Cardinality(InUse(s)) \in Nat
    BY <1>4, SlotFacts
  <2>4. QED
    BY <1>6, <2>1, <2>2, <2>3
<1>8. size' \in Nat /\ Cardinality(InUse(s)) <= size'
  BY <1>1, <1>3, <1>7
<1>9. Rooted(s)
  <2>1. ASSUME NEW i \in InUse(s)
        PROVE  Reached(s, s[i].key, i, FALSE)
    <3>1. i \in InUse(slots) /\ i \in 1..n /\ i # r
      BY <1>1, <1>6, <2>1 DEF InUse
    <3>2. s[i] = slots[i]
      BY <1>5, <3>1
    <3>3. Reached(slots, slots[i].key, i, FALSE)
      BY <1>1, <3>1 DEF Rooted
    <3>4. QED
      BY <1>1, <1>4, <3>2, <3>3 DEF Reached
  <2>2. QED
    BY <2>1 DEF Rooted
<1>10. Good(Table)' /\ (Exact(Table) => Exact(Table)')
  <2>1. Table' = [slots |-> s, size |-> size'] /\ Table = [slots |-> slots, size |-> size]
    BY <1>2 DEF Table
  <2>2. PICK t : t = Table' /\ t.slots = s /\ t.size = size' /\ t \in Tables
    BY <1>4, <1>8, <2>1 DEF Tables
  <2>3. Len(s) \in Nat /\ Len(s) >= InitialSize
    BY <1>1, <1>4
  <2>4. Good(t)
    BY <1>8, <1>9, <2>2, <2>3 DEF Good
  <2>5. Exact(Table) => Exact(t)
    BY <1>3, <1>7, <2>1, <2>2 DEF Exact
  <2>6. QED
    BY <2>2, <2>4, <2>5 DEF Exact
<1>11. /\ DOMAIN map' = DOMAIN map \ {k} /\ \A j \in DOMAIN map' : map'[j] = map[j]
       /\ DOMAIN map' \subseteq Keys /\ \A j \in DOMAIN map' : map'[j] \in Values
  <2>1. DOMAIN map \subseteq Keys /\ \A j \in DOMAIN map : map[j] \in Values
    BY DEF MapInv
  <2>2. QED
    BY <1>3, <2>1
<1>12. ASSUME Distinct(slots), Answers
       PROVE  Distinct(s) /\ Answers'
  <2>1. Distinct(s)
    <3>1. \A i \in InUse(s) : i \in InUse(slots) /\ s[i] = slots[i]
      BY <1>1, <1>5, <1>6 DEF InUse
    <3>2. QED
      BY <1>12, <3>1 DEF Distinct
  <2>2. ASSUME NEW j \in Keys, NEW w \in Values
        PROVE  Says(s, j, w) <=> j \in DOMAIN map' /\ map'[j] = w
    <3>1. Says(slots, j, w) <=> j \in DOMAIN map /\ map[j] = w
      BY <1>12 DEF Answers
    <3>2. Says(s, j, w) <=> \E i \in InUse(slots) : i # r /\ slots[i].key = j /\ slots[i].data = w
      <4>1. \A i \in InUse(slots) : i # r => s[i] = slots[i]
        BY <1>1, <1>5 DEF InUse
      <4>2. QED
        BY <1>6, <4>1 DEF Says
    <3>3. \A i \in InUse(slots) : i # r <=> slots[i].key # k
      BY <1>1, <1>12 DEF Distinct
    <3>4. Says(s, j, w) <=> j # k /\ Says(slots, j, w)
      BY <3>2, <3>3 DEF Says
    <3>5. QED
      BY <1>11, <3>1, <3>4
  <2>3. Answers'
    BY <1>2, <2>2 DEF Answers
  <2>4. QED
    BY <2>1, <2>3
<1>13. happened \subseteq {"removed", "replaced"}
  BY DEF MapInv
<1>14. happened' # {"removed", "replaced"} => Distinct(s) /\ Answers'
  <2>1. happened' # {"removed", "replaced"} => happened # {"removed", "replaced"}
    BY <1>3
  <2>2. happened # {"removed", "replaced"} => Distinct(slots) /\ Answers
    BY DEF MapInv
  <2>3. QED
    BY <1>12, <2>1, <2>2
<1>15. "replaced" \notin happened' => Exact(Table)'
  <2>1. "replaced" \notin happened' => "replaced" \notin happened
    BY <1>3
  <2>2. "replaced" \notin happened => Exact(Table)
    BY DEF MapInv
  <2>3. QED
    BY <1>10, <2>1, <2>2
<1>16. "removed" \in happened' /\ happened' \subseteq {"removed", "replaced"}
  BY <1>3, <1>13
<1>17. QED
  BY <1>2, <1>10, <1>11, <1>14, <1>15, <1>16 DEF MapInv

\* Copying: the new table says what the old one said.
LEMMA CopyStep ==
  ASSUME MapInv, Copy
  PROVE  MapInv'
<1>1. /\ slots \in Seq(Slot) /\ InitialSize \in Nat /\ InitialSize >= InitialSize
      /\ happened \subseteq {"removed", "replaced"} /\ DOMAIN map \subseteq Keys
      /\ \A j \in DOMAIN map : map[j] \in Values
  <2>1. slots \in Seq(Slot)
    BY DEF MapInv, Good, Table, Tables
  <2>2. InitialSize \in Nat
    BY HashAssumption
  <2>3. QED
    BY <2>1, <2>2 DEF MapInv
<1>2. PICK t : /\ t = Refilled(Put, slots, EmptyTable(InitialSize)) /\ t # Stuck
               /\ slots' = t.slots /\ size' = t.size
  BY DEF Copy
<1>3. map' = map /\ happened' = happened
  BY DEF Copy
<1>4. /\ Good(t)
      /\ Distinct(slots) => /\ Distinct(t.slots) /\ Gapless(t.slots) /\ Exact(t)
                            /\ \A k \in Keys, v \in Values : Says(t.slots, k, v) <=> Says(slots, k, v)
  BY <1>1, <1>2, PutIsOK, RefilledFacts
<1>5. Table' = t
  <2>1. t \in Tables
    BY <1>4 DEF Good
  <2>2. t = [slots |-> t.slots, size |-> t.size]
    BY <2>1 DEF Tables
  <2>3. QED
    BY <1>2, <2>2 DEF Table
<1>6. Distinct(slots) /\ Answers => Answers'
  <2>1. Distinct(slots) => \A k \in Keys, v \in Values : Says(slots', k, v) <=> Says(slots, k, v)
    BY <1>2, <1>4
  <2>2. QED
    BY <1>3, <2>1 DEF Answers
<1>7. happened # {"removed", "replaced"} => Distinct(slots) /\ Answers
  BY DEF MapInv
<1>8. happened # {"removed", "replaced"} => Distinct(slots') /\ Answers' /\ Gapless(slots') /\ Exact(Table')
  BY <1>2, <1>4, <1>5, <1>6, <1>7
<1>9. Good(Table')
  BY <1>4, <1>5
<1>10. /\ "removed" \notin happened => Gapless(slots')
       /\ "replaced" \notin happened => Exact(Table')
  BY <1>8
<1>11. QED
  BY <1>1, <1>3, <1>8, <1>9, <1>10 DEF MapInv, Exact, Good

\* Whatever a table is put to, it is good, and says what was put in it for as long
\* as it can: put over itself, a key whose chain a removal has left a gap in may
\* have two places (whashmap_put, whashmap_remove, whashmap_copy).
THEOREM MapKeepsInv == MapSpec => []MapInv
<1>1. MapInit => MapInv
  <2>1. SUFFICES ASSUME MapInit
                 PROVE  MapInv
    OBVIOUS
  <2>2. InitialSize \in Nat /\ InitialSize >= InitialSize
    BY HashAssumption
  <2>3. PICK t : t = EmptyTable(InitialSize) /\ slots = t.slots /\ size = 0
    BY <2>1 DEF MapInit
  <2>4. /\ t \in Tables /\ t.size = 0 /\ InUse(t.slots) = {} /\ Cardinality(InUse(t.slots)) = 0
        /\ Distinct(t.slots) /\ Gapless(t.slots) /\ Good(t)
    BY <2>2, <2>3, EmptyTableFacts
  <2>5. t = [slots |-> t.slots, size |-> t.size]
    BY <2>4 DEF Tables
  <2>6. Table = t
    BY <2>3, <2>4, <2>5 DEF Table
  <2>7. map = <<>> /\ happened = {}
    BY <2>1 DEF MapInit
  <2>8. DOMAIN map = {}
    BY <2>7
  <2>9. Answers
    BY <2>3, <2>4, <2>8 DEF Answers, Says
  <2>10. Exact(Table)
    BY <2>4, <2>6 DEF Exact
  <2>11. QED
    BY <2>3, <2>4, <2>6, <2>7, <2>8, <2>9, <2>10 DEF MapInv
<1>2. MapInv /\ [MapNext]_mapVars => MapInv'
  <2>1. SUFFICES ASSUME MapInv, [MapNext]_mapVars
                 PROVE  MapInv'
    OBVIOUS
  <2>2. ASSUME NEW k \in Keys, NEW v \in Values, PutNew(k, v) \/ Replace(k, v)
        PROVE  MapInv'
    BY <2>1, <2>2, InsertStep
  <2>3. ASSUME NEW k \in Keys, Remove(k)
        PROVE  MapInv'
    BY <2>1, <2>3, RemoveStep
  <2>4. CASE Copy
    BY <2>1, <2>4, CopyStep
  <2>5. CASE UNCHANGED mapVars
    <3>1. slots' = slots /\ size' = size /\ map' = map /\ happened' = happened
      BY <2>5 DEF mapVars
    <3>2. Table' = Table /\ (Answers' <=> Answers)
      BY <3>1 DEF Table, Answers
    <3>3. QED
      BY <2>1, <3>1, <3>2 DEF MapInv, Good, Exact
  <2>6. QED
    BY <2>1, <2>2, <2>3, <2>4, <2>5 DEF MapNext
<1>3. QED
  BY <1>1, <1>2, PTL DEF MapSpec

\* What is visited is what is in use: no table with elements is taken for an empty one.
LEMMA VisitedFacts ==
  ASSUME MapInv
  PROVE  /\ Visited = InUse(slots) /\ Occupied = InUse(slots)
         /\ size \in Nat /\ Cardinality(InUse(slots)) \in Nat /\ Cardinality(InUse(slots)) <= size
<1>1. slots \in Seq(Slot) /\ size \in Nat /\ Cardinality(InUse(slots)) <= size
  BY DEF MapInv, Good, Table, Tables
<1>2. /\ DOMAIN slots = 1..Len(slots) /\ IsFiniteSet(InUse(slots))
      /\ Cardinality(InUse(slots)) \in Nat
  BY <1>1, SlotFacts
<1>3. Occupied = InUse(slots)
  BY <1>2 DEF Occupied, InUse
<1>4. size <= 0 => InUse(slots) = {}
  <2>1. size <= 0 => Cardinality(InUse(slots)) = 0
    BY <1>1, <1>2
  <2>2. QED
    BY <1>2, <2>1, FS_EmptySet
<1>5. QED
  BY <1>1, <1>2, <1>3, <1>4 DEF Visited

\* A table answers as the map its users think of, whatever was put in it, removed
\* from it and copied, until a key is put over itself in a table that another was
\* removed from (whashmap_get, whashmap_iterate).
THEOREM TablesAnswerAsMaps == MapSpec => []LooksUpWhatWasPut
<1>1. ASSUME MapInv
      PROVE  LooksUpWhatWasPut
  <2>1. SUFFICES ASSUME happened # {"removed", "replaced"}
                 PROVE  /\ \A k \in Keys : IF k \in DOMAIN map THEN Found(k) # {} /\ Get(k) = map[k]
                                           ELSE Found(k) = {}
                        /\ Cardinality(Visited) = Cardinality(DOMAIN map)
    BY DEF LooksUpWhatWasPut
  <2>2. /\ Good(Table) /\ Distinct(slots) /\ Answers /\ slots \in Seq(Slot)
        /\ DOMAIN map \subseteq Keys /\ \A k \in DOMAIN map : map[k] \in Values
    BY <1>1, <2>1 DEF MapInv, Good, Table, Tables
  <2>3. \A i \in InUse(slots) : slots[i].key \in Keys /\ slots[i].data \in Values
    <3>1. \A i \in InUse(slots) : i \in 1..Len(slots) /\ slots[i].used
      BY DEF InUse
    <3>2. \A i \in InUse(slots) : slots[i] \in Entries
      BY <2>2, <3>1, SlotFacts
    <3>3. QED
      BY <3>2 DEF Entries
  <2>4. \A i \in InUse(slots) : slots[i].key \in DOMAIN map /\ map[slots[i].key] = slots[i].data
    BY <2>2, <2>3 DEF Answers, Says
  <2>5. \A k \in DOMAIN map : \E i \in InUse(slots) : slots[i].key = k
    BY <2>2 DEF Answers, Says
  <2>6. ASSUME NEW k \in Keys
        PROVE  IF k \in DOMAIN map THEN Found(k) # {} /\ Get(k) = map[k] ELSE Found(k) = {}
    <3>1. /\ Found(k) # {} <=> Has(slots, k)
          /\ Found(k) # {} => FirstFound(k) \in InUse(slots) /\ slots[FirstFound(k)].key = k
      BY <2>2, FoundFacts
    <3>2. Has(slots, k) <=> k \in DOMAIN map
      BY <2>4, <2>5 DEF Has
    <3>3. Found(k) # {} => Get(k) = map[k]
      BY <2>4, <3>1 DEF Get
    <3>4. QED
      BY <3>1, <3>2, <3>3
  <2>7. Cardinality(InUse(slots)) = Cardinality(DOMAIN map)
    <3>1. PICK f : f = [i \in InUse(slots) |-> slots[i].key]
      OBVIOUS
    <3>2. f \in [InUse(slots) -> DOMAIN map]
      BY <2>4, <3>1
    <3>3. \A i, j \in InUse(slots) : f[i] = f[j] => i = j
      BY <2>2, <3>1 DEF Distinct
    <3>4. \A k \in DOMAIN map : \E i \in InUse(slots) : f[i] = k
      BY <2>5, <3>1
    <3>5. f \in Bijection(InUse(slots), DOMAIN map)
      BY <3>2, <3>3, <3>4 DEF Bijection, Injection, Surjection, IsInjective
    <3>6. IsFiniteSet(InUse(slots))
      BY <2>2, SlotFacts
    <3>7. QED
      BY <3>5, <3>6, FS_Bijection DEF ExistsBijection
  <2>8. Visited = InUse(slots)
    BY <1>1, VisitedFacts
  <2>9. QED
    BY <2>6, <2>7, <2>8
<1>2. QED
  BY <1>1, MapKeepsInv, PTL

\* The size is never less than the number of elements, and is exact as long as no
\* key is put over itself (whashmap_put counts those too).
THEOREM SizesCount == MapSpec => []SizeCounts
<1>1. ASSUME MapInv
      PROVE  SizeCounts
  <2>1. /\ Occupied = InUse(slots) /\ size \in Nat
        /\ Cardinality(InUse(slots)) \in Nat /\ Cardinality(InUse(slots)) <= size
    BY <1>1, VisitedFacts
  <2>2. "replaced" \notin happened => Cardinality(InUse(slots)) = size
    BY <1>1 DEF MapInv, Exact, Table
  <2>3. QED
    BY <2>1, <2>2 DEF SizeCounts
<1>2. QED
  BY <1>1, MapKeepsInv, PTL
===============================================================================
