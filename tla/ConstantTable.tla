---------------------------- MODULE ConstantTable ----------------------------
(***************************************************************************)
(* The table of constants (src/src/ctable.c) and what refers into it: the  *)
(* heap, local copies of terms (local.c) in clauses and records, compiled  *)
(* code, the names of predicates (module.c), the keys of records           *)
(* (record.c) and the names of functors. All but the heap and the keys of  *)
(* records are counted; what has no count and is not on the heap is        *)
(* collected by garbage_collect_constants.                                 *)
(*                                                                         *)
(* A word is the index of a constant.  Terms are atoms and compounds of    *)
(* one argument; clauses are facts.  Whatever keeps a word also keeps, as  *)
(* history, what the word meant when it was kept.                          *)
(***************************************************************************)
EXTENDS Integers, Sequences, FiniteSets

CONSTANTS
  TableSize,   \* bound: indices ever used at a time
  Names,       \* texts of atoms
  FunctorNames, \* those of functors
  MaxHeap,     \* bound: words on the heap
  MaxKept,     \* bound: local copies at a time
  MaxCount     \* bound: what is acquired is referred to less often than this

ASSUME TableAssumption == TableSize \in Nat

VARIABLES
  CTable,      \* the entries below CNext; CNext is their number
  nextFree,    \* next_free_index
  words,       \* the constants on the heap, oldest first
  predicates,  \* by functor: dynamic or not, clauses, constants of the code
  records,     \* terms that are recorded
  undefined    \* history: abolish has read freed memory, or a predicate that is not there

tableVars == <<CTable, nextFree, words, predicates, records, undefined>>

\* h[1] + ... + h[n]
SumTo(n, h) ==
  LET sum[k \in 0..n] == IF k = 0 THEN 0 ELSE sum[k - 1] + h[k]
  IN  sum[n]

None  == -1
Index == 0..TableSize - 1
CNext == Len(CTable)
AtomEntry(n)    == [type |-> "atom", name |-> n, references |-> 0]
FunctorEntry(n) == [type |-> "functor", name |-> n, references |-> 0]
Tombstone(next) == [type |-> "tombstone", next |-> next]

\* An entry table, with the head of its free list
Store(ct, next) == [ct |-> ct, free |-> next]
Here == Store(CTable, nextFree)
At0(s, i)   == s.ct[i + 1]
Live(s)     == {i \in 0..Len(s.ct) - 1 : At0(s, i).type # "tombstone"}
Update(s, i, e) == [s EXCEPT !.ct[i + 1] = e]

\* What a word stands for: a text, or a text with an arity
Meaning(s, i) ==
  IF i \notin Live(s) THEN <<"deleted">>
  ELSE IF At0(s, i).type = "atom" THEN <<"atom", At0(s, i).name>>
  ELSE IF At0(s, i).name \in Live(s) /\ At0(s, At0(s, i).name).type = "atom"
         THEN <<"functor", At0(s, At0(s, i).name).name>>
         ELSE <<"deleted">>
Keep(s, i) == [word |-> i, means |-> Meaning(s, i)]

\* What a word on the heap is said to mean once its atom went with a functor
Lost == <<"lost">>

(***************************************************************************)
(* Counting.  Each operator takes and returns a Store.                     *)
(***************************************************************************)
acquire_constant(s, i) == Update(s, i, [At0(s, i) EXCEPT !.references = @ + 1])
release_constant(s, i) == Update(s, i, [At0(s, i) EXCEPT !.references = @ - 1])

\* One word after the other, a word that occurs twice twice
ForAll(op(_, _), s, ws) ==
  LET each[n \in 0..Len(ws)] == IF n = 0 THEN s ELSE op(each[n - 1], ws[n])
  IN  each[Len(ws)]
acquireAll(s, ws) == ForAll(acquire_constant, s, ws)
releaseAll(s, ws) == ForAll(release_constant, s, ws)

(***************************************************************************)
(* Interning and deleting                                                  *)
(***************************************************************************)
SameConstant(e, f) == e.type = f.type /\ e.type # "tombstone" /\ e.name = f.name
Interned(s, e) == {i \in Live(s) : SameConstant(At0(s, i), e)}

\* allocate_ctable_index: the head of the free list, or the next index
allocate_ctable_index(s) == IF s.free # None THEN s.free ELSE Len(s.ct)

\* Mutation of Added: the entry stays on the free list
AddedStillFree(s, e) ==
  IF s.free # None
    THEN [Update(s, s.free, e) EXCEPT !.free = s.free]
    ELSE [s EXCEPT !.ct = Append(@, e)]

\* A new entry
Added(s, e) ==
  IF s.free # None
    THEN [Update(s, s.free, e) EXCEPT !.free = At0(s, s.free).next]
    ELSE [s EXCEPT !.ct = Append(@, e)]

\* intern: an equal constant, or a new one
intern(s, e) ==
  IF Interned(s, e) # {} THEN [s |-> s, word |-> CHOOSE i \in Interned(s, e) : TRUE]
  ELSE [s |-> Added(s, e), word |-> allocate_ctable_index(s)]

MAKE_ATOM(s, n) == intern(s, AtomEntry(n))

\* Mutation of MAKE_FUNCTOR: the name is not acquired
MakeFunctorOnly(s, name) == intern(s, FunctorEntry(name))

\* A new functor acquires its name
MAKE_FUNCTOR(s, name) ==
  LET f == intern(s, FunctorEntry(name))
  IN  IF Interned(s, FunctorEntry(name)) # {} THEN f
      ELSE [f EXCEPT !.s = acquire_constant(f.s, name)]

Bury(s, i) == [Update(s, i, Tombstone(s.free)) EXCEPT !.free = i]

\* delete_constant: a functor releases its name, and deletes it if that was the
\* last reference
delete_constant(s, i) ==
  IF At0(s, i).type = "atom" THEN Bury(s, i)
  ELSE LET name == At0(s, i).name
           r    == release_constant(s, name)
       IN  IF At0(r, name).references = 0 THEN Bury(Bury(r, name), i) ELSE Bury(r, i)

(***************************************************************************)
(* The owners of words                                                     *)
(***************************************************************************)
WordsOf(kept) == [k \in DOMAIN kept |-> kept[k].word]

\* copy_local, free_local: the constants of the copy are acquired, and released
copy_local(s, kept) == acquireAll(s, WordsOf(kept))
free_local(s, kept) == releaseAll(s, WordsOf(kept))

\* The terms on the heap: an atom, or a functor and the atom it is applied to.  A
\* word that no longer means what it did is not used again.
Means(w) == Meaning(Here, w.word) = w.means
AtomsOnHeap == {k \in DOMAIN words : words[k].means[1] = "atom" /\ Means(words[k])}
HeapTerms ==
  {<<words[k]>> : k \in AtomsOnHeap}
  \cup {<<words[k], words[k + 1]>> :
          k \in {j \in 1..Len(words) - 1 :
                   words[j].means[1] = "functor" /\ Means(words[j]) /\ Means(words[j + 1])}}
Compounds == {t \in HeapTerms : Len(t) = 2}

\* assemble: the constants of the code of facts are their arguments, each once for
\* each clause; they are acquired
CodeOf(clauses) == [k \in DOMAIN clauses |-> clauses[k].term[2]]
assemble(s, clauses) == acquireAll(s, WordsOf(CodeOf(clauses)))
free_clauses(s, code) == releaseAll(s, WordsOf(code))

Predicate(dynamic, clauses, code) == [dynamic |-> dynamic, clauses |-> clauses, code |-> code]
Clause(term, times) == [term |-> term, times |-> times]

KeptCopies ==
  Cardinality(records)
  + SumTo(TableSize, [n \in 1..TableSize |->
            IF n - 1 \in DOMAIN predicates THEN Len(predicates[n - 1].clauses) ELSE 0])

\* A term may be copied: there is room for it
MayCopy(t) == KeptCopies < MaxKept /\ \A k \in DOMAIN t : At0(Here, t[k].word).references < MaxCount

Become(s) == CTable' = s.ct /\ nextFree' = s.free
Define(f, p) == [g \in DOMAIN predicates \cup {f} |-> IF g = f THEN p ELSE predicates[g]]

\* The predicate of functor f, and the name it acquires when it is new
Known(f) == f \in DOMAIN predicates
NamedFor(s, f) == IF Known(f) THEN s ELSE acquire_constant(s, f)
Old(f, dynamic) == IF Known(f) THEN predicates[f] ELSE Predicate(dynamic, <<>>, <<>>)

(***************************************************************************)
(* Actions                                                                 *)
(***************************************************************************)
TableInit ==
  /\ CTable = <<>> /\ nextFree = None /\ words = <<>>
  /\ predicates = <<>> /\ records = {} /\ undefined = FALSE

\* The program, or the reader, makes a term on the heap
MakeAtom(n) ==
  LET a == MAKE_ATOM(Here, n)
  IN  /\ Len(words) < MaxHeap
      /\ Len(a.s.ct) <= TableSize
      /\ Become(a.s)
      /\ words' = Append(words, Keep(a.s, a.word))
      /\ UNCHANGED <<predicates, records, undefined>>

MakeCompound(n, argument) ==
  LET name == MAKE_ATOM(Here, n)
      f    == MAKE_FUNCTOR(name.s, name.word)
      a    == MAKE_ATOM(f.s, argument)
  IN  /\ Len(words) + 2 <= MaxHeap
      /\ Len(a.s.ct) <= TableSize
      /\ Become(a.s)
      /\ words' = words \o <<Keep(a.s, f.word), Keep(a.s, a.word)>>
      /\ UNCHANGED <<predicates, records, undefined>>

\* H is moved back
ShrinkHeap ==
  /\ words # <<>>
  /\ \E n \in 0..Len(words) - 1 : words' = SubSeq(words, 1, n)
  /\ UNCHANGED <<CTable, nextFree, predicates, records, undefined>>

\* add_clause, while consulting: the clause is copied, which acquires its
\* constants, and they are acquired once more
AddClause(t) ==
  LET f == t[1].word
      p == Old(f, FALSE)
  IN  /\ MayCopy(t)
      /\ Become(NamedFor(copy_local(copy_local(Here, t), t), f))
      /\ predicates' = Define(f, [p EXCEPT !.clauses = Append(@, Clause(t, 2))])
      /\ UNCHANGED <<words, records, undefined>>

\* get_predicate_code: clauses that were consulted are compiled when called
CompileOnCall(f) ==
  /\ predicates[f].code = <<>> /\ predicates[f].clauses # <<>>
  /\ Become(assemble(Here, predicates[f].clauses))
  /\ predicates' = Define(f, [predicates[f] EXCEPT !.code = CodeOf(predicates[f].clauses)])
  /\ UNCHANGED <<words, records, undefined>>

\* asserta and assertz: the old code is freed and all clauses are compiled again.
\* If the predicate is static the copy is freed again, and nothing has changed.
AssertClause(t, atEnd) ==
  LET f == t[1].word
      p == Old(f, TRUE)
      c == Clause(t, 1)
      clauses == IF atEnd THEN Append(p.clauses, c) ELSE <<c>> \o p.clauses
  IN  /\ p.dynamic
      /\ MayCopy(t)
      /\ Become(assemble(free_clauses(NamedFor(copy_local(Here, t), f), p.code), clauses))
      /\ predicates' = Define(f, Predicate(TRUE, clauses, CodeOf(clauses)))
      /\ UNCHANGED <<words, records, undefined>>

\* set_dynamic, by a directive
SetDynamic(f) ==
  /\ Known(f) /\ ~predicates[f].dynamic
  /\ predicates' = Define(f, [predicates[f] EXCEPT !.dynamic = TRUE])
  /\ UNCHANGED <<CTable, nextFree, words, records, undefined>>

\* retract: the copy of the k-th clause is freed, though not its constants
RetractClause(f, k) ==
  LET p == predicates[f]
      clauses == SubSeq(p.clauses, 1, k - 1) \o SubSeq(p.clauses, k + 1, Len(p.clauses))
  IN  /\ p.dynamic
      /\ Become(assemble(free_clauses(Here, p.code), clauses))
      /\ predicates' = Define(f, Predicate(TRUE, clauses, CodeOf(clauses)))
      /\ UNCHANGED <<words, records, undefined>>

\* free_predicate walks the copies that abolish has just freed, for the constants to
\* release (module.c:353, 61).  The allocator links the blocks it was given back: what is
\* found in place of a clause is that clause, another one, or nothing (0).
freed_locals(s, clauses, found) ==
  LET each[k \in 0..Len(clauses)] ==
        IF k = 0 THEN s
        ELSE IF found[k] = 0 THEN each[k - 1]
        ELSE free_local(each[k - 1], clauses[found[k]].term)
  IN  each[Len(clauses)]

\* abolish: the predicate goes, though its name stays acquired
Abolish(f) ==
  LET p == predicates[f]
  IN  /\ p.dynamic
      /\ \E found \in [DOMAIN p.clauses -> 0..Len(p.clauses)] :
           Become(free_clauses(freed_locals(Here, p.clauses, found), p.code))
      /\ predicates' = [g \in DOMAIN predicates \ {f} |-> predicates[g]]
      /\ undefined' = (p.clauses # <<>>)
      /\ UNCHANGED <<words, records>>

\* ... and of a predicate that is not there it reads the flags all the same (module.c:350)
AbolishUnknown(name) ==
  LET f == MAKE_FUNCTOR(Here, name)
  IN  /\ ~Known(f.word)
      /\ Len(f.s.ct) <= TableSize
      /\ Become(f.s)
      /\ undefined' = TRUE
      /\ UNCHANGED <<words, predicates, records>>

\* recorda, recordz: the term is copied
Record(t) ==
  /\ MayCopy(t) /\ t \notin records
  /\ Become(copy_local(Here, t))
  /\ records' = records \cup {t}
  /\ UNCHANGED <<words, predicates, undefined>>

\* _erase frees the copy, though not its constants
Erase(r) ==
  /\ records' = records \ {r}
  /\ UNCHANGED <<CTable, nextFree, words, predicates, undefined>>

\* Mutation of OnHeap: atoms on the heap are not looked at
OnHeapFunctors == {words[k].word : k \in {j \in DOMAIN words : words[j].means[1] = "functor"}}
OnHeap == {words[k].word : k \in DOMAIN words}

\* garbage_collect_constants: what was neither counted nor on the heap when the
\* sweep began is deleted, in the order of the table.  A functor takes its name along,
\* if nothing else counts that: atoms on the heap that are this name are lost.
Collect ==
  LET marked == {i \in Live(Here) : At0(Here, i).references = 0} \ OnHeap
      sweep[n \in 0..CNext] ==
        IF n = 0 THEN Here
        ELSE IF n - 1 \in marked /\ n - 1 \in Live(sweep[n - 1])
               THEN delete_constant(sweep[n - 1], n - 1)
               ELSE sweep[n - 1]
      names == {At0(Here, i).name : i \in {j \in marked : At0(Here, j).type = "functor"}}
  IN  /\ Become(sweep[CNext])
      /\ words' = [k \in DOMAIN words |->
                     IF words[k].word \in names \ Live(sweep[CNext])
                       THEN [words[k] EXCEPT !.means = Lost] ELSE words[k]]
      /\ UNCHANGED <<predicates, records, undefined>>

\* What happens after abolish has gone astray is not followed
TableNext ==
  /\ ~undefined
  /\ \/ \E n \in Names : MakeAtom(n) \/ \E f \in FunctorNames : MakeCompound(f, n)
     \/ ShrinkHeap
     \/ \E t \in Compounds :
          AddClause(t) \/ AssertClause(t, TRUE) \/ AssertClause(t, FALSE)
     \/ \E f \in DOMAIN predicates :
          \/ CompileOnCall(f) \/ SetDynamic(f) \/ Abolish(f)
          \/ \E k \in DOMAIN predicates[f].clauses : RetractClause(f, k)
     \/ \E k \in AtomsOnHeap : AbolishUnknown(words[k].word)
     \/ \E t \in HeapTerms : Record(t)
     \/ \E r \in records : Erase(r)
     \/ Collect

TableSpec == TableInit /\ [][TableNext]_tableVars

(***************************************************************************)
(* Properties                                                              *)
(***************************************************************************)
\* The words kept by clauses, code, records and as the names of predicates
ClauseWords(f) ==
  LET p == predicates[f]
  IN  {p.clauses[k].term[1] : k \in DOMAIN p.clauses}
      \cup {p.clauses[k].term[2] : k \in DOMAIN p.clauses}
      \cup {p.code[k] : k \in DOMAIN p.code}
Kept ==
  (UNION {ClauseWords(f) : f \in DOMAIN predicates})
  \cup UNION {{r[k] : k \in DOMAIN r} : r \in records}

\* Nothing in use is deleted: every word a clause, its code, a record or the table of
\* predicates keeps still means what it did, however often the collector ran, and
\* so does every word on the heap, atom or functor, but for one case: an atom that is
\* also the name of a functor goes when the functor is collected, and nothing else
\* counts it (ctable.c:255).  Keys of records are not counted, and are left out.
OnlyGarbageIsDeleted ==
  ~undefined =>
    /\ \A w \in Kept : Means(w)
    /\ \A f \in DOMAIN predicates : Meaning(Here, f)[1] = "functor"
    /\ \A k \in DOMAIN words : words[k].means # Lost => Means(words[k])

\* Every count covers the references that are counted: by copies (twice if consulted),
\* code, predicates and functors.  A count that is too low would free a constant that is
\* in use.
Occurrences(i, kept) == Cardinality({k \in DOMAIN kept : kept[k].word = i})
ReferencesOf(p, i) ==
  SumTo(Len(p.clauses),
        [k \in DOMAIN p.clauses |-> p.clauses[k].times * Occurrences(i, p.clauses[k].term)])
  + Occurrences(i, p.code)
References(i) ==
  SumTo(TableSize, [n \in 1..TableSize |->
          IF n - 1 \in DOMAIN predicates
            THEN ReferencesOf(predicates[n - 1], i) + (IF n - 1 = i THEN 1 ELSE 0)
            ELSE 0])
  + Cardinality({j \in Live(Here) : At0(Here, j).type = "functor" /\ At0(Here, j).name = i})
CountsCover ==
  ~undefined =>
    \A i \in Live(Here) :
      At0(Here, i).references >= References(i)
        + Cardinality({r \in records : \E k \in DOMAIN r : r[k].word = i})

\* The free list goes through the deleted entries, each once, and ends: an index is
\* never given to two constants, and equal constants have one index.
FreeListIsDead ==
  LET dead == (0..CNext - 1) \ Live(Here)
      list[k \in 0..TableSize] ==
        IF k = 0 THEN <<nextFree>>
        ELSE LET last == list[k - 1][Len(list[k - 1])]
             IN  IF last \in dead THEN Append(list[k - 1], At0(Here, last).next) ELSE list[k - 1]
      chain == list[TableSize]
      n == Len(chain) - 1
  IN  ~undefined =>
        /\ chain[n + 1] = None
        /\ {chain[k] : k \in 1..n} = dead /\ n = Cardinality(dead)
        /\ \A i, j \in Live(Here) : SameConstant(At0(Here, i), At0(Here, j)) => i = j
=============================================================================
