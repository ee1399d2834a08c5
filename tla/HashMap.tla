------------------------------- MODULE HashMap -------------------------------
(***************************************************************************)
(* The hash maps: whashmap.c (modules, predicates, records, constants of a *)
(* clause, options), hashmap.c, and bihashmap.c (the constant table).  All *)
(* are tables with open addressing that probe a few slots after the one a  *)
(* key hashes to, and double when those are taken or half of the slots.    *)
(* Removal empties a slot, so that a probe may not stop at an empty one.   *)
(***************************************************************************)
EXTENDS Integers, Sequences, FiniteSets

CONSTANTS
  Keys, Values,
  Hash,         \* the hash codes of the keys
  InitialSize,  \* INITIAL_SIZE
  ChainLength,  \* MAX_CHAIN_LENGTH
  MaxSize,      \* bound: a table that has grown to this size is not put to
  MaxDoublings  \* bound: doublings of a table that follow from one another in a put

ASSUME HashAssumption ==
  /\ Hash \in [Keys -> Nat]
  /\ InitialSize \in Nat \ {0} /\ ChainLength \in 1..InitialSize
  /\ MaxSize \in Nat /\ MaxDoublings \in Nat

VARIABLES slots,    \* m->data: slots[i + 1] is element i
          size,     \* m->size
          map,      \* history: what is in the table, by key
          happened  \* history: whether keys were removed, and were put over themselves

mapVars == <<slots, size, map, happened>>

Empty   == [used |-> FALSE]
Entries == [used : {TRUE}, key : Keys, data : Values]
Slot    == {Empty} \cup Entries
Entry(k, v) == [used |-> TRUE, key |-> k, data |-> v]
\* A table as it is while it is being filled
Tables == [slots : Seq(Slot), size : Nat]
EmptyTable(n) == [slots |-> [i \in 1..n |-> Empty], size |-> 0]
Holds(s, k) == s.used /\ s.key = k

\* The slots a key may be in, in the order they are looked at
Chain(k, n) == [i \in 1..ChainLength |-> 1 + ((Hash[k] + i - 1) % n)]

\* Where key k would go: the first slot of its chain that is empty or its own
Usable(t, k) ==
  LET chain == Chain(k, Len(t.slots))
  IN  {i \in 1..ChainLength : ~t.slots[chain[i]].used \/ Holds(t.slots[chain[i]], k)}

\* whashmap_hash: MAP_FULL
Full(t, k) == t.size >= Len(t.slots) \div 2 \/ Usable(t, k) = {}

Place(t, k) ==
  Chain(k, Len(t.slots))[CHOOSE i \in Usable(t, k) : \A j \in Usable(t, k) : i <= j]

\* whashmap_put, where there is room
Placed(t, e) ==
  [slots |-> [t.slots EXCEPT ![Place(t, e.key)] = e], size |-> t.size + 1]

\* What is in the slots is put in table t, in their order
Refilled(put, from, t) ==
  LET refill[i \in 0..Len(from)] ==
        IF i = 0 THEN t
        ELSE IF from[i].used THEN put[refill[i - 1]][from[i]] ELSE refill[i - 1]
  IN  refill[Len(from)]

\* No table: it would have to double more often than the bound allows
Stuck == EmptyTable(0)

\* whashmap_put, and whashmap_rehash, which puts the elements of the old table in
\* one of twice the size: put is a put that may have to grow that one too
PutOrGrow(put, t, e) ==
  IF t = Stuck THEN Stuck
  ELSE IF ~Full(t, e.key) THEN Placed(t, e)
  ELSE put[Refilled(put, t.slots, EmptyTable(2 * Len(t.slots)))][e]

Put ==
  LET puts[d \in 0..MaxDoublings + 1] ==
        [t \in Tables |-> [e \in Entries |->
           IF d = 0 THEN Stuck ELSE PutOrGrow(puts[d - 1], t, e)]]
  IN  puts[MaxDoublings + 1]

Table == [slots |-> slots, size |-> size]

\* Mutation of Found: an empty slot ends the search
FoundBeforeGap(k) ==
  LET chain == Chain(k, Len(slots))
  IN  {i \in 1..ChainLength : Holds(slots[chain[i]], k) /\ \A j \in 1..i : slots[chain[j]].used}

\* whashmap_get, which looks at the whole chain
Found(k) ==
  LET chain == Chain(k, Len(slots))
  IN  {i \in 1..ChainLength : Holds(slots[chain[i]], k)}
FirstFound(k) == Chain(k, Len(slots))[CHOOSE i \in Found(k) : \A j \in Found(k) : i <= j]
Get(k) == slots[FirstFound(k)].data

\* whashmap_iterate, unless the table is taken to be empty
Occupied == {i \in DOMAIN slots : slots[i].used}
Visited  == IF size <= 0 THEN {} ELSE Occupied

(***************************************************************************)
(* What the users of the tables do                                         *)
(***************************************************************************)
MapInit ==
  /\ slots = EmptyTable(InitialSize).slots /\ size = 0
  /\ map = <<>> /\ happened = {}

Insert(k, v) ==
  /\ Len(slots) < MaxSize
  /\ LET t == Put[Table][Entry(k, v)]
     IN  t # Stuck /\ slots' = t.slots /\ size' = t.size
  /\ map'   = [j \in DOMAIN map \cup {k} |-> IF j = k THEN v ELSE map[j]]

\* Predicates, records and clause constants are put after whashmap_get has missed
PutNew(k, v) ==
  /\ Found(k) = {}
  /\ Insert(k, v)
  /\ UNCHANGED happened

\* Modules, options and predicates defined by the host are put without looking
Replace(k, v) ==
  /\ Found(k) # {}
  /\ Insert(k, v)
  /\ happened' = happened \cup {"replaced"}

\* Mutation of Remove: the size is kept
RemoveKeepingSize(k) ==
  /\ Found(k) # {}
  /\ slots' = [slots EXCEPT ![FirstFound(k)] = Empty]
  /\ map'   = [j \in DOMAIN map \ {k} |-> map[j]]
  /\ happened' = happened \cup {"removed"}
  /\ UNCHANGED size

\* whashmap_remove
Remove(k) ==
  /\ Found(k) # {}
  /\ slots' = [slots EXCEPT ![FirstFound(k)] = Empty]
  /\ size'  = size - 1
  /\ map'   = [j \in DOMAIN map \ {k} |-> map[j]]
  /\ happened' = happened \cup {"removed"}

\* whashmap_copy: put into a new table, in the order of the slots
Copy ==
  /\ size > 0
  /\ LET t == Refilled(Put, slots, EmptyTable(InitialSize))
     IN  t # Stuck /\ slots' = t.slots /\ size' = t.size
  /\ UNCHANGED <<map, happened>>

MapNext ==
  \/ \E k \in Keys, v \in Values : PutNew(k, v) \/ Replace(k, v)
  \/ \E k \in Keys : Remove(k)
  \/ Copy

MapSpec == MapInit /\ [][MapNext]_mapVars

(***************************************************************************)
(* Properties                                                              *)
(***************************************************************************)
\* A table answers as the map its users think of, and no key has two places in it.
\* Not so if a key is put over itself when another has been removed: it may go to
\* the emptied slot and be in the table twice, and the old value comes back when
\* the table doubles.
LooksUpWhatWasPut ==
  happened # {"removed", "replaced"} =>
    /\ \A k \in Keys : IF k \in DOMAIN map THEN Found(k) # {} /\ Get(k) = map[k]
                      ELSE Found(k) = {}
    /\ Cardinality(Visited) = Cardinality(DOMAIN map)

\* size is never less than the number of elements, so that a table with elements is
\* not taken for an empty one (whashmap_iterate, whashmap_copy), nor one without room
\* for one with; it is exact as long as no key is put over itself.
SizeCounts ==
  /\ size >= Cardinality(Occupied)
  /\ "replaced" \notin happened => size = Cardinality(Occupied)
=============================================================================
