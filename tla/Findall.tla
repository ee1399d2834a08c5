------------------------------- MODULE Findall -------------------------------
(***************************************************************************)
(* findall/3, and bagof/3 of a goal without free variables                 *)
(* (src/src/builtin.pl), which collect the solutions of a generator in the *)
(* recorded database (record.c), newest first, above a marker.  They are   *)
(* nested, the generator of one running another, and an error may end      *)
(* several of them; the host may drop a query and all of its findalls at   *)
(* any time.                                                               *)
(***************************************************************************)
EXTENDS Integers, Sequences

CONSTANTS
  Solutions,     \* what generators produce
  MaxDepth,      \* bound: findalls that run at a time
  MaxSolutions,  \* bound: solutions of each
  MaxRecords     \* bound: records at a time

VARIABLES
  recs,      \* the records of the key '.', first to last
  findalls,  \* the findalls that run, outermost first
  answer,    \* the list the last one returned
  wanted,    \* history: the solutions it was wanted
  left       \* history: the records that were left when a query was dropped

findallVars == <<recs, findalls, answer, wanted, left>>

Marker == "-"

\* A solution is recorded as -Template, which is not the atom that is the marker
ASSUME SolutionsAssumption == Marker \notin Solutions

Innermost == findalls[Len(findalls)]
Outer     == SubSeq(findalls, 1, Len(findalls) - 1)
Running   == findalls # <<>>
Ending    == Running /\ Innermost.phase \in {"list", "throw"}
Generator(solutions) == [phase |-> "generate", list |-> <<>>, given |-> solutions]

\* An error that was thrown again is caught before the next findall, or by it
Rethrown ==
  {Outer} \cup (IF Outer = <<>> THEN {} ELSE {[Outer EXCEPT ![Len(Outer)].phase = "throw"]})

\* Mutation of recorda: the record is appended
RecordLast(term) == recs' = Append(recs, term)

\* recorda: before all others
recorda(term) == recs' = <<term>> \o recs

FindallInit ==
  /\ recs = <<>> /\ findalls = <<>> /\ answer = <<>> /\ wanted = <<>>
  /\ left = <<>>

\* save_instances, first clause: the marker, and the generator is called
StartFindall ==
  /\ Len(findalls) < MaxDepth /\ Len(recs) < MaxRecords
  /\ Running => Innermost.phase = "generate"
  /\ recorda(Marker)
  /\ findalls' = Append(findalls, Generator(<<>>))
  /\ UNCHANGED <<answer, wanted, left>>

\* A solution of the innermost generator is recorded, and it is asked for another
Solution(v) ==
  /\ Running /\ Innermost.phase = "generate"
  /\ Len(Innermost.given) < MaxSolutions /\ Len(recs) < MaxRecords
  /\ recorda(v)
  /\ findalls' = Append(Outer, Generator(Append(Innermost.given, v)))
  /\ UNCHANGED <<answer, wanted, left>>

\* The generator has no more solutions: save_instances, second clause
Exhausted ==
  /\ Running /\ Innermost.phase = "generate"
  /\ findalls' = Append(Outer, [Innermost EXCEPT !.phase = "list"])
  /\ UNCHANGED <<recs, answer, wanted, left>>

\* The generator throws: the handler takes the instances off, to throw again
GeneratorThrows ==
  /\ Running /\ Innermost.phase = "generate"
  /\ findalls' = Append(Outer, [Innermost EXCEPT !.phase = "throw"])
  /\ UNCHANGED <<recs, answer, wanted, left>>

\* Mutation of ListInstance: the newest comes last in the list, too
AppendInstance ==
  /\ Ending /\ recs # <<>>
  /\ recs[1] # Marker
  /\ recs' = Tail(recs)
  /\ findalls' = Append(Outer, [Innermost EXCEPT !.list = Append(@, recs[1])])
  /\ UNCHANGED <<answer, wanted, left>>

\* list_instances: the first record is looked up and erased, and goes in front
ListInstance ==
  /\ Ending /\ recs # <<>>
  /\ recs[1] # Marker
  /\ recs' = Tail(recs)
  /\ findalls' = Append(Outer, [Innermost EXCEPT !.list = <<recs[1]>> \o @])
  /\ UNCHANGED <<answer, wanted, left>>

\* Mutation of ListMarker: after an error the marker stays, and is listed again
MarkerStays ==
  /\ Ending /\ recs # <<>>
  /\ recs[1] = Marker
  /\ IF Innermost.phase = "list"
       THEN recs' = Tail(recs) /\ findalls' = Outer /\ answer' = Innermost.list /\ wanted' = Innermost.given
       ELSE UNCHANGED <<recs, findalls, answer, wanted>>
  /\ UNCHANGED left

\* The marker ends the list.  findall returns it, or the error is thrown again.
ListMarker ==
  /\ Ending /\ recs # <<>>
  /\ recs[1] = Marker
  /\ recs' = Tail(recs)
  /\ IF Innermost.phase = "list"
       THEN findalls' = Outer /\ answer' = Innermost.list /\ wanted' = Innermost.given /\ UNCHANGED left
       ELSE findalls' \in Rethrown /\ UNCHANGED <<answer, wanted, left>>

\* The host drops the query, between two steps of it (restore_state): the records stay
DropQuery ==
  /\ Running /\ Innermost.phase = "generate"
  /\ findalls' = <<>> /\ left' = recs
  /\ UNCHANGED <<recs, answer, wanted>>

\* Bound: no more queries
Enough == ~Running /\ Len(recs) >= MaxRecords /\ UNCHANGED findallVars

Collecting == ListInstance \/ ListMarker
FindallNext ==
  \/ StartFindall \/ \E v \in Solutions : Solution(v)
  \/ Exhausted \/ GeneratorThrows \/ DropQuery \/ Collecting \/ Enough

\* list_instances goes on by itself: nothing else runs
FindallSpec == FindallInit /\ [][FindallNext]_findallVars /\ WF_findallVars(Collecting)

(***************************************************************************)
(* Properties                                                              *)
(***************************************************************************)
\* A findall returns the solutions of its own generator, all of them, in the order
\* they came; not those of one it is nested in, of one that was nested in it, or of
\* one that was ended by an error or dropped with its query.
OwnSolutions == answer = wanted

\* The records are those of the findalls that run and have not been taken off yet,
\* each group above its marker, and what dropped queries left below: a findall
\* that ends, with an answer or an error, leaves the database as it was.
Untaken(f) == Len(f.given) - Len(f.list)
Records(f) ==
  [i \in 1..Untaken(f) + 1 |-> IF i <= Untaken(f) THEN f.given[Untaken(f) + 1 - i] ELSE Marker]
AllRecords(fs, below) ==
  LET upTo[n \in 0..Len(fs)] == IF n = 0 THEN below ELSE Records(fs[n]) \o upTo[n - 1]
  IN  upTo[Len(fs)]
RecordsAreOwned == recs = AllRecords(findalls, left)

\* Every findall whose generator has ended gets to its marker, though others were ended around it.
CollectingEnds == Ending ~> ~Ending
===============================================================================
