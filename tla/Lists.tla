-------------------------------- MODULE Lists --------------------------------
(***************************************************************************)
(* The doubly linked lists of src/src/list.c, cell by cell.  Clauses of    *)
(* predicates, records, the arguments the parser collects and the          *)
(* variables of a term are kept in them.  Walked forward a list is the     *)
(* sequence of ListValues; that is the specification it implements.        *)
(*                                                                         *)
(* A list has one of three users.  "database": clauses and records, which  *)
(* come at either end and go from anywhere.  "stack": work lists, which    *)
(* come and go at the tail.  "univ": =../2 fills a list from a term, takes *)
(* the functor off the front, builds a term and frees the list.            *)
(***************************************************************************)
EXTENDS Integers, Sequences

CONSTANTS MaxCells,   \* bound: cells in a list at a time
          Data        \* what is kept in lists

ASSUME CellsAssumption == MaxCells \in Nat

VARIABLES user,    \* who uses the list
          cells,   \* the allocated cells, by address
          first,   \* list->head
          last,    \* list->tail
          length   \* list->length

listVars == <<user, cells, first, last, length>>

NoCell  == 0
Address == 1..MaxCells
Cell    == [prev : Address \cup {NoCell}, next : Address \cup {NoCell}, data : Data]

\* malloc: the lowest free address, so that addresses are used again
NewCell == CHOOSE a \in Address : a \notin DOMAIN cells /\ 1..a - 1 \subseteq DOMAIN cells
Room    == Address \ DOMAIN cells # {}

With(cs, a, cell) == [b \in DOMAIN cs \cup {a} |-> IF b = a THEN cell ELSE cs[b]]
Without(cs, a)    == [b \in DOMAIN cs \ {a} |-> cs[b]]
\* Writing the links of cell a; a link of NULL is not written
SetNext(cs, a, n) == IF a = NoCell THEN cs ELSE [cs EXCEPT ![a].next = n]
SetPrev(cs, a, p) == IF a = NoCell THEN cs ELSE [cs EXCEPT ![a].prev = p]

(***************************************************************************)
(* Walking.  A walk ends at NULL, or (which must not happen) at an address *)
(* that is not a cell or after more steps than there are cells.            *)
(***************************************************************************)
From(a, link) ==
  LET walk[n \in 0..MaxCells] ==
        [b \in Address \cup {NoCell} |->
           IF n = 0 \/ b \notin DOMAIN link THEN <<>> ELSE <<b>> \o walk[n - 1][link[b]]]
  IN  walk[MaxCells][a]

Forward  == From(first, [a \in DOMAIN cells |-> cells[a].next])
Backward == From(last, [a \in DOMAIN cells |-> cells[a].prev])

\* list_apply, and list_apply_reverse: the data a callback is given, in order
Contents(path)  == [i \in DOMAIN path |-> cells[path[i]].data]
ListApply       == Contents(Forward)
ListApplyReverse == Contents(Backward)

\* list_index counts from the tail; -1 if w is not there
ListIndex(w) ==
  LET at == {i \in DOMAIN Backward : cells[Backward[i]].data = w}
  IN  IF at = {} THEN -1 ELSE (CHOOSE i \in at : \A j \in at : i <= j) - 1

\* list_element, for an index below the length
ListElement(index) == cells[Forward[index + 1]].data

(***************************************************************************)
(* Operations                                                              *)
(***************************************************************************)
ListsInit ==
  /\ user \in {"database", "stack", "univ"}
  /\ cells = <<>> /\ first = NoCell /\ last = NoCell /\ length = 0

\* Mutation of ListAppend: the new cell does not point back
AppendOneWay(w) ==
  /\ user # "taken" /\ Room
  /\ cells' = With(SetNext(cells, last, NewCell), NewCell,
                   [prev |-> NoCell, next |-> NoCell, data |-> w])
  /\ first' = IF last = NoCell THEN NewCell ELSE first
  /\ last' = NewCell /\ length' = length + 1
  /\ UNCHANGED user

\* list_append
ListAppend(w) ==
  /\ user # "taken" /\ Room
  /\ cells' = With(SetNext(cells, last, NewCell), NewCell,
                   [prev |-> last, next |-> NoCell, data |-> w])
  /\ first' = IF last = NoCell THEN NewCell ELSE first
  /\ last' = NewCell /\ length' = length + 1
  /\ UNCHANGED user

\* list_unshift
ListUnshift(w) ==
  /\ user = "database" /\ Room
  /\ cells' = With(SetPrev(cells, first, NewCell), NewCell,
                   [prev |-> NoCell, next |-> first, data |-> w])
  /\ last' = IF first = NoCell THEN NewCell ELSE last
  /\ first' = NewCell /\ length' = length + 1
  /\ UNCHANGED user

\* Mutation of ListSplice: the tail is not moved
SpliceKeepsTail(a) ==
  LET c == cells[a]
  IN  /\ cells' = Without(SetPrev(SetNext(cells, c.prev, c.next), c.next, c.prev), a)
      /\ first' = IF c.prev = NoCell THEN c.next ELSE first
      /\ UNCHANGED last
      /\ length' = length - 1
      /\ UNCHANGED user

\* list_splice: cell a is taken out, wherever it is
ListSplice(a) ==
  LET c == cells[a]
  IN  /\ cells' = Without(SetPrev(SetNext(cells, c.prev, c.next), c.next, c.prev), a)
      /\ first' = IF c.prev = NoCell THEN c.next ELSE first
      /\ last'  = IF c.next = NoCell THEN c.prev ELSE last
      /\ length' = length - 1
      /\ UNCHANGED user

\* _erase of a record, or a clause that did not compile
SpliceSome == user = "database" /\ \E a \in DOMAIN cells : ListSplice(a)

\* list_delete_first: the first cell whose data unifies with w, if there is one
ListDeleteFirst(w) ==
  /\ user = "database"
  /\ \E i \in DOMAIN Forward :
       /\ cells[Forward[i]].data = w
       /\ \A j \in 1..i - 1 : cells[Forward[j]].data # w
       /\ ListSplice(Forward[i])

\* list_shift.  The new first cell keeps pointing back to the freed one.
\* Afterwards MAKE_LCOMPOUND applies the list forward, and it is freed.
ListShift ==
  /\ user = "univ" /\ first # NoCell
  /\ LET new   == cells[first].next
         third == IF new = NoCell THEN NoCell ELSE cells[new].next
     IN  /\ cells' = Without(SetPrev(cells, third, new), first)
         /\ first' = new
         /\ last'  = IF new = NoCell \/ third = NoCell THEN new ELSE last
  /\ length' = length - 1
  /\ user' = "taken"

\* list_pop
ListPop ==
  /\ user = "stack" /\ last # NoCell
  /\ LET new   == cells[last].prev
         third == IF new = NoCell THEN NoCell ELSE cells[new].prev
     IN  /\ cells' = Without(SetNext(SetNext(cells, third, new), new, NoCell), last)
         /\ last'  = new
         /\ first' = IF new = NoCell \/ third = NoCell THEN new ELSE first
  /\ length' = length - 1
  /\ UNCHANGED user

\* free_list walks forward; the user starts a new list
FreeList ==
  /\ length > 0
  /\ cells' = [a \in DOMAIN cells \ {Forward[i] : i \in DOMAIN Forward} |-> cells[a]]
  /\ first' = NoCell /\ last' = NoCell /\ length' = 0
  /\ user' = IF user = "taken" THEN "univ" ELSE user

ListsNext ==
  \/ \E w \in Data : ListAppend(w) \/ ListUnshift(w) \/ ListDeleteFirst(w)
  \/ SpliceSome \/ ListShift \/ ListPop \/ FreeList

ListsSpec == ListsInit /\ [][ListsNext]_listVars

(***************************************************************************)
(* Properties                                                              *)
(***************************************************************************)
\* Both directions agree: the links of every list that is still changed are
\* mirror images, the ends are the ends, no cell is lost or freed twice, and the
\* length is right.  Only =../2 leaves a link to a freed cell behind (list_shift,
\* list.c:206), in a list it never walks backwards.
LinksMatch ==
  /\ length = Len(Forward) /\ DOMAIN cells = {Forward[i] : i \in DOMAIN Forward}
  /\ last = (IF Forward = <<>> THEN NoCell ELSE Forward[Len(Forward)])
  /\ user # "taken" =>
       /\ Len(Backward) = Len(Forward)
       /\ \A i \in DOMAIN Forward : Backward[i] = Forward[Len(Forward) + 1 - i]

\* The list implements a sequence: what each operation does at one end or in the
\* middle is what it does to the values, for whoever walks the list forward.
Sequence == INSTANCE ListValues WITH values <- ListApply
ListsAreSequences == Sequence!Spec
===============================================================================
