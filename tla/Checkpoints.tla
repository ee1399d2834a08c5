---------------------------- MODULE Checkpoints ----------------------------
(***************************************************************************)
(* What backtracking promises a Prolog program, without frames, trail or   *)
(* stack: a store of variables whose bindings are only ever added to, and  *)
(* saved copies of the store.  Bindings disappear in one way only: a saved *)
(* copy comes back, exactly as it was saved, and the copies saved after it *)
(* are gone.                                                               *)
(*                                                                         *)
(* A store is a sequence of cells; a cell that holds its own index is an   *)
(* unbound variable.                                                       *)
(***************************************************************************)
EXTENDS Integers, Sequences

VARIABLES store,  \* the cells
          saved   \* the copies that can still come back, oldest first

cvars == <<store, saved>>

\* s differs from r by new cells and by bindings of unbound cells only
Extends(s, r) ==
  /\ DOMAIN r \subseteq DOMAIN s
  /\ \A c \in DOMAIN r : r[c] # c => s[c] = r[c]

Init == store = <<>> /\ saved = <<>>

\* Go on with the computation
Proceed ==
  /\ Extends(store', store)
  /\ UNCHANGED saved

\* Save the store, and go on
Save ==
  /\ Extends(store', store)
  /\ saved' = Append(saved, store)

\* Discard the copies above the first n (a cut), and go on
Commit ==
  /\ Extends(store', store)
  /\ \E n \in 0..Len(saved) : saved' = SubSeq(saved, 1, n)

\* Bring a saved copy back
Restore ==
  \E n \in DOMAIN saved :
    /\ store' = saved[n]
    /\ saved' = SubSeq(saved, 1, n - 1)

\* Nothing is left to try: every variable that remains is unbound
GiveUp ==
  /\ \E n \in 0..Len(store) : store' = [c \in 1..n |-> c]
  /\ saved' = <<>>

Next == Proceed \/ Save \/ Commit \/ Restore \/ GiveUp

Spec == Init /\ [][Next]_cvars
=============================================================================
