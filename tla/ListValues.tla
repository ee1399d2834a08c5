----------------------------- MODULE ListValues -----------------------------
(***************************************************************************)
(* What the users of a list rely on: a sequence of values.  Values come at *)
(* either end; one goes from anywhere, or all go at once.                  *)
(***************************************************************************)
EXTENDS Integers, Sequences

CONSTANT Data
VARIABLE values

Init == values = <<>>

Append1  == \E w \in Data : values' = Append(values, w)
Prepend1 == \E w \in Data : values' = <<w>> \o values
Take1    == \E i \in DOMAIN values :
              values' = SubSeq(values, 1, i - 1) \o SubSeq(values, i + 1, Len(values))
Clear    == values' = <<>>

Next == Append1 \/ Prepend1 \/ Take1 \/ Clear

Spec == Init /\ [][Next]_values
==============================================================================
