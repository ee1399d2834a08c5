------------------------------ MODULE MCDatabase ------------------------------
(* A small instance of Database: four keys, three of which collide in tables of   *)
(* four, where their chain wraps around to the fourth's, and of eight.            *)
EXTENDS Database

Fact(argument) == [form |-> "fact", argument |-> argument]
Rule(argument) == [form |-> "rule", argument |-> argument]

MCKeys     == {"k1", "k2", "k3", "k4"}
MCHash     == [k1 |-> 3, k2 |-> 3, k3 |-> 11, k4 |-> 0]
MCPrograms == {{Fact("a"), Rule("b")}, {Rule("a"), Rule("b")}, {Rule("a"), Rule("var")},
               {Fact("a"), Fact("var")}}
===============================================================================
