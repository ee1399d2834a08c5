------------------------------- MODULE Database -------------------------------
(***************************************************************************)
(* What keeps the program and its data: lists, hash maps, the table of     *)
(* constants, and the clauses of a predicate.  Each module stands on what  *)
(* the ones below it promise, not on their state: clauses are in lists     *)
(* that are sequences, maps answer as maps, and a word means what it did.  *)
(* So a behaviour is that of one of them, chosen at the start.             *)
(***************************************************************************)
EXTENDS Lists, HashMap, ConstantTable, Predicates

VARIABLE part  \* the component that moves

databaseVars == <<part, listVars, mapVars, tableVars, predicateVars>>

DatabaseInit ==
  /\ part \in {"lists", "maps", "constants", "predicates"}
  /\ ListsInit /\ MapInit /\ TableInit /\ PredInit
  /\ part # "lists" => user = "database"
  /\ part # "predicates" => texts = CHOOSE p \in Programs : TRUE

DatabaseNext ==
  \/ part = "lists" /\ ListsNext /\ UNCHANGED <<part, mapVars, tableVars, predicateVars>>
  \/ part = "maps" /\ MapNext /\ UNCHANGED <<part, listVars, tableVars, predicateVars>>
  \/ part = "constants" /\ TableNext /\ UNCHANGED <<part, listVars, mapVars, predicateVars>>
  \/ part = "predicates" /\ PredNext /\ UNCHANGED <<part, listVars, mapVars, tableVars>>

DatabaseSpec == DatabaseInit /\ [][DatabaseNext]_databaseVars
===============================================================================
