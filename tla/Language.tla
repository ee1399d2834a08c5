------------------------------- MODULE Language -------------------------------
(***************************************************************************)
(* What makes the text of a program and its clauses mean what they say:    *)
(* writing and reading terms, compiled clauses as they are executed,       *)
(* findall/3, the library's own use of the database, arithmetic, and       *)
(* streams.  They follow each other and share no state, so a behaviour is  *)
(* that of one of them, chosen at the start.                               *)
(***************************************************************************)
EXTENDS Clauses, Reader, Findall, Arithmetic, Streams

VARIABLE part  \* the component that moves

languageVars ==
  <<part, clauseVars, readerVars, findallVars, arithmeticVars, streamVars>>

LanguageInit ==
  /\ part \in {"clauses", "reader", "findall", "arithmetic", "streams"}
  /\ part # "clauses" => program = <<1, 1>>
  /\ ClausesInit /\ ReaderInit /\ FindallInit /\ ArithmeticInit /\ StreamsInit
  /\ part # "arithmetic" => unbounded

LanguageNext ==
  \/ /\ part = "clauses" /\ ClausesNext
     /\ UNCHANGED <<part, readerVars, findallVars, arithmeticVars, streamVars>>
  \/ /\ part = "reader" /\ ReaderNext
     /\ UNCHANGED <<part, clauseVars, findallVars, arithmeticVars, streamVars>>
  \/ /\ part = "findall" /\ FindallNext
     /\ UNCHANGED <<part, clauseVars, readerVars, arithmeticVars, streamVars>>
  \/ /\ part = "arithmetic" /\ ArithmeticNext
     /\ UNCHANGED <<part, clauseVars, readerVars, findallVars, streamVars>>
  \/ /\ part = "streams" /\ StreamsNext
     /\ UNCHANGED <<part, clauseVars, readerVars, findallVars, arithmeticVars>>

\* list_instances goes on by itself: nothing else runs until it returns
LanguageSpec ==
  /\ LanguageInit /\ [][LanguageNext]_languageVars
  /\ WF_languageVars(Collecting /\ UNCHANGED <<part, clauseVars, readerVars, arithmeticVars, streamVars>>)
===============================================================================
