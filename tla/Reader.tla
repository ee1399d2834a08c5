-------------------------------- MODULE Reader --------------------------------
(***************************************************************************)
(* Writing terms with operators (src/src/term_writer.c) and reading them   *)
(* back (src/src/parser.c), with the operators of operators.c.             *)
(*                                                                         *)
(* A text is a sequence of lexemes: names, integers without a sign, and    *)
(* punctuation; adjacent ones may be one token when read.  A stream is the *)
(* text that is left and the tokens that were looked at, the next one last. *)
(***************************************************************************)
EXTENDS Terms
LOCAL INSTANCE SequencesExt
LOCAL INSTANCE TLC

CONSTANTS
  Written,   \* the terms that are written
  MaxTerms   \* bound: terms in the stream

I(n) == <<"int", n>>
IsInt(t) == t[1] = "int"
Nil == K("[]")
List(h, t) == S("[|]", <<h, t>>)

\* initialize_operators
InfixOperators ==
  {<<n, 1200, "XFX">> : n \in {":-", "-->"}} \cup {<<":=", 990, "XFX">>, <<"**", 200, "XFX">>}
  \cup {<<n, 700, "XFX">> : n \in {"<", "=", "=..", "=@=", "=:=", "=<", "==", "=\\=", ">",
          ">=", "@<", "@=<", "@>", "@>=", "\\=", "\\==", "is", ">:<", ":<"}}
  \cup {<<";", 1100, "XFY">>, <<"|", 1105, "XFY">>, <<"->", 1050, "XFY">>, <<"*->", 1050, "XFY">>,
        <<",", 1000, "XFY">>, <<":", 600, "XFY">>, <<"^", 200, "XFY">>, <<"?", 250, "YFX">>}
  \cup {<<n, 500, "YFX">> : n \in {"+", "-", "/\\", "\\/", "xor"}}
  \cup {<<n, 400, "YFX">> : n \in {"*", "/", "//", "rdiv", "<<", ">>", "mod", "rem"}}
PrefixOperators ==
  {<<n, 1200, "FX">> : n \in {":-", "?-"}} \cup {<<"~", 900, "FX">>}
  \cup {<<n, 1150, "FX">> : n \in {"dynamic", "discontiguous", "initialization",
          "meta_predicate", "module_transparent", "multifile", "thread_local", "volatile"}}
  \cup {<<"\\+", 900, "FY">>, <<"?", 920, "FY">>, <<"+", 200, "FY">>, <<"-", 200, "FY">>,
        <<"\\", 200, "FY">>}

\* find_operator: those of the name, at the position
OperatorNames(ops) == {o[1] : o \in ops}
find_operator(name, ops) == CHOOSE o \in ops : o[1] = name
Infix  == [n \in OperatorNames(InfixOperators) |-> find_operator(n, InfixOperators)]
Prefix == [n \in OperatorNames(PrefixOperators) |-> find_operator(n, PrefixOperators)]

\* The names of operators that consist of graphic characters (is_graphic_char), those that
\* are one character of no other name, and the others
Solo == {",", ";", "|"}
Graphic ==
  (DOMAIN Infix \cup DOMAIN Prefix) \ (Solo \cup {"is", "xor", "rdiv", "mod", "rem"}
     \cup {o[1] : o \in {p \in PrefixOperators : p[2] = 1150}})

N(name) == <<IF name \in Solo THEN "solo" ELSE IF name \in Graphic THEN "graphic" ELSE "name", name>>
P(mark) == <<"punct", mark>>
D(n)    == <<"digits", n>>
Space   == <<"space", "">>

-----------------------------------------------------------------------------
(* Writing: format_term gives the text of a term, of at most the precedence given *)

\* Mutation of glue_atoms: what is put together is never kept apart
GlueTight(left, right) == left \o right

\* glue_atoms: a space, unless just one of the two sides is a sign or a comma
Sign(lexeme) == lexeme = P(",") \/ lexeme[1] = "graphic"
glue_atoms(left, right) ==
  IF Sign(Last(left)) # Sign(right[1]) THEN left \o right ELSE left \o <<Space>> \o right

\* get_op
NoOperator == <<"", 0, "">>
get_op(t) ==
  IF Len(t[3]) = 1 /\ t[2] \in DOMAIN Prefix THEN Prefix[t[2]]
  ELSE IF Len(t[3]) = 2 /\ t[2] \in DOMAIN Infix THEN Infix[t[2]]
  ELSE NoOperator

RECURSIVE Elements(_), TailOf(_), Conjuncts(_)
IsCell(t)    == IsStr(t) /\ t[2] = "[|]"
IsAnd(t)     == IsStr(t) /\ t[2] = "," /\ Len(t[3]) = 2
Elements(t)  == IF IsCell(t) THEN <<t[3][1]>> \o Elements(t[3][2]) ELSE <<>>
TailOf(t)    == IF IsCell(t) THEN TailOf(t[3][2]) ELSE t
Conjuncts(t) == IF IsAnd(t) THEN <<t[3][1]>> \o Conjuncts(t[3][2]) ELSE <<t>>

RECURSIVE format_term(_, _)
Separated(precedence, terms) ==
  FoldLeft(LAMBDA acc, t : acc \o (IF acc = <<>> THEN <<>> ELSE <<P(",")>>) \o format_term(precedence, t),
           <<>>, terms)
FormatList(t) ==
  <<P("[")>> \o Separated(1200, Elements(t))
  \o (IF TailOf(t) = Nil THEN <<>> ELSE <<P("|")>> \o format_term(1200, TailOf(t))) \o <<P("]")>>
FormatCurly(t) == <<P("{")>> \o Separated(1000, Conjuncts(t[3][1])) \o <<P("}")>>
FormatDict(t)  == format_term(1200, t[3][1]) \o FormatCurly(t[3][2])
FormatCompound(t) == <<N(t[2]), P("(")>> \o Separated(999, t[3]) \o <<P(")")>>

\* A conjunction is put in parentheses wherever it occurs
FormatOperator(precedence, t) ==
  LET op    == get_op(t)
      p     == op[2]
      outer == IF IsAnd(t) THEN 1300 ELSE p
      open  == IF IsAnd(t) /\ precedence < 999 THEN <<Space, P("(")>>
               ELSE IF outer > precedence THEN <<P("(")>> ELSE <<>>
      name  == IF IsAnd(t) THEN <<P(",")>> ELSE <<N(t[2])>>
      first == format_term(IF op[3] \in {"FY", "YFX"} THEN p ELSE p - 1, t[3][1])
      body  == IF Len(t[3]) = 1 THEN glue_atoms(open \o name, first)
               ELSE glue_atoms(glue_atoms(open \o first, name),
                               format_term(IF op[3] = "XFY" THEN p ELSE p - 1, t[3][2]))
  IN  body \o (IF outer > precedence THEN <<P(")")>> ELSE <<>>)
format_term(precedence, t) ==
  IF IsVar(t) THEN <<<<"variable", "_G">>>>
  ELSE IF IsInt(t) THEN (IF t[2] < 0 THEN <<N("-"), D(-t[2])>> ELSE <<D(t[2])>>)
  ELSE IF ~IsStr(t) THEN <<N(t[2])>>
  ELSE IF IsCell(t) THEN FormatList(t)
  ELSE IF t[2] = "$dict" THEN FormatDict(t)
  ELSE IF t[2] = "{}" THEN FormatCurly(t)
  ELSE IF get_op(t) = NoOperator THEN FormatCompound(t)
  ELSE FormatOperator(precedence, t)

-----------------------------------------------------------------------------
(* Reading: a stream has a text and the tokens that have been looked at; what is *)
(* read is a term `t`, or not `ok`, and the stream that is left.                 *)
EndOfFile == <<"end", "">>
Atom(name) == <<"atom", name>>

\* lex: the next token and the text after it.  A sign before digits is part of the
\* number; graphic characters that are not kept apart are one name.
RECURSIVE lex(_)
Number(n, text) == [token |-> I(n), text |-> text]
lex(text) ==
  IF text = <<>> THEN [token |-> EndOfFile, text |-> text]
  ELSE LET c    == text[1]
           rest == Tail(text)
           next == IF rest = <<>> THEN Space ELSE rest[1]
       IN  IF c = Space THEN lex(rest)
           ELSE IF c = P("[") /\ next = P("]") THEN [token |-> Atom("[]"), text |-> Tail(rest)]
           ELSE IF c[1] = "punct" THEN [token |-> c, text |-> rest]
           ELSE IF c[1] = "variable" THEN [token |-> c, text |-> rest]
           ELSE IF c[1] = "digits" THEN Number(c[2], rest)
           ELSE IF c = N("-") /\ next[1] = "digits" THEN Number(-next[2], Tail(rest))
           ELSE IF c = N("+") /\ next[1] = "digits" THEN Number(next[2], Tail(rest))
           ELSE IF (c[1] = next[1] /\ c[1] # "solo") \/ (c[1] = "graphic" /\ next = P("."))
                  THEN lex(<<<<c[1], c[2] \o next[2]>>>> \o Tail(rest))
           ELSE [token |-> Atom(c[2]), text |-> rest]

\* read_token, peek_token, unread_token
Token(s) == IF s.look # <<>> THEN Last(s.look) ELSE lex(s.text).token
read_token(s) ==
  IF s.look # <<>> THEN [s EXCEPT !.look = Front(@)] ELSE [s EXCEPT !.text = lex(@).text]
unread_token(s, token) == [s EXCEPT !.look = Append(@, token)]
peek_token(s) == IF s.look # <<>> THEN s ELSE unread_token(read_token(s), Token(s))

\* token_operator
token_operator(token, table) ==
  IF token = P(",") /\ "," \in DOMAIN table THEN table[","]
  ELSE IF token[1] = "atom" /\ token[2] \in DOMAIN table THEN table[token[2]]
  ELSE NoOperator

Result(s, t) == [s |-> s, t |-> t, ok |-> TRUE]
Error(s)     == [s |-> s, t |-> Nil, ok |-> FALSE]
RECURSIVE read_expression(_, _, _, _), ReadRest(_, _, _, _, _), ReadItems(_, _, _, _, _)

\* Terms separated by commas, up to one of the marks that end them: `t` is the mark and
\* the terms; there are none if `close` comes where a term should
ReadItems(s, isList, close, ends, items) ==
  LET r    == read_expression(s, 1201, TRUE, isList)
      more == Append(items, r.t)
      end  == Token(r.s)
  IN  IF Token(s) = close THEN Result(read_token(s), <<close, <<>>>>)
      ELSE IF ~r.ok THEN r
      ELSE IF end = P(",") THEN ReadItems(read_token(r.s), isList, close, ends, more)
      ELSE IF end \in ends THEN Result(read_token(r.s), <<end, more>>)
      ELSE Error(r.s)

\* A list, after [; braces, after {; parentheses, after (; arguments, after (
ListOf(items, tail) == FoldRight(List, items, tail)
ReadList(s) ==
  LET r    == ReadItems(s, TRUE, P("]"), {P("]"), P("|")}, <<>>)
      tail == read_expression(r.s, 1201, TRUE, TRUE)
  IN  IF ~r.ok THEN r
      ELSE IF r.t[1] = P("]") THEN Result(r.s, ListOf(r.t[2], Nil))
      ELSE IF tail.ok /\ Token(tail.s) = P("]")
        THEN Result(read_token(tail.s), ListOf(r.t[2], tail.t))
      ELSE Error(r.s)
make_curly(items) ==
  S("{}", <<FoldRight(LAMBDA t, acc : S(",", <<t, acc>>), Front(items), Last(items))>>)
ReadCurly(s) ==
  LET r == ReadItems(s, TRUE, P("}"), {P("}")}, <<>>)
  IN  IF ~r.ok THEN r
      ELSE Result(r.s, IF r.t[2] = <<>> THEN K("{}") ELSE make_curly(r.t[2]))
ReadParentheses(s) ==
  LET r == read_expression(s, 12001, FALSE, FALSE)
  IN  IF r.ok /\ Token(r.s) = P(")") THEN Result(read_token(r.s), r.t) ELSE Error(r.s)

\* What a token that is not a prefix operator begins
Primary(token, s) ==
  IF token = P("[") THEN ReadList(s)
  ELSE IF token = P("{") THEN ReadCurly(s)
  ELSE IF token = P("(") THEN ReadParentheses(s)
  ELSE IF token[1] = "variable" THEN Result(s, V("_"))
  ELSE IF token[1] = "int" THEN Result(s, token)
  ELSE Result(s, K(token[2]))

\* An operator is none before what cannot begin an operand, and before arguments:
\* a parenthesis without a space, unless another one follows it
HasOperand(token, s) ==
  /\ token_operator(token, Prefix) # NoOperator
  /\ Token(s) \notin {P("]"), P(")"), P(","), P("|")}
  /\ \/ Token(s) # P("(")
     \/ s.text # <<>> /\ s.text[1] = Space
     \/ Token(read_token(s)) = P("(")

\* read_expression
read_expression(s, precedence, isArg, isList) ==
  LET token == Token(s)
      after == read_token(s)
      op    == token_operator(token, Prefix)
      operand == read_expression(after, IF op[3] = "FY" THEN op[2] + 1 ELSE op[2], isArg, isList)
      lhs   == IF ~HasOperand(token, after) THEN Primary(token, after)
               ELSE [operand EXCEPT !.t = S(op[1], <<@>>)]
  IN  IF token = EndOfFile THEN Result(s, K("end_of_file"))
      ELSE IF lhs.ok THEN ReadRest(lhs.s, lhs.t, precedence, isArg, isList) ELSE lhs

\* parse_infix
parse_infix(s, lhs, op, precedence) ==
  LET r == read_expression(read_token(s), precedence, FALSE, FALSE)
  IN  [r EXCEPT !.t = S(op[1], <<lhs, @>>)]

\* A number after a term is an operator and a number
SignApart(s, n) ==
  unread_token(unread_token(read_token(s), I(IF n <= 0 THEN -n ELSE n)),
               Atom(IF n <= 0 THEN "-" ELSE "+"))

\* ... and what may follow a term: a sign, a dict, arguments, an infix operator
ReadRest(s, lhs, precedence, isArg, isList) ==
  LET token == Token(s)
      op    == token_operator(token, Infix)
      onward(r, t) == IF r.ok THEN ReadRest(r.s, t, precedence, isArg, isList) ELSE r
      infix(p) == LET r == parse_infix(s, lhs, op, p) IN onward(r, r.t)
  IN  IF token[1] = "int"
        THEN ReadRest(SignApart(s, token[2]), lhs, precedence, isArg, isList)
      ELSE IF token = P("{")
        THEN LET r == read_expression(s, 1201, TRUE, FALSE) IN onward(r, S("$dict", <<lhs, r.t>>))
      ELSE IF token = P("(")
        THEN LET r == ReadItems(read_token(s), FALSE, Space, {P(")")}, <<>>)
             IN  IF r.ok /\ lhs[1] = "con" THEN onward(r, S(lhs[2], r.t[2])) ELSE Error(s)
      ELSE IF token = P(",") /\ isArg THEN Result(peek_token(s), lhs)
      ELSE IF op[3] = "XFX" /\ precedence > op[2] THEN infix(op[2])
      ELSE IF op[3] = "XFY" /\ precedence > op[2] THEN infix(op[2] + 1)
      ELSE IF op[3] = "YFX" /\ precedence >= op[2] THEN infix(op[2])
      ELSE Result(peek_token(s), lhs)

-----------------------------------------------------------------------------
VARIABLES
  stream,    \* the stream
  expected   \* history: the terms in it that have not been read

readerVars == <<stream, expected>>

\* read_term: tokens that were looked at are dropped, the period among them
read_term(s) == read_expression([s EXCEPT !.look = <<>>], 12001, FALSE, FALSE)

\* What is read back as it was written.  It is not if it has
\*   - of two operators of one precedence and type yfx the left one in the left operand,
\*   - a sign before an integer that is not negative, + before 0 as its right operand,
\*   - in a list or in braces an operator above the comma that is not in the last element,
\*   - an operator as a name, a conjunction as the operand of :- or ?-, or a prefix operator
\*     as the functor of arguments the first of which is written in parentheses,
\*   - a dict as a left operand.
NotOperator(t) == ~(t[1] = "con" /\ t[2] \in DOMAIN Infix \cup DOMAIN Prefix)
RECURSIVE Regular(_)
Regular(t) ==
  IF ~IsStr(t) THEN NotOperator(t)
  ELSE LET args == t[3]
           op   == get_op(t)
       IN  /\ \A i \in DOMAIN args : Regular(args[i])
           /\ op[3] = "YFX" /\ IsStr(args[1]) => get_op(args[1])[3] # "YFX" \/ get_op(args[1])[2] # op[2]
           /\ t[2] \in {"+", "-"} /\ Len(args) = 1 /\ IsInt(args[1]) => args[1][2] < 0
           /\ t[2] = "+" /\ Len(args) = 2 => args[2] # I(0)
           /\ t[2] \in {":-", "?-"} /\ Len(args) = 1 => ~IsAnd(args[1])
           /\ op = NoOperator /\ t[2] \in DOMAIN Prefix => format_term(999, args[1])[1] # P("(")
           /\ op # NoOperator => ~(IsStr(args[1]) /\ args[1][2] = "$dict")
           /\ IsCell(t) /\ IsCell(args[2]) /\ IsStr(args[1]) => get_op(args[1])[2] <= 1000

ReaderInit ==
  /\ stream = [text |-> <<>>, look |-> <<>>]
  /\ expected = <<>>

\* write_term, and a period on a line
WriteTerm(t) ==
  /\ Len(expected) < MaxTerms
  /\ expected # <<>> => ~IsStr(t)
  /\ Regular(t)
  /\ stream' = [stream EXCEPT !.text = @ \o format_term(1200, t) \o <<P("."), Space>>]
  /\ expected' = Append(expected, t)

\* read_term of the host or of read_term/2
ReadTerm ==
  /\ stream' = read_term(stream).s
  /\ expected' = IF expected = <<>> THEN <<>> ELSE Tail(expected)

ReaderNext == ReadTerm \/ \E t \in Written : WriteTerm(t)
ReaderSpec == ReaderInit /\ [][ReaderNext]_readerVars

\* Terms are read as they were written, in the same order, and then end_of_file, as
\* long as what was written can be (format_term, glue_atoms; lex, read_expression,
\* parse_infix, the tokens in token_lookahead that read_term drops).
ReadsWhatWasWritten ==
  LET r == read_term(stream)
  IN  r.ok /\ r.t = IF expected = <<>> THEN K("end_of_file") ELSE expected[1]
===============================================================================
