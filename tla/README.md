# TLA+ specifications of Proscript 2

Proscript is an ISO Prolog in C: a compiler from clauses to a byte code in the
style of ZIP, and an abstract machine that runs it, also compiled to
Javascript. This directory models the machine, and the components it stands on: the
tables of constants and clauses, the compiler, the reader and writer, arithmetic, streams. Paths below are relative to the repository.

    tlc -config Kernel.cfg Kernel          # or any other run of the table below
    tlapm KernelProofs.tla                 # or any other module named ...Proofs, or Recursion.tla

## The system

| Component | State it keeps | Operations | What makes it hard, and what must hold |
|---|---|---|---|
| Abstract machine, `src/src/kernel.c` | registers PC FR SP H TR CP ARGP, the stack of frames and choicepoints, heap, trail, the pending exception | one handler per instruction in `execute`; `backtrack`, `cut_to`, `apply_choicepoint`, `create_choicepoint`; queries: `prepare_query`, `execute_query`, `backtrack_query`, `resume_yield`, `push_state`, `restore_state`; `consult_stream` | frames of finished calls stay while a choicepoint needs them, and are overwritten once none does; catch, cut and cleanup jump across many frames; queries nest. A frame or choicepoint that can be used is never overwritten; backtracking restores the heap; clauses made by `call/1` are freed once, and not in use |
| Compiler, `compiler.c` | clause, slot and constant numbers while it compiles | `compile_predicate`, `compile_query`, `compile_body`, `compile_head`, `assemble` | slots of cut points and variables, unsafe variables, first occurrences on both sides of a disjunction. The byte code does what the clause says |
| Constant table, `ctable.c` | atoms, functors, numbers, their reference counts and marks | `intern*`, `acquire_constant`, `release_constant`, `garbage_collect_constants` | counts are kept by clauses, local terms and records. Nothing in use is deleted |
| Modules and predicates, `module.c` | per module: predicates, their clauses, the compiled code | `add_clause`, `asserta`, `assertz`, `retract`, `abolish`, `lookup_predicate` | code is replaced while frames and choicepoints run it |
| Records, `record.c` | lists of terms by key | `recorda`, `recordz`, `erase`, `recorded`; `findall/3` in `builtin.pl` is built on them | iteration by index while records come and go |
| Local terms, `local.c` | copies of terms outside the heap | `copy_local`, `free_local` | counts of constants |
| Hash maps, lists: `whashmap.c`, `bihashmap.c`, `hashmap.c`, `list.c` | tables with linear probing; doubly linked lists | put, get, remove, rehash; append, shift, splice, apply | removal in probe chains; links at the ends of lists |
| Foreign interface, `foreign.c`, `fli.c` | the backtrack pointer in the last slot of a frame | `define_foreign_predicate_*`, `make_foreign_choicepoint*`, yielding | a predicate may leave a choicepoint, yield, throw, or run queries |
| Built-ins, `foreign_impl.c`, `builtin.pl` | none of their own (apart from records, flags and streams) | some 200 predicates | nondeterministic ones keep an index |
| Arithmetic, `arithmetic.c` | none | `evaluate_term` and the functions of `is/2` | widths, promotion to big integers |
| Reader and writer: `parser.c`, `operators.c`, `term_writer.c`, `string_builder.c`, `char_buffer.c` | the operator table, one token of lookahead | `read_term`, `add_operator`, `format_term` | priorities; what is written reads back |
| Streams, `stream.c`, `format.c` | buffers, positions, peeked characters | get, peek, put, close; pending columns | lookahead and encodings |
| Flags, options, errors, globals: `prolog_flag.c`, `options.c`, `errors.c`, `global.c` | the flags | get and set | none, apart from `unknown`, which `prepare_frame` reads |
| Host in Javascript, `pre.js`; harness `test.c`, `main.c`, `crc.c` | handles of terms | glue | yielding and resuming |

The machine calls the compiler for every goal given to `call/1` and `catch/3` and
for every directive; it calls predicates by functor through a module; clauses,
local terms and records hold counted references into the constant table; foreign
predicates are called by the machine, and may call back into it with a query of
their own, between `push_state` and `restore_state`. Nothing runs in parallel.
What interleaves are the control paths: a cut stops halfway to run a cleanup
handler, an error unwinds through whatever has been built, a query starts within
a foreign predicate, and the host decides when a query that yielded goes on.

## Modules

| Module | Models | Extends |
|---|---|---|
| `Kernel` | one query, without errors | |
| `Exceptions` | errors and `catch/3` | `Kernel` |
| `Queries` | queries within queries, yielding | `Exceptions` |
| `Checkpoints` | abstract: what backtracking promises a program | |
| `KernelProofs` | `Kernel` implements `Checkpoints`, and its stack is well formed, with proof | `Kernel` |
| `MemoryProofs` | nothing in use on the stack of `Kernel` is overwritten, and clauses compiled for a call are freed when they should be, with proof | `KernelProofs` |
| `ExceptionsProofs` | the same with errors, that balls find their catchers, and that queries leave those around them alone, with proof | `Queries`, `MemoryProofs` |
| `Lists`, `ListValues` | `list.c`, and abstract: a sequence | |
| `HashMap` | `whashmap.c`, `hashmap.c`, `bihashmap.c` | |
| `ConstantTable` | `ctable.c` and all that counts constants | |
| `Predicates` | a dynamic predicate while goals on it can be resumed: `module.c` | |
| `Database` | composes the last four; `MCDatabase` is its instance | all four |
| `Terms`, `Compiler`, `Clauses` | terms; `compiler.c`; the instructions it emits, executed | each other |
| `Reader` | `term_writer.c`, `parser.c`, the table of `operators.c` | `Terms` |
| `Findall` | `findall/3` of `builtin.pl` on `record.c` | |
| `Arithmetic` | `arithmetic.c`, and how `parser.c` reads integers | |
| `Streams` | `stream.c` and the input and output of `foreign_impl.c` | |
| `Language` | composes the last five; `MCLanguage` is its instance | all five |
| `ContainersProofs` | what is proved of lists and hash maps | `Lists`, `HashMap` |
| `PredicatesProofs`, `ConstantTableProofs` | what is proved of each | that module |
| `LanguageProofs` | what is proved of three parts of `Language` | `Arithmetic`, `Findall`, `Streams` |
| `Recursion` | induction on numbers, and functions defined by recursion, for the proofs | |

**Kernel.** The module runs no particular program: at each step it runs any
instruction the compiler could have emitted there, so all programs, within the
bounds, are behaviours. Each handler of `execute` is an action, with the calls it
makes (`Backtrack`, `Cut`, `UserCall`, ...) as operators. Several instructions
share an action when they do the same to what is modelled: those that build
terms are `MakeVar`, the unifying ones `BindVar` if they bind, and any that fails is
`Fail`. `PC` is kept as a place in the clause, `pos`: which phase, which conditions
(of `->`, `\+`) are open, how many cut slots were handed out. `frames` maps the
stack addresses of frames to their contents, `cps` is the chain of choicepoints
from the oldest to `CP`. An address counts words in a small stack; a frame takes
one word and one for each of its slots, a choicepoint one and, if it saves
arguments, `ArgWords` more. A frame above `SP` is gone: the next one overwrites it.
A heap cell that holds its own address is an unbound variable, as in the code, and
`trail` holds the addresses to reset. `owned` are the clauses that were compiled for
a call and not freed. `snap`, in a choicepoint, is not in the code: it is a history
variable with the heap as it was, for the properties.
`uses` is chosen at the start and never changes: it is the set of facilities the
program uses, so that one run can cover several mixes without their product.

A cut with a cleanup handler whose catcher unifies with `!` stops at that
choicepoint and calls the handler; the handler returns to the same cut
(`CutCleanup`). Choicepoints with PC = NULL (of `catch/3` and cleanup handlers)
are applied by `backtrack` and passed over (`Resumed`); if the last one is reached so,
the query fails.

**Exceptions.** The ball is raised by any instruction that can (`Raise*`), with the
state in which each leaves the registers; `Caught` and `Uncaught` are the search of
`b_throw_foreign` for a frame of `catch/3`, outermost last. Whether a ball unifies
with a catcher is left open, so each active `catch/3` may take it.

**Queries.** `PushState`, `ExecuteQuery` and `RestoreState` are interleaved as a foreign
predicate or the host may call them: several queries one after another on one
saved state, states within states, states saved while a query has yielded.
`memory` keeps the words of TRAIL above TR, because `restore_state` moves TR up again.

**Checkpoints.** A store of variables and saved copies of it. The store only grows,
by variables and bindings, except when a saved copy comes back. `Kernel` maps
`store` to the heap and `saved` to the `snap`s of its choicepoints.

**Lists.** Cells with links in a small memory, as the code leaves them. `prev` of the
first cell and `next` of the last are modelled, so that links to freed cells show. Two kinds of
users are told apart (`user`): records and clauses append, unshift and splice; `=..` and the
like fill a list and take cells off its ends. `ListShift` sets what the code sets, which leaves the new first
cell with a link to the freed one; none of its users looks at it. `ListsAreSequences` says that `Lists`
implements `ListValues`.

**HashMap.** The three maps are the same code with other key types. A rehash puts into a table that may have to grow
again: `PutOrGrow` is a put given the put into larger tables, and `Put` is one that may double so `MaxDoublings` times, which the code may do without end
when more keys than a chain is long have the same hash. A put beyond that bound is no step, as one into a table of `MaxSize` is none.
What the users put when is in `PutNew` and `Replace`.

**ConstantTable.** `CTable` and its free list; on the other side everything that keeps words: the heap,
clauses (with the number of times their constants were acquired), code, the names of
predicates, records. Each keeps, as history, what its word meant. A `Store` is the table while a
builtin changes it. `abolish/1` frees the copies of the clauses and then walks them to release their constants: in place of each it
may find the clause, another one, or nothing (`freed_locals`). After that the table is in no state the code answers for: `undefined` says so, and
behaviours end there. The host decides when to collect.

**Predicates.** A predicate of one argument, with facts and rules, and its choicepoints. `clause/2` and `retract/1` go
through a snapshot of the clauses, and unify with the clause itself rather than
with a copy, so a clause is bound in place as long as they are not backtracked into. `clause/2` takes every compound clause for a
rule: of a fact it unifies the first argument with the head, and if that succeeds, reads the body beyond the end of the copy. `Assert1`, `Abolish1`
and `TryRetract` free code that calls go on with, and `Abolish1` itself reads the clauses it has just freed: `events` remembers whether something freed, or beyond
a clause, was used, and behaviours end there.

**Terms, Compiler, Clauses.** `Compiler` translates clauses as `compiler.c` does, branch by branch,
with what it knows about each variable (`fresh`, `safe`). `Clauses` runs the result on one array
of words for heap, frame and arguments. There is one action for each instruction and mode.
Its history variables say what the source has unified; `MostGeneral`, a unification written
for terms rather than words, is the reference. The instructions B_FIRSTVAR, B_VOID and H_VOID are
not there, as the compiler never emits them. Goals that are called succeed, fail, or bind one of their variables.

**Reader.** A text is a sequence of lexemes, and the lexer decides which of the adjacent ones are one token.
`format_term` and `read_expression` are translated with all their recursion; `stream` keeps tokens that were looked at and
put back. `Regular` says which terms are expected to come back.

**Findall.** The records under the key `'.'`, with the findalls that run. The generator
may run another one, give a solution, end, throw, or be dropped with its query. `bagof/3` collects
the same way when its goal has no free variables.

**Arithmetic.** Numbers have the type of their representation. `Evaluate1` and `Evaluate2` apply one
function to the last result; `Wanted1` and `Wanted2` are the reference, and `Departs1` and `Departs2`
say, exactly, where the code gives something else.
The greatest long is `LONG_MAX`, and longs wrap. What is undefined (a big integer read as
a long) may be any long. `max` and `min` have their operands evaluated once more to compare them, which matters if the expression `varies` (it has
`random` in it), and what GMP's comparisons return has a sign but need not be 1 or -1 (`AnyWith`).

**Streams.** The bytes of one file, and the buffer. `lost` and `strayed` remember whether what
was written, or the way it was read, leaves nothing to compare.

What `at_end_of_stream` does to the buffer is in `Peek`; its answer, which is the opposite of what its name says (`foreign_impl.c:566`), is not modelled.

**Database and Language** choose at the start which of their components moves (`part`): they
share no state, because each stands on what the ones below promise: clauses are kept in lists
that are sequences, by maps that answer as maps, in words that keep their meaning. The
product of their states would say no more. What one run checks is the sum.

## Runs

| Run | What it asks | Bounds |
|---|---|---|
| `Kernel.cfg` | `TypeOK`; `TrailRestores` and `Backtracking` (the trail stands for copies of the heap); `NoOverlap` (nothing in use is overwritten); `CutTargets` (what a cut goes back to is there); `NoUseAfterFree`, `NoLeak` (clauses of `call/1`) | 6 words, 2 cells, 2 clauses; mixes: predicates with `catch/3` and `call/1`, `call/1` with conditions and cuts in them, foreign predicates, cleanup handlers with conditions |
| `Exceptions.cfg` | `NoOverlap`, `NoUseAfterFree`, `NoLeak` of programs that throw, and `CatchTargets` (a ball finds the choicepoint of its `catch/3`) | 11 words, arguments of 1 word, 1 cell, 3 clauses; `catch/3` with unknown procedures, or with foreign predicates |
| `Queries.cfg` | `OuterIntact`, `OuterNotFreed`, `OuterStay`: queries leave the ones around them alone; `CutTargets`, with errors too | 10 words, arguments of 1 word, 2 saved states, 3 clauses, no heap; foreign predicates with `catch/3`, with cleanup handlers, with `call/1`, and with errors after a choicepoint |
| `Database.cfg` | `LinksMatch`, `ListsAreSequences`; `LooksUpWhatWasPut`, `SizeCounts`; `OnlyGarbageIsDeleted`, `CountsCover`, `FreeListIsDead`; `CodeIsClauses`, `ClausesRecover`, `RetractsItsClause`, `NoFreedUse` | 4 cells; 4 keys that collide, tables of 4, 8 and 16; 4 constants, 2 words of heap, 2 copies, no copy of what is counted 4 times; 4 programs of two clauses, 3 copies of them, 2 choicepoints |
| `Language.cfg` | `CallsAreInstances`, `FailsRightly`, `NoFrameReferences`; `ReadsWhatWasWritten`; `OwnSolutions`, `RecordsAreOwned`, `CollectingEnds`; `ArithmeticIsExact`, `ComparesAsValues`, `FitsMeansLong`; `WrittenReadsBack`, `PeekIsNext` | 7 queries on 153 definitions; terms two operators deep; 2 findalls of 2 solutions; longs of 4 bits; 3 code points in a buffer of 4 bytes |
| `CleanupFrees.cfg` | `ClausesInUse` with cleanup handlers: **violated** | 7 words |
| `QueryCondition.cfg` | `NotesKept` when the goal of the query has conditions: **violated** | 8 words |
| `CatchBindings.cfg` | `TrailRestores` with errors: **violated** | 7 words, 1 cell |
| `UnknownLastCall.cfg` | `FreedOnce`: **violated** | 9 words |
| `NestedBindings.cfg` | `RestoreUndoes`: **violated** | 8 words, 1 cell, 1 state |
| `LateError.cfg` | `QueriesAreSafe` where foreign predicates raise errors after leaving a choicepoint: **violated** | 10 words, arguments of 1 word, 1 state |
| `Negation.cfg` | `CallsAreInstances` where a variable occurs first in `\+`: **violated** | 2 queries, 3 definitions |

The bounds. The constants `StackSize`, `HeapSize` and `TrailSize` stand for the sizes of
the memories, which the code has too, only larger; an action whose result would
not fit is not taken (the code does not check most of them). `MaxLocals` and
`MaxStates` bound the clauses and the saved states at a time, `MaxSlots` the cut slots
of a clause. Six words hold the two frames of the query and four more frames or
choicepoints: a cut over a choicepoint over a frame over a choicepoint, a
`catch/3` with its goal and a choicepoint in it. `QueryReserved`, the cut slots of
the goal of the query, is 0 except in `QueryCondition.cfg`, which shows why: the goals of
the other runs call everything else. Eleven, in the run with errors,
hold two nested `catch/3` with their choicepoints, arguments and goals. One
atom is enough, because no property tells values apart; one or two cells,
because each property is about one binding and at most one that is older.
A query ends, or fills the stack: so the runs do not check for deadlock.
In `Queries.cfg` choicepoints save arguments, so that a foreign predicate's is larger than what it begins with. Ten words hold
a query in a query in another, with choicepoints in each. `OuterIntact` excepts programs in which a foreign predicate raises an error after it left a choicepoint (`"late error"` in
`uses`; one of the four mixes has it, for the other properties): `make_foreign_cleanup_choicepoint_h` leaves `SP` below the
arguments it saves (`kernel.c:2096`). Within one query that does no harm: whatever takes the ball moves `SP` first, and `NoOverlap` holds. But if
nothing takes it, the choicepoint stays, and the next query on the same saved state starts over its arguments: `LateError.cfg` shows it.

In `Database.cfg`, a chain of hash slots wraps around and three of four keys share one, in a
table of four and after it doubled. Three clauses are needed for a retract to
have one before and one after it. `MaxChoices` is two because a change by one goal
disturbs another. The programs have two facts, two rules or one of each, with constants or a variable as arguments. Predicates whose behaviour has ended stop there, so that run does not check for deadlock.
Two atoms and a functor named as one of them are what the collector needs to take one for the other; counts up to four allow two clauses of one functor,
of which a copy is freed for good and another one read in its place, and slots of the table are used again. Behaviours of the table end after such an `abolish/1`.

In `Language.cfg` each kind of head (a variable twice, structures, nested structures, constants)
meets each kind of body: a variable that is first seen in the head, in a goal, in a structure, in one branch,
in a negation, and used after it. The queries make arguments unbound, shared, or structures. Twenty-four cells
of heap are more than any of them uses. Two operators, one below the other on either side, are where brackets
matter; the prefix and infix names are those that differ in priority, associativity or being words.
In four bits all kinds of sums, differences, products and divisions of longs overflow, and so
do those of their results; a result above `Magnitude`, twice the largest long, is checked but evaluated no further. The code points are those at which the length of their encoding
changes, and three of them end at every place of the buffer.

**Fairness.** The one fairness assumption is on `Collecting` of `Findall`: `list_instances` is a
loop that runs by itself between two calls of the generator. From it follows `CollectingEnds`. No liveness is stated
of the machine: a Prolog program need not terminate, so there is no
fairness to assume that would make one of these runs say more. The one loop in the
machine that does not end though the program would go on, in C_LCUT, is a
state of its own (`status = "spin"`).

`NoUseAfterFree` and `OuterNotFreed` except programs with cleanup handlers, and the
first also calls of unknown procedures, because there the code does free clauses in use:
that is what `CleanupFrees.cfg` and `UnknownLastCall.cfg` show. `NoLeak` is stated for queries that
have not failed outright or ended with an error: the code has no line that frees
the clauses of such a query.

## What the failing runs show

* **Cleanup frees.** `cut_to` frees the clauses of the frames it gives up before it
  knows whether a cleanup handler will interrupt it, though a comment in
  `types.h` says a clause is freed when its frame cannot be come back to.
* **Query condition.** `prepare_query` leaves no room for the cut slots of the goal: in
  a directive such as `:- (member(X, [1,2]) -> write(X)), fail.` the note of C_IF_THEN_ELSE
  is overwritten by its own choicepoint, and the condition is not cut.
* **Catch bindings.** After an error is caught, variables that were bound between
  the call of `catch/3` and the next choicepoint are still bound, and are no longer
  on the trail.
* **Unknown last call.** If the last call of a goal of `call/1` is of an unknown
  procedure, within a `catch/3`, the clause of the goal is freed twice.
* **Nested bindings.** `restore_state` does not unwind the trail, though `README.md` says
  that it undoes what happened since `push_state`.
* **Late error.** A foreign predicate leaves a choicepoint with `make_foreign_cleanup_choicepoint` and then raises an error, which nobody catches, in
  a query that another foreign predicate runs after `push_state`. The next query on the same saved state begins within the arguments of that choicepoint, which is still in the chain.
* **Negation.** The compiler takes the variables of a negated goal for made after it.
  `p(a) :- \+ q(Z), r(Z, f(Y)).` passes a slot that holds no variable, and the program stops
  in the term writer.

## What the properties leave out, because the code departs

These were met while modelling, most of them seen in the program as well, and are exceptions in the
properties (by name, so that everything else is checked):

* *Cuts in conditions.* The loop of C_LCUT (a cut in a condition, as in `(p, ! -> q ; r)`) does not advance (`kernel.c:1351`): with more than one choicepoint above the condition it
  spins, with none the assertion after it fails. Both are states of `Kernel` (`spin`, `abort`) in which behaviours end.
* *Constants.* An atom on the heap that is also the name of a functor is deleted with the functor (`ctable.c:255`).
  The keys of records are not counted.
* *Abolish.* Every `abolish/1` of a predicate with clauses frees their copies and reads them again (`module.c:353`, `61`), and of an unknown predicate it reads the flags
  through a null pointer (`module.c:350`). A copy that has come to hold another clause has that clause's constants released twice, so that the assertion in `release_constant`
  fails, or the collector deletes what is in use. `NoFreedUse` and the properties of the constant table say nothing of a program that has done so.
* *Predicates.* `clause/2` of a fact with arguments either fails or reads beyond the clause (`foreign_impl.c:310`). Changing a predicate while a goal on it can be resumed uses freed code or clauses; clauses consulted after the
  first call are not seen until the next assert; a clause whose variable is bound by `clause/2` or `retract/1` is compiled as bound.
* *Maps.* A key put over itself after a removal can be in the table twice.
* *Reading back.* The list is at `Regular` in `Reader`: `(a-b)-c` is written `a-b-c` and read as `a-(b-c)`;
  `a+0` is read as `a-0`; `[a;b,c]` loses its comma; `-(1)` is written `-1`.
* *Arithmetic.* The list is `Departs1` and `Departs2`: a long with a big integer on its right reads the big integer's
  header as a long; `-` is tested for overflow as `+` is; `//`, `rem` and `mod` of big integers take 1 for 0, and the smallest long by -1 traps; `mod` truncates;
  the smallest long has no negation; `max` and `min` of big integers or rationals compare GMP's answer with exactly 1 and -1, so a greater first operand of `max`, or a smaller one of `min`, may lose (`arithmetic.c:1166`, `1184`);
  with `random` among their operands they compare other numbers than they return (`arithmetic.c:1165`, `1183`); `round` truncates; the parts of rationals are taken of the numerator twice.
* *Integers.* Sums of big integers that fit a long stay big integers, and after a literal that
  did not fit, the largest long is read as one (`parser.c:412`).
* *Streams.* On a file, `put_code` writes only the first byte of a longer code: `flush_stream` returns the 0 of
  `fflush`, which `putch` takes for a failure. 2048 is encoded in two bytes. `peek_code` takes the wrong bytes unless the
  character begins the buffer. `put_char` writes, and `get_char` gives, one byte. Putting to an input stream is an error, but the byte is read later.
  `set_stream_position` keeps the buffer. `close/1` is defined twice, the second time with a parameter that it is never given.

`Reader`, `Clauses`, `Arithmetic` and `Streams` were compared with the program built from this source,
on some fourteen hundred terms for the first and by hand for the others.

## What is proved

`KernelProofs`, for memories of every size, any number of slots, clauses, facilities
and atoms, from `BoundsAssumption` alone:

* `TrailIsSound`: `Spec => []TrailRestores`;
* `BacktrackingIsCorrect`: `Spec => Backtracking`, that is, `Kernel` implements `Checkpoints`;
* `MarksAreInRange`: heap and trail are well typed and within their sizes, the marks of
  the choicepoints lie within them and in order.

The argument: seen from heap, trail and choicepoints, every instruction does one
of four things (`StepShape`). It keeps, pushes, or drops choicepoints while the heap
grows; or it returns to one; or, when the query fails, empties everything. The
inductive invariant `TrailInv` adds to `TrailRestores` what it needs to survive a
step. A binding made now must be undone by every choicepoint there is: that
holds because the cell it binds was unbound, and the trail entry lies above every
mark (`GrowsKeeps`). Going back to a choicepoint must not spoil the older ones: that
holds because their marks are lower, so unwinding in two stages is unwinding at
once (`UndoneTwice`). And when the query fails every variable must be unbound again,
which takes `BoundAreTrailed`. TLC has checked `TrailInv` as an invariant of the `kernel`
run's instance as well.

With errors the first two are false (`CatchBindings.cfg`), so they are stated for `Kernel` only.

`KernelProofs`, second part, from the same assumption:

* `TypesAreRight`: `Spec => []TypeOK`;
* `CutsFindTheirTargets`: `Spec => []CutTargets`.

Neither is inductive. That the running clause can go back to its choicepoint when a call
returns depends on what the call was allowed to cut, and that the frame to which it
returns is still there depends on what was pushed since. `StackInv` says so for each
place to which control can come back, all in the same words (`Place`): for the current
one, for the one each frame returns to (`CallOK`), and for the one each choicepoint
resumes at (`ResumeOK`). A place is a frame, a position in its clause and an address
above which all is younger; its targets are ordered (`TargetsOrdered`); frames and choicepoints
that were pushed since come from calls it made (`Younger`); no earlier place of the same
frame has handed out more slots (`SlotsGrow`), so that a slot is not noted twice. The
targets of a frame need be there only as long as its own choicepoint is (`Anchored`):
a finished call below a choicepoint may have lost its targets to a cut, and then so have
all its callers up to the one that cut. Only `catch/3` differs: its frame notes a choicepoint
above itself.

The proof follows the stages in which instructions change the stack, with a lemma for each:
it loses its upper part (`StackShrinks`), a choicepoint is pushed (`ChoicePushed`), the current frame
notes a choicepoint (`FrameNoted`, `ConditionOpened`), a frame is pushed (`FramePushed`); and execution goes on in the
same frame (`ChoiceGoesOn`, `CutGoesOn`, `PlaceEntered`), in the caller (`CallReturns`) or at a choicepoint (`ChoiceResumes`). Then each
instruction is a few stages. `StackInv` was checked by TLC, with the constants of `Kernel.cfg`, before
it was proved. It is about addresses, not about sizes, so `NoOverlap` does not follow.

`MemoryProofs`, from the same assumption and `QueryReserved = 0`:

* `NothingOverlaps`: `Spec => []NoOverlap`.

The hypothesis says that the clause of the top-level goal reserves no cut slots. It is the case that `prepare_query` is written for: it
moves `SP` past the variables of the goal only, and the run `QueryCondition` shows what is overwritten otherwise. `MemoryInv` adds the sizes
to `StackInv`: each frame and each choicepoint ends where the next begins, or earlier, and all of them below `SP` (`Sized`). `NoOverlap` alone would not
survive backtracking, which writes the number of slots of the next clause into a frame: that frame may
grow because nothing lies between it and its choicepoint (`Restores`). The lemmas say for each way in which `SP` moves that it comes to a place across
which nothing extends (`Boundary`): the end of a frame, the end or the beginning of a choicepoint.

`MemoryProofs`, second part, from the same assumption:

* `ClausesStayInUse`: `Spec => []NoUseAfterFree`;
* `ClausesAreNotLost`: `Spec => []NoLeak`, if `QueryReserved = 0`.

The clause of a goal of `call/1` or `catch/3` is freed by whatever gives up the frame that owns it: an exit or a last call that leaves
no choicepoint above the frame, a cut, or backtracking. All of them decide by comparing addresses, while who can still run is a question of
who called whom. `UseInv` has what connects the two, again for each place to which control can come back. What lies between
two places was called from there (`Nested`). What was pushed after a condition noted its target, and above that target, was called since (`Apart`): so a cut
inside the condition does not reach the frames of calls that were made before. A choicepoint newer than the one that a frame found is
above the frame (`Since`). Then in a program without cleanup handlers each clause has one owner among the frames that can still run (`Owners`), and in every program
each clause has at least one (`NoOrphans`). The second needs `MemoryInv`: an exit keeps the clause if its frame is not above the new `SP`, which is
where the caller or a choicepoint ends, and only sizes tell that such a choicepoint is above the frame (`KeptBelowChoice`).
The lemmas follow the stages: a frame is pushed (`CallStage`), left (`LeaveStage`), a choicepoint is pushed (`ChoiceStage`), some are cut
(`CutDrops`), or backtracked over (`BacktrackDrops`).

`ExceptionsProofs`, from the same assumption:

* `TypesStayRight`, `CutsStillFindTargets`: `ThrowSpec => []ThrowTypeOK`, `ThrowSpec => []CutTargets`;
* `CatchersFindTheirChoices`: `ThrowSpec => []CatchTargets`;
* `ErrorsKeepClausesInUse`: `ThrowSpec => []NoUseAfterFree`;
* `ErrorsOverwriteNothing`, `CaughtErrorsLeakNothing`: `ThrowSpec => []NoOverlap`, `ThrowSpec => []NoLeak`, if `QueryReserved = 0`.

When a ball has been raised, `SP` may be too low, and when `RaiseDepart` frees the clause of its frame, that frame can no longer run. So
the invariant `ThrowInv` says less of a stack with a ball on its way (`Thrown`): there is an address above everything that belongs to the
frame that raised it, and that frame can be come back to (`Catchable`). The same is then true of all its callers (`CallersCatch`), and the
choicepoint that a `catch/3` among them has noted can only be its own, because it lies above the frame (`CatcherHasChoice`). A catcher that takes
the ball goes back to that choicepoint, so what is left is the older part of the stack (`CatcherLeaves`), and the clauses freed are those
that backtracking there would free (`CatcherOwns`). Nothing but the frame of the catcher lies above the place of its call, so its handler can be called
from there (`TakesRuns`), although the frame itself, which is marked, can no longer be come back to (`CaughtPlaces`). Last, frames that own clauses are those of
predicates (`LocalFrames`): the one of the catcher, which is passed over, owns none. The hypothesis of `NoUseAfterFree` excludes what `UnknownLastCall` shows.

`ExceptionsProofs`, second part, from the same assumption:

* `SavedStatesTyped`, `CutsFindTargetsWithin`: `QueriesSpec => []QueriesTypeOK`, `QueriesSpec => []CutTargets`;
* `QueriesFreeTheirOwn`: `QueriesSpec => []OuterNotFreed`;
* `QueriesKeepToThemselves`: `QueriesSpec => OuterStay`;
* `QueriesOverwriteNothing`: `QueriesSpec => []OuterIntact`, if `QueryReserved = 0`, with arguments of any number.

A query that lies above an address, with its frames, the callers of these, and the choicepoints (`Inside`), stays above it and leaves what is below alone (`Stays`),
whatever instruction it executes (`StepInside`): nothing returns to a frame below, because the frame of the host, which has no caller, is in between. With the address
where the choicepoint of a saved state ends, this is what the invariant `QueriesInv` says of the query that runs and each saved state (`Reaches`), and of any two
saved states (`Layered`). A saved state itself can be restored (`Resumable`): the frames below its choicepoint, with the choicepoints that were there, are a
stack on which a foreign predicate runs, and its clauses are owned by those frames only. `push_state` establishes this, since the machine satisfies it (`SavedNow`);
what leaves everything below alone preserves it (`ResumableStays`); and for `restore_state` it is the invariant of the machine that goes on (`RestoredRuns`), provided that
what the abandoned query gives up lies above (`GivenUpAbove`). Between queries less is known: after an error choicepoints are left with no frame current, and after a failure there is
no choicepoint, so a query is only asked above whatever the stack pointer leaves (`QueryRuns`).

The invariant of the last theorem, `PackedInv`, adds sizes: frames and choicepoints of the query that runs lie one above the other and below `SP`, those of a saved state below its
choicepoint, and no frame is where that is (`SavedPacked`). While a ball is on its way they may reach above `SP`, but nothing extends across it
(`Packed`), so a query asked after an error starts where nothing is cut in two (`ExecuteQueryPacked`). It is this that fails when a foreign predicate raises an error after it left a choicepoint (see the bounds), which is why
`OuterIntact` excepts such programs; arguments alone do no harm. What `ThrowSizes` says within one query, of all programs, is weaker. The choicepoints saved with one state
all end before the next begins (`Reaches`, `Layered`), so those of any two levels are in order (`AllInOrder`).

`ContainersProofs`, first part, from `CellsAssumption`:

* `LinksAreMirrored`: `ListsSpec => []LinksMatch`;
* `ListsImplementSequences`: `ListsSpec => ListsAreSequences`.

No variable holds the order of the cells, so the invariant `ListsInv` has it from a walk: what a walk finds is a path
without repetition, `next` and `prev` of each cell on it are its neighbours (`Linked`, without `prev` of the first cell once
one was shifted), and there are no other cells. Conversely a walk along a path finds it (`ForwardFollows`, `BackwardFollows`). Each operation is
then two lemmas, on the links (`AppendLinks`, ...) and on the values along the new path (`UnshiftedValues`, ...). Removing cells one after the
other needs an induction on how many.

`ContainersProofs`, second part, from `HashAssumption`, which allows every hash function, table and bound, and chains up to the length of the smallest table:

* `TablesAnswerAsMaps`, `SizesCount`: `MapSpec => []LooksUpWhatWasPut`, `[]SizeCounts`;
* `MapKeepsInv`: `MapSpec => []MapInv`, the inductive invariant.

`MapInv` adds what the two properties need to survive a step: an element is in the chain of its key, and the size is at least the number of elements (`Good`); no key is in
two slots (`Distinct`); and until a key is removed, none of the slots before an element in its chain is empty (`Gapless`). The last is why a key put over itself is put
where it is: without gaps the first slot that is empty or its own is its own. When a key is new no gap matters. So `Puts` says what a put does under either condition, and
holds of a put into a table that must grow if it holds of the put into the larger ones (`PutOrGrowFacts`): those only put keys that are new in a table without
gaps (`RefilledFacts`). `PutIsOK` is the induction.

`PredicatesProofs`, from `PredAssumption`:

* `CodeFollowsClauses`, `ClausesAreRepaired`: `[]CodeIsClauses`, `[]ClausesRecover`;
* `NothingFreedIsUsed`, `RetractDeletesItsClause`: `[]NoFreedUse`, `[]RetractsItsClause`.

`PredInv` adds for the first that every block that differs from the clause asserted is on the trail, and held a variable; for the other two
that all choicepoints can go on (`Resumable`): the snapshot of a `clause/2` holds nothing that was freed, and that of a `retract/1` is a run of the clauses as they are
now, before which none unifies with the goal (`InStep`). So the first clause that unifies, which is the one that the code
deletes, is the one at hand. The last needs `ListedOnce`. `NothingFreedIsUsed` is about programs that abolish no predicate with clauses, and the third, like the fourth,
about those that change the predicate only when no other goal on it can be resumed.

`ConstantTableProofs`, from `TableAssumption`, which says that `TableSize` is a number:

* `CollectorIsSafe`, `NoCountTooLow`, `FreeListIsSound`: `TableSpec => []OnlyGarbageIsDeleted`, `[]CountsCover`, `[]FreeListIsDead`;
* `TableIsSound`: `TableSpec => [](~undefined => TableInv)`, the inductive invariant: nothing is said of the table after `abolish/1` has read what it freed.

It has three layers. The table alone (`TableOK`): some sequence begins with `nextFree`, visits each deleted slot once by its links, and ends; and equal constants
have one index. The table and how often each constant is owned, `o` (`Sound`): names of functors are atoms that are there, and each count is
at least `o` and the functors of that name (`Covers`). And the owners (`Good`): `o` is the sum of what the predicates and records hold, and what they hold
still means what it did. So most of the proof is about tables and some `o`, whatever owns: counts that move (`Shifts`, `Recounted`), constants that are
interned (`IsMade`, `Extends`), deleted (`IsDeleted`: a functor takes its name along if nothing else counts it) and swept one index after the other (`Swept`). What
remains for each action is what its owners gain or lose: a copy its words, code the words of the clauses, a record its words. `OnlyGarbageIsDeleted` then holds because
what means something is live, and what is owned is not deleted; and the chain that `FreeListIsDead` follows is the sequence of `TableOK`.

`LanguageProofs`, first part, from `ArithmeticAssumption`, which allows every `LONG_MAX`, all literals and all rationals:

* `EvaluationIsExact`, `IntegersThatFitAreLongs`, `NumbersCompareAsValues`: `[]ArithmeticIsExact`, `[]FitsMeansLong`, `[]ComparesAsValues`.

The invariant `ArithmeticInv` adds that numbers are what their types say (`NumberOK`): a long is in range, a rational in lowest terms. Without that the tests for an
overflow mean nothing. Of the comparisons in `max` and `min` only the sign is known (`CompareFacts`), so `ExtremeRight` needs what `Departs2` excepts. Each function has a lemma that its result is `Right1` or `Right2`: exact, or in
`Departs1`, `Departs2`. They rest on what the tests for overflow say, on dividing by the greatest common divisor, and on truncating division
being division of absolute values.

`LanguageProofs`, second part, from `SolutionsAssumption`:

* `FindallsReturnTheirOwn`, `FindallsTakeTheirRecords`: `[]OwnSolutions`, `[]RecordsAreOwned`.

`FindallInv` adds that only the innermost findall collects, and that what it has collected is the end of what its generator gave.
What is left below the findalls that run, by errors and dropped queries, stays below.

`LanguageProofs`, third part, from `StreamsAssumption`, which allows every buffer and all code points of Unicode:

* `WhatIsWrittenIsRead`, `PeeksAreNext`: `[]WrittenReadsBack`, `[]PeekIsNext`.

`StreamsInv` adds that the file can be divided into the bytes of the code points put in it (`Laid`), and that a stream whose reader keeps to code points is at the
start of the one after those given, with the bytes that follow in its buffer (`Told`). It rests on two things: that decoding inverts encoding, for all
code points but 2048 and by arithmetic alone (`BytesFacts`); and that reading a byte gives the next one of the file wherever the buffer ends (`GetbReads`), so that
`getch`, which takes two to four of them one by one, gives the code point (`GetchReads`).

`Recursion` has induction, and that recursive functions exist, as facts about sets of numbers; those of the library
take a formula as a parameter, which none of the provers can instantiate.

All these invariants were checked by TLC, on the instances of the runs, before they were proved, except `TableInv` and `StreamsInv`, which TLC cannot evaluate (of a free list,
and of a division into code points, they say that there is one): there the runs check what follows from them.

The translation that tlapm 1.4.5 makes for the SMT solver states that `Len(s)` is a natural number for every `s`, and that the domain of what has a length is an interval,
also where `s` is not known to be a sequence. All proofs have been checked a second time with the first of these statements taken out of what the solver is given,
so that none depends on it.

Only model-checked, because they are out of the prover's reach: `CollectingEnds`, which is a liveness property, and the properties of `Clauses` and `Reader`, which with `Terms` and `Compiler`
are recursive operators on terms.

## What is not modelled

* The modules predicates are looked up in, meta-predicates, and consulting: directives between clauses, with SP and H moved back.
  A model of consulting has the machine, the reader and the predicates in one state.
* Clauses that call `catch/3`, cut, or clean up, with arguments: `Kernel` has the control, `Clauses` the
  arguments, and they are not composed; nor are `Predicates` and `Kernel`.
* The term of an exception; what the cleanup callback of a foreign choicepoint does; recorded/3 backtracked into, which a comment calls a known bug.
* Numbers and blobs in the table of constants; hash functions.
* Quoting, escapes, strings, comments and the syntax of numbers; syntax errors, after which the code goes on with uninitialised values; `op/3`.
* The values of floats.
* String streams, `set_input/1` and `set_output/1`, a stream used after it was closed.
* `format/2`: layout without state. Flags other than `unknown` and the one for unbounded integers.
* `bagof/3` of a goal with free variables. Its records are pairs of key and template, and the handler of errors in
  `save_instances` collects with `list_instances/2`, which takes no pairs (`builtin.pl:53-57`): it fails, so an error that comes after a
  solution is lost.
* Built-ins that only inspect or take apart terms, atoms and strings, sorting, and what is written in Prolog apart from `findall/3`.
* Debugging; the scavenging of memory by the host; `fli.c`, `foreign.c` and `pre.js` apart from the protocol of foreign predicates.
