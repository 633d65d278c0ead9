# A formal model of dhad

dhad is a compiler, an interpreter and a browser playground for a small Arabic
programming language.  These modules model its parts in TLA+.  TLC checks them on
small instances; TLAPS proves some of the results for every value of the
constants.  Source paths below are relative to the repository's root.

Contents: [the system](#1-the-system), [modules](#2-modules),
[runs](#3-runs), [fairness](#4-fairness), [proofs](#5-proofs),
[divergences](#6-where-the-code-and-its-documents-disagree),
[what is left out](#7-what-is-not-modelled), [plan](#8-plan).

## 1. The system

```
 text --lexer--> tokens --parser--> AST --merge imports--> program
                            ^                                 |
            gen_parser_tables.py                         type checker
                                                    (stores types in the AST)
                                                        /            \
                                              interpreter          code generator
                                              exit, stdout         LLVM IR -> clang
 playground: page (app.js) <-messages-> worker (worker.js) -> wasm module (api.cpp) -> the pipeline
```

| Part | Source | State it keeps | Operations |
|---|---|---|---|
| Driver | `src/main.cpp` | options, temporary IR file, child process | parse arguments, compile, write IR, invoke clang |
| Pipeline | `src/pipeline/compiler.cpp` | source, AST, diagnostics | `compileString`, `compileFile`, `runString`, `runFile` |
| Import merging | same file, 50-181 | visited keys, the C++ stack, merged nodes | resolve, skip, recurse, splice |
| Lexer | `src/lexer` | position in the text | `getNextToken` |
| Parser | `src/parser` | LALR stack, one lookahead token | shift, reduce, accept, refuse |
| Table generator | `tools/gen_parser_tables.py` | item sets (at build time) | closure, goto, merge, rows |
| Type checker | `src/typing` | scope stack, loop depth, return type, errors | accept or reject, annotate the AST |
| Interpreter | `src/interp` | scope stack, heap of arrays and structs, errors, output | one evaluation function per node, call, execute |
| Code generator | `src/codegen` | LLVM module, compile-time scopes, loop targets | one emit function per node |
| Standard library | `src/std` | table of builtins | `print` |
| Playground | `web/app.js`, `web/worker.js`, `src/web/api.cpp` | worker, pending requests, timers, buttons, wasm heap | parse, run, time out, replace the worker |

How they interact.  Everything in C++ runs in one thread by direct calls.  The
AST is the contract between the parts: the parser builds it, the checker stores
types in it, the interpreter and the code generator walk it separately and must
give it the same meaning.  The playground is concurrent: the page and its workers
exchange messages, and timers, clicks and late events of workers that were
already terminated interleave.

What is hard in each, and what makes it correct:

* **Import merging.**  Recursion over a graph with diamonds and cycles, with a
  failure at any depth.  Each file is merged once, imports before importers; the
  recursion ends; a failure hands no program on and names a module that really is
  missing or unparsable.
* **Parser and tables.**  LALR merging and a conflict settled in silence; lists
  built by prepending and by appending.  The parser accepts exactly the sentences
  of the grammar, keeps every token in its order, and always stops.
* **Checker and engines.**  Non-local exits through nested scopes; a pointer into
  the scope stack held while calls push and pop; evaluation that goes on after
  the first error; implicit conversions at six places; checked 64-bit arithmetic;
  two independent walks over one AST.  A program the checker accepts fails only
  with the documented faults, and both engines print and return the same.
* **Playground.**  A timer against a late reply; errors of a worker that was
  replaced; input edited while the module loads.  Each click is answered once, by
  the result of its own request, and the buttons always come back.
* **Lexer.**  Five readers, each with its own way to stop; invalid or truncated
  UTF-8 must be consumed, or `getNextToken` returns at one place for ever.  The tokens
  tile the text, are the longest ones, and never end inside a character.
* **Type names.**  Two functions call each other over a graph of declarations,
  cyclic or not, in an order two hash tables decide; a failure half way must leave
  nothing that changes a later answer.  Every report is true, every defect is
  reported, and the order makes no difference.
* **Entry points.**  A pipeline whose every stage may fail, with a temporary file in
  one program and two buffers in the wasm heap in the other to give back on every path;
  what the user is told (status, messages, JSON reply) must be what happened.

`PROJECT.json` lists every component with its status, and each hazard at the line
where it bites with the properties that cover it.

## 2. Modules

| Module | Models | Kind |
|---|---|---|
| `ImportSemantics` | the depth-first post-order a merge promises | abstract specification |
| `Imports` | `prepareProgram`, `mergeImports`, `resolveModule`, `isStdModuleImport` | state machine |
| `MCImports` | every graph of three modules | TLC instance |
| `ImportsProof` | type correctness, `MergedOnce`, `NoReentry`, `FailureIsReal`; the merger implements `ImportSemantics` | proofs |
| `Numeric` | `common/numeric.hpp` over any width | operators |
| `Lang` | AST nodes, checked types, runtime values | operators |
| `Checker` | `typing/checker.cpp`: acceptance and the types stored in the AST | recursive operators |
| `Interp` | `interp/interpreter.cpp` | state machine |
| `InterpProof` | scope discipline, live bindings, silence after a fault, failures reported; exactness of the overflow tests and the exit status | proofs |
| `TypeNames` | `registerTypeDecls`, `resolveNamedType`, `resolveTypeExpr` of `checker.cpp` | state machine |
| `TypeNamesProperties`, `MCTypeNames` | what type names denote, by the declarations alone | reference definition, TLC instance |
| `TypeNamesProof` | what `resolvingTypes_` and `namedTypes_` hold, that every type is what the declarations denote, and what a reported error says | proofs |
| `Native` | the meaning of what `codegen/codegen.cpp` emits | recursive operators |
| `Engines` | checker, interpreter and native binary composed | properties |
| `Samples`, `MCEngines`, `MCDivergences` | the programs the engines run on | TLC instances |
| `Lexer`, `MCLexer` | `lexer.cpp`, `tokens.def` over bytes | state machine, TLC instance |
| `LexicalGrammar` | characters and tokens as slices of a text | reference definition |
| `LexerProperties` | the lexer against both | properties |
| `LexerProof` | tokens end at characters, tile the text and are those of `LexicalGrammar` | proofs |
| `Actions` | the semantic actions of `actions.cpp` | data |
| `SemanticValues` | `SemanticValue`, `take<T>`, `builders.cpp` | operators |
| `Grammar` | all 131 productions of `grammar.def`, each with its action | data |
| `RuleSets` | what generator and parser both see in a sequence of rules | operators |
| `Tables` | the table generator | recursive operators |
| `GeneratedTables` | `Tables` applied to `Grammar`: the generated header | data |
| `Language` | what a grammar derives, independent of any table | reference definition |
| `Parser` | `parser.cpp` and the actions, over any rules and tables | state machine |
| `ParserProperties`, `MCParser` | the parser over the generated tables, against `Language` | properties, TLC instance |
| `ParserProof` | reductions find children, alternatives and goto; what is accepted is derived; the order of the text is kept | proofs |
| `PlaygroundService` | what a click is promised | abstract specification |
| `Playground`, `MCPlayground` | `app.js`, `worker.js` | state machine, TLC instance |
| `PlaygroundProof` | types, timers and requests, the module a worker has loaded, resets, results shown | proofs |
| `PlaygroundRefinement` | the page implements the safety part of `PlaygroundService` | proofs |
| `EntryPoints`, `MCEntryPoints` | `main.cpp`, the stages of `compiler.cpp`, `api.cpp`, `invokeSource` | state machine, TLC instance |
| `EntryPointsProof` | nothing is left behind, what is told is true, output arrives; the JSON round trip | proofs |

Definitions carry the names the source uses; "map" in `PROJECT.json` gives the
lines of each.  Definitions introduced by *A slip* are the mutations that show
each property can fail: they are used by no specification.

### Imports

The C++ call stack is the variable `stack`: one frame per active `mergeImports`
with the module, the position in its loop over the declarations and the local
vector `merged`.  `visited` is the `ImportSet`; the key enters it before the file
is parsed, as in the code (`ImportUnparsable` therefore leaves the key behind).
`ImportNotFound` and `ImportUnparsable` empty the stack in one step, because each
active call returns false as soon as its callee does and does nothing between.
Their diagnostic holds the stage and the module to blame.  It does not say which file
imports that module: the code leaves `sourceName` empty, and then prints no location
either, so `FailureIsReal` asks that some file imports it that was read and parsed.
A module's own declarations stay together, so they are written as the module.
The root has a key only when the compilation is named (`input.named`); compiled
from memory it may be merged again through a cycle, which `Recognised` states.
`ImportSemantics` knows no stack: a module may be emitted when each of its imports
was, or depends on it in turn.  What is reached from a module is the least set that
contains it and is closed under the imports of files that parse.  The refinement maps
the emitted modules to `Emitted`: the program once it is there, before that what the
active calls have spliced so far, read from the outermost frame inwards.

### The engines

`Interp` is a machine with an explicit continuation: `ctl` is what is being
evaluated or the value or signal just delivered, `kont` the active C++ frames
(one frame record per evaluation that waits for a part, with the operands
already evaluated and the binding an assignment holds), `scopes` the vector
`scopes_`, `heap` the shared arrays and structs, `errors` and `out` the error
list and standard output.  One action per way a node goes on.  Errors do not
stop the machine: as in the code evaluation continues with `Null` values until
someone looks at `errors_`.

`Checker` returns for each expression the type `checkExpr` stores, or rejects;
`Checked` is the annotated program, `Accepts` the verdict.  `Native` computes the
outcome of the compiled program: it models what the emitted instructions do (null
and bounds guards, overflow intrinsics, one alloca per declaration at
compile time, jumps, the entry wrapper and `exit`), with the code generator's own
order of evaluation.  `Engines` runs the interpreter and compares with
`NativeRun` when it ends.

Integers are `-Half..Half-1` and exit statuses `-ExitHalf..ExitHalf-1` with the
code's checks; a C++ value that would leave the range is a fault exactly where
`numeric.hpp` and the LLVM intrinsics say so.  Floats are exact rationals.

### Parser

`Tables` is the generator: nullable symbols and FIRST sets, closure, the
canonical LR(1) states, their merge by core, the action and goto rows with shift
preferred at a conflict.  `GeneratedTables` evaluates it on `Grammar` (770 LR(1) states,
232 LALR states, one shift/reduce cell).  `Parser` takes rules, tables and the items
of each state as constants; four assumptions say what `parse()` and the actions rely on
without testing it: each action takes from a child what every rule of that symbol gives
(`GrammarAssumption`), it keeps children in their order and drops only tokens without a
trace in the AST (`ActionsAssumption`), each entry of the tables follows from the items
of its state (`TablesAssumption`), and no token is the absent lookahead
(`VocabulariesAssumption`).  TLC evaluates them on the
real grammar and its tables in both runs.  The steps are `EnsureLookahead` (with the lexer,
which delivers any token of the vocabulary and `ENDF` for ever after the end),
`ShiftToken`, `ReduceRule`, `AcceptText`, `RefuseText`.  A semantic value says which
alternative of the `std::variant` it holds and is a tree over token positions.
`Actions` has, for each action of `actions.cpp`, the alternatives it takes from its
children, the one it gives, and which children it keeps in which order; `take<T>`
gives an empty `T` when the alternative is another one, as in the code, so a
production with the wrong action loses part of the tree without a word.  `Language` derives sentences leftmost with no knowledge of tables and
records the order in which an LR parser would reduce, so "the reductions
are a derivation of the text" is a membership test.

### Lexer

`text` is a sequence of bytes.  `reading` is the reader `getNextToken` is in; each
reader takes one character at a step, as its loop does, with `decodeNext` as the
operator `Decoded`.  `tokens` is a history variable: what was returned so far, each
token by its place in the text with its line and column.  `LexicalGrammar` says what
a character and a token are without a lexer, as sets of slices; the lexer must yield
the longest one at each place.  Its characters are those of `decodeNext`, which looks at
the lead byte and the number of continuation bytes only: an overlong encoding is
taken as the character it encodes (`C0 BD` is an equals sign).

### Type names

A call of `resolveNamedType` or `resolveTypeExpr` that is not over is a frame: the
compound being resolved, the part it stands at, the parts that are done, and for a
declaration its name (`owner`).  `call` is what is asked or answered now.
`resolvingTypes`, `namedTypes`, `structDecls`, `enumDecls` are the members of the same
names.  `ResolveDecl` picks any declaration of a table that was not tried, which stands
for the iteration order of an unordered map.  A program carries `types`, its type
expressions.  `TypeNamesProperties` has the meaning of an expression by the declarations
alone, with no order and no failure: what a program reaches from its root (`Reached`)
and what has a type (`Defined`) are least sets of expressions, and `Denoted` is the one
map from the defined expressions to types that agrees with the declarations.

### Entry points

A `world` is fixed at the start: which entry is called, the command line, the faults
that would befall a stage that is reached, what the program prints and returns.
`stage` is where the entry stands, one action per stage, with the early returns of the
code: main's argument loop an argument at a step, the pipeline, the temporary
file, clang, the removal; or the two allocations, the module, the reply and the two
frees of `invokeSource`.  `Interrupt` and `Trap` may come at any stage they can.
`jsonString` is modelled by what it does to each character, and `JSON.parse` by what it
reads back.  The command line also has a meaning of its own (`AsksHelp`, `Misused`,
`Target`), stated over the whole line, which the loop is compared with.

### Playground

Every action is one task of the page's event loop with the promise continuations
it triggers, or one task of a worker.  `state` is the object of that name
in `app.js`; `workers` holds every worker ever constructed with the messages in
both directions, so events of a terminated worker are still there to be delivered;
`timers` are the timeouts neither fired nor cleared; `handler` is the click
handler in progress.  A worker's task may fail or never be taken, which
stands for a program that does not end.  `PlaygroundService` is the promise: an answer to a
click is a failure, or the result of the source at the time it was sent by
the module whose path was in the field at the click.

## 3. Runs

| Run | Question | Bounds |
|---|---|---|
| `imports` | Is each module merged once, in order, and does a failure name what really failed first, on every graph? | 3 modules, each with up to 2 imports out of the modules, the standard module and a missing one; any of the imported files unparsable, or the root; root named or not |
| `engines` | Does a type-checked program only fail as documented, are scopes and stored types right, and do the two engines agree? | some 960 programs: every pair of 30 statements, arrays null or with one element; 5-bit integers, 3-bit exit status |
| `parser` | Do the generated tables and the parser accept the language of the grammar, and build the right tree? | every text over six vocabularies: statements 18 tokens, expressions 8, types 14, functions 12, bindings and imports 7, struct literals 12 (`ENDF` included) |
| `lexer` | Are the tokens those of the token language, on every text? | every text of up to 4 to 6 bytes over six alphabets: whole, broken and overlong UTF-8, digits and dots, strings, operators, keywords beside and inside words |
| `type_names` | Does every name get its meaning and every defect a true report, in every order? | every program of three declarations, the first with two members and the others with one; repeated names, members and compound types |
| `entry_points` | Is what the user is told true, and is everything given back, whatever fails? | every command line of up to 4 arguments; up to 2 faults at once for every entry; every text of up to 3 of 7 characters through the JSON reply |
| `playground` | Is every click answered once by its own result, in every interleaving? | 2 sources, 2 module paths and an empty one, 2 clicks, 1 worker error |
| `loop_declaration`, `skipped_declaration`, `field_order`, `dangling_else`, `identifiers` | the divergences of section 6 | one program each; the statements of the parser; texts of up to 4 characters |

Why the bounds are enough.  *Imports*: three modules hold a diamond (two paths
from the root to one module), a cycle through the root and one that avoids it,
self-imports and repeated imports; the proofs cover all graphs.  *Engines*: 30
statements contain every statement and expression kind with each implicit
conversion; a pair shows what the first leaves behind for the second (a
binding, a scope, an error, a heap cell).  With `Half = 16` sums, products and
negated literals of the samples reach both ends of the range; `ExitHalf = 4` makes
the exit status lose bits.  `Fuel = 30`
bounds `Native`'s calls and rounds; `AgreesWithNative` also fails if it is used
up, so it is never silently too small.  *Parser*: 18 tokens is the length at
which an `else` can follow `if (c) while (c) if (c) break;` with its own
statement, the shortest text with two derivations; the other five vocabularies
reach each list with two or three elements, two levels of operators, parameters,
imports and compound types.  Together they use every kind of action; not every
one of the 131 productions is reduced.  *Lexer*: no decision looks at more than four bytes, the length of the
longest sequence, so texts of that length hold every complete, broken and truncated
one; six bytes hold a keyword inside a word.  *Type names*: three declarations
make cycles of one, two and three names, a cycle that is reached but not entered, and
a failure below a name that is used again; a second member is what a failure of
the first may disturb.  *Entry points*: four arguments are `-o` taking an option as its value
and one thing after it; two faults show that the first one met decides; three
characters put every kind of character next to a quote and a backslash.
*Playground*: two clicks are a request and its successor, which is what a leftover
timer or a late event can hurt; a worker may be replaced by a timeout, by an error
and by a change of path in one behaviour.

What the runs show, by property:

* `imports`: `MergedOnce`, `NoReentry`, `FailureIsReal`, `Terminates`, and
  `Implements` (the merge is the post-order of `ImportSemantics`).  `MergedOnce` says
  nothing of an unnamed root; that a cycle repeats it once at most is in `Implements`.
* `engines`: `ScopesBalanced` and `HeldBindingsLive` (the scope vector and the
  pointer into it), `LexicalLookup` (although lookups search
  the scopes of all active calls, no accepted program sees its caller's variables),
  `StoredTypes` (implicit conversions are done wherever a value is stored),
  `OnlyRuntimeFaults`, `FailureReported`, `SilentAfterFault`, `AgreesWithNative`,
  and `Ends`.
* `parser`: `AcceptsOnlySentences`, `RefusesNoSentence` (a text is refused only if
  no sentence continues what was read), `TakesWhatItHolds` (each action gets the
  alternative it expects), `SourceOrder` (the trees on the stack hold every shifted token
  that the AST keeps, in the order of the text), `ElseBindsNearest`, `FailsOnlyAtACell`,
  `Answers`.
* `lexer`: `Tokenised`, `NeverSplits`, `Ends`.
* `type_names`: `Settled` (who gets which type), `Diagnosed` (true and complete
  reports), `Ends`.
* `entry_points`: `Truthful`, `Released`, `OutputPreserved`.
* `playground`: `TimersArePending`, `OneRequest`, `ReadyMeansLoaded`,
  `OneResultShown`, `NoStrayReset`, `Released`, and `Implements`.

Deadlock is not checked in `imports`, `engines`, `parser`, `lexer` and `type_names`, which stop
when they have an answer.  In `playground` it is checked: the user can always edit.  In
`entry_points` it is checked as well, with a step for an entry that is over.

## 4. Fairness

* `Imports`, `Interp`, `Parser`, `Lexer`, `TypeNames`: `WF_vars(Next)`.  The code is one thread that
  never waits; it takes its next step while it has one.  The parser assumes that the
  lexer delivers a token whenever it is asked.
* `Playground`: only that a timer that is not cleared fires.  Nothing is
  assumed of workers, messages or the user: `Released` must hold even if the
  worker is stuck in the user's program for ever.
* `EntryPoints`: none; its properties are about the states at the end.
* `PlaygroundService`: weak fairness of an answer, which the timers must deliver.

## 5. Proofs

Checked by TLAPS for every value of the constants.

**Imports** (`ImportsProof`, from `ImportsAssumption`).  `TypeCorrect`,
`MergesOnce`, `NeverReenters`, `FailuresAreReal`, `MergerImplements`.  `MergedOnce` speaks of `program`, which is filled in
the last step, so the invariant must say what the frames hold:
`IInv == TypeOK /\ HeldApart /\ HeldOnce /\ HeldVisited /\ NothingYet /\ MergedOnce`.
The modules held by a frame are those it has merged and the one it is
merging; no frame holds one twice (`HeldOnce`), no two frames share one
(`HeldApart`), all are in `visited` (`HeldVisited`).  Entering an import adds a
module that was not visited, so it is held by no one; returning moves what
one frame holds to the frame below it.  `FailuresAreReal` adds `Unbroken`: a file has a
frame only after it was parsed, so the file of the innermost call is one that was read,
that parsed and that imports the module the diagnostic names; and `ReadParsed`: while the
merge goes on, every file that was read parsed, so the failure is the first.

`MergerImplements`: every step of the merger is a step of `ImportSemantics` or a
stutter.  What was emitted and the files of the active calls account for `visited`; each
call was made for an import of its caller; and every import a loop has passed was
visited.  So when a call returns, each import of its file was emitted, or is still
active below it and therefore reaches the file.  When the outermost call ends, the root
and the emitted files are closed under imports, hence contain every file the program
reaches; when a merge fails, the file to blame is reached, because the active calls
are a path to it.  In an unnamed compilation the root may be among the emitted
files once, which the accounting keeps apart.

**Numbers** (end of `InterpProof`).  `AddExact`, `SubExact`, `MulExact`, `DivExact`: the
tests made before an operation accept a pair of operands exactly when the
mathematical result is representable, for every width.  The products go through
lemmas on the monotonicity of multiplication and division.  `ExitCodeCongruent`:
the exit status is the signed value congruent to the result.

**Interpreter** (`InterpProof`), for every program, type-checked or not.
`ScopesAreBalanced`: the number of scopes is what the active frames own, a call
frame owning one exactly while its body runs and a block frame from its
entry; every way out of a block or a call therefore restores the vector.
`BindingsStayLive`: a held binding lies in a scope owned by a frame below the
assignment, and those scopes only lose bindings when that frame is left.
`NothingPrintedAfterFault` is an action property from the actions that append to `out`.
`FaultsAreReported` needs that no evaluation is active once `run()` has made its result
(`Reported`), so no error can come after it.

**Lexer** (`LexerProof`, from `TextsAssumption` and `KeywordsAssumption`), for every
text.  `TokensEndAtCharacters`: the cursor never stands inside a character
(`Outside`), because a broken sequence is stepped over byte by byte and a complete one
as a whole.  `TokensTileTheText`: no gap between tokens and none empty but `ENDF`,
because a reader entered on the strength of a character still stands before that
character until it takes one (`Entered`).  `TextsAreTokenised`: each token is the
longest slice of a kind at its place and carries that kind.  What a reader has taken so far is of its
kind (`Taken`): letters after a letter, digits with at most one dot, no line break behind
a quote.  It stops where the next character would end that, so no longer slice is a
token and the one it returns is.  The lines and columns counted on the way are those of
the text up to the cursor (`Placed`).  The proof needs `decodeNext` to agree with the
characters of `LexicalGrammar` on all bytes, hence the overlong encodings.

**Parser** (`ParserProof`, from `VocabulariesAssumption`, `GrammarAssumption`,
`ActionsAssumption` and `TablesAssumption`), for texts of any tokens and any length, which the run cuts at 7 to 18
tokens.  The invariant says of each entry of the stack (`Entered`) for which symbol it
was pushed: the table has a transition on that symbol from the state below, the value
is a token at its place or what an action of one of the symbol's rules made
(`Represents`), and the symbol derives the entry's piece of the text by its piece of the
reductions, these pieces lying side by side without a gap (`Stacked`).  The LR
argument is `UnderItem`: an item whose dot has moved came from the state below with its
dot one symbol back, and no transition leads back to the start state, so under a state with a complete
item stand the symbols of its rule, and under them a state with that rule at its
beginning, which therefore has a goto.  Hence `ParserFailsOnlyAtACell`.  The children of a
reduction hold what rules of their symbols give, which the action takes
(`ParserTakesWhatItHolds`).  A reduction joins the pieces of its children into a
derivation (`DeriveRule`), so an accepted text is derived from `Program` by exactly the
reductions made, in their order (`ParserAcceptsOnlyPrograms`).  `Derives` is the least relation closed under the
rules, independent of tables; it says for every length what `AcceptsOnlySentences`
compares with enumerated sentences.  Nothing is assumed of lookaheads or of the
settled conflict: they decide which programs are refused and which derivation
is built, never whether there is one.

`ParserKeepsOrder`: whatever is read, the values on the stack hold every shifted token
that the AST keeps, once and in the order of the text, in every node and from value to
value (`SourceOrder`).  `ActionsAssumption` says of the actions only what each line of
`actions.cpp` shows: the children an action keeps are in increasing order, and those it
drops are tokens that leave no trace (`Dropped`).  That an element is put at the right
end of a list, of a sum or of a node is proved.  The inductive invariant is `OrderInv`: of every tree
on the stack, and of every node in it, the parts are in order (`Whole`, `Sorted`), and
no tree is deeper than the number of reductions allows (`Shallow`), so that
`SourceOrder`, which collects a tree level by level, reaches its leaves.  In a reduction an
action opens some of the children it keeps to their parts (the tail of a list, the
variants of a sum) and keeps the others whole (`Opening`); what it opens is joined in
order (`Collected`, for which `FlattenCollects` says what `FlattenSeq` does on any
sequence); so the new parts fit where the children stood (`Spliced`), and they become the
parts of one term (`Gathering`).  Trees are walked by paths instead of a recursion, and
minimal counterexamples over the natural numbers take the place of inductions.

**Type names** (`TypeNamesProof`, from `ProgramsAssumption` and `TypesAssumption`: the
declarations, and the finite set of their expressions, closed under parts), for every program.
`ResolvingHolds`: `resolvingTypes_` is the set of the owners of the active calls, on
every path out of a call, and no declaration is entered while it is being resolved; that
is what stops the mutual recursion.  `NeverRetypedHolds`: a name gets its type once,
because a name under way has none (`NotYetTyped`).  `RecursionIsMetHolds`: a recursion
is reported only at a declared name without a type whose own call is active.

`SettledHolds`: whatever order the tables are walked in, each type that is remembered or
resolved is the one the declarations denote.  `DiagnosedHolds`: every error reported is
true of the program; at the end there is none exactly if the program is well formed, and
every name without a type has its cause reported.  Both need one invariant, `Sound`,
which TLC checked on every state of the run before it was proved:

* `Filed`, `Phased`: the tables hold the first declaration of each name; which names have
  been tried, by how far `check()` is.
* `Remembered`, `Collected`: a type in `namedTypes_`, or resolved for a parameter, is the
  denoted one; while no error is reported nothing was left out.
* `Stack`: each frame resolves the expression that the frame below it waits for
  (`Awaited`), each of these is reached from the ones before (`Chain`), and the types a frame has
  gathered are those the parts behind it denote (`Gathered`).
* `Current`: what is asked is what the top frame waits for; a type that is answered is the one
  it denotes, and with a failure comes a reported error that explains it (`Blamed`).
* `Truthful`: every error reported is true.

An error is true for two reasons.  A part without a type leaves its whole
without one, by the leastness of `Defined`, so a failure stays true on its way up
the frames.  And where a name meets its own active call, the frames between the two are a
cycle of parts; no expression on a cycle is defined (`DefinedAcyclic`), because the defined
expressions less those on cycles are already closed.  That `Denoted` exists and is unique
takes no recursion: two solutions agree on a set that is closed, hence on all
of `Defined` (`SolutionsAgree`), and the expressions some solution reaches are closed
as well (`SolutionExists`).

**Entry points** (`EntryPointsProof`, from `EntryAssumption`: which arguments begin with
a dash, and the types of a world), for every command line, program and set of faults.
`ReleasesAll`: what is held is a function of `stage` (`FileHeld`, `BuffersHeld`); the
early exits leave from stages where nothing else is held, or go through the frees.

`TellsTheTruth` and `PreservesOutput` come from one invariant, `Telling`, which says of each
place what is known there.  While arguments are parsed (`Consumed`): some number k of
them is behind, none of those was wrong or asked for help, the next is not the value
of a `-o`, and the options are what those k say.  An argument is a value exactly if the
one before it is a `-o` that is not a value itself (`ValueNext`), which turns the
statement about the whole line into a step of the loop; the first argument that is wrong or asks for
help decides (`FirstDecides`), and at the end the options are those of the line
(`AllParsed`).  In the pipeline, the faults of the stages behind did not occur
(`Unbroken`); after it, the result succeeds exactly when no fault did, and else carries
one or two diagnostics (`ResultTrue`).  Behind it, what main or the worker has done so far
has met none of its faults (`Compiled`, `Invoked`).

`JsonRoundTrip`: `Decoded(jsonString(text)) = text` for every sequence of code points.
Escapes are read one at a time from the closing quote backwards; the recursions of
`FlattenSeq` and `Decoded` are taken apart into one equation for each position
(`FlattenUnfolds`, `DecodeUnfolds`), and the induction is a least counterexample.

**Playground** (`PlaygroundProof`, from `PlaygroundAssumption`), for any number of
clicks and faults and any sets of sources and paths: `PageTypeCorrect`,
`TimersFollowRequests`, `OneRequestAtATime`, `ReadyWorkerHasLoaded`,
`OneResultAtATime`, `NoStrayResetHolds`.  One invariant, `PageInv`, carries all six.
The one request in flight makes the branch of `ensureWorkerReady` for an
initialisation under way unreachable, and a task that settles it clears its timer in
the same step (`WellFormed`, `Serves`).  Another module path always comes with a new
worker, so the messages to one worker, the module it has and the replies it has
posted agree on one path (`OneModule`), whatever is still in flight.

`ImplementsSafely` (`PlaygroundRefinement`): every step of the page or of a worker is a
step of `PlaygroundService` or a stutter, so the run's `Implements` without fairness
holds for every instance.  The invariant grows by `Honest` and `Handles`.  An id is never
used twice and ids only grow, so a message to the page's worker, or an event from
it, whose id is pending is about the pending request (`Asks`, `Tells`); a new worker
starts with nothing in flight; and while the click handler waits, the path it was
started with is the page's current one.

Only model-checked: liveness (`Terminates`, `Ends`, `Answers`, `Released` of
`Playground`), and everything that depends on recursive operators (the checker, the
native semantics, the enumerated sentences and the walk that finds an open if), which the prover
cannot evaluate: the properties of `Engines`, `AcceptsOnlySentences` as enumerated,
`RefusesNoSentence` and `ElseBindsNearest`.  That the tables generated for the
grammar meet `TablesAssumption` is evaluated, not proved of the generator.  `TypeOK` of `Interp` is model-checked only, for it does not hold of every
program: a name is looked up in all the scopes on the stack, so that a program the type
checker refuses could let a callee replace the array whose index is being evaluated.  A
proof would need the soundness of the checker first.

## 6. Where the code and its documents disagree

Each is a run that ends in a counterexample, with the lines quoted in
`PROJECT.json` "findings".

1. `loop_declaration`: a bare declaration as the whole body of a loop is declared
   again on the second round; the interpreter fails, the binary goes on.
2. `skipped_declaration`: a bare declaration in a branch not taken still
   counts as declared for the type checker; the program fails on an unknown name.
3. `field_order`: the initialisers of a struct literal run in source order in
   the interpreter and in declaration order in the binary.
4. `dangling_else`: a loop between two `if`s gives a text two derivations although
   the grammar splits its statements to prevent that; the generator settles the conflict
   without a message.  The result is the usual reading (`ElseBindsNearest`).
5. `identifiers`: `GRAMMAR.md:148` has letters, digits and underscores; the lexer takes a
   no-break space (and any invalid byte) into an identifier after its first
   letter, although a no-break space is white space where a token begins.

Seen while reading, with no run: `GRAMMAR.md:82-84` has a `KW_ELIF` that has neither
token nor production; its strings may contain line breaks, which the lexer refuses;
it has no top-level statements, which `grammar.def` allows; type errors in imported
files are reported under the root's name (`compiler.cpp:186`).

## 7. What is not modelled

* Doubles are exact rationals: rounding, infinities and NaN are not compared.
* Source locations beyond the lexer, wording of diagnostics, name mangling, struct
  layout in LLVM.
* In the checker: duplicate function names, what is allowed at the top level and the
  collection of several errors (a model of acceptance needs the first); sum types in
  the engines, which the code generator refuses.
* The three builtins with qualified names: a dot ends an identifier, so no program
  can call them.
* The digits of a literal: a literal is its value.
* In `TypeNames`: return types (`checker.cpp:72`, `116`), which go through the same
  resolver as parameters, and the report of duplicate parameter names (`checker.cpp:130`).
* In `EntryPoints`: a NUL in the page's source, where the C string `dhad_run` and
  `dhad_parse_ast` take ends (`api.cpp:66`, `79`).
* `Parser` is not composed with `Lexer`: it sees any sequence of tokens, which is more
  than the lexer delivers.  Nor are the stages of `EntryPoints` composed with the modules
  that model each; a stage is there by what it may report.
* External behaviour assumed in `EntryPoints`: LLVM's stream ends the process when
  it is destroyed after a failed write, which leaves the IR file behind (`WriteFails`,
  the one exit that `Released` does not cover, with `Interrupt`); standard output takes everything; an input
  is read whole or not at all; clang leaves no executable when it fails.
* In the playground: truncation of long output and the look of the page; a worker
  whose script never loads makes the page replace it without limit, which
  `MaxFaults` cuts off.
* AST printing (`ast.cpp`), tests and build files have no state of their own; the
  AST dump is a text.
* The names of diagnostics' files: type errors in imported files carry the root's name.

## 8. Plan

Done, in this order: import merging; the engines; the playground; the parser and
its tables; the lexer; the semantic actions; type names; the entry points; the
refinement of the playground's service; the tokens of every text; the refinement of
`ImportSemantics`; the truth of what the entry points tell; the parser over every grammar
and table; the meaning of type names and the truth of their errors, for every program;
the order of the text in the AST, for every text.  What could come next:
`Parser` over the token sequences of `Lexer`, for one vocabulary.
