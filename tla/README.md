# Formal models of the Beet stage 0 compiler and virtual machine

Beet's stage 0 toolchain is a sequential C program: a source file is read, tokenized, parsed,
resolved, type checked, lowered to a small middle representation (MIR), turned into bytecode and
run by a register machine. There are no threads, no persistence and no network. What is hard in it
is of another kind: fixed arrays that several passes index without asking, tables that are cached,
counters that are moved back, encodings that two modules have to agree on, and one flat table of
names for a language with nested scopes. The models here are about that.

Everything below was written from the C code; line numbers are those of the repository beside this
directory. `PROJECT.json` maps each definition to the lines it stands for.

## 1. Inventory

| Component | Files | State | Operations |
|---|---|---|---|
| Driver | `compiler/stage0-c/src/main.c` | the AST, MIR and bytecode of the program | read, then each pass in turn; requires exactly one `main`; runs it |
| Source text | `support/source.c` | owned text, line offsets | load, set text, offset to line and column |
| Interning | `support/intern.c` | list of unique slices | intern a slice; compare two symbols |
| Lexer | `lexer/lexer.c` | offset | next token |
| Diagnostics | `diag/diag.c` | none | print |
| Parser | `parser/parser.c`, `ast.h` | per function: body statements, a pool of nested statements, a pool of expressions | declarations, statements, expressions |
| Registry | `semantics/registry.c` | declarations by name | register, find, validate duplicates (never called by the driver) |
| Resolver | `resolve/scope.c` | array of symbols, array of block starts | enter, leave, bind, lookup; walk over the function |
| Types, checker | `types/types.c`, `types/check.c` | list of typed locals in scope | check a function |
| Lowering | `mir/mir.c` | MIR function: instructions, local names, next temporary, next label; typed variables in scope | lower statements and expressions, reserve locals |
| Code generation | `codegen/codegen.c` | none of its own | one bytecode instruction per MIR instruction |
| Bytecode | `runtime/vm/src/bytecode.c` | words, count of words and locals, cached table of jump targets | emit, prepare the jump targets |
| Register machine | `runtime/vm/src/interpreter.c` | array of frames: registers, locals, program counter, register for the result | run a program |

How they interact. Each pass reads the complete output of the one before, except that the parser
and lexer alternate, and that code generation fills bytecode functions through the emit operations.
The passes share no state, but they share *conventions*: the resolver decides which binding a name
means and the lowering decides, by the name alone, which local it becomes; the parser stores a block
as a place and a count in a pool that the resolver, checker and lowering read; the code generator
turns names to indexes that the machine uses unchecked; jump labels are integers invented by the
lowering, entered in a table by `beet_bytecode_prepare_jump_targets` and followed by the machine.

What is hard, component by component, and what makes each correct:

* **Bytecode.** `prepare` caches its table and every emit has to invalidate it; the scan has to
  decode variable-width instructions exactly as they were emitted, near the end of the array too.
  *Correct:* a table marked ready describes the present code; prepare accepts exactly the functions
  whose labels are in range and distinct; the scan terminates.
* **Register machine.** Frames are reused, the caller's counter is moved before the callee is pushed
  and arguments are found by counting back from it, no operand is checked. *Correct:* all accesses
  are in range; every active counter stands between instructions; a return writes only the register
  its call named; a callee sees only its arguments; a program without backward jumps stops.
* **Lowering and code generation.** Fresh labels and temporaries, operand orders, slots by name,
  structures and choices flattened into scalars. *Correct:* the machine does what the syntax tree
  means.
* **Resolver.** A block is left by moving a count back, over an array that keeps what was there.
  *Correct:* the answers are those of nested environments.
* **Slots.** One entry per name in the lowering, one binding per block in the resolver. *Correct:*
  every visible binding holds the value last given to it.
* **Lexer.** Keywords, names that begin like one and operators that begin like another; a character
  that starts no token. *Correct:* each token is the longest lexeme where it starts, nothing but
  white space lies between two, and the calls come to an end.
* **Parser.** One pool for all nested statements, one for the expressions; a decision taken two tokens
  ahead; precedence in the order in which functions call each other. *Correct:* the tree is the
  grammar's, what is refused does not fit or is not in the grammar, and each block lists what was
  written in it.
* **Checker and registry.** A list of typed locals beside the resolver's array, lookups that take the
  first match. *Correct:* what is accepted never goes wrong when it runs, the two lists agree, and an accepted program
  compiles, except where the lowering has no form for it.
* **Source text.** Two passes that must agree, and a binary search that is right at both ends.
  *Correct:* every offset has its position and a line to print.
* **Interning.** Names are equal exactly if their interned slices are.

## 2. Modules

```
Opcodes ── Bytecode ── BytecodeProofs            the builder and its scan
   └────── VM                                    the register machine
   └────── Codegen                               MIR to bytecode, operators
Ints ───── VM, MirMachine                        machine integers
MirMachine                                       what MIR means (abstract)
Backend  = VM + Codegen, refines MirMachine
   └────── BackendProofs                         the machine alone, then both
SourceText ── SourceTextProofs                   line index and offset to position
Lexer ──── LexerProofs                           one token for each call
Parser                                           tokens to syntax tree, operators
FrontEnd = Lexer + Parser, compared with the grammar and with the tree that was written out
Blocks ── BlocksProofs                           the parser's statement pool alone
Resolve                                          the resolver's walk, operators
Syntax                                           syntax trees
Check                                            the type checker, operators on Syntax
Source                                           what a syntax tree means (abstract), on Syntax
Checked  = Check + Source
   └────── CheckedProofs                         what is accepted never goes wrong
Lower                                            syntax tree to MIR, operators
Pipeline = Checked + Resolve + Lower + Codegen + VM, the machine beside the meaning
Scope ──── ScopeProofs                           the resolver's stack, refines Environments
Environments                                     nested environments (abstract)
Slots    = Scope + the checker's lists + the lowering's table + the machine's locals
   └────── SlotsProofs
```

`MC*.tla` and `MC*.cfg` are the instances for TLC. Operators named `Something_Different` and marked
*Mutant* are plausible mistakes in the operator after them. No specification uses them; each
property is known to fail when the one named for it in `PROJECT.json` takes the operator's place.

### How the models correspond to the code

**Bytecode** (`bytecode.c`). The variables are the fields of `beet_bytecode_function_t` and the
scan's locals. Each emit function is an action with its check for room; `EmitStoreLocal` raises
`local_count` before it knows whether there is room, as the code does (line 181). `prepare` is a
loop in C and an action per instruction here, with its early returns. `starts` is a ghost: where
emitted instructions begin. Emits do not happen while the scan runs, because it is one call. A `calloc` that fails is left out.

**VM** (`interpreter.c`). One action per opcode, one turn of the loop each. A function is its words
and `starts`; the table of jump targets is the operator `Target`, because `Bytecode` shows what
prepare computes. A sum, difference or product that overflows wraps, as the usual builds do; the one
quotient that overflows is undefined in C and traps on some processors, so `Binary` and `DivideTrap`
are both possible. `beet_vm_execute` wraps one function in a program and is a program with one
function here.

**Codegen** (`codegen.c`, and the choice of `main` in `main.c`) is pure, so it is operators: the words for one instruction
(`Words`), the refusals (`NamesFound`, `Generates`), a whole program (`codegen_program`).

**MirMachine** has no counterpart in the repository: it states what MIR means, with locals as names
and labels as positions; `Steps` is what it may do without its fairness. **Backend** maps a machine state to it: offset to position, slot to name.

**Lower** (`mir.c`) threads a context through the syntax tree the way the C functions pass the
function being built. A name made of parts is a sequence of identifiers, where the code joins them
with dots and cuts at 63 characters; a sequence that is too long is refused, as a name is whose
parts fill the buffer. What the checker has written into the tree (`resolved_type_decl`, for names, calls
and selections of a declared type too) is `ResolvedType`: the checker's rules, with the locals that the
checker had there, which the context carries along as `checked`. The context also says whether every
assertion has held (`asserts`): `Compared` is the comparison of an entry without an id, which fails one.

**Syntax** (`ast.h`) has the trees as sets of records, nested up to a depth that is a constant, so that
what is recursive over them is a function. `T(m = e)` and `T.m(e)` are spellings of one node, `construct`
(`parser.c:420` and `475`): the passes behind the parser, and the meaning, decide by the declaration of `T`
whether it makes a structure or a choice. (In `FrontEnd` trees keep the spelling, because they are compared
with the text they come from.) **Source** is what a tree means, step by step: a call has an
environment, the blocks that it is in, the expressions under evaluation and the values of those that are
done. Every value carries its type, and a step goes "wrong" wherever a name has no value, an operand,
argument, condition, member or result is not of the type its use needs, or a variable that is assigned to
is not mutable. The repository has no such evaluator; it is written for this project, as the reference.
**Checked** puts the checks of the front end before it (`main`, declarations, signatures, bodies): what they accept
is executed as its source says. The other passes can only refuse more.

**Resolve** (`scope.c` from line 124, `registry.c`) is the resolver's walk over a body, as a fold over its
statements: a context that has failed stays as it is, which is the early return. It cuts its list of names
back when a block ends. **Check** (`check.c`, `types.c`) says what the checker accepts: the rule for one
expression (`ExprType`), given the types of its parts, and for one statement (`StmtOk`), given what is
accepted of the blocks in it; `TypeOf` and `CheckStmts` tie these to the whole tree. A block is checked with
a copy of the list of locals, which is gone at its end. `ConstructType` asks the declaration which of `StructureType` and
`ChoiceType` applies. An early return is a conjunct: the checker has no state that outlives a refusal.
The depths that the resolver writes into the tree are read by no later pass and left
out; the annotations that the checker writes are what `Lower` finds again by the rules of `Check`.

**Pipeline** (`main.c`) has one action for each pass of the driver, which refuses the program or hands it on, and the
machine's actions for the program that is left. The build files set no build type, so assertions are on unless one
asks otherwise; the model is of both builds: at the lowering of a program that fails an assertion the one may stop
(`AbortLowering`), the other goes on (`LowerFunctions`). From the moment the checks accept the program, its meaning
(`Source`) takes its steps beside the machine, one for each, until both have ended; so a state has what
both have come to, and neither waits for the other. A step that `Pipeline` takes on the variables of
`Source` is a step of `Checked`: `CheckBodies` begins the program after the same checks, and `Run` takes the
steps of `SourceNext`.

**Lexer** (`lexer.c`) has one action, a call of `beet_lexer_next`; a text is a sequence of characters and `Nul`
stands for the null character at its end or in it. **Parser** (`parser.c`) is the recursive descent
over the tokens, with the two pools and every limit; positions are left out. The parser asks for tokens while it parses; the
tokens do not depend on when, so **FrontEnd** lets the lexer run to the end first. In it the reference
is written independently of the code: `Trees` is the grammar of expressions, as sets of trees of a
sequence of tokens, and `ShowProgram` writes a tree out as text.

**Scope** (`resolve/scope.c`) has one action per operation and one per refusal. **Environments** is
the same interface over a set of bindings.

**Slots** walks a function statement by statement through the resolver, the checker's lists,
`beet_mir_function_has_local` and `_reserve_local`, the lookup by name in code generation and the
store of the machine. `typed` has one list for each open block, the copies of the checker. The name
a table entry keeps is the parameter `MirName`, because the code cuts it at 63 characters; entries of
parameters have no id (`NoId`) and, as in a build without assertions, are found by no comparison. `given` is a ghost: the value last given to each binding.

**Blocks** (`parser.c`, statements and blocks) is the recursive descent as a stack of open
constructs; the source is any sequence of pieces that the grammar allows, and the ghost `written` is what the
source has in each block.

**SourceText** (`support/source.c`) has an action per turn of each of its three loops: counting the
lines, filling the index, searching it. A load, from a file or a string, first clears what was there
and can fail before the text is set or when the index is allocated; entries of the index are `Unset`
until the second pass writes them. The result of `beet_source_line_text`, which changes nothing, is
an operator.

## 3. Runs

Sizes are distinct states; each run takes less than two and a half minutes with two workers.

| Run | States | What it asks | Bounds, and why they do |
|---|---|---|---|
| `bytecode` | 835,000 | any sequence of emits and prepares: is the table ever stale, is the scan ever out of step, is the verdict exact, does prepare return | 8 words hold two instructions of every width and can be filled exactly or short by each amount; label ids -1, 0, 2 and one beyond; the operand has the value of the opcode LABEL, so a scan out of step would see a label |
| `vm` | 14,000 | every body of up to 3 instructions of 12 kinds beside a helper, all arithmetic, a loop of calls, refused programs | 3-bit words give every overflow; 3 frames let a call return into a frame that is not the first and let recursion fill the stack |
| `backend` | 22,900 | does generated code do what the MIR means | every `main` of up to 3 instructions of 18 kinds, both operand orders, slots and callees by wrong and right names, every limit |
| `scope` | 215,000 | do the answers refine nested environments | 2 names, 3 symbols, 3 levels: hiding, reuse of a level over stale symbols, both limits |
| `slots` | 748,800 | in programs that bind no visible name: do visible bindings keep their values, are entries distinct, do checker and resolver agree | 4 names of which 2 are cut to one text, 2 live symbols, 3 entries, 3 levels: the table fills with names of blocks already left; the checker's limit and the resolver's are both met |
| `blocks` | 1,253,000 | is every block in the pool, every node used once, and which blocks come out as written | 4 nested statements, 2 in the body, 2 cases: three levels, siblings, empty blocks, a full pool inside a block |
| `source_text` | 213,000 | is the index complete after any sequence of loads and failures, is every position exact, can the line of every position be printed, does every call return | texts of up to 6 characters, line ends or not: no line end, only line ends, empty lines at both ends and inside, every offset with the end of the text |
| `front_end` | 398,700 | are tokens longest, are trees those of the grammar, are programs that fit read back as written and others refused, does the lexer end | every text of up to 3 characters of 14 classes, every keyword with what may follow it; every sequence of up to 5 of the tokens of sums and products and of up to 4 between the parentheses of a call or construct; every kind of expression in every other, statements two deep in statements, declarations; each limit reached and passed by one |
| `pipeline` | 167,000 | what is accepted never goes wrong, direct programs compile and stop at an assertion exactly when a function has both parameters and locals, compiled programs return, fail and stop as their source means | 14,500 programs; see below |
| `slots_shadowing`, `blocks_nested`, `pipeline_tag` | | the disagreements of section 6 | |

The pipeline's programs come in families (`MCPipeline`): all operators two deep; every statement kind
nested in every other; structures and choices two deep, in either spelling as the node is one;
functions with parameters, with locals and with both; an expression of every type, and of none, in
every place that expects one; names used and bound in and out of blocks; declarations and signatures
that do not fit, duplicates, recursion into the frame limit. A good part of them must be refused. Words have 4
bits, so that every arithmetic overflow happens. The trees are at most 6 deep (`Depth`, which TLC checks of every program, as the
assumption `SourcesAssumption`), and a source may have as many calls active as the machine has frames
(`MaxDepth` and `MaxFrames`, 4), so that both fail at the same recursion. Nothing bounds the turns of a loop: one that never ends repeats its state, as the
words are small. The limits on instructions and words are chosen so large that no program here meets them: `backend`
meets the one on words. Programs that bind a visible name again are left to `slots_shadowing`, a
variant called `tag` to `pipeline_tag`, and `main` has no parameters (`MainTakesNothing`: the compiler does
not ask for it, but would start `main` with locals that nothing sets).

`DirectProgramsCompile` says which accepted programs must compile: `Direct` ones, in which
structures and choices are written out where they are bound, matched or selected from, and no type
contains itself. It was found by removing from "every accepted program compiles" exactly what the
lowering has no form for (section 6). Its second part is about builds with assertions: a direct program stops one
at the lowering if and only if a function in it has parameters and binds a variable (`Mixed`).

`CHECK_DEADLOCK FALSE` is set where the system really ends: a program returns, a function is parsed,
a walk is at an end.

**Fairness.** `Bytecode` has weak fairness on the steps of the scan only, `VM` (and so `Backend` and
`Pipeline`) on the next turn of the interpreter's loop, `SourceText` on the turns of its loops,
`FrontEnd` on the lexer's calls. All are loops of a sequential program that nothing suspends: once entered, the next turn
happens. Nothing is assumed about callers: no emit, prepare, bind or lookup ever has to happen, and
no pass of the driver. Liveness properties are `PrepareReturns` (the scan ends), `Halts` (a program
without backward jumps ends, whatever it calls), `CallsReturn` (the passes over a text and the search
end), `LexerEnds` (whatever the text) and `StopsLikeItsSource`.

**What the properties are for.** `PROJECT.json` lists under *hazards* what is hard to test, at its
line, with the properties that would notice. Type invariants are one per module.

## 4. Proofs

Checked by TLAPS, for all values of the constants. The only assumptions are the named ones of the
modules (`BytecodeAssumption`, `VMAssumption`, `ProgramsAssumption`, `BackendAssumption`,
`ScopeAssumption`, `SlotsAssumption`, `BlocksAssumption`, `TextAssumption`, `NulAssumption`,
`DepthAssumption`, `SourcesAssumption`), which TLC
evaluates in the runs: sizes are naturals, operands of emits are naturals, the null id is no name, texts are finite, the null character is no letter, digit, space or sign.
`ProgramsAssumption` says that the programs given to the machine are made of whole instructions with
operands in range; `GeneratedIsWellFormed` proves that of everything that the code generator writes, from
`BackendAssumption`, which only says that MIR has the form of its C types (a few kinds of
instruction, names, numbers) and that arrays have room for what it names. `SourcesAssumption` says that
the programs are syntax trees, of any finite depth, and that `main` has no parameters.

| Theorem | Establishes |
|---|---|
| `BytecodeProofs!TypeCorrect`, `TableNeverStale`, `ScanDecodesEverything`, `VerdictExact`, `StoresAreCounted` | the safety properties of the builder, for every array size and any caller |
| `BackendProofs!TypeCorrect`, `ControlStaysInStep`, `ReturnsAreLinked`, `MemorySafe`, `CallersArePreserved`, `CalleesStartClean` | the safety properties of the machine, for every well-formed program, stack size and word size |
| `BackendProofs!ForwardCodeMovesOn` | in a program without backward jumps, calls and recursion included, every turn moves the stack of frames on |
| `ScopeProofs!TypeCorrect`, `SegmentsHold`, `NamesAreUnique`, `Refinement` | the scope stack implements nested environments, for every set of names and both array sizes |
| `SourceTextProofs!TypeCorrect`, `IndexIsComplete`, `PositionsAreExact`, `SearchStaysInBounds`, `PositionsArePrintable` | the line index, the search in it and the text of a line, for every text, offset and sequence of loads |
| `SlotsProofs!SlotTypesHold`, `CheckerAndResolverAgree` | the limits of table and lists; the two lists of locals agree, for every program, shadowing or not |
| `SlotsProofs!EntriesAreDistinct`, `ValuesSurvive` | sharing entries loses no value, for every program that binds no visible name (`ASSUME ~Shadowing`) and any cut of names |
| `LexerProofs!LexerInvariant`, `TokensAreLongest`, `CallsAreBounded` | every token of every text is the longest lexeme where it starts; the lexer is done after at most one call for each character and one more |
| `BackendProofs!GeneratedIsWellFormed` | generated programs are made of whole instructions, jump to labels they have, and name slots and functions in range |
| `BackendProofs!CompiledCodeMeansMir` | every behaviour of the machine on generated code is, step by step, one of the MIR it was generated from |
| `BlocksProofs!TypeCorrect`, `StatementsHaveOneNode`, `BlocksLieInPool` | the statement pool, for every nesting and every limit |
| `CheckedProofs!SoundInvariant`, `Checked_AcceptedNeverWrong` | type soundness: an accepted program never goes wrong, for every tree, every size of words, every number of calls and of locals |
| `BlocksProofs!FaithfulBlocks` | a block is stored as it was written exactly if no statement before its last has nested statements |

*Bytecode.* The scan being in step is not inductive: nothing in it says that emitted instructions
end where the next begins. The invariant adds `Tiled` (they tile the code) and `ScanSoFar` (the
table describes exactly the labels behind the scan, and is not marked ready). An emit extends the
tiling at its end; a turn of the scan extends the part of the code that the table describes by one instruction; at the
end that part is everything. The verdict follows: a refusal can only be a label out of range or a
second one of an id already in the table.

*VM.* `AccessesInBounds` needs control to be in step, which a return can only keep if the caller's
counter was in step when it called; and that the result register is in range is known only to the
call that pushed the frame. The invariant is therefore `ControlInStep` for *all* active frames, and
`Linked`, which ties each frame to the call just behind its caller's counter. The case of `Call` is
the long one: two frames change at once.

`ForwardCodeMovesOn` is the argument behind `Halts`. Compare two stacks at the lowest depth where
they differ; the one that has returned from there, or is further in the same function, comes later.
A turn moves the stack on in this order: the running frame goes further, also when it calls, and a
return takes a frame away. Counters, functions and depths are bounded (`ControlInStep`,
`TypeCorrect`), so no run can go on for ever. The step from the order to `Halts` itself needs
fairness and an induction and stays with TLC.

*Scope.* `Segments` (the part of the array between two starts is what the outer block bound) and
`NoDuplicates` are inductive together. The refinement maps the array in use to its set; that a set
has as many elements as the array has symbols follows from `NoDuplicates`, and the backward search
finds what is not hidden because depths grow along the array.

*SourceText.* The first pass counts, the second one relies on the count for room; the invariant
`Passes` says that both have met the same line ends, as a cardinality, and that the index is right up
to where the second pass is. `Narrowed` is the search's loop invariant. `PositionExact` then needs
that the number of line ends before an offset is the number of its line: the index is a bijection
between lines and line ends (`LineNumber`).

`LinePrintable` needs the columns: the end of a line is the next entry less one or the end of the
text, so the offset that was asked for lies between the line's entry and its end.

*Slots.* That checker and resolver agree is not inductive as it stands, because nothing in it speaks of the lists
of the blocks around the present one. `Mirrors` does: the list of each open block is the resolver's
array up to `Height`, the start of the block opened in it. Closing a block then needs only that the
list outside was right when the block was opened and that the array below its start has not changed.
For the values, `Places` gives each table entry one `Owner`: the name of its id, or for a parameter,
which has none, the symbol at its index. Owners are distinct, because a binding that finds no entry of its
id is not a parameter either: without shadowing the name was not visible, and parameters are
visible everywhere. Each visible binding is then the owner of one entry, which is the first of its name if
no other name is cut to that text.

*Blocks.* `Fits` stacks the open constructs: the block of each ends at or before the start of the one open
in it, so that the nodes its statements take never reach beyond the pool. `Numbered` says that statements are
numbered as nodes are taken, hence that a new one is in neither array yet; `Source` ties each count to the
length of what was written. `FaithfulIfFlat` compares a block's nodes with what was written in it, and so
needs to know for each open block what has become of the nodes before: `Placed` says that the k-th statement
of a block is in its k-th node exactly if none before it has nested statements, that an open block knows
whether its next statement would be in step, and that only the last statement of a block can still be open.
When a block ends, the last point turns the second one into the verdict.

*Backend.* Three layers. First the words: an instruction of MIR is one instruction of bytecode, so the
offsets of `Prefixes` tile what `Emitted` writes, and the word at an offset tells which
instruction of MIR is at the position that starts there (`GeneratedIsWellFormed` is a consequence).
Then the state: the mapping turns each frame's counter into the position it is the offset of and its
slots into names, which the machine's invariant makes well defined for every active frame, not just
the one that runs. Last the turns: one lemma for each opcode says that a turn of the loop,
decoded, is the turn of `MirMachine` for the instruction at that position, with the same
result in the same named local; a call and a return map the whole stack. `ImplementsMir` is this
with fairness on top, which TLC checks.

*Lexer.* `FrontEnd` calls the lexer until the end; `LexerSpec` is the lexer alone, on any sequence of
characters. A scan is a search for the first character that does not belong to a class, which exists
because what follows the text is a Nul (the least element of a set of offsets). With that, all is said of
the characters at offsets: `LexemeAt` is what `IsLexeme` says of a part of the text, and no
lexeme can go on beyond `TokenEnd`, since the classes of first characters are disjoint. The theorem is about lexemes
of any length and all tokens so far; the run looks at the last token and two characters beyond it.
`CallsAreBounded` is why the lexer ends: a call moves on, or yields the end.

*Checked.* That nothing goes wrong is a property of the state that does not carry over a step by
itself: whether a name has a value of the right type depends on what the checker saw, in another walk, with a
list of its own. `Sound` ties the two. `Locals` reads the checker's list off an environment: each binding
has the type of its value. A call is sound (`CallOk`) if the checker accepts what is left of each
of its blocks with the locals that will be there when the blocks within have ended (`Room`, `BlocksOk`), if
the expressions in focus have types with the present locals, and if each value that is done has
the type of its expression. Every call but the innermost waits in its focus for a call of the type that the one within
it returns (`Waits`). Values come from a set in which each is a word, or a structure or choice whose members
are in the set and have the types that the declaration gives them (`Typed`); a step adds at most one.

`ValueSound` is then the case for each form of expression, against `ExprType`, and one lemma for each action
shows that `Sound` stays: a binding extends the environment as the checker extends its list
(`PastOk`), an assignment keeps every type, a block that is entered is accepted with the locals outside and
the payload of its case (`IntoOk`), and after it the environment is what it was, as a prefix (`EndOk`). A loop
is accepted again because its body leaves no binding. A case binds a payload only if the variant has one,
because no declaration is called "" and so the checker finds no type for the payload of a variant without.

The checker is recursive over trees, and what a recursive function computes is not for the provers to
find. That it has the value its definition says is proved once, in general (`Recursion`): on a
relation in which every set has a minimal element, a step that depends only on what is below has a fixed point. The parts of an
expression, and the rest of a block with the blocks nested in its first statement, are such relations, as
trees are made in `Depth` steps (`PartsWellFounded`, `BlocksWellFounded`); `TypeOfUnfolds` and
`CheckStmtsUnfolds` give the checker's rules for any tree, and nothing else of the recursion is used.

Only model-checked:

* Liveness under fairness, which includes the fairness of `ImplementsMir`.
* `MeansWhatItSays` and `DirectProgramsCompile`, because `Lower`, and `Pipeline` with it, is recursive over the syntax
  tree by operators that pass a context along. The lowering of one program is proved right from its MIR on
  (`CompiledCodeMeansMir`).
* `ParsesAsGrammar` and `ProgramsRoundTrip`: `Parser` is a recursive descent, and what the two say is an
  induction over texts and trees.
* How a token's word is spelled (`Spelled`), which is recursive too: `TokensAreLongest` says that a name is not a
  keyword, not that its word is its characters.

## 5. What is not modelled

* Reading the file, diagnostics, failing allocations other than those of `SourceText`.
* Positions in tokens and trees, which only messages use; `SourceText` has their computation.
* The storage of interned names. They are values here, equal when their texts are.
* `beet_parser_parse_module` and the check for duplicate declarations: the driver calls neither.
* Digits of integer literals: a long one overflows `int` while it is converted (`mir.c:94`), which
  is undefined. `Parser` keeps the text of a literal, `Lower` starts from its value.
* Joining the parts of a name in a buffer of 64 characters: a sequence with a limit in `Lower`, the parameter
  `MirName` in `Slots`.
* A declared type with the name of a builtin one: the checker looks among the builtin types first, the
  lowering among the declarations.
* `FrontEnd` and `Pipeline` are two specifications: their programs have the same trees, but for
  literals and the spelling of constructs, and `ProgramsRoundTrip` says what the one hands to the other.
* Tests, examples, benchmarks and tools, which are not part of the system, and the stub of the virtual
  machine's own `main`.

## 6. Disagreements found while modelling

1. **A block after a nested block is stored wrongly** (`parser.c:1053`, run `blocks_nested`).
   A block is a start and a count in a pool; the statements nested in one of its statements take
   nodes in between. `FaithfulIfFlat` says exactly which blocks are affected: those
   in which a statement other than the last has nested statements.
2. **Shadowing overwrites the outer binding** (`mir.c:190`, run `slots_shadowing`). The resolver
   accepts a name that is bound again in a nested block, the lowering gives both one local. The run is
   about functions without parameters (`OnlyLocals`). A parameter that is bound again is not overwritten: its entry has
   no id, so the lowering reserves a second one of the same name, which code generation never finds, as it takes the
   first; a build with assertions does not get that far.
3. **A variant called `tag` shares its storage with the discriminant** (`mir.c:706`, run
   `pipeline_tag`).

Met while modelling, without a text in the repository that they contradict:

* The first binding in a function with parameters compares the null id of a parameter's entry
  (`mir.c:179`, `1019`); `intern.c:70` asserts that this never happens, and a build with assertions stops
  there, also on programs that one without them compiles and runs as they mean. `Pipeline` has both builds
  (`AbortLowering`), `Slots` the one without: a null id is no name.
* Accepted programs that do not compile: structures or choices as parameters, results, arguments, or
  bound or assigned by name; a match on a variant written out in place whose payload a case of another variant
  binds, when there is none or it has another type (`mir.c:1362`); types that contain themselves, whose storage
  is reserved until the name is too long. `DirectProgramsCompile` says that there are no others in the families.
* Type parameters are accepted in declarations, but no expression has a type that mentions one.
* A function may end without `return`; the machine reports it at run time. `main` may have
  parameters, which nothing sets.
* Of two functions with one name every pass takes the first.
* A comma may stand before the parenthesis that ends a call or construct, but not after the last parameter; commas between type
  parameters are optional; `T()` is a call, even if `T` is a structure without fields; a choice may be written `C(v = e)` and a
  structure of one field `S.m(e)`; `(x).v(1)` is a
  construct of the choice `x`; what follows a null character in a file is ignored.
* An initializer that a selection in place does not use is not evaluated.

## 7. Plan

Done, in this order: `Bytecode`, `VM`, `Codegen` with `MirMachine` and `Backend`, `Scope` with
`Environments`, `Slots`, `Blocks`, `Source`, `Lower` and `Pipeline`, `SourceText`, with proofs about
`Bytecode`, `VM`, `Scope` and `SourceText`; then `Resolve` and `Check` with the driver's passes in
`Pipeline`, `Lexer`, `Parser` and `FrontEnd`, the checker's lists in `Slots`, and proofs about
`Slots` and `Blocks`; then the step refinement of `Backend`, the rest of what
`Blocks` promises, and `Lexer`; last the soundness of the checker, for which `Source` became a
specification with steps and `Check` functions over trees.

Every safety property is proved of the modules that are not recursive descents by operators, which are `Resolve`, `Lower` and
`Parser`. Left: the lowering, written like `Check` as rules for one node, and its correctness against
`Source`, statement by statement, for the programs that `DirectProgramsCompile` describes.
