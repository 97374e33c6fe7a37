# TLA+ models of rdx

This directory holds a formal model of the rdx language implementation, the
TLC configurations that check it on small instances, and proofs checked by
TLAPS. Paths such as `vm.c` are relative to `src/` of the repository.

## 1. The system

The repository holds three generations of one language side by side.

* **v3, the shipping engine.** The Makefile, `build.bat` and CI build only
  `main.c`, `rdx_engine.c`, `rdx_cyber.c` and `rdx_diag.c`. `rdx_engine.c`
  tokenizes a program into an array and interprets the tokens directly.
* **v2, the tool chain.** `lexer.c`, `parser.c`, `type_check.c`, `compiler.c`
  and `vm.c`, with fibers, a scheduler, arenas, generational references,
  channels and capabilities. `vm_interpret_source` runs text through lexer,
  parser, compiler and machine; the type checker and the analyser for embedded
  targets (`sem_embed.c`, with constants from `comptime.c`) are called by
  tests only. A second back end lowers the tree to an SSA form
  (`rdx_ir.c`, `ir_lower.c`) and optimises it (`ir_opt.c`); nothing runs it.
* **v1.** An interpreter of the syntax tree (`codegen.c`) and a transpiler
  (`aot.c`) over `platform/`. `analyzer.c` (ownership) and `module.c` belong to
  a state of v2 that is gone: neither compiles against the headers beside it.

The tests say how the parts are meant to be used: `test_rdx_vm.c` drives the
VM, arenas and references, `test_parser.c` lexer and parser, `test_embedded.c`
the embedded analyser; `test_lexer.c` is written for an older interface.

All of it is single threaded. What is hard is not parallelism but the
interleaving of fibers by the scheduler, calls in any order from a host,
errors that leave work half done, memory that is reused, limits, control
flow that is kept in positions, indexes and counters, and several stages that
must agree about one program.

### Inventory

| component | state it keeps | operations | talks to | what makes it correct |
|---|---|---|---|---|
| scheduler (`scheduler.c`, `fiber.c`) | a circular doubly linked ring, head, current, count; per fiber state and stack | spawn, next_ready, yield, finish, push, pop | VM | one ring at all times; every ready fiber gets its turn; a fiber in error never runs |
| VM (`vm.c`, `opcode.h`, `chunk.c`) | globals, scheduler, arena, default capabilities | init, free, run_function, one case per instruction | scheduler, FFI, arenas, compiler | OK is returned only with no work left; errors leave a machine that can go on; a slice may end anywhere |
| capabilities, FFI (`capability.c`, `ffi.c`) | a mask per fiber | parse name, test, invoke | VM, host | no effect without the authority for it |
| generational references (`gen_ref.c`) | slots with generations, a free list | insert, get, is_valid, free | arena, clients | a freed reference is dead forever |
| arena (`arena.c`) | a chain of blocks, the current one, bytes used | init, alloc, alloc_aligned, reset, save, restore, free | platform heap; everybody | held memory is never handed out again; no block is lost |
| values, channels (`value.c`) | heap objects; a ring of 256 values | create, equality, truth, send, receive | VM, arenas | a channel is a bounded FIFO; a held string stays |
| lexer (`lexer.c`) | a position in the text | next | parser | tokens are the longest there are |
| parser (`parser.c`, `ast.h`) | previous and current token, had_error, panic_mode | one function per rule | lexer, compiler | the tree is the text; nothing is lost without an error; it ends |
| bytecode compiler (`compiler.c`) | chunk, locals, scope depth, loops | one case per node, jumps | AST, VM | slots of locals are the VM's stack slots; the code computes what the text says |
| type checker (`type_check.c`) | scopes of symbols, types | infer, check | tree | accepted programs keep what it checks |
| embedded (`sem_embed.c`, `embed_codegen.c`) | peripherals, granted capabilities | analyse; emit C | constants | a peripheral is used only with its capability |
| constants (`comptime.c`) | none | evaluate, fold | embedded analyser | agrees with run time |
| IR (`rdx_ir.c`, `ir_lower.c`, `ir_opt.c`) | functions of blocks of instructions | lower; fold, DCE, copies, CSE, strength | tree | blocks are well formed; lowering and passes keep the meaning |
| engine (`rdx_engine.c`) | token array, cursor, functions, scopes, error flag | tokenize, statements, expressions, calls, file and prompt loops | cyber, diagnostics | the cursor is where the program text says; calls run their body; scopes are isolated; errors are recovered from |
| cyber primitives (`rdx_cyber.c`) | none (hash contexts) | IPv4/CIDR, hashes, ports, logs | engine | functional |
| diagnostics (`rdx_diag.c`, `diag.c`), CLI (`main.c`) | the current source text | reports; argument handling | all | output only |
| ownership analyser, modules, v1 interpreter, AOT, platform | variables; registry; text; handles | walk; interpret; emit; system calls | | |

`PROJECT.json` lists the same components with their state of modelling, and
under `hazards` what in each is hard to test, at the line where it bites.

## 2. Modules

```
 text -> Lexer -> Parser -> Compiler -> StackMachine        IrLower   IrOpt
          \        |  \        |           |    \              \       /  \
           +- Syntax   \       |        Values  FiberScheduler  IrBuilder   IrOptimizer
                  TypeChecker  |                Capabilities          \      /
              EmbeddedAnalyzer (Comptime)                             IrPipeline
        Meaning (reference)                                     IrMeaning (reference)
                        \_______ Toolchain ______/
                                    | implements
FiberScheduler   FiberStack  ->  FiberVM        HandleTable     Fifo    (abstract)
Capabilities                        |                ^            ^     implemented by
                               FiberTurns        GenTable      Channel   Arena   Engine

FiberVMProofs <- FiberTurnsProofs         GenTableProofs  ChannelProofs
      \_ StackMachineProofs               ArenaProofs     EngineProofs
                                        IrOptimizerProofs
```

Each `MC` module only gives constants their values. `SamplePrograms` has short
names to write programs with.

### FiberScheduler, FiberStack, Capabilities, FiberVM

`FiberScheduler` is `scheduler.c`: `head`, `currentFiber`, `fiberCount` and the
links and state of each fiber are the C fields. The do-while of
`scheduler_next_ready` is one action per iteration (`ScanTake`, `ScanAdvance`,
`ScanFail`), so that its locals are variables. A member of `Fibers` is a name:
a finished object's name can be given to a new fiber, because nothing reaches a
node that left the ring.

`FiberStack` is `fiber_push` and `fiber_pop` on the depth of a stack.
`Capabilities` is `capability.c` and `ffi.c`: names, masks as sets, the test,
and which operation of `ffi_invoke` requires what.

`FiberVM` composes them under `vm_run_function`. `pc` tells the host's turn
("idle"), the outer loop ("pick"), the scan ("scan"), the inner loop ("slice")
and `vm_free`'s loop ("freeing"). A program is any sequence of instructions; an
instruction is what it does to stack depth, call frames, fiber state, scheduler
and host. Several instructions share the stack effects in `StackEffect`; the
ones with more effect (`Call`, `ReturnToCaller`, `ReturnFromFiber`, `Spawn`,
`Yield`, `CapRequest`, `InvokeHost`, `Halt`, `RuntimeError`, `UnknownOpcode`)
have an action each. Kept on purpose, because the code does it: a stack
overflow only marks the fiber, explicit errors return and leave the other
fibers linked for the next call, `OP_ADD` on other types pops and pushes
nothing, an unknown opcode returns with the fiber still running, and memory for
a new fiber may be missing. A host call takes any number of arguments, from an
empty stack too, up to what the C arrays behind it have room for: `PrintMax` for
`args` of `OP_PRINT` (32) and `InvokeMax` for that of `OP_CAP_INVOKE` (16). The
count is a byte that nothing checks; more of them write over the C stack, and
the models end there.
Abstracted: values, globals, chunks and the compiler (any bytecode is allowed,
also what the compiler would not emit, since `vm_run_function` takes any
function), at most two pops per instruction other than host calls, calls and
spawns. Calls and spawns are taken only when callee and arguments are on the
stack.

`EffectAllowed` is about a step and the fiber that takes it: the effect of an
instruction is one that this fiber holds the capability for, not only one that
the VM has.

`FiberTurns` adds to it what the promises of a round robin are about: for each
fiber the ones that were dispatched while it waited (`passed`), and the number
of spawns in a call. They are history: no step depends on them, except that
`MaxSpawns` bounds the spawns.

### HandleTable, GenTable

`HandleTable` is the promise of `gen_ref.h`: a handle names its object from its
insert to its free and nothing ever after. `GenTable` is `gen_ref.c`: slots,
free list, expansion by doubling, the generation as a number modulo
`GenModulus` (2^32 in C). `Presented` are the references a caller may try, kept,
freed or invented. `ImplementsHandles` maps a reference to a handle. The arena
below always has room (the code does not test for it, `gen_ref.c:39`).

### Arena

`arena.c` in units of the arena's alignment. `heap` is the chain of blocks with
base, capacity and bytes used; `regions` is what users hold, with the marker
discipline of `arena_save` and `arena_restore` (a restore ends what was handed
out since; inner markers die). The allocator may fail. The statistics field
`total_allocated` is left out. The loops over the chain act on `ChainFrom`, the
least set of blocks that `next` does not leave, and a block lies at any address:
its base is a remainder by the largest alignment.

### Engine

`rdx_engine.c` interprets its token array by moving one cursor. The recursive C
functions are one machine: `stack` holds the waiting C activations with the
locals they still need (`saved_pos`, `body_start`, `cond_pos`, `branch_taken`,
`return_val`), `at` says what goes on. Each branch of `exec_stmt` and
`eval_primary` is an action that starts it and actions that go on when its
expression or block is done:

| code | actions |
|---|---|
| `rdx_engine_run`, `rdx_engine_repl` | `MainStatement`, `MainStatementDone`, `NextLine`, `Exit` |
| `exec_block` | `BlockStatement`, `BlockGoesOn`, `BlockLeft`, `BlockEnd` |
| `exec_stmt` fn | `FnDefinition`, `FnWithoutName`, `FnWithoutParameters` |
| return, break, continue | `Return`, `ReturnValue`, `Break`, `ContinueLoop` |
| print, alert, timeline | `PrintList`, `PrintItem`, `Card`, `CardItem` |
| let, assignments | `Let`, `Assign`, `AssignValue` |
| if, elif, else | `If`, `IfCondition`, `BranchDone`, `Elif`, `ElifCondition`, `Else`, `ElseDone`, `ElifsEnd` |
| while | `While`, `WhileCondition`, `WhileAgain`, `LoopLeft` |
| for | `For`, `ForList`, `ForElement`, `ForAgain`, `ForEnd`, `LoopLeft` |
| `eval_or` to `eval_primary` | `LiteralOperand`, `Variable`, `Group`, `GroupEnd`, `Operator`, `BadOperand` |
| calls | `CallBegin`, `Argument`, `Call`, `UnknownFunction`, `CallEnd`, `StackOverflow` |

A token is its type. `LIT` is any expression without calls of user functions
(a literal, a builtin, input), `OP` any binary operator: all of them, `and` and
`or` included, evaluate both operands. Values are nil, not nil and function;
the value of a `LIT` or of an operation is left open. Semicolons are newlines.
Left out: unary operators, lists and element assignment, method and module
calls, `exit()`, the truncation of long names. Scopes of blocks and loops are
not represented, because `scope_set` never puts a variable there. Recursion
deeper than `MaxCalls` is a crash, as the C stack's end is. The functions that
scan the array (`SkipNewlines`, `Nearest`, `SkipBlock`, `Parameters`) are
recursive functions on its positions.

### Values, Channel, Fifo

`Values` is `value.h` and the operators of `vm.c`: nil, booleans, integers,
strings, functions, capabilities. Division and remainder truncate as C's do; a
division by zero is an error. A float is one opaque value, for only operators
given something else than integers make one; questions about it have any
answer. A string has a home, the fiber in whose task arena it was put
together, or none for a constant.

`Channel` is `obj_chan_create`, `obj_chan_send` and `obj_chan_recv`; a new ring
has anything in it, as arena memory has. `Fifo` is the bounded queue it is
meant to be, and `RefinesFifo` maps the values between head and tail to it.
Nothing in `vm.c` sends to a channel yet, so it is checked on its own.

### Syntax, Lexer, Parser

`Syntax` has the tokens and the nodes of `ast.h`, and the reference: a tree
written down as tokens with parentheses only where the precedences of
`parser.h` ask for them, and tokens as characters with blanks and comments of
every kind between.

`Lexer` is `lexer_next` with all it calls, over a sequence of characters.
`Parser` is the Pratt parser: an operator per `parse_` function that takes a
parser and returns it with the node it built. The machine is
`parser_parse_program`, a declaration per action and, for shapes, structs and
register blocks, an action per turn of the loop over their fields: there a turn
may consume nothing. `panic_mode` is never cleared, as in the code.

### Compiler, StackMachine

`Compiler` has an operator per node: locals and scope depth, jumps patched when
their target is known, breaks and continues, the limits on locals and breaks.
A jump holds its target instead of a distance. Kept because the code does it:
nothing is emitted for members, indexes, arrays, bit ranges, comptime and asm;
`end_scope` pops one slot per local with the block's value above them; break
and continue leave the locals of the blocks they jump out of.

`StackMachine` is `vm_run_function` on values, with frames, globals and output.
Each instruction is an action, those that no compiler emits (`OP_DUP`,
`OP_CAP_INVOKE`) and unknown opcodes included; a slice is cut off by its budget
between any two. A string whose home has finished is read as it was or as another
(`Found`): the arena's memory has been given back. A local above the top of the
stack is inside the array, so `SET_LOCAL` writes it without effect on the stack
and `GET_LOCAL` reads some value (`Leftover`). What leaves the arrays has no step:
a fetch behind the end of a chunk, and a local behind the end of the stack.

`MachineSpec` lets the host run any functions, not only compiled ones;
`OperandsFit` says of them that the count of a call or spawn is smaller than a
stack, as every byte is (255 against 2048), and that those of `OP_PRINT` and
`OP_CAP_INVOKE` are at most `PrintMax` and `InvokeMax`. `RefinesFiberVM` maps the machine to `FiberVM`, a stack to
its depth and a frame to its base: what is proved there of every sequence of
instructions holds of the machine that executes programs.

### TypeChecker, EmbeddedAnalyzer, Comptime

`TypeChecker` is both passes of `tc_check_program` as operators on the record
of `type_check.h`. Functions are registered without parameters first, so calls
above a declaration are checked against none. `EmbeddedAnalyzer` is
`sem_embed.c`; granted capabilities stay for handlers and statements behind a
function, and `analyze_expr` looks at some kinds of statement only, both as in
the code. `Comptime` is `comptime_eval_int`.

### Meaning, Toolchain

`Meaning` is an evaluator of the tree, written from what the language says a
construct does and not from the compiler: scopes as maps, signals for break,
continue and return. It says "any" where an outcome is left open, as that of an
operator on other types than it is for. A spawned function runs behind the main
program, with the globals as that leaves them: no program of the run has fibers
whose output depends on who writes a global first.

`Toolchain` composes all of v2: a text is scanned, parsed a declaration at a
time, checked, compiled, run. The checkers, which `vm_interpret_source` leaves
out, run beside it and stop nothing, so that what they accept can be compared
with what happens. `written` remembers the tree the text was written from. A
second kind of text, garbled by leaving out, doubling, swapping or putting in a
token, or by words that may stand where they say nothing, is only parsed; a
third, any short sequence of characters, only scanned. A fourth is no text:
functions of bytecode that no compiler writes, which are only run
(`RunBytecode`). They ask the host for more than they hold, for nothing, with
too few arguments, from spawned fibers with and without the grant, and read
locals that are not there.

### IrBuilder, IrLower, IrOpt, IrMeaning, IrPipeline

`IrBuilder` is `rdx_ir.c`: blocks of at most `InstrCapacity` instructions (more
are dropped silently), values named by block and index, terminators.
`IrLower` is `ir_lower.c`, an operator per node that passes on a context;
behind a return, a break or a continue the current block is NULL. Kept: a
PHI's blocks are guessed from the number of blocks, a compound assignment is
lowered as `=`, one to a name that is no local is dropped, the operand of
`yield` is overwritten, drops follow a return. `IrOpt` has an operator per pass of
`ir_opt.c`; ids beyond the entry block's are outside of its tables. Strength
reduction takes an operand for a reference without looking (`Referred`), as the
code does: an immediate's bits would become the id of a value.
`IrMeaning` runs a function of the IR, as `rdx_ir.h` describes it.
`IrOptimizer` is `ir_optimize`: it runs the passes of a level over any functions,
one pass over one function in a step, at most three rounds. It has no recursive
operator, so that it can be proved about. `IrPipeline` gives it modules: it
lowers a program, or takes a function written with the builder.

## 3. Runs

| run | bounds | what it shows |
|---|---|---|
| `fiber_vm` | 3 fiber names, stacks and frames of 2, slices of 2 instructions, one argument of calls, `PrintMax` 2, `InvokeMax` 1 | `TypeOK`, `RingOK`, `CurrentOK`, `OkMeansNoWork`, `EffectAllowed`, `ErrorIsFinal` |
| `fiber_fair` | 3 fibers, stacks of 1, at most 3 spawns in a call of `vm_run_function` | `RoundRobin`, `EveryFiberRuns`, `VmFreeEnds` |
| `fiber_starved` | as above without the bound on spawns | `EveryFiberRuns` is violated |
| `stores` | a table of capacity 1, 2, 4 with 3 generations, no wrap; beside it a channel of 3 with 3 values | `TypeOK`, `FreeListOK`, `StaleNeverValid`, `ImplementsHandles`; `RingOK`, `RefinesFifo` |
| `arena` | 3 blocks of 2 units, sizes 1 and 3, alignments 1 and 2, 2 markers | `TypeOK`, `RegionsOK`, `GrowingLosesNoBlock` |
| `toolchain` | 435 programs, 2050 garbled texts, 26 057 short texts, 8 programs of bytecode; 4 fibers, stacks of 12, `PrintMax` 12, `InvokeMax` 3, 4 frames, slices of 5, 4 globals, 8 locals, 2 breaks, 9 symbols, 5 scopes, 3 types, 2 peripherals and capabilities, 6 turns of a field loop | see below |
| `embedded_rogue` | the same | `EveryPeripheralGuarded` is violated |
| `precedence` | the same | `ParsedAsSpecified` is violated |
| `ir_pipeline` | 387 programs, 2470 built functions, both levels; blocks of 24, 8 locals, 5 scopes | `LoweredComputesAsWritten`, `BlocksEndOnce`, `NoOperandDangles`, `PassesKeepMeaning` |
| `ir_dce` | the same | `ReachableBlocksStay` is violated |
| `engine` | 175 programs of nested control flow, 12 700 short token sequences, 55 texts longer than the token array (60), a session at the prompt | `TypeOK`, `CursorAtEnd`, `CallRunsItsBody`, `NoStatementAfterFlow`, `ScopesIsolated`, `StraightEnds` |
| `engine_repl` | one session | `CallRunsItsBody` is violated |

The properties of `toolchain`, and what each leaves out:

| property | of | except for |
|---|---|---|
| `LongestLexemes` | each token is the longest one its characters begin with; errors only where they begin with none | numbers that break off (`0x`, `2e`, `2e+`), which the code takes for whole |
| `ParsedAsWritten` | a text parses to the tree it was written from, with parentheses where the table in `parser.h` asks for them | the table of `RDX_SPEC.md`, which is another one (`precedence`) |
| `NothingSwallowed` | a text accepted without an error is kept whole, as far as tokens that say nothing go | separators, parentheses and `let`, which the tree does not have; `pub` before other than `fn`, the colon of a register block without a capability and a second `mut`, which the code drops; type `u32` and address 0, which a register has that says nothing |
| `StallsAreReported` | a turn that consumes nothing has reported an error | |
| `ComputesAsWritten` | under every order of fibers and every slice, a program prints what `Meaning` says and stops at the same error | what `Compilable` names (below), overflows of stack or frames, and outcomes that are "any" |
| `EndsBalanced` | main ends with nothing but its nil above its function | nodes without code, loops that jump over locals |
| `HeldStringsLast` | while main runs no global or stack holds a string of a finished fiber | programs in which functions assign or spawn |
| `AcceptedCallsFit` | an accepted program calls nothing with a wrong number of arguments | callees that are not the name of one function declared above |
| `ImmutableGlobalsStay` | an accepted program never changes a global not declared mutable | names with two meanings, or assigned above their declaration |
| `ConstantsAsComputed` | a constant has the value it has when it runs | `and`, `or` between other than booleans |
| `PeripheralsGuarded` | an accepted function uses a peripheral only with its capability | bodies with statements `analyze_expr` skips (`Straight`) |
| `RefinesFiberVM` | every step is one `FiberVM` allows | |

`Compilable` leaves out programs the compiler gets wrong for reasons of its
own, each listed under "What was found": nodes it emits nothing for, breaks
and continues out of blocks with locals, values of blocks with locals as
operands, too many globals, strings put together beside other fibers.

`LoweredComputesAsWritten` leaves out functions, calls and other nodes the
lowering turns into something else (`LoweredOtherwise`), assignments to other
than locals, PHIs whose blocks the lowering guesses wrong (`NamesBlocks`), blocks
at their capacity and scopes at their limit. `PassesKeepMeaning` is about
functions of one block, as dead code elimination empties the others (`ir_dce`).

`NoStatementAfterFlow` of `engine` is about a chain of ifs: once a branch has met a
return, break or continue, none of its later branches starts. That blocks and
loops stop there too is a matter of `CursorAtEnd` and `CallRunsItsBody`: a
statement too many leaves the cursor elsewhere.

`stores` runs two components that share nothing beside each other: a host uses
the one or the other.

**Why the bounds are enough.** Three fibers give every shape of unlinking:
the only one, the head, the tail, one in the middle, with the current fiber on
either side; names are reused without limit. A stack of two lets an
instruction with two pops and a push underflow, fit and overflow. A slice of
two instructions can be cut off between any two. One slot that doubles twice
gives a free list with old and new slots in every order of frees. Three blocks
are needed to lose one (a marker's block, its successor, a new one). A ring of
three is empty, partly filled and full at every position of its start. The
programs of `toolchain` have every pair of operators on either side of each
other, every statement in a block, a branch, a loop and a function, every kind
of declaration, calls with too few and too many arguments, up to three spawned
fibers, and each limit met and not met; a slice of five is shorter than every
program. The short texts are all of three characters of which every token,
comment and error is made, and all of five of those that numbers, comments and
quotes are made of. The functions `ir_pipeline` builds are all of a few
instructions over the operators each pass looks at, so that one pass meets what
another left. The programs of `engine` put every leaf statement into every
if/elif/else in a loop in a function that is called twice in one expression,
and calls itself; the other sequences are all of three tokens in an open block,
and all of two at file level.

**Deadlock** is checked where the system never stops: the VM, the table, the
channel and the arena always accept another call. In `toolchain` and
`ir_pipeline` a host that has its answer idles (`Answered`, `Done`), so a
deadlock is a stage or machine that is stuck without one. A program of the
engine ends, so its configurations turn the check off.

**Fairness.** The code is a set of loops in one thread. `FairSpec` of `FiberVM`
and `HSpec` of `MCFiberFair` assume weak fairness of the VM's own steps: once
called, C code goes on. The host is under no fairness; it need not call
anything. Which instruction is next is the program's choice, and no fairness is
assumed for any of them: a fiber that never yields is cut off by its budget.
`Engine` assumes weak fairness of `Next`, for the same reason.

### What was found

With a run each:

* **Starvation** (`fiber_starved`). A spawn links the child between the tail and
  the head of the ring. When the running fiber is the tail, its child comes
  before the head, which has waited longer. A chain of fibers that each spawn
  the next one and finish keeps the others from running. With boundedly many
  spawns the scheduler is a round robin (`fiber_fair`).
* **Functions at the prompt** (`engine_repl`). A function's body is a position in
  an array that the next line overwrites. A short line may leave the body as it
  was; a longer one does not.
* **Peripherals behind a statement** (`embedded_rogue`). The embedded analyser
  does not look into ifs, loops, returns and prints.
* **Cleared blocks** (`ir_dce`). Predecessors are never counted, so dead code
  elimination empties every block but the entry.
* **Precedence** (`precedence`). Appendix B of `RDX_SPEC.md` ranks `&`, `^` and `|`
  above the comparisons and gives all six comparisons one level. `parser.h:21-25`
  ranks them below, and `==` and `!=` below the other four. `a & b == c` is
  `a & (b == c)`; the document has `(a & b) == c`.

Met while modelling, kept in the models, and named as exclusions where a
property would not hold:

* Memory: the u32 generation of a reference wraps unchecked; after a reset or
  restore an arena's growth overwrites the link to later blocks; a string put
  together by a fiber dangles in globals and other fibers once it finishes,
  although `RDX_SPEC.md:10` calls the language memory safe.
* Engine: an empty block over two lines is left behind its end; conditions of
  an elif chain are evaluated after a branch has returned.
* Lexer: numbers swallow a following `e`, the exponent does not change the
  value, a comment that is not closed takes the rest of the text silently.
* VM: the counts of `OP_PRINT` and `OP_CAP_INVOKE` are not compared with the room
  in `args`, nor a local's slot with the size of the stack.
* Parser: `panic_mode` hides all errors but the first; the loops over fields do
  not end on a token that fits nothing; `pub` before a struct, a variable or a
  statement and the colon of a register block without a capability are read and
  dropped.
* Compiler: no code for member, index, array, bit range, comptime, asm, and the
  operators behind them pop somebody else's values; `end_scope` pops a
  block's value; break and continue leave locals on the stack.
* Checkers: functions have no parameters for the calls above them; parameters
  and fields beyond `MAX_FN_PARAMS` and `MAX_STRUCT_FIELDS` are dropped; granted
  capabilities stay for handlers and statements that follow.
* IR: wrong PHI labels when junctions nest, compound assignments lowered as
  `=`, assignments to globals dropped, `yield x` awaits value 0, drops behind
  a return (which `ir_module_validate` refuses), instructions beyond a block's
  capacity dropped, cleared blocks not counted as a change, an inliner that
  replaces nothing, loops nested deeper than `LOWER_MAX_SCOPES` written behind
  `loop_stack`. Strength reduction makes a reference of an operand that may be an
  immediate (`0 + 7` would become the value numbered 7): hidden, because both
  levels fold constants first.

`CursorAtEnd` compares the cursor with the end of the statement as the text has
it, by matching braces, written without the engine's scanning. It holds for
the programs of `engine`, none of which has an empty block.

## 4. Proofs

All theorems are for every value of the constants under the named assumptions
of the modules.

* `FiberVMProofs` proves type correctness, `RingOK`, `CurrentOK`,
  `OkMeansNoWork`, `EffectAllowed` and `ErrorIsFinal`. The invariant `IInv` adds
  to them:
  `PcInv`, which says when `current_fiber` may be NULL with fibers linked (only
  on the way to the first pick, and then one of them can run: otherwise
  `next_ready` would give up with work left); `ScanInv`, which says that the
  fibers a scan has passed are a stretch of the ring from its start and none of
  them can run, so that a scan which comes round has seen all; and `CapInv`,
  that no fiber holds more than the VM was given. `EffectAllowed` is a property of
  steps: of those within a slice, only a host call has an effect, and it asks for
  the capability of the fiber that runs. There is a lemma per group of
  actions.
  First come the lemmas about the ring: linking the first fiber, linking at the
  tail, unlinking one of many and the only one keep `RingOK`. That there is one
  ring is stated by its closed parts (a non-empty set of live fibers closed
  under `next` is all of them), which needs no recursion.
* `StackMachineProofs` proves `RefinesFiberVM`: a machine with values, frames and
  globals that executes any bytecode whose operands fit takes only steps that `FiberVM` has, for
  any number of fibers and any limits. There is a lemma per instruction, from
  lemmas on what a push, a pop and n pops do to the depth of a stack. A step
  can be mapped only while the state is one that `FiberVM` reaches (the fiber
  of a slice must be the scheduler's current one, or finishing would drop
  another fiber's stack), so that `MInv` joins `FiberVM`'s `IInv`, read through
  the refinement mapping, to the shape of stacks and frames. Values stay
  arbitrary throughout. `MachineSafe` draws the conclusion: one ring, the right
  current fiber, no work left by INTERPRET_OK, and an instruction, `OP_CAP_INVOKE`
  and unknown opcodes included, has an effect on the host only if the fiber that
  executes it holds the capability and the VM was given it. It is about bytecode
  whose operands fit, for as long as it stays in its chunks and writes no local
  behind the stack. `MachineErrorFinal` adds `ErrorIsFinal`: a fiber that died of an
  error is never scheduled again, in any such program.
* `GenTableProofs` proves type correctness and `FreeListOK` for `GenTable`, wraps
  included, and for the behaviours without a wrap `StaleNeverValid` and the
  refinement `ImplementsHandles`. The strengthening is `RetiredOlder`: a retired
  reference's generation is below its slot's.
* `ChannelProofs` proves `RingOK`, which is inductive, and `RefinesFifo`, for
  every capacity and every set of values. The lemmas say what the remainder of
  an index is, that no two positions of the queue share a slot, and what a send
  and a receive do to the sequence read off the ring.
* `FiberTurnsProofs` proves `RoundRobin`: the scheduler gives its turns in order
  whatever is spawned, finishes or dies, for any number of fibers and spawns.
  `TurnInv` says where the fibers are that were dispatched while f waits: on a
  stretch of the ring that ends with the current fiber and begins right behind
  f. A scan starts behind that stretch and cannot enter it again before it
  meets f, which can run. A spawn puts the new fiber on the stretches on which
  the ring's end is, a finish takes their last fiber, a dispatch makes them
  longer. That a stretch leads from any fiber to any other is proved from the
  closed parts of `RingOK` (`StretchExists`).
* `ArenaProofs` proves `TypeOK`, `RegionsOK` and `GrowingLosesNoBlock` for any
  sizes, alignments, blocks and markers. `RegionsOK` is not inductive: after a
  restore, growth overwrites a link, and nothing in it says that no region lies
  in what is cut off. `IInv` lays the chain out as a sequence of distinct blocks,
  puts the current block and every marker at a position of it, and says that
  every region lies at or before the current block, the regions older than a
  marker below it, and later markers behind earlier ones; until the first reset
  or restore, the current block is the last and the chain is all there is.
* `EngineProofs` proves `TypeOK`, `NoStatementAfterFlow` and `ScopesIsolated` for
  any lines of tokens, well formed or not, and any limits, and `CallRunsItsBody`
  for programs of one file. `IInv` says that the
  array ends with an "EOF" that the cursor never passes; which activation of
  the C functions may wait on which (`Over`) and which place they leave the
  interpreter at (`Expected`); that there is a scope for every waiting call and
  no other; and that a chain of ifs left by a return, break or continue has
  nothing above it but the condition of a later elif. `TypeOK` says of programs
  of one line only that the cursor never passes an "EOF": a later line at the
  prompt may call a function whose body lies behind one.
  `CallCorrect` proves `CallRunsItsBody` for the programs that are `OneFile`: one
  text that fits the token array, whose braces match and stand neither where an
  operand is awaited nor behind the newlines of a block without a statement.
  That every statement of a call is one of its function's body is not
  inductive, for the engine has no bounds of a body: it comes back to a saved
  position, or finds a brace by counting, and trusts to be where it was. The
  invariant `Contained` says where that is. The braces of the text give each
  position a depth (`Opened`); a position lies `Inside` a block if the depth has
  not fallen below that of the block's start since. Every position a waiting
  activation will go on at (the return of a call, the condition and the body of
  a loop) lies in all the blocks that were open when it began to wait, so does
  the cursor (`CursorIn`), a block on a call starts where the definition of its
  function says (`StartsBody`), and a definition ends where the depth is less
  than at its start (`BodyOf`). There is a lemma for each of the
  engine's scans (what it skips opens and closes the same number of blocks) and
  one for each action. The sessions of `engine` that are called well formed have
  such braces (`WellFormedAssumption`, which TLC evaluates); at the prompt the
  property is false (`engine_repl`).
* `IrOptimizerProofs` proves `NoOperandDangles` for any functions whose values
  come before their uses, at either level and however often they are optimised. The
  invariant is `OptimizerInv`. Its part `ModuleInOrder` says: the value an instruction of the entry block defines
  is named after its place, and an operand refers to an earlier place whose
  instruction is still there. Its part `FoldedFirst` says that between two passes of
  a level, whose first is constant folding, no instruction that could be folded is
  left (`AllFolded`). Strength reduction needs that: it takes the operand that stays
  for a reference, which is true only of an instruction with no more than one
  immediate. Copy propagation and common subexpressions rename
  operands through a table that they fill on the way; `Renames` says that each
  entry leads to an earlier value that lives. Dead code elimination removes only
  what nobody refers to. `EmitKeepsOrder` proves that `ir_emit` writes such
  functions when its operands are values it gave before; TLC evaluates, as
  `FunctionsAssumption`, that all modules of `ir_pipeline` are such functions. The
  lowering itself walks trees by recursion, and nothing is proved of it.
* `ValuesCarried` proves of the same functions that the passes keep what the entry
  block computes (`ValuesKept`, of integers that do not wrap). `val` gives each id
  any value; `Computes` says that an instruction may define the value `val` has for
  it from those of its operands, `Executed` that the first instructions all do.
  Behind executed instructions a pass leaves the next one with operands of the same
  values, or, where it only computes and divides by nothing that is zero, replaces it
  by one that computes the same value or removes it: what the block reads, writes,
  calls, returns or stops at is as before. `KeptRuns` carries that on from pass to
  pass. There is a lemma for each pass: what C folds is what the machine computes
  (`FoldBinaryComputes`, `FoldUnaryComputes`), the reductions are equations of
  arithmetic (`ReducedArithmetic`), equal work gives equal values
  (`SameWorkSameValue`), and every entry of the table of copies has the value of the
  copy, once the copies before it have run (`Carries`). The theorem is about the
  entry block: of the others the invariant says nothing. What a whole function does
  (`PassesKeepMeaning`) is `IrMeaning`'s to say, which is recursive, and model-checked.

`EngineProofs`, `ArenaProofs` and `IrOptimizerProofs` begin with what they need of
numbers without the library's induction theorems: least and greatest elements,
induction through an interval, and that a function which recurs to a larger
argument until it stops exists and yields its argument's first stop
(`TailRecursionExists`, `TailRecursionResult`). Functions written that way can be
reasoned about; operators declared RECURSIVE cannot.

Assumed of the constants is only what the code has: there are finitely many
fibers and blocks, NULL is none of them, capacities and limits are positive,
a call's arguments fit a stack, the room for the arguments of host calls is a
number, the host's capabilities are capabilities,
there is a largest alignment, names are not token types, and a session has a
line.

**Only model-checked:** liveness (`EveryFiberRuns`, `VmFreeEnds`, `StraightEnds`);
`CursorAtEnd`, which holds only of texts that follow the grammar of statements and
expressions, where `CallRunsItsBody` needs their braces alone;
`CallRunsItsBody` over several lines typed at the prompt; the tool chain, the
lowering to the IR and the meaning of its passes, whose operators walk trees and
are recursive. Liveness, ENABLED and recursive operators are out of the prover's
reach here. That compiled programs meet `OperandsFit` is model-checked with
`RefinesFiberVM` in `toolchain`: a larger count would have no step there.

## 5. Not modelled

* Floats, in every stage: TLA+ has none, and no property here needs them.
* Wrapping of 64-bit integers: the programs stay far from the limits.
* What the C code does behind the end of an array: more values than `args` holds
  in a host call, locals behind the stack, instructions behind a chunk, loops
  nested deeper than `LOWER_MAX_SCOPES`.
* `comptime_fold_expr`, `for` in checker and lowering (the parser never builds
  one), the types, lifetimes and effects of the IR, its inliner.
* In the engine: its lexer, values and builtins, list element assignment,
  method and module calls, `exit()`.
* `analyzer.c` and `module.c`, which do not compile against the current headers.
* `rdx_cyber.c` (hashes, text matching), diagnostics, command line, generators
  of C text (`embed_codegen.c`, `aot.c`), the v1 interpreter, and the
  platform layer, which appears only as an allocator that may fail.

## 6. Plan

1. **Proofs:** the machine's own promises, such as the homes of strings and
   the growth of the output; the blocks that `IrBuilder` writes.
2. **Engine:** lists and element assignment, method calls, `exit()`.
3. **IR:** the module validator over what the lowering writes, lifetimes and
   drops.
4. **Constants:** `comptime_fold_expr` over whole trees.

## 7. Running

```
tlc -workers 2 -config MCFiberVM.cfg MCFiberVM
tlc -workers 2 -config MCToolchain.cfg MCToolchain
tlc -workers 2 -config MCEngineRepl.cfg MCEngine
tlapm FiberVMProofs.tla
```

`toolchain` takes one to two minutes, most others less; the proofs of
`EngineProofs` take some twenty minutes, those of `StackMachineProofs` four, the
others one or two.

A definition whose comment calls it a mutant is a plausible mistake in the
definition that follows it, kept to show that the properties notice it; no
specification uses it. `PROJECT.json` pairs them.
