----------------------------- MODULE IrPipeline -----------------------------
(***************************************************************************)
(* The other back end: a program is lowered to a module of the IR          *)
(* (ir_lower_program), which is optimised.  A module may also be written   *)
(* instruction by instruction with the builder.                            *)
(*                                                                         *)
(* Nothing of the repository calls the back end.                           *)
(***************************************************************************)
EXTENDS IrLower, IrOptimizer, IrMeaning

CONSTANTS
    Programs,       \* programs that are lowered
    Built           \* functions written with the builder

VARIABLE written        \* the program, for a module that was lowered

vars == <<written, optVars>>

\* The modules are those that IrOptimizer is about.
ASSUME FunctionsAssumption ==
    /\ \A fn \in Built : FunctionInOrder(fn)
    /\ \A program \in Programs : \A fn \in Range(IrLowerProgram(program)) : FunctionInOrder(fn)

NotWritten == <<>>     \* a module of the builder's

Init ==
    /\ \/ written \in Programs /\ fns = <<>>
       \/ written = NotWritten /\ \E fn \in Built : fns = <<fn>>
    /\ OptimizerInit

LowerProgram ==
    /\ fns = <<>>
    /\ fns' = IrLowerProgram(written)
    /\ UNCHANGED <<written, iteration, passes, at, changed>>

Optimize ==
    /\ \/ StartOptimize
       \/ PassConstFold \/ PassDce \/ PassCopyProp \/ PassCse \/ PassStrengthReduce
       \/ NextIteration
    /\ UNCHANGED written

Done == Optimized /\ UNCHANGED vars

Next == LowerProgram \/ Optimize \/ Done

Spec == Init /\ [][Next]_vars

-----------------------------------------------------------------------------
(* The lowered program. *)

WasLowered == fns # <<>> /\ iteration = 0 /\ written # NotWritten

\* No block is full, so that no instruction was dropped.
Complete(fn) == \A b \in DOMAIN fn.blocks : ~Full(fn, b)

Control(n) == n.kind \in {"if", "while", "loop"}
Junction(n) == n.kind = "binary" /\ n.op \in {"and", "or"}

\* What the lowering has nothing, or something else, for.
LoweredOtherwise(n) ==
    \/ n.kind \in {"fn", "call", "spawn", "yield", "cap_req", "member", "index", "array", "bit_range",
                   "comptime", "asm"}
    \/ n.kind = "assign" /\ (n.op # "=" \/ n.target.kind # "ident")

\* A name that is assigned is that of a variable of the main program.
AssignsVariables(decls) ==
    \A i \in DOMAIN decls : \A n \in Nodes(decls[i]) :
        n.kind = "assign" =>
            \E k \in 1..(i - 1) : decls[k].kind = "stmt" /\ decls[k].stmt.kind = "var"
                                  /\ decls[k].stmt.name = n.target.name

\* The phi of a junction names the blocks it comes from when no others lie
\* between: its right side has no junction, and neither a junction nor a
\* statement with blocks is inside of one.
NamesBlocks(decls) ==
    LET nodes == NodesOf(decls)
    IN  (\E n \in nodes : Junction(n)) =>
            \A n \in nodes :
                /\ Junction(n) => \A m \in Nodes(n.right) : ~Junction(m)
                /\ Control(n) => \A m \in Nodes(n) \ {n} : ~Control(m) /\ ~Junction(m)

\* The scopes a part opens at once: a block one, a branch or a body another.
RECURSIVE ScopesOf(_)
ScopesOf(n) ==
    (IF n.kind = "block" \/ Control(n) THEN 1 ELSE 0) + Max({0} \cup {ScopesOf(m) : m \in Children(n)})

Comparable(decls) ==
    /\ \A n \in NodesOf(decls) : ~LoweredOtherwise(n)
    /\ \A d \in Range(decls) : ScopesOf(d) < LowerMaxScopes
    /\ AssignsVariables(decls) /\ NamesBlocks(decls)

\* The lowered main program prints what the program means, and stops at the
\* same error.
LoweredComputesAsWritten ==
    WasLowered /\ Comparable(written) /\ Complete(fns[1]) =>
        LET meant == RunProgram(written)
            main == IrRun(fns[1])
        IN  meant.sigs \cap {"any", "break", "continue"} = {} /\ main.sig # "any" =>
              /\ main.out = meant.outs[1]
              /\ main.sig = "return" \/ main.sig \in meant.sigs
              /\ main.sig = "return" => meant.sigs \subseteq {"next", "return"}

\* The blocks control may come to.
RECURSIVE ReachableFrom(_, _)
ReachableFrom(fn, seen) ==
    LET next == seen \cup UNION {fn.blocks[b].successors : b \in seen}
    IN  IF next = seen THEN seen ELSE ReachableFrom(fn, next)
Reachable(fn) == ReachableFrom(fn, {Entry})

\* Control leaves a block of a lowered function that it comes to, and at
\* one place: behind it there are only the drops of the locals.
EndsOnce(instrs) ==
    LET i == SelectInSeq(instrs, LAMBDA instr : instr.op \in Terminator)
    IN  i # 0 /\ \A k \in (i + 1)..Len(instrs) : instrs[k].op = "DROP"

BlocksEndOnce ==
    WasLowered =>
        \A f \in DOMAIN fns :
            Complete(fns[f]) => \A b \in Reachable(fns[f]) : EndsOnce(fns[f].blocks[b].instrs)

-----------------------------------------------------------------------------
(* The passes. *)

\* A pass over a function of one block changes neither what it prints and
\* returns nor how it ends.
PassesKeepMeaning ==
    [][fns # <<>> =>
          \A f \in DOMAIN fns :
              Len(fns[f].blocks) = 1 /\ IrRun(fns[f]).sig # "any" => IrRun(fns'[f]) = IrRun(fns[f])]_vars

\* ir_opt.c: dead code elimination removes unreachable blocks, so that one
\* control may come to keeps its instructions.
ReachableBlocksStay ==
    \A f \in DOMAIN fns : \A b \in Reachable(fns[f]) : fns[f].blocks[b].instrs # <<>>
=============================================================================
