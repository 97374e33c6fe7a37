---------------------------- MODULE IrOptimizer -----------------------------
(***************************************************************************)
(* ir_optimize: the passes of a level run over each function of a module   *)
(* in turn, at most three times over, one pass in a step.                  *)
(*                                                                         *)
(* The last pass of OPT_LEVEL_FULL, inlining, counts nothing and replaces  *)
(* nothing.  What the passes find is a matter of the functions alone.      *)
(***************************************************************************)
EXTENDS IrOpt

VARIABLES
    fns,            \* the functions of the module, none while there is no module
    iteration,      \* of ir_optimize: 0 before, 4 behind the last one
    passes,         \* the passes of the level
    at,             \* the function and the pass that are next
    changed

optVars == <<fns, iteration, passes, at, changed>>

-----------------------------------------------------------------------------
(* What ir_emit makes of a block, as long as its operands are values that   *)
(* it gave before: the value an instruction defines is named after its      *)
(* place, and no operand of the entry block refers to a later place.        *)

EntryInstrs(fn) == fn.blocks[Entry].instrs

HasEntry(fn) ==
    /\ "blocks" \in DOMAIN fn /\ Entry \in DOMAIN fn.blocks
    /\ "instrs" \in DOMAIN fn.blocks[Entry]
    /\ EntryInstrs(fn) \in Seq(Range(EntryInstrs(fn)))

\* Instruction k is there, and defines its value.
Lives(instrs, k) == instrs[k].op # "UNDEF" /\ instrs[k].id = <<Entry, k>>

RefersBack(instrs, k, o) ==
    IsRef(o) /\ InTable(o.ref) => \E j \in 1..(k - 1) : o = Ref(<<Entry, j>>) /\ Lives(instrs, j)

\* The operands the passes look at without a look at their number.
TakesOperands(i) ==
    /\ i.op \in DOMAIN IrOperator => DOMAIN i.operands = {1, 2}
    /\ i.op \in DOMAIN IrUnaryOperator \cup {"MOVE"} => DOMAIN i.operands = {1}

InOrder(instrs, k) ==
    /\ instrs[k] = Instr(instrs[k].op, instrs[k].operands, instrs[k].id)
    /\ TakesOperands(instrs[k])
    /\ instrs[k].id \in {NoId, <<Entry, k>>}
    /\ instrs[k].op # "UNDEF" => \A o \in Range(instrs[k].operands) : RefersBack(instrs, k, o)

FunctionInOrder(fn) ==
    /\ HasEntry(fn)
    /\ \A k \in DOMAIN EntryInstrs(fn) : InOrder(EntryInstrs(fn), k)

ModuleInOrder == fns \in Seq(Range(fns)) /\ \A f \in DOMAIN fns : FunctionInOrder(fns[f])

-----------------------------------------------------------------------------
MaxIterations == 3      \* bound of the loop in ir_optimize

BasicPasses == <<"const_fold", "dce">>
FullPasses == BasicPasses \o <<"copy_prop", "cse", "strength_reduce">>

OptimizerInit == iteration = 0 /\ passes = <<>> /\ at = <<1, 1>> /\ changed = FALSE

\* A module is made, by the lowering or by the builder.
NewModule ==
    /\ fns = <<>>
    /\ ModuleInOrder'
    /\ UNCHANGED <<iteration, passes, at, changed>>

StartOptimize ==
    /\ fns # <<>> /\ iteration = 0
    /\ iteration' = 1
    /\ passes' \in {BasicPasses, FullPasses}
    /\ UNCHANGED <<fns, at, changed>>

Optimizing == iteration \in 1..MaxIterations /\ at[1] <= Len(fns)

\* One pass over one function; `progress` is whether its counts make
\* another iteration.
Pass(name, after, progress) ==
    /\ Optimizing /\ passes[at[2]] = name
    /\ fns' = [fns EXCEPT ![at[1]] = after]
    /\ at' = IF at[2] < Len(passes) THEN <<at[1], at[2] + 1>> ELSE <<at[1] + 1, 1>>
    /\ changed' = (changed \/ progress)
    /\ UNCHANGED <<iteration, passes>>

Function == fns[at[1]]

PassConstFold == Pass("const_fold", ConstFold(Function), ConstFold(Function) # Function)

\* A block that is cleared does not count.
PassDce == Pass("dce", Dce(Function), RemoveUnused(Function) # Function)

PassCopyProp == Pass("copy_prop", CopyProp(Function), CopyProp(Function) # Function)

PassCse == Pass("cse", Cse(Function), Cse(Function) # Function)

PassStrengthReduce ==
    Pass("strength_reduce", StrengthReduce(Function), StrengthReduce(Function) # Function)

NextIteration ==
    /\ iteration \in 1..MaxIterations /\ at[1] > Len(fns)
    /\ iteration' = IF changed THEN iteration + 1 ELSE MaxIterations + 1
    /\ at' = <<1, 1>> /\ changed' = FALSE
    /\ UNCHANGED <<fns, passes>>

Optimized == iteration = MaxIterations + 1

OptimizerNext ==
    \/ NewModule \/ StartOptimize
    \/ PassConstFold \/ PassDce \/ PassCopyProp \/ PassCse \/ PassStrengthReduce
    \/ NextIteration

OptimizerSpec ==
    /\ ModuleInOrder /\ OptimizerInit
    /\ [][OptimizerNext]_optVars

-----------------------------------------------------------------------------
\* What the operands of the entry block refer to is still there.
StillThere(fn, id) == \E i \in Range(EntryInstrs(fn)) : i.id = id /\ i.op # "UNDEF"

NoOperandDangles ==
    \A f \in DOMAIN fns : \A i \in Range(EntryInstrs(fns[f])) :
        i.op # "UNDEF" =>
            \A o \in Range(i.operands) : IsRef(o) /\ InTable(o.ref) => StillThere(fns[f], o.ref)

-----------------------------------------------------------------------------
(* What an entry block computes, of the instructions that are executed:     *)
(* val gives each id the value that its instruction defines.                *)

OperandValue(val, o) ==
    IF IsNumber(o) THEN IntVal(o.imm) ELSE IF IsRef(o) THEN val[o.ref] ELSE o

OperandValues(val, i) == [p \in DOMAIN i.operands |-> OperandValue(val, i.operands[p])]

Integer == {IntVal(n) : n \in Int}

DividesByZero(op, vs) == op \in {"DIV", "REM"} /\ vs[2] = IntVal(0)

\* An instruction whose operands have the values vs may go on with v as its
\* own; as IrMeaning has it, arithmetic is of integers.
MayDefine(op, vs, v) ==
    CASE op \in {"CONST_INT", "MOVE"} -> v = vs[1]
      [] op = "CONST_BOOL" -> v = BoolVal(vs[1] = IntVal(1))
      [] op = "CONST_STR" -> v = StrVal(vs[1].name)
      [] op = "CONST_NULL" -> v = NilVal
      [] op \in DOMAIN IrOperator ->
           /\ op \notin {"CMP_EQ", "CMP_NE"} => {vs[1], vs[2]} \subseteq Integer
           /\ ~DividesByZero(op, vs)
           /\ <<v>> \in BinaryResults(IrOperator[op], vs[1], vs[2])
      [] op \in DOMAIN IrUnaryOperator -> <<v>> \in UnaryResults(IrUnaryOperator[op], vs[1])
      [] OTHER -> TRUE

Computes(val, i) == MayDefine(i.op, OperandValues(val, i), val[i.id])

\* The first n instructions run.
Executed(val, instrs, n) == \A k \in 1..n : Computes(val, instrs[k])

\* j is the instruction i, of the same values.
SameInstr(val, i, j) ==
    /\ j.op = i.op /\ j.id = i.id
    /\ i.op # "UNDEF" => OperandValues(val, j) = OperandValues(val, i)

\* i only computes and stops nothing; it is gone, or j computes it instead.
Simplified(val, i, j) ==
    /\ i.op \in DOMAIN IrOperator \cup DOMAIN IrUnaryOperator \cup PureOp
    /\ ~DividesByZero(i.op, OperandValues(val, i))
    /\ j.op = "UNDEF" \/ (j.id = i.id /\ j.op \in {"CONST_INT", "CONST_BOOL", "MOVE", "SHL"})

DoesInstead(val, i, j) ==
    /\ Computes(val, i) => Computes(val, j)
    /\ SameInstr(val, i, j) \/ Simplified(val, i, j)

\* What each instruction of s does behind the ones before it, that of t does.
KeepsValues(s, t) ==
    \A val : \A k \in DOMAIN s : Executed(val, s, k - 1) => DoesInstead(val, s[k], t[k])

\* A pass changes nothing of what an entry block computes, reads, writes,
\* calls or returns, and hides no division by zero.
ValuesKept ==
    [][fns # <<>> => \A f \in DOMAIN fns : KeepsValues(EntryInstrs(fns[f]), EntryInstrs(fns'[f]))]_optVars
=============================================================================
