----------------------------- MODULE IrBuilder ------------------------------
(***************************************************************************)
(* rdx_ir.c: functions of basic blocks of instructions.  The id of a       *)
(* value, (block id << 16) | index in the C code, is the pair of the two.  *)
(* Blocks are numbered from 1, the entry.                                  *)
(*                                                                         *)
(* Types, lifetimes, ownership and resources are left out: nothing that is *)
(* modelled reads them, but for the type of IR_NOT, which is an operation  *)
(* NOT on booleans and one BIT_NOT on numbers.  The caps on functions      *)
(* (512) and blocks (256) are never met: their callers do not look at the  *)
(* NULL they would get.                                                    *)
(***************************************************************************)
EXTENDS Integers, Sequences, SequencesExt, FiniteSets

CONSTANT InstrCapacity      \* instr_capacity of a block (256)

NoId == <<>>                \* IR_ID_INVALID
Entry == 1

\* An operand is a value or immediate: a number, a name, a block.
Ref(id) == [ref |-> id]
Imm(n) == [imm |-> n]
Name(s) == [name |-> s]
Target(b) == [block |-> b]
IsRef(o) == "ref" \in DOMAIN o
IsNumber(o) == "imm" \in DOMAIN o

\* The operator of each binary instruction.
IrOperator == [
    ADD |-> "+", SUB |-> "-", MUL |-> "*", DIV |-> "/", REM |-> "%",
    AND |-> "&", OR |-> "|", XOR |-> "^", SHL |-> "<<", SHR |-> ">>",
    CMP_EQ |-> "==", CMP_NE |-> "!=", CMP_LT |-> "<", CMP_LE |-> "<=", CMP_GT |-> ">", CMP_GE |-> ">="]
IrUnaryOperator == [NEG |-> "-", NOT |-> "not", BIT_NOT |-> "~"]

Instr(op, operands, id) == [op |-> op, operands |-> operands, id |-> id]

\* ir_block_new.  Nobody ever counts a predecessor.
NewBlock == [instrs |-> <<>>, successors |-> {}, pred_count |-> 0]
IrBlockNew(fn) == [fn EXCEPT !.blocks = Append(@, NewBlock)]

\* ir_func_new.
IrFuncNew(name) == [name |-> name, params |-> <<>>, blocks |-> <<>>]

VoidOp == {"STORE", "JUMP", "BRANCH", "RETURN"}

\* The value an instruction at the end of block b would define.
ResultId(fn, b, op) == IF op \in VoidOp THEN NoId ELSE <<b, Len(fn.blocks[b].instrs) + 1>>

Full(fn, b) == Len(fn.blocks[b].instrs) >= InstrCapacity

\* ir_emit; what does not fit is dropped without a word.
IrEmit(fn, b, op, operands) ==
    IF Full(fn, b) THEN fn
    ELSE [fn EXCEPT !.blocks[b].instrs = Append(@, Instr(op, operands, ResultId(fn, b, op)))]

IrEmitted(fn, b, op) == IF Full(fn, b) THEN NoId ELSE ResultId(fn, b, op)

\* ir_emit_jump and ir_emit_branch record the edges.
IrEmitJump(fn, b, target) ==
    [IrEmit(fn, b, "JUMP", <<Target(target)>>) EXCEPT !.blocks[b].successors = @ \cup {target}]

IrEmitBranch(fn, b, cond, then, else) ==
    [IrEmit(fn, b, "BRANCH", <<Ref(cond), Target(then), Target(else)>>)
        EXCEPT !.blocks[b].successors = @ \cup {then, else}]

Terminator == {"JUMP", "BRANCH", "RETURN"}
=============================================================================
