------------------------------- MODULE IrOpt -------------------------------
(***************************************************************************)
(* ir_opt.c: the passes over one function.  Each gives the function it     *)
(* leaves.  Floats are left out; that the count of what a pass replaced is *)
(* not zero means that it changed an instruction.                          *)
(*                                                                         *)
(* The tables of the passes have room for the ids below 8192, which are    *)
(* those of the entry block: an id of another block is 65536 at least.     *)
(***************************************************************************)
EXTENDS IrBuilder, Values

InTable(id) == id # NoId /\ id[1] = Entry

\* fn with every instruction replaced by what F makes of it.
ForEachInstr(fn, F(_)) ==
    [fn EXCEPT !.blocks = [b \in DOMAIN fn.blocks |->
        [fn.blocks[b] EXCEPT !.instrs = [i \in DOMAIN @ |-> F(@[i])]]]]

MakeConst(instr, op, n) == Instr(op, <<Imm(n)>>, instr.id)
MakeMove(instr, operand) == Instr("MOVE", <<operand>>, instr.id)

-----------------------------------------------------------------------------
\* What C makes of two integers; a division by zero is not folded.
FoldBinary(instr, op, a, b) ==
    CASE op \in {"/", "%"} /\ b = 0 -> instr
      [] op = "==" -> MakeConst(instr, "CONST_BOOL", IF a = b THEN 1 ELSE 0)
      [] op = "!=" -> MakeConst(instr, "CONST_BOOL", IF a # b THEN 1 ELSE 0)
      [] op \in CompareOp -> MakeConst(instr, "CONST_BOOL", IF IntCompare(op, a, b) THEN 1 ELSE 0)
      [] op \in BitOps -> MakeConst(instr, "CONST_INT", BitOp(op, a, b))
      [] op = "%" /\ b # 0 -> MakeConst(instr, "CONST_INT", TruncMod(a, b))
      [] OTHER -> MakeConst(instr, "CONST_INT", IntArithmetic(op, a, b))

FoldUnary(instr, n) ==
    CASE instr.op = "NEG" -> MakeConst(instr, "CONST_INT", -n)
      [] instr.op = "NOT" -> MakeConst(instr, "CONST_BOOL", IF n = 0 THEN 1 ELSE 0)
      [] instr.op = "BIT_NOT" -> MakeConst(instr, "CONST_INT", -n - 1)

\* ir_pass_const_fold.
ConstFold(fn) ==
    ForEachInstr(fn, LAMBDA i :
        IF (\E o \in Range(i.operands) : ~IsNumber(o)) THEN i
        ELSE IF i.op \in DOMAIN IrOperator
             THEN FoldBinary(i, IrOperator[i.op], i.operands[1].imm, i.operands[2].imm)
        ELSE IF i.op \in {"NEG", "NOT", "BIT_NOT"} THEN FoldUnary(i, i.operands[1].imm)
        ELSE i)

-----------------------------------------------------------------------------
OperandsOf(fn) == UNION {Range(i.operands) : i \in UNION {Range(b.instrs) : b \in Range(fn.blocks)}}

Used(fn) == {o.ref : o \in {p \in OperandsOf(fn) : IsRef(p) /\ InTable(p.ref)}}

PureOp == {"CONST_INT", "CONST_BOOL", "CONST_STR", "ADD", "SUB", "MUL", "NEG", "AND", "OR", "XOR",
           "NOT", "BIT_NOT", "CMP_EQ", "CMP_NE", "CMP_LT", "CMP_LE", "CMP_GT", "CMP_GE", "MOVE"}

RemoveUnused(fn) ==
    ForEachInstr(fn, LAMBDA i :
        IF i.op \in PureOp /\ i.id # NoId /\ i.id \notin Used(fn) THEN Instr("UNDEF", <<>>, NoId) ELSE i)

ClearUnreached(fn) ==
    [fn EXCEPT !.blocks = [b \in DOMAIN @ |->
        IF b # Entry /\ @[b].pred_count = 0 THEN [@[b] EXCEPT !.instrs = <<>>] ELSE @[b]]]

\* ir_pass_dce.
Dce(fn) == ClearUnreached(RemoveUnused(fn))

-----------------------------------------------------------------------------
IsCopy(i) == i.op = "MOVE" /\ IsRef(i.operands[1]) /\ InTable(i.operands[1].ref) /\ InTable(i.id)

\* Mutant: a copy of a copy is renamed to the copy.
CopiedOneStep(r, i) == IF IsCopy(i) THEN [r EXCEPT ![i.id] = i.operands[1].ref] ELSE r

\* The value each value of the entry block is a copy of, itself at first,
\* and when instruction i has been looked at.
Copied(r, i) == IF IsCopy(i) THEN [r EXCEPT ![i.id] = r[i.operands[1].ref]] ELSE r

Renaming(fn) ==
    LET instrs == fn.blocks[Entry].instrs
        r[k \in 0..Len(instrs)] ==
            IF k = 0 THEN [id \in {<<Entry, j>> : j \in DOMAIN instrs} |-> id]
            ELSE Copied(r[k - 1], instrs[k])
    IN  r[Len(instrs)]

Renamed(r, o) == IF IsRef(o) /\ InTable(o.ref) THEN Ref(r[o.ref]) ELSE o

RenameAll(fn, r) ==
    ForEachInstr(fn, LAMBDA i :
        Instr(IF IsCopy(i) THEN "UNDEF" ELSE i.op,
              [k \in DOMAIN i.operands |-> Renamed(r, i.operands[k])], i.id))

\* ir_pass_copy_prop.
CopyProp(fn) == RenameAll(fn, Renaming(fn))

-----------------------------------------------------------------------------
\* Mutant: the operands are compared as sets.
SameWorkUnordered(a, b) ==
    /\ a.op \in {"ADD", "SUB", "MUL", "AND", "OR", "XOR"} /\ a.id # NoId
    /\ b.op = a.op /\ Range(b.operands) = Range(a.operands)

SameWork(a, b) ==
    /\ a.op \in {"ADD", "SUB", "MUL", "AND", "OR", "XOR"} /\ a.id # NoId
    /\ b.op = a.op /\ b.operands = a.operands

\* The first instruction of a block that does the same work takes the place
\* of the later ones.
Deduplicated(instrs, k) ==
    LET earlier == SelectInSubSeq(instrs, 1, k - 1, LAMBDA a : SameWork(a, instrs[k]))
    IN  IF earlier = 0 THEN instrs[k] ELSE MakeMove(instrs[k], Ref(instrs[earlier].id))

\* ir_pass_cse.
Cse(fn) ==
    [fn EXCEPT !.blocks = [b \in DOMAIN fn.blocks |->
        [fn.blocks[b] EXCEPT !.instrs = [k \in DOMAIN @ |-> Deduplicated(@, k)]]]]

-----------------------------------------------------------------------------
\* The operand .val makes of o: what is in its place, the low 32 bits of a
\* number too, is taken for the id of a value.
Referred(o) == IF IsNumber(o) THEN Ref(<<((o.imm \div 2^16) % 2^16) + 1, (o.imm % 2^16) + 1>>) ELSE o

MakeCopy(instr, o) == MakeMove(instr, Referred(o))

\* ir_pass_strength_reduce of one instruction x op n or n op x.
Reduce(instr) ==
    LET x == instr.operands[1]
        y == instr.operands[2]
        right(n) == y = Imm(n)
        shift == [n \in {2, 4, 8} |-> CASE n = 2 -> 1 [] n = 4 -> 2 [] n = 8 -> 3]
    IN  CASE instr.op \in {"ADD", "SUB"} /\ right(0) -> MakeCopy(instr, x)
          [] instr.op = "ADD" /\ x = Imm(0) /\ ~right(0) -> MakeCopy(instr, y)
          [] instr.op = "MUL" /\ right(0) -> MakeConst(instr, "CONST_INT", 0)
          [] instr.op \in {"MUL", "DIV"} /\ right(1) -> MakeCopy(instr, x)
          [] instr.op = "MUL" /\ (\E n \in DOMAIN shift : right(n)) ->
               Instr("SHL", <<x, Imm(shift[y.imm])>>, instr.id)
          [] OTHER -> instr

StrengthReduce(fn) ==
    ForEachInstr(fn, LAMBDA i : IF i.op \in DOMAIN IrOperator THEN Reduce(i) ELSE i)
=============================================================================
