------------------------------ MODULE IrLower -------------------------------
(***************************************************************************)
(* ir_lower.c: from the syntax tree to the IR.  A context is the record of *)
(* LowerCtx: the functions of the module so far, the function and the      *)
(* block that are written (NULL is NoBlock, behind a return, a break and a *)
(* continue), the locals, the bases of the open scopes, and the targets of *)
(* the loops around.  A result is a context and the id of a value.         *)
(*                                                                         *)
(* The parser builds no `for` statement, so that case is left out.  A      *)
(* branch or a junction is never lowered without a block: the C code       *)
(* dereferences it.  Loops are not nested LOWER_MAX_SCOPES deep: the C     *)
(* code writes their targets to loop_stack without a look at its size.     *)
(***************************************************************************)
EXTENDS IrBuilder, Syntax

CONSTANTS
    LowerMaxLocals,     \* LOWER_MAX_LOCALS (512)
    LowerMaxScopes      \* LOWER_MAX_SCOPES (64)

NoBlock == 0

Lowered(c, v) == [c |-> c, v |-> v]
Lowering(r, go(_, _)) == go(r.c, r.v)
Dead(c) == c.block = NoBlock

\* An instruction in the current block, or nothing without one.
Adds(c, op, operands) ==
    IF Dead(c) THEN Lowered(c, NoId)
    ELSE Lowered([c EXCEPT !.fn = IrEmit(c.fn, c.block, op, operands)], IrEmitted(c.fn, c.block, op))
Adding(c, op, operands) == Adds(c, op, operands).c

Jumps(c, target) == IF Dead(c) THEN c ELSE [c EXCEPT !.fn = IrEmitJump(@, c.block, target)]
Branches(c, cond, then, else) == [c EXCEPT !.fn = IrEmitBranch(@, c.block, cond, then, else)]
At(c, block) == [c EXCEPT !.block = block]

\* New blocks, numbered behind those the function has.
NewBlocks(c, n) == [c EXCEPT !.fn.blocks = @ \o [i \in 1..n |-> NewBlock]]
BlockCount(c) == Len(c.fn.blocks)

\* A scope that does not fit is not opened, but closed nevertheless.
LowerPushScope(c) ==
    IF Len(c.scopes) >= LowerMaxScopes THEN c
    ELSE [c EXCEPT !.scopes = Append(@, Len(c.locals))]

\* Mutant: the locals of a scope are not dropped but forgotten, all of them.
LowerPopScopeAll(c) ==
    IF c.scopes = <<>> THEN c ELSE [c EXCEPT !.scopes = Front(@), !.locals = <<>>]

\* lower_pop_scope drops the locals of the scope, if there is a block left.
LowerPopScope(c) ==
    IF c.scopes = <<>> THEN c
    ELSE LET base == Last(c.scopes)
             drops == FoldLeft(LAMBDA d, l : Adding(d, "DROP", <<Ref(l.slot)>>),
                               c, SubSeq(c.locals, base + 1, Len(c.locals)))
         IN  [drops EXCEPT !.scopes = Front(@), !.locals = SubSeq(@, 1, base)]

LowerDefineLocal(c, name, slot) ==
    IF Len(c.locals) >= LowerMaxLocals THEN c
    ELSE [c EXCEPT !.locals = Append(@, [name |-> name, slot |-> slot])]

LowerFindLocal(c, name) ==
    LET i == SelectLastInSeq(c.locals, LAMBDA l : l.name = name)
    IN  IF i = 0 THEN NoId ELSE c.locals[i].slot

-----------------------------------------------------------------------------
RECURSIVE Lower(_, _)

LowerAll(c, es) ==
    FoldLeft(LAMBDA acc, e :
                 Lowering(Lower(acc.c, e), LAMBDA d, v : Lowered(d, Append(acc.v, Ref(v)))),
             Lowered(c, <<>>), es)

LowerInto(op, r) == Lowering(r, LAMBDA d, vs : Adds(d, op, vs))

\* A variable, as the operand of a LOAD: its slot, or the name of a global.
Variable(c, name) ==
    IF LowerFindLocal(c, name) = NoId THEN Name(name) ELSE Ref(LowerFindLocal(c, name))

LowerOp(op) == CHOOSE code \in DOMAIN IrOperator : IrOperator[code] = op

\* The right side of `and` and `or` has a block of its own.  The phi names
\* the blocks it comes from by their numbers as they would be without other
\* new blocks in between.
LowerJunction(c, e) ==
    Lowering(Lower(c, e.left), LAMBDA d, l :
        LET rhs == BlockCount(d) + 1
            end == BlockCount(d) + 2
            taken == IF e.op = "and" THEN rhs ELSE end
            split == Branches(NewBlocks(d, 2), l, taken, IF taken = rhs THEN end ELSE rhs)
        IN  Lowering(Lower(At(split, rhs), e.right), LAMBDA k, r :
                Adds(At(Jumps(k, end), end), "PHI",
                     <<Ref(l), Target(BlockCount(k) - 2), Ref(r), Target(rhs)>>)))

\* A compound assignment is lowered like `=`; a name that is no local is
\* not assigned at all.
LowerAssign(c, e) ==
    Lowering(Lower(c, e.value), LAMBDA d, v :
        LET slot == IF e.target.kind = "ident" THEN LowerFindLocal(d, e.target.name) ELSE NoId
        IN  Lowered(IF slot = NoId THEN d ELSE Adding(d, "STORE", <<Ref(slot), Ref(v)>>), v))

LowerBlock(c, e) ==
    LET body == FoldLeft(LAMBDA d, s : Lower(d, s).c, LowerPushScope(c), e.stmts)
    IN  Lowering(Lower(body, e.result_expr), LAMBDA d, v : Lowered(LowerPopScope(d), v))

\* What reaches into a value or a task.  The operand of `yield` shares its
\* place with an immediate 0 written behind it: a value is awaited, but the
\* one with the id 0.
LowerAggregate(c, e) ==
    CASE e.kind = "member" ->
           Lowering(Lower(c, e.target), LAMBDA d, v : Adds(d, "GEP", <<Ref(v), Name(e.field)>>))
      [] e.kind = "index" -> LowerInto("GEP", LowerAll(c, <<e.target, e.index>>))
      [] e.kind = "array" ->
           Lowering(LowerAll(c, e.elements), LAMBDA d, vs :
               Adds(d, "HEAP_ALLOC", <<Imm(Len(e.elements))>> \o vs))
      [] e.kind = "spawn" -> LowerInto("SPAWN", LowerAll(c, <<e.call_expr>>))
      [] e.kind = "yield" ->
           Lowering(Lower(c, e.value), LAMBDA d, v :
               Adds(d, "AWAIT", <<IF v = NoId THEN Imm(0) ELSE Ref(<<Entry, 1>>)>>))

\* lower_expr.
LowerExpr(c, e) ==
    CASE e.kind = "int" -> Adds(c, "CONST_INT", <<Imm(e.int_val)>>)
      [] e.kind = "str" -> Adds(c, "CONST_STR", <<Name(e.chars)>>)
      [] e.kind = "bool" -> Adds(c, "CONST_BOOL", <<Imm(IF e.bool_val THEN 1 ELSE 0)>>)
      [] e.kind = "nil" -> Adds(c, "CONST_NULL", <<Imm(0)>>)
      [] e.kind = "ident" -> Adds(c, "LOAD", <<Variable(c, e.name)>>)
      [] e.kind = "unary" ->
           LowerInto(CASE e.op = "-" -> "NEG" [] e.op = "not" -> "NOT" [] e.op = "~" -> "BIT_NOT",
                     LowerAll(c, <<e.operand>>))
      [] e.kind = "binary" ->
           IF e.op \in {"and", "or"} THEN LowerJunction(c, e)
           ELSE LowerInto(LowerOp(e.op), LowerAll(c, <<e.left, e.right>>))
      [] e.kind = "assign" -> LowerAssign(c, e)
      [] e.kind = "call" -> LowerInto("CALL", LowerAll(c, <<e.callee>> \o e.args))
      [] e.kind = "block" -> LowerBlock(c, e)
      [] e.kind \in {"member", "index", "array", "spawn", "yield"} -> LowerAggregate(c, e)
      [] OTHER -> Lowered(c, NoId)

-----------------------------------------------------------------------------
Silent(c) == Lowered(c, NoId)

\* A slot for the variable behind its first value.
LowerVar(c, s) ==
    Lowering(IF s.init = NoExpr THEN Adds(c, "CONST_NULL", <<Imm(0)>>) ELSE Lower(c, s.init), LAMBDA d, v :
        Lowering(Adds(d, "ALLOCA", <<Imm(8)>>), LAMBDA k, slot :
            Silent(LowerDefineLocal(Adding(k, "STORE", <<Ref(slot), Ref(v)>>), s.name, slot))))

\* A statement in a scope of its own, from `start` on, that goes on to `end`.
Branch(c, start, s, end) ==
    Jumps(IF s = NoStmt THEN At(c, start) ELSE LowerPopScope(Lower(LowerPushScope(At(c, start)), s).c), end)

LowerIf(c, s) ==
    Lowering(Lower(c, s.condition), LAMBDA d, cond :
        LET n == BlockCount(d)
            split == Branches(NewBlocks(d, 3), cond, n + 1, n + 2)
            then == Branch(split, n + 1, s.then_branch, n + 3)
        IN  Silent(At(Branch(then, n + 2, s.else_branch, n + 3), n + 3)))

\* The body of a loop, where break and continue know where to go.
Looping(c, start, body, again, exit) ==
    LET inside == [c EXCEPT !.loops = Append(@, [break_target |-> exit, cont_target |-> again])]
    IN  At([Branch(inside, start, body, again) EXCEPT !.loops = c.loops], exit)

LowerWhile(c, s) ==
    LET n == BlockCount(c)
        header == At(Jumps(NewBlocks(c, 3), n + 1), n + 1)
    IN  Lowering(Lower(header, s.condition), LAMBDA d, cond :
            Silent(Looping(Branches(d, cond, n + 2, n + 3), n + 2, s.body, n + 1, n + 3)))

LowerLoop(c, s) ==
    LET n == BlockCount(c)
    IN  Silent(Looping(Jumps(NewBlocks(c, 2), n + 1), n + 1, s.body, n + 1, n + 2))

\* Mutant: what follows a return goes on in its block.
LowerReturnGoesOn(c, s) ==
    Lowering(IF s.value = NoExpr THEN Adds(c, "CONST_INT", <<Imm(0)>>) ELSE Lower(c, s.value), LAMBDA d, v :
        Silent(Adding(d, "RETURN", <<Ref(v)>>)))

LowerReturn(c, s) ==
    Lowering(IF s.value = NoExpr THEN Adds(c, "CONST_INT", <<Imm(0)>>) ELSE Lower(c, s.value), LAMBDA d, v :
        Silent(At(Adding(d, "RETURN", <<Ref(v)>>), NoBlock)))

Leaves(c, target) == Silent(At(Jumps(c, target), NoBlock))

LowerPrint(c, s) ==
    Lowering(LowerAll(c, s.exprs), LAMBDA d, vs :
        Lowering(Adds(d, "CONST_STR", <<Name("rdx_print")>>), LAMBDA k, f :
            Silent(Adding(k, "CALL", <<Ref(f)>> \o vs))))

\* lower_stmt.
LowerStmt(c, s) ==
    CASE s.kind = "expr" -> Silent(Lower(c, s.expr).c)
      [] s.kind = "var" -> LowerVar(c, s)
      [] s.kind = "if" -> LowerIf(c, s)
      [] s.kind = "while" -> LowerWhile(c, s)
      [] s.kind = "loop" -> LowerLoop(c, s)
      [] s.kind = "return" -> LowerReturn(c, s)
      [] s.kind = "break" /\ c.loops # <<>> -> Leaves(c, Last(c.loops).break_target)
      [] s.kind = "continue" /\ c.loops # <<>> -> Leaves(c, Last(c.loops).cont_target)
      [] s.kind = "print" -> LowerPrint(c, s)
      [] OTHER -> Silent(c)

LoweredStatement == {"expr", "var", "if", "while", "loop", "return", "break", "continue", "print"}

Lower(c, n) ==
    IF Dead(c) THEN Silent(c)
    ELSE IF n.kind \in LoweredStatement THEN LowerStmt(c, n) ELSE LowerExpr(c, n)

-----------------------------------------------------------------------------
\* ir_lower_function: the parameters are locals, nothing fills their slots.
\* The locals of the main program stay in scope.
FunctionContext(c, d) ==
    LET start == LowerPushScope([c EXCEPT !.fn = IrBlockNew(IrFuncNew(d.name)), !.block = Entry])
    IN  FoldLeft(LAMBDA k, p :
                     Lowering(Adds(k, "ALLOCA", <<Imm(8)>>), LAMBDA m, slot :
                         LowerDefineLocal([m EXCEPT !.fn.params = Append(@, slot)], p.name, slot)),
                 start, d.params)

\* A body that comes to its end returns its value, or 0.
FunctionEnd(c, v) ==
    IF Dead(c) THEN c
    ELSE Lowering(IF v = NoId THEN Adds(c, "CONST_INT", <<Imm(0)>>) ELSE Lowered(c, v), LAMBDA d, w :
             Adding(d, "RETURN", <<Ref(w)>>))

IrLowerFunction(c, d) ==
    Lowering(Lower(FunctionContext(c, d), d.body), LAMBDA k, v : LowerPopScope(FunctionEnd(k, v)).fn)

LowerDecl(c, d) ==
    CASE d.kind = "fn" -> [c EXCEPT !.fns = Append(@, IrLowerFunction(c, d))]
      [] d.kind = "stmt" -> Lower(c, d.stmt).c
      [] OTHER -> c

\* ir_lower_program: __main__ is the first function of the module.
IrLowerProgram(decls) ==
    LET start == [fns |-> <<>>, fn |-> IrBlockNew(IrFuncNew("__main__")), block |-> Entry,
                  locals |-> <<>>, scopes |-> <<>>, loops |-> <<>>]
        end == FoldLeft(LowerDecl, LowerPushScope(start), decls)
    IN  <<LowerPopScope(FunctionEnd(end, NoId)).fn>> \o end.fns
=============================================================================
