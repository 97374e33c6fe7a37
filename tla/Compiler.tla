------------------------------ MODULE Compiler ------------------------------
(***************************************************************************)
(* compiler.c: from the syntax tree to bytecode.  A compiler is the record *)
(* of compiler.h: the code of the chunk it writes, the locals (depth and   *)
(* name, in slot order), the scope depth, the enclosing loops with the     *)
(* jumps their breaks left to be patched, and had_error.  `fns` are the    *)
(* functions compiled so far, which all compilers share.                   *)
(*                                                                         *)
(* Bytecode is a sequence of instructions rather than of bytes: a jump     *)
(* holds the index of its target where the code has a distance in bytes,   *)
(* and a constant stands in the instruction where the code has an index    *)
(* into the chunk's pool.                                                  *)
(***************************************************************************)
EXTENDS Syntax, Values

CONSTANTS
    MaxLocals,      \* MAX_LOCALS (256)
    MaxBreaks       \* MAX_BREAKS (64), per loop

Op(op) == [op |-> op]
OpConst(v) == [op |-> "CONSTANT", val |-> v]
OpSlot(op, slot) == [op |-> op, slot |-> slot]
OpName(op, name) == [op |-> op, name |-> name]
OpCount(op, count) == [op |-> op, count |-> count]
OpJump(op, target) == [op |-> op, target |-> target]

Local(name, depth) == [name |-> name, depth |-> depth]

\* compiler_init: slot 0 is reserved under a name no program can write.
CompilerInit(fns) ==
    [code |-> <<>>, locals |-> <<Local("", 0)>>, scope_depth |-> 0, loops |-> <<>>,
     had_error |-> FALSE, fns |-> fns]

Emit(c, instruction) == [c EXCEPT !.code = Append(@, instruction)]
Failed(c) == [c EXCEPT !.had_error = TRUE]

\* The index of the next instruction: chunk->count.
Here(c) == Len(c.code) + 1

\* emit_jump leaves a target to patch_jump; emit_loop knows its own.
EmitJump(c, op) == Emit(c, OpJump(op, 0))
PatchJump(c, at) == [c EXCEPT !.code[at].target = Here(c)]
PatchJumps(c, ats) == FoldLeft(PatchJump, c, ats)
EmitLoop(c, start) == Emit(c, OpJump("LOOP", start))

\* resolve_local: the slot of the innermost local of that name, or -1.
ResolveLocal(c, name) == SelectLastInSeq(c.locals, LAMBDA l : l.name = name) - 1

AddLocal(c, name) ==
    IF Len(c.locals) >= MaxLocals THEN Failed(c)
    ELSE [c EXCEPT !.locals = Append(@, Local(name, c.scope_depth))]

BeginScope(c) == [c EXCEPT !.scope_depth = @ + 1]

\* end_scope: one pop for each local of the scope.
EndScope(c) ==
    LET kept == SelectSeq(c.locals, LAMBDA l : l.depth < c.scope_depth)
        pops == [i \in 1..(Len(c.locals) - Len(kept)) |-> Op("POP")]
    IN  [c EXCEPT !.scope_depth = @ - 1, !.locals = kept, !.code = @ \o pops]

\* A local's slot, or a global's name.
EmitVariable(c, access, name) ==
    IF ResolveLocal(c, name) # -1
    THEN Emit(c, OpSlot(access \o "_LOCAL", ResolveLocal(c, name)))
    ELSE Emit(c, OpName(access \o "_GLOBAL", name))

\* A new local, or a definition of a global at the top level.
DefineVariable(c, name) ==
    IF c.scope_depth > 0 THEN AddLocal(c, name)
    ELSE Emit(c, OpName("DEFINE_GLOBAL", name))

CompoundOp == [op \in {"+=", "-=", "*=", "/="} |->
    CASE op = "+=" -> "+" [] op = "-=" -> "-" [] op = "*=" -> "*" [] op = "/=" -> "/"]

-----------------------------------------------------------------------------
\* Expressions and statements contain each other; no kind is both, but asm,
\* which is nothing to either.
RECURSIVE Compile(_, _)

CompileExpr(c, e) == Compile(c, e)
CompileStmt(c, s) == Compile(c, s)
CompileAll(c, nodes) == FoldLeft(Compile, c, nodes)

CompileBinary(c, e) == Emit(CompileExpr(CompileExpr(c, e.left), e.right), Op(e.op))

\* Mutant: the left operand of `and` is left under the right one.
CompileAndNoPop(c, e) ==
    LET left == CompileExpr(c, e.left)
    IN  PatchJump(CompileExpr(EmitJump(left, "JUMP_IF_FALSE"), e.right), Here(left))

CompileAnd(c, e) ==
    LET left == CompileExpr(c, e.left)
        right == CompileExpr(Emit(EmitJump(left, "JUMP_IF_FALSE"), Op("POP")), e.right)
    IN  PatchJump(right, Here(left))

CompileOr(c, e) ==
    LET left == CompileExpr(c, e.left)
        jumps == EmitJump(EmitJump(left, "JUMP_IF_FALSE"), "JUMP")
        else == PatchJump(jumps, Here(left))
    IN  PatchJump(CompileExpr(Emit(else, Op("POP")), e.right), Here(left) + 1)

CompileAssign(c, e) ==
    IF e.target.kind # "ident" THEN Failed(c)
    ELSE LET x == e.target.name
             value == IF e.op = "=" THEN CompileExpr(c, e.value)
                      ELSE Emit(CompileExpr(EmitVariable(c, "GET", x), e.value), Op(CompoundOp[e.op]))
         IN  EmitVariable(value, "SET", x)

CompileCall(c, e, op) ==
    Emit(CompileAll(CompileExpr(c, e.callee), e.args), OpCount(op, Len(e.args)))

\* compile_expr.  Member access, indexing, arrays, comptime and asm have no
\* case: nothing is emitted, and nothing is pushed.
ExprCode(c, e) ==
    CASE e.kind = "int" -> Emit(c, OpConst(IntVal(e.int_val)))
      [] e.kind = "str" -> Emit(c, OpConst(StrVal(e.chars)))
      [] e.kind = "bool" -> Emit(c, Op(IF e.bool_val THEN "TRUE" ELSE "FALSE"))
      [] e.kind = "nil" -> Emit(c, Op("NIL"))
      [] e.kind = "ident" -> EmitVariable(c, "GET", e.name)
      [] e.kind = "unary" ->
           Emit(CompileExpr(c, e.operand), Op(IF e.op = "-" THEN "NEG" ELSE e.op))
      [] e.kind = "binary" ->
           (CASE e.op = "and" -> CompileAnd(c, e)
              [] e.op = "or" -> CompileOr(c, e)
              [] OTHER -> CompileBinary(c, e))
      [] e.kind = "assign" -> CompileAssign(c, e)
      [] e.kind = "call" -> CompileCall(c, e, "CALL")
      [] e.kind = "block" ->
           LET body == CompileAll(BeginScope(c), e.stmts)
           IN  EndScope(IF e.result_expr = NoExpr THEN Emit(body, Op("NIL"))
                        ELSE CompileExpr(body, e.result_expr))
      [] e.kind = "spawn" ->
           IF e.call_expr.kind = "call" THEN CompileCall(c, e.call_expr, "SPAWN")
           ELSE Emit(CompileExpr(c, e.call_expr), OpCount("SPAWN", 0))
      [] e.kind = "yield" ->
           Emit(IF e.value = NoExpr THEN Emit(c, Op("NIL")) ELSE CompileExpr(c, e.value), Op("YIELD"))
      [] e.kind = "cap_req" -> Emit(c, OpName("CAP_REQ", e.cap_name))
      [] OTHER -> c

-----------------------------------------------------------------------------
CompileIf(c, s) ==
    LET cond == CompileExpr(c, s.condition)
        then == CompileStmt(Emit(EmitJump(cond, "JUMP_IF_FALSE"), Op("POP")), s.then_branch)
        else == Emit(PatchJump(EmitJump(then, "JUMP"), Here(cond)), Op("POP"))
    IN  PatchJump(IF s.else_branch = NoStmt THEN else ELSE CompileStmt(else, s.else_branch),
                  Here(then))

\* The loop contexts of compiler.h, innermost last.
BeginLoop(c) == [c EXCEPT !.loops = Append(@, [loop_start |-> Here(c), break_jumps |-> <<>>])]
LoopStart(c) == Last(c.loops).loop_start

\* The breaks of the innermost loop lead here, and it is left.
EndLoop(c) == [PatchJumps(c, Last(c.loops).break_jumps) EXCEPT !.loops = Front(@)]

\* Mutant: the breaks of a while lead to the pop of its condition.
CompileWhileBreakBeforePop(c, s) ==
    LET cond == CompileExpr(BeginLoop(c), s.condition)
        body == CompileStmt(Emit(EmitJump(cond, "JUMP_IF_FALSE"), Op("POP")), s.body)
        end == PatchJump(EmitLoop(body, LoopStart(body)), Here(cond))
    IN  Emit(EndLoop(end), Op("POP"))

CompileWhile(c, s) ==
    LET cond == CompileExpr(BeginLoop(c), s.condition)
        body == CompileStmt(Emit(EmitJump(cond, "JUMP_IF_FALSE"), Op("POP")), s.body)
        end == PatchJump(EmitLoop(body, LoopStart(body)), Here(cond))
    IN  EndLoop(Emit(end, Op("POP")))

CompileLoop(c, s) ==
    LET body == CompileStmt(BeginLoop(c), s.body)
    IN  EndLoop(EmitLoop(body, LoopStart(body)))

\* A break beyond MaxBreaks is never patched.
CompileBreak(c) ==
    LET depth == Len(c.loops)
    IN  IF depth = 0 THEN Failed(c)
        ELSE IF Len(Last(c.loops).break_jumps) < MaxBreaks
        THEN [EmitJump(c, "JUMP") EXCEPT !.loops[depth].break_jumps = Append(@, Here(c))]
        ELSE EmitJump(c, "JUMP")

\* compile_stmt; an asm statement has no case.
StmtCode(c, s) ==
    CASE s.kind = "expr" -> Emit(CompileExpr(c, s.expr), Op("POP"))
      [] s.kind = "var" ->
           DefineVariable(IF s.init = NoExpr THEN Emit(c, Op("NIL")) ELSE CompileExpr(c, s.init), s.name)
      [] s.kind = "if" -> CompileIf(c, s)
      [] s.kind = "while" -> CompileWhile(c, s)
      [] s.kind = "loop" -> CompileLoop(c, s)
      [] s.kind = "print" -> Emit(CompileAll(c, s.exprs), OpCount("PRINT", Len(s.exprs)))
      [] s.kind = "return" ->
           Emit(IF s.value = NoExpr THEN Emit(c, Op("NIL")) ELSE CompileExpr(c, s.value), Op("RETURN"))
      [] s.kind = "break" -> CompileBreak(c)
      [] s.kind = "continue" -> IF c.loops = <<>> THEN Failed(c) ELSE EmitLoop(c, LoopStart(c))
      [] OTHER -> c

StatementKind == {"expr", "var", "if", "while", "loop", "print", "return", "break", "continue"}

Compile(c, n) ==
    Strictly(LAMBDA k : IF n.kind \in StatementKind THEN StmtCode(k, n) ELSE ExprCode(k, n), c)

\* A function of compile_decl, with a compiler of its own.  An error in the
\* body is printed, but stays in that compiler.
CompileFunction(c, d) ==
    LET start == [CompilerInit(c.fns) EXCEPT !.scope_depth = 1]
        params == FoldLeft(LAMBDA k, p : AddLocal(k, p.name), start, d.params)
        body == CompileExpr(params, d.body)
        code == body.code \o <<Op("NIL"), Op("RETURN")>>
        fn == [name |-> d.name, arity |-> Len(d.params), code |-> code]
        fns == Append(body.fns, fn)
    IN  Emit(Emit([c EXCEPT !.fns = fns], OpConst(FnVal(Len(fns)))), OpName("DEFINE_GLOBAL", d.name))

\* compile_decl: shapes, structs, register blocks and handlers compile to
\* nothing.
CompileDecl(c, d) ==
    CASE d.kind = "stmt" -> CompileStmt(c, d.stmt)
      [] d.kind = "fn" -> CompileFunction(c, d)
      [] OTHER -> c

\* compiler_compile_program; the main function is the last of `fns`.
CompileProgram(decls) ==
    LET c == FoldLeft(CompileDecl, CompilerInit(<<>>), decls)
        main == [name |-> "<main>", arity |-> 0, code |-> c.code \o <<Op("NIL"), Op("HALT")>>]
    IN  [ok |-> ~c.had_error, fns |-> Append(c.fns, main)]
=============================================================================
