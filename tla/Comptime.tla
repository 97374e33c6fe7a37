------------------------------ MODULE Comptime ------------------------------
(***************************************************************************)
(* comptime.c: the evaluation of constant expressions.  A result is a      *)
(* sequence of one integer, or empty where comptime_eval_int returns       *)
(* FALSE.  Booleans are 0 and 1 here, and both sides of `and` and `or` are *)
(* evaluated.  comptime_eval_float, for literals the programs here have    *)
(* none of, is left out.                                                   *)
(***************************************************************************)
EXTENDS Syntax, Values

LOCAL Fails == <<>>
LOCAL Bit(b) == <<IF b THEN 1 ELSE 0>>

EvalUnary(op, inner) ==
    CASE op = "-" -> <<-inner>>
      [] op = "not" -> Bit(inner = 0)
      [] op = "~" -> <<-inner - 1>>

\* Mutant: the remainder is that of mathematics, never negative.
RemainderFloor(l, r) == l % (IF r > 0 THEN r ELSE -r)

\* That of C: its sign is the dividend's.
Remainder(l, r) == TruncMod(l, r)

EvalBinary(op, l, r) ==
    CASE op \in {"/", "%"} /\ r = 0 -> Fails
      [] op \in ArithmeticOp /\ ~(op = "/" /\ r = 0) -> <<IntArithmetic(op, l, r)>>
      [] op = "%" /\ r # 0 -> <<Remainder(l, r)>>
      [] op \in BitOps -> <<BitOp(op, l, r)>>
      [] op = "==" -> Bit(l = r)
      [] op = "!=" -> Bit(l # r)
      [] op \in CompareOp -> Bit(IntCompare(op, l, r))
      [] op = "and" -> Bit(l # 0 /\ r # 0)
      [] op = "or" -> Bit(l # 0 \/ r # 0)

\* The statements of a block are not looked at, but for the last one when
\* the block has no result.
LOCAL BlockResult(e) ==
    IF e.result_expr # NoExpr THEN e.result_expr
    ELSE IF e.stmts # <<>> /\ Last(e.stmts).kind = "expr" THEN Last(e.stmts).expr
    ELSE NoExpr

RECURSIVE ComptimeEvalInt(_)
ComptimeEvalInt(e) ==
    CASE e.kind = "int" -> <<e.int_val>>
      [] e.kind = "bool" -> Bit(e.bool_val)
      [] e.kind = "unary" ->
           FoldLeft(LAMBDA acc, n : EvalUnary(e.op, n), Fails, ComptimeEvalInt(e.operand))
      [] e.kind = "binary" ->
           LET both == ComptimeEvalInt(e.left) \o ComptimeEvalInt(e.right)
           IN  IF Len(both) = 2 THEN EvalBinary(e.op, both[1], both[2]) ELSE Fails
      [] e.kind = "block" -> ComptimeEvalInt(BlockResult(e))
      [] e.kind = "comptime" -> ComptimeEvalInt(e.expr)
      [] OTHER -> Fails
=============================================================================
