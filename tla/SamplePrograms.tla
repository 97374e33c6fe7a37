--------------------------- MODULE SamplePrograms ---------------------------
(***************************************************************************)
(* Short names to write programs with, and the programs that print an      *)
(* expression of two operators.                                            *)
(***************************************************************************)
EXTENDS Syntax

N(n) == IntLit(n)
V(x) == Ident(x)
Op2(op, l, r) == Binary(op, l, r)
Add(l, r) == Binary("+", l, r)
Less(l, r) == Binary("<", l, r)
Calls(f, args) == Call(V(f), args)
Does(e) == ExprStmt(e)
Sets(x, e) == Does(Assign("=", V(x), e))
LetStmt(x, e) == VarStmt(x, "", e, FALSE, FALSE)
MutStmt(x, e) == VarStmt(x, "int", e, TRUE, FALSE)
Prints(e) == PrintStmt(<<e>>)
Body(stmts) == ExprStmt(Block(stmts, NoExpr))
Fn(x, params, stmts) ==
    FnDecl(x, [i \in DOMAIN params |-> Param(params[i], "int")], "", Block(stmts, NoExpr), FALSE)
Main(stmts) == [i \in DOMAIN stmts |-> StmtDecl(stmts[i])]

-----------------------------------------------------------------------------
(* Nested operators. *)

Infix == {"or", "and", "|", "^", "&", "==", "<", "<<", "-", "*", "/", "%"}

Nested ==
    {Binary(o1, Binary(o2, N(6), N(3)), N(2)) : o1, o2 \in Infix} \cup
    {Binary(o1, N(6), Binary(o2, N(3), N(2))) : o1, o2 \in Infix} \cup
    {Unary(u, Binary(o, N(0), N(3))) : u \in UnaryOp, o \in Infix} \cup
    {Binary(o, Unary(u, N(0)), N(3)) : u \in UnaryOp, o \in Infix} \cup
    {Binary(o, BoolLit(b), Assign("=", V("x"), N(0))) : o \in {"or", "and"}, b \in BOOLEAN}

NestedPrograms ==
    {Main(<<LetStmt("x", N(1)), PrintStmt(<<e, V("x")>>)>>) : e \in Nested}
=============================================================================
