------------------------------ MODULE Meaning ------------------------------
(***************************************************************************)
(* What a program means: an evaluator of the syntax tree, to compare the   *)
(* compiled and the lowered program with.  It is a reference, not a part   *)
(* of the repository.  A block is a scope, its value is that of its last   *)
(* expression; a function returns what `return` gives it, or nil; `and`    *)
(* and `or` evaluate their right side only when they need it and give the  *)
(* value they stopped at.  A spawned function runs after the main program. *)
(*                                                                         *)
(* A state m has the functions, the globals, the scopes of locals around   *)
(* the point of evaluation (innermost last), what was printed and what was *)
(* spawned.  An outcome is a state, a value and a signal: "next", "break", *)
(* "continue", "return", a run-time error of vm.c, or "any" where the      *)
(* value depends on what the language leaves open.                         *)
(***************************************************************************)
EXTENDS Syntax, Values, FiniteSets

LOCAL Outcome(m, v, sig) == [m |-> m, v |-> v, sig |-> sig]
LOCAL Val(m, v) == Outcome(m, v, "next")
LOCAL Goes(o) == o.sig = "next"

\* What happens behind o, unless o broke off.
LOCAL Then(o, go(_, _)) == IF Goes(o) THEN go(o.m, o.v) ELSE o

\* The scope that declares x, 0 for none.
LOCAL ScopeOf(m, x) == SelectLastInSeq(m.scopes, LAMBDA s : x \in DOMAIN s)

LOCAL WithName(map, x, v) == [y \in DOMAIN map \cup {x} |-> IF y = x THEN v ELSE map[y]]

LOCAL Lookup(m, x) ==
    IF ScopeOf(m, x) # 0 THEN Val(m, m.scopes[ScopeOf(m, x)][x])
    ELSE IF x \in DOMAIN m.globals THEN Val(m, m.globals[x])
    ELSE Outcome(m, NilVal, "undefined")

LOCAL Store(m, x, v) ==
    IF ScopeOf(m, x) # 0 THEN [m EXCEPT !.scopes[ScopeOf(m, x)][x] = v]
    ELSE [m EXCEPT !.globals = WithName(@, x, v)]

LOCAL Declare(m, x, v) ==
    IF m.scopes = <<>> THEN [m EXCEPT !.globals = WithName(@, x, v)]
    ELSE [m EXCEPT !.scopes = Front(@) \o <<WithName(Last(@), x, v)>>]

\* The value an operator gives, when there is one and no other.
LOCAL OneOf(m, results) ==
    IF Cardinality(results) = 1 /\ <<>> \notin results
    THEN Val(m, Head(CHOOSE v \in results : TRUE))
    ELSE Outcome(m, NilVal, "any")

Apply2(m, op, a, b) ==
    IF op \in {"/", "%"} /\ b = IntVal(0) THEN Outcome(m, NilVal, "zero")
    ELSE IF op = "%" /\ ~IsInt(b) THEN Outcome(m, NilVal, "any")
    ELSE IF op \in {"==", "!="} THEN Val(m, BoolVal((a = b) <=> (op = "==")))
    ELSE OneOf(m, BinaryResults(op, a, b))

Truth(v) == TRUE \in ValueIsTruthy(v)

RECURSIVE Eval(_, _)

LOCAL EvalAll(m, es) ==
    FoldLeft(LAMBDA acc, e :
                 Then(acc, LAMBDA n, vs : Then(Eval(n, e), LAMBDA k, v : Val(k, Append(vs, v)))),
             Val(m, <<>>), es)

LOCAL ExecAll(m, stmts) ==
    FoldLeft(LAMBDA acc, s : Then(acc, LAMBDA n, v : Eval(n, s)), Val(m, NilVal), stmts)

\* A call: the arguments are the only locals of the body.
LOCAL Params(d, args) ==
    [x \in {d.params[k].name : k \in DOMAIN d.params} |->
        args[CHOOSE k \in DOMAIN d.params : d.params[k].name = x]]
LOCAL Returned(o, scopes) ==
    [m |-> [o.m EXCEPT !.scopes = scopes],
     v |-> IF o.sig = "return" THEN o.v ELSE NilVal,
     sig |-> IF o.sig = "return" THEN "next" ELSE o.sig]
LOCAL CallFn(m, d, args) ==
    Returned(Eval([m EXCEPT !.scopes = <<Params(d, args)>>], d.body), m.scopes)

\* What call or spawn checks of the callee, the first of the values.
LOCAL CheckedCall(m, c, go(_, _)) ==
    Then(EvalAll(m, <<c.callee>> \o c.args), LAMBDA n, vals :
        IF Head(vals).tag # "fn" THEN Outcome(n, NilVal, "callee")
        ELSE IF Len(n.fns[Head(vals).fn].params) # Len(c.args) THEN Outcome(n, NilVal, "arity")
        ELSE go(n, vals))

LOCAL CompoundOp == [op \in {"+=", "-=", "*=", "/="} |->
    CASE op = "+=" -> "+" [] op = "-=" -> "-" [] op = "*=" -> "*" [] op = "/=" -> "/"]

LOCAL Value(m, e) ==
    CASE e.kind = "int" -> Val(m, IntVal(e.int_val))
      [] e.kind = "str" -> Val(m, StrVal(e.chars))
      [] e.kind = "bool" -> Val(m, BoolVal(e.bool_val))
      [] e.kind \in {"nil", "none"} -> Val(m, NilVal)
      [] e.kind = "ident" -> Lookup(m, e.name)
      [] e.kind = "unary" -> Then(Eval(m, e.operand), LAMBDA n, v : OneOf(n, UnaryResults(e.op, v)))
      [] e.kind = "binary" ->
           Then(Eval(m, e.left), LAMBDA n, v :
               IF (e.op = "and" /\ ~Truth(v)) \/ (e.op = "or" /\ Truth(v)) THEN Val(n, v)
               ELSE IF e.op \in {"and", "or"} THEN Eval(n, e.right)
               ELSE Then(Eval(n, e.right), LAMBDA k, w : Apply2(k, e.op, v, w)))
      [] e.kind = "assign" ->
           Then(IF e.op = "=" THEN Eval(m, e.value)
                ELSE Then(Lookup(m, e.target.name), LAMBDA n, old :
                         Then(Eval(n, e.value), LAMBDA k, v : Apply2(k, CompoundOp[e.op], old, v))),
                LAMBDA n, v : Val(Store(n, e.target.name, v), v))
      [] e.kind = "call" ->
           CheckedCall(m, e, LAMBDA n, vals : CallFn(n, n.fns[Head(vals).fn], Tail(vals)))
      [] e.kind = "spawn" ->
           CheckedCall(m, IF e.call_expr.kind = "call" THEN e.call_expr ELSE Call(e.call_expr, <<>>),
               LAMBDA n, vals :
                   Val([n EXCEPT !.spawned = Append(@, vals)], IntVal(Len(n.spawned) + 2)))
      [] e.kind = "block" ->
           LET leave(o) == [o EXCEPT !.m.scopes = SubSeq(@, 1, Len(m.scopes))]
           IN  leave(Then(ExecAll([m EXCEPT !.scopes = Append(@, <<>>)], e.stmts),
                          LAMBDA n, v : Eval(n, e.result_expr)))
      [] e.kind = "yield" -> Eval(m, e.value)
      [] e.kind = "comptime" -> Eval(m, e.expr)
      [] OTHER -> Outcome(m, NilVal, "any")

\* A turn of a while and what follows; `loop` is a while that is true.
LOCAL Repeat(m, s) ==
    LET again(o) == IF o.sig = "break" THEN Val(o.m, NilVal)
                    ELSE IF o.sig \in {"next", "continue"} THEN Eval(o.m, s)
                    ELSE o
    IN  Then(Eval(m, s.condition), LAMBDA n, v :
            IF Truth(v) THEN again(Eval(n, s.body)) ELSE Val(n, NilVal))

LOCAL Exec(m, s) ==
    CASE s.kind = "expr" -> Eval(m, s.expr)
      [] s.kind = "var" -> Then(Eval(m, s.init), LAMBDA n, v : Val(Declare(n, s.name, v), v))
      [] s.kind = "if" ->
           Then(Eval(m, s.condition), LAMBDA n, v : Eval(n, IF Truth(v) THEN s.then_branch ELSE s.else_branch))
      [] s.kind = "while" -> Repeat(m, s)
      [] s.kind = "loop" -> Eval(m, WhileStmt(BoolLit(TRUE), s.body))
      [] s.kind = "print" ->
           Then(EvalAll(m, s.exprs), LAMBDA n, vs : Val([n EXCEPT !.out = Append(@, vs)], NilVal))
      [] s.kind = "return" -> Then(Eval(m, s.value), LAMBDA n, v : Outcome(n, v, "return"))
      [] s.kind \in {"break", "continue"} -> Outcome(m, NilVal, s.kind)

LOCAL Statement == {"expr", "var", "if", "while", "loop", "print", "return", "break", "continue"}

Eval(m, n) == IF n.kind \in Statement THEN Exec(m, n) ELSE Value(m, n)

\* An expression on its own.
MeaningOf(e) == Eval([fns |-> <<>>, globals |-> <<>>, scopes |-> <<>>, out |-> <<>>, spawned |-> <<>>], e)

-----------------------------------------------------------------------------
FunctionsOf(decls) == SelectSeq(decls, LAMBDA d : d.kind = "fn")

LOCAL RunDecl(m, d) ==
    CASE d.kind = "stmt" -> Eval(m, d.stmt)
      [] d.kind = "fn" ->
           Val([m EXCEPT !.globals =
                   WithName(@, d.name, FnVal(CHOOSE i \in DOMAIN m.fns : m.fns[i] = d))], NilVal)
      [] OTHER -> Val(m, NilVal)

\* The outcome of the main program, with what each fiber prints: the main
\* one first, then the spawned ones in order, each with the globals as the
\* main program leaves them.
LOCAL WithFibers(main) ==
    LET after == [main.m EXCEPT !.out = <<>>, !.scopes = <<>>]
        Fiber(vals) == CallFn(after, after.fns[Head(vals).fn], Tail(vals))
        fibers == [i \in DOMAIN main.m.spawned |-> Fiber(main.m.spawned[i])]
    IN  [outs |-> <<main.m.out>> \o [i \in DOMAIN fibers |-> fibers[i].m.out],
         sigs |-> {main.sig} \cup {fibers[i].sig : i \in DOMAIN fibers}]

RunProgram(decls) ==
    LET start == [fns |-> FunctionsOf(decls), globals |-> <<>>, scopes |-> <<>>,
                  out |-> <<>>, spawned |-> <<>>]
    IN  WithFibers(FoldLeft(LAMBDA acc, d : Then(acc, LAMBDA m, v : RunDecl(m, d)),
                            Val(start, NilVal), decls))
=============================================================================
