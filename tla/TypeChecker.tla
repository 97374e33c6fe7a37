---------------------------- MODULE TypeChecker ----------------------------
(***************************************************************************)
(* type_check.c: the static type checker.  A checker is the record of      *)
(* type_check.h: the symbols in scope, the bases of the open scopes, the   *)
(* registered types, the result type of the function around, in_loop and   *)
(* had_error.  A result is a checker and a type.                           *)
(*                                                                         *)
(* Annotations of more than one token ("[]num", "Option[num]") never reach *)
(* the checker: the parser's types are single tokens.  It builds no `for`  *)
(* statement and no enum either, so these cases are left out.  Functions   *)
(* have no more than MAX_FN_PARAMS parameters and structs no more than     *)
(* MAX_STRUCT_FIELDS fields (64 both): what is behind them is counted, but *)
(* its type is not kept.                                                   *)
(***************************************************************************)
EXTENDS Syntax, FiniteSetsExt

CONSTANTS
    TcMaxSyms,      \* TC_MAX_SYMS (512)
    TcMaxScopes,    \* TC_MAX_SCOPES (64)
    TcMaxTypes      \* TC_MAX_TYPES (256)

Ty(kind) == [kind |-> kind]
TyArray(elem) == [kind |-> "array", elem |-> elem]
TyFn(params, ret) == [kind |-> "fn", params |-> params, ret |-> ret]
TyStruct(name, fields) == [kind |-> "struct", name |-> name, fields |-> fields]

TC_UNKNOWN == Ty("unknown")
TC_NIL == Ty("nil")
TC_BOOL == Ty("bool")
TC_INT == Ty("int")
TC_STR == Ty("str")

\* builtin_type_from_name.
BuiltinName == {"num", "flt", "dob", "chr", "blo", "byt", "ptr", "nil", "never"}
BuiltinType(name) ==
    CASE name = "num" -> TC_INT
      [] name = "flt" -> Ty("float")
      [] name = "dob" -> Ty("double")
      [] name = "chr" -> TC_STR
      [] name = "blo" -> TC_BOOL
      [] name = "byt" -> Ty("byte")
      [] name \in {"ptr", "nil", "never"} -> Ty(name)

TcInit ==
    [symbols |-> <<>>, scopes |-> <<>>, types |-> <<>>, ret |-> TC_NIL,
     in_loop |-> FALSE, had_error |-> FALSE]

TcError(c) == [c EXCEPT !.had_error = TRUE]
TcErrorIf(c, wrong) == IF wrong THEN TcError(c) ELSE c

\* tc_types_compatible: an unknown type goes with every other one, and so
\* do the numbers but for bytes.
Coercible == {"int", "float", "double"}
RECURSIVE TypesCompatible(_, _)
TypesCompatible(a, b) ==
    \/ {a.kind, b.kind} \cap {"unknown", "never"} # {}
    \/ {a.kind, b.kind} \subseteq Coercible
    \/ /\ a.kind = b.kind
       /\ a.kind = "struct" => a.name = b.name
       /\ a.kind = "array" => TypesCompatible(a.elem, b.elem)

IsNumeric(t) == t.kind \in Coercible \cup {"byte"}

\* A scope that does not fit is not opened, but closed nevertheless.
PushScope(c) ==
    IF Len(c.scopes) >= TcMaxScopes THEN TcError(c)
    ELSE [c EXCEPT !.scopes = Append(@, Len(c.symbols))]
PopScope(c) ==
    IF c.scopes = <<>> THEN c
    ELSE [c EXCEPT !.symbols = SubSeq(@, 1, Last(c.scopes)), !.scopes = Front(@)]

DefineSymbol(c, name, type, is_mut) ==
    IF Len(c.symbols) >= TcMaxSyms THEN TcError(c)
    ELSE [c EXCEPT !.symbols = Append(@, [name |-> name, type |-> type, is_mut |-> is_mut])]

\* tc_find_symbol: the latest one, as an index, or 0.
FindSymbol(c, name) == SelectLastInSeq(c.symbols, LAMBDA s : s.name = name)

\* tc_find_type: the first one registered.
FindType(c, name) ==
    LET i == SelectInSeq(c.types, LAMBDA t : t.name = name)
    IN  IF name \in BuiltinName THEN BuiltinType(name)
        ELSE IF i = 0 THEN TC_UNKNOWN ELSE c.types[i]

RegisterType(c, type) ==
    IF Len(c.types) >= TcMaxTypes THEN TcError(c) ELSE [c EXCEPT !.types = Append(@, type)]

\* tc_resolve_type_annotation; "" is no annotation.
Annotation(c, name) == IF name = "" THEN TC_UNKNOWN ELSE FindType(c, name)
Annotations(c, fields) == [i \in DOMAIN fields |-> Annotation(c, fields[i].type_name)]

-----------------------------------------------------------------------------
(* infer_expr and check_stmt: Infer is either, and a statement has the     *)
(* type nil.                                                               *)

Typed(c, t) == [c |-> c, t |-> t]
Typing(r, go(_, _)) == go(r.c, r.t)

RECURSIVE Infer(_, _)

\* The types of several expressions, from left to right.
InferAll(c, es) ==
    FoldLeft(LAMBDA acc, e : Typing(Infer(acc.c, e), LAMBDA d, t : Typed(d, Append(acc.t, t))),
             Typed(c, <<>>), es)

InferUnary(c, e) ==
    Typing(Infer(c, e.operand), LAMBDA d, t :
        CASE e.op = "-" -> Typed(TcErrorIf(d, ~IsNumeric(t)), t)
          [] e.op = "not" -> Typed(d, TC_BOOL)
          [] e.op = "~" -> Typed(TcErrorIf(d, t.kind \notin {"int", "byte"}), t))

BinaryType(op, l, r) ==
    IF op \in {"==", "!=", "<", "<=", ">", ">=", "and", "or"} THEN TC_BOOL
    ELSE IF Ty("double") \in {l, r} THEN Ty("double")
    ELSE IF Ty("float") \in {l, r} THEN Ty("float")
    ELSE l

InferBinary(c, e) ==
    Typing(InferAll(c, <<e.left, e.right>>), LAMBDA d, ts :
        Typed(TcErrorIf(d, e.op \notin {"and", "or"} /\ ~TypesCompatible(ts[1], ts[2])),
              BinaryType(e.op, ts[1], ts[2])))

\* Mutant: any variable may be assigned to.
AssignErrorNoMut(sym, t) == ~TypesCompatible(sym.type, t)

AssignError(sym, t) == ~sym.is_mut \/ ~TypesCompatible(sym.type, t)

\* A name that is not in scope may be assigned anything.
InferAssign(c, e) ==
    Typing(Infer(c, e.value), LAMBDA d, t :
        LET i == IF e.target.kind = "ident" THEN FindSymbol(d, e.target.name) ELSE 0
        IN  Typed(TcErrorIf(d, i # 0 /\ AssignError(d.symbols[i], t)), t))

\* Mutant: too many arguments are not noticed.
CountErrorFew(args, params) == Len(args) < Len(params)

CountError(args, params) == Len(args) # Len(params)

\* A call of what is not known to be a function is not checked.  Arguments
\* beyond the parameters are not even looked at.
InferCall(c, e) ==
    Typing(Infer(c, e.callee), LAMBDA d, f :
        IF f.kind # "fn" THEN Typing(InferAll(d, e.args), LAMBDA k, ts : Typed(k, TC_UNKNOWN))
        ELSE Typing(InferAll(TcErrorIf(d, CountError(e.args, f.params)),
                             SubSeq(e.args, 1, Min({Len(e.args), Len(f.params)}))), LAMBDA k, ts :
                 Typed(TcErrorIf(k, \E i \in DOMAIN ts : ~TypesCompatible(ts[i], f.params[i])), f.ret)))

InferMember(c, e) ==
    Typing(Infer(c, e.target), LAMBDA d, t :
        LET i == SelectInSeq(t.fields, LAMBDA f : f.name = e.field)
        IN  IF t.kind = "struct"
            THEN IF i = 0 THEN Typed(TcError(d), TC_UNKNOWN) ELSE Typed(d, t.fields[i].type)
            ELSE Typed(d, IF t.kind = "array" /\ e.field = "len" THEN TC_INT ELSE TC_UNKNOWN))

InferIndex(c, e) ==
    Typing(InferAll(c, <<e.target, e.index>>), LAMBDA d, ts :
        Typed(TcErrorIf(d, ts[2].kind # "int"),
              IF ts[1].kind = "array" THEN ts[1].elem
              ELSE IF ts[1].kind = "str" THEN Ty("byte") ELSE TC_UNKNOWN))

InferArray(c, e) ==
    IF e.elements = <<>> THEN Typed(c, TyArray(TC_UNKNOWN))
    ELSE Typing(InferAll(c, e.elements), LAMBDA d, ts :
             Typed(TcErrorIf(d, \E i \in DOMAIN ts : ~TypesCompatible(ts[1], ts[i])), TyArray(ts[1])))

Scoped(c, body(_)) == Typing(body(PushScope(c)), LAMBDA d, t : Typed(PopScope(d), t))

InferExpr(c, e) ==
    CASE e.kind = "int" -> Typed(c, TC_INT)
      [] e.kind = "str" -> Typed(c, TC_STR)
      [] e.kind = "bool" -> Typed(c, TC_BOOL)
      [] e.kind \in {"nil", "none"} -> Typed(c, TC_NIL)
      [] e.kind = "ident" ->
           Typed(c, IF FindSymbol(c, e.name) = 0 THEN TC_UNKNOWN ELSE c.symbols[FindSymbol(c, e.name)].type)
      [] e.kind = "unary" -> InferUnary(c, e)
      [] e.kind = "binary" -> InferBinary(c, e)
      [] e.kind = "assign" -> InferAssign(c, e)
      [] e.kind = "call" -> InferCall(c, e)
      [] e.kind = "member" -> InferMember(c, e)
      [] e.kind = "index" -> InferIndex(c, e)
      [] e.kind = "array" -> InferArray(c, e)
      [] e.kind = "block" ->
           Scoped(c, LAMBDA d : Infer(InferAll(d, e.stmts).c, e.result_expr))
      [] e.kind = "spawn" -> Typed(Infer(c, e.call_expr).c, TC_INT)
      [] e.kind = "yield" -> Typed(Infer(c, e.value).c, TC_NIL)
      [] e.kind = "comptime" -> Infer(c, e.expr)
      [] OTHER -> Typed(c, TC_UNKNOWN)

-----------------------------------------------------------------------------
Checked(c) == Typed(c, TC_NIL)

\* A variable without an annotation has the type of what it starts with.
CheckVar(c, s) ==
    Typing(IF s.init = NoExpr THEN Typed(c, TC_UNKNOWN) ELSE Infer(c, s.init), LAMBDA d, init :
        LET declared == Annotation(c, s.type_name)
        IN  Checked(DefineSymbol(TcErrorIf(d, ~TypesCompatible(declared, init)), s.name,
                                 IF declared # TC_UNKNOWN THEN declared ELSE init, s.is_mut)))

CheckIf(c, s) ==
    LET Branch(d, b) == IF b = NoStmt THEN d ELSE Scoped(d, LAMBDA k : Infer(k, b)).c
    IN  Checked(Branch(Branch(Infer(c, s.condition).c, s.then_branch), s.else_branch))

\* The body of a loop: in_loop is restored behind it.
CheckBody(c, body) ==
    LET inside == Scoped([c EXCEPT !.in_loop = TRUE], LAMBDA d : Infer(d, body)).c
    IN  Checked([inside EXCEPT !.in_loop = c.in_loop])

CheckReturn(c, s) ==
    Typing(Infer(c, s.value), LAMBDA d, t : Checked(TcErrorIf(d, ~TypesCompatible(t, c.ret))))

CheckStmt(c, s) ==
    CASE s.kind = "expr" -> Checked(Infer(c, s.expr).c)
      [] s.kind = "var" -> CheckVar(c, s)
      [] s.kind = "if" -> CheckIf(c, s)
      [] s.kind = "while" -> CheckBody(Infer(c, s.condition).c, s.body)
      [] s.kind = "loop" -> CheckBody(c, s.body)
      [] s.kind = "return" -> CheckReturn(c, s)
      [] s.kind \in {"break", "continue"} -> Checked(TcErrorIf(c, ~c.in_loop))
      [] s.kind = "print" -> Checked(InferAll(c, s.exprs).c)

CheckedStatement ==
    {"expr", "var", "if", "while", "loop", "return", "break", "continue", "print"}

Infer(c, n) ==
    Strictly(LAMBDA k : IF n.kind \in CheckedStatement THEN CheckStmt(k, n) ELSE InferExpr(k, n), c)

-----------------------------------------------------------------------------
(* check_decl. *)

\* A struct is registered behind what pass 1 registered for it, and as the
\* function that makes one.
CheckStruct(c, d) ==
    LET types == Annotations(c, d.fields)
        t == TyStruct(d.name, [i \in DOMAIN types |-> [name |-> d.fields[i].name, type |-> types[i]]])
    IN  DefineSymbol(RegisterType(c, t), d.name, TyFn(types, t), FALSE)

\* A function is in scope in its own body; in_loop stays as it is.
CheckFunction(c, d) ==
    LET types == Annotations(c, d.params)
        ret == IF d.return_type = "" THEN TC_NIL ELSE Annotation(c, d.return_type)
        Params(k) == FoldLeftDomain(LAMBDA acc, i : DefineSymbol(acc, d.params[i].name, types[i], FALSE),
                                    k, d.params)
        Body(k) == Scoped([k EXCEPT !.ret = ret], LAMBDA m : Infer(Params(m), d.body)).c
    IN  [Body(DefineSymbol(c, d.name, TyFn(types, ret), FALSE)) EXCEPT !.ret = c.ret]

CheckDecl(c, d) ==
    CASE d.kind = "stmt" -> Infer(c, d.stmt).c
      [] d.kind = "struct" -> CheckStruct(c, d)
      [] d.kind = "fn" -> CheckFunction(c, d)
      [] OTHER -> c

\* Pass 1: structs without fields, and functions without parameters.
PreRegister(c, d) ==
    CASE d.kind = "struct" -> RegisterType(c, TyStruct(d.name, <<>>))
      [] d.kind = "fn" -> DefineSymbol(c, d.name, TyFn(<<>>, TC_NIL), FALSE)
      [] OTHER -> c

\* tc_check_program.
CheckProgram(decls) ==
    ~FoldLeft(CheckDecl, FoldLeft(PreRegister, TcInit, decls), decls).had_error
=============================================================================
