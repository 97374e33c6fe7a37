------------------------------- MODULE Syntax -------------------------------
(***************************************************************************)
(* token.h and ast.h: tokens, and the syntax tree the parser builds, the   *)
(* checker and the compiler walk.  A node is a record whose "kind" says    *)
(* which other fields it has; NoExpr is the C null pointer.  Positions     *)
(* (line, col) and lengths are left out.                                   *)
(*                                                                         *)
(* The second half writes a tree down as tokens, with parentheses exactly  *)
(* where the precedences of parser.h ask for them, and tokens as           *)
(* characters: the reference lexer and parser are checked against.         *)
(***************************************************************************)
EXTENDS Integers, Sequences, SequencesExt

Tok(type) == [type |-> type]
IdentTok(name) == [type |-> "IDENT", text |-> name]
StrTok(chars) == [type |-> "STR_LIT", text |-> chars]
IntTok(val) == [type |-> "INT_LIT", int_val |-> val]
EOF == Tok("EOF")

\* op(v), with v evaluated first: TLC puts arguments off until they are
\* needed, and a long chain of them would be deeper than its stack.
Strictly(op(_), v) == CHOOSE r \in {op(x) : x \in {v}} : TRUE

\* The characters of a string.
Characters(s) == [i \in 1..Len(s) |-> SubSeq(s, i, i)]
CharsOf(s) == Range(Characters(s))

\* The keywords that may also be names (is_ident_token of parser.c).
TypeName == {"u8", "u16", "u32", "u64", "i8", "i16", "i32", "i64", "usize", "isize",
             "f32", "f64", "int", "float", "bool", "str", "byte"}
NameKeyword == TypeName \cup {"cap", "mut", "fix", "self", "reg", "volatile", "packed", "void"}

\* The second names of some keywords (identifier_type of lexer.c).
Alias == [as |-> "in", blo |-> "bool", byt |-> "byte", call |-> "print", chr |-> "str",
          dob |-> "float", flt |-> "float", make |-> "fn", none |-> "nil", num |-> "int",
          ret |-> "return", sys |-> "cap"]
AliasTok(name) == [type |-> Alias[name], text |-> name]

\* A name as it is kept in the tree: an identifier's text or a keyword.
NameTok(name) ==
    IF name \in NameKeyword THEN Tok(name)
    ELSE IF name \in DOMAIN Alias THEN AliasTok(name)
    ELSE IdentTok(name)

\* The characters of a token, which is what a declaration keeps of it.
Text(tok) ==
    CASE "text" \in DOMAIN tok -> tok.text
      [] "int_val" \in DOMAIN tok -> ToString(tok.int_val)
      [] OTHER -> tok.type

-----------------------------------------------------------------------------
(* Expressions. *)

NoExpr == [kind |-> "none"]
NilLit == [kind |-> "nil"]
IntLit(n) == [kind |-> "int", int_val |-> n]
StrLit(s) == [kind |-> "str", chars |-> s]
BoolLit(b) == [kind |-> "bool", bool_val |-> b]
Ident(x) == [kind |-> "ident", name |-> x]
Unary(op, e) == [kind |-> "unary", op |-> op, operand |-> e]
Binary(op, l, r) == [kind |-> "binary", op |-> op, left |-> l, right |-> r]
Assign(op, t, v) == [kind |-> "assign", op |-> op, target |-> t, value |-> v]
Call(f, args) == [kind |-> "call", callee |-> f, args |-> args]
Member(t, f) == [kind |-> "member", target |-> t, field |-> f]
Index(t, i) == [kind |-> "index", target |-> t, index |-> i]
BitRange(t, hi, lo) == [kind |-> "bit_range", target |-> t, high_bit |-> hi, low_bit |-> lo]
Array(es) == [kind |-> "array", elements |-> es]
Block(stmts, result) == [kind |-> "block", stmts |-> stmts, result_expr |-> result]
SpawnExpr(e) == [kind |-> "spawn", call_expr |-> e]
YieldExpr(v) == [kind |-> "yield", value |-> v]
CapReq(n) == [kind |-> "cap_req", cap_name |-> n]
Comptime(e) == [kind |-> "comptime", expr |-> e]
InlineAsm(s, vol) == [kind |-> "asm", instruction |-> s, is_volatile |-> vol]

(* Statements. *)

NoStmt == NoExpr
ExprStmt(e) == [kind |-> "expr", expr |-> e]
VarStmt(x, type, init, mut, fix) ==
    [kind |-> "var", name |-> x, type_name |-> type, init |-> init, is_mut |-> mut, is_fix |-> fix]
IfStmt(c, then, else) == [kind |-> "if", condition |-> c, then_branch |-> then, else_branch |-> else]
WhileStmt(c, body) == [kind |-> "while", condition |-> c, body |-> body]
LoopStmt(body) == [kind |-> "loop", body |-> body]
PrintStmt(es) == [kind |-> "print", exprs |-> es]
ReturnStmt(v) == [kind |-> "return", value |-> v]
BreakStmt == [kind |-> "break"]
ContinueStmt == [kind |-> "continue"]
AsmStmt(s, vol) == [kind |-> "asm", instruction |-> s, is_volatile |-> vol]

(* Declarations.  The type of a parameter, field or result is "" when it   *)
(* is not written.                                                         *)

Param(x, type) == [name |-> x, type_name |-> type]
RegMember(x, type, offset, vol) ==
    [name |-> x, type_name |-> type, offset |-> offset, is_volatile |-> vol]
FnDecl(x, params, ret, body, pub) ==
    [kind |-> "fn", name |-> x, params |-> params, return_type |-> ret, body |-> body, is_public |-> pub]
ShapeDecl(x, fields) == [kind |-> "shape", name |-> x, fields |-> fields]
StructDecl(x, fields, packed) == [kind |-> "struct", name |-> x, fields |-> fields, is_packed |-> packed]
RegBlock(x, base, cap, regs) ==
    [kind |-> "reg", name |-> x, base_address |-> base, cap_token |-> cap, fields |-> regs]
IsrDecl(x, vector, body) == [kind |-> "isr", name |-> x, vector_num |-> vector, body |-> body]
StmtDecl(s) == [kind |-> "stmt", stmt |-> s]

(* Every node of a tree.                                                   *)

ChildField == {"operand", "left", "right", "target", "value", "callee", "index", "high_bit",
               "low_bit", "result_expr", "call_expr", "expr", "condition", "then_branch",
               "else_branch", "body", "init", "stmt"}
ChildrenField == {"args", "elements", "stmts", "exprs"}

Children(n) ==
    {n[f] : f \in DOMAIN n \cap ChildField} \cup
    UNION {Range(n[f]) : f \in DOMAIN n \cap ChildrenField}

RECURSIVE Nodes(_)
Nodes(n) == {n} \cup UNION {Nodes(m) : m \in Children(n)}

NodesOf(decls) == UNION {Nodes(d) : d \in Range(decls)}

-----------------------------------------------------------------------------
(* The precedences of parser.h and the operators at each of them. *)

ASSIGNMENT == 1
UNARY == 12
CALL == 13
PRIMARY == 14

AssignOp == {"=", "+=", "-=", "*=", "/="}
UnaryOp == {"-", "not", "~"}

\* get_infix_precedence; 0 is PREC_NONE.
InfixPrecedence(type) ==
    CASE type \in AssignOp -> ASSIGNMENT
      [] type = "or" -> 2
      [] type = "and" -> 3
      [] type = "|" -> 4
      [] type = "^" -> 5
      [] type = "&" -> 6
      [] type \in {"==", "!="} -> 7
      [] type \in {"<", "<=", ">", ">="} -> 8
      [] type \in {"<<", ">>"} -> 9
      [] type \in {"+", "-"} -> 10
      [] type \in {"*", "/", "%"} -> 11
      [] type \in {"(", "[", "."} -> CALL
      [] OTHER -> 0

-----------------------------------------------------------------------------
(* Writing a tree down. *)

Level(e) ==
    CASE e.kind = "binary" -> InfixPrecedence(e.op)
      [] e.kind \in {"assign", "yield"} -> ASSIGNMENT
      [] e.kind \in {"unary", "spawn", "comptime"} -> UNARY
      [] e.kind \in {"call", "member", "index", "bit_range"} -> CALL
      [] OTHER -> PRIMARY

Parens(ts) == <<Tok("(")>> \o ts \o <<Tok(")")>>
When(b, ts) == IF b THEN ts ELSE <<>>
Separated(parts) ==
    FoldLeft(LAMBDA acc, part : acc \o When(acc # <<>>, <<Tok(",")>>) \o part, <<>>, parts)

RECURSIVE Write(_, _), WriteStmt(_)

\* e where an expression of precedence `level` or above is expected.
Write(e, level) ==
    LET List(es) == Separated([i \in DOMAIN es |-> Write(es[i], ASSIGNMENT)])
        bare ==
          CASE e.kind = "none" -> <<>>
            [] e.kind = "nil" -> <<Tok("nil")>>
            [] e.kind = "int" -> <<IntTok(e.int_val)>>
            [] e.kind = "str" -> <<StrTok(e.chars)>>
            [] e.kind = "bool" -> <<Tok(IF e.bool_val THEN "true" ELSE "false")>>
            [] e.kind = "ident" -> <<NameTok(e.name)>>
            [] e.kind = "unary" -> <<Tok(e.op)>> \o Write(e.operand, UNARY)
            [] e.kind = "binary" ->
                 Write(e.left, Level(e)) \o <<Tok(e.op)>> \o Write(e.right, Level(e) + 1)
            [] e.kind = "assign" ->
                 Write(e.target, ASSIGNMENT + 1) \o <<Tok(e.op)>> \o Write(e.value, ASSIGNMENT)
            [] e.kind = "call" -> Write(e.callee, CALL) \o Parens(List(e.args))
            [] e.kind = "member" -> Write(e.target, CALL) \o <<Tok("."), IdentTok(e.field)>>
            [] e.kind = "index" ->
                 Write(e.target, CALL) \o <<Tok("[")>> \o Write(e.index, ASSIGNMENT) \o <<Tok("]")>>
            [] e.kind = "bit_range" ->
                 Write(e.target, CALL) \o <<Tok("[")>> \o Write(e.high_bit, ASSIGNMENT) \o
                 <<Tok("..")>> \o Write(e.low_bit, ASSIGNMENT) \o <<Tok("]")>>
            [] e.kind = "array" -> <<Tok("[")>> \o List(e.elements) \o <<Tok("]")>>
            [] e.kind = "block" ->
                 <<Tok("{")>> \o FlattenSeq([i \in DOMAIN e.stmts |-> WriteStmt(e.stmts[i])]) \o
                 Write(e.result_expr, ASSIGNMENT) \o <<Tok("}")>>
            [] e.kind = "spawn" -> <<Tok("spawn")>> \o Write(e.call_expr, UNARY)
            [] e.kind = "yield" -> <<Tok("yield")>> \o Write(e.value, ASSIGNMENT)
            [] e.kind = "comptime" -> <<Tok("comptime")>> \o Write(e.expr, UNARY)
            [] e.kind = "cap_req" -> <<Tok("cap"), IF "." \in CharsOf(e.cap_name) THEN StrTok(e.cap_name)
                                                               ELSE IdentTok(e.cap_name)>>
            [] e.kind = "asm" ->
                 <<Tok("asm")>> \o When(e.is_volatile, <<Tok("volatile")>>) \o Parens(<<StrTok(e.instruction)>>)
    IN  IF Level(e) < level THEN Parens(bare) ELSE bare

WriteType(sep, type) == When(type # "", <<Tok(sep), NameTok(type)>>)

WriteStmt(s) ==
    LET Semi(ts) == ts \o <<Tok(";")>>
    IN  CASE s.kind = "expr" -> Semi(Write(s.expr, ASSIGNMENT))
          [] s.kind = "var" ->
               Semi(When(s.is_fix, <<Tok("fix")>>) \o When(~s.is_fix /\ ~s.is_mut, <<Tok("let")>>) \o
                    When(s.is_mut, <<Tok("mut")>>) \o <<NameTok(s.name)>> \o
                    WriteType(":", s.type_name) \o
                    When(s.init # NoExpr, <<Tok("=")>> \o Write(s.init, ASSIGNMENT)))
          [] s.kind = "if" ->
               <<Tok("if")>> \o Write(s.condition, ASSIGNMENT) \o Write(s.then_branch.expr, ASSIGNMENT) \o
               When(s.else_branch # NoStmt,
                    <<Tok("else")>> \o (IF s.else_branch.kind = "if" THEN WriteStmt(s.else_branch)
                                        ELSE Write(s.else_branch.expr, ASSIGNMENT)))
          [] s.kind = "while" ->
               <<Tok("while")>> \o Write(s.condition, ASSIGNMENT) \o Write(s.body.expr, ASSIGNMENT)
          [] s.kind = "loop" -> <<Tok("loop")>> \o Write(s.body.expr, ASSIGNMENT)
          [] s.kind = "print" ->
               Semi(<<Tok("print")>> \o Separated([i \in DOMAIN s.exprs |-> Write(s.exprs[i], ASSIGNMENT)]))
          [] s.kind = "return" -> Semi(<<Tok("return")>> \o Write(s.value, ASSIGNMENT))
          [] s.kind = "asm" ->
               Semi(<<Tok("asm")>> \o When(s.is_volatile, <<Tok("volatile")>>) \o Parens(<<StrTok(s.instruction)>>))
          [] OTHER -> Semi(<<Tok(s.kind)>>)

WriteField(f) == <<NameTok(f.name)>> \o WriteType(":", f.type_name)
WriteReg(r) ==
    When(r.is_volatile, <<Tok("volatile")>>) \o WriteField(r) \o <<Tok("@"), IntTok(r.offset)>>
Braced(parts) == <<Tok("{")>> \o Separated(parts) \o <<Tok("}")>>

WriteDecl(d) ==
    CASE d.kind = "stmt" -> WriteStmt(d.stmt)
      [] d.kind = "fn" ->
           When(d.is_public, <<Tok("pub")>>) \o <<Tok("fn"), IdentTok(d.name)>> \o
           Parens(Separated([i \in DOMAIN d.params |-> WriteField(d.params[i])])) \o
           WriteType("->", d.return_type) \o Write(d.body, PRIMARY)
      [] d.kind = "shape" ->
           <<Tok("shape"), IdentTok(d.name)>> \o Braced([i \in DOMAIN d.fields |-> WriteField(d.fields[i])])
      [] d.kind = "struct" ->
           When(d.is_packed, <<Tok("packed")>>) \o <<Tok("struct"), IdentTok(d.name)>> \o
           Braced([i \in DOMAIN d.fields |-> WriteField(d.fields[i])])
      [] d.kind = "reg" ->
           <<Tok("reg"), IdentTok(d.name), Tok("@"), IntTok(d.base_address)>> \o
           When(d.cap_token # "", <<Tok(":"), Tok("cap"), IdentTok(d.cap_token)>>) \o
           Braced([i \in DOMAIN d.fields |-> WriteReg(d.fields[i])])
      [] d.kind = "isr" ->
           <<Tok("isr")>> \o Parens(<<IntTok(d.vector_num)>>) \o <<Tok("fn"), IdentTok(d.name)>> \o
           Parens(<<>>) \o Write(d.body, PRIMARY)

WriteProgram(decls) == FlattenSeq([i \in DOMAIN decls |-> WriteDecl(decls[i])])

\* Tokens as characters, with all kinds of blanks and comments between them.
Spelling(tok) ==
    CASE tok.type = "STR_LIT" -> "\"" \o tok.text \o "\""
      [] tok.type = "ERROR" -> "$"
      [] OTHER -> Text(tok)

Between == <<" ", " /*\"**/", "\n", "#'\n", "\t//{\r\n">>
Spelled(tokens) ==
    FlattenSeq([i \in DOMAIN tokens |->
        Characters(Spelling(tokens[i])) \o Characters(Between[1 + (i % Len(Between))])])
=============================================================================
