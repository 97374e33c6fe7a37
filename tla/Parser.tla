------------------------------- MODULE Parser -------------------------------
(***************************************************************************)
(* parser.c: the Pratt parser.  A parser is the record of parser.h: the    *)
(* previous and the current token, the tokens the lexer still has to give, *)
(* had_error and panic_mode.  Each parse_ operator takes a parser and      *)
(* returns it with the node it built, NoExpr for NULL.  What the parser    *)
(* allocates is never missing here, and its growing arrays are sequences.  *)
(*                                                                         *)
(* parser_parse_program is the state machine: one declaration per action,  *)
(* and one action per turn of the loops over the fields of a shape, a      *)
(* struct or a register block, the only loops of the parser in which a     *)
(* turn may consume nothing.                                               *)
(***************************************************************************)
EXTENDS Syntax

VARIABLES
    source,     \* the tokens of the file
    parser,     \* the parser's record
    open,       \* the shape, struct or register block being read, or NoDecl
    decls       \* the declarations of the program so far

parserVars == <<source, parser, open, decls>>

NoDecl == NoExpr

-----------------------------------------------------------------------------
(* Tokens and errors. *)

\* error_at; in panic mode, which nothing ends, it does nothing.
ErrorAt(p) == IF p.panic_mode THEN p ELSE [p EXCEPT !.panic_mode = TRUE, !.had_error = TRUE]

IsError(tok) == tok.type = "ERROR"

\* advance_parser: error tokens of the lexer are reported and skipped; behind
\* the last token lexer_next gives EOF for ever.
AdvanceParser(p) ==
    LET good == SelectInSeq(p.rest, LAMBDA tok : ~IsError(tok))
        skipsErrors == IF good = 0 THEN p.rest # <<>> ELSE good > 1
        q == IF skipsErrors THEN ErrorAt(p) ELSE p
    IN  [q EXCEPT !.previous = p.current,
                  !.current = IF good = 0 THEN EOF ELSE p.rest[good],
                  !.rest = IF good = 0 THEN <<>> ELSE SubSeq(p.rest, good + 1, Len(p.rest))]

ParserInit(tokens) ==
    AdvanceParser([previous |-> EOF, current |-> EOF, rest |-> tokens,
                   had_error |-> FALSE, panic_mode |-> FALSE])

Check(p, type) == p.current.type = type
Match(p, type) == IF Check(p, type) THEN AdvanceParser(p) ELSE p

\* Mutant: the wrong token is skipped.
ConsumeSkips(p, type) == AdvanceParser(p)

\* consume: the wrong token is reported, and stays.
Consume(p, type) == IF Check(p, type) THEN AdvanceParser(p) ELSE ErrorAt(p)
Consume2(p, t1, t2) == Consume(Consume(p, t1), t2)

IsIdentToken(type) == type \in NameKeyword \cup {"IDENT", "capability"}

\* The places that take any name and the one that takes identifiers only.
ConsumeName(p) == IF IsIdentToken(p.current.type) THEN AdvanceParser(p) ELSE Consume(p, "IDENT")

-----------------------------------------------------------------------------
(* A result is a parser and what was read: a node, a name, a list.  Build  *)
(* makes another node of it, Bind goes on behind it, Closed is a result     *)
(* with the token behind it.                                               *)

Parsed(p, e) == [p |-> p, e |-> e]
Build(r, node(_)) == Parsed(r.p, node(r.e))
Bind(r, go(_, _)) == go(r.p, r.e)
Closed(r, close) == Parsed(Consume(r.p, close), r.e)

\* The token before p, as the name or the number a declaration keeps of it.
\* Something else than a number reads as garbage, which nobody looks at: the
\* program is in error.
NameBehind(p) == Parsed(p, Text(p.previous))
IntValue(tok) == IF "int_val" \in DOMAIN tok THEN tok.int_val ELSE 0
IntBehind(p) == Parsed(p, IntValue(p.previous))

ReadName(p) == NameBehind(ConsumeName(p))
ReadIdent(p) == NameBehind(Consume(p, "IDENT"))
ReadInt(p) == IntBehind(Consume(p, "INT_LIT"))

\* `sep` and a type: whatever token follows is the type.
ReadType(p, sep) ==
    IF Check(p, sep) THEN NameBehind(AdvanceParser(AdvanceParser(p))) ELSE Parsed(p, "")

-----------------------------------------------------------------------------
(* Expressions. *)

PrefixName == {"IDENT", "self"} \cup TypeName
BlockStatement == {"let", "mut", "fix", "if", "while", "loop", "return", "break",
                   "continue", "print", "asm"}

\* Expressions and statements contain each other: Parse reads a statement,
\* or an expression of the given precedence.
RECURSIVE Parse(_, _), InfixLoop(_, _), ExprList(_, _), BlockItems(_, _), ParseIfStmt(_)

STATEMENT == 0
ParseExpr(p, precedence) == Parse(p, precedence)
ParseStmt(p) == Parse(p, STATEMENT)

\* Mutant: a binary operator's right side takes operators of its own level.
RightOperandSameLevel(op) == InfixPrecedence(op)

\* A binary operator's right side binds tighter than the operator.
RightOperandLevel(op) == InfixPrecedence(op) + 1

GoesOn(p, precedence) == precedence <= InfixPrecedence(p.current.type)

\* One or more expressions with commas between them, behind those in `es`.
ExprList(p, es) ==
    Bind(ParseExpr(p, ASSIGNMENT), LAMBDA q, e :
        IF Check(q, ",") THEN ExprList(AdvanceParser(q), Append(es, e)) ELSE Parsed(q, Append(es, e)))

ExprsUntil(p, close) == IF Check(p, close) THEN Parsed(p, <<>>) ELSE ExprList(p, <<>>)

\* parse_block_expr, from behind its `{` and the statements read so far.
BlockItems(p, stmts) ==
    IF Check(p, "}") \/ Check(p, "EOF") THEN Parsed(p, Block(stmts, NoExpr))
    ELSE IF p.current.type \in BlockStatement
    THEN Bind(ParseStmt(p), LAMBDA q, s : BlockItems(q, Append(stmts, s)))
    ELSE Bind(ParseExpr(p, ASSIGNMENT), LAMBDA q, e :
             IF e = NoExpr THEN Parsed(q, Block(stmts, NoExpr))
             ELSE IF Check(q, "}") THEN Parsed(q, Block(stmts, e))
             ELSE BlockItems(Consume(q, ";"), Append(stmts, ExprStmt(e))))

ParseBlock(p) == Closed(BlockItems(p, <<>>), "}")

\* `asm`, for the expression and for the statement.
ParseAsm(p, node(_, _)) ==
    Closed(Build(NameBehind(Consume2(Match(p, "volatile"), "(", "STR_LIT")),
                LAMBDA chars : node(chars, Check(p, "volatile"))), ")")

\* parse_prefix: the token is the previous one.
ParsePrefix(p) ==
    LET tok == p.previous
    IN  CASE tok.type = "INT_LIT" -> Parsed(p, IntLit(tok.int_val))
          [] tok.type = "STR_LIT" -> Parsed(p, StrLit(tok.text))
          [] tok.type \in {"true", "false"} -> Parsed(p, BoolLit(tok.type = "true"))
          [] tok.type = "nil" -> Parsed(p, NilLit)
          [] tok.type \in PrefixName -> Parsed(p, Ident(Text(tok)))
          [] tok.type \in UnaryOp -> Build(ParseExpr(p, UNARY), LAMBDA e : Unary(tok.type, e))
          [] tok.type = "(" -> Closed(ParseExpr(p, ASSIGNMENT), ")")
          [] tok.type = "{" -> ParseBlock(p)
          [] tok.type = "[" -> Closed(Build(ExprsUntil(p, "]"), Array), "]")
          [] tok.type = "spawn" -> Build(ParseExpr(p, UNARY), SpawnExpr)
          [] tok.type = "yield" ->
               IF Check(p, ";") \/ Check(p, "}") THEN Parsed(p, YieldExpr(NoExpr))
               ELSE Build(ParseExpr(p, ASSIGNMENT), YieldExpr)
          [] tok.type = "comptime" ->
               Build(IF Check(p, "{") THEN ParseBlock(AdvanceParser(p)) ELSE ParseExpr(p, UNARY), Comptime)
          [] tok.type = "asm" -> ParseAsm(p, InlineAsm)
          [] tok.type \in {"cap", "capability"} ->
               IF p.current.type \in {"STR_LIT", "IDENT"}
               THEN Parsed(AdvanceParser(p), CapReq(Text(p.current)))
               ELSE Parsed(p, Ident(Text(tok)))
          [] OTHER -> Parsed(ErrorAt(p), NoExpr)

\* parse_infix: the operator is the previous token.
ParseInfix(p, left) ==
    LET op == p.previous.type
    IN  CASE op \in AssignOp -> Build(ParseExpr(p, ASSIGNMENT), LAMBDA e : Assign(op, left, e))
          [] op = "(" -> Closed(Build(ExprsUntil(p, ")"), LAMBDA es : Call(left, es)), ")")
          [] op = "." -> Build(ReadIdent(p), LAMBDA name : Member(left, name))
          [] op = "[" ->
               Bind(ParseExpr(p, ASSIGNMENT), LAMBDA q, e :
                   Closed(IF Check(q, "..")
                         THEN Build(ParseExpr(AdvanceParser(q), ASSIGNMENT), LAMBDA lo : BitRange(left, e, lo))
                         ELSE Parsed(q, Index(left, e)), "]"))
          [] OTHER -> Build(ParseExpr(p, RightOperandLevel(op)), LAMBDA e : Binary(op, left, e))

\* parser_parse_expr.  Its test for a stray `=` at the end never succeeds:
\* the loop above it takes every `=` when can_assign holds.
InfixLoop(r, precedence) ==
    IF r.e = NoExpr \/ ~GoesOn(r.p, precedence) THEN r
    ELSE InfixLoop(ParseInfix(AdvanceParser(r.p), r.e), precedence)

ExprAt(p, precedence) == InfixLoop(ParsePrefix(AdvanceParser(p)), precedence)

-----------------------------------------------------------------------------
(* Statements. *)

\* parse_var_decl, behind `let`, `mut` or `fix`.
ParseVarDecl(p, keyword) ==
    Bind(ReadName(Match(p, "mut")), LAMBDA named, x :
    Bind(ReadType(named, ":"), LAMBDA typed, type :
        Closed(Build(IF Check(typed, "=") THEN ParseExpr(AdvanceParser(typed), ASSIGNMENT)
                    ELSE Parsed(typed, NoExpr),
                    LAMBDA init : VarStmt(x, type, init, keyword = "mut" \/ Check(p, "mut"), keyword = "fix")),
              ";")))

\* A brace and the block behind it, as the statement an if or a loop keeps.
ParseBody(p) == Build(ParseBlock(Consume(p, "{")), ExprStmt)

ParseElse(p) == IF Check(p, "if") THEN ParseIfStmt(AdvanceParser(p)) ELSE ParseBody(p)

ParseIfStmt(p) ==
    Bind(ParseExpr(p, ASSIGNMENT), LAMBDA behindCond, cond :
    Bind(ParseBody(behindCond), LAMBDA q, then :
        Build(IF Check(q, "else") THEN ParseElse(AdvanceParser(q)) ELSE Parsed(q, NoStmt),
              LAMBDA else : IfStmt(cond, then, else))))

\* parser_parse_stmt.
StmtAt(p) ==
    LET keyword == p.current.type
        q == AdvanceParser(p)
    IN  CASE keyword \in {"let", "mut", "fix"} -> ParseVarDecl(q, keyword)
          [] keyword = "if" -> ParseIfStmt(q)
          [] keyword = "while" ->
               Bind(ParseExpr(q, ASSIGNMENT), LAMBDA behindCond, cond :
                   Build(ParseBody(behindCond), LAMBDA body : WhileStmt(cond, body)))
          [] keyword = "loop" -> Build(ParseBody(q), LoopStmt)
          [] keyword = "print" -> Closed(Build(ExprsUntil(q, ";"), PrintStmt), ";")
          [] keyword = "return" ->
               Closed(Build(IF Check(q, ";") THEN Parsed(q, NoExpr) ELSE ParseExpr(q, ASSIGNMENT),
                           ReturnStmt), ";")
          [] keyword = "break" -> Closed(Parsed(q, BreakStmt), ";")
          [] keyword = "continue" -> Closed(Parsed(q, ContinueStmt), ";")
          [] keyword = "asm" -> Closed(ParseAsm(q, AsmStmt), ";")
          [] OTHER -> Closed(Build(ParseExpr(p, ASSIGNMENT), ExprStmt), ";")

Parse(p, goal) == IF goal = STATEMENT THEN StmtAt(p) ELSE ExprAt(p, goal)

-----------------------------------------------------------------------------
(* Declarations. *)

RECURSIVE ParamList(_, _)
ParamList(p, params) ==
    Bind(ReadName(p), LAMBDA named, x :
    Bind(ReadType(named, ":"), LAMBDA q, type :
        IF Check(q, ",") THEN ParamList(AdvanceParser(q), Append(params, Param(x, type)))
        ELSE Parsed(q, Append(params, Param(x, type)))))

\* parse_fn_decl, behind `fn`.
ParseFnDecl(p, pub) ==
    LET Params(q) == Closed(IF Check(q, ")") THEN Parsed(q, <<>>) ELSE ParamList(q, <<>>), ")")
    IN  Bind(ReadIdent(p), LAMBDA named, x :
        Bind(Params(Consume(named, "(")), LAMBDA listed, params :
        Bind(ReadType(listed, "->"), LAMBDA typed, type :
            Build(ParseBlock(Consume(typed, "{")), LAMBDA body : FnDecl(x, params, type, body, pub)))))

\* parse_isr_decl, behind `isr`.
ParseIsrDecl(p) ==
    Bind(ReadInt(Consume(p, "(")), LAMBDA q, vector :
    Bind(ReadIdent(Consume2(q, ")", "fn")), LAMBDA named, x :
        Build(ParseBlock(Consume(Consume2(named, "(", ")"), "{")),
              LAMBDA body : IsrDecl(x, vector, body))))

\* The heads of parse_shape_decl and parse_struct_decl, up to the brace.
NamedHead(p) == Closed(ReadIdent(p), "{")

\* The head of parse_reg_block: a colon may be followed by no capability.
RegHead(p) ==
    LET Cap(q) == IF Check(q, ":") /\ AdvanceParser(q).current.type \in {"cap", "capability"}
                  THEN ReadIdent(AdvanceParser(AdvanceParser(q)))
                  ELSE Parsed(Match(q, ":"), "")
    IN  Bind(ReadIdent(p), LAMBDA named, x :
        Bind(ReadInt(Consume(named, "@")), LAMBDA q, base :
            Closed(Build(Cap(q), LAMBDA cap : RegBlock(x, base, cap, <<>>)), "{")))

\* One turn of the loop over the fields of a shape or a struct.
FieldKeyword == {"IDENT", "cap", "mut", "volatile", "reg", "self"}
ParseField(p) ==
    Bind(NameBehind(IF p.current.type \in FieldKeyword THEN AdvanceParser(p) ELSE Consume(p, "IDENT")),
         LAMBDA named, x : Build(ReadType(named, ":"), LAMBDA type : Param(x, type)))

\* One turn of the loop over the registers of a block.
ParseRegister(p) ==
    Bind(ReadIdent(Match(p, "volatile")), LAMBDA named, x :
    Bind(ReadType(named, ":"), LAMBDA q, type :
        Build(IF Check(q, "@") THEN ReadInt(AdvanceParser(q)) ELSE Parsed(q, 0),
              LAMBDA offset : RegMember(x, IF type = "" THEN "u32" ELSE type, offset,
                                        Check(p, "volatile")))))

\* Between two fields: a comma, or a semicolon, or the closing brace.
FieldSeparator(p) ==
    IF Check(p, ",") THEN AdvanceParser(p)
    ELSE IF Check(p, "}") THEN p
    ELSE Consume(p, ";")

-----------------------------------------------------------------------------
(* parser_parse_program.  `pub` is read before every declaration and kept  *)
(* by functions alone.                                                     *)

ParserStart(tokens) ==
    /\ source = tokens
    /\ parser = ParserInit(tokens)
    /\ open = NoDecl
    /\ decls = <<>>

AtDecl == open = NoDecl /\ ~Check(parser, "EOF")

DeclKeyword == Match(parser, "pub").current.type

FieldsKeyword == {"shape", "struct", "packed", "reg"}

\* A function, an interrupt handler or a statement.
DeclBehind(start, pub) ==
    CASE start.current.type = "fn" -> ParseFnDecl(AdvanceParser(start), pub)
      [] start.current.type = "isr" -> ParseIsrDecl(AdvanceParser(start))
      [] OTHER -> Build(ParseStmt(start), StmtDecl)

ParseDecl ==
    /\ AtDecl /\ DeclKeyword \notin FieldsKeyword
    /\ Bind(DeclBehind(Match(parser, "pub"), Check(parser, "pub")), LAMBDA p, d :
           parser' = p /\ decls' = Append(decls, d))
    /\ UNCHANGED <<source, open>>

\* The head of a shape, a struct or a register block.
FieldsHead(keyword, behind) ==
    CASE keyword = "reg" -> RegHead(behind)
      [] keyword = "shape" -> Build(NamedHead(behind), LAMBDA x : ShapeDecl(x, <<>>))
      [] keyword = "struct" -> Build(NamedHead(behind), LAMBDA x : StructDecl(x, <<>>, FALSE))
      [] keyword = "packed" ->
           Build(NamedHead(Consume(behind, "struct")), LAMBDA x : StructDecl(x, <<>>, TRUE))

OpenFields ==
    /\ AtDecl /\ DeclKeyword \in FieldsKeyword
    /\ Bind(FieldsHead(DeclKeyword, AdvanceParser(Match(parser, "pub"))), LAMBDA p, d :
           parser' = p /\ open' = d)
    /\ UNCHANGED <<source, decls>>

FieldsEnd == Check(parser, "}") \/ Check(parser, "EOF")

AddField ==
    /\ open # NoDecl /\ ~FieldsEnd
    /\ Bind(IF open.kind = "reg" THEN ParseRegister(parser) ELSE ParseField(parser), LAMBDA p, f :
           /\ parser' = FieldSeparator(p)
           /\ open' = [open EXCEPT !.fields = Append(@, f)])
    /\ UNCHANGED <<source, decls>>

CloseFields ==
    /\ open # NoDecl /\ FieldsEnd
    /\ parser' = Consume(parser, "}")
    /\ decls' = Append(decls, open)
    /\ open' = NoDecl
    /\ UNCHANGED source

ParserNext == ParseDecl \/ OpenFields \/ AddField \/ CloseFields

ParserDone == open = NoDecl /\ Check(parser, "EOF")
Accepted == ParserDone /\ ~parser.had_error
=============================================================================
