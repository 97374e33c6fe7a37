------------------------------- MODULE Engine -------------------------------
(***************************************************************************)
(* rdx_engine.c: the interpreter of rdx v3.  There is no syntax tree: the  *)
(* engine runs a program by moving one cursor over an array of tokens.  A  *)
(* block that is not taken is skipped by counting braces, a loop moves the *)
(* cursor back, a call moves it to the function's body and back again.     *)
(*                                                                         *)
(* The recursive C functions are one machine with an explicit stack of     *)
(* frames, the top at its head: a frame is a C activation that waits, with *)
(* the locals it still needs.  `at` says what happens next: the loop of    *)
(* the block or main program on top goes on ("loop"), a statement starts   *)
(* ("stmt"), an operand is evaluated ("primary"), the top frame gets a     *)
(* value ("value") or the FlowControl of a statement or block ("flow"), an *)
(* if goes on to its elifs ("elifs"), a for to its next element ("iter").  *)
(*                                                                         *)
(* Data is abstracted: a LIT token is any expression without user calls, a *)
(* literal, a builtin or what the user typed; an OP token is any binary    *)
(* operator, `and` and `or` included, which all evaluate both operands     *)
(* from left to right; the values of both are left open.                   *)
(***************************************************************************)
EXTENDS Integers, Sequences, FiniteSets

CONSTANTS
    Sessions,       \* a sequence of programs: see Session
    MaxTokens,      \* MAX_TOKENS (16384)
    MaxFnDefs,      \* MAX_FN_DEFS (256)
    MaxParams,      \* parameters a function keeps (8)
    MaxArgs,        \* arguments a call evaluates (16)
    MaxVars,        \* variables of a scope (512)
    MaxCalls,       \* bound: a deeper recursion exhausts the C stack
    Names           \* identifiers

ASSUME LimitsAssumption ==
    /\ MaxTokens \in Nat \ {0} /\ MaxFnDefs \in Nat /\ MaxParams \in Nat
    /\ MaxArgs \in Nat \ {0} /\ MaxVars \in Nat /\ MaxCalls \in Nat

\* A token is its type; an identifier is its name.
TokenType == {"EOF", "LIT", "IDENT", "LET", "IF", "ELIF", "ELSE", "WHILE",
              "FOR", "IN", "FN", "RETURN", "BREAK", "CONTINUE", "PRINT",
              "ALERT", "TIMELINE", "OP", "ASSIGN", "LPAREN", "RPAREN",
              "LBRACE", "RBRACE", "COMMA", "NEWLINE"}

Tokens == (TokenType \ {"IDENT"}) \cup Names

ASSUME NamesAssumption == Names \cap TokenType = {}

\* A file is one line of tokens for rdx_engine_run; the lines typed at the
\* prompt of rdx_engine_repl follow each other in one engine.  wellFormed:
\* the lines are complete statements of the language.
Session == [repl : BOOLEAN, wellFormed : BOOLEAN, lines : Seq(Seq(Tokens \ {"EOF"}))]

ASSUME SessionsAssumption ==
    /\ Sessions \in Seq(Session)
    /\ \A i \in DOMAIN Sessions : Sessions[i].lines # <<>>

VARIABLES
    session,    \* the program, as an index of Sessions
    line,       \* how many of its lines were read
    tokens,     \* eng->tokens
    current,    \* eng->current, the cursor
    fns,        \* eng->fn_defs; `line` and `end` are history, its definition
    globals,    \* eng->global_scope
    scopes,     \* the function scopes, the running function's first
    stack,      \* the waiting C activations
    at,         \* what happens next: see above
    val,        \* the value being passed on
    flow,       \* the FlowControl being passed on
    hadError    \* eng->had_error

vars == <<session, line, tokens, current, fns, globals, scopes, stack, at,
          val, flow, hadError>>

programVars == <<session, line, tokens>>
scopeVars == <<globals, scopes>>

Lines == Sessions[session].lines
Repl == Sessions[session].repl
WellFormed == Sessions[session].wellFormed


\* nil is what val_is_truthy rejects; "fn" is a VAL_FN.
Value == {"nil", "true", "fn"}
Literal == {"nil", "true"}
Truthy(v) == v # "nil"

Flow == {"NORMAL", "RETURN", "BREAK", "CONTINUE"}

\* A scope is the function from its variables to their values.  The scopes
\* of blocks and loop bodies never get a variable of their own: scope_set
\* goes to the nearest function or global boundary.
EmptyScope == [x \in {} |-> "nil"]

-----------------------------------------------------------------------------
(* The cursor. *)

\* The part of the array that was ever written; the rest is zero, TOK_EOF.
Token(p) == IF p \in DOMAIN tokens THEN tokens[p] ELSE "EOF"

Type(p) == IF Token(p) \in Names THEN "IDENT" ELSE Token(p)

\* tokenize: a line that is too long is cut off, and the tokens behind the
\* new EOF are those of earlier lines.
Tokenize(l, old) ==
    LET n == IF Len(l) < MaxTokens THEN Len(l) ELSE MaxTokens - 1
    IN  [p \in 0..n \cup DOMAIN old |->
            IF p < n THEN l[p + 1] ELSE IF p = n THEN "EOF" ELSE old[p]]

\* The first token of one of the types, from p on.
Nearest(p, types) ==
    LET near[q \in Nat] == IF Type(q) \in types THEN q ELSE near[q + 1]
    IN  near[p]

\* skip_newlines; semicolons count as newlines.
SkipNewlines(p) ==
    LET skip[q \in Nat] == IF Token(q) = "NEWLINE" THEN skip[q + 1] ELSE q
    IN  skip[p]

Here == SkipNewlines(current)

\* Mutant of SkipBlock: inner blocks are not counted.
SkipToBrace(p) ==
    LET skip[q \in Nat] ==
            CASE Token(q) = "EOF" -> q
              [] Token(q) = "RBRACE" -> q + 1
              [] OTHER -> skip[q + 1]
    IN  skip[p]

\* How many blocks are open behind the token at q.
DepthBehind(q, depth) ==
    CASE Token(q) = "LBRACE" -> depth + 1
      [] Token(q) = "RBRACE" -> depth - 1
      [] OTHER -> depth

\* skip_block, from behind a block's opening brace or anywhere in it.
SkipBlock(p) ==
    LET skip[x \in Nat \X Nat] ==
            IF Token(x[1]) = "EOF" \/ x[2] = 0 THEN x[1]
            ELSE skip[<<x[1] + 1, DepthBehind(x[1], x[2])>>]
    IN  skip[<<p, 1>>]

\* As much of a list as there is room for.
Kept(s, n) == [i \in 1..(IF Len(s) < n THEN Len(s) ELSE n) |-> s[i]]

\* The parameter list from p on, and where it ends.
Parameters(p) ==
    LET list[x \in Nat \X Seq(Names)] ==
            LET i == SkipNewlines(x[1])
                c == SkipNewlines(i + 1)
                longer == Append(x[2], Token(i))
            IN  IF Type(i) # "IDENT" THEN [names |-> x[2], next |-> i]
                ELSE IF Type(c) # "COMMA" THEN [names |-> longer, next |-> c]
                ELSE list[<<c + 1, longer>>]
    IN  list[<<p, <<>>>>]

-----------------------------------------------------------------------------
(* Scopes. *)

InFunction == scopes # <<>>

\* scope_get: the function's own variables, then the global ones.
Defined(x) ==
    (InFunction /\ x \in DOMAIN Head(scopes)) \/ x \in DOMAIN globals

ScopeGet(x) ==
    IF InFunction /\ x \in DOMAIN Head(scopes) THEN Head(scopes)[x]
    ELSE globals[x]

\* A variable is updated, or added while the scope has room.
With(scope, x, v) ==
    IF x \in DOMAIN scope \/ Cardinality(DOMAIN scope) < MaxVars
    THEN [y \in DOMAIN scope \cup {x} |-> IF y = x THEN v ELSE scope[y]]
    ELSE scope

\* Mutant: the search for the variable does not stop at the function.
ScopeSetLeaking(x, v) ==
    IF InFunction /\ ~(x \in DOMAIN globals)
    THEN /\ scopes' = <<With(Head(scopes), x, v)>> \o Tail(scopes)
         /\ UNCHANGED globals
    ELSE /\ globals' = With(globals, x, v)
         /\ UNCHANGED scopes

\* scope_set.
ScopeSet(x, v) ==
    IF InFunction
    THEN /\ scopes' = <<With(Head(scopes), x, v)>> \o Tail(scopes)
         /\ UNCHANGED globals
    ELSE /\ globals' = With(globals, x, v)
         /\ UNCHANGED scopes

-----------------------------------------------------------------------------
(* Frames.                                                                 *)
(*   top, block   the main loop's statement, exec_block; rv: whether it    *)
(*                was given a return_val to fill; stmt, start: history     *)
(*   ops          the binary operators of eval_or to eval_factor           *)
(*   group, args  a parenthesis, the arguments of a call                   *)
(*   call         the body of a function; back is saved_pos                *)
(*   the others   the statement of that name waits for an expression or    *)
(*                for its block                                            *)

Top == Head(stack)
Rest == Tail(stack)

TopIs(k) == stack # <<>> /\ Top.k = k

\* The running exec_stmt, which is the statement of the frame on top, ends.
EndStatement(p, f) ==
    /\ current' = p
    /\ at' = "flow" /\ flow' = f /\ val' = "nil"
    /\ UNCHANGED <<programVars, fns, stack>>

Fail(p) == EndStatement(p, "NORMAL") /\ hadError' = TRUE /\ UNCHANGED scopeVars

Done(p, f) == EndStatement(p, f) /\ UNCHANGED <<hadError, scopeVars>>

\* The frame on top ends and passes flow f on, with v for a return.
EndFrame(p, f, v) ==
    /\ current' = p
    /\ stack' = Rest
    /\ at' = "flow" /\ flow' = f /\ val' = v
    /\ UNCHANGED <<programVars, fns>>

\* eval_expr is called at p for the frame fr.
Evaluate(p, fr, below) ==
    /\ current' = p
    /\ stack' = <<[k |-> "ops", used |-> FALSE], fr>> \o below
    /\ at' = "primary" /\ val' = "nil" /\ flow' = "NORMAL"
    /\ UNCHANGED <<programVars, fns>>

\* exec_block is called at p for the frame fr.
Execute(p, fr, below, rv) ==
    /\ current' = p
    /\ stack' = <<[k |-> "block", rv |-> rv, start |-> p, stmt |-> p], fr>> \o below
    /\ at' = "loop" /\ val' = "nil" /\ flow' = "NORMAL"
    /\ UNCHANGED <<programVars, fns>>

\* The frame on top becomes fr and goes on with `a`.
Continue(p, fr, a) ==
    /\ current' = p
    /\ stack' = <<fr>> \o Rest
    /\ at' = a
    /\ UNCHANGED <<programVars, fns, val, flow>>

-----------------------------------------------------------------------------
(* rdx_engine_run and rdx_engine_repl. *)

Init ==
    /\ session \in DOMAIN Sessions
    /\ line = 1
    /\ tokens = Tokenize(Lines[1], <<>>)
    /\ current = 0
    /\ fns = <<>>
    /\ globals = EmptyScope
    /\ scopes = <<>>
    /\ stack = <<>>
    /\ at = "loop" /\ val = "nil" /\ flow = "NORMAL"
    /\ hadError = FALSE

Main == at = "loop" /\ stack = <<>>

\* The next statement of the program.
MainStatement ==
    /\ Main
    /\ Type(Here) # "EOF"
    /\ current' = Here
    /\ stack' = <<[k |-> "top", rv |-> Repl, start |-> 0, stmt |-> Here]>>
    /\ at' = "stmt"
    /\ UNCHANGED <<programVars, fns, scopeVars, val, flow, hadError>>

\* Its FlowControl is ignored; a statement that did not move the cursor is
\* stepped over.
MainStatementDone ==
    /\ at = "flow" /\ TopIs("top")
    /\ current' = IF Here = Top.stmt /\ Type(Here) # "EOF" THEN Here + 1 ELSE Here
    /\ stack' = Rest
    /\ at' = "loop" /\ flow' = "NORMAL" /\ val' = "nil"
    /\ UNCHANGED <<programVars, fns, scopeVars, hadError>>

\* The next line at the prompt: only tokens, cursor and error are new.
NextLine ==
    /\ Main
    /\ Type(Here) = "EOF" /\ line < Len(Lines)
    /\ line' = line + 1
    /\ tokens' = Tokenize(Lines[line + 1], tokens)
    /\ current' = 0
    /\ hadError' = FALSE
    /\ UNCHANGED <<session, fns, scopeVars, stack, at, val, flow>>

Exit ==
    /\ Main
    /\ Type(Here) = "EOF" /\ line = Len(Lines)
    /\ current' = Here
    /\ at' = "end"
    /\ UNCHANGED <<programVars, fns, scopeVars, stack, val, flow, hadError>>

-----------------------------------------------------------------------------
(* exec_block. *)

InBlock == at = "loop" /\ TopIs("block")

BlockStatement ==
    /\ InBlock
    /\ Type(current) \notin {"RBRACE", "EOF"}
    /\ stack' = <<[Top EXCEPT !.stmt = Here]>> \o Rest
    /\ at' = "stmt"
    /\ UNCHANGED <<programVars, fns, scopeVars, current, val, flow, hadError>>

\* The end of the input ends every open block, without an error.
BlockEnd ==
    /\ InBlock
    /\ Type(current) \in {"RBRACE", "EOF"}
    /\ EndFrame(IF Type(current) = "RBRACE" THEN current + 1 ELSE current,
                "NORMAL", "nil")
    /\ UNCHANGED <<scopeVars, hadError>>

BlockGoesOn ==
    /\ at = "flow" /\ TopIs("block") /\ flow = "NORMAL"
    /\ Continue(Here, Top, "loop")
    /\ UNCHANGED <<scopeVars, hadError>>

BlockLeft ==
    /\ at = "flow" /\ TopIs("block") /\ flow # "NORMAL"
    /\ EndFrame(SkipBlock(current), flow, val)
    /\ UNCHANGED <<scopeVars, hadError>>

-----------------------------------------------------------------------------
(* exec_stmt: the statement at Here. *)

Statement(t) == at = "stmt" /\ Type(Here) = t

StatementAtEnd == Statement("EOF") /\ Done(Here, "NORMAL")

FnWithoutName ==
    /\ Statement("FN") /\ Type(Here + 1) # "IDENT"
    /\ Fail(Here + 1)

FnWithoutParameters ==
    /\ Statement("FN") /\ Type(Here + 1) = "IDENT" /\ Type(Here + 2) # "LPAREN"
    /\ Fail(Here + 2)

\* The body is skipped and its position recorded; the name also becomes a
\* global variable.  Beyond MAX_FN_DEFS the definition has no effect.
FnDefinition ==
    /\ Statement("FN") /\ Type(Here + 1) = "IDENT" /\ Type(Here + 2) = "LPAREN"
    /\ LET ps == Parameters(Here + 3)
           brace == SkipNewlines(ps.next + 1)
           start == brace + 1
           end == SkipBlock(start)
           name == Token(Here + 1)
       IN  IF Type(ps.next) # "RPAREN" THEN Fail(ps.next)
           ELSE IF Type(brace) # "LBRACE" THEN Fail(brace)
           ELSE /\ current' = end
                /\ at' = "flow" /\ flow' = "NORMAL" /\ val' = "nil"
                /\ IF Len(fns) < MaxFnDefs
                   THEN /\ fns' = Append(fns,
                              [name |-> name, params |-> Kept(ps.names, MaxParams),
                               start |-> start, line |-> line, end |-> end])
                        /\ globals' = With(globals, name, "fn")
                   ELSE UNCHANGED <<fns, globals>>
                /\ UNCHANGED <<programVars, scopes, stack, hadError>>

\* Without a return_val to fill the expression is not even read.
Return ==
    /\ Statement("RETURN")
    /\ IF Top.rv /\ Type(Here + 1) \notin {"NEWLINE", "RBRACE", "EOF"}
       THEN Evaluate(Here + 1, [k |-> "return"], stack) /\ UNCHANGED <<scopeVars, hadError>>
       ELSE Done(Here + 1, "RETURN")

Break == Statement("BREAK") /\ Done(Here + 1, "BREAK")

ContinueLoop == Statement("CONTINUE") /\ Done(Here + 1, "CONTINUE")

PrintList ==
    /\ Statement("PRINT")
    /\ LET paren == Type(Here + 1) = "LPAREN"
           p == SkipNewlines(IF paren THEN Here + 2 ELSE Here + 1)
       IN  IF paren /\ Type(p) = "RPAREN" THEN Done(p + 1, "NORMAL")
           ELSE /\ Evaluate(p, [k |-> "print", paren |-> paren], stack)
                /\ UNCHANGED <<scopeVars, hadError>>

\* alert takes one to three expressions, timeline one or two.
Card(t, more) ==
    /\ Statement(t)
    /\ LET paren == Type(Here + 1) = "LPAREN"
       IN  Evaluate(IF paren THEN Here + 2 ELSE Here + 1,
                    [k |-> "card", paren |-> paren, more |-> more], stack)
    /\ UNCHANGED <<scopeVars, hadError>>

Alert == Card("ALERT", 2)
Timeline == Card("TIMELINE", 1)

Let ==
    /\ Statement("LET")
    /\ IF Type(Here + 1) # "IDENT" THEN Fail(Here + 1)
       ELSE IF Type(Here + 2) # "ASSIGN" THEN Fail(Here + 2)
       ELSE /\ Evaluate(Here + 3, [k |-> "assign", name |-> Token(Here + 1)], stack)
            /\ UNCHANGED <<scopeVars, hadError>>

\* x = e, and the augmented assignments.
Assign ==
    /\ Statement("IDENT") /\ Type(Here + 1) = "ASSIGN"
    /\ Evaluate(Here + 2, [k |-> "assign", name |-> Token(Here)], stack)
    /\ UNCHANGED <<scopeVars, hadError>>

If ==
    /\ Statement("IF")
    /\ Evaluate(Here + 1, [k |-> "if", rv |-> Top.rv], stack)
    /\ UNCHANGED <<scopeVars, hadError>>

While ==
    /\ Statement("WHILE")
    /\ Evaluate(Here + 1, [k |-> "while", cond |-> Here + 1, body |-> 0], stack)
    /\ UNCHANGED <<scopeVars, hadError>>

For ==
    /\ Statement("FOR")
    /\ IF Type(Here + 1) # "IDENT" THEN Fail(Here + 1)
       ELSE IF Type(Here + 2) # "IN" THEN Fail(Here + 2)
       ELSE /\ Evaluate(Here + 3, [k |-> "for", body |-> 0,
                                   name |-> Token(Here + 1)], stack)
            /\ UNCHANGED <<scopeVars, hadError>>

\* Everything else is an expression.
ExpressionStatement ==
    /\ at = "stmt"
    /\ Type(Here) \notin {"EOF", "FN", "RETURN", "BREAK", "CONTINUE", "PRINT", "ALERT",
                          "TIMELINE", "LET", "IF", "WHILE", "FOR"}
    /\ ~(Type(Here) = "IDENT" /\ Type(Here + 1) = "ASSIGN")
    /\ Evaluate(Here, [k |-> "expression"], stack)
    /\ UNCHANGED <<scopeVars, hadError>>

-----------------------------------------------------------------------------
(* Expressions. *)

Operand == at = "primary"

\* The expression that was being evaluated has value v.
Yield(p, below, v) ==
    /\ current' = p
    /\ stack' = below
    /\ at' = "value" /\ val' = v /\ flow' = "NORMAL"
    /\ UNCHANGED <<programVars, fns>>

LiteralOperand ==
    /\ Operand /\ Type(Here) = "LIT"
    /\ \E v \in Literal : Yield(Here + 1, stack, v)
    /\ UNCHANGED <<scopeVars, hadError>>

Group ==
    /\ Operand /\ Type(Here) = "LPAREN"
    /\ Evaluate(Here + 1, [k |-> "group"], stack)
    /\ UNCHANGED <<scopeVars, hadError>>

Variable ==
    /\ Operand /\ Type(Here) = "IDENT" /\ Type(Here + 1) # "LPAREN"
    /\ LET x == Token(Here)
       IN  /\ Yield(Here + 1, stack, IF Defined(x) THEN ScopeGet(x) ELSE "nil")
           /\ hadError' = (hadError \/ ~Defined(x))
    /\ UNCHANGED scopeVars

\* Mutant of BadOperand: the token stays.
BadOperandStays ==
    /\ Operand /\ Type(Here) \notin {"LIT", "LPAREN", "IDENT"}
    /\ Yield(Here, stack, "nil")
    /\ hadError' = TRUE
    /\ UNCHANGED scopeVars

\* Mutant: even the end of the input is stepped over.
BadOperandPastEnd ==
    /\ Operand /\ Type(Here) \notin {"LIT", "LPAREN", "IDENT"}
    /\ Yield(Here + 1, stack, "nil")
    /\ hadError' = TRUE
    /\ UNCHANGED scopeVars

\* No operand: the token is reported and stepped over.
BadOperand ==
    /\ Operand /\ Type(Here) \notin {"LIT", "LPAREN", "IDENT"}
    /\ Yield(IF Type(Here) = "EOF" THEN Here ELSE Here + 1, stack, "nil")
    /\ hadError' = TRUE
    /\ UNCHANGED scopeVars

\* A further operand of an operator, or the end of eval_expr.
Operator ==
    /\ at = "value" /\ TopIs("ops")
    /\ IF Type(current) = "OP"
       THEN Continue(current + 1, [Top EXCEPT !.used = TRUE], "primary")
       ELSE \E v \in IF Top.used THEN Literal ELSE {val} : Yield(current, Rest, v)
    /\ UNCHANGED <<scopeVars, hadError>>

Closed(p) == IF Type(p) = "RPAREN" THEN p + 1 ELSE p

GroupEnd ==
    /\ at = "value" /\ TopIs("group")
    /\ Yield(Closed(current), Rest, val)
    /\ hadError' = (hadError \/ Type(current) # "RPAREN")
    /\ UNCHANGED scopeVars

\* eval_call_args: an argument beyond MaxArgs is not evaluated, only commas
\* are read from there on.
CallBegin ==
    /\ Operand /\ Type(Here) = "IDENT" /\ Type(Here + 1) = "LPAREN"
    /\ LET p == SkipNewlines(Here + 2)
           call == [k |-> "args", name |-> Token(Here), args |-> <<>>]
       IN  IF Type(p) = "RPAREN"
           THEN /\ current' = p
                /\ stack' = <<call>> \o stack
                /\ at' = "call"
                /\ UNCHANGED <<programVars, fns, val, flow>>
           ELSE Evaluate(p, call, stack)
    /\ UNCHANGED <<scopeVars, hadError>>

Argument ==
    /\ at = "value" /\ TopIs("args")
    /\ LET call == [Top EXCEPT !.args = Append(@, val)]
       IN  IF Type(Here) = "COMMA" /\ Len(call.args) < MaxArgs
           THEN Evaluate(SkipNewlines(Here + 1), call, Rest)
           ELSE Continue(Nearest(Here, TokenType \ {"COMMA", "NEWLINE"}), call, "call")
    /\ UNCHANGED <<scopeVars, hadError>>

\* The first definition of the name, if there is one.
Callee(name) ==
    CHOOSE i \in DOMAIN fns :
        fns[i].name = name /\ \A j \in DOMAIN fns : fns[j].name = name => i <= j

IsFunction(name) == \E i \in DOMAIN fns : fns[i].name = name

\* The parameters as scope_set_local sets them one after the other.
Frame(params, args) ==
    [x \in {params[i] : i \in DOMAIN params} |->
        LET i == CHOOSE i \in DOMAIN params :
                    params[i] = x /\ \A j \in DOMAIN params : params[j] = x => j <= i
        IN  IF i <= Len(args) THEN args[i] ELSE "nil"]

Calls == Len(scopes)

\* The body runs in a scope of its own, whose parent is the global one.
Call ==
    /\ at = "call" /\ TopIs("args") /\ IsFunction(Top.name) /\ Calls < MaxCalls
    /\ LET i == Callee(Top.name)
       IN  /\ Execute(fns[i].start, [k |-> "call", back |-> Closed(current), fn |-> i],
                      Rest, TRUE)
           /\ scopes' = <<Frame(fns[i].params, Top.args)>> \o scopes
    /\ hadError' = (hadError \/ Type(current) # "RPAREN")
    /\ UNCHANGED globals

StackOverflow ==
    /\ at = "call" /\ TopIs("args") /\ IsFunction(Top.name) /\ Calls >= MaxCalls
    /\ at' = "crash"
    /\ UNCHANGED <<programVars, current, fns, scopeVars, stack, val, flow, hadError>>

UnknownFunction ==
    /\ at = "call" /\ TopIs("args") /\ ~IsFunction(Top.name)
    /\ Yield(Closed(current), Rest, "nil")
    /\ hadError' = TRUE
    /\ UNCHANGED scopeVars

\* Mutant: the cursor stays behind the body.
CallEndStays ==
    /\ at = "flow" /\ TopIs("call")
    /\ Yield(current, Rest, IF flow = "RETURN" THEN val ELSE "nil")
    /\ scopes' = Tail(scopes)
    /\ UNCHANGED <<globals, hadError>>

\* Whatever flow ended the body, the caller goes on behind the call.
CallEnd ==
    /\ at = "flow" /\ TopIs("call")
    /\ Yield(Top.back, Rest, IF flow = "RETURN" THEN val ELSE "nil")
    /\ scopes' = Tail(scopes)
    /\ UNCHANGED <<globals, hadError>>

-----------------------------------------------------------------------------
(* exec_stmt, once its expression has a value. *)

ReturnValue ==
    /\ at = "value" /\ TopIs("return")
    /\ EndFrame(current, "RETURN", val)
    /\ UNCHANGED <<scopeVars, hadError>>

ExpressionDone ==
    /\ at = "value" /\ TopIs("expression")
    /\ EndFrame(current, "NORMAL", "nil")
    /\ UNCHANGED <<scopeVars, hadError>>

AssignValue ==
    /\ at = "value" /\ TopIs("assign")
    /\ ScopeSet(Top.name, val)
    /\ EndFrame(current, "NORMAL", "nil")
    /\ UNCHANGED hadError

PrintItem ==
    /\ at = "value" /\ TopIs("print")
    /\ LET p == SkipNewlines(Here + 1)
           closed == IF Top.paren THEN Closed(Here) ELSE Here
       IN  CASE Type(Here) # "COMMA" -> EndFrame(closed, "NORMAL", "nil")
             [] Type(Here) = "COMMA" /\ Top.paren /\ Type(p) = "RPAREN" ->
                   EndFrame(p + 1, "NORMAL", "nil")
             [] OTHER -> Evaluate(p, Top, Rest)
    /\ UNCHANGED <<scopeVars, hadError>>

\* Without parentheses what follows is always the next expression, on the
\* next line if need be.
CardItem ==
    /\ at = "value" /\ TopIs("card")
    /\ LET p == IF Top.more = 0 THEN current ELSE Here
       IN  IF Top.more > 0 /\ (Type(p) = "COMMA" \/ ~Top.paren)
           THEN Evaluate(IF Type(p) = "COMMA" THEN p + 1 ELSE p,
                         [Top EXCEPT !.more = @ - 1], Rest)
           ELSE EndFrame(IF Top.paren THEN Closed(p) ELSE p, "NORMAL", "nil")
    /\ UNCHANGED <<scopeVars, hadError>>

\* A condition or a list is followed by its block.
Brace == Type(Here) = "LBRACE"

NoBlock ==
    /\ at = "value" /\ stack # <<>> /\ ~Brace
    /\ \/ Top.k = "if"
       \/ Top.k \in {"while", "for"} /\ Top.body = 0
    /\ EndFrame(Here, "NORMAL", "nil")
    /\ hadError' = TRUE
    /\ UNCHANGED scopeVars

IfCondition ==
    /\ at = "value" /\ TopIs("if") /\ Brace
    /\ LET chain == [k |-> "elifs", rv |-> Top.rv, taken |-> Truthy(val),
                     flow |-> "NORMAL", val |-> "nil"]
       IN  IF Truthy(val) THEN Execute(Here + 1, chain, Rest, Top.rv)
           ELSE Continue(SkipBlock(Here + 1), chain, "elifs")
    /\ UNCHANGED <<scopeVars, hadError>>

\* A branch is over, with its flow; the elifs behind it are read all the same.
BranchDone ==
    /\ at = "flow" /\ TopIs("elifs")
    /\ Continue(current, [Top EXCEPT !.flow = flow, !.val = val], "elifs")
    /\ UNCHANGED <<scopeVars, hadError>>

ElifChain == at = "elifs"

Elif ==
    /\ ElifChain /\ Type(Here) = "ELIF"
    /\ Evaluate(Here + 1, [Top EXCEPT !.k = "elif"], Rest)
    /\ UNCHANGED <<scopeVars, hadError>>

\* Mutant of ElifCondition: a second branch may be taken.
ElifConditionAgain ==
    /\ at = "value" /\ TopIs("elif")
    /\ LET chain == [Top EXCEPT !.k = "elifs"]
       IN  IF ~Brace THEN EndFrame(Here, Top.flow, Top.val)
           ELSE IF Truthy(val)
           THEN Execute(Here + 1, [chain EXCEPT !.taken = TRUE], Rest, Top.rv)
           ELSE Continue(SkipBlock(Here + 1), chain, "elifs")
    /\ hadError' = (hadError \/ ~Brace)
    /\ UNCHANGED scopeVars

ElifCondition ==
    /\ at = "value" /\ TopIs("elif")
    /\ LET chain == [Top EXCEPT !.k = "elifs"]
       IN  IF ~Brace THEN EndFrame(Here, Top.flow, Top.val)
           ELSE IF ~Top.taken /\ Truthy(val)
           THEN Execute(Here + 1, [chain EXCEPT !.taken = TRUE], Rest, Top.rv)
           ELSE Continue(SkipBlock(Here + 1), chain, "elifs")
    /\ hadError' = (hadError \/ ~Brace)
    /\ UNCHANGED scopeVars

Else ==
    /\ ElifChain /\ Type(Here) = "ELSE"
    /\ LET p == SkipNewlines(Here + 1)
       IN  CASE Type(p) # "LBRACE" -> EndFrame(p, Top.flow, Top.val)
             [] Type(p) = "LBRACE" /\ Top.taken ->
                   EndFrame(SkipBlock(p + 1), Top.flow, Top.val)
             [] OTHER -> Execute(p + 1, [k |-> "else"], Rest, Top.rv)
    /\ UNCHANGED <<scopeVars, hadError>>

ElseDone ==
    /\ at = "flow" /\ TopIs("else")
    /\ EndFrame(current, flow, val)
    /\ UNCHANGED <<scopeVars, hadError>>

ElifsEnd ==
    /\ ElifChain /\ Type(Here) \notin {"ELIF", "ELSE"}
    /\ EndFrame(Here, Top.flow, Top.val)
    /\ UNCHANGED <<scopeVars, hadError>>

\* The body of the while on top, once its brace has been found.
Body == IF Top.body = 0 THEN Here + 1 ELSE Top.body

WhileCondition ==
    /\ at = "value" /\ TopIs("while") /\ (Top.body # 0 \/ Brace)
    /\ IF Truthy(val) THEN Execute(Body, [Top EXCEPT !.body = Body], Rest, TRUE)
       ELSE EndFrame(SkipBlock(Body), "NORMAL", "nil")
    /\ UNCHANGED <<scopeVars, hadError>>

WhileAgain ==
    /\ at = "flow" /\ TopIs("while") /\ flow \in {"NORMAL", "CONTINUE"}
    /\ Evaluate(Top.cond, Top, Rest)
    /\ UNCHANGED <<scopeVars, hadError>>

LoopKinds == {"while", "for"}

\* A break or return ends the loop behind its body.
LoopLeft ==
    /\ at = "flow" /\ stack # <<>> /\ Top.k \in LoopKinds
    /\ flow \in {"BREAK", "RETURN"}
    /\ EndFrame(SkipBlock(Top.body), IF flow = "BREAK" THEN "NORMAL" ELSE "RETURN", val)
    /\ UNCHANGED <<scopeVars, hadError>>

ForList ==
    /\ at = "value" /\ TopIs("for") /\ Brace
    /\ Continue(Here + 1, [Top EXCEPT !.body = Here + 1], "iter")
    /\ UNCHANGED <<scopeVars, hadError>>

\* The list is looked at before each turn: the body may have changed it.
ForElement ==
    /\ at = "iter"
    /\ \E v \in Literal : ScopeSet(Top.name, v)
    /\ Execute(Top.body, Top, Rest, TRUE)
    /\ UNCHANGED hadError

ForEnd ==
    /\ at = "iter"
    /\ EndFrame(SkipBlock(Top.body), "NORMAL", "nil")
    /\ UNCHANGED <<scopeVars, hadError>>

ForAgain ==
    /\ at = "flow" /\ TopIs("for") /\ flow \in {"NORMAL", "CONTINUE"}
    /\ Continue(current, Top, "iter")
    /\ UNCHANGED <<scopeVars, hadError>>

-----------------------------------------------------------------------------
Program == MainStatement \/ MainStatementDone \/ NextLine \/ Exit

Block == BlockStatement \/ BlockEnd \/ BlockGoesOn \/ BlockLeft

StatementStart ==
    \/ StatementAtEnd \/ FnWithoutName \/ FnWithoutParameters \/ FnDefinition
    \/ Return \/ Break \/ ContinueLoop \/ PrintList \/ Alert \/ Timeline
    \/ Let \/ Assign \/ If \/ While \/ For \/ ExpressionStatement

Expression ==
    \/ LiteralOperand \/ Group \/ Variable \/ BadOperand \/ Operator \/ GroupEnd
    \/ CallBegin \/ Argument \/ Call \/ StackOverflow \/ UnknownFunction \/ CallEnd

StatementGoesOn ==
    \/ ReturnValue \/ ExpressionDone \/ AssignValue \/ PrintItem \/ CardItem
    \/ NoBlock \/ IfCondition \/ BranchDone \/ Elif \/ ElifCondition
    \/ Else \/ ElseDone \/ ElifsEnd \/ WhileCondition \/ WhileAgain
    \/ LoopLeft \/ ForList \/ ForElement \/ ForEnd \/ ForAgain

Next == Program \/ Block \/ StatementStart \/ Expression \/ StatementGoesOn

Spec == Init /\ [][Next]_vars

\* The interpreter is a loop of its own: it goes on as long as it can.
FairSpec == Spec /\ WF_vars(Next)

-----------------------------------------------------------------------------
(* Texts whose braces match.  A position is the number of tokens before it. *)

Occurrences(l, t, p) == Cardinality({i \in 1..p : l[i] = t})

\* How many braces are open at p.
Opened(l, p) == Occurrences(l, "LBRACE", p) - Occurrences(l, "RBRACE", p)

\* The next token from p on, newlines apart, is a closing brace.
BraceNext(l, p) ==
    \E i \in (p + 1)..Len(l) :
        l[i] = "RBRACE" /\ \A j \in (p + 1)..(i - 1) : l[j] = "NEWLINE"

\* The tokens behind which the engine evaluates an operand.
AwaitsOperand == {"ASSIGN", "IN", "IF", "ELIF", "WHILE", "PRINT", "ALERT", "TIMELINE",
                  "OP", "LPAREN", "COMMA"}

\* A text that fits into the token array, whose braces match and stand where
\* neither an operand nor the statement of an empty block is expected.
Bracketed(l) ==
    /\ Len(l) < MaxTokens
    /\ \A p \in 0..Len(l) : Opened(l, p) >= 0
    /\ Opened(l, Len(l)) = 0
    /\ \A p \in DOMAIN l :
          /\ l[p] \in AwaitsOperand => ~BraceNext(l, p)
          /\ l[p] = "LBRACE" /\ BraceNext(l, p) => l[p + 1] = "RBRACE"
          /\ l[p] \in {"ALERT", "TIMELINE"} => p < Len(l) /\ l[p + 1] = "LPAREN"

\* The program is such a text, and not lines typed at the prompt.
OneFile == Len(Lines) = 1 /\ Bracketed(Lines[1])

-----------------------------------------------------------------------------
(* Properties. *)

TypeOK ==
    /\ session \in DOMAIN Sessions
    /\ line \in 1..Len(Lines)
    /\ \A p \in DOMAIN tokens : tokens[p] \in Tokens
    /\ current \in 0..(MaxTokens - 1)
    /\ line = 1 => \A p \in 0..(current - 1) : Token(p) # "EOF"
    /\ Len(fns) <= MaxFnDefs
    /\ \A i \in DOMAIN fns : fns[i].start \in 0..(MaxTokens - 1) /\ Len(fns[i].params) <= MaxParams
    /\ \A i \in DOMAIN scopes : \A x \in DOMAIN scopes[i] : scopes[i][x] \in Value
    /\ \A x \in DOMAIN globals : globals[x] \in Value
    /\ at \in {"loop", "stmt", "primary", "value", "call", "flow", "elifs", "iter",
               "end", "crash"}
    /\ val \in Value
    /\ flow \in Flow
    /\ hadError \in BOOLEAN

\* Where the program text says that the statement at p ends: a reference
\* for well-formed programs, written without the engine's scanning.
Between(p, q, t) == Cardinality({i \in p..(q - 1) : Type(i) = t})

\* Behind the brace that closes the one at p.
Matching(p) ==
    CHOOSE q \in DOMAIN tokens :
        /\ q > p /\ Between(p, q, "LBRACE") = Between(p, q, "RBRACE")
        /\ \A r \in (p + 1)..(q - 1) : Between(p, r, "LBRACE") # Between(p, r, "RBRACE")

StatementEnd(p) ==
    LET end[q \in Nat] ==
            LET close == Matching(Nearest(q, {"LBRACE"}))
                after == SkipNewlines(close)
            IN  IF Type(after) \in {"ELIF", "ELSE"} THEN end[after] ELSE close
    IN  IF Type(p) \in {"FN", "IF", "WHILE", "FOR"} THEN end[p]
        ELSE Nearest(p, {"NEWLINE", "RBRACE", "EOF"})

\* A statement that ends normally leaves the cursor where the text says it
\* ends, whatever was skipped, repeated, left early or called in it.
CursorAtEnd ==
    WellFormed /\ at = "flow" /\ flow = "NORMAL"
    /\ stack # <<>> /\ Top.k \in {"top", "block"}
        => Here = SkipNewlines(StatementEnd(Top.stmt))

\* A call executes statements of the body that its function was defined
\* with, and nothing else.
CallDepths == {i \in DOMAIN stack : stack[i].k = "call"}

CallRunsItsBody ==
    WellFormed /\ at = "stmt" =>
        \A i \in CallDepths :
            (\A j \in CallDepths : i <= j) =>
                LET fn == fns[stack[i].fn]
                    body == fn.start..(fn.end - 1)
                IN  /\ Here \in body
                    /\ \A p \in body : tokens[p] = Lines[fn.line][p + 1]

\* An if whose branch ended with return, break or continue still walks its
\* chain of elifs and else (exec_stmt): it evaluates their conditions, but
\* takes none of their blocks.  A statement that starts above such a chain is
\* one of a function that a condition calls.  That a block stops at the
\* statement that left it, and which loop or call ends, is not said here:
\* those are the steps BlockLeft, LoopLeft and CallEnd.
NoStatementAfterFlow ==
    at = "stmt" =>
        \A i \in DOMAIN stack :
            stack[i].k \in {"elifs", "elif"} /\ stack[i].flow # "NORMAL" =>
                \E j \in 1..(i - 1) : stack[j].k = "call"

\* What a function assigns stays in its own scope: the variables of its
\* caller and the global ones keep their values, except that a definition
\* of a function is global.
ScopesIsolated ==
    [][InFunction =>
          /\ \A x \in DOMAIN globals :
                x \in DOMAIN globals' /\ globals'[x] \in {globals[x], "fn"}
          /\ Len(scopes') >= Calls => SubSeq(scopes', Len(scopes') - Calls + 2, Len(scopes'))
                                        = Tail(scopes)
          /\ Len(scopes') < Calls => scopes' = Tail(scopes)]_vars

\* A program without loops and functions comes to its end, whatever tokens
\* it consists of: no statement waits forever for a token.
Straight ==
    \A i \in DOMAIN Lines : \A p \in DOMAIN Lines[i] :
        Lines[i][p] \notin {"WHILE", "FOR", "FN"}

StraightEnds == Straight ~> at = "end"
=============================================================================
