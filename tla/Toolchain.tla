----------------------------- MODULE Toolchain ------------------------------
(***************************************************************************)
(* A source text through the lexer, the parser, the two checkers, the      *)
(* compiler and the virtual machine.  What lexer_next returns depends on   *)
(* the text alone, so the tokens are there from the beginning, although    *)
(* the parser asks for one at a time.  It reads a declaration per action;  *)
(* then the tree is checked, compiled in one step, and what was compiled   *)
(* runs.  vm_interpret_source leaves the checkers out, so what they find   *)
(* stops nothing here: their verdicts are compared with what the program   *)
(* does.  Constant evaluation is the analyser's.                           *)
(*                                                                         *)
(* `written` is the program the text was written from, so that what the    *)
(* stages make of the text can be compared with what it says.  A text that *)
(* was garbled afterwards is only parsed, as test_parser.c does, and other *)
(* texts are only scanned, as in test_embedded.c.  Bytecode that no        *)
(* compiler wrote, with the instructions it never emits, is only run.      *)
(***************************************************************************)
EXTENDS Lexer, Parser, TypeChecker, EmbeddedAnalyzer, Compiler, StackMachine, Meaning

CONSTANTS
    Programs,       \* the programs whose texts are interpreted
    Garbled,        \* further sequences of tokens, for the parser alone
    Texts,          \* further texts, for the lexer alone
    Bytecode,       \* programs that are bytecode, for the machine alone
    MaxFields       \* bound on the turns of a field loop that consumes nothing

VARIABLES
    text,
    written,
    typed,          \* what tc_check_program returned: "none", "ok" or "errors"
    embedded        \* what sem_embed_analyze_program returned

checkVars == <<typed, embedded>>
inputVars == <<text, written>>
vars == <<inputVars, parserVars, machineVars, checkVars>>

NotWritten == <<NoDecl>>
NotParsed == <<>>
NotCompiled == <<NoDecl, NoDecl>>

ParseOnly == written = NotWritten
ScanOnly == written = NotParsed
RunOnly == written = NotCompiled
IsProgram == ~(ParseOnly \/ ScanOnly \/ RunOnly)

Init ==
    /\ \/ written \in Programs /\ text = Spelled(WriteProgram(written))
       \/ written = NotWritten /\ \E tokens \in Garbled : text = Spelled(tokens)
       \/ written = NotParsed /\ text \in Texts
       \/ written = NotCompiled /\ text = <<>>
    /\ ParserStart(Tokens(text))
    /\ typed = "none" /\ embedded = "none"
    /\ MachineInit

\* parser_parse_program runs to the end of the text before anything else.
ParseSource ==
    /\ ~ScanOnly /\ ~RunOnly /\ result = "NONE" /\ program = <<>>
    /\ open # NoDecl => Len(open.fields) < MaxFields
    /\ ParserNext
    /\ UNCHANGED <<machineVars, inputVars, checkVars>>

Verdict(ok) == IF ok THEN "ok" ELSE "errors"

CheckTypes ==
    /\ Accepted /\ IsProgram /\ typed = "none"
    /\ typed' = Verdict(CheckProgram(decls))
    /\ UNCHANGED <<parserVars, machineVars, inputVars, embedded>>

AnalyzeEmbedded ==
    /\ typed # "none" /\ embedded = "none"
    /\ embedded' = Verdict(AnalyzeProgram(decls))
    /\ UNCHANGED <<parserVars, machineVars, inputVars, typed>>

\* The two early returns of vm_interpret_source.
RejectSource ==
    /\ ParserDone /\ IsProgram
    /\ \/ parser.had_error
       \/ embedded # "none" /\ ~CompileProgram(decls).ok
    /\ CompileError
    /\ UNCHANGED <<parserVars, inputVars, checkVars>>

RunSource ==
    /\ embedded # "none"
    /\ CompileProgram(decls).ok
    /\ OperandsFit(CompileProgram(decls).fns)
    /\ RunFunction(CompileProgram(decls).fns)
    /\ UNCHANGED <<parserVars, inputVars, checkVars>>

\* A host may call vm_run_function with a chunk of its own.
RunBytecode ==
    /\ RunOnly
    /\ \E fns \in Bytecode : OperandsFit(fns) /\ RunFunction(fns)
    /\ UNCHANGED <<parserVars, inputVars, checkVars>>

Run == MachineNext /\ UNCHANGED <<parserVars, inputVars, checkVars>>

\* The host has its answer: the result of the program, or the tree of a
\* text that is only parsed, or it waits for a field loop that has stalled.
Answered ==
    /\ \/ result # "NONE"
       \/ ScanOnly
       \/ ParseOnly /\ ParserDone
       \/ open # NoDecl /\ Len(open.fields) = MaxFields
    /\ UNCHANGED vars

Next ==
    \/ ParseSource \/ CheckTypes \/ AnalyzeEmbedded \/ RejectSource \/ RunSource \/ RunBytecode \/ Run \/ Answered

Spec == Init /\ [][Next]_vars

-----------------------------------------------------------------------------
(* The lexer. *)

IsDigits(s) == s # <<>> /\ Range(s) \subseteq Digit

IsBased(s) ==
    /\ Len(s) > 2 /\ s[1] = "0"
    /\ LET digits == Range(SubSeq(s, 3, Len(s)))
       IN  \/ s[2] \in {"x", "X"} /\ digits \subseteq HexDigit
           \/ s[2] \in {"b", "B"} /\ digits \subseteq {"0", "1"}

\* s is a part, a character of a set, and another part.
Split(s, left(_), chars, right(_)) ==
    \E i \in DOMAIN s :
        s[i] \in chars /\ left(SubSeq(s, 1, i - 1)) /\ right(SubSeq(s, i + 1, Len(s)))

IsMantissa(s) == IsDigits(s) \/ Split(s, IsDigits, {"."}, IsDigits)
IsPower(s) == IsDigits(s) \/ (s # <<>> /\ Head(s) \in {"+", "-"} /\ IsDigits(Tail(s)))
IsNumber(s) == IsBased(s) \/ IsMantissa(s) \/ Split(s, IsMantissa, {"e", "E"}, IsPower)

\* A quote behind an odd number of backslashes does not end a string.
Escaped(s, i) == Cardinality({k \in 2..(i - 1) : \A j \in k..(i - 1) : s[j] = "\\"}) % 2 = 1

IsString(s) ==
    /\ Len(s) > 1 /\ s[1] = "\""
    /\ \A i \in 2..Len(s) : (i = Len(s)) <=> (s[i] = "\"" /\ ~Escaped(s, i))

IsChar(s) ==
    /\ Len(s) \in {3, 4} /\ s[1] = "'" /\ s[Len(s)] = "'"
    /\ IF Len(s) = 3 THEN s[2] \notin {"'", "\\"} ELSE s[2] = "\\"

IsWord(s) == Head(s) \in Alpha /\ Range(s) \subseteq Alnum

IsLexeme(s) ==
    /\ NUL \notin Range(s)
    /\ \/ IsWord(s) \/ IsNumber(s) \/ IsString(s) \/ IsChar(s)
       \/ Concat(s) \in OperatorChar \cup OperatorPair

Longest(s) == Max({0} \cup {n \in DOMAIN s : IsLexeme(SubSeq(s, 1, n))})

\* A number that breaks off where the lexer needs no more digits.
Unfinished(s) == Head(s) \in Digit /\ ~IsNumber(s) /\ Last(s) \in CharsOf("xXbBeE+-")

\* Each token of a text is the longest one that its characters begin with,
\* unless it is an unfinished number, and there is an error only where they
\* begin with none.
LongestLexemes ==
    ScanOnly =>
        \A t \in Range(Lexemes(text)) :
            LET rest == SubSeq(text, t.from, Len(text))
                length == t.to - t.from + 1
            IN  CASE t.tok = EOF -> rest = <<>> \/ Head(rest) = NUL
                  [] t.tok = Tok("ERROR") -> Longest(rest) = 0
                  [] OTHER -> Longest(rest) = length \/ Unfinished(SubSeq(rest, 1, length))

-----------------------------------------------------------------------------
(* The parser. *)

\* A text written from a tree, with the parentheses that the precedences of
\* parser.h ask for, parses to that tree: precedences, associativity, what
\* ends a block and which brace belongs to whom.  The table is parser.h's own,
\* not that of RDX_SPEC.md: for that see ParsedAsSpecified.
ParsedAsWritten ==
    ParserDone /\ IsProgram => decls = written /\ ~parser.had_error

\* RDX_SPEC.md, Appendix B, with the levels counted from below.
SpecifiedLevel(op) ==
    CASE op = "or" -> 1
      [] op = "and" -> 2
      [] op \in {"==", "!=", "<", ">", "<=", ">="} -> 3
      [] op = "|" -> 4
      [] op = "^" -> 5
      [] op = "&" -> 6
      [] op \in {"<<", ">>"} -> 7
      [] op \in {"+", "-"} -> 8
      [] op \in {"*", "/", "%"} -> 9

\* An operand that is a binary expression itself binds tighter than its
\* operator, or as tight on the left.
GroupedAsSpecified(e) ==
    /\ e.left.kind = "binary" => SpecifiedLevel(e.left.op) >= SpecifiedLevel(e.op)
    /\ e.right.kind = "binary" => SpecifiedLevel(e.right.op) > SpecifiedLevel(e.op)

\* A text without parentheses is grouped as Appendix B of RDX_SPEC.md ranks
\* its operators.  The code does not: parser.h ranks `|`, `^` and `&` below
\* the comparisons, and `==` and `!=` below the other four.
ParsedAsSpecified ==
    ParserDone /\ (\A i \in DOMAIN source : source[i].type # "(") =>
        \A n \in NodesOf(decls) : n.kind = "binary" => GroupedAsSpecified(n)

\* What the parser accepts without an error it also keeps: written down, the
\* tree gives the words of the text back, but for those that say nothing in
\* this parser.  Those are the separators, the parentheses and `let`; `pub`
\* before another declaration than a function's, and the colon of a register
\* block that names no capability, which are read and dropped; a `mut` said
\* twice; and the type u32 and the address 0, which a register has that says
\* nothing else.
Separators == {"(", ")", ",", ";", "let"}
Defaults == {<<":", "u32">>, <<"@", "0">>}

\* A text as its words, a keyword's second name being the keyword.
Word(tok) ==
    LET word == Text(tok)
    IN  IF word = "capability" THEN "cap" ELSE IF word \in DOMAIN Alias THEN Alias[word] ELSE word
Words(tokens) == SelectSeq([i \in DOMAIN tokens |-> Word(tokens[i])], LAMBDA w : w \notin Separators)

SaysNothing(words, i) ==
    LET Pair(k) == <<words[k], IF k < Len(words) THEN words[k + 1] ELSE "">>
    IN  \/ Pair(i) \in Defaults \cup {<<":", "{">>, <<"mut", "mut">>}
        \/ i > 1 /\ Pair(i - 1) \in Defaults
        \/ words[i] = "pub" /\ Pair(i) # <<"pub", "fn">>

Kept(tokens) ==
    LET words == Words(tokens)
        telling == SelectSeq([i \in DOMAIN words |-> i], LAMBDA i : ~SaysNothing(words, i))
    IN  [k \in DOMAIN telling |-> words[telling[k]]]

NothingSwallowed == Accepted => Kept(WriteProgram(decls)) = Kept(source)

\* A turn of the parser that consumes nothing has reported an error.
Unread == Len(parser.rest) + (IF Check(parser, "EOF") THEN 0 ELSE 1)

StallsAreReported ==
    [][ParserNext /\ Unread' = Unread => parser'.had_error \/ Check(parser, "EOF")]_vars

-----------------------------------------------------------------------------
(* The checkers. *)

\* Every call and spawn is of a name that only a function above declares.
Declared(d) == IF d.kind = "fn" THEN {d.name} ELSE {n.name : n \in {m \in Nodes(d) : m.kind = "var"}}
DeclaredIn(decls_, i) == UNION {Declared(decls_[k]) : k \in 1..i}
Assigned(decls_) == {n.target : n \in {m \in NodesOf(decls_) : m.kind = "assign"}}

OneMeaning(decls_, name) ==
    /\ Cardinality({i \in DOMAIN decls_ : name \in Declared(decls_[i])}) = 1
    /\ \A d \in Range(decls_) : d.kind = "fn" => name \notin {q.name : q \in Range(d.params)}

KnownCallees(decls_) ==
    /\ \A n \in NodesOf(decls_) :
          n.kind = "call" => n.callee.kind = "ident" /\ n.callee \notin Assigned(decls_)
    /\ \A n \in NodesOf(decls_) : n.kind = "spawn" => n.call_expr.kind = "call"
    /\ \A i \in DOMAIN decls_ : \A n \in Nodes(decls_[i]) :
          n.kind = "call" =>
              /\ OneMeaning(decls_, n.callee.name)
              /\ \E k \in 1..i : decls_[k].kind = "fn" /\ decls_[k].name = n.callee.name

\* A program the type checker accepts calls no function with the wrong
\* number of arguments.
AcceptedCallsFit == typed = "ok" /\ KnownCallees(written) => failure \notin {"arity", "callee"}

\* In a program the type checker accepts a global that was not declared
\* mutable keeps its value, as long as no function assigns it before its
\* declaration.
Mutable(name) == \E n \in NodesOf(written) : n.kind = "var" /\ n.name = name /\ n.is_mut

AssignedBelow(decls_, name) ==
    \E i \in DOMAIN decls_ :
        /\ name \notin DeclaredIn(decls_, i - 1)
        /\ \E n \in Nodes(decls_[i]) : n.kind = "assign" /\ n.target = Ident(name)

ImmutableGlobalsStay ==
    [][typed = "ok" =>
          \A i \in DOMAIN globals :
              LET name == globals[i].name
              IN  ~Mutable(name) /\ OneMeaning(written, name) /\ ~AssignedBelow(written, name)
                  => globals'[i] = globals[i]]_vars

\* Where the type checker finds nothing wrong, a constant expression has
\* the value it has when it runs; `and` and `or`, which give the value they
\* stopped at, only between booleans.
Constants == {n \in NodesOf(written) : n.kind \in {"unary", "binary"} /\ ComptimeEvalInt(n) # <<>>}
BetweenBooleans(e) ==
    \A n \in Nodes(e) : n.kind = "binary" /\ n.op \in {"and", "or"} =>
        \A side \in {n.left, n.right} : Infer(TcInit, side).t = TC_BOOL
AsInt(v) == IF v.tag = "bool" THEN IF v.bool THEN 1 ELSE 0 ELSE v.int

ConstantsAsComputed ==
    typed # "none" /\ embedded = "none" =>
        \A e \in Constants :
            ~Infer(TcInit, e).c.had_error /\ BetweenBooleans(e) =>
                LET meant == MeaningOf(e)
                IN  meant.sig # "any" => meant.sig = "next" /\ ComptimeEvalInt(e) = <<AsInt(meant.v)>>

\* A function of a program the analyser accepts uses a peripheral only
\* with its capability among the types of the parameters.
Guarded(d, e) ==
    \A n \in Nodes(e) : \A r \in Range(written) :
        /\ r.kind = "reg" /\ r.cap_token # ""
        /\ n.kind = "member" /\ n.target = Ident(r.name)
        => r.cap_token \in {q.type_name : q \in Range(d.params)}

\* Bodies of which analyze_expr sees everything.
Analyzed == {"none", "nil", "int", "str", "bool", "ident", "unary", "binary", "assign", "call",
             "member", "index", "bit_range", "block", "expr", "var"}
Straight(e) == \A n \in Nodes(e) : n.kind \in Analyzed

PeripheralsGuardedIn(bodies(_)) ==
    embedded = "ok" => \A d \in Range(written) : d.kind = "fn" /\ bodies(d.body) => Guarded(d, d.body)

PeripheralsGuarded == PeripheralsGuardedIn(Straight)

EveryPeripheralGuarded == PeripheralsGuardedIn(LAMBDA body : TRUE)

-----------------------------------------------------------------------------
(* The compiled program. *)

RunEnded == pc = "idle" /\ result \in {"OK", "RUNTIME_ERROR"}

\* What a limit of the machine stopped is not comparable.
Overflowed ==
    \/ failure = "frames"
    \/ \E f \in Live : state[f] = "ERROR" /\ failure = "none"

Printed(id) ==
    LET own == SelectSeq(output, LAMBDA o : o.by = id)
    IN  [i \in DOMAIN own |-> own[i].values]

\* What the compiler emits nothing for, so that the POP or the operator
\* behind it takes a value of somebody else's.
EmitsNothing(decls_) ==
    \E n \in NodesOf(decls_) :
        n.kind \in {"member", "index", "array", "bit_range", "comptime", "asm"}

Locals(n) == \E s \in Nodes(n) : s.kind = "var"

\* A break or continue that leaves a block with locals does not pop them.
JumpsOverLocals(decls_) ==
    \E n \in NodesOf(decls_) :
        /\ n.kind \in {"while", "loop"} /\ Locals(n)
        /\ \E s \in Nodes(n) : s.kind \in {"break", "continue"}

\* end_scope pops the value of a block before the block's locals; a block
\* that is an operand also numbers its locals below what is on the stack.
\* Neither shows in the body of a function or a statement.
BlockValueLost(decls_) ==
    \E n \in NodesOf(decls_) :
        /\ n.kind \in {"print", "var", "return", "binary", "unary", "assign", "call", "spawn", "yield"}
        /\ \E b \in Children(n) : b.kind = "block" /\ Locals(b)

TooManyGlobals(decls_) ==
    Cardinality({n.name : n \in {m \in NodesOf(decls_) : m.kind \in {"var", "fn"}}}) > GlobalsMax

\* Beside other fibers a string that is put together may be gone when it is
\* read.
MayLoseStrings(decls_) ==
    LET nodes == NodesOf(decls_)
    IN  /\ \E n \in nodes : n.kind = "spawn"
        /\ \E n \in nodes : n.kind = "str"
        /\ \E n \in nodes : n.kind \in {"binary", "assign"} /\ n.op \in {"+", "+="}

Compilable(decls_) ==
    ~(EmitsNothing(decls_) \/ JumpsOverLocals(decls_) \/ BlockValueLost(decls_)
      \/ TooManyGlobals(decls_) \/ MayLoseStrings(decls_))

ComputesAsWritten ==
    RunEnded /\ IsProgram /\ ~Overflowed /\ Compilable(written) =>
        LET meant == RunProgram(written)
        IN  "any" \notin meant.sigs =>
              /\ result = "OK" <=> meant.sigs \subseteq {"next", "return"}
              /\ result = "OK" => \A i \in DOMAIN meant.outs : Printed(i) = meant.outs[i]
              /\ result # "OK" => failure \in meant.sigs
              /\ \A i \in DOMAIN meant.outs : IsPrefix(Printed(i), meant.outs[i])

\* A main program that comes to its end has put its nil above its function.
EndsBalanced ==
    /\ IsProgram /\ pc = "slice" /\ SliceGoesOn /\ Instruction.op = "HALT"
    /\ ~EmitsNothing(written) /\ ~JumpsOverLocals(written)
    /\ "any" \notin RunProgram(written).sigs
    => Len(Running) = 2

\* While the main program runs, no global and no stack holds a string of a
\* fiber that has finished, if only the main program assigns and spawns.
OnlyMainShares(decls_) ==
    \A d \in Range(decls_) :
        d.kind = "fn" => \A n \in Nodes(d) : n.kind \notin {"assign", "spawn"}

MainLives == \E f \in Live : fiberId[f] = 1
Held == {g.value : g \in Range(globals)} \cup UNION {Range(stack[f]) : f \in Live}

HeldStringsLast == IsProgram /\ MainLives /\ OnlyMainShares(written) => \A v \in Held : ~Dropped(v)
=============================================================================
