---------------------------- MODULE MCToolchain ----------------------------
(***************************************************************************)
(* Toolchain on a family of small programs: every way to nest two          *)
(* operators of different precedence, and programs for the control flow,   *)
(* the scopes, the calls and the fibers.  The garbled texts are the texts  *)
(* of some programs with one token removed, doubled, or swapped with the   *)
(* next one.  The lexer alone gets all short texts.                        *)
(***************************************************************************)
EXTENDS Toolchain, SamplePrograms

\* The host lets programs write to the console and read files.
MCDefaultCapabilities == {"stdio.write", "file.read"}

(* Programs. *)

\* fn fib(n: int) { if n < 2 { return n; } return fib(n - 1) + fib(n - 2); }
Fib == Fn("fib", <<"n">>, <<
          IfStmt(Less(V("n"), N(2)), Body(<<ReturnStmt(V("n"))>>), NoStmt),
          ReturnStmt(Add(Calls("fib", <<Op2("-", V("n"), N(1))>>),
                         Calls("fib", <<Op2("-", V("n"), N(2))>>)))>>)

\* A while whose body declares a local, assigns an outer one and shadows.
Counting(body) ==
    Main(<<MutStmt("i", N(0)), WhileStmt(Less(V("i"), N(2)), Body(body)), Prints(V("i"))>>)
Next1 == Does(Assign("+=", V("i"), N(1)))

Scopes == {
    Counting(<<LetStmt("k", V("i")), Next1, Prints(V("k"))>>),
    Counting(<<LetStmt("i", N(5)), LetStmt("i", Add(V("i"), N(1))), Prints(V("i")), BreakStmt>>),
    Main(<<Does(Block(<<LetStmt("a", N(1)), LetStmt("b", N(2)),
                        Does(Block(<<LetStmt("a", N(3)), Sets("b", V("a"))>>, NoExpr)),
                        PrintStmt(<<V("a"), V("b")>>)>>, NoExpr)), Prints(V("a"))>>),
    Main(<<LetStmt("a", N(1)), Prints(Block(<<Sets("a", N(2))>>, Add(V("a"), N(1))))>>)}

Breaking(stmt, i) == IfStmt(Op2("==", V("i"), N(1)), Body(<<stmt>>), NoStmt)

Jumps == {
    Counting(<<Next1, Breaking(BreakStmt, 1), Prints(V("i"))>>),
    Counting(<<Next1, Breaking(ContinueStmt, 1), Prints(V("i"))>>),
    Counting(<<Next1, IfStmt(Op2("==", V("i"), N(1)), Body(<<ContinueStmt>>), Body(<<BreakStmt>>))>>),
    Main(<<MutStmt("i", N(0)),
           LoopStmt(Body(<<Next1, LoopStmt(Body(<<BreakStmt>>)),
                           Breaking(ContinueStmt, 1), BreakStmt>>)), Prints(V("i"))>>),
    Main(<<BreakStmt>>), Main(<<ContinueStmt>>),
    Main(<<Prints(N(1)), ReturnStmt(NoExpr), Prints(N(2))>>)}

\* What the stack holds above the callee when it is called.
CallPrograms == {
    <<Fib, StmtDecl(Prints(Calls("fib", <<N(3)>>)))>>,
    <<Fn("add", <<"a", "b">>, <<LetStmt("c", Add(V("a"), V("b"))), ReturnStmt(V("c"))>>),
      StmtDecl(PrintStmt(<<N(7), Add(N(1), Calls("add", <<N(2), Calls("add", <<N(3), N(4)>>)>>))>>))>>,
    <<Fn("zero", <<>>, <<>>), StmtDecl(Prints(Calls("zero", <<>>)))>>,
    <<Fn("one", <<"a">>, <<>>), StmtDecl(Prints(Calls("one", <<>>)))>>,
    <<StmtDecl(LetStmt("f", N(1))), StmtDecl(Does(Calls("f", <<>>)))>>,
    <<StmtDecl(Does(Calls("late", <<>>))), Fn("late", <<>>, <<>>)>>,
    <<Fn("again", <<>>, <<ReturnStmt(Calls("again", <<>>))>>), StmtDecl(Does(Calls("again", <<>>)))>>,
    <<Fn("f", <<"a">>, <<MutStmt("i", N(0)),
                         WhileStmt(Less(V("i"), N(2)), Body(<<Next1, Breaking(BreakStmt, 1)>>)),
                         Prints(Add(V("a"), V("i")))>>), StmtDecl(Does(Calls("f", <<N(4)>>)))>>,
    <<Fn("set", <<>>, <<Sets("g", N(3))>>), StmtDecl(LetStmt("g", N(1))),
      StmtDecl(Does(Calls("set", <<>>))), StmtDecl(Prints(V("g")))>>}

\* fn w(n) { print n; yield; print n + 1; }
Worker == Fn("w", <<"n">>, <<Prints(V("n")), Does(YieldExpr(NoExpr)), Prints(Add(V("n"), N(1)))>>)

FiberPrograms == {
    <<Worker, StmtDecl(Does(SpawnExpr(Calls("w", <<N(1)>>)))),
      StmtDecl(Prints(SpawnExpr(Calls("w", <<N(5)>>)))), StmtDecl(Prints(N(9)))>>,
    <<Worker, StmtDecl(Does(SpawnExpr(Calls("w", <<N(1)>>)))),
      StmtDecl(Prints(Add(YieldExpr(N(3)), N(1)))), StmtDecl(Prints(Op2("/", N(1), N(0))))>>,
    <<Worker, StmtDecl(Does(SpawnExpr(Calls("w", <<>>))))>>,
    <<Fn("deep", <<>>, <<Does(SpawnExpr(V("Nothing")))>>), StmtDecl(Does(SpawnExpr(Calls("deep", <<>>))))>>}

\* Strings that are put together, held by globals and by other fibers.
AndX(e) == Add(e, StrLit("x"))
WithX == Fn("with", <<"t">>, <<LetStmt("r", AndX(V("t"))), ReturnStmt(V("r"))>>)
SpawnWith(e) == Does(SpawnExpr(Calls("with", <<e>>)))
Yields == Does(YieldExpr(NoExpr))

StringPrograms == {
    <<WithX>> \o Main(<<LetStmt("g", AndX(StrLit("a"))), SpawnWith(V("g")),
                       MutStmt("h", Calls("with", <<V("g")>>)), Yields, Sets("h", AndX(V("h"))),
                       Yields, PrintStmt(<<V("h"), V("g")>>)>>),
    \* Held behind the end of the fiber: of main's, and of the other one's.
    <<Fn("show", <<"t">>, <<Yields, IfStmt(V("t"), Body(<<Prints(V("t"))>>), NoStmt)>>)>>
        \o Main(<<Does(SpawnExpr(Calls("show", <<AndX(StrLit("a"))>>)))>>),
    <<Fn("keep", <<>>, <<Sets("g", AndX(StrLit("a")))>>)>>
        \o Main(<<MutStmt("g", StrLit("a")), Does(SpawnExpr(Calls("keep", <<>>))), Yields, Yields,
                  Prints(Op2("==", V("g"), StrLit("ax"))), Prints(Unary("not", V("g")))>>)}

Globals(n) == Main([i \in 1..n |-> LetStmt(<<"a", "b", "c", "d", "e">>[i], N(i))])

TooMuch == PrintStmt([i \in 1..StackMax |-> N(i)])

OtherPrograms == {
    Globals(4) \o Main(<<Prints(V("d")), Sets("a", N(8)), Prints(V("a"))>>),
    Main(<<Prints(V("nowhere"))>>),
    Main(<<IfStmt(NilLit, Body(<<Prints(StrLit("a"))>>), IfStmt(StrLit(""), Body(<<>>), Body(<<Prints(StrLit("b"))>>)))>>),
    Main(<<Prints(Op2("==", BoolLit(TRUE), N(1))), Prints(Op2("!=", StrLit("a"), StrLit("a")))>>),
    Main(<<Prints(Add(StrLit("a"), StrLit("b"))), Prints(Unary("not", CapReq("stdio.write"))),
           Prints(CapReq("file"))>>),
    Main(<<Does(Assign("=", N(1), N(2)))>>),
    \* A print of more values than the stack holds, alone and beside a fiber.
    Main(<<TooMuch, Prints(N(0))>>),
    <<Fn("over", <<>>, <<TooMuch>>), StmtDecl(Does(SpawnExpr(Calls("over", <<>>))))>>
        \o Counting(<<Next1, Prints(V("i"))>>) \o Main(<<Prints(Add(N(1), N(2)))>>),
    \* A fifth global, and values of blocks with locals.
    Globals(5) \o Main(<<Prints(V("e"))>>),
    Main(<<Prints(Add(N(1), Block(<<LetStmt("x", N(2)), LetStmt("y", N(3))>>, V("y"))))>>),
    \* Code that pops what was never pushed.
    Main(<<LetStmt("v", Index(V("v"), N(0)))>>), Main(<<Does(Member(V("v"), "f")), Prints(N(1))>>)}

\* Only parsed, for the compiler has nothing to do for them.
Declarations == {
    <<ShapeDecl("P", <<Param("x", "int"), Param("y", "")>>), StmtDecl(Prints(Member(V("p"), "x")))>>,
    <<StructDecl("S", <<>>, TRUE), StructDecl("T", <<Param("self", "u8"), Param("b", "S")>>, FALSE)>>,
    <<RegBlock("GPIO", 64, "hw", <<RegMember("out", "u32", 4, TRUE), RegMember("dir", "u8", 0, FALSE)>>),
      IsrDecl("tick", 15, Block(<<AsmStmt("nop", TRUE)>>, BitRange(Member(V("GPIO"), "out"), N(7), N(4))))>>,
    <<RegBlock("A", 0, "", <<>>), FnDecl("f", <<Param("u8", ""), Param("p", "P")>>, "int",
        Block(<<LetStmt("z", InlineAsm("wfi", FALSE))>>, Array(<<Comptime(N(1)), Array(<<>>)>>)), TRUE)>>}

\* What only the checkers look at.
TypedFn(x, params, ret, body) == FnDecl(x, params, ret, body, FALSE)
Point == StructDecl("Point", <<Param("x", "num"), Param("y", "blo")>>, FALSE)

Typings == {
    \* Calls before and behind the function, with too few and too many arguments.
    <<Fn("g", <<>>, <<Does(Calls("f", <<>>))>>), Fn("f", <<"a">>, <<Prints(V("a"))>>),
      StmtDecl(Does(Calls("g", <<>>)))>>,
    <<Fn("f", <<"a">>, <<Prints(V("a"))>>), StmtDecl(Does(Calls("f", <<N(1), N(2)>>)))>>,
    <<Fn("f", <<"a">>, <<Prints(V("a"))>>), StmtDecl(Does(Calls("f", <<StrLit("s")>>)))>>,
    <<TypedFn("f", <<Param("a", "num")>>, "num", Block(<<ReturnStmt(V("a"))>>, NoExpr)),
      StmtDecl(Prints(Add(Calls("f", <<StrLit("a")>>), Calls("f", <<Op2("-", N(1), Calls("f", <<N(2)>>))>>))))>>,
    <<TypedFn("f", <<Param("h", "")>>, "", Block(<<Does(Calls("h", <<>>))>>, NoExpr)),
      StmtDecl(Does(Calls("f", <<V("f")>>)))>>,
    <<TypedFn("f", <<>>, "chr", Block(<<IfStmt(N(1), Body(<<ReturnStmt(N(1))>>), Body(<<ReturnStmt(StrLit("c"))>>))>>, NoExpr)),
      StmtDecl(Prints(Calls("f", <<>>)))>>,
    \* Structs: a constructor, a field, a field that is not there.
    <<Point, StmtDecl(LetStmt("p", Calls("Point", <<N(1), BoolLit(TRUE)>>)))>>,
    <<Point, Fn("f", <<>>, <<Does(Member(Calls("Point", <<N(1), N(2)>>), "x"))>>)>>,
    <<StructDecl("Pair", <<Param("p", "Point"), Param("q", "Pair")>>, FALSE), Point, Point>>,
    \* Variables that may not be assigned, and one of another type.
    <<StmtDecl(LetStmt("k", N(1))), Fn("set", <<>>, <<Sets("k", N(3))>>), StmtDecl(Does(Calls("set", <<>>)))>>,
    <<StmtDecl(MutStmt("k", N(1))), Fn("set", <<>>, <<Sets("k", N(3))>>), StmtDecl(Does(Calls("set", <<>>))),
      StmtDecl(Prints(V("k")))>>,
    Main(<<LetStmt("k", N(1)), Does(Block(<<MutStmt("k", N(2)), Sets("k", N(3))>>, NoExpr)), Prints(V("k"))>>),
    Main(<<VarStmt("m", "blo", BoolLit(FALSE), TRUE, FALSE), Sets("m", N(1)), Prints(V("m"))>>),
    Main(<<VarStmt("m", "chr", N(1), FALSE, TRUE), Prints(Unary("-", StrLit("a")))>>),
    Main(<<LetStmt("v", Array(<<N(1), N(2)>>)), Does(Add(Index(V("v"), N(0)), Index(StrLit("s"), BoolLit(TRUE)))),
           Does(Binary("<", Member(V("v"), "len"), Array(<<StrLit("a"), N(1)>>)))>>),
    \* Constants.
    Main(<<Prints(Op2("%", Unary("-", N(7)), Op2("+", N(1), N(1)))), Prints(Op2("-", N(1), Op2("/", N(3), N(0))))>>),
    Main(<<Prints(Op2("and", Less(N(1), N(2)), Unary("not", Op2("==", N(3), Op2("|", N(1), N(2)))))),
           Prints(Op2("or", Less(N(2), N(1)), Op2("!=", Unary("~", N(4)), Op2("^", N(5), N(1)))))>>)}

\* Peripherals: UART needs a capability, LED does not.
Uart == RegBlock("UART", 64, "U_CAP", <<RegMember("CR1", "u32", 0, TRUE)>>)
Led == RegBlock("LED", 32, "", <<RegMember("out", "u32", 0, FALSE)>>)
UartRead == Member(V("UART"), "CR1")
Writes(reg) == Does(Assign("=", reg, N(1)))
Driver(x, params, stmts) == TypedFn(x, params, "", Block(stmts, NoExpr))
WithCap == <<Param("c", "U_CAP")>>

Embedded == {
    <<Driver("init", WithCap, <<Writes(UartRead)>>), Uart, Led>>,
    <<Uart, Driver("rogue", <<>>, <<Writes(UartRead)>>)>>,
    <<Uart, Driver("init", WithCap, <<>>), Driver("rogue", <<>>, <<Writes(UartRead)>>)>>,
    <<Uart, Driver("init", WithCap, <<Writes(UartRead)>>),
      Driver("rogue", <<Param("c", ""), Param("d", "L_CAP"), Param("e", "u8"), Param("f", "U_CAP")>>,
             <<LetStmt("x", Add(N(1), UartRead))>>)>>,
    <<Uart, Led, Driver("blink", <<>>, <<Writes(Member(V("LED"), "out"))>>), Led, Driver("dark", <<>>, <<>>)>>,
    <<Uart, Driver("rogue", <<>>, <<IfStmt(BoolLit(TRUE), Body(<<Writes(UartRead)>>), NoStmt)>>)>>,
    <<Uart, Driver("init", WithCap, <<>>), IsrDecl("tick", 15, Block(<<Writes(UartRead)>>, NoExpr)),
      IsrDecl("late", 256, Block(<<>>, NoExpr))>>,
    <<Uart, Driver("bits", WithCap, <<LetStmt("b", BitRange(UartRead, N(4), Op2("+", N(3), N(4))))>>)>>,
    <<Uart, Driver("bits", WithCap, <<LetStmt("b", BitRange(UartRead, N(64), N(0)))>>)>>,
    <<Uart, Driver("bits", WithCap, <<LetStmt("b", BitRange(UartRead, V("hi"), N(0)))>>)>>,
    <<Uart>> \o Main(<<WhileStmt(Unary("not", UartRead), Body(<<>>)),
                      LoopStmt(Body(<<Does(Calls("f", <<Index(UartRead, N(0))>>)), BreakStmt>>)),
                      IfStmt(N(0), Body(<<ReturnStmt(UartRead)>>), Body(<<>>))>>)}

MCPrograms ==
    NestedPrograms \cup Scopes \cup Jumps \cup CallPrograms \cup FiberPrograms
    \cup StringPrograms \cup OtherPrograms
    \cup Declarations \cup Typings \cup Embedded

-----------------------------------------------------------------------------
(* Bytecode with the instructions that the compiler never emits: main, and *)
(* a function before it that main spawns.                                  *)

MCFileTexts == {"", "x"}
FnOf(arity, code) == [name |-> "", arity |-> arity, code |-> code]
Invoke(operation, count) == [op |-> "CAP_INVOKE", operation |-> operation, count |-> count]
PushStr(s) == OpConst(StrVal(s))
SpawnOf(fn) == <<OpConst(FnVal(fn)), OpCount("SPAWN", 0)>>
EndsAfter(code) == FnOf(0, code \o <<Op("NIL"), Op("RETURN")>>)

\* What is read is printed, by two instructions that print.
Reader == <<PushStr("path"), Op("DUP"), Invoke("file_read", 1), Op("DUP"), Invoke("print", 1),
            OpCount("PRINT", 3), Op("HALT")>>

\* A fiber asks for more than the VM has, and tries to use it.
Writer == <<OpName("CAP_REQ", "all"), OpName("CAP_REQ", "file.write"), PushStr("path"), PushStr("x"),
            Invoke("file_write", 2)>>

\* Too few arguments, arguments of a wrong type, an id that is no operation.
Wrongly == <<Op("NIL"), Invoke("file_read", 1), Invoke("file_read", 0), Op("DUP"),
             Invoke("unknown", 2), PushStr("path"), Invoke("file_write", 1), Op("HALT")>>

\* More values than the stack holds, and a copy of nothing.
Empty == <<Op("POP"), Op("DUP"), Invoke("file_write", 3), Op("HALT")>>

\* A local above the top, and what is read there.
Above == <<Op("TRUE"), OpSlot("SET_LOCAL", 4), OpSlot("SET_LOCAL", 1), OpSlot("GET_LOCAL", 4),
           OpCount("CALL", 0), OpCount("PRINT", 1), Op("HALT")>>

MCBytecode == {
    <<FnOf(0, Reader)>>, <<FnOf(0, Wrongly)>>, <<FnOf(0, Empty)>>, <<FnOf(0, Above)>>,
    <<EndsAfter(Writer), FnOf(0, SpawnOf(1) \o Reader)>>,
    <<EndsAfter(Writer), FnOf(0, SpawnOf(1) \o <<Op("YIELD"), Op("UNKNOWN")>>)>>,
    <<FnOf(0, <<Op("UNKNOWN")>>), FnOf(0, SpawnOf(1) \o Writer \o <<Op("YIELD"), Op("HALT")>>)>>,
    \* A callee that drops what its caller had pushed.
    <<EndsAfter(<<Op("POP"), Op("POP"), Op("POP")>>),
      FnOf(0, <<Op("NIL"), OpConst(FnVal(1)), OpCount("CALL", 0), OpCount("PRINT", 2), Op("HALT")>>)>>}

-----------------------------------------------------------------------------
(* Garbled texts. *)

Without(s, i) == RemoveAt(s, i)
Doubled(s, i) == InsertAt(s, i, s[i])
Swapped(s, i) == [s EXCEPT ![i] = s[i + 1], ![i + 1] = s[i]]

OneWrong(s) ==
    {Without(s, i) : i \in DOMAIN s} \cup {Doubled(s, i) : i \in DOMAIN s}
    \cup {Swapped(s, i) : i \in 1..(Len(s) - 1)}
    \cup {InsertAt(s, i, Tok("ERROR")) : i \in DOMAIN s}

\* What may be left out, said twice or said without effect: `pub` before
\* every kind of declaration, register blocks without a capability or with
\* its other keyword, registers without a type or an address, and any token
\* for a type.
Registers == <<IdentTok("r"), Tok(";"), Tok("volatile"), IdentTok("s"), Tok(":"), Tok("u8"), Tok(","),
               IdentTok("t"), Tok("@"), IntTok(4)>>
RegText(colon) ==
    <<Tok("reg"), IdentTok("A"), Tok("@"), IntTok(8)>> \o colon \o <<Tok("{")>> \o Registers \o <<Tok("}")>>

Loose == {
    RegText(<<>>), RegText(<<Tok(":")>>), RegText(<<Tok(":"), Tok("capability"), IdentTok("C")>>),
    <<Tok("fix"), Tok("mut"), IdentTok("x"), Tok(":"), Tok("{"), Tok(";"),
      Tok("let"), Tok("mut"), IdentTok("y"), Tok(":"), IntTok(5), Tok(";")>>,
    <<AliasTok("make"), IdentTok("f")>> \o Parens(<<>>) \o <<Tok("{"), Tok("}")>>}

Public(tokens) == <<Tok("pub")>> \o tokens

MCGarbled ==
    UNION {OneWrong(WriteProgram(p)) : p \in Scopes \cup CallPrograms \cup Declarations}
    \cup UNION {OneWrong(tokens) : tokens \in Loose \cup {Public(RegText(<<Tok(":")>>))}}
    \cup {Public(WriteProgram(<<d>>)) : d \in UNION {Range(p) : p \in Declarations \cup CallPrograms}}
    \cup Loose

-----------------------------------------------------------------------------
(* Texts: all short ones of any characters, and longer ones of those of    *)
(* numbers, of comments and strings, and of characters.                    *)

MCTexts ==
    SeqOf(CharsOf("ae01xb.+-=<>/*#&!") \cup {"\"", "'", "\\", "\n", " ", "$", NUL}, 3)
    \cup SeqOf(CharsOf("01ex.+"), 5) \cup SeqOf({"/", "*", "\n", "a"}, 5)
    \cup SeqOf({"'", "\\", "\"", NUL}, 5)
=============================================================================
