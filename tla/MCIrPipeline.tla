---------------------------- MODULE MCIrPipeline ----------------------------
(***************************************************************************)
(* IrPipeline on programs for each statement and operator that is lowered, *)
(* and on all functions of one block with two operations that the builder  *)
(* can write over a few operands.                                          *)
(***************************************************************************)
EXTENDS IrPipeline, SamplePrograms

Steps == Sets("i", Add(V("i"), N(1)))
Counting(body) ==
    Main(<<MutStmt("i", N(0)), WhileStmt(Less(V("i"), N(3)), Body(body)), Prints(V("i"))>>)
AtOne(stmt) == IfStmt(Op2("==", V("i"), N(1)), Body(<<stmt>>), NoStmt)

Loops == {
    Counting(<<Steps>>),
    Counting(<<LetStmt("k", V("i")), Steps, Prints(V("k"))>>),
    Counting(<<Steps, AtOne(BreakStmt), Prints(V("i"))>>),
    Counting(<<Steps, AtOne(ContinueStmt), Prints(V("i"))>>),
    Counting(<<Steps, AtOne(ReturnStmt(N(1)))>>),
    Counting(<<LetStmt("i", N(5)), Prints(V("i")), BreakStmt, Prints(N(1))>>),
    Main(<<MutStmt("i", N(0)),
           LoopStmt(Body(<<Steps, LoopStmt(Body(<<BreakStmt>>)), AtOne(ContinueStmt), BreakStmt>>)),
           Prints(V("i"))>>),
    Main(<<BreakStmt, Prints(N(1))>>)}

Ifs(cond) ==
    Main(<<LetStmt("a", N(1)), IfStmt(cond, Body(<<LetStmt("a", N(2)), Prints(V("a"))>>),
                                      IfStmt(V("a"), Body(<<Sets("a", N(3))>>), Body(<<>>))),
           Prints(V("a"))>>)

Branchings == {
    Ifs(BoolLit(TRUE)), Ifs(NilLit), Ifs(Less(N(1), V("a"))), Ifs(V("nowhere")),
    Main(<<LetStmt("a", N(1)), IfStmt(Op2("and", V("a"), N(0)), Body(<<Prints(N(1))>>), Body(<<Prints(N(2))>>)),
           Prints(Op2("or", Op2("or", N(0), NilLit), V("a")))>>),
    Main(<<IfStmt(N(0), Body(<<Prints(N(1))>>), NoStmt), Prints(Op2("/", N(1), N(0))), Prints(N(2))>>)}

Blocks == {
    Main(<<LetStmt("a", N(1)), LetStmt("b", N(2)),
           Does(Block(<<LetStmt("a", N(3)), Sets("b", V("a")), LetStmt("c", V("b"))>>, NoExpr)),
           PrintStmt(<<V("a"), V("b")>>)>>),
    Main(<<LetStmt("a", N(1)), Prints(Block(<<Sets("a", N(2)), LetStmt("b", N(4))>>, Add(V("a"), V("b")))),
           LetStmt("n", NoExpr), Prints(V("n"))>>),
    Main(<<LetStmt("a", Add(StrLit("a"), StrLit("b"))), LetStmt("a", Assign("=", V("a"), N(1))), Prints(V("a"))>>),
    Main(<<Prints(N(1)), ReturnStmt(NoExpr), Prints(N(2))>>)}

Functions == {
    <<Fn("fib", <<"n">>, <<
          IfStmt(Less(V("n"), N(2)), Body(<<ReturnStmt(V("n"))>>), NoStmt),
          ReturnStmt(Add(Calls("fib", <<Op2("-", V("n"), N(1))>>), Calls("fib", <<N(0)>>)))>>),
      StmtDecl(Prints(Calls("fib", <<N(3)>>)))>>,
    <<Fn("f", <<"a", "b">>, <<LoopStmt(Body(<<ReturnStmt(V("a")), Prints(V("b"))>>))>>),
      StmtDecl(Does(SpawnExpr(Calls("f", <<N(1), N(2)>>)))), StmtDecl(Does(YieldExpr(NoExpr)))>>,
    <<FnDecl("g", <<>>, "", Block(<<>>, Array(<<N(1), Index(V("p"), N(0))>>)), TRUE),
      ShapeDecl("P", <<>>), StmtDecl(Does(Member(V("p"), "x"))), StmtDecl(Does(YieldExpr(N(1)))),
      StmtDecl(Does(Assign("=", Member(V("p"), "x"), CapReq("file"))))>>}

\* A scope too many is closed all the same.
RECURSIVE Deep(_)
Deep(n) == IF n = 0 THEN Prints(V("a")) ELSE Body(<<LetStmt("b", N(n)), Deep(n - 1)>>)
Limits == {Main(<<LetStmt("a", N(1)), Deep(3)>>), Main(<<LetStmt("a", N(1)), Deep(5)>>)}

MCPrograms == NestedPrograms \cup Loops \cup Branchings \cup Blocks \cup Functions \cup Limits

-----------------------------------------------------------------------------
(* Functions of one block. *)

V1 == Ref(<<Entry, 1>>)
V2 == Ref(<<Entry, 2>>)

\* One operation on what there is.
Operation(values, numbers) ==
    [op : {"ADD", "SUB", "MUL", "DIV"}, operands : {<<v, n>> : v \in values, n \in numbers}] \cup
    [op : {"ADD", "SUB"}, operands : {<<n, v>> : v \in values, n \in numbers}] \cup
    [op : {"ADD", "CMP_LT"}, operands : {<<v, w>> : v, w \in values}] \cup
    [op : {"MOVE", "NEG", "NOT"}, operands : {<<v>> : v \in values}] \cup
    [op : {"NEG", "NOT", "BIT_NOT"}, operands : {<<Imm(3)>>}] \cup
    [op : {"DIV", "REM", "CMP_EQ", "CMP_NE", "CMP_LE", "SHR"}, operands : {<<Imm(-7), Imm(n)>> : n \in {0, 2}}]

\* A function that emits these instructions, prints the last value, and
\* returns the one before.
Emits(code) ==
    FoldLeft(LAMBDA fn, i : IrEmit(fn, Entry, i.op, i.operands), IrBlockNew(IrFuncNew("f")),
             <<[op |-> "CONST_INT", operands |-> <<Imm(6)>>]>> \o code \o
             <<[op |-> "CONST_STR", operands |-> <<Name("rdx_print")>>],
               [op |-> "CALL", operands |-> <<Ref(<<Entry, 4>>), Ref(<<Entry, 3>>)>>],
               [op |-> "RETURN", operands |-> <<V2>>]>>)

MCBuilt ==
    {Emits(<<i, k>>) : i \in Operation({V1}, {Imm(n) : n \in {0, 1, 2}}),
                       k \in Operation({V1, V2}, {Imm(n) : n \in {0, 1, 4}})}
=============================================================================
