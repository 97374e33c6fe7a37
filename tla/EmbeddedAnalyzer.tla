-------------------------- MODULE EmbeddedAnalyzer --------------------------
(***************************************************************************)
(* sem_embed.c: a peripheral (a register block) that names a capability    *)
(* may only be used by a function with a parameter of that type.  An       *)
(* analyser is the record of sem_embed.h: the peripherals, the granted     *)
(* capabilities and had_error.                                             *)
(***************************************************************************)
EXTENDS Comptime

CONSTANTS
    MaxPeripherals,     \* MAX_PERIPHERALS (64)
    MaxCapabilities     \* MAX_CAPABILITIES (64)

SemEmbedInit == [peripherals |-> <<>>, granted_caps |-> <<>>, sem_error |-> FALSE]

SemErrorIf(sem, wrong) == [sem EXCEPT !.sem_error = @ \/ wrong]

\* Mutant: the capability of the first function serves the later ones too.
GrantedCapsKept(sem, params) ==
    FoldLeft(LAMBDA caps, p : Append(caps, p.type_name), sem.granted_caps, params)

\* The types of the parameters replace what the function before was given.
GrantedCaps(sem, params) ==
    FoldLeft(LAMBDA caps, p : IF p.type_name # "" /\ Len(caps) < MaxCapabilities
                              THEN Append(caps, p.type_name) ELSE caps, <<>>, params)

HasCapability(sem, cap) == cap = "" \/ cap \in Range(sem.granted_caps)

\* sem_embed_check_peripheral_access; the first block of a name counts.
CheckAccess(sem, name) ==
    LET i == SelectInSeq(sem.peripherals, LAMBDA p : p.name = name)
    IN  SemErrorIf(sem, i # 0 /\ ~HasCapability(sem, sem.peripherals[i].cap_token))

\* Only bounds that are constants are checked.
BitRangeWrong(e) ==
    LET bounds == ComptimeEvalInt(e.high_bit) \o ComptimeEvalInt(e.low_bit)
    IN  Len(bounds) = 2 /\ (bounds[1] < bounds[2] \/ bounds[1] >= 64 \/ bounds[2] < 0)

\* What of a statement a block passes to analyze_expr.
InBlock(s) ==
    CASE s.kind = "expr" -> <<s.expr>> [] s.kind = "var" -> <<s.init>> [] OTHER -> <<>>

\* The parts of an expression analyze_expr descends into.
Parts(e) ==
    CASE e.kind = "member" -> <<e.target>>
      [] e.kind = "bit_range" -> <<e.target, e.high_bit, e.low_bit>>
      [] e.kind = "binary" -> <<e.left, e.right>>
      [] e.kind = "unary" -> <<e.operand>>
      [] e.kind = "assign" -> <<e.target, e.value>>
      [] e.kind = "call" -> <<e.callee>> \o e.args
      [] e.kind = "index" -> <<e.target, e.index>>
      [] e.kind = "block" -> FlattenSeq([i \in DOMAIN e.stmts |-> InBlock(e.stmts[i])]) \o <<e.result_expr>>
      [] OTHER -> <<>>

RECURSIVE AnalyzeExpr(_, _)
AnalyzeExpr(sem, e) ==
    LET own == CASE e.kind = "member" /\ e.target.kind = "ident" -> CheckAccess(sem, e.target.name)
                 [] e.kind = "bit_range" -> SemErrorIf(sem, BitRangeWrong(e))
                 [] OTHER -> sem
    IN  Strictly(LAMBDA checked : FoldLeft(AnalyzeExpr, checked, Parts(e)), own)

\* A statement outside of functions; print, break and continue are skipped.
RECURSIVE AnalyzeStmt(_, _)
AnalyzeStmt(sem, s) ==
    CASE s.kind = "expr" -> AnalyzeExpr(sem, s.expr)
      [] s.kind = "var" -> AnalyzeExpr(sem, s.init)
      [] s.kind = "if" ->
           FoldLeft(AnalyzeStmt, AnalyzeExpr(sem, s.condition), <<s.then_branch, s.else_branch>>)
      [] s.kind = "while" -> AnalyzeStmt(AnalyzeExpr(sem, s.condition), s.body)
      [] s.kind = "loop" -> AnalyzeStmt(sem, s.body)
      [] s.kind = "return" -> AnalyzeExpr(sem, s.value)
      [] OTHER -> sem

\* An interrupt handler and a statement keep the capabilities of the last
\* function before them.
AnalyzeDecl(sem, d) ==
    CASE d.kind = "reg" ->
           IF Len(sem.peripherals) >= MaxPeripherals THEN SemErrorIf(sem, TRUE)
           ELSE [sem EXCEPT !.peripherals = Append(@, [name |-> d.name, cap_token |-> d.cap_token])]
      [] d.kind = "fn" ->
           AnalyzeExpr([sem EXCEPT !.granted_caps = GrantedCaps(sem, d.params)], d.body)
      [] d.kind = "isr" -> AnalyzeExpr(SemErrorIf(sem, d.vector_num \notin 0..255), d.body)
      [] d.kind = "stmt" -> AnalyzeStmt(sem, d.stmt)
      [] OTHER -> sem

\* sem_embed_analyze_program: the peripherals before everything else.
AnalyzeProgram(decls) ==
    LET first == SelectSeq(decls, LAMBDA d : d.kind = "reg")
        second == SelectSeq(decls, LAMBDA d : d.kind # "reg")
    IN  ~FoldLeft(AnalyzeDecl, SemEmbedInit, first \o second).sem_error
=============================================================================
