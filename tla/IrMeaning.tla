----------------------------- MODULE IrMeaning ------------------------------
(***************************************************************************)
(* What a function of the IR computes: an evaluator, to compare what the   *)
(* lowering writes and what the passes leave with what a program means.    *)
(* It is a reference, as rdx_ir.h describes its instructions: the          *)
(* repository has nothing that runs the IR.                                *)
(*                                                                         *)
(* A state has the values of the instructions so far, what is stored in    *)
(* the slots, the block and the one control came from, what was printed,   *)
(* the value returned, the number of blocks that may still run, and a      *)
(* signal: "next", "goto", "return", a run-time error, "any" where the     *)
(* IR leaves the outcome open, or what is wrong with the function:         *)
(* "nothing" for an operand without a value, "phi" for a PHI that does not *)
(* know the block before, "end" for a block without a last instruction,    *)
(* "fuel" for too many blocks.                                             *)
(***************************************************************************)
EXTENDS IrBuilder, Meaning

LOCAL MaxBlockRuns == 40

LOCAL Put(map, k, v) == [x \in DOMAIN map \cup {k} |-> IF x = k THEN v ELSE map[x]]
LOCAL SlotVal(id) == [tag |-> "slot", slot |-> id]

LOCAL Stops(s, sig) == [s EXCEPT !.sig = sig]
LOCAL Defines(s, i, v) == [s EXCEPT !.values = Put(@, i.id, v)]
LOCAL DefinesOutcome(s, i, o) == IF o.sig = "next" THEN Defines(s, i, o.v) ELSE Stops(s, o.sig)
LOCAL GoesTo(s, b) == [s EXCEPT !.sig = "goto", !.before = s.block, !.block = b]

\* go of the values of some operands.
LOCAL Using(s, operands, go(_)) ==
    IF \A o \in Range(operands) : IsRef(o) => o.ref \in DOMAIN s.values
    THEN go([k \in DOMAIN operands |->
                 IF IsRef(operands[k]) THEN s.values[operands[k].ref] ELSE IntVal(operands[k].imm)])
    ELSE Stops(s, "nothing")

LOCAL Outcomes(results) ==
    IF Cardinality(results) = 1 /\ <<>> \notin results
    THEN [v |-> Head(CHOOSE v \in results : TRUE), sig |-> "next"]
    ELSE [v |-> NilVal, sig |-> "any"]

\* Arithmetic gives an integer, so it is of integers.
LOCAL Typed(op, vs) == op \in {"==", "!="} \/ \A v \in Range(vs) : IsInt(v)

LOCAL Loads(s, i, v) ==
    IF v.tag # "slot" \/ v.slot \notin DOMAIN s.memory THEN Stops(s, "nothing")
    ELSE Defines(s, i, s.memory[v.slot])

LOCAL Phi(s, i) ==
    LET from(k) == i.operands[k] = Target(s.before)
    IN  IF ~from(2) /\ ~from(4) THEN Stops(s, "phi")
        ELSE Using(s, <<i.operands[IF from(2) THEN 1 ELSE 3]>>, LAMBDA vs : Defines(s, i, vs[1]))

LOCAL Invokes(s, i, vs) ==
    IF vs[1] # StrVal("rdx_print") THEN Stops(s, "any")
    ELSE Defines([s EXCEPT !.out = Append(@, Tail(vs))], i, NilVal)

LOCAL IrStep(s, i) ==
    CASE s.sig # "next" \/ i.op = "UNDEF" -> s
      [] i.op = "CONST_INT" -> Defines(s, i, IntVal(i.operands[1].imm))
      [] i.op = "CONST_BOOL" -> Defines(s, i, BoolVal(i.operands[1].imm = 1))
      [] i.op = "CONST_STR" -> Defines(s, i, StrVal(i.operands[1].name))
      [] i.op = "CONST_NULL" -> Defines(s, i, NilVal)
      [] i.op = "MOVE" -> Using(s, i.operands, LAMBDA vs : Defines(s, i, vs[1]))
      [] i.op \in DOMAIN IrOperator ->
           Using(s, i.operands, LAMBDA vs :
               IF Typed(IrOperator[i.op], vs)
               THEN DefinesOutcome(s, i, Apply2(s, IrOperator[i.op], vs[1], vs[2]))
               ELSE Stops(s, "any"))
      [] i.op \in DOMAIN IrUnaryOperator ->
           Using(s, i.operands, LAMBDA vs :
               DefinesOutcome(s, i, Outcomes(UnaryResults(IrUnaryOperator[i.op], vs[1]))))
      [] i.op = "ALLOCA" -> Defines(s, i, SlotVal(i.id))
      [] i.op = "STORE" ->
           Using(s, i.operands, LAMBDA vs : [s EXCEPT !.memory = Put(@, vs[1].slot, vs[2])])
      [] i.op = "LOAD" ->
           IF IsRef(i.operands[1]) THEN Using(s, i.operands, LAMBDA vs : Loads(s, i, vs[1]))
           ELSE Stops(s, "undefined")
      [] i.op = "DROP" ->
           Using(s, i.operands, LAMBDA vs :
               [s EXCEPT !.memory = [k \in DOMAIN @ \ {vs[1].slot} |-> @[k]]])
      [] i.op = "PHI" -> Phi(s, i)
      [] i.op = "CALL" -> Using(s, i.operands, LAMBDA vs : Invokes(s, i, vs))
      [] i.op = "JUMP" -> GoesTo(s, i.operands[1].block)
      [] i.op = "BRANCH" ->
           Using(s, SubSeq(i.operands, 1, 1), LAMBDA vs :
               GoesTo(s, i.operands[IF Truth(vs[1]) THEN 2 ELSE 3].block))
      [] i.op = "RETURN" -> Using(s, i.operands, LAMBDA vs : [s EXCEPT !.sig = "return", !.value = vs[1]])
      [] OTHER -> Stops(s, "any")

RECURSIVE IrRunBlocks(_, _)

LOCAL Continues(fn, s) ==
    CASE s.sig = "next" -> Stops(s, "end")
      [] s.sig = "goto" -> IrRunBlocks(fn, [s EXCEPT !.sig = "next", !.fuel = @ - 1])
      [] OTHER -> s

IrRunBlocks(fn, s) ==
    IF s.fuel = 0 THEN Stops(s, "fuel")
    ELSE Continues(fn, FoldLeft(IrStep, s, fn.blocks[s.block].instrs))

\* What a function without parameters prints and returns, and how it ends.
IrRun(fn) ==
    LET start == [values |-> <<>>, memory |-> <<>>, block |-> Entry, before |-> 0, out |-> <<>>,
                  value |-> NilVal, fuel |-> MaxBlockRuns, sig |-> "next"]
        Ended(s) == [out |-> s.out, value |-> s.value, sig |-> s.sig]
    IN  Ended(IrRunBlocks(fn, start))
=============================================================================
