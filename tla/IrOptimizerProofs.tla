------------------------- MODULE IrOptimizerProofs --------------------------
(***************************************************************************)
(* What holds of the passes whatever the functions are, and whatever their *)
(* number and size: no operand is left to refer to what is gone.           *)
(***************************************************************************)
EXTENDS IrOptimizer, WellFoundedInduction, TLAPS

\* A set that has the first natural of an interval, and with one the next,
\* has all of the interval.
LEMMA IntervalInduction ==
    ASSUME NEW a \in Nat, NEW b \in Nat, NEW S, a \in S,
           \A n \in a..(b - 1) : n \in S => n + 1 \in S
    PROVE  a..b \subseteq S
<1> DEFINE R == OpToRel(<, Nat)
           T == (a..b) \ S
<1> SUFFICES ASSUME T # {} PROVE FALSE
  OBVIOUS
<1>1. IsWellFoundedOn(R, Nat)
  BY NatLessThanWellFounded
<1>2. \A m, n \in Nat : m < n => <<m, n>> \in R
  BY DEF OpToRel
<1>3. T \subseteq Nat
  OBVIOUS
<1> HIDE DEF R, T
<1>4. PICK n \in T : \A m \in T : ~(<<m, n>> \in R)
  BY <1>1, <1>3, WFMin
<1> USE DEF T
<1>5. n \in (a + 1)..b /\ n \notin S
  OBVIOUS
<1>6. n - 1 \in a..(b - 1) /\ n - 1 \in Nat /\ n - 1 < n /\ (n - 1) + 1 = n
  BY <1>5
<1>7. n - 1 \notin T
  <2> HIDE DEF T
  <2>1. n \in Nat
    BY <1>3
  <2> QED
    BY <1>2, <1>4, <1>6, <2>1
<1> QED
  BY <1>5, <1>6, <1>7

-----------------------------------------------------------------------------
(* Names of values, operands, instructions. *)

LEMMA Ids ==
    /\ ~InTable(NoId)
    /\ \A k : InTable(<<Entry, k>>) /\ <<Entry, k>> # NoId
    /\ \A j, k : <<Entry, j>> = <<Entry, k>> => j = k
BY DEF InTable, NoId, Entry

LEMMA Operands ==
    /\ \A n : ~IsRef(Imm(n))
    /\ \A id : IsRef(Ref(id)) /\ Ref(id).ref = id
BY DEF IsRef, Imm, Ref

LEMMA Fields ==
    ASSUME NEW op, NEW operands, NEW id
    PROVE  /\ Instr(op, operands, id).op = op
           /\ Instr(op, operands, id).operands = operands
           /\ Instr(op, operands, id).id = id
BY DEF Instr

-----------------------------------------------------------------------------
(* The ways a pass changes the instructions s of the entry block to t. *)

\* An instruction stays, or another takes its place that defines the same
\* value and refers back.
Replaced(s, t, k) ==
    \/ t[k] = s[k]
    \/ \E op, operands :
          /\ t[k] = Instr(op, operands, s[k].id)
          /\ s[k].op # "UNDEF" /\ op # "UNDEF" /\ TakesOperands(t[k])
          /\ \A o \in Range(operands) : RefersBack(s, k, o)

LEMMA ReplacedKeepsOrder ==
    ASSUME NEW S, NEW s \in Seq(S), NEW t, DOMAIN t = DOMAIN s,
           \A k \in DOMAIN s : InOrder(s, k), \A k \in DOMAIN s : Replaced(s, t, k)
    PROVE  \A k \in DOMAIN s : InOrder(t, k)
<1>1. \A k \in DOMAIN s : Lives(s, k) => Lives(t, k)
  BY Fields DEF Replaced, Lives
<1> SUFFICES ASSUME NEW k \in DOMAIN s PROVE InOrder(t, k)
  OBVIOUS
<1>2. k \in 1..Len(s) /\ 1..(k - 1) \subseteq DOMAIN s
  OBVIOUS
<1>3. ASSUME NEW o, RefersBack(s, k, o) PROVE RefersBack(t, k, o)
  BY <1>1, <1>2, <1>3 DEF RefersBack
<1>4. CASE t[k] = s[k]
  BY <1>3, <1>4 DEF InOrder
<1>5. ASSUME NEW op, NEW operands, t[k] = Instr(op, operands, s[k].id),
             s[k].op # "UNDEF", op # "UNDEF", TakesOperands(t[k]),
             \A o \in Range(operands) : RefersBack(s, k, o)
      PROVE  InOrder(t, k)
  BY <1>3, <1>5, Fields DEF InOrder
<1> QED
  BY <1>4, <1>5 DEF Replaced

\* An instruction stays, or is removed and no operand refers to its value.
Removed(s, t, k) ==
    \/ t[k] = s[k]
    \/ /\ t[k] = Instr("UNDEF", <<>>, NoId)
       /\ \A j \in DOMAIN s : \A o \in Range(s[j].operands) : IsRef(o) => o.ref # s[k].id \/ ~InTable(o.ref)

LEMMA RemovedKeepsOrder ==
    ASSUME NEW S, NEW s \in Seq(S), NEW t, DOMAIN t = DOMAIN s,
           \A k \in DOMAIN s : InOrder(s, k), \A k \in DOMAIN s : Removed(s, t, k)
    PROVE  \A k \in DOMAIN s : InOrder(t, k)
<1> SUFFICES ASSUME NEW k \in DOMAIN s PROVE InOrder(t, k)
  OBVIOUS
<1>1. CASE t[k] = s[k]
  <2>1. ASSUME NEW o \in Range(s[k].operands), RefersBack(s, k, o) PROVE RefersBack(t, k, o)
    <3> SUFFICES ASSUME IsRef(o), InTable(o.ref)
                 PROVE  \E j \in 1..(k - 1) : o = Ref(<<Entry, j>>) /\ Lives(t, j)
      BY DEF RefersBack
    <3>1. PICK j \in 1..(k - 1) : o = Ref(<<Entry, j>>) /\ Lives(s, j)
      BY <2>1 DEF RefersBack
    <3>2. j \in DOMAIN s
      OBVIOUS
    <3>3. t[j] = s[j]
      <4>1. s[j].id = o.ref /\ InTable(o.ref) /\ IsRef(o)
        BY <3>1, Operands DEF Lives
      <4> QED
        BY <3>2, <4>1 DEF Removed
    <3> QED
      BY <3>1, <3>3 DEF Lives
  <2> QED
    BY <1>1, <2>1 DEF InOrder
<1>2. CASE t[k] = Instr("UNDEF", <<>>, NoId)
  BY <1>2, Fields DEF InOrder, TakesOperands, IrOperator, IrUnaryOperator
<1> QED
  BY <1>1, <1>2 DEF Removed

-----------------------------------------------------------------------------
(* The passes. *)

\* The entry block of what a pass that goes over the instructions leaves.
Over(fn, after, t) ==
    /\ "blocks" \in DOMAIN after /\ Entry \in DOMAIN after.blocks
    /\ "instrs" \in DOMAIN after.blocks[Entry]
    /\ EntryInstrs(after) = [k \in DOMAIN EntryInstrs(fn) |-> t[k]]

LEMMA OverKeepsOrder ==
    ASSUME NEW fn, FunctionInOrder(fn), NEW after, NEW t, Over(fn, after, t),
           DOMAIN t = DOMAIN EntryInstrs(fn), \A k \in DOMAIN EntryInstrs(fn) : InOrder(t, k)
    PROVE  FunctionInOrder(after)
<1> DEFINE s == EntryInstrs(fn)
           u == EntryInstrs(after)
<1>1. s \in Seq(Range(s)) /\ DOMAIN s = 1..Len(s)
  BY DEF FunctionInOrder, HasEntry
<1>2. DOMAIN u = 1..Len(s) /\ \A k \in DOMAIN s : u[k] = t[k]
  BY <1>1 DEF Over
<1>3. u \in Seq(Range(u))
  BY <1>1, <1>2 DEF Over, Range
<1>4. ASSUME NEW k \in DOMAIN s PROVE InOrder(u, k)
  <2>1. 1..(k - 1) \subseteq DOMAIN s
    BY <1>1
  <2>2. \A o : RefersBack(t, k, o) => RefersBack(u, k, o)
    BY <1>2, <2>1 DEF RefersBack, Lives
  <2> QED
    BY <1>2, <2>2 DEF InOrder
<1> QED
  BY <1>2, <1>3, <1>4 DEF FunctionInOrder, HasEntry, Over

LEMMA EntryOf ==
    ASSUME NEW fn, FunctionInOrder(fn)
    PROVE  /\ EntryInstrs(fn) \in Seq(Range(EntryInstrs(fn)))
           /\ \A k \in DOMAIN EntryInstrs(fn) : InOrder(EntryInstrs(fn), k)
BY DEF FunctionInOrder, HasEntry

LEMMA Constants ==
    ASSUME NEW instr, NEW op, NEW n, op \in {"CONST_INT", "CONST_BOOL"}
    PROVE  LET i == MakeConst(instr, op, n)
           IN  /\ i = Instr(op, <<Imm(n)>>, instr.id) /\ op # "UNDEF" /\ TakesOperands(i)
               /\ \A s, k : \A o \in Range(<<Imm(n)>>) : RefersBack(s, k, o)
<1>1. \A o \in Range(<<Imm(n)>>) : ~IsRef(o)
  BY Operands DEF Range
<1>2. op \notin DOMAIN IrOperator /\ op # "MOVE" /\ op # "UNDEF"
  BY DEF IrOperator
<1> QED
  BY <1>1, <1>2, Fields DEF MakeConst, TakesOperands, RefersBack, IrUnaryOperator

LEMMA FoldedBinary ==
    ASSUME NEW instr, NEW op, NEW a, NEW b
    PROVE  \/ FoldBinary(instr, op, a, b) = instr
           \/ \E c \in {"CONST_INT", "CONST_BOOL"} : \E n : FoldBinary(instr, op, a, b) = MakeConst(instr, c, n)
BY DEF FoldBinary

LEMMA FoldedUnary ==
    ASSUME NEW instr, NEW n, instr.op \in {"NEG", "NOT", "BIT_NOT"}
    PROVE  \E c \in {"CONST_INT", "CONST_BOOL"} : \E m : FoldUnary(instr, n) = MakeConst(instr, c, m)
BY DEF FoldUnary

LEMMA ConstFoldKeepsOrder ==
    ASSUME NEW fn, FunctionInOrder(fn)
    PROVE  FunctionInOrder(ConstFold(fn))
<1> DEFINE s == EntryInstrs(fn)
           t == EntryInstrs(ConstFold(fn))
<1>1. Over(fn, ConstFold(fn), t) /\ DOMAIN t = DOMAIN s
  BY DEF FunctionInOrder, HasEntry, ForEachInstr, ConstFold, Over, EntryInstrs
<1>2. ASSUME NEW k \in DOMAIN s PROVE Replaced(s, t, k)
  <2>1. \/ t[k] = s[k]
        \/ s[k].op \in DOMAIN IrOperator /\ \E op, a, b : t[k] = FoldBinary(s[k], op, a, b)
        \/ s[k].op \in {"NEG", "NOT", "BIT_NOT"} /\ \E n : t[k] = FoldUnary(s[k], n)
    BY DEF FunctionInOrder, HasEntry, ForEachInstr, ConstFold, EntryInstrs
  <2>2. \/ t[k] = s[k]
        \/ s[k].op # "UNDEF" /\ \E c \in {"CONST_INT", "CONST_BOOL"} : \E n : t[k] = MakeConst(s[k], c, n)
    BY <2>1, FoldedBinary, FoldedUnary DEF IrOperator
  <2>3. ASSUME NEW c \in {"CONST_INT", "CONST_BOOL"}, NEW n, t[k] = MakeConst(s[k], c, n), s[k].op # "UNDEF"
        PROVE  Replaced(s, t, k)
    <3> HIDE DEF s, t
    <3>1. t[k] = Instr(c, <<Imm(n)>>, s[k].id) /\ c # "UNDEF" /\ TakesOperands(t[k])
      BY <2>3, Constants
    <3>2. \A o \in Range(<<Imm(n)>>) : RefersBack(s, k, o)
      BY Constants
    <3> QED
      BY <2>3, <3>1, <3>2 DEF Replaced
  <2> QED
    BY <2>2, <2>3 DEF Replaced
<1> HIDE DEF s, t
<1>3. \A k \in DOMAIN s : InOrder(t, k)
  BY <1>1, <1>2, EntryOf, ReplacedKeepsOrder DEF s
<1> QED
  BY <1>1, <1>3, OverKeepsOrder DEF s, t

LEMMA RemoveUnusedKeepsOrder ==
    ASSUME NEW fn, FunctionInOrder(fn)
    PROVE  FunctionInOrder(RemoveUnused(fn))
<1> DEFINE s == EntryInstrs(fn)
           t == EntryInstrs(RemoveUnused(fn))
<1>1. Over(fn, RemoveUnused(fn), t) /\ DOMAIN t = DOMAIN s
  BY DEF FunctionInOrder, HasEntry, ForEachInstr, RemoveUnused, Over, EntryInstrs
<1>2. ASSUME NEW j \in DOMAIN s, NEW o \in Range(s[j].operands), IsRef(o), InTable(o.ref)
      PROVE  o.ref \in Used(fn)
  <2>1. fn.blocks[Entry] \in Range(fn.blocks) /\ s[j] \in Range(fn.blocks[Entry].instrs)
    BY DEF FunctionInOrder, HasEntry, EntryInstrs, Range
  <2>2. o \in OperandsOf(fn)
    BY <2>1, <1>2 DEF OperandsOf
  <2> QED
    BY <1>2, <2>2 DEF Used
<1>3. ASSUME NEW k \in DOMAIN s PROVE Removed(s, t, k)
  <2>1. \/ t[k] = s[k]
        \/ t[k] = Instr("UNDEF", <<>>, NoId) /\ s[k].id \notin Used(fn)
    BY DEF FunctionInOrder, HasEntry, ForEachInstr, RemoveUnused, EntryInstrs
  <2> QED
    BY <1>2, <2>1 DEF Removed
<1> HIDE DEF s, t
<1>4. \A k \in DOMAIN s : InOrder(t, k)
  BY <1>1, <1>3, EntryOf, RemovedKeepsOrder DEF s
<1> QED
  BY <1>1, <1>4, OverKeepsOrder DEF s, t

LEMMA DceKeepsOrder ==
    ASSUME NEW fn, FunctionInOrder(fn)
    PROVE  FunctionInOrder(Dce(fn))
<1> PICK rest : rest = RemoveUnused(fn)
  OBVIOUS
<1>1. FunctionInOrder(rest)
  BY RemoveUnusedKeepsOrder
<1>2. HasEntry(ClearUnreached(rest)) /\ EntryInstrs(ClearUnreached(rest)) = EntryInstrs(rest)
  BY <1>1 DEF FunctionInOrder, HasEntry, ClearUnreached, EntryInstrs
<1> QED
  BY <1>1, <1>2 DEF FunctionInOrder, Dce

LEMMA DeduplicatedBy ==
    ASSUME NEW S, NEW s \in Seq(S), NEW k \in DOMAIN s
    PROVE  \/ Deduplicated(s, k) = s[k]
           \/ \E j \in 1..(k - 1) : SameWork(s[j], s[k]) /\ Deduplicated(s, k) = MakeMove(s[k], Ref(s[j].id))
<1> DEFINE I == {i \in 1..(k - 1) : SameWork(s[i], s[k])}
           earlier == IF I # {} THEN Min(I) ELSE 0
<1>1. Deduplicated(s, k) = IF earlier = 0 THEN s[k] ELSE MakeMove(s[k], Ref(s[earlier].id))
  BY DEF Deduplicated, SelectInSubSeq
<1>2. CASE I = {}
  BY <1>1, <1>2
<1>3. CASE I # {}
  <2> DEFINE R == OpToRel(<, Nat)
  <2>1. IsWellFoundedOn(R, Nat)
    BY NatLessThanWellFounded
  <2>2. \A m, n \in Nat : m < n => <<m, n>> \in R
    BY DEF OpToRel
  <2>3. I \subseteq Nat
    OBVIOUS
  <2> HIDE DEF R, I
  <2>4. PICK n \in I : \A m \in I : ~(<<m, n>> \in R)
    BY <1>3, <2>1, <2>3, WFMin
  <2>5. ASSUME NEW m \in I PROVE n <= m
    <3>1. m \in Nat /\ n \in Nat /\ ~(m < n)
      BY <2>2, <2>3, <2>4
    <3> QED
      BY <3>1
  <2>6. Min(I) \in I
    BY <2>5 DEF Min
  <2> USE DEF I
  <2>7. Min(I) # 0
    BY <2>6
  <2> QED
    BY <1>1, <1>3, <2>6, <2>7
<1> QED
  BY <1>2, <1>3

LEMMA CseKeepsOrder ==
    ASSUME NEW fn, FunctionInOrder(fn)
    PROVE  FunctionInOrder(Cse(fn))
<1> DEFINE s == EntryInstrs(fn)
           t == EntryInstrs(Cse(fn))
<1>1. Over(fn, Cse(fn), t) /\ DOMAIN t = DOMAIN s
  BY DEF FunctionInOrder, HasEntry, Cse, Over, EntryInstrs
<1>2. \A k \in DOMAIN s : t[k] = Deduplicated(s, k)
  BY DEF FunctionInOrder, HasEntry, Cse, EntryInstrs
<1> HIDE DEF s, t
<1>3. s \in Seq(Range(s)) /\ DOMAIN s = 1..Len(s) /\ \A k \in DOMAIN s : InOrder(s, k)
  BY EntryOf DEF s
<1>4. ASSUME NEW k \in DOMAIN s PROVE Replaced(s, t, k)
  <2>1. ASSUME NEW j \in 1..(k - 1), SameWork(s[j], s[k]), t[k] = MakeMove(s[k], Ref(s[j].id))
        PROVE  Replaced(s, t, k)
    <3>1. j \in DOMAIN s
      BY <1>3
    <3>2. Lives(s, j) /\ s[k].op # "UNDEF"
      BY <1>3, <2>1, <3>1 DEF SameWork, Lives, InOrder
    <3>3. t[k] = Instr("MOVE", <<Ref(s[j].id)>>, s[k].id)
      BY <2>1 DEF MakeMove
    <3>4. TakesOperands(t[k])
      BY <3>3, Fields DEF TakesOperands, IrOperator, IrUnaryOperator
    <3>5. ASSUME NEW o \in Range(<<Ref(s[j].id)>>) PROVE RefersBack(s, k, o)
      BY <3>2, Operands DEF Range, RefersBack, Lives
    <3> QED
      BY <3>2, <3>3, <3>4, <3>5 DEF Replaced
  <2> QED
    BY <1>2, <1>3, <2>1, DeduplicatedBy DEF Replaced
<1>5. \A k \in DOMAIN s : InOrder(t, k)
  BY <1>1, <1>3, <1>4, ReplacedKeepsOrder
<1> QED
  BY <1>1, <1>5, OverKeepsOrder DEF s, t

ShiftOf(n) == CASE n = 2 -> 1 [] n = 4 -> 2 [] n = 8 -> 3

(***************************************************************************)
(* Strength reduction takes the operand that stays for a reference.  So it *)
(* is, since constant folding has been there before: two numbers are       *)
(* together in a division by zero only.                                    *)
(***************************************************************************)
Folded(i) ==
    LET x == i.operands[1]
        y == i.operands[2]
    IN  i.op \in DOMAIN IrOperator /\ IsNumber(x) /\ IsNumber(y) => i.op \in {"DIV", "REM"} /\ y.imm = 0

AllFolded(fn) == \A k \in DOMAIN EntryInstrs(fn) : Folded(EntryInstrs(fn)[k])

LEMMA ReducedTo ==
    ASSUME NEW i, Folded(i), i.op \in DOMAIN IrOperator
    PROVE  LET x == i.operands[1]
               y == i.operands[2]
           IN  \/ Reduce(i) = i
               \/ i.op \in {"ADD", "SUB"} /\ y = Imm(0) /\ Reduce(i) = MakeMove(i, x)
               \/ i.op = "ADD" /\ x = Imm(0) /\ Reduce(i) = MakeMove(i, y)
               \/ i.op = "MUL" /\ y = Imm(0) /\ Reduce(i) = MakeConst(i, "CONST_INT", 0)
               \/ i.op \in {"MUL", "DIV"} /\ y = Imm(1) /\ Reduce(i) = MakeMove(i, x)
               \/ /\ i.op = "MUL"
                  /\ \E n \in {2, 4, 8} : y = Imm(n) /\ Reduce(i) = Instr("SHL", <<x, Imm(ShiftOf(n))>>, i.id)
<1> DEFINE x == i.operands[1]
           y == i.operands[2]
           right(n) == y = Imm(n)
           shift == [n \in {2, 4, 8} |-> CASE n = 2 -> 1 [] n = 4 -> 2 [] n = 8 -> 3]
           sh == shift[y.imm]
           power == \E n \in DOMAIN shift : right(n)
<1>1. Reduce(i) =
        CASE i.op \in {"ADD", "SUB"} /\ right(0) -> MakeCopy(i, x)
          [] i.op = "ADD" /\ x = Imm(0) /\ ~right(0) -> MakeCopy(i, y)
          [] i.op = "MUL" /\ right(0) -> MakeConst(i, "CONST_INT", 0)
          [] i.op \in {"MUL", "DIV"} /\ right(1) -> MakeCopy(i, x)
          [] i.op = "MUL" /\ power -> Instr("SHL", <<x, Imm(sh)>>, i.id)
          [] OTHER -> i
  BY DEF Reduce
<1>2. power => \E n \in {2, 4, 8} : right(n) /\ sh = ShiftOf(n)
  BY DEF ShiftOf, Imm
<1>4. \A n : right(n) => IsNumber(y) /\ y.imm = n
  BY DEF IsNumber, Imm
<1>5. x = Imm(0) => IsNumber(x)
  BY DEF IsNumber, Imm
<1>6. i.op \in {"ADD", "SUB", "MUL"} \/ right(1) => ~(IsNumber(x) /\ IsNumber(y))
  BY <1>4 DEF Folded
<1>7. \A o : ~IsNumber(o) => MakeCopy(i, o) = MakeMove(i, o)
  BY DEF MakeCopy, Referred
<1> HIDE DEF x, y, right, shift, sh, power
<1>3. \/ Reduce(i) = i
      \/ i.op \in {"ADD", "SUB"} /\ right(0) /\ Reduce(i) = MakeCopy(i, x)
      \/ i.op = "ADD" /\ x = Imm(0) /\ Reduce(i) = MakeCopy(i, y)
      \/ i.op = "MUL" /\ right(0) /\ Reduce(i) = MakeConst(i, "CONST_INT", 0)
      \/ i.op \in {"MUL", "DIV"} /\ right(1) /\ Reduce(i) = MakeCopy(i, x)
      \/ i.op = "MUL" /\ power /\ Reduce(i) = Instr("SHL", <<x, Imm(sh)>>, i.id)
  BY <1>1
<1>8. /\ i.op \in {"ADD", "SUB"} /\ right(0) => MakeCopy(i, x) = MakeMove(i, x)
      /\ i.op = "ADD" /\ x = Imm(0) => MakeCopy(i, y) = MakeMove(i, y)
      /\ right(1) => MakeCopy(i, x) = MakeMove(i, x)
  BY <1>4, <1>5, <1>6, <1>7
<1> QED
  BY <1>2, <1>3, <1>8 DEF right, x, y

LEMMA StrengthReduceKeepsOrder ==
    ASSUME NEW fn, FunctionInOrder(fn), AllFolded(fn)
    PROVE  FunctionInOrder(StrengthReduce(fn))
<1> DEFINE s == EntryInstrs(fn)
           t == EntryInstrs(StrengthReduce(fn))
<1>1. Over(fn, StrengthReduce(fn), t) /\ DOMAIN t = DOMAIN s
  BY DEF FunctionInOrder, HasEntry, ForEachInstr, StrengthReduce, Over, EntryInstrs
<1>2. \A k \in DOMAIN s : t[k] = IF s[k].op \in DOMAIN IrOperator THEN Reduce(s[k]) ELSE s[k]
  BY DEF FunctionInOrder, HasEntry, ForEachInstr, StrengthReduce, EntryInstrs
<1> HIDE DEF s, t
<1>3. s \in Seq(Range(s)) /\ \A k \in DOMAIN s : InOrder(s, k)
  BY EntryOf DEF s
<1>4. ASSUME NEW k \in DOMAIN s PROVE Replaced(s, t, k)
  <2>1. CASE s[k].op \notin DOMAIN IrOperator
    BY <1>2, <2>1 DEF Replaced
  <2>2. CASE s[k].op \in DOMAIN IrOperator
    <3>1. /\ s[k].op # "UNDEF" /\ t[k] = Reduce(s[k])
          /\ \A p \in {1, 2} : RefersBack(s, k, s[k].operands[p])
      <4>1. s[k].op # "UNDEF" /\ t[k] = Reduce(s[k])
        BY <1>2, <2>2 DEF IrOperator
      <4>2. DOMAIN s[k].operands = {1, 2}
        BY <1>3, <2>2 DEF InOrder, TakesOperands
      <4>3. \A p \in {1, 2} : s[k].operands[p] \in Range(s[k].operands)
        BY <4>2 DEF Range
      <4> QED
        BY <1>3, <4>1, <4>3 DEF InOrder
    <3>2. CASE Reduce(s[k]) = s[k]
      BY <3>1, <3>2 DEF Replaced
    <3>3. CASE Reduce(s[k]) = MakeConst(s[k], "CONST_INT", 0)
      <4>1. /\ t[k] = Instr("CONST_INT", <<Imm(0)>>, s[k].id) /\ TakesOperands(t[k])
            /\ \A o \in Range(<<Imm(0)>>) : RefersBack(s, k, o)
        BY <3>1, <3>3, Constants
      <4> QED
        BY <3>1, <4>1 DEF Replaced
    <3>4. ASSUME NEW p \in {1, 2}, Reduce(s[k]) = MakeMove(s[k], s[k].operands[p])
          PROVE  Replaced(s, t, k)
      <4>1. t[k] = Instr("MOVE", <<s[k].operands[p]>>, s[k].id)
        BY <3>1, <3>4 DEF MakeMove
      <4>2. TakesOperands(t[k])
        BY <4>1, Fields DEF TakesOperands, IrOperator, IrUnaryOperator
      <4>3. \A o \in Range(<<s[k].operands[p]>>) : RefersBack(s, k, o)
        BY <3>1 DEF Range
      <4> QED
        BY <3>1, <4>1, <4>2, <4>3 DEF Replaced
    <3>5. ASSUME NEW n, Reduce(s[k]) = Instr("SHL", <<s[k].operands[1], Imm(n)>>, s[k].id)
          PROVE  Replaced(s, t, k)
      <4>1. t[k] = Instr("SHL", <<s[k].operands[1], Imm(n)>>, s[k].id)
        BY <3>1, <3>5
      <4>2. TakesOperands(t[k])
        BY <4>1, Fields DEF TakesOperands, IrUnaryOperator
      <4>3. ASSUME NEW o \in Range(<<s[k].operands[1], Imm(n)>>) PROVE RefersBack(s, k, o)
        <5>1. o = s[k].operands[1] \/ o = Imm(n)
          BY DEF Range
        <5>2. RefersBack(s, k, Imm(n))
          BY Operands DEF RefersBack
        <5> QED
          BY <3>1, <5>1, <5>2
      <4> QED
        BY <3>1, <4>1, <4>2, <4>3 DEF Replaced
    <3>6. Folded(s[k])
      BY DEF AllFolded, s
    <3> QED
      BY <2>2, <3>2, <3>3, <3>4, <3>5, <3>6, ReducedTo
  <2> QED
    BY <2>1, <2>2
<1>5. \A k \in DOMAIN s : InOrder(t, k)
  BY <1>1, <1>3, <1>4, ReplacedKeepsOrder
<1> QED
  BY <1>1, <1>5, OverKeepsOrder DEF s, t

-----------------------------------------------------------------------------
(* The renaming of copies. *)

\* An instruction that is a copy, of an earlier value.
LEMMA CopyRefersBack ==
    ASSUME NEW s, NEW k, InOrder(s, k), IsCopy(s[k])
    PROVE  /\ s[k].id = <<Entry, k>> /\ s[k].op # "UNDEF"
           /\ \E j \in 1..(k - 1) : s[k].operands[1].ref = <<Entry, j>> /\ Lives(s, j)
<1>1. s[k].op = "MOVE" /\ IsRef(s[k].operands[1]) /\ InTable(s[k].operands[1].ref) /\ InTable(s[k].id)
  BY DEF IsCopy
<1>2. s[k].id = <<Entry, k>> /\ s[k].op # "UNDEF"
  BY <1>1, Ids DEF InOrder
<1>3. s[k].operands[1] \in Range(s[k].operands)
  BY <1>1 DEF InOrder, TakesOperands, Range, IrUnaryOperator
<1> QED
  BY <1>1, <1>2, <1>3, Operands DEF InOrder, RefersBack

Places(s) == {<<Entry, j>> : j \in DOMAIN s}

\* The map when the first n instructions have been looked at: a value is
\* renamed to itself or an earlier one, and one of these n that is there to
\* one that is there and is no copy; the later ones not at all.
Renames(s, n, r) ==
    /\ r \in [Places(s) -> Places(s)]
    /\ \A k \in DOMAIN s : \E j \in 1..k : r[<<Entry, k>>] = <<Entry, j>>
    /\ \A k \in DOMAIN s : k > n => r[<<Entry, k>>] = <<Entry, k>>
    /\ \A k \in 1..n : Lives(s, k) =>
          \E j \in 1..k : r[<<Entry, k>>] = <<Entry, j>> /\ Lives(s, j) /\ ~IsCopy(s[j])

LEMMA CopiedRenames ==
    ASSUME NEW S, NEW s \in Seq(S), \A k \in DOMAIN s : InOrder(s, k),
           NEW n \in 1..Len(s), NEW r, Renames(s, n - 1, r)
    PROVE  Renames(s, n, Copied(r, s[n]))
<1> DEFINE q == Copied(r, s[n])
<1>1. DOMAIN s = 1..Len(s) /\ Len(s) \in Nat
  OBVIOUS
<1>2. CASE ~IsCopy(s[n])
  <2>1. q = r
    BY <1>2 DEF Copied
  <2>2. r[<<Entry, n>>] = <<Entry, n>>
    BY <1>1 DEF Renames
  <2>3. ASSUME NEW k \in 1..n, Lives(s, k)
        PROVE  \E j \in 1..k : r[<<Entry, k>>] = <<Entry, j>> /\ Lives(s, j) /\ ~IsCopy(s[j])
    <3>1. CASE k = n
      BY <1>2, <2>2, <2>3, <3>1
    <3>2. CASE k # n
      BY <2>3, <3>2 DEF Renames
    <3> QED
      BY <3>1, <3>2
  <2> QED
    BY <1>1, <2>1, <2>3 DEF Renames
<1>3. CASE IsCopy(s[n])
  <2>1. PICK p \in 1..(n - 1) : s[n].operands[1].ref = <<Entry, p>> /\ Lives(s, p)
    BY <1>1, <1>3, CopyRefersBack
  <2>2. s[n].id = <<Entry, n>>
    BY <1>1, <1>3, CopyRefersBack
  <2>3. PICK j \in 1..p : r[<<Entry, p>>] = <<Entry, j>> /\ Lives(s, j) /\ ~IsCopy(s[j])
    BY <2>1 DEF Renames
  <2>4. q = [r EXCEPT ![<<Entry, n>>] = <<Entry, j>>]
    BY <1>3, <2>1, <2>2, <2>3 DEF Copied
  <2>5. r \in [Places(s) -> Places(s)] /\ <<Entry, n>> \in Places(s) /\ <<Entry, j>> \in Places(s)
    BY <1>1 DEF Renames, Places
  <2>6. q \in [Places(s) -> Places(s)] /\ q[<<Entry, n>>] = <<Entry, j>>
    BY <2>4, <2>5
  <2>7. ASSUME NEW k \in DOMAIN s, k # n PROVE q[<<Entry, k>>] = r[<<Entry, k>>]
    <3>1. <<Entry, k>> # <<Entry, n>> /\ <<Entry, k>> \in Places(s)
      BY <2>7 DEF Places
    <3> QED
      BY <2>4, <2>5, <3>1
  <2> HIDE DEF q
  <2>8. ASSUME NEW k \in DOMAIN s PROVE \E i \in 1..k : q[<<Entry, k>>] = <<Entry, i>>
    <3>1. CASE k = n
      BY <2>6, <3>1
    <3>2. CASE k # n
      BY <2>7, <3>2 DEF Renames
    <3> QED
      BY <3>1, <3>2
  <2>9. ASSUME NEW k \in 1..n, Lives(s, k)
        PROVE  \E i \in 1..k : q[<<Entry, k>>] = <<Entry, i>> /\ Lives(s, i) /\ ~IsCopy(s[i])
    <3>1. CASE k = n
      <4>1. j \in 1..n
        OBVIOUS
      <4> QED
        BY <2>3, <2>6, <3>1, <4>1
    <3>2. CASE k # n
      <4>1. k \in DOMAIN s /\ k \in 1..(n - 1)
        BY <1>1, <3>2
      <4> QED
        BY <2>7, <2>9, <3>2, <4>1 DEF Renames
    <3> QED
      BY <3>1, <3>2
  <2>10. \A k \in DOMAIN s : k > n => q[<<Entry, k>>] = <<Entry, k>>
    BY <1>1, <2>7 DEF Renames
  <2>11. Renames(s, n, q)
    BY <2>6, <2>8, <2>9, <2>10 DEF Renames
  <2> QED
    BY <2>11 DEF q
<1> QED
  BY <1>2, <1>3

\* The maps behind each number of instructions.
FirstMap(s) == [id \in Places(s) |-> id]
Maps(s, r) == r = [k \in 0..Len(s) |-> IF k = 0 THEN FirstMap(s) ELSE Copied(r[k - 1], s[k])]

LEMMA MapsExist ==
    ASSUME NEW S, NEW s \in Seq(S)
    PROVE  \E r : Maps(s, r)
<1> DEFINE Upto(r, n) == r[0] = FirstMap(s) /\ \A k \in 1..n : r[k] = Copied(r[k - 1], s[k])
           T == {n \in 0..Len(s) : \E r : Upto(r, n)}
<1>1. 0 \in T
  <2> DEFINE r == [k \in {0} |-> FirstMap(s)]
  <2>1. Upto(r, 0) /\ 0 \in 0..Len(s)
    OBVIOUS
  <2> HIDE DEF r
  <2> QED
    BY <2>1
<1>2. ASSUME NEW n \in 0..(Len(s) - 1), n \in T PROVE n + 1 \in T
  <2>1. PICK r : Upto(r, n)
    BY <1>2
  <2> DEFINE q == [k \in 0..(n + 1) |-> IF k = n + 1 THEN Copied(r[n], s[n + 1]) ELSE r[k]]
  <2>2. \A k \in 0..n : q[k] = r[k]
    OBVIOUS
  <2>3. q[n + 1] = Copied(q[n], s[n + 1])
    BY <2>2
  <2> HIDE DEF q
  <2>4. q[0] = FirstMap(s)
    BY <2>1, <2>2
  <2>5. ASSUME NEW k \in 1..(n + 1) PROVE q[k] = Copied(q[k - 1], s[k])
    <3>1. CASE k = n + 1
      BY <2>3, <3>1
    <3>2. CASE k # n + 1
      <4>1. k \in 1..n /\ k - 1 \in 0..n
        BY <3>2
      <4> QED
        BY <2>1, <2>2, <4>1
    <3> QED
      BY <3>1, <3>2
  <2>6. Upto(q, n + 1)
    BY <2>4, <2>5
  <2> QED
    BY <2>6
<1> HIDE DEF T
<1>3. 0..Len(s) \subseteq T
  <2>1. Len(s) \in Nat /\ 0 \in Nat
    OBVIOUS
  <2> QED
    BY <1>1, <1>2, <2>1, IntervalInduction
<1>4. PICK r : Upto(r, Len(s))
  BY <1>3 DEF T
<1> DEFINE q == [k \in 0..Len(s) |-> r[k]]
<1>5. \A k \in 0..Len(s) : q[k] = r[k]
  OBVIOUS
<1>6. \A k \in 0..Len(s) : q[k] = IF k = 0 THEN FirstMap(s) ELSE Copied(q[k - 1], s[k])
  BY <1>4, <1>5
<1>7. q = [k \in 0..Len(s) |-> q[k]]
  OBVIOUS
<1> HIDE DEF q
<1>8. Maps(s, q)
  BY <1>6, <1>7 DEF Maps
<1> QED
  BY <1>8

LEMMA MapsRename ==
    ASSUME NEW S, NEW s \in Seq(S), \A k \in DOMAIN s : InOrder(s, k), NEW r, Maps(s, r)
    PROVE  \A n \in 0..Len(s) : Renames(s, n, r[n])
<1> DEFINE T == {n \in 0..Len(s) : Renames(s, n, r[n])}
<1>2. \A k \in DOMAIN s : InOrder(s, k)
  OBVIOUS
<1>4. r[0] = FirstMap(s) /\ \A k \in 1..Len(s) : r[k] = Copied(r[k - 1], s[k])
  BY DEF Maps
<1>5. Renames(s, 0, FirstMap(s))
  <2>1. \A k \in DOMAIN s : FirstMap(s)[<<Entry, k>>] = <<Entry, k>>
    BY DEF FirstMap, Places
  <2> QED
    BY <1>2, <2>1 DEF Renames, FirstMap
<1>6. 0 \in T
  BY <1>2, <1>4, <1>5
<1>7. ASSUME NEW n \in 0..(Len(s) - 1), n \in T PROVE n + 1 \in T
  <2>1. n + 1 \in 1..Len(s) /\ (n + 1) - 1 = n
    BY <1>2
  <2>2. Renames(s, n + 1, Copied(r[n], s[n + 1]))
    BY <1>2, <1>7, <2>1, CopiedRenames
  <2> QED
    BY <1>4, <2>1, <2>2
<1> HIDE DEF T
<1>8. 0..Len(s) \subseteq T
  <2>1. Len(s) \in Nat /\ 0 \in Nat
    BY <1>2
  <2> QED
    BY <1>6, <1>7, <2>1, IntervalInduction
<1> QED
  BY <1>8 DEF T

\* The renaming is the last of the maps.
LEMMA RenamingIs ==
    ASSUME NEW fn, FunctionInOrder(fn)
    PROVE  \E r : Maps(EntryInstrs(fn), r) /\ Renaming(fn) = r[Len(EntryInstrs(fn))]
<1> DEFINE s == EntryInstrs(fn)
           r == CHOOSE r : Maps(s, r)
<1>1. Renaming(fn) = r[Len(s)]
  BY DEF Renaming, Maps, FirstMap, Places, EntryInstrs
<1> HIDE DEF s, r
<1>2. s \in Seq(Range(s))
  BY EntryOf DEF s
<1>3. Maps(s, r)
  BY <1>2, MapsExist DEF r
<1> QED
  BY <1>1, <1>3 DEF s

LEMMA RenamingRenames ==
    ASSUME NEW fn, FunctionInOrder(fn)
    PROVE  Renames(EntryInstrs(fn), Len(EntryInstrs(fn)), Renaming(fn))
<1> PICK s : s = EntryInstrs(fn)
  OBVIOUS
<1>1. s \in Seq(Range(s)) /\ \A k \in DOMAIN s : InOrder(s, k)
  BY EntryOf
<1>2. PICK r : Maps(s, r) /\ Renaming(fn) = r[Len(s)]
  BY RenamingIs
<1>3. Len(s) \in 0..Len(s)
  BY <1>1
<1> QED
  BY <1>1, <1>2, <1>3, MapsRename

LEMMA CopyPropKeepsOrder ==
    ASSUME NEW fn, FunctionInOrder(fn)
    PROVE  FunctionInOrder(CopyProp(fn))
<1> DEFINE s == EntryInstrs(fn)
           t == EntryInstrs(CopyProp(fn))
<1> PICK r : r = Renaming(fn)
  OBVIOUS
<1> DEFINE Operand(k) == [p \in DOMAIN s[k].operands |-> Renamed(r, s[k].operands[p])]
<1>1. Over(fn, CopyProp(fn), t) /\ DOMAIN t = DOMAIN s
  BY DEF FunctionInOrder, HasEntry, ForEachInstr, CopyProp, RenameAll, Over, EntryInstrs
<1>2. \A k \in DOMAIN s :
          t[k] = Instr(IF IsCopy(s[k]) THEN "UNDEF" ELSE s[k].op, Operand(k), s[k].id)
  BY DEF FunctionInOrder, HasEntry, ForEachInstr, CopyProp, RenameAll, EntryInstrs
<1>3. Renames(s, Len(s), r)
  BY RenamingRenames
<1> HIDE DEF s, t
<1>4. /\ s \in Seq(Range(s)) /\ DOMAIN s = 1..Len(s)
      /\ \A k \in DOMAIN s : InOrder(s, k)
  BY EntryOf DEF s
<1>5. ASSUME NEW k \in DOMAIN s, Lives(s, k), ~IsCopy(s[k]) PROVE Lives(t, k)
  <2>1. t[k] = Instr(s[k].op, Operand(k), s[k].id)
    BY <1>2, <1>5
  <2> HIDE DEF Operand
  <2> QED
    BY <1>5, <2>1, Fields DEF Lives
<1>6. ASSUME NEW k \in DOMAIN s, NEW o, RefersBack(s, k, o) PROVE RefersBack(t, k, Renamed(r, o))
  <2>1. CASE ~(IsRef(o) /\ InTable(o.ref))
    BY <2>1 DEF Renamed, RefersBack
  <2>2. CASE IsRef(o) /\ InTable(o.ref)
    <3>1. PICK j \in 1..(k - 1) : o.ref = <<Entry, j>> /\ Lives(s, j)
      BY <1>6, <2>2, Operands DEF RefersBack
    <3>2. j \in 1..Len(s)
      BY <1>4
    <3>3. PICK i \in 1..j : r[<<Entry, j>>] = <<Entry, i>> /\ Lives(s, i) /\ ~IsCopy(s[i])
      BY <1>3, <3>1, <3>2 DEF Renames
    <3>4. Renamed(r, o) = Ref(<<Entry, i>>)
      BY <2>2, <3>1, <3>3 DEF Renamed
    <3>5. i \in 1..(k - 1) /\ i \in DOMAIN s
      BY <1>4, <3>2
    <3>6. Lives(t, i)
      BY <1>5, <3>3, <3>5
    <3> QED
      BY <3>4, <3>5, <3>6, Operands DEF RefersBack
  <2> QED
    BY <2>1, <2>2
<1>7. ASSUME NEW k \in DOMAIN s PROVE InOrder(t, k)
  <2>1. DOMAIN Operand(k) = DOMAIN s[k].operands
    OBVIOUS
  <2>2. ASSUME s[k].op # "UNDEF", NEW o \in Range(Operand(k)) PROVE RefersBack(t, k, o)
    <3>1. PICK p \in DOMAIN s[k].operands : o = Renamed(r, s[k].operands[p])
      BY DEF Range
    <3>2. RefersBack(s, k, s[k].operands[p])
      BY <1>4, <2>2 DEF InOrder, Range
    <3> QED
      BY <1>6, <3>1, <3>2
  <2>3. /\ t[k].id = s[k].id /\ t[k].operands = Operand(k)
        /\ t[k].op = s[k].op \/ t[k].op = "UNDEF"
        /\ t[k] = Instr(t[k].op, t[k].operands, t[k].id)
    BY <1>2, Fields
  <2> HIDE DEF Operand
  <2>4. TakesOperands(t[k])
    BY <1>4, <2>1, <2>3 DEF InOrder, TakesOperands, IrOperator, IrUnaryOperator
  <2> QED
    BY <1>4, <2>2, <2>3, <2>4 DEF InOrder
<1> QED
  BY <1>1, <1>7, OverKeepsOrder DEF s, t

-----------------------------------------------------------------------------
(***************************************************************************)
(* Constant folding leaves no other operation on two numbers than a        *)
(* division by zero, and none of the passes behind it makes one.           *)
(***************************************************************************)
LEMMA FoldedBinaries ==
    ASSUME NEW i, i.op \in DOMAIN IrOperator, NEW a, NEW b, b = i.operands[2].imm
    PROVE  Folded(FoldBinary(i, IrOperator[i.op], a, b))
<1> PICK op : op = IrOperator[i.op]
  OBVIOUS
<1> PICK j : j = FoldBinary(i, op, a, b)
  OBVIOUS
<1>1. CASE op \in {"/", "%"} /\ b = 0
  <2>1. i.op \in {"DIV", "REM"}
    BY <1>1 DEF IrOperator
  <2>2. FoldBinary(i, op, a, b) = i
    BY <1>1 DEF FoldBinary, CompareOp, BitOps
  <2>3. Folded(i)
    BY <1>1, <2>1 DEF Folded
  <2> QED
    BY <2>2, <2>3
<1>2. CASE ~(op \in {"/", "%"} /\ b = 0)
  <2>1. \E c \in {"CONST_INT", "CONST_BOOL"} : \E n : j = MakeConst(i, c, n)
    BY <1>2 DEF FoldBinary
  <2>2. j.op \in {"CONST_INT", "CONST_BOOL"}
    BY <2>1, Fields DEF MakeConst
  <2> QED
    BY <2>2 DEF Folded, IrOperator
<1> QED
  BY <1>1, <1>2

LEMMA ConstFoldFolds ==
    ASSUME NEW fn, FunctionInOrder(fn)
    PROVE  AllFolded(ConstFold(fn))
<1> DEFINE s == EntryInstrs(fn)
           t == EntryInstrs(ConstFold(fn))
<1>1. DOMAIN t = DOMAIN s
  BY DEF FunctionInOrder, HasEntry, ForEachInstr, ConstFold, EntryInstrs
<1>2. ASSUME NEW k \in DOMAIN s PROVE Folded(t[k])
  <2> PICK i : i = s[k]
    OBVIOUS
  <2>1. t[k] = IF (\E o \in Range(i.operands) : ~IsNumber(o)) THEN i
               ELSE IF i.op \in DOMAIN IrOperator
                    THEN FoldBinary(i, IrOperator[i.op], i.operands[1].imm, i.operands[2].imm)
               ELSE IF i.op \in {"NEG", "NOT", "BIT_NOT"} THEN FoldUnary(i, i.operands[1].imm)
               ELSE i
    BY DEF FunctionInOrder, HasEntry, ForEachInstr, ConstFold, EntryInstrs
  <2>2. TakesOperands(i)
    BY EntryOf DEF InOrder
  <2> HIDE DEF s, t
  <2>3. CASE i.op \in DOMAIN IrOperator /\ \E o \in Range(i.operands) : ~IsNumber(o)
    <3>1. ~IsNumber(i.operands[1]) \/ ~IsNumber(i.operands[2])
      BY <2>2, <2>3 DEF TakesOperands, Range
    <3> QED
      BY <2>1, <2>3, <3>1 DEF Folded
  <2>4. CASE i.op \in DOMAIN IrOperator /\ ~\E o \in Range(i.operands) : ~IsNumber(o)
    BY <2>1, <2>4, FoldedBinaries
  <2>5. CASE i.op \notin DOMAIN IrOperator
    <3>1. CASE t[k] = i
      BY <2>5, <3>1 DEF Folded
    <3>2. CASE i.op \in {"NEG", "NOT", "BIT_NOT"} /\ t[k] = FoldUnary(i, i.operands[1].imm)
      <4>1. PICK c, n : c \in {"CONST_INT", "CONST_BOOL"} /\ t[k] = MakeConst(i, c, n)
        BY <3>2, FoldedUnary
      <4>2. t[k].op = c
        BY <4>1, Fields DEF MakeConst
      <4> QED
        BY <4>1, <4>2 DEF Folded, IrOperator
    <3> QED
      BY <2>1, <2>5, <3>1, <3>2
  <2> QED
    BY <2>3, <2>4, <2>5
<1> QED
  BY <1>1, <1>2 DEF AllFolded

LEMMA DceKeepsFolded ==
    ASSUME NEW fn, FunctionInOrder(fn), AllFolded(fn)
    PROVE  AllFolded(Dce(fn))
<1> DEFINE s == EntryInstrs(fn)
           t == EntryInstrs(RemoveUnused(fn))
<1>1. DOMAIN t = DOMAIN s
  BY DEF FunctionInOrder, HasEntry, ForEachInstr, RemoveUnused, EntryInstrs
<1>2. \A k \in DOMAIN s : t[k] = s[k] \/ t[k] = Instr("UNDEF", <<>>, NoId)
  BY DEF FunctionInOrder, HasEntry, ForEachInstr, RemoveUnused, EntryInstrs
<1>3. EntryInstrs(Dce(fn)) = t
  <2> PICK rest : rest = RemoveUnused(fn)
    OBVIOUS
  <2>1. HasEntry(rest)
    BY RemoveUnusedKeepsOrder DEF FunctionInOrder
  <2>2. EntryInstrs(ClearUnreached(rest)) = EntryInstrs(rest)
    BY <2>1 DEF HasEntry, ClearUnreached, EntryInstrs
  <2> QED
    BY <2>2 DEF Dce
<1>4. \A k \in DOMAIN s : Folded(s[k])
  BY DEF AllFolded
<1> HIDE DEF s, t
<1>5. Folded(Instr("UNDEF", <<>>, NoId))
  BY Fields DEF Folded, IrOperator
<1>6. \A k \in DOMAIN s : Folded(t[k])
  BY <1>2, <1>4, <1>5
<1> QED
  BY <1>1, <1>3, <1>6 DEF AllFolded

LEMMA CopyPropKeepsFolded ==
    ASSUME NEW fn, FunctionInOrder(fn), AllFolded(fn)
    PROVE  AllFolded(CopyProp(fn))
<1> DEFINE s == EntryInstrs(fn)
           t == EntryInstrs(CopyProp(fn))
<1> PICK r : r = Renaming(fn)
  OBVIOUS
<1> DEFINE Operand(k) == [p \in DOMAIN s[k].operands |-> Renamed(r, s[k].operands[p])]
<1>1. DOMAIN t = DOMAIN s
  BY DEF FunctionInOrder, HasEntry, ForEachInstr, CopyProp, RenameAll, EntryInstrs
<1>2. \A k \in DOMAIN s :
          t[k] = Instr(IF IsCopy(s[k]) THEN "UNDEF" ELSE s[k].op, Operand(k), s[k].id)
  BY DEF FunctionInOrder, HasEntry, ForEachInstr, CopyProp, RenameAll, EntryInstrs
<1>3. \A k \in DOMAIN s : Folded(s[k]) /\ TakesOperands(s[k])
  BY EntryOf DEF AllFolded, InOrder
<1>4. \A o : IsNumber(Renamed(r, o)) => Renamed(r, o) = o
  BY DEF Renamed, IsNumber, Ref
<1> HIDE DEF s, t
<1>5. ASSUME NEW k \in DOMAIN s PROVE Folded(t[k])
  <2>1. t[k].operands = Operand(k) /\ t[k].op \in {"UNDEF", s[k].op}
    BY <1>2, Fields
  <2>2. CASE t[k].op \in DOMAIN IrOperator
    <3>1. t[k].op = s[k].op /\ s[k].op \in DOMAIN IrOperator
      BY <2>1, <2>2 DEF IrOperator
    <3>2. DOMAIN s[k].operands = {1, 2}
      BY <1>3, <3>1 DEF TakesOperands
    <3>3. \A p \in {1, 2} : t[k].operands[p] = Renamed(r, s[k].operands[p])
      BY <2>1, <3>2
    <3>4. \A p \in {1, 2} : IsNumber(t[k].operands[p]) => t[k].operands[p] = s[k].operands[p]
      BY <1>4, <3>3
    <3> QED
      BY <1>3, <3>1, <3>4 DEF Folded
  <2> QED
    BY <2>2 DEF Folded
<1> QED
  BY <1>1, <1>5 DEF AllFolded, t

LEMMA CseKeepsFolded ==
    ASSUME NEW fn, FunctionInOrder(fn), AllFolded(fn)
    PROVE  AllFolded(Cse(fn))
<1> DEFINE s == EntryInstrs(fn)
           t == EntryInstrs(Cse(fn))
<1>1. DOMAIN t = DOMAIN s /\ \A k \in DOMAIN s : t[k] = Deduplicated(s, k)
  BY DEF FunctionInOrder, HasEntry, Cse, EntryInstrs
<1>2. s \in Seq(Range(s)) /\ \A k \in DOMAIN s : Folded(s[k])
  BY EntryOf DEF AllFolded
<1> HIDE DEF s, t
<1>3. ASSUME NEW k \in DOMAIN s PROVE t[k] = s[k] \/ t[k].op = "MOVE"
  <2>1. \/ Deduplicated(s, k) = s[k]
        \/ \E j \in 1..(k - 1) : SameWork(s[j], s[k]) /\ Deduplicated(s, k) = MakeMove(s[k], Ref(s[j].id))
    BY <1>2, DeduplicatedBy
  <2>2. ASSUME NEW j, Deduplicated(s, k) = MakeMove(s[k], Ref(s[j].id)) PROVE t[k].op = "MOVE"
    <3>1. t[k] = Instr("MOVE", <<Ref(s[j].id)>>, s[k].id)
      BY <1>1, <2>2 DEF MakeMove
    <3> QED
      BY ONLY <3>1, Fields
  <2> QED
    BY <1>1, <2>1, <2>2
<1>4. \A k \in DOMAIN s : Folded(t[k])
  BY <1>2, <1>3 DEF Folded, IrOperator
<1> QED
  BY <1>1, <1>4 DEF AllFolded, t

-----------------------------------------------------------------------------
(* The optimiser. *)

(***************************************************************************)
(* The inductive invariant: besides the order of the values, a function    *)
(* that is between two passes of a level has been folded.                  *)
(***************************************************************************)
FoldedFirst ==
    /\ at[1] \in Nat \ {0} /\ at[2] \in Nat \ {0}
    /\ iteration = 0 => at = <<1, 1>>
    /\ iteration \in 1..MaxIterations => passes \in {BasicPasses, FullPasses}
    /\ at[2] # 1 => at[1] \in DOMAIN fns /\ AllFolded(Function)

OptimizerInv == ModuleInOrder /\ FoldedFirst

LEMMA FoldingIsFirst ==
    ASSUME OptimizerInv, NEW name, NEW after, NEW progress, Pass(name, after, progress), name # "const_fold"
    PROVE  AllFolded(Function)
<1>1. passes[1] = "const_fold"
  BY DEF OptimizerInv, FoldedFirst, Pass, Optimizing, BasicPasses, FullPasses
<1>2. at[2] # 1
  BY <1>1 DEF Pass
<1> QED
  BY <1>2 DEF OptimizerInv, FoldedFirst

LEMMA PassOnFunction ==
    ASSUME OptimizerInv, NEW name, NEW after, NEW progress, Pass(name, after, progress)
    PROVE  FunctionInOrder(Function)
<1>1. at[1] \in DOMAIN fns
  BY DEF OptimizerInv, FoldedFirst, ModuleInOrder, Pass, Optimizing
<1> QED
  BY <1>1 DEF OptimizerInv, ModuleInOrder, Function

LEMMA PassKeepsFolded ==
    ASSUME OptimizerInv, NEW name, NEW after, NEW progress, Pass(name, after, progress),
           name # "strength_reduce" => AllFolded(after)
    PROVE  FoldedFirst'
<1>1. PICK a, p : a = at[1] /\ p = at[2]
  OBVIOUS
<1>2. PICK g, h, ps : g = fns' /\ h = fns /\ ps = passes
  OBVIOUS
<1>3. /\ iteration \in 1..MaxIterations /\ ps \in {BasicPasses, FullPasses}
      /\ a \in Nat \ {0} /\ p \in Nat \ {0} /\ h \in Seq(Range(h)) /\ a <= Len(h)
  BY <1>1, <1>2 DEF OptimizerInv, FoldedFirst, ModuleInOrder, Pass, Optimizing
<1>4. /\ iteration' # 0 /\ passes' = ps
      /\ g = [h EXCEPT ![a] = after]
      /\ at' = IF p < Len(ps) THEN <<a, p + 1>> ELSE <<a + 1, 1>>
      /\ ps[p] = name
  BY <1>1, <1>2, <1>3 DEF Pass
<1>5. a \in DOMAIN h /\ DOMAIN g = DOMAIN h /\ g[a] = after
  BY <1>3, <1>4
<1>6. Len(ps) \in Nat /\ \A i \in Nat \ {0} : i < Len(ps) => ps[i] # "strength_reduce"
  <2>2. CASE ps = BasicPasses
    BY <2>2 DEF BasicPasses
  <2>3. CASE ps = FullPasses
    <3> PICK q, u : q = <<"const_fold", "dce">> /\ u = <<"copy_prop", "cse", "strength_reduce">>
      OBVIOUS
    <3> PICK S : S = {"const_fold", "dce", "copy_prop", "cse", "strength_reduce"}
      OBVIOUS
    <3>1. ps = q \o u /\ q \in Seq(S) /\ u \in Seq(S) /\ Len(q) = 2 /\ Len(u) = 3
      <4>1. ps = q \o u
        BY <2>3 DEF FullPasses, BasicPasses
      <4>2. q \in Seq(S) /\ Len(q) = 2
        OBVIOUS
      <4>3. u \in Seq(S) /\ Len(u) = 3
        OBVIOUS
      <4> QED
        BY <4>1, <4>2, <4>3
    <3>2. Len(ps) = 5
      BY <3>1
    <3>3. ps[1] = q[1] /\ ps[2] = q[2] /\ ps[3] = u[1] /\ ps[4] = u[2]
      BY <3>1
    <3>4. \A i \in {1, 2, 3, 4} : ps[i] # "strength_reduce"
      BY <3>3
    <3> QED
      BY <3>2, <3>4
  <2> QED
    BY <1>3, <2>2, <2>3
<1>7. CASE p < Len(ps)
  <2>1. at'[1] = a /\ at'[2] = p + 1 /\ Function' = after
    BY <1>2, <1>4, <1>5, <1>7 DEF Function
  <2>2. AllFolded(after)
    BY <1>3, <1>4, <1>6, <1>7
  <2>3. AllFolded(Function')
    BY <2>1, <2>2
  <2> QED
    BY <1>2, <1>3, <1>4, <1>5, <2>1, <2>3 DEF FoldedFirst, AllFolded, EntryInstrs
<1>8. CASE ~(p < Len(ps))
  <2>1. at'[1] = a + 1 /\ at'[2] = 1
    BY <1>4, <1>8
  <2> QED
    BY <1>3, <1>4, <2>1 DEF FoldedFirst
<1> QED
  BY <1>7, <1>8

LEMMA PassKeepsOrder ==
    ASSUME ModuleInOrder, NEW name, NEW after, NEW progress, Pass(name, after, progress),
           FunctionInOrder(Function) => FunctionInOrder(after)
    PROVE  ModuleInOrder'
<1>1. PICK a : a = at[1]
  OBVIOUS
<1>2. fns' = [fns EXCEPT ![a] = after] /\ Function = fns[a]
  BY <1>1 DEF Pass, Function
<1>3. fns \in Seq(Range(fns)) /\ DOMAIN fns = 1..Len(fns) /\ \A f \in DOMAIN fns : FunctionInOrder(fns[f])
  BY DEF ModuleInOrder
<1>4. DOMAIN fns' = DOMAIN fns /\ \A f \in DOMAIN fns : fns'[f] = IF f = a THEN after ELSE fns[f]
  BY <1>2
<1>5. fns' \in Seq(Range(fns'))
  <2>1. PICK g : g = fns'
    OBVIOUS
  <2>2. PICK n : n = Len(fns) /\ n \in Nat
    <3>1. \A S, q : q \in Seq(S) => Len(q) \in Nat
      OBVIOUS
    <3> QED
      BY <1>3, <3>1
  <2>3. g = [f \in 1..n |-> g[f]]
    BY <1>2, <1>3, <2>1, <2>2
  <2>4. g \in Seq(Range(g))
    <3>1. \A f \in 1..n : g[f] \in Range(g)
      BY <2>3 DEF Range
    <3> QED
      BY <2>2, <2>3, <3>1
  <2> QED
    BY <2>1, <2>4
<1>6. \A f \in DOMAIN fns : FunctionInOrder(fns'[f])
  BY <1>2, <1>3, <1>4
<1> QED
  BY <1>4, <1>5, <1>6 DEF ModuleInOrder, FunctionInOrder, HasEntry, EntryInstrs, InOrder, RefersBack, Lives

LEMMA OptimizerInvariance == OptimizerSpec => []OptimizerInv
<1>1. ModuleInOrder /\ OptimizerInit => OptimizerInv
  BY DEF OptimizerInit, OptimizerInv, FoldedFirst, MaxIterations
<1>2. ASSUME OptimizerInv, [OptimizerNext]_optVars PROVE OptimizerInv'
  <2> USE DEF OptimizerInv
  <2>1. CASE NewModule
    <3>1. at' = at /\ iteration' = iteration /\ passes' = passes /\ ~(at[2] # 1)
      BY <1>2, <2>1 DEF NewModule, FoldedFirst
    <3>2. FoldedFirst'
      BY <1>2, <3>1 DEF FoldedFirst
    <3> QED
      BY <2>1, <3>2 DEF NewModule
  <2>2. CASE PassConstFold
    <3>1. FunctionInOrder(Function) => AllFolded(ConstFold(Function))
      BY ConstFoldFolds
    <3>2. FunctionInOrder(Function)
      BY <1>2, <2>2, PassOnFunction DEF PassConstFold
    <3> QED
      BY <1>2, <2>2, <3>1, <3>2, PassKeepsOrder, ConstFoldKeepsOrder, PassKeepsFolded DEF PassConstFold
  <2>3. CASE PassDce
    <3>1. FunctionInOrder(Function) /\ AllFolded(Function)
      BY <1>2, <2>3, PassOnFunction, FoldingIsFirst DEF PassDce
    <3> QED
      BY <1>2, <2>3, <3>1, PassKeepsOrder, DceKeepsOrder, PassKeepsFolded, DceKeepsFolded DEF PassDce
  <2>4. CASE PassCopyProp
    <3>1. FunctionInOrder(Function) /\ AllFolded(Function)
      BY <1>2, <2>4, PassOnFunction, FoldingIsFirst DEF PassCopyProp
    <3> QED
      BY <1>2, <2>4, <3>1, PassKeepsOrder, CopyPropKeepsOrder, PassKeepsFolded, CopyPropKeepsFolded
         DEF PassCopyProp
  <2>5. CASE PassCse
    <3>1. FunctionInOrder(Function) /\ AllFolded(Function)
      BY <1>2, <2>5, PassOnFunction, FoldingIsFirst DEF PassCse
    <3> QED
      BY <1>2, <2>5, <3>1, PassKeepsOrder, CseKeepsOrder, PassKeepsFolded, CseKeepsFolded DEF PassCse
  <2>6. CASE PassStrengthReduce
    <3>1. FunctionInOrder(Function) /\ AllFolded(Function)
      BY <1>2, <2>6, PassOnFunction, FoldingIsFirst DEF PassStrengthReduce
    <3> QED
      BY <1>2, <2>6, <3>1, PassKeepsOrder, StrengthReduceKeepsOrder, PassKeepsFolded DEF PassStrengthReduce
  <2>7. CASE UNCHANGED fns
    <3>1. ModuleInOrder'
      BY <1>2, <2>7 DEF ModuleInOrder
    <3>2. CASE StartOptimize
      <4>1. at' = at /\ iteration = 0 /\ iteration' = 1 /\ passes' \in {BasicPasses, FullPasses}
        BY <3>2 DEF StartOptimize
      <4>2. at = <<1, 1>>
        BY <1>2, <4>1 DEF FoldedFirst
      <4> QED
        BY <3>1, <4>1, <4>2 DEF FoldedFirst
    <3>3. CASE NextIteration
      <4>1. at' = <<1, 1>> /\ passes' = passes /\ iteration \in 1..MaxIterations
        BY <3>3 DEF NextIteration
      <4>2. passes \in {BasicPasses, FullPasses}
        BY <1>2, <4>1 DEF FoldedFirst
      <4> QED
        BY <3>1, <4>1, <4>2 DEF FoldedFirst
    <3>4. CASE UNCHANGED optVars
      BY <1>2, <3>1, <3>4 DEF FoldedFirst, optVars, AllFolded, EntryInstrs, Function
    <3> QED
      BY <1>2, <2>1, <2>2, <2>3, <2>4, <2>5, <2>6, <3>2, <3>3, <3>4 DEF OptimizerNext
  <2> QED
    BY <1>2, <2>1, <2>2, <2>3, <2>4, <2>5, <2>6, <2>7
       DEF OptimizerNext, StartOptimize, NextIteration, optVars
<1> QED
  BY <1>1, <1>2, PTL DEF OptimizerSpec

\* ir_opt.c: every pass leaves a function whose operands refer to values
\* that an instruction before them still defines, when it is given one: the
\* functions that ir_emit writes.  So it is for any number of functions of
\* any size and the passes of either level, however often ir_optimize runs
\* them: strength reduction takes every operand for a reference, and the
\* folding that comes first has left it no other.
THEOREM ValuesComeFirst == OptimizerSpec => []ModuleInOrder
<1>1. OptimizerInv => ModuleInOrder
  BY DEF OptimizerInv
<1> QED
  BY <1>1, OptimizerInvariance, PTL

\* No operand of the entry block refers to what a pass has removed, or to a
\* copy that is gone.
THEOREM OperandsStay == OptimizerSpec => []NoOperandDangles
<1>1. ASSUME ModuleInOrder PROVE NoOperandDangles
  <2> SUFFICES ASSUME NEW f \in DOMAIN fns, NEW i \in Range(EntryInstrs(fns[f])), i.op # "UNDEF",
                      NEW o \in Range(i.operands), IsRef(o), InTable(o.ref)
               PROVE  StillThere(fns[f], o.ref)
    BY DEF NoOperandDangles
  <2> DEFINE s == EntryInstrs(fns[f])
  <2>1. PICK k \in DOMAIN s : i = s[k]
    BY DEF Range
  <2>2. s \in Seq(Range(s)) /\ DOMAIN s = 1..Len(s) /\ InOrder(s, k)
    BY <1>1, EntryOf DEF ModuleInOrder
  <2> HIDE DEF s
  <2>3. PICK j \in 1..(k - 1) : o.ref = <<Entry, j>> /\ Lives(s, j)
    BY <2>1, <2>2, Operands DEF InOrder, RefersBack
  <2>4. j \in DOMAIN s
    BY <2>2
  <2> QED
    BY <2>3, <2>4 DEF StillThere, Lives, Range, s
<1> QED
  BY <1>1, ValuesComeFirst, PTL

-----------------------------------------------------------------------------
(* The functions the builder writes. *)

\* An operand that may be given to ir_emit: one of the entry block's values,
\* or none that the passes have in their tables.
Known(fn, o) ==
    IsRef(o) /\ InTable(o.ref) =>
        \E j \in DOMAIN EntryInstrs(fn) : o = Ref(<<Entry, j>>) /\ Lives(EntryInstrs(fn), j)

LEMMA EmitInOtherBlock ==
    ASSUME NEW fn, FunctionInOrder(fn), NEW b \in DOMAIN fn.blocks, b # Entry, NEW op, NEW operands
    PROVE  LET after == IrEmit(fn, b, op, operands)
           IN  HasEntry(after) /\ EntryInstrs(after) = EntryInstrs(fn)
BY DEF IrEmit, FunctionInOrder, HasEntry, EntryInstrs

LEMMA EmitInEntry ==
    ASSUME NEW fn, FunctionInOrder(fn), NEW op, NEW operands, ~Full(fn, Entry)
    PROVE  LET after == IrEmit(fn, Entry, op, operands)
               instr == Instr(op, operands, ResultId(fn, Entry, op))
           IN  HasEntry(after) /\ EntryInstrs(after) = Append(EntryInstrs(fn), instr)
<1> DEFINE after == IrEmit(fn, Entry, op, operands)
<1> PICK instr : instr = Instr(op, operands, ResultId(fn, Entry, op))
  OBVIOUS
<1>1. /\ "blocks" \in DOMAIN after /\ Entry \in DOMAIN after.blocks
      /\ "instrs" \in DOMAIN after.blocks[Entry]
      /\ EntryInstrs(after) = Append(EntryInstrs(fn), instr)
  BY DEF IrEmit, FunctionInOrder, HasEntry, EntryInstrs
<1> PICK s : s = EntryInstrs(fn)
  OBVIOUS
<1>2. s \in Seq(Range(s))
  BY DEF FunctionInOrder, HasEntry
<1>3. Append(s, instr) \in Seq(Range(Append(s, instr)))
  <2> PICK R : R = Range(Append(s, instr))
    OBVIOUS
  <2> PICK t : t = Append(s, instr)
    OBVIOUS
  <2>1. /\ DOMAIN t = 1..(Len(s) + 1) /\ Len(s) \in Nat
        /\ t[Len(s) + 1] = instr /\ \A k \in 1..Len(s) : t[k] = s[k]
    BY <1>2
  <2>2. instr \in R /\ \A k \in 1..Len(s) : s[k] \in R
    BY <2>1 DEF Range
  <2>3. s \in Seq(R)
    BY <1>2, <2>2
  <2> QED
    BY <2>2, <2>3
<1> QED
  BY <1>1, <1>3 DEF HasEntry

\* ir_emit: a function whose values come first stays one when an
\* instruction is written at the end of any block of it that uses known
\* values; these stay known, and so is the value it returns.
THEOREM EmitKeepsOrder ==
    ASSUME NEW fn, FunctionInOrder(fn), NEW b \in DOMAIN fn.blocks, NEW op, NEW operands,
           TakesOperands([op |-> op, operands |-> operands]),
           \A o \in Range(operands) : Known(fn, o)
    PROVE  LET after == IrEmit(fn, b, op, operands)
           IN  /\ FunctionInOrder(after)
               /\ \A o : Known(fn, o) => Known(after, o)
               /\ op # "UNDEF" => Known(after, Ref(IrEmitted(fn, b, op)))
<1> PICK after : after = IrEmit(fn, b, op, operands)
  OBVIOUS
<1> PICK s : s = EntryInstrs(fn)
  OBVIOUS
<1>1. s \in Seq(Range(s)) /\ DOMAIN s = 1..Len(s) /\ \A k \in DOMAIN s : InOrder(s, k)
  BY EntryOf
<1>2. CASE Full(fn, b)
  <2>1. after = fn /\ IrEmitted(fn, b, op) = NoId
    BY <1>2 DEF IrEmit, IrEmitted
  <2> QED
    BY <2>1, Ids, Operands DEF Known
<1>3. CASE ~Full(fn, b) /\ b # Entry
  <2>1. HasEntry(after) /\ EntryInstrs(after) = s
    BY <1>3, EmitInOtherBlock
  <2>2. ~InTable(IrEmitted(fn, b, op))
    BY <1>3, Ids DEF IrEmitted, ResultId, InTable
  <2> QED
    BY <1>1, <2>1, <2>2, Operands DEF FunctionInOrder, Known
<1>4. CASE ~Full(fn, b) /\ b = Entry
  <2> PICK id : id = ResultId(fn, Entry, op)
    OBVIOUS
  <2> DEFINE t == Append(s, Instr(op, operands, id))
             n == Len(s) + 1
  <2>1. HasEntry(after) /\ EntryInstrs(after) = t
    BY <1>4, EmitInEntry
  <2>2. id \in {NoId, <<Entry, n>>} /\ IrEmitted(fn, b, op) = id
    BY <1>4 DEF ResultId, IrEmitted, EntryInstrs
  <2>3. /\ n \in Nat /\ DOMAIN t = 1..n /\ \A k \in 1..Len(s) : t[k] = s[k]
        /\ t[n] = Instr(op, operands, id)
    BY <1>1
  <2> HIDE DEF t, n
  <2>4. t[n].op = op /\ t[n].operands = operands /\ t[n].id = id
    BY <2>3, Fields
  <2>5. \A k \in 1..Len(s) : Lives(s, k) => Lives(t, k)
    BY <2>3 DEF Lives
  <2>6. ASSUME NEW k \in 1..Len(s) PROVE InOrder(t, k)
    <3>1. \A o : RefersBack(s, k, o) => RefersBack(t, k, o)
      BY <1>1, <2>5 DEF RefersBack
    <3> QED
      BY <1>1, <2>3, <3>1 DEF InOrder
  <2>7. InOrder(t, n)
    <3>1. ASSUME NEW o \in Range(operands) PROVE RefersBack(t, n, o)
      <4> SUFFICES ASSUME IsRef(o), InTable(o.ref)
                   PROVE  \E j \in 1..(n - 1) : o = Ref(<<Entry, j>>) /\ Lives(t, j)
        BY DEF RefersBack
      <4>1. PICK j \in DOMAIN s : o = Ref(<<Entry, j>>) /\ Lives(s, j)
        BY DEF Known
      <4>2. j \in 1..(n - 1)
        BY <1>1 DEF n
      <4> QED
        BY <1>1, <2>5, <4>1, <4>2
    <3>2. TakesOperands(t[n])
      BY <2>4 DEF TakesOperands
    <3> QED
      BY <2>2, <2>3, <2>4, <3>1, <3>2 DEF InOrder
  <2>8. FunctionInOrder(after)
    <3>1. \A k \in 1..n : k \in 1..Len(s) \/ k = n
      BY <1>1 DEF n
    <3> QED
      BY <2>1, <2>3, <2>6, <2>7, <3>1 DEF FunctionInOrder
  <2>9. 1..Len(s) \subseteq 1..n /\ n \in 1..n
    BY <1>1 DEF n
  <2>10. \A o : Known(fn, o) => Known(after, o)
    BY <1>1, <2>1, <2>3, <2>5, <2>9 DEF Known
  <2>11. ASSUME op # "UNDEF" PROVE Known(after, Ref(id))
    <3>1. CASE id = NoId
      BY <3>1, Ids, Operands DEF Known
    <3>2. CASE id = <<Entry, n>>
      <4>1. Lives(t, n)
        BY <2>4, <2>11, <3>2 DEF Lives
      <4> QED
        BY <2>1, <2>3, <2>9, <3>2, <4>1, Operands DEF Known
    <3> QED
      BY <2>2, <3>1, <3>2
  <2> QED
    BY <2>2, <2>8, <2>10, <2>11
<1> QED
  BY <1>2, <1>3, <1>4

-----------------------------------------------------------------------------
(* What an instruction computes. *)

LEMMA Integers == \A m, n : IsInt(IntVal(n)) /\ IntVal(n).int = n /\ (IntVal(m) = IntVal(n) => m = n)
BY DEF IsInt, IntVal

LEMMA OperandIs ==
    ASSUME NEW val
    PROVE  /\ \A n : OperandValue(val, Imm(n)) = IntVal(n)
           /\ \A id : OperandValue(val, Ref(id)) = val[id]
           /\ \A o : IsNumber(o) => OperandValue(val, o) = IntVal(o.imm)
BY DEF OperandValue, IsNumber, IsRef, Imm, Ref

LEMMA ConstComputes ==
    ASSUME NEW val, NEW i, NEW n
    PROVE  /\ Computes(val, MakeConst(i, "CONST_INT", n)) <=> val[i.id] = IntVal(n)
           /\ Computes(val, MakeConst(i, "CONST_BOOL", n)) <=> val[i.id] = BoolVal(n = 1)
<1>1. \A op : OperandValues(val, MakeConst(i, op, n))[1] = IntVal(n)
  BY OperandIs, Fields DEF OperandValues, MakeConst
<1>2. \A op : MakeConst(i, op, n).op = op /\ MakeConst(i, op, n).id = i.id
  BY Fields DEF MakeConst
<1>3. IntVal(n) = IntVal(1) <=> n = 1
  BY Integers
<1>4. Computes(val, MakeConst(i, "CONST_INT", n)) <=> val[i.id] = IntVal(n)
  BY <1>1, <1>2 DEF Computes, MayDefine, IrOperator, IrUnaryOperator
<1>5. Computes(val, MakeConst(i, "CONST_BOOL", n)) <=> val[i.id] = BoolVal(IntVal(n) = IntVal(1))
  BY <1>1, <1>2 DEF Computes, MayDefine, IrOperator, IrUnaryOperator
<1> QED
  BY <1>3, <1>4, <1>5

LEMMA MoveComputes ==
    ASSUME NEW val, NEW i, NEW o
    PROVE  Computes(val, MakeMove(i, o)) <=> val[i.id] = OperandValue(val, o)
<1>1. OperandValues(val, MakeMove(i, o))[1] = OperandValue(val, o)
  BY Fields DEF OperandValues, MakeMove
<1>2. MakeMove(i, o).op = "MOVE" /\ MakeMove(i, o).id = i.id
  BY Fields DEF MakeMove
<1> QED
  BY <1>1, <1>2 DEF Computes, MayDefine, IrOperator, IrUnaryOperator

\* Arithmetic is of integers, and gives one value.
LEMMA ArithmeticIs ==
    ASSUME NEW op \in DOMAIN IrOperator \ {"CMP_EQ", "CMP_NE"}, NEW vs, NEW v, MayDefine(op, vs, v)
    PROVE  \E a, b \in Int :
               /\ vs[1] = IntVal(a) /\ vs[2] = IntVal(b)
               /\ op \in {"DIV", "REM"} => b # 0
               /\ <<v>> \in BinaryResults(IrOperator[op], IntVal(a), IntVal(b))
<1>1. op \notin {"CONST_INT", "CONST_BOOL", "CONST_STR", "CONST_NULL", "MOVE"} \cup DOMAIN IrUnaryOperator
  BY DEF IrOperator, IrUnaryOperator
<1>2. /\ {vs[1], vs[2]} \subseteq Integer /\ ~DividesByZero(op, vs)
      /\ <<v>> \in BinaryResults(IrOperator[op], vs[1], vs[2])
  BY <1>1 DEF MayDefine
<1>3. PICK a, b \in Int : vs[1] = IntVal(a) /\ vs[2] = IntVal(b)
  BY <1>2 DEF Integer
<1> QED
  BY <1>2, <1>3 DEF DividesByZero

LEMMA IntegerResults ==
    ASSUME NEW op, NEW a \in Int, NEW b \in Int, NEW v, <<v>> \in BinaryResults(op, IntVal(a), IntVal(b))
    PROVE  /\ op \in BitOps => v = IntVal(BitOp(op, a, b))
           /\ op = "%" => v = IntVal(TruncMod(a, b))
           /\ op \in CompareOp => v = BoolVal(IntCompare(op, a, b))
           /\ op \in ArithmeticOp => v = IntVal(IntArithmetic(op, a, b))
<1>1. RawInt(IntVal(a)) = {a} /\ RawInt(IntVal(b)) = {b}
  BY Integers DEF RawInt
<1> PICK A : A = IntVal(a)
  OBVIOUS
<1> PICK B : B = IntVal(b)
  OBVIOUS
<1>2. ASSUME op \in BitOps PROVE v = IntVal(BitOp(op, a, b))
  <2>1. BinaryResults(op, A, B) = {<<IntVal(BitOp(op, x, y))>> : x \in RawInt(A), y \in RawInt(B)}
    BY <1>2 DEF BinaryResults, BitOps, CompareOp, ArithmeticOp
  <2> QED
    BY <1>1, <2>1
<1>3. ASSUME op = "%" PROVE v = IntVal(TruncMod(a, b))
  <2>1. BinaryResults(op, A, B) = {<<IntVal(TruncMod(x, y))>> : x \in RawInt(A), y \in RawInt(B) \ {0}}
    BY <1>3 DEF BinaryResults, BitOps, CompareOp, ArithmeticOp
  <2> QED
    BY <1>1, <2>1
<1>4. ASSUME op \in CompareOp PROVE v = BoolVal(IntCompare(op, a, b))
  <2>1. IsInt(A) /\ IsInt(B) /\ A.int = a /\ B.int = b
    BY Integers
  <2>2. BinaryResults(op, A, B) = {<<BoolVal(IntCompare(op, A.int, B.int))>>}
    BY <1>4, <2>1 DEF BinaryResults, BitOps, CompareOp, ArithmeticOp
  <2> QED
    BY <2>1, <2>2
<1>5. ASSUME op \in ArithmeticOp PROVE v = IntVal(IntArithmetic(op, a, b))
  BY <1>5, Integers DEF BinaryResults, BitOps, CompareOp, ArithmeticOp
<1> QED
  BY <1>2, <1>3, <1>4, <1>5

-----------------------------------------------------------------------------
(* The passes keep the values. *)

LEMMA SameDoes ==
    ASSUME NEW val, NEW i
    PROVE  DoesInstead(val, i, i)
BY DEF DoesInstead, SameInstr

\* A pass that goes over the instructions keeps the values when it does so
\* for each of them.
LEMMA KeptOneByOne ==
    ASSUME NEW s, NEW t,
           \A val : \A k \in DOMAIN s : Executed(val, s, k - 1) /\ t[k] # s[k] => DoesInstead(val, s[k], t[k])
    PROVE  KeepsValues(s, t)
BY SameDoes DEF KeepsValues

\* So a run of the block before a pass is one of the block behind it, and
\* behind the next passes.
LEMMA KeptRuns ==
    ASSUME NEW s, NEW t, KeepsValues(s, t), NEW val, NEW n \in Nat, 1..n \subseteq DOMAIN s,
           Executed(val, s, n)
    PROVE  Executed(val, t, n)
<1> SUFFICES ASSUME NEW k \in 1..n PROVE Computes(val, t[k])
  BY DEF Executed
<1>1. Executed(val, s, k - 1) /\ Computes(val, s[k])
  BY DEF Executed
<1> QED
  BY <1>1 DEF KeepsValues, DoesInstead

LEMMA UnaryIs ==
    ASSUME NEW i, i.op \in DOMAIN IrUnaryOperator, NEW val, Computes(val, i)
    PROVE  <<val[i.id]>> \in UnaryResults(IrUnaryOperator[i.op], OperandValues(val, i)[1])
<1>1. i.op \notin {"CONST_INT", "CONST_BOOL", "CONST_STR", "CONST_NULL", "MOVE"} \cup DOMAIN IrOperator
  BY DEF IrOperator, IrUnaryOperator
<1> QED
  BY <1>1 DEF Computes, MayDefine

LEMMA ConstSimplifies ==
    ASSUME NEW val, NEW i, NEW op \in {"CONST_INT", "CONST_BOOL"}, NEW n,
           i.op \in DOMAIN IrOperator \cup DOMAIN IrUnaryOperator,
           ~DividesByZero(i.op, OperandValues(val, i))
    PROVE  Simplified(val, i, MakeConst(i, op, n))
BY Fields DEF Simplified, MakeConst

LEMMA TheOther ==
    ASSUME NEW T, NEW p, T = {p}, NEW v, <<v>> \in {<<BoolVal(~t)>> : t \in T}
    PROVE  v = BoolVal(~p)
<1>1. PICK t \in T : <<v>> = <<BoolVal(~t)>>
  OBVIOUS
<1>2. v = BoolVal(~t)
  BY <1>1
<1> QED
  BY <1>2

LEMMA FoldUnaryComputes ==
    ASSUME NEW val, NEW i, i.op \in {"NEG", "NOT", "BIT_NOT"},
           NEW n, OperandValues(val, i)[1] = IntVal(n), Computes(val, i)
    PROVE  Computes(val, FoldUnary(i, n))
<1>1. <<val[i.id]>> \in UnaryResults(IrUnaryOperator[i.op], IntVal(n))
  BY UnaryIs DEF IrUnaryOperator
<1>2. CASE i.op = "NEG"
  <2>1. UnaryResults("-", IntVal(n)) = {<<IntVal(-n)>>}
    BY Integers DEF UnaryResults
  <2>2. val[i.id] = IntVal(-n)
    BY <1>1, <1>2, <2>1 DEF IrUnaryOperator
  <2>3. FoldUnary(i, n) = MakeConst(i, "CONST_INT", -n)
    BY <1>2 DEF FoldUnary
  <2> QED
    BY <2>2, <2>3, ConstComputes
<1>3. CASE i.op = "NOT"
  <2>1. ValueIsTruthy(IntVal(n)) = {n # 0}
    BY DEF ValueIsTruthy, IntVal
  <2>2. UnaryResults("not", IntVal(n)) = {<<BoolVal(~t)>> : t \in ValueIsTruthy(IntVal(n))}
    BY DEF UnaryResults
  <2>3. val[i.id] = BoolVal(~(n # 0))
    <3>1. <<val[i.id]>> \in {<<BoolVal(~t)>> : t \in ValueIsTruthy(IntVal(n))}
      BY <1>1, <1>3, <2>2 DEF IrUnaryOperator
    <3> QED
      BY <2>1, <3>1, TheOther
  <2>4. FoldUnary(i, n) = MakeConst(i, "CONST_BOOL", IF n = 0 THEN 1 ELSE 0)
    BY <1>3 DEF FoldUnary
  <2>5. (~(n # 0)) = ((IF n = 0 THEN 1 ELSE 0) = 1)
    OBVIOUS
  <2> QED
    BY <2>3, <2>4, <2>5, ConstComputes
<1>4. CASE i.op = "BIT_NOT"
  <2>1. UnaryResults("~", IntVal(n)) = {<<IntVal(-m - 1)>> : m \in {n}}
    BY Integers DEF UnaryResults, RawInt
  <2>2. val[i.id] = IntVal(-n - 1)
    BY <1>1, <1>4, <2>1 DEF IrUnaryOperator
  <2>3. FoldUnary(i, n) = MakeConst(i, "CONST_INT", -n - 1)
    BY <1>4 DEF FoldUnary
  <2> QED
    BY <2>2, <2>3, ConstComputes
<1> QED
  BY <1>2, <1>3, <1>4

\* Whether two integers are equal, of values that need not be integers.
LEMMA EqualityIs ==
    ASSUME NEW val, NEW i, i.op \in {"CMP_EQ", "CMP_NE"}, Computes(val, i),
           NEW a, NEW b, OperandValues(val, i)[1] = IntVal(a), OperandValues(val, i)[2] = IntVal(b)
    PROVE  val[i.id] = BoolVal(IF i.op = "CMP_EQ" THEN a = b ELSE a # b)
<1>1. i.op \notin {"CONST_INT", "CONST_BOOL", "CONST_STR", "CONST_NULL", "MOVE"} \cup DOMAIN IrUnaryOperator
      /\ i.op \in DOMAIN IrOperator
  BY DEF IrOperator, IrUnaryOperator
<1>2. <<val[i.id]>> \in BinaryResults(IrOperator[i.op], IntVal(a), IntVal(b))
  BY <1>1 DEF Computes, MayDefine
<1>3. ValueEquals(IntVal(a), IntVal(b)) = {a = b}
  <2>1. ValueEquals(IntVal(a), IntVal(b)) = {IntVal(a) = IntVal(b)}
    BY DEF ValueEquals, Bare, IntVal
  <2>2. (IntVal(a) = IntVal(b)) = (a = b)
    BY Integers
  <2> QED
    BY <2>1, <2>2
<1>4. CASE i.op = "CMP_EQ"
  <2>1. BinaryResults("==", IntVal(a), IntVal(b)) = {<<BoolVal(t)>> : t \in ValueEquals(IntVal(a), IntVal(b))}
    BY DEF BinaryResults, BitOps, CompareOp, ArithmeticOp
  <2> QED
    BY <1>2, <1>3, <1>4, <2>1 DEF IrOperator
<1>5. CASE i.op = "CMP_NE"
  <2>1. BinaryResults("!=", IntVal(a), IntVal(b)) = {<<BoolVal(~t)>> : t \in ValueEquals(IntVal(a), IntVal(b))}
    BY DEF BinaryResults, BitOps, CompareOp, ArithmeticOp
  <2>2. <<val[i.id]>> \in {<<BoolVal(~t)>> : t \in ValueEquals(IntVal(a), IntVal(b))}
    BY <1>2, <1>5, <2>1 DEF IrOperator
  <2>3. val[i.id] = BoolVal(~(a = b))
    BY <1>3, <2>2, TheOther
  <2> QED
    BY <1>5, <2>3
<1> QED
  BY <1>4, <1>5

LEMMA FoldBinaryComputes ==
    ASSUME NEW val, NEW i, i.op \in DOMAIN IrOperator, Computes(val, i),
           NEW a, NEW b, OperandValues(val, i)[1] = IntVal(a), OperandValues(val, i)[2] = IntVal(b)
    PROVE  Computes(val, FoldBinary(i, IrOperator[i.op], a, b))
<1> DEFINE op == IrOperator[i.op]
<1>1. CASE i.op = "CMP_EQ"
  <2>1. FoldBinary(i, op, a, b) = MakeConst(i, "CONST_BOOL", IF a = b THEN 1 ELSE 0)
    BY <1>1 DEF FoldBinary, IrOperator, CompareOp, BitOps
  <2>2. val[i.id] = BoolVal(a = b)
    BY <1>1, EqualityIs
  <2>3. (a = b) = ((IF a = b THEN 1 ELSE 0) = 1)
    OBVIOUS
  <2> QED
    BY <2>1, <2>2, <2>3, ConstComputes
<1>2. CASE i.op = "CMP_NE"
  <2>1. FoldBinary(i, op, a, b) = MakeConst(i, "CONST_BOOL", IF a # b THEN 1 ELSE 0)
    BY <1>2 DEF FoldBinary, IrOperator, CompareOp, BitOps
  <2>2. val[i.id] = BoolVal(a # b)
    BY <1>2, EqualityIs
  <2>3. (a # b) = ((IF a # b THEN 1 ELSE 0) = 1)
    OBVIOUS
  <2> QED
    BY <2>1, <2>2, <2>3, ConstComputes
<1>3. CASE i.op \notin {"CMP_EQ", "CMP_NE"}
  <2>1. PICK x, y \in Int :
            /\ IntVal(a) = IntVal(x) /\ IntVal(b) = IntVal(y)
            /\ <<val[i.id]>> \in BinaryResults(op, IntVal(x), IntVal(y))
    BY <1>3, ArithmeticIs DEF Computes
  <2>2. a = x /\ b = y
    BY <2>1, Integers
  <2> PICK v : v = val[i.id]
    OBVIOUS
  <2>3. /\ op \in BitOps => v = IntVal(BitOp(op, a, b))
        /\ op = "%" => v = IntVal(TruncMod(a, b))
        /\ op \in CompareOp => v = BoolVal(IntCompare(op, a, b))
        /\ op \in ArithmeticOp => v = IntVal(IntArithmetic(op, a, b))
    BY <2>1, <2>2, IntegerResults
  <2>4. op \in BitOps \cup {"%"} \cup CompareOp \cup ArithmeticOp
    BY <1>3 DEF IrOperator, BitOps, CompareOp, ArithmeticOp
  <2> SUFFICES Computes(val, FoldBinary(i, op, a, b))
    OBVIOUS
  <2> HIDE DEF op
  <2>5. CASE op \in {"/", "%"} /\ b = 0
    BY <2>5 DEF FoldBinary, BitOps, CompareOp
  <2>6. CASE op \in BitOps
    <3>1. FoldBinary(i, op, a, b) = MakeConst(i, "CONST_INT", BitOp(op, a, b))
      BY <2>6 DEF FoldBinary, BitOps, CompareOp
    <3> QED
      BY <2>3, <2>6, <3>1, ConstComputes
  <2>7. CASE op = "%" /\ b # 0
    <3>1. FoldBinary(i, op, a, b) = MakeConst(i, "CONST_INT", TruncMod(a, b))
      BY <2>7 DEF FoldBinary, BitOps, CompareOp
    <3> QED
      BY <2>3, <2>7, <3>1, ConstComputes
  <2>8. CASE op \in CompareOp
    <3>1. FoldBinary(i, op, a, b) = MakeConst(i, "CONST_BOOL", IF IntCompare(op, a, b) THEN 1 ELSE 0)
      BY <2>8 DEF FoldBinary, BitOps, CompareOp
    <3>2. IntCompare(op, a, b) \in BOOLEAN
      <4>1. a \in Int /\ b \in Int
        BY <2>2
      <4>2. op = "<" \/ op = "<=" \/ op = ">" \/ op = ">="
        BY <2>8 DEF CompareOp
      <4>3. {a < b, a <= b, a > b, a >= b} \subseteq BOOLEAN
        BY <4>1
      <4>4. IntCompare(op, a, b) \in {a < b, a <= b, a > b, a >= b}
        BY <4>2, Zenon DEF IntCompare
      <4> QED
        BY <4>3, <4>4
    <3>3. IntCompare(op, a, b) = ((IF IntCompare(op, a, b) THEN 1 ELSE 0) = 1)
      BY <3>2
    <3> QED
      BY <2>3, <2>8, <3>1, <3>3, ConstComputes
  <2>9. CASE op \in ArithmeticOp /\ ~(op = "/" /\ b = 0)
    <3>1. FoldBinary(i, op, a, b) = MakeConst(i, "CONST_INT", IntArithmetic(op, a, b))
      BY <2>9 DEF FoldBinary, BitOps, CompareOp, ArithmeticOp
    <3> QED
      BY <2>3, <2>9, <3>1, ConstComputes
  <2> QED
    BY <2>4, <2>5, <2>6, <2>7, <2>8, <2>9 DEF op
<1> QED
  BY <1>1, <1>2, <1>3

LEMMA FoldBinarySimplifies ==
    ASSUME NEW val, NEW i, i.op \in DOMAIN IrOperator,
           NEW a, NEW b, OperandValues(val, i)[2] = IntVal(b), FoldBinary(i, IrOperator[i.op], a, b) # i
    PROVE  Simplified(val, i, FoldBinary(i, IrOperator[i.op], a, b))
<1>1. ~(IrOperator[i.op] \in {"/", "%"} /\ b = 0)
  BY DEF FoldBinary, BitOps, CompareOp
<1>2. ~DividesByZero(i.op, OperandValues(val, i))
  BY <1>1, Integers DEF DividesByZero, IrOperator
<1>3. PICK c, n : c \in {"CONST_INT", "CONST_BOOL"} /\ FoldBinary(i, IrOperator[i.op], a, b) = MakeConst(i, c, n)
  BY FoldedBinary
<1> QED
  BY <1>2, <1>3, ConstSimplifies

LEMMA ConstFoldKeepsValues ==
    ASSUME NEW fn, FunctionInOrder(fn)
    PROVE  KeepsValues(EntryInstrs(fn), EntryInstrs(ConstFold(fn)))
<1> DEFINE s == EntryInstrs(fn)
           t == EntryInstrs(ConstFold(fn))
<1>1. ASSUME NEW k \in DOMAIN s, t[k] # s[k]
      PROVE  /\ \A o \in Range(s[k].operands) : IsNumber(o)
             /\ \/ /\ s[k].op \in DOMAIN IrOperator
                   /\ t[k] = FoldBinary(s[k], IrOperator[s[k].op], s[k].operands[1].imm, s[k].operands[2].imm)
                \/ s[k].op \in {"NEG", "NOT", "BIT_NOT"} /\ t[k] = FoldUnary(s[k], s[k].operands[1].imm)
  BY <1>1 DEF FunctionInOrder, HasEntry, ForEachInstr, ConstFold, EntryInstrs
<1> HIDE DEF s, t
<1>2. \A k \in DOMAIN s : InOrder(s, k)
  BY EntryOf DEF s
<1>3. ASSUME NEW val, NEW k \in DOMAIN s, t[k] # s[k] PROVE DoesInstead(val, s[k], t[k])
  <2> PICK i : i = s[k]
    OBVIOUS
  <2>1. ASSUME NEW p \in DOMAIN i.operands
        PROVE  OperandValues(val, i)[p] = IntVal(i.operands[p].imm)
    <3>1. IsNumber(i.operands[p])
      BY <1>1, <1>3 DEF Range
    <3> QED
      BY <3>1, OperandIs DEF OperandValues
  <2>2. CASE /\ i.op \in DOMAIN IrOperator
             /\ t[k] = FoldBinary(i, IrOperator[i.op], i.operands[1].imm, i.operands[2].imm)
    <3>1. 1 \in DOMAIN i.operands /\ 2 \in DOMAIN i.operands
      BY <1>2, <2>2 DEF InOrder, TakesOperands
    <3>2. /\ OperandValues(val, i)[1] = IntVal(i.operands[1].imm)
          /\ OperandValues(val, i)[2] = IntVal(i.operands[2].imm)
      BY <2>1, <3>1
    <3>3. Computes(val, i) => Computes(val, t[k])
      BY <2>2, <3>2, FoldBinaryComputes
    <3>4. Simplified(val, i, t[k])
      BY <1>3, <2>2, <3>2, FoldBinarySimplifies
    <3> QED
      BY <3>3, <3>4 DEF DoesInstead
  <2>3. CASE i.op \in {"NEG", "NOT", "BIT_NOT"} /\ t[k] = FoldUnary(i, i.operands[1].imm)
    <3>1. 1 \in DOMAIN i.operands
      BY <1>2, <2>3 DEF InOrder, TakesOperands, IrUnaryOperator
    <3>2. OperandValues(val, i)[1] = IntVal(i.operands[1].imm)
      BY <2>1, <3>1
    <3>3. Computes(val, i) => Computes(val, t[k])
      BY <2>3, <3>2, FoldUnaryComputes
    <3>4. PICK c, n : c \in {"CONST_INT", "CONST_BOOL"} /\ t[k] = MakeConst(i, c, n)
      BY <2>3, FoldedUnary
    <3>5. i.op \in DOMAIN IrUnaryOperator /\ ~DividesByZero(i.op, OperandValues(val, i))
      BY <2>3 DEF IrUnaryOperator, DividesByZero
    <3>6. Simplified(val, i, t[k])
      BY <3>4, <3>5, ConstSimplifies
    <3> QED
      BY <3>3, <3>6 DEF DoesInstead
  <2> QED
    BY <1>1, <1>3, <2>2, <2>3
<1> QED
  BY <1>3, KeptOneByOne DEF s, t

LEMMA DceKeepsValues ==
    ASSUME NEW fn, FunctionInOrder(fn)
    PROVE  KeepsValues(EntryInstrs(fn), EntryInstrs(Dce(fn)))
<1> DEFINE s == EntryInstrs(fn)
           t == EntryInstrs(RemoveUnused(fn))
<1>1. EntryInstrs(Dce(fn)) = t
  <2> PICK rest : rest = RemoveUnused(fn)
    OBVIOUS
  <2>1. FunctionInOrder(rest)
    BY RemoveUnusedKeepsOrder
  <2> QED
    BY <2>1 DEF FunctionInOrder, HasEntry, ClearUnreached, EntryInstrs, Dce
<1>2. ASSUME NEW k \in DOMAIN s, t[k] # s[k]
      PROVE  s[k].op \in PureOp /\ t[k] = Instr("UNDEF", <<>>, NoId)
  BY <1>2 DEF FunctionInOrder, HasEntry, ForEachInstr, RemoveUnused, EntryInstrs
<1> HIDE DEF s, t
<1>3. ASSUME NEW val, NEW k \in DOMAIN s, t[k] # s[k] PROVE DoesInstead(val, s[k], t[k])
  <2>1. s[k].op \in PureOp /\ t[k].op = "UNDEF"
    BY <1>2, <1>3, Fields
  <2>2. Computes(val, t[k])
    BY <2>1 DEF Computes, MayDefine, IrOperator, IrUnaryOperator
  <2>3. Simplified(val, s[k], t[k])
    BY <2>1 DEF Simplified, DividesByZero, PureOp
  <2> QED
    BY <2>2, <2>3 DEF DoesInstead
<1> QED
  BY <1>1, <1>3, KeptOneByOne DEF s, t

\* The same work on the same values gives the same value.
LEMMA SameWorkSameValue ==
    ASSUME NEW val, NEW a, NEW b, SameWork(a, b), Computes(val, a), Computes(val, b)
    PROVE  val[a.id] = val[b.id]
<1> PICK op : op = a.op
  OBVIOUS
<1> PICK vs : vs = OperandValues(val, a)
  OBVIOUS
<1>1. /\ op \in {"ADD", "SUB", "MUL", "AND", "OR", "XOR"} /\ b.op = op
      /\ MayDefine(op, vs, val[a.id]) /\ MayDefine(op, vs, val[b.id])
  BY DEF SameWork, Computes, OperandValues
<1>2. op \in DOMAIN IrOperator \ {"CMP_EQ", "CMP_NE"} /\ IrOperator[op] \in BitOps \cup ArithmeticOp
  BY <1>1 DEF IrOperator, BitOps, ArithmeticOp
<1>3. PICK x, y \in Int :
          /\ vs[1] = IntVal(x) /\ vs[2] = IntVal(y)
          /\ <<val[a.id]>> \in BinaryResults(IrOperator[op], IntVal(x), IntVal(y))
  BY <1>1, <1>2, ArithmeticIs
<1>4. PICK z, w \in Int :
          /\ vs[1] = IntVal(z) /\ vs[2] = IntVal(w)
          /\ <<val[b.id]>> \in BinaryResults(IrOperator[op], IntVal(z), IntVal(w))
  BY <1>1, <1>2, ArithmeticIs
<1>5. x = z /\ y = w
  BY <1>3, <1>4, Integers
<1>6. PICK o : o = IrOperator[op]
  OBVIOUS
<1>7. \A v : <<v>> \in BinaryResults(o, IntVal(x), IntVal(y)) =>
          /\ o \in BitOps => v = IntVal(BitOp(o, x, y))
          /\ o \in ArithmeticOp => v = IntVal(IntArithmetic(o, x, y))
  BY <1>3, IntegerResults
<1> QED
  BY <1>2, <1>3, <1>4, <1>5, <1>6, <1>7

LEMMA MoveSimplifies ==
    ASSUME NEW val, NEW i, NEW o,
           i.op \in DOMAIN IrOperator, ~DividesByZero(i.op, OperandValues(val, i))
    PROVE  Simplified(val, i, MakeMove(i, o))
BY Fields DEF Simplified, MakeMove

LEMMA CseKeepsValues ==
    ASSUME NEW fn, FunctionInOrder(fn)
    PROVE  KeepsValues(EntryInstrs(fn), EntryInstrs(Cse(fn)))
<1> DEFINE s == EntryInstrs(fn)
           t == EntryInstrs(Cse(fn))
<1>1. \A k \in DOMAIN s : t[k] = Deduplicated(s, k)
  BY DEF FunctionInOrder, HasEntry, Cse, EntryInstrs
<1> HIDE DEF s, t
<1>2. s \in Seq(Range(s)) /\ DOMAIN s = 1..Len(s) /\ \A k \in DOMAIN s : InOrder(s, k)
  BY EntryOf DEF s
<1>3. ASSUME NEW val, NEW k \in DOMAIN s, Executed(val, s, k - 1), t[k] # s[k]
      PROVE  DoesInstead(val, s[k], t[k])
  <2>1. PICK j \in 1..(k - 1) : SameWork(s[j], s[k]) /\ t[k] = MakeMove(s[k], Ref(s[j].id))
    BY <1>1, <1>2, <1>3, DeduplicatedBy
  <2>2. Computes(val, s[j])
    BY <1>3 DEF Executed
  <2>3. s[k].op \in DOMAIN IrOperator /\ ~DividesByZero(s[k].op, OperandValues(val, s[k]))
    BY <2>1 DEF SameWork, IrOperator, DividesByZero
  <2>4. Computes(val, s[k]) => Computes(val, t[k])
    <3>1. OperandValue(val, Ref(s[j].id)) = val[s[j].id]
      BY OperandIs
    <3> QED
      BY <2>1, <2>2, <3>1, SameWorkSameValue, MoveComputes
  <2>5. Simplified(val, s[k], t[k])
    BY <2>1, <2>3, MoveSimplifies
  <2> QED
    BY <2>4, <2>5 DEF DoesInstead
<1> QED
  BY <1>3, KeptOneByOne DEF s, t

\* What an operation with a number that strength reduction knows of is.
LEMMA ReducedArithmetic ==
    ASSUME NEW a \in Int
    PROVE  /\ a + 0 = a /\ 0 + a = a /\ a - 0 = a /\ a * 0 = 0 /\ a * 1 = a /\ TruncDiv(a, 1) = a
           /\ \A n \in {2, 4, 8} : ShiftOf(n) \in Nat /\ a * 2^ShiftOf(n) = a * n
<1>1. TruncDiv(a, 1) = a
  BY DEF TruncDiv, Sign, Magnitude
<1>2. a + 0 = a /\ 0 + a = a /\ a - 0 = a /\ a * 0 = 0 /\ a * 1 = a
  OBVIOUS
<1>3. 2^1 = 2 /\ 2^2 = 4 /\ 2^3 = 8
  OBVIOUS
<1>4. \A n \in {2, 4, 8} : ShiftOf(n) \in Nat /\ 2^ShiftOf(n) = n
  BY <1>3 DEF ShiftOf
<1> QED
  BY <1>1, <1>2, <1>4

LEMMA ReduceComputes ==
    ASSUME NEW val, NEW i, Folded(i), i.op \in DOMAIN IrOperator, TakesOperands(i), Computes(val, i)
    PROVE  Computes(val, Reduce(i))
<1> DEFINE x == i.operands[1]
           y == i.operands[2]
<1> PICK vs : vs = OperandValues(val, i)
  OBVIOUS
<1>1. vs[1] = OperandValue(val, x) /\ vs[2] = OperandValue(val, y)
  BY DEF OperandValues, TakesOperands
<1>2. CASE i.op \in {"ADD", "SUB", "MUL", "DIV"}
  <2>1. i.op \in DOMAIN IrOperator \ {"CMP_EQ", "CMP_NE"} /\ IrOperator[i.op] \in ArithmeticOp
    BY <1>2 DEF IrOperator, ArithmeticOp
  <2>2. PICK a, b \in Int :
            /\ vs[1] = IntVal(a) /\ vs[2] = IntVal(b)
            /\ <<val[i.id]>> \in BinaryResults(IrOperator[i.op], IntVal(a), IntVal(b))
    BY <2>1, ArithmeticIs DEF Computes
  <2>3. val[i.id] = IntVal(IntArithmetic(IrOperator[i.op], a, b))
    <3>1. PICK o : o = IrOperator[i.op]
      OBVIOUS
    <3>2. PICK v : v = val[i.id]
      OBVIOUS
    <3> QED
      BY <2>1, <2>2, <3>1, <3>2, IntegerResults
  <2>4. ASSUME NEW n PROVE (x = Imm(n) => a = n) /\ (y = Imm(n) => b = n)
    <3>1. (x = Imm(n) => vs[1] = IntVal(n)) /\ (y = Imm(n) => vs[2] = IntVal(n))
      BY <1>1, OperandIs
    <3> QED
      BY <2>2, <3>1, Integers
  <2> HIDE DEF x, y
  <2>5. CASE i.op \in {"ADD", "SUB"} /\ y = Imm(0) /\ Reduce(i) = MakeMove(i, x)
    <3>1. b = 0
      BY <2>4, <2>5
    <3>2. IntArithmetic("+", a, 0) = a /\ IntArithmetic("-", a, 0) = a
      BY DEF IntArithmetic
    <3>3. IntArithmetic(IrOperator[i.op], a, b) = a
      BY <2>5, <3>1, <3>2 DEF IrOperator
    <3> QED
      BY <1>1, <2>2, <2>3, <2>5, <3>3, MoveComputes
  <2>6. CASE i.op = "ADD" /\ x = Imm(0) /\ Reduce(i) = MakeMove(i, y)
    <3>1. IntArithmetic(IrOperator[i.op], a, b) = b
      BY <2>4, <2>6, ReducedArithmetic DEF IntArithmetic, IrOperator
    <3> QED
      BY <1>1, <2>2, <2>3, <2>6, <3>1, MoveComputes
  <2>7. CASE i.op = "MUL" /\ y = Imm(0) /\ Reduce(i) = MakeConst(i, "CONST_INT", 0)
    <3>1. IntArithmetic(IrOperator[i.op], a, b) = 0
      BY <2>4, <2>7, ReducedArithmetic DEF IntArithmetic, IrOperator
    <3> QED
      BY <2>3, <2>7, <3>1, ConstComputes
  <2>8. CASE i.op \in {"MUL", "DIV"} /\ y = Imm(1) /\ Reduce(i) = MakeMove(i, x)
    <3>1. b = 1
      BY <2>4, <2>8
    <3>2. IntArithmetic("*", a, 1) = a /\ IntArithmetic("/", a, 1) = a
      BY ReducedArithmetic DEF IntArithmetic
    <3>3. IntArithmetic(IrOperator[i.op], a, b) = a
      BY <2>8, <3>1, <3>2 DEF IrOperator
    <3> QED
      BY <1>1, <2>2, <2>3, <2>8, <3>3, MoveComputes
  <2>9. ASSUME NEW n \in {2, 4, 8}, i.op = "MUL", y = Imm(n), Reduce(i) = Instr("SHL", <<x, Imm(ShiftOf(n))>>, i.id)
        PROVE  Computes(val, Reduce(i))
    <3> PICK m : m = ShiftOf(n)
      OBVIOUS
    <3> PICK j : j = Instr("SHL", <<x, Imm(m)>>, i.id)
      OBVIOUS
    <3>1. j.op = "SHL" /\ j.operands = <<x, Imm(m)>> /\ j.id = i.id
      BY Fields
    <3>2. OperandValues(val, j)[1] = IntVal(a) /\ OperandValues(val, j)[2] = IntVal(m)
      <4>1. DOMAIN j.operands = 1..2 /\ j.operands[1] = x /\ j.operands[2] = Imm(m)
        BY <3>1
      <4>2. /\ OperandValues(val, j)[1] = OperandValue(val, x)
            /\ OperandValues(val, j)[2] = OperandValue(val, Imm(m))
        BY <4>1 DEF OperandValues
      <4> QED
        BY <1>1, <2>2, <4>2, OperandIs
    <3>3. val[i.id] = IntVal(a * 2^m) /\ m \in Int
      <4>1. IrOperator[i.op] = "*" /\ b = n
        BY <2>4, <2>9 DEF IrOperator
      <4>2. IntArithmetic("*", a, n) = a * n
        BY DEF IntArithmetic
      <4>3. m \in Nat /\ a * 2^m = a * n
        BY ReducedArithmetic
      <4>4. val[i.id] = IntVal(a * n)
        BY <2>3, <4>1, <4>2
      <4> QED
        BY ONLY <4>3, <4>4
    <3>4. <<IntVal(a * 2^m)>> \in BinaryResults("<<", IntVal(a), IntVal(m))
      <4>1. RawInt(IntVal(a)) = {a} /\ RawInt(IntVal(m)) = {m}
        BY Integers DEF RawInt
      <4>2. BinaryResults("<<", IntVal(a), IntVal(m)) =
                {<<IntVal(BitOp("<<", p, q))>> : p \in RawInt(IntVal(a)), q \in RawInt(IntVal(m))}
        BY DEF BinaryResults, BitOps, CompareOp, ArithmeticOp
      <4>3. BitOp("<<", a, m) = a * 2^m
        BY DEF BitOp
      <4> QED
        BY <4>1, <4>2, <4>3
    <3>5. MayDefine("SHL", OperandValues(val, j), val[i.id])
      <4>1. {IntVal(a), IntVal(m)} \subseteq Integer
        BY <3>3 DEF Integer
      <4> QED
        BY <3>2, <3>3, <3>4, <4>1 DEF MayDefine, DividesByZero, IrOperator, IrUnaryOperator
    <3> QED
      BY <2>9, <3>1, <3>5 DEF Computes
  <2> QED
    BY <2>5, <2>6, <2>7, <2>8, <2>9, ReducedTo DEF x, y
<1>3. CASE i.op \notin {"ADD", "SUB", "MUL", "DIV"}
  BY <1>3, ReducedTo
<1> QED
  BY <1>2, <1>3

LEMMA ReduceSimplifies ==
    ASSUME NEW val, NEW i, Folded(i), i.op \in DOMAIN IrOperator, TakesOperands(i), Reduce(i) # i
    PROVE  Simplified(val, i, Reduce(i))
<1>1. ~DividesByZero(i.op, OperandValues(val, i))
  <2>1. CASE i.op \notin {"DIV", "REM"}
    BY <2>1 DEF DividesByZero
  <2>2. CASE i.op \in {"DIV", "REM"}
    <3>1. i.operands[2] = Imm(1)
      BY <2>2, ReducedTo
    <3>2. OperandValues(val, i)[2] = IntVal(1)
      BY <3>1, OperandIs DEF OperandValues, TakesOperands
    <3> QED
      BY <3>2, Integers DEF DividesByZero
  <2> QED
    BY <2>1, <2>2
<1>2. \/ \E o : Reduce(i) = MakeMove(i, o)
      \/ Reduce(i) = MakeConst(i, "CONST_INT", 0)
      \/ \E operands : Reduce(i) = Instr("SHL", operands, i.id)
  BY ReducedTo
<1>3. ASSUME NEW operands, Reduce(i) = Instr("SHL", operands, i.id) PROVE Simplified(val, i, Reduce(i))
  BY <1>1, <1>3, Fields DEF Simplified
<1> QED
  BY <1>1, <1>2, <1>3, MoveSimplifies, ConstSimplifies

LEMMA StrengthReduceKeepsValues ==
    ASSUME NEW fn, FunctionInOrder(fn), AllFolded(fn)
    PROVE  KeepsValues(EntryInstrs(fn), EntryInstrs(StrengthReduce(fn)))
<1> DEFINE s == EntryInstrs(fn)
           t == EntryInstrs(StrengthReduce(fn))
<1>1. \A k \in DOMAIN s : t[k] = IF s[k].op \in DOMAIN IrOperator THEN Reduce(s[k]) ELSE s[k]
  BY DEF FunctionInOrder, HasEntry, ForEachInstr, StrengthReduce, EntryInstrs
<1> HIDE DEF s, t
<1>2. \A k \in DOMAIN s : TakesOperands(s[k]) /\ Folded(s[k])
  BY EntryOf DEF s, InOrder, AllFolded
<1>3. ASSUME NEW val, NEW k \in DOMAIN s, t[k] # s[k] PROVE DoesInstead(val, s[k], t[k])
  <2>1. s[k].op \in DOMAIN IrOperator /\ t[k] = Reduce(s[k])
    BY <1>1, <1>3
  <2> QED
    BY <1>2, <1>3, <2>1, ReduceComputes, ReduceSimplifies DEF DoesInstead
<1> QED
  BY <1>3, KeptOneByOne DEF s, t

\* A map of copies gives each place before k one of the same value.
Carries(val, k, r) == \A j \in 1..(k - 1) : val[r[<<Entry, j>>]] = val[<<Entry, j>>]

LEMMA CopiedCarries ==
    ASSUME NEW S, NEW s \in Seq(S), \A j \in DOMAIN s : InOrder(s, j),
           NEW val, NEW k \in 1..Len(s), Executed(val, s, k - 1),
           NEW n \in 1..Len(s), NEW r, Renames(s, n - 1, r), Carries(val, k, r)
    PROVE  Carries(val, k, Copied(r, s[n]))
<1> DEFINE q == Copied(r, s[n])
<1>1. CASE ~IsCopy(s[n])
  BY <1>1 DEF Copied
<1>2. CASE IsCopy(s[n])
  <2>1. PICK p \in 1..(n - 1) : s[n].operands[1].ref = <<Entry, p>>
    BY <1>2, CopyRefersBack
  <2>2. s[n].id = <<Entry, n>>
    BY <1>2, CopyRefersBack
  <2>3. q = [r EXCEPT ![<<Entry, n>>] = r[<<Entry, p>>]]
    BY <1>2, <2>1, <2>2 DEF Copied
  <2>4. DOMAIN r = Places(s)
    BY DEF Renames
  <2> HIDE DEF q
  <2>5. ASSUME NEW j \in 1..(k - 1) PROVE val[q[<<Entry, j>>]] = val[<<Entry, j>>]
    <3>1. <<Entry, j>> \in Places(s)
      BY DEF Places
    <3>2. CASE j # n
      <4>1. <<Entry, j>> # <<Entry, n>>
        BY <3>2
      <4>2. q[<<Entry, j>>] = r[<<Entry, j>>]
        BY <2>3, <2>4, <3>1, <4>1
      <4> QED
        BY <4>2 DEF Carries
    <3>3. CASE j = n
      <4>1. q[<<Entry, n>>] = r[<<Entry, p>>]
        BY <2>3, <2>4, <3>1, <3>3
      <4>2. val[r[<<Entry, p>>]] = val[<<Entry, p>>]
        BY <3>3 DEF Carries
      <4>3. Computes(val, s[n])
        BY <3>3 DEF Executed
      <4>4. OperandValues(val, s[n])[1] = val[<<Entry, p>>]
        <5>1. 1 \in DOMAIN s[n].operands
          BY <1>2 DEF InOrder, TakesOperands, IsCopy
        <5>2. OperandValue(val, s[n].operands[1]) = val[<<Entry, p>>]
          <6>1. s[n].operands[1] \in Range(s[n].operands) /\ s[n].op # "UNDEF"
            BY <1>2, <5>1 DEF Range, IsCopy
          <6>2. RefersBack(s, n, s[n].operands[1])
            BY <6>1 DEF InOrder
          <6>3. PICK i \in 1..(n - 1) : s[n].operands[1] = Ref(<<Entry, i>>)
            BY <1>2, <6>2 DEF IsCopy, RefersBack
          <6> QED
            BY <2>1, <6>3, OperandIs, Operands
        <5> QED
          BY <5>1, <5>2 DEF OperandValues
      <4>5. val[s[n].id] = OperandValues(val, s[n])[1]
        BY <1>2, <4>3 DEF Computes, MayDefine, IsCopy, IrOperator, IrUnaryOperator
      <4> QED
        BY <2>2, <3>3, <4>1, <4>2, <4>4, <4>5
    <3> QED
      BY <3>2, <3>3
  <2> QED
    BY <2>5 DEF Carries, q
<1> QED
  BY <1>1, <1>2

LEMMA RenamingCarries ==
    ASSUME NEW fn, FunctionInOrder(fn), NEW val, NEW k \in DOMAIN EntryInstrs(fn),
           Executed(val, EntryInstrs(fn), k - 1)
    PROVE  Carries(val, k, Renaming(fn))
<1> PICK s : s = EntryInstrs(fn)
  OBVIOUS
<1>1. s \in Seq(Range(s)) /\ DOMAIN s = 1..Len(s) /\ Len(s) \in Nat /\ \A j \in DOMAIN s : InOrder(s, j)
  BY EntryOf
<1>2. PICK r : Maps(s, r) /\ Renaming(fn) = r[Len(s)]
  BY RenamingIs
<1>3. \A n \in 0..Len(s) : Renames(s, n, r[n])
  BY <1>1, <1>2, MapsRename
<1>4. r[0] = FirstMap(s) /\ \A n \in 1..Len(s) : r[n] = Copied(r[n - 1], s[n])
  BY <1>1, <1>2 DEF Maps
<1> DEFINE T == {n \in 0..Len(s) : Carries(val, k, r[n])}
<1>5. 0 \in T
  <2>1. \A j \in 1..(k - 1) : FirstMap(s)[<<Entry, j>>] = <<Entry, j>>
    BY <1>1 DEF FirstMap, Places
  <2>2. Carries(val, k, FirstMap(s))
    BY <2>1 DEF Carries
  <2> QED
    BY <1>1, <1>4, <2>2
<1>6. ASSUME NEW n \in 0..(Len(s) - 1), n \in T PROVE n + 1 \in T
  <2>1. n + 1 \in 1..Len(s) /\ (n + 1) - 1 = n /\ n \in 0..Len(s)
    BY <1>1
  <2>2. Carries(val, k, Copied(r[n], s[n + 1]))
    BY <1>1, <1>3, <1>6, <2>1, CopiedCarries
  <2> QED
    BY <1>1, <1>4, <2>1, <2>2
<1> HIDE DEF T
<1>7. 0..Len(s) \subseteq T
  <2>1. 0 \in Nat
    OBVIOUS
  <2> QED
    BY <1>1, <1>5, <1>6, <2>1, IntervalInduction
<1>8. Len(s) \in 0..Len(s)
  BY <1>1
<1> QED
  BY <1>2, <1>7, <1>8 DEF T

LEMMA CopyPropKeepsValues ==
    ASSUME NEW fn, FunctionInOrder(fn)
    PROVE  KeepsValues(EntryInstrs(fn), EntryInstrs(CopyProp(fn)))
<1> DEFINE s == EntryInstrs(fn)
           t == EntryInstrs(CopyProp(fn))
<1> PICK r : r = Renaming(fn)
  OBVIOUS
<1> DEFINE Operand(k) == [p \in DOMAIN s[k].operands |-> Renamed(r, s[k].operands[p])]
<1>1. \A k \in DOMAIN s :
          t[k] = Instr(IF IsCopy(s[k]) THEN "UNDEF" ELSE s[k].op, Operand(k), s[k].id)
  BY DEF FunctionInOrder, HasEntry, ForEachInstr, CopyProp, RenameAll, EntryInstrs
<1>2. \A val : \A k \in DOMAIN s : Executed(val, s, k - 1) => Carries(val, k, r)
  BY RenamingCarries
<1> HIDE DEF s, t
<1>3. \A k \in DOMAIN s : InOrder(s, k)
  BY EntryOf DEF s
<1>4. ASSUME NEW val, NEW k \in DOMAIN s, Executed(val, s, k - 1) PROVE DoesInstead(val, s[k], t[k])
  <2> PICK i : i = s[k]
    OBVIOUS
  <2>1. ASSUME NEW o, RefersBack(s, k, o) PROVE OperandValue(val, Renamed(r, o)) = OperandValue(val, o)
    <3>1. CASE ~(IsRef(o) /\ InTable(o.ref))
      BY <3>1 DEF Renamed
    <3>2. CASE IsRef(o) /\ InTable(o.ref)
      <4>1. PICK j \in 1..(k - 1) : o = Ref(<<Entry, j>>)
        BY <2>1, <3>2 DEF RefersBack
      <4>2. val[r[<<Entry, j>>]] = val[<<Entry, j>>]
        BY <1>2, <1>4 DEF Carries
      <4>3. Renamed(r, o) = Ref(r[<<Entry, j>>])
        BY <3>2, <4>1, Operands DEF Renamed
      <4> QED
        BY <4>1, <4>2, <4>3, OperandIs
    <3> QED
      BY <3>1, <3>2
  <2>2. CASE IsCopy(i)
    <3>1. t[k] = Instr("UNDEF", Operand(k), i.id) /\ i.op = "MOVE"
      BY <1>1, <2>2 DEF IsCopy
    <3> HIDE DEF Operand
    <3>2. t[k].op = "UNDEF"
      BY <3>1, Fields
    <3>3. Computes(val, t[k])
      BY <3>2 DEF Computes, MayDefine, IrOperator, IrUnaryOperator
    <3>4. Simplified(val, i, t[k])
      BY <3>1, <3>2 DEF Simplified, PureOp, DividesByZero
    <3> QED
      BY <3>3, <3>4 DEF DoesInstead
  <2>3. CASE ~IsCopy(i)
    <3>1. t[k].op = i.op /\ t[k].id = i.id /\ t[k].operands = Operand(k)
      BY <1>1, <2>3, Fields
    <3>2. CASE i.op = "UNDEF"
      BY <3>1, <3>2 DEF DoesInstead, SameInstr, Computes, MayDefine, IrOperator, IrUnaryOperator
    <3>3. CASE i.op # "UNDEF"
      <4>1. ASSUME NEW p \in DOMAIN i.operands
            PROVE  OperandValue(val, Renamed(r, i.operands[p])) = OperandValue(val, i.operands[p])
        <5>1. RefersBack(s, k, i.operands[p])
          BY <1>3, <3>3 DEF InOrder, Range
        <5> QED
          BY <2>1, <5>1
      <4>2. OperandValues(val, t[k]) = [p \in DOMAIN i.operands |-> OperandValue(val, Renamed(r, i.operands[p]))]
        BY <3>1 DEF OperandValues
      <4>3. OperandValues(val, t[k]) = OperandValues(val, i)
        BY <4>1, <4>2 DEF OperandValues
      <4> QED
        BY <3>1, <4>3 DEF DoesInstead, SameInstr, Computes
    <3> QED
      BY <3>2, <3>3
  <2> QED
    BY <2>2, <2>3
<1> QED
  BY <1>4 DEF KeepsValues, s, t

\* What a pass makes of one function is kept in the module.
LEMMA PassKeepsValues ==
    ASSUME ModuleInOrder, NEW name, NEW after, NEW progress, Pass(name, after, progress),
           FunctionInOrder(Function) => KeepsValues(EntryInstrs(Function), EntryInstrs(after))
    PROVE  \A f \in DOMAIN fns : KeepsValues(EntryInstrs(fns[f]), EntryInstrs(fns'[f]))
<1>1. PICK a : a = at[1]
  OBVIOUS
<1>2. fns' = [fns EXCEPT ![a] = after] /\ Function = fns[a]
  BY <1>1 DEF Pass, Function
<1>3. PICK g : g = fns'
  OBVIOUS
<1>4. ASSUME NEW f \in DOMAIN fns PROVE KeepsValues(EntryInstrs(fns[f]), EntryInstrs(g[f]))
  <2>1. CASE f = a
    BY <1>2, <1>3, <2>1 DEF ModuleInOrder
  <2>2. CASE f # a
    <3>1. g[f] = fns[f]
      BY <1>2, <1>3, <2>2
    <3> QED
      BY <3>1, KeptOneByOne
  <2> QED
    BY <2>1, <2>2
<1> QED
  BY <1>3, <1>4

\* ir_opt.c: whatever the entry block of a function is, behind instructions
\* that have run a pass leaves each of the others to compute what it did:
\* it is the same instruction of the same values, or one that computes the
\* value without a division by zero is replaced by a simpler one or removed.
THEOREM ValuesCarried == OptimizerSpec => ValuesKept
<1>1. ASSUME OptimizerInv, ModuleInOrder, [OptimizerNext]_optVars, fns # <<>>
      PROVE  \A f \in DOMAIN fns : KeepsValues(EntryInstrs(fns[f]), EntryInstrs(fns'[f]))
  <2>1. CASE PassConstFold
    BY <1>1, <2>1, PassKeepsValues, ConstFoldKeepsValues DEF PassConstFold
  <2>2. CASE PassDce
    BY <1>1, <2>2, PassKeepsValues, DceKeepsValues DEF PassDce
  <2>3. CASE PassCopyProp
    BY <1>1, <2>3, PassKeepsValues, CopyPropKeepsValues DEF PassCopyProp
  <2>4. CASE PassCse
    BY <1>1, <2>4, PassKeepsValues, CseKeepsValues DEF PassCse
  <2>5. CASE PassStrengthReduce
    <3>1. AllFolded(Function)
      BY <1>1, <2>5, FoldingIsFirst DEF PassStrengthReduce
    <3> QED
      BY <1>1, <2>5, <3>1, PassKeepsValues, StrengthReduceKeepsValues DEF PassStrengthReduce
  <2>6. CASE UNCHANGED fns
    <3>1. PICK g : g = fns'
      OBVIOUS
    <3>2. \A f \in DOMAIN fns : KeepsValues(EntryInstrs(fns[f]), EntryInstrs(g[f]))
      BY <2>6, <3>1, KeptOneByOne
    <3> QED
      BY <3>1, <3>2
  <2> QED
    BY <1>1, <2>1, <2>2, <2>3, <2>4, <2>5, <2>6
       DEF OptimizerNext, NewModule, StartOptimize, NextIteration, optVars
<1> QED
  BY <1>1, OptimizerInvariance, ValuesComeFirst, PTL DEF OptimizerSpec, ValuesKept
=============================================================================
