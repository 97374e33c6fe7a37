------------------------------- MODULE Values -------------------------------
(***************************************************************************)
(* value.h, value.c and the operators of vm.c: the values a program        *)
(* computes with.  A float is one opaque value: programs here write none,  *)
(* they only come from an operator given something other than integers,    *)
(* and every question about one has any answer.  Integers do not wrap:     *)
(* the programs stay far from 2^63.                                        *)
(***************************************************************************)
EXTENDS Integers, Sequences

NilVal == [tag |-> "nil"]
BoolVal(b) == [tag |-> "bool", bool |-> b]
IntVal(n) == [tag |-> "int", int |-> n]
\* A string has a home: the fiber whose task arena it lies in, or 0 for a
\* constant, which the machine's own arena holds.
StrVal(s) == [tag |-> "str", str |-> s, home |-> 0]
FnVal(f) == [tag |-> "fn", fn |-> f]
CapVal(c) == [tag |-> "cap", cap |-> c]
FloatVal == [tag |-> "float"]

IsInt(v) == v.tag = "int"

\* value_is_truthy, as the set of its possible answers.
ValueIsTruthy(v) ==
    CASE v.tag = "nil" -> {FALSE}
      [] v.tag = "bool" -> {v.bool}
      [] v.tag = "int" -> {v.int # 0}
      [] v.tag = "str" -> {v.str # ""}
      [] v.tag = "float" -> BOOLEAN
      [] OTHER -> {TRUE}

\* A value as it is printed and compared.
Bare(v) == IF v.tag = "str" THEN StrVal(v.str) ELSE v

\* value_equals: values of two types are never equal.
ValueEquals(a, b) ==
    IF a.tag = "float" /\ b.tag = "float" THEN BOOLEAN ELSE {Bare(a) = Bare(b)}

\* Integer division and remainder of C: towards zero.
Sign(n) == IF n < 0 THEN -1 ELSE 1
Magnitude(n) == n * Sign(n)
TruncDiv(a, b) == Sign(a) * Sign(b) * (Magnitude(a) \div Magnitude(b))
TruncMod(a, b) == a - b * TruncDiv(a, b)

\* What a bit operation reads from a value that is no integer is whatever
\* its union holds; two integers stand for all of them.
RawInt(v) == IF IsInt(v) THEN {v.int} ELSE {0, 1}

\* The bits of two integers, from two's complement.  Shifts are by a small
\* distance to the left of, or arithmetically to the right of, an integer.
Bitwise2(a, b, op) ==
    LET bit(x, y) == CASE op = "&" -> x * y
                       [] op = "|" -> IF x + y > 0 THEN 1 ELSE 0
                       [] op = "^" -> (x + y) % 2
        bits[p \in Int \X Int] ==
            IF {p[1], p[2]} \subseteq {0, -1}
            THEN -bit(-p[1], -p[2])
            ELSE bit(p[1] % 2, p[2] % 2) + 2 * bits[<<p[1] \div 2, p[2] \div 2>>]
    IN  bits[<<a, b>>]

BitOp(op, a, b) ==
    CASE op \in {"&", "|", "^"} -> Bitwise2(a, b, op)
      [] op = "<<" -> a * 2^b
      [] op = ">>" -> a \div 2^b

ArithmeticOp == {"+", "-", "*", "/"}
CompareOp == {"<", "<=", ">", ">="}
BitOps == {"&", "|", "^", "<<", ">>"}

IntArithmetic(op, a, b) ==
    CASE op = "+" -> a + b [] op = "-" -> a - b [] op = "*" -> a * b [] op = "/" -> TruncDiv(a, b)
IntCompare(op, a, b) ==
    CASE op = "<" -> a < b [] op = "<=" -> a <= b [] op = ">" -> a > b [] op = ">=" -> a >= b

\* OP_DIV and OP_MOD return a run-time error on a zero divisor: an integer
\* zero for the one, whatever reads as zero for the other.
MayDivideByZero(op, b) ==
    CASE op = "/" -> {IsInt(b) /\ b.int = 0}
      [] op = "%" -> {n = 0 : n \in RawInt(b)}
      [] OTHER -> {FALSE}

\* The values an operator of vm.c may push for a and b: at most one, and
\* none at all when OP_ADD is given operands it has no case for.
BinaryResults(op, a, b) ==
    CASE op = "==" -> {<<BoolVal(t)>> : t \in ValueEquals(a, b)}
      [] op = "!=" -> {<<BoolVal(~t)>> : t \in ValueEquals(a, b)}
      [] op \in BitOps -> {<<IntVal(BitOp(op, x, y))>> : x \in RawInt(a), y \in RawInt(b)}
      [] op = "%" -> {<<IntVal(TruncMod(x, y))>> : x \in RawInt(a), y \in RawInt(b) \ {0}}
      [] op \in CompareOp ->
           IF IsInt(a) /\ IsInt(b) THEN {<<BoolVal(IntCompare(op, a.int, b.int))>>}
           ELSE {<<BoolVal(t)>> : t \in BOOLEAN}
      [] op \in ArithmeticOp ->
           IF IsInt(a) /\ IsInt(b) THEN {<<IntVal(IntArithmetic(op, a.int, b.int))>>}
           ELSE IF op # "+" \/ "float" \in {a.tag, b.tag} THEN {<<FloatVal>>}
           ELSE IF {a.tag, b.tag} = {"str"} THEN {<<StrVal(a.str \o b.str)>>}
           ELSE {<<>>}

\* OP_NEG, OP_NOT, OP_BIT_NOT.
UnaryResults(op, a) ==
    CASE op = "not" -> {<<BoolVal(~t)>> : t \in ValueIsTruthy(a)}
      [] op = "~" -> {<<IntVal(-n - 1)>> : n \in RawInt(a)}
      [] op = "-" -> IF IsInt(a) THEN {<<IntVal(-a.int)>>}
                     ELSE IF a.tag = "float" THEN {<<FloatVal>>} ELSE {<<>>}
=============================================================================
