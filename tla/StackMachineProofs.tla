------------------------- MODULE StackMachineProofs -------------------------
(***************************************************************************)
(* The machine that executes bytecode implements FiberVM, whatever the     *)
(* bytecode, for any number of fibers and any limits.  A step of it can    *)
(* only be mapped while its state is one that FiberVM reaches, so that     *)
(* FiberVM's inductive invariant (P!IInv) is carried along.                *)
(***************************************************************************)
EXTENDS StackMachine, SequenceTheorems, TLAPS

P == INSTANCE FiberVMProofs WITH
         depth <- [f \in Fibers |-> Len(stack[f])],
         frames <- [f \in Fibers |-> [i \in DOMAIN frames[f] |-> frames[f][i].slots]],
         MaxArgs <- StackMax - 1,
         RequestNames <- (Capability \ {"other"}) \cup {"stdio", "file", "net", "all", "unknown"}

\* The assumptions of FiberVM hold of what the machine puts for its constants.
LEMMA Assumptions ==
  /\ P!FibersAssumption /\ P!StackMaxAssumption /\ P!FramesMaxAssumption
  /\ P!SliceBudgetAssumption /\ P!MaxArgsAssumption /\ P!ArgumentsAssumption
  /\ P!DefaultCapabilitiesAssumption
<1>1. P!FibersAssumption
  BY FibersAssumption DEF IsFiniteSet, P!IsFiniteSet
<1>2. P!StackMaxAssumption /\ P!FramesMaxAssumption /\ P!SliceBudgetAssumption
  BY StackMaxAssumption, FramesMaxAssumption, SliceBudgetAssumption
<1>3. P!MaxArgsAssumption /\ P!ArgumentsAssumption
  BY StackMaxAssumption, ArgumentsAssumption
<1>4. P!DefaultCapabilitiesAssumption
  BY DefaultCapabilitiesAssumption DEF P!Capability, Capability
<1>5. QED
  BY <1>1, <1>2, <1>3, <1>4

-----------------------------------------------------------------------------
(* The inductive invariant.  Nothing is said of the values on a stack: a   *)
(* program may compute anything.                                           *)

IsSeq(s) == \E n \in Nat : s = [i \in 1..n |-> s[i]]

IsStack(s) == IsSeq(s) /\ Len(s) <= StackMax

IsFrame(r) ==
    /\ r = [fn |-> r.fn, ip |-> r.ip, slots |-> r.slots]
    /\ r.slots \in 0..StackMax

IsFrames(s) == IsSeq(s) /\ \A i \in DOMAIN s : IsFrame(s[i])

StackShape ==
    /\ stack = [f \in Fibers |-> stack[f]]
    /\ \A f \in Fibers : IsStack(stack[f])

FrameShape ==
    /\ frames = [f \in Fibers |-> frames[f]]
    /\ \A f \in Fibers : IsFrames(frames[f])

Shape == StackShape /\ FrameShape

MInv == Shape /\ OperandsFit(program) /\ P!IInv

-----------------------------------------------------------------------------
(* Sequences of anything. *)

LEMMA SeqOfSome ==
  ASSUME NEW s, IsSeq(s)
  PROVE  /\ s \in Seq({s[i] : i \in DOMAIN s})
         /\ Len(s) \in Nat /\ DOMAIN s = 1..Len(s)
<1>1. PICK n \in Nat : s = [i \in 1..n |-> s[i]]
  BY DEF IsSeq
<1>2. DOMAIN s = 1..n
  BY <1>1
<1>3. s \in [1..n -> {s[i] : i \in DOMAIN s}]
  BY <1>1, <1>2
<1>4. s \in Seq({s[i] : i \in DOMAIN s})
  BY <1>3
<1>5. QED
  BY <1>4

LEMMA SeqIsSeq == ASSUME NEW S, NEW s \in Seq(S) PROVE IsSeq(s)
<1>1. Len(s) \in Nat /\ s = [i \in 1..Len(s) |-> s[i]]
  OBVIOUS
<1>2. QED
  BY <1>1 DEF IsSeq

LEMMA FunIsSeq ==
  ASSUME NEW n \in Nat, NEW s, s = [i \in 1..n |-> s[i]]
  PROVE  IsSeq(s) /\ Len(s) = n
<1>1. IsSeq(s) /\ DOMAIN s = 1..n
  BY DEF IsSeq
<1>2. Len(s) \in Nat /\ 1..Len(s) = 1..n
  BY <1>1, SeqOfSome
<1>3. QED
  BY <1>1, <1>2

LEMMA EmptyIsSeq == IsSeq(<<>>) /\ Len(<<>>) = 0
<1>1. PICK S : S = {0}
  OBVIOUS
<1>2. <<>> \in Seq(S) /\ Len(<<>>) = 0
  BY EmptySeq
<1>3. QED
  BY <1>2, SeqIsSeq

LEMMA OneSeq == ASSUME NEW v PROVE IsSeq(<<v>>) /\ Len(<<v>>) = 1 /\ <<v>>[1] = v
<1>1. <<v>> \in Seq({v})
  OBVIOUS
<1>2. QED
  BY <1>1, SeqIsSeq

LEMMA AppendSeq ==
  ASSUME NEW s, IsSeq(s), NEW v
  PROVE  /\ IsSeq(Append(s, v)) /\ Len(Append(s, v)) = Len(s) + 1
         /\ \A i \in 1..Len(s) : Append(s, v)[i] = s[i]
         /\ Append(s, v)[Len(s) + 1] = v
<1>1. PICK R : R = {s[i] : i \in DOMAIN s}
  OBVIOUS
<1>2. PICK S : S = R \cup {v}
  OBVIOUS
<1>3. s \in Seq(R)
  BY <1>1, SeqOfSome
<1>4. s \in Seq(S) /\ v \in S
  BY <1>2, <1>3
<1>5. Append(s, v) \in Seq(S)
  BY <1>4
<1>6. IsSeq(Append(s, v))
  BY <1>5, SeqIsSeq
<1>7. QED
  BY <1>4, <1>6

LEMMA SubSeqSeq ==
  ASSUME NEW s, IsSeq(s), NEW m \in Nat \ {0}, NEW n \in 0..Len(s), m <= n + 1
  PROVE  /\ IsSeq(SubSeq(s, m, n)) /\ Len(SubSeq(s, m, n)) = n - m + 1
         /\ \A i \in 1..(n - m + 1) : SubSeq(s, m, n)[i] = s[i + m - 1]
<1>1. PICK S : s \in Seq(S)
  BY SeqOfSome
<1>2. /\ SubSeq(s, m, n) \in Seq(S) /\ Len(SubSeq(s, m, n)) = n - m + 1
      /\ \A i \in 1..(n - m + 1) : SubSeq(s, m, n)[i] = s[i + m - 1]
  <2>1. Len(s) \in Nat
    BY <1>1
  <2>2. QED
    BY <1>1, <2>1
<1>3. QED
  BY <1>2, SeqIsSeq

LEMMA PrefixSeq ==
  ASSUME NEW s, IsSeq(s), NEW n \in 0..Len(s)
  PROVE  IsSeq(SubSeq(s, 1, n)) /\ Len(SubSeq(s, 1, n)) = n /\ \A i \in 1..n : SubSeq(s, 1, n)[i] = s[i]
<1>1. PICK S : s \in Seq(S)
  BY SeqOfSome
<1>2. Len(s) \in Nat /\ n \in Nat
  BY <1>1
<1>3. /\ SubSeq(s, 1, n) \in Seq(S) /\ Len(SubSeq(s, 1, n)) = n
      /\ \A i \in 1..n : SubSeq(s, 1, n)[i] = s[i]
  BY <1>1, <1>2
<1>4. QED
  BY <1>3, SeqIsSeq

LEMMA UpdateSeq ==
  ASSUME NEW s, IsSeq(s), NEW k, NEW v
  PROVE  IsSeq([s EXCEPT ![k] = v]) /\ Len([s EXCEPT ![k] = v]) = Len(s)
<1>1. PICK t : t = [s EXCEPT ![k] = v]
  OBVIOUS
<1>2. Len(s) \in Nat /\ DOMAIN s = 1..Len(s)
  BY SeqOfSome
<1>3. t = [i \in 1..Len(s) |-> t[i]]
  BY <1>1, <1>2
<1>4. IsSeq(t) /\ Len(t) = Len(s)
  BY <1>2, <1>3, FunIsSeq
<1>5. QED
  BY <1>1, <1>4

LEMMA ConcatSeq ==
  ASSUME NEW s, IsSeq(s), NEW t, IsSeq(t)
  PROVE  IsSeq(s \o t) /\ Len(s \o t) = Len(s) + Len(t)
<1>1. PICK R : R = {s[i] : i \in DOMAIN s}
  OBVIOUS
<1>2. PICK T : T = {t[i] : i \in DOMAIN t}
  OBVIOUS
<1>3. PICK S : S = R \cup T
  OBVIOUS
<1>4. s \in Seq(R) /\ t \in Seq(T)
  BY <1>1, <1>2, SeqOfSome
<1>5. s \in Seq(S) /\ t \in Seq(S)
  BY <1>3, <1>4
<1>6. s \o t \in Seq(S) /\ Len(s \o t) = Len(s) + Len(t)
  BY <1>5, ConcatProperties
<1>7. QED
  BY <1>6, SeqIsSeq

-----------------------------------------------------------------------------
(* The stack with its flag: FiberStack's, once the values are left out.    *)

Flagged(s) ==
    /\ s = [values |-> s.values, ok |-> s.ok]
    /\ IsStack(s.values)
    /\ s.ok \in BOOLEAN

Abs(s) == [depth |-> Len(s.values), ok |-> s.ok]

LEMMA PushAbs ==
  ASSUME NEW s, Flagged(s), NEW v
  PROVE  Flagged(Push(s, v)) /\ Abs(Push(s, v)) = P!FiberPush(Abs(s))
<1>1. Len(s.values) \in 0..StackMax
  BY SeqOfSome DEF Flagged, IsStack
<1>2. CASE Depth(s) >= StackMax
  <2>1. Push(s, v) = [values |-> s.values, ok |-> FALSE]
    BY <1>2 DEF Push, Flagged
  <2>2. P!FiberPush(Abs(s)) = [depth |-> Len(s.values), ok |-> FALSE]
    BY <1>2 DEF P!FiberPush, Abs, Depth
  <2>3. QED
    BY <2>1, <2>2 DEF Flagged, Abs
<1>3. CASE ~(Depth(s) >= StackMax)
  <2>1. Push(s, v) = [values |-> Append(s.values, v), ok |-> s.ok]
    BY <1>3 DEF Push, Flagged
  <2>2. P!FiberPush(Abs(s)) = [depth |-> Len(s.values) + 1, ok |-> s.ok]
    BY <1>3 DEF P!FiberPush, Abs, Depth
  <2>3. IsSeq(Append(s.values, v)) /\ Len(Append(s.values, v)) = Len(s.values) + 1
    BY AppendSeq DEF Flagged, IsStack
  <2>4. Len(s.values) + 1 <= StackMax
    BY <1>1, <1>3, StackMaxAssumption DEF Depth
  <2>5. QED
    BY <2>1, <2>2, <2>3, <2>4 DEF Flagged, Abs, IsStack
<1>4. QED
  BY <1>2, <1>3

LEMMA EmptyStack == ASSUME NEW s, IsStack(s) PROVE s = <<>> <=> Len(s) = 0
<1>1. PICK S : s \in Seq(S)
  BY SeqOfSome DEF IsStack
<1>2. QED
  BY <1>1, EmptySeq

LEMMA StackPrefix ==
  ASSUME NEW s, IsStack(s), NEW n \in 0..Len(s)
  PROVE  IsStack(SubSeq(s, 1, n)) /\ Len(SubSeq(s, 1, n)) = n
<1>1. IsSeq(s) /\ Len(s) \in Nat /\ Len(s) <= StackMax
  BY SeqOfSome DEF IsStack
<1>2. IsSeq(SubSeq(s, 1, n)) /\ Len(SubSeq(s, 1, n)) = n
  BY <1>1, SubSeqSeq
<1>3. QED
  BY <1>1, <1>2, StackMaxAssumption DEF IsStack

LEMMA PopAbs ==
  ASSUME NEW s, Flagged(s)
  PROVE  Flagged(Pop(s)) /\ Abs(Pop(s)) = P!FiberPop(Abs(s))
<1>1. Len(s.values) \in 0..StackMax /\ IsStack(s.values)
  BY SeqOfSome DEF Flagged, IsStack
<1>2. CASE s.values = <<>>
  <2>1. Pop(s) = [values |-> s.values, ok |-> FALSE]
    BY <1>2 DEF Pop, Flagged
  <2>2. P!FiberPop(Abs(s)) = [depth |-> Len(s.values), ok |-> FALSE]
    BY <1>1, <1>2, EmptyStack DEF P!FiberPop, Abs
  <2>3. QED
    BY <2>1, <2>2 DEF Flagged, Abs
<1>3. CASE s.values # <<>>
  <2>1. Pop(s) = [values |-> SubSeq(s.values, 1, Len(s.values) - 1), ok |-> s.ok]
    BY <1>3 DEF Pop, Flagged, Front
  <2>2. Len(s.values) # 0
    BY <1>1, <1>3, EmptyStack
  <2>3. P!FiberPop(Abs(s)) = [depth |-> Len(s.values) - 1, ok |-> s.ok]
    BY <2>2 DEF P!FiberPop, Abs
  <2>4. Len(s.values) - 1 \in 0..Len(s.values)
    BY <1>1, <2>2, StackMaxAssumption
  <2>5. /\ IsStack(SubSeq(s.values, 1, Len(s.values) - 1))
        /\ Len(SubSeq(s.values, 1, Len(s.values) - 1)) = Len(s.values) - 1
    BY <1>1, <2>4, StackPrefix
  <2>6. PICK t : t = SubSeq(s.values, 1, Len(s.values) - 1)
    OBVIOUS
  <2>7. Pop(s) = [values |-> t, ok |-> s.ok] /\ IsStack(t) /\ Len(t) = Len(s.values) - 1
    BY <2>1, <2>5, <2>6
  <2>8. Flagged(Pop(s))
    BY <2>7 DEF Flagged
  <2>9. Abs(Pop(s)) = [depth |-> Len(s.values) - 1, ok |-> s.ok]
    BY <2>7 DEF Abs
  <2>10. QED
    BY <2>3, <2>8, <2>9
<1>4. QED
  BY <1>2, <1>3

LEMMA PopNAbs ==
  ASSUME NEW s, Flagged(s), NEW n \in Nat
  PROVE  Flagged(PopN(s, n)) /\ Abs(PopN(s, n)) = P!PopMany(Abs(s), n)
<1>1. Len(s.values) \in 0..StackMax /\ IsStack(s.values)
  BY SeqOfSome DEF Flagged, IsStack
<1>2. CASE n <= Depth(s)
  <2>1. PopN(s, n) = [values |-> SubSeq(s.values, 1, Len(s.values) - n), ok |-> s.ok]
    BY <1>2 DEF PopN, Flagged
  <2>2. P!PopMany(Abs(s), n) = [depth |-> Len(s.values) - n, ok |-> s.ok]
    BY <1>1, <1>2 DEF P!PopMany, Abs, Depth
  <2>3. Len(s.values) - n \in 0..Len(s.values)
    BY <1>1, <1>2, StackMaxAssumption DEF Depth
  <2>4. /\ IsStack(SubSeq(s.values, 1, Len(s.values) - n))
        /\ Len(SubSeq(s.values, 1, Len(s.values) - n)) = Len(s.values) - n
    BY <1>1, <2>3, StackPrefix
  <2>5. QED
    BY <2>1, <2>2, <2>4 DEF Flagged, Abs
<1>3. CASE ~(n <= Depth(s))
  <2>1. PopN(s, n) = [values |-> <<>>, ok |-> FALSE]
    BY <1>3 DEF PopN, Flagged
  <2>2. P!PopMany(Abs(s), n) = [depth |-> 0, ok |-> FALSE]
    BY <1>1, <1>3 DEF P!PopMany, Abs, Depth
  <2>3. IsStack(<<>>) /\ Len(<<>>) = 0
    BY EmptyIsSeq, StackMaxAssumption DEF IsStack
  <2>4. QED
    BY <2>1, <2>2, <2>3 DEF Flagged, Abs
<1>4. QED
  BY <1>2, <1>3

\* Two pops, one by one.
LEMMA PopManyTwo ==
  ASSUME NEW d \in Nat, NEW ok, NEW n \in {0, 2}
  PROVE  LET s == [depth |-> d, ok |-> ok]
         IN  /\ P!PopMany(s, n) = P!Apply(s, n, 0)
             /\ P!FiberPush(P!PopMany(s, n)) = P!Apply(s, n, 1)
<1>1. P!PopMany([depth |-> d, ok |-> ok], n) = P!Apply([depth |-> d, ok |-> ok], n, 0)
  <2>1. CASE n = 0
    BY <2>1 DEF P!PopMany, P!Apply
  <2>2. CASE n = 2
    <3>1. CASE d = 0
      <4>1. P!FiberPop([depth |-> d, ok |-> ok]) = [depth |-> 0, ok |-> FALSE]
        BY <3>1 DEF P!FiberPop
      <4>2. P!FiberPop([depth |-> 0, ok |-> FALSE]) = [depth |-> 0, ok |-> FALSE]
        BY DEF P!FiberPop
      <4>3. P!PopMany([depth |-> d, ok |-> ok], n) = [depth |-> 0, ok |-> FALSE]
        <5>1. ~([depth |-> d, ok |-> ok].depth >= n)
          BY <2>2, <3>1
        <5>2. QED
          BY <5>1 DEF P!PopMany
      <4>4. QED
        BY <2>2, <4>1, <4>2, <4>3 DEF P!Apply
    <3>2. CASE d = 1
      <4>1. P!FiberPop([depth |-> d, ok |-> ok]) = [depth |-> 0, ok |-> ok]
        BY <3>2 DEF P!FiberPop
      <4>2. P!FiberPop([depth |-> 0, ok |-> ok]) = [depth |-> 0, ok |-> FALSE]
        BY DEF P!FiberPop
      <4>3. P!PopMany([depth |-> d, ok |-> ok], n) = [depth |-> 0, ok |-> FALSE]
        <5>1. ~([depth |-> d, ok |-> ok].depth >= n)
          BY <2>2, <3>2
        <5>2. QED
          BY <5>1 DEF P!PopMany
      <4>4. QED
        BY <2>2, <4>1, <4>2, <4>3 DEF P!Apply
    <3>3. CASE d >= 2
      <4>1. P!FiberPop([depth |-> d, ok |-> ok]) = [depth |-> d - 1, ok |-> ok]
        BY <3>3 DEF P!FiberPop
      <4>2. P!FiberPop([depth |-> d - 1, ok |-> ok]) = [depth |-> d - 2, ok |-> ok]
        BY <3>3 DEF P!FiberPop
      <4>3. P!PopMany([depth |-> d, ok |-> ok], n) = [depth |-> d - 2, ok |-> ok]
        BY <2>2, <3>3 DEF P!PopMany
      <4>4. QED
        BY <2>2, <4>1, <4>2, <4>3 DEF P!Apply
    <3>4. QED
      BY <3>1, <3>2, <3>3
  <2>3. QED
    BY <2>1, <2>2
<1>2. P!FiberPush(P!Apply([depth |-> d, ok |-> ok], n, 0)) = P!Apply([depth |-> d, ok |-> ok], n, 1)
  BY DEF P!Apply
<1>3. QED
  BY <1>1, <1>2

-----------------------------------------------------------------------------
(* What FiberVM sees of the machine. *)

Depths == [f \in Fibers |-> Len(stack[f])]
Bases == [f \in Fibers |-> [i \in DOMAIN frames[f] |-> frames[f][i].slots]]
SlotsOf(t) == [i \in DOMAIN t |-> t[i].slots]

LEMMA StackPut ==
  ASSUME StackShape, NEW g \in Fibers, NEW t, IsStack(t), stack' = [stack EXCEPT ![g] = t]
  PROVE  StackShape' /\ Depths' = [Depths EXCEPT ![g] = Len(t)]
<1>1. stack'[g] = t /\ \A f \in Fibers : f # g => stack'[f] = stack[f]
  BY DEF StackShape
<1>2. stack' = [f \in Fibers |-> stack'[f]]
  BY DEF StackShape
<1>3. \A f \in Fibers : IsStack(stack'[f])
  BY <1>1 DEF StackShape
<1>4. Depths' = [Depths EXCEPT ![g] = Len(t)]
  <2>1. Depths' = [f \in Fibers |-> Len(stack'[f])]
    BY DEF Depths
  <2>2. [Depths EXCEPT ![g] = Len(t)] = [f \in Fibers |-> IF f = g THEN Len(t) ELSE Len(stack[f])]
    BY DEF Depths
  <2>3. \A f \in Fibers : Len(stack'[f]) = IF f = g THEN Len(t) ELSE Len(stack[f])
    BY <1>1
  <2>4. QED
    BY <2>1, <2>2, <2>3
<1>5. StackShape'
  BY <1>2, <1>3 DEF StackShape, IsStack, IsSeq
<1>6. QED
  BY <1>4, <1>5

LEMMA FramePut ==
  ASSUME FrameShape, NEW g \in Fibers, NEW t, IsFrames(t), frames' = [frames EXCEPT ![g] = t]
  PROVE  FrameShape' /\ Bases' = [Bases EXCEPT ![g] = SlotsOf(t)]
<1>1. frames'[g] = t /\ \A f \in Fibers : f # g => frames'[f] = frames[f]
  BY DEF FrameShape
<1>2. frames' = [f \in Fibers |-> frames'[f]]
  BY DEF FrameShape
<1>3. \A f \in Fibers : IsFrames(frames'[f])
  BY <1>1 DEF FrameShape
<1>4. Bases' = [Bases EXCEPT ![g] = SlotsOf(t)]
  <2>1. Bases' = [f \in Fibers |-> SlotsOf(frames'[f])]
    BY DEF Bases, SlotsOf
  <2>2. [Bases EXCEPT ![g] = SlotsOf(t)]
        = [f \in Fibers |-> IF f = g THEN SlotsOf(t) ELSE SlotsOf(frames[f])]
    BY DEF Bases, SlotsOf
  <2>3. \A f \in Fibers : SlotsOf(frames'[f]) = IF f = g THEN SlotsOf(t) ELSE SlotsOf(frames[f])
    BY <1>1
  <2>4. QED
    BY <2>1, <2>2, <2>3
<1>5. FrameShape'
  BY <1>2, <1>3 DEF FrameShape
<1>6. QED
  BY <1>4, <1>5

\* A jump moves the ip of one frame.
LEMMA FrameJump ==
  ASSUME NEW t, IsFrames(t), NEW k, NEW ip
  PROVE  LET u == [t EXCEPT ![k].ip = ip]
         IN  IsFrames(u) /\ Len(u) = Len(t) /\ SlotsOf(u) = SlotsOf(t)
<1>1. PICK r : r = [t[k] EXCEPT !.ip = ip]
  OBVIOUS
<1>2. PICK u : u = [t EXCEPT ![k] = r]
  OBVIOUS
<1>3. u = [t EXCEPT ![k].ip = ip]
  BY <1>1, <1>2
<1>4. IsSeq(u) /\ Len(u) = Len(t) /\ DOMAIN u = DOMAIN t
  BY <1>2, UpdateSeq DEF IsFrames
<1>5. \A i \in DOMAIN t : IsFrame(t[i])
  BY DEF IsFrames
<1>6. ASSUME k \in DOMAIN t
      PROVE  IsFrame(r) /\ r.slots = t[k].slots
  <2>1. IsFrame(t[k])
    BY <1>5, <1>6
  <2>2. r = [fn |-> t[k].fn, ip |-> ip, slots |-> t[k].slots]
    BY <1>1, <2>1 DEF IsFrame
  <2>3. QED
    BY <2>1, <2>2 DEF IsFrame
<1>7. \A i \in DOMAIN u : IsFrame(u[i]) /\ u[i].slots = t[i].slots
  BY <1>2, <1>4, <1>5, <1>6
<1>8. IsFrames(u) /\ SlotsOf(u) = SlotsOf(t)
  BY <1>4, <1>7 DEF IsFrames, SlotsOf
<1>9. QED
  BY <1>3, <1>4, <1>8

LEMMA JumpMaps ==
  ASSUME FrameShape, fiber \in Fibers, NEW ip, JumpTo(ip)
  PROVE  FrameShape' /\ UNCHANGED Bases
<1>1. PICK t : t = frames[fiber]
  OBVIOUS
<1>2. PICK u : u = [t EXCEPT ![Len(t)].ip = ip]
  OBVIOUS
<1>3. frames' = [frames EXCEPT ![fiber] = u]
  BY <1>1, <1>2 DEF JumpTo
<1>4. IsFrames(u) /\ SlotsOf(u) = SlotsOf(t)
  <2>1. IsFrames(t)
    BY <1>1 DEF FrameShape
  <2>2. QED
    BY <1>2, <2>1, FrameJump
<1>5. FrameShape' /\ Bases' = [Bases EXCEPT ![fiber] = SlotsOf(u)]
  BY <1>3, <1>4, FramePut
<1>6. Bases[fiber] = SlotsOf(u)
  BY <1>1, <1>4 DEF Bases, SlotsOf
<1>7. QED
  BY <1>5, <1>6 DEF Bases

\* The fiber of a slice that goes on.
LEMMA RunningFiber ==
  ASSUME MInv, pc = "slice", SliceGoesOn
  PROVE  /\ fiber \in Fibers /\ fiber = currentFiber
         /\ state[fiber] = "RUNNING" /\ P!SliceGoesOn
         /\ IsStack(stack[fiber]) /\ IsFrames(frames[fiber])
         /\ Flagged(Top) /\ Abs(Top) = P!At(Depths[fiber])
<1>1. P!IInv /\ P!SliceGoesOn
  BY DEF MInv, SliceGoesOn, P!SliceGoesOn
<1>2. fiber \in Fibers /\ fiber = currentFiber /\ state[fiber] = "RUNNING"
  BY <1>1, Assumptions, P!RunningIsCurrent
<1>3. IsStack(stack[fiber]) /\ IsFrames(frames[fiber])
  BY <1>2 DEF MInv, Shape, StackShape, FrameShape
<1>4. Top = [values |-> stack[fiber], ok |-> TRUE]
  BY DEF Top, Running, Stack
<1>5. Flagged(Top)
  BY <1>3, <1>4 DEF Flagged
<1>6. Abs(Top) = P!At(Depths[fiber])
  BY <1>2, <1>4 DEF Abs, P!At, Depths
<1>7. QED
  BY <1>1, <1>2, <1>3, <1>5, <1>6

LEMMA SetStackMaps ==
  ASSUME StackShape, fiber \in Fibers, NEW s, Flagged(s), SetStack(s)
  PROVE  StackShape' /\ P!SetStack(Abs(s))
<1>1. IsStack(s.values) /\ stack' = [stack EXCEPT ![fiber] = s.values]
  BY DEF Flagged, SetStack
<1>2. StackShape' /\ Depths' = [Depths EXCEPT ![fiber] = Len(s.values)]
  BY <1>1, StackPut
<1>3. Abs(s).depth = Len(s.values) /\ Abs(s).ok = s.ok
  BY DEF Abs
<1>4. P!SetStack(Abs(s))
  BY <1>2, <1>3 DEF SetStack, P!SetStack, Depths
<1>5. QED
  BY <1>2, <1>4

-----------------------------------------------------------------------------
(* The loop of vm_run_function and the host's calls. *)

LEMMA ShapeStays ==
  ASSUME Shape, UNCHANGED <<stack, frames>>
  PROVE  Shape' /\ UNCHANGED <<Depths, Bases>>
BY DEF Shape, StackShape, FrameShape, Depths, Bases

\* FiberVM's copy of scheduler.c is the machine's.
LEMMA SameSpawn == ASSUME NEW f, SchedulerSpawn(f) PROVE P!SchedulerSpawn(f)
BY DEF SchedulerSpawn, P!SchedulerSpawn, LinkFirst, P!LinkFirst, LinkAtTail, P!LinkAtTail,
       scanVars, P!scanVars, Live, P!Live

LEMMA SameScan ==
  /\ ScanBegin => P!ScanBegin
  /\ ScanAdvance => P!ScanAdvance
  /\ ScanTake => P!ScanTake
  /\ ScanFail => P!ScanFail
<1>1. ScanBegin => P!ScanBegin
  BY DEF ScanBegin, P!ScanBegin, ringVars, P!ringVars
<1>2. ScanAdvance => P!ScanAdvance
  BY DEF ScanAdvance, P!ScanAdvance, Runnable, P!Runnable, ringVars, P!ringVars
<1>3. ScanTake => P!ScanTake
  BY DEF ScanTake, P!ScanTake, Runnable, P!Runnable, ringVars, P!ringVars
<1>4. ScanFail => P!ScanFail
  BY DEF ScanFail, P!ScanFail, Runnable, P!Runnable, ringVars, P!ringVars
<1>5. QED
  BY <1>1, <1>2, <1>3, <1>4

LEMMA SameFinish == SchedulerFinishCurrent => P!SchedulerFinishCurrent
BY DEF SchedulerFinishCurrent, P!SchedulerFinishCurrent, FinishNothing, P!FinishNothing,
       FinishOnly, P!FinishOnly, FinishOneOfMany, P!FinishOneOfMany, FiberBefore, P!FiberBefore,
       schedVars, P!schedVars, ringVars, P!ringVars, scanVars, P!scanVars

LEMMA SameYield == SchedulerYield => P!SchedulerYield
BY DEF SchedulerYield, P!SchedulerYield, ringVars, P!ringVars, scanVars, P!scanVars

LEMMA LoopMaps == ASSUME MInv, Loop PROVE P!Loop /\ Shape' /\ program' = program
<1>1. UNCHANGED <<stack, frames, capabilities>> /\ program' = program
  BY DEF Loop, NoWork, PickBegin, PickSkip, PickTake, PickNone, SliceEnd, fiberVars
<1>2. Shape' /\ UNCHANGED <<Depths, Bases>>
  BY <1>1, ShapeStays DEF MInv
<1>3. CASE NoWork
  <2>1. P!NoWork
    BY <1>1, <1>2, <1>3 DEF NoWork, P!NoWork, Return, P!Return, Depths, Bases,
       schedVars, P!schedVars, ringVars, P!ringVars, scanVars, P!scanVars
  <2>2. QED
    BY <1>1, <1>2, <2>1 DEF P!Loop
<1>4. CASE PickBegin
  <2>1. P!PickBegin
    BY <1>1, <1>2, <1>4, SameScan DEF PickBegin, P!PickBegin, hostVars, Depths, Bases
  <2>2. QED
    BY <1>1, <1>2, <2>1 DEF P!Loop
<1>5. CASE PickSkip
  <2>1. P!PickSkip
    BY <1>1, <1>2, <1>5, SameScan DEF PickSkip, P!PickSkip, P!vmVars, loopVars, hostVars, Depths, Bases
  <2>2. QED
    BY <1>1, <1>2, <2>1 DEF P!Loop
<1>6. CASE PickTake
  <2>1. P!PickTake
    BY <1>1, <1>2, <1>6, SameScan DEF PickTake, P!PickTake, hostVars, Depths, Bases
  <2>2. QED
    BY <1>1, <1>2, <2>1 DEF P!Loop
<1>7. CASE PickNone
  <2>1. P!PickNone
    BY <1>1, <1>2, <1>7, SameScan DEF PickNone, P!PickNone, Return, P!Return, Depths, Bases
  <2>2. QED
    BY <1>1, <1>2, <2>1 DEF P!Loop
<1>8. CASE SliceEnd
  <2>1. P!SliceEnd
    BY <1>1, <1>2, <1>8
       DEF SliceEnd, P!SliceEnd, SliceGoesOn, P!SliceGoesOn, hostVars, Depths, Bases,
       schedVars, P!schedVars, ringVars, P!ringVars, scanVars, P!scanVars
  <2>2. QED
    BY <1>1, <1>2, <2>1 DEF P!Loop
<1>9. QED
  BY <1>3, <1>4, <1>5, <1>6, <1>7, <1>8 DEF Loop

\* The first frame of a new fiber.
LEMMA FirstFrame ==
  ASSUME NEW fn
  PROVE  LET t == <<[fn |-> fn, ip |-> 1, slots |-> 0]>>
         IN  IsFrames(t) /\ Len(t) = 1 /\ SlotsOf(t) = <<0>>
<1>1. PICK r : r = [fn |-> fn, ip |-> 1, slots |-> 0]
  OBVIOUS
<1>2. PICK t : t = <<r>>
  OBVIOUS
<1>3. IsSeq(t) /\ Len(t) = 1 /\ DOMAIN t = {1} /\ t[1] = r
  BY <1>2, OneSeq, SeqOfSome
<1>4. IsFrame(r)
  BY <1>1, StackMaxAssumption DEF IsFrame
<1>5. SlotsOf(t) = <<0>>
  BY <1>1, <1>3 DEF SlotsOf
<1>6. IsFrames(t)
  BY <1>3, <1>4 DEF IsFrames
<1>7. QED
  BY <1>1, <1>2, <1>3, <1>5, <1>6

LEMMA HostMaps ==
  ASSUME MInv, HostCall
  PROVE  P!Host /\ Shape' /\ OperandsFit(program)'
<1>1. CASE CompileError
  <2>1. Shape' /\ UNCHANGED <<Depths, Bases>> /\ program' = program
    BY <1>1, ShapeStays DEF MInv, CompileError, fiberVars
  <2>2. P!CompileError
    BY <1>1, <2>1
       DEF CompileError, P!CompileError, loopVars, fiberVars, Depths, Bases,
       schedVars, P!schedVars, ringVars, P!ringVars, scanVars, P!scanVars
  <2>3. QED
    BY <2>1, <2>2 DEF P!Host, MInv
<1>2. ASSUME NEW fns, OperandsFit(fns), RunFunction(fns)
      PROVE  P!Host /\ Shape' /\ OperandsFit(program)'
  <2>1. PICK f : f = NewFiber
    OBVIOUS
  <2>2. /\ SchedulerSpawn(f) /\ state' = [state EXCEPT ![f] = "READY"]
        /\ frames' = [frames EXCEPT ![f] = <<[fn |-> Len(fns), ip |-> 1, slots |-> 0]>>]
        /\ capabilities' = [capabilities EXCEPT ![f] = DefaultCapabilities]
        /\ stack' = [stack EXCEPT ![f] = <<FnVal(Len(fns))>>]
    BY <1>2, <2>1 DEF RunFunction, SpawnFiber
  <2>3. f \in Fibers
    BY <2>2 DEF SchedulerSpawn
  <2>4. IsStack(<<FnVal(Len(fns))>>) /\ Len(<<FnVal(Len(fns))>>) = 1
    BY OneSeq, StackMaxAssumption DEF IsStack
  <2>5. StackShape' /\ Depths' = [Depths EXCEPT ![f] = 1]
    BY <2>2, <2>3, <2>4, StackPut DEF MInv, Shape
  <2>6. FrameShape' /\ Bases' = [Bases EXCEPT ![f] = <<0>>]
    <3>1. PICK t : t = <<[fn |-> Len(fns), ip |-> 1, slots |-> 0]>>
      OBVIOUS
    <3>2. IsFrames(t) /\ SlotsOf(t) = <<0>>
      BY <3>1, FirstFrame
    <3>3. frames' = [frames EXCEPT ![f] = t]
      BY <2>2, <3>1
    <3>4. QED
      BY <2>3, <3>2, <3>3, FramePut DEF MInv, Shape
  <2>7. P!SpawnFiber(f, 0, DefaultCapabilities)
    BY <2>2, <2>6, SameSpawn DEF P!SpawnFiber, Bases
  <2>8. P!RunFunction
    BY <1>2, <2>3, <2>5, <2>7 DEF RunFunction, P!RunFunction, Depths
  <2>9. program' = fns
    BY <1>2 DEF RunFunction
  <2>10. QED
    BY <1>2, <2>5, <2>6, <2>8, <2>9 DEF P!Host, Shape, OperandsFit
<1>3. QED
  BY <1>1, <1>2 DEF HostCall

-----------------------------------------------------------------------------
(* The instructions. *)

\* What has to be shown of each.
Mapped == (P!SpawnInstruction \/ P!OtherInstruction) /\ Shape' /\ program' = program

LEMMA SpendMaps ==
  ASSUME MInv, NEW ops, Fetch(ops), Spend, result' = result
  PROVE  P!Executing
BY RunningFiber DEF Fetch, Spend, P!Executing

\* An instruction that does something to the stack and goes on.
LEMMA QuietMaps ==
  ASSUME MInv, NEW ops, Fetch(ops),
         NEW s, Flagged(s), SetStack(s),
         NEW pops, NEW pushes, <<pops, pushes>> \in P!StackEffect,
         Abs(s) = P!Apply(P!At(Depths[fiber]), pops, pushes),
         FrameShape', UNCHANGED Bases, Spend, SameRing, SameHost, capabilities' = capabilities
  PROVE  Mapped
<1>1. P!Executing
  BY SpendMaps DEF SameHost
<1>2. fiber \in Fibers
  BY RunningFiber DEF Fetch
<1>3. StackShape' /\ P!SetStack(Abs(s))
  BY <1>2, SetStackMaps DEF MInv, Shape
<1>4. P!Operate(pops, pushes)
  <2>1. P!SetStack(P!Apply(P!At(Depths[fiber]), pops, pushes))
    BY <1>3 DEF P!SetStack
  <2>2. UNCHANGED <<P!ringVars, P!scanVars, currentFiber, Bases, capabilities>> /\ effect' = "none"
    BY DEF SameRing, SameHost, ringVars, scanVars, P!ringVars, P!scanVars
  <2>3. QED
    BY ONLY <1>1, <2>1, <2>2 DEF P!Operate, Depths, Bases
<1>5. \E e \in P!StackEffect : P!Operate(e[1], e[2])
  <2>1. PICK e : e = <<pops, pushes>>
    OBVIOUS
  <2>2. e[1] = pops /\ e[2] = pushes
    BY <2>1
  <2>3. P!Operate(e[1], e[2])
    BY <1>4, <2>2
  <2>4. QED
    BY <2>1, <2>3
<1>6. QED
  BY <1>3, <1>5 DEF Mapped, P!OtherInstruction, Shape, Fetch

LEMMA OperateMaps ==
  ASSUME MInv, NEW ops, Fetch(ops),
         NEW s, Flagged(s), Operate(s),
         NEW pops, NEW pushes, <<pops, pushes>> \in P!StackEffect,
         Abs(s) = P!Apply(P!At(Depths[fiber]), pops, pushes)
  PROVE  Mapped
<1>1. fiber \in Fibers
  BY RunningFiber DEF Fetch
<1>2. FrameShape' /\ UNCHANGED Bases
  BY <1>1, JumpMaps DEF MInv, Shape, Operate, StepOver
<1>3. QED
  BY <1>2, QuietMaps DEF Operate

\* The effects on the stack, one by one.
LEMMA Effects ==
  ASSUME MInv, pc = "slice", SliceGoesOn, NEW v
  PROVE  LET under == P!At(Depths[fiber])
         IN  /\ Flagged(Top) /\ Abs(Top) = P!Apply(under, 0, 0)
             /\ Flagged(Push(Top, v)) /\ Abs(Push(Top, v)) = P!Apply(under, 0, 1)
             /\ Flagged(Pop(Top)) /\ Abs(Pop(Top)) = P!Apply(under, 1, 0)
             /\ Flagged(Push(Pop(Top), v)) /\ Abs(Push(Pop(Top), v)) = P!Apply(under, 1, 1)
<1>1. PICK under : under = P!At(Depths[fiber])
  OBVIOUS
<1>2. Flagged(Top) /\ Abs(Top) = under
  BY <1>1, RunningFiber
<1>3. Flagged(Push(Top, v)) /\ Abs(Push(Top, v)) = P!FiberPush(under)
  BY <1>2, PushAbs
<1>4. Flagged(Pop(Top)) /\ Abs(Pop(Top)) = P!FiberPop(under)
  BY <1>2, PopAbs
<1>5. Flagged(Push(Pop(Top), v)) /\ Abs(Push(Pop(Top), v)) = P!FiberPush(P!FiberPop(under))
  BY <1>4, PushAbs
<1>6. /\ P!Apply(under, 0, 0) = under /\ P!Apply(under, 0, 1) = P!FiberPush(under)
      /\ P!Apply(under, 1, 0) = P!FiberPop(under)
      /\ P!Apply(under, 1, 1) = P!FiberPush(P!FiberPop(under))
  BY DEF P!Apply
<1>7. QED
  BY <1>1, <1>2, <1>3, <1>4, <1>5, <1>6

LEMMA TwoPops ==
  ASSUME MInv, pc = "slice", SliceGoesOn, NEW v, NEW n \in {0, 2}
  PROVE  LET under == P!At(Depths[fiber])
         IN  /\ Flagged(PopN(Top, n)) /\ Abs(PopN(Top, n)) = P!Apply(under, n, 0)
             /\ Flagged(Push(PopN(Top, n), v)) /\ Abs(Push(PopN(Top, n), v)) = P!Apply(under, n, 1)
<1>1. PICK d : d = Depths[fiber]
  OBVIOUS
<1>2. PICK under : under = [depth |-> d, ok |-> TRUE]
  OBVIOUS
<1>3. under = P!At(Depths[fiber])
  BY <1>1, <1>2 DEF P!At
<1>4. d \in Nat
  <2>1. fiber \in Fibers /\ IsStack(stack[fiber])
    BY RunningFiber
  <2>2. QED
    BY <1>1, <2>1, SeqOfSome DEF Depths, IsStack
<1>5. Flagged(PopN(Top, n)) /\ Abs(PopN(Top, n)) = P!PopMany(under, n)
  BY <1>3, RunningFiber, PopNAbs
<1>6. Flagged(Push(PopN(Top, n), v)) /\ Abs(Push(PopN(Top, n), v)) = P!FiberPush(P!PopMany(under, n))
  BY <1>5, PushAbs
<1>7. P!PopMany(under, n) = P!Apply(under, n, 0) /\ P!FiberPush(P!PopMany(under, n)) = P!Apply(under, n, 1)
  BY <1>2, <1>4, PopManyTwo
<1>8. QED
  BY <1>3, <1>5, <1>6, <1>7

LEMMA PushOneMaps ==
  ASSUME MInv, NEW ops, Fetch(ops), NEW v, Operate(Push(Top, v))
  PROVE  Mapped
<1>1. PICK s : s = Push(Top, v)
  OBVIOUS
<1>2. Flagged(s) /\ Abs(s) = P!Apply(P!At(Depths[fiber]), 0, 1)
  BY <1>1, Effects DEF Fetch
<1>3. Operate(s) /\ <<0, 1>> \in P!StackEffect
  BY <1>1 DEF P!StackEffect
<1>4. QED
  BY <1>2, <1>3, OperateMaps

LEMMA PushConstantMaps == ASSUME MInv, PushConstant PROVE Mapped
BY PushOneMaps DEF PushConstant

LEMMA PopTopMaps == ASSUME MInv, PopTop PROVE Mapped
<1>1. PICK s : s = Pop(Top)
  OBVIOUS
<1>2. Fetch({"POP"}) /\ Operate(s) /\ <<1, 0>> \in P!StackEffect
  BY <1>1 DEF PopTop, P!StackEffect
<1>3. Flagged(s) /\ Abs(s) = P!Apply(P!At(Depths[fiber]), 1, 0)
  BY <1>1, <1>2, Effects DEF Fetch
<1>4. QED
  BY <1>2, <1>3, OperateMaps

LEMMA DuplicateMaps == ASSUME MInv, Duplicate PROVE Mapped
BY PushOneMaps DEF Duplicate

LEMMA GetLocalMaps == ASSUME MInv, GetLocal PROVE Mapped
<1>1. PICK v : Fetch({"GET_LOCAL"}) /\ Operate(Push(Top, v))
  BY DEF GetLocal
<1>2. QED
  BY <1>1, PushOneMaps

LEMMA GetGlobalMaps == ASSUME MInv, GetGlobal PROVE Mapped
BY PushOneMaps DEF GetGlobal

\* Above the top: nothing that is on the stack changes.
LEMMA SetAboveMaps == ASSUME MInv, Fetch({"SET_LOCAL"}), Operate(Top) PROVE Mapped
<1>1. PICK s : s = Top
  OBVIOUS
<1>2. Flagged(s) /\ Abs(s) = P!Apply(P!At(Depths[fiber]), 0, 0)
  BY <1>1, Effects DEF Fetch
<1>3. Operate(s) /\ <<0, 0>> \in P!StackEffect
  BY <1>1 DEF P!StackEffect
<1>4. QED
  BY <1>2, <1>3, OperateMaps

LEMMA SetOnStackMaps ==
  ASSUME MInv, Fetch({"SET_LOCAL"}),
         Operate([Top EXCEPT !.values[Slot(Instruction.slot)] = Peek(Top, 0)])
  PROVE  Mapped
<1>1. PICK k, v : k = Slot(Instruction.slot) /\ v = Peek(Top, 0)
  OBVIOUS
<1>2. PICK held : held = [Running EXCEPT ![k] = v]
  OBVIOUS
<1>3. PICK s : s = [Top EXCEPT !.values[k] = v]
  OBVIOUS
<1>4. Fetch({"SET_LOCAL"}) /\ Operate(s) /\ IsStack(Running) /\ <<0, 0>> \in P!StackEffect
  BY <1>1, <1>3, RunningFiber DEF Fetch, Running, P!StackEffect
<1>5. Top = [values |-> Running, ok |-> TRUE]
  BY DEF Top, Stack
<1>6. s = [values |-> held, ok |-> TRUE]
  <2>1. s = [Top EXCEPT !.values = [Top.values EXCEPT ![k] = v]]
    BY <1>3
  <2>2. [Top.values EXCEPT ![k] = v] = held
    BY <1>2, <1>5
  <2>3. QED
    BY <1>5, <2>1, <2>2
<1>7. IsStack(held) /\ Len(held) = Len(Running)
  BY <1>2, <1>4, UpdateSeq DEF IsStack
<1>8. Flagged(s) /\ Abs(s) = Abs(Top)
  BY <1>5, <1>6, <1>7 DEF Flagged, Abs
<1>9. Abs(s) = P!Apply(P!At(Depths[fiber]), 0, 0)
  BY <1>4, <1>8, Effects DEF Fetch
<1>10. QED
  BY <1>4, <1>8, <1>9, OperateMaps

LEMMA SetLocalMaps == ASSUME MInv, SetLocal PROVE Mapped
<1>1. CASE Slot(Instruction.slot) > Depth(Top)
  BY <1>1, SetAboveMaps DEF SetLocal
<1>2. CASE ~(Slot(Instruction.slot) > Depth(Top))
  BY <1>2, SetOnStackMaps DEF SetLocal
<1>3. QED
  BY <1>1, <1>2

LEMMA DefineGlobalMaps == ASSUME MInv, DefineGlobal PROVE Mapped
<1>1. PICK s : s = Pop(Top)
  OBVIOUS
<1>2. /\ Fetch({"DEFINE_GLOBAL"}) /\ SetStack(s) /\ <<1, 0>> \in P!StackEffect
      /\ Spend /\ StepOver /\ SameRing /\ SameHost /\ capabilities' = capabilities
  BY <1>1 DEF DefineGlobal, P!StackEffect
<1>3. Flagged(s) /\ Abs(s) = P!Apply(P!At(Depths[fiber]), 1, 0)
  BY <1>1, <1>2, Effects DEF Fetch
<1>4. FrameShape' /\ UNCHANGED Bases
  BY <1>2, RunningFiber, JumpMaps DEF Fetch, MInv, Shape, StepOver
<1>5. QED
  BY <1>2, <1>3, <1>4, QuietMaps

\* Setting the stack to what it is.
LEMMA StackUntouched ==
  ASSUME MInv, NEW ops, Fetch(ops), UNCHANGED <<stack, state>>
  PROVE  SetStack(Top)
<1>1. stack = [stack EXCEPT ![fiber] = stack[fiber]]
  BY RunningFiber DEF Fetch, MInv, Shape, StackShape
<1>2. Top.values = stack[fiber] /\ Top.ok = TRUE
  BY DEF Top, Stack, Running
<1>3. QED
  BY <1>1, <1>2 DEF SetStack

LEMMA IdleStackMaps ==
  ASSUME MInv, NEW ops, Fetch(ops), UNCHANGED <<stack, state>>,
         NEW ip, JumpTo(ip), Spend, SameRing, SameHost, capabilities' = capabilities
  PROVE  Mapped
<1>1. PICK s : s = Top
  OBVIOUS
<1>2. SetStack(Top)
  BY StackUntouched
<1>3. SetStack(s)
  BY <1>1, <1>2 DEF SetStack
<1>4. Flagged(s) /\ Abs(s) = P!Apply(P!At(Depths[fiber]), 0, 0)
  BY <1>1, Effects DEF Fetch
<1>5. FrameShape' /\ UNCHANGED Bases
  BY RunningFiber, JumpMaps DEF Fetch, MInv, Shape
<1>6. <<0, 0>> \in P!StackEffect
  BY DEF P!StackEffect
<1>7. QED
  BY <1>3, <1>4, <1>5, <1>6, QuietMaps

LEMMA SetGlobalMaps == ASSUME MInv, SetGlobalVariable PROVE Mapped
BY IdleStackMaps DEF SetGlobalVariable, StepOver

LEMMA JumpInstructionMaps == ASSUME MInv, Jump PROVE Mapped
BY IdleStackMaps DEF Jump

LEMMA JumpIfFalseMaps == ASSUME MInv, JumpIfFalse PROVE Mapped
<1>1. PICK ip : JumpTo(ip)
  BY DEF JumpIfFalse
<1>2. QED
  BY <1>1, IdleStackMaps DEF JumpIfFalse

LEMMA BinaryOperatorMaps == ASSUME MInv, BinaryOperator PROVE Mapped
<1>1. PICK results : Operate(PushResults(PopN(Top, 2), results))
  BY DEF BinaryOperator
<1>2. Fetch(Operator)
  BY DEF BinaryOperator
<1>3. PICK s : s = PushResults(PopN(Top, 2), results)
  OBVIOUS
<1>4. Operate(s) /\ <<2, 0>> \in P!StackEffect /\ <<2, 1>> \in P!StackEffect
  BY <1>1, <1>3 DEF P!StackEffect
<1>5. CASE results = <<>>
  <2>1. Flagged(s) /\ Abs(s) = P!Apply(P!At(Depths[fiber]), 2, 0)
    BY <1>2, <1>3, <1>5, TwoPops DEF Fetch, PushResults
  <2>2. QED
    BY <1>2, <1>4, <2>1, OperateMaps
<1>6. CASE results # <<>>
  <2>1. Flagged(s) /\ Abs(s) = P!Apply(P!At(Depths[fiber]), 2, 1)
    BY <1>2, <1>3, <1>6, TwoPops DEF Fetch, PushResults
  <2>2. QED
    BY <1>2, <1>4, <2>1, OperateMaps
<1>7. QED
  BY <1>5, <1>6

LEMMA UnaryOperatorMaps == ASSUME MInv, UnaryOperator PROVE Mapped
<1>1. PICK results : Operate(PushResults(Pop(Top), results))
  BY DEF UnaryOperator
<1>2. Fetch({"NEG", "not", "~"})
  BY DEF UnaryOperator
<1>3. PICK s : s = PushResults(Pop(Top), results)
  OBVIOUS
<1>4. Operate(s) /\ <<1, 0>> \in P!StackEffect /\ <<1, 1>> \in P!StackEffect
  BY <1>1, <1>3 DEF P!StackEffect
<1>5. CASE results = <<>>
  <2>1. Flagged(s) /\ Abs(s) = P!Apply(P!At(Depths[fiber]), 1, 0)
    BY <1>2, <1>3, <1>5, Effects DEF Fetch, PushResults
  <2>2. QED
    BY <1>2, <1>4, <2>1, OperateMaps
<1>6. CASE results # <<>>
  <2>1. Flagged(s) /\ Abs(s) = P!Apply(P!At(Depths[fiber]), 1, 1)
    BY <1>2, <1>3, <1>6, Effects DEF Fetch, PushResults
  <2>2. QED
    BY <1>2, <1>4, <2>1, OperateMaps
<1>7. QED
  BY <1>5, <1>6

LEMMA YieldMaps == ASSUME MInv, YieldFiber PROVE Mapped
<1>1. Fetch({"YIELD"}) /\ fiber \in Fibers
  BY RunningFiber DEF YieldFiber, Fetch
<1>2. P!Executing
  BY <1>1, SpendMaps DEF YieldFiber, SameHost
<1>3. FrameShape' /\ UNCHANGED Bases
  BY <1>1, JumpMaps DEF MInv, Shape, YieldFiber, StepOver
<1>4. StackShape' /\ UNCHANGED Depths
  BY DEF MInv, Shape, StackShape, Depths, YieldFiber
<1>5. P!Yield
  BY <1>2, <1>3, <1>4, SameYield DEF P!Yield, YieldFiber, SameHost, Depths, Bases
<1>6. QED
  BY <1>1, <1>3, <1>4, <1>5 DEF Mapped, P!OtherInstruction, Shape, Fetch

LEMMA FinishMaps == ASSUME MInv, FinishFiber PROVE Mapped
<1>1. PICK ops : Fetch(ops)
  BY DEF FinishFiber
<1>2. fiber = currentFiber /\ currentFiber \in Fibers
  BY <1>1, RunningFiber DEF Fetch
<1>3. P!Executing
  BY <1>1, SpendMaps DEF FinishFiber, SameHost
<1>4. PICK t : t = <<>>
  OBVIOUS
<1>5. IsStack(t) /\ IsFrames(t) /\ Len(t) = 0 /\ SlotsOf(t) = <<>>
  <2>1. IsSeq(t) /\ Len(t) = 0 /\ DOMAIN t = 1..0
    BY <1>4, EmptyIsSeq, SeqOfSome
  <2>2. SlotsOf(t) = <<>>
    BY <1>4 DEF SlotsOf
  <2>3. QED
    BY <2>1, <2>2, StackMaxAssumption DEF IsStack, IsFrames
<1>6. /\ stack' = [stack EXCEPT ![currentFiber] = t]
      /\ frames' = [frames EXCEPT ![currentFiber] = t]
  BY <1>4 DEF FinishFiber
<1>7. StackShape' /\ Depths' = [Depths EXCEPT ![currentFiber] = 0]
  BY <1>2, <1>5, <1>6, StackPut DEF MInv, Shape
<1>8. FrameShape' /\ Bases' = [Bases EXCEPT ![currentFiber] = <<>>]
  BY <1>2, <1>5, <1>6, FramePut DEF MInv, Shape
<1>9. P!DropCurrent
  BY <1>7, <1>8 DEF P!DropCurrent, FinishFiber, Depths, Bases
<1>10. P!Halt
  BY <1>3, <1>9, SameFinish DEF P!Halt, P!FinishFiber, FinishFiber, SameHost
<1>11. QED
  BY <1>1, <1>7, <1>8, <1>10 DEF Mapped, P!OtherInstruction, Shape, Fetch

LEMMA CountFits ==
  ASSUME MInv, NEW ops, Fetch(ops)
  PROVE  /\ ops \subseteq {"CALL", "SPAWN"} => Instruction.count \in 0..(StackMax - 1)
         /\ ops = {"PRINT"} => Instruction.count \in 0..PrintMax
         /\ ops = {"CAP_INVOKE"} =>
               Instruction.operation \in P!OperationId /\ Instruction.count \in 0..InvokeMax
<1>1. P!OperationId = OperationId
  BY DEF P!OperationId, OperationId, P!FfiOperation, FfiOperation
<1>2. QED
  BY <1>1 DEF MInv, OperandsFit, Fetch, Instruction

\* Whatever ffi_invoke is asked, the fiber's own capabilities decide.
LEMMA AskMaps ==
  ASSUME NEW op, NEW args, AskHost(op, args)
  PROVE  effect' \in P!FfiInvoke(capabilities[fiber], op)
<1>1. CASE ReachesHost(op, args)
  <2>1. effect' = FfiRequires(op) /\ op \in P!FfiOperation
    BY <1>1 DEF AskHost, ReachesHost, P!FfiOperation, FfiOperation
  <2>2. P!CapHasPermission(capabilities[fiber], {P!FfiRequires(op)}) /\ P!FfiRequires(op) = FfiRequires(op)
    BY <1>1 DEF ReachesHost, CapHasPermission, P!CapHasPermission, FfiRequires, P!FfiRequires
  <2>3. QED
    BY <2>1, <2>2 DEF P!FfiInvoke
<1>2. CASE ~ReachesHost(op, args)
  BY <1>2 DEF AskHost, P!FfiInvoke
<1>3. QED
  BY <1>1, <1>2

\* OP_PRINT and OP_CAP_INVOKE: n values are popped, and the answer pushed.
LEMMA InvokeMaps ==
  ASSUME MInv, NEW ops, Fetch(ops), NEW op, NEW n \in Nat, NEW pushes,
         NEW s, Flagged(s), SetStack(s),
         Abs(s) = P!Apply(P!PopMany(P!At(Depths[fiber]), n), 0, pushes),
         effect' \in P!FfiInvoke(capabilities[fiber], op),
         Spend, StepOver, SameRing, UNCHANGED <<capabilities, result>>
  PROVE  P!InvokeHost(op, n, pushes) /\ Shape' /\ program' = program
<1>1. fiber \in Fibers
  BY RunningFiber DEF Fetch
<1>2. P!Executing
  BY SpendMaps
<1>3. StackShape' /\ P!SetStack(Abs(s))
  BY <1>1, SetStackMaps DEF MInv, Shape
<1>4. FrameShape' /\ UNCHANGED Bases
  BY <1>1, JumpMaps DEF MInv, Shape, StepOver
<1>5. P!InvokeHost(op, n, pushes)
  <2>1. P!SetStack(P!Apply(P!PopMany(P!At(Depths[fiber]), n), 0, pushes))
    BY <1>3 DEF P!SetStack
  <2>2. UNCHANGED <<P!ringVars, P!scanVars, currentFiber, Bases, capabilities>>
    BY <1>4 DEF SameRing, ringVars, scanVars, P!ringVars, P!scanVars
  <2>3. effect' \in P!FfiInvoke(capabilities[fiber], op)
    OBVIOUS
  <2>4. QED
    BY ONLY <1>2, <2>1, <2>2, <2>3 DEF P!InvokeHost, Depths, Bases
<1>6. QED
  BY <1>3, <1>4, <1>5 DEF Shape, Fetch

LEMMA PrintMaps == ASSUME MInv, PrintValues PROVE Mapped
<1>1. PICK n : n = Instruction.count
  OBVIOUS
<1>2. PICK s : s = PopN(Top, n)
  OBVIOUS
<1>3. /\ Fetch({"PRINT"}) /\ SetStack(s) /\ Spend /\ StepOver /\ SameRing
      /\ UNCHANGED <<capabilities, result>>
  BY <1>1, <1>2 DEF PrintValues
<1>4. n \in 0..PrintMax /\ n \in Nat
  BY <1>1, <1>3, CountFits, ArgumentsAssumption
<1>5. Flagged(s) /\ Abs(s) = P!Apply(P!PopMany(P!At(Depths[fiber]), n), 0, 0)
  <2>1. Flagged(Top) /\ Abs(Top) = P!At(Depths[fiber])
    BY <1>3, RunningFiber DEF Fetch
  <2>2. Flagged(s) /\ Abs(s) = P!PopMany(P!At(Depths[fiber]), n)
    BY <1>2, <1>4, <2>1, PopNAbs
  <2>3. QED
    BY <2>2 DEF P!Apply
<1>6. effect' \in P!FfiInvoke(capabilities[fiber], "print")
  <2>1. PICK args : AskHost("print", args)
    BY DEF PrintValues
  <2>2. QED
    BY <2>1, AskMaps
<1>7. P!InvokeHost("print", n, 0) /\ Shape' /\ program' = program
  BY <1>3, <1>4, <1>5, <1>6, InvokeMaps
<1>8. P!OtherInstruction
  BY <1>4, <1>7 DEF P!OtherInstruction
<1>9. QED
  BY <1>7, <1>8 DEF Mapped

LEMMA InvokeCapabilityMaps == ASSUME MInv, InvokeCapability PROVE Mapped
<1>1. PICK n, op : n = Instruction.count /\ op = Instruction.operation
  OBVIOUS
<1>2. /\ Fetch({"CAP_INVOKE"}) /\ Spend /\ StepOver /\ SameRing
      /\ UNCHANGED <<capabilities, result>>
  BY DEF InvokeCapability
<1>3. PICK args, v : AskHost(op, args) /\ SetStack(Push(PopN(Top, n), v))
  BY <1>1 DEF InvokeCapability
<1>4. PICK s : s = Push(PopN(Top, n), v)
  OBVIOUS
<1>5. op \in P!OperationId /\ n \in 0..InvokeMax /\ n \in Nat
  BY <1>1, <1>2, CountFits, ArgumentsAssumption
<1>6. Flagged(s) /\ Abs(s) = P!Apply(P!PopMany(P!At(Depths[fiber]), n), 0, 1)
  <2>1. Flagged(Top) /\ Abs(Top) = P!At(Depths[fiber])
    BY <1>2, RunningFiber DEF Fetch
  <2>2. PICK r : r = PopN(Top, n)
    OBVIOUS
  <2>3. Flagged(r) /\ Abs(r) = P!PopMany(P!At(Depths[fiber]), n)
    BY <1>5, <2>1, <2>2, PopNAbs
  <2>4. Flagged(s) /\ Abs(s) = P!FiberPush(Abs(r))
    BY <1>4, <2>2, <2>3, PushAbs
  <2>5. QED
    BY <2>3, <2>4 DEF P!Apply
<1>7. effect' \in P!FfiInvoke(capabilities[fiber], op)
  BY <1>3, AskMaps
<1>8. P!InvokeHost(op, n, 1) /\ Shape' /\ program' = program
  BY <1>2, <1>3, <1>4, <1>5, <1>6, <1>7, InvokeMaps
<1>9. P!OtherInstruction
  BY <1>5, <1>8 DEF P!OtherInstruction
<1>10. QED
  BY <1>8, <1>9 DEF Mapped

\* A byte that is no opcode.
LEMMA UnknownMaps == ASSUME MInv, UnknownOpcode PROVE Mapped
<1>1. pc = "slice" /\ P!SliceGoesOn /\ program' = program
  BY RunningFiber DEF UnknownOpcode, Fetch
<1>2. Shape' /\ UNCHANGED <<Depths, Bases>>
  BY ShapeStays DEF UnknownOpcode, fiberVars, MInv
<1>3. P!UnknownOpcode
  <2>1. P!Return("RUNTIME_ERROR") /\ effect' = "none" /\ UNCHANGED <<P!schedVars, capabilities>>
    BY DEF UnknownOpcode, Return, P!Return, fiberVars, schedVars, P!schedVars, ringVars, P!ringVars,
           scanVars, P!scanVars
  <2>2. QED
    BY ONLY <1>1, <1>2, <2>1 DEF P!UnknownOpcode, Depths, Bases
<1>4. QED
  BY <1>1, <1>2, <1>3 DEF Mapped, P!OtherInstruction

\* Every name parses like one of a few.
LEMMA NamesParse ==
  ASSUME NEW name
  PROVE  \E n \in (Capability \ {"other"}) \cup {"stdio", "file", "net", "all", "unknown"} :
            P!CapParseName(n) = CapParseName(name)
<1>1. CASE name \in Capability \ {"other"}
  BY <1>1 DEF CapParseName, P!CapParseName, Capability, P!Capability
<1>2. CASE name \in {"stdio", "file", "net", "all"}
  BY <1>2 DEF CapParseName, P!CapParseName, Capability, P!Capability
<1>3. CASE name = "sys"
  <2>1. P!CapParseName("all") = CapParseName(name)
    BY <1>3 DEF CapParseName, P!CapParseName, Capability, P!Capability
  <2>2. QED
    BY <2>1
<1>4. CASE name \notin (Capability \ {"other"}) \cup {"stdio", "file", "net", "all", "sys"}
  <2>1. P!CapParseName("unknown") = CapParseName(name)
    BY <1>4 DEF CapParseName, P!CapParseName, Capability, P!Capability
  <2>2. QED
    BY <2>1
<1>5. QED
  BY <1>1, <1>2, <1>3, <1>4

LEMMA RequestMaps == ASSUME MInv, RequestCapability PROVE Mapped
<1>1. PICK bits : bits = CapParseName(Instruction.name)
  OBVIOUS
<1>2. PICK granted \in BOOLEAN : granted = CapHasPermission(DefaultCapabilities, bits)
  BY DEF CapHasPermission
<1>3. PICK v : v = IF granted THEN CapVal(bits) ELSE NilVal
  OBVIOUS
<1>4. PICK s : s = Push(Top, v)
  OBVIOUS
<1>5. /\ Fetch({"CAP_REQ"}) /\ SetStack(s) /\ Spend /\ StepOver /\ SameRing /\ SameHost
      /\ capabilities' = IF granted THEN [capabilities EXCEPT ![fiber] = @ \cup bits]
                         ELSE capabilities
  BY <1>1, <1>2, <1>3, <1>4 DEF RequestCapability
<1>6. fiber \in Fibers /\ Flagged(Top) /\ Abs(Top) = P!At(Depths[fiber])
  BY <1>5, RunningFiber DEF Fetch
<1>7. Flagged(s) /\ Abs(s) = P!FiberPush(P!At(Depths[fiber]))
  BY <1>4, <1>6, PushAbs
<1>8. P!Executing
  BY <1>5, SpendMaps DEF SameHost
<1>9. StackShape' /\ P!SetStack(P!FiberPush(P!At(Depths[fiber])))
  <2>1. StackShape' /\ P!SetStack(Abs(s))
    BY <1>5, <1>6, <1>7, SetStackMaps DEF MInv, Shape
  <2>2. QED
    BY <1>7, <2>1 DEF P!SetStack
<1>10. FrameShape' /\ UNCHANGED Bases
  BY <1>5, <1>6, JumpMaps DEF MInv, Shape, StepOver
<1>11. PICK n \in (Capability \ {"other"}) \cup {"stdio", "file", "net", "all", "unknown"} :
         P!CapParseName(n) = bits
  BY <1>1, NamesParse
<1>12. P!CapRequest(n)
  <2>1. capabilities' = IF P!CapHasPermission(DefaultCapabilities, P!CapParseName(n))
                        THEN [capabilities EXCEPT ![fiber] = @ \cup P!CapParseName(n)]
                        ELSE capabilities
    BY <1>2, <1>5, <1>11 DEF CapHasPermission, P!CapHasPermission
  <2>2. UNCHANGED <<P!ringVars, P!scanVars, currentFiber, Bases>> /\ effect' = "none"
    BY <1>5, <1>10 DEF SameHost, SameRing, ringVars, scanVars, P!ringVars, P!scanVars
  <2>3. QED
    BY ONLY <1>8, <1>9, <2>1, <2>2 DEF P!CapRequest, Depths, Bases
<1>13. P!OtherInstruction
  BY <1>12 DEF P!OtherInstruction
<1>14. QED
  BY <1>5, <1>9, <1>10, <1>13 DEF Mapped, Shape, Fetch

\* A callee that is a function lies on the stack, with its arguments.
LEMMA CalleeFound ==
  ASSUME MInv, NEW ops, Fetch(ops), ops \subseteq {"CALL", "SPAWN"}, Callable
  PROVE  /\ Instruction.count \in 0..(StackMax - 1)
         /\ Depths[fiber] = Len(Running) /\ IsStack(Running) /\ Len(Running) \in 0..StackMax
         /\ Depths[fiber] > Instruction.count
         /\ IsStack(BelowCallee.values) /\ BelowCallee.ok = TRUE /\ Flagged(BelowCallee)
         /\ Depth(BelowCallee) = Depths[fiber] - Instruction.count - 1
<1>1. PICK n : n = Instruction.count
  OBVIOUS
<1>2. n \in 0..(StackMax - 1)
  BY <1>1, CountFits
<1>3. fiber \in Fibers /\ IsStack(Running)
  BY RunningFiber DEF Fetch, Running
<1>4. Depths[fiber] = Len(Running) /\ Len(Running) \in 0..StackMax
  BY <1>3, SeqOfSome DEF Depths, Running, IsStack
<1>5. Depth(Top) = Len(Running) /\ Top.values = Running
  BY DEF Depth, Top, Stack
<1>6. n < Depth(Top)
  <2>1. SUFFICES ASSUME ~(n < Depth(Top)) PROVE FALSE
    OBVIOUS
  <2>2. Callee = NilVal
    BY <1>1, <2>1 DEF Callee, Peek
  <2>3. QED
    BY <2>2 DEF Callable, NilVal
<1>7. PICK below : below = SubSeq(Running, 1, Len(Running) - n - 1)
  OBVIOUS
<1>8. BelowCallee = [values |-> below, ok |-> TRUE]
  BY <1>1, <1>5, <1>7 DEF BelowCallee, Stack
<1>9. IsStack(below) /\ Len(below) = Len(Running) - n - 1
  <2>1. Len(Running) - n - 1 \in 0..Len(Running)
    BY <1>2, <1>4, <1>5, <1>6, StackMaxAssumption
  <2>2. QED
    BY <1>3, <1>7, <2>1, StackPrefix
<1>10. QED
  BY <1>1, <1>2, <1>3, <1>4, <1>5, <1>6, <1>8, <1>9 DEF Depth, Flagged

\* A frame on top of others.
LEMMA PushFrame ==
  ASSUME NEW t, IsFrames(t), NEW r, IsFrame(r)
  PROVE  IsFrames(Append(t, r)) /\ SlotsOf(Append(t, r)) = Append(SlotsOf(t), r.slots)
<1>1. PICK u : u = Append(t, r)
  OBVIOUS
<1>2. IsSeq(t) /\ Len(t) \in Nat /\ DOMAIN t = 1..Len(t)
  BY SeqOfSome DEF IsFrames
<1>3. /\ IsSeq(u) /\ Len(u) = Len(t) + 1
      /\ \A i \in 1..Len(t) : u[i] = t[i]
      /\ u[Len(t) + 1] = r
  BY <1>1, <1>2, AppendSeq
<1>4. DOMAIN u = 1..(Len(t) + 1)
  BY <1>3, SeqOfSome
<1>5. IsFrames(u)
  <2>1. \A i \in DOMAIN u : IsFrame(u[i])
    BY <1>2, <1>3, <1>4 DEF IsFrames
  <2>2. QED
    BY <1>3, <2>1 DEF IsFrames
<1>6. PICK w : w = SlotsOf(t)
  OBVIOUS
<1>7. IsSeq(w) /\ Len(w) = Len(t) /\ \A i \in 1..Len(t) : w[i] = t[i].slots
  BY <1>2, <1>6, FunIsSeq DEF SlotsOf
<1>8. PICK x : x = Append(w, r.slots)
  OBVIOUS
<1>9. /\ IsSeq(x) /\ Len(x) = Len(t) + 1
      /\ \A i \in 1..Len(t) : x[i] = t[i].slots
      /\ x[Len(t) + 1] = r.slots
  BY <1>7, <1>8, AppendSeq
<1>10. DOMAIN x = 1..(Len(t) + 1) /\ x = [i \in DOMAIN x |-> x[i]]
  BY <1>9, SeqOfSome DEF IsSeq
<1>11. SlotsOf(u) = x
  <2>1. SlotsOf(u) = [i \in 1..(Len(t) + 1) |-> u[i].slots]
    BY <1>4 DEF SlotsOf
  <2>2. \A i \in 1..(Len(t) + 1) : u[i].slots = x[i]
    BY <1>2, <1>3, <1>9
  <2>3. QED
    BY <1>10, <2>1, <2>2
<1>12. QED
  BY <1>1, <1>5, <1>6, <1>8, <1>11

LEMMA CallMaps == ASSUME MInv, CallFunction PROVE Mapped
<1>1. PICK n : n = Instruction.count
  OBVIOUS
<1>2. Fetch({"CALL"}) /\ Callable /\ Len(frames[fiber]) < FramesMax
  BY DEF CallFunction, ArityFits
<1>3. /\ n \in 0..(StackMax - 1) /\ Depths[fiber] > n
      /\ Depths[fiber] \in 0..StackMax
      /\ Depth(BelowCallee) = Depths[fiber] - n - 1
  BY <1>1, <1>2, CalleeFound
<1>4. fiber \in Fibers /\ IsFrames(frames[fiber])
  BY <1>2, RunningFiber DEF Fetch
<1>5. PICK own : own = frames[fiber]
  OBVIOUS
<1>6. PICK t : t = [own EXCEPT ![Len(own)].ip = @ + 1]
  OBVIOUS
<1>7. PICK r : r = [fn |-> Callee.fn, ip |-> 1, slots |-> Depth(BelowCallee)]
  OBVIOUS
<1>8. frames' = [frames EXCEPT ![fiber] = Append(t, r)]
  BY <1>5, <1>6, <1>7 DEF CallFunction
<1>9. IsFrames(t) /\ Len(t) = Len(own) /\ SlotsOf(t) = SlotsOf(own)
  <2>1. PICK ip : ip = own[Len(own)].ip + 1
    OBVIOUS
  <2>2. t = [own EXCEPT ![Len(own)].ip = ip]
    BY <1>6, <2>1
  <2>3. IsFrames(own)
    BY <1>4, <1>5
  <2>4. QED
    BY ONLY <2>2, <2>3, FrameJump
<1>10. r.slots = Depths[fiber] - n - 1 /\ IsFrame(r)
  BY <1>3, <1>7, StackMaxAssumption DEF IsFrame
<1>11. IsFrames(Append(t, r)) /\ SlotsOf(Append(t, r)) = Append(SlotsOf(own), r.slots)
  BY <1>9, <1>10, PushFrame
<1>12. PICK u : u = Append(t, r)
  OBVIOUS
<1>13. FrameShape' /\ Bases' = [Bases EXCEPT ![fiber] = SlotsOf(u)]
  BY <1>4, <1>8, <1>11, <1>12, FramePut DEF MInv, Shape
<1>14. Bases[fiber] = SlotsOf(own) /\ Len(Bases[fiber]) = Len(own)
  <2>1. Bases[fiber] = SlotsOf(own)
    BY <1>4, <1>5 DEF Bases, SlotsOf
  <2>2. IsSeq(own) /\ Len(own) \in Nat /\ DOMAIN own = 1..Len(own)
    BY <1>4, <1>5, SeqOfSome DEF IsFrames
  <2>3. PICK w : w = SlotsOf(own)
    OBVIOUS
  <2>4. Len(w) = Len(own)
    BY <2>2, <2>3, FunIsSeq DEF SlotsOf
  <2>5. QED
    BY <2>1, <2>3, <2>4
<1>15. Bases' = [Bases EXCEPT ![fiber] = Append(@, Depths[fiber] - n - 1)]
  BY <1>10, <1>11, <1>12, <1>13, <1>14
<1>16. P!Executing
  BY <1>2, SpendMaps DEF CallFunction, SameHost
<1>17. StackShape' /\ UNCHANGED Depths
  BY DEF MInv, Shape, StackShape, Depths, CallFunction
<1>18. P!Call(n)
  <2>1. Len(Bases[fiber]) < FramesMax
    BY <1>2, <1>5, <1>14
  <2>2. UNCHANGED <<P!schedVars, Depths, capabilities>> /\ effect' = "none"
    BY <1>17 DEF CallFunction, SameRing, SameHost, ringVars, scanVars, P!schedVars, P!ringVars, P!scanVars
  <2>3. QED
    BY ONLY <1>3, <1>15, <1>16, <2>1, <2>2 DEF P!Call, Depths, Bases
<1>19. P!OtherInstruction
  BY <1>3, <1>18 DEF P!OtherInstruction
<1>20. QED
  BY <1>2, <1>13, <1>17, <1>19 DEF Mapped, Shape, Fetch

\* The frames without the last.
LEMMA DropFrame ==
  ASSUME NEW t, IsFrames(t), Len(t) > 1
  PROVE  /\ IsFrames(Front(t))
         /\ SlotsOf(Front(t)) = SubSeq(SlotsOf(t), 1, Len(SlotsOf(t)) - 1)
         /\ Len(SlotsOf(t)) = Len(t)
<1>1. PICK n : n = Len(t) - 1
  OBVIOUS
<1>2. IsSeq(t) /\ Len(t) \in Nat /\ DOMAIN t = 1..Len(t)
  BY SeqOfSome DEF IsFrames
<1>3. n \in Nat /\ n \in 0..Len(t) /\ n + 1 = Len(t)
  BY <1>1, <1>2
<1>4. PICK u : u = SubSeq(t, 1, n)
  OBVIOUS
<1>5. IsSeq(u) /\ Len(u) = n /\ \A i \in 1..n : u[i] = t[i]
  BY <1>2, <1>3, <1>4, PrefixSeq
<1>6. DOMAIN u = 1..n
  BY <1>5, SeqOfSome
<1>7. IsFrames(u)
  <2>1. \A i \in DOMAIN u : i \in DOMAIN t /\ u[i] = t[i]
    BY <1>2, <1>3, <1>5, <1>6
  <2>2. QED
    BY <1>5, <2>1 DEF IsFrames
<1>8. PICK w : w = SlotsOf(t)
  OBVIOUS
<1>9. IsSeq(w) /\ Len(w) = Len(t) /\ \A i \in 1..Len(t) : w[i] = t[i].slots
  BY <1>2, <1>8, FunIsSeq DEF SlotsOf
<1>10. PICK x : x = SubSeq(w, 1, n)
  OBVIOUS
<1>11. IsSeq(x) /\ Len(x) = n /\ \A i \in 1..n : x[i] = w[i]
  BY <1>3, <1>9, <1>10, PrefixSeq
<1>12. DOMAIN x = 1..n /\ x = [i \in DOMAIN x |-> x[i]]
  BY <1>11, SeqOfSome DEF IsSeq
<1>13. SlotsOf(u) = x
  <2>1. SlotsOf(u) = [i \in 1..n |-> u[i].slots]
    BY <1>6 DEF SlotsOf
  <2>2. \A i \in 1..n : i \in 1..Len(t)
    BY <1>3
  <2>3. \A i \in 1..n : u[i].slots = x[i]
    BY <1>5, <1>9, <1>11, <2>2
  <2>4. QED
    BY <1>12, <2>1, <2>3
<1>14. Front(t) = u
  BY <1>1, <1>4 DEF Front
<1>15. QED
  BY <1>1, <1>7, <1>8, <1>9, <1>10, <1>13, <1>14

LEMMA ReturnMaps == ASSUME MInv, ReturnToCaller PROVE Mapped
<1>1. PICK t : t = frames[fiber]
  OBVIOUS
<1>2. PICK base : base = Frame.slots
  OBVIOUS
<1>3. Fetch({"RETURN"}) /\ Len(t) > 1 /\ SameRing /\ SameHost /\ capabilities' = capabilities
  BY <1>1 DEF ReturnToCaller
<1>4. fiber \in Fibers /\ IsFrames(t) /\ Flagged(Top) /\ Abs(Top) = P!At(Depths[fiber])
  BY <1>1, <1>3, RunningFiber DEF Fetch
<1>5. Len(t) \in Nat /\ DOMAIN t = 1..Len(t)
  BY <1>4, SeqOfSome DEF IsFrames
<1>6. t[Len(t)].slots = base /\ base \in 0..StackMax
  <2>1. t[Len(t)].slots = base
    BY <1>1, <1>2 DEF Frame, Last
  <2>2. IsFrame(t[Len(t)])
    BY <1>3, <1>4, <1>5 DEF IsFrames
  <2>3. QED
    BY <2>1, <2>2 DEF IsFrame
<1> PICK left : SetStack(Push([Pop(Top) EXCEPT !.values = BackTo(Frame.slots, left)], Popped(Top)))
  BY DEF ReturnToCaller
<1>7. PICK back : back = BackTo(base, left)
  OBVIOUS
<1>8. IsStack(back) /\ Len(back) = base
  <2>1. base \in Nat /\ base <= StackMax
    BY <1>6, StackMaxAssumption
  <2>2. back = [i \in 1..base |-> back[i]]
    BY <1>7 DEF BackTo
  <2>3. IsSeq(back) /\ Len(back) = base
    BY <2>1, <2>2, FunIsSeq
  <2>4. QED
    BY <2>1, <2>3 DEF IsStack
<1>9. PICK ok : ok = Pop(Top).ok
  OBVIOUS
<1>10. Flagged(Pop(Top)) /\ Abs(Pop(Top)) = P!FiberPop(P!At(Depths[fiber]))
  BY <1>4, PopAbs
<1>11. PICK s : s = [values |-> back, ok |-> ok]
  OBVIOUS
<1>12. s = [Pop(Top) EXCEPT !.values = BackTo(Frame.slots, left)]
  BY <1>2, <1>7, <1>9, <1>10, <1>11 DEF Flagged
<1>13. Flagged(s) /\ Abs(s) = [P!FiberPop(P!At(Depths[fiber])) EXCEPT !.depth = base]
  <2>1. ok \in BOOLEAN
    BY <1>9, <1>10 DEF Flagged
  <2>2. P!FiberPop(P!At(Depths[fiber])) = [depth |-> Len(Pop(Top).values), ok |-> ok]
    BY <1>9, <1>10 DEF Abs
  <2>3. Abs(s) = [depth |-> base, ok |-> ok]
    BY <1>8, <1>11 DEF Abs
  <2>4. QED
    BY <1>8, <1>11, <2>1, <2>2, <2>3 DEF Flagged
<1>14. PICK s1 : s1 = Push(s, Popped(Top))
  OBVIOUS
<1>15. Flagged(s1) /\ Abs(s1) = P!FiberPush([P!FiberPop(P!At(Depths[fiber])) EXCEPT !.depth = base])
  BY <1>13, <1>14, PushAbs
<1>16. SetStack(s1) /\ frames' = [frames EXCEPT ![fiber] = Front(t)]
  BY <1>1, <1>12, <1>14 DEF ReturnToCaller
<1>17. StackShape' /\ P!SetStack(P!FiberPush([P!FiberPop(P!At(Depths[fiber])) EXCEPT !.depth = base]))
  <2>1. StackShape' /\ P!SetStack(Abs(s1))
    BY <1>4, <1>15, <1>16, SetStackMaps DEF MInv, Shape
  <2>2. QED
    BY <1>15, <2>1 DEF P!SetStack
<1>18. P!Executing
  BY <1>3, SpendMaps DEF ReturnToCaller, SameHost
<1>19. PICK w : w = SlotsOf(t)
  OBVIOUS
<1>20. /\ FrameShape' /\ Bases' = [Bases EXCEPT ![fiber] = SubSeq(w, 1, Len(w) - 1)]
       /\ Len(w) = Len(t)
  <2>1. PICK u : u = Front(t)
    OBVIOUS
  <2>2. IsFrames(u) /\ SlotsOf(u) = SubSeq(w, 1, Len(w) - 1) /\ Len(w) = Len(t)
    BY <1>3, <1>4, <1>19, <2>1, DropFrame
  <2>3. frames' = [frames EXCEPT ![fiber] = u]
    BY <1>16, <2>1
  <2>4. FrameShape' /\ Bases' = [Bases EXCEPT ![fiber] = SlotsOf(u)]
    BY <1>4, <2>2, <2>3, FramePut DEF MInv, Shape
  <2>5. QED
    BY <2>2, <2>4
<1>21. Bases[fiber] = w
  BY <1>1, <1>4, <1>19 DEF Bases, SlotsOf
<1>22. w[Len(w)] = base
  BY <1>3, <1>5, <1>6, <1>19, <1>20 DEF SlotsOf
<1>23. P!ReturnToCaller
  <2>1. Len(Bases[fiber]) > 1 /\ Bases[fiber][Len(Bases[fiber])] = base
    BY <1>3, <1>20, <1>21, <1>22
  <2>2. Bases' = [Bases EXCEPT ![fiber] = SubSeq(@, 1, Len(@) - 1)]
    BY <1>20, <1>21
  <2>3. UNCHANGED <<P!ringVars, P!scanVars, currentFiber, capabilities>> /\ effect' = "none"
    BY <1>3 DEF SameRing, SameHost, ringVars, scanVars, P!ringVars, P!scanVars
  <2>4. P!SetStack(P!FiberPush([P!FiberPop(P!At(Depths[fiber])) EXCEPT
                                   !.depth = Bases[fiber][Len(Bases[fiber])]]))
    BY <1>17, <2>1 DEF P!SetStack
  <2>5. Len(Bases[fiber]) > 1
    BY <2>1
  <2>6. QED
    BY ONLY <1>18, <2>2, <2>3, <2>4, <2>5 DEF P!ReturnToCaller, Depths, Bases
<1>24. QED
  BY <1>3, <1>17, <1>20, <1>23 DEF Mapped, P!OtherInstruction, Shape, Fetch

\* Two fibers at once.
Both(fn, g, t, h, u) == [f \in Fibers |-> IF f = h THEN u ELSE IF f = g THEN t ELSE fn[f]]

LEMMA BothIsExcept ==
  ASSUME NEW fn, fn = [f \in Fibers |-> fn[f]], NEW g \in Fibers, NEW h \in Fibers, NEW t, NEW u
  PROVE  [fn EXCEPT ![g] = t, ![h] = u] = Both(fn, g, t, h, u)
BY DEF Both

LEMMA StackPutBoth ==
  ASSUME StackShape, NEW g, NEW h, NEW t, IsStack(t), NEW u, IsStack(u),
         stack' = Both(stack, g, t, h, u)
  PROVE  StackShape' /\ Depths' = Both(Depths, g, Len(t), h, Len(u))
<1>1. \A f \in Fibers : stack'[f] = IF f = h THEN u ELSE IF f = g THEN t ELSE stack[f]
  BY DEF Both
<1>2. stack' = [f \in Fibers |-> stack'[f]]
  BY DEF Both
<1>3. \A f \in Fibers : IsStack(stack'[f])
  BY <1>1 DEF StackShape
<1>4. \A f \in Fibers : Len(stack'[f]) = IF f = h THEN Len(u) ELSE IF f = g THEN Len(t) ELSE Len(stack[f])
  BY <1>1
<1>5. Depths' = Both(Depths, g, Len(t), h, Len(u))
  BY <1>4 DEF Depths, Both
<1>6. StackShape'
  BY <1>2, <1>3 DEF StackShape, IsStack, IsSeq
<1>7. QED
  BY <1>5, <1>6

LEMMA FramePutBoth ==
  ASSUME FrameShape, NEW g, NEW h, NEW t, IsFrames(t), NEW u, IsFrames(u),
         frames' = Both(frames, g, t, h, u)
  PROVE  FrameShape' /\ Bases' = Both(Bases, g, SlotsOf(t), h, SlotsOf(u))
<1>1. \A f \in Fibers : frames'[f] = IF f = h THEN u ELSE IF f = g THEN t ELSE frames[f]
  BY DEF Both
<1>2. frames' = [f \in Fibers |-> frames'[f]]
  BY DEF Both
<1>3. \A f \in Fibers : IsFrames(frames'[f])
  BY <1>1 DEF FrameShape
<1>4. \A f \in Fibers :
        SlotsOf(frames'[f]) = IF f = h THEN SlotsOf(u) ELSE IF f = g THEN SlotsOf(t) ELSE SlotsOf(frames[f])
  BY <1>1
<1>5. Bases' = [f \in Fibers |-> SlotsOf(frames'[f])] /\ Bases = [f \in Fibers |-> SlotsOf(frames[f])]
  BY DEF Bases, SlotsOf
<1>6. Bases' = Both(Bases, g, SlotsOf(t), h, SlotsOf(u))
  BY <1>4, <1>5 DEF Both
<1>7. FrameShape'
  BY <1>2, <1>3 DEF FrameShape
<1>8. QED
  BY <1>6, <1>7

LEMMA SpawnMaps == ASSUME MInv, SpawnFunction PROVE Mapped
<1>1. PICK n : n = Instruction.count
  OBVIOUS
<1>2. PICK d : d = Depths[fiber]
  OBVIOUS
<1>3. PICK f : f = NewFiber
  OBVIOUS
<1>4. PICK args : args = SubSeq(Running, Depth(BelowCallee) + 2, Depth(Top))
  OBVIOUS
<1>5. PICK own : own = frames[fiber]
  OBVIOUS
<1>6. PICK t : t = [own EXCEPT ![Len(own)].ip = @ + 1]
  OBVIOUS
<1>7. PICK t1 : t1 = <<[fn |-> Callee.fn, ip |-> 1, slots |-> 0]>>
  OBVIOUS
<1>8. PICK child : child = <<Callee>> \o args
  OBVIOUS
<1>9. PICK left : left = Push(BelowCallee, IntVal(nextFiberId)).values
  OBVIOUS
<1>10. Fetch({"SPAWN"}) /\ Callable /\ Spend /\ SameHost
  BY DEF SpawnFunction, ArityFits
<1>11. /\ SchedulerSpawn(f)
       /\ state' = [state EXCEPT ![f] = "READY"]
       /\ capabilities' = [capabilities EXCEPT ![f] = capabilities[fiber]]
       /\ stack' = [stack EXCEPT ![f] = child, ![fiber] = left]
  BY <1>3, <1>4, <1>8, <1>9 DEF SpawnFunction
<1>12. frames' = [frames EXCEPT ![f] = t1, ![fiber][Len(frames[fiber])].ip = @ + 1]
  BY <1>3, <1>7 DEF SpawnFunction
<1>13. /\ n \in 0..(StackMax - 1) /\ d > n /\ d = Len(Running)
       /\ d \in 0..StackMax /\ IsStack(Running)
       /\ Flagged(BelowCallee) /\ BelowCallee.ok = TRUE
       /\ Depth(BelowCallee) = d - n - 1
  BY <1>1, <1>2, <1>10, CalleeFound
<1>14. fiber \in Fibers /\ IsFrames(own) /\ state[fiber] = "RUNNING"
  BY <1>5, <1>10, RunningFiber DEF Fetch
<1>15. f \in Fibers /\ f # fiber
  BY <1>11, <1>14 DEF SchedulerSpawn, Live
<1>16. IsStack(child) /\ Len(child) = 1 + n
  <2>1. PICK m : m = d - n + 1
    OBVIOUS
  <2>2. m \in Nat \ {0} /\ m <= d + 1 /\ d - m + 1 = n /\ n \in Nat /\ d \in 0..d /\ 1 + n <= StackMax
    BY <1>13, <2>1, StackMaxAssumption
  <2>3. args = SubSeq(Running, m, d)
    <3>1. Depth(BelowCallee) + 2 = m
      BY <1>13, <2>1, StackMaxAssumption
    <3>2. Depth(Top) = d
      BY <1>13 DEF Depth, Top, Stack
    <3>3. QED
      BY <1>4, <3>1, <3>2
  <2>4. IsSeq(Running) /\ d \in 0..Len(Running)
    BY <1>13, <2>2 DEF IsStack
  <2>5. IsSeq(args) /\ Len(args) = n
    BY <2>2, <2>3, <2>4, SubSeqSeq
  <2>6. IsSeq(child) /\ Len(child) = 1 + n
    <3>1. PICK one : one = <<Callee>>
      OBVIOUS
    <3>2. IsSeq(one) /\ Len(one) = 1
      BY <3>1, OneSeq
    <3>3. QED
      BY <1>8, <2>5, <3>1, <3>2, ConcatSeq
  <2>7. QED
    BY <2>2, <2>6 DEF IsStack
<1>17. IsStack(left) /\ Len(left) = d - n
  <2>1. PICK b : b = BelowCallee
    OBVIOUS
  <2>2. PICK s : s = Push(b, IntVal(nextFiberId))
    OBVIOUS
  <2>3. Flagged(s) /\ Abs(s) = P!FiberPush(Abs(b))
    BY <1>13, <2>1, <2>2, PushAbs
  <2>4. Abs(b) = [depth |-> d - n - 1, ok |-> TRUE]
    BY <1>13, <2>1 DEF Abs, Depth
  <2>5. P!FiberPush(Abs(b)) = [depth |-> d - n, ok |-> TRUE]
    <3>1. PICK k : k = d - n - 1
      OBVIOUS
    <3>2. ~(k >= StackMax) /\ k + 1 = d - n
      BY <1>13, <3>1, StackMaxAssumption
    <3>3. PICK at : at = [depth |-> k, ok |-> TRUE]
      OBVIOUS
    <3>4. P!FiberPush(at) = [depth |-> k + 1, ok |-> TRUE]
      BY <3>2, <3>3 DEF P!FiberPush
    <3>5. QED
      BY <2>4, <3>1, <3>2, <3>3, <3>4
  <2>6. left = s.values
    BY <1>9, <2>1, <2>2
  <2>7. QED
    BY <2>3, <2>5, <2>6 DEF Flagged, Abs
<1>18. StackShape' /\ Depths' = [Depths EXCEPT ![f] = 1 + n, ![fiber] = d - n]
  <2>1. StackShape
    BY DEF MInv, Shape
  <2>2. stack = [g \in Fibers |-> stack[g]]
    BY <2>1 DEF StackShape
  <2>3. stack' = Both(stack, f, child, fiber, left)
    BY <1>11, <1>14, <1>15, <2>2, BothIsExcept
  <2>4. StackShape' /\ Depths' = Both(Depths, f, 1 + n, fiber, d - n)
    BY <1>16, <1>17, <2>1, <2>3, StackPutBoth
  <2>5. Both(Depths, f, 1 + n, fiber, d - n) = [Depths EXCEPT ![f] = 1 + n, ![fiber] = d - n]
    BY <1>14, <1>15 DEF Depths, Both
  <2>6. QED
    BY <2>4, <2>5
<1>19. IsFrames(t) /\ SlotsOf(t) = SlotsOf(own)
  <2>1. PICK ip : ip = own[Len(own)].ip + 1
    OBVIOUS
  <2>2. t = [own EXCEPT ![Len(own)].ip = ip]
    BY <1>6, <2>1
  <2>3. IsFrames(own)
    BY <1>14
  <2>4. QED
    BY ONLY <2>2, <2>3, FrameJump
<1>20. IsFrames(t1) /\ SlotsOf(t1) = <<0>>
  BY <1>7, FirstFrame
<1>21. frames' = [frames EXCEPT ![f] = t1, ![fiber] = t]
  BY <1>5, <1>6, <1>12, <1>14, <1>15 DEF MInv, Shape, FrameShape
<1>22. FrameShape' /\ Bases' = Both(Bases, f, <<0>>, fiber, SlotsOf(own))
  <2>1. FrameShape
    BY DEF MInv, Shape
  <2>2. frames = [g \in Fibers |-> frames[g]]
    BY <2>1 DEF FrameShape
  <2>3. frames' = Both(frames, f, t1, fiber, t)
    BY <1>14, <1>15, <1>21, <2>2, BothIsExcept
  <2>4. QED
    BY <1>19, <1>20, <2>1, <2>3, FramePutBoth
<1>23. Bases' = [Bases EXCEPT ![f] = <<0>>]
  <2>1. Bases[fiber] = SlotsOf(own)
    BY <1>5, <1>14 DEF Bases, SlotsOf
  <2>2. Bases = [g \in Fibers |-> Bases[g]]
    BY DEF Bases
  <2>3. QED
    BY <1>15, <1>22, <2>1, <2>2 DEF Both
<1>24. P!Spawn(n)
  <2>1. P!Executing
    BY <1>10, SpendMaps DEF SameHost
  <2>2. P!SpawnFiber(f, n, capabilities[fiber])
    BY <1>11, <1>23, SameSpawn DEF P!SpawnFiber, Bases
  <2>3. Depths[fiber] > n
    BY <1>2, <1>13
  <2>4. Depths' = [Depths EXCEPT ![f] = 1 + n, ![fiber] = @ - n]
    BY <1>2, <1>14, <1>15, <1>18 DEF Depths
  <2>5. effect' = "none"
    BY <1>10 DEF SameHost
  <2>6. QED
    BY ONLY <1>15, <2>1, <2>2, <2>3, <2>4, <2>5 DEF P!Spawn, Depths
<1>25. P!SpawnInstruction
  BY <1>13, <1>24 DEF P!SpawnInstruction
<1>26. QED
  BY <1>10, <1>18, <1>22, <1>25 DEF Mapped, Shape, Fetch

LEMMA FailMaps ==
  ASSUME MInv, NEW ops, Fetch(ops), NEW why, NEW pops \in {0, 2}, Fail(why, pops)
  PROVE  Mapped
<1>1. PICK s : s = PopN(Top, pops)
  OBVIOUS
<1>2. fiber \in Fibers /\ pc = "slice" /\ P!SliceGoesOn
  BY RunningFiber DEF Fetch
<1>3. Flagged(s) /\ Abs(s) = P!Apply(P!At(Depths[fiber]), pops, 0)
  BY <1>1, TwoPops DEF Fetch
<1>4. stack' = [stack EXCEPT ![fiber] = s.values] /\ IsStack(s.values)
  BY <1>1, <1>3 DEF Fail, Flagged
<1>5. StackShape' /\ Depths' = [Depths EXCEPT ![fiber] = Len(s.values)]
  BY <1>2, <1>4, StackPut DEF MInv, Shape
<1>6. FrameShape' /\ UNCHANGED Bases
  BY DEF MInv, Shape, FrameShape, Fail, Bases
<1>7. P!RuntimeError(pops)
  <2>1. Len(s.values) = P!Apply(P!At(Depths[fiber]), pops, 0).depth
    BY <1>3 DEF Abs
  <2>2. Depths' = [Depths EXCEPT ![fiber] = P!Apply(P!At(@), pops, 0).depth]
    BY <1>5, <2>1
  <2>3. P!Return("RUNTIME_ERROR") /\ state' = [state EXCEPT ![fiber] = "ERROR"] /\ effect' = "none"
    BY DEF Fail, Return, P!Return
  <2>4. UNCHANGED <<P!ringVars, P!scanVars, currentFiber, Bases, capabilities>>
    BY <1>6 DEF Fail, SameRing, ringVars, scanVars, P!ringVars, P!scanVars
  <2>5. QED
    BY ONLY <1>2, <2>2, <2>3, <2>4 DEF P!RuntimeError, Depths, Bases
<1>8. P!OtherInstruction
  BY <1>7 DEF P!OtherInstruction
<1>9. QED
  BY <1>5, <1>6, <1>8 DEF Mapped, Shape, Fetch

LEMMA RuntimeErrorMaps == ASSUME MInv, RuntimeError PROVE Mapped
<1>1. ASSUME NEW ops, NEW why, NEW pops \in {0, 2}, Fetch(ops) /\ Fail(why, pops) PROVE Mapped
  BY <1>1, FailMaps
<1>2. CASE Fetch({"GET_GLOBAL"}) /\ Fail("undefined", 0)
  BY <1>1, <1>2
<1>3. CASE Fetch(Operator) /\ Fail("zero", 2)
  BY <1>1, <1>3
<1>4. CASE Fetch({"CALL", "SPAWN"}) /\ Fail("callee", 0)
  BY <1>1, <1>4
<1>5. CASE Fetch({"CALL", "SPAWN"}) /\ Fail("arity", 0)
  BY <1>1, <1>5
<1>6. CASE Fetch({"CALL"}) /\ Fail("frames", 0)
  BY <1>1, <1>6
<1>7. QED
  BY <1>2, <1>3, <1>4, <1>5, <1>6 DEF RuntimeError

LEMMA ExecuteMaps == ASSUME MInv, Execute PROVE Mapped
BY PushConstantMaps, PopTopMaps, DuplicateMaps, GetLocalMaps, SetLocalMaps, DefineGlobalMaps, SetGlobalMaps,
   GetGlobalMaps, BinaryOperatorMaps, UnaryOperatorMaps, JumpInstructionMaps, JumpIfFalseMaps,
   CallMaps, ReturnMaps, FinishMaps, PrintMaps, SpawnMaps, YieldMaps, RequestMaps,
   InvokeCapabilityMaps, UnknownMaps, RuntimeErrorMaps DEF Execute

-----------------------------------------------------------------------------
(* Every step. *)

LEMMA InitMaps == ASSUME MachineInit PROVE P!Init /\ MInv
<1>1. PICK t : t = <<>>
  OBVIOUS
<1>2. IsStack(t) /\ IsFrames(t) /\ Len(t) = 0 /\ SlotsOf(t) = <<>> /\ DOMAIN t = {}
  <2>1. IsSeq(t) /\ Len(t) = 0 /\ DOMAIN t = 1..0
    BY <1>1, EmptyIsSeq, SeqOfSome
  <2>2. SlotsOf(t) = <<>>
    BY <1>1 DEF SlotsOf
  <2>3. QED
    BY <2>1, <2>2, StackMaxAssumption DEF IsStack, IsFrames
<1>3. stack = [f \in Fibers |-> t] /\ frames = [f \in Fibers |-> t] /\ program = t
  BY <1>1 DEF MachineInit
<1>4. Shape /\ OperandsFit(program)
  BY <1>2, <1>3 DEF Shape, StackShape, FrameShape, OperandsFit
<1>5. Depths = [f \in Fibers |-> 0] /\ Bases = [f \in Fibers |-> <<>>]
  <2>1. \A f \in Fibers : Len(stack[f]) = 0 /\ SlotsOf(frames[f]) = <<>>
    BY <1>2, <1>3
  <2>2. QED
    BY <2>1 DEF Depths, Bases, SlotsOf
<1>6. P!SchedulerInit
  BY DEF MachineInit, SchedulerInit, P!SchedulerInit
<1>7. P!Init
  BY <1>5, <1>6 DEF MachineInit, P!Init, Depths, Bases
<1>8. P!IInv
  BY <1>7, Assumptions, P!InitIInv
<1>9. QED
  BY <1>4, <1>7, <1>8 DEF MInv

LEMMA StepMaps ==
  ASSUME MInv, [HostCall \/ MachineNext]_machineVars
  PROVE  [P!Next]_(P!vars) /\ MInv'
<1>1. P!IInv
  BY DEF MInv
<1>2. CASE HostCall
  <2>1. P!Host /\ Shape' /\ OperandsFit(program)'
    BY <1>2, HostMaps
  <2>2. P!IInv'
    BY <1>1, <2>1, Assumptions, P!HostKeepsIInv
  <2>3. QED
    BY <2>1, <2>2 DEF P!Next, MInv
<1>3. CASE Loop
  <2>1. P!Loop /\ Shape' /\ program' = program
    BY <1>3, LoopMaps
  <2>2. P!IInv'
    BY <1>1, <2>1, Assumptions, P!LoopKeepsIInv
  <2>3. QED
    BY <2>1, <2>2 DEF P!Next, MInv, OperandsFit
<1>4. CASE Execute
  <2>1. (P!SpawnInstruction \/ P!OtherInstruction) /\ Shape' /\ program' = program
    BY <1>4, ExecuteMaps DEF Mapped
  <2>2. P!IInv'
    BY <1>1, <2>1, Assumptions, P!InstructionKeepsIInv
  <2>3. QED
    BY <2>1, <2>2 DEF P!Next, MInv, OperandsFit
<1>5. CASE UNCHANGED machineVars
  <2>1. Shape' /\ UNCHANGED <<Depths, Bases>> /\ program' = program
    BY <1>5, ShapeStays DEF MInv, machineVars, fiberVars
  <2>2. UNCHANGED P!vars
    BY <1>5, <2>1
       DEF machineVars, schedVars, ringVars, scanVars, loopVars, fiberVars, hostVars, Depths, Bases,
           P!vars, P!vmVars, P!schedVars, P!ringVars, P!scanVars
  <2>3. P!IInv'
    BY <1>1, <2>2, Assumptions, P!StutterKeepsIInv
  <2>4. QED
    BY <2>1, <2>2, <2>3 DEF MInv, OperandsFit
<1>6. QED
  BY <1>2, <1>3, <1>4, <1>5 DEF MachineNext

-----------------------------------------------------------------------------
(* VM and P are the same instance of FiberVM. *)

LEMMA SameInit == P!Init <=> VM!Init
BY DEF P!Init, VM!Init, P!SchedulerInit, VM!SchedulerInit

LEMMA SameVars == P!vars = VM!vars
BY DEF P!vars, VM!vars, P!vmVars, VM!vmVars, P!schedVars, VM!schedVars, P!ringVars, VM!ringVars,
       P!scanVars, VM!scanVars

LEMMA SameHosts == P!Host <=> VM!Host
<1>1. P!CompileError <=> VM!CompileError
  BY DEF P!CompileError, VM!CompileError, P!schedVars, VM!schedVars, P!ringVars,
         VM!ringVars, P!scanVars, VM!scanVars, P!vmVars, VM!vmVars
<1>2. P!RunFunction <=> VM!RunFunction
  BY DEF P!RunFunction, VM!RunFunction, P!SpawnFiber, VM!SpawnFiber, P!SchedulerSpawn,
         VM!SchedulerSpawn, P!LinkFirst, VM!LinkFirst, P!LinkAtTail, VM!LinkAtTail, P!Live,
         VM!Live, P!schedVars, VM!schedVars, P!ringVars, VM!ringVars, P!scanVars,
         VM!scanVars, P!vmVars, VM!vmVars
<1>3. P!RunFunctionNoMemory <=> VM!RunFunctionNoMemory
  BY DEF P!RunFunctionNoMemory, VM!RunFunctionNoMemory, P!schedVars, VM!schedVars,
         P!ringVars, VM!ringVars, P!scanVars, VM!scanVars, P!vmVars, VM!vmVars
<1>4. P!VmFree <=> VM!VmFree
  BY DEF P!VmFree, VM!VmFree, P!schedVars, VM!schedVars, P!ringVars, VM!ringVars,
         P!scanVars, VM!scanVars, P!vmVars, VM!vmVars
<1>5. P!VmInit <=> VM!VmInit
  BY DEF P!VmInit, VM!VmInit, P!schedVars, VM!schedVars, P!ringVars, VM!ringVars,
         P!scanVars, VM!scanVars, P!vmVars, VM!vmVars
<1>6. QED
  BY <1>1, <1>2, <1>3, <1>4, <1>5 DEF P!Host, VM!Host

LEMMA SameLoop == P!Loop <=> VM!Loop
<1>1. P!NoWork <=> VM!NoWork
  BY DEF P!NoWork, VM!NoWork, P!Return, VM!Return, P!schedVars, VM!schedVars, P!ringVars,
         VM!ringVars, P!scanVars, VM!scanVars, P!vmVars, VM!vmVars
<1>2. P!PickBegin <=> VM!PickBegin
  BY DEF P!PickBegin, VM!PickBegin, P!ScanBegin, VM!ScanBegin, P!schedVars, VM!schedVars,
         P!ringVars, VM!ringVars, P!scanVars, VM!scanVars, P!vmVars, VM!vmVars
<1>3. P!PickSkip <=> VM!PickSkip
  BY DEF P!PickSkip, VM!PickSkip, P!ScanAdvance, VM!ScanAdvance, P!Runnable, VM!Runnable,
         P!schedVars, VM!schedVars, P!ringVars, VM!ringVars, P!scanVars, VM!scanVars,
         P!vmVars, VM!vmVars
<1>4. P!PickTake <=> VM!PickTake
  BY DEF P!PickTake, VM!PickTake, P!ScanTake, VM!ScanTake, P!Runnable, VM!Runnable,
         P!schedVars, VM!schedVars, P!ringVars, VM!ringVars, P!scanVars, VM!scanVars,
         P!vmVars, VM!vmVars
<1>5. P!PickNone <=> VM!PickNone
  BY DEF P!PickNone, VM!PickNone, P!ScanFail, VM!ScanFail, P!Runnable, VM!Runnable,
         P!Return, VM!Return, P!schedVars, VM!schedVars, P!ringVars, VM!ringVars,
         P!scanVars, VM!scanVars, P!vmVars, VM!vmVars
<1>6. P!SliceEnd <=> VM!SliceEnd
  BY DEF P!SliceEnd, VM!SliceEnd, P!SliceGoesOn, VM!SliceGoesOn, P!schedVars, VM!schedVars,
         P!ringVars, VM!ringVars, P!scanVars, VM!scanVars, P!vmVars, VM!vmVars
<1>7. QED
  BY <1>1, <1>2, <1>3, <1>4, <1>5, <1>6 DEF P!Loop, VM!Loop

LEMMA SameSpawnInstructions == P!SpawnInstruction <=> VM!SpawnInstruction
BY DEF P!SpawnInstruction, VM!SpawnInstruction, P!Spawn, VM!Spawn, P!Executing,
       VM!Executing, P!SliceGoesOn, VM!SliceGoesOn, P!SpawnFiber, VM!SpawnFiber,
       P!SchedulerSpawn, VM!SchedulerSpawn, P!LinkFirst, VM!LinkFirst, P!LinkAtTail,
       VM!LinkAtTail, P!Live, VM!Live, P!schedVars, VM!schedVars, P!ringVars, VM!ringVars,
       P!scanVars, VM!scanVars, P!vmVars, VM!vmVars

LEMMA SameFree == P!Free <=> VM!Free
<1>1. P!VmFreeFiber <=> VM!VmFreeFiber
  BY DEF P!VmFreeFiber, VM!VmFreeFiber, P!DropCurrent, VM!DropCurrent,
         P!SchedulerFinishCurrent, VM!SchedulerFinishCurrent, P!FinishNothing,
         VM!FinishNothing, P!FinishOnly, VM!FinishOnly, P!FinishOneOfMany,
         VM!FinishOneOfMany, P!FiberBefore, VM!FiberBefore, P!schedVars, VM!schedVars,
         P!ringVars, VM!ringVars, P!scanVars, VM!scanVars, P!vmVars, VM!vmVars
<1>2. P!VmFreeDone <=> VM!VmFreeDone
  BY DEF P!VmFreeDone, VM!VmFreeDone, P!schedVars, VM!schedVars, P!ringVars, VM!ringVars,
         P!scanVars, VM!scanVars, P!vmVars, VM!vmVars
<1>3. QED
  BY <1>1, <1>2 DEF P!Free, VM!Free

LEMMA SameOtherInstruction == P!OtherInstruction <=> VM!OtherInstruction
<1>1. (\E e \in P!StackEffect : P!Operate(e[1], e[2]))
        <=> (\E e \in VM!StackEffect : VM!Operate(e[1], e[2]))
  BY DEF P!StackEffect, VM!StackEffect, P!Operate, VM!Operate, P!Executing, VM!Executing,
         P!SliceGoesOn, VM!SliceGoesOn, P!SetStack, VM!SetStack, P!Apply, VM!Apply, P!At,
         VM!At, P!FiberPush, VM!FiberPush, P!FiberPop, VM!FiberPop, P!schedVars,
         VM!schedVars, P!ringVars, VM!ringVars, P!scanVars, VM!scanVars, P!vmVars, VM!vmVars
<1>2. (\E args \in 0..PrintMax : P!InvokeHost("print", args, 0))
        <=> (\E args \in 0..PrintMax : VM!InvokeHost("print", args, 0))
  BY DEF P!InvokeHost, VM!InvokeHost, P!Executing, VM!Executing, P!SliceGoesOn,
         VM!SliceGoesOn, P!SetStack, VM!SetStack, P!Apply, VM!Apply, P!PopMany, VM!PopMany,
         P!At, VM!At, P!FiberPush, VM!FiberPush, P!FiberPop, VM!FiberPop, P!FfiInvoke,
         VM!FfiInvoke, P!FfiOperation, VM!FfiOperation, P!FfiRequires, VM!FfiRequires,
         P!CapHasPermission, VM!CapHasPermission, P!schedVars, VM!schedVars, P!ringVars, VM!ringVars,
         P!scanVars, VM!scanVars, P!vmVars, VM!vmVars
<1>3. (\E op \in P!OperationId, args \in 0..InvokeMax : P!InvokeHost(op, args, 1))
        <=> (\E op \in VM!OperationId, args \in 0..InvokeMax : VM!InvokeHost(op, args, 1))
  BY DEF P!OperationId, VM!OperationId, P!FfiOperation, VM!FfiOperation, P!InvokeHost,
         VM!InvokeHost, P!Executing,
         VM!Executing, P!SliceGoesOn, VM!SliceGoesOn, P!SetStack, VM!SetStack, P!Apply,
         VM!Apply, P!PopMany, VM!PopMany, P!At, VM!At, P!FiberPush, VM!FiberPush,
         P!FiberPop, VM!FiberPop, P!FfiInvoke, VM!FfiInvoke, P!FfiRequires, VM!FfiRequires,
         P!CapHasPermission, VM!CapHasPermission, P!schedVars, VM!schedVars, P!ringVars,
         VM!ringVars, P!scanVars, VM!scanVars, P!vmVars, VM!vmVars
<1>4. (\E name \in (Capability \ {"other"}) \cup {"stdio", "file", "net", "all", "unknown"} : P!CapRequest(name))
        <=> (\E name \in (Capability \ {"other"}) \cup {"stdio", "file", "net", "all", "unknown"} : VM!CapRequest(name))
  BY DEF P!CapRequest, VM!CapRequest, P!Executing, VM!Executing, P!SliceGoesOn,
         VM!SliceGoesOn, P!SetStack, VM!SetStack, P!At, VM!At, P!FiberPush, VM!FiberPush,
         P!CapHasPermission, VM!CapHasPermission, P!CapParseName, VM!CapParseName,
         P!Capability, VM!Capability, P!schedVars, VM!schedVars, P!ringVars, VM!ringVars,
         P!scanVars, VM!scanVars, P!vmVars, VM!vmVars
<1>5. (\E args \in 0..(StackMax - 1) : P!Call(args))
        <=> (\E args \in 0..(StackMax - 1) : VM!Call(args))
  BY DEF P!Call, VM!Call, P!Executing, VM!Executing, P!SliceGoesOn, VM!SliceGoesOn,
         P!schedVars, VM!schedVars, P!ringVars, VM!ringVars, P!scanVars, VM!scanVars,
         P!vmVars, VM!vmVars
<1>6. (\E args \in 0..(StackMax - 1) : P!SpawnNoMemory(args))
        <=> (\E args \in 0..(StackMax - 1) : VM!SpawnNoMemory(args))
  BY DEF P!SpawnNoMemory, VM!SpawnNoMemory, P!Executing, VM!Executing, P!SliceGoesOn,
         VM!SliceGoesOn, P!schedVars, VM!schedVars, P!ringVars, VM!ringVars, P!scanVars,
         VM!scanVars, P!vmVars, VM!vmVars
<1>7. P!ReturnToCaller <=> VM!ReturnToCaller
  BY DEF P!ReturnToCaller, VM!ReturnToCaller, P!Executing, VM!Executing, P!SliceGoesOn,
         VM!SliceGoesOn, P!SetStack, VM!SetStack, P!FiberPush, VM!FiberPush, P!FiberPop,
         VM!FiberPop, P!At, VM!At, P!schedVars, VM!schedVars, P!ringVars, VM!ringVars,
         P!scanVars, VM!scanVars, P!vmVars, VM!vmVars
<1>8. P!ReturnFromFiber <=> VM!ReturnFromFiber
  BY DEF P!ReturnFromFiber, VM!ReturnFromFiber, P!FinishFiber, VM!FinishFiber, P!Executing,
         VM!Executing, P!SliceGoesOn, VM!SliceGoesOn, P!DropCurrent, VM!DropCurrent,
         P!SchedulerFinishCurrent, VM!SchedulerFinishCurrent, P!FinishNothing,
         VM!FinishNothing, P!FinishOnly, VM!FinishOnly, P!FinishOneOfMany,
         VM!FinishOneOfMany, P!FiberBefore, VM!FiberBefore, P!schedVars, VM!schedVars,
         P!ringVars, VM!ringVars, P!scanVars, VM!scanVars, P!vmVars, VM!vmVars
<1>9. P!Halt <=> VM!Halt
  BY DEF P!Halt, VM!Halt, P!FinishFiber, VM!FinishFiber, P!Executing, VM!Executing,
         P!SliceGoesOn, VM!SliceGoesOn, P!DropCurrent, VM!DropCurrent,
         P!SchedulerFinishCurrent, VM!SchedulerFinishCurrent, P!FinishNothing,
         VM!FinishNothing, P!FinishOnly, VM!FinishOnly, P!FinishOneOfMany,
         VM!FinishOneOfMany, P!FiberBefore, VM!FiberBefore, P!schedVars, VM!schedVars,
         P!ringVars, VM!ringVars, P!scanVars, VM!scanVars, P!vmVars, VM!vmVars
<1>10. P!Yield <=> VM!Yield
  BY DEF P!Yield, VM!Yield, P!Executing, VM!Executing, P!SliceGoesOn, VM!SliceGoesOn,
         P!SchedulerYield, VM!SchedulerYield, P!schedVars, VM!schedVars, P!ringVars,
         VM!ringVars, P!scanVars, VM!scanVars, P!vmVars, VM!vmVars
<1>11. (\E pops \in {0, 2} : P!RuntimeError(pops))
        <=> (\E pops \in {0, 2} : VM!RuntimeError(pops))
  BY DEF P!RuntimeError, VM!RuntimeError, P!SliceGoesOn, VM!SliceGoesOn, P!Return,
         VM!Return, P!Apply, VM!Apply, P!At, VM!At, P!FiberPop, VM!FiberPop, P!FiberPush,
         VM!FiberPush, P!schedVars, VM!schedVars, P!ringVars, VM!ringVars, P!scanVars,
         VM!scanVars, P!vmVars, VM!vmVars
<1>12. P!UnknownOpcode <=> VM!UnknownOpcode
  BY DEF P!UnknownOpcode, VM!UnknownOpcode, P!SliceGoesOn, VM!SliceGoesOn, P!Return,
         VM!Return, P!schedVars, VM!schedVars, P!ringVars, VM!ringVars, P!scanVars,
         VM!scanVars, P!vmVars, VM!vmVars
<1>13. QED
  BY <1>1, <1>2, <1>3, <1>4, <1>5, <1>6, <1>7, <1>8, <1>9, <1>10, <1>11, <1>12
     DEF P!OtherInstruction, VM!OtherInstruction

LEMMA SameNext == P!Next <=> VM!Next
BY SameHosts, SameLoop, SameSpawnInstructions, SameOtherInstruction, SameFree DEF P!Next, VM!Next

\* Whatever program runs, the inductive invariant holds in every state: the
\* stacks and frames are of the shape that FiberVM's invariant describes.
THEOREM MachineInvariance == MachineSpec => []MInv
<1>1. MachineInit => MInv
  BY InitMaps
<1>2. MInv /\ [HostCall \/ MachineNext]_machineVars => MInv'
  BY StepMaps
<1>3. QED
  BY <1>1, <1>2, PTL DEF MachineSpec

\* The machine that executes bytecode implements FiberVM, for any bytecode
\* whose operands fit, that the compiler emits it or not.
THEOREM MachineRefinesFiberVM == MachineSpec => RefinesFiberVM
<1>1. MachineInit => VM!Init
  BY InitMaps, SameInit
<1>2. MInv /\ [HostCall \/ MachineNext]_machineVars => [VM!Next]_(VM!vars)
  <2>1. SUFFICES ASSUME MInv, [HostCall \/ MachineNext]_machineVars PROVE [VM!Next]_(VM!vars)
    OBVIOUS
  <2>2. [P!Next]_(P!vars)
    BY <2>1, StepMaps
  <2>3. CASE P!Next
    BY <2>3, SameNext
  <2>4. CASE UNCHANGED P!vars
    BY <2>4 DEF P!vars, VM!vars, P!vmVars, VM!vmVars, P!schedVars, VM!schedVars,
                P!ringVars, VM!ringVars, P!scanVars, VM!scanVars
  <2>5. QED
    BY <2>2, <2>3, <2>4
<1>3. MachineSpec => []MInv
  BY MachineInvariance
<1>4. QED
  BY <1>1, <1>2, <1>3, PTL DEF MachineSpec, RefinesFiberVM, VM!Spec

\* What is proved of FiberVM holds of every program that runs, compiled or
\* not, as long as its operands fit (OperandsFit), it stays in its chunks and
\* writes no local behind the stack array: the ring is whole, the fiber that
\* runs is the scheduler's current one, INTERPRET_OK leaves no work behind.  And
\* an effect on the host, asked for by OP_PRINT or OP_CAP_INVOKE, is one that
\* the fiber that runs holds the capability for, and vm_init had it too.
THEOREM MachineSafe ==
  MachineSpec => [](RingOK /\ VM!CurrentOK /\ VM!OkMeansNoWork) /\ VM!EffectAllowed
<1> DEFINE Allowed == pc = "slice" /\ pc' = "slice" /\ effect' # "none"
                        => effect' \in capabilities[fiber] \cap DefaultCapabilities
<1>1. MInv => RingOK /\ VM!CurrentOK /\ VM!OkMeansNoWork
  <2>1. SUFFICES ASSUME MInv PROVE RingOK /\ VM!CurrentOK /\ VM!OkMeansNoWork
    OBVIOUS
  <2>2. P!IInv
    BY <2>1 DEF MInv
  <2>3. P!RingOK /\ P!OkMeansNoWork
    BY <2>2 DEF P!IInv
  <2>4. RingOK
    <3>1. P!Live = Live
      BY DEF Live, P!Live
    <3>2. P!Cardinality(Live) = Cardinality(Live)
      BY DEF Cardinality, P!Cardinality, IsFiniteSet, P!IsFiniteSet
    <3>3. QED
      BY <2>3, <3>1, <3>2 DEF RingOK, P!RingOK
  <2>5. P!CurrentOK
    BY <2>2 DEF P!CurrentOK, P!IInv, P!PcInv
  <2>6. VM!CurrentOK
    BY <2>5 DEF P!CurrentOK, VM!CurrentOK, P!Live, VM!Live
  <2>7. VM!OkMeansNoWork
    BY <2>3 DEF P!OkMeansNoWork, VM!OkMeansNoWork, P!Live, VM!Live
  <2>8. QED
    BY <2>4, <2>6, <2>7
<1>2. MInv /\ [HostCall \/ MachineNext]_machineVars => [Allowed]_(VM!vars)
  <2>1. SUFFICES ASSUME MInv, [HostCall \/ MachineNext]_machineVars PROVE [Allowed]_(VM!vars)
    OBVIOUS
  <2>2. P!IInv /\ [P!Next]_(P!vars)
    BY <2>1, StepMaps DEF MInv
  <2>3. CASE P!Next
    <3>1. ASSUME pc = "slice", pc' = "slice", effect' # "none"
          PROVE  effect' \in capabilities[fiber] \cap DefaultCapabilities
      BY <2>2, <2>3, <3>1, Assumptions, P!StepIsAllowed
    <3>2. QED
      BY <3>1
  <2>4. CASE UNCHANGED P!vars
    BY <2>4 DEF P!vars, VM!vars, P!vmVars, VM!vmVars, P!schedVars, VM!schedVars,
                P!ringVars, VM!ringVars, P!scanVars, VM!scanVars
  <2>5. QED
    BY <2>2, <2>3, <2>4
<1>3. QED
  BY <1>1, <1>2, MachineInvariance, PTL DEF MachineSpec, VM!EffectAllowed

\* In a program too, a fiber that died of an error never runs again.
THEOREM MachineErrorFinal == MachineSpec => VM!ErrorIsFinal
<1> DEFINE Final == \A f \in Fibers :
                state[f] = "ERROR" => state'[f] \in {"ERROR", "COMPLETED"}
<1>1. MInv /\ [HostCall \/ MachineNext]_machineVars => [Final]_(VM!vars)
  <2>1. SUFFICES ASSUME MInv, [HostCall \/ MachineNext]_machineVars PROVE [Final]_(VM!vars)
    OBVIOUS
  <2>2. P!IInv /\ [P!Next]_(P!vars)
    BY <2>1, StepMaps DEF MInv
  <2>3. CASE P!Next
    <3>1. ASSUME NEW f \in Fibers, state[f] = "ERROR"
          PROVE  state'[f] \in {"ERROR", "COMPLETED"}
      BY <2>2, <2>3, <3>1, Assumptions, P!StepKeepsError
    <3>2. QED
      BY <3>1
  <2>4. CASE UNCHANGED P!vars
    BY <2>4 DEF P!vars, VM!vars, P!vmVars, VM!vmVars, P!schedVars, VM!schedVars,
                P!ringVars, VM!ringVars, P!scanVars, VM!scanVars
  <2>5. QED
    BY <2>2, <2>3, <2>4
<1>2. QED
  BY <1>1, MachineInvariance, PTL DEF MachineSpec, VM!ErrorIsFinal
=============================================================================
