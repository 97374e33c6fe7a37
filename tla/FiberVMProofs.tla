---------------------------- MODULE FiberVMProofs ---------------------------
(***************************************************************************)
(* The safety of FiberVM for any number of fibers, any stack, frame and    *)
(* budget limits and any capabilities of the host.  The first part is      *)
(* about scheduler.c alone: its operations keep the ring one circle of the *)
(* live fibers.                                                            *)
(***************************************************************************)
EXTENDS FiberVM, FiniteSetTheorems, SequenceTheorems, TLAPS

-----------------------------------------------------------------------------
(* The ring. *)

LEMMA LiveFinite == ASSUME SchedulerTypeOK
                    PROVE  IsFiniteSet(Live) /\ Cardinality(Live) \in Nat
<1>1. IsFiniteSet(Live)
  BY FibersAssumption, FS_Subset DEF Live
<1>2. QED
  BY <1>1, FS_CardinalityType

\* A step that moves no link and neither makes nor frees a fiber keeps the
\* ring.
LEMMA RingUntouched ==
  ASSUME RingOK, UNCHANGED ringVars, Live' = Live
  PROVE  RingOK'
BY DEF RingOK, ringVars

\* scheduler_spawn, first fiber.
LEMMA LinkFirstKeepsRing ==
  ASSUME SchedulerTypeOK, RingOK,
         NEW f \in Fibers \ Live,
         LinkFirst(f), fiberCount' = fiberCount + 1,
         Live' = Live \cup {f}
  PROVE  RingOK'
<1>1. Live = {}
  BY FibersAssumption DEF RingOK, LinkFirst, SchedulerTypeOK, Live
<1>2. Live' = {f}
  BY <1>1
<1>3. Cardinality(Live') = 1 /\ fiberCount = 0
  BY <1>1, <1>2, FS_Singleton, FS_EmptySet DEF RingOK
<1>4. next'[f] = f /\ prev'[f] = f /\ head' = f
  BY DEF LinkFirst, SchedulerTypeOK
<1>5. QED
  BY <1>2, <1>3, <1>4 DEF RingOK

\* scheduler_spawn behind the tail.
LEMMA LinkAtTailKeepsRing ==
  ASSUME SchedulerTypeOK, RingOK,
         NEW f \in Fibers \ Live,
         LinkAtTail(f), fiberCount' = fiberCount + 1,
         Live' = Live \cup {f}
  PROVE  RingOK'
<1> DEFINE tail == prev[head]
<1>1. head \in Live /\ tail \in Live /\ next[tail] = head /\ f \notin Live
  BY DEF RingOK, LinkAtTail
<1>2. Live \subseteq Fibers
  BY DEF Live
<1>3. /\ next' = [next EXCEPT ![tail] = f, ![f] = head]
      /\ prev' = [prev EXCEPT ![f] = tail, ![head] = f]
      /\ head' = head
  BY DEF LinkAtTail
<1>4. /\ next'[f] = head /\ next'[tail] = f
      /\ \A g \in Live : g # tail => next'[g] = next[g]
  BY <1>1, <1>2, <1>3 DEF SchedulerTypeOK
<1>5. /\ prev'[f] = tail /\ prev'[head] = f
      /\ \A g \in Live : g # head => prev'[g] = prev[g]
  BY <1>1, <1>2, <1>3 DEF SchedulerTypeOK
<1>6. fiberCount' = Cardinality(Live')
  BY <1>1, LiveFinite, FS_AddElement DEF RingOK
<1>7. \A g \in Live' : /\ next'[g] \in Live' /\ prev'[next'[g]] = g
                       /\ prev'[g] \in Live' /\ next'[prev'[g]] = g
  <2> SUFFICES ASSUME NEW g \in Live'
               PROVE  /\ next'[g] \in Live' /\ prev'[next'[g]] = g
                      /\ prev'[g] \in Live' /\ next'[prev'[g]] = g
    OBVIOUS
  <2>1. g \in Live => /\ next[g] \in Live /\ prev[next[g]] = g
                      /\ prev[g] \in Live /\ next[prev[g]] = g
    BY DEF RingOK
  <2>2. next'[g] \in Live' /\ prev'[next'[g]] = g
    BY <1>1, <1>4, <1>5, <2>1
  <2>3. prev'[g] \in Live' /\ next'[prev'[g]] = g
    BY <1>1, <1>4, <1>5, <2>1
  <2>4. QED
    BY <2>2, <2>3
<1>8. ASSUME NEW part \in SUBSET Live', part # {},
             \A g \in part : next'[g] \in part
      PROVE  part = Live'
  <2>1. CASE f \in part
    <3>1. head \in part \ {f}
      BY <1>1, <1>4, <1>8, <2>1
    <3>2. \A g \in part \ {f} : next[g] \in part \ {f}
      <4> SUFFICES ASSUME NEW g \in part \ {f}
                   PROVE  next[g] \in part \ {f}
        OBVIOUS
      <4>1. g \in Live /\ next[g] \in Live
        BY DEF RingOK
      <4>2. CASE g = tail
        BY <1>1, <3>1, <4>2
      <4>3. CASE g # tail
        BY <1>1, <1>4, <1>8, <4>1, <4>3
      <4>4. QED
        BY <4>2, <4>3
    <3>3. part \ {f} = Live
      BY <3>1, <3>2 DEF RingOK
    <3>4. QED
      BY <2>1, <3>3
  <2>2. CASE f \notin part
    <3>1. tail \notin part
      BY <1>4, <1>8, <2>2
    <3>2. part \in SUBSET Live /\ \A g \in part : next[g] \in part
      BY <1>4, <1>8, <2>2, <3>1
    <3>3. part = Live
      BY <1>8, <3>2 DEF RingOK
    <3>4. QED
      BY <1>1, <3>1, <3>3
  <2>3. QED
    BY <2>1, <2>2
<1>9. QED
  <2>1. Live' # {} /\ head' \in Live'
    BY <1>1, <1>3
  <2>2. QED
    BY <1>6, <1>7, <1>8, <2>1 DEF RingOK

\* scheduler_spawn, whichever way the fiber is linked.
LEMMA SpawnKeepsRing ==
  ASSUME SchedulerTypeOK, RingOK,
         NEW f \in Fibers,
         SchedulerSpawn(f), state' = [state EXCEPT ![f] = "READY"]
  PROVE  /\ SchedulerTypeOK'
         /\ Live' = Live \cup {f}
         /\ f \notin Live
         /\ RingOK'
<1>1. f \in Fibers \ Live
  BY DEF SchedulerSpawn
<1>2. Live' = Live \cup {f}
  BY <1>1 DEF Live, SchedulerTypeOK
<1>3. RingOK'
  <2>1. CASE LinkFirst(f)
    BY <1>1, <1>2, <2>1, LinkFirstKeepsRing DEF SchedulerSpawn
  <2>2. CASE LinkAtTail(f)
    BY <1>1, <1>2, <2>2, LinkAtTailKeepsRing DEF SchedulerSpawn
  <2>3. QED
    BY <2>1, <2>2 DEF SchedulerSpawn
<1>4. SchedulerTypeOK'
  <2>1. head' \in Fibers /\ next' \in [Fibers -> Fibers \cup {NULL}]
        /\ prev' \in [Fibers -> Fibers \cup {NULL}]
    <3>1. CASE LinkFirst(f)
      BY <3>1 DEF LinkFirst, SchedulerTypeOK
    <3>2. CASE LinkAtTail(f)
      BY <3>2 DEF LinkAtTail, SchedulerTypeOK
    <3>3. QED
      BY <3>1, <3>2 DEF SchedulerSpawn
  <2>2. /\ fiberCount' = fiberCount + 1
        /\ currentFiber' = currentFiber
        /\ scanStart' = scanStart /\ scanCurr' = scanCurr
    BY DEF SchedulerSpawn, scanVars
  <2>3. state' \in [Fibers -> FiberState]
    BY DEF SchedulerTypeOK, FiberState
  <2>4. QED
    BY <2>1, <2>2, <2>3 DEF SchedulerTypeOK
<1>5. QED
  BY <1>1, <1>2, <1>3, <1>4

\* scheduler_finish_current of the last fiber.
LEMMA FinishOnlyKeepsRing ==
  ASSUME SchedulerTypeOK, RingOK, currentFiber \in Live, FinishOnly
  PROVE  /\ SchedulerTypeOK'
         /\ Live' = {}
         /\ RingOK'
<1>1. Live' = Live \ {currentFiber}
  BY DEF FinishOnly, SchedulerTypeOK, Live
<1>2. Live = {currentFiber}
  <2>1. Cardinality(Live) = 1
    BY DEF FinishOnly, RingOK
  <2>2. Cardinality(Live \ {currentFiber}) = 0
    BY <2>1, LiveFinite, FS_RemoveElement
  <2>3. Live \ {currentFiber} = {}
    BY <2>2, LiveFinite, FS_RemoveElement, FS_EmptySet
  <2>4. QED
    BY <2>3
<1>3. Live' = {}
  BY <1>1, <1>2
<1>4. RingOK'
  BY <1>3, FS_EmptySet DEF RingOK, FinishOnly
<1>5. SchedulerTypeOK'
  BY DEF FinishOnly, SchedulerTypeOK, scanVars, FiberState, Live
<1>6. QED
  BY <1>3, <1>4, <1>5

\* scheduler_finish_current of one fiber among others.
LEMMA FinishOneOfManyKeepsRing ==
  ASSUME SchedulerTypeOK, RingOK, currentFiber \in Live, FinishOneOfMany
  PROVE  /\ SchedulerTypeOK'
         /\ Live' = Live \ {currentFiber}
         /\ currentFiber' \in Live'
         /\ RingOK'
<1> DEFINE f == currentFiber
           before == prev[f]
           after == next[f]
<1>1. f \in Fibers /\ Live \subseteq Fibers /\ Live' = Live \ {f}
  BY DEF FinishOneOfMany, FiberBefore, SchedulerTypeOK, Live
<1>2. /\ before \in Live /\ next[before] = f
      /\ after \in Live /\ prev[after] = f
  BY DEF RingOK
<1>3. after # f /\ before # f
  <2>1. Live # {f}
    BY FS_Singleton DEF RingOK, FinishOneOfMany, FiberBefore
  <2>2. after # f
    <3> SUFFICES ASSUME after = f PROVE FALSE
      OBVIOUS
    <3>1. {f} \in SUBSET Live /\ {f} # {} /\ \A g \in {f} : next[g] \in {f}
      OBVIOUS
    <3>2. QED
      BY <2>1, <3>1 DEF RingOK
  <2>3. QED
    BY <1>2, <2>2
<1>4. /\ next' = [next EXCEPT ![before] = after, ![f] = NULL]
      /\ prev' = [prev EXCEPT ![after] = before, ![f] = NULL]
      /\ head' = IF head = f THEN after ELSE head
      /\ currentFiber' = before
      /\ fiberCount' = fiberCount - 1
  BY DEF FinishOneOfMany, FiberBefore
<1>5. /\ next'[before] = after
      /\ \A g \in Live' : g # before => next'[g] = next[g]
  BY <1>1, <1>2, <1>3, <1>4 DEF SchedulerTypeOK
<1>6. /\ prev'[after] = before
      /\ \A g \in Live' : g # after => prev'[g] = prev[g]
  BY <1>1, <1>2, <1>3, <1>4 DEF SchedulerTypeOK
<1>7. fiberCount' = Cardinality(Live')
  BY <1>1, <1>4, LiveFinite, FS_RemoveElement DEF RingOK
<1>8. \A g \in Live' : /\ next'[g] \in Live' /\ prev'[next'[g]] = g
                       /\ prev'[g] \in Live' /\ next'[prev'[g]] = g
  <2> SUFFICES ASSUME NEW g \in Live'
               PROVE  /\ next'[g] \in Live' /\ prev'[next'[g]] = g
                      /\ prev'[g] \in Live' /\ next'[prev'[g]] = g
    OBVIOUS
  <2>1. /\ g \in Live /\ g # f
        /\ next[g] \in Live /\ prev[next[g]] = g
        /\ prev[g] \in Live /\ next[prev[g]] = g
    BY <1>1 DEF RingOK
  <2>2. next'[g] \in Live' /\ prev'[next'[g]] = g
    BY <1>1, <1>2, <1>3, <1>5, <1>6, <2>1
  <2>3. prev'[g] \in Live' /\ next'[prev'[g]] = g
    BY <1>1, <1>2, <1>3, <1>5, <1>6, <2>1
  <2>4. QED
    BY <2>2, <2>3
<1>9. ASSUME NEW part \in SUBSET Live', part # {},
             \A g \in part : next'[g] \in part
      PROVE  part = Live'
  <2>1. CASE before \in part
    <3>1. after \in part
      BY <1>5, <1>9, <2>1
    <3>2. \A g \in part \cup {f} : next[g] \in part \cup {f}
      BY <1>2, <1>5, <1>9, <3>1
    <3>3. part \cup {f} \in SUBSET Live /\ part \cup {f} # {}
      BY <1>1
    <3>4. part \cup {f} = Live
      BY <3>2, <3>3 DEF RingOK
    <3>5. QED
      BY <1>1, <3>4
  <2>2. CASE before \notin part
    <3>1. part \in SUBSET Live /\ \A g \in part : next[g] \in part
      BY <1>1, <1>5, <1>9, <2>2
    <3>2. part = Live
      BY <1>9, <3>1 DEF RingOK
    <3>3. QED
      BY <1>2, <2>2, <3>2
  <2>3. QED
    BY <2>1, <2>2
<1>10. Live' # {} /\ head' \in Live' /\ currentFiber' \in Live'
  BY <1>1, <1>2, <1>3, <1>4 DEF RingOK
<1>11. RingOK'
  BY <1>7, <1>8, <1>9, <1>10 DEF RingOK
<1>12. SchedulerTypeOK'
  <2>1. fiberCount' \in Nat
    <3>1. IsFiniteSet(Live')
      BY <1>1, LiveFinite, FS_RemoveElement
    <3>2. QED
      BY <1>7, <3>1, FS_CardinalityType
  <2>2. head' \in Fibers /\ currentFiber' \in Fibers
    BY <1>1, <1>10
  <2>3. next' \in [Fibers -> Fibers \cup {NULL}]
        /\ prev' \in [Fibers -> Fibers \cup {NULL}]
    BY <1>1, <1>2, <1>4 DEF SchedulerTypeOK
  <2>4. QED
    BY <2>1, <2>2, <2>3
       DEF FinishOneOfMany, FiberBefore, SchedulerTypeOK, scanVars, FiberState
<1>13. QED
  BY <1>1, <1>10, <1>11, <1>12

-----------------------------------------------------------------------------
(* The inductive invariant. *)

\* current_fiber is live, and it is the fiber of the slice.  It is NULL with
\* fibers linked only when the first pick after a spawn into an empty ring
\* has not happened: then that fiber is runnable, and the pick finds it.
PcInv ==
    /\ currentFiber \in Live \cup {NULL}
    /\ pc = "slice" => /\ fiber \in Fibers
                       /\ state[fiber] # "COMPLETED" => fiber = currentFiber
    /\ Live # {} /\ currentFiber = NULL =>
          /\ pc \in {"pick", "scan"}
          /\ \E f \in Live : state[f] \in Runnable
    /\ pc = "freed" => Live = {}

\* The fibers a scan has passed are not runnable, and they are a stretch of
\* the ring from its start to its current position.
ScanInv ==
    pc = "scan" =>
        /\ scanStart \in Live /\ scanCurr \in Live
        /\ \E done \in SUBSET Live :
              /\ \A f \in done : /\ state[f] \notin Runnable
                                 /\ next[f] \in done \cup {scanCurr}
              /\ scanStart \in done \cup {scanCurr}

\* No code blocks a fiber.
StateInv == \A f \in Fibers : state[f] # "BLOCKED"

\* No fiber holds more than the VM was given.
CapInv == \A f \in Fibers : capabilities[f] \subseteq DefaultCapabilities

IInv ==
    /\ TypeOK
    /\ RingOK
    /\ PcInv
    /\ ScanInv
    /\ StateInv
    /\ CapInv
    /\ OkMeansNoWork

-----------------------------------------------------------------------------
(* Lemmas about parts of the actions. *)

LEMMA StackTyped ==
  ASSUME NEW s \in Stack, NEW pops \in Nat, NEW pushes \in Nat
  PROVE  /\ FiberPush(s) \in Stack
         /\ FiberPop(s) \in Stack
         /\ PopMany(s, pops) \in Stack
         /\ Apply(s, pops, pushes) \in Stack
<1>1. \A t \in Stack : FiberPush(t) \in Stack /\ FiberPop(t) \in Stack
  <2> SUFFICES ASSUME NEW t \in Stack
               PROVE  FiberPush(t) \in Stack /\ FiberPop(t) \in Stack
    OBVIOUS
  <2>1. t.depth \in 0..StackMax /\ t.ok \in BOOLEAN
    BY DEF Stack
  <2>2. FiberPush(t) \in Stack
    <3>1. CASE t.depth >= StackMax
      BY <3>1 DEF FiberPush, Stack
    <3>2. CASE ~(t.depth >= StackMax)
      <4>1. t.depth + 1 \in 0..StackMax
        BY <2>1, <3>2, StackMaxAssumption
      <4>2. QED
        BY <3>2, <4>1 DEF FiberPush, Stack
    <3>3. QED
      BY <3>1, <3>2
  <2>3. FiberPop(t) \in Stack
    <3>1. CASE t.depth = 0
      BY <3>1 DEF FiberPop, Stack
    <3>2. CASE t.depth # 0
      <4>1. t.depth - 1 \in 0..StackMax
        BY <2>1, <3>2, StackMaxAssumption
      <4>2. QED
        BY <3>2, <4>1 DEF FiberPop, Stack
    <3>3. QED
      BY <3>1, <3>2
  <2>4. QED
    BY <2>2, <2>3
<1>2. Apply(s, pops, pushes) \in Stack
  BY <1>1 DEF Apply
<1>3. PopMany(s, pops) \in Stack
  <2>1. s.depth \in 0..StackMax /\ s.ok \in BOOLEAN
    BY DEF Stack
  <2>2. CASE s.depth >= pops
    <3>1. s.depth - pops \in 0..StackMax
      BY <2>1, <2>2, StackMaxAssumption
    <3>2. QED
      BY <2>2, <3>1 DEF PopMany, Stack
  <2>3. CASE ~(s.depth >= pops)
    <3>1. 0 \in 0..StackMax
      BY StackMaxAssumption
    <3>2. QED
      BY <2>3, <3>1 DEF PopMany, Stack
  <2>4. QED
    BY <2>2, <2>3
<1>4. QED
  BY <1>1, <1>2, <1>3

LEMMA DepthTyped ==
  ASSUME TypeOK, NEW f \in Fibers
  PROVE  At(depth[f]) \in Stack
BY DEF TypeOK, At, Stack

\* The running fiber is current_fiber, and it is live.
LEMMA RunningIsCurrent ==
  ASSUME IInv, pc = "slice", SliceGoesOn
  PROVE  /\ fiber = currentFiber
         /\ fiber \in Live
         /\ fiber \in Fibers
         /\ state[fiber] = "RUNNING"
BY DEF IInv, PcInv, SliceGoesOn, Live

\* An instruction that leaves the ring alone and only gives its own fiber
\* another state keeps everything that is about the scheduler.
LEMMA InstructionKeepsScheduler ==
  ASSUME IInv, Executing, UNCHANGED <<ringVars, scanVars, currentFiber>>,
         NEW st \in {"RUNNING", "YIELDED", "ERROR"},
         state' = [state EXCEPT ![fiber] = st]
  PROVE  /\ SchedulerTypeOK'
         /\ RingOK' /\ PcInv' /\ ScanInv' /\ StateInv' /\ OkMeansNoWork'
<1>1. /\ fiber = currentFiber /\ fiber \in Live /\ fiber \in Fibers
      /\ pc = "slice" /\ pc' = "slice" /\ fiber' = fiber
  BY RunningIsCurrent DEF Executing
<1>2. SchedulerTypeOK
  BY DEF IInv, TypeOK
<1>3. Live' = Live
  BY <1>1, <1>2 DEF Live, SchedulerTypeOK
<1>4. SchedulerTypeOK'
  BY <1>1, <1>2 DEF SchedulerTypeOK, ringVars, scanVars, FiberState
<1>5. RingOK'
  BY <1>3, RingUntouched DEF IInv
<1>6. PcInv'
  BY <1>1, <1>3 DEF IInv, PcInv
<1>7. StateInv'
  BY <1>1, <1>2 DEF IInv, StateInv, SchedulerTypeOK
<1>8. ScanInv' /\ OkMeansNoWork'
  BY <1>1 DEF ScanInv, OkMeansNoWork
<1>9. QED
  BY <1>4, <1>5, <1>6, <1>7, <1>8

\* SetStack gives the running fiber a depth within bounds, and leaves it
\* RUNNING or in ERROR.
LEMMA SetStackTyped ==
  ASSUME IInv, Executing, NEW s \in Stack, SetStack(s)
  PROVE  /\ depth' \in [Fibers -> 0..StackMax]
         /\ \E st \in {"RUNNING", "YIELDED", "ERROR"} :
                state' = [state EXCEPT ![fiber] = st]
<1>1. fiber \in Fibers /\ state[fiber] = "RUNNING"
  BY RunningIsCurrent DEF Executing
<1>2. depth' \in [Fibers -> 0..StackMax]
  BY <1>1 DEF SetStack, Stack, IInv, TypeOK
<1>3. state = [state EXCEPT ![fiber] = "RUNNING"]
  BY <1>1 DEF IInv, TypeOK, SchedulerTypeOK
<1>4. QED
  BY <1>2, <1>3 DEF SetStack

\* What Executing says of the variables that are the same for every
\* instruction.
LEMMA ExecutingTyped ==
  ASSUME IInv, Executing
  PROVE  /\ pc' \in Pc /\ fiber' \in Fibers \cup {NULL}
         /\ budget' \in 0..SliceBudget /\ result' \in InterpretResult
BY SliceBudgetAssumption DEF IInv, TypeOK, Executing, SliceGoesOn

\* scheduler_finish_current of a live current fiber.
LEMMA FinishKeepsScheduler ==
  ASSUME SchedulerTypeOK, RingOK, currentFiber \in Live,
         SchedulerFinishCurrent
  PROVE  /\ SchedulerTypeOK'
         /\ RingOK'
         /\ Live' = Live \ {currentFiber}
         /\ currentFiber' \in Live' \cup {NULL}
         /\ Live' # {} => currentFiber' # NULL
         /\ state' = [state EXCEPT ![currentFiber] = "COMPLETED"]
         /\ UNCHANGED scanVars
<1>1. currentFiber # NULL /\ currentFiber \in Fibers
  BY FibersAssumption DEF Live
<1>2. CASE FinishOnly
  <2>1. SchedulerTypeOK' /\ RingOK' /\ Live' = {}
    BY <1>2, FinishOnlyKeepsRing
  <2>2. currentFiber' = NULL
        /\ state' = [state EXCEPT ![currentFiber] = "COMPLETED"]
        /\ UNCHANGED scanVars
    BY <1>2 DEF FinishOnly
  <2>3. Live' = Live \ {currentFiber}
    BY <1>1, <2>1, <2>2 DEF Live, SchedulerTypeOK
  <2>4. QED
    BY <2>1, <2>2, <2>3
<1>3. CASE FinishOneOfMany
  <2>1. /\ SchedulerTypeOK' /\ RingOK' /\ Live' = Live \ {currentFiber}
        /\ currentFiber' \in Live'
    BY <1>3, FinishOneOfManyKeepsRing
  <2>2. state' = [state EXCEPT ![currentFiber] = "COMPLETED"]
        /\ UNCHANGED scanVars
    BY <1>3 DEF FinishOneOfMany, FiberBefore
  <2>3. currentFiber' # NULL
    BY <2>1, FibersAssumption DEF Live
  <2>4. QED
    BY <2>1, <2>2, <2>3
<1>4. QED
  BY <1>1, <1>2, <1>3 DEF SchedulerFinishCurrent, FinishNothing

\* A step that only moves the host-side variables.
LEMMA SchedulerUntouched ==
  ASSUME SchedulerTypeOK, UNCHANGED schedVars
  PROVE  /\ SchedulerTypeOK' /\ Live' = Live
         /\ (RingOK => RingOK') /\ (StateInv => StateInv')
BY DEF SchedulerTypeOK, schedVars, ringVars, scanVars, Live, RingOK, StateInv

-----------------------------------------------------------------------------
(* The inductive invariant holds initially and every action keeps it. *)

LEMMA InitIInv == Init => IInv
<1> SUFFICES ASSUME Init PROVE IInv
  OBVIOUS
<1>1. Live = {}
  BY DEF Init, SchedulerInit, Live
<1>2. TypeOK
  BY SliceBudgetAssumption, StackMaxAssumption
     DEF Init, SchedulerInit, TypeOK, SchedulerTypeOK, FiberState, Pc,
         InterpretResult
<1>3. RingOK
  BY <1>1, FS_EmptySet DEF Init, SchedulerInit, RingOK
<1>4. PcInv /\ ScanInv /\ StateInv /\ OkMeansNoWork
  BY <1>1 DEF Init, SchedulerInit, PcInv, ScanInv, StateInv, OkMeansNoWork
<1>5. CapInv
  BY DEF Init, CapInv
<1>6. QED
  BY <1>2, <1>3, <1>4, <1>5 DEF IInv

\* A spawned fiber, for vm_run_function and OP_SPAWN.
LEMMA SpawnFiberKeeps ==
  ASSUME IInv, NEW f \in Fibers, NEW args \in 0..MaxArgs,
         NEW caps \in SUBSET DefaultCapabilities,
         SpawnFiber(f, args, caps)
  PROVE  /\ SchedulerTypeOK' /\ RingOK' /\ StateInv' /\ CapInv'
         /\ Live' = Live \cup {f} /\ f \notin Live
         /\ UNCHANGED <<currentFiber, scanVars>>
         /\ state' = [state EXCEPT ![f] = "READY"]
         /\ frames' \in [Fibers -> Seq(0..StackMax)]
         /\ capabilities' \in [Fibers -> SUBSET Capability]
<1>1. /\ SchedulerSpawn(f) /\ state' = [state EXCEPT ![f] = "READY"]
      /\ SchedulerTypeOK /\ RingOK
  BY DEF SpawnFiber, IInv, TypeOK
<1>2. /\ SchedulerTypeOK' /\ RingOK'
      /\ Live' = Live \cup {f} /\ f \notin Live
  BY <1>1, SpawnKeepsRing
<1>3. StateInv'
  BY <1>1 DEF StateInv, IInv, SchedulerTypeOK
<1>4. frames' \in [Fibers -> Seq(0..StackMax)]
  <2>1. <<0>> \in Seq(0..StackMax)
    BY StackMaxAssumption
  <2>2. QED
    BY <2>1 DEF SpawnFiber, IInv, TypeOK
<1>5. /\ capabilities' \in [Fibers -> SUBSET Capability]
      /\ CapInv'
  BY DefaultCapabilitiesAssumption DEF SpawnFiber, IInv, TypeOK, CapInv
<1>6. UNCHANGED <<currentFiber, scanVars>>
  BY <1>1 DEF SchedulerSpawn
<1>7. QED
  BY <1>1, <1>2, <1>3, <1>4, <1>5, <1>6

LEMMA HostKeepsIInv == ASSUME IInv, Host PROVE IInv'
<1> USE DEF IInv
<1>1. CASE CompileError \/ RunFunctionNoMemory \/ VmFree
  <2>1. /\ UNCHANGED schedVars
        /\ UNCHANGED <<fiber, budget, depth, frames, capabilities>>
        /\ effect' = "none" /\ pc = "idle"
        /\ pc' \in {"idle", "freeing"}
        /\ result' \in InterpretResult
        /\ pc' = "idle" => result' # "OK"
    BY <1>1 DEF CompileError, RunFunctionNoMemory, VmFree, InterpretResult,
                TypeOK
  <2>2. SchedulerTypeOK' /\ RingOK' /\ StateInv' /\ Live' = Live
    BY <2>1, SchedulerUntouched DEF TypeOK
  <2>3. TypeOK'
    BY <2>1, <2>2 DEF TypeOK, Pc
  <2>4. PcInv' /\ ScanInv'
    BY <2>1, <2>2 DEF PcInv, ScanInv, schedVars
  <2>5. CapInv' /\ OkMeansNoWork'
    BY <2>1 DEF CapInv, OkMeansNoWork
  <2>6. QED
    BY <2>2, <2>3, <2>4, <2>5
<1>2. CASE RunFunction
  <2>1. PICK f \in Fibers : /\ SpawnFiber(f, 0, DefaultCapabilities)
                            /\ depth' = [depth EXCEPT ![f] = 1]
    BY <1>2 DEF RunFunction
  <2>2. /\ SchedulerTypeOK' /\ RingOK' /\ StateInv' /\ CapInv'
        /\ Live' = Live \cup {f} /\ f \notin Live
        /\ UNCHANGED <<currentFiber, scanVars>>
        /\ state' = [state EXCEPT ![f] = "READY"]
        /\ frames' \in [Fibers -> Seq(0..StackMax)]
        /\ capabilities' \in [Fibers -> SUBSET Capability]
    BY <2>1, SpawnFiberKeeps, MaxArgsAssumption
  <2>3. /\ pc' = "pick" /\ result' = "NONE" /\ effect' = "none"
        /\ UNCHANGED <<fiber, budget>>
    BY <1>2 DEF RunFunction
  <2>4. depth' \in [Fibers -> 0..StackMax]
    BY <2>1, StackMaxAssumption DEF TypeOK
  <2>5. TypeOK'
    BY <2>2, <2>3, <2>4 DEF TypeOK, Pc, InterpretResult
  <2>6. PcInv'
    BY <2>2, <2>3 DEF PcInv, Runnable, TypeOK, SchedulerTypeOK
  <2>7. ScanInv' /\ OkMeansNoWork'
    BY <2>3 DEF ScanInv, OkMeansNoWork
  <2>8. QED
    BY <2>2, <2>5, <2>6, <2>7
<1>3. CASE VmInit
  <2>1. /\ pc = "freed" /\ pc' = "idle" /\ Live = {}
        /\ head' = NULL /\ currentFiber' = NULL /\ fiberCount' = 0
        /\ result' = "NONE"
        /\ UNCHANGED <<next, prev, scanStart, scanCurr, state, fiber, budget,
                       depth, frames, capabilities, effect>>
    BY <1>3 DEF VmInit, PcInv, scanVars
  <2>2. Live' = {}
    BY <2>1 DEF Live
  <2>3. RingOK'
    BY <2>1, <2>2, FS_EmptySet DEF RingOK
  <2>4. TypeOK'
    BY <2>1 DEF TypeOK, SchedulerTypeOK, Pc, InterpretResult
  <2>5. PcInv' /\ ScanInv' /\ StateInv' /\ CapInv'
    BY <2>1, <2>2 DEF PcInv, ScanInv, StateInv, CapInv
  <2>6. OkMeansNoWork'
    BY <2>1 DEF OkMeansNoWork
  <2>7. QED
    BY <2>3, <2>4, <2>5, <2>6
<1>4. QED
  BY <1>1, <1>2, <1>3 DEF Host

LEMMA LoopKeepsIInv == ASSUME IInv, Loop PROVE IInv'
<1> USE DEF IInv
<1>1. CASE NoWork
  <2>1. /\ UNCHANGED schedVars /\ UNCHANGED <<depth, frames, capabilities, effect>>
        /\ pc' = "idle" /\ fiber' = NULL /\ budget' = 0 /\ result' = "OK"
        /\ fiberCount = 0
    BY <1>1 DEF NoWork, Return
  <2>2. SchedulerTypeOK' /\ RingOK' /\ StateInv' /\ Live' = Live
    BY <2>1, SchedulerUntouched DEF TypeOK
  <2>3. Live = {}
    BY <2>1, LiveFinite, FS_EmptySet DEF RingOK, TypeOK
  <2>4. TypeOK'
    BY <2>1, <2>2, SliceBudgetAssumption DEF TypeOK, Pc, InterpretResult
  <2>5. PcInv' /\ ScanInv' /\ OkMeansNoWork'
    BY <2>1, <2>2, <2>3 DEF PcInv, ScanInv, OkMeansNoWork, schedVars
  <2>6. CapInv'
    BY <2>1 DEF CapInv
  <2>7. QED
    BY <2>2, <2>4, <2>5, <2>6
<1>2. CASE PickBegin
  <2>1. /\ head # NULL /\ pc = "pick" /\ pc' = "scan"
        /\ UNCHANGED <<ringVars, currentFiber, state>>
        /\ UNCHANGED <<fiber, budget, depth, frames, capabilities, effect, result>>
        /\ scanStart' = (IF currentFiber # NULL THEN next[currentFiber] ELSE head)
        /\ scanCurr' = scanStart'
    BY <1>2 DEF PickBegin, ScanBegin
  <2>2. Live' = Live
    BY <2>1 DEF Live
  <2>3. scanStart' \in Live
    BY <2>1 DEF RingOK, PcInv
  <2>4. scanStart' \in Fibers
    BY <2>3 DEF Live
  <2>5. TypeOK'
    BY <2>1, <2>4 DEF TypeOK, SchedulerTypeOK, ringVars, Pc
  <2>6. RingOK' /\ PcInv' /\ StateInv'
    BY <2>1, <2>2, RingUntouched DEF PcInv, StateInv
  <2>7. ScanInv'
    <3>1. {} \in SUBSET Live'
      OBVIOUS
    <3>2. QED
      BY <2>1, <2>2, <2>3, <3>1 DEF ScanInv
  <2>8. CapInv' /\ OkMeansNoWork'
    BY <2>1 DEF CapInv, OkMeansNoWork
  <2>9. QED
    BY <2>5, <2>6, <2>7, <2>8
<1>3. CASE PickSkip
  <2>1. /\ pc = "scan" /\ UNCHANGED vmVars
        /\ state[scanCurr] \notin Runnable /\ scanCurr' = next[scanCurr]
        /\ UNCHANGED <<ringVars, currentFiber, state, scanStart>>
    BY <1>3 DEF PickSkip, ScanAdvance
  <2>2. Live' = Live
    BY <2>1 DEF Live
  <2>3. PICK done \in SUBSET Live :
           /\ \A f \in done : /\ state[f] \notin Runnable
                              /\ next[f] \in done \cup {scanCurr}
           /\ scanStart \in done \cup {scanCurr}
    BY <2>1 DEF ScanInv
  <2>4. scanStart \in Live /\ scanCurr \in Live /\ scanCurr' \in Live
    BY <2>1 DEF ScanInv, RingOK
  <2>5. ScanInv'
    <3>1. done \cup {scanCurr} \in SUBSET Live'
      BY <2>2, <2>4
    <3>2. \A f \in done \cup {scanCurr} :
             /\ state'[f] \notin Runnable
             /\ next'[f] \in (done \cup {scanCurr}) \cup {scanCurr'}
      BY <2>1, <2>3 DEF ringVars
    <3>3. scanStart' \in (done \cup {scanCurr}) \cup {scanCurr'}
      BY <2>1, <2>3
    <3>4. QED
      BY <2>1, <2>2, <2>4, <3>1, <3>2, <3>3 DEF ScanInv
  <2>6. TypeOK'
    BY <2>1, <2>4 DEF TypeOK, SchedulerTypeOK, ringVars, vmVars, Live
  <2>7. RingOK' /\ PcInv' /\ StateInv'
    BY <2>1, <2>2, RingUntouched DEF PcInv, StateInv, vmVars
  <2>8. CapInv' /\ OkMeansNoWork'
    BY <2>1 DEF CapInv, OkMeansNoWork, vmVars
  <2>9. QED
    BY <2>5, <2>6, <2>7, <2>8
<1>4. CASE PickTake
  <2>1. /\ pc = "scan" /\ pc' = "slice" /\ fiber' = scanCurr
        /\ budget' = SliceBudget
        /\ UNCHANGED <<depth, frames, capabilities, effect, result>>
        /\ state[scanCurr] \in Runnable
        /\ state' = [state EXCEPT ![scanCurr] = "RUNNING"]
        /\ currentFiber' = scanCurr /\ scanStart' = NULL /\ scanCurr' = NULL
        /\ UNCHANGED ringVars
    BY <1>4 DEF PickTake, ScanTake
  <2>2. scanCurr \in Live /\ scanCurr \in Fibers /\ scanCurr # NULL
    BY <2>1, FibersAssumption DEF ScanInv, Live
  <2>3. Live' = Live
    BY <2>1, <2>2 DEF Live, TypeOK, SchedulerTypeOK
  <2>4. TypeOK'
    BY <2>1, <2>2, SliceBudgetAssumption
       DEF TypeOK, SchedulerTypeOK, ringVars, Pc, FiberState
  <2>5. RingOK' /\ PcInv' /\ StateInv'
    BY <2>1, <2>2, <2>3, RingUntouched
       DEF PcInv, StateInv, TypeOK, SchedulerTypeOK
  <2>6. ScanInv' /\ CapInv' /\ OkMeansNoWork'
    BY <2>1 DEF ScanInv, CapInv, OkMeansNoWork
  <2>7. QED
    BY <2>4, <2>5, <2>6
<1>5. CASE PickNone
  <2>1. /\ pc = "scan" /\ pc' = "idle" /\ fiber' = NULL /\ budget' = 0
        /\ result' = "OK"
        /\ UNCHANGED <<depth, frames, capabilities, effect>>
        /\ state[scanCurr] \notin Runnable /\ next[scanCurr] = scanStart
        /\ scanStart' = NULL /\ scanCurr' = NULL
        /\ UNCHANGED <<ringVars, currentFiber, state>>
    BY <1>5 DEF PickNone, ScanFail, Return
  <2>2. Live' = Live
    BY <2>1 DEF Live
  <2>3. \A f \in Live : state[f] \notin Runnable
    <3>1. PICK done \in SUBSET Live :
             /\ \A f \in done : /\ state[f] \notin Runnable
                                /\ next[f] \in done \cup {scanCurr}
             /\ scanStart \in done \cup {scanCurr}
      BY <2>1 DEF ScanInv
    <3> DEFINE passed == done \cup {scanCurr}
    <3>2. passed \in SUBSET Live /\ passed # {}
      BY <2>1 DEF ScanInv
    <3>3. \A f \in passed : next[f] \in passed
      BY <2>1, <3>1
    <3>4. passed = Live
      BY <3>2, <3>3 DEF RingOK
    <3>5. QED
      BY <2>1, <3>1, <3>4
  <2>4. \A f \in Live : state[f] = "ERROR"
    BY <2>3 DEF Live, Runnable, StateInv, TypeOK, SchedulerTypeOK, FiberState
  <2>5. TypeOK'
    BY <2>1, SliceBudgetAssumption
       DEF TypeOK, SchedulerTypeOK, ringVars, Pc, InterpretResult
  <2>6. RingOK' /\ StateInv'
    BY <2>1, <2>2, RingUntouched DEF StateInv
  <2>7. PcInv'
    BY <2>1, <2>2, <2>3 DEF PcInv
  <2>8. ScanInv' /\ CapInv' /\ OkMeansNoWork'
    BY <2>1, <2>2, <2>4 DEF ScanInv, CapInv, OkMeansNoWork
  <2>9. QED
    BY <2>5, <2>6, <2>7, <2>8
<1>6. CASE SliceEnd
  <2>1. /\ pc = "slice" /\ pc' = "pick" /\ fiber' = NULL /\ budget' = 0
        /\ UNCHANGED schedVars
        /\ UNCHANGED <<depth, frames, capabilities, effect, result>>
    BY <1>6 DEF SliceEnd
  <2>2. SchedulerTypeOK' /\ RingOK' /\ StateInv' /\ Live' = Live
    BY <2>1, SchedulerUntouched DEF TypeOK
  <2>3. TypeOK'
    BY <2>1, <2>2, SliceBudgetAssumption DEF TypeOK, Pc
  <2>4. PcInv' /\ ScanInv'
    BY <2>1, <2>2 DEF PcInv, ScanInv, schedVars
  <2>5. CapInv' /\ OkMeansNoWork'
    BY <2>1 DEF CapInv, OkMeansNoWork
  <2>6. QED
    BY <2>2, <2>3, <2>4, <2>5
<1>7. QED
  BY <1>1, <1>2, <1>3, <1>4, <1>5, <1>6 DEF Loop

\* What is left of a freed fiber.
LEMMA DropCurrentTyped ==
  ASSUME TypeOK, CapInv, DropCurrent
  PROVE  /\ depth' \in [Fibers -> 0..StackMax]
         /\ frames' \in [Fibers -> Seq(0..StackMax)]
         /\ capabilities' \in [Fibers -> SUBSET Capability]
         /\ CapInv'
<1>1. depth' \in [Fibers -> 0..StackMax]
  <2>1. 0 \in 0..StackMax
    BY StackMaxAssumption
  <2>2. depth' = [depth EXCEPT ![currentFiber] = 0]
    BY DEF DropCurrent
  <2>3. depth \in [Fibers -> 0..StackMax]
    BY DEF TypeOK
  <2>4. QED
    BY <2>1, <2>2, <2>3
<1>2. frames' \in [Fibers -> Seq(0..StackMax)]
  <2>1. <<>> \in Seq(0..StackMax)
    OBVIOUS
  <2>2. QED
    BY <2>1 DEF DropCurrent, TypeOK
<1>3. /\ capabilities' \in [Fibers -> SUBSET Capability]
      /\ CapInv'
  BY DEF DropCurrent, TypeOK, CapInv
<1>4. QED
  BY <1>1, <1>2, <1>3

LEMMA FreeKeepsIInv == ASSUME IInv, Free PROVE IInv'
<1> USE DEF IInv
<1>1. CASE VmFreeFiber
  <2>1. /\ pc = "freeing" /\ fiberCount > 0 /\ SchedulerFinishCurrent
        /\ UNCHANGED <<pc, fiber, budget, effect, result>>
    BY <1>1 DEF VmFreeFiber
  <2>2. currentFiber \in Live /\ currentFiber \in Fibers /\ currentFiber # NULL
    <3>1. Live # {}
      <4>1. Cardinality(Live) # 0
        BY <2>1 DEF RingOK
      <4>2. QED
        BY <4>1, FS_EmptySet
    <3>2. currentFiber # NULL /\ currentFiber \in Live
      BY <2>1, <3>1 DEF PcInv
    <3>3. QED
      BY <3>2 DEF Live
  <2>3. /\ SchedulerTypeOK' /\ RingOK' /\ Live' = Live \ {currentFiber}
        /\ currentFiber' \in Live' \cup {NULL}
        /\ Live' # {} => currentFiber' # NULL
        /\ state' = [state EXCEPT ![currentFiber] = "COMPLETED"]
    BY <2>1, <2>2, FinishKeepsScheduler DEF TypeOK
  <2>4. DropCurrent
    BY <1>1, <2>2 DEF VmFreeFiber
  <2>5. /\ depth' \in [Fibers -> 0..StackMax]
        /\ frames' \in [Fibers -> Seq(0..StackMax)]
        /\ capabilities' \in [Fibers -> SUBSET Capability]
        /\ CapInv'
    BY <2>4, DropCurrentTyped
  <2>6. TypeOK'
    BY <2>1, <2>3, <2>5 DEF TypeOK
  <2>7. PcInv' /\ ScanInv' /\ OkMeansNoWork'
    BY <2>1, <2>3 DEF PcInv, ScanInv, OkMeansNoWork
  <2>8. StateInv'
    BY <2>1, <2>2, <2>3
       DEF StateInv, TypeOK, SchedulerTypeOK
  <2>9. QED
    BY <2>3, <2>5, <2>6, <2>7, <2>8
<1>2. CASE VmFreeDone
  <2>1. /\ pc = "freeing" /\ pc' = "freed" /\ fiberCount = 0
        /\ UNCHANGED schedVars
        /\ UNCHANGED <<fiber, budget, depth, frames, capabilities, effect, result>>
    BY <1>2 DEF VmFreeDone
  <2>2. SchedulerTypeOK' /\ RingOK' /\ StateInv' /\ Live' = Live
    BY <2>1, SchedulerUntouched DEF TypeOK
  <2>3. Live = {}
    BY <2>1, LiveFinite, FS_EmptySet DEF RingOK, TypeOK
  <2>4. TypeOK'
    BY <2>1, <2>2 DEF TypeOK, Pc
  <2>5. PcInv' /\ ScanInv' /\ OkMeansNoWork'
    BY <2>1, <2>2, <2>3 DEF PcInv, ScanInv, OkMeansNoWork, schedVars
  <2>6. CapInv'
    BY <2>1 DEF CapInv
  <2>7. QED
    BY <2>2, <2>4, <2>5, <2>6
<1>3. QED
  BY <1>1, <1>2 DEF Free

\* The instructions that leave the ring alone: what is left to show for each
\* is the types of its own variables and the capabilities.
LEMMA QuietInstructionKeepsIInv ==
  ASSUME IInv, Executing, UNCHANGED <<ringVars, scanVars, currentFiber>>,
         \E st \in {"RUNNING", "YIELDED", "ERROR"} :
            state' = [state EXCEPT ![fiber] = st],
         depth' \in [Fibers -> 0..StackMax],
         frames' \in [Fibers -> Seq(0..StackMax)],
         capabilities' \in [Fibers -> SUBSET DefaultCapabilities],
         effect' \in DefaultCapabilities \cup {"none"}
  PROVE  IInv'
<1>1. /\ SchedulerTypeOK'
      /\ RingOK' /\ PcInv' /\ ScanInv' /\ StateInv' /\ OkMeansNoWork'
  BY InstructionKeepsScheduler
<1>2. TypeOK'
  BY <1>1, ExecutingTyped, DefaultCapabilitiesAssumption DEF TypeOK
<1>3. CapInv'
  BY DEF CapInv
<1>4. QED
  BY <1>1, <1>2, <1>3 DEF IInv

LEMMA CapabilitiesTyped ==
  ASSUME IInv
  PROVE  capabilities \in [Fibers -> SUBSET DefaultCapabilities]
BY DEF IInv, TypeOK, CapInv

\* The running fiber's state, when no instruction changes it.
LEMMA StateStays ==
  ASSUME IInv, Executing, UNCHANGED state
  PROVE  \E st \in {"RUNNING", "YIELDED", "ERROR"} :
            state' = [state EXCEPT ![fiber] = st]
BY RunningIsCurrent DEF Executing, IInv, TypeOK, SchedulerTypeOK

LEMMA SpawnKeepsIInv ==
  ASSUME IInv, NEW args \in 0..MaxArgs, Spawn(args)
  PROVE  IInv'
<1>1. PICK f \in Fibers :
         /\ SpawnFiber(f, args, capabilities[fiber])
         /\ depth' = [depth EXCEPT ![f] = 1 + args, ![fiber] = @ - args]
  BY DEF Spawn
<1>2. Executing /\ depth[fiber] > args /\ effect' = "none"
  BY DEF Spawn
<1>3. /\ fiber = currentFiber /\ fiber \in Live /\ fiber \in Fibers
      /\ state[fiber] = "RUNNING" /\ pc = "slice" /\ pc' = "slice"
      /\ fiber' = fiber /\ result' = result
  BY <1>2, RunningIsCurrent DEF Executing
<1>4. capabilities[fiber] \in SUBSET DefaultCapabilities
  BY <1>3, CapabilitiesTyped
<1>5. /\ SchedulerTypeOK' /\ RingOK' /\ StateInv' /\ CapInv'
      /\ Live' = Live \cup {f} /\ f \notin Live
      /\ UNCHANGED <<currentFiber, scanVars>>
      /\ state' = [state EXCEPT ![f] = "READY"]
      /\ frames' \in [Fibers -> Seq(0..StackMax)]
      /\ capabilities' \in [Fibers -> SUBSET Capability]
  BY <1>1, <1>4, SpawnFiberKeeps
<1>6. depth' \in [Fibers -> 0..StackMax]
  <2>1. 1 + args \in 0..StackMax
    BY MaxArgsAssumption, StackMaxAssumption
  <2>2. depth[fiber] \in 0..StackMax /\ depth[fiber] - args \in 0..StackMax
    BY <1>2, <1>3, MaxArgsAssumption, StackMaxAssumption DEF IInv, TypeOK
  <2>3. f # fiber
    BY <1>3, <1>5
  <2>4. QED
    BY <1>1, <2>1, <2>2, <2>3 DEF IInv, TypeOK
<1>7. TypeOK'
  BY <1>2, <1>5, <1>6, ExecutingTyped DEF TypeOK
<1>8. PcInv' /\ ScanInv' /\ OkMeansNoWork'
  BY <1>2, <1>3, <1>5, FibersAssumption
     DEF PcInv, ScanInv, OkMeansNoWork, Live, IInv, TypeOK,
         SchedulerTypeOK
<1>9. QED
  BY <1>5, <1>7, <1>8 DEF IInv

LEMMA FinishFiberKeepsIInv == ASSUME IInv, FinishFiber PROVE IInv'
<1>1. Executing /\ SchedulerFinishCurrent /\ DropCurrent /\ effect' = "none"
  BY DEF FinishFiber
<1>2. /\ fiber = currentFiber /\ fiber \in Live /\ fiber \in Fibers
      /\ pc = "slice" /\ pc' = "slice"
      /\ fiber' = fiber /\ result' = result
  BY <1>1, RunningIsCurrent DEF Executing
<1>3. /\ SchedulerTypeOK' /\ RingOK' /\ Live' = Live \ {fiber}
      /\ currentFiber' \in Live' \cup {NULL}
      /\ Live' # {} => currentFiber' # NULL
      /\ state' = [state EXCEPT ![fiber] = "COMPLETED"]
  BY <1>1, <1>2, FinishKeepsScheduler DEF IInv, TypeOK
<1>4. /\ depth' \in [Fibers -> 0..StackMax]
      /\ frames' \in [Fibers -> Seq(0..StackMax)]
      /\ capabilities' \in [Fibers -> SUBSET Capability]
      /\ CapInv'
  BY <1>1, DropCurrentTyped DEF IInv
<1>5. TypeOK'
  BY <1>1, <1>3, <1>4, ExecutingTyped DEF TypeOK
<1>6. state'[fiber] = "COMPLETED" /\ StateInv'
  BY <1>2, <1>3 DEF IInv, StateInv, TypeOK, SchedulerTypeOK
<1>7. PcInv' /\ ScanInv' /\ OkMeansNoWork'
  BY <1>1, <1>2, <1>3, <1>6
     DEF PcInv, ScanInv, OkMeansNoWork
<1>8. QED
  BY <1>3, <1>4, <1>5, <1>6, <1>7 DEF IInv

\* The two ways vm_run_function gives up on an instruction.
LEMMA GiveUpKeepsIInv ==
  ASSUME IInv, UnknownOpcode \/ \E pops \in {0, 2} : RuntimeError(pops)
  PROVE  IInv'
<1>1. /\ pc = "slice" /\ SliceGoesOn /\ Return("RUNTIME_ERROR")
      /\ effect' = "none"
      /\ UNCHANGED <<ringVars, scanVars, currentFiber, frames, capabilities>>
  BY DEF UnknownOpcode, RuntimeError, schedVars
<1>2. /\ fiber = currentFiber /\ fiber \in Live /\ fiber \in Fibers
      /\ state[fiber] = "RUNNING"
  BY <1>1, RunningIsCurrent
<1>3. /\ pc' = "idle" /\ fiber' = NULL /\ budget' = 0
      /\ result' = "RUNTIME_ERROR"
  BY <1>1 DEF Return
<1>4. PICK st \in {"RUNNING", "ERROR"} : state' = [state EXCEPT ![fiber] = st]
  <2>1. CASE UnknownOpcode
    BY <1>2, <2>1 DEF UnknownOpcode, schedVars, IInv, TypeOK, SchedulerTypeOK
  <2>2. CASE \E pops \in {0, 2} : RuntimeError(pops)
    BY <2>2 DEF RuntimeError
  <2>3. QED
    BY <2>1, <2>2
<1>5. Live' = Live /\ SchedulerTypeOK' /\ StateInv'
  BY <1>1, <1>2, <1>4
     DEF Live, IInv, TypeOK, SchedulerTypeOK, StateInv, FiberState, ringVars,
         scanVars
<1>6. RingOK'
  BY <1>1, <1>5, RingUntouched DEF IInv
<1>7. depth' \in [Fibers -> 0..StackMax]
  <2>1. CASE UnknownOpcode
    BY <2>1 DEF UnknownOpcode, IInv, TypeOK
  <2>2. ASSUME NEW pops \in {0, 2}, RuntimeError(pops)
        PROVE  depth' \in [Fibers -> 0..StackMax]
    <3>1. Apply(At(depth[fiber]), pops, 0) \in Stack
      BY <1>2, DepthTyped, StackTyped DEF IInv
    <3>2. Apply(At(depth[fiber]), pops, 0).depth \in 0..StackMax
      BY <3>1 DEF Stack
    <3>3. depth' = [depth EXCEPT ![fiber] = Apply(At(depth[fiber]), pops, 0).depth]
      BY <2>2 DEF RuntimeError
    <3>4. QED
      BY <3>2, <3>3 DEF IInv, TypeOK
  <2>3. QED
    BY <2>1, <2>2
<1>8. TypeOK'
  BY <1>1, <1>3, <1>5, <1>7, SliceBudgetAssumption
     DEF IInv, TypeOK, Pc, InterpretResult
<1>9. PcInv' /\ ScanInv' /\ OkMeansNoWork' /\ CapInv'
  BY <1>1, <1>2, <1>3, <1>5, FibersAssumption
     DEF IInv, PcInv, ScanInv, OkMeansNoWork, CapInv, Live
<1>10. QED
  BY <1>5, <1>6, <1>8, <1>9 DEF IInv

LEMMA InstructionKeepsIInv ==
  ASSUME IInv, SpawnInstruction \/ OtherInstruction
  PROVE  IInv'
<1> DEFINE here == At(depth[fiber])
<1>1. Executing => here \in Stack
  BY RunningIsCurrent, DepthTyped DEF Executing, IInv
<1>2. frames \in [Fibers -> Seq(0..StackMax)]
  BY DEF IInv, TypeOK
<1>3. ASSUME NEW e \in StackEffect, Operate(e[1], e[2]) PROVE IInv'
  <2>1. /\ Executing /\ SetStack(Apply(here, e[1], e[2])) /\ effect' = "none"
        /\ UNCHANGED <<ringVars, scanVars, currentFiber, frames, capabilities>>
    BY <1>3 DEF Operate
  <2>2. Apply(here, e[1], e[2]) \in Stack
    BY <1>1, <2>1, StackTyped DEF StackEffect
  <2>3. QED
    BY <1>2, <2>1, <2>2, SetStackTyped, CapabilitiesTyped,
       QuietInstructionKeepsIInv
<1>4. ASSUME NEW op \in OperationId, NEW args \in Nat,
             NEW pushes \in {0, 1}, InvokeHost(op, args, pushes)
      PROVE  IInv'
  <2> DEFINE rest == PopMany(here, args)
  <2>1. /\ Executing /\ SetStack(Apply(rest, 0, pushes))
        /\ effect' \in FfiInvoke(capabilities[fiber], op)
        /\ UNCHANGED <<ringVars, scanVars, currentFiber, frames, capabilities>>
    BY <1>4 DEF InvokeHost
  <2>2. Apply(rest, 0, pushes) \in Stack
    <3>1. rest \in Stack
      BY <1>1, <1>4, <2>1, StackTyped
    <3>2. QED
      BY <3>1, StackTyped
  <2>3. effect' \in DefaultCapabilities \cup {"none"}
    <3>1. capabilities[fiber] \subseteq DefaultCapabilities
      BY <2>1, RunningIsCurrent DEF Executing, IInv, CapInv
    <3>2. QED
      BY <2>1, <3>1 DEF FfiInvoke, CapHasPermission
  <2>4. QED
    BY <1>2, <2>1, <2>2, <2>3, SetStackTyped, CapabilitiesTyped,
       QuietInstructionKeepsIInv
<1>5. ASSUME NEW name \in RequestNames, CapRequest(name) PROVE IInv'
  <2> DEFINE asked == CapParseName(name)
  <2>1. /\ Executing /\ SetStack(FiberPush(here)) /\ effect' = "none"
        /\ capabilities' = IF CapHasPermission(DefaultCapabilities, asked)
                           THEN [capabilities EXCEPT ![fiber] = @ \cup asked]
                           ELSE capabilities
        /\ UNCHANGED <<ringVars, scanVars, currentFiber, frames>>
    BY <1>5 DEF CapRequest
  <2>2. FiberPush(here) \in Stack
    BY <1>1, <2>1, StackTyped
  <2>3. capabilities' \in [Fibers -> SUBSET DefaultCapabilities]
    <3>1. capabilities \in [Fibers -> SUBSET DefaultCapabilities]
      BY CapabilitiesTyped
    <3>2. fiber \in Fibers
      BY <2>1, RunningIsCurrent DEF Executing
    <3> HIDE DEF asked
    <3>3. CASE asked \subseteq DefaultCapabilities
      <4>1. capabilities[fiber] \cup asked \in SUBSET DefaultCapabilities
        BY <3>1, <3>2, <3>3
      <4>2. QED
        BY <2>1, <3>1, <3>3, <4>1 DEF CapHasPermission
    <3>4. CASE ~(asked \subseteq DefaultCapabilities)
      BY <2>1, <3>1, <3>4 DEF CapHasPermission
    <3>5. QED
      BY <3>3, <3>4
  <2>4. QED
    BY <1>2, <2>1, <2>2, <2>3, SetStackTyped, QuietInstructionKeepsIInv
<1>6. ASSUME NEW args \in 0..MaxArgs, Call(args) PROVE IInv'
  <2>1. /\ Executing /\ depth[fiber] > args /\ effect' = "none"
        /\ frames' = [frames EXCEPT ![fiber] =
                         Append(@, depth[fiber] - args - 1)]
        /\ UNCHANGED <<ringVars, scanVars, currentFiber, state, depth,
                       capabilities>>
    BY <1>6 DEF Call, schedVars
  <2>2. fiber \in Fibers /\ depth \in [Fibers -> 0..StackMax]
    BY <2>1, RunningIsCurrent DEF Executing, IInv, TypeOK
  <2>3. depth[fiber] - args - 1 \in 0..StackMax
    BY <2>1, <2>2, MaxArgsAssumption, StackMaxAssumption
  <2>4. Append(frames[fiber], depth[fiber] - args - 1) \in Seq(0..StackMax)
    BY <1>2, <2>2, <2>3
  <2>5. frames' \in [Fibers -> Seq(0..StackMax)]
    BY <1>2, <2>1, <2>4
  <2>6. QED
    BY <2>1, <2>2, <2>5, StateStays, CapabilitiesTyped,
       QuietInstructionKeepsIInv
<1>7. ASSUME NEW args \in 0..MaxArgs, SpawnNoMemory(args) PROVE IInv'
  <2>1. /\ Executing /\ depth[fiber] > args /\ effect' = "none"
        /\ depth' = [depth EXCEPT ![fiber] = @ - args]
        /\ UNCHANGED <<ringVars, scanVars, currentFiber, state, frames,
                       capabilities>>
    BY <1>7 DEF SpawnNoMemory, schedVars
  <2>2. fiber \in Fibers /\ depth \in [Fibers -> 0..StackMax]
    BY <2>1, RunningIsCurrent DEF Executing, IInv, TypeOK
  <2>3. depth[fiber] - args \in 0..StackMax
    BY <2>1, <2>2, MaxArgsAssumption, StackMaxAssumption
  <2>4. depth' \in [Fibers -> 0..StackMax]
    BY <2>1, <2>2, <2>3
  <2>5. QED
    BY <1>2, <2>1, <2>4, StateStays, CapabilitiesTyped,
       QuietInstructionKeepsIInv
<1>8. CASE ReturnToCaller
  <2> DEFINE base == frames[fiber][Len(frames[fiber])]
             popped == FiberPop(here)
             callee == [popped EXCEPT !.depth = base]
  <2>1. /\ Executing /\ SetStack(FiberPush(callee)) /\ effect' = "none"
        /\ Len(frames[fiber]) > 1
        /\ frames' = [frames EXCEPT ![fiber] = SubSeq(@, 1, Len(@) - 1)]
        /\ UNCHANGED <<ringVars, scanVars, currentFiber, capabilities>>
    BY <1>8 DEF ReturnToCaller
  <2>2. fiber \in Fibers /\ frames[fiber] \in Seq(0..StackMax)
    BY <1>2, <2>1, RunningIsCurrent DEF Executing
  <2>3. base \in 0..StackMax
    <3>1. Len(frames[fiber]) \in 1..Len(frames[fiber])
      BY <2>1, <2>2, LenProperties
    <3>2. QED
      BY <2>2, <3>1, ElementOfSeq
  <2>4. callee \in Stack
    <3>1. popped \in Stack
      BY <1>1, <2>1, StackTyped
    <3> HIDE DEF popped, base
    <3>2. QED
      BY <2>3, <3>1 DEF Stack
  <2>5. FiberPush(callee) \in Stack
    BY <2>4, StackTyped
  <2>6. SubSeq(frames[fiber], 1, Len(frames[fiber]) - 1) \in Seq(0..StackMax)
    <3>1. Len(frames[fiber]) - 1 \in Int
      BY <2>2, LenProperties
    <3>2. \A i \in 1..(Len(frames[fiber]) - 1) : i \in 1..Len(frames[fiber])
      BY <2>2, LenProperties
    <3>3. \A i \in 1..(Len(frames[fiber]) - 1) : frames[fiber][i] \in 0..StackMax
      BY <2>2, <3>2, ElementOfSeq
    <3>4. QED
      BY <3>1, <3>3, SubSeqProperties
  <2>7. frames' \in [Fibers -> Seq(0..StackMax)]
    BY <1>2, <2>1, <2>6
  <2> HIDE DEF callee
  <2>8. QED
    BY <2>1, <2>5, <2>7, SetStackTyped, CapabilitiesTyped,
       QuietInstructionKeepsIInv
<1>9. CASE ReturnFromFiber \/ Halt
  BY <1>9, FinishFiberKeepsIInv DEF ReturnFromFiber, Halt
<1>10. CASE Yield
  <2>1. /\ Executing /\ SchedulerYield /\ effect' = "none"
        /\ UNCHANGED <<depth, frames, capabilities>>
    BY <1>10 DEF Yield
  <2>2. fiber = currentFiber /\ fiber # NULL
    BY <2>1, RunningIsCurrent, FibersAssumption DEF Executing
  <2>3. /\ state' = [state EXCEPT ![fiber] = "YIELDED"]
        /\ UNCHANGED <<ringVars, scanVars, currentFiber>>
    BY <2>1, <2>2 DEF SchedulerYield
  <2>4. depth' \in [Fibers -> 0..StackMax]
    BY <2>1 DEF IInv, TypeOK
  <2>5. QED
    BY <1>2, <2>1, <2>3, <2>4, CapabilitiesTyped, QuietInstructionKeepsIInv
<1>11. CASE UnknownOpcode \/ \E pops \in {0, 2} : RuntimeError(pops)
  BY <1>11, GiveUpKeepsIInv
<1>12. CASE SpawnInstruction
  BY <1>12, SpawnKeepsIInv DEF SpawnInstruction
<1>13. QED
  <2>1. "print" \in OperationId /\ 0..PrintMax \subseteq Nat /\ 0..InvokeMax \subseteq Nat
    BY ArgumentsAssumption DEF OperationId, FfiOperation
  <2>2. QED
    BY <1>3, <1>4, <1>5, <1>6, <1>7, <1>8, <1>9, <1>10, <1>11, <1>12, <2>1
       DEF OtherInstruction

LEMMA StutterKeepsIInv == ASSUME IInv, UNCHANGED vars PROVE IInv'
<1>1. UNCHANGED schedVars /\ UNCHANGED vmVars
  BY DEF vars
<1>2. SchedulerTypeOK' /\ RingOK' /\ StateInv' /\ Live' = Live
  BY <1>1, SchedulerUntouched DEF IInv, TypeOK
<1>3. TypeOK'
  BY <1>1, <1>2 DEF IInv, TypeOK, vmVars
<1>4. PcInv' /\ ScanInv' /\ CapInv' /\ OkMeansNoWork'
  BY <1>1, <1>2
     DEF IInv, PcInv, ScanInv, CapInv, OkMeansNoWork,
         schedVars, ringVars, scanVars, vmVars
<1>5. QED
  BY <1>2, <1>3, <1>4 DEF IInv

-----------------------------------------------------------------------------
(* The theorems. *)

THEOREM Invariance == Spec => []IInv
<1>1. Init => IInv
  BY InitIInv
<1>2. IInv /\ [Next]_vars => IInv'
  BY HostKeepsIInv, LoopKeepsIInv, InstructionKeepsIInv, FreeKeepsIInv,
     StutterKeepsIInv DEF Next
<1>3. QED
  BY <1>1, <1>2, PTL DEF Spec

\* Every variable of the VM keeps its type: no stack depth, frame base or
\* budget leaves its range, whatever programs do.
THEOREM TypeCorrect == Spec => []TypeOK
<1>1. IInv => TypeOK
  BY DEF IInv
<1>2. QED
  BY <1>1, Invariance, PTL

\* scheduler.c keeps its ring one circle of exactly the live fibers.
THEOREM RingCorrect == Spec => []RingOK
<1>1. IInv => RingOK
  BY DEF IInv
<1>2. QED
  BY <1>1, Invariance, PTL

\* current_fiber is the running fiber, never a freed one, and never NULL
\* when vm_free needs it.
THEOREM CurrentCorrect == Spec => []CurrentOK
<1>1. IInv => CurrentOK
  BY DEF IInv, PcInv, CurrentOK
<1>2. QED
  BY <1>1, Invariance, PTL

\* When vm_run_function returns INTERPRET_OK no fiber that could run is left.
THEOREM OkCorrect == Spec => []OkMeansNoWork
<1>1. IInv => OkMeansNoWork
  BY DEF IInv
<1>2. QED
  BY <1>1, Invariance, PTL

\* What one instruction does to the host its own fiber may do.
LEMMA StepIsAllowed ==
  ASSUME IInv, Next, pc = "slice", pc' = "slice", effect' # "none"
  PROVE  effect' \in capabilities[fiber] \cap DefaultCapabilities
<1>1. ~Host /\ ~Free
  BY DEF Host, CompileError, RunFunction, RunFunctionNoMemory, VmFree, VmInit,
         Free, VmFreeFiber, VmFreeDone
<1>2. ~Loop
  BY DEF Loop, NoWork, PickBegin, PickSkip, PickTake, PickNone, SliceEnd
<1>3. ~SpawnInstruction
  BY DEF SpawnInstruction, Spawn
<1>4. PICK op, args, pushes : InvokeHost(op, args, pushes)
  <2>1. OtherInstruction
    BY <1>1, <1>2, <1>3 DEF Next
  <2>2. ~ReturnToCaller /\ ~ReturnFromFiber /\ ~Halt /\ ~Yield /\ ~UnknownOpcode
    BY DEF ReturnToCaller, ReturnFromFiber, Halt, FinishFiber, Yield, UnknownOpcode
  <2>3. /\ \A pops, pushes : ~Operate(pops, pushes)
        /\ \A name : ~CapRequest(name)
        /\ \A args : ~Call(args) /\ ~SpawnNoMemory(args)
        /\ \A pops : ~RuntimeError(pops)
    BY DEF Operate, CapRequest, Call, SpawnNoMemory, RuntimeError
  <2>4. QED
    BY <2>1, <2>2, <2>3 DEF OtherInstruction
<1>5. effect' \in FfiInvoke(capabilities[fiber], op)
  BY <1>4 DEF InvokeHost
<1>6. effect' \in capabilities[fiber]
  BY <1>5 DEF FfiInvoke, CapHasPermission
<1>7. capabilities[fiber] \subseteq DefaultCapabilities
  BY <1>4, RunningIsCurrent DEF InvokeHost, Executing, IInv, CapInv
<1>8. QED
  BY <1>6, <1>7

\* An instruction reaches the host only with a capability that the fiber
\* executing it holds and that vm_init was given.
THEOREM ConfinementCorrect == Spec => EffectAllowed
<1> DEFINE Allowed == pc = "slice" /\ pc' = "slice" /\ effect' # "none"
                      => effect' \in capabilities[fiber] \cap DefaultCapabilities
<1>1. IInv /\ [Next]_vars => [Allowed]_vars
  BY StepIsAllowed
<1>2. QED
  BY <1>1, Invariance, PTL DEF Spec, EffectAllowed

\* One step never takes a fiber out of ERROR but to free it.
LEMMA StepKeepsError ==
  ASSUME IInv, Next, NEW f \in Fibers, state[f] = "ERROR"
  PROVE  state'[f] \in {"ERROR", "COMPLETED"}
<1> DEFINE Kept == state'[f] \in {"ERROR", "COMPLETED"}
<1>1. state \in [Fibers -> FiberState] /\ (UNCHANGED state => Kept)
  BY DEF IInv, TypeOK, SchedulerTypeOK
<1>2. Executing => fiber # f /\ fiber = currentFiber /\ fiber \in Fibers
                   /\ fiber \in Live
  BY RunningIsCurrent DEF Executing
<1>3. ASSUME NEW s, Executing, SetStack(s) PROVE Kept
  BY <1>1, <1>2, <1>3 DEF SetStack
<1>4. ASSUME NEW g \in Fibers, NEW args, NEW caps, SpawnFiber(g, args, caps)
      PROVE  Kept
  BY <1>1, <1>4 DEF SpawnFiber, SchedulerSpawn, Live
<1>5. ASSUME SchedulerFinishCurrent, currentFiber \in Live PROVE Kept
  <2>1. state' = [state EXCEPT ![currentFiber] = "COMPLETED"]
    BY <1>5, FinishKeepsScheduler DEF IInv, TypeOK
  <2>2. QED
    BY <1>1, <2>1
<1>6. CASE Host
  BY <1>1, <1>4, <1>6
     DEF Host, CompileError, RunFunction, RunFunctionNoMemory, VmFree, VmInit,
         schedVars
<1>7. CASE Loop
  <2>1. CASE PickTake
    BY <1>1, <2>1 DEF PickTake, ScanTake, Runnable
  <2>2. CASE NoWork \/ PickBegin \/ PickSkip \/ PickNone \/ SliceEnd
    BY <1>1, <2>2 DEF NoWork, PickBegin, PickSkip, PickNone, SliceEnd,
                      ScanBegin, ScanAdvance, ScanFail, schedVars
  <2>3. QED
    BY <1>7, <2>1, <2>2 DEF Loop
<1>8. CASE SpawnInstruction
  BY <1>4, <1>8 DEF SpawnInstruction, Spawn
<1>9. CASE OtherInstruction
  <2>1. ASSUME NEW e \in StackEffect, Operate(e[1], e[2]) PROVE Kept
    BY <1>3, <2>1 DEF Operate
  <2>2. ASSUME NEW op, NEW args, NEW pushes, InvokeHost(op, args, pushes)
        PROVE  Kept
    BY <1>3, <2>2 DEF InvokeHost
  <2>3. ASSUME NEW name, CapRequest(name) PROVE Kept
    BY <1>3, <2>3 DEF CapRequest
  <2>4. ASSUME NEW args, Call(args) \/ SpawnNoMemory(args) PROVE Kept
    BY <1>1, <2>4 DEF Call, SpawnNoMemory, schedVars
  <2>5. CASE ReturnToCaller
    BY <1>3, <2>5 DEF ReturnToCaller
  <2>6. CASE ReturnFromFiber \/ Halt
    BY <1>2, <1>5, <2>6 DEF ReturnFromFiber, Halt, FinishFiber
  <2>7. CASE Yield
    BY <1>1, <1>2, <2>7 DEF Yield, SchedulerYield
  <2>8. ASSUME NEW pops, RuntimeError(pops) PROVE Kept
    BY <1>1, <2>8 DEF RuntimeError
  <2>9. CASE UnknownOpcode
    BY <1>1, <2>9 DEF UnknownOpcode, schedVars
  <2>10. QED
    BY <1>9, <2>1, <2>2, <2>3, <2>4, <2>5, <2>6, <2>7, <2>8, <2>9
       DEF OtherInstruction
<1>10. CASE Free
  <2>1. CASE VmFreeFiber
    <3>1. SchedulerFinishCurrent
      BY <2>1 DEF VmFreeFiber
    <3>2. CASE currentFiber = NULL
      BY <1>1, <3>1, <3>2
         DEF SchedulerFinishCurrent, FinishNothing, FinishOnly,
             FinishOneOfMany, schedVars
    <3>3. CASE currentFiber # NULL
      BY <1>5, <3>1, <3>3 DEF IInv, PcInv
    <3>4. QED
      BY <3>2, <3>3
  <2>2. CASE VmFreeDone
    BY <1>1, <2>2 DEF VmFreeDone, schedVars
  <2>3. QED
    BY <1>10, <2>1, <2>2 DEF Free
<1>11. QED
  BY <1>6, <1>7, <1>8, <1>9, <1>10 DEF Next

\* A fiber that died of an error is never scheduled again.
THEOREM ErrorFinal == Spec => ErrorIsFinal
<1> DEFINE Final == \A f \in Fibers :
                state[f] = "ERROR" => state'[f] \in {"ERROR", "COMPLETED"}
<1>1. IInv /\ [Next]_vars => [Final]_vars
  BY StepKeepsError
<1>2. QED
  BY <1>1, Invariance, PTL DEF Spec, ErrorIsFinal
=============================================================================
