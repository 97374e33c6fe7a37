-------------------------- MODULE FiberTurnsProofs --------------------------
(***************************************************************************)
(* The scheduler gives its turns in order, for any number of fibers and of *)
(* spawns.                                                                 *)
(***************************************************************************)
EXTENDS FiberTurns, FiberVMProofs

-----------------------------------------------------------------------------
(* The inductive invariant. *)

\* A fiber that could run and has no slice.
Waiting(f) == state[f] \in Runnable /\ fiber # f

\* The stretch of the ring behind f, up to and with current_fiber: nothing
\* at all when f is the current fiber.
Stretch(f, A) ==
    /\ f \notin A /\ currentFiber \in A \cup {f}
    /\ \A g \in A : /\ next[g] \in A <=> g # currentFiber
                    /\ prev[g] \in A \cup {f}

\* The fibers dispatched while f waits lie on the stretch behind it, which a
\* scan does not enter before it comes to f.
TurnOf(f) ==
    \E A \in SUBSET Live :
        /\ Stretch(f, A)
        /\ passed[f] \subseteq A
        /\ pc = "scan" => scanCurr \notin A

TurnInv ==
    /\ passed \in [Fibers -> SUBSET Fibers]
    /\ pc # "slice" => fiber = NULL
    /\ \A f \in Fibers : IF Waiting(f) /\ currentFiber # NULL THEN TurnOf(f)
                         ELSE passed[f] = {}

HInv == IInv /\ TurnInv

-----------------------------------------------------------------------------
(* Stretches of a circle. *)

\* The part of RingOK that is about the links.
Circle(ring, succ, pred) ==
    /\ \A g \in ring : /\ succ[g] \in ring /\ pred[succ[g]] = g
                       /\ pred[g] \in ring /\ succ[pred[g]] = g
    /\ \A part \in SUBSET ring :
          (part # {} /\ \A g \in part : succ[g] \in part) => part = ring

\* Nothing but the whole circle is closed under its links backwards, either.
LEMMA ClosedBackwards ==
  ASSUME NEW ring, NEW succ, NEW pred, Circle(ring, succ, pred),
         NEW part \in SUBSET ring, part # {},
         \A g \in part : pred[g] \in part
  PROVE  part = ring
<1>1. \A g \in ring \ part : succ[g] \in ring \ part
  BY DEF Circle
<1>2. ring \ part # {} => ring \ part = ring
  BY <1>1 DEF Circle
<1>3. QED
  BY <1>2

\* From behind any member of a circle a stretch leads to any other: the least
\* set that holds the one behind f and all that follow, but for those
\* behind c.
LEMMA StretchExists ==
  ASSUME NEW ring, NEW succ, NEW pred, Circle(ring, succ, pred),
         NEW f \in ring, NEW c \in ring
  PROVE  \E A \in SUBSET ring :
            /\ f \notin A /\ c \in A \cup {f}
            /\ \A g \in A : /\ succ[g] \in A <=> g # c
                            /\ pred[g] \in A \cup {f}
            /\ c # f => succ[f] \in A
<1>1. CASE c = f
  <2> {} \in SUBSET ring
    OBVIOUS
  <2> WITNESS {} \in SUBSET ring
  <2> QED
    BY <1>1
<1>2. CASE c # f
  <2> DEFINE Leads(S) == succ[f] \in S /\ \A g \in S \ {c} : succ[g] \in S
             A == {x \in ring : \A S \in SUBSET ring : Leads(S) => x \in S}
  <2>1. \A g \in ring : /\ succ[g] \in ring /\ pred[succ[g]] = g
                        /\ pred[g] \in ring /\ succ[pred[g]] = g
    BY DEF Circle
  <2>2. A \in SUBSET ring /\ Leads(A)
    BY <2>1
  <2>3. \A S \in SUBSET ring : Leads(S) => A \subseteq S
    OBVIOUS
  <2> HIDE DEF A
  <2>4. ASSUME NEW x \in A, x # succ[f] PROVE pred[x] \in A \ {c}
    <3> SUFFICES ASSUME pred[x] \notin A \ {c} PROVE FALSE
      OBVIOUS
    <3>1. Leads(A \ {x})
      BY <2>1, <2>2, <2>4
    <3>2. A \subseteq A \ {x}
      BY <2>2, <2>3, <3>1
    <3>3. QED
      BY <2>4, <3>2
  <2>5. succ[c] \notin A
    BY <1>2, <2>1, <2>4
  <2>6. f \notin A
    <3> SUFFICES ASSUME f \in A PROVE FALSE
      OBVIOUS
    <3>1. \A g \in ring \ A : succ[g] \in ring \ A
      <4> SUFFICES ASSUME NEW g \in ring \ A, succ[g] \in A PROVE FALSE
        BY <2>1
      <4>1. succ[g] # succ[f]
        BY <2>1
      <4>2. QED
        BY <2>1, <2>4, <4>1
    <3>2. ring \ A # {} /\ ring \ A # ring
      BY <2>1, <2>2, <2>5
    <3>3. QED
      BY <3>1, <3>2 DEF Circle
  <2>7. c \in A
    <3> SUFFICES ASSUME c \notin A PROVE FALSE
      OBVIOUS
    <3>1. A # {} /\ \A g \in A : succ[g] \in A
      BY <2>2
    <3>2. A = ring
      BY <2>2, <3>1 DEF Circle
    <3>3. QED
      BY <3>2
  <2>8. \A g \in A : /\ succ[g] \in A <=> g # c
                     /\ pred[g] \in A \cup {f}
    BY <2>1, <2>2, <2>4, <2>5
  <2>9. QED
    BY <2>2, <2>6, <2>7, <2>8
<1>3. QED
  BY <1>1, <1>2

LEMMA RingIsCircle == RingOK => Circle(Live, next, prev)
BY DEF RingOK, Circle

\* Nothing is behind the current fiber.
LEMMA NothingBehindCurrent ==
  ASSUME RingOK, NEW A \in SUBSET Live, currentFiber \in Live,
         Stretch(currentFiber, A)
  PROVE  A = {}
<1>1. \A g \in A : next[g] \in A
  BY DEF Stretch
<1>2. A # {} => A = Live
  BY <1>1 DEF RingOK
<1>3. QED
  BY <1>2 DEF Stretch

-----------------------------------------------------------------------------
(* The steps. *)

\* What a step that dispatches no fiber records.
LEMMA RecordedQuietly ==
  ASSUME TurnInv, Record, ~Dispatched, NEW f \in Fibers
  PROVE  /\ passed' \in [Fibers -> SUBSET Fibers]
         /\ Waiting(f)' => passed'[f] = passed[f] \ {g \in Fibers : state'[g] = "COMPLETED"}
         /\ ~Waiting(f)' => passed'[f] = {}
BY DEF TurnInv, Record, Waiting

LEMMA RunnableIsLive ==
  ASSUME NEW f \in Fibers
  PROVE  /\ state[f] \in Runnable => f \in Live
         /\ state'[f] \in Runnable => f \in Live'
BY DEF Runnable, Live

\* A step that leaves the ring alone and changes the state of no fiber but
\* the current one.
LEMMA QuietKeepsTurns ==
  ASSUME HInv, Record, ~Dispatched, UNCHANGED <<next, prev, currentFiber>>,
         pc' # "scan", Live' = Live,
         fiber' \in {fiber, NULL}, pc' # "slice" => fiber' = NULL,
         fiber \in {NULL, currentFiber} \/ fiber \notin Live,
         \A f \in Fibers \ {currentFiber} : state'[f] = state[f]
  PROVE  TurnInv'
<1>1. passed' \in [Fibers -> SUBSET Fibers]
  BY DEF HInv, TurnInv, Record
<1>2. ASSUME NEW f \in Fibers
      PROVE  IF Waiting(f)' /\ currentFiber' # NULL THEN TurnOf(f)'
             ELSE passed'[f] = {}
  <2>1. CASE ~Waiting(f)'
    BY <2>1, RecordedQuietly DEF HInv
  <2>2. CASE Waiting(f)' /\ currentFiber = NULL
    <3>1. passed[f] = {}
      BY <2>2 DEF HInv, TurnInv
    <3>2. QED
      BY <2>2, <3>1, RecordedQuietly DEF HInv
  <2>3. CASE Waiting(f)' /\ currentFiber # NULL
    <3>1. passed'[f] \subseteq passed[f]
      BY <2>3, RecordedQuietly DEF HInv
    <3>2. f \in Live /\ currentFiber \in Live
      BY <2>3, RunnableIsLive DEF Waiting, HInv, IInv, PcInv
    <3>3. CASE f = currentFiber
      <4>1. passed[f] = {}
        <5>1. CASE Waiting(f)
          <6>1. PICK A \in SUBSET Live : Stretch(f, A) /\ passed[f] \subseteq A
            BY <2>3, <5>1 DEF HInv, TurnInv, TurnOf
          <6>2. QED
            BY <3>2, <3>3, <6>1, NothingBehindCurrent DEF HInv, IInv
        <5>2. CASE ~Waiting(f)
          BY <5>2 DEF HInv, TurnInv
        <5>3. QED
          BY <5>1, <5>2
      <4>2. Stretch(f, {})'
        BY <3>3 DEF Stretch
      <4>3. QED
        BY <2>3, <3>1, <4>1, <4>2 DEF TurnOf
    <3>4. CASE f # currentFiber
      <4>1. state'[f] = state[f] /\ fiber # f
        BY <3>2, <3>4, FibersAssumption
      <4>2. Waiting(f)
        BY <2>3, <4>1 DEF Waiting
      <4>3. PICK A \in SUBSET Live : Stretch(f, A) /\ passed[f] \subseteq A
        BY <2>3, <4>2 DEF HInv, TurnInv, TurnOf
      <4>4. Stretch(f, A)'
        BY <4>3 DEF Stretch
      <4>5. QED
        BY <2>3, <3>1, <4>3, <4>4 DEF TurnOf
    <3>5. QED
      BY <3>3, <3>4
  <2>4. QED
    BY <2>1, <2>2, <2>3
<1>3. QED
  BY <1>1, <1>2 DEF TurnInv

\* scheduler_spawn.  The new fiber is the last whose turn comes; it lies on
\* the stretch behind another one if the ring's end does.
LEMMA SpawnKeepsTurns ==
  ASSUME HInv, Record, ~Dispatched,
         NEW new \in Fibers, NEW args \in 0..MaxArgs, NEW caps \in SUBSET DefaultCapabilities,
         SpawnFiber(new, args, caps),
         pc' # "scan", fiber' = fiber, pc' # "slice" => fiber' = NULL,
         fiber \in Live \cup {NULL}
  PROVE  TurnInv'
<1>1. passed' \in [Fibers -> SUBSET Fibers]
  BY DEF HInv, TurnInv, Record
<1>2. /\ RingOK' /\ Live' = Live \cup {new} /\ new \notin Live
      /\ currentFiber' = currentFiber
      /\ state' = [state EXCEPT ![new] = "READY"]
      /\ SchedulerTypeOK /\ Live \subseteq Fibers
  BY SpawnFiberKeeps DEF HInv, IInv, TypeOK, Live
<1>3. currentFiber # NULL => currentFiber \in Live
  BY DEF HInv, IInv, PcInv
<1>4. ASSUME NEW f \in Fibers
      PROVE  IF Waiting(f)' /\ currentFiber' # NULL THEN TurnOf(f)'
             ELSE passed'[f] = {}
  <2>1. CASE ~Waiting(f)'
    BY <2>1, RecordedQuietly DEF HInv
  <2>2. CASE f = new
    <3>1. passed[f] = {}
      BY <1>2, <2>2, RunnableIsLive DEF HInv, TurnInv, Waiting
    <3>2. passed'[f] = {}
      BY <2>1, <3>1, RecordedQuietly DEF HInv
    <3>3. CASE currentFiber # NULL
      <4>1. Circle(Live', next', prev')
        BY <1>2 DEF RingOK, Circle
      <4>2. PICK A \in SUBSET Live' :
                /\ f \notin A /\ currentFiber' \in A \cup {f}
                /\ \A g \in A : /\ next'[g] \in A <=> g # currentFiber'
                                /\ prev'[g] \in A \cup {f}
        <5>1. f \in Live' /\ currentFiber' \in Live'
          BY <1>2, <1>3, <2>2, <3>3
        <5>2. QED
          BY <4>1, <5>1, StretchExists
      <4>3. Stretch(f, A)'
        BY <4>2 DEF Stretch
      <4>4. TurnOf(f)'
        BY <3>2, <4>3 DEF TurnOf
      <4>5. QED
        BY <3>2, <4>4
    <3>4. QED
      BY <1>2, <3>2, <3>3
  <2>3. CASE Waiting(f)' /\ f # new
    <3>1. Waiting(f)
      BY <1>2, <2>3 DEF Waiting, SchedulerTypeOK
    <3>2. passed'[f] \subseteq passed[f]
      BY <2>3, RecordedQuietly DEF HInv
    <3>3. CASE currentFiber = NULL
      BY <1>2, <3>2, <3>3 DEF HInv, TurnInv
    <3>4. CASE currentFiber # NULL
      <4>1. PICK A \in SUBSET Live : Stretch(f, A) /\ passed[f] \subseteq A
        BY <3>1, <3>4 DEF HInv, TurnInv, TurnOf
      <4> DEFINE tail == prev[head]
      <4>2. /\ head \in Live /\ tail \in Live /\ next[tail] = head
            /\ \A g \in Live : next[g] \in Live /\ prev[next[g]] = g
        BY <1>3, <3>4 DEF HInv, IInv, RingOK
      <4>3. /\ next' = [next EXCEPT ![tail] = new, ![new] = head]
            /\ prev' = [prev EXCEPT ![new] = tail, ![head] = new]
        BY <1>2, <4>2, FibersAssumption DEF SpawnFiber, SchedulerSpawn, LinkFirst, LinkAtTail
      <4>4. /\ next'[new] = head /\ next'[tail] = new
            /\ \A g \in Live : g # tail => next'[g] = next[g]
        BY <1>2, <4>2, <4>3 DEF SchedulerTypeOK
      <4>5. /\ prev'[new] = tail /\ prev'[head] = new
            /\ \A g \in Live : g # head => prev'[g] = prev[g]
        BY <1>2, <4>2, <4>3 DEF SchedulerTypeOK
      <4> HIDE DEF tail
      <4>6. CASE tail \in A \cup {f} /\ head \in A
        <5>1. Stretch(f, A \cup {new})'
          BY <1>2, <1>3, <2>3, <3>4, <4>1, <4>2, <4>4, <4>5, <4>6 DEF Stretch
        <5>2. A \cup {new} \in SUBSET Live' /\ passed'[f] \subseteq A \cup {new}
          BY <1>2, <3>2, <4>1
        <5>3. TurnOf(f)'
          BY <5>1, <5>2 DEF TurnOf
        <5>4. QED
          BY <1>2, <2>3, <3>4, <5>3
      <4>7. CASE ~(tail \in A \cup {f} /\ head \in A)
        <5>1. head \notin A
          BY <4>1, <4>2, <4>7 DEF Stretch, tail
        <5>2. Stretch(f, A)'
          BY <1>2, <4>1, <4>2, <4>4, <4>5, <5>1 DEF Stretch
        <5>3. TurnOf(f)'
          BY <1>2, <3>2, <4>1, <5>2 DEF TurnOf
        <5>4. QED
          BY <1>2, <2>3, <3>4, <5>3
      <4>8. QED
        BY <4>6, <4>7
    <3>5. QED
      BY <3>3, <3>4
  <2>4. QED
    BY <2>1, <2>2, <2>3
<1>5. pc' # "slice" => fiber' = NULL
  OBVIOUS
<1>6. QED
  BY <1>1, <1>4, <1>5 DEF TurnInv

\* scheduler_finish_current: the stretches lose their last fiber, and the one
\* before it becomes their end.
LEMMA FinishKeepsTurns ==
  ASSUME HInv, Record, ~Dispatched,
         currentFiber \in Live, SchedulerFinishCurrent,
         pc' # "scan", fiber' = fiber, pc' # "slice" => fiber' = NULL
  PROVE  TurnInv'
<1> DEFINE c == currentFiber
<1>1. passed' \in [Fibers -> SUBSET Fibers]
  BY DEF HInv, TurnInv, Record
<1>2. /\ SchedulerTypeOK /\ RingOK /\ Live \subseteq Fibers
      /\ Live' = Live \ {c}
      /\ Live' # {} => currentFiber' # NULL
      /\ state' = [state EXCEPT ![c] = "COMPLETED"]
  BY FinishKeepsScheduler DEF HInv, IInv, TypeOK, Live
<1>3. ASSUME NEW f \in Fibers
      PROVE  IF Waiting(f)' /\ currentFiber' # NULL THEN TurnOf(f)'
             ELSE passed'[f] = {}
  <2>1. CASE ~Waiting(f)'
    BY <2>1, RecordedQuietly DEF HInv
  <2>2. CASE Waiting(f)'
    <3>1. f \in Live' /\ f # c
      BY <1>2, <2>2, RunnableIsLive DEF Waiting
    <3>2. Waiting(f)
      BY <1>2, <2>2, <3>1 DEF Waiting, SchedulerTypeOK
    <3>3. c # NULL /\ currentFiber' # NULL
      BY <1>2, <3>1, FibersAssumption
    <3>4. PICK A \in SUBSET Live : Stretch(f, A) /\ passed[f] \subseteq A
      BY <3>2, <3>3 DEF HInv, TurnInv, TurnOf
    <3> DEFINE before == prev[c]
               after == next[c]
    <3>5. /\ c \in Live /\ before \in Live /\ next[before] = c
          /\ after \in Live /\ prev[after] = c
          /\ \A g \in Live : /\ next[g] \in Live /\ prev[next[g]] = g
                             /\ prev[g] \in Live /\ next[prev[g]] = g
      BY <1>2 DEF RingOK
    <3>6. FinishOneOfMany
      BY <3>3 DEF SchedulerFinishCurrent, FinishNothing, FinishOnly
    <3>7. /\ next' = [next EXCEPT ![before] = after, ![c] = NULL]
          /\ prev' = [prev EXCEPT ![after] = before, ![c] = NULL]
          /\ currentFiber' = before
      BY <3>6 DEF FinishOneOfMany, FiberBefore
    <3>8. /\ c \in A /\ after \notin A /\ before \in A \cup {f}
      BY <3>1, <3>4, <3>5 DEF Stretch
    <3>9. after # c /\ before # c
      BY <3>5, <3>8
    <3>10. /\ next'[before] = after
           /\ \A g \in Live \ {c} : g # before => next'[g] = next[g]
      BY <1>2, <3>5, <3>7, <3>9 DEF SchedulerTypeOK
    <3>11. \A g \in Live \ {c} : g # after => prev'[g] = prev[g]
      BY <1>2, <3>5, <3>7, <3>9 DEF SchedulerTypeOK
    <3>12. \A g \in A : /\ next[g] \in A <=> g # c
                        /\ prev[g] \in A \cup {f}
      BY <3>4 DEF Stretch
    <3> HIDE DEF before, after, c
    <3> PICK B \in SUBSET Live : B = A \ {c}
      OBVIOUS
    <3>13. f \notin B /\ currentFiber' \in B \cup {f}
      BY <3>4, <3>7, <3>8, <3>9 DEF Stretch
    <3>14. \A g \in B : /\ next'[g] \in B <=> g # currentFiber'
                        /\ prev'[g] \in B \cup {f}
      <4> SUFFICES ASSUME NEW g \in B
                   PROVE  /\ next'[g] \in B <=> g # currentFiber'
                          /\ prev'[g] \in B \cup {f}
        OBVIOUS
      <4>1. g \in Live \ {c} /\ g \in A /\ g # after
        BY <3>8
      <4>2. prev'[g] = prev[g] /\ prev[g] # c /\ prev[g] \in A \cup {f}
        BY <3>5, <3>11, <3>12, <4>1 DEF after
      <4>3. CASE g = before
        BY <3>7, <3>8, <3>10, <4>2, <4>3
      <4>4. CASE g # before
        <5>1. next'[g] = next[g] /\ next[g] # c /\ next[g] \in A
          BY <3>5, <3>10, <3>12, <4>1, <4>4 DEF before
        <5>2. QED
          BY <3>7, <4>2, <4>4, <5>1
      <4>5. QED
        BY <4>3, <4>4
    <3>15. Stretch(f, B)'
      BY <3>13, <3>14 DEF Stretch
    <3>16. passed'[f] \subseteq B
      <4>1. c \in Fibers /\ state'[c] = "COMPLETED"
        BY <1>2, <3>5 DEF SchedulerTypeOK
      <4>2. QED
        BY <2>2, <3>4, <4>1, RecordedQuietly DEF HInv
    <3>17. B \in SUBSET Live'
      BY <1>2
    <3>18. TurnOf(f)'
      BY <3>15, <3>16, <3>17 DEF TurnOf
    <3>19. QED
      BY <2>2, <3>3, <3>18
  <2>3. QED
    BY <2>1, <2>2
<1>4. QED
  BY <1>1, <1>3 DEF TurnInv

\* scheduler_next_ready begins behind the current fiber, and so at the end of
\* no stretch.
LEMMA PickBeginKeepsTurns ==
  ASSUME HInv, Record, PickBegin
  PROVE  TurnInv'
<1>1. /\ passed' \in [Fibers -> SUBSET Fibers] /\ ~Dispatched
      /\ fiber' = fiber /\ fiber = NULL /\ pc' = "scan"
      /\ UNCHANGED <<ringVars, currentFiber, state>>
      /\ scanCurr' = IF currentFiber # NULL THEN next[currentFiber] ELSE head
  BY DEF HInv, TurnInv, Record, PickBegin, ScanBegin, Dispatched
<1>2. Live' = Live /\ next' = next /\ prev' = prev
  BY <1>1 DEF Live, ringVars
<1>3. ASSUME NEW f \in Fibers
      PROVE  IF Waiting(f)' /\ currentFiber' # NULL THEN TurnOf(f)'
             ELSE passed'[f] = {}
  <2>1. CASE ~Waiting(f)'
    BY <1>1, <2>1, RecordedQuietly DEF HInv
  <2>2. CASE Waiting(f)'
    <3>1. Waiting(f) /\ passed'[f] \subseteq passed[f]
      BY <1>1, <2>2, RecordedQuietly DEF HInv, Waiting
    <3>2. CASE currentFiber = NULL
      BY <1>1, <3>1, <3>2 DEF HInv, TurnInv
    <3>3. CASE currentFiber # NULL
      <4>1. PICK A \in SUBSET Live : Stretch(f, A) /\ passed[f] \subseteq A
        BY <3>1, <3>3 DEF HInv, TurnInv, TurnOf
      <4>2. next[currentFiber] \notin A
        <5>1. CASE currentFiber \in A
          BY <4>1, <5>1 DEF Stretch
        <5>2. CASE currentFiber \notin A
          <6>1. currentFiber = f /\ f \in Live
            BY <3>1, <4>1, <5>2, RunnableIsLive DEF Stretch, Waiting
          <6>2. A = {}
            BY <4>1, <6>1, NothingBehindCurrent DEF HInv, IInv
          <6>3. QED
            BY <6>2
        <5>3. QED
          BY <5>1, <5>2
      <4>3. Stretch(f, A)'
        BY <1>1, <1>2, <4>1 DEF Stretch
      <4>4. TurnOf(f)'
        BY <1>1, <1>2, <3>1, <3>3, <4>1, <4>2, <4>3 DEF TurnOf
      <4>5. QED
        BY <1>1, <2>2, <3>3, <4>4
    <3>4. QED
      BY <3>2, <3>3
  <2>3. QED
    BY <2>1, <2>2
<1>4. QED
  BY <1>1, <1>3 DEF TurnInv

\* What the scan is at cannot run, and is no waiting fiber: it does not step
\* onto the stretch behind one.
LEMMA PickSkipKeepsTurns ==
  ASSUME HInv, Record, PickSkip
  PROVE  TurnInv'
<1>1. /\ passed' \in [Fibers -> SUBSET Fibers] /\ ~Dispatched
      /\ fiber' = fiber /\ fiber = NULL /\ pc = "scan" /\ pc' = "scan"
      /\ UNCHANGED <<ringVars, currentFiber, state>>
      /\ scanCurr' = next[scanCurr] /\ state[scanCurr] \notin Runnable
  BY DEF HInv, TurnInv, Record, PickSkip, ScanAdvance, vmVars, Dispatched
<1>2. Live' = Live /\ next' = next /\ prev' = prev
  BY <1>1 DEF Live, ringVars
<1>3. scanCurr \in Live /\ prev[next[scanCurr]] = scanCurr
  BY <1>1 DEF HInv, IInv, ScanInv, RingOK
<1>4. ASSUME NEW f \in Fibers
      PROVE  IF Waiting(f)' /\ currentFiber' # NULL THEN TurnOf(f)'
             ELSE passed'[f] = {}
  <2>1. CASE ~Waiting(f)'
    BY <1>1, <2>1, RecordedQuietly DEF HInv
  <2>2. CASE Waiting(f)'
    <3>1. Waiting(f) /\ passed'[f] \subseteq passed[f]
      BY <1>1, <2>2, RecordedQuietly DEF HInv, Waiting
    <3>2. CASE currentFiber = NULL
      BY <1>1, <3>1, <3>2 DEF HInv, TurnInv
    <3>3. CASE currentFiber # NULL
      <4>1. PICK A \in SUBSET Live :
                Stretch(f, A) /\ passed[f] \subseteq A /\ scanCurr \notin A
        BY <1>1, <3>1, <3>3 DEF HInv, TurnInv, TurnOf
      <4>2. next[scanCurr] \notin A
        <5>1. scanCurr # f
          BY <1>1, <3>1 DEF Waiting
        <5>2. QED
          BY <1>3, <4>1, <5>1 DEF Stretch
      <4>3. Stretch(f, A)'
        BY <1>1, <1>2, <4>1 DEF Stretch
      <4>4. TurnOf(f)'
        BY <1>1, <1>2, <3>1, <4>1, <4>2, <4>3 DEF TurnOf
      <4>5. QED
        BY <1>1, <2>2, <3>3, <4>4
    <3>4. QED
      BY <3>2, <3>3
  <2>3. QED
    BY <2>1, <2>2
<1>5. QED
  BY <1>1, <1>4 DEF TurnInv

\* The fiber that is dispatched has not been since a waiting one began to
\* wait.
LEMMA DispatchedInTurn ==
  ASSUME HInv, PickTake, NEW f \in Fibers
  PROVE  fiber' \notin passed[f]
<1>1. fiber' = scanCurr /\ pc = "scan"
  BY DEF PickTake
<1>2. CASE Waiting(f) /\ currentFiber # NULL
  BY <1>1, <1>2 DEF HInv, TurnInv, TurnOf
<1>3. CASE ~(Waiting(f) /\ currentFiber # NULL)
  BY <1>3 DEF HInv, TurnInv
<1>4. QED
  BY <1>2, <1>3

\* A dispatch makes the stretches behind the waiting fibers longer.
LEMMA PickTakeKeepsTurns ==
  ASSUME HInv, Record, PickTake
  PROVE  TurnInv'
<1> PICK g \in Live : g = scanCurr
  BY DEF HInv, IInv, ScanInv, PickTake
<1>1. /\ fiber = NULL /\ fiber' = g /\ currentFiber' = g
      /\ pc = "scan" /\ pc' = "slice"
      /\ state' = [state EXCEPT ![g] = "RUNNING"]
      /\ next' = next /\ prev' = prev
      /\ SchedulerTypeOK /\ Live \subseteq Fibers
  BY DEF HInv, IInv, TypeOK, TurnInv, PickTake, ScanTake, ringVars, Live
<1>2. Live' = Live
  BY <1>1 DEF Live, SchedulerTypeOK
<1>3. /\ passed' \in [Fibers -> SUBSET Fibers]
      /\ \A f \in Fibers : /\ ~Waiting(f)' => passed'[f] = {}
                           /\ passed'[f] \subseteq passed[f] \cup {g}
  BY <1>1 DEF HInv, TurnInv, Record, Waiting, Dispatched
<1>4. ASSUME NEW f \in Fibers, Waiting(f)'
      PROVE  TurnOf(f)'
  <2>1. f # g /\ Waiting(f) /\ f \in Live
    BY <1>1, <1>2, <1>4, RunnableIsLive, FibersAssumption DEF Waiting, SchedulerTypeOK
  <2>2. Circle(Live, next, prev)
    BY RingIsCircle DEF HInv, IInv
  <2>3. PICK B \in SUBSET Live :
            /\ f \notin B /\ g \in B \cup {f}
            /\ \A h \in B : /\ next[h] \in B <=> h # g
                            /\ prev[h] \in B \cup {f}
            /\ g # f => next[f] \in B
    BY <2>1, <2>2, StretchExists
  <2>4. Stretch(f, B)'
    BY <1>1, <2>3 DEF Stretch
  <2>5. passed[f] \subseteq B
    <3>1. CASE currentFiber = NULL
      BY <3>1 DEF HInv, TurnInv
    <3>2. CASE currentFiber # NULL
      <4>1. PICK A \in SUBSET Live :
                Stretch(f, A) /\ passed[f] \subseteq A /\ g \notin A
        BY <1>1, <2>1, <3>2 DEF HInv, TurnInv, TurnOf
      <4>2. \A h \in A \ B : prev[h] \in A \ B
        <5> SUFFICES ASSUME NEW h \in A \ B PROVE prev[h] \in A \ B
          OBVIOUS
        <5>1. prev[h] \in A \cup {f} /\ next[prev[h]] = h
          BY <2>2, <4>1 DEF Stretch, Circle
        <5>2. prev[h] # f
          BY <2>1, <2>3, <5>1
        <5>3. prev[h] \notin B
          BY <2>3, <4>1, <5>1, <5>2
        <5>4. QED
          BY <5>1, <5>2, <5>3
      <4>3. A \ B # Live
        BY <2>1, <4>1 DEF Stretch
      <4>4. A \ B = {}
        <5> PICK D \in SUBSET Live : D = A \ B
          OBVIOUS
        <5>1. \A h \in D : prev[h] \in D
          BY <4>2
        <5>2. D # {} => D = Live
          BY <2>2, <5>1, ClosedBackwards
        <5>3. QED
          BY <4>3, <5>2
      <4>5. QED
        BY <4>1, <4>4
    <3>3. QED
      BY <3>1, <3>2
  <2>6. passed'[f] \subseteq B
    BY <1>3, <2>1, <2>3, <2>5
  <2>7. QED
    BY <1>1, <1>2, <2>4, <2>6 DEF TurnOf
<1>5. currentFiber' # NULL
  BY <1>1, FibersAssumption
<1>6. QED
  BY <1>1, <1>3, <1>4, <1>5 DEF TurnInv

-----------------------------------------------------------------------------
(* The actions. *)

LEMMA HostKeepsTurns ==
  ASSUME HInv, Record, Host
  PROVE  TurnInv'
<1>1. CASE CompileError \/ RunFunctionNoMemory \/ VmFree
  <2>1. /\ UNCHANGED schedVars /\ UNCHANGED fiber /\ fiber = NULL
        /\ ~Dispatched /\ pc' \in {"idle", "freeing"}
    BY <1>1 DEF CompileError, RunFunctionNoMemory, VmFree, Dispatched, HInv, TurnInv
  <2>2. Live' = Live /\ UNCHANGED <<next, prev, currentFiber, state>>
    BY <2>1 DEF schedVars, ringVars, Live
  <2>3. QED
    BY <2>1, <2>2, QuietKeepsTurns
<1>2. CASE RunFunction
  <2>1. PICK f \in Fibers : SpawnFiber(f, 0, DefaultCapabilities)
    BY <1>2 DEF RunFunction
  <2>2. fiber' = fiber /\ fiber = NULL /\ pc' = "pick" /\ ~Dispatched
    BY <1>2 DEF RunFunction, Dispatched, HInv, TurnInv
  <2>3. 0 \in 0..MaxArgs
    BY MaxArgsAssumption
  <2>4. QED
    BY <2>1, <2>2, <2>3, SpawnKeepsTurns
<1>3. CASE VmInit
  <2>1. /\ Live = {} /\ state' = state /\ fiber' = fiber /\ pc' = "idle"
        /\ fiber = NULL /\ ~Dispatched
    BY <1>3 DEF VmInit, HInv, IInv, PcInv, TurnInv, Dispatched
  <2>2. \A f \in Fibers : ~Waiting(f)'
    BY <2>1, RunnableIsLive DEF Waiting
  <2>3. QED
    BY <2>1, <2>2, RecordedQuietly DEF HInv, TurnInv, Record
<1>4. QED
  BY <1>1, <1>2, <1>3 DEF Host

LEMMA LoopKeepsTurns ==
  ASSUME HInv, Record, Loop
  PROVE  TurnInv'
<1>1. CASE NoWork \/ PickNone \/ SliceEnd
  <2>1. /\ UNCHANGED <<next, prev, currentFiber, state>>
        /\ fiber' = NULL /\ ~Dispatched /\ pc' \in {"idle", "pick"}
    BY <1>1 DEF NoWork, PickNone, SliceEnd, Return, ScanFail, schedVars, ringVars, Dispatched
  <2>2. Live' = Live
    BY <2>1 DEF Live
  <2>3. fiber \in {NULL, currentFiber} \/ fiber \notin Live
    BY DEF HInv, IInv, PcInv, TurnInv, Live
  <2>4. QED
    BY <2>1, <2>2, <2>3, QuietKeepsTurns
<1>2. QED
  BY <1>1, PickBeginKeepsTurns, PickSkipKeepsTurns, PickTakeKeepsTurns DEF Loop

\* What most instructions do to the scheduler.
LEMMA InstructionKeepsTurns ==
  ASSUME HInv, Record, pc = "slice", SliceGoesOn,
         UNCHANGED <<next, prev, currentFiber>>,
         fiber' \in {fiber, NULL}, pc' \in {"slice", "idle"},
         pc' # "slice" => fiber' = NULL,
         NEW st \in FiberState \ {"COMPLETED"},
         state' = state \/ state' = [state EXCEPT ![fiber] = st]
  PROVE  TurnInv'
<1>1. fiber = currentFiber /\ fiber \in Live /\ state \in [Fibers -> FiberState]
  BY RunningIsCurrent DEF HInv, IInv, TypeOK, SchedulerTypeOK
<1>2. Live' = Live /\ \A f \in Fibers \ {currentFiber} : state'[f] = state[f]
  BY <1>1 DEF Live
<1>3. ~Dispatched
  BY DEF Dispatched
<1>4. QED
  BY <1>1, <1>2, <1>3, QuietKeepsTurns

LEMMA FinishFiberKeepsTurns ==
  ASSUME HInv, Record, FinishFiber
  PROVE  TurnInv'
<1>1. /\ fiber = currentFiber /\ fiber \in Live /\ SchedulerFinishCurrent
      /\ fiber' = fiber /\ pc' = "slice" /\ ~Dispatched
  BY RunningIsCurrent DEF FinishFiber, Executing, HInv, Dispatched
<1>2. QED
  BY <1>1, FinishKeepsTurns

LEMMA SpawnInstructionKeepsTurns ==
  ASSUME HInv, Record, SpawnInstruction
  PROVE  TurnInv'
<1>1. PICK args \in 0..MaxArgs, f \in Fibers :
          Executing /\ SpawnFiber(f, args, capabilities[fiber])
  BY DEF SpawnInstruction, Spawn
<1>2. fiber \in Live /\ fiber \in Fibers /\ fiber' = fiber /\ pc' = "slice" /\ ~Dispatched
  BY <1>1, RunningIsCurrent DEF Executing, HInv, Dispatched
<1>3. capabilities[fiber] \in SUBSET DefaultCapabilities
  BY <1>2 DEF HInv, IInv, CapInv
<1>4. QED
  BY <1>1, <1>2, <1>3, SpawnKeepsTurns

LEMMA OtherInstructionKeepsTurns ==
  ASSUME HInv, Record, OtherInstruction
  PROVE  TurnInv'
<1>1. Executing => pc = "slice" /\ SliceGoesOn /\ fiber' = fiber /\ pc' = "slice"
  BY DEF Executing
<1>2. ASSUME NEW s, Executing, SetStack(s), UNCHANGED <<ringVars, scanVars, currentFiber>>
      PROVE  TurnInv'
  <2>1. "ERROR" \in FiberState \ {"COMPLETED"}
    BY DEF FiberState
  <2>2. UNCHANGED <<next, prev, currentFiber>>
    BY <1>2 DEF ringVars
  <2>3. QED
    BY <1>1, <1>2, <2>1, <2>2, InstructionKeepsTurns DEF SetStack
<1>3. ASSUME Executing, UNCHANGED schedVars
      PROVE  TurnInv'
  <2>1. "ERROR" \in FiberState \ {"COMPLETED"}
    BY DEF FiberState
  <2>2. UNCHANGED <<next, prev, currentFiber, state>>
    BY <1>3 DEF schedVars, ringVars
  <2>3. QED
    BY <1>1, <1>3, <2>1, <2>2, InstructionKeepsTurns
<1>4. ASSUME NEW e \in StackEffect, Operate(e[1], e[2]) PROVE TurnInv'
  BY <1>2, <1>4 DEF Operate
<1>5. ASSUME NEW op, NEW args, NEW pushes, InvokeHost(op, args, pushes)
      PROVE  TurnInv'
  BY <1>2, <1>5 DEF InvokeHost
<1>6. ASSUME NEW name, CapRequest(name) PROVE TurnInv'
  BY <1>2, <1>6 DEF CapRequest
<1>7. ASSUME NEW args, Call(args) \/ SpawnNoMemory(args) PROVE TurnInv'
  BY <1>3, <1>7 DEF Call, SpawnNoMemory
<1>8. CASE ReturnToCaller
  BY <1>2, <1>8 DEF ReturnToCaller
<1>9. CASE ReturnFromFiber \/ Halt
  BY <1>9, FinishFiberKeepsTurns DEF ReturnFromFiber, Halt
<1>10. CASE Yield
  <2>1. /\ Executing /\ UNCHANGED <<next, prev, currentFiber>>
        /\ state' = state \/ state' = [state EXCEPT ![currentFiber] = "YIELDED"]
    BY <1>10 DEF Yield, SchedulerYield, ringVars
  <2>2. fiber = currentFiber
    BY <1>1, <2>1, RunningIsCurrent DEF HInv
  <2>3. "YIELDED" \in FiberState \ {"COMPLETED"}
    BY DEF FiberState
  <2>4. QED
    BY <1>1, <2>1, <2>2, <2>3, InstructionKeepsTurns
<1>11. ASSUME NEW pops, RuntimeError(pops) PROVE TurnInv'
  <2>1. /\ pc = "slice" /\ SliceGoesOn /\ UNCHANGED <<next, prev, currentFiber>>
        /\ pc' = "idle" /\ fiber' = NULL
        /\ state' = [state EXCEPT ![fiber] = "ERROR"]
    BY <1>11 DEF RuntimeError, Return, ringVars
  <2>2. "ERROR" \in FiberState \ {"COMPLETED"}
    BY DEF FiberState
  <2>3. QED
    BY <2>1, <2>2, InstructionKeepsTurns
<1>12. CASE UnknownOpcode
  <2>1. /\ pc = "slice" /\ SliceGoesOn /\ UNCHANGED <<next, prev, currentFiber, state>>
        /\ pc' = "idle" /\ fiber' = NULL
    BY <1>12 DEF UnknownOpcode, Return, schedVars, ringVars
  <2>2. "ERROR" \in FiberState \ {"COMPLETED"}
    BY DEF FiberState
  <2>3. QED
    BY <2>1, <2>2, InstructionKeepsTurns
<1>13. QED
  BY <1>4, <1>5, <1>6, <1>7, <1>8, <1>9, <1>10, <1>11, <1>12 DEF OtherInstruction

LEMMA FreeKeepsTurns ==
  ASSUME HInv, Record, Free
  PROVE  TurnInv'
<1>1. CASE VmFreeFiber
  <2>1. /\ SchedulerFinishCurrent /\ fiber' = fiber /\ fiber = NULL
        /\ pc = "freeing" /\ pc' = "freeing" /\ fiberCount > 0 /\ ~Dispatched
    BY <1>1 DEF VmFreeFiber, HInv, TurnInv, Dispatched
  <2>2. Live # {}
    <3>1. fiberCount = Cardinality(Live)
      BY DEF HInv, IInv, RingOK
    <3>2. Live = {} => fiberCount = 0
      BY <3>1, FS_EmptySet
    <3>3. QED
      BY <2>1, <3>2
  <2>3. currentFiber \in Live
    BY <2>1, <2>2 DEF HInv, IInv, PcInv
  <2>4. QED
    BY <2>1, <2>3, FinishKeepsTurns
<1>2. CASE VmFreeDone
  <2>1. /\ UNCHANGED <<next, prev, currentFiber, state, fiber>> /\ fiber = NULL
        /\ ~Dispatched /\ pc' = "freed"
    BY <1>2 DEF VmFreeDone, schedVars, ringVars, Dispatched, HInv, TurnInv
  <2>2. Live' = Live
    BY <2>1 DEF Live
  <2>3. QED
    BY <2>1, <2>2, QuietKeepsTurns
<1>3. QED
  BY <1>1, <1>2 DEF Free

LEMMA StutterKeepsTurns ==
  ASSUME TurnInv, UNCHANGED hvars
  PROVE  TurnInv'
BY DEF TurnInv, hvars, vars, schedVars, ringVars, scanVars, vmVars, Waiting,
       TurnOf, Stretch, Live

-----------------------------------------------------------------------------
(* The theorems. *)

\* The histories change nothing: with them the VM takes the steps it takes
\* without.
THEOREM HistoryOfTheVM == HSpec => Spec
<1>1. HInit => Init
  BY DEF HInit
<1>2. [HHost \/ HStep]_hvars => [Next]_vars
  BY DEF HHost, HStep, Next, hvars
<1>3. QED
  BY <1>1, <1>2, PTL DEF HSpec, Spec

THEOREM TurnInvariance == HSpec => []HInv
<1>1. HInit => TurnInv
  BY DEF HInit, Init, SchedulerInit, TurnInv
<1>2. IInv /\ TurnInv /\ [HHost \/ HStep]_hvars => TurnInv'
  BY HostKeepsTurns, LoopKeepsTurns, SpawnInstructionKeepsTurns,
     OtherInstructionKeepsTurns, FreeKeepsTurns, StutterKeepsTurns
     DEF HInv, HHost, HStep
<1>3. HSpec => []IInv
  BY HistoryOfTheVM, Invariance, PTL
<1>4. HSpec => []TurnInv
  BY <1>1, <1>2, <1>3, PTL DEF HSpec
<1>5. QED
  BY <1>3, <1>4, PTL DEF HInv

\* scheduler_next_ready is a round robin: while a fiber that could run waits
\* for its slice, no other one is given two, whatever is spawned, finishes or
\* dies in between, in however many calls of vm_run_function.
THEOREM RoundRobinCorrect == HSpec => RoundRobin
<1> DEFINE InTurn == Dispatched => \A f \in Fibers : fiber' \notin passed[f]
<1>1. HInv /\ (HHost \/ HStep) => InTurn
  <2> SUFFICES ASSUME HInv, HHost \/ HStep, Dispatched, NEW f \in Fibers
               PROVE  fiber' \notin passed[f]
    OBVIOUS
  <2>1. PickTake
    BY DEF HHost, HStep, Dispatched, Host, CompileError, RunFunction, RunFunctionNoMemory,
           VmFree, VmInit, Loop, NoWork, PickBegin, PickSkip, PickNone, SliceEnd,
           SpawnInstruction, Spawn, Executing, OtherInstruction, Operate, InvokeHost,
           CapRequest, Call, SpawnNoMemory, ReturnToCaller, ReturnFromFiber, Halt,
           FinishFiber, Yield, RuntimeError, UnknownOpcode, Free, VmFreeFiber, VmFreeDone,
           Return, vmVars
  <2>2. QED
    BY <2>1, DispatchedInTurn
<1>2. HInv /\ [HHost \/ HStep]_hvars => [InTurn]_hvars
  BY <1>1
<1>3. QED
  BY <1>2, TurnInvariance, PTL DEF HSpec, RoundRobin
=============================================================================
