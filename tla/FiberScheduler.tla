--------------------------- MODULE FiberScheduler ---------------------------
(***************************************************************************)
(* scheduler.c: the ring of green-thread fibers and its operations.        *)
(*                                                                         *)
(* Every live fiber is a node of one circular doubly linked list.  A       *)
(* member of Fibers is the NAME of a fiber object: a name whose state is   *)
(* "COMPLETED" belongs to no live object and may be given to the next      *)
(* fiber that is allocated, with the links of the dead object forgotten    *)
(* (they are garbage: nothing reaches a node that left the ring).          *)
(*                                                                         *)
(* The do-while of scheduler_next_ready is modelled one iteration per      *)
(* action: scanStart and scanCurr are its locals `start` and `curr`.       *)
(***************************************************************************)
EXTENDS Naturals, FiniteSets

CONSTANTS
    Fibers,     \* names of fiber objects
    NULL        \* the C null pointer

ASSUME FibersAssumption == IsFiniteSet(Fibers) /\ NULL \notin Fibers

VARIABLES
    head,           \* sched->head
    currentFiber,   \* sched->current_fiber
    fiberCount,     \* sched->fiber_count
    next,           \* fiber->next
    prev,           \* fiber->prev
    state,          \* fiber->state
    scanStart,      \* `start` of a running scheduler_next_ready
    scanCurr        \* `curr` of a running scheduler_next_ready

ringVars == <<head, fiberCount, next, prev>>
scanVars == <<scanStart, scanCurr>>
schedVars == <<ringVars, scanVars, currentFiber, state>>

FiberState == {"READY", "RUNNING", "YIELDED", "BLOCKED", "COMPLETED", "ERROR"}

\* Mutants: the scheduler forgets yielded fibers, or takes dead ones.
RunnableNotYielded == {"READY", "RUNNING"}
RunnableNotCompleted == {"READY", "YIELDED", "RUNNING", "ERROR"}

\* The states scheduler_next_ready accepts.
Runnable == {"READY", "YIELDED", "RUNNING"}

\* The fiber objects that have been initialised and not freed.
Live == {f \in Fibers : state[f] # "COMPLETED"}

SchedulerTypeOK ==
    /\ head \in Fibers \cup {NULL}
    /\ currentFiber \in Fibers \cup {NULL}
    /\ fiberCount \in Nat
    /\ next \in [Fibers -> Fibers \cup {NULL}]
    /\ prev \in [Fibers -> Fibers \cup {NULL}]
    /\ state \in [Fibers -> FiberState]
    /\ scanStart \in Fibers \cup {NULL}
    /\ scanCurr \in Fibers \cup {NULL}

SchedulerInit ==
    /\ head = NULL
    /\ currentFiber = NULL
    /\ fiberCount = 0
    /\ next = [f \in Fibers |-> NULL]
    /\ prev = [f \in Fibers |-> NULL]
    /\ state = [f \in Fibers |-> "COMPLETED"]
    /\ scanStart = NULL
    /\ scanCurr = NULL

(***************************************************************************)
(* scheduler_spawn with the object f: fiber_init makes it READY, and it is *)
(* linked between the tail (head->prev) and the head.                      *)
(***************************************************************************)
LinkFirst(f) ==
    /\ head = NULL
    /\ head' = f
    /\ next' = [next EXCEPT ![f] = f]
    /\ prev' = [prev EXCEPT ![f] = f]

\* Mutant: the head does not learn its new predecessor.
LinkAtTailNoBackLink(f) ==
    /\ head # NULL
    /\ next' = [next EXCEPT ![prev[head]] = f, ![f] = head]
    /\ prev' = [prev EXCEPT ![f] = prev[head]]
    /\ UNCHANGED head

LinkAtTail(f) ==
    /\ head # NULL
    /\ next' = [next EXCEPT ![prev[head]] = f, ![f] = head]
    /\ prev' = [prev EXCEPT ![f] = prev[head], ![head] = f]
    /\ UNCHANGED head

SchedulerSpawn(f) ==
    /\ f \in Fibers \ Live
    /\ LinkFirst(f) \/ LinkAtTail(f)
    /\ fiberCount' = fiberCount + 1
    /\ UNCHANGED <<currentFiber, scanVars>>

(***************************************************************************)
(* scheduler_next_ready: it starts behind the current fiber and takes the  *)
(* first runnable one; back at the start, it returns NULL.                 *)
(***************************************************************************)
ScanBegin ==
    /\ head # NULL /\ fiberCount # 0
    /\ scanStart' = IF currentFiber # NULL THEN next[currentFiber] ELSE head
    /\ scanCurr' = scanStart'
    /\ UNCHANGED <<ringVars, currentFiber, state>>

ScanTake ==
    /\ state[scanCurr] \in Runnable
    /\ state' = [state EXCEPT ![scanCurr] = "RUNNING"]
    /\ currentFiber' = scanCurr
    /\ scanStart' = NULL /\ scanCurr' = NULL
    /\ UNCHANGED ringVars

ScanAdvance ==
    /\ state[scanCurr] \notin Runnable
    /\ next[scanCurr] # scanStart
    /\ scanCurr' = next[scanCurr]
    /\ UNCHANGED <<ringVars, currentFiber, state, scanStart>>

ScanFail ==
    /\ state[scanCurr] \notin Runnable
    /\ next[scanCurr] = scanStart
    /\ scanStart' = NULL /\ scanCurr' = NULL
    /\ UNCHANGED <<ringVars, currentFiber, state>>

(***************************************************************************)
(* scheduler_yield.                                                        *)
(***************************************************************************)
SchedulerYield ==
    /\ state' = IF currentFiber = NULL THEN state
                ELSE [state EXCEPT ![currentFiber] = "YIELDED"]
    /\ UNCHANGED <<ringVars, scanVars, currentFiber>>

(***************************************************************************)
(* scheduler_finish_current: fiber_free completes the fiber, which is then *)
(* unlinked; the fiber BEFORE it becomes current, so that the next scan    *)
(* starts at the one behind it.                                            *)
(***************************************************************************)
FinishNothing ==
    /\ currentFiber = NULL
    /\ UNCHANGED schedVars

FinishOnly ==
    /\ currentFiber # NULL /\ fiberCount = 1
    /\ head' = NULL /\ currentFiber' = NULL /\ fiberCount' = 0
    /\ next' = [next EXCEPT ![currentFiber] = NULL]
    /\ prev' = [prev EXCEPT ![currentFiber] = NULL]
    /\ state' = [state EXCEPT ![currentFiber] = "COMPLETED"]
    /\ UNCHANGED scanVars

\* Mutants: current_fiber is cleared, or left at the freed fiber.
NoFiber == NULL
FreedFiber == currentFiber

\* The fiber that becomes current.
FiberBefore == prev[currentFiber]

FinishOneOfMany ==
    /\ currentFiber # NULL /\ fiberCount # 1
    /\ next' = [next EXCEPT ![prev[currentFiber]] = next[currentFiber],
                            ![currentFiber] = NULL]
    /\ prev' = [prev EXCEPT ![next[currentFiber]] = prev[currentFiber],
                            ![currentFiber] = NULL]
    /\ head' = IF head = currentFiber THEN next[currentFiber] ELSE head
    /\ currentFiber' = FiberBefore
    /\ fiberCount' = fiberCount - 1
    /\ state' = [state EXCEPT ![currentFiber] = "COMPLETED"]
    /\ UNCHANGED scanVars

SchedulerFinishCurrent == FinishNothing \/ FinishOnly \/ FinishOneOfMany

-----------------------------------------------------------------------------
\* The ring of scheduler.c stays one doubly linked circle of exactly the live
\* fibers through every insertion and removal: the links are each other's
\* inverse, no part of the live fibers is a circle of its own, and
\* fiber_count counts them.  A fiber outside the circle would never run and
\* its arena would never be freed.
RingOK ==
    /\ fiberCount = Cardinality(Live)
    /\ IF Live = {} THEN head = NULL ELSE head \in Live
    /\ \A f \in Live :
          /\ next[f] \in Live /\ prev[next[f]] = f
          /\ prev[f] \in Live /\ next[prev[f]] = f
    /\ \A part \in SUBSET Live :
          (part # {} /\ \A f \in part : next[f] \in part) => part = Live
=============================================================================
