----------------------------- MODULE FiberTurns -----------------------------
(***************************************************************************)
(* FiberVM with two history variables, for the promises of a round-robin   *)
(* scheduler.                                                              *)
(***************************************************************************)
EXTENDS FiberVM

CONSTANT MaxSpawns      \* bound on the OP_SPAWNs of one vm_run_function

VARIABLES
    spawns,     \* OP_SPAWNs that succeeded in this vm_run_function
    passed      \* the fibers dispatched while f has been waiting for a slice

hvars == <<vars, spawns, passed>>

Dispatched == pc = "scan" /\ pc' = "slice"

\* A fiber waits from the step it becomes runnable, or loses the slice, to
\* the step it is dispatched.  A freed fiber's name is forgotten.
Record ==
    passed' = [f \in Fibers |->
        IF state'[f] \notin Runnable \/ fiber' = f THEN {}
        ELSE (passed[f] \cup (IF Dispatched THEN {fiber'} ELSE {}))
             \ {g \in Fibers : state'[g] = "COMPLETED"}]

HInit ==
    /\ Init
    /\ spawns = 0
    /\ passed = [f \in Fibers |-> {}]

HHost == Host /\ spawns' = 0 /\ Record

HStep ==
    /\ \/ /\ SpawnInstruction
          /\ spawns < MaxSpawns
          /\ spawns' = spawns + 1
       \/ /\ Loop \/ OtherInstruction \/ Free
          /\ UNCHANGED spawns
    /\ Record

HSpec == HInit /\ [][HHost \/ HStep]_hvars /\ WF_hvars(HStep)

\* Round robin: while a runnable fiber waits, no fiber is dispatched twice,
\* whatever finishes, is spawned or dies in between, and across calls of
\* vm_run_function that end in an error.
RoundRobin ==
    [][Dispatched => \A f \in Fibers : fiber' \notin passed[f]]_hvars
=============================================================================
