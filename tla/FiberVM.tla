------------------------------- MODULE FiberVM ------------------------------
(***************************************************************************)
(* vm.c: the virtual machine that runs fibers.  The module composes the    *)
(* ring (FiberScheduler), the fibers' stacks (FiberStack) and the          *)
(* capability checks (Capabilities) under the loop of vm_run_function.     *)
(*                                                                         *)
(* The host makes the calls of vm.h one at a time: pc = "idle" between     *)
(* them.  Inside vm_run_function pc is "pick" at the head of the outer     *)
(* while, "scan" inside scheduler_next_ready, "slice" in the inner while.  *)
(* A program is any sequence of instructions: each step of a slice picks   *)
(* one, and an instruction is abstracted to what it does to the stack, the *)
(* call frames, the fiber's state and the host.  Jumps are the <<0, 0>>    *)
(* stack effect.                                                           *)
(***************************************************************************)
EXTENDS FiberScheduler, FiberStack, Capabilities, Sequences

CONSTANTS
    FramesMax,              \* FIBER_FRAMES_MAX (256)
    SliceBudget,            \* instruction_budget at the start of a slice (1000)
    MaxArgs,                \* bound on the argument count of a call or spawn
    PrintMax,               \* what OP_PRINT has room for: RdxValue args[32]
    InvokeMax,              \* what OP_CAP_INVOKE has room for: RdxValue args[16]
    DefaultCapabilities,    \* the capabilities the host gave vm_init
    RequestNames            \* the names programs ask for with `cap "..."`

ASSUME FramesMaxAssumption == FramesMax \in Nat \ {0}
ASSUME SliceBudgetAssumption == SliceBudget \in Nat \ {0}
ASSUME MaxArgsAssumption == MaxArgs \in Nat /\ MaxArgs < StackMax
ASSUME ArgumentsAssumption == PrintMax \in Nat /\ InvokeMax \in Nat
ASSUME DefaultCapabilitiesAssumption == DefaultCapabilities \subseteq Capability

VARIABLES
    pc,             \* where the VM is: see above
    fiber,          \* vm_run_function's local `fiber`, NULL outside a slice
    budget,         \* what is left of instruction_budget
    depth,          \* stack_top - stack of each fiber
    frames,         \* the slot base of each call frame of each fiber
    capabilities,   \* fiber->capabilities
    effect,         \* the host effect of the last instruction, or "none"
    result          \* what the last vm_run_function returned

vmVars == <<pc, fiber, budget, depth, frames, capabilities, effect, result>>
vars == <<schedVars, vmVars>>

Pc == {"idle", "pick", "scan", "slice", "freeing", "freed"}
InterpretResult == {"NONE", "OK", "COMPILE_ERROR", "RUNTIME_ERROR"}

\* What an instruction may pop and push when it does nothing else.
\* <<2, 0>> and <<1, 0>> are also what OP_ADD and OP_NEG do with operands of
\* a type they do not handle: they pop them and push nothing.
StackEffect == {<<0, 0>>, <<0, 1>>, <<1, 0>>, <<1, 1>>, <<2, 0>>, <<2, 1>>}

TypeOK ==
    /\ SchedulerTypeOK
    /\ pc \in Pc
    /\ fiber \in Fibers \cup {NULL}
    /\ budget \in 0..SliceBudget
    /\ depth \in [Fibers -> 0..StackMax]
    /\ frames \in [Fibers -> Seq(0..StackMax)]
    /\ capabilities \in [Fibers -> SUBSET Capability]
    /\ effect \in Capability \cup {"none"}
    /\ result \in InterpretResult

Init ==
    /\ SchedulerInit
    /\ pc = "idle"
    /\ fiber = NULL
    /\ budget = 0
    /\ depth = [f \in Fibers |-> 0]
    /\ frames = [f \in Fibers |-> <<>>]
    /\ capabilities = [f \in Fibers |-> {}]
    /\ effect = "none"
    /\ result = "NONE"

(***************************************************************************)
(* scheduler_spawn with its fiber_init: one frame whose slots start at the *)
(* stack's bottom, the function in slot 0, then `args` arguments copied    *)
(* behind it.  By MaxArgsAssumption none of these pushes overflows.        *)
(***************************************************************************)
SpawnFiber(f, args, caps) ==
    /\ SchedulerSpawn(f)
    /\ frames' = [frames EXCEPT ![f] = <<0>>]
    /\ capabilities' = [capabilities EXCEPT ![f] = caps]
    /\ state' = [state EXCEPT ![f] = "READY"]

\* What a finished object held is garbage.
DropCurrent ==
    /\ depth' = [depth EXCEPT ![currentFiber] = 0]
    /\ frames' = [frames EXCEPT ![currentFiber] = <<>>]
    /\ capabilities' = [capabilities EXCEPT ![currentFiber] = {}]

\* vm_run_function returns r.
Return(r) ==
    /\ pc' = "idle"
    /\ fiber' = NULL
    /\ budget' = 0
    /\ result' = r

-----------------------------------------------------------------------------
(* The host's calls. *)

\* vm_interpret_source with a program that does not compile, or
\* vm_run_function with no function: nothing runs.
CompileError ==
    /\ pc = "idle"
    /\ result' = "COMPILE_ERROR"
    /\ effect' = "none"
    /\ UNCHANGED <<schedVars, pc, fiber, budget, depth, frames, capabilities>>

\* vm_run_function spawns the main fiber and enters its loop.
RunFunction ==
    /\ pc = "idle"
    /\ \E f \in Fibers :
        /\ SpawnFiber(f, 0, DefaultCapabilities)
        /\ depth' = [depth EXCEPT ![f] = 1]
    /\ pc' = "pick"
    /\ result' = "NONE"
    /\ effect' = "none"
    /\ UNCHANGED <<fiber, budget>>

\* The arena has no room for the main fiber.
RunFunctionNoMemory ==
    /\ pc = "idle"
    /\ result' = "RUNTIME_ERROR"
    /\ effect' = "none"
    /\ UNCHANGED <<schedVars, pc, fiber, budget, depth, frames, capabilities>>

\* vm_free: one turn of its loop, its end, and a new vm_init.
VmFree ==
    /\ pc = "idle"
    /\ pc' = "freeing"
    /\ effect' = "none"
    /\ UNCHANGED <<schedVars, fiber, budget, depth, frames, capabilities, result>>

VmFreeFiber ==
    /\ pc = "freeing" /\ fiberCount > 0
    /\ SchedulerFinishCurrent
    /\ IF currentFiber = NULL THEN UNCHANGED <<depth, frames, capabilities>>
       ELSE DropCurrent
    /\ UNCHANGED <<pc, fiber, budget, effect, result>>

VmFreeDone ==
    /\ pc = "freeing" /\ fiberCount = 0
    /\ pc' = "freed"
    /\ UNCHANGED <<schedVars, fiber, budget, depth, frames, capabilities, effect, result>>

VmInit ==
    /\ pc = "freed"
    /\ pc' = "idle"
    /\ head' = NULL /\ currentFiber' = NULL /\ fiberCount' = 0
    /\ result' = "NONE"
    /\ UNCHANGED <<next, prev, scanVars, state, fiber, budget, depth, frames,
                   capabilities, effect>>

-----------------------------------------------------------------------------
(* The scheduler loop of vm_run_function. *)

NoWork ==
    /\ pc = "pick" /\ fiberCount = 0
    /\ Return("OK")
    /\ UNCHANGED <<schedVars, depth, frames, capabilities, effect>>

PickBegin ==
    /\ pc = "pick" /\ fiberCount > 0
    /\ ScanBegin
    /\ pc' = "scan"
    /\ UNCHANGED <<fiber, budget, depth, frames, capabilities, effect, result>>

PickSkip ==
    /\ pc = "scan"
    /\ ScanAdvance
    /\ UNCHANGED vmVars

PickTake ==
    /\ pc = "scan"
    /\ ScanTake
    /\ pc' = "slice"
    /\ fiber' = scanCurr
    /\ budget' = SliceBudget
    /\ UNCHANGED <<depth, frames, capabilities, effect, result>>

\* No fiber is runnable: the loop is left although fibers are still linked.
PickNone ==
    /\ pc = "scan"
    /\ ScanFail
    /\ Return("OK")
    /\ UNCHANGED <<depth, frames, capabilities, effect>>

\* Mutant: one instruction too many.
SliceGoesOnOffByOne == budget >= 0 /\ state[fiber] = "RUNNING"

\* The condition of the inner while.
SliceGoesOn == budget > 0 /\ state[fiber] = "RUNNING"

SliceEnd ==
    /\ pc = "slice" /\ ~SliceGoesOn
    /\ pc' = "pick"
    /\ fiber' = NULL
    /\ budget' = 0
    /\ UNCHANGED <<schedVars, depth, frames, capabilities, effect, result>>

-----------------------------------------------------------------------------
(* The instructions. *)

\* Mutant: the budget is never spent.
ExecutingForFree ==
    /\ pc = "slice" /\ SliceGoesOn
    /\ UNCHANGED <<pc, fiber, budget, result>>

Executing ==
    /\ pc = "slice" /\ SliceGoesOn
    /\ budget' = budget - 1
    /\ UNCHANGED <<pc, fiber, result>>

\* The stack of the running fiber becomes s; a failed push or pop is
\* FIBER_ERROR, and nothing else.
SetStack(s) ==
    /\ depth' = [depth EXCEPT ![fiber] = s.depth]
    /\ state' = IF s.ok THEN state ELSE [state EXCEPT ![fiber] = "ERROR"]

\* Constants, locals, globals, operators, jumps.
Operate(pops, pushes) ==
    /\ Executing
    /\ SetStack(Apply(At(depth[fiber]), pops, pushes))
    /\ effect' = "none"
    /\ UNCHANGED <<ringVars, scanVars, currentFiber, frames, capabilities>>

\* OP_PRINT (the operation is print and nothing is pushed) and OP_CAP_INVOKE:
\* the arguments leave the stack before the capabilities are looked at.
\* Nothing compares their number with the room in args: an instruction that
\* asks for more overwrites the C stack, and is no step of this model.
InvokeHost(op, args, pushes) ==
    /\ Executing
    /\ SetStack(Apply(PopMany(At(depth[fiber]), args), 0, pushes))
    /\ effect' \in FfiInvoke(capabilities[fiber], op)
    /\ UNCHANGED <<ringVars, scanVars, currentFiber, frames, capabilities>>

\* OP_CAP_REQ: granted when the VM has every bit of the name.
CapRequest(name) ==
    /\ Executing
    /\ SetStack(FiberPush(At(depth[fiber])))
    /\ capabilities' =
          IF CapHasPermission(DefaultCapabilities, CapParseName(name))
          THEN [capabilities EXCEPT ![fiber] = @ \cup CapParseName(name)]
          ELSE capabilities
    /\ effect' = "none"
    /\ UNCHANGED <<ringVars, scanVars, currentFiber, frames>>

\* OP_CALL of a function that takes args arguments.
Call(args) ==
    /\ Executing
    /\ depth[fiber] > args
    /\ Len(frames[fiber]) < FramesMax
    /\ frames' = [frames EXCEPT ![fiber] = Append(@, depth[fiber] - args - 1)]
    /\ effect' = "none"
    /\ UNCHANGED <<schedVars, depth, capabilities>>

\* OP_RETURN of a function called by this fiber.
ReturnToCaller ==
    /\ Executing
    /\ Len(frames[fiber]) > 1
    /\ LET base == frames[fiber][Len(frames[fiber])]
           popped == FiberPop(At(depth[fiber]))
       IN  SetStack(FiberPush([popped EXCEPT !.depth = base]))
    /\ frames' = [frames EXCEPT ![fiber] = SubSeq(@, 1, Len(@) - 1)]
    /\ effect' = "none"
    /\ UNCHANGED <<ringVars, scanVars, currentFiber, capabilities>>

\* OP_RETURN of the fiber's own function, and OP_HALT.
FinishFiber ==
    /\ Executing
    /\ SchedulerFinishCurrent
    /\ DropCurrent
    /\ effect' = "none"

ReturnFromFiber == FinishFiber /\ Len(frames[fiber]) = 1

Halt == FinishFiber

\* OP_SPAWN: the new fiber inherits the spawner's capabilities, and the
\* callee and its arguments leave the spawner's stack for the fiber's id.
Spawn(args) ==
    /\ Executing
    /\ depth[fiber] > args
    /\ \E f \in Fibers :
        /\ SpawnFiber(f, args, capabilities[fiber])
        /\ depth' = [depth EXCEPT ![f] = 1 + args, ![fiber] = @ - args]
    /\ effect' = "none"

\* OP_SPAWN when the arena has no room: nil takes the place of the id.
SpawnNoMemory(args) ==
    /\ Executing
    /\ depth[fiber] > args
    /\ depth' = [depth EXCEPT ![fiber] = @ - args]
    /\ effect' = "none"
    /\ UNCHANGED <<schedVars, frames, capabilities>>

Yield ==
    /\ Executing
    /\ SchedulerYield
    /\ effect' = "none"
    /\ UNCHANGED <<depth, frames, capabilities>>

\* An explicit run-time error (undefined global, division by zero after its
\* two pops, a callee that is no function, wrong arity, frame overflow): the
\* fiber is marked and vm_run_function returns at once.
RuntimeError(pops) ==
    /\ pc = "slice" /\ SliceGoesOn
    /\ depth' = [depth EXCEPT ![fiber] = Apply(At(@), pops, 0).depth]
    /\ state' = [state EXCEPT ![fiber] = "ERROR"]
    /\ Return("RUNTIME_ERROR")
    /\ effect' = "none"
    /\ UNCHANGED <<ringVars, scanVars, currentFiber, frames, capabilities>>

\* An unknown opcode returns too, but leaves the fiber RUNNING.
UnknownOpcode ==
    /\ pc = "slice" /\ SliceGoesOn
    /\ Return("RUNTIME_ERROR")
    /\ effect' = "none"
    /\ UNCHANGED <<schedVars, depth, frames, capabilities>>

-----------------------------------------------------------------------------
Host ==
    \/ CompileError \/ RunFunction \/ RunFunctionNoMemory
    \/ VmFree \/ VmInit

Loop == NoWork \/ PickBegin \/ PickSkip \/ PickTake \/ PickNone \/ SliceEnd

SpawnInstruction == \E args \in 0..MaxArgs : Spawn(args)

OtherInstruction ==
    \/ \E e \in StackEffect : Operate(e[1], e[2])
    \/ \E args \in 0..PrintMax : InvokeHost("print", args, 0)
    \/ \E op \in OperationId, args \in 0..InvokeMax : InvokeHost(op, args, 1)
    \/ \E name \in RequestNames : CapRequest(name)
    \/ \E args \in 0..MaxArgs : Call(args)
    \/ \E args \in 0..MaxArgs : SpawnNoMemory(args)
    \/ ReturnToCaller \/ ReturnFromFiber \/ Halt \/ Yield
    \/ \E pops \in {0, 2} : RuntimeError(pops)
    \/ UnknownOpcode

Free == VmFreeFiber \/ VmFreeDone

Next == Host \/ Loop \/ SpawnInstruction \/ OtherInstruction \/ Free

Spec == Init /\ [][Next]_vars

\* The loops of the VM run on their own once the host has called them: a
\* call that can take a step takes one.  The host need not call anything.
Fairness == WF_vars(Loop \/ SpawnInstruction \/ OtherInstruction \/ Free)

FairSpec == Spec /\ Fairness

-----------------------------------------------------------------------------
(* Properties. *)

\* scheduler_yield and scheduler_finish_current act on current_fiber, the
\* dispatch loop on its own local: whenever an instruction runs they are the
\* same fiber, although finishing a fiber moves current_fiber back to one
\* that may be RUNNING too.  And current_fiber is never a freed fiber, nor
\* NULL while fibers are linked and no call is about to pick the first:
\* vm_free's loop would never end.
CurrentOK ==
    /\ currentFiber \in Live \cup {NULL}
    /\ pc = "slice" /\ state[fiber] # "COMPLETED" => fiber = currentFiber
    /\ Live # {} /\ pc \in {"idle", "slice", "freeing"} => currentFiber # NULL

\* INTERPRET_OK means that every fiber ended: by finishing, or by dying of a
\* stack error.  No fiber that could still run is left behind.
OkMeansNoWork ==
    pc = "idle" /\ result = "OK" => \A f \in Live : state[f] = "ERROR"

\* An instruction has an effect on the host only if the fiber that executes
\* it holds the capability at that moment, and vm_init was given it: no
\* sequence of requests, spawns and calls lends a fiber the grant of another
\* or one that the VM does not have.  A step within a slice is an instruction.
EffectAllowed ==
    [][pc = "slice" /\ pc' = "slice" /\ effect' # "none"
       => effect' \in capabilities[fiber] \cap DefaultCapabilities]_vars

\* A fiber that died of an error never runs again, in this call of
\* vm_run_function or a later one: it can only be freed.
ErrorIsFinal ==
    [][\A f \in Fibers :
          state[f] = "ERROR" => state'[f] \in {"ERROR", "COMPLETED"}]_vars

\* A runnable fiber is given a slice, unless vm_run_function returns first.
InRun == pc \in {"pick", "scan", "slice"}

EveryFiberRuns ==
    \A f \in Fibers :
        (InRun /\ state[f] \in Runnable) ~> (fiber = f \/ ~InRun)

\* vm_free's loop ends, and with every fiber and its task arena freed.
VmFreeEnds == (pc = "freeing") ~> (pc = "freed" /\ Live = {})
=============================================================================
