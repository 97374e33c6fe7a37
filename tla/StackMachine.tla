---------------------------- MODULE StackMachine ----------------------------
(***************************************************************************)
(* vm.c again, with what FiberVM leaves out: the bytecode, the values on   *)
(* the fibers' stacks, the globals and what is printed.  The ring of       *)
(* fibers is FiberScheduler's.  Memory never runs out here, and the host   *)
(* runs one program: FiberVM has the failing allocations, the repeated     *)
(* runs and vm_free.  Every step of this machine is a step FiberVM allows. *)
(***************************************************************************)
EXTENDS FiberScheduler, Values, Capabilities, SequencesExt

CONSTANTS
    StackMax,               \* FIBER_STACK_MAX (2048)
    FramesMax,              \* FIBER_FRAMES_MAX (256)
    SliceBudget,            \* instruction_budget (1000)
    GlobalsMax,             \* VM_MAX_GLOBALS (512)
    PrintMax,               \* what OP_PRINT has room for: RdxValue args[32]
    InvokeMax,              \* what OP_CAP_INVOKE has room for: RdxValue args[16]
    FileTexts,              \* what a file of the host may hold
    DefaultCapabilities     \* what the host gave vm_init

ASSUME StackMaxAssumption == StackMax \in Nat \ {0}
ASSUME FramesMaxAssumption == FramesMax \in Nat \ {0}
ASSUME SliceBudgetAssumption == SliceBudget \in Nat \ {0}
ASSUME ArgumentsAssumption == PrintMax \in Nat /\ InvokeMax \in Nat
ASSUME DefaultCapabilitiesAssumption == DefaultCapabilities \subseteq Capability

VARIABLES
    program,        \* the functions of the program; the last one is main
    pc,             \* "idle", "pick", "scan" or "slice", as in FiberVM
    fiber,          \* the fiber whose slice runs, or NULL
    budget,         \* what is left of instruction_budget
    stack,          \* the values on each fiber's stack
    frames,         \* each fiber's call frames: function, ip, and slots as an index
    capabilities,   \* fiber->capabilities
    fiberId,        \* fiber->fiber_id
    nextFiberId,    \* sched->next_fiber_id
    globals,        \* the globals in order of definition: name and value
    output,         \* what was printed: the fiber's id and the values
    effect,         \* the host effect of the last instruction
    result,         \* what vm_run_function returned
    failure         \* the run-time error it returned with, or "none"

idVars == <<fiberId, nextFiberId>>
fiberVars == <<stack, frames, capabilities, idVars>>
loopVars == <<pc, fiber, budget>>
hostVars == <<globals, output, effect, result, failure>>
machineVars == <<schedVars, program, loopVars, fiberVars, hostVars>>

MachineInit ==
    /\ SchedulerInit
    /\ program = <<>>
    /\ pc = "idle" /\ fiber = NULL /\ budget = 0
    /\ stack = [f \in Fibers |-> <<>>]
    /\ frames = [f \in Fibers |-> <<>>]
    /\ capabilities = [f \in Fibers |-> {}]
    /\ fiberId = [f \in Fibers |-> 0]
    /\ nextFiberId = 1
    /\ globals = <<>>
    /\ output = <<>>
    /\ effect = "none" /\ result = "NONE" /\ failure = "none"

-----------------------------------------------------------------------------
(* fiber_push, fiber_pop and fiber_peek on a stack with its ok flag. *)

Stack(values) == [values |-> values, ok |-> TRUE]
Depth(s) == Len(s.values)
Push(s, v) ==
    IF Depth(s) >= StackMax THEN [s EXCEPT !.ok = FALSE]
    ELSE [s EXCEPT !.values = Append(@, v)]
Pop(s) ==
    IF s.values = <<>> THEN [s EXCEPT !.ok = FALSE] ELSE [s EXCEPT !.values = Front(@)]
Popped(s) == IF s.values = <<>> THEN NilVal ELSE Last(s.values)
\* n pops, the last ones of an empty stack if there are fewer values.
PopN(s, n) ==
    IF n <= Depth(s) THEN [s EXCEPT !.values = SubSeq(@, 1, Len(@) - n)]
    ELSE [s EXCEPT !.values = <<>>, !.ok = FALSE]

\* fiber_peek reads the stack at a distance from the top.  It checks nothing:
\* below the bottom of the stack there is nothing a program may rely on.
Peek(s, distance) ==
    IF distance < Depth(s) THEN s.values[Depth(s) - distance] ELSE NilVal

Running == stack[fiber]
Top == Stack(Running)

\* The frame that runs, its code and its next instruction.
Frame == Last(frames[fiber])
Instruction == program[Frame.fn].code[Frame.ip]
Slot(n) == Frame.slots + n + 1

\* fiber_free drops the task arena of a fiber that finishes, whoever still
\* holds a string of it.  What is read there then is what the fiber left, or
\* what the memory was reused for: any other string, "" for all of them.  The
\* length, which may be wrong as well, is left out.
Dropped(v) == v.tag = "str" /\ v.home # 0 /\ \A f \in Live : fiberId[f] # v.home
Reuse == IF \E v \in Range(Running) : Dropped(v) THEN BOOLEAN ELSE {FALSE}
Found(v, reused) == IF reused /\ Dropped(v) THEN StrVal("") ELSE v

-----------------------------------------------------------------------------
(* Globals: vm_set_global and vm_get_global. *)

GlobalIndex(name) == SelectInSeq(globals, LAMBDA g : g.name = name)

\* A global that does not fit is dropped without an error.
SetGlobal(name, v) ==
    IF GlobalIndex(name) # 0 THEN [globals EXCEPT ![GlobalIndex(name)].value = v]
    ELSE IF Len(globals) < GlobalsMax THEN Append(globals, [name |-> name, value |-> v])
    ELSE globals

-----------------------------------------------------------------------------
(* The loop of vm_run_function. *)

\* scheduler_spawn and fiber_init: slot 0 of a new fiber's stack holds its
\* function.  Which free object the arena gives does not matter.
NewFiber == CHOOSE f \in Fibers : f \notin Live

SpawnFiber(f, fn, caps) ==
    /\ SchedulerSpawn(f)
    /\ state' = [state EXCEPT ![f] = "READY"]
    /\ frames' = [frames EXCEPT ![f] = <<[fn |-> fn, ip |-> 1, slots |-> 0]>>]
    /\ capabilities' = [capabilities EXCEPT ![f] = caps]
    /\ fiberId' = [fiberId EXCEPT ![f] = nextFiberId]
    /\ nextFiberId' = nextFiberId + 1

Return(r) == pc' = "idle" /\ fiber' = NULL /\ budget' = 0 /\ result' = r

RunFunction(fns) ==
    /\ pc = "idle" /\ result = "NONE"
    /\ program' = fns
    /\ SpawnFiber(NewFiber, Len(fns), DefaultCapabilities)
    /\ stack' = [stack EXCEPT ![NewFiber] = <<FnVal(Len(fns))>>]
    /\ pc' = "pick" /\ effect' = "none"
    /\ UNCHANGED <<fiber, budget, globals, output, result, failure>>

\* vm_interpret_source returns before there is a function to run.
CompileError ==
    /\ pc = "idle" /\ result = "NONE"
    /\ result' = "COMPILE_ERROR" /\ effect' = "none"
    /\ UNCHANGED <<schedVars, program, loopVars, fiberVars, globals, output, failure>>

NoWork ==
    /\ pc = "pick" /\ fiberCount = 0
    /\ Return("OK")
    /\ UNCHANGED <<schedVars, program, fiberVars, globals, output, effect, failure>>

PickBegin ==
    /\ pc = "pick" /\ fiberCount > 0
    /\ ScanBegin
    /\ pc' = "scan"
    /\ UNCHANGED <<program, fiber, budget, fiberVars, hostVars>>

PickSkip ==
    /\ pc = "scan"
    /\ ScanAdvance
    /\ UNCHANGED <<program, loopVars, fiberVars, hostVars>>

PickTake ==
    /\ pc = "scan"
    /\ ScanTake
    /\ pc' = "slice" /\ fiber' = scanCurr /\ budget' = SliceBudget
    /\ UNCHANGED <<program, fiberVars, hostVars>>

PickNone ==
    /\ pc = "scan"
    /\ ScanFail
    /\ Return("OK")
    /\ UNCHANGED <<program, fiberVars, globals, output, effect, failure>>

SliceGoesOn == budget > 0 /\ state[fiber] = "RUNNING"

SliceEnd ==
    /\ pc = "slice" /\ ~SliceGoesOn
    /\ pc' = "pick" /\ fiber' = NULL /\ budget' = 0
    /\ UNCHANGED <<schedVars, program, fiberVars, hostVars>>

-----------------------------------------------------------------------------
(* The instructions. *)

\* A chunk is left by RETURN and HALT: nothing is known of what is behind
\* its end.
Fetch(ops) ==
    /\ pc = "slice" /\ SliceGoesOn
    /\ Frame.fn \in DOMAIN program /\ Frame.ip \in DOMAIN program[Frame.fn].code
    /\ Instruction.op \in ops
    /\ UNCHANGED program

\* Mutant: the slice never ends.
SpendNothing == UNCHANGED <<budget, pc, fiber>>

\* What every instruction that goes on spends.
Spend == budget' = budget - 1 /\ UNCHANGED <<pc, fiber>>

\* The stack becomes s; a push or pop that failed is FIBER_ERROR, no more.
SetStack(s) ==
    /\ stack' = [stack EXCEPT ![fiber] = s.values]
    /\ state' = IF s.ok THEN state ELSE [state EXCEPT ![fiber] = "ERROR"]

JumpTo(ip) == frames' = [frames EXCEPT ![fiber][Len(frames[fiber])].ip = ip]
StepOver == JumpTo(Frame.ip + 1)

SameRing == UNCHANGED <<ringVars, scanVars, currentFiber>>
SameHost == effect' = "none" /\ UNCHANGED <<output, result, failure>>

\* An instruction that only changes the stack.
Operate(s) ==
    /\ SetStack(s) /\ Spend /\ StepOver /\ SameRing /\ SameHost
    /\ UNCHANGED <<capabilities, idVars, globals>>

Literal == [NIL |-> NilVal, TRUE |-> BoolVal(TRUE), FALSE |-> BoolVal(FALSE)]

PushConstant ==
    /\ Fetch({"CONSTANT", "NIL", "TRUE", "FALSE"})
    /\ Operate(Push(Top, IF Instruction.op = "CONSTANT" THEN Instruction.val
                         ELSE Literal[Instruction.op]))

PopTop == Fetch({"POP"}) /\ Operate(Pop(Top))

Duplicate == Fetch({"DUP"}) /\ Operate(Push(Top, Peek(Top, 0)))

\* frame->slots[slot] may lie at or above the stack's top, where the memory
\* holds what was left there: a value of each kind stands for all of them.
\* Compiled code does not ask.
Leftover == {NilVal, BoolVal(TRUE), IntVal(1), StrVal(""), FnVal(1)}
LocalValues(slot) == IF slot <= Depth(Top) THEN {Running[slot]} ELSE Leftover

GetLocal ==
    /\ Fetch({"GET_LOCAL"})
    /\ \E v \in LocalValues(Slot(Instruction.slot)) : Operate(Push(Top, v))

\* Above the top a local is written to the unused part of the stack array.
\* Behind the array lies other memory of the machine: that is no step here.
SetLocal ==
    /\ Fetch({"SET_LOCAL"})
    /\ Slot(Instruction.slot) <= StackMax
    /\ Operate(IF Slot(Instruction.slot) > Depth(Top) THEN Top
               ELSE [Top EXCEPT !.values[Slot(Instruction.slot)] = Peek(Top, 0)])

DefineGlobal ==
    /\ Fetch({"DEFINE_GLOBAL"})
    /\ SetStack(Pop(Top)) /\ globals' = SetGlobal(Instruction.name, Popped(Top))
    /\ Spend /\ StepOver /\ SameRing /\ SameHost
    /\ UNCHANGED <<capabilities, idVars>>

SetGlobalVariable ==
    /\ Fetch({"SET_GLOBAL"})
    /\ globals' = SetGlobal(Instruction.name, Peek(Top, 0))
    /\ Spend /\ StepOver /\ SameRing /\ SameHost
    /\ UNCHANGED <<state, stack, capabilities, idVars>>

GetGlobal ==
    /\ Fetch({"GET_GLOBAL"}) /\ GlobalIndex(Instruction.name) # 0
    /\ Operate(Push(Top, globals[GlobalIndex(Instruction.name)].value))

PushResults(s, results) == IF results = <<>> THEN s ELSE Push(s, results[1])

Operator == ArithmeticOp \cup CompareOp \cup BitOps \cup {"%", "==", "!="}
Right == Peek(Top, 0)
Left == Peek(Top, 1)

\* Mutant: the arena of the fiber spawned last.
PlacedWithChild(v) == IF v.tag = "str" THEN [v EXCEPT !.home = nextFiberId - 1] ELSE v

\* OP_ADD puts a string together in the task arena of its fiber.
Placed(v) == IF v.tag = "str" THEN [v EXCEPT !.home = fiberId[fiber]] ELSE v

BinaryOperator ==
    /\ Fetch(Operator)
    /\ FALSE \in MayDivideByZero(Instruction.op, Right)
    /\ \E reused \in Reuse :
          \E results \in BinaryResults(Instruction.op, Found(Left, reused), Found(Right, reused)) :
              Operate(PushResults(PopN(Top, 2), [i \in DOMAIN results |-> Placed(results[i])]))

UnaryInstruction(op) == IF op = "NEG" THEN "-" ELSE op

UnaryOperator ==
    /\ Fetch({"NEG", "not", "~"})
    /\ \E reused \in Reuse :
          \E results \in UnaryResults(UnaryInstruction(Instruction.op), Found(Right, reused)) :
              Operate(PushResults(Pop(Top), results))

Jump ==
    /\ Fetch({"JUMP", "LOOP"})
    /\ JumpTo(Instruction.target)
    /\ Spend /\ SameRing /\ SameHost
    /\ UNCHANGED <<state, stack, capabilities, idVars, globals>>

JumpIfFalse ==
    /\ Fetch({"JUMP_IF_FALSE"})
    /\ \E reused \in Reuse : \E t \in ValueIsTruthy(Found(Peek(Top, 0), reused)) :
          JumpTo(IF t THEN Frame.ip + 1 ELSE Instruction.target)
    /\ Spend /\ SameRing /\ SameHost
    /\ UNCHANGED <<state, stack, capabilities, idVars, globals>>

\* What OP_CALL and OP_SPAWN find below their arguments.
Callee == Peek(Top, Instruction.count)
Callable == Callee.tag = "fn"
ArityFits == Callable /\ program[Callee.fn].arity = Instruction.count

\* The stack without the callee and its arguments.
BelowCallee == Stack(SubSeq(Running, 1, Depth(Top) - Instruction.count - 1))

CallFunction ==
    /\ Fetch({"CALL"}) /\ ArityFits /\ Len(frames[fiber]) < FramesMax
    /\ LET own == frames[fiber]
           callee == [fn |-> Callee.fn, ip |-> 1, slots |-> Depth(BelowCallee)]
       IN  frames' = [frames EXCEPT ![fiber] = Append([own EXCEPT ![Len(own)].ip = @ + 1], callee)]
    /\ Spend /\ SameRing /\ SameHost
    /\ UNCHANGED <<state, stack, capabilities, idVars, globals>>

\* OP_RETURN to a caller: stack_top goes back to where the callee was.  If a
\* callee popped more than its own, that is up, over what was left there.
BackTo(slots, left) == [i \in 1..slots |-> IF i <= Depth(Top) THEN Running[i] ELSE left]

ReturnToCaller ==
    /\ Fetch({"RETURN"}) /\ Len(frames[fiber]) > 1
    /\ \E left \in IF Frame.slots > Depth(Top) THEN Leftover ELSE {NilVal} :
          SetStack(Push([Pop(Top) EXCEPT !.values = BackTo(Frame.slots, left)], Popped(Top)))
    /\ frames' = [frames EXCEPT ![fiber] = Front(@)]
    /\ Spend /\ SameRing /\ SameHost
    /\ UNCHANGED <<capabilities, idVars, globals>>

\* OP_RETURN of a fiber's own function, and OP_HALT.
FinishFiber ==
    /\ \/ Fetch({"RETURN"}) /\ Len(frames[fiber]) = 1
       \/ Fetch({"HALT"})
    /\ SchedulerFinishCurrent
    /\ stack' = [stack EXCEPT ![currentFiber] = <<>>]
    /\ frames' = [frames EXCEPT ![currentFiber] = <<>>]
    /\ capabilities' = [capabilities EXCEPT ![currentFiber] = {}]
    /\ Spend /\ SameHost
    /\ UNCHANGED <<idVars, globals>>

\* ffi_invoke(op, args) gets as far as the host: the fiber that runs has the
\* capability, and the arguments the operation needs are there and strings.
StringArgs == [print |-> 0, file_read |-> 1, file_write |-> 2]
ReachesHost(op, args) ==
    /\ op \in FfiOperation
    /\ CapHasPermission(capabilities[fiber], {FfiRequires(op)})
    /\ \A i \in 1..StringArgs[op] : i \in DOMAIN args /\ args[i].tag = "str"

\* What it does there, and what it may return: nil wherever it fails, what a
\* file holds as a string of the fiber, and whether a file was written.
AskHost(op, args) ==
    /\ effect' = IF ReachesHost(op, args) THEN FfiRequires(op) ELSE "none"
    /\ output' = IF op = "print" /\ ReachesHost(op, args)
                 THEN Append(output, [by |-> fiberId[fiber],
                                      values |-> [i \in DOMAIN args |-> Bare(args[i])]])
                 ELSE output

Answers(op, args) ==
    CASE ReachesHost(op, args) /\ op = "file_read" ->
            {NilVal} \cup {Placed(StrVal(text)) : text \in FileTexts}
      [] ReachesHost(op, args) /\ op = "file_write" -> {BoolVal(TRUE), BoolVal(FALSE)}
      [] OTHER -> {NilVal}

\* The arguments, popped from the last to the first.
Arguments(reused) ==
    [i \in 1..Instruction.count |-> Found(Peek(Top, Instruction.count - i), reused)]

\* OP_PRINT drops the answer of ffi_invoke, OP_CAP_INVOKE pushes it.
PrintValues ==
    /\ Fetch({"PRINT"})
    /\ \E reused \in Reuse : AskHost("print", Arguments(reused))
    /\ SetStack(PopN(Top, Instruction.count))
    /\ Spend /\ StepOver /\ SameRing
    /\ UNCHANGED <<capabilities, idVars, globals, result, failure>>

InvokeCapability ==
    /\ Fetch({"CAP_INVOKE"})
    /\ \E reused \in Reuse :
          /\ AskHost(Instruction.operation, Arguments(reused))
          /\ \E v \in Answers(Instruction.operation, Arguments(reused)) :
                SetStack(Push(PopN(Top, Instruction.count), v))
    /\ Spend /\ StepOver /\ SameRing
    /\ UNCHANGED <<capabilities, idVars, globals, result, failure>>

\* OP_SPAWN: the arguments are copied to the new fiber, behind its function.
SpawnFunction ==
    /\ Fetch({"SPAWN"}) /\ ArityFits
    /\ LET f == NewFiber
           args == SubSeq(Running, Depth(BelowCallee) + 2, Depth(Top))
       IN  /\ SchedulerSpawn(f)
           /\ state' = [state EXCEPT ![f] = "READY"]
           /\ frames' = [frames EXCEPT ![f] = <<[fn |-> Callee.fn, ip |-> 1, slots |-> 0]>>,
                                       ![fiber][Len(frames[fiber])].ip = @ + 1]
           /\ capabilities' = [capabilities EXCEPT ![f] = capabilities[fiber]]
           /\ fiberId' = [fiberId EXCEPT ![f] = nextFiberId]
           /\ stack' = [stack EXCEPT ![f] = <<Callee>> \o args,
                                     ![fiber] = Push(BelowCallee, IntVal(nextFiberId)).values]
    /\ nextFiberId' = nextFiberId + 1
    /\ Spend /\ SameHost
    /\ UNCHANGED globals

YieldFiber ==
    /\ Fetch({"YIELD"})
    /\ SchedulerYield
    /\ Spend /\ StepOver /\ SameHost
    /\ UNCHANGED <<stack, capabilities, idVars, globals>>

\* OP_CAP_REQ: granted when the VM has every bit of the name.
RequestCapability ==
    /\ Fetch({"CAP_REQ"})
    /\ LET bits == CapParseName(Instruction.name)
           granted == CapHasPermission(DefaultCapabilities, bits)
       IN  /\ SetStack(Push(Top, IF granted THEN CapVal(bits) ELSE NilVal))
           /\ capabilities' = IF granted THEN [capabilities EXCEPT ![fiber] = @ \cup bits]
                              ELSE capabilities
    /\ Spend /\ StepOver /\ SameRing /\ SameHost
    /\ UNCHANGED <<idVars, globals>>

\* The explicit run-time errors: the fiber is marked, and vm_run_function
\* returns at once.
Fail(why, pops) ==
    /\ stack' = [stack EXCEPT ![fiber] = PopN(Top, pops).values]
    /\ state' = [state EXCEPT ![fiber] = "ERROR"]
    /\ Return("RUNTIME_ERROR")
    /\ failure' = why
    /\ effect' = "none"
    /\ SameRing
    /\ UNCHANGED <<frames, capabilities, idVars, globals, output>>

RuntimeError ==
    \/ Fetch({"GET_GLOBAL"}) /\ GlobalIndex(Instruction.name) = 0 /\ Fail("undefined", 0)
    \/ /\ Fetch(Operator) /\ TRUE \in MayDivideByZero(Instruction.op, Right)
       /\ Fail("zero", 2)
    \/ Fetch({"CALL", "SPAWN"}) /\ ~Callable /\ Fail("callee", 0)
    \/ Fetch({"CALL", "SPAWN"}) /\ Callable /\ ~ArityFits /\ Fail("arity", 0)
    \/ /\ Fetch({"CALL"}) /\ ArityFits /\ Len(frames[fiber]) >= FramesMax
       /\ Fail("frames", 0)

\* A byte that is no opcode ends the run, and leaves its fiber RUNNING.
UnknownOpcode ==
    /\ Fetch({"UNKNOWN"})
    /\ Return("RUNTIME_ERROR")
    /\ failure' = "opcode"
    /\ effect' = "none"
    /\ UNCHANGED <<schedVars, fiberVars, globals, output>>

Loop == NoWork \/ PickBegin \/ PickSkip \/ PickTake \/ PickNone \/ SliceEnd

Execute ==
    \/ PushConstant \/ PopTop \/ Duplicate \/ GetLocal \/ SetLocal
    \/ DefineGlobal \/ SetGlobalVariable \/ GetGlobal
    \/ BinaryOperator \/ UnaryOperator \/ Jump \/ JumpIfFalse
    \/ CallFunction \/ ReturnToCaller \/ FinishFiber \/ PrintValues \/ InvokeCapability
    \/ SpawnFunction \/ YieldFiber \/ RequestCapability \/ RuntimeError \/ UnknownOpcode

MachineNext == Loop \/ Execute

\* The count of an instruction is a byte of the chunk.  A stack has room for
\* more values than that; the args of OP_PRINT and OP_CAP_INVOKE have not, and
\* nothing checks: more of them would be written over the C stack.  Each
\* constant that an instruction names is in the chunk and of the kind the
\* instruction expects.
OperandsFit(fns) ==
    \A fn \in DOMAIN fns : \A ip \in DOMAIN fns[fn].code :
        LET instruction == fns[fn].code[ip]
        IN  /\ instruction.op \in {"CALL", "SPAWN"} => instruction.count \in 0..StackMax - 1
            /\ instruction.op = "PRINT" => instruction.count \in 0..PrintMax
            /\ instruction.op = "CAP_INVOKE" =>
                  instruction.operation \in OperationId /\ instruction.count \in 0..InvokeMax

\* The host runs any bytecode with such operands: nothing depends on what the
\* compiler emits.  Bytecode that runs or jumps out of its chunk, or writes a
\* local behind the stack array, takes no step there.
HostCall == CompileError \/ \E fns : OperandsFit(fns) /\ RunFunction(fns)

MachineSpec == MachineInit /\ [][HostCall \/ MachineNext]_machineVars

-----------------------------------------------------------------------------
(* The machine is one that FiberVM allows: a stack is its depth, a frame   *)
(* its first slot.                                                         *)

VM == INSTANCE FiberVM WITH
          depth <- [f \in Fibers |-> Len(stack[f])],
          frames <- [f \in Fibers |-> [i \in DOMAIN frames[f] |-> frames[f][i].slots]],
          MaxArgs <- StackMax - 1,
          RequestNames <- (Capability \ {"other"}) \cup {"stdio", "file", "net", "all", "unknown"}

\* Whatever bytecode runs, the fibers, stacks, frames, capabilities and host
\* effects of vm.c take the steps that FiberVM has for them and no others:
\* what holds of FiberVM holds of the machine that executes programs.
RefinesFiberVM == VM!Spec
=============================================================================
