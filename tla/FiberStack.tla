----------------------------- MODULE FiberStack -----------------------------
(***************************************************************************)
(* fiber.c: the value stack of one fiber, as its depth (stack_top - stack) *)
(* and whether a push or a pop has failed since `ok` was last set.  Values *)
(* are abstracted: what they are does not decide where the stack top is.   *)
(***************************************************************************)
EXTENDS Naturals

CONSTANT StackMax       \* FIBER_STACK_MAX (2048)

ASSUME StackMaxAssumption == StackMax \in Nat \ {0}

Stack == [depth : 0..StackMax, ok : BOOLEAN]

At(depth) == [depth |-> depth, ok |-> TRUE]

\* fiber_push: a full stack drops the value and marks the fiber FIBER_ERROR.
FiberPush(s) ==
    IF s.depth >= StackMax THEN [s EXCEPT !.ok = FALSE]
    ELSE [s EXCEPT !.depth = s.depth + 1]

\* fiber_pop: an empty stack gives nil and marks the fiber FIBER_ERROR.
FiberPop(s) ==
    IF s.depth = 0 THEN [s EXCEPT !.ok = FALSE]
    ELSE [s EXCEPT !.depth = s.depth - 1]

\* A loop of n pops: too few values leave the stack empty and the fiber in
\* FIBER_ERROR.
PopMany(s, n) ==
    IF s.depth >= n THEN [s EXCEPT !.depth = s.depth - n]
    ELSE [s EXCEPT !.depth = 0, !.ok = FALSE]

\* The stack after an instruction that pops `pops` values (two at most) and
\* then pushes `pushes` (one at most).
Apply(s, pops, pushes) ==
    LET p1 == IF pops >= 1 THEN FiberPop(s) ELSE s
        p2 == IF pops >= 2 THEN FiberPop(p1) ELSE p1
    IN  IF pushes = 1 THEN FiberPush(p2) ELSE p2
=============================================================================
