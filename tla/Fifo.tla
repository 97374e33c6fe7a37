------------------------------- MODULE Fifo --------------------------------
(***************************************************************************)
(* What a channel promises: a queue of at most Capacity values.  A send    *)
(* to a full queue and a receive from an empty one fail and change         *)
(* nothing; a receive gives the value that was sent first.                 *)
(***************************************************************************)
EXTENDS Naturals, Sequences

CONSTANTS Value, Capacity

VARIABLES
    queue,
    answer          \* what the last call gave its caller

Failed == [ok |-> FALSE]
SentOk == [ok |-> TRUE]
Received(v) == [ok |-> TRUE, value |-> v]

FifoInit == queue = <<>> /\ answer = Failed

Enqueue(v) ==
    /\ Len(queue) < Capacity
    /\ queue' = Append(queue, v)
    /\ answer' = SentOk

Dequeue ==
    /\ queue # <<>>
    /\ queue' = Tail(queue)
    /\ answer' = Received(Head(queue))

Refuse ==
    /\ queue = <<>> \/ Len(queue) = Capacity
    /\ answer' = Failed
    /\ UNCHANGED queue

FifoNext == (\E v \in Value : Enqueue(v)) \/ Dequeue \/ Refuse

FifoSpec == FifoInit /\ [][FifoNext]_<<queue, answer>>
=============================================================================
