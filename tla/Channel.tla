------------------------------ MODULE Channel ------------------------------
(***************************************************************************)
(* obj_chan_create, obj_chan_send and obj_chan_recv of value.c: a ring of  *)
(* CHAN_BUFFER_MAX values.  The arena does not clear what it allocates, so *)
(* a new ring has any values in it.                                        *)
(***************************************************************************)
EXTENDS Naturals, Sequences

CONSTANTS
    Value,
    Capacity        \* CHAN_BUFFER_MAX (256)

ASSUME ChannelCapacityAssumption == Capacity \in Nat \ {0}

VARIABLES buffer, head, tail, chanCount, answer     \* chanCount: the ring's count

chanVars == <<buffer, head, tail, chanCount, answer>>

Slots == 0..(Capacity - 1)

\* Mutant: the ring starts over one slot late.
FollowingLate(i) == IF i = Capacity THEN 0 ELSE i + 1

\* The slot behind slot i.
Following(i) == (i + 1) % Capacity

Failed == [ok |-> FALSE]
SentOk == [ok |-> TRUE]
Received(v) == [ok |-> TRUE, value |-> v]

\* obj_chan_create.
ChannelInit ==
    /\ buffer \in [Slots -> Value]
    /\ head = 0 /\ tail = 0 /\ chanCount = 0
    /\ answer = Failed

\* Mutant: the value received stays the first one, and the last one goes.
RecvAgain ==
    /\ chanCount # 0
    /\ answer' = Received(buffer[head])
    /\ tail' = IF tail = 0 THEN Capacity - 1 ELSE tail - 1
    /\ chanCount' = chanCount - 1
    /\ UNCHANGED <<buffer, head>>

\* obj_chan_send.
SendFull ==
    /\ chanCount >= Capacity
    /\ answer' = Failed
    /\ UNCHANGED <<buffer, head, tail, chanCount>>

Send(v) ==
    /\ chanCount < Capacity
    /\ buffer' = [buffer EXCEPT ![tail] = v]
    /\ tail' = Following(tail)
    /\ chanCount' = chanCount + 1
    /\ answer' = SentOk
    /\ UNCHANGED head

\* obj_chan_recv.
RecvEmpty ==
    /\ chanCount = 0
    /\ answer' = Failed
    /\ UNCHANGED <<buffer, head, tail, chanCount>>

Recv ==
    /\ chanCount # 0
    /\ answer' = Received(buffer[head])
    /\ head' = Following(head)
    /\ chanCount' = chanCount - 1
    /\ UNCHANGED <<buffer, tail>>

ChannelNext == SendFull \/ (\E v \in Value : Send(v)) \/ RecvEmpty \/ Recv

ChannelSpec == ChannelInit /\ [][ChannelNext]_chanVars

-----------------------------------------------------------------------------
ChannelTypeOK ==
    /\ buffer \in [Slots -> Value]
    /\ head \in Slots /\ tail \in Slots
    /\ chanCount \in 0..Capacity

\* The slot of the i-th value in the ring, the first one being 0.
SlotOf(i) == IF head + i < Capacity THEN head + i ELSE head + i - Capacity

RingAgrees == tail = SlotOf(chanCount)

\* The next value goes behind the values that are there: head, tail and
\* count keep their ranges and never disagree, so that a full and an empty
\* ring are told apart, also when the ring has started over.
RingOK == ChannelTypeOK /\ RingAgrees

\* The values that were sent and not yet received.
Queue == [i \in 1..chanCount |-> buffer[SlotOf(i - 1)]]

F == INSTANCE Fifo WITH queue <- Queue

\* The ring is a bounded queue: values come out in the order they went in,
\* each once, whatever was in the ring before.
RefinesFifo == F!FifoSpec
=============================================================================
