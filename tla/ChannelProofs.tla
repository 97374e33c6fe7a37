--------------------------- MODULE ChannelProofs ---------------------------
(***************************************************************************)
(* The ring of a channel is a bounded queue, for every capacity and every  *)
(* set of values.  RingOK is inductive; with it a step of the ring is a    *)
(* step of the queue that Queue reads from it.                             *)
(***************************************************************************)
EXTENDS Channel, SequenceTheorems, TLAPS

(***************************************************************************)
(* The remainder in the C code only ever brings the slot behind the last   *)
(* one back to the first.                                                  *)
(***************************************************************************)
LEMMA FollowingSlot ==
    ASSUME NEW i \in Slots
    PROVE  Following(i) = IF i + 1 = Capacity THEN 0 ELSE i + 1
  BY ChannelCapacityAssumption DEF Following, Slots

(***************************************************************************)
(* Two values in the ring, or a value and the next free slot, are never in *)
(* the same slot.                                                          *)
(***************************************************************************)
LEMMA SlotsApart ==
    ASSUME ChannelTypeOK, NEW i \in 0..(Capacity - 1), NEW j \in 0..(Capacity - 1), i # j
    PROVE  SlotOf(i) \in Slots /\ SlotOf(i) # SlotOf(j)
  BY ChannelCapacityAssumption DEF ChannelTypeOK, Slots, SlotOf

(***************************************************************************)
(* RingOK holds in every state: obj_chan_create starts with an empty ring, *)
(* and obj_chan_send and obj_chan_recv move the end and the start by one   *)
(* slot as they count.                                                     *)
(***************************************************************************)
LEMMA RingInit == ChannelInit => RingOK
  BY ChannelCapacityAssumption DEF ChannelInit, RingOK, ChannelTypeOK, RingAgrees, Slots, SlotOf

LEMMA RingNext == RingOK /\ [ChannelNext]_chanVars => RingOK'
<1> SUFFICES ASSUME ChannelTypeOK, RingAgrees, [ChannelNext]_chanVars PROVE RingOK'
  BY DEF RingOK
<1>1. ASSUME NEW v \in Value, Send(v) PROVE RingOK'
  <2>1. tail' = (IF tail + 1 = Capacity THEN 0 ELSE tail + 1)
    BY <1>1, FollowingSlot DEF Send, ChannelTypeOK
  <2>2. ChannelTypeOK'
    BY <1>1, <2>1, ChannelCapacityAssumption DEF Send, ChannelTypeOK, Slots
  <2>3. RingAgrees'
    BY <1>1, <2>1, ChannelCapacityAssumption DEF Send, ChannelTypeOK, RingAgrees, Slots, SlotOf
  <2> QED BY <2>2, <2>3 DEF RingOK
<1>2. CASE Recv
  <2>1. head' = (IF head + 1 = Capacity THEN 0 ELSE head + 1)
    BY <1>2, FollowingSlot DEF Recv, ChannelTypeOK
  <2>2. ChannelTypeOK'
    BY <1>2, <2>1, ChannelCapacityAssumption DEF Recv, ChannelTypeOK, Slots
  <2>3. RingAgrees'
    BY <1>2, <2>1, ChannelCapacityAssumption DEF Recv, ChannelTypeOK, RingAgrees, Slots, SlotOf
  <2> QED BY <2>2, <2>3 DEF RingOK
<1>3. CASE UNCHANGED <<buffer, head, tail, chanCount>>
  BY <1>3 DEF RingOK, ChannelTypeOK, RingAgrees, Slots, SlotOf
<1> QED BY <1>1, <1>2, <1>3 DEF ChannelNext, SendFull, RecvEmpty, chanVars

\* No index is outside of the ring and no count above its capacity, and
\* head, tail and count always agree, also when the ring has started over.
THEOREM RingCorrect == ChannelSpec => []RingOK
  BY RingInit, RingNext, PTL DEF ChannelSpec

-----------------------------------------------------------------------------
(* The refinement. *)

QueueIsTyped ==
    /\ Queue \in Seq(Value)
    /\ Len(Queue) = chanCount

LEMMA QueueType == ChannelTypeOK => QueueIsTyped
<1> SUFFICES ASSUME ChannelTypeOK PROVE QueueIsTyped
  OBVIOUS
<1>1. \A i \in 1..chanCount : SlotOf(i - 1) \in Slots
  BY ChannelCapacityAssumption DEF ChannelTypeOK, Slots, SlotOf
<1>2. Queue \in [1..chanCount -> Value]
  BY <1>1 DEF ChannelTypeOK, Queue
<1>3. chanCount \in Nat
  BY ChannelCapacityAssumption DEF ChannelTypeOK
<1> QED BY <1>2, <1>3 DEF QueueIsTyped

LEMMA QueueTypeNext == ChannelTypeOK' => QueueIsTyped'
  BY QueueType, PTL

LEMMA SendAppends ==
    ASSUME RingOK, NEW v \in Value, Send(v), RingOK'
    PROVE  Queue' = Append(Queue, v)
<1>1. Queue \in Seq(Value) /\ Len(Queue) = chanCount /\ chanCount \in Nat
  BY QueueType, ChannelCapacityAssumption DEF RingOK, ChannelTypeOK, QueueIsTyped
<1>2. Queue' \in Seq(Value) /\ Len(Queue') = chanCount + 1
  BY QueueTypeNext DEF RingOK, QueueIsTyped, Send
<1>3. \A i \in 1..(chanCount + 1) : Queue'[i] = buffer'[SlotOf(i - 1)]
  BY DEF Queue, Send, SlotOf
<1>4. ASSUME NEW i \in 1..chanCount PROVE Queue'[i] = Queue[i]
  <2>1. SlotOf(i - 1) \in Slots /\ SlotOf(i - 1) # SlotOf(chanCount)
    BY SlotsApart, ChannelCapacityAssumption DEF RingOK, ChannelTypeOK, Send
  <2>2. buffer'[SlotOf(i - 1)] = buffer[SlotOf(i - 1)]
    BY <2>1 DEF RingOK, ChannelTypeOK, RingAgrees, Send
  <2> QED BY <1>1, <1>3, <2>2 DEF Queue
<1>5. Queue'[chanCount + 1] = v
  BY <1>1, <1>3, ChannelCapacityAssumption DEF RingOK, ChannelTypeOK, RingAgrees, Send, Slots
<1>6. /\ Append(Queue, v) \in Seq(Value) /\ Len(Append(Queue, v)) = chanCount + 1
      /\ \A i \in 1..chanCount : Append(Queue, v)[i] = Queue[i]
      /\ Append(Queue, v)[chanCount + 1] = v
  BY <1>1, AppendProperties
<1>7. \A i \in 1..Len(Queue') : Queue'[i] = Append(Queue, v)[i]
  BY <1>1, <1>2, <1>4, <1>5, <1>6
<1> QED BY <1>2, <1>6, <1>7, SeqEqual

LEMMA RecvRemoves ==
    ASSUME RingOK, Recv, RingOK'
    PROVE  Queue # <<>> /\ Queue' = Tail(Queue) /\ buffer[head] = Head(Queue)
<1>1. Queue \in Seq(Value) /\ Len(Queue) = chanCount /\ chanCount \in 1..Capacity
  BY QueueType, ChannelCapacityAssumption DEF RingOK, ChannelTypeOK, QueueIsTyped, Recv
<1>2. Queue' \in Seq(Value) /\ Len(Queue') = chanCount - 1
  BY QueueTypeNext DEF RingOK, QueueIsTyped, Recv
<1>3. head' = (IF head + 1 = Capacity THEN 0 ELSE head + 1)
  BY FollowingSlot DEF Recv, RingOK, ChannelTypeOK
<1>4. ASSUME NEW i \in 1..(chanCount - 1) PROVE Queue'[i] = Queue[i + 1]
  <2>1. SlotOf(i - 1)' = SlotOf(i)
    BY <1>1, <1>3, ChannelCapacityAssumption DEF SlotOf, RingOK, ChannelTypeOK, Slots
  <2>2. Queue'[i] = buffer[SlotOf(i - 1)']
    BY <1>1 DEF Queue, Recv
  <2>3. Queue[i + 1] = buffer[SlotOf(i)]
    BY <1>1 DEF Queue
  <2> QED BY <2>1, <2>2, <2>3
<1>5. Queue # <<>>
  BY <1>1
<1>6. /\ Tail(Queue) \in Seq(Value) /\ Len(Tail(Queue)) = chanCount - 1
      /\ \A i \in 1..(chanCount - 1) : Tail(Queue)[i] = Queue[i + 1]
  BY <1>1, <1>5, HeadTailProperties
<1>7. Queue' = Tail(Queue)
  BY <1>2, <1>4, <1>6, SeqEqual
<1>8. buffer[head] = Queue[1]
  BY <1>1, ChannelCapacityAssumption DEF Queue, SlotOf, RingOK, ChannelTypeOK, Slots
<1> QED BY <1>1, <1>5, <1>7, <1>8

LEMMA StepRefines == RingOK /\ RingOK' /\ [ChannelNext]_chanVars => [F!FifoNext]_<<Queue, answer>>
<1> SUFFICES ASSUME RingOK, RingOK', [ChannelNext]_chanVars PROVE [F!FifoNext]_<<Queue, answer>>
  OBVIOUS
<1>1. Queue \in Seq(Value) /\ Len(Queue) = chanCount /\ (chanCount = 0 => Queue = <<>>)
  BY QueueType DEF RingOK, QueueIsTyped
<1>2. ASSUME NEW v \in Value, Send(v) PROVE F!Enqueue(v)
  BY <1>1, <1>2, SendAppends, ChannelCapacityAssumption
     DEF F!Enqueue, Send, SentOk, F!SentOk, RingOK, ChannelTypeOK
<1>3. CASE Recv
  BY <1>3, RecvRemoves DEF F!FifoNext, F!Dequeue, Recv, Received, F!Received
<1>4. ASSUME UNCHANGED <<buffer, head, tail, chanCount>> PROVE UNCHANGED Queue
  BY <1>4 DEF Queue, SlotOf
<1>5. CASE SendFull \/ RecvEmpty
  BY <1>1, <1>4, <1>5, ChannelCapacityAssumption
     DEF F!FifoNext, F!Refuse, SendFull, RecvEmpty, Failed, F!Failed, RingOK, ChannelTypeOK
<1>6. CASE UNCHANGED chanVars
  BY <1>4, <1>6 DEF chanVars
<1> QED BY <1>2, <1>3, <1>5, <1>6 DEF ChannelNext, F!FifoNext

LEMMA InitRefines == ChannelInit => F!FifoInit
  BY DEF ChannelInit, F!FifoInit, Queue, Failed, F!Failed

\* A channel is a bounded queue: what is received is what was sent, in that
\* order and once, and only a full or an empty ring refuses.
THEOREM ChannelRefinesFifo == ChannelSpec => RefinesFifo
  BY InitRefines, StepRefines, RingCorrect, PTL DEF ChannelSpec, RefinesFifo, F!FifoSpec
=============================================================================
