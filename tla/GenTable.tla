------------------------------ MODULE GenTable ------------------------------
(***************************************************************************)
(* gen_ref.c: the table of generational references.  A slot carries a      *)
(* generation that each free increments, so that the references issued     *)
(* before it no longer match.  free_list is a stack of slot numbers that   *)
(* grows downward: what lies at free_head and above is free.               *)
(***************************************************************************)
EXTENDS Integers, FiniteSets

CONSTANTS
    InitialCapacity,    \* the capacity given to gen_table_init
    MaxCapacity,        \* bound: the table does not grow beyond it
    GenModulus,         \* 2^32: generations are u32
    Objects,            \* the pointers stored in the table
    Tags,               \* type tags of objects
    ANY,                \* the tag 0, for "any type"
    NULL

ASSUME CapacityAssumption ==
    /\ InitialCapacity \in Nat \ {0}
    /\ MaxCapacity \in Nat
    /\ InitialCapacity <= MaxCapacity
ASSUME GenModulusAssumption == GenModulus \in Nat /\ GenModulus > 1
ASSUME TagsAssumption == ANY \notin Tags
ASSUME NullAssumption == NULL \notin Objects

VARIABLES
    capacity,
    count,
    freeHead,
    slots,
    freeList,
    retired,    \* history: the references gen_table_free_slot has retired
    out         \* what the last call returned

vars == <<capacity, count, freeHead, slots, freeList, retired, out>>

Indices == 0..(capacity - 1)

Slot == [ptr : Objects \cup {NULL}, generation : 0..(GenModulus - 1),
         tag : Tags \cup {ANY}, alive : BOOLEAN]

\* A zeroed slot, as gen_table_init and an expansion set it up.
FreshSlot == [ptr |-> NULL, generation |-> 1, tag |-> ANY, alive |-> FALSE]

GenRef == [slot : Nat, generation : 0..(GenModulus - 1)]

AliveSlots == {i \in Indices : slots[i].alive}

RefTo(i) == [slot |-> i, generation |-> slots[i].generation]

\* Mutants of IsValid: one forgets the generation, one is_alive.
IsValidAnyGeneration(ref) ==
    /\ ref.slot < capacity
    /\ slots[ref.slot].alive

IsValidDeadOrAlive(ref) ==
    /\ ref.slot < capacity
    /\ slots[ref.slot].generation = ref.generation

\* gen_table_is_valid.
IsValid(ref) ==
    /\ ref.slot < capacity
    /\ slots[ref.slot].alive
    /\ slots[ref.slot].generation = ref.generation

TypeOK ==
    /\ capacity \in Nat \ {0}
    /\ count \in Nat
    /\ freeHead \in 0..capacity
    /\ slots \in [Indices -> Slot]
    /\ freeList \in [Indices -> Indices]
    /\ retired \subseteq GenRef

Init ==
    /\ capacity = InitialCapacity
    /\ count = 0
    /\ freeHead = 0
    /\ slots = [i \in Indices |-> FreshSlot]
    /\ freeList = [i \in Indices |-> i]
    /\ retired = {}
    /\ out = <<"nothing", NULL>>

\* The first half of gen_table_insert: a full table is doubled.  The old
\* arrays stay behind in the arena.
IsFull == freeHead >= capacity

NewCapacity == IF IsFull THEN 2 * capacity ELSE capacity

ExpandedSlots ==
    [i \in 0..(NewCapacity - 1) |->
        IF i < capacity THEN slots[i] ELSE FreshSlot]

ExpandedFreeList ==
    [i \in 0..(NewCapacity - 1) |-> IF i < capacity THEN freeList[i] ELSE i]

\* gen_table_insert.
Insert(ptr, tag) ==
    /\ NewCapacity <= MaxCapacity
    /\ capacity' = NewCapacity
    /\ freeList' = ExpandedFreeList
    /\ LET i == ExpandedFreeList[freeHead]
       IN  /\ slots' = [ExpandedSlots EXCEPT ![i].ptr = ptr, ![i].tag = tag,
                                             ![i].alive = TRUE]
           /\ out' = <<"ref", [slot |-> i, generation |-> ExpandedSlots[i].generation]>>
    /\ freeHead' = freeHead + 1
    /\ count' = count + 1
    /\ UNCHANGED retired

\* gen_table_get.
Lookup(ref, expected) ==
    IF IsValid(ref) /\ expected \in {ANY, slots[ref.slot].tag}
    THEN slots[ref.slot].ptr ELSE NULL

Get(ref, expected) ==
    /\ out' = <<"object", Lookup(ref, expected)>>
    /\ UNCHANGED <<capacity, count, freeHead, slots, freeList, retired>>

\* gen_table_free_slot.
FreeRefused(ref) ==
    /\ ~IsValid(ref)
    /\ out' = <<"freed", FALSE>>
    /\ UNCHANGED <<capacity, count, freeHead, slots, freeList, retired>>

\* Mutants: the generation stays; the free list is pushed without moving
\* its head first.
SameGeneration(g) == g
PushAtHead == freeHead

\* slot->generation++ and --free_head.
NextGeneration(g) == (g + 1) % GenModulus
PushAt == freeHead - 1

FreeAccepted(ref) ==
    /\ IsValid(ref)
    /\ slots' = [slots EXCEPT ![ref.slot].alive = FALSE,
                              ![ref.slot].generation = NextGeneration(@),
                              ![ref.slot].ptr = NULL]
    /\ freeList' = [freeList EXCEPT ![PushAt] = ref.slot]
    /\ freeHead' = freeHead - 1
    /\ count' = count - 1
    /\ retired' = retired \cup {ref}
    /\ out' = <<"freed", TRUE>>
    /\ UNCHANGED capacity

\* References callers may present: any they were given, any other slot
\* number up to the first beyond the largest table, any
\* generation.
Presented == [slot : 0..MaxCapacity, generation : 0..(GenModulus - 1)]

Next ==
    \/ \E ptr \in Objects, tag \in Tags : Insert(ptr, tag)
    \/ \E ref \in Presented :
        \/ \E expected \in Tags \cup {ANY} : Get(ref, expected)
        \/ FreeRefused(ref)
        \/ FreeAccepted(ref)

Spec == Init /\ [][Next]_vars

\* The table as long as no slot is freed for the (2^32 - 1)th time.
NoWrap == \A i \in Indices : slots'[i].generation >= slots[i].generation

SpecUntilWrap == Init /\ [][Next /\ NoWrap]_vars

-----------------------------------------------------------------------------
(* Properties. *)

\* The free part of free_list names every free slot exactly once, and
\* free_head and count are the number of slots in use: a slot in the list
\* twice would be given to two objects, one in neither would be lost.
FreeListOK ==
    /\ \A i \in freeHead..(capacity - 1) : ~slots[freeList[i]].alive
    /\ \A i, j \in freeHead..(capacity - 1) : freeList[i] = freeList[j] => i = j
    /\ \A s \in Indices \ AliveSlots :
          \E i \in freeHead..(capacity - 1) : freeList[i] = s
    /\ freeHead = Cardinality(AliveSlots)
    /\ count = freeHead

\* A reference that was freed is never valid again.
StaleNeverValid == \A ref \in retired : ~IsValid(ref)

\* Until a generation wraps, the table is the abstract one: a reference
\* names its own object from its insert to its free, and no other ever.
NamedEntries ==
    [ref \in {RefTo(i) : i \in AliveSlots} |->
        [ptr |-> slots[ref.slot].ptr, tag |-> slots[ref.slot].tag]]

Handles == INSTANCE HandleTable WITH Refs <- Presented, live <- NamedEntries

ImplementsHandles == Handles!Spec
=============================================================================
