---------------------------- MODULE GenTableProofs --------------------------
(***************************************************************************)
(* gen_ref.c for every table: the free list never loses or repeats a slot, *)
(* and until a generation wraps a freed reference is never valid again and *)
(* the table is a HandleTable.                                             *)
(***************************************************************************)
EXTENDS GenTable, FiniteSetTheorems, TLAPS

\* The increment of a u32.
LEMMA Increment ==
  ASSUME NEW g \in 0..(GenModulus - 1)
  PROVE  /\ NextGeneration(g) \in 0..(GenModulus - 1)
         /\ NextGeneration(g) >= g => NextGeneration(g) = g + 1
BY GenModulusAssumption DEF NextGeneration

LEMMA AliveFinite ==
  ASSUME TypeOK
  PROVE  IsFiniteSet(AliveSlots) /\ Cardinality(AliveSlots) \in Nat
<1>1. IsFiniteSet(Indices)
  BY FS_Interval DEF Indices, TypeOK
<1>2. QED
  BY <1>1, FS_Subset, FS_CardinalityType DEF AliveSlots

\* The arrays gen_table_insert works on, expanded or not: the free part is
\* not empty, and names every free slot once.
LEMMA Expansion ==
  ASSUME TypeOK, FreeListOK
  PROVE  /\ NewCapacity \in Nat /\ freeHead < NewCapacity /\ capacity <= NewCapacity
         /\ ExpandedSlots \in [0..(NewCapacity - 1) -> Slot]
         /\ ExpandedFreeList \in [0..(NewCapacity - 1) -> 0..(NewCapacity - 1)]
         /\ \A i \in freeHead..(NewCapacity - 1) :
               ~ExpandedSlots[ExpandedFreeList[i]].alive
         /\ \A i, j \in freeHead..(NewCapacity - 1) :
               ExpandedFreeList[i] = ExpandedFreeList[j] => i = j
         /\ \A s \in 0..(NewCapacity - 1) :
               ExpandedSlots[s].alive \/ \E i \in freeHead..(NewCapacity - 1) :
                                            ExpandedFreeList[i] = s
         /\ \A s \in 0..(NewCapacity - 1) :
               ExpandedSlots[s].alive <=> s \in AliveSlots
<1>1. /\ capacity \in Nat \ {0} /\ freeHead \in 0..capacity
      /\ slots \in [Indices -> Slot] /\ freeList \in [Indices -> Indices]
  BY DEF TypeOK
<1>2. /\ NewCapacity \in Nat /\ freeHead < NewCapacity /\ capacity <= NewCapacity
      /\ freeHead < capacity => NewCapacity = capacity
      /\ freeHead = capacity => NewCapacity = 2 * capacity
  BY <1>1 DEF NewCapacity, IsFull
<1>3. FreshSlot \in Slot /\ ~FreshSlot.alive
  BY GenModulusAssumption DEF FreshSlot, Slot
<1>4. /\ ExpandedSlots \in [0..(NewCapacity - 1) -> Slot]
      /\ \A s \in 0..(NewCapacity - 1) :
            ExpandedSlots[s] = IF s < capacity THEN slots[s] ELSE FreshSlot
  BY <1>1, <1>2, <1>3 DEF ExpandedSlots, Indices
<1>5. /\ ExpandedFreeList \in [0..(NewCapacity - 1) -> 0..(NewCapacity - 1)]
      /\ \A i \in 0..(NewCapacity - 1) :
            ExpandedFreeList[i] = IF i < capacity THEN freeList[i] ELSE i
  BY <1>1, <1>2 DEF ExpandedFreeList, Indices
<1>6. \A s \in 0..(NewCapacity - 1) : ExpandedSlots[s].alive <=> s \in AliveSlots
  BY <1>1, <1>2, <1>3, <1>4 DEF AliveSlots, Indices
<1>7. CASE freeHead < capacity
  <2>1. /\ NewCapacity = capacity /\ Indices = 0..(NewCapacity - 1)
        /\ \A s \in Indices : ExpandedSlots[s] = slots[s]
        /\ \A i \in freeHead..(NewCapacity - 1) :
              i \in Indices /\ ExpandedFreeList[i] = freeList[i] /\ freeList[i] \in Indices
    BY <1>1, <1>2, <1>4, <1>5, <1>7 DEF Indices
  <2>2. \A i \in freeHead..(NewCapacity - 1) :
           ~ExpandedSlots[ExpandedFreeList[i]].alive
    BY <2>1 DEF FreeListOK
  <2>3. \A i, j \in freeHead..(NewCapacity - 1) :
           ExpandedFreeList[i] = ExpandedFreeList[j] => i = j
    BY <2>1 DEF FreeListOK
  <2>4. \A s \in 0..(NewCapacity - 1) :
           ExpandedSlots[s].alive \/ \E i \in freeHead..(NewCapacity - 1) :
                                        ExpandedFreeList[i] = s
    BY <1>6, <2>1 DEF FreeListOK
  <2>5. QED
    BY <1>2, <1>4, <1>5, <1>6, <2>2, <2>3, <2>4
<1>8. CASE freeHead = capacity
  <2>1. AliveSlots = Indices
    BY <1>1, <1>8 DEF FreeListOK, AliveSlots, Indices
  <2>2. \A i \in freeHead..(NewCapacity - 1) : ExpandedFreeList[i] = i
    BY <1>1, <1>2, <1>5, <1>8
  <2>3. \A s \in 0..(NewCapacity - 1) : ExpandedSlots[s].alive <=> s < capacity
    BY <1>1, <1>6, <2>1 DEF Indices
  <2>4. QED
    BY <1>1, <1>2, <1>4, <1>5, <1>6, <1>8, <2>2, <2>3
<1>9. QED
  BY <1>1, <1>7, <1>8

-----------------------------------------------------------------------------
\* gen_table_insert.
LEMMA InsertTypeOK ==
  ASSUME TypeOK, FreeListOK, NEW ptr \in Objects, NEW tag \in Tags, Insert(ptr, tag)
  PROVE  TypeOK'
<1> DEFINE i == ExpandedFreeList[freeHead]
           s == [ExpandedSlots EXCEPT ![i].ptr = ptr, ![i].tag = tag, ![i].alive = TRUE]
<1>1. /\ capacity \in Nat \ {0} /\ freeHead \in 0..capacity /\ count \in Nat
      /\ retired \subseteq GenRef
  BY DEF TypeOK
<1>2. /\ NewCapacity \in Nat /\ freeHead < NewCapacity /\ capacity <= NewCapacity
      /\ ExpandedSlots \in [0..(NewCapacity - 1) -> Slot]
      /\ ExpandedFreeList \in [0..(NewCapacity - 1) -> 0..(NewCapacity - 1)]
  BY Expansion
<1>3. i \in 0..(NewCapacity - 1)
  BY <1>1, <1>2
<1>4. [ExpandedSlots[i] EXCEPT !.ptr = ptr, !.tag = tag, !.alive = TRUE] \in Slot
  BY <1>2, <1>3 DEF Slot
<1>5. s \in [0..(NewCapacity - 1) -> Slot]
  BY <1>2, <1>3, <1>4 DEF Slot
<1>6. QED
  BY <1>1, <1>2, <1>5 DEF Insert, TypeOK, Indices, GenRef

LEMMA InsertFreeListOK ==
  ASSUME TypeOK, FreeListOK, NEW ptr \in Objects, NEW tag \in Tags, Insert(ptr, tag)
  PROVE  FreeListOK'
<1> DEFINE i == ExpandedFreeList[freeHead]
<1>1. /\ capacity \in Nat \ {0} /\ freeHead \in 0..capacity /\ count \in Nat
  BY DEF TypeOK
<1>2. /\ capacity' = NewCapacity /\ freeHead' = freeHead + 1 /\ count' = count + 1
      /\ freeList' = ExpandedFreeList
      /\ slots' = [ExpandedSlots EXCEPT ![i].ptr = ptr, ![i].tag = tag,
                                        ![i].alive = TRUE]
  BY DEF Insert
<1>3. /\ NewCapacity \in Nat /\ freeHead < NewCapacity /\ capacity <= NewCapacity
      /\ ExpandedSlots \in [0..(NewCapacity - 1) -> Slot]
      /\ ExpandedFreeList \in [0..(NewCapacity - 1) -> 0..(NewCapacity - 1)]
  BY Expansion
<1>4. i \in 0..(NewCapacity - 1) /\ ~ExpandedSlots[i].alive /\ i \notin AliveSlots
  BY <1>1, <1>3, Expansion
<1>5. \A s \in 0..(NewCapacity - 1) :
         slots'[s].alive <=> (s = i \/ ExpandedSlots[s].alive)
  BY <1>2, <1>3, <1>4 DEF Slot
<1>6. AliveSlots' = AliveSlots \cup {i}
  <2>1. \A s \in 0..(NewCapacity - 1) : slots'[s].alive <=> s \in AliveSlots \cup {i}
    BY <1>5, Expansion
  <2>2. AliveSlots \subseteq 0..(NewCapacity - 1)
    BY <1>1, <1>3 DEF AliveSlots, Indices
  <2>3. QED
    BY <1>2, <1>4, <2>1, <2>2 DEF AliveSlots, Indices
<1>7. Cardinality(AliveSlots') = freeHead'
  BY <1>2, <1>4, <1>6, AliveFinite, FS_AddElement DEF FreeListOK
<1>8. \A k \in freeHead'..(capacity' - 1) : ~slots'[freeList'[k]].alive
  <2> TAKE k \in freeHead'..(capacity' - 1)
  <2>1. k \in freeHead..(NewCapacity - 1) /\ k # freeHead
    BY <1>1, <1>2, <1>3
  <2>2. /\ ~ExpandedSlots[ExpandedFreeList[k]].alive
        /\ ExpandedFreeList[k] # i
    BY <1>1, <1>3, <2>1, Expansion
  <2>3. QED
    BY <1>1, <1>2, <1>3, <1>5, <2>1, <2>2
<1>9. \A j, k \in freeHead'..(capacity' - 1) : freeList'[j] = freeList'[k] => j = k
  BY <1>1, <1>2, <1>3, Expansion
<1>10. \A s \in (Indices \ AliveSlots)' :
          \E k \in freeHead'..(capacity' - 1) : freeList'[k] = s
  <2> TAKE s \in (Indices \ AliveSlots)'
  <2>1. s \in 0..(NewCapacity - 1) /\ s # i /\ ~ExpandedSlots[s].alive
    BY <1>2, <1>5, <1>6 DEF Indices, AliveSlots
  <2>2. PICK k \in freeHead..(NewCapacity - 1) : ExpandedFreeList[k] = s
    BY <2>1, Expansion
  <2>3. k # freeHead
    BY <2>1, <2>2
  <2>4. QED
    BY <1>1, <1>2, <1>3, <2>2, <2>3
<1>11. QED
  BY <1>1, <1>2, <1>7, <1>8, <1>9, <1>10 DEF FreeListOK

-----------------------------------------------------------------------------
\* gen_table_free_slot of a valid reference.
LEMMA FreeTypeOK ==
  ASSUME TypeOK, FreeListOK, NEW ref \in GenRef, FreeAccepted(ref)
  PROVE  TypeOK' /\ freeHead > 0 /\ ref.slot \in AliveSlots
<1>1. /\ capacity \in Nat \ {0} /\ freeHead \in 0..capacity /\ count \in Nat
      /\ slots \in [Indices -> Slot] /\ freeList \in [Indices -> Indices]
      /\ retired \subseteq GenRef
  BY DEF TypeOK
<1>2. ref.slot \in Indices /\ ref.slot \in AliveSlots
  BY <1>1 DEF FreeAccepted, PushAt, IsValid, GenRef, Indices, AliveSlots
<1>3. freeHead > 0 /\ count > 0
  <2>1. AliveSlots # {}
    BY <1>2
  <2>2. QED
    BY <1>1, <2>1, AliveFinite, FS_EmptySet DEF FreeListOK
<1>4. [slots[ref.slot] EXCEPT !.alive = FALSE, !.ptr = NULL,
         !.generation = NextGeneration(slots[ref.slot].generation)] \in Slot
  BY <1>1, <1>2, Increment DEF Slot
<1>5. slots' \in [Indices -> Slot]
  BY <1>1, <1>2, <1>4, Increment DEF FreeAccepted, PushAt, Slot
<1>6. QED
  BY <1>1, <1>2, <1>3, <1>5 DEF FreeAccepted, PushAt, TypeOK, Indices

LEMMA FreeFreeListOK ==
  ASSUME TypeOK, FreeListOK, NEW ref \in GenRef, FreeAccepted(ref)
  PROVE  FreeListOK'
<1>1. /\ capacity \in Nat \ {0} /\ freeHead \in 0..capacity /\ count \in Nat
      /\ slots \in [Indices -> Slot] /\ freeList \in [Indices -> Indices]
  BY DEF TypeOK
<1>2. freeHead > 0 /\ ref.slot \in AliveSlots /\ ref.slot \in Indices
  BY FreeTypeOK DEF AliveSlots
<1>3. /\ capacity' = capacity /\ freeHead' = freeHead - 1 /\ count' = count - 1
      /\ freeList' = [freeList EXCEPT ![freeHead - 1] = ref.slot]
      /\ \A s \in Indices : slots'[s].alive <=> (s # ref.slot /\ slots[s].alive)
  BY <1>1, <1>2 DEF FreeAccepted, PushAt, Slot
<1>4. AliveSlots' = AliveSlots \ {ref.slot}
  BY <1>1, <1>2, <1>3 DEF AliveSlots, Indices
<1>5. Cardinality(AliveSlots') = freeHead'
  BY <1>2, <1>3, <1>4, AliveFinite, FS_RemoveElement DEF FreeListOK
<1>6. /\ freeList'[freeHead'] = ref.slot
      /\ \A k \in freeHead..(capacity - 1) :
            freeList'[k] = freeList[k] /\ freeList[k] \in Indices \ {ref.slot}
  <2>1. freeHead - 1 \in Indices /\ freeList'[freeHead'] = ref.slot
    BY <1>1, <1>2, <1>3 DEF Indices
  <2>2. \A k \in freeHead..(capacity - 1) :
           k \in Indices /\ freeList'[k] = freeList[k] /\ freeList[k] \in Indices
    BY <1>1, <1>3, <2>1 DEF Indices
  <2>3. \A k \in freeHead..(capacity - 1) : freeList[k] # ref.slot
    BY <1>2 DEF FreeListOK, AliveSlots
  <2>4. QED
    BY <2>1, <2>2, <2>3
<1>7. \A k \in freeHead'..(capacity' - 1) :
         k = freeHead' \/ k \in freeHead..(capacity - 1)
  BY <1>1, <1>3
<1>8. \A k \in freeHead'..(capacity' - 1) : ~slots'[freeList'[k]].alive
  BY <1>2, <1>3, <1>6, <1>7 DEF FreeListOK
<1>9. \A j, k \in freeHead'..(capacity' - 1) : freeList'[j] = freeList'[k] => j = k
  BY <1>6, <1>7 DEF FreeListOK
<1>10. \A s \in (Indices \ AliveSlots)' :
          \E k \in freeHead'..(capacity' - 1) : freeList'[k] = s
  <2> TAKE s \in (Indices \ AliveSlots)'
  <2>1. s \in Indices /\ (s = ref.slot \/ s \notin AliveSlots)
    BY <1>3, <1>4 DEF Indices
  <2>2. CASE s = ref.slot
    BY <1>1, <1>2, <1>3, <1>6, <2>2
  <2>3. CASE s \notin AliveSlots
    BY <1>1, <1>2, <1>3, <1>6, <2>1, <2>3 DEF FreeListOK
  <2>4. QED
    BY <2>1, <2>2, <2>3
<1>11. QED
  BY <1>1, <1>2, <1>3, <1>5, <1>8, <1>9, <1>10 DEF FreeListOK
-----------------------------------------------------------------------------
\* Every retired reference is older than its slot.
RetiredOlder ==
    \A ref \in retired :
        ref.slot < capacity /\ ref.generation < slots[ref.slot].generation

LEMMA Init_IInv ==
  ASSUME Init
  PROVE  TypeOK /\ FreeListOK /\ RetiredOlder
<1>1. FreshSlot \in Slot /\ ~FreshSlot.alive
  BY GenModulusAssumption DEF FreshSlot, Slot
<1>2. TypeOK
  BY <1>1, CapacityAssumption DEF Init, TypeOK, Indices
<1>3. AliveSlots = {}
  BY <1>1 DEF Init, AliveSlots
<1>4. Cardinality(AliveSlots) = 0
  BY <1>3, FS_EmptySet
<1>5. FreeListOK
  BY <1>1, <1>3, <1>4, CapacityAssumption DEF Init, FreeListOK, Indices
<1>6. QED
  BY <1>2, <1>5 DEF RetiredOlder, Init

LEMMA Next_IInv ==
  ASSUME TypeOK, FreeListOK, [Next]_vars
  PROVE  TypeOK' /\ FreeListOK'
<1>1. Presented \subseteq GenRef
  BY CapacityAssumption DEF Presented, GenRef
<1>2. ASSUME NEW ptr \in Objects, NEW tag \in Tags, Insert(ptr, tag)
      PROVE  TypeOK' /\ FreeListOK'
  BY <1>2, InsertTypeOK, InsertFreeListOK
<1>3. ASSUME NEW ref \in Presented, FreeAccepted(ref)
      PROVE  TypeOK' /\ FreeListOK'
  BY <1>1, <1>3, FreeTypeOK, FreeFreeListOK
<1>4. ASSUME UNCHANGED <<capacity, count, freeHead, slots, freeList, retired>>
      PROVE  TypeOK' /\ FreeListOK'
  BY <1>4 DEF TypeOK, FreeListOK, Indices, AliveSlots
<1>5. QED
  BY <1>2, <1>3, <1>4 DEF Next, Get, FreeRefused, vars

LEMMA Next_RetiredOlder ==
  ASSUME TypeOK, FreeListOK, RetiredOlder, [Next /\ NoWrap]_vars
  PROVE  RetiredOlder'
<1>1. /\ capacity \in Nat \ {0} /\ slots \in [Indices -> Slot]
      /\ retired \subseteq GenRef
  BY DEF TypeOK
<1>2. ASSUME NEW ptr \in Objects, NEW tag \in Tags, Insert(ptr, tag)
      PROVE  RetiredOlder'
  <2>1. capacity' = NewCapacity /\ retired' = retired /\ capacity <= NewCapacity
        /\ NewCapacity \in Nat
    BY <1>2, Expansion DEF Insert
  <2>2. \A s \in 0..(NewCapacity - 1) :
           slots'[s].generation = ExpandedSlots[s].generation
    BY <1>2, Expansion DEF Insert, Slot
  <2>3. \A s \in Indices : s \in 0..(NewCapacity - 1) /\ ExpandedSlots[s] = slots[s]
    BY <1>1, <2>1 DEF ExpandedSlots, Indices
  <2>4. \A ref \in retired : ref.slot \in Indices
    BY <1>1 DEF RetiredOlder, GenRef, Indices
  <2>5. QED
    BY <1>1, <2>1, <2>2, <2>3, <2>4 DEF RetiredOlder, Indices
<1>3. ASSUME NEW ref \in Presented, FreeAccepted(ref), NoWrap
      PROVE  RetiredOlder'
  <2>1. /\ ref.slot \in Indices /\ slots[ref.slot].generation = ref.generation
        /\ capacity' = capacity /\ retired' = retired \cup {ref}
    BY <1>1, <1>3, CapacityAssumption DEF FreeAccepted, PushAt, IsValid, Presented, Indices
  <2>2. /\ \A s \in Indices \ {ref.slot} : slots'[s] = slots[s]
        /\ slots'[ref.slot].generation = NextGeneration(ref.generation)
    BY <1>1, <1>3, <2>1 DEF FreeAccepted, PushAt, Slot
  <2>3. ref.generation \in 0..(GenModulus - 1)
    BY DEF Presented
  <2>4. slots'[ref.slot].generation = ref.generation + 1
    BY <1>3, <2>1, <2>2, <2>3, Increment DEF NoWrap
  <2>5. \A r \in retired : r.slot \in Indices /\ r.generation \in Nat
    BY <1>1, GenModulusAssumption DEF RetiredOlder, GenRef, Indices
  <2>6. QED
    BY <1>1, <2>1, <2>2, <2>3, <2>4, <2>5 DEF RetiredOlder, Indices
<1>4. ASSUME UNCHANGED <<capacity, slots, retired>>
      PROVE  RetiredOlder'
  BY <1>4 DEF RetiredOlder
<1>5. QED
  BY <1>2, <1>3, <1>4 DEF Next, Get, FreeRefused, vars

-----------------------------------------------------------------------------
\* The state of gen_ref.c's table is what its types say, for any capacity.
THEOREM TypeCorrect == Spec => []TypeOK
<1>1. Init => TypeOK /\ FreeListOK
  BY Init_IInv
<1>2. TypeOK /\ FreeListOK /\ [Next]_vars => TypeOK' /\ FreeListOK'
  BY Next_IInv
<1>3. QED
  BY <1>1, <1>2, PTL DEF Spec

\* The free list of gen_ref.c names every free slot exactly once and never a
\* slot in use, through every insert, expansion and free.
THEOREM FreeListCorrect == Spec => []FreeListOK
<1>1. Init => TypeOK /\ FreeListOK
  BY Init_IInv
<1>2. TypeOK /\ FreeListOK /\ [Next]_vars => TypeOK' /\ FreeListOK'
  BY Next_IInv
<1>3. QED
  BY <1>1, <1>2, PTL DEF Spec

\* Until a generation wraps, the table's references are never valid again
\* once they were freed.
LEMMA Invariance == SpecUntilWrap => [](TypeOK /\ FreeListOK /\ RetiredOlder)
<1>1. Init => TypeOK /\ FreeListOK /\ RetiredOlder
  BY Init_IInv
<1>2. TypeOK /\ FreeListOK /\ RetiredOlder /\ [Next /\ NoWrap]_vars
      => (TypeOK /\ FreeListOK /\ RetiredOlder)'
  BY Next_IInv, Next_RetiredOlder
<1>3. QED
  BY <1>1, <1>2, PTL DEF SpecUntilWrap

THEOREM StaleCorrect == SpecUntilWrap => []StaleNeverValid
<1>1. TypeOK /\ RetiredOlder => StaleNeverValid
  <2> SUFFICES ASSUME TypeOK, RetiredOlder, NEW ref \in retired
               PROVE  ~IsValid(ref)
    BY DEF StaleNeverValid
  <2>1. ref.generation \in Int /\ ref.generation < slots[ref.slot].generation
    BY DEF TypeOK, GenRef, RetiredOlder
  <2>2. QED
    BY <2>1 DEF IsValid
<1>2. QED
  BY <1>1, Invariance, PTL

-----------------------------------------------------------------------------
(* The refinement. *)

LEMMA NamedIsValid ==
  ASSUME TypeOK, NEW ref \in GenRef
  PROVE  /\ ref \in DOMAIN NamedEntries <=> IsValid(ref)
         /\ IsValid(ref) => NamedEntries[ref] = [ptr |-> slots[ref.slot].ptr,
                                                tag |-> slots[ref.slot].tag]
<1>1. capacity \in Nat \ {0}
  BY DEF TypeOK
<1>2. \A i \in AliveSlots : RefTo(i) = ref => IsValid(ref)
  BY <1>1 DEF RefTo, IsValid, AliveSlots, Indices
<1>3. IsValid(ref) => ref.slot \in AliveSlots /\ RefTo(ref.slot) = ref
  BY <1>1 DEF RefTo, IsValid, AliveSlots, Indices, GenRef
<1>4. QED
  BY <1>2, <1>3 DEF NamedEntries

LEMMA InsertRefines ==
  ASSUME TypeOK, FreeListOK, RetiredOlder,
         NEW ptr \in Objects, NEW tag \in Tags, Insert(ptr, tag)
  PROVE  Handles!Insert(ptr, tag)
<1>a. PICK i : i = ExpandedFreeList[freeHead]
  OBVIOUS
<1>b. PICK r : r = [slot |-> i, generation |-> ExpandedSlots[i].generation]
  OBVIOUS
<1>c. PICK entry : entry = [ptr |-> ptr, tag |-> tag]
  OBVIOUS
<1>1. /\ capacity \in Nat \ {0} /\ freeHead \in 0..capacity
      /\ slots \in [Indices -> Slot] /\ retired \subseteq GenRef
  BY DEF TypeOK
<1>2. /\ NewCapacity \in Nat /\ freeHead < NewCapacity /\ capacity <= NewCapacity
      /\ ExpandedSlots \in [0..(NewCapacity - 1) -> Slot]
      /\ i \in 0..(NewCapacity - 1) /\ ~ExpandedSlots[i].alive /\ i \notin AliveSlots
  BY <1>a, <1>1, Expansion
<1>3. \A s \in Indices : s \in 0..(NewCapacity - 1) /\ ExpandedSlots[s] = slots[s]
  BY <1>1, <1>2 DEF ExpandedSlots, Indices
<1>4. r \in Presented
  BY <1>a, <1>b, <1>2 DEF Insert, Presented, Slot
<1>5. r \notin DOMAIN NamedEntries
  BY <1>b, <1>2 DEF NamedEntries, RefTo
<1>6. r \notin retired
  <2> SUFFICES ASSUME r \in retired PROVE FALSE
    OBVIOUS
  <2>1. i \in Indices /\ r.generation < slots[i].generation
    BY <1>b, <1>1, <1>2 DEF RetiredOlder, Indices
  <2>2. QED
    BY <1>b, <1>1, <1>2, <1>3, <2>1 DEF Slot
<1>7. /\ capacity' = NewCapacity
      /\ slots'[i] = [ExpandedSlots[i] EXCEPT !.ptr = ptr, !.tag = tag, !.alive = TRUE]
      /\ \A s \in Indices \ {i} : slots'[s] = slots[s]
      /\ \A s \in 0..(NewCapacity - 1) :
            slots'[s].alive <=> (s = i \/ s \in AliveSlots)
  BY <1>a, <1>2, <1>3, Expansion DEF Insert, Slot
<1>8. AliveSlots' = AliveSlots \cup {i}
  BY <1>1, <1>2, <1>3, <1>7 DEF AliveSlots, Indices
<1>9. /\ RefTo(i)' = r
      /\ \A s \in AliveSlots : RefTo(s)' = RefTo(s)
  BY <1>b, <1>2, <1>7 DEF RefTo, AliveSlots, Slot
<1>10. {RefTo(s) : s \in AliveSlots}' = {RefTo(s) : s \in AliveSlots} \cup {r}
  BY <1>8, <1>9
<1>11. NamedEntries' = [s \in DOMAIN NamedEntries \cup {r} |->
                          IF s = r THEN entry ELSE NamedEntries[s]]
  <2>1. [ptr |-> slots'[r.slot].ptr, tag |-> slots'[r.slot].tag] = entry
    <3>1. r.slot = i
      BY <1>b
    <3>2. slots'[i].ptr = ptr /\ slots'[i].tag = tag
      BY <1>2, <1>7 DEF Slot
    <3>3. QED
      BY <1>c, <3>1, <3>2
  <2>2. \A s \in {RefTo(k) : k \in AliveSlots} :
           s # r /\ slots'[s.slot] = slots[s.slot]
    BY <1>b, <1>2, <1>7 DEF RefTo, AliveSlots
  <2>3. /\ DOMAIN NamedEntries = {RefTo(k) : k \in AliveSlots}
        /\ DOMAIN NamedEntries' = {RefTo(k) : k \in AliveSlots} \cup {r}
    BY <1>10 DEF NamedEntries
  <2>4. \A s \in {RefTo(k) : k \in AliveSlots} \cup {r} :
           NamedEntries'[s] = [ptr |-> slots'[s.slot].ptr, tag |-> slots'[s.slot].tag]
    BY <1>10 DEF NamedEntries
  <2>5. \A s \in {RefTo(k) : k \in AliveSlots} :
           NamedEntries'[s] = NamedEntries[s] /\ s # r
    BY <2>2, <2>4 DEF NamedEntries
  <2>6. NamedEntries'[r] = entry
    BY <2>1, <2>4
  <2>7. NamedEntries' = [s \in DOMAIN NamedEntries' |-> NamedEntries'[s]]
    BY DEF NamedEntries
  <2>8. QED
    BY <2>3, <2>5, <2>6, <2>7
<1>12. out' = <<"ref", r>> /\ retired' = retired
  BY <1>a, <1>b DEF Insert
<1>13. QED
  BY <1>c, <1>4, <1>5, <1>6, <1>11, <1>12 DEF Handles!Insert

LEMMA GetRefines ==
  ASSUME TypeOK, NEW ref \in GenRef, NEW expected, Get(ref, expected)
  PROVE  Handles!Get(ref, expected)
<1>1. NamedEntries' = NamedEntries /\ retired' = retired
  BY DEF Get, NamedEntries, RefTo, AliveSlots, Indices
<1>2. Lookup(ref, expected) = Handles!Lookup(ref, expected)
  <2>1. CASE IsValid(ref)
    <3>1. /\ ref \in DOMAIN NamedEntries
          /\ NamedEntries[ref] = [ptr |-> slots[ref.slot].ptr,
                                 tag |-> slots[ref.slot].tag]
      BY <2>1, NamedIsValid
    <3>2. /\ NamedEntries[ref].tag = slots[ref.slot].tag
          /\ NamedEntries[ref].ptr = slots[ref.slot].ptr
      BY <3>1
    <3>3. QED
      BY <2>1, <3>1, <3>2 DEF Lookup, Handles!Lookup
  <2>2. CASE ~IsValid(ref)
    BY <2>2, NamedIsValid DEF Lookup, Handles!Lookup
  <2>3. QED
    BY <2>1, <2>2
<1>3. QED
  BY <1>1, <1>2 DEF Get, Handles!Get

LEMMA FreeRefines ==
  ASSUME TypeOK, FreeListOK, NEW ref \in GenRef,
         FreeRefused(ref) \/ FreeAccepted(ref)
  PROVE  Handles!Free(ref)
<1>1. CASE FreeRefused(ref)
  <2>1. NamedEntries' = NamedEntries
    BY <1>1 DEF FreeRefused, NamedEntries, RefTo, AliveSlots, Indices
  <2>2. QED
    BY <1>1, <2>1, NamedIsValid DEF FreeRefused, Handles!Free
<1>2. CASE FreeAccepted(ref)
  <2>1. /\ IsValid(ref) /\ capacity' = capacity
        /\ slots \in [Indices -> Slot]
        /\ ref.slot \in AliveSlots /\ RefTo(ref.slot) = ref
    BY <1>2, FreeTypeOK DEF FreeAccepted, PushAt, IsValid, TypeOK, RefTo, GenRef
  <2>2. /\ \A s \in Indices \ {ref.slot} : slots'[s] = slots[s]
        /\ ~slots'[ref.slot].alive
    BY <1>2, <2>1 DEF FreeAccepted, PushAt, Slot, AliveSlots
  <2>3. AliveSlots' = AliveSlots \ {ref.slot}
    BY <2>1, <2>2 DEF AliveSlots, Indices
  <2>4. \A s \in AliveSlots \ {ref.slot} :
           RefTo(s)' = RefTo(s) /\ RefTo(s).slot = s /\ slots'[s] = slots[s]
    BY <2>2 DEF RefTo, AliveSlots
  <2>5. {RefTo(s) : s \in AliveSlots}' = {RefTo(s) : s \in AliveSlots} \ {ref}
    <3>1. \A s \in AliveSlots \ {ref.slot} : RefTo(s) # ref
      BY DEF RefTo
    <3>2. QED
      BY <2>1, <2>3, <2>4, <3>1
  <2>6. NamedEntries' = [s \in DOMAIN NamedEntries \ {ref} |-> NamedEntries[s]]
    <3>1. \A s \in {RefTo(k) : k \in AliveSlots} \ {ref} :
             slots'[s.slot] = slots[s.slot]
      BY <2>1, <2>4
    <3>2. QED
      BY <2>5, <3>1 DEF NamedEntries
  <2>7. QED
    BY <1>2, <2>1, <2>6, NamedIsValid DEF FreeAccepted, PushAt, Handles!Free
<1>3. QED
  BY <1>1, <1>2

\* gen_ref.h's promise: until a generation wraps, gen_ref.c implements
\* handles that name one object each, from its insert to its free.
THEOREM HandlesCorrect == SpecUntilWrap => ImplementsHandles
<1>1. Init => Handles!Init
  <2> SUFFICES ASSUME Init PROVE Handles!Init
    OBVIOUS
  <2>1. AliveSlots = {}
    BY DEF Init, AliveSlots, FreshSlot
  <2>2. NamedEntries = [r \in {} |-> NULL]
    BY <2>1 DEF NamedEntries
  <2>3. QED
    BY <2>2 DEF Init, Handles!Init
<1>2. TypeOK /\ FreeListOK /\ RetiredOlder /\ [Next /\ NoWrap]_vars
      => [Handles!Next]_Handles!vars
  <2> SUFFICES ASSUME TypeOK, FreeListOK, RetiredOlder, [Next /\ NoWrap]_vars
               PROVE  [Handles!Next]_Handles!vars
    OBVIOUS
  <2>1. ASSUME NEW ptr \in Objects, NEW tag \in Tags, Insert(ptr, tag)
        PROVE  Handles!Next
    BY <2>1, InsertRefines DEF Handles!Next
  <2>2. ASSUME NEW ref \in Presented, NEW expected \in Tags \cup {ANY},
               Get(ref, expected)
        PROVE  Handles!Next
    BY <2>2, CapacityAssumption, GetRefines DEF Handles!Next, Presented, GenRef
  <2>3. ASSUME NEW ref \in Presented, FreeRefused(ref) \/ FreeAccepted(ref)
        PROVE  Handles!Next
    BY <2>3, CapacityAssumption, FreeRefines DEF Handles!Next, Presented, GenRef
  <2>4. ASSUME UNCHANGED vars
        PROVE  UNCHANGED Handles!vars
    BY <2>4 DEF vars, Handles!vars, NamedEntries, RefTo, AliveSlots, Indices
  <2>5. QED
    BY <2>1, <2>2, <2>3, <2>4 DEF Next
<1>3. QED
  BY <1>1, <1>2, Invariance, PTL DEF SpecUntilWrap, ImplementsHandles, Handles!Spec
=============================================================================
