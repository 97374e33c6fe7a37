-------------------------------- MODULE Arena -------------------------------
(***************************************************************************)
(* arena.c: a bump allocator over a chain of blocks.  All numbers are in   *)
(* units of ARENA_ALIGNMENT, the alignment of a block's memory.  The owner *)
(* keeps its markers in a stack: a restore ends every later marker, a      *)
(* reset or free ends them all.  total_allocated is left out: it is only   *)
(* ever written.                                                           *)
(***************************************************************************)
EXTENDS Naturals, FiniteSets, Sequences

CONSTANTS
    Blocks,         \* names of the blocks rdx_alloc can give
    NULL,
    DefaultSize,    \* default_block_size
    ExtraSize,      \* ARENA_DEFAULT_BLOCK_SIZE, added to an oversized block
    Sizes,          \* the sizes asked for
    Alignments,     \* the alignments asked for
    MaxMarkers      \* bound on the markers held at once

ASSUME BlocksAssumption == IsFiniteSet(Blocks) /\ NULL \notin Blocks
ASSUME SizesAssumption ==
    /\ DefaultSize \in Nat \ {0} /\ ExtraSize \in Nat /\ MaxMarkers \in Nat
    /\ Sizes \subseteq Nat \ {0} /\ Alignments \subseteq Nat \ {0}
ASSUME AlignmentsAssumption ==  \* there is a largest one
    \E a \in Alignments : \A b \in Alignments : b <= a

VARIABLES
    heap,       \* the arena and its blocks
    regions,    \* the memory its users hold
    markers,    \* the markers its users hold, with the regions older than each
    rewound     \* history: a reset or restore since every block was given back

vars == <<heap, regions, markers, rewound>>

\* Blocks lie anywhere in memory: what matters is an address's remainder.
MaxAlignment == CHOOSE a \in Alignments : \A b \in Alignments : b <= a
Bases == 0..(MaxAlignment - 1)

Heap == [first : Blocks \cup {NULL}, current : Blocks \cup {NULL},
         allocated : SUBSET Blocks, next : [Blocks -> Blocks \cup {NULL}],
         capacity : [Blocks -> Nat], used : [Blocks -> Nat], base : [Blocks -> Bases]]
Region == [block : Blocks, from : Nat, to : Nat, alignment : Alignments]
Marker == [block : Blocks \cup {NULL}, used : Nat, regions : SUBSET Region]

\* The blocks from b on: the least set with b in it that `next` does not leave.
ChainFrom(h, b) ==
    IF b = NULL THEN {}
    ELSE {x \in Blocks :
            \A S \in SUBSET Blocks :
                b \in S /\ (\A y \in S : h.next[y] \in S \cup {NULL}) => x \in S}

AlignForward(address, a) ==
    IF address % a = 0 THEN address ELSE address + (a - (address % a))

\* Where the next region of block b starts.
Offset(h, b, a) == AlignForward(h.base[b] + h.used[b], a) - h.base[b]

Fits(h, size, a) == Offset(h, h.current, a) + size <= h.capacity[h.current]

\* Mutant: every block has the default size.
NextCapacityDefault(size, a) == DefaultSize

NextCapacity(size, a) ==
    IF size + a > DefaultSize THEN size + a + ExtraSize ELSE DefaultSize

\* The heap with b as a new empty block.
WithBlock(h, b, capacity, base) ==
    [h EXCEPT !.allocated = @ \cup {b}, !.next[b] = NULL,
              !.capacity[b] = capacity, !.used[b] = 0, !.base[b] = base]

\* arena_new_block: rdx_alloc may give any free block, or none.
NewBlock(h, capacity) ==
    {[heap |-> h, block |-> NULL]} \cup
    {[heap |-> WithBlock(h, b, capacity, x), block |-> b] :
        b \in Blocks \ h.allocated, x \in Bases}

\* arena_init.
Initialised(h) ==
    {[o.heap EXCEPT !.first = o.block, !.current = o.block] :
        o \in NewBlock(h, DefaultSize)}

\* The block is linked behind the current one and becomes current.
\* Mutant: it is not linked.
GrownUnlinked(h, b) == [h EXCEPT !.current = b]

Grown(h, b) == [h EXCEPT !.next[h.current] = b, !.current = b]

\* The blocks of S are empty.
Emptied(h, S) ==
    [h EXCEPT !.used = [b \in Blocks |-> IF b \in S THEN 0 ELSE h.used[b]]]

NoHeap ==
    [first |-> NULL, current |-> NULL, allocated |-> {},
     next |-> [b \in Blocks |-> NULL], capacity |-> [b \in Blocks |-> 0],
     used |-> [b \in Blocks |-> 0], base |-> [b \in Blocks |-> 0]]

TypeOK ==
    /\ heap \in Heap
    /\ {heap.first, heap.current} \subseteq heap.allocated \cup {NULL}
    /\ \A b \in Blocks : heap.used[b] <= heap.capacity[b]
    /\ regions \subseteq Region
    /\ markers \in Seq(Marker)
    /\ rewound \in BOOLEAN

Init ==
    /\ heap \in Initialised(NoHeap)
    /\ regions = {}
    /\ markers = <<>>
    /\ rewound = FALSE

\* The current block hands out its next size units.
Bump(h, size, a) ==
    LET from == Offset(h, h.current, a)
    IN  /\ heap' = [h EXCEPT !.used[h.current] = from + size]
        /\ regions' = regions \cup {[block |-> h.current, from |-> from,
                                     to |-> from + size, alignment |-> a]}

\* arena_alloc_aligned: an arena without blocks is initialised first; what
\* does not fit goes to a new block; without memory nothing is handed out.
Alloc(size, a) ==
    /\ \E h \in IF heap.current = NULL THEN Initialised(heap) ELSE {heap} :
          \/ /\ h.current = NULL
             /\ heap' = h /\ UNCHANGED regions
          \/ /\ h.current # NULL /\ Fits(h, size, a)
             /\ Bump(h, size, a)
          \/ /\ h.current # NULL /\ ~Fits(h, size, a)
             /\ \E o \in NewBlock(h, NextCapacity(size, a)) :
                   IF o.block = NULL THEN heap' = h /\ UNCHANGED regions
                   ELSE Bump(Grown(o.heap, o.block), size, a)
    /\ UNCHANGED <<markers, rewound>>

\* arena_reset.
Reset ==
    /\ heap' = [Emptied(heap, ChainFrom(heap, heap.first)) EXCEPT !.current = heap.first]
    /\ regions' = {}
    /\ markers' = <<>>
    /\ rewound' = TRUE

\* arena_free: only blocks that the chain reaches go back.
Free ==
    /\ heap' = [NoHeap EXCEPT !.allocated =
                   heap.allocated \ ChainFrom(heap, heap.first)]
    /\ regions' = {}
    /\ markers' = <<>>
    /\ rewound' = (heap'.allocated # {})

\* arena_save.
Save ==
    /\ Len(markers) < MaxMarkers
    /\ markers' = Append(markers,
          [block |-> heap.current,
           used |-> IF heap.current = NULL THEN 0 ELSE heap.used[heap.current],
           regions |-> regions])
    /\ UNCHANGED <<heap, regions, rewound>>

\* Mutant: the marker's `used` is forgotten.
RewindToStart(m) ==
    [Emptied(heap, ChainFrom(heap, heap.next[m.block]))
        EXCEPT !.current = m.block, !.used[m.block] = 0]

\* The heap after arena_restore.
Rewind(m) ==
    [Emptied(heap, ChainFrom(heap, heap.next[m.block]))
        EXCEPT !.current = m.block, !.used[m.block] = m.used]

Restore(i) ==
    /\ IF markers[i].block = NULL THEN UNCHANGED heap ELSE heap' = Rewind(markers[i])
    /\ regions' = IF markers[i].block = NULL THEN regions ELSE markers[i].regions
    /\ markers' = SubSeq(markers, 1, i)
    /\ rewound' = (rewound \/ markers[i].block # NULL)

Next ==
    \/ \E size \in Sizes, a \in Alignments : Alloc(size, a)
    \/ Reset \/ Free \/ Save
    \/ \E i \in DOMAIN markers : Restore(i)

Spec == Init /\ [][Next]_vars

-----------------------------------------------------------------------------
(* Properties. *)

\* Nobody else writes to the memory a user of the arena holds, through any
\* nesting of saves and restores: it lies in one block that the chain still
\* reaches, is aligned as it was asked for, below what the block hands out
\* next, and apart from every other region.
RegionsOK ==
    \A r \in regions :
        /\ r.block \in ChainFrom(heap, heap.first)
        /\ r.to <= heap.used[r.block]
        /\ (heap.base[r.block] + r.from) % r.alignment = 0
        /\ \A s \in regions \ {r} :
              s.block = r.block => s.to <= r.from \/ r.to <= s.from

\* Every block the arena was given is one arena_free will give back.
NoBlockLost == heap.allocated = ChainFrom(heap, heap.first)

\* So it is for an arena that only grows between arena_init and arena_free,
\* which is how the VM, the compiler and the fibers use theirs.
GrowingLosesNoBlock == ~rewound /\ heap.first # NULL => NoBlockLost
=============================================================================
