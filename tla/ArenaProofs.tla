----------------------------- MODULE ArenaProofs ----------------------------
(***************************************************************************)
(* arena.c for any blocks, sizes and alignments and any nesting of saves   *)
(* and restores: memory that was handed out and not given back belongs to  *)
(* one user, and an arena that only grows loses no block.                  *)
(***************************************************************************)
EXTENDS Arena, FiniteSetTheorems, WellFoundedInduction, TLAPS

\* A set that has the first natural of an interval, and with one the next,
\* has all of the interval.
LEMMA IntervalInduction ==
    ASSUME NEW a \in Nat, NEW b \in Nat, NEW S, a \in S,
           \A n \in a..(b - 1) : n \in S => n + 1 \in S
    PROVE  a..b \subseteq S
<1> DEFINE R == OpToRel(<, Nat)
           T == (a..b) \ S
<1> SUFFICES ASSUME T # {} PROVE FALSE
  OBVIOUS
<1>1. IsWellFoundedOn(R, Nat)
  BY NatLessThanWellFounded
<1>2. \A m, n \in Nat : m < n => <<m, n>> \in R
  BY DEF OpToRel
<1>3. T \subseteq Nat
  OBVIOUS
<1> HIDE DEF R, T
<1>4. PICK n \in T : \A m \in T : ~(<<m, n>> \in R)
  BY <1>1, <1>3, WFMin
<1> USE DEF T
<1>5. n \in (a + 1)..b /\ n \notin S
  OBVIOUS
<1>6. n - 1 \in a..(b - 1) /\ n - 1 \in Nat /\ n - 1 < n /\ (n - 1) + 1 = n
  BY <1>5
<1>7. n - 1 \notin T
  <2> HIDE DEF T
  <2>1. n \in Nat
    BY <1>3
  <2> QED
    BY <1>2, <1>4, <1>6, <2>1
<1> QED
  BY <1>5, <1>6, <1>7

-----------------------------------------------------------------------------

(***************************************************************************)
(* The inductive invariant lays the chain out as a sequence c of n blocks, *)
(* no block twice, and says where on it things are: the current block at   *)
(* position k, the block of marker i at position p[i], and all regions at  *)
(* or before the current block.  So a new block, which overwrites the      *)
(* current block's link, cuts off no block with a region in it, and what a *)
(* restore empties lies behind every region it keeps.                      *)
(***************************************************************************)
HeapOK(h) ==
    /\ h \in Heap
    /\ {h.first, h.current} \subseteq h.allocated \cup {NULL}
    /\ \A b \in Blocks : h.used[b] <= h.capacity[b]

Chained(h, c, n) ==
    /\ c \in [1..n -> h.allocated]
    /\ \A i, j \in 1..n : c[i] = c[j] => i = j
    /\ h.first = IF n = 0 THEN NULL ELSE c[1]
    /\ \A i \in 1..n : h.next[c[i]] = IF i = n THEN NULL ELSE c[i + 1]

\* The block at position i, and what is used of it.
At(c, i) == IF i = 0 THEN NULL ELSE c[i]

\* The regions R lie in the first k blocks, in the last of them below top.
Within(R, h, c, k, top) ==
    \A r \in R : \E i \in 1..k :
        r.block = c[i] /\ r.to <= IF i = k THEN top ELSE h.used[c[i]]

\* The regions R do not overlap and are aligned.
Apart(R, h) ==
    \A r \in R :
        /\ (h.base[r.block] + r.from) % r.alignment = 0
        /\ \A s \in R \ {r} : s.block = r.block => s.to <= r.from \/ r.to <= s.from

\* The marker m at position i of the chain is good for a later restore.
MarkerAt(m, R, h, c, i) ==
    /\ m.block = At(c, i)
    /\ m.regions \subseteq R
    /\ i # 0 => m.used <= h.used[c[i]] /\ Within(m.regions, h, c, i, m.used)

Older(m, i, l, j) ==
    i <= j /\ m.regions \subseteq l.regions /\ (i = j /\ i # 0 => m.used <= l.used)

MarkersAt(M, R, h, c, k, p) ==
    /\ p \in [1..Len(M) -> 0..k]
    /\ \A i \in 1..Len(M) : MarkerAt(M[i], R, h, c, p[i])
    /\ \A i, j \in 1..Len(M) : i <= j => Older(M[i], p[i], M[j], p[j])

Placed(h, R, M, w, c, n, k, p) ==
    /\ Chained(h, c, n)
    /\ h.current = At(c, k) /\ (k = 0 => n = 0)
    /\ \A r \in R : \E i \in 1..k : r.block = c[i] /\ r.to <= h.used[c[i]]
    /\ MarkersAt(M, R, h, c, k, p)
    /\ ~w => k = n /\ h.allocated = {c[i] : i \in 1..n}

Good(h, R, M, w) ==
    /\ HeapOK(h) /\ R \subseteq Region /\ M \in Seq(Marker) /\ w \in BOOLEAN
    /\ Apart(R, h)
    /\ \E n \in 0..Cardinality(Blocks) : \E c \in [1..n -> Blocks], k \in 0..n :
          \E p \in [1..Len(M) -> 0..k] : Placed(h, R, M, w, c, n, k, p)

IInv == Good(heap, regions, markers, rewound)

-----------------------------------------------------------------------------
(* Alignment and chains. *)

LEMMA MaxAlignmentType ==
    MaxAlignment \in Alignments /\ \A a \in Alignments : a <= MaxAlignment
  BY AlignmentsAssumption DEF MaxAlignment

\* align_forward moves to the next multiple of the alignment, if any.
LEMMA AlignForwardProperties ==
    ASSUME NEW x \in Nat, NEW a \in Nat \ {0}
    PROVE  /\ AlignForward(x, a) \in x..(x + a - 1)
           /\ AlignForward(x, a) % a = 0
<1>1. /\ x % a \in 0..(a - 1) /\ x \div a \in Nat
      /\ x = a * (x \div a) + (x % a)
  OBVIOUS
<1>2. AlignForward(x, a) = IF x % a = 0 THEN x ELSE x + (a - (x % a))
  BY DEF AlignForward
<1>3. AlignForward(x, a) \in x..(x + a - 1)
  BY <1>1, <1>2
<1>4. CASE x % a = 0
  BY <1>2, <1>4
<1>5. CASE x % a # 0
  <2>1. AlignForward(x, a) = a * (x \div a + 1)
    BY <1>1, <1>2, <1>5
  <2>2. \A q \in Nat : (a * q) % a = 0
    OBVIOUS
  <2>3. x \div a + 1 \in Nat
    BY <1>1
  <2> QED
    BY <1>3, <2>1, <2>2, <2>3
<1> QED
  BY <1>3, <1>4, <1>5

LEMMA OffsetProperties ==
    ASSUME NEW h \in Heap, NEW b \in Blocks, NEW a \in Alignments
    PROVE  /\ Offset(h, b, a) \in h.used[b]..(h.used[b] + a - 1)
           /\ (h.base[b] + Offset(h, b, a)) % a = 0
<1>1. h.base[b] \in Nat /\ h.used[b] \in Nat /\ a \in Nat \ {0}
  BY SizesAssumption, MaxAlignmentType DEF Heap, Bases
<1> DEFINE x == h.base[b] + h.used[b]
<1>2. x \in Nat
  BY <1>1
<1>3. Offset(h, b, a) = AlignForward(x, a) - h.base[b]
  BY DEF Offset
<1> HIDE DEF x
<1>6. AlignForward(x, a) \in x..(x + a - 1) /\ AlignForward(x, a) % a = 0
  BY <1>1, <1>2, AlignForwardProperties
<1>4. AlignForward(x, a) \in Nat
  BY <1>2, <1>6, <1>1
<1>5. h.base[b] + Offset(h, b, a) = AlignForward(x, a)
  BY <1>1, <1>3, <1>4
<1> QED
  BY <1>1, <1>3, <1>4, <1>5, <1>6 DEF x

\* ChainFrom follows the links of a chain to its end.
LEMMA ChainFromPosition ==
    ASSUME NEW h \in Heap, NEW n \in Nat, NEW c, Chained(h, c, n), NEW i \in 1..n
    PROVE  ChainFrom(h, c[i]) = {c[j] : j \in i..n}
<1> DEFINE Closed(S) == c[i] \in S /\ \A y \in S : h.next[y] \in S \cup {NULL}
           rest == {c[j] : j \in i..n}
<1>1. /\ \A j \in 1..n : c[j] \in Blocks /\ c[j] # NULL
      /\ \A j \in 1..n : h.next[c[j]] = IF j = n THEN NULL ELSE c[j + 1]
  BY BlocksAssumption DEF Chained, Heap
<1>2. ChainFrom(h, c[i]) = {x \in Blocks : \A S \in SUBSET Blocks : Closed(S) => x \in S}
  BY <1>1 DEF ChainFrom
<1>3. rest \in SUBSET Blocks /\ Closed(rest)
  BY <1>1
<1>4. ASSUME NEW S \in SUBSET Blocks, Closed(S), NEW j \in i..n PROVE c[j] \in S
  <2> DEFINE T == {m \in i..n : c[m] \in S}
  <2>1. i \in T
    BY <1>4
  <2>2. ASSUME NEW m \in i..(n - 1), m \in T PROVE m + 1 \in T
    <3>1. m \in 1..n /\ m # n /\ m + 1 \in 1..n /\ c[m] \in S
      BY <2>2
    <3>2. h.next[c[m]] = c[m + 1] /\ c[m + 1] # NULL
      BY <1>1, <3>1
    <3> QED
      BY <1>4, <3>1, <3>2
  <2> HIDE DEF T
  <2>3. i..n \subseteq T
    BY <2>1, <2>2, IntervalInduction
  <2> QED
    BY <2>3 DEF T
<1>5. rest \subseteq Blocks
  BY <1>3
<1> HIDE DEF Closed
<1>6. rest \subseteq ChainFrom(h, c[i])
  BY <1>2, <1>4, <1>5
<1>7. ChainFrom(h, c[i]) \subseteq rest
  BY <1>2, <1>3
<1> QED
  BY <1>6, <1>7

LEMMA ChainFromFirst ==
    ASSUME NEW h \in Heap, NEW n \in Nat, NEW c, Chained(h, c, n)
    PROVE  ChainFrom(h, h.first) = {c[j] : j \in 1..n}
<1>1. CASE n = 0
  BY <1>1 DEF Chained, ChainFrom
<1>2. CASE n # 0
  <2>1. 1 \in 1..n /\ h.first = c[1]
    BY <1>2 DEF Chained
  <2> QED
    BY <2>1, ChainFromPosition
<1> QED
  BY <1>1, <1>2

LEMMA ChainFromNext ==
    ASSUME NEW h \in Heap, NEW n \in Nat, NEW c, Chained(h, c, n), NEW i \in 1..n
    PROVE  ChainFrom(h, h.next[c[i]]) = {c[j] : j \in (i + 1)..n}
<1>1. CASE i = n
  BY <1>1 DEF Chained, ChainFrom
<1>2. CASE i # n
  <2>1. i + 1 \in 1..n /\ h.next[c[i]] = c[i + 1]
    BY <1>2 DEF Chained
  <2> QED
    BY <2>1, ChainFromPosition
<1> QED
  BY <1>1, <1>2

\* No chain is longer than there are blocks.
LEMMA ChainLength ==
    ASSUME NEW n \in Nat, NEW c \in [1..n -> Blocks],
           \A i, j \in 1..n : c[i] = c[j] => i = j
    PROVE  n \in 0..Cardinality(Blocks)
<1>1. c \in Injection(1..n, Blocks)
  BY DEF Injection, IsInjective
<1>2. Cardinality(1..n) <= Cardinality(Blocks) /\ Cardinality(Blocks) \in Nat
  BY <1>1, FS_Injection, FS_CardinalityType, BlocksAssumption
<1>3. Cardinality(1..n) = n
  BY FS_Interval
<1> QED
  BY <1>2, <1>3

-----------------------------------------------------------------------------
(* The operations on a heap keep the invariant. *)

\* Markers stay good when blocks are filled and appended.
LEMMA MarkersStay ==
    ASSUME NEW M, NEW R, NEW R2, NEW h, NEW h2, NEW c, NEW c2, NEW k \in Nat, NEW k2 \in Nat,
           NEW p, MarkersAt(M, R, h, c, k, p), M \in Seq(Marker),
           h \in Heap, h2 \in Heap, \A i \in 1..k : c[i] \in Blocks,
           R \subseteq R2, k <= k2,
           \A i \in 1..k : c2[i] = c[i] /\ h.used[c[i]] <= h2.used[c[i]]
    PROVE  MarkersAt(M, R2, h2, c2, k2, p)
<1>1. p \in [1..Len(M) -> 0..k2]
  BY DEF MarkersAt
<1>2. ASSUME NEW i \in 1..Len(M) PROVE MarkerAt(M[i], R2, h2, c2, p[i])
  <2>1. p[i] \in 0..k /\ MarkerAt(M[i], R, h, c, p[i]) /\ M[i] \in Marker
    BY DEF MarkersAt
  <2>2. CASE p[i] = 0
    BY <2>1, <2>2 DEF MarkerAt, At
  <2>3. CASE p[i] # 0
    <3>1. /\ p[i] \in 1..k /\ M[i].used <= h.used[c[p[i]]]
          /\ Within(M[i].regions, h, c, p[i], M[i].used) /\ M[i].used \in Nat
      BY <2>1, <2>3 DEF MarkerAt, Marker
    <3>2. h.used[c[p[i]]] \in Nat /\ h2.used[c[p[i]]] \in Nat
      BY <3>1 DEF Heap
    <3>3. M[i].used <= h2.used[c2[p[i]]]
      BY <3>1, <3>2
    <3>4. ASSUME NEW r \in M[i].regions
          PROVE  \E j \in 1..p[i] : /\ r.block = c2[j]
                                    /\ r.to <= IF j = p[i] THEN M[i].used ELSE h2.used[c2[j]]
      <4>1. PICK j \in 1..p[i] :
              r.block = c[j] /\ r.to <= IF j = p[i] THEN M[i].used ELSE h.used[c[j]]
        BY <3>1 DEF Within
      <4>2. r.to \in Nat /\ j \in 1..k
        BY <2>1, <3>1 DEF Marker, Region
      <4>3. h.used[c[j]] \in Nat /\ h2.used[c[j]] \in Nat
        BY <4>2 DEF Heap
      <4> QED
        BY <4>1, <4>2, <4>3
    <3> QED
      BY <2>1, <2>3, <3>1, <3>3, <3>4 DEF MarkerAt, At, Within
  <2> QED
    BY <2>1, <2>2, <2>3
<1> QED
  BY <1>1, <1>2 DEF MarkersAt

\* What the invariant says, with its witnesses.
LEMMA GoodParts ==
    ASSUME NEW h, NEW R, NEW M, NEW w, Good(h, R, M, w)
    PROVE  /\ HeapOK(h) /\ R \subseteq Region /\ M \in Seq(Marker) /\ w \in BOOLEAN
           /\ Apart(R, h)
           /\ \E n, c, k, p : /\ n \in Nat /\ k \in 0..n
                              /\ Placed(h, R, M, w, c, n, k, p)
                              /\ h.current = NULL <=> k = 0
<1>1. PICK n \in 0..Cardinality(Blocks) : \E c \in [1..n -> Blocks], k \in 0..n :
          \E p \in [1..Len(M) -> 0..k] : Placed(h, R, M, w, c, n, k, p)
  BY DEF Good
<1>2. n \in Nat
  BY FS_CardinalityType, BlocksAssumption
<1>3. PICK c \in [1..n -> Blocks], k \in 0..n : \E p \in [1..Len(M) -> 0..k] :
          Placed(h, R, M, w, c, n, k, p)
  BY <1>1
<1>4. h.current = NULL <=> k = 0
  BY <1>2, <1>3, BlocksAssumption DEF Placed, At
<1> QED
  BY <1>2, <1>3, <1>4 DEF Good

\* The invariant from its witnesses: a chain is never too long.
LEMMA GoodFromParts ==
    ASSUME NEW h, NEW R, NEW M, NEW w, NEW n \in Nat, NEW c, NEW k \in 0..n, NEW p,
           HeapOK(h), R \subseteq Region, M \in Seq(Marker), w \in BOOLEAN, Apart(R, h),
           Placed(h, R, M, w, c, n, k, p)
    PROVE  Good(h, R, M, w)
<1>1. c \in [1..n -> Blocks] /\ \A i, j \in 1..n : c[i] = c[j] => i = j
  BY DEF Placed, Chained, HeapOK, Heap
<1>2. n \in 0..Cardinality(Blocks)
  BY <1>1, ChainLength
<1>3. p \in [1..Len(M) -> 0..k]
  BY DEF Placed, MarkersAt
<1> QED
  BY <1>1, <1>2, <1>3 DEF Good

\* arena_new_block: what a new block is.
LEMMA NewBlockProperties ==
    ASSUME NEW h, HeapOK(h), NEW size \in Nat, NEW o \in NewBlock(h, size), o.block # NULL
    PROVE  /\ o.block \in Blocks \ h.allocated
           /\ HeapOK(o.heap)
           /\ o.heap.allocated = h.allocated \cup {o.block}
           /\ o.heap.first = h.first /\ o.heap.current = h.current
           /\ o.heap.next[o.block] = NULL /\ o.heap.used[o.block] = 0
           /\ o.heap.capacity[o.block] = size
           /\ \A b \in Blocks \ {o.block} :
                 /\ o.heap.next[b] = h.next[b] /\ o.heap.used[b] = h.used[b]
                 /\ o.heap.base[b] = h.base[b]
<1>1. PICK b \in Blocks \ h.allocated, x \in Bases :
        o = [heap |-> WithBlock(h, b, size, x), block |-> b]
  BY DEF NewBlock
<1>2. o.block = b /\ o.heap = WithBlock(h, b, size, x) /\ h \in Heap
  BY <1>1 DEF HeapOK
<1>3. o.heap \in Heap
  <2>1. /\ h.allocated \cup {b} \subseteq Blocks
        /\ [h.next EXCEPT ![b] = NULL] \in [Blocks -> Blocks \cup {NULL}]
        /\ [h.capacity EXCEPT ![b] = size] \in [Blocks -> Nat]
        /\ [h.used EXCEPT ![b] = 0] \in [Blocks -> Nat]
        /\ [h.base EXCEPT ![b] = x] \in [Blocks -> Bases]
    BY <1>2 DEF Heap
  <2>2. WithBlock(h, b, size, x) =
            [first |-> h.first, current |-> h.current, allocated |-> h.allocated \cup {b},
             next |-> [h.next EXCEPT ![b] = NULL], capacity |-> [h.capacity EXCEPT ![b] = size],
             used |-> [h.used EXCEPT ![b] = 0], base |-> [h.base EXCEPT ![b] = x]]
    BY <1>2 DEF Heap, WithBlock
  <2>3. h.first \in Blocks \cup {NULL} /\ h.current \in Blocks \cup {NULL}
    BY <1>2 DEF Heap
  <2> QED
    BY <1>2, <2>1, <2>2, <2>3 DEF Heap
<1>4. /\ o.heap.allocated = h.allocated \cup {b}
      /\ o.heap.first = h.first /\ o.heap.current = h.current
      /\ o.heap.next = [h.next EXCEPT ![b] = NULL]
      /\ o.heap.capacity = [h.capacity EXCEPT ![b] = size]
      /\ o.heap.used = [h.used EXCEPT ![b] = 0]
      /\ o.heap.base = [h.base EXCEPT ![b] = x]
  BY <1>2 DEF Heap, WithBlock
<1>5. HeapOK(o.heap)
  BY <1>2, <1>3, <1>4 DEF HeapOK, Heap
<1> QED
  BY <1>2, <1>4, <1>5 DEF Heap

LEMMA NewBlockNone ==
    ASSUME NEW h, NEW size, NEW o \in NewBlock(h, size), o.block = NULL
    PROVE  o.heap = h
  BY BlocksAssumption DEF NewBlock

\* Regions of allocated blocks do not notice a new block.
LEMMA ApartStays ==
    ASSUME NEW R, NEW h, NEW h2, Apart(R, h), \A r \in R : h2.base[r.block] = h.base[r.block]
    PROVE  Apart(R, h2)
  BY DEF Apart

\* arena_init in an arena without blocks.
LEMMA InitialisedGood ==
    ASSUME NEW h, NEW R, NEW M, NEW w, Good(h, R, M, w), h.current = NULL,
           NEW g \in Initialised(h)
    PROVE  Good(g, R, M, w)
<1>1. PICK n, c, k, p :
          n \in Nat /\ Placed(h, R, M, w, c, n, k, p) /\ k = 0
  BY GoodParts
<1>2. /\ HeapOK(h) /\ h \in Heap /\ R \subseteq Region /\ M \in Seq(Marker) /\ w \in BOOLEAN
      /\ n = 0 /\ R = {} /\ MarkersAt(M, R, h, c, 0, p)
      /\ ~w => h.allocated = {}
      /\ h.first = NULL
  BY <1>1, GoodParts DEF Placed, Chained, HeapOK
<1>3. PICK o \in NewBlock(h, DefaultSize) :
          g = [o.heap EXCEPT !.first = o.block, !.current = o.block]
  BY DEF Initialised
<1>4. CASE o.block = NULL
  <2>1. g = h
    BY <1>2, <1>3, <1>4, NewBlockNone DEF Heap
  <2> QED
    BY <2>1
<1>5. CASE o.block # NULL
  <2> DEFINE d == [i \in 1..1 |-> o.block]
  <2>1. /\ o.block \in Blocks /\ HeapOK(o.heap) /\ o.heap \in Heap
        /\ o.heap.allocated = h.allocated \cup {o.block} /\ o.heap.next[o.block] = NULL
    BY <1>2, <1>5, NewBlockProperties, SizesAssumption DEF HeapOK
  <2>2. /\ HeapOK(g) /\ g \in Heap /\ g.first = o.block /\ g.current = o.block
        /\ g.allocated = o.heap.allocated /\ g.next = o.heap.next
    BY <1>3, <2>1 DEF HeapOK, Heap
  <2>3. Chained(g, d, 1)
    BY <2>1, <2>2 DEF Chained
  <2>4. MarkersAt(M, R, g, d, 1, p)
    BY <1>2, <2>2, MarkersStay
  <2>5. Placed(g, R, M, w, d, 1, 1, p)
    BY <1>2, <2>1, <2>2, <2>3, <2>4 DEF Placed, At
  <2> HIDE DEF d
  <2>6. Apart(R, g)
    BY <1>2 DEF Apart
  <2> QED
    BY <1>2, <2>2, <2>5, <2>6, GoodFromParts
<1> QED
  BY <1>4, <1>5

\* A new block behind the current one.
LEMMA GrownGood ==
    ASSUME NEW h, NEW R, NEW M, NEW w, Good(h, R, M, w), h.current # NULL,
           NEW size \in Nat, NEW o \in NewBlock(h, size), o.block # NULL,
           NEW g, g = Grown(o.heap, o.block)
    PROVE  /\ Good(g, R, M, w) /\ g.current = o.block /\ o.block \in Blocks
           /\ g.used[o.block] = 0 /\ g.capacity[o.block] = size
<1>1. PICK n, c, k, p :
          n \in Nat /\ k \in 1..n /\ Placed(h, R, M, w, c, n, k, p)
  BY GoodParts
<1>2. /\ n \in Nat /\ k \in 1..n
      /\ HeapOK(h) /\ h \in Heap /\ R \subseteq Region /\ M \in Seq(Marker) /\ w \in BOOLEAN
      /\ Apart(R, h) /\ Chained(h, c, n) /\ h.current = c[k] /\ MarkersAt(M, R, h, c, k, p)
      /\ \A r \in R : \E i \in 1..k : r.block = c[i] /\ r.to <= h.used[c[i]]
      /\ ~w => k = n /\ h.allocated = {c[i] : i \in 1..n}
  BY <1>1, GoodParts DEF Placed, At, HeapOK
<1> DEFINE b == o.block
           d == [i \in 1..(k + 1) |-> IF i = k + 1 THEN b ELSE c[i]]
<1>3. /\ b \in Blocks \ h.allocated /\ HeapOK(o.heap) /\ o.heap \in Heap
      /\ o.heap.allocated = h.allocated \cup {b}
      /\ o.heap.first = h.first /\ o.heap.current = h.current
      /\ o.heap.next[b] = NULL /\ o.heap.used[b] = 0 /\ o.heap.capacity[b] = size
      /\ \A x \in Blocks \ {b} :
            /\ o.heap.next[x] = h.next[x] /\ o.heap.used[x] = h.used[x]
            /\ o.heap.base[x] = h.base[x]
  BY <1>2, NewBlockProperties DEF HeapOK
<1>4. \A i \in 1..n : c[i] \in h.allocated /\ c[i] \in Blocks \ {b}
  BY <1>2, <1>3 DEF Chained, Heap
<1>5. /\ g \in Heap /\ g.first = h.first /\ g.current = b
      /\ g.allocated = h.allocated \cup {b} /\ g.used = o.heap.used
      /\ g.base = o.heap.base /\ g.capacity = o.heap.capacity
      /\ g.next = [o.heap.next EXCEPT ![c[k]] = b]
  BY <1>2, <1>3, <1>4 DEF Grown, Heap
<1>17. /\ k + 1 \in Nat \ {0} /\ \A i \in 1..k : i \in 1..n /\ i \in 1..(k + 1) /\ i # k + 1
       /\ 1..(k + 1) = 1..k \cup {k + 1} /\ k + 1 \in 1..(k + 1)
  BY <1>2
<1>18. /\ d = [i \in 1..(k + 1) |-> d[i]] /\ \A i \in 1..k : d[i] = c[i]
       /\ d[k + 1] = b
  BY <1>17
<1> HIDE DEF d
<1>6. HeapOK(g)
  BY <1>3, <1>5 DEF HeapOK
<1>7. Chained(g, d, k + 1)
  <2>1. d \in [1..(k + 1) -> g.allocated]
    BY <1>4, <1>5, <1>17, <1>18
  <2>2. \A i, j \in 1..(k + 1) : d[i] = d[j] => i = j
    <3>1. ASSUME NEW i \in 1..k PROVE d[i] # d[k + 1]
      BY <1>4, <1>17, <1>18
    <3>2. ASSUME NEW i \in 1..k, NEW j \in 1..k, d[i] = d[j] PROVE i = j
      <4>1. c[i] = c[j] /\ i \in 1..n /\ j \in 1..n
        BY <1>17, <1>18, <3>2
      <4> QED
        BY <1>2, <4>1 DEF Chained
    <3> QED
      BY <1>17, <3>1, <3>2
  <2>3. g.first = d[1] /\ k + 1 # 0
    <3>1. 1 \in 1..k /\ n # 0
      BY <1>2
    <3> QED
      BY <1>2, <1>5, <1>17, <1>18, <3>1 DEF Chained
  <2>4. ASSUME NEW i \in 1..(k + 1)
        PROVE  g.next[d[i]] = IF i = k + 1 THEN NULL ELSE d[i + 1]
    <3>1. CASE i = k + 1
      BY <1>2, <1>3, <1>4, <1>5, <1>18, <3>1 DEF Heap
    <3>2. CASE i = k
      <4>1. d[i] = c[k] /\ d[i + 1] = b /\ i # k + 1 /\ c[k] \in Blocks
        BY <1>2, <1>4, <1>18, <3>2
      <4>2. o.heap.next \in [Blocks -> Blocks \cup {NULL}]
        BY <1>3 DEF Heap
      <4> QED
        BY <1>5, <4>1, <4>2
    <3>3. CASE i < k
      <4>1. i \in 1..n /\ i + 1 \in 1..n /\ i # n /\ i # k /\ i + 1 \in 1..k /\ i \in 1..k
        BY <1>2, <3>3
      <4>2. d[i] = c[i] /\ d[i + 1] = c[i + 1] /\ c[i] # c[k]
        BY <1>2, <1>18, <4>1 DEF Chained
      <4>3. g.next[c[i]] = h.next[c[i]]
        BY <1>3, <1>4, <1>5, <4>1, <4>2 DEF Heap
      <4>4. h.next[c[i]] = c[i + 1]
        BY <1>2, <4>1 DEF Chained
      <4> QED
        BY <1>2, <3>3, <4>2, <4>3, <4>4
    <3> QED
      BY <1>2, <3>1, <3>2, <3>3
  <2> QED
    BY <2>1, <2>2, <2>3, <2>4 DEF Chained
<1>8. \A i \in 1..k : /\ d[i] = c[i] /\ c[i] \in Blocks
                    /\ g.used[c[i]] = h.used[c[i]] /\ h.used[c[i]] \in Nat
                    /\ g.base[c[i]] = h.base[c[i]]
  <2> TAKE i \in 1..k
  <2>1. d[i] = c[i] /\ c[i] \in Blocks \ {b}
    BY <1>4, <1>17, <1>18
  <2>2. h.used[c[i]] \in Nat
    BY <1>2, <2>1 DEF Heap
  <2> QED
    BY <1>3, <1>5, <2>1, <2>2
<1>9. MarkersAt(M, R, g, d, k + 1, p)
  <2>1. \A i \in 1..k : d[i] = c[i] /\ h.used[c[i]] <= g.used[c[i]] /\ c[i] \in Blocks
    BY <1>8
  <2>2. k \in Nat /\ k <= k + 1
    BY <1>2
  <2> QED
    BY <1>2, <1>5, <1>17, <2>1, <2>2, MarkersStay
<1>10. \A r \in R : \E i \in 1..(k + 1) : r.block = d[i] /\ r.to <= g.used[d[i]]
  BY <1>2, <1>8, <1>17
<1>11. Apart(R, g)
  <2>1. \A r \in R : g.base[r.block] = h.base[r.block]
    BY <1>2, <1>8
  <2> QED
    BY <1>2, <2>1, ApartStays
<1>12. ~w => g.allocated = {d[i] : i \in 1..(k + 1)}
  <2>1. {d[i] : i \in 1..(k + 1)} = {c[i] : i \in 1..k} \cup {b}
    <3>1. \A i \in 1..(k + 1) : i \in 1..k \/ i = k + 1
      BY <1>17
    <3>2. ASSUME NEW i \in 1..(k + 1) PROVE d[i] \in {c[j] : j \in 1..k} \cup {b}
      BY <1>18, <3>1
    <3>3. ASSUME NEW i \in 1..k PROVE c[i] \in {d[j] : j \in 1..(k + 1)}
      BY <1>17, <1>18
    <3>4. b \in {d[j] : j \in 1..(k + 1)}
      BY <1>17, <1>18
    <3> QED
      BY <3>2, <3>3, <3>4
  <2> QED
    BY <1>2, <1>5, <2>1
<1>13. g.current = d[k + 1]
  BY <1>5, <1>18
<1>14. Placed(g, R, M, w, d, k + 1, k + 1, p)
  BY <1>7, <1>9, <1>10, <1>12, <1>13, <1>17 DEF Placed, At
<1>15. Good(g, R, M, w)
  BY <1>2, <1>6, <1>11, <1>14, <1>17, GoodFromParts
<1> QED
  BY <1>3, <1>5, <1>15

\* What arena_alloc_aligned hands out is a region of its own.
Bumped(h, size, a) == [h EXCEPT !.used[h.current] = Offset(h, h.current, a) + size]

Handed(h, size, a) ==
    [block |-> h.current, from |-> Offset(h, h.current, a),
     to |-> Offset(h, h.current, a) + size, alignment |-> a]

LEMMA BumpedGood ==
    ASSUME NEW h, NEW R, NEW M, NEW w, Good(h, R, M, w), h.current # NULL,
           NEW size \in Sizes, NEW a \in Alignments, Fits(h, size, a)
    PROVE  Good(Bumped(h, size, a), R \cup {Handed(h, size, a)}, M, w)
<1> DEFINE from == Offset(h, h.current, a)
           g == Bumped(h, size, a)
           r0 == Handed(h, size, a)
<1>1. PICK n, c, k, p :
          n \in Nat /\ k \in 1..n /\ Placed(h, R, M, w, c, n, k, p)
  BY GoodParts
<1>2. /\ n \in Nat /\ k \in 1..n
      /\ HeapOK(h) /\ h \in Heap /\ R \subseteq Region /\ M \in Seq(Marker) /\ w \in BOOLEAN
      /\ Apart(R, h) /\ Chained(h, c, n) /\ h.current = c[k] /\ MarkersAt(M, R, h, c, k, p)
      /\ \A r \in R : \E i \in 1..k : r.block = c[i] /\ r.to <= h.used[c[i]]
      /\ ~w => k = n /\ h.allocated = {c[i] : i \in 1..n}
  BY <1>1, GoodParts DEF Placed, At, HeapOK
<1>3. /\ \A i \in 1..k : i \in 1..n /\ c[i] \in Blocks
      /\ h.current \in Blocks /\ k \in 1..k
  BY <1>2 DEF Chained, Heap
<1>4. /\ size \in Nat \ {0} /\ a \in Nat \ {0}
      /\ h.used[h.current] \in Nat /\ h.base[h.current] \in Nat
  BY <1>2, <1>3, SizesAssumption, MaxAlignmentType DEF Heap, Bases
<1>5. /\ from \in Nat /\ h.used[h.current] <= from
      /\ (h.base[h.current] + from) % a = 0
      /\ from + size <= h.capacity[h.current]
  BY <1>2, <1>3, <1>4, OffsetProperties DEF Fits
<1> HIDE DEF from
<1>6. /\ g \in Heap /\ g.first = h.first /\ g.current = h.current
      /\ g.allocated = h.allocated /\ g.next = h.next /\ g.base = h.base
      /\ g.capacity = h.capacity /\ g.used = [h.used EXCEPT ![h.current] = from + size]
  <2>1. g = [first |-> h.first, current |-> h.current, allocated |-> h.allocated,
             next |-> h.next, capacity |-> h.capacity,
             used |-> [h.used EXCEPT ![h.current] = from + size], base |-> h.base]
    <3>1. g = [h EXCEPT !.used[h.current] = from + size]
      BY DEF Bumped, from
    <3> HIDE DEF g
    <3> QED
      BY <1>2, <3>1 DEF Heap
  <2>2. [h.used EXCEPT ![h.current] = from + size] \in [Blocks -> Nat]
    BY <1>2, <1>3, <1>4, <1>5 DEF Heap
  <2> HIDE DEF g
  <2> QED
    BY <1>2, <2>1, <2>2 DEF Heap
<1>7. /\ r0 \in Region /\ r0.block = h.current /\ r0.from = from
      /\ r0.to = from + size /\ r0.alignment = a
  BY <1>3, <1>4, <1>5 DEF Handed, from, Region
<1> HIDE DEF g, r0
<1>8. /\ \A b \in Blocks : h.used[b] \in Nat /\ g.used[b] \in Nat /\ h.used[b] <= g.used[b]
      /\ \A b \in Blocks \ {h.current} : g.used[b] = h.used[b]
      /\ g.used[h.current] = from + size
  <2> DEFINE u == h.used
             cur == h.current
  <2>1. u \in [Blocks -> Nat] /\ cur \in Blocks /\ g.used = [u EXCEPT ![cur] = from + size]
    BY <1>2, <1>3, <1>6 DEF Heap
  <2>2. u[cur] <= from + size /\ from + size \in Nat /\ u[cur] \in Nat
    BY <1>4, <1>5
  <2> HIDE DEF u, cur
  <2>3. g.used[cur] = from + size /\ \A b \in Blocks \ {cur} : g.used[b] = u[b]
    BY <2>1
  <2>4. \A b \in Blocks : u[b] \in Nat
    BY <2>1
  <2>5. ASSUME NEW b \in Blocks PROVE u[b] \in Nat /\ g.used[b] \in Nat /\ u[b] <= g.used[b]
    BY <2>2, <2>3, <2>4
  <2> QED
    BY <2>3, <2>5 DEF u, cur
<1>9. HeapOK(g)
  BY <1>2, <1>5, <1>6, <1>8 DEF HeapOK
<1>10. Chained(g, c, n)
  BY <1>2, <1>6 DEF Chained
<1>11. MarkersAt(M, R \cup {r0}, g, c, k, p)
  <2>1. \A i \in 1..k : c[i] \in Blocks /\ c[i] = c[i] /\ h.used[c[i]] <= g.used[c[i]]
    BY <1>2, <1>3, <1>8
  <2>2. k \in Nat /\ k <= k
    BY <1>2
  <2> QED
    BY <1>2, <1>6, <2>1, <2>2, MarkersStay
<1>12. \A r \in R \cup {r0} : \E i \in 1..k : r.block = c[i] /\ r.to <= g.used[c[i]]
  <2>1. ASSUME NEW r \in R PROVE \E i \in 1..k : r.block = c[i] /\ r.to <= g.used[c[i]]
    <3>1. PICK i \in 1..k : r.block = c[i] /\ r.to <= h.used[c[i]]
      BY <1>2
    <3>2. r.to \in Nat /\ c[i] \in Blocks
      BY <1>2, <1>3 DEF Region
    <3> QED
      BY <1>8, <3>1, <3>2
  <2>2. k \in 1..k /\ r0.block = c[k] /\ r0.to <= g.used[c[k]]
    <3>1. r0.to \in Nat /\ r0.to = g.used[h.current]
      BY <1>3, <1>4, <1>5, <1>7, <1>8
    <3> QED
      BY <1>2, <1>3, <1>7, <3>1
  <2> QED
    BY <2>1, <2>2
<1>13. Apart(R \cup {r0}, g)
  <2>1. ASSUME NEW r \in R, r.block = h.current PROVE r.to <= from
    <3>1. PICK i \in 1..k : r.block = c[i] /\ r.to <= h.used[c[i]]
      BY <1>2
    <3>2. r.to \in Nat
      BY <1>2 DEF Region
    <3> QED
      BY <1>4, <1>5, <2>1, <3>1, <3>2
  <2>2. \A r \in R : (g.base[r.block] + r.from) % r.alignment = 0
    BY <1>2, <1>6 DEF Apart
  <2>3. \A r \in R : \A s \in R \ {r} : s.block = r.block => s.to <= r.from \/ r.to <= s.from
    BY <1>2 DEF Apart
  <2> QED
    BY <1>5, <1>6, <1>7, <2>1, <2>2, <2>3 DEF Apart
<1>14. Placed(g, R \cup {r0}, M, w, c, n, k, p)
  BY <1>2, <1>6, <1>10, <1>11, <1>12 DEF Placed, At
<1>15. R \cup {r0} \subseteq Region /\ k \in 0..n
  BY <1>2, <1>7
<1>16. Good(g, R \cup {r0}, M, w)
  BY <1>2, <1>9, <1>13, <1>14, <1>15, GoodFromParts
<1> QED
  BY <1>16 DEF g, r0

\* arena_reset.
LEMMA ResetGood ==
    ASSUME NEW h, NEW R, NEW M, NEW w, Good(h, R, M, w), NEW g,
           g = [Emptied(h, ChainFrom(h, h.first)) EXCEPT !.current = h.first]
    PROVE  Good(g, {}, <<>>, TRUE)
<1>1. PICK n, c, k, p : n \in Nat /\ k \in 0..n /\ Placed(h, R, M, w, c, n, k, p)
  BY GoodParts
<1>2. n \in Nat /\ HeapOK(h) /\ h \in Heap /\ Chained(h, c, n)
  BY <1>1, GoodParts DEF Placed, HeapOK
<1> DEFINE S == ChainFrom(h, h.first)
           e == [b \in Blocks |-> IF b \in S THEN 0 ELSE h.used[b]]
<1> HIDE DEF S
<1>3. /\ e \in [Blocks -> Nat]
      /\ \A b \in Blocks : e[b] <= h.capacity[b]
  BY <1>2 DEF HeapOK, Heap
<1>4. g = [first |-> h.first, current |-> h.first, allocated |-> h.allocated,
           next |-> h.next, capacity |-> h.capacity, used |-> e, base |-> h.base]
  BY <1>2 DEF Heap, Emptied, S
<1> HIDE DEF e
<1>5. HeapOK(g)
  <2>1. g \in Heap
    BY <1>2, <1>3, <1>4 DEF Heap
  <2> QED
    BY <1>2, <1>3, <1>4, <2>1 DEF HeapOK
<1>6. Chained(g, c, n)
  BY <1>2, <1>4 DEF Chained
<1> DEFINE j == IF n = 0 THEN 0 ELSE 1
           q == [i \in 1..0 |-> 0]
<1>7. j \in 0..n /\ g.current = At(c, j) /\ (j = 0 => n = 0)
  BY <1>2, <1>4 DEF Chained, At
<1> HIDE DEF j
<1>8. MarkersAt(<<>>, {}, g, c, j, q)
  <2>1. Len(<<>>) = 0 /\ 1..0 = {}
    OBVIOUS
  <2>2. q \in [1..0 -> 0..j]
    BY <2>1
  <2> QED
    BY <2>1, <2>2 DEF MarkersAt
<1>9. Placed(g, {}, <<>>, TRUE, c, n, j, q)
  BY <1>6, <1>7, <1>8 DEF Placed
<1>10. Apart({}, g) /\ {} \subseteq Region /\ <<>> \in Seq(Marker)
  BY DEF Apart
<1> QED
  BY <1>2, <1>5, <1>7, <1>9, <1>10, GoodFromParts

\* An arena without blocks, some of which may be lost.
LEMMA EmptyGood ==
    ASSUME NEW A \in SUBSET Blocks, NEW w \in BOOLEAN, ~w => A = {}
    PROVE  Good([NoHeap EXCEPT !.allocated = A], {}, <<>>, w)
<1> DEFINE g == [NoHeap EXCEPT !.allocated = A]
           c == [i \in 1..0 |-> NULL]
           q == [i \in 1..0 |-> 0]
<1>1. 1..0 = {} /\ Len(<<>>) = 0
  OBVIOUS
<1>2. g = [first |-> NULL, current |-> NULL, allocated |-> A,
           next |-> [b \in Blocks |-> NULL], capacity |-> [b \in Blocks |-> 0],
           used |-> [b \in Blocks |-> 0], base |-> [b \in Blocks |-> 0]]
  BY DEF NoHeap
<1> HIDE DEF g
<1>3. 0 \in Bases
  BY MaxAlignmentType, SizesAssumption DEF Bases
<1>4. HeapOK(g)
  <2>1. g \in Heap
    BY <1>2, <1>3 DEF Heap
  <2> QED
    BY <1>2, <2>1 DEF HeapOK
<1>5. Chained(g, c, 0)
  BY <1>1, <1>2 DEF Chained
<1>6. MarkersAt(<<>>, {}, g, c, 0, q)
  <2>1. q \in [1..0 -> 0..0]
    BY <1>1
  <2> QED
    BY <1>1, <2>1 DEF MarkersAt
<1>7. Placed(g, {}, <<>>, w, c, 0, 0, q)
  <2>1. {c[i] : i \in 1..0} = {}
    BY <1>1
  <2> HIDE DEF c, q
  <2> QED
    BY <1>2, <1>5, <1>6, <2>1 DEF Placed, At
<1>8. Apart({}, g) /\ {} \subseteq Region /\ <<>> \in Seq(Marker) /\ 0 \in 0..0 /\ 0 \in Nat
  BY DEF Apart
<1>9. Good(g, {}, <<>>, w)
  BY <1>4, <1>7, <1>8, GoodFromParts
<1> QED
  BY <1>9 DEF g

\* arena_save.
LEMMA SaveGood ==
    ASSUME NEW h, NEW R, NEW M, NEW w, Good(h, R, M, w), NEW m,
           m = [block |-> h.current,
                used |-> IF h.current = NULL THEN 0 ELSE h.used[h.current], regions |-> R]
    PROVE  Good(h, R, Append(M, m), w)
<1>1. PICK n, c, k, p : /\ n \in Nat /\ k \in 0..n /\ Placed(h, R, M, w, c, n, k, p)
                        /\ h.current = NULL <=> k = 0
  BY GoodParts
<1>2. /\ n \in Nat /\ k \in 0..n
      /\ HeapOK(h) /\ h \in Heap /\ R \subseteq Region /\ M \in Seq(Marker) /\ w \in BOOLEAN
      /\ Apart(R, h) /\ Chained(h, c, n) /\ h.current = At(c, k) /\ MarkersAt(M, R, h, c, k, p)
      /\ \A r \in R : \E i \in 1..k : r.block = c[i] /\ r.to <= h.used[c[i]]
      /\ h.current = NULL <=> k = 0
  BY <1>1, GoodParts DEF Placed, HeapOK
<1> DEFINE L == Len(M)
           N == Append(M, m)
           q == [i \in 1..(L + 1) |-> IF i = L + 1 THEN k ELSE p[i]]
<1>3. m \in Marker
  <2>1. h.current \in Blocks \cup {NULL} /\ h.used \in [Blocks -> Nat]
    BY <1>2 DEF Heap
  <2> QED
    BY <1>2, <2>1 DEF Marker
<1>4. /\ L \in Nat /\ N \in Seq(Marker) /\ Len(N) = L + 1 /\ N[L + 1] = m
      /\ \A i \in 1..L : N[i] = M[i]
  BY <1>2, <1>3
<1>5. /\ p \in [1..L -> 0..k] /\ q \in [1..(L + 1) -> 0..k] /\ q[L + 1] = k
      /\ \A i \in 1..L : q[i] = p[i] /\ p[i] \in 0..k
      /\ \A i \in 1..(L + 1) : i \in 1..L \/ i = L + 1
      /\ L + 1 \in 1..(L + 1)
  <2>1. /\ L + 1 \in 1..(L + 1) /\ \A i \in 1..L : i \in 1..(L + 1) /\ i # L + 1
        /\ \A i \in 1..(L + 1) : i \in 1..L \/ i = L + 1
    BY <1>4
  <2>2. p \in [1..L -> 0..k] /\ k \in 0..k
    BY <1>2 DEF MarkersAt
  <2> QED
    BY <2>1, <2>2
<1> HIDE DEF N, q
<1>6. MarkerAt(m, R, h, c, k)
  <2>1. CASE k = 0
    BY <1>2, <2>1 DEF MarkerAt
  <2>2. CASE k # 0
    <3>1. h.current = c[k] /\ c[k] # NULL /\ c[k] \in Blocks
      BY <1>2, <2>2 DEF At, Heap
    <3>2. h.used[c[k]] \in Nat /\ m.used = h.used[c[k]]
      BY <1>2, <3>1 DEF Heap
    <3>3. Within(R, h, c, k, m.used)
      BY <1>2, <3>2 DEF Within
    <3> QED
      BY <1>2, <3>2, <3>3 DEF MarkerAt
  <2> QED
    BY <2>1, <2>2
<1>7. ASSUME NEW i \in 1..(L + 1) PROVE MarkerAt(N[i], R, h, c, q[i])
  <2>1. CASE i = L + 1
    BY <1>4, <1>5, <1>6, <2>1
  <2>2. CASE i \in 1..L
    BY <1>2, <1>4, <1>5, <2>2 DEF MarkersAt
  <2> QED
    BY <1>5, <2>1, <2>2
<1>8. ASSUME NEW i \in 1..(L + 1), NEW j \in 1..(L + 1), i <= j
      PROVE  Older(N[i], q[i], N[j], q[j])
  <2>1. CASE j \in 1..L
    <3>1. i \in 1..L
      BY <1>8, <2>1
    <3> QED
      BY <1>2, <1>4, <1>5, <1>8, <2>1, <3>1 DEF MarkersAt
  <2>2. CASE i \in 1..L /\ j = L + 1
    <3>1. MarkerAt(M[i], R, h, c, p[i]) /\ p[i] \in 0..k
      BY <1>2, <1>5, <2>2 DEF MarkersAt
    <3>2. M[i].regions \subseteq m.regions /\ p[i] <= k
      BY <1>2, <3>1 DEF MarkerAt
    <3>3. ASSUME p[i] = k, k # 0 PROVE M[i].used <= m.used
      <4>1. h.current = c[k] /\ c[k] # NULL
        BY <1>2, <3>3 DEF At
      <4> QED
        BY <3>1, <3>3, <4>1 DEF MarkerAt
    <3> QED
      BY <1>4, <1>5, <2>2, <3>2, <3>3 DEF Older
  <2>3. CASE i = L + 1 /\ j = L + 1
    <3>1. m.used <= m.used /\ k <= k
      BY <1>2, <1>3 DEF Marker
    <3> QED
      BY <1>4, <1>5, <2>3, <3>1 DEF Older
  <2> QED
    BY <1>4, <1>5, <1>8, <2>1, <2>2, <2>3
<1>9. MarkersAt(N, R, h, c, k, q)
  BY <1>4, <1>5, <1>7, <1>8 DEF MarkersAt
<1>10. Placed(h, R, N, w, c, n, k, q)
  BY <1>1, <1>9 DEF Placed
<1>11. Good(h, R, N, w)
  BY <1>2, <1>4, <1>10, GoodFromParts
<1> QED
  BY <1>11 DEF N

\* The first markers of a stack of markers.
LEMMA PrefixMarkers ==
    ASSUME NEW M \in Seq(Marker), NEW i \in 1..Len(M)
    PROVE  /\ SubSeq(M, 1, i) \in Seq(Marker) /\ Len(SubSeq(M, 1, i)) = i
           /\ \A j \in 1..i : SubSeq(M, 1, i)[j] = M[j] /\ j \in 1..Len(M)
  OBVIOUS

\* arena_restore with the marker of an arena without blocks only ends the
\* later markers.
LEMMA RestoreNothingGood ==
    ASSUME NEW h, NEW R, NEW M, NEW w, Good(h, R, M, w), NEW i \in 1..Len(M)
    PROVE  Good(h, R, SubSeq(M, 1, i), w)
<1>1. PICK n, c, k, p : n \in Nat /\ k \in 0..n /\ Placed(h, R, M, w, c, n, k, p)
  BY GoodParts
<1>2. /\ n \in Nat /\ k \in 0..n
      /\ HeapOK(h) /\ R \subseteq Region /\ M \in Seq(Marker) /\ w \in BOOLEAN
      /\ Apart(R, h) /\ MarkersAt(M, R, h, c, k, p)
  BY <1>1, GoodParts DEF Placed
<1> DEFINE N == SubSeq(M, 1, i)
           q == [j \in 1..i |-> p[j]]
<1>3. /\ N \in Seq(Marker) /\ Len(N) = i
      /\ \A j \in 1..i : N[j] = M[j] /\ j \in 1..Len(M)
  BY <1>2, PrefixMarkers
<1>4. q \in [1..i -> 0..k] /\ \A j \in 1..i : q[j] = p[j]
  BY <1>2, <1>3 DEF MarkersAt
<1> HIDE DEF N, q
<1>5. MarkersAt(N, R, h, c, k, q)
  BY <1>2, <1>3, <1>4 DEF MarkersAt
<1>6. Placed(h, R, N, w, c, n, k, q)
  BY <1>1, <1>5 DEF Placed
<1>7. Good(h, R, N, w)
  BY <1>2, <1>3, <1>6, GoodFromParts
<1> QED
  BY <1>7 DEF N

\* The heap h after arena_restore.
Rewound(h, m) ==
    [Emptied(h, ChainFrom(h, h.next[m.block]))
        EXCEPT !.current = m.block, !.used[m.block] = m.used]

\* arena_restore: the marker's block is current again, and what lies behind
\* it is empty.
LEMMA RestoreGood ==
    ASSUME NEW h, NEW R, NEW M, NEW w, Good(h, R, M, w), NEW i \in 1..Len(M),
           NEW m, m = M[i], m.block # NULL,
           NEW g, g = Rewound(h, m)
    PROVE  Good(g, m.regions, SubSeq(M, 1, i), TRUE)
<1>1. PICK n, c, k, p : n \in Nat /\ k \in 0..n /\ Placed(h, R, M, w, c, n, k, p)
  BY GoodParts
<1>2. /\ n \in Nat /\ k \in 0..n
      /\ HeapOK(h) /\ h \in Heap /\ R \subseteq Region /\ M \in Seq(Marker)
      /\ Apart(R, h) /\ Chained(h, c, n) /\ MarkersAt(M, R, h, c, k, p)
  BY <1>1, GoodParts DEF Placed, HeapOK
<1> DEFINE a == p[i]
<1>3. /\ a \in 1..n /\ a \in 0..k /\ m.block = c[a] /\ m.regions \subseteq R /\ m \in Marker
      /\ m.used <= h.used[c[a]] /\ Within(m.regions, h, c, a, m.used)
  <2>1. MarkerAt(m, R, h, c, a) /\ a \in 0..k /\ m \in Marker
    BY <1>2 DEF MarkersAt
  <2>2. a # 0
    BY <2>1 DEF MarkerAt, At
  <2> QED
    BY <1>2, <2>1, <2>2 DEF MarkerAt, At
<1> HIDE DEF a
<1>4. ChainFrom(h, h.next[m.block]) = {c[j] : j \in (a + 1)..n}
  <2>1. ChainFrom(h, h.next[c[a]]) = {c[j] : j \in (a + 1)..n}
    BY <1>2, <1>3, ChainFromNext
  <2> QED
    BY <1>3, <2>1
<1> DEFINE S == ChainFrom(h, h.next[m.block])
           x == c[a]
           e == [b \in Blocks |-> IF b \in S THEN 0 ELSE h.used[b]]
           u == [e EXCEPT ![x] = m.used]
<1>21. g = [Emptied(h, S) EXCEPT !.current = x, !.used[x] = m.used]
  BY <1>3 DEF Rewound
<1> HIDE DEF S
<1>5. /\ x \in Blocks /\ m.used \in Nat /\ m.regions \in SUBSET Region
      /\ \A j \in 1..n : c[j] \in Blocks /\ c[j] \in h.allocated
  BY <1>2, <1>3 DEF Chained, Heap, Marker
<1>6. /\ e \in [Blocks -> Nat] /\ u \in [Blocks -> Nat] /\ u[x] = m.used
      /\ \A b \in Blocks \ {x} : u[b] = e[b]
  <2>1. e \in [Blocks -> Nat]
    BY <1>2 DEF Heap
  <2> HIDE DEF e, x
  <2> QED
    BY <2>1, <1>5
<1>7. \A b \in Blocks : u[b] <= h.capacity[b]
  <2>1. \A b \in Blocks : h.used[b] <= h.capacity[b] /\ h.used[b] \in Nat /\ h.capacity[b] \in Nat
    BY <1>2 DEF HeapOK, Heap
  <2>2. \A b \in Blocks : e[b] <= h.capacity[b]
    BY <2>1
  <2>3. u[x] <= h.capacity[x]
    BY <1>3, <1>5, <1>6, <2>1
  <2> HIDE DEF e, u, x
  <2> QED
    BY <1>5, <1>6, <2>2, <2>3
<1>8. g = [first |-> h.first, current |-> x, allocated |-> h.allocated, next |-> h.next,
           capacity |-> h.capacity, used |-> u, base |-> h.base]
  <2> DEFINE f == Emptied(h, S)
  <2>1. f = [h EXCEPT !.used = e]
    BY DEF Emptied
  <2> HIDE DEF e, f, x
  <2>2. /\ f \in Heap /\ f.first = h.first /\ f.current = h.current
        /\ f.allocated = h.allocated /\ f.next = h.next /\ f.capacity = h.capacity
        /\ f.used = e /\ f.base = h.base
    BY <1>2, <1>6, <2>1 DEF Heap
  <2>3. g = [f EXCEPT !.current = x, !.used[x] = m.used]
    BY <1>21 DEF f
  <2>4. g = [first |-> f.first, current |-> x, allocated |-> f.allocated, next |-> f.next,
             capacity |-> f.capacity, used |-> [f.used EXCEPT ![x] = m.used], base |-> f.base]
    BY <2>2, <2>3 DEF Heap
  <2> QED
    BY <2>2, <2>4
<1>9. \A j \in 1..(a - 1) : c[j] # x /\ u[c[j]] = h.used[c[j]]
  <2> SUFFICES ASSUME NEW j \in 1..(a - 1) PROVE c[j] # x /\ u[c[j]] = h.used[c[j]]
    OBVIOUS
  <2>1. j \in 1..n /\ j # a /\ \A l \in (a + 1)..n : l \in 1..n /\ l # j
    BY <1>2, <1>3
  <2>2. c[j] # x /\ \A l \in (a + 1)..n : c[j] # c[l]
    BY <1>2, <1>3, <2>1 DEF Chained
  <2>3. c[j] \notin S /\ c[j] \in Blocks
    BY <1>4, <1>5, <2>1, <2>2 DEF S
  <2>4. e[c[j]] = h.used[c[j]]
    BY <2>3
  <2> HIDE DEF e, u, x
  <2> QED
    BY <1>6, <2>2, <2>3, <2>4
<1> HIDE DEF e, u
<1>10. HeapOK(g) /\ g \in Heap
  <2>1. /\ h.first \in Blocks \cup {NULL} /\ h.allocated \in SUBSET Blocks
        /\ h.next \in [Blocks -> Blocks \cup {NULL}] /\ h.capacity \in [Blocks -> Nat]
        /\ h.base \in [Blocks -> Bases]
    BY <1>2 DEF Heap
  <2> HIDE DEF x
  <2>2. g \in Heap
    BY <1>5, <1>6, <1>8, <2>1 DEF Heap
  <2>3. x \in h.allocated
    BY <1>3, <1>5 DEF x
  <2> QED
    BY <1>2, <1>7, <1>8, <2>2, <2>3 DEF HeapOK
<1>11. Chained(g, c, n)
  BY <1>2, <1>8 DEF Chained
<1>12. Apart(m.regions, g)
  BY <1>2, <1>3, <1>8 DEF Apart
<1>13. ASSUME NEW r \in m.regions
       PROVE  \E j \in 1..a : r.block = c[j] /\ r.to <= g.used[c[j]]
  <2>1. PICK j \in 1..a : r.block = c[j] /\ r.to <= IF j = a THEN m.used ELSE h.used[c[j]]
    BY <1>3 DEF Within
  <2>2. CASE j = a
    BY <1>6, <1>8, <2>1, <2>2
  <2>3. CASE j # a
    <3>1. j \in 1..(a - 1)
      BY <1>2, <1>3, <2>3
    <3> QED
      BY <1>8, <1>9, <2>1, <2>3, <3>1
  <2> QED
    BY <2>2, <2>3
<1> DEFINE N == SubSeq(M, 1, i)
           q == [j \in 1..i |-> p[j]]
<1>14. /\ N \in Seq(Marker) /\ Len(N) = i /\ i \in Nat
       /\ \A j \in 1..i : N[j] = M[j] /\ j \in 1..Len(M) /\ j <= i
  BY <1>2, PrefixMarkers
<1> HIDE DEF N
<1>15. \A j \in 1..i : /\ q[j] = p[j] /\ p[j] \in 0..a
                       /\ MarkerAt(M[j], R, h, c, p[j]) /\ Older(M[j], p[j], m, a)
  <2> SUFFICES ASSUME NEW j \in 1..i
               PROVE  /\ p[j] \in 0..a /\ MarkerAt(M[j], R, h, c, p[j])
                      /\ Older(M[j], p[j], m, a)
    OBVIOUS
  <2>1. Older(M[j], p[j], m, a) /\ MarkerAt(M[j], R, h, c, p[j]) /\ p[j] \in 0..k
    BY <1>2, <1>14 DEF MarkersAt, a
  <2> QED
    BY <1>2, <1>3, <2>1 DEF Older
<1> HIDE DEF q
<1>16. ASSUME NEW j \in 1..i PROVE MarkerAt(N[j], m.regions, g, c, q[j])
  <2> DEFINE l == M[j]
             b == q[j]
  <2>1. /\ b \in 0..a /\ MarkerAt(l, R, h, c, b) /\ Older(l, b, m, a) /\ N[j] = l /\ l \in Marker
    BY <1>2, <1>14, <1>15
  <2> HIDE DEF l, b
  <2>2. ASSUME b = 0 PROVE MarkerAt(l, m.regions, g, c, b)
    BY <2>1, <2>2 DEF MarkerAt, Older
  <2>3. ASSUME b # 0 PROVE MarkerAt(l, m.regions, g, c, b)
    <3>1. /\ l.used <= h.used[c[b]] /\ Within(l.regions, h, c, b, l.used) /\ l.block = At(c, b)
          /\ l.regions \subseteq m.regions
          /\ b = a => l.used <= m.used
      BY <2>1, <2>3 DEF MarkerAt, Older
    <3>2. b = a \/ b \in 1..(a - 1)
      BY <1>2, <1>3, <2>1, <2>3
    <3>3. l.used <= g.used[c[b]]
      <4>1. CASE b = a
        BY <1>6, <1>8, <3>1, <4>1
      <4>2. CASE b \in 1..(a - 1)
        BY <1>8, <1>9, <3>1, <4>2
      <4> QED
        BY <3>2, <4>1, <4>2
    <3>4. ASSUME NEW y \in 1..b, y # b PROVE g.used[c[y]] = h.used[c[y]]
      <4>1. y \in 1..(a - 1)
        BY <1>2, <1>3, <2>1, <3>4
      <4> QED
        BY <1>8, <1>9, <4>1
    <3>5. Within(l.regions, g, c, b, l.used)
      BY <3>1, <3>4 DEF Within
    <3> QED
      BY <3>1, <3>3, <3>5 DEF MarkerAt
  <2>4. MarkerAt(l, m.regions, g, c, b)
    BY <2>2, <2>3
  <2> QED
    BY <2>1, <2>4 DEF b
<1>17. MarkersAt(N, m.regions, g, c, a, q)
  <2>1. q \in [1..i -> 0..a]
    BY <1>15 DEF q
  <2>2. \A j, l \in 1..i : j <= l => Older(N[j], q[j], N[l], q[l])
    BY <1>2, <1>14, <1>15 DEF MarkersAt
  <2> QED
    BY <1>14, <1>16, <2>1, <2>2 DEF MarkersAt
<1>18. Placed(g, m.regions, N, TRUE, c, n, a, q)
  <2>1. g.current = At(c, a) /\ a # 0
    BY <1>3, <1>8 DEF At
  <2> QED
    BY <1>11, <1>13, <1>17, <2>1 DEF Placed
<1>19. a \in 0..n /\ m.regions \subseteq Region
  BY <1>2, <1>3, <1>5
<1>20. Good(g, m.regions, N, TRUE)
  BY <1>2, <1>10, <1>12, <1>14, <1>18, <1>19, GoodFromParts
<1> QED
  BY <1>20 DEF N

-----------------------------------------------------------------------------
(* The steps, and the theorems. *)

\* A block made for a request has room for it, wherever it lies.
LEMMA NewBlockFits ==
    ASSUME NEW size \in Sizes, NEW a \in Alignments, NEW g \in Heap, g.current \in Blocks,
           g.used[g.current] = 0, g.capacity[g.current] = NextCapacity(size, a)
    PROVE  Fits(g, size, a)
<1>1. size \in Nat /\ a \in Nat \ {0} /\ DefaultSize \in Nat /\ ExtraSize \in Nat
  BY SizesAssumption
<1>2. Offset(g, g.current, a) \in 0..(0 + a - 1)
  BY OffsetProperties
<1>3. size + a <= NextCapacity(size, a)
  BY <1>1 DEF NextCapacity
<1>4. NextCapacity(size, a) \in Nat
  BY <1>1 DEF NextCapacity
<1> QED
  BY <1>1, <1>2, <1>3, <1>4 DEF Fits

LEMMA InitGood == Init => IInv
<1> SUFFICES ASSUME Init PROVE IInv
  OBVIOUS
<1> DEFINE h0 == [NoHeap EXCEPT !.allocated = {}]
<1>1. NoHeap = h0 /\ NoHeap.current = NULL
  BY DEF NoHeap
<1> HIDE DEF h0
<1>2. Good(h0, {}, <<>>, FALSE)
  BY EmptyGood DEF h0
<1>3. Good(heap, {}, <<>>, FALSE)
  BY <1>1, <1>2, InitialisedGood DEF Init
<1> QED
  BY <1>3 DEF Init, IInv

LEMMA AllocGood ==
    ASSUME IInv, NEW size \in Sizes, NEW a \in Alignments, Alloc(size, a)
    PROVE  IInv'
<1>1. PICK h \in IF heap.current = NULL THEN Initialised(heap) ELSE {heap} :
          \/ /\ h.current = NULL
             /\ heap' = h /\ UNCHANGED regions
          \/ /\ h.current # NULL /\ Fits(h, size, a)
             /\ Bump(h, size, a)
          \/ /\ h.current # NULL /\ ~Fits(h, size, a)
             /\ \E o \in NewBlock(h, NextCapacity(size, a)) :
                   IF o.block = NULL THEN heap' = h /\ UNCHANGED regions
                   ELSE Bump(Grown(o.heap, o.block), size, a)
  BY DEF Alloc
<1>2. Good(h, regions, markers, rewound)
  <2>1. CASE heap.current = NULL
    BY <1>1, <2>1, InitialisedGood DEF IInv
  <2>2. CASE heap.current # NULL
    BY <1>1, <2>2 DEF IInv
  <2> QED
    BY <2>1, <2>2
<1>3. markers' = markers /\ rewound' = rewound
  BY DEF Alloc
<1>4. ASSUME NEW g, Good(g, regions, markers, rewound), g.current # NULL, Fits(g, size, a),
             Bump(g, size, a)
      PROVE  IInv'
  <2>1. heap' = Bumped(g, size, a) /\ regions' = regions \cup {Handed(g, size, a)}
    BY <1>4 DEF Bump, Bumped, Handed
  <2> QED
    BY <1>3, <1>4, <2>1, BumpedGood DEF IInv
<1>5. CASE heap' = h /\ UNCHANGED regions
  BY <1>2, <1>3, <1>5 DEF IInv
<1>6. CASE h.current # NULL /\ Fits(h, size, a) /\ Bump(h, size, a)
  BY <1>2, <1>4, <1>6
<1>7. ASSUME h.current # NULL, NEW o \in NewBlock(h, NextCapacity(size, a)), o.block # NULL,
             Bump(Grown(o.heap, o.block), size, a)
      PROVE  IInv'
  <2> DEFINE g == Grown(o.heap, o.block)
  <2>1. NextCapacity(size, a) \in Nat
    BY SizesAssumption DEF NextCapacity
  <2>2. /\ Good(g, regions, markers, rewound) /\ g.current = o.block /\ o.block \in Blocks
        /\ g.used[o.block] = 0 /\ g.capacity[o.block] = NextCapacity(size, a)
    BY <1>2, <1>7, <2>1, GrownGood
  <2> HIDE DEF g
  <2>3. g \in Heap
    BY <2>2 DEF Good, HeapOK
  <2>4. Fits(g, size, a)
    BY <2>2, <2>3, NewBlockFits
  <2> QED
    BY <1>4, <1>7, <2>2, <2>4 DEF g
<1> QED
  BY <1>1, <1>5, <1>6, <1>7

LEMMA FreeGood ==
    ASSUME IInv, Free
    PROVE  IInv'
<1> DEFINE A == heap.allocated \ ChainFrom(heap, heap.first)
<1>1. A \in SUBSET Blocks
  BY DEF IInv, Good, HeapOK, Heap
<1>2. heap' = [NoHeap EXCEPT !.allocated = A]
  BY DEF Free
<1> HIDE DEF A
<1>3. rewound' = (A # {}) /\ regions' = {} /\ markers' = <<>>
  <2>1. heap'.allocated = A
    BY <1>2 DEF NoHeap
  <2> QED
    BY <2>1 DEF Free
<1>4. Good(heap', {}, <<>>, A # {})
  BY <1>1, <1>2, EmptyGood
<1> QED
  BY <1>3, <1>4 DEF IInv

LEMMA RestoreStepGood ==
    ASSUME IInv, NEW i \in DOMAIN markers, Restore(i)
    PROVE  IInv'
<1>1. i \in 1..Len(markers) /\ rewound \in BOOLEAN
  BY DEF IInv, Good
<1>2. CASE markers[i].block = NULL
  <2>1. /\ heap' = heap /\ regions' = regions /\ markers' = SubSeq(markers, 1, i)
        /\ rewound' = rewound
    BY <1>1, <1>2 DEF Restore
  <2> QED
    BY <1>1, <2>1, RestoreNothingGood DEF IInv
<1>3. CASE markers[i].block # NULL
  <2>1. /\ heap' = Rewound(heap, markers[i]) /\ regions' = markers[i].regions
        /\ markers' = SubSeq(markers, 1, i) /\ rewound' = TRUE
    BY <1>1, <1>3 DEF Restore, Rewind, Rewound
  <2> QED
    BY <1>1, <1>3, <2>1, RestoreGood DEF IInv
<1> QED
  BY <1>2, <1>3

\* Every step keeps the invariant.
LEMMA NextGood == IInv /\ [Next]_vars => IInv'
<1> SUFFICES ASSUME IInv, [Next]_vars PROVE IInv'
  OBVIOUS
<1>1. ASSUME NEW size \in Sizes, NEW a \in Alignments, Alloc(size, a) PROVE IInv'
  BY <1>1, AllocGood
<1>2. CASE Reset
  BY <1>2, ResetGood DEF IInv, Reset
<1>3. CASE Free
  BY <1>3, FreeGood
<1>4. CASE Save
  <2> DEFINE m == [block |-> heap.current,
                   used |-> IF heap.current = NULL THEN 0 ELSE heap.used[heap.current],
                   regions |-> regions]
  <2>1. markers' = Append(markers, m) /\ UNCHANGED <<heap, regions, rewound>>
    BY <1>4 DEF Save
  <2>2. Good(heap, regions, Append(markers, m), rewound)
    BY SaveGood DEF IInv
  <2> QED
    BY <2>1, <2>2 DEF IInv
<1>5. ASSUME NEW i \in DOMAIN markers, Restore(i) PROVE IInv'
  BY <1>5, RestoreStepGood
<1>6. CASE UNCHANGED vars
  BY <1>6 DEF IInv, vars
<1> QED
  BY <1>1, <1>2, <1>3, <1>4, <1>5, <1>6 DEF Next

LEMMA GoodImpliesTypeOK == IInv => TypeOK
  BY DEF IInv, Good, HeapOK, TypeOK

LEMMA GoodImpliesRegionsOK == IInv => RegionsOK
<1> SUFFICES ASSUME IInv PROVE RegionsOK
  OBVIOUS
<1>1. PICK n, c, k, p : n \in Nat /\ k \in 0..n /\ Placed(heap, regions, markers, rewound, c, n, k, p)
  BY GoodParts DEF IInv
<1>2. heap \in Heap /\ Apart(regions, heap)
  BY DEF IInv, Good, HeapOK
<1>3. ChainFrom(heap, heap.first) = {c[j] : j \in 1..n}
  BY <1>1, <1>2, ChainFromFirst DEF Placed
<1>4. ASSUME NEW r \in regions
      PROVE  r.block \in ChainFrom(heap, heap.first) /\ r.to <= heap.used[r.block]
  <2>1. PICK i \in 1..k : r.block = c[i] /\ r.to <= heap.used[c[i]]
    BY <1>1 DEF Placed
  <2>2. i \in 1..n
    BY <1>1
  <2> QED
    BY <1>3, <2>1, <2>2
<1> QED
  BY <1>2, <1>4 DEF Apart, RegionsOK

LEMMA GoodImpliesNoBlockLost == IInv => GrowingLosesNoBlock
<1> SUFFICES ASSUME IInv, ~rewound PROVE NoBlockLost
  BY DEF GrowingLosesNoBlock
<1>1. PICK n, c, k, p : n \in Nat /\ k \in 0..n /\ Placed(heap, regions, markers, rewound, c, n, k, p)
  BY GoodParts DEF IInv
<1>2. heap \in Heap
  BY DEF IInv, Good, HeapOK
<1>3. ChainFrom(heap, heap.first) = {c[j] : j \in 1..n}
  BY <1>1, <1>2, ChainFromFirst DEF Placed
<1> QED
  BY <1>1, <1>3 DEF Placed, NoBlockLost

\* arena.c: the chain and what the markers say stay as the invariant lays
\* them out, whatever is allocated, saved, restored, reset and freed.
THEOREM Invariance == Spec => []IInv
<1> QED
  BY InitGood, NextGood, PTL DEF Spec

\* arena.c: no block is used beyond its capacity.
THEOREM TypeCorrect == Spec => []TypeOK
<1> QED
  BY Invariance, GoodImpliesTypeOK, PTL

\* arena_alloc_aligned, arena_save and arena_restore: memory that its user
\* holds is aligned, in a block of the chain and nobody else's.
THEOREM RegionsCorrect == Spec => []RegionsOK
<1> QED
  BY Invariance, GoodImpliesRegionsOK, PTL

\* arena_free: an arena that only grew gives every block back.
THEOREM GrowingCorrect == Spec => []GrowingLosesNoBlock
<1> QED
  BY Invariance, GoodImpliesNoBlockLost, PTL
=============================================================================
