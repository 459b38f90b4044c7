------------------------------- MODULE MmProofs -------------------------------
(***************************************************************************)
(* Theorems about Mm, for a heap of any size, any chunk size, any number   *)
(* of lists, any search limit, and any requests.                           *)
(***************************************************************************)
EXTENDS Mm, FiniteSetTheorems, WellFoundedInduction, TLAPS

(***************************************************************************)
(* There is a first number in a set, and in one that is bounded a last.    *)
(***************************************************************************)
LEMMA FirstExists ==
  ASSUME NEW S \in SUBSET Nat, S # {}
  PROVE  \E x \in S : \A y \in S : x <= y
<1> DEFINE Less == {ss \in Nat \X Nat : ss[1] < ss[2]}
<1>1. IsWellFoundedOn(Less, Nat)
  BY NatLessThanWellFounded DEF OpToRel
<1>2. PICK x \in S : \A y \in S : ~ (<<y, x>> \in Less)
  <2> HIDE DEF Less
  <2> QED BY <1>1, WFMin
<1>3. ASSUME NEW y \in S PROVE x <= y
  <2>1. <<y, x>> \notin Less /\ x \in Nat /\ y \in Nat
    BY <1>2
  <2> QED BY <2>1
<1> QED BY <1>3

LEMMA LastExists ==
  ASSUME NEW n \in Nat, NEW S \in SUBSET (0 .. n), S # {}
  PROVE  \E x \in S : \A y \in S : y <= x
<1> DEFINE T == {n - x : x \in S}
<1>1. T \in SUBSET Nat /\ T # {}
  <2>1. \A x \in S : n - x \in Nat
    OBVIOUS
  <2> QED BY <2>1
<1>2. PICK t \in T : \A y \in T : t <= y
  <2> HIDE DEF T
  <2> QED BY <1>1, FirstExists
<1>3. PICK x \in S : t = n - x
  BY <1>2
<1>4. ASSUME NEW y \in S PROVE y <= x
  <2>1. n - y \in T /\ x \in 0 .. n /\ y \in 0 .. n
    OBVIOUS
  <2>2. n - x <= n - y
    BY <1>2, <1>3, <2>1
  <2> QED BY <2>1, <2>2
<1> QED BY <1>3, <1>4

-----------------------------------------------------------------------------
(***************************************************************************)
(* Blocks and where they end: at the next block or at the epilogue.        *)
(***************************************************************************)
Bounds(h) == Blocks(h) \cup {h.brk}
Taken(h)  == {b \in Blocks(h) : h.hdr[b].alloc}

LEMMA Numbers ==
  /\ HeapUnits \in Nat /\ 0 \in Unit
  /\ \A u : u \in Unit <=> u \in Nat /\ u <= HeapUnits
BY MmAssumption DEF Unit

LEMMA HeapFields ==
  ASSUME NEW h \in Heap
  PROVE  /\ h.hdr \in [Unit -> Header] /\ h.ftr \in [Unit -> Header]
         /\ h.nxt \in [Unit -> Link] /\ h.prv \in [Unit -> Link]
         /\ h.head \in [Class -> Unit \cup {Null}]
         /\ h.brk \in Unit /\ h.brk \in Nat /\ h.ready \in BOOLEAN
         /\ \A u \in Unit : /\ h.hdr[u] \in Header /\ h.ftr[u] \in Header
                            /\ h.hdr[u].size \in Unit /\ h.ftr[u].size \in Unit
                            /\ h.hdr[u].size \in Nat /\ h.ftr[u].size \in Nat
         /\ \A u \in Blocks(h) : u \in Unit /\ u \in Nat
         /\ \A u \in Bounds(h) : u \in Unit /\ u \in Nat
<1>1. /\ h.hdr \in [Unit -> Header] /\ h.ftr \in [Unit -> Header]
      /\ h.nxt \in [Unit -> Link] /\ h.prv \in [Unit -> Link]
      /\ h.head \in [Class -> Unit \cup {Null}]
      /\ h.brk \in Unit /\ h.ready \in BOOLEAN
  BY DEF Heap
<1>2. \A u \in Unit : /\ h.hdr[u] \in Header /\ h.ftr[u] \in Header
                      /\ h.hdr[u].size \in Unit /\ h.ftr[u].size \in Unit
  BY <1>1 DEF Header
<1>3. \A u \in Bounds(h) : u \in Unit
  BY <1>1 DEF Blocks, Bounds
<1> QED BY <1>1, <1>2, <1>3, Numbers DEF Bounds

LEMMA BlockFacts ==
  ASSUME NEW h \in Heap, Tiled(h), NEW b \in Blocks(h)
  PROVE  /\ b \in Unit /\ b \in Nat
         /\ h.hdr[b].size \in Unit /\ h.hdr[b].size \in Nat /\ h.hdr[b].size >= 2
         /\ FindNext(h, b) = b + h.hdr[b].size
         /\ FindNext(h, b) \in Unit /\ FindNext(h, b) \in Nat /\ FindNext(h, b) <= h.brk
         /\ b < h.brk /\ b + 2 <= FindNext(h, b)
         /\ FindNext(h, b) \in Bounds(h)
<1>1. /\ b \in Unit /\ b \in Nat /\ h.hdr[b].size \in Unit /\ h.hdr[b].size \in Nat
      /\ h.brk \in Nat /\ h.brk <= HeapUnits /\ HeapUnits \in Nat
  BY HeapFields, Numbers
<1>2. /\ h.hdr[b].size >= 2 /\ FindNext(h, b) <= h.brk
      /\ FindNext(h, b) # h.brk => FindNext(h, b) \in Blocks(h)
  BY DEF Tiled, MinBlockSize
<1>3. FindNext(h, b) = b + h.hdr[b].size
  BY DEF FindNext
<1>4. FindNext(h, b) \in Nat
  BY <1>1, <1>3
<1>5. FindNext(h, b) \in Bounds(h)
  BY <1>2 DEF Bounds
<1> HIDE DEF FindNext
<1> QED BY <1>1, <1>2, <1>3, <1>4, <1>5, Numbers

\* Nothing begins or ends inside a block.
LEMMA Apart ==
  ASSUME NEW h \in Heap, Tiled(h), NEW b \in Blocks(h), NEW d \in Bounds(h), b < d
  PROVE  FindNext(h, b) <= d
<1>1. PICK n : n = FindNext(h, b)
  OBVIOUS
<1>2. n \in Nat /\ n <= h.brk /\ b \in Nat /\ d \in Nat
  BY <1>1, BlockFacts, HeapFields
<1>3. \A u \in b + 1 .. n - 1 : u \notin Blocks(h)
  BY <1>1 DEF Tiled
<1>4. CASE d \in Blocks(h)
  <2>1. d \notin b + 1 .. n - 1
    BY <1>3, <1>4
  <2> QED BY <1>1, <1>2, <2>1
<1>5. CASE d = h.brk
  BY <1>1, <1>2, <1>5
<1> QED BY <1>4, <1>5 DEF Bounds

\* What does not start the heap has a block before it.
LEMMA BlockBefore ==
  ASSUME NEW h \in Heap, Tiled(h), NEW d \in Bounds(h), d # 0
  PROVE  \E p \in Blocks(h) : p < d /\ FindNext(h, p) = d
<1> DEFINE S == {b \in Blocks(h) : b < d}
<1>1. h.brk \in Nat /\ d \in Nat /\ \A b \in Blocks(h) : b \in Nat /\ b < h.brk
  BY HeapFields, BlockFacts
<1>2. 0 \in Blocks(h)
  <2>1. h.brk # 0
    BY <1>1 DEF Bounds
  <2> QED BY <2>1 DEF Tiled
<1>3. S \in SUBSET (0 .. d) /\ S # {}
  <2>1. \A b \in S : b \in 0 .. d
    BY <1>1
  <2>2. 0 \in S
    BY <1>1, <1>2
  <2> QED BY <2>1, <2>2
<1>4. PICK p \in S : \A y \in S : y <= p
  <2> HIDE DEF S
  <2> QED BY <1>1, <1>3, LastExists
<1>5. p \in Blocks(h) /\ p < d /\ p \in Nat
  BY <1>1
<1>6. PICK n : n = FindNext(h, p)
  OBVIOUS
<1>7. n <= d /\ n \in Bounds(h) /\ p + 2 <= n /\ n \in Nat
  BY <1>5, <1>6, Apart, BlockFacts
<1>8. ASSUME n < d PROVE FALSE
  <2>1. n \in Blocks(h)
    <3>1. d <= h.brk
      BY <1>1 DEF Bounds
    <3>2. n # h.brk
      BY <1>1, <1>7, <1>8, <3>1
    <3> QED BY <1>7, <3>2 DEF Bounds
  <2>2. n <= p
    BY <1>4, <1>8, <2>1
  <2> QED BY <1>5, <1>7, <2>2
<1>9. n = d
  BY <1>1, <1>7, <1>8
<1> QED BY <1>5, <1>6, <1>9

-----------------------------------------------------------------------------
(***************************************************************************)
(* The part of a heap from block lo to the boundary hi gets other blocks:  *)
(* one, or an allocated one and a free one behind it, from mid on.         *)
(***************************************************************************)
Part(h, lo, mid, hi) ==
  /\ lo \in Blocks(h) /\ hi \in Bounds(h) /\ mid \in Nat
  /\ lo + 2 <= mid /\ (mid = hi \/ mid + 2 <= hi)

Relaid(h, g, lo, mid, hi) ==
  /\ g.brk = h.brk /\ g.ready = h.ready
  /\ \A u \in Unit : u < lo \/ hi < u => g.hdr[u] = h.hdr[u]
  /\ \A u \in Unit : u <= lo \/ hi < u => g.ftr[u] = h.ftr[u]
  /\ \A u \in Unit : lo < u /\ u < hi /\ u # mid => g.hdr[u].size = 0
  /\ g.hdr[lo].size = mid - lo /\ g.hdr[lo].prev = h.hdr[lo].prev
  /\ g.hdr[hi].size = h.hdr[hi].size /\ g.hdr[hi].alloc = h.hdr[hi].alloc
  /\ mid = hi => /\ g.hdr[hi].prev = g.hdr[lo].alloc
                 /\ ~g.hdr[lo].alloc => g.ftr[hi] = g.hdr[lo]
  /\ mid # hi => /\ g.hdr[lo].alloc
                 /\ g.hdr[mid].size = hi - mid
                 /\ ~g.hdr[mid].alloc /\ g.hdr[mid].prev
                 /\ ~g.hdr[hi].prev /\ g.ftr[hi] = g.hdr[mid]

LEMMA PartFacts ==
  ASSUME NEW h \in Heap, Tiled(h), NEW lo, NEW mid, NEW hi, Part(h, lo, mid, hi)
  PROVE  /\ lo \in Nat /\ mid \in Nat /\ hi \in Nat /\ lo + 2 <= mid /\ mid <= hi
         /\ hi <= h.brk /\ h.brk \in Nat
         /\ lo \in Unit /\ mid \in Unit /\ hi \in Unit
<1>1. lo \in Nat /\ hi \in Nat /\ mid \in Nat /\ lo + 2 <= mid /\ mid <= hi
  BY HeapFields DEF Part
<1>2. hi <= h.brk /\ h.brk \in Nat
  BY <1>1, HeapFields, BlockFacts DEF Part, Bounds
<1>3. h.brk <= HeapUnits /\ HeapUnits \in Nat
  BY HeapFields, Numbers
<1>4. lo <= HeapUnits /\ mid <= HeapUnits /\ hi <= HeapUnits
  BY <1>1, <1>2, <1>3
<1> QED BY <1>1, <1>2, <1>4, Numbers

LEMMA RelaidBlocks ==
  ASSUME NEW h \in Heap, NEW g \in Heap, Tiled(h), NEW lo, NEW mid, NEW hi,
         Part(h, lo, mid, hi), Relaid(h, g, lo, mid, hi)
  PROVE  \A u : u \in Blocks(g) <=>
           \/ u \in Blocks(h) /\ u < lo
           \/ u \in Blocks(h) /\ hi <= u
           \/ u = lo
           \/ u = mid /\ mid # hi
<1>1. /\ lo \in Nat /\ mid \in Nat /\ hi \in Nat /\ lo + 2 <= mid /\ mid <= hi
      /\ lo \in Unit /\ mid \in Unit /\ hi \in Unit
  BY PartFacts
<1>2. \A u \in Unit : u \in Nat /\ g.hdr[u].size \in Nat /\ h.hdr[u].size \in Nat
  BY HeapFields, Numbers
<1>3. ASSUME NEW u \in Unit
      PROVE  g.hdr[u].size > 0 <=>
               \/ h.hdr[u].size > 0 /\ u < lo
               \/ h.hdr[u].size > 0 /\ hi <= u
               \/ u = lo
               \/ u = mid /\ mid # hi
  <2>1. u \in Nat
    BY <1>2
  <2>2. CASE u < lo \/ hi < u
    BY <1>1, <2>1, <2>2 DEF Relaid
  <2>3. CASE u = lo
    BY <1>1, <2>3 DEF Relaid
  <2>4. CASE u = hi
    BY <1>1, <2>4 DEF Relaid
  <2>5. CASE lo < u /\ u < hi /\ u # mid
    BY <1>1, <2>1, <2>5 DEF Relaid
  <2>6. CASE u = mid /\ u < hi
    BY <1>1, <2>6 DEF Relaid
  <2> QED BY <1>1, <2>1, <2>2, <2>3, <2>4, <2>5, <2>6
<1> QED BY <1>1, <1>3 DEF Blocks

LEMMA RelaidTiled ==
  ASSUME NEW h \in Heap, NEW g \in Heap, Tiled(h), NEW lo, NEW mid, NEW hi,
         Part(h, lo, mid, hi), Relaid(h, g, lo, mid, hi)
  PROVE  Tiled(g)
<1>1. /\ lo \in Nat /\ mid \in Nat /\ hi \in Nat /\ lo + 2 <= mid /\ mid <= hi
      /\ hi <= h.brk /\ h.brk \in Nat /\ g.brk = h.brk
      /\ lo \in Unit /\ mid \in Unit /\ hi \in Unit
  BY PartFacts DEF Relaid
<1>2. \A u : u \in Blocks(g) <=>
           \/ u \in Blocks(h) /\ u < lo
           \/ u \in Blocks(h) /\ hi <= u
           \/ u = lo
           \/ u = mid /\ mid # hi
  BY RelaidBlocks
<1>3. /\ g.hdr[g.brk].size = 0 /\ g.hdr[g.brk].alloc
      /\ g.brk # 0 => 0 \in Blocks(g)
  <2>1. g.hdr[h.brk].size = 0 /\ g.hdr[h.brk].alloc
    <3>1. CASE h.brk = hi
      BY <1>1, <3>1 DEF Relaid, Tiled
    <3>2. CASE hi < h.brk
      BY <1>1, <3>2, HeapFields DEF Relaid, Tiled
    <3> QED BY <1>1, <3>1, <3>2
  <2>2. 0 \in Blocks(g)
    BY <1>1, <1>2 DEF Tiled
  <2> QED BY <1>1, <2>1, <2>2
<1>4. ASSUME NEW b \in Blocks(g)
      PROVE  /\ g.hdr[b].size >= MinBlockSize
             /\ FindNext(g, b) <= g.brk
             /\ FindNext(g, b) # g.brk => FindNext(g, b) \in Blocks(g)
             /\ \A u \in b + 1 .. FindNext(g, b) - 1 : u \notin Blocks(g)
  <2>1. CASE b \in Blocks(h) /\ (b < lo \/ hi <= b)
    <3>1. PICK n : n = FindNext(h, b)
      OBVIOUS
    <3>2. /\ b \in Nat /\ n \in Nat /\ n <= h.brk /\ b + 2 <= n /\ n \in Bounds(h)
          /\ n = b + h.hdr[b].size /\ h.hdr[b].size >= 2 /\ b \in Unit
      BY <2>1, <3>1, BlockFacts
    <3>3. g.hdr[b].size = h.hdr[b].size
      BY <1>1, <2>1, <3>2 DEF Relaid
    <3>4. FindNext(g, b) = n
      BY <3>2, <3>3 DEF FindNext
    <3>5. b < lo => n <= lo
      BY <2>1, <3>1, Apart DEF Part, Bounds
    <3>6. n # g.brk => n \in Blocks(g)
      <4>1. n # g.brk => n \in Blocks(h)
        BY <1>1, <3>2 DEF Bounds
      <4> QED BY <1>1, <1>2, <2>1, <3>2, <3>5, <4>1
    <3>7. ASSUME NEW u \in b + 1 .. n - 1 PROVE u \notin Blocks(g)
      <4>1. u \notin Blocks(h)
        BY <2>1, <3>1 DEF Tiled
      <4> QED BY <1>1, <1>2, <2>1, <3>2, <3>5, <4>1
    <3> QED BY <1>1, <3>2, <3>3, <3>4, <3>6, <3>7 DEF MinBlockSize
  <2>2. CASE b = lo
    <3>1. FindNext(g, b) = mid /\ g.hdr[b].size = mid - lo
      BY <1>1, <2>2 DEF Relaid, FindNext
    <3>2. mid # h.brk => mid \in Blocks(g)
      BY <1>1, <1>2 DEF Part, Bounds
    <3>3. \A u \in lo + 1 .. mid - 1 : u \notin Blocks(g)
      BY <1>1, <1>2
    <3> QED BY <1>1, <2>2, <3>1, <3>2, <3>3 DEF MinBlockSize
  <2>3. CASE b = mid /\ mid # hi
    <3>1. FindNext(g, b) = hi /\ g.hdr[b].size = hi - mid /\ mid + 2 <= hi
      BY <1>1, <2>3 DEF Relaid, FindNext, Part
    <3>2. hi # h.brk => hi \in Blocks(g)
      BY <1>1, <1>2 DEF Part, Bounds
    <3>3. \A u \in mid + 1 .. hi - 1 : u \notin Blocks(g)
      BY <1>1, <1>2
    <3> QED BY <1>1, <2>3, <3>1, <3>2, <3>3 DEF MinBlockSize
  <2> QED BY <1>2, <1>4, <2>1, <2>2, <2>3
<1> QED BY <1>3, <1>4 DEF Tiled

Prologue(h) == h.ftr[0].size = 0 /\ h.ftr[0].alloc

LEMMA RelaidTags ==
  ASSUME NEW h \in Heap, NEW g \in Heap, Tiled(h), NEW lo, NEW mid, NEW hi,
         Part(h, lo, mid, hi), Relaid(h, g, lo, mid, hi),
         TagsAgree(h), Prologue(h), h.hdr[hi].alloc
  PROVE  TagsAgree(g) /\ Prologue(g)
<1>1. /\ lo \in Nat /\ mid \in Nat /\ hi \in Nat /\ lo + 2 <= mid /\ mid <= hi
      /\ hi <= h.brk /\ h.brk \in Nat /\ g.brk = h.brk
      /\ lo \in Unit /\ mid \in Unit /\ hi \in Unit /\ 0 \in Unit
  BY PartFacts, Numbers DEF Relaid
<1>2. \A u : u \in Blocks(g) <=>
           \/ u \in Blocks(h) /\ u < lo
           \/ u \in Blocks(h) /\ hi <= u
           \/ u = lo
           \/ u = mid /\ mid # hi
  BY RelaidBlocks
<1>3. Prologue(g)
  BY <1>1 DEF Prologue, Relaid
<1>4. g.hdr[0].prev
  BY <1>1 DEF TagsAgree, Relaid
<1>5. ASSUME NEW b \in Blocks(g)
      PROVE  /\ g.hdr[FindNext(g, b)].prev = g.hdr[b].alloc
             /\ ~g.hdr[b].alloc => g.ftr[FindNext(g, b)] = g.hdr[b]
  <2>1. CASE b \in Blocks(h) /\ b < lo
    <3>1. PICK n : n = FindNext(h, b)
      OBVIOUS
    <3>2. b \in Nat /\ b \in Unit /\ n \in Nat /\ n \in Unit /\ b + 2 <= n
      BY <2>1, <3>1, BlockFacts
    <3>3. n <= lo
      BY <2>1, <3>1, Apart DEF Part, Bounds
    <3>4. g.hdr[b] = h.hdr[b]
      BY <2>1, <3>2 DEF Relaid
    <3>5. FindNext(g, b) = n
      BY <3>1, <3>4 DEF FindNext
    <3>6. g.hdr[n].prev = h.hdr[n].prev /\ g.ftr[n] = h.ftr[n]
      BY <1>1, <3>2, <3>3 DEF Relaid
    <3> QED BY <2>1, <3>1, <3>4, <3>5, <3>6 DEF TagsAgree
  <2>2. CASE b \in Blocks(h) /\ hi <= b
    <3>1. PICK n : n = FindNext(h, b)
      OBVIOUS
    <3>2. b \in Nat /\ b \in Unit /\ n \in Nat /\ n \in Unit /\ b + 2 <= n
      BY <2>2, <3>1, BlockFacts
    <3>3. /\ g.hdr[b].size = h.hdr[b].size /\ g.hdr[b].alloc = h.hdr[b].alloc
          /\ b # hi => g.hdr[b] = h.hdr[b]
      <4>1. CASE b = hi
        BY <4>1 DEF Relaid
      <4>2. CASE hi < b
        BY <3>2, <4>2 DEF Relaid
      <4> QED BY <1>1, <2>2, <3>2, <4>1, <4>2
    <3>4. FindNext(g, b) = n
      BY <3>1, <3>3 DEF FindNext
    <3>5. g.hdr[n] = h.hdr[n] /\ g.ftr[n] = h.ftr[n]
      BY <1>1, <2>2, <3>2 DEF Relaid
    <3>6. /\ h.hdr[n].prev = h.hdr[b].alloc
          /\ ~h.hdr[b].alloc => h.ftr[n] = h.hdr[b]
      BY <2>2, <3>1 DEF TagsAgree
    <3>7. ~g.hdr[b].alloc => g.hdr[b] = h.hdr[b]
      <4>1. CASE b = hi
        <5>1. g.hdr[hi].alloc = h.hdr[hi].alloc
          BY <3>3, <4>1
        <5>2. g.hdr[hi].alloc
          BY <5>1
        <5> QED BY <4>1, <5>2
      <4>2. CASE b # hi
        BY <3>3, <4>2
      <4> QED BY <4>1, <4>2
    <3> QED BY <3>3, <3>4, <3>5, <3>6, <3>7
  <2>3. CASE b = lo
    <3>1. FindNext(g, b) = mid
      BY <1>1, <2>3 DEF Relaid, FindNext
    <3> QED BY <2>3, <3>1 DEF Relaid
  <2>4. CASE b = mid /\ mid # hi
    <3>1. FindNext(g, b) = hi
      BY <1>1, <2>4 DEF Relaid, FindNext
    <3>2. ~g.hdr[mid].alloc /\ ~g.hdr[hi].prev /\ g.ftr[hi] = g.hdr[mid]
      BY <2>4 DEF Relaid
    <3>3. g.hdr[mid].alloc \in BOOLEAN /\ g.hdr[hi].prev \in BOOLEAN
      BY <1>1, HeapFields DEF Header
    <3>4. g.hdr[hi].prev = g.hdr[mid].alloc
      BY <3>2, <3>3
    <3> QED BY <2>4, <3>1, <3>2, <3>4
  <2> QED BY <1>2, <2>1, <2>2, <2>3, <2>4
<1> QED BY <1>3, <1>4, <1>5 DEF TagsAgree

\* A free part must not touch a free block before it.
LEMMA RelaidNoFreeNeighbours ==
  ASSUME NEW h \in Heap, NEW g \in Heap, Tiled(h), NEW lo, NEW mid, NEW hi,
         Part(h, lo, mid, hi), Relaid(h, g, lo, mid, hi),
         TagsAgree(h), NoFreeNeighbours(h), h.hdr[hi].alloc,
         h.hdr[lo].prev \/ g.hdr[lo].alloc
  PROVE  NoFreeNeighbours(g)
<1>1. /\ lo \in Nat /\ mid \in Nat /\ hi \in Nat /\ lo + 2 <= mid /\ mid <= hi
      /\ hi <= h.brk /\ h.brk \in Nat /\ g.brk = h.brk
      /\ lo \in Unit /\ mid \in Unit /\ hi \in Unit /\ 0 \in Unit
  BY PartFacts, Numbers DEF Relaid
<1>2. \A u : u \in Blocks(g) <=>
           \/ u \in Blocks(h) /\ u < lo
           \/ u \in Blocks(h) /\ hi <= u
           \/ u = lo
           \/ u = mid /\ mid # hi
  BY RelaidBlocks
<1> SUFFICES ASSUME NEW b \in FreeBlocks(g), FindNext(g, b) \in FreeBlocks(g)
             PROVE  FALSE
  BY DEF NoFreeNeighbours
<1>3. b \in Blocks(g) /\ ~g.hdr[b].alloc
  BY DEF FreeBlocks
<1>4. PICK n : n = FindNext(g, b)
  OBVIOUS
<1>5. n \in Blocks(g) /\ ~g.hdr[n].alloc
  BY <1>4 DEF FreeBlocks
<1>6. n # hi
  BY <1>5 DEF Relaid
<1>7. CASE b \in Blocks(h) /\ b < lo
  <2>1. b \in Nat /\ b \in Unit /\ FindNext(h, b) \in Nat /\ FindNext(h, b) <= lo
    BY <1>7, BlockFacts, Apart DEF Part, Bounds
  <2>2. g.hdr[b] = h.hdr[b] /\ n = FindNext(h, b)
    BY <1>4, <1>7, <2>1 DEF Relaid, FindNext
  <2>3. CASE n = lo
    BY <1>3, <1>5, <1>7, <2>2, <2>3 DEF TagsAgree
  <2>4. CASE n < lo
    <3>1. n \in Blocks(h)
      BY <1>1, <1>2, <1>5, <2>1, <2>4
    <3>2. g.hdr[n] = h.hdr[n]
      BY <2>4, <3>1 DEF Relaid, Blocks
    <3> QED BY <1>3, <1>5, <1>7, <2>2, <3>1, <3>2 DEF NoFreeNeighbours, FreeBlocks
  <2> QED BY <1>1, <2>1, <2>2, <2>3, <2>4
<1>8. CASE b \in Blocks(h) /\ hi <= b
  <2>1. b \in Nat /\ b \in Unit /\ FindNext(h, b) \in Nat /\ b + 2 <= FindNext(h, b)
    BY <1>8, BlockFacts
  <2>2. g.hdr[b].size = h.hdr[b].size /\ g.hdr[b].alloc = h.hdr[b].alloc
    <3>1. CASE b = hi
      BY <3>1 DEF Relaid
    <3>2. CASE hi < b
      BY <2>1, <3>2 DEF Relaid
    <3> QED BY <1>1, <1>8, <2>1, <3>1, <3>2
  <2>3. n = FindNext(h, b)
    BY <1>4, <2>2 DEF FindNext
  <2>4. n \in Blocks(h) /\ g.hdr[n] = h.hdr[n]
    BY <1>1, <1>2, <1>5, <1>8, <2>1, <2>3 DEF Relaid, Blocks
  <2> QED BY <1>3, <1>5, <1>8, <2>2, <2>3, <2>4 DEF NoFreeNeighbours, FreeBlocks
<1>9. CASE b = lo
  <2>1. n = mid
    BY <1>1, <1>4, <1>9 DEF Relaid, FindNext
  <2> QED BY <1>3, <1>6, <1>9, <2>1 DEF Relaid
<1>10. CASE b = mid /\ mid # hi
  <2>1. n = hi
    BY <1>1, <1>4, <1>10 DEF Relaid, FindNext
  <2> QED BY <1>6, <2>1
<1> QED BY <1>2, <1>3, <1>7, <1>8, <1>9, <1>10

-----------------------------------------------------------------------------
(***************************************************************************)
(* Free lists over a set of blocks: the links and heads stay in the set,   *)
(* keep to one class, and lead back.                                       *)
(***************************************************************************)
IsNext(h, S, b, n) ==
  n # Null => n \in S /\ ListIndex(h.hdr[b].size) = ListIndex(h.hdr[n].size)
              /\ h.prv[n] = b

IsPrev(h, S, b, p) ==
  p # Null => p \in S /\ ListIndex(h.hdr[b].size) = ListIndex(h.hdr[p].size)
              /\ h.nxt[p] = b

IsHead(h, S, c, f) ==
  f # Null => f \in S /\ ListIndex(h.hdr[f].size) = c /\ h.prv[f] = Null

Lists(h, S) ==
  /\ \A b \in S : IsNext(h, S, b, h.nxt[b]) /\ IsPrev(h, S, b, h.prv[b])
  /\ \A c \in Class : IsHead(h, S, c, h.head[c])

LEMMA LinkedIsLists ==
  ASSUME NEW h
  PROVE  Linked(h) <=> Lists(h, FreeBlocks(h))
BY DEF Linked, Lists, IsNext, IsPrev, IsHead, SameClass

LEMMA ListIndexClass ==
  ASSUME NEW size
  PROVE  ListIndex(size) \in Class
<1>1. ListCount - 1 \in Class /\ Class \subseteq Nat
  BY MmAssumption DEF Class
<1> DEFINE S == {i \in Class : size <= 2 ^ i}
<1>2. CASE \E i \in Class : size <= 2 ^ i
  <2>1. S # {} /\ S \in SUBSET Nat
    BY <1>1, <1>2
  <2>2. PICK i \in S : \A k \in S : i <= k
    <3> HIDE DEF S
    <3> QED BY <2>1, FirstExists
  <2>3. \E j \in Class : size <= 2 ^ j /\ \A k \in Class : size <= 2 ^ k => j <= k
    BY <2>2
  <2> QED BY <1>2, <2>3 DEF ListIndex
<1>3. CASE ~ \E i \in Class : size <= 2 ^ i
  BY <1>1, <1>3 DEF ListIndex
<1> QED BY <1>2, <1>3

\* The lists see the sizes of their blocks, the links and the heads.
LEMMA ListsFrame ==
  ASSUME NEW h, NEW g, NEW S, Lists(h, S),
         \A b \in S : /\ g.hdr[b].size = h.hdr[b].size
                      /\ g.nxt[b] = h.nxt[b] /\ g.prv[b] = h.prv[b],
         g.head = h.head
  PROVE  Lists(g, S)
BY DEF Lists, IsNext, IsPrev, IsHead

\* A block with no links may be added: no list changes.
LEMMA ListsAdd ==
  ASSUME NEW h, NEW S, NEW b, Lists(h, S), h.nxt[b] = Null, h.prv[b] = Null
  PROVE  Lists(h, S \cup {b})
BY DEF Lists, IsNext, IsPrev, IsHead

\* What eliminate_from_linked writes.
Unlinked(h, g, b) ==
  LET n == h.nxt[b]
      p == h.prv[b]
  IN  /\ \A u \in Unit : u # p => g.nxt[u] = h.nxt[u]
      /\ p \in Unit => g.nxt[p] = n
      /\ \A u \in Unit : u # n => g.prv[u] = h.prv[u]
      /\ n \in Unit => g.prv[n] = p
      /\ \A k \in Class : k # ListIndex(h.hdr[b].size) \/ p # Null
           => g.head[k] = h.head[k]
      /\ p = Null => g.head[ListIndex(h.hdr[b].size)] = n

SameTags(h, g) ==
  g.hdr = h.hdr /\ g.ftr = h.ftr /\ g.brk = h.brk /\ g.ready = h.ready

LEMMA NullApart == Null \notin Unit /\ Null \in Link /\ Unit \subseteq Link /\ Junk \in Link
BY DEF Null, Unit, Link

LEMMA EliminateWrites ==
  ASSUME NEW h \in Heap, NEW b \in Unit,
         h.nxt[b] \in Unit \cup {Null}, h.prv[b] \in Unit \cup {Null}
  PROVE  /\ Eliminate(h, b) \in Heap
         /\ SameTags(h, Eliminate(h, b))
         /\ Unlinked(h, Eliminate(h, b), b)
<1>1. PICK n, p, c : n = h.nxt[b] /\ p = h.prv[b] /\ c = ListIndex(h.hdr[b].size)
  OBVIOUS
<1>2. /\ c \in Class /\ n \in Unit \cup {Null} /\ p \in Unit \cup {Null}
      /\ n \in Link /\ p \in Link /\ Null \notin Unit /\ Null \in Link
  BY <1>1, ListIndexClass, NullApart
<1>3. PICK g : g = Eliminate(h, b)
  OBVIOUS
<1>4. CASE p = Null /\ n = Null
  <2>1. g = [h EXCEPT !.head[c] = Null]
    BY <1>1, <1>3, <1>4 DEF Eliminate
  <2>2. g \in Heap
    BY <1>2, <2>1 DEF Heap
  <2>3. SameTags(h, g) /\ Unlinked(h, g, b)
    BY <1>1, <1>2, <1>4, <2>1, HeapFields DEF SameTags, Unlinked, Heap
  <2> QED BY <1>3, <2>2, <2>3
<1>5. CASE p # Null /\ n = Null
  <2>1. g = [h EXCEPT !.nxt[p] = Null]
    BY <1>1, <1>3, <1>5 DEF Eliminate
  <2>2. g \in Heap
    BY <1>2, <2>1 DEF Heap
  <2>3. SameTags(h, g) /\ Unlinked(h, g, b)
    BY <1>1, <1>2, <1>5, <2>1, HeapFields DEF SameTags, Unlinked, Heap
  <2> QED BY <1>3, <2>2, <2>3
<1>6. CASE p = Null /\ n # Null
  <2>1. g = [h EXCEPT !.prv[n] = Null, !.head[c] = n]
    BY <1>1, <1>3, <1>6 DEF Eliminate
  <2>2. g \in Heap
    BY <1>2, <1>6, <2>1 DEF Heap
  <2>3. SameTags(h, g) /\ Unlinked(h, g, b)
    BY <1>1, <1>2, <1>6, <2>1, HeapFields DEF SameTags, Unlinked, Heap
  <2> QED BY <1>3, <2>2, <2>3
<1>7. CASE p # Null /\ n # Null
  <2>1. g = [h EXCEPT !.nxt[p] = n, !.prv[n] = p]
    BY <1>1, <1>3, <1>7 DEF Eliminate
  <2>2. g \in Heap
    BY <1>2, <2>1 DEF Heap
  <2>3. SameTags(h, g) /\ Unlinked(h, g, b)
    BY <1>1, <1>2, <1>7, <2>1, HeapFields DEF SameTags, Unlinked, Heap
  <2> QED BY <1>3, <2>2, <2>3
<1> QED BY <1>4, <1>5, <1>6, <1>7

LEMMA UnlinkedLists ==
  ASSUME NEW h, NEW g, NEW S \in SUBSET Unit, NEW b \in S, Lists(h, S),
         g.hdr = h.hdr, Unlinked(h, g, b)
  PROVE  Lists(g, S \ {b})
<1>1. PICK n, p, c : n = h.nxt[b] /\ p = h.prv[b] /\ c = ListIndex(h.hdr[b].size)
  OBVIOUS
<1>2. /\ IsNext(h, S, b, n) /\ IsPrev(h, S, b, p) /\ c \in Class /\ Null \notin Unit
  BY <1>1, ListIndexClass, NullApart DEF Lists
<1>3. ASSUME NEW x \in S \ {b}
      PROVE  IsNext(g, S \ {b}, x, g.nxt[x])
  <2>1. IsNext(h, S, x, h.nxt[x])
    BY DEF Lists
  <2>2. CASE x = p
    <3>1. g.nxt[x] = n /\ h.nxt[x] = b
      BY <1>1, <1>2, <2>2 DEF Unlinked, IsPrev
    <3>2. n # Null => n \in S /\ n # b /\ g.prv[n] = x
                      /\ ListIndex(h.hdr[x].size) = ListIndex(h.hdr[n].size)
      BY <1>1, <1>2, <2>2 DEF Unlinked, IsNext, IsPrev
    <3> QED BY <3>1, <3>2 DEF IsNext
  <2>3. CASE x # p
    <3>1. g.nxt[x] = h.nxt[x]
      BY <1>1, <2>3 DEF Unlinked
    <3>2. h.nxt[x] # Null => h.nxt[x] # b /\ h.nxt[x] # n
      BY <1>1, <1>2, <2>1, <2>3 DEF IsNext
    <3>3. h.nxt[x] # Null => g.prv[h.nxt[x]] = h.prv[h.nxt[x]]
      BY <1>1, <2>1, <3>2 DEF Unlinked, IsNext
    <3> QED BY <2>1, <3>1, <3>2, <3>3 DEF IsNext
  <2> QED BY <2>2, <2>3
<1>4. ASSUME NEW x \in S \ {b}
      PROVE  IsPrev(g, S \ {b}, x, g.prv[x])
  <2>1. IsPrev(h, S, x, h.prv[x])
    BY DEF Lists
  <2>2. CASE x = n
    <3>1. g.prv[x] = p /\ h.prv[x] = b
      BY <1>1, <1>2, <2>2 DEF Unlinked, IsNext
    <3>2. p # Null => p \in S /\ p # b /\ g.nxt[p] = x
                      /\ ListIndex(h.hdr[x].size) = ListIndex(h.hdr[p].size)
      BY <1>1, <1>2, <2>2 DEF Unlinked, IsNext, IsPrev
    <3> QED BY <3>1, <3>2 DEF IsPrev
  <2>3. CASE x # n
    <3>1. g.prv[x] = h.prv[x]
      BY <1>1, <2>3 DEF Unlinked
    <3>2. h.prv[x] # Null => h.prv[x] # b /\ h.prv[x] # p
      BY <1>1, <1>2, <2>1, <2>3 DEF IsPrev
    <3>3. h.prv[x] # Null => g.nxt[h.prv[x]] = h.nxt[h.prv[x]]
      BY <1>1, <2>1, <3>2 DEF Unlinked, IsPrev
    <3> QED BY <2>1, <3>1, <3>2, <3>3 DEF IsPrev
  <2> QED BY <2>2, <2>3
<1>5. ASSUME NEW k \in Class
      PROVE  IsHead(g, S \ {b}, k, g.head[k])
  <2>1. IsHead(h, S, k, h.head[k])
    BY DEF Lists
  <2>2. CASE k = c /\ p = Null
    <3>1. g.head[k] = n
      BY <1>1, <2>2 DEF Unlinked
    <3>2. n # Null => n \in S /\ n # b /\ g.prv[n] = Null
                      /\ ListIndex(h.hdr[n].size) = k
      BY <1>1, <1>2, <2>2 DEF Unlinked, IsNext
    <3> QED BY <3>1, <3>2 DEF IsHead
  <2>3. CASE k # c \/ p # Null
    <3>1. g.head[k] = h.head[k]
      BY <1>1, <2>3 DEF Unlinked
    <3>2. h.head[k] # Null => h.head[k] # b /\ h.head[k] # n
      BY <1>1, <1>2, <2>1, <2>3 DEF IsHead, IsNext
    <3>3. h.head[k] # Null => g.prv[h.head[k]] = h.prv[h.head[k]]
      BY <1>1, <2>1, <3>2 DEF Unlinked, IsHead
    <3> QED BY <2>1, <3>1, <3>2, <3>3 DEF IsHead
  <2> QED BY <2>2, <2>3
<1> QED BY <1>3, <1>4, <1>5 DEF Lists

LEMMA EliminateFacts ==
  ASSUME NEW h \in Heap, NEW S \in SUBSET Unit, NEW b \in S, Lists(h, S)
  PROVE  /\ Eliminate(h, b) \in Heap
         /\ SameTags(h, Eliminate(h, b))
         /\ Lists(Eliminate(h, b), S \ {b})
<1>1. h.nxt[b] \in Unit \cup {Null} /\ h.prv[b] \in Unit \cup {Null}
  BY DEF Lists, IsNext, IsPrev
<1>2. PICK g : g = Eliminate(h, b)
  OBVIOUS
<1>3. g \in Heap /\ SameTags(h, g) /\ Unlinked(h, g, b)
  BY <1>1, <1>2, EliminateWrites
<1> QED BY <1>2, <1>3, UnlinkedLists DEF SameTags

\* insert_into_linked puts a block before the head of its list.
LEMMA InsertFacts ==
  ASSUME NEW h \in Heap, NEW S \in SUBSET Unit, NEW b \in Unit, b \notin S, Lists(h, S)
  PROVE  /\ Insert(h, b) \in Heap
         /\ SameTags(h, Insert(h, b))
         /\ Lists(Insert(h, b), S \cup {b})
<1>1. PICK c, f : c = ListIndex(h.hdr[b].size) /\ f = h.head[c]
  OBVIOUS
<1>2. /\ c \in Class /\ Null \notin Unit /\ Null \in Link /\ b \in Link
      /\ f \in Unit \cup {Null} /\ f \in Link
      /\ IsHead(h, S, c, f) /\ f # b
  BY <1>1, ListIndexClass, NullApart, HeapFields DEF Lists, IsHead
<1>3. PICK g : g = Insert(h, b)
  OBVIOUS
<1>4. /\ g = [h EXCEPT !.prv = [u \in Unit |-> CASE u = b -> Null
                                                 [] u = f /\ u # b -> b
                                                 [] OTHER -> h.prv[u]],
                       !.nxt[b] = f,
                       !.head[c] = b]
  BY <1>1, <1>3 DEF Insert
<1>5. /\ g.hdr = h.hdr /\ g.ftr = h.ftr /\ g.brk = h.brk /\ g.ready = h.ready
      /\ g.nxt = [h.nxt EXCEPT ![b] = f]
      /\ g.head = [h.head EXCEPT ![c] = b]
      /\ g.prv = [u \in Unit |-> CASE u = b -> Null
                                   [] u = f /\ u # b -> b
                                   [] OTHER -> h.prv[u]]
  BY <1>4 DEF Heap
<1>6. /\ \A u \in Unit : u # b => g.nxt[u] = h.nxt[u]
      /\ g.nxt[b] = f /\ g.prv[b] = Null /\ g.head[c] = b
      /\ \A u \in Unit : u # b /\ u # f => g.prv[u] = h.prv[u]
      /\ f \in Unit => g.prv[f] = b
      /\ \A k \in Class : k # c => g.head[k] = h.head[k]
  BY <1>2, <1>5, HeapFields
<1>7. g \in Heap
  <2>1. g.prv \in [Unit -> Link]
    BY <1>2, <1>5, HeapFields
  <2>2. g.nxt \in [Unit -> Link] /\ g.head \in [Class -> Unit \cup {Null}]
    BY <1>2, <1>5, HeapFields
  <2>3. g = [hdr |-> g.hdr, ftr |-> g.ftr, nxt |-> g.nxt, prv |-> g.prv,
             head |-> g.head, brk |-> g.brk, ready |-> g.ready]
    BY <1>4 DEF Heap
  <2> QED BY <1>5, <2>1, <2>2, <2>3, HeapFields DEF Heap
<1>8. Lists(g, S \cup {b})
  <2>1. ASSUME NEW x \in S
        PROVE  IsNext(g, S \cup {b}, x, g.nxt[x]) /\ IsPrev(g, S \cup {b}, x, g.prv[x])
    <3>1. IsNext(h, S, x, h.nxt[x]) /\ IsPrev(h, S, x, h.prv[x]) /\ x # b
      BY DEF Lists
    <3>2. g.nxt[x] = h.nxt[x]
      BY <1>6, <3>1
    <3>3. h.nxt[x] # Null => h.nxt[x] # f /\ h.nxt[x] # b
      BY <1>2, <3>1 DEF IsNext, IsHead
    <3>4. IsNext(g, S \cup {b}, x, g.nxt[x])
      BY <1>5, <1>6, <3>1, <3>2, <3>3 DEF IsNext
    <3>5. CASE x = f
      <4>1. g.prv[x] = b /\ g.nxt[b] = x /\ ListIndex(h.hdr[x].size) = c
        BY <1>2, <1>6, <3>5 DEF IsHead
      <4> QED BY <1>1, <1>5, <3>4, <4>1 DEF IsPrev
    <3>6. CASE x # f
      <4>1. g.prv[x] = h.prv[x]
        BY <1>6, <3>1, <3>6
      <4>2. h.prv[x] # Null => g.nxt[h.prv[x]] = h.nxt[h.prv[x]]
        BY <1>6, <3>1 DEF IsPrev
      <4> QED BY <1>5, <3>1, <3>4, <4>1, <4>2 DEF IsPrev
    <3> QED BY <3>5, <3>6
  <2>2. IsNext(g, S \cup {b}, b, g.nxt[b]) /\ IsPrev(g, S \cup {b}, b, g.prv[b])
    <3>1. f # Null => f \in S /\ ListIndex(h.hdr[f].size) = c /\ g.prv[f] = b
      BY <1>2, <1>6 DEF IsHead
    <3> QED BY <1>1, <1>5, <1>6, <3>1 DEF IsNext, IsPrev
  <2>3. ASSUME NEW k \in Class
        PROVE  IsHead(g, S \cup {b}, k, g.head[k])
    <3>1. CASE k = c
      BY <1>1, <1>5, <1>6, <3>1 DEF IsHead
    <3>2. CASE k # c
      <4>1. g.head[k] = h.head[k] /\ IsHead(h, S, k, h.head[k])
        BY <1>6, <3>2 DEF Lists
      <4>2. h.head[k] # Null => h.head[k] # f /\ h.head[k] # b
        BY <1>2, <3>2, <4>1 DEF IsHead
      <4> QED BY <1>5, <1>6, <4>1, <4>2 DEF IsHead
    <3> QED BY <3>1, <3>2
  <2> QED BY <2>1, <2>2, <2>3 DEF Lists
<1> QED BY <1>3, <1>5, <1>7, <1>8 DEF SameTags

-----------------------------------------------------------------------------
(***************************************************************************)
(* What write_block writes of a block from b to n: to the boundary tags,   *)
(* and to the links.                                                       *)
(***************************************************************************)
Tagged(h, g, b, n, alloc) ==
  /\ g.brk = h.brk /\ g.ready = h.ready
  /\ \A u \in Unit : u < b \/ n < u => g.hdr[u] = h.hdr[u]
  /\ \A u \in Unit : u <= b \/ n < u => g.ftr[u] = h.ftr[u]
  /\ \A u \in Unit : b < u /\ u < n => g.hdr[u] = NoHeader
  /\ g.hdr[b].size = n - b /\ g.hdr[b].alloc = alloc /\ g.hdr[b].prev = h.hdr[b].prev
  /\ g.hdr[n].size = h.hdr[n].size /\ g.hdr[n].alloc = h.hdr[n].alloc
  /\ g.hdr[n].prev = alloc
  /\ ~alloc => g.ftr[n] = g.hdr[b]

LinksKept(h, g, b, n) ==
  /\ \A u \in Unit : u < b \/ n <= u => g.nxt[u] = h.nxt[u] /\ g.prv[u] = h.prv[u]
  /\ g.head = h.head

LEMMA WriteBlockFacts ==
  ASSUME NEW h \in Heap, NEW b \in Unit, NEW n \in Unit, b < n,
         NEW alloc \in BOOLEAN
  PROVE  /\ WriteBlock(h, b, n - b, alloc) \in Heap
         /\ Tagged(h, WriteBlock(h, b, n - b, alloc), b, n, alloc)
         /\ LinksKept(h, WriteBlock(h, b, n - b, alloc), b, n)
<1>1. b \in Nat /\ n \in Nat /\ HeapUnits \in Nat /\ n <= HeapUnits
  BY Numbers
<1>2. PICK size : size = n - b
  OBVIOUS
<1>3. size \in Nat /\ size \in Unit /\ b + size = n
  BY <1>1, <1>2 DEF Unit
<1>4. PICK g : g = WriteBlock(h, b, size, alloc)
  OBVIOUS
<1> DEFINE inside == b + 1 .. b + size - 1
           body   == IF alloc THEN {b} \cup inside ELSE inside
           word   == [size |-> size, alloc |-> alloc, prev |-> h.hdr[b].prev]
<1>7. /\ g.hdr = [u \in Unit |->
                   CASE u = b -> word
                     [] u = b + size -> [h.hdr[u] EXCEPT !.prev = alloc]
                     [] u \in inside -> NoHeader
                     [] OTHER -> h.hdr[u]]
      /\ g.ftr = [u \in Unit |->
                   CASE u = b + size -> IF alloc THEN NoHeader ELSE word
                     [] u \in inside -> NoHeader
                     [] OTHER -> h.ftr[u]]
      /\ g.nxt = [u \in Unit |-> IF u \in body THEN Junk ELSE h.nxt[u]]
      /\ g.prv = [u \in Unit |-> IF u \in body THEN Junk ELSE h.prv[u]]
      /\ g.head = h.head /\ g.brk = h.brk /\ g.ready = h.ready
      /\ g = [hdr |-> g.hdr, ftr |-> g.ftr, nxt |-> g.nxt, prv |-> g.prv,
              head |-> g.head, brk |-> g.brk, ready |-> g.ready]
  BY <1>4 DEF WriteBlock, Heap
<1>8. /\ word \in Header /\ word.size = size /\ word.alloc = alloc
      /\ word.prev = h.hdr[b].prev /\ NoHeader \in Header
  BY <1>3, HeapFields, Numbers DEF Header, NoHeader
<1> HIDE DEF word
<1>9. ASSUME NEW u \in Unit
      PROVE  [h.hdr[u] EXCEPT !.prev = alloc] \in Header
  <2>1. PICK w : w = h.hdr[u] /\ w \in Header
    BY HeapFields
  <2>2. [w EXCEPT !.prev = alloc] \in Header
    BY <2>1 DEF Header
  <2> QED BY <2>1, <2>2
<1>10. \A u \in Unit : u \in Nat /\ (u \in inside <=> b < u /\ u < n)
  BY <1>1, <1>3, Numbers
<1> HIDE DEF inside
<1>11. g \in Heap
  <2>1. g.hdr \in [Unit -> Header]
    BY <1>1, <1>3, <1>7, <1>8, <1>9, <1>10, HeapFields
  <2>2. g.ftr \in [Unit -> Header]
    BY <1>1, <1>3, <1>7, <1>8, <1>10, HeapFields
  <2>3. g.nxt \in [Unit -> Link] /\ g.prv \in [Unit -> Link]
    BY <1>7, NullApart, HeapFields
  <2> QED BY <1>7, <2>1, <2>2, <2>3, HeapFields DEF Heap
<1>12. LinksKept(h, g, b, n)
  <2>1. \A u \in Unit : u < b \/ n <= u => u \notin body
    BY <1>1, <1>10
  <2> QED BY <1>7, <2>1 DEF LinksKept
<1>13. Tagged(h, g, b, n, alloc)
  <2>1. g.hdr[b] = word
    BY <1>1, <1>3, <1>7, <1>10
  <2>2. g.hdr[n] = [h.hdr[n] EXCEPT !.prev = alloc]
    BY <1>1, <1>3, <1>7, <1>10
  <2>3. g.hdr[n].size = h.hdr[n].size /\ g.hdr[n].alloc = h.hdr[n].alloc /\ g.hdr[n].prev = alloc
    BY <2>2, HeapFields DEF Header
  <2>4. ASSUME NEW u \in Unit
        PROVE  /\ u < b \/ n < u => g.hdr[u] = h.hdr[u]
               /\ u <= b \/ n < u => g.ftr[u] = h.ftr[u]
               /\ b < u /\ u < n => g.hdr[u] = NoHeader
    BY <1>1, <1>3, <1>7, <1>10
  <2>5. ~alloc => g.ftr[n] = word
    BY <1>1, <1>3, <1>7, <1>10
  <2> QED BY <1>2, <1>7, <1>8, <2>1, <2>3, <2>4, <2>5 DEF Tagged
<1> QED BY <1>2, <1>4, <1>11, <1>12, <1>13

-----------------------------------------------------------------------------
(***************************************************************************)
(* A heap whose blocks tile it, with tags that agree and no two free       *)
(* neighbours.                                                             *)
(***************************************************************************)
Tidy(h) == Tiled(h) /\ TagsAgree(h) /\ NoFreeNeighbours(h) /\ Prologue(h)

LEMMA FreeAtBoundary ==
  ASSUME NEW h \in Heap, Tiled(h), NEW n \in Bounds(h)
  PROVE  n \in FreeBlocks(h) <=> ~h.hdr[n].alloc
BY DEF Tiled, Bounds, FreeBlocks

LEMMA FreeBefore ==
  ASSUME NEW h \in Heap, Tidy(h), NEW d \in Bounds(h), ~h.hdr[d].prev
  PROVE  \E p \in FreeBlocks(h) :
           p < d /\ FindNext(h, p) = d /\ h.ftr[d].size = d - p
<1>1. d # 0
  BY DEF Tidy, TagsAgree
<1>2. PICK p \in Blocks(h) : p < d /\ FindNext(h, p) = d
  BY <1>1, BlockBefore DEF Tidy
<1>3. d = p + h.hdr[p].size /\ p \in Nat /\ h.hdr[p].size \in Nat
  BY <1>2, BlockFacts DEF Tidy
<1>4. h.hdr[d].prev = h.hdr[p].alloc /\ (~h.hdr[p].alloc => h.ftr[d] = h.hdr[p])
  BY <1>2 DEF Tidy, TagsAgree
<1>5. ~h.hdr[p].alloc
  BY <1>4
<1> QED BY <1>2, <1>3, <1>4, <1>5 DEF FreeBlocks

LEMMA FreeEnds ==
  ASSUME NEW h \in Heap, Tidy(h), NEW b \in FreeBlocks(h)
  PROVE  h.hdr[b].prev /\ h.hdr[FindNext(h, b)].alloc
<1>1. b \in Blocks(h) /\ b \in Bounds(h)
  BY DEF FreeBlocks, Bounds
<1>2. h.hdr[b].prev
  <2> SUFFICES ASSUME ~h.hdr[b].prev PROVE FALSE
    OBVIOUS
  <2>1. PICK p \in FreeBlocks(h) : FindNext(h, p) = b
    BY <1>1, FreeBefore
  <2> QED BY <2>1 DEF Tidy, NoFreeNeighbours
<1>3. PICK n : n = FindNext(h, b)
  OBVIOUS
<1>4. n \in Bounds(h) /\ n \notin FreeBlocks(h)
  BY <1>1, <1>3, BlockFacts DEF Tidy, NoFreeNeighbours
<1>5. h.hdr[n].alloc
  BY <1>4, FreeAtBoundary DEF Tidy
<1> QED BY <1>2, <1>3, <1>5

\* What is free and what is taken after a part has got other blocks.
LEMMA RelaidKinds ==
  ASSUME NEW h \in Heap, NEW g \in Heap, Tiled(h), NEW lo, NEW mid, NEW hi,
         Part(h, lo, mid, hi), Relaid(h, g, lo, mid, hi)
  PROVE  /\ \A u \in Blocks(h) : u < lo \/ hi <= u
              => g.hdr[u].size = h.hdr[u].size /\ g.hdr[u].alloc = h.hdr[u].alloc
         /\ \A u : u \in FreeBlocks(g) <=>
              \/ u \in FreeBlocks(h) /\ (u < lo \/ hi <= u)
              \/ u = lo /\ ~g.hdr[lo].alloc
              \/ u = mid /\ mid # hi
         /\ \A u : u \in Taken(g) <=>
              \/ u \in Taken(h) /\ (u < lo \/ hi <= u)
              \/ u = lo /\ g.hdr[lo].alloc
<1>1. /\ lo \in Nat /\ mid \in Nat /\ hi \in Nat /\ lo + 2 <= mid /\ mid <= hi
      /\ lo \in Unit /\ mid \in Unit /\ hi \in Unit
  BY PartFacts
<1>2. \A u : u \in Blocks(g) <=>
           \/ u \in Blocks(h) /\ u < lo
           \/ u \in Blocks(h) /\ hi <= u
           \/ u = lo
           \/ u = mid /\ mid # hi
  BY RelaidBlocks
<1>3. ASSUME NEW u \in Blocks(h), u < lo \/ hi <= u
      PROVE  g.hdr[u].size = h.hdr[u].size /\ g.hdr[u].alloc = h.hdr[u].alloc
  <2>1. u \in Unit /\ u \in Nat
    BY HeapFields
  <2>2. CASE u = hi
    BY <2>2 DEF Relaid
  <2>3. CASE u < lo \/ hi < u
    BY <2>1, <2>3 DEF Relaid
  <2> QED BY <1>1, <1>3, <2>1, <2>2, <2>3
<1>4. mid # hi => g.hdr[lo].alloc /\ ~g.hdr[mid].alloc
  BY DEF Relaid
<1>5. \A u \in Blocks(h) : u \in Nat
  BY HeapFields
<1>6. ASSUME NEW u
      PROVE  u \in FreeBlocks(g) <=>
              \/ u \in FreeBlocks(h) /\ (u < lo \/ hi <= u)
              \/ u = lo /\ ~g.hdr[lo].alloc
              \/ u = mid /\ mid # hi
  BY <1>1, <1>2, <1>3, <1>4, <1>5 DEF FreeBlocks
<1>7. ASSUME NEW u
      PROVE  u \in Taken(g) <=>
              \/ u \in Taken(h) /\ (u < lo \/ hi <= u)
              \/ u = lo /\ g.hdr[lo].alloc
  BY <1>1, <1>2, <1>3, <1>4, <1>5 DEF Taken
<1> QED BY <1>3, <1>6, <1>7

LEMMA RelaidTidy ==
  ASSUME NEW h \in Heap, NEW g \in Heap, Tidy(h), NEW lo, NEW mid, NEW hi,
         Part(h, lo, mid, hi), Relaid(h, g, lo, mid, hi), h.hdr[hi].alloc,
         h.hdr[lo].prev \/ g.hdr[lo].alloc
  PROVE  Tidy(g)
BY RelaidTiled, RelaidTags, RelaidNoFreeNeighbours DEF Tidy

-----------------------------------------------------------------------------
(***************************************************************************)
(* coalesce_block.  A block b marked free in a tidy heap is merged with    *)
(* the free blocks at its ends: the result is tidy again, its blocks other *)
(* than the merged one are those of before, and the lists hold the free    *)
(* ones among them.                                                        *)
(***************************************************************************)
LEMMA TagsTwice ==
  ASSUME NEW h \in Heap, NEW f \in Heap, NEW e, NEW g \in Heap,
         NEW lo \in Unit, NEW b \in Unit, NEW n \in Unit, NEW hi \in Unit,
         lo <= b, b + 2 <= n, n <= hi,
         Tagged(h, f, b, n, FALSE), SameTags(f, e), Tagged(e, g, lo, hi, FALSE)
  PROVE  Relaid(h, g, lo, hi, hi) /\ ~g.hdr[lo].alloc
<1>1. lo \in Nat /\ b \in Nat /\ n \in Nat /\ hi \in Nat /\ lo < hi
  BY Numbers
<1>2. /\ f.brk = h.brk /\ f.ready = h.ready
      /\ \A u \in Unit : u < b \/ n < u => f.hdr[u] = h.hdr[u]
      /\ \A u \in Unit : u <= b \/ n < u => f.ftr[u] = h.ftr[u]
      /\ f.hdr[b].prev = h.hdr[b].prev
      /\ f.hdr[n].size = h.hdr[n].size /\ f.hdr[n].alloc = h.hdr[n].alloc
  BY DEF Tagged
<1>3. /\ g.brk = f.brk /\ g.ready = f.ready
      /\ \A u \in Unit : u < lo \/ hi < u => g.hdr[u] = f.hdr[u]
      /\ \A u \in Unit : u <= lo \/ hi < u => g.ftr[u] = f.ftr[u]
      /\ \A u \in Unit : lo < u /\ u < hi => g.hdr[u].size = 0
      /\ g.hdr[lo].size = hi - lo /\ g.hdr[lo].alloc = FALSE
      /\ g.hdr[lo].prev = f.hdr[lo].prev
      /\ g.hdr[hi].size = f.hdr[hi].size /\ g.hdr[hi].alloc = f.hdr[hi].alloc
      /\ g.hdr[hi].prev = FALSE
      /\ g.ftr[hi] = g.hdr[lo]
  BY DEF Tagged, SameTags, NoHeader
<1>4. \A u \in Unit : u \in Nat
  BY Numbers
<1>5. g.hdr[lo].prev = h.hdr[lo].prev
  <2>1. CASE lo = b
    BY <1>2, <1>3, <2>1
  <2>2. CASE lo < b
    BY <1>2, <1>3, <2>2
  <2> QED BY <1>1, <2>1, <2>2
<1>6. g.hdr[hi].size = h.hdr[hi].size /\ g.hdr[hi].alloc = h.hdr[hi].alloc
  <2>1. CASE hi = n
    BY <1>2, <1>3, <2>1
  <2>2. CASE n < hi
    BY <1>2, <1>3, <2>2
  <2> QED BY <1>1, <2>1, <2>2
<1>7. ASSUME NEW u \in Unit
      PROVE  /\ u < lo \/ hi < u => g.hdr[u] = h.hdr[u]
             /\ u <= lo \/ hi < u => g.ftr[u] = h.ftr[u]
  <2>1. u < lo => u < b
    BY <1>1, <1>4
  <2>2. u <= lo => u <= b
    BY <1>1, <1>4
  <2>3. hi < u => n < u
    BY <1>1, <1>4
  <2> QED BY <1>2, <1>3, <2>1, <2>2, <2>3
<1>8. g.hdr[hi].prev = g.hdr[lo].alloc
  BY <1>3
<1>9. /\ g.brk = h.brk /\ g.ready = h.ready
      /\ ~g.hdr[lo].alloc
  BY <1>2, <1>3
<1> QED BY <1>3, <1>5, <1>6, <1>7, <1>8, <1>9 DEF Relaid

Merged(h, g, b, lo, hi) ==
  /\ Part(h, lo, hi, hi) /\ Relaid(h, g, lo, hi, hi)
  /\ ~g.hdr[lo].alloc /\ h.hdr[lo].prev /\ h.hdr[hi].alloc
  /\ lo <= b /\ FindNext(h, b) <= hi
  /\ \A x \in Taken(h) : x = b \/ x < lo \/ hi <= x
  /\ Lists(g, {x \in FreeBlocks(h) : x < lo \/ hi <= x})

LEMMA CoalesceFacts ==
  ASSUME NEW h \in Heap, Tidy(h), NEW b \in Taken(h), NEW f \in Heap,
         Tagged(h, f, b, FindNext(h, b), FALSE),
         Lists(f, FreeBlocks(h) \cup {b})
  PROVE  \E g \in Heap : \E lo, hi :
           Coalesce(f, b) = Outcome(g, lo) /\ Merged(h, g, b, lo, hi)
<1> USE DEF Tidy
<1>1. PICK n : n = FindNext(h, b)
  OBVIOUS
<1>2. /\ b \in Blocks(h) /\ b \in Bounds(h) /\ h.hdr[b].alloc /\ b \notin FreeBlocks(h)
      /\ b \in Unit /\ b \in Nat /\ n \in Unit /\ n \in Nat /\ b + 2 <= n
      /\ n \in Bounds(h)
  BY <1>1, BlockFacts DEF Taken, FreeBlocks, Bounds
<1>3. /\ Tagged(h, f, b, n, FALSE)
      /\ f.hdr[n].size = h.hdr[n].size /\ f.hdr[n].alloc = h.hdr[n].alloc
      /\ f.hdr[b].prev = h.hdr[b].prev /\ f.ftr[b] = h.ftr[b]
      /\ f.hdr[b].size = n - b
  BY <1>1, <1>2 DEF Tagged
<1>4. FindNext(f, b) = n /\ FindNext(f, n) = FindNext(h, n)
  BY <1>2, <1>3 DEF FindNext
<1>5. FreeBlocks(h) \in SUBSET Unit /\ \A x \in FreeBlocks(h) : x \in Blocks(h) /\ x \in Bounds(h) /\ x \in Nat
  BY HeapFields DEF FreeBlocks, Blocks, Bounds
<1>6. n \in FreeBlocks(h) <=> ~f.hdr[n].alloc
  BY <1>2, <1>3, FreeAtBoundary
<1>7. PICK hi : hi = IF ~f.hdr[n].alloc THEN FindNext(f, n) ELSE n
  OBVIOUS
<1>8. /\ hi \in Bounds(h) /\ hi \in Unit /\ hi \in Nat /\ n <= hi /\ h.hdr[hi].alloc
      /\ n \in FreeBlocks(h) => n < hi
      /\ \A x \in Bounds(h) : n < x => hi <= x
  <2>1. CASE ~f.hdr[n].alloc
    <3>1. n \in FreeBlocks(h) /\ hi = FindNext(h, n) /\ n \in Blocks(h)
      BY <1>4, <1>5, <1>6, <1>7, <2>1
    <3>2. h.hdr[hi].alloc
      BY <3>1, FreeEnds
    <3>3. hi \in Bounds(h) /\ hi \in Unit /\ hi \in Nat /\ n + 2 <= hi
      BY <3>1, BlockFacts
    <3>4. \A x \in Bounds(h) : n < x => hi <= x
      BY <3>1, Apart
    <3> QED BY <1>2, <3>2, <3>3, <3>4
  <2>2. CASE f.hdr[n].alloc
    <3>1. hi = n /\ n \notin FreeBlocks(h)
      BY <1>6, <1>7, <2>2
    <3>2. \A x \in Bounds(h) : x \in Nat
      BY HeapFields
    <3>3. h.hdr[n].alloc
      BY <1>3, <2>2
    <3> QED BY <1>2, <3>1, <3>2, <3>3
  <2> QED BY <2>1, <2>2
<1>9. PICK lo : lo = IF ~f.hdr[b].prev THEN FindPrev(f, b) ELSE b
  OBVIOUS
<1>10. /\ lo \in Blocks(h) /\ lo \in Unit /\ lo \in Nat /\ lo <= b /\ h.hdr[lo].prev
       /\ \A x \in Bounds(h) : lo < x => b <= x
       /\ ~f.hdr[b].prev => lo \in FreeBlocks(h) /\ lo < b
       /\ f.hdr[b].prev => lo = b
  <2>1. CASE ~f.hdr[b].prev
    <3>1. PICK p \in FreeBlocks(h) : p < b /\ FindNext(h, p) = b /\ h.ftr[b].size = b - p
      BY <1>2, <1>3, <2>1, FreeBefore
    <3>2. p \in Blocks(h) /\ p \in Nat /\ p \in Unit
      BY <1>5
    <3>3. lo = p
      BY <1>2, <1>3, <1>9, <2>1, <3>1, <3>2 DEF FindPrev
    <3>4. h.hdr[p].prev
      BY FreeEnds
    <3>5. \A x \in Bounds(h) : p < x => b <= x
      BY <3>1, <3>2, Apart
    <3> QED BY <1>2, <2>1, <3>1, <3>2, <3>3, <3>4, <3>5
  <2>2. CASE f.hdr[b].prev
    <3>1. \A x \in Bounds(h) : x \in Nat
      BY HeapFields
    <3>2. h.hdr[b].prev
      BY <1>3, <2>2
    <3> QED BY <1>2, <1>9, <2>2, <3>1, <3>2
  <2> QED BY <2>1, <2>2
<1>11. PICK h1 : h1 = Eliminate(f, b)
  OBVIOUS
<1>12. h1 \in Heap /\ SameTags(f, h1) /\ Lists(h1, FreeBlocks(h))
  <2>1. FreeBlocks(h) \cup {b} \in SUBSET Unit /\ (FreeBlocks(h) \cup {b}) \ {b} = FreeBlocks(h)
    BY <1>2, <1>5
  <2> QED BY <1>11, <2>1, EliminateFacts
<1>13. PICK h2 : h2 = IF ~f.hdr[n].alloc THEN Eliminate(h1, n) ELSE h1
  OBVIOUS
<1>14. h2 \in Heap /\ SameTags(f, h2) /\ Lists(h2, FreeBlocks(h) \ {n})
  <2>1. CASE ~f.hdr[n].alloc
    <3>1. n \in FreeBlocks(h)
      BY <1>6, <2>1
    <3>2. h2 \in Heap /\ SameTags(h1, h2) /\ Lists(h2, FreeBlocks(h) \ {n})
      BY <1>5, <1>12, <1>13, <2>1, <3>1, EliminateFacts
    <3> QED BY <1>12, <3>2 DEF SameTags
  <2>2. CASE f.hdr[n].alloc
    <3>1. FreeBlocks(h) \ {n} = FreeBlocks(h)
      BY <1>6, <2>2
    <3> QED BY <1>12, <1>13, <2>2, <3>1
  <2> QED BY <2>1, <2>2
<1>15. PICK h3 : h3 = IF ~f.hdr[b].prev THEN Eliminate(h2, FindPrev(f, b)) ELSE h2
  OBVIOUS
<1>16. /\ h3 \in Heap /\ SameTags(f, h3)
       /\ Lists(h3, (FreeBlocks(h) \ {n}) \ {lo})
  <2>1. CASE ~f.hdr[b].prev
    <3>1. lo \in FreeBlocks(h) \ {n} /\ FindPrev(f, b) = lo /\ FreeBlocks(h) \ {n} \in SUBSET Unit
      BY <1>2, <1>5, <1>9, <1>10, <2>1
    <3>2. h3 \in Heap /\ SameTags(h2, h3) /\ Lists(h3, (FreeBlocks(h) \ {n}) \ {lo})
      BY <1>14, <1>15, <2>1, <3>1, EliminateFacts
    <3> QED BY <1>14, <3>2 DEF SameTags
  <2>2. CASE f.hdr[b].prev
    <3>1. (FreeBlocks(h) \ {n}) \ {lo} = FreeBlocks(h) \ {n}
      BY <1>2, <1>10, <2>2
    <3> QED BY <1>14, <1>15, <2>2, <3>1
  <2> QED BY <2>1, <2>2
<1>17. PICK g : g = WriteBlock(h3, lo, hi - lo, FALSE)
  OBVIOUS
<1>18. /\ g \in Heap /\ Tagged(h3, g, lo, hi, FALSE) /\ LinksKept(h3, g, lo, hi)
  <2>1. lo < hi
    BY <1>2, <1>8, <1>10
  <2> QED BY <1>8, <1>10, <1>16, <1>17, <2>1, WriteBlockFacts
<1>19. Coalesce(f, b) = Outcome(g, lo)
  BY <1>4, <1>7, <1>9, <1>11, <1>13, <1>15, <1>17 DEF Coalesce
<1>20. Relaid(h, g, lo, hi, hi) /\ ~g.hdr[lo].alloc
  BY <1>2, <1>3, <1>8, <1>10, <1>16, <1>18, TagsTwice
<1>21. Part(h, lo, hi, hi)
  BY <1>2, <1>8, <1>10 DEF Part
<1>22. ASSUME NEW x \in Blocks(h)
       PROVE  x = b \/ x = n \/ x = lo \/ x < lo \/ hi <= x
  <2>1. x \in Nat /\ x \in Bounds(h)
    BY HeapFields DEF Bounds
  <2>2. lo < x => b <= x
    BY <1>10, <2>1
  <2>3. b < x => n <= x
    BY <1>1, <1>2, <2>1, Apart
  <2>4. n < x => hi <= x
    BY <1>8, <2>1
  <2> QED BY <1>2, <1>8, <1>10, <2>1, <2>2, <2>3, <2>4
<1>23. ASSUME NEW x \in Taken(h) PROVE x = b \/ x < lo \/ hi <= x
  <2>1. x \in Blocks(h) /\ h.hdr[x].alloc
    BY DEF Taken
  <2>2. x # lo \/ lo = b
    BY <1>10, <2>1 DEF FreeBlocks
  <2>3. x = n => hi <= x
    BY <1>2, <1>3, <1>7, <2>1
  <2> QED BY <1>22, <2>1, <2>2, <2>3
<1>24. {x \in FreeBlocks(h) : x < lo \/ hi <= x} = (FreeBlocks(h) \ {n}) \ {lo}
  <2>1. ASSUME NEW x \in FreeBlocks(h)
        PROVE  x < lo \/ hi <= x <=> x # n /\ x # lo
    <3>1. x \in Blocks(h) /\ x # b /\ x \in Nat
      BY <1>2, <1>5
    <3> QED BY <1>2, <1>8, <1>10, <1>22, <3>1
  <2> QED BY <2>1
<1>25. Lists(g, (FreeBlocks(h) \ {n}) \ {lo})
  <2>1. ASSUME NEW x \in (FreeBlocks(h) \ {n}) \ {lo}
        PROVE  /\ g.hdr[x].size = h3.hdr[x].size
               /\ g.nxt[x] = h3.nxt[x] /\ g.prv[x] = h3.prv[x]
    <3>1. x \in Unit /\ x \in Nat /\ (x < lo \/ hi <= x)
      BY <1>5, <1>24
    <3>2. g.nxt[x] = h3.nxt[x] /\ g.prv[x] = h3.prv[x]
      BY <1>18, <3>1 DEF LinksKept
    <3>3. CASE x = hi
      BY <1>18, <3>2, <3>3 DEF Tagged
    <3>4. CASE x < lo \/ hi < x
      BY <1>18, <3>1, <3>2, <3>4 DEF Tagged
    <3> QED BY <1>8, <3>1, <3>3, <3>4
  <2>2. g.head = h3.head
    BY <1>18 DEF LinksKept
  <2> QED BY <1>16, <2>1, <2>2, ListsFrame
<1>26. Merged(h, g, b, lo, hi)
  BY <1>1, <1>8, <1>10, <1>20, <1>21, <1>23, <1>24, <1>25 DEF Merged
<1> QED BY <1>18, <1>19, <1>26

-----------------------------------------------------------------------------
(***************************************************************************)
(* A heap between two calls; and one whose free block b is on no list, as  *)
(* malloc has it when it has chosen b and has not placed the payload yet.  *)
(***************************************************************************)
Sound(h) == h \in Heap /\ h.ready /\ Tidy(h) /\ Lists(h, FreeBlocks(h))

SoundBut(h, b) ==
  /\ h \in Heap /\ h.ready /\ Tidy(h)
  /\ b \in FreeBlocks(h) /\ Lists(h, FreeBlocks(h) \ {b})

SizesKept(h, g, S) == \A x \in S : g.hdr[x].size = h.hdr[x].size

LEMMA SameTagsFacts ==
  ASSUME NEW h, NEW g, SameTags(h, g)
  PROVE  /\ Blocks(g) = Blocks(h) /\ FreeBlocks(g) = FreeBlocks(h) /\ Taken(g) = Taken(h)
         /\ Tidy(h) => Tidy(g)
         /\ SizesKept(h, g, Taken(h))
<1>1. g.hdr = h.hdr /\ g.ftr = h.ftr /\ g.brk = h.brk
  BY DEF SameTags
<1>2. Blocks(g) = Blocks(h)
  BY <1>1 DEF Blocks
<1>3. FreeBlocks(g) = FreeBlocks(h) /\ Taken(g) = Taken(h)
  BY <1>1, <1>2 DEF FreeBlocks, Taken
<1>4. \A b : FindNext(g, b) = FindNext(h, b)
  BY <1>1 DEF FindNext
<1>5. Tidy(h) => Tidy(g)
  BY <1>1, <1>2, <1>3, <1>4 DEF Tidy, Tiled, TagsAgree, NoFreeNeighbours, Prologue
<1> QED BY <1>1, <1>2, <1>3, <1>5 DEF SizesKept

LEMMA FreeUnits ==
  ASSUME NEW h \in Heap
  PROVE  /\ FreeBlocks(h) \in SUBSET Unit
         /\ \A x \in FreeBlocks(h) : x \in Blocks(h) /\ x \in Bounds(h) /\ x \in Unit /\ x \in Nat
         /\ \A x \in Taken(h) : x \in Blocks(h) /\ x \notin FreeBlocks(h) /\ x \in Unit /\ x \in Nat
BY HeapFields DEF FreeBlocks, Taken, Blocks, Bounds

\* malloc and free list the block they have left over.
LEMMA InsertSound ==
  ASSUME NEW h, NEW b, SoundBut(h, b)
  PROVE  /\ Sound(Insert(h, b))
         /\ Taken(Insert(h, b)) = Taken(h)
         /\ SizesKept(h, Insert(h, b), Taken(h))
<1>1. /\ h \in Heap /\ h.ready /\ Tidy(h) /\ b \in FreeBlocks(h)
      /\ Lists(h, FreeBlocks(h) \ {b})
  BY DEF SoundBut
<1>2. /\ FreeBlocks(h) \ {b} \in SUBSET Unit /\ b \in Unit /\ b \notin FreeBlocks(h) \ {b}
      /\ (FreeBlocks(h) \ {b}) \cup {b} = FreeBlocks(h)
  BY <1>1, FreeUnits
<1>3. PICK g : g = Insert(h, b)
  OBVIOUS
<1>4. g \in Heap /\ SameTags(h, g) /\ Lists(g, FreeBlocks(h))
  BY <1>1, <1>2, <1>3, InsertFacts
<1>5. g.ready
  BY <1>1, <1>4 DEF SameTags
<1> QED BY <1>1, <1>3, <1>4, <1>5, SameTagsFacts DEF Sound

LEMMA MergedFacts ==
  ASSUME NEW h \in Heap, h.ready, Tidy(h), NEW b \in Taken(h),
         NEW g \in Heap, NEW lo, NEW hi, Merged(h, g, b, lo, hi)
  PROVE  /\ SoundBut(g, lo)
         /\ Taken(g) = Taken(h) \ {b}
         /\ SizesKept(h, g, Taken(g))
         /\ g.hdr[lo].size >= h.hdr[b].size
<1>1. /\ Part(h, lo, hi, hi) /\ Relaid(h, g, lo, hi, hi)
      /\ ~g.hdr[lo].alloc /\ h.hdr[lo].prev /\ h.hdr[hi].alloc
      /\ lo <= b /\ FindNext(h, b) <= hi
      /\ \A x \in Taken(h) : x = b \/ x < lo \/ hi <= x
      /\ Lists(g, {x \in FreeBlocks(h) : x < lo \/ hi <= x})
  BY DEF Merged
<1>2. Tidy(g)
  BY <1>1, RelaidTidy
<1>3. /\ lo \in Nat /\ hi \in Nat /\ lo < hi
      /\ b \in Nat /\ h.hdr[b].size \in Nat /\ h.hdr[b].size > 0 /\ b + h.hdr[b].size <= hi
  <2>1. /\ lo \in Nat /\ hi \in Nat /\ lo + 2 <= hi
    BY <1>1, PartFacts DEF Tidy
  <2>2. /\ b \in Nat /\ h.hdr[b].size \in Nat /\ h.hdr[b].size >= 2
        /\ FindNext(h, b) = b + h.hdr[b].size
    BY BlockFacts DEF Tidy, Taken
  <2> QED BY <1>1, <2>1, <2>2
<1>4. /\ \A u \in Blocks(h) : u < lo \/ hi <= u => g.hdr[u].size = h.hdr[u].size
      /\ \A u : u \in FreeBlocks(g) <=>
              \/ u \in FreeBlocks(h) /\ (u < lo \/ hi <= u)
              \/ u = lo
      /\ \A u : u \in Taken(g) <=> u \in Taken(h) /\ (u < lo \/ hi <= u)
  BY <1>1, RelaidKinds DEF Tidy
<1>5. Taken(g) = Taken(h) \ {b}
  <2>1. ASSUME NEW u \in Taken(h) PROVE u < lo \/ hi <= u <=> u # b
    <3>1. ~ (b < lo \/ hi <= b)
      BY <1>1, <1>3
    <3> QED BY <1>1, <3>1
  <2> QED BY <1>4, <2>1
<1>6. SizesKept(h, g, Taken(g))
  BY <1>4 DEF SizesKept, Taken
<1>7. lo \in FreeBlocks(g)
  BY <1>4
<1>8. FreeBlocks(g) \ {lo} = {x \in FreeBlocks(h) : x < lo \/ hi <= x}
  <2>1. \A x \in FreeBlocks(h) : x < lo \/ hi <= x => x # lo
    BY <1>3
  <2> QED BY <1>4, <2>1
<1>9. g.hdr[lo].size >= h.hdr[b].size
  <2>1. g.hdr[lo].size = hi - lo
    BY <1>1 DEF Relaid
  <2> QED BY <1>1, <1>3, <2>1
<1>10. g.ready
  BY <1>1 DEF Relaid
<1> QED BY <1>1, <1>2, <1>5, <1>6, <1>7, <1>8, <1>9, <1>10 DEF SoundBut

(***************************************************************************)
(* free: the block goes back, all other live blocks stay as they are.      *)
(***************************************************************************)
LEMMA FreeBlockFacts ==
  ASSUME NEW h, Sound(h), NEW b \in Taken(h)
  PROVE  /\ Sound(FreeBlock(h, b))
         /\ Taken(FreeBlock(h, b)) = Taken(h) \ {b}
         /\ SizesKept(h, FreeBlock(h, b), Taken(h) \ {b})
<1>1. h \in Heap /\ h.ready /\ Tidy(h) /\ Lists(h, FreeBlocks(h))
  BY DEF Sound
<1>2. PICK n : n = FindNext(h, b)
  OBVIOUS
<1>3. /\ b \in Unit /\ b \in Nat /\ n \in Unit /\ n \in Nat /\ b + 2 <= n
      /\ h.hdr[b].size = n - b /\ b \in Blocks(h) /\ b \notin FreeBlocks(h)
  <2>1. b \in Blocks(h) /\ b \notin FreeBlocks(h)
    BY <1>1, FreeUnits
  <2>2. /\ b \in Unit /\ b \in Nat /\ n \in Unit /\ n \in Nat /\ b + 2 <= n
        /\ h.hdr[b].size \in Nat /\ n = b + h.hdr[b].size
    BY <1>1, <1>2, <2>1, BlockFacts DEF Tidy
  <2> QED BY <2>1, <2>2
<1>4. PICK w : w = WriteBlock(h, b, n - b, FALSE)
  OBVIOUS
<1>5. w \in Heap /\ Tagged(h, w, b, n, FALSE) /\ LinksKept(h, w, b, n)
  <2>1. b < n
    BY <1>3
  <2> QED BY <1>1, <1>3, <1>4, <2>1, WriteBlockFacts
<1>6. Lists(w, FreeBlocks(h))
  <2>1. ASSUME NEW x \in FreeBlocks(h)
        PROVE  /\ w.hdr[x].size = h.hdr[x].size
               /\ w.nxt[x] = h.nxt[x] /\ w.prv[x] = h.prv[x]
    <3>1. x \in Unit /\ x \in Nat /\ x \in Bounds(h) /\ x # b
      BY <1>1, <1>3, FreeUnits
    <3>2. x < b \/ n <= x
      BY <1>1, <1>2, <1>3, <3>1, Apart DEF Tidy
    <3>3. w.nxt[x] = h.nxt[x] /\ w.prv[x] = h.prv[x]
      BY <1>5, <3>1, <3>2 DEF LinksKept
    <3>4. CASE x = n
      BY <1>5, <3>3, <3>4 DEF Tagged
    <3>5. CASE x < b \/ n < x
      BY <1>5, <3>1, <3>3, <3>5 DEF Tagged
    <3> QED BY <1>3, <3>1, <3>2, <3>4, <3>5
  <2>2. w.head = h.head
    BY <1>5 DEF LinksKept
  <2> QED BY <1>1, <2>1, <2>2, ListsFrame
<1>7. PICK f : f = Insert(w, b)
  OBVIOUS
<1>8. f \in Heap /\ SameTags(w, f) /\ Lists(f, FreeBlocks(h) \cup {b})
  BY <1>1, <1>3, <1>5, <1>6, <1>7, InsertFacts, FreeUnits
<1>9. Tagged(h, f, b, FindNext(h, b), FALSE)
  BY <1>2, <1>5, <1>8 DEF Tagged, SameTags
<1>10. PICK g, lo, hi :
         g \in Heap /\ Coalesce(f, b) = Outcome(g, lo) /\ Merged(h, g, b, lo, hi)
  BY <1>1, <1>8, <1>9, CoalesceFacts
<1>11. /\ SoundBut(g, lo) /\ Taken(g) = Taken(h) \ {b}
       /\ SizesKept(h, g, Taken(g))
  BY <1>1, <1>10, MergedFacts
<1>12. FreeBlock(h, b) = Insert(g, lo)
  <2>1. h.hdr[b].size = n - b
    BY <1>3
  <2>2. f = Insert(WriteBlock(h, b, h.hdr[b].size, FALSE), b)
    BY <1>4, <1>7, <2>1
  <2>3. FreeBlock(h, b) = Insert(Coalesce(f, b).heap, Coalesce(f, b).block)
    BY <2>2 DEF FreeBlock
  <2>4. Outcome(g, lo).heap = g /\ Outcome(g, lo).block = lo
    BY DEF Outcome
  <2> QED BY <1>10, <2>3, <2>4
<1>13. /\ Sound(Insert(g, lo)) /\ Taken(Insert(g, lo)) = Taken(g)
       /\ SizesKept(g, Insert(g, lo), Taken(g))
  BY <1>11, InsertSound
<1> QED BY <1>11, <1>12, <1>13 DEF SizesKept

-----------------------------------------------------------------------------
(***************************************************************************)
(* extend_heap: n units are mapped and marked free where the epilogue was, *)
(* and coalesced.  Grown is the heap with that block marked taken: it is   *)
(* tidy, and extend_heap frees the block in it.                            *)
(***************************************************************************)
Grown(h, n) ==
  [h EXCEPT !.brk = h.brk + n,
            !.hdr = [u \in Unit |->
               IF u = h.brk THEN [size |-> n, alloc |-> TRUE, prev |-> h.hdr[u].prev]
               ELSE IF u = h.brk + n THEN [size |-> 0, alloc |-> TRUE, prev |-> TRUE]
               ELSE h.hdr[u]]]

HasGrown(h, e, n, b, m) ==
  /\ e.brk = m /\ e.ready = h.ready /\ e.ftr = h.ftr
  /\ e.hdr[b].size = n /\ e.hdr[b].alloc /\ e.hdr[b].prev = h.hdr[b].prev
  /\ e.hdr[m].size = 0 /\ e.hdr[m].alloc = TRUE /\ e.hdr[m].prev = TRUE
  /\ \A u \in Unit : u # b /\ u # m => e.hdr[u] = h.hdr[u]

LEMMA GrownFacts ==
  ASSUME NEW h \in Heap, NEW n \in Nat, n >= 2, h.brk + n \in Unit
  PROVE  /\ Grown(h, n) \in Heap
         /\ HasGrown(h, Grown(h, n), n, h.brk, h.brk + n)
<1>1. PICK b, m, e : b = h.brk /\ m = h.brk + n /\ e = Grown(h, n)
  OBVIOUS
<1>2. b \in Nat /\ m \in Nat /\ b \in Unit /\ m \in Unit /\ b < m /\ n \in Unit
  BY <1>1, HeapFields, Numbers
<1>3. PICK w1, w2 : /\ w1 = [size |-> n, alloc |-> TRUE, prev |-> h.hdr[b].prev]
                    /\ w2 = [size |-> 0, alloc |-> TRUE, prev |-> TRUE]
  OBVIOUS
<1>4. /\ w1 \in Header /\ w1.size = n /\ w1.alloc /\ w1.prev = h.hdr[b].prev
      /\ w2 \in Header /\ w2.size = 0 /\ w2.alloc = TRUE /\ w2.prev = TRUE
  <2>1. h.hdr[b].prev \in BOOLEAN
    BY <1>2, HeapFields DEF Header
  <2> QED BY <1>2, <1>3, <2>1, Numbers DEF Header
<1>6. /\ e.hdr = [u \in Unit |-> IF u = h.brk
                                 THEN [size |-> n, alloc |-> TRUE, prev |-> h.hdr[u].prev]
                                 ELSE IF u = h.brk + n
                                 THEN [size |-> 0, alloc |-> TRUE, prev |-> TRUE]
                                 ELSE h.hdr[u]]
      /\ e.ftr = h.ftr /\ e.nxt = h.nxt /\ e.prv = h.prv /\ e.head = h.head
      /\ e.brk = h.brk + n /\ e.ready = h.ready
      /\ e = [hdr |-> e.hdr, ftr |-> e.ftr, nxt |-> e.nxt, prv |-> e.prv,
              head |-> e.head, brk |-> e.brk, ready |-> e.ready]
  BY <1>1 DEF Grown, Heap
<1>7. ASSUME NEW u \in Unit
      PROVE  e.hdr[u] = IF u = b THEN w1 ELSE IF u = m THEN w2 ELSE h.hdr[u]
  <2>1. e.hdr[u] = IF u = b THEN [size |-> n, alloc |-> TRUE, prev |-> h.hdr[u].prev]
                   ELSE IF u = m THEN [size |-> 0, alloc |-> TRUE, prev |-> TRUE]
                   ELSE h.hdr[u]
    BY <1>1, <1>6
  <2> QED BY <1>3, <2>1
<1>8. /\ e.hdr[b] = w1 /\ e.hdr[m] = w2
      /\ \A u \in Unit : u # b /\ u # m => e.hdr[u] = h.hdr[u]
  BY <1>2, <1>7
<1>9. e \in Heap
  <2>1. e.hdr \in [Unit -> Header]
    <3>1. \A u \in Unit : e.hdr[u] \in Header
      BY <1>4, <1>7, HeapFields
    <3>2. e.hdr = [u \in Unit |-> e.hdr[u]]
      BY <1>6
    <3> QED BY <3>1, <3>2
  <2>2. e.brk \in Unit
    BY <1>6
  <2> QED BY <1>6, <2>1, <2>2, HeapFields DEF Heap
<1>10. HasGrown(h, e, n, b, m)
  BY <1>1, <1>4, <1>6, <1>8 DEF HasGrown
<1> QED BY <1>1, <1>9, <1>10

LEMMA GrownTidy ==
  ASSUME NEW h \in Heap, Tidy(h), NEW n \in Nat, n >= 2, h.brk + n \in Unit
  PROVE  /\ Tidy(Grown(h, n))
         /\ FreeBlocks(Grown(h, n)) = FreeBlocks(h)
         /\ Taken(Grown(h, n)) = Taken(h) \cup {h.brk}
         /\ h.brk \notin Blocks(h)
         /\ SizesKept(h, Grown(h, n), Taken(h))
<1>1. PICK b, m, e : b = h.brk /\ m = h.brk + n /\ e = Grown(h, n)
  OBVIOUS
<1>2. b \in Nat /\ m \in Nat /\ b \in Unit /\ m \in Unit /\ b + 2 <= m /\ m = b + n
  BY <1>1, HeapFields, Numbers
<1>3. /\ e \in Heap /\ e.brk = m /\ e.ready = h.ready /\ e.ftr = h.ftr
      /\ e.hdr[b].size = n /\ e.hdr[b].alloc /\ e.hdr[b].prev = h.hdr[b].prev
      /\ e.hdr[m].size = 0 /\ e.hdr[m].alloc = TRUE /\ e.hdr[m].prev = TRUE
      /\ \A u \in Unit : u # b /\ u # m => e.hdr[u] = h.hdr[u]
  <2>1. e \in Heap /\ HasGrown(h, e, n, b, m)
    BY <1>1, GrownFacts
  <2> QED BY <2>1 DEF HasGrown
<1>4. ASSUME NEW x \in Blocks(h)
      PROVE  /\ x \in Nat /\ x \in Unit /\ x < b /\ e.hdr[x] = h.hdr[x]
             /\ FindNext(e, x) = FindNext(h, x)
  <2>1. x \in Nat /\ x \in Unit /\ x < b
    BY <1>1, BlockFacts DEF Tidy
  <2>2. e.hdr[x] = h.hdr[x]
    BY <1>2, <1>3, <2>1
  <2> QED BY <2>1, <2>2 DEF FindNext
<1>5. b \notin Blocks(h) /\ m \notin Blocks(h)
  BY <1>2, <1>4
<1>6. Blocks(e) = Blocks(h) \cup {b}
  <2>1. ASSUME NEW u \in Unit PROVE u \in Blocks(e) <=> u \in Blocks(h) \/ u = b
    BY <1>2, <1>3, <1>5 DEF Blocks
  <2> QED BY <1>2, <2>1 DEF Blocks
<1>7. FreeBlocks(e) = FreeBlocks(h) /\ Taken(e) = Taken(h) \cup {b}
  BY <1>3, <1>4, <1>5, <1>6 DEF FreeBlocks, Taken
<1>8. FindNext(e, b) = m
  BY <1>2, <1>3 DEF FindNext
<1>9. Tiled(e)
  <2>1. e.brk # 0 => 0 \in Blocks(e)
    BY <1>1, <1>6 DEF Tidy, Tiled
  <2>2. ASSUME NEW x \in Blocks(e)
        PROVE  /\ e.hdr[x].size >= MinBlockSize
               /\ FindNext(e, x) <= e.brk
               /\ FindNext(e, x) # e.brk => FindNext(e, x) \in Blocks(e)
               /\ \A u \in x + 1 .. FindNext(e, x) - 1 : u \notin Blocks(e)
    <3>1. CASE x \in Blocks(h)
      <4>1. PICK k : k = FindNext(h, x)
        OBVIOUS
      <4>2. /\ k \in Nat /\ k <= b /\ k \in Bounds(h) /\ h.hdr[x].size >= 2
            /\ \A u \in x + 1 .. k - 1 : u \notin Blocks(h)
        BY <1>1, <3>1, <4>1, BlockFacts DEF Tidy, Tiled
      <4>3. k \in Blocks(e)
        BY <1>1, <1>6, <4>2 DEF Bounds
      <4>4. \A u \in x + 1 .. k - 1 : u # b
        BY <1>2, <1>4, <3>1, <4>2
      <4>5. k <= m
        BY <1>2, <4>2
      <4>6. FindNext(e, x) = k /\ e.hdr[x].size >= 2
        BY <1>4, <3>1, <4>1, <4>2
      <4>7. \A u \in x + 1 .. k - 1 : u \notin Blocks(e)
        BY <1>6, <4>2, <4>4
      <4> QED BY <1>3, <4>3, <4>5, <4>6, <4>7 DEF MinBlockSize
    <3>2. CASE x = b
      <4>1. \A u \in b + 1 .. m - 1 : u \notin Blocks(e)
        BY <1>2, <1>4, <1>6
      <4> QED BY <1>2, <1>3, <1>8, <3>2, <4>1 DEF MinBlockSize
    <3> QED BY <1>6, <3>1, <3>2
  <2> QED BY <1>3, <2>1, <2>2 DEF Tiled
<1>10. TagsAgree(e)
  <2>1. e.hdr[0].prev
    <3>1. h.hdr[0].prev /\ 0 # m /\ 0 \in Unit
      BY <1>2, Numbers DEF Tidy, TagsAgree
    <3>2. CASE b = 0
      BY <1>3, <3>1, <3>2
    <3>3. CASE b # 0
      BY <1>3, <3>1, <3>3
    <3> QED BY <3>2, <3>3
  <2>2. ASSUME NEW x \in Blocks(h)
        PROVE  /\ e.hdr[FindNext(e, x)].prev = e.hdr[x].alloc
               /\ ~e.hdr[x].alloc => e.ftr[FindNext(e, x)] = e.hdr[x]
    <3>1. PICK k : k = FindNext(h, x)
      OBVIOUS
    <3>2. /\ k \in Nat /\ k \in Unit /\ k <= b
          /\ h.hdr[k].prev = h.hdr[x].alloc
          /\ ~h.hdr[x].alloc => h.ftr[k] = h.hdr[x]
      BY <1>1, <3>1, BlockFacts DEF Tidy, TagsAgree
    <3>3. e.hdr[k].prev = h.hdr[k].prev
      <4>1. CASE k = b
        BY <1>3, <4>1
      <4>2. CASE k # b
        BY <1>2, <1>3, <3>2, <4>2
      <4> QED BY <4>1, <4>2
    <3>4. FindNext(e, x) = k /\ e.hdr[x] = h.hdr[x] /\ e.ftr[k] = h.ftr[k]
      BY <1>3, <1>4, <3>1
    <3> QED BY <3>2, <3>3, <3>4
  <2>3. e.hdr[m].prev = e.hdr[b].alloc
    <3>1. e.hdr[b].alloc \in BOOLEAN
      BY <1>2, <1>3, HeapFields DEF Header
    <3> QED BY <1>3, <3>1
  <2> QED BY <1>3, <1>6, <1>8, <2>1, <2>2, <2>3 DEF TagsAgree
<1>11. NoFreeNeighbours(e)
  BY <1>4, <1>7 DEF NoFreeNeighbours, FreeBlocks, Tidy
<1>12. Prologue(e)
  BY <1>3 DEF Tidy, Prologue
<1>13. SizesKept(h, e, Taken(h))
  BY <1>4 DEF SizesKept, Taken
<1> QED BY <1>1, <1>5, <1>7, <1>9, <1>10, <1>11, <1>12, <1>13 DEF Tidy

LEMMA ExtendHeapFacts ==
  ASSUME NEW h, Sound(h), NEW n \in Nat, n >= 2, h.brk + n \in Unit
  PROVE  \E g, lo : /\ ExtendHeap(h, n) = Outcome(g, lo)
                    /\ SoundBut(g, lo) /\ g.hdr[lo].size >= n
                    /\ Taken(g) = Taken(h) /\ SizesKept(h, g, Taken(h))
<1>1. h \in Heap /\ h.ready /\ Tidy(h) /\ Lists(h, FreeBlocks(h))
  BY DEF Sound
<1>2. PICK b, m, e : b = h.brk /\ m = h.brk + n /\ e = Grown(h, n)
  OBVIOUS
<1>3. b \in Nat /\ m \in Nat /\ b \in Unit /\ m \in Unit /\ b + 2 <= m /\ m - b = n
  BY <1>1, <1>2, HeapFields, Numbers
<1>4. /\ e \in Heap /\ e.brk = m /\ e.ready = h.ready /\ e.ftr = h.ftr
      /\ e.hdr[b].size = n /\ e.hdr[b].alloc /\ e.hdr[b].prev = h.hdr[b].prev
      /\ e.hdr[m].size = 0 /\ e.hdr[m].alloc = TRUE
      /\ \A u \in Unit : u # b /\ u # m => e.hdr[u] = h.hdr[u]
  <2>1. e \in Heap /\ HasGrown(h, e, n, b, m)
    BY <1>1, <1>2, GrownFacts
  <2> QED BY <2>1 DEF HasGrown
<1>5. /\ Tidy(e) /\ FreeBlocks(e) = FreeBlocks(h) /\ Taken(e) = Taken(h) \cup {b}
      /\ b \notin Blocks(h) /\ SizesKept(h, e, Taken(h))
  BY <1>1, <1>2, GrownTidy
<1>6. PICK h0 : h0 = [h EXCEPT !.brk = m]
  OBVIOUS
<1>7. /\ h0 \in Heap /\ h0.hdr = h.hdr /\ h0.ftr = h.ftr /\ h0.nxt = h.nxt
      /\ h0.prv = h.prv /\ h0.head = h.head /\ h0.brk = m /\ h0.ready = h.ready
  BY <1>1, <1>3, <1>6 DEF Heap
<1>8. PICK w : w = WriteBlock(h0, b, m - b, FALSE)
  OBVIOUS
<1>9. w \in Heap /\ Tagged(h0, w, b, m, FALSE) /\ LinksKept(h0, w, b, m)
  <2>1. b < m
    BY <1>3
  <2> QED BY <1>3, <1>7, <1>8, <2>1, WriteBlockFacts
<1>10. PICK epi : epi = [size |-> 0, alloc |-> TRUE, prev |-> FALSE]
  OBVIOUS
<1>11. epi \in Header /\ epi.size = 0 /\ epi.alloc = TRUE /\ epi.prev = FALSE
  BY <1>10, Numbers DEF Header
<1>12. PICK f : f = [w EXCEPT !.nxt[b] = Null, !.prv[b] = Null, !.hdr[m] = epi]
  OBVIOUS
<1>13. /\ f \in Heap
       /\ f.brk = w.brk /\ f.ready = w.ready /\ f.ftr = w.ftr /\ f.head = w.head
       /\ f.hdr[m] = epi /\ \A u \in Unit : u # m => f.hdr[u] = w.hdr[u]
       /\ f.nxt[b] = Null /\ f.prv[b] = Null
       /\ \A u \in Unit : u # b => f.nxt[u] = w.nxt[u] /\ f.prv[u] = w.prv[u]
  <2>1. /\ f.nxt = [w.nxt EXCEPT ![b] = Null] /\ f.prv = [w.prv EXCEPT ![b] = Null]
        /\ f.hdr = [w.hdr EXCEPT ![m] = epi]
        /\ f.brk = w.brk /\ f.ready = w.ready /\ f.ftr = w.ftr /\ f.head = w.head
        /\ f = [hdr |-> f.hdr, ftr |-> f.ftr, nxt |-> f.nxt, prv |-> f.prv,
                head |-> f.head, brk |-> f.brk, ready |-> f.ready]
    BY <1>9, <1>12 DEF Heap
  <2>2. /\ f.hdr \in [Unit -> Header] /\ f.nxt \in [Unit -> Link] /\ f.prv \in [Unit -> Link]
    <3>1. w.hdr \in [Unit -> Header] /\ w.nxt \in [Unit -> Link] /\ w.prv \in [Unit -> Link]
      BY <1>9, HeapFields
    <3>2. f.hdr \in [Unit -> Header]
      BY <1>11, <2>1, <3>1
    <3>3. Null \in Link
      BY NullApart
    <3>4. f.nxt \in [Unit -> Link]
      BY <2>1, <3>1, <3>3
    <3>5. f.prv \in [Unit -> Link]
      BY <2>1, <3>1, <3>3
    <3> QED BY <3>2, <3>4, <3>5
  <2>3. f \in Heap
    BY <1>9, <2>1, <2>2, HeapFields DEF Heap
  <2> QED BY <1>3, <1>9, <2>1, <2>3, HeapFields
<1>14. Tagged(e, f, b, m, FALSE)
  <2>1. /\ w.brk = m /\ w.ready = h.ready
        /\ \A u \in Unit : u < b \/ m < u => w.hdr[u] = h.hdr[u]
        /\ \A u \in Unit : u <= b \/ m < u => w.ftr[u] = h.ftr[u]
        /\ \A u \in Unit : b < u /\ u < m => w.hdr[u] = NoHeader
        /\ w.hdr[b].size = m - b /\ w.hdr[b].alloc = FALSE /\ w.hdr[b].prev = h.hdr[b].prev
        /\ w.ftr[m] = w.hdr[b]
    BY <1>7, <1>9 DEF Tagged
  <2>2. \A u \in Unit : u \in Nat
    BY Numbers
  <2>3. ASSUME NEW u \in Unit, u < b \/ m < u
        PROVE  f.hdr[u] = e.hdr[u]
    <3>1. u # b /\ u # m
      BY <1>3, <2>2, <2>3
    <3> QED BY <1>4, <1>13, <2>1, <2>3, <3>1
  <2>4. \A u \in Unit : u <= b \/ m < u => f.ftr[u] = e.ftr[u]
    BY <1>4, <1>13, <2>1
  <2>5. ASSUME NEW u \in Unit, b < u, u < m
        PROVE  f.hdr[u] = NoHeader
    <3>1. u # m
      BY <1>3, <2>2, <2>5
    <3> QED BY <1>13, <2>1, <2>5, <3>1
  <2>6. f.hdr[b] = w.hdr[b]
    BY <1>3, <1>13
  <2> QED BY <1>4, <1>11, <1>13, <2>1, <2>3, <2>4, <2>5, <2>6 DEF Tagged
<1>15. Lists(f, FreeBlocks(h) \cup {b})
  <2>1. ASSUME NEW x \in FreeBlocks(h)
        PROVE  /\ f.hdr[x].size = h.hdr[x].size
               /\ f.nxt[x] = h.nxt[x] /\ f.prv[x] = h.prv[x]
    <3>1. x \in Nat /\ x \in Unit /\ x < b
      BY <1>1, <1>2, BlockFacts, FreeUnits DEF Tidy
    <3>2. x # b /\ x # m
      BY <1>3, <3>1
    <3>3. w.hdr[x] = h.hdr[x]
      BY <1>7, <1>9, <3>1 DEF Tagged
    <3>4. w.nxt[x] = h.nxt[x] /\ w.prv[x] = h.prv[x]
      BY <1>7, <1>9, <3>1 DEF LinksKept
    <3> QED BY <1>13, <3>1, <3>2, <3>3, <3>4
  <2>2. f.head = h.head
    BY <1>7, <1>9, <1>13 DEF LinksKept
  <2>3. Lists(f, FreeBlocks(h))
    BY <1>1, <2>1, <2>2, ListsFrame
  <2> QED BY <1>13, <2>3, ListsAdd
<1>16. b \in Taken(e) /\ FindNext(e, b) = m
  BY <1>3, <1>4, <1>5 DEF FindNext
<1>17. PICK g, lo, hi :
         g \in Heap /\ Coalesce(f, b) = Outcome(g, lo) /\ Merged(e, g, b, lo, hi)
  BY <1>4, <1>5, <1>13, <1>14, <1>15, <1>16, CoalesceFacts
<1>18. /\ SoundBut(g, lo) /\ Taken(g) = Taken(e) \ {b}
       /\ SizesKept(e, g, Taken(g)) /\ g.hdr[lo].size >= n
  <2>1. e.ready
    BY <1>1, <1>4
  <2>2. /\ SoundBut(g, lo) /\ Taken(g) = Taken(e) \ {b}
        /\ SizesKept(e, g, Taken(g)) /\ g.hdr[lo].size >= e.hdr[b].size
    BY <1>4, <1>5, <1>16, <1>17, <2>1, MergedFacts
  <2> QED BY <1>4, <2>2
<1>19. ExtendHeap(h, n) = Outcome(g, lo)
  <2>1. f = [WriteBlock([h EXCEPT !.brk = h.brk + n], h.brk, n, FALSE)
               EXCEPT !.nxt[h.brk] = Null, !.prv[h.brk] = Null,
                      !.hdr[h.brk + n] = [size |-> 0, alloc |-> TRUE, prev |-> FALSE]]
    <3>1. h0 = [h EXCEPT !.brk = h.brk + n] /\ w = WriteBlock(h0, h.brk, n, FALSE)
      BY <1>2, <1>3, <1>6, <1>8
    <3> QED BY <1>2, <1>10, <1>12, <3>1
  <2>2. ExtendHeap(h, n) = Coalesce(f, h.brk)
    BY <2>1 DEF ExtendHeap
  <2> QED BY <1>2, <1>17, <2>2
<1>20. Taken(g) = Taken(h) /\ SizesKept(h, g, Taken(h))
  <2>1. b \notin Taken(h)
    BY <1>5 DEF Taken
  <2>2. Taken(g) = Taken(h)
    BY <1>5, <1>18, <2>1
  <2> QED BY <1>5, <1>18, <2>2 DEF SizesKept
<1> QED BY <1>18, <1>19, <1>20

-----------------------------------------------------------------------------
(***************************************************************************)
(* The end of malloc: a free block that is on no list becomes the payload, *)
(* and what split_block cuts off becomes a free block on its list.         *)
(***************************************************************************)
LEMMA WholeRelaid ==
  ASSUME NEW h \in Heap, NEW g \in Heap, NEW b \in Unit, NEW n \in Unit, b + 2 <= n,
         Tagged(h, g, b, n, TRUE)
  PROVE  Relaid(h, g, b, n, n) /\ g.hdr[b].alloc
<1>1. b \in Nat /\ n \in Nat
  BY Numbers
<1>2. g.hdr[b].alloc = TRUE /\ g.hdr[n].prev = TRUE
  BY DEF Tagged
<1>3. g.hdr[b].alloc /\ g.hdr[n].prev = g.hdr[b].alloc
  BY <1>2
<1>4. \A u \in Unit : b < u /\ u < n => g.hdr[u].size = 0
  BY DEF Tagged, NoHeader
<1> QED BY <1>1, <1>3, <1>4 DEF Tagged, Relaid

LEMMA CutRelaid ==
  ASSUME NEW h \in Heap, NEW t1 \in Heap, NEW t2 \in Heap, NEW g \in Heap,
         NEW b \in Unit, NEW mid \in Unit, NEW n \in Unit, b + 2 <= mid, mid + 2 <= n,
         Tagged(h, t1, b, n, TRUE), Tagged(t1, t2, b, mid, TRUE), Tagged(t2, g, mid, n, FALSE)
  PROVE  Relaid(h, g, b, mid, n) /\ g.hdr[b].alloc /\ ~g.hdr[mid].alloc
<1>1. /\ b \in Nat /\ n \in Nat /\ mid \in Nat /\ b < mid /\ mid < n /\ mid # n
      /\ \A u \in Unit : u \in Nat
  BY Numbers
<1>2. /\ t1.brk = h.brk /\ t1.ready = h.ready
      /\ \A u \in Unit : u < b \/ n < u => t1.hdr[u] = h.hdr[u]
      /\ \A u \in Unit : u <= b \/ n < u => t1.ftr[u] = h.ftr[u]
      /\ t1.hdr[b].prev = h.hdr[b].prev
      /\ t1.hdr[n].size = h.hdr[n].size /\ t1.hdr[n].alloc = h.hdr[n].alloc
  BY DEF Tagged
<1>3. /\ t2.brk = t1.brk /\ t2.ready = t1.ready
      /\ \A u \in Unit : u < b \/ mid < u => t2.hdr[u] = t1.hdr[u]
      /\ \A u \in Unit : u <= b \/ mid < u => t2.ftr[u] = t1.ftr[u]
      /\ \A u \in Unit : b < u /\ u < mid => t2.hdr[u].size = 0
      /\ t2.hdr[b].size = mid - b /\ t2.hdr[b].alloc = TRUE /\ t2.hdr[b].prev = t1.hdr[b].prev
      /\ t2.hdr[mid].prev = TRUE
  BY DEF Tagged, NoHeader
<1>4. /\ g.brk = t2.brk /\ g.ready = t2.ready
      /\ \A u \in Unit : u < mid \/ n < u => g.hdr[u] = t2.hdr[u]
      /\ \A u \in Unit : u <= mid \/ n < u => g.ftr[u] = t2.ftr[u]
      /\ \A u \in Unit : mid < u /\ u < n => g.hdr[u].size = 0
      /\ g.hdr[mid].size = n - mid /\ g.hdr[mid].alloc = FALSE /\ g.hdr[mid].prev = t2.hdr[mid].prev
      /\ g.hdr[n].size = t2.hdr[n].size /\ g.hdr[n].alloc = t2.hdr[n].alloc
      /\ g.hdr[n].prev = FALSE
      /\ g.ftr[n] = g.hdr[mid]
  BY DEF Tagged, NoHeader
<1>5. /\ g.brk = h.brk /\ g.ready = h.ready
  BY <1>2, <1>3, <1>4
<1>6. ASSUME NEW u \in Unit
      PROVE  /\ u < b \/ n < u => g.hdr[u] = h.hdr[u]
             /\ u <= b \/ n < u => g.ftr[u] = h.ftr[u]
  <2>1. u \in Nat
    BY <1>1
  <2>2. CASE u <= b
    <3>1. u <= mid /\ u < mid
      BY <1>1, <2>1, <2>2
    <3>2. ~ (n < u)
      BY <1>1, <2>1, <2>2
    <3> QED BY <1>2, <1>3, <1>4, <2>2, <3>1, <3>2
  <2>3. CASE n < u
    <3>1. mid < u /\ ~ (u < b)
      BY <1>1, <2>1, <2>3
    <3> QED BY <1>2, <1>3, <1>4, <2>3, <3>1
  <2> QED BY <1>1, <2>1, <2>2, <2>3
<1>7. ASSUME NEW u \in Unit, b < u, u < n, u # mid
      PROVE  g.hdr[u].size = 0
  <2>1. CASE u < mid
    BY <1>3, <1>4, <1>7, <2>1
  <2>2. CASE mid < u
    BY <1>4, <1>7, <2>2
  <2> QED BY <1>1, <1>7, <2>1, <2>2
<1>8. g.hdr[b] = t2.hdr[b]
  BY <1>1, <1>4
<1>9. g.hdr[b].size = mid - b /\ g.hdr[b].prev = h.hdr[b].prev /\ g.hdr[b].alloc
  BY <1>2, <1>3, <1>8
<1>10. t2.hdr[n] = t1.hdr[n]
  BY <1>1, <1>3
<1>11. g.hdr[n].size = h.hdr[n].size /\ g.hdr[n].alloc = h.hdr[n].alloc
  BY <1>2, <1>4, <1>10
<1>12. ~g.hdr[mid].alloc /\ g.hdr[mid].prev /\ ~g.hdr[n].prev
  BY <1>3, <1>4
<1> QED BY <1>1, <1>4, <1>5, <1>6, <1>7, <1>9, <1>11, <1>12 DEF Relaid

\* Lists outside a block do not see what is written inside.
LEMMA ListsOutside ==
  ASSUME NEW h, NEW g, NEW S, Lists(h, S), NEW b \in Nat, NEW n \in Nat, b < n,
         \A x \in S : x \in Unit /\ x \in Nat /\ (x < b \/ n <= x),
         NEW alloc, Tagged(h, g, b, n, alloc), LinksKept(h, g, b, n)
  PROVE  Lists(g, S)
<1>1. ASSUME NEW x \in S
      PROVE  /\ g.hdr[x].size = h.hdr[x].size
             /\ g.nxt[x] = h.nxt[x] /\ g.prv[x] = h.prv[x]
  <2>1. g.nxt[x] = h.nxt[x] /\ g.prv[x] = h.prv[x]
    BY DEF LinksKept
  <2>2. CASE x = n
    BY <2>1, <2>2 DEF Tagged
  <2>3. CASE x < b \/ n < x
    BY <2>1, <2>3 DEF Tagged
  <2> QED BY <2>2, <2>3
<1>2. g.head = h.head
  BY DEF LinksKept
<1> QED BY <1>1, <1>2, ListsFrame

Placed(h, g, b, asize) ==
  /\ Sound(g)
  /\ Taken(g) = Taken(h) \cup {b}
  /\ SizesKept(h, g, Taken(h))
  /\ g.hdr[b].size >= asize

LEMMA PlaceFacts ==
  ASSUME NEW h, NEW b, SoundBut(h, b), NEW asize \in Nat,
         asize >= 2, asize <= h.hdr[b].size
  PROVE  Placed(h, Place(h, b, asize), b, asize)
<1>1. /\ h \in Heap /\ h.ready /\ Tidy(h) /\ b \in FreeBlocks(h)
      /\ Lists(h, FreeBlocks(h) \ {b})
  BY DEF SoundBut
<1>2. PICK n, mid : n = FindNext(h, b) /\ mid = b + asize
  OBVIOUS
<1>3. /\ b \in Unit /\ b \in Nat /\ n \in Unit /\ n \in Nat /\ n \in Bounds(h)
      /\ b \in Blocks(h) /\ b \notin Taken(h) /\ b + 2 <= n
      /\ h.hdr[b].size \in Nat /\ h.hdr[b].size = n - b
      /\ mid \in Nat /\ b + 2 <= mid /\ mid <= n /\ asize = mid - b
  <2>1. b \in Blocks(h) /\ b \notin Taken(h)
    BY <1>1, FreeUnits
  <2>2. /\ b \in Unit /\ b \in Nat /\ n \in Unit /\ n \in Nat /\ n \in Bounds(h)
        /\ b + 2 <= n /\ h.hdr[b].size \in Nat /\ n = b + h.hdr[b].size
    BY <1>1, <1>2, <2>1, BlockFacts DEF Tidy
  <2>3. mid = b + asize
    BY <1>2
  <2> QED BY <2>1, <2>2, <2>3
<1>4. h.hdr[n].alloc
  BY <1>1, <1>2, FreeEnds
<1>5. mid \in Unit
  BY <1>3, Numbers
<1>6. PICK t1 : t1 = WriteBlock(h, b, n - b, TRUE)
  OBVIOUS
<1>7. t1 \in Heap /\ Tagged(h, t1, b, n, TRUE) /\ LinksKept(h, t1, b, n)
  <2>1. b < n
    BY <1>3
  <2> QED BY <1>1, <1>3, <1>6, <2>1, WriteBlockFacts
<1>8. \A x \in FreeBlocks(h) \ {b} : x \in Unit /\ x \in Nat /\ (x < b \/ n <= x)
  <2>1. ASSUME NEW x \in FreeBlocks(h) \ {b}
        PROVE  x \in Unit /\ x \in Nat /\ (x < b \/ n <= x)
    <3>1. x \in Unit /\ x \in Nat /\ x \in Bounds(h)
      BY <1>1, FreeUnits
    <3> QED BY <1>1, <1>2, <1>3, <3>1, Apart DEF Tidy
  <2> QED BY <2>1
<1>9. ASSUME NEW x \in Taken(h) PROVE x < b \/ n <= x
  <2>1. x \in Nat /\ x \in Bounds(h) /\ x # b
    BY <1>1, <1>3, FreeUnits DEF Bounds
  <2> QED BY <1>1, <1>2, <1>3, <2>1, Apart DEF Tidy
<1>10. Lists(t1, FreeBlocks(h) \ {b})
  <2>1. b < n
    BY <1>3
  <2> QED BY <1>1, <1>3, <1>7, <1>8, <2>1, ListsOutside
<1>11. CASE ~ (n - mid >= 2)
  <2>1. Relaid(h, t1, b, n, n) /\ t1.hdr[b].alloc
    BY <1>1, <1>3, <1>7, WholeRelaid
  <2>2. Part(h, b, n, n)
    BY <1>3 DEF Part
  <2>3. Tidy(t1)
    BY <1>1, <1>4, <1>7, <2>1, <2>2, RelaidTidy
  <2>4. /\ \A u \in Blocks(h) : u < b \/ n <= u => t1.hdr[u].size = h.hdr[u].size
        /\ \A u : u \in FreeBlocks(t1) <=> u \in FreeBlocks(h) /\ (u < b \/ n <= u)
        /\ \A u : u \in Taken(t1) <=> (u \in Taken(h) /\ (u < b \/ n <= u)) \/ u = b
    BY <1>1, <1>7, <2>1, <2>2, RelaidKinds DEF Tidy
  <2>5. FreeBlocks(t1) = FreeBlocks(h) \ {b}
    BY <1>3, <1>8, <2>4
  <2>6. Taken(t1) = Taken(h) \cup {b}
    BY <1>9, <2>4
  <2>7. SizesKept(h, t1, Taken(h))
    BY <1>9, <2>4 DEF SizesKept, Taken
  <2>8. t1.hdr[b].size >= asize
    BY <1>3, <2>1 DEF Relaid
  <2>9. t1.ready
    BY <1>1, <1>7 DEF Tagged
  <2>10. Place(h, b, asize) = t1
    <3>1. h.hdr[b].size = n - b /\ ~ (h.hdr[b].size - asize >= MinBlockSize)
      BY <1>3, <1>11 DEF MinBlockSize
    <3>2. t1.hdr[b].size = n - b
      BY <2>1 DEF Relaid
    <3>3. FindNext(t1, b) = n
      BY <1>3, <3>2 DEF FindNext
    <3>4. t1.hdr[n].alloc
      BY <1>4, <1>7 DEF Tagged
    <3>5. WriteBlock(h, b, h.hdr[b].size, TRUE) = t1
      BY <1>6, <3>1
    <3> QED BY <3>1, <3>3, <3>4, <3>5 DEF Place
  <2> QED BY <1>7, <1>10, <2>3, <2>5, <2>6, <2>7, <2>8, <2>9, <2>10 DEF Placed, Sound
<1>12. CASE n - mid >= 2
  <2>1. b < mid /\ mid < n /\ mid + 2 <= n /\ mid # n /\ mid # b
    BY <1>3, <1>12
  <2>2. PICK t2 : t2 = WriteBlock(t1, b, mid - b, TRUE)
    OBVIOUS
  <2>3. t2 \in Heap /\ Tagged(t1, t2, b, mid, TRUE) /\ LinksKept(t1, t2, b, mid)
    BY <1>3, <1>5, <1>7, <2>1, <2>2, WriteBlockFacts
  <2>4. PICK g : g = WriteBlock(t2, mid, n - mid, FALSE)
    OBVIOUS
  <2>5. g \in Heap /\ Tagged(t2, g, mid, n, FALSE) /\ LinksKept(t2, g, mid, n)
    BY <1>3, <1>5, <2>1, <2>3, <2>4, WriteBlockFacts
  <2>6. Relaid(h, g, b, mid, n) /\ g.hdr[b].alloc /\ ~g.hdr[mid].alloc
    BY <1>1, <1>3, <1>5, <1>7, <2>1, <2>3, <2>5, CutRelaid
  <2>7. Part(h, b, mid, n)
    BY <1>3, <2>1 DEF Part
  <2>8. Tidy(g)
    BY <1>1, <1>4, <2>5, <2>6, <2>7, RelaidTidy
  <2>9. Lists(g, FreeBlocks(h) \ {b})
    <3>1. /\ \A x \in FreeBlocks(h) \ {b} : x \in Unit /\ x \in Nat /\ (x < b \/ mid <= x)
          /\ \A x \in FreeBlocks(h) \ {b} : x \in Unit /\ x \in Nat /\ (x < mid \/ n <= x)
      BY <1>3, <1>8, <2>1
    <3>2. Lists(t2, FreeBlocks(h) \ {b})
      BY <1>3, <1>10, <2>1, <2>3, <3>1, ListsOutside
    <3> QED BY <1>3, <2>1, <2>5, <3>1, <3>2, ListsOutside
  <2>10. /\ \A u \in Blocks(h) : u < b \/ n <= u => g.hdr[u].size = h.hdr[u].size
         /\ \A u : u \in FreeBlocks(g) <=>
              (u \in FreeBlocks(h) /\ (u < b \/ n <= u)) \/ u = mid
         /\ \A u : u \in Taken(g) <=> (u \in Taken(h) /\ (u < b \/ n <= u)) \/ u = b
    BY <1>1, <2>1, <2>5, <2>6, <2>7, RelaidKinds DEF Tidy
  <2>11. mid \in FreeBlocks(g) /\ FreeBlocks(g) \ {mid} = FreeBlocks(h) \ {b}
    <3>1. mid \notin FreeBlocks(h) \ {b}
      BY <1>3, <1>8, <2>1
    <3>2. ASSUME NEW u
          PROVE  u \in FreeBlocks(g) \ {mid} <=> u \in FreeBlocks(h) \ {b}
      <4>1. ~ (b < b \/ n <= b)
        BY <1>3
      <4> QED BY <1>8, <2>10, <3>1, <4>1
    <3> QED BY <2>10, <3>2
  <2>12. Taken(g) = Taken(h) \cup {b}
    BY <1>9, <2>10
  <2>13. SizesKept(h, g, Taken(h))
    BY <1>9, <2>10 DEF SizesKept, Taken
  <2>14. g.hdr[b].size >= asize
    BY <1>3, <2>6 DEF Relaid
  <2>15. g.ready
    BY <1>1, <1>7, <2>3, <2>5 DEF Tagged
  <2>16. SoundBut(g, mid)
    BY <2>5, <2>8, <2>9, <2>11, <2>15 DEF SoundBut
  <2>17. Place(h, b, asize) = Insert(g, mid)
    <3>1. h.hdr[b].size = n - b /\ h.hdr[b].size - asize >= MinBlockSize
      BY <1>3, <1>12 DEF MinBlockSize
    <3>2. h.hdr[b].size - asize = n - mid /\ b + asize = mid /\ asize = mid - b
      BY <1>3
    <3>3. WriteBlock(h, b, h.hdr[b].size, TRUE) = t1
      BY <1>6, <3>1
    <3>4. g = WriteBlock(WriteBlock(t1, b, asize, TRUE), b + asize,
                         h.hdr[b].size - asize, FALSE)
      BY <2>2, <2>4, <3>2
    <3>5. g.hdr[b].size = mid - b
      BY <2>6 DEF Relaid
    <3>6. FindNext(g, b) = mid
      BY <1>3, <3>5 DEF FindNext
    <3> QED BY <2>6, <3>1, <3>3, <3>4, <3>6 DEF Place
  <2>18. /\ Sound(Insert(g, mid)) /\ Taken(Insert(g, mid)) = Taken(g)
         /\ SizesKept(g, Insert(g, mid), Taken(g))
    BY <2>16, InsertSound
  <2>19. b \in Taken(g)
    BY <2>12
  <2>20. SizesKept(h, Insert(g, mid), Taken(h))
    BY <2>12, <2>13, <2>18 DEF SizesKept
  <2>21. Insert(g, mid).hdr[b].size >= asize
    BY <2>14, <2>18, <2>19 DEF SizesKept
  <2> QED BY <2>12, <2>17, <2>18, <2>20, <2>21 DEF Placed
<1> QED BY <1>11, <1>12

-----------------------------------------------------------------------------
(***************************************************************************)
(* Walking along a list or over the heap: a recursive function on Unit     *)
(* that repeats a step exists, and stays in a set that the step stays in.  *)
(***************************************************************************)
Steps(f, x0, step) == f = [i \in Unit |-> IF i = 0 THEN x0 ELSE step[f[i - 1]]]

LEMMA StepsExist ==
  ASSUME NEW X, NEW x0 \in X, NEW step \in [X -> X]
  PROVE  \E f \in [Unit -> X] : Steps(f, x0, step)
<1> DEFINE Good(n, f) == /\ f \in [0 .. n -> X]
                         /\ f[0] = x0
                         /\ \A i \in 1 .. n : f[i] = step[f[i - 1]]
           Bad == {n \in Nat : \A f \in [0 .. n -> X] : ~ Good(n, f)}
<1>1. Bad = {}
  <2> SUFFICES ASSUME Bad # {} PROVE FALSE
    OBVIOUS
  <2>1. Bad \in SUBSET Nat
    OBVIOUS
  <2>2. PICK m \in Bad : \A k \in Bad : m <= k
    <3> HIDE DEF Bad
    <3> QED BY <2>1, FirstExists
  <2>3. m \in Nat
    OBVIOUS
  <2>4. m # 0
    <3>1. Good(0, [i \in 0 .. 0 |-> x0])
      OBVIOUS
    <3> QED BY <3>1
  <2>5. m - 1 \in Nat /\ m - 1 \notin Bad
    <3>1. m - 1 \in Nat /\ ~ (m <= m - 1)
      BY <2>3, <2>4
    <3> HIDE DEF Bad
    <3> QED BY <2>2, <3>1
  <2>6. PICK f : Good(m - 1, f)
    BY <2>5
  <2>7. PICK g : g = [i \in 0 .. m |-> IF i = m THEN step[f[m - 1]] ELSE f[i]]
    OBVIOUS
  <2>8. \A i \in 0 .. m - 1 : i \in 0 .. m /\ i # m /\ f[i] \in X
    BY <2>3, <2>6
  <2>9. /\ \A i \in 0 .. m - 1 : g[i] = f[i]
        /\ g[m] = step[f[m - 1]]
        /\ m - 1 \in 0 .. m - 1 /\ 0 \in 0 .. m - 1 /\ m \in 0 .. m
    BY <2>3, <2>5, <2>7, <2>8
  <2>10. g \in [0 .. m -> X]
    <3>1. f[m - 1] \in X /\ step[f[m - 1]] \in X
      BY <2>8, <2>9
    <3>2. \A i \in 0 .. m : i # m => i \in 0 .. m - 1
      BY <2>3
    <3> QED BY <2>7, <2>8, <3>1, <3>2
  <2>11. g[0] = x0
    BY <2>6, <2>9
  <2>12. ASSUME NEW i \in 1 .. m PROVE g[i] = step[g[i - 1]]
    <3>1. CASE i = m
      BY <2>9, <3>1
    <3>2. CASE i # m
      <4>1. i \in 0 .. m - 1 /\ i - 1 \in 0 .. m - 1 /\ i \in 1 .. m - 1
        BY <2>3, <3>2
      <4> QED BY <2>6, <2>9, <4>1
    <3> QED BY <3>1, <3>2
  <2>13. Good(m, g)
    BY <2>10, <2>11, <2>12
  <2> HIDE DEF Good
  <2> QED BY <2>2, <2>10, <2>13
<1>2. PICK f : Good(HeapUnits, f)
  BY <1>1, Numbers
<1>3. f \in [Unit -> X]
  BY <1>2 DEF Unit
<1>4. ASSUME NEW i \in Unit
      PROVE  f[i] = IF i = 0 THEN x0 ELSE step[f[i - 1]]
  <2>1. i \in Nat /\ i <= HeapUnits /\ HeapUnits \in Nat
    BY Numbers
  <2>2. i # 0 => i \in 1 .. HeapUnits
    BY <2>1
  <2> QED BY <1>2, <2>2
<1>5. Steps(f, x0, step)
  BY <1>3, <1>4 DEF Steps
<1> QED BY <1>3, <1>5

LEMMA StepsStay ==
  ASSUME NEW X, NEW f, f[0] \in X,
         \A i \in Unit : i # 0 /\ f[i - 1] \in X => f[i] \in X
  PROVE  \A i \in Unit : f[i] \in X
<1> SUFFICES ASSUME NEW j \in Unit, f[j] \notin X PROVE FALSE
  OBVIOUS
<1> DEFINE Out == {i \in Unit : f[i] \notin X}
<1>1. Out \in SUBSET Nat /\ Out # {}
  BY Numbers
<1>2. PICK m \in Out : \A k \in Out : m <= k
  <2> HIDE DEF Out
  <2> QED BY <1>1, FirstExists
<1>3. m \in Unit /\ m \in Nat /\ f[m] \notin X /\ m # 0 /\ m <= HeapUnits /\ HeapUnits \in Nat
  BY Numbers
<1>4. m - 1 \in Unit /\ ~ (m <= m - 1)
  BY <1>3, Numbers
<1>5. f[m - 1] \in X
  BY <1>2, <1>4
<1> QED BY <1>3, <1>5

\* A list holds blocks of its class only, and then nothing.
LEMMA ListOfFacts ==
  ASSUME NEW h, NEW S, Lists(h, S), Null \notin S, NEW c \in Class
  PROVE  \A i \in Unit : \/ ListOf(h, c)[i] = Null
                         \/ /\ ListOf(h, c)[i] \in S
                            /\ ListIndex(h.hdr[ListOf(h, c)[i]].size) = c
<1> DEFINE X == {Null} \cup {b \in S : ListIndex(h.hdr[b].size) = c}
           F(g) == [i \in Unit |-> IF i = 0 THEN h.head[c]
                                   ELSE IF g[i - 1] = Null THEN Null ELSE h.nxt[g[i - 1]]]
           step == [b \in X |-> IF b = Null THEN Null ELSE h.nxt[b]]
<1>1. h.head[c] \in X
  BY DEF Lists, IsHead
<1>2. ASSUME NEW b \in X, b # Null PROVE h.nxt[b] \in X
  BY <1>2 DEF Lists, IsNext
<1>3. step \in [X -> X]
  BY <1>2
<1>4. \E g : g = F(g)
  <2>1. PICK g \in [Unit -> X] : Steps(g, h.head[c], step)
    <3> HIDE DEF X, step
    <3> QED BY <1>1, <1>3, StepsExist
  <2>2. ASSUME NEW i \in Unit
        PROVE  (IF i = 0 THEN h.head[c] ELSE step[g[i - 1]])
                = IF i = 0 THEN h.head[c]
                  ELSE IF g[i - 1] = Null THEN Null ELSE h.nxt[g[i - 1]]
    <3>1. CASE i = 0
      BY <3>1
    <3>2. CASE i # 0
      <4>1. i - 1 \in Unit
        BY <3>2, Numbers
      <4>2. g[i - 1] \in X
        BY <4>1
      <4> QED BY <3>2, <4>2
    <3> QED BY <3>1, <3>2
  <2>3. g = F(g)
    BY <2>1, <2>2 DEF Steps
  <2> QED BY <2>3
<1>5. PICK at : at = ListOf(h, c)
  OBVIOUS
<1>6. at = CHOOSE g : g = F(g)
  BY <1>5 DEF ListOf
<1>7. at = F(at)
  <2> HIDE DEF F
  <2> QED BY <1>4, <1>6
<1>8. at[0] \in X
  <2>1. at[0] = h.head[c]
    BY <1>7, Numbers
  <2> QED BY <1>1, <2>1
<1>9. ASSUME NEW i \in Unit, i # 0, at[i - 1] \in X PROVE at[i] \in X
  <2>1. at[i] = IF at[i - 1] = Null THEN Null ELSE h.nxt[at[i - 1]]
    BY <1>7, <1>9
  <2> QED BY <1>2, <1>9, <2>1
<1>10. \A i \in Unit : at[i] \in X
  <2> HIDE DEF X
  <2> QED BY <1>8, <1>9, StepsStay
<1> QED BY <1>5, <1>10

-----------------------------------------------------------------------------
(***************************************************************************)
(* find_fit: it returns nothing or a block of a list that is long enough.  *)
(***************************************************************************)
LEMMA NearFitSlack ==
  ASSUME NEW h \in Heap, NEW b \in Unit \cup {Null}, NEW asize \in Nat, Fits(h, b, asize)
  PROVE  b \in Unit /\ asize <= h.hdr[b].size /\ Slack(h, b, asize) \in Nat
<1>1. b \in Unit /\ asize <= h.hdr[b].size
  BY DEF Fits
<1>2. h.hdr[b].size \in Nat
  BY <1>1, HeapFields
<1> QED BY <1>1, <1>2 DEF Slack

LEMMA BestInFacts ==
  ASSUME NEW h \in Heap, NEW c, NEW asize \in Nat,
         \A i \in Unit : ListOf(h, c)[i] \in Unit \cup {Null},
         \E i \in Unit : NearFit(h, ListOf(h, c)[i], asize)
  PROVE  \E i \in Unit : /\ BestIn(h, c, asize) = ListOf(h, c)[i]
                         /\ Fits(h, ListOf(h, c)[i], asize)
<1>1. PICK at : at = ListOf(h, c)
  OBVIOUS
<1> DEFINE near == {i \in Unit : NearFit(h, at[i], asize)}
           seen == {i \in near : Cardinality({k \in near : k < i}) < SearchLimit}
           Slacks == {Slack(h, at[i], asize) : i \in seen}
           Best(i) == \A k \in seen :
             \/ Slack(h, at[i], asize) < Slack(h, at[k], asize)
             \/ Slack(h, at[i], asize) = Slack(h, at[k], asize) /\ i <= k
<1>2. near \in SUBSET Nat /\ near # {} /\ near \in SUBSET Unit
  BY <1>1, Numbers
<1>3. seen # {}
  <2>1. PICK i \in near : \A k \in near : i <= k
    <3> HIDE DEF near
    <3> QED BY <1>2, FirstExists
  <2>2. {k \in near : k < i} = {}
    <3>1. ASSUME NEW k \in near PROVE ~ (k < i)
      <4>1. k \in Nat /\ i \in Nat /\ i <= k
        BY <1>2, <2>1
      <4> QED BY <4>1
    <3> QED BY <3>1
  <2>3. Cardinality({k \in near : k < i}) = 0
    BY <2>2, FS_EmptySet
  <2>4. 0 < SearchLimit
    BY MmAssumption
  <2> QED BY <2>1, <2>3, <2>4
<1>4. ASSUME NEW i \in seen
      PROVE  i \in Unit /\ i \in Nat /\ Fits(h, at[i], asize) /\ Slack(h, at[i], asize) \in Nat
  <2>1. i \in Unit /\ i \in Nat /\ NearFit(h, at[i], asize)
    BY Numbers
  <2>2. at[i] \in Unit \cup {Null} /\ Fits(h, at[i], asize)
    BY <1>1, <2>1 DEF NearFit
  <2> QED BY <2>1, <2>2, NearFitSlack
<1>5. PICK s \in Slacks : \A t \in Slacks : s <= t
  <2>1. Slacks \in SUBSET Nat /\ Slacks # {}
    <3> HIDE DEF seen
    <3> QED BY <1>3, <1>4
  <2> HIDE DEF Slacks
  <2> QED BY <2>1, FirstExists
<1>6. PICK i \in {k \in seen : Slack(h, at[k], asize) = s} :
        \A k \in {k \in seen : Slack(h, at[k], asize) = s} : i <= k
  <2>1. {k \in seen : Slack(h, at[k], asize) = s} \in SUBSET Nat
    <3> HIDE DEF seen
    <3> QED BY <1>4
  <2>2. {k \in seen : Slack(h, at[k], asize) = s} # {}
    <3> HIDE DEF seen
    <3> QED BY <1>5
  <2> HIDE DEF seen
  <2> QED BY <2>1, <2>2, FirstExists
<1>7. i \in seen /\ Best(i)
  <2>1. i \in seen /\ Slack(h, at[i], asize) = s
    OBVIOUS
  <2>2. ASSUME NEW k \in seen
        PROVE  \/ Slack(h, at[i], asize) < Slack(h, at[k], asize)
               \/ Slack(h, at[i], asize) = Slack(h, at[k], asize) /\ i <= k
    <3> HIDE DEF seen
    <3>1. s <= Slack(h, at[k], asize) /\ s \in Nat /\ Slack(h, at[k], asize) \in Nat
      BY <1>4, <1>5, <2>1
    <3>2. CASE Slack(h, at[k], asize) = s
      BY <1>6, <2>1, <3>2
    <3>3. CASE Slack(h, at[k], asize) # s
      BY <2>1, <3>1, <3>3
    <3> QED BY <3>2, <3>3
  <2> QED BY <2>1, <2>2
<1>8. PICK j : j = CHOOSE k \in seen : Best(k)
  OBVIOUS
<1>9. j \in seen
  <2> HIDE DEF seen, Best
  <2> QED BY <1>7, <1>8
<1>10. BestIn(h, c, asize) = at[j]
  BY <1>1, <1>8 DEF BestIn
<1> QED BY <1>1, <1>4, <1>9, <1>10

LEMMA FirstInFacts ==
  ASSUME NEW h \in Heap, NEW c, NEW asize \in Nat,
         \E i \in Unit : Fits(h, ListOf(h, c)[i], asize)
  PROVE  \E i \in Unit : /\ FirstIn(h, c, asize) = ListOf(h, c)[i]
                         /\ Fits(h, ListOf(h, c)[i], asize)
<1>1. PICK at : at = ListOf(h, c)
  OBVIOUS
<1> DEFINE fits == {i \in Unit : Fits(h, at[i], asize)}
<1>2. fits \in SUBSET Nat /\ fits # {}
  BY <1>1, Numbers
<1>3. \E i \in fits : \A k \in fits : i <= k
  <2> HIDE DEF fits
  <2> QED BY <1>2, FirstExists
<1>4. PICK j : j = CHOOSE i \in fits : \A k \in fits : i <= k
  OBVIOUS
<1>5. j \in fits
  <2> HIDE DEF fits
  <2> QED BY <1>3, <1>4
<1>6. FirstIn(h, c, asize) = at[j]
  BY <1>1, <1>4 DEF FirstIn
<1> QED BY <1>1, <1>5, <1>6

LEMMA FindFitFacts ==
  ASSUME NEW h, Sound(h), NEW asize \in Nat, FindFit(h, asize) # Null
  PROVE  /\ FindFit(h, asize) \in FreeBlocks(h)
         /\ asize <= h.hdr[FindFit(h, asize)].size
<1>1. h \in Heap /\ Lists(h, FreeBlocks(h))
  BY DEF Sound
<1>2. Null \notin FreeBlocks(h)
  BY <1>1, FreeUnits, NullApart
<1>3. \A c \in Class : \A i \in Unit :
        ListOf(h, c)[i] = Null \/ ListOf(h, c)[i] \in FreeBlocks(h)
  BY <1>1, <1>2, ListOfFacts
<1>4. \A c \in Class : \A i \in Unit : ListOf(h, c)[i] \in Unit \cup {Null}
  BY <1>1, <1>3, FreeUnits
<1> DEFINE classes == ListIndex(asize) .. ListCount - 1
           near == {c \in classes : \E i \in Unit : NearFit(h, ListOf(h, c)[i], asize)}
           fits == {c \in classes : \E i \in Unit : Fits(h, ListOf(h, c)[i], asize)}
           first(S) == CHOOSE c \in S : \A d \in S : c <= d
<1>5. classes \in SUBSET Class /\ Class \in SUBSET Nat
  BY ListIndexClass, MmAssumption DEF Class
<1>6. near \in SUBSET Class /\ fits \in SUBSET Class
  BY <1>5
<1>7. ASSUME NEW S \in SUBSET Class, S # {} PROVE first(S) \in S
  <2>1. \E c \in S : \A d \in S : c <= d
    BY <1>5, <1>7, FirstExists
  <2> QED BY <2>1
<1>8. FindFit(h, asize) =
        IF near # {} THEN BestIn(h, first(near), asize)
        ELSE IF fits # {} THEN FirstIn(h, first(fits), asize) ELSE Null
  BY DEF FindFit
<1>9. ASSUME NEW c \in Class, NEW i \in Unit, Fits(h, ListOf(h, c)[i], asize)
      PROVE  /\ ListOf(h, c)[i] \in FreeBlocks(h)
             /\ asize <= h.hdr[ListOf(h, c)[i]].size
  BY <1>3, <1>9 DEF Fits
<1>10. CASE near # {}
  <2>1. PICK c : c = first(near)
    OBVIOUS
  <2>2. c \in near /\ c \in Class
    <3> HIDE DEF near, first
    <3> QED BY <1>6, <1>7, <1>10, <2>1
  <2>3. \E i \in Unit : NearFit(h, ListOf(h, c)[i], asize)
    BY <2>2
  <2>4. PICK i \in Unit : BestIn(h, c, asize) = ListOf(h, c)[i] /\ Fits(h, ListOf(h, c)[i], asize)
    BY <1>1, <1>4, <2>2, <2>3, BestInFacts
  <2>5. FindFit(h, asize) = ListOf(h, c)[i]
    <3> HIDE DEF near, fits, first
    <3> QED BY <1>8, <1>10, <2>1, <2>4
  <2> QED BY <1>9, <2>2, <2>4, <2>5
<1>11. CASE near = {} /\ fits # {}
  <2>1. PICK c : c = first(fits)
    OBVIOUS
  <2>2. c \in fits /\ c \in Class
    <3> HIDE DEF fits, first
    <3> QED BY <1>6, <1>7, <1>11, <2>1
  <2>3. \E i \in Unit : Fits(h, ListOf(h, c)[i], asize)
    BY <2>2
  <2>4. PICK i \in Unit : FirstIn(h, c, asize) = ListOf(h, c)[i] /\ Fits(h, ListOf(h, c)[i], asize)
    BY <1>1, <2>3, FirstInFacts
  <2>5. FindFit(h, asize) = ListOf(h, c)[i]
    <3> HIDE DEF near, fits, first
    <3> QED BY <1>8, <1>11, <2>1, <2>4
  <2> QED BY <1>9, <2>2, <2>4, <2>5
<1>12. CASE near = {} /\ fits = {}
  <2> HIDE DEF near, fits, first
  <2> QED BY <1>8, <1>12
<1> QED BY <1>10, <1>11, <1>12

-----------------------------------------------------------------------------
(***************************************************************************)
(* malloc: it fails and leaves every block alone, or it hands out a block  *)
(* that no client had, long enough for the request.                        *)
(***************************************************************************)
Served(h, g, b, asize) ==
  /\ Sound(g)
  /\ b \in Unit /\ b \notin Taken(h)
  /\ Taken(g) = Taken(h) \cup {b}
  /\ SizesKept(h, g, Taken(h))
  /\ g.hdr[b].size >= asize

LEMMA OutcomeFields ==
  ASSUME NEW h, NEW b
  PROVE  Outcome(h, b).heap = h /\ Outcome(h, b).block = b
BY DEF Outcome

LEMMA PlacedServed ==
  ASSUME NEW h, NEW f, NEW g, NEW b \in Unit, NEW asize, Placed(f, g, b, asize),
         b \notin Taken(h), Taken(f) = Taken(h), SizesKept(h, f, Taken(h))
  PROVE  Served(h, g, b, asize)
BY DEF Placed, Served, SizesKept

LEMMA AllocateFacts ==
  ASSUME NEW h, Sound(h), NEW asize \in Nat, asize >= 2, NEW r \in Allocate(h, asize)
  PROVE  \/ r.block = Null /\ r.heap = h
         \/ r.block # Null /\ Served(h, r.heap, r.block, asize)
<1>1. h \in Heap /\ h.ready /\ Tidy(h) /\ Lists(h, FreeBlocks(h)) /\ Null \notin Unit
  BY NullApart DEF Sound
<1>2. PICK fit, more, new :
        fit = FindFit(h, asize) /\ more = Larger(asize, Chunk) /\ new = ExtendHeap(h, more)
  OBVIOUS
<1>3. /\ more \in Nat /\ more >= 2 /\ more >= asize
  BY <1>2, MmAssumption DEF Larger
<1>4. r \in IF fit # Null
            THEN {Outcome(Place(Eliminate(h, fit), fit, asize), fit)}
            ELSE {Outcome(h, Null)}
                 \cup (IF h.brk + more <= HeapUnits
                       THEN {Outcome(Place(new.heap, new.block, asize), new.block)}
                       ELSE {})
  BY <1>2 DEF Allocate
<1>5. CASE fit # Null
  <2>1. fit \in FreeBlocks(h) /\ asize <= h.hdr[fit].size
    BY <1>2, <1>5, FindFitFacts
  <2>2. fit \in Unit /\ fit \notin Taken(h) /\ FreeBlocks(h) \in SUBSET Unit
    BY <1>1, <2>1, FreeUnits
  <2>3. PICK e : e = Eliminate(h, fit)
    OBVIOUS
  <2>4. e \in Heap /\ SameTags(h, e) /\ Lists(e, FreeBlocks(h) \ {fit})
    BY <1>1, <2>1, <2>2, <2>3, EliminateFacts
  <2>5. /\ FreeBlocks(e) = FreeBlocks(h) /\ Taken(e) = Taken(h)
        /\ Tidy(e) /\ SizesKept(h, e, Taken(h))
    BY <1>1, <2>4, SameTagsFacts
  <2>6. SoundBut(e, fit) /\ asize <= e.hdr[fit].size
    BY <1>1, <2>1, <2>4, <2>5 DEF SoundBut, SameTags
  <2>7. Placed(e, Place(e, fit, asize), fit, asize)
    BY <2>6, PlaceFacts
  <2>8. Served(h, Place(e, fit, asize), fit, asize)
    BY <2>2, <2>5, <2>7, PlacedServed
  <2>9. r = Outcome(Place(e, fit, asize), fit)
    BY <1>4, <1>5, <2>3
  <2> QED BY <1>5, <2>8, <2>9, OutcomeFields
<1>6. CASE fit = Null /\ r = Outcome(h, Null)
  BY <1>6, OutcomeFields
<1>7. CASE /\ fit = Null /\ h.brk + more <= HeapUnits
           /\ r = Outcome(Place(new.heap, new.block, asize), new.block)
  <2>1. h.brk + more \in Unit
    BY <1>1, <1>3, <1>7, HeapFields, Numbers
  <2>2. PICK g, lo : /\ new = Outcome(g, lo)
                     /\ SoundBut(g, lo) /\ g.hdr[lo].size >= more
                     /\ Taken(g) = Taken(h) /\ SizesKept(h, g, Taken(h))
    BY <1>2, <1>3, <2>1, ExtendHeapFacts
  <2>3. g \in Heap /\ lo \in FreeBlocks(g)
    BY <2>2 DEF SoundBut
  <2>4. lo \in Unit /\ lo \notin Taken(h) /\ g.hdr[lo].size \in Nat
    BY <2>2, <2>3, FreeUnits, HeapFields
  <2>5. asize <= g.hdr[lo].size
    BY <1>3, <2>2, <2>4
  <2>6. Placed(g, Place(g, lo, asize), lo, asize)
    BY <2>2, <2>5, PlaceFacts
  <2>7. Served(h, Place(g, lo, asize), lo, asize)
    BY <2>2, <2>4, <2>6, PlacedServed
  <2>8. r = Outcome(Place(g, lo, asize), lo)
    BY <1>7, <2>2, OutcomeFields
  <2>9. lo # Null
    BY <1>1, <2>4
  <2> QED BY <2>7, <2>8, <2>9, OutcomeFields
<1> QED BY <1>4, <1>5, <1>6, <1>7

-----------------------------------------------------------------------------
(* mm_init. *)

LEMMA NoHeapFacts == NoHeap \in Heap /\ ~NoHeap.ready /\ Taken(NoHeap) = {}
<1>1. NoHeader \in Header /\ NoHeader.size = 0 /\ 0 \in Unit
  BY Numbers DEF Header, NoHeader
<1>2. NoHeap \in Heap
  BY <1>1, NullApart DEF NoHeap, Heap
<1>3. \A u \in Unit : NoHeap.hdr[u].size = 0
  BY <1>1 DEF NoHeap
<1>4. Blocks(NoHeap) = {}
  BY <1>3 DEF Blocks
<1> QED BY <1>2, <1>4 DEF NoHeap, Taken

LEMMA EmptyHeapFacts == Sound(EmptyHeap) /\ Taken(EmptyHeap) = {} /\ EmptyHeap.brk = 0
<1>1. PICK h, word : h = EmptyHeap /\ word = [size |-> 0, alloc |-> TRUE, prev |-> TRUE]
  OBVIOUS
<1>2. /\ word \in Header /\ word.size = 0 /\ word.alloc = TRUE /\ word.prev = TRUE
      /\ NoHeader \in Header /\ NoHeader.size = 0 /\ 0 \in Unit
  BY <1>1, Numbers DEF Header, NoHeader
<1>3. h = [NoHeap EXCEPT !.ftr[0] = word, !.hdr[0] = word, !.ready = TRUE]
  BY <1>1 DEF EmptyHeap
<1>4. /\ h.hdr = [[u \in Unit |-> NoHeader] EXCEPT ![0] = word]
      /\ h.ftr = [[u \in Unit |-> NoHeader] EXCEPT ![0] = word]
      /\ h.nxt = [u \in Unit |-> Junk] /\ h.prv = [u \in Unit |-> Junk]
      /\ h.head = [c \in Class |-> Null] /\ h.brk = 0 /\ h.ready = TRUE
      /\ h = [hdr |-> h.hdr, ftr |-> h.ftr, nxt |-> h.nxt, prv |-> h.prv,
              head |-> h.head, brk |-> h.brk, ready |-> h.ready]
  BY <1>3 DEF NoHeap
<1>5. h.hdr \in [Unit -> Header] /\ h.ftr \in [Unit -> Header]
  BY <1>2, <1>4
<1>6. h \in Heap
  <2>1. h.nxt \in [Unit -> Link] /\ h.prv \in [Unit -> Link]
    BY <1>4, NullApart
  <2>2. h.head \in [Class -> Unit \cup {Null}] /\ h.brk \in Unit /\ h.ready \in BOOLEAN
    <3>1. h.head = [c \in Class |-> Null] /\ h.brk = 0
      BY <1>4
    <3>2. h.ready = TRUE
      BY <1>4
    <3> QED BY <1>2, <3>1, <3>2
  <2>3. h = [hdr |-> h.hdr, ftr |-> h.ftr, nxt |-> h.nxt, prv |-> h.prv,
             head |-> h.head, brk |-> h.brk, ready |-> h.ready]
    BY <1>4
  <2> QED BY <1>5, <2>1, <2>2, <2>3 DEF Heap
<1>7. h.hdr[0] = word /\ h.ftr[0] = word /\ \A u \in Unit : h.hdr[u].size = 0
  BY <1>2, <1>4
<1>8. Blocks(h) = {}
  BY <1>7 DEF Blocks
<1>9. FreeBlocks(h) = {} /\ Taken(h) = {}
  BY <1>8 DEF FreeBlocks, Taken
<1>10. Tidy(h)
  BY <1>2, <1>4, <1>7, <1>8, <1>9 DEF Tidy, Tiled, TagsAgree, NoFreeNeighbours, Prologue
<1>11. Lists(h, FreeBlocks(h))
  BY <1>4, <1>9 DEF Lists, IsHead
<1> QED BY <1>1, <1>4, <1>6, <1>9, <1>10, <1>11 DEF Sound

LEMMA InitWorksFacts ==
  ASSUME NEW h \in InitWorks
  PROVE  Sound(h) /\ Taken(h) = {}
<1>1. /\ Chunk <= HeapUnits
      /\ h = Insert(ExtendHeap(EmptyHeap, Chunk).heap, ExtendHeap(EmptyHeap, Chunk).block)
  BY DEF InitWorks
<1>2. Chunk \in Nat /\ Chunk >= 2 /\ EmptyHeap.brk + Chunk \in Unit
  BY <1>1, MmAssumption, EmptyHeapFacts, Numbers
<1>3. PICK g, lo : /\ ExtendHeap(EmptyHeap, Chunk) = Outcome(g, lo)
                   /\ SoundBut(g, lo) /\ Taken(g) = Taken(EmptyHeap)
  BY <1>2, EmptyHeapFacts, ExtendHeapFacts
<1>4. h = Insert(g, lo)
  BY <1>1, <1>3, OutcomeFields
<1> QED BY <1>3, <1>4, InsertSound, EmptyHeapFacts

-----------------------------------------------------------------------------
(***************************************************************************)
(* What any call of malloc does, first or later.                           *)
(***************************************************************************)
LEMMA AdjustedSizeFacts ==
  ASSUME NEW size \in Nat
  PROVE  AdjustedSize(size) \in Nat /\ AdjustedSize(size) >= 2
<1>1. PICK need : need = (size + WSize) % Modulus
  OBVIOUS
<1>2. Modulus \in Nat /\ Modulus > 0
  BY MmAssumption
<1>3. need \in Nat
  BY <1>1, <1>2 DEF WSize
<1>4. PICK up : up = (need + (DSize - 1)) % Modulus
  OBVIOUS
<1>5. up \in Nat
  BY <1>2, <1>3, <1>4 DEF DSize
<1>6. up \div DSize \in Nat
  BY <1>5 DEF DSize
<1>7. AdjustedSize(size) = Larger(2, up \div DSize)
  BY <1>1, <1>4 DEF AdjustedSize, MinBlockSize
<1> QED BY <1>6, <1>7 DEF Larger

SoundOrNone(h) == h = NoHeap \/ Sound(h)

LEMMA MallocFacts ==
  ASSUME NEW h, SoundOrNone(h), NEW size \in Nat, NEW r \in MallocOutcomes(h, size)
  PROVE  \/ /\ r.block = Null /\ SoundOrNone(r.heap)
            /\ Taken(r.heap) = Taken(h) /\ SizesKept(h, r.heap, Taken(h))
         \/ /\ r.block # Null
            /\ Served(h, r.heap, r.block, AdjustedSize(size))
<1>1. AdjustedSize(size) \in Nat /\ AdjustedSize(size) >= 2
  BY AdjustedSizeFacts
<1> DEFINE ready == IF h.ready THEN {h} ELSE InitWorks
           fails == IF h.ready THEN {} ELSE {Outcome(i, Null) : i \in InitFails}
<1>2. r \in fails \cup (IF size = 0 THEN {Outcome(i, Null) : i \in ready}
                        ELSE UNION {Allocate(i, AdjustedSize(size)) : i \in ready})
  BY DEF MallocOutcomes
<1>3. ASSUME NEW i \in ready
      PROVE  Sound(i) /\ Taken(i) = Taken(h) /\ SizesKept(h, i, Taken(h))
  <2>1. CASE h.ready
    BY <1>3, <2>1, NoHeapFacts DEF SoundOrNone, SizesKept
  <2>2. CASE ~h.ready
    <3>1. h = NoHeap /\ Taken(h) = {}
      BY <2>2, NoHeapFacts DEF SoundOrNone, Sound
    <3>2. Sound(i) /\ Taken(i) = {}
      BY <1>3, <2>2, InitWorksFacts
    <3> QED BY <3>1, <3>2 DEF SizesKept
  <2> QED BY <2>1, <2>2
<1>4. CASE r \in fails
  <2>1. ~h.ready
    BY <1>4
  <2>2. h = NoHeap /\ Taken(h) = {}
    BY <2>1, NoHeapFacts DEF SoundOrNone, Sound
  <2>3. PICK i \in {NoHeap, EmptyHeap} : r = Outcome(i, Null)
    BY <1>4, <2>1 DEF InitFails
  <2>4. SoundOrNone(i) /\ Taken(i) = {}
    BY <2>3, NoHeapFacts, EmptyHeapFacts DEF SoundOrNone
  <2> QED BY <2>2, <2>3, <2>4, OutcomeFields DEF SizesKept
<1>5. CASE size = 0 /\ r \in {Outcome(i, Null) : i \in ready}
  <2>1. PICK i \in ready : r = Outcome(i, Null)
    BY <1>5
  <2> HIDE DEF ready
  <2> QED BY <1>3, <2>1, OutcomeFields DEF SoundOrNone
<1>6. CASE r \in UNION {Allocate(i, AdjustedSize(size)) : i \in ready}
  <2>1. PICK i \in ready : r \in Allocate(i, AdjustedSize(size))
    BY <1>6
  <2>2. Sound(i) /\ Taken(i) = Taken(h) /\ SizesKept(h, i, Taken(h))
    <3> HIDE DEF ready
    <3> QED BY <1>3, <2>1
  <2>3. \/ r.block = Null /\ r.heap = i
        \/ r.block # Null /\ Served(i, r.heap, r.block, AdjustedSize(size))
    BY <1>1, <2>1, <2>2, AllocateFacts
  <2>4. Served(i, r.heap, r.block, AdjustedSize(size))
          => Served(h, r.heap, r.block, AdjustedSize(size))
    BY <2>2 DEF Served, SizesKept
  <2> QED BY <2>2, <2>3, <2>4 DEF SoundOrNone
<1> HIDE DEF ready, fails
<1> QED BY <1>2, <1>4, <1>5, <1>6

-----------------------------------------------------------------------------
(***************************************************************************)
(* The inductive invariant: there is no heap yet or it is sound, and the   *)
(* clients hold the taken blocks.  And what a step does to a block that is *)
(* taken after it: the block was taken before and is as it was, or a       *)
(* client has just got it and it is long enough.                           *)
(***************************************************************************)
InvOf(h, l) ==
  /\ SoundOrNone(h)
  /\ l \in [Unit -> Requests \cup {NotLive}]
  /\ \A b \in Unit : l[b] # NotLive <=> b \in Taken(h)

IInv == InvOf(heap, live)

Kept(h, l, g, m, b) ==
  b \in Taken(h) /\ g.hdr[b].size = h.hdr[b].size /\ m[b] = l[b]

Granted(h, g, m, b) ==
  b \notin Taken(h) /\ m[b] \in Requests /\ g.hdr[b].size >= AdjustedSize(m[b])

Changes(h, l, g, m) == \A b \in Taken(g) : Kept(h, l, g, m, b) \/ Granted(h, g, m, b)

LEMMA RequestFacts ==
  \A size \in Requests : size \in Nat /\ size < Modulus /\ size # NotLive
BY MmAssumption DEF NotLive

LEMMA TakenUnits ==
  ASSUME NEW h, SoundOrNone(h), NEW b \in Taken(h)
  PROVE  b \in Unit /\ b # Null /\ Sound(h)
<1>1. Sound(h)
  BY NoHeapFacts DEF SoundOrNone
<1>2. b \in Unit
  BY <1>1, FreeUnits DEF Sound
<1> QED BY <1>1, <1>2, NullApart

LEMMA MallocChanges ==
  ASSUME NEW h, NEW l, InvOf(h, l), NEW size \in Requests,
         NEW r \in MallocOutcomes(h, size),
         NEW m, m = IF r.block = Null THEN l ELSE [l EXCEPT ![r.block] = size]
  PROVE  InvOf(r.heap, m) /\ Changes(h, l, r.heap, m)
<1>1. /\ SoundOrNone(h) /\ l \in [Unit -> Requests \cup {NotLive}]
      /\ \A b \in Unit : l[b] # NotLive <=> b \in Taken(h)
      /\ size \in Nat /\ size # NotLive
  BY RequestFacts DEF InvOf
<1>2. PICK g, blk : g = r.heap /\ blk = r.block
  OBVIOUS
<1>3. CASE blk = Null
  <2>1. /\ SoundOrNone(g) /\ Taken(g) = Taken(h) /\ SizesKept(h, g, Taken(h))
    BY <1>1, <1>2, <1>3, MallocFacts
  <2>2. m = l
    BY <1>2, <1>3
  <2>3. InvOf(g, m)
    BY <1>1, <2>1, <2>2 DEF InvOf
  <2>4. Changes(h, l, g, m)
    BY <2>1, <2>2 DEF Changes, Kept, SizesKept
  <2> QED BY <1>2, <2>3, <2>4
<1>4. CASE blk # Null
  <2>1. Served(h, g, blk, AdjustedSize(size))
    BY <1>1, <1>2, <1>4, MallocFacts
  <2>2. /\ Sound(g) /\ blk \in Unit /\ blk \notin Taken(h)
        /\ Taken(g) = Taken(h) \cup {blk}
        /\ SizesKept(h, g, Taken(h)) /\ g.hdr[blk].size >= AdjustedSize(size)
    BY <2>1 DEF Served
  <2>3. m = [l EXCEPT ![blk] = size]
    BY <1>2, <1>4
  <2>4. m \in [Unit -> Requests \cup {NotLive}] /\ m[blk] = size
        /\ \A b \in Unit : b # blk => m[b] = l[b]
    BY <1>1, <2>2, <2>3
  <2>5. \A b \in Unit : m[b] # NotLive <=> b \in Taken(g)
    BY <1>1, <2>2, <2>4
  <2>6. InvOf(g, m)
    BY <2>2, <2>4, <2>5 DEF InvOf, SoundOrNone
  <2>7. ASSUME NEW b \in Taken(g)
        PROVE  Kept(h, l, g, m, b) \/ Granted(h, g, m, b)
    <3>1. CASE b = blk
      BY <2>2, <2>4, <3>1 DEF Granted
    <3>2. CASE b # blk
      <4>1. b \in Taken(h) /\ b \in Unit
        BY <1>1, <2>2, <3>2, TakenUnits
      <4> QED BY <2>2, <2>4, <3>2, <4>1 DEF Kept, SizesKept
    <3> QED BY <3>1, <3>2
  <2>8. Changes(h, l, g, m)
    BY <2>7 DEF Changes
  <2> QED BY <1>2, <2>6, <2>8
<1> QED BY <1>3, <1>4

LEMMA FreeChanges ==
  ASSUME NEW h, NEW l, InvOf(h, l), NEW b \in Unit, l[b] # NotLive,
         NEW g, NEW m, g = FreeBlock(h, b), m = [l EXCEPT ![b] = NotLive]
  PROVE  /\ InvOf(g, m)
         /\ \A x \in Taken(g) : Kept(h, l, g, m, x)
<1>1. /\ SoundOrNone(h) /\ l \in [Unit -> Requests \cup {NotLive}]
      /\ \A x \in Unit : l[x] # NotLive <=> x \in Taken(h)
      /\ b \in Taken(h)
  BY DEF InvOf
<1>2. Sound(h)
  BY <1>1, TakenUnits
<1>3. Sound(g) /\ Taken(g) = Taken(h) \ {b} /\ SizesKept(h, g, Taken(h) \ {b})
  BY <1>1, <1>2, FreeBlockFacts
<1>4. /\ m \in [Unit -> Requests \cup {NotLive}] /\ m[b] = NotLive
      /\ \A x \in Unit : x # b => m[x] = l[x]
  BY <1>1
<1>5. \A x \in Unit : m[x] # NotLive <=> x \in Taken(g)
  BY <1>1, <1>3, <1>4
<1>6. InvOf(g, m)
  BY <1>3, <1>4, <1>5 DEF InvOf, SoundOrNone
<1>7. ASSUME NEW x \in Taken(g) PROVE Kept(h, l, g, m, x)
  <2>1. x \in Taken(h) /\ x # b /\ x \in Unit
    BY <1>1, <1>3, TakenUnits
  <2> QED BY <1>3, <1>4, <2>1 DEF Kept, SizesKept
<1> QED BY <1>6, <1>7

LEMMA ReallocChanges ==
  ASSUME NEW h, NEW l, InvOf(h, l), NEW size \in Requests,
         NEW r \in MallocOutcomes(h, size), r.block # Null,
         NEW b \in Unit, l[b] # NotLive,
         NEW g, NEW m, g = FreeBlock(r.heap, b),
         m = [l EXCEPT ![r.block] = size, ![b] = NotLive]
  PROVE  InvOf(g, m) /\ Changes(h, l, g, m)
<1>1. PICK h1, blk, l1 : h1 = r.heap /\ blk = r.block /\ l1 = [l EXCEPT ![r.block] = size]
  OBVIOUS
<1>2. InvOf(h1, l1) /\ Changes(h, l, h1, l1)
  <2>1. l1 = IF r.block = Null THEN l ELSE [l EXCEPT ![r.block] = size]
    BY <1>1
  <2> QED BY <1>1, <2>1, MallocChanges
<1>3. l1[b] # NotLive
  <2>1. l \in [Unit -> Requests \cup {NotLive}] /\ size # NotLive
    BY RequestFacts DEF InvOf
  <2>2. l1[b] = l[b] \/ l1[b] = size
    BY <1>1, <2>1
  <2> QED BY <2>1, <2>2
<1>4. m = [l1 EXCEPT ![b] = NotLive] /\ g = FreeBlock(h1, b)
  BY <1>1
<1>5. InvOf(g, m) /\ \A x \in Taken(g) : Kept(h1, l1, g, m, x)
  BY <1>2, <1>3, <1>4, FreeChanges
<1>6. Changes(h, l, g, m)
  BY <1>2, <1>5 DEF Changes, Kept, Granted
<1> QED BY <1>5, <1>6

-----------------------------------------------------------------------------
LEMMA InitIInv == Init => IInv
<1> SUFFICES ASSUME Init PROVE IInv
  OBVIOUS
<1>1. heap = NoHeap /\ live = [u \in Unit |-> NotLive]
  BY DEF Init
<1>2. Taken(heap) = {} /\ SoundOrNone(heap)
  BY <1>1, NoHeapFacts DEF SoundOrNone
<1> QED BY <1>1, <1>2 DEF IInv, InvOf

\* calloc's test: a product that was cut to Modulus is no multiple's quotient.
LEMMA UnwrappedProduct ==
  ASSUME NEW n \in Nat \ {0}, NEW size \in Nat, NEW modulus \in Nat \ {0},
         ((n * size) % modulus) \div n = size
  PROVE  n * size = (n * size) % modulus
<1>1. PICK p : p = n * size
  OBVIOUS
<1>2. p \in Nat
  BY <1>1
<1>3. PICK q : q = p % modulus
  OBVIOUS
<1>4. q \in Nat /\ q <= p
  BY <1>2, <1>3
<1>5. q = (n * (q \div n)) + (q % n) /\ q % n \in Nat
  BY <1>4
<1>6. n * (q \div n) = p
  BY <1>1, <1>3
<1>7. p = q
  <2>1. PICK r : r = q % n
    OBVIOUS
  <2> QED BY ONLY <1>2, <1>4, <1>5, <1>6, <2>1
<1> QED BY <1>1, <1>3, <1>7

LEMMA NextChanges ==
  ASSUME IInv, Next
  PROVE  IInv' /\ Changes(heap, live, heap', live')
<1>1. InvOf(heap, live)
  BY DEF IInv
<1>2. ASSUME NEW size \in Requests, Malloc(size)
      PROVE  InvOf(heap', live') /\ Changes(heap, live, heap', live')
  <2>1. PICK r \in MallocOutcomes(heap, size) :
          /\ heap' = r.heap
          /\ live' = IF r.block = Null THEN live ELSE [live EXCEPT ![r.block] = size]
    BY <1>2 DEF Malloc, MallocFor
  <2> QED BY <1>1, <2>1, MallocChanges
<1>3. ASSUME NEW b \in Unit, Free(b)
      PROVE  InvOf(heap', live') /\ Changes(heap, live, heap', live')
  <2>1. live[b] # NotLive /\ heap' = FreeBlock(heap, b) /\ live' = [live EXCEPT ![b] = NotLive]
    BY <1>3 DEF Free
  <2>2. /\ InvOf(heap', live')
        /\ \A x \in Taken(heap') : Kept(heap, live, heap', live', x)
    BY <1>1, <2>1, FreeChanges
  <2> QED BY <2>2 DEF Changes
<1>4. ASSUME NEW b \in Unit, NEW size \in Requests, Realloc(b, size)
      PROVE  InvOf(heap', live') /\ Changes(heap, live, heap', live')
  <2>1. live[b] # NotLive
    BY <1>4 DEF Realloc
  <2>2. PICK r \in MallocOutcomes(heap, size) :
          IF r.block = Null
          THEN heap' = r.heap /\ UNCHANGED live
          ELSE /\ heap' = FreeBlock(r.heap, b)
               /\ live' = [live EXCEPT ![r.block] = size, ![b] = NotLive]
    BY <1>4 DEF Realloc
  <2>3. CASE r.block = Null
    <3>1. heap' = r.heap /\ live' = IF r.block = Null THEN live ELSE [live EXCEPT ![r.block] = size]
      BY <2>2, <2>3
    <3> QED BY <1>1, <3>1, MallocChanges
  <2>4. CASE r.block # Null
    <3>1. heap' = FreeBlock(r.heap, b) /\ live' = [live EXCEPT ![r.block] = size, ![b] = NotLive]
      BY <2>2, <2>4
    <3> QED BY <1>1, <2>1, <2>4, <3>1, ReallocChanges
  <2> QED BY <2>3, <2>4
<1>5. ASSUME NEW elements \in Requests, NEW size \in Requests, Calloc(elements, size)
      PROVE  InvOf(heap', live') /\ Changes(heap, live, heap', live')
  <2>1. PICK product : product = (elements * size) % Modulus
    OBVIOUS
  <2>2. /\ elements # 0 /\ product \div elements = size
        /\ product \in Requests /\ MallocFor(product, elements * size)
    BY <1>5, <2>1 DEF Calloc
  <2>3. elements \in Nat /\ size \in Nat /\ Modulus \in Nat \ {0}
    BY MmAssumption
  <2>4. elements * size = product
    BY <2>1, <2>2, <2>3, UnwrappedProduct
  <2> QED BY <1>2, <2>2, <2>4 DEF Malloc
<1>6. InvOf(heap', live') /\ Changes(heap, live, heap', live')
  BY <1>2, <1>3, <1>4, <1>5 DEF Next
<1> QED BY <1>6 DEF IInv

LEMMA IInvInductive == IInv /\ [Next]_vars => IInv'
<1> SUFFICES ASSUME IInv, [Next]_vars PROVE IInv'
  OBVIOUS
<1>1. CASE Next
  BY <1>1, NextChanges
<1>2. CASE UNCHANGED vars
  BY <1>2 DEF vars, IInv
<1> QED BY <1>1, <1>2

LEMMA IInvHolds == Spec => []IInv
BY InitIInv, IInvInductive, PTL DEF Spec

(***************************************************************************)
(* Every reachable heap, before and after mm_init, has the type of Heap,   *)
(* and a payload is one the clients have asked for.                        *)
(***************************************************************************)
THEOREM TypeCorrect == Spec => []TypeOK
<1>1. IInv => TypeOK
  BY NoHeapFacts DEF IInv, InvOf, SoundOrNone, Sound, TypeOK
<1> QED BY <1>1, IInvHolds, PTL

(***************************************************************************)
(* After every call the blocks tile the heap, the tags of neighbours agree *)
(* and no two free blocks touch: what find_next, find_prev and             *)
(* coalesce_block need.                                                    *)
(***************************************************************************)
THEOREM HeapStaysTiled == Spec => []HeapTiled
<1>1. IInv => HeapTiled
  BY NoHeapFacts DEF IInv, InvOf, SoundOrNone, Sound, Tidy, HeapTiled
<1> QED BY <1>1, IInvHolds, PTL

(***************************************************************************)
(* The links of the free lists lead from free blocks to free blocks of     *)
(* the same class, and back, after every call.                             *)
(***************************************************************************)
THEOREM ListsStaySound == Spec => []ListsSound
<1>1. IInv => ListsSound
  BY NoHeapFacts, LinkedIsLists DEF IInv, InvOf, SoundOrNone, Sound, ListsSound
<1> QED BY <1>1, IInvHolds, PTL

(***************************************************************************)
(* No call moves, shrinks or merges a block that stays live.               *)
(***************************************************************************)
THEOREM LiveBlocksAreLeftAlone == Spec => LiveBlocksStay
<1>1. ASSUME IInv, IInv', [Next]_vars
      PROVE  [\A b \in Unit : live[b] # NotLive /\ live'[b] # NotLive
                => heap'.hdr[b].size = heap.hdr[b].size]_vars
  <2> SUFFICES ASSUME Next, NEW b \in Unit, live[b] # NotLive, live'[b] # NotLive
               PROVE  heap'.hdr[b].size = heap.hdr[b].size
    BY <1>1
  <2>1. Changes(heap, live, heap', live')
    BY <1>1, NextChanges
  <2>2. b \in Taken(heap) /\ b \in Taken(heap')
    BY <1>1 DEF IInv, InvOf
  <2> QED BY <2>1, <2>2 DEF Changes, Kept, Granted
<1> QED BY <1>1, IInvHolds, PTL DEF Spec, LiveBlocksStay

-----------------------------------------------------------------------------
(***************************************************************************)
(* Payloads hold what was asked for, as long as no request is so close to  *)
(* SIZE_MAX that malloc's round_up wraps round: malloc does not look.      *)
(***************************************************************************)
RoundsUp == \A size \in Requests : size + WSize + (DSize - 1) < Modulus

LEMMA AdjustedSizeFits ==
  ASSUME RoundsUp, NEW size \in Requests
  PROVE  AdjustedSize(size) \in Nat /\ size <= DSize * AdjustedSize(size) - WSize
<1>1. size \in Nat /\ Modulus \in Nat /\ Modulus > 0 /\ size + 23 < Modulus
  BY RequestFacts, MmAssumption DEF RoundsUp, WSize, DSize
<1>2. PICK need : need = size + 8
  OBVIOUS
<1>3. need \in Nat /\ need + 15 \in Nat /\ need < Modulus /\ need + 15 < Modulus
  BY <1>1, <1>2
<1>4. \A x \in Nat : x < Modulus => x % Modulus = x
  BY <1>1
<1>5. (size + WSize) % Modulus = need
  BY <1>2, <1>3, <1>4 DEF WSize
<1>6. (need + (DSize - 1)) % Modulus = need + 15
  <2>1. need + (DSize - 1) = need + 15
    BY <1>3 DEF DSize
  <2> QED BY <1>3, <1>4, <2>1
<1>7. AdjustedSize(size) = Larger(2, (need + 15) \div 16)
  BY <1>5, <1>6 DEF AdjustedSize, MinBlockSize, DSize
<1>8. PICK units : units = (need + 15) \div 16
  OBVIOUS
<1>9. units \in Nat /\ 16 * units >= need
  BY <1>3, <1>8
<1>10. AdjustedSize(size) >= units /\ AdjustedSize(size) \in Nat
  BY <1>7, <1>8, <1>9 DEF Larger
<1> QED BY <1>1, <1>2, <1>9, <1>10 DEF WSize, DSize

PayloadsHold == \A b \in Taken(heap) : live[b] <= DSize * heap.hdr[b].size - WSize

(***************************************************************************)
(* The clients have exactly the allocated blocks, and each payload holds   *)
(* the bytes that were asked for.                                          *)
(***************************************************************************)
THEOREM PayloadsAlwaysFit ==
  ASSUME RoundsUp
  PROVE  Spec => []PayloadsFit
<1>1. Init => PayloadsHold
  BY NoHeapFacts DEF Init, PayloadsHold
<1>2. ASSUME IInv, IInv', PayloadsHold, [Next]_vars
      PROVE  PayloadsHold'
  <2>1. CASE Next
    <3> SUFFICES ASSUME NEW b \in Taken(heap')
                 PROVE  live'[b] <= DSize * heap'.hdr[b].size - WSize
      BY DEF PayloadsHold
    <3>1. Kept(heap, live, heap', live', b) \/ Granted(heap, heap', live', b)
      BY <1>2, <2>1, NextChanges DEF Changes
    <3>2. CASE Kept(heap, live, heap', live', b)
      BY <1>2, <3>2 DEF Kept, PayloadsHold
    <3>3. CASE Granted(heap, heap', live', b)
      <4>1. PICK size : size = live'[b] /\ size \in Requests
        BY <3>3 DEF Granted
      <4>2. PICK asize : asize = AdjustedSize(size)
        OBVIOUS
      <4>3. /\ asize \in Nat /\ size <= 16 * asize - 8 /\ size \in Nat
        BY <4>1, <4>2, AdjustedSizeFits, RequestFacts DEF WSize, DSize
      <4>4. heap'.hdr[b].size >= asize
        BY <3>3, <4>1, <4>2 DEF Granted
      <4>5. heap'.hdr[b].size \in Nat
        <5>1. SoundOrNone(heap')
          BY <1>2 DEF IInv, InvOf
        <5>2. b \in Unit /\ heap' \in Heap
          BY <5>1, TakenUnits DEF Sound
        <5> QED BY <5>2, HeapFields
      <4> QED BY <4>1, <4>3, <4>4, <4>5 DEF WSize, DSize
    <3> QED BY <3>1, <3>2, <3>3
  <2>2. CASE UNCHANGED vars
    BY <1>2, <2>2 DEF vars, PayloadsHold
  <2> QED BY <1>2, <2>1, <2>2
<1>3. ASSUME IInv, PayloadsHold PROVE PayloadsFit
  <2>1. \A b \in Unit : live[b] # NotLive <=> b \in Taken(heap)
    BY <1>3 DEF IInv, InvOf
  <2> QED BY <1>3, <2>1 DEF PayloadsHold, PayloadsFit, Taken
<1> QED BY <1>1, <1>2, <1>3, IInvHolds, PTL DEF Spec

-----------------------------------------------------------------------------
(***************************************************************************)
(* mm_checkheap walks from boundary to boundary, and is at the epilogue    *)
(* before it runs out of heap.                                             *)
(***************************************************************************)
LEMMA WalkFacts ==
  ASSUME NEW h, Sound(h)
  PROVE  /\ \A i \in Unit : Walk(h)[i] \in Bounds(h)
         /\ \A i \in Unit : i # 0 /\ Walk(h)[i - 1] \in Blocks(h)
              => Walk(h)[i] = FindNext(h, Walk(h)[i - 1])
         /\ Walk(h)[HeapUnits] = h.brk
<1>1. h \in Heap /\ Tiled(h)
  BY DEF Sound, Tidy
<1> DEFINE X == Bounds(h)
           F(g) == [i \in Unit |-> IF i = 0 THEN 0
                                   ELSE IF h.hdr[g[i - 1]].size = 0 THEN g[i - 1]
                                        ELSE FindNext(h, g[i - 1])]
           step == [b \in X |-> IF h.hdr[b].size = 0 THEN b ELSE FindNext(h, b)]
<1>2. 0 \in X
  BY <1>1 DEF Tiled, Bounds
<1>3. ASSUME NEW b \in X
      PROVE  /\ b \in Nat /\ b <= h.brk /\ h.brk \in Nat
             /\ h.hdr[b].size = 0 => b = h.brk
             /\ h.hdr[b].size # 0 => /\ b \in Blocks(h)
                                     /\ FindNext(h, b) \in X /\ FindNext(h, b) \in Nat
                                     /\ b + 2 <= FindNext(h, b)
  <2>1. CASE b \in Blocks(h)
    <3>1. h.hdr[b].size # 0
      BY <2>1 DEF Blocks
    <3> QED BY <1>1, <2>1, <3>1, BlockFacts, HeapFields
  <2>2. CASE b = h.brk
    BY <1>1, <2>2, HeapFields DEF Tiled
  <2> QED BY <2>1, <2>2 DEF Bounds
<1>4. step \in [X -> X]
  <2> HIDE DEF X
  <2> QED BY <1>3
<1>5. \E g : g = F(g)
  <2>1. PICK g \in [Unit -> X] : Steps(g, 0, step)
    <3> HIDE DEF X, step
    <3> QED BY <1>2, <1>4, StepsExist
  <2>2. ASSUME NEW i \in Unit
        PROVE  (IF i = 0 THEN 0 ELSE step[g[i - 1]])
                = IF i = 0 THEN 0
                  ELSE IF h.hdr[g[i - 1]].size = 0 THEN g[i - 1] ELSE FindNext(h, g[i - 1])
    <3>1. CASE i = 0
      BY <3>1
    <3>2. CASE i # 0
      <4>1. i - 1 \in Unit
        BY <3>2, Numbers
      <4>2. g[i - 1] \in X
        BY <4>1
      <4> HIDE DEF X
      <4> QED BY <3>2, <4>2
    <3> QED BY <3>1, <3>2
  <2>3. g = F(g)
    <3> HIDE DEF step
    <3> QED BY <2>1, <2>2 DEF Steps
  <2> QED BY <2>3
<1>6. PICK at : at = Walk(h)
  OBVIOUS
<1>7. at = CHOOSE g : g = F(g)
  BY <1>6 DEF Walk
<1>8. at = F(at)
  <2> HIDE DEF F
  <2> QED BY <1>5, <1>7
<1>9. /\ at[0] = 0
      /\ \A i \in Unit : i # 0 =>
           at[i] = IF h.hdr[at[i - 1]].size = 0 THEN at[i - 1] ELSE FindNext(h, at[i - 1])
  BY <1>8, Numbers
<1> DEFINE Far == {p \in Unit \X X : p[2] = h.brk \/ p[1] <= p[2]}
           trail == [i \in Unit |-> <<i, at[i]>>]
<1>10. trail[0] \in Far
  BY <1>2, <1>9, Numbers
<1>11. ASSUME NEW i \in Unit, i # 0, trail[i - 1] \in Far
       PROVE  trail[i] \in Far
  <2>1. i - 1 \in Unit /\ i \in Nat /\ trail[i - 1] = <<i - 1, at[i - 1]>>
    BY <1>11, Numbers
  <2>2. PICK p : p = at[i - 1]
    OBVIOUS
  <2>3. p \in X /\ (p = h.brk \/ i - 1 <= p)
    BY <1>11, <2>1, <2>2
  <2>4. at[i] = IF h.hdr[p].size = 0 THEN p ELSE FindNext(h, p)
    BY <1>9, <1>11, <2>2
  <2> HIDE DEF X
  <2>5. CASE h.hdr[p].size = 0
    BY <1>3, <2>3, <2>4, <2>5
  <2>6. CASE h.hdr[p].size # 0
    <3>1. PICK n : n = FindNext(h, p)
      OBVIOUS
    <3>2. n \in X /\ n \in Nat /\ p + 2 <= n /\ p \in Nat /\ p # h.brk
      <4>1. p # h.brk
        BY <1>1, <2>6 DEF Tiled
      <4> QED BY <1>3, <2>3, <2>6, <3>1, <4>1
    <3>3. at[i] = n /\ i <= n
      BY <2>1, <2>3, <2>4, <2>6, <3>1, <3>2
    <3> QED BY <3>2, <3>3
  <2> QED BY <2>5, <2>6
<1>12. \A i \in Unit : trail[i] \in Far
  <2> HIDE DEF Far, trail
  <2> QED BY <1>10, <1>11, StepsStay
<1>13. ASSUME NEW i \in Unit PROVE at[i] \in X /\ (at[i] = h.brk \/ i <= at[i])
  BY <1>12
<1>14. at[HeapUnits] = h.brk
  <2>1. HeapUnits \in Unit /\ HeapUnits \in Nat /\ h.brk <= HeapUnits
    BY <1>1, HeapFields, Numbers
  <2> HIDE DEF X
  <2> QED BY <1>3, <1>13, <2>1
<1>15. \A i \in Unit : i # 0 /\ at[i - 1] \in Blocks(h) => at[i] = FindNext(h, at[i - 1])
  BY <1>9 DEF Blocks
<1> QED BY <1>6, <1>13, <1>14, <1>15

\* A heap has a first block when it was extended.
LEMMA FirstBlock ==
  ASSUME NEW h, Sound(h)
  PROVE  h.hdr[0].size # 0 <=> h.brk # 0
<1>1. Tiled(h)
  BY DEF Sound, Tidy
<1> QED BY <1>1 DEF Tiled, Blocks

LEMMA SoundHeapPasses ==
  ASSUME NEW h, Sound(h), h.brk # 0
  PROVE  CheckHeap(h)
<1>1. /\ h \in Heap /\ h.ready /\ Tiled(h) /\ TagsAgree(h) /\ NoFreeNeighbours(h)
      /\ Prologue(h) /\ Lists(h, FreeBlocks(h))
  BY DEF Sound, Tidy
<1>2. PICK at, end : at = Walk(h) /\ end = at[HeapUnits]
  OBVIOUS
<1>3. /\ \A i \in Unit : at[i] \in Bounds(h)
      /\ \A i \in Unit : i # 0 /\ at[i - 1] \in Blocks(h) => at[i] = FindNext(h, at[i - 1])
      /\ end = h.brk
  BY <1>2, WalkFacts
<1>4. ASSUME NEW i \in Unit, at[i] # end
      PROVE  at[i] \in Blocks(h) /\ BlockChecks(h, at[i])
  <2>1. PICK b : b = at[i]
    OBVIOUS
  <2>2. b \in Blocks(h)
    BY <1>3, <1>4, <2>1 DEF Bounds
  <2>3. b < h.brk
    BY <1>1, <2>2, BlockFacts
  <2>4. h.hdr[b].size >= MinBlockSize
    BY <1>1, <2>2 DEF Tiled
  <2>5. ~h.hdr[b].alloc => h.ftr[FindNext(h, b)] = h.hdr[b]
    BY <1>1, <2>2 DEF TagsAgree
  <2> QED BY <2>1, <2>2, <2>3, <2>4, <2>5 DEF BlockChecks
<1>5. ASSUME NEW i \in Unit, i > 0, at[i - 1] # end, at[i] # end
      PROVE  PairChecks(h, at[i - 1], at[i])
  <2>1. i - 1 \in Unit /\ i # 0
    BY <1>5, Numbers
  <2>2. PICK p, b : p = at[i - 1] /\ b = at[i]
    OBVIOUS
  <2>3. p \in Blocks(h) /\ b \in Blocks(h)
    BY <1>4, <1>5, <2>1, <2>2
  <2>4. b = FindNext(h, p)
    BY <1>3, <2>1, <2>2, <2>3
  <2>5. h.hdr[p].alloc \/ h.hdr[b].alloc
    BY <1>1, <2>3, <2>4 DEF NoFreeNeighbours, FreeBlocks
  <2>6. h.hdr[p].alloc = h.hdr[b].prev
    BY <1>1, <2>3, <2>4 DEF TagsAgree
  <2> QED BY <2>2, <2>5, <2>6 DEF PairChecks
<1>6. h.hdr[end].size = 0 /\ h.hdr[end].alloc
  BY <1>1, <1>3 DEF Tiled
<1>7. ASSUME NEW c \in Class PROVE ListChecks(h, c)
  <2>1. Null \notin FreeBlocks(h)
    BY <1>1, FreeUnits, NullApart
  <2>2. \A i \in Unit : \/ ListOf(h, c)[i] = Null
                        \/ /\ ListOf(h, c)[i] \in FreeBlocks(h)
                           /\ ListIndex(h.hdr[ListOf(h, c)[i]].size) = c
    BY <1>1, <2>1, ListOfFacts
  <2> QED BY <2>2 DEF ListChecks, FreeBlocks
<1>8. h.hdr[0].size # 0
  BY FirstBlock
<1> QED BY <1>1, <1>2, <1>4, <1>5, <1>6, <1>7, <1>8 DEF CheckHeap, Prologue

(***************************************************************************)
(* mm_checkheap returns true after every call on a heap that has blocks,   *)
(* and stops at find_prev's assertion on one that has none (mm.c:458).     *)
(***************************************************************************)
THEOREM CheckHeapAlwaysPasses == Spec => []CheckHeapPasses
<1>1. IInv => CheckHeapPasses
  BY NoHeapFacts, SoundHeapPasses, FirstBlock
     DEF IInv, InvOf, SoundOrNone, CheckHeapPasses, CheckHeap
<1> QED BY <1>1, IInvHolds, PTL
===============================================================================
