---------------------------------- MODULE Mm ----------------------------------
(***************************************************************************)
(* The allocator mm.c on the heap of memlib.c: one action per call.        *)
(*                                                                         *)
(* Addresses and block sizes count units of dsize = 16 bytes from          *)
(* heap_start.  A block starts with a header; a free block also has two    *)
(* links after it and a footer in its last word.  All other words of a     *)
(* block belong to the client or are left over: they hold NoHeader or Junk *)
(* here, which no function may take for a header, a size or a link.        *)
(***************************************************************************)
EXTENDS Integers, FiniteSets

CONSTANTS
  HeapUnits,    \* the heap ends here: mem_max_addr of memlib.c
  Chunk,        \* chunksize
  ListCount,    \* LIST_COUNT
  SearchLimit,  \* SEARCH_LIMIT
  Modulus,      \* size_t counts modulo this
  Requests      \* sizes clients ask for, in bytes

ASSUME MmAssumption ==
  /\ HeapUnits \in Nat /\ Chunk \in Nat /\ Chunk >= 2
  /\ ListCount \in Nat \ {0} /\ SearchLimit \in Nat \ {0}
  /\ Modulus \in Nat \ {0} /\ Requests \subseteq 0 .. Modulus - 1

Unit  == 0 .. HeapUnits
Class == 0 .. ListCount - 1

Null     == -1   \* a null pointer
Junk     == -2   \* a word that is no link
Link     == Unit \cup {Null, Junk}
NotLive  == -1   \* no payload starts here

WSize        == 8
DSize        == 16
MinBlockSize == 2   \* min_block_size

Header   == [size : Unit, alloc : BOOLEAN, prev : BOOLEAN]
NoHeader == [size |-> 0, alloc |-> FALSE, prev |-> FALSE]

(***************************************************************************)
(* hdr[u]: the header word at u (prev is its prev_alloc bit); ftr[u]: the  *)
(* footer word that ends at u; nxt, prv: links; head: free_list_start;     *)
(* brk: where the epilogue is; ready: heap_start is set.                   *)
(***************************************************************************)
Heap == [hdr : [Unit -> Header], ftr : [Unit -> Header],
         nxt : [Unit -> Link], prv : [Unit -> Link],
         head : [Class -> Unit \cup {Null}], brk : Unit, ready : BOOLEAN]

VARIABLES
  heap,
  live   \* bytes the client asked for, by the block whose payload it has

vars == <<heap, live>>

TypeOK ==
  /\ heap \in Heap
  /\ live \in [Unit -> Requests \cup {NotLive}]

-----------------------------------------------------------------------------
(* Sizes. *)

Larger(x, y) == IF x > y THEN x ELSE y

\* Mutant: no room for the header.
AdjustedSize_NoHeader(size) ==
  Larger(MinBlockSize, (size + (DSize - 1)) \div DSize)

\* round_up(size + wsize, dsize) in the arithmetic of size_t, in units.
AdjustedSize(size) ==
  LET need == (size + WSize) % Modulus
  IN  Larger(MinBlockSize, ((need + (DSize - 1)) % Modulus) \div DSize)

\* get_list_index: class i is for sizes up to 2^i units.
ListIndex(size) ==
  IF \E i \in Class : size <= 2 ^ i
  THEN CHOOSE i \in Class : size <= 2 ^ i /\ \A k \in Class : size <= 2 ^ k => i <= k
  ELSE ListCount - 1

-----------------------------------------------------------------------------
(* Boundary tags. *)

\* Mutant: the next block is not told.
WriteBlock_NextNotTold(h, b, size, alloc) ==
  LET inside == b + 1 .. b + size - 1
      word   == [size |-> size, alloc |-> alloc, prev |-> h.hdr[b].prev]
  IN  [h EXCEPT
        !.hdr = [u \in Unit |-> CASE u = b -> word
                                  [] u \in inside -> NoHeader
                                  [] OTHER -> h.hdr[u]],
        !.ftr = [u \in Unit |-> IF u = b + size /\ ~alloc THEN word ELSE h.ftr[u]]]

\* write_block: header, footer of a free block, prev_alloc bit of the next.
WriteBlock(h, b, size, alloc) ==
  LET inside == b + 1 .. b + size - 1
      body   == IF alloc THEN {b} \cup inside ELSE inside
      word   == [size |-> size, alloc |-> alloc, prev |-> h.hdr[b].prev]
  IN  [h EXCEPT
        !.hdr = [u \in Unit |->
                   CASE u = b -> word
                     [] u = b + size -> [h.hdr[u] EXCEPT !.prev = alloc]
                     [] u \in inside -> NoHeader
                     [] OTHER -> h.hdr[u]],
        !.ftr = [u \in Unit |->
                   CASE u = b + size -> IF alloc THEN NoHeader ELSE word
                     [] u \in inside -> NoHeader
                     [] OTHER -> h.ftr[u]],
        !.nxt = [u \in Unit |-> IF u \in body THEN Junk ELSE h.nxt[u]],
        !.prv = [u \in Unit |-> IF u \in body THEN Junk ELSE h.prv[u]]]

FindNext(h, b) == b + h.hdr[b].size
FindPrev(h, b) == b - h.ftr[b].size

-----------------------------------------------------------------------------
(* Segregated free lists. *)

\* Mutant: the block after it still points back to it.
Eliminate_OneWay(h, b) ==
  LET c == ListIndex(h.hdr[b].size)
  IN  IF h.prv[b] = Null THEN [h EXCEPT !.head[c] = h.nxt[b]]
      ELSE [h EXCEPT !.nxt[h.prv[b]] = h.nxt[b]]

\* eliminate_from_linked
Eliminate(h, b) ==
  LET c == ListIndex(h.hdr[b].size)
      n == h.nxt[b]
      p == h.prv[b]
  IN  CASE p = Null /\ n = Null -> [h EXCEPT !.head[c] = Null]
        [] p # Null /\ n = Null -> [h EXCEPT !.nxt[p] = Null]
        [] p = Null /\ n # Null -> [h EXCEPT !.prv[n] = Null, !.head[c] = n]
        [] p # Null /\ n # Null -> [h EXCEPT !.nxt[p] = n, !.prv[n] = p]

\* insert_into_linked
Insert(h, b) ==
  LET c == ListIndex(h.hdr[b].size)
      f == h.head[c]
  IN  [h EXCEPT !.prv = [u \in Unit |-> CASE u = b -> Null
                                          [] u = f /\ u # b -> b
                                          [] OTHER -> h.prv[u]],
                !.nxt[b] = f,
                !.head[c] = b]

\* The list of class c: its block at each distance from the head.
ListOf(h, c) ==
  LET follow(b) == IF b = Null THEN Null ELSE h.nxt[b]
      at[i \in Unit] == IF i = 0 THEN h.head[c] ELSE follow(at[i - 1])
  IN  at

Slack(h, b, asize)   == h.hdr[b].size - asize
Fits(h, b, asize)    == b # Null /\ asize <= h.hdr[b].size
\* At most THRESHOLD = 0.3 of asize is wasted.
NearFit(h, b, asize) == Fits(h, b, asize) /\ 10 * Slack(h, b, asize) <= 3 * asize

\* The tightest of the near fits of a list, SearchLimit of them looked at.
BestIn(h, c, asize) ==
  LET at   == ListOf(h, c)
      near == {i \in Unit : NearFit(h, at[i], asize)}
      seen == {i \in near : Cardinality({k \in near : k < i}) < SearchLimit}
  IN  at[CHOOSE i \in seen : \A k \in seen :
           \/ Slack(h, at[i], asize) < Slack(h, at[k], asize)
           \/ Slack(h, at[i], asize) = Slack(h, at[k], asize) /\ i <= k]

FirstIn(h, c, asize) ==
  LET at   == ListOf(h, c)
      fits == {i \in Unit : Fits(h, at[i], asize)}
  IN  at[CHOOSE i \in fits : \A k \in fits : i <= k]

\* find_fit
FindFit(h, asize) ==
  LET classes == ListIndex(asize) .. ListCount - 1
      near == {c \in classes : \E i \in Unit : NearFit(h, ListOf(h, c)[i], asize)}
      fits == {c \in classes : \E i \in Unit : Fits(h, ListOf(h, c)[i], asize)}
      first(S) == CHOOSE c \in S : \A d \in S : c <= d
  IN  IF near # {} THEN BestIn(h, first(near), asize)
      ELSE IF fits # {} THEN FirstIn(h, first(fits), asize) ELSE Null

-----------------------------------------------------------------------------
(* Merging, growing, splitting.  An Outcome is a heap and a block of it. *)

Outcome(h, b) == [heap |-> h, block |-> b]

\* Mutant: the block before is not looked at.
Coalesce_ForwardOnly(h, b) ==
  LET next     == FindNext(h, b)
      nextFree == ~h.hdr[next].alloc
      h1    == Eliminate(h, b)
      h2    == IF nextFree THEN Eliminate(h1, next) ELSE h1
      end   == IF nextFree THEN FindNext(h, next) ELSE next
  IN  Outcome(WriteBlock(h2, b, end - b, FALSE), b)

\* Mutant: it takes the block after, free or not.
Coalesce_TakesNext(h, b) ==
  LET next == FindNext(h, b)
      h1   == Eliminate(h, b)
  IN  Outcome(WriteBlock(h1, b, FindNext(h, next) - b, FALSE), b)

\* coalesce_block
Coalesce(h, b) ==
  LET next     == FindNext(h, b)
      prev     == FindPrev(h, b)
      nextFree == ~h.hdr[next].alloc
      prevFree == ~h.hdr[b].prev
      h1    == Eliminate(h, b)
      h2    == IF nextFree THEN Eliminate(h1, next) ELSE h1
      h3    == IF prevFree THEN Eliminate(h2, prev) ELSE h2
      start == IF prevFree THEN prev ELSE b
      end   == IF nextFree THEN FindNext(h, next) ELSE next
  IN  Outcome(WriteBlock(h3, start, end - start, FALSE), start)

\* Mutant: mem_sbrk is asked for one unit more than the block has.
ExtendHeap_RoundsPast(h, n) ==
  LET b     == h.brk
      grown == WriteBlock([h EXCEPT !.brk = b + n + 1], b, n, FALSE)
  IN  Coalesce([grown EXCEPT !.nxt[b] = Null, !.prv[b] = Null,
                  !.hdr[b + n] = [size |-> 0, alloc |-> TRUE, prev |-> FALSE]],
               b)

\* extend_heap by n units: the new block starts where the epilogue was.
ExtendHeap(h, n) ==
  LET b     == h.brk
      grown == WriteBlock([h EXCEPT !.brk = b + n], b, n, FALSE)
  IN  Coalesce([grown EXCEPT !.nxt[b] = Null, !.prv[b] = Null,
                  !.hdr[b + n] = [size |-> 0, alloc |-> TRUE, prev |-> FALSE]],
               b)

\* The end of malloc: mark the block, split_block, list what is left over.
Place(h, b, asize) ==
  LET size  == h.hdr[b].size
      taken == WriteBlock(h, b, size, TRUE)
      cut   == IF size - asize >= MinBlockSize
               THEN WriteBlock(WriteBlock(taken, b, asize, TRUE),
                               b + asize, size - asize, FALSE)
               ELSE taken
      next  == FindNext(cut, b)
  IN  IF cut.hdr[next].alloc THEN cut ELSE Insert(cut, next)

\* free
FreeBlock(h, b) ==
  LET merged == Coalesce(Insert(WriteBlock(h, b, h.hdr[b].size, FALSE), b), b)
  IN  Insert(merged.heap, merged.block)

-----------------------------------------------------------------------------
(* The calls.  mem_sbrk may fail at any time, and does at the end. *)

NoHeap ==
  [hdr |-> [u \in Unit |-> NoHeader], ftr |-> [u \in Unit |-> NoHeader],
   nxt |-> [u \in Unit |-> Junk], prv |-> [u \in Unit |-> Junk],
   head |-> [c \in Class |-> Null], brk |-> 0, ready |-> FALSE]

\* The footer of a prologue, the header of an epilogue, and no block.
EmptyHeap ==
  LET word == [size |-> 0, alloc |-> TRUE, prev |-> TRUE]
  IN  [NoHeap EXCEPT !.ftr[0] = word, !.hdr[0] = word, !.ready = TRUE]

\* mm_init fails before or after it has set heap_start, or succeeds.
InitFails  == {NoHeap, EmptyHeap}
InitWorks  ==
  IF Chunk <= HeapUnits
  THEN LET new == ExtendHeap(EmptyHeap, Chunk) IN {Insert(new.heap, new.block)}
  ELSE {}

\* malloc from find_fit on.
Allocate(h, asize) ==
  LET fit  == FindFit(h, asize)
      more == Larger(asize, Chunk)
      new  == ExtendHeap(h, more)
  IN  IF fit # Null
      THEN {Outcome(Place(Eliminate(h, fit), fit, asize), fit)}
      ELSE {Outcome(h, Null)}
           \cup (IF h.brk + more <= HeapUnits
                 THEN {Outcome(Place(new.heap, new.block, asize), new.block)}
                 ELSE {})

MallocOutcomes(h, size) ==
  LET ready == IF h.ready THEN {h} ELSE InitWorks
      fails == IF h.ready THEN {} ELSE {Outcome(i, Null) : i \in InitFails}
  IN  fails \cup (IF size = 0 THEN {Outcome(i, Null) : i \in ready}
                  ELSE UNION {Allocate(i, AdjustedSize(size)) : i \in ready})

\* malloc(size) for a client that takes the payload for asked bytes.
MallocFor(size, asked) ==
  \E r \in MallocOutcomes(heap, size) :
    /\ heap' = r.heap
    /\ live' = IF r.block = Null THEN live ELSE [live EXCEPT ![r.block] = asked]

Malloc(size) == MallocFor(size, size)

Free(b) ==
  /\ live[b] # NotLive
  /\ heap' = FreeBlock(heap, b)
  /\ live' = [live EXCEPT ![b] = NotLive]

\* With size 0 it is free, with a null pointer malloc.
Realloc(b, size) ==
  /\ live[b] # NotLive /\ size # 0
  /\ \E r \in MallocOutcomes(heap, size) :
       IF r.block = Null
       THEN heap' = r.heap /\ UNCHANGED live
       ELSE /\ heap' = FreeBlock(r.heap, b)
            /\ live' = [live EXCEPT ![r.block] = size, ![b] = NotLive]

\* It refuses a product that wraps round.
Calloc(elements, size) ==
  /\ elements # 0
  /\ ((elements * size) % Modulus) \div elements = size
  /\ (elements * size) % Modulus \in Requests
  /\ MallocFor((elements * size) % Modulus, elements * size)

Init == heap = NoHeap /\ live = [u \in Unit |-> NotLive]

Next ==
  \/ \E size \in Requests : Malloc(size)
  \/ \E b \in Unit : Free(b)
  \/ \E b \in Unit, size \in Requests : Realloc(b, size)
  \/ \E elements, size \in Requests : Calloc(elements, size)

Spec == Init /\ [][Next]_vars

-----------------------------------------------------------------------------
(* What mm_checkheap returns. *)

\* The blocks it walks over from heap_start on; the walk ends at a size of 0.
Walk(h) ==
  LET step(b) == IF h.hdr[b].size = 0 THEN b ELSE FindNext(h, b)
      at[i \in Unit] == IF i = 0 THEN 0 ELSE step(at[i - 1])
  IN  at

\* What it checks of a block, and of the block before it.
BlockChecks(h, b) ==
  /\ h.hdr[b].size >= MinBlockSize
  /\ b < h.brk
  /\ ~h.hdr[b].alloc => h.ftr[FindNext(h, b)] = h.hdr[b]

PairChecks(h, prev, b) ==
  /\ h.hdr[prev].alloc \/ h.hdr[b].alloc
  /\ h.hdr[prev].alloc = h.hdr[b].prev

ListChecks(h, c) ==
  LET at == ListOf(h, c)
  IN  \A i \in Unit : at[i] # Null =>
        ~h.hdr[at[i]].alloc /\ ListIndex(h.hdr[at[i]].size) = c

\* It returns true: no check fails, nor the assertion of find_prev(heap_start).
CheckHeap(h) ==
  LET at  == Walk(h)
      end == at[HeapUnits]
  IN  /\ h.ready
      /\ h.hdr[0].size # 0
      /\ h.ftr[0].size = 0 /\ h.ftr[0].alloc
      /\ \A i \in Unit : at[i] # end => BlockChecks(h, at[i])
      /\ \A i \in Unit : i > 0 /\ at[i - 1] # end /\ at[i] # end
           => PairChecks(h, at[i - 1], at[i])
      /\ h.hdr[end].size = 0 /\ h.hdr[end].alloc
      /\ \A c \in Class : ListChecks(h, c)

-----------------------------------------------------------------------------
(* What a sound heap is. *)

Blocks(h) == {b \in Unit : h.hdr[b].size > 0}
FreeBlocks(h) == {b \in Blocks(h) : ~h.hdr[b].alloc}

\* The blocks cover the heap up to the epilogue without gap or overlap.
Tiled(h) ==
  /\ h.hdr[h.brk].size = 0 /\ h.hdr[h.brk].alloc
  /\ h.brk # 0 => 0 \in Blocks(h)
  /\ \A b \in Blocks(h) :
       /\ h.hdr[b].size >= MinBlockSize
       /\ FindNext(h, b) <= h.brk
       /\ FindNext(h, b) # h.brk => FindNext(h, b) \in Blocks(h)
       /\ \A u \in b + 1 .. FindNext(h, b) - 1 : u \notin Blocks(h)

\* A block's successor knows whether it is free, and then how long it is.
TagsAgree(h) ==
  /\ h.hdr[0].prev
  /\ \A b \in Blocks(h) :
       /\ h.hdr[FindNext(h, b)].prev = h.hdr[b].alloc
       /\ ~h.hdr[b].alloc => h.ftr[FindNext(h, b)] = h.hdr[b]

NoFreeNeighbours(h) ==
  \A b \in FreeBlocks(h) : FindNext(h, b) \notin FreeBlocks(h)

SameClass(h, b, d) == ListIndex(h.hdr[b].size) = ListIndex(h.hdr[d].size)

\* Links lead from free blocks to free blocks of the class, and back.
Linked(h) ==
  /\ \A b \in FreeBlocks(h) :
       /\ h.nxt[b] # Null => /\ h.nxt[b] \in FreeBlocks(h)
                            /\ SameClass(h, b, h.nxt[b])
                            /\ h.prv[h.nxt[b]] = b
       /\ h.prv[b] # Null => /\ h.prv[b] \in FreeBlocks(h)
                            /\ SameClass(h, b, h.prv[b])
                            /\ h.nxt[h.prv[b]] = b
  /\ \A c \in Class : h.head[c] # Null =>
       /\ h.head[c] \in FreeBlocks(h)
       /\ ListIndex(h.hdr[h.head[c]].size) = c
       /\ h.prv[h.head[c]] = Null

(***************************************************************************)
(* After every call the blocks tile the heap, the boundary tags of         *)
(* neighbours agree and no two free blocks touch: what find_next,          *)
(* find_prev and coalesce_block rely on.                                   *)
(***************************************************************************)
HeapTiled ==
  heap.ready => Tiled(heap) /\ TagsAgree(heap) /\ NoFreeNeighbours(heap)

(***************************************************************************)
(* The free lists are doubly linked lists of free blocks of one class,     *)
(* also after coalesce_block has eliminated a block that extend_heap never *)
(* listed: no call follows a link into a payload.                          *)
(***************************************************************************)
ListsSound == heap.ready => Linked(heap)

(***************************************************************************)
(* The client has exactly the allocated blocks, and each payload holds the *)
(* bytes asked for, all elements of an array included (mm.c:1113).  With   *)
(* HeapTiled, no two payloads overlap.                                     *)
(***************************************************************************)
PayloadsFit ==
  \A b \in Unit :
    /\ live[b] # NotLive <=> (b \in Blocks(heap) /\ heap.hdr[b].alloc)
    /\ live[b] # NotLive => live[b] <= DSize * heap.hdr[b].size - WSize

(***************************************************************************)
(* Once the heap has been extended, mm_checkheap returns true after every  *)
(* call, as the debug build of malloc and free demands.  On the heap that  *)
(* mm_init leaves when extend_heap fails (mm.c:921) it never does: there   *)
(* is no first block, which find_prev(heap_start) asserts (mm.c:458, 782). *)
(***************************************************************************)
CheckHeapPasses == heap.ready => (CheckHeap(heap) <=> heap.brk # 0)

(***************************************************************************)
(* No call changes the extent of a block that stays live: malloc, free and *)
(* realloc of others neither shrink it, move it nor merge it.              *)
(***************************************************************************)
LiveBlocksStay ==
  [][\A b \in Unit : live[b] # NotLive /\ live'[b] # NotLive
       => heap'.hdr[b].size = heap.hdr[b].size]_vars
=============================================================================
