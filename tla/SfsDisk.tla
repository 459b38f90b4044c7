------------------------------- MODULE SfsDisk -------------------------------
(***************************************************************************)
(* The on-disk structures of the Shark File System (sfs-disk.h) and the    *)
(* block-list routines of sfs-disk.c that work on them.                    *)
(*                                                                         *)
(* A disk image is an array of blocks.  Block 0 is the super block; every  *)
(* other block has a header with a type tag and the identifiers of its     *)
(* neighbours on the one list it is on: the free list, or the chain of a   *)
(* file.  Identifier 0 is the null pointer.                                *)
(***************************************************************************)
EXTENDS Integers, FiniteSets

CONSTANTS
  NBlocks,         \* n_blocks of the super block, the super block included
  BlockDataSize,   \* BLOCK_DATA_SIZE: bytes of file data in a block
  FileCountLimit,  \* entries of the root directory
  MaxFileSize      \* SFS_MAX_FILE_SIZE

ASSUME GeometryAssumption ==
  /\ NBlocks \in Nat \ {0, 1}
  /\ BlockDataSize \in Nat \ {0}
  /\ FileCountLimit \in Nat \ {0}
  /\ MaxFileSize \in Nat

Null    == 0
Block   == 1 .. NBlocks - 1
BlockId == Block \cup {Null}
Entry   == 0 .. FileCountLimit - 1
Offset  == 0 .. BlockDataSize - 1

BlockType == {"free", "file"}

(***************************************************************************)
(* roundUp, with its special case: zero bytes still need one block.        *)
(***************************************************************************)
RoundUp(size) ==
  LET atLeastOne == IF size = 0 THEN 1 ELSE size
  IN  BlockDataSize * ((atLeastOne + BlockDataSize - 1) \div BlockDataSize)

SizeMin(a, b) == IF a < b THEN a ELSE b

BlocksFor(size) == RoundUp(size) \div BlockDataSize

(***************************************************************************)
(* The blocks a walk along the next_block pointers nx meets, starting at   *)
(* identifier b: the least set that holds b and the successor of each of   *)
(* its members.  Nothing when b is null.                                   *)
(***************************************************************************)
Closed(nx, S) == \A c \in S : nx[c] = Null \/ nx[c] \in S

Chain(nx, b) ==
  LET supersets == {S \in SUBSET Block : (b # Null => b \in S) /\ Closed(nx, S)}
  IN  {c \in Block : \A S \in supersets : c \in S}

\* The walks of h hops along nx that start at block b: one, or none when the
\* chain of b ends before.
Paths(nx, b, h) ==
  {p \in [0 .. h -> Block] :
     p[0] = b /\ \A i \in 1 .. h : p[i] = nx[p[i - 1]]}

\* Steps from b to c, when c is on the chain of b and the chain ends.
Hops(nx, b, c) == Cardinality(Chain(nx, b)) - Cardinality(Chain(nx, c))

\* The first n blocks of the chain of b.
FirstBlocks(nx, b, n) == {c \in Chain(nx, b) : Hops(nx, b, c) < n}

\* The member of a run of blocks whose successor is not in the run.
LastOf(nx, run) == CHOOSE c \in run : nx[c] \notin run

(***************************************************************************)
(* allocateBlocks takes the first n blocks off the free list, or none: it  *)
(* looks ahead before it changes anything.  run is the set it takes.  The  *)
(* block that becomes the head of the free list loses its prev pointer,    *)
(* the last block taken loses its next pointer, and all that are taken     *)
(* get their type; the prev pointers inside the run are left as they are.  *)
(***************************************************************************)
\* Looking ahead, it asserts of each block that it is a free one: of the n it is
\* to take, or all there are, and of the one after them.
AllocationAborts(nx, bt, free, n) ==
  n # 0 /\ \E c \in Chain(nx, free) : bt[c] # "free" /\ Hops(nx, free, c) <= n

CanAllocate(nx, free, n) ==
  free # Null /\ n # 0 /\ Cardinality(Chain(nx, free)) >= n

AllocatedRun(nx, free, n) ==
  IF CanAllocate(nx, free, n) THEN FirstBlocks(nx, free, n) ELSE {}

FreeAfterAllocate(nx, free, run) ==
  IF run = {} THEN free ELSE nx[LastOf(nx, run)]

\* Defect: the last block taken keeps its next pointer.
NextAfterAllocate_NotCut(nx, run) == nx

NextAfterAllocate(nx, run) ==
  [c \in Block |-> IF run # {} /\ c = LastOf(nx, run) THEN Null ELSE nx[c]]

PrevAfterAllocate(nx, pv, run) ==
  [c \in Block |->
     IF run # {} /\ c = nx[LastOf(nx, run)] THEN Null ELSE pv[c]]

TypeAfterAllocate(bt, run) ==
  [c \in Block |-> IF c \in run THEN "file" ELSE bt[c]]

(***************************************************************************)
(* freeBlocks pushes the whole chain of b on the front of the free list.   *)
(* The chain is first cut off from its predecessor, if it has one.  The    *)
(* old head of the free list does not learn who its new neighbour is.      *)
(***************************************************************************)
NextAfterFree(nx, pv, free, b) ==
  [c \in Block |->
     IF c = LastOf(nx, Chain(nx, b)) THEN free
     ELSE IF c = pv[b] THEN Null
     ELSE nx[c]]

PrevAfterFree(pv, b) == [pv EXCEPT ![b] = Null]

TypeAfterFree(nx, bt, b) ==
  [c \in Block |-> IF c \in Chain(nx, b) THEN "free" ELSE bt[c]]

(***************************************************************************)
(* Walking down the chain, freeBlocks asserts of each block that it is not *)
(* free already.  If one is, the chain has been cut off, the blocks before *)
(* that one are retyped, and nothing is on the free list.                  *)
(***************************************************************************)
FreeAborts(nx, bt, b) == \E c \in Chain(nx, b) : bt[c] = "free"

NextAfterCut(nx, pv, b) == [c \in Block |-> IF c = pv[b] THEN Null ELSE nx[c]]

TypeUntilFree(nx, bt, b) ==
  [c \in Block |->
     IF c \in Chain(nx, b) /\ \A d \in Chain(nx, b) :
                                Hops(nx, b, d) <= Hops(nx, b, c) => bt[d] # "free"
       THEN "free" ELSE bt[c]]
=============================================================================
