------------------------------ MODULE SfsProofs ------------------------------
(***************************************************************************)
(* Theorems about Sfs under any client (Spec), for every size of disk,     *)
(* directory and tables: no call ever puts a block on two lists, or on a   *)
(* list of another type, and the consistency checker accepts exactly the   *)
(* consistent disks whose prev pointers are all set.  First the block      *)
(* lists, then the calls, then the checker.                                *)
(***************************************************************************)
EXTENDS SfsFsck, FiniteSetTheorems, WellFoundedInduction, TLAPS

(***************************************************************************)
(* Facts about walks.                                                      *)
(***************************************************************************)
NextFunction == [Block -> BlockId]

\* Different blocks have different successors.
NextInjective(nx) ==
  \A b, c \in Block : b # c /\ nx[b] # Null => nx[b] # nx[c]

NoPredecessor(nx, b) == \A c \in Block : nx[c] # Null => nx[c] # b

LEMMA BlockFacts ==
  /\ Null \notin Block
  /\ BlockId = Block \cup {Null}
  /\ IsFiniteSet(Block)
<1>1. IsFiniteSet(1 .. NBlocks - 1)
  BY FS_Interval, GeometryAssumption
<1> QED BY <1>1 DEF Block, BlockId, Null

\* The chain of a block holds it and is closed under the successor.
LEMMA ChainClosed ==
  ASSUME NEW nx \in NextFunction, NEW b \in BlockId
  PROVE  /\ Chain(nx, b) \subseteq Block
         /\ b # Null => b \in Chain(nx, b)
         /\ Closed(nx, Chain(nx, b))
<1>1. Chain(nx, b) \subseteq Block
  BY DEF Chain
<1>2. b # Null => b \in Chain(nx, b)
  BY BlockFacts DEF Chain
<1>3. ASSUME NEW c \in Chain(nx, b), nx[c] # Null
      PROVE  nx[c] \in Chain(nx, b)
  <2>1. nx[c] \in Block
    BY <1>1, <1>3, BlockFacts DEF NextFunction
  <2>2. ASSUME NEW S \in SUBSET Block, b # Null => b \in S, Closed(nx, S)
        PROVE  nx[c] \in S
    BY <1>3, <2>2 DEF Chain, Closed
  <2> QED BY <2>1, <2>2 DEF Chain
<1> QED BY <1>1, <1>2, <1>3 DEF Closed

\* ... and is the least such set.
LEMMA ChainLeast ==
  ASSUME NEW nx, NEW b, NEW S \in SUBSET Block,
         b # Null => b \in S, Closed(nx, S)
  PROVE  Chain(nx, b) \subseteq S
BY DEF Chain

\* Every member of a chain but its first has its predecessor in the chain.
LEMMA ChainPredecessor ==
  ASSUME NEW nx \in NextFunction, NEW b \in BlockId,
         NEW c \in Chain(nx, b), c # b
  PROVE  \E d \in Chain(nx, b) : nx[d] = c
<1> DEFINE S == Chain(nx, b) \ {c}
<1>1. SUFFICES ASSUME \A d \in Chain(nx, b) : nx[d] # c PROVE FALSE
  OBVIOUS
<1>2. S \in SUBSET Block /\ (b # Null => b \in S)
  BY ChainClosed
<1>3. Closed(nx, S)
  BY <1>1, ChainClosed DEF Closed
<1>4. Chain(nx, b) \subseteq S
  BY <1>2, <1>3, ChainLeast
<1> QED BY <1>4

Size(nx, b) == Cardinality(Chain(nx, b))

LEMMA LeastNumber ==
  ASSUME NEW S \in SUBSET Nat, S # {}
  PROVE  \E x \in S : \A y \in S : x <= y
<1> DEFINE Less == {ss \in Nat \X Nat : ss[1] < ss[2]}
<1>1. IsWellFoundedOn(Less, Nat)
  BY NatLessThanWellFounded DEF OpToRel
<1>2. PICK x \in S : \A y \in S : ~ (<<y, x>> \in Less)
  <2> HIDE DEF Less
  <2> QED BY <1>1, WFMin
<1>3. ASSUME NEW y \in S PROVE x <= y
  <2>1. <<y, x>> \notin Less /\ x \in Nat /\ y \in Nat
    BY <1>2
  <2> QED BY <2>1
<1> QED BY <1>3

LEMMA NullChain ==
  ASSUME NEW nx
  PROVE  Chain(nx, Null) = {}
<1>1. Closed(nx, {})
  BY DEF Closed
<1>2. Chain(nx, Null) \subseteq {}
  BY <1>1, ChainLeast
<1> QED BY <1>2

LEMMA ChainFinite ==
  ASSUME NEW nx \in NextFunction, NEW b \in BlockId
  PROVE  /\ Chain(nx, b) \subseteq Block
         /\ IsFiniteSet(Chain(nx, b))
         /\ Size(nx, b) \in Nat
BY ChainClosed, BlockFacts, FS_Subset, FS_CardinalityType DEF Size

\* Different roots have different chains.
LEMMA ChainsApart ==
  ASSUME NEW nx \in NextFunction, NextInjective(nx),
         NEW a \in BlockId, NEW b \in BlockId,
         NoPredecessor(nx, a), NoPredecessor(nx, b), a # b
  PROVE  Chain(nx, a) \cap Chain(nx, b) = {}
<1>1. CASE a = Null
  BY <1>1, NullChain
<1>2. CASE a # Null
  <2> DEFINE S == Chain(nx, a) \ Chain(nx, b)
  <2>1. a \notin Chain(nx, b)
    <3>1. SUFFICES ASSUME a \in Chain(nx, b) PROVE FALSE
      OBVIOUS
    <3>2. PICK d \in Chain(nx, b) : nx[d] = a
      BY <3>1, ChainPredecessor
    <3> QED BY <1>2, <3>2, ChainClosed DEF NoPredecessor
  <2>2. S \in SUBSET Block /\ a \in S
    BY <1>2, <2>1, ChainClosed
  <2>3. ASSUME NEW x \in S PROVE nx[x] = Null \/ nx[x] \in S
    <3>1. SUFFICES ASSUME nx[x] # Null, nx[x] \in Chain(nx, b) PROVE FALSE
      BY ChainClosed DEF Closed
    <3>2. nx[x] # b /\ x \in Block
      BY <2>2, <3>1 DEF NoPredecessor
    <3>3. PICK d \in Chain(nx, b) : nx[d] = nx[x]
      BY <3>1, <3>2, ChainPredecessor
    <3> QED BY <3>1, <3>2, <3>3, ChainClosed DEF NextInjective
  <2>4. Chain(nx, a) \subseteq S
    <3>1. Closed(nx, S)
      BY <2>3 DEF Closed
    <3> HIDE DEF S
    <3> QED BY <2>2, <3>1, ChainLeast
  <2> QED BY <2>4
<1> QED BY <1>1, <1>2

(***************************************************************************)
(* A run of blocks with a first block that nothing points to is not a      *)
(* cycle: one of its members leads out of it.  (The successor function     *)
(* would map the run into the run without its first block.)                *)
(***************************************************************************)
LEMMA RunHasLast ==
  ASSUME NEW nx \in NextFunction, NextInjective(nx),
         NEW run \in SUBSET Block, NEW head \in run, NoPredecessor(nx, head)
  PROVE  /\ LastOf(nx, run) \in run
         /\ nx[LastOf(nx, run)] \notin run
<1>1. \E c \in run : nx[c] \notin run
  <2>1. SUFFICES ASSUME \A c \in run : nx[c] \in run PROVE FALSE
    OBVIOUS
  <2> DEFINE f == [c \in run |-> nx[c]]
             rest == run \ {head}
  <2>2. IsFiniteSet(run)
    BY FS_Subset, BlockFacts
  <2>3. /\ IsFiniteSet(rest)
        /\ Cardinality(rest) = Cardinality(run) - 1
        /\ Cardinality(run) \in Nat
    BY <2>2, FS_RemoveElement, FS_CardinalityType
  <2>4. \A c \in run : nx[c] # Null /\ nx[c] # head
    BY <2>1, BlockFacts DEF NoPredecessor
  <2>5. f \in [run -> rest]
    BY <2>1, <2>4
  <2>6. Cardinality(rest) < Cardinality(run)
    BY <2>3
  <2>7. \E x, y \in run : x # y /\ f[x] = f[y]
    <3> HIDE DEF f, rest
    <3> QED BY <2>2, <2>3, <2>5, <2>6, FS_PigeonHole
  <2>8. \A x, y \in run : x # y => f[x] # f[y]
    BY <2>4 DEF NextInjective
  <2> QED BY <2>7, <2>8
<1> QED BY <1>1 DEF LastOf

(***************************************************************************)
(* A run in which every block but the first has its predecessor is left at *)
(* one block only.  (Otherwise the predecessors would map the run without  *)
(* its first block, injectively, into the run without two blocks.)         *)
(***************************************************************************)
LEMMA RunLastUnique ==
  ASSUME NEW nx \in NextFunction, NEW run \in SUBSET Block, NEW head \in run,
         \A c \in run : c # head => \E d \in run : nx[d] = c,
         NEW c \in run, NEW d \in run, nx[c] \notin run, nx[d] \notin run
  PROVE  c = d
<1>1. SUFFICES ASSUME c # d PROVE FALSE
  OBVIOUS
<1> DEFINE S == run \ {head}
           T == (run \ {c}) \ {d}
           g == [x \in S |-> CHOOSE y \in run : nx[y] = x]
<1>2. \A x \in S : g[x] \in run /\ nx[g[x]] = x
  OBVIOUS
<1>3. \A x \in S : g[x] # c /\ g[x] # d
  BY <1>2
<1>4. g \in [S -> T]
  BY <1>2, <1>3
<1>5. /\ IsFiniteSet(run) /\ Cardinality(run) \in Nat
      /\ IsFiniteSet(S) /\ Cardinality(S) = Cardinality(run) - 1
      /\ IsFiniteSet(run \ {c}) /\ Cardinality(run \ {c}) = Cardinality(run) - 1
  BY FS_Subset, BlockFacts, FS_RemoveElement, FS_CardinalityType
<1>6. IsFiniteSet(T) /\ Cardinality(T) = Cardinality(run \ {c}) - 1
  BY <1>1, <1>5, FS_RemoveElement
<1>7. \E x, y \in S : x # y /\ g[x] = g[y]
  <2>1. Cardinality(T) < Cardinality(S)
    BY <1>5, <1>6
  <2> HIDE DEF S, T, g
  <2> QED BY <1>4, <1>5, <1>6, <2>1, FS_PigeonHole
<1> QED BY <1>2, <1>7

(***************************************************************************)
(* What allocateBlocks takes: the head of the list, and with every other   *)
(* block its predecessor.                                                  *)
(***************************************************************************)
LEMMA FirstBlocksRun ==
  ASSUME NEW nx \in NextFunction, NEW b \in Block, NEW n \in Nat \ {0}
  PROVE  /\ FirstBlocks(nx, b, n) \subseteq Chain(nx, b)
         /\ b \in FirstBlocks(nx, b, n)
         /\ \A c \in FirstBlocks(nx, b, n) :
              c # b => \E d \in FirstBlocks(nx, b, n) : nx[d] = c
<1> DEFINE run == FirstBlocks(nx, b, n)
<1>0. b \in BlockId /\ b # Null
  BY BlockFacts
<1>1. \A c \in Block : Cardinality(Chain(nx, c)) \in Nat
  BY ChainClosed, BlockFacts, FS_Subset, FS_CardinalityType
<1>2. run \subseteq Chain(nx, b)
  BY DEF FirstBlocks
<1>3. b \in run
  BY <1>0, <1>1, ChainClosed DEF FirstBlocks, Hops
<1>4. ASSUME NEW c \in run, c # b
      PROVE  \E d \in run : nx[d] = c
  <2>1. PICK d \in Chain(nx, b) : nx[d] = c
    BY <1>0, <1>2, <1>4, ChainPredecessor
  <2>2. c \in Block /\ d \in Block /\ d \in BlockId /\ c \in BlockId
    BY <1>0, <1>2, <2>1, ChainClosed, BlockFacts
  <2>3. c \in Chain(nx, d)
    BY <2>1, <2>2, ChainClosed, BlockFacts DEF Closed
  <2>4. Chain(nx, c) \subseteq Chain(nx, d)
    BY <2>2, <2>3, ChainClosed, ChainLeast
  <2>5. Cardinality(Chain(nx, c)) <= Cardinality(Chain(nx, d))
    BY <2>2, <2>4, ChainClosed, BlockFacts, FS_Subset
  <2>6. Hops(nx, b, c) < n
    BY DEF FirstBlocks
  <2>7. Hops(nx, b, d) < n
    BY <1>1, <2>2, <2>5, <2>6 DEF Hops
  <2> QED BY <2>1, <2>7 DEF FirstBlocks
<1> QED BY <1>2, <1>3, <1>4

(***************************************************************************)
(* The lists of a disk whose free list starts at fr and whose files start  *)
(* at first[e], with a chain of newly allocated blocks starting at spare   *)
(* that no file has yet (null if there is none).                           *)
(***************************************************************************)
ListInv(nx, bt, fr, first, spare) ==
  /\ NextInjective(nx)
  /\ NoPredecessor(nx, fr)
  /\ NoPredecessor(nx, spare)
  /\ \A e \in Entry : NoPredecessor(nx, first[e])
  /\ fr # Null => bt[fr] = "free"
  /\ spare # Null => bt[spare] = "file" /\ spare # fr
  /\ \A e \in Entry : first[e] # Null =>
       /\ bt[first[e]] = "file"
       /\ first[e] # fr /\ first[e] # spare
  /\ \A d, e \in Entry : d # e /\ first[d] # Null => first[d] # first[e]
  /\ \A b \in Block : nx[b] # Null => bt[nx[b]] = bt[b]

TypeFunction  == [Block -> BlockType]
FirstFunction == [Entry -> BlockId]

\* All blocks of a chain have the type of its first.
LEMMA ChainType ==
  ASSUME NEW nx \in NextFunction, NEW bt \in TypeFunction, NEW b \in Block,
         \A c \in Block : nx[c] # Null => bt[nx[c]] = bt[c]
  PROVE  \A c \in Chain(nx, b) : bt[c] = bt[b]
<1> DEFINE S == {c \in Block : bt[c] = bt[b]}
<1>1. b \in S /\ S \in SUBSET Block
  OBVIOUS
<1>2. Closed(nx, S)
  BY BlockFacts DEF Closed, NextFunction
<1>3. Chain(nx, b) \subseteq S
  BY <1>1, <1>2, ChainLeast
<1> QED BY <1>3

(***************************************************************************)
(* allocateBlocks takes a run off the free list and leaves it as a chain   *)
(* of its own.                                                             *)
(***************************************************************************)
LEMMA AllocateKeepsLists ==
  ASSUME NEW nx \in NextFunction, NEW bt \in TypeFunction, NEW fr \in BlockId,
         NEW first \in FirstFunction, NEW n \in Nat,
         ListInv(nx, bt, fr, first, Null),
         NEW run, run = AllocatedRun(nx, fr, n)
  PROVE  /\ NextAfterAllocate(nx, run) \in NextFunction
         /\ TypeAfterAllocate(bt, run) \in TypeFunction
         /\ FreeAfterAllocate(nx, fr, run) \in BlockId
         /\ run # {} => fr \in Block
         /\ ListInv(NextAfterAllocate(nx, run), TypeAfterAllocate(bt, run),
                    FreeAfterAllocate(nx, fr, run), first,
                    IF run = {} THEN Null ELSE fr)
<1> DEFINE nx2 == NextAfterAllocate(nx, run)
           bt2 == TypeAfterAllocate(bt, run)
           fr2 == FreeAfterAllocate(nx, fr, run)
<1>1. CASE run = {}
  <2>1. nx2 = nx /\ bt2 = bt /\ fr2 = fr
    BY <1>1 DEF NextAfterAllocate, TypeAfterAllocate, FreeAfterAllocate,
                NextFunction, TypeFunction
  <2> QED BY <1>1, <2>1
<1>2. CASE run # {}
  <2>1. /\ n \in Nat \ {0} /\ fr \in Block
        /\ run = FirstBlocks(nx, fr, n)
    BY <1>2, BlockFacts DEF AllocatedRun, CanAllocate
  <2>2. /\ run \subseteq Block /\ fr \in run
        /\ \A c \in run : c # fr => \E d \in run : nx[d] = c
    BY <2>1, FirstBlocksRun, ChainClosed, BlockFacts
  <2>3. \A c \in run : bt[c] = "free"
    BY <2>1, FirstBlocksRun, ChainType, BlockFacts DEF ListInv
  <2> DEFINE last == LastOf(nx, run)
  <2>4. last \in run /\ nx[last] \notin run
    BY <2>2, RunHasLast DEF ListInv
  <2> HIDE DEF last
  <2>5. nx2 = [c \in Block |-> IF c = last THEN Null ELSE nx[c]]
    BY <1>2 DEF NextAfterAllocate, last
  <2>6. bt2 = [c \in Block |-> IF c \in run THEN "file" ELSE bt[c]]
    BY DEF TypeAfterAllocate
  <2>7. fr2 = nx[last]
    BY <1>2 DEF FreeAfterAllocate, last
  <2> HIDE DEF nx2, bt2, fr2
  <2>8. nx2 \in NextFunction /\ bt2 \in TypeFunction /\ fr2 \in BlockId
    BY <2>2, <2>4, <2>5, <2>6, <2>7, BlockFacts
       DEF NextFunction, TypeFunction, BlockType
  \* Nothing outside the run points into it.
  <2>9. \A b \in Block \ run : nx[b] \notin run
    BY <2>2, BlockFacts DEF ListInv, NextInjective, NoPredecessor
  <2>10. NextInjective(nx2)
    BY <2>5 DEF ListInv, NextInjective
  <2>11. NoPredecessor(nx2, fr2)
    BY <2>2, <2>4, <2>5, <2>7 DEF ListInv, NextInjective, NoPredecessor
  <2>12. /\ NoPredecessor(nx2, fr)
         /\ \A e \in Entry : NoPredecessor(nx2, first[e])
    BY <2>5 DEF ListInv, NoPredecessor
  <2>13. fr2 # Null => bt2[fr2] = "free"
    BY <2>2, <2>3, <2>4, <2>6, <2>7, BlockFacts DEF ListInv, NextFunction
  <2>14. fr # Null => bt2[fr] = "file" /\ fr # fr2
    BY <2>1, <2>2, <2>4, <2>6, <2>7
  <2>15. ASSUME NEW e \in Entry, first[e] # Null
         PROVE  bt2[first[e]] = "file" /\ first[e] # fr2 /\ first[e] # fr
    BY <2>2, <2>4, <2>6, <2>7, <2>15, BlockFacts
       DEF ListInv, NoPredecessor, FirstFunction
  <2>16. ASSUME NEW b \in Block, nx2[b] # Null
         PROVE  bt2[nx2[b]] = bt2[b]
    <3>1. nx2[b] = nx[b] /\ b # last /\ nx[b] \in Block
      BY <2>5, <2>16, BlockFacts DEF NextFunction
    <3>2. bt[nx[b]] = bt[b]
      BY <3>1, BlockFacts DEF ListInv
    <3>3. CASE b \in run
      <4>1. nx[b] \in run
        <5>1. SUFFICES ASSUME nx[b] \notin run PROVE b = last
          BY <3>1
        <5>2. run \in SUBSET Block /\ fr \in run /\ b \in run /\ last \in run
          BY <2>2, <2>4, <3>3
        <5> QED BY <2>2, <2>4, <5>1, <5>2, RunLastUnique
      <4> QED BY <3>1, <3>3, <4>1, <2>6
    <3>4. CASE b \notin run
      BY <3>1, <3>2, <3>4, <2>6, <2>9
    <3> QED BY <3>3, <3>4
  <2>17. ListInv(nx2, bt2, fr2, first, fr)
    BY <2>10, <2>11, <2>12, <2>13, <2>14, <2>15, <2>16 DEF ListInv
  <2> QED BY <1>2, <2>1, <2>8, <2>17 DEF nx2, bt2, fr2
<1> QED BY <1>1, <1>2

(***************************************************************************)
(* freeBlocks puts the chain of a file on the free list.                   *)
(***************************************************************************)
LEMMA FreeKeepsLists ==
  ASSUME NEW nx \in NextFunction, NEW bt \in TypeFunction, NEW fr \in BlockId,
         NEW first \in FirstFunction, NEW pv \in NextFunction,
         ListInv(nx, bt, fr, first, Null),
         NEW e \in Entry, NEW b \in Block, b = first[e]
  PROVE  /\ NextAfterFree(nx, pv, fr, b) \in NextFunction
         /\ PrevAfterFree(pv, b) \in NextFunction
         /\ TypeAfterFree(nx, bt, b) \in TypeFunction
         /\ ListInv(NextAfterFree(nx, pv, fr, b), TypeAfterFree(nx, bt, b),
                    b, [first EXCEPT ![e] = Null], Null)
<1> DEFINE C == Chain(nx, b)
           nx2 == NextAfterFree(nx, pv, fr, b)
           bt2 == TypeAfterFree(nx, bt, b)
           first2 == [first EXCEPT ![e] = Null]
           last == LastOf(nx, C)
<1>1. b # Null /\ b \in BlockId
  BY BlockFacts
<1>2. C \subseteq Block /\ b \in C /\ Closed(nx, C)
  BY <1>1, ChainClosed
<1>3. NoPredecessor(nx, b)
  BY DEF ListInv
<1>4. last \in C /\ nx[last] \notin C
  <2>1. C \in SUBSET Block
    BY <1>2
  <2> HIDE DEF C
  <2> QED BY <1>2, <1>3, <2>1, RunHasLast DEF ListInv
<1>5. nx[last] = Null
  BY <1>2, <1>4 DEF Closed
<1>6. \A c \in C : bt[c] = "file"
  BY <1>1, ChainType DEF ListInv
\* The chain of a file is closed against its environment, both ways.
<1>7. \A c \in Block \ C : nx[c] \notin C
  <2>1. SUFFICES ASSUME NEW c \in Block \ C, nx[c] \in C PROVE FALSE
    OBVIOUS
  <2>2. nx[c] # Null /\ nx[c] # b
    BY <1>2, <1>3, <2>1, BlockFacts DEF NoPredecessor
  <2>3. PICK d \in C : nx[d] = nx[c]
    BY <1>1, <2>1, <2>2, ChainPredecessor
  <2> QED BY <1>2, <2>1, <2>2, <2>3 DEF ListInv, NextInjective
<1>8. \A c \in C : nx[c] # Null => nx[c] \in C
  BY <1>2 DEF Closed
<1>9. nx2 = [c \in Block |-> IF c = last THEN fr
                             ELSE IF c = pv[b] THEN Null ELSE nx[c]]
  BY DEF NextAfterFree
<1>10. bt2 = [c \in Block |-> IF c \in C THEN "free" ELSE bt[c]]
  BY DEF TypeAfterFree
<1>11. PrevAfterFree(pv, b) \in NextFunction
  BY BlockFacts DEF PrevAfterFree, NextFunction
<1> HIDE DEF C, last, nx2, bt2
<1>12. nx2 \in NextFunction /\ bt2 \in TypeFunction
  BY <1>9, <1>10, BlockFacts DEF NextFunction, TypeFunction, BlockType
<1>13. fr # Null => fr \notin C
  BY <1>6, BlockFacts DEF ListInv
<1>14. \A d \in Entry : first2[d] # Null =>
         d # e /\ first2[d] = first[d] /\ first[d] \in Block /\ first[d] \notin C
  <2>1. SUFFICES ASSUME NEW d \in Entry, first2[d] # Null
                 PROVE  /\ d # e /\ first2[d] = first[d]
                        /\ first[d] \in Block /\ first[d] \notin C
    OBVIOUS
  <2>2. d # e /\ first2[d] = first[d] /\ first[d] \in Block
    BY <2>1, BlockFacts DEF FirstFunction
  <2>3. first[d] # b
    BY <1>1, <2>2 DEF ListInv
  <2>4. \A c \in Block : nx[c] # first[d]
    BY <2>2, BlockFacts DEF ListInv, NoPredecessor
  <2>5. SUFFICES ASSUME first[d] \in C PROVE FALSE
    BY <2>2
  <2>6. PICK c \in C : nx[c] = first[d]
    BY <1>1, <2>3, <2>5, ChainPredecessor DEF C
  <2> QED BY <1>2, <2>4, <2>6
<1> HIDE DEF first2
<1>15. NextInjective(nx2)
  BY <1>2, <1>4, <1>9 DEF ListInv, NextInjective, NoPredecessor
<1>16. NoPredecessor(nx2, b) /\ NoPredecessor(nx2, Null)
  BY <1>2, <1>3, <1>9, <1>13 DEF NoPredecessor
<1>17. \A d \in Entry : NoPredecessor(nx2, first2[d])
  BY <1>2, <1>9, <1>14 DEF ListInv, NoPredecessor
<1>18. bt2[b] = "free"
  BY <1>2, <1>10
<1>19. \A d \in Entry : first2[d] # Null =>
         /\ bt2[first2[d]] = "file" /\ first2[d] # b /\ first2[d] # Null
  BY <1>2, <1>10, <1>14 DEF ListInv
<1>20. \A d, d2 \in Entry : d # d2 /\ first2[d] # Null => first2[d] # first2[d2]
  BY <1>14 DEF ListInv
<1>21. ASSUME NEW c \in Block, nx2[c] # Null
       PROVE  bt2[nx2[c]] = bt2[c]
  <2>1. CASE c = last
    BY <1>2, <1>4, <1>9, <1>10, <1>13, <1>21, <2>1, BlockFacts DEF ListInv
  <2>2. CASE c # last
    <3>1. nx2[c] = nx[c] /\ nx[c] \in Block
      BY <1>9, <1>21, <2>2, BlockFacts DEF NextFunction
    <3>2. nx[c] \in C <=> c \in C
      BY <1>7, <1>8, <1>21, <3>1
    <3> QED BY <1>10, <1>21, <3>1, <3>2 DEF ListInv
  <2> QED BY <2>1, <2>2
<1>22. ListInv(nx2, bt2, b, first2, Null)
  BY <1>15, <1>16, <1>17, <1>18, <1>19, <1>20, <1>21 DEF ListInv
<1> QED BY <1>11, <1>12, <1>22 DEF nx2, bt2, first2

(***************************************************************************)
(* A newly allocated chain becomes a file, is attached to the end of one,  *)
(* or is lost.                                                             *)
(***************************************************************************)
LEMMA NewFileKeepsLists ==
  ASSUME NEW nx, NEW bt, NEW fr, NEW first \in FirstFunction, NEW spare \in Block,
         ListInv(nx, bt, fr, first, spare),
         NEW e \in Entry, first[e] = Null
  PROVE  ListInv(nx, bt, fr, [first EXCEPT ![e] = spare], Null)
BY BlockFacts DEF ListInv, FirstFunction, NoPredecessor

LEMMA AttachKeepsLists ==
  ASSUME NEW nx \in NextFunction, NEW bt, NEW fr, NEW first, NEW spare \in Block,
         ListInv(nx, bt, fr, first, spare),
         NEW tail \in Block, nx[tail] = Null, bt[tail] = "file"
  PROVE  /\ [nx EXCEPT ![tail] = spare] \in NextFunction
         /\ ListInv([nx EXCEPT ![tail] = spare], bt, fr, first, Null)
<1> DEFINE nx2 == [nx EXCEPT ![tail] = spare]
<1>1. nx2 = [c \in Block |-> IF c = tail THEN spare ELSE nx[c]]
  BY DEF NextFunction
<1>2. nx2 \in NextFunction /\ spare # Null
  BY BlockFacts DEF NextFunction
<1> HIDE DEF nx2
<1>3. NextInjective(nx2)
  BY <1>1, <1>2 DEF ListInv, NextInjective, NoPredecessor
<1>4. NoPredecessor(nx2, fr) /\ NoPredecessor(nx2, Null)
  BY <1>1, <1>2 DEF ListInv, NoPredecessor
<1>5. \A e \in Entry : NoPredecessor(nx2, first[e])
  BY <1>1, <1>2 DEF ListInv, NoPredecessor
<1>6. \A b \in Block : nx2[b] # Null => bt[nx2[b]] = bt[b]
  BY <1>1, <1>2 DEF ListInv
<1>7. ListInv(nx2, bt, fr, first, Null)
  BY <1>3, <1>4, <1>5, <1>6 DEF ListInv
<1> QED BY <1>2, <1>7 DEF nx2

LEMMA LostKeepsLists ==
  ASSUME NEW nx, NEW bt, NEW fr, NEW first, NEW spare,
         ListInv(nx, bt, fr, first, spare)
  PROVE  ListInv(nx, bt, fr, first, Null)
BY DEF ListInv, NoPredecessor

------------------------------------------------------------------------------
(***************************************************************************)
(* Arithmetic of positions.                                                *)
(***************************************************************************)
LEMMA Division ==
  ASSUME NEW a \in Nat
  PROVE  /\ a \div BlockDataSize \in Nat
         /\ a % BlockDataSize \in Offset
         /\ a = BlockDataSize * (a \div BlockDataSize) + (a % BlockDataSize)
<1>1. BlockDataSize \in Nat \ {0}
  BY GeometryAssumption
<1>2. a \div BlockDataSize \in Nat
  BY <1>1
<1>3. a % BlockDataSize \in Offset
  BY <1>1 DEF Offset
<1>4. a = BlockDataSize * (a \div BlockDataSize) + (a % BlockDataSize)
  BY <1>1
<1> QED BY <1>2, <1>3, <1>4

LEMMA DivisionMonotone ==
  ASSUME NEW a \in Nat, NEW b \in Nat, a <= b
  PROVE  a \div BlockDataSize <= b \div BlockDataSize
BY GeometryAssumption

LEMMA DivisionNextBlock ==
  ASSUME NEW a \in Nat
  PROVE  (a + BlockDataSize) \div BlockDataSize = 1 + a \div BlockDataSize
BY GeometryAssumption

LEMMA RoundUpFacts ==
  ASSUME NEW a \in Nat
  PROVE  /\ RoundUp(a) \in Nat
         /\ a <= RoundUp(a)
         /\ (a % BlockDataSize) + (RoundUp(a) - a) <= BlockDataSize
<1> DEFINE up == a + BlockDataSize - 1
           q  == up \div BlockDataSize
           r  == up % BlockDataSize
<1>1. BlockDataSize \in Nat \ {0} /\ up \in Nat
  BY GeometryAssumption
<1>2. CASE a = 0
  <2>1. RoundUp(a) = BlockDataSize * (BlockDataSize \div BlockDataSize)
    BY <1>1, <1>2 DEF RoundUp
  <2>2. BlockDataSize \div BlockDataSize = 1 /\ 0 % BlockDataSize = 0
    BY <1>1
  <2> QED BY <1>1, <1>2, <2>1, <2>2
<1>3. CASE a # 0
  <2>1. RoundUp(a) = BlockDataSize * q
    BY <1>3 DEF RoundUp
  <2>2. up = BlockDataSize * q + r /\ q \in Nat /\ r \in Nat /\ r < BlockDataSize
    BY <1>1, Division DEF Offset
  <2>3. a <= RoundUp(a) /\ RoundUp(a) \in Nat
    <3>1. BlockDataSize * q \in Nat
      BY <1>1, <2>2
    <3> QED BY <1>1, <2>1, <2>2, <3>1
  <2> DEFINE p == a \div BlockDataSize
  <2>4. q <= p + 1
    BY <1>1, DivisionMonotone, DivisionNextBlock
  <2>5. a = BlockDataSize * p + (a % BlockDataSize) /\ p \in Nat
    BY Division
  <2>6. BlockDataSize * q <= BlockDataSize * p + BlockDataSize
    BY <1>1, <2>2, <2>4, <2>5
  <2>7. (a % BlockDataSize) \in Nat
    BY Division DEF Offset
  <2> HIDE DEF p, q
  <2>8. BlockDataSize * q \in Nat /\ BlockDataSize * p \in Nat
    BY <1>1, <2>2, <2>5
  <2> QED BY <1>1, <2>1, <2>3, <2>5, <2>6, <2>7, <2>8
<1> QED BY <1>2, <1>3

LEMMA LowestIn ==
  ASSUME NEW S \in SUBSET Nat, S # {}
  PROVE  Lowest(S) \in S
<1> DEFINE Less == {ss \in Nat \X Nat : ss[1] < ss[2]}
<1>1. IsWellFoundedOn(Less, Nat)
  BY NatLessThanWellFounded DEF OpToRel
<1>2. PICK x \in S : \A y \in S : ~ (<<y, x>> \in Less)
  <2> HIDE DEF Less
  <2> QED BY <1>1, WFMin
<1>3. ASSUME NEW y \in S PROVE x <= y
  <2>1. <<y, x>> \notin Less /\ x \in Nat /\ y \in Nat
    BY <1>2
  <2> QED BY <2>1
<1> QED BY <1>3 DEF Lowest

(***************************************************************************)
(* The copying loop stays on its path and inside the blocks.               *)
(***************************************************************************)
LEMMA TransferInBounds ==
  ASSUME NEW pos \in Nat, NEW n \in Nat
  PROVE  /\ HopsFor(pos, n) \in Nat
         /\ \A k \in 0 .. n - 1 : /\ HopOf(pos, n, k) \in 0 .. HopsFor(pos, n)
                                  /\ OffsetOf(pos, n, k) \in Offset
<1> DEFINE F == FirstChunk(pos, n)
<1>1. BlockDataSize \in Nat \ {0}
  BY GeometryAssumption
<1>2. /\ F \in 0 .. n
      /\ (pos % BlockDataSize) + F <= BlockDataSize
  <2>1. /\ RoundUp(pos) - pos \in Nat
        /\ (pos % BlockDataSize) + (RoundUp(pos) - pos) <= BlockDataSize
    BY RoundUpFacts
  <2>2. pos % BlockDataSize \in Nat
    BY Division DEF Offset
  <2> QED BY <1>1, <2>1, <2>2 DEF FirstChunk, SizeMin
<1> DEFINE rest == n - F + BlockDataSize - 1
<1>3. HopsFor(pos, n) = rest \div BlockDataSize /\ rest \in Nat
  BY <1>1, <1>2 DEF HopsFor
<1>4. HopsFor(pos, n) \in Nat
  BY <1>3, Division
<1>5. ASSUME NEW k \in 0 .. n - 1
      PROVE  /\ HopOf(pos, n, k) \in 0 .. HopsFor(pos, n)
             /\ OffsetOf(pos, n, k) \in Offset
  <2>1. CASE k < F
    <3>1. HopOf(pos, n, k) = 0
      BY <2>1 DEF HopOf
    <3>2. OffsetOf(pos, n, k) = (pos % BlockDataSize) + k
      BY <2>1 DEF OffsetOf
    <3>3. pos % BlockDataSize \in Nat
      BY Division DEF Offset
    <3> HIDE DEF F
    <3>4. OffsetOf(pos, n, k) \in Offset
      BY <1>1, <1>2, <2>1, <3>2, <3>3 DEF Offset
    <3> QED BY <1>4, <3>1, <3>4
  <2>2. CASE ~ (k < F)
    <3> DEFINE j == k - F
    <3>1. j \in Nat /\ j + BlockDataSize <= rest /\ j + BlockDataSize \in Nat
      BY <1>1, <1>2, <2>2
    <3>2. HopOf(pos, n, k) = 1 + j \div BlockDataSize
      BY <2>2 DEF HopOf
    <3>3. OffsetOf(pos, n, k) = j % BlockDataSize
      BY <2>2 DEF OffsetOf
    <3> HIDE DEF j, rest, F
    <3>4. 1 + j \div BlockDataSize <= HopsFor(pos, n)
      BY <1>3, <3>1, DivisionNextBlock, DivisionMonotone
    <3>5. j \div BlockDataSize \in Nat /\ j % BlockDataSize \in Offset
      BY <3>1, Division
    <3> QED BY <1>4, <3>2, <3>3, <3>4, <3>5
  <2> QED BY <2>1, <2>2
<1> QED BY <1>4, <1>5

-----------------------------------------------------------------------------
(***************************************************************************)
(* The inductive invariant: the types, the lists of the disk (spare chains *)
(* exist within a call only), and the reference counts: without them the   *)
(* count that sfs_close decreases might be 0.                              *)
(***************************************************************************)
Firsts == [e \in Entry |-> dir[e].first]

ListsOK == ListInv(next, btype, freelist, Firsts, Null)

IInv == TypeOK /\ ListsOK /\ RefCountsExact

\* Its parts, as the calls change them.
Users(table, e) == {fd \in Fd : table[fd] # NoDesc /\ table[fd].entry = e}

DirEntry == [first : BlockId, size : Nat, name : Names \cup {NoName}]

DiskOK ==
  /\ freelist \in BlockId
  /\ next \in NextFunction
  /\ prev \in NextFunction
  /\ btype \in TypeFunction
  /\ data \in [Block -> [Offset -> Bytes]]
  /\ dir \in [Entry -> DirEntry]
  /\ ListsOK

TablesOK ==
  /\ openFile \in [Entry -> OpenInfo]
  /\ fds \in [Fd -> Desc \cup {NoDesc}]
  /\ \A e \in Entry : openFile[e].refCount = Cardinality(Users(fds, e))

ReplyOK ==
  /\ status \in {"running", "aborted"}
  /\ ret \in [code : Code, val : Nat, buf : Seq(Bytes)]

LEMMA IInvParts == IInv <=> DiskOK /\ mounted \in BOOLEAN /\ TablesOK /\ ReplyOK
BY DEF IInv, TypeOK, DiskOK, TablesOK, ReplyOK, DirEntry, NextFunction, TypeFunction,
       RefCountsExact, Users

LEMMA IInvPartsNext ==
  IInv' <=> DiskOK' /\ (mounted \in BOOLEAN)' /\ TablesOK' /\ ReplyOK'
BY DEF IInv, TypeOK, DiskOK, TablesOK, ReplyOK, DirEntry, NextFunction, TypeFunction,
       RefCountsExact, Users

LEMMA DiskUnchanged ==
  ASSUME DiskOK, UNCHANGED diskVars
  PROVE  DiskOK'
BY DEF DiskOK, diskVars, ListsOK, Firsts

LEMMA TablesUnchanged ==
  ASSUME TablesOK, UNCHANGED <<openFile, fds>>
  PROVE  TablesOK'
BY DEF TablesOK, Users

\* One slot of the descriptor table is taken, given back, or moved.
LEMMA UsersAdd ==
  ASSUME NEW table \in [Fd -> Desc \cup {NoDesc}], NEW f \in Fd, table[f] = NoDesc,
         NEW d \in Desc, NEW e \in Entry
  PROVE  Cardinality(Users([table EXCEPT ![f] = d], e)) =
           Cardinality(Users(table, e)) + (IF e = d.entry THEN 1 ELSE 0)
<1> DEFINE after == Users([table EXCEPT ![f] = d], e)
<1>1. IsFiniteSet(Users(table, e)) /\ Cardinality(Users(table, e)) \in Nat
  <2>1. IsFiniteSet(Fd) /\ Users(table, e) \subseteq Fd
    BY FS_Interval, ClientAssumption DEF Fd, Users
  <2> QED BY <2>1, FS_Subset, FS_CardinalityType
<1>2. f \notin Users(table, e)
  BY DEF Users
<1>3. CASE e = d.entry
  <2>1. after = Users(table, e) \cup {f}
    BY <1>3, NoDescAssumption DEF Users
  <2> QED BY <1>1, <1>2, <1>3, <2>1, FS_AddElement
<1>4. CASE e # d.entry
  <2>1. after = Users(table, e)
    BY <1>4, NoDescAssumption DEF Users
  <2> QED BY <1>1, <1>4, <2>1
<1> QED BY <1>3, <1>4

LEMMA UsersRemove ==
  ASSUME NEW table \in [Fd -> Desc \cup {NoDesc}], NEW f \in Fd, table[f] # NoDesc,
         NEW e \in Entry
  PROVE  /\ Cardinality(Users(table, e)) \in Nat
         /\ e = table[f].entry => Cardinality(Users(table, e)) # 0
         /\ Cardinality(Users([table EXCEPT ![f] = NoDesc], e)) =
              Cardinality(Users(table, e)) - (IF e = table[f].entry THEN 1 ELSE 0)
<1> DEFINE after == Users([table EXCEPT ![f] = NoDesc], e)
<1>1. IsFiniteSet(Users(table, e)) /\ Cardinality(Users(table, e)) \in Nat
  <2>1. IsFiniteSet(Fd) /\ Users(table, e) \subseteq Fd
    BY FS_Interval, ClientAssumption DEF Fd, Users
  <2> QED BY <2>1, FS_Subset, FS_CardinalityType
<1>2. CASE e = table[f].entry
  <2>1. after = Users(table, e) \ {f} /\ f \in Users(table, e)
    BY <1>2 DEF Users
  <2>2. Cardinality(after) = Cardinality(Users(table, e)) - 1
    <3> HIDE DEF after
    <3> QED BY <1>1, <2>1, FS_RemoveElement
  <2>3. Cardinality(Users(table, e)) # 0
    BY <1>1, <2>1, FS_EmptySet
  <2> QED BY <1>1, <1>2, <2>2, <2>3
<1>3. CASE e # table[f].entry
  <2>1. after = Users(table, e)
    BY <1>3 DEF Users
  <2> QED BY <1>1, <1>3, <2>1
<1> QED BY <1>2, <1>3

\* A transfer or a seek moves a descriptor within its file.
LEMMA MoveKeepsTables ==
  ASSUME TablesOK, NEW fd \in Fd, fds[fd] # NoDesc, NEW d \in Desc,
         d.entry = fds[fd].entry, fds' = [fds EXCEPT ![fd] = d], UNCHANGED openFile
  PROVE  TablesOK'
<1>1. fds \in [Fd -> Desc \cup {NoDesc}] /\ fds' \in [Fd -> Desc \cup {NoDesc}]
  BY DEF TablesOK
<1>2. ASSUME NEW e \in Entry
      PROVE  Users(fds', e) = Users(fds, e)
  <2>1. ASSUME NEW g \in Fd
        PROVE  fds'[g] # NoDesc /\ fds'[g].entry = e
                 <=> fds[g] # NoDesc /\ fds[g].entry = e
    <3>1. CASE g = fd
      BY <1>1, <3>1, NoDescAssumption
    <3>2. CASE g # fd
      BY <1>1, <3>2
    <3> QED BY <3>1, <3>2
  <2> QED BY <2>1 DEF Users
<1>3. \A e \in Entry : openFile'[e].refCount = Cardinality(Users(fds', e))
  BY <1>2 DEF TablesOK
<1> QED BY <1>1, <1>3 DEF TablesOK, Users

\* A call that ends with a code, dead or alive, or with a number.
LEMMA FailReply ==
  ASSUME ReplyOK, NEW c \in Code, Fail(c), status' \in {status, "aborted"}
  PROVE  ReplyOK'
BY DEF ReplyOK, Fail

LEMMA ReturnReply ==
  ASSUME ReplyOK, NEW v \in Nat, NEW b \in Seq(Bytes), Return(v, b),
         UNCHANGED status
  PROVE  ReplyOK'
BY DEF ReplyOK, Return, Code

LEMMA FailKeepsIInv ==
  ASSUME IInv, NEW c \in Code, FailUnchanged(c)
  PROVE  IInv'
<1>1. Fail(c) /\ UNCHANGED diskVars /\ UNCHANGED memVars /\ UNCHANGED status
  BY DEF FailUnchanged
<1>2. DiskOK' /\ TablesOK' /\ ReplyOK'
  BY <1>1, IInvParts, DiskUnchanged, TablesUnchanged, FailReply DEF memVars
<1> QED BY <1>1, <1>2, IInvParts, IInvPartsNext DEF memVars

LEMMA AbortKeepsIInv ==
  ASSUME IInv, Abort, UNCHANGED <<diskVars, memVars>>
  PROVE  IInv'
<1>1. DiskOK' /\ TablesOK'
  BY IInvParts, DiskUnchanged, TablesUnchanged DEF memVars
<1>2. ReplyOK'
  BY IInvParts, FailReply DEF Abort, Code
<1> QED BY <1>1, <1>2, IInvParts, IInvPartsNext DEF memVars

-----------------------------------------------------------------------------
\* A formatted disk has one list, of all its blocks.
LEMMA FormattedDisk ==
  ASSUME freelist = 1, next = FormattedNext, prev = FormattedPrev,
         btype = [b \in Block |-> "free"],
         data = [b \in Block |-> [o \in Offset |-> ZeroByte]],
         dir = FormattedDir
  PROVE  DiskOK
<1>1. 1 \in Block
  BY GeometryAssumption DEF Block
<1>2. next \in NextFunction /\ prev \in NextFunction
  BY GeometryAssumption
     DEF NextFunction, FormattedNext, FormattedPrev, Block, BlockId, Null
<1>3. btype \in TypeFunction /\ data \in [Block -> [Offset -> Bytes]]
  BY ClientAssumption DEF TypeFunction, BlockType
<1>4. dir \in [Entry -> DirEntry]
  BY DEF FormattedDir, UnusedEntry, DirEntry, BlockId
<1>5. \A e \in Entry : Firsts[e] = Null
  BY DEF Firsts, FormattedDir, UnusedEntry
<1>6. \A b \in Block : next[b] = IF b + 1 = NBlocks THEN Null ELSE b + 1
  BY DEF FormattedNext
<1>7. NextInjective(next) /\ NoPredecessor(next, 1) /\ NoPredecessor(next, Null)
  BY <1>6, GeometryAssumption DEF NextInjective, NoPredecessor, Block, Null
<1>8. \A b \in Block : next[b] # Null => btype[next[b]] = btype[b]
  BY <1>2, BlockFacts DEF NextFunction
<1>9. ListsOK
  BY <1>1, <1>5, <1>7, <1>8 DEF ListsOK, ListInv
<1> QED BY <1>1, <1>2, <1>3, <1>4, <1>9, BlockFacts DEF DiskOK

LEMMA EmptySequence == <<>> \in Seq(Bytes)
OBVIOUS

LEMMA EmptyTables ==
  ASSUME openFile = [e \in Entry |-> ClosedEntry], fds = [f \in Fd |-> NoDesc]
  PROVE  TablesOK
<1>1. \A e \in Entry : Users(fds, e) = {}
  BY DEF Users
<1>2. \A e \in Entry : openFile[e] \in OpenInfo /\ openFile[e].refCount = 0
  BY DEF ClosedEntry, OpenInfo
<1> QED BY <1>1, <1>2, FS_EmptySet DEF TablesOK

LEMMA InitIInv == Init => IInv
<1>1. SUFFICES ASSUME Init PROVE IInv
  OBVIOUS
<1>2. DiskOK
  BY <1>1, FormattedDisk DEF Init
<1>3. TablesOK
  BY <1>1, EmptyTables DEF Init
<1>4. ReplyOK
  BY <1>1, EmptySequence DEF Init, ReplyOK, Code
<1> QED BY <1>1, <1>2, <1>3, <1>4, IInvParts DEF Init

\* Mount, unmount, format and restart.
LEMMA MapTables ==
  ASSUME TablesOK, MapImage, UNCHANGED fds
  PROVE  TablesOK' /\ mounted'
<1>1. PICK again \in SUBSET {e \in Entry : InUse(e)} :
        openFile' = [e \in Entry |-> [openFile[e] EXCEPT !.mapped = e \in again]]
  BY DEF MapImage
<1>2. \A e \in Entry : openFile[e] \in OpenInfo
  BY DEF TablesOK
<1>3. \A e \in Entry : (e \in again) \in BOOLEAN
  OBVIOUS
<1>4. \A e \in Entry : [openFile[e] EXCEPT !.mapped = e \in again] \in OpenInfo
  BY <1>2, <1>3 DEF OpenInfo
<1>5. openFile' \in [Entry -> OpenInfo]
  BY <1>1, <1>4
<1>6. \A e \in Entry : openFile'[e].refCount = openFile[e].refCount
  BY <1>1, <1>2 DEF OpenInfo
<1> QED BY <1>5, <1>6 DEF TablesOK, Users, MapImage

LEMMA MountIInv ==
  ASSUME IInv, Mount PROVE IInv'
<1>1. CASE mounted /\ FailUnchanged("EBUSY")
  BY <1>1, FailKeepsIInv DEF Code
<1>2. CASE ~ (mounted /\ FailUnchanged("EBUSY"))
  <2>1. /\ MapImage /\ UNCHANGED fds
        /\ UNCHANGED diskVars /\ UNCHANGED status /\ Return(0, <<>>)
    BY <1>2 DEF Mount
  <2>2. TablesOK' /\ mounted'
    BY <2>1, IInvParts, MapTables
  <2>3. mounted' = TRUE
    BY <2>1 DEF MapImage
  <2> QED BY <2>1, <2>2, <2>3, IInvParts, IInvPartsNext, DiskUnchanged, ReturnReply,
             EmptySequence
<1> QED BY <1>1, <1>2

LEMMA UnmountIInv ==
  ASSUME IInv, Unmount PROVE IInv'
<1>1. TablesOK'
  BY IInvParts DEF Unmount, TablesOK, OpenInfo, Users
<1>2. DiskOK' /\ ReplyOK'
  BY IInvParts, DiskUnchanged, ReturnReply, EmptySequence DEF Unmount
<1> QED BY <1>1, <1>2, IInvPartsNext DEF Unmount

LEMMA FormatIInv ==
  ASSUME IInv, Format PROVE IInv'
<1>1. CASE mounted /\ FailUnchanged("EBUSY")
  BY <1>1, FailKeepsIInv DEF Code
<1>2. CASE ~ (mounted /\ FailUnchanged("EBUSY"))
  <2>1. DiskOK'
    <3>1. (freelist = 1)' /\ (next = FormattedNext)' /\ (prev = FormattedPrev)'
      BY <1>2 DEF Format, FormattedNext, FormattedPrev
    <3>2. /\ (btype = [b \in Block |-> "free"])'
          /\ (data = [b \in Block |-> [o \in Offset |-> ZeroByte]])'
          /\ (dir = FormattedDir)'
      BY <1>2 DEF Format, FormattedDir, UnusedEntry
    <3> QED BY <3>1, <3>2, FormattedDisk, PTL
  <2>2. /\ MapImage /\ UNCHANGED fds
        /\ UNCHANGED status /\ Return(0, <<>>)
    BY <1>2 DEF Format
  <2>3. TablesOK' /\ ReplyOK'
    BY <2>2, IInvParts, MapTables, ReturnReply, EmptySequence
  <2>4. mounted' = TRUE
    BY <2>2 DEF MapImage
  <2> QED BY <2>1, <2>3, <2>4, IInvPartsNext
<1> QED BY <1>1, <1>2

LEMMA RestartIInv ==
  ASSUME IInv, Restart PROVE IInv'
<1>1. TablesOK'
  <2>1. (openFile = [e \in Entry |-> ClosedEntry])' /\ (fds = [f \in Fd |-> NoDesc])'
    BY DEF Restart, ClosedEntry
  <2> QED BY <2>1, EmptyTables, PTL
<1>2. ReplyOK'
  BY EmptySequence DEF Restart, Return, ReplyOK, Code
<1>3. DiskOK'
  BY IInvParts, DiskUnchanged DEF Restart
<1> QED BY <1>1, <1>2, <1>3, IInvPartsNext DEF Restart

-----------------------------------------------------------------------------
\* sfs_open.
LEMMA OpenFileEntryOK ==
  ASSUME TablesOK, ReplyOK, NEW e \in Entry, NEW b \in Block,
         AddOpenFileEntry(e, b)
  PROVE  TablesOK' /\ ReplyOK'
<1>1. CASE Fail("EMFILE") /\ UNCHANGED <<openFile, fds, status>>
  BY <1>1, TablesUnchanged, FailReply DEF Code
<1>2. CASE Fail("ENOMEM") /\ UNCHANGED <<openFile, fds, status>>
  BY <1>2, TablesUnchanged, FailReply DEF Code
<1>3. CASE Abort /\ UNCHANGED <<openFile, fds>>
  BY <1>3, TablesUnchanged, FailReply DEF Code, Abort
<1>4. CASE /\ FreeFds # {}
           /\ LET f == Lowest(FreeFds) IN
                /\ fds' = [fds EXCEPT ![f] = [entry |-> e, curr |-> b, pos |-> 0]]
                /\ Return(f, <<>>)
           /\ openFile' = [openFile EXCEPT ![e] =
                             [refCount |-> @.refCount + 1, mapped |-> TRUE]]
           /\ UNCHANGED status
  <2> DEFINE f == Lowest(FreeFds)
  <2>1. f \in Fd /\ f \in Nat
    <3>1. FreeFds \in SUBSET Nat /\ FreeFds \subseteq Fd /\ Fd \subseteq Nat
      BY ClientAssumption DEF FreeFds, Fd
    <3> QED BY <1>4, <3>1, LowestIn
  <2> HIDE DEF f
  <2>2. /\ fds' = [fds EXCEPT ![f] = [entry |-> e, curr |-> b, pos |-> 0]]
        /\ Return(f, <<>>)
        /\ openFile' = [openFile EXCEPT ![e] =
                          [refCount |-> @.refCount + 1, mapped |-> TRUE]]
        /\ UNCHANGED status
    BY <1>4 DEF f
  <2>3. ReplyOK'
    BY <2>1, <2>2, ReturnReply, EmptySequence
  <2>4. [entry |-> e, curr |-> b, pos |-> 0] \in Desc
    BY DEF Desc
  <2>5. [refCount |-> openFile[e].refCount + 1, mapped |-> TRUE] \in OpenInfo
    BY DEF TablesOK, OpenInfo
  <2>6. openFile' \in [Entry -> OpenInfo] /\ fds' \in [Fd -> Desc \cup {NoDesc}]
    BY <2>2, <2>4, <2>5 DEF TablesOK
  <2>7. fds[f] = NoDesc
    <3>1. FreeFds \in SUBSET Nat
      BY ClientAssumption DEF FreeFds, Fd
    <3>2. f \in FreeFds
      BY <1>4, <3>1, LowestIn DEF f
    <3> QED BY <3>2 DEF FreeFds
  <2>8. ASSUME NEW x \in Entry
        PROVE  openFile'[x].refCount = Cardinality(Users(fds', x))
    <3>1. openFile[x].refCount = Cardinality(Users(fds, x))
          /\ openFile[x] \in OpenInfo
      BY DEF TablesOK
    <3>2. Cardinality(Users(fds', x)) =
            Cardinality(Users(fds, x)) + (IF x = e THEN 1 ELSE 0)
      <4> DEFINE d == [entry |-> e, curr |-> b, pos |-> 0]
      <4>1. d \in Desc /\ d.entry = e /\ fds' = [fds EXCEPT ![f] = d]
        BY <2>2, <2>4
      <4>2. fds \in [Fd -> Desc \cup {NoDesc}]
        BY DEF TablesOK
      <4> HIDE DEF d
      <4>3. Cardinality(Users([fds EXCEPT ![f] = d], x)) =
              Cardinality(Users(fds, x)) + (IF x = d.entry THEN 1 ELSE 0)
        BY <2>1, <2>7, <4>1, <4>2, UsersAdd
      <4> QED BY <4>1, <4>3
    <3>3. openFile'[x].refCount = openFile[x].refCount + (IF x = e THEN 1 ELSE 0)
      <4>1. CASE x = e
        BY <2>2, <4>1 DEF TablesOK
      <4>2. CASE x # e
        BY <2>2, <3>1, <4>2 DEF TablesOK, OpenInfo
      <4> QED BY <4>1, <4>2
    <3> QED BY <3>1, <3>2, <3>3
  <2>9. TablesOK'
    BY <2>6, <2>8 DEF TablesOK, Users
  <2> QED BY <2>3, <2>9
<1> QED BY <1>1, <1>2, <1>3, <1>4 DEF AddOpenFileEntry

LEMMA NamedIn ==
  ASSUME NEW name, Named(name) # {}
  PROVE  /\ Lowest(Named(name)) \in Entry
         /\ Live(Lowest(Named(name)))
<1>1. Named(name) \in SUBSET Nat
  BY GeometryAssumption DEF Named, Entry
<1>2. Lowest(Named(name)) \in Named(name)
  BY <1>1, LowestIn
<1> QED BY <1>2 DEF Named

LEMMA FirstTypes ==
  ASSUME DiskOK
  PROVE  /\ Firsts \in FirstFunction
         /\ \A e \in Entry : /\ Firsts[e] = dir[e].first
                             /\ dir[e].first \in BlockId
                             /\ Live(e) => dir[e].first \in Block
BY BlockFacts DEF DiskOK, DirEntry, Firsts, FirstFunction, Live

LEMMA CreateFileIInv ==
  ASSUME IInv, mounted, NEW name \in Names, CreateFile(name)
  PROVE  IInv'
<1> DEFINE e   == Lowest(Unused)
           run == AllocatedRun(next, freelist, 1)
<1>1. DiskOK /\ TablesOK /\ ReplyOK
  BY IInvParts
<1>2. e \in Entry /\ dir[e].first = Null
  <2>1. Unused \in SUBSET Nat /\ Unused # {}
    BY GeometryAssumption DEF Unused, Entry, CreateFile
  <2>2. e \in Unused
    BY <2>1, LowestIn
  <2> QED BY <2>2 DEF Unused, Live
<1>3. /\ next \in NextFunction /\ btype \in TypeFunction /\ freelist \in BlockId
      /\ prev \in NextFunction
      /\ Firsts \in FirstFunction
      /\ ListInv(next, btype, freelist, Firsts, Null)
  BY <1>1, FirstTypes DEF DiskOK, ListsOK
<1> HIDE DEF e
<1>4. /\ run # {}
      /\ freelist' = FreeAfterAllocate(next, freelist, run)
      /\ next' = NextAfterAllocate(next, run)
      /\ prev' = PrevAfterAllocate(next, prev, run)
      /\ btype' = TypeAfterAllocate(btype, run)
      /\ dir' = [dir EXCEPT ![e] = [first |-> freelist, size |-> 0, name |-> name]]
      /\ AddOpenFileEntry(e, freelist)
      /\ UNCHANGED <<data, mounted>>
  BY DEF CreateFile, e
<1> HIDE DEF run
<1>5. /\ next' \in NextFunction /\ btype' \in TypeFunction
      /\ freelist' \in BlockId /\ freelist \in Block
      /\ ListInv(next', btype', freelist', Firsts, freelist)
  BY <1>3, <1>4, AllocateKeepsLists DEF run
<1>6. prev' \in NextFunction
  BY <1>3, <1>4, BlockFacts DEF PrevAfterAllocate, NextFunction
<1>7. dir' \in [Entry -> DirEntry]
  BY <1>1, <1>4, <1>5, BlockFacts DEF DiskOK, DirEntry
<1>8. Firsts' = [Firsts EXCEPT ![e] = freelist]
  BY <1>1, <1>2, <1>4 DEF Firsts, DiskOK, DirEntry
<1>9. ListInv(next', btype', freelist', [Firsts EXCEPT ![e] = freelist], Null)
  BY <1>2, <1>3, <1>5, FirstTypes, <1>1, NewFileKeepsLists
<1>10. ListsOK'
  BY <1>8, <1>9 DEF ListsOK
<1>11. DiskOK'
  BY <1>1, <1>4, <1>5, <1>6, <1>7, <1>10 DEF DiskOK
<1>12. TablesOK' /\ ReplyOK'
  BY <1>1, <1>2, <1>4, <1>5, OpenFileEntryOK
<1> QED BY <1>4, <1>11, <1>12, IInvParts, IInvPartsNext

LEMMA OpenIInv ==
  ASSUME IInv, NEW name \in Names, Open(name)
  PROVE  IInv'
<1>1. CASE \E c \in {"ENAMETOOLONG", "ENOMEDIUM", "ENOSPC"} : FailUnchanged(c)
  BY <1>1, FailKeepsIInv DEF Code
<1>2. CASE OpenExisting(name)
  <2>1. DiskOK' /\ UNCHANGED mounted
    BY <1>2, IInvParts, DiskUnchanged DEF OpenExisting
  <2>2. TablesOK' /\ ReplyOK'
    BY <1>2, IInvParts, NamedIn, FirstTypes, OpenFileEntryOK DEF OpenExisting
  <2> QED BY <2>1, <2>2, IInvParts, IInvPartsNext
<1>3. CASE mounted /\ CreateFile(name)
  BY <1>3, CreateFileIInv
<1>4. CASE CreateAborts(name)
  BY <1>4, AbortKeepsIInv DEF CreateAborts
<1> QED BY <1>1, <1>2, <1>3, <1>4 DEF Open, CreateNoSpace

\* sfs_close, sfs_getpos, sfs_seek.
LEMMA CloseIInv ==
  ASSUME IInv, NEW fd \in Fd, Close(fd)
  PROVE  IInv'
<1>1. DiskOK' /\ UNCHANGED mounted /\ ReplyOK'
  BY IInvParts, DiskUnchanged, ReturnReply, EmptySequence DEF Close
<1>2. TablesOK'
  <2>1. CASE fds[fd] = NoDesc
    BY <2>1, IInvParts, TablesUnchanged DEF Close
  <2>2. CASE fds[fd] # NoDesc
    <3> DEFINE e == fds[fd].entry
    <3>1. e \in Entry /\ TablesOK
      BY <2>2, IInvParts DEF TablesOK, Desc
    <3>2. /\ fds' = [fds EXCEPT ![fd] = NoDesc]
          /\ openFile' = [openFile EXCEPT ![e] =
                 IF @.refCount = 1 THEN ClosedEntry
                 ELSE [refCount |-> @.refCount - 1, mapped |-> @.mapped]]
      BY <2>2 DEF Close
    <3>3. ASSUME NEW x \in Entry
          PROVE  /\ Cardinality(Users(fds', x)) =
                      Cardinality(Users(fds, x)) - (IF x = e THEN 1 ELSE 0)
                 /\ Cardinality(Users(fds, x)) \in Nat
                 /\ x = e => Cardinality(Users(fds, x)) # 0
                 /\ Cardinality(Users(fds, x)) = openFile[x].refCount
                 /\ openFile[x] \in OpenInfo
      <4>1. fds \in [Fd -> Desc \cup {NoDesc}]
        BY <3>1 DEF TablesOK
      <4>2. /\ Cardinality(Users([fds EXCEPT ![fd] = NoDesc], x)) =
                 Cardinality(Users(fds, x)) - (IF x = fds[fd].entry THEN 1 ELSE 0)
            /\ Cardinality(Users(fds, x)) \in Nat
            /\ x = fds[fd].entry => Cardinality(Users(fds, x)) # 0
        BY <2>2, <4>1, UsersRemove
      <4> QED BY <3>1, <3>2, <4>2 DEF TablesOK
    <3>0. openFile \in [Entry -> OpenInfo]
      BY <3>1 DEF TablesOK
    <3> HIDE DEF e
    <3>4. ASSUME NEW x \in Entry
          PROVE  /\ openFile'[x] \in OpenInfo
                 /\ openFile'[x].refCount = Cardinality(Users(fds', x))
      <4>1. CASE x = e
        <5>1. openFile'[x] = IF openFile[x].refCount = 1 THEN ClosedEntry
                             ELSE [refCount |-> openFile[x].refCount - 1,
                                   mapped |-> openFile[x].mapped]
          BY <3>0, <3>1, <3>2, <4>1
        <5>2. CASE openFile[x].refCount = 1
          <6>1. Cardinality(Users(fds', x)) = 0 /\ openFile'[x] = ClosedEntry
            BY <3>3, <4>1, <5>1, <5>2
          <6> QED BY <6>1 DEF ClosedEntry, OpenInfo
        <5>3. CASE openFile[x].refCount # 1
          <6>1. /\ openFile[x].refCount \in Nat /\ openFile[x].refCount # 0
                /\ Cardinality(Users(fds', x)) = openFile[x].refCount - 1
            BY <3>3, <4>1
          <6>2. /\ openFile'[x] \in OpenInfo
                /\ openFile'[x].refCount = openFile[x].refCount - 1
            BY <3>3, <5>1, <5>3, <6>1 DEF OpenInfo
          <6> QED BY <6>1, <6>2
        <5> QED BY <5>2, <5>3
      <4>2. CASE x # e
        <5>1. openFile'[x] = openFile[x]
          BY <3>0, <3>1, <3>2, <4>2
        <5> QED BY <3>3, <4>2, <5>1
      <4> QED BY <4>1, <4>2
    <3>5. openFile' \in [Entry -> OpenInfo] /\ fds' \in [Fd -> Desc \cup {NoDesc}]
      BY <3>1, <3>2, <3>4 DEF TablesOK
    <3> QED BY <3>4, <3>5 DEF TablesOK, Users
  <2> QED BY <2>1, <2>2
<1> QED BY <1>1, <1>2, IInvParts, IInvPartsNext

LEMMA GetPosIInv ==
  ASSUME IInv, NEW fd \in Fd, GetPos(fd)
  PROVE  IInv'
<1>1. CASE BadFd(fd)
  BY <1>1, FailKeepsIInv DEF BadFd, Code
<1>2. CASE ~ BadFd(fd)
  <2>1. /\ fds[fd] # NoDesc /\ Return(fds[fd].pos, <<>>)
        /\ UNCHANGED diskVars /\ UNCHANGED memVars /\ UNCHANGED status
    BY <1>2 DEF GetPos
  <2>2. fds[fd].pos \in Nat
    BY <2>1, IInvParts DEF TablesOK, Desc
  <2>3. DiskOK' /\ TablesOK' /\ ReplyOK'
    BY <2>1, <2>2, IInvParts, DiskUnchanged, TablesUnchanged, ReturnReply,
       EmptySequence DEF memVars
  <2> QED BY <2>1, <2>3, IInvParts, IInvPartsNext DEF memVars
<1> QED BY <1>1, <1>2

LEMMA MovedDescriptor ==
  ASSUME TablesOK, NEW fd \in Fd, fds[fd] # NoDesc, NEW p \in Nat, NEW c \in Block,
         \/ fds' = [fds EXCEPT ![fd].pos = p, ![fd].curr = c]
         \/ fds' = [fds EXCEPT ![fd].pos = p] /\ c = fds[fd].curr,
         UNCHANGED openFile
  PROVE  TablesOK'
<1> DEFINE d == [entry |-> fds[fd].entry, curr |-> c, pos |-> p]
<1>1. fds[fd] \in Desc /\ fds \in [Fd -> Desc \cup {NoDesc}]
  BY DEF TablesOK
<1>2. d \in Desc /\ d.entry = fds[fd].entry
  BY <1>1 DEF Desc
<1>3. fds' = [fds EXCEPT ![fd] = d]
  BY <1>1 DEF Desc
<1> HIDE DEF d
<1> QED BY <1>2, <1>3, MoveKeepsTables

LEMMA SeekTargetNat ==
  ASSUME IInv, NEW fd \in Fd, fds[fd] # NoDesc, NEW delta \in Int
  PROVE  SeekTarget(fd, delta) \in Nat
<1>1. fds[fd].pos \in Nat /\ fds[fd].entry \in Entry
  BY IInvParts DEF TablesOK, Desc
<1>2. FileSize(fd) \in Nat
  BY <1>1, IInvParts DEF FileSize, DiskOK, DirEntry
<1> QED BY <1>1, <1>2 DEF SeekTarget, SizeMin

LEMMA SeekIInv ==
  ASSUME IInv, NEW fd \in Fd, NEW delta \in - MaxLen .. MaxLen, Seek(fd, delta)
  PROVE  IInv'
<1>1. CASE BadFd(fd)
  BY <1>1, FailKeepsIInv DEF BadFd, Code
<1>2. CASE Abort /\ UNCHANGED <<diskVars, memVars>>
  BY <1>2, AbortKeepsIInv
<1>3. CASE /\ fds[fd] # NoDesc
           /\ fds' = [fds EXCEPT ![fd].pos = SeekTarget(fd, delta)]
           /\ Return(SeekTarget(fd, delta), <<>>)
           /\ UNCHANGED <<diskVars, mounted, openFile, status>>
  <2>1. SeekTarget(fd, delta) \in Nat /\ fds[fd].curr \in Block
    BY <1>3, SeekTargetNat, ClientAssumption, IInvParts DEF TablesOK, Desc
  <2>2. TablesOK'
    BY <1>3, <2>1, IInvParts, MovedDescriptor
  <2>3. DiskOK' /\ ReplyOK'
    BY <1>3, <2>1, IInvParts, DiskUnchanged, ReturnReply, EmptySequence
  <2> QED BY <1>3, <2>2, <2>3, IInvParts, IInvPartsNext
<1> QED BY <1>1, <1>2, <1>3 DEF Seek

\* sfs_remove and sfs_rename.
LEMMA FreeFileKeepsDisk ==
  ASSUME DiskOK, NEW e \in Entry, Live(e),
         NEW newDir \in [Entry -> DirEntry],
         \A d \in Entry : newDir[d].first = dir[d].first,
         FreeFile(e, newDir)
  PROVE  DiskOK'
<1> DEFINE b == dir[e].first
<1>1. b \in Block /\ Firsts \in FirstFunction /\ b = Firsts[e]
  BY FirstTypes
<1>2. /\ next \in NextFunction /\ prev \in NextFunction
      /\ btype \in TypeFunction /\ freelist \in BlockId
      /\ ListInv(next, btype, freelist, Firsts, Null)
  BY DEF DiskOK, ListsOK
<1> HIDE DEF b
<1>3. /\ next' = NextAfterFree(next, prev, freelist, b)
      /\ prev' = PrevAfterFree(prev, b)
      /\ btype' = TypeAfterFree(next, btype, b)
      /\ freelist' = b
      /\ dir' = [newDir EXCEPT ![e] = UnusedEntry]
      /\ UNCHANGED data
  BY DEF FreeFile, b
<1>4. /\ next' \in NextFunction /\ prev' \in NextFunction /\ btype' \in TypeFunction
      /\ ListInv(next', btype', freelist', [Firsts EXCEPT ![e] = Null], Null)
  BY <1>1, <1>2, <1>3, FreeKeepsLists
<1>5. UnusedEntry \in DirEntry
  BY BlockFacts DEF UnusedEntry, DirEntry
<1>6. dir' \in [Entry -> DirEntry]
  BY <1>3, <1>5
<1>7. Firsts' = [Firsts EXCEPT ![e] = Null]
  BY <1>3 DEF Firsts, UnusedEntry
<1>8. freelist' \in BlockId /\ ListsOK'
  BY <1>1, <1>3, <1>4, <1>7, BlockFacts DEF ListsOK
<1> QED BY <1>3, <1>4, <1>6, <1>8 DEF DiskOK

\* The chain of a file holds no free block, so removal always ends well.
LEMMA DeleteFrees ==
  ASSUME DiskOK, NEW e \in Entry, Live(e), NEW newDir, DeleteFile(e, newDir)
  PROVE  FreeFile(e, newDir) /\ Return(0, <<>>) /\ UNCHANGED status
<1>1. dir[e].first \in Block /\ Firsts[e] = dir[e].first /\ dir[e].first # Null
  BY FirstTypes DEF Live
<1>2. /\ next \in NextFunction /\ btype \in TypeFunction
      /\ ListInv(next, btype, freelist, Firsts, Null)
  BY DEF DiskOK, ListsOK
<1>3. \A b \in Block : next[b] # Null => btype[next[b]] = btype[b]
  BY <1>2 DEF ListInv
<1>4. btype[dir[e].first] = "file"
  BY <1>1, <1>2 DEF ListInv
<1>5. \A c \in Chain(next, dir[e].first) : btype[c] = "file"
  BY <1>1, <1>2, <1>3, <1>4, ChainType
<1>6. ~ FreeAborts(next, btype, dir[e].first)
  BY <1>5 DEF FreeAborts
<1> QED BY <1>6 DEF DeleteFile

LEMMA RemoveIInv ==
  ASSUME IInv, NEW name \in Names, Remove(name)
  PROVE  IInv'
<1>1. CASE \E c \in {"ENAMETOOLONG", "ENOMEDIUM", "ENOENT", "EBUSY"} :
             FailUnchanged(c)
  BY <1>1, FailKeepsIInv DEF Code
<1>2. CASE /\ Named(name) # {}
           /\ DeleteFile(Lowest(Named(name)), dir)
           /\ UNCHANGED memVars
  <2>1. /\ FreeFile(Lowest(Named(name)), dir)
        /\ Return(0, <<>>) /\ UNCHANGED status
    BY <1>2, IInvParts, NamedIn, DeleteFrees
  <2>2. DiskOK'
    BY <1>2, <2>1, IInvParts, NamedIn, FreeFileKeepsDisk DEF DiskOK
  <2>3. TablesOK' /\ ReplyOK'
    BY <1>2, <2>1, IInvParts, TablesUnchanged, ReturnReply, EmptySequence DEF memVars
  <2> QED BY <1>2, <2>2, <2>3, IInvParts, IInvPartsNext DEF memVars
<1> QED BY <1>1, <1>2 DEF Remove

LEMMA RenameIInv ==
  ASSUME IInv, NEW old \in Names, NEW new \in Names, Rename(old, new)
  PROVE  IInv'
<1> DEFINE e       == Lowest(Named(old))
           victim  == Lowest(Named(new))
           renamed == [dir EXCEPT ![e].name = new]
<1>1. CASE \E c \in {"ENAMETOOLONG", "ENOMEDIUM", "ENOENT"} : FailUnchanged(c)
  BY <1>1, FailKeepsIInv DEF Code
<1>2. CASE /\ Named(old) # {}
           /\ \/ Named(new) # {} /\ DeleteFile(victim, renamed)
              \/ /\ dir' = renamed /\ Return(0, <<>>)
                 /\ UNCHANGED <<freelist, next, prev, btype, data, status>>
           /\ UNCHANGED memVars
  <2>1. e \in Entry /\ DiskOK /\ dir \in [Entry -> DirEntry]
    BY <1>2, NamedIn, IInvParts DEF DiskOK
  <2> HIDE DEF e
  <2>2. /\ renamed \in [Entry -> DirEntry]
        /\ \A d \in Entry : renamed[d].first = dir[d].first
    BY <2>1 DEF DirEntry
  <2> HIDE DEF renamed
  <2>3. DiskOK' /\ Return(0, <<>>) /\ UNCHANGED status
    <3>1. CASE Named(new) # {} /\ DeleteFile(victim, renamed)
      <4>1. victim \in Entry /\ Live(victim)
        BY <3>1, NamedIn
      <4>2. FreeFile(victim, renamed) /\ Return(0, <<>>) /\ UNCHANGED status
        BY <2>1, <3>1, <4>1, DeleteFrees
      <4> QED BY <2>1, <2>2, <4>1, <4>2, FreeFileKeepsDisk
    <3>2. CASE /\ dir' = renamed /\ Return(0, <<>>)
               /\ UNCHANGED <<freelist, next, prev, btype, data, status>>
      <4>1. Firsts' = Firsts
        BY <2>2, <3>2 DEF Firsts
      <4> QED BY <2>1, <2>2, <3>2, <4>1 DEF DiskOK, ListsOK
    <3> QED BY <1>2, <3>1, <3>2
  <2>4. TablesOK' /\ ReplyOK'
    BY <1>2, <2>3, IInvParts, TablesUnchanged, ReturnReply, EmptySequence DEF memVars
  <2> QED BY <1>2, <2>3, <2>4, IInvParts, IInvPartsNext DEF memVars
<1> QED BY <1>1, <1>2 DEF Rename

-----------------------------------------------------------------------------
\* sfs_read.
LEMMA PathEnd ==
  ASSUME NEW nx, NEW b, NEW h \in Nat, NEW path \in Paths(nx, b, h)
  PROVE  /\ path \in [0 .. h -> Block]
         /\ path[h] \in Block
BY DEF Paths

LEMMA DescTypes ==
  ASSUME IInv, NEW fd \in Fd, fds[fd] # NoDesc
  PROVE  /\ fds[fd].entry \in Entry /\ fds[fd].curr \in Block
         /\ fds[fd].pos \in Nat /\ FileSize(fd) \in Nat
<1>1. fds[fd].entry \in Entry /\ fds[fd].curr \in Block /\ fds[fd].pos \in Nat
  BY IInvParts DEF TablesOK, Desc
<1> QED BY <1>1, IInvParts DEF FileSize, DiskOK, DirEntry

LEMMA ReadIInv ==
  ASSUME IInv, NEW fd \in Fd, NEW len \in Lens, Read(fd, len)
  PROVE  IInv'
<1> DEFINE n == SizeMin(FileSize(fd) - fds[fd].pos, len)
<1>1. CASE BadFd(fd)
  BY <1>1, FailKeepsIInv DEF BadFd, Code
<1>2. CASE Abort /\ UNCHANGED <<diskVars, memVars>>
  BY <1>2, AbortKeepsIInv
<1>3. CASE fds[fd] # NoDesc /\ fds[fd].pos <= FileSize(fd) /\ ReadDone(fd, n)
  <2> DEFINE pos  == fds[fd].pos
             hops == HopsFor(pos, n)
  <2>1. pos \in Nat /\ n \in Nat /\ pos + n \in Nat
    BY <1>3, DescTypes, ClientAssumption DEF SizeMin, Lens
  <2> HIDE DEF n, pos
  <2>2. PICK path \in Paths(next, fds[fd].curr, hops) :
          /\ fds' = [fds EXCEPT ![fd].pos = pos + n, ![fd].curr = path[hops]]
          /\ Return(n, [k \in 1 .. n |->
                          data[path[HopOf(pos, n, k - 1)]][OffsetOf(pos, n, k - 1)]])
    BY <1>3 DEF ReadDone, pos
  <2>3. hops \in Nat
    BY <2>1, TransferInBounds
  <2>4. path \in [0 .. hops -> Block] /\ path[hops] \in Block
    <3> HIDE DEF hops
    <3> QED BY <2>2, <2>3, PathEnd
  <2>5. ASSUME NEW k \in 1 .. n
        PROVE  data[path[HopOf(pos, n, k - 1)]][OffsetOf(pos, n, k - 1)] \in Bytes
    <3>1. k - 1 \in 0 .. n - 1
      BY <2>1
    <3>2. HopOf(pos, n, k - 1) \in 0 .. hops /\ OffsetOf(pos, n, k - 1) \in Offset
      BY <2>1, <3>1, TransferInBounds
    <3> HIDE DEF hops
    <3>3. path[HopOf(pos, n, k - 1)] \in Block
      BY <2>4, <3>2
    <3> QED BY <3>2, <3>3, IInvParts DEF DiskOK
  <2> DEFINE buf == [k \in 1 .. n |->
                       data[path[HopOf(pos, n, k - 1)]][OffsetOf(pos, n, k - 1)]]
  <2>6. buf \in Seq(Bytes)
    <3>1. buf \in [1 .. n -> Bytes]
      BY <2>5
    <3> HIDE DEF buf
    <3> QED BY <2>1, <3>1
  <2>7. UNCHANGED <<diskVars, mounted, openFile, status>>
    BY <1>3 DEF ReadDone
  <2>8. TablesOK'
    BY <1>3, <2>1, <2>2, <2>4, <2>7, MovedDescriptor, IInvParts
  <2>9. ReplyOK'
    <3> HIDE DEF buf
    <3> QED BY <2>1, <2>2, <2>6, <2>7, ReturnReply, IInvParts DEF buf
  <2> QED BY <2>7, <2>8, <2>9, IInvParts, IInvPartsNext, DiskUnchanged
<1> QED BY <1>1, <1>2, <1>3 DEF Read, ReadAborts

\* sfs_write.
LEMMA AddlBlocksNat ==
  ASSUME NEW fd, NEW len \in Nat, fds[fd].pos \in Nat, FileSize(fd) \in Nat
  PROVE  AddlBlocks(fd, len) \in Nat
<1> DEFINE end  == EndPos(fd, len)
           more == RoundUp(end) - RoundUp(FileSize(fd))
<1>1. end \in Nat
  BY DEF EndPos
<1>2. CASE Enlarges(fd, len)
  <2>1. more \in Nat
    BY <1>1, <1>2, RoundUpFacts DEF Enlarges
  <2> HIDE DEF more
  <2>2. more \div BlockDataSize \in Nat
    BY <2>1, Division
  <2> QED BY <1>2, <2>2 DEF AddlBlocks, more
<1> QED BY <1>2 DEF AddlBlocks

\* Where the copying gets to changes no list.
LEMMA CopyOutcome ==
  ASSUME IInv, NEW fd \in Fd, fds[fd] # NoDesc, NEW len \in Lens, NEW v \in Bytes,
         NEW nx \in NextFunction, NEW hops, hops = HopsFor(fds[fd].pos, len),
         \/ \E path \in Paths(nx, fds[fd].curr, hops) :
              WriteComplete(fd, len, v, path, hops)
         \/ WriteAborts(fd, len, v, nx, hops)
         \/ Abort /\ UNCHANGED <<data, fds, dir>>,
         UNCHANGED openFile
  PROVE  /\ data' \in [Block -> [Offset -> Bytes]]
         /\ dir' \in [Entry -> DirEntry]
         /\ \A e \in Entry : dir'[e].first = dir[e].first
         /\ TablesOK' /\ ReplyOK'
<1>1. /\ DiskOK /\ TablesOK /\ ReplyOK
      /\ data \in [Block -> [Offset -> Bytes]] /\ dir \in [Entry -> DirEntry]
  BY IInvParts DEF DiskOK
<1>2. len \in Nat /\ fds[fd].pos \in Nat /\ hops \in Nat /\ EndPos(fd, len) \in Nat
  BY DescTypes, TransferInBounds, ClientAssumption DEF Lens, EndPos
<1>3. \A path, h : DataAfterCopy(path, h, fds[fd].pos, len, v)
                     \in [Block -> [Offset -> Bytes]]
  BY <1>1 DEF DataAfterCopy
<1>4. CASE \E path \in Paths(nx, fds[fd].curr, hops) :
             WriteComplete(fd, len, v, path, hops)
  <2>1. PICK path \in Paths(nx, fds[fd].curr, hops) :
          WriteComplete(fd, len, v, path, hops)
    BY <1>4
  <2>2. path[hops] \in Block
    BY <1>2, PathEnd
  <2>3. TablesOK'
    BY <1>1, <1>2, <2>1, <2>2, MovedDescriptor DEF WriteComplete
  <2>4. ReplyOK'
    <3>1. CASE Abort
      BY <1>1, <3>1, FailReply DEF Abort, Code
    <3>2. CASE Return(len, <<>>) /\ UNCHANGED status
      BY <1>1, <1>2, <3>2, ReturnReply, EmptySequence
    <3> QED BY <2>1, <3>1, <3>2 DEF WriteComplete
  <2>5. dir' \in [Entry -> DirEntry] /\ \A e \in Entry : dir'[e].first = dir[e].first
    <3>1. CASE dir' = dir
      BY <1>1, <3>1
    <3>2. CASE dir' = [dir EXCEPT ![fds[fd].entry].size = EndPos(fd, len)]
      BY <1>1, <1>2, <3>2 DEF DirEntry
    <3> QED BY <2>1, <3>1, <3>2 DEF WriteComplete
  <2> QED BY <1>3, <2>1, <2>3, <2>4, <2>5 DEF WriteComplete
<1>5. CASE WriteAborts(fd, len, v, nx, hops)
  BY <1>1, <1>3, <1>5, TablesUnchanged, FailReply DEF WriteAborts, Abort, Code
<1>6. CASE Abort /\ UNCHANGED <<data, fds, dir>>
  BY <1>1, <1>6, TablesUnchanged, FailReply DEF Abort, Code
<1> QED BY <1>4, <1>5, <1>6

LEMMA WriteDataIInv ==
  ASSUME IInv, NEW fd \in Fd, fds[fd] # NoDesc, NEW len \in Lens, NEW v \in Bytes,
         WriteData(fd, len, v)
  PROVE  IInv'
<1> DEFINE curr == fds[fd].curr
           hops == HopsFor(fds[fd].pos, len)
           run  == AllocatedRun(next, freelist, AddlBlocks(fd, len))
           nx   == NextAfterAllocate(next, run)
           pv   == PrevAfterAllocate(next, prev, run)
           bt   == TypeAfterAllocate(btype, run)
           ends == {c \in Chain(nx, curr) : nx[c] = Null}
           attach == /\ run # {} /\ bt[curr] = "file"
                     /\ ends # {} /\ Paths(nx, curr, hops) = {}
           tail == CHOOSE c \in ends : TRUE
           newNext == IF attach THEN [nx EXCEPT ![tail] = freelist] ELSE nx
<1>1. /\ next \in NextFunction /\ btype \in TypeFunction /\ freelist \in BlockId
      /\ prev \in NextFunction /\ Firsts \in FirstFunction
      /\ ListInv(next, btype, freelist, Firsts, Null)
  BY IInvParts, FirstTypes DEF DiskOK, ListsOK
<1>2. curr \in Block /\ len \in Nat
  BY DescTypes, ClientAssumption DEF Lens
<1>3. AddlBlocks(fd, len) \in Nat
  BY <1>2, DescTypes, AddlBlocksNat
<1>4. /\ nx \in NextFunction /\ bt \in TypeFunction /\ freelist' \in BlockId
      /\ run # {} => freelist \in Block
      /\ ListInv(nx, bt, freelist', Firsts, IF run = {} THEN Null ELSE freelist)
  BY <1>1, <1>3, AllocateKeepsLists DEF WriteData
<1>5. pv \in NextFunction
  BY <1>1, BlockFacts DEF PrevAfterAllocate, NextFunction
<1>6. /\ next' = newNext
      /\ prev' = IF attach THEN [pv EXCEPT ![freelist] = tail] ELSE pv
      /\ btype' = bt
      /\ \/ \E path \in Paths(newNext, curr, hops) :
              WriteComplete(fd, len, v, path, hops)
         \/ WriteAborts(fd, len, v, newNext, hops)
         \/ Abort /\ UNCHANGED <<data, fds, dir>>
      /\ UNCHANGED <<mounted, openFile>>
  BY DEF WriteData
<1> HIDE DEF curr, hops, run, nx, pv, bt
\* The new chain is attached to a block of type file, or lost.
<1>7. /\ newNext \in NextFunction /\ prev' \in NextFunction
      /\ ListInv(newNext, bt, freelist', Firsts, Null)
  <2>1. CASE attach
    <3>1. tail \in Chain(nx, curr) /\ nx[tail] = Null
      BY <2>1
    <3>2. tail \in Block
      BY <1>2, <1>4, <3>1, BlockFacts, ChainClosed
    <3>3. bt[tail] = "file"
      <4>1. \A c \in Block : nx[c] # Null => bt[nx[c]] = bt[c]
        BY <1>4 DEF ListInv
      <4>2. bt[tail] = bt[curr]
        BY <1>2, <1>4, <3>1, <4>1, ChainType
      <4> QED BY <2>1, <4>2
    <3> HIDE DEF tail
    <3>4. /\ [nx EXCEPT ![tail] = freelist] \in NextFunction
          /\ ListInv([nx EXCEPT ![tail] = freelist], bt, freelist', Firsts, Null)
      BY <1>4, <2>1, <3>1, <3>2, <3>3, AttachKeepsLists
    <3>5. newNext = [nx EXCEPT ![tail] = freelist]
      BY <2>1
    <3>6. prev' \in NextFunction
      BY <1>5, <1>6, <2>1, <3>2, BlockFacts DEF NextFunction
    <3> QED BY <3>4, <3>5, <3>6
  <2>2. CASE ~ attach
    <3>1. newNext = nx /\ prev' = pv
      BY <1>6, <2>2
    <3> QED BY <1>4, <1>5, <3>1, LostKeepsLists
  <2> QED BY <2>1, <2>2
<1> HIDE DEF newNext, attach
<1>8. /\ data' \in [Block -> [Offset -> Bytes]]
      /\ dir' \in [Entry -> DirEntry]
      /\ \A e \in Entry : dir'[e].first = dir[e].first
      /\ TablesOK' /\ ReplyOK'
  BY <1>6, <1>7, CopyOutcome DEF curr, hops
<1>9. Firsts' = Firsts
  BY <1>8 DEF Firsts
<1>10. DiskOK'
  BY <1>4, <1>6, <1>7, <1>8, <1>9 DEF DiskOK, ListsOK
<1> QED BY <1>6, <1>8, <1>10, IInvParts, IInvPartsNext

LEMMA WriteIInv ==
  ASSUME IInv, NEW fd \in Fd, NEW len \in Lens, NEW v \in Bytes, Write(fd, len, v)
  PROVE  IInv'
<1>1. CASE BadFd(fd)
  BY <1>1, FailKeepsIInv DEF BadFd, Code
<1>2. CASE Abort /\ UNCHANGED <<diskVars, memVars>>
  BY <1>2, AbortKeepsIInv
<1>3. CASE \E c \in {"EFBIG", "ENOSPC"} : FailUnchanged(c)
  BY <1>3, FailKeepsIInv DEF Code
<1>4. CASE fds[fd] # NoDesc /\ WriteData(fd, len, v)
  BY <1>4, WriteDataIInv
<1> QED BY <1>1, <1>2, <1>3, <1>4 DEF Write

-----------------------------------------------------------------------------
LEMMA StepIInv == IInv /\ [Next]_vars => IInv'
<1> SUFFICES ASSUME IInv, [Next]_vars PROVE IInv'
  OBVIOUS
<1>1. CASE \E name \in Names : Open(name) \/ Remove(name)
  BY <1>1, OpenIInv, RemoveIInv
<1>2. CASE \E old, new \in Names : Rename(old, new)
  BY <1>2, RenameIInv
<1>3. CASE \E fd \in Fd : Close(fd) \/ GetPos(fd)
  BY <1>3, CloseIInv, GetPosIInv
<1>4. CASE \E fd \in Fd, len \in Lens : Read(fd, len)
  BY <1>4, ReadIInv
<1>5. CASE \E fd \in Fd, len \in Lens, v \in Bytes : Write(fd, len, v)
  BY <1>5, WriteIInv
<1>6. CASE \E fd \in Fd, delta \in - MaxLen .. MaxLen : Seek(fd, delta)
  BY <1>6, SeekIInv
<1>7. CASE Mount \/ Unmount \/ Format \/ Restart
  BY <1>7, MountIInv, UnmountIInv, FormatIInv, RestartIInv
<1>8. CASE UNCHANGED vars
  <2>1. /\ UNCHANGED diskVars /\ UNCHANGED <<mounted, openFile, fds>>
        /\ UNCHANGED <<status, ret>>
    BY <1>8 DEF vars, memVars
  <2>2. ReplyOK'
    BY <2>1, IInvParts DEF ReplyOK
  <2> QED BY <2>1, <2>2, IInvParts, IInvPartsNext, DiskUnchanged, TablesUnchanged
<1> QED BY <1>1, <1>2, <1>3, <1>4, <1>5, <1>6, <1>7, <1>8 DEF Next, FileCall

\* The inductive invariant holds whatever the clients do.
THEOREM Invariant == Spec => []IInv
BY InitIInv, StepIInv, PTL DEF Spec

(***************************************************************************)
(* The state and every reply keep their types: positions and sizes never   *)
(* become negative, currBlock always names a block, a read returns bytes   *)
(* from inside the blocks only (sfs_read, sfs_write, sfs_seek).            *)
(***************************************************************************)
THEOREM TypeCorrect == Spec => []TypeOK
<1>1. IInv => TypeOK
  BY DEF IInv
<1> QED BY <1>1, Invariant, PTL

(***************************************************************************)
(* No block is ever on two lists, or on a list of another type, whatever   *)
(* the client does, also one that mounts or formats a disk while it holds  *)
(* descriptors of the one before, and whenever the process dies            *)
(* (allocateBlocks, freeBlocks, sfs_format and their callers).  It is not  *)
(* said which blocks such a client's transfers reach.                      *)
(***************************************************************************)
THEOREM ListsStayApart == Spec => []BlocksNeverShared
<1>1. IInv => BlocksNeverShared
  <2> SUFFICES ASSUME IInv PROVE BlocksNeverShared
    OBVIOUS
  <2>1. ListInv(next, btype, freelist, Firsts, Null)
    BY DEF IInv, ListsOK
  <2>2. \A e \in Entry : Firsts[e] = dir[e].first
    BY DEF Firsts
  <2>3. Separate
    BY <2>1, <2>2 DEF Separate, ListInv, NextInjective, NoPredecessor, Live
  <2>4. TagsAgree
    BY <2>1, <2>2 DEF TagsAgree, ListInv, Live
  <2> QED BY <2>3, <2>4 DEF BlocksNeverShared
<1> QED BY <1>1, Invariant, PTL

(***************************************************************************)
(* An entry of the open-file table counts its descriptors exactly          *)
(* (addOpenFileEntry, sfs_close).                                          *)
(***************************************************************************)
THEOREM CountsStayExact == Spec => []RefCountsExact
<1>1. IInv => RefCountsExact
  BY DEF IInv
<1> QED BY <1>1, Invariant, PTL

-----------------------------------------------------------------------------
(***************************************************************************)
(* The checker.  A function that recurs on its argument exists: there is   *)
(* no least number up to which it cannot be given.                         *)
(***************************************************************************)
Recurs(f, n, x0, step) ==
  \A i \in 0 .. n : f[i] = IF i = 0 THEN x0 ELSE step[i][f[i - 1]]

LEMMA RecursionExists ==
  ASSUME NEW N \in Nat, NEW X, NEW x0 \in X, NEW step \in [Nat -> [X -> X]]
  PROVE  \E f \in [0 .. N -> X] : Recurs(f, N, x0, step)
<1> DEFINE Bad == {n \in Nat : \A f \in [0 .. n -> X] : ~ Recurs(f, n, x0, step)}
<1>1. Bad = {}
  <2> SUFFICES ASSUME Bad # {} PROVE FALSE
    OBVIOUS
  <2>1. PICK m \in Bad : \A k \in Bad : m <= k
    <3>1. Bad \in SUBSET Nat
      OBVIOUS
    <3> HIDE DEF Bad
    <3> QED BY <3>1, LeastNumber
  <2>2. m \in Nat
    OBVIOUS
  <2>3. m # 0
    <3>1. [i \in 0 .. 0 |-> x0] \in [0 .. 0 -> X]
      OBVIOUS
    <3>2. Recurs([i \in 0 .. 0 |-> x0], 0, x0, step)
      BY DEF Recurs
    <3> QED BY <3>1, <3>2
  <2>4. m - 1 \in Nat /\ m - 1 \notin Bad
    <3>1. m - 1 \in Nat /\ ~ (m <= m - 1)
      BY <2>2, <2>3
    <3> HIDE DEF Bad
    <3> QED BY <2>1, <3>1
  <2>5. PICK f \in [0 .. m - 1 -> X] : Recurs(f, m - 1, x0, step)
    BY <2>4
  <2>6. PICK g : g = [i \in 0 .. m |-> IF i = m THEN step[m][f[m - 1]] ELSE f[i]]
    OBVIOUS
  <2>7. f[m - 1] \in X /\ step[m][f[m - 1]] \in X
    BY <2>2, <2>4, <2>5
  <2>8. ASSUME NEW i \in 0 .. m
        PROVE  /\ g[i] \in X
               /\ g[i] = IF i = 0 THEN x0 ELSE step[i][g[i - 1]]
    <3>1. CASE i = m
      <4>1. m - 1 \in 0 .. m /\ m - 1 # m
        BY <2>2, <2>4
      <4> QED BY <2>3, <2>6, <2>7, <3>1, <4>1
    <3>2. CASE i # m
      <4>1. i \in 0 .. m - 1 /\ (i # 0 => i - 1 \in 0 .. m /\ i - 1 # m)
        BY <2>2, <3>2
      <4>2. f[i] \in X /\ f[i] = IF i = 0 THEN x0 ELSE step[i][f[i - 1]]
        BY <2>5, <4>1 DEF Recurs
      <4> QED BY <2>6, <3>2, <4>1, <4>2
    <3> QED BY <3>1, <3>2
  <2>9. g \in [0 .. m -> X]
    BY <2>6, <2>8
  <2>10. Recurs(g, m, x0, step)
    BY <2>8 DEF Recurs
  <2> QED BY <2>1, <2>9, <2>10
<1> QED BY <1>1

(***************************************************************************)
(* One walk of check_blocklist, from the block first, where map has the    *)
(* marks of the walks before it.                                           *)
(***************************************************************************)
Scan == [cur : BlockId, last : BlockId, count : Nat, linksOK : BOOLEAN,
         tagsOK : BOOLEAN, bytemap : [Block -> Nat]]

ScanStart(map, first) ==
  [cur |-> first, last |-> Null, count |-> 0,
   linksOK |-> TRUE, tagsOK |-> TRUE, bytemap |-> map]

Scans(f, map, first, label, type) ==
  \A i \in 0 .. NBlocks :
    f[i] = IF i = 0 THEN ScanStart(map, first) ELSE ScanOn(f[i - 1], label, type)

Headers == next \in NextFunction /\ prev \in NextFunction /\ btype \in TypeFunction

\* A step of the walk goes to a block that has no mark, and marks it.
LEMMA ScanOnFacts ==
  ASSUME Headers, NEW s \in Scan, NEW label \in Nat \ {Unvisited}, NEW type
  PROVE  /\ ScanOn(s, label, type) \in Scan
         /\ ScanStops(s) <=> s.cur = Null \/ s.bytemap[s.cur] # Unvisited
         /\ ScanStops(s) => ScanOn(s, label, type) = s
         /\ ~ ScanStops(s) =>
              LET t == ScanOn(s, label, type) IN
              /\ s.cur \in Block /\ s.bytemap[s.cur] = Unvisited
              /\ t.cur = next[s.cur] /\ t.last = s.cur /\ t.count = s.count + 1
              /\ t.linksOK <=> s.linksOK /\ prev[s.cur] = s.last
              /\ t.tagsOK <=> s.tagsOK /\ btype[s.cur] = type
              /\ t.bytemap[s.cur] # Unvisited
              /\ \A b \in Block \ {s.cur} : t.bytemap[b] = s.bytemap[b]
<1>1. /\ s.cur \in BlockId /\ s.last \in BlockId /\ s.count \in Nat
      /\ s.linksOK \in BOOLEAN /\ s.tagsOK \in BOOLEAN /\ s.bytemap \in [Block -> Nat]
  BY DEF Scan
<1>2. s.cur # Null => s.cur \in Block /\ ~ (s.cur > NBlocks)
  BY <1>1, GeometryAssumption DEF BlockId, Block, Null
<1>3. ScanStops(s) <=> s.cur = Null \/ s.bytemap[s.cur] # Unvisited
  BY <1>2 DEF ScanStops
<1>4. ASSUME ~ ScanStops(s)
      PROVE  LET t == ScanOn(s, label, type) IN
             /\ t \in Scan
             /\ s.cur \in Block /\ s.bytemap[s.cur] = Unvisited
             /\ t.cur = next[s.cur] /\ t.last = s.cur /\ t.count = s.count + 1
             /\ t.linksOK <=> s.linksOK /\ prev[s.cur] = s.last
             /\ t.tagsOK <=> s.tagsOK /\ btype[s.cur] = type
             /\ t.bytemap[s.cur] # Unvisited
             /\ \A b \in Block \ {s.cur} : t.bytemap[b] = s.bytemap[b]
  <2>1. s.cur \in Block /\ s.bytemap[s.cur] = Unvisited
    BY <1>2, <1>3, <1>4
  <2>2. PICK mark : /\ mark = IF btype[s.cur] = type THEN label ELSE Corrupt
                    /\ mark \in Nat /\ mark # Unvisited
    BY DEF Corrupt, Unvisited
  <2>3. PICK map : map = [s.bytemap EXCEPT ![s.cur] = mark]
    OBVIOUS
  <2>4. /\ map \in [Block -> Nat] /\ map[s.cur] # Unvisited
        /\ \A b \in Block \ {s.cur} : map[b] = s.bytemap[b]
    BY <1>1, <2>1, <2>2, <2>3
  <2>5. PICK t : t = [cur |-> next[s.cur], last |-> s.cur, count |-> s.count + 1,
                      linksOK |-> s.linksOK /\ prev[s.cur] = s.last,
                      tagsOK |-> s.tagsOK /\ btype[s.cur] = type, bytemap |-> map]
    OBVIOUS
  <2>6. ScanOn(s, label, type) = t
    BY <1>4, <2>2, <2>3, <2>5 DEF ScanOn, ScanStep
  <2>7. next[s.cur] \in BlockId /\ s.cur \in BlockId /\ s.count + 1 \in Nat
    BY <1>1, <2>1 DEF Headers, NextFunction
  <2>8. t \in Scan
    BY <1>1, <2>4, <2>5, <2>7 DEF Scan
  <2>9. /\ t.cur = next[s.cur] /\ t.last = s.cur /\ t.count = s.count + 1
        /\ t.linksOK <=> s.linksOK /\ prev[s.cur] = s.last
        /\ t.tagsOK <=> s.tagsOK /\ btype[s.cur] = type
        /\ t.bytemap = map
    BY <2>5
  <2> QED BY ONLY <2>1, <2>4, <2>6, <2>8, <2>9
<1>5. ScanStops(s) => ScanOn(s, label, type) = s
  BY DEF ScanOn
<1> QED BY <1>3, <1>4, <1>5

LEMMA ScansExist ==
  ASSUME Headers, NEW map \in [Block -> Nat], NEW first \in BlockId,
         NEW label \in Nat \ {Unvisited}, NEW type
  PROVE  \E f : /\ Scans(f, map, first, label, type)
                /\ CheckBlocklist(map, first, label, type) = f[NBlocks]
<1>1. NBlocks \in Nat
  BY GeometryAssumption
<1>2. ScanStart(map, first) \in Scan
  BY BlockFacts DEF ScanStart, Scan
<1>3. PICK step : step = [i \in Nat |-> [s \in Scan |-> ScanOn(s, label, type)]]
  OBVIOUS
<1>4. step \in [Nat -> [Scan -> Scan]]
  BY <1>3, ScanOnFacts
<1>5. PICK g \in [0 .. NBlocks -> Scan] :
             Recurs(g, NBlocks, ScanStart(map, first), step)
  BY <1>1, <1>2, <1>4, RecursionExists
<1>6. g = [i \in 0 .. NBlocks |->
             IF i = 0 THEN ScanStart(map, first) ELSE ScanOn(g[i - 1], label, type)]
  <2>1. ASSUME NEW i \in 0 .. NBlocks
        PROVE  g[i] = IF i = 0 THEN ScanStart(map, first) ELSE ScanOn(g[i - 1], label, type)
    <3>1. i # 0 => i \in Nat /\ i - 1 \in 0 .. NBlocks
      BY <1>1
    <3>2. i # 0 => step[i][g[i - 1]] = ScanOn(g[i - 1], label, type)
      BY <1>3, <3>1
    <3> QED BY <1>5, <3>2 DEF Recurs
  <2> QED BY <2>1
<1> DEFINE scan[i \in 0 .. NBlocks] ==
             IF i = 0 THEN ScanStart(map, first) ELSE ScanOn(scan[i - 1], label, type)
<1>7. scan = [i \in 0 .. NBlocks |->
                IF i = 0 THEN ScanStart(map, first) ELSE ScanOn(scan[i - 1], label, type)]
  BY <1>6
<1>8. CheckBlocklist(map, first, label, type) = scan[NBlocks]
  BY DEF CheckBlocklist, ScanStart
<1>9. Scans(scan, map, first, label, type)
  BY <1>7 DEF Scans
<1> QED BY <1>8, <1>9

\* The blocks a walk has marked, and what holds after i steps of it.
Met(map, s) == {b \in Block : map[b] = Unvisited /\ s.bytemap[b] # Unvisited}

PrevLeadsBack(first) ==
  /\ first # Null => prev[first] = Null
  /\ \A b \in Chain(next, first) : next[b] # Null => prev[next[b]] = b

Walked(map, first, type, i, s) ==
  LET met == Met(map, s) IN
  /\ s \in Scan
  /\ \A b \in Block : map[b] # Unvisited => s.bytemap[b] # Unvisited
  /\ met \subseteq Chain(next, first)
  /\ s.cur # Null => s.cur \in Chain(next, first)
  /\ s.count = Cardinality(met)
  /\ ScanStops(s) \/ s.count = i
  /\ s.last = Null => met = {} /\ s.cur = first
  /\ s.last # Null => s.last \in met /\ first \in met /\ next[s.last] = s.cur
  /\ \A b \in met : b # s.last => next[b] \in met
  /\ \A b \in met : b # first => \E c \in met : c # s.last /\ next[c] = b
  /\ s.tagsOK <=> \A b \in met : btype[b] = type
  /\ s.linksOK => /\ met # {} => prev[first] = Null
                  /\ \A b \in met : b # s.last => prev[next[b]] = b
  /\ PrevLeadsBack(first) => s.linksOK

LEMMA WalkBegins ==
  ASSUME Headers, NEW map \in [Block -> Nat], NEW first \in BlockId, NEW type
  PROVE  Walked(map, first, type, 0, ScanStart(map, first))
<1> DEFINE s == ScanStart(map, first)
<1>1. /\ s.cur = first /\ s.last = Null /\ s.count = 0 /\ s.linksOK /\ s.tagsOK
      /\ s.bytemap = map
  BY DEF ScanStart
<1>2. s \in Scan
  BY BlockFacts DEF ScanStart, Scan
<1>3. Met(map, s) = {}
  BY <1>1 DEF Met
<1>4. first # Null => first \in Chain(next, first)
  BY ChainClosed DEF Headers
<1>5. PICK t : t = ScanStart(map, first)
  OBVIOUS
<1>6. Cardinality(Met(map, t)) = 0
  BY <1>3, <1>5, FS_EmptySet
<1>7. Walked(map, first, type, 0, t)
  <2>1. /\ t.cur = first /\ t.last = Null /\ t.count = 0 /\ t.linksOK /\ t.tagsOK
        /\ t.bytemap = map /\ t \in Scan /\ Met(map, t) = {}
    BY <1>1, <1>2, <1>3, <1>5
  <2> QED BY ONLY <1>4, <1>6, <2>1 DEF Walked
<1> QED BY <1>5, <1>7

LEMMA WalkGoesOn ==
  ASSUME Headers, NEW map \in [Block -> Nat], NEW first \in BlockId, NEW type,
         NEW label \in Nat \ {Unvisited}, NEW i \in Nat, NEW s,
         Walked(map, first, type, i, s)
  PROVE  Walked(map, first, type, i + 1, ScanOn(s, label, type))
<1> DEFINE met == Met(map, s)
<1>1. s \in Scan /\ next \in NextFunction
  BY DEF Walked, Headers
<1>2. CASE ScanStops(s)
  BY <1>1, <1>2, ScanOnFacts DEF Walked
<1>3. CASE ~ ScanStops(s)
  <2>1. PICK t : t = ScanOn(s, label, type)
    OBVIOUS
  <2>2. PICK c : c = s.cur
    OBVIOUS
  <2>3. /\ t \in Scan /\ c \in Block /\ s.bytemap[c] = Unvisited
        /\ t.cur = next[c] /\ t.last = c /\ t.count = s.count + 1
        /\ t.linksOK <=> s.linksOK /\ prev[c] = s.last
        /\ t.tagsOK <=> s.tagsOK /\ btype[c] = type
        /\ t.bytemap[c] # Unvisited
        /\ \A b \in Block \ {c} : t.bytemap[b] = s.bytemap[b]
    BY <1>1, <1>3, <2>1, <2>2, ScanOnFacts
  <2>4. /\ \A b \in Block : map[b] # Unvisited => s.bytemap[b] # Unvisited
        /\ met \subseteq Chain(next, first)
        /\ c # Null => c \in Chain(next, first)
        /\ s.count = Cardinality(met)
        /\ s.count = i
        /\ s.last = Null => met = {} /\ c = first
        /\ s.last # Null => s.last \in met /\ first \in met /\ next[s.last] = c
        /\ \A b \in met : b # s.last => next[b] \in met
        /\ \A b \in met : b # first => \E d \in met : d # s.last /\ next[d] = b
        /\ s.tagsOK <=> \A b \in met : btype[b] = type
        /\ s.linksOK => /\ met # {} => prev[first] = Null
                        /\ \A b \in met : b # s.last => prev[next[b]] = b
        /\ PrevLeadsBack(first) => s.linksOK
    BY <1>3, <2>2 DEF Walked
  <2>5. c \notin met /\ map[c] = Unvisited /\ c # Null /\ c \in Chain(next, first)
    BY <2>3, <2>4, BlockFacts DEF Met
  <2>6. Met(map, t) = met \cup {c}
    BY <2>3, <2>5 DEF Met
  <2>7. /\ IsFiniteSet(met)
        /\ Cardinality(met \cup {c}) = s.count + 1
    <3>1. IsFiniteSet(met)
      BY <1>1, ChainFinite, <2>4, FS_Subset
    <3>2. PICK M : M = met
      OBVIOUS
    <3>3. IsFiniteSet(M) /\ c \notin M /\ s.count = Cardinality(M)
      BY <2>4, <2>5, <3>1, <3>2
    <3>4. Cardinality(M \cup {c}) = Cardinality(M) + 1
      BY <3>3, FS_AddElement
    <3> QED BY <3>2, <3>3, <3>4
  <2>8. Closed(next, Chain(next, first))
    BY <1>1, ChainClosed
  <2> HIDE DEF met
  <2>9. PICK met2 : met2 = Met(map, t)
    OBVIOUS
  <2>10. met2 = met \cup {c}
    BY <2>6, <2>9
  <2>11. \A b \in Block : map[b] # Unvisited => t.bytemap[b] # Unvisited
    BY <2>3, <2>4
  <2>12. /\ met2 \subseteq Chain(next, first)
         /\ t.cur # Null => t.cur \in Chain(next, first)
    BY <2>3, <2>4, <2>5, <2>8, <2>10 DEF Closed
  <2>13. t.count = Cardinality(met2) /\ t.count = i + 1
    BY <2>3, <2>4, <2>7, <2>10
  <2>14. c \in met2 /\ first \in met2 /\ t.last # Null /\ next[t.last] = t.cur
    BY <2>3, <2>4, <2>5, <2>10
  <2>15. \A b \in met2 : b # t.last => next[b] \in met2
    BY <2>3, <2>4, <2>10
  <2>16. \A b \in met2 : b # first => \E d \in met2 : d # t.last /\ next[d] = b
    <3>1. ASSUME NEW b \in met, b # first
          PROVE  \E d \in met2 : d # t.last /\ next[d] = b
      BY <2>3, <2>4, <2>5, <2>10, <3>1
    <3>2. ASSUME c # first
          PROVE  \E d \in met2 : d # t.last /\ next[d] = c
      BY <2>3, <2>4, <2>5, <2>10, <3>2
    <3> QED BY <2>10, <3>1, <3>2
  <2>17. t.tagsOK <=> \A b \in met2 : btype[b] = type
    BY <2>3, <2>4, <2>10
  <2>18. ASSUME t.linksOK
         PROVE  /\ prev[first] = Null
                /\ \A b \in met2 : b # t.last => prev[next[b]] = b
    <3>1. s.linksOK /\ prev[c] = s.last
      BY <2>3, <2>18
    <3>2. \A b \in met : prev[next[b]] = b
      BY <2>4, <3>1
    <3>3. prev[first] = Null
      BY <2>4, <3>1
    <3> QED BY <2>3, <2>10, <3>2, <3>3
  <2>19. ASSUME PrevLeadsBack(first) PROVE t.linksOK
    <3>1. s.last = Null => prev[c] = Null
      BY <2>4, <2>5, <2>19 DEF PrevLeadsBack
    <3>2. s.last # Null => prev[c] = s.last
      BY <2>4, <2>5, <2>19 DEF PrevLeadsBack
    <3> QED BY <2>3, <2>4, <2>19, <3>1, <3>2
  <2>20. Walked(map, first, type, i + 1, t)
    BY <2>3, <2>9, <2>11, <2>12, <2>13, <2>14, <2>15, <2>16, <2>17, <2>18, <2>19
       DEF Walked
  <2> QED BY <2>1, <2>20
<1> QED BY <1>2, <1>3

LEMMA WalkStops ==
  ASSUME Headers, NEW map \in [Block -> Nat], NEW first \in BlockId,
         NEW label \in Nat \ {Unvisited}, NEW type
  PROVE  LET s == CheckBlocklist(map, first, label, type) IN
         Walked(map, first, type, NBlocks, s) /\ ScanStops(s)
<1>1. PICK f : /\ Scans(f, map, first, label, type)
               /\ CheckBlocklist(map, first, label, type) = f[NBlocks]
  BY ScansExist
<1>2. NBlocks \in Nat
  BY GeometryAssumption
<1> DEFINE Bad == {i \in 0 .. NBlocks : ~ Walked(map, first, type, i, f[i])}
<1>3. Bad = {}
  <2> SUFFICES ASSUME Bad # {} PROVE FALSE
    OBVIOUS
  <2>1. Bad \in SUBSET Nat
    BY <1>2
  <2>2. PICK m \in Bad : \A k \in Bad : m <= k
    <3> HIDE DEF Bad
    <3> QED BY <2>1, LeastNumber
  <2>3. m # 0
    BY <1>1, <1>2, WalkBegins DEF Scans
  <2>4. m - 1 \in 0 .. NBlocks /\ m - 1 \in Nat /\ m \in 0 .. NBlocks /\ ~ (m <= m - 1)
    BY <1>2, <2>3
  <2>5. Walked(map, first, type, m - 1, f[m - 1])
    BY <2>2, <2>4
  <2>6. Walked(map, first, type, (m - 1) + 1, ScanOn(f[m - 1], label, type))
    BY <2>4, <2>5, WalkGoesOn
  <2>7. f[m] = ScanOn(f[m - 1], label, type) /\ (m - 1) + 1 = m
    BY <1>1, <2>3, <2>4 DEF Scans
  <2> QED BY <2>6, <2>7
<1>4. Walked(map, first, type, NBlocks, f[NBlocks])
  BY <1>2, <1>3
<1>5. ScanStops(f[NBlocks])
  <2> SUFFICES ASSUME f[NBlocks].count = NBlocks PROVE FALSE
    BY <1>4 DEF Walked
  <2>1. /\ Met(map, f[NBlocks]) \subseteq Block
        /\ Cardinality(Met(map, f[NBlocks])) = NBlocks
    BY <1>4 DEF Walked, Met
  <2>2. Cardinality(Block) = NBlocks - 1
    <3>1. 1 \in Int /\ NBlocks - 1 \in Int /\ ~ (1 > NBlocks - 1)
          /\ (NBlocks - 1) - 1 + 1 = NBlocks - 1
      BY GeometryAssumption
    <3>2. Cardinality(1 .. NBlocks - 1) = (NBlocks - 1) - 1 + 1
      BY <3>1, FS_Interval
    <3> QED BY <3>1, <3>2 DEF Block
  <2>3. Cardinality(Met(map, f[NBlocks])) <= Cardinality(Block)
    BY <2>1, BlockFacts, FS_Subset
  <2> QED BY <1>2, <2>1, <2>2, <2>3
<1> QED BY <1>1, <1>4, <1>5

(***************************************************************************)
(* What a walk has found when check_blocklist returns: a walk that came to *)
(* a null pointer has been along the whole list.                           *)
(***************************************************************************)
LEMMA WalkFinds ==
  ASSUME Headers, NEW map \in [Block -> Nat], NEW first \in BlockId,
         NEW label \in Nat \ {Unvisited}, NEW type,
         NEW s, s = CheckBlocklist(map, first, label, type)
  PROVE  /\ s \in Scan
         /\ \A b \in Block : map[b] # Unvisited => s.bytemap[b] # Unvisited
         /\ PrevLeadsBack(first) => s.linksOK
         /\ s.cur = Null => /\ Met(map, s) = Chain(next, first)
                            /\ s.count = Cardinality(Chain(next, first))
                            /\ s.tagsOK <=> \A b \in Chain(next, first) : btype[b] = type
                            /\ s.linksOK => PrevLeadsBack(first)
<1>1. Walked(map, first, type, NBlocks, s) /\ next \in NextFunction
  BY WalkStops DEF Headers
<1>2. /\ s \in Scan
      /\ \A b \in Block : map[b] # Unvisited => s.bytemap[b] # Unvisited
      /\ PrevLeadsBack(first) => s.linksOK
  BY <1>1 DEF Walked
<1>3. ASSUME s.cur = Null
      PROVE  /\ Met(map, s) = Chain(next, first)
             /\ s.count = Cardinality(Chain(next, first))
             /\ s.tagsOK <=> \A b \in Chain(next, first) : btype[b] = type
             /\ s.linksOK => PrevLeadsBack(first)
  <2>1. PICK met : met = Met(map, s)
    OBVIOUS
  <2>2. /\ met \subseteq Chain(next, first)
        /\ s.count = Cardinality(met)
        /\ s.last = Null => met = {} /\ s.cur = first
        /\ s.last # Null => s.last \in met /\ first \in met /\ next[s.last] = s.cur
        /\ \A b \in met : b # s.last => next[b] \in met
        /\ s.tagsOK <=> \A b \in met : btype[b] = type
        /\ s.linksOK => /\ met # {} => prev[first] = Null
                        /\ \A b \in met : b # s.last => prev[next[b]] = b
    BY <1>1, <2>1 DEF Walked
  <2>3. met \in SUBSET Block /\ (first # Null => first \in met)
    BY <1>3, <2>1, <2>2 DEF Met
  <2>4. Closed(next, met)
    BY <1>3, <2>2 DEF Closed
  <2>5. met = Chain(next, first)
    BY <2>2, <2>3, <2>4, ChainLeast
  <2>6. s.linksOK => PrevLeadsBack(first)
    BY <1>3, <2>2, <2>3, <2>5 DEF PrevLeadsBack
  <2> QED BY ONLY <2>1, <2>2, <2>5, <2>6
<1> QED BY <1>2, <1>3

\* A walk comes to the end of a list that nothing else runs into and that no
\* walk before it has been on.
LEMMA WalkCompletes ==
  ASSUME Headers, NEW map \in [Block -> Nat], NEW first \in BlockId,
         NEW label \in Nat \ {Unvisited}, NEW type,
         NextInjective(next), NoPredecessor(next, first),
         \A b \in Chain(next, first) : map[b] = Unvisited,
         NEW s, s = CheckBlocklist(map, first, label, type)
  PROVE  s.cur = Null
<1>1. /\ Walked(map, first, type, NBlocks, s) /\ ScanStops(s) /\ next \in NextFunction
  BY WalkStops DEF Headers
<1>2. SUFFICES ASSUME s.cur # Null PROVE FALSE
  OBVIOUS
<1>3. s \in Scan /\ s.cur \in Chain(next, first)
  BY <1>1, <1>2 DEF Walked
<1>4. s.cur \in Block /\ s.bytemap[s.cur] # Unvisited
  BY <1>1, <1>2, <1>3, ScanOnFacts, ChainClosed
<1>5. PICK met : met = Met(map, s)
  OBVIOUS
<1>6. /\ met \subseteq Chain(next, first)
      /\ s.last = Null => met = {} /\ s.cur = first
      /\ s.last # Null => s.last \in met /\ first \in met /\ next[s.last] = s.cur
      /\ \A b \in met : b # first => \E c \in met : c # s.last /\ next[c] = b
  BY <1>1, <1>5 DEF Walked
<1>7. s.cur \in met
  BY <1>3, <1>4, <1>5 DEF Met
<1>8. s.last \in met /\ next[s.last] = s.cur
  BY <1>6, <1>7
<1>9. met \subseteq Block
  BY <1>5 DEF Met
<1>10. s.cur # first
  BY <1>2, <1>8, <1>9 DEF NoPredecessor
<1>11. PICK c \in met : c # s.last /\ next[c] = s.cur
  BY <1>6, <1>7, <1>10
<1> QED BY <1>2, <1>8, <1>9, <1>11 DEF NextInjective

(***************************************************************************)
(* The walks of one run of the checker.                                    *)
(***************************************************************************)
Walk      == 0 .. FileCountLimit
First(n)   == IF n = 0 THEN freelist ELSE dir[n - 1].first
Kind(n)   == IF n = 0 THEN "free" ELSE "file"
Label(n)  == IF n = 0 THEN FreeTag ELSE FileTag(n - 1)
Before(n) == IF n = 0 THEN FreshMap ELSE EntryScans[n - 1].bytemap

OnDisk ==
  /\ Headers
  /\ \A n \in Walk : First(n) \in BlockId

LEMMA WalkLabels ==
  ASSUME NEW n \in Walk
  PROVE  Label(n) \in Nat \ {Unvisited}
BY GeometryAssumption DEF Walk, Label, FreeTag, FileTag, Unvisited

LEMMA EntryScansRecur ==
  ASSUME OnDisk
  PROVE  /\ DOMAIN EntryScans = Walk
         /\ \A n \in Walk :
              /\ EntryScans[n] \in Scan
              /\ Before(n) \in [Block -> Nat]
              /\ EntryScans[n] = CheckBlocklist(Before(n), First(n), Label(n), Kind(n))
<1>1. FileCountLimit \in Nat /\ Headers
  BY GeometryAssumption DEF OnDisk
<1>2. FreshMap \in [Block -> Nat]
  BY DEF FreshMap, Unvisited
<1>3. FreeListScan \in Scan
  <2>1. 0 \in Walk
    BY <1>1 DEF Walk
  <2>2. freelist \in BlockId /\ FreeTag \in Nat \ {Unvisited}
    BY <2>1, WalkLabels DEF OnDisk, First, Label
  <2> QED BY <1>1, <1>2, <2>2, WalkFinds DEF FreeListScan
<1>4. PICK step : step = [n \in Nat |-> [s \in Scan |->
                    IF n \in Walk /\ n # 0
                      THEN CheckBlocklist(s.bytemap, dir[n - 1].first,
                                          FileTag(n - 1), "file")
                      ELSE s]]
  OBVIOUS
<1>5. ASSUME NEW n \in Nat, NEW s \in Scan PROVE step[n][s] \in Scan
  <2>1. CASE n \in Walk /\ n # 0
    <3>1. /\ dir[n - 1].first \in BlockId /\ FileTag(n - 1) \in Nat \ {Unvisited}
          /\ s.bytemap \in [Block -> Nat]
      BY <2>1, WalkLabels DEF OnDisk, First, Label, Scan
    <3>2. CheckBlocklist(s.bytemap, dir[n - 1].first, FileTag(n - 1), "file") \in Scan
      BY <1>1, <3>1, WalkFinds
    <3> QED BY <1>4, <2>1, <3>2
  <2>2. CASE ~ (n \in Walk /\ n # 0)
    BY <1>4, <2>2
  <2> QED BY <2>1, <2>2
<1>6. step \in [Nat -> [Scan -> Scan]]
  <2>1. step = [n \in Nat |-> [s \in Scan |-> step[n][s]]]
    BY <1>4
  <2>2. \A n \in Nat : [s \in Scan |-> step[n][s]] \in [Scan -> Scan]
    BY <1>5
  <2> QED BY <2>1, <2>2
<1>7. PICK g \in [0 .. FileCountLimit -> Scan] :
             Recurs(g, FileCountLimit, FreeListScan, step)
  BY <1>1, <1>3, <1>6, RecursionExists
<1>8. ASSUME NEW n \in 0 .. FileCountLimit
      PROVE  g[n] = IF n = 0 THEN FreeListScan
                    ELSE CheckBlocklist(g[n - 1].bytemap, dir[n - 1].first,
                                        FileTag(n - 1), "file")
  <2>1. n # 0 => n \in Nat /\ n \in Walk /\ n - 1 \in 0 .. FileCountLimit
    BY <1>1 DEF Walk
  <2>2. n # 0 => g[n - 1] \in Scan
    BY <2>1
  <2>3. n # 0 => step[n][g[n - 1]] =
                   CheckBlocklist(g[n - 1].bytemap, dir[n - 1].first,
                                  FileTag(n - 1), "file")
    BY <1>4, <2>1, <2>2
  <2> QED BY <1>7, <2>3 DEF Recurs
<1>9. g = [n \in 0 .. FileCountLimit |->
             IF n = 0 THEN FreeListScan
             ELSE CheckBlocklist(g[n - 1].bytemap, dir[n - 1].first,
                                 FileTag(n - 1), "file")]
  BY <1>8
<1> DEFINE made[n \in 0 .. FileCountLimit] ==
             IF n = 0 THEN FreeListScan
             ELSE CheckBlocklist(made[n - 1].bytemap, dir[n - 1].first,
                                 FileTag(n - 1), "file")
<1>10. made = [n \in 0 .. FileCountLimit |->
             IF n = 0 THEN FreeListScan
             ELSE CheckBlocklist(made[n - 1].bytemap, dir[n - 1].first,
                                 FileTag(n - 1), "file")]
  BY <1>9
<1>11. EntryScans = made
  BY DEF EntryScans
<1> HIDE DEF made
<1>12. PICK f : f = EntryScans
  OBVIOUS
<1>13. f = [n \in Walk |->
             IF n = 0 THEN FreeListScan
             ELSE CheckBlocklist(f[n - 1].bytemap, dir[n - 1].first,
                                 FileTag(n - 1), "file")]
  BY <1>10, <1>11, <1>12 DEF Walk
<1>14. DOMAIN f = Walk
  BY <1>13
<1>15. ASSUME NEW n \in Walk
       PROVE  f[n] = CheckBlocklist(Before(n), First(n), Label(n), Kind(n))
  <2>1. CASE n = 0
    <3>1. f[0] = FreeListScan
      BY <1>13, <2>1
    <3> QED BY <2>1, <3>1 DEF FreeListScan, Before, First, Label, Kind
  <2>2. CASE n # 0
    <3>1. f[n] = CheckBlocklist(f[n - 1].bytemap, dir[n - 1].first,
                                FileTag(n - 1), "file")
      BY <1>13, <2>2
    <3> QED BY <1>12, <2>2, <3>1 DEF Before, First, Label, Kind
  <2> QED BY <2>1, <2>2
<1> DEFINE Bad == {n \in Walk : f[n] \notin Scan}
<1>16. Bad = {}
  <2> SUFFICES ASSUME Bad # {} PROVE FALSE
    OBVIOUS
  <2>1. Bad \in SUBSET Nat
    BY <1>1 DEF Walk
  <2>2. PICK m \in Bad : \A k \in Bad : m <= k
    <3> HIDE DEF Bad
    <3> QED BY <2>1, LeastNumber
  <2>3. Before(m) \in [Block -> Nat]
    <3>1. CASE m = 0
      BY <1>2, <3>1 DEF Before
    <3>2. CASE m # 0
      <4>1. m - 1 \in Walk /\ ~ (m <= m - 1)
        BY <1>1, <2>2, <3>2 DEF Walk
      <4>2. f[m - 1] \in Scan
        BY <2>2, <4>1
      <4> QED BY <1>12, <3>2, <4>2 DEF Before, Scan
    <3> QED BY <3>1, <3>2
  <2>4. First(m) \in BlockId /\ Label(m) \in Nat \ {Unvisited}
    BY WalkLabels DEF OnDisk
  <2>5. f[m] \in Scan
    BY <1>1, <1>15, <2>3, <2>4, WalkFinds
  <2> QED BY <2>5
<1>17. ASSUME NEW n \in Walk PROVE Before(n) \in [Block -> Nat]
  <2>1. CASE n = 0
    BY <1>2, <2>1 DEF Before
  <2>2. CASE n # 0
    <3>1. n - 1 \in Walk
      BY <1>1, <2>2 DEF Walk
    <3>2. f[n - 1] \in Scan
      BY <1>16, <3>1
    <3> QED BY <1>12, <2>2, <3>2 DEF Before, Scan
  <2> QED BY <2>1, <2>2
<1>18. \A n \in Walk : f[n] \in Scan
  BY <1>16
<1> QED BY <1>12, <1>14, <1>15, <1>17, <1>18

\* What one walk of the checker has found.
LEMMA WalkReport ==
  ASSUME OnDisk, NEW n \in Walk
  PROVE  /\ EntryScans[n] \in Scan
         /\ Before(n) \in [Block -> Nat] /\ EntryScans[n].bytemap \in [Block -> Nat]
         /\ First(n) \in BlockId
         /\ \A b \in Block : Before(n)[b] # Unvisited => EntryScans[n].bytemap[b] # Unvisited
         /\ PrevLeadsBack(First(n)) => EntryScans[n].linksOK
         /\ EntryScans[n].cur = Null =>
              /\ Met(Before(n), EntryScans[n]) = Chain(next, First(n))
              /\ EntryScans[n].count = Cardinality(Chain(next, First(n)))
              /\ EntryScans[n].tagsOK <=>
                   \A b \in Chain(next, First(n)) : btype[b] = Kind(n)
              /\ EntryScans[n].linksOK => PrevLeadsBack(First(n))
<1>1. PICK s : s = EntryScans[n]
  OBVIOUS
<1>2. PICK map : map = Before(n)
  OBVIOUS
<1>3. /\ Headers /\ First(n) \in BlockId /\ Label(n) \in Nat \ {Unvisited}
      /\ s \in Scan /\ map \in [Block -> Nat]
      /\ s = CheckBlocklist(map, First(n), Label(n), Kind(n))
  BY <1>1, <1>2, EntryScansRecur, WalkLabels DEF OnDisk
<1>4. /\ \A b \in Block : map[b] # Unvisited => s.bytemap[b] # Unvisited
      /\ PrevLeadsBack(First(n)) => s.linksOK
      /\ s.cur = Null =>
           /\ Met(map, s) = Chain(next, First(n))
           /\ s.count = Cardinality(Chain(next, First(n)))
           /\ s.tagsOK <=> \A b \in Chain(next, First(n)) : btype[b] = Kind(n)
           /\ s.linksOK => PrevLeadsBack(First(n))
  BY ONLY <1>3, WalkFinds
<1>5. s.bytemap \in [Block -> Nat]
  BY <1>3 DEF Scan
<1> QED BY ONLY <1>1, <1>2, <1>3, <1>4, <1>5

\* The marks when the first walks, up to n, all came to the ends of their lists.
LEMMA MarksAfter ==
  ASSUME OnDisk, NEW n \in Walk, \A k \in 0 .. n : EntryScans[k].cur = Null
  PROVE  \A b \in Block :
           EntryScans[n].bytemap[b] # Unvisited <=>
             \E k \in 0 .. n : b \in Chain(next, First(k))
<1>1. FileCountLimit \in Nat /\ n \in Nat
  BY GeometryAssumption DEF Walk
<1> DEFINE Right(m) == \A b \in Block :
                         EntryScans[m].bytemap[b] # Unvisited <=>
                           \E k \in 0 .. m : b \in Chain(next, First(k))
           Bad == {m \in 0 .. n : ~ Right(m)}
<1>2. SUFFICES Bad = {}
  BY <1>1
<1>3. SUFFICES ASSUME Bad # {} PROVE FALSE
  OBVIOUS
<1>4. PICK m \in Bad : \A k \in Bad : m <= k
  <2>1. Bad \in SUBSET Nat
    BY <1>1
  <2> HIDE DEF Bad
  <2> QED BY <1>3, <2>1, LeastNumber
<1>5. m \in Nat /\ m \in 0 .. n /\ m \in Walk /\ EntryScans[m].cur = Null
  BY <1>1 DEF Walk
<1>6. PICK s : s = EntryScans[m]
  OBVIOUS
<1>7. /\ \A b \in Block : Before(m)[b] # Unvisited => s.bytemap[b] # Unvisited
      /\ Met(Before(m), s) = Chain(next, First(m))
  BY <1>5, <1>6, WalkReport
<1>8. \A b \in Block : s.bytemap[b] # Unvisited <=>
                         Before(m)[b] # Unvisited \/ b \in Chain(next, First(m))
  BY <1>7 DEF Met
<1>9. \A b \in Block : Before(m)[b] # Unvisited <=>
                         \E k \in 0 .. m - 1 : b \in Chain(next, First(k))
  <2>1. CASE m = 0
    <3>1. \A b \in Block : Before(m)[b] = Unvisited
      BY <2>1 DEF Before, FreshMap
    <3>2. 0 .. m - 1 = {}
      BY <2>1
    <3> QED BY <3>1, <3>2
  <2>2. CASE m # 0
    <3>1. m - 1 \in 0 .. n /\ ~ (m <= m - 1)
      BY <1>1, <1>5, <2>2
    <3>2. Right(m - 1)
      BY <1>4, <3>1
    <3>3. Before(m) = EntryScans[m - 1].bytemap
      BY <2>2 DEF Before
    <3> QED BY <3>2, <3>3
  <2> QED BY <2>1, <2>2
<1>10. \A k : k \in 0 .. m <=> k \in 0 .. m - 1 \/ k = m
  BY <1>5
<1>11. Right(m)
  <2>1. ASSUME NEW b \in Block
        PROVE  s.bytemap[b] # Unvisited <=>
                 \E k \in 0 .. m : b \in Chain(next, First(k))
    BY <1>8, <1>9, <1>10
  <2> QED BY <1>6, <2>1
<1> QED BY <1>4, <1>11

\* Walks that all came to the ends of their lists were on disjoint lists.
LEMMA CompleteWalksApart ==
  ASSUME OnDisk, \A k \in Walk : EntryScans[k].cur = Null,
         NEW j \in Walk, NEW n \in Walk, j # n
  PROVE  Chain(next, First(j)) \cap Chain(next, First(n)) = {}
<1>1. FileCountLimit \in Nat /\ j \in Nat /\ n \in Nat
  BY GeometryAssumption DEF Walk
<1>2. ASSUME NEW k \in Walk, NEW m \in Walk, k < m
      PROVE  Chain(next, First(k)) \cap Chain(next, First(m)) = {}
  <2>1. m - 1 \in Walk /\ k \in 0 .. m - 1 /\ m # 0 /\ \A i \in 0 .. m - 1 : i \in Walk
    BY <1>1, <1>2 DEF Walk
  <2>2. \A b \in Block : EntryScans[m - 1].bytemap[b] # Unvisited <=>
                           \E i \in 0 .. m - 1 : b \in Chain(next, First(i))
    BY <2>1, MarksAfter
  <2>3. Before(m) = EntryScans[m - 1].bytemap
    BY <2>1 DEF Before
  <2>4. Met(Before(m), EntryScans[m]) = Chain(next, First(m))
    BY WalkReport
  <2>5. \A b \in Chain(next, First(m)) : b \in Block /\ Before(m)[b] = Unvisited
    BY <2>4 DEF Met
  <2> QED BY <2>1, <2>2, <2>3, <2>5
<1>3. j < n \/ n < j
  BY <1>1
<1> QED BY <1>2, <1>3

(***************************************************************************)
(* The lists of a disk, by the number of the walk along them.              *)
(***************************************************************************)
LEMMA WalksOfDisk ==
  /\ 0 \in Walk /\ FileCountLimit \in Walk
  /\ \A e \in Entry : e + 1 \in Walk /\ e + 1 # 0
  /\ \A e \in Entry : First(e + 1) = dir[e].first /\ Kind(e + 1) = "file"
  /\ First(0) = freelist /\ Kind(0) = "free"
  /\ \A n \in Walk : n # 0 => n - 1 \in Entry /\ (n - 1) + 1 = n
  /\ \A n \in Walk : n # 0 => First(n) = dir[n - 1].first /\ Kind(n) = "file"
<1>1. FileCountLimit \in Nat \ {0}
  BY GeometryAssumption
<1>2. \A e \in Entry : e \in Nat /\ e + 1 \in Walk /\ e + 1 # 0 /\ (e + 1) - 1 = e
  BY <1>1 DEF Entry, Walk
<1>3. \A n \in Walk : n # 0 => n - 1 \in Entry /\ (n - 1) + 1 = n
  BY <1>1 DEF Entry, Walk
<1> QED BY <1>1, <1>2, <1>3 DEF First, Kind, Walk

LEMMA SeparateMeans ==
  ASSUME OnDisk
  PROVE  Separate <=>
           /\ NextInjective(next)
           /\ \A n \in Walk : NoPredecessor(next, First(n))
           /\ \A j, n \in Walk : j # n /\ First(j) # Null => First(j) # First(n)
<1> DEFINE Apart == /\ NextInjective(next)
                    /\ \A n \in Walk : NoPredecessor(next, First(n))
                    /\ \A j, n \in Walk : j # n /\ First(j) # Null => First(j) # First(n)
<1>1. ASSUME Separate PROVE Apart
  <2>1. NextInjective(next)
    BY <1>1 DEF Separate, NextInjective
  <2>2. ASSUME NEW n \in Walk PROVE NoPredecessor(next, First(n))
    <3>1. CASE n = 0
      BY <1>1, <3>1, WalksOfDisk DEF Separate, NoPredecessor
    <3>2. CASE n # 0
      BY <1>1, <3>2, WalksOfDisk DEF Separate, NoPredecessor
    <3> QED BY <3>1, <3>2
  <2>3. ASSUME NEW j \in Walk, NEW n \in Walk, j # n, First(j) # Null
        PROVE  First(j) # First(n)
    <3>1. CASE j = 0
      <4>1. n - 1 \in Entry /\ First(n) = dir[n - 1].first /\ First(j) = freelist
        BY <2>3, <3>1, WalksOfDisk
      <4> QED BY <1>1, <2>3, <4>1 DEF Separate, Live
    <3>2. CASE j # 0 /\ n = 0
      <4>1. j - 1 \in Entry /\ First(j) = dir[j - 1].first /\ First(n) = freelist
        BY <3>2, WalksOfDisk
      <4> QED BY <1>1, <2>3, <4>1 DEF Separate, Live
    <3>3. CASE j # 0 /\ n # 0
      <4>1. /\ j - 1 \in Entry /\ First(j) = dir[j - 1].first
            /\ n - 1 \in Entry /\ First(n) = dir[n - 1].first
            /\ (j - 1) + 1 = j /\ (n - 1) + 1 = n
        BY <3>3, WalksOfDisk
      <4>2. j - 1 # n - 1
        BY <2>3, <4>1
      <4> QED BY <1>1, <2>3, <4>1, <4>2 DEF Separate, Live
    <3> QED BY <3>1, <3>2, <3>3
  <2> QED BY <2>1, <2>2, <2>3
<1>2. ASSUME Apart PROVE Separate
  <2>1. \A b, c \in Block : b # c /\ next[b] # Null => next[b] # next[c]
    BY <1>2 DEF NextInjective
  <2>2. \A b \in Block : next[b] # Null => next[b] # freelist
    BY <1>2, WalksOfDisk DEF NoPredecessor
  <2>3. \A b \in Block, e \in Entry : next[b] # Null => next[b] # dir[e].first
    BY <1>2, WalksOfDisk DEF NoPredecessor
  <2>4. \A e \in Entry : Live(e) => dir[e].first # freelist
    BY <1>2, WalksOfDisk DEF Live
  <2>5. ASSUME NEW d \in Entry, NEW e \in Entry, d # e, Live(d)
        PROVE  dir[d].first # dir[e].first
    <3>1. d + 1 \in Walk /\ e + 1 \in Walk /\ d + 1 # e + 1
      <4>1. d \in Int /\ e \in Int
        BY GeometryAssumption DEF Entry
      <4> QED BY <2>5, <4>1, WalksOfDisk
    <3> QED BY <1>2, <2>5, <3>1, WalksOfDisk DEF Live
  <2> QED BY <2>1, <2>2, <2>3, <2>4, <2>5 DEF Separate
<1> QED BY <1>1, <1>2

\* On separate lists every walk comes to the end.
LEMMA AllWalksComplete ==
  ASSUME OnDisk, Separate
  PROVE  \A n \in Walk : EntryScans[n].cur = Null
<1>1. FileCountLimit \in Nat
  BY GeometryAssumption
<1> DEFINE Bad == {n \in Walk : EntryScans[n].cur # Null}
<1>2. SUFFICES ASSUME Bad # {} PROVE FALSE
  OBVIOUS
<1>3. PICK m \in Bad : \A k \in Bad : m <= k
  <2>1. Bad \in SUBSET Nat
    BY <1>1 DEF Walk
  <2> HIDE DEF Bad
  <2> QED BY <1>2, <2>1, LeastNumber
<1>4. m \in Walk /\ m \in Nat
  BY <1>1 DEF Walk
<1>5. /\ NextInjective(next)
      /\ \A n \in Walk : NoPredecessor(next, First(n))
      /\ \A j, n \in Walk : j # n /\ First(j) # Null => First(j) # First(n)
  BY SeparateMeans
<1>6. \A b \in Chain(next, First(m)) : b \in Block /\ Before(m)[b] = Unvisited
  <2>1. Chain(next, First(m)) \subseteq Block
    BY <1>4, ChainClosed DEF OnDisk, Headers
  <2>2. CASE m = 0
    BY <2>1, <2>2 DEF Before, FreshMap
  <2>3. CASE m # 0
    <3>1. /\ m - 1 \in Walk
          /\ \A k \in 0 .. m - 1 : k \in Walk /\ k # m /\ ~ (m <= k)
      BY <1>1, <1>4, <2>3 DEF Walk
    <3>2. \A k \in 0 .. m - 1 : EntryScans[k].cur = Null
      BY <1>3, <3>1
    <3>3. \A b \in Block : EntryScans[m - 1].bytemap[b] # Unvisited <=>
                             \E k \in 0 .. m - 1 : b \in Chain(next, First(k))
      BY <3>1, <3>2, MarksAfter
    <3>4. ASSUME NEW k \in 0 .. m - 1
          PROVE  Chain(next, First(k)) \cap Chain(next, First(m)) = {}
      <4>1. CASE First(k) = Null
        BY <4>1, NullChain
      <4>2. CASE First(k) # Null
        <5>1. First(k) # First(m) /\ First(k) \in BlockId /\ First(m) \in BlockId
          BY <1>4, <1>5, <3>1, <4>2 DEF OnDisk
        <5>2. next \in NextFunction /\ NoPredecessor(next, First(k))
              /\ NoPredecessor(next, First(m))
          BY <1>4, <1>5, <3>1 DEF OnDisk, Headers
        <5> QED BY <1>5, <5>1, <5>2, ChainsApart
      <4> QED BY <4>1, <4>2
    <3>5. Before(m) = EntryScans[m - 1].bytemap
      BY <2>3 DEF Before
    <3> QED BY <2>1, <3>3, <3>4, <3>5
  <2> QED BY <2>2, <2>3
<1>7. PICK s : s = EntryScans[m]
  OBVIOUS
<1>8. PICK map : map = Before(m)
  OBVIOUS
<1>9. /\ Headers /\ First(m) \in BlockId /\ Label(m) \in Nat \ {Unvisited}
      /\ map \in [Block -> Nat]
      /\ s = CheckBlocklist(map, First(m), Label(m), Kind(m))
      /\ NextInjective(next) /\ NoPredecessor(next, First(m))
      /\ \A b \in Chain(next, First(m)) : map[b] = Unvisited
  BY <1>4, <1>5, <1>6, <1>7, <1>8, EntryScansRecur, WalkLabels DEF OnDisk
<1>10. s.cur = Null
  BY ONLY <1>9, WalkCompletes
<1> QED BY <1>3, <1>7, <1>10

LEMMA NoneLostMeans ==
  ASSUME OnDisk
  PROVE  NoneLost <=> \A b \in Block : \E n \in Walk : b \in Chain(next, First(n))
<1>1. \A n \in Walk : Chain(next, First(n)) \subseteq Block
  BY ChainClosed DEF OnDisk, Headers
<1>2. FreeChain = Chain(next, First(0))
      /\ \A e \in Entry : FileChain(e) = Chain(next, First(e + 1))
  BY WalksOfDisk DEF FreeChain, FileChain
<1>3. FreeChain \subseteq Block /\ \A e \in Entry : FileChain(e) \subseteq Block
  BY <1>1, <1>2, WalksOfDisk
<1>4. ASSUME NEW b
      PROVE  b \in FreeChain \cup UNION {FileChain(e) : e \in Entry} <=>
               \E n \in Walk : b \in Chain(next, First(n))
  <2>1. ASSUME NEW n \in Walk, b \in Chain(next, First(n))
        PROVE  b \in FreeChain \/ \E e \in Entry : b \in FileChain(e)
    <3>1. CASE n = 0
      BY <1>2, <2>1, <3>1
    <3>2. CASE n # 0
      <4>1. n - 1 \in Entry /\ (n - 1) + 1 = n
        BY <3>2, WalksOfDisk
      <4>2. b \in FileChain(n - 1)
        BY <1>2, <2>1, <4>1
      <4> QED BY <4>1, <4>2
    <3> QED BY <3>1, <3>2
  <2>2. ASSUME b \in FreeChain PROVE \E n \in Walk : b \in Chain(next, First(n))
    BY <1>2, <2>2, WalksOfDisk
  <2>3. ASSUME NEW e \in Entry, b \in FileChain(e)
        PROVE  \E n \in Walk : b \in Chain(next, First(n))
    BY <1>2, <2>3, WalksOfDisk
  <2> QED BY <2>1, <2>2, <2>3
<1> QED BY <1>3, <1>4 DEF NoneLost

LEMMA MirrorMeans ==
  PrevMirrorsNext <=> \A n \in Walk : PrevLeadsBack(First(n))
<1>1. ASSUME PrevMirrorsNext, NEW n \in Walk PROVE PrevLeadsBack(First(n))
  <2>1. \E l \in Lists : l[1] = First(n)
    <3>1. CASE n = 0
      <4>1. PICK l : l = <<freelist, "free">>
        OBVIOUS
      <4>2. l \in Lists /\ l[1] = freelist
        BY <4>1 DEF Lists
      <4> QED BY <3>1, <4>2, WalksOfDisk
    <3>2. CASE n # 0
      <4>1. n - 1 \in Entry /\ First(n) = dir[n - 1].first
        BY <3>2, WalksOfDisk
      <4>2. PICK l : l = <<dir[n - 1].first, "file">>
        OBVIOUS
      <4>3. l \in Lists /\ l[1] = dir[n - 1].first
        BY <4>1, <4>2 DEF Lists
      <4> QED BY <4>1, <4>3
    <3> QED BY <3>1, <3>2
  <2>2. PICK l \in Lists : l[1] = First(n)
    BY <2>1
  <2> QED BY <1>1, <2>2 DEF PrevMirrorsNext, PrevLeadsBack
<1>2. ASSUME \A n \in Walk : PrevLeadsBack(First(n)) PROVE PrevMirrorsNext
  <2>1. ASSUME NEW l \in Lists PROVE PrevLeadsBack(l[1])
    <3>1. l[1] = First(0) \/ \E e \in Entry : l[1] = First(e + 1)
      BY WalksOfDisk DEF Lists
    <3> QED BY <1>2, <3>1, WalksOfDisk
  <2> QED BY <2>1 DEF PrevMirrorsNext, PrevLeadsBack
<1> QED BY <1>1, <1>2

\* Links that mirror each other agree: a block with a prev pointer is not the
\* first of its list, and its prev pointer leads to the block before it.
LEMMA MirroredAgree ==
  ASSUME OnDisk, PrevMirrorsNext
  PROVE  LinksAgree
<1>1. SUFFICES ASSUME NEW l \in Lists, NEW p \in Chain(next, l[1]),
                      next[p] # Null, prev[p] # Null
               PROVE  prev[next[p]] = p /\ next[prev[p]] = p
  BY DEF LinksAgree
<1>2. l[1] \in BlockId /\ next \in NextFunction
  <2>1. l[1] = First(0) \/ \E e \in Entry : l[1] = First(e + 1)
    BY WalksOfDisk DEF Lists
  <2> QED BY <2>1, WalksOfDisk DEF OnDisk, Headers
<1>3. /\ l[1] # Null => prev[l[1]] = Null
      /\ \A b \in Chain(next, l[1]) : next[b] # Null => prev[next[b]] = b
  BY DEF PrevMirrorsNext
<1>4. l[1] # Null
  BY <1>1, NullChain
<1>5. PICK d \in Chain(next, l[1]) : next[d] = p
  BY <1>1, <1>2, <1>3, <1>4, ChainPredecessor
<1>6. p # Null
  BY <1>1, <1>2, ChainClosed, BlockFacts
<1> QED BY <1>1, <1>3, <1>5, <1>6

(***************************************************************************)
(* sfs-fsck.c accepts only consistent disks: when every walk ends, the     *)
(* lists are disjoint; that prev leads back on each keeps a list from      *)
(* running into itself or into the head of another.                        *)
(***************************************************************************)
LEMMA AcceptedIsConsistent ==
  ASSUME OnDisk, FsckAccepts
  PROVE  Consistent /\ PrevMirrorsNext
<1> DEFINE scans == EntryScans
<1>1. /\ \A n \in Walk : /\ EntryScans[n].cur = Null
                         /\ EntryScans[n].tagsOK /\ EntryScans[n].linksOK
      /\ ~ WrongLength(EntryScans) /\ ~ LostBlocks(EntryScans)
  BY EntryScansRecur DEF FsckAccepts, SharedOrCircular, Mislabeled, BadLinks
<1>2. next \in NextFunction
  BY DEF OnDisk, Headers
<1>3. \A n \in Walk :
        /\ First(n) \in BlockId /\ PrevLeadsBack(First(n))
        /\ EntryScans[n].count = Cardinality(Chain(next, First(n)))
        /\ \A b \in Chain(next, First(n)) : btype[b] = Kind(n)
        /\ Chain(next, First(n)) \subseteq Block /\ Closed(next, Chain(next, First(n)))
        /\ First(n) # Null => First(n) \in Chain(next, First(n))
  BY <1>1, <1>2, WalkReport, ChainClosed
<1>4. \A j, n \in Walk : j # n => Chain(next, First(j)) \cap Chain(next, First(n)) = {}
  BY <1>1, CompleteWalksApart
<1>5. \A b \in Block : \E n \in Walk : b \in Chain(next, First(n))
  <2>1. FileCountLimit \in Walk
    BY WalksOfDisk
  <2>2. \A b \in Block : EntryScans[FileCountLimit].bytemap[b] # Unvisited
    BY <1>1 DEF LostBlocks
  <2>3. \A k \in 0 .. FileCountLimit : EntryScans[k].cur = Null
    BY <1>1 DEF Walk
  <2>4. \A b \in Block : EntryScans[FileCountLimit].bytemap[b] # Unvisited <=>
                           \E k \in 0 .. FileCountLimit : b \in Chain(next, First(k))
    BY <2>1, <2>3, MarksAfter
  <2> QED BY <2>2, <2>4 DEF Walk
<1>6. NextInjective(next)
  <2>1. SUFFICES ASSUME NEW b \in Block, NEW c \in Block, b # c, next[b] # Null,
                        next[b] = next[c]
                 PROVE  FALSE
    BY DEF NextInjective
  <2>2. PICK n \in Walk : b \in Chain(next, First(n))
    BY <1>5
  <2>3. PICK j \in Walk : c \in Chain(next, First(j))
    BY <1>5
  <2>4. next[b] \in Chain(next, First(n)) /\ next[b] \in Chain(next, First(j))
    BY <1>3, <2>1, <2>2, <2>3 DEF Closed
  <2>5. j = n
    BY <1>4, <2>4
  <2>6. prev[next[b]] = b /\ prev[next[c]] = c
    BY <1>3, <2>1, <2>2, <2>3, <2>5 DEF PrevLeadsBack
  <2> QED BY <2>1, <2>6
<1>7. ASSUME NEW n \in Walk PROVE NoPredecessor(next, First(n))
  <2>1. SUFFICES ASSUME NEW b \in Block, next[b] # Null, next[b] = First(n)
                 PROVE  FALSE
    BY DEF NoPredecessor
  <2>2. PICK j \in Walk : b \in Chain(next, First(j))
    BY <1>5
  <2>3. First(n) \in Chain(next, First(j)) /\ First(n) \in Chain(next, First(n))
    BY <1>3, <2>1, <2>2 DEF Closed
  <2>4. j = n
    BY <1>4, <2>3
  <2>5. prev[First(n)] = Null /\ prev[First(n)] = b
    BY <1>3, <2>1, <2>2, <2>4 DEF PrevLeadsBack
  <2> QED BY <2>1, <2>5, BlockFacts
<1>8. \A j, n \in Walk : j # n /\ First(j) # Null => First(j) # First(n)
  BY <1>3, <1>4
<1>9. Separate
  BY <1>6, <1>7, <1>8, SeparateMeans
<1>10. TagsAgree
  <2>1. freelist # Null => btype[freelist] = "free"
    BY <1>3, WalksOfDisk
  <2>2. \A e \in Entry : Live(e) => btype[dir[e].first] = "file"
    BY <1>3, WalksOfDisk DEF Live
  <2>3. ASSUME NEW b \in Block, next[b] # Null PROVE btype[next[b]] = btype[b]
    <3>1. PICK n \in Walk : b \in Chain(next, First(n))
      BY <1>5
    <3>2. next[b] \in Chain(next, First(n))
      BY <1>3, <2>3, <3>1 DEF Closed
    <3> QED BY <1>3, <3>1, <3>2
  <2> QED BY <2>1, <2>2, <2>3 DEF TagsAgree
<1>11. PrevMirrorsNext
  BY <1>3, MirrorMeans
<1>12. LengthsAgree
  <2>1. SUFFICES ASSUME NEW e \in Entry, Live(e)
                 PROVE  Cardinality(FileChain(e)) = BlocksFor(dir[e].size)
    BY DEF LengthsAgree
  <2>2. e + 1 \in Walk /\ First(e + 1) = dir[e].first
    BY WalksOfDisk
  <2>3. ~ ListError(EntryScans[e + 1])
    BY <1>1, <2>2 DEF ListError
  <2>4. EntryScans[e + 1].count = BlocksFor(dir[e].size)
    BY <1>1, <2>1, <2>3 DEF WrongLength
  <2> QED BY <1>3, <2>2, <2>4 DEF FileChain
<1> QED BY <1>5, <1>9, <1>10, <1>11, <1>12, NoneLostMeans, MirroredAgree DEF Consistent

\* ... and all that are, with every prev pointer where it should be.
LEMMA ConsistentIsAccepted ==
  ASSUME OnDisk, Separate, TagsAgree, PrevMirrorsNext, LengthsAgree, NoneLost
  PROVE  FsckAccepts
<1>1. \A n \in Walk : EntryScans[n].cur = Null
  BY AllWalksComplete
<1>2. \A n \in Walk :
        /\ First(n) \in BlockId
        /\ PrevLeadsBack(First(n)) => EntryScans[n].linksOK
        /\ EntryScans[n].count = Cardinality(Chain(next, First(n)))
        /\ EntryScans[n].tagsOK <=> \A b \in Chain(next, First(n)) : btype[b] = Kind(n)
  BY <1>1, WalkReport
<1>3. \A n \in Walk : EntryScans[n].linksOK
  BY <1>2, MirrorMeans
<1>4. ASSUME NEW n \in Walk PROVE EntryScans[n].tagsOK
  <2>1. CASE First(n) = Null
    BY <1>2, <2>1, NullChain
  <2>2. CASE First(n) # Null
    <3>1. First(n) \in Block
      BY <1>2, <2>2, BlockFacts
    <3>2. btype[First(n)] = Kind(n)
      <4>1. CASE n = 0
        BY <2>2, <4>1, WalksOfDisk DEF TagsAgree
      <4>2. CASE n # 0
        BY <2>2, <4>2, WalksOfDisk DEF TagsAgree, Live
      <4> QED BY <4>1, <4>2
    <3>3. \A b \in Block : next[b] # Null => btype[next[b]] = btype[b]
      BY DEF TagsAgree
    <3>4. \A b \in Chain(next, First(n)) : btype[b] = btype[First(n)]
      BY <3>1, <3>3, ChainType DEF OnDisk, Headers
    <3> QED BY <1>2, <3>2, <3>4
  <2> QED BY <2>1, <2>2
<1>5. ~ WrongLength(EntryScans)
  <2>1. \A e \in Entry : Live(e) => EntryScans[e + 1].count = BlocksFor(dir[e].size)
    BY <1>2, WalksOfDisk DEF LengthsAgree, FileChain
  <2> QED BY <2>1 DEF WrongLength
<1>6. ~ LostBlocks(EntryScans)
  <2>1. FileCountLimit \in Walk /\ \A k \in 0 .. FileCountLimit : EntryScans[k].cur = Null
    BY <1>1, WalksOfDisk DEF Walk
  <2>2. \A b \in Block : EntryScans[FileCountLimit].bytemap[b] # Unvisited <=>
                           \E k \in 0 .. FileCountLimit : b \in Chain(next, First(k))
    BY <2>1, MarksAfter
  <2>3. \A b \in Block : \E k \in 0 .. FileCountLimit : b \in Chain(next, First(k))
    BY NoneLostMeans DEF Walk
  <2> QED BY <2>2, <2>3 DEF LostBlocks
<1>7. DOMAIN EntryScans = Walk
  BY EntryScansRecur
<1> QED BY <1>1, <1>3, <1>4, <1>5, <1>6, <1>7
       DEF FsckAccepts, SharedOrCircular, Mislabeled, BadLinks

LEMMA CheckerExact == TypeOK => FsckIsExact
<1>1. SUFFICES ASSUME TypeOK PROVE FsckIsExact
  OBVIOUS
<1>2. \A e \in Entry : dir[e].first \in BlockId
  BY <1>1 DEF TypeOK
<1>3. OnDisk
  <2>1. Headers /\ freelist \in BlockId
    BY <1>1 DEF TypeOK, Headers, NextFunction, TypeFunction
  <2>2. ASSUME NEW n \in Walk PROVE First(n) \in BlockId
    <3>1. CASE n = 0
      BY <2>1, <3>1, WalksOfDisk
    <3>2. CASE n # 0
      BY <1>2, <3>2, WalksOfDisk
    <3> QED BY <3>1, <3>2
  <2> QED BY <2>1, <2>2 DEF OnDisk
<1> QED BY <1>3, AcceptedIsConsistent, ConsistentIsAccepted DEF FsckIsExact, Consistent

(***************************************************************************)
(* The consistency checker accepts exactly the consistent disks on which   *)
(* no prev pointer is missing, for every size of disk and directory (main  *)
(* and check_blocklist of sfs-fsck.c).  The lemma above says it of every   *)
(* disk image, also of one that no sequence of calls leaves behind.        *)
(***************************************************************************)
THEOREM CheckerIsExact == Spec => []FsckIsExact
<1>1. TypeOK => FsckIsExact
  BY CheckerExact
<1> QED BY <1>1, TypeCorrect, PTL
==============================================================================
