-------------------------- MODULE SfsCarefulProofs --------------------------
(***************************************************************************)
(* Theorems about Sfs under a careful client (CarefulSpec), for every size *)
(* of disk, directory, tables and transfers: no block is lost or leaked,   *)
(* files have the blocks their sizes need, currBlock follows the position, *)
(* names are unique and no assertion fails; and such a client sees the     *)
(* files of FileStore.                                                     *)
(***************************************************************************)
EXTENDS SfsRefines, SfsProofs

(***************************************************************************)
(* Chains along an injective successor function, from a block that nothing *)
(* points to: they do not loop, so each hop leaves one block behind.       *)
(***************************************************************************)
Root(nx, b) == b \in Block /\ NoPredecessor(nx, b)

LEMMA SubChain ==
  ASSUME NEW nx \in NextFunction, NEW b \in BlockId, NEW c \in Chain(nx, b)
  PROVE  Chain(nx, c) \subseteq Chain(nx, b)
BY ChainClosed, ChainLeast

LEMMA ChainStep ==
  ASSUME NEW nx \in NextFunction, NextInjective(nx), NEW b, Root(nx, b),
         NEW c \in Chain(nx, b)
  PROVE  /\ c \in Block /\ nx[c] \in BlockId
         /\ nx[c] # Null => nx[c] \in Chain(nx, b)
         /\ Chain(nx, c) = {c} \cup Chain(nx, nx[c])
         /\ c \notin Chain(nx, nx[c])
         /\ Size(nx, c) = 1 + Size(nx, nx[c])
<1>1. /\ b \in Block /\ b \in BlockId /\ b # Null /\ NoPredecessor(nx, b)
      /\ c \in Block /\ c \in BlockId /\ c # Null /\ nx[c] \in BlockId
  BY ChainClosed, BlockFacts DEF Root, NextFunction
<1> DEFINE S == Chain(nx, nx[c])
<1>2. S \subseteq Block /\ Closed(nx, S) /\ (nx[c] # Null => nx[c] \in S)
  BY <1>1, ChainClosed
<1>3. c \notin S
  <2>1. SUFFICES ASSUME c \in S PROVE FALSE
    OBVIOUS
  <2>2. \A x \in S : \E y \in S : nx[y] = x
    BY <1>1, <2>1, ChainPredecessor
  <2>3. b \notin S
    BY <1>1, <1>2, <2>2, BlockFacts DEF NoPredecessor
  <2> HIDE DEF S
  <2>4. ASSUME NEW x \in Chain(nx, b) \ S
        PROVE  nx[x] = Null \/ nx[x] \in Chain(nx, b) \ S
    <3>1. x \in Block /\ (nx[x] = Null \/ nx[x] \in Chain(nx, b))
      BY <1>1, ChainClosed DEF Closed
    <3>2. SUFFICES ASSUME nx[x] # Null, nx[x] \in S PROVE FALSE
      BY <3>1
    <3>3. PICK y \in S : nx[y] = nx[x]
      BY <2>2, <3>2
    <3> QED BY <1>2, <3>1, <3>2, <3>3 DEF NextInjective
  <2>5. Closed(nx, Chain(nx, b) \ S) /\ b \in Chain(nx, b) \ S
    BY <1>1, <2>3, <2>4, ChainClosed DEF Closed
  <2>6. Chain(nx, b) \ S \in SUBSET Block
    BY <1>1, ChainClosed
  <2>7. Chain(nx, b) \subseteq Chain(nx, b) \ S
    BY <2>5, <2>6, ChainLeast
  <2> QED BY <2>1, <2>7
<1>4. Chain(nx, c) = {c} \cup S
  <2>1. S \subseteq Chain(nx, c) /\ c \in Chain(nx, c)
    <3>1. c \in Chain(nx, c) /\ Closed(nx, Chain(nx, c))
      BY <1>1, ChainClosed
    <3>2. CASE nx[c] = Null
      BY <3>1, <3>2, NullChain
    <3>3. CASE nx[c] # Null
      BY <1>1, <3>1, <3>3, SubChain DEF Closed
    <3> QED BY <3>1, <3>2, <3>3
  <2>2. Closed(nx, {c} \cup S) /\ {c} \cup S \in SUBSET Block
    BY <1>1, <1>2 DEF Closed
  <2>3. Chain(nx, c) \subseteq {c} \cup S
    BY <2>2, ChainLeast
  <2> QED BY <2>1, <2>3
<1>5. Size(nx, c) = 1 + Size(nx, nx[c])
  <2>1. IsFiniteSet(S) /\ Cardinality(S) \in Nat
    BY <1>1, ChainFinite DEF Size
  <2> HIDE DEF S
  <2>2. Cardinality(S \cup {c}) = Cardinality(S) + 1
    BY <1>3, <2>1, FS_AddElement
  <2>3. Chain(nx, c) = S \cup {c}
    BY <1>4
  <2> QED BY <2>1, <2>2, <2>3 DEF Size, S
<1>6. nx[c] # Null => nx[c] \in Chain(nx, b)
  BY <1>1, ChainClosed DEF Closed
<1> QED BY <1>1, <1>3, <1>4, <1>5, <1>6

(***************************************************************************)
(* Walks of h hops from a member of such a chain: there is one when the    *)
(* chain is that long, and h blocks are behind it then.                    *)
(***************************************************************************)
LEMMA PathSizes ==
  ASSUME NEW nx \in NextFunction, NextInjective(nx), NEW b, Root(nx, b),
         NEW c \in Chain(nx, b), NEW h \in Nat, NEW p \in Paths(nx, c, h),
         NEW i \in 0 .. h
  PROVE  /\ p[i] \in Chain(nx, c) /\ p[i] \in Chain(nx, b)
         /\ Size(nx, p[i]) = Size(nx, c) - i
<1>1. b \in BlockId /\ c \in Block /\ c \in BlockId
  BY ChainClosed, BlockFacts DEF Root
<1>2. Chain(nx, c) \subseteq Chain(nx, b) /\ Size(nx, c) \in Nat
  BY <1>1, SubChain, ChainFinite
<1> DEFINE Good(j) == p[j] \in Chain(nx, c) /\ Size(nx, p[j]) = Size(nx, c) - j
           Bad == {j \in 0 .. h : ~ Good(j)}
<1>3. /\ p \in [0 .. h -> Block] /\ p[0] = c
      /\ \A j \in 1 .. h : p[j] = nx[p[j - 1]]
  BY DEF Paths
<1>4. Bad = {}
  <2>1. SUFFICES ASSUME Bad # {} PROVE FALSE
    OBVIOUS
  <2>2. PICK m \in Bad : \A j \in Bad : m <= j
    <3>1. Bad \in SUBSET Nat
      OBVIOUS
    <3> HIDE DEF Bad
    <3> QED BY <2>1, <3>1, LeastNumber
  <2>3. m \in 0 .. h /\ ~ Good(m)
    BY <2>2
  <2>4. Good(0)
    BY <1>1, <1>2, <1>3, ChainClosed, BlockFacts
  <2>5. m \in 1 .. h /\ m - 1 \in 0 .. h /\ m - 1 \notin Bad /\ m - 1 \in Nat
    <3> HIDE DEF Good
    <3> QED BY <2>2, <2>3, <2>4
  <2>6. Good(m - 1)
    <3> HIDE DEF Good
    <3> QED BY <2>5
  <2>7. p[m] = nx[p[m - 1]] /\ p[m] \in Block /\ p[m] # Null
    BY <1>3, <2>5, BlockFacts
  <2>8. /\ Size(nx, p[m - 1]) = 1 + Size(nx, nx[p[m - 1]])
        /\ nx[p[m - 1]] \in BlockId
    BY <1>2, <2>6, ChainStep
  <2>9. Size(nx, p[m]) \in Nat
    BY <2>7, <2>8, ChainFinite
  <2>10. p[m] \in Chain(nx, c)
    BY <1>1, <2>6, <2>7, ChainClosed DEF Closed
  <2>11. Size(nx, p[m]) = Size(nx, c) - m
    BY <1>2, <2>3, <2>5, <2>6, <2>7, <2>8, <2>9
  <2> QED BY <2>3, <2>10, <2>11
<1>5. Good(i)
  <2> HIDE DEF Good
  <2> QED BY <1>4
<1> QED BY <1>2, <1>5

LEMMA SizePositive ==
  ASSUME NEW nx \in NextFunction, NextInjective(nx), NEW b, Root(nx, b),
         NEW c \in Chain(nx, b)
  PROVE  /\ Size(nx, c) \in Nat \ {0}
         /\ Size(nx, c) = 1 <=> nx[c] = Null
<1>1. nx[c] \in BlockId /\ c \in Block /\ Size(nx, c) = 1 + Size(nx, nx[c])
  BY ChainStep
<1>2. Size(nx, nx[c]) \in Nat /\ IsFiniteSet(Chain(nx, nx[c]))
  BY <1>1, ChainFinite
<1>3. Size(nx, nx[c]) = 0 <=> nx[c] = Null
  <2>1. nx[c] = Null => Chain(nx, nx[c]) = {}
    BY NullChain
  <2>2. nx[c] # Null => Chain(nx, nx[c]) # {}
    BY <1>1, ChainClosed
  <2> QED BY <1>2, <2>1, <2>2, FS_EmptySet DEF Size
<1> QED BY <1>1, <1>2, <1>3

LEMMA PathExists ==
  ASSUME NEW nx \in NextFunction, NextInjective(nx), NEW b, Root(nx, b),
         NEW c \in Chain(nx, b), NEW h \in Nat
  PROVE  Paths(nx, c, h) # {} <=> h < Size(nx, c)
<1>1. b \in BlockId /\ c \in Block
  BY ChainClosed, BlockFacts DEF Root
<1>2. Size(nx, c) \in Nat
  BY SizePositive
<1>3. ASSUME NEW p \in Paths(nx, c, h) PROVE h < Size(nx, c)
  <2>1. p[h] \in Chain(nx, b) /\ Size(nx, p[h]) = Size(nx, c) - h
    BY PathSizes
  <2>2. Size(nx, p[h]) \in Nat \ {0}
    BY <2>1, SizePositive
  <2> QED BY <1>2, <2>1, <2>2
<1> DEFINE Bad == {j \in Nat : j < Size(nx, c) /\ Paths(nx, c, j) = {}}
<1>4. Bad = {}
  <2>1. SUFFICES ASSUME Bad # {} PROVE FALSE
    OBVIOUS
  <2>2. PICK m \in Bad : \A j \in Bad : m <= j
    <3>1. Bad \in SUBSET Nat
      OBVIOUS
    <3> HIDE DEF Bad
    <3> QED BY <2>1, <3>1, LeastNumber
  <2>3. m \in Nat /\ m < Size(nx, c) /\ Paths(nx, c, m) = {}
    BY <2>2
  <2>4. m # 0
    <3>1. [j \in 0 .. 0 |-> c] \in Paths(nx, c, 0)
      BY <1>1 DEF Paths
    <3> QED BY <2>3, <3>1
  <2>5. m - 1 \in Nat /\ m - 1 \notin Bad /\ m - 1 < Size(nx, c)
    BY <1>2, <2>2, <2>3, <2>4
  <2>6. PICK p : p \in Paths(nx, c, m - 1)
    BY <2>5
  <2>7. /\ p \in [0 .. m - 1 -> Block] /\ p[0] = c
        /\ \A j \in 1 .. m - 1 : p[j] = nx[p[j - 1]]
    BY <2>6 DEF Paths
  <2>8. p[m - 1] \in Chain(nx, b) /\ Size(nx, p[m - 1]) = Size(nx, c) - (m - 1)
    <3>1. m - 1 \in 0 .. m - 1
      BY <2>5
    <3> QED BY <2>5, <2>6, <3>1, PathSizes
  <2>9. Size(nx, p[m - 1]) # 1
    BY <1>2, <2>3, <2>5, <2>8
  <2>10. nx[p[m - 1]] \in Block
    BY <2>8, <2>9, ChainStep, SizePositive, BlockFacts
  <2> DEFINE q == [j \in 0 .. m |-> IF j = m THEN nx[p[m - 1]] ELSE p[j]]
  <2>11. \A j \in 0 .. m - 1 : q[j] = p[j] /\ p[j] \in Block
    BY <2>5, <2>7
  <2>12. q \in [0 .. m -> Block] /\ q[0] = c /\ q[m] = nx[p[m - 1]]
    BY <2>3, <2>4, <2>5, <2>7, <2>10, <2>11
  <2>13. ASSUME NEW j \in 1 .. m PROVE q[j] = nx[q[j - 1]]
    <3>1. j - 1 \in 0 .. m - 1
      BY <2>3
    <3>2. CASE j = m
      BY <2>11, <2>12, <3>1, <3>2
    <3>3. CASE j # m
      <4>1. j \in 1 .. m - 1 /\ j \in 0 .. m - 1
        BY <2>3, <3>3
      <4> QED BY <2>7, <2>11, <3>1, <4>1
    <3> QED BY <3>2, <3>3
  <2> HIDE DEF q
  <2>14. q \in Paths(nx, c, m)
    BY <2>12, <2>13 DEF Paths
  <2> QED BY <2>3, <2>14
<1> QED BY <1>3, <1>4

(***************************************************************************)
(* What the list routines do to chains.                                    *)
(***************************************************************************)
\* A chain depends on the successors of its members only.
LEMMA ChainSame ==
  ASSUME NEW nx \in NextFunction, NEW nx2 \in NextFunction, NEW b \in BlockId,
         \A c \in Chain(nx, b) : nx2[c] = nx[c]
  PROVE  Chain(nx2, b) = Chain(nx, b)
<1>1. Chain(nx2, b) \subseteq Chain(nx, b)
  BY ChainClosed, ChainLeast DEF Closed
<1>2. Closed(nx, Chain(nx2, b))
  BY <1>1, ChainClosed DEF Closed
<1>3. Chain(nx, b) \subseteq Chain(nx2, b)
  BY <1>2, ChainClosed, ChainLeast
<1> QED BY <1>1, <1>3

\* A chain that is given a continuation at its end.
LEMMA ChainJoined ==
  ASSUME NEW nx \in NextFunction, NEW nx2 \in NextFunction, NEW b \in Block,
         NEW tail \in Chain(nx, b), nx[tail] = Null,
         \A c \in Chain(nx, b) : c # tail => nx2[c] = nx[c]
  PROVE  Chain(nx2, b) = Chain(nx, b) \cup Chain(nx2, nx2[tail])
<1>1. b \in BlockId /\ b # Null /\ tail \in Block /\ nx2[tail] \in BlockId
  BY ChainClosed, BlockFacts DEF NextFunction
<1> DEFINE U == Chain(nx, b) \cup Chain(nx2, nx2[tail])
<1>2. Chain(nx2, b) \subseteq U
  <2>1. U \in SUBSET Block /\ b \in U
    BY <1>1, ChainClosed
  <2>2. Closed(nx2, U)
    BY <1>1, ChainClosed DEF Closed
  <2> QED BY <2>1, <2>2, ChainLeast
<1>3. Chain(nx, b) \subseteq Chain(nx2, b)
  <2> DEFINE S == Chain(nx, b) \cap Chain(nx2, b)
  <2>1. S \in SUBSET Block /\ b \in S
    BY <1>1, ChainClosed
  <2>2. Closed(nx, S)
    BY <1>1, ChainClosed DEF Closed
  <2>3. Chain(nx, b) \subseteq S
    BY <2>1, <2>2, ChainLeast
  <2> QED BY <2>3
<1>4. Chain(nx2, nx2[tail]) \subseteq Chain(nx2, b)
  <2>1. CASE nx2[tail] = Null
    BY <2>1, NullChain
  <2>2. CASE nx2[tail] # Null
    <3>1. tail \in Chain(nx2, b)
      BY <1>3
    <3>2. nx2[tail] \in Chain(nx2, b)
      BY <1>1, <2>2, <3>1, ChainClosed DEF Closed
    <3> QED BY <1>1, <3>2, SubChain
  <2> QED BY <2>1, <2>2
<1> QED BY <1>2, <1>3, <1>4

\* The end of a chain is the end of the chain of each of its members.
LEMMA EndReached ==
  ASSUME NEW nx \in NextFunction, NextInjective(nx), NEW b, Root(nx, b),
         NEW tail \in Chain(nx, b), nx[tail] = Null, NEW c \in Chain(nx, b)
  PROVE  tail \in Chain(nx, c)
<1> DEFINE S == {d \in Chain(nx, b) : tail \in Chain(nx, d)}
<1>1. b \in BlockId /\ b # Null
  BY BlockFacts DEF Root
<1>2. S \in SUBSET Block /\ b \in S
  BY <1>1, ChainClosed
<1>3. ASSUME NEW d \in S, nx[d] # Null PROVE nx[d] \in S
  <2>1. d \in Chain(nx, b) /\ tail \in Chain(nx, d) /\ tail # d
    BY <1>3
  <2>2. Chain(nx, d) = {d} \cup Chain(nx, nx[d]) /\ nx[d] \in Chain(nx, b)
    BY <1>3, <2>1, ChainStep
  <2> QED BY <2>1, <2>2
<1>4. Chain(nx, b) \subseteq S
  <2>1. Closed(nx, S)
    BY <1>3 DEF Closed
  <2> QED BY <1>2, <2>1, ChainLeast
<1> QED BY <1>4

LEMMA EndExists ==
  ASSUME NEW nx \in NextFunction, NextInjective(nx), NEW b, Root(nx, b)
  PROVE  \E tail \in Chain(nx, b) : nx[tail] = Null
<1> DEFINE C == Chain(nx, b)
<1>1. b \in BlockId /\ b \in C /\ C \in SUBSET Block /\ Closed(nx, C)
  BY ChainClosed, BlockFacts DEF Root
<1> HIDE DEF C
<1>2. LastOf(nx, C) \in C /\ nx[LastOf(nx, C)] \notin C
  BY <1>1, RunHasLast DEF Root
<1> QED BY <1>1, <1>2 DEF Closed, C

(***************************************************************************)
(* allocateBlocks divides the free list: n blocks become a chain of their  *)
(* own, the rest stays, and no other chain changes.                        *)
(***************************************************************************)
LEMMA AllocateChains ==
  ASSUME NEW nx \in NextFunction, NextInjective(nx), NEW fr \in BlockId,
         NoPredecessor(nx, fr), NEW n \in Nat, CanAllocate(nx, fr, n),
         NEW run, run = AllocatedRun(nx, fr, n),
         NEW nx2 \in NextFunction, nx2 = NextAfterAllocate(nx, run)
  PROVE  /\ run # {} /\ IsFiniteSet(run) /\ Cardinality(run) = n
         /\ fr \in Block /\ Chain(nx2, fr) = run
         /\ run \subseteq Chain(nx, fr)
         /\ Chain(nx2, FreeAfterAllocate(nx, fr, run)) = Chain(nx, fr) \ run
         /\ \A c \in BlockId :
              Chain(nx, c) \cap Chain(nx, fr) = {} => Chain(nx2, c) = Chain(nx, c)
<1> DEFINE last == LastOf(nx, run)
           rest == Chain(nx, nx[last])
<1>1. /\ n \in Nat \ {0} /\ fr \in Block /\ fr # Null /\ n <= Size(nx, fr)
      /\ run = FirstBlocks(nx, fr, n) /\ Root(nx, fr)
  BY BlockFacts DEF AllocatedRun, CanAllocate, Size, Root
<1>2. /\ run \subseteq Chain(nx, fr) /\ run \subseteq Block /\ run \in SUBSET Block
      /\ fr \in run
      /\ \A c \in run : c # fr => \E d \in run : nx[d] = c
  BY <1>1, FirstBlocksRun, ChainClosed, BlockFacts
<1>3. /\ last \in run /\ nx[last] \notin run
      /\ \A c \in run : nx[c] \notin run => c = last
  <2>1. LastOf(nx, run) \in run /\ nx[LastOf(nx, run)] \notin run
    BY <1>1, <1>2, RunHasLast
  <2>2. ASSUME NEW c \in run, nx[c] \notin run PROVE c = LastOf(nx, run)
    BY <1>2, <2>1, <2>2, RunLastUnique
  <2> QED BY <2>1, <2>2
<1>4. \A c \in Block : nx2[c] = IF c = last THEN Null ELSE nx[c]
  BY <1>2 DEF NextAfterAllocate
<1>5. FreeAfterAllocate(nx, fr, run) = nx[last]
  BY <1>2 DEF FreeAfterAllocate
<1> HIDE DEF last
<1>6. last \in Chain(nx, fr) /\ last \in Block /\ nx[last] \in BlockId
  BY <1>1, <1>2, <1>3, ChainStep
\* Hops from the head, in terms of how much of the list is left.
<1>7. \A c \in Chain(nx, fr) : c \in run <=> Size(nx, fr) - Size(nx, c) < n
  BY <1>1 DEF FirstBlocks, Hops, Size
<1>8. Size(nx, nx[last]) = Size(nx, fr) - n
  <2>1. /\ Size(nx, last) = 1 + Size(nx, nx[last])
        /\ Size(nx, nx[last]) \in Nat /\ Size(nx, fr) \in Nat
    BY <1>1, <1>6, ChainStep, ChainFinite, BlockFacts
  <2>2. Size(nx, fr) - Size(nx, last) < n
    BY <1>3, <1>6, <1>7
  <2>3. CASE nx[last] = Null
    <3>1. Size(nx, nx[last]) = 0
      BY <2>3, NullChain, FS_EmptySet DEF Size
    <3> QED BY <1>1, <2>1, <2>2, <3>1
  <2>4. CASE nx[last] # Null
    <3>1. nx[last] \in Chain(nx, fr)
      BY <1>1, <1>6, <2>4, ChainStep
    <3>2. ~ (Size(nx, fr) - Size(nx, nx[last]) < n)
      BY <1>3, <1>7, <3>1
    <3> QED BY <1>1, <2>1, <2>2, <3>2
  <2> QED BY <2>3, <2>4
<1>9. rest \subseteq Chain(nx, fr)
  <2>1. CASE nx[last] = Null
    BY <2>1, NullChain
  <2>2. CASE nx[last] # Null
    BY <1>1, <1>6, <2>2, ChainStep, SubChain, BlockFacts
  <2> QED BY <2>1, <2>2
<1>10. run \cap rest = {}
  <2>1. SUFFICES ASSUME NEW c \in run, c \in rest PROVE FALSE
    OBVIOUS
  <2>2. nx[last] # Null
    BY <2>1, NullChain
  <2>3. /\ Chain(nx, c) \subseteq rest /\ c \in Block /\ c \in BlockId
        /\ IsFiniteSet(rest)
    BY <1>2, <1>6, <2>1, SubChain, ChainFinite, BlockFacts
  <2>4. Size(nx, c) <= Size(nx, nx[last]) /\ Size(nx, c) \in Nat /\ Size(nx, fr) \in Nat
    BY <1>1, <2>3, FS_Subset, ChainFinite, BlockFacts DEF Size
  <2>5. Size(nx, fr) - Size(nx, c) < n
    BY <1>2, <1>7, <2>1
  <2> QED BY <1>8, <2>4, <2>5
<1>11. Chain(nx, fr) = run \cup rest
  <2>1. Closed(nx, run \cup rest)
    <3>1. \A c \in rest : nx[c] = Null \/ nx[c] \in rest
      BY <1>6, ChainClosed DEF Closed
    <3>2. ASSUME NEW c \in run PROVE nx[c] = Null \/ nx[c] \in run \cup rest
      <4>1. CASE nx[c] \in run
        BY <4>1
      <4>2. CASE nx[c] \notin run
        <5>1. c = last
          BY <1>3, <4>2
        <5> QED BY <1>6, <5>1, ChainClosed
      <4> QED BY <4>1, <4>2
    <3> QED BY <3>1, <3>2 DEF Closed
  <2>2. run \cup rest \in SUBSET Block
    BY <1>2, <1>6, ChainClosed
  <2>3. Chain(nx, fr) \subseteq run \cup rest
    BY <1>2, <2>1, <2>2, ChainLeast
  <2> QED BY <1>2, <1>9, <2>3
<1>12. IsFiniteSet(run) /\ Cardinality(run) = n
  <2>1. IsFiniteSet(run) /\ IsFiniteSet(rest)
    BY <1>2, <1>6, BlockFacts, FS_Subset, ChainFinite
  <2>2. Cardinality(run) \in Nat /\ Cardinality(rest) \in Nat
    BY <2>1, FS_CardinalityType
  <2>3. Cardinality(run \cup rest) = Cardinality(run) + Cardinality(rest)
    <3> HIDE DEF rest
    <3>1. Cardinality(run \cap rest) = 0
      BY <1>10, FS_EmptySet
    <3>2. Cardinality(run \cup rest) =
            Cardinality(run) + Cardinality(rest) - Cardinality(run \cap rest)
      BY <2>1, FS_Union
    <3> QED BY <2>2, <3>1, <3>2
  <2>4. Size(nx, fr) = Cardinality(run \cup rest) /\ Size(nx, nx[last]) = Cardinality(rest)
    BY <1>11 DEF Size
  <2>5. n \in Nat /\ Size(nx, fr) \in Nat
    BY <1>1, ChainFinite, BlockFacts
  <2> HIDE DEF rest
  <2> QED BY <1>8, <2>1, <2>2, <2>3, <2>4, <2>5
<1>13. Chain(nx2, nx[last]) = rest
  <2>1. \A c \in rest : nx2[c] = nx[c]
    BY <1>3, <1>4, <1>6, <1>10, ChainClosed
  <2> QED BY <1>6, <2>1, ChainSame
<1>14. Chain(nx2, fr) = run
  <2>1. Closed(nx2, run)
    BY <1>2, <1>3, <1>4 DEF Closed
  <2>2. Chain(nx2, fr) \subseteq run
    BY <1>2, <2>1, ChainLeast
  <2>3. Closed(nx, Chain(nx2, fr) \cup rest)
    <3>1. \A c \in rest : nx[c] = Null \/ nx[c] \in rest
      BY <1>6, ChainClosed DEF Closed
    <3>2. ASSUME NEW c \in Chain(nx2, fr)
          PROVE  nx[c] = Null \/ nx[c] \in Chain(nx2, fr) \cup rest
      <4>1. CASE c = last
        BY <1>6, <4>1, ChainClosed
      <4>2. CASE c # last
        <5>1. nx2[c] = nx[c]
          BY <1>1, <1>4, <4>2, ChainClosed, BlockFacts
        <5> QED BY <1>1, <5>1, ChainClosed, BlockFacts DEF Closed
      <4> QED BY <4>1, <4>2
    <3> QED BY <3>1, <3>2 DEF Closed
  <2>4. /\ Chain(nx2, fr) \cup rest \in SUBSET Block
        /\ fr \in Chain(nx2, fr)
    BY <1>1, <1>6, ChainClosed, BlockFacts
  <2>5. Chain(nx, fr) \subseteq Chain(nx2, fr) \cup rest
    BY <2>3, <2>4, ChainLeast
  <2> QED BY <1>2, <1>10, <2>2, <2>5
<1>15. ASSUME NEW c \in BlockId, Chain(nx, c) \cap Chain(nx, fr) = {}
       PROVE  Chain(nx2, c) = Chain(nx, c)
  <2>1. \A d \in Chain(nx, c) : nx2[d] = nx[d]
    BY <1>4, <1>6, <1>15, ChainClosed
  <2> QED BY <2>1, ChainSame
<1> QED BY <1>1, <1>2, <1>5, <1>10, <1>11, <1>12, <1>13, <1>14, <1>15

(***************************************************************************)
(* freeBlocks puts the chain of a file in front of the free list, when its *)
(* first block has no prev pointer to a block of another list.             *)
(***************************************************************************)
LEMMA FreeChains ==
  ASSUME NEW nx \in NextFunction, NextInjective(nx), NEW fr \in BlockId,
         NEW b, Root(nx, b), NoPredecessor(nx, fr), fr # b,
         NEW pv, pv[b] = Null,
         NEW nx2 \in NextFunction, nx2 = NextAfterFree(nx, pv, fr, b)
  PROVE  /\ Chain(nx2, b) = Chain(nx, b) \cup Chain(nx, fr)
         /\ \A c \in BlockId :
              Chain(nx, c) \cap Chain(nx, b) = {} => Chain(nx2, c) = Chain(nx, c)
<1> DEFINE C == Chain(nx, b)
           last == LastOf(nx, C)
<1>1. b \in Block /\ b \in BlockId /\ C \in SUBSET Block /\ b \in C /\ Closed(nx, C)
  BY ChainClosed, BlockFacts DEF Root
<1>2. last \in C /\ nx[last] = Null
  <2> HIDE DEF C
  <2>1. last \in C /\ nx[last] \notin C
    BY <1>1, RunHasLast DEF Root
  <2> QED BY <1>1, <2>1 DEF Closed
<1>3. \A c \in Block : nx2[c] = IF c = last THEN fr ELSE nx[c]
  BY BlockFacts DEF NextAfterFree
<1> HIDE DEF last
<1>4. \A c \in BlockId : C \cap Chain(nx, c) = {} => Chain(nx2, c) = Chain(nx, c)
  <2>1. SUFFICES ASSUME NEW c \in BlockId, C \cap Chain(nx, c) = {}
                 PROVE  Chain(nx2, c) = Chain(nx, c)
    OBVIOUS
  <2>2. \A d \in Chain(nx, c) : nx2[d] = nx[d]
    BY <1>2, <1>3, <2>1, ChainClosed
  <2> QED BY <2>2, ChainSame
<1>5. Chain(nx2, fr) = Chain(nx, fr)
  BY <1>1, <1>4, ChainsApart DEF Root
<1>6. Chain(nx2, b) = C \cup Chain(nx2, fr)
  <2>1. nx2[last] = fr /\ \A c \in C : c # last => nx2[c] = nx[c]
    BY <1>1, <1>2, <1>3
  <2> QED BY <1>1, <1>2, <2>1, ChainJoined
<1> QED BY <1>4, <1>5, <1>6

(***************************************************************************)
(* A chain attached to the end of another one is behind each block of it.  *)
(***************************************************************************)
LEMMA AttachChains ==
  ASSUME NEW nx \in NextFunction, NextInjective(nx), NEW b, Root(nx, b),
         NEW s \in Block, Chain(nx, s) \cap Chain(nx, b) = {},
         NEW tail \in Chain(nx, b), nx[tail] = Null,
         NEW nx2 \in NextFunction,
         \A c \in Block : nx2[c] = IF c = tail THEN s ELSE nx[c]
  PROVE  /\ \A c \in Chain(nx, b) :
              /\ Chain(nx2, c) = Chain(nx, c) \cup Chain(nx, s)
              /\ Size(nx2, c) = Size(nx, c) + Size(nx, s)
         /\ \A c \in BlockId :
              Chain(nx, c) \cap Chain(nx, b) = {} => Chain(nx2, c) = Chain(nx, c)
<1>1. b \in BlockId /\ Chain(nx, b) \subseteq Block /\ s \in BlockId
  BY ChainClosed, BlockFacts DEF Root
<1>2. \A c \in Block : nx2[c] = IF c = tail THEN s ELSE nx[c]
  OBVIOUS
<1>3. ASSUME NEW c \in BlockId, Chain(nx, c) \cap Chain(nx, b) = {}
      PROVE  Chain(nx2, c) = Chain(nx, c)
  <2>1. \A d \in Chain(nx, c) : nx2[d] = nx[d]
    BY <1>2, <1>3, ChainClosed
  <2> QED BY <2>1, ChainSame
<1>4. Chain(nx2, s) = Chain(nx, s)
  BY <1>1, <1>3
<1>5. ASSUME NEW c \in Chain(nx, b)
      PROVE  /\ Chain(nx2, c) = Chain(nx, c) \cup Chain(nx, s)
             /\ Size(nx2, c) = Size(nx, c) + Size(nx, s)
  <2>1. c \in Block /\ c \in BlockId /\ Chain(nx, c) \subseteq Chain(nx, b)
    BY <1>1, SubChain, BlockFacts
  <2>2. tail \in Chain(nx, c) /\ nx2[tail] = s
    BY <1>1, <1>2, EndReached
  <2>3. \A d \in Chain(nx, c) : d # tail => nx2[d] = nx[d]
    BY <1>1, <1>2, <2>1
  <2>4. Chain(nx2, c) = Chain(nx, c) \cup Chain(nx, s)
    <3>1. Chain(nx2, c) = Chain(nx, c) \cup Chain(nx2, nx2[tail])
      BY <2>1, <2>2, <2>3, ChainJoined
    <3> QED BY <1>4, <2>2, <3>1
  <2>5. /\ IsFiniteSet(Chain(nx, c)) /\ IsFiniteSet(Chain(nx, s))
        /\ Size(nx, c) \in Nat /\ Size(nx, s) \in Nat
    BY <1>1, <2>1, ChainFinite
  <2>6. Cardinality(Chain(nx, c) \cap Chain(nx, s)) = 0
    <3>1. Chain(nx, c) \cap Chain(nx, s) = {}
      BY <2>1
    <3> QED BY <3>1, FS_EmptySet
  <2>7. Cardinality(Chain(nx, c) \cup Chain(nx, s)) =
          Cardinality(Chain(nx, c)) + Cardinality(Chain(nx, s))
            - Cardinality(Chain(nx, c) \cap Chain(nx, s))
    BY <2>5, FS_Union
  <2>8. Cardinality(Chain(nx2, c)) =
          Cardinality(Chain(nx, c)) + Cardinality(Chain(nx, s))
    BY <2>4, <2>5, <2>6, <2>7 DEF Size
  <2> QED BY <2>4, <2>8 DEF Size
<1> QED BY <1>3, <1>5

-----------------------------------------------------------------------------
(***************************************************************************)
(* Arithmetic: a transfer from position p to position q makes as many hops *)
(* as the blocks of p and q are apart.                                     *)
(***************************************************************************)
LEMMA Multiples ==
  ASSUME NEW p \in Nat, NEW q \in Nat
  PROVE  /\ BlockDataSize * p \in Nat
         /\ p < q => BlockDataSize * p + BlockDataSize <= BlockDataSize * q
         /\ BlockDataSize * (p + 1) = BlockDataSize * p + BlockDataSize
<1>1. BlockDataSize \in Nat \ {0}
  BY GeometryAssumption
<1>2. BlockDataSize * p \in Nat /\ BlockDataSize * q \in Nat
  BY <1>1
<1>3. BlockDataSize * (p + 1) = BlockDataSize * p + BlockDataSize
  BY <1>1
<1>4. ASSUME p < q PROVE BlockDataSize * p + BlockDataSize <= BlockDataSize * q
  <2>1. PICK d \in Nat : q = p + 1 + d
    <3>1. q - p - 1 \in Nat /\ q = p + 1 + (q - p - 1)
      BY <1>4
    <3> QED BY <3>1
  <2>2. BlockDataSize * q = BlockDataSize * p + BlockDataSize + BlockDataSize * d
    BY <1>1, <2>1
  <2>3. BlockDataSize * d \in Nat
    BY <1>1
  <2> QED BY <1>1, <1>2, <2>2, <2>3
<1> QED BY <1>2, <1>3, <1>4

LEMMA QuotientUnique ==
  ASSUME NEW a \in Nat, NEW q \in Nat,
         BlockDataSize * q <= a, a < BlockDataSize * q + BlockDataSize
  PROVE  a \div BlockDataSize = q
<1>1. PICK p, r : p = a \div BlockDataSize /\ r = a % BlockDataSize
  OBVIOUS
<1>2. /\ p \in Nat /\ r \in Nat /\ r < BlockDataSize
      /\ a = BlockDataSize * p + r /\ BlockDataSize \in Nat
  BY <1>1, Division, GeometryAssumption DEF Offset
<1>3. PICK x, y : x = BlockDataSize * p /\ y = BlockDataSize * q
  OBVIOUS
<1>4. x \in Nat /\ y \in Nat
  BY <1>2, <1>3, Multiples
<1>5. ~ (p < q)
  <2>1. p < q => x + BlockDataSize <= y
    BY <1>2, <1>3, Multiples
  <2> QED BY <1>2, <1>3, <1>4, <2>1
<1>6. ~ (q < p)
  <2>1. q < p => y + BlockDataSize <= x
    BY <1>2, <1>3, Multiples
  <2> QED BY <1>2, <1>3, <1>4, <2>1
<1> QED BY <1>1, <1>2, <1>5, <1>6

\* The block of a position, by the bytes before it.
LEMMA IndexRange ==
  ASSUME NEW a \in Nat
  PROVE  /\ BlockIndex(a) \in Nat
         /\ a = 0 => BlockIndex(a) = 0
         /\ a # 0 => BlockDataSize * BlockIndex(a) < a
         /\ a <= BlockDataSize * BlockIndex(a) + BlockDataSize
<1>1. BlockDataSize \in Nat \ {0}
  BY GeometryAssumption
<1>2. CASE a = 0
  <2>1. BlockIndex(a) = 0 /\ BlockDataSize * 0 = 0
    BY <1>1, <1>2 DEF BlockIndex
  <2> QED BY <1>1, <1>2, <2>1
<1>3. CASE a # 0
  <2>1. a - 1 \in Nat /\ BlockIndex(a) = (a - 1) \div BlockDataSize
    BY <1>3 DEF BlockIndex
  <2>2. PICK q, r : q = (a - 1) \div BlockDataSize /\ r = (a - 1) % BlockDataSize
    OBVIOUS
  <2>3. /\ q \in Nat /\ r \in Nat /\ r < BlockDataSize
        /\ a - 1 = BlockDataSize * q + r
    BY <2>1, <2>2, Division, <1>1 DEF Offset
  <2>4. BlockDataSize * q \in Nat
    BY <2>3, Multiples
  <2> QED BY <1>1, <1>3, <2>1, <2>2, <2>3, <2>4
<1> QED BY <1>2, <1>3

LEMMA IndexUnique ==
  ASSUME NEW a \in Nat, NEW q \in Nat, a # 0,
         BlockDataSize * q < a, a <= BlockDataSize * q + BlockDataSize
  PROVE  BlockIndex(a) = q
<1>1. a - 1 \in Nat /\ BlockIndex(a) = (a - 1) \div BlockDataSize
  BY DEF BlockIndex
<1>2. PICK x : x = BlockDataSize * q
  OBVIOUS
<1>3. x \in Nat /\ BlockDataSize \in Nat
  BY <1>2, Multiples, GeometryAssumption
<1>4. x <= a - 1 /\ a - 1 < x + BlockDataSize
  BY <1>2, <1>3
<1> QED BY <1>1, <1>2, <1>4, QuotientUnique

LEMMA IndexMonotone ==
  ASSUME NEW a \in Nat, NEW b \in Nat, a <= b
  PROVE  BlockIndex(a) <= BlockIndex(b)
<1>1. CASE a = 0
  BY <1>1, IndexRange
<1>2. CASE a # 0
  <2>1. a - 1 \in Nat /\ b - 1 \in Nat /\ a - 1 <= b - 1 /\ b # 0
    BY <1>2
  <2> QED BY <1>2, <2>1, DivisionMonotone DEF BlockIndex
<1> QED BY <1>1, <1>2

LEMMA RoundUpIndex ==
  ASSUME NEW a \in Nat
  PROVE  /\ RoundUp(a) = BlockDataSize * BlockIndex(a) + BlockDataSize
         /\ BlocksFor(a) = 1 + BlockIndex(a)
<1>1. PICK x : x = IF a = 0 THEN 0 ELSE a - 1
  OBVIOUS
<1>2. PICK q : q = BlockIndex(a)
  OBVIOUS
<1>3. x \in Nat /\ q \in Nat /\ BlockDataSize \in Nat \ {0}
  BY <1>1, <1>2, IndexRange, GeometryAssumption
<1>4. q = x \div BlockDataSize
  <2>1. CASE a = 0
    <3>1. x = 0 /\ q = 0 /\ 0 \div BlockDataSize = 0
      BY <1>1, <1>2, <1>3, <2>1 DEF BlockIndex
    <3> QED BY <3>1
  <2>2. CASE a # 0
    BY <1>1, <1>2, <2>2 DEF BlockIndex
  <2> QED BY <2>1, <2>2
<1>5. RoundUp(a) = BlockDataSize * (1 + q)
  <2>1. (IF a = 0 THEN 1 ELSE a) + BlockDataSize - 1 = x + BlockDataSize
    BY <1>1, <1>3
  <2>2. RoundUp(a) = BlockDataSize * ((x + BlockDataSize) \div BlockDataSize)
    BY <2>1 DEF RoundUp
  <2> QED BY <1>3, <1>4, <2>2, DivisionNextBlock
<1>6. RoundUp(a) = BlockDataSize * q + BlockDataSize /\ BlockDataSize * q \in Nat
  BY <1>3, <1>5, Multiples
<1>7. RoundUp(a) \div BlockDataSize = q + 1
  <2>1. PICK r : r = RoundUp(a)
    OBVIOUS
  <2>2. r \in Nat /\ BlockDataSize * (q + 1) = r /\ r < r + BlockDataSize /\ r <= r
    BY <1>3, <1>5, <1>6, <2>1, Multiples
  <2>3. r \div BlockDataSize = q + 1
    <3>1. q + 1 \in Nat
      BY <1>3
    <3> QED BY <2>2, <3>1, QuotientUnique
  <2> QED BY <2>1, <2>3
<1> QED BY <1>2, <1>3, <1>6, <1>7 DEF BlocksFor

LEMMA HopsForIndex ==
  ASSUME NEW pos \in Nat, NEW n \in Nat
  PROVE  HopsFor(pos, n) = BlockIndex(pos + n) - BlockIndex(pos)
<1> DEFINE D == BlockDataSize
<1>1. PICK end, i, j, up : /\ end = pos + n /\ i = BlockIndex(pos)
                           /\ j = BlockIndex(end) /\ up = RoundUp(pos)
  OBVIOUS
<1>2. /\ D \in Nat \ {0} /\ end \in Nat /\ i \in Nat /\ j \in Nat
      /\ D * i \in Nat /\ D * j \in Nat /\ pos <= end
      /\ up = D * i + D /\ pos <= up
      /\ end <= D * j + D /\ (end # 0 => D * j < end)
      /\ (pos = 0 => i = 0) /\ (pos # 0 => D * i < pos)
  <2>1. D \in Nat \ {0} /\ end \in Nat /\ pos <= end
    BY <1>1, GeometryAssumption
  <2>2. /\ i \in Nat /\ (pos = 0 => i = 0) /\ (pos # 0 => D * i < pos)
        /\ pos <= D * i + D /\ up = D * i + D
    BY <1>1, IndexRange, RoundUpIndex
  <2>3. j \in Nat /\ end <= D * j + D /\ (end # 0 => D * j < end)
    BY <1>1, <2>1, IndexRange
  <2>4. D * i \in Nat /\ D * j \in Nat
    BY <2>2, <2>3, Multiples
  <2> QED BY <2>1, <2>2, <2>3, <2>4
<1>3. FirstChunk(pos, n) = IF up - pos < n THEN up - pos ELSE n
  BY <1>1 DEF FirstChunk, SizeMin
<1>4. CASE ~ (up - pos < n)
  <2>1. HopsFor(pos, n) = (D - 1) \div D
    <3>1. n - n + D - 1 = D - 1
      BY <1>2
    <3> QED BY <1>3, <1>4, <3>1 DEF HopsFor
  <2>2. (D - 1) \div D = 0
    <3>1. D - 1 \in Nat /\ D * 0 = 0
      BY <1>2
    <3> QED BY <1>2, <3>1, QuotientUnique
  <2>3. end <= up
    BY <1>1, <1>2, <1>4
  <2>4. j = i
    <3>1. CASE end = 0
      BY <1>1, <1>2, <3>1, IndexRange
    <3>2. CASE end # 0
      <4>1. D * i < end
        <5>1. CASE pos = 0
          BY <1>2, <3>2, <5>1
        <5>2. CASE pos # 0
          BY <1>2, <5>2
        <5> QED BY <5>1, <5>2
      <4> QED BY <1>1, <1>2, <2>3, <3>2, <4>1, IndexUnique
    <3> QED BY <3>1, <3>2
  <2> QED BY <1>1, <1>2, <2>1, <2>2, <2>4
<1>5. CASE up - pos < n
  <2>1. PICK rest : rest = end - 1 - D * i
    OBVIOUS
  <2>2. n - (up - pos) + D - 1 = rest
    BY <1>1, <1>2, <2>1
  <2>3. HopsFor(pos, n) = rest \div D
    BY <1>3, <1>5, <2>2 DEF HopsFor
  <2>4. up < end /\ end # 0
    BY <1>1, <1>2, <1>5
  <2>5. i < j
    <3>1. i = j \/ j < i => D * j <= D * i
      BY <1>2, Multiples
    <3> QED BY <1>2, <2>4, <3>1
  <2>6. PICK d \in Nat : j = i + d
    <3>1. j - i \in Nat /\ j = i + (j - i)
      BY <1>2, <2>5
    <3> QED BY <3>1
  <2>7. D * j = D * i + D * d /\ D * d \in Nat
    BY <1>2, <2>6
  <2>8. rest \in Nat /\ D * d <= rest /\ rest < D * d + D
    BY <1>2, <2>1, <2>4, <2>7
  <2>9. rest \div D = d
    BY <2>8, QuotientUnique
  <2> QED BY <1>1, <1>2, <2>3, <2>6, <2>9
<1> QED BY <1>4, <1>5

LEMMA AddlBlocksIndex ==
  ASSUME NEW fd, NEW len \in Nat, NEW pos \in Nat, pos = fds[fd].pos,
         NEW size \in Nat, size = FileSize(fd)
  PROVE  /\ Enlarges(fd, len) =>
              /\ BlockIndex(size) < BlockIndex(pos + len)
              /\ AddlBlocks(fd, len) = BlockIndex(pos + len) - BlockIndex(size)
         /\ ~ Enlarges(fd, len) =>
              /\ BlockIndex(pos + len) <= BlockIndex(size)
              /\ AddlBlocks(fd, len) = 0
<1> DEFINE D == BlockDataSize
<1>1. PICK end, i, j : /\ end = pos + len /\ i = BlockIndex(size)
                       /\ j = BlockIndex(end)
  OBVIOUS
<1>2. /\ D \in Nat \ {0} /\ end \in Nat /\ i \in Nat /\ j \in Nat
      /\ D * i \in Nat /\ D * j \in Nat
      /\ RoundUp(size) = D * i + D /\ RoundUp(end) = D * j + D
      /\ end <= D * j + D /\ (end # 0 => D * j < end) /\ (end = 0 => j = 0)
  <2>1. D \in Nat \ {0} /\ end \in Nat
    BY <1>1, GeometryAssumption
  <2>2. i \in Nat /\ RoundUp(size) = D * i + D
    BY <1>1, IndexRange, RoundUpIndex
  <2>3. /\ j \in Nat /\ RoundUp(end) = D * j + D
        /\ end <= D * j + D /\ (end # 0 => D * j < end) /\ (end = 0 => j = 0)
    BY <1>1, <2>1, IndexRange, RoundUpIndex
  <2>4. D * i \in Nat /\ D * j \in Nat
    BY <2>2, <2>3, Multiples
  <2> QED BY <2>1, <2>2, <2>3, <2>4
<1>3. EndPos(fd, len) = end /\ (Enlarges(fd, len) <=> end > D * i + D)
  BY <1>1, <1>2 DEF EndPos, Enlarges
<1>4. CASE Enlarges(fd, len)
  <2>1. i < j
    <3>1. i = j \/ j < i => D * j <= D * i
      BY <1>2, Multiples
    <3> QED BY <1>2, <1>3, <1>4, <3>1
  <2>2. PICK d \in Nat : j = i + d
    <3>1. j - i \in Nat /\ j = i + (j - i)
      BY <1>2, <2>1
    <3> QED BY <3>1
  <2>3. D * j = D * i + D * d /\ D * d \in Nat
    BY <1>2, <2>2
  <2>4. AddlBlocks(fd, len) = (D * d) \div D
    <3>1. RoundUp(end) - RoundUp(size) = D * d
      BY <1>2, <2>3
    <3> QED BY <1>3, <1>4, <3>1 DEF AddlBlocks
  <2>5. (D * d) \div D = d
    <3>1. PICK x : x = D * d
      OBVIOUS
    <3>2. x \in Nat /\ D * d <= x /\ x < D * d + D
      BY <1>2, <2>3, <3>1
    <3> QED BY <3>1, <3>2, QuotientUnique
  <2> QED BY <1>1, <1>2, <1>4, <2>1, <2>2, <2>4, <2>5
<1>5. CASE ~ Enlarges(fd, len)
  <2>1. ~ (i < j)
    <3>1. i < j => D * i + D <= D * j
      BY <1>2, Multiples
    <3> QED BY <1>2, <1>3, <1>5, <3>1
  <2> QED BY <1>1, <1>2, <1>5, <2>1 DEF AddlBlocks
<1> QED BY <1>4, <1>5

-----------------------------------------------------------------------------
(***************************************************************************)
(* The inductive invariant.  A descriptor d is in step with the disk: its  *)
(* currBlock is as many hops into its file as its position says.           *)
(***************************************************************************)
Follows(nx, dr, d) ==
  LET b == dr[d.entry].first IN
  /\ b # Null
  /\ d.pos <= dr[d.entry].size
  /\ d.curr \in Chain(nx, b)
  /\ Hops(nx, b, d.curr) = BlockIndex(d.pos)

\* Files are as long as their sizes say, no block is lost, names are unique, and
\* the first block of a list has no prev pointer: freeBlocks would cut the list
\* that such a pointer leads to.
NoPrev(pv, b) == b # Null => pv[b] = Null

\* The blocks of every file hold no more than the greatest size.
SizesHeld(dr) == \A e \in Entry : dr[e].first # Null => RoundUp(dr[e].size) <= MaxFileSize

CarefulDisk(nx, pv, fr, dr) ==
  /\ \A e \in Entry : dr[e].first # Null =>
       Size(nx, dr[e].first) = BlocksFor(dr[e].size)
  /\ \A b \in Block : \/ b \in Chain(nx, fr)
                      \/ \E e \in Entry : b \in Chain(nx, dr[e].first)
  /\ \A d, e \in Entry :
       d # e /\ dr[d].first # Null /\ dr[e].first # Null => dr[d].name # dr[e].name
  /\ NoPrev(pv, fr)
  /\ \A e \in Entry : NoPrev(pv, dr[e].first)
  /\ SizesHeld(dr)

\* Open files are mapped: the client unmounts only when there are none.
MappedIn(table, up) == \A e \in Entry : table[e].refCount > 0 => up /\ table[e].mapped

CInv ==
  /\ IInv
  /\ CarefulDisk(next, prev, freelist, dir)
  /\ \A fd \in Fd : fds[fd] # NoDesc => Follows(next, dir, fds[fd])
  /\ MappedIn(openFile, mounted)
  /\ status = "running"

LEMMA CInvMeans ==
  ASSUME CInv
  PROVE  SpaceAccounted /\ CurrBlockTracksPos /\ NamesUnique /\ NeverAborts
<1>1. LengthsAgree
  BY DEF CInv, CarefulDisk, LengthsAgree, Live, FileChain, Size
<1>2. NoneLost
  <2>1. FreeChain \subseteq Block /\ \A e \in Entry : FileChain(e) \subseteq Block
    BY DEF FreeChain, FileChain, Chain
  <2>2. \A b \in Block : b \in FreeChain \/ \E e \in Entry : b \in FileChain(e)
    BY DEF CInv, CarefulDisk, FreeChain, FileChain
  <2> QED BY <2>1, <2>2 DEF NoneLost
<1>3. CurrBlockTracksPos
  BY DEF CInv, Follows, CurrBlockTracksPos, Live, FileChain
<1>4. NamesUnique /\ NeverAborts
  BY DEF CInv, CarefulDisk, NamesUnique, NeverAborts, Live
<1> QED BY <1>1, <1>2, <1>3, <1>4 DEF SpaceAccounted

\* The roots of the disk, and that their chains are apart.
LEMMA DiskRoots ==
  ASSUME IInv
  PROVE  /\ next \in NextFunction /\ prev \in NextFunction /\ btype \in TypeFunction
         /\ NextInjective(next)
         /\ freelist \in BlockId /\ NoPredecessor(next, freelist)
         /\ ListInv(next, btype, freelist, Firsts, Null) /\ Firsts \in FirstFunction
         /\ \A b \in Block : next[b] # Null => btype[next[b]] = btype[b]
         /\ \A e \in Entry :
              /\ dir[e] \in DirEntry /\ dir[e].first \in BlockId
              /\ Firsts[e] = dir[e].first /\ dir[e].size \in Nat
              /\ NoPredecessor(next, dir[e].first)
              /\ dir[e].first # Null =>
                   /\ Root(next, dir[e].first)
                   /\ btype[dir[e].first] = "file" /\ dir[e].first # freelist
         /\ \A d, e \in Entry :
              d # e /\ dir[d].first # Null => dir[d].first # dir[e].first
<1>1. /\ DiskOK /\ ListInv(next, btype, freelist, Firsts, Null)
      /\ next \in NextFunction /\ prev \in NextFunction /\ btype \in TypeFunction
      /\ freelist \in BlockId /\ dir \in [Entry -> DirEntry]
  BY IInvParts DEF DiskOK, ListsOK
<1>2. Firsts \in FirstFunction /\ \A e \in Entry : Firsts[e] = dir[e].first
  BY <1>1, FirstTypes
<1>3. \A e \in Entry : /\ dir[e] \in DirEntry /\ dir[e].first \in BlockId
                       /\ dir[e].size \in Nat
  BY <1>1 DEF DirEntry
<1> QED BY <1>1, <1>2, <1>3, BlockFacts DEF ListInv, Root

LEMMA ChainsOfDisk ==
  ASSUME IInv
  PROVE  /\ \A e \in Entry : Chain(next, dir[e].first) \cap Chain(next, freelist) = {}
         /\ \A d, e \in Entry :
              d # e => Chain(next, dir[d].first) \cap Chain(next, dir[e].first) = {}
<1>1. ASSUME NEW e \in Entry
      PROVE  Chain(next, dir[e].first) \cap Chain(next, freelist) = {}
  <2>1. CASE dir[e].first = Null
    BY <2>1, NullChain
  <2>2. CASE dir[e].first # Null
    BY <2>2, DiskRoots, ChainsApart
  <2> QED BY <2>1, <2>2
<1>2. ASSUME NEW d \in Entry, NEW e \in Entry, d # e
      PROVE  Chain(next, dir[d].first) \cap Chain(next, dir[e].first) = {}
  <2>1. CASE dir[d].first = Null
    BY <2>1, NullChain
  <2>2. CASE dir[d].first # Null
    BY <1>2, <2>2, DiskRoots, ChainsApart
  <2> QED BY <2>1, <2>2
<1> QED BY <1>1, <1>2

\* Blocks of a file are of its type.
LEMMA FileBlocks ==
  ASSUME IInv, NEW e \in Entry, dir[e].first # Null, NEW c \in Chain(next, dir[e].first)
  PROVE  c \in Block /\ btype[c] = "file"
<1>1. dir[e].first \in Block /\ btype[dir[e].first] = "file"
  BY DiskRoots DEF Root
<1> QED BY <1>1, DiskRoots, ChainType, ChainClosed

\* A table entry is in use as long as a descriptor refers to it.
LEMMA UsersOfOpen ==
  ASSUME IInv, NEW e \in Entry
  PROVE  /\ openFile[e].refCount \in Nat /\ openFile[e] \in OpenInfo
         /\ InUse(e) <=> \E fd \in Fd : fds[fd] # NoDesc /\ fds[fd].entry = e
<1>1. openFile[e] \in OpenInfo /\ openFile[e].refCount \in Nat
      /\ openFile[e].refCount = Cardinality(Users(fds, e))
  BY IInvParts DEF TablesOK, OpenInfo
<1>2. IsFiniteSet(Users(fds, e))
  <2>1. IsFiniteSet(Fd) /\ Users(fds, e) \subseteq Fd
    BY FS_Interval, ClientAssumption DEF Fd, Users
  <2> QED BY <2>1, FS_Subset
<1>3. openFile[e].refCount = 0 <=> Users(fds, e) = {}
  BY <1>1, <1>2, FS_EmptySet
<1> QED BY <1>1, <1>3 DEF InUse, Users

LEMMA OpenFileMapped ==
  ASSUME CInv, NEW fd \in Fd, fds[fd] # NoDesc
  PROVE  mounted /\ Mapped(fd) /\ InUse(fds[fd].entry)
<1>1. IInv /\ fds[fd].entry \in Entry
  BY DescTypes DEF CInv
<1>2. InUse(fds[fd].entry)
  BY <1>1, UsersOfOpen
<1> QED BY <1>1, <1>2 DEF CInv, MappedIn, InUse, Mapped

\* What a descriptor in step says of its file.
LEMMA FollowFacts ==
  ASSUME CInv, NEW fd \in Fd, fds[fd] # NoDesc
  PROVE  LET e    == fds[fd].entry
             b    == dir[e].first
             curr == fds[fd].curr
         IN  /\ IInv /\ e \in Entry /\ b # Null /\ Root(next, b) /\ b \in Block
             /\ dir[e].size \in Nat /\ fds[fd].pos \in Nat
             /\ fds[fd].pos <= dir[e].size
             /\ curr \in Chain(next, b) /\ curr \in Block /\ btype[curr] = "file"
             /\ Size(next, b) = 1 + BlockIndex(dir[e].size)
             /\ Size(next, curr) = Size(next, b) - BlockIndex(fds[fd].pos)
             /\ FileSize(fd) = dir[e].size
<1> DEFINE e    == fds[fd].entry
           b    == dir[e].first
           curr == fds[fd].curr
<1>1. IInv /\ e \in Entry /\ fds[fd].pos \in Nat /\ curr \in Block
  BY DescTypes DEF CInv
<1>2. Follows(next, dir, fds[fd]) /\ CarefulDisk(next, prev, freelist, dir)
  BY DEF CInv
<1>3. b # Null /\ curr \in Chain(next, b) /\ fds[fd].pos <= dir[e].size
      /\ Hops(next, b, curr) = BlockIndex(fds[fd].pos)
  BY <1>2 DEF Follows
<1>4. Root(next, b) /\ dir[e].size \in Nat /\ b \in Block /\ b \in BlockId
  BY <1>1, <1>3, DiskRoots DEF Root
<1>5. btype[curr] = "file"
  BY <1>1, <1>3, FileBlocks
<1>6. Size(next, b) = 1 + BlockIndex(dir[e].size)
  BY <1>1, <1>2, <1>3, <1>4, RoundUpIndex DEF CarefulDisk
<1>7. Size(next, b) \in Nat /\ Size(next, curr) \in Nat /\ BlockIndex(fds[fd].pos) \in Nat
  BY <1>1, <1>3, <1>4, DiskRoots, SizePositive, ChainClosed, IndexRange, BlockFacts
<1>8. Size(next, curr) = Size(next, b) - BlockIndex(fds[fd].pos)
  BY <1>3, <1>7 DEF Hops, Size
<1> QED BY <1>1, <1>3, <1>4, <1>5, <1>6, <1>8 DEF FileSize

\* The greatest size is no whole number of blocks.
LEMMA HeldFits ==
  ASSUME NEW a \in Nat, RoundUp(a) <= MaxFileSize
  PROVE  a < MaxFileSize
<1>1. PICK i, q, up : i = BlockIndex(a) /\ q = i + 1 /\ up = RoundUp(a)
  OBVIOUS
<1>2. /\ q \in Nat /\ BlockDataSize * q \in Nat
      /\ up = BlockDataSize * q /\ up \in Nat /\ a <= up
  <2>1. i \in Nat /\ up = BlockDataSize * i + BlockDataSize
    BY <1>1, IndexRange, RoundUpIndex
  <2>2. up \in Nat /\ a <= up
    BY <1>1, RoundUpFacts
  <2>3. BlockDataSize * (i + 1) = BlockDataSize * i + BlockDataSize
        /\ i + 1 \in Nat
    BY <2>1, Multiples
  <2> QED BY <1>1, <2>1, <2>2, <2>3
<1>3. up # MaxFileSize
  <2>1. SUFFICES ASSUME up = MaxFileSize PROVE FALSE
    OBVIOUS
  <2>2. BlockDataSize \in Nat \ {0}
    BY GeometryAssumption
  <2>3. up \div BlockDataSize = q
    BY <1>2, <2>2, QuotientUnique
  <2>4. up = BlockDataSize * (up \div BlockDataSize) + (up % BlockDataSize)
        /\ up % BlockDataSize \in Nat
    BY <1>2, Division DEF Offset
  <2>5. up % BlockDataSize = 0
    BY <1>2, <2>3, <2>4
  <2> QED BY <2>1, <2>5, LimitAssumption
<1>4. up <= MaxFileSize /\ MaxFileSize \in Nat
  BY <1>1, GeometryAssumption
<1> QED BY ONLY <1>2, <1>3, <1>4, a \in Nat

\* An empty file has a block, which the greatest size does not fill.
LEMMA EmptyHeld == RoundUp(0) <= MaxFileSize
<1>1. BlockIndex(0) = 0 /\ BlockDataSize * 0 = 0 /\ 0 + BlockDataSize = BlockDataSize
  BY IndexRange, GeometryAssumption
<1>2. RoundUp(0) = BlockDataSize
  BY <1>1, RoundUpIndex
<1> QED BY <1>2, LimitAssumption

LEMMA SizeLimited ==
  ASSUME CInv, NEW fd \in Fd, fds[fd] # NoDesc, NEW len \in Lens, ~ WriteTooBig(fd, len),
         NEW size \in Nat,
         size = IF EndPos(fd, len) > FileSize(fd) THEN EndPos(fd, len) ELSE FileSize(fd)
  PROVE  SizeFits(fd, len) /\ RoundUp(size) <= MaxFileSize
<1>1. PICK pos, old, end : pos = fds[fd].pos /\ old = FileSize(fd) /\ end = pos + len
  OBVIOUS
<1>2. /\ pos \in Nat /\ old \in Nat /\ len \in Nat /\ end \in Nat
      /\ EndPos(fd, len) = end /\ RoundUp(old) \in Nat /\ RoundUp(end) \in Nat
      /\ MaxFileSize \in Nat
  <2>1. pos \in Nat /\ old \in Nat /\ len \in Nat
    BY <1>1, FollowFacts, ClientAssumption DEF Lens
  <2>2. end \in Nat /\ EndPos(fd, len) = end
    BY <1>1, <2>1 DEF EndPos
  <2> QED BY <2>1, <2>2, RoundUpFacts, GeometryAssumption
<1>3. RoundUp(old) <= MaxFileSize
  <2>1. /\ fds[fd].entry \in Entry /\ dir[fds[fd].entry].first # Null
        /\ old = dir[fds[fd].entry].size
    BY <1>1, FollowFacts
  <2> QED BY <2>1 DEF CInv, CarefulDisk, SizesHeld
<1>4. CASE end > old
  <2>1. RoundUp(end) <= MaxFileSize
    <3>1. CASE Enlarges(fd, len)
      BY <1>2, <3>1 DEF WriteTooBig
    <3>2. CASE ~ Enlarges(fd, len)
      <4>1. end <= RoundUp(old)
        BY <1>1, <1>2, <3>2 DEF Enlarges
      <4>2. PICK i, j : i = BlockIndex(old) /\ j = BlockIndex(end)
        OBVIOUS
      <4>3. j <= i /\ i \in Nat /\ j \in Nat
        BY <1>1, <1>2, <3>2, <4>2, AddlBlocksIndex, IndexRange
      <4>4. RoundUp(old) = BlockDataSize * i + BlockDataSize
            /\ RoundUp(end) = BlockDataSize * j + BlockDataSize
        BY <1>2, <4>2, RoundUpIndex
      <4>5. j < i => BlockDataSize * j + BlockDataSize <= BlockDataSize * i
        BY <4>3, Multiples
      <4>6. /\ BlockDataSize * i \in Nat /\ BlockDataSize * j \in Nat
            /\ BlockDataSize \in Nat
        BY <4>3, Multiples, GeometryAssumption
      <4>7. RoundUp(end) <= RoundUp(old)
        <5>1. CASE i = j
          BY <1>2, <4>4, <5>1
        <5>2. CASE j < i
          BY <4>4, <4>5, <4>6, <5>2
        <5> QED BY <4>3, <5>1, <5>2
      <4> QED BY <1>2, <1>3, <4>7
    <3> QED BY <3>1, <3>2
  <2>2. size = end /\ end < MaxFileSize
    BY <1>1, <1>2, <1>4, <2>1, HeldFits
  <2> QED BY <1>2, <2>1, <2>2 DEF SizeFits
<1>5. CASE ~ (end > old)
  BY <1>1, <1>2, <1>3, <1>5 DEF SizeFits
<1> QED BY <1>4, <1>5

\* The free list has free blocks only, so allocateBlocks finds no other.
LEMMA NoAllocationAborts ==
  ASSUME IInv, NEW n
  PROVE  ~ AllocationAborts(next, btype, freelist, n)
<1>1. CASE freelist = Null
  BY <1>1, NullChain DEF AllocationAborts
<1>2. CASE freelist # Null
  <2>1. /\ freelist \in Block /\ btype[freelist] = "free"
        /\ next \in NextFunction /\ btype \in TypeFunction
        /\ \A b \in Block : next[b] # Null => btype[next[b]] = btype[b]
    BY <1>2, DiskRoots, BlockFacts DEF ListInv
  <2>2. \A c \in Chain(next, freelist) : btype[c] = "free"
    BY <2>1, ChainType
  <2> QED BY <2>2 DEF AllocationAborts
<1> QED BY <1>1, <1>2

\* A file that outgrows its blocks needs one more at least.
LEMMA NoGrowthAborts ==
  ASSUME CInv, NEW fd \in Fd, fds[fd] # NoDesc, NEW len \in Lens
  PROVE  ~ GrowthAborts(fd, len)
<1>1. SUFFICES ASSUME Enlarges(fd, len) PROVE AddlBlocks(fd, len) # 0
  BY NoAllocationAborts DEF GrowthAborts, CInv
<1>2. PICK pos, old : pos = fds[fd].pos /\ old = FileSize(fd)
  OBVIOUS
<1>3. pos \in Nat /\ old \in Nat /\ len \in Nat /\ pos + len \in Nat
  BY <1>2, FollowFacts, ClientAssumption DEF Lens
<1>4. PICK i, j : i = BlockIndex(old) /\ j = BlockIndex(pos + len)
  OBVIOUS
<1>5. i \in Nat /\ j \in Nat /\ i < j /\ AddlBlocks(fd, len) = j - i
  BY <1>1, <1>2, <1>3, <1>4, AddlBlocksIndex, IndexRange
<1> QED BY <1>5

(***************************************************************************)
(* Calls that leave the disk as it is.                                     *)
(***************************************************************************)
LEMMA DiskStays ==
  ASSUME CInv, IInv', UNCHANGED diskVars, status' = "running",
         \A fd \in Fd : fds'[fd] # NoDesc => Follows(next, dir, fds'[fd]),
         MappedIn(openFile', mounted')
  PROVE  CInv'
BY DEF CInv, diskVars

LEMMA NothingChanges ==
  ASSUME CInv, IInv', UNCHANGED diskVars, UNCHANGED memVars, UNCHANGED status
  PROVE  CInv'
BY DiskStays DEF CInv, memVars

LEMMA FailKeepsCInv ==
  ASSUME CInv, NEW c \in Code, FailUnchanged(c)
  PROVE  CInv'
BY FailKeepsIInv, NothingChanges DEF CInv, FailUnchanged

\* A formatted disk: all its blocks are on the free list.
LEMMA FormattedCareful ==
  CarefulDisk(FormattedNext, FormattedPrev, 1, FormattedDir)
<1>1. \A e \in Entry : FormattedDir[e].first = Null
  BY DEF FormattedDir, UnusedEntry
<1>2. Chain(FormattedNext, 1) = Block
  <2>1. PICK nx : nx = FormattedNext
    OBVIOUS
  <2>2. /\ nx \in NextFunction /\ 1 \in Block /\ 1 # Null /\ 1 \in BlockId
        /\ \A b \in Block : nx[b] = IF b + 1 = NBlocks THEN Null ELSE b + 1
    BY <2>1, GeometryAssumption DEF FormattedNext, NextFunction, Block, BlockId, Null
  <2>3. PICK C : C = Chain(nx, 1)
    OBVIOUS
  <2>4. C \subseteq Block /\ 1 \in C /\ \A c \in C : nx[c] = Null \/ nx[c] \in C
    BY <2>2, <2>3, ChainClosed DEF Closed
  <2> DEFINE Bad == Block \ C
  <2>5. Bad = {}
    <3>1. SUFFICES ASSUME Bad # {} PROVE FALSE
      OBVIOUS
    <3>2. PICK m \in Bad : \A j \in Bad : m <= j
      <4>1. Bad \in SUBSET Nat
        BY GeometryAssumption DEF Block
      <4> HIDE DEF Bad
      <4> QED BY <3>1, <4>1, LeastNumber
    <3>3. /\ m \in Block /\ m \notin C /\ m # 1 /\ m \in Nat /\ m <= NBlocks - 1
          /\ 1 <= m /\ NBlocks \in Nat
      BY <2>4, <3>2, GeometryAssumption DEF Block
    <3>4. m - 1 \in Block
      BY <3>3, GeometryAssumption DEF Block
    <3>5. m - 1 \in C
      BY <3>2, <3>3, <3>4
    <3>6. nx[m - 1] = m /\ m # Null
      BY <2>2, <3>3, <3>4 DEF Null
    <3> QED BY <2>4, <3>3, <3>5, <3>6
  <2> QED BY <2>1, <2>3, <2>4, <2>5
<1>3. NoPrev(FormattedPrev, 1)
  BY GeometryAssumption DEF FormattedPrev, NoPrev, Null, Block
<1> QED BY <1>1, <1>2, <1>3 DEF CarefulDisk, NoPrev, SizesHeld

\* Unmounted there is no descriptor, and mapping the image maps no open file.
LEMMA UnmountedClosed ==
  ASSUME CInv, ~ mounted
  PROVE  /\ \A e \in Entry : ~ InUse(e)
         /\ \A fd \in Fd : fds[fd] = NoDesc
<1>1. \A e \in Entry : ~ InUse(e)
  BY DEF CInv, MappedIn, InUse
<1> QED BY <1>1, OpenFileMapped

LEMMA MapImageCareful ==
  ASSUME CInv, ~ mounted, MapImage
  PROVE  MappedIn(openFile', mounted')
<1>1. PICK again \in SUBSET {e \in Entry : InUse(e)} :
        openFile' = [e \in Entry |-> [openFile[e] EXCEPT !.mapped = e \in again]]
  BY DEF MapImage
<1>2. ASSUME NEW e \in Entry PROVE ~ (openFile'[e].refCount > 0)
  <2>1. ~ InUse(e) /\ openFile[e] \in OpenInfo
    BY UnmountedClosed, UsersOfOpen DEF CInv
  <2>2. openFile'[e].refCount = openFile[e].refCount
    BY <1>1, <2>1 DEF OpenInfo
  <2> QED BY <2>1, <2>2 DEF InUse
<1> QED BY <1>2 DEF MappedIn

LEMMA InitCInv == Init => CInv
<1> SUFFICES ASSUME Init PROVE CInv
  OBVIOUS
<1>1. IInv
  BY InitIInv
<1>2. CarefulDisk(next, prev, freelist, dir)
  BY FormattedCareful DEF Init
<1>3. MappedIn(openFile, mounted)
  BY DEF Init, MappedIn, ClosedEntry
<1> QED BY <1>1, <1>2, <1>3 DEF CInv, Init

\* sfs_mount, sfs_unmount, sfs_format and a restart.
LEMMA MountCInv ==
  ASSUME CInv, Mount
  PROVE  CInv'
<1>1. IInv /\ IInv'
  BY MountIInv DEF CInv
<1>2. CASE mounted /\ FailUnchanged("EBUSY")
  BY <1>2, FailKeepsCInv DEF Code
<1>3. CASE ~ (mounted /\ FailUnchanged("EBUSY"))
  <2>1. /\ ~ mounted /\ MapImage
        /\ UNCHANGED diskVars /\ UNCHANGED status /\ UNCHANGED fds
    BY <1>3 DEF Mount
  <2>2. MappedIn(openFile', mounted')
    BY <2>1, MapImageCareful
  <2> QED BY <1>1, <2>1, <2>2, DiskStays DEF CInv
<1> QED BY <1>2, <1>3

LEMMA UnmountCInv ==
  ASSUME CInv, Unmount, \A fd \in Fd : fds[fd] = NoDesc
  PROVE  CInv'
<1>1. IInv /\ IInv'
  BY UnmountIInv DEF CInv
<1>2. UNCHANGED diskVars /\ UNCHANGED status /\ UNCHANGED fds
  BY DEF Unmount
<1>3. ASSUME NEW e \in Entry PROVE ~ (openFile'[e].refCount > 0)
  <2>1. ~ InUse(e) /\ openFile[e] \in OpenInfo
    BY <1>1, UsersOfOpen
  <2>2. openFile'[e].refCount = openFile[e].refCount
    BY <2>1 DEF Unmount, OpenInfo
  <2> QED BY <2>1, <2>2 DEF InUse
<1>4. MappedIn(openFile', mounted')
  BY <1>3 DEF MappedIn
<1> QED BY <1>1, <1>2, <1>4, DiskStays DEF CInv

LEMMA RestartCInv ==
  ASSUME CInv, Restart
  PROVE  CInv'
<1>1. IInv'
  BY RestartIInv DEF CInv
<1>2. /\ UNCHANGED diskVars /\ status' = "running"
      /\ \A fd \in Fd : fds'[fd] = NoDesc
      /\ \A e \in Entry : openFile'[e].refCount = 0
  BY DEF Restart, ClosedEntry
<1>3. MappedIn(openFile', mounted')
  BY <1>2 DEF MappedIn
<1> QED BY <1>1, <1>2, <1>3, DiskStays

LEMMA FormatCInv ==
  ASSUME CInv, Format
  PROVE  CInv'
<1>1. IInv /\ IInv'
  BY FormatIInv DEF CInv
<1>2. CASE mounted /\ FailUnchanged("EBUSY")
  BY <1>2, FailKeepsCInv DEF Code
<1>3. CASE ~ (mounted /\ FailUnchanged("EBUSY"))
  <2>1. /\ freelist' = 1 /\ next' = FormattedNext /\ prev' = FormattedPrev
        /\ dir' = FormattedDir /\ UNCHANGED <<fds, status>>
        /\ ~ mounted /\ MapImage
    BY <1>3 DEF Format
  <2>2. CarefulDisk(next', prev', freelist', dir')
    BY <2>1, FormattedCareful
  <2>3. MappedIn(openFile', mounted')
    BY <2>1, MapImageCareful
  <2>4. \A fd \in Fd : fds'[fd] = NoDesc
    BY <2>1, UnmountedClosed
  <2> QED BY <1>1, <2>1, <2>2, <2>3, <2>4 DEF CInv
<1> QED BY <1>2, <1>3

(***************************************************************************)
(* addOpenFileEntry, on a disk that may have changed in the call: the new  *)
(* descriptor is at the first block and position 0.                        *)
(***************************************************************************)
LEMMA AddEntryCareful ==
  ASSUME CInv, mounted, NEW nx, NEW dr, NEW e \in Entry, NEW b \in Block,
         \A fd \in Fd : fds[fd] # NoDesc => Follows(nx, dr, fds[fd]),
         Follows(nx, dr, [entry |-> e, curr |-> b, pos |-> 0]),
         AddOpenFileEntry(e, b)
  PROVE  /\ status' = "running"
         /\ \A fd \in Fd : fds'[fd] # NoDesc => Follows(nx, dr, fds'[fd])
         /\ MappedIn(openFile', mounted)
<1>1. IInv /\ status = "running" /\ MappedIn(openFile, mounted)
      /\ (InUse(e) => openFile[e].mapped)
  BY DEF CInv, MappedIn, InUse
<1>2. CASE UNCHANGED <<openFile, fds, status>>
  BY <1>1, <1>2
<1>3. CASE /\ FreeFds # {}
           /\ LET f == Lowest(FreeFds) IN
                fds' = [fds EXCEPT ![f] = [entry |-> e, curr |-> b, pos |-> 0]]
           /\ openFile' = [openFile EXCEPT ![e] =
                             [refCount |-> @.refCount + 1, mapped |-> TRUE]]
           /\ UNCHANGED status
  <2>1. PICK f, d : /\ f = Lowest(FreeFds) /\ d = [entry |-> e, curr |-> b, pos |-> 0]
                    /\ fds' = [fds EXCEPT ![f] = d]
    BY <1>3
  <2>2. fds \in [Fd -> Desc \cup {NoDesc}] /\ openFile \in [Entry -> OpenInfo]
    BY <1>1, IInvParts DEF TablesOK
  <2>3. \A fd \in Fd : fds'[fd] # NoDesc => Follows(nx, dr, fds'[fd])
    BY <2>1, <2>2
  <2>4. ASSUME NEW x \in Entry, openFile'[x].refCount > 0
        PROVE  openFile'[x].mapped
    <3>1. CASE x = e
      BY <1>3, <2>2, <3>1
    <3>2. CASE x # e
      <4>1. openFile'[x] = openFile[x]
        BY <1>3, <2>2, <3>2
      <4> QED BY <1>1, <2>4, <4>1 DEF MappedIn
    <3> QED BY <3>1, <3>2
  <2> QED BY <1>1, <1>3, <2>3, <2>4 DEF MappedIn
<1> QED BY <1>1, <1>2, <1>3 DEF AddOpenFileEntry

\* At position 0 currBlock is the first block.
LEMMA FollowsFirst ==
  ASSUME NEW nx \in NextFunction, NEW dr, NEW e \in Entry, NEW b \in Block,
         b = dr[e].first, dr[e].size \in Nat
  PROVE  Follows(nx, dr, [entry |-> e, curr |-> b, pos |-> 0])
<1>1. b # Null /\ b \in BlockId /\ b \in Chain(nx, b) /\ Size(nx, b) \in Nat
  BY ChainClosed, ChainFinite, BlockFacts
<1>2. Hops(nx, b, b) = 0 /\ BlockIndex(0) = 0
  BY <1>1, IndexRange DEF Hops, Size
<1> QED BY <1>1, <1>2 DEF Follows

\* sfs_open of a file that exists.
LEMMA OpenExistingCInv ==
  ASSUME CInv, NEW name \in Names, Open(name), mounted, OpenExisting(name)
  PROVE  CInv'
<1>1. PICK e : e = Lowest(Named(name))
  OBVIOUS
<1>2. /\ e \in Entry /\ Live(e) /\ AddOpenFileEntry(e, dir[e].first)
      /\ UNCHANGED diskVars /\ UNCHANGED mounted
  BY <1>1, NamedIn DEF OpenExisting
<1>3. IInv /\ IInv'
  BY OpenIInv DEF CInv
<1>4. /\ dir[e].first \in Block /\ dir[e].size \in Nat /\ next \in NextFunction
  BY <1>2, <1>3, DiskRoots DEF Live, Root
<1>5. Follows(next, dir, [entry |-> e, curr |-> dir[e].first, pos |-> 0])
  BY <1>2, <1>4, FollowsFirst
<1>6. /\ status' = "running"
      /\ \A fd \in Fd : fds'[fd] # NoDesc => Follows(next, dir, fds'[fd])
      /\ MappedIn(openFile', mounted)
  BY <1>2, <1>4, <1>5, AddEntryCareful DEF CInv
<1> QED BY <1>2, <1>3, <1>6, DiskStays

\* sfs_close, sfs_getpos, sfs_seek.
LEMMA CloseCInv ==
  ASSUME CInv, NEW fd \in Fd, Close(fd)
  PROVE  CInv'
<1>1. IInv /\ IInv' /\ UNCHANGED diskVars /\ UNCHANGED mounted /\ status' = "running"
  BY CloseIInv DEF CInv, Close
<1>2. fds \in [Fd -> Desc \cup {NoDesc}] /\ openFile \in [Entry -> OpenInfo]
  BY <1>1, IInvParts DEF TablesOK
<1>3. CASE fds[fd] = NoDesc
  BY <1>1, <1>3, DiskStays DEF CInv, Close
<1>4. CASE fds[fd] # NoDesc
  <2>1. PICK e : e = fds[fd].entry
    OBVIOUS
  <2>2. /\ fds' = [fds EXCEPT ![fd] = NoDesc]
        /\ openFile' = [openFile EXCEPT ![e] =
             IF openFile[e].refCount = 1 THEN ClosedEntry
             ELSE [refCount |-> openFile[e].refCount - 1,
                   mapped |-> openFile[e].mapped]]
    BY <1>4, <2>1 DEF Close
  <2>3. \A g \in Fd : fds'[g] # NoDesc => Follows(next, dir, fds'[g])
    BY <1>2, <2>2 DEF CInv
  <2>4. ASSUME NEW x \in Entry, openFile'[x].refCount > 0
        PROVE  mounted /\ openFile'[x].mapped
    <3>0. openFile[x].refCount \in Nat
      BY <1>2 DEF OpenInfo
    <3>1. CASE x = e
      <4>1. openFile[x].refCount # 1
        BY <1>2, <2>2, <2>4, <3>1 DEF ClosedEntry
      <4>2. openFile'[x] = [refCount |-> openFile[x].refCount - 1,
                            mapped |-> openFile[x].mapped]
        BY <1>2, <2>2, <3>1, <4>1
      <4>3. openFile[x].refCount > 0
        BY <2>4, <3>0, <4>2
      <4> QED BY <4>2, <4>3 DEF CInv, MappedIn
    <3>2. CASE x # e
      BY <1>2, <2>2, <2>4, <3>2 DEF CInv, MappedIn
    <3> QED BY <3>1, <3>2
  <2>5. MappedIn(openFile', mounted')
    BY <1>1, <2>4 DEF MappedIn
  <2> QED BY <1>1, <2>3, <2>5, DiskStays
<1> QED BY <1>3, <1>4

LEMMA GetPosCInv ==
  ASSUME CInv, NEW fd \in Fd, GetPos(fd)
  PROVE  CInv'
<1>1. IInv'
  BY GetPosIInv DEF CInv
<1>2. CASE BadFd(fd)
  BY <1>2, FailKeepsCInv DEF BadFd, Code
<1>3. CASE ~ BadFd(fd)
  <2>1. UNCHANGED diskVars /\ UNCHANGED memVars /\ UNCHANGED status
    BY <1>3 DEF GetPos
  <2> QED BY <1>1, <2>1, NothingChanges
<1> QED BY <1>2, <1>3

\* A descriptor moves within its file, from one block that is in step to another.
LEMMA MoveFollows ==
  ASSUME CInv, NEW fd \in Fd, fds[fd] # NoDesc, NEW p \in Nat, NEW c,
         NEW nx, NEW dr,
         \A g \in Fd : fds[g] # NoDesc => Follows(nx, dr, fds[g]),
         \/ fds' = [fds EXCEPT ![fd].pos = p, ![fd].curr = c]
         \/ fds' = [fds EXCEPT ![fd].pos = p] /\ c = fds[fd].curr,
         p <= dr[fds[fd].entry].size,
         c \in Chain(nx, dr[fds[fd].entry].first),
         Hops(nx, dr[fds[fd].entry].first, c) = BlockIndex(p)
  PROVE  \A g \in Fd : fds'[g] # NoDesc => Follows(nx, dr, fds'[g])
<1>1. PICK d : d = [entry |-> fds[fd].entry, curr |-> c, pos |-> p]
  OBVIOUS
<1>2. fds \in [Fd -> Desc \cup {NoDesc}] /\ fds[fd] \in Desc
  BY IInvParts DEF CInv, TablesOK
<1>3. fds' = [fds EXCEPT ![fd] = d]
  BY <1>1, <1>2 DEF Desc
<1>4. d.entry = fds[fd].entry /\ d.curr = c /\ d.pos = p
  BY <1>1
<1>5. Follows(nx, dr, d)
  BY <1>4 DEF Follows
<1> QED BY <1>2, <1>3, <1>5

LEMMA SeekCInv ==
  ASSUME CInv, NEW fd \in Fd, NEW delta \in - MaxLen .. MaxLen, Seek(fd, delta),
         SeekStaysInBlock(fd, delta)
  PROVE  CInv'
<1>1. IInv /\ IInv'
  BY SeekIInv DEF CInv
<1>2. CASE BadFd(fd)
  BY <1>2, FailKeepsCInv DEF BadFd, Code
<1>3. CASE fds[fd] # NoDesc
  <2>1. PICK t : t = SeekTarget(fd, delta)
    OBVIOUS
  <2>2. Mapped(fd)
    BY <1>3, OpenFileMapped
  <2>3. /\ fds' = [fds EXCEPT ![fd].pos = t]
        /\ UNCHANGED diskVars /\ UNCHANGED <<mounted, openFile, status>>
    BY <1>3, <2>1, <2>2 DEF Seek, BadFd
  <2>4. t \in Nat /\ t <= FileSize(fd) /\ FileSize(fd) = dir[fds[fd].entry].size
    <3>1. /\ FileSize(fd) \in Nat /\ fds[fd].pos \in Nat /\ delta \in Int
          /\ FileSize(fd) = dir[fds[fd].entry].size
      BY <1>1, <1>3, DescTypes, ClientAssumption DEF FileSize
    <3> QED BY <2>1, <3>1 DEF SeekTarget, SizeMin
  <2>5. /\ fds[fd].curr \in Chain(next, dir[fds[fd].entry].first)
        /\ Hops(next, dir[fds[fd].entry].first, fds[fd].curr) = BlockIndex(t)
    BY <1>3, <2>1 DEF CInv, Follows, SeekStaysInBlock
  <2>6. \A g \in Fd : fds'[g] # NoDesc => Follows(next, dir, fds'[g])
    BY <1>3, <2>3, <2>4, <2>5, MoveFollows DEF CInv
  <2> QED BY <1>1, <2>3, <2>6, DiskStays DEF CInv
<1> QED BY <1>2, <1>3 DEF Seek, BadFd

\* sfs_read.
LEMMA ReadCInv ==
  ASSUME CInv, NEW fd \in Fd, NEW len \in Lens, Read(fd, len)
  PROVE  CInv'
<1>1. IInv /\ IInv'
  BY ReadIInv DEF CInv
<1>2. CASE BadFd(fd)
  BY <1>2, FailKeepsCInv DEF BadFd, Code
<1>3. CASE fds[fd] # NoDesc
  <2>1. PICK e, b, curr, pos, size :
          /\ e = fds[fd].entry /\ b = dir[e].first /\ curr = fds[fd].curr
          /\ pos = fds[fd].pos /\ size = dir[e].size
    OBVIOUS
  <2>2. /\ e \in Entry /\ b # Null /\ Root(next, b) /\ b \in Block
        /\ size \in Nat /\ pos \in Nat /\ pos <= size
        /\ curr \in Chain(next, b) /\ btype[curr] = "file"
        /\ Size(next, b) = 1 + BlockIndex(size)
        /\ Size(next, curr) = Size(next, b) - BlockIndex(pos)
        /\ FileSize(fd) = size
    BY <1>3, <2>1, FollowFacts
  <2>3. PICK n : n = SizeMin(size - pos, len)
    OBVIOUS
  <2>4. n \in Nat /\ pos + n \in Nat /\ pos + n <= size
    BY <2>2, <2>3, ClientAssumption DEF SizeMin, Lens
  <2>5. PICK hops : hops = HopsFor(pos, n)
    OBVIOUS
  <2>6. /\ hops = BlockIndex(pos + n) - BlockIndex(pos) /\ hops \in Nat
        /\ BlockIndex(pos + n) <= BlockIndex(size)
        /\ BlockIndex(pos) \in Nat /\ BlockIndex(pos + n) \in Nat
        /\ BlockIndex(size) \in Nat
    BY <2>2, <2>4, <2>5, HopsForIndex, TransferInBounds, IndexMonotone, IndexRange
  <2>7. next \in NextFunction /\ NextInjective(next)
    BY <1>1, DiskRoots
  <2>8. Paths(next, curr, hops) # {}
    BY <2>2, <2>6, <2>7, PathExists
  <2>9. Mapped(fd)
    BY <1>3, OpenFileMapped
  <2>10. ReadDone(fd, n)
    BY <1>3, <2>1, <2>2, <2>3, <2>5, <2>8, <2>9 DEF Read, BadFd, ReadAborts
  <2>11. PICK path \in Paths(next, curr, hops) :
           fds' = [fds EXCEPT ![fd].pos = pos + n, ![fd].curr = path[hops]]
    BY <2>1, <2>5, <2>10 DEF ReadDone
  <2>12. /\ path[hops] \in Chain(next, b)
         /\ Size(next, path[hops]) = Size(next, curr) - hops
    <3>1. hops \in 0 .. hops
      BY <2>6
    <3> QED BY <2>2, <2>6, <2>7, <2>11, <3>1, PathSizes
  <2>13. Hops(next, b, path[hops]) = BlockIndex(pos + n)
    <3>1. Size(next, b) - Size(next, path[hops]) = BlockIndex(pos + n)
      BY <2>2, <2>6, <2>12
    <3> QED BY <3>1 DEF Hops, Size
  <2>14. \A g \in Fd : fds'[g] # NoDesc => Follows(next, dir, fds'[g])
    BY <1>3, <2>1, <2>4, <2>11, <2>12, <2>13, MoveFollows DEF CInv
  <2>15. UNCHANGED diskVars /\ UNCHANGED <<mounted, openFile, status>>
    BY <2>10 DEF ReadDone
  <2> QED BY <1>1, <2>14, <2>15, DiskStays DEF CInv
<1> QED BY <1>2, <1>3 DEF Read, BadFd

-----------------------------------------------------------------------------
(***************************************************************************)
(* Calls that change the disk.  A file whose chain is apart from the       *)
(* blocks X that a list routine works on keeps the chain of each of its    *)
(* blocks.                                                                 *)
(***************************************************************************)
Undisturbed(nx, nx2, X) ==
  \A c \in BlockId : Chain(nx, c) \cap X = {} => Chain(nx2, c) = Chain(nx, c)

LEMMA ApartStays ==
  ASSUME NEW nx \in NextFunction, NEW nx2, NEW b \in BlockId, NEW X,
         Undisturbed(nx, nx2, X), Chain(nx, b) \cap X = {}
  PROVE  /\ Chain(nx2, b) = Chain(nx, b) /\ Size(nx2, b) = Size(nx, b)
         /\ \A c \in Chain(nx, b) : Chain(nx2, c) = Chain(nx, c)
<1>1. Chain(nx2, b) = Chain(nx, b)
  BY DEF Undisturbed
<1>2. ASSUME NEW c \in Chain(nx, b) PROVE Chain(nx2, c) = Chain(nx, c)
  <2>1. c \in BlockId /\ Chain(nx, c) \subseteq Chain(nx, b)
    BY SubChain, ChainClosed, BlockFacts
  <2>2. Chain(nx, c) \cap X = {}
    BY <2>1
  <2> QED BY <2>1, <2>2 DEF Undisturbed
<1> QED BY <1>1, <1>2 DEF Size

\* A descriptor on such a file stays in step.
LEMMA FollowsApart ==
  ASSUME NEW nx \in NextFunction, NEW nx2, NEW X, Undisturbed(nx, nx2, X),
         NEW dr, NEW dr2, NEW d, NEW b \in BlockId, b = dr[d.entry].first,
         Follows(nx, dr, d), Chain(nx, b) \cap X = {},
         dr2[d.entry].first = b, dr2[d.entry].size = dr[d.entry].size
  PROVE  Follows(nx2, dr2, d)
<1>1. b # Null /\ d.pos <= dr[d.entry].size /\ d.curr \in Chain(nx, b)
      /\ Hops(nx, b, d.curr) = BlockIndex(d.pos)
  BY DEF Follows
<1>2. Chain(nx2, b) = Chain(nx, b) /\ Chain(nx2, d.curr) = Chain(nx, d.curr)
  BY <1>1, ApartStays
<1> QED BY <1>1, <1>2 DEF Follows, Hops

\* sfs_open of a new file.
LEMMA CreateFileCInv ==
  ASSUME CInv, mounted, NEW name \in Names, CreateFile(name), IInv'
  PROVE  CInv'
<1>1. PICK e, run, fr, nx : /\ e = Lowest(Unused) /\ fr = freelist /\ nx = next
                            /\ run = AllocatedRun(nx, fr, 1)
  OBVIOUS
<1>2. PICK nx2, fr2, pv2, dr2 : /\ nx2 = next' /\ fr2 = freelist'
                                /\ pv2 = prev' /\ dr2 = dir'
  OBVIOUS
<1>3. /\ Named(name) = {} /\ Unused # {} /\ run # {}
      /\ fr2 = FreeAfterAllocate(nx, fr, run)
      /\ nx2 = NextAfterAllocate(nx, run)
      /\ pv2 = PrevAfterAllocate(nx, prev, run)
      /\ dr2 = [dir EXCEPT ![e] = [first |-> fr, size |-> 0, name |-> name]]
      /\ AddOpenFileEntry(e, fr)
      /\ UNCHANGED mounted
  BY <1>1, <1>2 DEF CreateFile
<1>4. IInv /\ CarefulDisk(nx, prev, fr, dir) /\ dir \in [Entry -> DirEntry]
  BY <1>1, IInvParts DEF CInv, DiskOK
<1>5. e \in Entry /\ dir[e].first = Null
  <2>1. Unused \in SUBSET Nat /\ Unused # {}
    BY <1>3, GeometryAssumption DEF Unused, Entry
  <2>2. e \in Unused
    BY <1>1, <2>1, LowestIn
  <2> QED BY <2>2 DEF Unused, Live
<1>6. /\ nx \in NextFunction /\ NextInjective(nx) /\ fr \in BlockId
      /\ NoPredecessor(nx, fr) /\ nx2 \in NextFunction
      /\ \A x \in Entry : dir[x].first \in BlockId
      /\ \A x \in Entry : dir[x].size \in Nat
  <2>1. DiskOK'
    BY IInvPartsNext
  <2>2. nx2 \in NextFunction
    BY <1>2, <2>1 DEF DiskOK
  <2> QED BY <1>1, <1>4, <2>2, DiskRoots
<1>7. CanAllocate(nx, fr, 1) /\ 1 \in Nat
  BY <1>1, <1>3 DEF AllocatedRun
<1>8. /\ fr \in Block /\ Chain(nx2, fr) = run /\ Cardinality(run) = 1
      /\ Chain(nx2, fr2) = Chain(nx, fr) \ run
      /\ Undisturbed(nx, nx2, Chain(nx, fr))
  BY <1>1, <1>3, <1>6, <1>7, AllocateChains DEF Undisturbed
<1>9. \A x \in Entry : Chain(nx, dir[x].first) \cap Chain(nx, fr) = {}
  BY <1>1, <1>4, ChainsOfDisk
<1>10. /\ dr2[e] = [first |-> fr, size |-> 0, name |-> name]
       /\ \A x \in Entry : x # e => dr2[x] = dir[x]
  BY <1>3, <1>4, <1>5
<1>11. \A x \in Entry : /\ Chain(nx2, dir[x].first) = Chain(nx, dir[x].first)
                        /\ Size(nx2, dir[x].first) = Size(nx, dir[x].first)
  BY <1>6, <1>8, <1>9, ApartStays
<1>12. CarefulDisk(nx2, pv2, fr2, dr2)
  <2>1. ASSUME NEW x \in Entry, dr2[x].first # Null
        PROVE  Size(nx2, dr2[x].first) = BlocksFor(dr2[x].size)
    <3>1. CASE x = e
      <4>1. BlocksFor(0) = 1
        BY RoundUpIndex, IndexRange
      <4> QED BY <1>8, <1>10, <3>1, <4>1 DEF Size
    <3>2. CASE x # e
      BY <1>4, <1>10, <1>11, <2>1, <3>2 DEF CarefulDisk
    <3> QED BY <3>1, <3>2
  <2>2. ASSUME NEW b \in Block
        PROVE  b \in Chain(nx2, fr2) \/ \E x \in Entry : b \in Chain(nx2, dr2[x].first)
    <3>1. CASE b \in Chain(nx, fr)
      BY <1>5, <1>8, <1>10, <3>1
    <3>2. CASE b \notin Chain(nx, fr)
      <4>1. PICK x \in Entry : b \in Chain(nx, dir[x].first)
        BY <1>4, <3>2 DEF CarefulDisk
      <4>2. x # e
        BY <1>5, <4>1, NullChain
      <4> QED BY <1>10, <1>11, <4>1, <4>2
    <3> QED BY <3>1, <3>2
  <2>3. ASSUME NEW d \in Entry, NEW x \in Entry, d # x,
               dr2[d].first # Null, dr2[x].first # Null
        PROVE  dr2[d].name # dr2[x].name
    <3>1. \A y \in Entry : dir[y].first # Null => dir[y].name # name
      BY <1>3 DEF Named, Live
    <3>2. CASE d = e
      BY <1>10, <2>3, <3>1, <3>2
    <3>3. CASE x = e
      BY <1>10, <2>3, <3>1, <3>3
    <3>4. CASE d # e /\ x # e
      BY <1>4, <1>10, <2>3, <3>4 DEF CarefulDisk
    <3> QED BY <3>2, <3>3, <3>4
  <2>4. \A c \in Block : pv2[c] = Null \/ pv2[c] = prev[c]
    BY <1>3 DEF PrevAfterAllocate
  <2>5. NoPrev(pv2, fr2)
    <3>1. fr2 \in BlockId
      BY <1>2, DiskRoots, IInvPartsNext DEF DiskOK
    <3>2. fr2 = nx[LastOf(nx, run)]
      BY <1>3 DEF FreeAfterAllocate
    <3> QED BY <1>3, <3>1, <3>2, BlockFacts DEF PrevAfterAllocate, NoPrev
  <2>6. ASSUME NEW x \in Entry PROVE NoPrev(pv2, dr2[x].first)
    <3>1. CASE x = e
      BY <1>4, <1>8, <1>10, <2>4, <3>1 DEF CarefulDisk, NoPrev
    <3>2. CASE x # e
      BY <1>4, <1>6, <1>10, <2>4, <3>2, BlockFacts DEF CarefulDisk, NoPrev
    <3> QED BY <3>1, <3>2
  <2>7. SizesHeld(dr2)
    BY <1>4, <1>10, EmptyHeld DEF CarefulDisk, SizesHeld
  <2> QED BY <2>1, <2>2, <2>3, <2>5, <2>6, <2>7 DEF CarefulDisk
<1>13. ASSUME NEW fd \in Fd, fds[fd] # NoDesc
       PROVE  Follows(nx2, dr2, fds[fd])
  <2>1. fds[fd].entry \in Entry /\ Follows(nx, dir, fds[fd])
    BY <1>1, <1>4, <1>13, DescTypes DEF CInv
  <2>2. fds[fd].entry # e
    BY <1>5, <2>1 DEF Follows
  <2> QED BY <1>6, <1>8, <1>9, <1>10, <2>1, <2>2, FollowsApart
<1>14. Follows(nx2, dr2, [entry |-> e, curr |-> fr, pos |-> 0])
  <2>1. fr = dr2[e].first /\ dr2[e].size \in Nat
    BY <1>10
  <2> QED BY <1>5, <1>6, <1>8, <2>1, FollowsFirst
<1>15. /\ status' = "running"
       /\ \A fd \in Fd : fds'[fd] # NoDesc => Follows(nx2, dr2, fds'[fd])
       /\ MappedIn(openFile', mounted)
  BY <1>3, <1>5, <1>8, <1>13, <1>14, AddEntryCareful
<1>16. MappedIn(openFile', mounted')
  BY <1>3, <1>15
<1> QED BY <1>2, <1>12, <1>15, <1>16 DEF CInv

LEMMA OpenCInv ==
  ASSUME CInv, NEW name \in Names, Open(name)
  PROVE  CInv'
<1>1. CASE \E c \in {"ENAMETOOLONG", "ENOMEDIUM", "ENOSPC"} : FailUnchanged(c)
  BY <1>1, FailKeepsCInv DEF Code
<1>2. CASE mounted /\ OpenExisting(name)
  BY <1>2, OpenExistingCInv
<1>3. CASE mounted /\ CreateFile(name)
  <2>1. IInv'
    BY OpenIInv DEF CInv
  <2> QED BY <1>3, <2>1, CreateFileCInv
<1>4. ~ CreateAborts(name)
  BY NoAllocationAborts DEF CInv, CreateAborts
<1> QED BY <1>1, <1>2, <1>3, <1>4 DEF Open, CreateNoSpace

\* sfs_remove and sfs_rename: a file that no descriptor refers to goes.
LEMMA FreeFileCInv ==
  ASSUME CInv, IInv', NEW e \in Entry, dir[e].first # Null, ~ InUse(e),
         NEW newDir \in [Entry -> DirEntry],
         \A x \in Entry : /\ newDir[x].first = dir[x].first
                          /\ newDir[x].size = dir[x].size,
         \A x, y \in Entry :
           /\ x # y /\ x # e /\ y # e
           /\ dir[x].first # Null /\ dir[y].first # Null
           => newDir[x].name # newDir[y].name,
         FreeFile(e, newDir), UNCHANGED <<memVars, status>>
  PROVE  CInv'
<1>1. PICK b, fr, nx, nx2, fr2, pv2, dr2 :
        /\ b = dir[e].first /\ fr = freelist /\ nx = next
        /\ nx2 = next' /\ fr2 = freelist' /\ pv2 = prev' /\ dr2 = dir'
  OBVIOUS
<1>2. /\ nx2 = NextAfterFree(nx, prev, fr, b)
      /\ pv2 = PrevAfterFree(prev, b)
      /\ fr2 = b
      /\ dr2 = [newDir EXCEPT ![e] = UnusedEntry]
  BY <1>1 DEF FreeFile
<1>3. IInv /\ CarefulDisk(nx, prev, fr, dir)
  BY <1>1 DEF CInv
<1>4. /\ nx \in NextFunction /\ NextInjective(nx) /\ fr \in BlockId
      /\ prev \in NextFunction
      /\ NoPredecessor(nx, fr) /\ Root(nx, b) /\ b # fr /\ b \in Block
      /\ \A x \in Entry : dir[x].first \in BlockId
      /\ \A x \in Entry : x # e => dir[x].first # b
  <2>1. \A x \in Entry : x # e => dir[x].first # b
    BY <1>1, <1>3, DiskRoots
  <2>2. Root(nx, b) /\ b # fr
    BY <1>1, <1>3, DiskRoots
  <2> QED BY <1>1, <1>3, <2>1, <2>2, DiskRoots DEF Root
<1>5. nx2 \in NextFunction
  BY <1>1, IInvPartsNext DEF DiskOK
<1>6. prev[b] = Null /\ b # Null
  BY <1>1, <1>3 DEF CarefulDisk, NoPrev
<1>7. /\ Chain(nx2, b) = Chain(nx, b) \cup Chain(nx, fr)
      /\ Undisturbed(nx, nx2, Chain(nx, b))
  BY <1>2, <1>4, <1>5, <1>6, FreeChains DEF Undisturbed
<1>8. \A x \in Entry : x # e => Chain(nx, dir[x].first) \cap Chain(nx, b) = {}
  BY <1>1, <1>3, ChainsOfDisk
<1>9. /\ dr2[e].first = Null
      /\ \A x \in Entry : x # e =>
           /\ dr2[x].first = dir[x].first /\ dr2[x].size = dir[x].size
           /\ dr2[x].name = newDir[x].name
  BY <1>2 DEF UnusedEntry
<1>10. \A x \in Entry : x # e =>
         /\ Chain(nx2, dir[x].first) = Chain(nx, dir[x].first)
         /\ Size(nx2, dir[x].first) = Size(nx, dir[x].first)
  BY <1>4, <1>7, <1>8, ApartStays
<1>11. pv2[b] = Null /\ \A c \in Block : pv2[c] = Null \/ pv2[c] = prev[c]
  BY <1>2, <1>4 DEF PrevAfterFree, NextFunction
<1>12. CarefulDisk(nx2, pv2, fr2, dr2)
  <2>1. ASSUME NEW x \in Entry, dr2[x].first # Null
        PROVE  Size(nx2, dr2[x].first) = BlocksFor(dr2[x].size)
    BY <1>3, <1>9, <1>10, <2>1 DEF CarefulDisk
  <2>2. ASSUME NEW c \in Block
        PROVE  c \in Chain(nx2, fr2) \/ \E x \in Entry : c \in Chain(nx2, dr2[x].first)
    <3>1. CASE c \in Chain(nx, fr)
      BY <1>2, <1>7, <3>1
    <3>2. CASE c \notin Chain(nx, fr)
      <4>1. PICK x \in Entry : c \in Chain(nx, dir[x].first)
        BY <1>3, <3>2 DEF CarefulDisk
      <4>2. CASE x = e
        BY <1>1, <1>2, <1>7, <4>1, <4>2
      <4>3. CASE x # e
        BY <1>9, <1>10, <4>1, <4>3
      <4> QED BY <4>2, <4>3
    <3> QED BY <3>1, <3>2
  <2>3. ASSUME NEW x \in Entry, NEW y \in Entry, x # y,
               dr2[x].first # Null, dr2[y].first # Null
        PROVE  dr2[x].name # dr2[y].name
    BY <1>9, <2>3
  <2>4. NoPrev(pv2, fr2)
    BY <1>2, <1>11 DEF NoPrev
  <2>5. ASSUME NEW x \in Entry PROVE NoPrev(pv2, dr2[x].first)
    BY <1>3, <1>4, <1>9, <1>11, BlockFacts DEF CarefulDisk, NoPrev
  <2>6. SizesHeld(dr2)
    BY <1>3, <1>9 DEF CarefulDisk, SizesHeld
  <2> QED BY <2>1, <2>2, <2>3, <2>4, <2>5, <2>6 DEF CarefulDisk
<1>13. ASSUME NEW fd \in Fd, fds[fd] # NoDesc
       PROVE  Follows(nx2, dr2, fds[fd])
  <2>1. fds[fd].entry \in Entry /\ Follows(nx, dir, fds[fd])
    BY <1>1, <1>3, <1>13, DescTypes DEF CInv
  <2>2. fds[fd].entry # e
    BY <1>3, <1>13, UsersOfOpen
  <2> QED BY <1>4, <1>7, <1>8, <1>9, <2>1, <2>2, FollowsApart
<1>14. fds' = fds /\ openFile' = openFile /\ mounted' = mounted /\ status' = status
  BY DEF memVars
<1>15. \A fd \in Fd : fds'[fd] # NoDesc => Follows(next', dir', fds'[fd])
  BY <1>1, <1>13, <1>14
<1>16. MappedIn(openFile', mounted') /\ status' = "running"
  BY <1>14 DEF CInv
<1> QED BY <1>1, <1>12, <1>15, <1>16 DEF CInv

LEMMA RemoveCInv ==
  ASSUME CInv, NEW name \in Names, Remove(name)
  PROVE  CInv'
<1>1. CASE \E c \in {"ENAMETOOLONG", "ENOMEDIUM", "ENOENT", "EBUSY"} :
             FailUnchanged(c)
  BY <1>1, FailKeepsCInv DEF Code
<1>2. CASE /\ Named(name) # {} /\ ~ InUse(Lowest(Named(name)))
           /\ DeleteFile(Lowest(Named(name)), dir)
           /\ UNCHANGED memVars
  <2>1. IInv /\ IInv' /\ DiskOK /\ dir \in [Entry -> DirEntry]
    BY RemoveIInv, IInvParts DEF CInv, DiskOK
  <2>2. \A x, y \in Entry : x # y /\ dir[x].first # Null /\ dir[y].first # Null
                              => dir[x].name # dir[y].name
    BY DEF CInv, CarefulDisk
  <2>3. /\ Lowest(Named(name)) \in Entry /\ dir[Lowest(Named(name))].first # Null
        /\ FreeFile(Lowest(Named(name)), dir) /\ UNCHANGED status
    BY <1>2, <2>1, NamedIn, DeleteFrees DEF Live
  <2>4. UNCHANGED <<memVars, status>>
    BY <1>2, <2>3
  <2> QED BY <1>2, <2>1, <2>2, <2>3, <2>4, FreeFileCInv
<1> QED BY <1>1, <1>2 DEF Remove

\* A renamed file keeps its chain; the file that had the new name goes.
LEMMA RenameCInv ==
  ASSUME CInv, NEW old \in Names, NEW new \in Names, Rename(old, new),
         RenameReplacesClosedFile(old, new)
  PROVE  CInv'
<1>1. CASE \E c \in {"ENAMETOOLONG", "ENOMEDIUM", "ENOENT"} : FailUnchanged(c)
  BY <1>1, FailKeepsCInv DEF Code
<1>2. PICK e, victim, renamed :
        /\ e = Lowest(Named(old)) /\ victim = Lowest(Named(new))
        /\ renamed = [dir EXCEPT ![Lowest(Named(old))].name = new]
  OBVIOUS
<1>3. CASE /\ Named(old) # {}
           /\ \/ Named(new) # {} /\ ~ InUse(victim) /\ DeleteFile(victim, renamed)
              \/ /\ Named(new) # {} => InUse(victim)
                 /\ dir' = renamed
                 /\ UNCHANGED <<freelist, next, prev, btype, data, status>>
           /\ UNCHANGED memVars
  <2>1. IInv /\ IInv' /\ DiskOK /\ dir \in [Entry -> DirEntry]
    BY RenameIInv, IInvParts DEF CInv, DiskOK
  <2>2. e \in Entry /\ e \in Named(old) /\ (Named(new) # {} => victim \in Named(new))
    <3>1. Named(old) \in SUBSET Nat /\ Named(new) \in SUBSET Nat
      BY GeometryAssumption DEF Named, Entry
    <3> QED BY <1>2, <1>3, <3>1, NamedIn, LowestIn
  <2>3. dir[e].name = old /\ dir[e].first # Null /\ old # new
    BY <2>2 DEF Named, Live, RenameReplacesClosedFile
  <2>4. \A x, y \in Entry : x # y /\ dir[x].first # Null /\ dir[y].first # Null
                              => dir[x].name # dir[y].name
    BY DEF CInv, CarefulDisk
  <2>5. /\ renamed \in [Entry -> DirEntry] /\ renamed[e].name = new
        /\ \A x \in Entry : /\ renamed[x].first = dir[x].first
                            /\ renamed[x].size = dir[x].size
                            /\ x # e => renamed[x].name = dir[x].name
    <3>1. renamed = [dir EXCEPT ![e].name = new]
      BY <1>2
    <3> QED BY <2>1, <2>2, <3>1 DEF DirEntry
  \* Two files have the same name then only if one of them had the new name.
  <2>6. \A x, y \in Entry :
          /\ x # y /\ x \notin Named(new) /\ y \notin Named(new)
          /\ dir[x].first # Null /\ dir[y].first # Null
          => renamed[x].name # renamed[y].name
    BY <2>2, <2>4, <2>5 DEF Named, Live
  <2>7. CASE Named(new) # {} /\ ~ InUse(victim) /\ DeleteFile(victim, renamed)
    <3>1. victim \in Named(new) /\ victim \in Entry /\ dir[victim].first # Null
          /\ dir[victim].name = new
      BY <2>2, <2>7 DEF Named, Live
    <3>2. \A x \in Entry : x \in Named(new) => x = victim
      BY <2>4, <3>1 DEF Named, Live
    <3>3. \A x, y \in Entry :
            /\ x # y /\ x # victim /\ y # victim
            /\ dir[x].first # Null /\ dir[y].first # Null
            => renamed[x].name # renamed[y].name
      BY <2>6, <3>2
    <3>4. FreeFile(victim, renamed) /\ UNCHANGED status
      BY <2>1, <2>7, <3>1, DeleteFrees DEF Live
    <3>5. UNCHANGED <<memVars, status>>
      BY <1>3, <3>4
    <3> QED BY <2>1, <2>5, <2>7, <3>1, <3>3, <3>4, <3>5, FreeFileCInv
  <2>8. CASE /\ Named(new) # {} => InUse(victim)
             /\ dir' = renamed
             /\ UNCHANGED <<freelist, next, prev, btype, data, status>>
    <3>1. Named(new) = {}
      BY <2>2, <2>8 DEF RenameReplacesClosedFile
    <3>2. CarefulDisk(next, prev, freelist, renamed)
      <4>1. \A x, y \in Entry :
              x # y /\ renamed[x].first # Null /\ renamed[y].first # Null
                => renamed[x].name # renamed[y].name
        BY <2>5, <2>6, <3>1
      <4>2. SizesHeld(renamed)
        BY <2>5 DEF CInv, CarefulDisk, SizesHeld
      <4> QED BY <2>5, <4>1, <4>2 DEF CInv, CarefulDisk
    <3>3. ASSUME NEW fd \in Fd, fds[fd] # NoDesc
          PROVE  Follows(next, renamed, fds[fd])
      <4>1. fds[fd].entry \in Entry /\ Follows(next, dir, fds[fd])
        BY <2>1, <3>3, DescTypes DEF CInv
      <4> QED BY <2>5, <4>1 DEF Follows
    <3>4. fds' = fds /\ openFile' = openFile /\ mounted' = mounted /\ status' = status
      BY <1>3, <2>8 DEF memVars
    <3>5. MappedIn(openFile', mounted') /\ status' = "running"
      BY <3>4 DEF CInv
    <3> QED BY <2>1, <2>8, <3>2, <3>3, <3>4, <3>5 DEF CInv
  <2> QED BY <1>3, <2>7, <2>8
<1> QED BY <1>1, <1>2, <1>3 DEF Rename

(***************************************************************************)
(* sfs_write, once its blocks are there: the chain nx2 of the file has the *)
(* length that the new size needs, so the copying loop reaches its end and *)
(* never finds the chain too short.                                        *)
(***************************************************************************)
LEMMA WriteReachesItsEnd ==
  ASSUME CInv, NEW fd \in Fd, fds[fd] # NoDesc, NEW len \in Lens, NEW v \in Bytes,
         SizeFits(fd, len),
         NEW e, e = fds[fd].entry, NEW b, b = dir[e].first,
         NEW nx2 \in NextFunction, NextInjective(nx2), Root(nx2, b),
         \A g \in Fd : fds[g] # NoDesc => Follows(nx2, dir, fds[g]),
         NEW size \in Nat,
         size = IF EndPos(fd, len) > FileSize(fd) THEN EndPos(fd, len) ELSE FileSize(fd),
         Size(nx2, b) = 1 + BlockIndex(size),
         NEW hops, hops = HopsFor(fds[fd].pos, len),
         \/ \E path \in Paths(nx2, fds[fd].curr, hops) :
              WriteComplete(fd, len, v, path, hops)
         \/ WriteAborts(fd, len, v, nx2, hops)
  PROVE  /\ status' = "running"
         /\ \A g \in Fd : fds'[g] # NoDesc => Follows(nx2, dir', fds'[g])
         /\ dir'[e].first = b /\ dir'[e].size = size /\ dir'[e].name = dir[e].name
         /\ \A x \in Entry : x # e => dir'[x] = dir[x]
<1>1. PICK curr, pos, end : /\ curr = fds[fd].curr /\ pos = fds[fd].pos
                            /\ end = pos + len
  OBVIOUS
<1>2. /\ IInv /\ e \in Entry /\ pos \in Nat /\ FileSize(fd) = dir[e].size
      /\ dir[e].size \in Nat /\ len \in Nat /\ end \in Nat /\ EndPos(fd, len) = end
      /\ pos <= end /\ dir \in [Entry -> DirEntry] /\ status = "running"
  <2>1. /\ IInv /\ e \in Entry /\ pos \in Nat /\ FileSize(fd) = dir[e].size
        /\ dir[e].size \in Nat
    BY <1>1, FollowFacts
  <2>2. len \in Nat /\ EndPos(fd, len) = end
    BY <1>1, ClientAssumption DEF Lens, EndPos
  <2>3. dir \in [Entry -> DirEntry]
    BY <2>1, IInvParts DEF DiskOK
  <2> QED BY <1>1, <2>1, <2>2, <2>3 DEF CInv
<1>3. end <= size /\ dir[e].size <= size
  BY <1>2
<1>4. /\ curr \in Chain(nx2, b)
      /\ Hops(nx2, b, curr) = BlockIndex(pos)
  BY <1>1 DEF Follows
<1>5. /\ hops = BlockIndex(end) - BlockIndex(pos) /\ hops \in Nat
      /\ BlockIndex(end) <= BlockIndex(size)
      /\ BlockIndex(pos) \in Nat /\ BlockIndex(end) \in Nat
      /\ BlockIndex(size) \in Nat
  BY <1>1, <1>2, <1>3, HopsForIndex, TransferInBounds, IndexMonotone, IndexRange
<1>6. Size(nx2, curr) \in Nat /\ Size(nx2, b) - Size(nx2, curr) = BlockIndex(pos)
  BY <1>4, SizePositive DEF Hops, Size
<1>7. hops < Size(nx2, curr)
  BY <1>5, <1>6
<1>8. ~ WriteAborts(fd, len, v, nx2, hops)
  <2>1. SUFFICES ASSUME NEW h \in 0 .. hops - 1, NEW path \in Paths(nx2, curr, h),
                        nx2[path[h]] = Null
                 PROVE  FALSE
    BY <1>1 DEF WriteAborts
  <2>2. h \in Nat /\ h \in 0 .. h
    BY <1>5
  <2>3. path[h] \in Chain(nx2, b) /\ Size(nx2, path[h]) = Size(nx2, curr) - h
    BY <1>4, <2>2, PathSizes
  <2>4. Size(nx2, path[h]) = 1
    BY <2>1, <2>3, SizePositive
  <2> QED BY <1>5, <1>6, <1>7, <2>2, <2>3, <2>4
<1>9. PICK path \in Paths(nx2, curr, hops) : WriteComplete(fd, len, v, path, hops)
  BY <1>1, <1>8
<1>10. /\ path[hops] \in Chain(nx2, b)
       /\ Size(nx2, path[hops]) = Size(nx2, curr) - hops
  <2>1. hops \in 0 .. hops
    BY <1>5
  <2> QED BY <1>4, <1>5, <2>1, PathSizes
<1>11. Hops(nx2, b, path[hops]) = BlockIndex(end)
  <2>1. Size(nx2, b) - Size(nx2, path[hops]) = BlockIndex(end)
    BY <1>5, <1>6, <1>10
  <2> QED BY <2>1 DEF Hops, Size
<1>12. /\ fds' = [fds EXCEPT ![fd].pos = end, ![fd].curr = path[hops]]
       /\ dir' = IF end > dir[e].size THEN [dir EXCEPT ![e].size = end] ELSE dir
       /\ status' = status
  BY <1>2, <1>9 DEF WriteComplete
<1>13. PICK dr2 : dr2 = dir'
  OBVIOUS
<1>14. /\ dr2[e].first = b /\ dr2[e].size = size /\ dr2[e].name = dir[e].name
       /\ \A x \in Entry : x # e => dr2[x] = dir[x]
  <2>1. size = IF end > dir[e].size THEN end ELSE dir[e].size
    BY <1>2
  <2>2. CASE end > dir[e].size
    <3>1. dr2 = [dir EXCEPT ![e].size = end] /\ size = end
      BY <1>12, <1>13, <2>1, <2>2
    <3> QED BY <1>2, <3>1 DEF DirEntry
  <2>3. CASE ~ (end > dir[e].size)
    <3>1. dr2 = dir /\ size = dir[e].size
      BY <1>12, <1>13, <2>1, <2>3
    <3> QED BY <3>1
  <2> QED BY <2>2, <2>3
<1>15. ASSUME NEW g \in Fd, fds[g] # NoDesc PROVE Follows(nx2, dr2, fds[g])
  <2>1. fds[g].entry \in Entry /\ fds[g].pos \in Nat /\ Follows(nx2, dir, fds[g])
    BY <1>2, <1>15, DescTypes
  <2>2. CASE fds[g].entry # e
    BY <1>14, <2>1, <2>2 DEF Follows
  <2>3. CASE fds[g].entry = e
    <3>1. fds[g].pos <= dir[e].size
      BY <2>1, <2>3 DEF Follows
    <3>2. fds[g].pos <= size
      BY <1>2, <1>3, <2>1, <3>1
    <3> QED BY <1>14, <2>1, <2>3, <3>2 DEF Follows
  <2> QED BY <2>2, <2>3
<1>16. \A g \in Fd : fds'[g] # NoDesc => Follows(nx2, dr2, fds'[g])
  <2>1. /\ end \in Nat /\ end <= dr2[fds[fd].entry].size
        /\ path[hops] \in Chain(nx2, dr2[fds[fd].entry].first)
        /\ Hops(nx2, dr2[fds[fd].entry].first, path[hops]) = BlockIndex(end)
    BY <1>2, <1>3, <1>10, <1>11, <1>14
  <2>2. fds' = [fds EXCEPT ![fd].pos = end, ![fd].curr = path[hops]]
    BY <1>12
  <2>3. PICK c : c = path[hops]
    OBVIOUS
  <2> QED BY <1>15, <2>1, <2>2, <2>3, MoveFollows
<1> QED BY <1>2, <1>12, <1>13, <1>14, <1>16

LEMMA WriteKeepsCareful ==
  ASSUME CInv, IInv', NEW fd \in Fd, fds[fd] # NoDesc, NEW len \in Lens,
         NEW v \in Bytes, ~ WriteTooBig(fd, len),
         NEW e, e = fds[fd].entry, NEW b, b = dir[e].first,
         NEW nx2 \in NextFunction, nx2 = next', NextInjective(nx2), Root(nx2, b),
         \A g \in Fd : fds[g] # NoDesc => Follows(nx2, dir, fds[g]),
         NEW size \in Nat,
         size = IF EndPos(fd, len) > FileSize(fd) THEN EndPos(fd, len) ELSE FileSize(fd),
         Size(nx2, b) = 1 + BlockIndex(size),
         \/ \E path \in Paths(nx2, fds[fd].curr, HopsFor(fds[fd].pos, len)) :
              WriteComplete(fd, len, v, path, HopsFor(fds[fd].pos, len))
         \/ WriteAborts(fd, len, v, nx2, HopsFor(fds[fd].pos, len)),
         \A x \in Entry : x # e => Size(nx2, dir[x].first) = Size(next, dir[x].first),
         \A c \in Block : \/ c \in Chain(nx2, freelist')
                          \/ \E x \in Entry : c \in Chain(nx2, dir[x].first),
         NoPrev(prev', freelist'), \A x \in Entry : NoPrev(prev', dir[x].first),
         UNCHANGED <<mounted, openFile>>
  PROVE  CInv'
<1>1. PICK dr2, fr2, pv2, hops : /\ dr2 = dir' /\ fr2 = freelist' /\ pv2 = prev'
                                 /\ hops = HopsFor(fds[fd].pos, len)
  OBVIOUS
<1>2. /\ status' = "running"
      /\ \A g \in Fd : fds'[g] # NoDesc => Follows(nx2, dir', fds'[g])
      /\ dir'[e].first = b /\ dir'[e].size = size /\ dir'[e].name = dir[e].name
      /\ \A x \in Entry : x # e => dir'[x] = dir[x]
  <2>1. SizeFits(fd, len)
    BY SizeLimited
  <2> QED BY <1>1, <2>1, WriteReachesItsEnd
<1>3. /\ dr2[e].first = b /\ dr2[e].size = size /\ dr2[e].name = dir[e].name
      /\ \A x \in Entry : x # e => dr2[x] = dir[x]
      /\ \A x \in Entry : dr2[x].first = dir[x].first /\ dr2[x].name = dir[x].name
  BY <1>1, <1>2
<1>4. CarefulDisk(next, prev, freelist, dir) /\ BlocksFor(size) = 1 + BlockIndex(size)
  BY RoundUpIndex DEF CInv
<1>5. CarefulDisk(nx2, pv2, fr2, dr2)
  <2>1. ASSUME NEW x \in Entry, dr2[x].first # Null
        PROVE  Size(nx2, dr2[x].first) = BlocksFor(dr2[x].size)
    BY <1>3, <1>4, <2>1 DEF CarefulDisk
  <2>2. \A c \in Block : \/ c \in Chain(nx2, fr2)
                         \/ \E x \in Entry : c \in Chain(nx2, dr2[x].first)
    BY <1>1, <1>3
  <2>3. \A x, y \in Entry : x # y /\ dr2[x].first # Null /\ dr2[y].first # Null
                              => dr2[x].name # dr2[y].name
    BY <1>3, <1>4 DEF CarefulDisk
  <2>4. NoPrev(pv2, fr2) /\ \A x \in Entry : NoPrev(pv2, dr2[x].first)
    BY <1>1, <1>3
  <2>5. SizesHeld(dr2)
    <3>1. RoundUp(size) <= MaxFileSize
      BY SizeLimited
    <3> QED BY <1>3, <1>4, <3>1 DEF CarefulDisk, SizesHeld
  <2> QED BY <2>1, <2>2, <2>3, <2>4, <2>5 DEF CarefulDisk
<1>6. MappedIn(openFile', mounted')
  BY DEF CInv
<1> QED BY <1>1, <1>2, <1>5, <1>6 DEF CInv

\* What a call of sfs_write does with the lists, name by name.
EndsOf(nx, b) == {c \in Chain(nx, b) : nx[c] = Null}

Attaches(fd, len, nx1, run) ==
  /\ run # {} /\ EndsOf(nx1, fds[fd].curr) # {}
  /\ Paths(nx1, fds[fd].curr, HopsFor(fds[fd].pos, len)) = {}

WriteLists(fd, len, v, nx, fr, run, nx1, pv1, tail, nx2) ==
  /\ nx = next /\ fr = freelist
  /\ run = AllocatedRun(nx, fr, AddlBlocks(fd, len))
  /\ nx1 = NextAfterAllocate(nx, run)
  /\ pv1 = PrevAfterAllocate(nx, prev, run)
  /\ tail = CHOOSE c \in EndsOf(nx1, fds[fd].curr) : TRUE
  /\ nx2 = IF Attaches(fd, len, nx1, run) THEN [nx1 EXCEPT ![tail] = fr] ELSE nx1
  /\ freelist' = FreeAfterAllocate(nx, fr, run)
  /\ next' = nx2
  /\ prev' = IF Attaches(fd, len, nx1, run) THEN [pv1 EXCEPT ![fr] = tail] ELSE pv1
  /\ \/ \E path \in Paths(nx2, fds[fd].curr, HopsFor(fds[fd].pos, len)) :
          WriteComplete(fd, len, v, path, HopsFor(fds[fd].pos, len))
     \/ WriteAborts(fd, len, v, nx2, HopsFor(fds[fd].pos, len))
  /\ UNCHANGED <<mounted, openFile>>

LEMMA WriteByName ==
  ASSUME CInv, NEW fd \in Fd, fds[fd] # NoDesc, NEW len, NEW v, WriteData(fd, len, v)
  PROVE  \E nx, fr, run, nx1, pv1, tail, nx2 :
           WriteLists(fd, len, v, nx, fr, run, nx1, pv1, tail, nx2)
<1> DEFINE curr == fds[fd].curr
           hops == HopsFor(fds[fd].pos, len)
           run  == AllocatedRun(next, freelist, AddlBlocks(fd, len))
           nx1  == NextAfterAllocate(next, run)
           pv1  == PrevAfterAllocate(next, prev, run)
           bt1  == TypeAfterAllocate(btype, run)
           tail == CHOOSE c \in EndsOf(nx1, curr) : TRUE
           nx2  == IF Attaches(fd, len, nx1, run) THEN [nx1 EXCEPT ![tail] = freelist]
                   ELSE nx1
<1>1. bt1[curr] = "file"
  <2>1. curr \in Block /\ btype[curr] = "file"
    BY FollowFacts
  <2> QED BY <2>1 DEF TypeAfterAllocate
<1>2. (/\ run # {} /\ bt1[curr] = "file"
       /\ EndsOf(nx1, curr) # {} /\ Paths(nx1, curr, hops) = {})
      <=> Attaches(fd, len, nx1, run)
  <2> HIDE DEF run, nx1, bt1
  <2> QED BY <1>1 DEF Attaches
<1>3. /\ freelist' = FreeAfterAllocate(next, freelist, run)
      /\ next' = IF (/\ run # {} /\ bt1[curr] = "file"
                     /\ EndsOf(nx1, curr) # {} /\ Paths(nx1, curr, hops) = {})
                   THEN [nx1 EXCEPT ![tail] = freelist] ELSE nx1
      /\ prev' = IF (/\ run # {} /\ bt1[curr] = "file"
                     /\ EndsOf(nx1, curr) # {} /\ Paths(nx1, curr, hops) = {})
                   THEN [pv1 EXCEPT ![freelist] = tail] ELSE pv1
      /\ \/ \E path \in Paths(next', curr, hops) : WriteComplete(fd, len, v, path, hops)
         \/ WriteAborts(fd, len, v, next', hops)
         \/ bt1[curr] # "file"
      /\ UNCHANGED <<mounted, openFile>>
  BY Zenon DEF WriteData, EndsOf
<1> HIDE DEF curr, hops, run, nx1, pv1, bt1, tail
<1>4. /\ next' = nx2
      /\ prev' = IF Attaches(fd, len, nx1, run) THEN [pv1 EXCEPT ![freelist] = tail]
                 ELSE pv1
  BY <1>2, <1>3
<1> HIDE DEF nx2
<1>5. WriteLists(fd, len, v, next, freelist, run, nx1, pv1, tail, nx2)
  BY <1>1, <1>3, <1>4, Zenon
     DEF WriteLists, nx2, run, nx1, pv1, tail, curr, hops
<1> QED BY <1>5

\* The blocks of the file suffice: no list changes.
LEMMA WriteFitsCInv ==
  ASSUME CInv, IInv', NEW fd \in Fd, fds[fd] # NoDesc, NEW len \in Lens,
         NEW v \in Bytes, ~ WriteTooBig(fd, len), ~ Enlarges(fd, len),
         NEW nx, NEW fr, NEW run, NEW nx1, NEW pv1, NEW tail, NEW nx2,
         WriteLists(fd, len, v, nx, fr, run, nx1, pv1, tail, nx2)
  PROVE  CInv'
<1>1. PICK e, b, pos, old, end, size :
        /\ e = fds[fd].entry /\ b = dir[e].first /\ pos = fds[fd].pos
        /\ old = dir[e].size /\ end = pos + len
        /\ size = IF end > old THEN end ELSE old
  OBVIOUS
<1>2. /\ IInv /\ e \in Entry /\ Root(next, b) /\ old \in Nat /\ pos \in Nat
      /\ pos <= old /\ Size(next, b) = 1 + BlockIndex(old) /\ FileSize(fd) = old
  BY <1>1, FollowFacts
<1>3. /\ len \in Nat /\ end \in Nat /\ size \in Nat /\ EndPos(fd, len) = end
      /\ size = IF EndPos(fd, len) > FileSize(fd) THEN EndPos(fd, len) ELSE FileSize(fd)
  BY <1>1, <1>2, ClientAssumption DEF Lens, EndPos
<1>4. AddlBlocks(fd, len) = 0 /\ BlockIndex(end) <= BlockIndex(old)
  BY <1>1, <1>2, <1>3, AddlBlocksIndex
<1>5. BlockIndex(size) = BlockIndex(old)
  <2>1. CASE end > old
    <3>1. size = end /\ old <= end
      BY <1>1, <1>2, <1>3, <2>1
    <3>2. BlockIndex(old) <= BlockIndex(end)
      BY <1>2, <1>3, <3>1, IndexMonotone
    <3> QED BY <1>2, <1>3, <1>4, <3>1, <3>2, IndexRange
  <2>2. CASE ~ (end > old)
    BY <1>1, <2>2
  <2> QED BY <2>1, <2>2
<1>6. run = {}
  <2>1. ~ CanAllocate(nx, fr, 0)
    BY DEF CanAllocate
  <2> QED BY <1>4, <2>1 DEF WriteLists, AllocatedRun
<1>7. /\ next \in NextFunction /\ NextInjective(next) /\ prev \in NextFunction
  BY <1>2, DiskRoots
<1>8. nx2 = next /\ pv1 = prev
  <2>1. nx1 = next
    BY <1>6, <1>7 DEF WriteLists, NextAfterAllocate, NextFunction
  <2>2. pv1 = prev
    BY <1>6, <1>7 DEF WriteLists, PrevAfterAllocate, NextFunction
  <2> QED BY <1>6, <2>1, <2>2 DEF WriteLists, Attaches
<1>9. /\ next' = nx2 /\ prev' = prev /\ freelist' = freelist
      /\ UNCHANGED <<mounted, openFile>>
      /\ \/ \E path \in Paths(nx2, fds[fd].curr, HopsFor(fds[fd].pos, len)) :
              WriteComplete(fd, len, v, path, HopsFor(fds[fd].pos, len))
         \/ WriteAborts(fd, len, v, nx2, HopsFor(fds[fd].pos, len))
  BY <1>6, <1>8 DEF WriteLists, Attaches, FreeAfterAllocate
<1>10. /\ \A g \in Fd : fds[g] # NoDesc => Follows(nx2, dir, fds[g])
       /\ \A x \in Entry : x # e => Size(nx2, dir[x].first) = Size(next, dir[x].first)
       /\ \A c \in Block : \/ c \in Chain(nx2, freelist')
                           \/ \E x \in Entry : c \in Chain(nx2, dir[x].first)
       /\ NoPrev(prev', freelist') /\ \A x \in Entry : NoPrev(prev', dir[x].first)
  BY <1>8, <1>9 DEF CInv, CarefulDisk
<1>11. nx2 \in NextFunction /\ NextInjective(nx2) /\ Root(nx2, b)
       /\ Size(nx2, b) = 1 + BlockIndex(size)
  BY <1>2, <1>5, <1>7, <1>8
<1> QED BY <1>1, <1>3, <1>9, <1>10, <1>11, WriteKeepsCareful

\* New blocks are taken off the free list and attached to the end of the file.
LEMMA WriteGrowsCInv ==
  ASSUME CInv, IInv', NEW fd \in Fd, fds[fd] # NoDesc, NEW len \in Lens,
         NEW v \in Bytes, ~ WriteTooBig(fd, len), Enlarges(fd, len),
         CanAllocate(next, freelist, AddlBlocks(fd, len)),
         NEW nx, NEW fr, NEW run, NEW nx1, NEW pv1, NEW tail, NEW nx2,
         WriteLists(fd, len, v, nx, fr, run, nx1, pv1, tail, nx2)
  PROVE  CInv'
<1>1. PICK e, b, curr, pos, old, end, size, add :
        /\ e = fds[fd].entry /\ b = dir[e].first /\ curr = fds[fd].curr
        /\ pos = fds[fd].pos /\ old = dir[e].size /\ end = pos + len
        /\ size = IF end > old THEN end ELSE old
        /\ add = AddlBlocks(fd, len)
  OBVIOUS
<1>2. /\ IInv /\ e \in Entry /\ b # Null /\ b \in Block /\ b \in BlockId
      /\ old \in Nat /\ pos \in Nat /\ pos <= old
      /\ curr \in Chain(next, b) /\ curr \in Block
      /\ Size(next, b) = 1 + BlockIndex(old)
      /\ Size(next, curr) = Size(next, b) - BlockIndex(pos)
      /\ FileSize(fd) = old
  BY <1>1, FollowFacts, BlockFacts
<1>3. /\ len \in Nat /\ end \in Nat /\ size \in Nat /\ EndPos(fd, len) = end
      /\ size = IF EndPos(fd, len) > FileSize(fd) THEN EndPos(fd, len) ELSE FileSize(fd)
  BY <1>1, <1>2, ClientAssumption DEF Lens, EndPos
<1>4. /\ BlockIndex(old) < BlockIndex(end) /\ add = BlockIndex(end) - BlockIndex(old)
      /\ BlockIndex(old) \in Nat /\ BlockIndex(end) \in Nat /\ BlockIndex(pos) \in Nat
      /\ add \in Nat /\ size = end
  <2>1. BlockIndex(old) < BlockIndex(end) /\ add = BlockIndex(end) - BlockIndex(old)
    BY <1>1, <1>2, <1>3, AddlBlocksIndex
  <2>2. /\ BlockIndex(old) \in Nat /\ BlockIndex(end) \in Nat
        /\ BlockIndex(pos) \in Nat
    BY <1>2, <1>3, IndexRange
  <2>3. ~ (end <= old)
    <3>1. end <= old => BlockIndex(end) <= BlockIndex(old)
      BY <1>2, <1>3, IndexMonotone
    <3> QED BY <2>1, <2>2, <3>1
  <2> QED BY <1>1, <1>2, <1>3, <2>1, <2>2, <2>3
<1>5. /\ nx = next /\ fr = freelist /\ run = AllocatedRun(nx, fr, add)
      /\ nx1 = NextAfterAllocate(nx, run) /\ CanAllocate(nx, fr, add)
      /\ pv1 = PrevAfterAllocate(nx, prev, run)
  <2>1. /\ nx = next /\ fr = freelist /\ run = AllocatedRun(nx, fr, AddlBlocks(fd, len))
        /\ nx1 = NextAfterAllocate(nx, run) /\ pv1 = PrevAfterAllocate(nx, prev, run)
    <3>1. nx = next /\ fr = freelist
      BY DEF WriteLists
    <3>2. run = AllocatedRun(nx, fr, AddlBlocks(fd, len))
      BY DEF WriteLists
    <3>3. nx1 = NextAfterAllocate(nx, run)
      BY DEF WriteLists
    <3>4. pv1 = PrevAfterAllocate(nx, prev, run)
      BY DEF WriteLists
    <3> QED BY <3>1, <3>2, <3>3, <3>4
  <2> QED BY <1>1, <2>1
<1>6. /\ nx \in NextFunction /\ NextInjective(nx) /\ fr \in BlockId
      /\ NoPredecessor(nx, fr) /\ btype \in TypeFunction /\ Firsts \in FirstFunction
      /\ ListInv(nx, btype, fr, Firsts, Null)
      /\ \A x \in Entry : dir[x].first \in BlockId /\ Firsts[x] = dir[x].first
  BY <1>2, <1>5, DiskRoots
<1>7. PICK bt1, fr2, firsts : /\ bt1 = TypeAfterAllocate(btype, run) /\ fr2 = freelist'
                              /\ firsts = Firsts
  OBVIOUS
<1>8. fr2 = FreeAfterAllocate(nx, fr, run) /\ fr2 \in BlockId /\ nx1 \in NextFunction
  <2>1. fr2 = FreeAfterAllocate(nx, fr, run)
    BY <1>7 DEF WriteLists
  <2>2. /\ FreeAfterAllocate(nx, fr, run) \in BlockId
        /\ NextAfterAllocate(nx, run) \in NextFunction
    BY <1>4, <1>5, <1>6, AllocateKeepsLists
  <2> QED BY <1>5, <2>1, <2>2
<1>9. /\ run # {} /\ Cardinality(run) = add
      /\ fr \in Block /\ Chain(nx1, fr) = run /\ run \subseteq Chain(nx, fr)
      /\ Chain(nx1, fr2) = Chain(nx, fr) \ run
      /\ Undisturbed(nx, nx1, Chain(nx, fr))
  BY <1>4, <1>5, <1>6, <1>8, AllocateChains DEF Undisturbed
<1>10. ListInv(nx1, bt1, fr2, firsts, fr) /\ \A x \in Entry : firsts[x] = dir[x].first
  BY <1>4, <1>5, <1>6, <1>7, <1>8, <1>9, AllocateKeepsLists
<1>11. \A x \in Entry :
         /\ Chain(nx, dir[x].first) \cap Chain(nx, fr) = {}
         /\ Chain(nx1, dir[x].first) = Chain(nx, dir[x].first)
         /\ Size(nx1, dir[x].first) = Size(nx, dir[x].first)
         /\ \A c \in Chain(nx, dir[x].first) : Chain(nx1, c) = Chain(nx, c)
  <2>1. \A x \in Entry : Chain(nx, dir[x].first) \cap Chain(nx, fr) = {}
    BY <1>2, <1>5, ChainsOfDisk
  <2> QED BY <1>6, <1>9, <2>1, ApartStays
<1>12. /\ NextInjective(nx1) /\ Root(nx1, b)
       /\ Chain(nx1, b) = Chain(nx, b) /\ curr \in Chain(nx1, b)
       /\ Size(nx1, b) = 1 + BlockIndex(old)
       /\ Size(nx1, curr) = 1 + BlockIndex(old) - BlockIndex(pos)
  <2>1. NextInjective(nx1) /\ Root(nx1, b)
    BY <1>1, <1>2, <1>10 DEF ListInv, Root
  <2>2. /\ Chain(nx1, b) = Chain(nx, b) /\ Size(nx1, b) = Size(nx, b)
        /\ Chain(nx1, curr) = Chain(nx, curr)
    BY <1>1, <1>2, <1>5, <1>11
  <2>3. Size(nx1, curr) = Size(nx, curr)
    BY <2>2 DEF Size
  <2>4. Size(nx1, curr) = 1 + BlockIndex(old) - BlockIndex(pos)
    BY <1>2, <1>4, <1>5, <2>2, <2>3
  <2> QED BY <1>2, <1>5, <2>1, <2>2, <2>4
\* The old chain is too short for the transfer, and it has an end.
<1>13. PICK hops : hops = HopsFor(pos, len)
  OBVIOUS
<1>14. hops = BlockIndex(end) - BlockIndex(pos) /\ hops \in Nat
  BY <1>1, <1>2, <1>3, <1>13, HopsForIndex, TransferInBounds
<1>15. Paths(nx1, curr, hops) = {}
  <2>1. ~ (hops < Size(nx1, curr))
    BY <1>4, <1>12, <1>14
  <2> QED BY <1>8, <1>12, <1>14, <2>1, PathExists
<1>16. tail \in Chain(nx1, b) /\ nx1[tail] = Null /\ EndsOf(nx1, curr) # {}
  <2>1. PICK t \in Chain(nx1, b) : nx1[t] = Null
    BY <1>8, <1>12, EndExists
  <2>2. t \in EndsOf(nx1, curr)
    BY <1>8, <1>12, <2>1, EndReached DEF EndsOf
  <2>3. tail = CHOOSE c \in EndsOf(nx1, curr) : TRUE
    BY <1>1 DEF WriteLists
  <2>4. tail \in EndsOf(nx1, curr)
    BY <2>2, <2>3
  <2>5. Chain(nx1, curr) \subseteq Chain(nx1, b)
    BY <1>2, <1>8, <1>12, SubChain
  <2> QED BY <2>2, <2>4, <2>5 DEF EndsOf
<1>17. Attaches(fd, len, nx1, run)
  BY <1>1, <1>9, <1>13, <1>15, <1>16 DEF Attaches
<1>18. /\ nx2 = [nx1 EXCEPT ![tail] = fr]
       /\ next' = nx2 /\ prev' = [pv1 EXCEPT ![fr] = tail]
       /\ UNCHANGED <<mounted, openFile>>
       /\ \/ \E path \in Paths(nx2, fds[fd].curr, HopsFor(fds[fd].pos, len)) :
               WriteComplete(fd, len, v, path, HopsFor(fds[fd].pos, len))
          \/ WriteAborts(fd, len, v, nx2, HopsFor(fds[fd].pos, len))
  BY <1>17 DEF WriteLists
<1>19. /\ nx2 \in NextFunction /\ NextInjective(nx2) /\ Root(nx2, b)
  <2>1. tail \in Block /\ btype[tail] = "file"
    BY <1>1, <1>2, <1>5, <1>12, <1>16, FileBlocks
  <2>2. bt1[tail] = "file"
    BY <1>7, <2>1 DEF TypeAfterAllocate
  <2>3. /\ [nx1 EXCEPT ![tail] = fr] \in NextFunction
        /\ ListInv([nx1 EXCEPT ![tail] = fr], bt1, fr2, firsts, Null)
    BY <1>8, <1>9, <1>10, <1>16, <2>1, <2>2, AttachKeepsLists
  <2>4. nx2 \in NextFunction /\ ListInv(nx2, bt1, fr2, firsts, Null)
    BY <1>18, <2>3
  <2> QED BY <1>1, <1>2, <1>10, <2>4 DEF ListInv, Root
<1>20. \A c \in Block : nx2[c] = IF c = tail THEN fr ELSE nx1[c]
  BY <1>8, <1>18 DEF NextFunction
<1>21. Chain(nx1, fr) \cap Chain(nx1, b) = {}
  BY <1>1, <1>2, <1>9, <1>11
<1>22. /\ \A c \in Chain(nx1, b) :
            /\ Chain(nx2, c) = Chain(nx1, c) \cup run
            /\ Size(nx2, c) = Size(nx1, c) + add
       /\ Undisturbed(nx1, nx2, Chain(nx1, b))
  <2>1. Size(nx1, fr) = add
    BY <1>9 DEF Size
  <2>2. /\ \A c \in Chain(nx1, b) :
             /\ Chain(nx2, c) = Chain(nx1, c) \cup Chain(nx1, fr)
             /\ Size(nx2, c) = Size(nx1, c) + Size(nx1, fr)
        /\ \A c \in BlockId :
             Chain(nx1, c) \cap Chain(nx1, b) = {} => Chain(nx2, c) = Chain(nx1, c)
    BY <1>8, <1>9, <1>12, <1>16, <1>19, <1>20, <1>21, AttachChains
  <2> QED BY <1>9, <2>1, <2>2 DEF Undisturbed
<1>23. b \in Chain(nx1, b)
  BY <1>2, <1>8, ChainClosed
<1>24. Size(nx2, b) = 1 + BlockIndex(size)
  BY <1>4, <1>12, <1>22, <1>23
<1>25. \A x \in Entry : x # e =>
         /\ Chain(nx1, dir[x].first) \cap Chain(nx1, b) = {}
         /\ Chain(nx2, dir[x].first) = Chain(nx, dir[x].first)
         /\ Size(nx2, dir[x].first) = Size(nx, dir[x].first)
  <2>1. \A x \in Entry : x # e => Chain(nx1, dir[x].first) \cap Chain(nx1, b) = {}
    BY <1>1, <1>2, <1>5, <1>11, ChainsOfDisk
  <2> QED BY <1>6, <1>8, <1>11, <1>22, <2>1, ApartStays
<1>26. ASSUME NEW g \in Fd, fds[g] # NoDesc PROVE Follows(nx2, dir, fds[g])
  <2>1. fds[g].entry \in Entry /\ Follows(nx, dir, fds[g])
    BY <1>2, <1>5, <1>26, DescTypes DEF CInv
  <2>2. Follows(nx1, dir, fds[g])
    BY <1>6, <1>9, <1>11, <2>1, FollowsApart
  <2>3. CASE fds[g].entry # e
    BY <1>6, <1>8, <1>22, <1>25, <2>1, <2>2, <2>3, FollowsApart
  <2>4. CASE fds[g].entry = e
    <3>1. PICK c : c = fds[g].curr
      OBVIOUS
    <3>2. c \in Chain(nx1, b) /\ Hops(nx1, b, c) = BlockIndex(fds[g].pos)
      BY <1>1, <2>2, <2>4, <3>1 DEF Follows
    <3>3. /\ Size(nx2, c) = Size(nx1, c) + add /\ Size(nx2, b) = Size(nx1, b) + add
          /\ c \in Chain(nx2, b)
      BY <1>22, <1>23, <3>2
    <3>4. Size(nx1, c) \in Nat /\ Size(nx1, b) \in Nat
      BY <1>8, <1>12, <1>23, <3>2, SizePositive
    <3>5. Hops(nx2, b, c) = Hops(nx1, b, c)
      BY <1>4, <3>3, <3>4 DEF Hops, Size
    <3> QED BY <1>1, <2>2, <2>4, <3>1, <3>2, <3>3, <3>5 DEF Follows
  <2> QED BY <2>3, <2>4
<1>27. ASSUME NEW c \in Block
       PROVE  c \in Chain(nx2, fr2) \/ \E x \in Entry : c \in Chain(nx2, dir[x].first)
  <2>1. CASE c \in run
    BY <1>1, <1>2, <1>22, <1>23, <2>1
  <2>2. CASE c \in Chain(nx, fr) /\ c \notin run
    <3>1. Chain(nx1, fr2) \cap Chain(nx1, b) = {}
      BY <1>1, <1>2, <1>9, <1>11
    <3>2. Chain(nx2, fr2) = Chain(nx1, fr2)
      BY <1>8, <1>22, <3>1 DEF Undisturbed
    <3> QED BY <1>9, <2>2, <3>2
  <2>3. CASE c \notin Chain(nx, fr)
    <3>1. PICK x \in Entry : c \in Chain(nx, dir[x].first)
      BY <1>5, <2>3 DEF CInv, CarefulDisk
    <3>2. CASE x = e
      BY <1>1, <1>2, <1>12, <1>22, <1>23, <3>1, <3>2
    <3>3. CASE x # e
      BY <1>25, <3>1, <3>3
    <3> QED BY <3>2, <3>3
  <2> QED BY <2>1, <2>2, <2>3
\* Only the first of the new blocks has a prev pointer that was not there.
<1>28. PICK pv2 : pv2 = prev'
  OBVIOUS
<1>29. \A c \in Block : c # fr => pv2[c] = Null \/ pv2[c] = prev[c]
  <2>1. \A c \in Block : pv1[c] = Null \/ pv1[c] = prev[c]
    BY <1>5 DEF PrevAfterAllocate
  <2>2. \A c \in Block : c # fr => pv2[c] = pv1[c]
    <3>1. pv2 = [pv1 EXCEPT ![fr] = tail] /\ DOMAIN pv1 = Block
      BY <1>5, <1>18, <1>28 DEF PrevAfterAllocate
    <3> QED BY <3>1
  <2> QED BY <2>1, <2>2
<1>30. fr2 # fr /\ \A x \in Entry : dir[x].first # Null => dir[x].first # fr
  BY <1>9, <1>10, BlockFacts DEF ListInv
<1>31. NoPrev(pv2, fr2)
  <2>1. SUFFICES ASSUME fr2 # Null PROVE pv2[fr2] = Null
    BY DEF NoPrev
  <2>2. fr2 \in Block /\ fr2 = nx[LastOf(nx, run)]
    BY <1>8, <1>9, <2>1, BlockFacts DEF FreeAfterAllocate
  <2>3. pv1[fr2] = Null
    BY <1>5, <1>9, <2>2 DEF PrevAfterAllocate
  <2>4. pv2 = [pv1 EXCEPT ![fr] = tail] /\ DOMAIN pv1 = Block
    BY <1>5, <1>18, <1>28 DEF PrevAfterAllocate
  <2> QED BY <1>30, <2>2, <2>3, <2>4
<1>32. ASSUME NEW x \in Entry PROVE NoPrev(pv2, dir[x].first)
  BY <1>6, <1>29, <1>30, BlockFacts DEF CInv, CarefulDisk, NoPrev
<1>33. /\ \A x \in Entry : x # e => Size(nx2, dir[x].first) = Size(next, dir[x].first)
       /\ \A c \in Block : \/ c \in Chain(nx2, freelist')
                           \/ \E x \in Entry : c \in Chain(nx2, dir[x].first)
       /\ NoPrev(prev', freelist') /\ \A x \in Entry : NoPrev(prev', dir[x].first)
  BY <1>5, <1>7, <1>25, <1>27, <1>28, <1>31, <1>32
<1>34. /\ nx2 = next' /\ UNCHANGED <<mounted, openFile>>
       /\ \/ \E path \in Paths(nx2, fds[fd].curr, HopsFor(fds[fd].pos, len)) :
               WriteComplete(fd, len, v, path, HopsFor(fds[fd].pos, len))
          \/ WriteAborts(fd, len, v, nx2, HopsFor(fds[fd].pos, len))
  BY <1>18, Zenon
<1>35. e = fds[fd].entry /\ b = dir[e].first
  BY <1>1
<1>36. \A g \in Fd : fds[g] # NoDesc => Follows(nx2, dir, fds[g])
  BY <1>26
<1>37. fds[fd] # NoDesc /\ CInv /\ IInv' /\ ~ WriteTooBig(fd, len)
  OBVIOUS
<1> QED BY ONLY <1>3, <1>19, <1>24, <1>33, <1>34, <1>35, <1>36, <1>37, WriteKeepsCareful

LEMMA WriteCInv ==
  ASSUME CInv, NEW fd \in Fd, NEW len \in Lens, NEW v \in Bytes, Write(fd, len, v)
  PROVE  CInv'
<1>1. IInv'
  BY WriteIInv DEF CInv
<1>2. CASE BadFd(fd)
  BY <1>2, FailKeepsCInv DEF BadFd, Code
<1>3. CASE \E c \in {"EFBIG", "ENOSPC"} : FailUnchanged(c)
  BY <1>3, FailKeepsCInv DEF Code
<1>4. CASE /\ fds[fd] # NoDesc /\ ~ WriteTooBig(fd, len)
           /\ ~ WriteNoSpace(fd, len) /\ WriteData(fd, len, v)
  <2>1. PICK nx, fr, run, nx1, pv1, tail, nx2 :
          WriteLists(fd, len, v, nx, fr, run, nx1, pv1, tail, nx2)
    BY <1>4, WriteByName
  <2>2. CASE ~ Enlarges(fd, len)
    BY <1>1, <1>4, <2>1, <2>2, WriteFitsCInv
  <2>3. CASE Enlarges(fd, len)
    <3>1. CanAllocate(next, freelist, AddlBlocks(fd, len))
      BY <1>4, <2>3 DEF WriteNoSpace
    <3> QED BY <1>1, <1>4, <2>1, <2>3, <3>1, WriteGrowsCInv
  <2> QED BY <2>2, <2>3
<1>5. CASE fds[fd] # NoDesc /\ (~ Mapped(fd) \/ fds[fd].pos > FileSize(fd))
  <2>1. Mapped(fd)
    BY <1>5, OpenFileMapped
  <2>2. /\ fds[fd].pos \in Nat /\ FileSize(fd) \in Nat
        /\ fds[fd].pos <= FileSize(fd)
    BY <1>5, FollowFacts
  <2> QED BY <1>5, <2>1, <2>2
<1>6. CASE fds[fd] # NoDesc /\ GrowthAborts(fd, len)
  BY <1>6, NoGrowthAborts
<1> QED BY <1>2, <1>3, <1>4, <1>5, <1>6 DEF Write

-----------------------------------------------------------------------------
LEMMA StepCInv == CInv /\ [CarefulNext]_vars => CInv'
<1> SUFFICES ASSUME CInv, [CarefulNext]_vars PROVE CInv'
  OBVIOUS
<1>1. CASE \E name \in Names : Open(name) \/ Remove(name)
  BY <1>1, OpenCInv, RemoveCInv
<1>2. CASE \E old, new \in Names :
             RenameReplacesClosedFile(old, new) /\ Rename(old, new)
  BY <1>2, RenameCInv
<1>3. CASE \E fd \in Fd : Close(fd) \/ GetPos(fd)
  BY <1>3, CloseCInv, GetPosCInv
<1>4. CASE \E fd \in Fd, len \in Lens : Read(fd, len)
  BY <1>4, ReadCInv
<1>5. CASE \E fd \in Fd, len \in Lens, v \in Bytes : Write(fd, len, v)
  BY <1>5, WriteCInv
<1>6. CASE \E fd \in Fd, delta \in - MaxLen .. MaxLen :
             SeekStaysInBlock(fd, delta) /\ Seek(fd, delta)
  BY <1>6, SeekCInv
<1>7. CASE Mount \/ Format \/ Restart
  BY <1>7, MountCInv, FormatCInv, RestartCInv
<1>8. CASE (\A fd \in Fd : fds[fd] = NoDesc) /\ Unmount
  BY <1>8, UnmountCInv
<1>9. CASE UNCHANGED vars
  <2>1. IInv'
    BY <1>9, StepIInv DEF CInv
  <2>2. UNCHANGED diskVars /\ UNCHANGED memVars /\ UNCHANGED status
    BY <1>9 DEF vars, diskVars, memVars
  <2> QED BY <2>1, <2>2, NothingChanges
<1> QED BY <1>1, <1>2, <1>3, <1>4, <1>5, <1>6, <1>7, <1>8, <1>9
        DEF CarefulNext, CarefulCall

LEMMA CarefulInvariant == CarefulSpec => []CInv
BY InitCInv, StepCInv, PTL DEF CarefulSpec

(***************************************************************************)
(* A careful client leaks no block and leaves every file with exactly the  *)
(* blocks that its size needs, over any sequence of calls, failed calls    *)
(* and restarts (allocateBlocks and freeBlocks as sfs_open, sfs_write,     *)
(* sfs_remove and sfs_rename use them).                                    *)
(***************************************************************************)
THEOREM SpaceStaysAccounted == CarefulSpec => []SpaceAccounted
<1>1. CInv => SpaceAccounted
  BY CInvMeans
<1> QED BY <1>1, CarefulInvariant, PTL

(***************************************************************************)
(* currBlock of every descriptor is the block of its own file that the     *)
(* position calls for, whatever other descriptors did to the file in       *)
(* between (the copying loops of sfs_read and sfs_write).                  *)
(***************************************************************************)
THEOREM CurrBlockStaysInStep == CarefulSpec => []CurrBlockTracksPos
<1>1. CInv => CurrBlockTracksPos
  BY CInvMeans
<1> QED BY <1>1, CarefulInvariant, PTL

(***************************************************************************)
(* No two files ever have the same name (sfs_open, sfs_rename).            *)
(***************************************************************************)
THEOREM NamesStayUnique == CarefulSpec => []NamesUnique
<1>1. CInv => NamesUnique
  BY CInvMeans
<1> QED BY <1>1, CarefulInvariant, PTL

(***************************************************************************)
(* No assertion of sfs-disk.c fails, and no pointer into an unmapped image *)
(* is followed: a careful client's sfs_open and sfs_write find free blocks *)
(* on the free list, sfs_remove and sfs_rename free none twice, sfs_read   *)
(* and sfs_write always find the blocks they need, and no size that        *)
(* sfs_write stores reaches SFS_MAX_FILE_SIZE, because of LimitAssumption: *)
(* the greatest size is no whole number of blocks.                         *)
(***************************************************************************)
THEOREM CarefulClientNeverAborts == CarefulSpec => []NeverAborts
<1>1. CInv => NeverAborts
  BY CInvMeans
<1> QED BY <1>1, CarefulInvariant, PTL

-----------------------------------------------------------------------------
(***************************************************************************)
(* Sfs implements FileStore: the contents of files, first; then the space; *)
(* then the calls.                                                         *)
(***************************************************************************)

(***************************************************************************)
(* The spine of a chain: its blocks by their number of hops.               *)
(***************************************************************************)
LEMMA SpineRecurs ==
  ASSUME NEW nx, NEW b
  PROVE  \A i \in 0 .. NBlocks :
           Spine(nx, b)[i] = IF i = 0 THEN b ELSE nx[Spine(nx, b)[i - 1]]
<1>0. NBlocks \in Nat
  BY GeometryAssumption
<1> DEFINE Runs(f, n) == f = [i \in 0 .. n |-> IF i = 0 THEN b ELSE nx[f[i - 1]]]
           Bad == {n \in Nat : \A f : ~ Runs(f, n)}
<1>1. Bad = {}
  <2> SUFFICES ASSUME Bad # {} PROVE FALSE
    OBVIOUS
  <2>1. PICK m \in Bad : \A k \in Bad : m <= k
    <3>1. Bad \in SUBSET Nat
      OBVIOUS
    <3> HIDE DEF Bad
    <3> QED BY <3>1, LeastNumber
  <2>2. m \in Nat
    OBVIOUS
  <2>3. m # 0
    <3>1. PICK f : f = [i \in 0 .. 0 |-> b]
      OBVIOUS
    <3>2. Runs(f, 0)
      BY <3>1
    <3> QED BY <3>2
  <2>4. m - 1 \in Nat /\ m - 1 \notin Bad
    <3>1. m - 1 \in Nat /\ ~ (m <= m - 1)
      BY <2>2, <2>3
    <3> HIDE DEF Bad
    <3> QED BY <2>1, <3>1
  <2>5. PICK f : Runs(f, m - 1)
    BY <2>4
  <2>6. PICK g : g = [i \in 0 .. m |-> IF i = m THEN nx[f[m - 1]] ELSE f[i]]
    OBVIOUS
  <2>7. ASSUME NEW i \in 0 .. m
        PROVE  g[i] = IF i = 0 THEN b ELSE nx[g[i - 1]]
    <3>1. CASE i = m
      <4>1. m - 1 \in 0 .. m /\ m - 1 # m
        BY <2>2, <2>4
      <4> QED BY <2>3, <2>6, <3>1, <4>1
    <3>2. CASE i # m
      <4>1. i \in 0 .. m - 1 /\ (i # 0 => i - 1 \in 0 .. m /\ i - 1 # m)
        BY <2>2, <3>2
      <4>2. f[i] = IF i = 0 THEN b ELSE nx[f[i - 1]]
        BY <2>5, <4>1
      <4> QED BY <2>6, <3>2, <4>1, <4>2
    <3> QED BY <3>1, <3>2
  <2>8. Runs(g, m)
    BY <2>6, <2>7
  <2> QED BY <2>1, <2>8
<1>2. PICK f : Runs(f, NBlocks)
  <2>1. NBlocks \notin Bad
    BY <1>1
  <2> QED BY <1>0, <2>1
<1> DEFINE block[i \in 0 .. NBlocks] == IF i = 0 THEN b ELSE nx[block[i - 1]]
<1>3. block = [i \in 0 .. NBlocks |-> IF i = 0 THEN b ELSE nx[block[i - 1]]]
  BY <1>2
<1>4. Spine(nx, b) = block
  BY DEF Spine
<1> HIDE DEF block
<1>5. \A i \in 0 .. NBlocks : block[i] = IF i = 0 THEN b ELSE nx[block[i - 1]]
  BY <1>3
<1> QED BY <1>4, <1>5

LEMMA PathIsSpine ==
  ASSUME NEW nx, NEW b, NEW h \in 0 .. NBlocks, NEW p \in Paths(nx, b, h)
  PROVE  \A i \in 0 .. h : p[i] = Spine(nx, b)[i]
<1>1. NBlocks \in Nat /\ h \in Nat
  BY GeometryAssumption
<1> DEFINE Bad == {i \in 0 .. h : p[i] # Spine(nx, b)[i]}
<1>2. SUFFICES ASSUME Bad # {} PROVE FALSE
  OBVIOUS
<1>3. PICK m \in Bad : \A k \in Bad : m <= k
  <2>1. Bad \in SUBSET Nat
    BY <1>1
  <2> HIDE DEF Bad
  <2> QED BY <1>2, <2>1, LeastNumber
<1>4. m \in Nat /\ m \in 0 .. NBlocks
  BY <1>1
<1>5. m # 0
  BY <1>1, <1>4, SpineRecurs DEF Paths
<1>6. m - 1 \in 0 .. h /\ ~ (m <= m - 1) /\ m \in 1 .. h
  BY <1>1, <1>4, <1>5
<1>7. p[m - 1] = Spine(nx, b)[m - 1]
  BY <1>3, <1>6
<1>8. p[m] = nx[p[m - 1]]
  BY <1>6 DEF Paths
<1>9. Spine(nx, b)[m] = nx[Spine(nx, b)[m - 1]]
  BY <1>4, <1>5, SpineRecurs
<1> QED BY <1>7, <1>8, <1>9

\* A chain is shorter than the disk.
LEMMA SizeBound ==
  ASSUME NEW nx \in NextFunction, NEW b \in BlockId
  PROVE  Size(nx, b) <= NBlocks - 1
<1>1. 1 \in Int /\ NBlocks - 1 \in Int /\ ~ (1 > NBlocks - 1)
      /\ (NBlocks - 1) - 1 + 1 = NBlocks - 1
  BY GeometryAssumption
<1>2. Cardinality(Block) = NBlocks - 1
  BY <1>1, FS_Interval DEF Block
<1> QED BY <1>2, ChainFinite, BlockFacts, FS_Subset DEF Size

LEMMA SpineFacts ==
  ASSUME NEW nx \in NextFunction, NextInjective(nx), NEW b, Root(nx, b)
  PROVE  /\ Size(nx, b) \in 1 .. NBlocks - 1
         /\ Spine(nx, b)[0] = b
         /\ \A i \in 0 .. Size(nx, b) - 1 :
              /\ Spine(nx, b)[i] \in Chain(nx, b)
              /\ Size(nx, Spine(nx, b)[i]) = Size(nx, b) - i
         /\ \A c \in Chain(nx, b) :
              /\ Size(nx, c) \in 1 .. Size(nx, b)
              /\ c = Spine(nx, b)[Size(nx, b) - Size(nx, c)]
<1>1. b \in BlockId /\ b \in Block /\ b \in Chain(nx, b)
  BY BlockFacts, ChainClosed DEF Root
<1>2. PICK s : s = Size(nx, b)
  OBVIOUS
<1>3. s \in Nat \ {0} /\ s <= NBlocks - 1 /\ NBlocks \in Nat
  BY <1>1, <1>2, SizePositive, SizeBound, GeometryAssumption
<1>4. s - 1 \in Nat /\ s - 1 < s /\ s - 1 \in 0 .. NBlocks
  BY <1>3
<1>5. PICK p \in Paths(nx, b, s - 1) : TRUE
  BY <1>1, <1>2, <1>4, PathExists
<1>6. \A i \in 0 .. s - 1 : p[i] = Spine(nx, b)[i]
  BY <1>4, PathIsSpine
<1>7. \A i \in 0 .. s - 1 : p[i] \in Chain(nx, b) /\ Size(nx, p[i]) = s - i
  BY <1>1, <1>2, <1>4, PathSizes
<1> DEFINE S == {p[i] : i \in 0 .. s - 1}
<1>8. Chain(nx, b) \subseteq S
  <2>1. S \in SUBSET Block /\ b \in S
    <3>1. 0 \in 0 .. s - 1 /\ p[0] = b
      BY <1>3, <1>5 DEF Paths
    <3> QED BY <1>1, <1>7, <3>1, ChainClosed
  <2>2. Closed(nx, S)
    <3>1. SUFFICES ASSUME NEW i \in 0 .. s - 1, nx[p[i]] # Null
                   PROVE  nx[p[i]] \in S
      BY DEF Closed
    <3>2. i # s - 1
      <4>1. SUFFICES ASSUME i = s - 1 PROVE FALSE
        OBVIOUS
      <4>2. Size(nx, p[i]) = 1
        BY <1>3, <1>7, <4>1
      <4> QED BY <1>1, <1>7, <3>1, <4>2, SizePositive
    <3>3. i + 1 \in 1 .. s - 1 /\ i + 1 \in 0 .. s - 1 /\ (i + 1) - 1 = i
      BY <1>3, <3>2
    <3>4. p[i + 1] = nx[p[i]]
      BY <1>5, <3>3 DEF Paths
    <3> QED BY <3>3, <3>4
  <2> HIDE DEF S
  <2> QED BY <2>1, <2>2, ChainLeast
<1>9. ASSUME NEW c \in Chain(nx, b)
      PROVE  Size(nx, c) \in 1 .. s /\ c = Spine(nx, b)[s - Size(nx, c)]
  <2>1. PICK i \in 0 .. s - 1 : c = p[i]
    BY <1>8
  <2>2. Size(nx, c) = s - i
    BY <1>7, <2>1
  <2>3. s - i \in 1 .. s /\ s - (s - i) = i
    BY <1>3
  <2> QED BY <1>6, <2>1, <2>2, <2>3
<1>10. Spine(nx, b)[0] = b
  BY <1>3, SpineRecurs
<1> QED BY <1>2, <1>3, <1>6, <1>7, <1>9, <1>10

\* A walk from a block of the chain goes along the spine.
LEMMA PathAlongSpine ==
  ASSUME NEW nx \in NextFunction, NextInjective(nx), NEW b, Root(nx, b),
         NEW c \in Chain(nx, b), NEW h \in Nat, NEW p \in Paths(nx, c, h),
         NEW i \in 0 .. h
  PROVE  /\ Hops(nx, b, c) + i \in 0 .. Size(nx, b) - 1
         /\ p[i] = Spine(nx, b)[Hops(nx, b, c) + i]
<1>1. /\ p[i] \in Chain(nx, b)
      /\ Size(nx, p[i]) = Size(nx, c) - i
  BY PathSizes
<1>2. /\ Size(nx, b) \in Nat
      /\ Size(nx, c) \in 1 .. Size(nx, b)
      /\ Size(nx, p[i]) \in 1 .. Size(nx, b)
      /\ p[i] = Spine(nx, b)[Size(nx, b) - Size(nx, p[i])]
  BY <1>1, SpineFacts
<1>3. Hops(nx, b, c) = Size(nx, b) - Size(nx, c)
  BY DEF Hops, Size
<1>4. Size(nx, b) - Size(nx, p[i]) = Hops(nx, b, c) + i
      /\ Size(nx, b) - Size(nx, p[i]) \in 0 .. Size(nx, b) - 1
  BY <1>1, <1>2, <1>3
<1> QED BY <1>2, <1>4

\* The spine of a chain depends on the successors inside it.
LEMMA SpineKept ==
  ASSUME NEW nx \in NextFunction, NextInjective(nx), NEW b, Root(nx, b),
         NEW nx2, \A c \in Chain(nx, b) : nx[c] # Null => nx2[c] = nx[c],
         NEW i \in 0 .. Size(nx, b) - 1
  PROVE  Spine(nx2, b)[i] = Spine(nx, b)[i]
<1>1. b \in BlockId /\ b \in Block /\ b \in Chain(nx, b)
  BY BlockFacts, ChainClosed DEF Root
<1>2. Size(nx, b) \in Nat /\ Size(nx, b) <= NBlocks - 1 /\ NBlocks \in Nat /\ i \in Nat
  BY <1>1, SizePositive, SizeBound, GeometryAssumption
<1>3. i < Size(nx, b) /\ i \in 0 .. NBlocks /\ i \in 0 .. i
  BY <1>2
<1>4. PICK p \in Paths(nx, b, i) : TRUE
  BY <1>1, <1>2, <1>3, PathExists
<1>5. p \in Paths(nx2, b, i)
  <2>1. ASSUME NEW j \in 1 .. i PROVE p[j] = nx2[p[j - 1]]
    <3>1. j - 1 \in 0 .. i /\ j \in 0 .. i
      BY <1>2
    <3>2. p[j - 1] \in Chain(nx, b) /\ p[j] \in Chain(nx, b) /\ p[j] = nx[p[j - 1]]
      BY <1>1, <1>2, <1>4, <3>1, PathSizes DEF Paths
    <3>3. p[j] # Null
      BY <1>1, <3>2, ChainClosed, BlockFacts
    <3> QED BY <3>2, <3>3
  <2> QED BY <1>4, <2>1 DEF Paths
<1>6. p[i] = Spine(nx, b)[i]
  BY <1>3, <1>4, PathIsSpine
<1>7. p[i] = Spine(nx2, b)[i]
  BY <1>3, <1>5, PathIsSpine
<1> QED BY <1>6, <1>7

(***************************************************************************)
(* Where a transfer puts its bytes: byte k of it (from 1) is byte pos + k  *)
(* of the file, in the block of that number of hops.                       *)
(***************************************************************************)
LEMMA Quotient ==
  ASSUME NEW a \in Nat, NEW q \in Nat,
         BlockDataSize * q <= a, a < BlockDataSize * q + BlockDataSize
  PROVE  a \div BlockDataSize = q /\ a % BlockDataSize = a - BlockDataSize * q
<1>1. a \div BlockDataSize = q
  BY QuotientUnique
<1>2. a = BlockDataSize * q + (a % BlockDataSize) /\ a % BlockDataSize \in Offset
  BY <1>1, Division
<1>3. BlockDataSize * q \in Nat
  BY Multiples
<1> QED BY <1>1, <1>2, <1>3 DEF Offset

LEMMA BytePlace ==
  ASSUME NEW pos \in Nat, NEW n \in Nat, NEW k \in 1 .. n
  PROVE  /\ HopOf(pos, n, k - 1) = BlockIndex(pos + k) - BlockIndex(pos)
         /\ OffsetOf(pos, n, k - 1) = (pos + k - 1) % BlockDataSize
<1>0. PICK q, j : q = BlockIndex(pos) /\ j = k - 1
  OBVIOUS
<1>1. /\ BlockDataSize \in Nat \ {0} /\ q \in Nat /\ j \in Nat /\ j < n
      /\ pos + k \in Nat /\ pos + k # 0 /\ pos + k - 1 = pos + j /\ pos + j \in Nat
  <2>1. q \in Nat
    BY <1>0, IndexRange
  <2>2. /\ j \in Nat /\ j < n
        /\ pos + k \in Nat /\ pos + k # 0 /\ pos + k - 1 = pos + j /\ pos + j \in Nat
    BY <1>0
  <2> QED BY <2>1, <2>2, GeometryAssumption
<1>2. PICK bq : bq = BlockDataSize * q
  OBVIOUS
<1>3. bq \in Nat /\ BlockDataSize * (q + 1) = bq + BlockDataSize
  BY <1>1, <1>2, Multiples
<1>4. /\ RoundUp(pos) = bq + BlockDataSize
      /\ pos <= bq + BlockDataSize /\ bq <= pos
  <2>1. RoundUp(pos) = bq + BlockDataSize
    BY <1>0, <1>2, RoundUpIndex
  <2>2. pos <= bq + BlockDataSize
    BY <1>0, <1>2, IndexRange
  <2>3. pos # 0 => bq < pos
    BY <1>0, <1>2, IndexRange
  <2>4. pos = 0 => q = 0
    BY <1>0, IndexRange
  <2>5. pos = 0 => bq = 0
    BY <1>1, <1>2, <2>4
  <2> QED BY ONLY <1>1, <1>3, <2>1, <2>2, <2>3, <2>5, pos \in Nat
<1>5. PICK r : r = bq + BlockDataSize - pos
  OBVIOUS
<1>6. r \in Nat
  BY <1>1, <1>3, <1>4, <1>5
<1>7. FirstChunk(pos, n) = IF r < n THEN r ELSE n
  <2>1. RoundUp(pos) - pos = r
    BY ONLY <1>1, <1>3, <1>4, <1>5, <1>6
  <2>2. FirstChunk(pos, n) = SizeMin(RoundUp(pos) - pos, n)
    BY DEF FirstChunk
  <2> QED BY ONLY <2>1, <2>2 DEF SizeMin
<1>8. BlockIndex(pos + k) = (pos + j) \div BlockDataSize
  BY <1>1 DEF BlockIndex
<1>9. ASSUME j < r
      PROVE  /\ HopOf(pos, n, j) = BlockIndex(pos + k) - q
             /\ OffsetOf(pos, n, j) = (pos + j) % BlockDataSize
  <2>1. j < FirstChunk(pos, n)
    BY <1>1, <1>7, <1>9
  <2>2. HopOf(pos, n, j) = 0 /\ OffsetOf(pos, n, j) = (pos % BlockDataSize) + j
    BY <2>1 DEF HopOf, OffsetOf
  <2>3. bq <= pos /\ pos < bq + BlockDataSize /\ bq <= pos + j
        /\ pos + j < bq + BlockDataSize
    BY <1>1, <1>3, <1>4, <1>5, <1>9
  <2>4. pos % BlockDataSize = pos - bq
    BY <1>1, <1>2, <2>3, Quotient
  <2>5. /\ (pos + j) \div BlockDataSize = q
        /\ (pos + j) % BlockDataSize = pos + j - bq
    BY <1>1, <1>2, <2>3, Quotient
  <2>6. q - q = 0 /\ (pos - bq) + j = pos + j - bq
    BY <1>1, <1>3
  <2> QED BY ONLY <1>8, <2>2, <2>4, <2>5, <2>6
<1>10. ASSUME ~ (j < r)
       PROVE  /\ HopOf(pos, n, j) = BlockIndex(pos + k) - q
              /\ OffsetOf(pos, n, j) = (pos + j) % BlockDataSize
  <2>1. FirstChunk(pos, n) = r /\ ~ (j < FirstChunk(pos, n))
    BY <1>1, <1>6, <1>7, <1>10
  <2>2. PICK m : m = j - r
    OBVIOUS
  <2>3. m \in Nat /\ pos + j = bq + BlockDataSize + m
    BY <1>1, <1>3, <1>5, <1>6, <1>10, <2>2
  <2>4. /\ HopOf(pos, n, j) = 1 + m \div BlockDataSize
        /\ OffsetOf(pos, n, j) = m % BlockDataSize
    BY <2>1, <2>2 DEF HopOf, OffsetOf
  <2>5. PICK d, o : d = m \div BlockDataSize /\ o = m % BlockDataSize
    OBVIOUS
  <2>6. d \in Nat /\ o \in Nat /\ o < BlockDataSize /\ m = BlockDataSize * d + o
    <3>1. /\ m \div BlockDataSize \in Nat /\ m % BlockDataSize \in Offset
          /\ m = BlockDataSize * (m \div BlockDataSize) + (m % BlockDataSize)
      BY <2>3, Division
    <3>2. d \in Nat /\ o \in Offset /\ m = BlockDataSize * d + o
      BY <2>5, <3>1
    <3> QED BY ONLY <1>1, <3>2 DEF Offset
  <2>7. PICK s : s = q + 1 + d
    OBVIOUS
  <2>8. PICK bd, bs : bd = BlockDataSize * d /\ bs = BlockDataSize * s
    OBVIOUS
  <2>9. s \in Nat /\ bd \in Nat /\ bs = bq + BlockDataSize + bd
    <3>1. BlockDataSize * (q + 1 + d) = BlockDataSize * (q + 1) + BlockDataSize * d
      BY <1>1, <2>6
    <3>2. s \in Nat /\ bd \in Nat
      BY <1>1, <2>6, <2>7, <2>8, Multiples
    <3>3. bs = (bq + BlockDataSize) + bd
      BY <1>3, <2>7, <2>8, <3>1
    <3> QED BY <3>2, <3>3
  <2>10. bs <= pos + j /\ pos + j < bs + BlockDataSize /\ pos + j - bs = o
    <3>1. m = bd + o
      BY <2>6, <2>8
    <3> QED BY ONLY <1>1, <1>3, <2>3, <2>6, <2>9, <3>1
  <2>11. (pos + j) \div BlockDataSize = s /\ (pos + j) % BlockDataSize = o
    <3>1. /\ pos + j \in Nat /\ s \in Nat
          /\ BlockDataSize * s <= pos + j
          /\ pos + j < BlockDataSize * s + BlockDataSize
      BY <1>1, <2>8, <2>9, <2>10
    <3>2. PICK a : a = pos + j
      OBVIOUS
    <3>3. /\ a \in Nat /\ s \in Nat
          /\ BlockDataSize * s <= a /\ a < BlockDataSize * s + BlockDataSize
      BY ONLY <3>1, <3>2
    <3>4. a \div BlockDataSize = s /\ a % BlockDataSize = a - BlockDataSize * s
      BY ONLY <3>3, Quotient
    <3> QED BY ONLY <1>1, <1>3, <2>6, <2>8, <2>9, <2>10, <3>2, <3>3, <3>4
  <2>12. s - q = 1 + d
    BY <1>1, <2>6, <2>7
  <2> QED BY ONLY <1>8, <2>4, <2>5, <2>11, <2>12
<1> QED BY <1>0, <1>1, <1>6, <1>9, <1>10

-----------------------------------------------------------------------------
(***************************************************************************)
(* The contents of a file f (its directory entry) of a disk.               *)
(***************************************************************************)
DataFunction == [Block -> [Offset -> Bytes]]

\* A file: a list of blocks that nothing links to, as long as its size demands.
FileIn(nx, f) ==
  /\ Root(nx, f.first)
  /\ f.size \in Nat
  /\ Size(nx, f.first) = 1 + BlockIndex(f.size)

LEMMA ByteIndex ==
  ASSUME NEW size \in Nat, NEW k \in 1 .. size
  PROVE  /\ (k - 1) \div BlockDataSize = BlockIndex(k)
         /\ BlockIndex(k) \in 0 .. BlockIndex(size)
         /\ (k - 1) % BlockDataSize \in Offset
<1>1. k \in Nat /\ k # 0 /\ k <= size /\ k - 1 \in Nat
  OBVIOUS
<1>2. BlockIndex(k) \in Nat /\ BlockIndex(size) \in Nat
      /\ BlockIndex(k) <= BlockIndex(size)
  BY <1>1, IndexRange, IndexMonotone
<1>3. (k - 1) % BlockDataSize \in Offset
  BY <1>1, Division
<1>4. (k - 1) \div BlockDataSize = BlockIndex(k)
  BY <1>1 DEF BlockIndex
<1> QED BY <1>2, <1>3, <1>4

LEMMA ByteBlock ==
  ASSUME NEW nx \in NextFunction, NextInjective(nx), NEW f, FileIn(nx, f),
         NEW k \in 1 .. f.size
  PROVE  /\ (k - 1) \div BlockDataSize \in 0 .. Size(nx, f.first) - 1
         /\ (k - 1) % BlockDataSize \in Offset
         /\ Spine(nx, f.first)[(k - 1) \div BlockDataSize] \in Chain(nx, f.first)
         /\ Spine(nx, f.first)[(k - 1) \div BlockDataSize] \in Block
<1>1. f.size \in Nat /\ Root(nx, f.first) /\ Size(nx, f.first) = 1 + BlockIndex(f.size)
  BY DEF FileIn
<1>2. /\ (k - 1) \div BlockDataSize \in 0 .. BlockIndex(f.size)
      /\ (k - 1) % BlockDataSize \in Offset
      /\ BlockIndex(f.size) \in Nat
  BY <1>1, ByteIndex, IndexRange
<1>3. (k - 1) \div BlockDataSize \in 0 .. Size(nx, f.first) - 1
  BY <1>1, <1>2
<1>4. Spine(nx, f.first)[(k - 1) \div BlockDataSize] \in Chain(nx, f.first)
  BY <1>1, <1>3, SpineFacts
<1>5. Chain(nx, f.first) \subseteq Block
  BY DEF Chain
<1> QED BY <1>2, <1>3, <1>4, <1>5

LEMMA ContentsTyped ==
  ASSUME NEW nx \in NextFunction, NextInjective(nx), NEW f, FileIn(nx, f),
         NEW dt \in DataFunction
  PROVE  /\ ContentsIn(nx, dt, f) \in Seq(Bytes)
         /\ Len(ContentsIn(nx, dt, f)) = f.size
         /\ \A k \in 1 .. f.size :
              ContentsIn(nx, dt, f)[k] =
                dt[Spine(nx, f.first)[(k - 1) \div BlockDataSize]]
                  [(k - 1) % BlockDataSize]
<1>1. f.size \in Nat
  BY DEF FileIn
<1> DEFINE c == [k \in 1 .. f.size |->
                   dt[Spine(nx, f.first)[(k - 1) \div BlockDataSize]]
                     [(k - 1) % BlockDataSize]]
<1>2. ContentsIn(nx, dt, f) = c
  BY DEF ContentsIn
<1>3. c \in [1 .. f.size -> Bytes]
  <2>1. ASSUME NEW k \in 1 .. f.size
        PROVE  dt[Spine(nx, f.first)[(k - 1) \div BlockDataSize]]
                 [(k - 1) % BlockDataSize] \in Bytes
    BY ByteBlock DEF DataFunction
  <2> QED BY <2>1
<1>4. c \in Seq(Bytes) /\ Len(c) = f.size
  <2>1. DOMAIN c = 1 .. f.size
    OBVIOUS
  <2> HIDE DEF c
  <2> QED BY <1>1, <1>3, <2>1
<1> QED BY <1>2, <1>4

\* The links inside the blocks C are the same along both.
Keeps(nx, nx2, C) == \A c \in C : nx[c] # Null => nx2[c] = nx[c]

LEMMA SpineKeeps ==
  ASSUME NEW nx \in NextFunction, NextInjective(nx), NEW b, Root(nx, b),
         NEW nx2, Keeps(nx, nx2, Chain(nx, b)),
         NEW i \in 0 .. Size(nx, b) - 1
  PROVE  Spine(nx2, b)[i] = Spine(nx, b)[i]
BY SpineKept DEF Keeps

\* A file whose links and bytes stay has the same contents.
LEMMA ContentsKept ==
  ASSUME NEW nx \in NextFunction, NextInjective(nx), NEW f, FileIn(nx, f),
         NEW nx2, Keeps(nx, nx2, Chain(nx, f.first)),
         NEW dt, NEW dt2, \A c \in Chain(nx, f.first) : dt2[c] = dt[c],
         NEW g, g.first = f.first, g.size = f.size
  PROVE  ContentsIn(nx2, dt2, g) = ContentsIn(nx, dt, f)
<1>1. Root(nx, f.first)
  BY DEF FileIn
<1>2. ASSUME NEW k \in 1 .. f.size
      PROVE  dt2[Spine(nx2, f.first)[(k - 1) \div BlockDataSize]][(k - 1) % BlockDataSize]
             = dt[Spine(nx, f.first)[(k - 1) \div BlockDataSize]][(k - 1) % BlockDataSize]
  <2>1. PICK i, o : i = (k - 1) \div BlockDataSize /\ o = (k - 1) % BlockDataSize
    OBVIOUS
  <2>2. i \in 0 .. Size(nx, f.first) - 1 /\ Spine(nx, f.first)[i] \in Chain(nx, f.first)
    BY <2>1, ByteBlock
  <2>3. Spine(nx2, f.first)[i] = Spine(nx, f.first)[i]
    BY <1>1, <2>2, SpineKeeps
  <2>4. dt2[Spine(nx2, f.first)[i]][o] = dt[Spine(nx, f.first)[i]][o]
    BY <2>2, <2>3
  <2> QED BY <2>1, <2>4
<1> QED BY <1>2, Zenon DEF ContentsIn

\* The entries of a directory that have a name.
Holders(dr, name) == {e \in Entry : dr[e].first # Null /\ dr[e].name = name}

\* No two files have one name.
UniqueNames(dr) ==
  \A d, e \in Entry :
    d # e /\ dr[d].first # Null /\ dr[e].first # Null => dr[d].name # dr[e].name

(***************************************************************************)
(* A disk whose successor function is nx, whose free list starts at fr and *)
(* whose directory is dr, as a careful client leaves it.                   *)
(***************************************************************************)
GoodDisk(nx, fr, dr) ==
  /\ nx \in NextFunction /\ NextInjective(nx)
  /\ fr \in BlockId /\ NoPredecessor(nx, fr)
  /\ dr \in [Entry -> DirEntry]
  /\ \A e \in Entry : dr[e].first # Null => FileIn(nx, dr[e]) /\ dr[e].name \in Names
  /\ \A e \in Entry : Chain(nx, dr[e].first) \cap Chain(nx, fr) = {}
  /\ \A d, e \in Entry :
       d # e => Chain(nx, dr[d].first) \cap Chain(nx, dr[e].first) = {}
  /\ \A b \in Block : \/ b \in Chain(nx, fr)
                      \/ \E e \in Entry : b \in Chain(nx, dr[e].first)
  /\ UniqueNames(dr)

\* The files of the disk, and what its descriptors are to a client.
FilesOf(nx, dt, dr) ==
  [n \in Names |-> IF Holders(dr, n) = {} THEN Absent
                   ELSE ContentsIn(nx, dt, dr[Lowest(Holders(dr, n))])]

OpenOf(dr, table) ==
  [fd \in Fd |-> IF table[fd] = NoDesc THEN NoDesc
                 ELSE [name |-> dr[table[fd].entry].name, pos |-> table[fd].pos]]

LEMMA Bars ==
  /\ filesBar = FilesOf(next, data, dir)
  /\ openBar = OpenOf(dir, fds)
  /\ \A n \in Names : Named(n) = Holders(dir, n)
<1>1. \A n \in Names : Named(n) = Holders(dir, n)
  BY DEF Named, Holders, Live
<1>2. filesBar = FilesOf(next, data, dir)
  BY <1>1 DEF filesBar, FilesOf, ContentsOf
<1> QED BY <1>1, <1>2 DEF openBar, OpenOf

LEMMA BarsNext ==
  /\ filesBar' = FilesOf(next', data', dir')
  /\ openBar' = OpenOf(dir', fds')
<1>1. \A n \in Names : Named(n)' = Holders(dir', n)
  BY DEF Named, Holders, Live
<1>2. filesBar' = FilesOf(next', data', dir')
  BY <1>1 DEF filesBar, FilesOf, ContentsOf
<1> QED BY <1>2 DEF openBar, OpenOf

LEMMA HolderUnique ==
  ASSUME NEW dr, UniqueNames(dr), NEW e \in Entry, dr[e].first # Null,
         NEW n, n = dr[e].name
  PROVE  Holders(dr, n) = {e} /\ Lowest(Holders(dr, n)) = e
<1>1. Holders(dr, n) = {e}
  BY DEF Holders, UniqueNames
<1>2. {e} \in SUBSET Nat
  BY GeometryAssumption DEF Entry
<1>3. Lowest({e}) \in {e}
  BY <1>2, LowestIn
<1> QED BY <1>1, <1>3

LEMMA FileOfHolder ==
  ASSUME NEW nx, NEW dt, NEW dr, UniqueNames(dr), NEW e \in Entry,
         dr[e].first # Null, dr[e].name \in Names
  PROVE  FilesOf(nx, dt, dr)[dr[e].name] = ContentsIn(nx, dt, dr[e])
BY HolderUnique DEF FilesOf

\* The files are those of G when each has its contents there.
LEMMA FilesFrom ==
  ASSUME NEW nx, NEW dt, NEW dr, UniqueNames(dr), NEW G, G = [n \in Names |-> G[n]],
         \A e \in Entry : dr[e].first # Null =>
           ContentsIn(nx, dt, dr[e]) = G[dr[e].name],
         \A n \in Names : Holders(dr, n) = {} => G[n] = Absent
  PROVE  FilesOf(nx, dt, dr) = G
<1>1. ASSUME NEW n \in Names, Holders(dr, n) # {}
      PROVE  ContentsIn(nx, dt, dr[Lowest(Holders(dr, n))]) = G[n]
  <2>1. PICK e \in Entry : dr[e].first # Null /\ dr[e].name = n
    BY <1>1 DEF Holders
  <2>2. Lowest(Holders(dr, n)) = e
    BY <2>1, HolderUnique
  <2> QED BY <2>1, <2>2
<1> QED BY <1>1 DEF FilesOf

\* A name has a file when an entry of the directory holds it.
LEMMA FilePresent ==
  ASSUME NEW nx, NEW fr, NEW dr, GoodDisk(nx, fr, dr), NEW dt \in DataFunction,
         NEW n \in Names
  PROVE  FilesOf(nx, dt, dr)[n] # Absent <=> Holders(dr, n) # {}
<1>1. CASE Holders(dr, n) = {}
  BY <1>1 DEF FilesOf
<1>2. CASE Holders(dr, n) # {}
  <2>1. PICK e \in Entry : dr[e].first # Null /\ dr[e].name = n
    BY <1>2 DEF Holders
  <2>2. FilesOf(nx, dt, dr)[n] = ContentsIn(nx, dt, dr[e])
    BY <2>1, FileOfHolder DEF GoodDisk
  <2>3. ContentsIn(nx, dt, dr[e]) \in Seq(Bytes)
    BY <2>1, ContentsTyped DEF GoodDisk
  <2> QED BY <1>2, <2>2, <2>3, MarkerAssumption
<1> QED BY <1>1, <1>2

-----------------------------------------------------------------------------
(***************************************************************************)
(* The invariant of the refinement: what a careful client keeps, and that  *)
(* the names of files are names that a client passed.                      *)
(***************************************************************************)
NamesGiven == \A e \in Entry : dir[e].first # Null => dir[e].name \in Names

RInv == CInv /\ NamesGiven

LEMMA RInvGood ==
  RInv => /\ GoodDisk(next, freelist, dir)
          /\ data \in DataFunction
          /\ fds \in [Fd -> Desc \cup {NoDesc}]
          /\ openFile \in [Entry -> OpenInfo]
          /\ mounted \in BOOLEAN
          /\ \A fd \in Fd : fds[fd] # NoDesc => Follows(next, dir, fds[fd])
          /\ \A b \in Block : (b = freelist \/ \E e \in Entry : b = dir[e].first)
                                => prev[b] = Null
<1> SUFFICES ASSUME RInv
             PROVE  /\ GoodDisk(next, freelist, dir)
                    /\ data \in DataFunction
                    /\ fds \in [Fd -> Desc \cup {NoDesc}]
                    /\ openFile \in [Entry -> OpenInfo]
                    /\ mounted \in BOOLEAN
                    /\ \A fd \in Fd : fds[fd] # NoDesc => Follows(next, dir, fds[fd])
                    /\ \A b \in Block :
                         (b = freelist \/ \E e \in Entry : b = dir[e].first)
                           => prev[b] = Null
  OBVIOUS
<1>1. IInv /\ CInv /\ CarefulDisk(next, prev, freelist, dir)
  BY DEF RInv, CInv
<1>2. /\ data \in DataFunction /\ dir \in [Entry -> DirEntry]
      /\ fds \in [Fd -> Desc \cup {NoDesc}] /\ mounted \in BOOLEAN
      /\ openFile \in [Entry -> OpenInfo]
  BY <1>1, IInvParts DEF DiskOK, TablesOK, DataFunction
<1>3. ASSUME NEW e \in Entry, dir[e].first # Null
      PROVE  FileIn(next, dir[e]) /\ dir[e].name \in Names
  <2>1. Root(next, dir[e].first) /\ dir[e].size \in Nat
    BY <1>1, <1>3, DiskRoots
  <2>2. Size(next, dir[e].first) = BlocksFor(dir[e].size)
    BY <1>1, <1>3 DEF CarefulDisk
  <2> QED BY <1>3, <2>1, <2>2, RoundUpIndex DEF FileIn, RInv, NamesGiven
<1>4. UniqueNames(dir) /\ \A b \in Block : \/ b \in Chain(next, freelist)
                                           \/ \E e \in Entry : b \in Chain(next, dir[e].first)
  BY <1>1 DEF CarefulDisk, UniqueNames
<1>5. GoodDisk(next, freelist, dir)
  BY <1>1, <1>2, <1>3, <1>4, DiskRoots, ChainsOfDisk DEF GoodDisk
<1>6. ASSUME NEW b \in Block, b = freelist \/ \E e \in Entry : b = dir[e].first
      PROVE  prev[b] = Null
  BY <1>1, <1>6, BlockFacts DEF CarefulDisk, NoPrev
<1> QED BY <1>1, <1>2, <1>5, <1>6 DEF CInv

LEMMA RInvGoodNext ==
  RInv' => /\ GoodDisk(next', freelist', dir')
           /\ data' \in DataFunction
           /\ fds' \in [Fd -> Desc \cup {NoDesc}]
           /\ \A fd \in Fd : fds'[fd] # NoDesc => Follows(next', dir', fds'[fd])
<1>1. (RInv => /\ GoodDisk(next, freelist, dir)
               /\ data \in DataFunction
               /\ fds \in [Fd -> Desc \cup {NoDesc}]
               /\ \A fd \in Fd : fds[fd] # NoDesc => Follows(next, dir, fds[fd]))'
  <2>1. (RInv => /\ GoodDisk(next, freelist, dir)
               /\ data \in DataFunction
               /\ fds \in [Fd -> Desc \cup {NoDesc}]
               /\ \A fd \in Fd : fds[fd] # NoDesc => Follows(next, dir, fds[fd]))
    BY RInvGood
  <2> QED BY <2>1, PTL
<1> QED BY <1>1

-----------------------------------------------------------------------------
(***************************************************************************)
(* Space: the blocks that are not on the free list are the units of the    *)
(* files, so the store and the disk have the same number left.             *)
(***************************************************************************)
LEMMA UnitsIndex ==
  ASSUME NEW size \in Nat
  PROVE  Store!Units(size) = 1 + BlockIndex(size)
<1>1. CASE size = 0
  BY <1>1, IndexRange DEF Store!Units
<1>2. CASE size # 0
  <2>1. PICK x : x = size - 1
    OBVIOUS
  <2>2. x \in Nat /\ BlockDataSize \in Nat \ {0}
        /\ size + BlockDataSize - 1 = x + BlockDataSize
    BY <1>2, <2>1, GeometryAssumption
  <2>3. (x + BlockDataSize) \div BlockDataSize = 1 + x \div BlockDataSize
    BY <2>2, DivisionNextBlock
  <2>4. BlockIndex(size) = x \div BlockDataSize
    BY <1>2, <2>1 DEF BlockIndex
  <2>5. Store!Units(size) = (x + BlockDataSize) \div BlockDataSize
    BY <1>2, <2>2 DEF Store!Units
  <2> QED BY <2>3, <2>4, <2>5
<1> QED BY <1>1, <1>2

\* The units of space that files F use.
UnitsOf(F) ==
  UNION {{n} \X (1 .. Store!Units(Len(F[n]))) : n \in {m \in Names : F[m] # Absent}}

LEMMA UnitsOfDisk ==
  ASSUME NEW nx, NEW fr, NEW dr, GoodDisk(nx, fr, dr), NEW dt \in DataFunction
  PROVE  /\ \A u \in UnitsOf(FilesOf(nx, dt, dr)) : \E e \in Entry :
              /\ dr[e].first # Null /\ u[1] = dr[e].name
              /\ u[2] \in 1 .. Size(nx, dr[e].first) /\ u = <<u[1], u[2]>>
         /\ \A e \in Entry : \A i \in 1 .. Size(nx, dr[e].first) :
              dr[e].first # Null => <<dr[e].name, i>> \in UnitsOf(FilesOf(nx, dt, dr))
<1> DEFINE F == FilesOf(nx, dt, dr)
<1>1. ASSUME NEW e \in Entry, dr[e].first # Null
      PROVE  /\ dr[e].name \in Names /\ F[dr[e].name] # Absent
             /\ Store!Units(Len(F[dr[e].name])) = Size(nx, dr[e].first)
  <2>1. FileIn(nx, dr[e]) /\ dr[e].name \in Names /\ UniqueNames(dr)
        /\ nx \in NextFunction /\ NextInjective(nx)
    BY <1>1 DEF GoodDisk
  <2>2. F[dr[e].name] = ContentsIn(nx, dt, dr[e])
    BY <1>1, <2>1, FileOfHolder
  <2>3. /\ ContentsIn(nx, dt, dr[e]) \in Seq(Bytes)
        /\ Len(ContentsIn(nx, dt, dr[e])) = dr[e].size
    BY <2>1, ContentsTyped
  <2>4. F[dr[e].name] # Absent /\ Len(F[dr[e].name]) = dr[e].size
    BY <2>2, <2>3, MarkerAssumption
  <2>5. dr[e].size \in Nat /\ Size(nx, dr[e].first) = 1 + BlockIndex(dr[e].size)
    BY <2>1 DEF FileIn
  <2> HIDE DEF F
  <2> QED BY <2>1, <2>4, <2>5, UnitsIndex
<1>2. ASSUME NEW n \in Names, F[n] # Absent
      PROVE  \E e \in Entry : dr[e].first # Null /\ dr[e].name = n
  BY <1>2, FilePresent DEF Holders
<1> HIDE DEF F
<1>3. ASSUME NEW u \in UnitsOf(F)
      PROVE  \E e \in Entry :
              /\ dr[e].first # Null /\ u[1] = dr[e].name
              /\ u[2] \in 1 .. Size(nx, dr[e].first) /\ u = <<u[1], u[2]>>
  <2>1. PICK n \in Names : F[n] # Absent /\ u \in {n} \X (1 .. Store!Units(Len(F[n])))
    BY <1>3 DEF UnitsOf
  <2>2. PICK e \in Entry : dr[e].first # Null /\ dr[e].name = n
    BY <1>2, <2>1
  <2> QED BY <1>1, <2>1, <2>2
<1>4. ASSUME NEW e \in Entry, NEW i \in 1 .. Size(nx, dr[e].first), dr[e].first # Null
      PROVE  <<dr[e].name, i>> \in UnitsOf(F)
  <2>1. PICK n : n = dr[e].name
    OBVIOUS
  <2>2. n \in Names /\ F[n] # Absent /\ i \in 1 .. Store!Units(Len(F[n]))
    BY <1>1, <1>4, <2>1
  <2>3. <<n, i>> \in {n} \X (1 .. Store!Units(Len(F[n])))
    BY <2>2
  <2> QED BY <2>1, <2>2, <2>3 DEF UnitsOf
<1> QED BY <1>3, <1>4 DEF F

(***************************************************************************)
(* The blocks off the free list are as many as the units that the files    *)
(* use, empty files included (sfs-disk.c:443-469).                         *)
(***************************************************************************)
LEMMA SpaceOfDisk ==
  ASSUME NEW nx, NEW fr, NEW dr, GoodDisk(nx, fr, dr), NEW dt \in DataFunction
  PROVE  /\ Size(nx, fr) \in Nat
         /\ Cardinality(UnitsOf(FilesOf(nx, dt, dr))) = NBlocks - 1 - Size(nx, fr)
<1> DEFINE U == UnitsOf(FilesOf(nx, dt, dr))
           T == Block \ Chain(nx, fr)
           root(u) == dr[Lowest(Holders(dr, u[1]))].first
           f == [u \in U |-> Spine(nx, root(u))[u[2] - 1]]
<1>1. /\ nx \in NextFunction /\ NextInjective(nx) /\ fr \in BlockId /\ UniqueNames(dr)
      /\ \A e \in Entry : dr[e].first # Null => Root(nx, dr[e].first)
  BY DEF GoodDisk, FileIn
<1>2. ASSUME NEW u \in U
      PROVE  \E e \in Entry :
               /\ dr[e].first # Null /\ u[1] = dr[e].name /\ root(u) = dr[e].first
               /\ u[2] \in 1 .. Size(nx, dr[e].first) /\ u = <<u[1], u[2]>>
               /\ f[u] \in Chain(nx, dr[e].first)
               /\ u[2] = 1 + Size(nx, dr[e].first) - Size(nx, f[u])
  <2>1. PICK e \in Entry :
          /\ dr[e].first # Null /\ u[1] = dr[e].name
          /\ u[2] \in 1 .. Size(nx, dr[e].first) /\ u = <<u[1], u[2]>>
    BY UnitsOfDisk
  <2>2. root(u) = dr[e].first
    BY <1>1, <2>1, HolderUnique
  <2>3. PICK b, i : b = dr[e].first /\ i = u[2]
    OBVIOUS
  <2>4. Size(nx, b) \in Nat /\ i \in 1 .. Size(nx, b) /\ Root(nx, b)
    BY <1>1, <2>1, <2>3, SpineFacts
  <2>5. i - 1 \in 0 .. Size(nx, b) - 1
    BY <2>4
  <2>6. f[u] = Spine(nx, b)[i - 1]
    BY <2>2, <2>3
  <2>7. f[u] \in Chain(nx, b) /\ Size(nx, f[u]) = Size(nx, b) - (i - 1)
    BY <1>1, <2>4, <2>5, <2>6, SpineFacts
  <2>8. i = 1 + Size(nx, b) - Size(nx, f[u])
    BY <2>4, <2>7
  <2> HIDE DEF f, root, U
  <2> QED BY <2>1, <2>2, <2>3, <2>7, <2>8
<1>3. ASSUME NEW u \in U PROVE f[u] \in T
  <2>1. PICK e \in Entry : f[u] \in Chain(nx, dr[e].first)
    BY <1>2
  <2>2. Chain(nx, dr[e].first) \subseteq Block
    BY DEF Chain
  <2> HIDE DEF f, U
  <2> QED BY <2>1, <2>2 DEF GoodDisk
<1>4. ASSUME NEW u \in U, NEW w \in U, f[u] = f[w] PROVE u = w
  <2> HIDE DEF f, U, root
  <2>1. PICK e \in Entry :
          /\ dr[e].first # Null /\ u[1] = dr[e].name /\ u = <<u[1], u[2]>>
          /\ f[u] \in Chain(nx, dr[e].first)
          /\ u[2] = 1 + Size(nx, dr[e].first) - Size(nx, f[u])
    BY <1>2
  <2>2. PICK d \in Entry :
          /\ dr[d].first # Null /\ w[1] = dr[d].name /\ w = <<w[1], w[2]>>
          /\ f[w] \in Chain(nx, dr[d].first)
          /\ w[2] = 1 + Size(nx, dr[d].first) - Size(nx, f[w])
    BY <1>2
  <2>3. d = e
    BY <1>4, <2>1, <2>2 DEF GoodDisk
  <2>4. u[1] = w[1] /\ u[2] = w[2]
    BY <1>4, <2>1, <2>2, <2>3
  <2> QED BY <2>1, <2>2, <2>4
<1>5. ASSUME NEW c \in T PROVE \E u \in U : f[u] = c
  <2>1. PICK e \in Entry : c \in Chain(nx, dr[e].first)
    BY <1>5 DEF GoodDisk
  <2>2. dr[e].first # Null
    BY <2>1, NullChain
  <2>3. PICK b : b = dr[e].first
    OBVIOUS
  <2>4. /\ Size(nx, b) \in Nat /\ Size(nx, c) \in 1 .. Size(nx, b)
        /\ c = Spine(nx, b)[Size(nx, b) - Size(nx, c)]
    BY <1>1, <2>1, <2>2, <2>3, SpineFacts
  <2>5. PICK i : i = Size(nx, b) - Size(nx, c) + 1
    OBVIOUS
  <2>6. i \in 1 .. Size(nx, b) /\ i - 1 = Size(nx, b) - Size(nx, c)
    BY <2>4, <2>5
  <2>7. PICK u : u = <<dr[e].name, i>>
    OBVIOUS
  <2>8. u \in U /\ u[1] = dr[e].name /\ u[2] = i
    BY <2>2, <2>3, <2>6, <2>7, UnitsOfDisk
  <2>9. root(u) = b
    BY <1>1, <2>2, <2>3, <2>8, HolderUnique
  <2>10. f[u] = c
    BY <2>4, <2>6, <2>8, <2>9
  <2> QED BY <2>8, <2>10
<1>6. /\ Cardinality(Block) = NBlocks - 1 /\ IsFiniteSet(Block)
      /\ Size(nx, fr) \in Nat /\ Chain(nx, fr) \subseteq Block
  <2>1. 1 \in Int /\ NBlocks - 1 \in Int /\ ~ (1 > NBlocks - 1)
        /\ (NBlocks - 1) - 1 + 1 = NBlocks - 1
    BY GeometryAssumption
  <2>2. Cardinality(Block) = NBlocks - 1
    BY <2>1, FS_Interval DEF Block
  <2> QED BY <1>1, <2>2, ChainFinite, BlockFacts
<1>7. IsFiniteSet(T) /\ Cardinality(T) = NBlocks - 1 - Size(nx, fr)
  <2>1. Block \cap Chain(nx, fr) = Chain(nx, fr)
    BY <1>6
  <2> QED BY <1>6, <2>1, FS_Difference DEF Size
<1>8. f \in Injection(U, T) /\ f \in Surjection(U, T)
  <2>1. f \in [U -> T]
    <3>1. f = [u \in U |-> f[u]]
      OBVIOUS
    <3> HIDE DEF f, U, T
    <3> QED BY <1>3, <3>1
  <2> HIDE DEF f, U, T
  <2> QED BY <1>4, <1>5, <2>1 DEF Injection, Surjection, IsInjective
<1>9. Cardinality(U) = Cardinality(T)
  <2> HIDE DEF f, U, T
  <2> QED BY <1>7, <1>8, FS_Injection
<1> QED BY <1>6, <1>7, <1>9

\* As many names have a file as entries of the directory are live.
LEMMA PresentCount ==
  ASSUME NEW nx, NEW fr, NEW dr, GoodDisk(nx, fr, dr), NEW dt \in DataFunction
  PROVE  LET P == {n \in Names : FilesOf(nx, dt, dr)[n] # Absent} IN
         /\ Cardinality(P) < FileCountLimit <=> \E e \in Entry : dr[e].first = Null
         /\ Cardinality(P) = FileCountLimit <=> \A e \in Entry : dr[e].first # Null
<1> DEFINE P == {n \in Names : FilesOf(nx, dt, dr)[n] # Absent}
           L == {e \in Entry : dr[e].first # Null}
           f == [e \in L |-> dr[e].name]
<1>1. /\ IsFiniteSet(Entry) /\ Cardinality(Entry) = FileCountLimit
      /\ FileCountLimit \in Nat
  <2>1. 0 \in Int /\ FileCountLimit - 1 \in Int /\ ~ (0 > FileCountLimit - 1)
        /\ (FileCountLimit - 1) - 0 + 1 = FileCountLimit /\ FileCountLimit \in Nat
    BY GeometryAssumption
  <2>2. Cardinality(Entry) = FileCountLimit /\ IsFiniteSet(Entry)
    BY <2>1, FS_Interval DEF Entry
  <2> QED BY <2>1, <2>2
<1>2. L \subseteq Entry /\ IsFiniteSet(L)
  BY <1>1, FS_Subset
<1>3. \A n \in Names : n \in P <=> \E e \in L : dr[e].name = n
  BY FilePresent DEF Holders
<1>4. \A e \in L : dr[e].name \in Names
  BY DEF GoodDisk
<1>5. \A d, e \in L : dr[d].name = dr[e].name => d = e
  BY DEF GoodDisk, UniqueNames
<1>6. f \in Injection(L, P) /\ f \in Surjection(L, P)
  <2>1. f \in [L -> P]
    BY <1>3, <1>4
  <2>2. \A e \in L : f[e] = dr[e].name
    OBVIOUS
  <2>3. P \subseteq Names
    OBVIOUS
  <2> HIDE DEF f, L, P
  <2> QED BY <1>3, <1>5, <2>1, <2>2, <2>3 DEF Injection, Surjection, IsInjective
<1>7. IsFiniteSet(P) /\ Cardinality(P) = Cardinality(L)
  <2> HIDE DEF f, L, P
  <2>1. IsFiniteSet(P)
    BY <1>2, <1>6, FS_Surjection
  <2> QED BY <1>6, <2>1, FS_Injection
<1>8. /\ Cardinality(L) <= FileCountLimit /\ Cardinality(L) \in Nat
      /\ Cardinality(L) = FileCountLimit <=> L = Entry
  <2> HIDE DEF L
  <2>1. Cardinality(L) <= Cardinality(Entry) /\ Cardinality(L) \in Nat
    BY <1>1, <1>2, FS_Subset, FS_CardinalityType
  <2>2. Cardinality(L) = Cardinality(Entry) => L = Entry
    BY <1>1, <1>2, FS_Subset
  <2> QED BY <1>1, <2>1, <2>2
<1>9. L = Entry <=> \A e \in Entry : dr[e].first # Null
  OBVIOUS
<1>10. /\ Cardinality(P) < FileCountLimit <=> \E e \in Entry : dr[e].first = Null
       /\ Cardinality(P) = FileCountLimit <=> \A e \in Entry : dr[e].first # Null
  <2> HIDE DEF P, L
  <2> QED BY <1>1, <1>7, <1>8, <1>9
<1> QED BY <1>10

(***************************************************************************)
(* What a client sees of a state.                                          *)
(***************************************************************************)
LEMMA OpenBar ==
  RInv => /\ \A fd \in Fd :
               /\ openBar[fd] = NoDesc <=> fds[fd] = NoDesc
               /\ fds[fd] # NoDesc =>
                    /\ openBar[fd] = [name |-> dir[fds[fd].entry].name,
                                      pos  |-> fds[fd].pos]
                    /\ openBar[fd].name = dir[fds[fd].entry].name
                    /\ openBar[fd].pos = fds[fd].pos
                    /\ fds[fd].entry \in Entry /\ fds[fd].pos \in Nat
                    /\ dir[fds[fd].entry].first # Null
                    /\ dir[fds[fd].entry].name \in Names
          /\ Store!FreeFd = FreeFds
          /\ Store!FirstFree = Lowest(FreeFds)
<1> SUFFICES ASSUME RInv
             PROVE  /\ \A fd \in Fd :
                         /\ openBar[fd] = NoDesc <=> fds[fd] = NoDesc
                         /\ fds[fd] # NoDesc =>
                              /\ openBar[fd] = [name |-> dir[fds[fd].entry].name,
                                                pos  |-> fds[fd].pos]
                              /\ openBar[fd].name = dir[fds[fd].entry].name
                              /\ openBar[fd].pos = fds[fd].pos
                              /\ fds[fd].entry \in Entry /\ fds[fd].pos \in Nat
                              /\ dir[fds[fd].entry].first # Null
                              /\ dir[fds[fd].entry].name \in Names
                    /\ Store!FreeFd = FreeFds
                    /\ Store!FirstFree = Lowest(FreeFds)
  OBVIOUS
<1>1. ASSUME NEW fd \in Fd
      PROVE  /\ openBar[fd] = NoDesc <=> fds[fd] = NoDesc
             /\ fds[fd] # NoDesc =>
                  /\ openBar[fd] = [name |-> dir[fds[fd].entry].name,
                                    pos  |-> fds[fd].pos]
                  /\ openBar[fd].name = dir[fds[fd].entry].name
                  /\ openBar[fd].pos = fds[fd].pos
                  /\ fds[fd].entry \in Entry /\ fds[fd].pos \in Nat
                  /\ dir[fds[fd].entry].first # Null
                  /\ dir[fds[fd].entry].name \in Names
  <2>1. CASE fds[fd] = NoDesc
    BY <2>1 DEF openBar
  <2>2. CASE fds[fd] # NoDesc
    <3>1. fds[fd] \in Desc /\ Follows(next, dir, fds[fd])
      BY <2>2, RInvGood
    <3>2. fds[fd].entry \in Entry /\ fds[fd].pos \in Nat
          /\ dir[fds[fd].entry].first # Null
      BY <3>1 DEF Desc, Follows
    <3>3. dir[fds[fd].entry].name \in Names
      BY <3>2 DEF RInv, NamesGiven
    <3>4. openBar[fd] = [name |-> dir[fds[fd].entry].name, pos  |-> fds[fd].pos]
      BY <2>2 DEF openBar
    <3>5. openBar[fd] \in [name : Names, pos : Nat]
      BY <3>2, <3>3, <3>4
    <3>6. /\ openBar[fd].name = dir[fds[fd].entry].name
          /\ openBar[fd].pos = fds[fd].pos
      <4>1. PICK d, n, p : /\ d = openBar[fd] /\ n = dir[fds[fd].entry].name
                           /\ p = fds[fd].pos
        OBVIOUS
      <4>2. d = [name |-> n, pos |-> p]
        BY <3>4, <4>1
      <4>3. d.name = n /\ d.pos = p
        BY ONLY <4>2
      <4> QED BY <4>1, <4>3
    <3> QED BY <2>2, <3>2, <3>3, <3>4, <3>5, <3>6, MarkerAssumption
  <2> QED BY <2>1, <2>2
<1>2. Store!FreeFd = FreeFds
  BY <1>1 DEF Store!FreeFd, FreeFds
<1>3. Store!FirstFree = Lowest(FreeFds)
  BY <1>2 DEF Store!FirstFree, Lowest
<1> QED BY <1>1, <1>2, <1>3

LEMMA FilesBar ==
  RInv => /\ \A n \in Names : /\ n \in Store!Present <=> Named(n) # {}
                              /\ filesBar[n] # Absent <=> Named(n) # {}
          /\ \A n \in Names : Named(n) # {} =>
               /\ Lowest(Named(n)) \in Entry /\ dir[Lowest(Named(n))].first # Null
               /\ dir[Lowest(Named(n))].name = n
               /\ filesBar[n] = ContentsIn(next, data, dir[Lowest(Named(n))])
               /\ Named(n) = {Lowest(Named(n))}
          /\ \A e \in Entry : dir[e].first # Null =>
               /\ Named(dir[e].name) = {e} /\ Lowest(Named(dir[e].name)) = e
               /\ filesBar[dir[e].name] = ContentsIn(next, data, dir[e])
          /\ Store!Present \subseteq Names
<1> SUFFICES ASSUME RInv
             PROVE  /\ \A n \in Names : /\ n \in Store!Present <=> Named(n) # {}
                                        /\ filesBar[n] # Absent <=> Named(n) # {}
                    /\ \A n \in Names : Named(n) # {} =>
                         /\ Lowest(Named(n)) \in Entry
                         /\ dir[Lowest(Named(n))].first # Null
                         /\ dir[Lowest(Named(n))].name = n
                         /\ filesBar[n] = ContentsIn(next, data, dir[Lowest(Named(n))])
                         /\ Named(n) = {Lowest(Named(n))}
                    /\ \A e \in Entry : dir[e].first # Null =>
                         /\ Named(dir[e].name) = {e} /\ Lowest(Named(dir[e].name)) = e
                         /\ filesBar[dir[e].name] = ContentsIn(next, data, dir[e])
                    /\ Store!Present \subseteq Names
  OBVIOUS
<1>1. GoodDisk(next, freelist, dir) /\ data \in DataFunction /\ UniqueNames(dir)
  BY RInvGood DEF GoodDisk
<1>2. \A n \in Names : filesBar[n] # Absent <=> Named(n) # {}
  BY <1>1, FilePresent, Bars
<1>3. \A n : n \in Store!Present <=> n \in Names /\ filesBar[n] # Absent
  BY DEF Store!Present
<1>4. ASSUME NEW e \in Entry, dir[e].first # Null
      PROVE  /\ Named(dir[e].name) = {e} /\ Lowest(Named(dir[e].name)) = e
             /\ filesBar[dir[e].name] = ContentsIn(next, data, dir[e])
             /\ dir[e].name \in Names
  <2>1. dir[e].name \in Names
    BY <1>4 DEF RInv, NamesGiven
  <2>2. filesBar[dir[e].name] = ContentsIn(next, data, dir[e])
    BY <1>1, <1>4, <2>1, FileOfHolder, Bars
  <2>3. Holders(dir, dir[e].name) = {e} /\ Lowest(Holders(dir, dir[e].name)) = e
    BY <1>1, <1>4, HolderUnique
  <2> QED BY <2>1, <2>2, <2>3, Bars
<1>5. ASSUME NEW n \in Names, Named(n) # {}
      PROVE  /\ Lowest(Named(n)) \in Entry /\ dir[Lowest(Named(n))].first # Null
             /\ dir[Lowest(Named(n))].name = n
             /\ filesBar[n] = ContentsIn(next, data, dir[Lowest(Named(n))])
             /\ Named(n) = {Lowest(Named(n))}
  <2>1. PICK e \in Entry : dir[e].first # Null /\ dir[e].name = n
    BY <1>5 DEF Named, Live
  <2> QED BY <1>4, <2>1
<1> QED BY <1>2, <1>3, <1>4, <1>5

LEMMA SpaceBar ==
  RInv => /\ Size(next, freelist) \in Nat
          /\ Store!Free = Size(next, freelist)
          /\ Store!Cardinality(Store!Present) < FileCountLimit <=> Unused # {}
          /\ Store!Cardinality(Store!Present) = FileCountLimit <=> Unused = {}
<1> SUFFICES ASSUME RInv
             PROVE  /\ Size(next, freelist) \in Nat
                    /\ Store!Free = Size(next, freelist)
                    /\ Store!Cardinality(Store!Present) < FileCountLimit <=> Unused # {}
                    /\ Store!Cardinality(Store!Present) = FileCountLimit <=> Unused = {}
  OBVIOUS
<1>1. GoodDisk(next, freelist, dir) /\ data \in DataFunction
  BY RInvGood
<1>2. \A S : Store!Cardinality(S) = Cardinality(S)
  BY DEF Store!Cardinality, Cardinality
<1>3. Store!UnitsUsed = UnitsOf(filesBar)
  BY DEF Store!UnitsUsed, UnitsOf, Store!Present
<1>4. /\ Size(next, freelist) \in Nat
      /\ Cardinality(UnitsOf(filesBar)) = NBlocks - 1 - Size(next, freelist)
  BY <1>1, SpaceOfDisk, Bars
<1>5. Store!Free = Size(next, freelist)
  <2>1. Store!Free = NBlocks - 1 - Cardinality(UnitsOf(filesBar))
    BY <1>2, <1>3 DEF Store!Free
  <2> QED BY <1>4, <2>1, GeometryAssumption
<1>6. PICK P : P = Store!Present
  OBVIOUS
<1>7. P = {n \in Names : FilesOf(next, data, dir)[n] # Absent}
  BY <1>6, Bars DEF Store!Present
<1>8. /\ Cardinality(P) < FileCountLimit <=> \E e \in Entry : dir[e].first = Null
      /\ Cardinality(P) = FileCountLimit <=> \A e \in Entry : dir[e].first # Null
  BY <1>1, <1>7, PresentCount
<1>9. Unused # {} <=> \E e \in Entry : dir[e].first = Null
  BY DEF Unused, Live
<1> QED BY <1>2, <1>4, <1>5, <1>6, <1>8, <1>9

-----------------------------------------------------------------------------
(***************************************************************************)
(* The calls, one by one.  First the ones that leave the disk as it is.    *)
(***************************************************************************)
LEMMA DiskSame ==
  ASSUME UNCHANGED diskVars
  PROVE  filesBar' = filesBar /\ UNCHANGED dir
<1>1. next' = next /\ data' = data /\ dir' = dir
  BY DEF diskVars
<1> QED BY <1>1, Bars, BarsNext

LEMMA NothingSeen ==
  ASSUME UNCHANGED diskVars, UNCHANGED <<mounted, fds>>
  PROVE  UNCHANGED <<mounted, openBar, filesBar>>
<1>1. filesBar' = filesBar /\ dir' = dir /\ fds' = fds /\ mounted' = mounted
  BY DiskSame
<1> QED BY <1>1, Bars, BarsNext

LEMMA FailRefuses ==
  ASSUME NEW c, FailUnchanged(c)
  PROVE  Store!RefuseOnly(c)
<1>1. UNCHANGED <<mounted, openBar, filesBar>> /\ Fail(c)
  BY NothingSeen DEF FailUnchanged, memVars
<1> QED BY <1>1 DEF Fail, Store!RefuseOnly, Store!Refuse

LEMMA BadFdRefuses ==
  ASSUME RInv, NEW fd \in Fd, BadFd(fd)
  PROVE  openBar[fd] = NoDesc /\ Store!RefuseOnly("EBADF")
BY OpenBar, FailRefuses DEF BadFd

\* The contents of the file of a descriptor.
LEMMA DescContents ==
  ASSUME RInv, NEW fd \in Fd, fds[fd] # NoDesc
  PROVE  LET f == dir[fds[fd].entry] IN
         /\ Store!Contents(fd) = ContentsIn(next, data, f)
         /\ FileIn(next, f) /\ f.first # Null /\ f.size \in Nat
         /\ Store!Contents(fd) \in Seq(Bytes)
         /\ Len(Store!Contents(fd)) = f.size
<1> DEFINE f == dir[fds[fd].entry]
<1>1. /\ fds[fd].entry \in Entry /\ f.first # Null /\ f.name \in Names
      /\ openBar[fd].name = f.name
  BY OpenBar
<1>2. filesBar[f.name] = ContentsIn(next, data, f)
  BY <1>1, FilesBar
<1>3. /\ GoodDisk(next, freelist, dir) /\ data \in DataFunction
      /\ next \in NextFunction /\ NextInjective(next) /\ FileIn(next, f)
  BY <1>1, RInvGood DEF GoodDisk
<1>4. Store!Contents(fd) = ContentsIn(next, data, f)
  BY <1>1, <1>2 DEF Store!Contents
<1>5. /\ ContentsIn(next, data, f) \in Seq(Bytes)
      /\ Len(ContentsIn(next, data, f)) = f.size
  BY <1>3, ContentsTyped
<1> QED BY <1>1, <1>3, <1>4, <1>5 DEF FileIn

\* A descriptor that moves.
LEMMA MoveBar ==
  ASSUME RInv, NEW fd \in Fd, fds[fd] # NoDesc, NEW p \in Nat, NEW c \in Block,
         \/ fds' = [fds EXCEPT ![fd].pos = p, ![fd].curr = c]
         \/ fds' = [fds EXCEPT ![fd].pos = p],
         \A e \in Entry : dir'[e].name = dir[e].name
  PROVE  openBar' = [openBar EXCEPT ![fd].pos = p]
<1>1. fds \in [Fd -> Desc \cup {NoDesc}] /\ fds[fd] \in Desc
  BY RInvGood
<1>2. PICK e, d : /\ e = fds[fd].entry /\ e \in Entry /\ d \in Desc
                  /\ d.entry = e /\ d.pos = p
                  /\ fds' = [fds EXCEPT ![fd] = d]
  <2>1. fds[fd].entry \in Entry /\ fds[fd].curr \in Block
    BY <1>1 DEF Desc
  <2>2. CASE fds' = [fds EXCEPT ![fd].pos = p, ![fd].curr = c]
    <3>1. PICK d : d = [entry |-> fds[fd].entry, curr |-> c, pos |-> p]
      OBVIOUS
    <3>2. PICK r, s, t : /\ r = fds[fd] /\ s = [r EXCEPT !.pos = p]
                         /\ t = [s EXCEPT !.curr = c]
      OBVIOUS
    <3>3. r \in Desc /\ s \in Desc /\ s.entry = r.entry /\ s.pos = p
      BY <1>1, <3>2 DEF Desc
    <3>4. t = d
      <4>1. PICK x : x = fds[fd].entry
        OBVIOUS
      <4>2. d = [entry |-> x, curr |-> c, pos |-> p] /\ s.entry = x
        BY <3>1, <3>2, <3>3, <4>1
      <4>3. s = [entry |-> s.entry, curr |-> s.curr, pos |-> s.pos]
        BY ONLY <3>3 DEF Desc
      <4>4. PICK y : y = s.curr
        OBVIOUS
      <4>5. s = [entry |-> x, curr |-> y, pos |-> p]
        BY ONLY <3>3, <4>2, <4>3, <4>4
      <4>6. [s EXCEPT !.curr = c] = [entry |-> x, curr |-> c, pos |-> p]
        BY ONLY <4>5
      <4> QED BY ONLY <3>2, <4>2, <4>6
    <3>5. fds' = [fds EXCEPT ![fd] = t]
      BY <1>1, <2>2, <3>2, <3>3
    <3>6. d \in Desc
      BY <2>1, <3>1 DEF Desc
    <3> QED BY <2>1, <3>1, <3>4, <3>5, <3>6
  <2>3. CASE fds' = [fds EXCEPT ![fd].pos = p]
    <3>1. PICK d : d = [entry |-> fds[fd].entry, curr |-> fds[fd].curr, pos |-> p]
      OBVIOUS
    <3>2. d \in Desc /\ fds' = [fds EXCEPT ![fd] = d]
      BY <1>1, <2>1, <2>3, <3>1 DEF Desc
    <3> QED BY <2>1, <3>1, <3>2
  <2> QED BY <2>2, <2>3
<1>3. d # NoDesc
  BY <1>2, NoDescAssumption
<1>4. openBar' = [g \in Fd |-> IF fds'[g] = NoDesc THEN NoDesc
                              ELSE [name |-> dir'[fds'[g].entry].name,
                                    pos |-> fds'[g].pos]]
  BY BarsNext DEF OpenOf
<1>5. openBar[fd] = [name |-> dir[e].name, pos |-> fds[fd].pos]
      /\ DOMAIN openBar = Fd
  BY <1>2, OpenBar DEF openBar
<1>6. [openBar EXCEPT ![fd].pos = p]
        = [g \in Fd |-> IF g = fd THEN [name |-> dir[e].name, pos |-> p]
                        ELSE openBar[g]]
  <2>1. PICK t : t = openBar
    OBVIOUS
  <2>2. DOMAIN t = Fd /\ t = [g \in Fd |-> t[g]]
    BY <2>1 DEF openBar
  <2>3. PICK n, r, r2 : /\ n = dir[e].name /\ r = [name |-> n, pos |-> fds[fd].pos]
                        /\ r2 = [name |-> n, pos |-> p]
    OBVIOUS
  <2>4. t[fd] = r
    BY <1>5, <2>1, <2>3
  <2>5. [r EXCEPT !.pos = p] = r2
    BY ONLY <2>3
  <2>6. [t EXCEPT ![fd].pos = p] = [t EXCEPT ![fd] = r2]
    BY <2>4, <2>5
  <2>7. [t EXCEPT ![fd] = r2] = [g \in Fd |-> IF g = fd THEN r2 ELSE t[g]]
    BY <2>2
  <2> QED BY <2>1, <2>3, <2>6, <2>7
<1>7. ASSUME NEW g \in Fd
      PROVE  (IF fds'[g] = NoDesc THEN NoDesc
              ELSE [name |-> dir'[fds'[g].entry].name, pos |-> fds'[g].pos])
             = IF g = fd THEN [name |-> dir[e].name, pos |-> p] ELSE openBar[g]
  <2>1. CASE g = fd
    <3>1. fds'[g] = d
      BY <1>1, <1>2, <2>1
    <3> QED BY <1>2, <1>3, <2>1, <3>1
  <2>2. CASE g # fd
    <3>1. fds'[g] = fds[g]
      BY <1>1, <1>2, <2>2
    <3>2. CASE fds[g] = NoDesc
      BY <2>2, <3>1, <3>2, OpenBar
    <3>3. CASE fds[g] # NoDesc
      <4>1. PICK x, y : x = fds[g].entry /\ y = fds[g].pos
        OBVIOUS
      <4>2. x \in Entry /\ openBar[g] = [name |-> dir[x].name, pos |-> y]
        BY <3>3, <4>1, OpenBar
      <4>3. dir'[x].name = dir[x].name
        BY <4>2
      <4> QED BY <2>2, <3>1, <3>3, <4>1, <4>2, <4>3
    <3> QED BY <3>2, <3>3
  <2> QED BY <2>1, <2>2
<1> QED BY <1>4, <1>6, <1>7, Zenon

LEMMA CloseImplements ==
  ASSUME RInv, NEW fd \in Fd, Close(fd)
  PROVE  Store!CloseFile(fd)
<1>1. UNCHANGED <<mounted, filesBar>> /\ dir' = dir /\ Return(0, <<>>)
  BY DiskSame DEF Close
<1>2. fds' = [fds EXCEPT ![fd] = NoDesc]
  <2>1. fds \in [Fd -> Desc \cup {NoDesc}]
    BY RInvGood
  <2>2. CASE fds[fd] = NoDesc
    BY <2>1, <2>2 DEF Close
  <2>3. CASE fds[fd] # NoDesc
    BY <2>3 DEF Close
  <2> QED BY <2>2, <2>3
<1>3. openBar' = [openBar EXCEPT ![fd] = NoDesc]
  <2>1. fds \in [Fd -> Desc \cup {NoDesc}]
    BY RInvGood
  <2> QED BY <1>1, <1>2, <2>1, Bars, BarsNext DEF OpenOf
<1> QED BY <1>1, <1>3 DEF Store!CloseFile, Store!Answer, Return

LEMMA GetPosImplements ==
  ASSUME RInv, NEW fd \in Fd, GetPos(fd)
  PROVE  Store!TellPos(fd)
<1>1. CASE BadFd(fd)
  BY <1>1, BadFdRefuses DEF Store!TellPos
<1>2. CASE fds[fd] # NoDesc
  <2>1. UNCHANGED <<mounted, openBar, filesBar>> /\ Return(fds[fd].pos, <<>>)
    <3>1. UNCHANGED diskVars /\ UNCHANGED memVars /\ Return(fds[fd].pos, <<>>)
      BY <1>2 DEF GetPos, BadFd
    <3> QED BY <3>1, NothingSeen DEF memVars
  <2>2. openBar[fd] # NoDesc /\ openBar[fd].pos = fds[fd].pos
    BY <1>2, OpenBar
  <2> QED BY <2>1, <2>2 DEF Store!TellPos, Store!Answer, Return
<1> QED BY <1>1, <1>2 DEF GetPos, BadFd

LEMMA SeekImplements ==
  ASSUME RInv, NEW fd \in Fd, NEW delta \in - MaxLen .. MaxLen, Seek(fd, delta)
  PROVE  Store!SeekFile(fd)
<1>1. CASE BadFd(fd)
  BY <1>1, BadFdRefuses DEF Store!SeekFile
<1>2. CASE fds[fd] # NoDesc
  <2>1. PICK t : t = SeekTarget(fd, delta)
    OBVIOUS
  <2>2. Mapped(fd)
    BY <1>2, OpenFileMapped DEF RInv
  <2>3. /\ fds' = [fds EXCEPT ![fd].pos = t]
        /\ UNCHANGED diskVars /\ UNCHANGED mounted /\ Return(t, <<>>)
    BY <1>2, <2>1, <2>2 DEF Seek, BadFd
  <2>4. /\ Len(Store!Contents(fd)) = FileSize(fd) /\ FileSize(fd) \in Nat
        /\ fds[fd].pos \in Nat
    BY <1>2, DescContents, OpenBar DEF FileSize
  <2>5. t \in 0 .. Len(Store!Contents(fd))
    <3>1. delta \in Int
      BY ClientAssumption
    <3> QED BY <2>1, <2>4, <3>1 DEF SeekTarget, SizeMin
  <2>6. openBar' = [openBar EXCEPT ![fd].pos = t]
    <3>1. t \in Nat
      BY <2>4, <2>5
    <3>2. fds[fd].curr \in Block
      BY <1>2, RInvGood DEF Desc
    <3>3. dir' = dir
      BY <2>3, DiskSame
    <3> QED BY <1>2, <2>3, <3>1, <3>2, <3>3, MoveBar
  <2>7. UNCHANGED <<mounted, filesBar>> /\ openBar[fd] # NoDesc
    BY <1>2, <2>3, DiskSame, OpenBar
  <2> QED BY <2>3, <2>5, <2>6, <2>7 DEF Store!SeekFile, Store!Answer, Return
<1> QED BY <1>1, <1>2 DEF Seek, BadFd

(***************************************************************************)
(* A transfer of n bytes at pos moves bytes pos + 1 .. pos + n of the file *)
(* f whose block the descriptor is at.                                     *)
(***************************************************************************)
LEMMA TransferAlongFile ==
  ASSUME NEW nx \in NextFunction, NextInjective(nx), NEW b, Root(nx, b),
         NEW pos \in Nat, NEW n \in Nat, NEW c \in Chain(nx, b),
         Hops(nx, b, c) = BlockIndex(pos),
         NEW hops, hops = HopsFor(pos, n),
         NEW path \in Paths(nx, c, hops), NEW k \in 1 .. n, NEW j, j = pos + k
  PROVE  /\ HopOf(pos, n, k - 1) \in 0 .. hops
         /\ path[HopOf(pos, n, k - 1)] = Spine(nx, b)[(j - 1) \div BlockDataSize]
         /\ OffsetOf(pos, n, k - 1) = (j - 1) % BlockDataSize
         /\ (j - 1) \div BlockDataSize = BlockIndex(j)
<1>1. PICK h, q, r, s : /\ h = HopOf(pos, n, k - 1) /\ q = BlockIndex(pos)
                        /\ r = BlockIndex(pos + k) /\ s = BlockIndex(pos + n)
  OBVIOUS
<1>2. /\ k \in Nat /\ pos + k \in Nat /\ pos + n \in Nat /\ pos + k # 0
      /\ pos <= pos + k /\ pos + k <= pos + n
  OBVIOUS
<1>3. q \in Nat /\ r \in Nat /\ s \in Nat /\ q <= r /\ r <= s
  BY <1>1, <1>2, IndexRange, IndexMonotone
<1>4. h = r - q /\ OffsetOf(pos, n, k - 1) = (j - 1) % BlockDataSize
  BY <1>1, BytePlace
<1>5. hops = s - q
  BY <1>1, HopsForIndex
<1>6. h \in 0 .. hops /\ hops \in Nat /\ q + h = r
  BY <1>3, <1>4, <1>5
<1>7. path[h] = Spine(nx, b)[Hops(nx, b, c) + h]
  BY <1>6, PathAlongSpine
<1>8. path[h] = Spine(nx, b)[r]
  BY <1>1, <1>6, <1>7
<1>9. (j - 1) \div BlockDataSize = r /\ BlockIndex(j) = r
  BY <1>1, <1>2 DEF BlockIndex
<1> QED BY <1>1, <1>4, <1>6, <1>8, <1>9

\* What a read that gets past its checks does.
LEMMA ReadHappens ==
  ASSUME RInv, NEW fd \in Fd, fds[fd] # NoDesc, NEW len \in Lens, Read(fd, len)
  PROVE  \E f, n, hops :
           /\ f = dir[fds[fd].entry] /\ n = SizeMin(f.size - fds[fd].pos, len)
           /\ n \in Nat /\ fds[fd].pos + n <= f.size
           /\ hops = HopsFor(fds[fd].pos, n) /\ hops \in Nat
           /\ ReadDone(fd, n)
<1>1. PICK e, b, curr, pos, size :
        /\ e = fds[fd].entry /\ b = dir[e].first /\ curr = fds[fd].curr
        /\ pos = fds[fd].pos /\ size = dir[e].size
  OBVIOUS
<1>2. /\ Root(next, b) /\ size \in Nat /\ pos \in Nat /\ pos <= size
      /\ curr \in Chain(next, b) /\ btype[curr] = "file"
      /\ Size(next, b) = 1 + BlockIndex(size)
      /\ Size(next, curr) = Size(next, b) - BlockIndex(pos)
      /\ FileSize(fd) = size /\ IInv
  BY <1>1, FollowFacts DEF RInv
<1>3. PICK n : n = SizeMin(size - pos, len)
  OBVIOUS
<1>4. n \in Nat /\ pos + n \in Nat /\ pos + n <= size
  BY <1>2, <1>3, ClientAssumption DEF SizeMin, Lens
<1>5. PICK hops : hops = HopsFor(pos, n)
  OBVIOUS
<1>6. /\ hops = BlockIndex(pos + n) - BlockIndex(pos) /\ hops \in Nat
      /\ BlockIndex(pos + n) <= BlockIndex(size)
      /\ BlockIndex(pos) \in Nat /\ BlockIndex(pos + n) \in Nat
      /\ BlockIndex(size) \in Nat
  BY <1>2, <1>4, <1>5, HopsForIndex, TransferInBounds, IndexMonotone, IndexRange
<1>7. next \in NextFunction /\ NextInjective(next)
  BY <1>2, DiskRoots
<1>8. Paths(next, curr, hops) # {}
  BY <1>2, <1>6, <1>7, PathExists
<1>9. Mapped(fd)
  BY OpenFileMapped DEF RInv
<1>10. ReadDone(fd, n)
  BY <1>1, <1>2, <1>3, <1>5, <1>8, <1>9 DEF Read, BadFd, ReadAborts
<1>11. PICK f : f = dir[fds[fd].entry]
  OBVIOUS
<1>12. n = SizeMin(f.size - fds[fd].pos, len) /\ fds[fd].pos + n <= f.size
  BY <1>1, <1>3, <1>4, <1>11
<1> QED BY <1>1, <1>4, <1>5, <1>6, <1>10, <1>11, <1>12

\* The bytes of a sequence from one on.
LEMMA BytesFrom ==
  ASSUME NEW C \in Seq(Bytes), NEW p \in Nat, NEW n \in Nat, p + n <= Len(C)
  PROVE  SubSeq(C, p + 1, p + n) = [k \in 1 .. n |-> C[p + k]]
<1>1. PICK S : S = SubSeq(C, p + 1, p + n)
  OBVIOUS
<1>2. S = [k \in 1 .. (1 + (p + n)) - (p + 1) |-> C[k + (p + 1) - 1]]
  BY <1>1
<1>3. (1 + (p + n)) - (p + 1) = n /\ \A k \in 1 .. n : k + (p + 1) - 1 = p + k
  OBVIOUS
<1> QED BY <1>1, <1>2, <1>3

LEMMA ReadImplements ==
  ASSUME RInv, NEW fd \in Fd, NEW len \in Lens, Read(fd, len)
  PROVE  Store!ReadFile(fd, len)
<1>1. CASE BadFd(fd)
  BY <1>1, BadFdRefuses DEF Store!ReadFile
<1>2. CASE fds[fd] # NoDesc
  <2> DEFINE pos == fds[fd].pos
             curr == fds[fd].curr
             f == dir[fds[fd].entry]
             C == Store!Contents(fd)
  <2>1. PICK n : /\ n = SizeMin(f.size - pos, len) /\ n \in Nat /\ pos + n <= f.size
                 /\ HopsFor(pos, n) \in Nat /\ ReadDone(fd, n)
    BY <1>2, ReadHappens
  <2> DEFINE hops == HopsFor(pos, n)
  <2>2. PICK path \in Paths(next, curr, hops) :
          /\ fds' = [fds EXCEPT ![fd].pos = pos + n, ![fd].curr = path[hops]]
          /\ Return(n, [k \in 1 .. n |->
                          data[path[HopOf(pos, n, k - 1)]][OffsetOf(pos, n, k - 1)]])
    BY <2>1 DEF ReadDone
  <2>3. UNCHANGED <<mounted, filesBar>> /\ dir' = dir
    BY <2>1, DiskSame DEF ReadDone
  <2>4. /\ C = ContentsIn(next, data, f) /\ FileIn(next, f) /\ f.size \in Nat
        /\ C \in Seq(Bytes) /\ Len(C) = f.size
    BY <1>2, DescContents
  <2>5. /\ next \in NextFunction /\ NextInjective(next) /\ data \in DataFunction
        /\ Root(next, f.first)
    <3>1. Root(next, f.first)
      BY <2>4 DEF FileIn
    <3>2. next \in NextFunction /\ NextInjective(next)
      BY RInvGood DEF GoodDisk
    <3> QED BY <3>1, <3>2, RInvGood
  <2>6. /\ curr \in Chain(next, f.first) /\ Hops(next, f.first, curr) = BlockIndex(pos)
        /\ pos \in Nat /\ pos <= f.size
    <3>1. Follows(next, dir, fds[fd]) /\ fds[fd] \in Desc
      BY <1>2, RInvGood
    <3>2. pos \in Nat
      BY <3>1 DEF Desc
    <3> QED BY <3>1, <3>2 DEF Follows
  <2>7. path[hops] \in Block /\ pos + n \in Nat
    <3>1. hops \in Nat
      BY <2>1
    <3> HIDE DEF hops, curr
    <3>2. path[hops] \in Block
      BY <2>2, <3>1, PathEnd
    <3> QED BY <2>1, <2>6, <3>2
  <2>8. openBar' = [openBar EXCEPT ![fd].pos = pos + n]
    BY <1>2, <2>2, <2>3, <2>7, MoveBar
  <2>9. ASSUME NEW k \in 1 .. n
        PROVE  data[path[HopOf(pos, n, k - 1)]][OffsetOf(pos, n, k - 1)] = C[pos + k]
    <3>1. hops = HopsFor(pos, n)
      OBVIOUS
    <3>2. PICK j : j = pos + k
      OBVIOUS
    <3>3. j \in 1 .. f.size
      BY <2>1, <2>4, <2>6, <3>2
    <3> HIDE DEF pos, curr, hops, f, C
    <3>4. /\ path[HopOf(pos, n, k - 1)]
               = Spine(next, f.first)[(j - 1) \div BlockDataSize]
          /\ OffsetOf(pos, n, k - 1) = (j - 1) % BlockDataSize
      BY <2>1, <2>2, <2>5, <2>6, <3>1, <3>2, TransferAlongFile
    <3>5. C[j] = data[Spine(next, f.first)[(j - 1) \div BlockDataSize]]
                   [(j - 1) % BlockDataSize]
      BY <2>4, <2>5, <3>3, ContentsTyped
    <3> QED BY <3>2, <3>4, <3>5
  <2> DEFINE buf == [k \in 1 .. n |->
                       data[path[HopOf(pos, n, k - 1)]][OffsetOf(pos, n, k - 1)]]
  <2>10. SubSeq(C, pos + 1, pos + n) = buf
    <3>1. buf = [k \in 1 .. n |-> C[pos + k]]
      BY <2>9
    <3>2. DOMAIN C = 1 .. f.size
      BY <2>4
    <3> HIDE DEF buf, C, pos, f
    <3>3. SubSeq(C, pos + 1, pos + n) = [k \in 1 .. n |-> C[pos + k]]
      <4>1. pos \in Nat /\ n \in Nat /\ C \in Seq(Bytes) /\ pos + n <= Len(C)
        BY <2>1, <2>4, <2>6
      <4> QED BY ONLY <4>1, BytesFrom
    <3> QED BY <3>1, <3>3
  <2>11. n \in 0 .. len /\ (pos + n = Len(C) \/ (n = len /\ pos + n < Len(C)))
    <3>1. len \in Nat
      BY ClientAssumption DEF Lens
    <3> HIDE DEF C, pos, f
    <3> QED BY <2>1, <2>4, <2>6, <3>1 DEF SizeMin
  <2>12. openBar[fd] # NoDesc /\ openBar[fd].pos = pos
    BY <1>2, OpenBar
  <2>13. Store!Answer(n, SubSeq(C, pos + 1, pos + n))
    BY <2>2, <2>10 DEF Store!Answer, Return
  <2>14. /\ openBar' = [openBar EXCEPT ![fd].pos = openBar[fd].pos + n]
         /\ \/ openBar[fd].pos + n = Len(Store!Contents(fd))
            \/ (n = len /\ openBar[fd].pos + n < Len(Store!Contents(fd)))
         /\ Store!Answer(n, SubSeq(Store!Contents(fd), openBar[fd].pos + 1,
                                   openBar[fd].pos + n))
    <3>1. PICK C2 : C2 = C
      OBVIOUS
    <3> HIDE DEF pos
    <3> QED BY <2>8, <2>11, <2>12, <2>13
  <2> QED BY <2>3, <2>11, <2>12, <2>14 DEF Store!ReadFile
<1> QED BY <1>1, <1>2 DEF Read, BadFd

LEMMA MountImplements ==
  ASSUME RInv, Mount
  PROVE  Store!MountImage
<1>1. CASE mounted
  BY <1>1, FailRefuses DEF Mount, Store!MountImage
<1>2. CASE ~ mounted
  <2>1. /\ mounted' = TRUE /\ Return(0, <<>>)
        /\ UNCHANGED diskVars /\ fds' = fds
    BY <1>2 DEF Mount, MapImage
  <2>2. filesBar' = filesBar /\ openBar' = openBar
    BY <2>1, DiskSame, Bars, BarsNext
  <2> QED BY <1>2, <2>1, <2>2 DEF Store!MountImage, Store!Answer, Return
<1> QED BY <1>1, <1>2

LEMMA UnmountImplements ==
  ASSUME RInv, Unmount, \A fd \in Fd : fds[fd] = NoDesc
  PROVE  Store!UnmountImage
<1>1. /\ mounted' = FALSE /\ Return(0, <<>>)
      /\ UNCHANGED diskVars /\ fds' = fds
  BY DEF Unmount
<1>2. filesBar' = filesBar /\ openBar' = openBar
  BY <1>1, DiskSame, Bars, BarsNext
<1>3. Store!FreeFd = Fd
  BY OpenBar DEF FreeFds
<1> QED BY <1>1, <1>2, <1>3 DEF Store!UnmountImage, Store!Answer, Return

LEMMA EmptyDirectory ==
  ASSUME NEW nx, NEW dt
  PROVE  FilesOf(nx, dt, FormattedDir) = [n \in Names |-> Absent]
<1>1. ASSUME NEW n \in Names PROVE Holders(FormattedDir, n) = {}
  BY DEF Holders, FormattedDir, UnusedEntry
<1> QED BY <1>1 DEF FilesOf

LEMMA NothingOpen ==
  ASSUME NEW dr
  PROVE  OpenOf(dr, [fd \in Fd |-> NoDesc]) = [fd \in Fd |-> NoDesc]
BY DEF OpenOf

LEMMA FormatImplements ==
  ASSUME RInv, Format
  PROVE  Store!FormatImage
<1>1. CASE mounted
  BY <1>1, FailRefuses DEF Format, Store!FormatImage
<1>2. CASE ~ mounted
  <2>1. /\ mounted' = TRUE /\ Return(0, <<>>) /\ dir' = FormattedDir
        /\ fds' = fds /\ \A fd \in Fd : fds[fd] = NoDesc
    BY <1>2, UnmountedClosed DEF Format, MapImage, RInv
  <2>2. filesBar' = [n \in Names |-> Absent]
    BY <2>1, BarsNext, EmptyDirectory
  <2>3. openBar' = openBar
    BY <2>1, Bars, BarsNext DEF OpenOf
  <2> QED BY <1>2, <2>1, <2>2, <2>3 DEF Store!FormatImage, Store!Answer, Return
<1> QED BY <1>1, <1>2

LEMMA RestartImplements ==
  ASSUME RInv, Restart
  PROVE  Store!NewProcess
<1>1. /\ mounted' = FALSE /\ Return(0, <<>>)
      /\ UNCHANGED diskVars /\ fds' = [fd \in Fd |-> NoDesc]
  BY DEF Restart
<1>2. filesBar' = filesBar /\ openBar' = [fd \in Fd |-> NoDesc]
  BY <1>1, DiskSame, BarsNext, NothingOpen
<1> QED BY <1>1, <1>2 DEF Store!NewProcess, Store!Answer, Return

LEMMA InitImplements == Init => RInv /\ Store!FsInit
<1> SUFFICES ASSUME Init PROVE RInv /\ Store!FsInit
  OBVIOUS
<1>1. CInv /\ dir = FormattedDir /\ mounted = TRUE
      /\ fds = [fd \in Fd |-> NoDesc]
      /\ ret = [code |-> "OK", val |-> 0, buf |-> <<>>]
  BY InitCInv DEF Init
<1>2. NamesGiven
  BY <1>1 DEF NamesGiven, FormattedDir, UnusedEntry
<1>3. filesBar = [n \in Names |-> Absent] /\ openBar = [fd \in Fd |-> NoDesc]
  BY <1>1, Bars, EmptyDirectory, NothingOpen
<1> QED BY <1>1, <1>2, <1>3 DEF RInv, Store!FsInit

\* A descriptor that is given out.
LEMMA SetBar ==
  ASSUME RInv, NEW f \in Fd, NEW e \in Entry, NEW b \in Block,
         fds' = [fds EXCEPT ![f] = [entry |-> e, curr |-> b, pos |-> 0]],
         NEW n, n = dir'[e].name,
         \A x \in Entry : dir[x].first # Null => dir'[x].name = dir[x].name
  PROVE  openBar' = [openBar EXCEPT ![f] = [name |-> n, pos |-> 0]]
<1>1. PICK d : d = [entry |-> e, curr |-> b, pos |-> 0]
  OBVIOUS
<1>2. d \in Desc /\ d.entry = e /\ d.pos = 0 /\ d # NoDesc
  BY <1>1, NoDescAssumption DEF Desc
<1>3. fds \in [Fd -> Desc \cup {NoDesc}] /\ fds' = [fds EXCEPT ![f] = d]
  BY <1>1, RInvGood
<1>4. openBar' = [g \in Fd |-> IF fds'[g] = NoDesc THEN NoDesc
                              ELSE [name |-> dir'[fds'[g].entry].name,
                                    pos |-> fds'[g].pos]]
  BY BarsNext DEF OpenOf
<1>5. PICK r : r = [name |-> n, pos |-> 0]
  OBVIOUS
<1>6. [openBar EXCEPT ![f] = r] = [g \in Fd |-> IF g = f THEN r ELSE openBar[g]]
  BY DEF openBar
<1>7. ASSUME NEW g \in Fd
      PROVE  (IF fds'[g] = NoDesc THEN NoDesc
              ELSE [name |-> dir'[fds'[g].entry].name, pos |-> fds'[g].pos])
             = IF g = f THEN r ELSE openBar[g]
  <2>1. CASE g = f
    <3>1. fds'[g] = d
      BY <1>3, <2>1
    <3> QED BY <1>2, <1>5, <2>1, <3>1
  <2>2. CASE g # f
    <3>1. fds'[g] = fds[g]
      BY <1>3, <2>2
    <3>2. CASE fds[g] = NoDesc
      BY <2>2, <3>1, <3>2, OpenBar
    <3>3. CASE fds[g] # NoDesc
      <4>1. PICK x, y : x = fds[g].entry /\ y = fds[g].pos
        OBVIOUS
      <4>2. x \in Entry /\ openBar[g] = [name |-> dir[x].name, pos |-> y]
            /\ dir[x].first # Null
        BY <3>3, <4>1, OpenBar
      <4>3. dir'[x].name = dir[x].name
        BY <4>2
      <4> QED BY <2>2, <3>1, <3>3, <4>1, <4>2, <4>3
    <3> QED BY <3>2, <3>3
  <2> QED BY <2>1, <2>2
<1> QED BY <1>4, <1>5, <1>6, <1>7, Zenon

LEMMA GiveImplements ==
  ASSUME RInv, NEW e \in Entry, NEW b \in Block, AddOpenFileEntry(e, b),
         NEW n, n = dir'[e].name,
         \A x \in Entry : dir[x].first # Null => dir'[x].name = dir[x].name
  PROVE  Store!GiveDescriptor(n)
<1>1. InUse(e) => openFile[e].mapped
  BY DEF RInv, CInv, MappedIn, InUse
<1>2. ASSUME fds' = fds PROVE UNCHANGED openBar
  <2>1. openBar' = [g \in Fd |-> IF fds'[g] = NoDesc THEN NoDesc
                                ELSE [name |-> dir'[fds'[g].entry].name,
                                      pos |-> fds'[g].pos]]
    BY BarsNext DEF OpenOf
  <2>2. openBar = [g \in Fd |-> IF fds[g] = NoDesc THEN NoDesc
                                ELSE [name |-> dir[fds[g].entry].name,
                                      pos |-> fds[g].pos]]
    BY Bars DEF OpenOf
  <2>3. ASSUME NEW g \in Fd, fds[g] # NoDesc
        PROVE  dir'[fds[g].entry].name = dir[fds[g].entry].name
    BY <2>3, OpenBar
  <2> QED BY <1>2, <2>1, <2>2, <2>3
<1>3. Store!FreeFd = FreeFds /\ Store!FirstFree = Lowest(FreeFds)
  BY OpenBar
<1>4. CASE FreeFds = {} /\ Fail("EMFILE") /\ fds' = fds
  BY <1>2, <1>3, <1>4 DEF Store!GiveDescriptor, Fail, Store!Refuse
<1>5. CASE FreeFds # {} /\ Fail("ENOMEM") /\ fds' = fds
  BY <1>2, <1>3, <1>5 DEF Store!GiveDescriptor, Fail, Store!Refuse
<1>6. CASE FreeFds # {} /\ Return(Lowest(FreeFds), <<>>)
           /\ fds' = [fds EXCEPT ![Lowest(FreeFds)] =
                        [entry |-> e, curr |-> b, pos |-> 0]]
  <2>1. PICK f : f = Lowest(FreeFds)
    OBVIOUS
  <2>2. f \in Fd
    <3>1. FreeFds \in SUBSET Nat
      BY ClientAssumption DEF FreeFds, Fd
    <3>2. f \in FreeFds
      BY <1>6, <2>1, <3>1, LowestIn
    <3> QED BY <3>2 DEF FreeFds
  <2>3. openBar' = [openBar EXCEPT ![f] = [name |-> n, pos |-> 0]]
    BY <1>6, <2>1, <2>2, SetBar
  <2> QED BY <1>3, <1>6, <2>1, <2>3 DEF Store!GiveDescriptor, Return, Store!Answer
<1> QED BY <1>1, <1>4, <1>5, <1>6 DEF AddOpenFileEntry

LEMMA OpenExistingImplements ==
  ASSUME RInv, NEW name \in Names, name \notin LongNames, mounted,
         OpenExisting(name)
  PROVE  Store!OpenFile(name)
<1>1. PICK e : e = Lowest(Named(name))
  OBVIOUS
<1>2. Named(name) # {} /\ AddOpenFileEntry(e, dir[e].first)
      /\ UNCHANGED <<diskVars, mounted>>
  BY <1>1 DEF OpenExisting
<1>3. e \in Entry /\ dir[e].first # Null /\ dir[e].name = name /\ name \in Store!Present
  BY <1>1, <1>2, FilesBar
<1>4. filesBar' = filesBar /\ dir' = dir /\ mounted' = mounted
  BY <1>2, DiskSame
<1>5. dir[e].first \in Block
  BY <1>3, DiskRoots, BlockFacts DEF RInv, CInv
<1>6. Store!GiveDescriptor(name)
  BY <1>2, <1>3, <1>4, <1>5, GiveImplements
<1> QED BY <1>3, <1>4, <1>6 DEF Store!OpenFile

-----------------------------------------------------------------------------
(***************************************************************************)
(* The calls that change the disk.  What a list routine does outside the   *)
(* lists it is given is nothing.                                           *)
(***************************************************************************)
LEMMA AllocateKeeps ==
  ASSUME NEW nx \in NextFunction, NextInjective(nx), NEW fr \in BlockId,
         NoPredecessor(nx, fr), NEW n \in Nat,
         NEW run, run = AllocatedRun(nx, fr, n),
         NEW nx2, nx2 = NextAfterAllocate(nx, run)
  PROVE  \A c \in Block : c \notin Chain(nx, fr) => nx2[c] = nx[c]
<1>1. CASE run = {}
  BY <1>1 DEF NextAfterAllocate
<1>2. CASE run # {}
  <2>1. CanAllocate(nx, fr, n) /\ run = FirstBlocks(nx, fr, n)
    BY <1>2 DEF AllocatedRun
  <2>2. fr \in Block /\ n \in Nat \ {0}
    BY <2>1, BlockFacts DEF CanAllocate
  <2>3. run \subseteq Chain(nx, fr) /\ fr \in run /\ run \in SUBSET Block
    <3>1. Chain(nx, fr) \subseteq Block
      BY DEF Chain
    <3> QED BY <2>1, <2>2, <3>1, FirstBlocksRun
  <2>4. LastOf(nx, run) \in run
    BY <2>3, RunHasLast
  <2> QED BY <1>2, <2>3, <2>4 DEF NextAfterAllocate
<1> QED BY <1>1, <1>2

\* The links out of the blocks C, and the bytes in them, are the same on both.
Intact(nx, nx2, dt, dt2, C) ==
  \A c \in C : (nx[c] # Null => nx2[c] = nx[c]) /\ dt2[c] = dt[c]

\* Files that keep their entries, links and bytes keep their contents.
LEMMA OtherFiles ==
  ASSUME NEW nx, NEW fr, NEW dr, GoodDisk(nx, fr, dr),
         NEW nx2, NEW dt, NEW dt2, NEW e \in Entry, dr[e].first # Null,
         Intact(nx, nx2, dt, dt2, Chain(nx, dr[e].first)),
         NEW g, g.first = dr[e].first, g.size = dr[e].size
  PROVE  ContentsIn(nx2, dt2, g) = FilesOf(nx, dt, dr)[dr[e].name]
<1>1. /\ nx \in NextFunction /\ NextInjective(nx) /\ FileIn(nx, dr[e])
      /\ UniqueNames(dr) /\ dr[e].name \in Names
  BY DEF GoodDisk
<1>2. Keeps(nx, nx2, Chain(nx, dr[e].first))
  BY DEF Keeps, Intact
<1>3. ContentsIn(nx2, dt2, g) = ContentsIn(nx, dt, dr[e])
  <2>1. \A c \in Chain(nx, dr[e].first) : dt2[c] = dt[c]
    BY DEF Intact
  <2> QED BY <1>1, <1>2, <2>1, ContentsKept
<1>4. FilesOf(nx, dt, dr)[dr[e].name] = ContentsIn(nx, dt, dr[e])
  BY <1>1, FileOfHolder
<1> QED BY <1>3, <1>4

LEMMA CreateFileImplements ==
  ASSUME RInv, RInv', NEW name \in Names, name \notin LongNames, mounted,
         CreateFile(name)
  PROVE  Store!OpenFile(name)
<1>1. PICK e, run, nx, fr, dr, nx2, dr2 :
        /\ e = Lowest(Unused) /\ nx = next /\ fr = freelist /\ dr = dir
        /\ run = AllocatedRun(nx, fr, 1) /\ nx2 = next' /\ dr2 = dir'
  OBVIOUS
<1>2. /\ Named(name) = {} /\ Unused # {} /\ run # {}
      /\ nx2 = NextAfterAllocate(nx, run)
      /\ dr2 = [dr EXCEPT ![e] = [first |-> fr, size |-> 0, name |-> name]]
      /\ AddOpenFileEntry(e, fr)
      /\ UNCHANGED <<data, mounted>>
  BY <1>1 DEF CreateFile
<1>3. e \in Entry /\ dr[e].first = Null
  <2>1. Unused \in SUBSET Nat /\ Unused # {}
    BY <1>2, GeometryAssumption DEF Unused, Entry
  <2>2. e \in Unused
    BY <1>1, <2>1, LowestIn
  <2> QED BY <1>1, <2>2 DEF Unused, Live
<1>4. GoodDisk(nx, fr, dr) /\ UniqueNames(dr2)
  BY <1>1, RInvGood, RInvGoodNext DEF GoodDisk
<1>5. /\ nx \in NextFunction /\ NextInjective(nx) /\ fr \in BlockId
      /\ NoPredecessor(nx, fr) /\ dr \in [Entry -> DirEntry]
  BY <1>4 DEF GoodDisk
<1>6. /\ dr2[e] = [first |-> fr, size |-> 0, name |-> name]
      /\ \A x \in Entry : x # e => dr2[x] = dr[x]
  BY <1>2, <1>3, <1>5
<1>7. \A c \in Block : c \notin Chain(nx, fr) => nx2[c] = nx[c]
  <2>1. 1 \in Nat
    OBVIOUS
  <2> QED BY <1>1, <1>2, <1>5, <2>1, AllocateKeeps
<1>8. fr \in Block
  BY <1>1, <1>2, <1>5, BlockFacts DEF AllocatedRun, CanAllocate
<1> DEFINE G == [filesBar EXCEPT ![name] = <<>>]
<1>9. \A x \in Entry : dr[x].first # Null => dr[x].name # name
  BY <1>1, <1>2, Bars DEF Holders
<1>10. filesBar = FilesOf(nx, data, dr) /\ DOMAIN filesBar = Names
  BY <1>1, Bars DEF filesBar
<1>11. ASSUME NEW x \in Entry, dr2[x].first # Null
       PROVE  ContentsIn(nx2, data, dr2[x]) = G[dr2[x].name]
  <2>1. CASE x = e
    <3>1. dr2[x].size = 0 /\ dr2[x].name = name
      BY <1>6, <2>1
    <3>2. ContentsIn(nx2, data, dr2[x]) = <<>>
      BY <3>1 DEF ContentsIn
    <3> QED BY <1>10, <3>1, <3>2
  <2>2. CASE x # e
    <3>1. dr2[x] = dr[x] /\ dr[x].first # Null /\ dr[x].name # name
      BY <1>6, <1>9, <1>11, <2>2
    <3>2. ASSUME NEW c \in Chain(nx, dr[x].first)
          PROVE  nx2[c] = nx[c]
      <4>1. c \notin Chain(nx, fr) /\ c \in Block
        <5>1. Chain(nx, dr[x].first) \subseteq Block
          BY DEF Chain
        <5> QED BY <1>4, <5>1 DEF GoodDisk
      <4> QED BY <1>7, <4>1
    <3>3. ContentsIn(nx2, data, dr2[x]) = FilesOf(nx, data, dr)[dr[x].name]
      <4>1. dr2[x].first = dr[x].first /\ dr2[x].size = dr[x].size
        BY <3>1
      <4>2. Intact(nx, nx2, data, data, Chain(nx, dr[x].first))
        BY <3>2 DEF Intact
      <4> QED BY <1>4, <3>1, <4>1, <4>2, OtherFiles
    <3>4. dr[x].name \in Names
      BY <1>4, <3>1 DEF GoodDisk
    <3> QED BY <1>10, <3>1, <3>3, <3>4
  <2> QED BY <2>1, <2>2
<1>12. ASSUME NEW n \in Names, Holders(dr2, n) = {}
       PROVE  G[n] = Absent
  <2>1. n # name
    <3>1. e \in Holders(dr2, name)
      <4>1. dr2[e].first = fr /\ dr2[e].name = name
        BY <1>6
      <4> QED BY <1>3, <1>8, <4>1, BlockFacts DEF Holders
    <3> QED BY <1>12, <3>1
  <2>2. Holders(dr, n) = {}
    <3>1. \A x \in Entry : dr[x].first # Null => x # e /\ dr2[x] = dr[x]
      BY <1>3, <1>6
    <3> QED BY <1>12, <3>1 DEF Holders
  <2>3. filesBar[n] = Absent
    BY <1>10, <2>2 DEF FilesOf
  <2> QED BY <1>10, <2>1, <2>3
<1>13. filesBar' = G
  <2>1. G = [n \in Names |-> G[n]]
    BY <1>10
  <2>2. FilesOf(nx2, data, dr2) = G
    <3> HIDE DEF G
    <3> QED BY <1>4, <1>11, <1>12, <2>1, FilesFrom
  <2>3. data' = data
    BY <1>2
  <2> QED BY <1>1, <2>2, <2>3, BarsNext
<1>14. Store!GiveDescriptor(name)
  <2>1. name = dir'[e].name
    <3>1. dr2[e].name = name
      BY <1>6
    <3> QED BY <1>1, <3>1
  <2>2. \A x \in Entry : dir[x].first # Null => dir'[x].name = dir[x].name
    BY <1>1, <1>3, <1>6
  <2>3. AddOpenFileEntry(e, fr)
    BY <1>2
  <2> QED BY <1>3, <1>8, <2>1, <2>2, <2>3, GiveImplements
<1>15. Store!Free > 0 /\ Store!Cardinality(Store!Present) < FileCountLimit
  <2>1. CanAllocate(next, freelist, 1)
    BY <1>1, <1>2 DEF AllocatedRun
  <2>2. Size(next, freelist) >= 1 /\ Size(next, freelist) \in Nat
    BY <2>1, SpaceBar DEF CanAllocate, Size
  <2>3. Size(next, freelist) > 0
    BY <2>2
  <2> QED BY <1>2, <2>3, SpaceBar
<1>16. name \notin Store!Present
  BY <1>2, FilesBar
<1> QED BY <1>2, <1>13, <1>14, <1>15, <1>16 DEF Store!OpenFile

LEMMA CreateNoSpaceImplements ==
  ASSUME RInv, NEW name \in Names, name \notin LongNames, mounted,
         CreateNoSpace(name)
  PROVE  Store!OpenFile(name)
<1>1. Store!RefuseOnly("ENOSPC")
  BY FailRefuses DEF CreateNoSpace
<1>2. name \notin Store!Present
  BY FilesBar DEF CreateNoSpace
<1>3. Store!Free = 0 \/ Store!Cardinality(Store!Present) = FileCountLimit
  <2>1. CASE Unused = {}
    BY <2>1, SpaceBar
  <2>2. CASE ~ CanAllocate(next, freelist, 1)
    <3>1. PICK s : s = Size(next, freelist)
      OBVIOUS
    <3>2. s \in Nat /\ Store!Free = s
      BY <3>1, SpaceBar
    <3>3. ~ (freelist # Null /\ s >= 1)
      BY <2>2, <3>1 DEF CanAllocate, Size
    <3>4. freelist = Null => s = 0
      BY <3>1, NullChain, FS_EmptySet DEF Size
    <3> QED BY <3>2, <3>3, <3>4
  <2> QED BY <2>1, <2>2 DEF CreateNoSpace
<1> QED BY <1>1, <1>2, <1>3 DEF Store!OpenFile

LEMMA OpenImplements ==
  ASSUME RInv, RInv', NEW name \in Names, Open(name)
  PROVE  Store!OpenFile(name)
<1>1. CASE name \in LongNames /\ FailUnchanged("ENAMETOOLONG")
  BY <1>1, FailRefuses DEF Store!OpenFile
<1>2. CASE name \notin LongNames /\ ~ mounted /\ FailUnchanged("ENOMEDIUM")
  BY <1>2, FailRefuses DEF Store!OpenFile
<1>3. CASE /\ name \notin LongNames /\ mounted
           /\ OpenExisting(name) \/ CreateFile(name) \/ CreateNoSpace(name)
  BY <1>3, OpenExistingImplements, CreateFileImplements, CreateNoSpaceImplements
<1>4. ~ CreateAborts(name)
  BY NoAllocationAborts DEF RInv, CInv, CreateAborts
<1> QED BY <1>1, <1>2, <1>3, <1>4 DEF Open

\* The files after the one of entry e was freed.
LEMMA FreeFileBar ==
  ASSUME RInv, RInv', NEW e \in Entry, dir[e].first # Null, NEW newDir,
         newDir \in [Entry -> DirEntry],
         \A x \in Entry : /\ newDir[x].first = dir[x].first
                          /\ newDir[x].size = dir[x].size,
         FreeFile(e, newDir),
         NEW G, G = [n \in Names |-> G[n]],
         \A x \in Entry : x # e /\ dir[x].first # Null =>
           G[newDir[x].name] = filesBar[dir[x].name],
         \A n \in Names :
           (\A x \in Entry : x # e /\ dir[x].first # Null => newDir[x].name # n)
             => G[n] = Absent
  PROVE  filesBar' = G
<1>1. PICK nx, fr, dr, b, nx2, dr2 :
        /\ nx = next /\ fr = freelist /\ dr = dir /\ b = dir[e].first
        /\ nx2 = next' /\ dr2 = dir'
  OBVIOUS
<1>2. /\ GoodDisk(nx, fr, dr) /\ UniqueNames(dr2) /\ prev[b] = Null
  <2>1. GoodDisk(nx, fr, dr) /\ UniqueNames(dr2)
    BY <1>1, RInvGood, RInvGoodNext DEF GoodDisk
  <2>2. b \in Block /\ \E x \in Entry : b = dir[x].first
    BY <1>1, <2>1, BlockFacts DEF GoodDisk, FileIn, Root
  <2> QED BY <2>1, <2>2, RInvGood
<1>3. /\ nx \in NextFunction /\ NextInjective(nx) /\ Root(nx, b)
  BY <1>1, <1>2 DEF GoodDisk, FileIn
<1>4. /\ nx2 = NextAfterFree(nx, prev, fr, b)
      /\ dr2 = [newDir EXCEPT ![e] = UnusedEntry] /\ data' = data
  BY <1>1 DEF FreeFile
<1>5. ASSUME NEW c \in Block, c \notin Chain(nx, b)
      PROVE  nx2[c] = nx[c]
  <2>1. b \in Chain(nx, b) /\ Chain(nx, b) \in SUBSET Block
    BY <1>3, BlockFacts, ChainClosed DEF Root, Chain
  <2>2. LastOf(nx, Chain(nx, b)) \in Chain(nx, b)
    BY <1>3, <2>1, RunHasLast DEF Root
  <2>3. c # LastOf(nx, Chain(nx, b)) /\ c # prev[b]
    BY <1>2, <1>5, <2>2, BlockFacts
  <2> QED BY <1>4, <2>3 DEF NextAfterFree
<1>6. /\ dr2[e].first = Null
      /\ \A x \in Entry : x # e =>
           /\ dr2[x] = newDir[x] /\ dr2[x].first = dr[x].first
           /\ dr2[x].size = dr[x].size
  <2>1. dr2[e] = UnusedEntry /\ \A x \in Entry : x # e => dr2[x] = newDir[x]
    BY <1>4
  <2>2. UnusedEntry.first = Null
    BY DEF UnusedEntry
  <2> QED BY <1>1, <2>1, <2>2
<1>7. ASSUME NEW x \in Entry, dr2[x].first # Null
      PROVE  ContentsIn(nx2, data, dr2[x]) = G[dr2[x].name]
  <2>1. x # e /\ dr[x].first # Null /\ dr2[x].first = dr[x].first
        /\ dr2[x].size = dr[x].size /\ dr2[x].name = newDir[x].name
    BY <1>6, <1>7
  <2>2. ASSUME NEW c \in Chain(nx, dr[x].first) PROVE nx2[c] = nx[c]
    <3>1. Chain(nx, dr[x].first) \subseteq Block
      BY DEF Chain
    <3>2. c \notin Chain(nx, b)
      BY <1>1, <1>2, <2>1 DEF GoodDisk
    <3> QED BY <1>5, <3>1, <3>2
  <2>3. Intact(nx, nx2, data, data, Chain(nx, dr[x].first))
    BY <2>2 DEF Intact
  <2>4. ContentsIn(nx2, data, dr2[x]) = FilesOf(nx, data, dr)[dr[x].name]
    <3>1. /\ GoodDisk(nx, fr, dr) /\ x \in Entry /\ dr[x].first # Null
          /\ dr2[x].first = dr[x].first /\ dr2[x].size = dr[x].size
      BY <1>2, <2>1
    <3> QED BY ONLY <2>3, <3>1, OtherFiles
  <2>5. FilesOf(nx, data, dr) = filesBar
    BY <1>1, Bars
  <2>6. G[newDir[x].name] = filesBar[dir[x].name]
    BY <1>1, <2>1
  <2> QED BY <1>1, <2>1, <2>4, <2>5, <2>6
<1>8. ASSUME NEW n \in Names, Holders(dr2, n) = {}
      PROVE  G[n] = Absent
  <2>1. ASSUME NEW x \in Entry, x # e, dir[x].first # Null
        PROVE  newDir[x].name # n
    BY <1>1, <1>6, <1>8, <2>1 DEF Holders
  <2> QED BY <2>1
<1>9. FilesOf(nx2, data, dr2) = G
  <2>1. /\ UniqueNames(dr2) /\ G = [n \in Names |-> G[n]]
        /\ \A x \in Entry : dr2[x].first # Null =>
             ContentsIn(nx2, data, dr2[x]) = G[dr2[x].name]
        /\ \A n \in Names : Holders(dr2, n) = {} => G[n] = Absent
    BY <1>2, <1>7, <1>8
  <2> QED BY ONLY <2>1, FilesFrom
<1> QED BY <1>1, <1>4, <1>9, BarsNext

\* A name is open when the entry that holds it is in use.
LEMMA OpenName ==
  ASSUME RInv, NEW e \in Entry, dir[e].first # Null
  PROVE  /\ Store!IsOpen(dir[e].name) <=> InUse(e)
         /\ \A fd \in Fd : fds[fd] # NoDesc =>
              (dir[fds[fd].entry].name = dir[e].name <=> fds[fd].entry = e)
<1>1. \A fd \in Fd : fds[fd] # NoDesc =>
        /\ openBar[fd] # NoDesc /\ openBar[fd].name = dir[fds[fd].entry].name
        /\ fds[fd].entry \in Entry /\ dir[fds[fd].entry].first # Null
  BY OpenBar
<1>2. \A fd \in Fd : fds[fd] # NoDesc =>
        (dir[fds[fd].entry].name = dir[e].name <=> fds[fd].entry = e)
  BY <1>1, RInvGood DEF GoodDisk, UniqueNames
<1>3. InUse(e) <=> \E fd \in Fd : fds[fd] # NoDesc /\ fds[fd].entry = e
  BY UsersOfOpen DEF RInv, CInv
<1>4. \A fd \in Fd : openBar[fd] = NoDesc <=> fds[fd] = NoDesc
  BY OpenBar
<1> QED BY <1>1, <1>2, <1>3, <1>4 DEF Store!IsOpen

LEMMA DeleteHappens ==
  ASSUME RInv, RInv', NEW e, NEW newDir, DeleteFile(e, newDir)
  PROVE  FreeFile(e, newDir) /\ Return(0, <<>>) /\ UNCHANGED status
<1>1. status' # "aborted"
  BY DEF RInv, CInv
<1> QED BY <1>1 DEF DeleteFile, FreeFileAborts, Abort

LEMMA RemoveImplements ==
  ASSUME RInv, RInv', NEW name \in Names, Remove(name)
  PROVE  Store!RemoveFile(name)
<1>1. CASE name \in LongNames /\ FailUnchanged("ENAMETOOLONG")
  BY <1>1, FailRefuses DEF Store!RemoveFile
<1>2. CASE name \notin LongNames /\ ~ mounted /\ FailUnchanged("ENOMEDIUM")
  BY <1>2, FailRefuses DEF Store!RemoveFile
<1>3. CASE name \notin LongNames /\ mounted /\ Named(name) = {}
           /\ FailUnchanged("ENOENT")
  BY <1>3, FailRefuses, FilesBar DEF Store!RemoveFile
<1>4. PICK e : e = Lowest(Named(name))
  OBVIOUS
<1>5. ASSUME Named(name) # {}
      PROVE  /\ e \in Entry /\ dir[e].first # Null /\ dir[e].name = name
             /\ Named(name) = {e} /\ name \in Store!Present
             /\ Store!IsOpen(name) <=> InUse(e)
  <2>1. /\ e \in Entry /\ dir[e].first # Null /\ dir[e].name = name
        /\ Named(name) = {e} /\ name \in Store!Present
    BY <1>4, <1>5, FilesBar
  <2> QED BY <2>1, OpenName
<1>6. CASE name \notin LongNames /\ mounted /\ Named(name) # {} /\ InUse(e)
           /\ FailUnchanged("EBUSY")
  BY <1>5, <1>6, FailRefuses DEF Store!RemoveFile
<1>7. CASE name \notin LongNames /\ mounted /\ Named(name) # {} /\ ~ InUse(e)
           /\ DeleteFile(e, dir) /\ UNCHANGED memVars
  <2>0. FreeFile(e, dir) /\ Return(0, <<>>)
    BY <1>7, DeleteHappens
  <2>1. /\ e \in Entry /\ dir[e].first # Null /\ dir[e].name = name
        /\ Named(name) = {e} /\ name \in Store!Present /\ ~ Store!IsOpen(name)
    BY <1>5, <1>7
  <2>2. mounted' = mounted /\ fds' = fds
    BY <1>7 DEF memVars
  <2> DEFINE G == [filesBar EXCEPT ![name] = Absent]
  <2>3. DOMAIN filesBar = Names
    BY DEF filesBar
  <2>4. G = [n \in Names |-> G[n]]
    BY <2>3
  <2>5. dir \in [Entry -> DirEntry]
    BY RInvGood DEF GoodDisk
  <2>6. \A x \in Entry : x # e /\ dir[x].first # Null =>
          dir[x].name # name /\ dir[x].name \in Names
    BY <2>1, RInvGood DEF GoodDisk, UniqueNames
  <2>7. \A x \in Entry : x # e /\ dir[x].first # Null =>
          G[dir[x].name] = filesBar[dir[x].name]
    BY <2>3, <2>6
  <2>8. ASSUME NEW n \in Names,
               \A x \in Entry : x # e /\ dir[x].first # Null => dir[x].name # n
        PROVE  G[n] = Absent
    <3>1. CASE n = name
      BY <2>3, <3>1
    <3>2. CASE n # name
      <4>1. Holders(dir, n) = {}
        BY <2>1, <2>8, <3>2 DEF Holders
      <4>2. filesBar[n] = Absent
        BY <4>1, Bars DEF FilesOf
      <4> QED BY <2>3, <3>2, <4>2
    <3> QED BY <3>1, <3>2
  <2>9. filesBar' = G
    <3> HIDE DEF G
    <3> QED BY <2>0, <2>1, <2>4, <2>5, <2>7, <2>8, FreeFileBar
  <2>10. openBar' = openBar
    <3>1. \A x \in Entry : x # e => dir'[x] = dir[x]
      BY <2>0, <2>5 DEF FreeFile
    <3>2. \A fd \in Fd : fds[fd] # NoDesc => fds[fd].entry \in Entry /\ fds[fd].entry # e
      <4>1. \A fd \in Fd : fds[fd] # NoDesc => fds[fd].entry \in Entry
        BY OpenBar
      <4>2. ~ \E fd \in Fd : fds[fd] # NoDesc /\ fds[fd].entry = e
        BY <1>7, <2>1, UsersOfOpen DEF RInv, CInv
      <4> QED BY <4>1, <4>2
    <3> QED BY <2>2, <3>1, <3>2, Bars, BarsNext DEF OpenOf
  <2> QED BY <1>7, <2>0, <2>1, <2>2, <2>9, <2>10
          DEF Store!RemoveFile, Store!Answer, Return
<1> QED BY <1>1, <1>2, <1>3, <1>4, <1>6, <1>7 DEF Remove

\* The descriptors after files got other names: of the open files, only the one
\* of entry e did.
LEMMA RenameBar ==
  ASSUME RInv, NEW e \in Entry, dir[e].first # Null, NEW new, new \in Names,
         fds' = fds, dir'[e].name = new,
         \A x \in Entry : x # e /\ InUse(x) => dir'[x].name = dir[x].name
  PROVE  openBar' = [fd \in Fd |->
           IF openBar[fd] # NoDesc /\ openBar[fd].name = dir[e].name
             THEN [openBar[fd] EXCEPT !.name = new] ELSE openBar[fd]]
<1>1. openBar' = [fd \in Fd |-> IF fds[fd] = NoDesc THEN NoDesc
                               ELSE [name |-> dir'[fds[fd].entry].name,
                                     pos |-> fds[fd].pos]]
  BY BarsNext DEF OpenOf
<1>2. ASSUME NEW fd \in Fd
      PROVE  (IF fds[fd] = NoDesc THEN NoDesc
              ELSE [name |-> dir'[fds[fd].entry].name, pos |-> fds[fd].pos])
             = IF openBar[fd] # NoDesc /\ openBar[fd].name = dir[e].name
                 THEN [openBar[fd] EXCEPT !.name = new] ELSE openBar[fd]
  <2>1. CASE fds[fd] = NoDesc
    BY <2>1, OpenBar
  <2>2. CASE fds[fd] # NoDesc
    <3>1. PICK x, y, n : x = fds[fd].entry /\ y = fds[fd].pos /\ n = dir[x].name
      OBVIOUS
    <3>2. /\ openBar[fd] # NoDesc /\ openBar[fd] = [name |-> n, pos |-> y]
          /\ openBar[fd].name = n /\ x \in Entry
      BY <2>2, <3>1, OpenBar
    <3>3. n = dir[e].name <=> x = e
      BY <2>2, <3>1, OpenName
    <3>4. InUse(x)
      BY <2>2, <3>1, <3>2, UsersOfOpen DEF RInv, CInv
    <3>5. CASE x = e
      <4>1. PICK r : r = openBar[fd]
        OBVIOUS
      <4>2. r = [name |-> n, pos |-> y]
        BY <3>2, <4>1
      <4>3. [r EXCEPT !.name = new] = [name |-> new, pos |-> y]
        BY ONLY <4>2
      <4> QED BY <2>2, <3>1, <3>2, <3>3, <3>5, <4>1, <4>3
    <3>6. CASE x # e
      <4>1. dir'[x].name = n
        BY <3>1, <3>2, <3>4, <3>6
      <4> QED BY <2>2, <3>1, <3>2, <3>3, <3>6, <4>1
    <3> QED BY <3>5, <3>6
  <2> QED BY <2>1, <2>2
<1> QED BY <1>1, <1>2, Zenon

LEMMA RenameImplements ==
  ASSUME RInv, RInv', NEW old \in Names, NEW new \in Names, Rename(old, new),
         RenameReplacesClosedFile(old, new)
  PROVE  Store!RenameFile(old, new)
<1>1. CASE {old, new} \cap LongNames # {} /\ FailUnchanged("ENAMETOOLONG")
  BY <1>1, FailRefuses DEF Store!RenameFile
<1>2. CASE {old, new} \cap LongNames = {} /\ ~ mounted /\ FailUnchanged("ENOMEDIUM")
  BY <1>2, FailRefuses DEF Store!RenameFile
<1>3. CASE /\ {old, new} \cap LongNames = {} /\ mounted
           /\ Named(old) = {} /\ FailUnchanged("ENOENT")
  BY <1>3, FailRefuses, FilesBar DEF Store!RenameFile
<1>4. PICK e, victim, renamed :
        /\ e = Lowest(Named(old)) /\ victim = Lowest(Named(new))
        /\ renamed = [dir EXCEPT ![Lowest(Named(old))].name = new]
  OBVIOUS
<1>5. CASE /\ {old, new} \cap LongNames = {} /\ mounted /\ Named(old) # {}
           /\ \/ Named(new) # {} /\ ~ InUse(victim) /\ DeleteFile(victim, renamed)
              \/ /\ Named(new) # {} => InUse(victim)
                 /\ dir' = renamed /\ Return(0, <<>>)
                 /\ UNCHANGED <<freelist, next, prev, btype, data, status>>
           /\ UNCHANGED memVars
  <2>0. /\ \/ Named(new) # {} /\ ~ InUse(victim) /\ FreeFile(victim, renamed)
           \/ /\ Named(new) # {} => InUse(victim)
              /\ dir' = renamed /\ UNCHANGED <<freelist, next, prev, btype, data>>
        /\ Return(0, <<>>)
    BY <1>5, DeleteHappens
  <2>1. /\ e \in Entry /\ dir[e].first # Null /\ dir[e].name = old
        /\ old \in Store!Present /\ filesBar[old] = ContentsIn(next, data, dir[e])
    BY <1>4, <1>5, FilesBar
  <2>2. Named(new) # {} => /\ victim \in Entry /\ dir[victim].first # Null
                           /\ dir[victim].name = new /\ ~ InUse(victim)
    BY <1>4, FilesBar DEF RenameReplacesClosedFile
  <2>3. /\ old # new /\ fds' = fds /\ mounted' = mounted
        /\ dir \in [Entry -> DirEntry] /\ UniqueNames(dir)
        /\ \A x \in Entry : dir[x].first # Null => dir[x].name \in Names
    BY <1>5, RInvGood DEF memVars, RenameReplacesClosedFile, GoodDisk
  <2>4. /\ renamed \in [Entry -> DirEntry] /\ renamed[e].name = new
        /\ \A x \in Entry : /\ renamed[x].first = dir[x].first
                            /\ renamed[x].size = dir[x].size
                            /\ x # e => renamed[x].name = dir[x].name
    <3>1. renamed = [dir EXCEPT ![e].name = new]
      BY <1>4
    <3> QED BY <2>1, <2>3, <3>1 DEF DirEntry
  <2>5. \A x \in Entry : x # e /\ dir[x].first # Null => dir[x].name # old
    BY <2>1, <2>3 DEF UniqueNames
  <2>6. \A x \in Entry : dir[x].first # Null /\ dir[x].name = new => x \in Named(new)
    BY DEF Named, Live
  <2> DEFINE G == [n \in Names |-> CASE n = new -> filesBar[old]
                                     [] n = old /\ n # new -> Absent
                                     [] OTHER -> filesBar[n]]
  <2>7. /\ G[new] = filesBar[old] /\ G[old] = Absent
        /\ \A n \in Names : n # new /\ n # old => G[n] = filesBar[n]
        /\ G = [n \in Names |-> G[n]]
    BY <2>3
  <2> HIDE DEF G
  \* The other files keep their names, but for the one that had the new name.
  <2>8. ASSUME NEW n \in Names, n # new,
               \A x \in Entry : x # e /\ dir[x].first # Null /\ dir[x].name # new
                                  => renamed[x].name # n
        PROVE  G[n] = Absent
    <3>1. CASE n = old
      BY <2>7, <3>1
    <3>2. CASE n # old
      <4>1. Holders(dir, n) = {}
        BY <2>1, <2>4, <2>8, <3>2 DEF Holders
      <4>2. filesBar[n] = Absent
        BY <4>1, Bars DEF FilesOf
      <4> QED BY <2>7, <2>8, <3>2, <4>2
    <3> QED BY <3>1, <3>2
  <2>9. ASSUME NEW x \in Entry, dir[x].first # Null, x = e \/ dir[x].name # new
        PROVE  G[renamed[x].name] = filesBar[dir[x].name]
    <3>1. CASE x = e
      BY <2>1, <2>4, <2>7, <3>1
    <3>2. CASE x # e
      BY <2>3, <2>4, <2>5, <2>7, <2>9, <3>2
    <3> QED BY <3>1, <3>2
  <2>10. ASSUME Named(new) # {}, ~ InUse(victim), FreeFile(victim, renamed)
         PROVE  filesBar' = G /\ openBar' = [fd \in Fd |->
           IF openBar[fd] # NoDesc /\ openBar[fd].name = dir[e].name
             THEN [openBar[fd] EXCEPT !.name = new] ELSE openBar[fd]]
    <3>1. /\ victim \in Entry /\ dir[victim].first # Null /\ dir[victim].name = new
          /\ victim # e
      BY <2>1, <2>2, <2>3, <2>10
    <3>2. \A x \in Entry : x # victim /\ dir[x].first # Null => dir[x].name # new
      BY <2>3, <3>1 DEF UniqueNames
    <3>3. \A x \in Entry : x # victim /\ dir[x].first # Null =>
            G[renamed[x].name] = filesBar[dir[x].name]
      BY <2>9, <3>2
    <3>4. ASSUME NEW n \in Names,
                 \A x \in Entry : x # victim /\ dir[x].first # Null
                                    => renamed[x].name # n
          PROVE  G[n] = Absent
      <4>1. n # new
        BY <2>1, <2>4, <3>1, <3>4
      <4>2. \A x \in Entry : x # e /\ dir[x].first # Null /\ dir[x].name # new
                               => renamed[x].name # n
        BY <3>1, <3>4
      <4> QED BY <2>8, <4>1, <4>2
    <3>5. filesBar' = G
      BY <2>4, <2>7, <2>10, <3>1, <3>3, <3>4, FreeFileBar
    <3>6. dir' = [renamed EXCEPT ![victim] = UnusedEntry]
      BY <2>10 DEF FreeFile
    <3>7. dir'[e].name = new /\ \A x \in Entry : x # e /\ InUse(x) => dir'[x].name = dir[x].name
      BY <2>1, <2>4, <2>10, <3>1, <3>6
    <3>8. openBar' = [fd \in Fd |->
            IF openBar[fd] # NoDesc /\ openBar[fd].name = dir[e].name
              THEN [openBar[fd] EXCEPT !.name = new] ELSE openBar[fd]]
      BY <2>1, <2>3, <3>7, RenameBar
    <3> QED BY <3>5, <3>8
  <2>11. ASSUME Named(new) # {} => InUse(victim), dir' = renamed,
                UNCHANGED <<freelist, next, prev, btype, data>>
         PROVE  filesBar' = G /\ openBar' = [fd \in Fd |->
           IF openBar[fd] # NoDesc /\ openBar[fd].name = dir[e].name
             THEN [openBar[fd] EXCEPT !.name = new] ELSE openBar[fd]]
    <3>1. Named(new) = {}
      BY <2>2, <2>11
    <3>2. \A x \in Entry : dir[x].first # Null => dir[x].name # new
      BY <2>6, <3>1
    <3>3. ASSUME NEW x \in Entry, renamed[x].first # Null
          PROVE  ContentsIn(next, data, renamed[x]) = G[renamed[x].name]
      <4>1. dir[x].first # Null /\ renamed[x].first = dir[x].first
            /\ renamed[x].size = dir[x].size
        BY <2>4, <3>3
      <4>2. filesBar[dir[x].name] = ContentsIn(next, data, dir[x])
        BY <4>1, FilesBar
      <4>3. ContentsIn(next, data, renamed[x]) = ContentsIn(next, data, dir[x])
        BY <4>1 DEF ContentsIn
      <4>4. G[renamed[x].name] = filesBar[dir[x].name]
        BY <2>9, <3>2, <4>1
      <4> QED BY <4>2, <4>3, <4>4
    <3>4. ASSUME NEW n \in Names, Holders(renamed, n) = {}
          PROVE  G[n] = Absent
      <4>1. \A x \in Entry : renamed[x].first # Null => renamed[x].name # n
        BY <3>4 DEF Holders
      <4>2. n # new
        BY <2>1, <2>4, <4>1
      <4> QED BY <2>4, <2>8, <4>1, <4>2
    <3>5. UniqueNames(renamed)
      BY <2>11, RInvGoodNext DEF GoodDisk
    <3>6. FilesOf(next, data, renamed) = G
      <4>1. /\ UniqueNames(renamed) /\ G = [n \in Names |-> G[n]]
            /\ \A x \in Entry : renamed[x].first # Null =>
                 ContentsIn(next, data, renamed[x]) = G[renamed[x].name]
            /\ \A n \in Names : Holders(renamed, n) = {} => G[n] = Absent
        BY <2>7, <3>3, <3>4, <3>5
      <4> QED BY ONLY <4>1, FilesFrom
    <3>7. filesBar' = G
      BY <2>11, <3>6, BarsNext
    <3>8. dir'[e].name = new /\ \A x \in Entry : x # e /\ InUse(x) => dir'[x].name = dir[x].name
      BY <2>4, <2>11
    <3>9. openBar' = [fd \in Fd |->
            IF openBar[fd] # NoDesc /\ openBar[fd].name = dir[e].name
              THEN [openBar[fd] EXCEPT !.name = new] ELSE openBar[fd]]
      BY <2>1, <2>3, <3>8, RenameBar
    <3> QED BY <3>7, <3>9
  <2>12. filesBar' = G /\ openBar' = [fd \in Fd |->
           IF openBar[fd] # NoDesc /\ openBar[fd].name = dir[e].name
             THEN [openBar[fd] EXCEPT !.name = new] ELSE openBar[fd]]
    BY <2>0, <2>10, <2>11
  <2>13. filesBar' = G /\ openBar' = [fd \in Fd |->
           IF openBar[fd] # NoDesc /\ openBar[fd].name = old
             THEN [openBar[fd] EXCEPT !.name = new] ELSE openBar[fd]]
    BY <2>1, <2>12, Zenon
  <2>14. /\ Return(0, <<>>) /\ mounted' = mounted /\ mounted
         /\ {old, new} \cap LongNames = {}
    BY <1>5, <2>0, <2>3
  <2> QED BY <2>1, <2>13, <2>14 DEF G, Store!RenameFile, Store!Answer, Return
<1> QED BY <1>1, <1>2, <1>3, <1>4, <1>5 DEF Rename

(***************************************************************************)
(* sfs_write.  What the store calls room is what the call checks for.      *)
(***************************************************************************)
LEMMA WriteRoom ==
  ASSUME RInv, NEW fd \in Fd, fds[fd] # NoDesc, NEW len \in Lens,
         NEW pos, pos = fds[fd].pos, NEW old, old = FileSize(fd),
         NEW newLen, newLen = IF pos + len > old THEN pos + len ELSE old,
         NEW extra, extra = Store!Units(newLen) - Store!Units(old)
  PROVE  /\ pos \in Nat /\ old \in Nat /\ newLen \in Nat /\ pos <= old
         /\ len \in Nat /\ AddlBlocks(fd, len) \in Nat
         /\ (extra > 0 /\ Store!Units(newLen) * BlockDataSize > MaxFileSize)
              <=> WriteTooBig(fd, len)
         /\ extra > Store!Free <=> WriteNoSpace(fd, len)
         /\ extra <= Store!Free <=> ~ WriteNoSpace(fd, len)
<1>1. PICK end, i, j, add, s : /\ end = pos + len /\ i = BlockIndex(old)
                               /\ j = BlockIndex(end) /\ add = AddlBlocks(fd, len)
                               /\ s = Size(next, freelist)
  OBVIOUS
<1>2. /\ pos \in Nat /\ old \in Nat /\ pos <= old /\ len \in Nat /\ end \in Nat
      /\ newLen \in Nat /\ i \in Nat /\ j \in Nat
  <2>1. pos \in Nat /\ old \in Nat /\ pos <= old
    BY FollowFacts DEF RInv
  <2>2. len \in Nat
    BY ClientAssumption DEF Lens
  <2>3. end \in Nat /\ newLen \in Nat
    BY <1>1, <2>1, <2>2
  <2> QED BY <1>1, <2>1, <2>2, <2>3, IndexRange
<1>3. /\ Enlarges(fd, len) => i < j /\ add = j - i
      /\ ~ Enlarges(fd, len) => j <= i /\ add = 0
  BY <1>1, <1>2, AddlBlocksIndex
<1>4. s \in Nat /\ Store!Free = s
  BY <1>1, SpaceBar
<1>5. Store!Units(old) = 1 + i
  BY <1>1, <1>2, UnitsIndex
<1>6. CASE Enlarges(fd, len)
  <2>1. newLen = end
    <3>1. ~ (end <= old)
      <4>1. end <= old => j <= i
        BY <1>1, <1>2, IndexMonotone
      <4> QED BY <1>2, <1>3, <1>6, <4>1
    <3> QED BY <1>1, <1>2, <3>1
  <2>2. Store!Units(newLen) = 1 + j
    BY <1>1, <1>2, <2>1, UnitsIndex
  <2>3. extra = add /\ add \in Nat /\ add > 0
    BY <1>2, <1>3, <1>5, <1>6, <2>2
  <2>4. Store!Units(newLen) * BlockDataSize = RoundUp(end)
    <3>1. BlockDataSize \in Nat
      BY GeometryAssumption
    <3>2. (1 + j) * BlockDataSize = BlockDataSize * (j + 1)
      BY <1>2, <3>1
    <3> QED BY <1>1, <1>2, <2>2, <3>2, RoundUpIndex, Multiples
  <2>5. WriteTooBig(fd, len) <=> RoundUp(end) > MaxFileSize
    BY <1>1, <1>6 DEF WriteTooBig, EndPos
  <2>6. WriteNoSpace(fd, len) <=> add > s
    <3>1. freelist = Null => s = 0
      BY <1>1, NullChain, FS_EmptySet DEF Size
    <3>2. CanAllocate(next, freelist, add) <=> freelist # Null /\ s >= add
      BY <1>1, <2>3 DEF CanAllocate, Size
    <3>3. CanAllocate(next, freelist, add) <=> ~ (add > s)
      BY <1>4, <2>3, <3>1, <3>2
    <3> QED BY <1>1, <1>6, <3>3 DEF WriteNoSpace
  <2> QED BY <1>1, <1>2, <1>4, <2>3, <2>4, <2>5, <2>6
<1>7. CASE ~ Enlarges(fd, len)
  <2>1. ~ WriteTooBig(fd, len) /\ ~ WriteNoSpace(fd, len)
    BY <1>7 DEF WriteTooBig, WriteNoSpace
  <2>2. BlockIndex(newLen) = i
    <3>1. CASE end > old
      <4>1. i <= j
        BY <1>1, <1>2, <3>1, IndexMonotone
      <4> QED BY <1>1, <1>2, <1>3, <1>7, <3>1, <4>1
    <3>2. CASE ~ (end > old)
      BY <1>1, <3>2
    <3> QED BY <3>1, <3>2
  <2>3. Store!Units(newLen) = 1 + i
    BY <1>2, <2>2, UnitsIndex
  <2>4. extra = 0 /\ add = 0
    BY <1>2, <1>3, <1>5, <1>7, <2>3
  <2> QED BY <1>1, <1>2, <1>4, <2>1, <2>4
<1> QED BY <1>6, <1>7

(***************************************************************************)
(* Two bytes of a file lie in different places.                            *)
(***************************************************************************)
LEMMA PlacesDiffer ==
  ASSUME NEW nx \in NextFunction, NextInjective(nx), NEW b, Root(nx, b),
         NEW j \in Nat \ {0}, NEW k \in Nat \ {0},
         (j - 1) \div BlockDataSize \in 0 .. Size(nx, b) - 1,
         (k - 1) \div BlockDataSize \in 0 .. Size(nx, b) - 1,
         Spine(nx, b)[(j - 1) \div BlockDataSize]
           = Spine(nx, b)[(k - 1) \div BlockDataSize],
         (j - 1) % BlockDataSize = (k - 1) % BlockDataSize
  PROVE  j = k
<1>1. PICK q, r, s, x, y : /\ q = (j - 1) \div BlockDataSize
                           /\ r = (k - 1) \div BlockDataSize
                           /\ s = Size(nx, b) /\ x = j - 1 /\ y = k - 1
  OBVIOUS
<1>2. s \in Nat /\ s - q = s - r /\ q \in Nat /\ r \in Nat
  BY <1>1, SpineFacts
<1>3. q = r
  BY <1>2
<1>4. x \in Nat /\ y \in Nat
  BY <1>1
<1>5. /\ x = BlockDataSize * q + (x % BlockDataSize)
      /\ y = BlockDataSize * r + (y % BlockDataSize)
  BY <1>1, <1>4, Division
<1>6. x = y
  BY <1>1, <1>3, <1>5
<1> QED BY <1>1, <1>6

\* A copy of n bytes at pos stores v in bytes pos + 1 .. pos + n of the file,
\* and leaves every other byte of the disk as it was.
LEMMA CopiedBytes ==
  ASSUME NEW nx \in NextFunction, NextInjective(nx), NEW b, Root(nx, b),
         NEW pos \in Nat, NEW n \in Nat, NEW c \in Chain(nx, b),
         Hops(nx, b, c) = BlockIndex(pos),
         NEW hops, hops = HopsFor(pos, n),
         NEW path \in Paths(nx, c, hops), NEW v, NEW dt2,
         dt2 = DataAfterCopy(path, hops, pos, n, v), data \in DataFunction
  PROVE  /\ \A x \in Block : x \notin Chain(nx, b) => dt2[x] = data[x]
         /\ \A k \in Nat \ {0} :
              (k - 1) \div BlockDataSize \in 0 .. Size(nx, b) - 1 =>
                dt2[Spine(nx, b)[(k - 1) \div BlockDataSize]][(k - 1) % BlockDataSize]
                = IF k \in pos + 1 .. pos + n THEN v
                  ELSE data[Spine(nx, b)[(k - 1) \div BlockDataSize]]
                           [(k - 1) % BlockDataSize]
<1> DEFINE copied == {<<path[HopOf(pos, n, k)], OffsetOf(pos, n, k)>>
                        : k \in {i \in 0 .. n - 1 : HopOf(pos, n, i) <= hops}}
           Place(k) == <<Spine(nx, b)[(k - 1) \div BlockDataSize],
                         (k - 1) % BlockDataSize>>
           Held(k) == (k - 1) \div BlockDataSize \in 0 .. Size(nx, b) - 1
<1>1. dt2 = [x \in Block |-> [o \in Offset |->
               IF <<x, o>> \in copied THEN v ELSE data[x][o]]]
  BY DEF DataAfterCopy
<1>2. ASSUME NEW k \in 1 .. n, NEW j, j = pos + k
      PROVE  /\ HopOf(pos, n, k - 1) <= hops
             /\ <<path[HopOf(pos, n, k - 1)], OffsetOf(pos, n, k - 1)>> = Place(j)
             /\ Held(j) /\ j \in Nat \ {0}
  <2>1. PICK h : h = HopOf(pos, n, k - 1)
    OBVIOUS
  <2>2. /\ h \in 0 .. hops
        /\ path[h] = Spine(nx, b)[(j - 1) \div BlockDataSize]
        /\ OffsetOf(pos, n, k - 1) = (j - 1) % BlockDataSize
        /\ (j - 1) \div BlockDataSize = BlockIndex(j)
    BY <1>2, <2>1, TransferAlongFile
  <2>3. j \in Nat \ {0}
    BY <1>2
  <2>4. Held(j)
    <3>1. hops \in Nat
      BY TransferInBounds
    <3>2. h = BlockIndex(j) - BlockIndex(pos)
      BY <1>2, <2>1, BytePlace
    <3>3. Hops(nx, b, c) + h \in 0 .. Size(nx, b) - 1
      BY <2>2, <3>1, PathAlongSpine
    <3>4. BlockIndex(j) \in Nat /\ BlockIndex(pos) \in Nat
      BY <2>3, IndexRange
    <3>5. Hops(nx, b, c) + h = BlockIndex(j)
      BY <2>2, <3>2, <3>4
    <3> QED BY <2>2, <3>3, <3>5
  <2>5. h <= hops
    BY <2>2, TransferInBounds
  <2> QED BY <2>1, <2>2, <2>3, <2>4, <2>5
<1>3. ASSUME NEW k \in pos + 1 .. pos + n PROVE Place(k) \in copied
  <2>1. PICK i, m : i = k - pos /\ m = k - pos - 1
    OBVIOUS
  <2>2. i \in 1 .. n /\ k = pos + i /\ m = i - 1 /\ m \in 0 .. n - 1
    BY <2>1
  <2>3. /\ HopOf(pos, n, m) <= hops
        /\ <<path[HopOf(pos, n, m)], OffsetOf(pos, n, m)>> = Place(k)
    BY <1>2, <2>2
  <2> HIDE DEF Place
  <2> QED BY <2>2, <2>3
<1>4. ASSUME NEW y \in copied
      PROVE  \E j \in pos + 1 .. pos + n : y = Place(j) /\ Held(j) /\ j \in Nat \ {0}
  <2>1. PICK m \in 0 .. n - 1 : y = <<path[HopOf(pos, n, m)], OffsetOf(pos, n, m)>>
    BY <1>4
  <2>2. PICK i, j : i = m + 1 /\ j = pos + (m + 1)
    OBVIOUS
  <2>3. i \in 1 .. n /\ m = i - 1 /\ j = pos + i /\ j \in pos + 1 .. pos + n
    BY <2>1, <2>2
  <2>4. y = Place(j) /\ Held(j) /\ j \in Nat \ {0}
    BY <1>2, <2>1, <2>3
  <2> QED BY <2>3, <2>4
<1> HIDE DEF copied
<1>5. ASSUME NEW x \in Block, x \notin Chain(nx, b) PROVE dt2[x] = data[x]
  <2>1. ASSUME NEW o \in Offset PROVE <<x, o>> \notin copied
    <3>1. SUFFICES ASSUME <<x, o>> \in copied PROVE FALSE
      OBVIOUS
    <3>2. PICK j \in pos + 1 .. pos + n : <<x, o>> = Place(j) /\ Held(j)
      BY <1>4, <3>1
    <3>3. x = Spine(nx, b)[(j - 1) \div BlockDataSize]
      BY <3>2
    <3>4. x \in Chain(nx, b)
      BY <3>2, <3>3, SpineFacts
    <3> QED BY <1>5, <3>4
  <2>2. dt2[x] = [o \in Offset |-> data[x][o]]
    BY <1>1, <2>1
  <2>3. data[x] \in [Offset -> Bytes]
    BY DEF DataFunction
  <2> QED BY <2>2, <2>3
<1>6. ASSUME NEW k \in Nat \ {0}, Held(k)
      PROVE  dt2[Spine(nx, b)[(k - 1) \div BlockDataSize]][(k - 1) % BlockDataSize]
             = IF k \in pos + 1 .. pos + n THEN v
               ELSE data[Spine(nx, b)[(k - 1) \div BlockDataSize]]
                        [(k - 1) % BlockDataSize]
  <2>1. PICK x, o : /\ x = Spine(nx, b)[(k - 1) \div BlockDataSize]
                    /\ o = (k - 1) % BlockDataSize
    OBVIOUS
  <2>2. x \in Block /\ o \in Offset /\ Place(k) = <<x, o>>
    <3>1. x \in Chain(nx, b) /\ Chain(nx, b) \subseteq Block
      BY <1>6, <2>1, SpineFacts DEF Chain
    <3>2. k - 1 \in Nat
      OBVIOUS
    <3> QED BY <2>1, <3>1, <3>2, Division
  <2>3. <<x, o>> \in copied <=> k \in pos + 1 .. pos + n
    <3>1. ASSUME <<x, o>> \in copied PROVE k \in pos + 1 .. pos + n
      <4>1. PICK j \in pos + 1 .. pos + n :
              <<x, o>> = Place(j) /\ Held(j) /\ j \in Nat \ {0}
        BY <1>4, <3>1
      <4>2. /\ Spine(nx, b)[(j - 1) \div BlockDataSize]
                 = Spine(nx, b)[(k - 1) \div BlockDataSize]
            /\ (j - 1) % BlockDataSize = (k - 1) % BlockDataSize
        BY <2>1, <4>1
      <4>3. j = k
        BY <1>6, <4>1, <4>2, PlacesDiffer
      <4> QED BY <4>3
    <3>2. k \in pos + 1 .. pos + n => <<x, o>> \in copied
      BY <1>3, <2>2
    <3> QED BY <3>1, <3>2
  <2>4. dt2[x][o] = IF <<x, o>> \in copied THEN v ELSE data[x][o]
    BY <1>1, <2>2
  <2> QED BY <2>1, <2>3, <2>4
<1> QED BY <1>5, <1>6

\* The links inside every file are the same along both.
LinksKept(nx, nx2) ==
  \A x \in Entry : dir[x].first # Null => Keeps(nx, nx2, Chain(nx, dir[x].first))

\* What a write that gets past its checks does: it reaches its end, and the
\* links inside the files stay.
LEMMA WriteHappens ==
  ASSUME RInv, RInv', NEW fd \in Fd, fds[fd] # NoDesc, NEW len \in Lens,
         NEW v \in Bytes, WriteData(fd, len, v), AddlBlocks(fd, len) \in Nat
  PROVE  /\ \E path \in Paths(next', fds[fd].curr, HopsFor(fds[fd].pos, len)) :
              WriteComplete(fd, len, v, path, HopsFor(fds[fd].pos, len))
         /\ LinksKept(next, next') /\ mounted' = mounted
<1>1. PICK nx, fr, run, nx1, pv1, tail, nx2 :
        WriteLists(fd, len, v, nx, fr, run, nx1, pv1, tail, nx2)
  BY WriteByName DEF RInv
<1>2. /\ nx = next /\ fr = freelist /\ nx2 = next' /\ mounted' = mounted
      /\ run = AllocatedRun(nx, fr, AddlBlocks(fd, len))
      /\ nx1 = NextAfterAllocate(nx, run)
      /\ tail = CHOOSE c \in EndsOf(nx1, fds[fd].curr) : TRUE
      /\ nx2 = IF Attaches(fd, len, nx1, run) THEN [nx1 EXCEPT ![tail] = fr] ELSE nx1
      /\ \/ \E path \in Paths(nx2, fds[fd].curr, HopsFor(fds[fd].pos, len)) :
              WriteComplete(fd, len, v, path, HopsFor(fds[fd].pos, len))
         \/ WriteAborts(fd, len, v, nx2, HopsFor(fds[fd].pos, len))
  BY <1>1, Zenon DEF WriteLists
<1>3. ~ WriteAborts(fd, len, v, nx2, HopsFor(fds[fd].pos, len))
  <2>1. status' = "running"
    BY DEF RInv, CInv
  <2> QED BY <2>1 DEF WriteAborts, Abort
<1>4. GoodDisk(nx, fr, dir)
  BY <1>2, RInvGood
<1>5. \A c \in Block : c \notin Chain(nx, fr) => nx1[c] = nx[c]
  <2>1. /\ nx \in NextFunction /\ NextInjective(nx) /\ fr \in BlockId
        /\ NoPredecessor(nx, fr)
    BY <1>4 DEF GoodDisk
  <2>2. PICK add \in Nat : add = AddlBlocks(fd, len)
    OBVIOUS
  <2>3. run = AllocatedRun(nx, fr, add) /\ nx1 = NextAfterAllocate(nx, run)
    BY <1>2, <2>2
  <2> QED BY <2>1, <2>3, AllocateKeeps
<1>6. ASSUME NEW x \in Entry, dir[x].first # Null, NEW c \in Chain(nx, dir[x].first),
             nx[c] # Null
      PROVE  nx2[c] = nx[c]
  <2>1. c \notin Chain(nx, fr) /\ c \in Block
    <3>1. Chain(nx, dir[x].first) \subseteq Block
      BY DEF Chain
    <3> QED BY <1>4, <1>6, <3>1 DEF GoodDisk
  <2>2. nx1[c] = nx[c]
    BY <1>5, <2>1
  <2>3. CASE Attaches(fd, len, nx1, run)
    <3>1. EndsOf(nx1, fds[fd].curr) # {}
      BY <2>3 DEF Attaches
    <3>2. tail \in EndsOf(nx1, fds[fd].curr)
      BY <1>2, <3>1
    <3>3. nx1[tail] = Null
      BY <3>2 DEF EndsOf
    <3>4. c # tail
      BY <1>6, <2>2, <3>3
    <3>5. DOMAIN nx1 = Block
      BY <1>2 DEF NextAfterAllocate
    <3> QED BY <1>2, <2>1, <2>2, <2>3, <3>4, <3>5
  <2>4. CASE ~ Attaches(fd, len, nx1, run)
    BY <1>2, <2>2, <2>4
  <2> QED BY <2>3, <2>4
<1>7. ASSUME NEW x \in Entry, dir[x].first # Null
      PROVE  Keeps(nx, nx2, Chain(nx, dir[x].first))
  BY <1>6, <1>7 DEF Keeps
<1>8. LinksKept(next, next')
  BY <1>2, <1>7 DEF LinksKept
<1> QED BY <1>2, <1>3, <1>8

\* Blocks of a file that keep their links stay blocks of the file.
LEMMA ChainKept ==
  ASSUME NEW nx \in NextFunction, NextInjective(nx), NEW b, Root(nx, b),
         NEW nx2 \in NextFunction, NextInjective(nx2), Root(nx2, b),
         Keeps(nx, nx2, Chain(nx, b)), NEW c \in Chain(nx, b),
         Hops(nx, b, c) < Size(nx2, b)
  PROVE  c \in Chain(nx2, b) /\ Hops(nx2, b, c) = Hops(nx, b, c)
<1>1. PICK h, s, s2 : h = Hops(nx, b, c) /\ s = Size(nx, b) /\ s2 = Size(nx2, b)
  OBVIOUS
<1>2. /\ s \in Nat /\ s2 \in Nat /\ h = s - Size(nx, c)
      /\ h \in 0 .. s - 1 /\ h \in 0 .. s2 - 1 /\ c = Spine(nx, b)[h]
  <2>1. /\ s \in Nat /\ s2 \in Nat /\ Size(nx, c) \in 1 .. s
        /\ c = Spine(nx, b)[s - Size(nx, c)]
    BY <1>1, SpineFacts
  <2>2. h = s - Size(nx, c)
    BY <1>1 DEF Hops, Size
  <2> QED BY <1>1, <2>1, <2>2
<1>3. c = Spine(nx2, b)[h]
  BY <1>1, <1>2, SpineKeeps
<1>4. c \in Chain(nx2, b) /\ Size(nx2, c) = s2 - h
  BY <1>1, <1>2, <1>3, SpineFacts
<1>5. Hops(nx2, b, c) = s2 - Size(nx2, c)
  BY <1>1 DEF Hops, Size
<1>6. s2 - (s2 - h) = h
  BY <1>2
<1> QED BY <1>1, <1>4, <1>5, <1>6

\* What v over len bytes makes of the bytes of a file.
Overwritten(old, newLen, pos, len, v) ==
  [k \in 1 .. newLen |-> IF k \in pos + 1 .. pos + len THEN v ELSE old[k]]

\* The size of a file after a write that ends at end.
GrownTo(end, size) == IF end > size THEN end ELSE size

\* A write of v at pos, over the bytes old, that gets to its end.
Written(fd, len, v, path, pos, old, newLen, name, written) ==
  /\ fds[fd] # NoDesc /\ pos = fds[fd].pos /\ name = openBar[fd].name
  /\ path \in Paths(next', fds[fd].curr, HopsFor(fds[fd].pos, len))
  /\ WriteComplete(fd, len, v, path, HopsFor(fds[fd].pos, len))
  /\ LinksKept(next, next')
  /\ old = Store!Contents(fd)
  /\ newLen = GrownTo(pos + len, Len(old))
  /\ written = Overwritten(old, newLen, pos, len, v)

LEMMA WriteFilesBar ==
  ASSUME RInv, RInv', NEW fd \in Fd, NEW len \in Lens, NEW v, NEW path, NEW pos,
         NEW old, NEW newLen, NEW name, NEW written,
         Written(fd, len, v, path, pos, old, newLen, name, written)
  PROVE  filesBar' = [filesBar EXCEPT ![name] = written]
         /\ \A x \in Entry : dir'[x].name = dir[x].name
<1>0. /\ fds[fd] # NoDesc /\ pos = fds[fd].pos /\ name = openBar[fd].name
      /\ path \in Paths(next', fds[fd].curr, HopsFor(fds[fd].pos, len))
      /\ WriteComplete(fd, len, v, path, HopsFor(fds[fd].pos, len))
      /\ LinksKept(next, next')
      /\ old = Store!Contents(fd)
      /\ newLen = GrownTo(pos + len, Len(old))
      /\ written = Overwritten(old, newLen, pos, len, v)
  BY DEF Written
<1>1. PICK e, b, f, nx, nx2, dt, dt2, dr, dr2, fr, fr2, hops, curr :
        /\ e = fds[fd].entry /\ b = dir[e].first /\ f = dir[e]
        /\ nx = next /\ nx2 = next' /\ dt = data /\ dt2 = data'
        /\ dr = dir /\ dr2 = dir' /\ fr = freelist /\ fr2 = freelist'
        /\ hops = HopsFor(pos, len) /\ curr = fds[fd].curr
  OBVIOUS
<1>2. /\ e \in Entry /\ b # Null /\ b \in Block /\ b \in BlockId
      /\ pos \in Nat /\ f.size \in Nat /\ pos <= f.size /\ len \in Nat
      /\ FileSize(fd) = f.size /\ EndPos(fd, len) = pos + len
      /\ curr \in Chain(nx, b) /\ Hops(nx, b, curr) = BlockIndex(pos)
  <2>1. /\ e \in Entry /\ b # Null /\ b \in Block /\ pos \in Nat /\ f.size \in Nat
        /\ pos <= f.size /\ FileSize(fd) = f.size
    BY <1>0, <1>1, FollowFacts DEF RInv
  <2>2. len \in Nat /\ EndPos(fd, len) = pos + len
    BY <1>0, ClientAssumption DEF Lens, EndPos
  <2>3. curr \in Chain(nx, b) /\ Hops(nx, b, curr) = BlockIndex(pos)
    BY <1>0, <1>1, RInvGood DEF Follows
  <2> QED BY <2>1, <2>2, <2>3, BlockFacts
<1>3. /\ old = ContentsIn(nx, dt, f) /\ Len(old) = f.size /\ name = f.name
  BY <1>0, <1>1, DescContents, OpenBar
<1>4. /\ newLen = IF pos + len > f.size THEN pos + len ELSE f.size
      /\ newLen \in Nat /\ f.size <= newLen /\ pos <= newLen
  BY <1>0, <1>2, <1>3 DEF GrownTo
<1>5. /\ GoodDisk(nx, fr, dr) /\ GoodDisk(nx2, fr2, dr2)
      /\ dt \in DataFunction /\ dt2 \in DataFunction
  BY <1>1, RInvGood, RInvGoodNext
<1>6. /\ nx \in NextFunction /\ NextInjective(nx)
      /\ nx2 \in NextFunction /\ NextInjective(nx2)
      /\ dr \in [Entry -> DirEntry] /\ UniqueNames(dr2) /\ FileIn(nx, f)
      /\ name \in Names
  BY <1>1, <1>2, <1>3, <1>5 DEF GoodDisk
<1>7. /\ dr2[e].first = b /\ dr2[e].size = newLen /\ dr2[e].name = name
      /\ \A x \in Entry : x # e => dr2[x] = dr[x]
  <2>0. status' # "aborted"
    BY DEF RInv, CInv
  <2>1. dr2 = IF pos + len > f.size THEN [dr EXCEPT ![e].size = pos + len] ELSE dr
    BY <1>0, <1>1, <1>2, <2>0 DEF WriteComplete, Abort
  <2>2. CASE pos + len > f.size
    <3>1. dr2 = [dr EXCEPT ![e].size = newLen]
      BY <1>4, <2>1, <2>2
    <3>2. dr[e].first = b /\ dr[e].name = name
      BY <1>1, <1>3
    <3> QED BY <1>2, <1>4, <1>6, <3>1, <3>2 DEF DirEntry
  <2>3. CASE ~ (pos + len > f.size)
    <3>1. dr2 = dr /\ newLen = f.size
      BY <1>4, <2>1, <2>3
    <3> QED BY <1>1, <1>3, <3>1
  <2> QED BY <2>2, <2>3
<1>8. FileIn(nx2, dr2[e]) /\ Root(nx, b) /\ Root(nx2, b)
      /\ Size(nx2, b) = 1 + BlockIndex(newLen)
  <2>1. FileIn(nx2, dr2[e])
    BY <1>2, <1>5, <1>7 DEF GoodDisk
  <2> QED BY <1>1, <1>6, <1>7, <2>1 DEF FileIn
<1>9. curr \in Chain(nx2, b) /\ Hops(nx2, b, curr) = BlockIndex(pos)
  <2>1. /\ BlockIndex(pos) <= BlockIndex(newLen) /\ BlockIndex(pos) \in Nat
        /\ BlockIndex(newLen) \in Nat
    BY <1>2, <1>4, IndexMonotone, IndexRange
  <2>2. Hops(nx, b, curr) < Size(nx2, b)
    BY <1>2, <1>8, <2>1
  <2>3. Keeps(nx, nx2, Chain(nx, b))
    BY <1>0, <1>1, <1>2 DEF LinksKept
  <2> QED BY <1>2, <1>6, <1>8, <2>2, <2>3, ChainKept
<1>10. /\ \A x \in Block : x \notin Chain(nx2, b) => dt2[x] = dt[x]
       /\ \A k \in Nat \ {0} :
            (k - 1) \div BlockDataSize \in 0 .. Size(nx2, b) - 1 =>
              dt2[Spine(nx2, b)[(k - 1) \div BlockDataSize]][(k - 1) % BlockDataSize]
              = IF k \in pos + 1 .. pos + len THEN v
                ELSE dt[Spine(nx2, b)[(k - 1) \div BlockDataSize]]
                       [(k - 1) % BlockDataSize]
  <2>1. path \in Paths(nx2, curr, hops) /\ dt2 = DataAfterCopy(path, hops, pos, len, v)
    BY <1>0, <1>1 DEF WriteComplete
  <2>2. /\ nx2 \in NextFunction /\ NextInjective(nx2) /\ Root(nx2, b)
        /\ pos \in Nat /\ len \in Nat /\ curr \in Chain(nx2, b)
        /\ Hops(nx2, b, curr) = BlockIndex(pos) /\ hops = HopsFor(pos, len)
        /\ data = dt /\ data \in DataFunction
    BY <1>1, <1>2, <1>5, <1>6, <1>8, <1>9
  <2> QED BY ONLY <2>1, <2>2, CopiedBytes
<1>11. ContentsIn(nx2, dt2, dr2[e]) = written
  <2>1. ASSUME NEW k \in 1 .. newLen
        PROVE  dt2[Spine(nx2, b)[(k - 1) \div BlockDataSize]][(k - 1) % BlockDataSize]
               = IF k \in pos + 1 .. pos + len THEN v ELSE old[k]
    <3>1. PICK i, o : /\ i = (k - 1) \div BlockDataSize
                      /\ o = (k - 1) % BlockDataSize
      OBVIOUS
    <3>2. i \in 0 .. Size(nx2, b) - 1 /\ k \in Nat \ {0}
      <4>1. k \in 1 .. dr2[e].size
        BY <1>7
      <4>2. (k - 1) \div BlockDataSize \in 0 .. Size(nx2, dr2[e].first) - 1
        BY <1>6, <1>8, <4>1, ByteBlock
      <4> QED BY <1>4, <1>7, <3>1, <4>2
    <3>3. dt2[Spine(nx2, b)[i]][o]
          = IF k \in pos + 1 .. pos + len THEN v ELSE dt[Spine(nx2, b)[i]][o]
      BY <1>10, <3>1, <3>2
    <3>4. ASSUME k \notin pos + 1 .. pos + len
          PROVE  dt[Spine(nx2, b)[i]][o] = old[k]
      <4>1. k \in 1 .. f.size
        BY <1>2, <1>4, <3>4
      <4>2. i \in 0 .. Size(nx, b) - 1 /\ old[k] = dt[Spine(nx, b)[i]][o]
        <5>1. /\ nx \in NextFunction /\ NextInjective(nx) /\ FileIn(nx, f)
              /\ dt \in DataFunction /\ old = ContentsIn(nx, dt, f) /\ b = f.first
          BY <1>1, <1>3, <1>5, <1>6
        <5>2. (k - 1) \div BlockDataSize \in 0 .. Size(nx, f.first) - 1
          BY ONLY <4>1, <5>1, ByteBlock
        <5>3. old[k] = dt[Spine(nx, f.first)[(k - 1) \div BlockDataSize]]
                         [(k - 1) % BlockDataSize]
          BY ONLY <4>1, <5>1, ContentsTyped
        <5> QED BY <3>1, <5>1, <5>2, <5>3
      <4>3. Keeps(nx, nx2, Chain(nx, b))
        BY <1>0, <1>1, <1>2 DEF LinksKept
      <4>4. Spine(nx2, b)[i] = Spine(nx, b)[i]
        BY <1>6, <1>8, <4>2, <4>3, SpineKeeps
      <4> QED BY <4>2, <4>4
    <3> QED BY <3>1, <3>3, <3>4
  <2>2. ContentsIn(nx2, dt2, dr2[e])
        = [k \in 1 .. newLen |->
             dt2[Spine(nx2, b)[(k - 1) \div BlockDataSize]][(k - 1) % BlockDataSize]]
    BY <1>7 DEF ContentsIn
  <2> QED BY <1>0, <2>1, <2>2 DEF Overwritten
<1> DEFINE G == [filesBar EXCEPT ![name] = written]
<1>12. filesBar = FilesOf(nx, dt, dr) /\ DOMAIN filesBar = Names
  BY <1>1, Bars DEF filesBar
<1>13. ASSUME NEW x \in Entry, dr2[x].first # Null
       PROVE  ContentsIn(nx2, dt2, dr2[x]) = G[dr2[x].name]
  <2>1. CASE x = e
    BY <1>6, <1>7, <1>11, <1>12, <2>1
  <2>2. CASE x # e
    <3>1. dr2[x] = dr[x] /\ dr[x].first # Null /\ dr[x].name # name
          /\ dr[x].name \in Names
      <4>1. dr2[x] = dr[x] /\ dr[x].first # Null
        BY <1>7, <1>13, <2>2
      <4>2. dr[x].name # name
        BY <1>1, <1>2, <1>3, <1>5, <2>2, <4>1 DEF GoodDisk, UniqueNames
      <4> QED BY <1>5, <4>1, <4>2 DEF GoodDisk
    <3>2. /\ FileIn(nx, dr[x]) /\ FileIn(nx2, dr[x])
          /\ Chain(nx2, dr[x].first) \cap Chain(nx2, b) = {}
      <4>1. FileIn(nx, dr[x])
        BY <1>5, <3>1 DEF GoodDisk
      <4>2. FileIn(nx2, dr2[x])
        BY <1>5, <1>13 DEF GoodDisk
      <4>3. Chain(nx2, dr2[x].first) \cap Chain(nx2, dr2[e].first) = {}
        BY <1>2, <1>5, <2>2 DEF GoodDisk
      <4> QED BY <1>7, <3>1, <4>1, <4>2, <4>3
    <3>3. Keeps(nx, nx2, Chain(nx, dr[x].first))
      BY <1>0, <1>1, <3>1 DEF LinksKept
    <3>4. ASSUME NEW c \in Chain(nx, dr[x].first) PROVE dt2[c] = dt[c]
      <4>1. /\ Root(nx, dr[x].first) /\ Root(nx2, dr[x].first)
            /\ Size(nx, dr[x].first) = Size(nx2, dr[x].first)
        BY <3>2 DEF FileIn
      <4>2. Hops(nx, dr[x].first, c) < Size(nx2, dr[x].first)
        <5>1. /\ Size(nx, dr[x].first) \in Nat
              /\ Size(nx, c) \in 1 .. Size(nx, dr[x].first)
          BY <1>6, <4>1, SpineFacts
        <5>2. Hops(nx, dr[x].first, c) = Size(nx, dr[x].first) - Size(nx, c)
          BY DEF Hops, Size
        <5> QED BY <4>1, <5>1, <5>2
      <4>3. c \in Chain(nx2, dr[x].first)
        BY <1>6, <3>3, <4>1, <4>2, ChainKept
      <4>4. c \in Block /\ c \notin Chain(nx2, b)
        BY <3>2, <4>3 DEF Chain
      <4> QED BY <1>10, <4>4
    <3>5. ContentsIn(nx2, dt2, dr2[x]) = FilesOf(nx, dt, dr)[dr[x].name]
      <4>1. Intact(nx, nx2, dt, dt2, Chain(nx, dr[x].first))
        BY <3>3, <3>4 DEF Intact, Keeps
      <4>2. /\ GoodDisk(nx, fr, dr) /\ dr[x].first # Null
            /\ dr2[x].first = dr[x].first /\ dr2[x].size = dr[x].size
        BY <1>5, <3>1
      <4>3. x \in Entry
        OBVIOUS
      <4> QED BY ONLY <4>1, <4>2, <4>3, OtherFiles
    <3> QED BY <1>12, <3>1, <3>5
  <2> QED BY <2>1, <2>2
<1>14. ASSUME NEW n \in Names, Holders(dr2, n) = {}
       PROVE  G[n] = Absent
  <2>1. n # name
    BY <1>2, <1>7, <1>14 DEF Holders
  <2>2. Holders(dr, n) = {}
    <3>1. \A x \in Entry : dr[x].first # Null /\ dr[x].name = n =>
            dr2[x].first # Null /\ dr2[x].name = n
      BY <1>1, <1>2, <1>3, <1>7
    <3> QED BY <1>14, <3>1 DEF Holders
  <2>3. filesBar[n] = Absent
    BY <1>12, <2>2 DEF FilesOf
  <2> QED BY <1>12, <2>1, <2>3
<1>15. FilesOf(nx2, dt2, dr2) = G
  <2>1. G = [n \in Names |-> G[n]]
    BY <1>12
  <2> HIDE DEF G
  <2>2. /\ UniqueNames(dr2) /\ G = [n \in Names |-> G[n]]
        /\ \A x \in Entry : dr2[x].first # Null =>
             ContentsIn(nx2, dt2, dr2[x]) = G[dr2[x].name]
        /\ \A n \in Names : Holders(dr2, n) = {} => G[n] = Absent
    BY <1>6, <1>13, <1>14, <2>1
  <2> QED BY ONLY <2>2, FilesFrom
<1>16. filesBar' = G
  BY <1>1, <1>15, BarsNext
<1>17. \A x \in Entry : dir'[x].name = dir[x].name
  BY <1>1, <1>3, <1>7
<1> QED BY <1>16, <1>17

LEMMA WriteImplements ==
  ASSUME RInv, RInv', NEW fd \in Fd, NEW len \in Lens, NEW v \in Bytes,
         Write(fd, len, v)
  PROVE  Store!WriteFile(fd, len, v)
<1>1. CASE BadFd(fd)
  BY <1>1, BadFdRefuses DEF Store!WriteFile
<1>2. CASE fds[fd] # NoDesc
  <2> DEFINE pos     == openBar[fd].pos
             name    == openBar[fd].name
             old     == Store!Contents(fd)
             newLen  == IF pos + len > Len(old) THEN pos + len ELSE Len(old)
             extra   == Store!Units(newLen) - Store!Units(Len(old))
             tooBig  == extra > 0 /\ Store!Units(newLen) * BlockDataSize > MaxFileSize
             written == Overwritten(old, newLen, pos, len, v)
  <2>1. openBar[fd] # NoDesc /\ pos = fds[fd].pos /\ Len(old) = FileSize(fd)
    BY <1>2, OpenBar, DescContents DEF FileSize
  <2> HIDE DEF pos, old
  <2>2. /\ pos \in Nat /\ FileSize(fd) \in Nat /\ pos <= FileSize(fd)
        /\ AddlBlocks(fd, len) \in Nat /\ len \in Nat
        /\ tooBig <=> WriteTooBig(fd, len)
        /\ extra > Store!Free <=> WriteNoSpace(fd, len)
        /\ extra <= Store!Free <=> ~ WriteNoSpace(fd, len)
    BY <1>2, <2>1, WriteRoom
  <2>3. Mapped(fd) /\ ~ (fds[fd].pos > FileSize(fd))
    BY <1>2, <2>1, <2>2, OpenFileMapped DEF RInv
  <2> HIDE DEF newLen, extra, tooBig, written, name
  <2>4. CASE WriteTooBig(fd, len) /\ FailUnchanged("EFBIG")
    <3>1. tooBig /\ Store!RefuseOnly("EFBIG")
      BY <2>2, <2>4, FailRefuses
    <3> QED BY <2>1, <3>1 DEF Store!WriteFile, pos, old, newLen, extra, tooBig
  <2>5. CASE /\ ~ WriteTooBig(fd, len) /\ WriteNoSpace(fd, len)
             /\ FailUnchanged("ENOSPC")
    <3>1. ~ tooBig /\ extra > Store!Free /\ Store!RefuseOnly("ENOSPC")
      BY <2>2, <2>5, FailRefuses
    <3> QED BY <2>1, <3>1 DEF Store!WriteFile, pos, old, newLen, extra, tooBig
  <2>6. CASE /\ ~ WriteTooBig(fd, len) /\ ~ WriteNoSpace(fd, len)
             /\ WriteData(fd, len, v)
    <3>1. PICK path \in Paths(next', fds[fd].curr, HopsFor(fds[fd].pos, len)) :
            WriteComplete(fd, len, v, path, HopsFor(fds[fd].pos, len))
      BY <1>2, <2>2, <2>6, WriteHappens
    <3>2. mounted' = mounted /\ LinksKept(next, next')
      BY <1>2, <2>2, <2>6, WriteHappens
    <3>3. /\ filesBar' = [filesBar EXCEPT ![name] = written]
          /\ \A x \in Entry : dir'[x].name = dir[x].name
      <4>1. Written(fd, len, v, path, pos, old, newLen, name, written)
        BY <1>2, <2>1, <3>1, <3>2 DEF Written, old, newLen, name, written, GrownTo
      <4> QED BY <4>1, WriteFilesBar
    <3>4. openBar' = [openBar EXCEPT ![fd].pos = pos + len]
      <4>1. PICK hops, c : hops = HopsFor(fds[fd].pos, len) /\ c = path[hops]
        OBVIOUS
      <4>2. c \in Block
        <5>1. hops \in Nat
          BY <2>1, <2>2, <4>1, TransferInBounds
        <5> QED BY <3>1, <4>1, <5>1, PathEnd
      <4>3. fds' = [fds EXCEPT ![fd].pos = pos + len, ![fd].curr = c]
        BY <2>1, <3>1, <4>1 DEF WriteComplete, EndPos
      <4>4. pos + len \in Nat
        BY <2>2
      <4> QED BY <1>2, <3>3, <4>2, <4>3, <4>4, MoveBar
    <3>5. Store!Answer(len, <<>>)
      <4>1. status' # "aborted"
        BY DEF RInv, CInv
      <4> QED BY <3>1, <4>1 DEF WriteComplete, Abort, Return, Store!Answer
    <3>6. ~ tooBig /\ extra <= Store!Free
      BY <2>2, <2>6
    <3> QED BY <2>1, <3>2, <3>3, <3>4, <3>5, <3>6
            DEF Store!WriteFile, pos, name, old, newLen, extra, tooBig, written,
                Overwritten
  <2>7. ~ GrowthAborts(fd, len)
    BY <1>2, NoGrowthAborts DEF RInv
  <2> QED BY <1>2, <2>3, <2>4, <2>5, <2>6, <2>7 DEF Write, BadFd
<1> QED BY <1>1, <1>2 DEF Write, BadFd

-----------------------------------------------------------------------------
(***************************************************************************)
(* The invariant of the refinement is kept by every step.                  *)
(***************************************************************************)
LEMMA DirTyped == CInv => dir \in [Entry -> DirEntry]
BY IInvParts DEF CInv, DiskOK

\* Entries that were live and kept their names, and the others are not live
\* or got a name that a client passed.
LEMMA NamesStay ==
  ASSUME NamesGiven, NEW dr2, dr2 = dir',
         \A x \in Entry : \/ dr2[x].first = Null
                          \/ dr2[x].name \in Names
                          \/ dir[x].first # Null /\ dr2[x].name = dir[x].name
  PROVE  NamesGiven'
BY DEF NamesGiven

LEMMA SameDirNames ==
  ASSUME NamesGiven, UNCHANGED dir
  PROVE  NamesGiven'
BY DEF NamesGiven

LEMMA OpenNames ==
  ASSUME CInv, NamesGiven, NEW name \in Names, Open(name)
  PROVE  NamesGiven'
<1>1. CASE UNCHANGED dir
  BY <1>1, SameDirNames
<1>2. CASE CreateFile(name)
  <2>1. PICK e, dr2 : /\ e = Lowest(Unused) /\ dr2 = dir'
                      /\ dr2 = [dir EXCEPT ![e] = [first |-> freelist, size |-> 0,
                                                  name |-> name]]
    BY <1>2 DEF CreateFile
  <2>2. ASSUME NEW x \in Entry
        PROVE  dr2[x].name \in Names \/ dr2[x] = dir[x]
    <3>1. CASE x = e
      BY <2>1, <3>1, DirTyped
    <3>2. CASE x # e
      BY <2>1, <3>2
    <3> QED BY <3>1, <3>2
  <2>3. \A x \in Entry : \/ dr2[x].first = Null
                         \/ dr2[x].name \in Names
                         \/ dir[x].first # Null /\ dr2[x].name = dir[x].name
    BY <2>2
  <2> QED BY <2>1, <2>3, NamesStay
<1> QED BY <1>1, <1>2
        DEF Open, FailUnchanged, diskVars, OpenExisting, CreateNoSpace, CreateAborts

LEMMA FreeFileNames ==
  ASSUME CInv, NamesGiven, NEW e \in Entry, NEW renamed, FreeFile(e, renamed),
         \A x \in Entry : /\ renamed[x].first = dir[x].first
                          /\ \/ renamed[x].name = dir[x].name
                             \/ renamed[x].name \in Names,
         DOMAIN renamed = Entry
  PROVE  NamesGiven'
<1>1. PICK dr2 : dr2 = dir' /\ dr2 = [renamed EXCEPT ![e] = UnusedEntry]
  BY DEF FreeFile
<1>2. ASSUME NEW x \in Entry
      PROVE  \/ dr2[x].first = Null
             \/ dr2[x].name \in Names
             \/ dir[x].first # Null /\ dr2[x].name = dir[x].name
  <2>1. CASE x = e
    BY <1>1, <2>1 DEF UnusedEntry
  <2>2. CASE x # e
    BY <1>1, <2>2
  <2> QED BY <2>1, <2>2
<1> QED BY <1>1, <1>2, NamesStay

LEMMA RemoveNames ==
  ASSUME CInv, NamesGiven, NEW name \in Names, Remove(name)
  PROVE  NamesGiven'
<1>1. CASE UNCHANGED dir
  BY <1>1, SameDirNames
<1>2. CASE Named(name) # {} /\ DeleteFile(Lowest(Named(name)), dir)
  <2>1. Lowest(Named(name)) \in Entry /\ Live(Lowest(Named(name)))
    BY <1>2, NamedIn
  <2>2. DOMAIN dir = Entry /\ DiskOK
    BY DirTyped, IInvParts DEF CInv
  <2>3. FreeFile(Lowest(Named(name)), dir)
    BY <1>2, <2>1, <2>2, DeleteFrees
  <2> QED BY <2>1, <2>2, <2>3, FreeFileNames
<1> QED BY <1>1, <1>2 DEF Remove, FailUnchanged, diskVars

LEMMA RenameNames ==
  ASSUME CInv, NamesGiven, NEW old \in Names, NEW new \in Names, Rename(old, new)
  PROVE  NamesGiven'
<1>1. CASE UNCHANGED dir
  BY <1>1, SameDirNames
<1>2. PICK e, victim, renamed :
        /\ e = Lowest(Named(old)) /\ victim = Lowest(Named(new))
        /\ renamed = [dir EXCEPT ![e].name = new]
  OBVIOUS
<1>3. /\ DOMAIN renamed = Entry
      /\ \A x \in Entry : /\ renamed[x].first = dir[x].first
                          /\ \/ renamed[x].name = dir[x].name
                             \/ renamed[x].name \in Names
  BY <1>2, DirTyped DEF DirEntry
<1>4. CASE Named(new) # {} /\ DeleteFile(victim, renamed)
  <2>1. victim \in Entry /\ Live(victim) /\ DiskOK
    BY <1>2, <1>4, NamedIn, IInvParts DEF CInv
  <2>2. FreeFile(victim, renamed)
    BY <1>4, <2>1, DeleteFrees
  <2> QED BY <1>3, <2>1, <2>2, FreeFileNames
<1>5. CASE dir' = renamed
  <2>1. \A x \in Entry : \/ renamed[x].first = Null
                         \/ renamed[x].name \in Names
                         \/ dir[x].first # Null /\ renamed[x].name = dir[x].name
    BY <1>3
  <2> QED BY <1>5, <2>1, NamesStay
<1> QED BY <1>1, <1>2, <1>4, <1>5 DEF Rename, FailUnchanged, diskVars

LEMMA WriteNames ==
  ASSUME CInv, NamesGiven, NEW fd \in Fd, NEW len \in Lens, NEW v \in Bytes,
         Write(fd, len, v)
  PROVE  NamesGiven'
<1>1. CASE UNCHANGED dir
  BY <1>1, SameDirNames
<1>2. CASE \E path, hops : WriteComplete(fd, len, v, path, hops)
  <2>1. PICK e, s, dr2 : e = fds[fd].entry /\ s = EndPos(fd, len) /\ dr2 = dir'
    OBVIOUS
  <2>2. dr2 = [dir EXCEPT ![e].size = s] \/ dr2 = dir
    BY <1>2, <2>1 DEF WriteComplete
  <2>3. \A x \in Entry : dr2[x].first = dir[x].first /\ dr2[x].name = dir[x].name
    BY <2>2, DirTyped DEF DirEntry
  <2>4. \A x \in Entry : \/ dr2[x].first = Null
                         \/ dr2[x].name \in Names
                         \/ dir[x].first # Null /\ dr2[x].name = dir[x].name
    BY <2>3
  <2> QED BY <2>1, <2>4, NamesStay
<1>3. CASE WriteData(fd, len, v)
  BY <1>1, <1>2, <1>3 DEF WriteData, WriteAborts
<1> QED BY <1>1, <1>3 DEF Write, BadFd, FailUnchanged, diskVars

LEMMA StepRInv == RInv /\ [CarefulNext]_vars => RInv'
<1> SUFFICES ASSUME RInv, [CarefulNext]_vars PROVE RInv'
  OBVIOUS
<1>1. CInv /\ NamesGiven /\ CInv'
  BY StepCInv DEF RInv
<1>2. CASE UNCHANGED dir
  BY <1>1, <1>2, SameDirNames DEF RInv
<1>3. CASE \E name \in Names : Open(name) \/ Remove(name)
  BY <1>1, <1>3, OpenNames, RemoveNames DEF RInv
<1>4. CASE \E old, new \in Names :
             RenameReplacesClosedFile(old, new) /\ Rename(old, new)
  BY <1>1, <1>4, RenameNames DEF RInv
<1>5. CASE \E fd \in Fd, len \in Lens, v \in Bytes : Write(fd, len, v)
  BY <1>1, <1>5, WriteNames DEF RInv
<1>6. CASE Format
  <2>1. CASE dir' = FormattedDir
    <3>1. PICK dr2 : dr2 = dir'
      OBVIOUS
    <3>2. \A x \in Entry : dr2[x].first = Null
      BY <2>1, <3>1 DEF FormattedDir, UnusedEntry
    <3> QED BY <1>1, <3>1, <3>2, NamesStay DEF RInv
  <2> QED BY <1>2, <1>6, <2>1 DEF Format, FailUnchanged, diskVars
<1>7. CASE \E fd \in Fd : Close(fd) \/ GetPos(fd)
  BY <1>2, <1>7 DEF Close, GetPos, BadFd, FailUnchanged, diskVars
<1>8. CASE \E fd \in Fd, len \in Lens : Read(fd, len)
  BY <1>2, <1>8 DEF Read, ReadDone, ReadAborts, BadFd, FailUnchanged, diskVars
<1>9. CASE \E fd \in Fd, delta \in - MaxLen .. MaxLen : Seek(fd, delta)
  BY <1>2, <1>9 DEF Seek, BadFd, FailUnchanged, diskVars
<1>10. CASE Mount \/ Unmount \/ Restart
  BY <1>2, <1>10 DEF Mount, Unmount, Restart, FailUnchanged, diskVars
<1>11. CASE UNCHANGED vars
  BY <1>2, <1>11 DEF vars, diskVars
<1> QED BY <1>3, <1>4, <1>5, <1>6, <1>7, <1>8, <1>9, <1>10, <1>11
        DEF CarefulNext, CarefulCall

(***************************************************************************)
(* Every step of a careful client is a step of the store, or one that the  *)
(* store does not see.                                                     *)
(***************************************************************************)
LEMMA UnseenStep ==
  ASSUME UNCHANGED vars
  PROVE  UNCHANGED Store!fsVars
<1>1. UNCHANGED diskVars /\ UNCHANGED <<mounted, fds>> /\ UNCHANGED ret
  BY DEF vars, memVars
<1>2. UNCHANGED <<mounted, openBar, filesBar>>
  BY <1>1, NothingSeen
<1> QED BY <1>1, <1>2 DEF Store!fsVars

LEMMA StepImplements ==
  RInv /\ RInv' /\ [CarefulNext]_vars => [Store!FsNext]_Store!fsVars
<1> SUFFICES ASSUME RInv, RInv', [CarefulNext]_vars
             PROVE  Store!FsNext \/ UNCHANGED Store!fsVars
  OBVIOUS
<1>1. ASSUME NEW name \in Names, Open(name) \/ Remove(name)
      PROVE  Store!OpenFile(name) \/ Store!RemoveFile(name)
  BY <1>1, OpenImplements, RemoveImplements
<1>2. ASSUME NEW old \in Names, NEW new \in Names,
             RenameReplacesClosedFile(old, new), Rename(old, new)
      PROVE  Store!RenameFile(old, new)
  BY <1>2, RenameImplements
<1>3. ASSUME NEW fd \in Fd, Close(fd) \/ GetPos(fd)
      PROVE  Store!CloseFile(fd) \/ Store!TellPos(fd)
  BY <1>3, CloseImplements, GetPosImplements
<1>4. ASSUME NEW fd \in Fd, NEW len \in Lens, Read(fd, len)
      PROVE  Store!ReadFile(fd, len)
  BY <1>4, ReadImplements
<1>5. ASSUME NEW fd \in Fd, NEW len \in Lens, NEW v \in Bytes, Write(fd, len, v)
      PROVE  Store!WriteFile(fd, len, v)
  BY <1>5, WriteImplements
<1>6. ASSUME NEW fd \in Fd, NEW delta \in - MaxLen .. MaxLen, Seek(fd, delta)
      PROVE  Store!SeekFile(fd)
  BY <1>6, SeekImplements
<1>7. CASE Mount
  BY <1>7, MountImplements DEF Store!FsNext
<1>8. CASE Format
  BY <1>8, FormatImplements DEF Store!FsNext
<1>9. CASE Restart
  BY <1>9, RestartImplements DEF Store!FsNext
<1>10. CASE (\A fd \in Fd : fds[fd] = NoDesc) /\ Unmount
  BY <1>10, UnmountImplements DEF Store!FsNext
<1>11. CASE UNCHANGED vars
  BY <1>11, UnseenStep
<1>12. CASE \E name \in Names : Open(name) \/ Remove(name)
  BY <1>1, <1>12 DEF Store!FsNext
<1>13. CASE \E old, new \in Names :
              RenameReplacesClosedFile(old, new) /\ Rename(old, new)
  BY <1>2, <1>13 DEF Store!FsNext
<1>14. CASE \E fd \in Fd : Close(fd) \/ GetPos(fd)
  BY <1>3, <1>14 DEF Store!FsNext
<1>15. CASE \E fd \in Fd, len \in Lens : Read(fd, len)
  BY <1>4, <1>15 DEF Store!FsNext
<1>16. CASE \E fd \in Fd, len \in Lens, v \in Bytes : Write(fd, len, v)
  BY <1>5, <1>16 DEF Store!FsNext
<1>17. CASE \E fd \in Fd, delta \in - MaxLen .. MaxLen :
              SeekStaysInBlock(fd, delta) /\ Seek(fd, delta)
  BY <1>6, <1>17 DEF Store!FsNext
<1> QED BY <1>7, <1>8, <1>9, <1>10, <1>11, <1>12, <1>13, <1>14, <1>15, <1>16, <1>17
        DEF CarefulNext, CarefulCall

(***************************************************************************)
(* Whatever a careful client calls, the Shark File System behaves as the   *)
(* store of named byte sequences that sfs-api.h describes, for every       *)
(* number of blocks, block size, set of names and length of transfer:      *)
(* every read delivers the bytes written last, and space is refused only   *)
(* when it is used (all of the calls of sfs-disk.c).                       *)
(***************************************************************************)
THEOREM CarefulClientSeesStore == CarefulSpec => ImplementsStore
<1>1. CarefulSpec => []RInv
  BY InitImplements, StepRInv, PTL DEF CarefulSpec
<1>2. RInv /\ RInv' /\ [CarefulNext]_vars => [Store!FsNext]_Store!fsVars
  BY StepImplements
<1> QED BY <1>1, <1>2, InitImplements, PTL
        DEF ImplementsStore, Store!FsSpec, CarefulSpec
=============================================================================
