----------------------------- MODULE CordProofs -----------------------------
(***************************************************************************)
(* Theorems about Cord, for any strings, any size_t, any bytes in fresh    *)
(* memory, and cords of every shape.                                       *)
(***************************************************************************)
EXTENDS Cord, WellFoundedInduction, TLAPS

(***************************************************************************)
(* Some numbers have a least one.                                          *)
(***************************************************************************)
LEMMA LeastNumber ==
  ASSUME NEW S \in SUBSET Nat, S # {}
  PROVE  \E x \in S : \A y \in S : x <= y
<1> DEFINE Less == {ss \in Nat \X Nat : ss[1] < ss[2]}
<1>1. IsWellFoundedOn(Less, Nat)
  BY NatLessThanWellFounded DEF OpToRel
<1>2. PICK x \in S : \A y \in S : ~ (<<y, x>> \in Less)
  <2> HIDE DEF Less
  <2> QED BY <1>1, WFMin
<1>3. ASSUME NEW y \in S PROVE x <= y
  <2>1. <<y, x>> \notin Less /\ x \in Nat /\ y \in Nat
    BY <1>2
  <2> QED BY <2>1
<1> QED BY <1>3

-----------------------------------------------------------------------------
(***************************************************************************)
(* The cords of n characters are what their definition says: cords[k] are  *)
(* the ones of k characters.                                               *)
(***************************************************************************)
Joined(cords, n, k) ==
  {Node(n, L, R) : L \in cords[k], R \in cords[n - k]}

Made(cords, n) ==
  {Leaf(n, Append(s, b)) : s \in [1 .. n -> Char], b \in Junk \cup {Nul}}
    \cup UNION {Joined(cords, n, k) : k \in 1 .. n - 1}

LEMMA MadeFromShorter ==
  ASSUME NEW f, NEW g, NEW n \in Nat, \A k \in 1 .. n - 1 : f[k] = g[k]
  PROVE  Made(f, n) = Made(g, n)
<1>1. ASSUME NEW k \in 1 .. n - 1
      PROVE  Joined(f, n, k) = Joined(g, n, k)
  <2>1. f[k] = g[k] /\ f[n - k] = g[n - k]
    OBVIOUS
  <2> QED BY <2>1 DEF Joined
<1>2. UNION {Joined(f, n, k) : k \in 1 .. n - 1}
        = UNION {Joined(g, n, k) : k \in 1 .. n - 1}
  <2>1. PICK J : J = [k \in 1 .. n - 1 |-> Joined(f, n, k)]
    OBVIOUS
  <2>2. \A k \in 1 .. n - 1 : J[k] = Joined(f, n, k) /\ J[k] = Joined(g, n, k)
    BY <1>1, <2>1, Zenon
  <2>3. {Joined(f, n, k) : k \in 1 .. n - 1} = {J[k] : k \in 1 .. n - 1}
    BY <2>2
  <2>4. {Joined(g, n, k) : k \in 1 .. n - 1} = {J[k] : k \in 1 .. n - 1}
    BY <2>2
  <2> QED BY <2>3, <2>4
<1> QED BY <1>2 DEF Made

LEMMA CordsRecur ==
  \A n \in 0 .. SizeMax : CordsOf[n] = Made(CordsOf, n)
<1>0. SizeMax \in Nat
  BY CordAssumption
<1> DEFINE Runs(f, m) == f = [n \in 0 .. m |-> Made(f, n)]
           Bad == {m \in Nat : \A f : ~ Runs(f, m)}
<1>1. Bad = {}
  <2> SUFFICES ASSUME Bad # {} PROVE FALSE
    OBVIOUS
  <2>1. PICK m \in Bad : \A k \in Bad : m <= k
    <3>1. Bad \in SUBSET Nat
      OBVIOUS
    <3> HIDE DEF Bad
    <3> QED BY <3>1, LeastNumber
  <2>2. m \in Nat
    OBVIOUS
  <2>3. PICK f : \A n \in 0 .. m - 1 : f[n] = Made(f, n)
    <3>1. CASE m = 0
      BY <3>1
    <3>2. CASE m # 0
      <4>1. m - 1 \in Nat /\ ~ (m <= m - 1)
        BY <2>2, <3>2
      <4>2. m - 1 \notin Bad
        <5> HIDE DEF Bad
        <5> QED BY <2>1, <4>1
      <4>3. PICK h : Runs(h, m - 1)
        BY <4>1, <4>2
      <4> QED BY <4>3
    <3> QED BY <3>1, <3>2
  <2>4. PICK g : g = [n \in 0 .. m |-> Made(f, n)]
    OBVIOUS
  <2>5. ASSUME NEW n \in 0 .. m
        PROVE  g[n] = Made(g, n)
    <3>1. ASSUME NEW k \in 1 .. n - 1 PROVE f[k] = g[k]
      <4>1. k \in 0 .. m /\ k \in 0 .. m - 1
        BY <2>2
      <4> QED BY <2>3, <2>4, <4>1
    <3>2. Made(f, n) = Made(g, n)
      BY <2>2, <3>1, MadeFromShorter
    <3> QED BY <2>4, <3>2
  <2>6. Runs(g, m)
    BY <2>4, <2>5
  <2> QED BY <2>1, <2>6
<1>2. PICK f : Runs(f, SizeMax)
  <2>1. SizeMax \notin Bad
    BY <1>1
  <2> QED BY <1>0, <2>1
<1>3. CordsOf = [n \in 0 .. SizeMax |-> Made(CordsOf, n)]
  <2>1. CordsOf = CHOOSE h : h = [n \in 0 .. SizeMax |-> Made(h, n)]
    BY DEF CordsOf, Made, Joined
  <2> QED BY <1>2, <2>1, Zenon
<1> QED BY <1>3, Zenon

LEMMA CordOf ==
  ASSUME NEW R
  PROVE  R \in Cord <=> \E n \in 1 .. SizeMax : R \in Made(CordsOf, n)
<1>1. \A n \in 1 .. SizeMax : CordsOf[n] = Made(CordsOf, n)
  BY CordsRecur, CordAssumption
<1>2. R \in Cord <=> \E n \in 1 .. SizeMax : R \in CordsOf[n]
  BY DEF Cord
<1> QED BY <1>1, <1>2

LEMMA MadeLength ==
  ASSUME NEW cords, NEW n, NEW R \in Made(cords, n)
  PROVE  R.len = n
<1>1. CASE \E s \in [1 .. n -> Char], b \in Junk \cup {Nul} : R = Leaf(n, Append(s, b))
  BY <1>1 DEF Leaf
<1>2. CASE \E k \in 1 .. n - 1 : R \in Joined(cords, n, k)
  BY <1>2 DEF Joined, Node
<1> QED BY <1>1, <1>2 DEF Made

(***************************************************************************)
(* What a cord is: a leaf with its characters and a byte more, or two      *)
(* cords.                                                                  *)
(***************************************************************************)
LEMMA LeafIsCord ==
  ASSUME NEW n \in 1 .. SizeMax, NEW s \in [1 .. n -> Char], NEW b \in Junk \cup {Nul}
  PROVE  Leaf(n, Append(s, b)) \in Cord
<1>1. Leaf(n, Append(s, b)) \in Made(CordsOf, n)
  BY DEF Made
<1> QED BY <1>1, CordOf

LEMMA NodeIsCord ==
  ASSUME NEW L \in Cord, NEW S \in Cord, NEW n, n = L.len + S.len, n <= SizeMax
  PROVE  Node(n, L, S) \in Cord
<1>1. PICK k \in 1 .. SizeMax : L \in Made(CordsOf, k)
  BY CordOf
<1>2. PICK j \in 1 .. SizeMax : S \in Made(CordsOf, j)
  BY CordOf
<1>3. /\ n = k + j /\ n \in 1 .. SizeMax /\ k \in 1 .. n - 1 /\ n - k = j
      /\ k \in 0 .. SizeMax /\ j \in 0 .. SizeMax
  BY <1>1, <1>2, MadeLength, CordAssumption
<1>4. L \in CordsOf[k] /\ S \in CordsOf[n - k]
  BY <1>1, <1>2, <1>3, CordsRecur
<1>5. Node(n, L, S) \in Joined(CordsOf, n, k)
  BY <1>4 DEF Joined
<1>6. Node(n, L, S) \in Made(CordsOf, n)
  BY <1>3, <1>5 DEF Made
<1> QED BY <1>3, <1>6, CordOf

LEMMA LeafOrNode ==
  ASSUME NEW R \in Cord
  PROVE  /\ R.len \in 1 .. SizeMax
         /\ R # Null
         /\ \/ /\ IsLeaf(R)
               /\ \E s \in [1 .. R.len -> Char], b \in Junk \cup {Nul} :
                    R = Leaf(R.len, Append(s, b))
            \/ /\ ~ IsLeaf(R)
               /\ R.left \in Cord /\ R.right \in Cord
               /\ R = Node(R.len, R.left, R.right)
               /\ R.len = R.left.len + R.right.len
<1>1. PICK n \in 1 .. SizeMax : R \in Made(CordsOf, n)
  BY CordOf
<1>2. R.len = n
  BY <1>1, MadeLength
<1>3. CASE \E s \in [1 .. n -> Char], b \in Junk \cup {Nul} : R = Leaf(n, Append(s, b))
  <2>1. IsLeaf(R)
    BY <1>3 DEF Leaf, IsLeaf
  <2> QED BY <1>2, <1>3, <2>1, NullAssumption
<1>4. CASE \E k \in 1 .. n - 1 : R \in Joined(CordsOf, n, k)
  <2>1. PICK k \in 1 .. n - 1 : R \in Joined(CordsOf, n, k)
    BY <1>4
  <2>2. PICK L \in CordsOf[k], S \in CordsOf[n - k] : R = Node(n, L, S)
    BY <2>1 DEF Joined
  <2>3. k \in 1 .. SizeMax /\ n - k \in 1 .. SizeMax
    BY <2>1, CordAssumption
  <2>4. L \in Made(CordsOf, k) /\ S \in Made(CordsOf, n - k)
    BY <2>2, <2>3, CordsRecur, CordAssumption
  <2>5. L.len = k /\ S.len = n - k /\ L \in Cord /\ S \in Cord
    BY <2>3, <2>4, MadeLength, CordOf
  <2>6. R.left = L /\ R.right = S
    BY <2>2 DEF Node
  <2>7. ~ IsLeaf(R) /\ R # Null
    BY <2>5, <2>6, NullAssumption DEF IsLeaf
  <2> QED BY <1>2, <2>1, <2>2, <2>5, <2>6, <2>7
<1> QED BY <1>1, <1>3, <1>4 DEF Made

(***************************************************************************)
(* What leaves have, and a cord has when both parts do, every cord has.    *)
(***************************************************************************)
LEMMA CordInduction ==
  ASSUME NEW G,
         \A R \in Cord : IsLeaf(R) => R \in G,
         \A R \in Cord : ~ IsLeaf(R) /\ R.left \in G /\ R.right \in G => R \in G
  PROVE  Cord \subseteq G
<1> DEFINE Bad == {n \in Nat : \E R \in Cord : R.len = n /\ R \notin G}
<1>1. Bad = {}
  <2> SUFFICES ASSUME Bad # {} PROVE FALSE
    OBVIOUS
  <2>1. PICK n \in Bad : \A k \in Bad : n <= k
    <3>1. Bad \in SUBSET Nat
      OBVIOUS
    <3> HIDE DEF Bad
    <3> QED BY <3>1, LeastNumber
  <2>2. PICK R \in Cord : R.len = n /\ R \notin G
    OBVIOUS
  <2>3. /\ ~ IsLeaf(R) /\ R.left \in Cord /\ R.right \in Cord
        /\ R.len = R.left.len + R.right.len
    BY <2>2, LeafOrNode
  <2>4. R.left.len \in 1 .. SizeMax /\ R.right.len \in 1 .. SizeMax
    BY <2>3, LeafOrNode
  <2>5. /\ R.left.len \in Nat /\ R.right.len \in Nat
        /\ ~ (n <= R.left.len) /\ ~ (n <= R.right.len)
    BY <2>2, <2>3, <2>4, CordAssumption
  <2>6. R.left.len \notin Bad /\ R.right.len \notin Bad
    <3> HIDE DEF Bad
    <3> QED BY <2>1, <2>5
  <2>7. R.left \in G /\ R.right \in G
    BY <2>3, <2>5, <2>6
  <2> QED BY <2>2, <2>3, <2>7
<1> QED BY <1>1, LeafOrNode, CordAssumption

-----------------------------------------------------------------------------
(***************************************************************************)
(* The recursive functions on cords are what their definitions say: there  *)
(* is one for the cords up to each length.                                 *)
(***************************************************************************)
Upto(n) == {T \in CordOrNull : Length(T) <= n}

HasParts(T) == T # Null /\ ~ IsLeaf(T)

LEMMA CordLength ==
  ASSUME NEW T \in CordOrNull
  PROVE  Length(T) \in Index /\ (T # Null => Length(T) = T.len /\ T.len # 0)
BY LeafOrNode, CordAssumption DEF Length, CordOrNull, Index

LEMMA PartsUpto ==
  ASSUME NEW n \in Nat, NEW T \in Upto(n + 1), HasParts(T)
  PROVE  T.left \in Upto(n) /\ T.right \in Upto(n)
<1>1. T \in Cord /\ T.len <= n + 1
  BY DEF Upto, HasParts, CordOrNull, Length
<1>2. /\ T.left \in Cord /\ T.right \in Cord
      /\ T.len = T.left.len + T.right.len
  BY <1>1, LeafOrNode DEF HasParts
<1>3. /\ T.left.len \in 1 .. SizeMax /\ T.right.len \in 1 .. SizeMax
      /\ T.left # Null /\ T.right # Null
  BY <1>2, LeafOrNode
<1> QED BY <1>1, <1>2, <1>3, CordAssumption DEF Upto, CordOrNull, Length

LEMMA UptoZero ==
  ASSUME NEW T \in Upto(0) PROVE T = Null
<1>1. T \in CordOrNull /\ Length(T) <= 0
  BY DEF Upto
<1> QED BY <1>1, CordLength, CordAssumption DEF Index

LEMMA UptoAll == Upto(SizeMax) = CordOrNull
BY CordLength, CordAssumption DEF Upto, Index

LEMMA Counting ==
  ASSUME NEW G, 0 \in G, \A n \in Nat : n \in G => n + 1 \in G
  PROVE  \A n \in Nat : n \in G
<1> DEFINE Bad == {n \in Nat : n \notin G}
<1> SUFFICES ASSUME Bad # {} PROVE FALSE
  OBVIOUS
<1>1. PICK n \in Bad : \A k \in Bad : n <= k
  <2>1. Bad \in SUBSET Nat
    OBVIOUS
  <2> HIDE DEF Bad
  <2> QED BY <2>1, LeastNumber
<1>2. n \in Nat /\ n # 0
  OBVIOUS
<1>3. n - 1 \in Nat /\ ~ (n <= n - 1) /\ (n - 1) + 1 = n
  BY <1>2
<1>4. n - 1 \notin Bad
  <2> HIDE DEF Bad
  <2> QED BY <1>1, <1>3
<1>5. n \in G
  BY <1>3, <1>4
<1> QED BY <1>5

\* What defines Text, given it on the parts.
TextBody(f, T) ==
  IF T = Null THEN <<>>
  ELSE IF IsLeaf(T) THEN SubSeq(T.data, 1, T.len)
  ELSE f[T.left] \o f[T.right]

LEMMA TextFromParts ==
  ASSUME NEW f, NEW g, NEW T \in CordOrNull,
         HasParts(T) => f[T.left] = g[T.left] /\ f[T.right] = g[T.right]
  PROVE  TextBody(f, T) = TextBody(g, T)
BY DEF TextBody, HasParts

LEMMA TextExists == \E f : f = [T \in CordOrNull |-> TextBody(f, T)]
<1> DEFINE G == {n \in Nat : \E f : f = [T \in Upto(n) |-> TextBody(f, T)]}
<1>1. 0 \in G
  <2>1. PICK f : f = [T \in Upto(0) |-> TextBody(<<>>, T)]
    OBVIOUS
  <2>2. ASSUME NEW T \in Upto(0) PROVE TextBody(f, T) = TextBody(<<>>, T)
    BY UptoZero, TextFromParts DEF HasParts, Upto
  <2>3. f = [T \in Upto(0) |-> TextBody(f, T)]
    BY <2>1, <2>2, Zenon
  <2> QED BY <2>3
<1>2. ASSUME NEW n \in Nat, n \in G PROVE n + 1 \in G
  <2>1. PICK f : f = [T \in Upto(n) |-> TextBody(f, T)]
    BY <1>2
  <2>2. PICK g : g = [T \in Upto(n + 1) |-> TextBody(f, T)]
    OBVIOUS
  <2>3. ASSUME NEW T \in Upto(n) PROVE f[T] = g[T]
    <3>1. T \in Upto(n + 1)
      BY CordLength, CordAssumption DEF Upto, Index
    <3> QED BY <2>1, <2>2, <3>1, Zenon
  <2>4. ASSUME NEW T \in Upto(n + 1) PROVE TextBody(g, T) = TextBody(f, T)
    <3>1. HasParts(T) => g[T.left] = f[T.left] /\ g[T.right] = f[T.right]
      BY <2>3, PartsUpto
    <3>2. T \in CordOrNull
      BY DEF Upto
    <3> QED BY <3>1, <3>2, TextFromParts
  <2>5. g = [T \in Upto(n + 1) |-> TextBody(g, T)]
    BY <2>2, <2>4, Zenon
  <2> QED BY <2>5
<1>3. SizeMax \in G
  <2> HIDE DEF G
  <2> QED BY <1>1, <1>2, Counting, CordAssumption
<1> QED BY <1>3, UptoAll

\* The same for IsCord.
IsCordBody(f, T) ==
  \/ T = Null
  \/ /\ T # Null /\ T.len > 0
     /\ \/ T.data # Null /\ IsLeaf(T) /\ T.len = StrLen(T.data)
        \/ /\ T.left # Null /\ T.right # Null
           /\ T.len - T.left.len = T.right.len
           /\ f[T.left] /\ f[T.right]

LEMMA IsCordFromParts ==
  ASSUME NEW f, NEW g, NEW T \in CordOrNull,
         HasParts(T) => f[T.left] = g[T.left] /\ f[T.right] = g[T.right]
  PROVE  IsCordBody(f, T) = IsCordBody(g, T)
BY DEF IsCordBody, HasParts, IsLeaf

LEMMA IsCordExists == \E f : f = [T \in CordOrNull |-> IsCordBody(f, T)]
<1> DEFINE G == {n \in Nat : \E f : f = [T \in Upto(n) |-> IsCordBody(f, T)]}
<1>1. 0 \in G
  <2>1. PICK f : f = [T \in Upto(0) |-> IsCordBody(<<>>, T)]
    OBVIOUS
  <2>2. ASSUME NEW T \in Upto(0) PROVE IsCordBody(f, T) = IsCordBody(<<>>, T)
    BY UptoZero, IsCordFromParts DEF HasParts, Upto
  <2>3. f = [T \in Upto(0) |-> IsCordBody(f, T)]
    BY <2>1, <2>2, Zenon
  <2> QED BY <2>3
<1>2. ASSUME NEW n \in Nat, n \in G PROVE n + 1 \in G
  <2>1. PICK f : f = [T \in Upto(n) |-> IsCordBody(f, T)]
    BY <1>2
  <2>2. PICK g : g = [T \in Upto(n + 1) |-> IsCordBody(f, T)]
    OBVIOUS
  <2>3. ASSUME NEW T \in Upto(n) PROVE f[T] = g[T]
    <3>1. T \in Upto(n + 1)
      BY CordLength, CordAssumption DEF Upto, Index
    <3> QED BY <2>1, <2>2, <3>1, Zenon
  <2>4. ASSUME NEW T \in Upto(n + 1) PROVE IsCordBody(g, T) = IsCordBody(f, T)
    <3>1. HasParts(T) => g[T.left] = f[T.left] /\ g[T.right] = f[T.right]
      BY <2>3, PartsUpto
    <3>2. T \in CordOrNull
      BY DEF Upto
    <3> QED BY <3>1, <3>2, IsCordFromParts
  <2>5. g = [T \in Upto(n + 1) |-> IsCordBody(g, T)]
    BY <2>2, <2>4, Zenon
  <2> QED BY <2>5
<1>3. SizeMax \in G
  <2> HIDE DEF G
  <2> QED BY <1>1, <1>2, Counting, CordAssumption
<1> QED BY <1>3, UptoAll

\* The same for Terminated.
TerminatedBody(f, T) ==
  IF T = Null THEN TRUE
  ELSE IF IsLeaf(T) THEN T.data[Len(T.data)] = Nul
  ELSE f[T.left] /\ f[T.right]

LEMMA TerminatedFromParts ==
  ASSUME NEW f, NEW g, NEW T \in CordOrNull,
         HasParts(T) => f[T.left] = g[T.left] /\ f[T.right] = g[T.right]
  PROVE  TerminatedBody(f, T) = TerminatedBody(g, T)
BY DEF TerminatedBody, HasParts

LEMMA TerminatedExists == \E f : f = [T \in CordOrNull |-> TerminatedBody(f, T)]
<1> DEFINE G == {n \in Nat : \E f : f = [T \in Upto(n) |-> TerminatedBody(f, T)]}
<1>1. 0 \in G
  <2>1. PICK f : f = [T \in Upto(0) |-> TerminatedBody(<<>>, T)]
    OBVIOUS
  <2>2. ASSUME NEW T \in Upto(0) PROVE TerminatedBody(f, T) = TerminatedBody(<<>>, T)
    BY UptoZero, TerminatedFromParts DEF HasParts, Upto
  <2>3. f = [T \in Upto(0) |-> TerminatedBody(f, T)]
    BY <2>1, <2>2, Zenon
  <2> QED BY <2>3
<1>2. ASSUME NEW n \in Nat, n \in G PROVE n + 1 \in G
  <2>1. PICK f : f = [T \in Upto(n) |-> TerminatedBody(f, T)]
    BY <1>2
  <2>2. PICK g : g = [T \in Upto(n + 1) |-> TerminatedBody(f, T)]
    OBVIOUS
  <2>3. ASSUME NEW T \in Upto(n) PROVE f[T] = g[T]
    <3>1. T \in Upto(n + 1)
      BY CordLength, CordAssumption DEF Upto, Index
    <3> QED BY <2>1, <2>2, <3>1, Zenon
  <2>4. ASSUME NEW T \in Upto(n + 1) PROVE TerminatedBody(g, T) = TerminatedBody(f, T)
    <3>1. HasParts(T) => g[T.left] = f[T.left] /\ g[T.right] = f[T.right]
      BY <2>3, PartsUpto
    <3>2. T \in CordOrNull
      BY DEF Upto
    <3> QED BY <3>1, <3>2, TerminatedFromParts
  <2>5. g = [T \in Upto(n + 1) |-> TerminatedBody(g, T)]
    BY <2>2, <2>4, Zenon
  <2> QED BY <2>5
<1>3. SizeMax \in G
  <2> HIDE DEF G
  <2> QED BY <1>1, <1>2, Counting, CordAssumption
<1> QED BY <1>3, UptoAll

\* The same for CharAt.
CharAtFrom(f, T, j) ==
  IF j >= Length(T) THEN Null
  ELSE IF Length(T.left) + Length(T.right) = 0 THEN T.data[j + 1]
  ELSE IF j < Length(T.left) THEN f[T.left][j]
  ELSE IF j < Length(T.left) + Length(T.right)
    THEN f[T.right][j - Length(T.left)]
  ELSE Nul

CharAtBody(f, T) ==
  [j \in Index |-> CharAtFrom(f, T, j)]

LEMMA CharAtFromParts ==
  ASSUME NEW f, NEW g, NEW T \in CordOrNull,
         HasParts(T) => f[T.left] = g[T.left] /\ f[T.right] = g[T.right]
  PROVE  CharAtBody(f, T) = CharAtBody(g, T)
<1>1. ASSUME NEW j \in Index PROVE CharAtFrom(f, T, j) = CharAtFrom(g, T, j)
  <2>1. CASE T = Null
    BY <2>1, CordAssumption DEF CharAtFrom, Length, Index
  <2>2. CASE T # Null /\ IsLeaf(T)
    BY <2>2 DEF CharAtFrom, Length, IsLeaf
  <2>3. CASE HasParts(T)
    BY <2>3 DEF CharAtFrom
  <2> QED BY <2>1, <2>2, <2>3 DEF HasParts
<1> QED BY <1>1, Zenon DEF CharAtBody

LEMMA CharAtExists == \E f : f = [T \in CordOrNull |-> CharAtBody(f, T)]
<1> DEFINE G == {n \in Nat : \E f : f = [T \in Upto(n) |-> CharAtBody(f, T)]}
<1>1. 0 \in G
  <2>1. PICK f : f = [T \in Upto(0) |-> CharAtBody(<<>>, T)]
    OBVIOUS
  <2>2. ASSUME NEW T \in Upto(0) PROVE CharAtBody(f, T) = CharAtBody(<<>>, T)
    BY UptoZero, CharAtFromParts DEF HasParts, Upto
  <2>3. f = [T \in Upto(0) |-> CharAtBody(f, T)]
    BY <2>1, <2>2, Zenon
  <2> QED BY <2>3
<1>2. ASSUME NEW n \in Nat, n \in G PROVE n + 1 \in G
  <2>1. PICK f : f = [T \in Upto(n) |-> CharAtBody(f, T)]
    BY <1>2
  <2>2. PICK g : g = [T \in Upto(n + 1) |-> CharAtBody(f, T)]
    OBVIOUS
  <2>3. ASSUME NEW T \in Upto(n) PROVE f[T] = g[T]
    <3>1. T \in Upto(n + 1)
      BY CordLength, CordAssumption DEF Upto, Index
    <3> QED BY <2>1, <2>2, <3>1, Zenon
  <2>4. ASSUME NEW T \in Upto(n + 1) PROVE CharAtBody(g, T) = CharAtBody(f, T)
    <3>1. HasParts(T) => g[T.left] = f[T.left] /\ g[T.right] = f[T.right]
      BY <2>3, PartsUpto
    <3>2. T \in CordOrNull
      BY DEF Upto
    <3> QED BY <3>1, <3>2, CharAtFromParts
  <2>5. g = [T \in Upto(n + 1) |-> CharAtBody(g, T)]
    BY <2>2, <2>4, Zenon
  <2> QED BY <2>5
<1>3. SizeMax \in G
  <2> HIDE DEF G
  <2> QED BY <1>1, <1>2, Counting, CordAssumption
<1> QED BY <1>3, UptoAll

\* The same for CordSub.
CordSubFrom(f, T, lo, hi) ==
  IF lo > hi \/ hi > Length(T) THEN {}
  ELSE IF lo = hi THEN {Null}
  ELSE IF lo = 0 /\ hi = T.len THEN {T}
  ELSE IF IsLeaf(T) THEN LeafSub(T, lo, hi)
  ELSE LET n == Length(T.left) IN
    IF lo < n /\ hi <= n THEN f[T.left][lo][hi]
    ELSE IF lo < n /\ n < hi
      THEN {Node(hi - lo, L, S) : L \in f[T.left][lo][n],
                                  S \in f[T.right][0][hi - n]}
    ELSE IF n <= lo /\ hi <= n + Length(T.right)
      THEN f[T.right][lo - n][hi - n]
    ELSE {Null}

CordSubBody(f, T) ==
  [lo \in Index |-> [hi \in Index |-> CordSubFrom(f, T, lo, hi)]]

LEMMA CordSubFromParts ==
  ASSUME NEW f, NEW g, NEW T \in CordOrNull,
         HasParts(T) => f[T.left] = g[T.left] /\ f[T.right] = g[T.right]
  PROVE  CordSubBody(f, T) = CordSubBody(g, T)
<1>1. ASSUME NEW lo \in Index, NEW hi \in Index
      PROVE  CordSubFrom(f, T, lo, hi) = CordSubFrom(g, T, lo, hi)
  <2>1. CASE T = Null
    <3>1. Length(T) = 0 /\ lo \in Nat /\ hi \in Nat
      BY <2>1, CordAssumption DEF Length, Index
    <3>2. (lo > hi \/ hi > Length(T)) \/ lo = hi
      BY <3>1
    <3> QED BY <3>2 DEF CordSubFrom
  <2>2. CASE T # Null /\ IsLeaf(T)
    BY <2>2 DEF CordSubFrom
  <2>3. CASE HasParts(T)
    <3>1. f[T.left] = g[T.left] /\ f[T.right] = g[T.right]
      BY <2>3
    <3>2. PICK n, A, B : n = Length(T.left) /\ A = f[T.left] /\ B = f[T.right]
      OBVIOUS
    <3>3. A = g[T.left] /\ B = g[T.right]
      BY <3>1, <3>2
    <3>4. CordSubFrom(f, T, lo, hi) = CordSubFrom(g, T, lo, hi)
      BY ONLY <3>2, <3>3 DEF CordSubFrom
    <3> QED BY <3>4
  <2> QED BY <2>1, <2>2, <2>3 DEF HasParts
<1>2. ASSUME NEW lo \in Index
      PROVE  [hi \in Index |-> CordSubFrom(f, T, lo, hi)]
               = [hi \in Index |-> CordSubFrom(g, T, lo, hi)]
  BY <1>1, Zenon
<1> QED BY <1>2, Zenon DEF CordSubBody

LEMMA CordSubExists == \E f : f = [T \in CordOrNull |-> CordSubBody(f, T)]
<1> DEFINE G == {n \in Nat : \E f : f = [T \in Upto(n) |-> CordSubBody(f, T)]}
<1>1. 0 \in G
  <2>1. PICK f : f = [T \in Upto(0) |-> CordSubBody(<<>>, T)]
    OBVIOUS
  <2>2. ASSUME NEW T \in Upto(0) PROVE CordSubBody(f, T) = CordSubBody(<<>>, T)
    BY UptoZero, CordSubFromParts DEF HasParts, Upto
  <2>3. f = [T \in Upto(0) |-> CordSubBody(f, T)]
    BY <2>1, <2>2, Zenon
  <2> QED BY <2>3
<1>2. ASSUME NEW n \in Nat, n \in G PROVE n + 1 \in G
  <2>1. PICK f : f = [T \in Upto(n) |-> CordSubBody(f, T)]
    BY <1>2
  <2>2. PICK g : g = [T \in Upto(n + 1) |-> CordSubBody(f, T)]
    OBVIOUS
  <2>3. ASSUME NEW T \in Upto(n) PROVE f[T] = g[T]
    <3>1. T \in Upto(n + 1)
      BY CordLength, CordAssumption DEF Upto, Index
    <3> QED BY <2>1, <2>2, <3>1, Zenon
  <2>4. ASSUME NEW T \in Upto(n + 1) PROVE CordSubBody(g, T) = CordSubBody(f, T)
    <3>1. HasParts(T) => g[T.left] = f[T.left] /\ g[T.right] = f[T.right]
      BY <2>3, PartsUpto
    <3>2. T \in CordOrNull
      BY DEF Upto
    <3> QED BY <3>1, <3>2, CordSubFromParts
  <2>5. g = [T \in Upto(n + 1) |-> CordSubBody(g, T)]
    BY <2>2, <2>4, Zenon
  <2> QED BY <2>5
<1>3. SizeMax \in G
  <2> HIDE DEF G
  <2> QED BY <1>1, <1>2, Counting, CordAssumption
<1> QED BY <1>3, UptoAll

-----------------------------------------------------------------------------
(***************************************************************************)
(* Each operator on cords is applying such a function.                     *)
(***************************************************************************)

LEMMA TextIs ==
  \E f : /\ \A R : Text(R) = f[R]
        /\ \A R \in CordOrNull : f[R] = TextBody(f, R)
<1>1. PICK f : f = CHOOSE g : g = [T \in CordOrNull |-> TextBody(g, T)]
  OBVIOUS
<1>2. f = [T \in CordOrNull |-> TextBody(f, T)]
  BY <1>1, TextExists, Zenon
<1>3. \A R : Text(R) = f[R]
  BY <1>1 DEF Text, TextBody
<1> QED BY <1>2, <1>3, Zenon

LEMMA IsCordIs ==
  \E f : /\ \A R : IsCord(R) = f[R]
        /\ \A R \in CordOrNull : f[R] = IsCordBody(f, R)
<1>1. PICK f : f = CHOOSE g : g = [T \in CordOrNull |-> IsCordBody(g, T)]
  OBVIOUS
<1>2. f = [T \in CordOrNull |-> IsCordBody(f, T)]
  BY <1>1, IsCordExists, Zenon
<1>3. \A R : IsCord(R) = f[R]
  BY <1>1 DEF IsCord, IsCordBody
<1> QED BY <1>2, <1>3, Zenon

LEMMA TerminatedIs ==
  \E f : /\ \A R : Terminated(R) = f[R]
        /\ \A R \in CordOrNull : f[R] = TerminatedBody(f, R)
<1>1. PICK f : f = CHOOSE g : g = [T \in CordOrNull |-> TerminatedBody(g, T)]
  OBVIOUS
<1>2. f = [T \in CordOrNull |-> TerminatedBody(f, T)]
  BY <1>1, TerminatedExists, Zenon
<1>3. \A R : Terminated(R) = f[R]
  BY <1>1 DEF Terminated, TerminatedBody
<1> QED BY <1>2, <1>3, Zenon

LEMMA CharAtIs ==
  \E f : /\ \A R, i : CharAt(R, i) = f[R][i]
        /\ \A R \in CordOrNull : f[R] = CharAtBody(f, R)
<1>1. PICK f : f = CHOOSE g : g = [T \in CordOrNull |-> CharAtBody(g, T)]
  OBVIOUS
<1>2. f = [T \in CordOrNull |-> CharAtBody(f, T)]
  BY <1>1, CharAtExists, Zenon
<1>3. \A R, i : CharAt(R, i) = f[R][i]
  BY <1>1 DEF CharAt, CharAtBody, CharAtFrom
<1> QED BY <1>2, <1>3, Zenon

LEMMA CordSubIs ==
  \E f : /\ \A R, lo, hi : CordSub(R, lo, hi) = f[R][lo][hi]
        /\ \A R \in CordOrNull : f[R] = CordSubBody(f, R)
<1>1. PICK f : f = CHOOSE g : g = [T \in CordOrNull |-> CordSubBody(g, T)]
  OBVIOUS
<1>2. f = [T \in CordOrNull |-> CordSubBody(f, T)]
  BY <1>1, CordSubExists, Zenon
<1>3. \A R, lo, hi : CordSub(R, lo, hi) = f[R][lo][hi]
  BY <1>1 DEF CordSub, CordSubBody, CordSubFrom
<1> QED BY <1>2, <1>3, Zenon

-----------------------------------------------------------------------------
(***************************************************************************)
(* Strings.                                                                *)
(***************************************************************************)
LEMMA TextOf ==
  /\ Text(Null) = <<>>
  /\ \A R \in Cord : Text(R) = IF IsLeaf(R) THEN SubSeq(R.data, 1, R.len)
                              ELSE Text(R.left) \o Text(R.right)
<1>1. PICK f : /\ \A R : Text(R) = f[R]
               /\ \A R \in CordOrNull : f[R] = TextBody(f, R)
  BY TextIs
<1> QED BY <1>1, NullAssumption DEF TextBody, CordOrNull

\* The characters of a leaf, and the byte after them.
LEMMA LeafData ==
  ASSUME NEW n \in Nat, NEW s \in [1 .. n -> Char], NEW b \in Char \cup {Nul},
         NEW d, d = Append(s, b)
  PROVE  /\ s \in Seq(Char) /\ Len(s) = n
         /\ d \in Seq(Char \cup {Nul}) /\ Len(d) = n + 1
         /\ \A i \in 1 .. n : d[i] = s[i]
         /\ d[n + 1] = b
         /\ SubSeq(d, 1, n) = s
<1>1. s \in Seq(Char) /\ Len(s) = n /\ s \in Seq(Char \cup {Nul})
  OBVIOUS
<1>2. /\ d \in Seq(Char \cup {Nul}) /\ Len(d) = n + 1
      /\ \A i \in 1 .. n : d[i] = s[i]
      /\ d[n + 1] = b
  BY <1>1
<1>3. SubSeq(d, 1, n) = s
  <2>1. PICK u : u = SubSeq(d, 1, n)
    OBVIOUS
  <2>2. u \in Seq(Char \cup {Nul}) /\ Len(u) = n /\ \A i \in 1 .. n : u[i] = d[i]
    BY <1>2, <2>1
  <2>3. u = s
    BY <1>1, <1>2, <2>2
  <2> QED BY <2>1, <2>3
<1> QED BY <1>1, <1>2, <1>3

LEMMA LeafFacts ==
  ASSUME NEW R \in Cord, IsLeaf(R)
  PROVE  /\ R.len \in 1 .. SizeMax /\ R.len \in Nat
         /\ R.left = Null /\ R.right = Null
         /\ \E s \in [1 .. R.len -> Char], b \in Junk \cup {Nul} :
              R.data = Append(s, b)
         /\ R.data \in Seq(Char \cup {Nul}) /\ Len(R.data) = R.len + 1
         /\ \A i \in 1 .. R.len : R.data[i] \in Char
         /\ Text(R) \in Seq(Char) /\ Len(Text(R)) = R.len
         /\ \A i \in 1 .. R.len : Text(R)[i] = R.data[i]
<1>1. /\ R.len \in 1 .. SizeMax /\ R.len \in Nat
      /\ \E s \in [1 .. R.len -> Char], b \in Junk \cup {Nul} :
           R = Leaf(R.len, Append(s, b))
  BY LeafOrNode, CordAssumption
<1>2. PICK s \in [1 .. R.len -> Char], b \in Junk \cup {Nul} :
           R = Leaf(R.len, Append(s, b))
  BY <1>1
<1>3. R.data = Append(s, b) /\ R.left = Null /\ R.right = Null /\ b \in Char \cup {Nul}
  BY <1>2, CordAssumption DEF Leaf
<1>4. PICK n, d : n = R.len /\ d = R.data
  OBVIOUS
<1>5. /\ s \in Seq(Char) /\ Len(s) = n
      /\ d \in Seq(Char \cup {Nul}) /\ Len(d) = n + 1
      /\ \A i \in 1 .. n : d[i] = s[i]
      /\ SubSeq(d, 1, n) = s
  <2>1. n \in Nat /\ s \in [1 .. n -> Char] /\ d = Append(s, b)
    BY <1>1, <1>3, <1>4
  <2> QED BY <1>3, <2>1, LeafData
<1>6. Text(R) = s
  BY <1>4, <1>5, TextOf
<1>7. \A i \in 1 .. n : s[i] \in Char
  BY <1>4
<1> QED BY <1>1, <1>3, <1>4, <1>5, <1>6, <1>7

LEMMA NodeFacts ==
  ASSUME NEW R \in Cord, ~ IsLeaf(R)
  PROVE  /\ R.left \in Cord /\ R.right \in Cord
         /\ R.left # Null /\ R.right # Null
         /\ R.left.len \in Nat \ {0} /\ R.right.len \in Nat \ {0}
         /\ R.len = R.left.len + R.right.len
         /\ R.len \in 1 .. SizeMax /\ R.len \in Nat
         /\ Length(R.left) = R.left.len /\ Length(R.right) = R.right.len
         /\ Text(R) = Text(R.left) \o Text(R.right)
<1>1. /\ R.left \in Cord /\ R.right \in Cord
      /\ R.len = R.left.len + R.right.len /\ R.len \in 1 .. SizeMax
  BY LeafOrNode
<1>2. R.left.len \in 1 .. SizeMax /\ R.right.len \in 1 .. SizeMax
  BY <1>1, LeafOrNode
<1>3. R.left # Null /\ R.right # Null
  BY <1>1, NullAssumption
<1> QED BY <1>1, <1>2, <1>3, TextOf, CordAssumption DEF Length

(***************************************************************************)
(* A cord is as long as its string.                                        *)
(***************************************************************************)
LEMMA TextLength ==
  ASSUME NEW R \in Cord
  PROVE  Text(R) \in Seq(Char) /\ Len(Text(R)) = R.len
<1> DEFINE G == {T \in Cord : Text(T) \in Seq(Char) /\ Len(Text(T)) = T.len}
<1>1. ASSUME NEW T \in Cord, IsLeaf(T) PROVE T \in G
  BY <1>1, LeafFacts
<1>2. ASSUME NEW T \in Cord, ~ IsLeaf(T), T.left \in G, T.right \in G
      PROVE  T \in G
  <2>1. PICK s, t : s = Text(T.left) /\ t = Text(T.right)
    OBVIOUS
  <2>2. /\ s \in Seq(Char) /\ t \in Seq(Char)
        /\ Len(s) = T.left.len /\ Len(t) = T.right.len
    BY <1>2, <2>1
  <2>3. Text(T) = s \o t /\ T.len = T.left.len + T.right.len
    BY <1>2, <2>1, NodeFacts
  <2>4. s \o t \in Seq(Char) /\ Len(s \o t) = Len(s) + Len(t)
    BY <2>2
  <2> QED BY <2>2, <2>3, <2>4
<1>3. Cord \subseteq G
  <2> HIDE DEF G
  <2> QED BY <1>1, <1>2, CordInduction
<1> QED BY <1>3

(***************************************************************************)
(* cord_charat finds the characters of the string.                         *)
(***************************************************************************)
LEMMA CharAtOf ==
  ASSUME NEW R \in CordOrNull, NEW i \in Index
  PROVE  CharAt(R, i) =
           IF i >= Length(R) THEN Null
           ELSE IF Length(R.left) + Length(R.right) = 0 THEN R.data[i + 1]
           ELSE IF i < Length(R.left) THEN CharAt(R.left, i)
           ELSE IF i < Length(R.left) + Length(R.right)
             THEN CharAt(R.right, i - Length(R.left))
           ELSE Nul
<1>1. PICK f : /\ \A T, j : CharAt(T, j) = f[T][j]
               /\ \A T \in CordOrNull : f[T] = CharAtBody(f, T)
  BY CharAtIs
<1>2. CharAt(R, i) = CharAtFrom(f, R, i)
  BY <1>1 DEF CharAtBody
<1> QED BY <1>1, <1>2 DEF CharAtFrom

LEMMA CharAtFinds ==
  ASSUME NEW R \in Cord, NEW i \in 0 .. R.len - 1
  PROVE  CharAt(R, i) = Text(R)[i + 1]
<1> DEFINE G == {T \in Cord : \A j \in 0 .. T.len - 1 : CharAt(T, j) = Text(T)[j + 1]}
<1>1. ASSUME NEW T \in Cord, IsLeaf(T) PROVE T \in G
  <2>1. ASSUME NEW j \in 0 .. T.len - 1 PROVE CharAt(T, j) = Text(T)[j + 1]
    <3>1. /\ T.len \in 1 .. SizeMax /\ T.left = Null /\ T.right = Null
          /\ Text(T)[j + 1] = T.data[j + 1] /\ T # Null
      <4>1. PICK n : n = T.len
        OBVIOUS
      <4>2. n \in Nat /\ \A k \in 1 .. n : Text(T)[k] = T.data[k]
        BY <1>1, <4>1, LeafFacts
      <4>3. j + 1 \in 1 .. n
        BY <4>1, <4>2
      <4> QED BY <1>1, <4>2, <4>3, LeafFacts, NullAssumption
    <3>2. j \in Index /\ ~ (j >= Length(T)) /\ Length(T.left) + Length(T.right) = 0
      BY <3>1, CordAssumption DEF Index, Length
    <3> QED BY <3>1, <3>2, CharAtOf DEF CordOrNull
  <2> QED BY <2>1
<1>2. ASSUME NEW T \in Cord, ~ IsLeaf(T), T.left \in G, T.right \in G
      PROVE  T \in G
  <2>1. ASSUME NEW j \in 0 .. T.len - 1 PROVE CharAt(T, j) = Text(T)[j + 1]
    <3>1. PICK n, m, s, t : /\ n = T.left.len /\ m = T.right.len
                            /\ s = Text(T.left) /\ t = Text(T.right)
      OBVIOUS
    <3>2. /\ n \in Nat \ {0} /\ m \in Nat \ {0} /\ T.len = n + m /\ T.len \in 1 .. SizeMax
          /\ Length(T.left) = n /\ Length(T.right) = m /\ T # Null /\ Length(T) = T.len
          /\ Text(T) = s \o t
      BY <1>2, <3>1, NodeFacts, NullAssumption DEF Length
    <3>3. s \in Seq(Char) /\ t \in Seq(Char) /\ Len(s) = n /\ Len(t) = m
      BY <1>2, <3>1, NodeFacts, TextLength
    <3>4. j \in Index /\ j \in Nat /\ ~ (j >= Length(T)) /\ n + m # 0 /\ j < n + m
      BY <3>2, CordAssumption DEF Index
    <3>5. CharAt(T, j) = IF j < n THEN CharAt(T.left, j) ELSE CharAt(T.right, j - n)
      BY <3>2, <3>4, CharAtOf DEF CordOrNull
    <3>6. CASE j < n
      <4>1. CharAt(T.left, j) = s[j + 1]
        BY <1>2, <3>1, <3>2, <3>4, <3>6
      <4>2. (s \o t)[j + 1] = s[j + 1]
        BY <3>3, <3>4, <3>6
      <4> QED BY <3>2, <3>5, <3>6, <4>1, <4>2
    <3>7. CASE ~ (j < n)
      <4>1. j - n \in 0 .. m - 1
        BY <3>2, <3>4, <3>7
      <4>2. CharAt(T.right, j - n) = t[(j - n) + 1]
        BY <1>2, <3>1, <4>1
      <4>3. (s \o t)[j + 1] = t[(j - n) + 1]
        BY <3>3, <3>4, <3>7, <3>2
      <4> QED BY <3>2, <3>5, <3>7, <4>2, <4>3
    <3> QED BY <3>6, <3>7
  <2> QED BY <2>1
<1>3. Cord \subseteq G
  <2> HIDE DEF G
  <2> QED BY <1>1, <1>2, CordInduction
<1> QED BY <1>3

-----------------------------------------------------------------------------
(***************************************************************************)
(* is_cord accepts the cords all of whose leaves end with a NUL.           *)
(***************************************************************************)
LEMMA StrLenOfLeaf ==
  ASSUME NEW d \in Seq(Char \cup {Nul}), NEW n \in Nat, Len(d) = n + 1,
         \A i \in 1 .. n : d[i] \in Char
  PROVE  n = StrLen(d) <=> d[n + 1] = Nul
<1>1. \A i \in 1 .. n : d[i] # Nul
  BY CordAssumption
<1>2. DOMAIN d = 1 .. n + 1
  OBVIOUS
<1>3. CASE d[n + 1] = Nul
  <2> DEFINE Ends(i) == d[i] = Nul /\ \A j \in 1 .. i - 1 : d[j] # Nul
  <2>1. n + 1 \in DOMAIN d /\ Ends(n + 1)
    BY <1>1, <1>2, <1>3
  <2>2. \A i \in DOMAIN d : Ends(i) => i = n + 1
    BY <1>1, <1>2
  <2>3. (CHOOSE i \in DOMAIN d : Ends(i)) = n + 1
    <3> HIDE DEF Ends
    <3> QED BY <2>1, <2>2
  <2>4. StrLen(d) = (CHOOSE i \in DOMAIN d : Ends(i)) - 1
    BY <1>2, <1>3 DEF StrLen
  <2>5. PICK c : c = CHOOSE i \in DOMAIN d : Ends(i)
    OBVIOUS
  <2>6. c = n + 1 /\ StrLen(d) = c - 1
    <3> HIDE DEF Ends
    <3> QED BY <2>3, <2>4, <2>5, Zenon
  <2> HIDE DEF Ends
  <2> QED BY <1>3, <2>6
<1>4. CASE d[n + 1] # Nul
  <2>1. ~ \E i \in DOMAIN d : d[i] = Nul
    BY <1>1, <1>2, <1>4
  <2>2. StrLen(d) = n + 1
    BY <2>1 DEF StrLen
  <2> QED BY <1>4, <2>2
<1> QED BY <1>3, <1>4

LEMMA IsCordMeans ==
  ASSUME NEW R \in Cord
  PROVE  IsCord(R) <=> Terminated(R)
<1>1. PICK f : /\ \A T : IsCord(T) = f[T]
               /\ \A T \in CordOrNull : f[T] = IsCordBody(f, T)
  BY IsCordIs
<1>2. PICK g : /\ \A T : Terminated(T) = g[T]
               /\ \A T \in CordOrNull : g[T] = TerminatedBody(g, T)
  BY TerminatedIs
<1> DEFINE G == {T \in Cord : f[T] <=> g[T]}
<1>3. ASSUME NEW T \in Cord, IsLeaf(T) PROVE T \in G
  <2>1. PICK n, d : n = T.len /\ d = T.data
    OBVIOUS
  <2>2. /\ n \in Nat /\ n > 0 /\ T.left = Null /\ d \in Seq(Char \cup {Nul})
        /\ Len(d) = n + 1 /\ (\A i \in 1 .. n : d[i] \in Char) /\ T # Null
    BY <1>3, <2>1, LeafFacts, NullAssumption
  <2>3. n = StrLen(d) <=> d[n + 1] = Nul
    BY <2>2, StrLenOfLeaf
  <2>4. d # Null
    BY <2>2, NullAssumption
  <2>5. f[T] <=> n = StrLen(d)
    BY <1>1, <1>3, <2>1, <2>2, <2>4 DEF IsCordBody, CordOrNull
  <2>6. g[T] <=> d[n + 1] = Nul
    BY <1>2, <1>3, <2>1, <2>2 DEF TerminatedBody, CordOrNull
  <2> QED BY <2>3, <2>5, <2>6
<1>4. ASSUME NEW T \in Cord, ~ IsLeaf(T), T.left \in G, T.right \in G
      PROVE  T \in G
  <2>1. /\ T # Null /\ T.left # Null /\ T.right # Null /\ T.len > 0
        /\ T.len - T.left.len = T.right.len
    BY <1>4, NodeFacts, NullAssumption
  <2>2. f[T] <=> f[T.left] /\ f[T.right]
    BY <1>1, <1>4, <2>1 DEF IsCordBody, CordOrNull
  <2>3. g[T] <=> g[T.left] /\ g[T.right]
    BY <1>2, <1>4, <2>1 DEF TerminatedBody, CordOrNull
  <2> QED BY <1>4, <2>2, <2>3
<1>5. Cord \subseteq G
  <2> HIDE DEF G
  <2> QED BY <1>3, <1>4, CordInduction
<1> QED BY <1>1, <1>2, <1>5

-----------------------------------------------------------------------------
(***************************************************************************)
(* cord_sub.  Parts of a string that is two strings:                       *)
(***************************************************************************)
LEMMA SubSeqIs ==
  ASSUME NEW s \in Seq(Char), NEW lo \in Nat, NEW hi \in Nat, lo <= hi, hi <= Len(s)
  PROVE  /\ SubSeq(s, lo + 1, hi) \in Seq(Char)
         /\ Len(SubSeq(s, lo + 1, hi)) = hi - lo
         /\ \A i \in 1 .. hi - lo : SubSeq(s, lo + 1, hi)[i] = s[lo + i]
OBVIOUS

\* Strings with the same characters are the same.
LEMMA SameString ==
  ASSUME NEW u \in Seq(Char), NEW v \in Seq(Char), NEW n \in Nat,
         Len(u) = n, Len(v) = n, \A i \in 1 .. n : u[i] = v[i]
  PROVE  u = v
OBVIOUS

\* y is s, of m characters, and then t, of k.
IsConcat(y, s, m, t, k) ==
  /\ y \in Seq(Char) /\ Len(y) = m + k
  /\ \A i \in 1 .. m : y[i] = s[i]
  /\ \A i \in 1 .. k : y[m + i] = t[i]

LEMMA ConcatIs ==
  ASSUME NEW s \in Seq(Char), NEW t \in Seq(Char), NEW m \in Nat, NEW k \in Nat,
         Len(s) = m, Len(t) = k
  PROVE  IsConcat(s \o t, s, m, t, k)
BY DEF IsConcat

\* Where the characters lo to hi - 1 of s \o t are, when s has n.
SubInParts(s, t, n, lo, hi) ==
  /\ hi <= n => SubSeq(s \o t, lo + 1, hi) = SubSeq(s, lo + 1, hi)
  /\ n <= lo => SubSeq(s \o t, lo + 1, hi) = SubSeq(t, (lo - n) + 1, hi - n)
  /\ lo < n /\ n < hi =>
       SubSeq(s \o t, lo + 1, hi) = SubSeq(s, lo + 1, n) \o SubSeq(t, 0 + 1, hi - n)

LEMMA SubOfJoin ==
  ASSUME NEW s \in Seq(Char), NEW t \in Seq(Char), NEW n, n = Len(s),
         NEW lo \in Nat, NEW hi \in Nat, lo <= hi, hi <= n + Len(t)
  PROVE  SubInParts(s, t, n, lo, hi)
<1>1. PICK w : w = s \o t
  OBVIOUS
<1>2. /\ w \in Seq(Char) /\ Len(w) = n + Len(t) /\ n \in Nat
      /\ \A i \in 1 .. n : w[i] = s[i]
      /\ \A i \in 1 .. Len(t) : w[n + i] = t[i]
  BY <1>1
<1>3. PICK u : u = SubSeq(w, lo + 1, hi)
  OBVIOUS
<1>4. /\ u \in Seq(Char) /\ Len(u) = hi - lo
      /\ \A i \in 1 .. hi - lo : u[i] = w[lo + i]
  BY <1>2, <1>3, SubSeqIs
<1>5. ASSUME hi <= n PROVE u = SubSeq(s, lo + 1, hi)
  <2>1. PICK v : v = SubSeq(s, lo + 1, hi)
    OBVIOUS
  <2>2. /\ v \in Seq(Char) /\ Len(v) = hi - lo
        /\ \A i \in 1 .. hi - lo : v[i] = s[lo + i]
    BY <1>5, <2>1, SubSeqIs
  <2>3. \A i \in 1 .. hi - lo : u[i] = v[i]
    <3>1. \A i \in 1 .. hi - lo : lo + i \in 1 .. n
      BY <1>2, <1>5
    <3> QED BY <1>2, <1>4, <2>2, <3>1
  <2>4. hi - lo \in Nat
    OBVIOUS
  <2> QED BY <1>4, <2>1, <2>2, <2>3, <2>4, SameString
<1>6. ASSUME n <= lo PROVE u = SubSeq(t, (lo - n) + 1, hi - n)
  <2>1. PICK v : v = SubSeq(t, (lo - n) + 1, hi - n)
    OBVIOUS
  <2>2. PICK a, b : a = lo - n /\ b = hi - n
    OBVIOUS
  <2>3. a \in Nat /\ b \in Nat /\ a <= b /\ b <= Len(t)
    BY <1>2, <1>6, <2>2
  <2>4. /\ v \in Seq(Char) /\ Len(v) = b - a
        /\ \A i \in 1 .. b - a : v[i] = t[a + i]
    BY <2>1, <2>2, <2>3, SubSeqIs
  <2>5. ASSUME NEW i \in 1 .. hi - lo PROVE u[i] = v[i]
    <3>1. i \in 1 .. b - a /\ a + i \in 1 .. Len(t) /\ n + (a + i) = lo + i
      BY <1>2, <2>2, <2>3
    <3> QED BY <1>2, <1>4, <2>4, <3>1
  <2>6. hi - lo \in Nat /\ hi - lo = b - a
    BY <1>2, <2>2
  <2> QED BY <1>4, <2>1, <2>2, <2>4, <2>5, <2>6, SameString
<1>7. ASSUME lo < n, n < hi
      PROVE  u = SubSeq(s, lo + 1, n) \o SubSeq(t, 0 + 1, hi - n)
  <2>1. PICK v, x, k : v = SubSeq(s, lo + 1, n) /\ k = hi - n /\ x = SubSeq(t, 0 + 1, k)
    OBVIOUS
  <2>2. /\ v \in Seq(Char) /\ Len(v) = n - lo
        /\ \A i \in 1 .. n - lo : v[i] = s[lo + i]
    BY <1>2, <1>7, <2>1, SubSeqIs
  <2>3. k \in Nat /\ 0 <= k /\ k <= Len(t) /\ 0 \in Nat
    BY <1>2, <1>7, <2>1
  <2>4. /\ x \in Seq(Char) /\ Len(x) = k - 0
        /\ \A i \in 1 .. k - 0 : x[i] = t[0 + i]
    BY <2>1, <2>3, SubSeqIs
  <2>5. PICK y : y = v \o x
    OBVIOUS
  <2>6. /\ y \in Seq(Char) /\ Len(y) = hi - lo
        /\ \A i \in 1 .. n - lo : y[i] = v[i]
        /\ \A i \in 1 .. k : y[(n - lo) + i] = x[i]
    <3>1. PICK m : m = n - lo
      OBVIOUS
    <3>2. m \in Nat /\ Len(v) = m /\ Len(x) = k /\ hi - lo = m + k
      BY <1>2, <1>7, <2>1, <2>2, <2>3, <2>4, <3>1
    <3>3. /\ y \in Seq(Char) /\ Len(y) = m + k
          /\ \A i \in 1 .. m : y[i] = v[i]
          /\ \A i \in 1 .. k : y[m + i] = x[i]
      <4>1. /\ v \in Seq(Char) /\ x \in Seq(Char) /\ m \in Nat /\ k \in Nat
            /\ Len(v) = m /\ Len(x) = k
        BY <2>2, <2>3, <2>4, <3>2
      <4>2. IsConcat(v \o x, v, m, x, k)
        BY ONLY <4>1, ConcatIs
      <4> QED BY ONLY <2>5, <4>2 DEF IsConcat
    <3> QED BY <3>1, <3>2, <3>3
  <2>7. ASSUME NEW i \in 1 .. hi - lo PROVE u[i] = y[i]
    <3>1. CASE i <= n - lo
      <4>1. i \in 1 .. n - lo /\ lo + i \in 1 .. n
        BY <1>2, <1>7, <3>1
      <4> QED BY <1>2, <1>4, <2>2, <2>6, <4>1
    <3>2. CASE ~ (i <= n - lo)
      <4>1. PICK j : j = i - (n - lo)
        OBVIOUS
      <4>2. /\ j \in 1 .. k /\ j \in 1 .. Len(t) /\ (n - lo) + j = i /\ n + j = lo + i
            /\ j \in 1 .. k - 0 /\ 0 + j = j
        BY <1>2, <1>7, <2>1, <2>3, <3>2, <4>1
      <4>3. u[i] = w[n + j] /\ w[n + j] = t[j]
        BY <1>2, <1>4, <4>2
      <4>4. y[i] = x[j] /\ x[j] = t[j]
        BY <2>4, <2>6, <4>2
      <4> QED BY <4>3, <4>4
    <3> QED BY <1>2, <3>1, <3>2
  <2>8. hi - lo \in Nat
    OBVIOUS
  <2>9. u = y
    BY <1>4, <2>6, <2>7, <2>8, SameString
  <2> QED BY <2>1, <2>5, <2>9
<1> QED BY <1>1, <1>3, <1>5, <1>6, <1>7 DEF SubInParts

\* No characters, and all of them.
LEMMA SubEnds ==
  ASSUME NEW s \in Seq(Char), NEW k \in Nat
  PROVE  /\ SubSeq(s, k + 1, k) = <<>>
         /\ SubSeq(s, 0 + 1, Len(s)) = s
OBVIOUS

\* cord_new and strncpy: the text of a leaf is the characters given to it.
LEMMA LeafText ==
  ASSUME NEW n \in 1 .. SizeMax, NEW s \in [1 .. n -> Char], NEW b \in Junk \cup {Nul}
  PROVE  /\ Leaf(n, Append(s, b)) \in Cord
         /\ Text(Leaf(n, Append(s, b))) = s
         /\ Length(Leaf(n, Append(s, b))) = n
<1>1. PICK S : S = Leaf(n, Append(s, b))
  OBVIOUS
<1>2. S \in Cord /\ S # Null
  BY <1>1, LeafIsCord, NullAssumption
<1>3. S.len = n /\ S.data = Append(s, b) /\ IsLeaf(S)
  BY <1>1 DEF Leaf, IsLeaf
<1>4. SubSeq(S.data, 1, n) = s
  <2>1. n \in Nat /\ b \in Char \cup {Nul}
    BY CordAssumption
  <2> QED BY <1>3, <2>1, LeafData
<1> QED BY <1>1, <1>2, <1>3, <1>4, TextOf DEF Length

\* The cords with a first part from X and a second one from Y.
Nodes(k, X, Y) == {Node(k, L, S) : L \in X, S \in Y}

LEMMA CordSubOf ==
  ASSUME NEW R \in CordOrNull, NEW lo \in Index, NEW hi \in Index
  PROVE  CordSub(R, lo, hi) =
    IF lo > hi \/ hi > Length(R) THEN {}
    ELSE IF lo = hi THEN {Null}
    ELSE IF lo = 0 /\ hi = R.len THEN {R}
    ELSE IF IsLeaf(R) THEN LeafSub(R, lo, hi)
    ELSE IF lo < Length(R.left) /\ hi <= Length(R.left) THEN CordSub(R.left, lo, hi)
    ELSE IF lo < Length(R.left) /\ Length(R.left) < hi
      THEN Nodes(hi - lo, CordSub(R.left, lo, Length(R.left)),
                          CordSub(R.right, 0, hi - Length(R.left)))
    ELSE IF Length(R.left) <= lo /\ hi <= Length(R.left) + Length(R.right)
      THEN CordSub(R.right, lo - Length(R.left), hi - Length(R.left))
    ELSE {Null}
<1>1. PICK f : /\ \A T, i, j : CordSub(T, i, j) = f[T][i][j]
               /\ \A T \in CordOrNull : f[T] = CordSubBody(f, T)
  BY CordSubIs
<1>2. CordSub(R, lo, hi) = CordSubFrom(f, R, lo, hi)
  <2>1. f[R] = [i \in Index |-> [j \in Index |-> CordSubFrom(f, R, i, j)]]
    BY <1>1 DEF CordSubBody
  <2>2. f[R][lo] = [j \in Index |-> CordSubFrom(f, R, lo, j)]
    BY <2>1, Zenon
  <2>3. f[R][lo][hi] = CordSubFrom(f, R, lo, hi)
    BY <2>2, Zenon
  <2> QED BY <1>1, <2>3
<1>3. PICK n, k, X, Y, Z, W :
        /\ n = Length(R.left) /\ k = Length(R.right)
        /\ X = f[R.left][lo][n] /\ Y = f[R.right][0][hi - n]
        /\ Z = f[R.left][lo][hi] /\ W = f[R.right][lo - n][hi - n]
  OBVIOUS
<1>4. /\ X = CordSub(R.left, lo, n) /\ Y = CordSub(R.right, 0, hi - n)
      /\ Z = CordSub(R.left, lo, hi) /\ W = CordSub(R.right, lo - n, hi - n)
  BY <1>1, <1>3, Zenon
<1>5. CordSubFrom(f, R, lo, hi) =
        IF lo > hi \/ hi > Length(R) THEN {}
        ELSE IF lo = hi THEN {Null}
        ELSE IF lo = 0 /\ hi = R.len THEN {R}
        ELSE IF IsLeaf(R) THEN LeafSub(R, lo, hi)
        ELSE IF lo < n /\ hi <= n THEN Z
        ELSE IF lo < n /\ n < hi THEN Nodes(hi - lo, X, Y)
        ELSE IF n <= lo /\ hi <= n + k THEN W
        ELSE {Null}
  BY ONLY <1>3 DEF CordSubFrom, Nodes
<1> QED BY ONLY <1>2, <1>3, <1>4, <1>5

\* cord_sub(R, lo, hi) has a result, and every result is a cord of the substring.
SubGood(R, lo, hi) ==
  /\ CordSub(R, lo, hi) # {}
  /\ \A S \in CordSub(R, lo, hi) :
       /\ S \in CordOrNull /\ Length(S) = hi - lo
       /\ Text(S) = SubSeq(Text(R), lo + 1, hi)

AllSubsGood(R) ==
  \A lo, hi \in Index : lo <= hi /\ hi <= Length(R) => SubGood(R, lo, hi)

\* The empty string and the whole one.
LEMMA SubOfEnds ==
  ASSUME NEW R \in CordOrNull, NEW lo \in Index, NEW hi \in Index,
         lo <= hi, hi <= Length(R), lo = hi \/ (lo = 0 /\ hi = R.len /\ R # Null)
  PROVE  SubGood(R, lo, hi)
<1>1. /\ lo \in Nat /\ hi \in Nat /\ Length(R) \in Nat
      /\ Text(R) \in Seq(Char) /\ Len(Text(R)) = Length(R)
  <2>1. CASE R = Null
    BY <2>1, TextOf, CordAssumption DEF Length, Index
  <2>2. CASE R # Null
    <3>1. R \in Cord /\ R.len \in Nat
      BY <2>2, LeafOrNode, CordAssumption DEF CordOrNull
    <3> QED BY <2>2, <3>1, TextLength, CordAssumption DEF Length, Index
  <2> QED BY <2>1, <2>2
<1>2. ~ (lo > hi \/ hi > Length(R))
  BY <1>1
<1>3. CASE lo = hi
  <2>1. CordSub(R, lo, hi) = {Null}
    BY <1>2, <1>3, CordSubOf
  <2>2. SubSeq(Text(R), lo + 1, hi) = <<>>
    BY <1>1, <1>3, SubEnds
  <2>3. Length(Null) = hi - lo
    BY <1>1, <1>3 DEF Length
  <2> QED BY <2>1, <2>2, <2>3, TextOf DEF SubGood, CordOrNull
<1>4. CASE lo # hi /\ lo = 0 /\ hi = R.len /\ R # Null
  <2>1. CordSub(R, lo, hi) = {R}
    BY <1>2, <1>4, CordSubOf
  <2>2. Length(R) = hi /\ hi - lo = hi
    <3>1. Length(R) = R.len
      BY <1>4 DEF Length
    <3> QED BY <1>1, <1>4, <3>1
  <2>3. SubSeq(Text(R), lo + 1, hi) = Text(R)
    <3>1. PICK s : s = Text(R)
      OBVIOUS
    <3>2. s \in Seq(Char) /\ Len(s) = hi
      BY <1>1, <2>2, <3>1
    <3>3. SubSeq(s, 0 + 1, hi) = s
      BY <3>2, SubEnds
    <3> QED BY <1>4, <3>1, <3>3
  <2> QED BY <2>1, <2>2, <2>3 DEF SubGood
<1> QED BY <1>3, <1>4

\* Some characters of a leaf.
LEMMA SubOfLeaf ==
  ASSUME NEW R \in Cord, IsLeaf(R), NEW lo \in Index, NEW hi \in Index,
         lo < hi, hi <= Length(R), ~ (lo = 0 /\ hi = R.len)
  PROVE  SubGood(R, lo, hi)
<1>1. PICK n, d, s, k : n = R.len /\ d = R.data /\ s = Text(R) /\ k = hi - lo
  OBVIOUS
<1>2. /\ n \in 1 .. SizeMax /\ n \in Nat /\ R # Null /\ Length(R) = n
      /\ d \in Seq(Char \cup {Nul}) /\ Len(d) = n + 1
      /\ s \in Seq(Char) /\ Len(s) = n
      /\ \A i \in 1 .. n : s[i] = d[i] /\ d[i] \in Char
  BY <1>1, LeafFacts, NullAssumption DEF Length
<1>3. /\ lo \in Nat /\ hi \in Nat /\ k \in 1 .. SizeMax /\ hi <= n /\ k \in Nat
      /\ \A i \in 1 .. k : lo + i \in 1 .. n
  BY <1>1, <1>2, CordAssumption DEF Index
<1>4. PICK x : x = SubSeq(d, lo + 1, hi)
  OBVIOUS
<1>5. x \in Seq(Char \cup {Nul}) /\ Len(x) = k /\ \A i \in 1 .. k : x[i] = d[lo + i]
  BY <1>1, <1>2, <1>3, <1>4
<1>6. x \in [1 .. k -> Char]
  <2>1. \A i \in 1 .. k : x[i] \in Char
    BY <1>2, <1>3, <1>5
  <2> QED BY <1>3, <1>5, <2>1
<1>7. x = SubSeq(s, lo + 1, hi)
  <2>1. PICK v : v = SubSeq(s, lo + 1, hi)
    OBVIOUS
  <2>2. v \in Seq(Char) /\ Len(v) = k /\ \A i \in 1 .. k : v[i] = s[lo + i]
    <3>1. lo <= hi /\ hi <= Len(s)
      BY <1>2, <1>3
    <3> QED BY <1>1, <1>2, <1>3, <2>1, <3>1, SubSeqIs
  <2>3. \A i \in 1 .. k : x[i] = v[i]
    BY <1>2, <1>3, <1>5, <2>2
  <2>4. x \in Seq(Char) /\ Len(x) = k
    BY <1>3, <1>5, <1>6
  <2> QED BY <1>3, <2>1, <2>2, <2>3, <2>4, SameString
<1>8. CordSub(R, lo, hi) = {Leaf(k, Append(x, b)) : b \in Junk}
  <2>1. ~ (lo > hi \/ hi > Length(R)) /\ lo # hi
    BY <1>2, <1>3
  <2>2. CordSub(R, lo, hi) = LeafSub(R, lo, hi)
    BY <2>1, CordSubOf DEF CordOrNull
  <2> QED BY <1>1, <1>4, <2>2 DEF LeafSub
<1>9. ASSUME NEW b \in Junk, NEW S, S = Leaf(k, Append(x, b))
      PROVE  S \in Cord /\ Text(S) = x /\ Length(S) = k
  BY <1>3, <1>6, <1>9, LeafText
<1> QED BY <1>1, <1>7, <1>8, <1>9, CordAssumption DEF SubGood, CordOrNull

\* Some characters of a cord with parts.
LEMMA SubOfNode ==
  ASSUME NEW R \in Cord, ~ IsLeaf(R), AllSubsGood(R.left), AllSubsGood(R.right),
         NEW lo \in Index, NEW hi \in Index,
         lo < hi, hi <= Length(R), ~ (lo = 0 /\ hi = R.len)
  PROVE  SubGood(R, lo, hi)
<1>1. PICK n, m, s, t, A, B :
         /\ n = Length(R.left) /\ m = Length(R.right) /\ A = R.left /\ B = R.right
         /\ s = Text(R.left) /\ t = Text(R.right)
  OBVIOUS
<1>2. /\ n \in Nat \ {0} /\ m \in Nat \ {0} /\ R.len = n + m /\ R # Null
      /\ A \in Cord /\ B \in Cord /\ A.len = n /\ B.len = m
      /\ Length(R) = n + m /\ Text(R) = s \o t /\ n + m \in 1 .. SizeMax
  BY <1>1, NodeFacts, NullAssumption DEF Length
<1>3. s \in Seq(Char) /\ t \in Seq(Char) /\ Len(s) = n /\ Len(t) = m
  BY <1>1, <1>2, TextLength
<1>4. /\ lo \in Nat /\ hi \in Nat /\ lo <= hi /\ hi <= n + m
      /\ n \in Nat /\ m \in Nat /\ SizeMax \in Nat /\ n + m <= SizeMax
  BY <1>2, CordAssumption DEF Index
<1>5. /\ AllSubsGood(A) /\ AllSubsGood(B)
      /\ Length(A) = n /\ Length(B) = m /\ Text(A) = s /\ Text(B) = t
  BY <1>1
<1>6. CordSub(R, lo, hi) =
        IF hi <= n THEN CordSub(A, lo, hi)
        ELSE IF lo < n
          THEN Nodes(hi - lo, CordSub(A, lo, n), CordSub(B, 0, hi - n))
        ELSE CordSub(B, lo - n, hi - n)
  <2>1. ~ (lo > hi \/ hi > Length(R)) /\ lo # hi
    BY <1>2, <1>4
  <2>2. CordSub(R, lo, hi) =
        IF lo < n /\ hi <= n THEN CordSub(A, lo, hi)
        ELSE IF lo < n /\ n < hi
          THEN Nodes(hi - lo, CordSub(A, lo, n), CordSub(B, 0, hi - n))
        ELSE IF n <= lo /\ hi <= n + m THEN CordSub(B, lo - n, hi - n)
        ELSE {Null}
    BY <1>1, <2>1, CordSubOf DEF CordOrNull
  <2>3. (lo < n /\ hi <= n) <=> hi <= n
    BY <1>4
  <2>4. ~ (hi <= n) => ((lo < n /\ n < hi) <=> lo < n)
    BY <1>4
  <2>5. ~ (hi <= n) /\ ~ (lo < n) => n <= lo /\ hi <= n + m
    BY <1>4
  <2> QED BY <2>2, <2>3, <2>4, <2>5
<1>7. SubInParts(s, t, n, lo, hi)
  <2>1. /\ s \in Seq(Char) /\ t \in Seq(Char) /\ n = Len(s)
        /\ lo \in Nat /\ hi \in Nat /\ lo <= hi /\ hi <= n + Len(t)
    BY <1>3, <1>4
  <2> QED BY ONLY <2>1, SubOfJoin
<1>8. CASE hi <= n
  <2>1. SubGood(A, lo, hi)
    <3>1. lo <= hi /\ hi <= Length(A)
      BY <1>4, <1>5, <1>8
    <3> QED BY <1>5, <3>1 DEF AllSubsGood
  <2>2. CordSub(R, lo, hi) = CordSub(A, lo, hi)
    BY <1>6, <1>8
  <2>3. SubSeq(Text(R), lo + 1, hi) = SubSeq(Text(A), lo + 1, hi)
    BY <1>2, <1>5, <1>7, <1>8 DEF SubInParts
  <2> QED BY ONLY <2>1, <2>2, <2>3 DEF SubGood
<1>9. CASE ~ (hi <= n) /\ ~ (lo < n)
  <2>1. PICK a, c : a = lo - n /\ c = hi - n
    OBVIOUS
  <2>2. a \in Index /\ c \in Index /\ a <= c /\ c <= m /\ c - a = hi - lo /\ n <= lo
    BY ONLY <1>4, <1>9, <2>1 DEF Index
  <2>3. SubGood(B, a, c)
    BY <1>5, <2>2 DEF AllSubsGood
  <2>4. CordSub(R, lo, hi) = CordSub(B, a, c)
    BY <1>6, <1>9, <2>1
  <2>5. SubSeq(Text(R), lo + 1, hi) = SubSeq(t, a + 1, c)
    BY <1>2, <1>7, <2>1, <2>2 DEF SubInParts
  <2> QED BY <1>5, <2>2, <2>3, <2>4, <2>5 DEF SubGood
<1>10. CASE ~ (hi <= n) /\ lo < n
  <2>1. PICK c, X, Y : c = hi - n /\ X = CordSub(A, lo, n) /\ Y = CordSub(B, 0, c)
    OBVIOUS
  <2>2. /\ n \in Index /\ 0 \in Index /\ c \in Index /\ lo <= n /\ n <= Length(A)
        /\ 0 <= c /\ c <= Length(B) /\ c # 0 /\ c \in Nat /\ n - lo \in Nat /\ n - lo # 0
        /\ (n - lo) + (c - 0) = hi - lo /\ n < hi /\ hi - lo <= SizeMax /\ hi - lo \in Nat
        /\ c - 0 # 0
    BY <1>2, <1>4, <1>5, <1>10, <2>1 DEF Index
  <2>3. SubGood(A, lo, n) /\ SubGood(B, 0, c)
    BY <1>5, <2>2 DEF AllSubsGood
  <2>4. CordSub(R, lo, hi) = {Node(hi - lo, L, S) : L \in X, S \in Y}
    BY <1>6, <1>10, <2>1 DEF Nodes
  <2>5. ASSUME NEW L \in X, NEW S \in Y, NEW T, T = Node(hi - lo, L, S)
        PROVE  /\ T \in CordOrNull /\ Length(T) = hi - lo
               /\ Text(T) = SubSeq(Text(R), lo + 1, hi)
    <3>1. /\ L \in CordOrNull /\ Length(L) = n - lo /\ Text(L) = SubSeq(s, lo + 1, n)
          /\ S \in CordOrNull /\ Length(S) = c - 0 /\ Text(S) = SubSeq(t, 0 + 1, c)
      BY <1>5, <2>1, <2>3 DEF SubGood
    <3>2. L # Null /\ S # Null
      BY <2>2, <3>1 DEF Length
    <3>3. L \in Cord /\ S \in Cord /\ L.len = n - lo /\ S.len = c - 0
      BY <3>1, <3>2 DEF Length, CordOrNull
    <3>4. PICK k : k = hi - lo
      OBVIOUS
    <3>5. k = L.len + S.len /\ k <= SizeMax
      BY <2>2, <3>3, <3>4
    <3>6. T \in Cord /\ T = Node(k, L, S)
      BY <2>5, <3>3, <3>4, <3>5, NodeIsCord
    <3>7. T.left = L /\ T.right = S /\ T.len = k /\ ~ IsLeaf(T) /\ T # Null
      BY <3>2, <3>6, NullAssumption DEF Node, IsLeaf
    <3>8. Text(T) = Text(L) \o Text(S)
      BY <3>6, <3>7, TextOf
    <3>9. SubSeq(Text(R), lo + 1, hi) = SubSeq(s, lo + 1, n) \o SubSeq(t, 0 + 1, c)
      BY <1>2, <1>7, <1>10, <2>1, <2>2 DEF SubInParts
    <3> QED BY <3>1, <3>4, <3>6, <3>7, <3>8, <3>9 DEF Length, CordOrNull
  <2>6. PICK L \in X, S \in Y : TRUE
    BY <2>1, <2>3 DEF SubGood
  <2>7. Node(hi - lo, L, S) \in CordSub(R, lo, hi)
    BY <2>4
  <2>8. ASSUME NEW T \in CordSub(R, lo, hi)
        PROVE  /\ T \in CordOrNull /\ Length(T) = hi - lo
               /\ Text(T) = SubSeq(Text(R), lo + 1, hi)
    <3>1. \E P \in X, Q \in Y : T = Node(hi - lo, P, Q)
      BY <2>4
    <3> QED BY <2>5, <3>1
  <2> QED BY <2>7, <2>8 DEF SubGood
<1> QED BY <1>8, <1>9, <1>10

LEMMA SubsAreGood ==
  ASSUME NEW R \in CordOrNull
  PROVE  AllSubsGood(R)
<1> DEFINE G == {T \in Cord : AllSubsGood(T)}
<1>1. ASSUME NEW T \in Cord, IsLeaf(T) PROVE T \in G
  <2>1. ASSUME NEW lo \in Index, NEW hi \in Index, lo <= hi, hi <= Length(T)
        PROVE  SubGood(T, lo, hi)
    <3>1. CASE lo = hi \/ (lo = 0 /\ hi = T.len)
      BY <2>1, <3>1, SubOfEnds, NullAssumption DEF CordOrNull
    <3>2. CASE ~ (lo = hi \/ (lo = 0 /\ hi = T.len))
      <4>1. lo < hi
        BY <2>1, <3>2, CordAssumption DEF Index
      <4> QED BY <1>1, <2>1, <3>2, <4>1, SubOfLeaf
    <3> QED BY <3>1, <3>2
  <2> QED BY <2>1 DEF AllSubsGood
<1>2. ASSUME NEW T \in Cord, ~ IsLeaf(T), T.left \in G, T.right \in G
      PROVE  T \in G
  <2>1. ASSUME NEW lo \in Index, NEW hi \in Index, lo <= hi, hi <= Length(T)
        PROVE  SubGood(T, lo, hi)
    <3>1. CASE lo = hi \/ (lo = 0 /\ hi = T.len)
      BY <2>1, <3>1, SubOfEnds, NullAssumption DEF CordOrNull
    <3>2. CASE ~ (lo = hi \/ (lo = 0 /\ hi = T.len))
      <4>1. lo < hi
        BY <2>1, <3>2, CordAssumption DEF Index
      <4> QED BY <1>2, <2>1, <3>2, <4>1, SubOfNode
    <3> QED BY <3>1, <3>2
  <2> QED BY <2>1 DEF AllSubsGood
<1>3. Cord \subseteq G
  <2> HIDE DEF G
  <2> QED BY <1>1, <1>2, CordInduction
<1>4. AllSubsGood(Null)
  <2>1. ASSUME NEW lo \in Index, NEW hi \in Index, lo <= hi, hi <= Length(Null)
        PROVE  SubGood(Null, lo, hi)
    <3>1. lo = hi
      BY <2>1, CordAssumption DEF Index, Length
    <3> QED BY <2>1, <3>1, SubOfEnds DEF CordOrNull
  <2> QED BY <2>1 DEF AllSubsGood
<1> QED BY <1>3, <1>4 DEF CordOrNull

-----------------------------------------------------------------------------
(***************************************************************************)
(* The calls make cords.                                                   *)
(***************************************************************************)
LEMMA NewIsCord ==
  ASSUME NEW s \in Strings
  PROVE  CordNew(s) \in CordOrNull
<1>1. CASE s = <<>>
  BY <1>1 DEF CordNew, CordOrNull
<1>2. CASE s # <<>>
  <2>1. s \in Seq(Char) /\ Len(s) <= SizeMax
    BY CordAssumption
  <2>2. Len(s) \in 1 .. SizeMax /\ s \in [1 .. Len(s) -> Char]
    BY <1>2, <2>1, CordAssumption
  <2>3. Leaf(Len(s), Append(s, Nul)) \in Cord
    BY <2>2, LeafIsCord
  <2> QED BY <1>2, <2>3 DEF CordNew, CordOrNull
<1> QED BY <1>1, <1>2

LEMMA JoinIsCord ==
  ASSUME NEW R \in CordOrNull, NEW S \in CordOrNull
  PROVE  CordJoin(R, S) \in CordOrNull
<1>1. CASE R = Null \/ S = Null
  BY <1>1 DEF CordJoin
<1>2. CASE R # Null /\ S # Null
  <2>1. R \in Cord /\ S \in Cord
    BY <1>2 DEF CordOrNull
  <2>2. PICK n, m : n = R.len /\ m = S.len
    OBVIOUS
  <2>3. n \in Nat /\ m \in Nat
    BY <2>1, <2>2, LeafOrNode, CordAssumption
  <2>4. CASE n = 0 \/ m = 0 \/ n > SizeMax - m
    BY <1>2, <2>2, <2>4 DEF CordJoin, CordOrNull
  <2>5. CASE ~ (n = 0 \/ m = 0 \/ n > SizeMax - m)
    <3>1. n + m <= SizeMax
      BY <2>3, <2>5, CordAssumption
    <3>2. Node(n + m, R, S) \in Cord
      BY <2>1, <2>2, <3>1, NodeIsCord
    <3> QED BY <1>2, <2>2, <2>5, <3>2 DEF CordJoin, CordOrNull
  <2> QED BY <2>4, <2>5
<1> QED BY <1>1, <1>2

LEMMA SubIsCord ==
  ASSUME NEW R \in CordOrNull, NEW hi \in 0 .. Length(R), NEW lo \in 0 .. hi,
         NEW S \in CordSub(R, lo, hi)
  PROVE  S \in CordOrNull
<1>1. Length(R) \in Nat /\ Length(R) <= SizeMax
  BY LeafOrNode, CordAssumption DEF Length, CordOrNull
<1>2. lo \in Index /\ hi \in Index /\ lo <= hi /\ hi <= Length(R)
  BY <1>1, CordAssumption DEF Index
<1>3. SubGood(R, lo, hi)
  BY <1>2, SubsAreGood DEF AllSubsGood
<1> QED BY <1>3 DEF SubGood

(***************************************************************************)
(* The invariant: what the program has are cords.                          *)
(***************************************************************************)
HeldAreCords == held \subseteq Cord

LEMMA KeepKeeps ==
  ASSUME HeldAreCords, NEW R \in CordOrNull, Keep(R)
  PROVE  HeldAreCords'
BY DEF HeldAreCords, Keep, CordOrNull

LEMMA NextKeeps ==
  ASSUME HeldAreCords, [Next]_held
  PROVE  HeldAreCords'
<1>1. CASE New
  <2>1. PICK s \in Strings : Keep(CordNew(s))
    BY <1>1 DEF New
  <2> QED BY <2>1, NewIsCord, KeepKeeps
<1>2. CASE Join
  <2>1. PICK R \in held \cup {Null}, S \in held \cup {Null} : Keep(CordJoin(R, S))
    BY <1>2 DEF Join
  <2>2. R \in CordOrNull /\ S \in CordOrNull
    BY DEF HeldAreCords, CordOrNull
  <2> QED BY <2>1, <2>2, JoinIsCord, KeepKeeps
<1>3. CASE Sub
  <2>1. PICK R \in held \cup {Null} : \E hi \in 0 .. Length(R) : \E lo \in 0 .. hi :
          \E S \in CordSub(R, lo, hi) : Keep(S)
    BY <1>3 DEF Sub
  <2>2. PICK hi \in 0 .. Length(R) :
          \E lo \in 0 .. hi : \E S \in CordSub(R, lo, hi) : Keep(S)
    BY <2>1
  <2>3. PICK lo \in 0 .. hi : \E S \in CordSub(R, lo, hi) : Keep(S)
    BY <2>2
  <2>4. PICK S \in CordSub(R, lo, hi) : Keep(S)
    BY <2>3
  <2>5. R \in CordOrNull
    BY DEF HeldAreCords, CordOrNull
  <2>6. S \in CordOrNull
    BY <2>5, SubIsCord
  <2> QED BY <2>4, <2>6, KeepKeeps
<1>4. CASE UNCHANGED held
  BY <1>4 DEF HeldAreCords
<1> QED BY <1>1, <1>2, <1>3, <1>4 DEF Next

LEMMA HeldStayCords == Spec => []HeldAreCords
<1>1. Init => HeldAreCords
  BY DEF Init, HeldAreCords
<1>2. HeldAreCords /\ [Next]_held => HeldAreCords'
  BY NextKeeps
<1> QED BY <1>1, <1>2, PTL DEF Spec

-----------------------------------------------------------------------------
(***************************************************************************)
(* cord_length and cord_charat agree with the string of every cord that    *)
(* cord_new, cord_join and cord_sub can make, whatever its tree (cord.c:   *)
(* 55-60, 94-101, 143-156).                                                *)
(***************************************************************************)
THEOREM ObserversAlwaysAgree == Spec => []ObserversAgree
<1>1. HeldAreCords => ObserversAgree
  BY TextLength, CharAtFinds DEF HeldAreCords, ObserversAgree
<1> QED BY <1>1, HeldStayCords, PTL

(***************************************************************************)
(* is_cord refuses a cord only for a leaf that strncpy left without a NUL, *)
(* and always then (cord.c:27-53, 183).                                    *)
(***************************************************************************)
THEOREM IsCordStaysExact == Spec => []IsCordExact
<1>1. HeldAreCords => IsCordExact
  BY IsCordMeans DEF HeldAreCords, IsCordExact
<1> QED BY <1>1, HeldStayCords, PTL

(***************************************************************************)
(* cord_sub takes the right characters out of any cord, and no assertion   *)
(* fails on the way (cord.c:168-207).                                      *)
(***************************************************************************)
THEOREM SubStaysSubstring == Spec => []SubIsSubstring
<1>1. ASSUME HeldAreCords PROVE SubIsSubstring
  <2>1. ASSUME NEW R \in held, NEW hi \in 0 .. R.len, NEW lo \in 0 .. hi
        PROVE  /\ CordSub(R, lo, hi) # {}
               /\ \A S \in CordSub(R, lo, hi) :
                    S \in CordOrNull /\ Text(S) = SubSeq(Text(R), lo + 1, hi)
    <3>1. R \in Cord /\ R # Null
      BY <1>1, NullAssumption DEF HeldAreCords
    <3>2. R.len \in 1 .. SizeMax /\ Length(R) = R.len
      BY <3>1, LeafOrNode DEF Length
    <3>3. lo \in Index /\ hi \in Index /\ lo <= hi /\ hi <= Length(R)
      BY <3>2, CordAssumption DEF Index
    <3>4. SubGood(R, lo, hi)
      BY <3>1, <3>3, SubsAreGood DEF AllSubsGood, CordOrNull
    <3> QED BY <3>4 DEF SubGood
  <2> QED BY <2>1 DEF SubIsSubstring
<1> QED BY <1>1, HeldStayCords, PTL
=============================================================================
