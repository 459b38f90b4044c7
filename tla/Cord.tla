-------------------------------- MODULE Cord --------------------------------
(***************************************************************************)
(* Ropes (cord.c): strings as trees.  A cord never changes once it was     *)
(* made and two cords may share parts of it, so a cord is a value here:    *)
(* Null, a leaf with the bytes it was given, or a node with two cords.     *)
(*                                                                         *)
(* The program makes cords from strings and from the cords it has.         *)
(***************************************************************************)
EXTENDS Integers, Sequences, FiniteSets

CONSTANTS
  Char,      \* the characters of a string
  Nul,       \* the byte that ends one
  Null,      \* the null pointer
  Strings,   \* arguments of cord_new
  Junk,      \* bytes that memory from xmalloc may hold
  SizeMax,   \* the largest size_t
  MaxHeld    \* bound: cords the program has at a time

ASSUME CordAssumption ==
  /\ SizeMax \in Nat
  /\ Nul \notin Char /\ Junk \subseteq Char \cup {Nul} /\ Junk # {}
  /\ Strings \subseteq Seq(Char) /\ \A s \in Strings : Len(s) <= SizeMax

VARIABLE held    \* the cords the program has

Length(R) == IF R = Null THEN 0 ELSE R.len

IsLeaf(R) == R.left = Null /\ R.right = Null

Leaf(n, data) == [len |-> n, left |-> Null, right |-> Null, data |-> data]

\* The data of a joined cord is never set; nothing looks at it in a cord with parts.
Node(n, L, R) == [len |-> n, left |-> L, right |-> R, data |-> Null]

\* strlen.  Without a NUL it reads on, and what it returns is more than there is.
StrLen(data) ==
  IF \E i \in DOMAIN data : data[i] = Nul
  THEN (CHOOSE i \in DOMAIN data :
          data[i] = Nul /\ \A j \in 1 .. i - 1 : data[j] # Nul) - 1
  ELSE Len(data)

(***************************************************************************)
(* The cords of n characters that there can be: leaves with the byte after *)
(* their characters, and nodes whose parts have n characters together.     *)
(***************************************************************************)
CordsOf[n \in 0 .. SizeMax] ==
  {Leaf(n, Append(s, b)) : s \in [1 .. n -> Char], b \in Junk \cup {Nul}}
    \cup UNION {{Node(n, L, R) : L \in CordsOf[k], R \in CordsOf[n - k]} :
                  k \in 1 .. n - 1}

Cord  == UNION {CordsOf[n] : n \in 1 .. SizeMax}
CordOrNull == Cord \cup {Null}
Index == 0 .. SizeMax

ASSUME NullAssumption == Null \notin Cord /\ Null \notin Seq(Char \cup {Nul})

\* Defect: the right part is not looked at.
IsCord_LeftOnly(R) ==
  LET is_cord[T \in CordOrNull] ==
        \/ T = Null
        \/ /\ T # Null /\ T.len > 0
           /\ \/ T.data # Null /\ IsLeaf(T) /\ T.len = StrLen(T.data)
              \/ /\ T.left # Null /\ T.right # Null
                 /\ T.len - T.left.len = T.right.len
                 /\ is_cord[T.left]
  IN  is_cord[R]

IsCord(R) ==
  LET is_cord[T \in CordOrNull] ==
        \/ T = Null
        \/ /\ T # Null /\ T.len > 0
           /\ \/ T.data # Null /\ IsLeaf(T) /\ T.len = StrLen(T.data)
              \/ /\ T.left # Null /\ T.right # Null
                 /\ T.len - T.left.len = T.right.len
                 /\ is_cord[T.left] /\ is_cord[T.right]
  IN  is_cord[R]

-----------------------------------------------------------------------------
CordNew(s) == IF s = <<>> THEN Null ELSE Leaf(Len(s), Append(s, Nul))

CordJoin(R, S) ==
  IF R = Null THEN S
  ELSE IF S = Null THEN R
  ELSE IF R.len = 0 \/ S.len = 0 \/ R.len > SizeMax - S.len THEN Null
  ELSE Node(R.len + S.len, R, S)

\* Defect: the first character of the right part is looked for in the left one.
CharAt_LeftEnd(R, i) ==
  LET charat[T \in CordOrNull] ==
        [j \in Index |->
           IF j >= Length(T) THEN Null
           ELSE IF Length(T.left) + Length(T.right) = 0 THEN T.data[j + 1]
           ELSE IF j <= Length(T.left) THEN charat[T.left][j]
           ELSE IF j < Length(T.left) + Length(T.right)
             THEN charat[T.right][j - Length(T.left)]
           ELSE Nul]
  IN  charat[R][i]

\* cord_charat; Null is what a failed assertion returns.
CharAt(R, i) ==
  LET charat[T \in CordOrNull] ==
        [j \in Index |->
           IF j >= Length(T) THEN Null
           ELSE IF Length(T.left) + Length(T.right) = 0 THEN T.data[j + 1]
           ELSE IF j < Length(T.left) THEN charat[T.left][j]
           ELSE IF j < Length(T.left) + Length(T.right)
             THEN charat[T.right][j - Length(T.left)]
           ELSE Nul]
  IN  charat[R][i]

(***************************************************************************)
(* cord_sub.  strncpy ends a leaf with no NUL: the byte after it is        *)
(* whatever xmalloc returned, so there are several results.  There is none *)
(* when the assertion fails.                                               *)
(***************************************************************************)
LeafSub(T, lo, hi) ==
  {Leaf(hi - lo, Append(SubSeq(T.data, lo + 1, hi), b)) : b \in Junk}

\* Defect: the end is not moved when the part before it is skipped.
CordSub_HiKept(R, from, to) ==
  LET sub[T \in CordOrNull] == [lo \in Index |-> [hi \in Index |->
        IF lo > hi \/ hi > Length(T) THEN {}
        ELSE IF lo = hi THEN {Null}
        ELSE IF lo = 0 /\ hi = T.len THEN {T}
        ELSE IF IsLeaf(T) THEN LeafSub(T, lo, hi)
        ELSE LET n == Length(T.left) IN
          IF hi <= n THEN sub[T.left][lo][hi]
          ELSE IF lo < n
            THEN {Node(hi - lo, L, S) : L \in sub[T.left][lo][n],
                                        S \in sub[T.right][0][hi - n]}
          ELSE sub[T.right][lo - n][IF hi <= T.right.len THEN hi ELSE hi - n]]]
  IN  sub[R][from][to]

CordSub(R, from, to) ==
  LET sub[T \in CordOrNull] == [lo \in Index |-> [hi \in Index |->
        IF lo > hi \/ hi > Length(T) THEN {}
        ELSE IF lo = hi THEN {Null}
        ELSE IF lo = 0 /\ hi = T.len THEN {T}
        ELSE IF IsLeaf(T) THEN LeafSub(T, lo, hi)
        ELSE LET n == Length(T.left) IN
          IF lo < n /\ hi <= n THEN sub[T.left][lo][hi]
          ELSE IF lo < n /\ n < hi
            THEN {Node(hi - lo, L, S) : L \in sub[T.left][lo][n],
                                        S \in sub[T.right][0][hi - n]}
          ELSE IF n <= lo /\ hi <= n + Length(T.right)
            THEN sub[T.right][lo - n][hi - n]
          ELSE {Null}]]
  IN  sub[R][from][to]

-----------------------------------------------------------------------------
\* The program keeps a new cord, and forgets others: parts of them may live on in it.
Keep(R) ==
  \E D \in SUBSET held :
    /\ held' = (held \ D) \cup ({R} \ {Null})
    /\ Cardinality(held') <= MaxHeld

New == \E s \in Strings : Keep(CordNew(s))

Join == \E R, S \in held \cup {Null} : Keep(CordJoin(R, S))

Sub ==
  \E R \in held \cup {Null} : \E hi \in 0 .. Length(R) : \E lo \in 0 .. hi :
    \E S \in CordSub(R, lo, hi) : Keep(S)

Init == held = {}
Next == New \/ Join \/ Sub
Spec == Init /\ [][Next]_held

-----------------------------------------------------------------------------
(***************************************************************************)
(* The string a cord stands for: the characters of its leaves, in order.   *)
(* The properties compare the observers with it.  It is no translation of  *)
(* cord_tostring (cord.c:112-132), which is not modelled.                  *)
(***************************************************************************)
Text(R) ==
  LET text[T \in CordOrNull] ==
        IF T = Null THEN <<>>
        ELSE IF IsLeaf(T) THEN SubSeq(T.data, 1, T.len)
        ELSE text[T.left] \o text[T.right]
  IN  text[R]

Terminated(R) ==
  LET terminated[T \in CordOrNull] ==
        IF T = Null THEN TRUE
        ELSE IF IsLeaf(T) THEN T.data[Len(T.data)] = Nul
        ELSE terminated[T.left] /\ terminated[T.right]
  IN  terminated[R]

(***************************************************************************)
(* is_cord accepts a cord unless a leaf that cord_sub made, anywhere in    *)
(* it, has no NUL after its characters (cord.c:38, 183): nothing else the  *)
(* calls can do makes a cord it refuses.                                   *)
(***************************************************************************)
IsCordExact == \A R \in held : IsCord(R) <=> Terminated(R)

(***************************************************************************)
(* However a cord was made, and however its tree is shaped, cord_length is *)
(* the length of its string, without wrapping round, and cord_charat finds *)
(* each of its characters (cord.c:55-60, 94-101, 143-156).                 *)
(***************************************************************************)
ObserversAgree ==
  \A R \in held :
    /\ R \in Cord /\ R.len = Len(Text(R))
    /\ \A i \in 0 .. R.len - 1 : CharAt(R, i) = Text(R)[i + 1]

(***************************************************************************)
(* cord_sub(R, lo, hi) is a cord of the string's characters lo to hi - 1,  *)
(* built from parts of R, even of parts that are not terminated, and no    *)
(* assertion fails on the way (cord.c:168-207).                            *)
(***************************************************************************)
SubIsSubstring ==
  \A R \in held : \A hi \in 0 .. R.len : \A lo \in 0 .. hi :
    /\ CordSub(R, lo, hi) # {}
    /\ \A S \in CordSub(R, lo, hi) :
         S \in CordOrNull /\ Text(S) = SubSeq(Text(R), lo + 1, hi)
=============================================================================
