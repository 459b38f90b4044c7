------------------------------ MODULE CsimProofs ------------------------------
(***************************************************************************)
(* Theorems about Csim, for every geometry of the cache and every trace:   *)
(* its invariants, and that it implements LruCache.  The lru of the lines, *)
(* sorted, is the order of last use.                                       *)
(***************************************************************************)
EXTENDS Csim, FiniteSetTheorems, SequenceTheorems, SequencesExt, TLAPS

\* A store marks filled lines only.
EmptyIsClean ==
  \A s \in Sets : \A i \in Lines : cache[s][i].empty => ~cache[s][i].dirty

(***************************************************************************)
(* Inductive: the order of the lru needs the filled lines to be the first, *)
(* and that no block is in two lines needs the search to see all of them.  *)
(***************************************************************************)
IInv == TypeOK /\ LruIsAnOrder /\ OneLinePerBlock /\ EmptyIsClean

-----------------------------------------------------------------------------
(* Conversions of addresses. *)

LEMMA SetsAndTags ==
  ASSUME NEW a \in Addresses
  PROVE  SetOf(a) \in Sets /\ TagOf(a) \in Nat
<1>1. 2 ^ SetBits \in Nat \ {0} /\ 2 ^ BlockBits \in Nat \ {0}
      /\ 2 ^ (BlockBits + SetBits) \in Nat \ {0} /\ a \in Nat
  BY CsimAssumption
<1>2. \A n, d \in Nat : d # 0 => n \div d \in Nat /\ n % d \in 0 .. d - 1
  OBVIOUS
<1> QED BY <1>1, <1>2 DEF SetOf, TagOf, Sets

-----------------------------------------------------------------------------
(* The lines of one set. *)

LEMMA TouchFacts ==
  ASSUME NEW set \in [Lines -> Line], NEW n \in 1 .. LineCount, NEW i \in Lines
  PROVE  /\ Touch(set, i, n) \in [Lines -> Line]
         /\ \A k \in Lines : /\ Touch(set, i, n)[k].empty = set[k].empty
                             /\ Touch(set, i, n)[k].tag = set[k].tag
                             /\ Touch(set, i, n)[k].dirty = set[k].dirty
         /\ Touch(set, i, n)[i].lru = n - 1
         /\ \A k \in Lines \ {i} :
              Touch(set, i, n)[k].lru =
                IF ~set[k].empty /\ set[k].lru > set[i].lru
                THEN set[k].lru - 1 ELSE set[k].lru
<1>1. \A k \in Lines : set[k] \in Line
  OBVIOUS
<1> DEFINE new(k) == CASE k = i -> n - 1
                       [] k # i /\ ~set[k].empty /\ set[k].lru > set[i].lru
                            -> set[k].lru - 1
                       [] OTHER -> set[k].lru
<1>2. \A k \in Lines : new(k) \in Nat
  <2> TAKE k \in Lines
  <2>1. set[k].lru \in Nat /\ set[i].lru \in Nat
    BY <1>1 DEF Line
  <2>2. n - 1 \in Nat
    BY CsimAssumption
  <2> QED BY <2>1, <2>2
<1>3. Touch(set, i, n) = [k \in Lines |-> [set[k] EXCEPT !.lru = new(k)]]
  BY DEF Touch
<1> HIDE DEF new
<1>4. \A k \in Lines : [set[k] EXCEPT !.lru = new(k)] \in Line
  BY <1>1, <1>2 DEF Line
<1>5. \A k \in Lines : /\ Touch(set, i, n)[k].empty = set[k].empty
                       /\ Touch(set, i, n)[k].tag = set[k].tag
                       /\ Touch(set, i, n)[k].dirty = set[k].dirty
                       /\ Touch(set, i, n)[k].lru = new(k)
  BY <1>1, <1>3 DEF Line
<1>6. new(i) = n - 1
  BY DEF new
<1>7. \A k \in Lines \ {i} :
        new(k) = IF ~set[k].empty /\ set[k].lru > set[i].lru
                 THEN set[k].lru - 1 ELSE set[k].lru
  BY DEF new
<1> QED BY <1>3, <1>4, <1>5, <1>6, <1>7

LEMMA SameOrder ==
  ASSUME NEW old, NEW new, NEW n,
         FilledLines(new) = FilledLines(old),
         \A k \in FilledLines(old) : new[k].lru = old[k].lru,
         IsOrder(old, n)
  PROVE  IsOrder(new, n)
<1>1. FilledLines(new) = 0 .. n - 1
  BY DEF IsOrder
<1>2. \A k \in FilledLines(new) : new[k].lru < n
  BY DEF IsOrder
<1>3. \A m \in 0 .. n - 1 : \E k \in FilledLines(new) : new[k].lru = m
  <2>1. \A m \in 0 .. n - 1 : \E k \in FilledLines(old) : old[k].lru = m
    BY DEF IsOrder
  <2> QED BY <2>1
<1>4. \A j, k \in FilledLines(new) : new[j].lru = new[k].lru => j = k
  BY DEF IsOrder
<1> QED BY <1>1, <1>2, <1>3, <1>4 DEF IsOrder

LEMMA TouchKeepsOrder ==
  ASSUME NEW set \in [Lines -> Line], NEW n \in 1 .. LineCount,
         IsOrder(set, n), NEW i \in FilledLines(set)
  PROVE  IsOrder(Touch(set, i, n), n)
<1> DEFINE new  == Touch(set, i, n)
           old  == set[i].lru
           used == FilledLines(set)
<1>1. i \in Lines /\ used \subseteq Lines
  BY DEF FilledLines
<1>2. /\ new \in [Lines -> Line]
      /\ FilledLines(new) = used
      /\ new[i].lru = n - 1
      /\ \A k \in used \ {i} :
           new[k].lru = IF set[k].lru > old THEN set[k].lru - 1 ELSE set[k].lru
  BY <1>1, TouchFacts DEF FilledLines
<1>3. n \in Nat /\ \A k \in used : set[k].lru \in Nat /\ set[k].lru < n
  BY <1>1, CsimAssumption DEF IsOrder, Line
<1>4. \A k \in used \ {i} : set[k].lru # old
  BY DEF IsOrder
<1> HIDE DEF new, used, old
<1>5. old \in Nat /\ old < n /\ i \in used
  BY <1>3 DEF used, old
<1>6. \A k \in used : new[k].lru < n
  BY <1>2, <1>3, <1>5
<1>7. ASSUME NEW j \in used, NEW k \in used, new[j].lru = new[k].lru
      PROVE  j = k
  <2>1. \A l \in used \ {i} : new[l].lru < n - 1
    BY <1>2, <1>3, <1>4, <1>5
  <2>2. CASE j = i \/ k = i
    BY <1>2, <1>3, <1>7, <2>1, <2>2
  <2>3. CASE j # i /\ k # i
    <3>1. set[j].lru = set[k].lru
      BY <1>2, <1>3, <1>4, <1>5, <1>7, <2>3
    <3> QED BY <3>1 DEF IsOrder, used
  <2> QED BY <2>2, <2>3
<1>8. ASSUME NEW m \in 0 .. n - 1
      PROVE  \E k \in used : new[k].lru = m
  <2>1. \A l \in 0 .. n - 1 : \E k \in used : set[k].lru = l
    BY DEF IsOrder, used
  <2>2. CASE m < old
    <3>1. PICK k \in used : set[k].lru = m
      BY <2>1
    <3> QED BY <1>2, <1>5, <2>2, <3>1 DEF old
  <2>3. CASE old <= m /\ m < n - 1
    <3>1. PICK k \in used : set[k].lru = m + 1
      BY <1>3, <2>1, <2>3
    <3> QED BY <1>2, <1>3, <1>5, <2>3, <3>1 DEF old
  <2>4. CASE m = n - 1
    BY <1>2, <1>5, <2>4
  <2> QED BY <1>3, <1>5, <2>2, <2>3, <2>4
<1>9. used = 0 .. n - 1
  BY DEF IsOrder, used
<1> QED BY <1>2, <1>6, <1>7, <1>8, <1>9 DEF IsOrder, new

LEMMA MarkFacts ==
  ASSUME NEW set \in [Lines -> Line], NEW i \in Lines, NEW stores \in BOOLEAN
  PROVE  /\ Mark(set, i, stores) \in [Lines -> Line]
         /\ \A k \in Lines : /\ Mark(set, i, stores)[k].empty = set[k].empty
                             /\ Mark(set, i, stores)[k].tag = set[k].tag
                             /\ Mark(set, i, stores)[k].lru = set[k].lru
                             /\ stores /\ k = i => Mark(set, i, stores)[k].dirty
                             /\ ~(stores /\ k = i)
                                => Mark(set, i, stores)[k].dirty = set[k].dirty
<1>1. \A k \in Lines : set[k] \in Line
  OBVIOUS
<1>2. CASE ~stores
  BY <1>2 DEF Mark, Line
<1>3. CASE stores
  <2>1. Mark(set, i, stores) = [set EXCEPT ![i] = [set[i] EXCEPT !.dirty = TRUE]]
    BY <1>3 DEF Mark
  <2>2. [set[i] EXCEPT !.dirty = TRUE] \in Line
    BY <1>1 DEF Line
  <2>3. Mark(set, i, stores) \in [Lines -> Line]
    BY <2>1, <2>2
  <2>4. \A k \in Lines : Mark(set, i, stores)[k] =
          IF k = i THEN [set[i] EXCEPT !.dirty = TRUE] ELSE set[k]
    BY <2>1
  <2> DEFINE line == [set[i] EXCEPT !.dirty = TRUE]
  <2>5. /\ line.empty = set[i].empty /\ line.tag = set[i].tag
        /\ line.lru = set[i].lru /\ line.dirty
    BY <1>1 DEF Line
  <2> HIDE DEF line
  <2>6. \A k \in Lines : Mark(set, i, stores)[k] = IF k = i THEN line ELSE set[k]
    BY <2>4 DEF line
  <2> QED BY <1>3, <2>3, <2>5, <2>6
<1> QED BY <1>2, <1>3

LEMMA MarkKeepsOrder ==
  ASSUME NEW set \in [Lines -> Line], NEW n \in 0 .. LineCount,
         NEW i \in Lines, NEW stores \in BOOLEAN
  PROVE  /\ FilledLines(Mark(set, i, stores)) = FilledLines(set)
         /\ IsOrder(set, n) => IsOrder(Mark(set, i, stores), n)
         /\ NoTagTwice(set) => NoTagTwice(Mark(set, i, stores))
<1> DEFINE new == Mark(set, i, stores)
<1>1. \A k \in Lines : /\ new[k].empty = set[k].empty
                       /\ new[k].tag = set[k].tag
                       /\ new[k].lru = set[k].lru
  BY MarkFacts
<1> HIDE DEF new
<1>2. FilledLines(new) = FilledLines(set) /\ FilledLines(set) \subseteq Lines
  BY <1>1 DEF FilledLines
<1>3. IsOrder(set, n) => IsOrder(new, n)
  <2>1. \A k \in FilledLines(set) : new[k].lru = set[k].lru
    BY <1>1, <1>2
  <2> QED BY <1>2, <2>1, SameOrder
<1>4. NoTagTwice(set) => NoTagTwice(new)
  BY <1>1, <1>2 DEF NoTagTwice
<1> QED BY <1>2, <1>3, <1>4 DEF new

\* The line that a miss fills is the one after the filled lines.
Filled(set, n, t) ==
  [set EXCEPT ![n] = [set[n] EXCEPT !.empty = FALSE, !.tag = t, !.lru = n]]

LEMMA FillKeepsOrder ==
  ASSUME NEW set \in [Lines -> Line], NEW n \in 0 .. LineCount - 1,
         IsOrder(set, n), NEW t \in Nat
  PROVE  LET new == Filled(set, n, t)
         IN  /\ new \in [Lines -> Line]
             /\ FilledLines(new) = FilledLines(set) \cup {n}
             /\ new[n].tag = t /\ new[n].lru = n /\ ~new[n].empty
             /\ new[n].dirty = set[n].dirty
             /\ \A k \in Lines \ {n} : new[k] = set[k]
             /\ IsOrder(new, n + 1)
<1> DEFINE new == Filled(set, n, t)
<1>1. n \in Lines /\ n \in Nat
  BY CsimAssumption DEF Lines
<1> DEFINE line == [set[n] EXCEPT !.empty = FALSE, !.tag = t, !.lru = n]
<1>2. line \in Line /\ line.tag = t /\ line.lru = n /\ ~line.empty
      /\ line.dirty = set[n].dirty
  BY <1>1 DEF Line
<1>3. new = [set EXCEPT ![n] = line]
  BY DEF Filled
<1> HIDE DEF line, new
<1>4. /\ new \in [Lines -> Line]
      /\ new[n] = line
      /\ \A k \in Lines \ {n} : new[k] = set[k]
  BY <1>1, <1>2, <1>3
<1>5. FilledLines(new) = FilledLines(set) \cup {n}
  BY <1>1, <1>2, <1>4 DEF FilledLines
<1>6. FilledLines(set) = 0 .. n - 1 /\ FilledLines(set) \subseteq Lines
  BY DEF IsOrder, FilledLines
<1>7. FilledLines(new) = 0 .. n
  <2>1. (0 .. n - 1) \cup {n} = 0 .. n
    BY <1>1
  <2> QED BY <1>5, <1>6, <2>1
<1>8. \A k \in FilledLines(set) : new[k] = set[k] /\ set[k].lru < n /\ k # n
  BY <1>4, <1>6 DEF IsOrder
<1>9. \A k \in FilledLines(new) : new[k].lru \in Nat
  BY <1>4 DEF FilledLines, Line
<1>10. \A k \in FilledLines(new) : new[k].lru < n + 1
  <2> TAKE k \in FilledLines(new)
  <2>1. CASE k = n
    BY <1>1, <1>2, <1>4, <2>1
  <2>2. CASE k # n
    <3>1. new[k].lru < n
      BY <1>5, <1>8, <2>2
    <3>2. new[k].lru \in Nat
      BY <1>9
    <3> QED BY <1>1, <3>1, <3>2
  <2> QED BY <2>1, <2>2
<1>11. ASSUME NEW m \in 0 .. n
       PROVE  \E k \in FilledLines(new) : new[k].lru = m
  <2>1. CASE m = n
    BY <1>2, <1>4, <1>5, <2>1
  <2>2. CASE m # n
    <3>1. PICK k \in FilledLines(set) : set[k].lru = m
      BY <1>1, <2>2 DEF IsOrder
    <3> QED BY <1>5, <1>8, <3>1
  <2> QED BY <2>1, <2>2
<1>12. \A j, k \in FilledLines(set) : set[j].lru = set[k].lru => j = k
  BY DEF IsOrder
<1>13. \A j, k \in FilledLines(new) : new[j].lru = new[k].lru => j = k
  BY <1>1, <1>2, <1>4, <1>5, <1>8, <1>12
<1>14. (n + 1) - 1 = n
  BY <1>1
<1>15. IsOrder(new, n + 1)
  BY <1>7, <1>10, <1>11, <1>13, <1>14 DEF IsOrder
<1> QED BY <1>2, <1>4, <1>5, <1>15 DEF new

LEMMA EvictLineFacts ==
  ASSUME NEW set \in [Lines -> Line], NEW n \in 1 .. LineCount,
         IsOrder(set, n), NEW i \in FilledLines(set), NEW t \in Nat
  PROVE  LET new == EvictLine(set, i, n, t)
             touched == Touch(set, i, n)
         IN  /\ new \in [Lines -> Line]
             /\ FilledLines(new) = FilledLines(set)
             /\ new[i].tag = t /\ ~new[i].dirty
             /\ \A k \in Lines : /\ new[k].lru = touched[k].lru
                                 /\ new[k].empty = set[k].empty
             /\ \A k \in Lines \ {i} : /\ new[k].tag = set[k].tag
                                       /\ new[k].dirty = set[k].dirty
             /\ IsOrder(new, n)
<1> DEFINE touched == Touch(set, i, n)
           new     == EvictLine(set, i, n, t)
           line    == [touched[i] EXCEPT !.tag = t, !.dirty = FALSE]
<1>1. i \in Lines /\ FilledLines(set) \subseteq Lines
  BY DEF FilledLines
<1>2. /\ touched \in [Lines -> Line]
      /\ \A k \in Lines : /\ touched[k].empty = set[k].empty
                          /\ touched[k].tag = set[k].tag
                          /\ touched[k].dirty = set[k].dirty
  BY <1>1, TouchFacts
<1>3. IsOrder(touched, n)
  BY TouchKeepsOrder
<1>4. new = [touched EXCEPT ![i] = line]
  BY DEF EvictLine
<1>5. touched[i] \in Line
  BY <1>1, <1>2
<1> HIDE DEF touched, new
<1>6. line \in Line /\ line.tag = t /\ ~line.dirty
      /\ line.lru = touched[i].lru /\ line.empty = touched[i].empty
  BY <1>5 DEF Line
<1> HIDE DEF line
<1>7. /\ new \in [Lines -> Line]
      /\ new[i] = line
      /\ \A k \in Lines \ {i} : new[k] = touched[k]
  BY <1>1, <1>2, <1>4, <1>6
<1>8. \A k \in Lines : new[k].lru = touched[k].lru /\ new[k].empty = set[k].empty
  BY <1>1, <1>2, <1>6, <1>7
<1>9. \A k \in Lines \ {i} : new[k].tag = set[k].tag /\ new[k].dirty = set[k].dirty
  BY <1>2, <1>7
<1>10. FilledLines(new) = FilledLines(set) /\ FilledLines(new) = FilledLines(touched)
  BY <1>2, <1>8 DEF FilledLines
<1>11. IsOrder(new, n)
  <2>1. \A k \in FilledLines(touched) : new[k].lru = touched[k].lru
    BY <1>1, <1>8, <1>10
  <2>2. FilledLines(new) = FilledLines(touched)
    BY <1>10
  <2> QED BY <1>3, <2>1, <2>2, SameOrder
<1> QED BY <1>6, <1>7, <1>8, <1>9, <1>10, <1>11 DEF new, touched

-----------------------------------------------------------------------------
(* What each action does to its set. *)

LEMMA SetFacts ==
  ASSUME IInv, NEW s \in Sets
  PROVE  /\ cache[s] \in [Lines -> Line]
         /\ filled[s] \in 0 .. LineCount
         /\ IsOrder(cache[s], filled[s])
         /\ NoTagTwice(cache[s])
         /\ \A k \in Lines : cache[s][k].empty => ~cache[s][k].dirty
BY DEF IInv, TypeOK, LruIsAnOrder, OneLinePerBlock, EmptyIsClean

LEMMA HitFacts ==
  ASSUME IInv, NEW s \in Sets, NEW t \in Nat, NEW stores \in BOOLEAN,
         Hit(s, t, stores)
  PROVE  /\ filled[s] \in 1 .. LineCount
         /\ \E i \in FilledLines(cache[s]) :
              /\ cache[s][i].tag = t
              /\ cache' = [cache EXCEPT
                             ![s] = Mark(Touch(cache[s], i, filled[s]), i, stores)]
<1>1. PICK i \in Lines :
        /\ IsFirst(i, Stops(s, t)) /\ ~cache[s][i].empty
        /\ cache' = [cache EXCEPT
                       ![s] = Mark(Touch(cache[s], i, filled[s]), i, stores)]
  BY DEF Hit
<1>2. i \in FilledLines(cache[s]) /\ cache[s][i].tag = t
  BY <1>1 DEF IsFirst, Stops, FilledLines
<1>3. FilledLines(cache[s]) = 0 .. filled[s] - 1 /\ filled[s] \in 0 .. LineCount
  BY SetFacts DEF IsOrder
<1>4. filled[s] \in 1 .. LineCount
  BY <1>2, <1>3, CsimAssumption
<1> QED BY <1>1, <1>2, <1>4

LEMMA MissFacts ==
  ASSUME IInv, NEW s \in Sets, NEW t \in Nat, NEW stores \in BOOLEAN,
         Miss(s, t, stores)
  PROVE  LET n   == filled[s]
         IN  /\ n \in 0 .. LineCount - 1
             /\ \A k \in FilledLines(cache[s]) : cache[s][k].tag # t
             /\ cache' = [cache EXCEPT ![s] = Mark(Filled(cache[s], n, t), n, stores)]
<1> DEFINE n == filled[s]
<1>1. PICK i \in Lines :
        /\ IsFirst(i, Stops(s, t)) /\ cache[s][i].empty
        /\ LET new == [cache[s] EXCEPT ![i].empty = FALSE, ![i].tag = t, ![i].lru = i]
           IN  cache' = [cache EXCEPT ![s] = Mark(new, i, stores)]
  BY DEF Miss
<1>2. /\ FilledLines(cache[s]) = 0 .. n - 1 /\ n \in 0 .. LineCount
      /\ cache[s] \in [Lines -> Line]
  BY SetFacts DEF IsOrder
<1>3. i \notin 0 .. n - 1 /\ i \in 0 .. LineCount - 1
  BY <1>1, <1>2 DEF FilledLines, Lines
<1>4. n \in Lines /\ n \notin FilledLines(cache[s])
  BY <1>2, <1>3, CsimAssumption DEF Lines
<1>5. n \in Stops(s, t)
  BY <1>4 DEF Stops, FilledLines
<1>6. i = n
  BY <1>1, <1>2, <1>3, <1>5, CsimAssumption DEF IsFirst
<1>7. ASSUME NEW k \in FilledLines(cache[s])
      PROVE  cache[s][k].tag # t
  <2>1. k < i /\ k \in Lines /\ ~(i <= k)
    BY <1>2, <1>6, <1>7, CsimAssumption DEF Lines
  <2> QED BY <1>1, <2>1 DEF IsFirst, Stops
<1>8. [cache[s] EXCEPT ![i].empty = FALSE, ![i].tag = t, ![i].lru = i] =
      Filled(cache[s], n, t)
  BY <1>2, <1>4, <1>6 DEF Line, Filled
<1>9. n \in 0 .. LineCount - 1
  BY <1>4 DEF Lines
<1> QED BY <1>1, <1>6, <1>7, <1>8, <1>9

LEMMA EvictFacts ==
  ASSUME IInv, NEW s \in Sets, NEW t \in Nat, NEW stores \in BOOLEAN,
         Evict(s, t, stores)
  PROVE  /\ filled[s] = LineCount /\ filled[s] \in 1 .. LineCount
         /\ FilledLines(cache[s]) = Lines
         /\ \A k \in Lines : cache[s][k].tag # t
         /\ \E i \in Lines :
              /\ cache[s][i].lru = 0
              /\ cache' = [cache EXCEPT
                   ![s] = Mark(EvictLine(cache[s], i, filled[s], t), i, stores)]
<1>1. \A k \in Lines : ~cache[s][k].empty /\ cache[s][k].tag # t
  BY DEF Evict, Stops
<1>2. FilledLines(cache[s]) = Lines
  BY <1>1 DEF FilledLines
<1>3. Lines = 0 .. filled[s] - 1 /\ filled[s] \in 0 .. LineCount
  BY <1>2, SetFacts DEF IsOrder
<1>4. filled[s] = LineCount
  <2>1. LineCount - 1 \in Lines
    BY CsimAssumption DEF Lines
  <2> QED BY <1>3, <2>1, CsimAssumption
<1>5. \E i \in Lines :
        /\ IsFirst(i, {k \in Lines : cache[s][k].lru = 0})
        /\ cache' = [cache EXCEPT
             ![s] = Mark(EvictLine(cache[s], i, filled[s], t), i, stores)]
  BY DEF Evict
<1>6. filled[s] \in 1 .. LineCount
  BY <1>4, CsimAssumption
<1> QED BY <1>1, <1>2, <1>4, <1>5, <1>6 DEF IsFirst

-----------------------------------------------------------------------------
(* The invariant. *)

LEMMA OneSetChanges ==
  ASSUME IInv, NEW s \in Sets, NEW new \in [Lines -> Line],
         NEW n \in 0 .. LineCount, IsOrder(new, n), NoTagTwice(new),
         \A k \in Lines : new[k].empty => ~new[k].dirty,
         cache' = [cache EXCEPT ![s] = new],
         filled' = [filled EXCEPT ![s] = n]
  PROVE  /\ cache' \in [Sets -> [Lines -> Line]]
         /\ filled' \in [Sets -> 0 .. LineCount]
         /\ LruIsAnOrder' /\ OneLinePerBlock' /\ EmptyIsClean'
<1>1. cache \in [Sets -> [Lines -> Line]] /\ filled \in [Sets -> 0 .. LineCount]
  BY DEF IInv, TypeOK
<1>2. cache'[s] = new /\ filled'[s] = n
  BY <1>1
<1>3. \A r \in Sets \ {s} : cache'[r] = cache[r] /\ filled'[r] = filled[r]
  BY <1>1
<1>4. LruIsAnOrder'
  <2> SUFFICES ASSUME NEW r \in Sets
               PROVE  IsOrder(cache'[r], filled'[r])
    BY DEF LruIsAnOrder, IsOrder, FilledLines
  <2> QED BY <1>2, <1>3, SetFacts
<1>5. OneLinePerBlock'
  <2> SUFFICES ASSUME NEW r \in Sets
               PROVE  NoTagTwice(cache'[r])
    BY DEF OneLinePerBlock, NoTagTwice, FilledLines
  <2> QED BY <1>2, <1>3, SetFacts
<1>6. EmptyIsClean'
  <2> SUFFICES ASSUME NEW r \in Sets, NEW k \in Lines
               PROVE  cache'[r][k].empty => ~cache'[r][k].dirty
    BY DEF EmptyIsClean
  <2> QED BY <1>2, <1>3, SetFacts
<1> QED BY <1>1, <1>4, <1>5, <1>6

LEMMA HitKeepsSets ==
  ASSUME IInv, NEW s \in Sets, NEW t \in Nat, NEW stores \in BOOLEAN,
         Hit(s, t, stores)
  PROVE  /\ cache' \in [Sets -> [Lines -> Line]]
         /\ filled' \in [Sets -> 0 .. LineCount]
         /\ LruIsAnOrder' /\ OneLinePerBlock' /\ EmptyIsClean'
<1> DEFINE set == cache[s]
           n   == filled[s]
<1>1. PICK i \in FilledLines(set) :
        cache' = [cache EXCEPT ![s] = Mark(Touch(set, i, n), i, stores)]
  BY HitFacts
<1> DEFINE touched == Touch(set, i, n)
           new     == Mark(touched, i, stores)
<1>2. /\ set \in [Lines -> Line] /\ IsOrder(set, n) /\ NoTagTwice(set)
      /\ \A k \in Lines : set[k].empty => ~set[k].dirty
  BY SetFacts
<1>3. n \in 1 .. LineCount /\ n \in 0 .. LineCount /\ i \in Lines /\ ~set[i].empty
  BY HitFacts, CsimAssumption DEF FilledLines
<1>4. /\ touched \in [Lines -> Line]
      /\ \A k \in Lines : /\ touched[k].empty = set[k].empty
                          /\ touched[k].tag = set[k].tag
                          /\ touched[k].dirty = set[k].dirty
  BY <1>2, <1>3, TouchFacts
<1>5. IsOrder(touched, n)
  BY <1>2, <1>3, TouchKeepsOrder
<1> HIDE DEF touched
<1>6. NoTagTwice(touched)
  BY <1>2, <1>4 DEF NoTagTwice, FilledLines
<1>7. /\ new \in [Lines -> Line]
      /\ \A k \in Lines : /\ new[k].empty = touched[k].empty
                          /\ ~(stores /\ k = i) => new[k].dirty = touched[k].dirty
  BY <1>3, <1>4, MarkFacts
<1>8. IsOrder(new, n) /\ NoTagTwice(new)
  BY <1>3, <1>4, <1>5, <1>6, MarkKeepsOrder
<1>9. \A k \in Lines : new[k].empty => ~new[k].dirty
  BY <1>2, <1>3, <1>4, <1>7
<1>10. cache' = [cache EXCEPT ![s] = new]
  BY <1>1 DEF touched
<1>11. filled' = [filled EXCEPT ![s] = n]
  BY DEF Hit, IInv, TypeOK
<1> HIDE DEF new, set, n
<1> QED BY <1>3, <1>7, <1>8, <1>9, <1>10, <1>11, OneSetChanges

LEMMA MissKeepsSets ==
  ASSUME IInv, NEW s \in Sets, NEW t \in Nat, NEW stores \in BOOLEAN,
         Miss(s, t, stores)
  PROVE  /\ cache' \in [Sets -> [Lines -> Line]]
         /\ filled' \in [Sets -> 0 .. LineCount]
         /\ LruIsAnOrder' /\ OneLinePerBlock' /\ EmptyIsClean'
<1> DEFINE set   == cache[s]
           n     == filled[s]
           added == Filled(set, n, t)
           new   == Mark(added, n, stores)
<1>1. /\ n \in 0 .. LineCount - 1
      /\ \A k \in FilledLines(set) : set[k].tag # t
      /\ cache' = [cache EXCEPT ![s] = new]
  BY MissFacts
<1>2. /\ set \in [Lines -> Line] /\ IsOrder(set, n) /\ NoTagTwice(set)
      /\ \A k \in Lines : set[k].empty => ~set[k].dirty
  BY SetFacts
<1>3. n \in Lines /\ n + 1 \in 0 .. LineCount
  BY <1>1, CsimAssumption DEF Lines
<1>4. /\ added \in [Lines -> Line]
      /\ FilledLines(added) = FilledLines(set) \cup {n}
      /\ added[n].tag = t /\ ~added[n].empty
      /\ \A k \in Lines \ {n} : added[k] = set[k]
      /\ IsOrder(added, n + 1)
  <2> HIDE DEF set, n
  <2> QED BY <1>1, <1>2, FillKeepsOrder
<1> HIDE DEF added
<1>5. FilledLines(set) \subseteq Lines \ {n}
  BY <1>1, <1>2, CsimAssumption DEF IsOrder, Lines
<1>6. NoTagTwice(added)
  BY <1>1, <1>2, <1>4, <1>5 DEF NoTagTwice
<1>7. /\ new \in [Lines -> Line]
      /\ \A k \in Lines : /\ new[k].empty = added[k].empty
                          /\ ~(stores /\ k = n) => new[k].dirty = added[k].dirty
  BY <1>3, <1>4, MarkFacts
<1>8. IsOrder(new, n + 1) /\ NoTagTwice(new)
  BY <1>3, <1>4, <1>6, MarkKeepsOrder
<1>9. \A k \in Lines : new[k].empty => ~new[k].dirty
  BY <1>2, <1>3, <1>4, <1>7
<1>10. filled' = [filled EXCEPT ![s] = n + 1]
  BY DEF Miss
<1> HIDE DEF new, set, n
<1> QED BY <1>1, <1>3, <1>7, <1>8, <1>9, <1>10, OneSetChanges

LEMMA EvictKeepsSets ==
  ASSUME IInv, NEW s \in Sets, NEW t \in Nat, NEW stores \in BOOLEAN,
         Evict(s, t, stores)
  PROVE  /\ cache' \in [Sets -> [Lines -> Line]]
         /\ filled' \in [Sets -> 0 .. LineCount]
         /\ LruIsAnOrder' /\ OneLinePerBlock' /\ EmptyIsClean'
<1> DEFINE set == cache[s]
           n   == filled[s]
<1>1. PICK i \in Lines :
        cache' = [cache EXCEPT ![s] = Mark(EvictLine(set, i, n, t), i, stores)]
  BY EvictFacts
<1> DEFINE changed == EvictLine(set, i, n, t)
           new     == Mark(changed, i, stores)
<1>2. /\ set \in [Lines -> Line] /\ IsOrder(set, n) /\ NoTagTwice(set)
      /\ \A k \in Lines : set[k].empty => ~set[k].dirty
  BY SetFacts
<1>3. /\ n \in 1 .. LineCount
      /\ FilledLines(set) = Lines
      /\ \A k \in Lines : set[k].tag # t
  BY EvictFacts
<1>a. n \in 0 .. LineCount
  BY <1>3, CsimAssumption
<1>4. /\ changed \in [Lines -> Line]
      /\ FilledLines(changed) = Lines
      /\ changed[i].tag = t
      /\ \A k \in Lines \ {i} : changed[k].tag = set[k].tag
      /\ IsOrder(changed, n)
  BY <1>2, <1>3, EvictLineFacts
<1> HIDE DEF changed
<1>5. NoTagTwice(changed)
  BY <1>2, <1>3, <1>4 DEF NoTagTwice
<1>6. /\ new \in [Lines -> Line]
      /\ \A k \in Lines : new[k].empty = changed[k].empty
  BY <1>4, MarkFacts
<1>7. IsOrder(new, n) /\ NoTagTwice(new)
  BY <1>a, <1>4, <1>5, MarkKeepsOrder
<1>8. \A k \in Lines : new[k].empty => ~new[k].dirty
  BY <1>4, <1>6 DEF FilledLines
<1>9. cache' = [cache EXCEPT ![s] = new]
  BY <1>1 DEF changed
<1>10. filled' = [filled EXCEPT ![s] = n]
  BY DEF Evict, IInv, TypeOK
<1> HIDE DEF new, set, n
<1> QED BY <1>a, <1>6, <1>7, <1>8, <1>9, <1>10, OneSetChanges

LEMMA DirtyLinesFinite ==
  IsFiniteSet(DirtyLines) /\ Cardinality(DirtyLines) \in Nat
<1>1. 2 ^ SetBits \in Nat
  BY CsimAssumption
<1>2. IsFiniteSet(Sets) /\ IsFiniteSet(Lines)
  BY <1>1, FS_Interval, CsimAssumption DEF Sets, Lines
<1>3. IsFiniteSet(Sets \X Lines)
  BY <1>2, FS_Product
<1>4. DirtyLines \subseteq Sets \X Lines
  BY DEF DirtyLines
<1> QED BY <1>3, <1>4, FS_Subset, FS_CardinalityType

LEMMA InitInv == Init => IInv
<1> SUFFICES ASSUME Init PROVE IInv
  OBVIOUS
<1>1. PICK g \in [Sets -> [Lines -> Garbage \X Garbage]] :
        cache = [s \in Sets |-> [i \in Lines |->
                   [empty |-> TRUE, tag |-> g[s][i][1],
                    dirty |-> FALSE, lru |-> g[s][i][2]]]]
  BY DEF Init
<1>2. \A s \in Sets, i \in Lines : g[s][i][1] \in Nat /\ g[s][i][2] \in Nat
  BY CsimAssumption
<1>3. \A s \in Sets, i \in Lines :
        cache[s][i] \in Line /\ cache[s][i].empty /\ ~cache[s][i].dirty
  BY <1>1, <1>2 DEF Line
<1>4. cache \in [Sets -> [Lines -> Line]]
  BY <1>1, <1>3
<1>5. \A s \in Sets : FilledLines(cache[s]) = {} /\ filled[s] = 0
  BY <1>3 DEF FilledLines, Init
<1>6. TypeOK
  BY <1>4, CsimAssumption DEF TypeOK, Init, Stats, NoInstruction
<1>7. LruIsAnOrder
  <2>1. 0 .. 0 - 1 = {}
    OBVIOUS
  <2> QED BY <1>5, <2>1 DEF LruIsAnOrder, IsOrder
<1>8. OneLinePerBlock
  BY <1>5 DEF OneLinePerBlock, NoTagTwice
<1>9. EmptyIsClean
  BY <1>3 DEF EmptyIsClean
<1> QED BY <1>6, <1>7, <1>8, <1>9 DEF IInv

LEMMA NextInv == IInv /\ [Next]_vars => IInv'
<1> SUFFICES ASSUME IInv, [Next]_vars PROVE IInv'
  OBVIOUS
<1> USE DEF IInv
<1>1. ASSUME NEW a \in Addresses, NEW stores \in BOOLEAN, Access(a, stores)
      PROVE  IInv'
  <2> DEFINE s == SetOf(a)
             t == TagOf(a)
  <2>1. s \in Sets /\ t \in Nat
    BY SetsAndTags
  <2>2. instruction' = <<a, stores>>
        /\ (Hit(s, t, stores) \/ Miss(s, t, stores) \/ Evict(s, t, stores))
    BY <1>1 DEF Access
  <2> HIDE DEF s, t
  <2>3. /\ cache' \in [Sets -> [Lines -> Line]]
        /\ filled' \in [Sets -> 0 .. LineCount]
        /\ LruIsAnOrder' /\ OneLinePerBlock' /\ EmptyIsClean'
    BY <2>1, <2>2, HitKeepsSets, MissKeepsSets, EvictKeepsSets
  <2>4. stats' \in Stats /\ status' = status
    <3>1. CASE Hit(s, t, stores)
      BY <3>1 DEF Hit, TypeOK, Stats
    <3>2. CASE Miss(s, t, stores)
      BY <3>2 DEF Miss, TypeOK, Stats
    <3>3. CASE Evict(s, t, stores)
      <4>1. PICK i \in Lines :
              stats' = [stats EXCEPT
                !.misses = @ + 1, !.evictions = @ + 1,
                !.dirtyEvictions = IF cache[s][i].dirty THEN @ + 1 ELSE @]
        BY <3>3 DEF Evict
      <4> DEFINE n == IF cache[s][i].dirty THEN stats.dirtyEvictions + 1
                      ELSE stats.dirtyEvictions
      <4>2. stats \in Stats /\ n \in Nat
        BY DEF TypeOK, Stats
      <4>3. stats' = [stats EXCEPT !.misses = @ + 1, !.evictions = @ + 1,
                                   !.dirtyEvictions = n]
        BY <4>1
      <4> HIDE DEF n
      <4>4. stats' \in Stats
        <5>1. stats.misses + 1 \in Nat /\ stats.evictions + 1 \in Nat
          BY <4>2 DEF Stats
        <5> HIDE DEF IInv
        <5> QED BY <4>2, <4>3, <5>1 DEF Stats
      <4> QED BY <3>3, <4>4 DEF Evict
    <3> QED BY <2>2, <3>1, <3>2, <3>3
  <2>5. instruction' \in {NoInstruction} \cup (Addresses \X BOOLEAN)
    BY <2>2
  <2> QED BY <2>3, <2>4, <2>5 DEF TypeOK
<1>2. ASSUME EndOfTrace
      PROVE  IInv'
  <2>1. 2 ^ BlockBits \in Nat
    BY CsimAssumption
  <2>2. stats' \in Stats
    <3> DEFINE bytes   == Cardinality(DirtyLines) * 2 ^ BlockBits
               evicted == stats.dirtyEvictions * 2 ^ BlockBits
    <3>1. stats \in Stats /\ stats.dirtyEvictions \in Nat
      BY DEF TypeOK, Stats
    <3>2. \A m, n \in Nat : m * n \in Nat
      OBVIOUS
    <3>3. bytes \in Nat /\ evicted \in Nat
      BY <2>1, <3>1, <3>2, DirtyLinesFinite
    <3>4. stats' = [stats EXCEPT !.dirtyBytes = bytes, !.dirtyEvictions = evicted]
      BY <1>2 DEF EndOfTrace
    <3> HIDE DEF bytes, evicted
    <3> QED BY <3>1, <3>3, <3>4 DEF Stats
  <2>3. UNCHANGED <<cache, filled, instruction>> /\ status' = "printed"
    BY <1>2 DEF EndOfTrace
  <2> QED BY <2>2, <2>3 DEF TypeOK, LruIsAnOrder, IsOrder, FilledLines,
            OneLinePerBlock, NoTagTwice, EmptyIsClean
<1>3. CASE InvalidInstruction \/ UNCHANGED vars
  <2>1. UNCHANGED <<cache, filled, instruction, stats>>
        /\ (status' = "failed" \/ UNCHANGED status)
    BY <1>3 DEF InvalidInstruction, vars
  <2> QED BY <2>1 DEF TypeOK, LruIsAnOrder, IsOrder, FilledLines,
            OneLinePerBlock, NoTagTwice, EmptyIsClean
<1> QED BY <1>1, <1>2, <1>3 DEF Next

LEMMA SpecInv == Spec => []IInv
BY InitInv, NextInv, PTL DEF Spec

\* Every variable of the simulation keeps its type.
THEOREM TypeCorrect == Spec => []TypeOK
<1>1. IInv => TypeOK
  BY DEF IInv
<1> QED BY <1>1, SpecInv, PTL

(***************************************************************************)
(* For every number of sets and lines the filled lines come first and      *)
(* their lru_order is a permutation: an eviction finds one victim.         *)
(***************************************************************************)
THEOREM LruStaysAnOrder == Spec => []LruIsAnOrder
<1>1. IInv => LruIsAnOrder
  BY DEF IInv
<1> QED BY <1>1, SpecInv, PTL

\* No block of memory is ever held by two lines.
THEOREM BlocksStayUnique == Spec => []OneLinePerBlock
<1>1. IInv => OneLinePerBlock
  BY DEF IInv
<1> QED BY <1>1, SpecInv, PTL

-----------------------------------------------------------------------------
(***************************************************************************)
(* Sequences: an element moves to the end, or the first one is dropped.    *)
(***************************************************************************)
LEMMA RemoveAtElements ==
  ASSUME NEW S, NEW seq \in Seq(S), NEW p \in 1 .. Len(seq)
  PROVE  /\ RemoveAt(seq, p) \in Seq(S)
         /\ Len(RemoveAt(seq, p)) = Len(seq) - 1
         /\ \A m \in 1 .. Len(seq) - 1 :
              RemoveAt(seq, p)[m] = IF m < p THEN seq[m] ELSE seq[m + 1]
<1> DEFINE before == SubSeq(seq, 1, p - 1)
           after  == SubSeq(seq, p + 1, Len(seq))
<1>1. Len(seq) \in Nat /\ p \in Nat /\ 1 <= p /\ p <= Len(seq)
  BY LenProperties
<1>2. \A i \in 1 .. Len(seq) : seq[i] \in S
  BY ElementOfSeq
<1>3. /\ before \in Seq(S) /\ Len(before) = p - 1
      /\ \A i \in 1 .. p - 1 : before[i] = seq[i]
  <2>1. \A i \in 1 .. p - 1 : seq[i] \in S
    BY <1>1, <1>2
  <2>2. /\ SubSeq(seq, 1, p - 1) \in Seq(S)
        /\ Len(SubSeq(seq, 1, p - 1)) = IF 1 <= p - 1 THEN (p - 1) - 1 + 1 ELSE 0
        /\ \A i \in 1 .. (p - 1) - 1 + 1 : SubSeq(seq, 1, p - 1)[i] = seq[1 + i - 1]
    BY <1>1, <2>1, SubSeqProperties
  <2> HIDE DEF before
  <2>3. before = SubSeq(seq, 1, p - 1)
    BY DEF before
  <2> QED BY <1>1, <2>2, <2>3
<1>4. /\ after \in Seq(S) /\ Len(after) = Len(seq) - p
      /\ \A i \in 1 .. Len(seq) - p : after[i] = seq[p + i]
  <2>1. \A i \in p + 1 .. Len(seq) : seq[i] \in S
    BY <1>1, <1>2
  <2>2. /\ SubSeq(seq, p + 1, Len(seq)) \in Seq(S)
        /\ Len(SubSeq(seq, p + 1, Len(seq))) =
             IF p + 1 <= Len(seq) THEN Len(seq) - (p + 1) + 1 ELSE 0
        /\ \A i \in 1 .. Len(seq) - (p + 1) + 1 :
             SubSeq(seq, p + 1, Len(seq))[i] = seq[(p + 1) + i - 1]
    BY <1>1, <2>1, SubSeqProperties
  <2> HIDE DEF after
  <2>3. after = SubSeq(seq, p + 1, Len(seq))
    BY DEF after
  <2> QED BY <1>1, <2>2, <2>3
<1>5. RemoveAt(seq, p) = before \o after
  BY DEF RemoveAt
<1> HIDE DEF before, after
<1>6. /\ before \o after \in Seq(S)
      /\ Len(before \o after) = Len(before) + Len(after)
      /\ \A i \in 1 .. Len(before) + Len(after) :
           (before \o after)[i] =
             IF i <= Len(before) THEN before[i] ELSE after[i - Len(before)]
  BY <1>3, <1>4, ConcatProperties
<1>7. Len(before) + Len(after) = Len(seq) - 1
  BY <1>1, <1>3, <1>4
<1>8. ASSUME NEW m \in 1 .. Len(seq) - 1
      PROVE  (before \o after)[m] = IF m < p THEN seq[m] ELSE seq[m + 1]
  <2>1. CASE m < p
    <3>1. m <= Len(before) /\ m \in 1 .. p - 1
      BY <1>1, <1>3, <2>1
    <3> QED BY <1>3, <1>6, <1>7, <2>1, <3>1
  <2>2. CASE ~(m < p)
    <3>1. /\ ~(m <= Len(before))
          /\ m - Len(before) = m - p + 1
          /\ m - p + 1 \in 1 .. Len(seq) - p
          /\ p + (m - p + 1) = m + 1
      BY <1>1, <1>3, <2>2
    <3>2. (before \o after)[m] = after[m - p + 1]
      BY <1>6, <1>7, <3>1
    <3>3. after[m - p + 1] = seq[m + 1]
      BY <1>4, <3>1
    <3> QED BY <2>2, <3>2, <3>3
  <2> QED BY <2>1, <2>2
<1> QED BY <1>5, <1>6, <1>7, <1>8

LEMMA MoveToEnd ==
  ASSUME NEW S, NEW seq \in Seq(S), NEW p \in 1 .. Len(seq), NEW t \in S,
         NEW new \in Seq(S), Len(new) = Len(seq), new[Len(seq)] = t,
         \A m \in 1 .. Len(seq) - 1 : new[m] = IF m < p THEN seq[m] ELSE seq[m + 1]
  PROVE  new = Append(RemoveAt(seq, p), t)
<1> DEFINE rest == RemoveAt(seq, p)
<1>1. /\ rest \in Seq(S) /\ Len(rest) = Len(seq) - 1
      /\ \A m \in 1 .. Len(seq) - 1 :
           rest[m] = IF m < p THEN seq[m] ELSE seq[m + 1]
  BY RemoveAtElements
<1> HIDE DEF rest
<1>2. /\ Append(rest, t) \in Seq(S)
      /\ Len(Append(rest, t)) = Len(rest) + 1
      /\ \A i \in 1 .. Len(rest) : Append(rest, t)[i] = rest[i]
      /\ Append(rest, t)[Len(rest) + 1] = t
  BY <1>1, AppendProperties
<1>3. Len(seq) \in Nat
  BY LenProperties
<1>4. Len(Append(rest, t)) = Len(new) /\ Len(rest) + 1 = Len(seq)
  BY <1>1, <1>2, <1>3
<1>5. ASSUME NEW m \in 1 .. Len(new)
      PROVE  new[m] = Append(rest, t)[m]
  <2>1. CASE m = Len(seq)
    BY <1>2, <1>4, <2>1
  <2>2. CASE m # Len(seq)
    <3>1. m \in 1 .. Len(seq) - 1 /\ m \in 1 .. Len(rest)
      BY <1>1, <1>3, <2>2
    <3> QED BY <1>1, <1>2, <3>1
  <2> QED BY <2>1, <2>2
<1>6. new = Append(rest, t)
  BY <1>2, <1>4, <1>5, SeqEqual
<1> QED BY <1>6 DEF rest

-----------------------------------------------------------------------------
(* The order of last use of one set. *)

LEMMA RecencyElements ==
  ASSUME NEW set \in [Lines -> Line], NEW n \in 0 .. LineCount, IsOrder(set, n)
  PROVE  /\ Recency(set, n) \in Seq(Nat)
         /\ Len(Recency(set, n)) = n
         /\ \A i \in FilledLines(set) :
              /\ set[i].lru + 1 \in 1 .. n
              /\ Recency(set, n)[set[i].lru + 1] = set[i].tag
         /\ \A m \in 1 .. n : \E i \in FilledLines(set) :
              set[i].lru = m - 1 /\ Recency(set, n)[m] = set[i].tag
<1> DEFINE line(m) == CHOOSE i \in FilledLines(set) : set[i].lru = m - 1
           seq     == Recency(set, n)
<1>1. n \in Nat /\ FilledLines(set) \subseteq Lines
  BY CsimAssumption DEF FilledLines
<1>2. \A i \in FilledLines(set) : set[i].lru \in Nat /\ set[i].tag \in Nat
  BY <1>1 DEF Line
<1>3. \A m \in 1 .. n : line(m) \in FilledLines(set) /\ set[line(m)].lru = m - 1
  <2> TAKE m \in 1 .. n
  <2>1. m - 1 \in 0 .. n - 1
    BY <1>1
  <2>2. \E i \in FilledLines(set) : set[i].lru = m - 1
    BY <2>1 DEF IsOrder
  <2> QED BY <2>2
<1>4. seq = [m \in 1 .. n |-> set[line(m)].tag]
  BY DEF Recency
<1> HIDE DEF line, seq
<1>5. seq \in [1 .. n -> Nat]
  BY <1>2, <1>3, <1>4
<1>6. seq \in Seq(Nat)
  BY <1>1, <1>5, SeqDef
<1>7. Len(seq) = n
  <2>1. DOMAIN seq = 1 .. Len(seq) /\ Len(seq) \in Nat
    BY <1>6, LenProperties
  <2>2. 1 .. n = 1 .. Len(seq)
    BY <1>5, <2>1
  <2>3. \A k, l \in Nat : k < l => l \in 1 .. l /\ l \notin 1 .. k
    OBVIOUS
  <2>4. ~(n < Len(seq)) /\ ~(Len(seq) < n)
    BY <1>1, <2>1, <2>2, <2>3
  <2>5. Len(seq) \in Nat
    BY <2>1
  <2> QED BY <1>1, <2>4, <2>5
<1>8. ASSUME NEW i \in FilledLines(set)
      PROVE  set[i].lru + 1 \in 1 .. n /\ seq[set[i].lru + 1] = set[i].tag
  <2> DEFINE m == set[i].lru + 1
  <2>1. m \in 1 .. n /\ m - 1 = set[i].lru
    BY <1>1, <1>2 DEF IsOrder
  <2> HIDE DEF m
  <2>2. set[line(m)].lru = set[i].lru /\ line(m) \in FilledLines(set)
    BY <1>3, <2>1
  <2>3. line(m) = i
    BY <2>2 DEF IsOrder
  <2>4. seq[m] = set[i].tag
    BY <1>4, <2>1, <2>3
  <2> QED BY <2>1, <2>4 DEF m
<1>9. \A m \in 1 .. n : \E i \in FilledLines(set) :
        set[i].lru = m - 1 /\ seq[m] = set[i].tag
  BY <1>3, <1>4
<1> QED BY <1>6, <1>7, <1>8, <1>9 DEF seq

LEMMA RecencyMoves ==
  ASSUME NEW set \in [Lines -> Line], NEW new \in [Lines -> Line],
         NEW n \in 1 .. LineCount, IsOrder(set, n), IsOrder(new, n),
         NEW i \in FilledLines(set), FilledLines(new) = FilledLines(set),
         new[i].lru = n - 1,
         \A k \in FilledLines(set) \ {i} :
           /\ new[k].tag = set[k].tag
           /\ new[k].lru = IF set[k].lru > set[i].lru
                           THEN set[k].lru - 1 ELSE set[k].lru
  PROVE  /\ set[i].lru + 1 \in 1 .. Len(Recency(set, n))
         /\ Recency(set, n)[set[i].lru + 1] = set[i].tag
         /\ Recency(new, n) =
              Append(RemoveAt(Recency(set, n), set[i].lru + 1), new[i].tag)
<1> DEFINE p   == set[i].lru + 1
           seq == Recency(set, n)
           res == Recency(new, n)
<1>1. n \in 0 .. LineCount /\ n \in Nat /\ n >= 1
      /\ FilledLines(set) \subseteq Lines
  BY CsimAssumption DEF FilledLines
<1>2. /\ seq \in Seq(Nat) /\ Len(seq) = n
      /\ \A k \in FilledLines(set) :
           set[k].lru + 1 \in 1 .. n /\ seq[set[k].lru + 1] = set[k].tag
  BY <1>1, RecencyElements
<1>3. /\ res \in Seq(Nat) /\ Len(res) = n
      /\ \A k \in FilledLines(set) :
           new[k].lru + 1 \in 1 .. n /\ res[new[k].lru + 1] = new[k].tag
      /\ \A m \in 1 .. n : \E k \in FilledLines(set) :
           new[k].lru = m - 1 /\ res[m] = new[k].tag
  <2>1. /\ res \in Seq(Nat) /\ Len(res) = n
        /\ \A k \in FilledLines(new) :
             new[k].lru + 1 \in 1 .. n /\ res[new[k].lru + 1] = new[k].tag
        /\ \A m \in 1 .. n : \E k \in FilledLines(new) :
             new[k].lru = m - 1 /\ res[m] = new[k].tag
    BY <1>1, RecencyElements
  <2> HIDE DEF res
  <2> QED BY <2>1
<1> HIDE DEF seq, res
<1>4. \A k \in FilledLines(set) : set[k].lru \in Nat /\ new[k].tag \in Nat
  BY <1>1 DEF Line
<1>5. res[n] = new[i].tag
  <2>1. (n - 1) + 1 = n
    BY <1>1
  <2> QED BY <1>3, <2>1
<1>6. ASSUME NEW m \in 1 .. n - 1
      PROVE  res[m] = IF m < p THEN seq[m] ELSE seq[m + 1]
  <2>1. PICK k \in FilledLines(set) : new[k].lru = m - 1 /\ res[m] = new[k].tag
    <3>1. m \in 1 .. n
      BY <1>1
    <3> QED BY <1>3, <3>1
  <2>2. k # i
    BY <1>1, <2>1
  <2>3. new[k].tag = set[k].tag
    BY <2>2
  <2>4. CASE set[k].lru > set[i].lru
    <3>1. set[k].lru = m /\ ~(m < p)
      BY <1>4, <2>1, <2>2, <2>4
    <3>2. seq[m + 1] = set[k].tag
      BY <1>2, <3>1
    <3> QED BY <2>1, <2>3, <3>1, <3>2
  <2>5. CASE ~(set[k].lru > set[i].lru)
    <3>1. set[k].lru # set[i].lru
      BY <2>2 DEF IsOrder
    <3>2. set[k].lru = m - 1 /\ m < p
      BY <1>4, <2>1, <2>2, <2>5, <3>1
    <3>3. seq[m] = set[k].tag
      <4>1. set[k].lru + 1 = m
        BY <3>2
      <4> QED BY <1>2, <4>1
    <3> QED BY <2>1, <2>3, <3>2, <3>3
  <2> QED BY <2>4, <2>5
<1>7. p \in 1 .. Len(seq) /\ seq[p] = set[i].tag
  BY <1>2
<1>8. res = Append(RemoveAt(seq, p), new[i].tag)
  <2> HIDE DEF p
  <2>1. /\ Len(res) = Len(seq) /\ res[Len(seq)] = new[i].tag
        /\ \A m \in 1 .. Len(seq) - 1 :
             res[m] = IF m < p THEN seq[m] ELSE seq[m + 1]
    BY <1>2, <1>3, <1>5, <1>6
  <2>2. seq \in Seq(Nat) /\ res \in Seq(Nat) /\ new[i].tag \in Nat
    BY <1>2, <1>3, <1>4
  <2> QED BY <1>7, <2>1, <2>2, MoveToEnd
<1> QED BY <1>7, <1>8 DEF seq, res

LEMMA RecencyGrows ==
  ASSUME NEW set \in [Lines -> Line], NEW new \in [Lines -> Line],
         NEW n \in 0 .. LineCount - 1, IsOrder(set, n), IsOrder(new, n + 1),
         FilledLines(new) = FilledLines(set) \cup {n}, new[n].lru = n,
         \A k \in FilledLines(set) : new[k] = set[k]
  PROVE  Recency(new, n + 1) = Append(Recency(set, n), new[n].tag)
<1> DEFINE seq == Recency(set, n)
           res == Recency(new, n + 1)
           t   == new[n].tag
<1>1. n \in 0 .. LineCount /\ n + 1 \in 0 .. LineCount /\ n \in Nat /\ n \in Lines
  BY CsimAssumption DEF Lines
<1>2. /\ seq \in Seq(Nat) /\ Len(seq) = n
      /\ \A k \in FilledLines(set) :
           set[k].lru + 1 \in 1 .. n /\ seq[set[k].lru + 1] = set[k].tag
      /\ \A m \in 1 .. n : \E k \in FilledLines(set) :
           set[k].lru = m - 1 /\ seq[m] = set[k].tag
  BY <1>1, RecencyElements
<1>3. /\ res \in Seq(Nat) /\ Len(res) = n + 1
      /\ \A k \in FilledLines(new) : res[new[k].lru + 1] = new[k].tag
  BY <1>1, RecencyElements
<1>4. t \in Nat
  BY <1>1 DEF Line
<1> HIDE DEF seq, res, t
<1>5. /\ Append(seq, t) \in Seq(Nat)
      /\ Len(Append(seq, t)) = Len(seq) + 1
      /\ \A m \in 1 .. Len(seq) : Append(seq, t)[m] = seq[m]
      /\ Append(seq, t)[Len(seq) + 1] = t
  BY <1>2, <1>4, AppendProperties
<1>6. ASSUME NEW m \in 1 .. Len(res)
      PROVE  res[m] = Append(seq, t)[m]
  <2>1. CASE m = n + 1
    <3>1. res[n + 1] = t
      BY <1>3 DEF t
    <3> QED BY <1>2, <1>5, <2>1, <3>1
  <2>2. CASE m # n + 1
    <3>1. m \in 1 .. n
      BY <1>1, <1>3, <2>2
    <3>2. PICK k \in FilledLines(set) : set[k].lru = m - 1 /\ seq[m] = set[k].tag
      BY <1>2, <3>1
    <3>3. new[k].lru + 1 = m /\ new[k].tag = seq[m]
      BY <3>1, <3>2
    <3>4. res[m] = seq[m]
      BY <1>3, <3>2, <3>3
    <3> QED BY <1>2, <1>5, <3>1, <3>4
  <2> QED BY <2>1, <2>2
<1>7. res = Append(seq, t)
  BY <1>2, <1>3, <1>5, <1>6, SeqEqual
<1> QED BY <1>7 DEF seq, res, t

LEMMA TailRemovesFirst ==
  ASSUME NEW S, NEW seq \in Seq(S), Len(seq) >= 1
  PROVE  Tail(seq) = RemoveAt(seq, 1) /\ Head(seq) = seq[1]
<1>1. Len(seq) \in Nat /\ 1 \in 1 .. Len(seq) /\ seq # << >>
  BY LenProperties, EmptySeq
<1>2. /\ Tail(seq) \in Seq(S) /\ Len(Tail(seq)) = Len(seq) - 1
      /\ \A i \in 1 .. Len(Tail(seq)) : Tail(seq)[i] = seq[i + 1]
  BY <1>1, HeadTailProperties
<1>3. /\ RemoveAt(seq, 1) \in Seq(S) /\ Len(RemoveAt(seq, 1)) = Len(seq) - 1
      /\ \A m \in 1 .. Len(seq) - 1 :
           RemoveAt(seq, 1)[m] = IF m < 1 THEN seq[m] ELSE seq[m + 1]
  BY <1>1, RemoveAtElements
<1>4. \A m \in 1 .. Len(Tail(seq)) : Tail(seq)[m] = RemoveAt(seq, 1)[m]
  BY <1>1, <1>2, <1>3
<1>5. Tail(seq) = RemoveAt(seq, 1)
  BY <1>2, <1>3, <1>4, SeqEqual
<1> QED BY <1>1, <1>5

-----------------------------------------------------------------------------
(* The dirty blocks. *)

LEMMA DirtyMembers ==
  /\ \A r, x : <<r, x>> \in DirtyBlocks <=>
       r \in Sets /\ \E k \in Lines : cache[r][k].dirty /\ cache[r][k].tag = x
  /\ \A d \in DirtyBlocks : d = <<d[1], d[2]>>
<1>1. ASSUME NEW r, NEW x, <<r, x>> \in DirtyBlocks
      PROVE  r \in Sets /\ \E k \in Lines : cache[r][k].dirty /\ cache[r][k].tag = x
  BY <1>1 DEF DirtyBlocks, DirtyLines
<1>2. ASSUME NEW r \in Sets, NEW k \in Lines, cache[r][k].dirty
      PROVE  <<r, cache[r][k].tag>> \in DirtyBlocks
  <2>1. <<r, k>> \in DirtyLines
    BY <1>2 DEF DirtyLines
  <2> QED BY <2>1 DEF DirtyBlocks
<1>3. \A d \in DirtyBlocks : d = <<d[1], d[2]>>
  BY DEF DirtyBlocks
<1> QED BY <1>1, <1>2, <1>3

LEMMA DirtyMembersNext ==
  /\ \A r, x : <<r, x>> \in DirtyBlocks' <=>
       r \in Sets /\ \E k \in Lines : cache'[r][k].dirty /\ cache'[r][k].tag = x
  /\ \A d \in DirtyBlocks' : d = <<d[1], d[2]>>
<1>1. ASSUME NEW r, NEW x, <<r, x>> \in DirtyBlocks'
      PROVE  r \in Sets /\ \E k \in Lines : cache'[r][k].dirty /\ cache'[r][k].tag = x
  BY <1>1 DEF DirtyBlocks, DirtyLines
<1>2. ASSUME NEW r \in Sets, NEW k \in Lines, cache'[r][k].dirty
      PROVE  <<r, cache'[r][k].tag>> \in DirtyBlocks'
  <2>1. <<r, k>> \in DirtyLines'
    BY <1>2 DEF DirtyLines
  <2> QED BY <2>1 DEF DirtyBlocks
<1>3. \A d \in DirtyBlocks' : d = <<d[1], d[2]>>
  BY DEF DirtyBlocks
<1> QED BY <1>1, <1>2, <1>3

\* The tags of the dirty lines of a set.
DirtyTags(set) == {x \in Nat : \E k \in Lines : set[k].dirty /\ set[k].tag = x}

LEMMA DirtyBlocksChange ==
  ASSUME IInv, NEW s \in Sets, NEW new \in [Lines -> Line],
         cache' = [cache EXCEPT ![s] = new]
  PROVE  \E others : /\ \A d \in others : d[1] # s
                     /\ DirtyBlocks = others \cup ({s} \X DirtyTags(cache[s]))
                     /\ DirtyBlocks' = others \cup ({s} \X DirtyTags(new))
<1> DEFINE others == {d \in DirtyBlocks : d[1] # s}
<1>1. cache \in [Sets -> [Lines -> Line]]
  BY DEF IInv, TypeOK
<1>2. cache'[s] = new /\ \A r \in Sets \ {s} : cache'[r] = cache[r]
  BY <1>1
<1>3. \A k \in Lines : cache[s][k].tag \in Nat /\ new[k].tag \in Nat
  BY <1>1 DEF Line
<1>4. ASSUME NEW d
      PROVE  d \in DirtyBlocks <=> d \in others \cup ({s} \X DirtyTags(cache[s]))
  <2>1. ASSUME NEW x
        PROVE  <<s, x>> \in DirtyBlocks <=> x \in DirtyTags(cache[s])
    BY <1>3, DirtyMembers DEF DirtyTags
  <2>2. d \in DirtyBlocks => d = <<d[1], d[2]>>
    BY DirtyMembers
  <2>3. d \in {s} \X DirtyTags(cache[s])
        <=> d = <<s, d[2]>> /\ d[2] \in DirtyTags(cache[s])
    OBVIOUS
  <2> QED BY <2>1, <2>2, <2>3
<1>5. ASSUME NEW d
      PROVE  d \in DirtyBlocks' <=> d \in others \cup ({s} \X DirtyTags(new))
  <2>1. ASSUME NEW x
        PROVE  <<s, x>> \in DirtyBlocks' <=> x \in DirtyTags(new)
    BY <1>2, <1>3, DirtyMembersNext DEF DirtyTags
  <2>2. ASSUME NEW r, NEW x, r # s
        PROVE  <<r, x>> \in DirtyBlocks' <=> <<r, x>> \in DirtyBlocks
    BY <1>2, <2>2, DirtyMembers, DirtyMembersNext
  <2>3. /\ d \in DirtyBlocks' => d = <<d[1], d[2]>>
        /\ d \in DirtyBlocks => d = <<d[1], d[2]>>
    BY DirtyMembers, DirtyMembersNext
  <2>4. d \in {s} \X DirtyTags(new)
        <=> d = <<s, d[2]>> /\ d[2] \in DirtyTags(new)
    OBVIOUS
  <2>5. CASE d = <<d[1], d[2]>> /\ d[1] # s
    BY <2>2, <2>4, <2>5
  <2>6. CASE d = <<d[1], d[2]>> /\ d[1] = s
    BY <2>1, <2>4, <2>6
  <2>7. CASE d # <<d[1], d[2]>>
    <3>1. d \notin {s} \X DirtyTags(new)
      BY <2>7
    <3> QED BY <2>3, <2>7, <3>1
  <2> QED BY <2>5, <2>6, <2>7
<1>6. \A d \in others : d[1] # s
  OBVIOUS
<1> HIDE DEF others
<1> QED BY <1>4, <1>5, <1>6

(***************************************************************************)
(* As many blocks are dirty as lines: no block is in two lines.            *)
(***************************************************************************)
LEMMA DirtyCount ==
  ASSUME IInv
  PROVE  Cardinality(DirtyBlocks) = Cardinality(DirtyLines)
<1> DEFINE f == [p \in DirtyLines |-> <<p[1], cache[p[1]][p[2]].tag>>]
<1>1. f \in [DirtyLines -> DirtyBlocks]
  BY DEF DirtyBlocks
<1>2. \A d \in DirtyBlocks : \E p \in DirtyLines : f[p] = d
  BY DEF DirtyBlocks
<1>3. ASSUME NEW p \in DirtyLines, NEW q \in DirtyLines, f[p] = f[q]
      PROVE  p = q
  <2>1. /\ p[1] \in Sets /\ p[2] \in Lines /\ cache[p[1]][p[2]].dirty
        /\ q[1] \in Sets /\ q[2] \in Lines /\ cache[q[1]][q[2]].dirty
        /\ p = <<p[1], p[2]>> /\ q = <<q[1], q[2]>>
    BY DEF DirtyLines
  <2>2. p[1] = q[1] /\ cache[p[1]][p[2]].tag = cache[q[1]][q[2]].tag
    BY <1>3
  <2>3. p[2] \in FilledLines(cache[p[1]]) /\ q[2] \in FilledLines(cache[p[1]])
    BY <2>1, <2>2 DEF IInv, EmptyIsClean, FilledLines
  <2>4. p[2] = q[2]
    BY <2>1, <2>2, <2>3 DEF IInv, OneLinePerBlock, NoTagTwice
  <2> QED BY <2>1, <2>2, <2>4
<1> HIDE DEF f
<1>4. f \in Bijection(DirtyLines, DirtyBlocks)
  BY <1>1, <1>2, <1>3 DEF Bijection, Injection, Surjection, IsInjective
<1>5. ExistsBijection(DirtyLines, DirtyBlocks)
  BY <1>4 DEF ExistsBijection
<1> QED BY <1>5, DirtyLinesFinite, FS_Bijection

-----------------------------------------------------------------------------
(* Every step of the simulator is one of LruCache. *)

LEMMA UsedFacts ==
  ASSUME IInv, NEW s \in Sets
  PROVE  /\ Used[s] = Recency(cache[s], filled[s])
         /\ Used[s] \in Seq(Nat) /\ Len(Used[s]) = filled[s]
         /\ \A m \in 1 .. filled[s] : \E i \in FilledLines(cache[s]) :
              cache[s][i].lru = m - 1 /\ Used[s][m] = cache[s][i].tag
BY SetFacts, RecencyElements DEF Used

LEMMA UsedChanges ==
  ASSUME IInv, NEW s \in Sets, NEW new \in [Lines -> Line],
         NEW n \in 0 .. LineCount,
         cache' = [cache EXCEPT ![s] = new],
         filled' = [filled EXCEPT ![s] = n]
  PROVE  Used' = [Used EXCEPT ![s] = Recency(new, n)]
<1>1. cache \in [Sets -> [Lines -> Line]] /\ filled \in [Sets -> 0 .. LineCount]
  BY DEF IInv, TypeOK
<1>2. \A r \in Sets : Recency(cache'[r], filled'[r]) =
        IF r = s THEN Recency(new, n) ELSE Recency(cache[r], filled[r])
  BY <1>1
<1>3. Used' = [r \in Sets |-> Recency(cache'[r], filled'[r])]
  BY DEF Used, Recency, FilledLines
<1>4. Used = [r \in Sets |-> Recency(cache[r], filled[r])]
  BY DEF Used
<1> QED BY <1>2, <1>3, <1>4

LEMMA HitMaps ==
  ASSUME IInv, NEW s \in Sets, NEW t \in Nat, NEW stores \in BOOLEAN,
         Hit(s, t, stores), LastAccess' = <<s, t, stores>>
  PROVE  Lru!Hit(s, t, stores)
<1> DEFINE set == cache[s]
           n   == filled[s]
<1>1. PICK i \in FilledLines(set) :
        /\ set[i].tag = t
        /\ cache' = [cache EXCEPT ![s] = Mark(Touch(set, i, n), i, stores)]
  BY HitFacts
<1> DEFINE touched == Touch(set, i, n)
           new     == Mark(touched, i, stores)
           p       == set[i].lru + 1
<1>2. set \in [Lines -> Line] /\ IsOrder(set, n)
  BY SetFacts
<1>3. /\ n \in 1 .. LineCount /\ n \in 0 .. LineCount
      /\ i \in Lines /\ FilledLines(set) \subseteq Lines
  BY HitFacts, CsimAssumption DEF FilledLines
<1>4. /\ touched \in [Lines -> Line]
      /\ \A k \in Lines : /\ touched[k].empty = set[k].empty
                          /\ touched[k].tag = set[k].tag
                          /\ touched[k].dirty = set[k].dirty
      /\ touched[i].lru = n - 1
      /\ \A k \in Lines \ {i} :
           touched[k].lru = IF ~set[k].empty /\ set[k].lru > set[i].lru
                            THEN set[k].lru - 1 ELSE set[k].lru
  BY <1>2, <1>3, TouchFacts
<1>5. IsOrder(touched, n)
  BY <1>2, <1>3, TouchKeepsOrder
<1> HIDE DEF touched
<1>6. /\ new \in [Lines -> Line]
      /\ \A k \in Lines : /\ new[k].empty = touched[k].empty
                          /\ new[k].tag = touched[k].tag
                          /\ new[k].lru = touched[k].lru
                          /\ stores /\ k = i => new[k].dirty
                          /\ ~(stores /\ k = i) => new[k].dirty = touched[k].dirty
  BY <1>3, <1>4, MarkFacts
<1>7. IsOrder(new, n)
  BY <1>3, <1>4, <1>5, MarkKeepsOrder
<1>8. cache' = [cache EXCEPT ![s] = new] /\ filled' = [filled EXCEPT ![s] = n]
  BY <1>1 DEF touched, Hit, IInv, TypeOK
<1>u. Used[s] = Recency(set, n) /\ n = filled[s]
  BY UsedFacts
<1>d. EmptyIsClean
  BY DEF IInv
<1> HIDE DEF new, n
<1>9. FilledLines(new) = FilledLines(set)
  BY <1>4, <1>6 DEF FilledLines
<1>10. /\ new[i].lru = n - 1 /\ new[i].tag = t
       /\ \A k \in FilledLines(set) \ {i} :
            /\ new[k].tag = set[k].tag
            /\ new[k].lru = IF set[k].lru > set[i].lru
                            THEN set[k].lru - 1 ELSE set[k].lru
  BY <1>1, <1>3, <1>4, <1>6 DEF FilledLines
<1>11. /\ p \in 1 .. Len(Recency(set, n))
       /\ Recency(set, n)[p] = t
       /\ Recency(new, n) = Append(RemoveAt(Recency(set, n), p), t)
  <2> HIDE DEF set
  <2>1. new[i].tag = t /\ set[i].tag = t
    BY <1>1, <1>10
  <2>2. new \in [Lines -> Line] /\ set \in [Lines -> Line]
        /\ IsOrder(set, n) /\ IsOrder(new, n)
    BY <1>2, <1>6, <1>7
  <2>3. n \in 1 .. LineCount
    BY <1>3
  <2>4. /\ set[i].lru + 1 \in 1 .. Len(Recency(set, n))
        /\ Recency(set, n)[set[i].lru + 1] = set[i].tag
        /\ Recency(new, n) =
             Append(RemoveAt(Recency(set, n), set[i].lru + 1), new[i].tag)
    BY <1>9, <1>10, <2>2, <2>3, RecencyMoves
  <2> QED BY <2>1, <2>4
<1>12. Used' = [Used EXCEPT ![s] = Recency(new, n)]
  <2>1. new \in [Lines -> Line]
    BY <1>6
  <2> QED BY <1>3, <1>8, <2>1, UsedChanges
<1> HIDE DEF p
<1>13. \E m \in 1 .. Len(Used[s]) :
         /\ Used[s][m] = t
         /\ Used' = [Used EXCEPT ![s] = Append(RemoveAt(Used[s], m), t)]
  BY <1>u, <1>11, <1>12
<1>14. DirtyBlocks' = DirtyBlocks \cup IF stores THEN {<<s, t>>} ELSE {}
  <2>1. \A k \in Lines \ {i} : new[k].dirty = set[k].dirty /\ new[k].tag = set[k].tag
    BY <1>4, <1>6
  <2>2. new[i].tag = t /\ set[i].tag = t /\ (new[i].dirty <=> stores \/ set[i].dirty)
    BY <1>1, <1>3, <1>4, <1>6, <1>10
  <2>3. DirtyTags(new) = DirtyTags(set) \cup IF stores THEN {t} ELSE {}
    BY <1>3, <2>1, <2>2 DEF DirtyTags
  <2>4. \E others :
          /\ DirtyBlocks = others \cup ({s} \X DirtyTags(set))
          /\ DirtyBlocks' = others \cup ({s} \X DirtyTags(new))
    BY <1>6, <1>8, DirtyBlocksChange
  <2> QED BY <2>3, <2>4
<1>15. /\ Running /\ stats' = [stats EXCEPT !.hits = @ + 1]
       /\ UNCHANGED status
  BY DEF Hit
<1> QED BY <1>13, <1>14, <1>15 DEF Lru!Hit, Lru!Stored, Lru!Running, Running,
         Lru!RemoveAt, RemoveAt

LEMMA NotKept ==
  ASSUME IInv, NEW s \in Sets, NEW t,
         \A k \in FilledLines(cache[s]) : cache[s][k].tag # t
  PROVE  t \notin Lru!Kept(s)
<1>1. /\ Used[s] \in Seq(Nat) /\ Len(Used[s]) = filled[s]
      /\ \A m \in 1 .. filled[s] : \E i \in FilledLines(cache[s]) :
           cache[s][i].lru = m - 1 /\ Used[s][m] = cache[s][i].tag
  BY UsedFacts
<1>2. DOMAIN Used[s] = 1 .. filled[s]
  BY <1>1, LenProperties
<1>3. \A m \in DOMAIN Used[s] : Used[s][m] # t
  BY <1>1, <1>2
<1> QED BY <1>3 DEF Lru!Kept, Lru!Range

LEMMA MissMaps ==
  ASSUME IInv, NEW s \in Sets, NEW t \in Nat, NEW stores \in BOOLEAN,
         Miss(s, t, stores), LastAccess' = <<s, t, stores>>
  PROVE  Lru!Fill(s, t, stores)
<1> DEFINE set   == cache[s]
           n     == filled[s]
           added == Filled(set, n, t)
           new   == Mark(added, n, stores)
<1>1. /\ n \in 0 .. LineCount - 1
      /\ \A k \in FilledLines(set) : set[k].tag # t
      /\ cache' = [cache EXCEPT ![s] = new]
  BY MissFacts
<1>2. /\ set \in [Lines -> Line] /\ IsOrder(set, n)
      /\ \A k \in Lines : set[k].empty => ~set[k].dirty
  BY SetFacts
<1>3. n \in Lines /\ n \in Nat /\ n + 1 \in 0 .. LineCount /\ n < LineCount
  BY <1>1, CsimAssumption DEF Lines
<1>4. /\ added \in [Lines -> Line]
      /\ FilledLines(added) = FilledLines(set) \cup {n}
      /\ added[n].tag = t /\ added[n].lru = n /\ added[n].dirty = set[n].dirty
      /\ \A k \in Lines \ {n} : added[k] = set[k]
      /\ IsOrder(added, n + 1)
  <2> HIDE DEF set, n
  <2> QED BY <1>1, <1>2, FillKeepsOrder
<1> HIDE DEF added
<1>5. FilledLines(set) \subseteq Lines \ {n} /\ FilledLines(added) \subseteq Lines
  BY <1>1, <1>2, CsimAssumption DEF IsOrder, Lines, FilledLines
<1>6. /\ new \in [Lines -> Line]
      /\ \A k \in Lines : /\ new[k].empty = added[k].empty
                          /\ new[k].tag = added[k].tag
                          /\ new[k].lru = added[k].lru
                          /\ stores /\ k = n => new[k].dirty
                          /\ ~(stores /\ k = n) => new[k].dirty = added[k].dirty
  BY <1>3, <1>4, MarkFacts
<1>7. FilledLines(new) = FilledLines(added) /\ IsOrder(new, n + 1)
  BY <1>3, <1>4, MarkKeepsOrder
<1>8. filled' = [filled EXCEPT ![s] = n + 1]
  BY DEF Miss
<1>9. Recency(added, n + 1) = Append(Recency(set, n), t)
  <2> HIDE DEF set, n
  <2>1. added[n].tag = t
    BY <1>4
  <2>2. set \in [Lines -> Line] /\ IsOrder(set, n)
    BY <1>2
  <2>3. /\ added \in [Lines -> Line] /\ IsOrder(added, n + 1)
        /\ FilledLines(added) = FilledLines(set) \cup {n} /\ added[n].lru = n
    BY <1>4
  <2>4. \A k \in FilledLines(set) : added[k] = set[k]
    BY <1>4, <1>5
  <2>5. n \in 0 .. LineCount - 1
    BY <1>1
  <2>6. Recency(added, n + 1) = Append(Recency(set, n), added[n].tag)
    BY <2>2, <2>3, <2>4, <2>5, RecencyGrows
  <2> QED BY <2>1, <2>6
<1>10. Recency(new, n + 1) = Recency(added, n + 1)
  <2>1. \A k \in FilledLines(added) :
          new[k].lru = added[k].lru /\ new[k].tag = added[k].tag
    BY <1>5, <1>6
  <2> HIDE DEF new, n, set
  <2>2. \A m \in 1 .. n + 1 :
          /\ \E k \in FilledLines(added) : added[k].lru = m - 1
          /\ (CHOOSE k \in FilledLines(new) : new[k].lru = m - 1) =
             (CHOOSE k \in FilledLines(added) : added[k].lru = m - 1)
    <3> TAKE m \in 1 .. n + 1
    <3>1. m - 1 \in 0 .. (n + 1) - 1
      BY <1>3
    <3>2. \E k \in FilledLines(added) : added[k].lru = m - 1
      BY <1>4, <3>1 DEF IsOrder
    <3>3. \A k : k \in FilledLines(new) /\ new[k].lru = m - 1 <=>
                 k \in FilledLines(added) /\ added[k].lru = m - 1
      BY <1>7, <2>1
    <3> QED BY <3>2, <3>3
  <2>3. \A m \in 1 .. n + 1 :
          new[CHOOSE k \in FilledLines(new) : new[k].lru = m - 1].tag =
          added[CHOOSE k \in FilledLines(added) : added[k].lru = m - 1].tag
    BY <2>1, <2>2
  <2> QED BY <2>3 DEF Recency
<1>11. Used' = [Used EXCEPT ![s] = Append(Used[s], t)]
  <2>1. Used' = [Used EXCEPT ![s] = Recency(new, n + 1)]
    <3> HIDE DEF new
    <3>1. new \in [Lines -> Line] /\ cache' = [cache EXCEPT ![s] = new]
      BY <1>1, <1>6 DEF new
    <3> QED BY <1>3, <1>8, <3>1, UsedChanges
  <2>2. Used[s] = Recency(set, n)
    BY UsedFacts
  <2> QED BY <1>9, <1>10, <2>1, <2>2
<1>12. t \notin Lru!Kept(s) /\ Len(Used[s]) < LineCount
  BY <1>1, <1>3, NotKept, UsedFacts
<1>13. DirtyBlocks' = DirtyBlocks \cup IF stores THEN {<<s, t>>} ELSE {}
  <2>1. \A k \in Lines \ {n} : new[k].dirty = set[k].dirty /\ new[k].tag = set[k].tag
    BY <1>4, <1>6
  <2>2. ~set[n].dirty
    <3>1. n \notin FilledLines(set)
      BY <1>5
    <3> QED BY <1>2, <1>3, <3>1 DEF FilledLines
  <2>3. new[n].tag = t /\ (new[n].dirty <=> stores)
    BY <1>3, <1>4, <1>6, <2>2
  <2> HIDE DEF new, set, n
  <2>4. DirtyTags(new) = DirtyTags(set) \cup IF stores THEN {t} ELSE {}
    BY <1>3, <2>1, <2>2, <2>3 DEF DirtyTags
  <2>5. \E others :
          /\ DirtyBlocks = others \cup ({s} \X DirtyTags(set))
          /\ DirtyBlocks' = others \cup ({s} \X DirtyTags(new))
    BY <1>1, <1>6, DirtyBlocksChange DEF set
  <2> QED BY <2>4, <2>5
<1>14. /\ Running /\ stats' = [stats EXCEPT !.misses = @ + 1]
       /\ UNCHANGED status
  BY DEF Miss
<1> QED BY <1>11, <1>12, <1>13, <1>14
        DEF Lru!Fill, Lru!Stored, Lru!Running, Running

LEMMA EvictMaps ==
  ASSUME IInv, NEW s \in Sets, NEW t \in Nat, NEW stores \in BOOLEAN,
         Evict(s, t, stores), LastAccess' = <<s, t, stores>>
  PROVE  Lru!Evict(s, t, stores)
<1> DEFINE set == cache[s]
           n   == filled[s]
<1>1. PICK i \in Lines :
        /\ set[i].lru = 0
        /\ cache' = [cache EXCEPT ![s] = Mark(EvictLine(set, i, n, t), i, stores)]
        /\ stats' = [stats EXCEPT !.misses = @ + 1, !.evictions = @ + 1,
                       !.dirtyEvictions = IF set[i].dirty THEN @ + 1 ELSE @]
  BY DEF Evict, IsFirst
<1> DEFINE changed == EvictLine(set, i, n, t)
           touched == Touch(set, i, n)
           new     == Mark(changed, i, stores)
<1>2. /\ set \in [Lines -> Line] /\ IsOrder(set, n) /\ NoTagTwice(set)
  BY SetFacts
<1>3. /\ n = LineCount
      /\ FilledLines(set) = Lines
      /\ \A k \in Lines : set[k].tag # t
  BY EvictFacts
<1>a. n \in 1 .. LineCount /\ n \in 0 .. LineCount
  BY <1>3, CsimAssumption
<1>4. /\ changed \in [Lines -> Line]
      /\ FilledLines(changed) = Lines
      /\ changed[i].tag = t /\ ~changed[i].dirty
      /\ \A k \in Lines : changed[k].lru = touched[k].lru
      /\ \A k \in Lines \ {i} : /\ changed[k].tag = set[k].tag
                                /\ changed[k].dirty = set[k].dirty
      /\ IsOrder(changed, n)
  BY <1>2, <1>3, <1>a, EvictLineFacts
<1>5. /\ touched[i].lru = n - 1
      /\ \A k \in Lines \ {i} :
           touched[k].lru = IF ~set[k].empty /\ set[k].lru > set[i].lru
                            THEN set[k].lru - 1 ELSE set[k].lru
  BY <1>2, <1>a, TouchFacts
<1> HIDE DEF touched, changed
<1>6. /\ new \in [Lines -> Line]
      /\ \A k \in Lines : /\ new[k].tag = changed[k].tag
                          /\ new[k].lru = changed[k].lru
                          /\ stores /\ k = i => new[k].dirty
                          /\ ~(stores /\ k = i) => new[k].dirty = changed[k].dirty
  BY <1>4, MarkFacts
<1>7. FilledLines(new) = Lines /\ IsOrder(new, n)
  BY <1>a, <1>4, MarkKeepsOrder
<1>8. cache' = [cache EXCEPT ![s] = new] /\ filled' = [filled EXCEPT ![s] = n]
  BY <1>1 DEF changed, Evict, IInv, TypeOK
<1>u. Used[s] = Recency(set, n) /\ Used[s] \in Seq(Nat) /\ Len(Used[s]) = n
  BY UsedFacts
<1> HIDE DEF new, n
<1>9. /\ new[i].lru = n - 1 /\ new[i].tag = t
      /\ \A k \in FilledLines(set) \ {i} :
           /\ new[k].tag = set[k].tag
           /\ new[k].lru = IF set[k].lru > set[i].lru
                           THEN set[k].lru - 1 ELSE set[k].lru
  BY <1>3, <1>4, <1>5, <1>6 DEF FilledLines
<1>10. /\ set[i].lru + 1 \in 1 .. Len(Recency(set, n))
       /\ Recency(set, n)[set[i].lru + 1] = set[i].tag
       /\ Recency(new, n) = Append(RemoveAt(Recency(set, n), set[i].lru + 1), t)
  <2> HIDE DEF set
  <2>1. i \in FilledLines(set) /\ FilledLines(new) = FilledLines(set)
    BY <1>3, <1>7
  <2>2. new \in [Lines -> Line] /\ set \in [Lines -> Line]
        /\ IsOrder(set, n) /\ IsOrder(new, n)
    BY <1>2, <1>6, <1>7
  <2>3. new[i].tag = t
    BY <1>9
  <2>4. /\ set[i].lru + 1 \in 1 .. Len(Recency(set, n))
        /\ Recency(set, n)[set[i].lru + 1] = set[i].tag
        /\ Recency(new, n) =
             Append(RemoveAt(Recency(set, n), set[i].lru + 1), new[i].tag)
    BY <1>a, <1>9, <2>1, <2>2, RecencyMoves
  <2> QED BY <2>3, <2>4
<1>11. Recency(new, n) = Append(Tail(Used[s]), t) /\ Head(Used[s]) = set[i].tag
  <2>1. set[i].lru + 1 = 1
    BY <1>1
  <2>2. Len(Used[s]) >= 1
    BY <1>a, <1>u
  <2>3. Tail(Used[s]) = RemoveAt(Used[s], 1) /\ Head(Used[s]) = Used[s][1]
    BY <1>u, <2>2, TailRemovesFirst
  <2> HIDE DEF set
  <2> QED BY <1>u, <1>10, <2>1, <2>3
<1>12. Used' = [Used EXCEPT ![s] = Append(Tail(Used[s]), t)]
  <2>1. Used' = [Used EXCEPT ![s] = Recency(new, n)]
    <3>1. new \in [Lines -> Line]
      BY <1>6
    <3> QED BY <1>a, <1>8, <3>1, UsedChanges
  <2> QED BY <1>11, <2>1
<1>13. t \notin Lru!Kept(s) /\ Len(Used[s]) = LineCount
  BY <1>3, <1>u, NotKept
<1> DEFINE old == set[i].tag
<1>14. /\ old \in Nat /\ old # t
       /\ \A k \in Lines \ {i} : set[k].tag # old
  BY <1>2, <1>3 DEF NoTagTwice, Line
<1>15. DirtyBlocks' = (DirtyBlocks \ {<<s, old>>})
                        \cup IF stores THEN {<<s, t>>} ELSE {}
  <2>1. \A k \in Lines \ {i} : new[k].dirty = set[k].dirty /\ new[k].tag = set[k].tag
    BY <1>4, <1>6
  <2>2. new[i].tag = t /\ (new[i].dirty <=> stores)
    BY <1>4, <1>6
  <2>3. DirtyTags(new) = (DirtyTags(set) \ {old}) \cup IF stores THEN {t} ELSE {}
    <3> HIDE DEF set
    <3> QED BY <1>14, <2>1, <2>2 DEF DirtyTags
  <2>4. \E others :
          /\ \A d \in others : d[1] # s
          /\ DirtyBlocks = others \cup ({s} \X DirtyTags(set))
          /\ DirtyBlocks' = others \cup ({s} \X DirtyTags(new))
    BY <1>6, <1>8, DirtyBlocksChange
  <2> HIDE DEF old
  <2> QED BY <2>3, <2>4
<1>16. <<s, old>> \in DirtyBlocks <=> set[i].dirty
  BY <1>14, DirtyMembers
<1>17. Running /\ UNCHANGED status
  BY DEF Evict
<1>18. stats' = [stats EXCEPT !.misses = @ + 1, !.evictions = @ + 1,
                   !.dirtyEvictions =
                     @ + IF <<s, old>> \in DirtyBlocks THEN 1 ELSE 0]
  <2>1. stats.dirtyEvictions \in Nat
    BY DEF IInv, TypeOK, Stats
  <2>2. (IF set[i].dirty THEN stats.dirtyEvictions + 1 ELSE stats.dirtyEvictions) =
        stats.dirtyEvictions + IF <<s, old>> \in DirtyBlocks THEN 1 ELSE 0
    BY <1>16, <2>1
  <2> HIDE DEF set
  <2> QED BY <1>1, <2>2
<1> HIDE DEF set
<1>19. Head(Used[s]) = old
  BY <1>11
<1> HIDE DEF old
<1> QED BY <1>12, <1>13, <1>15, <1>17, <1>18, <1>19
        DEF Lru!Evict, Lru!Stored, Lru!Running, Running

LEMMA AccessMaps ==
  ASSUME IInv, NEW a \in Addresses, NEW stores \in BOOLEAN, Access(a, stores)
  PROVE  Lru!Next
<1> DEFINE s == SetOf(a)
           t == TagOf(a)
<1>1. s \in Sets /\ t \in Nat /\ t \in {TagOf(b) : b \in Addresses}
  BY SetsAndTags
<1>2. instruction' = <<a, stores>>
      /\ (Hit(s, t, stores) \/ Miss(s, t, stores) \/ Evict(s, t, stores))
  BY DEF Access
<1>3. LastAccess' = <<s, t, stores>>
  BY <1>2 DEF LastAccess, NoInstruction
<1> HIDE DEF s, t
<1>4. Lru!Hit(s, t, stores) \/ Lru!Fill(s, t, stores) \/ Lru!Evict(s, t, stores)
  BY <1>1, <1>2, <1>3, HitMaps, MissMaps, EvictMaps
<1> QED BY <1>1, <1>4 DEF Lru!Next

LEMMA SameLines ==
  ASSUME UNCHANGED <<cache, filled>>
  PROVE  UNCHANGED <<Used, DirtyBlocks>>
BY DEF Used, Recency, FilledLines, DirtyBlocks, DirtyLines

LEMMA EndMaps ==
  ASSUME IInv, EndOfTrace
  PROVE  Lru!PrintSummary
<1>1. UNCHANGED <<Used, DirtyBlocks>>
  BY SameLines DEF EndOfTrace
<1>2. UNCHANGED LastAccess
  BY DEF EndOfTrace, LastAccess
<1>3. Lru!Cardinality(DirtyBlocks) = Cardinality(DirtyBlocks)
  BY DEF Lru!Cardinality, Cardinality
<1>4. Lru!Cardinality(DirtyBlocks) = Cardinality(DirtyLines)
  BY <1>3, DirtyCount
<1> QED BY <1>1, <1>2, <1>4 DEF EndOfTrace, Lru!PrintSummary

LEMMA FailMaps ==
  ASSUME InvalidInstruction
  PROVE  Lru!Fail
<1>1. UNCHANGED <<Used, DirtyBlocks>>
  BY SameLines DEF InvalidInstruction
<1>2. UNCHANGED LastAccess
  BY DEF InvalidInstruction, LastAccess
<1> QED BY <1>1, <1>2 DEF InvalidInstruction, Lru!Fail

LEMMA InitMaps == Init => Lru!Init
<1> SUFFICES ASSUME Init PROVE Lru!Init
  OBVIOUS
<1>1. IInv
  BY InitInv
<1>2. \A s \in Sets : filled[s] = 0
  BY DEF Init
<1>3. \A s \in Sets : Used[s] = << >>
  BY <1>1, <1>2, UsedFacts, EmptySeq
<1>4. Used = [s \in Sets |-> << >>]
  BY <1>3 DEF Used
<1>5. DirtyBlocks = {}
  <2>1. \A s \in Sets, i \in Lines : ~cache[s][i].dirty
    BY DEF Init
  <2> QED BY <2>1 DEF DirtyBlocks, DirtyLines
<1>6. LastAccess = << >>
  BY DEF Init, LastAccess
<1> QED BY <1>4, <1>5, <1>6 DEF Init, Lru!Init, Lru!NoAccess, Lru!NoStats

LEMMA NextMaps == IInv /\ [Next]_vars => [Lru!Next]_Lru!vars
<1> SUFFICES ASSUME IInv, [Next]_vars PROVE [Lru!Next]_Lru!vars
  OBVIOUS
<1>1. ASSUME NEW a \in Addresses, NEW stores \in BOOLEAN, Access(a, stores)
      PROVE  Lru!Next
  BY <1>1, AccessMaps
<1>2. CASE EndOfTrace
  BY <1>2, EndMaps DEF Lru!Next
<1>3. CASE InvalidInstruction
  BY <1>3, FailMaps DEF Lru!Next
<1>4. CASE UNCHANGED vars
  <2>1. UNCHANGED <<Used, DirtyBlocks>>
    BY <1>4, SameLines DEF vars
  <2>2. UNCHANGED LastAccess
    BY <1>4 DEF vars, LastAccess
  <2> QED BY <1>4, <2>1, <2>2 DEF vars, Lru!vars
<1> QED BY <1>1, <1>2, <1>3, <1>4 DEF Next

(***************************************************************************)
(* For every geometry and every trace, simulate_cache counts the hits,     *)
(* misses, evictions and dirty bytes of a cache that evicts, in each set,  *)
(* the block used longest ago.                                             *)
(***************************************************************************)
THEOREM ImplementsLru == Spec => SimulatesLru
BY InitMaps, NextMaps, SpecInv, PTL DEF Spec, SimulatesLru, Lru!Spec
================================================================================
