--------------------------------- MODULE Csim ---------------------------------
(***************************************************************************)
(* The cache simulator csim.c: one action per line of the trace.  Each     *)
(* line of a set has the position lru of its last use among the filled     *)
(* lines of the set, 0 for the one used longest ago.                       *)
(***************************************************************************)
EXTENDS Integers, FiniteSets

CONSTANTS
  SetBits,      \* num_set
  LineCount,    \* num_line
  BlockBits,    \* num_block
  Addresses,    \* addresses of the trace
  Garbage,      \* what malloc leaves in the tag and lru_order of a line
  TraceLength   \* bound: lines of the trace

ASSUME CsimAssumption ==
  /\ SetBits \in Nat /\ BlockBits \in Nat /\ LineCount \in Nat \ {0}
  /\ \A n \in {SetBits, BlockBits, BlockBits + SetBits} : 2 ^ n \in Nat \ {0}
  /\ Addresses \subseteq Nat /\ Garbage \subseteq Nat /\ TraceLength \in Nat

Sets  == 0 .. 2 ^ SetBits - 1
Lines == 0 .. LineCount - 1

SetOf(a) == (a \div 2 ^ BlockBits) % 2 ^ SetBits
TagOf(a) == a \div 2 ^ (BlockBits + SetBits)

Line == [empty : BOOLEAN, tag : Nat, dirty : BOOLEAN, lru : Nat]

VARIABLES
  cache,         \* lines of each set
  filled,        \* num_filled of each set
  instruction,   \* the last one, <<address, whether it is 'S'>>
  stats,         \* csim_stats_t
  status         \* "running", "printed" (printSummary) or "failed" (exit(1))

vars == <<cache, filled, instruction, stats, status>>

NoInstruction == << >>

Stats == [hits : Nat, misses : Nat, evictions : Nat,
          dirtyBytes : Nat, dirtyEvictions : Nat]

TypeOK ==
  /\ cache \in [Sets -> [Lines -> Line]]
  /\ filled \in [Sets -> 0 .. LineCount]
  /\ instruction \in {NoInstruction} \cup (Addresses \X BOOLEAN)
  /\ stats \in Stats
  /\ status \in {"running", "printed", "failed"}

\* malloc: only empty and dirty_bit are set.
Init ==
  /\ \E g \in [Sets -> [Lines -> Garbage \X Garbage]] :
       cache = [s \in Sets |-> [i \in Lines |->
                  [empty |-> TRUE, tag |-> g[s][i][1],
                   dirty |-> FALSE, lru |-> g[s][i][2]]]]
  /\ filled = [s \in Sets |-> 0]
  /\ instruction = NoInstruction
  /\ stats = [hits |-> 0, misses |-> 0, evictions |-> 0,
              dirtyBytes |-> 0, dirtyEvictions |-> 0]
  /\ status = "running"

Running == status = "running" /\ stats.hits + stats.misses < TraceLength

-----------------------------------------------------------------------------
(* The search stops at the first line that is empty or has the tag. *)

\* Mutant: the tag of the last filled line is not compared.
Stops_OneShort(s, t) ==
  {i \in Lines : \/ cache[s][i].empty
                 \/ i < filled[s] - 1 /\ cache[s][i].tag = t}

Stops(s, t) == {i \in Lines : cache[s][i].empty \/ cache[s][i].tag = t}

IsFirst(i, S) == i \in S /\ \A k \in S : i <= k

\* Mutant: every other line moves down.
Touch_ShiftsAll(set, i, n) ==
  [k \in Lines |->
     [set[k] EXCEPT !.lru = IF k = i THEN n - 1 ELSE @ - 1]]

\* Line i becomes the one used last of the n filled lines.
Touch(set, i, n) ==
  [k \in Lines |->
     [set[k] EXCEPT !.lru = CASE k = i -> n - 1
                              [] k # i /\ ~set[k].empty /\ @ > set[i].lru -> @ - 1
                              [] OTHER -> @]]

\* The dirty bit after the access.
Mark(set, i, stores) == IF stores THEN [set EXCEPT ![i].dirty = TRUE] ELSE set

Hit(s, t, stores) ==
  /\ Running
  /\ \E i \in Lines :
       /\ IsFirst(i, Stops(s, t)) /\ ~cache[s][i].empty
       /\ cache' = [cache EXCEPT
                      ![s] = Mark(Touch(cache[s], i, filled[s]), i, stores)]
  /\ stats' = [stats EXCEPT !.hits = @ + 1]
  /\ UNCHANGED <<filled, status>>

Miss(s, t, stores) ==
  /\ Running
  /\ \E i \in Lines :
       /\ IsFirst(i, Stops(s, t)) /\ cache[s][i].empty
       /\ LET new == [cache[s] EXCEPT ![i].empty = FALSE, ![i].tag = t, ![i].lru = i]
          IN  cache' = [cache EXCEPT ![s] = Mark(new, i, stores)]
  /\ filled' = [filled EXCEPT ![s] = @ + 1]
  /\ stats' = [stats EXCEPT !.misses = @ + 1]
  /\ UNCHANGED status

\* Mutant: the dirty bit of the evicted block stays with the new one.
EvictLine_StaysDirty(set, i, n, t) == [Touch(set, i, n) EXCEPT ![i].tag = t]

EvictLine(set, i, n, t) ==
  [Touch(set, i, n) EXCEPT ![i].tag = t, ![i].dirty = FALSE]

\* The line used longest ago is the first one with lru 0.
Evict(s, t, stores) ==
  /\ Running /\ Stops(s, t) = {}
  /\ \E i \in Lines :
       /\ IsFirst(i, {k \in Lines : cache[s][k].lru = 0})
       /\ cache' = [cache EXCEPT
                      ![s] = Mark(EvictLine(cache[s], i, filled[s], t), i, stores)]
       /\ stats' = [stats EXCEPT !.misses = @ + 1, !.evictions = @ + 1,
                      !.dirtyEvictions = IF cache[s][i].dirty THEN @ + 1 ELSE @]
  /\ UNCHANGED <<filled, status>>

Access(a, stores) ==
  /\ instruction' = <<a, stores>>
  /\ \/ Hit(SetOf(a), TagOf(a), stores)
     \/ Miss(SetOf(a), TagOf(a), stores)
     \/ Evict(SetOf(a), TagOf(a), stores)

-----------------------------------------------------------------------------

DirtyLines == {p \in Sets \X Lines : cache[p[1]][p[2]].dirty}

\* The end of the trace: counts become bytes, and the summary is printed.
EndOfTrace ==
  /\ status = "running"
  /\ status' = "printed"
  /\ stats' = [stats EXCEPT !.dirtyBytes = Cardinality(DirtyLines) * 2 ^ BlockBits,
                            !.dirtyEvictions = @ * 2 ^ BlockBits]
  /\ UNCHANGED <<cache, filled, instruction>>

\* get_next_line exits at a line that is not well formed: no summary.
InvalidInstruction ==
  /\ status = "running"
  /\ status' = "failed"
  /\ UNCHANGED <<cache, filled, instruction, stats>>

Next ==
  \/ \E a \in Addresses, stores \in BOOLEAN : Access(a, stores)
  \/ EndOfTrace
  \/ InvalidInstruction

Spec == Init /\ [][Next]_vars

-----------------------------------------------------------------------------
FilledLines(set) == {i \in Lines : ~set[i].empty}

\* The lru of the filled lines of a set are 0 .. n - 1 without repetition.
IsOrder(set, n) ==
  /\ FilledLines(set) = 0 .. n - 1
  /\ \A i \in FilledLines(set) : set[i].lru < n
  /\ \A m \in 0 .. n - 1 : \E i \in FilledLines(set) : set[i].lru = m
  /\ \A i, k \in FilledLines(set) : set[i].lru = set[k].lru => i = k

(***************************************************************************)
(* The filled lines are the first num_filled, so the search may stop at an *)
(* empty one, and their lru are an order: an eviction finds exactly one    *)
(* victim, and no uninitialized lru is compared as if it were an age.      *)
(***************************************************************************)
LruIsAnOrder == \A s \in Sets : IsOrder(cache[s], filled[s])

NoTagTwice(set) ==
  \A i, k \in FilledLines(set) : set[i].tag = set[k].tag => i = k

\* No block is in two lines of its set: a hit updates the only copy.
OneLinePerBlock == \A s \in Sets : NoTagTwice(cache[s])

-----------------------------------------------------------------------------
(* The cache in terms of LruCache: blocks in the order of last use. *)

Recency(set, n) ==
  [m \in 1 .. n |-> set[CHOOSE i \in FilledLines(set) : set[i].lru = m - 1].tag]

Used == [s \in Sets |-> Recency(cache[s], filled[s])]

DirtyBlocks == {<<p[1], cache[p[1]][p[2]].tag>> : p \in DirtyLines}

LastAccess ==
  IF instruction = NoInstruction THEN << >>
  ELSE <<SetOf(instruction[1]), TagOf(instruction[1]), instruction[2]>>

Lru == INSTANCE LruCache WITH
         Tags      <- {TagOf(a) : a \in Addresses},
         Lines     <- LineCount,
         BlockSize <- 2 ^ BlockBits,
         used      <- Used,
         dirty     <- DirtyBlocks,
         access    <- LastAccess

(***************************************************************************)
(* csim.c simulates a cache that evicts, in every set, the block used      *)
(* longest ago: hits, misses, evictions and dirty bytes are those of       *)
(* LruCache on the same trace.                                             *)
(***************************************************************************)
SimulatesLru == Lru!Spec
===============================================================================
