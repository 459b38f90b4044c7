------------------------------- MODULE LruCache -------------------------------
(***************************************************************************)
(* What csim.c simulates: a write-back cache that keeps, in every set, the *)
(* blocks used last.  Each set is the sequence of its tags in the order of *)
(* their last use; which line a block is in, and how its age is recorded,  *)
(* are not part of the promise.                                            *)
(***************************************************************************)
EXTENDS Integers, Sequences, FiniteSets, SequencesExt

CONSTANTS
  Sets,         \* numbers of the sets
  Tags,         \* numbers of the blocks that fall into one set
  Lines,        \* blocks a set can keep
  BlockSize,    \* bytes of a block
  TraceLength   \* bound: accesses of a trace

VARIABLES
  used,    \* the tags each set keeps, used longest ago first
  dirty,   \* <<set, tag>> of the kept blocks that were stored to
  access,  \* the last access, <<set, tag, stores>>
  stats,   \* the counters of the summary
  status   \* "running", "printed" or "failed"

vars == <<used, dirty, access, stats, status>>

NoAccess == << >>

NoStats == [hits |-> 0, misses |-> 0, evictions |-> 0,
            dirtyBytes |-> 0, dirtyEvictions |-> 0]

Init ==
  /\ used = [s \in Sets |-> << >>]
  /\ dirty = {}
  /\ access = NoAccess
  /\ stats = NoStats
  /\ status = "running"

Kept(s) == Range(used[s])

Running == status = "running" /\ stats.hits + stats.misses < TraceLength

Stored(s, t, stores) == IF stores THEN {<<s, t>>} ELSE {}

Hit(s, t, stores) ==
  /\ Running /\ access' = <<s, t, stores>>
  /\ \E n \in 1 .. Len(used[s]) :
       /\ used[s][n] = t
       /\ used' = [used EXCEPT ![s] = Append(RemoveAt(@, n), t)]
  /\ dirty' = dirty \cup Stored(s, t, stores)
  /\ stats' = [stats EXCEPT !.hits = @ + 1]
  /\ UNCHANGED status

Fill(s, t, stores) ==
  /\ Running /\ access' = <<s, t, stores>> /\ t \notin Kept(s) /\ Len(used[s]) < Lines
  /\ used' = [used EXCEPT ![s] = Append(@, t)]
  /\ dirty' = dirty \cup Stored(s, t, stores)
  /\ stats' = [stats EXCEPT !.misses = @ + 1]
  /\ UNCHANGED status

\* The block used longest ago makes room, and is written back if dirty.
Evict(s, t, stores) ==
  LET old == <<s, Head(used[s])>>
  IN  /\ Running /\ access' = <<s, t, stores>> /\ t \notin Kept(s) /\ Len(used[s]) = Lines
      /\ used' = [used EXCEPT ![s] = Append(Tail(@), t)]
      /\ dirty' = (dirty \ {old}) \cup Stored(s, t, stores)
      /\ stats' = [stats EXCEPT !.misses = @ + 1, !.evictions = @ + 1,
                     !.dirtyEvictions = @ + IF old \in dirty THEN 1 ELSE 0]
      /\ UNCHANGED status

\* At the end the dirty blocks are counted, and counts become bytes.
PrintSummary ==
  /\ status = "running"
  /\ status' = "printed"
  /\ stats' = [stats EXCEPT !.dirtyBytes = Cardinality(dirty) * BlockSize,
                            !.dirtyEvictions = @ * BlockSize]
  /\ UNCHANGED <<used, dirty, access>>

Fail ==
  /\ status = "running"
  /\ status' = "failed"
  /\ UNCHANGED <<used, dirty, access, stats>>

Next ==
  \/ \E s \in Sets, t \in Tags, stores \in BOOLEAN :
       Hit(s, t, stores) \/ Fill(s, t, stores) \/ Evict(s, t, stores)
  \/ PrintSummary
  \/ Fail

Spec == Init /\ [][Next]_vars
===============================================================================
