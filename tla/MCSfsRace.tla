------------------------------ MODULE MCSfsRace ------------------------------
(***************************************************************************)
(* Threads that do nothing but open files: C01-create.lua, in which every  *)
(* thread creates files of its own and the directory is compared in the    *)
(* end.                                                                    *)
(***************************************************************************)
EXTENDS SfsThreads, TLC

CONSTANTS t1, t2

MCRoles  == {[t \in {t1, t2} |-> {"open"}]}
MCShared == [r \in MCRoles |-> {}]
MCWrites == [t \in {t1, t2} |-> {}]

VARIABLE opened  \* history: the names that sfs_open succeeded with

Opening(t) == th[t].at = "hand" /\ th'[t].at = "idle"

RaceInit == ThreadInit /\ opened = {}

RaceNext ==
  /\ ThreadNext
  /\ opened' = opened \cup {th[t].name : t \in {u \in Thread : Opening(u)}}

RaceSpec == RaceInit /\ [][RaceNext]_<<allVars, opened>>

(***************************************************************************)
(* C01-create.lua:57-63: when the threads are done, every file they        *)
(* created is in the directory (sfs_open, createFile).                     *)
(***************************************************************************)
CreatedFilesListed ==
  (\A t \in Thread : th[t].at = "idle") => \A n \in opened : Named(n) # {}
=============================================================================
