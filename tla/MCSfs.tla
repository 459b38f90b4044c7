-------------------------------- MODULE MCSfs --------------------------------
(* Small instances of Sfs for TLC. *)
EXTENDS SfsFsck

\* No action reads ret, and once the process has died nothing reads its tables:
\* states that differ in those alone need not be told apart.
View == <<diskVars, status, IF status = "running" THEN memVars ELSE <<>>>>

(***************************************************************************)
(* Careful clients but for one thing each.                                 *)
(***************************************************************************)
AnySeek     == \E fd \in Fd, delta \in - MaxLen .. MaxLen : Seek(fd, delta)
SeekingSpec == Init /\ [][CarefulNext \/ AnySeek]_vars

-----------------------------------------------------------------------------
(***************************************************************************)
(* sfs-fsck.c lists "File length disagrees with number of blocks allocated *)
(* to file" as an inconsistency: no call leaves a file like that.          *)
(***************************************************************************)
RunningLengthsAgree == status = "running" => LengthsAgree
=============================================================================
