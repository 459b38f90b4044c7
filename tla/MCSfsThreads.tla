----------------------------- MODULE MCSfsThreads -----------------------------
(* Small instances of SfsThreads for TLC. *)
EXTENDS SfsThreads, TLC

CONSTANTS t1, t2

(***************************************************************************)
(* Who makes which calls: transfers in both threads; the calls that change *)
(* blocks in the first thread while the second reads; or the calls that    *)
(* change the directory in the first thread while the second lists it.     *)
(***************************************************************************)
BothTransfer == [t \in {t1, t2} |-> Transfer \cup {"getpos"}]
OneReads     == (t1 :> (Directory \ {"rename"}) \cup {"write"}) @@ (t2 :> {"read"})
OneLists     == (t1 :> Directory \ {"seek"}) @@ (t2 :> {"list"})

MCRoles  == {BothTransfer, OneReads, OneLists}
MCShared == [r \in MCRoles |-> IF r = BothTransfer THEN {0, 1} ELSE {0}]
MCWrites == (t1 :> {1}) @@ (t2 :> {0})

\* No action reads ret: states that differ in it alone need not be told apart.
View == <<diskVars, memVars, status, threadVars>>
=============================================================================
