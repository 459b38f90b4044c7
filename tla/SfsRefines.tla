----------------------------- MODULE SfsRefines -----------------------------
(***************************************************************************)
(* Sfs implements FileStore: the contents of a file are the bytes of its   *)
(* blocks, in the order of its chain, up to its size.                      *)
(***************************************************************************)
EXTENDS Sfs

CONSTANT Absent    \* no file of that name

\* What stands for no file is no contents, and for no descriptor none.
ASSUME MarkerAssumption ==
  /\ Absent \notin Seq(Bytes)
  /\ NoDesc \notin [name : Names, pos : Nat]

\* The greatest size the size field holds lies inside a block, and not the first
\* (UINT32_MAX, blocks of 500 bytes).
ASSUME LimitAssumption ==
  MaxFileSize >= BlockDataSize /\ MaxFileSize % BlockDataSize # 0

\* No action reads ret: states that differ in it alone need not be told apart.
View == <<diskVars, memVars, status>>

\* The blocks of a chain in their order: number i is i hops from its first.
Spine(nx, b) ==
  LET block[i \in 0 .. NBlocks] == IF i = 0 THEN b ELSE nx[block[i - 1]]
  IN  block

ContentsIn(nx, dt, entry) ==
  LET block == Spine(nx, entry.first)
  IN  [k \in 1 .. entry.size |->
         dt[block[(k - 1) \div BlockDataSize]][(k - 1) % BlockDataSize]]

ContentsOf(e) == ContentsIn(next, data, dir[e])

filesBar == [n \in Names |-> IF Named(n) = {} THEN Absent
                             ELSE ContentsOf(Lowest(Named(n)))]

openBar == [fd \in Fd |->
  IF fds[fd] = NoDesc THEN NoDesc
  ELSE [name |-> dir[fds[fd].entry].name, pos |-> fds[fd].pos]]

Store == INSTANCE FileStore WITH
  MaxFiles <- FileCountLimit, Capacity <- NBlocks - 1, Unit <- BlockDataSize,
  files <- filesBar, open <- openBar, result <- ret

(***************************************************************************)
(* A careful client cannot tell the file system from the store of named    *)
(* byte sequences that sfs-api.h describes: whatever opens, transfers,     *)
(* removals, renames, remounts and restarts came before, every call        *)
(* returns what the store would, refuses for lack of space only when the   *)
(* space is used, and every read delivers the bytes written last.          *)
(***************************************************************************)
ImplementsStore == Store!FsSpec
=============================================================================
