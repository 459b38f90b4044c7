--------------------------------- MODULE Sfs ---------------------------------
(***************************************************************************)
(* The Shark File System (sfs-disk.c, sfs-support.c) used by one thread:   *)
(* one action per API call, each the whole call.  The disk image is mapped *)
(* MAP_SHARED, so it outlives the process; the open-file tables do not.    *)
(*                                                                         *)
(* A failed assert, or a load through a pointer into an unmapped image,    *)
(* kills the process at that point of the call: status becomes "aborted"   *)
(* and the disk keeps what the call had already stored.  (createFile also  *)
(* asserts what sfs_open has just tested, that the name is not too long.)  *)
(***************************************************************************)
EXTENDS SfsDisk, Sequences

CONSTANTS
  OpenFileLimit,  \* OPEN_FILE_LIMIT
  Names,          \* file names a client passes
  LongNames,      \* those of SFS_FILE_NAME_SIZE_LIMIT characters or more
  Bytes,          \* values of a byte of file data
  ZeroByte,       \* the value of every byte of a fresh image
  MaxLen,         \* bound on the len of one sfs_read or sfs_write
  NoName,         \* the name bytes of an entry that was never used
  NoDesc          \* an unused slot of openFileDescTable

ASSUME ClientAssumption ==
  /\ OpenFileLimit \in Nat \ {0}
  /\ LongNames \subseteq Names
  /\ ZeroByte \in Bytes
  /\ NoName \notin Names
  /\ MaxLen \in Nat

Fd   == 0 .. OpenFileLimit - 1
Lens == 0 .. MaxLen

VARIABLES
  freelist,   \* super block: head of the free list
  next,       \* next_block of every block header
  prev,       \* prev_block of every block header
  btype,      \* type tag of every block header
  data,       \* contents of every block
  dir,        \* super block: the directory entries
  mounted,    \* diskBlocks # NULL
  openFile,   \* openFileTable; refCount 0 stands for a null pointer
  fds,        \* openFileDescTable
  status,     \* "running", or "aborted" once the process has died
  ret         \* what the last call returned

diskVars == <<freelist, next, prev, btype, data, dir>>
memVars  == <<mounted, openFile, fds>>
vars     == <<diskVars, memVars, status, ret>>

(***************************************************************************)
(* entry is fileEntry->fileEntryIdx; mapped says that the diskFile pointer *)
(* of the table entry points into the image as it is mapped now.           *)
(***************************************************************************)
Desc     == [entry : Entry, curr : Block, pos : Nat]
OpenInfo == [refCount : Nat, mapped : BOOLEAN]
ClosedEntry  == [refCount |-> 0, mapped |-> FALSE]

ASSUME NoDescAssumption == NoDesc \notin Desc

Code == {"OK", "EBADF", "EBUSY", "EFBIG", "EMFILE", "ENAMETOOLONG", "ENOENT",
         "ENOMEDIUM", "ENOMEM", "ENOSPC", "SIGABRT"}

TypeOK ==
  /\ freelist \in BlockId
  /\ next \in [Block -> BlockId]
  /\ prev \in [Block -> BlockId]
  /\ btype \in [Block -> BlockType]
  /\ data \in [Block -> [Offset -> Bytes]]
  /\ dir \in [Entry -> [first : BlockId, size : Nat, name : Names \cup {NoName}]]
  /\ mounted \in BOOLEAN
  /\ openFile \in [Entry -> OpenInfo]
  /\ fds \in [Fd -> Desc \cup {NoDesc}]
  /\ status \in {"running", "aborted"}
  /\ ret \in [code : Code, val : Nat, buf : Seq(Bytes)]

(***************************************************************************)
(* Ways a call ends.                                                       *)
(***************************************************************************)
Return(v, b) == ret' = [code |-> "OK", val |-> v, buf |-> b]
Fail(c)      == ret' = [code |-> c, val |-> 0, buf |-> <<>>]

FailUnchanged(c) == Fail(c) /\ UNCHANGED <<diskVars, memVars, status>>

Abort == status' = "aborted" /\ Fail("SIGABRT")

UnusedEntry == [first |-> Null, size |-> 0, name |-> NoName]

(***************************************************************************)
(* The directory is searched from entry 0 up.                              *)
(***************************************************************************)
Live(e)       == dir[e].first # Null
Named(name)   == {e \in Entry : Live(e) /\ dir[e].name = name}
Unused        == {e \in Entry : ~Live(e)}
Lowest(S)     == CHOOSE i \in S : \A j \in S : i <= j
InUse(e)      == openFile[e].refCount > 0

(***************************************************************************)
(* addOpenFileEntry, for the live entry e whose first block is b.  The     *)
(* slot is the lowest free one.  An entry that is open already keeps its   *)
(* diskFile pointer, whatever it points to.                                *)
(***************************************************************************)
FreeFds == {f \in Fd : fds[f] = NoDesc}

\* Defect: every open starts the count afresh.
AddOpenFileEntry_CountRestarts(e, b) ==
  \/ /\ FreeFds = {}
     /\ Fail("EMFILE")
     /\ UNCHANGED <<openFile, fds, status>>
  \/ /\ FreeFds # {}
     /\ LET f == Lowest(FreeFds) IN
          /\ fds' = [fds EXCEPT ![f] = [entry |-> e, curr |-> b, pos |-> 0]]
          /\ Return(f, <<>>)
     /\ openFile' = [openFile EXCEPT ![e] = [refCount |-> 1, mapped |-> TRUE]]
     /\ UNCHANGED status

AddOpenFileEntry(e, b) ==
  \/ /\ FreeFds = {}
     /\ Fail("EMFILE")
     /\ UNCHANGED <<openFile, fds, status>>
  \/ /\ FreeFds # {}                                   \* malloc fails
     /\ Fail("ENOMEM")
     /\ UNCHANGED <<openFile, fds, status>>
  \/ /\ FreeFds # {}
     /\ InUse(e) /\ ~openFile[e].mapped
     /\ Abort
     /\ UNCHANGED <<openFile, fds>>
  \/ /\ FreeFds # {}
     /\ InUse(e) => openFile[e].mapped
     /\ LET f == Lowest(FreeFds) IN
          /\ fds' = [fds EXCEPT ![f] = [entry |-> e, curr |-> b, pos |-> 0]]
          /\ Return(f, <<>>)
     /\ openFile' = [openFile EXCEPT ![e] =
                       [refCount |-> @.refCount + 1, mapped |-> TRUE]]
     /\ UNCHANGED status

OpenExisting(name) ==
  LET e == Lowest(Named(name)) IN
  /\ Named(name) # {}
  /\ AddOpenFileEntry(e, dir[e].first)
  /\ UNCHANGED <<diskVars, mounted>>

(***************************************************************************)
(* createFile.  The file stays on disk when there turns out to be no slot  *)
(* for its descriptor.                                                     *)
(***************************************************************************)
CreateFile(name) ==
  LET e   == Lowest(Unused)
      run == AllocatedRun(next, freelist, 1)
  IN
  /\ Named(name) = {} /\ Unused # {} /\ run # {}
  /\ ~AllocationAborts(next, btype, freelist, 1)
  /\ freelist' = FreeAfterAllocate(next, freelist, run)
  /\ next' = NextAfterAllocate(next, run)
  /\ prev' = PrevAfterAllocate(next, prev, run)
  /\ btype' = TypeAfterAllocate(btype, run)
  /\ dir' = [dir EXCEPT ![e] =
               [first |-> freelist, size |-> 0, name |-> name]]
  /\ AddOpenFileEntry(e, freelist)
  /\ UNCHANGED <<data, mounted>>

CreateNoSpace(name) ==
  /\ Named(name) = {}
  /\ \/ Unused = {}
     \/ /\ ~CanAllocate(next, freelist, 1)
        /\ ~AllocationAborts(next, btype, freelist, 1)
  /\ FailUnchanged("ENOSPC")

CreateAborts(name) ==
  /\ Named(name) = {} /\ Unused # {}
  /\ AllocationAborts(next, btype, freelist, 1)
  /\ Abort
  /\ UNCHANGED <<diskVars, memVars>>

Open(name) ==
  /\ status = "running"
  /\ \/ name \in LongNames /\ FailUnchanged("ENAMETOOLONG")
     \/ name \notin LongNames /\ ~mounted /\ FailUnchanged("ENOMEDIUM")
     \/ /\ name \notin LongNames /\ mounted
        /\ \/ OpenExisting(name) \/ CreateFile(name)
           \/ CreateNoSpace(name) \/ CreateAborts(name)

(***************************************************************************)
(* sfs_close frees the table entry with its last descriptor.               *)
(***************************************************************************)
\* Defect: the first close frees the table entry.
Close_FreesEarly(fd) ==
  /\ status = "running"
  /\ fds[fd] # NoDesc
  /\ fds' = [fds EXCEPT ![fd] = NoDesc]
  /\ openFile' = [openFile EXCEPT ![fds[fd].entry] = ClosedEntry]
  /\ Return(0, <<>>)
  /\ UNCHANGED <<diskVars, mounted, status>>

Close(fd) ==
  /\ status = "running"
  /\ IF fds[fd] = NoDesc
       THEN UNCHANGED <<fds, openFile>>
       ELSE LET e == fds[fd].entry IN
            /\ fds' = [fds EXCEPT ![fd] = NoDesc]
            /\ openFile' = [openFile EXCEPT ![e] =
                 IF @.refCount = 1 THEN ClosedEntry
                 ELSE [refCount |-> @.refCount - 1, mapped |-> @.mapped]]
  /\ Return(0, <<>>)
  /\ UNCHANGED <<diskVars, mounted, status>>

(***************************************************************************)
(* The copying loop that sfs_read and sfs_write share.  The first chunk    *)
(* runs to the end of the block that holds the position, and is empty when *)
(* the position is a multiple of the block size other than 0; every other  *)
(* chunk starts a new block, one hop further down the chain of currBlock.  *)
(***************************************************************************)
FirstChunk(pos, n) == SizeMin(RoundUp(pos) - pos, n)

\* Defect: one block too far when the transfer ends with its block.
HopsFor_TooFar(pos, n) == 1 + (n - FirstChunk(pos, n)) \div BlockDataSize

HopsFor(pos, n) ==
  (n - FirstChunk(pos, n) + BlockDataSize - 1) \div BlockDataSize

\* Where byte k of the transfer (from 0) lives: hop and offset in the block.
HopOf(pos, n, k) ==
  IF k < FirstChunk(pos, n) THEN 0
  ELSE 1 + (k - FirstChunk(pos, n)) \div BlockDataSize

\* Defect: the first chunk starts at the beginning of its block.
OffsetOf_BlockStart(pos, n, k) ==
  IF k < FirstChunk(pos, n) THEN k
  ELSE (k - FirstChunk(pos, n)) % BlockDataSize

OffsetOf(pos, n, k) ==
  IF k < FirstChunk(pos, n) THEN (pos % BlockDataSize) + k
  ELSE (k - FirstChunk(pos, n)) % BlockDataSize

BadFd(fd) == fds[fd] = NoDesc /\ FailUnchanged("EBADF")

Mapped(fd) == openFile[fds[fd].entry].mapped

FileSize(fd) == dir[fds[fd].entry].size

ReadDone(fd, n) ==
  LET pos  == fds[fd].pos
      curr == fds[fd].curr
      hops == HopsFor(pos, n)
  IN
  /\ btype[curr] = "file"
  /\ \E path \in Paths(next, curr, hops) :
       /\ fds' = [fds EXCEPT ![fd].pos = pos + n, ![fd].curr = path[hops]]
       /\ Return(n, [k \in 1 .. n |->
                       data[path[HopOf(pos, n, k - 1)]][OffsetOf(pos, n, k - 1)]])
  /\ UNCHANGED <<diskVars, mounted, openFile, status>>

ReadAborts(fd, n) ==
  /\ \/ btype[fds[fd].curr] # "file"
     \/ Paths(next, fds[fd].curr, HopsFor(fds[fd].pos, n)) = {}
  /\ Abort
  /\ UNCHANGED <<diskVars, memVars>>

Read(fd, len) ==
  /\ status = "running"
  /\ \/ BadFd(fd)
     \/ /\ fds[fd] # NoDesc
        /\ ~Mapped(fd) \/ fds[fd].pos > FileSize(fd)
        /\ Abort
        /\ UNCHANGED <<diskVars, memVars>>
     \/ /\ fds[fd] # NoDesc /\ Mapped(fd) /\ fds[fd].pos <= FileSize(fd)
        /\ LET n == SizeMin(FileSize(fd) - fds[fd].pos, len)
           IN  ReadDone(fd, n) \/ ReadAborts(fd, n)

(***************************************************************************)
(* sfs_write.  All of the blocks the enlarged file needs are allocated     *)
(* before anything is copied; they are attached when the copying loop runs *)
(* off the end of the chain, if it does.  A chain has one end at most.     *)
(***************************************************************************)
EndPos(fd, len) == fds[fd].pos + len

Enlarges(fd, len) == EndPos(fd, len) > RoundUp(FileSize(fd))

\* Defect: the block that an empty file has already is not counted.
AddlBlocks_EmptyHasNone(fd, len) ==
  IF Enlarges(fd, len)
    THEN (RoundUp(EndPos(fd, len)) - FileSize(fd)) \div BlockDataSize
    ELSE 0

AddlBlocks(fd, len) ==
  IF Enlarges(fd, len)
    THEN (RoundUp(EndPos(fd, len)) - RoundUp(FileSize(fd))) \div BlockDataSize
    ELSE 0

WriteTooBig(fd, len) ==
  Enlarges(fd, len) /\ RoundUp(EndPos(fd, len)) > MaxFileSize

WriteNoSpace(fd, len) ==
  Enlarges(fd, len) /\ ~CanAllocate(next, freelist, AddlBlocks(fd, len))

\* The assertions on the way to the new blocks: that there is one to add, and
\* those of allocateBlocks.
GrowthAborts(fd, len) ==
  /\ Enlarges(fd, len)
  /\ \/ AddlBlocks(fd, len) = 0
     \/ AllocationAborts(next, btype, freelist, AddlBlocks(fd, len))

\* The last assertion, made when the bytes are copied and the descriptor moved.
SizeFits(fd, len) == EndPos(fd, len) > FileSize(fd) => EndPos(fd, len) < MaxFileSize

\* Contents of the blocks after byte v was copied over len bytes from position
\* pos on, as far as the path (of h hops) goes.
DataAfterCopy(path, h, pos, len, v) ==
  LET copied == {<<path[HopOf(pos, len, k)], OffsetOf(pos, len, k)>>
                   : k \in {i \in 0 .. len - 1 : HopOf(pos, len, i) <= h}}
  IN  [c \in Block |-> [o \in Offset |->
         IF <<c, o>> \in copied THEN v ELSE data[c][o]]]

WriteComplete(fd, len, v, path, hops) ==
  /\ data' = DataAfterCopy(path, hops, fds[fd].pos, len, v)
  /\ fds' = [fds EXCEPT ![fd].pos = EndPos(fd, len), ![fd].curr = path[hops]]
  /\ \/ /\ SizeFits(fd, len)
        /\ dir' = IF EndPos(fd, len) > FileSize(fd)
                    THEN [dir EXCEPT ![fds[fd].entry].size = EndPos(fd, len)]
                    ELSE dir
        /\ Return(len, <<>>)
        /\ UNCHANGED status
     \/ ~SizeFits(fd, len) /\ Abort /\ UNCHANGED dir

\* The chain has ended, and there are no new blocks (any more) to attach.
WriteAborts(fd, len, v, nx, hops) ==
  /\ \E h \in 0 .. hops - 1 : \E path \in Paths(nx, fds[fd].curr, h) :
       /\ nx[path[h]] = Null
       /\ data' = DataAfterCopy(path, h, fds[fd].pos, len, v)
  /\ Abort
  /\ UNCHANGED <<fds, dir>>

WriteData(fd, len, v) ==
  LET curr == fds[fd].curr
      hops == HopsFor(fds[fd].pos, len)
      run  == AllocatedRun(next, freelist, AddlBlocks(fd, len))
      nx   == NextAfterAllocate(next, run)
      pv   == PrevAfterAllocate(next, prev, run)
      bt   == TypeAfterAllocate(btype, run)
      ends == {c \in Chain(nx, curr) : nx[c] = Null}
      attach == /\ run # {} /\ bt[curr] = "file"
                /\ ends # {} /\ Paths(nx, curr, hops) = {}
      tail == CHOOSE c \in ends : TRUE
      newNext == IF attach THEN [nx EXCEPT ![tail] = freelist] ELSE nx
  IN
  /\ freelist' = FreeAfterAllocate(next, freelist, run)
  /\ next' = newNext
  /\ prev' = IF attach THEN [pv EXCEPT ![freelist] = tail] ELSE pv
  /\ btype' = bt
  /\ \/ /\ bt[curr] = "file"
        /\ \E path \in Paths(newNext, curr, hops) :
             WriteComplete(fd, len, v, path, hops)
     \/ bt[curr] = "file" /\ WriteAborts(fd, len, v, newNext, hops)
     \/ bt[curr] # "file" /\ Abort /\ UNCHANGED <<data, fds, dir>>
  /\ UNCHANGED <<mounted, openFile>>

Write(fd, len, v) ==
  /\ status = "running"
  /\ \/ BadFd(fd)
     \/ /\ fds[fd] # NoDesc
        /\ ~Mapped(fd) \/ fds[fd].pos > FileSize(fd)
        /\ Abort
        /\ UNCHANGED <<diskVars, memVars>>
     \/ /\ fds[fd] # NoDesc /\ Mapped(fd) /\ fds[fd].pos <= FileSize(fd)
        /\ \/ WriteTooBig(fd, len) /\ FailUnchanged("EFBIG")
           \/ /\ ~WriteTooBig(fd, len) /\ GrowthAborts(fd, len)
              /\ Abort
              /\ UNCHANGED <<diskVars, memVars>>
           \/ /\ ~WriteTooBig(fd, len) /\ ~GrowthAborts(fd, len)
              /\ \/ WriteNoSpace(fd, len) /\ FailUnchanged("ENOSPC")
                 \/ ~WriteNoSpace(fd, len) /\ WriteData(fd, len, v)

GetPos(fd) ==
  /\ status = "running"
  /\ \/ BadFd(fd)
     \/ /\ fds[fd] # NoDesc
        /\ Return(fds[fd].pos, <<>>)
        /\ UNCHANGED <<diskVars, memVars, status>>

(***************************************************************************)
(* sfs_seek moves the position and nothing else: currBlock stays where the *)
(* last transfer left it.                                                  *)
(***************************************************************************)
SeekTarget(fd, delta) ==
  LET target == fds[fd].pos + delta
  IN  IF target < 0 THEN 0 ELSE SizeMin(target, FileSize(fd))

Seek(fd, delta) ==
  /\ status = "running"
  /\ \/ BadFd(fd)
     \/ /\ fds[fd] # NoDesc /\ ~Mapped(fd)
        /\ Abort
        /\ UNCHANGED <<diskVars, memVars>>
     \/ /\ fds[fd] # NoDesc /\ Mapped(fd)
        /\ fds' = [fds EXCEPT ![fd].pos = SeekTarget(fd, delta)]
        /\ Return(SeekTarget(fd, delta), <<>>)
        /\ UNCHANGED <<diskVars, mounted, openFile, status>>

(***************************************************************************)
(* sfs_remove clears first_block of the entry and frees the chain.  (The   *)
(* name and size it leaves in the entry are never read; they are reset     *)
(* here.)  newDir is the directory but for that entry: sfs_rename, which   *)
(* calls sfs_remove for the new name and ignores what it returns, changes  *)
(* one more name.                                                          *)
(***************************************************************************)
FreeFile(e, newDir) ==
  LET b == dir[e].first IN
  /\ next' = NextAfterFree(next, prev, freelist, b)
  /\ prev' = PrevAfterFree(prev, b)
  /\ btype' = TypeAfterFree(next, btype, b)
  /\ freelist' = b
  /\ dir' = [newDir EXCEPT ![e] = UnusedEntry]
  /\ UNCHANGED data

\* freeBlocks meets a block that is free: the entry is cleared by then.
FreeFileAborts(e) ==
  LET b == dir[e].first IN
  /\ next' = NextAfterCut(next, prev, b)
  /\ prev' = PrevAfterFree(prev, b)
  /\ btype' = TypeUntilFree(next, btype, b)
  /\ dir' = [dir EXCEPT ![e] = UnusedEntry]
  /\ UNCHANGED <<freelist, data>>
  /\ Abort

DeleteFile(e, newDir) ==
  \/ /\ ~FreeAborts(next, btype, dir[e].first)
     /\ FreeFile(e, newDir)
     /\ Return(0, <<>>)
     /\ UNCHANGED status
  \/ /\ FreeAborts(next, btype, dir[e].first)
     /\ FreeFileAborts(e)

\* Defect: open files are removed too.
Remove_OpenToo(name) ==
  LET e == Lowest(Named(name)) IN
  /\ status = "running" /\ mounted /\ Named(name) # {}
  /\ FreeFile(e, dir)
  /\ Return(0, <<>>)
  /\ UNCHANGED <<memVars, status>>

Remove(name) ==
  LET e == Lowest(Named(name)) IN
  /\ status = "running"
  /\ \/ name \in LongNames /\ FailUnchanged("ENAMETOOLONG")
     \/ name \notin LongNames /\ ~mounted /\ FailUnchanged("ENOMEDIUM")
     \/ /\ name \notin LongNames /\ mounted
        /\ \/ Named(name) = {} /\ FailUnchanged("ENOENT")
           \/ Named(name) # {} /\ InUse(e) /\ FailUnchanged("EBUSY")
           \/ /\ Named(name) # {} /\ ~InUse(e)
              /\ DeleteFile(e, dir)
              /\ UNCHANGED memVars

\* Defect: the file that had the new name stays.
Rename_KeepsVictim(old, new) ==
  LET e == Lowest(Named(old)) IN
  /\ status = "running" /\ mounted /\ Named(old) # {}
  /\ dir' = [dir EXCEPT ![e].name = new]
  /\ Return(0, <<>>)
  /\ UNCHANGED <<freelist, next, prev, btype, data, memVars, status>>

Rename(old, new) ==
  LET e       == Lowest(Named(old))
      victim  == Lowest(Named(new))
      renamed == [dir EXCEPT ![e].name = new]
  IN
  /\ status = "running"
  /\ \/ {old, new} \cap LongNames # {} /\ FailUnchanged("ENAMETOOLONG")
     \/ {old, new} \cap LongNames = {} /\ ~mounted /\ FailUnchanged("ENOMEDIUM")
     \/ /\ {old, new} \cap LongNames = {} /\ mounted
        /\ Named(old) = {} /\ FailUnchanged("ENOENT")
     \/ /\ {old, new} \cap LongNames = {} /\ mounted
        /\ Named(old) # {}
        /\ \/ /\ Named(new) # {} /\ ~InUse(victim)
              /\ DeleteFile(victim, renamed)
           \/ /\ Named(new) # {} => InUse(victim)
              /\ dir' = renamed
              /\ Return(0, <<>>)
              /\ UNCHANGED <<freelist, next, prev, btype, data, status>>
        /\ UNCHANGED memVars

(***************************************************************************)
(* sfs_unmount does not look at the open-file tables: the check is         *)
(* commented out.  The diskFile pointers of the entries that are open then *)
(* lead nowhere.  After a later sfs_mount some of them may point into the  *)
(* image again: mmap is free to return an address it returned before.      *)
(***************************************************************************)
Unmount ==
  /\ status = "running"
  /\ mounted' = FALSE
  /\ openFile' = [e \in Entry |-> [openFile[e] EXCEPT !.mapped = FALSE]]
  /\ Return(0, <<>>)
  /\ UNCHANGED <<diskVars, fds, status>>

MapImage ==
  /\ mounted' = TRUE
  /\ \E again \in SUBSET {e \in Entry : InUse(e)} :
       openFile' = [e \in Entry |-> [openFile[e] EXCEPT !.mapped = e \in again]]

Mount ==
  /\ status = "running"
  /\ \/ mounted /\ FailUnchanged("EBUSY")
     \/ /\ ~mounted
        /\ MapImage
        /\ Return(0, <<>>)
        /\ UNCHANGED <<diskVars, fds, status>>

\* The image sfs_format leaves: one free list of all blocks, every other byte
\* zero.
FormattedNext == [b \in Block |-> IF b + 1 = NBlocks THEN Null ELSE b + 1]
FormattedPrev == [b \in Block |-> b - 1]
FormattedDir  == [e \in Entry |-> UnusedEntry]

(***************************************************************************)
(* sfs_format of the same image.  Like sfs_mount it does not look at the   *)
(* open-file tables, so descriptors opened before a sfs_unmount go on      *)
(* naming entries and blocks, of a disk that has nothing in them now.      *)
(***************************************************************************)
Format ==
  /\ status = "running"
  /\ \/ mounted /\ FailUnchanged("EBUSY")
     \/ /\ ~mounted
        /\ MapImage
        /\ freelist' = 1
        /\ next' = FormattedNext
        /\ prev' = FormattedPrev
        /\ btype' = [b \in Block |-> "free"]
        /\ data' = [b \in Block |-> [o \in Offset |-> ZeroByte]]
        /\ dir' = FormattedDir
        /\ Return(0, <<>>)
        /\ UNCHANGED <<fds, status>>

(***************************************************************************)
(* The process ends, killed or on its own, and another one starts.         *)
(***************************************************************************)
Restart ==
  /\ mounted' = FALSE
  /\ openFile' = [e \in Entry |-> ClosedEntry]
  /\ fds' = [f \in Fd |-> NoDesc]
  /\ status' = "running"
  /\ Return(0, <<>>)
  /\ UNCHANGED diskVars

\* A process that has just formatted a disk.
Init ==
  /\ freelist = 1
  /\ next = FormattedNext
  /\ prev = FormattedPrev
  /\ btype = [b \in Block |-> "free"]
  /\ data = [b \in Block |-> [o \in Offset |-> ZeroByte]]
  /\ dir = FormattedDir
  /\ mounted = TRUE
  /\ openFile = [e \in Entry |-> ClosedEntry]
  /\ fds = [f \in Fd |-> NoDesc]
  /\ status = "running"
  /\ ret = [code |-> "OK", val |-> 0, buf |-> <<>>]

FileCall ==
  \/ \E name \in Names : Open(name) \/ Remove(name)
  \/ \E old, new \in Names : Rename(old, new)
  \/ \E fd \in Fd : Close(fd) \/ GetPos(fd)
  \/ \E fd \in Fd, len \in Lens : Read(fd, len)
  \/ \E fd \in Fd, len \in Lens, v \in Bytes : Write(fd, len, v)
  \/ \E fd \in Fd, delta \in - MaxLen .. MaxLen : Seek(fd, delta)

Next == FileCall \/ Mount \/ Unmount \/ Format \/ Restart

Spec == Init /\ [][Next]_vars

(***************************************************************************)
(* Clients that keep clear of the calls the README lists as defective:     *)
(* a seek that leaves the block currBlock names, a rename of a file to its *)
(* own name or to the name of an open file, an unmount with files open.    *)
(***************************************************************************)
\* Index in its chain of the block that currBlock names at position pos.
BlockIndex(pos) == IF pos = 0 THEN 0 ELSE (pos - 1) \div BlockDataSize

SeekStaysInBlock(fd, delta) ==
  fds[fd] # NoDesc =>
    BlockIndex(SeekTarget(fd, delta)) = BlockIndex(fds[fd].pos)

RenameReplacesClosedFile(old, new) ==
  /\ old # new
  /\ \A e \in Named(new) : ~InUse(e)

CarefulCall ==
  \/ \E name \in Names : Open(name) \/ Remove(name)
  \/ \E old, new \in Names :
       RenameReplacesClosedFile(old, new) /\ Rename(old, new)
  \/ \E fd \in Fd : Close(fd) \/ GetPos(fd)
  \/ \E fd \in Fd, len \in Lens : Read(fd, len)
  \/ \E fd \in Fd, len \in Lens, v \in Bytes : Write(fd, len, v)
  \/ \E fd \in Fd, delta \in - MaxLen .. MaxLen :
       SeekStaysInBlock(fd, delta) /\ Seek(fd, delta)

CarefulNext ==
  \/ CarefulCall \/ Mount \/ Format \/ Restart
  \/ (\A fd \in Fd : fds[fd] = NoDesc) /\ Unmount

CarefulSpec == Init /\ [][CarefulNext]_vars
=============================================================================
