----------------------------- MODULE SfsThreads -----------------------------
(***************************************************************************)
(* The Shark File System called by several threads.  A call is a sequence  *)
(* of steps, each of which loads or stores what other threads can see.     *)
(* sfs_read and sfs_write hold sfs_mutexes; no other call does.            *)
(*                                                                         *)
(* th[t] is the call thread t is in: the place it has come to (at), its    *)
(* arguments and its locals.  The disk is mounted throughout and names     *)
(* are short, so that ENOMEDIUM and ENAMETOOLONG are not met.              *)
(***************************************************************************)
EXTENDS SfsFsck

CONSTANTS
  Thread,    \* threads of the process
  NoThread,  \* nobody holds sfs_mutexes
  Roles,     \* which calls a thread makes: functions Thread -> SUBSET Kind
  Shared,    \* for each of them, the descriptors opened before the threads start
  Writes     \* the bytes a thread writes

Directory == {"open", "close", "remove", "rename", "seek"}
Transfer  == {"read", "write"}
Kind      == Directory \cup Transfer \cup {"getpos", "list"}

ASSUME ThreadAssumption ==
  /\ NoThread \notin Thread
  /\ Roles \subseteq [Thread -> SUBSET Kind]
  /\ Shared \in [Roles -> SUBSET Fd]
  /\ Writes \in [Thread -> SUBSET Bytes]

VARIABLES
  role,      \* the calls each thread makes
  mutex,     \* who holds sfs_mutexes
  th,        \* the call each thread is in
  before,    \* history: the state when the call that changes it now began
  looping,   \* history: a thread is between its first sfs_list and the last
  reported,  \* history: the entries reported in a thread's loop
  steady     \* history: the entries that held one file all along that loop

listVars   == <<looping, reported, steady>>
threadVars == <<role, mutex, th, before, listVars>>
allVars    == <<vars, threadVars>>

NoEntry == -1

NoCall == [at |-> "idle", kind |-> "none", fd |-> 0, name |-> NoName,
           new |-> NoName, goal |-> "none", len |-> 0, byte |-> ZeroByte,
           i |-> 0, e |-> NoEntry, victim |-> NoEntry, pos |-> 0, hop |-> 0,
           blk |-> Null, first |-> Null, run |-> {}, got |-> <<>>, cookie |-> 0]

At(t, place) == status = "running" /\ th[t].at = place

Go(t, place) == th' = [th EXCEPT ![t].at = place]

(***************************************************************************)
(* The call of t returns.  A call that changes more than its own           *)
(* descriptor has saved what it found when it began.                       *)
(***************************************************************************)
Changing(t) == th[t].kind \in {"open", "close", "remove", "rename", "write"}

Now == [freelist |-> freelist, next |-> next, prev |-> prev, btype |-> btype,
        data |-> data, dir |-> dir, openFile |-> openFile, fds |-> fds]

Settle(t) == before' = IF Changing(t) THEN <<>> ELSE before

Done(t) ==
  /\ th' = [th EXCEPT ![t] = [NoCall EXCEPT !.cookie = th[t].cookie]]
  /\ Settle(t)

Returns(t, v) == Done(t) /\ Return(v, <<>>)
Refuses(t, c) == Done(t) /\ Fail(c)

Dies(t) == Abort /\ Done(t)

-----------------------------------------------------------------------------
(***************************************************************************)
(* The client.  Threads use the descriptors they share for transfers only, *)
(* and nobody makes the calls a single thread must not make either.        *)
(***************************************************************************)
Starts(t, kind, place, call) ==
  /\ status = "running" /\ th[t].at = "idle" /\ kind \in role[t]
  /\ th' = [th EXCEPT ![t] = [call EXCEPT !.at = place, !.kind = kind,
                                          !.cookie = th[t].cookie]]
  /\ UNCHANGED <<vars, role, mutex>>

Saves == before' = <<Now>> /\ UNCHANGED listVars
Plain == UNCHANGED <<before, listVars>>

BeginOpen(t) ==
  \E name \in Names :
    /\ Starts(t, "open", "search", [NoCall EXCEPT !.name = name, !.goal = "open"])
    /\ Saves

BeginRemove(t) ==
  \E name \in Names :
    /\ Starts(t, "remove", "search",
              [NoCall EXCEPT !.name = name, !.goal = "remove"])
    /\ Saves

BeginRename(t) ==
  \E old, new \in Names :
    /\ RenameReplacesClosedFile(old, new)
    /\ Starts(t, "rename", "search",
              [NoCall EXCEPT !.name = old, !.new = new, !.goal = "old"])
    /\ Saves

BeginClose(t) ==
  \E fd \in Fd \ Shared[role] :
    /\ fds[fd] # NoDesc
    /\ Starts(t, "close", "close", [NoCall EXCEPT !.fd = fd])
    /\ Saves

BeginSeek(t) ==
  \E fd \in Fd \ Shared[role], delta \in - MaxLen .. MaxLen :
    /\ fds[fd] # NoDesc /\ SeekStaysInBlock(fd, delta)
    /\ Starts(t, "seek", "seek", [NoCall EXCEPT !.fd = fd, !.pos = delta])
    /\ Plain

BeginGetPos(t) ==
  \E fd \in Shared[role] :
    Starts(t, "getpos", "getpos", [NoCall EXCEPT !.fd = fd]) /\ Plain

\* A thread that closes descriptors has those that are not shared to itself.
Usable(t) == IF "close" \in role[t] THEN Fd ELSE Shared[role]

BeginTransfer(t) ==
  \E kind \in Transfer, fd \in Usable(t), len \in 1 .. MaxLen :
  \E byte \in IF kind = "write" THEN Writes[t] ELSE {ZeroByte} :
    /\ fds[fd] # NoDesc
    /\ Starts(t, kind, "lock", [NoCall EXCEPT !.fd = fd, !.len = len, !.byte = byte])
    /\ Plain

BeginList(t) ==
  /\ Starts(t, "list", "list", [NoCall EXCEPT !.i = th[t].cookie])
  /\ looping' = [looping EXCEPT ![t] = TRUE]
  /\ IF looping[t] THEN UNCHANGED <<reported, steady>>
     ELSE /\ reported' = [reported EXCEPT ![t] = {}]
          /\ steady' = [steady EXCEPT ![t] = {e \in Entry : Live(e)}]
  /\ UNCHANGED before

Begin(t) ==
  \/ BeginOpen(t) \/ BeginRemove(t) \/ BeginRename(t) \/ BeginClose(t)
  \/ BeginSeek(t) \/ BeginGetPos(t) \/ BeginTransfer(t) \/ BeginList(t)

-----------------------------------------------------------------------------
(***************************************************************************)
(* sfs_read and sfs_write, between the locking and the unlocking of        *)
(* sfs_mutexes.                                                            *)
(***************************************************************************)
\* Defect: only writers wait for the mutex.
Lock_ReadersDoNotWait(t) ==
  /\ At(t, "lock") /\ (th[t].kind = "write" => mutex = NoThread)
  /\ mutex' = t
  /\ Go(t, "load")
  /\ before' = IF th[t].kind = "write" THEN <<Now>> ELSE before
  /\ UNCHANGED <<vars, role, listVars>>

Lock(t) ==
  /\ At(t, "lock") /\ mutex = NoThread
  /\ mutex' = t
  /\ Go(t, "load")
  /\ before' = IF th[t].kind = "write" THEN <<Now>> ELSE before
  /\ UNCHANGED <<vars, role, listVars>>

\* Defect: a call that finds no space tries again with the mutex held.
RefusesLocked_Retries(t, c) ==
  /\ Go(t, "load") /\ UNCHANGED <<before, vars>>

\* The call is refused; the mutex is still held.
RefusesLocked(t, c) ==
  /\ Go(t, "unlock") /\ Settle(t)
  /\ Fail(c)
  /\ UNCHANGED <<diskVars, memVars, status>>

Load(t) ==
  LET fd  == th[t].fd
      len == th[t].len
      go(place, n) ==
        /\ th' = [th EXCEPT ![t].at = place, ![t].len = n,
                            ![t].pos = fds[fd].pos, ![t].blk = fds[fd].curr]
        /\ UNCHANGED <<before, vars>>
  IN
  /\ At(t, "load")
  /\ \/ fds[fd] = NoDesc /\ RefusesLocked(t, "EBADF")
     \/ /\ fds[fd] # NoDesc /\ fds[fd].pos > FileSize(fd)
        /\ Dies(t) /\ UNCHANGED <<diskVars, memVars>>
     \/ /\ fds[fd] # NoDesc /\ fds[fd].pos <= FileSize(fd)
        /\ \/ /\ th[t].kind = "read"
              /\ go("copy", SizeMin(FileSize(fd) - fds[fd].pos, len))
           \/ /\ th[t].kind = "write" /\ WriteTooBig(fd, len)
              /\ RefusesLocked(t, "EFBIG")
           \/ /\ th[t].kind = "write" /\ ~WriteTooBig(fd, len)
              /\ go(IF Enlarges(fd, len) THEN "allocate" ELSE "copy", len)
  /\ UNCHANGED <<role, mutex, listVars>>

(***************************************************************************)
(* allocateBlocks in two steps, for sfs_write and for createFile, which    *)
(* does not hold the mutex: the look at the free list and the change of    *)
(* it.  The second works on the list as it is by then.                     *)
(***************************************************************************)
Wanted(t) == IF th[t].kind = "write" THEN AddlBlocks(th[t].fd, th[t].len) ELSE 1

Allocate(t) ==
  LET run  == AllocatedRun(next, freelist, Wanted(t))
      dies == Wanted(t) = 0 \/ AllocationAborts(next, btype, freelist, Wanted(t))
  IN
  /\ At(t, "allocate")
  /\ \/ dies /\ Dies(t) /\ UNCHANGED <<diskVars, memVars>>
     \/ /\ ~dies /\ run = {} /\ th[t].kind = "write"
        /\ RefusesLocked(t, "ENOSPC")
     \/ /\ ~dies /\ run = {} /\ th[t].kind = "open"
        /\ Refuses(t, "ENOSPC")
        /\ UNCHANGED <<diskVars, memVars, status>>
     \/ /\ ~dies /\ run # {}
        /\ th' = [th EXCEPT ![t].at = "take", ![t].run = run, ![t].first = freelist]
        /\ UNCHANGED <<before, vars>>
  /\ UNCHANGED <<role, mutex, listVars>>

Take(t) ==
  LET run == th[t].run IN
  /\ At(t, "take")
  /\ freelist' = FreeAfterAllocate(next, freelist, run)
  /\ next' = NextAfterAllocate(next, run)
  /\ prev' = PrevAfterAllocate(next, prev, run)
  /\ btype' = TypeAfterAllocate(btype, run)
  /\ th' = [th EXCEPT ![t].run = {},
                      ![t].at = IF th[t].kind = "write" THEN "copy" ELSE "enter"]
  /\ UNCHANGED <<data, dir, memVars, status, ret, role, mutex, before, listVars>>

(***************************************************************************)
(* One chunk: the bytes of the transfer that lie in the block come to.     *)
(***************************************************************************)
InThisBlock(t) ==
  {k \in 0 .. th[t].len - 1 : HopOf(th[t].pos, th[t].len, k) = th[t].hop}

Places(t) == {OffsetOf(th[t].pos, th[t].len, k) : k \in InThisBlock(t)}

LastHop(t) == th[t].hop = HopsFor(th[t].pos, th[t].len)

Copy(t) ==
  LET c    == th[t]
      done == Len(c.got)
      out  == [j \in 1 .. Cardinality(InThisBlock(t)) |->
                 data[c.blk][OffsetOf(c.pos, c.len, done + j - 1)]]
  IN
  /\ At(t, "copy")
  /\ \/ /\ btype[c.blk] # "file"
        /\ Dies(t) /\ UNCHANGED <<diskVars, memVars>>
     \/ /\ btype[c.blk] = "file"
        /\ th' = [th EXCEPT ![t].got = IF c.kind = "read" THEN @ \o out ELSE @,
                            ![t].at = IF LastHop(t) THEN "publish" ELSE "hop"]
        /\ data' = IF c.kind = "read" THEN data
                   ELSE [data EXCEPT ![c.blk] =
                           [o \in Offset |-> IF o \in Places(t) THEN c.byte ELSE @[o]]]
        /\ UNCHANGED <<freelist, next, prev, btype, dir, memVars, status, ret, before>>
  /\ UNCHANGED <<role, mutex, listVars>>

\* On to the next block, which a write may have to attach first.
Hop(t) ==
  LET c == th[t]
      to(b) == [th EXCEPT ![t].at = "copy", ![t].blk = b, ![t].hop = @ + 1]
  IN
  /\ At(t, "hop")
  /\ \/ /\ next[c.blk] # Null
        /\ th' = to(next[c.blk])
        /\ UNCHANGED <<before, vars>>
     \/ /\ next[c.blk] = Null /\ c.first # Null
        /\ next' = [next EXCEPT ![c.blk] = c.first]
        /\ prev' = [prev EXCEPT ![c.first] = c.blk]
        /\ th' = [to(c.first) EXCEPT ![t].first = Null]
        /\ UNCHANGED <<freelist, btype, data, dir, memVars, status, ret, before>>
     \/ /\ next[c.blk] = Null /\ c.first = Null
        /\ Dies(t) /\ UNCHANGED <<diskVars, memVars>>
  /\ UNCHANGED <<role, mutex, listVars>>

(***************************************************************************)
(* The stores at the end of a transfer: block, position, size.  Of the     *)
(* calls that do not wait for the mutex, sfs_getpos alone may look at a    *)
(* descriptor that another thread uses, and it loads the position only; so *)
(* the three stores are one step.  sfs_write asserts between the second    *)
(* and the third that the new size is below the limit.                     *)
(***************************************************************************)
Publish(t) ==
  LET c     == th[t]
      e     == fds[c.fd].entry
      desc  == [fds[c.fd] EXCEPT !.pos = c.pos + c.len, !.curr = c.blk]
      grows == c.kind = "write" /\ c.pos + c.len > dir[e].size
      dies  == grows /\ c.pos + c.len >= MaxFileSize
  IN
  /\ At(t, "publish")
  /\ fds' = [fds EXCEPT ![c.fd] = desc]
  /\ \/ /\ ~dies
        /\ dir' = IF grows THEN [dir EXCEPT ![e].size = c.pos + c.len] ELSE dir
        /\ Return(c.len, c.got)
        /\ before' = IF c.kind = "write" \/ before = <<>> THEN <<>>
                     ELSE [before EXCEPT ![1].fds[c.fd] = desc]
        /\ Go(t, "unlock")
        /\ UNCHANGED status
     \/ dies /\ Dies(t) /\ UNCHANGED dir
  /\ UNCHANGED <<freelist, next, prev, btype, data, mounted, openFile,
                 role, mutex, listVars>>

Unlock(t) ==
  /\ At(t, "unlock")
  /\ mutex' = NoThread
  /\ th' = [th EXCEPT ![t] = [NoCall EXCEPT !.cookie = th[t].cookie]]
  /\ UNCHANGED <<vars, role, before, listVars>>

-----------------------------------------------------------------------------
(***************************************************************************)
(* sfs_getpos, and sfs_seek: a load of the position and the size, and a    *)
(* store of the new position.                                              *)
(***************************************************************************)
GetPosition(t) ==
  /\ At(t, "getpos")
  /\ Returns(t, fds[th[t].fd].pos)
  /\ UNCHANGED <<diskVars, memVars, status, role, mutex, listVars>>

SeekLoad(t) ==
  /\ At(t, "seek")
  /\ th' = [th EXCEPT ![t].at = "setpos",
                      ![t].pos = SeekTarget(th[t].fd, th[t].pos)]
  /\ UNCHANGED <<vars, role, mutex, before, listVars>>

SeekStore(t) ==
  /\ At(t, "setpos")
  /\ fds' = [fds EXCEPT ![th[t].fd].pos = th[t].pos]
  /\ Returns(t, th[t].pos)
  /\ UNCHANGED <<diskVars, mounted, openFile, status, role, mutex, listVars>>

\* sfs_close: the descriptor goes, and then its share of the table entry.
CloseDesc(t) ==
  LET fd == th[t].fd IN
  /\ At(t, "close")
  /\ th' = [th EXCEPT ![t].at = "release", ![t].e = fds[fd].entry]
  /\ fds' = [fds EXCEPT ![fd] = NoDesc]
  /\ UNCHANGED <<diskVars, mounted, openFile, status, ret,
                 role, mutex, before, listVars>>

Release(t) ==
  /\ At(t, "release")
  /\ openFile' = [openFile EXCEPT ![th[t].e] =
                    IF @.refCount = 1 THEN ClosedEntry
                    ELSE [@ EXCEPT !.refCount = @ - 1]]
  /\ Returns(t, 0)
  /\ UNCHANGED <<diskVars, mounted, fds, status, role, mutex, listVars>>

(***************************************************************************)
(* The search of the directory that sfs_open, sfs_remove and sfs_rename    *)
(* begin with, one entry per step.  sfs_rename searches for the old name,  *)
(* for the new one, and in sfs_remove for the new one again.               *)
(***************************************************************************)
Sought(t)  == IF th[t].goal \in {"new", "victim"} THEN th[t].new ELSE th[t].name
Matches(t) == Live(th[t].i) /\ dir[th[t].i].name = Sought(t)

SearchNext(t) ==
  /\ At(t, "search") /\ th[t].i \in Entry /\ ~Matches(t)
  /\ th' = [th EXCEPT ![t].i = @ + 1,
              ![t].e = IF th[t].goal = "open" /\ @ = NoEntry /\ ~Live(th[t].i)
                         THEN th[t].i ELSE @]
  /\ UNCHANGED <<vars, role, mutex, before, listVars>>

Found(t) ==
  LET i == th[t].i IN
  /\ At(t, "search") /\ i \in Entry /\ Matches(t)
  /\ th' = CASE th[t].goal = "open" ->
                  [th EXCEPT ![t].at = "slot", ![t].e = i]
             [] th[t].goal = "old" ->
                  [th EXCEPT ![t].goal = "new", ![t].e = i, ![t].i = 0]
             [] th[t].goal = "new" ->
                  [th EXCEPT ![t].goal = "victim", ![t].i = 0]
             [] th[t].goal \in {"remove", "victim"} ->
                  [th EXCEPT ![t].at = "inuse", ![t].victim = i]
  /\ UNCHANGED <<vars, role, mutex, before, listVars>>

NotFound(t) ==
  /\ At(t, "search") /\ th[t].i = FileCountLimit
  /\ \/ /\ th[t].goal = "open" /\ th[t].e # NoEntry
        /\ Go(t, "allocate") /\ UNCHANGED <<ret, before>>
     \/ /\ th[t].goal = "open" /\ th[t].e = NoEntry
        /\ Refuses(t, "ENOSPC")
     \/ th[t].goal \in {"remove", "old"} /\ Refuses(t, "ENOENT")
     \/ /\ th[t].goal \in {"new", "victim"}
        /\ Go(t, "rename") /\ UNCHANGED <<ret, before>>
  /\ UNCHANGED <<diskVars, memVars, status, role, mutex, listVars>>

(***************************************************************************)
(* createFile stores the first block and the size before the name; until   *)
(* then the entry has the name of the file that was there last.            *)
(***************************************************************************)
EnterFile(t) ==
  /\ At(t, "enter")
  /\ dir' = [dir EXCEPT ![th[t].e].first = th[t].first, ![th[t].e].size = 0]
  /\ Go(t, "name")
  /\ UNCHANGED <<freelist, next, prev, btype, data, memVars, status, ret,
                 role, mutex, before, listVars>>

NameFile(t) ==
  /\ At(t, "name")
  /\ dir' = [dir EXCEPT ![th[t].e].name = th[t].name]
  /\ Go(t, "slot")
  /\ UNCHANGED <<freelist, next, prev, btype, data, memVars, status, ret,
                 role, mutex, before, listVars>>

\* addOpenFileEntry: the search for a slot, and the stores to both tables.
FindSlot(t) ==
  /\ At(t, "slot")
  /\ \/ /\ FreeFds = {} /\ Refuses(t, "EMFILE")
        /\ UNCHANGED <<diskVars, memVars, status>>
     \/ /\ FreeFds # {} /\ Refuses(t, "ENOMEM")
        /\ UNCHANGED <<diskVars, memVars, status>>
     \/ /\ FreeFds # {}
        /\ th' = [th EXCEPT ![t].at = "hand", ![t].fd = Lowest(FreeFds)]
        /\ UNCHANGED <<before, vars>>
  /\ UNCHANGED <<role, mutex, listVars>>

HandOut(t) ==
  LET e == th[t].e IN
  /\ At(t, "hand")
  /\ openFile' = [openFile EXCEPT ![e] =
                    [refCount |-> @.refCount + 1, mapped |-> TRUE]]
  /\ fds' = [fds EXCEPT ![th[t].fd] =
               [entry |-> e, curr |-> dir[e].first, pos |-> 0]]
  /\ Returns(t, th[t].fd)
  /\ UNCHANGED <<diskVars, mounted, status, role, mutex, listVars>>

(***************************************************************************)
(* sfs_remove, once it has found the entry.  Within sfs_rename its refusal *)
(* is ignored.                                                             *)
(***************************************************************************)
RemoveInUse(t) ==
  /\ At(t, "inuse")
  /\ \/ /\ InUse(th[t].victim) /\ th[t].kind = "remove" /\ Refuses(t, "EBUSY")
     \/ /\ InUse(th[t].victim) /\ th[t].kind = "rename"
        /\ Go(t, "rename") /\ UNCHANGED <<ret, before>>
     \/ ~InUse(th[t].victim) /\ Go(t, "clear") /\ UNCHANGED <<ret, before>>
  /\ UNCHANGED <<diskVars, memVars, status, role, mutex, listVars>>

ClearEntry(t) ==
  LET x == th[t].victim IN
  /\ At(t, "clear")
  /\ th' = [th EXCEPT ![t].at = "free", ![t].blk = dir[x].first]
  /\ dir' = [dir EXCEPT ![x].first = Null]
  /\ steady' = [u \in Thread |-> steady[u] \ {x}]
  /\ UNCHANGED <<freelist, next, prev, btype, data, memVars, status, ret,
                 role, mutex, before, looping, reported>>

FreeChainOf(t) ==
  LET b == th[t].blk IN
  /\ At(t, "free")
  /\ prev' = PrevAfterFree(prev, b)
  /\ \/ /\ ~FreeAborts(next, btype, b)
        /\ next' = NextAfterFree(next, prev, freelist, b)
        /\ btype' = TypeAfterFree(next, btype, b)
        /\ freelist' = b
        /\ \/ th[t].kind = "remove" /\ Returns(t, 0)
           \/ th[t].kind = "rename" /\ Go(t, "rename") /\ UNCHANGED <<ret, before>>
        /\ UNCHANGED status
     \/ /\ FreeAborts(next, btype, b)
        /\ next' = NextAfterCut(next, prev, b)
        /\ btype' = TypeUntilFree(next, btype, b)
        /\ Dies(t)
        /\ UNCHANGED freelist
  /\ UNCHANGED <<data, dir, memVars, role, mutex, listVars>>

RenameEntry(t) ==
  /\ At(t, "rename")
  /\ dir' = [dir EXCEPT ![th[t].e].name = th[t].new]
  /\ Returns(t, 0)
  /\ UNCHANGED <<freelist, next, prev, btype, data, memVars, status,
                 role, mutex, listVars>>

(***************************************************************************)
(* sfs_list, one entry per step.  ret is left alone: sfs_list changes      *)
(* nothing that the other calls know of.                                   *)
(***************************************************************************)
ListEntryTo(t, cookie) ==
  /\ At(t, "list")
  /\ \/ /\ th[t].i \in Entry /\ Live(th[t].i)
        /\ reported' = [reported EXCEPT ![t] = @ \cup {th[t].i}]
        /\ th' = [th EXCEPT ![t] = [NoCall EXCEPT !.cookie = cookie]]
        /\ UNCHANGED looping
     \/ /\ th[t].i \in Entry /\ ~Live(th[t].i)
        /\ th' = [th EXCEPT ![t].i = @ + 1]
        /\ UNCHANGED <<reported, looping>>
     \/ /\ th[t].i \notin Entry
        /\ th' = [th EXCEPT ![t] = NoCall]
        /\ looping' = [looping EXCEPT ![t] = FALSE]
        /\ UNCHANGED reported
  /\ UNCHANGED <<vars, role, mutex, before, steady>>

\* Defect: the cookie skips an entry.
ListEntry_Skips(t) == ListEntryTo(t, th[t].i + 2)

\* Defect: the cookie stays at the entry that was reported.
ListEntry_Stays(t) == ListEntryTo(t, th[t].i)

ListEntry(t) == ListEntryTo(t, th[t].i + 1)

-----------------------------------------------------------------------------
(***************************************************************************)
(* Two files, one block each, and the descriptors the threads share: all   *)
(* of them on the first file, or the last one on the second.               *)
(***************************************************************************)
ThreadInit ==
  LET taken == {1, 2}
      first == CHOOSE n \in Names : TRUE
      file(e) == IF e > 1 THEN UnusedEntry
                 ELSE [first |-> e + 1, size |-> 0,
                       name |-> IF e = 0 THEN first
                                ELSE CHOOSE n \in Names \ {first} : TRUE]
  IN
  /\ role \in Roles
  /\ \E entryOf \in [Shared[role] -> {0, 1}] :
       /\ \A fd \in Shared[role] : fd = 0 => entryOf[fd] = 0
       /\ fds = [fd \in Fd |-> IF fd \notin Shared[role] THEN NoDesc
                 ELSE [entry |-> entryOf[fd], curr |-> entryOf[fd] + 1, pos |-> 0]]
       /\ openFile = [e \in Entry |->
            LET refs == {fd \in Shared[role] : entryOf[fd] = e}
            IN  [refCount |-> Cardinality(refs), mapped |-> refs # {}]]
  /\ freelist = 3
  /\ next = [b \in Block |-> IF b \in taken THEN Null ELSE FormattedNext[b]]
  /\ prev = [b \in Block |-> IF b \in taken \cup {3} THEN Null ELSE FormattedPrev[b]]
  /\ btype = [b \in Block |-> IF b \in taken THEN "file" ELSE "free"]
  /\ data = [b \in Block |-> [o \in Offset |-> ZeroByte]]
  /\ dir = [e \in Entry |-> file(e)]
  /\ mounted = TRUE /\ status = "running"
  /\ ret = [code |-> "OK", val |-> 0, buf |-> <<>>]
  /\ mutex = NoThread
  /\ th = [t \in Thread |-> NoCall]
  /\ before = <<>>
  /\ looping = [t \in Thread |-> FALSE]
  /\ reported = [t \in Thread |-> {}] /\ steady = [t \in Thread |-> {}]

\* A step of a call that has begun.
Step(t) ==
  \/ Lock(t) \/ Load(t) \/ Allocate(t) \/ Take(t) \/ Copy(t) \/ Hop(t)
  \/ Publish(t) \/ Unlock(t) \/ GetPosition(t) \/ SeekLoad(t) \/ SeekStore(t)
  \/ CloseDesc(t) \/ Release(t) \/ SearchNext(t) \/ Found(t) \/ NotFound(t)
  \/ EnterFile(t) \/ NameFile(t) \/ FindSlot(t) \/ HandOut(t)
  \/ RemoveInUse(t) \/ ClearEntry(t) \/ FreeChainOf(t) \/ RenameEntry(t)
  \/ ListEntry(t)

ThreadNext == \E t \in Thread : Begin(t) \/ Step(t)

\* The kernel runs every thread that can run; a client that has begun to list
\* goes on, as sfs-api.h tells it to.
ThreadSpec ==
  /\ ThreadInit /\ [][ThreadNext]_allVars
  /\ \A t \in Thread :
       WF_allVars(Step(t)) /\ WF_allVars(looping[t] /\ BeginList(t))

-----------------------------------------------------------------------------
(***************************************************************************)
(* The state another thread can tell: that of the moment the changing call *)
(* began, until it has made its last change.                               *)
(***************************************************************************)
At1(now, then(_)) == IF before = <<>> THEN now ELSE then(before[1])

\* The name and size of an unused entry do not count.
Tidy(d) == [e \in Entry |-> IF d[e].first = Null THEN UnusedEntry ELSE d[e]]

Atomic == INSTANCE Sfs WITH
  freelist <- At1(freelist, LAMBDA s : s.freelist),
  next     <- At1(next,     LAMBDA s : s.next),
  prev     <- At1(prev,     LAMBDA s : s.prev),
  btype    <- At1(btype,    LAMBDA s : s.btype),
  data     <- At1(data,     LAMBDA s : s.data),
  dir      <- Tidy(At1(dir, LAMBDA s : s.dir)),
  openFile <- At1(openFile, LAMBDA s : s.openFile),
  fds      <- At1(fds,      LAMBDA s : s.fds)

(***************************************************************************)
(* However the steps of the threads interleave, each of these calls looks  *)
(* as if it happened at once, and returns what it would then: sfs_read,    *)
(* sfs_write and sfs_getpos of any threads, on descriptors they share as   *)
(* well (that is what sfs_mutexes is for); sfs_open, sfs_close, sfs_remove *)
(* and sfs_write of one thread, and its sfs_seek on a descriptor it shares *)
(* with nobody, while the others read; sfs_open, sfs_close, sfs_remove and *)
(* sfs_rename of one thread while the others list.  (A step of sfs_list    *)
(* changes nothing here: ListingComplete is about what it reports.)        *)
(*                                                                         *)
(* Nothing is said where the code is not atomic: a seek on a descriptor    *)
(* that another thread uses, a search of the directory while sfs_rename    *)
(* is between the removal and the new name (sfs-api.h asks for atomicity   *)
(* there), and calls of two threads that change the directory.             *)
(***************************************************************************)
CallsAreAtomic == [][UNCHANGED Atomic!vars \/ Atomic!FileCall]_allVars

(***************************************************************************)
(* A loop that runs to its end reports every file that was there from its  *)
(* first call to its last, whatever other threads created, removed or      *)
(* renamed in the meantime (sfs_list; sfs-api.h has the cookie "handle     *)
(* concurrent modifications").                                             *)
(***************************************************************************)
ListingComplete ==
  [][\A t \in Thread :
        looping[t] /\ ~looping'[t] => steady[t] \subseteq reported[t]]_allVars

(***************************************************************************)
(* A loop ends although files keep coming and going (sfs_list moves its    *)
(* cookie forward in every call).                                          *)
(***************************************************************************)
ListingEnds == \A t \in Thread : looping[t] ~> ~looping[t]

(***************************************************************************)
(* Every path through sfs_read and sfs_write gives sfs_mutexes back, also  *)
(* those that refuse.  (Who gets it next is open: pthread_mutex_lock does  *)
(* not queue, so a thread may wait while others keep coming.)              *)
(***************************************************************************)
MutexReleased == (mutex # NoThread) ~> (mutex = NoThread)
=============================================================================
