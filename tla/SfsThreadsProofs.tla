-------------------------- MODULE SfsThreadsProofs --------------------------
(***************************************************************************)
(* A theorem about SfsThreads, for any number of threads, any calls they   *)
(* make and every size of disk and directory: a listing misses no file     *)
(* that was there all along.                                               *)
(***************************************************************************)
EXTENDS SfsThreads, TLAPS

\* The entries before this place are behind a listing that is under way.
Place(t) == IF th[t].at = "list" THEN th[t].i ELSE th[t].cookie

\* The fields of the directory and of the calls are those they began with.
Shapes ==
  /\ DOMAIN dir = Entry
  /\ \A e \in Entry : DOMAIN dir[e] = DOMAIN UnusedEntry
  /\ DOMAIN th = Thread
  /\ \A t \in Thread : DOMAIN th[t] = DOMAIN NoCall
  /\ looping \in [Thread -> BOOLEAN]
  /\ reported \in [Thread -> SUBSET Entry]
  /\ steady \in [Thread -> SUBSET Entry]

\* createFile enters a block that there is, and a search knows what it is for.
Goal == {"open", "remove", "old", "new", "victim"}

Fits(call) ==
  /\ call.at \in {"take", "enter"} => call.first # Null
  /\ call.at = "search" => call.goal \in Goal

CallsFit == \A t \in Thread : Fits(th[t])

SteadyLive == \A t \in Thread : \A e \in steady[t] : Live(e)

Behind ==
  \A t \in Thread :
    /\ Place(t) \in Nat
    /\ \A e \in steady[t] : e < Place(t) => e \in reported[t]
    /\ ~looping[t] => th[t].cookie = 0 /\ th[t].at # "list"

LInv == Shapes /\ CallsFit /\ SteadyLive /\ Behind

-----------------------------------------------------------------------------
(***************************************************************************)
(* What every step but those of sfs_list has in common.  The last argument *)
(* is the entry that is cleared, NoEntry if none is.                       *)
(***************************************************************************)
OneCall(t) ==
  /\ DOMAIN th' = Thread
  /\ DOMAIN th'[t] = DOMAIN NoCall
  /\ \A u \in Thread \ {t} : th'[u] = th[u]

Directories(x) ==
  /\ DOMAIN dir' = Entry
  /\ \A e \in Entry : DOMAIN dir'[e] = DOMAIN UnusedEntry
  /\ \A e \in Entry : e # x /\ Live(e) => Live(e)'

KeepsPlace(t) ==
  /\ th[t].at # "list" /\ th'[t].at # "list"
  /\ th'[t].cookie = th[t].cookie

Otherwise(t, x) ==
  /\ OneCall(t) /\ Directories(x) /\ KeepsPlace(t) /\ Fits(th'[t])
  /\ UNCHANGED <<looping, reported>>
  /\ steady' = [u \in Thread |-> steady[u] \ {x}]

LEMMA OtherwiseKeeps ==
  ASSUME LInv, NEW t \in Thread, NEW x, Otherwise(t, x)
  PROVE  LInv'
<1>1. \A u \in Thread : Place(u)' = Place(u)
  BY DEF Otherwise, OneCall, KeepsPlace, Place
<1>2. Shapes'
  BY DEF LInv, Shapes, Otherwise, OneCall, Directories, UnusedEntry, NoCall
<1>3. CallsFit'
  BY DEF LInv, CallsFit, Otherwise, OneCall
<1>4. SteadyLive'
  BY DEF LInv, Shapes, SteadyLive, Otherwise, Directories
<1>5. Behind'
  BY <1>1 DEF LInv, Shapes, Behind, Otherwise, OneCall, KeepsPlace
<1> QED BY <1>2, <1>3, <1>4, <1>5 DEF LInv

\* A step that leaves the directory and the histories of the listings alone.
LEMMA QuietStep ==
  ASSUME LInv, NEW t \in Thread, OneCall(t), KeepsPlace(t), Fits(th'[t]),
         UNCHANGED <<dir, listVars>>
  PROVE  LInv'
<1>1. Directories(NoEntry)
  BY DEF LInv, Shapes, Directories, Live
<1>2. \A u \in Thread : steady[u] \ {NoEntry} = steady[u]
  BY DEF LInv, Shapes, Entry, NoEntry
<1>3. steady' = [u \in Thread |-> steady[u] \ {NoEntry}]
  BY <1>2 DEF LInv, Shapes, listVars
<1> QED BY <1>1, <1>3, OtherwiseKeeps DEF Otherwise, listVars

-----------------------------------------------------------------------------
(***************************************************************************)
(* The calls, from the first step to the last.                             *)
(***************************************************************************)
LEMMA StartsOneCall ==
  ASSUME LInv, NEW t \in Thread, NEW kind, NEW place, NEW call,
         DOMAIN call = DOMAIN NoCall, Starts(t, kind, place, call)
  PROVE  /\ OneCall(t) /\ UNCHANGED dir
         /\ th[t].at = "idle" /\ th'[t].at = place /\ th'[t].goal = call.goal
         /\ th'[t].cookie = th[t].cookie /\ th'[t].i = call.i
BY DEF LInv, Shapes, Starts, OneCall, NoCall, vars, diskVars

LEMMA StartsQuietly ==
  ASSUME LInv, NEW t \in Thread, NEW kind, NEW place, NEW call,
         place \in {"search", "close", "seek", "getpos", "lock"},
         DOMAIN call = DOMAIN NoCall, Starts(t, kind, place, call),
         place = "search" => call.goal \in Goal, UNCHANGED listVars
  PROVE  LInv'
<1>1. /\ OneCall(t) /\ UNCHANGED dir
      /\ th[t].at = "idle" /\ th'[t].at = place /\ th'[t].goal = call.goal
      /\ th'[t].cookie = th[t].cookie
  BY StartsOneCall
<1>2. KeepsPlace(t) /\ Fits(th'[t])
  BY <1>1 DEF KeepsPlace, Fits
<1> QED BY <1>1, <1>2, QuietStep

LEMMA BeginKeeps ==
  ASSUME LInv, NEW t \in Thread, Begin(t), ~BeginList(t)
  PROVE  LInv'
<1>1. CASE BeginOpen(t)
  <2>1. PICK name \in Names :
          /\ Starts(t, "open", "search",
                    [NoCall EXCEPT !.name = name, !.goal = "open"])
          /\ UNCHANGED listVars
    BY <1>1 DEF BeginOpen, Saves
  <2>2. PICK call : call = [NoCall EXCEPT !.name = name, !.goal = "open"]
    OBVIOUS
  <2>3. /\ DOMAIN call = DOMAIN NoCall /\ Starts(t, "open", "search", call)
        /\ call.goal \in Goal
    BY <2>1, <2>2 DEF NoCall, Goal
  <2> QED BY <2>1, <2>3, StartsQuietly
<1>2. CASE BeginRemove(t)
  <2>1. PICK name \in Names :
          /\ Starts(t, "remove", "search",
                    [NoCall EXCEPT !.name = name, !.goal = "remove"])
          /\ UNCHANGED listVars
    BY <1>2 DEF BeginRemove, Saves
  <2>2. PICK call : call = [NoCall EXCEPT !.name = name, !.goal = "remove"]
    OBVIOUS
  <2>3. /\ DOMAIN call = DOMAIN NoCall /\ Starts(t, "remove", "search", call)
        /\ call.goal \in Goal
    BY <2>1, <2>2 DEF NoCall, Goal
  <2> QED BY <2>1, <2>3, StartsQuietly
<1>3. CASE BeginRename(t)
  <2>1. PICK old \in Names, new \in Names :
          /\ Starts(t, "rename", "search",
                    [NoCall EXCEPT !.name = old, !.new = new, !.goal = "old"])
          /\ UNCHANGED listVars
    BY <1>3 DEF BeginRename, Saves
  <2>2. PICK call : call = [NoCall EXCEPT !.name = old, !.new = new, !.goal = "old"]
    OBVIOUS
  <2>3. /\ DOMAIN call = DOMAIN NoCall /\ Starts(t, "rename", "search", call)
        /\ call.goal \in Goal
    BY <2>1, <2>2 DEF NoCall, Goal
  <2> QED BY <2>1, <2>3, StartsQuietly
<1>4. CASE BeginClose(t)
  <2>1. PICK fd \in Fd :
          /\ Starts(t, "close", "close",
                    [NoCall EXCEPT !.fd = fd])
          /\ UNCHANGED listVars
    BY <1>4 DEF BeginClose, Saves
  <2>2. PICK call : call = [NoCall EXCEPT !.fd = fd]
    OBVIOUS
  <2>3. /\ DOMAIN call = DOMAIN NoCall /\ Starts(t, "close", "close", call)
    BY <2>1, <2>2
  <2> QED BY <2>1, <2>3, StartsQuietly
<1>5. CASE BeginSeek(t)
  <2>1. PICK fd \in Fd, delta \in - MaxLen .. MaxLen :
          /\ Starts(t, "seek", "seek",
                    [NoCall EXCEPT !.fd = fd, !.pos = delta])
          /\ UNCHANGED listVars
    BY <1>5 DEF BeginSeek, Plain
  <2>2. PICK call : call = [NoCall EXCEPT !.fd = fd, !.pos = delta]
    OBVIOUS
  <2>3. /\ DOMAIN call = DOMAIN NoCall /\ Starts(t, "seek", "seek", call)
    BY <2>1, <2>2
  <2> QED BY <2>1, <2>3, StartsQuietly
<1>6. CASE BeginGetPos(t)
  <2>1. PICK fd \in Shared[role] :
          /\ Starts(t, "getpos", "getpos",
                    [NoCall EXCEPT !.fd = fd])
          /\ UNCHANGED listVars
    BY <1>6 DEF BeginGetPos, Plain
  <2>2. PICK call : call = [NoCall EXCEPT !.fd = fd]
    OBVIOUS
  <2>3. /\ DOMAIN call = DOMAIN NoCall /\ Starts(t, "getpos", "getpos", call)
    BY <2>1, <2>2
  <2> QED BY <2>1, <2>3, StartsQuietly
<1>7. CASE BeginTransfer(t)
  <2>1. PICK kind \in Transfer, fd \in Usable(t), len \in 1 .. MaxLen :
        \E byte \in IF kind = "write" THEN Writes[t] ELSE {ZeroByte} :
          /\ Starts(t, kind, "lock",
                    [NoCall EXCEPT !.fd = fd, !.len = len, !.byte = byte])
          /\ UNCHANGED listVars
    BY <1>7 DEF BeginTransfer, Plain
  <2>2. PICK byte :
          /\ Starts(t, kind, "lock",
                    [NoCall EXCEPT !.fd = fd, !.len = len, !.byte = byte])
          /\ UNCHANGED listVars
    BY <2>1
  <2>3. PICK call : call = [NoCall EXCEPT !.fd = fd, !.len = len, !.byte = byte]
    OBVIOUS
  <2>4. DOMAIN call = DOMAIN NoCall /\ Starts(t, kind, "lock", call)
    BY <2>2, <2>3
  <2> QED BY <2>2, <2>4, StartsQuietly
<1> QED BY <1>1, <1>2, <1>3, <1>4, <1>5, <1>6, <1>7 DEF Begin

LEMMA BeginListKeeps ==
  ASSUME LInv, NEW t \in Thread, BeginList(t)
  PROVE  LInv'
<1>1. PICK call : call = [NoCall EXCEPT !.i = th[t].cookie]
  OBVIOUS
<1>2. /\ Starts(t, "list", "list", call)
      /\ DOMAIN call = DOMAIN NoCall /\ call.i = th[t].cookie
  BY <1>1 DEF BeginList, NoCall
<1>3. /\ OneCall(t) /\ UNCHANGED dir
      /\ th[t].at = "idle" /\ th'[t].at = "list"
      /\ th'[t].cookie = th[t].cookie /\ th'[t].i = th[t].cookie
  BY <1>2, StartsOneCall
<1>4. \A u \in Thread : Place(u)' = Place(u)
  BY <1>3 DEF OneCall, Place
<1>5. /\ looping' = [looping EXCEPT ![t] = TRUE]
      /\ \/ looping[t] /\ UNCHANGED <<reported, steady>>
         \/ /\ ~looping[t]
            /\ reported' = [reported EXCEPT ![t] = {}]
            /\ steady' = [steady EXCEPT ![t] = {e \in Entry : Live(e)}]
  BY DEF BeginList
<1>6. Shapes'
  BY <1>3, <1>5 DEF LInv, Shapes, OneCall
<1>7. CallsFit'
  BY <1>3 DEF LInv, CallsFit, Fits, OneCall
<1>8. SteadyLive'
  BY <1>3, <1>5 DEF LInv, Shapes, SteadyLive, Live
<1>9. Behind'
  <2>1. ASSUME NEW u \in Thread
        PROVE  \A e \in steady'[u] : e < Place(u)' => e \in reported'[u]
    <3>1. CASE u = t /\ ~looping[t]
      <4>1. Place(u)' = 0 /\ steady'[u] \subseteq Entry
        BY <1>3, <1>4, <1>6, <3>1 DEF LInv, Behind, Place, Shapes
      <4> QED BY <4>1, GeometryAssumption DEF Entry
    <3>2. CASE ~(u = t /\ ~looping[t])
      <4>1. steady'[u] = steady[u] /\ reported'[u] = reported[u]
        BY <1>5, <3>2 DEF LInv, Shapes
      <4> QED BY <1>4, <4>1 DEF LInv, Behind
    <3> QED BY <3>1, <3>2
  <2>2. ASSUME NEW u \in Thread
        PROVE  ~looping'[u] => th'[u].cookie = 0 /\ th'[u].at # "list"
    BY <1>3, <1>5 DEF LInv, Shapes, Behind, OneCall
  <2>3. \A u \in Thread : Place(u)' \in Nat
    BY <1>4 DEF LInv, Behind
  <2> QED BY <2>1, <2>2, <2>3 DEF Behind
<1> QED BY <1>6, <1>7, <1>8, <1>9 DEF LInv

LEMMA DoneCall ==
  ASSUME LInv, NEW t \in Thread, th[t].at # "list", Done(t)
  PROVE  OneCall(t) /\ KeepsPlace(t) /\ Fits(th'[t])
BY DEF LInv, Shapes, Done, OneCall, KeepsPlace, Fits, NoCall

LEMMA GoCall ==
  ASSUME LInv, NEW t \in Thread, th[t].at # "list",
         NEW place, place \notin {"list", "take", "enter", "search"}, Go(t, place)
  PROVE  OneCall(t) /\ KeepsPlace(t) /\ Fits(th'[t])
BY DEF LInv, Shapes, Go, OneCall, KeepsPlace, Fits, NoCall

\* Steps that leave the directory alone.
Quiet(t) ==
  OneCall(t) /\ KeepsPlace(t) /\ Fits(th'[t]) /\ UNCHANGED <<dir, listVars>>

LEMMA TransferQuiet ==
  ASSUME LInv, NEW t \in Thread,
         Lock(t) \/ Load(t) \/ Copy(t) \/ Hop(t) \/ Unlock(t)
  PROVE  Quiet(t)
<1>1. CASE Lock(t)
  <2>1. Go(t, "load") /\ th[t].at # "list" /\ UNCHANGED <<dir, listVars>>
    BY <1>1 DEF Lock, At, vars, diskVars
  <2> QED BY <2>1, GoCall DEF Quiet
<1>2. CASE Load(t)
  <2>1. th[t].at = "load" /\ UNCHANGED <<dir, listVars>>
    BY <1>2 DEF Load, At, vars, diskVars, RefusesLocked
  <2>2. CASE Go(t, "unlock")
    BY <2>1, <2>2, GoCall DEF Quiet
  <2>3. CASE Dies(t)
    BY <2>1, <2>3, DoneCall DEF Quiet, Dies
  <2>4. ASSUME NEW place \in {"copy", "allocate"}, NEW n, NEW p, NEW b,
               th' = [th EXCEPT ![t].at = place, ![t].len = n,
                                ![t].pos = p, ![t].blk = b]
        PROVE  Quiet(t)
    BY <2>1, <2>4 DEF Quiet, LInv, Shapes, OneCall, KeepsPlace, Fits, NoCall
  <2> DEFINE to(place, n) ==
        [th EXCEPT ![t].at = place, ![t].len = n,
                   ![t].pos = fds[th[t].fd].pos, ![t].blk = fds[th[t].fd].curr]
  <2>5. \/ Go(t, "unlock") \/ Dies(t)
        \/ th' = to("copy", SizeMin(FileSize(th[t].fd) - fds[th[t].fd].pos, th[t].len))
        \/ th' = to("allocate", th[t].len)
        \/ th' = to("copy", th[t].len)
    BY <1>2 DEF Load, RefusesLocked
  <2> QED BY <2>2, <2>3, <2>4, <2>5
<1>3. CASE Copy(t)
  <2>1. th[t].at = "copy" /\ UNCHANGED <<dir, listVars>>
    BY <1>3 DEF Copy, At, diskVars
  <2>2. CASE Dies(t)
    BY <2>1, <2>2, DoneCall DEF Quiet, Dies
  <2>3. ASSUME NEW place \in {"publish", "hop"}, NEW g,
               th' = [th EXCEPT ![t].got = g, ![t].at = place]
        PROVE  Quiet(t)
    BY <2>1, <2>3 DEF Quiet, LInv, Shapes, OneCall, KeepsPlace, Fits, NoCall
  <2> QED BY <1>3, <2>2, <2>3 DEF Copy
<1>4. CASE Hop(t)
  <2>1. th[t].at = "hop" /\ UNCHANGED <<dir, listVars>>
    BY <1>4 DEF Hop, At, vars, diskVars
  <2>2. CASE Dies(t)
    BY <2>1, <2>2, DoneCall DEF Quiet, Dies
  <2>3. ASSUME NEW b, \/ th' = [th EXCEPT ![t].at = "copy", ![t].blk = b, ![t].hop = @ + 1]
                      \/ th' = [[th EXCEPT ![t].at = "copy", ![t].blk = b, ![t].hop = @ + 1]
                                  EXCEPT ![t].first = Null]
        PROVE  Quiet(t)
    BY <2>1, <2>3 DEF Quiet, LInv, Shapes, OneCall, KeepsPlace, Fits, NoCall
  <2> QED BY <1>4, <2>2, <2>3 DEF Hop
<1>5. CASE Unlock(t)
  <2>1. th[t].at = "unlock" /\ UNCHANGED <<dir, listVars>>
    BY <1>5 DEF Unlock, At, vars, diskVars
  <2> QED BY <1>5, <2>1 DEF Unlock, Quiet, LInv, Shapes, OneCall, KeepsPlace, Fits, NoCall
<1> QED BY <1>1, <1>2, <1>3, <1>4, <1>5

LEMMA DescriptorQuiet ==
  ASSUME LInv, NEW t \in Thread,
         \/ GetPosition(t) \/ SeekLoad(t) \/ SeekStore(t)
         \/ CloseDesc(t) \/ Release(t) \/ FindSlot(t) \/ HandOut(t)
  PROVE  Quiet(t)
<1>1. /\ th[t].at \in {"getpos", "seek", "setpos", "close", "release", "slot", "hand"}
      /\ UNCHANGED <<dir, listVars>>
  BY DEF GetPosition, SeekLoad, SeekStore, CloseDesc, Release, FindSlot, HandOut,
         At, vars, diskVars
<1>2. CASE Done(t)
  BY <1>1, <1>2, DoneCall DEF Quiet
<1>3. ASSUME NEW p, th' = [th EXCEPT ![t].at = "setpos", ![t].pos = p]
      PROVE  Quiet(t)
  BY <1>1, <1>3 DEF Quiet, LInv, Shapes, OneCall, KeepsPlace, Fits, NoCall
<1>4. ASSUME NEW e, th' = [th EXCEPT ![t].at = "release", ![t].e = e]
      PROVE  Quiet(t)
  BY <1>1, <1>4 DEF Quiet, LInv, Shapes, OneCall, KeepsPlace, Fits, NoCall
<1>5. ASSUME NEW f, th' = [th EXCEPT ![t].at = "hand", ![t].fd = f]
      PROVE  Quiet(t)
  BY <1>1, <1>5 DEF Quiet, LInv, Shapes, OneCall, KeepsPlace, Fits, NoCall
<1> QED BY <1>2, <1>3, <1>4, <1>5 DEF GetPosition, SeekLoad, SeekStore, CloseDesc,
        Release, FindSlot, HandOut, Returns, Refuses

LEMMA SearchQuiet ==
  ASSUME LInv, NEW t \in Thread,
         SearchNext(t) \/ Found(t) \/ NotFound(t) \/ RemoveInUse(t)
  PROVE  Quiet(t)
<1>1. /\ th[t].at \in {"search", "inuse"}
      /\ UNCHANGED <<dir, listVars>>
  BY DEF SearchNext, Found, NotFound, RemoveInUse, At, vars, diskVars
<1>2. CASE Done(t)
  BY <1>1, <1>2, DoneCall DEF Quiet
<1>3. ASSUME NEW place \in {"allocate", "rename", "clear"}, Go(t, place)
      PROVE  Quiet(t)
  BY <1>1, <1>3, GoCall DEF Quiet
<1>4. ASSUME NEW e, th' = [th EXCEPT ![t].i = @ + 1, ![t].e = e]
      PROVE  Quiet(t)
  BY <1>1, <1>4 DEF Quiet, LInv, Shapes, CallsFit, OneCall, KeepsPlace, Fits, NoCall
<1>5. CASE Found(t)
  <2>1. /\ DOMAIN th' = DOMAIN th /\ \A u \in Thread \ {t} : th'[u] = th[u]
        /\ DOMAIN th'[t] = DOMAIN th[t] /\ th'[t].at \in {"slot", "search", "inuse"}
        /\ th'[t].cookie = th[t].cookie
        /\ th'[t].at = "search" => th'[t].goal \in Goal
    <3>1. th[t].goal \in Goal /\ DOMAIN th[t] = DOMAIN NoCall /\ DOMAIN th = Thread
      BY <1>5 DEF Found, At, LInv, Shapes, CallsFit, Fits
    <3>2. \/ th' = [th EXCEPT ![t].at = "slot", ![t].e = th[t].i]
          \/ th' = [th EXCEPT ![t].goal = "new", ![t].e = th[t].i, ![t].i = 0]
          \/ th' = [th EXCEPT ![t].goal = "victim", ![t].i = 0]
          \/ th' = [th EXCEPT ![t].at = "inuse", ![t].victim = th[t].i]
      BY <1>5, <3>1 DEF Found, Goal
    <3>3. th[t].at = "search"
      BY <1>5 DEF Found, At
    <3> QED BY <3>1, <3>2, <3>3 DEF NoCall, Goal
  <2> QED BY <1>1, <2>1 DEF Quiet, LInv, Shapes, OneCall, KeepsPlace, Fits
<1> QED BY <1>2, <1>3, <1>4, <1>5 DEF SearchNext, NotFound, RemoveInUse, Refuses

LEMMA QuietKeeps ==
  ASSUME LInv, NEW t \in Thread, Quiet(t)
  PROVE  LInv'
BY QuietStep DEF Quiet

-----------------------------------------------------------------------------
(***************************************************************************)
(* The steps that change the directory, or take the block it will name.    *)
(***************************************************************************)
LEMMA AllocateKeeps ==
  ASSUME LInv, NEW t \in Thread, Allocate(t) \/ Take(t)
  PROVE  LInv'
<1>1. th[t].at \in {"allocate", "take"} /\ UNCHANGED <<dir, listVars>>
  BY DEF Allocate, Take, At, vars, diskVars, RefusesLocked
<1>2. CASE Done(t)
  BY <1>1, <1>2, DoneCall, QuietKeeps DEF Quiet
<1>3. CASE Go(t, "unlock")
  BY <1>1, <1>3, GoCall, QuietKeeps DEF Quiet
<1>4. ASSUME NEW run, AllocatedRun(next, freelist, Wanted(t)) # {},
             th' = [th EXCEPT ![t].at = "take", ![t].run = run, ![t].first = freelist]
      PROVE  LInv'
  <2>1. freelist # Null
    BY <1>4 DEF AllocatedRun, CanAllocate
  <2>2. Quiet(t)
    BY <1>1, <1>4, <2>1 DEF Quiet, LInv, Shapes, OneCall, KeepsPlace, Fits, NoCall
  <2> QED BY <2>2, QuietKeeps
<1>5. ASSUME NEW place \in {"copy", "enter"},
             th[t].at = "take", th' = [th EXCEPT ![t].run = {}, ![t].at = place]
      PROVE  LInv'
  <2>1. Quiet(t)
    BY <1>1, <1>5
       DEF Quiet, LInv, Shapes, CallsFit, OneCall, KeepsPlace, Fits, NoCall
  <2> QED BY <2>1, QuietKeeps
<1>6. CASE Allocate(t)
  BY <1>2, <1>3, <1>4, <1>6 DEF Allocate, Dies, RefusesLocked, Refuses
<1>7. CASE Take(t)
  BY <1>5, <1>7 DEF Take, At
<1> QED BY <1>6, <1>7

\* A step that clears no entry.
LEMMA ClearsNone ==
  ASSUME LInv, NEW t \in Thread, OneCall(t), KeepsPlace(t), Fits(th'[t]),
         Directories(NoEntry), UNCHANGED listVars
  PROVE  LInv'
<1>1. \A u \in Thread : steady[u] \ {NoEntry} = steady[u]
  BY DEF LInv, Shapes, Entry, NoEntry
<1>2. steady' = [u \in Thread |-> steady[u] \ {NoEntry}]
  BY <1>1 DEF LInv, Shapes, listVars
<1> QED BY <1>2, OtherwiseKeeps DEF Otherwise, listVars

LEMMA DirectoryKeeps ==
  ASSUME LInv, NEW t \in Thread,
         \/ Publish(t) \/ EnterFile(t) \/ NameFile(t)
         \/ RenameEntry(t) \/ FreeChainOf(t)
  PROVE  LInv'
<1>1. /\ th[t].at \in {"publish", "enter", "name", "rename", "free"}
      /\ UNCHANGED listVars
  BY DEF Publish, EnterFile, NameFile, RenameEntry, FreeChainOf, At
<1>2. OneCall(t) /\ KeepsPlace(t) /\ Fits(th'[t])
  <2>1. \/ Done(t)
        \/ \E place \in {"unlock", "name", "slot", "rename"} : Go(t, place)
    BY DEF Publish, EnterFile, NameFile, RenameEntry, FreeChainOf, Returns, Dies
  <2> QED BY <1>1, <2>1, DoneCall, GoCall
<1>3. DOMAIN dir = Entry /\ \A e \in Entry : DOMAIN dir[e] = {"first", "size", "name"}
  BY DEF LInv, Shapes, UnusedEntry
<1>4. Directories(NoEntry)
  <2>1. ASSUME NEW e, NEW v, \/ dir' = [dir EXCEPT ![e].size = v]
                             \/ dir' = [dir EXCEPT ![e].name = v]
                             \/ dir' = dir
        PROVE  Directories(NoEntry)
    BY <1>3, <2>1 DEF Directories, Live, UnusedEntry
  <2>2. ASSUME NEW e, NEW b, b # Null,
               dir' = [dir EXCEPT ![e].first = b, ![e].size = 0]
        PROVE  Directories(NoEntry)
    BY <1>3, <2>2 DEF Directories, Live, UnusedEntry
  <2>3. EnterFile(t) => th[t].first # Null
    BY DEF EnterFile, At, LInv, CallsFit, Fits
  <2> QED BY <2>1, <2>2, <2>3
          DEF Publish, EnterFile, NameFile, RenameEntry, FreeChainOf
<1> QED BY <1>1, <1>2, <1>4, ClearsNone

LEMMA ClearEntryKeeps ==
  ASSUME LInv, NEW t \in Thread, ClearEntry(t)
  PROVE  LInv'
<1> DEFINE x == th[t].victim
<1>1. /\ th[t].at = "clear"
      /\ th' = [th EXCEPT ![t].at = "free", ![t].blk = dir[x].first]
      /\ dir' = [dir EXCEPT ![x].first = Null]
      /\ steady' = [u \in Thread |-> steady[u] \ {x}]
      /\ UNCHANGED <<looping, reported>>
  BY DEF ClearEntry, At
<1>2. OneCall(t) /\ KeepsPlace(t) /\ Fits(th'[t])
  BY <1>1 DEF LInv, Shapes, OneCall, KeepsPlace, Fits, NoCall
<1>3. Directories(x)
  BY <1>1 DEF LInv, Shapes, Directories, Live, UnusedEntry
<1> HIDE DEF x
<1> QED BY <1>1, <1>2, <1>3, OtherwiseKeeps DEF Otherwise

LEMMA ListEntryKeeps ==
  ASSUME LInv, NEW t \in Thread, ListEntry(t)
  PROVE  /\ LInv'
         /\ \A u \in Thread :
              looping[u] /\ ~looping'[u] => steady[u] \subseteq reported[u]
<1> DEFINE i == th[t].i
<1>1. /\ th[t].at = "list" /\ i \in Nat /\ looping[t]
      /\ UNCHANGED <<dir, steady>>
  BY DEF ListEntry, ListEntryTo, At, LInv, Behind, Place, vars, diskVars
<1>2. \/ /\ i \in Entry /\ Live(i) /\ UNCHANGED looping
          /\ reported' = [reported EXCEPT ![t] = @ \cup {i}]
          /\ th' = [th EXCEPT ![t] = [NoCall EXCEPT !.cookie = i + 1]]
       \/ /\ i \in Entry /\ ~Live(i) /\ UNCHANGED <<reported, looping>>
          /\ th' = [th EXCEPT ![t].i = @ + 1]
       \/ /\ i \notin Entry /\ UNCHANGED reported
          /\ looping' = [looping EXCEPT ![t] = FALSE]
          /\ th' = [th EXCEPT ![t] = NoCall]
  BY DEF ListEntry, ListEntryTo
<1> HIDE DEF i
<1>3. \A e \in steady[t] : e \in Entry /\ Live(e) /\ (e < i => e \in reported[t])
  BY <1>1 DEF LInv, Shapes, SteadyLive, Behind, Place, i
<1>4. \A e \in Entry : e \in Nat /\ (e < i + 1 => e < i \/ e = i)
  BY <1>1, GeometryAssumption DEF Entry
<1>5. \A u \in Thread \ {t} : looping'[u] = looping[u] /\ reported'[u] = reported[u]
  BY <1>2 DEF LInv, Shapes
<1>6. OneCall(t) /\ Fits(th'[t])
  BY <1>1, <1>2 DEF LInv, Shapes, OneCall, Fits, NoCall
<1>7. SteadyLive' /\ CallsFit'
  BY <1>1, <1>6 DEF LInv, SteadyLive, CallsFit, Live, OneCall
<1>8. Shapes'
  <2>1. /\ looping' \in [Thread -> BOOLEAN]
        /\ reported' \in [Thread -> SUBSET Entry]
    <3>1. reported[t] \subseteq Entry /\ t \in DOMAIN looping /\ t \in DOMAIN reported
      BY DEF LInv, Shapes
    <3>2. reported \in [Thread -> SUBSET Entry] /\ looping \in [Thread -> BOOLEAN]
      BY DEF LInv, Shapes
    <3>3. i \in Entry => reported[t] \cup {i} \in SUBSET Entry
      BY <3>1
    <3> QED BY <1>2, <3>2, <3>3
  <2>2. DOMAIN th'[t] = DOMAIN NoCall /\ DOMAIN th' = Thread
    BY <1>6 DEF OneCall
  <2> QED BY <1>1, <1>6, <2>1, <2>2 DEF LInv, Shapes, OneCall
<1>9. ASSUME Place(t)' \in Nat,
             \A e \in steady[t] : e < Place(t)' => e \in reported'[t],
             looping'[t] \/ (th'[t].cookie = 0 /\ th'[t].at # "list")
      PROVE  LInv'
  <2>1. \A u \in Thread \ {t} : Place(u)' = Place(u)
    BY <1>6 DEF OneCall, Place
  <2>2. Behind'
    BY <1>1, <1>5, <1>6, <1>9, <2>1 DEF LInv, Behind, OneCall
  <2> QED BY <1>7, <1>8, <2>2 DEF LInv
<1>10. CASE i \in Entry /\ Live(i)
  <2>1. /\ reported'[t] = reported[t] \cup {i} /\ looping'[t] = looping[t]
        /\ th'[t].at = "idle" /\ th'[t].cookie = i + 1
    BY <1>10, <1>2 DEF LInv, Shapes, NoCall
  <2>2. Place(t)' = i + 1
    BY <2>1 DEF Place
  <2>3. /\ Place(t)' \in Nat
        /\ \A e \in steady[t] : e < Place(t)' => e \in reported'[t]
    BY <1>1, <1>3, <1>4, <2>1, <2>2
  <2>4. LInv'
    BY <1>1, <1>9, <2>1, <2>3
  <2> QED BY <1>5, <2>1, <2>4
<1>11. CASE i \in Entry /\ ~Live(i)
  <2>1. /\ UNCHANGED <<reported, looping>>
        /\ th'[t].at = "list" /\ th'[t].i = i + 1
    BY <1>1, <1>11, <1>2 DEF LInv, Shapes, NoCall, i
  <2>2. Place(t)' = i + 1
    BY <2>1 DEF Place
  <2>3. /\ Place(t)' \in Nat
        /\ \A e \in steady[t] : e < Place(t)' => e \in reported'[t]
    <3>1. \A e \in steady[t] : e # i
      BY <1>3, <1>11
    <3> QED BY <1>1, <1>3, <1>4, <2>1, <2>2, <3>1
  <2>4. LInv'
    BY <1>1, <1>9, <2>1, <2>3
  <2> QED BY <2>1, <2>4
<1>12. CASE i \notin Entry
  <2>1. /\ UNCHANGED reported
        /\ th'[t].at = "idle" /\ th'[t].cookie = 0
    BY <1>12, <1>2 DEF LInv, Shapes, NoCall
  <2>2. Place(t)' = 0
    BY <2>1 DEF Place
  <2>3. \A e \in Entry : e < i
    BY <1>1, <1>12, GeometryAssumption DEF Entry
  <2>4. steady[t] \subseteq reported[t]
    BY <1>3, <2>3
  <2>5. /\ Place(t)' \in Nat
        /\ \A e \in steady[t] : e < Place(t)' => e \in reported'[t]
    BY <1>3, <2>2, <2>1, <2>4
  <2>6. LInv'
    BY <1>9, <2>1, <2>5
  <2> QED BY <1>5, <2>4, <2>6
<1> QED BY <1>10, <1>11, <1>12

-----------------------------------------------------------------------------
LEMMA InitKeeps == ThreadInit => LInv
<1> SUFFICES ASSUME ThreadInit PROVE LInv
  OBVIOUS
<1>1. Shapes
  BY DEF ThreadInit, Shapes, UnusedEntry, NoCall
<1>2. CallsFit
  BY DEF ThreadInit, CallsFit, Fits, NoCall
<1>3. SteadyLive
  BY DEF ThreadInit, SteadyLive
<1>4. Behind
  BY DEF ThreadInit, Behind, Place, NoCall
<1> QED BY <1>1, <1>2, <1>3, <1>4 DEF LInv

LEMMA StepKeeps ==
  ASSUME LInv, [ThreadNext]_allVars
  PROVE  /\ LInv'
         /\ \A u \in Thread :
              looping[u] /\ ~looping'[u] => steady[u] \subseteq reported[u]
<1>1. CASE UNCHANGED allVars
  <2>1. UNCHANGED <<dir, th, looping, reported, steady>>
    BY <1>1 DEF allVars, vars, diskVars, threadVars, listVars
  <2> QED BY <2>1 DEF LInv, Shapes, CallsFit, SteadyLive, Behind, Place, Live
<1>2. ASSUME NEW t \in Thread, Begin(t) \/ Step(t)
      PROVE  /\ LInv'
             /\ \A u \in Thread :
                  looping[u] /\ ~looping'[u] => steady[u] \subseteq reported[u]
  <2>1. CASE ListEntry(t)
    BY <2>1, ListEntryKeeps
  <2>2. CASE BeginList(t)
    BY <2>2, BeginListKeeps DEF BeginList, LInv, Shapes
  <2>3. CASE ~ListEntry(t) /\ ~BeginList(t)
    <3>1. LInv'
      BY <1>2, <2>3, BeginKeeps, TransferQuiet, DescriptorQuiet, SearchQuiet, QuietKeeps,
         AllocateKeeps, DirectoryKeeps, ClearEntryKeeps DEF Step
    <3>2. UNCHANGED looping
      BY <1>2, <2>3
         DEF Begin, BeginOpen, BeginRemove, BeginRename, BeginClose, BeginSeek,
             BeginGetPos, BeginTransfer, Saves, Plain, Step, Lock, Load, Allocate,
             Take, Copy, Hop, Publish, Unlock, GetPosition, SeekLoad, SeekStore,
             CloseDesc, Release, SearchNext, Found, NotFound, EnterFile, NameFile,
             FindSlot, HandOut, RemoveInUse, ClearEntry, FreeChainOf, RenameEntry,
             listVars
    <3> QED BY <3>1, <3>2
  <2> QED BY <2>1, <2>2, <2>3
<1> QED BY <1>1, <1>2 DEF ThreadNext

(***************************************************************************)
(* sfs_list: a loop that runs to its end has reported every file that was  *)
(* there from its first call to its last, however many threads list,       *)
(* create, remove, rename and write in the meantime, in any interleaving   *)
(* of their steps.                                                         *)
(***************************************************************************)
THEOREM ListingMissesNothing == ThreadSpec => ListingComplete
<1>1. LInv /\ [ThreadNext]_allVars => LInv'
  BY StepKeeps
<1>2. LInv /\ [ThreadNext]_allVars
      => [\A t \in Thread :
            looping[t] /\ ~looping'[t] => steady[t] \subseteq reported[t]]_allVars
  BY StepKeeps
<1> QED BY InitKeeps, <1>1, <1>2, PTL DEF ThreadSpec, ListingComplete
=============================================================================
