------------------------------- MODULE SfsFsck -------------------------------
(***************************************************************************)
(* The consistency checker sfs-fsck.c, run on the disk of Sfs, and what a  *)
(* consistent disk is, said without reference to how the checker works.    *)
(***************************************************************************)
EXTENDS Sfs

(***************************************************************************)
(* check_blocklist walks a list from its first block and records in the    *)
(* bytemap which list each block is on.  It stops at a block it has been   *)
(* to already.  A scan is the state of that walk.                          *)
(***************************************************************************)
Unvisited == 1   \* B_unvisited
Corrupt   == 2   \* B_corrupt
FreeTag   == 4   \* B_free
FileTag(e) == 6 + e   \* B_file0 up; the code numbers the live entries only

\* The walk has nowhere to go, or has met a block that is on some list.
ScanStops(scan) ==
  \/ scan.cur = Null \/ scan.cur > NBlocks
  \/ scan.bytemap[scan.cur] # Unvisited

\* Defect: prev pointers are not looked at.
ScanStep_NoPrev(scan, label, type) ==
  LET b == scan.cur IN
  [cur |-> next[b], last |-> b, count |-> scan.count + 1,
   linksOK |-> scan.linksOK,
   tagsOK  |-> scan.tagsOK /\ btype[b] = type,
   bytemap |-> [scan.bytemap EXCEPT ![b] =
                  IF btype[b] = type THEN label ELSE Corrupt]]

ScanStep(scan, label, type) ==
  LET b == scan.cur
      rightType == btype[b] = type
  IN  [cur     |-> next[b],
       last    |-> b,
       count   |-> scan.count + 1,
       linksOK |-> scan.linksOK /\ prev[b] = scan.last,
       tagsOK  |-> scan.tagsOK /\ rightType,
       bytemap |-> [scan.bytemap EXCEPT ![b] =
                      IF rightType THEN label ELSE Corrupt]]

ScanOn(scan, label, type) ==
  IF ScanStops(scan) THEN scan ELSE ScanStep(scan, label, type)

CheckBlocklist(map, first, label, type) ==
  LET start == [cur |-> first, last |-> Null, count |-> 0,
                linksOK |-> TRUE, tagsOK |-> TRUE, bytemap |-> map]
      scan[i \in 0 .. NBlocks] ==
        IF i = 0 THEN start ELSE ScanOn(scan[i - 1], label, type)
  IN  scan[NBlocks]

FreshMap == [b \in Block |-> Unvisited]

FreeListScan == CheckBlocklist(FreshMap, freelist, FreeTag, "free")

\* All scans in their order: number 0 is that of the free list, number e + 1 that
\* of entry e, each with the marks that the ones before it left.
EntryScans ==
  LET made[n \in 0 .. FileCountLimit] ==
        IF n = 0 THEN FreeListScan
        ELSE CheckBlocklist(made[n - 1].bytemap, dir[n - 1].first,
                            FileTag(n - 1), "file")
  IN  made

\* The kinds of complaint, each over the whole disk.
SharedOrCircular(scans) == \E n \in DOMAIN scans : scans[n].cur # Null
Mislabeled(scans)       == \E n \in DOMAIN scans : ~scans[n].tagsOK
BadLinks(scans)         == \E n \in DOMAIN scans : ~scans[n].linksOK

ListError(s) == s.cur # Null \/ ~s.tagsOK \/ ~s.linksOK

\* check_directory_entries compares the length of a list only when the list
\* itself is in order.
WrongLength(scans) ==
  \E e \in Entry : /\ Live(e) /\ ~ListError(scans[e + 1])
                   /\ scans[e + 1].count # BlocksFor(dir[e].size)

LostBlocks(scans) ==
  \E b \in Block : scans[FileCountLimit].bytemap[b] = Unvisited

FsckAccepts ==
  LET scans == EntryScans IN
  ~(\/ SharedOrCircular(scans) \/ Mislabeled(scans) \/ BadLinks(scans)
    \/ WrongLength(scans) \/ LostBlocks(scans))

-----------------------------------------------------------------------------
(***************************************************************************)
(* A consistent disk.                                                      *)
(***************************************************************************)
FileChain(e) == Chain(next, dir[e].first)
FreeChain    == Chain(next, freelist)

\* The lists of the disk, each with its first block and the type of its blocks.
Lists == {<<freelist, "free">>} \cup {<<dir[e].first, "file">> : e \in Entry}

\* No list runs into another or into itself: a block that something points to
\* is pointed to once, by one next pointer or one head.
Separate ==
  /\ \A b, c \in Block : b # c /\ next[b] # Null => next[b] # next[c]
  /\ \A b \in Block : next[b] # Null => next[b] # freelist
  /\ \A b \in Block, e \in Entry : next[b] # Null => next[b] # dir[e].first
  /\ \A e \in Entry : Live(e) => dir[e].first # freelist
  /\ \A d, e \in Entry : d # e /\ Live(d) => dir[d].first # dir[e].first

\* A block carries the tag of the list it is on.
TagsAgree ==
  /\ freelist # Null => btype[freelist] = "free"
  /\ \A e \in Entry : Live(e) => btype[dir[e].first] = "file"
  /\ \A b \in Block : next[b] # Null => btype[next[b]] = btype[b]

(***************************************************************************)
(* sfs-fsck.c:9-10: doubly linked lists are inconsistent where             *)
(* "p->next->prev != p or p->prev->next != p, except when p->next or       *)
(* p->prev is NULL".                                                       *)
(***************************************************************************)
LinksAgree ==
  \A l \in Lists : \A p \in Chain(next, l[1]) :
    next[p] # Null /\ prev[p] # Null =>
      prev[next[p]] = p /\ next[prev[p]] = p

(***************************************************************************)
(* What the checker demands of the links (sfs-fsck.c:380-395).  It makes   *)
(* no exception for null links: the prev pointer of every later block of a *)
(* list leads back, and that of its first block is null.                   *)
(***************************************************************************)
PrevMirrorsNext ==
  \A l \in Lists :
    /\ l[1] # Null => prev[l[1]] = Null
    /\ \A b \in Chain(next, l[1]) : next[b] # Null => prev[next[b]] = b

LengthsAgree ==
  \A e \in Entry : Live(e) => Cardinality(FileChain(e)) = BlocksFor(dir[e].size)

NoneLost == Block = FreeChain \cup UNION {FileChain(e) : e \in Entry}

-----------------------------------------------------------------------------
(***************************************************************************)
(* sfs-disk.c, every caller.  Whatever a client does, also one that seeks  *)
(* out of the block currBlock names, or unmounts with files open and       *)
(* mounts or formats anew, and whenever the process dies, no two lists of  *)
(* the disk meet and every list holds blocks of its own type only.  (What  *)
(* is not promised is that such a client's transfers stay in its own file: *)
(* a stale currBlock may name a block of another.)                         *)
(***************************************************************************)
BlocksNeverShared == Separate /\ TagsAgree

(***************************************************************************)
(* sfs-fsck.c accepts a disk exactly when it is consistent as its own      *)
(* heading says and, beyond that, no prev pointer is null where it should  *)
(* lead back: a disk that is consistent by the heading is refused for that *)
(* alone, as when a file was just removed while there were free blocks.    *)
(* LengthsAgree and NoneLost hang on complaints the checker may have made  *)
(* already, so all the conditions are compared together.                   *)
(***************************************************************************)
Consistent == Separate /\ TagsAgree /\ LinksAgree /\ LengthsAgree /\ NoneLost

FsckIsExact == FsckAccepts <=> Consistent /\ PrevMirrorsNext

(***************************************************************************)
(* A careful client, whatever calls it interleaves and whenever it is      *)
(* restarted between two of them, leaks no block and leaves every file     *)
(* with exactly the blocks its size needs (sfs-fsck.c: "File length        *)
(* disagrees with number of blocks", "Blocks that are not on any list").   *)
(***************************************************************************)
SpaceAccounted == LengthsAgree /\ NoneLost

(***************************************************************************)
(* The invariant the copying loops of sfs_read and sfs_write rest on: for  *)
(* every descriptor, currBlock is the block of its own file that holds the *)
(* byte before the position (the first block at position 0), and the       *)
(* position is inside the file.                                            *)
(***************************************************************************)
CurrBlockTracksPos ==
  \A fd \in Fd : fds[fd] # NoDesc =>
    LET e == fds[fd].entry IN
    /\ Live(e)
    /\ fds[fd].pos <= dir[e].size
    /\ fds[fd].curr \in FileChain(e)
    /\ Hops(next, dir[e].first, fds[fd].curr) = BlockIndex(fds[fd].pos)

(***************************************************************************)
(* A table entry lives exactly as long as descriptors refer to it: its     *)
(* reference count is their number, over any interleaving of opens and     *)
(* closes, restarts and remounts (sfs_close, addOpenFileEntry).            *)
(***************************************************************************)
RefCountsExact ==
  \A e \in Entry :
    openFile[e].refCount =
      Cardinality({fd \in Fd : fds[fd] # NoDesc /\ fds[fd].entry = e})

(***************************************************************************)
(* No assertion of sfs-disk.c or of the accessors it calls fails for a     *)
(* careful client: positions stay inside files (:366, :432), copying finds *)
(* a file block wherever it needs one (:406, :494), allocation meets free  *)
(* blocks only (:138, :148, :158), removal none (:188), growth is by one   *)
(* block at least (:459) and ends below the limit of the size (:511).      *)
(***************************************************************************)
NeverAborts == status = "running"

(***************************************************************************)
(* Two entries of the directory never have the same name (sfs_open creates *)
(* only after a search of the whole directory; sfs_rename removes first).  *)
(***************************************************************************)
NamesUnique ==
  \A d, e \in Entry : d # e /\ Live(d) /\ Live(e) => dir[d].name # dir[e].name
=============================================================================
