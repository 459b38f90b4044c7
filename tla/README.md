# Verification of lab-computer-system

The repository is a collection of systems-programming projects in C: a file system
(`sfslab`), a shell with job control (`shelllab`), a memory allocator (`malloclab`), a
cache simulator and transposition kernels (`cachelab`), ropes (`cordlab`), an HTTP proxy
(`proxylab`), bit puzzles (`datalab`), and the solutions of two binary puzzles (`bomblab`,
`attacklab`).  This directory holds TLA+ models of the parts that have state worth
reasoning about, the TLC runs that check them on small instances, and proofs that TLAPS
checks for every instance.

Line numbers below are those of the files under `src/`.

## 1. Inventory

| Part | State | Operations | What is hard |
|---|---|---|---|
| File system (`sfs-disk.c`, `sfs-support.c`, `sfs-disk.h`) | disk image: super block with free list and directory, blocks with `next`/`prev`/type and data; memory: `diskBlocks`, `openFileTable`, `openFileDescTable` | format, mount, unmount, open, close, read, write, getpos, seek, remove, rename, list | the position and the cached block move separately; partial failures inside a call; assertions that kill the process over a shared mapping; calls of several threads, most of them unlocked |
| Consistency checker (`sfs-fsck.c`) | a byte map of the blocks | one pass over the free list, the directory entries, the remaining blocks | must accept exactly the consistent disks |
| Shell (`tsh.c`, `tsh_helper.c`) | job list, signal mask, processes and their groups | eval, builtins, the handlers of SIGCHLD, SIGINT, SIGTSTP | every interleaving of children, handlers and the main loop |
| Allocator (`mm.c`, `memlib.c`) | heap of tagged blocks, segregated free lists | malloc, free, realloc, calloc, extend, split, coalesce | tags of neighbours, lists and heap must agree after every call |
| Cache simulator (`csim.c`) | sets of lines with tags, dirty bits and positions in the order of last use | load, store | replacement order, uninitialized lines, dirty-byte accounting |
| Ropes (`cord.c`) | immutable trees | new, join, sub, length, charat, tostring | index arithmetic at the seams; leaves that no NUL ends |
| Proxy (`proxy.c`) | one thread and two descriptors per request, an `int` handed to each thread | accept, parse, forward, relay | descriptors shared by all threads; every call may fail; peers that end or stall anywhere |
| Robust I/O (`csapp.c` of proxylab) | `rio_t` buffer | rio_read, rio_readlineb, rio_readnb | short reads, buffer boundaries |
| Bit puzzles (`bits.c`) | none | pure functions | overflow |
| Transposition (`trans.c`) | two arrays | pure loops | block edges |

How parts interact: the file system's tester (`sfs-tester.c`) calls the API from one or
several threads; the checker reads the image the file system leaves; the shell and its
children interact through signals and `waitpid`; the allocator is called through
`malloc`/`free` and grows its heap with `mem_sbrk`; the proxy's threads share
the process's descriptors, and `main` hands each of them its own through the heap.  The projects do not call one another. The file system has one
global mutex, `sfs_mutexes`, held in `sfs_read` and `sfs_write` only; open, close, remove,
rename, seek, list, format, mount and unmount touch the same tables and lists without it.

### What makes each part correct

* **File system.** No block is on two lists; a file's chain is as long as its size says;
  no block is lost; `currBlock` names the block of the position; a table entry lives as
  long as its descriptors; the whole behaves like a store of named byte sequences.
* **Checker.** Accepts a disk if and only if it is consistent and every `prev` is set.
* **Shell.** At most one foreground job; a job is in the list exactly while its processes
  exist and are not reaped; the shell returns to its prompt when the foreground job stops
  or ends; signals are unblocked at the prompt.
* **Allocator.** Blocks tile the heap; payloads never overlap; every free block is on
  exactly the list of its size; no two free blocks are neighbours.
* **Cache simulator.** Evicts the line used longest ago; counts dirty bytes exactly.
* **Its threads.** Where the mutex or the division of the work protects them, calls look
  as if each happened at once; a listing misses no file that stays.
* **Ropes.** `charat`, `sub` and `length` agree with the strings they stand for; `is_cord`
  refuses exactly the cords in which a leaf has no NUL at its end.
* **Proxy.** A client's descriptor has one holder at any time; what a server is sent is the
  beginning of the request, what a client is sent is the reply in order and, if nothing
  failed, all of it; every accepted connection is closed.

## 2. Plan

| Step | Modules | State |
|---|---|---|
| 1 | `SfsDisk`, `Sfs`: the file system, one call per action | done |
| 2 | `SfsFsck`: the checker, and consistency stated declaratively | done |
| 3 | `FileStore`, `SfsRefines`: the abstract store, and that `Sfs` implements it | done |
| 4 | `SfsProofs`: types, separation of block lists, reference counts, the checker | done, proved |
| 5 | `Tsh`, `TshProofs`: shell, children, signals, handlers, job list; every safety property of it | done, proved |
| 6 | `Mm`: the allocator with its boundary tags and lists | done |
| 7 | `Csim`, `LruCache`: the simulator and the recency order it stands for | done |
| 8 | `CsimProofs`: invariants and the refinement | done, proved |
| 9 | `SfsThreads`: calls of several threads at the grain of the loads and stores of shared state; that they implement the calls of `Sfs`; listing while the directory changes | done, model-checked |
| 9a | `SfsThreadsProofs`: a listing misses nothing that stays, for any threads | done, proved |
| 10 | `Rio`, `Proxy`: descriptors, threads, streams and failures of the proxy | done |
| 11 | `Cord`: ropes against the strings they stand for | done |
| 11a | `CordProofs`: that, for every string, length and shape of tree | done, proved |
| 12 | `ProxyProofs`: every safety property of the proxy, for any number of clients, threads and descriptors and any streams | done, proved |
| 13 | `MmProofs`: types, tiling, lists, what calls leave alone, `mm_checkheap` | done, proved |
| 14 | `SfsCarefulProofs`: space, positions, names and assertions for careful clients | done, proved |
| 14a | `SfsCarefulProofs`, second part: `Sfs` implements `FileStore` for careful clients | done, proved |
| 15 | the transposition kernels (every element is written once, at its place); the payload ranges by which `mdriver.c` judges an allocator | later |

Composition: `Sfs` extends `SfsDisk`; `SfsFsck` and `SfsRefines` extend `Sfs`;
`SfsRefines` instantiates `FileStore`; `SfsThreads` extends `SfsFsck` for the operators of
the calls and instantiates `Sfs` for what they must look like; `Proxy` extends `Rio`;
`Csim` instantiates `LruCache`.  No module declares a RECURSIVE operator, so that
theorems can be about all of them: walks along pointers are least closed sets (`Chain`), families of
paths (`Paths`) or recursive functions (`ListOf`, `Walk`), and what `cord.c` does by
recursion is a recursive function on the set of cords.

## 3. The models

### 3.1 File system: `SfsDisk`, `Sfs`

`SfsDisk` has the block lists.  `next`, `prev` and `btype` are the fields of
`sfs_block_hdr_t` of every block but the super block; `freelist` and `dir` are the super
block.  `allocateBlocks` and `freeBlocks` are operators from the pointers before to the
pointers after (`NextAfterAllocate`, `NextAfterFree`, ...), with what they leave alone:
pointers inside an allocated run keep their `prev`, and the old head of the free list does
not learn of its new predecessor (`sfs-disk.c:194`).

`Sfs` has the API.  `dir[e]` is a directory entry (`first`, `size`, `name`), `openFile[e]`
the entry of `openFileTable` (`refCount`; `mapped`: its `diskFile` pointer leads into the
current mapping), `fds[fd]` the entry of `openFileDescTable` (`entry`, `pos`, `curr` for
`currBlock`), `mounted` is `diskBlocks # NULL`, `ret` what the call returned.  `data`
holds the bytes.  Each call is one action: `Open` (with `CreateFile`), `Close`, `Read`,
`Write`, `GetPos`, `Seek`, `Remove`, `Rename`, `Mount`, `Unmount`, `Format`; `sfs_list`,
which only reads, is in `SfsThreads`.  An action has the error returns of the code in the order of
the code, and the changes the code has made before it fails stay.

An assertion that fails leaves `status = "aborted"` and the disk as it is at that point,
because the image is a shared mapping; `Restart` is a new process on that image.  These
assertions have an abort: the types in `allocateBlocks` and `accessFreeBlock`
(`sfs-disk.c:138`, `:148`, `:158`: `AllocationAborts`, in `CreateAborts` and
`GrowthAborts`), the type in `freeBlocks` (`:188`: `FreeAborts`, `FreeFileAborts`), the end
of the chain and the type of `currBlock` in the copying loops (`ReadAborts`,
`WriteAborts`), and `endPos < SFS_MAX_FILE_SIZE` (`:511`: `SizeFits`), which comes after
the bytes were copied and the blocks attached.
`Restart` is also possible in any other state: the process may be killed. Inside a call it
is not, so a torn call is in the model where the code itself dies, and nowhere else.

`Spec` allows any client.  `sfs_format` refuses only while a disk is mounted
(`sfs-support.c:112`): after an unmount with open files it formats under the descriptors
that are left, and `Format` does so too.  `CarefulSpec` is for a client that keeps clear of four defects
which otherwise break everything else:

1. a seek that leaves the block `currBlock` names (`sfs-disk.c:563`, run
   `sfs_seek_length`);
2. a rename of a file to its own name, which removes it (`sfs-disk.c:650`);
3. a rename to the name of an open file: `sfs_remove` refuses, `sfs_rename` ignores that,
   and two entries have the name (`sfs-disk.c:650`; `sfs-api.h:147` has the file
   replaced);
4. an unmount with open files: the check is commented out (`sfs-support.c:234`;
   `sfs-api.h:63` has the call fail), and the open-file table points into memory that is
   gone.

The check `fd > OPEN_FILE_LIMIT` (`sfs-disk.c:327`, `:347`, `:418`) admits one descriptor
past the table.  Clients here use descriptors of the table only.

### 3.2 Checker: `SfsFsck`

`FsckAccepts` follows `main`: the free list first, then the super block, the directory
entries, the blocks no list has, each with the marks the passes before it left in the byte
map.  What a consistent disk is, is said without an order: no list runs into another or
itself (`Separate`), blocks have the type of their list (`TagsAgree`), `prev` mirrors
`next` where neither is null (`LinksAgree`, with the exception that `sfs-fsck.c:9-10`
makes), files are as long as their size demands (`LengthsAgree`), every block is on a list
(`NoneLost`).  That is `Consistent`, after the heading of `sfs-fsck.c`.  The code makes no
such exception (`:380-395`), so it asks for one thing more: that no `prev` is null but that
of a first block (`PrevMirrorsNext`).  `FsckIsExact` compares the verdict with the two
together on every reachable disk, corrupted ones included.  `EntryScans` numbers the walks in the order they are made, that
of the free list first; each begins with the marks the one before it left.

### 3.3 Abstract store: `FileStore`, `SfsRefines`

`FileStore` is `sfs-api.h` without blocks: `files` maps a name to a sequence of bytes,
`open` a descriptor to a name and a position, and space is a number of units that files
use (`UnitsUsed`), in no place.  `SfsRefines` reads the contents of a file off its chain
(`Spine` numbers the blocks, `ContentsIn` takes a byte from each place) and gives `ret` as
the result, so that the refinement compares what every call returns as well as what it
does.

### 3.4 Calls of several threads: `SfsThreads`

`th[t]` is the call thread `t` is in, with the place it has come to and its locals; a step
is what lies between two accesses to something another thread can change.  `mutex` is
`sfs_mutexes`, held from `Lock` to `Unlock` by reads and writes and by nothing else.
Transfers go chunk by chunk (`Copy`, `Hop`), an allocation is a look at the free list and
the change of it (`Allocate`, `Take`), a search of the directory is one entry at a time,
`createFile` stores the block and the size before the name, `sfs_close` clears the
descriptor before the table entry, `sfs_rename` searches three times.  One merging:
`Publish` stores block, position and size together, since the only call that looks at
another thread's descriptor without the mutex, `sfs_getpos`, loads the position alone.

Which threads make which calls is `role`, chosen at the start from `Roles`: transfers and
`sfs_getpos` in both threads, on descriptors they share; one thread that opens, closes,
removes, writes and seeks, on a descriptor of its own, while the other reads; one that
opens, closes, removes and renames while the other lists.  Two threads that both change the
directory are another matter: run `sfs_race`, and section 6.

`before` is a history variable, the state when the call that is changing it began.
`CallsAreAtomic` reads the variables of `Sfs` through it and says that every step is a
stutter or one whole call (`FileCall`) with the result that call has.  It does not claim
more than those roles show.  `sfs_list` is no `FileCall`; what it reports is the subject of
`ListingComplete`.  A seek on a descriptor that another thread uses, a search while a
rename of another thread is between `sfs-disk.c:650` and `:655`, and two threads in the
directory are not atomic in the code, and no role has them.  `looping`,
`reported` and `steady` are history too, kept for each thread: the entries reported in its
loop over `sfs_list`, and those that held one file all along.

### 3.5 Shell: `Tsh`

`jobs`, `nextjid` are the job list; `mask` and `pending` the shell's signals, one bit
each, so that SIGCHLDs coalesce; `stack` the frames of the handlers that run; `pc` and
`cmd` the main loop: `prompt`, `forked` (between `fork` and `add_job`), `test` (before
`fg_job()` in the loop), `suspended` (in `sigsuspend`).  `proc` is the kernel's view of a
child: `life`, how far it has come between `fork` and `execve` (`phase`), the mask it
inherited, the signals pending for it, and whether `waitpid` has a change of it to report.

The main loop, the innermost handler and every child take steps in any order, but a
deliverable signal is delivered before the shell's next step (`Delivered`).  A handler
enters with everything blocked, restores the mask it found, and returns in a step of its
own: between the two another handler may nest.  `sigsuspend` is one step that replaces the
mask; delivery puts the old one into the frame.  `Reap` is one iteration of the `waitpid`
loop, so a child may change state between two iterations.

`Next` is any user and any environment: failing forks, a full job list, unknown jobs,
children continued by somebody else.  `CarefulNext` names existing jobs and leaves room in
the list; it also leaves out two things that no user decides, forks that fail and children
that somebody else continues (`ForeignContinue`, section 6).

### 3.6 Allocator: `Mm`

An address is a number of 16-byte units.  `heap.hdr`, `heap.ftr` are header and footer
words, `nxt`, `prv` the links in a free block, `head` the lists, `brk` the epilogue.
Words that belong to the client are `NoHeader` or `Junk`, values no function may act on;
if the code read one as a header or followed one as a link, an invariant would be violated
or the evaluation would fail.  `live[b]` is a history variable: what the client asked for
when it got block `b`.  Every call is one action; a call of a function is an operator from
heap to heap (`WriteBlock`, `Eliminate`, `Insert`, `Coalesce`, `ExtendHeap`, `Place`,
`FreeBlock`).  `mem_sbrk` may refuse in any call, in the two places of `mm_init` too.
`AdjustedSize` rounds in arithmetic modulo `Modulus`, as `size_t` does, and `Calloc` has
the code's test for a product that wraps: it asks `malloc` for the product modulo
`Modulus`, and `live` records the product itself (`MallocFor`), so that a block for a
wrapped product would be too small for what the client asked for.

`CheckHeap` is that `mm_checkheap` returns true.  It begins with `find_prev(heap_start)`
(`mm.c:782`), whose `dbg_requires` (`:458`) wants a block there; a heap without one, which
is what `mm_init` leaves when its `extend_heap` fails, stops the debug build at that line.
`CheckHeapPasses` therefore says that the check passes exactly when the heap has been
extended.  The other assertions of a debug build are not steps.

### 3.7 Proxy: `Rio`, `Proxy`

`Rio` has what `read(2)` may return (any part of what the peer has sent, an end, an error)
and how much of the buffer one pass of `rio_readlineb` or `rio_readnb` takes.  A byte is
the stream it is on and its place there, so one that is lost, doubled or out of order
shows.  A stream ends in order, is reset, or stays open.

`Proxy` has `main` and the threads; a step is one call of the kernel and what is computed
up to the next.  `owner` says which socket a descriptor is, `cells` are the `int`s `main`
allocates, `th[t]` is the thread's place with `client_fd`, `socket_fd`, its `rio_t` buffer
and its lines, `nul[t]` the index in `body` at which the thread stored its last NUL
(`proxy.c:157`), which for a full chunk is one past the array and after a failed read one
before it.  `Request(head)` is what `snprintf` leaves in `request[]`: the client's lines, the
User-Agent line behind them (`Agent`), cut at `RequestSize`.  `Send` may send any part of
it; the rest, which the code never sends, is counted in `unsent`.  `Addresses` says how many
addresses `getaddrinfo` may give for the server of a client; they are tried in turn.
`accept`, `pthread_create`, `getaddrinfo`, `socket`, `connect`, `send` and
`rio_writen` may fail.  The code does not look at `accept`'s result, so a thread may serve
descriptor -1 (`Nobody`); -1 of a read in a `size_t` passes for a length, and the bytes
then used are `Stale`.  What `http_parser` makes of a line is left open: any line may be a
GET request or be refused.

### 3.8 Ropes: `Cord`

A cord never changes, so it is a value: `Null`, a leaf with the bytes of its memory, or a
node.  The actions build cords from strings and from the cords at hand and forget some.
`CordsOf[n]` are the cords of `n` characters that there can be, `Cord` those up to the
largest `size_t`; `is_cord`, `cord_charat` and `cord_sub` are recursive functions on them.
An assertion that fails has a result that no cord has: `Null` for a character, no cord at
all for a substring.  `strncpy` ends a leaf of `cord_sub` with no NUL, so the byte after it
is any of `Junk` and `CordSub` has several results; `StrLen` reads on to a NUL that is
there by chance.  `Text(R)` is the string a cord stands for, the reference that the
properties compare the observers with; it is no model of `cord_tostring`, which has none
(section 6).

### 3.9 Cache simulator: `Csim`, `LruCache`

`cache[s][i]` is a line, `filled[s]` is `num_filled`.  `malloc` leaves `tag` and
`lru_order` of a line unset: they start as any value of `Garbage`.  One action per line of
the trace: `Access` (a hit, a miss into an empty line, or an eviction, each with the
search and the shift of `lru_order`), `EndOfTrace` (the summary), `InvalidInstruction`
(`exit(1)`).  `LruCache` is what the simulator promises: in every set the sequence of tags
by last use, the set of dirty blocks, and the counters.

## 4. The runs

| Run | Specification, instance | Distinct states | What it shows |
|---|---|---|---|
| `sfs_careful` | `CarefulSpec`; 3 blocks of 2 bytes, 2 entries, 2 descriptors, transfers up to 3 bytes, files up to 5 | @sfs_careful@ | No block leaks or is lost (`SpaceAccounted`); `currBlock` is the block of the position after every transfer, also of two descriptors of one file (`CurrBlockTracksPos`); no assertion fails (`NeverAborts`); names are unique |
| `sfs_any` | `Spec`, any client, also one that formats or mounts under open descriptors, and a name that is too long; 3 blocks of 1 byte, files up to 3 | @sfs_any@ | Whatever a client does, lists of blocks never meet (`BlocksNeverShared`), the checker is exact (`FsckIsExact`), reference counts are (`RefCountsExact`) |
| `sfs_store` | `CarefulSpec`; 2 blocks, 2 byte values | @sfs_store@ | The file system is the abstract store (`ImplementsStore`) |
| `sfs_threads` | `ThreadSpec`; 2 threads in three roles, 3 blocks of 1 byte | @sfs_threads@ | Calls of threads in these roles look atomic (`CallsAreAtomic`), a listing misses nothing that stays (`ListingComplete`) and ends (`ListingEnds`), the mutex comes free (`MutexReleased`) |
| `tsh_any` | `Spec`; 2 children, 2 jobs, Ctrl-C and Ctrl-Z | @tsh_any@ | One foreground job, waited for; `nextjid` exact; the shell aborts for two reasons only (`AbortCauses`) |
| `tsh_careful` | `FairSpec`; 2 children, 2 jobs, Ctrl-Z | @tsh_careful@ | Each child is listed exactly from `add_job` to `waitpid` (`JobListExact`), job states follow processes, masks are restored through nested handlers, nothing aborts, the prompt comes back, every child is reaped |
| `mm` | 14 units of heap, grown by 3 or more | @mm@ | Tiling, tags and lists after every call, payloads fit and stay, `mm_checkheap` passes on every heap but that of a half-failed `mm_init` |
| `csim` | 2 sets of 3 lines, 6 addresses, 7 accesses | @csim@ | The order is an order, no block is twice in a set, and the simulator implements `LruCache` |
| `proxy` | 2 clients, 2 threads, 4 descriptors, up to 2 addresses | @proxy@ | Descriptors of clients have one holder; `open_clientfd` leaves one server socket per connection at most, which the relay never closes; what is sent of a request is its beginning; replies go through in order and, without an error, whole; every connection is closed |
| `cord` | cords of at most 4 characters, 2 at a time | @cord@ | Lengths, characters and substrings agree with the string; `is_cord` refuses exactly the cords with an unterminated leaf |

Two runs end in a violation: each has one thing a comment or a test of the repository says
and the code does not do.

| Run | What is said | What the code does |
|---|---|---|
| `sfs_seek_length` | `sfs-fsck.c:8`: a length that disagrees with the blocks is an inconsistency | `sfs_seek` moves the position and not `currBlock`: a descriptor in the first block of a file of two seeks forward into the second and writes past the end; the write copies into the wrong blocks and never attaches the one it allocated |
| `sfs_race` | `C01-create.lua:57-63`: after five threads created files, all of them are in the directory | two calls of `sfs_open` find the same empty entry; both succeed, and one file is gone |

`mm` passes although `extend_heap` loses a list (section 6): the lost blocks stay
consistent with their neighbours; they are merged or stay unused, and no call touches a
block that is in use.

The type invariants of `Sfs`, `Tsh` and `Csim` are proved (section 5), so no run repeats
them.

### Bounds, and why they are enough

* **Sfs.** `NBlocks = 4` is the super block and three blocks: enough for a file of two
  blocks and one of one, for two of one and a free one, and for a full disk; files of three
  blocks are in `sfs_threads` and `sfs_seek_length`.  `BlockDataSize
  = 2` and `MaxLen = 3` let one transfer start inside a block, end inside one, end at a
  boundary and cross a whole block.  Two descriptors may share a file or not; with two
  entries the directory can be full.  `MaxFileSize = 5` lies inside a block, as
  `UINT32_MAX` does for blocks of 500 bytes, and is reached before the disk is full, so that
  EFBIG comes before ENOSPC; the assertion of `sfs-disk.c:511` is one byte away.  `sfs_any`
  has blocks of one byte and `MaxFileSize = 3`, the end of a block: a write that would end at
  4 has EFBIG, one that ends at 3 meets `:511` and aborts.  `sfs_store` has two
  byte values to tell right bytes from wrong ones, and one block less.
* **SfsThreads.** Two threads, because a race needs no third; two files of one block on
  a disk with one free block, so that a transfer crosses a block, a write takes the last
  block or finds none, and a removed file's block comes back as another's.  `MaxLen = 2`
  is two blocks of one byte; `MaxFileSize = 4`, more than the disk holds, keeps `:511` out
  of a run that is about interleavings.  The two descriptors are on one file or on two.
  With two entries and two names a file can go and come back in another entry during a
  listing.
  `sfs_race` has room for both files that the threads open, so that nothing but the race
  can lose one.
* **Tsh.** Two children are enough for a foreground and a background job, for two children
  in one SIGCHLD and for a list that is full (`MaxJobs = 2`) with the freed slot before or
  after the used one.  A pid is reused once reaped.  Nesting of handlers needs no bound of
  its own: a handler that has restored its mask can be interrupted by each blocked signal,
  and the keys the user types bound the depth. `tsh_careful` has Ctrl-Z only, because with
  two kinds of keys liveness takes more than the time of a check.
* **Mm.** A heap of 14 units has up to seven blocks; `Chunk = 3` makes `extend_heap`
  happen several times; `ListCount = 4` has classes up to 1, 2 and 4 units and the
  open-ended last one; requests of 1, 33 and 48 bytes are blocks of 2, 3 and 4 units, so
  that splitting leaves a block, leaves nothing, or would leave a unit too small.
  `Modulus = 256` makes `calloc(33, 48)` wrap to 48, the case its test is for.
  `SearchLimit = 2` is not exceeded by lists this short.
* **Csim.** Three lines make an order in which the middle one moves; six addresses give
  four tags to one set, so evictions happen, and two offsets in one block; seven accesses
  fill a set, evict twice and reuse.  `Garbage = {0}` is the worst value, a valid tag and
  the smallest age; the proofs hold for any.
* **Proxy.** Two connections with a client and a server socket each need all of the four
  descriptors; a socket that was kept leaves too few, so EMFILE happens in `accept` and in
  `socket`.  A buffer of 2 bytes and lines of `MaxLine = 3` (2 and the NUL) make a line
  come in pieces, a piece hold parts of two lines, a chunk of 3 bytes end in the midst of
  a buffer and a reply of 4 need two chunks.  The first request is 5 bytes in lines of 1,
  2 and 2 without a blank line, cut by `RequestSize = 4`, or one byte, or is reset; the second
  is complete while its stream stays open, and its server is reset.  With the User-Agent
  line a request is of 2 bytes or more, so `send` can take a part.  The first server has
  no address or two, so that the second is tried after the first failed, with a socket that
  must be closed between; the second server has one.  `NThreads = 2` lets `pthread_create`
  fail too.
* **Cord.** Leaves of two characters joined to four reach every branch of `cord_sub` and
  the length limit `SizeMax = 4`; `MaxHeld = 2` is what `cord_join` needs, and parts of
  forgotten cords live on in others.  `Junk` has the NUL, the lucky case, and a character.

`HeapUnits`, `TraceLength`, `MaxLen`, `NBlocks`, `SizeMax` and `MaxHeld` are the only
bounds on counters, and all are CONSTANTS that guards name.

Deadlock is checked everywhere except in `csim`, where the program ends, and in `proxy`,
where the last state is a server that waits for clients.  Four of the `sfs_*` runs use
`VIEW View`, which leaves `ret` out: no action reads it.
`ImplementsStore` and `CallsAreAtomic` are step properties and `ret'` is a part of every
step TLC generates, so results are compared there as well.  `tsh_any` uses symmetry in the
children and `sfs_any` symmetry in the names, which calls only compare; the runs with
liveness do without.

### Fairness

* `ThreadSpec` has weak fairness of `Step(t)` for every thread: the kernel runs a thread
  that can run.  No thread has to begin a call, but for one: `sfs-api.h` has a client call
  `sfs_list` until it returns nonzero, so a thread in such a loop goes on.  Who gets a free
  mutex next is left open, and that a thread gets it is not claimed: `pthread_mutex_lock`
  does not queue.
* `Spec` of `Proxy` has weak fairness of `Main` and of `ThreadStep(t)`, again the kernel's
  scheduling.  Peers owe nothing: `AcceptedEnds` is about clients that end the stream or
  the request, and servers that end the reply.  A write to a client is assumed to be taken
  or refused in the end.
* `FairSpec` of `Tsh` has weak fairness of `ShellStep`: the kernel runs the shell while it
  can run.  It covers what the shell does without a command.  Children are not fair: a
  program may run for ever.  `<>[][~Typing]` says the user does not type Ctrl-Z for ever:
  each key interrupts the main loop, and a user faster than the handlers would keep it
  from running.

## 5. What is proved

All proofs are for every value of the constants that the assumptions admit, and for any
client or trace.

**File system** (`SfsProofs`).  Assumptions: `GeometryAssumption` (one
block, one byte per block and one entry at least), `ClientAssumption` and
`NoDescAssumption` (what the sets of names, bytes and lengths are).  The inductive
invariant is

    IInv == TypeOK /\ ListsOK /\ RefCountsExact

`BlocksNeverShared`, the property, says that no block is on two lists.  It follows from
`ListsOK`, but it is not inductive alone: the calls need the types of the tables, and
`sfs_close` that a count it decreases is not 0.  Descriptors may outlive the mapping and
the disk they were opened on (an unmount, then `sfs_mount` or `sfs_format`); the proof
asks no more of a descriptor's `currBlock` than that it is a block.  `ListsOK` says it in the form in which
calls preserve it: `next` is injective, nothing points to the first block of a file or of
the free list, these first blocks differ, and a pointer leads to a block of the same type;
`ListInv`, from which it comes, also has the chain that a call has allocated and not yet
attached.  From it the proof goes through four facts: a chain is the least closed set that
holds its first block (`ChainClosed`, `ChainLeast`); each member but the first has a
predecessor (`ChainPredecessor`); a run of blocks whose first block nothing points to has
a block that leads out of it, by counting (`RunHasLast`); and it is the only one
(`RunLastUnique`).  `AllocateKeepsLists`, `FreeKeepsLists` and `AttachKeepsLists` state
what the list operations do to any well-formed lists; the proof for each API call is then
about its tables. That lists stay well formed does not need a careful client: it holds
across the defects of section 3.1, which lose and leak blocks but never share one.

The checker's theorem needs no invariant but the types: `CheckerExact` is about any disk
image, also one that no calls lead to.  A walk is a recursive function; that it exists is
`RecursionExists` (else there were a least number up to which it does not, `LeastNumber`),
which is how the recursion is reasoned about.  `Walked` is what holds after any number of
steps of a walk: the blocks it has marked are on the chain and each but the first has its
predecessor among them.  A walk stops within `NBlocks` steps (`WalkStops`), and one that
stops at a null pointer has marked the whole chain (`WalkFinds`).  If all walks end so, the
chains are disjoint (`MarksAfter`, `CompleteWalksApart`), and `prev` leading back along each
makes `next` injective: so what is accepted is `Separate`.  The other way round, a chain of
a `Separate` disk meets no earlier mark and not itself (`WalkCompletes`).

Theorems: `Invariant`, `TypeCorrect`, `ListsStayApart`, `CountsStayExact`,
`CheckerIsExact`.

**File system, careful client** (`SfsCarefulProofs`, which extends `SfsProofs`).  The same
assumptions and `LimitAssumption`, for `CarefulSpec`: `MaxFileSize` is a block at least and
no whole number of blocks.  That is so of `UINT32_MAX` and blocks of 500 bytes, and without
it `CarefulClientNeverAborts` is false: a careful client may then write up to a size that
passes `roundUp` and fails `sfs-disk.c:511`.  The inductive invariant is

    CInv == /\ IInv /\ CarefulDisk(next, prev, freelist, dir)
            /\ \A fd \in Fd : fds[fd] # NoDesc => Follows(next, dir, fds[fd])
            /\ MappedIn(openFile, mounted) /\ status = "running"

`CarefulDisk` is that files are as long as their sizes say, no block is lost, names are
unique, the first block of every list has no `prev`, and the blocks of a file hold no more
than `MaxFileSize` bytes (`SizesHeld`).  The last two are no properties of interest and
cannot be left out: `freeBlocks` cuts the list that such a `prev` leads to
(`sfs-disk.c:178-194`), and a write that ends inside the last block is not compared with
`SFS_MAX_FILE_SIZE` before `:511`.  `Follows` puts `currBlock` into the chain of its file, as many
hops from its first block as the position demands; `MappedIn` says that an open file's
`diskFile` leads into the mapping that is there.  TLC had checked `CInv` on the instance
of `sfs_careful` before it was proved.

The proof counts.  Each hop from the first block of a list leaves one block behind
(`ChainStep`), so a block has a path of one length (`PathSizes`, `PathExists`) and a
chain of `n` blocks is left after `n` hops; `AllocateChains`, `FreeChains` and
`AttachChains` say what the chains are after each list operation, for every list it did
not touch too.  `HopsForIndex` and `AddlBlocksIndex` are the arithmetic of
`sfs_write` and `sfs_read`: how many blocks there are to go and to add.  With them
`WriteFits` (a write inside the file finds every block), `WriteGrows` (a chain that grows
is as long as the new size demands) and `WriteReachesItsEnd` (`currBlock` ends at the
position).  No assertion fails, because each of them is one of these facts: blocks on the
free list are of type free (`:138`, `:148`, `:158`) and those of a file are not (`:188`), by
`ListsOK`; the copying loops meet blocks of the file as far as they go; and a stored size
is below the limit (`:511`), by `SizesHeld` and `LimitAssumption`.

Theorems: `SpaceStaysAccounted`, `CurrBlockStaysInStep`, `NamesStayUnique`,
`CarefulClientNeverAborts`; and `AllocateChains`, about lists alone.

**File system against the abstract store** (`SfsCarefulProofs`, second part).  Assumptions:
`GeometryAssumption`, `ClientAssumption`, `NoDescAssumption`, `LimitAssumption` and
`MarkerAssumption` (`Absent` is no sequence of bytes, `NoDesc` no descriptor).  The client is careful, as
above; one that is not loses bytes.  The invariant is `CInv` and that
files have names a client passed:

    RInv == CInv /\ NamesGiven

Three things stand between blocks and bytes.

*Bytes.*  A file is a list of blocks as long as its size demands (`FileIn`), so `Spine`
reaches each of its bytes, and no two bytes have one place (`PlacesDiffer`).
`BytePlace` and `TransferAlongFile` say that what `sfs_read` and `sfs_write` reach after
`h` hops from `currBlock` is byte `pos + k` of the file, which is where `CurrBlockTracksPos`
is needed.  `CopiedBytes` then is that a write changes those bytes and no other.

*Other files.*  A call on one file leaves the bytes and the links of the others
(`Intact`, `Keeps`, `LinksKept`), because no two lists meet; `OtherFiles` makes of this
that their contents are the same.

*Space.*  Each block that is off the free list is one unit of one file: `UnitsOfDisk` and
`SpaceOfDisk` are the bijection, by file and number along the spine.  So `CanAllocate` and
`Free` agree about every request (`WriteRoom`), and `createFile` fails when the store is
full or has as many files as the directory holds (`PresentCount`).

`FilesBar` and `OpenBar` say what the store sees of a state; each call has a lemma that it
is the call of the store, or refuses as that does (`OpenImplements`, ...,
`WriteImplements`).  `StepRInv` and `StepImplements` put them together.

Theorems: `CarefulClientSeesStore`; and `SpaceOfDisk`, about any well-formed disk.

**File system, listings of any threads** (`SfsThreadsProofs`).  Assumption:
`GeometryAssumption`.  Which thread makes which calls, and how many list at a time, is
open: the theorem does not need the roles of the run.  The inductive invariant is

    LInv == Shapes /\ CallsFit /\ SteadyLive /\ Behind

`Behind` is why a bare index is enough of a cookie: the entries below the place a listing
has come to, be it inside a call or between two (`Place`), were reported if they were there
all along, because the place passes an entry only when it reports it or finds it unused,
and one that was there all along is never unused (`SteadyLive`).  For that no other call
may clear the first block of an entry in passing: `createFile` enters a block that
`allocateBlocks` found (`CallsFit`).  All steps but those of `sfs_list` have this in common
(`Otherwise`); `OtherwiseKeeps` is the proof for them.

Theorem: `ListingMissesNothing`.

**Allocator** (`MmProofs`).  Assumption: `MmAssumption`.  `PayloadsAlwaysFit` has one
hypothesis more, `RoundsUp`: a request and what `malloc` adds to it do not wrap.
`malloc` does not test that (`mm.c:964`), so without it the theorem is false; everything
else holds for requests that wrap as well.  The inductive invariant `IInv` is `InvOf(heap,
live)`: there is no heap yet, or the heap is `Sound`, and `live` names the taken blocks.

    Sound(h) == h \in Heap /\ h.ready /\ Tidy(h) /\ Lists(h, FreeBlocks(h))
    Tidy(h)  == Tiled(h) /\ TagsAgree(h) /\ NoFreeNeighbours(h) /\ Prologue(h)

`Lists(h, S)` is the property `Linked` for any set `S` of blocks, since in the midst of
a call the lists are those of all free blocks but one: links and heads stay in `S`, keep
to one class and lead back.  `StepsExist` and `StepsStay` are what the proofs know of
walks (`ListOf` and `Walk` are recursive functions): they go by the least number at which
something would fail.

A call is a chain of writes to tags, and the invariant does not hold between them.
`Relaid` says that a heap differs from another only in how one stretch of it is divided
into blocks, and `Part` that a stretch is divided; split, merge and extend are each an
instance.  `EliminateFacts` and `InsertFacts` are the lists with one block less and one
more, `CoalesceFacts` joins both.  `extend_heap` merges a block that no list has; it
comes out as `free` of a block of the heap that has grown with that block marked taken.
Section 6 has the list it may drop: those blocks then lead to one another without a head,
which `ListsSound` admits, as the code never looks for them.

`LiveBlocksAreLeftAlone` is an action property: no call moves, shrinks or changes a block
that is in use, other than the one it was asked to free or to resize.

`PayloadsAlwaysFit` is where `calloc`'s test for a wrapped product is needed: `live` has the
product itself, and `UnwrappedProduct` is that a product which passes the test did not
wrap.  `CheckHeapAlwaysPasses` is an equivalence: on a `Sound` heap with a block every check
of `mm_checkheap` passes, the assertion of its `find_prev` included (`FirstBlock`,
`SoundHeapPasses`); on a heap with none, which a half-failed `mm_init` leaves, that
assertion fails and nothing else is claimed.

Theorems: `TypeCorrect`, `HeapStaysTiled`, `ListsStaySound`, `PayloadsAlwaysFit`,
`CheckHeapAlwaysPasses`, `LiveBlocksAreLeftAlone`.

**Cache simulator** (`CsimProofs`).  Assumption: `CsimAssumption`, in
which `2 ^ n \in Nat \ {0}` is a fact of arithmetic about the three powers used that the
provers cannot derive.  It wants one line at least: with `-E 0` an eviction indexes an
array without elements.  The inductive invariant is

    IInv == TypeOK /\ LruIsAnOrder /\ OneLinePerBlock /\ EmptyIsClean

`EmptyIsClean` (no dirty bit on an empty line) is needed for the count of dirty bytes.
`ImplementsLru` proves that every step of `Csim` is a step of `LruCache`.  `Recency` sorts
the filled lines by `lru_order`; `RecencyMoves` shows that shifting the ages above a
line's own is moving its tag to the end (a hit, and an eviction, where the line is the
first), `RecencyGrows` that a fill appends.  The dirty lines map one to one to the dirty
blocks, because no block is in two lines (`DirtyCount`), so the byte counts agree.

Theorems: `TypeCorrect`, `LruStaysAnOrder`, `BlocksStayUnique`, `ImplementsLru`.

**Shell** (`TshProofs`).  Assumption: `TshAssumption` (one slot in the
job list at least; the id of an unused slot is no child's; the keys are Ctrl-C and
Ctrl-Z).  The number of children is not even assumed finite.  For any user the inductive
invariant is

    IInv == TypeOK /\ OneForeground /\ NextJidExact /\ ReportsReal

`ReportsReal` (`waitpid` reports only processes that are there) makes sure that each
iteration of the loop of `sigchld_handler` meets one of its three cases.  For a careful
user it is `IInv` with

    CInv == ForkedApart /\ JobsLinked /\ StatesFit /\ MasksOK /\ pc # "aborted"

None of the four properties is inductive alone.  `JobListExact` needs that between `fork`
and `add_job` everything is blocked and no handler runs (`ForkedApart`), so the new child
cannot be reaped before it is listed and the slot stays free; and that no two jobs have
one process (`JobsLinked`), so `delete_job` removes the right one.  `JobStatesTrack`
speaks of reported changes only; while a change is unreported, `StatesFit` says which way
job and process may differ: a job in ST has a process that is stopped or dead, and a
stopped process whose job is not in ST has a report to come.  `MaskRestored` speaks of the
moments without a handler; `FramesReturn` carries it through handlers: the frame at the
bottom of the stack returns to the mask of the place in the main loop, and the frames
above it do not matter, however many there are.  `NeverAborts` follows, as each assertion
is implied by the invariant where it stands.

`AbortsHaveCauses` (any user) is an action property: the shell kills itself only in the
step that adds a job after a failed `fork`, or in a handler that meets the stop of a child
that has no job.  It needs the invariant to show that `add_job` accepts every job there
is a slot for, the foreground one included.

Theorems: `TypeCorrect`, `ForegroundIsUnique`, `NextJidStaysExact`, `AbortsHaveCauses`
for any user;
`JobListStaysExact`, `JobStatesStayTrue`, `MasksAreRestored`, `JobListNeverAborts` for a
careful one.

**Proxy** (`ProxyProofs`).  Assumptions: `RioAssumption` (a buffer holds one byte, a line
one byte and its NUL) and `ProxyAssumption` (streams have a length, and their line ends are
places in them; a server has some number of addresses; `request[]` holds one byte;
`NoOwner` is no socket and `NoCell` no descriptor). Nothing is assumed of the
scheduler, of what arrives when, or of which calls fail. The inductive invariant is

    IInv == Types /\ HandsInv /\ HeadsReal /\ ServersOK

`DescriptorsHeld` is not inductive: that a thread finds its own descriptor in the int it
was given needs that no two of main and the threads that start have the same int
(`CellsOK`), and that accept does not hand out what is in hand needs that what is in hand
is a client's socket (`Held`, in terms of `HandOf`: the descriptor a thread will copy, and
then the one it copied).  `OneServerSocket` needs that a connection is accepted once
(`ClientsOnce`), that open_clientfd works for it once (`ServersOK`: a thread that has yet
to connect has no socket for its client anywhere), and that a thread which forgets its
socket has sent a request (`HeadsReal`: the head is never empty, and request[] holds a
part of it).  `TypeCorrect` is where the sizes of lines and chunks are: it goes through
what one pass of `rio_readlineb` or `rio_readnb` takes (`LineTakesFacts`, `ChunkFacts`).
It also says where the NUL behind a chunk goes, and rests for that on an invariant of its
own (`NulOK`): one place past `body` exactly when the chunk is full, one before it only
when a read failed, and inside it otherwise.
Most steps change neither who holds a descriptor nor what it is: `Talks` says so once, and
`TalksKeeps` is the proof for all of them.

`RelayedInOrder` rests on a second invariant, proved with the first:

    RInv == (\A t \in Tid : ThreadOK(t)) /\ MainOK /\ \A c \in Conn : Prefix(c)

The equation between what a client got, the chunk, the buffer and what was read
(`Ordered`) has to hold when the relay begins: by then nothing was read of the reply and
the client got nothing (`Early`, `MainOK`: so for every client that waits, is in main's
hand or in the hand of a thread that has not sent), and the line of the last header is
gone (`Emptied`).  Each read makes the part that was read longer (`BytesGrow`), each
division of the bytes joins to the same (`TakesJoin`), and each write, a partial one
too, is the first part of what was read (`BytesPrefix`). That no other thread reads the
same stream or writes to the same client is `ClientsOnce` and `ServersOK` again:
`MovesAloneKeeps` leaves only the thread that moves to look at.

`RelayComplete` is an action property.  With `RInv` and `Connected` (a thread that relays
has a socket) a thread that leaves the loop without an error has met the end of the
stream with an empty chunk and an empty buffer, so `Ordered` says that the client got what
was read, which is everything (`RelayEnds`); no other step of any thread leaves the loop
(`NextCompletes`).

`RequestsForwarded` has an invariant of its own, `QInv`.  While a thread reads, the head,
the line and the buffer together are what was read of its client's stream (`ReadsOn`);
the head ends where a line ends and has no blank line yet (`NoBlank`), the line has no end
yet (`NoNewline`).  `PassReads` is one pass of `rio_readlineb`: it takes the bytes up to
the first line end and not one more, since a line that fits is never full before its end
(`FullLineEnds`).  `NextLine` tells the line that makes the head complete from the others,
and `HeadIsAll` is the request that ends without a blank line.  All this is said of a
stream that was not reset and whose lines fit (`Clean`), as the property does, and of one
of which nothing was read when its thread started (`Starts`, `MainUnread`).  What a server
was sent is then the beginning of `Request` of that head, and `unsent` says how much of it
`send` left over (`RequestFacts`).

Theorems: `TypeCorrect`, `DescriptorsStayHeld`, `OneSocketStays`, `ReplyStaysInOrder`,
`RelayStaysComplete`, `RequestsStayWhole`.

**Ropes** (`CordProofs`).  Assumptions: `CordAssumption` (the byte that ends a string is no
character; fresh memory holds characters or that byte, and something; strings fit a
`size_t`) and `NullAssumption` (the null pointer is no cord and no string).  The
invariant is that the program has cords, `HeldAreCords == held \subseteq Cord`: a member of
`Cord` may have any depth, its lengths add up at every node, and they do not pass
`SizeMax`.

The properties then are about all members of `Cord`, reachable or not, and that takes
induction over trees.  It goes by length.  Parts are shorter than the whole, so a cord of
least length that is not in a set, when leaves are and nodes are whose parts are, cannot
be (`CordInduction`, from `LeastNumber`).  The same way, each recursive definition has a
function that satisfies it: there is one for the cords up to length 0, and one for the
cords up to `n` gives the one up to `n + 1`, since what a definition says of a cord depends
on its parts only (`TextFromParts` to `CordSubFromParts`; `TextExists` to
`CordSubExists`).  `CordsRecur` is that for the cords themselves.

With these, `TextLength` and `CharAtFinds` are inductions whose node case splits at the
seam, `n = Length(R.left)`; `IsCordMeans` says that `strlen` finds the length of a leaf
iff the byte after its characters is the NUL (`StrLenOfLeaf`).  `SubsAreGood` is stronger
than `SubIsSubstring`: a result also has the length `hi - lo`, for otherwise the node
that `cord_sub` makes of two results would not be known to be a cord.  Its node case is
`SubOfJoin`, where the characters `lo` to `hi - 1` of two joined strings are, and also
that the recursive calls meet their assertions.

Theorems: `ObserversAlwaysAgree`, `IsCordStaysExact`, `SubStaysSubstring`.

### Only model-checked

* Liveness (`ForegroundEnds`, `ZombiesReaped`, `ListingEnds`, `MutexReleased`,
  `AcceptedEnds`) is out of the prover's reach.
* `CallsAreAtomic` of the file system's threads.  It is a refinement like
  `ImplementsStore`, of calls whose steps interleave, and needs an invariant for every
  place a call can be at; `sfs_threads` checks it.

## 6. Where code and documentation disagree otherwise

Met while modelling; the models do what the code does, and no run is about them.

* `freeBlocks` leaves the `prev` of the old head of the free list null (`sfs-disk.c:194`).
  `sfs-fsck.c:9-10` excepts null links from the inconsistencies; the check at `:380` does
  not, so after a removal the checker rejects a disk that its comment accepts.  Both are
  in the model: `LinksAgree` is the comment, `PrevMirrorsNext` the code, and `FsckIsExact`
  says that the verdict is that of the code.  This is why `SpaceAccounted` and not the
  checker's verdict is the property of a careful client.
* `sfs_write` lets a file grow to `SFS_MAX_FILE_SIZE` and then asserts that it is smaller
  (`sfs-disk.c:451`, `:511`).  Where that size is a whole number of blocks the process dies
  after the data were copied; `UINT32_MAX` and blocks of 500 bytes exclude it.  Modelled
  (`SizeFits`); it happens in `sfs_any`, and `LimitAssumption` excludes it elsewhere.
* `sfs_format` looks at the mapping and not at the open files (`sfs-support.c:112`): after
  an unmount that left files open it formats, and their descriptors name entries and blocks
  of a disk that has none.  A write through one may then reach a block of another file.
  Modelled, in `sfs_any`; lists stay apart even so (`BlocksNeverShared`).
* Renames onto open files, unmounts with open files, and the limit of descriptors: section
  3.1.  Modelled, in `sfs_any`.
* `sfs_rename(x, x)` removes `x`, returns 0, and the file is gone (`sfs-disk.c:644-650`;
  `sfs-api.h:147` has OLD_NAME replace NEW_NAME).  Modelled, in `sfs_any`.
* `sfs_rename` frees the file of the new name before it stores that name
  (`sfs-disk.c:650`, `:655`); in between a search by another thread does not find it.
  `sfs-api.h:147-149` has the replacement be atomic.  The steps are in `SfsThreads`; the
  roles of the run have no other thread that searches then.
* `createFile` stores block and size before the name (`sfs-disk.c:265-278`): for a moment
  the entry has the name of the file it held last.  Modelled (`EnterFile`, `NameFile`).
* `sfs_seek` on a descriptor that another thread transfers through undoes the transfer's
  move (`sfs-disk.c:563`).  The steps are in `SfsThreads`; its threads do not seek on
  descriptors they share.
* `fg` or `bg` of an unknown job returns inside the critical section (`tsh.c:397`):
  signals stay blocked at the prompt, although `tsh.c:302` says the previous mask comes
  back.  Modelled, in `tsh_any`; `MaskRestored` is for careful users.
* A child that somebody else continues is reported, and the handler does nothing for it
  (`tsh.c:449`): its job stays ST while the process runs.  Modelled (`ForeignContinue`), in
  `tsh_any`; `JobStatesTrack` is checked without it.
* A failing `fork` aborts the shell in `add_job` (`tsh.c:218`, `:261`; `tsh.c:195` says
  `eval` should avoid exiting on error).  Modelled (`ForkFails`).
* A Ctrl-C that the shell handles before the child has called `setpgid` finds no group and
  is lost (`tsh.c:476`, `:461`).  Modelled (`Forward`).
* A child whose `execve` fails with ENOENT or EACCES returns from `eval` and reads
  commands (`tsh.c:246`).  Modelled as a child that only ends.
* A job past `MAXJOBS` is started and not listed; when it stops, the shell aborts
  (`tsh_helper.c:361`).  Modelled, in `tsh_any`.
* `extend_heap` coalesces a block that no list has (`mm.c:661`) with a free block before
  it; `mm.c:524` wants a block given to `eliminate_from_linked` present in the free list.
  The first of its list is then taken for it, and the list of that size loses all its
  blocks (`mm.c:535`).  Modelled; the blocks are lost to `malloc`, not to the heap.
* When `extend_heap` fails in `mm_init` (`mm.c:921`), the next `malloc` finds a heap without
  a block.  In a debug build `mm_checkheap` then dies in `find_prev` (`mm.c:782`, `:458`)
  before it can say anything; a build without assertions goes on.  Modelled
  (`CheckHeapPasses`).
* `malloc` of a size near `SIZE_MAX` wraps (`mm.c:964`).  `AdjustedSize` wraps too; the
  runs do not ask for it.
* The proxy never closes `socket_fd` after a relay (`proxy.c:156`, `:158-163`), so every
  forwarded request keeps a descriptor.  Modelled; `OneServerSocket` bounds it.
* `accept`'s -1 is not looked at (`proxy.c:334`); a thread is started for it and can never
  leave the loop over the headers unless a buffer from the stack happens to hold a blank
  line.  Modelled (`Nobody`, `Stale`).
* -1 of `rio_readlineb` and `rio_readnb` in a `size_t` passes for a length
  (`proxy.c:286`, `:156`): a line that was not read is appended, and `rio_writen` is asked
  for the largest size there is.  Modelled (`Stale`; the write that fails).
* A header line of MAXLINE - 1 characters is split, and what is left of it, "\r\n", ends
  the headers (`proxy.c:285-290`).  Modelled; `RequestsForwarded` excepts it (`LinesFit`).
* A request longer than `request[1024]` is cut (`proxy.c:136-147`).  Modelled
  (`RequestSize`).  The User-Agent line comes behind the blank line (`:147-148`).  Modelled
  (`Agent`).
* A `send` that takes a part of the request is not continued (`proxy.c:149`), and the
  server waits for the rest.  Modelled (`unsent`).
* `body[bodylen] = '\0'` (`proxy.c:157`) is one place past `body` for a full chunk of
  MAXLINE bytes, and `body[-1]` after a read that failed.  Modelled as where the store goes
  (`nul`; `TypeOK` says that there is no other such case), not as what it overwrites, which
  is the compiler's choice.  With the Makefile's `-Og` (gcc 12) `body[MAXLINE]` is the first
  byte of `request`, which is dead by then, and `body[-1]` is padding; with `-O2` the same
  compiler puts the descriptor of the `rio_t` behind `body`.
* A leaf of `cord_sub` has no NUL (`cord.c:183`).  Modelled (`Junk`).
* `cord_tostring` appends the right half with `strcat` to a buffer that holds the left
  half only, and copies an unterminated leaf with `strcpy` (`cord.c:112-132`).  Not modelled:
  `Text` is the string it should return.
* `cord_join` of cords that are too long together returns NULL, the empty cord
  (`cord.c:94-98`).  Modelled.

## 7. What is not modelled, and why

* **Threads that all change the directory.**  `SfsThreads` has the steps and `sfs_race`
  runs them for `sfs_open`; there is nothing more to claim for calls that do not exclude
  one another.  Format, mount and unmount have no steps there: no client calls them while
  others run.
* **A kill inside a file system call.**  The image is a mapping that the code never
  flushes in an order of its own; which stores reach the file is the kernel's choice.
* **Host errors** of `open`, `ftruncate`, `mmap`, `fstat` in format and mount; parsing,
  printing and options everywhere; the `jobs` builtin, which only reads; redirection.
* **Payload bytes of the allocator**: the copies of `realloc` and the zeros of `calloc`.
* **Proxy**: what `http_parser` does with a line (external), the contents of the error
  page, `realloc` that fails.  Of `csapp.c`: `open_listenfd`, the unbuffered `rio_readn`,
  and the output helpers `sio_*`.
* **`cord_tostring`**: it copies bytes of memory past what was allocated (section 6); the
  properties compare the other observers with `Text`.
* **Bit puzzles, transposition**: pure functions and loops without state; `bddcheck` of
  the repository decides the first for all inputs, the second are in the plan.
* **Harnesses** (`mdriver.c` and its trees, `test-csim.c`, `wrapper.c`, the tester of the
  file system): test equipment, which only calls the parts above.
* **Lua and Lanes**: third-party code that the tester links.  They and the harnesses are
  most of the lines under `src/`; the projects' own code is a small share of it.
* **The binary puzzles**: answers for binaries whose source is not in the repository.
