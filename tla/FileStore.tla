------------------------------ MODULE FileStore ------------------------------
(***************************************************************************)
(* What the API of the Shark File System promises (sfs-api.h), without     *)
(* blocks: a name has a sequence of bytes or no file, a descriptor is a    *)
(* position in the file of a name, and space is counted, not laid out.     *)
(*                                                                         *)
(* Files survive the process; descriptors do not.                          *)
(***************************************************************************)
EXTENDS Integers, Sequences, FiniteSets

CONSTANTS
  Names, LongNames,   \* file names, and those that are too long
  Bytes,
  Fd,                 \* descriptors
  Lens,               \* lengths of a transfer
  MaxFiles,           \* files the directory can hold
  Capacity,           \* units of space on the disk
  Unit,               \* bytes in a unit
  MaxFileSize,
  Absent, NoDesc

VARIABLES
  files,    \* name -> contents, or Absent
  open,     \* descriptor -> [name, pos], or NoDesc
  mounted,  \* the image is active
  result    \* what the last call returned

fsVars == <<files, open, mounted, result>>

Answer(v, b)  == result' = [code |-> "OK", val |-> v, buf |-> b]
Refuse(c)     == result' = [code |-> c, val |-> 0, buf |-> <<>>]
RefuseOnly(c) == Refuse(c) /\ UNCHANGED <<mounted, open, files>>

Present    == {n \in Names : files[n] # Absent}
IsOpen(n)  == \E fd \in Fd : open[fd] # NoDesc /\ open[fd].name = n
FreeFd     == {fd \in Fd : open[fd] = NoDesc}
FirstFree  == CHOOSE fd \in FreeFd : \A g \in FreeFd : fd <= g

\* Whole units, numbered from 1; an empty file takes one too.
Units(size) == IF size = 0 THEN 1 ELSE (size + Unit - 1) \div Unit
UnitsUsed   == UNION {{n} \X (1 .. Units(Len(files[n]))) : n \in Present}
Free        == Capacity - Cardinality(UnitsUsed)

\* The end of a call to open, once name has a file.
GiveDescriptor(name) ==
  \/ /\ FreeFd # {}
     /\ Answer(FirstFree, <<>>)
     /\ open' = [open EXCEPT ![FirstFree] = [name |-> name, pos |-> 0]]
  \/ Refuse("EMFILE") /\ FreeFd = {} /\ UNCHANGED open
  \/ Refuse("ENOMEM") /\ FreeFd # {} /\ UNCHANGED open

OpenFile(name) ==
  \/ name \in LongNames /\ RefuseOnly("ENAMETOOLONG")
  \/ name \notin LongNames /\ ~mounted /\ RefuseOnly("ENOMEDIUM")
  \/ /\ name \notin LongNames /\ mounted
     /\ GiveDescriptor(name)
     /\ name \in Present
     /\ UNCHANGED <<mounted, files>>
  \/ /\ name \notin LongNames /\ mounted
     /\ \/ /\ GiveDescriptor(name)
           /\ Free > 0 /\ Cardinality(Present) < MaxFiles
           /\ files' = [files EXCEPT ![name] = <<>>]
           /\ UNCHANGED mounted
        \/ /\ RefuseOnly("ENOSPC")
           /\ Free = 0 \/ Cardinality(Present) = MaxFiles
     /\ name \notin Present

CloseFile(fd) ==
  /\ Answer(0, <<>>)
  /\ open' = [open EXCEPT ![fd] = NoDesc]
  /\ UNCHANGED <<mounted, files>>

Contents(fd) == files[open[fd].name]

\* The bytes from the position on, as many as asked for and there are.
ReadFile(fd, len) ==
  \/ open[fd] = NoDesc /\ RefuseOnly("EBADF")
  \/ /\ open[fd] # NoDesc
     /\ \E n \in 0 .. len :
          LET pos == open[fd].pos IN
          /\ open' = [open EXCEPT ![fd].pos = pos + n]
          /\ \/ pos + n = Len(Contents(fd))
             \/ n = len /\ pos + n < Len(Contents(fd))
          /\ Answer(n, SubSeq(Contents(fd), pos + 1, pos + n))
     /\ UNCHANGED <<mounted, files>>

\* All of the bytes, over what is there and past the end, or none.
WriteFile(fd, len, v) ==
  \/ open[fd] = NoDesc /\ RefuseOnly("EBADF")
  \/ /\ open[fd] # NoDesc
     /\ LET pos     == open[fd].pos
            old     == Contents(fd)
            newLen  == IF pos + len > Len(old) THEN pos + len ELSE Len(old)
            extra   == Units(newLen) - Units(Len(old))
            tooBig  == extra > 0 /\ Units(newLen) * Unit > MaxFileSize
        IN
        \/ RefuseOnly("EFBIG") /\ tooBig
        \/ RefuseOnly("ENOSPC") /\ ~tooBig /\ extra > Free
        \/ /\ Answer(len, <<>>)
           /\ open' = [open EXCEPT ![fd].pos = pos + len]
           /\ ~tooBig /\ extra <= Free
           /\ files' = [files EXCEPT ![open[fd].name] =
                          [k \in 1 .. newLen |->
                             IF k \in pos + 1 .. pos + len THEN v ELSE old[k]]]
           /\ UNCHANGED mounted

TellPos(fd) ==
  \/ open[fd] = NoDesc /\ RefuseOnly("EBADF")
  \/ /\ open[fd] # NoDesc
     /\ Answer(open[fd].pos, <<>>)
     /\ UNCHANGED <<mounted, open, files>>

\* To any position of the file.
SeekFile(fd) ==
  \/ open[fd] = NoDesc /\ RefuseOnly("EBADF")
  \/ /\ open[fd] # NoDesc
     /\ \E pos \in 0 .. Len(Contents(fd)) :
          /\ Answer(pos, <<>>)
          /\ open' = [open EXCEPT ![fd].pos = pos]
     /\ UNCHANGED <<mounted, files>>

RemoveFile(name) ==
  \/ name \in LongNames /\ RefuseOnly("ENAMETOOLONG")
  \/ name \notin LongNames /\ ~mounted /\ RefuseOnly("ENOMEDIUM")
  \/ /\ name \notin LongNames /\ mounted
     /\ \/ RefuseOnly("ENOENT") /\ name \notin Present
        \/ RefuseOnly("EBUSY") /\ IsOpen(name)
        \/ /\ Answer(0, <<>>)
           /\ name \in Present /\ ~IsOpen(name)
           /\ files' = [files EXCEPT ![name] = Absent]
           /\ UNCHANGED <<open, mounted>>

\* The file takes its descriptors along to the new name, and is the only file
\* there.
RenameFile(old, new) ==
  \/ {old, new} \cap LongNames # {} /\ RefuseOnly("ENAMETOOLONG")
  \/ {old, new} \cap LongNames = {} /\ ~mounted /\ RefuseOnly("ENOMEDIUM")
  \/ /\ {old, new} \cap LongNames = {} /\ mounted
     /\ \/ RefuseOnly("ENOENT") /\ old \notin Present
        \/ /\ Answer(0, <<>>)
           /\ open' = [fd \in Fd |->
                IF open[fd] # NoDesc /\ open[fd].name = old
                  THEN [open[fd] EXCEPT !.name = new] ELSE open[fd]]
           /\ old \in Present
           /\ files' = [n \in Names |-> CASE n = new -> files[old]
                                          [] n = old /\ n # new -> Absent
                                          [] OTHER -> files[n]]
           /\ UNCHANGED mounted

MountImage ==
  \/ mounted /\ RefuseOnly("EBUSY")
  \/ ~mounted /\ mounted' = TRUE /\ Answer(0, <<>>) /\ UNCHANGED <<open, files>>

UnmountImage ==
  \/ mounted /\ FreeFd # Fd /\ RefuseOnly("EBUSY")
  \/ FreeFd = Fd /\ mounted' = FALSE /\ Answer(0, <<>>) /\ UNCHANGED <<open, files>>

FormatImage ==
  \/ mounted /\ RefuseOnly("EBUSY")
  \/ /\ ~mounted /\ mounted' = TRUE
     /\ files' = [n \in Names |-> Absent]
     /\ Answer(0, <<>>) /\ UNCHANGED open

NewProcess ==
  /\ open' = [fd \in Fd |-> NoDesc]
  /\ mounted' = FALSE
  /\ Answer(0, <<>>)
  /\ UNCHANGED files

FsInit ==
  /\ files = [n \in Names |-> Absent]
  /\ open = [fd \in Fd |-> NoDesc]
  /\ mounted = TRUE
  /\ result = [code |-> "OK", val |-> 0, buf |-> <<>>]

FsNext ==
  \/ \E fd \in Fd : SeekFile(fd) \/ TellPos(fd) \/ CloseFile(fd)
  \/ \E fd \in Fd, len \in Lens : ReadFile(fd, len)
  \/ \E fd \in Fd, len \in Lens, v \in Bytes : WriteFile(fd, len, v)
  \/ \E name \in Names : OpenFile(name) \/ RemoveFile(name)
  \/ \E old, new \in Names : RenameFile(old, new)
  \/ MountImage \/ UnmountImage \/ FormatImage \/ NewProcess

FsSpec == FsInit /\ [][FsNext]_fsVars
=============================================================================
