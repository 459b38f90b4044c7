--------------------------------- MODULE Rio ---------------------------------
(***************************************************************************)
(* Robust I/O of the proxy (csapp.c): what read(2) may return, and how     *)
(* much of a rio_t buffer one pass of rio_readlineb or rio_readnb takes.   *)
(*                                                                         *)
(* A stream is what a peer sends: len bytes, of which those at newlines    *)
(* are line ends, and then an orderly end, a reset, or nothing more while  *)
(* the connection stays open.  A byte is known by its stream and its place *)
(* there, so that one that is lost, repeated or out of place shows.  A     *)
(* read that is interrupted (EINTR) is made again and changes nothing.     *)
(***************************************************************************)
EXTENDS Integers, Sequences

CONSTANTS
  BufSize,  \* RIO_BUFSIZE
  MaxLine   \* MAXLINE, which is MAXBUF too

ASSUME RioAssumption == BufSize \in Nat \ {0} /\ MaxLine \in Nat \ {0, 1}

Least(m, n) == IF m <= n THEN m ELSE n

Byte(q, i) == <<q, i>>

\* Bytes i to j of stream q.
BytesOf(q, i, j) == [k \in 1 .. j - i + 1 |-> Byte(q, i + k - 1)]

(***************************************************************************)
(* The data a read of n bytes may return when done bytes of the stream     *)
(* were read before: as much as has come, one byte at least.               *)
(***************************************************************************)
Arrivals(q, s, done, n) ==
  {BytesOf(q, done + 1, done + k) : k \in 1 .. Least(n, s.len - done)}

\* A reset is reported once; the stream is then gone and reads as ended.
Ending == {"eof", "reset", "open", "gone"}

EndOfStream(s, done) == done = s.len /\ s.ends \in {"eof", "gone"}
ResetByPeer(s, done) == done = s.len /\ s.ends = "reset"

\* The last place is for the NUL.
LineIsFull(line) == Len(line) = MaxLine - 1

EndsInNewline(s, line) == line # <<>> /\ line[Len(line)][2] \in s.newlines

\* rio_readlineb stops after a newline or when the line is full.
LineEnds(s, line) == LineIsFull(line) \/ EndsInNewline(s, line)

(***************************************************************************)
(* The bytes it takes from the buffer, one by one, before it stops or the  *)
(* buffer is empty.                                                        *)
(***************************************************************************)
LineTakes(s, buf, line) ==
  CHOOSE k \in 0 .. Len(buf) :
    /\ k = Len(buf) \/ LineEnds(s, line \o SubSeq(buf, 1, k))
    /\ \A j \in 0 .. k - 1 : ~LineEnds(s, line \o SubSeq(buf, 1, j))

\* Defect: all of the buffer is taken, room for it or not.
ChunkTakes_Bufferful(buf, chunk) == Len(buf)

\* What rio_readnb, asked for MaxLine bytes, takes from the buffer in one pass.
ChunkTakes(buf, chunk) == Least(MaxLine - Len(chunk), Len(buf))

ChunkIsFull(chunk) == Len(chunk) = MaxLine
=============================================================================
