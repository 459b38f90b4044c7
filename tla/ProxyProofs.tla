----------------------------- MODULE ProxyProofs -----------------------------
(***************************************************************************)
(* Theorems about Proxy, for any number of clients, threads, descriptors   *)
(* and addresses, any sizes of the buffers, and any streams.               *)
(***************************************************************************)
EXTENDS Proxy, SequenceTheorems, WellFoundedInduction, TLAPS

(***************************************************************************)
(* The lowest of some numbers is one of them.                              *)
(***************************************************************************)
LEMMA LowestFacts ==
  ASSUME NEW S \in SUBSET Nat, S # {}
  PROVE  /\ Lowest(S) \in S
         /\ \A y \in S : Lowest(S) <= y
<1> DEFINE Less == {ss \in Nat \X Nat : ss[1] < ss[2]}
<1>1. IsWellFoundedOn(Less, Nat)
  BY NatLessThanWellFounded DEF OpToRel
<1>2. PICK x \in S : \A y \in S : ~ (<<y, x>> \in Less)
  <2> HIDE DEF Less
  <2> QED BY <1>1, WFMin
<1>3. ASSUME NEW y \in S PROVE x <= y
  <2>1. <<y, x>> \notin Less /\ x \in Nat /\ y \in Nat
    BY <1>2
  <2> QED BY <2>1
<1> QED BY <1>3 DEF Lowest

-----------------------------------------------------------------------------
(***************************************************************************)
(* Types.  A byte on its way is one of a stream; in the head of a request  *)
(* there may be others.                                                    *)
(***************************************************************************)
SockByte == Sock \X Nat
HeadByte == SockByte \cup {Stale, Agent}

Stream == [len : Nat, newlines : SUBSET Nat, ends : Ending]

Places == {"none", "start", "request", "header", "socket",
           "connect", "send", "relay", "write", "close"}

\* How many addresses are left to be tried.
Tries == Nat

Thread == [at : Places, cell : Cell, cfd : Fd \cup {NoFd}, sfd : Fd \cup {NoFd},
           buf : Seq(SockByte), line : Seq(SockByte), head : Seq(HeadByte),
           left : Tries]

SocketsTyped ==
  /\ stream \in [Sock -> Stream]
  /\ done \in [Sock -> Nat]
  /\ \A q \in Sock : done[q] <= stream[q].len
  /\ owner \in [Fd -> Sock \cup {NoOwner}]

MainTyped ==
  /\ waiting \subseteq Conn
  /\ cells \in [Cell -> Fd \cup {NoFd, NoCell}]
  /\ main \in [at : {"accept", "spawn"}, cell : Cell]

\* rio buffers and lines have room for what is in them.
Room ==
  \A t \in Tid :
    /\ Len(th[t].buf) <= BufSize /\ Len(th[t].line) <= MaxLine
    /\ th[t].at \in {"start", "request", "header"} => Len(th[t].line) < MaxLine - 1
    /\ At(t, "connect") => th[t].left > 0

PeersTyped ==
  /\ forwarded \in [Party -> Seq(HeadByte)]
  /\ unsent \in [Party -> 0 .. RequestSize - 1]
  /\ got \in [Party -> Seq(SockByte)]

Types == SocketsTyped /\ MainTyped /\ th \in [Tid -> Thread] /\ Room /\ PeersTyped

-----------------------------------------------------------------------------
(***************************************************************************)
(* Which descriptor a thread, or main, has in hand.                        *)
(***************************************************************************)
HandOf(t) == IF At(t, "start") THEN cells[th[t].cell] ELSE th[t].cfd
MainHand  == IF main.at = "spawn" THEN cells[main.cell] ELSE NoFd

IsClient(o) == \E c \in Conn : o = Client(c)

Held ==
  /\ \A s, t \in Tid : HandOf(s) \in Fd /\ HandOf(s) = HandOf(t) => s = t
  /\ \A t \in Tid : HandOf(t) \in Fd =>
       HandOf(t) # MainHand /\ IsClient(owner[HandOf(t)])
  /\ MainHand \in Fd => IsClient(owner[MainHand])
  /\ \A f \in Fd : IsClient(owner[f]) => MainHand = f \/ \E t \in Tid : HandOf(t) = f

\* The int a descriptor is handed over in is nobody else's.
CellsOK ==
  /\ main.at = "spawn" => cells[main.cell] # NoCell
  /\ \A t \in Tid : At(t, "start") =>
       /\ cells[th[t].cell] # NoCell
       /\ main.at = "spawn" => th[t].cell # main.cell
  /\ \A s, t \in Tid : At(s, "start") /\ At(t, "start") /\ th[s].cell = th[t].cell
       => s = t

Unserved == {"start", "request", "header", "socket"}
Serving  == {"connect", "send", "relay", "write"}

PlacesOK ==
  \A t \in Tid :
    /\ th[t].at \in {"none", "start"} => th[t].cfd = NoFd
    /\ th[t].sfd # NoFd => th[t].at \in Serving
    /\ At(t, "connect") => th[t].sfd # NoFd

\* A connection is accepted once.
ClientsOnce ==
  \A f \in Fd, c \in Conn : owner[f] = Client(c) =>
    /\ c \notin waiting
    /\ \A g \in Fd : owner[g] = Client(c) => f = g

\* Something is sent, and something was sent when the reply is relayed.
HeadsReal ==
  \A t \in Tid :
    /\ th[t].at \in {"header", "socket", "connect", "send"} => th[t].head # <<>>
    /\ th[t].at \in {"relay", "write"} => forwarded[Origin(t)] # <<>>

(***************************************************************************)
(* A connection has one server socket at most, once open_clientfd is at    *)
(* work for it; threads have different ones.                               *)
(***************************************************************************)
ServersOK ==
  /\ \A f \in Fd, c \in Conn : owner[f] = Server(c) =>
       /\ c \notin waiting
       /\ \A g \in Fd : owner[g] = Client(c) =>
            MainHand # g /\ \A t \in Tid : HandOf(t) = g => th[t].at \notin Unserved
       /\ \A g \in Fd : owner[g] = Server(c) => f = g
       /\ (\E t \in Tid : th[t].sfd = f) \/ forwarded[c] # <<>>
  /\ \A t \in Tid : th[t].sfd # NoFd => owner[th[t].sfd] = Server(Origin(t))
  /\ \A s, t \in Tid : th[s].sfd # NoFd /\ th[s].sfd = th[t].sfd => s = t

(***************************************************************************)
(* Where the NUL behind a chunk went.  It is at the end of a chunk that is *)
(* being written; before body only when the thread has given up.           *)
(***************************************************************************)
NulAt(t) ==
  /\ nul[t] \in -1 .. MaxLine
  /\ nul[t] = -1 => At(t, "close")
  /\ At(t, "write") => nul[t] = Len(th[t].line)

NulOK == nul \in [Tid -> Int] /\ \A t \in Tid : NulAt(t)

HandsInv == CellsOK /\ PlacesOK /\ Held /\ ClientsOnce

IInv == Types /\ HandsInv /\ HeadsReal /\ ServersOK

-----------------------------------------------------------------------------
(***************************************************************************)
(* What the invariant says, in the words of the properties.                *)
(***************************************************************************)
LEMMA TypesGiveTypeOK ==
  ASSUME Types, NulOK PROVE TypeOK
<1>1. \A q \in Sock : done[q] \in 0 .. stream[q].len /\ stream[q].ends \in Ending
  BY DEF Types, SocketsTyped, Stream
<1>2. ASSUME NEW t \in Tid
      PROVE  /\ th[t].at \in Places
             /\ th[t].cell \in Cell /\ th[t].left \in Nat
             /\ th[t].cfd \in Fd \cup {NoFd} /\ th[t].sfd \in Fd \cup {NoFd}
             /\ Len(th[t].buf) <= BufSize
             /\ th[t].at \in {"request", "header"} => Len(th[t].line) < MaxLine
             /\ Len(th[t].line) <= MaxLine
             /\ nul[t] \in -1 .. MaxLine /\ (nul[t] = -1 => At(t, "close"))
             /\ At(t, "write") => (nul[t] < MaxLine <=> ~ChunkIsFull(th[t].line))
  <2>1. th[t] \in Thread /\ th[t].line \in Seq(SockByte)
    BY DEF Types, Thread
  <2>2. th[t].at \in {"request", "header"} => Len(th[t].line) < MaxLine
    BY <2>1, RioAssumption, LenProperties DEF Types, Room
  <2>3. /\ nul[t] \in -1 .. MaxLine /\ (nul[t] = -1 => At(t, "close"))
        /\ At(t, "write") => (nul[t] < MaxLine <=> ~ChunkIsFull(th[t].line))
    BY <2>1, RioAssumption, LenProperties DEF NulOK, NulAt, Types, Room, ChunkIsFull
  <2> QED BY <2>1, <2>2, <2>3 DEF Types, Room, Thread, Tries
<1>3. \A c \in Party : unsent[c] \in 0 .. RequestSize - 1
  BY DEF Types, PeersTyped
<1> QED BY <1>1, <1>2, <1>3 DEF Types, SocketsTyped, MainTyped, TypeOK, Places

LEMMA NoFdIsNone == NoFd \notin Fd
BY ProxyAssumption DEF Fd, NoFd

LEMMA HoldersFacts ==
  ASSUME Types, NEW f \in Fd
  PROVE  /\ \A t \in Tid : HoldsBy(t, f) <=> HandOf(t) = f
         /\ MainHolds(f) <=> MainHand = f
         /\ 0 \notin Tid
BY NoFdIsNone, ProxyAssumption DEF HoldsBy, HandOf, MainHolds, MainHand, Tid

LEMMA HeldGivesHolders ==
  ASSUME Types, Held PROVE DescriptorsHeld
<1> SUFFICES ASSUME NEW f \in Fd
             PROVE  /\ \A s, t \in Holders(f) : s = t
                    /\ Holders(f) # {} <=> \E c \in Conn : owner[f] = Client(c)
  BY DEF DescriptorsHeld
<1>1. \A x : x \in Holders(f) <=>
        (x \in Tid /\ HandOf(x) = f) \/ (x = 0 /\ MainHand = f)
  BY HoldersFacts DEF Holders
<1>2. \A s, t \in Holders(f) : s = t
  BY <1>1 DEF Held
<1>3. Holders(f) # {} => \E c \in Conn : owner[f] = Client(c)
  BY <1>1 DEF Held, IsClient
<1>4. (\E c \in Conn : owner[f] = Client(c)) => Holders(f) # {}
  <2>1. IsClient(owner[f]) => \E x : x \in Holders(f)
    BY <1>1 DEF Held
  <2> QED BY <2>1 DEF IsClient
<1> QED BY <1>2, <1>3, <1>4

LEMMA ServersGiveOne ==
  ASSUME Types, ServersOK PROVE OneServerSocket
BY NoFdIsNone DEF ServersOK, OneServerSocket

-----------------------------------------------------------------------------
(***************************************************************************)
(* Lines.  rio_readlineb takes bytes that there are, and no more than the  *)
(* line has room for.                                                      *)
(***************************************************************************)
LEMMA SplitFacts ==
  ASSUME NEW S, NEW s \in Seq(S), NEW k \in 0 .. Len(s)
  PROVE  /\ SubSeq(s, 1, k) \in Seq(S) /\ Len(SubSeq(s, 1, k)) = k
         /\ SubSeq(s, k + 1, Len(s)) \in Seq(S)
         /\ Len(SubSeq(s, k + 1, Len(s))) = Len(s) - k
<1>1. Len(s) \in Nat /\ \A i \in 1 .. Len(s) : s[i] \in S
  BY LenProperties, ElementOfSeq
<1>2. SubSeq(s, 1, k) \in Seq(S) /\ Len(SubSeq(s, 1, k)) = IF 1 <= k THEN k - 1 + 1 ELSE 0
  <2>1. \A i \in 1 .. k : s[i] \in S
    BY <1>1
  <2>2. 1 \in Int /\ k \in Int
    BY <1>1
  <2> QED BY <2>1, <2>2, SubSeqProperties
<1>3. /\ SubSeq(s, k + 1, Len(s)) \in Seq(S)
      /\ Len(SubSeq(s, k + 1, Len(s))) =
           IF k + 1 <= Len(s) THEN Len(s) - (k + 1) + 1 ELSE 0
  <2>1. \A i \in k + 1 .. Len(s) : s[i] \in S
    BY <1>1
  <2>2. k + 1 \in Int /\ Len(s) \in Int
    BY <1>1
  <2> QED BY <2>1, <2>2, SubSeqProperties
<1> QED BY <1>1, <1>2, <1>3

LEMMA AppendFacts ==
  ASSUME NEW S, NEW line \in Seq(S), NEW s \in Seq(S), NEW k \in 0 .. Len(s)
  PROVE  /\ line \o SubSeq(s, 1, k) \in Seq(S)
         /\ Len(line \o SubSeq(s, 1, k)) = Len(line) + k
<1>1. SubSeq(s, 1, k) \in Seq(S) /\ Len(SubSeq(s, 1, k)) = k
  BY SplitFacts
<1> QED BY <1>1, ConcatProperties

LEMMA LineTakesFacts ==
  ASSUME NEW s, NEW bytes \in Seq(SockByte), NEW line \in Seq(SockByte)
  PROVE  LET k == LineTakes(s, bytes, line)
         IN  /\ k \in 0 .. Len(bytes)
             /\ k = Len(bytes) \/ LineEnds(s, line \o SubSeq(bytes, 1, k))
             /\ \A j \in 0 .. k - 1 : ~LineEnds(s, line \o SubSeq(bytes, 1, j))
             /\ Len(line) < MaxLine - 1 => Len(line) + k <= MaxLine - 1
<1> DEFINE stops(k) == k = Len(bytes) \/ LineEnds(s, line \o SubSeq(bytes, 1, k))
           K == {k \in 0 .. Len(bytes) : stops(k)}
           n == Lowest(K)
           k == LineTakes(s, bytes, line)
<1>1. Len(bytes) \in Nat /\ Len(line) \in Nat /\ MaxLine \in Nat
  BY LenProperties, RioAssumption
<1>2. K \in SUBSET Nat /\ Len(bytes) \in K
  BY <1>1
<1>3. n \in K /\ \A y \in K : n <= y
  <2> HIDE DEF K
  <2> QED BY <1>2, LowestFacts
<1>4. \A j \in 0 .. n - 1 : ~LineEnds(s, line \o SubSeq(bytes, 1, j))
  <2> SUFFICES ASSUME NEW j \in 0 .. n - 1, LineEnds(s, line \o SubSeq(bytes, 1, j))
               PROVE  FALSE
    OBVIOUS
  <2>1. j \in K /\ j < n
    BY <1>1, <1>3
  <2> QED BY <1>1, <1>3, <2>1
<1>5. /\ k \in 0 .. Len(bytes) /\ stops(k)
      /\ \A j \in 0 .. k - 1 : ~LineEnds(s, line \o SubSeq(bytes, 1, j))
  <2>1. n \in 0 .. Len(bytes) /\ stops(n)
    BY <1>3
  <2> HIDE DEF n
  <2> QED BY <2>1, <1>4 DEF LineTakes
<1>6. ASSUME Len(line) < MaxLine - 1, Len(line) + k > MaxLine - 1 PROVE FALSE
  <2> DEFINE j == MaxLine - 1 - Len(line)
  <2>1. j \in 0 .. k - 1 /\ j \in 0 .. Len(bytes)
    BY <1>1, <1>5, <1>6
  <2>2. Len(line \o SubSeq(bytes, 1, j)) = Len(line) + j
    BY <2>1, AppendFacts
  <2>3. LineEnds(s, line \o SubSeq(bytes, 1, j))
    BY <1>1, <2>1, <2>2 DEF LineEnds, LineIsFull
  <2> QED BY <1>5, <2>1, <2>3
<1> QED BY <1>1, <1>5, <1>6

(***************************************************************************)
(* A line with the bytes that one pass takes: either it has ended, and is  *)
(* not empty, or there is room left.                                       *)
(***************************************************************************)
LEMMA EndsFacts ==
  ASSUME NEW t, NEW l \in Seq(SockByte)
  PROVE  /\ ~Ends(t, l) => Len(l) # MaxLine - 1
         /\ Ends(t, l) => l # <<>>
<1>1. l = <<>> => Len(l) = 0
  BY EmptySeq
<1> QED BY <1>1, RioAssumption DEF Ends, LineEnds, LineIsFull, EndsInNewline

LEMMA PassFacts ==
  ASSUME NEW t \in Tid, Types, th[t].at \in {"request", "header"},
         NEW bytes \in Seq(SockByte)
  PROVE  LET k    == Takes(t, bytes)
             line == th[t].line \o SubSeq(bytes, 1, k)
             rest == SubSeq(bytes, k + 1, Len(bytes))
         IN  /\ k \in 0 .. Len(bytes)
             /\ line \in Seq(SockByte) /\ Len(line) <= MaxLine
             /\ rest \in Seq(SockByte) /\ Len(rest) <= Len(bytes)
             /\ ~Ends(t, line) => Len(line) < MaxLine - 1
             /\ Ends(t, line) => line # <<>>
<1> DEFINE k    == Takes(t, bytes)
           line == th[t].line \o SubSeq(bytes, 1, k)
           rest == SubSeq(bytes, k + 1, Len(bytes))
<1>1. /\ th[t].line \in Seq(SockByte) /\ Len(th[t].line) < MaxLine - 1
      /\ Len(th[t].line) \in Nat
  BY LenProperties DEF Types, Thread, Room
<1>2. k \in 0 .. Len(bytes) /\ Len(th[t].line) + k <= MaxLine - 1
  BY <1>1, LineTakesFacts DEF Takes
<1>3. line \in Seq(SockByte) /\ Len(line) = Len(th[t].line) + k
  BY <1>1, <1>2, AppendFacts
<1>4. rest \in Seq(SockByte) /\ Len(rest) = Len(bytes) - k
  BY <1>2, SplitFacts
<1>5. Len(bytes) \in Nat /\ MaxLine \in Nat /\ k \in Nat
  BY <1>2, LenProperties, RioAssumption
<1>6. /\ ~Ends(t, line) => Len(line) # MaxLine - 1
      /\ Ends(t, line) => line # <<>>
  BY <1>3, EndsFacts
<1> HIDE DEF line, rest, k
<1>7. /\ Len(line) <= MaxLine /\ Len(rest) <= Len(bytes)
      /\ ~Ends(t, line) => Len(line) < MaxLine - 1
  <2>1. Len(line) \in Nat /\ Len(line) <= MaxLine - 1
    BY <1>1, <1>2, <1>3, <1>5
  <2>2. Len(rest) <= Len(bytes)
    BY <1>4, <1>5
  <2> QED BY <1>5, <1>6, <2>1, <2>2
<1>8. /\ k \in 0 .. Len(bytes)
      /\ line \in Seq(SockByte) /\ Len(line) <= MaxLine
      /\ rest \in Seq(SockByte) /\ Len(rest) <= Len(bytes)
      /\ ~Ends(t, line) => Len(line) < MaxLine - 1
      /\ Ends(t, line) => line # <<>>
  BY <1>2, <1>3, <1>4, <1>6, <1>7
<1> QED BY <1>8 DEF line, rest, k

LEMMA LeastFacts ==
  ASSUME NEW m \in Int, NEW n \in Int
  PROVE  Least(m, n) \in {m, n} /\ Least(m, n) <= m /\ Least(m, n) <= n
BY DEF Least

LEMMA ChunkFacts ==
  ASSUME NEW t \in Tid, Types, NEW bytes \in Seq(SockByte)
  PROVE  LET k     == ChunkTakes(bytes, th[t].line)
             chunk == th[t].line \o SubSeq(bytes, 1, k)
             rest  == SubSeq(bytes, k + 1, Len(bytes))
         IN  /\ k \in 0 .. Len(bytes)
             /\ chunk \in Seq(SockByte) /\ Len(chunk) <= MaxLine
             /\ rest \in Seq(SockByte) /\ Len(rest) <= Len(bytes)
<1> DEFINE k     == ChunkTakes(bytes, th[t].line)
           chunk == th[t].line \o SubSeq(bytes, 1, k)
           rest  == SubSeq(bytes, k + 1, Len(bytes))
<1>1. /\ th[t].line \in Seq(SockByte) /\ Len(th[t].line) <= MaxLine
      /\ Len(th[t].line) \in Nat /\ Len(bytes) \in Nat /\ MaxLine \in Nat
  BY LenProperties, RioAssumption DEF Types, Thread, Room
<1>2. k \in 0 .. Len(bytes) /\ Len(th[t].line) + k <= MaxLine
  <2>1. k = Least(MaxLine - Len(th[t].line), Len(bytes))
    BY DEF ChunkTakes
  <2> HIDE DEF k
  <2> QED BY <1>1, <2>1, LeastFacts
<1>3. chunk \in Seq(SockByte) /\ Len(chunk) = Len(th[t].line) + k
  BY <1>1, <1>2, AppendFacts
<1>4. rest \in Seq(SockByte) /\ Len(rest) = Len(bytes) - k
  BY <1>2, SplitFacts
<1> HIDE DEF chunk, rest, k
<1>5. /\ k \in 0 .. Len(bytes)
      /\ chunk \in Seq(SockByte) /\ Len(chunk) <= MaxLine
      /\ rest \in Seq(SockByte) /\ Len(rest) <= Len(bytes)
  BY <1>1, <1>2, <1>3, <1>4
<1> QED BY <1>5 DEF chunk, rest, k

(***************************************************************************)
(* What rio_read finds.                                                    *)
(***************************************************************************)
LEMMA FindsFacts ==
  ASSUME NEW t \in Tid, NEW f \in Fd \cup {NoFd}, NEW bytes \in MayFind(t, f),
         Types, Finds(t, f, bytes)
  PROVE  /\ bytes \in Seq(SockByte) /\ Len(bytes) <= BufSize
         /\ SocketsTyped' /\ owner' = owner
<1>1. CASE th[t].buf # <<>>
  BY <1>1 DEF Types, Thread, Room, SocketsTyped, MayFind, Finds, sockets
<1>2. CASE th[t].buf = <<>>
  <2> DEFINE q == owner[f]
             d == done[q]
  <2>1. f \in Fd /\ owner[f] # NoOwner /\ bytes \in Arrivals(q, stream[q], d, BufSize)
    BY <1>2 DEF MayFind, IsOpen
  <2>2. q \in Sock /\ d \in Nat /\ stream[q].len \in Nat /\ d <= stream[q].len
    BY <2>1 DEF Types, SocketsTyped, Stream
  <2>3. PICK k \in 1 .. Least(BufSize, stream[q].len - d) :
               bytes = BytesOf(q, d + 1, d + k)
    BY <2>1 DEF Arrivals
  <2>4. k \in Nat /\ k <= BufSize /\ d + k <= stream[q].len
    BY <2>2, <2>3, RioAssumption DEF Least
  <2> HIDE DEF q, d
  <2>5. bytes = [i \in 1 .. (d + k) - (d + 1) + 1 |-> <<q, d + 1 + i - 1>>]
    BY <2>3 DEF BytesOf, Byte
  <2>6. bytes \in [1 .. k -> SockByte]
    <3>1. (d + k) - (d + 1) + 1 = k
      BY <2>2, <2>4
    <3>2. \A i \in 1 .. k : <<q, d + 1 + i - 1>> \in SockByte
      BY <2>2, <2>4 DEF SockByte
    <3> QED BY <2>5, <3>1, <3>2
  <2>7. bytes \in Seq(SockByte) /\ Len(bytes) = k
    BY <2>4, <2>6
  <2>8. done' = [done EXCEPT ![q] = d + k] /\ stream' = stream /\ owner' = owner
    BY <1>2, <2>7 DEF Finds, q, d
  <2>9. SocketsTyped'
    BY <2>2, <2>4, <2>8 DEF Types, SocketsTyped, q, d
  <2> QED BY <2>4, <2>7, <2>8, <2>9
<1> QED BY <1>1, <1>2

LEMMA FindsNoBytesFacts ==
  ASSUME NEW t \in Tid, NEW f \in Fd \cup {NoFd}, Types,
         FindsEnd(t, f) \/ FindsError(t, f)
  PROVE  SocketsTyped' /\ owner' = owner
<1>1. CASE UNCHANGED sockets
  BY <1>1 DEF Types, SocketsTyped, sockets
<1>2. CASE IsOpen(f) /\ stream' = [stream EXCEPT ![owner[f]].ends = "gone"]
           /\ UNCHANGED <<done, owner>>
  <2>1. owner[f] \in Sock
    BY <1>2 DEF IsOpen, Types, SocketsTyped
  <2>2. stream' \in [Sock -> Stream] /\ \A q \in Sock : stream'[q].len = stream[q].len
    BY <1>2, <2>1 DEF Types, SocketsTyped, Stream, Ending
  <2> QED BY <1>2, <2>2 DEF Types, SocketsTyped
<1> QED BY <1>1, <1>2 DEF FindsEnd, FindsError

-----------------------------------------------------------------------------
(***************************************************************************)
(* What the steps of a thread do to it and to nothing else.                *)
(***************************************************************************)
Moves(t) == th' \in [Tid -> Thread] /\ \A u \in Tid \ {t} : th'[u] = th[u]

RoomAt(t) ==
  /\ Len(th[t].buf) <= BufSize /\ Len(th[t].line) <= MaxLine
  /\ th[t].at \in {"start", "request", "header"} => Len(th[t].line) < MaxLine - 1
  /\ At(t, "connect") => th[t].left > 0

HeadAt(t) ==
  th[t].at \in {"header", "socket", "connect", "send"} => th[t].head # <<>>

\* The descriptors of t stay, but that it may forget its server's.
Quiet(t) ==
  /\ Moves(t) /\ RoomAt(t)'
  /\ th'[t].cfd = th[t].cfd /\ th'[t].sfd \in {th[t].sfd, NoFd}
  /\ HeadAt(t)'

LEMMA ThreadIs ==
  ASSUME Types, NEW t \in Tid
  PROVE  /\ th \in [Tid -> Thread] /\ th[t] \in Thread
         /\ th[t].buf \in Seq(SockByte) /\ th[t].line \in Seq(SockByte)
         /\ th[t].head \in Seq(HeadByte)
         /\ th[t].cfd \in Fd \cup {NoFd} /\ th[t].sfd \in Fd \cup {NoFd}
         /\ th[t].left \in Tries /\ th[t].cell \in Cell
         /\ RoomAt(t)
BY DEF Types, Thread, Room, RoomAt, At

LEMMA Sizes ==
  /\ BufSize \in Nat /\ BufSize >= 1 /\ MaxLine \in Nat /\ MaxLine >= 2
  /\ 0 \in Tries /\ 0 \in Cell
  /\ <<>> \in Seq(SockByte) /\ <<>> \in Seq(HeadByte) /\ Len(<<>>) = 0
BY RioAssumption, ProxyAssumption, EmptySeq DEF Cell, Tries

LEMMA SockBytesAreHeadBytes ==
  ASSUME NEW s \in Seq(SockByte) PROVE s \in Seq(HeadByte)
<1>1. SockByte \subseteq HeadByte
  BY DEF HeadByte
<1> QED BY <1>1, SeqMonotonic

LEMMA StaleFacts == <<Stale>> \in Seq(HeadByte) /\ <<Stale>> # <<>>
<1>1. Stale \in HeadByte
  BY DEF HeadByte
<1>2. <<Stale>> \in Seq(HeadByte) /\ Len(<<Stale>>) = 1
  BY <1>1
<1> QED BY <1>2, Sizes

LEMMA PlacesFacts ==
  {"none", "start", "request", "header", "socket", "connect",
   "send", "relay", "write", "close"} \subseteq Places
BY DEF Places

Becomes(t, r) == th' = [th EXCEPT ![t] = r]

Replaced(t, at, n, head, line, rest) ==
  Becomes(t, [th[t] EXCEPT !.at = at, !.left = n,
                           !.head = head, !.line = line, !.buf = rest])

LEMMA BecomesFacts ==
  ASSUME Types, NEW t \in Tid, NEW r \in Thread, Becomes(t, r)
  PROVE  Moves(t) /\ th'[t] = r
<1>1. th \in [Tid -> Thread]
  BY ThreadIs
<1> QED BY <1>1 DEF Moves, Becomes

(***************************************************************************)
(* A thread goes on elsewhere, with another line, head and buffer.         *)
(***************************************************************************)
LEMMA ReplacedFacts ==
  ASSUME Types, NEW t \in Tid, NEW at \in Places, NEW head \in Seq(HeadByte),
         NEW line \in Seq(SockByte), NEW rest \in Seq(SockByte),
         NEW n \in Tries, Replaced(t, at, n, head, line, rest)
  PROVE  /\ Moves(t)
         /\ th'[t].at = at /\ th'[t].head = head /\ th'[t].left = n
         /\ th'[t].line = line /\ th'[t].buf = rest
         /\ th'[t].cfd = th[t].cfd /\ th'[t].sfd = th[t].sfd
<1> DEFINE r == [th[t] EXCEPT !.at = at, !.left = n,
                              !.head = head, !.line = line, !.buf = rest]
<1>1. th[t] \in Thread
  BY ThreadIs
<1>2. r \in Thread
  BY <1>1 DEF Thread
<1>3. /\ r.at = at /\ r.head = head /\ r.line = line /\ r.buf = rest /\ r.left = n
      /\ r.cfd = th[t].cfd /\ r.sfd = th[t].sfd
  BY <1>1 DEF Thread
<1>4. Becomes(t, r)
  BY DEF Replaced
<1> HIDE DEF r
<1> QED BY <1>2, <1>3, <1>4, BecomesFacts

LEMMA ReturnedFacts ==
  ASSUME Types, NEW t \in Tid, th' = Returned(t)
  PROVE  Quiet(t) /\ th'[t].at = "close" /\ th'[t].sfd = NoFd
<1> DEFINE r == [NoThread EXCEPT !.at = "close", !.cfd = th[t].cfd]
<1>1. Becomes(t, r)
  BY DEF Returned, Becomes
<1>2. /\ r.at = "close" /\ r.cell = 0 /\ r.cfd = th[t].cfd /\ r.sfd = NoFd
      /\ r.buf = <<>> /\ r.line = <<>> /\ r.head = <<>> /\ r.left = 0
  BY DEF NoThread
<1>3. r \in Thread
  <2>1. /\ "close" \in Places /\ th[t].cfd \in Fd \cup {NoFd} /\ 0 \in Cell
        /\ <<>> \in Seq(SockByte) /\ <<>> \in Seq(HeadByte) /\ 0 \in Tries
    BY ThreadIs, Sizes, PlacesFacts
  <2> QED BY <2>1 DEF Thread, NoThread
<1> HIDE DEF r
<1>4. Moves(t) /\ th'[t] = r
  BY <1>1, <1>3, BecomesFacts
<1> QED BY <1>2, <1>4, Sizes DEF Quiet, RoomAt, HeadAt, At

LEMMA ParsedFacts ==
  ASSUME Types, NEW t \in Tid, At(t, "request"),
         NEW line \in Seq(HeadByte), line # <<>>,
         NEW rest \in Seq(SockByte), Len(rest) <= BufSize,
         Parsed(t, line, rest)
  PROVE  Quiet(t) /\ th'[t].at \in {"close", "header"}
<1>1. CASE ErrorPage(t)
  BY <1>1, ReturnedFacts DEF ErrorPage
<1>2. CASE th' = [th EXCEPT ![t].at = "header", ![t].head = line,
                            ![t].line = <<>>, ![t].buf = rest]
  <2> DEFINE n == th[t].left
             none == <<>>
             at == "header"
  <2>1. Replaced(t, at, n, line, none, rest)
    BY <1>2, ThreadIs DEF Replaced, Becomes, Thread
  <2>2. n \in Tries /\ at \in Places /\ none \in Seq(SockByte)
    BY ThreadIs, Sizes, PlacesFacts
  <2> HIDE DEF n, none, at
  <2>3. /\ Moves(t)
        /\ th'[t].at = at /\ th'[t].head = line
        /\ th'[t].line = none /\ th'[t].buf = rest
        /\ th'[t].cfd = th[t].cfd /\ th'[t].sfd = th[t].sfd
    BY <2>1, <2>2, ReplacedFacts
  <2> QED BY <2>3, Sizes DEF Quiet, RoomAt, HeadAt, At, at, none
<1> QED BY <1>1, <1>2 DEF Parsed

LEMMA ResolveFacts ==
  ASSUME Types, NEW t \in Tid, Origin(t) \in Party,
         NEW head \in Seq(HeadByte), head # <<>>,
         NEW rest \in Seq(SockByte), Len(rest) <= BufSize,
         Resolve(t, head, rest)
  PROVE  Quiet(t) /\ th'[t].at = "socket" /\ th'[t].line = <<>>
<1> DEFINE none == <<>>
           at == "socket"
<1>1. PICK n \in Tries :
        th' = [th EXCEPT ![t].at = "socket", ![t].left = n,
                         ![t].head = head, ![t].line = <<>>, ![t].buf = rest]
  <2>1. Addresses[Origin(t)] \subseteq Tries
    BY ProxyAssumption DEF Tries
  <2> QED BY <2>1 DEF Resolve
<1>2. Replaced(t, at, n, head, none, rest)
  BY <1>1, ThreadIs DEF Replaced, Becomes
<1>3. at \in Places /\ none \in Seq(SockByte)
  BY Sizes, PlacesFacts
<1> HIDE DEF none, at
<1>4. /\ Moves(t)
      /\ th'[t].at = at /\ th'[t].head = head
      /\ th'[t].line = none /\ th'[t].buf = rest
      /\ th'[t].cfd = th[t].cfd /\ th'[t].sfd = th[t].sfd
  BY <1>2, <1>3, ReplacedFacts
<1> QED BY <1>4, Sizes DEF Quiet, RoomAt, HeadAt, At, at, none

\* A line, or a chunk, that has not come to its end.
Grows(t, line, rest, at) ==
  Becomes(t, [th[t] EXCEPT !.line = line, !.buf = rest, !.at = at])

LEMMA GrowsFacts ==
  ASSUME Types, NEW t \in Tid, HeadAt(t), th[t].at \in {"request", "header", "relay"},
         NEW line \in Seq(SockByte), Len(line) <= MaxLine,
         NEW rest \in Seq(SockByte), Len(rest) <= BufSize,
         NEW at \in {th[t].at, "write"},
         at \in {"request", "header"} => Len(line) < MaxLine - 1,
         Grows(t, line, rest, at)
  PROVE  Quiet(t) /\ th'[t].at = at /\ th'[t].sfd = th[t].sfd
<1> DEFINE n == th[t].left
           head == th[t].head
<1>1. Replaced(t, at, n, head, line, rest)
  BY ThreadIs DEF Grows, Replaced, Becomes, Thread
<1>2. n \in Tries /\ at \in Places /\ head \in Seq(HeadByte)
  BY ThreadIs DEF Thread, Places
<1>3. /\ Moves(t)
      /\ th'[t].at = at /\ th'[t].head = th[t].head
      /\ th'[t].line = line /\ th'[t].buf = rest
      /\ th'[t].cfd = th[t].cfd /\ th'[t].sfd = th[t].sfd
  <2> HIDE DEF n, head
  <2> QED BY <1>1, <1>2, ReplacedFacts DEF head
<1> QED BY <1>3 DEF Quiet, RoomAt, HeadAt, At

LEMMA AppendLineFacts ==
  ASSUME Types, NEW t \in Tid, At(t, "header"), HeadAt(t), Origin(t) \in Party,
         NEW line \in Seq(SockByte),
         NEW rest \in Seq(SockByte), Len(rest) <= BufSize,
         AppendLine(t, line, rest)
  PROVE  /\ Quiet(t) /\ th'[t].at \in {"header", "socket"}
         /\ th'[t].at = "socket" => th'[t].line = <<>>
<1> DEFINE head == th[t].head \o line
<1>1. head \in Seq(HeadByte) /\ head # <<>>
  <2>1. line \in Seq(HeadByte) /\ th[t].head \in Seq(HeadByte) /\ th[t].head # <<>>
    BY SockBytesAreHeadBytes, ThreadIs DEF HeadAt, At
  <2> QED BY <2>1, ConcatProperties, EmptySeq
<1> HIDE DEF head
<1>2. CASE Resolve(t, head, rest)
  BY <1>1, <1>2, ResolveFacts
<1>3. CASE th' = [th EXCEPT ![t].head = head, ![t].line = <<>>, ![t].buf = rest]
  <2> DEFINE n == th[t].left
             none == <<>>
             at == "header"
  <2>1. Replaced(t, at, n, head, none, rest)
    BY <1>3, ThreadIs DEF Replaced, Becomes, Thread, At
  <2>2. n \in Tries /\ at \in Places /\ none \in Seq(SockByte)
    BY ThreadIs, Sizes, PlacesFacts
  <2> HIDE DEF n, none, at
  <2>3. /\ Moves(t)
        /\ th'[t].at = at /\ th'[t].head = head
        /\ th'[t].line = none /\ th'[t].buf = rest
        /\ th'[t].cfd = th[t].cfd /\ th'[t].sfd = th[t].sfd
    BY <1>1, <2>1, <2>2, ReplacedFacts
  <2> QED BY <1>1, <2>3, Sizes DEF Quiet, RoomAt, HeadAt, At, at, none
<1> QED BY <1>2, <1>3 DEF AppendLine, head

-----------------------------------------------------------------------------
\* The client of a thread.
LEMMA OriginFacts ==
  ASSUME Types, HandsInv, NEW t \in Tid
  PROVE  /\ Origin(t) \in Party
         /\ th[t].cfd \in Fd =>
              /\ HandOf(t) = th[t].cfd /\ Origin(t) \in Conn
              /\ owner[th[t].cfd] = Client(Origin(t))
<1>1. th[t].cfd \in Fd \cup {NoFd}
  BY ThreadIs
<1>2. CASE th[t].cfd = NoFd
  BY <1>2, NoFdIsNone DEF Origin, Party
<1>3. CASE th[t].cfd \in Fd
  <2>1. HandOf(t) = th[t].cfd
    BY <1>3, NoFdIsNone DEF HandOf, HandsInv, PlacesOK, At
  <2>2. PICK c \in Conn : owner[th[t].cfd] = Client(c)
    BY <1>3, <2>1 DEF HandsInv, Held, IsClient
  <2>3. Origin(t) = c
    BY <1>3, <2>2, NoFdIsNone DEF Origin, Client
  <2> QED BY <2>1, <2>2, <2>3 DEF Party
<1> QED BY <1>1, <1>2, <1>3

-----------------------------------------------------------------------------
(***************************************************************************)
(* Steps of a thread that opens and closes nothing.                        *)
(***************************************************************************)
Talks(t) ==
  /\ Quiet(t) /\ SocketsTyped' /\ PeersTyped'
  /\ UNCHANGED <<waiting, owner, cells, main>>
  /\ \A p \in Party : forwarded[p] # <<>> => forwarded'[p] # <<>>
  /\ th[t].at \notin {"none", "start"} /\ th'[t].at \notin {"none", "start"}
  /\ th'[t].at \in Unserved => th[t].at \in Unserved
  /\ th'[t].sfd # NoFd => th'[t].at \in Serving
  /\ th'[t].at = "connect" => th'[t].sfd # NoFd
  /\ th'[t].at \in {"relay", "write"} =>
       th[t].at \in {"relay", "write"} \/ forwarded'[Origin(t)] # <<>>
  /\ th'[t].sfd # th[t].sfd => th[t].at \in {"relay", "write"}

Reads(t, places) ==
  /\ Quiet(t) /\ SocketsTyped' /\ owner' = owner /\ th'[t].at \in places
  /\ th'[t].at = "socket" => th'[t].line = <<>>

LEMMA RequestLineTalks ==
  ASSUME IInv, NEW t \in Tid, RequestLine(t)
  PROVE  Talks(t) /\ Reads(t, {"request", "header", "close"})
<1>1. /\ Types /\ HeadAt(t) /\ At(t, "request") /\ th[t].sfd = NoFd
      /\ th[t].cfd \in Fd \cup {NoFd} /\ th[t].line \in Seq(SockByte)
  BY ThreadIs DEF IInv, HeadsReal, HeadAt, HandsInv, PlacesOK, Serving, RequestLine, At
<1> SUFFICES Reads(t, {"request", "header", "close"})
  BY <1>1 DEF Reads, Talks, Quiet, Types, PeersTyped, Unserved, At, RequestLine, peers
<1>2. ASSUME NEW bytes \in MayFind(t, th[t].cfd), Finds(t, th[t].cfd, bytes),
             LET k    == Takes(t, bytes)
                 line == th[t].line \o SubSeq(bytes, 1, k)
                 rest == SubSeq(bytes, k + 1, Len(bytes))
             IN  IF Ends(t, line) THEN Parsed(t, line, rest)
                 ELSE th' = [th EXCEPT ![t].line = line, ![t].buf = rest]
      PROVE  Reads(t, {"request", "header", "close"})
  <2> DEFINE k    == Takes(t, bytes)
             line == th[t].line \o SubSeq(bytes, 1, k)
             rest == SubSeq(bytes, k + 1, Len(bytes))
  <2>1. /\ bytes \in Seq(SockByte) /\ Len(bytes) <= BufSize
        /\ SocketsTyped' /\ owner' = owner
    BY <1>1, <1>2, FindsFacts
  <2>2. /\ k \in 0 .. Len(bytes)
        /\ line \in Seq(SockByte) /\ Len(line) <= MaxLine
        /\ rest \in Seq(SockByte) /\ Len(rest) <= Len(bytes)
        /\ ~Ends(t, line) => Len(line) < MaxLine - 1
        /\ Ends(t, line) => line # <<>>
    BY <1>1, <2>1, PassFacts DEF At
  <2>3. IF Ends(t, line) THEN Parsed(t, line, rest)
        ELSE th' = [th EXCEPT ![t].line = line, ![t].buf = rest]
    BY <1>2
  <2> HIDE DEF k, line, rest
  <2>4. Len(rest) <= BufSize /\ line \in Seq(HeadByte)
    BY <2>1, <2>2, LenProperties, Sizes, SockBytesAreHeadBytes
  <2>5. CASE Ends(t, line)
    BY <1>1, <2>1, <2>2, <2>3, <2>4, <2>5, ParsedFacts DEF Reads
  <2>6. CASE ~Ends(t, line)
    <3> DEFINE at == th[t].at
    <3>1. Grows(t, line, rest, at)
      BY <1>1, <2>3, <2>6, ThreadIs DEF Grows, Becomes, Thread
    <3>2. at \in {th[t].at, "write"} /\ Len(line) < MaxLine - 1
      BY <2>2, <2>6
    <3>3. Quiet(t) /\ th'[t].at = at
      <4> HIDE DEF at
      <4>1. th[t].at \in {"request", "header", "relay"}
        BY <1>1 DEF At
      <4> QED BY <1>1, <2>2, <2>4, <3>1, <3>2, <4>1, GrowsFacts
    <3> QED BY <1>1, <2>1, <3>3 DEF At, Reads
  <2> QED BY <2>5, <2>6
<1>3. ASSUME FindsEnd(t, th[t].cfd),
             IF th[t].line = <<>> THEN ErrorPage(t) ELSE Parsed(t, th[t].line, <<>>)
      PROVE  Reads(t, {"request", "header", "close"})
  <2>1. SocketsTyped' /\ owner' = owner
    BY <1>1, <1>3, FindsNoBytesFacts
  <2>2. CASE th[t].line = <<>>
    BY <1>1, <1>3, <2>1, <2>2, ReturnedFacts DEF ErrorPage, Reads
  <2>3. CASE th[t].line # <<>> /\ Parsed(t, th[t].line, <<>>)
    <3> DEFINE line == th[t].line
               none == <<>>
    <3>1. line \in Seq(HeadByte) /\ line # <<>> /\ Parsed(t, line, none)
      BY <1>1, <2>3, SockBytesAreHeadBytes
    <3>2. none \in Seq(SockByte) /\ Len(none) <= BufSize
      BY Sizes
    <3> HIDE DEF line, none
    <3>3. Quiet(t) /\ th'[t].at \in {"close", "header"}
      BY <1>1, <3>1, <3>2, ParsedFacts
    <3> QED BY <2>1, <3>3 DEF Reads
  <2> QED BY <1>3, <2>2, <2>3
<1>4. ASSUME FindsError(t, th[t].cfd), Parsed(t, <<Stale>>, <<>>)
      PROVE  Reads(t, {"request", "header", "close"})
  <2>1. SocketsTyped' /\ owner' = owner
    BY <1>1, <1>4, FindsNoBytesFacts
  <2> DEFINE line == <<Stale>>
             none == <<>>
  <2>2. line \in Seq(HeadByte) /\ line # <<>> /\ Parsed(t, line, none)
    BY <1>4, StaleFacts
  <2>3. none \in Seq(SockByte) /\ Len(none) <= BufSize
    BY Sizes
  <2> HIDE DEF line, none
  <2>4. Quiet(t) /\ th'[t].at \in {"close", "header"}
    BY <1>1, <2>2, <2>3, ParsedFacts
  <2> QED BY <2>1, <2>4 DEF Reads
<1> QED BY <1>2, <1>3, <1>4 DEF RequestLine

LEMMA HeaderLineTalks ==
  ASSUME IInv, NEW t \in Tid, HeaderLine(t)
  PROVE  Talks(t) /\ Reads(t, {"header", "socket"})
<1>1. /\ Types /\ HeadAt(t) /\ At(t, "header") /\ th[t].sfd = NoFd
      /\ th[t].cfd \in Fd \cup {NoFd} /\ th[t].line \in Seq(SockByte)
      /\ th[t].head \in Seq(HeadByte) /\ th[t].head # <<>> /\ Origin(t) \in Party
  BY ThreadIs, OriginFacts DEF IInv, HeadsReal, HeadAt, HandsInv, PlacesOK, Serving, HeaderLine, At
<1> SUFFICES Reads(t, {"header", "socket"})
  BY <1>1 DEF Reads, Talks, Quiet, Types, PeersTyped, Unserved, At, HeaderLine, peers
<1>2. ASSUME NEW bytes \in MayFind(t, th[t].cfd), Finds(t, th[t].cfd, bytes),
             LET k    == Takes(t, bytes)
                 line == th[t].line \o SubSeq(bytes, 1, k)
                 rest == SubSeq(bytes, k + 1, Len(bytes))
             IN  IF Ends(t, line) THEN AppendLine(t, line, rest)
                 ELSE th' = [th EXCEPT ![t].line = line, ![t].buf = rest]
      PROVE  Reads(t, {"header", "socket"})
  <2> DEFINE k    == Takes(t, bytes)
             line == th[t].line \o SubSeq(bytes, 1, k)
             rest == SubSeq(bytes, k + 1, Len(bytes))
  <2>1. /\ bytes \in Seq(SockByte) /\ Len(bytes) <= BufSize
        /\ SocketsTyped' /\ owner' = owner
    BY <1>1, <1>2, FindsFacts
  <2>2. /\ k \in 0 .. Len(bytes)
        /\ line \in Seq(SockByte) /\ Len(line) <= MaxLine
        /\ rest \in Seq(SockByte) /\ Len(rest) <= Len(bytes)
        /\ ~Ends(t, line) => Len(line) < MaxLine - 1
        /\ Ends(t, line) => line # <<>>
    BY <1>1, <2>1, PassFacts DEF At
  <2>3. IF Ends(t, line) THEN AppendLine(t, line, rest)
        ELSE th' = [th EXCEPT ![t].line = line, ![t].buf = rest]
    BY <1>2
  <2> HIDE DEF k, line, rest
  <2>4. Len(rest) <= BufSize
    BY <2>1, <2>2, LenProperties, Sizes
  <2>5. CASE Ends(t, line)
    BY <1>1, <2>1, <2>2, <2>3, <2>4, <2>5, AppendLineFacts DEF Reads
  <2>6. CASE ~Ends(t, line)
    <3> DEFINE at == th[t].at
    <3>1. Grows(t, line, rest, at)
      BY <1>1, <2>3, <2>6, ThreadIs DEF Grows, Becomes, Thread
    <3>2. at \in {th[t].at, "write"} /\ Len(line) < MaxLine - 1
      BY <2>2, <2>6
    <3>3. Quiet(t) /\ th'[t].at = at
      <4> HIDE DEF at
      <4>1. th[t].at \in {"request", "header", "relay"}
        BY <1>1 DEF At
      <4> QED BY <1>1, <2>2, <2>4, <3>1, <3>2, <4>1, GrowsFacts
    <3> QED BY <1>1, <2>1, <3>3 DEF At, Reads
  <2> QED BY <2>5, <2>6
<1> DEFINE none == <<>>
<1>3. none \in Seq(SockByte) /\ Len(none) <= BufSize
  BY Sizes
<1>4. ASSUME FindsEnd(t, th[t].cfd),
             IF th[t].line = none THEN Resolve(t, th[t].head, none)
             ELSE AppendLine(t, th[t].line, none)
      PROVE  Reads(t, {"header", "socket"})
  <2> DEFINE head == th[t].head
             line == th[t].line
  <2>1. SocketsTyped' /\ owner' = owner
    BY <1>1, <1>4, FindsNoBytesFacts
  <2>2. /\ Resolve(t, head, none) \/ AppendLine(t, line, none)
        /\ head \in Seq(HeadByte) /\ head # <<>> /\ line \in Seq(SockByte)
    BY <1>1, <1>4
  <2> HIDE DEF none, head, line
  <2>3. CASE Resolve(t, head, none)
    BY <1>1, <1>3, <2>1, <2>2, <2>3, ResolveFacts DEF Reads
  <2>4. CASE AppendLine(t, line, none)
    BY <1>1, <1>3, <2>1, <2>2, <2>4, AppendLineFacts DEF Reads
  <2> QED BY <2>2, <2>3, <2>4
<1>5. ASSUME FindsError(t, th[t].cfd),
             \/ Resolve(t, <<Stale>>, none)
             \/ th' = [th EXCEPT ![t].head = <<Stale>>, ![t].line = none]
      PROVE  Reads(t, {"header", "socket"})
  <2>1. SocketsTyped' /\ owner' = owner /\ th[t].buf = none
    BY <1>1, <1>5, FindsNoBytesFacts DEF FindsError
  <2> DEFINE head == <<Stale>>
             n    == th[t].left
             at   == "header"
  <2>2. head \in Seq(HeadByte) /\ head # <<>>
    BY StaleFacts
  <2>3. CASE Resolve(t, head, none)
    <3> HIDE DEF head, none
    <3> QED BY <1>1, <1>3, <2>1, <2>2, <2>3, ResolveFacts DEF Reads
  <2>4. CASE th' = [th EXCEPT ![t].head = <<Stale>>, ![t].line = none]
    <3>1. Replaced(t, at, n, head, none, none)
      BY <1>1, <2>1, <2>4, ThreadIs DEF Replaced, Becomes, Thread, At
    <3>2. n \in Tries /\ at \in Places
      BY <1>1, ThreadIs, PlacesFacts
    <3>3. /\ Moves(t) /\ th'[t].at = at /\ th'[t].head = head
          /\ th'[t].line = none /\ th'[t].buf = none
          /\ th'[t].cfd = th[t].cfd /\ th'[t].sfd = th[t].sfd
      <4> HIDE DEF n, at, head, none
      <4> QED BY <1>1, <1>3, <2>2, <3>1, <3>2, ReplacedFacts
    <3>4. Quiet(t)
      <4> HIDE DEF head
      <4> QED BY <2>2, <3>3, Sizes DEF Quiet, RoomAt, HeadAt, At
    <3> QED BY <2>1, <3>3, <3>4 DEF Reads
  <2> QED BY <1>5, <2>3, <2>4
<1> QED BY <1>2, <1>4, <1>5 DEF HeaderLine

LEMMA GoesFacts ==
  ASSUME Types, NEW t \in Tid, NEW place \in {"send", "write"},
         place = "send" => th[t].head # <<>>, Go(t, place)
  PROVE  Quiet(t) /\ th'[t].at = place /\ th'[t].sfd = th[t].sfd
<1> DEFINE n == th[t].left
           head == th[t].head
           line == th[t].line
           rest == th[t].buf
<1>1. Replaced(t, place, n, head, line, rest)
  BY ThreadIs DEF Go, Replaced, Becomes, Thread
<1>2. /\ n \in Tries /\ head \in Seq(HeadByte) /\ line \in Seq(SockByte)
      /\ rest \in Seq(SockByte) /\ place \in Places
      /\ Len(rest) <= BufSize /\ Len(line) <= MaxLine
  BY ThreadIs DEF Places, RoomAt
<1>3. place = "send" => head # <<>>
  OBVIOUS
<1> HIDE DEF n, head, line, rest
<1>4. /\ Moves(t) /\ th'[t].at = place /\ th'[t].head = head
      /\ th'[t].line = line /\ th'[t].buf = rest
      /\ th'[t].cfd = th[t].cfd /\ th'[t].sfd = th[t].sfd
  BY <1>1, <1>2, ReplacedFacts
<1> QED BY <1>2, <1>3, <1>4 DEF Quiet, RoomAt, HeadAt, At

LEMMA RelayTalks ==
  ASSUME IInv, NEW t \in Tid, Relay(t) PROVE Talks(t)
<1>1. /\ Types /\ HeadAt(t) /\ At(t, "relay") /\ th[t].sfd \in Fd \cup {NoFd}
      /\ th[t].line \in Seq(SockByte)
  BY ThreadIs DEF IInv, HeadAt, Relay, At
<1> DEFINE Relays == /\ Reads(t, {"relay", "write", "close"})
                     /\ th'[t].at = "close" => th'[t].sfd = NoFd
<1> SUFFICES Relays
  BY <1>1 DEF Reads, Talks, Quiet, Types, PeersTyped, Unserved, Serving, At, Relay, peers
<1>2. ASSUME NEW bytes \in MayFind(t, th[t].sfd), Finds(t, th[t].sfd, bytes),
             LET k     == ChunkTakes(bytes, th[t].line)
                 chunk == th[t].line \o SubSeq(bytes, 1, k)
             IN  th' = [th EXCEPT ![t].line = chunk,
                                  ![t].buf = SubSeq(bytes, k + 1, Len(bytes)),
                                  ![t].at = IF ChunkIsFull(chunk) THEN "write" ELSE @]
      PROVE  Relays
  <2> DEFINE k     == ChunkTakes(bytes, th[t].line)
             chunk == th[t].line \o SubSeq(bytes, 1, k)
             rest  == SubSeq(bytes, k + 1, Len(bytes))
             at    == IF ChunkIsFull(chunk) THEN "write" ELSE th[t].at
  <2>1. /\ bytes \in Seq(SockByte) /\ Len(bytes) <= BufSize
        /\ SocketsTyped' /\ owner' = owner
    BY <1>1, <1>2, FindsFacts
  <2>2. /\ k \in 0 .. Len(bytes)
        /\ chunk \in Seq(SockByte) /\ Len(chunk) <= MaxLine
        /\ rest \in Seq(SockByte) /\ Len(rest) <= Len(bytes)
    BY <1>1, <2>1, ChunkFacts
  <2>3. th' = [th EXCEPT ![t].line = chunk, ![t].buf = rest,
                         ![t].at = IF ChunkIsFull(chunk) THEN "write" ELSE @]
    BY <1>2
  <2> HIDE DEF k, chunk, rest
  <2>4. Len(rest) <= BufSize /\ at \in {th[t].at, "write"}
    BY <2>1, <2>2, LenProperties, Sizes
  <2>5. Grows(t, chunk, rest, at)
    BY <1>1, <2>3, ThreadIs DEF Grows, Becomes, Thread
  <2>6. th[t].at \in {"request", "header", "relay"} /\ at \notin {"request", "header"}
    BY <1>1, <2>4 DEF At
  <2> HIDE DEF at
  <2>7. Quiet(t) /\ th'[t].at = at
    BY <1>1, <2>2, <2>4, <2>5, <2>6, GrowsFacts
  <2> QED BY <1>1, <2>1, <2>4, <2>7 DEF At, Reads
<1>3. ASSUME FindsEnd(t, th[t].sfd) \/ FindsError(t, th[t].sfd),
             th' = Returned(t) \/ Go(t, "write")
      PROVE  Relays
  <2>1. SocketsTyped' /\ owner' = owner
    BY <1>1, <1>3, FindsNoBytesFacts
  <2>2. CASE th' = Returned(t)
    BY <1>1, <2>1, <2>2, ReturnedFacts DEF Reads
  <2>3. CASE Go(t, "write")
    <3> DEFINE place == "write"
    <3>1. place \in {"send", "write"} /\ place # "send" /\ Go(t, place)
      BY <2>3
    <3> HIDE DEF place
    <3>2. Quiet(t) /\ th'[t].at = place
      BY <1>1, <3>1, GoesFacts
    <3> QED BY <2>1, <3>1, <3>2 DEF Reads, place
  <2> QED BY <1>3, <2>2, <2>3
<1> QED BY <1>2, <1>3 DEF Relay

LEMMA WriteTalks ==
  ASSUME IInv, NEW t \in Tid, Write(t) PROVE Talks(t)
<1>1. /\ Types /\ At(t, "write") /\ th[t].sfd \in Fd \cup {NoFd}
      /\ th[t].line \in Seq(SockByte) /\ th[t].buf \in Seq(SockByte)
      /\ th[t].head \in Seq(HeadByte) /\ RoomAt(t)
  BY ThreadIs DEF IInv, Write, At
<1>2. SocketsTyped' /\ UNCHANGED <<waiting, owner, cells, main, forwarded, unsent>>
  BY <1>1 DEF Write, Types, SocketsTyped, sockets
<1>3. ASSUME NEW s \in Seq(SockByte), got' = [got EXCEPT ![Origin(t)] = @ \o s]
      PROVE  PeersTyped'
  <2>1. \A g \in Seq(SockByte) : g \o s \in Seq(SockByte)
    BY <1>3, ConcatProperties
  <2> QED BY <1>1, <1>2, <1>3, <2>1 DEF Types, PeersTyped
<1>4. PeersTyped'
  <2>1. \A k \in 0 .. Len(th[t].line) - 1 : SubSeq(th[t].line, 1, k) \in Seq(SockByte)
    BY <1>1, SplitFacts, LenProperties
  <2> QED BY <1>1, <1>3, <2>1 DEF Write
<1>5. /\ Quiet(t) /\ th'[t].at \in {"relay", "close"}
      /\ th'[t].at = "close" => th'[t].sfd = NoFd
  <2>1. CASE th' = Returned(t)
    BY <1>1, <2>1, ReturnedFacts
  <2>2. CASE th' = [th EXCEPT ![t].at = "relay", ![t].line = <<>>]
    <3> DEFINE at == "relay"
               none == <<>>
               n == th[t].left
               head == th[t].head
               rest == th[t].buf
    <3>1. Replaced(t, at, n, head, none, rest)
      BY <1>1, <2>2, ThreadIs DEF Replaced, Becomes, Thread
    <3>2. /\ n \in Tries /\ at \in Places
          /\ head \in Seq(HeadByte) /\ none \in Seq(SockByte) /\ rest \in Seq(SockByte)
          /\ Len(rest) <= BufSize
      BY <1>1, ThreadIs, PlacesFacts, Sizes DEF RoomAt
    <3> HIDE DEF n, at, head, none, rest
    <3>3. /\ Moves(t) /\ th'[t].at = at
          /\ th'[t].line = none /\ th'[t].buf = rest
          /\ th'[t].cfd = th[t].cfd /\ th'[t].sfd = th[t].sfd
      BY <1>1, <3>1, <3>2, ReplacedFacts
    <3> QED BY <3>2, <3>3, Sizes DEF Quiet, RoomAt, HeadAt, At, at, none
  <2> QED BY <2>1, <2>2 DEF Write
<1> QED BY <1>1, <1>2, <1>4, <1>5 DEF Talks, Quiet, Unserved, Serving, At

-----------------------------------------------------------------------------
(***************************************************************************)
(* What a thread that opens nothing keeps.                                 *)
(***************************************************************************)
LEMMA RoomKept ==
  ASSUME Types, NEW t \in Tid, Moves(t), RoomAt(t)'
  PROVE  th' \in [Tid -> Thread] /\ Room'
BY DEF Types, Moves, Room, RoomAt, At

LEMMA TalksKeeps ==
  ASSUME IInv, NEW t \in Tid, Talks(t) PROVE IInv'
<1>1. Types /\ HandsInv /\ HeadsReal /\ ServersOK
  BY DEF IInv
<1>2. Types'
  BY <1>1, RoomKept DEF Types, Talks, Quiet, MainTyped
<1>3. /\ \A u \in Tid : HandOf(u)' = HandOf(u) /\ Origin(u)' = Origin(u)
      /\ MainHand' = MainHand
  BY DEF Talks, Quiet, Moves, HandOf, MainHand, Origin, At
<1>4. /\ \A u \in Tid : At(u, "start")' <=> At(u, "start")
      /\ \A u \in Tid : At(u, "start") => th'[u] = th[u]
  BY DEF Talks, Quiet, Moves, At
<1>5. CellsOK'
  BY <1>1, <1>4 DEF HandsInv, CellsOK, Talks
<1>6. PlacesOK'
  BY <1>1 DEF HandsInv, PlacesOK, Talks, Quiet, Moves, At
<1>7. Held' /\ ClientsOnce'
  BY <1>1, <1>3 DEF HandsInv, Held, ClientsOnce, Talks
<1>8. HeadsReal'
  <2>1. \A u \in Tid : Origin(u) \in Party
    BY <1>1, OriginFacts
  <2> QED BY <1>1, <1>3, <2>1 DEF HeadsReal, HeadAt, Talks, Quiet, Moves
<1>9. ServersOK'
  <2>1. \A u \in Tid : th'[u].at \in Unserved => th[u].at \in Unserved
    BY DEF Talks, Quiet, Moves
  <2>2. \A u \in Tid : th'[u].sfd # NoFd => th'[u].sfd = th[u].sfd
    BY DEF Talks, Quiet, Moves
  <2>3. ASSUME NEW f \in Fd, NEW c \in Conn, owner[f] = Server(c)
        PROVE  (\E u \in Tid : th'[u].sfd = f) \/ forwarded'[c] # <<>>
    <3>0. forwarded[c] # <<>> => forwarded'[c] # <<>>
      BY DEF Talks, Party
    <3>1. CASE \E u \in Tid : th[u].sfd = f /\ u # t
      BY <3>1 DEF Talks, Quiet, Moves
    <3>2. CASE th[t].sfd = f /\ th'[t].sfd # f
      <4>1. th[t].at \in {"relay", "write"} /\ f # NoFd
        BY <3>2, NoFdIsNone DEF Talks
      <4>2. Server(c) = Server(Origin(t)) /\ forwarded[Origin(t)] # <<>>
        BY <1>1, <2>3, <3>2, <4>1 DEF ServersOK, HeadsReal
      <4> QED BY <3>0, <4>2 DEF Server
    <3> QED BY <1>1, <2>3, <3>0, <3>1, <3>2 DEF ServersOK
  <2>4. \A f \in Fd, c \in Conn : owner[f] = Server(c) =>
          /\ c \notin waiting
          /\ \A g \in Fd : owner[g] = Client(c) =>
               MainHand # g /\ \A u \in Tid : HandOf(u) = g => th'[u].at \notin Unserved
          /\ \A g \in Fd : owner[g] = Server(c) => f = g
    BY <1>1, <2>1 DEF ServersOK
  <2>5. /\ \A u \in Tid : th'[u].sfd # NoFd => owner[th'[u].sfd] = Server(Origin(u))
        /\ \A s, u \in Tid : th'[s].sfd # NoFd /\ th'[s].sfd = th'[u].sfd => s = u
    BY <1>1, <2>2 DEF ServersOK
  <2>6. waiting' = waiting /\ owner' = owner
    BY DEF Talks
  <2> QED BY <1>3, <2>3, <2>4, <2>5, <2>6 DEF ServersOK
<1> QED BY <1>2, <1>5, <1>6, <1>7, <1>8, <1>9 DEF IInv, HandsInv

-----------------------------------------------------------------------------
(***************************************************************************)
(* Steps of a thread that open or close its socket to the server.          *)
(***************************************************************************)
Keeps(t) ==
  /\ Moves(t) /\ RoomAt(t)' /\ HeadAt(t)'
  /\ th'[t].cfd = th[t].cfd
  /\ th[t].at \notin {"none", "start"} /\ th'[t].at \notin {"none", "start"}
  /\ th'[t].sfd # NoFd => th'[t].at \in Serving
  /\ th'[t].at = "connect" => th'[t].sfd # NoFd
  /\ UNCHANGED <<waiting, stream, done, cells, main, got>>

\* No descriptor becomes a client's, or stops being one.
ClientsStay ==
  \A g \in Fd : owner'[g] # owner[g] => ~IsClient(owner[g]) /\ ~IsClient(owner'[g])

LEMMA KeepsHands ==
  ASSUME Types, HandsInv, NEW t \in Tid, Keeps(t), ClientsStay
  PROVE  /\ HandsInv'
         /\ \A u \in Tid : HandOf(u)' = HandOf(u) /\ Origin(u)' = Origin(u)
         /\ MainHand' = MainHand
<1>1. (\A u \in Tid : HandOf(u)' = HandOf(u)) /\ MainHand' = MainHand
  BY DEF Keeps, Moves, HandOf, MainHand, At
<1>2. ASSUME NEW u \in Tid PROVE Origin(u)' = Origin(u)
  <2>1. th'[u].cfd = th[u].cfd /\ th[u].cfd \in Fd \cup {NoFd}
    BY ThreadIs DEF Keeps, Moves
  <2>2. ASSUME th[u].cfd \in Fd PROVE owner'[th[u].cfd] = owner[th[u].cfd]
    BY <2>2, OriginFacts DEF ClientsStay, IsClient
  <2> QED BY <2>1, <2>2 DEF Origin
<1>3. CellsOK' /\ PlacesOK'
  BY DEF HandsInv, CellsOK, PlacesOK, Keeps, Moves, At
<1>4. Held'
  <2>1. \A g \in Fd : IsClient(owner'[g]) <=> IsClient(owner[g])
    BY DEF ClientsStay
  <2>2. \A o : IsClient(o)' <=> IsClient(o)
    BY DEF IsClient
  <2> QED BY <1>1, <2>1, <2>2 DEF HandsInv, Held
<1>5. ClientsOnce'
  <2>1. \A g \in Fd, c \in Conn : owner'[g] = Client(c) => owner[g] = Client(c)
    BY DEF ClientsStay, IsClient
  <2> QED BY <2>1 DEF HandsInv, ClientsOnce, Keeps
<1> QED BY <1>1, <1>2, <1>3, <1>4, <1>5 DEF HandsInv

LEMMA FreeFdFacts ==
  ASSUME FreeFds # {}
  PROVE  Lowest(FreeFds) \in Fd /\ owner[Lowest(FreeFds)] = NoOwner
<1>1. FreeFds \in SUBSET Nat
  BY ProxyAssumption DEF FreeFds, Fd
<1>2. Lowest(FreeFds) \in FreeFds
  BY <1>1, LowestFacts
<1> QED BY <1>2 DEF FreeFds

LEMMA NamesDiffer ==
  /\ \A p \in Party : Client(p) \in Sock /\ Server(p) \in Sock /\ ~IsClient(Server(p))
  /\ ~IsClient(NoOwner)
  /\ \A p, q \in Party :
       /\ Server(p) # NoOwner /\ Client(p) # NoOwner
       /\ Server(p) = Server(q) => p = q
       /\ Client(p) = Client(q) => p = q
       /\ Client(p) # Server(q)
  /\ Conn \subseteq Party
<1>1. Conn \subseteq Party
  BY DEF Party
<1>2. \A p \in Party : Client(p) \in Sock /\ Server(p) \in Sock
  BY DEF Client, Server, Sock
<1>3. \A p, q \in Party :
        /\ Server(p) = Server(q) => p = q
        /\ Client(p) = Client(q) => p = q
        /\ Client(p) # Server(q)
  BY DEF Client, Server
<1> QED BY <1>1, <1>2, <1>3, ProxyAssumption DEF IsClient

LEMMA SocketOpensKeeps ==
  ASSUME IInv, NEW t \in Tid, Socket(t), th[t].left > 0, FreeFds # {}
  PROVE  IInv'
<1> DEFINE f == Lowest(FreeFds)
           d == Origin(t)
<1>1. Types /\ HandsInv /\ HeadsReal /\ ServersOK /\ At(t, "socket")
  BY DEF IInv, Socket
<1>2. f \in Fd /\ owner[f] = NoOwner
  BY FreeFdFacts
<1>3. d \in Party /\ Server(d) \in Sock
  BY <1>1, OriginFacts, NamesDiffer
<1>4. th' = [th EXCEPT ![t].at = "connect", ![t].sfd = f] /\ owner' = [owner EXCEPT ![f] = Server(d)]
  BY <1>1, ThreadIs, Sizes DEF Socket
<1>5. UNCHANGED <<waiting, stream, done, cells, main, peers>>
  BY DEF Socket
<1> HIDE DEF f, d
<1>6. /\ Moves(t) /\ th'[t].at = "connect" /\ th'[t].sfd = f
      /\ th'[t].cfd = th[t].cfd /\ th'[t].head = th[t].head /\ th'[t].left = th[t].left
      /\ th'[t].buf = th[t].buf /\ th'[t].line = th[t].line
  <2> DEFINE r == [th[t] EXCEPT !.at = "connect", !.sfd = f]
  <2>1. th[t] \in Thread
    BY <1>1, ThreadIs
  <2>2. Becomes(t, r)
    BY <1>1, <1>4, ThreadIs DEF Becomes
  <2>3. r \in Thread
    BY <1>2, <2>1, PlacesFacts DEF Thread
  <2>4. /\ r.at = "connect" /\ r.sfd = f
        /\ r.cfd = th[t].cfd /\ r.head = th[t].head /\ r.left = th[t].left
        /\ r.buf = th[t].buf /\ r.line = th[t].line
    BY <2>1 DEF Thread
  <2> HIDE DEF r
  <2> QED BY <1>1, <2>2, <2>3, <2>4, BecomesFacts
<1>7. RoomAt(t)' /\ HeadAt(t)' /\ f # NoFd
  BY <1>1, <1>2, <1>6, ThreadIs, NoFdIsNone DEF RoomAt, HeadAt, At, HeadsReal
<1>8. Keeps(t) /\ ClientsStay
  <2>1. owner \in [Fd -> Sock \cup {NoOwner}]
    BY <1>1 DEF Types, SocketsTyped
  <2>2. ClientsStay
    BY <1>2, <1>3, <1>4, <2>1, NamesDiffer DEF ClientsStay
  <2> QED BY <1>1, <1>5, <1>6, <1>7, <2>2 DEF Keeps, Serving, At, peers
<1>9. /\ HandsInv'
      /\ \A u \in Tid : HandOf(u)' = HandOf(u) /\ Origin(u)' = Origin(u)
      /\ MainHand' = MainHand
  BY <1>1, <1>8, KeepsHands
<1>10. Types'
  <2>1. SocketsTyped'
    BY <1>1, <1>2, <1>3, <1>4, <1>5 DEF Types, SocketsTyped
  <2>2. MainTyped' /\ PeersTyped'
    BY <1>1, <1>5 DEF Types, MainTyped, PeersTyped, peers
  <2> QED BY <1>1, <1>6, <1>7, <2>1, <2>2, RoomKept DEF Types
<1>11. HeadsReal'
  BY <1>1, <1>5, <1>6, <1>7, <1>9 DEF HeadsReal, HeadAt, Moves, At, peers
<1>12. ServersOK'
  <2>1. \A g \in Fd : owner'[g] = IF g = f THEN Server(d) ELSE owner[g]
    BY <1>1, <1>2, <1>4 DEF Types, SocketsTyped
  <2>2. ASSUME d \in Conn
        PROVE  /\ th[t].cfd \in Fd /\ HandOf(t) = th[t].cfd
               /\ owner[th[t].cfd] = Client(d)
    <3>1. th[t].cfd # NoFd
      BY <2>2, ProxyAssumption DEF d, Origin, Nobody, Conn
    <3> QED BY <1>1, <3>1, OriginFacts, ThreadIs DEF d
  <2>3. \A g \in Fd : owner[g] = Server(d) => d \notin Conn
    BY <1>1, <2>2 DEF ServersOK, Unserved, At
  <2>4. \A c \in Conn : d = c => c \notin waiting /\ \A g \in Fd : owner[g] = Client(c) =>
          /\ MainHand # g
          /\ \A u \in Tid : HandOf(u) = g => u = t
    <3> SUFFICES ASSUME d \in Conn
                 PROVE  d \notin waiting /\ \A g \in Fd : owner[g] = Client(d) =>
                          /\ MainHand # g
                          /\ \A u \in Tid : HandOf(u) = g => u = t
      OBVIOUS
    <3>1. \A g \in Fd : owner[g] = Client(d) => g = th[t].cfd
      BY <1>1, <2>2 DEF HandsInv, ClientsOnce
    <3> QED BY <1>1, <2>2, <3>1 DEF HandsInv, ClientsOnce, Held
  <2>5. th'[t].at \notin Unserved /\ \A u \in Tid \ {t} : th'[u] = th[u]
    BY <1>6 DEF Moves, Unserved
  <2>6. ASSUME NEW h \in Fd, NEW c \in Conn, owner'[h] = Server(c)
        PROVE  /\ c \notin waiting
               /\ \A g \in Fd : owner'[g] = Client(c) =>
                    MainHand # g /\ \A u \in Tid : HandOf(u) = g => th'[u].at \notin Unserved
               /\ \A g \in Fd : owner'[g] = Server(c) => h = g
               /\ (\E u \in Tid : th'[u].sfd = h) \/ forwarded[c] # <<>>
    <3>0. c \in Party
      BY NamesDiffer
    <3>1. CASE h = f
      <4>1. c = d
        BY <1>3, <2>1, <2>6, <3>0, <3>1, NamesDiffer
      <4> QED BY <1>3, <1>6, <2>1, <2>3, <2>4, <2>5, <3>1, <4>1, NamesDiffer
    <3>2. CASE h # f
      <4>1. owner[h] = Server(c) /\ c # d
        BY <2>1, <2>3, <2>6, <3>2
      <4>2. \A g \in Fd :
              /\ owner'[g] = Client(c) => owner[g] = Client(c)
              /\ owner'[g] = Server(c) => owner[g] = Server(c)
        BY <1>3, <2>1, <3>0, <4>1, NamesDiffer
      <4>3. th[t].sfd = NoFd
        BY <1>1 DEF HandsInv, PlacesOK, Serving, At
      <4>4. (\E u \in Tid : th'[u].sfd = h) \/ forwarded[c] # <<>>
        BY <1>1, <2>5, <4>1, <4>3, NoFdIsNone DEF ServersOK
      <4>5. \A g \in Fd : owner[g] = Client(c) =>
              MainHand # g /\ \A u \in Tid : HandOf(u) = g => th'[u].at \notin Unserved
        BY <1>1, <2>5, <4>1 DEF ServersOK
      <4> QED BY <1>1, <4>1, <4>2, <4>4, <4>5 DEF ServersOK
    <3> QED BY <3>1, <3>2
  <2>7. ASSUME NEW u \in Tid, th'[u].sfd # NoFd
        PROVE  owner'[th'[u].sfd] = Server(Origin(u)) /\ (u # t => th'[u].sfd # f)
    <3>1. CASE u = t
      BY <1>2, <1>6, <2>1, <3>1 DEF d
    <3>2. CASE u # t
      <4>1. th'[u].sfd = th[u].sfd /\ th[u].sfd \in Fd /\ owner[th[u].sfd] = Server(Origin(u))
        BY <1>1, <2>5, <2>7, <3>2, ThreadIs DEF ServersOK
      <4>2. th[u].sfd # f
        BY <1>1, <1>2, <4>1, OriginFacts, NamesDiffer
      <4> QED BY <2>1, <4>1, <4>2
    <3> QED BY <3>1, <3>2
  <2>8. \A s, u \in Tid : th'[s].sfd # NoFd /\ th'[s].sfd = th'[u].sfd => s = u
    BY <1>1, <1>6, <2>5, <2>7 DEF ServersOK
  <2>9. waiting' = waiting /\ forwarded' = forwarded
    BY <1>5 DEF peers
  <2> QED BY <1>9, <2>6, <2>7, <2>8, <2>9 DEF ServersOK
<1> QED BY <1>9, <1>10, <1>11, <1>12 DEF IInv

\* open_clientfd, or send_request, fails and closes the socket it has.
Drops(t) ==
  /\ Keeps(t)
  /\ th[t].at \in {"connect", "send"} /\ th'[t].at \in {"socket", "close"}
  /\ th'[t].at = "socket" => th[t].at = "connect"
  /\ th'[t].sfd = NoFd /\ owner' = Closed(th[t].sfd) /\ UNCHANGED <<forwarded, unsent>>

LEMMA DropsKeeps ==
  ASSUME IInv, NEW t \in Tid, Drops(t) PROVE IInv'
<1> DEFINE f == th[t].sfd
<1>1. /\ Types /\ HandsInv /\ HeadsReal /\ ServersOK
      /\ f \in Fd \cup {NoFd} /\ owner \in [Fd -> Sock \cup {NoOwner}]
  BY ThreadIs DEF IInv, Types, SocketsTyped
<1>2. \A g \in Fd : owner'[g] = IF g = f THEN NoOwner ELSE owner[g]
  BY <1>1, NoFdIsNone DEF Drops, Closed
<1>3. owner' \in [Fd -> Sock \cup {NoOwner}]
  BY <1>1, NoFdIsNone DEF Drops, Closed
<1>4. f \in Fd => owner[f] = Server(Origin(t))
  BY <1>1, NoFdIsNone DEF ServersOK
<1>5. ClientsStay
  <2>1. Origin(t) \in Party
    BY <1>1, OriginFacts
  <2> QED BY <1>2, <1>4, <2>1, NamesDiffer DEF ClientsStay
<1>6. /\ HandsInv'
      /\ \A u \in Tid : HandOf(u)' = HandOf(u) /\ Origin(u)' = Origin(u)
      /\ MainHand' = MainHand
  BY <1>1, <1>5, KeepsHands DEF Drops
<1>7. Types'
  <2>1. SocketsTyped'
    BY <1>1, <1>3 DEF Types, SocketsTyped, Drops, Keeps
  <2>2. MainTyped' /\ PeersTyped'
    BY <1>1 DEF Types, MainTyped, PeersTyped, Drops, Keeps
  <2> QED BY <1>1, <2>1, <2>2, RoomKept DEF Types, Drops, Keeps
<1>8. HeadsReal'
  BY <1>1, <1>6 DEF HeadsReal, HeadAt, Drops, Keeps, Moves
<1>9. ServersOK'
  <2>1. \A u \in Tid \ {t} : th'[u] = th[u]
    BY DEF Drops, Keeps, Moves
  <2>2. ASSUME NEW h \in Fd, NEW c \in Conn, owner'[h] = Server(c)
        PROVE  owner[h] = Server(c) /\ h # f
    BY <1>2, <2>2, NamesDiffer
  <2>3. ASSUME NEW h \in Fd, NEW c \in Conn, owner[h] = Server(c), h # f,
               NEW g \in Fd, owner[g] = Client(c), HandOf(t) = g, th'[t].at = "socket"
        PROVE  FALSE
    <3>1. th[t].at = "connect" /\ f \in Fd
      BY <1>1, <2>3 DEF Drops, HandsInv, PlacesOK, At
    <3>2. th[t].cfd = g
      BY <2>3, <3>1 DEF HandOf, At
    <3>3. Client(Origin(t)) = Client(c) /\ Origin(t) \in Conn
      BY <1>1, <2>3, <3>2, OriginFacts
    <3>4. owner[f] = Server(c)
      BY <1>4, <3>1, <3>3, NamesDiffer
    <3> QED BY <1>1, <2>3, <3>1, <3>4 DEF ServersOK
  <2>4. ASSUME NEW h \in Fd, NEW c \in Conn, owner[h] = Server(c), h # f
        PROVE  /\ c \notin waiting
               /\ \A g \in Fd : owner[g] = Client(c) =>
                    MainHand # g /\ \A u \in Tid : HandOf(u) = g => th'[u].at \notin Unserved
               /\ \A g \in Fd : owner[g] = Server(c) => h = g
               /\ (\E u \in Tid : th'[u].sfd = h) \/ forwarded[c] # <<>>
    <3>1. \A g \in Fd : owner[g] = Client(c) =>
            MainHand # g /\ \A u \in Tid : HandOf(u) = g => th'[u].at \notin Unserved
      <4> SUFFICES ASSUME NEW g \in Fd, owner[g] = Client(c), NEW u \in Tid, HandOf(u) = g
                   PROVE  th'[u].at \notin Unserved
        BY <1>1, <2>4 DEF ServersOK
      <4>1. CASE u = t
        BY <2>3, <2>4, <4>1 DEF Drops, Unserved
      <4>2. CASE u # t
        BY <1>1, <2>1, <2>4, <4>2 DEF ServersOK
      <4> QED BY <4>1, <4>2
    <3>2. (\E u \in Tid : th'[u].sfd = h) \/ forwarded[c] # <<>>
      BY <1>1, <2>1, <2>4 DEF ServersOK
    <3> QED BY <1>1, <2>4, <3>1, <3>2 DEF ServersOK
  <2>5. \A g \in Fd, c \in Conn :
          /\ owner'[g] = Client(c) => owner[g] = Client(c)
          /\ owner'[g] = Server(c) => owner[g] = Server(c)
    BY <1>2, NamesDiffer
  <2>6. ASSUME NEW u \in Tid, th'[u].sfd # NoFd
        PROVE  u # t /\ th'[u].sfd = th[u].sfd /\ owner'[th'[u].sfd] = Server(Origin(u))
    <3>1. u # t /\ th'[u].sfd = th[u].sfd
      BY <2>1, <2>6 DEF Drops
    <3>2. th[u].sfd # f /\ th[u].sfd \in Fd /\ owner[th[u].sfd] = Server(Origin(u))
      BY <1>1, <2>6, <3>1, ThreadIs DEF ServersOK
    <3> QED BY <1>2, <3>1, <3>2
  <2>7. \A s, u \in Tid : th'[s].sfd # NoFd /\ th'[s].sfd = th'[u].sfd => s = u
    BY <1>1, <2>6 DEF ServersOK
  <2>8. waiting' = waiting /\ forwarded' = forwarded
    BY DEF Drops, Keeps
  <2>9. ASSUME NEW h \in Fd, NEW c \in Conn, owner'[h] = Server(c)
        PROVE  /\ c \notin waiting
               /\ \A g \in Fd : owner'[g] = Client(c) =>
                    MainHand # g /\ \A u \in Tid : HandOf(u) = g => th'[u].at \notin Unserved
               /\ \A g \in Fd : owner'[g] = Server(c) => h = g
               /\ (\E u \in Tid : th'[u].sfd = h) \/ forwarded[c] # <<>>
    <3>1. owner[h] = Server(c) /\ h # f
      BY <2>2, <2>9
    <3> HIDE DEF f
    <3> QED BY <2>4, <2>5, <3>1
  <2> QED BY <1>6, <2>6, <2>7, <2>8, <2>9 DEF ServersOK
<1> QED BY <1>6, <1>7, <1>8, <1>9 DEF IInv

LEMMA SocketKeeps ==
  ASSUME IInv, NEW t \in Tid, Socket(t) PROVE IInv'
<1>1. /\ Types /\ th[t].at = "socket" /\ th[t].sfd = NoFd /\ th[t].head # <<>>
      /\ th[t].left \in Tries /\ th[t].left \in Nat
  BY ThreadIs, Sizes DEF IInv, HeadsReal, HandsInv, PlacesOK, Serving, Socket, At, Tries
<1>2. CASE th[t].left > 0 /\ FreeFds # {}
  BY <1>2, SocketOpensKeeps
<1>3. CASE ~(th[t].left > 0 /\ FreeFds # {})
  <2>1. UNCHANGED <<waiting, sockets, cells, main, peers>>
    BY <1>1, <1>3 DEF Socket, sockets
  <2>2. Quiet(t) /\ th'[t].at \in {"send", "socket"} /\ th'[t].sfd = NoFd
    <3>1. CASE Go(t, "send")
      <4> DEFINE place == "send"
      <4>1. place \in {"send", "write"} /\ Go(t, place)
        BY <3>1
      <4> HIDE DEF place
      <4>2. Quiet(t) /\ th'[t].at = place /\ th'[t].sfd = th[t].sfd
        BY <1>1, <4>1, GoesFacts
      <4> QED BY <1>1, <4>2 DEF place
    <3>2. CASE th[t].left > 0 /\ th' = [th EXCEPT ![t].left = @ - 1]
      <4> DEFINE at == "socket"
                 n == th[t].left - 1
                 head == th[t].head
                 line == th[t].line
                 rest == th[t].buf
      <4>1. Replaced(t, at, n, head, line, rest)
        BY <1>1, <3>2, ThreadIs DEF Replaced, Becomes, Thread
      <4>2. n \in Tries
        BY <1>1, <3>2 DEF Tries
      <4>3. /\ head \in Seq(HeadByte) /\ line \in Seq(SockByte)
            /\ rest \in Seq(SockByte) /\ at \in Places
            /\ Len(rest) <= BufSize /\ Len(line) <= MaxLine /\ head # <<>>
        BY <1>1, ThreadIs DEF Places, RoomAt
      <4> HIDE DEF at, n, head, line, rest
      <4>4. /\ Moves(t) /\ th'[t].at = at /\ th'[t].head = head
            /\ th'[t].line = line /\ th'[t].buf = rest
            /\ th'[t].cfd = th[t].cfd /\ th'[t].sfd = th[t].sfd
        BY <1>1, <4>1, <4>2, <4>3, ReplacedFacts
      <4> QED BY <1>1, <4>3, <4>4 DEF Quiet, RoomAt, HeadAt, At, at
    <3> QED BY <1>1, <1>3, <3>1, <3>2 DEF Socket
  <2>3. Talks(t)
    BY <1>1, <2>1, <2>2 DEF Talks, Types, SocketsTyped, PeersTyped, Unserved, sockets, peers
  <2> QED BY <2>3, TalksKeeps
<1> QED BY <1>2, <1>3

LEMMA ConnectKeeps ==
  ASSUME IInv, NEW t \in Tid, Connect(t) PROVE IInv'
<1>1. /\ Types /\ th[t].at = "connect" /\ th[t].sfd # NoFd /\ th[t].head # <<>>
      /\ th[t].left \in Tries /\ th[t].left > 0
      /\ UNCHANGED <<waiting, stream, done, cells, main, peers>>
  BY ThreadIs DEF IInv, HeadsReal, HandsInv, PlacesOK, Connect, At, RoomAt
<1>2. CASE Go(t, "send") /\ owner' = owner
  <2> DEFINE place == "send"
  <2>1. place \in {"send", "write"} /\ Go(t, place)
    BY <1>2
  <2> HIDE DEF place
  <2>2. Quiet(t) /\ th'[t].at = place /\ th'[t].sfd = th[t].sfd
    BY <1>1, <2>1, GoesFacts
  <2>3. Talks(t)
    BY <1>1, <1>2, <2>2
    DEF Talks, Types, SocketsTyped, PeersTyped, Unserved, Serving, peers, place
  <2> QED BY <2>3, TalksKeeps
<1>3. CASE /\ th' = [th EXCEPT ![t].at = "socket", ![t].sfd = NoFd, ![t].left = @ - 1]
           /\ owner' = Closed(th[t].sfd)
  <2> DEFINE r == [th[t] EXCEPT !.at = "socket", !.sfd = NoFd, !.left = th[t].left - 1]
  <2>1. th[t] \in Thread /\ th[t].left - 1 \in Tries
    BY <1>1, ThreadIs DEF Tries
  <2>2. Becomes(t, r)
    BY <1>1, <1>3, ThreadIs DEF Becomes
  <2>3. r \in Thread
    BY <2>1, PlacesFacts DEF Thread
  <2>4. /\ r.at = "socket" /\ r.sfd = NoFd
        /\ r.cfd = th[t].cfd /\ r.head = th[t].head
        /\ r.buf = th[t].buf /\ r.line = th[t].line
    BY <2>1 DEF Thread
  <2> HIDE DEF r
  <2>5. Moves(t) /\ th'[t] = r
    BY <1>1, <2>2, <2>3, BecomesFacts
  <2>6. RoomAt(t)' /\ HeadAt(t)'
    BY <1>1, <2>4, <2>5, ThreadIs DEF RoomAt, HeadAt, At
  <2>7. Drops(t)
    BY <1>1, <1>3, <2>4, <2>5, <2>6 DEF Drops, Keeps, peers
  <2> QED BY <2>7, DropsKeeps
<1> QED BY <1>2, <1>3 DEF Connect

\* request[] is filled with something, and holds it.
LEMMA RequestFacts ==
  ASSUME NEW head \in Seq(HeadByte)
  PROVE  Request(head) \in Seq(HeadByte) /\ Len(Request(head)) \in 1 .. RequestSize
<1> DEFINE all == Append(head, Agent)
           n   == Least(Len(head) + 1, RequestSize)
<1>1. Len(head) \in Nat /\ RequestSize \in Nat \ {0}
  BY LenProperties, ProxyAssumption
<1>2. all \in Seq(HeadByte) /\ Len(all) = Len(head) + 1
  <2>1. Agent \in HeadByte
    BY DEF HeadByte
  <2> QED BY <2>1, AppendProperties
<1>3. n \in 0 .. Len(all) /\ n \in 1 .. RequestSize
  BY <1>1, <1>2 DEF Least
<1> HIDE DEF all, n
<1>4. SubSeq(all, 1, n) \in Seq(HeadByte) /\ Len(SubSeq(all, 1, n)) = n
  BY <1>2, <1>3, SplitFacts
<1> QED BY <1>3, <1>4 DEF Request, all, n

LEMMA SendKeeps ==
  ASSUME IInv, NEW t \in Tid, Send(t) PROVE IInv'
<1>1. /\ Types /\ HandsInv /\ th[t].at = "send" /\ th[t].head # <<>>
      /\ th[t].head \in Seq(HeadByte)
      /\ UNCHANGED <<waiting, stream, done, cells, main, got>>
  BY ThreadIs DEF IInv, HeadsReal, Send, At
<1>2. ASSUME NEW k \in 1 .. Len(Request(th[t].head)),
             forwarded' = [forwarded EXCEPT ![Origin(t)] = SubSeq(Request(th[t].head), 1, k)],
             unsent' = [unsent EXCEPT ![Origin(t)] = Len(Request(th[t].head)) - k],
             th' = [th EXCEPT ![t].at = "relay", ![t].left = 0,
                              ![t].buf = <<>>, ![t].head = <<>>],
             owner' = owner
      PROVE  IInv'
  <2>1. PICK sent, rest : /\ sent = SubSeq(Request(th[t].head), 1, k)
                          /\ rest = Len(Request(th[t].head)) - k
    OBVIOUS
  <2>2. /\ Request(th[t].head) \in Seq(HeadByte)
        /\ Len(Request(th[t].head)) \in 1 .. RequestSize
    BY <1>1, RequestFacts
  <2>3. sent \in Seq(HeadByte) /\ sent # <<>> /\ rest \in 0 .. RequestSize - 1
    <3>1. k \in 0 .. Len(Request(th[t].head)) /\ k # 0
      BY <1>2, <2>2
    <3>2. sent \in Seq(HeadByte) /\ Len(sent) = k
      BY <2>1, <2>2, <3>1, SplitFacts
    <3>3. sent # <<>>
      BY <3>1, <3>2, Sizes
    <3>4. rest \in 0 .. RequestSize - 1
      BY <1>2, <2>1, <2>2, ProxyAssumption
    <3> QED BY <3>2, <3>3, <3>4
  <2>4. /\ forwarded' = [forwarded EXCEPT ![Origin(t)] = sent]
        /\ unsent' = [unsent EXCEPT ![Origin(t)] = rest]
    BY <1>2, <2>1
  <2>5. /\ PeersTyped' /\ forwarded'[Origin(t)] # <<>>
        /\ \A p \in Party : forwarded[p] # <<>> => forwarded'[p] # <<>>
    <3>1. Origin(t) \in Party
      BY <1>1, OriginFacts
    <3> QED BY <1>1, <2>3, <2>4, <3>1 DEF Types, PeersTyped
  <2>6. /\ Quiet(t) /\ th'[t].at = "relay" /\ th'[t].sfd = th[t].sfd
    <3> DEFINE at == "relay"
               m == 0
               none == <<>>
               line == th[t].line
    <3>1. Replaced(t, at, m, none, line, none)
      BY <1>1, <1>2, ThreadIs DEF Replaced, Becomes, Thread
    <3>2. /\ m \in Tries /\ at \in Places /\ line \in Seq(SockByte)
          /\ none \in Seq(SockByte) /\ none \in Seq(HeadByte) /\ Len(line) <= MaxLine
      BY <1>1, ThreadIs, PlacesFacts, Sizes DEF RoomAt
    <3> HIDE DEF m, at, none, line
    <3>3. /\ Moves(t) /\ th'[t].at = at
          /\ th'[t].line = line /\ th'[t].buf = none
          /\ th'[t].cfd = th[t].cfd /\ th'[t].sfd = th[t].sfd
      BY <1>1, <3>1, <3>2, ReplacedFacts
    <3> QED BY <3>2, <3>3, Sizes DEF Quiet, RoomAt, HeadAt, At, at, none
  <2>7. Talks(t)
    BY <1>1, <1>2, <2>5, <2>6 DEF Talks, Types, SocketsTyped, Unserved, Serving
  <2> QED BY <2>7, TalksKeeps
<1>3. CASE /\ owner' = Closed(th[t].sfd) /\ th' = Returned(t)
           /\ UNCHANGED <<forwarded, unsent>>
  <2>1. Quiet(t) /\ th'[t].at = "close" /\ th'[t].sfd = NoFd
    BY <1>1, <1>3, ReturnedFacts
  <2>2. Drops(t)
    BY <1>1, <1>3, <2>1 DEF Drops, Keeps, Quiet
  <2> QED BY <2>2, DropsKeeps
<1> QED BY <1>2, <1>3 DEF Send

-----------------------------------------------------------------------------
(***************************************************************************)
(* The threads and main hand a descriptor over and close it.               *)
(***************************************************************************)
LEMMA StartKeeps ==
  ASSUME IInv, NEW t \in Tid, Start(t) PROVE IInv'
<1> DEFINE k == th[t].cell
           x == cells[k]
           r == [th[t] EXCEPT !.at = "request", !.cell = 0, !.cfd = x]
<1>1. /\ Types /\ HandsInv /\ HeadsReal /\ ServersOK
      /\ th[t].at = "start" /\ th[t].cfd = NoFd /\ th[t].sfd = NoFd
      /\ k \in Cell /\ x \in Fd \cup {NoFd}
  BY ThreadIs DEF IInv, HandsInv, CellsOK, PlacesOK, Serving, Types, MainTyped, Start, At
<1>2. /\ UNCHANGED <<waiting, stream, done, owner, main, peers>>
      /\ cells' = [cells EXCEPT ![k] = NoCell]
  BY DEF Start, sockets
<1>3. /\ Moves(t) /\ th'[t].at = "request" /\ th'[t].cfd = x /\ th'[t].sfd = NoFd
      /\ th'[t].line = th[t].line /\ th'[t].buf = th[t].buf
  <2>1. th[t] \in Thread
    BY <1>1, ThreadIs
  <2>2. Becomes(t, r)
    BY <1>1, ThreadIs DEF Becomes, Start
  <2>3. r \in Thread
    BY <1>1, <2>1, PlacesFacts, Sizes DEF Thread
  <2>4. /\ r.at = "request" /\ r.cfd = x /\ r.sfd = NoFd
        /\ r.line = th[t].line /\ r.buf = th[t].buf
    BY <1>1, <2>1 DEF Thread
  <2> HIDE DEF r
  <2> QED BY <1>1, <2>2, <2>3, <2>4, BecomesFacts
<1>4. /\ \A c \in Cell : cells'[c] = IF c = k THEN NoCell ELSE cells[c]
      /\ cells' \in [Cell -> Fd \cup {NoFd, NoCell}]
  BY <1>1, <1>2 DEF Types, MainTyped
<1>5. Types'
  <2>1. RoomAt(t)'
    BY <1>1, <1>3, ThreadIs DEF RoomAt, At
  <2>2. SocketsTyped' /\ MainTyped' /\ PeersTyped'
    BY <1>1, <1>2, <1>4 DEF Types, SocketsTyped, MainTyped, PeersTyped, peers
  <2> QED BY <1>1, <1>3, <2>1, <2>2, RoomKept DEF Types
<1>6. \A u \in Tid \ {t} : th'[u] = th[u] /\ (At(u, "start") => th[u].cell # k /\ th[u].cell \in Cell)
  BY <1>1, <1>3, ThreadIs DEF Moves, HandsInv, CellsOK, At
<1>7. \A u \in Tid : HandOf(u)' = HandOf(u)
  BY <1>1, <1>3, <1>4, <1>6 DEF HandOf, At
<1>8. main.at = "spawn" => main.cell # k /\ main.cell \in Cell
  BY <1>1 DEF HandsInv, CellsOK, At, Types, MainTyped
<1>9. MainHand' = MainHand
  BY <1>2, <1>4, <1>8 DEF MainHand
<1>10. \A u \in Tid \ {t} : Origin(u)' = Origin(u)
  BY <1>2, <1>6 DEF Origin
<1> HIDE DEF k, x
<1>11. CellsOK'
  BY <1>1, <1>2, <1>3, <1>4, <1>6, <1>8 DEF HandsInv, CellsOK, At
<1>12. PlacesOK'
  BY <1>1, <1>3, <1>6 DEF HandsInv, PlacesOK, At
<1>13. Held' /\ ClientsOnce'
  BY <1>1, <1>2, <1>7, <1>9 DEF HandsInv, Held, ClientsOnce
<1>14. HeadsReal'
  BY <1>1, <1>2, <1>3, <1>6, <1>10 DEF HeadsReal, peers
<1>15. ServersOK'
  <2>1. \A u \in Tid : th'[u].at \in Unserved => th[u].at \in Unserved
    BY <1>1, <1>6 DEF Unserved
  <2>2. \A u \in Tid : th'[u].sfd = th[u].sfd
    BY <1>1, <1>3, <1>6
  <2>3. \A u \in Tid : th[u].sfd # NoFd => Origin(u)' = Origin(u)
    BY <1>1, <1>10
  <2> QED BY <1>1, <1>2, <1>7, <1>9, <2>1, <2>2, <2>3 DEF ServersOK, peers
<1> QED BY <1>5, <1>11, <1>12, <1>13, <1>14, <1>15 DEF IInv, HandsInv

LEMMA SpawnKeeps ==
  ASSUME IInv, Spawn PROVE IInv'
<1> DEFINE r == [NoThread EXCEPT !.at = "start", !.cell = main.cell]
<1>1. /\ Types /\ HandsInv /\ HeadsReal /\ ServersOK
      /\ main.at = "spawn" /\ main.cell \in Cell
  BY DEF IInv, Types, MainTyped, Spawn
<1>2. UNCHANGED <<waiting, sockets, cells, peers>> /\ main' = [main EXCEPT !.at = "accept"]
  BY DEF Spawn
<1>3. PICK t \in Tid : At(t, "none") /\ Becomes(t, r)
  <2> DEFINE S == {u \in Tid : At(u, "none")}
             low == Lowest(S)
  <2>1. S \in SUBSET Nat /\ S # {}
    BY ProxyAssumption DEF Spawn, Tid
  <2>2. low \in S
    <3> HIDE DEF S
    <3> QED BY <2>1, LowestFacts
  <2>3. th' = [th EXCEPT ![low] = r]
    BY DEF Spawn
  <2>4. low \in Tid /\ At(low, "none")
    BY <2>2
  <2> HIDE DEF low, r
  <2> QED BY <2>3, <2>4 DEF Becomes
<1>4. th[t].at = "none" /\ th[t].cfd = NoFd /\ th[t].sfd = NoFd
  BY <1>1, <1>3 DEF HandsInv, PlacesOK, Serving, At
<1>5. /\ r.at = "start" /\ r.cell = main.cell /\ r.cfd = NoFd /\ r.sfd = NoFd
      /\ r.buf = <<>> /\ r.line = <<>>
  BY DEF NoThread
<1>6. r \in Thread
  BY <1>1, Sizes, PlacesFacts DEF Thread, NoThread
<1> HIDE DEF r
<1>7. Moves(t) /\ th'[t] = r
  BY <1>1, <1>2, <1>3, <1>6, BecomesFacts
<1>8. Types'
  <2>1. RoomAt(t)'
    BY <1>5, <1>7, Sizes DEF RoomAt, At
  <2>2. SocketsTyped' /\ MainTyped' /\ PeersTyped'
    BY <1>1, <1>2 DEF Types, SocketsTyped, MainTyped, PeersTyped, sockets, peers
  <2> QED BY <1>1, <1>3, <1>7, <2>1, <2>2, RoomKept DEF Types
<1>9. \A u \in Tid \ {t} : th'[u] = th[u]
  BY <1>7 DEF Moves
<1>10. main'.at = "accept" /\ UNCHANGED <<waiting, owner, cells, forwarded>>
  BY <1>1, <1>2 DEF Types, MainTyped, sockets, peers
<1>11. /\ \A u \in Tid \ {t} : HandOf(u)' = HandOf(u) /\ Origin(u)' = Origin(u)
       /\ HandOf(t)' = MainHand /\ MainHand' = NoFd /\ HandOf(t) = NoFd
  BY <1>1, <1>3, <1>4, <1>5, <1>7, <1>9, <1>10 DEF HandOf, MainHand, Origin, At
<1>12. CellsOK'
  BY <1>1, <1>5, <1>7, <1>9, <1>10 DEF HandsInv, CellsOK, At
<1>13. PlacesOK'
  BY <1>1, <1>5, <1>7, <1>9 DEF HandsInv, PlacesOK, At
<1>14. Held' /\ ClientsOnce'
  <2>1. Held'
    BY <1>1, <1>3, <1>10, <1>11, NoFdIsNone DEF HandsInv, Held
  <2> QED BY <1>1, <1>10, <2>1 DEF HandsInv, ClientsOnce
<1>15. HeadsReal'
  BY <1>1, <1>5, <1>7, <1>9, <1>10, <1>11 DEF HeadsReal
<1>16. ServersOK'
  <2>1. \A u \in Tid : th'[u].sfd = th[u].sfd
    BY <1>4, <1>5, <1>7, <1>9
  <2>2. \A u \in Tid : th[u].sfd # NoFd => Origin(u)' = Origin(u)
    BY <1>4, <1>11
  <2>3. ASSUME NEW f \in Fd, NEW c \in Conn, owner[f] = Server(c),
               NEW g \in Fd, owner[g] = Client(c)
        PROVE  MainHand' # g /\ \A u \in Tid : HandOf(u)' = g => th'[u].at \notin Unserved
    <3>1. MainHand # g /\ \A u \in Tid : HandOf(u) = g => th[u].at \notin Unserved
      BY <1>1, <2>3 DEF ServersOK
    <3> QED BY <1>9, <1>11, <3>1, NoFdIsNone
  <2> QED BY <1>1, <1>10, <2>1, <2>2, <2>3 DEF ServersOK
<1> QED BY <1>8, <1>12, <1>13, <1>14, <1>15, <1>16 DEF IInv, HandsInv

LEMMA SpawnFailsKeeps ==
  ASSUME IInv, SpawnFails PROVE IInv'
<1>1. /\ Types /\ HandsInv /\ HeadsReal /\ ServersOK
      /\ main.at = "spawn" /\ main.cell \in Cell
      /\ MainHand = cells[main.cell] /\ MainHand \in Fd \cup {NoFd}
  BY DEF IInv, Types, MainTyped, SpawnFails, HandsInv, CellsOK, MainHand
<1> DEFINE x == MainHand
           k == main.cell
<1>2. /\ UNCHANGED <<waiting, stream, done, th, peers>>
      /\ main' = [main EXCEPT !.at = "accept"]
      /\ cells' = [cells EXCEPT ![k] = NoCell] /\ owner' = Closed(x)
  BY <1>1 DEF SpawnFails
<1>3. /\ owner' \in [Fd -> Sock \cup {NoOwner}]
      /\ \A g \in Fd : owner'[g] = IF g = x THEN NoOwner ELSE owner[g]
  BY <1>1, <1>2, NoFdIsNone DEF Closed, Types, SocketsTyped
<1>4. Types'
  BY <1>1, <1>2, <1>3
  DEF Types, SocketsTyped, MainTyped, PeersTyped, Room, At, peers
<1>5. /\ main'.at = "accept" /\ UNCHANGED <<th, waiting, forwarded>>
      /\ \A c \in Cell \ {k} : cells'[c] = cells[c]
  BY <1>1, <1>2 DEF Types, MainTyped, peers
<1>6. \A u \in Tid : At(u, "start") => th[u].cell # k /\ th[u].cell \in Cell
  BY <1>1, ThreadIs DEF HandsInv, CellsOK
<1>7. (\A u \in Tid : HandOf(u)' = HandOf(u)) /\ MainHand' = NoFd
  BY <1>5, <1>6 DEF HandOf, MainHand, At
<1>8. ASSUME NEW u \in Tid PROVE Origin(u)' = Origin(u)
  <2>1. th[u].cfd \in Fd \cup {NoFd}
    BY <1>1, ThreadIs
  <2>2. ASSUME th[u].cfd \in Fd PROVE owner'[th[u].cfd] = owner[th[u].cfd]
    BY <1>1, <1>3, <2>2, OriginFacts DEF HandsInv, Held
  <2> QED BY <1>5, <2>1, <2>2 DEF Origin
<1>9. CellsOK' /\ PlacesOK'
  BY <1>1, <1>5, <1>6 DEF HandsInv, CellsOK, PlacesOK, At
<1>10. \A g \in Fd, p \in Conn :
         /\ owner'[g] = Client(p) => owner[g] = Client(p)
         /\ owner'[g] = Server(p) => owner[g] = Server(p)
  BY <1>3, NamesDiffer
<1>11. Held'
  <2>1. \A o : IsClient(o)' <=> IsClient(o)
    BY DEF IsClient
  <2>2. \A g \in Fd : IsClient(owner'[g]) <=> IsClient(owner[g]) /\ g # x
    BY <1>3, NamesDiffer
  <2> QED BY <1>1, <1>7, <2>1, <2>2, NoFdIsNone DEF HandsInv, Held
<1>12. ClientsOnce'
  BY <1>1, <1>5, <1>10 DEF HandsInv, ClientsOnce
<1>13. HeadsReal'
  BY <1>1, <1>5, <1>8 DEF HeadsReal
<1>14. ServersOK'
  <2>1. \A u \in Tid : th[u].sfd # NoFd => owner'[th[u].sfd] = Server(Origin(u))
    <3> SUFFICES ASSUME NEW u \in Tid, th[u].sfd # NoFd
                 PROVE  owner'[th[u].sfd] = Server(Origin(u))
      OBVIOUS
    <3>1. /\ th[u].sfd \in Fd /\ owner[th[u].sfd] = Server(Origin(u))
          /\ Origin(u) \in Party
      BY <1>1, ThreadIs, OriginFacts DEF ServersOK
    <3>2. th[u].sfd # x
      BY <1>1, <3>1, NamesDiffer DEF HandsInv, Held
    <3> QED BY <1>3, <3>1, <3>2
  <2> QED BY <1>1, <1>5, <1>7, <1>8, <1>10, <2>1, NoFdIsNone DEF ServersOK
<1> QED BY <1>4, <1>9, <1>11, <1>12, <1>13, <1>14 DEF IInv, HandsInv

LEMMA CloseKeeps ==
  ASSUME IInv, NEW t \in Tid, Close(t) PROVE IInv'
<1> DEFINE r == NoThread
<1>1. /\ Types /\ HandsInv /\ HeadsReal /\ ServersOK
      /\ th[t].at = "close" /\ th[t].sfd = NoFd /\ th[t].cfd \in Fd \cup {NoFd}
  BY ThreadIs DEF IInv, HandsInv, PlacesOK, Serving, Close, At
<1>2. PICK x : x = th[t].cfd
  OBVIOUS
<1>3. /\ UNCHANGED <<waiting, stream, cells, main, peers>> /\ Becomes(t, r)
      /\ done' = [done EXCEPT ![Client(Origin(t))] = 0] /\ owner' = Closed(x)
  BY <1>2 DEF Close, Becomes
<1>4. /\ r.at = "none" /\ r.cfd = NoFd /\ r.sfd = NoFd /\ r.line = <<>> /\ r.buf = <<>>
      /\ r \in Thread
  BY Sizes, PlacesFacts DEF Thread, NoThread
<1> HIDE DEF r
<1>5. Moves(t) /\ th'[t] = r /\ \A u \in Tid \ {t} : th'[u] = th[u]
  BY <1>1, <1>3, <1>4, BecomesFacts DEF Moves
<1>6. /\ owner' \in [Fd -> Sock \cup {NoOwner}]
      /\ \A g \in Fd : owner'[g] = IF g = x THEN NoOwner ELSE owner[g]
  BY <1>1, <1>2, <1>3, NoFdIsNone DEF Closed, Types, SocketsTyped
<1>7. Types'
  <2>1. RoomAt(t)'
    BY <1>4, <1>5, Sizes DEF RoomAt, At
  <2>2. SocketsTyped'
    <3>1. done' \in [Sock -> Nat] /\ \A q \in Sock : done'[q] \in {done[q], 0}
      BY <1>1, <1>3 DEF Types, SocketsTyped
    <3>2. stream \in [Sock -> Stream] /\ \A q \in Sock : stream[q].len \in Nat
      BY <1>1 DEF Types, SocketsTyped, Stream
    <3> QED BY <1>1, <1>3, <1>6, <3>1, <3>2 DEF Types, SocketsTyped
  <2>3. MainTyped' /\ PeersTyped'
    BY <1>1, <1>3 DEF Types, MainTyped, PeersTyped, peers
  <2> QED BY <1>1, <1>5, <2>1, <2>2, <2>3, RoomKept DEF Types
<1>8. /\ \A u \in Tid \ {t} : HandOf(u)' = HandOf(u)
      /\ HandOf(t) = x /\ HandOf(t)' = NoFd /\ MainHand' = MainHand
  BY <1>1, <1>2, <1>3, <1>4, <1>5 DEF HandOf, MainHand, At
<1>9. ASSUME NEW u \in Tid \ {t} PROVE Origin(u)' = Origin(u)
  <2>1. th[u].cfd \in Fd \cup {NoFd}
    BY <1>1, ThreadIs
  <2>2. ASSUME th[u].cfd \in Fd PROVE owner'[th[u].cfd] = owner[th[u].cfd]
    <3>1. HandOf(u) = th[u].cfd
      BY <1>1, <2>2, OriginFacts
    <3> QED BY <1>1, <1>6, <1>8, <2>2, <3>1 DEF HandsInv, Held
  <2> QED BY <1>5, <2>1, <2>2 DEF Origin
<1>10. CellsOK' /\ PlacesOK'
  BY <1>1, <1>3, <1>4, <1>5 DEF HandsInv, CellsOK, PlacesOK, At
<1>11. \A g \in Fd, p \in Conn :
         /\ owner'[g] = Client(p) => owner[g] = Client(p)
         /\ owner'[g] = Server(p) => owner[g] = Server(p)
  BY <1>6, NamesDiffer
<1>12. Held'
  <2>1. \A o : IsClient(o)' <=> IsClient(o)
    BY DEF IsClient
  <2>2. \A g \in Fd : IsClient(owner'[g]) <=> IsClient(owner[g]) /\ g # x
    BY <1>6, NamesDiffer
  <2>3. /\ \A s, u \in Tid : HandOf(s)' \in Fd /\ HandOf(s)' = HandOf(u)' => s = u
        /\ \A u \in Tid : HandOf(u)' \in Fd =>
             HandOf(u)' # MainHand /\ IsClient(owner'[HandOf(u)'])
    BY <1>1, <1>8, <2>2, NoFdIsNone DEF HandsInv, Held
  <2>4. MainHand \in Fd => IsClient(owner'[MainHand])
    BY <1>1, <1>8, <2>2 DEF HandsInv, Held
  <2>5. \A f \in Fd : IsClient(owner'[f]) => MainHand = f \/ \E u \in Tid : HandOf(u)' = f
    BY <1>1, <1>8, <2>2 DEF HandsInv, Held
  <2> QED BY <1>8, <2>1, <2>3, <2>4, <2>5 DEF Held
<1>13. ClientsOnce'
  BY <1>1, <1>3, <1>11 DEF HandsInv, ClientsOnce
<1>14. HeadsReal'
  BY <1>1, <1>3, <1>4, <1>5, <1>9 DEF HeadsReal, peers
<1>15. ServersOK'
  <2>1. ASSUME NEW u \in Tid, th'[u].sfd # NoFd
        PROVE  u # t /\ th'[u].sfd = th[u].sfd /\ owner'[th'[u].sfd] = Server(Origin(u)')
    <3>1. u # t /\ th'[u].sfd = th[u].sfd
      BY <1>4, <1>5, <2>1
    <3>2. /\ th[u].sfd \in Fd /\ owner[th[u].sfd] = Server(Origin(u))
          /\ Origin(u) \in Party
      BY <1>1, <2>1, <3>1, ThreadIs, OriginFacts DEF ServersOK
    <3>3. th[u].sfd # x
      BY <1>1, <1>8, <3>2, NamesDiffer DEF HandsInv, Held
    <3> QED BY <1>6, <1>9, <3>1, <3>2, <3>3
  <2>2. \A f \in Fd : (\E u \in Tid : th[u].sfd = f) => \E u \in Tid : th'[u].sfd = f
    BY <1>1, <1>5, NoFdIsNone
  <2>3. \A g \in Fd : (\A u \in Tid : HandOf(u) = g => th[u].at \notin Unserved) =>
          \A u \in Tid : HandOf(u)' = g => th'[u].at \notin Unserved
    BY <1>5, <1>8, NoFdIsNone
  <2>4. UNCHANGED <<waiting, forwarded>>
    BY <1>3 DEF peers
  <2>5. \A s, u \in Tid : th'[s].sfd # NoFd /\ th'[s].sfd = th'[u].sfd => s = u
    BY <1>1, <2>1 DEF ServersOK
  <2>6. ASSUME NEW h \in Fd, NEW c \in Conn, owner'[h] = Server(c)
        PROVE  /\ c \notin waiting
               /\ \A g \in Fd : owner'[g] = Client(c) =>
                    MainHand # g /\ \A u \in Tid : HandOf(u)' = g => th'[u].at \notin Unserved
               /\ \A g \in Fd : owner'[g] = Server(c) => h = g
               /\ (\E u \in Tid : th'[u].sfd = h) \/ forwarded[c] # <<>>
    BY <1>1, <1>11, <2>2, <2>3, <2>6 DEF ServersOK
  <2> QED BY <1>8, <2>1, <2>4, <2>5, <2>6 DEF ServersOK
<1> QED BY <1>7, <1>10, <1>12, <1>13, <1>14, <1>15 DEF IInv, HandsInv

\* main has x in hand, in the free cell k: a new client's descriptor, or -1.
LEMMA AcceptFacts ==
  ASSUME IInv, Accept
  PROVE  \E k \in Cell, x \in Fd \cup {NoFd} :
           /\ cells[k] = NoCell /\ cells' = [cells EXCEPT ![k] = x]
           /\ main.at = "accept" /\ main' = [at |-> "spawn", cell |-> k]
           /\ \/ /\ x \in Fd /\ owner[x] = NoOwner
                 /\ \E c \in waiting : /\ owner' = [owner EXCEPT ![x] = Client(c)]
                                       /\ waiting' = waiting \ {c}
              \/ x = NoFd /\ owner' = owner /\ waiting' \subseteq waiting
<1> DEFINE k == Lowest(FreeCells)
           f == Lowest(FreeFds)
           c == Lowest(waiting)
<1>1. waiting \subseteq Conn /\ FreeCells # {} /\ main.at = "accept"
  BY DEF IInv, Types, MainTyped, Accept
<1>2. k \in Cell /\ cells[k] = NoCell
  <2>1. FreeCells \in SUBSET Nat
    BY ProxyAssumption DEF FreeCells, Cell
  <2>2. k \in FreeCells
    BY <1>1, <2>1, LowestFacts
  <2> QED BY <2>2 DEF FreeCells
<1>3. FreeFds # {} => f \in Fd /\ owner[f] = NoOwner
  BY FreeFdFacts
<1>4. waiting # {} => c \in waiting
  <2>1. waiting \in SUBSET Nat
    BY <1>1, ProxyAssumption DEF Conn
  <2> QED BY <2>1, LowestFacts
<1>5. /\ main' = [at |-> "spawn", cell |-> k]
      /\ \/ /\ waiting # {} /\ FreeFds # {}
            /\ owner' = [owner EXCEPT ![f] = Client(c)]
            /\ cells' = [cells EXCEPT ![k] = f]
            /\ waiting' = waiting \ {c}
         \/ /\ cells' = [cells EXCEPT ![k] = NoFd]
            /\ waiting' \subseteq waiting /\ owner' = owner
  BY DEF Accept
<1> HIDE DEF k, f, c
<1> QED BY <1>1, <1>2, <1>3, <1>4, <1>5

LEMMA AcceptKeeps ==
  ASSUME IInv, Accept PROVE IInv'
<1>1. Types /\ HandsInv /\ HeadsReal /\ ServersOK
  BY DEF IInv
<1>2. PICK k \in Cell, x \in Fd \cup {NoFd} :
        /\ cells[k] = NoCell /\ cells' = [cells EXCEPT ![k] = x]
        /\ main.at = "accept" /\ main' = [at |-> "spawn", cell |-> k]
        /\ \/ /\ x \in Fd /\ owner[x] = NoOwner
              /\ \E c \in waiting : /\ owner' = [owner EXCEPT ![x] = Client(c)]
                                    /\ waiting' = waiting \ {c}
           \/ x = NoFd /\ owner' = owner /\ waiting' \subseteq waiting
  BY AcceptFacts
<1>3. UNCHANGED <<stream, done, th, peers>>
  BY DEF Accept
<1>4. /\ cells' \in [Cell -> Fd \cup {NoFd, NoCell}] /\ cells'[k] = x /\ x # NoCell
      /\ \A i \in Cell \ {k} : cells'[i] = cells[i]
  BY <1>1, <1>2, ProxyAssumption DEF Types, MainTyped
<1>5. /\ owner' \in [Fd -> Sock \cup {NoOwner}] /\ waiting' \subseteq waiting
      /\ \A g \in Fd \ {x} : owner'[g] = owner[g]
      /\ x \in Fd => owner[x] = NoOwner
      /\ x \in Fd => \E c \in Conn : c \in waiting /\ c \notin waiting' /\ owner'[x] = Client(c)
  <2>1. owner \in [Fd -> Sock \cup {NoOwner}] /\ waiting \subseteq Conn
    BY <1>1 DEF Types, SocketsTyped, MainTyped
  <2>2. CASE /\ x \in Fd /\ owner[x] = NoOwner
             /\ \E c \in waiting : /\ owner' = [owner EXCEPT ![x] = Client(c)]
                                   /\ waiting' = waiting \ {c}
    <3>1. PICK c \in waiting : owner' = [owner EXCEPT ![x] = Client(c)] /\ waiting' = waiting \ {c}
      BY <2>2
    <3>2. c \in Conn /\ Client(c) \in Sock
      BY <2>1, NamesDiffer
    <3> QED BY <2>1, <2>2, <3>1, <3>2
  <2>3. CASE x = NoFd /\ owner' = owner /\ waiting' \subseteq waiting
    BY <2>1, <2>3, NoFdIsNone
  <2> QED BY <1>2, <2>2, <2>3
<1>6. Types'
  BY <1>1, <1>2, <1>3, <1>4, <1>5
  DEF Types, SocketsTyped, MainTyped, PeersTyped, Room, At, peers
<1>7. main'.at = "spawn" /\ main'.cell = k /\ th' = th /\ forwarded' = forwarded
  BY <1>2, <1>3 DEF peers
<1>8. \A u \in Tid : At(u, "start") => th[u].cell # k /\ th[u].cell \in Cell
  BY <1>1, <1>2, ThreadIs DEF HandsInv, CellsOK
<1>9. /\ \A u \in Tid : HandOf(u)' = HandOf(u)
      /\ MainHand' = x /\ MainHand = NoFd
  BY <1>2, <1>4, <1>7, <1>8 DEF HandOf, MainHand, At
<1>10. \A u \in Tid : HandOf(u) \in Fd => HandOf(u) # x
  BY <1>1, <1>5, NamesDiffer DEF HandsInv, Held
<1>11. ASSUME NEW u \in Tid PROVE Origin(u)' = Origin(u)
  <2>1. th[u].cfd \in Fd \cup {NoFd}
    BY <1>1, ThreadIs
  <2>2. ASSUME th[u].cfd \in Fd PROVE owner'[th[u].cfd] = owner[th[u].cfd]
    BY <1>1, <1>5, <1>10, <2>2, OriginFacts
  <2> QED BY <1>7, <2>1, <2>2 DEF Origin
<1>12. CellsOK' /\ PlacesOK'
  BY <1>1, <1>4, <1>7, <1>8 DEF HandsInv, CellsOK, PlacesOK, At
<1>13. Held'
  <2>1. \A o : IsClient(o)' <=> IsClient(o)
    BY DEF IsClient
  <2>2. \A g \in Fd : IsClient(owner'[g]) <=> IsClient(owner[g]) \/ g = x
    BY <1>5, NamesDiffer DEF IsClient
  <2> QED BY <1>1, <1>9, <1>10, <2>1, <2>2, NoFdIsNone DEF HandsInv, Held
<1>14. ClientsOnce'
  <2>1. ASSUME NEW f \in Fd, NEW c \in Conn, owner'[f] = Client(c)
        PROVE  (f # x /\ owner[f] = Client(c) /\ c \notin waiting)
               \/ (f = x /\ c \in waiting /\ c \notin waiting')
    <3>1. CASE f = x
      BY <1>5, <2>1, <3>1, NamesDiffer
    <3>2. CASE f # x
      BY <1>1, <1>5, <2>1, <3>2 DEF HandsInv, ClientsOnce
    <3> QED BY <3>1, <3>2
  <2>2. ASSUME NEW f \in Fd, NEW c \in Conn, owner'[f] = Client(c)
        PROVE  c \notin waiting' /\ \A g \in Fd : owner'[g] = Client(c) => f = g
    <3>1. c \notin waiting'
      BY <1>5, <2>1, <2>2
    <3>2. \A g \in Fd : owner'[g] = Client(c) => f = g
      BY <1>1, <2>1, <2>2 DEF HandsInv, ClientsOnce
    <3> QED BY <3>1, <3>2
  <2> QED BY <2>2 DEF ClientsOnce
<1>15. HeadsReal'
  BY <1>1, <1>7, <1>11 DEF HeadsReal
<1>16. ServersOK'
  <2>1. \A f \in Fd, c \in Conn : owner'[f] = Server(c) => owner[f] = Server(c)
    BY <1>5, NamesDiffer
  <2>2. ASSUME NEW f \in Fd, NEW c \in Conn, owner[f] = Server(c),
               NEW g \in Fd, owner'[g] = Client(c)
        PROVE  g # x /\ owner[g] = Client(c)
    <3>1. c \notin waiting
      BY <1>1, <2>2 DEF ServersOK
    <3> QED BY <1>5, <2>2, <3>1, NamesDiffer
  <2>3. ASSUME NEW u \in Tid, th[u].sfd # NoFd
        PROVE  owner'[th[u].sfd] = Server(Origin(u))
    <3>1. /\ th[u].sfd \in Fd /\ owner[th[u].sfd] = Server(Origin(u))
          /\ Origin(u) \in Party
      BY <1>1, <2>3, ThreadIs, OriginFacts DEF ServersOK
    <3> QED BY <1>5, <3>1, NamesDiffer
  <2>4. \A s, u \in Tid : th[s].sfd # NoFd /\ th[s].sfd = th[u].sfd => s = u
    BY <1>1 DEF ServersOK
  <2>5. ASSUME NEW h \in Fd, NEW c \in Conn, owner'[h] = Server(c)
        PROVE  /\ c \notin waiting'
               /\ \A g \in Fd : owner'[g] = Client(c) =>
                    x # g /\ \A u \in Tid : HandOf(u) = g => th[u].at \notin Unserved
               /\ \A g \in Fd : owner'[g] = Server(c) => h = g
               /\ (\E u \in Tid : th[u].sfd = h) \/ forwarded[c] # <<>>
    BY <1>1, <1>5, <2>1, <2>2, <2>5 DEF ServersOK
  <2> QED BY <1>7, <1>9, <1>11, <2>3, <2>4, <2>5 DEF ServersOK
<1> QED BY <1>6, <1>12, <1>13, <1>14, <1>15, <1>16 DEF IInv, HandsInv

-----------------------------------------------------------------------------
LEMMA InitGives ==
  ASSUME Init PROVE IInv
<1>1. /\ waiting = Conn /\ done = [q \in Sock |-> 0] /\ owner = [f \in Fd |-> NoOwner]
      /\ cells = [k \in Cell |-> NoCell] /\ main = [at |-> "accept", cell |-> 0]
      /\ th = [t \in Tid |-> NoThread]
      /\ forwarded = [c \in Party |-> <<>>] /\ got = [c \in Party |-> <<>>]
      /\ unsent = [c \in Party |-> 0] /\ 0 \in 0 .. RequestSize - 1
  BY ProxyAssumption DEF Init
<1>2. stream \in [Sock -> Stream]
  <2>1. NoReply \in Stream
    BY DEF NoReply, Stream, Ending
  <2>2. UNION {Requests[c] \cup Replies[c] : c \in Conn} \subseteq Stream
    BY ProxyAssumption DEF Stream
  <2>3. stream \in [Sock -> {NoReply} \cup UNION {Requests[c] \cup Replies[c] : c \in Conn}]
    BY DEF Init
  <2> QED BY <2>1, <2>2, <2>3
<1>3. SocketsTyped
  <2>1. \A q \in Sock : stream[q].len \in Nat
    BY <1>2 DEF Stream
  <2> QED BY <1>1, <1>2, <2>1 DEF SocketsTyped
<1>4. MainTyped /\ PeersTyped
  BY <1>1, Sizes DEF MainTyped, PeersTyped
<1>5. NoThread \in Thread /\ \A t \in Tid : th[t] = NoThread
  BY <1>1, Sizes, PlacesFacts DEF Thread, NoThread
<1>6. /\ NoThread.at = "none" /\ NoThread.cfd = NoFd /\ NoThread.sfd = NoFd
      /\ NoThread.buf = <<>> /\ NoThread.line = <<>>
  BY DEF NoThread
<1>7. Types
  <2>1. th \in [Tid -> Thread]
    BY <1>1, <1>5
  <2>2. Room
    BY <1>5, <1>6, Sizes DEF Room, At
  <2> QED BY <1>3, <1>4, <2>1, <2>2 DEF Types
<1>8. main.at = "accept" /\ \A f \in Fd : owner[f] = NoOwner
  BY <1>1
<1>9. MainHand = NoFd /\ \A t \in Tid : HandOf(t) = NoFd
  BY <1>5, <1>6, <1>8 DEF MainHand, HandOf, At
<1>10. CellsOK /\ PlacesOK /\ HeadsReal
  BY <1>5, <1>6, <1>8 DEF CellsOK, PlacesOK, HeadsReal, At
<1>11. Held /\ ClientsOnce
  BY <1>8, <1>9, NoFdIsNone, NamesDiffer DEF Held, ClientsOnce
<1>12. ServersOK
  BY <1>5, <1>6, <1>8, NamesDiffer DEF ServersOK
<1> QED BY <1>7, <1>10, <1>11, <1>12 DEF IInv, HandsInv

LEMMA StutterKeeps ==
  ASSUME IInv, UNCHANGED vars PROVE IInv'
BY DEF IInv, Types, SocketsTyped, MainTyped, Room, PeersTyped, HandsInv, CellsOK,
       PlacesOK, Held, ClientsOnce, HeadsReal, ServersOK, HandOf, MainHand, Origin,
       IsClient, At, vars, sockets, peers

LEMMA NextKeeps ==
  ASSUME IInv, [Next]_vars PROVE IInv'
<1>1. CASE Main
  BY <1>1, AcceptKeeps, SpawnKeeps, SpawnFailsKeeps DEF Main
<1>2. ASSUME NEW t \in Tid, ThreadStep(t) PROVE IInv'
  <2>1. CASE RequestLine(t) \/ HeaderLine(t) \/ Relay(t) \/ Write(t)
    BY <2>1, RequestLineTalks, HeaderLineTalks, RelayTalks, WriteTalks, TalksKeeps
  <2>2. CASE Start(t)
    BY <2>2, StartKeeps
  <2>3. CASE Socket(t)
    BY <2>3, SocketKeeps
  <2>4. CASE Connect(t)
    BY <2>4, ConnectKeeps
  <2>5. CASE Send(t)
    BY <2>5, SendKeeps
  <2>6. CASE Close(t)
    BY <2>6, CloseKeeps
  <2> QED BY <1>2, <2>1, <2>2, <2>3, <2>4, <2>5, <2>6 DEF ThreadStep
<1>3. CASE UNCHANGED vars
  BY <1>3, StutterKeeps
<1> QED BY <1>1, <1>2, <1>3 DEF Next

LEMMA IInvAlways == Spec => []IInv
<1>1. Init => IInv
  BY InitGives
<1>2. IInv /\ [Next]_vars => IInv'
  BY NextKeeps
<1> QED BY <1>1, <1>2, PTL DEF Spec

-----------------------------------------------------------------------------
(***************************************************************************)
(* The NUL behind a chunk.                                                 *)
(***************************************************************************)
LEMMA StepsAlone ==
  ASSUME IInv, NEW t \in Tid, ThreadStep(t), NEW u \in Tid, u # t
  PROVE  th'[u] = th[u]
<1>1. Types /\ th \in [Tid -> Thread]
  BY DEF IInv, Types
<1>2. CASE RequestLine(t) \/ HeaderLine(t) \/ Relay(t) \/ Write(t)
  BY <1>2, RequestLineTalks, HeaderLineTalks, RelayTalks, WriteTalks DEF Talks, Quiet, Moves
<1>3. CASE Start(t) \/ Close(t)
  BY <1>1, <1>3 DEF Start, Close
<1>4. CASE Socket(t)
  BY <1>1, <1>4 DEF Socket, Go
<1>5. CASE Connect(t)
  BY <1>1, <1>5 DEF Connect, Go
<1>6. CASE Send(t)
  BY <1>1, <1>6 DEF Send, Returned
<1> QED BY <1>2, <1>3, <1>4, <1>5, <1>6 DEF ThreadStep

\* A thread that does not come to a write, and does not end.
LEMMA NulStays ==
  ASSUME NulOK, NEW t \in Tid, \A u \in Tid \ {t} : th'[u] = th[u],
         nul' = nul, th[t].at # "close", th'[t].at # "write"
  PROVE  NulOK'
BY DEF NulOK, NulAt, At

LEMMA QuietKeepsNul ==
  ASSUME IInv, NulOK, NEW t \in Tid,
         \/ Start(t) \/ RequestLine(t) \/ HeaderLine(t)
         \/ Socket(t) \/ Connect(t) \/ Send(t) \/ Write(t)
  PROVE  NulOK'
<1>1. Types /\ th \in [Tid -> Thread] /\ th[t] \in Thread
  BY ThreadIs DEF IInv
<1>2. \A u \in Tid \ {t} : th'[u] = th[u]
  BY StepsAlone DEF ThreadStep
<1>3. nul' = nul /\ th[t].at # "close"
  BY DEF Start, RequestLine, HeaderLine, Socket, Connect, Send, Write, At
<1>4. th'[t].at # "write"
  <2>1. CASE RequestLine(t) \/ HeaderLine(t)
    BY <2>1, RequestLineTalks, HeaderLineTalks DEF Reads
  <2>2. ASSUME th' = Returned(t) PROVE th'[t].at # "write"
    BY <1>1, <2>2, ReturnedFacts
  <2>3. CASE Start(t)
    BY <1>1, <2>3 DEF Start, Thread
  <2>4. CASE Socket(t)
    BY <1>1, <2>4 DEF Socket, Go, At, Thread
  <2>5. CASE Connect(t)
    BY <1>1, <2>5 DEF Connect, Go, Thread
  <2>6. CASE Send(t)
    BY <1>1, <2>2, <2>6 DEF Send, Thread
  <2>7. CASE Write(t)
    BY <1>1, <2>2, <2>7 DEF Write, Thread
  <2> QED BY <2>1, <2>3, <2>4, <2>5, <2>6, <2>7
<1> QED BY <1>2, <1>3, <1>4, NulStays

\* A thread that fills body, and one that returns.
LEMMA RelayKeepsNul ==
  ASSUME IInv, NulOK, NEW t \in Tid, Relay(t) PROVE NulOK'
<1>1. /\ Types /\ th \in [Tid -> Thread] /\ th[t] \in Thread /\ th[t].at = "relay"
      /\ th[t].line \in Seq(SockByte) /\ MaxLine \in Nat
  BY ThreadIs, Sizes DEF IInv, Relay, At
<1>2. \A u \in Tid \ {t} : th'[u] = th[u]
  BY StepsAlone DEF ThreadStep
<1>3. SUFFICES /\ nul' \in [Tid -> Int] /\ NulAt(t)'
               /\ \A u \in Tid \ {t} : nul'[u] = nul[u]
  BY <1>2 DEF NulOK, NulAt, At
<1>4. nul \in [Tid -> Int] /\ nul[t] \in -1 .. MaxLine /\ nul[t] # -1
  BY <1>1 DEF NulOK, NulAt, At
<1>5. ASSUME NEW bytes \in MayFind(t, th[t].sfd), Finds(t, th[t].sfd, bytes),
             LET k     == ChunkTakes(bytes, th[t].line)
                 chunk == th[t].line \o SubSeq(bytes, 1, k)
             IN  /\ th' = [th EXCEPT ![t].line = chunk,
                                     ![t].buf = SubSeq(bytes, k + 1, Len(bytes)),
                                     ![t].at = IF ChunkIsFull(chunk) THEN "write" ELSE @]
                 /\ nul' = [nul EXCEPT ![t] = IF ChunkIsFull(chunk) THEN Len(chunk) ELSE @]
      PROVE  /\ nul' \in [Tid -> Int] /\ NulAt(t)'
             /\ \A u \in Tid \ {t} : nul'[u] = nul[u]
  <2>1. PICK k, chunk, rest :
          /\ k = ChunkTakes(bytes, th[t].line)
          /\ chunk = th[t].line \o SubSeq(bytes, 1, k)
          /\ rest = SubSeq(bytes, k + 1, Len(bytes))
    OBVIOUS
  <2>2. /\ th' = [th EXCEPT ![t].line = chunk, ![t].buf = rest,
                            ![t].at = IF ChunkIsFull(chunk) THEN "write" ELSE @]
        /\ nul' = [nul EXCEPT ![t] = IF ChunkIsFull(chunk) THEN Len(chunk) ELSE @]
    BY <1>5, <2>1
  <2>3. /\ th'[t].at = IF ChunkIsFull(chunk) THEN "write" ELSE "relay"
        /\ th'[t].line = chunk
    BY <1>1, <2>2 DEF Thread
  <2>4. nul'[t] = IF ChunkIsFull(chunk) THEN Len(chunk) ELSE nul[t]
    BY <1>4, <2>2
  <2>5. ChunkIsFull(chunk) => Len(chunk) \in 0 .. MaxLine
    BY <1>1 DEF ChunkIsFull
  <2>6. nul'[t] \in 0 .. MaxLine
    BY <1>1, <1>4, <2>4, <2>5
  <2>7. NulAt(t)'
    BY <2>3, <2>4, <2>6 DEF NulAt, At
  <2> QED BY <1>1, <1>4, <2>2, <2>6, <2>7
<1>6. ASSUME NEW n \in -1 .. MaxLine, nul' = [nul EXCEPT ![t] = n],
             \/ th' = Returned(t)
             \/ Go(t, "write") /\ n = Len(th[t].line) /\ n >= 0
      PROVE  /\ nul' \in [Tid -> Int] /\ NulAt(t)'
             /\ \A u \in Tid \ {t} : nul'[u] = nul[u]
  <2>1. nul' \in [Tid -> Int] /\ nul'[t] = n /\ \A u \in Tid \ {t} : nul'[u] = nul[u]
    BY <1>1, <1>4, <1>6
  <2>2. CASE th' = Returned(t)
    <3>1. th'[t].at = "close"
      BY <1>1, <2>2, ReturnedFacts
    <3> QED BY <2>1, <3>1 DEF NulAt, At
  <2>3. CASE Go(t, "write") /\ n = Len(th[t].line) /\ n >= 0
    <3>1. th'[t].at = "write" /\ th'[t].line = th[t].line
      BY <1>1, <2>3 DEF Go, Thread
    <3> QED BY <2>1, <2>3, <3>1 DEF NulAt, At
  <2> QED BY <1>6, <2>1, <2>2, <2>3
<1>7. CASE th' = Returned(t) /\ nul' = nul
  <2>1. PICK n : n = nul[t]
    OBVIOUS
  <2>2. n \in -1 .. MaxLine /\ nul' = [nul EXCEPT ![t] = n]
    BY <1>4, <1>7, <2>1
  <2> QED BY <1>6, <1>7, <2>2
<1>8. CASE Go(t, "write") /\ nul' = [nul EXCEPT ![t] = Len(th[t].line)]
  <2>1. Len(th[t].line) \in 0 .. MaxLine
    BY <1>1, ThreadIs, LenProperties DEF RoomAt
  <2>2. PICK n : n = Len(th[t].line)
    OBVIOUS
  <2>3. n \in -1 .. MaxLine /\ n >= 0
    BY <1>1, <2>1, <2>2
  <2> QED BY <1>6, <1>8, <2>2, <2>3
<1>9. CASE th' = Returned(t) /\ nul' = [nul EXCEPT ![t] = -1]
  <2>1. PICK n : n = -1
    OBVIOUS
  <2>2. n \in -1 .. MaxLine
    BY <1>1, <2>1
  <2> QED BY <1>6, <1>9, <2>1, <2>2
<1> QED BY <1>5, <1>7, <1>8, <1>9 DEF Relay

LEMMA NextKeepsNul ==
  ASSUME IInv, NulOK, [Next]_vars PROVE NulOK'
<1>1. Types /\ th \in [Tid -> Thread] /\ MaxLine \in Nat
  BY Sizes DEF IInv, Types
<1>2. CASE Accept \/ SpawnFails \/ UNCHANGED vars
  BY <1>2 DEF Accept, SpawnFails, vars, NulOK, NulAt, At
<1>3. CASE Spawn
  <2>1. PICK t \in Tid : th[t].at = "none" /\ th'[t].at = "start"
                         /\ \A u \in Tid \ {t} : th'[u] = th[u]
    <3> DEFINE S == {u \in Tid : At(u, "none")}
               low == Lowest(S)
    <3>1. S \in SUBSET Nat /\ S # {}
      BY <1>3, ProxyAssumption DEF Spawn, Tid
    <3>2. low \in S
      <4> HIDE DEF S
      <4> QED BY <3>1, LowestFacts
    <3>3. th' = [th EXCEPT ![low] = [NoThread EXCEPT !.at = "start", !.cell = main.cell]]
      BY <1>3 DEF Spawn
    <3>4. low \in Tid /\ th[low].at = "none"
      BY <3>2 DEF At
    <3> HIDE DEF low
    <3> QED BY <1>1, <3>3, <3>4 DEF NoThread
  <2> QED BY <1>3, <2>1, NulStays DEF Spawn
<1>4. ASSUME NEW t \in Tid, Close(t) PROVE NulOK'
  <2>1. /\ \A u \in Tid \ {t} : th'[u] = th[u] /\ nul'[u] = nul[u]
        /\ th'[t].at = "none" /\ nul'[t] = 0 /\ nul' \in [Tid -> Int]
    BY <1>1, <1>4 DEF Close, NulOK, NoThread
  <2> QED BY <1>1, <2>1 DEF NulOK, NulAt, At
<1>5. ASSUME NEW t \in Tid, ThreadStep(t) PROVE NulOK'
  BY <1>4, <1>5, QuietKeepsNul, RelayKeepsNul DEF ThreadStep
<1> QED BY <1>2, <1>3, <1>5 DEF Next, Main

(***************************************************************************)
(* However what arrives is cut: no line with its NUL, and no chunk,        *)
(* outgrows its array (proxy.c:156, 256, 285).  The NUL behind a chunk is  *)
(* stored outside of body in two cases and no other: one place behind it   *)
(* when the chunk is full, one before it when a read failed (proxy.c:157). *)
(***************************************************************************)
THEOREM TypeCorrect == Spec => []TypeOK
<1>1. IInv /\ NulOK => TypeOK
  BY TypesGiveTypeOK DEF IInv
<1>2. Init => NulOK
  BY Sizes DEF Init, NulOK, NulAt, NoThread, At
<1>3. IInv /\ NulOK /\ [Next]_vars => NulOK'
  BY NextKeepsNul
<1> QED BY <1>1, <1>2, <1>3, IInvAlways, PTL DEF Spec

(***************************************************************************)
(* However main and the threads are scheduled, and whatever accept, the    *)
(* creation of threads and the network refuse: a client's descriptor has   *)
(* one holder as long as it is open (proxy.c:306-310, 329-343).            *)
(***************************************************************************)
THEOREM DescriptorsStayHeld == Spec => []DescriptorsHeld
<1>1. IInv => DescriptorsHeld
  BY HeldGivesHolders DEF IInv, HandsInv
<1> QED BY <1>1, IInvAlways, PTL

(***************************************************************************)
(* However many addresses a server has, a connection leaves one socket     *)
(* open at most, and none before the request was sent (csapp.c:598-616).   *)
(***************************************************************************)
THEOREM OneSocketStays == Spec => []OneServerSocket
<1>1. IInv => OneServerSocket
  BY ServersGiveOne DEF IInv
<1> QED BY <1>1, IInvAlways, PTL

------------------------------------------------------------------------------
(***************************************************************************)
(* That the proxy relays a reply in order, without a gap and to its end,   *)
(* and that a server is sent its client's request, whole and nothing more: *)
(* for any streams, any sizes of the buffers, and any way the bytes arrive *)
(* in.                                                                     *)
(***************************************************************************)

(***************************************************************************)
(* A client got a part of its reply; what its thread has of it in the      *)
(* chunk and in the buffer comes next.  Nothing was read of the reply, and *)
(* nothing got, before the request was sent.                               *)
(***************************************************************************)
Reply(c, i, j) == BytesOf(Server(c), i, j)

Before == {"start", "request", "header", "socket", "connect", "send"}

Fresh(c) == got[c] = <<>> /\ done[Server(c)] = 0

Prefix(c) == got[c] = Reply(c, 1, Len(got[c]))

Ordered(t) ==
  th[t].at \in {"relay", "write"} /\ Origin(t) \in Conn =>
    got[Origin(t)] \o th[t].line \o th[t].buf =
      Reply(Origin(t), 1, done[Server(Origin(t))])

Emptied(t) == th[t].at \in {"socket", "connect", "send"} => th[t].line = <<>>

Early(t) ==
  th[t].at \in Before /\ HandOf(t) \in Fd =>
    \A c \in Conn : owner[HandOf(t)] = Client(c) => Fresh(c)

ThreadOK(t) == Ordered(t) /\ Emptied(t) /\ Early(t)

MainOK ==
  /\ \A c \in waiting : Fresh(c)
  /\ MainHand \in Fd => \A c \in Conn : owner[MainHand] = Client(c) => Fresh(c)

RInv == (\A t \in Tid : ThreadOK(t)) /\ MainOK /\ \A c \in Conn : Prefix(c)

LEMMA RInvGives ==
  ASSUME RInv PROVE RelayedInOrder
BY DEF RInv, RelayedInOrder, Prefix, Reply, ThreadOK, Ordered, At

-----------------------------------------------------------------------------
(***************************************************************************)
(* Parts of streams.                                                       *)
(***************************************************************************)
LEMMA PartFacts ==
  ASSUME NEW q \in Sock, NEW d \in Nat, NEW k \in Nat
  PROVE  /\ BytesOf(q, d + 1, d + k) \in Seq(SockByte)
         /\ Len(BytesOf(q, d + 1, d + k)) = k
         /\ \A i \in 1 .. k : BytesOf(q, d + 1, d + k)[i] = <<q, d + i>>
<1> DEFINE s == BytesOf(q, d + 1, d + k)
<1>1. s = [i \in 1 .. k |-> <<q, d + 1 + i - 1>>]
  <2>1. (d + k) - (d + 1) + 1 = k
    OBVIOUS
  <2> QED BY <2>1 DEF BytesOf, Byte
<1>2. \A i \in 1 .. k : d + 1 + i - 1 = d + i /\ d + i \in Nat
  OBVIOUS
<1> HIDE DEF s
<1>3. s = [i \in 1 .. k |-> <<q, d + i>>]
  BY <1>1, <1>2
<1>4. s \in [1 .. k -> SockByte]
  BY <1>2, <1>3 DEF SockByte
<1>5. s \in Seq(SockByte) /\ Len(s) = k
  BY <1>4
<1>6. \A i \in 1 .. k : s[i] = <<q, d + i>>
  BY <1>3
<1> QED BY <1>5, <1>6 DEF s

LEMMA FirstFacts ==
  ASSUME NEW q \in Sock, NEW n \in Nat
  PROVE  /\ BytesOf(q, 1, n) \in Seq(SockByte)
         /\ Len(BytesOf(q, 1, n)) = n
         /\ \A i \in 1 .. n : BytesOf(q, 1, n)[i] = <<q, i>>
<1> DEFINE s == BytesOf(q, 1, n)
<1>1. s = [i \in 1 .. n |-> <<q, 1 + i - 1>>]
  <2>1. n - 1 + 1 = n
    OBVIOUS
  <2> QED BY <2>1 DEF BytesOf, Byte
<1>2. \A i \in 1 .. n : 1 + i - 1 = i /\ i \in Nat
  OBVIOUS
<1> HIDE DEF s
<1>3. s = [i \in 1 .. n |-> <<q, i>>]
  BY <1>1, <1>2
<1>4. s \in [1 .. n -> SockByte]
  BY <1>2, <1>3 DEF SockByte
<1>5. s \in Seq(SockByte) /\ Len(s) = n
  BY <1>4
<1>6. \A i \in 1 .. n : s[i] = <<q, i>>
  BY <1>3
<1> QED BY <1>5, <1>6 DEF s

\* What is read next makes the part read longer.
LEMMA BytesGrow ==
  ASSUME NEW q \in Sock, NEW d \in Nat, NEW k \in Nat
  PROVE  BytesOf(q, 1, d) \o BytesOf(q, d + 1, d + k) = BytesOf(q, 1, d + k)
<1> DEFINE a == BytesOf(q, 1, d)
           e == BytesOf(q, d + 1, d + k)
           s == BytesOf(q, 1, d + k)
           r == a \o e
<1>1. a \in Seq(SockByte) /\ Len(a) = d /\ \A i \in 1 .. d : a[i] = <<q, i>>
  BY FirstFacts
<1>2. e \in Seq(SockByte) /\ Len(e) = k /\ \A i \in 1 .. k : e[i] = <<q, d + i>>
  BY PartFacts
<1>3. s \in Seq(SockByte) /\ Len(s) = d + k /\ \A i \in 1 .. d + k : s[i] = <<q, i>>
  BY FirstFacts
<1> HIDE DEF a, e, s
<1>4. /\ r \in Seq(SockByte) /\ Len(r) = d + k
      /\ \A i \in 1 .. d + k : r[i] = IF i <= d THEN a[i] ELSE e[i - d]
  BY <1>1, <1>2, ConcatProperties
<1> HIDE DEF r
<1>5. ASSUME NEW i \in 1 .. d + k PROVE r[i] = s[i]
  <2>1. CASE i <= d
    <3>1. i \in 1 .. d
      BY <2>1
    <3> QED BY <1>1, <1>3, <1>4, <2>1, <3>1
  <2>2. CASE ~(i <= d)
    <3>1. i - d \in 1 .. k /\ d + (i - d) = i
      BY <2>2
    <3>2. e[i - d] = <<q, i>>
      BY <1>2, <3>1
    <3> QED BY <1>3, <1>4, <2>2, <3>2
  <2> QED BY <2>1, <2>2
<1>6. r = s
  BY <1>3, <1>4, <1>5, SeqEqual
<1> QED BY <1>6 DEF a, e, s, r

\* What comes first of a part from the first byte on is such a part too.
LEMMA BytesPrefix ==
  ASSUME NEW q \in Sock, NEW d \in Nat,
         NEW a \in Seq(SockByte), NEW e \in Seq(SockByte), a \o e = BytesOf(q, 1, d)
  PROVE  a = BytesOf(q, 1, Len(a))
<1> DEFINE n == Len(a)
           p == BytesOf(q, 1, n)
           s == BytesOf(q, 1, d)
<1>1. n \in Nat /\ Len(e) \in Nat
  BY LenProperties
<1>2. s = a \o e /\ Len(s) = d /\ \A i \in 1 .. d : s[i] = <<q, i>>
  BY FirstFacts
<1> HIDE DEF s
<1>3. n + Len(e) = d /\ \A i \in 1 .. d : i <= n => s[i] = a[i]
  BY <1>2, ConcatProperties
<1> HIDE DEF n
<1>4. p \in Seq(SockByte) /\ Len(p) = n /\ \A i \in 1 .. n : p[i] = <<q, i>>
  BY <1>1, FirstFacts
<1> HIDE DEF p
<1>5. ASSUME NEW i \in 1 .. n PROVE a[i] = p[i]
  <2>1. i \in 1 .. d /\ i <= n
    BY <1>1, <1>3
  <2> QED BY <1>2, <1>3, <1>4, <2>1
<1>6. a = p
  BY <1>4, <1>5, SeqEqual DEF n
<1> QED BY <1>6 DEF p, n

LEMMA SplitJoins ==
  ASSUME NEW s \in Seq(SockByte), NEW k \in 0 .. Len(s)
  PROVE  SubSeq(s, 1, k) \o SubSeq(s, k + 1, Len(s)) = s
<1>1. Len(s) \in Nat
  BY LenProperties
<1>2. SubSeq(s, 1, k) \o SubSeq(s, k + 1, Len(s)) = SubSeq(s, 1, Len(s))
  <2>1. /\ 1 \in 1 .. Len(s) + 1 /\ k \in 1 - 1 .. Len(s) /\ Len(s) \in k .. Len(s)
    BY <1>1
  <2> QED BY <2>1, ConcatAdjacentSubSeq
<1> QED BY <1>2, SubSeqFull

-----------------------------------------------------------------------------
(***************************************************************************)
(* A descriptor that is open stays what it is until it is closed, and an   *)
(* int that is allocated until it is freed.                                *)
(***************************************************************************)
OwnersMove == \A f \in Fd : owner[f] # NoOwner => owner'[f] \in {owner[f], NoOwner}
CellsMove  == \A k \in Cell : cells[k] # NoCell => cells'[k] \in {cells[k], NoCell}

LEMMA ClosedMoves ==
  ASSUME Types, NEW x, owner' = Closed(x) PROVE OwnersMove
BY DEF Types, SocketsTyped, Closed, OwnersMove

LEMMA OpenedMoves ==
  ASSUME Types, FreeFds # {}, NEW o, owner' = [owner EXCEPT ![Lowest(FreeFds)] = o]
  PROVE  OwnersMove
<1>1. owner[Lowest(FreeFds)] = NoOwner /\ owner \in [Fd -> Sock \cup {NoOwner}]
  BY FreeFdFacts DEF Types, SocketsTyped
<1> QED BY <1>1 DEF OwnersMove

LEMMA ThreadsMove ==
  ASSUME IInv, NEW t \in Tid, ThreadStep(t) PROVE OwnersMove /\ CellsMove
<1>1. Types
  BY DEF IInv
<1>2. CASE RequestLine(t) \/ HeaderLine(t) \/ Relay(t) \/ Write(t)
  <2>1. Talks(t)
    BY <1>2, RequestLineTalks, HeaderLineTalks, RelayTalks, WriteTalks
  <2> QED BY <2>1 DEF Talks, OwnersMove, CellsMove
<1>3. CASE Start(t)
  <2>1. owner' = owner /\ cells' = [cells EXCEPT ![th[t].cell] = NoCell]
    BY <1>3 DEF Start, sockets
  <2> QED BY <1>1, <2>1 DEF OwnersMove, CellsMove, Types, MainTyped
<1>4. CASE Socket(t)
  <2>1. OwnersMove
    <3>1. CASE owner' = owner
      BY <3>1 DEF OwnersMove
    <3>2. CASE /\ FreeFds # {}
               /\ owner' = [owner EXCEPT ![Lowest(FreeFds)] = Server(Origin(t))]
      BY <1>1, <3>2, OpenedMoves
    <3> QED BY <1>4, <3>1, <3>2 DEF Socket
  <2> QED BY <1>4, <2>1 DEF Socket, CellsMove
<1>5. CASE Connect(t) \/ Send(t)
  <2>1. owner' = owner \/ owner' = Closed(th[t].sfd)
    BY <1>5 DEF Connect, Send
  <2> QED BY <1>1, <1>5, <2>1, ClosedMoves DEF Connect, Send, OwnersMove, CellsMove
<1>6. CASE Close(t)
  BY <1>1, <1>6, ClosedMoves DEF Close, CellsMove
<1> QED BY <1>2, <1>3, <1>4, <1>5, <1>6 DEF ThreadStep

LEMMA MainMoves ==
  ASSUME IInv, Main PROVE OwnersMove /\ CellsMove
<1>1. Types
  BY DEF IInv
<1>2. CASE Accept
  <2>1. PICK k \in Cell, x \in Fd \cup {NoFd} :
          /\ cells[k] = NoCell /\ cells' = [cells EXCEPT ![k] = x]
          /\ main.at = "accept" /\ main' = [at |-> "spawn", cell |-> k]
          /\ \/ /\ x \in Fd /\ owner[x] = NoOwner
                /\ \E c \in waiting : /\ owner' = [owner EXCEPT ![x] = Client(c)]
                                      /\ waiting' = waiting \ {c}
             \/ x = NoFd /\ owner' = owner /\ waiting' \subseteq waiting
    BY <1>2, AcceptFacts
  <2> QED BY <1>1, <2>1 DEF OwnersMove, CellsMove, Types, SocketsTyped, MainTyped
<1>3. CASE Spawn
  BY <1>3 DEF Spawn, sockets, OwnersMove, CellsMove
<1>4. CASE SpawnFails
  <2>1. OwnersMove
    BY <1>1, <1>4, ClosedMoves DEF SpawnFails
  <2>2. cells' = [cells EXCEPT ![main.cell] = NoCell]
    BY <1>4 DEF SpawnFails
  <2> QED BY <1>1, <2>1, <2>2 DEF CellsMove, Types, MainTyped
<1> QED BY <1>2, <1>3, <1>4 DEF Main

-----------------------------------------------------------------------------
(***************************************************************************)
(* A thread that does not move keeps its client and what it has in hand.   *)
(***************************************************************************)
LEMMA HandTyped ==
  ASSUME Types, HandsInv, NEW u \in Tid PROVE HandOf(u) \in Fd \cup {NoFd}
<1>1. th[u].cfd \in Fd \cup {NoFd} /\ th[u].cell \in Cell
  BY ThreadIs
<1>2. At(u, "start") => cells[th[u].cell] \in Fd \cup {NoFd}
  BY <1>1 DEF Types, MainTyped, HandsInv, CellsOK
<1> QED BY <1>1, <1>2 DEF HandOf

LEMMA HandStays ==
  ASSUME IInv, IInv', OwnersMove, CellsMove, NEW u \in Tid, th'[u] = th[u]
  PROVE  /\ HandOf(u)' = HandOf(u) /\ Origin(u)' = Origin(u)
         /\ HandOf(u) \in Fd => owner'[HandOf(u)] = owner[HandOf(u)]
<1>1. /\ Types /\ HandsInv /\ Types' /\ HandsInv'
      /\ th[u].cfd \in Fd \cup {NoFd} /\ th[u].cell \in Cell
  BY ThreadIs DEF IInv
<1>2. HandOf(u)' = HandOf(u)
  <2>1. CASE At(u, "start")
    <3>1. cells[th[u].cell] # NoCell /\ cells'[th[u].cell] # NoCell
      BY <1>1, <2>1 DEF HandsInv, CellsOK, At
    <3> QED BY <1>1, <2>1, <3>1 DEF HandOf, CellsMove, At
  <2>2. CASE ~At(u, "start")
    BY <2>2 DEF HandOf, At
  <2> QED BY <2>1, <2>2
<1>3. ASSUME HandOf(u) \in Fd PROVE owner'[HandOf(u)] = owner[HandOf(u)]
  <2>1. IsClient(owner[HandOf(u)])
    BY <1>1, <1>3 DEF HandsInv, Held
  <2>2. IsClient(owner'[HandOf(u)])
    BY <1>1, <1>2, <1>3 DEF HandsInv, Held, IsClient
  <2> QED BY <1>3, <2>1, <2>2, NamesDiffer DEF OwnersMove
<1>4. Origin(u)' = Origin(u)
  <2>1. ASSUME th[u].cfd \in Fd PROVE owner'[th[u].cfd] = owner[th[u].cfd]
    BY <1>1, <1>3, <2>1, OriginFacts
  <2> QED BY <1>1, <2>1 DEF Origin
<1> QED BY <1>2, <1>3, <1>4

\* What a thread has of connection d does not concern the others.
OnlyOf(d) ==
  \A c \in Conn \ {d} : got'[c] = got[c] /\ done'[Server(c)] = done[Server(c)]

LEMMA ThreadKept ==
  ASSUME IInv, IInv', OwnersMove, CellsMove, NEW u \in Tid, th'[u] = th[u],
         ThreadOK(u), NEW d, OnlyOf(d), Origin(u) \in Conn => Origin(u) # d,
         HandOf(u) \in Fd => owner[HandOf(u)] # Client(d)
  PROVE  ThreadOK(u)'
<1>1. /\ HandOf(u)' = HandOf(u) /\ Origin(u)' = Origin(u)
      /\ HandOf(u) \in Fd => owner'[HandOf(u)] = owner[HandOf(u)]
  BY HandStays
<1>2. Ordered(u)'
  BY <1>1 DEF ThreadOK, Ordered, OnlyOf, Reply
<1>3. Emptied(u)'
  BY DEF ThreadOK, Emptied
<1>4. Early(u)'
  BY <1>1 DEF ThreadOK, Early, Fresh, OnlyOf
<1> QED BY <1>2, <1>3, <1>4 DEF ThreadOK

LEMMA AloneFacts ==
  ASSUME IInv, NEW t \in Tid, Origin(t) \in Conn
  PROVE  /\ th[t].cfd \in Fd /\ HandOf(t) = th[t].cfd /\ owner[th[t].cfd] = Client(Origin(t))
         /\ \A u \in Tid \ {t} :
              /\ Origin(u) # Origin(t)
              /\ HandOf(u) \in Fd => owner[HandOf(u)] # Client(Origin(t))
         /\ Origin(t) \notin waiting
         /\ MainHand \in Fd => owner[MainHand] # Client(Origin(t))
<1>1. Types /\ HandsInv
  BY DEF IInv
<1>2. /\ th[t].cfd \in Fd /\ HandOf(t) = th[t].cfd
      /\ owner[th[t].cfd] = Client(Origin(t))
  <2>1. th[t].cfd # NoFd
    BY ProxyAssumption DEF Origin, Nobody, Conn
  <2> QED BY <1>1, <2>1, ThreadIs, OriginFacts
<1>3. \A f \in Fd : owner[f] = Client(Origin(t)) => f = HandOf(t)
  BY <1>1, <1>2 DEF HandsInv, ClientsOnce
<1>4. Origin(t) \notin waiting
  BY <1>1, <1>2 DEF HandsInv, ClientsOnce
<1>5. MainHand \in Fd => owner[MainHand] # Client(Origin(t))
  BY <1>1, <1>2, <1>3 DEF HandsInv, Held
<1>6. ASSUME NEW u \in Tid \ {t}
      PROVE  /\ HandOf(u) \in Fd => owner[HandOf(u)] # Client(Origin(t))
             /\ Origin(u) # Origin(t)
  <2>1. HandOf(u) \in Fd => owner[HandOf(u)] # Client(Origin(t))
    BY <1>1, <1>2, <1>3 DEF HandsInv, Held
  <2>2. ASSUME Origin(u) = Origin(t) PROVE FALSE
    <3>1. th[u].cfd # NoFd
      BY <2>2, ProxyAssumption DEF Origin, Nobody, Conn
    <3>2. HandOf(u) \in Fd /\ owner[HandOf(u)] = Client(Origin(u))
      BY <1>1, <3>1, ThreadIs, OriginFacts
    <3> QED BY <2>1, <2>2, <3>2
  <2> QED BY <2>1, <2>2
<1> QED BY <1>2, <1>4, <1>5, <1>6

(***************************************************************************)
(* It is enough to look at the thread that moves, and at what its client   *)
(* got.                                                                    *)
(***************************************************************************)
MovesAlone(t) ==
  /\ \A u \in Tid \ {t} : th'[u] = th[u]
  /\ UNCHANGED <<waiting, main>>
  /\ OnlyOf(Origin(t))
  /\ \A c \in Conn : c = Origin(t) => Prefix(c)'

LEMMA MovesAloneKeeps ==
  ASSUME IInv, IInv', RInv, NEW t \in Tid, OwnersMove, CellsMove,
         MovesAlone(t), ThreadOK(t)'
  PROVE  RInv'
<1> DEFINE d == Origin(t)
<1>1. /\ Types /\ HandsInv /\ Types' /\ HandsInv' /\ d \in Party
      /\ waiting' = waiting /\ main' = main /\ waiting \subseteq Conn
  BY OriginFacts DEF IInv, MovesAlone, Types, MainTyped
<1>2. ASSUME NEW u \in Tid \ {t} PROVE ThreadOK(u)'
  <2>1. th'[u] = th[u] /\ ThreadOK(u) /\ OnlyOf(d)
    BY DEF MovesAlone, RInv
  <2>2. /\ Origin(u) \in Conn => Origin(u) # d
        /\ HandOf(u) \in Fd => owner[HandOf(u)] # Client(d)
    <3>1. CASE d \in Conn
      BY <3>1, AloneFacts
    <3>2. CASE d \notin Conn
      BY <1>1, <3>2, NamesDiffer DEF HandsInv, Held, IsClient
    <3> QED BY <3>1, <3>2
  <2> HIDE DEF d
  <2> QED BY <2>1, <2>2, ThreadKept
<1>3. MainOK'
  <2>1. MainHand' = MainHand /\ (MainHand \in Fd => owner'[MainHand] = owner[MainHand])
    <3>1. MainHand' = MainHand
      BY <1>1 DEF MainHand, HandsInv, CellsOK, CellsMove, Types, MainTyped
    <3>2. ASSUME MainHand \in Fd PROVE owner'[MainHand] = owner[MainHand]
      <4>1. IsClient(owner[MainHand]) /\ IsClient(owner'[MainHand])
        BY <1>1, <3>1, <3>2 DEF HandsInv, Held, IsClient
      <4> QED BY <3>2, <4>1, NamesDiffer DEF OwnersMove
    <3> QED BY <3>1, <3>2
  <2>2. \A c \in Conn : c # d => (Fresh(c) => Fresh(c)')
    BY DEF MovesAlone, OnlyOf, Fresh
  <2>3. d \in Conn => d \notin waiting /\ (MainHand \in Fd => owner[MainHand] # Client(d))
    BY AloneFacts
  <2>4. \A c \in waiting : Fresh(c)'
    BY <1>1, <2>2, <2>3 DEF RInv, MainOK
  <2>5. MainHand \in Fd => \A c \in Conn : owner[MainHand] = Client(c) => Fresh(c)'
    BY <2>2, <2>3 DEF RInv, MainOK
  <2> QED BY <1>1, <2>1, <2>4, <2>5 DEF MainOK, Fresh
<1>4. ASSUME NEW c \in Conn PROVE Prefix(c)'
  <2>1. CASE c = d
    BY <2>1 DEF MovesAlone
  <2>2. CASE c # d
    BY <2>2 DEF MovesAlone, OnlyOf, RInv, Prefix
  <2> QED BY <2>1, <2>2
<1> QED BY <1>2, <1>3, <1>4 DEF RInv

-----------------------------------------------------------------------------
(***************************************************************************)
(* Steps that neither read a reply nor write to a client.                  *)
(***************************************************************************)
Calm == got' = got /\ \A c \in Conn : done'[Server(c)] = done[Server(c)]

LEMMA CalmFacts ==
  ASSUME RInv, Calm
  PROVE  /\ \A d : OnlyOf(d)
         /\ \A c \in Conn : Prefix(c)' /\ (Fresh(c) => Fresh(c)')
BY DEF Calm, OnlyOf, RInv, Prefix, Fresh

\* Reading a request takes nothing from a reply.
LEMMA ReadsRequest ==
  ASSUME IInv, NEW t \in Tid,
         \/ \E bytes \in MayFind(t, th[t].cfd) : Finds(t, th[t].cfd, bytes)
         \/ FindsEnd(t, th[t].cfd) \/ FindsError(t, th[t].cfd),
         UNCHANGED peers
  PROVE  Calm
<1> DEFINE f == th[t].cfd
<1>1. Types /\ HandsInv /\ f \in Fd \cup {NoFd}
  BY ThreadIs DEF IInv
<1>2. \/ done' = done
      \/ IsOpen(f) /\ \E n : done' = [done EXCEPT ![owner[f]] = n]
  BY DEF MayFind, Finds, FindsEnd, FindsError, sockets
<1>3. IsOpen(f) => owner[f] = Client(Origin(t)) /\ Origin(t) \in Party
  BY <1>1, OriginFacts DEF IsOpen
<1>4. ASSUME NEW c \in Conn PROVE done'[Server(c)] = done[Server(c)]
  <2>1. CASE done' = done
    BY <2>1
  <2>2. CASE IsOpen(f) /\ \E n : done' = [done EXCEPT ![owner[f]] = n]
    <3>1. PICK n : done' = [done EXCEPT ![owner[f]] = n]
      BY <2>2
    <3>2. owner[f] # Server(c)
      BY <1>3, <2>2, NamesDiffer DEF Party
    <3>3. done \in [Sock -> Nat]
      BY <1>1 DEF Types, SocketsTyped
    <3> HIDE DEF f
    <3> QED BY <3>1, <3>2, <3>3
  <2> QED BY <1>2, <2>1, <2>2
<1> QED BY <1>4 DEF Calm, peers

\* A thread that has sent nothing yet.
LEMMA EarlyStays ==
  ASSUME RInv, Calm, NEW t \in Tid, th[t].at \in Before,
         HandOf(t)' = HandOf(t), HandOf(t) \in Fd => owner'[HandOf(t)] = owner[HandOf(t)]
  PROVE  Early(t)'
<1>1. ThreadOK(t) /\ \A c \in Conn : Fresh(c) => Fresh(c)'
  BY CalmFacts DEF RInv
<1> QED BY <1>1 DEF ThreadOK, Early

LEMMA RequestKeepsRelay ==
  ASSUME IInv, IInv', RInv, NEW t \in Tid, OwnersMove, CellsMove,
         RequestLine(t) \/ HeaderLine(t)
  PROVE  RInv'
<1>1. Talks(t) /\ Reads(t, {"request", "header", "socket", "close"}) /\ th[t].at \in {"request", "header"}
  BY RequestLineTalks, HeaderLineTalks DEF Reads, RequestLine, HeaderLine, At
<1>2. Calm
  <2>1. UNCHANGED peers
    BY DEF RequestLine, HeaderLine
  <2>2. \/ \E bytes \in MayFind(t, th[t].cfd) : Finds(t, th[t].cfd, bytes)
        \/ FindsEnd(t, th[t].cfd) \/ FindsError(t, th[t].cfd)
    BY DEF RequestLine, HeaderLine
  <2> QED BY <2>1, <2>2, ReadsRequest
<1>3. HandOf(t)' = HandOf(t) /\ owner' = owner
  BY <1>1 DEF Talks, Quiet, HandOf, At
<1>4. Early(t)'
  BY <1>1, <1>2, <1>3, EarlyStays DEF Before
<1>5. ThreadOK(t)'
  BY <1>1, <1>4 DEF ThreadOK, Ordered, Emptied, Reads
<1>6. MovesAlone(t)
  BY <1>1, <1>2, CalmFacts DEF MovesAlone, Talks, Quiet, Moves
<1> QED BY <1>5, <1>6, MovesAloneKeeps

LEMMA OpenKeepsRelay ==
  ASSUME IInv, IInv', RInv, NEW t \in Tid, OwnersMove, CellsMove,
         Socket(t) \/ Connect(t)
  PROVE  RInv'
<1>1. /\ Types /\ HandsInv /\ HandsInv' /\ th \in [Tid -> Thread] /\ th[t] \in Thread
      /\ th[t].at \in {"socket", "connect"}
      /\ UNCHANGED <<waiting, done, main, got>>
  BY ThreadIs DEF IInv, Socket, Connect, At, peers
<1>2. /\ th'[t].at \in {"socket", "connect", "send"}
      /\ th'[t].line = th[t].line /\ th'[t].cfd = th[t].cfd
      /\ \A u \in Tid \ {t} : th'[u] = th[u]
  BY <1>1 DEF Socket, Connect, Go, Thread
<1>3. Calm
  BY <1>1 DEF Calm
<1>4. HandOf(t)' = HandOf(t)
  BY <1>1, <1>2 DEF HandOf, At
<1>5. ASSUME HandOf(t) \in Fd PROVE owner'[HandOf(t)] = owner[HandOf(t)]
  <2>1. IsClient(owner[HandOf(t)]) /\ IsClient(owner'[HandOf(t)])
    BY <1>1, <1>4, <1>5 DEF HandsInv, Held, IsClient
  <2> QED BY <1>5, <2>1, NamesDiffer DEF OwnersMove
<1>6. Early(t)'
  BY <1>1, <1>3, <1>4, <1>5, EarlyStays DEF Before
<1>7. ThreadOK(t)'
  BY <1>1, <1>2, <1>6 DEF ThreadOK, Ordered, Emptied, RInv
<1>8. MovesAlone(t)
  BY <1>1, <1>2, <1>3, CalmFacts DEF MovesAlone
<1> QED BY <1>7, <1>8, MovesAloneKeeps

LEMMA SendKeepsRelay ==
  ASSUME IInv, IInv', RInv, NEW t \in Tid, OwnersMove, CellsMove, Send(t)
  PROVE  RInv'
<1>1. /\ Types /\ HandsInv /\ th \in [Tid -> Thread] /\ th[t] \in Thread
      /\ th[t].at = "send" /\ th[t].line = <<>>
      /\ UNCHANGED <<waiting, done, main, got>>
  BY ThreadIs DEF IInv, RInv, ThreadOK, Emptied, Send, At
<1>2. Calm
  BY <1>1 DEF Calm
<1>3. \A u \in Tid \ {t} : th'[u] = th[u]
  BY <1>1 DEF Send, Returned
<1>4. MovesAlone(t)
  BY <1>1, <1>2, <1>3, CalmFacts DEF MovesAlone
<1>5. CASE th' = Returned(t)
  <2>1. th'[t].at = "close"
    BY <1>1, <1>5, ReturnedFacts
  <2>2. ThreadOK(t)'
    BY <2>1 DEF ThreadOK, Ordered, Emptied, Early, Before
  <2> QED BY <1>4, <2>2, MovesAloneKeeps
<1>6. CASE /\ th' = [th EXCEPT ![t].at = "relay", ![t].left = 0,
                               ![t].buf = <<>>, ![t].head = <<>>]
           /\ owner' = owner
  <2>1. /\ th'[t].at = "relay" /\ th'[t].line = <<>> /\ th'[t].buf = <<>>
        /\ th'[t].cfd = th[t].cfd
    BY <1>1, <1>6 DEF Thread
  <2>2. Origin(t)' = Origin(t)
    BY <1>6, <2>1 DEF Origin
  <2>3. ASSUME Origin(t) \in Conn PROVE Fresh(Origin(t))
    <3>1. HandOf(t) \in Fd /\ owner[HandOf(t)] = Client(Origin(t))
      BY <2>3, AloneFacts
    <3> QED BY <1>1, <2>3, <3>1 DEF RInv, ThreadOK, Early, Before
  <2>4. \A c \in Conn : Reply(c, 1, 0) = <<>>
    BY FirstFacts, NamesDiffer, EmptySeq DEF Reply
  <2>5. <<>> \o <<>> \o <<>> = <<>>
    BY ConcatEmptySeq, Sizes
  <2>6. ASSUME NEW d \in Conn, d = Origin(t)
        PROVE  got'[d] \o th'[t].line \o th'[t].buf = Reply(d, 1, done'[Server(d)])
    BY <1>1, <2>1, <2>3, <2>4, <2>5, <2>6 DEF Fresh
  <2>7. Ordered(t)'
    BY <2>2, <2>6 DEF Ordered, Reply
  <2>8. ThreadOK(t)'
    BY <2>1, <2>7 DEF ThreadOK, Emptied, Early, Before
  <2> QED BY <1>4, <2>8, MovesAloneKeeps
<1> QED BY <1>5, <1>6 DEF Send

LEMMA StartKeepsRelay ==
  ASSUME IInv, IInv', RInv, NEW t \in Tid, OwnersMove, CellsMove, Start(t)
  PROVE  RInv'
<1>1. /\ Types /\ th \in [Tid -> Thread] /\ th[t] \in Thread /\ th[t].at = "start"
      /\ UNCHANGED <<waiting, done, owner, main, got>>
  BY ThreadIs DEF IInv, Start, At, sockets, peers
<1>2. /\ th'[t].at = "request" /\ th'[t].cfd = cells[th[t].cell]
      /\ \A u \in Tid \ {t} : th'[u] = th[u]
  BY <1>1 DEF Start, Thread
<1>3. Calm
  BY <1>1 DEF Calm
<1>4. HandOf(t)' = HandOf(t)
  BY <1>1, <1>2 DEF HandOf, At
<1>5. Early(t)'
  BY <1>1, <1>3, <1>4, EarlyStays DEF Before
<1>6. ThreadOK(t)'
  BY <1>2, <1>5 DEF ThreadOK, Ordered, Emptied
<1>7. MovesAlone(t)
  BY <1>1, <1>2, <1>3, CalmFacts DEF MovesAlone
<1> QED BY <1>6, <1>7, MovesAloneKeeps

LEMMA CloseKeepsRelay ==
  ASSUME IInv, IInv', RInv, NEW t \in Tid, OwnersMove, CellsMove, Close(t)
  PROVE  RInv'
<1>1. /\ Types /\ HandsInv /\ th \in [Tid -> Thread]
      /\ UNCHANGED <<waiting, main, got>>
  BY ThreadIs DEF IInv, Close, peers
<1>2. th' = [th EXCEPT ![t] = NoThread]
  BY DEF Close
<1>3. th'[t].at = "none" /\ \A u \in Tid \ {t} : th'[u] = th[u]
  BY <1>1, <1>2 DEF NoThread
<1>4. Calm
  <2>1. PICK d : d = Origin(t)
    OBVIOUS
  <2>2. done' = [done EXCEPT ![Client(d)] = 0] /\ d \in Party /\ done \in [Sock -> Nat]
    BY <1>1, <2>1, OriginFacts DEF Close, Types, SocketsTyped
  <2>3. \A c \in Conn : done'[Server(c)] = done[Server(c)]
    BY <2>2, NamesDiffer
  <2> QED BY <1>1, <2>3 DEF Calm
<1>5. ThreadOK(t)'
  BY <1>3 DEF ThreadOK, Ordered, Emptied, Early, Before
<1>6. MovesAlone(t)
  BY <1>1, <1>3, <1>4, CalmFacts DEF MovesAlone
<1> QED BY <1>5, <1>6, MovesAloneKeeps

-----------------------------------------------------------------------------
(***************************************************************************)
(* Reading a reply, and passing it on.                                     *)
(***************************************************************************)
LEMMA ReadsReply ==
  ASSUME IInv, RInv, NEW t \in Tid, At(t, "relay"),
         NEW bytes \in MayFind(t, th[t].sfd), Finds(t, th[t].sfd, bytes),
         got' = got
  PROVE  /\ OnlyOf(Origin(t))
         /\ \A d \in Conn : d = Origin(t) =>
              (got[d] \o th[t].line) \o bytes = Reply(d, 1, done'[Server(d)])
<1>1. /\ Types /\ HandsInv /\ ServersOK /\ Origin(t) \in Party
      /\ th[t].sfd \in Fd \cup {NoFd} /\ th[t].line \in Seq(SockByte)
      /\ done \in [Sock -> Nat] /\ got \in [Party -> Seq(SockByte)]
  BY ThreadIs, OriginFacts DEF IInv, Types, SocketsTyped, PeersTyped
<1>2. ASSUME NEW d \in Conn, d = Origin(t)
      PROVE  (got[d] \o th[t].line) \o th[t].buf = Reply(d, 1, done[Server(d)])
  BY <1>2 DEF RInv, ThreadOK, Ordered, At
<1>3. CASE th[t].buf # <<>>
  <2>1. bytes = th[t].buf /\ done' = done
    BY <1>3 DEF MayFind, Finds, sockets
  <2> QED BY <1>2, <2>1 DEF OnlyOf
<1>4. CASE th[t].buf = <<>>
  <2>1. PICK p, f, n : p = Origin(t) /\ f = th[t].sfd /\ n = done[Server(p)]
    OBVIOUS
  <2>2. /\ f \in Fd /\ owner[f] = Server(p) /\ p \in Party /\ Server(p) \in Sock
        /\ n \in Nat /\ bytes \in Arrivals(Server(p), stream[Server(p)], n, BufSize)
    <3>1. f \in Fd /\ bytes \in Arrivals(owner[f], stream[owner[f]], done[owner[f]], BufSize)
      BY <1>4, <2>1 DEF MayFind, IsOpen
    <3>2. owner[f] = Server(p)
      BY <1>1, <2>1, <3>1, NoFdIsNone DEF ServersOK
    <3> QED BY <1>1, <2>1, <3>1, <3>2, NamesDiffer
  <2>3. PICK k \in Nat : bytes = BytesOf(Server(p), n + 1, n + k)
    BY <2>2 DEF Arrivals
  <2>4. Len(bytes) = k
    BY <2>2, <2>3, PartFacts
  <2>5. done' = [done EXCEPT ![Server(p)] = n + k]
    BY <1>1, <1>4, <2>1, <2>2, <2>4 DEF Finds
  <2>6. OnlyOf(p)
    <3> SUFFICES ASSUME NEW c \in Conn \ {p} PROVE done'[Server(c)] = done[Server(c)]
      BY DEF OnlyOf
    <3>1. Server(c) # Server(p)
      BY <2>2, NamesDiffer
    <3> QED BY <1>1, <2>5, <3>1
  <2>7. ASSUME NEW d \in Conn, d = Origin(t)
        PROVE  (got[d] \o th[t].line) \o bytes = Reply(d, 1, done'[Server(d)])
    <3>1. done'[Server(d)] = n + k
      BY <1>1, <2>1, <2>2, <2>5, <2>7
    <3>2. got[d] \o th[t].line = Reply(d, 1, n)
      <4>1. got[d] \o th[t].line \in Seq(SockByte)
        BY <1>1, ConcatProperties DEF Party
      <4> QED BY <1>2, <1>4, <2>1, <2>7, <4>1, ConcatEmptySeq
    <3>3. Reply(d, 1, n) \o bytes = Reply(d, 1, n + k)
      BY <2>1, <2>2, <2>3, <2>7, BytesGrow DEF Reply
    <3> QED BY <3>1, <3>2, <3>3
  <2> QED BY <2>1, <2>6, <2>7
<1> QED BY <1>3, <1>4

LEMMA JoinAssociates ==
  ASSUME NEW a \in Seq(SockByte), NEW b \in Seq(SockByte), NEW e \in Seq(SockByte)
  PROVE  (a \o b) \o e = a \o (b \o e)
BY ConcatAssociative

\* The bytes taken into the chunk, and those left, are those that were there.
LEMMA TakesJoin ==
  ASSUME NEW g \in Seq(SockByte), NEW l \in Seq(SockByte),
         NEW s \in Seq(SockByte), NEW k \in 0 .. Len(s)
  PROVE  (g \o (l \o SubSeq(s, 1, k))) \o SubSeq(s, k + 1, Len(s)) = (g \o l) \o s
<1>1. PICK a, e : a = SubSeq(s, 1, k) /\ e = SubSeq(s, k + 1, Len(s))
  OBVIOUS
<1>2. a \in Seq(SockByte) /\ e \in Seq(SockByte) /\ a \o e = s
  BY <1>1, SplitFacts, SplitJoins
<1>3. PICK h : h = g \o l
  OBVIOUS
<1>4. h \in Seq(SockByte)
  BY <1>3, ConcatProperties
<1>5. h \o a = g \o (l \o a)
  BY <1>2, <1>3, JoinAssociates
<1>6. a \in Seq(SockByte) /\ e \in Seq(SockByte)
  BY <1>2
<1>7. (h \o a) \o e = h \o (a \o e)
  BY <1>4, <1>6, JoinAssociates
<1> QED BY <1>1, <1>2, <1>3, <1>5, <1>7

LEMMA RelayKeepsRelay ==
  ASSUME IInv, IInv', RInv, NEW t \in Tid, OwnersMove, CellsMove, Relay(t)
  PROVE  RInv'
<1>1. /\ Types /\ HandsInv /\ ServersOK /\ th \in [Tid -> Thread] /\ th[t] \in Thread
      /\ th[t].at = "relay" /\ th[t].sfd \in Fd \cup {NoFd} /\ th[t].line \in Seq(SockByte)
      /\ done \in [Sock -> Nat] /\ got \in [Party -> Seq(SockByte)]
      /\ UNCHANGED <<waiting, main, got>>
  BY ThreadIs DEF IInv, Types, SocketsTyped, PeersTyped, Relay, At, peers
<1>2. Talks(t)
  BY RelayTalks
<1>3. Origin(t)' = Origin(t) /\ \A u \in Tid \ {t} : th'[u] = th[u]
  BY <1>2 DEF Talks, Quiet, Moves, Origin
<1>4. \A c \in Conn : Prefix(c)'
  BY <1>1 DEF RInv, Prefix
<1>5. ASSUME NEW bytes \in MayFind(t, th[t].sfd), Finds(t, th[t].sfd, bytes),
             LET k     == ChunkTakes(bytes, th[t].line)
                 chunk == th[t].line \o SubSeq(bytes, 1, k)
             IN  th' = [th EXCEPT ![t].line = chunk,
                                  ![t].buf = SubSeq(bytes, k + 1, Len(bytes)),
                                  ![t].at = IF ChunkIsFull(chunk) THEN "write" ELSE @]
      PROVE  RInv'
  <2> DEFINE k     == ChunkTakes(bytes, th[t].line)
             chunk == th[t].line \o SubSeq(bytes, 1, k)
             rest  == SubSeq(bytes, k + 1, Len(bytes))
  <2>1. bytes \in Seq(SockByte)
    BY <1>1, <1>5, FindsFacts
  <2>2. k \in 0 .. Len(bytes) /\ chunk \in Seq(SockByte) /\ rest \in Seq(SockByte)
    BY <1>1, <2>1, ChunkFacts
  <2>3. /\ OnlyOf(Origin(t))
        /\ \A d \in Conn : d = Origin(t) =>
             (got[d] \o th[t].line) \o bytes = Reply(d, 1, done'[Server(d)])
    BY <1>1, <1>5, ReadsReply DEF At
  <2>4. ASSUME NEW d \in Conn, d = Origin(t)
        PROVE  (got[d] \o chunk) \o rest = Reply(d, 1, done'[Server(d)])
    <3>1. got[d] \in Seq(SockByte)
      BY <1>1 DEF Party
    <3>2. (got[d] \o chunk) \o rest = (got[d] \o th[t].line) \o bytes
      <4>1. PICK g, l, n : g = got[d] /\ l = th[t].line /\ n = k
        OBVIOUS
      <4>2. /\ g \in Seq(SockByte) /\ l \in Seq(SockByte)
            /\ bytes \in Seq(SockByte) /\ n \in 0 .. Len(bytes)
        BY <1>1, <2>1, <2>2, <3>1, <4>1
      <4>3. (g \o (l \o SubSeq(bytes, 1, n))) \o SubSeq(bytes, n + 1, Len(bytes)) =
              (g \o l) \o bytes
        BY <4>2, TakesJoin
      <4> HIDE DEF k
      <4> QED BY <4>1, <4>3
    <3> HIDE DEF chunk, rest
    <3> QED BY <2>3, <2>4, <3>2
  <2>5. /\ th'[t].line = chunk /\ th'[t].buf = rest /\ th'[t].at \in {"relay", "write"}
    <3>1. th' = [th EXCEPT ![t].line = chunk, ![t].buf = rest,
                           ![t].at = IF ChunkIsFull(chunk) THEN "write" ELSE @]
      BY <1>5
    <3> HIDE DEF k, chunk, rest
    <3> QED BY <1>1, <3>1 DEF Thread
  <2> HIDE DEF k, chunk, rest
  <2>6. Ordered(t)'
    BY <1>1, <1>3, <2>4, <2>5 DEF Ordered, Reply
  <2>7. ThreadOK(t)'
    BY <2>5, <2>6 DEF ThreadOK, Emptied, Early, Before
  <2>8. MovesAlone(t)
    BY <1>1, <1>3, <1>4, <2>3 DEF MovesAlone
  <2> QED BY <2>7, <2>8, MovesAloneKeeps
<1>6. ASSUME FindsEnd(t, th[t].sfd) \/ FindsError(t, th[t].sfd),
             th' = Returned(t) \/ Go(t, "write")
      PROVE  RInv'
  <2>1. done' = done
    BY <1>6 DEF FindsEnd, FindsError, sockets
  <2>2. Calm
    BY <1>1, <2>1 DEF Calm
  <2>3. MovesAlone(t)
    BY <1>1, <1>3, <2>2, CalmFacts DEF MovesAlone
  <2>4. CASE th' = Returned(t)
    <3>1. th'[t].at = "close"
      BY <1>1, <2>4, ReturnedFacts
    <3>2. ThreadOK(t)'
      BY <3>1 DEF ThreadOK, Ordered, Emptied, Early, Before
    <3> QED BY <2>3, <3>2, MovesAloneKeeps
  <2>5. CASE Go(t, "write")
    <3>1. th'[t].at = "write" /\ th'[t].line = th[t].line /\ th'[t].buf = th[t].buf
      BY <1>1, <2>5 DEF Go, Thread
    <3>2. Ordered(t)'
      BY <1>1, <1>3, <2>1, <3>1 DEF RInv, ThreadOK, Ordered, Reply
    <3>3. ThreadOK(t)'
      BY <3>1, <3>2 DEF ThreadOK, Emptied, Early, Before
    <3> QED BY <2>3, <3>3, MovesAloneKeeps
  <2> QED BY <1>6, <2>4, <2>5
<1> QED BY <1>5, <1>6 DEF Relay

LEMMA WriteKeepsRelay ==
  ASSUME IInv, IInv', RInv, NEW t \in Tid, OwnersMove, CellsMove, Write(t)
  PROVE  RInv'
<1>1. /\ Types /\ HandsInv /\ th \in [Tid -> Thread] /\ th[t] \in Thread
      /\ th[t].at = "write" /\ th[t].line \in Seq(SockByte) /\ th[t].buf \in Seq(SockByte)
      /\ got \in [Party -> Seq(SockByte)] /\ done \in [Sock -> Nat]
      /\ UNCHANGED <<waiting, done, owner, main>>
  BY ThreadIs DEF IInv, Types, SocketsTyped, PeersTyped, Write, At, sockets
<1>2. \A u \in Tid \ {t} : th'[u] = th[u]
  BY <1>1 DEF Write, Returned
<1>3. PICK p : p = Origin(t)
  OBVIOUS
<1>4. p \in Party
  BY <1>1, <1>3, OriginFacts
\* What is written is the first part of the chunk.
<1>5. ASSUME NEW s \in Seq(SockByte), NEW e \in Seq(SockByte), s \o e = th[t].line,
             got' = [got EXCEPT ![p] = @ \o s]
      PROVE  MovesAlone(t)
  <2>1. OnlyOf(p)
    BY <1>1, <1>5 DEF OnlyOf, Party
  <2>2. ASSUME NEW c \in Conn, c = p PROVE Prefix(c)'
    <3>1. PICK g, b : g = got[c] /\ b = th[t].buf
      OBVIOUS
    <3>2. g \in Seq(SockByte) /\ b \in Seq(SockByte) /\ got'[c] = g \o s
      BY <1>1, <1>4, <1>5, <2>2, <3>1
    <3>3. (g \o (s \o e)) \o b = BytesOf(Server(c), 1, done[Server(c)])
      BY <1>1, <1>3, <1>5, <2>2, <3>1 DEF RInv, ThreadOK, Ordered, Reply
    <3>4. (g \o (s \o e)) \o b = (g \o s) \o (e \o b)
      <4>1. g \o s \in Seq(SockByte)
        BY <3>2, ConcatProperties
      <4>2. g \o (s \o e) = (g \o s) \o e
        BY <3>2, JoinAssociates
      <4> QED BY <3>2, <4>1, <4>2, JoinAssociates
    <3>5. g \o s \in Seq(SockByte) /\ e \o b \in Seq(SockByte)
      BY <3>2, ConcatProperties
    <3>6. Server(c) \in Sock /\ done[Server(c)] \in Nat
      BY <1>1, NamesDiffer
    <3>7. g \o s = BytesOf(Server(c), 1, Len(g \o s))
      BY <3>3, <3>4, <3>5, <3>6, BytesPrefix
    <3> QED BY <3>2, <3>7 DEF Prefix, Reply
  <2> QED BY <1>1, <1>2, <1>3, <2>1, <2>2 DEF MovesAlone
<1>6. CASE /\ got' = [got EXCEPT ![Origin(t)] = @ \o th[t].line]
           /\ th' = [th EXCEPT ![t].at = "relay", ![t].line = <<>>]
  <2>1. /\ th'[t].at = "relay" /\ th'[t].line = <<>> /\ th'[t].buf = th[t].buf
        /\ th'[t].cfd = th[t].cfd
    BY <1>1, <1>6 DEF Thread
  <2>2. Origin(t)' = Origin(t)
    BY <1>1, <2>1 DEF Origin
  <2>3. MovesAlone(t)
    <3>1. /\ th[t].line \o <<>> = th[t].line /\ <<>> \in Seq(SockByte)
          /\ got' = [got EXCEPT ![p] = @ \o th[t].line]
      BY <1>1, <1>3, <1>6, ConcatEmptySeq, Sizes
    <3> QED BY <1>1, <1>5, <3>1
  <2>4. ASSUME NEW d \in Conn, d = Origin(t)
        PROVE  got'[d] \o th'[t].line \o th'[t].buf = Reply(d, 1, done'[Server(d)])
    <3>1. got'[d] = got[d] \o th[t].line /\ got[d] \in Seq(SockByte)
      BY <1>1, <1>3, <1>4, <1>6, <2>4
    <3>2. got'[d] \o <<>> = got'[d]
      <4>1. got[d] \o th[t].line \in Seq(SockByte)
        BY <1>1, <3>1, ConcatProperties
      <4> QED BY <3>1, <4>1, ConcatEmptySeq
    <3>3. got[d] \o th[t].line \o th[t].buf = Reply(d, 1, done[Server(d)])
      BY <1>1, <2>4 DEF RInv, ThreadOK, Ordered
    <3> QED BY <1>1, <2>1, <3>1, <3>2, <3>3
  <2>5. Ordered(t)'
    BY <2>2, <2>4 DEF Ordered, Reply
  <2>6. ThreadOK(t)'
    BY <2>1, <2>5 DEF ThreadOK, Emptied, Early, Before
  <2> QED BY <2>3, <2>6, MovesAloneKeeps
<1>7. ASSUME NEW k \in 0 .. Len(th[t].line) - 1, th' = Returned(t),
             got' = [got EXCEPT ![Origin(t)] = @ \o SubSeq(th[t].line, 1, k)]
      PROVE  RInv'
  <2>1. PICK l : l = th[t].line
    OBVIOUS
  <2>2. PICK s, e : s = SubSeq(l, 1, k) /\ e = SubSeq(l, k + 1, Len(l))
    OBVIOUS
  <2>3. l \in Seq(SockByte) /\ k \in 0 .. Len(l)
    BY <1>1, <1>7, <2>1, LenProperties
  <2>4. s \in Seq(SockByte) /\ e \in Seq(SockByte) /\ s \o e = l
    BY <2>2, <2>3, SplitFacts, SplitJoins
  <2>5. MovesAlone(t)
    BY <1>3, <1>5, <1>7, <2>1, <2>2, <2>4
  <2>6. th'[t].at = "close"
    BY <1>1, <1>7, ReturnedFacts
  <2>7. ThreadOK(t)'
    BY <2>6 DEF ThreadOK, Ordered, Emptied, Early, Before
  <2> QED BY <2>5, <2>7, MovesAloneKeeps
<1> QED BY <1>6, <1>7 DEF Write

-----------------------------------------------------------------------------
(***************************************************************************)
(* main, which reads and writes nothing.                                   *)
(***************************************************************************)
LEMMA CalmKept ==
  ASSUME IInv, IInv', RInv, OwnersMove, CellsMove, Calm, NEW u \in Tid, th'[u] = th[u]
  PROVE  ThreadOK(u)'
<1>1. /\ ThreadOK(u) /\ OnlyOf(Nobody) /\ HandsInv
      /\ Nobody \notin Conn /\ ~IsClient(Client(Nobody))
  BY CalmFacts, NamesDiffer, ProxyAssumption
  DEF IInv, RInv, Nobody, Conn, IsClient, Party
<1>2. HandOf(u) \in Fd => owner[HandOf(u)] # Client(Nobody)
  BY <1>1 DEF HandsInv, Held
<1>3. Origin(u) \in Conn => Origin(u) # Nobody
  BY <1>1
<1>4. PICK d : d = Nobody
  OBVIOUS
<1> QED BY <1>1, <1>2, <1>3, <1>4, ThreadKept

LEMMA AcceptKeepsRelay ==
  ASSUME IInv, IInv', RInv, OwnersMove, CellsMove, Accept PROVE RInv'
<1>1. PICK k \in Cell, x \in Fd \cup {NoFd} :
        /\ cells[k] = NoCell /\ cells' = [cells EXCEPT ![k] = x]
        /\ main.at = "accept" /\ main' = [at |-> "spawn", cell |-> k]
        /\ \/ /\ x \in Fd /\ owner[x] = NoOwner
              /\ \E c \in waiting : /\ owner' = [owner EXCEPT ![x] = Client(c)]
                                    /\ waiting' = waiting \ {c}
           \/ x = NoFd /\ owner' = owner /\ waiting' \subseteq waiting
  BY AcceptFacts
<1>2. Types /\ UNCHANGED <<done, th, got>> /\ waiting \subseteq Conn
  BY DEF IInv, Types, MainTyped, Accept, peers
<1>3. Calm
  BY <1>2 DEF Calm
<1>4. (\A u \in Tid : ThreadOK(u)') /\ \A c \in Conn : Prefix(c)' /\ (Fresh(c) => Fresh(c)')
  BY <1>2, <1>3, CalmKept, CalmFacts
<1>5. MainHand' = x
  BY <1>1, <1>2 DEF MainHand, Types, MainTyped
<1>6. x \in Fd => \E c \in waiting : owner'[x] = Client(c)
  BY <1>1, <1>2, NoFdIsNone DEF Types, SocketsTyped
<1>7. \A c \in Conn : owner'[x] = Client(c) /\ x \in Fd => c \in waiting
  BY <1>2, <1>6, NamesDiffer
<1>8. \A c \in waiting : Fresh(c)'
  BY <1>2, <1>4 DEF RInv, MainOK
<1>9. MainOK'
  BY <1>1, <1>2, <1>5, <1>7, <1>8 DEF MainOK
<1> QED BY <1>4, <1>9 DEF RInv

LEMMA SpawnKeepsRelay ==
  ASSUME IInv, IInv', RInv, OwnersMove, CellsMove, Spawn PROVE RInv'
<1>1. /\ Types /\ th \in [Tid -> Thread] /\ main.at = "spawn"
      /\ UNCHANGED <<waiting, done, owner, cells, got>>
      /\ main' = [main EXCEPT !.at = "accept"]
  BY ThreadIs DEF IInv, Types, Spawn, sockets, peers
<1>2. PICK t \in Tid : th' = [th EXCEPT ![t] = [NoThread EXCEPT !.at = "start", !.cell = main.cell]]
  <2> DEFINE S == {u \in Tid : At(u, "none")}
  <2>1. S \in SUBSET Nat /\ S # {}
    BY ProxyAssumption DEF Spawn, Tid
  <2>2. Lowest(S) \in S
    <3> HIDE DEF S
    <3> QED BY <2>1, LowestFacts
  <2> QED BY <2>2 DEF Spawn
<1>3. /\ th'[t].at = "start" /\ th'[t].cell = main.cell
      /\ \A u \in Tid \ {t} : th'[u] = th[u]
  BY <1>1, <1>2 DEF NoThread
<1>4. Calm
  BY <1>1 DEF Calm
<1>5. \A c \in Conn : Prefix(c)' /\ (Fresh(c) => Fresh(c)')
  BY <1>4, CalmFacts
<1>6. \A u \in Tid \ {t} : ThreadOK(u)'
  BY <1>3, <1>4, CalmKept
\* The new thread has what main had.
<1>7. HandOf(t)' = MainHand
  BY <1>1, <1>3 DEF HandOf, MainHand, At
<1>8. Early(t)'
  BY <1>1, <1>5, <1>7 DEF Early, RInv, MainOK
<1>9. ThreadOK(t)'
  BY <1>3, <1>8 DEF ThreadOK, Ordered, Emptied
<1>10. MainHand' = NoFd
  BY <1>1 DEF MainHand, Types, MainTyped
<1>11. MainOK'
  BY <1>1, <1>5, <1>10, NoFdIsNone DEF MainOK, RInv, Types, MainTyped
<1> QED BY <1>5, <1>6, <1>9, <1>11 DEF RInv

LEMMA SpawnFailsKeepsRelay ==
  ASSUME IInv, IInv', RInv, OwnersMove, CellsMove, SpawnFails PROVE RInv'
<1>1. /\ Types /\ UNCHANGED <<waiting, done, th, got>>
      /\ main' = [main EXCEPT !.at = "accept"]
  BY DEF IInv, SpawnFails, peers
<1>2. Calm
  BY <1>1 DEF Calm
<1>3. (\A u \in Tid : ThreadOK(u)') /\ \A c \in Conn : Prefix(c)' /\ (Fresh(c) => Fresh(c)')
  BY <1>1, <1>2, CalmKept, CalmFacts
<1>4. MainHand' = NoFd
  BY <1>1 DEF MainHand, Types, MainTyped
<1>5. MainOK'
  BY <1>1, <1>3, <1>4, NoFdIsNone DEF MainOK, RInv, Types, MainTyped
<1> QED BY <1>3, <1>5 DEF RInv

-----------------------------------------------------------------------------
LEMMA InitGivesRelay ==
  ASSUME Init PROVE RInv
<1>1. /\ waiting = Conn /\ done = [q \in Sock |-> 0] /\ th = [t \in Tid |-> NoThread]
      /\ main.at = "accept" /\ got = [c \in Party |-> <<>>]
  BY DEF Init
<1>2. \A t \in Tid : th[t].at = "none"
  BY <1>1 DEF NoThread
<1>3. \A c \in Conn : Fresh(c)
  BY <1>1, NamesDiffer DEF Fresh
<1>4. MainOK
  BY <1>1, <1>3, NoFdIsNone DEF MainOK, MainHand
<1>5. \A t \in Tid : ThreadOK(t)
  BY <1>2 DEF ThreadOK, Ordered, Emptied, Early, Before
<1>6. ASSUME NEW c \in Conn PROVE Prefix(c)
  <2>1. Reply(c, 1, 0) = <<>>
    BY FirstFacts, NamesDiffer, EmptySeq DEF Reply
  <2> QED BY <1>3, <2>1, Sizes DEF Fresh, Prefix
<1> QED BY <1>4, <1>5, <1>6 DEF RInv

LEMMA NextKeepsRelay ==
  ASSUME IInv, RInv, [Next]_vars PROVE RInv'
<1>1. IInv'
  BY NextKeeps
<1>2. CASE Main
  <2>1. OwnersMove /\ CellsMove
    BY <1>2, MainMoves
  <2> QED BY <1>1, <1>2, <2>1, AcceptKeepsRelay, SpawnKeepsRelay, SpawnFailsKeepsRelay
          DEF Main
<1>3. ASSUME NEW t \in Tid, ThreadStep(t) PROVE RInv'
  <2>1. OwnersMove /\ CellsMove
    BY <1>3, ThreadsMove
  <2>2. CASE RequestLine(t) \/ HeaderLine(t)
    BY <1>1, <2>1, <2>2, RequestKeepsRelay
  <2>3. CASE Socket(t) \/ Connect(t)
    BY <1>1, <2>1, <2>3, OpenKeepsRelay
  <2>4. CASE Start(t) \/ Send(t) \/ Close(t)
    BY <1>1, <2>1, <2>4, StartKeepsRelay, SendKeepsRelay, CloseKeepsRelay
  <2>5. CASE Relay(t) \/ Write(t)
    BY <1>1, <2>1, <2>5, RelayKeepsRelay, WriteKeepsRelay
  <2> QED BY <1>3, <2>2, <2>3, <2>4, <2>5 DEF ThreadStep
<1>4. CASE UNCHANGED vars
  BY <1>4 DEF RInv, ThreadOK, Ordered, Emptied, Early, MainOK, Prefix, Fresh, Reply,
              HandOf, MainHand, Origin, At, vars, sockets, peers
<1> QED BY <1>2, <1>3, <1>4 DEF Next

(***************************************************************************)
(* However the bytes of a reply are cut by the network, the rio buffer and *)
(* the chunk, whatever fails, and however the threads are scheduled: what  *)
(* a client got is the first part of its own server's reply, and what its  *)
(* thread has of it is what comes next (proxy.c:155-163).                  *)
(***************************************************************************)
THEOREM ReplyStaysInOrder == Spec => []RelayedInOrder
<1>1. Init => RInv
  BY InitGivesRelay
<1>2. IInv /\ RInv /\ [Next]_vars => RInv'
  BY NextKeepsRelay
<1>3. RInv => RelayedInOrder
  BY RInvGives
<1> QED BY <1>1, <1>2, <1>3, IInvAlways, PTL DEF Spec

-----------------------------------------------------------------------------
(***************************************************************************)
(* The end of a relay.  A thread that relays has a socket: it sent a       *)
(* request through it.                                                     *)
(***************************************************************************)
Connected == \A t \in Tid : th[t].at \in {"relay", "write"} => th[t].sfd # NoFd

LEMMA StepKeepsConnected ==
  ASSUME IInv, Connected, NEW t \in Tid, ThreadStep(t)
  PROVE  Connected'
<1> DEFINE Fine == th'[t].at \in {"relay", "write"} => th'[t].sfd # NoFd
<1>1. /\ Types /\ th \in [Tid -> Thread] /\ th[t] \in Thread
      /\ th[t].at \in {"relay", "write"} => th[t].sfd # NoFd
  BY ThreadIs DEF IInv, Types, Connected
<1>2. CASE RequestLine(t) \/ HeaderLine(t)
  <2>1. Quiet(t) /\ th'[t].at \in {"request", "header", "close", "socket"}
    BY <1>2, RequestLineTalks, HeaderLineTalks DEF Reads
  <2> QED BY <2>1 DEF Quiet, Moves, Connected
<1>3. CASE Relay(t)
  <2>1. Moves(t)
    BY <1>3, RelayTalks DEF Talks, Quiet
  <2>2. Fine
    <3>1. CASE th' = Returned(t)
      BY <1>1, <3>1, ReturnedFacts
    <3>2. CASE Go(t, "write")
      BY <1>1, <1>3, <3>2 DEF Go, Relay, At, Thread
    <3>3. ASSUME NEW bytes, NEW chunk, NEW rest,
                 th' = [th EXCEPT ![t].line = chunk, ![t].buf = rest,
                                  ![t].at = IF ChunkIsFull(chunk) THEN "write" ELSE @]
          PROVE  Fine
      <4>1. th'[t].sfd = th[t].sfd
        BY <1>1, <3>3 DEF Thread
      <4> QED BY <1>1, <1>3, <4>1 DEF Relay, At
    <3> QED BY <1>3, <3>1, <3>2, <3>3 DEF Relay
  <2> QED BY <2>1, <2>2 DEF Moves, Connected
<1>4. CASE Write(t)
  <2>1. Moves(t)
    BY <1>4, WriteTalks DEF Talks, Quiet
  <2>2. CASE th' = Returned(t)
    BY <1>1, <2>1, <2>2, ReturnedFacts DEF Moves, Connected
  <2>3. CASE th' = [th EXCEPT ![t].at = "relay", ![t].line = <<>>]
    BY <1>1, <1>4, <2>3 DEF Write, At, Thread, Connected
  <2> QED BY <1>4, <2>2, <2>3 DEF Write
<1>5. CASE Start(t)
  BY <1>1, <1>5 DEF Start, Thread, Connected
<1>6. CASE Socket(t)
  <2>1. /\ \A u \in Tid \ {t} : th'[u] = th[u]
        /\ th'[t].at \in {"send", "connect", "socket"}
    BY <1>1, <1>6 DEF Socket, Go, At, Thread
  <2> QED BY <2>1 DEF Connected
<1>7. CASE Connect(t)
  <2>1. /\ \A u \in Tid \ {t} : th'[u] = th[u]
        /\ th'[t].at \in {"send", "socket"}
    BY <1>1, <1>7 DEF Connect, Go, At, Thread
  <2> QED BY <2>1 DEF Connected
<1>8. CASE Send(t)
  <2>1. CASE th' = Returned(t)
    BY <1>1, <2>1, ReturnedFacts DEF Moves, Connected, Quiet
  <2>2. CASE th[t].sfd # NoFd /\ th' = [th EXCEPT ![t].at = "relay", ![t].left = 0,
                            ![t].buf = <<>>, ![t].head = <<>>]
    BY <1>1, <2>2 DEF Thread, Connected
  <2> QED BY <1>8, <2>1, <2>2 DEF Send
<1>9. CASE Close(t)
  BY <1>1, <1>9 DEF Close, NoThread, Thread, Connected
<1> QED BY <1>2, <1>3, <1>4, <1>5, <1>6, <1>7, <1>8, <1>9 DEF ThreadStep

LEMMA NextKeepsConnected ==
  ASSUME IInv, Connected, [Next]_vars PROVE Connected'
<1>1. th \in [Tid -> Thread]
  BY DEF IInv, Types
<1>2. CASE Accept \/ SpawnFails
  BY <1>2 DEF Accept, SpawnFails, Connected
<1>3. CASE Spawn
  <2>1. PICK u : th' = [th EXCEPT ![u] = [NoThread EXCEPT !.at = "start", !.cell = main.cell]]
    BY <1>3 DEF Spawn
  <2> QED BY <1>1, <2>1 DEF NoThread, Connected
<1>4. CASE UNCHANGED vars
  BY <1>4 DEF vars, Connected
<1> QED BY <1>2, <1>3, <1>4, StepKeepsConnected DEF Next, Main

\* A thread that leaves the loop without an error has met the end of the reply.
LEMMA RelayEnds ==
  ASSUME IInv, RInv, Connected, NEW t \in Tid, Relay(t),
         th'[t].at = "close", UNCHANGED stream, th[t].cfd # NoFd
  PROVE  Len(got[Origin(t)]) = stream[Server(Origin(t))].len
<1> DEFINE d == Origin(t)
           f == th[t].sfd
<1>1. /\ Types /\ HandsInv /\ ServersOK /\ th \in [Tid -> Thread] /\ th[t] \in Thread
      /\ th[t].at = "relay" /\ f \in Fd \cup {NoFd} /\ f # NoFd
      /\ th[t].line \in Seq(SockByte) /\ th[t].buf \in Seq(SockByte)
      /\ got \in [Party -> Seq(SockByte)] /\ done \in [Sock -> Nat]
      /\ stream \in [Sock -> Stream]
  BY ThreadIs DEF IInv, Types, SocketsTyped, PeersTyped, Relay, At, Connected
<1>2. d \in Conn /\ d \in Party /\ owner[f] = Server(d) /\ Server(d) \in Sock
  <2>1. d \in Conn
    BY <1>1, OriginFacts, ThreadIs
  <2> QED BY <1>1, <2>1, NamesDiffer DEF ServersOK, Party
<1>3. IsOpen(f)
  BY <1>1, <1>2, ProxyAssumption DEF IsOpen
<1>4. ASSUME NEW bytes, NEW chunk, NEW rest,
             th' = [th EXCEPT ![t].line = chunk, ![t].buf = rest,
                              ![t].at = IF ChunkIsFull(chunk) THEN "write" ELSE @]
      PROVE  FALSE
  <2>1. th'[t].at = IF ChunkIsFull(chunk) THEN "write" ELSE th[t].at
    BY <1>1, <1>4 DEF Thread
  <2> QED BY <1>1, <2>1
<1>5. ~Go(t, "write")
  <2>1. ASSUME Go(t, "write") PROVE th'[t].at = "write"
    BY <1>1, <2>1 DEF Go, Thread
  <2> QED BY <2>1
<1>6. ~FindsError(t, f)
  <2>1. ASSUME FindsError(t, f) PROVE FALSE
    <3>1. /\ stream[Server(d)].ends = "reset"
          /\ stream' = [stream EXCEPT ![Server(d)].ends = "gone"]
      BY <1>2, <1>3, <2>1 DEF FindsError, ResetByPeer
    <3>2. stream'[Server(d)].ends = "gone"
      BY <1>1, <1>2, <3>1 DEF Stream
    <3> QED BY <3>1, <3>2
  <2> QED BY <2>1
<1>7. FindsEnd(t, f) /\ th[t].line = <<>>
  BY <1>4, <1>5, <1>6 DEF Relay
<1>8. th[t].buf = <<>> /\ done[Server(d)] = stream[Server(d)].len
  BY <1>2, <1>7 DEF FindsEnd, EndOfStream
<1>9. got[d] = Reply(d, 1, done[Server(d)])
  <2>1. got[d] \o th[t].line \o th[t].buf = Reply(d, 1, done[Server(d)])
    BY <1>1, <1>2 DEF RInv, ThreadOK, Ordered
  <2>2. got[d] \in Seq(SockByte)
    BY <1>1, <1>2
  <2> QED BY <1>7, <1>8, <2>1, <2>2, ConcatEmptySeq
<1>10. Len(got[d]) = done[Server(d)]
  <2>1. done[Server(d)] \in Nat
    BY <1>1, <1>2
  <2> QED BY <1>2, <1>9, <2>1, FirstFacts DEF Reply
<1> QED BY <1>8, <1>10

Completes(t) ==
  At(t, "relay") /\ th'[t].at = "close" /\ UNCHANGED stream /\ th[t].cfd # NoFd =>
    Len(got[Origin(t)]) = stream[Server(Origin(t))].len

LEMMA NextCompletes ==
  ASSUME IInv, RInv, Connected, [Next]_vars, NEW t \in Tid PROVE Completes(t)
<1> SUFFICES ASSUME At(t, "relay"), th'[t].at = "close", UNCHANGED stream,
                    th[t].cfd # NoFd
             PROVE  Len(got[Origin(t)]) = stream[Server(Origin(t))].len
  BY DEF Completes
<1>1. th \in [Tid -> Thread] /\ th'[t].at # th[t].at
  BY DEF IInv, Types, At
<1>2. ~(Accept \/ SpawnFails \/ UNCHANGED vars)
  BY <1>1 DEF Accept, SpawnFails, vars
<1>3. ~Spawn
  <2>1. ASSUME NEW u, th' = [th EXCEPT ![u] = [NoThread EXCEPT !.at = "start",
                                                               !.cell = main.cell]]
        PROVE  th'[t].at \in {th[t].at, "start"}
    BY <1>1, <2>1 DEF NoThread
  <2> QED BY <1>1, <2>1 DEF Spawn
<1>4. PICK u \in Tid : ThreadStep(u)
  BY <1>2, <1>3 DEF Next, Main
<1>5. u = t
  BY <1>1, <1>4, StepsAlone
<1>6. Relay(t)
  BY <1>4, <1>5 DEF ThreadStep, Start, RequestLine, HeaderLine, Socket, Connect, Send,
                    Write, Close, At
<1> QED BY <1>6, RelayEnds

(***************************************************************************)
(* However a reply is cut, and whatever happens to other connections: a    *)
(* thread that meets no error leaves the loop only when its client has the *)
(* whole reply, the last chunk included (proxy.c:155-163).                 *)
(***************************************************************************)
THEOREM RelayStaysComplete == Spec => RelayComplete
<1>1. Init => Connected
  BY DEF Init, NoThread, Connected
<1>2. IInv /\ RInv /\ Connected /\ [Next]_vars => RInv' /\ Connected'
  BY NextKeepsRelay, NextKeepsConnected
<1>3. IInv /\ RInv /\ Connected /\ [Next]_vars => [\A t \in Tid : Completes(t)]_vars
  BY NextCompletes
<1>4. Init => RInv
  BY InitGivesRelay
<1>5. (\A t \in Tid : Completes(t)) =>
        \A t \in Tid :
          At(t, "relay") /\ th'[t].at = "close" /\ UNCHANGED stream /\ th[t].cfd # NoFd =>
            Len(got[Origin(t)]) = stream[Server(Origin(t))].len
  BY DEF Completes
<1> QED BY <1>1, <1>2, <1>3, <1>4, <1>5, IInvAlways, PTL DEF Spec, RelayComplete

-----------------------------------------------------------------------------
(***************************************************************************)
(* What is forwarded.  A thread has the first bytes of its client's stream *)
(* in the head, then in the line, then in the buffer.  The head ends with  *)
(* a line and has no blank one, until it is complete; the line has no end  *)
(* yet.  This is so as long as the stream was not reset, and no line is    *)
(* too long.                                                               *)
(***************************************************************************)
\* s is what stream q has after place i.
Follows(s, q, i) == \A n \in 1 .. Len(s) : s[n] = <<q, i + n>>

NoNewline(s, i, j) == \A n \in i + 1 .. j : n \notin s.newlines

\* There is no blank line up to place h.
NoBlank(s, h) == \A i \in BlankAt(s) : i > h

Clean(s) == s.ends # "gone" /\ LinesFit(s)

Unread(c) == done[Client(c)] = 0

Starts(t) ==
  At(t, "start") =>
    /\ th[t].head = <<>> /\ th[t].line = <<>> /\ th[t].buf = <<>>
    /\ HandOf(t) \in Fd => \A c \in Conn : owner[HandOf(t)] = Client(c) => Unread(c)

\* Thread r has read n bytes of stream q, which is s.
ReadsOn(r, q, s, n) ==
  LET h == Len(r.head)
      l == h + Len(r.line)
  IN  /\ Follows(r.head, q, 0) /\ Follows(r.line, q, h) /\ Follows(r.buf, q, l)
      /\ l + Len(r.buf) = n
      /\ NoNewline(s, h, l)
      /\ NoBlank(s, h)
      /\ r.at = "request" => h = 0
      /\ r.at = "header" => h \in s.newlines \/ h = s.len

HasHead(r, q, s) == Follows(r.head, q, 0) /\ Len(r.head) = HeadLen(s)

Collects(t) ==
  \A c \in Conn : Origin(t) = c /\ Clean(stream[Client(c)]) =>
    /\ th[t].at \in {"request", "header"} =>
         ReadsOn(th[t], Client(c), stream[Client(c)], done[Client(c)])
    /\ th[t].at \in {"socket", "connect", "send"} =>
         HasHead(th[t], Client(c), stream[Client(c)])

MainUnread ==
  /\ \A c \in waiting : Unread(c)
  /\ MainHand \in Fd => \A c \in Conn : owner[MainHand] = Client(c) => Unread(c)

Sent(c) ==
  forwarded[c] # <<>> /\ Clean(stream[Client(c)]) =>
    forwarded[c] = SubSeq(RequestOf(c), 1, Len(RequestOf(c)) - unsent[c])

NewlinesReal ==
  \A c \in Conn : stream[Client(c)].newlines \subseteq 1 .. stream[Client(c)].len

QInv ==
  /\ \A t \in Tid : Starts(t) /\ Collects(t)
  /\ MainUnread /\ NewlinesReal /\ \A c \in Conn : Sent(c)

-----------------------------------------------------------------------------
(***************************************************************************)
(* Parts of a stream that follow one another.                              *)
(***************************************************************************)
LEMMA FollowsJoin ==
  ASSUME NEW S, NEW a \in Seq(S), NEW b \in Seq(S), NEW q, NEW i \in Nat,
         Follows(a, q, i), Follows(b, q, i + Len(a))
  PROVE  /\ a \o b \in Seq(S) /\ Len(a \o b) = Len(a) + Len(b)
         /\ Follows(a \o b, q, i)
<1> DEFINE s == a \o b
<1>1. Len(a) \in Nat /\ Len(b) \in Nat
  BY LenProperties
<1>2. /\ s \in Seq(S) /\ Len(s) = Len(a) + Len(b)
      /\ \A n \in 1 .. Len(a) + Len(b) :
           s[n] = IF n <= Len(a) THEN a[n] ELSE b[n - Len(a)]
  BY ConcatProperties
<1> HIDE DEF s
<1>3. ASSUME NEW n \in 1 .. Len(s) PROVE s[n] = <<q, i + n>>
  <2>1. CASE n <= Len(a)
    BY <1>1, <1>2, <2>1 DEF Follows
  <2>2. CASE ~(n <= Len(a))
    <3>1. n - Len(a) \in 1 .. Len(b) /\ i + Len(a) + (n - Len(a)) = i + n
      BY <1>1, <1>2, <2>2
    <3>2. b[n - Len(a)] = <<q, i + n>>
      BY <3>1 DEF Follows
    <3> QED BY <1>2, <2>2, <3>2
  <2> QED BY <2>1, <2>2
<1> QED BY <1>2, <1>3 DEF s, Follows

LEMMA FollowsSplit ==
  ASSUME NEW S, NEW a \in Seq(S), NEW q, NEW i \in Nat, NEW k \in 0 .. Len(a),
         Follows(a, q, i)
  PROVE  Follows(SubSeq(a, 1, k), q, i) /\ Follows(SubSeq(a, k + 1, Len(a)), q, i + k)
<1> DEFINE x == SubSeq(a, 1, k)
           y == SubSeq(a, k + 1, Len(a))
<1>1. Len(a) \in Nat /\ k \in Nat /\ Len(x) = k /\ Len(y) = Len(a) - k
  BY SplitFacts, LenProperties
<1>2. /\ \A n \in 1 .. k : x[n] = a[n]
      /\ \A n \in 1 .. Len(a) - k : y[n] = a[k + n]
  <2>1. \A n \in 1 .. Len(a) : a[n] \in S
    BY ElementOfSeq
  <2>2. \A n \in 1 .. k : x[n] = a[1 + n - 1]
    <3>1. \A n \in 1 .. k : a[n] \in S
      BY <1>1, <2>1
    <3> QED BY <1>1, <3>1, SubSeqProperties
  <2>3. \A n \in 1 .. Len(a) - k : y[n] = a[k + 1 + n - 1]
    <3>1. \A n \in k + 1 .. Len(a) : a[n] \in S
      BY <1>1, <2>1
    <3>2. PICK m : m = k + 1
      OBVIOUS
    <3>3. m \in Int /\ Len(a) \in Int /\ Len(a) - m + 1 = Len(a) - k
      BY <1>1, <3>2
    <3>4. y = SubSeq(a, m, Len(a)) /\ \A n \in m .. Len(a) : a[n] \in S
      BY <3>1, <3>2
    <3>5. \A n \in 1 .. Len(a) - m + 1 : SubSeq(a, m, Len(a))[n] = a[m + n - 1]
      <4>1. m <= Len(a) => Len(SubSeq(a, m, Len(a))) = Len(a) - m + 1
        BY <1>1, <3>3, <3>4
      <4> HIDE DEF y
      <4> QED BY <3>3, <3>4, SubSeqProperties
    <3> HIDE DEF y
    <3> QED BY <3>2, <3>3, <3>4, <3>5
  <2>4. (\A n \in 1 .. k : 1 + n - 1 = n) /\ \A n \in 1 .. Len(a) - k : k + 1 + n - 1 = k + n
    BY <1>1
  <2> QED BY <2>2, <2>3, <2>4
<1> HIDE DEF x, y
<1>3. Follows(x, q, i)
  BY <1>1, <1>2 DEF Follows
<1>4. Follows(y, q, i + k)
  <2> SUFFICES ASSUME NEW n \in 1 .. Len(a) - k PROVE y[n] = <<q, i + k + n>>
    BY <1>1 DEF Follows
  <2>1. k + n \in 1 .. Len(a) /\ i + (k + n) = i + k + n
    BY <1>1
  <2> QED BY <1>2, <2>1 DEF Follows
<1> QED BY <1>3, <1>4 DEF x, y

LEMMA FollowsNothing ==
  ASSUME NEW q, NEW i PROVE Follows(<<>>, q, i)
BY Sizes DEF Follows

\* The first bytes of a head are the first bytes of its stream.
LEMMA FollowsIsBytes ==
  ASSUME NEW s \in Seq(HeadByte), NEW q \in Sock, Follows(s, q, 0), NEW k \in 0 .. Len(s)
  PROVE  SubSeq(s, 1, k) = BytesOf(q, 1, k)
<1> DEFINE x == SubSeq(s, 1, k)
           y == BytesOf(q, 1, k)
<1>1. x \in Seq(HeadByte) /\ Len(x) = k /\ k \in Nat
  BY SplitFacts, LenProperties
<1>2. Follows(x, q, 0)
  <2>1. 0 \in Nat
    OBVIOUS
  <2> QED BY <2>1, FollowsSplit
<1>3. y \in Seq(HeadByte) /\ Len(y) = k /\ \A i \in 1 .. k : y[i] = <<q, i>>
  <2>1. y \in Seq(SockByte) /\ Len(y) = k /\ \A i \in 1 .. k : y[i] = <<q, i>>
    BY <1>1, FirstFacts
  <2> HIDE DEF y
  <2> QED BY <2>1, SockBytesAreHeadBytes
<1> HIDE DEF x, y
<1>4. \A i \in 1 .. k : x[i] = y[i]
  <2>1. \A i \in 1 .. k : 0 + i = i
    BY <1>1
  <2> QED BY <1>1, <1>2, <1>3, <2>1 DEF Follows
<1>5. x = y
  BY <1>1, <1>3, <1>4, SeqEqual
<1> QED BY <1>5 DEF x, y

-----------------------------------------------------------------------------
(***************************************************************************)
(* One pass of rio_readlineb over what the buffer holds: the line ends     *)
(* with the first line end, or has none.  It is never full before, when    *)
(* lines fit.                                                              *)
(***************************************************************************)
LEMMA EndsAt ==
  ASSUME NEW s, NEW q, NEW h \in Nat, NEW line \in Seq(SockByte), Follows(line, q, h)
  PROVE  /\ EndsInNewline(s, line) <=> Len(line) # 0 /\ h + Len(line) \in s.newlines
<1>1. Len(line) \in Nat /\ (line = <<>> <=> Len(line) = 0)
  BY LenProperties, EmptySeq
<1>2. CASE Len(line) = 0
  BY <1>1, <1>2 DEF EndsInNewline
<1>3. CASE Len(line) # 0
  <2>1. Len(line) \in 1 .. Len(line)
    BY <1>1, <1>3
  <2>2. line[Len(line)] = <<q, h + Len(line)>>
    BY <2>1 DEF Follows
  <2> QED BY <1>1, <1>3, <2>2 DEF EndsInNewline
<1> QED BY <1>2, <1>3

\* A full line has its end in it, when lines fit.
LEMMA FullLineEnds ==
  ASSUME NEW s \in Stream, LinesFit(s), NEW h \in Nat, NEW n \in Nat,
         n = MaxLine - 1, h + n <= s.len, NoNewline(s, h, h + n - 1)
  PROVE  h + n \in s.newlines
<1>1. s.len \in Nat /\ MaxLine \in Nat /\ MaxLine >= 2
  BY Sizes DEF Stream
<1>2. h + 1 \in 1 .. s.len - MaxLine + 2
  BY <1>1
<1>3. PICK j \in h + 1 .. h + 1 + MaxLine - 2 : j \in s.newlines
  BY <1>2 DEF LinesFit
<1>4. j \in h + 1 .. h + n
  BY <1>1, <1>3
<1>5. j \notin h + 1 .. h + n - 1
  BY <1>3 DEF NoNewline
<1> QED BY <1>1, <1>3, <1>4, <1>5

\* What came after place h is now in a line and in the rest.
Passed(s, q, h, line, rest, total) ==
  /\ Len(line) > 0 /\ Follows(line, q, h) /\ Follows(rest, q, h + Len(line))
  /\ h + Len(line) + Len(rest) = total
  /\ NoNewline(s, h, h + Len(line) - 1)
  /\ LineEnds(s, line) <=> h + Len(line) \in s.newlines

LEMMA PassReads ==
  ASSUME NEW s \in Stream, LinesFit(s), NEW q, NEW h \in Nat,
         NEW line \in Seq(SockByte), Follows(line, q, h), Len(line) < MaxLine - 1,
         NEW bytes \in Seq(SockByte), Follows(bytes, q, h + Len(line)), bytes # <<>>,
         NoNewline(s, h, h + Len(line)), h + Len(line) + Len(bytes) <= s.len,
         NEW k, k = LineTakes(s, bytes, line)
  PROVE  Passed(s, q, h, line \o SubSeq(bytes, 1, k), SubSeq(bytes, k + 1, Len(bytes)),
                h + Len(line) + Len(bytes))
<1> DEFINE n == Len(line) + k
           longer == line \o SubSeq(bytes, 1, k)
           rest   == SubSeq(bytes, k + 1, Len(bytes))
           upto(j) == line \o SubSeq(bytes, 1, j)
<1>1. /\ Len(line) \in Nat /\ Len(bytes) \in Nat /\ Len(bytes) > 0
      /\ s.len \in Nat /\ MaxLine \in Nat /\ MaxLine >= 2
  BY LenProperties, EmptySeq, Sizes DEF Stream
<1>2. /\ k \in 0 .. Len(bytes)
      /\ k = Len(bytes) \/ LineEnds(s, upto(k))
      /\ \A j \in 0 .. k - 1 : ~LineEnds(s, upto(j))
      /\ n <= MaxLine - 1
  BY LineTakesFacts
<1>3. ASSUME NEW j \in 0 .. Len(bytes)
      PROVE  /\ upto(j) \in Seq(SockByte) /\ Len(upto(j)) = Len(line) + j
             /\ Follows(upto(j), q, h)
  <2>1. SubSeq(bytes, 1, j) \in Seq(SockByte) /\ Len(SubSeq(bytes, 1, j)) = j
    BY SplitFacts
  <2>2. Follows(SubSeq(bytes, 1, j), q, h + Len(line))
    <3>1. h + Len(line) \in Nat
      BY <1>1
    <3> QED BY <3>1, FollowsSplit
  <2> QED BY <2>1, <2>2, FollowsJoin
<1>4. ASSUME NEW j \in 0 .. Len(bytes)
      PROVE  LineEnds(s, upto(j)) <=>
               \/ Len(line) + j = MaxLine - 1
               \/ Len(line) + j # 0 /\ h + (Len(line) + j) \in s.newlines
  <2>1. upto(j) \in Seq(SockByte) /\ Len(upto(j)) = Len(line) + j /\ Follows(upto(j), q, h)
    BY <1>3
  <2> HIDE DEF upto
  <2> QED BY <2>1, EndsAt DEF LineEnds, LineIsFull
<1> HIDE DEF upto
<1>5. k \in Nat /\ n \in Nat /\ n > 0
  <2>1. CASE k = 0
    <3>1. LineEnds(s, upto(0))
      BY <1>1, <1>2, <2>1
    <3>2. Len(line) # 0 /\ h + Len(line) \in s.newlines
      <4>1. 0 \in 0 .. Len(bytes) /\ Len(line) + 0 = Len(line)
        BY <1>1
      <4> QED BY <1>1, <1>4, <3>1, <4>1
    <3>3. h + Len(line) \in h + 1 .. h + Len(line)
      BY <1>1, <3>2
    <3> QED BY <3>2, <3>3 DEF NoNewline
  <2>2. CASE k # 0
    BY <1>1, <1>2, <2>2
  <2> QED BY <2>1, <2>2
<1>6. NoNewline(s, h, h + n - 1)
  <2> SUFFICES ASSUME NEW i \in h + 1 .. h + n - 1 PROVE i \notin s.newlines
    BY DEF NoNewline
  <2>1. CASE i <= h + Len(line)
    <3>1. i \in h + 1 .. h + Len(line)
      BY <1>1, <2>1
    <3> QED BY <3>1 DEF NoNewline
  <2>2. CASE ~(i <= h + Len(line))
    <3> DEFINE j == i - h - Len(line)
    <3>1. j \in 0 .. k - 1 /\ h + (Len(line) + j) = i /\ Len(line) + j # 0
      BY <1>1, <1>2, <1>5, <2>2
    <3>2. j \in 0 .. Len(bytes)
      BY <1>1, <1>2, <3>1
    <3>3. ~LineEnds(s, upto(j))
      BY <1>2, <3>1
    <3> HIDE DEF j
    <3> QED BY <1>4, <3>1, <3>2, <3>3
  <2> QED BY <2>1, <2>2
<1>7. LineEnds(s, upto(k)) <=> h + n \in s.newlines
  <2>1. LineEnds(s, upto(k)) <=> n = MaxLine - 1 \/ h + n \in s.newlines
    BY <1>2, <1>4, <1>5
  <2>2. h + n <= s.len
    BY <1>1, <1>2
  <2>3. n = MaxLine - 1 => h + n \in s.newlines
    <3> HIDE DEF n
    <3> QED BY <1>5, <1>6, <2>2, FullLineEnds
  <2> QED BY <2>1, <2>3
<1>8. Follows(rest, q, h + n) /\ Len(rest) = Len(bytes) - k
  <2>1. h + Len(line) \in Nat /\ h + Len(line) + k = h + n
    BY <1>1, <1>2
  <2>2. Follows(SubSeq(bytes, k + 1, Len(bytes)), q, h + Len(line) + k)
    <3> QED BY <1>2, <2>1, FollowsSplit
  <2> QED BY <1>2, <2>1, <2>2, SplitFacts
<1>9. Len(longer) = n /\ Follows(longer, q, h)
  BY <1>2, <1>3 DEF upto
<1>10. LineEnds(s, longer) <=> h + n \in s.newlines
  BY <1>7 DEF upto
<1>11. h + n + Len(rest) = h + Len(line) + Len(bytes)
  <2> HIDE DEF rest
  <2> QED BY <1>1, <1>2, <1>8
<1> HIDE DEF longer, rest, n
<1>12. Passed(s, q, h, longer, rest, h + Len(line) + Len(bytes))
  BY <1>5, <1>6, <1>8, <1>9, <1>10, <1>11 DEF Passed
<1> QED BY <1>12 DEF longer, rest

-----------------------------------------------------------------------------
(***************************************************************************)
(* The blank line.                                                         *)
(***************************************************************************)
LEMMA FirstLine ==
  ASSUME NEW s \in Stream, NEW n \in Nat, NoNewline(s, 0, n - 1)
  PROVE  NoBlank(s, n)
<1> SUFFICES ASSUME NEW i \in BlankAt(s), ~(i > n) PROVE FALSE
  BY DEF NoBlank
<1>1. i \in Nat /\ i > 1 /\ i - 1 \in s.newlines
  BY DEF BlankAt, Stream
<1>2. i - 1 \in 0 + 1 .. n - 1
  BY <1>1
<1> QED BY <1>1, <1>2 DEF NoNewline

\* The head gets n bytes more, the next line.
LEMMA NextLine ==
  ASSUME NEW s \in Stream, NEW h \in Nat, NEW n \in Nat, n > 0,
         NoBlank(s, h), NoNewline(s, h, h + n - 1),
         h \in s.newlines \/ h = s.len, h + n <= s.len
  PROVE  IF n = 1 /\ h > 0 /\ h + n \in s.newlines THEN HeadLen(s) = h + n
         ELSE h > 0 => NoBlank(s, h + n)
<1>1. h \in s.newlines /\ s.len \in Nat
  BY DEF Stream
<1>2. CASE n = 1 /\ h > 0 /\ h + n \in s.newlines
  <2>1. h + 1 \in BlankAt(s)
    BY <1>1, <1>2 DEF BlankAt
  <2>2. \A i \in BlankAt(s) : h + 1 <= i /\ i \in Nat
    BY DEF NoBlank, BlankAt, Stream
  <2>3. Lowest(BlankAt(s)) = h + 1
    <3> DEFINE B == BlankAt(s)
    <3>1. B \in SUBSET Nat /\ h + 1 \in B
      BY <2>1, <2>2
    <3>2. Lowest(B) \in B /\ \A y \in B : Lowest(B) <= y
      <4> HIDE DEF B
      <4> QED BY <3>1, LowestFacts
    <3>3. PICK x : x = Lowest(B)
      OBVIOUS
    <3>4. x \in Nat /\ x <= h + 1 /\ h + 1 <= x
      BY <2>2, <3>1, <3>2, <3>3
    <3> QED BY <3>3, <3>4
  <2> QED BY <1>2, <2>1, <2>3 DEF HeadLen
<1>3. CASE ~(n = 1 /\ h > 0 /\ h + n \in s.newlines)
  <2> SUFFICES ASSUME h > 0, NEW i \in BlankAt(s), ~(i > h + n) PROVE FALSE
    BY <1>3 DEF NoBlank
  <2>1. i \in s.newlines /\ i - 1 \in s.newlines /\ i \in Nat /\ i > h
    BY DEF BlankAt, Stream, NoBlank
  <2>2. CASE i < h + n
    <3>1. i \in h + 1 .. h + n - 1
      BY <2>1, <2>2
    <3> QED BY <2>1, <3>1 DEF NoNewline
  <2>3. CASE i = h + n
    <3>1. n # 1
      BY <1>3, <2>1, <2>3
    <3>2. i - 1 \in h + 1 .. h + n - 1
      BY <2>3, <3>1
    <3> QED BY <2>1, <3>2 DEF NoNewline
  <2> QED BY <2>1, <2>2, <2>3
<1> QED BY <1>2, <1>3

\* The stream has ended without a blank line.
LEMMA HeadIsAll ==
  ASSUME NEW s \in Stream, s.newlines \subseteq 1 .. s.len, NoBlank(s, s.len)
  PROVE  HeadLen(s) = s.len
<1>1. BlankAt(s) = {}
  <2> SUFFICES ASSUME NEW i \in BlankAt(s) PROVE FALSE
    OBVIOUS
  <2>1. i \in 1 .. s.len /\ i > s.len /\ s.len \in Nat
    BY DEF BlankAt, NoBlank, Stream
  <2> QED BY <2>1
<1> QED BY <1>1 DEF HeadLen

-----------------------------------------------------------------------------
(***************************************************************************)
(* What one thread reads and sends does not concern the others.            *)
(***************************************************************************)
StreamsMove ==
  \A c \in Conn :
    \/ stream'[Client(c)] = stream[Client(c)]
    \/ /\ stream'[Client(c)].ends = "gone"
       /\ stream'[Client(c)].len = stream[Client(c)].len
       /\ stream'[Client(c)].newlines = stream[Client(c)].newlines

OnlyAsks(d) ==
  \A c \in Conn \ {d} :
    /\ done'[Client(c)] = done[Client(c)] /\ stream'[Client(c)] = stream[Client(c)]
    /\ forwarded'[c] = forwarded[c] /\ unsent'[c] = unsent[c]

LEMMA AskerKept ==
  ASSUME IInv, IInv', OwnersMove, CellsMove, NEW u \in Tid, th'[u] = th[u],
         Starts(u), Collects(u), NEW d, OnlyAsks(d), Origin(u) \in Conn => Origin(u) # d,
         HandOf(u) \in Fd => owner[HandOf(u)] # Client(d)
  PROVE  Starts(u)' /\ Collects(u)'
<1>1. /\ HandOf(u)' = HandOf(u) /\ Origin(u)' = Origin(u)
      /\ HandOf(u) \in Fd => owner'[HandOf(u)] = owner[HandOf(u)]
  BY HandStays
<1>2. Starts(u)'
  BY <1>1 DEF Starts, At, Unread, OnlyAsks
<1>3. Collects(u)'
  <2> SUFFICES ASSUME NEW c \in Conn, Origin(u) = c, Clean(stream'[Client(c)])
               PROVE  /\ th[u].at \in {"request", "header"} =>
                           ReadsOn(th[u], Client(c), stream'[Client(c)], done'[Client(c)])
                      /\ th[u].at \in {"socket", "connect", "send"} =>
                           HasHead(th[u], Client(c), stream'[Client(c)])
    BY <1>1 DEF Collects
  <2>1. done'[Client(c)] = done[Client(c)] /\ stream'[Client(c)] = stream[Client(c)]
    BY DEF OnlyAsks
  <2> QED BY <2>1 DEF Collects
<1> QED BY <1>2, <1>3

LEMMA NewlinesKept ==
  ASSUME NewlinesReal, StreamsMove PROVE NewlinesReal'
BY DEF NewlinesReal, StreamsMove

LEMMA SentKept ==
  ASSUME StreamsMove, NEW c \in Conn, Sent(c), forwarded'[c] = forwarded[c] /\ unsent'[c] = unsent[c]
  PROVE  Sent(c)'
<1>1. stream'[Client(c)] = stream[Client(c)] \/ ~Clean(stream'[Client(c)])
  BY DEF StreamsMove, Clean
<1> QED BY <1>1 DEF Sent, RequestOf

AsksAlone(t) ==
  /\ \A u \in Tid \ {t} : th'[u] = th[u]
  /\ UNCHANGED <<waiting, main>>
  /\ OnlyAsks(Origin(t)) /\ StreamsMove
  /\ \A c \in Conn : c = Origin(t) => Sent(c)'

LEMMA AsksAloneKeeps ==
  ASSUME IInv, IInv', QInv, NEW t \in Tid, OwnersMove, CellsMove,
         AsksAlone(t), Starts(t)', Collects(t)'
  PROVE  QInv'
<1> DEFINE d == Origin(t)
<1>1. /\ Types /\ HandsInv /\ Types' /\ HandsInv' /\ d \in Party
      /\ waiting' = waiting /\ main' = main /\ waiting \subseteq Conn
  BY OriginFacts DEF IInv, AsksAlone, Types, MainTyped
<1>2. ASSUME NEW u \in Tid \ {t} PROVE Starts(u)' /\ Collects(u)'
  <2>1. th'[u] = th[u] /\ Starts(u) /\ Collects(u) /\ OnlyAsks(d)
    BY DEF AsksAlone, QInv
  <2>2. /\ Origin(u) \in Conn => Origin(u) # d
        /\ HandOf(u) \in Fd => owner[HandOf(u)] # Client(d)
    <3>1. CASE d \in Conn
      BY <3>1, AloneFacts
    <3>2. CASE d \notin Conn
      BY <1>1, <3>2, NamesDiffer DEF HandsInv, Held, IsClient
    <3> QED BY <3>1, <3>2
  <2> HIDE DEF d
  <2> QED BY <2>1, <2>2, AskerKept
<1>3. MainUnread'
  <2>1. MainHand' = MainHand /\ (MainHand \in Fd => owner'[MainHand] = owner[MainHand])
    <3>1. MainHand' = MainHand
      BY <1>1 DEF MainHand, HandsInv, CellsOK, CellsMove, Types, MainTyped
    <3>2. ASSUME MainHand \in Fd PROVE owner'[MainHand] = owner[MainHand]
      <4>1. IsClient(owner[MainHand]) /\ IsClient(owner'[MainHand])
        BY <1>1, <3>1, <3>2 DEF HandsInv, Held, IsClient
      <4> QED BY <3>2, <4>1, NamesDiffer DEF OwnersMove
    <3> QED BY <3>1, <3>2
  <2>2. \A c \in Conn : c # d => (Unread(c) => Unread(c)')
    BY DEF AsksAlone, OnlyAsks, Unread
  <2>3. d \in Conn => d \notin waiting /\ (MainHand \in Fd => owner[MainHand] # Client(d))
    BY AloneFacts
  <2>4. \A c \in waiting : Unread(c)'
    BY <1>1, <2>2, <2>3 DEF QInv, MainUnread
  <2>5. MainHand \in Fd => \A c \in Conn : owner[MainHand] = Client(c) => Unread(c)'
    BY <2>2, <2>3 DEF QInv, MainUnread
  <2> QED BY <1>1, <2>1, <2>4, <2>5 DEF MainUnread, Unread
<1>4. ASSUME NEW c \in Conn PROVE Sent(c)'
  <2>1. CASE c = d
    BY <2>1 DEF AsksAlone
  <2>2. CASE c # d
    BY <2>2, SentKept DEF AsksAlone, OnlyAsks, QInv
  <2> QED BY <2>1, <2>2
<1>5. NewlinesReal'
  BY NewlinesKept DEF AsksAlone, QInv
<1> QED BY <1>2, <1>3, <1>4, <1>5 DEF QInv

-----------------------------------------------------------------------------
(***************************************************************************)
(* Reading a request.                                                      *)
(***************************************************************************)
\* Of the streams of clients, only the thread's own is touched.
LEMMA ReadsOwnRequest ==
  ASSUME IInv, QInv, NEW t \in Tid,
         \/ \E bytes \in MayFind(t, th[t].cfd) : Finds(t, th[t].cfd, bytes)
         \/ FindsEnd(t, th[t].cfd) \/ FindsError(t, th[t].cfd),
         UNCHANGED <<forwarded, unsent>>
  PROVE  /\ OnlyAsks(Origin(t)) /\ StreamsMove
         /\ \A c \in Conn : Sent(c)'
         /\ FindsError(t, th[t].cfd) /\ Origin(t) \in Conn =>
              ~Clean(stream'[Client(Origin(t))])
<1> DEFINE f == th[t].cfd
<1>1. /\ Types /\ HandsInv /\ f \in Fd \cup {NoFd}
      /\ done \in [Sock -> Nat] /\ stream \in [Sock -> Stream]
  BY ThreadIs DEF IInv, Types, SocketsTyped
<1>2. PICK d : d = Origin(t)
  OBVIOUS
<1>3. \/ UNCHANGED <<done, stream>>
      \/ /\ IsOpen(f) /\ stream' = stream
         /\ \E n : done' = [done EXCEPT ![owner[f]] = n]
      \/ /\ IsOpen(f) /\ done' = done
         /\ stream' = [stream EXCEPT ![owner[f]].ends = "gone"]
  BY DEF MayFind, Finds, FindsEnd, FindsError, sockets
<1>4. IsOpen(f) => owner[f] = Client(d) /\ d \in Party /\ Client(d) \in Sock
  BY <1>1, <1>2, OriginFacts, NamesDiffer DEF IsOpen
<1>5. \A c \in Conn : c \in Party /\ Client(c) \in Sock /\ (Client(c) = Client(d) /\ d \in Party => c = d)
  BY NamesDiffer
<1>6. OnlyAsks(d) /\ StreamsMove
  <2>1. CASE UNCHANGED <<done, stream>>
    BY <2>1 DEF OnlyAsks, StreamsMove
  <2>2. CASE /\ IsOpen(f) /\ stream' = stream
             /\ \E n : done' = [done EXCEPT ![owner[f]] = n]
    <3>1. PICK n : done' = [done EXCEPT ![Client(d)] = n]
      BY <1>4, <2>2
    <3>2. \A c \in Conn \ {d} : done'[Client(c)] = done[Client(c)]
      BY <1>1, <1>4, <1>5, <2>2, <3>1
    <3> QED BY <2>2, <3>2 DEF OnlyAsks, StreamsMove
  <2>3. CASE /\ IsOpen(f) /\ done' = done
             /\ stream' = [stream EXCEPT ![owner[f]].ends = "gone"]
    <3>1. stream' = [stream EXCEPT ![Client(d)].ends = "gone"]
      BY <1>4, <2>3
    <3>2. \A c \in Conn \ {d} : stream'[Client(c)] = stream[Client(c)]
      BY <1>1, <1>4, <1>5, <2>3, <3>1
    <3>3. /\ stream'[Client(d)].ends = "gone"
          /\ stream'[Client(d)].len = stream[Client(d)].len
          /\ stream'[Client(d)].newlines = stream[Client(d)].newlines
      BY <1>1, <1>4, <2>3, <3>1 DEF Stream
    <3> QED BY <2>3, <3>2, <3>3 DEF OnlyAsks, StreamsMove
  <2> QED BY <1>3, <2>1, <2>2, <2>3
<1>7. \A c \in Conn : Sent(c)'
  BY <1>6, SentKept DEF QInv
<1>8. ASSUME FindsError(t, f), d \in Conn PROVE ~Clean(stream'[Client(d)])
  <2>1. f # NoFd
    BY <1>2, <1>8, ProxyAssumption DEF Origin, Nobody, Conn
  <2>2. f \in Fd /\ owner[f] = Client(d) /\ Client(d) \in Sock
    BY <1>1, <1>2, <1>8, <2>1, OriginFacts, NamesDiffer
  <2>3. IsOpen(f)
    BY <1>8, <2>2, NamesDiffer DEF IsOpen
  <2>4. stream' = [stream EXCEPT ![Client(d)].ends = "gone"]
    BY <1>8, <2>2, <2>3 DEF FindsError
  <2>5. stream'[Client(d)].ends = "gone"
    BY <1>1, <2>2, <2>4 DEF Stream
  <2> QED BY <2>5 DEF Clean
<1> QED BY <1>2, <1>6, <1>7, <1>8

\* What is found comes next in the client's stream.
LEMMA FindsNext ==
  ASSUME IInv, NEW t \in Tid, NEW d \in Conn, d = Origin(t),
         ReadsOn(th[t], Client(d), stream[Client(d)], done[Client(d)]),
         NEW bytes \in MayFind(t, th[t].cfd), Finds(t, th[t].cfd, bytes)
  PROVE  LET l == Len(th[t].head) + Len(th[t].line)
         IN  /\ bytes \in Seq(SockByte) /\ bytes # <<>>
             /\ Follows(bytes, Client(d), l)
             /\ l + Len(bytes) = done'[Client(d)] /\ l + Len(bytes) <= stream[Client(d)].len
             /\ stream' = stream
<1> DEFINE f == th[t].cfd
           q == Client(d)
           l == Len(th[t].head) + Len(th[t].line)
<1>1. /\ Types /\ HandsInv /\ th[t].buf \in Seq(SockByte) /\ f \in Fd \cup {NoFd}
      /\ th[t].line \in Seq(SockByte) /\ th[t].head \in Seq(HeadByte)
      /\ done \in [Sock -> Nat] /\ q \in Sock /\ done[q] <= stream[q].len
      /\ stream[q].len \in Nat
  BY ThreadIs, NamesDiffer DEF IInv, Types, SocketsTyped, Stream
<1>2. owner[f] = q
  <2>1. f # NoFd
    BY ProxyAssumption DEF Origin, Nobody, Conn
  <2> QED BY <1>1, <2>1, OriginFacts
<1>3. /\ l \in Nat /\ Len(th[t].buf) \in Nat
      /\ l + Len(th[t].buf) = done[q] /\ Follows(th[t].buf, q, l)
  <2>1. Len(th[t].head) \in Nat /\ Len(th[t].line) \in Nat /\ Len(th[t].buf) \in Nat
    BY <1>1, LenProperties
  <2>2. l + Len(th[t].buf) = done[q] /\ Follows(th[t].buf, q, l)
    BY DEF ReadsOn
  <2>3. l \in Nat
    <3>1. PICK a, b : a = Len(th[t].head) /\ b = Len(th[t].line)
      OBVIOUS
    <3>2. a \in Nat /\ b \in Nat
      BY <2>1, <3>1
    <3>3. a + b \in Nat
      BY <3>2
    <3> QED BY <3>1, <3>3
  <2> HIDE DEF l, q
  <2> QED BY <2>1, <2>2, <2>3
<1> DEFINE Found == /\ bytes \in Seq(SockByte) /\ bytes # <<>>
                    /\ Follows(bytes, q, l)
                    /\ l + Len(bytes) = done'[q] /\ l + Len(bytes) <= stream[q].len
                    /\ stream' = stream
<1> HIDE DEF l
<1>4. ASSUME th[t].buf # <<>> PROVE Found
  <2>1. bytes = th[t].buf /\ UNCHANGED <<stream, done>>
    BY <1>4 DEF MayFind, Finds, sockets
  <2>2. Found
    BY <1>1, <1>3, <1>4, <2>1
  <2> QED BY <2>2
<1>5. ASSUME th[t].buf = <<>> PROVE Found
  <2>1. l = done[q]
    <3>1. Len(th[t].buf) = 0
      BY <1>5, Sizes
    <3> QED BY <1>3, <3>1
  <2>2. PICK k \in 1 .. Least(BufSize, stream[q].len - l) : bytes = BytesOf(q, l + 1, l + k)
    BY <1>2, <1>5, <2>1 DEF MayFind, Arrivals
  <2>3. k \in Nat /\ k > 0 /\ l + k <= stream[q].len
    <3>1. PICK m : m = stream[q].len - l
      OBVIOUS
    <3>2. m \in Int /\ Least(BufSize, m) <= m /\ Least(BufSize, m) \in Int
      BY <1>1, <1>3, <3>1, Sizes, LeastFacts
    <3>3. k \in 1 .. Least(BufSize, m)
      BY <2>2, <3>1
    <3>4. k \in Nat /\ k > 0 /\ k <= m
      BY <3>2, <3>3
    <3> QED BY <1>1, <1>3, <3>1, <3>4
  <2>4. /\ bytes \in Seq(SockByte) /\ Len(bytes) = k
        /\ \A i \in 1 .. k : bytes[i] = <<q, l + i>>
    <3> HIDE DEF l, q
    <3> QED BY <1>1, <1>3, <2>2, <2>3, PartFacts
  <2>5. bytes # <<>>
    BY <2>3, <2>4, Sizes
  <2>6. done' = [done EXCEPT ![q] = @ + k] /\ stream' = stream
    BY <1>2, <1>5, <2>4 DEF Finds
  <2>7. done'[q] = l + k
    BY <1>1, <2>1, <2>6
  <2>8. Found
    BY <2>3, <2>4, <2>5, <2>6, <2>7 DEF Follows
  <2> QED BY <2>8
<1>6. Found
  BY <1>4, <1>5
<1> QED BY <1>6 DEF l

\* A line that was not full and got k bytes more.
LEMMA LineReads ==
  ASSUME IInv, QInv, NEW t \in Tid, th[t].at \in {"request", "header"},
         NEW d \in Conn, d = Origin(t), Clean(stream[Client(d)]),
         NEW bytes \in MayFind(t, th[t].cfd), Finds(t, th[t].cfd, bytes),
         NEW k, k = Takes(t, bytes),
         NEW line, line = th[t].line \o SubSeq(bytes, 1, k),
         NEW rest, rest = SubSeq(bytes, k + 1, Len(bytes)),
         NEW h, h = Len(th[t].head)
  PROVE  /\ Passed(stream[Client(d)], Client(d), h, line, rest, done'[Client(d)])
         /\ h \in Nat /\ Len(line) \in Nat /\ line \in Seq(SockByte)
         /\ h + Len(line) <= stream[Client(d)].len /\ stream' = stream
         /\ Ends(t, line) <=> h + Len(line) \in stream[Client(d)].newlines
<1>1. PICK q, s, old, total : /\ q = Client(d) /\ s = stream[q] /\ old = th[t].line
                              /\ total = done'[q]
  OBVIOUS
<1>2. /\ Types /\ old \in Seq(SockByte) /\ h \in Nat /\ Len(old) \in Nat
      /\ q \in Sock /\ s \in Stream /\ s.len \in Nat
  <2>1. Types
    BY DEF IInv
  <2>2. q \in Sock
    BY <1>1, NamesDiffer
  <2>3. s \in Stream
    BY <1>1, <2>1, <2>2 DEF Types, SocketsTyped
  <2> QED BY <1>1, <2>1, <2>2, <2>3, ThreadIs, LenProperties DEF Stream
<1>3. ReadsOn(th[t], q, s, done[q]) /\ LinesFit(s)
  BY <1>1 DEF QInv, Collects, Clean
<1>4. Len(old) < MaxLine - 1
  BY <1>1, <1>2 DEF Types, Room
<1>5. /\ bytes \in Seq(SockByte) /\ bytes # <<>>
      /\ Follows(bytes, q, h + Len(old))
      /\ h + Len(old) + Len(bytes) = total
      /\ h + Len(old) + Len(bytes) <= s.len
      /\ stream' = stream
  BY <1>1, <1>3, FindsNext
<1>6. Follows(old, q, h) /\ NoNewline(s, h, h + Len(old))
  BY <1>1, <1>3 DEF ReadsOn
<1>7. k = LineTakes(s, bytes, old)
  <2>1. PICK n : n = Len(bytes)
    OBVIOUS
  <2>2. n \in 1 .. Len(bytes)
    BY <1>5, <2>1, LenProperties, EmptySeq
  <2>3. bytes[n] = <<q, h + Len(old) + n>>
    BY <1>5, <2>2 DEF Follows
  <2> QED BY <1>1, <2>1, <2>3 DEF Takes
<1>8. Passed(s, q, h, line, rest, total)
  BY <1>1, <1>2, <1>3, <1>4, <1>5, <1>6, <1>7, PassReads
<1>9. line \in Seq(SockByte) /\ rest \in Seq(SockByte)
  <2>1. k \in 0 .. Len(bytes)
    BY <1>2, <1>5, PassFacts
  <2> QED BY <1>1, <1>2, <1>5, <2>1, AppendFacts, SplitFacts
<1>10. Len(line) \in Nat /\ Len(rest) \in Nat
  BY <1>9, LenProperties
<1>11. Ends(t, line) <=> LineEnds(s, line)
  <2>1. PICK n : n = Len(line)
    OBVIOUS
  <2>2. n \in Nat /\ n > 0 /\ Follows(line, q, h)
    BY <1>8, <1>10, <2>1 DEF Passed
  <2>3. n \in 1 .. n
    BY <2>2
  <2>4. line[n] = <<q, h + n>>
    BY <2>1, <2>2, <2>3 DEF Follows
  <2>5. line[Len(line)][1] = q
    <3>1. PICK b, m : b = line[n] /\ m = h + n
      OBVIOUS
    <3>2. b = <<q, m>>
      BY <2>4, <3>1
    <3>3. b[1] = q
      BY ONLY <3>2
    <3>4. line[n][1] = q
      BY <3>1, <3>3
    <3> QED BY ONLY <2>1, <3>4
  <2>6. stream[line[Len(line)][1]] = s
    BY <1>1, <2>5
  <2>7. Ends(t, line) <=> LineEnds(stream[line[Len(line)][1]], line)
    BY DEF Ends
  <2> QED BY <2>6, <2>7
<1>12. h + Len(line) <= s.len
  <2>1. PICK n, r : n = Len(line) /\ r = Len(rest)
    OBVIOUS
  <2>2. n \in Nat /\ r \in Nat
    BY <1>10, <2>1
  <2>3. PICK b, l : b = Len(bytes) /\ l = Len(old)
    OBVIOUS
  <2>4. b \in Nat
    BY <1>5, <2>3, LenProperties
  <2>5. l \in Nat
    BY <1>2, <2>3
  <2>6. h + l + b = total /\ h + l + b <= s.len
    BY ONLY <1>5, <2>3
  <2>7. h + n + r = total
    BY ONLY <1>8, <2>1 DEF Passed
  <2>8. h \in Nat /\ s.len \in Nat
    BY <1>2
  <2> QED BY ONLY <2>1, <2>2, <2>4, <2>5, <2>6, <2>7, <2>8
<1>13. Ends(t, line) <=> h + Len(line) \in s.newlines
  BY ONLY <1>8, <1>11 DEF Passed
<1> QED BY ONLY <1>1, <1>2, <1>5, <1>8, <1>9, <1>10, <1>12, <1>13

\* The line goes on.
LEMMA LineGoesOn ==
  ASSUME NEW s, NEW q, NEW r, NEW n, ReadsOn(r, q, s, n), NEW h, h = Len(r.head), h \in Nat,
         NEW line, NEW rest, NEW total, Passed(s, q, h, line, rest, total),
         Len(line) \in Nat, h + Len(line) \notin s.newlines,
         NEW w, w.at = r.at, w.head = r.head, w.line = line, w.buf = rest
  PROVE  ReadsOn(w, q, s, total)
<1>1. PICK m : m = Len(line)
  OBVIOUS
<1>2. m \in Nat /\ NoNewline(s, h, h + m - 1) /\ h + m \notin s.newlines
  BY <1>1 DEF Passed
<1>3. NoNewline(s, h, h + m)
  <2> SUFFICES ASSUME NEW i \in h + 1 .. h + m PROVE i \notin s.newlines
    BY DEF NoNewline
  <2>1. i = h + m \/ i \in h + 1 .. h + m - 1
    BY <1>2
  <2> QED BY <1>2, <2>1 DEF NoNewline
<1> QED BY <1>1, <1>3 DEF ReadsOn, Passed

\* A line was added to the head.
LEMMA HeadGoesOn ==
  ASSUME NEW s, NEW q, NEW head, NEW h, h = Len(head), h \in Nat,
         NEW rest, NEW total, Follows(head, q, 0), Follows(rest, q, h), h + Len(rest) = total,
         NoBlank(s, h), h \in s.newlines \/ h = s.len,
         NEW w, w.at = "header", w.head = head, w.line = <<>>, w.buf = rest
  PROVE  ReadsOn(w, q, s, total)
<1>1. Len(<<>>) = 0 /\ h + 0 = h /\ Follows(<<>>, q, h)
  BY Sizes, FollowsNothing
<1>2. NoNewline(s, h, h)
  BY DEF NoNewline
<1> QED BY <1>1, <1>2 DEF ReadsOn

\* The next line is appended to the head: it is the blank one, or there is none yet.
LEMMA AppendReads ==
  ASSUME NEW q \in Sock, NEW s \in Stream, stream[q] = s,
         NEW head \in Seq(HeadByte), NEW h, h = Len(head), h > 0, Follows(head, q, 0),
         NoBlank(s, h), h \in s.newlines \/ h = s.len,
         NEW line \in Seq(SockByte), NEW n, n = Len(line), n > 0, Follows(line, q, h),
         NoNewline(s, h, h + n - 1), h + n <= s.len
  PROVE  /\ Len(head \o line) = h + n /\ Follows(head \o line, q, 0)
         /\ Blank(line) => HeadLen(s) = h + n /\ h + n \in s.newlines
         /\ ~Blank(line) => NoBlank(s, h + n)
<1>1. h \in Nat /\ n \in Nat /\ line \in Seq(HeadByte)
  BY LenProperties, SockBytesAreHeadBytes
<1>2. Len(head \o line) = h + n /\ Follows(head \o line, q, 0)
  <2>1. 0 \in Nat /\ 0 + Len(head) = h
    BY <1>1
  <2> QED BY <1>1, <2>1, FollowsJoin
<1>3. Blank(line) <=> n = 1 /\ h + n \in s.newlines
  <2>1. 1 \in 1 .. n
    BY <1>1
  <2>2. line[1] = <<q, h + 1>>
    BY <2>1 DEF Follows
  <2>3. EndsInNewline(s, line) <=> n # 0 /\ h + n \in s.newlines
    BY <1>1, EndsAt
  <2> QED BY <2>2, <2>3 DEF Blank
<1>4. IF n = 1 /\ h > 0 /\ h + n \in s.newlines THEN HeadLen(s) = h + n
      ELSE h > 0 => NoBlank(s, h + n)
  BY <1>1, NextLine
<1> QED BY <1>2, <1>3, <1>4

\* What Collects says of the connection of thread t.
Gathers(t, c) ==
  /\ th[t].at \in {"request", "header"} =>
       ReadsOn(th[t], Client(c), stream[Client(c)], done[Client(c)])
  /\ th[t].at \in {"socket", "connect", "send"} =>
       HasHead(th[t], Client(c), stream[Client(c)])

LEMMA ReadsClean ==
  ASSUME IInv, QInv, NEW t \in Tid, StreamsMove, th'[t].cfd = th[t].cfd, owner' = owner,
         \A c \in Conn : /\ c = Origin(t) /\ Clean(stream[Client(c)])
                         /\ stream'[Client(c)] = stream[Client(c)]
                         /\ Clean(stream'[Client(c)])
                         => Gathers(t, c)'
  PROVE  Collects(t)'
<1>1. Origin(t)' = Origin(t)
  BY DEF Origin
<1> SUFFICES ASSUME NEW c \in Conn, c = Origin(t), Clean(stream'[Client(c)]) PROVE Gathers(t, c)'
  BY <1>1 DEF Collects, Gathers
<1>2. stream'[Client(c)] = stream[Client(c)]
  BY DEF StreamsMove, Clean
<1> QED BY <1>2

LEMMA RequestLineCollects ==
  ASSUME IInv, QInv, NEW t \in Tid, RequestLine(t) PROVE Collects(t)'
<1>1. /\ Types /\ th \in [Tid -> Thread] /\ th[t] \in Thread /\ th[t].at = "request"
      /\ th[t].line \in Seq(SockByte) /\ th[t].head \in Seq(HeadByte)
      /\ stream \in [Sock -> Stream] /\ done \in [Sock -> Nat]
  BY ThreadIs DEF IInv, Types, SocketsTyped, RequestLine, At
<1>2. Talks(t) /\ th'[t].cfd = th[t].cfd /\ owner' = owner
  BY RequestLineTalks DEF Talks, Quiet
<1>3. /\ StreamsMove
      /\ \A c \in Conn : c = Origin(t) /\ FindsError(t, th[t].cfd) => ~Clean(stream'[Client(c)])
  <2>1. \/ \E bytes \in MayFind(t, th[t].cfd) : Finds(t, th[t].cfd, bytes)
        \/ FindsEnd(t, th[t].cfd) \/ FindsError(t, th[t].cfd)
    BY DEF RequestLine
  <2>2. UNCHANGED <<forwarded, unsent>>
    BY DEF RequestLine, peers
  <2> QED BY <2>1, <2>2, ReadsOwnRequest
<1> SUFFICES ASSUME NEW d \in Conn, d = Origin(t), Clean(stream[Client(d)]),
                    stream'[Client(d)] = stream[Client(d)], Clean(stream'[Client(d)])
             PROVE  Gathers(t, d)'
  BY <1>2, <1>3, ReadsClean
<1>4. PICK q, s, old, h : q = Client(d) /\ s = stream[q] /\ old = th[t].line /\ h = Len(th[t].head)
  OBVIOUS
<1>5. /\ q \in Sock /\ s \in Stream /\ s.len \in Nat /\ old \in Seq(SockByte) /\ h = 0
      /\ ReadsOn(th[t], q, s, done[q]) /\ Len(old) \in Nat /\ (old = <<>> <=> Len(old) = 0)
  <2>1. q \in Sock
    BY <1>4, NamesDiffer
  <2>2. ReadsOn(th[t], q, s, done[q])
    BY <1>1, <1>4 DEF QInv, Collects
  <2>3. h = 0
    BY <1>1, <1>4, <2>2 DEF ReadsOn
  <2> QED BY <1>1, <1>4, <2>1, <2>2, <2>3, LenProperties, EmptySeq DEF Stream
<1>6. CASE th'[t].at = "close"
  BY <1>6 DEF Gathers
\* The line is parsed as a GET request.
<1>7. ASSUME NEW line \in Seq(SockByte), NEW rest, NEW n, n = Len(line), n \in Nat, n > 0,
             Parsed(t, line, rest), Follows(line, q, 0), Follows(rest, q, n),
             n + Len(rest) = done'[q], NoNewline(s, 0, n - 1), n \in s.newlines \/ n = s.len
      PROVE  Gathers(t, d)'
  <2>1. CASE ErrorPage(t)
    <3>1. th'[t].at = "close"
      BY <1>1, <2>1, ReturnedFacts DEF ErrorPage
    <3> QED BY <1>6, <3>1
  <2>2. CASE th' = [th EXCEPT ![t].at = "header", ![t].head = line,
                              ![t].line = <<>>, ![t].buf = rest]
    <3>1. /\ th'[t].at = "header" /\ th'[t].head = line
          /\ th'[t].line = <<>> /\ th'[t].buf = rest
      BY <1>1, <2>2 DEF Thread
    <3>2. NoBlank(s, n)
      BY <1>5, <1>7, FirstLine
    <3>3. PICK w : w = th'[t]
      OBVIOUS
    <3>4. PICK total : total = done'[q]
      OBVIOUS
    <3>5. ReadsOn(w, q, s, total)
      BY <1>7, <3>1, <3>2, <3>3, <3>4, HeadGoesOn
    <3> QED BY <1>4, <3>1, <3>3, <3>4, <3>5 DEF Gathers
  <2> QED BY <1>7, <2>1, <2>2 DEF Parsed
<1>8. ASSUME NEW bytes \in MayFind(t, th[t].cfd), Finds(t, th[t].cfd, bytes),
             LET k    == Takes(t, bytes)
                 line == th[t].line \o SubSeq(bytes, 1, k)
                 rest == SubSeq(bytes, k + 1, Len(bytes))
             IN  IF Ends(t, line) THEN Parsed(t, line, rest)
                 ELSE th' = [th EXCEPT ![t].line = line, ![t].buf = rest]
      PROVE  Gathers(t, d)'
  <2>1. PICK k, line, rest : /\ k = Takes(t, bytes)
                             /\ line = th[t].line \o SubSeq(bytes, 1, k)
                             /\ rest = SubSeq(bytes, k + 1, Len(bytes))
    OBVIOUS
  <2>2. IF Ends(t, line) THEN Parsed(t, line, rest)
        ELSE th' = [th EXCEPT ![t].line = line, ![t].buf = rest]
    BY <1>8, <2>1
  <2>3. PICK total : total = done'[q]
    OBVIOUS
  <2>4. /\ Passed(s, q, h, line, rest, total)
        /\ h \in Nat /\ Len(line) \in Nat /\ line \in Seq(SockByte)
        /\ h + Len(line) <= s.len
        /\ Ends(t, line) <=> h + Len(line) \in s.newlines
    BY <1>1, <1>4, <1>8, <2>1, <2>3, LineReads
  <2>5. CASE Ends(t, line)
    <3>1. PICK n : n = Len(line)
      OBVIOUS
    <3>2. /\ n \in Nat /\ n > 0 /\ Follows(line, q, 0) /\ Follows(rest, q, n)
          /\ n + Len(rest) = total /\ NoNewline(s, 0, n - 1) /\ n \in s.newlines
      <4>1. 0 + n = n /\ n \in Nat
        BY <2>4, <3>1
      <4> QED BY <1>5, <2>4, <2>5, <3>1, <4>1 DEF Passed
    <3> QED BY <1>7, <2>2, <2>3, <2>4, <2>5, <3>1, <3>2
  <2>6. CASE ~Ends(t, line)
    <3>1. /\ th'[t].at = th[t].at /\ th'[t].head = th[t].head
          /\ th'[t].line = line /\ th'[t].buf = rest
      BY <1>1, <2>2, <2>6 DEF Thread
    <3>2. PICK r, w, n : r = th[t] /\ w = th'[t] /\ n = done[q]
      OBVIOUS
    <3>3. ReadsOn(r, q, s, n) /\ h = Len(r.head) /\ h \in Nat
      BY <1>4, <1>5, <2>4, <3>2
    <3>4. w.at = r.at /\ w.head = r.head /\ w.line = line /\ w.buf = rest
      BY <3>1, <3>2
    <3>5. h + Len(line) \notin s.newlines
      BY <2>4, <2>6
    <3>6. ReadsOn(w, q, s, total)
      BY <2>4, <3>3, <3>4, <3>5, LineGoesOn
    <3> QED BY <1>1, <1>4, <2>3, <3>1, <3>2, <3>6 DEF Gathers
  <2> QED BY <2>5, <2>6
<1>9. ASSUME FindsEnd(t, th[t].cfd),
             IF th[t].line = <<>> THEN ErrorPage(t) ELSE Parsed(t, th[t].line, <<>>)
      PROVE  Gathers(t, d)'
  <2>1. CASE th[t].line = <<>>
    <3>1. th'[t].at = "close"
      BY <1>1, <1>9, <2>1, ReturnedFacts DEF ErrorPage
    <3> QED BY <1>6, <3>1
  <2>2. CASE th[t].line # <<>>
    <3>1. PICK n : n = Len(old)
      OBVIOUS
    <3>2. n \in Nat /\ n > 0 /\ Follows(old, q, 0) /\ NoNewline(s, 0, n)
      <4>1. n \in Nat /\ n > 0 /\ 0 + n = n
        BY <1>4, <1>5, <2>2, <3>1
      <4> QED BY <1>4, <1>5, <3>1, <4>1 DEF ReadsOn
    <3>3. owner[th[t].cfd] = q
      <4>1. th[t].cfd # NoFd
        BY ProxyAssumption DEF Origin, Nobody, Conn
      <4> QED BY <1>4, <4>1, ThreadIs, OriginFacts DEF IInv
    <3>4. th[t].buf = <<>> /\ done[q] = s.len /\ done' = done
      BY <1>4, <1>9, <3>3 DEF FindsEnd, EndOfStream, sockets
    <3>5. n = s.len /\ n + Len(<<>>) = done'[q] /\ Follows(<<>>, q, n)
      <4>1. h + Len(old) + Len(<<>>) = s.len
        BY <1>4, <1>5, <3>4 DEF ReadsOn
      <4>2. n = s.len
        BY <1>5, <3>1, <3>2, <4>1, Sizes
      <4> QED BY <3>2, <3>4, <4>2, Sizes, FollowsNothing
    <3>6. NoNewline(s, 0, n - 1)
      <4>1. \A i \in 0 + 1 .. n - 1 : i \in 0 + 1 .. n
        BY <3>2
      <4> QED BY <3>2, <4>1 DEF NoNewline
    <3> QED BY <1>4, <1>5, <1>7, <1>9, <2>2, <3>1, <3>2, <3>5, <3>6
  <2> QED BY <2>1, <2>2
<1>10. ~FindsError(t, th[t].cfd)
  BY <1>3
<1> QED BY <1>8, <1>9, <1>10 DEF RequestLine

LEMMA HeaderLineCollects ==
  ASSUME IInv, QInv, NEW t \in Tid, HeaderLine(t) PROVE Collects(t)'
<1>1. /\ Types /\ th \in [Tid -> Thread] /\ th[t] \in Thread /\ th[t].at = "header"
      /\ th[t].line \in Seq(SockByte) /\ th[t].head \in Seq(HeadByte) /\ th[t].head # <<>>
      /\ stream \in [Sock -> Stream] /\ done \in [Sock -> Nat]
  BY ThreadIs DEF IInv, Types, SocketsTyped, HeadsReal, HeaderLine, At
<1>2. Talks(t) /\ th'[t].cfd = th[t].cfd /\ owner' = owner
  BY HeaderLineTalks DEF Talks, Quiet
<1>3. /\ StreamsMove
      /\ \A c \in Conn : c = Origin(t) /\ FindsError(t, th[t].cfd) => ~Clean(stream'[Client(c)])
  <2>1. \/ \E bytes \in MayFind(t, th[t].cfd) : Finds(t, th[t].cfd, bytes)
        \/ FindsEnd(t, th[t].cfd) \/ FindsError(t, th[t].cfd)
    BY DEF HeaderLine
  <2>2. UNCHANGED <<forwarded, unsent>>
    BY DEF HeaderLine, peers
  <2> QED BY <2>1, <2>2, ReadsOwnRequest
<1> SUFFICES ASSUME NEW d \in Conn, d = Origin(t), Clean(stream[Client(d)]),
                    stream'[Client(d)] = stream[Client(d)], Clean(stream'[Client(d)])
             PROVE  Gathers(t, d)'
  BY <1>2, <1>3, ReadsClean
<1>4. PICK q, s, old, head, h : /\ q = Client(d) /\ s = stream[q] /\ old = th[t].line
                                /\ head = th[t].head /\ h = Len(head)
  OBVIOUS
<1>5. /\ q \in Sock /\ s \in Stream /\ s.len \in Nat /\ s.newlines \subseteq 1 .. s.len
      /\ old \in Seq(SockByte) /\ Len(old) \in Nat /\ (old = <<>> <=> Len(old) = 0)
      /\ head \in Seq(HeadByte) /\ h \in Nat /\ h > 0
  <2>1. q \in Sock
    BY <1>4, NamesDiffer
  <2>2. h \in Nat /\ h > 0
    BY <1>1, <1>4, LenProperties, EmptySeq
  <2>3. s \in Stream /\ s.newlines \subseteq 1 .. s.len
    BY <1>1, <1>4, <2>1 DEF QInv, NewlinesReal
  <2> QED BY <1>1, <1>4, <2>1, <2>2, <2>3, LenProperties, EmptySeq DEF Stream
<1>6. /\ ReadsOn(th[t], q, s, done[q])
      /\ Follows(head, q, 0) /\ NoBlank(s, h) /\ (h \in s.newlines \/ h = s.len)
  <2>1. ReadsOn(th[t], q, s, done[q])
    BY <1>1, <1>4 DEF QInv, Collects
  <2> QED BY <1>1, <1>4, <2>1 DEF ReadsOn
\* The head is complete.
<1>7. ASSUME NEW longer, NEW rest, Resolve(t, longer, rest),
             Follows(longer, q, 0), Len(longer) = HeadLen(s)
      PROVE  Gathers(t, d)'
  <2>1. th'[t].at = "socket" /\ th'[t].head = longer
    BY <1>1, <1>7 DEF Resolve, Thread
  <2> QED BY <1>4, <1>7, <2>1 DEF Gathers, HasHead
\* A line is appended.
<1>8. ASSUME NEW line \in Seq(SockByte), NEW rest, NEW n, n = Len(line), n \in Nat, n > 0,
             AppendLine(t, line, rest), Follows(line, q, h), Follows(rest, q, h + n),
             h + n + Len(rest) = done'[q], NoNewline(s, h, h + n - 1), h + n <= s.len,
             h + n \in s.newlines \/ h + n = s.len
      PROVE  Gathers(t, d)'
  <2>1. PICK longer, m : longer = head \o line /\ m = h + n
    OBVIOUS
  <2>2. /\ Len(longer) = m /\ Follows(longer, q, 0)
        /\ Blank(line) => HeadLen(s) = m
        /\ ~Blank(line) => NoBlank(s, m)
    <3>1. /\ q \in Sock /\ s \in Stream /\ stream[q] = s
          /\ head \in Seq(HeadByte) /\ h = Len(head) /\ h > 0 /\ Follows(head, q, 0)
          /\ NoBlank(s, h) /\ (h \in s.newlines \/ h = s.len)
          /\ line \in Seq(SockByte) /\ n = Len(line) /\ n > 0 /\ Follows(line, q, h)
          /\ NoNewline(s, h, h + n - 1) /\ h + n <= s.len
      BY <1>4, <1>5, <1>6, <1>8
    <3>2. /\ Len(head \o line) = h + n /\ Follows(head \o line, q, 0)
          /\ Blank(line) => HeadLen(s) = h + n /\ h + n \in s.newlines
          /\ ~Blank(line) => NoBlank(s, h + n)
      BY ONLY <3>1, AppendReads
    <3> QED BY <2>1, <3>2
  <2>3. IF Blank(line) THEN Resolve(t, longer, rest)
        ELSE th' = [th EXCEPT ![t].head = longer, ![t].line = <<>>, ![t].buf = rest]
    BY <1>4, <1>8, <2>1 DEF AppendLine
  <2>4. CASE Blank(line)
    BY <1>7, <2>2, <2>3, <2>4
  <2>5. CASE ~Blank(line)
    <3>1. /\ th'[t].at = "header" /\ th'[t].head = longer
          /\ th'[t].line = <<>> /\ th'[t].buf = rest
      BY <1>1, <2>3, <2>5 DEF Thread
    <3>2. PICK w, total : w = th'[t] /\ total = done'[q]
      OBVIOUS
    <3>3. m \in Nat
      BY <1>5, <1>8, <2>1
    <3>4. ReadsOn(w, q, s, total)
      BY <1>8, <2>1, <2>2, <2>5, <3>1, <3>2, <3>3, HeadGoesOn
    <3> QED BY <1>4, <3>1, <3>2, <3>4 DEF Gathers
  <2> QED BY <2>4, <2>5
<1>9. ASSUME NEW bytes \in MayFind(t, th[t].cfd), Finds(t, th[t].cfd, bytes),
             LET k    == Takes(t, bytes)
                 line == th[t].line \o SubSeq(bytes, 1, k)
                 rest == SubSeq(bytes, k + 1, Len(bytes))
             IN  IF Ends(t, line) THEN AppendLine(t, line, rest)
                 ELSE th' = [th EXCEPT ![t].line = line, ![t].buf = rest]
      PROVE  Gathers(t, d)'
  <2>1. PICK k, line, rest : /\ k = Takes(t, bytes)
                             /\ line = th[t].line \o SubSeq(bytes, 1, k)
                             /\ rest = SubSeq(bytes, k + 1, Len(bytes))
    OBVIOUS
  <2>2. IF Ends(t, line) THEN AppendLine(t, line, rest)
        ELSE th' = [th EXCEPT ![t].line = line, ![t].buf = rest]
    BY <1>9, <2>1
  <2>3. PICK total : total = done'[q]
    OBVIOUS
  <2>4. /\ Passed(s, q, h, line, rest, total)
        /\ h \in Nat /\ Len(line) \in Nat /\ line \in Seq(SockByte)
        /\ h + Len(line) <= s.len
        /\ Ends(t, line) <=> h + Len(line) \in s.newlines
    BY <1>1, <1>4, <1>9, <2>1, <2>3, LineReads
  <2>5. CASE Ends(t, line)
    <3>1. PICK n : n = Len(line)
      OBVIOUS
    <3>2. /\ n \in Nat /\ n > 0 /\ Follows(line, q, h) /\ Follows(rest, q, h + n)
          /\ h + n + Len(rest) = total /\ NoNewline(s, h, h + n - 1)
          /\ h + n \in s.newlines /\ h + n <= s.len
      BY <2>4, <2>5, <3>1 DEF Passed
    <3> QED BY <1>8, <2>2, <2>3, <2>4, <2>5, <3>1, <3>2
  <2>6. CASE ~Ends(t, line)
    <3>1. /\ th'[t].at = th[t].at /\ th'[t].head = th[t].head
          /\ th'[t].line = line /\ th'[t].buf = rest
      BY <1>1, <2>2, <2>6 DEF Thread
    <3>2. PICK r, w, n : r = th[t] /\ w = th'[t] /\ n = done[q]
      OBVIOUS
    <3>3. ReadsOn(r, q, s, n) /\ h = Len(r.head) /\ h \in Nat
      BY <1>4, <1>6, <2>4, <3>2
    <3>4. w.at = r.at /\ w.head = r.head /\ w.line = line /\ w.buf = rest
      BY <3>1, <3>2
    <3>5. h + Len(line) \notin s.newlines
      BY <2>4, <2>6
    <3>6. ReadsOn(w, q, s, total)
      BY <2>4, <3>3, <3>4, <3>5, LineGoesOn
    <3> QED BY <1>1, <1>4, <2>3, <3>1, <3>2, <3>6 DEF Gathers
  <2> QED BY <2>5, <2>6
<1>10. ASSUME FindsEnd(t, th[t].cfd),
              IF th[t].line = <<>> THEN Resolve(t, th[t].head, <<>>)
              ELSE AppendLine(t, th[t].line, <<>>)
       PROVE  Gathers(t, d)'
  <2>1. owner[th[t].cfd] = q
    <3>1. th[t].cfd # NoFd
      BY ProxyAssumption DEF Origin, Nobody, Conn
    <3> QED BY <1>4, <3>1, ThreadIs, OriginFacts DEF IInv
  <2>2. th[t].buf = <<>> /\ done[q] = s.len /\ done' = done
    BY <1>4, <1>10, <2>1 DEF FindsEnd, EndOfStream, sockets
  <2>3. PICK n : n = Len(old)
    OBVIOUS
  <2>4. n \in Nat /\ h + n = s.len /\ Follows(old, q, h) /\ NoNewline(s, h, h + n)
    <3>1. h + Len(old) + Len(<<>>) = s.len /\ Follows(old, q, h) /\ NoNewline(s, h, h + Len(old))
      BY <1>4, <1>6, <2>2 DEF ReadsOn
    <3>2. n \in Nat
      BY <1>5, <2>3
    <3>3. h + n + Len(<<>>) = s.len
      BY <2>3, <3>1
    <3>4. h + n = s.len
      BY <1>5, <3>2, <3>3, Sizes
    <3> QED BY <2>3, <3>1, <3>2, <3>4
  <2>5. CASE th[t].line = <<>>
    <3>1. n = 0 /\ h = s.len
      BY <1>4, <1>5, <2>3, <2>4, <2>5
    <3>2. HeadLen(s) = s.len
      BY <1>5, <1>6, <3>1, HeadIsAll
    <3> QED BY <1>4, <1>6, <1>7, <1>10, <2>5, <3>1, <3>2
  <2>6. CASE th[t].line # <<>>
    <3>1. n > 0
      BY <1>4, <1>5, <2>3, <2>4, <2>6
    <3>2. NoNewline(s, h, h + n - 1)
      <4>1. \A i \in h + 1 .. h + n - 1 : i \in h + 1 .. h + n
        BY <1>5, <2>4
      <4> QED BY <2>4, <4>1 DEF NoNewline
    <3>3. h + n <= s.len /\ h + n + Len(<<>>) = done'[q] /\ Follows(<<>>, q, h + n)
      BY <1>5, <2>2, <2>4, Sizes, FollowsNothing
    <3> QED BY <1>4, <1>5, <1>8, <1>10, <2>3, <2>4, <2>6, <3>1, <3>2, <3>3
  <2> QED BY <2>5, <2>6
<1>11. ~FindsError(t, th[t].cfd)
  BY <1>3
<1> QED BY <1>9, <1>10, <1>11 DEF HeaderLine

LEMMA RequestKeepsAsking ==
  ASSUME IInv, IInv', QInv, NEW t \in Tid, OwnersMove, CellsMove,
         RequestLine(t) \/ HeaderLine(t)
  PROVE  QInv'
<1>1. Talks(t) /\ Reads(t, {"request", "header", "socket", "close"})
  BY RequestLineTalks, HeaderLineTalks DEF Reads
<1>2. /\ OnlyAsks(Origin(t)) /\ StreamsMove
      /\ \A c \in Conn : Sent(c)'
  <2>1. UNCHANGED <<forwarded, unsent>>
    BY DEF RequestLine, HeaderLine, peers
  <2>2. \/ \E bytes \in MayFind(t, th[t].cfd) : Finds(t, th[t].cfd, bytes)
        \/ FindsEnd(t, th[t].cfd) \/ FindsError(t, th[t].cfd)
    BY DEF RequestLine, HeaderLine
  <2> QED BY <2>1, <2>2, ReadsOwnRequest
<1>3. Starts(t)'
  BY <1>1 DEF Starts, Reads, At
<1>4. Collects(t)'
  BY RequestLineCollects, HeaderLineCollects
<1>5. AsksAlone(t)
  BY <1>1, <1>2 DEF AsksAlone, Talks, Quiet, Moves
<1> QED BY <1>3, <1>4, <1>5, AsksAloneKeeps

-----------------------------------------------------------------------------
(***************************************************************************)
(* Steps that read no request and send none.                               *)
(***************************************************************************)
Silent ==
  /\ UNCHANGED <<forwarded, unsent>>
  /\ \A c \in Conn : /\ done'[Client(c)] = done[Client(c)]
                     /\ stream'[Client(c)] = stream[Client(c)]

LEMMA SilentFacts ==
  ASSUME QInv, Silent
  PROVE  /\ \A d : OnlyAsks(d)
         /\ StreamsMove /\ NewlinesReal'
         /\ \A c \in Conn : Sent(c)' /\ (Unread(c) => Unread(c)')
<1>1. StreamsMove /\ \A d : OnlyAsks(d)
  BY DEF Silent, StreamsMove, OnlyAsks
<1>2. \A c \in Conn : Sent(c)'
  BY <1>1, SentKept DEF Silent, QInv
<1>3. NewlinesReal'
  BY <1>1, NewlinesKept DEF QInv
<1> QED BY <1>1, <1>2, <1>3 DEF Silent, Unread

\* The other threads, and main, have what they had.
LEMMA SilentAlone ==
  ASSUME QInv, Silent, NEW t \in Tid, \A u \in Tid \ {t} : th'[u] = th[u],
         UNCHANGED <<waiting, main>>
  PROVE  AsksAlone(t)
BY SilentFacts DEF AsksAlone

\* A thread that is past its request.
LEMMA PastRequest ==
  ASSUME NEW t \in Tid, th'[t].at \in {"relay", "write", "close", "none"}
  PROVE  Starts(t)' /\ Collects(t)'
BY DEF Starts, Collects, At

LEMMA OpenKeepsAsking ==
  ASSUME IInv, IInv', QInv, NEW t \in Tid, OwnersMove, CellsMove,
         Socket(t) \/ Connect(t)
  PROVE  QInv'
<1>1. /\ Types /\ HandsInv /\ HandsInv' /\ th \in [Tid -> Thread] /\ th[t] \in Thread
      /\ th[t].at \in {"socket", "connect"} /\ th[t].cfd \in Fd \cup {NoFd}
      /\ UNCHANGED <<waiting, stream, done, main, forwarded, unsent>>
  BY ThreadIs DEF IInv, Socket, Connect, At, peers
<1>2. /\ th'[t].at \in {"socket", "connect", "send"}
      /\ th'[t].head = th[t].head /\ th'[t].cfd = th[t].cfd
      /\ \A u \in Tid \ {t} : th'[u] = th[u]
  BY <1>1 DEF Socket, Connect, Go, Thread
<1>3. Silent
  BY <1>1 DEF Silent
<1>4. HandOf(t)' = HandOf(t) /\ HandOf(t) = th[t].cfd
  BY <1>1, <1>2 DEF HandOf, At
<1>5. ASSUME th[t].cfd \in Fd PROVE owner'[th[t].cfd] = owner[th[t].cfd]
  <2>1. IsClient(owner[HandOf(t)]) /\ IsClient(owner'[HandOf(t)])
    BY <1>1, <1>4, <1>5 DEF HandsInv, Held, IsClient
  <2> QED BY <1>4, <1>5, <2>1, NamesDiffer DEF OwnersMove
<1>6. Origin(t)' = Origin(t)
  BY <1>1, <1>2, <1>5 DEF Origin
<1>7. Starts(t)'
  BY <1>2 DEF Starts, At
<1>8. Collects(t)'
  <2> SUFFICES ASSUME NEW c \in Conn, Origin(t) = c, Clean(stream[Client(c)])
               PROVE  HasHead(th'[t], Client(c), stream[Client(c)])
    BY <1>1, <1>2, <1>6 DEF Collects
  <2>1. HasHead(th[t], Client(c), stream[Client(c)])
    BY <1>1 DEF QInv, Collects
  <2> QED BY <1>2, <2>1 DEF HasHead
<1>9. AsksAlone(t)
  BY <1>1, <1>2, <1>3, SilentAlone
<1> QED BY <1>7, <1>8, <1>9, AsksAloneKeeps

\* The head is sent, as much of it as request[] holds.
LEMMA SendKeepsAsking ==
  ASSUME IInv, IInv', QInv, NEW t \in Tid, OwnersMove, CellsMove, Send(t)
  PROVE  QInv'
<1>1. /\ Types /\ HandsInv /\ th \in [Tid -> Thread] /\ th[t] \in Thread
      /\ th[t].at = "send" /\ th[t].head \in Seq(HeadByte)
      /\ forwarded \in [Party -> Seq(HeadByte)] /\ stream \in [Sock -> Stream]
      /\ UNCHANGED <<waiting, stream, done, main>>
  BY ThreadIs DEF IInv, Types, SocketsTyped, PeersTyped, Send, At
<1>2. \A u \in Tid \ {t} : th'[u] = th[u]
  BY <1>1 DEF Send, Returned
<1>3. PICK p : p = Origin(t)
  OBVIOUS
<1>4. p \in Party
  BY <1>1, <1>3, OriginFacts
<1>5. CASE th' = Returned(t) /\ UNCHANGED <<forwarded, unsent>>
  <2>1. th'[t].at = "close"
    BY <1>1, <1>5, ReturnedFacts
  <2>2. AsksAlone(t)
    <3>1. Silent
      BY <1>1, <1>5 DEF Silent
    <3> QED BY <1>1, <1>2, <3>1, SilentAlone
  <2> QED BY <2>1, <2>2, PastRequest, AsksAloneKeeps
<1>6. ASSUME NEW k \in 1 .. Len(Request(th[t].head)),
             forwarded' = [forwarded EXCEPT ![Origin(t)] = SubSeq(Request(th[t].head), 1, k)],
             unsent' = [unsent EXCEPT ![Origin(t)] = Len(Request(th[t].head)) - k],
             th' = [th EXCEPT ![t].at = "relay", ![t].left = 0,
                              ![t].buf = <<>>, ![t].head = <<>>]
      PROVE  QInv'
  <2>1. th'[t].at = "relay"
    BY <1>1, <1>6 DEF Thread
  <2>2. PICK x, m : /\ x = SubSeq(Request(th[t].head), 1, k)
                    /\ m = Len(Request(th[t].head)) - k
    OBVIOUS
  <2>3. forwarded' = [forwarded EXCEPT ![p] = x] /\ unsent' = [unsent EXCEPT ![p] = m]
    BY <1>3, <1>6, <2>2
  <2>4. OnlyAsks(p) /\ StreamsMove
    BY <1>1, <2>3 DEF OnlyAsks, StreamsMove, Party
  <2>5. ASSUME NEW c \in Conn, c = p PROVE Sent(c)'
    <3> SUFFICES ASSUME Clean(stream[Client(c)])
                 PROVE  x = SubSeq(RequestOf(c), 1, Len(RequestOf(c)) - m)
      <4>1. RequestOf(c)' = RequestOf(c)
        BY <1>1 DEF RequestOf
      <4>2. forwarded'[c] = x /\ unsent'[c] = m /\ stream' = stream
        BY <1>1, <1>4, <2>3, <2>5 DEF Types, PeersTyped
      <4> QED BY <4>1, <4>2 DEF Sent
    <3>1. HasHead(th[t], Client(c), stream[Client(c)])
      BY <1>1, <1>3, <2>5 DEF QInv, Collects
    <3>2. PICK s : s = th[t].head
      OBVIOUS
    <3>3. Follows(s, Client(c), 0) /\ Len(s) = HeadLen(stream[Client(c)])
      BY <3>1, <3>2 DEF HasHead
    <3>4. s = BytesOf(Client(c), 1, Len(s))
      <4>1. s \in Seq(HeadByte) /\ Len(s) \in 0 .. Len(s) /\ Client(c) \in Sock
        BY <1>1, <3>2, LenProperties, NamesDiffer
      <4>2. SubSeq(s, 1, Len(s)) = s
        BY <4>1, SubSeqFull
      <4> QED BY <3>3, <4>1, <4>2, FollowsIsBytes
    <3>5. RequestOf(c) = Request(s)
      BY <3>3, <3>4 DEF RequestOf
    <3>6. Len(Request(s)) - m = k
      <4>1. Len(Request(s)) \in 1 .. RequestSize /\ RequestSize \in Nat
        BY <1>1, <3>2, RequestFacts, ProxyAssumption
      <4> QED BY <1>6, <2>2, <3>2, <4>1
    <3> QED BY <2>2, <3>2, <3>5, <3>6
  <2>6. AsksAlone(t)
    BY <1>1, <1>2, <1>3, <2>4, <2>5 DEF AsksAlone
  <2> QED BY <2>1, <2>6, PastRequest, AsksAloneKeeps
<1> QED BY <1>5, <1>6 DEF Send

\* A thread that relays reads the stream of its server.
LEMMA ReplyKeepsAsking ==
  ASSUME IInv, IInv', QInv, NEW t \in Tid, OwnersMove, CellsMove, Relay(t) \/ Write(t)
  PROVE  QInv'
<1>1. /\ Types /\ HandsInv /\ ServersOK /\ th \in [Tid -> Thread] /\ th[t] \in Thread
      /\ th[t].at \in {"relay", "write"} /\ th[t].sfd \in Fd \cup {NoFd}
      /\ done \in [Sock -> Nat] /\ stream \in [Sock -> Stream]
      /\ UNCHANGED <<waiting, main, forwarded, unsent>>
  BY ThreadIs DEF IInv, Types, SocketsTyped, Relay, Write, At, peers
<1>2. \A u \in Tid \ {t} : th'[u] = th[u]
  BY RelayTalks, WriteTalks DEF Talks, Quiet, Moves
<1>3. th'[t].at \in {"relay", "write", "close"}
  <2>1. CASE th' = Returned(t)
    BY <1>1, <2>1, ReturnedFacts
  <2>2. CASE Go(t, "write")
    BY <1>1, <2>2 DEF Go, Thread
  <2>3. CASE th' = [th EXCEPT ![t].at = "relay", ![t].line = <<>>]
    BY <1>1, <2>3 DEF Thread
  <2>4. ASSUME NEW chunk, NEW rest,
               th' = [th EXCEPT ![t].line = chunk, ![t].buf = rest,
                                ![t].at = IF ChunkIsFull(chunk) THEN "write" ELSE @]
        PROVE  th'[t].at \in {"relay", "write", "close"}
    BY <1>1, <2>4 DEF Thread
  <2> QED BY <2>1, <2>2, <2>3, <2>4 DEF Relay, Write
<1>4. Silent
  <2>1. CASE Write(t)
    BY <1>1, <2>1 DEF Write, Silent, sockets
  <2>2. CASE Relay(t)
    <3>1. PICK f, p : f = th[t].sfd /\ p = Origin(t)
      OBVIOUS
    <3>2. p \in Party /\ (IsOpen(f) => owner[f] = Server(p))
      BY <1>1, <3>1, OriginFacts, NoFdIsNone DEF IsOpen, ServersOK
    <3>3. \/ UNCHANGED <<done, stream>>
          \/ /\ IsOpen(f) /\ stream' = stream
             /\ \E n : done' = [done EXCEPT ![owner[f]] = n]
          \/ /\ IsOpen(f) /\ done' = done
             /\ stream' = [stream EXCEPT ![owner[f]].ends = "gone"]
      BY <2>2, <3>1 DEF Relay, MayFind, Finds, FindsEnd, FindsError, sockets
    <3>4. /\ \/ done' = done
             \/ \E n : done' = [done EXCEPT ![Server(p)] = n]
          /\ \/ stream' = stream
             \/ stream' = [stream EXCEPT ![Server(p)].ends = "gone"]
      BY <3>2, <3>3
    <3>5. \A c \in Conn : Client(c) \in Sock /\ Client(c) # Server(p)
      BY <3>2, NamesDiffer
    <3>6. \A c \in Conn : done'[Client(c)] = done[Client(c)]
      BY <1>1, <3>4, <3>5
    <3>7. \A c \in Conn : stream'[Client(c)] = stream[Client(c)]
      BY <1>1, <3>4, <3>5
    <3> QED BY <1>1, <3>6, <3>7 DEF Silent
  <2> QED BY <2>1, <2>2
<1>5. AsksAlone(t)
  BY <1>1, <1>2, <1>4, SilentAlone
<1> QED BY <1>3, <1>5, PastRequest, AsksAloneKeeps

\* The thread begins with nothing read.
LEMMA StartKeepsAsking ==
  ASSUME IInv, IInv', QInv, NEW t \in Tid, OwnersMove, CellsMove, Start(t)
  PROVE  QInv'
<1>1. /\ Types /\ HandsInv' /\ th \in [Tid -> Thread] /\ th[t] \in Thread /\ th[t].at = "start"
      /\ UNCHANGED <<waiting, stream, done, owner, main, forwarded, unsent>>
  BY ThreadIs DEF IInv, Start, At, sockets, peers
<1>2. /\ th'[t].at = "request" /\ th'[t].cfd = HandOf(t)
      /\ th'[t].head = th[t].head /\ th'[t].line = th[t].line /\ th'[t].buf = th[t].buf
      /\ \A u \in Tid \ {t} : th'[u] = th[u]
  BY <1>1 DEF Start, Thread, HandOf, At
<1>3. /\ th'[t].head = <<>> /\ th'[t].line = <<>> /\ th'[t].buf = <<>>
      /\ HandOf(t) \in Fd => \A c \in Conn : owner[HandOf(t)] = Client(c) => Unread(c)
  BY <1>1, <1>2 DEF QInv, Starts, At
<1>4. Silent
  BY <1>1 DEF Silent
<1>5. Starts(t)'
  BY <1>2 DEF Starts, At
<1>6. Collects(t)'
  <2> SUFFICES ASSUME NEW c \in Conn, Origin(t)' = c
               PROVE  ReadsOn(th'[t], Client(c), stream[Client(c)], done[Client(c)])
    BY <1>1, <1>2 DEF Collects
  <2>1. th'[t].cfd \in Fd /\ owner[th'[t].cfd] = Client(c)
    <3>1. th'[t].cfd # NoFd
      BY ProxyAssumption DEF Origin, Nobody, Conn
    <3>2. th'[t].cfd \in Fd \cup {NoFd}
      BY <1>1, <1>2, HandTyped DEF IInv
    <3>3. IsClient(owner'[th'[t].cfd])
      BY <1>1, <1>2, <3>1, <3>2 DEF HandsInv, Held, HandOf, At
    <3>4. PICK b \in Conn : owner[th'[t].cfd] = Client(b)
      BY <1>1, <3>3 DEF IsClient
    <3>5. b = c
      BY <1>1, <3>1, <3>4 DEF Origin, Client
    <3> QED BY <3>1, <3>2, <3>4, <3>5
  <2>2. done[Client(c)] = 0
    BY <1>2, <1>3, <2>1 DEF Unread
  <2>3. PICK w, q, s : w = th'[t] /\ q = Client(c) /\ s = stream[q]
    OBVIOUS
  <2>4. NoNewline(s, 0, 0) /\ NoBlank(s, 0)
    <3>1. s \in Stream
      BY <1>1, <2>3, NamesDiffer DEF Types, SocketsTyped
    <3>2. \A i \in BlankAt(s) : i > 0
      BY <3>1 DEF BlankAt, Stream
    <3>3. \A i \in 0 + 1 .. 0 : FALSE
      OBVIOUS
    <3> QED BY <3>2, <3>3 DEF NoNewline, NoBlank
  <2>5. /\ w.head = <<>> /\ w.line = <<>> /\ w.buf = <<>> /\ w.at = "request"
        /\ Len(<<>>) = 0 /\ 0 + 0 = 0 /\ Follows(<<>>, q, 0)
    BY <1>2, <1>3, <2>3, Sizes, FollowsNothing
  <2>6. ReadsOn(w, q, s, 0)
    BY <2>4, <2>5 DEF ReadsOn
  <2> QED BY <2>2, <2>3, <2>6
<1>7. AsksAlone(t)
  BY <1>1, <1>2, <1>4, SilentAlone
<1> QED BY <1>5, <1>6, <1>7, AsksAloneKeeps

\* How much was read is forgotten with the thread.
LEMMA CloseKeepsAsking ==
  ASSUME IInv, IInv', QInv, NEW t \in Tid, OwnersMove, CellsMove, Close(t)
  PROVE  QInv'
<1>1. /\ Types /\ HandsInv /\ th \in [Tid -> Thread] /\ done \in [Sock -> Nat]
      /\ UNCHANGED <<waiting, stream, main, forwarded, unsent>>
  BY DEF IInv, Types, SocketsTyped, Close, peers
<1>2. th' = [th EXCEPT ![t] = NoThread]
  BY DEF Close
<1>3. th'[t].at = "none" /\ \A u \in Tid \ {t} : th'[u] = th[u]
  BY <1>1, <1>2 DEF NoThread
<1>4. PICK p : p = Origin(t)
  OBVIOUS
<1>5. p \in Party /\ done' = [done EXCEPT ![Client(p)] = 0]
  BY <1>1, <1>4, OriginFacts DEF Close
<1>6. \A c \in Conn \ {p} : done'[Client(c)] = done[Client(c)]
  BY <1>1, <1>5, NamesDiffer
<1>7. OnlyAsks(p) /\ StreamsMove
  BY <1>1, <1>6 DEF OnlyAsks, StreamsMove
<1>8. \A c \in Conn : Sent(c)'
  BY <1>1, <1>7, SentKept DEF QInv
<1>9. AsksAlone(t)
  BY <1>1, <1>3, <1>4, <1>7, <1>8 DEF AsksAlone
<1> QED BY <1>3, <1>9, PastRequest, AsksAloneKeeps

-----------------------------------------------------------------------------
LEMMA SilentKept ==
  ASSUME IInv, IInv', QInv, OwnersMove, CellsMove, Silent, NEW u \in Tid, th'[u] = th[u]
  PROVE  Starts(u)' /\ Collects(u)'
<1>1. /\ Starts(u) /\ Collects(u) /\ OnlyAsks(Nobody) /\ HandsInv
      /\ Nobody \notin Conn /\ ~IsClient(Client(Nobody))
  BY SilentFacts, NamesDiffer, ProxyAssumption
  DEF IInv, QInv, Nobody, Conn, IsClient, Party
<1>2. HandOf(u) \in Fd => owner[HandOf(u)] # Client(Nobody)
  BY <1>1 DEF HandsInv, Held
<1>3. Origin(u) \in Conn => Origin(u) # Nobody
  BY <1>1
<1>4. PICK d : d = Nobody
  OBVIOUS
<1> QED BY <1>1, <1>2, <1>3, <1>4, AskerKept

LEMMA AcceptKeepsAsking ==
  ASSUME IInv, IInv', QInv, OwnersMove, CellsMove, Accept PROVE QInv'
<1>1. PICK k \in Cell, x \in Fd \cup {NoFd} :
        /\ cells[k] = NoCell /\ cells' = [cells EXCEPT ![k] = x]
        /\ main.at = "accept" /\ main' = [at |-> "spawn", cell |-> k]
        /\ \/ /\ x \in Fd /\ owner[x] = NoOwner
              /\ \E c \in waiting : /\ owner' = [owner EXCEPT ![x] = Client(c)]
                                    /\ waiting' = waiting \ {c}
           \/ x = NoFd /\ owner' = owner /\ waiting' \subseteq waiting
  BY AcceptFacts
<1>2. Types /\ UNCHANGED <<stream, done, th, forwarded, unsent>> /\ waiting \subseteq Conn
  BY DEF IInv, Types, MainTyped, Accept, peers
<1>3. Silent
  BY <1>2 DEF Silent
<1>4. /\ \A u \in Tid : Starts(u)' /\ Collects(u)'
      /\ NewlinesReal' /\ \A c \in Conn : Sent(c)' /\ (Unread(c) => Unread(c)')
  BY <1>2, <1>3, SilentKept, SilentFacts
<1>5. MainHand' = x
  BY <1>1, <1>2 DEF MainHand, Types, MainTyped
<1>6. x \in Fd => \E c \in waiting : owner'[x] = Client(c)
  BY <1>1, <1>2, NoFdIsNone DEF Types, SocketsTyped
<1>7. \A c \in Conn : owner'[x] = Client(c) /\ x \in Fd => c \in waiting
  BY <1>2, <1>6, NamesDiffer
<1>8. \A c \in waiting : Unread(c)'
  BY <1>2, <1>4 DEF QInv, MainUnread
<1>9. MainUnread'
  BY <1>1, <1>2, <1>5, <1>7, <1>8 DEF MainUnread
<1> QED BY <1>4, <1>9 DEF QInv

LEMMA SpawnKeepsAsking ==
  ASSUME IInv, IInv', QInv, OwnersMove, CellsMove, Spawn PROVE QInv'
<1>1. /\ Types /\ th \in [Tid -> Thread] /\ main.at = "spawn"
      /\ UNCHANGED <<waiting, stream, done, owner, cells, forwarded, unsent>>
      /\ main' = [main EXCEPT !.at = "accept"]
  BY ThreadIs DEF IInv, Types, Spawn, sockets, peers
<1>2. PICK t \in Tid : th' = [th EXCEPT ![t] = [NoThread EXCEPT !.at = "start", !.cell = main.cell]]
  <2> DEFINE S == {u \in Tid : At(u, "none")}
  <2>1. S \in SUBSET Nat /\ S # {}
    BY ProxyAssumption DEF Spawn, Tid
  <2>2. Lowest(S) \in S
    <3> HIDE DEF S
    <3> QED BY <2>1, LowestFacts
  <2> QED BY <2>2 DEF Spawn
<1>3. /\ th'[t].at = "start" /\ th'[t].cell = main.cell
      /\ th'[t].head = <<>> /\ th'[t].line = <<>> /\ th'[t].buf = <<>>
      /\ \A u \in Tid \ {t} : th'[u] = th[u]
  BY <1>1, <1>2 DEF NoThread
<1>4. Silent
  BY <1>1 DEF Silent
<1>5. NewlinesReal' /\ \A c \in Conn : Sent(c)' /\ (Unread(c) => Unread(c)')
  BY <1>4, SilentFacts
<1>6. \A u \in Tid \ {t} : Starts(u)' /\ Collects(u)'
  BY <1>3, <1>4, SilentKept
\* The new thread has what main had.
<1>7. HandOf(t)' = MainHand
  BY <1>1, <1>3 DEF HandOf, MainHand, At
<1>8. Starts(t)'
  BY <1>1, <1>3, <1>5, <1>7 DEF Starts, QInv, MainUnread
<1>9. Collects(t)'
  BY <1>3 DEF Collects
<1>10. MainHand' = NoFd
  BY <1>1 DEF MainHand, Types, MainTyped
<1>11. MainUnread'
  BY <1>1, <1>5, <1>10, NoFdIsNone DEF MainUnread, QInv, Types, MainTyped
<1> QED BY <1>5, <1>6, <1>8, <1>9, <1>11 DEF QInv

LEMMA SpawnFailsKeepsAsking ==
  ASSUME IInv, IInv', QInv, OwnersMove, CellsMove, SpawnFails PROVE QInv'
<1>1. /\ Types /\ UNCHANGED <<waiting, stream, done, th, forwarded, unsent>>
      /\ main' = [main EXCEPT !.at = "accept"]
  BY DEF IInv, SpawnFails, peers
<1>2. Silent
  BY <1>1 DEF Silent
<1>3. /\ \A u \in Tid : Starts(u)' /\ Collects(u)'
      /\ NewlinesReal' /\ \A c \in Conn : Sent(c)' /\ (Unread(c) => Unread(c)')
  BY <1>1, <1>2, SilentKept, SilentFacts
<1>4. MainHand' = NoFd
  BY <1>1 DEF MainHand, Types, MainTyped
<1>5. MainUnread'
  BY <1>1, <1>3, <1>4, NoFdIsNone DEF MainUnread, QInv, Types, MainTyped
<1> QED BY <1>3, <1>5 DEF QInv

-----------------------------------------------------------------------------
LEMMA InitGivesAsking ==
  ASSUME Init PROVE QInv
<1>1. /\ done = [q \in Sock |-> 0] /\ th = [t \in Tid |-> NoThread]
      /\ waiting = Conn /\ main.at = "accept" /\ forwarded = [c \in Party |-> <<>>]
  BY DEF Init
<1>2. \A t \in Tid : Starts(t) /\ Collects(t)
  BY <1>1 DEF NoThread, Starts, Collects, At
<1>3. \A c \in Conn : Unread(c) /\ forwarded[c] = <<>>
  BY <1>1, NamesDiffer DEF Unread
<1>4. MainUnread
  BY <1>1, <1>3, NoFdIsNone DEF MainUnread, MainHand
<1>5. \A c \in Conn : Sent(c)
  BY <1>3 DEF Sent
<1>6. \A c \in Conn : stream[Client(c)] \in Requests[c]
  BY DEF Init
<1>7. NewlinesReal
  BY <1>6, ProxyAssumption DEF NewlinesReal
<1> QED BY <1>2, <1>4, <1>5, <1>7 DEF QInv

LEMMA NextKeepsAsking ==
  ASSUME IInv, QInv, [Next]_vars PROVE QInv'
<1>1. IInv'
  BY NextKeeps
<1>2. CASE Main
  <2>1. OwnersMove /\ CellsMove
    BY <1>2, MainMoves
  <2> QED BY <1>1, <1>2, <2>1, AcceptKeepsAsking, SpawnKeepsAsking, SpawnFailsKeepsAsking
          DEF Main
<1>3. ASSUME NEW t \in Tid, ThreadStep(t) PROVE QInv'
  <2>1. OwnersMove /\ CellsMove
    BY <1>3, ThreadsMove
  <2>2. CASE RequestLine(t) \/ HeaderLine(t)
    BY <1>1, <2>1, <2>2, RequestKeepsAsking
  <2>3. CASE Socket(t) \/ Connect(t)
    BY <1>1, <2>1, <2>3, OpenKeepsAsking
  <2>4. CASE Start(t) \/ Send(t) \/ Close(t)
    BY <1>1, <2>1, <2>4, StartKeepsAsking, SendKeepsAsking, CloseKeepsAsking
  <2>5. CASE Relay(t) \/ Write(t)
    BY <1>1, <2>1, <2>5, ReplyKeepsAsking
  <2> QED BY <1>3, <2>2, <2>3, <2>4, <2>5 DEF ThreadStep
<1>4. CASE UNCHANGED vars
  BY <1>4 DEF QInv, Starts, Collects, MainUnread, NewlinesReal, Sent, RequestOf, Unread,
              HandOf, MainHand, Origin, At, vars, sockets, peers
<1> QED BY <1>2, <1>3, <1>4 DEF Next

(***************************************************************************)
(* However the bytes of a request arrive, and whatever other connections   *)
(* do: a server is sent its client's bytes from the first one to the end   *)
(* of the blank line, or of the stream, and User-Agent, as far as          *)
(* request[] holds them and send takes them, when no line is longer than   *)
(* MAXLINE allows and the stream was not reset (proxy.c:286-291, 147-149). *)
(***************************************************************************)
THEOREM RequestsStayWhole == Spec => []RequestsForwarded
<1>1. Init => QInv
  BY InitGivesAsking
<1>2. IInv /\ QInv /\ [Next]_vars => QInv'
  BY NextKeepsAsking
<1>3. QInv => RequestsForwarded
  BY DEF QInv, Sent, Clean, RequestsForwarded
<1> QED BY <1>1, <1>2, <1>3, IInvAlways, PTL DEF Spec
=============================================================================
