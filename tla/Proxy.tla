-------------------------------- MODULE Proxy --------------------------------
(***************************************************************************)
(* The web proxy (proxy.c): a thread for every connection, and descriptors *)
(* that all threads share.  A step is one call of the kernel with what the *)
(* thread computes up to the next one.                                     *)
(*                                                                         *)
(* What http_parser makes of a line is not known here: any line may be a   *)
(* GET request, another request, or none.                                  *)
(***************************************************************************)
EXTENDS Rio

CONSTANTS
  NConn,        \* clients; they connect in the order of their numbers
  NThreads,     \* threads that can be there at a time
  NFds,         \* descriptors of the process, without those always open
  Requests,     \* streams each client may send
  Replies,      \* streams each server may send
  RequestSize,  \* what fits into request[1024]
  Addresses,    \* how many addresses the server of a client may have
  NoOwner,      \* of a descriptor that is not open
  NoCell        \* of a cell that is not allocated

Conn   == 1 .. NConn
Nobody == 0                \* the client of a thread that was started for -1
Tid    == 1 .. NThreads
Cell   == 0 .. NThreads    \* as many ints as can be allocated at a time
Fd     == 0 .. NFds - 1
NoFd   == -1
Party  == Conn \cup {Nobody}
Sock   == {"client", "server"} \X Party

Client(c) == <<"client", c>>
Server(c) == <<"server", c>>

ASSUME ProxyAssumption ==
  /\ NConn \in Nat /\ NThreads \in Nat /\ NFds \in Nat
  /\ Addresses \in [Party -> SUBSET Nat]
  /\ RequestSize \in Nat \ {0}
  /\ \A c \in Conn : \A s \in Requests[c] \cup Replies[c] :
       /\ s \in [len : Nat, newlines : SUBSET Nat, ends : Ending \ {"gone"}]
       /\ s.newlines \subseteq 1 .. s.len
  /\ NoOwner \notin Sock /\ NoCell \notin Fd \cup {NoFd}

VARIABLES
  waiting,    \* connections that were not accepted yet
  stream,     \* what the peers send
  done,       \* how much of it was read
  owner,      \* which socket a descriptor is
  cells,      \* the ints that main allocates, one for each accept
  main,       \* where main is, and the cell client_fd points to
  th,         \* the threads
  nul,        \* the index in body of the last NUL a thread stored, 0 before the first
  forwarded,  \* what the server of a connection was sent
  unsent,     \* how much of the request send did not take
  got         \* what a client was sent of its server's reply

sockets == <<stream, done, owner>>
peers   == <<forwarded, unsent, got>>
vars    == <<waiting, sockets, cells, main, th, nul, peers>>

Lowest(S) == CHOOSE i \in S : \A j \in S : i <= j

FreeFds   == {f \in Fd : owner[f] = NoOwner}
FreeCells == {k \in Cell : cells[k] = NoCell}
IsOpen(f) == f \in Fd /\ owner[f] # NoOwner

\* close(fd); of -1 it fails and changes nothing.
Closed(f) == IF f = NoFd THEN owner ELSE [owner EXCEPT ![f] = NoOwner]

NoThread == [at |-> "none", cell |-> 0, cfd |-> NoFd, sfd |-> NoFd,
             buf |-> <<>>, line |-> <<>>, head |-> <<>>, left |-> 0]

At(t, place) == th[t].at = place
Go(t, place) == th' = [th EXCEPT ![t].at = place]

\* Whose request a thread serves.
Origin(t) == IF th[t].cfd = NoFd THEN Nobody ELSE owner[th[t].cfd][2]

\* handle_request returns: its buffers are gone, and so is what it knows of socket_fd.
Returned(t) == [th EXCEPT ![t] = [NoThread EXCEPT !.at = "close", !.cfd = th[t].cfd]]

-----------------------------------------------------------------------------
(***************************************************************************)
(* main.  It does not look at what accept returns: a thread is started for *)
(* -1 too.                                                                 *)
(***************************************************************************)
\* Defect: one int for all connections.
Accept_SharedCell ==
  /\ main.at = "accept" /\ waiting # {} /\ FreeFds # {}
  /\ main' = [at |-> "spawn", cell |-> 0]
  /\ owner' = [owner EXCEPT ![Lowest(FreeFds)] = Client(Lowest(waiting))]
  /\ cells' = [cells EXCEPT ![0] = Lowest(FreeFds)]
  /\ waiting' = waiting \ {Lowest(waiting)}
  /\ UNCHANGED <<stream, done, th, nul, peers>>

Accept ==
  LET k == Lowest(FreeCells)  f == Lowest(FreeFds)  c == Lowest(waiting) IN
  /\ main.at = "accept" /\ FreeCells # {}
  /\ main' = [at |-> "spawn", cell |-> k]
  /\ \/ /\ waiting # {} /\ FreeFds # {}
        /\ owner' = [owner EXCEPT ![f] = Client(c)]
        /\ cells' = [cells EXCEPT ![k] = f]
        /\ waiting' = waiting \ {c}
     \/ /\ waiting # {}                                       \* ECONNABORTED
        /\ cells' = [cells EXCEPT ![k] = NoFd]
        /\ waiting' = waiting \ {c}
        /\ UNCHANGED owner
     \/ /\ FreeFds = {}                                       \* EMFILE
        /\ cells' = [cells EXCEPT ![k] = NoFd]
        /\ UNCHANGED <<owner, waiting>>
  /\ UNCHANGED <<stream, done, th, nul, peers>>

\* Which slot of Tid a thread gets is not seen by anyone.
Spawn ==
  /\ main.at = "spawn" /\ \E t \in Tid : At(t, "none")
  /\ th' = [th EXCEPT ![Lowest({t \in Tid : At(t, "none")})] =
              [NoThread EXCEPT !.at = "start", !.cell = main.cell]]
  /\ main' = [main EXCEPT !.at = "accept"]
  /\ UNCHANGED <<waiting, sockets, cells, nul, peers>>

\* Defect: main closes nothing when there is no thread.
SpawnFails_NoClose ==
  /\ main.at = "spawn"
  /\ cells' = [cells EXCEPT ![main.cell] = NoCell]
  /\ main' = [main EXCEPT !.at = "accept"]
  /\ UNCHANGED <<waiting, sockets, th, nul, peers>>

SpawnFails ==
  /\ main.at = "spawn"
  /\ owner' = Closed(cells[main.cell])
  /\ cells' = [cells EXCEPT ![main.cell] = NoCell]
  /\ main' = [main EXCEPT !.at = "accept"]
  /\ UNCHANGED <<waiting, stream, done, th, nul, peers>>

\* thread_handle_request: client_fd is copied from the cell, which is freed.
Start(t) ==
  /\ At(t, "start")
  /\ th' = [th EXCEPT ![t].at = "request", ![t].cell = 0, ![t].cfd = cells[th[t].cell]]
  /\ cells' = [cells EXCEPT ![th[t].cell] = NoCell]
  /\ UNCHANGED <<waiting, sockets, main, nul, peers>>

-----------------------------------------------------------------------------
(***************************************************************************)
(* What a call of rio_read on descriptor f finds: what is left in the      *)
(* buffer, or else what a read returns, its end, or an error.  After the   *)
(* first report of a reset the stream reads as ended.                      *)
(***************************************************************************)
MayFind(t, f) ==
  IF th[t].buf # <<>> THEN {th[t].buf}
  ELSE IF ~IsOpen(f) THEN {}
  ELSE Arrivals(owner[f], stream[owner[f]], done[owner[f]], BufSize)

Finds(t, f, bytes) ==
  IF th[t].buf # <<>> THEN UNCHANGED sockets
  ELSE /\ done' = [done EXCEPT ![owner[f]] = @ + Len(bytes)]
       /\ UNCHANGED <<stream, owner>>

FindsEnd(t, f) ==
  /\ th[t].buf = <<>> /\ IsOpen(f)
  /\ EndOfStream(stream[owner[f]], done[owner[f]])
  /\ UNCHANGED sockets

FindsError(t, f) ==
  /\ th[t].buf = <<>>
  /\ \/ ~IsOpen(f) /\ UNCHANGED sockets
     \/ /\ IsOpen(f) /\ ResetByPeer(stream[owner[f]], done[owner[f]])
        /\ stream' = [stream EXCEPT ![owner[f]].ends = "gone"]
        /\ UNCHANGED <<done, owner>>

(***************************************************************************)
(* handle_request, the request line: it is no GET request, and             *)
(* clienterror sends a page, which may not arrive; or the headers follow.  *)
(***************************************************************************)
ErrorPage(t) == th' = Returned(t)

Parsed(t, line, rest) ==
  \/ ErrorPage(t)
  \/ th' = [th EXCEPT ![t].at = "header", ![t].head = line,
                      ![t].line = <<>>, ![t].buf = rest]

\* A byte that is left in a buffer and on no stream.
Stale == <<"stale", 0>>

Ends(t, line) == LineEnds(stream[line[Len(line)][1]], line)

Takes(t, bytes) == LineTakes(stream[bytes[Len(bytes)][1]], bytes, th[t].line)

\* -1 in a size_t is not 0, and request_line is parsed as it is.
RequestLine(t) ==
  /\ At(t, "request")
  /\ \/ \E bytes \in MayFind(t, th[t].cfd) :
          LET k    == Takes(t, bytes)
              line == th[t].line \o SubSeq(bytes, 1, k)
              rest == SubSeq(bytes, k + 1, Len(bytes))
          IN
          /\ Finds(t, th[t].cfd, bytes)
          /\ IF Ends(t, line) THEN Parsed(t, line, rest)
             ELSE th' = [th EXCEPT ![t].line = line, ![t].buf = rest]
     \/ /\ FindsEnd(t, th[t].cfd)
        /\ IF th[t].line = <<>> THEN ErrorPage(t)
           ELSE Parsed(t, th[t].line, <<>>)
     \/ FindsError(t, th[t].cfd) /\ Parsed(t, <<Stale>>, <<>>)
  /\ UNCHANGED <<waiting, cells, main, nul, peers>>

(***************************************************************************)
(* The headers, and open_clientfd's getaddrinfo after them.  A header line *)
(* is appended, and the blank one is the last.                             *)
(***************************************************************************)
Blank(line) ==
  Len(line) = 1 /\ EndsInNewline(stream[line[1][1]], line)

Resolve(t, head, rest) ==
  \E n \in Addresses[Origin(t)] :
    th' = [th EXCEPT ![t].at = "socket", ![t].left = n,
                     ![t].head = head, ![t].line = <<>>, ![t].buf = rest]

AppendLine(t, line, rest) ==
  LET head == th[t].head \o line IN
  IF Blank(line) THEN Resolve(t, head, rest)
  ELSE th' = [th EXCEPT ![t].head = head, ![t].line = <<>>, ![t].buf = rest]

\* Defect: the end of the stream is not noticed.
HeaderLine_NoEof(t) ==
  /\ At(t, "header")
  /\ \E bytes \in MayFind(t, th[t].cfd) :
       LET k    == Takes(t, bytes)
           line == th[t].line \o SubSeq(bytes, 1, k)
           rest == SubSeq(bytes, k + 1, Len(bytes))
       IN
       /\ Finds(t, th[t].cfd, bytes)
       /\ IF Ends(t, line) THEN AppendLine(t, line, rest)
          ELSE th' = [th EXCEPT ![t].line = line, ![t].buf = rest]
  /\ UNCHANGED <<waiting, cells, main, nul, peers>>

\* Defect: the rio_t is set up anew for every line.
HeaderLine_NewBuffer(t) ==
  /\ At(t, "header")
  /\ \/ \E bytes \in MayFind(t, th[t].cfd) :
          LET line == th[t].line \o SubSeq(bytes, 1, Takes(t, bytes)) IN
          /\ Finds(t, th[t].cfd, bytes)
          /\ IF Ends(t, line) THEN AppendLine(t, line, <<>>)
             ELSE th' = [th EXCEPT ![t].line = line]
     \/ FindsEnd(t, th[t].cfd) /\ Resolve(t, th[t].head \o th[t].line, <<>>)
  /\ UNCHANGED <<waiting, cells, main, nul, peers>>

(***************************************************************************)
(* One call of rio_read for a header line.  After an error buf still holds *)
(* what was left there, and that is appended: it may be "\r\n".            *)
(***************************************************************************)
HeaderLine(t) ==
  /\ At(t, "header")
  /\ \/ \E bytes \in MayFind(t, th[t].cfd) :
          LET k    == Takes(t, bytes)
              line == th[t].line \o SubSeq(bytes, 1, k)
              rest == SubSeq(bytes, k + 1, Len(bytes))
          IN
          /\ Finds(t, th[t].cfd, bytes)
          /\ IF Ends(t, line) THEN AppendLine(t, line, rest)
             ELSE th' = [th EXCEPT ![t].line = line, ![t].buf = rest]
     \/ /\ FindsEnd(t, th[t].cfd)
        /\ IF th[t].line = <<>> THEN Resolve(t, th[t].head, <<>>)
           ELSE AppendLine(t, th[t].line, <<>>)
     \/ /\ FindsError(t, th[t].cfd)
        /\ \/ Resolve(t, <<Stale>>, <<>>)
           \/ th' = [th EXCEPT ![t].head = <<Stale>>, ![t].line = <<>>]
  /\ UNCHANGED <<waiting, cells, main, nul, peers>>

-----------------------------------------------------------------------------
(***************************************************************************)
(* open_clientfd: the addresses are tried in turn; -2 (no address) and -1  *)
(* are the same to the caller.                                             *)
(***************************************************************************)
Socket(t) ==
  /\ At(t, "socket")
  /\ \/ /\ th[t].left = 0
        /\ Go(t, "send") /\ UNCHANGED owner
     \/ /\ th[t].left > 0 /\ FreeFds # {}
        /\ th' = [th EXCEPT ![t].at = "connect", ![t].sfd = Lowest(FreeFds)]
        /\ owner' = [owner EXCEPT ![Lowest(FreeFds)] = Server(Origin(t))]
     \/ /\ th[t].left > 0 /\ FreeFds = {}
        /\ th' = [th EXCEPT ![t].left = @ - 1] /\ UNCHANGED owner
  /\ UNCHANGED <<waiting, stream, done, cells, main, nul, peers>>

\* Defect: the next address is tried before the socket of the last is closed.
Connect_NoClose(t) ==
  /\ At(t, "connect")
  /\ \/ Go(t, "send")
     \/ th' = [th EXCEPT ![t].at = "socket", ![t].sfd = NoFd, ![t].left = @ - 1]
  /\ UNCHANGED <<waiting, sockets, cells, main, nul, peers>>

Connect(t) ==
  /\ At(t, "connect")
  /\ \/ Go(t, "send") /\ UNCHANGED owner
     \/ /\ th' = [th EXCEPT ![t].at = "socket", ![t].sfd = NoFd, ![t].left = @ - 1]
        /\ owner' = Closed(th[t].sfd)
  /\ UNCHANGED <<waiting, stream, done, cells, main, nul, peers>>

\* The line User-Agent, which follows the client's lines, the blank one included.
Agent == <<"agent", 0>>

\* What snprintf makes of them in request[].
Request(head) ==
  SubSeq(Append(head, Agent), 1, Least(Len(head) + 1, RequestSize))

(***************************************************************************)
(* send, of -1 too.  It may take a part of the request only, and the rest  *)
(* is never sent.  The rio_t of send_request is not that of                *)
(* handle_request: its buffer is empty.                                    *)
(***************************************************************************)
Send(t) ==
  /\ At(t, "send")
  /\ \/ /\ th[t].sfd # NoFd
        /\ \E k \in 1 .. Len(Request(th[t].head)) :
             /\ forwarded' = [forwarded EXCEPT ![Origin(t)] =
                                SubSeq(Request(th[t].head), 1, k)]
             /\ unsent' = [unsent EXCEPT ![Origin(t)] = Len(Request(th[t].head)) - k]
        /\ th' = [th EXCEPT ![t].at = "relay", ![t].left = 0,
                            ![t].buf = <<>>, ![t].head = <<>>]
        /\ UNCHANGED owner
     \/ /\ owner' = Closed(th[t].sfd)
        /\ th' = Returned(t)
        /\ UNCHANGED <<forwarded, unsent>>
  /\ UNCHANGED <<waiting, stream, done, cells, main, nul, got>>

-----------------------------------------------------------------------------
(***************************************************************************)
(* The loop of send_request.  One call of rio_read for rio_readnb: a chunk *)
(* that is full, or the last one, is written.  socket_fd stays open.       *)
(***************************************************************************)
\* Defect: a last chunk that is not full is not written.
Relay_FullChunks(t) ==
  /\ At(t, "relay")
  /\ \/ \E bytes \in MayFind(t, th[t].sfd) :
          LET k     == ChunkTakes(bytes, th[t].line)
              chunk == th[t].line \o SubSeq(bytes, 1, k)
          IN
          /\ Finds(t, th[t].sfd, bytes)
          /\ th' = [th EXCEPT ![t].line = chunk,
                              ![t].buf = SubSeq(bytes, k + 1, Len(bytes)),
                              ![t].at = IF ChunkIsFull(chunk) THEN "write" ELSE @]
          /\ nul' = [nul EXCEPT ![t] = IF ChunkIsFull(chunk) THEN Len(chunk) ELSE @]
     \/ /\ FindsEnd(t, th[t].sfd) \/ FindsError(t, th[t].sfd)
        /\ th' = Returned(t) /\ UNCHANGED nul
  /\ UNCHANGED <<waiting, cells, main, peers>>

\* Defect: what is left in the buffer after a chunk is forgotten.
Relay_NewBuffer(t) ==
  /\ At(t, "relay")
  /\ \/ \E bytes \in MayFind(t, th[t].sfd) :
          LET chunk == th[t].line \o SubSeq(bytes, 1, ChunkTakes(bytes, th[t].line)) IN
          /\ Finds(t, th[t].sfd, bytes)
          /\ th' = [th EXCEPT ![t].line = chunk,
                              ![t].at = IF ChunkIsFull(chunk) THEN "write" ELSE @]
          /\ nul' = [nul EXCEPT ![t] = IF ChunkIsFull(chunk) THEN Len(chunk) ELSE @]
     \/ /\ FindsEnd(t, th[t].sfd)
        /\ IF th[t].line = <<>> THEN th' = Returned(t) /\ UNCHANGED nul
           ELSE Go(t, "write") /\ nul' = [nul EXCEPT ![t] = Len(th[t].line)]
     \/ /\ FindsError(t, th[t].sfd)
        /\ th' = Returned(t)
        /\ nul' = [nul EXCEPT ![t] = -1]
  /\ UNCHANGED <<waiting, cells, main, peers>>

(***************************************************************************)
(* A NUL is stored behind the chunk, which is then written.  -1 in a       *)
(* size_t passes for a length: the NUL goes before body, and the write of  *)
(* that many bytes fails.  Neither place outside of body holds anything    *)
(* that is used again in the build of the Makefile.                        *)
(***************************************************************************)
Relay(t) ==
  /\ At(t, "relay")
  /\ \/ \E bytes \in MayFind(t, th[t].sfd) :
          LET k     == ChunkTakes(bytes, th[t].line)
              chunk == th[t].line \o SubSeq(bytes, 1, k)
          IN
          /\ Finds(t, th[t].sfd, bytes)
          /\ th' = [th EXCEPT ![t].line = chunk,
                              ![t].buf = SubSeq(bytes, k + 1, Len(bytes)),
                              ![t].at = IF ChunkIsFull(chunk) THEN "write" ELSE @]
          /\ nul' = [nul EXCEPT ![t] = IF ChunkIsFull(chunk) THEN Len(chunk) ELSE @]
     \/ /\ FindsEnd(t, th[t].sfd)
        /\ IF th[t].line = <<>> THEN th' = Returned(t) /\ UNCHANGED nul
           ELSE Go(t, "write") /\ nul' = [nul EXCEPT ![t] = Len(th[t].line)]
     \/ /\ FindsError(t, th[t].sfd)
        /\ th' = Returned(t)
        /\ nul' = [nul EXCEPT ![t] = -1]
  /\ UNCHANGED <<waiting, cells, main, peers>>

\* rio_writen: all of the chunk, or a part of it and an error.
Write(t) ==
  /\ At(t, "write")
  /\ \/ /\ th[t].cfd # NoFd
        /\ got' = [got EXCEPT ![Origin(t)] = @ \o th[t].line]
        /\ th' = [th EXCEPT ![t].at = "relay", ![t].line = <<>>]
     \/ /\ \E k \in 0 .. Len(th[t].line) - 1 :
             /\ k > 0 => th[t].cfd # NoFd
             /\ got' = [got EXCEPT ![Origin(t)] = @ \o SubSeq(th[t].line, 1, k)]
        /\ th' = Returned(t)
  /\ UNCHANGED <<waiting, sockets, cells, main, nul, forwarded, unsent>>

(***************************************************************************)
(* Back in thread_handle_request: client_fd is closed, and the thread      *)
(* ends.  How much of the client's stream was read is forgotten.           *)
(***************************************************************************)
Close(t) ==
  /\ At(t, "close")
  /\ owner' = Closed(th[t].cfd)
  /\ done' = [done EXCEPT ![Client(Origin(t))] = 0]
  /\ th' = [th EXCEPT ![t] = NoThread]
  /\ nul' = [nul EXCEPT ![t] = 0]
  /\ UNCHANGED <<waiting, stream, cells, main, peers>>

-----------------------------------------------------------------------------
ThreadStep(t) ==
  \/ Start(t) \/ RequestLine(t) \/ HeaderLine(t)
  \/ Socket(t) \/ Connect(t) \/ Send(t)
  \/ Relay(t) \/ Write(t) \/ Close(t)

Main == Accept \/ Spawn \/ SpawnFails

\* What a server would say to nobody's request cannot be delivered.
NoReply == [len |-> 0, newlines |-> {}, ends |-> "eof"]

Init ==
  /\ waiting = Conn
  /\ stream \in {s \in [Sock -> {NoReply} \cup UNION {Requests[c] \cup Replies[c] : c \in Conn}] :
                   /\ \A c \in Conn : s[Client(c)] \in Requests[c] /\ s[Server(c)] \in Replies[c]
                   /\ s[Client(Nobody)] = NoReply /\ s[Server(Nobody)] = NoReply}
  /\ done = [q \in Sock |-> 0]
  /\ owner = [f \in Fd |-> NoOwner]
  /\ cells = [k \in Cell |-> NoCell]
  /\ main = [at |-> "accept", cell |-> 0]
  /\ th = [t \in Tid |-> NoThread] /\ nul = [t \in Tid |-> 0]
  /\ forwarded = [c \in Party |-> <<>>] /\ unsent = [c \in Party |-> 0]
  /\ got = [c \in Party |-> <<>>]

Next == Main \/ \E t \in Tid : ThreadStep(t)

\* The kernel runs every thread that can run, main among them.
Spec ==
  /\ Init /\ [][Next]_vars
  /\ WF_vars(Main) /\ \A t \in Tid : WF_vars(ThreadStep(t))

-----------------------------------------------------------------------------
(***************************************************************************)
(* Types.  The lines have room for their NUL (proxy.c:256, 285).  The      *)
(* chunk of a reply is no longer than body, MaxLine bytes; its own NUL is  *)
(* stored outside of body when the chunk is full, and before it when a     *)
(* read failed, and never else (proxy.c:156-157).                          *)
(***************************************************************************)
TypeOK ==
  /\ waiting \subseteq Conn
  /\ \A q \in Sock : done[q] \in 0 .. stream[q].len /\ stream[q].ends \in Ending
  /\ owner \in [Fd -> Sock \cup {NoOwner}]
  /\ cells \in [Cell -> Fd \cup {NoFd, NoCell}]
  /\ main \in [at : {"accept", "spawn"}, cell : Cell]
  /\ \A c \in Party : unsent[c] \in 0 .. RequestSize - 1
  /\ \A t \in Tid :
       /\ th[t].at \in {"none", "start", "request", "header", "socket",
                        "connect", "send", "relay", "write", "close"}
       /\ th[t].cell \in Cell /\ th[t].left \in Nat
       /\ th[t].cfd \in Fd \cup {NoFd} /\ th[t].sfd \in Fd \cup {NoFd}
       /\ Len(th[t].buf) <= BufSize
       /\ th[t].at \in {"request", "header"} => Len(th[t].line) < MaxLine
       /\ Len(th[t].line) <= MaxLine
       /\ nul[t] \in -1 .. MaxLine /\ (nul[t] = -1 => At(t, "close"))
       /\ At(t, "write") => (nul[t] < MaxLine <=> ~ChunkIsFull(th[t].line))

(***************************************************************************)
(* The descriptor of a client belongs to one holder: main between accept   *)
(* and pthread_create, or one thread, before and after it copied the int.  *)
(* Every holder's descriptor is open and a client's, or -1.  So none is    *)
(* closed twice, closed under another thread, or lost (proxy.c:329-343,    *)
(* 306-310).                                                               *)
(***************************************************************************)
MainHolds(f)   == main.at = "spawn" /\ cells[main.cell] = f
HoldsBy(t, f)  == IF At(t, "start") THEN cells[th[t].cell] = f
                  ELSE th[t].cfd = f

Holders(f) ==
  {t \in Tid : HoldsBy(t, f)} \cup (IF MainHolds(f) THEN {0} ELSE {})

DescriptorsHeld ==
  \A f \in Fd :
    /\ \A s, t \in Holders(f) : s = t
    /\ Holders(f) # {} <=> \E c \in Conn : owner[f] = Client(c)

(***************************************************************************)
(* However many addresses were tried, one socket at most is left open for  *)
(* a connection, and a thread's socket_fd is its own (csapp.c:598-616).    *)
(* That one is never closed (proxy.c:156); it is lost only by a thread     *)
(* that sent its request.                                                  *)
(***************************************************************************)
OneServerSocket ==
  /\ \A f, g \in Fd, c \in Conn : owner[f] = Server(c) /\ owner[g] = Server(c) => f = g
  /\ \A f \in Fd, c \in Conn :
       owner[f] = Server(c) => (\E t \in Tid : th[t].sfd = f) \/ forwarded[c] # <<>>
  /\ \A t \in Tid : th[t].sfd # NoFd => owner[th[t].sfd] = Server(Origin(t))

(***************************************************************************)
(* A client gets the bytes of its own server's reply, in order, without a  *)
(* gap: what it got, what is in the chunk and what is in the rio buffer    *)
(* are together what was read (proxy.c:155-163).                           *)
(***************************************************************************)
RelayedInOrder ==
  \A c \in Conn :
    /\ got[c] = BytesOf(Server(c), 1, Len(got[c]))
    /\ \A t \in Tid :
         (At(t, "relay") \/ At(t, "write")) /\ Origin(t) = c =>
           got[c] \o th[t].line \o th[t].buf = BytesOf(Server(c), 1, done[Server(c)])

(***************************************************************************)
(* A thread that was not told of an error stops relaying only when its     *)
(* client has the whole reply.                                             *)
(***************************************************************************)
RelayComplete ==
  [][\A t \in Tid :
       At(t, "relay") /\ th'[t].at = "close" /\ UNCHANGED stream /\ th[t].cfd # NoFd =>
         Len(got[Origin(t)]) = stream[Server(Origin(t))].len]_vars

(***************************************************************************)
(* The request is the client's bytes from the first one to the end of the  *)
(* blank line, or to the end of the stream, and User-Agent, as far as      *)
(* request[] holds them (proxy.c:286-291, 147), whatever way they arrive   *)
(* in.  The server is sent that, from the beginning, and nothing else, all *)
(* of it but what send did not take (proxy.c:149).  A line that does not   *)
(* fit MAXLINE is split, and its rest may pass for the blank one.          *)
(***************************************************************************)
BlankAt(s)   == {i \in s.newlines : i > 1 /\ i - 1 \in s.newlines}
HeadLen(s)   == IF BlankAt(s) = {} THEN s.len ELSE Lowest(BlankAt(s))
LinesFit(s)  == \A i \in 1 .. s.len - MaxLine + 2 : \E j \in i .. i + MaxLine - 2 : j \in s.newlines

RequestOf(c) == Request(BytesOf(Client(c), 1, HeadLen(stream[Client(c)])))

RequestsForwarded ==
  \A c \in Conn :
    LET s == stream[Client(c)] IN
    forwarded[c] # <<>> /\ s.ends # "gone" /\ LinesFit(s) =>
      forwarded[c] = SubSeq(RequestOf(c), 1, Len(RequestOf(c)) - unsent[c])

(***************************************************************************)
(* Every connection that was accepted is closed, whatever fails on the     *)
(* way, when its client ends the stream or the request, and its server     *)
(* ends the reply.                                                         *)
(***************************************************************************)
Finite(c) ==
  /\ stream[Client(c)].ends # "open" \/ BlankAt(stream[Client(c)]) # {}
  /\ stream[Server(c)].ends # "open"

HasFd(c) == \E f \in Fd : owner[f] = Client(c)

AcceptedEnds == \A c \in Conn : HasFd(c) /\ Finite(c) ~> ~HasFd(c)
=============================================================================
