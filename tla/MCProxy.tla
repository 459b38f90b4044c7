------------------------------- MODULE MCProxy -------------------------------
(* A small instance of Proxy for TLC. *)
EXTENDS Proxy

Peer(n, newlines, ends) == [len |-> n, newlines |-> newlines, ends |-> ends]

(***************************************************************************)
(* The first client sends a request that ends before its blank line, or    *)
(* one that is reset, and gets a reply of two chunks; the second sends a   *)
(* complete request, waits for the answer, and its server is reset.        *)
(***************************************************************************)
MCRequests == <<{Peer(5, {1, 3, 5}, "eof"), Peer(2, {1}, "reset"), Peer(1, {}, "eof")}, {Peer(3, {1, 2}, "open")}>>
MCReplies  == <<{Peer(4, {}, "eof")}, {Peer(1, {}, "reset")}>>

(***************************************************************************)
(* Two addresses of the first server can be tried, one of the second.      *)
(* The thread of a failed accept, which has no request, finds none here.   *)
(***************************************************************************)
MCAddresses == [c \in Party |-> CASE c = 1 -> {0, 2} [] c = 2 -> {1} [] OTHER -> {0}]
=============================================================================
