------------------------------- MODULE TunTls -------------------------------
(***************************************************************************)
(* The TLS connection as the Windows tun proxy uses it: the Read and Write *)
(* implementations of TlsConn (tls_conn.rs), which touch the socket once   *)
(* per call and leave the readiness to the caller.                         *)
(*                                                                         *)
(* On Windows mio reports what a socket is ready for of what is armed and  *)
(* disarms it; only a call that returns WouldBlock, or a registration,     *)
(* arms the socket again.  A call on a socket that is still connecting     *)
(* returns NotConnected, which arms nothing.                               *)
(*                                                                         *)
(* tls follows the client's handshake: "answer" (the own flight is in the  *)
(* session), "sent", "hello" (the server's flight is in the socket),       *)
(* "finish" (read, the last flight is in the session), "up".               *)
(***************************************************************************)
EXTENDS Integers, Sequences

CONSTANTS
  Cap,   \* chunks that the socket's send buffer holds
  Burst  \* chunks that one write_tls hands to the socket at most (64)

ASSUME RemoteAssumption == Cap \in Nat \ {0} /\ Burst \in Nat \ {0}

\* in, out: chunks in the socket; end: "open", or how the server's stream ends
\* behind in: "fin", "rst", or "bad" (a bad record or a fatal alert); dec:
\* decrypted and not read; session, plain: written and not sent, plain while the
\* handshake lasts.  seen, heard and said are history: chunks that were decrypted
\* by a read that did not fail, and what the server has received and sent.
\*
\* IdlePool::get and set_token: a connection that is still connecting, or one
\* that is ready, registered anew.
Pooled(how) ==
  [up |-> how = "ready", in |-> <<>>, out |-> <<>>, end |-> "open", shut |-> FALSE,
   armed |-> {"r", "w"}, tls |-> IF how = "ready" THEN "up" ELSE "answer",
   dec |-> <<>>, session |-> <<>>, plain |-> <<>>, seen |-> 0, heard |-> <<>>, said |-> 0]

ReadyFor(p) ==
  {k \in {"r", "w"} :
     /\ p.up /\ ~p.shut
     /\ k = "r" => p.in # <<>> \/ p.end # "open" \/ p.tls = "hello"
     /\ k = "w" => Len(p.out) < Cap \/ p.end = "rst"}

\* What poll reports of the connection.
EventOf(p) == p.armed \cap ReadyFor(p)

Reported(p) == [p EXCEPT !.armed = @ \ EventOf(p)]

WouldBlock(p) == IF p.up /\ ~p.shut THEN [p EXCEPT !.armed = {"r", "w"}] ELSE p

Rest(data, n) == SubSeq(data, n + 1, Len(data))

\* Chunks that can be read before the socket would block or ends.  One read_tls
\* takes what the socket holds; when process_new_packets then fails on a bad
\* record, read returns InvalidData, and what was decrypted before that record
\* in the same call is not read any more.
Readable(p) == p.dec \o IF p.shut \/ p.end = "bad" THEN <<>> ELSE p.in

\* n calls of read that return data: decrypted data first, then read_tls takes
\* what the socket holds.
ReadSome(p, n) ==
  IF n <= Len(p.dec) THEN [p EXCEPT !.dec = Rest(@, n)]
  ELSE [p EXCEPT !.dec = Rest(Readable(p), n), !.in = <<>>, !.seen = @ + Len(p.in)]

\* A read of a connection that has no data left: it breaks at the end of the
\* stream, on a bad record and on a connection that was closed, and blocks
\* otherwise.
ReadBreaks(p) == p.shut \/ (p.up /\ p.end # "open")

\* A read that blocks.  The server's flight ends the handshake, and what waited
\* for it is encrypted, but nothing is sent.
ReadBlocks(p) ==
  WouldBlock(IF p.up /\ p.tls = "hello"
             THEN [p EXCEPT !.tls = "finish", !.session = p.plain, !.plain = <<>>] ELSE p)

\* The session takes everything: set_buffer_limit(None).
write(p, data) ==
  IF p.tls \in {"finish", "up"} THEN [p EXCEPT !.session = @ \o data]
  ELSE [p EXCEPT !.plain = @ \o data]

wants_write(p) == p.session # <<>> \/ p.tls \in {"answer", "finish"}

FlushFails(p) == wants_write(p) /\ (p.shut \/ (p.up /\ p.end = "rst"))

Least(a, b) == IF a < b THEN a ELSE b

\* One write_tls: as much as one call takes.  The rest stays in the session,
\* and the socket is not armed for it unless nothing was taken.
flush(p) ==
  LET n == Least(Least(Len(p.session), Burst), Cap - Len(p.out))
  IN  CASE ~wants_write(p) \/ ~p.up -> p
        [] p.up /\ wants_write(p) /\ Len(p.out) = Cap -> WouldBlock(p)
        [] OTHER -> [p EXCEPT !.out = @ \o SubSeq(p.session, 1, n),
                              !.session = Rest(@, n),
                              !.tls = CASE @ = "answer" -> "sent" [] @ = "finish" -> "up"
                                        [] OTHER -> @]

close(p) == [p EXCEPT !.shut = TRUE, !.armed = {}]

-----------------------------------------------------------------------------
(* The socket and the server behind it, one step each *)

Connects(p) == ~p.up /\ ~p.shut /\ p.end = "open"

Connected(p) == [p EXCEPT !.up = TRUE]

\* A refused connect, or a reset: the data that was received is gone.
Resettable(p) == p.end # "rst" /\ ~p.shut

WithReset(p) == [p EXCEPT !.up = TRUE, !.end = "rst", !.in = <<>>]

Greets(p) == p.tls = "sent" /\ p.end = "open" /\ ~p.shut

Greeted(p) == [p EXCEPT !.tls = "hello"]

Delivers(p) == p.out # <<>> /\ p.end # "rst"

Delivered(p) == [p EXCEPT !.out = Tail(@), !.heard = Append(@, Head(p.out))]

Serves(p) == p.heard # <<>> /\ p.end = "open" /\ ~p.shut

Served(p) == [p EXCEPT !.said = @ + 1, !.in = Append(@, p.said + 1)]

Finished(p) == [p EXCEPT !.end = "fin"]

\* What is no TLS record, or a fatal alert, may come in the handshake too.
Breakable(p) == p.up /\ p.end = "open" /\ ~p.shut

WithBadRecord(p) == [p EXCEPT !.end = "bad"]

\* What can still reach the server is stuck: the session holds data, the socket
\* has room, and nothing is armed that would report it.
Unflushed(p) == p.up /\ ~p.shut /\ p.session # <<>> /\ "w" \notin p.armed
=============================================================================
