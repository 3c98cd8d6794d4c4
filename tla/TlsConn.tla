------------------------------- MODULE TlsConn -------------------------------
(***************************************************************************)
(* tls_conn.rs: a TLS session of rustls on top of a socket, on the         *)
(* server's side or on the client's.  session is what rustls holds for the *)
(* socket (sendable_tls) and plain is plaintext that waits for the end of  *)
(* the handshake (sendable_plaintext), which wants_write() does not count; *)
(* set_buffer_limit(None) leaves both unbounded, so write_session never    *)
(* fails.  tls follows the handshake:                                      *)
(*                                                                         *)
(*   server  "start", then "hello" (the client's flight is in the socket), *)
(*           "answer" (the own flight is in the session), "sent", "up"     *)
(*   client  "answer" (the own flight is in the session), "sent", "hello"  *)
(*           (the server's is in the socket), "finish", "up"               *)
(*                                                                         *)
(* Also tcp_util.rs, which moves data between a TLS session and a plain    *)
(* TCP socket: a record with at least status, send_buffer and stream.      *)
(***************************************************************************)
EXTENDS ConnStatus, KernelSocket

TlsConns ==
  [status : Statuses, writable : BOOLEAN, session : Chunks, plain : Chunks,
   side : {"server", "client"}, tls : {"start", "hello", "answer", "sent", "finish", "up"},
   stream : Streams]

\* The server gets an accepted socket, the client one that is connecting.
NewTlsConn(side) ==
  [status |-> "Connecting", writable |-> TRUE, session |-> <<>>, plain |-> <<>>,
   side |-> side, tls |-> IF side = "server" THEN "start" ELSE "answer",
   stream |-> NewStream(side = "server")]

tls_writable(p) == p.writable /\ alive(p.status)

wants_write(p) == p.session # <<>> \/ p.tls \in {"answer", "finish"}

\* The socket's readiness to read: a handshake flight is readable although it
\* is no plaintext.
TlsReadable(p) == Readable(p.stream) \/ (p.stream.up /\ p.tls = "hello")

write_session(p, data) ==
  IF p.side = "server" \/ p.tls \in {"finish", "up"}
  THEN [p EXCEPT !.session = @ \o data]
  ELSE [p EXCEPT !.plain = @ \o data]

\* Reads until the socket would block or ends.  What was decrypted before
\* the end of the stream is still returned, but not what precedes a bad
\* record in the same call.  Reading the peer's flight ends the client's
\* handshake, and the plaintext that waited for it is encrypted.
tls_do_read(p) ==
  LET done == p.tls = "hello" /\ p.side = "client"
  IN  [p EXCEPT !.stream.in = <<>>,
                !.tls = IF @ = "hello" THEN (IF done THEN "finish" ELSE "answer") ELSE @,
                !.session = IF done THEN @ \o p.plain ELSE @,
                !.plain = IF done THEN <<>> ELSE @,
                !.status = IF p.stream.end # "open" THEN shutdown(@) ELSE @]

tls_read_data(p) == IF p.stream.end = "bad" THEN <<>> ELSE p.stream.in

Flushed(tls) ==
  CASE tls = "answer" -> "sent"
    [] tls = "finish" -> "up"
    [] OTHER          -> tls

\* A do_send that gives up the rest of the session when the socket is full.
tls_do_send_drops(p) ==
  LET n == Taken(p.stream, p.session)
  IN  IF p.status = "Connecting" THEN p
      ELSE [p EXCEPT !.writable = TRUE, !.session = <<>>, !.tls = Flushed(@),
                     !.stream = WriteSome(@, p.session, n)]

tls_do_send(p) ==
  LET n == Taken(p.stream, p.session)
  IN  CASE p.status = "Connecting" -> p
        [] p.status # "Connecting" /\ ~wants_write(p) -> [p EXCEPT !.writable = TRUE]
        [] p.status # "Connecting" /\ wants_write(p)
             /\ (is_shutdown(p.status) \/ p.stream.end = "rst") ->
             [p EXCEPT !.writable = TRUE, !.status = shutdown(@)]
        [] OTHER ->
             [p EXCEPT !.writable = p.stream.up /\ n = Len(p.session),
                       !.session = Rest(@, n),
                       !.tls = IF p.stream.up THEN Flushed(@) ELSE @,
                       !.stream = WriteSome(@, p.session, n)]

\* reset_index: epoll_ctl(MOD) reports readiness again, under the new token.
Reregistered(p) == [p EXCEPT !.stream.edge = Writable(p.stream) \/ TlsReadable(p)]

tls_established(p) == [p EXCEPT !.status = established(@)]

tls_check_status(p) == [p EXCEPT !.status = check_status(@, ~wants_write(p))]

-----------------------------------------------------------------------------
(* tcp_util.rs *)

\* Old data first: what is buffered and the new data are written in order
\* until the socket would block, and the rest is buffered.  A failed write
\* loses what was taken out of the buffer, and its caller shuts b down.
tcp_send(b, buffer) ==
  LET data == b.send_buffer \o buffer
      n == Taken(b.stream, data)
  IN  IF data # <<>> /\ (is_shutdown(b.status) \/ b.stream.end = "rst")
      THEN [b EXCEPT !.send_buffer = <<>>, !.status = shutdown(@)]
      ELSE [b EXCEPT !.send_buffer = Rest(data, n),
                     !.stream = WriteSome(@, data, n)]

\* tcp_read for the side that is read: everything the socket holds is taken,
\* and the end of the stream makes the caller shut it down.
TcpDrained(b) ==
  [b EXCEPT !.stream.in = <<>>,
            !.status = IF b.stream.end # "open" THEN shutdown(@) ELSE @]
=============================================================================
