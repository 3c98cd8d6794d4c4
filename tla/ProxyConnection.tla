-------------------------- MODULE ProxyConnection --------------------------
(***************************************************************************)
(* One TCP connection of the transparent proxy (proxy/tcp_server.rs), from *)
(* the moment its TLS connection to the trojan server is dialled by the    *)
(* idle pool (idle_pool.rs), through the accept that hands it to a client, *)
(* to the moment it is dropped, with the part of the event loop            *)
(* (proxy/mod.rs) that drives it.                                          *)
(*                                                                         *)
(* The client's payload is 1, 2, ..., behind the request that the proxy    *)
(* writes itself (Header); the server's payload is 1, 2, ....              *)
(***************************************************************************)
EXTENDS TlsConn

CONSTANT Settings  \* the worlds of this instance, see SettingType

\* Whether the idle timeout is short enough to expire, and the bounds: how many
\* chunks the client and the server send at most.
SettingType == [idle : BOOLEAN, up : Nat, down : Nat]

ASSUME SettingsAssumption == Settings \subseteq SettingType

VARIABLES
  setting,  \* the one of Settings this behaviour is about
  conn,     \* client, server_conn, read_client, read_server
  place,    \* where the TlsConn is: "pool", "conns", "out" once it was removed
            \* from there, "dropped" when no connection came of it
  arrived,  \* the client has connected to the listener
  sent,     \* chunks the client and the server have written so far
  got,      \* chunks the client and the server have received so far
  loop,     \* the event loop: "poll" or "events"
  batch,    \* events of the current poll that are not handled yet
  removed,  \* the connection is on TcpServer.removed
  expired   \* the connection was closed by check_timeout

vars == <<setting, conn, place, arrived, sent, got, loop, batch, removed, expired>>

Header == 0

-----------------------------------------------------------------------------
(* proxy/tcp_server.rs.  A handler is an operator on the Connection. *)

NewClient == [status |-> "Connecting", send_buffer |-> <<>>, stream |-> NewStream(TRUE)]

NewConnection ==
  [client |-> NewClient, server_conn |-> NewTlsConn("client"),
   read_client |-> FALSE, read_server |-> FALSE]

writable(client) == client.send_buffer = <<>> /\ alive(client.status)

\* try_read_client: everything the client's socket holds goes into the
\* session, which is flushed at once.
try_read_client(c) ==
  [c EXCEPT !.client = TcpDrained(@), !.read_client = FALSE,
            !.server_conn = tls_do_send(write_session(@, c.client.stream.in))]

\* A try_send_server that does not resume reading from the client.
try_send_server_no_resume(c) == [c EXCEPT !.server_conn = tls_do_send(@)]

try_send_server(c) ==
  LET s == [c EXCEPT !.server_conn = tls_do_send(@)]
  IN  IF tls_writable(s.server_conn) /\ s.read_client THEN try_read_client(s) ELSE s

\* Until the first writable event data for the client is only buffered.
BufferOrSend(b, buffer) ==
  IF b.status = "Connecting" THEN [b EXCEPT !.send_buffer = @ \o buffer]
  ELSE tcp_send(b, buffer)

\* try_send_client up to its test for a parked server.
SendClient(c, buffer) == [c EXCEPT !.client = BufferOrSend(@, buffer)]

\* try_read_server, with the test at the end of its try_send_client: by then
\* the socket is drained, so a parked read has nothing left to do.
try_read_server(c) ==
  LET buffer == tls_read_data(c.server_conn)
      read   == [c EXCEPT !.server_conn = tls_do_read(@)]
      passed == SendClient(read, buffer)
  IN  IF buffer = <<>> THEN read
      ELSE [passed EXCEPT !.read_server = @ /\ ~writable(passed.client)]

\* try_send_client(&[]): flush, then resume the parked server.
try_send_client(c) ==
  LET s == SendClient(c, <<>>)
  IN  IF writable(s.client) /\ s.read_server
      THEN [try_read_server(s) EXCEPT !.read_server = FALSE] ELSE s

ClientReadable(c) ==
  IF tls_writable(c.server_conn) THEN try_read_client(c) ELSE [c EXCEPT !.read_client = TRUE]

ClientWritable(c) == try_send_client([c EXCEPT !.client.status = established(@)])

ServerReadable(c) ==
  IF writable(c.client) THEN try_read_server(c) ELSE [c EXCEPT !.read_server = TRUE]

ServerWritable(c) == try_send_server([c EXCEPT !.server_conn.status = established(@)])

\* Only the server's end is told to the client.
PropagateClose_one_way(c) ==
  [c EXCEPT !.client.status = IF is_shutdown(c.server_conn.status) THEN peer_closed(@) ELSE @]

\* Each side learns that the other is shut down.
PropagateClose(c) ==
  [c EXCEPT
     !.server_conn.status = IF is_shutdown(c.client.status) THEN peer_closed(@) ELSE @,
     !.client.status = IF is_shutdown(c.server_conn.status) THEN peer_closed(@) ELSE @]

CheckBoth(c) ==
  [c EXCEPT !.client.status = check_status(@, c.client.send_buffer = <<>>),
            !.server_conn = tls_check_status(@)]

\* Connection::ready for each of its two channels.
ReadyClient(c, e) ==
  LET r == IF e.r THEN ClientReadable(c) ELSE c
      w == IF e.w THEN ClientWritable(r) ELSE r
  IN  CheckBoth(PropagateClose(w))

ReadyTcp(c, e) ==
  LET r == IF e.r THEN ServerReadable(c) ELSE c
      w == IF e.w THEN ServerWritable(r) ELSE r
  IN  CheckBoth(PropagateClose(w))

destroyed(c) == c.client.status = "Deregistered" /\ c.server_conn.status = "Deregistered"

destroy(c) ==
  CheckBoth([c EXCEPT !.client.status = shutdown(@), !.server_conn.status = shutdown(@)])

-----------------------------------------------------------------------------
(* idle_pool.rs for the connection that waits in the pool. *)

\* IdlePool::ready; what the server sends before a request is dropped.
PoolReady(p, e) ==
  LET r == IF e.r THEN tls_do_read(p) ELSE p
      w == IF e.w THEN tls_do_send(tls_established(r)) ELSE r
  IN  tls_check_status(w)

\* IdlePool::check_timeout reads, but sends nothing.
PoolChecked(p) == tls_check_status(tls_do_read(p))

-----------------------------------------------------------------------------
(* The event loop (proxy/mod.rs run) for this connection. *)

Init ==
  /\ setting \in Settings
  /\ conn = NewConnection
  /\ place = "pool" /\ arrived = FALSE
  /\ sent = [client |-> 0, server |-> 0]
  /\ got = [client |-> <<>>, server |-> <<>>]
  /\ loop = "poll" /\ batch = {} /\ removed = FALSE /\ expired = FALSE

Server == conn.server_conn
Client == conn.client

Gone == place \in {"out", "dropped"}

ListenEdge == arrived /\ place = "pool"

ServerEdge == ~Gone /\ Server.status # "Deregistered" /\ Server.stream.edge

ClientEdge == place = "conns" /\ Client.status # "Deregistered" /\ Client.stream.edge

Quiet == ~ListenEdge /\ ~ServerEdge /\ ~ClientEdge

\* The token of the TLS socket says where the connection was at the poll.
ServerEvent ==
  [ch |-> IF place = "pool" THEN "idle" ELSE "tcp",
   w |-> Writable(Server.stream), r |-> TlsReadable(Server)]

ClientEvent == [ch |-> "client", w |-> Writable(Client.stream), r |-> Readable(Client.stream)]

ListenEvent == [ch |-> "listen", w |-> FALSE, r |-> TRUE]

Poll ==
  /\ loop = "poll" /\ ~Quiet
  /\ loop' = "events"
  /\ batch' = (IF ServerEdge THEN {ServerEvent} ELSE {})
               \cup (IF ClientEdge THEN {ClientEvent} ELSE {})
               \cup (IF ListenEdge THEN {ListenEvent} ELSE {})
  /\ conn' = [conn EXCEPT
                !.server_conn.stream = IF ServerEdge THEN Reported(@) ELSE @,
                !.client.stream = IF ClientEdge THEN Reported(@) ELSE @]
  /\ UNCHANGED <<setting, place, arrived, sent, got, removed, expired>>

\* accept_once: the pool hands out the connection.  Re-registering it or
\* registering the client may fail, and then both are dropped.
Accept ==
  \E e \in batch :
    /\ loop = "events" /\ e.ch = "listen"
    /\ batch' = batch \ {e}
    /\ \/ /\ place = "pool" /\ place' = "conns"
          /\ conn' = [conn EXCEPT
                        !.server_conn = write_session(Reregistered(@), <<Header>>),
                        !.client.stream.edge = TRUE]
       \/ place = "pool" /\ place' = "dropped" /\ conn' = destroy(conn)
       \/ place # "pool" /\ UNCHANGED <<place, conn>>
    /\ UNCHANGED <<setting, arrived, sent, got, loop, removed, expired>>

\* pool.ready: an event for a token that is not in the pool any more is
\* ignored.
HandleIdle ==
  \E e \in batch :
    /\ loop = "events" /\ e.ch = "idle"
    /\ batch' = batch \ {e}
    /\ conn' = IF place = "pool" THEN [conn EXCEPT !.server_conn = PoolReady(@, e)] ELSE conn
    /\ place' = IF place = "pool" /\ conn'.server_conn.status = "Deregistered"
                THEN "dropped" ELSE place
    /\ UNCHANGED <<setting, arrived, sent, got, loop, removed, expired>>

\* TcpServer::ready: a connection found destroyed goes on the removed list.
Handled(e, c) ==
  /\ loop = "events"
  /\ batch' = batch \ {e}
  /\ conn' = c
  /\ removed' = (removed \/ destroyed(c))
  /\ UNCHANGED <<setting, place, arrived, sent, got, loop, expired>>

HandleTcp == \E e \in batch : e.ch = "tcp" /\ Handled(e, ReadyTcp(conn, e))

HandleClient == \E e \in batch : e.ch = "client" /\ Handled(e, ReadyClient(conn, e))

\* remove_closed after the whole batch.
EndBatch ==
  /\ loop = "events" /\ batch = {}
  /\ loop' = "poll"
  /\ place' = IF removed THEN "out" ELSE place
  /\ UNCHANGED <<setting, conn, arrived, sent, got, batch, removed, expired>>

\* check_timeout of TcpServer: no event for the idle time.
Timeout ==
  /\ setting.idle /\ loop = "poll" /\ place = "conns"
  /\ conn' = destroy(conn) /\ place' = "out" /\ expired' = TRUE
  /\ UNCHANGED <<setting, arrived, sent, got, loop, batch, removed>>

\* check_timeout of the pool, once a second, whatever the poll reports next.
PoolCheck ==
  /\ loop = "poll" /\ place = "pool" /\ PoolChecked(Server) # Server
  /\ conn' = [conn EXCEPT !.server_conn = PoolChecked(@)]
  /\ place' = IF conn'.server_conn.status = "Deregistered" THEN "dropped" ELSE place
  /\ UNCHANGED <<setting, arrived, sent, got, loop, batch, removed, expired>>

-----------------------------------------------------------------------------
(* The client and the trojan server: outside this program. *)

ClientArrive ==
  /\ ~arrived /\ place = "pool"
  /\ arrived' = TRUE
  /\ UNCHANGED <<setting, conn, place, sent, got, loop, batch, removed, expired>>

ClientOpen == arrived /\ ~Gone /\ Client.stream.end = "open" /\ ~is_shutdown(Client.status)

ClientSend ==
  /\ ClientOpen /\ sent.client < setting.up
  /\ conn' = [conn EXCEPT !.client.stream = Arrived(@, sent.client + 1)]
  /\ sent' = [sent EXCEPT !.client = @ + 1]
  /\ UNCHANGED <<setting, place, arrived, got, loop, batch, removed, expired>>

ClientEnd ==
  /\ ClientOpen
  /\ \E how \in {"fin", "rst"} : conn' = [conn EXCEPT !.client.stream = EndedBy(@, how)]
  /\ UNCHANGED <<setting, place, arrived, sent, got, loop, batch, removed, expired>>

ClientRecv ==
  /\ Client.stream.out # <<>> /\ Client.stream.end # "rst"
  /\ got' = [got EXCEPT !.client = Append(@, Head(Client.stream.out))]
  /\ conn' = [conn EXCEPT !.client.stream = Received(@)]
  /\ UNCHANGED <<setting, place, arrived, sent, loop, batch, removed, expired>>

ServerConnect ==
  /\ ~Server.stream.up /\ ~Gone
  /\ \E how \in {"open", "rst"} :
       conn' = [conn EXCEPT !.server_conn.stream = [@ EXCEPT !.up = TRUE, !.end = how, !.edge = TRUE]]
  /\ UNCHANGED <<setting, place, arrived, sent, got, loop, batch, removed, expired>>

ServerOpen ==
  Server.stream.up /\ ~Gone /\ Server.stream.end = "open" /\ ~is_shutdown(Server.status)

ServerHello ==
  /\ ServerOpen /\ Server.tls = "sent"
  /\ conn' = [conn EXCEPT !.server_conn.tls = "hello", !.server_conn.stream.edge = TRUE]
  /\ UNCHANGED <<setting, place, arrived, sent, got, loop, batch, removed, expired>>

\* The server answers only after a request.
ServerSend ==
  /\ ServerOpen /\ got.server # <<>>
  /\ sent.server < setting.down
  /\ conn' = [conn EXCEPT !.server_conn.stream = Arrived(@, sent.server + 1)]
  /\ sent' = [sent EXCEPT !.server = @ + 1]
  /\ UNCHANGED <<setting, place, arrived, got, loop, batch, removed, expired>>

ServerEnd ==
  /\ ServerOpen
  /\ \E how \in {"fin", "rst", "bad"} :
       conn' = [conn EXCEPT !.server_conn.stream = EndedBy(@, how)]
  /\ UNCHANGED <<setting, place, arrived, sent, got, loop, batch, removed, expired>>

ServerRecv ==
  /\ Server.stream.out # <<>> /\ Server.stream.end # "rst"
  /\ got' = [got EXCEPT !.server = Append(@, Head(Server.stream.out))]
  /\ conn' = [conn EXCEPT !.server_conn.stream = Received(@)]
  /\ UNCHANGED <<setting, place, arrived, sent, loop, batch, removed, expired>>

\* poll returns after a second without an event.
PollTimesOut == loop = "poll" /\ Quiet /\ UNCHANGED vars

Loop == Poll \/ Accept \/ HandleIdle \/ HandleTcp \/ HandleClient \/ EndBatch

Peers ==
  \/ ClientArrive \/ ClientSend \/ ClientEnd \/ ClientRecv
  \/ ServerConnect \/ ServerHello \/ ServerSend \/ ServerEnd \/ ServerRecv

Next == Loop \/ Timeout \/ PoolCheck \/ Peers \/ PollTimesOut

Spec == Init /\ [][Next]_vars

\* The loop is one thread that runs; poll returns when an edge is noted.
LoopFairness ==
  /\ WF_vars(Poll) /\ WF_vars(EndBatch)
  /\ WF_vars(Accept \/ HandleIdle \/ HandleTcp \/ HandleClient)

\* Peers that keep reading, and a server that answers dials and handshakes.
PeerFairness ==
  WF_vars(ClientRecv) /\ WF_vars(ServerRecv) /\ WF_vars(ServerConnect) /\ WF_vars(ServerHello)

LiveSpec == Spec /\ LoopFairness /\ PeerFairness

-----------------------------------------------------------------------------
(* Properties *)

Clients == [status : Statuses, send_buffer : Chunks, stream : Streams]

Connections ==
  [client : Clients, server_conn : TlsConns, read_client : BOOLEAN, read_server : BOOLEAN]

\* Every variable has its type, and no socket holds more than its buffer.
TypeOK ==
  /\ setting \in SettingType /\ conn \in Connections
  /\ Len(Client.stream.out) <= Cap /\ Len(Server.stream.out) <= Cap
  /\ place \in {"pool", "conns", "out", "dropped"} /\ arrived \in BOOLEAN
  /\ sent \in [client : Nat, server : Nat]
  /\ got \in [client : Chunks, server : Chunks]
  /\ loop \in {"poll", "events"}
  /\ batch \subseteq [ch : {"idle", "tcp", "client", "listen"}, r : BOOLEAN, w : BOOLEAN]
  /\ removed \in BOOLEAN /\ expired \in BOOLEAN

AtServer == got.server \o Server.stream.out

AtClient == got.client \o Client.stream.out

Request(n) == <<Header>> \o Count(n)

\* The server gets one request and behind it what the client sent, in order and
\* without gaps, whether the data overtakes the connect, the handshake or
\* neither; while the connection is up every chunk is in exactly one place.
RequestFirst ==
  /\ AtServer = SubSeq(Request(sent.client), 1, Len(AtServer))
  /\ place = "conns" /\ ~is_shutdown(Server.status) =>
       AtServer \o Server.session \o Server.plain \o Client.stream.in = Request(sent.client)

\* The same towards the client: delivered, in its socket, in send_buffer, or
\* unread in the server's socket.
DownstreamInOrder ==
  /\ Prefix(AtClient, sent.server)
  /\ ~is_shutdown(Client.status) /\ Server.stream.end # "bad" =>
       AtClient \o Client.send_buffer \o Server.stream.in = Count(sent.server)

\* Nothing is lost, doubled or overtaken in either direction, although the TLS
\* connection is older than the client and still in its handshake when it is
\* handed over.
NothingLost == RequestFirst /\ DownstreamInOrder

\* The server's side is shut down only because the client ended, and the other
\* way round.
ServerFollows ==
  /\ ~expired /\ place \in {"conns", "out"} /\ is_shutdown(Server.status)
  /\ Server.stream.end = "open" /\ Client.stream.end = "fin"

ClientFollows ==
  /\ ~expired /\ place \in {"conns", "out"} /\ is_shutdown(Client.status)
  /\ is_shutdown(Server.status)
  /\ Client.stream.end = "open" /\ Server.stream.end = "fin"

\* "peer is closed, sending remaining data": a side that is shut down only
\* because the other side ended has been given everything first.  The exception
\* is plaintext that waits for the end of the handshake, which check_status does
\* not see (finish_send is !wants_write()): then that plaintext is all that is
\* lost, and once the handshake is over nothing is.
RemainingDataSent ==
  /\ ServerFollows =>
       /\ AtServer \o Server.plain = Request(sent.client)
       /\ Server.tls = "up" => AtServer = Request(sent.client)
  /\ ClientFollows => AtClient = Count(sent.server)

\* The server's flight was read by a parked read that the client's first
\* writable event resumed: try_send_client reads and does not flush, so the
\* rest of the handshake and the request stay in the session.
Stalled == place = "conns" /\ Server.tls = "finish"

Ended == Server.stream.end # "open" \/ Client.stream.end # "open" \/ Gone

\* The server is told where to forward the stream of every accepted client,
\* unless one of the two ends the connection.
RequestArrives == place = "conns" ~> got.server # <<>> \/ Ended

\* A client that was accepted has its request and its data at the server, and
\* the server's answer, unless one of the two ends the connection or it stalls.
EverythingArrives ==
  \/ <>[]Stalled
  \/ /\ place = "conns" /\ Len(got.server) <= sent.client
           ~> Len(got.server) = sent.client + 1 \/ Ended
     /\ Len(got.client) < sent.server ~> Len(got.client) = sent.server \/ Ended

\* A connection one side of which has ended leaves the pool or the table
\* without the help of a timeout, as long as the peers keep reading.
ClosedIsRemoved ==
  Server.stream.end # "open" \/ (place = "conns" /\ Client.stream.end # "open") ~> Gone
=============================================================================
