-------------------------- MODULE ServerConnection --------------------------
(***************************************************************************)
(* One connection of the trojan server (server/connection.rs): the TLS     *)
(* side towards the client (tls_conn.rs), the TCP or UDP socket towards    *)
(* the target (tcp_backend.rs, udp_backend.rs, tcp_util.rs), the kernel    *)
(* sockets below both, and the part of the event loop (server/mod.rs,      *)
(* tls_server.rs) that drives this connection.                             *)
(*                                                                         *)
(* Data is counted in chunks: the client's payload is 1, 2, ..., after a   *)
(* request header (0), the target's payload is 1, 2, ....  A chunk is a    *)
(* TLS record's worth of plaintext; a UDP packet inside the tunnel is two  *)
(* consecutive chunks, so that a packet can be half received.              *)
(*                                                                         *)
(* Sockets are registered edge-triggered: the kernel notes an edge when a  *)
(* socket becomes ready, and Poll reports the noted edges once, each with  *)
(* the readiness the socket has at that moment.                            *)
(***************************************************************************)
EXTENDS TlsConn, FiniteSets

CONSTANTS
  Settings,   \* the worlds of this instance, see SettingType
  Malformed   \* chunks that cannot start a UDP packet

RequestKinds == {"addr", "domain", "udp", "none"}

\* What the client asks for, whether the idle timeout is short enough to expire,
\* and the bounds: how many chunks the client and the target send at most.
SettingType == [request : RequestKinds, idle : BOOLEAN, up : Nat, down : Nat]

ASSUME SettingsAssumption == Settings \subseteq SettingType

VARIABLES
  conn,     \* the Connection, with its sockets
  setting,  \* the one of Settings this behaviour is about
  sent,     \* chunks the client and the target have written so far
  got,      \* chunks the client and the target have received so far
  loop,     \* the event loop: "poll", "events" or "removed"
  batch,    \* events of the current poll that are not handled yet
  removed,  \* the connection is on TlsServer.removed
  expired   \* the connection was closed by check_timeout

vars == <<conn, setting, sent, got, loop, batch, removed, expired>>

request == setting.request
idle == setting.idle

Header == 0

-----------------------------------------------------------------------------
(* tcp_backend.rs, udp_backend.rs *)

NoBackend ==
  [kind |-> "none", status |-> "Connecting", send_buffer |-> <<>>,
   stream |-> NewStream(FALSE)]

NewTcpBackend ==
  [kind |-> "tcp", status |-> "Established", send_buffer |-> <<>>,
   stream |-> NewStream(FALSE)]

NewUdpBackend ==
  [kind |-> "udp", status |-> "Established", send_buffer |-> <<>>,
   stream |-> NewStream(TRUE)]

tcp_dispatch(b, buffer) == tcp_send(b, buffer)

\* The number of packets at the head of data that UdpAssociate::parse accepts.
Packets(data) ==
  Cardinality({n \in 1 .. Len(data) \div 2 :
                 \A i \in 1 .. n : data[2 * i - 1] \notin Malformed})

\* A UDP socket's buffer holds Cap packets, and no packet is sent in part.
udp_dispatch(b, buffer) ==
  LET data  == b.send_buffer \o buffer
      room  == (2 * Cap - Len(b.stream.out)) \div 2
      whole == Packets(data)
      n     == 2 * (IF whole <= room THEN whole ELSE room)
      rest  == Rest(data, n)
      fails == whole > 0 /\ b.stream.end = "rst"
  IN  CASE fails ->
             [b EXCEPT !.send_buffer = <<>>, !.status = shutdown(@)]
        [] ~fails /\ n = 2 * whole /\ rest # <<>> /\ rest[1] \in Malformed ->
             [b EXCEPT !.send_buffer = <<>>, !.status = shutdown(@),
                       !.stream.out = @ \o SubSeq(data, 1, n)]
        [] OTHER ->
             [b EXCEPT !.send_buffer = rest,
                       !.stream.out = @ \o SubSeq(data, 1, n),
                       !.stream.full = @ \/ n < 2 * whole]

backend_dispatch(b, buffer) ==
  CASE b.kind = "tcp" -> tcp_dispatch(b, buffer)
    [] b.kind = "udp" -> udp_dispatch(b, buffer)
    [] OTHER          -> b

\* UDP has no backpressure: only TCP stops the client when it is behind.
backend_writable(b) ==
  /\ alive(b.status)
  /\ b.kind = "tcp" => b.send_buffer = <<>>

\* A finish_send that does not look at the buffer.
finish_send_always(b) == TRUE

finish_send(b) ==
  CASE b.kind = "tcp" -> b.send_buffer = <<>>
    [] b.kind = "udp" -> Packets(b.send_buffer) = 0
    [] OTHER          -> TRUE

\* do_read of either backend: everything the socket holds goes into the TLS
\* session, which is flushed at once.  The end of the stream shuts the
\* backend down; so does a read after the backend's own shutdown.
backend_do_read(c) ==
  [c EXCEPT !.backend = TcpDrained(@),
            !.proxy = tls_do_send(write_session(@, c.backend.stream.in))]

backend_check_status(b) == [b EXCEPT !.status = check_status(@, finish_send(b))]

-----------------------------------------------------------------------------
(* server/connection.rs.  A handler is an operator on the Connection.  The *)
(* outcomes that are decided outside it are in o: o.cached, query_dns()    *)
(* finds the domain; o.setup, how creating the target's socket ends: "ok", *)
(* "connect" (connect() or bind() fails), "register" (Backend::new fails). *)

Outcomes == [cached : BOOLEAN, setup : {"ok", "connect", "register"}]

NewConnection ==
  [status |-> "HandShake", command |-> "CONNECT", sock5_addr |-> "None",
   target_addr |-> FALSE, data |-> <<>>, read_backend |-> FALSE,
   read_proxy |-> FALSE, dns |-> "none",
   proxy |-> NewTlsConn("server"), backend |-> NoBackend]

ShutdownProxy(c) == [c EXCEPT !.proxy.status = shutdown(@)]

\* TrojanRequest::parse on the first plaintext: what is requested, or "none"
\* when it does not start with a request.
ParsedRequest(buffer, req) == IF buffer[1] = Header THEN req ELSE "none"

\* Without a request the stream is passed through to back_addr.
try_handshake(c, buffer, o, req) ==
  LET kind == ParsedRequest(buffer, req)
  IN  [c EXCEPT
        !.status = "DnsWait",
        !.command = IF kind = "udp" THEN "UDP_ASSOCIATE" ELSE "CONNECT",
        !.sock5_addr = CASE kind = "domain" -> "Domain"
                         [] kind = "none"   -> "None"
                         [] OTHER           -> "Socket",
        !.target_addr = kind = "domain" => o.cached,
        !.dns = IF kind = "domain" /\ ~o.cached THEN "asked" ELSE @]

HandshakePayload(buffer) == IF buffer[1] = Header THEN Tail(buffer) ELSE buffer

\* The data cached during the DNS query is the first thing the target gets.
\* When registering the new socket fails the connection counts as forwarding
\* all the same, without a backend.
try_setup_tcp_target(c, o) ==
  CASE o.setup = "ok" ->
         [c EXCEPT !.status = "TCPForward", !.data = <<>>,
                   !.backend = tcp_dispatch(tcp_dispatch(NewTcpBackend, c.data), <<>>)]
    [] o.setup = "register" ->
         ShutdownProxy([c EXCEPT !.status = "TCPForward"])
    [] OTHER -> ShutdownProxy(c)

try_setup_udp_target(c, buffer, o) ==
  CASE o.setup = "ok" ->
         [c EXCEPT !.status = "UDPForward",
                   !.backend = udp_dispatch(NewUdpBackend, buffer)]
    [] o.setup = "register" ->
         ShutdownProxy([c EXCEPT !.status = "UDPForward"])
    [] OTHER -> ShutdownProxy(c)

\* A DnsWait that drops the data which arrives before the answer.
DispatchWaiting_drops(c, buffer, o) ==
  IF c.command = "CONNECT"
  THEN IF c.target_addr THEN try_setup_tcp_target([c EXCEPT !.data = @ \o buffer], o)
       ELSE c
  ELSE try_setup_udp_target(c, buffer, o)

DispatchWaiting(c, buffer, o) ==
  LET cached == [c EXCEPT !.data = @ \o buffer]
  IN  IF c.command = "CONNECT"
      THEN IF c.target_addr THEN try_setup_tcp_target(cached, o) ELSE cached
      ELSE try_setup_udp_target(c, buffer, o)

dispatch(c, buffer, o, req) ==
  CASE c.status = "HandShake" ->
         DispatchWaiting(try_handshake(c, buffer, o, req), HandshakePayload(buffer), o)
    [] c.status = "DnsWait" -> DispatchWaiting(c, buffer, o)
    [] OTHER -> [c EXCEPT !.backend = backend_dispatch(@, buffer)]

try_read_proxy(c, o, req) ==
  LET data == tls_read_data(c.proxy)
      read == [c EXCEPT !.proxy = tls_do_read(@)]
  IN  IF data = <<>> THEN read ELSE dispatch(read, data, o, req)

\* An answer without an address ends the connection.
try_resolve(c, ip, o) ==
  CASE c.status # "DnsWait" \/ c.sock5_addr # "Domain" -> c
    [] c.status = "DnsWait" /\ c.sock5_addr = "Domain" /\ ip = "fail" -> ShutdownProxy(c)
    [] OTHER -> DispatchWaiting([c EXCEPT !.target_addr = TRUE], <<>>, o)

\* A readable client is read only when the backend keeps up.
ProxyReadable(c, o, req) ==
  IF c.backend.kind = "none" \/ backend_writable(c.backend)
  THEN try_read_proxy(c, o, req)
  ELSE [c EXCEPT !.read_proxy = TRUE]

\* The client takes data again: flush, then resume the parked backend.
ProxyWritable(c) ==
  LET s == [c EXCEPT !.proxy = tls_do_send(tls_established(@))]
  IN  CASE tls_writable(s.proxy) /\ s.read_backend /\ s.backend.kind # "none" ->
             [backend_do_read(s) EXCEPT !.read_backend = FALSE]
        [] tls_writable(s.proxy) /\ s.read_backend /\ s.backend.kind = "none" ->
             [s EXCEPT !.read_backend = FALSE]
        [] OTHER -> s

\* A backend that is read no matter whether the client keeps up.
BackendReadable_eager(c) == backend_do_read(c)

BackendReadable(c) ==
  IF tls_writable(c.proxy) THEN backend_do_read(c) ELSE [c EXCEPT !.read_backend = TRUE]

\* A writable backend that does not resume reading from the client.
BackendWritable_no_resume(c, o, req) ==
  [c EXCEPT !.backend = backend_dispatch(@, <<>>)]

\* The target takes data again: flush, then resume the parked client.
BackendWritable(c, o, req) ==
  LET s == [c EXCEPT !.backend = backend_dispatch(@, <<>>)]
  IN  IF backend_writable(s.backend) /\ s.read_proxy
      THEN [try_read_proxy(s, o, req) EXCEPT !.read_proxy = FALSE]
      ELSE s

\* Only the proxy's end is told to the backend.
PropagateClose_one_way(c) ==
  IF c.backend.kind # "none" /\ is_shutdown(c.proxy.status)
  THEN [c EXCEPT !.backend.status = peer_closed(@)]
  ELSE c

\* Each side learns that the other is shut down.
PropagateClose(c) ==
  IF c.backend.kind = "none" THEN c
  ELSE [c EXCEPT
         !.backend.status = IF is_shutdown(c.proxy.status) THEN peer_closed(@) ELSE @,
         !.proxy.status = IF is_shutdown(c.backend.status) THEN peer_closed(@) ELSE @]

CheckBoth(c) ==
  [c EXCEPT !.proxy = tls_check_status(@),
            !.backend = IF @.kind = "none" THEN @ ELSE backend_check_status(@)]

\* Connection::ready for a network event.  Both branches of an event are
\* taken on the readiness it carries, which may be out of date by now.
ReadyProxy(c, e, o, req) ==
  LET r == IF e.r THEN ProxyReadable(c, o, req) ELSE c
      w == IF e.w THEN ProxyWritable(r) ELSE r
  IN  CheckBoth(PropagateClose(w))

ReadyBackend(c, e, o, req) ==
  LET r == IF e.r THEN BackendReadable(c) ELSE c
      w == IF e.w THEN BackendWritable(r, o, req) ELSE r
  IN  CheckBoth(PropagateClose(IF c.backend.kind = "none" THEN c ELSE w))

\* Connection::ready for the resolver's answer.
ReadyDns(c, ip, o) == CheckBoth(PropagateClose(try_resolve([c EXCEPT !.dns = "none"], ip, o)))

destroyed(c) ==
  /\ c.proxy.status = "Deregistered"
  /\ c.backend.kind # "none" => c.backend.status = "Deregistered"

destroy(c) ==
  LET s == [c EXCEPT !.proxy.status = shutdown(@),
                     !.backend.status = IF c.backend.kind = "none" THEN @ ELSE shutdown(@)]
  IN  CheckBoth(s)

-----------------------------------------------------------------------------
(* The event loop (server/mod.rs run, tls_server.rs) for this connection.  *)

Init ==
  /\ conn = NewConnection
  /\ setting \in Settings
  /\ sent = [client |-> 0, target |-> 0]
  /\ got = [client |-> <<>>, target |-> <<>>]
  /\ loop = "poll" /\ batch = {} /\ removed = FALSE /\ expired = FALSE

ProxyEdge == conn.proxy.status # "Deregistered" /\ conn.proxy.stream.edge

BackendEdge ==
  /\ conn.backend.kind # "none"
  /\ conn.backend.status # "Deregistered"
  /\ conn.backend.stream.edge

DnsReady == conn.dns \in {"hit", "fail"}

Quiet == ~ProxyEdge /\ ~BackendEdge /\ ~DnsReady

ProxyEvent ==
  [ch |-> "proxy", w |-> Writable(conn.proxy.stream),
   r |-> TlsReadable(conn.proxy)]

BackendEvent ==
  [ch |-> "backend", w |-> Writable(conn.backend.stream), r |-> Readable(conn.backend.stream)]

DnsEvent == [ch |-> "dns", w |-> FALSE, r |-> FALSE]

Poll ==
  /\ loop = "poll" /\ ~Quiet
  /\ loop' = "events"
  /\ batch' = (IF ProxyEdge THEN {ProxyEvent} ELSE {})
               \cup (IF BackendEdge THEN {BackendEvent} ELSE {})
               \cup (IF DnsReady THEN {DnsEvent} ELSE {})
  /\ conn' = [conn EXCEPT
                !.proxy.stream = IF ProxyEdge THEN Reported(@) ELSE @,
                !.backend.stream = IF BackendEdge THEN Reported(@) ELSE @]
  /\ UNCHANGED <<setting, sent, got, removed, expired>>

\* do_conn_event: a connection found destroyed is put on the removed list.
Handled(e, c) ==
  /\ loop = "events"
  /\ batch' = batch \ {e}
  /\ conn' = c
  /\ removed' = (removed \/ destroyed(c))
  /\ UNCHANGED <<setting, sent, got, loop, expired>>

HandleProxy ==
  \E e \in batch, o \in Outcomes :
    e.ch = "proxy" /\ Handled(e, ReadyProxy(conn, e, o, request))

HandleBackend ==
  \E e \in batch, o \in Outcomes :
    e.ch = "backend" /\ Handled(e, ReadyBackend(conn, e, o, request))

HandleDns ==
  \E e \in batch, o \in Outcomes :
    e.ch = "dns" /\ Handled(e, ReadyDns(conn, conn.dns, o))

\* remove_closed after the whole batch: whatever is on the list is dropped.
EndBatch ==
  /\ loop = "events" /\ batch = {}
  /\ loop' = IF removed THEN "removed" ELSE "poll"
  /\ UNCHANGED <<conn, setting, sent, got, batch, removed, expired>>

\* check_timeout, behind the batches: no event reached the connection for the
\* idle time, whatever the next poll is about to report.
Timeout ==
  /\ idle /\ loop = "poll"
  /\ conn' = destroy(conn)
  /\ loop' = "removed" /\ expired' = TRUE
  /\ UNCHANGED <<setting, sent, got, batch, removed>>

-----------------------------------------------------------------------------
(* The client, the target, the resolver: outside this program. *)

\* Payload chunks the client has handed to its socket.
Payload == IF request = "none" \/ sent.client = 0 THEN sent.client ELSE sent.client - 1

ClientHello ==
  /\ loop # "removed" /\ conn.proxy.tls = "start" /\ conn.proxy.stream.end = "open"
  /\ conn' = [conn EXCEPT !.proxy.tls = "hello", !.proxy.stream.edge = TRUE]
  /\ UNCHANGED <<setting, sent, got, loop, batch, removed, expired>>

ClientAnswered ==
  /\ conn.proxy.tls = "sent" /\ conn.proxy.stream.end # "rst"
  /\ conn' = [conn EXCEPT !.proxy.tls = "up"]
  /\ UNCHANGED <<setting, sent, got, loop, batch, removed, expired>>

ClientSend ==
  /\ conn.proxy.tls = "up" /\ conn.proxy.stream.end = "open"
  /\ ~is_shutdown(conn.proxy.status)
  /\ Payload < setting.up
  /\ conn' = [conn EXCEPT !.proxy.stream =
                Arrived(@, IF request = "none" THEN sent.client + 1 ELSE sent.client)]
  /\ sent' = [sent EXCEPT !.client = @ + 1]
  /\ UNCHANGED <<setting, got, loop, batch, removed, expired>>

ClientEnd ==
  /\ loop # "removed"
  /\ \E how \in {"fin", "rst", "bad"} :
       /\ \/ conn.proxy.stream.end = "open"
          \/ conn.proxy.stream.end = "fin" /\ how = "rst"
       /\ conn' = [conn EXCEPT !.proxy.stream = EndedBy(@, how)]
  /\ UNCHANGED <<setting, sent, got, loop, batch, removed, expired>>

ClientRecv ==
  /\ conn.proxy.stream.out # <<>> /\ conn.proxy.stream.end # "rst"
  /\ got' = [got EXCEPT !.client = Append(@, Head(conn.proxy.stream.out))]
  /\ conn' = [conn EXCEPT !.proxy.stream = Received(@)]
  /\ UNCHANGED <<setting, sent, loop, batch, removed, expired>>

TargetOpen ==
  /\ conn.backend.kind # "none" /\ conn.backend.stream.up
  /\ conn.backend.stream.end = "open" /\ ~is_shutdown(conn.backend.status)
  /\ loop # "removed"

TargetConnect ==
  /\ conn.backend.kind = "tcp" /\ ~conn.backend.stream.up /\ loop # "removed"
  /\ \E how \in {"open", "rst"} :
       conn' = [conn EXCEPT !.backend.stream = [@ EXCEPT !.up = TRUE, !.end = how, !.edge = TRUE]]
  /\ UNCHANGED <<setting, sent, got, loop, batch, removed, expired>>

TargetSend ==
  /\ TargetOpen
  /\ sent.target < setting.down
  /\ conn' = [conn EXCEPT !.backend.stream = Arrived(@, sent.target + 1)]
  /\ sent' = [sent EXCEPT !.target = @ + 1]
  /\ UNCHANGED <<setting, got, loop, batch, removed, expired>>

\* A UDP socket has no end of stream, only errors.
TargetEnd ==
  /\ TargetOpen
  /\ \E how \in IF conn.backend.kind = "tcp" THEN {"fin", "rst"} ELSE {"rst"} :
       conn' = [conn EXCEPT !.backend.stream = EndedBy(@, how)]
  /\ UNCHANGED <<setting, sent, got, loop, batch, removed, expired>>

TargetRecv ==
  /\ conn.backend.stream.out # <<>> /\ conn.backend.stream.end # "rst"
  /\ got' = [got EXCEPT !.target = Append(@, Head(conn.backend.stream.out))]
  /\ conn' = [conn EXCEPT !.backend.stream = Received(@)]
  /\ UNCHANGED <<setting, sent, loop, batch, removed, expired>>

DnsAnswer ==
  /\ conn.dns = "asked" /\ loop # "removed"
  /\ \E ip \in {"hit", "fail"} : conn' = [conn EXCEPT !.dns = ip]
  /\ UNCHANGED <<setting, sent, got, loop, batch, removed, expired>>

Finished == loop = "removed" /\ UNCHANGED vars

\* poll returns after a second without an event.
PollTimesOut == loop = "poll" /\ Quiet /\ UNCHANGED vars

Server == Poll \/ HandleProxy \/ HandleBackend \/ HandleDns \/ EndBatch

Peers ==
  \/ ClientHello \/ ClientAnswered \/ ClientSend \/ ClientEnd \/ ClientRecv
  \/ TargetConnect \/ TargetSend \/ TargetEnd \/ TargetRecv \/ DnsAnswer

Next == Server \/ Timeout \/ Peers \/ PollTimesOut \/ Finished

Spec == Init /\ [][Next]_vars

\* Weak fairness of the loop is the scheduler running the only thread: poll
\* returns when an edge is noted and the for loop handles every event.
ServerFairness ==
  WF_vars(Poll) /\ WF_vars(HandleProxy \/ HandleBackend \/ HandleDns) /\ WF_vars(EndBatch)

\* Where the idle timeout does not expire the peers keep reading, and the
\* network answers a connect and a query.
PeerFairness ==
  /\ WF_vars(~idle /\ ClientRecv) /\ WF_vars(~idle /\ TargetRecv)
  /\ WF_vars(~idle /\ TargetConnect) /\ WF_vars(~idle /\ DnsAnswer)

\* Where it does, they may stop for ever; poll's one-second timeout is the
\* timer.
LiveSpec == Spec /\ ServerFairness /\ PeerFairness /\ WF_vars(Timeout)

-----------------------------------------------------------------------------
(* Properties *)

Backends ==
  [kind : {"none", "tcp", "udp"}, status : Statuses, send_buffer : Chunks, stream : Streams]

Connections ==
  [status : {"HandShake", "DnsWait", "TCPForward", "UDPForward"},
   command : {"CONNECT", "UDP_ASSOCIATE"}, sock5_addr : {"Domain", "Socket", "None"},
   target_addr : BOOLEAN, data : Chunks, read_backend : BOOLEAN, read_proxy : BOOLEAN,
   dns : {"none", "asked", "hit", "fail"}, proxy : TlsConns, backend : Backends]

Events == [ch : {"proxy", "backend", "dns"}, r : BOOLEAN, w : BOOLEAN]

\* Every variable has its type, and no socket holds more than its buffer.
TypeOK ==
  /\ conn \in Connections
  /\ Len(conn.proxy.stream.out) <= Cap
  /\ Len(conn.backend.stream.out) <= IF conn.backend.kind = "udp" THEN 2 * Cap ELSE Cap
  /\ setting \in SettingType
  /\ sent \in [client : Nat, target : Nat]
  /\ got \in [client : Chunks, target : Chunks]
  /\ loop \in {"poll", "events", "removed"}
  /\ batch \subseteq Events
  /\ removed \in BOOLEAN /\ expired \in BOOLEAN

NoHeader(s) == IF s # <<>> /\ Head(s) = Header THEN Tail(s) ELSE s

AtTarget == got.target \o conn.backend.stream.out

AtClient == got.client \o conn.proxy.stream.out

\* The way from the client to the target is open.
UpstreamOpen ==
  IF conn.backend.kind = "none" THEN ~is_shutdown(conn.proxy.status)
  ELSE alive(conn.backend.status) /\ conn.proxy.stream.end # "bad"

\* While the way to the target is open, every chunk the client sent is in
\* exactly one place, in order: delivered, in the target's socket, in
\* send_buffer, in the DnsWait cache, or unread in the client's socket.  What
\* the target gets is a prefix of what the client sent even when it is not.
UpstreamInOrder ==
  /\ Prefix(AtTarget, Payload)
  /\ UpstreamOpen =>
       AtTarget \o conn.backend.send_buffer \o conn.data
         \o NoHeader(conn.proxy.stream.in) = Count(Payload)

\* The same towards the client: delivered, in the client's socket, in the TLS
\* session or unread in the target's socket.
DownstreamInOrder ==
  /\ Prefix(AtClient, sent.target)
  /\ ~is_shutdown(conn.proxy.status) =>
       AtClient \o conn.proxy.session \o conn.backend.stream.in = Count(sent.target)

\* Nothing is lost, doubled or overtaken in either direction, in every order
\* of readiness, parking, resuming and address lookup.
NothingLost == UpstreamInOrder /\ DownstreamInOrder

\* "peer is closed, sending remaining data": a side that is shut down only
\* because the other side ended has been given everything first, and only a
\* connection with both sides closed leaves the table.  (But for a domain: an
\* answer in the batch in which the client ends revives what is to be removed.)
RemainingDataSent ==
  /\ loop = "removed" /\ request # "domain" => destroyed(conn)
  /\ ~expired /\ conn.backend.kind = "tcp" =>
       /\ (/\ is_shutdown(conn.backend.status)
           /\ conn.backend.stream.end = "open" /\ conn.proxy.stream.end = "fin")
            => AtTarget = Count(Payload)
       /\ (/\ is_shutdown(conn.proxy.status) /\ is_shutdown(conn.backend.status)
           /\ conn.proxy.stream.end = "open" /\ conn.backend.stream.end = "fin")
            => AtClient = Count(sent.target)

\* Steps that take data out of the socket of the one or the other.
ReadsTarget == Len(conn'.backend.stream.in) < Len(conn.backend.stream.in)

ReadsClient == Len(conn'.proxy.stream.in) < Len(conn.proxy.stream.in)

\* Whoever is slow, the server stops reading the other side: it reads the
\* target only in a step that has put all the session holds for the client into
\* the client's socket, and the client only in one that has put all of
\* send_buffer into the target's.  How much one such read takes is not bounded,
\* by the code or here.  (Not before the target is known, and not towards a UDP
\* target: both caches grow with what the client sends.)
Backpressure ==
  [][/\ ReadsTarget => Len(AtClient') >= Len(AtClient) + Len(conn.proxy.session)
     /\ conn.backend.kind = "tcp" /\ ReadsClient =>
          Len(AtTarget') >= Len(AtTarget) + Len(conn.backend.send_buffer)]_vars

Ended ==
  \/ conn.proxy.stream.end # "open" \/ conn.backend.stream.end # "open"
  \/ is_shutdown(conn.proxy.status)

\* Without an end, a failure or a timeout everything arrives: no interleaving
\* of readiness, parking and resuming leaves a chunk behind.
EverythingArrives ==
  /\ ~idle /\ Len(got.target) < Payload ~> Len(got.target) = Payload \/ Ended
  /\ ~idle /\ Len(got.client) < sent.target ~> Len(got.client) = sent.target \/ Ended

\* A connection one side of which has ended is taken down and removed: without
\* the help of the idle timeout when the peers keep reading, and by the idle
\* timeout when they do not.
ClosedIsRemoved == Ended ~> loop = "removed"
=============================================================================
