------------------------------ MODULE ProxyUdp ------------------------------
(***************************************************************************)
(* The UDP half of the transparent proxy: UdpServer and its connections    *)
(* (proxy/udp_server.rs), one per source address, and the cache of reply   *)
(* sockets they share (proxy/udp_cache.rs), with the part of the event     *)
(* loop (proxy/mod.rs) that drives them.                                   *)
(*                                                                         *)
(* Clients' datagrams are numbered 1, 2, ... across all sources; framed    *)
(* for the trojan server a datagram is one chunk, behind the request       *)
(* (Header) of its connection.  The server's packet p is the two chunks    *)
(* 2p - 1 and 2p, so that a packet can be half received.                   *)
(***************************************************************************)
EXTENDS TlsConn, FiniteSetsExt, SequencesExt

CONSTANTS
  Sources,    \* source addresses of clients
  Addresses,  \* addresses of targets
  MaxDatagrams,  \* bound of the datagrams
  Settings    \* the worlds of this instance, see SettingOK

Bad == "bad"  \* the address of a packet that parse() refuses

\* datagrams: what clients send, in this order; replies: the address that each
\* packet of the server is from; pooled: whether the pool hands out connections
\* that are still connecting or ready ones.
SettingOK(s) ==
  /\ DOMAIN s = {"datagrams", "replies", "pooled"}
  /\ s.datagrams \in Seq([src : Sources, dst : Addresses]) /\ Len(s.datagrams) <= MaxDatagrams
  /\ s.replies \in Seq(Addresses \cup {Bad})
  /\ s.pooled \in {"connecting", "ready"}

ASSUME BoundAssumption == MaxDatagrams \in Nat
ASSUME SettingsAssumption == \A s \in Settings : SettingOK(s)

VARIABLES
  setting,  \* the one of Settings this behaviour is about
  conns,    \* UdpServer.conns: index -> Connection
  src_map,  \* UdpServer.src_map: source -> index of its Connection
  next_id,  \* UdpServer.next_id
  removed,  \* UdpServer.removed
  cache,    \* UdpSvrCache.conns: the addresses that have a socket
  posted,   \* datagrams sent by clients so far
  queue,    \* those in the listener's socket
  knock,    \* the listener has an edge that poll has not reported
  loop,     \* the event loop: "poll" or "events"
  batch     \* events of the current poll that are not handled yet

vars == <<setting, conns, src_map, next_id, removed, cache, posted, queue, knock, loop, batch>>

MIN_INDEX == 2

Header == 0

Datagram(k) == setting.datagrams[k]

Reply(p) == setting.replies[p]

-----------------------------------------------------------------------------
(* Connection.  A handler is an operator on the Connection; those that may  *)
(* ask the cache for a socket work on a pair [c, cache].                    *)

PooledConn ==
  IF setting.pooled = "connecting" THEN NewTlsConn("client")
  ELSE [NewTlsConn("client") EXCEPT !.status = "Established", !.tls = "up",
                                    !.stream = NewStream(TRUE)]

\* Connection::new and setup: the request is the first thing in the session.
\* taken, got, sent and told are history: datagrams written for the server,
\* what it has received, chunks it has sent, replies passed to the client.
NewConnection(src, dst) ==
  [src |-> src, status |-> "Established", send_buffer |-> <<>>,
   server_conn |-> write_session(Reregistered(PooledConn), <<Header>>),
   socket |-> dst, dst_addr |-> dst, stale |-> FALSE,
   taken |-> <<>>, got |-> <<>>, sent |-> 0, told |-> <<>>]

destroyed(c) == c.status = "Deregistered" /\ c.server_conn.status = "Deregistered"

\* A do_status that does not tell the client's side of the server's end.
do_status_one_way(c) ==
  LET s == [c EXCEPT !.server_conn.status = IF is_shutdown(c.status) THEN peer_closed(@) ELSE @]
  IN  [s EXCEPT !.status = check_status(@, s.send_buffer = <<>>),
                !.server_conn = tls_check_status(@)]

do_status(c) ==
  LET s == [c EXCEPT
             !.server_conn.status = IF is_shutdown(c.status) THEN peer_closed(@) ELSE @,
             !.status = IF is_shutdown(c.server_conn.status) THEN peer_closed(@) ELSE @]
  IN  [s EXCEPT !.status = check_status(@, s.send_buffer = <<>>),
                !.server_conn = tls_check_status(@)]

\* A send_request that keeps a datagram although the server does not keep up,
\* and writes it past the session.
send_request_overtakes(c, k) ==
  do_status([c EXCEPT !.server_conn = tls_do_send([@ EXCEPT !.session = <<k>> \o @]),
                      !.taken = Append(@, k)])

\* After 120 seconds without an event of the server the datagram only closes
\* the connection; a datagram that comes too fast is dropped.
send_request(c, k) ==
  CASE c.stale -> do_status([c EXCEPT !.status = shutdown(@)])
    [] ~c.stale /\ c.server_conn.status # "Connecting" /\ ~tls_writable(c.server_conn) -> c
    [] OTHER -> do_status([c EXCEPT !.server_conn = tls_do_send(write_session(@, <<k>>)),
                                    !.taken = Append(@, k)])

\* What is decided outside: the addresses for which no new socket can be bound,
\* and whether sending to the client fails.
Outcomes == [refused : SUBSET Addresses, unsent : BOOLEAN]

\* A do_send_udp that changes the socket and forgets which address it is for.
do_send_udp_forgets(s, p, o) ==
  LET a    == Reply(p)
      has  == a \in s.cache \/ a \notin o.refused
      sock == IF s.c.dst_addr = a THEN s.c.socket ELSE a
  IN  IF s.c.dst_addr # a /\ ~has THEN s
      ELSE [c |-> [s.c EXCEPT !.socket = sock,
                    !.told = IF o.unsent THEN @ ELSE Append(@, [from |-> sock, packet |-> p])],
            cache |-> s.cache \cup {sock}]

\* The reply is sent from a socket bound to the address the packet is from.
do_send_udp(s, p, o) ==
  LET a    == Reply(p)
      has  == a \in s.cache \/ a \notin o.refused
      sock == IF s.c.dst_addr = a THEN s.c.socket ELSE a
  IN  IF s.c.dst_addr # a /\ ~has THEN s
      ELSE [c |-> [s.c EXCEPT !.socket = sock, !.dst_addr = a,
                    !.told = IF o.unsent THEN @ ELSE Append(@, [from |-> sock, packet |-> p])],
            cache |-> IF s.c.dst_addr = a THEN s.cache ELSE s.cache \cup {a}]

PacketOf(chunk) == (chunk + 1) \div 2

\* The packets at the head of data that are complete and well-formed.
Packets(data) ==
  LET n == Max({m \in 0 .. Len(data) \div 2 :
                  \A i \in 1 .. m : Reply(PacketOf(data[2 * i])) # Bad})
  IN  [i \in 1 .. n |-> PacketOf(data[2 * i])]

\* try_send_client and do_send_client: the rest of an incomplete packet is
\* kept for the next read, an invalid one ends the server's connection.
do_send_client(s, buffer, o) ==
  LET data == s.c.send_buffer \o buffer
      ps   == Packets(data)
      rest == Rest(data, 2 * Len(ps))
      bad  == rest # <<>> /\ Reply(PacketOf(Head(rest))) = Bad
      done == FoldLeft(LAMBDA t, p : do_send_udp(t, p, o), s, ps)
  IN  [done EXCEPT !.c.send_buffer = IF bad THEN <<>> ELSE rest,
                   !.c.server_conn.status = IF bad THEN shutdown(@) ELSE @]

try_read_server(s, o) ==
  LET buffer == tls_read_data(s.c.server_conn)
      read   == [s EXCEPT !.c.server_conn = tls_do_read(@)]
  IN  IF buffer = <<>> THEN read ELSE do_send_client(read, buffer, o)

\* Connection::ready
ConnReady(s, e, o) ==
  LET a == [s EXCEPT !.c.stale = FALSE]
      r == IF e.r THEN try_read_server(a, o) ELSE a
      w == IF e.w THEN [r EXCEPT !.c.server_conn = tls_do_send(tls_established(@))] ELSE r
  IN  [w EXCEPT !.c = do_status(@)]

-----------------------------------------------------------------------------
(* UdpServer, UdpSvrCache and the event loop. *)

Init ==
  /\ setting \in Settings
  /\ conns = [i \in {} |-> {}] /\ src_map = [s \in {} |-> 0]
  /\ next_id = MIN_INDEX /\ removed = {} /\ cache = {}
  /\ posted = 0 /\ queue = <<>> /\ knock = FALSE
  /\ loop = "poll" /\ batch = {}

ConnEdge(i) ==
  conns[i].server_conn.status # "Deregistered" /\ conns[i].server_conn.stream.edge

Quiet == ~knock /\ \A i \in DOMAIN conns : ~ConnEdge(i)

ConnEvent(i) ==
  [index |-> i, w |-> Writable(conns[i].server_conn.stream), r |-> TlsReadable(conns[i].server_conn)]

ListenEvent == [index |-> 0, w |-> FALSE, r |-> TRUE]

Poll ==
  /\ loop = "poll" /\ ~Quiet
  /\ loop' = "events"
  /\ batch' = {ConnEvent(i) : i \in {j \in DOMAIN conns : ConnEdge(j)}}
                \cup (IF knock THEN {ListenEvent} ELSE {})
  /\ knock' = FALSE
  /\ conns' = [i \in DOMAIN conns |->
                 [conns[i] EXCEPT !.server_conn.stream = IF ConnEdge(i) THEN Reported(@) ELSE @]]
  /\ UNCHANGED <<setting, src_map, next_id, removed, cache, posted, queue>>

\* A connection that was handed a datagram or an event, and is on the removed
\* list when that destroyed it.
Put(i, c) ==
  /\ conns' = [j \in DOMAIN conns \cup {i} |-> IF j = i THEN c ELSE conns[j]]
  /\ removed' = IF destroyed(c) THEN removed \cup {i} ELSE removed

\* accept_once for a source that has a connection.
AcceptKnown ==
  /\ ListenEvent \in batch /\ queue # <<>>
  /\ LET k == Head(queue)
     IN  /\ Datagram(k).src \in DOMAIN src_map
         /\ LET i == src_map[Datagram(k).src] IN Put(i, send_request(conns[i], k))
  /\ queue' = Tail(queue)
  /\ UNCHANGED <<setting, src_map, next_id, cache, posted, knock, loop, batch>>

\* accept_once for a new source: a connection of the pool, a reply socket, an
\* index and the first datagram.
AcceptNew ==
  /\ ListenEvent \in batch /\ queue # <<>>
  /\ LET k   == Head(queue)
         src == Datagram(k).src
         dst == Datagram(k).dst
     IN  /\ src \notin DOMAIN src_map
         /\ Put(next_id, send_request(NewConnection(src, dst), k))
         /\ src_map' = [s \in DOMAIN src_map \cup {src} |-> IF s = src THEN next_id ELSE src_map[s]]
         /\ cache' = cache \cup {dst}
  /\ next_id' = next_id + 1
  /\ queue' = Tail(queue)
  /\ UNCHANGED <<setting, posted, knock, loop, batch>>

\* The pool is empty or no socket can be bound, and nothing is left behind; or
\* re-registering fails, after an index and a socket were taken.
AcceptFails ==
  /\ ListenEvent \in batch /\ queue # <<>>
  /\ Datagram(Head(queue)).src \notin DOMAIN src_map
  /\ \/ UNCHANGED <<next_id, cache>>
     \/ next_id' = next_id + 1 /\ cache' = cache \cup {Datagram(Head(queue)).dst}
  /\ queue' = Tail(queue)
  /\ UNCHANGED <<setting, conns, src_map, removed, posted, knock, loop, batch>>

\* An accept that takes one datagram per event.
Accepted_one == TRUE

\* accept() goes on until the listener would block.
Accepted == queue = <<>>

AcceptDone ==
  /\ ListenEvent \in batch /\ Accepted
  /\ batch' = batch \ {ListenEvent}
  /\ UNCHANGED <<setting, conns, src_map, next_id, removed, cache, posted, queue, knock, loop>>

HandleConn(i) ==
  \E e \in batch, o \in Outcomes :
    /\ e.index = i
    /\ LET s == ConnReady([c |-> conns[i], cache |-> cache], e, o)
       IN  Put(i, s.c) /\ cache' = s.cache
    /\ batch' = batch \ {e}
    /\ UNCHANGED <<setting, src_map, next_id, posted, queue, knock, loop>>

RemainingSources == {s \in DOMAIN src_map : src_map[s] \notin removed}

\* remove_closed after the whole batch.
EndBatch ==
  /\ loop = "events" /\ batch = {}
  /\ loop' = "poll" /\ removed' = {}
  /\ conns' = [i \in DOMAIN conns \ removed |-> conns[i]]
  /\ src_map' = [s \in RemainingSources |-> src_map[s]]
  /\ UNCHANGED <<setting, next_id, cache, posted, queue, knock, batch>>

\* Rc::strong_count is 1: only the cache holds the socket.
Unused == {a \in cache : \A i \in DOMAIN conns : conns[i].socket # a}

\* UdpSvrCache::check_timeout, once a second.
CheckCache ==
  /\ loop = "poll" /\ Unused # {}
  /\ cache' = cache \ Unused
  /\ UNCHANGED <<setting, conns, src_map, next_id, removed, posted, queue, knock, loop, batch>>

-----------------------------------------------------------------------------
(* Clients, the trojan server and the clock: outside this program. *)

Post ==
  /\ posted < Len(setting.datagrams)
  /\ posted' = posted + 1
  /\ queue' = Append(queue, posted + 1)
  /\ knock' = TRUE
  /\ UNCHANGED <<setting, conns, src_map, next_id, removed, cache, loop, batch>>

\* More than 120 seconds pass without an event of connection i.
Age(i) ==
  /\ i \in DOMAIN conns /\ loop = "poll" /\ ~conns[i].stale
  /\ conns' = [conns EXCEPT ![i].stale = TRUE]
  /\ UNCHANGED <<setting, src_map, next_id, removed, cache, posted, queue, knock, loop, batch>>

Stream(i) == conns[i].server_conn.stream

ServerDoes(i, c) ==
  /\ conns' = [conns EXCEPT ![i] = c]
  /\ UNCHANGED <<setting, src_map, next_id, removed, cache, posted, queue, knock, loop, batch>>

ServerConnect(i) ==
  /\ i \in DOMAIN conns /\ ~Stream(i).up
  /\ \E how \in {"open", "rst"} :
       ServerDoes(i, [conns[i] EXCEPT
         !.server_conn.stream = [@ EXCEPT !.up = TRUE, !.end = how, !.edge = TRUE]])

ServerOpen(i) ==
  /\ i \in DOMAIN conns /\ Stream(i).up /\ Stream(i).end = "open"
  /\ ~is_shutdown(conns[i].server_conn.status)

ServerHello(i) ==
  /\ ServerOpen(i) /\ conns[i].server_conn.tls = "sent"
  /\ ServerDoes(i, [conns[i] EXCEPT !.server_conn.tls = "hello", !.server_conn.stream.edge = TRUE])

\* The server answers only after a datagram.
ServerSend(i) ==
  /\ ServerOpen(i) /\ Len(conns[i].got) > 1
  /\ conns[i].sent < 2 * Len(setting.replies)
  /\ ServerDoes(i, [conns[i] EXCEPT !.server_conn.stream = Arrived(@, conns[i].sent + 1),
                                    !.sent = @ + 1])

ServerEnd(i) ==
  /\ ServerOpen(i)
  /\ \E how \in {"fin", "rst", "bad"} :
       ServerDoes(i, [conns[i] EXCEPT !.server_conn.stream = EndedBy(@, how)])

ServerRecv(i) ==
  /\ i \in DOMAIN conns /\ Stream(i).out # <<>> /\ Stream(i).end # "rst"
  /\ ServerDoes(i, [conns[i] EXCEPT !.server_conn.stream = Received(@),
                                    !.got = Append(@, Head(Stream(i).out))])

Indexes == MIN_INDEX .. MIN_INDEX + MaxDatagrams - 1

\* poll returns after a second without an event.
PollTimesOut == loop = "poll" /\ Quiet /\ UNCHANGED vars

Loop ==
  \/ Poll \/ PollTimesOut \/ AcceptKnown \/ AcceptNew \/ AcceptFails \/ AcceptDone \/ EndBatch \/ CheckCache
  \/ \E i \in Indexes : HandleConn(i)

World ==
  \/ Post
  \/ \E i \in Indexes :
       \/ Age(i) \/ ServerConnect(i) \/ ServerHello(i) \/ ServerSend(i)
       \/ ServerEnd(i) \/ ServerRecv(i)

Next == Loop \/ World

Spec == Init /\ [][Next]_vars

Handling ==
  \/ AcceptKnown \/ AcceptNew \/ AcceptFails \/ AcceptDone
  \/ \E i \in Indexes : HandleConn(i)

Serving(i) == ServerConnect(i) \/ ServerHello(i) \/ ServerRecv(i)

\* The loop is one thread that runs; poll returns when an edge is noted.  The
\* server keeps reading and answers dials and handshakes.
LiveSpec ==
  /\ Spec
  /\ WF_vars(Poll) /\ WF_vars(Handling) /\ WF_vars(EndBatch)
  /\ \A i \in Indexes : WF_vars(Serving(i))

-----------------------------------------------------------------------------
(* Properties *)

Connections ==
  [src : Sources, status : Statuses, send_buffer : Chunks, server_conn : TlsConns,
   socket : Addresses, dst_addr : Addresses, stale : BOOLEAN,
   taken : Chunks, got : Chunks, sent : Nat,
   told : Seq([from : Addresses, packet : Nat])]

\* Every variable has its type, and no socket holds more than its buffer.
TypeOK ==
  /\ setting \in Settings
  /\ \A i \in DOMAIN conns :
       /\ i \in MIN_INDEX .. next_id - 1 /\ conns[i] \in Connections
       /\ Len(Stream(i).out) <= Cap
  /\ DOMAIN src_map \subseteq Sources
  /\ next_id \in MIN_INDEX .. MIN_INDEX + posted
  /\ removed \subseteq DOMAIN conns /\ cache \subseteq Addresses
  /\ queue \in Seq(1 .. posted) /\ knock \in BOOLEAN
  /\ loop \in {"poll", "events"}
  /\ batch \subseteq [index : {0} \cup DOMAIN conns, r : BOOLEAN, w : BOOLEAN]

\* The server gets one request and then whole datagrams of this source only, in
\* the order they came, each at most once; what was written is not lost while
\* the connection is up.
DatagramsInOrder ==
  \A i \in DOMAIN conns :
    LET c   == conns[i]
        p   == c.server_conn
        at  == c.got \o p.stream.out
        all == <<Header>> \o c.taken
    IN  /\ IsPrefix(at, all)
        /\ ~is_shutdown(p.status) => at \o p.session \o p.plain = all
        /\ \A k \in 1 .. Len(c.taken) : Datagram(c.taken[k]).src = c.src
        /\ \A k, l \in 1 .. Len(c.taken) : k < l => c.taken[k] < c.taken[l]

\* Replies reach the client in the server's order, whole, at most once, and
\* each from the address that sent it, although the connection's socket
\* follows the addresses and a socket may be refused.  The socket it replies
\* from is the one in the cache: a second one is never bound to an address
\* that is in use.
RepliesFromTheirAddress ==
  \A i \in DOMAIN conns :
    LET told == conns[i].told
    IN  /\ conns[i].socket \in cache
        /\ \A k \in 1 .. Len(told) :
             2 * told[k].packet <= conns[i].sent /\ told[k].from = Reply(told[k].packet)
        /\ \A k, l \in 1 .. Len(told) : k < l => told[k].packet < told[l].packet

\* A connection the server has ended is removed, so that its source can get a
\* new one, unless the server ended in the middle of a packet.
ClosedIsRemoved ==
  \A i \in Indexes :
    i \in DOMAIN conns /\ Stream(i).end # "open"
      ~> i \notin DOMAIN conns \/ conns[i].send_buffer # <<>>

\* No datagram is left in the listener, and every one that was written for the
\* server arrives there, unless the connection ends.
DatagramsArrive ==
  /\ queue # <<>> ~> queue = <<>>
  /\ \A i \in Indexes :
       i \in DOMAIN conns /\ Len(conns[i].got) <= Len(conns[i].taken)
         ~> \/ i \notin DOMAIN conns
            \/ Stream(i).end # "open" \/ is_shutdown(conns[i].server_conn.status)
            \/ Len(conns[i].got) = Len(conns[i].taken) + 1
=============================================================================
