# trojan-rust: TLA+ models, checks and proofs

A verification development for trojan-rust, kept beside its source (`src/`).
trojan-rust is a trojan server and a transparent TLS proxy for it, written as
single-threaded `mio` event loops with edge-triggered sockets, plus a caching
DNS resolver with worker threads; on Windows it is also a tun proxy on top of
smoltcp and a DNS relay. What is hard in it is not any one function but
the order in which readiness, ends of streams, parked reads, address lookups and
timeouts meet. The modules here keep that order and abstract the bytes.

## 1. Inventory

### Parts, their state and their operations

| Part | Source | State | Operations |
|---|---|---|---|
| Life cycle of a socket | `status.rs` | `ConnStatus`: Connecting, Established, PeerClosed, Shutdown, Deregistered | `peer_closed`, `established`, `shutdown`, `check_status` |
| TLS connection | `tls_conn.rs`, `tcp_util.rs` | rustls session, socket, status, token | `do_read`, `do_send`, `write_session`, `reset_index`, `tcp_read`, `tcp_send` |
| Server connection | `server/connection.rs`, `tcp_backend.rs`, `udp_backend.rs` | phase, cached data, `read_proxy`/`read_backend`, TLS side, backend | `ready` for the client's and the target's channel, `try_resolve`, `timeout`, `check_status` |
| Server loop and table | `server/mod.rs`, `server/tls_server.rs` | `conns`, `removed`, `next_id` | `accept`, `do_conn_event`, `remove_closed`, `check_timeout` |
| Resolver | `resolver.rs` | `dns_cache`, mpsc channel, waker, rayon threads | `query_dns`, `resolve`, `consume`, `update_dns` |
| Proxy TCP connection | `proxy/tcp_server.rs`, `proxy/mod.rs` | client socket with buffer, TLS side, `read_client`/`read_server` | `accept`, `ready`, `remove_closed`, `check_timeout` |
| Idle pool | `idle_pool.rs` | vector of TLS connections, server address, next index | `get`, `alloc`, `ready`, `resolve`, `check_timeout` |
| Proxy UDP server | `proxy/udp_server.rs`, `proxy/udp_cache.rs` | `conns`, `src_map`, `removed`, cache of reply sockets | `accept`, `ready`, `remove_closed`, `get_socket`, `check_timeout` |
| Framing | `proto.rs` | none | `TrojanRequest::parse`, `UdpAssociate::parse`/`generate` |
| DNS relay | `dns/server.rs`, `dns/domain.rs`, `dns/mod.rs` | `store` of questions with who waits, the response and its expiry; block list; `route_added` | `dispatch_local`, `dispatch_server`, `add_request`, `add_domain`, `contains` |
| Windows tun proxy | `wintun/mod.rs`, `tcp.rs`, `udp.rs`, `waker.rs`, `tun.rs`, `ipset.rs` | smoltcp sockets, `handle2conns`, `addr2conns`, `handles`, `removed`, channels of the wakers, route list | `preprocess_packet`, `do_local`, `do_remote`, `remove_closed`, `check_timeout`, `with_file`, `not` |
| Windows system calls | `dns/adapter.rs`, `wintun/route.rs` | none | not modelled: single system calls |
| Start-up, options, system calls | `main.rs`, `bin/`, `config.rs`, `types.rs`, `sys/` | none after start-up | not modelled: pure I/O or configuration |

### How they interact

- One thread per process runs `poll`, then handles the reported events one by
  one, then removes closed connections. Every handler runs to its end; what
  interleaves is the order of events inside a batch, and everything that peers,
  the kernel and resolver threads do between two polls and during a batch.
- Two sockets share a connection. A handler on one side writes to the other; if
  that cannot take data, the read is *parked* in a flag and must be resumed by
  the other side's writable event, since the edge has been used up.
- An end travels: `Shutdown` on one side makes the other `PeerClosed`, which
  becomes `Shutdown` once its data is sent (`check_status`).
- The resolver is called by connections and by the pool, answers through its
  channel and a waker, and the loop passes answers on by token.
- The pool hands TLS connections, possibly still in their handshake, to the TCP
  and UDP servers, which change their token (`reset_index`, `set_token`).
- The tun proxy's loop alternates between smoltcp (`interface.poll`, which is the
  only time packets of applications reach its sockets and wakers fire), the
  wakers' channels and mio. Both kinds of readiness are one-shot: a waker fires
  once, and on Windows mio reports an event once until a call would block.
- The DNS relay answers from its store, passes queries on to the trusted or to
  the poisoned server by the block list, and routes the addresses of trusted
  answers through the tunnel.

### Hard behaviours, and the properties that answer them

- Edge-triggered and one-shot readiness, parked reads, wakers to register again:
  `EverythingArrives`, `DatagramsArrive`, `OpenerArrives`, `EventuallyAnswered`.
- Half-closed connections in every order of ends, resets, timeouts and batch
  positions: `RemainingDataSent`, `ClosedIsRemoved`.
- Data that overtakes the address lookup, the connect or the handshake:
  `NothingLost`, `DatagramsInOrder`.
- Threads against the loop: `NoLostWakeup` and `OneAnswerEach` of the resolver.
- Answers and events for what is gone: `WaitingIsAsked`, `NoStaleAnswer`, `WaitEnds`,
  `EventsHaveSockets`, `HandlesCounted`.
- One reply for many askers, lost and doubled datagrams: `EachQueryOnce`,
  `AnswersMatch`; an answer that is sent before its routes: `GivenIsRouted`.
- A slow side that has to stop the reading of the other: `Backpressure`.
- Packets cut anywhere: `InStep`, `IPv4NeverCutOff`, `PacketsInStep`.
- Arithmetic at the borders of the address space: `RoutesAreComplement`.

`PROJECT.json` lists the hazards one by one with their lines.

## 2. Modules

```
KernelSocket   ConnStatus
       \         /
        TlsConn
       /    |    \
ServerConnection  ProxyConnection  ProxyUdp      IdlePool

DnsResolver <- - - INSTANCE - - - TlsServer               UdpStream

TunTls -> TunLoop -> TunTcp (with SmolTcp)  \
             \-----> TunUdp                   TunProxy
                     IPSet                  /

DomainMap -> DnsRelay

XProofs extends X, for X = DnsResolver, TlsServer, UdpStream, DnsRelay, TlsConn,
ServerConnection, ProxyConnection and TunProxy; ServerConnectionProofs and
ProxyConnectionProofs extend TlsConnProofs as well.
```

**KernelSocket** (external). A connected socket with an edge-triggered
registration: `in` unread data, `out` data written and not received, `end` how
the peer's stream ends, `full` that a writer was turned away (so that the next
room is an edge), `edge` readiness not reported yet, `up` connected.

**ConnStatus**. The five states and the methods of `StatusProvider` on them.

**TlsConn**. A rustls session on a socket: `session` (TLS bytes for the socket),
`plain` (plaintext that waits for the handshake and that `wants_write()` does not
count), `tls` (where the handshake is). `do_read` and `do_send` are operators on
the record. `tcp_send` and `tcp_read` of `tcp_util.rs` are here as well.

**ServerConnection**. One connection of the server with both sockets and the
part of the loop that drives it. `conn` is the `Connection`; `HandleProxy`,
`HandleBackend`, `HandleDns` are the three ways an event reaches it, each with
everything the handler does including the trailing `check_status`; `EndBatch`
is `remove_closed`; `Timeout` is `check_timeout`. The peers and the network are
the other actions. Payload is counted in chunks 1, 2, ... behind a header 0; in
UDP mode a packet is two chunks. `setting` chooses the request kind, whether the
idle timeout can expire and how much the peers send.

**ProxyConnection**. The same for a proxy connection from the dial in the pool
(`place = "pool"`) through the accept that hands it over (`"conns"`) to its
removal (`"out"`, or `"dropped"` when no connection came of it).

**ProxyUdp**. The UDP server: several connections by source, the two maps, the
removal behind a batch, the cache of reply sockets and the 120-second rule
(`stale`).

**IdlePool**. The pool as a vector: `get` and `alloc` one loop turn at a time,
`swap_remove` on `ready` and `check_timeout`, re-dialling after a new address.

**DnsResolver**. Asking, the thread of each token (`Lookup`, `Send`, `Wake`),
the waker's edge and the draining loop as separate steps; a clock for the expiry.
`TlsServer` takes its resolver from here.

**TlsServer**. The server's loop and table over the resolver. A connection is
reduced to its phase. The module instantiates `DnsResolver` with the target
tokens of its connections and builds its steps from the resolver's, so that a
question goes on when the connection that asked it is gone.

**UdpStream**. `UdpAssociate::parse` by length, and the loop of `UdpBackend`
that cuts packets out of a stream that arrives in pieces of any size.

**DomainMap**. The block list: nested hash maps as the set of paths of a trie over
reversed labels. `add_domain` and `contains` are operators; `Listed` is what the
list is meant to say.

**DnsRelay**. The relay with its three sockets. It begins with the block list:
`AddLine` is `add_domain` of one line, `SetupEnds` the start of the loop. `ready`
enters a handler, which reads its clock once; `AnswerPtr`, `AnswerCached`, `AskServer`, `Ignore`,
`HandleReply` are one turn each of its receive loop, `Drained` and `RecvFails`
end it. `HandleReply` sends the answers, and `RouteNext` then looks at one record of
the reply at a time (`loop.todo`), as the code does, with everybody else free to act
in between. `Panic` is a reply without a question. A question is a name and a type; a response is the server it is from and
its records. `done` is the
log of the queries the relay is through with, answered or not: a record of the
model, from which nothing is read; so is `lost`, the questions whose last query or
reply the network has lost since somebody asked. Clients follow a script; queries and replies may be lost or doubled,
sends, receives and `route_add_with_if` may fail, up to `MaxFaults`.

**TunTls**. The TLS connection as the tun proxy uses it, by its `Read` and `Write`
implementations: one socket call per `read` or `flush`. `armed` is what mio still
reports on Windows. A stream ends by FIN, by RST or by a bad record, which takes the
good records that are read in the same call with it.

**SmolTcp** (external). A smoltcp TCP socket: its state, both buffers, and its
one-shot wakers (a dummy waker is none).

**TunLoop**, **TunTcp**, **TunUdp**, **TunProxy**. The phases of the loop and the
channels of the wakers; `TcpServer` with its connections; `UdpServer` with its
connections by source and handles by destination; and the composition. `at` is
the phase: `"iface"` (packets of applications), `"local"` (events of the wakers,
UDP first), `"events"` (mio), and then `EndOfRound` is `remove_closed` and, when it
is `due`, `check_timeout`. The operators that are named after a method work on
the record of the socket, the connection and the wakes it has caused.

**IPSet**. The route list: sorting, complement and the cover of a gap by networks
on addresses of `Width` bits, with `Covered` as the reference. `TunProxy` takes it
as its first step, as `run` does.

**DnsResolverProofs**, **TlsServerProofs**, **UdpStreamProofs**, **DnsRelayProofs**,
**TlsConnProofs**, **ServerConnectionProofs**, **ProxyConnectionProofs**,
**TunProxyProofs**. The theorems of section 5 and their lemmas; `TlsConnProofs` has
lemmas only, about what the operators on sockets and sessions do.

`MC...` modules give the constants of the runs. Definitions whose name is that
of another with a suffix (`tls_do_send_drops`, `PropagateClose_one_way`, ...) are
faulty variants: no specification uses them, each is a plausible bug put in
place of the original to see that the property it belongs to notices.

### Abstractions

- Bytes are chunks; a handler that loops until it would block moves all there is
  or all that fits. What a socket can hold towards the reader is not bounded, so one
  read takes any amount, as the loops in `tcp_util.rs:14` and `tls_conn.rs:158` do
  when the peer refills the socket. Encryption and formatting are left out; the framing, where
  lengths matter, is `UdpStream`.
- The request header is one chunk: `ServerConnection` starts from a request that
  arrived whole, as far as `try_handshake` depends on it.
- Registering, connecting, binding and looking up may fail wherever the code has
  a path for it. Not so a datagram that is sent in part (`udp_backend.rs:62-71`): the
  kernel sends all of one or none.
- A connection from the pool comes to the proxy's UDP server and to the tun proxy
  either connecting or ready. The states of the handshake in between are gone through
  after the hand-over; `ProxyConnection` has the hand-over in every one of them. The tun
  proxy always gets one: `pool.get(..).unwrap()` (section 4) is not modelled.
- The tun proxy's `copy_stream` moves chunks; `rbuffer` of a TCP connection is
  always empty between events, because the TLS session has no limit. Time is the
  number of long silences a connection has seen (120, 600, 3600 seconds).
- `setting` makes several worlds of one instance, so that no world has to be as
  large as all of them together.
- Indexes are not reused: the code wraps after a quarter or half of `usize::MAX`
  connections, and the bounds stay below that (`DialsAssumption`,
  `ClientsAssumption`).

## 3. Runs

| Run | Module | Checks | Shows |
|---|---|---|---|
| `server_safety` | `ServerConnection` | `NothingLost`, `RemainingDataSent`, `Backpressure` | every kind of request, four chunks at most each way, ends, resets and timeouts anywhere |
| `server_live` | `ServerConnection` | `EverythingArrives`, `ClosedIsRemoved` | nothing is left behind, and an ended connection is removed |
| `proxy` | `ProxyConnection` | `NothingLost`, `RemainingDataSent`, `EverythingArrives`, `ClosedIsRemoved` | the same for the proxy, across the change of token |
| `proxy_request` | `ProxyConnection` | `RequestArrives` | **violated**, finding 1 |
| `proxy_udp` | `ProxyUdp` | `DatagramsInOrder`, `RepliesFromTheirAddress`, `ClosedIsRemoved`, `DatagramsArrive` | the UDP half, with the one state that does not end by itself named in the properties |
| `idle_pool` | `IdlePool` | `OnlyClosedDropped` | the pool drops no open connection |
| `resolver` | `DnsResolver` | `NoLostWakeup`, `OneAnswerEach`, `AddressesOfTheirDomain`, `HitIsFresh`, `EventuallyTold` | three askers, two domains, all interleavings of threads and loop |
| `table` | `TlsServer` | `WaitingIsAsked`, `NoStaleAnswer`, `WaitEnds` | the table with the resolver: no answer is missing, and none is for another connection |
| `udp_stream` | `UdpStream` | `TypeOK`, `InStep`, `IPv4NeverCutOff` | three packets of eight kinds, every way to cut the stream |
| `dns_relay` | `DnsRelay` | `EachQueryOnce`, `AnswersMatch`, `RightServer`, `GivenIsRouted`, `EventuallyAnswered` | two clients, shared questions, an expiring cache, one fault of any kind at any time |
| `blocked_list` | `DnsRelay` | `ListedAskTrusted` | **violated**, finding 2 |
| `tun` | `TunProxy` | `NothingLost`, `RemainingDataSent`, `EverythingArrives`, `ClosedIsRemoved`, `EventsHaveSockets` (TCP); `HandlesCounted`, `DatagramsInOrder`, `PacketsInStep`, `OpenerArrives` (UDP); `RoutesAreComplement` | the Windows tun proxy as a whole |

The modules state their `TypeOK` as documentation of the variables; a run checks it
where it says more than types (`UdpStream`: no packet takes bytes that are not
there), and for the resolver, the relay, the server connection and the proxy
connection it is proved.

A run is started with `tlc -workers 2 -config X.cfg MCModule`.

### Bounds

- `Cap = 1`: with a socket of one chunk it takes three to park a
  reader (one in the socket, one buffered, one unread), so three chunks in a
  direction reach parking, resuming and parking again; the fourth in the UDP and
  the proxy settings makes a second packet, or a second round.
- UDP: four chunks are two packets, enough to fill the socket and to have half a
  packet behind a whole one; chunk 3 may be malformed.
- `server_live` gives the full length to one direction at a time; with the idle
  timeout, one chunk each way for every kind of request.
- `UdpStream`: `MAX_PACKET_SIZE` is a constant, 3 instead of 1450. The parser
  compares it with a length only, so lengths 3 and 4 are on either side of the
  border as 1450 and 1451 are.
- `DnsResolver`: three tokens let two threads race while a third is drained; one
  address and `None` tell results apart, and two domains suffice to mix them up.
  `MaxTime = 2` with `CacheTime = 1` lets an entry expire and be renewed.
- `IdlePool`: `Size = 3` allows two closed connections around an open one, the
  case in which `swap_remove` in the wrong order goes wrong. `MaxAsked = 9` is as
  many failed dials as `get` can have before it gives up.
- `TlsServer`: two clients, and lookups that outlast them, so that the second can
  be accepted while the lookup of the first, removed, still runs.
- `DnsRelay`: scripts of three queries: the same question from two clients and once
  more, before and after its answer and its expiry, for a listed and for an unlisted
  name; two questions at a time; and the relay's own name in between. One fault per
  behaviour: a second would repeat what the first shows, as the relay has no
  timers or retries that could meet. `CacheTime = 1` under `MaxTime = 2` lets an
  answer expire and the question be asked again.
- `TunProxy`: `TxCap = 1` lets one chunk of the server fill the application's send
  buffer, so that the second stays in `lbuffer` and further ones in the TLS
  connection; `Burst = 2` and `Cap = 2` make a burst of three chunks more than one
  `flush` takes; `UdpCap = 1` makes a second datagram of a round overflow. Two
  sources, two destinations that are routed and a private one; a source that goes
  back to its first destination, so that its datagrams wait in two sockets at once;
  the sixth setting reaches the 3600-second rule. `Width = 4` has gaps of every shape: all lists of
  up to two networks together with the private ones, at both ends of the space and
  in the middle, adjacent and apart.

Deadlock is not checked for `dns_relay`, `resolver`, `table`, `idle_pool` and `udp_stream`:
there askers, clients, dials or packets are bounded and the model stops when they
are used up. In the other modules `PollTimesOut` is the poll's one-second
timeout, and the loop never stops.

### Fairness

- The loop: weak fairness of `Poll`, of handling an event and of ending a batch.
  It is a single thread that the scheduler runs, `poll` returns when there is an
  edge, and the `for` loop handles each event.
- Resolver threads are scheduled, and a lookup returns, with an error at worst.
- Peers: where a property needs someone to read, connect or answer, weak fairness
  is assumed of exactly that peer. In `server_live` this holds only in the
  settings without the idle timeout. In those with it peers may stop for ever, and
  the timer (`Timeout`, driven by the poll's timeout) alone takes an ended
  connection down.
- The tun proxy's loop turns for ever, as its poll has a timeout of a millisecond:
  `[]<><<Loop>>_vars`. Applications that acknowledge or receive are strongly fair:
  their packets wait in the adapter until `interface.poll` takes them, which is
  one phase of every round. So is `Wait`, since time passes however often the loop
  turns.
- DNS servers answer what reaches them. `EventuallyAnswered` excuses a query only
  when the network has lost the last datagram for its question (`lost`), not a relay
  that forwards nothing or answers nobody.
- Nobody is assumed to send or to end anything.

## 4. Findings

1. **A request that stays in the session** (`proxy_request`,
   `proxy/tcp_server.rs:296`). The server's flight is parked behind a client that
   is still Connecting; `try_send_client` resumes the read, the handshake
   completes there and nobody flushes. If neither side speaks, the server never
   learns the target, which `PRINCIPLE.md:26` says it is told. `Stalled` names
   this state, and `EverythingArrives` of the proxy shows it is the only one.
2. **A listed domain that is asked of the poisoned server** (`blocked_list`,
   `dns/domain.rs:25`). A listed domain is a `None` entry, which a domain below it
   turns into a map: with `gov.tw` and then `epa.gov.tw` in the list,
   `contains("data.gov.tw")` is false. `config.rs:162` calls it the "Domain list
   which should be resolved through safe DNS", and `ipset/domain.txt` holds 76
   such pairs. `RightServer` shows that a list without nested domains is safe.

### Observations

What else came up while modelling. The properties name these cases where they are
exceptions to them.

- *A connection revived while it waits to be removed* (`server/tls_server.rs:139`):
  the client's end and the DNS answer are in one batch, the connection is put on
  `removed`, then the answer creates the backend and gives it the cached data, and
  `remove_closed` drops it. `RemainingDataSent` of `ServerConnection` shows that
  this happens to requests with a domain only.
- *Data lost in the handshake* (`tls_conn.rs:318`): `finish_send` is `!wants_write()`,
  which does not count plaintext that waits for the handshake. A client that sends and
  ends before it is over has its data dropped, request included, while `status.rs:10`
  says of PeerClosed "peer is closed, sending remaining data". `RemainingDataSent` of
  `ProxyConnection` states the exception: that plaintext is exactly what is missing, and
  once the handshake is over nothing is.
- *A correct IPv6 packet cut off* (`proto.rs:155`): with 11 to 18 bytes of it in the
  buffer the parser answers `InvalidProtocol` where it should answer `Continued`.
  `IPv4NeverCutOff` shows what is safe.
- *A UDP connection with half a packet* (`proxy/udp_server.rs:354`): when its server
  ends inside a packet, it is only closed by a datagram that comes after 120
  seconds; `--udp-idle-timeout` (`README.md:43`) is not used by the proxy's UDP
  server. `ClosedIsRemoved` of `ProxyUdp` states the exception.
- *The rest of a burst* (`wintun/tcp.rs:153`): `flush` calls `write_tls` once, and
  what is left in the session has no writable event coming. It leaves with the
  next data in that direction. `Unflushed` names the state; without it
  `EverythingArrives` of `TunProxy` does not hold.
- *An application's FIN is not passed on* (`wintun/tcp.rs:36`): smoltcp's CloseWait
  is active, so reading only blocks; such a connection ends with the server or
  after 3600 seconds.
- *Datagrams to a second destination* (`wintun/udp.rs:352`): a source's replies all
  leave through the socket of its first destination. And as the events of the
  sockets come out of a `HashMap` (`wintun/waker.rs:84`), datagrams of one source to
  different destinations may reach the server in another order than they were sent:
  `DatagramsInOrder` of `TunProxy` claims the order for each destination only.
- *Nested networks* (`wintun/ipset.rs:158`): a network strictly inside an earlier one
  moves the end of what is covered back, and the complement overlaps the outer
  one. The lists in `ipset/` have none; `Aligned` is the precondition.
- *The TTL of a cached response* is the last record's (`dns/server.rs:271`), and
  `--dns-cache-time` (`config.rs:178`) has no effect: the expiry it sets is replaced
  before it is read. The PTR answer carries id 1 whatever the query's id
  (`dns/server.rs:105`).
- *An address before its route* (`dns/server.rs:259-292`): a reply is sent to everyone
  who waits before the first of its addresses is routed, so a client that connects at
  once does so around the tunnel. `GivenIsRouted` says that the window closes before
  the socket is read again.
- *A reply without a question* (`dns/server.rs:236`): `dispatch_local` wants exactly one
  question, `dispatch_server` takes the first without counting, and the relay panics.
  `EventuallyAnswered` ends there.
- *A bad record behind good ones* (`tls_conn.rs:41`): `read` returns InvalidData before
  what it decrypted in the same call, and the tun proxy tells the application the end
  without that data. `RemainingDataSent` of `TunProxy` says that no more than what was in
  the socket with the record is missing.
- *An exhausted pool* (`wintun/tcp.rs:346`, `wintun/udp.rs:348`): `get` returns None when
  every dial fails (`GiveUp` of `IdlePool`), and the tun proxy unwraps it.
- *Reads without a bound* (`tls_conn.rs:158`, `tcp_util.rs:14`): a peer that refills its
  socket as fast as it is read keeps a handler in its loop and makes the buffer grow.
  `Backpressure` is about when a read may begin.

## 5. Proofs

All theorems hold for every value of the constants that satisfies the named
assumptions: any number of chunks, clients, tokens, domains and connections, any
size of buffers, any clock bound.

| Module | Theorem | States |
|---|---|---|
| `ServerConnectionProofs` | `NothingIsLost` | `Spec => []NothingLost` |
| | `RemainderIsSent` | `Spec => []RemainingDataSent` |
| | `StopsReading` | `Spec => Backpressure`, an action property |
| | `TypeCorrect` | `Spec => []TypeOK` |
| `ProxyConnectionProofs` | `NothingIsLost` | `Spec => []NothingLost` |
| | `RemainderIsSent` | `Spec => []RemainingDataSent` |
| | `TypeCorrect` | `Spec => []TypeOK` |
| `TunProxyProofs` | `NothingIsLost` | `Spec => []NothingLost` |
| | `RemainderIsSent` | `Spec => []RemainingDataSent` |
| | `EventsFindSockets` | `Spec => []EventsHaveSockets` |
| | `HandlesAreCounted` | `Spec => []HandlesCounted` |
| | `DatagramsKeepOrder` | `Spec => []DatagramsInOrder` |
| | `PacketsStayInStep` | `Spec => []PacketsInStep` |
| `DnsResolverProofs` | `Typed` | `Spec => []TypeOK` |
| | `WakeupNeverLost` | `Spec => []NoLostWakeup` |
| | `AnsweredOnce` | `Spec => []OneAnswerEach` |
| | `NoMixedAddresses` | `Spec => []AddressesOfTheirDomain` |
| | `CacheHitIsFresh` | `Spec => HitIsFresh`, an action property |
| `TlsServerProofs` | `AnswersNotStale` | `Spec => []NoStaleAnswer` |
| | `WaitingHasQuestion` | `Spec => []WaitingIsAsked` |
| | `IndexesUnique` | `Spec => [](next_id \notin DOMAIN conns)` |
| `DnsRelayProofs` | `QueriesOnce` | `Spec => []EachQueryOnce` |
| | `AnswersTheirQuestion` | `Spec => []AnswersMatch` |
| | `AsksRightServer` | `Spec => []RightServer` |
| | `GivenHasRoutes` | `Spec => []GivenIsRouted` |
| | `TypeCorrect` | `Spec => []TypeOK` |
| `UdpStreamProofs` | `StaysInStep` | `Spec => []InStep` |
| | `IPv4Safe` | `Spec => []IPv4NeverCutOff` |
| | `Typed` | `Spec => []TypeOK` |

### The server connection

From `SettingsAssumption` and `CapAssumption`. A handler of the model is a chain
of operators on the record of the connection, so the proof is about records: the
invariant `Flow` is `TypeOK` and `Sound(conn, ...)`, where `Sound` has three parts.

- `Sane`: types, the sockets' limits, and that a backend that exists is not
  Connecting while one that does not is `NoBackend`.
- `Upstream`, the way to the target. `NothingLost` is not inductive for three
  reasons. What is forwarded must be known to continue with what is unread even
  where the property does not look (`UpFlow`, under `Intact`, which is weaker than
  `UpstreamOpen`: a client that ended decently still has all it sent on the way).
  The header must be known to be the first chunk and to be gone once the phase is
  not HandShake (`Phase`: until then the socket holds `Sends(n, req)` or a bad
  record was read). And a connection without a backend that counts as forwarding,
  which a failed registration leaves behind, must be known to be shut down.
  `UpBound` adds that only a lookup leaves a client that is still read without a
  target.
- `Downstream`, the way to the client: `DownFlow` joins socket, session and the
  target's socket; `DownBound` says that a session which calls itself writable is
  empty.

Each direction has a relation for steps that leave it alone (`UpSame`, `DownSame`),
so an operator is treated once, for the direction it is about. Closing operators
(`PropagateClose`, `CheckBoth`, `destroy`) leave both alone. What a flush to the
target does is `Passes`: the data goes from the buffer's front to the socket, and
if some of it is lost the backend is shut down. `TlsConnProofs` has the same for the
session (`TlsSends`, `TlsPushes`), for reading, and for the states.

`Backpressure` is a property of steps, and one handler is several operators: flushing
one side, reading the other, dispatching. `BothFirst` is what each of them does by
itself (it takes nothing back out of a socket, and if it reads a side, what was kept
for the other is in that other's socket), and it composes along a handler because the
read is guarded by `writable`, which `DownBound` and `finish_send` tie to an empty buffer.
No bound on what a read takes is used.

`RemainingDataSent` is proved on top of `Flow`, from a second invariant, `Closing`.
The property speaks of the moment a side is shut down; the invariant follows the
closing there from its first sign:

- `UpClosing`: while the target's stream is open, its side leaves Established only
  when the client's is shut down, and then nothing of the client's is unread and
  what was sent is with the target or in `send_buffer` (`AllUp`); and it is shut down
  only with an empty `send_buffer`, because `check_status` waits for `finish_send`.
  `DownClosing` is the same towards the client, with the TLS session as the buffer.
- `AllUp` cannot be had from `NothingLost` once both sides are closing; it is
  established by the read that finds the end of the stream, the last moment at which
  `Flow` still accounts for every chunk (`AllOnTheWay`), and kept from there on.
- `Pending`: a connection without a target holds nothing for the client, and one
  that is shut down has nothing left to dispatch unless a domain was asked for. So
  nothing but a domain revives it, and a connection put on the removed list stays
  `destroyed` until `remove_closed`.
- `Batch`: a batch has one event of each channel, and a connection that was shut down
  for want of a target while its client stays (`Shed`) is on the removed list with
  at most the client's event to come. That event can still give it a target
  (`Revived`), which goes with the connection at the end of the batch: the case the
  invariant must except.

A handler's operators keep `Tidy` (these facts of one record) and `Lasts` (what no
handler undoes), one lemma each; `AfterEvent` lifts them to the batch.

Writing the proof changed the model twice without changing what it says: the
packets in a buffer are counted by `Cardinality`, not by a `CHOOSE`, and the cases of
`udp_dispatch` exclude each other.

### The proxy connection

From `SettingsAssumption` and `CapAssumption`. `Invariant` is `Book`, the loop's own
state, and `Good`, which is about the record of the connection and what the two ends
have sent and received.

- A link of a handler does `Works`: what is on its way to the server (`Upward`:
  socket, session, plaintext, and the client's unread data) stays the same, and what
  the client may still get (`Owed`) stays the same or loses its end. A handler is a
  chain of such links, so one lemma for each operator and `WorksTwice` give it all.
- `UpFlow` says that this together with what the server has is the request and the
  client's chunks. It has two forms, because before the hand-over there is no request
  in the TLS connection: `NothingLost` is silent there, and could not be carried
  over the change of token without it. `Fresh` adds that a pooled connection has
  nothing from the server to lose.
- `DownFlow` has two forms as well. What reached the client is always a prefix of
  what was sent; that nothing at all was thrown away holds while `Kept` does, which
  is wider than the condition of `NothingLost`: after an orderly end of the server a
  client that is shut down still has everything, and `RemainingDataSent` needs that.
- `Closing` follows the statuses between any two links of a handler: a side is
  PeerClosed only when the other is shut down (`Caused`); when only the client ended
  its data has been read by the time a side is shut down and flushed by the time the
  server's is (`UpDone`, which also says that the client's side goes first: so no read
  ends the handshake behind a closed server, and the plaintext that was left behind
  stays all that is missing), and the other way around (`DownDone`). The two cases exclude
  each other by the ends of the streams, so that the step in which the second side
  ends has nothing to keep. A connection taken down by the timeout is excepted.
- `Book` keeps events for a connection that is in the table, and none in a batch that
  has been worked off: an event that outlived the removal would find `"out"`.

### The tun proxy

From `SettingsAssumption`, `RemoteAssumption` and `BuffersAssumption`. The two servers
share the loop and nothing else, so each has an invariant, `UdpInv` and `TcpInv`, and
the steps of one leave the other's alone (`TcpOnly`, `UdpOnly`). Both begin with where
the loop is and whom its events are for (`UdpKeys`, `TcpKeys`): wakes are noted only
while smoltcp is polled and are all handled before anything is removed, mio's
events are for connections of the table, and each key has one event of a kind. That
is `EventsHaveSockets`, which needs the rest for the sockets that `remove_closed`
and `check_timeout` take away: nobody who is left may have an event for them.

UDP:

- `HandlesKept`: the count of a handle is the number of `Users` of its destination.
  It is inductive with "every connection has its handle, every handle its socket":
  `check_timeout` removes a socket whose count is 0, so it has no users.
- `DatagramsInOrder` is not inductive, as it does not say what is still in the
  sockets. `Ready` adds it: what waits in a socket is in order, was sent to that
  destination, and nothing the connection has taken for that destination was sent
  behind it (`Precedes`). `Led` adds that before the request is written at most one
  datagram waits and nothing else is on its way.
- `PacketsInStep` from `InStep`: what was given and what is kept in `lbuffer` are
  together exactly what was decrypted, chunk by chunk, and more than a part of a
  packet is kept only if it is invalid. `Parses` states what the parsing loop does
  by its result, so no induction over its turns is needed.

TCP:

- `Fits` relates a socket, its connection and its application's record, in the middle
  of a handler as well. `UpKept` and `DownKept` are the two directions of
  `NothingLost`, of what was decrypted and without its conditions. `lbuffer` holds at
  most one chunk, and when it is empty nothing decrypted waits behind it: otherwise
  `copy_stream` would overtake what it kept. A remote side that is closed, or whose next
  record is bad, is `Cut`: what its socket holds is out of the account.
- `Orderly` is the order of closing: the local side behind the remote side and only
  with nothing left to copy, the remote side behind the end of the server's stream,
  the application's end behind its last chunk. `RemainingDataSent` is its last line.
- A closed local side has no wakers left, so the removal of a socket wakes nobody:
  what `EventsHaveSockets` needs of the TCP server.
- A socket may not have its connection yet: the first event takes one from the pool.
  `ConnAt` is the connection in either case, and `Fits` holds of it from the SYN on.
- An application may have several sockets, by repeating its SYN. `Real` are the ones
  that count; there is one for each application at any time, and an
  application without a SYN has neither sent nor got anything. A handle is given to a
  socket only while no other has it (a choice among more numbers than there are
  sockets).

### The resolver

From `NoneAssumption` and `TimeAssumption`. The inductive invariant is built up in
layers, each of which may use the ones before it:

1. `TypeOK` is inductive by itself.
2. `Wakeup == UnaskedIdle /\ NoLostWakeup`. `NoLostWakeup` alone is not
   inductive: asking sets a token's thread to `"lookup"`, and if that thread were
   at `"wake"` a result would lose its wake-up. `UnaskedIdle` says that a token
   that has not asked has no thread. The rest is the order in the code: a thread
   sends and only then wakes, and the loop returns to poll only with the channel
   empty.
3. `OneAnswerEach` on top: a thread's `Send` moves the one pending answer into
   the channel, `ConsumeOne` moves it to the asker, and no two messages carry one
   token.
4. `Agreement == JobsAgree /\ MessagesAgree /\ AddressesOfTheirDomain`: the
   answer is recorded under the domain that was asked, the cache entry under the
   domain of the message, and the two agree because the thread took its domain
   from the question. Layer 3 is needed so that no second message overwrites what
   an asker was told.
5. `CacheAges`: the expiry time is the last update plus `CacheTime`, and updates
   are not in the future. `Fresh` then bounds the age of a hit.

### The server's loop and table

From `ClientsAssumption` and `IndexAssumption`. Every step of `TlsServer!Next`
is shown to be a step of `DnsResolver!Next` or to leave the resolver's variables
alone (`ResolverStep`), which follows from how the module is built and is used as a
lemma only. `Table` says that the indexes in use are
below `next_id` and that events are for connections in the table. `Asking` says
that threads, results and answers are for target tokens. `WaitingIsAsked` is
inductive with these two: a token belongs to one index (`TokenOfIndex`), an index
is given once, and the step that records the answer of a token is the step that
ends the wait of its connection.

`NoStaleAnswer` from `Pristine`: every token whose index has not been given yet, and
every token of a connection that has not asked, is `Untouched`. The threads that a
removed connection leaves behind run on in the tokens below `next_id`; a new connection
gets the first index at which nothing has ever been asked. The prover cannot cite a
theorem of an instantiated module, so that the resolver's theorems hold of the server's
resolver (by `ResolverStep`) is left to the reader.

### The DNS relay

From the assumptions in `DnsRelay` on names, scripts, lists and replies.

- `AnswersMatch` from `Matching`: whatever is unread, waits in the store or is in
  the log was asked under its id, by the one it is for. The id that `add_request`
  restores is the asker's own, and a reply is given only to those who wait for the
  question it carries.
- `RightServer` from `Choice`: the list is complete before anything is asked,
  `blocked_domains` is the union of the paths of its lines (`Added`), and queries,
  replies and kept responses are of the server that `contains` prescribes.
  `ContainsIsListed` is the lemma about the trie: on a list without nested domains
  `contains` says yes to exactly the names at or below a listed one.
- `GivenIsRouted` from `Routed`: what the trusted server said has its addresses in
  `route_added`, refused or in `loop.todo`, in the store as well as in the log. No other
  reply is read while `loop.todo` is not empty, so nothing is pushed out of it.
- `EachQueryOnce` from `NoneTwice` and `NoneForgotten`: the places where a query can
  be are pairwise exclusive, each step moves it from one to another, and no step
  drops it. `StepKinds` sorts the steps into the seven kinds there are.

### The UDP framing

`Typed` rests on the lemma that what the parser calls a packet is there to the
last byte (`Sizes`). `IPv4NeverCutOff` needs to be strengthened by "the loop of
`do_send` runs only while the connection is up" (`Guarded`): otherwise a later
packet could be taken off the stream after the connection was ended. That the
parser has no reason to refuse a correct IPv4 packet is the lemma
`IPv4Accepted`: from 11 bytes on the address and the length are complete.
`InStep` is about a sum over a sequence, which cannot be had by induction here;
`LaidOut` instead says that there is a function of partial sums (`EndToEnd`), and
each step gives the next one from the last.

### Only model-checked

- All liveness: fairness and `ENABLED` are outside the prover.
- `IdlePool.OnlyClosedDropped` and `TunProxy.RoutesAreComplement` rest on what loops
  over a vector compute, which takes an induction over data.
- `ProxyUdp.DatagramsInOrder` and `RepliesFromTheirAddress`: the replies of one event are
  sent by a fold of `do_send_udp` over its packets, and even that the fold leaves the
  way to the server alone takes the same induction.

## 6. Not modelled

- `dns/adapter.rs`, `wintun/route.rs`, `sys/`: single system calls. The models keep
  that adding a route can fail.
- `config.rs`, `types.rs`, `main.rs`, `bin/dns.rs` and the start of each `run`: parsing
  of options, keys and certificates, no state afterwards.
- The bytes of a trojan request (`TrojanRequest::parse`): the header is one chunk.
- smoltcp, rustls, mio, the kernel and the tun device: external, modelled from how
  the code uses them.

## 7. Plan

1. **Abstract specification.** A pair of FIFO pipes with half-close as what a
   forwarding connection promises, refined by `ServerConnection`,
   `ProxyConnection` and `TunTcp`, which now each state it, and have it proved, as
   `NothingLost` and `RemainingDataSent`.
2. **Proofs.** `ProxyUdp.DatagramsInOrder`, with the fold over the packets of an event
   restated by its result, as `TunProxyProofs` does it.
3. **Models.** `TrojanRequest::parse` on partial input. The proxy's TCP table as
   `TlsServer` has it for the server.
