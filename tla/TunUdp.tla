------------------------------- MODULE TunUdp -------------------------------
(***************************************************************************)
(* The UDP half of the Windows tun proxy: UdpServer and its connections    *)
(* (wintun/udp.rs), and the sockets that wintun/tun.rs makes for them: one *)
(* per destination, which is also its handle, and one connection per       *)
(* source.  A connection replies through the socket its source used first. *)
(*                                                                         *)
(* Datagrams of applications are numbered across all sources; framed, each *)
(* is one chunk behind the request (Request).  Packet p of the server is   *)
(* the chunks 2p - 1 and 2p, so that it can be half received.              *)
(***************************************************************************)
EXTENDS TunLoop

CONSTANTS
  Sources,   \* addresses of applications
  Dests,     \* destinations
  Private,   \* those that is_private() leaves to the system
  UdpCap     \* datagrams in a socket's receive buffer

ASSUME UdpAssumption == Private \subseteq Dests /\ UdpCap \in Nat \ {0}

VARIABLES
  usocks,    \* destination -> UDP socket of the interface
  handles,   \* UdpServer.handles: when it was used last, and how many connections it has
  uconns,    \* UdpServer.addr2conns (and token2conns): source -> Connection
  uremoved,  \* UdpServer.removed
  posted,    \* datagrams sent by applications so far
  told       \* told[s]: packets that reached source s, with the address they are from

udpvars == <<usocks, handles, uconns, uremoved, posted, told>>

Request == 0

Stale == 1      \* more than 120 seconds since the last event of the server
Forgotten == 2  \* more than 600 seconds since the last datagram

\* opener and gave are history: the datagram that made the connection, and the
\* packets that were taken out of the server's stream.
NewUdpConn(dst, remote) ==
  [local |-> dst, remote |-> remote, rclosed |-> FALSE, rbuffer |-> <<>>, lbuffer |-> <<>>,
   established |-> FALSE, idle |-> 0, opener |-> 0, gave |-> <<>>]

-----------------------------------------------------------------------------
(* Connection *)

udp_close_remote(c) ==
  IF c.rclosed THEN c ELSE [c EXCEPT !.remote = close(@), !.rclosed = TRUE]

udp_flush_remote(c) ==
  IF FlushFails(c.remote) THEN udp_close_remote(c) ELSE [c EXCEPT !.remote = flush(@)]

\* A local_to_remote that forgets the datagram that was kept.
udp_local_to_remote_drops(c, data) ==
  udp_flush_remote([c EXCEPT !.remote = write(@, data), !.rbuffer = <<>>])

\* The session takes everything, so nothing is left for rbuffer.
udp_local_to_remote(c, data) ==
  udp_flush_remote([c EXCEPT !.remote = write(@, c.rbuffer \o data), !.rbuffer = <<>>])

\* A do_local that sends the datagram ahead of the request.
udp_do_local_early(c, k) ==
  CASE c.idle >= Stale -> udp_close_remote(c)
    [] c.idle < Stale /\ c.rbuffer # <<>> -> c
    [] OTHER -> udp_local_to_remote(c, <<k>>)

\* Connection::do_local: one datagram is kept until the connection is ready.
udp_do_local(c, k) ==
  CASE c.idle >= Stale -> udp_close_remote(c)
    [] c.idle < Stale /\ c.rbuffer # <<>> -> c
    [] c.idle < Stale /\ c.rbuffer = <<>> /\ ~c.established -> [c EXCEPT !.rbuffer = <<k>>]
    [] OTHER -> udp_local_to_remote(c, <<k>>)

PacketOf(chunk) == (chunk + 1) \div 2

\* The leading packets of data that are complete and valid.
Parsed(data) ==
  LET ok == {m \in 0 .. Len(data) \div 2 :
               \A i \in 1 .. m : PacketOf(data[2 * i]) \notin setting.bad}
      n  == CHOOSE m \in ok : \A l \in ok : l <= m
  IN  [i \in 1 .. n |-> PacketOf(data[2 * i])]

\* Parsing that forgets the start of a packet of which the rest is to come.
Unparsed_none(data) == <<>>

Unparsed(data) == Rest(data, 2 * Len(Parsed(data)))

\* remote_to_local: whole packets go to the application, the start of one is
\* kept, an invalid one ends the connection.
UdpRead(c) ==
  LET data == c.lbuffer \o Readable(c.remote)
      rest == Unparsed(data)
      d    == [c EXCEPT !.remote = ReadSome(@, Len(Readable(@))), !.lbuffer = rest,
                        !.gave = @ \o Parsed(data)]
  IN  IF Len(rest) >= 2 \/ ReadBreaks(d.remote) THEN udp_close_remote(d)
      ELSE [d EXCEPT !.remote = ReadBlocks(@)]

UdpPackets(c) == Parsed(c.lbuffer \o Readable(c.remote))

\* Connection::do_remote: the writable event first.
UdpWritable(c) ==
  IF c.established THEN udp_local_to_remote(c, <<>>)
  ELSE udp_local_to_remote([c EXCEPT !.remote = write(@, <<Request>>), !.established = TRUE], <<>>)

-----------------------------------------------------------------------------
(* UdpServer *)

Dst(k) == setting.datagrams[k].dst
Src(k) == setting.datagrams[k].src

\* The event of a socket: its handle is noted as used and wakes again.
Used(d) ==
  /\ handles' = Put(handles, d, [idle |-> 0, refs |-> IF d \in DOMAIN handles
                                                       THEN handles[d].refs ELSE 0])
  /\ usocks' = [usocks EXCEPT ![d].wakers = @ \cup {"rx"}]

\* UdpServer::do_local for one datagram of socket d: the source's connection
\* takes it, and counts for d if the datagram makes it.
UdpLocal(e) ==
  /\ Handling("local", e) /\ e.of = "udp" /\ usocks[e.key].rx # <<>>
  /\ LET d   == e.key
         k   == Head(usocks[d].rx)
         new == Src(k) \notin DOMAIN uconns
         old == IF new THEN [NewUdpConn(d, Pooled(setting.pooled)) EXCEPT !.opener = k]
                ELSE uconns[Src(k)]
         c   == udp_do_local(old, k)
         refs == IF d \in DOMAIN handles THEN handles[d].refs ELSE 0
     IN  /\ handles' = Put(handles, d, [idle |-> 0, refs |-> IF new THEN refs + 1 ELSE refs])
         /\ usocks' = [usocks EXCEPT ![d].rx = Tail(@), ![d].wakers = @ \cup {"rx"}]
         /\ uconns' = Put(uconns, Src(k), c)
         /\ uremoved' = IF c.rclosed THEN uremoved \cup {Src(k)} ELSE uremoved
  /\ UNCHANGED <<loopvars, posted, told>>

\* The end of the loop over the socket's datagrams.
UdpDrained(e) ==
  /\ Handling("local", e) /\ e.of = "udp" /\ usocks[e.key].rx = <<>>
  /\ Used(e.key)
  /\ Handled(e)
  /\ UNCHANGED <<setting, at, events, due, uconns, uremoved, posted, told>>

\* The packets for s that its socket has taken.
Replies(s, packets, taken) ==
  SelectSeq([i \in DOMAIN packets |-> [to |-> s, packet |-> packets[i], fits |-> i \in taken]],
            LAMBDA r : r.fits)

\* UdpServer::do_remote.  A packet the socket has no room for is dropped.
UdpRemote(e) ==
  /\ Handling("events", e) /\ e.of = "udp"
  /\ LET s == e.key
         a == [uconns[s] EXCEPT !.idle = 0]
         b == IF "w" \in e.kinds THEN UdpWritable(a) ELSE a
         c == IF "r" \in e.kinds THEN UdpRead(b) ELSE b
     IN  /\ uconns' = [uconns EXCEPT ![s] = c]
         /\ IF "r" \notin e.kinds THEN UNCHANGED usocks
            ELSE \E taken \in SUBSET DOMAIN UdpPackets(b) :
                   /\ Cardinality(DOMAIN UdpPackets(b) \ taken) <= setting.drops
                   /\ usocks' = [usocks EXCEPT ![b.local].tx = @ \o Replies(s, UdpPackets(b), taken)]
         /\ uremoved' = IF c.rclosed THEN uremoved \cup {s} ELSE uremoved
  /\ Handled(e)
  /\ UNCHANGED <<setting, at, events, due, handles, posted, told>>

\* remove_closed, and check_timeout when it is due.  A check_timeout that does
\* not ask who uses the socket:
Unused_any(h) == h.idle >= Forgotten

Unused(h) == h.refs = 0 /\ h.idle >= Forgotten

UdpRemoved(timeout) ==
  LET gone == uremoved \cap DOMAIN uconns
      left == [d \in DOMAIN handles |->
                 [handles[d] EXCEPT !.refs = @ - Cardinality({s \in gone : uconns[s].local = d})]]
      late == {d \in DOMAIN left : timeout /\ Unused(left[d])}
  IN  /\ uconns' = Without(uconns, gone)
      /\ handles' = Without(left, late)
      /\ usocks' = Without(usocks, late)
      /\ uremoved' = {}
      /\ UNCHANGED <<posted, told>>

UdpWait(n) ==
  /\ uconns' = [s \in DOMAIN uconns |-> [uconns[s] EXCEPT !.idle = Least(@ + 1, n)]]
  /\ handles' = [d \in DOMAIN handles |-> [handles[d] EXCEPT !.idle = Least(@ + 1, n)]]

-----------------------------------------------------------------------------
(* Applications, in interface.poll, and the server *)

\* preprocess_packet makes a socket for a new destination.  smoltcp drops what
\* the receive buffer has no room for.
Post ==
  /\ at = "iface" /\ posted < Len(setting.datagrams)
  /\ LET k == posted + 1
         d == Dst(k)
         sock == IF d \in DOMAIN usocks THEN usocks[d]
                 ELSE [rx |-> <<>>, tx |-> <<>>, wakers |-> {"rx", "tx"}]
     IN  IF d \in Private \/ Len(sock.rx) = UdpCap THEN UNCHANGED <<usocks, events>>
         ELSE /\ usocks' = Put(usocks, d, [sock EXCEPT !.rx = Append(@, k), !.wakers = @ \ {"rx"}])
              /\ events' = events \cup Sent("udp", d, sock.wakers \cap {"rx"})
  /\ posted' = posted + 1
  /\ UNCHANGED <<setting, at, batch, due, handles, uconns, uremoved, told>>

\* A packet leaves the socket, from the socket's address.
Tell(d) ==
  /\ at = "iface" /\ usocks[d].tx # <<>>
  /\ LET r == Head(usocks[d].tx)
     IN  told' = [told EXCEPT ![r.to] = Append(@, [from |-> d, packet |-> r.packet])]
  /\ usocks' = [usocks EXCEPT ![d].tx = Tail(@), ![d].wakers = @ \ {"tx"}]
  /\ events' = events \cup Sent("udp", d, usocks[d].wakers \cap {"tx"})
  /\ UNCHANGED <<setting, at, batch, due, handles, uconns, uremoved, posted>>

UdpPeer(s, remote) ==
  /\ uconns' = [uconns EXCEPT ![s].remote = remote]
  /\ UNCHANGED <<loopvars, usocks, handles, uremoved, posted, told>>

UdpConnect(s) == Connects(uconns[s].remote) /\ UdpPeer(s, Connected(uconns[s].remote))

UdpGreet(s) == Greets(uconns[s].remote) /\ UdpPeer(s, Greeted(uconns[s].remote))

UdpDeliver(s) == Delivers(uconns[s].remote) /\ UdpPeer(s, Delivered(uconns[s].remote))

UdpServe(s) ==
  /\ Serves(uconns[s].remote) /\ uconns[s].remote.said < setting.downs
  /\ UdpPeer(s, Served(uconns[s].remote))

UdpEnd(s) ==
  \/ "fin" \in setting.ends /\ Serves(uconns[s].remote) /\ UdpPeer(s, Finished(uconns[s].remote))
  \/ "rst" \in setting.ends /\ Resettable(uconns[s].remote) /\ UdpPeer(s, WithReset(uconns[s].remote))
  \/ "bad" \in setting.ends /\ Breakable(uconns[s].remote) /\ UdpPeer(s, WithBadRecord(uconns[s].remote))
=============================================================================
