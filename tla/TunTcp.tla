------------------------------- MODULE TunTcp -------------------------------
(***************************************************************************)
(* The TCP half of the Windows tun proxy: TcpServer and its connections    *)
(* (wintun/tcp.rs), and the sockets that wintun/tun.rs makes for them.     *)
(*                                                                         *)
(* An application's SYN gets a socket of its own, which smoltcp answers    *)
(* for the destination; the connection behind it copies between that       *)
(* socket and a TLS connection to the trojan server.  Applications and     *)
(* server send the chunks 1, 2, ...; Header is the trojan request.         *)
(*                                                                         *)
(* The session of the TLS connection has no limit, so a write to it does   *)
(* not block and Connection.rbuffer is empty whenever a handler returns.   *)
(***************************************************************************)
EXTENDS SmolTcp, TunLoop

CONSTANTS Apps  \* applications that connect, each once

VARIABLES
  sockets,  \* handle -> TCP socket of the interface
  conns,    \* TcpServer.handle2conns (and token2conns): handle -> Connection
  removed,  \* TcpServer.removed
  apps      \* what each application has done and got

tcpvars == <<sockets, conns, removed, apps>>

Header == 0

\* How long a connection has had no event: more than 120 seconds (1), 600 (2)
\* and 3600 (3).
Long == 1
Longest == 3

NewConnection(remote) ==
  [remote |-> remote, lbuffer |-> <<>>, lclosed |-> FALSE, rclosed |-> FALSE,
   established |-> FALSE, idle |-> 0]

-----------------------------------------------------------------------------
(* Connection: operators on [sock, c, ev], its socket, itself and the wakes *)

\* A close_stream that leaves the wakers of the socket registered.
close_local_wakes(s) ==
  IF s.c.lclosed THEN s ELSE [close_tcp(s) EXCEPT !.c.lclosed = TRUE]

close_local(s) ==
  IF s.c.lclosed THEN s
  ELSE [close_tcp([s EXCEPT !.sock.wakers = {}]) EXCEPT !.c.lclosed = TRUE]

close_remote(s) ==
  IF s.c.rclosed THEN s ELSE [s EXCEPT !.c.remote = close(@), !.c.rclosed = TRUE]

\* A check_half_close that does not wait for what is still to be sent.
check_half_close_early(s) ==
  LET t == IF s.c.lclosed THEN close_remote(s) ELSE s
  IN  IF t.c.rclosed THEN [close_local(t) EXCEPT !.c.lbuffer = <<>>] ELSE t

\* A check_half_close that only looks at the remote side.
check_half_close_one_way(s) ==
  IF s.c.rclosed /\ s.c.lbuffer = <<>> THEN close_local(s) ELSE s

check_half_close(s) ==
  LET t == IF s.c.lclosed THEN close_remote(s) ELSE s
  IN  IF t.c.rclosed /\ t.c.lbuffer = <<>> THEN close_local(t) ELSE t

\* A reregister_local that waits for the application only.
reregister_local_rx(s) ==
  IF s.c.lclosed THEN s
  ELSE [s EXCEPT !.sock.wakers = @ \cup IF s.c.rclosed THEN {} ELSE {"rx"}]

reregister_local(s) ==
  IF s.c.lclosed THEN s
  ELSE [s EXCEPT !.sock.wakers = @ \cup (IF s.c.lbuffer = <<>> THEN {} ELSE {"tx"})
                                   \cup (IF s.c.rclosed THEN {} ELSE {"rx"})]

flush_remote(s) ==
  IF FlushFails(s.c.remote) THEN close_remote(s) ELSE [s EXCEPT !.c.remote = flush(@)]

\* copy_stream takes everything the application has sent; reading breaks when
\* the socket is not active any more, and a FIN alone is no such end.
local_to_remote(s) ==
  LET t == [s EXCEPT !.sock.rx = <<>>, !.c.remote = write(@, s.sock.rx)]
      u == IF is_active(t.sock) THEN t ELSE close_local(t)
  IN  CASE ~s.c.established /\ is_active(s.sock)  -> s
        [] ~s.c.established /\ ~is_active(s.sock) -> close_local(s)
        [] s.c.established                        -> IF u.c.rclosed THEN u ELSE flush_remote(u)

\* A copy_stream that reads on although the application does not keep up.
CopyToLocal_reads_on(s) ==
  LET data == s.c.lbuffer \o Readable(s.c.remote)
      room == IF may_send(s.sock) THEN TxCap - Len(s.sock.tx) ELSE 0
      n    == Least(room, Len(data))
  IN  [s EXCEPT !.sock.tx = @ \o SubSeq(data, 1, n), !.c.lbuffer = <<>>,
                !.c.remote = ReadSome(@, Len(Readable(@)))]

\* copy_stream towards the application: chunks are read and written in turn
\* until the local socket takes no more, when one chunk is left in lbuffer, or
\* the remote has no more.
CopyToLocal(s) ==
  LET data == s.c.lbuffer \o Readable(s.c.remote)
      room == IF may_send(s.sock) THEN TxCap - Len(s.sock.tx) ELSE 0
      n    == Least(room, Len(data))
      held == SubSeq(data, n + 1, Least(n + 1, Len(data)))
  IN  [s EXCEPT !.sock.tx = @ \o SubSeq(data, 1, n), !.c.lbuffer = held,
                !.c.remote = IF n + Len(held) <= Len(s.c.lbuffer) THEN @
                             ELSE ReadSome(@, n + Len(held) - Len(s.c.lbuffer))]

\* TxBlock and TxBreak while a chunk is held, RxBlock and RxBreak otherwise.
remote_to_local(s) ==
  LET t == CopyToLocal(s)
      u == CASE t.c.lbuffer # <<>> /\ is_active(t.sock)  -> t
             [] t.c.lbuffer # <<>> /\ ~is_active(t.sock) -> close_local([t EXCEPT !.c.lbuffer = <<>>])
             [] t.c.lbuffer = <<>> /\ ReadBreaks(t.c.remote)  -> close_remote(t)
             [] OTHER -> [t EXCEPT !.c.remote = ReadBlocks(@)]
  IN  IF u.c.rclosed /\ u.c.lbuffer = <<>> /\ t.sock.tx = <<>> THEN close_local(u) ELSE u

do_local(s, kinds) ==
  LET a == [s EXCEPT !.c.idle = 0]
      b == IF "rx" \in kinds THEN local_to_remote(a) ELSE a
      c == IF "tx" \in kinds THEN remote_to_local(b) ELSE b
  IN  reregister_local(check_half_close(c))

\* The first writable event makes the request, in front of all other data.
do_remote(s, kinds) ==
  LET a == [s EXCEPT !.c.idle = 0]
      b == IF s.c.established THEN a
           ELSE [a EXCEPT !.c.remote = write(@, <<Header>>), !.c.established = TRUE]
      c == IF "w" \in kinds THEN local_to_remote(b) ELSE a
      d == IF "r" \in kinds THEN remote_to_local(c) ELSE c
  IN  IF "w" \in kinds /\ ~s.c.established /\ s.c.lclosed THEN close_remote(a)
      ELSE reregister_local(check_half_close(d))

is_closed(s) == s.c.rclosed /\ s.sock.state = "Closed"

-----------------------------------------------------------------------------
(* TcpServer *)

\* The state after a handler of connection h.
Handler(h, s, base) ==
  /\ sockets' = [sockets EXCEPT ![h] = s.sock]
  /\ conns' = Put(conns, h, s.c)
  /\ events' = base \cup Sent("tcp", h, s.ev)
  /\ removed' = IF is_closed(s) THEN removed \cup {h} ELSE removed

\* A socket that no connection belongs to listens: its SYN was not for it.
TcpUnused(e) ==
  /\ Handling("local", e) /\ e.of = "tcp"
  /\ sockets[e.key].state = "Listen" /\ e.key \notin DOMAIN conns
  /\ sockets' = Without(sockets, {e.key})
  /\ Handled(e)
  /\ UNCHANGED <<setting, at, events, due, conns, removed, apps>>

\* TcpServer::do_local for an event: a new socket gets a connection of the pool.
TcpLocal(e) ==
  /\ Handling("local", e) /\ e.of = "tcp"
  /\ LET h == e.key
         c == IF h \in DOMAIN conns THEN conns[h] ELSE NewConnection(Pooled(setting.pooled))
     IN  /\ ~(sockets[h].state = "Listen" /\ h \notin DOMAIN conns)
         /\ Handler(h, do_local([sock |-> sockets[h], c |-> c, ev |-> {}], e.kinds), events)
  /\ Handled(e)
  /\ UNCHANGED <<setting, at, due, apps>>

TcpRemote(e) ==
  /\ Handling("events", e) /\ e.of = "tcp"
  /\ LET h == e.key
     IN  Handler(h, do_remote([sock |-> sockets[h], c |-> conns[h], ev |-> {}], e.kinds), events)
  /\ Handled(e)
  /\ UNCHANGED <<setting, at, due, apps>>

\* remove_closed, and check_timeout when it is due.
TcpExpired(c) == (c.lclosed /\ c.idle >= Long) \/ c.idle >= Longest

TcpRemoved(timeout) ==
  LET late == {h \in DOMAIN conns \ removed : timeout /\ TcpExpired(conns[h])}
      gone == (removed \cap DOMAIN conns) \cup late
      \* abort() if the local side is closed already, then close()
      End(h) == LET s == [sock |-> sockets[h], c |-> conns[h], ev |-> {}]
                IN  close_remote(close_local(IF s.c.lclosed /\ s.c.idle >= Long
                                             THEN set_state(s, "Closed") ELSE s))
  IN  /\ sockets' = Without(sockets, gone)
      /\ conns' = Without(conns, gone)
      /\ removed' = {}
      /\ events' = events \cup UNION {Sent("tcp", h, End(h).ev) : h \in late}
      /\ UNCHANGED apps

\* Time passes for every connection.
TcpWait(n) == conns' = [h \in DOMAIN conns |-> [conns[h] EXCEPT !.idle = Least(@ + 1, n)]]

-----------------------------------------------------------------------------
(* Applications: their segments are handled in interface.poll *)

HandleOf(a) == {h \in DOMAIN sockets : sockets[h].app = a /\ sockets[h].state # "Listen"}

Free == CHOOSE h \in 1 .. Cardinality(DOMAIN sockets) + 1 :
          h \notin DOMAIN sockets /\ \A g \in 1 .. h - 1 : g \in DOMAIN sockets

\* preprocess_packet makes a listening socket for every SYN, which fires the
\* waker that was registered for it.  smoltcp hands the SYN to the socket of
\* the same application, if there is one, and to the new one otherwise.
Syn(a) ==
  /\ at = "iface" /\ apps[a].syns < setting.syns
  /\ apps[a].syns = 0 \/ HandleOf(a) # {}
  /\ LET fresh == set_state([sock |-> [app |-> a, state |-> "Listen", rx |-> <<>>, tx |-> <<>>,
                                       wakers |-> {"tx"}], ev |-> {}], "Listen")
         first == apps[a].syns = 0
     IN  /\ sockets' = Put(sockets, Free, IF first THEN SynTaken(fresh).sock ELSE fresh.sock)
         /\ events' = events \cup Sent("tcp", Free, fresh.ev)
  /\ apps' = [apps EXCEPT ![a].syns = @ + 1]
  /\ UNCHANGED <<setting, at, batch, due, conns, removed>>

\* A segment that changes socket h of application a.
Segment(h, s) ==
  /\ at = "iface"
  /\ sockets' = [sockets EXCEPT ![h] = s.sock]
  /\ events' = events \cup Sent("tcp", h, s.ev)
  /\ UNCHANGED <<setting, at, batch, due, conns, removed>>

Work(h) == [sock |-> sockets[h], ev |-> {}]

Open(a) == \E h \in HandleOf(a) :
  /\ sockets[h].state = "SynReceived" /\ ~apps[a].reset
  /\ Segment(h, Opened(Work(h)))
  /\ UNCHANGED apps

Send(a) == \E h \in HandleOf(a) :
  /\ CanTake(sockets[h]) /\ apps[a].sent < setting.ups /\ ~apps[a].fin
  /\ Segment(h, Took(Work(h), apps[a].sent + 1))
  /\ apps' = [apps EXCEPT ![a].sent = @ + 1]

Receive(a) == \E h \in HandleOf(a) :
  /\ CanGive(sockets[h])
  /\ Segment(h, Gave(Work(h)))
  /\ apps' = [apps EXCEPT ![a].got = Append(@, Head(sockets[h].tx))]

Fin(a) == \E h \in HandleOf(a) :
  /\ "appfin" \in setting.ends /\ CanFin(sockets[h]) /\ ~apps[a].fin
  /\ Segment(h, FinTaken(Work(h)))
  /\ apps' = [apps EXCEPT ![a].fin = TRUE]

AckFin(a) == \E h \in HandleOf(a) :
  /\ CanAckFin(sockets[h])
  /\ Segment(h, FinAcked(Work(h)))
  /\ apps' = [apps EXCEPT ![a].ended = TRUE]

Reset(a) == \E h \in HandleOf(a) :
  /\ "apprst" \in setting.ends /\ CanReset(sockets[h])
  /\ Segment(h, WasReset(Work(h)))
  /\ apps' = [apps EXCEPT ![a].reset = TRUE]

Expire(a) == \E h \in HandleOf(a) :
  /\ sockets[h].state = "TimeWait"
  /\ Segment(h, Expired(Work(h)))
  /\ UNCHANGED apps

NewApp == [syns |-> 0, sent |-> 0, got |-> <<>>, fin |-> FALSE, ended |-> FALSE, reset |-> FALSE]

-----------------------------------------------------------------------------
(* The network and the server behind connection h *)

Peer(h, remote) ==
  /\ conns' = [conns EXCEPT ![h].remote = remote]
  /\ UNCHANGED <<loopvars, sockets, removed, apps>>

TcpConnect(h) == Connects(conns[h].remote) /\ Peer(h, Connected(conns[h].remote))

TcpGreet(h) == Greets(conns[h].remote) /\ Peer(h, Greeted(conns[h].remote))

TcpDeliver(h) == Delivers(conns[h].remote) /\ Peer(h, Delivered(conns[h].remote))

TcpServe(h) ==
  /\ Serves(conns[h].remote) /\ conns[h].remote.said < setting.downs
  /\ Peer(h, Served(conns[h].remote))

TcpEnd(h) ==
  \/ "fin" \in setting.ends /\ Serves(conns[h].remote) /\ Peer(h, Finished(conns[h].remote))
  \/ "rst" \in setting.ends /\ Resettable(conns[h].remote) /\ Peer(h, WithReset(conns[h].remote))
  \/ "bad" \in setting.ends /\ Breakable(conns[h].remote) /\ Peer(h, WithBadRecord(conns[h].remote))
=============================================================================
