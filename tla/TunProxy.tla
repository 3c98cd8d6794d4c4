------------------------------ MODULE TunProxy ------------------------------
(***************************************************************************)
(* The Windows tun proxy as a whole (run, wintun/mod.rs): the routes that  *)
(* are set when it starts (IPSet), and the loop that drives the TCP server *)
(* (TunTcp) and the UDP server (TunUdp).                                   *)
(***************************************************************************)
EXTENDS TunTcp, TunUdp, IPSet

CONSTANTS
  PrivateNets,  \* what with_file adds to a list that is to be inverted
  Settings      \* the worlds of this instance

\* list, inverse: the route list and the option inverse_route; pooled: whether
\* the pool hands out connections that are connecting or ready; syns, ups: how
\* often an application sends its SYN, and how many chunks; datagrams: those of
\* UDP applications; downs: chunks of the server per connection; bad: packets
\* among them that are invalid; drops: replies a full socket may drop; ends:
\* what may end a connection; timer: how long nothing happens at most.
SettingOK(s) ==
  /\ DOMAIN s = {"list", "inverse", "pooled", "syns", "ups", "datagrams", "downs", "bad",
                 "drops", "ends", "timer"}
  /\ s.list \in Seq(Cidrs) /\ s.inverse \in BOOLEAN /\ s.pooled \in {"connecting", "ready"}
  /\ {s.syns, s.ups, s.downs, s.drops, s.timer} \subseteq Nat
  /\ s.datagrams \in Seq([src : Sources, dst : Dests])
  /\ s.bad \subseteq Nat /\ s.ends \subseteq {"fin", "rst", "bad", "appfin", "apprst"}

ASSUME SettingsAssumption == \A s \in Settings : SettingOK(s)
ASSUME PrivateAssumption ==
  PrivateNets \in Seq(Cidrs) /\ {0, MaxAddr} \subseteq Covered(PrivateNets)

VARIABLE routes  \* networks whose packets go to the tunnel

vars == <<loopvars, tcpvars, udpvars, routes>>

Init ==
  /\ setting \in Settings
  /\ at = "start" /\ events = {} /\ batch = {} /\ due = FALSE
  /\ sockets = << >> /\ conns = << >> /\ removed = {} /\ apps = [a \in Apps |-> NewApp]
  /\ usocks = << >> /\ handles = << >> /\ uconns = << >> /\ uremoved = {}
  /\ posted = 0 /\ told = [s \in Sources |-> <<>>]
  /\ routes = <<>>

apply_ipset ==
  /\ at = "start"
  /\ routes' = Routes(setting.list, PrivateNets, setting.inverse)
  /\ at' = "iface"
  /\ UNCHANGED <<setting, events, batch, due, tcpvars, udpvars>>

\* interface.poll is over: the servers drain the channels of the wakers.
Interface ==
  /\ at = "iface"
  /\ at' = "local" /\ batch' = get_events(events) /\ events' = {}
  /\ UNCHANGED <<setting, due, tcpvars, udpvars, routes>>

Remote(of, fs) ==
  {[of |-> of, key |-> x, kinds |-> EventOf(fs[x].remote)] :
     x \in {y \in DOMAIN fs : EventOf(fs[y].remote) # {}}}

\* poll.poll: everything that is armed and ready is reported.
Poll ==
  /\ at = "local" /\ batch = {}
  /\ at' = "events" /\ batch' = Remote("tcp", conns) \cup Remote("udp", uconns)
  /\ conns' = [h \in DOMAIN conns |-> [conns[h] EXCEPT !.remote = Reported(@)]]
  /\ uconns' = [s \in DOMAIN uconns |-> [uconns[s] EXCEPT !.remote = Reported(@)]]
  /\ UNCHANGED <<setting, events, due, sockets, removed, apps, usocks, handles, uremoved,
                 posted, told, routes>>

\* The end of the round: remove_closed, and check_timeout every 60 seconds.
EndOfRound ==
  /\ at = "events" /\ batch = {}
  /\ TcpRemoved(due) /\ UdpRemoved(due)
  /\ at' = "iface" /\ due' = FALSE
  /\ UNCHANGED <<setting, batch, routes>>

Handlers(e) == TcpUnused(e) \/ TcpLocal(e) \/ TcpRemote(e)

UdpHandlers(e) == UdpLocal(e) \/ UdpDrained(e) \/ UdpRemote(e)

Loop ==
  \/ apply_ipset \/ Interface \/ Poll \/ EndOfRound
  \/ \E e \in batch : Handlers(e) /\ UNCHANGED <<udpvars, routes>>
  \/ \E e \in batch : UdpHandlers(e) /\ UNCHANGED <<tcpvars, routes>>

Busy == events # {} \/ Remote("tcp", conns) # {} \/ Remote("udp", uconns) # {}

Idles == {conns[h].idle : h \in DOMAIN conns} \cup {uconns[s].idle : s \in DOMAIN uconns}
           \cup {handles[d].idle : d \in DOMAIN handles}

\* A long time in which the loop has nothing to do.
Wait ==
  /\ at = "iface" /\ ~Busy /\ \E n \in Idles : n < setting.timer
  /\ TcpWait(setting.timer) /\ UdpWait(setting.timer)
  /\ due' = TRUE
  /\ UNCHANGED <<setting, at, events, batch, sockets, removed, apps, usocks, uremoved, posted,
                 told, routes>>

App(a) == Syn(a) \/ Open(a) \/ Send(a) \/ Receive(a) \/ Fin(a) \/ AckFin(a) \/ Reset(a) \/ Expire(a)

TcpPeers(h) == TcpConnect(h) \/ TcpGreet(h) \/ TcpDeliver(h) \/ TcpServe(h) \/ TcpEnd(h)

UdpPeers(s) == UdpConnect(s) \/ UdpGreet(s) \/ UdpDeliver(s) \/ UdpServe(s) \/ UdpEnd(s)

Next ==
  \/ Loop \/ Wait
  \/ (\E a \in Apps : App(a)) /\ UNCHANGED <<udpvars, routes>>
  \/ (\E h \in DOMAIN conns : TcpPeers(h)) /\ UNCHANGED <<udpvars, routes>>
  \/ (Post \/ \E d \in DOMAIN usocks : Tell(d)) /\ UNCHANGED <<tcpvars, routes>>
  \/ (\E s \in DOMAIN uconns : UdpPeers(s)) /\ UNCHANGED <<tcpvars, routes>>

Spec == Init /\ [][Next]_vars

\* The loop never stops, as poll has a timeout of a millisecond: a step of it is
\* always possible, and so happens again and again.  Segments of
\* applications wait in the adapter until interface.poll takes them, so those
\* that answer are strongly fair; so is Wait, as time passes however often the
\* loop turns; the network and the server go on.
\* Nobody has to send or to close anything.
Fairness ==
  /\ []<><<Loop>>_vars
  /\ SF_vars(Wait)
  /\ SF_vars((\E a \in Apps : Open(a) \/ Receive(a) \/ AckFin(a) \/ Expire(a))
               /\ UNCHANGED <<udpvars, routes>>)
  /\ WF_vars((\E h \in DOMAIN conns : TcpConnect(h) \/ TcpGreet(h) \/ TcpDeliver(h))
               /\ UNCHANGED <<udpvars, routes>>)
  /\ \A s \in Sources :
       WF_vars(s \in DOMAIN uconns /\ (UdpConnect(s) \/ UdpGreet(s) \/ UdpDeliver(s))
                 /\ UNCHANGED <<tcpvars, routes>>)

LiveSpec == Spec /\ Fairness

-----------------------------------------------------------------------------
(* Properties of the TCP server *)

Count(n) == [i \in 1 .. n |-> i]

\* Nothing is lost or reordered between an application and the server, behind
\* the request, and back, while the connection lasts: data waits in the socket
\* until the TLS connection is ready, in the session until the handshake is
\* over, and one chunk in lbuffer when the application does not keep up.
NothingLost ==
  \A h \in DOMAIN conns :
    LET c == conns[h]
        p == c.remote
        k == sockets[h]
        a == apps[k.app]
    IN  ~c.rclosed /\ p.end # "rst" =>
          /\ p.heard \o p.out \o p.session \o p.plain \o k.rx
               = (IF c.established THEN <<Header>> ELSE <<>>) \o Count(a.sent)
          /\ a.got \o k.tx \o c.lbuffer \o p.dec \o p.in = Count(p.said)

\* An application that is told the end of the stream has got everything that
\* reads have returned, and after an orderly end of the server everything the
\* server sent: closing never overtakes lbuffer or the send buffer.  Only a reset
\* and a bad record take data with them: what the socket still held.
RemainingDataSent ==
  \A h \in DOMAIN conns :
    LET p == conns[h].remote
        a == apps[sockets[h].app]
    IN  a.ended /\ ~a.reset =>
          /\ a.got = Count(p.seen)
          /\ p.end = "fin" => p.seen = p.said
          /\ p.end = "bad" => p.seen + Len(p.in) = p.said

\* A wake, and an event of mio, is only ever handled for a socket that is still
\* there: get_socket() of a handle that was removed panics.
EventsHaveSockets ==
  /\ \A e \in events : e.key \in IF e.of = "tcp" THEN DOMAIN sockets ELSE DOMAIN usocks
  /\ \A e \in batch :
       IF e.of = "tcp"
       THEN /\ at = "local" => e.key \in DOMAIN sockets
            /\ at = "events" => e.key \in DOMAIN conns \cap DOMAIN sockets
       ELSE /\ at = "local" => e.key \in DOMAIN usocks
            /\ at = "events" => e.key \in DOMAIN uconns /\ uconns[e.key].local \in DOMAIN usocks

ConnOf(a) == {h \in DOMAIN conns : sockets[h].app = a}

Lost(a) ==
  \/ apps[a].reset \/ (apps[a].syns > 0 /\ ~\E h \in DOMAIN sockets : sockets[h].app = a)
  \/ \E h \in ConnOf(a) : conns[h].remote.end \in {"rst", "bad"}

\* What an application sends reaches the server, unless one of them ends the
\* connection or the rest of a burst stays in the session: flush() writes once,
\* and what is left has no writable event coming.  What the server sends reaches
\* the application unless one of them resets, or the stream goes bad.
EverythingArrives ==
  \A a \in Apps : setting.timer = 0 =>
    /\ apps[a].sent > 0
         ~> \/ Lost(a) \/ \E h \in ConnOf(a) : conns[h].remote.end = "fin"
            \/ \E h \in ConnOf(a) : Len(conns[h].remote.heard) = apps[a].sent + 1
            \/ [](\E h \in ConnOf(a) : Unflushed(conns[h].remote))
    /\ (\E h \in ConnOf(a) : conns[h].remote.said > 0)
         ~> \/ Lost(a)
            \/ \A h \in ConnOf(a) : Len(apps[a].got) = conns[h].remote.said

Ended(h) ==
  \/ conns[h].remote.end # "open" \/ conns[h].rclosed \/ conns[h].lclosed
  \/ sockets[h].state = "Closed"

\* A connection that the server has ended, or the application has reset, is
\* closed on both sides without waiting for a timer, and it is removed at the
\* latest when nothing has happened for two minutes.
ClosedIsRemoved ==
  \A a \in Apps :
    /\ (apps[a].reset \/ \E h \in ConnOf(a) : Ended(h))
         ~> \A h \in ConnOf(a) : conns[h].lclosed /\ conns[h].rclosed
    /\ setting.timer > 0 => ((\E h \in ConnOf(a) : Ended(h)) ~> ConnOf(a) = {})

-----------------------------------------------------------------------------
(* Properties of the UDP server *)

\* The count of a handle is the number of connections that reply through it,
\* so a socket is not removed while one of them is left, and the count does not
\* go below zero.
HandlesCounted ==
  /\ \A d \in DOMAIN handles :
       handles[d].refs = Cardinality({s \in DOMAIN uconns : uconns[s].local = d})
  /\ \A s \in DOMAIN uconns : uconns[s].local \in DOMAIN handles \cap DOMAIN usocks

\* The server gets the request first, and then datagrams of this source only,
\* each at most once, and those for one destination in the order in which they
\* were sent; the datagram that waits for the connection is not overtaken by a
\* later one.  Datagrams for different destinations wait in different sockets,
\* whose events come out of a HashMap: their order may change.
DatagramsInOrder ==
  \A s \in DOMAIN uconns :
    LET p == uconns[s].remote
        data == p.heard \o p.out \o p.session \o p.plain \o uconns[s].rbuffer
    IN  /\ uconns[s].established => data # <<>> /\ Head(data) = Request
        /\ \A i \in 1 .. Len(data) : data[i] = Request \/ Src(data[i]) = s
        /\ \A i, j \in 1 .. Len(data) : i < j =>
             /\ data[j] \notin {Request, data[i]}
             /\ data[i] # Request /\ Dst(data[i]) = Dst(data[j]) => data[i] < data[j]

\* The server's packets are taken out of its stream whole, in order and each
\* once, wherever reads split them, and none behind an invalid one.
PacketsInStep ==
  \A s \in DOMAIN uconns :
    LET c == uconns[s]
    IN  /\ c.gave = Count(Len(c.gave)) /\ \A i \in DOMAIN c.gave : c.gave[i] \notin setting.bad
        /\ ~c.rclosed => 2 * Len(c.gave) + Len(c.lbuffer) = c.remote.seen

\* The datagram that opens a connection reaches the server although the
\* connection is not ready when it comes, unless the server ends it.
OpenerArrives ==
  \A s \in Sources : setting.timer = 0 =>
    (s \in DOMAIN uconns
       ~> \/ s \notin DOMAIN uconns \/ uconns[s].remote.end # "open"
          \/ \E i \in 1 .. Len(uconns[s].remote.heard) :
               uconns[s].remote.heard[i] = uconns[s].opener)

-----------------------------------------------------------------------------
(* Properties of the routes *)

\* Inverted, the routes are exactly the addresses that are neither listed nor
\* private, none of them twice, for lists whose networks do not lie strictly
\* inside one another.
RoutesAreComplement ==
  at # "start" /\ setting.inverse /\ Aligned(setting.list \o PrivateNets) =>
    /\ Covered(routes) = (0 .. MaxAddr) \ Covered(setting.list \o PrivateNets)
    /\ \A i, j \in 1 .. Len(routes) :
         i # j => Final(routes[i]) < First(routes[j]) \/ Final(routes[j]) < First(routes[i])
=============================================================================
