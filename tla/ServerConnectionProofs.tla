----------------------- MODULE ServerConnectionProofs -----------------------
(***************************************************************************)
(* Theorems about ServerConnection, for every setting, every number of     *)
(* chunks and every size of the sockets' buffers: nothing is lost in       *)
(* either direction, nobody's slowness makes the server hoard data, and    *)
(* what is left is sent before a side is closed because the other ended.   *)
(*                                                                         *)
(* A handler is a chain of operators on the connection's record, so most   *)
(* of what follows is about records: each operator keeps what Sane,        *)
(* Upstream and Downstream say of one.                                     *)
(***************************************************************************)
EXTENDS ServerConnection, TlsConnProofs, FiniteSetTheorems

Forwarding == {"TCPForward", "UDPForward"}

\* The chunks of the payload among the n that the client has sent.
PayloadOf(n, req) == IF req = "none" \/ n = 0 THEN n ELSE n - 1

\* All the client has sent, header included.
Sends(n, req) == [i \in 1 .. n |-> IF req = "none" THEN i ELSE i - 1]

\* What the server has for the target, in the order it gets it.
Held(b) == b.stream.out \o b.send_buffer
Forwarded(c) == Held(c.backend) \o c.data

BackendFits(b) == Len(b.stream.out) <= IF b.kind = "udp" THEN 2 * Cap ELSE Cap

Sane(c) ==
  /\ c \in Connections
  /\ c.proxy.side = "server" /\ Len(c.proxy.stream.out) <= Cap
  /\ BackendFits(c.backend)
  /\ c.backend.kind = "none" => c.backend = NoBackend
  /\ c.backend.kind # "none" => c.backend.status # "Connecting"

\* Where the connection is between its request and its target.
Phase(c, n, req) ==
  /\ c.backend.kind = "none" /\ c.status \in Forwarding => is_shutdown(c.proxy.status)
  /\ c.backend.kind # "none" => c.data = <<>> /\ c.status \in Forwarding
  /\ c.status = "HandShake" =>
       /\ c.data = <<>> /\ c.command = "CONNECT" /\ c.sock5_addr = "None"
       /\ \/ c.proxy.stream.in = Sends(n, req)
          \/ /\ c.proxy.stream.in = <<>>
             /\ is_shutdown(c.proxy.status) /\ c.proxy.stream.end = "bad"
  /\ c.status # "HandShake" =>
       /\ \A i \in 1 .. Len(c.proxy.stream.in) : c.proxy.stream.in[i] # Header
       /\ req # "none" => n > 0
  /\ c.sock5_addr = "Domain" => c.command = "CONNECT" /\ req = "domain"
  /\ c.command = "UDP_ASSOCIATE" /\ c.backend.kind = "none" =>
       is_shutdown(c.proxy.status) /\ c.proxy.stream.in = <<>>

\* Nothing of what the client sent has been thrown away.
Intact(c) ==
  IF c.backend.kind = "none"
  THEN /\ c.status \notin Forwarding /\ c.command = "CONNECT"
       /\ is_shutdown(c.proxy.status) => c.proxy.stream.end # "bad"
  ELSE alive(c.backend.status) /\ c.proxy.stream.end # "bad"

UpFlow(c, g, n) ==
  /\ c.backend.kind = "none" => g = <<>>
  /\ Prefix(g \o Forwarded(c), n)
  /\ Intact(c) => (g \o Forwarded(c)) \o NoHeader(c.proxy.stream.in) = Count(n)

\* Only a domain leaves a connection without a target that is still read.
UpBound(c, req) ==
  c.backend.kind = "none" /\ c.status # "HandShake" /\ req # "domain" =>
    is_shutdown(c.proxy.status) /\ c.proxy.stream.in = <<>>

\* g is what the target has received, n how many chunks the client has sent.
Upstream(c, g, n, req) ==
  Phase(c, n, req) /\ UpFlow(c, g, PayloadOf(n, req)) /\ UpBound(c, req)

\* g is what the client has received, n how many chunks the target has sent.
DownFlow(c, g, n) ==
  /\ Prefix(g \o c.proxy.stream.out, n)
  /\ ~is_shutdown(c.proxy.status) =>
       (g \o (c.proxy.stream.out \o c.proxy.session)) \o c.backend.stream.in = Count(n)

\* A session that calls itself writable holds nothing.
DownBound(c) ==
  ~is_shutdown(c.proxy.status) /\ c.proxy.writable => c.proxy.session = <<>>

Downstream(c, g, n) == DownFlow(c, g, n) /\ DownBound(c)

-----------------------------------------------------------------------------
(* Steps that leave one direction alone *)

UpSame(c, d) ==
  /\ d.status = c.status /\ d.command = c.command /\ d.sock5_addr = c.sock5_addr
  /\ d.data = c.data
  /\ d.proxy.stream.in = c.proxy.stream.in /\ d.proxy.stream.end = c.proxy.stream.end
  /\ d.backend.kind = c.backend.kind /\ d.backend.send_buffer = c.backend.send_buffer
  /\ d.backend.stream.out = c.backend.stream.out
  /\ is_shutdown(c.proxy.status) => is_shutdown(d.proxy.status)
  /\ alive(d.backend.status) => alive(c.backend.status)

DownSame(c, d) ==
  /\ d.proxy.stream.out = c.proxy.stream.out /\ d.proxy.session = c.proxy.session
  /\ d.proxy.writable = c.proxy.writable
  /\ d.backend.stream.in = c.backend.stream.in
  /\ is_shutdown(c.proxy.status) => is_shutdown(d.proxy.status)

\* What does not touch the client's data keeps Upstream.
LEMMA UpKept ==
  ASSUME NEW c, NEW d, NEW g, NEW n, NEW req, UpSame(c, d), Upstream(c, g, n, req)
  PROVE  Upstream(d, g, n, req)
<1>1. Phase(d, n, req)
  BY DEF UpSame, Upstream, Phase
<1>2. Forwarded(d) = Forwarded(c) /\ (Intact(d) => Intact(c))
  BY DEF UpSame, Forwarded, Held, Intact
<1>3. UpFlow(d, g, PayloadOf(n, req))
  BY <1>2 DEF UpSame, Upstream, UpFlow
<1>4. UpBound(d, req)
  BY DEF UpSame, Upstream, UpBound
<1> QED
  BY <1>1, <1>3, <1>4 DEF Upstream

\* What does not touch the target's data keeps Downstream.
LEMMA DownKept ==
  ASSUME NEW c, NEW d, NEW g, NEW n, DownSame(c, d), Downstream(c, g, n)
  PROVE  Downstream(d, g, n)
BY DEF DownSame, Downstream, DownFlow, DownBound

LEMMA UpSameTwice ==
  ASSUME NEW c, NEW d, NEW e, UpSame(c, d), UpSame(d, e)
  PROVE  UpSame(c, e)
BY DEF UpSame

LEMMA DownSameTwice ==
  ASSUME NEW c, NEW d, NEW e, DownSame(c, d), DownSame(d, e)
  PROVE  DownSame(c, e)
BY DEF DownSame

\* Replacing one side leaves the rest of the connection.
LEMMA WithProxy ==
  ASSUME NEW c \in Connections, NEW p \in TlsConns, NEW d, d = [c EXCEPT !.proxy = p]
  PROVE  /\ d \in Connections /\ d.proxy = p /\ d.backend = c.backend
         /\ d.status = c.status /\ d.command = c.command /\ d.sock5_addr = c.sock5_addr
         /\ d.target_addr = c.target_addr /\ d.data = c.data /\ d.dns = c.dns
         /\ d.read_backend = c.read_backend /\ d.read_proxy = c.read_proxy
BY DEF Connections

LEMMA WithBackend ==
  ASSUME NEW c \in Connections, NEW b \in Backends, NEW d, d = [c EXCEPT !.backend = b]
  PROVE  /\ d \in Connections /\ d.backend = b /\ d.proxy = c.proxy
         /\ d.status = c.status /\ d.command = c.command /\ d.sock5_addr = c.sock5_addr
         /\ d.target_addr = c.target_addr /\ d.data = c.data /\ d.dns = c.dns
         /\ d.read_backend = c.read_backend /\ d.read_proxy = c.read_proxy
BY DEF Connections

LEMMA ConnectionParts ==
  ASSUME NEW c \in Connections
  PROVE  /\ c.proxy \in TlsConns /\ c.proxy.stream \in Streams /\ c.proxy.status \in Statuses
         /\ c.proxy.session \in Chunks /\ c.proxy.stream.in \in Chunks
         /\ c.proxy.stream.out \in Chunks
         /\ c.backend \in Backends /\ c.backend.stream \in Streams
         /\ c.backend.status \in Statuses /\ c.backend.send_buffer \in Chunks
         /\ c.backend.stream.in \in Chunks /\ c.backend.stream.out \in Chunks
         /\ c.data \in Chunks
BY DEF Connections, TlsConns, Backends, Streams
-----------------------------------------------------------------------------
(* The backends *)

\* r is b after taking buffer: what it holds has grown by buffer, unless it had
\* to give up and shut down, when the end of what it would hold is lost.
Passes(b, buffer, r) ==
  /\ r \in Backends /\ r.kind = b.kind /\ BackendFits(r)
  /\ r.stream.in = b.stream.in /\ r.stream.end = b.stream.end
  /\ r.stream.up = b.stream.up /\ r.stream.edge = b.stream.edge
  /\ r.status = b.status \/ is_shutdown(r.status)
  /\ \E lost \in Chunks :
       /\ Held(r) \o lost = Held(b) \o buffer
       /\ ~is_shutdown(r.status) => lost = <<>>
  /\ Len(r.send_buffer) <= Len(b.send_buffer) + Len(buffer)

\* Moving or dropping the end of what was held.
Queued(out, sb, buffer, data) ==
  /\ data = sb \o buffer /\ data \in Chunks /\ out \o data = (out \o sb) \o buffer
  /\ Len(data) = Len(sb) + Len(buffer)
  /\ Len(sb) \in Nat /\ Len(buffer) \in Nat /\ Len(out) \in Nat

LEMMA HeldMoves ==
  ASSUME NEW out \in Chunks, NEW sb \in Chunks, NEW buffer \in Chunks, NEW data, data = sb \o buffer
  PROVE  Queued(out, sb, buffer, data)
<1>1. out \o (sb \o buffer) = (out \o sb) \o buffer
  <2>1. Regroups(out, sb, buffer)
    BY Regrouping, Zenon
  <2> QED
    BY <2>1 DEF Regroups
<1>2. sb \o buffer \in Chunks /\ Len(sb \o buffer) = Len(sb) + Len(buffer)
  BY Joined
<1>3. Len(sb) \in Nat /\ Len(buffer) \in Nat /\ Len(out) \in Nat
  BY NothingJoined
<1> QED
  BY <1>1, <1>2, <1>3 DEF Queued

\* tcp_send.
LEMMA TcpPasses ==
  ASSUME NEW b \in Backends, b.kind # "udp", BackendFits(b), NEW buffer \in Chunks
  PROVE  /\ Passes(b, buffer, tcp_send(b, buffer))
         /\ ~is_shutdown(b.status) /\ b.stream.end # "rst"
              => tcp_send(b, buffer).status = b.status
<1>1. PICK out, sb, data : out = b.stream.out /\ sb = b.send_buffer /\ data = sb \o buffer
  OBVIOUS
<1>2. /\ out \in Chunks /\ sb \in Chunks /\ b.stream \in Streams /\ b.status \in Statuses
      /\ Len(b.stream.out) <= Cap
  BY <1>1 DEF Backends, Streams, BackendFits
<1>3. /\ data \in Chunks /\ out \o data = (out \o sb) \o buffer
      /\ Len(data) = Len(sb) + Len(buffer)
      /\ Len(sb) \in Nat /\ Len(buffer) \in Nat
  <2>1. Queued(out, sb, buffer, data)
    BY <1>1, <1>2, HeldMoves, Zenon
  <2> QED
    BY <2>1 DEF Queued
<1>4. /\ shutdown(b.status) \in Statuses /\ is_shutdown(shutdown(b.status))
      /\ is_shutdown(b.status) => shutdown(b.status) = b.status
  BY <1>2, LifeCycle DEF shutdown
<1>5. PICK r : r = tcp_send(b, buffer)
  OBVIOUS
<1>6. CASE data # <<>> /\ (is_shutdown(b.status) \/ b.stream.end = "rst")
  <2>1. r = [b EXCEPT !.send_buffer = <<>>, !.status = shutdown(b.status)]
    BY <1>6, <1>1, <1>5 DEF tcp_send
  <2>2. r \in Backends
    BY <1>2, <1>4, <2>1, NothingJoined DEF Backends
  <2>3. /\ r.kind = b.kind /\ r.stream = b.stream /\ r.send_buffer = <<>>
        /\ r.status = shutdown(b.status)
    BY <2>1 DEF Backends
  <2>4. Held(r) \o data = Held(b) \o buffer
    BY <1>1, <1>2, <1>3, <2>3, NothingJoined DEF Held
  <2>5. Len(r.send_buffer) <= Len(b.send_buffer) + Len(buffer)
    BY <1>1, <1>2, <1>3, <2>3, NothingJoined
  <2>6. BackendFits(r)
    BY <2>3 DEF BackendFits
  <2> QED
    BY <1>3, <1>4, <1>5, <1>6, <2>2, <2>3, <2>4, <2>5, <2>6 DEF Passes
<1>7. CASE ~(data # <<>> /\ (is_shutdown(b.status) \/ b.stream.end = "rst"))
  <2>1. PICK k, n, w : k = b.stream /\ n = Taken(k, data) /\ w = WriteSome(k, data, n)
    OBVIOUS
  <2>2. r = [b EXCEPT !.send_buffer = Rest(data, n), !.stream = w]
    BY <1>7, <1>1, <1>5, <2>1 DEF tcp_send
  <2>3. /\ k \in Streams /\ Len(k.out) <= Cap /\ data \in Chunks
        /\ w = WriteSome(k, data, Taken(k, data))
    BY <1>2, <1>3, <2>1
  <2>4. /\ w \in Streams /\ Len(w.out) <= Cap
        /\ w.in = k.in /\ w.end = k.end /\ w.up = k.up /\ w.edge = k.edge
        /\ Rest(data, Taken(k, data)) \in Chunks
        /\ Len(Rest(data, Taken(k, data))) <= Len(data)
        /\ w.out \o Rest(data, Taken(k, data)) = k.out \o data
    <3>1. Wrote(k, data, w)
      BY <2>3, Writes, Zenon
    <3> QED
      BY <3>1 DEF Wrote
  <2>5. r \in Backends
    BY <2>1, <2>2, <2>4 DEF Backends
  <2>6. /\ r.kind = b.kind /\ r.stream = w /\ r.send_buffer = Rest(data, n)
        /\ r.status = b.status
    BY <2>2 DEF Backends
  <2>7. Held(r) = Held(b) \o buffer
    BY <1>1, <1>3, <2>1, <2>4, <2>6 DEF Held
  <2>8. Held(r) \in Chunks /\ <<>> \in Chunks /\ Held(r) \o <<>> = Held(r)
    <3>1. w.out \in Chunks /\ Rest(data, n) \in Chunks
      BY <2>1, <2>4 DEF Streams
    <3>2. Held(r) \in Chunks
      BY <2>6, <3>1, Joined DEF Held
    <3> QED
      BY <3>2, NothingJoined
  <2>9. BackendFits(r)
    BY <2>4, <2>6 DEF BackendFits
  <2>10. Len(r.send_buffer) <= Len(b.send_buffer) + Len(buffer)
    BY <1>1, <1>3, <2>1, <2>4, <2>6
  <2> QED
    BY <1>5, <2>1, <2>4, <2>5, <2>6, <2>7, <2>8, <2>9, <2>10 DEF Passes
<1> QED
  BY <1>6, <1>7

\* The parser accepts no more packets than there are.
LEMMA PacketsThere ==
  ASSUME NEW data \in Chunks
  PROVE  Packets(data) \in Nat /\ 2 * Packets(data) <= Len(data)
<1>1. PICK m : m = Len(data) \div 2
  OBVIOUS
<1>2. Len(data) \in Nat /\ m \in Nat /\ 2 * m <= Len(data)
  BY <1>1, NothingJoined
<1>3. PICK S : S = {n \in 1 .. m : \A i \in 1 .. n : data[2 * i - 1] \notin Malformed}
  OBVIOUS
<1>4. S \subseteq 1 .. m /\ IsFiniteSet(1 .. m) /\ Cardinality(1 .. m) = m
  <2>1. S \subseteq 1 .. m
    BY <1>3
  <2>2. 1 \in Int /\ m \in Int
    BY <1>2
  <2>3. IsFiniteSet(1 .. m) /\ Cardinality(1 .. m) = IF 1 <= m THEN m - 1 + 1 ELSE 0
    BY <2>2, FS_Interval
  <2> QED
    BY <1>2, <2>1, <2>3
<1>5. IsFiniteSet(S) /\ Cardinality(S) <= m /\ Cardinality(S) \in Nat
  BY <1>4, FS_Subset, FS_CardinalityType
<1>6. Packets(data) = Cardinality(S)
  BY <1>1, <1>3 DEF Packets
<1> QED
  BY <1>2, <1>5, <1>6

\* udp_dispatch.
LEMMA UdpPasses ==
  ASSUME NEW b \in Backends, b.kind = "udp", BackendFits(b), NEW buffer \in Chunks
  PROVE  Passes(b, buffer, udp_dispatch(b, buffer))
<1>1. PICK out, sb, data : out = b.stream.out /\ sb = b.send_buffer /\ data = sb \o buffer
  OBVIOUS
<1>2. /\ out \in Chunks /\ sb \in Chunks /\ b.stream \in Streams /\ b.status \in Statuses
      /\ Len(out) <= 2 * Cap /\ Cap \in Nat /\ Len(out) \in Nat
  BY <1>1, CapAssumption, NothingJoined DEF Backends, Streams, BackendFits
<1>3. /\ data \in Chunks /\ out \o data = (out \o sb) \o buffer
      /\ Len(data) = Len(sb) + Len(buffer)
      /\ Len(sb) \in Nat /\ Len(buffer) \in Nat
  <2>1. Queued(out, sb, buffer, data)
    BY <1>1, <1>2, HeldMoves, Zenon
  <2> QED
    BY <2>1 DEF Queued
<1>4. /\ shutdown(b.status) \in Statuses /\ is_shutdown(shutdown(b.status))
  BY <1>2, LifeCycle
<1>5. PICK r, whole, room :
        /\ r = udp_dispatch(b, buffer)
        /\ whole = Packets(data) /\ room = (2 * Cap - Len(out)) \div 2
  OBVIOUS
<1>6. /\ whole \in Nat /\ 2 * whole <= Len(data) /\ Len(data) \in Nat
      /\ room \in Nat /\ Len(out) + 2 * room <= 2 * Cap
  <2>1. whole \in Nat /\ 2 * whole <= Len(data) /\ Len(data) \in Nat
    BY <1>3, <1>5, PacketsThere
  <2>2. room \in Nat /\ Len(out) + 2 * room <= 2 * Cap
    BY <1>2, <1>5
  <2> QED
    BY <2>1, <2>2
<1>7. PICK n : n = 2 * (IF whole <= room THEN whole ELSE room)
  OBVIOUS
<1>8. n \in 0 .. Len(data) /\ Len(out) + n <= 2 * Cap
  BY <1>2, <1>6, <1>7
<1>9. PICK a, rest : a = SubSeq(data, 1, n) /\ rest = Rest(data, n)
  OBVIOUS
<1>10. /\ a \in Chunks /\ Len(a) = n /\ rest \in Chunks /\ Len(rest) = Len(data) - n
       /\ a \o rest = data
  BY <1>3, <1>8, <1>9, SplitKeeps
<1>11. /\ out \o a \in Chunks /\ Len(out \o a) <= 2 * Cap
       /\ (out \o a) \o rest = (out \o sb) \o buffer
  <2>1. out \o a \in Chunks /\ Len(out \o a) = Len(out) + Len(a)
    BY <1>2, <1>10, Joined
  <2>2. (out \o a) \o rest = out \o (a \o rest)
    <3>1. Regroups(out, a, rest)
      BY <1>2, <1>10, Regrouping, Zenon
    <3> QED
      BY <3>1 DEF Regroups
  <2> QED
    BY <1>3, <1>8, <1>10, <2>1, <2>2
<1>12. Len(rest) <= Len(sb) + Len(buffer) /\ 0 <= Len(sb) + Len(buffer)
  BY <1>3, <1>6, <1>8, <1>10
<1>13. CASE whole > 0 /\ b.stream.end = "rst"
  <2>1. r = [b EXCEPT !.send_buffer = <<>>, !.status = shutdown(b.status)]
    BY <1>13, <1>1, <1>5 DEF udp_dispatch
  <2>2. r \in Backends
    BY <1>2, <1>4, <2>1, NothingJoined DEF Backends
  <2>3. /\ r.kind = b.kind /\ r.stream = b.stream /\ r.send_buffer = <<>>
        /\ r.status = shutdown(b.status)
    BY <2>1 DEF Backends
  <2>4. Held(r) \o data = Held(b) \o buffer
    BY <1>1, <1>2, <1>3, <2>3, NothingJoined DEF Held
  <2>5. Len(r.send_buffer) <= Len(b.send_buffer) + Len(buffer)
    BY <1>1, <1>2, <1>3, <2>3, NothingJoined
  <2>6. BackendFits(r)
    BY <2>3 DEF BackendFits
  <2> QED
    BY <1>3, <1>4, <1>5, <1>13, <2>2, <2>3, <2>4, <2>5, <2>6 DEF Passes
<1>14. PICK k : k = [b.stream EXCEPT !.out = out \o a]
  OBVIOUS
<1>15. /\ k \in Streams /\ k.out = out \o a /\ k.in = b.stream.in /\ k.end = b.stream.end
       /\ k.up = b.stream.up /\ k.edge = b.stream.edge
  BY <1>2, <1>11, <1>14 DEF Streams
<1>16. CASE /\ ~(whole > 0 /\ b.stream.end = "rst")
           /\ n = 2 * whole /\ rest # <<>> /\ rest[1] \in Malformed
  <2>1. r = [b EXCEPT !.send_buffer = <<>>, !.status = shutdown(b.status), !.stream = k]
    BY <1>16, <1>1, <1>5, <1>7, <1>9, <1>14 DEF udp_dispatch, Backends
  <2>2. r \in Backends
    BY <1>15, <1>4, <2>1, NothingJoined DEF Backends
  <2>3. /\ r.kind = b.kind /\ r.stream = k /\ r.send_buffer = <<>>
        /\ r.status = shutdown(b.status)
    BY <2>1 DEF Backends
  <2>4. Held(r) \o rest = Held(b) \o buffer
    BY <1>1, <1>11, <1>15, <2>3, NothingJoined DEF Held
  <2>5. Len(r.send_buffer) <= Len(b.send_buffer) + Len(buffer)
    BY <1>1, <1>2, <1>12, <2>3, NothingJoined
  <2>6. BackendFits(r)
    BY <1>11, <1>15, <2>3 DEF BackendFits
  <2> QED
    BY <1>4, <1>5, <1>10, <1>15, <2>2, <2>3, <2>4, <2>5, <2>6 DEF Passes
<1>17. CASE /\ ~(whole > 0 /\ b.stream.end = "rst")
           /\ ~(n = 2 * whole /\ rest # <<>> /\ rest[1] \in Malformed)
  <2>1. PICK f \in BOOLEAN : f = (b.stream.full \/ n < 2 * whole)
    BY <1>2 DEF Streams
  <2>2. PICK m : m = [k EXCEPT !.full = f]
    OBVIOUS
  <2>3. /\ m \in Streams /\ m.out = out \o a /\ m.in = b.stream.in
        /\ m.end = b.stream.end /\ m.up = b.stream.up /\ m.edge = b.stream.edge
    BY <1>15, <2>2 DEF Streams
  <2>4. r = [b EXCEPT !.send_buffer = rest, !.stream = m]
    BY <1>17, <1>1, <1>2, <1>5, <1>7, <1>9, <1>14, <2>1, <2>2 DEF udp_dispatch, Backends, Streams
  <2>5. r \in Backends
    BY <1>10, <2>3, <2>4 DEF Backends
  <2>6. /\ r.kind = b.kind /\ r.stream = m /\ r.send_buffer = rest /\ r.status = b.status
    BY <2>4 DEF Backends
  <2>7. Held(r) = Held(b) \o buffer
    BY <1>1, <1>11, <2>3, <2>6 DEF Held
  <2>8. Held(r) \in Chunks /\ <<>> \in Chunks /\ Held(r) \o <<>> = Held(r)
    <3>1. Held(r) \in Chunks
      BY <1>10, <1>11, <2>3, <2>6, Joined DEF Held
    <3> QED
      BY <3>1, NothingJoined
  <2>9. BackendFits(r)
    BY <1>11, <2>3, <2>6 DEF BackendFits
  <2>10. Len(r.send_buffer) <= Len(b.send_buffer) + Len(buffer)
    BY <1>1, <1>12, <2>6
  <2> QED
    BY <1>5, <2>3, <2>5, <2>6, <2>7, <2>8, <2>9, <2>10 DEF Passes
<1> QED
  BY <1>13, <1>16, <1>17

\* Backend::dispatch of either kind.
LEMMA BackendPasses ==
  ASSUME NEW b \in Backends, b.kind # "none", BackendFits(b), NEW buffer \in Chunks
  PROVE  Passes(b, buffer, backend_dispatch(b, buffer))
<1>1. b.kind \in {"tcp", "udp"}
  BY DEF Backends
<1>2. CASE b.kind = "tcp"
  BY <1>2, TcpPasses DEF backend_dispatch, tcp_dispatch
<1>3. CASE b.kind = "udp"
  BY <1>3, UdpPasses DEF backend_dispatch
<1> QED
  BY <1>1, <1>2, <1>3

-----------------------------------------------------------------------------
(* Creating the backend *)

LEMMA NoHeaderLeft ==
  ASSUME NEW s \in Chunks, \A i \in 1 .. Len(s) : s[i] # Header
  PROVE  NoHeader(s) = s
<1>1. CASE s = <<>>
  BY <1>1 DEF NoHeader
<1>2. CASE s # <<>>
  <2>1. Len(s) \in Nat \ {0}
    BY <1>2, EmptySeq DEF Chunks
  <2>2. s[1] # Header /\ Head(s) = s[1]
    BY <2>1, <1>2 DEF Chunks
  <2> QED
    BY <2>2 DEF NoHeader
<1> QED
  BY <1>1, <1>2

\* A new backend holds what it is given first.
LEMMA NewBackends ==
  /\ NoBackend \in Backends /\ NewTcpBackend \in Backends /\ NewUdpBackend \in Backends
  /\ BackendFits(NoBackend) /\ BackendFits(NewTcpBackend) /\ BackendFits(NewUdpBackend)
  /\ Held(NoBackend) = <<>> /\ Held(NewTcpBackend) = <<>> /\ Held(NewUdpBackend) = <<>>
  /\ NoBackend.stream.in = <<>> /\ NewTcpBackend.stream.in = <<>>
  /\ NewUdpBackend.stream.in = <<>>
  /\ NewTcpBackend.status = "Established" /\ NewTcpBackend.stream.end = "open"
  /\ NewUdpBackend.status = "Established" /\ NewUdpBackend.stream.end = "open"
  /\ NoBackend.kind = "none" /\ NewTcpBackend.kind = "tcp" /\ NewUdpBackend.kind = "udp"
  /\ NoBackend.send_buffer = <<>> /\ NewTcpBackend.send_buffer = <<>>
  /\ NewUdpBackend.send_buffer = <<>>
<1>1. <<>> \in Chunks /\ Len(<<>>) = 0 /\ <<>> \o <<>> = <<>> /\ Cap \in Nat
  BY EmptySeq, NothingJoined, CapAssumption DEF Chunks
<1>2. \A u \in BOOLEAN : NewStream(u) \in Streams /\ NewStream(u).out = <<>> /\ NewStream(u).in = <<>>
                         /\ NewStream(u).end = "open"
  BY <1>1 DEF NewStream, Streams
<1>3. NewStream(TRUE) \in Streams /\ NewStream(FALSE) \in Streams
  BY <1>2
<1>4. /\ NewStream(TRUE).out = <<>> /\ NewStream(FALSE).out = <<>>
      /\ NewStream(TRUE).in = <<>> /\ NewStream(FALSE).in = <<>>
      /\ NewStream(TRUE).end = "open" /\ NewStream(FALSE).end = "open"
  BY <1>2
<1> HIDE DEF NewStream
<1>5. NoBackend \in Backends /\ NewTcpBackend \in Backends /\ NewUdpBackend \in Backends
  BY <1>1, <1>3 DEF NoBackend, NewTcpBackend, NewUdpBackend, Backends, Statuses
<1>6. BackendFits(NoBackend) /\ BackendFits(NewTcpBackend) /\ BackendFits(NewUdpBackend)
  <2>1. /\ NoBackend.stream.out = <<>> /\ NewTcpBackend.stream.out = <<>>
        /\ NewUdpBackend.stream.out = <<>>
    BY <1>4 DEF NoBackend, NewTcpBackend, NewUdpBackend
  <2>2. Len(<<>>) <= Cap /\ Len(<<>>) <= 2 * Cap
    BY <1>1
  <2> HIDE DEF NoBackend, NewTcpBackend, NewUdpBackend
  <2> QED
    BY <2>1, <2>2, Zenon DEF BackendFits
<1>7. Held(NoBackend) = <<>> /\ Held(NewTcpBackend) = <<>> /\ Held(NewUdpBackend) = <<>>
  BY <1>1, <1>4 DEF NoBackend, NewTcpBackend, NewUdpBackend, Held
<1> QED
  BY <1>4, <1>5, <1>6, <1>7 DEF NoBackend, NewTcpBackend, NewUdpBackend

\* The backend a TCP target starts with holds exactly the cached data.
LEMMA TcpTarget ==
  ASSUME NEW data \in Chunks, NEW r,
         r = tcp_dispatch(tcp_dispatch(NewTcpBackend, data), <<>>)
  PROVE  /\ r \in Backends /\ BackendFits(r) /\ r.kind = "tcp" /\ r.status = "Established"
         /\ r.stream.in = <<>> /\ r.stream.end = "open"
         /\ Held(r) = data
         /\ Len(r.send_buffer) <= Len(data)
<1>1. PICK b, q : b = NewTcpBackend /\ q = tcp_send(b, data)
  OBVIOUS
<1>2. /\ b \in Backends /\ BackendFits(b) /\ Held(b) = <<>> /\ b.kind = "tcp"
      /\ b.status = "Established" /\ b.stream.in = <<>> /\ b.stream.end = "open"
      /\ b.send_buffer = <<>> /\ ~is_shutdown(b.status) /\ b.kind # "udp"
  BY <1>1, NewBackends DEF is_shutdown
<1>3. Passes(b, data, q) /\ q.status = b.status
  BY <1>1, <1>2, TcpPasses
<1>4. /\ q \in Backends /\ BackendFits(q) /\ q.kind = "tcp" /\ q.status = "Established"
      /\ q.stream.in = <<>> /\ q.stream.end = "open" /\ ~is_shutdown(q.status)
      /\ Held(q) \o <<>> = <<>> \o data
      /\ Len(q.send_buffer) <= Len(b.send_buffer) + Len(data)
  BY <1>2, <1>3 DEF Passes
<1>5. q.send_buffer \in Chunks /\ q.stream.out \in Chunks /\ <<>> \in Chunks /\ q.kind # "udp"
  BY <1>4, NothingJoined DEF Backends, Streams
<1>6. Held(q) = data
  BY <1>4, <1>5, Joined, NothingJoined DEF Held
<1>7. PICK none \in Chunks : none = <<>>
  BY <1>5
<1>8. r = tcp_send(q, none)
  BY <1>1, <1>7 DEF tcp_dispatch
<1>9. Passes(q, none, r) /\ r.status = q.status
  BY <1>4, <1>5, <1>8, TcpPasses
<1>10. /\ r \in Backends /\ BackendFits(r) /\ r.kind = "tcp" /\ r.status = "Established"
       /\ r.stream.in = <<>> /\ r.stream.end = "open"
       /\ Held(r) \o <<>> = Held(q) \o none
       /\ Len(r.send_buffer) <= Len(q.send_buffer) + Len(none)
  BY <1>4, <1>9 DEF Passes
<1>11. r.send_buffer \in Chunks /\ r.stream.out \in Chunks
  BY <1>10 DEF Backends, Streams
<1>12. Held(r) = data
  BY <1>6, <1>7, <1>10, <1>11, Joined, NothingJoined DEF Held
<1>13. Len(r.send_buffer) <= Len(data)
  <2>1. /\ Len(none) = 0 /\ Len(b.send_buffer) = 0 /\ Len(r.send_buffer) \in Nat
        /\ Len(q.send_buffer) \in Nat /\ Len(data) \in Nat
    BY <1>2, <1>5, <1>7, <1>11, NothingJoined
  <2> QED
    BY <1>4, <1>10, <2>1
<1> QED
  BY <1>10, <1>12, <1>13

\* h waits for its target and has buffer for it: what is cached, buffer and what
\* is unread make up all the client has sent.
Waits(h, buffer, n, req) ==
  /\ Sane(h) /\ h.backend.kind = "none" /\ h.status = "DnsWait"
  /\ req # "none" => n > 0
  /\ \A i \in 1 .. Len(h.proxy.stream.in) : h.proxy.stream.in[i] # Header
  /\ h.sock5_addr = "Domain" => h.command = "CONNECT" /\ req = "domain"
  /\ h.command = "UDP_ASSOCIATE" => h.proxy.stream.in = <<>> /\ h.data = <<>>
  /\ Prefix(h.data \o buffer, PayloadOf(n, req))
  /\ (is_shutdown(h.proxy.status) => h.proxy.stream.end # "bad") =>
       (h.data \o buffer) \o h.proxy.stream.in = Count(PayloadOf(n, req))
  /\ req # "domain" =>
       /\ h.proxy.stream.in = <<>>
       /\ h.command = "CONNECT" => h.target_addr

\* Shutting the client's side down.
LEMMA ProxyShut ==
  ASSUME NEW c \in Connections, Sane(c), NEW d, d = ShutdownProxy(c)
  PROVE  /\ Sane(d) /\ UpSame(c, d) /\ DownSame(c, d) /\ is_shutdown(d.proxy.status)
         /\ d.target_addr = c.target_addr /\ d.dns = c.dns /\ d.backend = c.backend
         /\ d.proxy.stream = c.proxy.stream /\ d.proxy.tls = c.proxy.tls
<1>1. PICK p : p = [c.proxy EXCEPT !.status = shutdown(c.proxy.status)]
  OBVIOUS
<1>2. c.proxy \in TlsConns /\ c.proxy.status \in Statuses
  BY ConnectionParts
<1>3. shutdown(c.proxy.status) \in Statuses /\ is_shutdown(shutdown(c.proxy.status))
  BY <1>2, LifeCycle
<1>4. /\ p \in TlsConns /\ p.status = shutdown(c.proxy.status) /\ p.stream = c.proxy.stream
      /\ p.session = c.proxy.session /\ p.writable = c.proxy.writable /\ p.side = c.proxy.side
      /\ p.tls = c.proxy.tls
  BY <1>1, <1>2, <1>3 DEF TlsConns
<1>5. d = [c EXCEPT !.proxy = p]
  BY <1>1 DEF ShutdownProxy, Connections
<1>6. /\ d \in Connections /\ d.proxy = p /\ d.backend = c.backend
      /\ d.status = c.status /\ d.command = c.command /\ d.sock5_addr = c.sock5_addr
      /\ d.target_addr = c.target_addr /\ d.data = c.data /\ d.dns = c.dns
  BY <1>4, <1>5, WithProxy
<1> QED
  BY <1>3, <1>4, <1>6 DEF Sane, UpSame, DownSame

\* The TCP target: cached holds everything, in order.
LEMMA TcpSetup ==
  ASSUME NEW h \in Connections, NEW n \in Nat, NEW req \in RequestKinds,
         NEW o \in Outcomes, Waits(h, <<>>, n, req), h.command = "CONNECT", h.target_addr,
         NEW d, d = try_setup_tcp_target(h, o)
  PROVE  Sane(d) /\ DownSame(h, d) /\ Upstream(d, <<>>, n, req)
<1>1. PICK m \in Nat : m = PayloadOf(n, req)
  BY DEF PayloadOf
<1>2. /\ h.data \in Chunks /\ h.proxy.stream.in \in Chunks /\ <<>> \in Chunks
      /\ h.data \o <<>> = h.data /\ h.backend = NoBackend
      /\ NoHeader(h.proxy.stream.in) = h.proxy.stream.in
  BY ConnectionParts, NothingJoined, NoHeaderLeft DEF Waits, Sane
<1>3. Prefix(h.data, m)
  BY <1>1, <1>2 DEF Waits
<1>4. (is_shutdown(h.proxy.status) => h.proxy.stream.end # "bad")
        => h.data \o h.proxy.stream.in = Count(m)
  BY <1>1, <1>2 DEF Waits
<1>5. \A x \in Connections : x.backend = NoBackend /\ x.data = h.data
        => <<>> \o Forwarded(x) = h.data
  <2>1. <<>> \o h.data = h.data
    BY <1>2, NothingJoined
  <2> QED
    BY <2>1, NewBackends, Zenon DEF Forwarded
<1>6. CASE o.setup = "ok"
  <2>1. PICK r : r = tcp_dispatch(tcp_dispatch(NewTcpBackend, h.data), <<>>)
    OBVIOUS
  <2>2. /\ r \in Backends /\ BackendFits(r) /\ r.kind = "tcp" /\ r.status = "Established"
        /\ r.stream.in = <<>> /\ r.stream.end = "open"
        /\ Held(r) = h.data
        /\ Len(r.send_buffer) <= Len(h.data)
    BY <1>2, <2>1, TcpTarget
  <2>3. d = [h EXCEPT !.status = "TCPForward", !.data = <<>>, !.backend = r]
    BY <1>6, <2>1 DEF try_setup_tcp_target
  <2>4. /\ d \in Connections /\ d.backend = r /\ d.proxy = h.proxy /\ d.data = <<>>
        /\ d.status = "TCPForward" /\ d.command = h.command /\ d.sock5_addr = h.sock5_addr
    BY <1>2, <2>2, <2>3 DEF Connections
  <2>5. Sane(d)
    BY <2>2, <2>4 DEF Sane, Waits
  <2>6. DownSame(h, d)
    BY <1>2, <2>2, <2>4, NewBackends DEF DownSame
  <2>7. <<>> \o Forwarded(d) = h.data
    BY <1>2, <2>2, <2>4, NothingJoined DEF Forwarded
  <2>8. Phase(d, n, req)
    BY <2>2, <2>4 DEF Phase, Waits, Forwarding
  <2>9. UpFlow(d, <<>>, m)
    BY <1>2, <1>3, <1>4, <2>2, <2>4, <2>7 DEF UpFlow, Intact
  <2>10. UpBound(d, req)
    BY <2>2, <2>4 DEF UpBound
  <2> QED
    BY <1>1, <2>5, <2>6, <2>8, <2>9, <2>10 DEF Upstream
<1>7. CASE o.setup = "register"
  <2>1. PICK e : e = [h EXCEPT !.status = "TCPForward"]
    OBVIOUS
  <2>2. /\ e \in Connections /\ e.backend = h.backend /\ e.proxy = h.proxy /\ e.data = h.data
        /\ e.status = "TCPForward" /\ e.command = h.command /\ e.sock5_addr = h.sock5_addr
    BY <2>1 DEF Connections
  <2>3. Sane(e)
    BY <2>2 DEF Sane, Waits
  <2>4. d = ShutdownProxy(e)
    BY <1>7, <2>1 DEF try_setup_tcp_target
  <2>5. /\ Sane(d) /\ UpSame(e, d) /\ DownSame(e, d) /\ is_shutdown(d.proxy.status)
        /\ d.backend = e.backend /\ d.proxy.stream = e.proxy.stream
    BY <2>2, <2>3, <2>4, ProxyShut
  <2>6. DownSame(h, d)
    BY <2>2, <2>5 DEF DownSame
  <2>7. /\ d.status = "TCPForward" /\ d.data = h.data /\ d.backend = NoBackend
        /\ d.proxy.stream = h.proxy.stream /\ d.sock5_addr = h.sock5_addr
        /\ d.command = h.command /\ d \in Connections
    BY <1>2, <2>2, <2>5 DEF UpSame, Sane
  <2>8. Phase(d, n, req)
    BY <2>5, <2>7, NewBackends DEF Phase, Waits, Forwarding
  <2>9. UpFlow(d, <<>>, m)
    BY <1>3, <1>5, <2>7, NewBackends DEF UpFlow, Intact, Forwarding
  <2>10. UpBound(d, req)
    BY <2>5, <2>7, NewBackends DEF UpBound, Waits
  <2> QED
    BY <1>1, <2>5, <2>6, <2>8, <2>9, <2>10 DEF Upstream
<1>8. CASE o.setup = "connect"
  <2>1. d = ShutdownProxy(h)
    BY <1>8 DEF try_setup_tcp_target
  <2>2. /\ Sane(d) /\ UpSame(h, d) /\ DownSame(h, d) /\ is_shutdown(d.proxy.status)
        /\ d.backend = h.backend /\ d.proxy.stream = h.proxy.stream
    BY <2>1, ProxyShut DEF Waits
  <2>3. /\ d.status = "DnsWait" /\ d.data = h.data /\ d.backend = NoBackend
        /\ d.sock5_addr = h.sock5_addr /\ d.command = h.command /\ d \in Connections
    BY <1>2, <2>2 DEF UpSame, Sane, Waits
  <2>4. Phase(d, n, req)
    BY <2>2, <2>3, NewBackends DEF Phase, Waits, Forwarding
  <2>5. UpFlow(d, <<>>, m)
    <3>1. <<>> \o Forwarded(d) = h.data /\ d.backend.kind = "none"
      BY <1>5, <2>3, NewBackends
    <3>2. NoHeader(d.proxy.stream.in) = h.proxy.stream.in /\ d.proxy.stream = h.proxy.stream
          /\ is_shutdown(d.proxy.status)
      BY <1>2, <2>2
    <3>3. Intact(d) => h.data \o h.proxy.stream.in = Count(m)
      BY <1>4, <3>1, <3>2, Zenon DEF Intact
    <3> QED
      BY <1>3, <3>1, <3>2, <3>3, Zenon DEF UpFlow
  <2>6. UpBound(d, req)
    BY <2>2, <2>3, NewBackends DEF UpBound, Waits
  <2> QED
    BY <1>1, <2>2, <2>4, <2>5, <2>6 DEF Upstream
<1> QED
  BY <1>6, <1>7, <1>8 DEF Outcomes

\* The UDP target gets the packets that came with the request.
LEMMA UdpSetup ==
  ASSUME NEW h \in Connections, NEW buffer \in Chunks, NEW n \in Nat, NEW req \in RequestKinds,
         NEW o \in Outcomes, Waits(h, buffer, n, req), h.command = "UDP_ASSOCIATE",
         NEW d, d = try_setup_udp_target(h, buffer, o)
  PROVE  Sane(d) /\ DownSame(h, d) /\ Upstream(d, <<>>, n, req)
<1>1. PICK m \in Nat : m = PayloadOf(n, req)
  BY DEF PayloadOf
<1>2. /\ h.proxy.stream.in = <<>> /\ h.data = <<>> /\ <<>> \in Chunks
      /\ <<>> \o buffer = buffer /\ buffer \o <<>> = buffer /\ h.backend = NoBackend
      /\ NoHeader(h.proxy.stream.in) = <<>> /\ h.sock5_addr # "Domain"
      /\ <<>> \o <<>> = <<>>
  BY NothingJoined DEF Waits, Sane, NoHeader
<1>3. Prefix(buffer, m) /\ Prefix(<<>>, m)
  <2>1. Prefix(buffer, m)
    BY <1>1, <1>2 DEF Waits
  <2>2. PICK none \in Chunks : none = <<>>
    BY <1>2
  <2>3. Prefix(none \o buffer, m)
    BY <1>2, <2>1, <2>2
  <2>4. Prefix(none, m)
    BY <2>3, PrefixShrinks
  <2> QED
    BY <2>1, <2>2, <2>4
<1>4. (is_shutdown(h.proxy.status) => h.proxy.stream.end # "bad") => buffer = Count(m)
  BY <1>1, <1>2 DEF Waits
<1>5. \A x \in Connections : x.backend = NoBackend /\ x.data = <<>>
        => <<>> \o Forwarded(x) = <<>>
  BY <1>2, NewBackends DEF Forwarded
<1>6. CASE o.setup = "ok"
  <2>1. PICK b, r : b = NewUdpBackend /\ r = udp_dispatch(b, buffer)
    OBVIOUS
  <2>2. /\ b \in Backends /\ BackendFits(b) /\ b.kind = "udp" /\ b.status = "Established"
        /\ b.stream.in = <<>> /\ Held(b) = <<>>
    BY <2>1, NewBackends
  <2>3. Passes(b, buffer, r)
    BY <2>1, <2>2, UdpPasses
  <2>4. /\ r \in Backends /\ BackendFits(r) /\ r.kind = "udp" /\ r.stream.in = <<>>
        /\ r.status = "Established" \/ is_shutdown(r.status)
    BY <2>2, <2>3 DEF Passes
  <2>5. PICK lost \in Chunks : Held(r) \o lost = buffer /\ (~is_shutdown(r.status) => lost = <<>>)
    BY <1>2, <2>2, <2>3 DEF Passes
  <2>6. Held(r) \in Chunks
    BY <2>4, Joined DEF Held, Backends, Streams
  <2>7. d = [h EXCEPT !.status = "UDPForward", !.backend = r]
    BY <1>6, <2>1 DEF try_setup_udp_target
  <2>8. /\ d \in Connections /\ d.backend = r /\ d.proxy = h.proxy /\ d.data = <<>>
        /\ d.status = "UDPForward" /\ d.command = h.command /\ d.sock5_addr = h.sock5_addr
    BY <1>2, <2>4, <2>7 DEF Connections
  <2>9. Sane(d)
    BY <2>4, <2>8 DEF Sane, Waits, is_shutdown
  <2>10. DownSame(h, d)
    BY <1>2, <2>4, <2>8, NewBackends DEF DownSame
  <2>11. <<>> \o Forwarded(d) = Held(r)
    BY <2>6, <2>8, NothingJoined DEF Forwarded
  <2>12. Phase(d, n, req)
    BY <1>2, <2>4, <2>8 DEF Phase, Waits, Forwarding
  <2>13. Prefix(Held(r), m)
    BY <1>3, <2>5, <2>6, PrefixShrinks
  <2>14. Intact(d) => Held(r) = Count(m)
    <3>1. Intact(d) => ~is_shutdown(r.status) /\ h.proxy.stream.end # "bad"
      BY <2>4, <2>8 DEF Intact, alive, is_shutdown
    <3>2. ~is_shutdown(r.status) => Held(r) = buffer
      BY <2>5, <2>6, NothingJoined
    <3> QED
      BY <1>4, <3>1, <3>2
  <2>15. UpFlow(d, <<>>, m)
    BY <1>2, <2>4, <2>6, <2>8, <2>11, <2>13, <2>14, NothingJoined DEF UpFlow
  <2>16. UpBound(d, req)
    BY <1>2, <2>4, <2>8 DEF UpBound, Waits
  <2> QED
    BY <1>1, <2>9, <2>10, <2>12, <2>15, <2>16 DEF Upstream
<1>7. CASE o.setup # "ok"
  <2>1. PICK e : e = IF o.setup = "register" THEN [h EXCEPT !.status = "UDPForward"] ELSE h
    OBVIOUS
  <2>2. /\ e \in Connections /\ e.backend = h.backend /\ e.proxy = h.proxy /\ e.data = h.data
        /\ e.status \in {"DnsWait", "UDPForward"}
        /\ e.command = h.command /\ e.sock5_addr = h.sock5_addr
    BY <2>1 DEF Connections, Waits
  <2>3. Sane(e)
    BY <2>2 DEF Sane, Waits
  <2>4. d = ShutdownProxy(e)
    BY <1>7, <2>1 DEF try_setup_udp_target
  <2>5. /\ Sane(d) /\ UpSame(e, d) /\ DownSame(e, d) /\ is_shutdown(d.proxy.status)
        /\ d.backend = e.backend /\ d.proxy.stream = e.proxy.stream
    BY <2>2, <2>3, <2>4, ProxyShut
  <2>6. DownSame(h, d)
    BY <2>2, <2>5 DEF DownSame
  <2>7. /\ d.status # "HandShake" /\ d.data = <<>> /\ d.backend = NoBackend
        /\ d.proxy.stream = h.proxy.stream /\ d.sock5_addr = h.sock5_addr
        /\ d.command = "UDP_ASSOCIATE" /\ d \in Connections
    BY <1>2, <2>2, <2>5 DEF UpSame, Sane
  <2>8. Phase(d, n, req)
    BY <1>2, <2>5, <2>7, NewBackends DEF Phase, Waits
  <2>9. UpFlow(d, <<>>, m)
    BY <1>3, <1>5, <2>7, NewBackends DEF UpFlow, Intact
  <2>10. UpBound(d, req)
    BY <1>2, <2>5, <2>7, NewBackends DEF UpBound, Waits
  <2> QED
    BY <1>1, <2>5, <2>6, <2>8, <2>9, <2>10 DEF Upstream
<1> QED
  BY <1>6, <1>7

\* Connection::dispatch in DnsWait.
LEMMA WaitingDispatches ==
  ASSUME NEW h \in Connections, NEW buffer \in Chunks, NEW n \in Nat, NEW req \in RequestKinds,
         NEW o \in Outcomes, Waits(h, buffer, n, req),
         NEW d, d = DispatchWaiting(h, buffer, o)
  PROVE  Sane(d) /\ DownSame(h, d) /\ Upstream(d, <<>>, n, req)
<1>1. CASE h.command = "UDP_ASSOCIATE"
  <2>1. d = try_setup_udp_target(h, buffer, o)
    BY <1>1 DEF DispatchWaiting
  <2> QED
    BY <1>1, <2>1, UdpSetup
<1>2. CASE h.command = "CONNECT"
  <2>1. PICK e : e = [h EXCEPT !.data = h.data \o buffer]
    OBVIOUS
  <2>2. /\ h.data \in Chunks /\ h.data \o buffer \in Chunks /\ h.proxy.stream.in \in Chunks
        /\ (h.data \o buffer) \o <<>> = h.data \o buffer
    BY ConnectionParts, Joined, NothingJoined
  <2>3. /\ e \in Connections /\ e.backend = h.backend /\ e.proxy = h.proxy
        /\ e.data = h.data \o buffer /\ e.target_addr = h.target_addr
        /\ e.status = h.status /\ e.command = h.command /\ e.sock5_addr = h.sock5_addr
    BY <2>1, <2>2 DEF Connections
  <2>4. Sane(e)
    BY <2>3 DEF Sane, Waits
  <2>5. DownSame(h, e)
    BY <2>3 DEF DownSame
  <2>6. Waits(e, <<>>, n, req)
    BY <1>2, <2>2, <2>3, <2>4 DEF Waits
  <2>7. CASE h.target_addr
    <3>1. d = try_setup_tcp_target(e, o)
      BY <1>2, <2>1, <2>7 DEF DispatchWaiting
    <3>2. Sane(d) /\ DownSame(e, d) /\ Upstream(d, <<>>, n, req)
      BY <1>2, <2>3, <2>6, <2>7, <3>1, TcpSetup
    <3> QED
      BY <2>5, <3>2, DownSameTwice
  <2>8. CASE ~h.target_addr
    <3>1. d = e
      BY <1>2, <2>1, <2>8 DEF DispatchWaiting
    <3>2. req = "domain" /\ e.backend = NoBackend /\ e.status = "DnsWait"
      BY <1>2, <2>8, <2>3 DEF Waits, Sane
    <3>3. Phase(e, n, req)
      BY <1>2, <2>3, <3>2, NewBackends DEF Phase, Waits, Forwarding
    <3>4. <<>> \o Forwarded(e) = h.data \o buffer
      BY <2>2, <2>3, <3>2, NewBackends, NothingJoined DEF Forwarded
    <3>5. NoHeader(e.proxy.stream.in) = h.proxy.stream.in
      BY <2>2, <2>3, NoHeaderLeft DEF Waits
    <3>6. UpFlow(e, <<>>, PayloadOf(n, req))
      BY <2>3, <3>2, <3>4, <3>5, NewBackends DEF UpFlow, Intact, Waits
    <3>7. UpBound(e, req)
      BY <2>3, <3>2, NewBackends DEF UpBound, Waits
    <3> QED
      BY <2>4, <2>5, <3>1, <3>3, <3>6, <3>7 DEF Upstream
  <2> QED
    BY <2>7, <2>8
<1> QED
  BY <1>1, <1>2 DEF Connections

-----------------------------------------------------------------------------
(* Reading from the client *)

\* TrojanRequest::parse finds the request, and what follows it is the payload.
LEMMA Requests ==
  ASSUME NEW n \in Nat, NEW req \in RequestKinds, NEW s \in Chunks, s = Sends(n, req), s # <<>>
  PROVE  /\ n > 0
         /\ ParsedRequest(s, req) = req
         /\ HandshakePayload(s) = NoHeader(s)
         /\ NoHeader(s) \in Chunks /\ Len(NoHeader(s)) <= Len(s)
<1>1. Len(s) \in Nat \ {0} /\ Head(s) = s[1]
  BY EmptySeq DEF Chunks
<1>2. DOMAIN s = 1 .. n /\ DOMAIN s = 1 .. Len(s)
  BY LenProperties DEF Sends, Chunks
<1>3. 1 \in 1 .. n /\ n > 0
  BY <1>1, <1>2
<1>4. s[1] = IF req = "none" THEN 1 ELSE 0
  BY <1>3 DEF Sends
<1>5. HandshakePayload(s) = NoHeader(s)
  BY <1>1 DEF HandshakePayload, NoHeader
<1>6. ParsedRequest(s, req) = req
  BY <1>4 DEF ParsedRequest, Header
<1>7. Tail(s) \in Chunks /\ Len(Tail(s)) = Len(s) - 1
  BY HeadTailProperties DEF Chunks
<1>8. NoHeader(s) \in Chunks /\ Len(NoHeader(s)) <= Len(s)
  BY <1>1, <1>7 DEF NoHeader
<1> QED
  BY <1>3, <1>5, <1>6, <1>8

\* e is c after do_read.
ReadFrom(c, e) ==
  /\ Sane(e) /\ DownSame(c, e)
  /\ e.proxy.stream.in = <<>> /\ e.proxy.stream.end = c.proxy.stream.end
  /\ e.backend = c.backend /\ e.data = c.data /\ e.dns = c.dns
  /\ e.status = c.status /\ e.command = c.command /\ e.sock5_addr = c.sock5_addr
  /\ is_shutdown(c.proxy.status) => is_shutdown(e.proxy.status)
  /\ c.proxy.stream.end # "open" => is_shutdown(e.proxy.status)

\* Reading the request.
LEMMA HandshakeReads ==
  ASSUME NEW c \in Connections, NEW n \in Nat, NEW req \in RequestKinds, NEW o \in Outcomes,
         Sane(c), Upstream(c, <<>>, n, req), c.status = "HandShake",
         NEW s \in Chunks, s = c.proxy.stream.in, s # <<>>, c.proxy.stream.end # "bad",
         NEW e \in Connections, ReadFrom(c, e),
         NEW d, d = dispatch(e, s, o, req)
  PROVE  Sane(d) /\ DownSame(e, d) /\ Upstream(d, <<>>, n, req)
<1>1. /\ c.backend.kind = "none" /\ c.backend = NoBackend /\ c.data = <<>>
      /\ c.command = "CONNECT" /\ s = Sends(n, req)
  BY DEF Sane, Upstream, Phase, Forwarding
<1>2. /\ n > 0 /\ ParsedRequest(s, req) = req
      /\ HandshakePayload(s) = NoHeader(s)
      /\ NoHeader(s) \in Chunks /\ Len(NoHeader(s)) <= Len(s)
  BY <1>1, Requests
<1>3. PICK buffer \in Chunks : buffer = NoHeader(s)
  BY <1>2
<1>4. PICK m \in Nat : m = PayloadOf(n, req)
  BY DEF PayloadOf
<1>5. <<>> \o buffer = buffer /\ buffer \o <<>> = buffer /\ <<>> \in Chunks /\ Len(<<>>) = 0
  BY NothingJoined
<1>6. buffer = Count(m)
  <2>1. Intact(c)
    BY <1>1 DEF Intact, Forwarding
  <2>2. Forwarded(c) = <<>>
    BY <1>1, <1>5, NewBackends, NothingJoined DEF Forwarded
  <2>3. (<<>> \o <<>>) \o NoHeader(s) = Count(m)
    BY <1>4, <2>1, <2>2 DEF Upstream, UpFlow
  <2> QED
    BY <1>3, <1>5, <2>3, NothingJoined
<1>7. PICK h : h = try_handshake(e, s, o, req)
  OBVIOUS
<1>8. /\ e.proxy.stream.in = <<>> /\ e.proxy.stream.end = c.proxy.stream.end
      /\ e.backend = c.backend /\ e.data = <<>>
  BY <1>1 DEF ReadFrom
<1>9. /\ h \in Connections /\ h.proxy = e.proxy /\ h.backend = e.backend /\ h.data = e.data
      /\ h.status = "DnsWait"
      /\ h.command = IF req = "udp" THEN "UDP_ASSOCIATE" ELSE "CONNECT"
      /\ h.sock5_addr = "Domain" => req = "domain"
      /\ req # "domain" => h.target_addr
  <2>1. PICK command, addr, target, dns :
          /\ command = IF req = "udp" THEN "UDP_ASSOCIATE" ELSE "CONNECT"
          /\ addr = CASE req = "domain" -> "Domain" [] req = "none" -> "None" [] OTHER -> "Socket"
          /\ target = (req = "domain" => o.cached)
          /\ dns = IF req = "domain" /\ ~o.cached THEN "asked" ELSE e.dns
    OBVIOUS
  <2>2. h = [e EXCEPT !.status = "DnsWait", !.command = command, !.sock5_addr = addr,
                      !.target_addr = target, !.dns = dns]
    BY <1>2, <1>7, <2>1 DEF try_handshake
  <2>3. /\ command \in {"CONNECT", "UDP_ASSOCIATE"} /\ addr \in {"Domain", "Socket", "None"}
        /\ addr = "Domain" => req = "domain"
    BY <2>1
  <2>4. target \in BOOLEAN /\ (req # "domain" => target)
    BY <2>1 DEF Outcomes
  <2>5. dns \in {"none", "asked", "hit", "fail"}
    BY <2>1 DEF Connections
  <2>6. /\ h \in Connections /\ h.proxy = e.proxy /\ h.backend = e.backend /\ h.data = e.data
        /\ h.status = "DnsWait" /\ h.command = command /\ h.sock5_addr = addr
        /\ h.target_addr = target
    BY <2>2, <2>3, <2>4, <2>5 DEF Connections
  <2> QED
    BY <2>1, <2>3, <2>4, <2>6
<1>10. Sane(h) /\ DownSame(e, h)
  BY <1>9 DEF Sane, DownSame, ReadFrom
<1>11. Waits(h, buffer, n, req)
  <2>1. Prefix(buffer, m)
    BY <1>5, <1>6, FrontIsPrefix
  <2>2. \A i \in 1 .. Len(h.proxy.stream.in) : h.proxy.stream.in[i] # Header
    BY <1>5, <1>8, <1>9
  <2>3. h.data \o buffer = buffer
    BY <1>5, <1>8, <1>9
  <2>4. (h.data \o buffer) \o h.proxy.stream.in = Count(m)
    BY <1>5, <1>6, <1>8, <1>9, <2>3
  <2>5. h.backend.kind = "none"
    BY <1>1, <1>8, <1>9
  <2>6. h.proxy.stream.in = <<>>
    BY <1>8, <1>9
  <2> QED
    BY <1>2, <1>4, <1>8, <1>9, <1>10, <2>1, <2>2, <2>3, <2>4, <2>5, <2>6 DEF Waits
<1>12. d = DispatchWaiting(h, buffer, o)
  <2>1. e.status = "HandShake"
    BY DEF ReadFrom
  <2> QED
    BY <1>2, <1>3, <1>7, <2>1 DEF dispatch
<1>13. Sane(d) /\ DownSame(h, d) /\ Upstream(d, <<>>, n, req)
  BY <1>9, <1>11, <1>12, WaitingDispatches
<1> QED
  BY <1>10, <1>13, DownSameTwice

\* Reading while the target is not known yet.
LEMMA WaitingReads ==
  ASSUME NEW c \in Connections, NEW n \in Nat, NEW req \in RequestKinds, NEW o \in Outcomes,
         Sane(c), Upstream(c, <<>>, n, req), c.status = "DnsWait",
         NEW s \in Chunks, s = c.proxy.stream.in, s # <<>>, c.proxy.stream.end # "bad",
         NEW e \in Connections, ReadFrom(c, e),
         NEW d, d = dispatch(e, s, o, req)
  PROVE  Sane(d) /\ DownSame(e, d) /\ Upstream(d, <<>>, n, req)
<1>1. /\ c.backend.kind = "none" /\ c.backend = NoBackend /\ c.command = "CONNECT"
      /\ req = "domain" /\ n > 0
      /\ \A i \in 1 .. Len(s) : s[i] # Header
  <2>1. c.backend.kind = "none" /\ c.backend = NoBackend
    BY DEF Sane, Upstream, Phase, Forwarding
  <2>2. c.command # "UDP_ASSOCIATE" /\ (req # "none" => n > 0) /\ \A i \in 1 .. Len(s) : s[i] # Header
    BY <2>1 DEF Upstream, Phase
  <2>3. req = "domain"
    BY <2>1 DEF Upstream, UpBound
  <2> QED
    BY <2>1, <2>2, <2>3 DEF Connections
<1>2. PICK m \in Nat : m = PayloadOf(n, req)
  BY DEF PayloadOf
<1>3. c.data \in Chunks /\ c.data \o s \in Chunks /\ <<>> \in Chunks /\ Len(<<>>) = 0
      /\ <<>> \o c.data = c.data /\ (c.data \o s) \o <<>> = c.data \o s
  BY ConnectionParts, Joined, NothingJoined
<1>4. c.data \o s = Count(m)
  <2>1. Intact(c)
    BY <1>1 DEF Intact, Forwarding
  <2>2. <<>> \o Forwarded(c) = c.data
    BY <1>1, <1>3, NewBackends DEF Forwarded
  <2>3. NoHeader(s) = s
    BY <1>1, NoHeaderLeft
  <2> QED
    BY <1>2, <2>1, <2>2, <2>3 DEF Upstream, UpFlow
<1>5. /\ e.proxy.stream.in = <<>> /\ e.proxy.stream.end = c.proxy.stream.end
      /\ e.backend = c.backend /\ e.data = c.data /\ e.command = c.command
      /\ e.sock5_addr = c.sock5_addr /\ e.status = "DnsWait"
  BY DEF ReadFrom
<1>6. Waits(e, s, n, req)
  <2>1. Prefix(c.data \o s, m)
    BY <1>3, <1>4, FrontIsPrefix
  <2>2. \A i \in 1 .. Len(e.proxy.stream.in) : e.proxy.stream.in[i] # Header
    BY <1>3, <1>5
  <2> QED
    BY <1>1, <1>2, <1>3, <1>4, <1>5, <2>1, <2>2 DEF Waits, ReadFrom
<1>7. d = DispatchWaiting(e, s, o)
  BY <1>5 DEF dispatch
<1> QED
  BY <1>6, <1>7, WaitingDispatches

\* Reading once the connection forwards.
LEMMA ForwardingReads ==
  ASSUME NEW c \in Connections, NEW g \in Chunks, NEW n \in Nat, NEW req \in RequestKinds,
         NEW o \in Outcomes,
         Sane(c), Upstream(c, g, n, req), c.status \in Forwarding,
         c.backend.kind = "none" \/ backend_writable(c.backend),
         NEW s \in Chunks, s = c.proxy.stream.in, s # <<>>, c.proxy.stream.end # "bad",
         NEW e \in Connections, ReadFrom(c, e),
         NEW d, d = dispatch(e, s, o, req)
  PROVE  Sane(d) /\ DownSame(e, d) /\ Upstream(d, g, n, req)
<1>1. PICK m \in Nat : m = PayloadOf(n, req)
  BY DEF PayloadOf
<1>2. /\ e.proxy.stream.in = <<>> /\ e.proxy.stream.end = c.proxy.stream.end
      /\ e.backend = c.backend /\ e.data = c.data /\ e.command = c.command
      /\ e.sock5_addr = c.sock5_addr /\ e.status = c.status
  BY DEF ReadFrom
<1>3. <<>> \in Chunks /\ Len(<<>>) = 0 /\ NoHeader(<<>>) = <<>>
  BY NothingJoined DEF NoHeader
<1>4. d = [e EXCEPT !.backend = backend_dispatch(e.backend, s)]
  BY <1>2 DEF dispatch, Forwarding
<1>5. Phase(c, n, req) /\ UpFlow(c, g, m) /\ UpBound(c, req)
  BY <1>1 DEF Upstream
<1>6. CASE c.backend.kind = "none"
  <2>1. backend_dispatch(e.backend, s) = e.backend
    BY <1>2, <1>6 DEF backend_dispatch
  <2>2. /\ d \in Connections /\ d.backend = e.backend /\ d.proxy = e.proxy
        /\ d.status = e.status /\ d.command = e.command /\ d.sock5_addr = e.sock5_addr
        /\ d.data = e.data
    BY <1>4, <2>1 DEF Connections
  <2>3. Phase(d, n, req)
    <3>1. \A i \in 1 .. Len(d.proxy.stream.in) : d.proxy.stream.in[i] # Header
      BY <1>2, <1>3, <2>2
    <3> QED
      BY <1>2, <1>5, <1>6, <2>2, <3>1 DEF Phase, Forwarding, ReadFrom
  <2>4. Forwarded(d) = Forwarded(c)
    BY <1>2, <2>2 DEF Forwarded
  <2>5. UpFlow(d, g, m)
    BY <1>2, <1>5, <1>6, <2>2, <2>4 DEF UpFlow, Intact
  <2>6. UpBound(d, req)
    BY <1>2, <1>3, <1>5, <1>6, <2>2 DEF UpBound
  <2> QED
    BY <1>1, <2>2, <2>3, <2>5, <2>6 DEF Upstream, DownSame, Sane, ReadFrom
<1>7. CASE c.backend.kind # "none"
  <2>1. PICK b \in Backends : b = e.backend
    BY <1>2, ConnectionParts
  <2>2. /\ alive(b.status) /\ ~is_shutdown(b.status) /\ b.kind # "none" /\ BackendFits(b)
        /\ b.kind = "tcp" => b.send_buffer = <<>>
    BY <1>2, <1>7, <2>1 DEF backend_writable, Sane, alive, is_shutdown
  <2>3. PICK r : r = backend_dispatch(b, s)
    OBVIOUS
  <2>4. Passes(b, s, r)
    BY <2>2, <2>3, BackendPasses
  <2>5. /\ r \in Backends /\ BackendFits(r) /\ r.kind = b.kind /\ r.stream.in = b.stream.in
        /\ r.status = b.status \/ is_shutdown(r.status)
        /\ Len(r.send_buffer) <= Len(b.send_buffer) + Len(s)
    BY <2>4 DEF Passes
  <2>6. /\ d \in Connections /\ d.backend = r /\ d.proxy = e.proxy
        /\ d.status = e.status /\ d.command = e.command /\ d.sock5_addr = e.sock5_addr
        /\ d.data = e.data
    <3>1. d = [e EXCEPT !.backend = r]
      BY <1>4, <2>1, <2>3
    <3> QED
      BY <2>5, <3>1, WithBackend
  <2>7. Sane(d)
    BY <2>1, <2>2, <2>5, <2>6 DEF Sane, is_shutdown, alive, ReadFrom
  <2>8. DownSame(e, d)
    BY <2>1, <2>5, <2>6 DEF DownSame
  <2>9. c.data = <<>> /\ \A i \in 1 .. Len(s) : s[i] # Header
    BY <1>5, <1>7 DEF Phase, Forwarding
  <2>10. Held(b) \in Chunks /\ Held(r) \in Chunks
    BY <2>5, Joined DEF Held, Backends, Streams
  <2>11. Forwarded(c) = Held(b) /\ Forwarded(d) = Held(r)
    <3>1. Held(b) \o <<>> = Held(b) /\ Held(r) \o <<>> = Held(r)
      BY <2>10, NothingJoined
    <3> QED
      BY <1>2, <2>1, <2>6, <2>9, <3>1 DEF Forwarded
  <2>12. (g \o Held(b)) \o s = Count(m)
    <3>1. Intact(c)
      BY <1>2, <1>7, <2>1, <2>2 DEF Intact
    <3>2. NoHeader(s) = s
      BY <2>9, NoHeaderLeft
    <3> QED
      BY <1>5, <2>11, <3>1, <3>2 DEF UpFlow
  <2>13. PICK lost \in Chunks : Held(r) \o lost = Held(b) \o s /\ (~is_shutdown(r.status) => lost = <<>>)
    BY <2>4 DEF Passes
  <2>14. Prefix(g \o Held(r), m) /\ (lost = <<>> => g \o Held(r) = Count(m))
    <3>1. PICK held \in Chunks, now \in Chunks : held = Held(b) /\ now = Held(r)
      BY <2>10
    <3>2. (g \o held) \o s = g \o (held \o s)
      <4>1. Regroups(g, held, s)
        BY Regrouping, Zenon
      <4> QED
        BY <4>1 DEF Regroups
    <3>3. g \o (now \o lost) = Count(m)
      BY <2>12, <2>13, <3>1, <3>2
    <3>4. PICK t \in Chunks : t = g \o now
      BY Joined
    <3>5. t \o lost = Count(m)
      <4>1. (g \o now) \o lost = g \o (now \o lost)
        <5>1. Regroups(g, now, lost)
          BY Regrouping, Zenon
        <5> QED
          BY <5>1 DEF Regroups
      <4> QED
        BY <3>3, <3>4, <4>1
    <3>6. Prefix(t, m) /\ (lost = <<>> => t = Count(m))
      BY <3>5, FrontIsPrefix, NothingJoined
    <3> QED
      BY <3>1, <3>4, <3>6
  <2>15. Phase(d, n, req)
    <3>1. \A i \in 1 .. Len(d.proxy.stream.in) : d.proxy.stream.in[i] # Header
      BY <1>2, <1>3, <2>6
    <3> QED
      BY <1>2, <1>5, <1>7, <2>1, <2>5, <2>6, <3>1 DEF Phase, Forwarding
  <2>16. UpFlow(d, g, m)
    <3>1. Intact(d) => lost = <<>>
      BY <1>7, <2>1, <2>2, <2>5, <2>6, <2>13 DEF Intact, alive, is_shutdown
    <3>2. g \o Held(r) \in Chunks
      BY <2>10, Joined
    <3>3. (g \o Held(r)) \o NoHeader(d.proxy.stream.in) = g \o Held(r)
      <4>1. NoHeader(d.proxy.stream.in) = <<>>
        BY <1>2, <1>3, <2>6
      <4>2. (g \o Held(r)) \o <<>> = g \o Held(r)
        BY <3>2, NothingJoined
      <4> QED
        BY <4>1, <4>2
    <3> QED
      BY <1>2, <1>7, <2>1, <2>5, <2>6, <2>11, <2>14, <3>1, <3>3 DEF UpFlow
  <2>17. UpBound(d, req)
    BY <2>1, <2>2, <2>5, <2>6 DEF UpBound
  <2> QED
    BY <1>1, <2>7, <2>8, <2>15, <2>16, <2>17 DEF Upstream
<1> QED
  BY <1>6, <1>7

\* do_read of the client's side, as a step of the connection.
LEMMA DoRead ==
  ASSUME NEW c \in Connections, Sane(c), NEW e, e = [c EXCEPT !.proxy = tls_do_read(c.proxy)]
  PROVE  e \in Connections /\ ReadFrom(c, e)
<1>1. PICK p, r : p \in TlsConns /\ p = c.proxy /\ r = tls_do_read(p)
  BY ConnectionParts
<1>2. p.side = "server" /\ p.stream \in Streams /\ p.status \in Statuses
  BY <1>1, ConnectionParts DEF Sane
<1>3. /\ r \in TlsConns
      /\ r.side = "server" /\ r.session = p.session /\ r.plain = p.plain
      /\ r.writable = p.writable
      /\ r.stream = [p.stream EXCEPT !.in = <<>>]
      /\ r.status = IF p.stream.end # "open" THEN shutdown(p.status) ELSE p.status
  BY <1>1, <1>2, TlsReads
<1>4. r.stream.in = <<>> /\ r.stream.out = p.stream.out /\ r.stream.end = p.stream.end
  BY <1>2, <1>3 DEF Streams
<1>5. e = [c EXCEPT !.proxy = r]
  BY <1>1
<1>6. /\ e \in Connections /\ e.proxy = r /\ e.backend = c.backend
      /\ e.status = c.status /\ e.command = c.command /\ e.sock5_addr = c.sock5_addr
      /\ e.data = c.data /\ e.dns = c.dns
  BY ONLY <1>3, <1>5, WithProxy
<1>7. /\ is_shutdown(p.status) => is_shutdown(r.status)
      /\ p.stream.end # "open" => is_shutdown(r.status)
  BY <1>2, <1>3, LifeCycle
<1>8. Sane(e)
  BY <1>1, <1>3, <1>4, <1>6 DEF Sane
<1>9. DownSame(c, e)
  BY <1>1, <1>3, <1>4, <1>6, <1>7 DEF DownSame
<1> QED
  BY <1>1, <1>4, <1>6, <1>7, <1>8, <1>9 DEF ReadFrom

\* try_read_proxy: what is read reaches the backend, the cache or, for a client
\* that sent garbage, nobody.
LEMMA ReadsProxy ==
  ASSUME NEW c \in Connections, NEW g \in Chunks, NEW n \in Nat, NEW req \in RequestKinds,
         NEW o \in Outcomes, Sane(c), Upstream(c, g, n, req),
         c.backend.kind = "none" \/ backend_writable(c.backend),
         NEW d, d = try_read_proxy(c, o, req)
  PROVE  Sane(d) /\ DownSame(c, d) /\ Upstream(d, g, n, req)
<1>1. PICK e \in Connections : e = [c EXCEPT !.proxy = tls_do_read(c.proxy)] /\ ReadFrom(c, e)
  BY DoRead
<1>2. PICK s \in Chunks : s = c.proxy.stream.in
  BY ConnectionParts
<1>3. DownSame(c, e) /\ Sane(e)
  BY <1>1 DEF ReadFrom
<1>4. /\ Phase(c, n, req) /\ UpFlow(c, g, PayloadOf(n, req)) /\ UpBound(c, req)
  BY DEF Upstream
<1>5. CASE s = <<>>
  <2>1. d = e
    BY <1>1, <1>2, <1>5 DEF try_read_proxy, tls_read_data
  <2>2. UpSame(c, e)
    BY <1>1, <1>2, <1>5 DEF ReadFrom, UpSame
  <2> QED
    BY <1>3, <2>1, <2>2, UpKept
<1>6. CASE s # <<>> /\ c.proxy.stream.end = "bad"
  <2>1. d = e
    BY <1>1, <1>6 DEF try_read_proxy, tls_read_data
  <2>2. /\ e.proxy.stream.in = <<>> /\ e.proxy.stream.end = "bad" /\ is_shutdown(e.proxy.status)
        /\ e.backend = c.backend /\ e.data = c.data
        /\ e.status = c.status /\ e.command = c.command /\ e.sock5_addr = c.sock5_addr
    BY <1>1, <1>6 DEF ReadFrom
  <2>3. Len(<<>>) = 0
    BY NothingJoined
  <2>4. Phase(e, n, req)
    <3>1. \A i \in 1 .. Len(e.proxy.stream.in) : e.proxy.stream.in[i] # Header
      BY <2>2, <2>3
    <3> QED
      BY <1>4, <2>2, <3>1 DEF Phase
  <2>5. Forwarded(e) = Forwarded(c) /\ ~Intact(e)
    BY <2>2 DEF Forwarded, Intact
  <2>6. UpFlow(e, g, PayloadOf(n, req))
    BY <1>4, <2>2, <2>5 DEF UpFlow
  <2>7. UpBound(e, req)
    BY <2>2 DEF UpBound
  <2> QED
    BY <1>3, <2>1, <2>4, <2>6, <2>7 DEF Upstream
<1>7. CASE s # <<>> /\ c.proxy.stream.end # "bad"
  <2>1. d = dispatch(e, s, o, req)
    BY <1>1, <1>2, <1>7 DEF try_read_proxy, tls_read_data
  <2>2. c.status \in {"HandShake", "DnsWait"} => g = <<>>
    BY <1>4 DEF Phase, UpFlow, Forwarding
  <2>3. CASE c.status = "HandShake"
    <3>1. Upstream(c, <<>>, n, req) /\ g = <<>>
      BY <2>2, <2>3
    <3>2. Sane(d) /\ DownSame(e, d) /\ Upstream(d, <<>>, n, req)
      BY <1>1, <1>2, <1>7, <2>1, <2>3, <3>1, HandshakeReads
    <3> QED
      BY <1>3, <3>1, <3>2, DownSameTwice
  <2>4. CASE c.status = "DnsWait"
    <3>1. Upstream(c, <<>>, n, req) /\ g = <<>>
      BY <2>2, <2>4
    <3>2. Sane(d) /\ DownSame(e, d) /\ Upstream(d, <<>>, n, req)
      BY <1>1, <1>2, <1>7, <2>1, <2>4, <3>1, WaitingReads
    <3> QED
      BY <1>3, <3>1, <3>2, DownSameTwice
  <2>5. CASE c.status \in Forwarding
    <3>1. Sane(d) /\ DownSame(e, d) /\ Upstream(d, g, n, req)
      BY <1>1, <1>2, <1>7, <2>1, <2>5, ForwardingReads
    <3> QED
      BY <1>3, <3>1, DownSameTwice
  <2> QED
    BY <2>3, <2>4, <2>5 DEF Connections, Forwarding
<1> QED
  BY <1>5, <1>6, <1>7

\* The readable branch for the client's channel.
LEMMA ProxyReads ==
  ASSUME NEW c \in Connections, NEW g \in Chunks, NEW n \in Nat, NEW req \in RequestKinds,
         NEW o \in Outcomes, Sane(c), Upstream(c, g, n, req),
         NEW d, d = ProxyReadable(c, o, req)
  PROVE  Sane(d) /\ DownSame(c, d) /\ Upstream(d, g, n, req)
<1>1. CASE c.backend.kind = "none" \/ backend_writable(c.backend)
  <2>1. d = try_read_proxy(c, o, req)
    BY <1>1 DEF ProxyReadable
  <2> QED
    BY <1>1, <2>1, ReadsProxy
<1>2. CASE ~(c.backend.kind = "none" \/ backend_writable(c.backend))
  <2>1. d = [c EXCEPT !.read_proxy = TRUE]
    BY <1>2 DEF ProxyReadable
  <2>2. /\ d \in Connections /\ d.proxy = c.proxy /\ d.backend = c.backend
        /\ d.status = c.status /\ d.command = c.command /\ d.sock5_addr = c.sock5_addr
        /\ d.data = c.data
    BY <2>1 DEF Connections
  <2>3. UpSame(c, d) /\ DownSame(c, d) /\ Sane(d)
    BY <2>2 DEF UpSame, DownSame, Sane
  <2> QED
    BY <2>3, UpKept
<1> QED
  BY <1>1, <1>2

-----------------------------------------------------------------------------
(* Reading from the target and flushing to the client *)

\* What is in the client's socket is the front of what is under way to it.
LEMMA SocketIsFront ==
  ASSUME NEW g \in Chunks, NEW out \in Chunks, NEW session \in Chunks, NEW in \in Chunks,
         NEW n \in Nat, (g \o (out \o session)) \o in = Count(n)
  PROVE  Prefix(g \o out, n)
<1>1. PICK t \in Chunks : t = g \o out
  BY Joined
<1>2. PICK u \in Chunks : u = t \o session
  BY Joined
<1>3. (g \o out) \o session = g \o (out \o session)
  <2>1. Regroups(g, out, session)
    BY Regrouping, Zenon
  <2> QED
    BY <2>1 DEF Regroups
<1>4. u \o in = Count(n)
  BY <1>1, <1>2, <1>3
<1>5. Prefix(u, n)
  BY <1>4, FrontIsPrefix
<1>6. Prefix(t \o session, n)
  BY <1>2, <1>5
<1>7. Prefix(t, n)
  BY <1>6, PrefixShrinks
<1> QED
  BY <1>1, <1>7

\* Putting a changed session side into the connection, when the session gave its
\* front to the socket and the backend may have been drained into it.
LEMMA DownMoves ==
  ASSUME NEW c \in Connections, NEW d \in Connections, NEW g \in Chunks, NEW n \in Nat,
         Downstream(c, g, n),
         is_shutdown(c.proxy.status) => is_shutdown(d.proxy.status),
         is_shutdown(c.proxy.status) => d.proxy.stream.out = c.proxy.stream.out,
         (d.proxy.stream.out \o d.proxy.session) \o d.backend.stream.in
           = (c.proxy.stream.out \o c.proxy.session) \o c.backend.stream.in,
         DownBound(d)
  PROVE  Downstream(d, g, n)
<1>1. /\ c.proxy.stream.out \in Chunks /\ c.proxy.session \in Chunks
      /\ c.backend.stream.in \in Chunks
      /\ d.proxy.stream.out \in Chunks /\ d.proxy.session \in Chunks
      /\ d.backend.stream.in \in Chunks
  BY ConnectionParts
<1>2. CASE is_shutdown(c.proxy.status)
  BY <1>2 DEF Downstream, DownFlow
<1>3. CASE ~is_shutdown(c.proxy.status)
  <2>1. PICK a \in Chunks, b \in Chunks, i \in Chunks, j \in Chunks, out \in Chunks, session \in Chunks :
          /\ a = c.proxy.stream.out \o c.proxy.session /\ i = c.backend.stream.in
          /\ b = d.proxy.stream.out \o d.proxy.session /\ j = d.backend.stream.in
          /\ out = d.proxy.stream.out /\ session = d.proxy.session
    BY <1>1, Joined
  <2>2. (g \o a) \o i = Count(n)
    BY <1>3, <2>1 DEF Downstream, DownFlow
  <2>3. (g \o a) \o i = g \o (a \o i)
    <3>1. Regroups(g, a, i)
      BY Regrouping, Zenon
    <3> QED
      BY <3>1 DEF Regroups
  <2>4. (g \o b) \o j = g \o (b \o j)
    <3>1. Regroups(g, b, j)
      BY Regrouping, Zenon
    <3> QED
      BY <3>1 DEF Regroups
  <2>5. (g \o b) \o j = Count(n)
    BY <2>1, <2>2, <2>3, <2>4
  <2>6. (g \o (out \o session)) \o j = Count(n)
    BY <2>1, <2>5
  <2>7. Prefix(g \o out, n)
    BY <2>6, SocketIsFront
  <2> QED
    BY <2>1, <2>6, <2>7 DEF Downstream, DownFlow
<1> QED
  BY <1>2, <1>3

\* do_send after established().
LEMMA ProxyFlushes ==
  ASSUME NEW c \in Connections, NEW g \in Chunks, NEW n \in Nat, Sane(c), Downstream(c, g, n),
         NEW d, d = [c EXCEPT !.proxy = tls_do_send(tls_established(c.proxy))]
  PROVE  /\ d \in Connections /\ Sane(d) /\ UpSame(c, d) /\ Downstream(d, g, n)
         /\ d.backend = c.backend /\ d.read_backend = c.read_backend
<1>1. PICK p \in TlsConns : p = c.proxy
  BY ConnectionParts
<1>2. p.status \in Statuses /\ p.stream \in Streams /\ p.stream.out \in Chunks
      /\ p.session \in Chunks /\ c.backend.stream.in \in Chunks
  BY <1>1, ConnectionParts
<1>3. /\ established(p.status) \in Statuses /\ established(p.status) # "Connecting"
      /\ is_shutdown(established(p.status)) <=> is_shutdown(p.status)
  BY <1>2, LifeCycle
<1>4. PICK q : q = tls_established(p)
  OBVIOUS
<1>5. /\ q \in TlsConns /\ q.status = established(p.status) /\ q.stream = p.stream
      /\ q.session = p.session /\ q.side = p.side
  BY <1>3, <1>4 DEF TlsConns, tls_established
<1>6. PICK s : s = tls_do_send(q)
  OBVIOUS
<1>7. Len(q.stream.out) <= Cap
  BY <1>1, <1>5 DEF Sane
<1>8. /\ s \in TlsConns /\ Len(s.stream.out) <= Cap
      /\ s.stream.out \o s.session = q.stream.out \o q.session
      /\ s.side = q.side
      /\ s.stream.in = q.stream.in /\ s.stream.end = q.stream.end
      /\ s.status \in {q.status, shutdown(q.status)}
      /\ is_shutdown(q.status) => s.stream = q.stream /\ s.session = q.session
      /\ Len(s.session) <= Len(q.session)
      /\ (s.writable /\ ~is_shutdown(s.status) /\ q.status # "Connecting") => s.session = <<>>
  <2>1. Flush(q, s)
    BY <1>5, <1>6, <1>7, TlsSends, Zenon
  <2> QED
    BY <2>1 DEF Flush
<1>9. d = [c EXCEPT !.proxy = s]
  BY <1>1, <1>4, <1>6
<1>10. /\ d \in Connections /\ d.proxy = s /\ d.backend = c.backend
       /\ d.status = c.status /\ d.command = c.command /\ d.sock5_addr = c.sock5_addr
       /\ d.data = c.data /\ d.read_backend = c.read_backend
  BY ONLY <1>8, <1>9, WithProxy
<1>11. is_shutdown(p.status) => is_shutdown(s.status)
  BY <1>3, <1>5, <1>8, LifeCycle
<1>12. Sane(d)
  BY <1>1, <1>5, <1>8, <1>10 DEF Sane
<1>13. UpSame(c, d)
  BY <1>1, <1>5, <1>8, <1>10, <1>11 DEF UpSame
<1>14. DownBound(d)
  BY <1>3, <1>5, <1>8, <1>10 DEF DownBound
<1>15. Downstream(d, g, n)
  <2>1. d.proxy.stream.out \o d.proxy.session = c.proxy.stream.out \o c.proxy.session
    BY <1>1, <1>5, <1>8, <1>10
  <2>2. /\ is_shutdown(c.proxy.status) => is_shutdown(d.proxy.status)
        /\ is_shutdown(c.proxy.status) => d.proxy.stream.out = c.proxy.stream.out
    BY <1>1, <1>3, <1>5, <1>8, <1>10, <1>11
  <2>3. (d.proxy.stream.out \o d.proxy.session) \o d.backend.stream.in
           = (c.proxy.stream.out \o c.proxy.session) \o c.backend.stream.in
    BY <1>10, <2>1
  <2> QED
    BY ONLY <1>10, <1>14, <2>2, <2>3, DownMoves, Downstream(c, g, n)
<1> QED
  BY <1>10, <1>12, <1>13, <1>15

\* do_read of the backend: what the target sent goes behind what the session
\* holds, which is nothing, and from there as far as the client's socket takes it.
LEMMA ReadsBackend ==
  ASSUME NEW c \in Connections, NEW g \in Chunks, NEW n \in Nat, Sane(c), Downstream(c, g, n),
         c.backend.kind # "none", tls_writable(c.proxy), NEW d, d = backend_do_read(c)
  PROVE  d \in Connections /\ Sane(d) /\ UpSame(c, d) /\ Downstream(d, g, n)
<1>1. PICK p \in TlsConns, b \in Backends : p = c.proxy /\ b = c.backend
  BY ConnectionParts
<1>2. /\ p.status \in Statuses /\ p.stream \in Streams /\ p.stream.out \in Chunks
      /\ p.session \in Chunks /\ b.stream.in \in Chunks /\ b.stream \in Streams
      /\ b.status \in Statuses
  BY <1>1, ConnectionParts
<1>3. /\ p.side = "server" /\ Len(p.stream.out) <= Cap /\ p.status # "Connecting"
      /\ ~is_shutdown(p.status) /\ p.session = <<>>
      /\ b.status # "Connecting" /\ b.kind # "none" /\ BackendFits(b)
  BY <1>1 DEF Sane, tls_writable, alive, is_shutdown, Downstream, DownBound
<1>4. PICK x, s : x \in Chunks /\ x = b.stream.in /\ s = tls_do_send(write_session(p, x))
  BY <1>2
<1>5. /\ s \in TlsConns /\ Len(s.stream.out) <= Cap
      /\ (s.stream.out \o s.session) \o <<>> = (p.stream.out \o p.session) \o x
      /\ s.side = "server"
      /\ s.stream.in = p.stream.in /\ s.stream.end = p.stream.end
      /\ s.status \in {p.status, shutdown(p.status)}
      /\ Len(s.session) <= Len(p.session) + Len(x)
      /\ (s.writable /\ ~is_shutdown(s.status) /\ p.status # "Connecting") => s.session = <<>>
  <2>1. p.side = "server" /\ Len(p.stream.out) <= Cap /\ s = tls_do_send(write_session(p, x))
    BY <1>3, <1>4
  <2> QED
    <3>1. Pushed(p, x, s)
      BY <1>1, <1>4, <2>1, TlsPushes, Zenon
    <3> QED
      BY <3>1 DEF Pushed
<1>6. PICK r : r = TcpDrained(b)
  OBVIOUS
<1>7. shutdown(b.status) \in Statuses /\ is_shutdown(shutdown(b.status))
  BY <1>2, LifeCycle
<1>8. /\ r \in Backends /\ r.kind = b.kind /\ r.send_buffer = b.send_buffer
      /\ r.stream.in = <<>> /\ r.stream.out = b.stream.out
      /\ r.status = IF b.stream.end # "open" THEN shutdown(b.status) ELSE b.status
  <2>1. PICK k : k = [b.stream EXCEPT !.in = <<>>]
    OBVIOUS
  <2>2. k \in Streams /\ k.in = <<>> /\ k.out = b.stream.out
    BY <1>2, <2>1, NothingJoined DEF Streams
  <2>3. PICK st \in Statuses : st = IF b.stream.end # "open" THEN shutdown(b.status) ELSE b.status
    BY <1>2, <1>7
  <2>4. r = [b EXCEPT !.stream = k, !.status = st]
    BY <1>6, <2>1, <2>3 DEF TcpDrained, Backends
  <2> QED
    BY ONLY <2>2, <2>3, <2>4, b \in Backends DEF Backends
<1>9. d = [c EXCEPT !.backend = r, !.proxy = s]
  BY <1>1, <1>4, <1>6 DEF backend_do_read
<1>10. /\ d \in Connections /\ d.proxy = s /\ d.backend = r
       /\ d.status = c.status /\ d.command = c.command /\ d.sock5_addr = c.sock5_addr
       /\ d.data = c.data
  BY ONLY <1>5, <1>8, <1>9, c \in Connections DEF Connections
<1>11. /\ alive(r.status) => alive(b.status)
       /\ r.status # "Connecting" /\ BackendFits(r)
  BY <1>3, <1>7, <1>8 DEF alive, is_shutdown, BackendFits
<1>12. Sane(d)
  BY <1>3, <1>5, <1>8, <1>10, <1>11 DEF Sane
<1>13. UpSame(c, d)
  BY <1>1, <1>3, <1>5, <1>8, <1>10, <1>11 DEF UpSame
<1>14. <<>> \in Chunks /\ Len(<<>>) = 0
  BY <1>2, NothingJoined
<1>15. DownBound(d)
  BY <1>3, <1>5, <1>10 DEF DownBound
<1>16. (d.proxy.stream.out \o d.proxy.session) \o d.backend.stream.in
         = (c.proxy.stream.out \o c.proxy.session) \o c.backend.stream.in
  BY <1>1, <1>4, <1>5, <1>8, <1>10
<1>17. ~is_shutdown(c.proxy.status)
  BY <1>1, <1>3
<1>18. Downstream(d, g, n)
  BY ONLY <1>10, <1>15, <1>16, <1>17, DownMoves, Downstream(c, g, n)
<1> QED
  BY <1>10, <1>12, <1>13, <1>18

-----------------------------------------------------------------------------
(* Handlers.  g and m are about the way to the target, h and n about the   *)
(* way to the client.                                                      *)

Sound(c, g, m, h, n, req) == Sane(c) /\ Upstream(c, g, m, req) /\ Downstream(c, h, n)

\* A step that touches neither direction.
LEMMA Calm ==
  ASSUME NEW c, NEW d, NEW g, NEW m, NEW h, NEW n, NEW req, Sound(c, g, m, h, n, req),
         Sane(d), UpSame(c, d), DownSame(c, d)
  PROVE  Sound(d, g, m, h, n, req)
BY UpKept, DownKept DEF Sound

\* A step towards the target only, and one towards the client only.
LEMMA UpOnly ==
  ASSUME NEW c, NEW d, NEW g, NEW m, NEW h, NEW n, NEW req, Sound(c, g, m, h, n, req),
         Sane(d), Upstream(d, g, m, req), DownSame(c, d)
  PROVE  Sound(d, g, m, h, n, req)
BY DownKept DEF Sound

LEMMA DownOnly ==
  ASSUME NEW c, NEW d, NEW g, NEW m, NEW h, NEW n, NEW req, Sound(c, g, m, h, n, req),
         Sane(d), Downstream(d, h, n), UpSame(c, d)
  PROVE  Sound(d, g, m, h, n, req)
BY UpKept DEF Sound

\* A step that changes only the states of the sockets, and only forward.
LEMMA StatusOnly ==
  ASSUME NEW c \in Connections, Sane(c), NEW ps \in Statuses, NEW bs \in Statuses, NEW d,
         d = [c EXCEPT !.proxy = [c.proxy EXCEPT !.status = ps],
                       !.backend = [c.backend EXCEPT !.status = bs]],
         is_shutdown(c.proxy.status) => is_shutdown(ps),
         alive(bs) => alive(c.backend.status),
         c.backend.kind = "none" => bs = c.backend.status,
         c.backend.kind # "none" => bs # "Connecting"
  PROVE  d \in Connections /\ Sane(d) /\ UpSame(c, d) /\ DownSame(c, d)
<1>1. PICK p, b : p = [c.proxy EXCEPT !.status = ps] /\ b = [c.backend EXCEPT !.status = bs]
  OBVIOUS
<1>2. c.proxy \in TlsConns /\ c.backend \in Backends
  BY ConnectionParts
<1>3. /\ p \in TlsConns /\ p.status = ps /\ p.stream = c.proxy.stream
      /\ p.session = c.proxy.session /\ p.side = c.proxy.side /\ p.writable = c.proxy.writable
  BY <1>1, <1>2 DEF TlsConns
<1>4. /\ b \in Backends /\ b.status = bs /\ b.stream = c.backend.stream
      /\ b.kind = c.backend.kind /\ b.send_buffer = c.backend.send_buffer
      /\ bs = c.backend.status => b = c.backend
  BY <1>1, <1>2 DEF Backends
<1>5. d = [c EXCEPT !.proxy = p, !.backend = b]
  BY <1>1
<1>6. /\ d \in Connections /\ d.proxy = p /\ d.backend = b
      /\ d.status = c.status /\ d.command = c.command /\ d.sock5_addr = c.sock5_addr
      /\ d.data = c.data
  BY ONLY <1>3, <1>4, <1>5, c \in Connections DEF Connections
<1>7. Sane(d)
  BY <1>3, <1>4, <1>6 DEF Sane, BackendFits
<1>8. UpSame(c, d) /\ DownSame(c, d)
  BY <1>3, <1>4, <1>6 DEF UpSame, DownSame
<1> QED
  BY <1>6, <1>7, <1>8

\* Telling the sides of each other's end.
LEMMA Propagates ==
  ASSUME NEW c \in Connections, Sane(c), NEW d, d = PropagateClose(c)
  PROVE  d \in Connections /\ Sane(d) /\ UpSame(c, d) /\ DownSame(c, d)
<1>1. CASE c.backend.kind = "none"
  <2>1. d = c
    BY <1>1 DEF PropagateClose
  <2> QED
    BY <2>1 DEF UpSame, DownSame
<1>2. CASE c.backend.kind # "none"
  <2>1. c.proxy.status \in Statuses /\ c.backend.status \in Statuses
    BY ConnectionParts
  <2>2. PICK ps, bs : /\ ps = IF is_shutdown(c.backend.status) THEN peer_closed(c.proxy.status)
                                ELSE c.proxy.status
                      /\ bs = IF is_shutdown(c.proxy.status) THEN peer_closed(c.backend.status)
                                ELSE c.backend.status
    OBVIOUS
  <2>3. d = [c EXCEPT !.proxy = [c.proxy EXCEPT !.status = ps],
                      !.backend = [c.backend EXCEPT !.status = bs]]
    BY <1>2, <2>2 DEF PropagateClose, Connections
  <2>4. c.backend.status # "Connecting"
    BY <1>2 DEF Sane
  <2>5. /\ ps \in Statuses /\ bs \in Statuses
        /\ is_shutdown(c.proxy.status) => is_shutdown(ps)
        /\ alive(bs) => alive(c.backend.status) /\ bs # "Connecting"
        /\ bs # "Connecting"
    BY <2>1, <2>2, <2>4 DEF Statuses, peer_closed, is_shutdown, alive
  <2> QED
    BY ONLY <1>2, <2>3, <2>5, c \in Connections, Sane(c), StatusOnly
<1> QED
  BY <1>1, <1>2

\* check_status of both sides.
LEMMA Checks ==
  ASSUME NEW c \in Connections, Sane(c), NEW d, d = CheckBoth(c)
  PROVE  d \in Connections /\ Sane(d) /\ UpSame(c, d) /\ DownSame(c, d)
<1>1. c.proxy.status \in Statuses /\ c.backend.status \in Statuses
  BY ConnectionParts
<1>2. PICK f, e : f = ~wants_write(c.proxy) /\ e = finish_send(c.backend)
  OBVIOUS
<1>3. f \in BOOLEAN /\ e \in BOOLEAN
  BY <1>2 DEF wants_write, finish_send
<1>4. PICK ps, bs : /\ ps = check_status(c.proxy.status, f)
                    /\ bs = IF c.backend.kind = "none" THEN c.backend.status
                            ELSE check_status(c.backend.status, e)
  OBVIOUS
<1>5. c.backend = [c.backend EXCEPT !.status = c.backend.status]
  BY ConnectionParts DEF Backends
<1>6. d = [c EXCEPT !.proxy = [c.proxy EXCEPT !.status = ps],
                    !.backend = [c.backend EXCEPT !.status = bs]]
  BY <1>2, <1>4, <1>5 DEF CheckBoth, tls_check_status, backend_check_status
<1>7. c.backend.kind # "none" => c.backend.status # "Connecting"
  BY DEF Sane
<1>8. /\ ps \in Statuses /\ bs \in Statuses
      /\ is_shutdown(c.proxy.status) => is_shutdown(ps)
      /\ alive(bs) => alive(c.backend.status)
      /\ c.backend.kind = "none" => bs = c.backend.status
      /\ c.backend.kind # "none" => bs # "Connecting"
  BY <1>1, <1>3, <1>4, <1>7, LifeCycle
<1> QED
  BY ONLY <1>6, <1>8, c \in Connections, Sane(c), StatusOnly

\* The end of every handler.
LEMMA Closes ==
  ASSUME NEW c \in Connections, NEW g, NEW m, NEW h, NEW n, NEW req,
         Sound(c, g, m, h, n, req), NEW d, d = CheckBoth(PropagateClose(c))
  PROVE  Sound(d, g, m, h, n, req)
<1>1. PICK e : e = PropagateClose(c)
  OBVIOUS
<1>2. e \in Connections /\ Sane(e) /\ UpSame(c, e) /\ DownSame(c, e)
  BY <1>1, Propagates DEF Sound
<1>3. Sound(e, g, m, h, n, req)
  BY <1>2, Calm
<1>4. Sane(d) /\ UpSame(e, d) /\ DownSame(e, d)
  BY <1>1, <1>2, Checks
<1> QED
  BY <1>3, <1>4, Calm

\* destroy, by the idle timeout.
LEMMA DestroyKeeps ==
  ASSUME NEW c \in Connections, Sane(c), NEW d, d = destroy(c)
  PROVE  d \in Connections /\ Sane(d) /\ UpSame(c, d) /\ DownSame(c, d)
<1>1. PICK ps, bs : /\ ps = shutdown(c.proxy.status)
                    /\ bs = IF c.backend.kind = "none" THEN c.backend.status
                            ELSE shutdown(c.backend.status)
  OBVIOUS
<1>2. PICK e : e = [c EXCEPT !.proxy = [c.proxy EXCEPT !.status = ps],
                             !.backend = [c.backend EXCEPT !.status = bs]]
  OBVIOUS
<1>3. d = CheckBoth(e)
  BY <1>1, <1>2 DEF destroy, Connections
<1>4. c.proxy.status \in Statuses /\ c.backend.status \in Statuses
  BY ConnectionParts
<1>5. /\ ps \in Statuses /\ bs \in Statuses
      /\ is_shutdown(c.proxy.status) => is_shutdown(ps)
      /\ alive(bs) => alive(c.backend.status)
      /\ c.backend.kind = "none" => bs = c.backend.status
      /\ c.backend.kind # "none" => bs # "Connecting"
  BY <1>1, <1>4 DEF Statuses, shutdown, is_shutdown, alive
<1>6. e \in Connections /\ Sane(e) /\ UpSame(c, e) /\ DownSame(c, e)
  BY ONLY <1>2, <1>5, c \in Connections, Sane(c), StatusOnly
<1>7. d \in Connections /\ Sane(d) /\ UpSame(e, d) /\ DownSame(e, d)
  BY <1>3, <1>6, Checks
<1> QED
  BY <1>6, <1>7, UpSameTwice, DownSameTwice

LEMMA Destroys ==
  ASSUME NEW c \in Connections, NEW g, NEW m, NEW h, NEW n, NEW req,
         Sound(c, g, m, h, n, req), NEW d, d = destroy(c)
  PROVE  Sound(d, g, m, h, n, req)
BY DestroyKeeps, Calm DEF Sound

SameKind(c, d) == d.backend.kind = c.backend.kind

\* Flushing the backend: what the socket takes leaves the buffer's front.
LEMMA BackendFlushes ==
  ASSUME NEW c \in Connections, NEW g \in Chunks, NEW n \in Nat, NEW req \in RequestKinds,
         Sane(c), Upstream(c, g, n, req), c.backend.kind # "none",
         NEW d, d = [c EXCEPT !.backend = backend_dispatch(c.backend, <<>>)]
  PROVE  /\ d \in Connections /\ Sane(d) /\ DownSame(c, d) /\ Upstream(d, g, n, req)
         /\ SameKind(c, d)
<1>1. PICK m \in Nat : m = PayloadOf(n, req)
  BY DEF PayloadOf
<1>2. PICK b \in Backends : b = c.backend
  BY ConnectionParts
<1>3. b.kind # "none" /\ BackendFits(b) /\ b.status # "Connecting"
  BY <1>2 DEF Sane
<1>4. PICK e \in Chunks : e = <<>> /\ Len(e) = 0
  BY NothingJoined
<1>5. PICK r : r = backend_dispatch(b, e)
  OBVIOUS
<1>6. Passes(b, e, r)
  BY ONLY <1>3, <1>5, b \in Backends, e \in Chunks, BackendPasses
<1>7. /\ r \in Backends /\ BackendFits(r) /\ r.kind = b.kind /\ r.stream.in = b.stream.in
      /\ r.status = b.status \/ is_shutdown(r.status)
      /\ Len(r.send_buffer) <= Len(b.send_buffer) + Len(e)
  BY <1>6 DEF Passes
<1>8. PICK lost \in Chunks : Held(r) \o lost = Held(b) \o e /\ (~is_shutdown(r.status) => lost = <<>>)
  BY <1>6 DEF Passes
<1>9. /\ d \in Connections /\ d.backend = r /\ d.proxy = c.proxy
      /\ d.status = c.status /\ d.command = c.command /\ d.sock5_addr = c.sock5_addr
      /\ d.data = c.data
  <2>1. d = [c EXCEPT !.backend = r]
    BY <1>2, <1>4, <1>5
  <2> QED
    BY ONLY <1>7, <2>1, c \in Connections, WithBackend
<1>10. Sane(d) /\ DownSame(c, d)
  BY <1>2, <1>3, <1>7, <1>9 DEF Sane, DownSame, is_shutdown
<1>11. Phase(c, n, req) /\ UpFlow(c, g, m) /\ UpBound(c, req)
  BY <1>1 DEF Upstream
<1>12. Phase(d, n, req)
  BY <1>2, <1>7, <1>9, <1>11 DEF Phase
<1>13. PICK held \in Chunks, now \in Chunks : held = Held(b) /\ now = Held(r)
  BY <1>7, Joined DEF Held, Backends, Streams
<1>14. c.data = <<>>
  BY <1>2, <1>3, <1>11 DEF Phase
<1>15. Forwarded(c) = held /\ Forwarded(d) = now /\ now \o lost = held
  <2>1. held \o <<>> = held /\ now \o <<>> = now
    BY NothingJoined
  <2> QED
    BY <1>2, <1>4, <1>8, <1>9, <1>13, <1>14, <2>1 DEF Forwarded
<1>16. Prefix(g \o now, m)
  <2>1. Prefix(g \o (now \o lost), m)
    BY <1>11, <1>15 DEF UpFlow
  <2> QED
    BY ONLY <2>1, g \in Chunks, now \in Chunks, lost \in Chunks, m \in Nat, FrontStays
<1>17. Intact(d) => Intact(c) /\ now = held
  <2>1. ASSUME Intact(d) PROVE alive(r.status) /\ c.proxy.stream.end # "bad"
    BY <1>3, <1>7, <1>9, <2>1 DEF Intact
  <2>2. ASSUME Intact(d) PROVE ~is_shutdown(r.status) /\ r.status = b.status
    BY <1>7, <2>1, <2>2 DEF alive, is_shutdown
  <2>3. lost = <<>> => now = held
    <3>1. now \o <<>> = now
      BY NothingJoined
    <3> QED
      BY <1>15, <3>1
  <2> QED
    BY <1>2, <1>3, <1>8, <2>1, <2>2, <2>3 DEF Intact
<1>18. UpFlow(d, g, m)
  BY <1>2, <1>3, <1>7, <1>9, <1>11, <1>15, <1>16, <1>17 DEF UpFlow
<1>19. UpBound(d, req)
  BY <1>2, <1>3, <1>7, <1>9 DEF UpBound
<1> QED
  BY <1>1, <1>2, <1>7, <1>9, <1>10, <1>12, <1>18, <1>19 DEF Upstream, SameKind

\* A flag of the connection is none of the data's business.
LEMMA FlagSet ==
  ASSUME NEW c \in Connections, NEW g, NEW m, NEW h, NEW n, NEW req,
         Sound(c, g, m, h, n, req), NEW x \in BOOLEAN, NEW d,
         \/ d = [c EXCEPT !.read_proxy = x]
         \/ d = [c EXCEPT !.read_backend = x]
         \/ d = [c EXCEPT !.dns = "none"]
         \/ d = [c EXCEPT !.dns = "hit"]
         \/ d = [c EXCEPT !.dns = "fail"]
  PROVE  d \in Connections /\ Sound(d, g, m, h, n, req)
<1>1. /\ d \in Connections /\ d.proxy = c.proxy /\ d.backend = c.backend
      /\ d.status = c.status /\ d.command = c.command /\ d.sock5_addr = c.sock5_addr
      /\ d.data = c.data
  BY DEF Connections
<1>2. UpSame(c, d) /\ DownSame(c, d) /\ Sane(d)
  BY <1>1 DEF UpSame, DownSame, Sane, Sound
<1> QED
  BY <1>1, <1>2, Calm

\* The branches of Connection::ready.
LEMMA ClientReadable ==
  ASSUME NEW c \in Connections, NEW g \in Chunks, NEW m \in Nat, NEW h \in Chunks, NEW n \in Nat,
         NEW req \in RequestKinds, NEW o \in Outcomes, Sound(c, g, m, h, n, req),
         NEW d, d = ProxyReadable(c, o, req)
  PROVE  d \in Connections /\ Sound(d, g, m, h, n, req)
<1>1. Sane(c) /\ Upstream(c, g, m, req)
  BY DEF Sound
<1>2. Sane(d) /\ DownSame(c, d) /\ Upstream(d, g, m, req)
  BY <1>1, ProxyReads
<1> QED
  BY <1>2, UpOnly DEF Sane

LEMMA ClientWritable ==
  ASSUME NEW c \in Connections, NEW g \in Chunks, NEW m \in Nat, NEW h \in Chunks, NEW n \in Nat,
         NEW req \in RequestKinds, Sound(c, g, m, h, n, req), NEW d, d = ProxyWritable(c)
  PROVE  d \in Connections /\ Sound(d, g, m, h, n, req)
<1>1. PICK s : s = [c EXCEPT !.proxy = tls_do_send(tls_established(c.proxy))]
  OBVIOUS
<1>2. s \in Connections /\ Sane(s) /\ UpSame(c, s) /\ Downstream(s, h, n)
  BY <1>1, ProxyFlushes DEF Sound
<1>3. Sound(s, g, m, h, n, req)
  BY <1>2, DownOnly
<1>4. CASE tls_writable(s.proxy) /\ s.read_backend /\ s.backend.kind # "none"
  <2>1. PICK e : e = backend_do_read(s)
    OBVIOUS
  <2>2. e \in Connections /\ Sane(e) /\ UpSame(s, e) /\ Downstream(e, h, n)
    BY ONLY <1>2, <1>4, <2>1, h \in Chunks, n \in Nat, ReadsBackend
  <2>3. Sound(e, g, m, h, n, req)
    BY <1>3, <2>2, DownOnly
  <2>4. d = [e EXCEPT !.read_backend = FALSE]
    BY <1>1, <1>4, <2>1 DEF ProxyWritable
  <2> QED
    BY <2>2, <2>3, <2>4, FlagSet
<1>5. CASE tls_writable(s.proxy) /\ s.read_backend /\ s.backend.kind = "none"
  <2>1. d = [s EXCEPT !.read_backend = FALSE]
    BY <1>1, <1>5 DEF ProxyWritable
  <2> QED
    BY <1>2, <1>3, <2>1, FlagSet
<1>6. CASE ~(tls_writable(s.proxy) /\ s.read_backend)
  <2>1. d = s
    BY <1>1, <1>6 DEF ProxyWritable
  <2> QED
    BY <1>2, <1>3, <2>1
<1> QED
  BY <1>4, <1>5, <1>6

LEMMA TargetReadable ==
  ASSUME NEW c \in Connections, NEW g \in Chunks, NEW m \in Nat, NEW h \in Chunks, NEW n \in Nat,
         NEW req \in RequestKinds, Sound(c, g, m, h, n, req), c.backend.kind # "none",
         NEW d, d = BackendReadable(c)
  PROVE  d \in Connections /\ Sound(d, g, m, h, n, req) /\ d.backend.kind # "none"
<1>1. CASE tls_writable(c.proxy)
  <2>1. d = backend_do_read(c) /\ Sane(c) /\ Downstream(c, h, n)
    BY <1>1 DEF BackendReadable, Sound
  <2>2. d \in Connections /\ Sane(d) /\ UpSame(c, d) /\ Downstream(d, h, n)
    BY ONLY <1>1, <2>1, c.backend.kind # "none", c \in Connections, h \in Chunks, n \in Nat, ReadsBackend
  <2>3. d.backend.kind # "none"
    BY <2>2 DEF UpSame
  <2> QED
    BY <2>2, <2>3, DownOnly
<1>2. CASE ~tls_writable(c.proxy)
  <2>1. d = [c EXCEPT !.read_backend = TRUE]
    BY <1>2 DEF BackendReadable
  <2>2. d.backend = c.backend
    BY <2>1 DEF Connections
  <2> QED
    BY <2>1, <2>2, FlagSet
<1> QED
  BY <1>1, <1>2

LEMMA TargetWritable ==
  ASSUME NEW c \in Connections, NEW g \in Chunks, NEW m \in Nat, NEW h \in Chunks, NEW n \in Nat,
         NEW req \in RequestKinds, NEW o \in Outcomes, Sound(c, g, m, h, n, req),
         c.backend.kind # "none", NEW d, d = BackendWritable(c, o, req)
  PROVE  d \in Connections /\ Sound(d, g, m, h, n, req)
<1>1. PICK s : s = [c EXCEPT !.backend = backend_dispatch(c.backend, <<>>)]
  OBVIOUS
<1>2. Sane(c) /\ Upstream(c, g, m, req)
  BY DEF Sound
<1>3. s \in Connections /\ Sane(s) /\ DownSame(c, s) /\ Upstream(s, g, m, req)
  BY ONLY <1>1, <1>2, c \in Connections, g \in Chunks, m \in Nat, req \in RequestKinds,
          c.backend.kind # "none", BackendFlushes
<1>4. Sound(s, g, m, h, n, req)
  BY <1>3, UpOnly
<1>5. CASE backend_writable(s.backend) /\ s.read_proxy
  <2>1. PICK e : e = try_read_proxy(s, o, req)
    OBVIOUS
  <2>2. Sane(e) /\ DownSame(s, e) /\ Upstream(e, g, m, req)
    BY ONLY <1>3, <1>5, <2>1, s \in Connections, g \in Chunks, m \in Nat, req \in RequestKinds,
            o \in Outcomes, ReadsProxy
  <2>3. Sound(e, g, m, h, n, req) /\ e \in Connections
    BY <1>4, <2>2, UpOnly DEF Sane
  <2>4. d = [e EXCEPT !.read_proxy = FALSE]
    BY <1>1, <1>5, <2>1 DEF BackendWritable
  <2> QED
    BY <2>3, <2>4, FlagSet
<1>6. CASE ~(backend_writable(s.backend) /\ s.read_proxy)
  <2>1. d = s
    BY <1>1, <1>6 DEF BackendWritable
  <2> QED
    BY <1>3, <1>4, <2>1
<1> QED
  BY <1>5, <1>6

\* The resolver's answer.
LEMMA Resolves ==
  ASSUME NEW c \in Connections, NEW g \in Chunks, NEW m \in Nat, NEW h \in Chunks, NEW n \in Nat,
         NEW req \in RequestKinds, NEW o \in Outcomes, Sound(c, g, m, h, n, req), NEW ip,
         NEW d, d = try_resolve(c, ip, o)
  PROVE  d \in Connections /\ Sound(d, g, m, h, n, req)
<1>1. CASE c.status # "DnsWait" \/ c.sock5_addr # "Domain"
  <2>1. d = c
    BY <1>1 DEF try_resolve
  <2> QED
    BY <2>1
<1>2. CASE c.status = "DnsWait" /\ c.sock5_addr = "Domain" /\ ip = "fail"
  <2>1. d = ShutdownProxy(c) /\ Sane(c)
    BY <1>2 DEF try_resolve, Sound
  <2>2. PICK ps, bs : ps = shutdown(c.proxy.status) /\ bs = c.backend.status
    OBVIOUS
  <2>3. /\ ps \in Statuses /\ bs \in Statuses /\ is_shutdown(ps)
        /\ c.backend.kind # "none" => bs # "Connecting"
    BY <2>1, <2>2, ConnectionParts, LifeCycle DEF Sane
  <2>4. c.backend = [c.backend EXCEPT !.status = bs]
    BY <2>2, ConnectionParts DEF Backends
  <2>5. d = [c EXCEPT !.proxy = [c.proxy EXCEPT !.status = ps],
                      !.backend = [c.backend EXCEPT !.status = bs]]
    <3>1. d = [c EXCEPT !.proxy = [c.proxy EXCEPT !.status = ps], !.backend = c.backend]
      BY <2>1, <2>2 DEF ShutdownProxy, Connections
    <3> QED
      BY <2>4, <3>1
  <2>6. d \in Connections /\ Sane(d) /\ UpSame(c, d) /\ DownSame(c, d)
    BY ONLY <2>1, <2>2, <2>3, <2>5, c \in Connections, StatusOnly
  <2> QED
    BY <2>6, Calm
<1>3. CASE c.status = "DnsWait" /\ c.sock5_addr = "Domain" /\ ip # "fail"
  <2>1. PICK e : e = [c EXCEPT !.target_addr = TRUE]
    OBVIOUS
  <2>2. d = DispatchWaiting(e, <<>>, o)
    BY <1>3, <2>1 DEF try_resolve
  <2>3. /\ e \in Connections /\ e.proxy = c.proxy /\ e.backend = c.backend
        /\ e.status = c.status /\ e.command = c.command /\ e.sock5_addr = c.sock5_addr
        /\ e.data = c.data
    BY <2>1 DEF Connections
  <2>4. DownSame(c, e) /\ Sane(e)
    BY <2>3 DEF DownSame, Sane, Sound
  <2>5. Phase(c, m, req) /\ UpFlow(c, g, PayloadOf(m, req)) /\ UpBound(c, req)
    BY DEF Sound, Upstream
  <2>6. /\ c.backend.kind = "none" /\ c.command = "CONNECT" /\ req = "domain" /\ m > 0
        /\ \A i \in 1 .. Len(c.proxy.stream.in) : c.proxy.stream.in[i] # Header
    BY <1>3, <2>5 DEF Phase, Forwarding
  <2>7. c.backend = NoBackend /\ g = <<>>
    BY <2>5, <2>6 DEF UpFlow, Sound, Sane
  <2>8. c.data \in Chunks /\ c.proxy.stream.in \in Chunks /\ <<>> \in Chunks
        /\ <<>> \o c.data = c.data /\ c.data \o <<>> = c.data
    BY ConnectionParts, NothingJoined
  <2>9. g \o Forwarded(c) = c.data
    BY <2>7, <2>8, NewBackends DEF Forwarded
  <2>10. NoHeader(c.proxy.stream.in) = c.proxy.stream.in
    BY <2>6, <2>8, NoHeaderLeft
  <2>11. Intact(c) <=> (is_shutdown(c.proxy.status) => c.proxy.stream.end # "bad")
    BY <1>3, <2>6 DEF Intact, Forwarding
  <2>12. Waits(e, <<>>, m, req)
    BY <1>3, <2>3, <2>4, <2>5, <2>6, <2>8, <2>9, <2>10, <2>11 DEF Waits, UpFlow, UpBound
  <2>13. Sane(d) /\ DownSame(e, d) /\ Upstream(d, g, m, req)
    BY <2>2, <2>3, <2>7, <2>8, <2>12, WaitingDispatches
  <2>14. DownSame(c, d)
    BY <2>4, <2>13, DownSameTwice
  <2> QED
    BY <2>13, <2>14, UpOnly DEF Sane
<1> QED
  BY <1>1, <1>2, <1>3

\* Connection::ready for the client's socket, the target's and the resolver.
LEMMA ReadiesProxy ==
  ASSUME NEW c \in Connections, NEW g \in Chunks, NEW m \in Nat, NEW h \in Chunks, NEW n \in Nat,
         NEW req \in RequestKinds, NEW o \in Outcomes, Sound(c, g, m, h, n, req), NEW e \in Events
  PROVE  Sound(ReadyProxy(c, e, o, req), g, m, h, n, req)
<1>1. PICK r : r = IF e.r THEN ProxyReadable(c, o, req) ELSE c
  OBVIOUS
<1>2. r \in Connections /\ Sound(r, g, m, h, n, req)
  BY <1>1, ClientReadable
<1>3. PICK w : w = IF e.w THEN ProxyWritable(r) ELSE r
  OBVIOUS
<1>4. w \in Connections /\ Sound(w, g, m, h, n, req)
  BY <1>2, <1>3, ClientWritable
<1>5. ReadyProxy(c, e, o, req) = CheckBoth(PropagateClose(w))
  BY <1>1, <1>3 DEF ReadyProxy
<1> QED
  BY <1>4, <1>5, Closes

LEMMA ReadiesBackend ==
  ASSUME NEW c \in Connections, NEW g \in Chunks, NEW m \in Nat, NEW h \in Chunks, NEW n \in Nat,
         NEW req \in RequestKinds, NEW o \in Outcomes, Sound(c, g, m, h, n, req), NEW e \in Events
  PROVE  Sound(ReadyBackend(c, e, o, req), g, m, h, n, req)
<1>1. CASE c.backend.kind = "none"
  <2>1. ReadyBackend(c, e, o, req) = CheckBoth(PropagateClose(c))
    BY <1>1 DEF ReadyBackend
  <2> QED
    BY <2>1, Closes
<1>2. CASE c.backend.kind # "none"
  <2>1. PICK r : r = IF e.r THEN BackendReadable(c) ELSE c
    OBVIOUS
  <2>2. r \in Connections /\ Sound(r, g, m, h, n, req) /\ r.backend.kind # "none"
    BY <1>2, <2>1, TargetReadable
  <2>3. PICK w : w = IF e.w THEN BackendWritable(r, o, req) ELSE r
    OBVIOUS
  <2>4. w \in Connections /\ Sound(w, g, m, h, n, req)
    BY <2>2, <2>3, TargetWritable
  <2>5. ReadyBackend(c, e, o, req) = CheckBoth(PropagateClose(w))
    BY <1>2, <2>1, <2>3 DEF ReadyBackend
  <2> QED
    BY <2>4, <2>5, Closes
<1> QED
  BY <1>1, <1>2

LEMMA ReadiesDns ==
  ASSUME NEW c \in Connections, NEW g \in Chunks, NEW m \in Nat, NEW h \in Chunks, NEW n \in Nat,
         NEW req \in RequestKinds, NEW o \in Outcomes, Sound(c, g, m, h, n, req), NEW ip
  PROVE  Sound(ReadyDns(c, ip, o), g, m, h, n, req)
<1>1. PICK s : s = [c EXCEPT !.dns = "none"]
  OBVIOUS
<1>2. s \in Connections /\ Sound(s, g, m, h, n, req)
  BY <1>1, FlagSet
<1>3. PICK w : w = try_resolve(s, ip, o)
  OBVIOUS
<1>4. w \in Connections /\ Sound(w, g, m, h, n, req)
  BY <1>2, <1>3, Resolves
<1>5. ReadyDns(c, ip, o) = CheckBoth(PropagateClose(w))
  BY <1>1, <1>3 DEF ReadyDns
<1> QED
  BY <1>4, <1>5, Closes

-----------------------------------------------------------------------------
(* The peers *)

\* What the kernel does to the two sockets.
Moved(c, d, p, b) ==
  /\ d \in Connections /\ Sane(d)
  /\ d.proxy.stream = p /\ d.backend.stream = b
  /\ d.status = c.status /\ d.command = c.command /\ d.sock5_addr = c.sock5_addr
  /\ d.data = c.data
  /\ d.proxy.status = c.proxy.status /\ d.proxy.session = c.proxy.session
  /\ d.proxy.writable = c.proxy.writable
  /\ d.backend.kind = c.backend.kind /\ d.backend.status = c.backend.status
  /\ d.backend.send_buffer = c.backend.send_buffer

LEMMA SocketsMove ==
  ASSUME NEW c \in Connections, Sane(c), NEW p \in Streams, NEW b \in Streams,
         NEW t \in {"start", "hello", "answer", "sent", "finish", "up"}, NEW d,
         d = [c EXCEPT !.proxy = [c.proxy EXCEPT !.tls = t, !.stream = p],
                       !.backend = [c.backend EXCEPT !.stream = b]],
         Len(p.out) <= Cap, Len(b.out) <= Len(c.backend.stream.out),
         c.backend.kind = "none" => b = c.backend.stream
  PROVE  Moved(c, d, p, b)
<1>1. PICK x, y : x = [c.proxy EXCEPT !.tls = t, !.stream = p] /\ y = [c.backend EXCEPT !.stream = b]
  OBVIOUS
<1>2. c.proxy \in TlsConns /\ c.backend \in Backends
  BY ConnectionParts
<1>3. /\ x \in TlsConns /\ x.status = c.proxy.status /\ x.stream = p
      /\ x.session = c.proxy.session /\ x.side = c.proxy.side /\ x.writable = c.proxy.writable
  BY <1>1, <1>2 DEF TlsConns
<1>4. /\ y \in Backends /\ y.status = c.backend.status /\ y.stream = b
      /\ y.kind = c.backend.kind /\ y.send_buffer = c.backend.send_buffer
      /\ b = c.backend.stream => y = c.backend
  BY <1>1, <1>2 DEF Backends
<1>5. d = [c EXCEPT !.proxy = x, !.backend = y]
  BY <1>1
<1>6. /\ d \in Connections /\ d.proxy = x /\ d.backend = y
      /\ d.status = c.status /\ d.command = c.command /\ d.sock5_addr = c.sock5_addr
      /\ d.data = c.data
  BY ONLY <1>3, <1>4, <1>5, c \in Connections DEF Connections
<1>7. BackendFits(y)
  <2>1. Len(b.out) \in Nat /\ Len(c.backend.stream.out) \in Nat /\ Cap \in Nat
    BY ConnectionParts, NothingJoined, CapAssumption DEF Streams
  <2>2. BackendFits(c.backend)
    BY DEF Sane
  <2> QED
    BY <1>4, <2>1, <2>2 DEF BackendFits
<1>8. Sane(d)
  BY <1>3, <1>4, <1>6, <1>7 DEF Sane
<1> QED
  BY <1>3, <1>4, <1>6, <1>8 DEF Moved

\* A socket's edge, its being up and the end of the target's stream are no data.
LEMMA EdgesOnly ==
  ASSUME NEW c, NEW d, NEW p, NEW b, Moved(c, d, p, b), NEW g, NEW m, NEW h, NEW n, NEW req,
         Sound(c, g, m, h, n, req),
         p.in = c.proxy.stream.in, p.out = c.proxy.stream.out, p.end = c.proxy.stream.end,
         b.in = c.backend.stream.in, b.out = c.backend.stream.out
  PROVE  Sound(d, g, m, h, n, req)
<1>1. UpSame(c, d) /\ DownSame(c, d) /\ Sane(d)
  BY DEF Moved, UpSame, DownSame
<1> QED
  BY <1>1, Calm

\* The end of the client's stream.
LEMMA ClientEnds ==
  ASSUME NEW c, NEW d, NEW p, NEW b, Moved(c, d, p, b), NEW g, NEW m, NEW h, NEW n, NEW req,
         Sound(c, g, m, h, n, req), c.proxy.stream.end \in {"open", "fin"},
         p.in = c.proxy.stream.in, p.out = c.proxy.stream.out, b = c.backend.stream
  PROVE  Sound(d, g, m, h, n, req)
<1>1. DownSame(c, d) /\ Sane(d)
  BY DEF Moved, DownSame
<1>2. Phase(c, m, req) /\ UpFlow(c, g, PayloadOf(m, req)) /\ UpBound(c, req)
  BY DEF Sound, Upstream
<1>3. Phase(d, m, req)
  BY <1>2 DEF Moved, Phase
<1>4. Forwarded(d) = Forwarded(c) /\ (Intact(d) => Intact(c))
  BY DEF Moved, Forwarded, Held, Intact
<1>5. UpFlow(d, g, PayloadOf(m, req))
  BY <1>2, <1>4 DEF Moved, UpFlow
<1>6. UpBound(d, req)
  BY <1>2 DEF Moved, UpBound
<1> QED
  BY <1>1, <1>3, <1>5, <1>6, UpOnly DEF Upstream

\* The client takes a chunk.
LEMMA ClientTakes ==
  ASSUME NEW c \in Connections, NEW d, NEW p \in Streams, NEW b, Moved(c, d, p, b), NEW g, NEW m,
         NEW h \in Chunks, NEW n \in Nat, NEW req, Sound(c, g, m, h, n, req),
         c.proxy.stream.out # <<>>,
         p.in = c.proxy.stream.in, p.end = c.proxy.stream.end, p.out = Tail(c.proxy.stream.out),
         b = c.backend.stream
  PROVE  Sound(d, g, m, Append(h, Head(c.proxy.stream.out)), n, req)
<1>1. UpSame(c, d) /\ Sane(d)
  BY DEF Moved, UpSame
<1>2. PICK out \in Chunks, s \in Chunks, i \in Chunks :
        out = c.proxy.stream.out /\ s = c.proxy.session /\ i = c.backend.stream.in
  BY ConnectionParts
<1>3. out # <<>>
  BY <1>2
<1>4. PICK k \in Chunks, t \in Chunks :
        k = Append(h, Head(out)) /\ t = Tail(out) /\ k \o t = h \o out
  BY ONLY <1>3, h \in Chunks, out \in Chunks, HandedOn
<1>5. Downstream(c, h, n)
  BY DEF Sound
<1>6. Prefix(k \o t, n)
  BY <1>2, <1>4, <1>5 DEF Downstream, DownFlow
<1>7. k \o (t \o s) = h \o (out \o s)
  <2>1. Recut(k, t, h, out)
    BY <1>4 DEF Recut
  <2>2. Recut(k, t \o s, h, out \o s)
    BY <2>1, SameBehind
  <2> QED
    BY <2>2 DEF Recut
<1>8. ~is_shutdown(c.proxy.status) => (k \o (t \o s)) \o i = Count(n)
  BY <1>2, <1>5, <1>7 DEF Downstream, DownFlow
<1>9. d.proxy.stream.out = t /\ d.proxy.session = s /\ d.backend.stream.in = i
      /\ d.proxy.status = c.proxy.status
  BY <1>2, <1>4 DEF Moved
<1>10. DownFlow(d, k, n)
  BY <1>6, <1>8, <1>9 DEF DownFlow
<1>11. DownBound(d)
  BY <1>2, <1>5, <1>9 DEF Downstream, DownBound, Moved
<1>12. Sound(d, g, m, k, n, req)
  BY <1>1, <1>10, <1>11, UpKept DEF Sound, Downstream
<1> QED
  BY <1>2, <1>4, <1>12

\* The target takes a chunk.
LEMMA TargetTakes ==
  ASSUME NEW c \in Connections, NEW d, NEW p, NEW b \in Streams, Moved(c, d, p, b),
         NEW g \in Chunks, NEW m, NEW h, NEW n, NEW req, Sound(c, g, m, h, n, req),
         c.backend.stream.out # <<>>, c.backend.kind # "none",
         b.in = c.backend.stream.in, b.out = Tail(c.backend.stream.out), p = c.proxy.stream
  PROVE  Sound(d, Append(g, Head(c.backend.stream.out)), m, h, n, req)
<1>1. DownSame(c, d) /\ Sane(d)
  BY DEF Moved, DownSame
<1>2. PICK out \in Chunks, s \in Chunks, data \in Chunks :
        out = c.backend.stream.out /\ s = c.backend.send_buffer /\ data = c.data
  BY ConnectionParts
<1>3. out # <<>>
  BY <1>2
<1>4. PICK k \in Chunks, t \in Chunks : 
        k = Append(g, Head(out)) /\ t = Tail(out) /\ k \o t = g \o out
  BY ONLY <1>3, g \in Chunks, out \in Chunks, HandedOn
<1>5. k \o ((t \o s) \o data) = g \o ((out \o s) \o data)
  <2>1. Recut(k, t, g, out)
    BY <1>4 DEF Recut
  <2>2. Recut(k, t \o s, g, out \o s)
    BY <2>1, SameBehind
  <2>3. Recut(k, (t \o s) \o data, g, (out \o s) \o data)
    BY <2>2, SameBehind
  <2> QED
    BY <2>3 DEF Recut
<1>6. Forwarded(c) = (out \o s) \o data /\ Forwarded(d) = (t \o s) \o data
  BY <1>2, <1>4 DEF Forwarded, Held, Moved
<1>7. k \o Forwarded(d) = g \o Forwarded(c)
  BY <1>5, <1>6
<1>8. Phase(c, m, req) /\ UpFlow(c, g, PayloadOf(m, req)) /\ UpBound(c, req)
  BY DEF Sound, Upstream
<1>9. Phase(d, m, req) /\ UpBound(d, req)
  BY <1>8 DEF Moved, Phase, UpBound
<1>10. UpFlow(d, k, PayloadOf(m, req))
  BY <1>7, <1>8 DEF Moved, UpFlow, Intact
<1>11. Sound(d, k, m, h, n, req)
  BY <1>1, <1>9, <1>10, DownKept DEF Sound, Upstream
<1> QED
  BY <1>2, <1>4, <1>11

\* The target sends a chunk.
LEMMA TargetSends ==
  ASSUME NEW c \in Connections, NEW d, NEW p, NEW b \in Streams, Moved(c, d, p, b), NEW g, NEW m,
         NEW h \in Chunks, NEW n \in Nat, NEW req, Sound(c, g, m, h, n, req),
         b.in = Append(c.backend.stream.in, n + 1), b.out = c.backend.stream.out,
         p = c.proxy.stream
  PROVE  Sound(d, g, m, h, n + 1, req)
<1>1. UpSame(c, d) /\ Sane(d)
  BY DEF Moved, UpSame
<1>2. PICK out \in Chunks, s \in Chunks, i \in Chunks :
        out = c.proxy.stream.out /\ s = c.proxy.session /\ i = c.backend.stream.in
  BY ConnectionParts
<1>3. PICK x \in Chunks, f \in Chunks : x = h \o (out \o s) /\ f = h \o out
  <2>1. PICK y \in Chunks : y = out \o s
    BY Joined
  <2>2. h \o y \in Chunks /\ h \o out \in Chunks
    BY Joined
  <2> QED
    BY <2>1, <2>2
<1>4. Prefix(f, n) /\ (~is_shutdown(c.proxy.status) => x \o i = Count(n))
  BY <1>2, <1>3 DEF Sound, Downstream, DownFlow
<1>5. Prefix(f, n + 1)
  BY ONLY <1>4, f \in Chunks, n \in Nat, PrefixGrows
<1>6. ~is_shutdown(c.proxy.status) => x \o Append(i, n + 1) = Count(n + 1)
  BY ONLY <1>4, x \in Chunks, i \in Chunks, n \in Nat, CountsOn
<1>7. /\ d.proxy.stream.out = out /\ d.proxy.session = s /\ d.proxy.status = c.proxy.status
      /\ d.backend.stream.in = Append(i, n + 1) /\ d.proxy.writable = c.proxy.writable
  BY <1>2 DEF Moved
<1>8. DownFlow(d, h, n + 1)
  BY <1>3, <1>5, <1>6, <1>7 DEF DownFlow
<1>9. DownBound(d)
  BY <1>2, <1>7 DEF Sound, Downstream, DownBound
<1> QED
  BY <1>1, <1>8, <1>9, UpKept DEF Sound, Downstream

\* The next chunk of the client: its header first, if it has one.
NextChunk(m, req) == IF req = "none" THEN m + 1 ELSE m

LEMMA SendsMore ==
  ASSUME NEW m \in Nat, NEW req \in RequestKinds
  PROVE  /\ Sends(m, req) \in Chunks /\ Len(Sends(m, req)) = m
         /\ Append(Sends(m, req), NextChunk(m, req)) = Sends(m + 1, req)
         /\ NextChunk(m, req) \in Nat
         /\ NextChunk(m, req) = Header <=> req # "none" /\ m = 0
         /\ PayloadOf(m, req) \in Nat
         /\ PayloadOf(m + 1, req) = IF NextChunk(m, req) = Header THEN PayloadOf(m, req)
                                    ELSE PayloadOf(m, req) + 1
         /\ NextChunk(m, req) # Header => NextChunk(m, req) = PayloadOf(m, req) + 1
<1>1. \A k \in Nat : /\ Sends(k, req) \in Chunks /\ Len(Sends(k, req)) = k
                     /\ \A i \in 1 .. k : Sends(k, req)[i] = IF req = "none" THEN i ELSE i - 1
  <2> SUFFICES ASSUME NEW k \in Nat
               PROVE  /\ Sends(k, req) \in Chunks /\ Len(Sends(k, req)) = k
                      /\ \A i \in 1 .. k : Sends(k, req)[i] = IF req = "none" THEN i ELSE i - 1
    OBVIOUS
  <2>1. Sends(k, req) \in [1 .. k -> Nat]
    BY DEF Sends
  <2> QED
    BY <2>1, SeqDef, LenProperties DEF Sends, Chunks
<1>2. NextChunk(m, req) \in Nat /\ (NextChunk(m, req) = Header <=> req # "none" /\ m = 0)
  BY DEF NextChunk, Header
<1>3. /\ PayloadOf(m, req) \in Nat
      /\ PayloadOf(m + 1, req) = IF NextChunk(m, req) = Header THEN PayloadOf(m, req)
                                 ELSE PayloadOf(m, req) + 1
      /\ NextChunk(m, req) # Header => NextChunk(m, req) = PayloadOf(m, req) + 1
  BY DEF PayloadOf, NextChunk, Header
<1>4. PICK s \in Chunks, t \in Chunks, x \in Nat :
        s = Sends(m, req) /\ t = Sends(m + 1, req) /\ x = NextChunk(m, req)
  BY <1>1, <1>2, m + 1 \in Nat
<1>5. /\ Append(s, x) \in Seq(Nat) /\ Len(Append(s, x)) = m + 1
      /\ \A i \in 1 .. m : Append(s, x)[i] = s[i]
      /\ Append(s, x)[m + 1] = x
  <2>1. Len(s) = m /\ s \in Chunks /\ x \in Nat
    BY <1>1, <1>4
  <2>2. /\ Append(s, x) \in Chunks /\ Len(Append(s, x)) = Len(s) + 1
        /\ \A i \in 1 .. Len(s) : Append(s, x)[i] = s[i]
        /\ Append(s, x)[Len(s) + 1] = x
    BY ONLY <2>1, OneMore, SMTT(30)
  <2> QED
    BY <2>1, <2>2, Zenon DEF Chunks
<1>6. t \in Seq(Nat) /\ Len(t) = m + 1 /\ \A i \in 1 .. m + 1 : t[i] = Append(s, x)[i]
  <2>1. t \in Seq(Nat) /\ Len(t) = m + 1
    BY <1>1, <1>4, m + 1 \in Nat DEF Chunks
  <2>2. ASSUME NEW i \in 1 .. m + 1 PROVE t[i] = Append(s, x)[i]
    <3>1. t[i] = IF req = "none" THEN i ELSE i - 1
      BY <1>1, <1>4, m + 1 \in Nat
    <3>2. CASE i \in 1 .. m
      BY <1>1, <1>4, <1>5, <3>1, <3>2
    <3>3. CASE i = m + 1
      BY <1>4, <1>5, <3>1, <3>3 DEF NextChunk
    <3>4. i \in 1 .. m \/ i = m + 1
      OBVIOUS
    <3> QED
      BY ONLY <3>2, <3>3, <3>4
  <2> QED
    BY <2>1, <2>2
<1>7. Append(s, x) = t
  BY <1>5, <1>6, SeqEqual
<1> QED
  BY <1>1, <1>2, <1>3, <1>4, <1>7

\* A header is at the front or not there.
LEMMA HeaderFirst ==
  ASSUME NEW s \in Chunks, NEW x \in Nat
  PROVE  /\ NoHeader(s) \in Chunks
         /\ s # <<>> => NoHeader(Append(s, x)) = Append(NoHeader(s), x)
         /\ s = <<>> /\ x # Header => NoHeader(Append(s, x)) = Append(NoHeader(s), x)
         /\ s = <<>> /\ x = Header => NoHeader(Append(s, x)) = NoHeader(s)
<1>1. /\ Append(s, x) # <<>> /\ Append(s, x) \in Chunks /\ Len(Append(s, x)) = Len(s) + 1
      /\ \A i \in 1 .. Len(s) : Append(s, x)[i] = s[i]
      /\ Append(s, x)[Len(s) + 1] = x /\ Len(s) \in Nat
  BY OneMore, NothingJoined
<1>2. Head(Append(s, x)) = Append(s, x)[1] /\ Head(s) = s[1]
  OBVIOUS
<1>3. CASE s # <<>>
  <2>1. Len(s) \in Nat \ {0} /\ Tail(s) \in Chunks /\ Len(Tail(s)) = Len(s) - 1
    BY <1>3, HeadTailProperties, EmptySeq DEF Chunks
  <2>2. Head(Append(s, x)) = Head(s)
    BY <1>1, <1>2, <2>1
  <2>3. Tail(Append(s, x)) = Append(Tail(s), x)
    BY <1>1, <1>3, <2>1 DEF Chunks
  <2> QED
    BY <1>1, <1>3, <2>1, <2>2, <2>3 DEF NoHeader
<1>4. CASE s = <<>>
  <2>1. Head(Append(s, x)) = x /\ Tail(Append(s, x)) = <<>> /\ NoHeader(s) = <<>> /\ <<>> \in Chunks
    BY <1>4, NothingJoined DEF NoHeader
  <2> QED
    BY <1>1, <1>4, <2>1 DEF NoHeader
<1> QED
  BY <1>3, <1>4

\* The client sends a chunk.
LEMMA ClientSends ==
  ASSUME NEW c \in Connections, NEW d, NEW p \in Streams, NEW b, Moved(c, d, p, b),
         NEW g \in Chunks, NEW m \in Nat, NEW h, NEW n, NEW req \in RequestKinds,
         Sound(c, g, m, h, n, req),
         ~is_shutdown(c.proxy.status),
         p.in = Append(c.proxy.stream.in, NextChunk(m, req)),
         p.out = c.proxy.stream.out, p.end = c.proxy.stream.end, b = c.backend.stream
  PROVE  Sound(d, g, m + 1, h, n, req)
<1>1. DownSame(c, d) /\ Sane(d)
  BY DEF Moved, DownSame
<1>2. PICK in \in Chunks, x \in Nat, k \in Nat, l \in Nat :
        /\ in = c.proxy.stream.in /\ x = NextChunk(m, req) /\ k = PayloadOf(m, req)
        /\ l = PayloadOf(m + 1, req)
  <2>1. c.proxy.stream.in \in Chunks
    BY ConnectionParts
  <2>2. NextChunk(m, req) \in Nat /\ PayloadOf(m, req) \in Nat
    BY SendsMore
  <2>3. PayloadOf(m + 1, req) \in Nat
    BY DEF PayloadOf
  <2> QED
    BY ONLY <2>1, <2>2, <2>3
<1>3. Phase(c, m, req) /\ UpFlow(c, g, k) /\ UpBound(c, req)
  BY <1>2 DEF Sound, Upstream
<1>4. /\ x = Header <=> req # "none" /\ m = 0
      /\ l = IF x = Header THEN k ELSE k + 1
      /\ x # Header => x = k + 1
  BY <1>2, SendsMore
<1>5. d.proxy.stream.in = Append(in, x)
  BY <1>2 DEF Moved
<1>6. /\ Append(in, x) \in Chunks /\ Len(Append(in, x)) = Len(in) + 1 /\ Len(in) \in Nat
      /\ \A i \in 1 .. Len(in) : Append(in, x)[i] = in[i]
      /\ Append(in, x)[Len(in) + 1] = x
  BY OneMore, NothingJoined
<1>7. c.status = "HandShake" => in = Sends(m, req) /\ Append(in, x) = Sends(m + 1, req)
  <2>1. Append(Sends(m, req), NextChunk(m, req)) = Sends(m + 1, req)
    BY SendsMore
  <2>2. c.status = "HandShake" => in = Sends(m, req)
    BY <1>2, <1>3 DEF Phase
  <2> QED
    BY <1>2, <2>1, <2>2
<1>8. c.status # "HandShake" =>
        /\ x # Header
        /\ \A i \in 1 .. Len(Append(in, x)) : Append(in, x)[i] # Header
  <2>1. ASSUME c.status # "HandShake"
        PROVE  x # Header /\ \A i \in 1 .. Len(in) : in[i] # Header
    BY <1>2, <1>3, <1>4, <2>1 DEF Phase
  <2>2. ASSUME c.status # "HandShake", NEW i \in 1 .. Len(Append(in, x))
        PROVE  Append(in, x)[i] # Header
    <3>1. i \in 1 .. Len(in) \/ i = Len(in) + 1
      BY <1>6
    <3> QED
      BY <1>6, <2>1, <2>2, <3>1
  <2> QED
    BY <2>1, <2>2
<1>9. Phase(d, m + 1, req)
  <2>1. req # "none" => m + 1 > 0
    OBVIOUS
  <2>2. ~(c.command = "UDP_ASSOCIATE" /\ c.backend.kind = "none")
    BY <1>3 DEF Phase
  <2> QED
    BY <1>3, <1>5, <1>7, <1>8, <2>1, <2>2 DEF Phase, Moved
<1>10. Forwarded(d) = Forwarded(c) /\ (Intact(d) => Intact(c))
  BY DEF Moved, Forwarded, Held, Intact
<1>11. PICK f \in Chunks : f = g \o Forwarded(c)
  <2>1. PICK y \in Chunks, z \in Chunks, v \in Chunks :
          y = c.backend.stream.out /\ z = c.backend.send_buffer /\ v = c.data
    BY ConnectionParts
  <2>2. PICK u \in Chunks : u = y \o z
    BY Joined
  <2>3. PICK t \in Chunks : t = u \o v
    BY Joined
  <2>4. g \o t \in Chunks
    BY Joined
  <2> QED
    BY <2>1, <2>2, <2>3, <2>4 DEF Forwarded, Held
<1>12. Prefix(f, l)
  <2>1. Prefix(f, k)
    BY <1>3, <1>11 DEF UpFlow
  <2>2. Prefix(f, k + 1)
    BY ONLY <2>1, f \in Chunks, k \in Nat, PrefixGrows
  <2> QED
    BY <1>4, <2>1, <2>2
<1>13. ASSUME f \o NoHeader(in) = Count(k)
       PROVE  f \o NoHeader(Append(in, x)) = Count(l)
  <2>1. PICK r \in Chunks : r = NoHeader(in)
    BY HeaderFirst
  <2>2. CASE x = Header
    <3>1. in = <<>>
      <4>1. c.status = "HandShake" /\ m = 0
        BY <1>4, <1>8, <2>2
      <4>2. Len(Sends(m, req)) = m
        BY SendsMore
      <4> QED
        BY <1>7, <4>1, <4>2, NothingJoined
    <3>2. NoHeader(Append(in, x)) = NoHeader(in)
      BY <2>2, <3>1, HeaderFirst
    <3> QED
      BY <1>4, <1>13, <2>2, <3>2
  <2>3. CASE x # Header
    <3>1. NoHeader(Append(in, x)) = Append(r, k + 1)
      BY <1>4, <2>1, <2>3, HeaderFirst
    <3>2. f \o Append(r, k + 1) = Count(k + 1)
      <4>1. f \o r = Count(k)
        BY <1>13, <2>1
      <4> QED
        BY ONLY <4>1, f \in Chunks, r \in Chunks, k \in Nat, CountsOn
    <3> QED
      BY <1>4, <2>3, <3>1, <3>2
  <2> QED
    BY <2>2, <2>3
<1>14. UpFlow(d, g, l)
  <2>1. c.backend.kind = "none" => g = <<>>
    BY <1>3 DEF UpFlow
  <2>2. Intact(c) => f \o NoHeader(in) = Count(k)
    BY <1>2, <1>3, <1>11 DEF UpFlow
  <2>3. Intact(d) => f \o NoHeader(d.proxy.stream.in) = Count(l)
    BY <1>5, <1>10, <1>13, <2>2
  <2>4. d.backend.kind = c.backend.kind /\ g \o Forwarded(d) = f
    BY <1>10, <1>11 DEF Moved
  <2> QED
    BY <1>12, <2>1, <2>3, <2>4 DEF UpFlow
<1>15. UpBound(d, req)
  BY <1>3 DEF UpBound, Moved
<1>16. Upstream(d, g, m + 1, req)
  BY <1>2, <1>9, <1>14, <1>15 DEF Upstream
<1> QED
  BY <1>1, <1>16, DownKept DEF Sound

-----------------------------------------------------------------------------
(* The invariant *)

Flow == TypeOK /\ Sound(conn, got.target, sent.client, got.client, sent.target, request)

\* Every variable of the model other than the connection, typed.
Around ==
  /\ setting \in SettingType
  /\ sent \in [client : Nat, target : Nat]
  /\ got \in [client : Chunks, target : Chunks]
  /\ loop \in {"poll", "events", "removed"}
  /\ batch \subseteq Events
  /\ removed \in BOOLEAN /\ expired \in BOOLEAN

LEMMA FlowParts ==
  Flow <=> Around /\ Sound(conn, got.target, sent.client, got.client, sent.target, request)
BY DEF Flow, TypeOK, Around, Sound, Sane, BackendFits

LEMMA Numbers ==
  ASSUME Around
  PROVE  /\ got.target \in Chunks /\ got.client \in Chunks
         /\ sent.client \in Nat /\ sent.target \in Nat /\ request \in RequestKinds
BY DEF Around, SettingType, request

\* Init.
LEMMA FlowInit ==
  Init => Flow
<1> SUFFICES ASSUME Init PROVE Flow
  OBVIOUS
<1>1. <<>> \in Chunks
  BY DEF Chunks
<1>2. <<>> \in Chunks /\ Len(<<>>) = 0 /\ <<>> \o <<>> = <<>>
  BY <1>1, NothingJoined
<1>3. Around
  BY <1>2, SettingsAssumption DEF Init, Around
<1>4. PICK c : c = NewConnection
  OBVIOUS
<1>5. PICK k : k = NewStream(TRUE)
  OBVIOUS
<1>6. k \in Streams /\ k.in = <<>> /\ k.out = <<>> /\ k.end = "open"
  BY <1>2, <1>5 DEF NewStream, Streams
<1>7. PICK p : p = NewTlsConn("server")
  OBVIOUS
<1>8. /\ p \in TlsConns /\ p.stream = k /\ p.side = "server" /\ p.session = <<>>
      /\ p.status = "Connecting" /\ p.writable
  BY <1>2, <1>5, <1>6, <1>7 DEF NewTlsConn, TlsConns, Statuses
<1>9. NoBackend \in Backends /\ NoBackend.kind = "none" /\ Held(NoBackend) = <<>>
      /\ NoBackend.stream.in = <<>> /\ NoBackend.stream.out = <<>>
  BY <1>2 DEF NoBackend, Backends, NewStream, Streams, Statuses, Held
<1>10. /\ c \in Connections /\ c.proxy = p /\ c.backend = NoBackend /\ c.status = "HandShake"
      /\ c.command = "CONNECT" /\ c.sock5_addr = "None" /\ c.data = <<>>
  BY <1>2, <1>4, <1>7, <1>8, <1>9 DEF NewConnection, Connections
<1>11. Sane(c)
  BY <1>2, <1>6, <1>8, <1>9, <1>10, CapAssumption DEF Sane, BackendFits
<1>12. PICK req \in RequestKinds : req = request
  BY <1>3, Numbers
<1>13. Count(0) = <<>> /\ Sends(0, req) = <<>> /\ PayloadOf(0, req) = 0 /\ 0 \in Nat
  <2>1. Count(0) \in Chunks /\ Len(Count(0)) = 0
    BY Counting
  <2>2. Sends(0, req) \in Chunks /\ Len(Sends(0, req)) = 0
    BY SendsMore
  <2> QED
    BY <2>1, <2>2, NothingJoined DEF PayloadOf
<1>14. Prefix(<<>>, 0) /\ NoHeader(<<>>) = <<>> /\ ~is_shutdown("Connecting")
  BY <1>2, <1>13 DEF Prefix, NoHeader, is_shutdown
<1>15. Phase(c, 0, req)
  BY <1>6, <1>8, <1>9, <1>10, <1>13 DEF Phase, Forwarding
<1>16. UpFlow(c, <<>>, 0)
  BY <1>2, <1>6, <1>8, <1>9, <1>10, <1>13, <1>14 DEF UpFlow, Forwarded
<1>17. UpBound(c, req)
  BY <1>2, <1>6, <1>8, <1>9, <1>10, <1>14 DEF UpBound
<1>18. Downstream(c, <<>>, 0)
  BY <1>2, <1>6, <1>8, <1>9, <1>10, <1>13, <1>14 DEF Downstream, DownFlow, DownBound
<1>19. Sound(c, <<>>, 0, <<>>, 0, req)
  BY <1>11, <1>13, <1>15, <1>16, <1>17, <1>18 DEF Sound, Upstream
<1>20. /\ conn = c /\ got.target = <<>> /\ got.client = <<>> /\ sent.client = 0 /\ sent.target = 0
  BY <1>4 DEF Init
<1> QED
  BY <1>3, <1>12, <1>19, <1>20, FlowParts

\* What the invariant says of the connection, for every conclusion drawn from it.
LEMMA FlowShows ==
  Flow => TypeOK /\ NothingLost
<1> SUFFICES ASSUME Flow PROVE NothingLost
  BY DEF Flow
<1>1. /\ Around /\ conn \in Connections
      /\ Phase(conn, sent.client, request) /\ UpFlow(conn, got.target, PayloadOf(sent.client, request))
      /\ UpBound(conn, request) /\ DownFlow(conn, got.client, sent.target) /\ DownBound(conn)
  BY FlowParts DEF Sound, Sane, Upstream, Downstream
<1>2. PICK g \in Chunks, h \in Chunks, out \in Chunks, sb \in Chunks, data \in Chunks :
        /\ g = got.target /\ h = got.client
        /\ out = conn.backend.stream.out /\ sb = conn.backend.send_buffer /\ data = conn.data
  BY <1>1, Numbers, ConnectionParts
<1>3. PICK m \in Nat : m = Payload /\ m = PayloadOf(sent.client, request)
  BY <1>1, Numbers DEF Payload, PayloadOf
<1>4. /\ Prefix(g \o ((out \o sb) \o data), m)
      /\ Intact(conn) => (g \o ((out \o sb) \o data)) \o NoHeader(conn.proxy.stream.in) = Count(m)
  BY <1>1, <1>2, <1>3 DEF UpFlow, Forwarded, Held
<1>5. /\ (g \o out) \o (sb \o data) = g \o ((out \o sb) \o data)
      /\ ((g \o out) \o sb) \o data = g \o ((out \o sb) \o data)
      /\ g \o out \in Chunks /\ sb \o data \in Chunks
  <2>1. PICK f \in Chunks, u \in Chunks : f = g \o out /\ u = out \o sb
    BY Joined
  <2>2. Regroups(f, sb, data) /\ Regroups(g, out, sb) /\ Regroups(g, u, data)
    BY Regrouping
  <2>3. f \in Chunks /\ sb \o data \in Chunks
    BY Joined
  <2> QED
    BY <2>1, <2>2, <2>3 DEF Regroups
<1>6. Prefix(g \o out, m)
  <2>1. PICK f \in Chunks, v \in Chunks : f = g \o out /\ v = sb \o data
    BY <1>5
  <2>2. Prefix(f \o v, m)
    BY <1>4, <1>5, <2>1
  <2>3. Prefix(f, m)
    BY ONLY <2>2, f \in Chunks, v \in Chunks, m \in Nat, PrefixShrinks
  <2> QED
    BY <2>1, <2>3
<1>7. UpstreamOpen => Intact(conn)
  BY <1>1 DEF UpstreamOpen, Intact, Phase, Forwarding, Connections
<1>8. UpstreamInOrder
  BY <1>2, <1>3, <1>4, <1>5, <1>6, <1>7 DEF UpstreamInOrder, AtTarget
<1>9. DownstreamInOrder
  <2>1. PICK x \in Chunks, s \in Chunks : x = conn.proxy.stream.out /\ s = conn.proxy.session
    BY <1>1, ConnectionParts
  <2>2. Regroups(h, x, s)
    BY Regrouping
  <2> QED
    BY <1>1, <1>2, <2>1, <2>2 DEF DownFlow, DownstreamInOrder, AtClient, Regroups
<1> QED
  BY <1>8, <1>9 DEF NothingLost

\* A step of one socket only.
LEMMA ProxyMoves ==
  ASSUME NEW c \in Connections, Sane(c), NEW p \in Streams, Len(p.out) <= Cap,
         NEW t \in {"start", "hello", "answer", "sent", "finish", "up"}, NEW d,
         d = [c EXCEPT !.proxy = [c.proxy EXCEPT !.tls = t, !.stream = p]]
  PROVE  Moved(c, d, p, c.backend.stream)
<1>1. c.backend = [c.backend EXCEPT !.stream = c.backend.stream] /\ c.backend.stream \in Streams
  BY ConnectionParts DEF Backends
<1>2. PICK b \in Streams : b = c.backend.stream
  BY <1>1
<1>3. d = [c EXCEPT !.proxy = [c.proxy EXCEPT !.tls = t, !.stream = p],
                    !.backend = [c.backend EXCEPT !.stream = b]]
  <2>1. d = [c EXCEPT !.proxy = [c.proxy EXCEPT !.tls = t, !.stream = p], !.backend = c.backend]
    BY DEF Connections
  <2> QED
    BY <1>1, <1>2, <2>1
<1>4. Len(b.out) <= Len(c.backend.stream.out)
  <2>1. Len(b.out) \in Nat
    BY NothingJoined DEF Streams
  <2> QED
    BY <1>2, <2>1
<1> QED
  BY ONLY <1>2, <1>3, <1>4, c \in Connections, Sane(c), p \in Streams, Len(p.out) <= Cap,
          t \in {"start", "hello", "answer", "sent", "finish", "up"}, SocketsMove

LEMMA BackendMoves ==
  ASSUME NEW c \in Connections, Sane(c), NEW b \in Streams, c.backend.kind # "none",
         Len(b.out) <= Len(c.backend.stream.out), NEW d,
         d = [c EXCEPT !.backend = [c.backend EXCEPT !.stream = b]]
  PROVE  Moved(c, d, c.proxy.stream, b)
<1>1. c.proxy \in TlsConns /\ Len(c.proxy.stream.out) <= Cap
  BY ConnectionParts DEF Sane
<1>2. PICK p \in Streams, t \in {"start", "hello", "answer", "sent", "finish", "up"} :
        p = c.proxy.stream /\ t = c.proxy.tls
  BY <1>1 DEF TlsConns
<1>3. c.proxy = [c.proxy EXCEPT !.tls = t, !.stream = p]
  BY <1>1, <1>2 DEF TlsConns
<1>4. d = [c EXCEPT !.proxy = [c.proxy EXCEPT !.tls = t, !.stream = p],
                    !.backend = [c.backend EXCEPT !.stream = b]]
  <2>1. d = [c EXCEPT !.proxy = c.proxy, !.backend = [c.backend EXCEPT !.stream = b]]
    BY DEF Connections
  <2> QED
    BY <1>3, <2>1
<1>5. Len(p.out) <= Cap
  BY <1>1, <1>2
<1>6. Moved(c, d, p, b)
  BY ONLY <1>4, <1>5, c \in Connections, Sane(c), b \in Streams, p \in Streams,
          t \in {"start", "hello", "answer", "sent", "finish", "up"}, c.backend.kind # "none",
          Len(b.out) <= Len(c.backend.stream.out), SocketsMove
<1> QED
  BY <1>2, <1>6

\* What the kernel's operators change of a socket.
LEMMA KernelSteps ==
  ASSUME NEW k \in Streams, NEW x \in Nat, NEW how \in {"open", "fin", "rst", "bad"}
  PROVE  /\ Reported(k) \in Streams /\ Reported(k).in = k.in /\ Reported(k).out = k.out
         /\ Reported(k).end = k.end
         /\ Arrived(k, x) \in Streams /\ Arrived(k, x).in = Append(k.in, x)
         /\ Arrived(k, x).out = k.out /\ Arrived(k, x).end = k.end
         /\ EndedBy(k, how) \in Streams /\ EndedBy(k, how).in = k.in /\ EndedBy(k, how).out = k.out
         /\ k.out # <<>> =>
              /\ Received(k) \in Streams /\ Received(k).in = k.in /\ Received(k).end = k.end
              /\ Received(k).out = Tail(k.out) /\ Len(Received(k).out) <= Len(k.out)
<1>1. k.in \in Chunks /\ k.out \in Chunks /\ Append(k.in, x) \in Chunks
  <2>1. k.in \in Chunks /\ k.out \in Chunks
    BY DEF Streams
  <2> QED
    BY <2>1, OneMore
<1>2. Reported(k) \in Streams /\ Reported(k).in = k.in /\ Reported(k).out = k.out
      /\ Reported(k).end = k.end
  BY DEF Reported, Streams
<1>3. Arrived(k, x) \in Streams /\ Arrived(k, x).in = Append(k.in, x)
      /\ Arrived(k, x).out = k.out /\ Arrived(k, x).end = k.end
  BY <1>1 DEF Arrived, Streams
<1>4. EndedBy(k, how) \in Streams /\ EndedBy(k, how).in = k.in /\ EndedBy(k, how).out = k.out
  BY DEF EndedBy, Streams
<1>5. ASSUME k.out # <<>>
      PROVE  /\ Received(k) \in Streams /\ Received(k).in = k.in /\ Received(k).end = k.end
             /\ Received(k).out = Tail(k.out) /\ Len(Received(k).out) <= Len(k.out)
  <2>1. PICK out \in Chunks : out = k.out
    BY <1>1
  <2>2. Tail(out) \in Chunks /\ Len(Tail(out)) = Len(out) - 1 /\ Len(out) \in Nat
    BY <1>5, <2>1, HandedOn, NothingJoined
  <2>3. Len(Tail(out)) <= Len(out)
    BY ONLY <2>2
  <2>4. /\ Received(k) \in Streams /\ Received(k).in = k.in /\ Received(k).end = k.end
        /\ Received(k).out = Tail(k.out)
    BY <2>1, <2>2 DEF Received, Streams
  <2> QED
    BY <2>1, <2>3, <2>4
<1> QED
  BY <1>2, <1>3, <1>4, <1>5

\* The server's steps.
LEMMA ServerFlows ==
  ASSUME Flow, Server \/ Timeout
  PROVE  Flow'
<1>1. Around /\ Sound(conn, got.target, sent.client, got.client, sent.target, request)
  BY FlowParts
<1>2. PICK c \in Connections, g \in Chunks, h \in Chunks, m \in Nat, n \in Nat, req \in RequestKinds :
        /\ c = conn /\ g = got.target /\ h = got.client /\ m = sent.client /\ n = sent.target
        /\ req = request
  BY <1>1, Numbers DEF Sound, Sane
<1>3. Sound(c, g, m, h, n, req) /\ Sane(c)
  BY <1>1, <1>2 DEF Sound
<1>4. sent' = sent /\ got' = got /\ setting' = setting
  BY DEF Server, Poll, HandleProxy, HandleBackend, HandleDns, Handled, EndBatch, Timeout
<1>5. request' = req /\ got'.target = g /\ got'.client = h /\ sent'.client = m /\ sent'.target = n
  BY <1>2, <1>4 DEF request
<1>6. Around' /\ Sound(conn', g, m, h, n, req) => Flow'
  <2>1. Around' /\ Sound(conn', got'.target, sent'.client, got'.client, sent'.target, request') => Flow'
    BY DEF Flow, TypeOK, Around, Sound, Sane, BackendFits
  <2> QED
    BY <1>5, <2>1
<1>7. CASE Poll
  <2>1. PICK p, b : /\ p = IF ProxyEdge THEN Reported(c.proxy.stream) ELSE c.proxy.stream
                    /\ b = IF BackendEdge THEN Reported(c.backend.stream) ELSE c.backend.stream
    OBVIOUS
  <2>2. c.proxy.stream \in Streams /\ c.backend.stream \in Streams /\ c.proxy \in TlsConns
        /\ c.backend \in Backends
    BY ConnectionParts
  <2>3. /\ p \in Streams /\ p.in = c.proxy.stream.in /\ p.out = c.proxy.stream.out
        /\ p.end = c.proxy.stream.end
        /\ b \in Streams /\ b.in = c.backend.stream.in /\ b.out = c.backend.stream.out
    BY <2>1, <2>2, KernelSteps
  <2>4. PICK t \in {"start", "hello", "answer", "sent", "finish", "up"} : t = c.proxy.tls
    BY <2>2 DEF TlsConns
  <2>5. conn' = [c EXCEPT !.proxy = [c.proxy EXCEPT !.tls = t, !.stream = p],
                          !.backend = [c.backend EXCEPT !.stream = b]]
    <3>1. conn' = [c EXCEPT !.proxy = [c.proxy EXCEPT !.stream = p],
                            !.backend = [c.backend EXCEPT !.stream = b]]
      BY <1>2, <1>7, <2>1 DEF Poll, Connections
    <3>2. [c.proxy EXCEPT !.tls = t, !.stream = p] = [c.proxy EXCEPT !.stream = p]
      BY <2>2, <2>4 DEF TlsConns
    <3> QED
      BY <3>1, <3>2
  <2>6. /\ Len(p.out) <= Cap /\ Len(b.out) <= Len(c.backend.stream.out)
        /\ c.backend.kind = "none" => b = c.backend.stream
    <3>1. Len(b.out) \in Nat
      BY <2>3, NothingJoined DEF Streams
    <3> QED
      BY <1>2, <1>3, <2>1, <2>3, <3>1 DEF Sane, BackendEdge
  <2>7. PICK d : d = conn'
    OBVIOUS
  <2>8. Moved(c, d, p, b)
    BY ONLY <1>3, <2>3, <2>5, <2>6, <2>7, c \in Connections,
            t \in {"start", "hello", "answer", "sent", "finish", "up"}, SocketsMove
  <2>9. Sound(conn', g, m, h, n, req)
    BY <1>3, <2>3, <2>7, <2>8, EdgesOnly
  <2>10. ProxyEvent \in Events /\ BackendEvent \in Events /\ DnsEvent \in Events
    <3>1. /\ Writable(c.proxy.stream) \in BOOLEAN /\ TlsReadable(c.proxy) \in BOOLEAN
          /\ Writable(c.backend.stream) \in BOOLEAN /\ Readable(c.backend.stream) \in BOOLEAN
      BY <2>2 DEF Writable, TlsReadable, Readable
    <3> QED
      BY <1>2, <3>1 DEF ProxyEvent, BackendEvent, DnsEvent, Events
  <2>11. batch' \subseteq Events
    BY <1>7, <2>10 DEF Poll
  <2>12. Around'
    BY <1>1, <1>4, <1>7, <2>11 DEF Around, Poll
  <2> QED
    BY <1>6, <2>9, <2>12
<1>8. CASE HandleProxy
  <2>1. PICK e \in batch, o \in Outcomes : Handled(e, ReadyProxy(c, e, o, req))
    BY <1>2, <1>8 DEF HandleProxy
  <2>2. Sound(conn', g, m, h, n, req)
    BY <1>1, <1>3, <2>1, ReadiesProxy DEF Handled, Around
  <2>3. Around'
    BY <1>1, <1>4, <2>1 DEF Around, Handled, destroyed
  <2> QED
    BY <1>6, <2>2, <2>3
<1>9. CASE HandleBackend
  <2>1. PICK e \in batch, o \in Outcomes : Handled(e, ReadyBackend(c, e, o, req))
    BY <1>2, <1>9 DEF HandleBackend
  <2>2. Sound(conn', g, m, h, n, req)
    BY <1>1, <1>3, <2>1, ReadiesBackend DEF Handled, Around
  <2>3. Around'
    BY <1>1, <1>4, <2>1 DEF Around, Handled, destroyed
  <2> QED
    BY <1>6, <2>2, <2>3
<1>10. CASE HandleDns
  <2>1. PICK e \in batch, o \in Outcomes : Handled(e, ReadyDns(c, c.dns, o))
    BY <1>2, <1>10 DEF HandleDns
  <2>2. Sound(conn', g, m, h, n, req)
    BY <1>3, <2>1, ReadiesDns DEF Handled
  <2>3. Around'
    BY <1>1, <1>4, <2>1 DEF Around, Handled, destroyed
  <2> QED
    BY <1>6, <2>2, <2>3
<1>11. CASE EndBatch
  <2>1. conn' = c /\ Around'
    BY <1>1, <1>2, <1>11 DEF EndBatch, Around
  <2> QED
    BY <1>3, <1>6, <2>1
<1>12. CASE Timeout
  <2>1. conn' = destroy(c) /\ Around'
    BY <1>1, <1>2, <1>12 DEF Timeout, Around
  <2>2. Sound(conn', g, m, h, n, req)
    BY <1>3, <2>1, Destroys
  <2> QED
    BY <1>6, <2>1, <2>2
<1> QED
  BY <1>7, <1>8, <1>9, <1>10, <1>11, <1>12 DEF Server

\* The peers' steps.
LEMMA PeersFlow ==
  ASSUME Flow, Peers
  PROVE  Flow'
<1>1. Around /\ Sound(conn, got.target, sent.client, got.client, sent.target, request)
  BY FlowParts
<1>2. PICK c \in Connections, g \in Chunks, h \in Chunks, m \in Nat, n \in Nat, req \in RequestKinds :
        /\ c = conn /\ g = got.target /\ h = got.client /\ m = sent.client /\ n = sent.target
        /\ req = request
  BY <1>1, Numbers DEF Sound, Sane
<1>3. Sound(c, g, m, h, n, req) /\ Sane(c)
  BY <1>1, <1>2 DEF Sound
<1>4. setting' = setting /\ loop' = loop /\ batch' = batch /\ removed' = removed /\ expired' = expired
  BY DEF Peers, ClientHello, ClientAnswered, ClientSend, ClientEnd, ClientRecv, TargetConnect,
         TargetSend, TargetEnd, TargetRecv, DnsAnswer
<1>5. ASSUME sent' \in [client : Nat, target : Nat], got' \in [client : Chunks, target : Chunks],
             Sound(conn', got'.target, sent'.client, got'.client, sent'.target, req)
      PROVE  Flow'
  <2>1. request' = req
    BY <1>2, <1>4 DEF request
  <2>2. Around'
    BY <1>1, <1>4, <1>5 DEF Around
  <2>3. Sound(conn', got'.target, sent'.client, got'.client, sent'.target, request')
    BY <1>5, <2>1
  <2> QED
    BY <2>2, <2>3 DEF Flow, TypeOK, Around, Sound, Sane, BackendFits
<1>6. ASSUME sent' = sent, got' = got, Sound(conn', g, m, h, n, req)
      PROVE  Flow'
  BY <1>1, <1>2, <1>5, <1>6 DEF Around
<1>7. PICK p \in Streams, b \in Streams, t \in {"start", "hello", "answer", "sent", "finish", "up"} :
        p = c.proxy.stream /\ b = c.backend.stream /\ t = c.proxy.tls
  BY ConnectionParts DEF TlsConns
<1>8. c.proxy \in TlsConns /\ c.backend \in Backends /\ Len(p.out) <= Cap
      /\ c.proxy = [c.proxy EXCEPT !.tls = t]
  BY <1>3, <1>7, ConnectionParts DEF Sane, TlsConns
<1>9. \A k \in Streams :
        [c.proxy EXCEPT !.stream = k] = [c.proxy EXCEPT !.tls = t, !.stream = k]
  BY <1>7, <1>8 DEF TlsConns
<1>10. CASE ClientHello
  <2>1. PICK k : k = [p EXCEPT !.edge = TRUE]
    OBVIOUS
  <2>2. k \in Streams /\ k.in = p.in /\ k.out = p.out /\ k.end = p.end
    BY <2>1 DEF Streams
  <2>3. conn' = [c EXCEPT !.proxy = [c.proxy EXCEPT !.tls = "hello", !.stream = k]]
    BY <1>2, <1>7, <1>8, <1>10, <2>1 DEF ClientHello, Connections, TlsConns
  <2>4. Moved(c, conn', k, b)
    BY <1>3, <1>7, <1>8, <2>2, <2>3, ProxyMoves
  <2>5. Sound(conn', g, m, h, n, req)
    BY <1>3, <1>7, <2>2, <2>4, EdgesOnly
  <2> QED
    BY <1>6, <1>10, <2>5 DEF ClientHello
<1>11. CASE ClientAnswered
  <2>1. conn' = [c EXCEPT !.proxy = [c.proxy EXCEPT !.tls = "up", !.stream = p]]
    <3>1. conn' = [c EXCEPT !.proxy = [c.proxy EXCEPT !.tls = "up"]]
      BY <1>2, <1>11 DEF ClientAnswered, Connections
    <3>2. [c.proxy EXCEPT !.tls = "up"] = [c.proxy EXCEPT !.tls = "up", !.stream = p]
      BY <1>7, <1>8 DEF TlsConns
    <3> QED
      BY <3>1, <3>2
  <2>2. Moved(c, conn', p, b)
    BY <1>3, <1>7, <1>8, <2>1, ProxyMoves
  <2>3. Sound(conn', g, m, h, n, req)
    BY <1>3, <1>7, <2>2, EdgesOnly
  <2> QED
    BY <1>6, <1>11, <2>3 DEF ClientAnswered
<1>12. CASE ClientSend
  <2>1. PICK x \in Nat : x = NextChunk(m, req)
    BY DEF NextChunk
  <2>2. PICK k : k = Arrived(p, x) /\ x = NextChunk(m, req)
    BY <2>1
  <2>3. k \in Streams /\ k.in = Append(p.in, x) /\ k.out = p.out /\ k.end = p.end
    BY <2>2, KernelSteps
  <2>4. conn' = [c EXCEPT !.proxy = [c.proxy EXCEPT !.tls = t, !.stream = k]]
    <3>1. conn' = [c EXCEPT !.proxy = [c.proxy EXCEPT !.stream = k]]
      BY <1>2, <1>7, <1>12, <2>2 DEF ClientSend, NextChunk, Connections
    <3> QED
      BY <1>9, <2>3, <3>1
  <2>5. Len(k.out) <= Cap
    BY <1>8, <2>3
  <2>6. Moved(c, conn', k, b)
    BY <1>3, <1>7, <2>3, <2>4, <2>5, ProxyMoves
  <2>7. ~is_shutdown(c.proxy.status)
    BY <1>2, <1>12 DEF ClientSend
  <2>8. /\ k.in = Append(c.proxy.stream.in, NextChunk(m, req)) /\ k.out = c.proxy.stream.out
        /\ k.end = c.proxy.stream.end
    BY <1>7, <2>2, <2>3
  <2>9. Sound(conn', g, m + 1, h, n, req)
    BY <1>3, <1>7, <2>3, <2>6, <2>7, <2>8, ClientSends
  <2>10. /\ sent' \in [client : Nat, target : Nat] /\ sent'.client = m + 1 /\ sent'.target = n
        /\ got' = got
    BY <1>1, <1>2, <1>12 DEF ClientSend, Around
  <2> QED
    BY <1>1, <1>2, <1>5, <2>9, <2>10 DEF Around
<1>13. CASE ClientEnd
  <2>1. PICK how \in {"fin", "rst", "bad"} :
          /\ c.proxy.stream.end = "open" \/ (c.proxy.stream.end = "fin" /\ how = "rst")
          /\ conn' = [conn EXCEPT !.proxy.stream = EndedBy(conn.proxy.stream, how)]
    BY <1>2, <1>13 DEF ClientEnd
  <2>2. PICK k : k = EndedBy(p, how)
    OBVIOUS
  <2>3. k \in Streams /\ k.in = p.in /\ k.out = p.out
    BY <2>2, KernelSteps
  <2>4. conn' = [c EXCEPT !.proxy = [c.proxy EXCEPT !.tls = t, !.stream = k]]
    <3>1. conn' = [c EXCEPT !.proxy = [c.proxy EXCEPT !.stream = k]]
      BY <1>2, <1>7, <2>1, <2>2 DEF Connections
    <3> QED
      BY <1>9, <2>3, <3>1
  <2>5. Moved(c, conn', k, b)
    BY <1>3, <1>7, <1>8, <2>3, <2>4, ProxyMoves
  <2>6. Sound(conn', g, m, h, n, req)
    BY <1>3, <1>7, <2>1, <2>3, <2>5, ClientEnds
  <2> QED
    BY <1>6, <1>13, <2>6 DEF ClientEnd
<1>14. CASE ClientRecv
  <2>1. PICK k : k = Received(p)
    OBVIOUS
  <2>2. p.out # <<>> /\ p.out \in Chunks /\ h \in Chunks
    BY <1>2, <1>7, <1>14 DEF ClientRecv, Streams
  <2>3. k \in Streams /\ k.in = p.in /\ k.end = p.end /\ k.out = Tail(p.out) /\ Len(k.out) <= Len(p.out)
    BY <2>1, <2>2, KernelSteps
  <2>4. conn' = [c EXCEPT !.proxy = [c.proxy EXCEPT !.tls = t, !.stream = k]]
    <3>1. conn' = [c EXCEPT !.proxy = [c.proxy EXCEPT !.stream = k]]
      BY <1>2, <1>7, <1>14, <2>1 DEF ClientRecv, Connections
    <3> QED
      BY <1>9, <2>3, <3>1
  <2>5. Len(k.out) <= Cap
    <3>1. Len(k.out) \in Nat /\ Len(p.out) \in Nat /\ Cap \in Nat
      BY <2>2, <2>3, NothingJoined, CapAssumption DEF Streams
    <3> QED
      BY <1>8, <2>3, <3>1
  <2>6. Moved(c, conn', k, b)
    BY <1>3, <1>7, <2>3, <2>4, <2>5, ProxyMoves
  <2>7. Sound(conn', g, m, Append(h, Head(c.proxy.stream.out)), n, req)
    BY <1>3, <1>7, <2>2, <2>3, <2>6, ClientTakes
  <2>8. Append(h, Head(p.out)) \in Chunks
    BY <2>2, HandedOn
  <2>9. /\ got' \in [client : Chunks, target : Chunks] /\ got'.target = g
        /\ got'.client = Append(h, Head(c.proxy.stream.out)) /\ sent' = sent
    BY <1>1, <1>2, <1>7, <1>14, <2>8 DEF ClientRecv, Around
  <2> QED
    BY <1>1, <1>2, <1>5, <2>7, <2>9 DEF Around
<1>15. CASE TargetConnect
  <2>1. PICK how \in {"open", "rst"} :
          conn' = [conn EXCEPT !.backend.stream =
                     [conn.backend.stream EXCEPT !.up = TRUE, !.end = how, !.edge = TRUE]]
    BY <1>15 DEF TargetConnect
  <2>2. PICK l : l = [b EXCEPT !.up = TRUE, !.end = how, !.edge = TRUE]
    OBVIOUS
  <2>3. l \in Streams /\ l.in = b.in /\ l.out = b.out
    BY <2>2 DEF Streams
  <2>4. conn' = [c EXCEPT !.backend = [c.backend EXCEPT !.stream = l]]
    BY <1>2, <1>7, <2>1, <2>2 DEF Connections
  <2>5. c.backend.kind # "none" /\ Len(l.out) <= Len(c.backend.stream.out)
    <3>1. Len(l.out) \in Nat
      BY <2>3, NothingJoined DEF Streams
    <3> QED
      BY <1>2, <1>7, <1>15, <2>3, <3>1 DEF TargetConnect
  <2>6. Moved(c, conn', p, l)
    BY <1>3, <1>7, <2>3, <2>4, <2>5, BackendMoves
  <2>7. Sound(conn', g, m, h, n, req)
    BY <1>3, <1>7, <2>3, <2>6, EdgesOnly
  <2> QED
    BY <1>6, <1>15, <2>7 DEF TargetConnect
<1>16. CASE TargetSend
  <2>1. PICK x \in Nat : x = n + 1
    OBVIOUS
  <2>2. PICK l : l = Arrived(b, x) /\ x = n + 1
    BY <2>1
  <2>3. l \in Streams /\ l.in = Append(b.in, x) /\ l.out = b.out
    BY <2>2, KernelSteps
  <2>4. conn' = [c EXCEPT !.backend = [c.backend EXCEPT !.stream = l]]
    BY <1>2, <1>7, <1>16, <2>2 DEF TargetSend, Connections
  <2>5. c.backend.kind # "none" /\ Len(l.out) <= Len(c.backend.stream.out)
    <3>1. Len(l.out) \in Nat
      BY <2>3, NothingJoined DEF Streams
    <3> QED
      BY <1>2, <1>7, <1>16, <2>3, <3>1 DEF TargetSend, TargetOpen
  <2>6. Moved(c, conn', p, l)
    BY <1>3, <1>7, <2>3, <2>4, <2>5, BackendMoves
  <2>7. l.in = Append(c.backend.stream.in, n + 1) /\ l.out = c.backend.stream.out
    BY <1>7, <2>2, <2>3
  <2>8. Sound(conn', g, m, h, n + 1, req)
    BY <1>3, <1>7, <2>3, <2>5, <2>6, <2>7, TargetSends
  <2>9. /\ sent' \in [client : Nat, target : Nat] /\ sent'.client = m /\ sent'.target = n + 1
        /\ got' = got
    BY <1>1, <1>2, <1>16 DEF TargetSend, Around
  <2> QED
    BY <1>1, <1>2, <1>5, <2>8, <2>9 DEF Around
<1>17. CASE TargetEnd
  <2>1. PICK how \in {"fin", "rst"} :
          conn' = [conn EXCEPT !.backend.stream = EndedBy(conn.backend.stream, how)]
    BY <1>17 DEF TargetEnd
  <2>2. PICK l : l = EndedBy(b, how)
    OBVIOUS
  <2>3. l \in Streams /\ l.in = b.in /\ l.out = b.out
    BY <2>2, KernelSteps
  <2>4. conn' = [c EXCEPT !.backend = [c.backend EXCEPT !.stream = l]]
    BY <1>2, <1>7, <2>1, <2>2 DEF Connections
  <2>5. c.backend.kind # "none" /\ Len(l.out) <= Len(c.backend.stream.out)
    <3>1. Len(l.out) \in Nat
      BY <2>3, NothingJoined DEF Streams
    <3> QED
      BY <1>2, <1>7, <1>17, <2>3, <3>1 DEF TargetEnd, TargetOpen
  <2>6. Moved(c, conn', p, l)
    BY <1>3, <1>7, <2>3, <2>4, <2>5, BackendMoves
  <2>7. Sound(conn', g, m, h, n, req)
    BY <1>3, <1>7, <2>3, <2>6, EdgesOnly
  <2> QED
    BY <1>6, <1>17, <2>7 DEF TargetEnd
<1>18. CASE TargetRecv
  <2>1. PICK l : l = Received(b)
    OBVIOUS
  <2>2. b.out # <<>> /\ b.out \in Chunks /\ g \in Chunks
    BY <1>2, <1>7, <1>18 DEF TargetRecv, Streams
  <2>3. l \in Streams /\ l.in = b.in /\ l.out = Tail(b.out) /\ Len(l.out) <= Len(b.out)
    BY <2>1, <2>2, KernelSteps
  <2>4. conn' = [c EXCEPT !.backend = [c.backend EXCEPT !.stream = l]]
    BY <1>2, <1>7, <1>18, <2>1 DEF TargetRecv, Connections
  <2>5. c.backend.kind # "none"
    BY <1>3, <1>7, <2>2 DEF Sane, NoBackend, NewStream
  <2>6. Moved(c, conn', p, l)
    BY <1>3, <1>7, <2>3, <2>4, <2>5, BackendMoves
  <2>7. Sound(conn', Append(g, Head(c.backend.stream.out)), m, h, n, req)
    BY <1>3, <1>7, <2>2, <2>3, <2>5, <2>6, TargetTakes
  <2>8. Append(g, Head(b.out)) \in Chunks
    BY <2>2, HandedOn
  <2>9. /\ got' \in [client : Chunks, target : Chunks] /\ got'.client = h
        /\ got'.target = Append(g, Head(c.backend.stream.out)) /\ sent' = sent
    BY <1>1, <1>2, <1>7, <1>18, <2>8 DEF TargetRecv, Around
  <2> QED
    BY <1>1, <1>2, <1>5, <2>7, <2>9 DEF Around
<1>19. CASE DnsAnswer
  <2>1. conn' = [c EXCEPT !.dns = "hit"] \/ conn' = [c EXCEPT !.dns = "fail"]
    BY <1>2, <1>19 DEF DnsAnswer
  <2>2. Sound(conn', g, m, h, n, req)
    BY <1>3, <2>1, FlagSet
  <2> QED
    BY <1>6, <1>19, <2>2 DEF DnsAnswer
<1> QED
  BY <1>10, <1>11, <1>12, <1>13, <1>14, <1>15, <1>16, <1>17, <1>18, <1>19 DEF Peers

-----------------------------------------------------------------------------
(* Theorems *)

LEMMA FlowHolds ==
  Spec => []Flow
<1>1. Init => Flow
  BY FlowInit
<1>2. Flow /\ [Next]_vars => Flow'
  <2> SUFFICES ASSUME Flow, [Next]_vars PROVE Flow'
    OBVIOUS
  <2>1. CASE Server \/ Timeout
    BY <2>1, ServerFlows
  <2>2. CASE Peers
    BY <2>2, PeersFlow
  <2>3. CASE UNCHANGED vars
    BY <2>3 DEF Flow, TypeOK, Sound, Sane, vars, request
  <2> QED
    BY <2>1, <2>2, <2>3 DEF Next, PollTimesOut, Finished
<1> QED
  BY <1>1, <1>2, PTL DEF Spec

\* Every variable keeps its type, and no socket gets more than its buffer holds,
\* whatever the sizes of the buffers.
THEOREM TypeCorrect ==
  Spec => []TypeOK
<1>1. Flow => TypeOK
  BY FlowShows
<1> QED
  BY <1>1, FlowHolds, PTL

\* Nothing is lost, doubled or overtaken between the client and the target, in
\* either direction: through the request, the lookup, parking and resuming, the
\* end of either side and the idle timeout.
THEOREM NothingIsLost ==
  Spec => []NothingLost
<1>1. Flow => NothingLost
  BY FlowShows
<1> QED
  BY <1>1, FlowHolds, PTL

-----------------------------------------------------------------------------
(* Backpressure.  First what one operator does to a connection c with a    *)
(* backend, which it turns into d.                                         *)

\* How much is in the client's socket and for it in the session, in the target's
\* socket and for it in send_buffer.
InClient(c) == Len(c.proxy.stream.out)
ForClient(c) == Len(c.proxy.session)
InTarget(c) == Len(c.backend.stream.out)
ForTarget(c) == Len(c.backend.send_buffer)

\* A step that reads the target has put what the session held into the client's
\* socket; no step takes anything back.
ClientFirst(c, d) ==
  /\ InClient(d) >= InClient(c)
  /\ InClient(d) + ForClient(d) >= InClient(c) + ForClient(c)
  /\ d.backend.stream.in # c.backend.stream.in => InClient(d) >= InClient(c) + ForClient(c)

\* The same towards a TCP target, which may fail: then the client is not read.
TargetFirst(c, d) ==
  c.backend.kind = "tcp" =>
    /\ InTarget(d) >= InTarget(c)
    /\ alive(d.backend.status) =>
         alive(c.backend.status) /\ InTarget(d) + ForTarget(d) >= InTarget(c) + ForTarget(c)
    /\ d.proxy.stream.in # c.proxy.stream.in =>
         alive(c.backend.status) /\ InTarget(d) >= InTarget(c) + ForTarget(c)

BothFirst(c, d) == ClientFirst(c, d) /\ TargetFirst(c, d) /\ d.backend.kind = c.backend.kind

LEMMA Lengths ==
  ASSUME NEW c \in Connections
  PROVE  InClient(c) \in Nat /\ ForClient(c) \in Nat /\ InTarget(c) \in Nat /\ ForTarget(c) \in Nat
BY ConnectionParts, NothingJoined DEF InClient, ForClient, InTarget, ForTarget

LEMMA FirstTwice ==
  ASSUME NEW c \in Connections, NEW e \in Connections, NEW d \in Connections,
         BothFirst(c, e), BothFirst(e, d)
  PROVE  BothFirst(c, d)
<1>1. ClientFirst(c, d)
  BY Lengths DEF BothFirst, ClientFirst
<1>2. TargetFirst(c, d)
  BY Lengths DEF BothFirst, TargetFirst
<1> QED
  BY <1>1, <1>2 DEF BothFirst

\* What leaves a direction alone.
LEMMA SameFirst ==
  ASSUME NEW c \in Connections, NEW d \in Connections
  PROVE  /\ UpSame(c, d) => TargetFirst(c, d) /\ d.backend.kind = c.backend.kind
         /\ DownSame(c, d) => ClientFirst(c, d)
<1>1. UpSame(c, d) => InTarget(d) = InTarget(c) /\ ForTarget(d) = ForTarget(c)
  BY DEF UpSame, InTarget, ForTarget
<1>2. DownSame(c, d) => InClient(d) = InClient(c) /\ ForClient(d) = ForClient(c)
  BY DEF DownSame, InClient, ForClient
<1>3. UpSame(c, d) => TargetFirst(c, d)
  BY <1>1, Lengths DEF UpSame, TargetFirst
<1>4. DownSame(c, d) => ClientFirst(c, d)
  BY <1>2, Lengths DEF DownSame, ClientFirst
<1> QED
  BY <1>3, <1>4 DEF UpSame

\* tcp_send only adds to the socket, and keeps what it does not add.
LEMMA TcpGrows ==
  ASSUME NEW b \in Backends, b.kind = "tcp", BackendFits(b), NEW buffer \in Chunks,
         NEW r, r = tcp_send(b, buffer)
  PROVE  /\ Len(r.stream.out) >= Len(b.stream.out)
         /\ alive(r.status) =>
              /\ alive(b.status)
              /\ Len(r.stream.out) + Len(r.send_buffer)
                   >= Len(b.stream.out) + Len(b.send_buffer)
<1>1. PICK out, sb, data : out = b.stream.out /\ sb = b.send_buffer /\ data = sb \o buffer
  OBVIOUS
<1>2. /\ out \in Chunks /\ sb \in Chunks /\ b.stream \in Streams /\ b.status \in Statuses
      /\ Len(b.stream.out) <= Cap /\ Len(out) \in Nat /\ Len(sb) \in Nat
  BY <1>1, NothingJoined DEF Backends, Streams, BackendFits
<1>3. /\ data \in Chunks /\ Len(data) = Len(sb) + Len(buffer)
      /\ Len(buffer) \in Nat
  <2>1. Queued(out, sb, buffer, data)
    BY <1>1, <1>2, HeldMoves, Zenon
  <2> QED
    BY <2>1 DEF Queued
<1>4. CASE data # <<>> /\ (is_shutdown(b.status) \/ b.stream.end = "rst")
  <2>1. r = [b EXCEPT !.send_buffer = <<>>, !.status = shutdown(b.status)]
    BY <1>4, <1>1 DEF tcp_send
  <2>2. r.stream = b.stream /\ is_shutdown(r.status)
    BY <1>2, <2>1, LifeCycle DEF Backends
  <2> QED
    BY <1>1, <1>2, <2>2 DEF alive, is_shutdown
<1>5. CASE ~(data # <<>> /\ (is_shutdown(b.status) \/ b.stream.end = "rst"))
  <2>1. PICK k, n, w : k = b.stream /\ n = Taken(k, data) /\ w = WriteSome(k, data, n)
    OBVIOUS
  <2>2. r = [b EXCEPT !.send_buffer = Rest(data, n), !.stream = w]
    BY <1>5, <1>1, <2>1 DEF tcp_send
  <2>3. /\ w \in Streams /\ Rest(data, n) \in Chunks /\ Len(Rest(data, n)) <= Len(data)
        /\ w.out \o Rest(data, n) = k.out \o data
    <3>1. k \in Streams /\ Len(k.out) <= Cap /\ w = WriteSome(k, data, Taken(k, data))
      BY <1>2, <2>1
    <3>2. Wrote(k, data, w)
      BY <1>3, <3>1, Writes, Zenon
    <3> QED
      BY <2>1, <3>2 DEF Wrote
  <2>4. PICK o \in Chunks, x \in Chunks : o = w.out /\ x = Rest(data, n)
    BY <2>3 DEF Streams
  <2>5. Len(o) + Len(x) = Len(out) + Len(data) /\ Len(x) <= Len(data)
    <3>1. o \o x = out \o data
      BY <1>1, <2>1, <2>3, <2>4
    <3>2. Len(o \o x) = Len(o) + Len(x) /\ Len(out \o data) = Len(out) + Len(data)
      BY <1>2, <1>3, Joined
    <3> QED
      BY <2>3, <2>4, <3>1, <3>2
  <2>6. r.stream.out = o /\ r.send_buffer = x /\ r.status = b.status
    BY <2>2, <2>4 DEF Backends
  <2>7. Len(o) \in Nat /\ Len(x) \in Nat /\ Len(data) \in Nat
    BY <1>3, NothingJoined
  <2>8. Len(o) >= Len(out) /\ Len(o) + Len(x) >= Len(out) + Len(sb)
    BY ONLY <1>2, <1>3, <2>5, <2>7
  <2> QED
    BY <1>1, <2>6, <2>8
<1> QED
  BY <1>4, <1>5

\* Reading the client, with a backend that keeps up.
LEMMA ReadFirst ==
  ASSUME NEW c \in Connections, NEW g \in Chunks, NEW n \in Nat, NEW req \in RequestKinds,
         NEW o \in Outcomes, Sane(c), Upstream(c, g, n, req),
         c.backend.kind # "none", backend_writable(c.backend),
         NEW d, d = try_read_proxy(c, o, req)
  PROVE  d \in Connections /\ BothFirst(c, d)
<1>1. d \in Connections /\ ClientFirst(c, d)
  <2>1. Sane(d) /\ DownSame(c, d)
    BY ReadsProxy
  <2> QED
    BY <2>1, SameFirst DEF Sane
<1>2. PICK e \in Connections : e = [c EXCEPT !.proxy = tls_do_read(c.proxy)] /\ ReadFrom(c, e)
  BY DoRead
<1>3. PICK b \in Backends : b = c.backend /\ BackendFits(b)
  BY ConnectionParts DEF Sane
<1>4. c.status \in Forwarding /\ (b.kind = "tcp" => alive(b.status) /\ b.send_buffer = <<>>)
  BY <1>3 DEF backend_writable, Upstream, Phase
<1>5. /\ InTarget(c) \in Nat /\ InTarget(c) = Len(b.stream.out)
      /\ b.kind = "tcp" => ForTarget(c) = 0
      /\ InTarget(d) \in Nat /\ ForTarget(d) \in Nat
  BY <1>1, <1>3, <1>4, Lengths, EmptySeq DEF InTarget, ForTarget
<1>6. CASE tls_read_data(c.proxy) = <<>>
  <2>1. d.backend = b
    BY <1>2, <1>3, <1>6 DEF try_read_proxy, ReadFrom
  <2>2. /\ InTarget(d) = InTarget(c) /\ ForTarget(d) = ForTarget(c)
        /\ d.backend.kind = b.kind /\ d.backend.status = b.status
        /\ c.backend.kind = b.kind /\ c.backend.status = b.status
    BY <1>3, <2>1 DEF InTarget, ForTarget
  <2>3. TargetFirst(c, d)
    BY ONLY <1>4, <1>5, <2>2 DEF TargetFirst
  <2> QED
    BY <1>1, <2>2, <2>3 DEF BothFirst
<1>7. CASE tls_read_data(c.proxy) # <<>>
  <2>1. PICK s \in Chunks : s = tls_read_data(c.proxy)
    BY ConnectionParts, NothingJoined DEF tls_read_data
  <2>2. e.backend = b /\ e.status = c.status
    BY <1>2, <1>3 DEF ReadFrom
  <2>3. d.backend = backend_dispatch(b, s)
    <3>1. d = dispatch(e, s, o, req)
      BY <1>2, <1>7, <2>1 DEF try_read_proxy
    <3> QED
      BY <1>4, <2>2, <3>1 DEF dispatch, Forwarding, Connections
  <2>4. PICK r : r = tcp_send(b, s)
    OBVIOUS
  <2>5. d.backend.kind = b.kind /\ (b.kind = "tcp" => d.backend = r)
    BY <1>3, <2>1, <2>3, <2>4, BackendPasses DEF Passes, backend_dispatch, tcp_dispatch
  <2>6. b.kind = "tcp" => InTarget(d) >= InTarget(c)
    <3>1. b.kind = "tcp" => Len(r.stream.out) >= Len(b.stream.out)
      BY <1>3, <2>1, <2>4, TcpGrows
    <3> QED
      BY <1>5, <2>5, <3>1 DEF InTarget
  <2>7. TargetFirst(c, d)
    BY <1>3, <1>4, <1>5, <2>5, <2>6 DEF TargetFirst
  <2> QED
    BY <1>1, <1>3, <2>5, <2>7 DEF BothFirst
<1> QED
  BY <1>6, <1>7

\* Flushing the client's side: what leaves the session is in its socket.
LEMMA ClientFlushFirst ==
  ASSUME NEW c \in Connections, NEW h \in Chunks, NEW n \in Nat, Sane(c), Downstream(c, h, n),
         NEW d, d = [c EXCEPT !.proxy = tls_do_send(tls_established(c.proxy))]
  PROVE  /\ BothFirst(c, d) /\ d.backend = c.backend
         /\ tls_writable(d.proxy) =>
              InClient(d) >= InClient(c) + ForClient(c)
<1>1. d \in Connections /\ UpSame(c, d) /\ Downstream(d, h, n) /\ d.backend = c.backend
  BY ProxyFlushes
<1>2. PICK p, q, s :
        p \in TlsConns /\ p = c.proxy /\ q = tls_established(p) /\ s = tls_do_send(q)
  BY ConnectionParts
<1>3. /\ q \in TlsConns /\ q.stream = p.stream /\ q.session = p.session
      /\ Len(q.stream.out) <= Cap
  BY <1>2, LifeCycle, ConnectionParts DEF TlsConns, tls_established, Sane
<1>4. Flush(q, s)
  BY <1>2, <1>3, TlsSends, Zenon
<1>5. d.proxy = s
  BY <1>2 DEF Connections
<1>6. PICK o \in Chunks, x \in Chunks, k \in Chunks, y \in Chunks :
        o = s.stream.out /\ x = s.session /\ k = p.stream.out /\ y = p.session
  BY <1>1, <1>2, <1>5, ConnectionParts
<1>7. o \o x = k \o y /\ Len(x) <= Len(y)
  BY <1>3, <1>4, <1>6 DEF Flush
<1>8. Len(o \o x) = Len(o) + Len(x) /\ Len(k \o y) = Len(k) + Len(y)
  BY Joined
<1>9. Len(o) \in Nat /\ Len(x) \in Nat /\ Len(k) \in Nat /\ Len(y) \in Nat /\ Len(<<>>) = 0
  BY NothingJoined
<1>10. tls_writable(s) => x = <<>>
  BY <1>1, <1>5, <1>6 DEF Downstream, DownBound, tls_writable, alive, is_shutdown
<1>11. /\ InClient(d) = Len(o) /\ ForClient(d) = Len(x)
       /\ InClient(c) = Len(k) /\ ForClient(c) = Len(y)
  BY <1>2, <1>5, <1>6 DEF InClient, ForClient
<1>12. /\ Len(o) >= Len(k) /\ Len(o) + Len(x) >= Len(k) + Len(y)
       /\ x = <<>> => Len(o) >= Len(k) + Len(y)
  BY ONLY <1>7, <1>8, <1>9
<1>13. ClientFirst(c, d)
  BY <1>1, <1>11, <1>12 DEF ClientFirst
<1> QED
  BY <1>1, <1>5, <1>10, <1>11, <1>12, <1>13, SameFirst DEF BothFirst

\* Reading the target, with a client that keeps up.
LEMMA TargetReadFirst ==
  ASSUME NEW c \in Connections, NEW h \in Chunks, NEW n \in Nat, Sane(c), Downstream(c, h, n),
         c.backend.kind # "none", tls_writable(c.proxy), NEW d, d = backend_do_read(c)
  PROVE  BothFirst(c, d)
<1>1. d \in Connections /\ UpSame(c, d)
  BY ReadsBackend
<1>2. PICK p, x, s :
        /\ p \in TlsConns /\ x \in Chunks
        /\ p = c.proxy /\ x = c.backend.stream.in /\ s = tls_do_send(write_session(p, x))
  BY ConnectionParts
<1>3. p.side = "server" /\ Len(p.stream.out) <= Cap /\ p.session = <<>>
  BY <1>2 DEF Sane, Downstream, DownBound, tls_writable, alive, is_shutdown
<1>4. Pushed(p, x, s)
  BY <1>2, <1>3, TlsPushes, Zenon
<1>5. d.proxy = s
  BY <1>2 DEF backend_do_read, Connections
<1>6. PICK o \in Chunks, y \in Chunks, k \in Chunks :
        o = s.stream.out /\ y = s.session /\ k = p.stream.out
  BY <1>1, <1>2, <1>5, ConnectionParts
<1>7. o \o y = k \o x /\ Len(y) <= Len(x)
  <2>1. /\ (o \o y) \o <<>> = (k \o <<>>) \o x /\ Len(y) <= Len(<<>>) + Len(x)
    BY <1>3, <1>4, <1>6 DEF Pushed
  <2>2. o \o y \in Chunks /\ k \o <<>> = k /\ Len(<<>>) = 0 /\ Len(x) \in Nat
    BY Joined, NothingJoined
  <2>3. (o \o y) \o <<>> = o \o y
    BY <2>2, NothingJoined
  <2> QED
    BY <2>1, <2>2, <2>3
<1>8. Len(o \o y) = Len(o) + Len(y) /\ Len(k \o x) = Len(k) + Len(x)
  BY Joined
<1>9. Len(o) \in Nat /\ Len(y) \in Nat /\ Len(k) \in Nat /\ Len(x) \in Nat /\ Len(<<>>) = 0
  BY NothingJoined
<1>10. /\ InClient(d) = Len(o) /\ ForClient(d) = Len(y)
       /\ InClient(c) = Len(k) /\ ForClient(c) = 0
  BY <1>2, <1>3, <1>5, <1>6, <1>9 DEF InClient, ForClient
<1>11. Len(o) >= Len(k) + 0 /\ Len(o) + Len(y) >= Len(k) + 0 /\ Len(o) >= Len(k)
  BY ONLY <1>7, <1>8, <1>9
<1>12. ClientFirst(c, d)
  BY <1>10, <1>11 DEF ClientFirst
<1> QED
  BY <1>1, <1>12, SameFirst DEF BothFirst

\* Flushing the target: an empty send_buffer is all in the socket.
LEMMA TargetFlushFirst ==
  ASSUME NEW c \in Connections, NEW g \in Chunks, NEW n \in Nat, NEW req \in RequestKinds,
         Sane(c), Upstream(c, g, n, req), c.backend.kind # "none",
         NEW d, d = [c EXCEPT !.backend = backend_dispatch(c.backend, <<>>)]
  PROVE  BothFirst(c, d)
<1>1. d \in Connections /\ DownSame(c, d) /\ d.backend.kind = c.backend.kind
  <2>1. d \in Connections /\ DownSame(c, d) /\ SameKind(c, d)
    BY ONLY c \in Connections, g \in Chunks, n \in Nat, req \in RequestKinds, Sane(c),
            Upstream(c, g, n, req), c.backend.kind # "none",
            d = [c EXCEPT !.backend = backend_dispatch(c.backend, <<>>)], BackendFlushes
  <2> QED
    BY <2>1 DEF SameKind
<1>2. PICK b \in Backends : b = c.backend /\ BackendFits(b)
  BY ConnectionParts DEF Sane
<1>3. PICK r : r = tcp_send(b, <<>>)
  OBVIOUS
<1>4. b.kind = "tcp" => d.backend = r /\ d.proxy = c.proxy
  BY <1>2, <1>3 DEF Connections, backend_dispatch, tcp_dispatch
<1>5. b.kind = "tcp" =>
        /\ Len(r.stream.out) >= Len(b.stream.out)
        /\ alive(r.status) =>
             /\ alive(b.status)
             /\ Len(r.stream.out) + Len(r.send_buffer)
                  >= Len(b.stream.out) + Len(b.send_buffer)
  BY <1>2, <1>3, TcpGrows, EmptySeq DEF Chunks
<1>6. b.kind = "tcp" =>
        /\ InTarget(d) >= InTarget(c)
        /\ alive(d.backend.status) =>
             alive(c.backend.status) /\ InTarget(d) + ForTarget(d) >= InTarget(c) + ForTarget(c)
        /\ d.proxy.stream.in = c.proxy.stream.in
  BY <1>2, <1>4, <1>5 DEF InTarget, ForTarget
<1>7. TargetFirst(c, d)
  BY <1>1, <1>2, <1>6 DEF TargetFirst
<1> QED
  BY <1>1, <1>7, SameFirst DEF BothFirst

\* A flag of the connection.
LEMMA FlagFirst ==
  ASSUME NEW c \in Connections, NEW x \in BOOLEAN, NEW d,
         \/ d = [c EXCEPT !.read_proxy = x]
         \/ d = [c EXCEPT !.read_backend = x]
         \/ d = [c EXCEPT !.dns = "none"]
  PROVE  d \in Connections /\ BothFirst(c, d)
<1>1. d \in Connections /\ d.proxy = c.proxy /\ d.backend = c.backend
  BY DEF Connections
<1>2. InClient(d) = InClient(c) /\ ForClient(d) = ForClient(c)
      /\ InTarget(d) = InTarget(c) /\ ForTarget(d) = ForTarget(c)
  BY <1>1 DEF InClient, ForClient, InTarget, ForTarget
<1> QED
  BY <1>1, <1>2, Lengths DEF BothFirst, ClientFirst, TargetFirst

\* The branches of Connection::ready, with a backend.
LEMMA ClientReadableFirst ==
  ASSUME NEW c \in Connections, NEW g \in Chunks, NEW m \in Nat, NEW h \in Chunks, NEW n \in Nat,
         NEW req \in RequestKinds, NEW o \in Outcomes, Sound(c, g, m, h, n, req),
         c.backend.kind # "none", NEW d, d = ProxyReadable(c, o, req)
  PROVE  BothFirst(c, d)
<1>1. CASE backend_writable(c.backend)
  BY <1>1, ReadFirst DEF ProxyReadable, Sound
<1>2. CASE ~backend_writable(c.backend)
  BY <1>2, FlagFirst DEF ProxyReadable
<1> QED
  BY <1>1, <1>2

LEMMA ClientWritableFirst ==
  ASSUME NEW c \in Connections, NEW g \in Chunks, NEW m \in Nat, NEW h \in Chunks, NEW n \in Nat,
         NEW req \in RequestKinds, Sound(c, g, m, h, n, req), c.backend.kind # "none",
         NEW d, d = ProxyWritable(c)
  PROVE  BothFirst(c, d)
<1>1. PICK s : s = [c EXCEPT !.proxy = tls_do_send(tls_established(c.proxy))]
  OBVIOUS
<1>2. s \in Connections /\ Sane(s) /\ Downstream(s, h, n) /\ s.backend = c.backend
  BY <1>1, ProxyFlushes DEF Sound
<1>3. BothFirst(c, s)
  BY <1>1, ClientFlushFirst DEF Sound
<1>4. CASE tls_writable(s.proxy) /\ s.read_backend
  <2>1. PICK e : e = backend_do_read(s)
    OBVIOUS
  <2>2. e \in Connections /\ BothFirst(s, e)
    BY ONLY <1>2, <1>4, <2>1, c.backend.kind # "none", h \in Chunks, n \in Nat, ReadsBackend,
            TargetReadFirst
  <2>3. d = [e EXCEPT !.read_backend = FALSE]
    BY <1>1, <1>2, <1>4, <2>1 DEF ProxyWritable
  <2>4. d \in Connections /\ BothFirst(e, d)
    BY <2>2, <2>3, FlagFirst
  <2>5. BothFirst(c, e)
    BY <1>2, <1>3, <2>2, FirstTwice
  <2> QED
    BY <2>2, <2>4, <2>5, FirstTwice
<1>5. CASE ~(tls_writable(s.proxy) /\ s.read_backend)
  <2>1. d = s
    BY <1>1, <1>5 DEF ProxyWritable
  <2> QED
    BY <1>3, <2>1
<1> QED
  BY <1>4, <1>5

LEMMA TargetReadableFirst ==
  ASSUME NEW c \in Connections, NEW g \in Chunks, NEW m \in Nat, NEW h \in Chunks, NEW n \in Nat,
         NEW req \in RequestKinds, Sound(c, g, m, h, n, req), c.backend.kind # "none",
         NEW d, d = BackendReadable(c)
  PROVE  BothFirst(c, d)
<1>1. CASE tls_writable(c.proxy)
  BY <1>1, TargetReadFirst DEF BackendReadable, Sound
<1>2. CASE ~tls_writable(c.proxy)
  BY <1>2, FlagFirst DEF BackendReadable
<1> QED
  BY <1>1, <1>2

LEMMA TargetWritableFirst ==
  ASSUME NEW c \in Connections, NEW g \in Chunks, NEW m \in Nat, NEW h \in Chunks, NEW n \in Nat,
         NEW req \in RequestKinds, NEW o \in Outcomes, Sound(c, g, m, h, n, req),
         c.backend.kind # "none", NEW d, d = BackendWritable(c, o, req)
  PROVE  BothFirst(c, d)
<1>1. PICK s : s = [c EXCEPT !.backend = backend_dispatch(c.backend, <<>>)]
  OBVIOUS
<1>2. /\ s \in Connections /\ Sane(s) /\ Upstream(s, g, m, req)
      /\ s.backend.kind = c.backend.kind
  <2>1. Sane(c) /\ Upstream(c, g, m, req)
    BY DEF Sound
  <2> QED
    <3>1. s \in Connections /\ Sane(s) /\ Upstream(s, g, m, req) /\ SameKind(c, s)
      BY ONLY c \in Connections, g \in Chunks, m \in Nat, req \in RequestKinds, <2>1,
              c.backend.kind # "none", <1>1, BackendFlushes
    <3> QED
      BY <3>1 DEF SameKind
<1>3. BothFirst(c, s)
  BY <1>1, TargetFlushFirst DEF Sound
<1>4. CASE backend_writable(s.backend) /\ s.read_proxy
  <2>1. PICK e : e = try_read_proxy(s, o, req)
    OBVIOUS
  <2>2. e \in Connections /\ BothFirst(s, e)
    BY ONLY <1>2, <1>4, <2>1, c.backend.kind # "none", g \in Chunks, m \in Nat,
            req \in RequestKinds, o \in Outcomes, ReadFirst
  <2>3. d = [e EXCEPT !.read_proxy = FALSE]
    BY <1>1, <1>4, <2>1 DEF BackendWritable
  <2>4. d \in Connections /\ BothFirst(e, d)
    BY <2>2, <2>3, FlagFirst
  <2>5. BothFirst(c, e)
    BY <1>2, <1>3, <2>2, FirstTwice
  <2> QED
    BY <2>2, <2>4, <2>5, FirstTwice
<1>5. CASE ~(backend_writable(s.backend) /\ s.read_proxy)
  <2>1. d = s
    BY <1>1, <1>5 DEF BackendWritable
  <2> QED
    BY <1>3, <2>1
<1> QED
  BY <1>4, <1>5

\* The end of every handler, and destroy.
LEMMA ClosesFirst ==
  ASSUME NEW c \in Connections, Sane(c), NEW d,
         d = CheckBoth(PropagateClose(c)) \/ d = destroy(c)
  PROVE  d \in Connections /\ BothFirst(c, d)
<1>1. CASE d = CheckBoth(PropagateClose(c))
  <2>1. PICK e : e = PropagateClose(c)
    OBVIOUS
  <2>2. e \in Connections /\ Sane(e) /\ UpSame(c, e) /\ DownSame(c, e)
    BY <2>1, Propagates
  <2>3. d \in Connections /\ UpSame(e, d) /\ DownSame(e, d)
    BY <1>1, <2>1, <2>2, Checks
  <2>4. UpSame(c, d) /\ DownSame(c, d)
    BY <2>2, <2>3, UpSameTwice, DownSameTwice
  <2> QED
    BY <2>3, <2>4, SameFirst DEF BothFirst
<1>2. CASE d = destroy(c)
  <2>1. d \in Connections /\ UpSame(c, d) /\ DownSame(c, d)
    BY <1>2, DestroyKeeps
  <2> QED
    BY <2>1, SameFirst DEF BothFirst
<1> QED
  BY <1>1, <1>2

\* Every handler puts what it holds for a side into its socket before it reads
\* the other.
LEMMA HandlersFirst ==
  ASSUME NEW c \in Connections, NEW g \in Chunks, NEW m \in Nat, NEW h \in Chunks, NEW n \in Nat,
         NEW req \in RequestKinds, NEW o \in Outcomes, Sound(c, g, m, h, n, req),
         c.backend.kind # "none", NEW e \in Events, NEW d,
         \/ d = ReadyProxy(c, e, o, req) \/ d = ReadyBackend(c, e, o, req)
         \/ d = ReadyDns(c, c.dns, o)
  PROVE  BothFirst(c, d)
<1>1. \A x \in Connections : BothFirst(x, x)
  BY Lengths DEF BothFirst, ClientFirst, TargetFirst
<1>2. ASSUME NEW w \in Connections, BothFirst(c, w), Sane(w), d = CheckBoth(PropagateClose(w))
      PROVE  BothFirst(c, d)
  <2>1. d \in Connections /\ BothFirst(w, d)
    BY <1>2, ClosesFirst
  <2> QED
    BY <1>2, <2>1, FirstTwice
<1>3. CASE d = ReadyProxy(c, e, o, req)
  <2>1. PICK r : r = IF e.r THEN ProxyReadable(c, o, req) ELSE c
    OBVIOUS
  <2>2. r \in Connections /\ Sound(r, g, m, h, n, req) /\ BothFirst(c, r)
    BY <1>1, <2>1, ClientReadable, ClientReadableFirst
  <2>3. r.backend.kind # "none"
    BY <2>2 DEF BothFirst
  <2>4. PICK w : w = IF e.w THEN ProxyWritable(r) ELSE r
    OBVIOUS
  <2>5. w \in Connections /\ Sound(w, g, m, h, n, req) /\ BothFirst(r, w)
    BY <1>1, <2>2, <2>3, <2>4, ClientWritable, ClientWritableFirst
  <2>6. d = CheckBoth(PropagateClose(w)) /\ Sane(w)
    BY <1>3, <2>1, <2>4, <2>5 DEF ReadyProxy, Sound
  <2>7. BothFirst(c, w)
    BY <2>2, <2>5, FirstTwice
  <2> QED
    BY <1>2, <2>5, <2>6, <2>7
<1>4. CASE d = ReadyBackend(c, e, o, req)
  <2>1. PICK r : r = IF e.r THEN BackendReadable(c) ELSE c
    OBVIOUS
  <2>2. /\ r \in Connections /\ Sound(r, g, m, h, n, req) /\ r.backend.kind # "none"
        /\ BothFirst(c, r)
    BY <1>1, <2>1, TargetReadable, TargetReadableFirst
  <2>3. PICK w : w = IF e.w THEN BackendWritable(r, o, req) ELSE r
    OBVIOUS
  <2>4. w \in Connections /\ Sound(w, g, m, h, n, req) /\ BothFirst(r, w)
    BY <1>1, <2>2, <2>3, TargetWritable, TargetWritableFirst
  <2>5. d = CheckBoth(PropagateClose(w)) /\ Sane(w)
    BY <1>4, <2>1, <2>3, <2>4 DEF ReadyBackend, Sound
  <2>6. BothFirst(c, w)
    BY <2>2, <2>4, FirstTwice
  <2> QED
    BY <1>2, <2>4, <2>5, <2>6
<1>5. CASE d = ReadyDns(c, c.dns, o)
  <2>1. PICK s : s = [c EXCEPT !.dns = "none"]
    OBVIOUS
  <2>2. s \in Connections /\ Sound(s, g, m, h, n, req) /\ BothFirst(c, s)
    BY <2>1, FlagSet, FlagFirst
  <2>3. c.status \in Forwarding
    BY DEF Sound, Upstream, Phase
  <2>4. try_resolve(s, c.dns, o) = s
    BY <2>1, <2>3 DEF try_resolve, Forwarding, Connections
  <2>5. d = CheckBoth(PropagateClose(s)) /\ Sane(s)
    BY <1>5, <2>1, <2>2, <2>4 DEF ReadyDns, Sound
  <2> QED
    BY <1>2, <2>2, <2>5
<1> QED
  BY <1>3, <1>4, <1>5

\* The peers and poll take nothing out of the sockets that are read.
LEMMA OthersReadNothing ==
  ASSUME Flow, Peers \/ Poll \/ EndBatch \/ UNCHANGED vars
  PROVE  ~ReadsTarget /\ ~ReadsClient
<1>1. PICK c \in Connections : c = conn
  BY DEF Flow, TypeOK
<1>2. PICK i \in Chunks, j \in Chunks, x \in Nat, y \in Nat :
        /\ i = c.proxy.stream.in /\ j = c.backend.stream.in
        /\ x = (IF request = "none" THEN sent.client + 1 ELSE sent.client)
        /\ y = sent.target + 1
  BY <1>1, ConnectionParts DEF Flow, TypeOK
<1>3. /\ Len(i) \in Nat /\ Len(j) \in Nat /\ Len(Append(i, x)) = Len(i) + 1
      /\ Len(Append(j, y)) = Len(j) + 1
  BY NothingJoined, OneMore
<1>4. conn'.proxy.stream.in \in {i, Append(i, x)} /\ conn'.backend.stream.in \in {j, Append(j, y)}
  <2>1. CASE Poll
    BY <1>1, <1>2, <2>1 DEF Poll, Reported, Connections, TlsConns, Backends, Streams
  <2>2. CASE EndBatch \/ UNCHANGED vars
    BY <1>1, <1>2, <2>2 DEF EndBatch, vars
  <2>3. CASE ClientHello
    BY <1>1, <1>2, <2>3 DEF ClientHello, Connections, TlsConns, Backends, Streams
  <2>4. CASE ClientSend
    BY <1>1, <1>2, <2>4 DEF ClientSend, Arrived, Connections, TlsConns, Backends, Streams
  <2>5. CASE ClientEnd
    <3>1. PICK how : conn' = [c EXCEPT !.proxy.stream = EndedBy(@, how)]
      BY <1>1, <2>5 DEF ClientEnd
    <3> QED
      BY <1>1, <1>2, <3>1 DEF EndedBy, Connections, TlsConns, Backends, Streams
  <2>6. CASE ClientRecv
    BY <1>1, <1>2, <2>6 DEF ClientRecv, Received, Connections, TlsConns, Backends, Streams
  <2>7. CASE TargetConnect
    <3>1. PICK how :
            conn' = [c EXCEPT !.backend.stream = [@ EXCEPT !.up = TRUE, !.end = how, !.edge = TRUE]]
      BY <1>1, <2>7 DEF TargetConnect
    <3> QED
      BY <1>1, <1>2, <3>1 DEF Connections, TlsConns, Backends, Streams
  <2>8. CASE TargetSend
    BY <1>1, <1>2, <2>8 DEF TargetSend, Arrived, Connections, TlsConns, Backends, Streams
  <2>9. CASE TargetEnd
    <3>1. PICK how : conn' = [c EXCEPT !.backend.stream = EndedBy(@, how)]
      BY <1>1, <2>9 DEF TargetEnd
    <3> QED
      BY <1>1, <1>2, <3>1 DEF EndedBy, Connections, TlsConns, Backends, Streams
  <2>10. CASE TargetRecv
    BY <1>1, <1>2, <2>10 DEF TargetRecv, Received, Connections, TlsConns, Backends, Streams
  <2>11. CASE DnsAnswer
    BY <1>1, <1>2, <2>11 DEF DnsAnswer, Connections, TlsConns, Backends, Streams
  <2>12. CASE ClientAnswered
    BY <1>1, <1>2, <2>12 DEF ClientAnswered, Connections, TlsConns, Backends, Streams
  <2> QED
    BY <2>1, <2>2, <2>3, <2>4, <2>5, <2>6, <2>7, <2>8, <2>9, <2>10, <2>11, <2>12 DEF Peers
<1>5. ~(Len(conn'.proxy.stream.in) < Len(i)) /\ ~(Len(conn'.backend.stream.in) < Len(j))
  BY <1>3, <1>4
<1>6. Len(conn.proxy.stream.in) = Len(i) /\ Len(conn.backend.stream.in) = Len(j)
  BY <1>1, <1>2
<1> QED
  BY ONLY <1>5, <1>6 DEF ReadsTarget, ReadsClient

\* Of the server's steps, a handler without a backend has no target to read.
LEMMA HandlesFirst ==
  ASSUME Flow, HandleProxy \/ HandleBackend \/ HandleDns \/ Timeout
  PROVE  conn.backend.kind # "none" => BothFirst(conn, conn')
<1> SUFFICES ASSUME conn.backend.kind # "none" PROVE BothFirst(conn, conn')
  OBVIOUS
<1>1. Around /\ Sound(conn, got.target, sent.client, got.client, sent.target, request)
  BY FlowParts
<1>2. PICK c \in Connections, g \in Chunks, h \in Chunks, m \in Nat, n \in Nat, req \in RequestKinds :
        /\ c = conn /\ g = got.target /\ h = got.client /\ m = sent.client /\ n = sent.target
        /\ req = request
  BY <1>1, Numbers DEF Sound, Sane
<1>3. Sound(c, g, m, h, n, req) /\ Sane(c) /\ c.backend.kind # "none" /\ batch \subseteq Events
  BY <1>1, <1>2 DEF Sound, Around
<1>4. PICK d : d = conn'
  OBVIOUS
<1>5. CASE HandleProxy \/ HandleBackend \/ HandleDns
  <2>1. PICK e \in Events, o \in Outcomes :
          \/ d = ReadyProxy(c, e, o, req) \/ d = ReadyBackend(c, e, o, req)
          \/ d = ReadyDns(c, c.dns, o)
    BY <1>2, <1>3, <1>4, <1>5 DEF HandleProxy, HandleBackend, HandleDns, Handled
  <2>2. BothFirst(c, d)
    BY ONLY <1>3, <2>1, c \in Connections, g \in Chunks, m \in Nat, h \in Chunks, n \in Nat,
            req \in RequestKinds, HandlersFirst
  <2> QED
    BY <1>2, <1>4, <2>2
<1>6. CASE Timeout
  <2>1. d = destroy(c)
    BY <1>2, <1>4, <1>6 DEF Timeout
  <2>2. BothFirst(c, d)
    BY <1>3, <2>1, ClosesFirst
  <2> QED
    BY <1>2, <1>4, <2>2
<1> QED
  BY <1>5, <1>6

\* The server reads one side only in a step that has put all it holds for the
\* other into that side's socket, whatever the sizes of the sockets and however
\* much a read finds.
THEOREM StopsReading ==
  Spec => Backpressure
<1>1. Flow /\ Flow' /\ [Next]_vars =>
        /\ ReadsTarget => Len(AtClient') >= Len(AtClient) + Len(conn.proxy.session)
        /\ conn.backend.kind = "tcp" /\ ReadsClient =>
             Len(AtTarget') >= Len(AtTarget) + Len(conn.backend.send_buffer)
  <2> SUFFICES ASSUME Flow, Flow', [Next]_vars
               PROVE  /\ ReadsTarget => Len(AtClient') >= Len(AtClient) + Len(conn.proxy.session)
                      /\ conn.backend.kind = "tcp" /\ ReadsClient =>
                           Len(AtTarget') >= Len(AtTarget) + Len(conn.backend.send_buffer)
    OBVIOUS
  <2>1. CASE Peers \/ Poll \/ EndBatch \/ UNCHANGED vars
    BY <2>1, OthersReadNothing
  <2>2. CASE HandleProxy \/ HandleBackend \/ HandleDns \/ Timeout
    <3>1. PICK c \in Connections, d \in Connections, g \in Chunks, h \in Chunks :
            c = conn /\ d = conn' /\ g = got.target /\ h = got.client
      BY DEF Flow, TypeOK
    <3>2. got' = got
      BY <2>2 DEF HandleProxy, HandleBackend, HandleDns, Handled, Timeout
    <3>3. /\ Len(AtClient) = Len(h) + InClient(c) /\ Len(AtClient') = Len(h) + InClient(d)
          /\ Len(AtTarget) = Len(g) + InTarget(c) /\ Len(AtTarget') = Len(g) + InTarget(d)
      BY <3>1, <3>2, ConnectionParts, Joined DEF AtClient, AtTarget, InClient, InTarget
    <3>4. Len(g) \in Nat /\ Len(h) \in Nat
      BY NothingJoined
    <3>5. c.backend.kind # "none" => BothFirst(c, d)
      BY <2>2, <3>1, HandlesFirst
    <3>6. c.backend.kind = "none" => ~ReadsTarget
      <4>1. c.backend.kind = "none" => c.backend.stream.in = <<>>
        BY <3>1, NewBackends DEF Flow, Sound, Sane
      <4>2. Len(d.backend.stream.in) \in Nat /\ Len(<<>>) = 0
        BY ConnectionParts, NothingJoined
      <4> QED
        BY <3>1, <4>1, <4>2 DEF ReadsTarget
    <3>7. ReadsTarget => d.backend.stream.in # c.backend.stream.in
      BY <3>1, ConnectionParts, NothingJoined DEF ReadsTarget
    <3>8. ReadsClient => d.proxy.stream.in # c.proxy.stream.in
      BY <3>1, ConnectionParts, NothingJoined DEF ReadsClient
    <3>9. ReadsTarget => InClient(d) >= InClient(c) + ForClient(c)
      BY <3>5, <3>6, <3>7 DEF BothFirst, ClientFirst
    <3>10. c.backend.kind = "tcp" /\ ReadsClient => InTarget(d) >= InTarget(c) + ForTarget(c)
      BY <3>5, <3>8 DEF BothFirst, TargetFirst
    <3>11. ForClient(c) = Len(conn.proxy.session) /\ ForTarget(c) = Len(conn.backend.send_buffer)
      BY <3>1 DEF ForClient, ForTarget
    <3>12. PICK gl \in Nat, hl \in Nat, ic \in Nat, fc \in Nat, it \in Nat, ft \in Nat,
                id \in Nat, jd \in Nat :
             /\ gl = Len(g) /\ hl = Len(h) /\ ic = InClient(c) /\ fc = ForClient(c)
             /\ it = InTarget(c) /\ ft = ForTarget(c) /\ id = InClient(d) /\ jd = InTarget(d)
      BY <3>4, Lengths
    <3>13. ReadsTarget => Len(AtClient') >= Len(AtClient) + Len(conn.proxy.session)
      <4>1. ReadsTarget => id >= ic + fc
        BY <3>9, <3>12
      <4>2. id >= ic + fc => hl + id >= (hl + ic) + fc
        OBVIOUS
      <4> QED
        BY <3>3, <3>11, <3>12, <4>1, <4>2
    <3>14. conn.backend.kind = "tcp" /\ ReadsClient =>
             Len(AtTarget') >= Len(AtTarget) + Len(conn.backend.send_buffer)
      <4>1. conn.backend.kind = "tcp" /\ ReadsClient => jd >= it + ft
        BY <3>1, <3>10, <3>12
      <4>2. jd >= it + ft => gl + jd >= (gl + it) + ft
        OBVIOUS
      <4> QED
        BY <3>3, <3>11, <3>12, <4>1, <4>2
    <3> QED
      BY <3>13, <3>14
  <2> QED
    BY <2>1, <2>2 DEF Next, Server, PollTimesOut, Finished
<1> QED
  BY <1>1, FlowHolds, PTL DEF Spec, Backpressure

-----------------------------------------------------------------------------
(* What is left when a side closes.  As above, first what each operator    *)
(* keeps of one connection's record, then the invariant of the model.      *)

\* Everything the client has sent is with the target, or waits for its socket.
AllUp(c, g, k) == c.proxy.stream.in = <<>> /\ g \o Held(c.backend) = Count(k)

\* Everything the target has sent is with the client, or waits for its socket.
AllDown(c, h, n) ==
  c.backend.stream.in = <<>> /\ h \o (c.proxy.stream.out \o c.proxy.session) = Count(n)

\* The handshakes, and a connection that has no target yet.
Pending(c, req) ==
  /\ c.proxy.tls # "finish"
  /\ c.proxy.tls # "up" => c.proxy.stream.in = <<>>
  /\ c.status = "HandShake" \/ req # "domain" => c.dns = "none"
  /\ c.backend.kind = "none" =>
       /\ c.proxy.session = <<>> /\ c.proxy.status # "PeerClosed"
       /\ c.status = "DnsWait" /\ c.target_addr => is_shutdown(c.proxy.status) /\ c.dns = "none"
       /\ is_shutdown(c.proxy.status) =>
            \/ c.proxy.stream.in = <<>>
            \/ req = "domain" /\ c.dns = "none" /\ c.status # "HandShake"

\* As long as the target does not end, only the client's end closes its side,
\* and not before the target has been given everything.
UpClosing(c, g, k) ==
  c.backend.kind = "tcp" =>
    /\ ~c.backend.stream.up => c.backend.stream.end = "open"
    /\ c.backend.stream.end = "open" =>
         /\ c.backend.status # "Established" => is_shutdown(c.proxy.status)
         /\ is_shutdown(c.proxy.status) /\ c.proxy.stream.end \in {"open", "fin"} => AllUp(c, g, k)
         /\ is_shutdown(c.backend.status) => c.backend.send_buffer = <<>>
         /\ c.proxy.status # "PeerClosed"

\* The same towards the client.
DownClosing(c, h, n) ==
  /\ c.backend.status # "PeerClosed"
  /\ c.proxy.status = "PeerClosed" => is_shutdown(c.backend.status)
  /\ is_shutdown(c.proxy.status) => is_shutdown(c.backend.status) /\ c.proxy.session = <<>>
  /\ is_shutdown(c.backend.status) /\ c.backend.stream.end = "fin" => AllDown(c, h, n)

\* x: the connection was shut down without a target and may get one all the
\* same, from a stale event.
Tidy(c, g, k, h, n, req, x) ==
  /\ Pending(c, req) /\ UpClosing(c, g, k)
  /\ c.backend.kind = "tcp" /\ c.proxy.stream.end = "open" =>
       DownClosing(c, h, n) \/ (x /\ is_shutdown(c.proxy.status) /\ c.backend.stream.end = "open")
  /\ c.backend.kind = "none" /\ is_shutdown(c.proxy.status) /\ c.proxy.stream.end = "open" =>
       x \/ c.dns = "none"

\* What a handler does not undo.
Lasts(c, d) ==
  /\ d.proxy.stream.end = c.proxy.stream.end
  /\ c.proxy.status = "Deregistered" => d.proxy.status = "Deregistered"
  /\ c.backend.kind # "none" =>
       /\ d.backend.kind = c.backend.kind
       /\ c.backend.status = "Deregistered" => d.backend.status = "Deregistered"
  /\ c.backend.kind = "none" /\ c.proxy.stream.in = <<>> =>
       d.backend.kind = "none" /\ d.proxy.stream.in = <<>>
  /\ c.dns # "none" => d.dns = c.dns

LEMMA LastsTwice ==
  ASSUME NEW c, NEW d, NEW e, Lasts(c, d), Lasts(d, e)
  PROVE  Lasts(c, e)
BY DEF Lasts

\* Nothing but the states of the two sides differs.
StatesDiffer(c, d) ==
  /\ d.status = c.status /\ d.target_addr = c.target_addr /\ d.dns = c.dns
  /\ d.proxy.stream = c.proxy.stream /\ d.proxy.session = c.proxy.session
  /\ d.proxy.tls = c.proxy.tls
  /\ d.backend.kind = c.backend.kind /\ d.backend.stream = c.backend.stream
  /\ d.backend.send_buffer = c.backend.send_buffer

LEMMA SameData ==
  ASSUME NEW c, NEW d, StatesDiffer(c, d), NEW g, NEW k, NEW h, NEW n
  PROVE  AllUp(d, g, k) = AllUp(c, g, k) /\ AllDown(d, h, n) = AllDown(c, h, n)
BY DEF StatesDiffer, AllUp, AllDown, Held

LEMMA PropagatesTidy ==
  ASSUME NEW c \in Connections, Sane(c), NEW g, NEW k, NEW h, NEW n, NEW req, NEW x,
         Tidy(c, g, k, h, n, req, x), NEW d, d = PropagateClose(c)
  PROVE  Tidy(d, g, k, h, n, req, x) /\ Lasts(c, d)
<1>1. CASE c.backend.kind = "none"
  <2>1. d = c
    BY <1>1 DEF PropagateClose
  <2> QED
    BY <2>1 DEF Lasts
<1>2. CASE c.backend.kind # "none"
  <2>1. c.proxy.status \in Statuses /\ c.backend.status \in Statuses
    BY ConnectionParts
  <2>2. PICK ps, bs : /\ ps = IF is_shutdown(c.backend.status) THEN peer_closed(c.proxy.status)
                                ELSE c.proxy.status
                      /\ bs = IF is_shutdown(c.proxy.status) THEN peer_closed(c.backend.status)
                                ELSE c.backend.status
    OBVIOUS
  <2>3. d = [c EXCEPT !.proxy = [c.proxy EXCEPT !.status = ps],
                      !.backend = [c.backend EXCEPT !.status = bs]]
    BY <1>2, <2>2 DEF PropagateClose, Connections
  <2>4. ps \in Statuses /\ bs \in Statuses
    BY <2>1, <2>2 DEF Statuses, peer_closed
  <2>5. StatesDiffer(c, d) /\ d.proxy.status = ps /\ d.backend.status = bs
    BY ONLY c \in Connections, <2>3, <2>4 DEF StatesDiffer, Connections, TlsConns, Backends
  <2>6. AllUp(d, g, k) = AllUp(c, g, k) /\ AllDown(d, h, n) = AllDown(c, h, n)
    BY <2>5, SameData
  <2>7. /\ is_shutdown(ps) <=> is_shutdown(c.proxy.status)
        /\ is_shutdown(bs) <=> is_shutdown(c.backend.status)
        /\ is_shutdown(c.proxy.status) => ps = c.proxy.status
        /\ is_shutdown(c.backend.status) => bs = c.backend.status
        /\ ~is_shutdown(c.backend.status) => ps = c.proxy.status
        /\ ~is_shutdown(c.proxy.status) => bs = c.backend.status
        /\ "Deregistered" = c.proxy.status => is_shutdown(c.proxy.status)
        /\ "Deregistered" = c.backend.status => is_shutdown(c.backend.status)
        /\ is_shutdown(c.backend.status) => c.backend.status # "Established"
    BY <2>1, <2>2 DEF Statuses, peer_closed, is_shutdown
  <2>8. UpClosing(d, g, k)
    BY <2>5, <2>6, <2>7 DEF Tidy, UpClosing, StatesDiffer
  <2>9. DownClosing(c, h, n) => DownClosing(d, h, n)
    BY <2>5, <2>6, <2>7 DEF DownClosing, StatesDiffer
  <2>10. Pending(d, req)
    BY <1>2, <2>5 DEF Tidy, Pending, StatesDiffer
  <2> QED
    BY <1>2, <2>5, <2>7, <2>8, <2>9, <2>10 DEF Tidy, Lasts, StatesDiffer
<1> QED
  BY <1>1, <1>2

LEMMA ChecksTidy ==
  ASSUME NEW c \in Connections, Sane(c), NEW g, NEW k, NEW h, NEW n, NEW req, NEW x,
         Tidy(c, g, k, h, n, req, x), NEW d, d = CheckBoth(c)
  PROVE  /\ Tidy(d, g, k, h, n, req, x) /\ Lasts(c, d)
         /\ d.backend.kind = "none" /\ is_shutdown(d.proxy.status) => destroyed(d)
<1>1. c.proxy.status \in Statuses /\ c.backend.status \in Statuses
  BY ConnectionParts
<1>2. PICK f, e : f = ~wants_write(c.proxy) /\ e = finish_send(c.backend)
  OBVIOUS
<1>3. PICK ps, bs : /\ ps = check_status(c.proxy.status, f)
                    /\ bs = IF c.backend.kind = "none" THEN c.backend.status
                            ELSE check_status(c.backend.status, e)
  OBVIOUS
<1>4. c.backend = [c.backend EXCEPT !.status = c.backend.status]
  BY ConnectionParts DEF Backends
<1>5. d = [c EXCEPT !.proxy = [c.proxy EXCEPT !.status = ps],
                    !.backend = [c.backend EXCEPT !.status = bs]]
  BY <1>2, <1>3, <1>4 DEF CheckBoth, tls_check_status, backend_check_status
<1>6. ps \in Statuses /\ bs \in Statuses
  BY <1>1, <1>3 DEF Statuses, check_status
<1>7. StatesDiffer(c, d) /\ d.proxy.status = ps /\ d.backend.status = bs
  BY ONLY c \in Connections, <1>5, <1>6 DEF StatesDiffer, Connections, TlsConns, Backends
<1>8. AllUp(d, g, k) = AllUp(c, g, k) /\ AllDown(d, h, n) = AllDown(c, h, n)
  BY <1>7, SameData
<1>9. /\ is_shutdown(ps) => ps = "Deregistered"
      /\ is_shutdown(c.proxy.status) => is_shutdown(ps)
      /\ is_shutdown(ps) => is_shutdown(c.proxy.status) \/ (c.proxy.status = "PeerClosed" /\ f)
      /\ ps = "PeerClosed" => c.proxy.status = "PeerClosed"
      /\ c.proxy.status = "Deregistered" => is_shutdown(ps)
  BY <1>1, <1>3 DEF Statuses, check_status, is_shutdown
<1>10. /\ is_shutdown(c.backend.status) => is_shutdown(bs)
       /\ is_shutdown(bs) => is_shutdown(c.backend.status) \/ (c.backend.status = "PeerClosed" /\ e)
       /\ bs = "PeerClosed" => c.backend.status = "PeerClosed"
       /\ bs # "Established" => c.backend.status # "Established"
       /\ c.backend.status = "Deregistered" => bs = "Deregistered"
  BY <1>1, <1>3 DEF Statuses, check_status, is_shutdown
<1>11. /\ f => c.proxy.session = <<>>
       /\ c.backend.kind = "tcp" /\ e => c.backend.send_buffer = <<>>
  BY <1>2 DEF wants_write, finish_send
<1>12. UpClosing(d, g, k)
  BY <1>7, <1>8, <1>9, <1>10, <1>11 DEF Tidy, UpClosing, StatesDiffer
<1>13. DownClosing(c, h, n) => DownClosing(d, h, n)
  BY <1>7, <1>8, <1>9, <1>10, <1>11 DEF DownClosing, StatesDiffer
<1>14. Pending(d, req)
  BY <1>7, <1>9 DEF Tidy, Pending, StatesDiffer
<1>15. Lasts(c, d)
  BY <1>7, <1>9, <1>10 DEF Lasts, StatesDiffer
<1>16. d.backend.kind = "none" /\ is_shutdown(d.proxy.status) => destroyed(d)
  BY <1>7, <1>9 DEF destroyed
<1>17. Tidy(d, g, k, h, n, req, x)
  BY <1>7, <1>9, <1>12, <1>13, <1>14 DEF Tidy, StatesDiffer, Pending
<1> QED
  BY <1>15, <1>16, <1>17

\* Flushing towards the client.
LEMMA FlushesTidy ==
  ASSUME NEW c \in Connections, Sane(c), NEW g, NEW k, NEW h, NEW n, NEW req, NEW x,
         Tidy(c, g, k, h, n, req, x),
         NEW d, d = [c EXCEPT !.proxy = tls_do_send(tls_established(c.proxy))]
  PROVE  Tidy(d, g, k, h, n, req, x) /\ Lasts(c, d)
<1>1. PICK p \in TlsConns : p = c.proxy /\ p.status \in Statuses /\ Len(p.stream.out) <= Cap
                              /\ p.session \in Chunks
  BY ConnectionParts DEF Sane
<1>2. PICK q : q = tls_established(p)
  OBVIOUS
<1>3. /\ q \in TlsConns /\ q.status = established(p.status) /\ q.stream = p.stream
      /\ q.session = p.session /\ q.side = p.side /\ q.tls = p.tls
  BY <1>1, <1>2, LifeCycle DEF TlsConns, tls_established
<1>4. PICK s : s = tls_do_send(q) /\ Flush(q, s)
  <2>1. Len(q.stream.out) <= Cap
    BY <1>1, <1>3
  <2> QED
    BY <1>3, <2>1, TlsSends, Zenon
<1>5. /\ s \in TlsConns
      /\ s.stream.in = p.stream.in /\ s.stream.end = p.stream.end
      /\ s.stream.out \o s.session = p.stream.out \o p.session
      /\ s.status \in {q.status, shutdown(q.status)}
      /\ s.status = q.status \/ p.stream.end = "rst"
      /\ is_shutdown(q.status) => s.session = p.session
      /\ Len(s.session) <= Len(p.session)
      /\ s.tls = p.tls \/ (p.tls = "answer" /\ s.tls = "sent") \/ (p.tls = "finish" /\ s.tls = "up")
      /\ ~is_shutdown(q.status) /\ is_shutdown(s.status) => p.session # <<>> \/ p.tls \in {"answer", "finish"}
  BY <1>3, <1>4 DEF Flush, wants_write
<1>6. /\ is_shutdown(p.status) <=> is_shutdown(q.status)
      /\ is_shutdown(p.status) => s.status = p.status
      /\ is_shutdown(s.status) => is_shutdown(p.status) \/ p.stream.end = "rst"
      /\ s.status = "PeerClosed" => p.status = "PeerClosed"
      /\ p.status = "Deregistered" => is_shutdown(p.status)
  BY <1>1, <1>3, <1>5 DEF established, shutdown, is_shutdown, Statuses
<1>7. p.session = <<>> => s.session = <<>>
  <2>1. s.session \in Chunks
    BY <1>5 DEF TlsConns
  <2> QED
    BY <1>5, <2>1, NothingJoined
<1>8. /\ d.proxy = s /\ d.backend = c.backend /\ d.status = c.status
      /\ d.target_addr = c.target_addr /\ d.dns = c.dns
  <2>1. d = [c EXCEPT !.proxy = s]
    BY <1>1, <1>2, <1>4
  <2>2. s \in TlsConns
    BY <1>5
  <2> QED
    BY ONLY c \in Connections, <2>1, <2>2, WithProxy
<1>9. AllUp(d, g, k) = AllUp(c, g, k) /\ AllDown(d, h, n) = AllDown(c, h, n)
  BY <1>1, <1>5, <1>8 DEF AllUp, AllDown
<1>10. UpClosing(d, g, k)
  BY <1>1, <1>5, <1>6, <1>8, <1>9 DEF Tidy, UpClosing
<1>11. c.proxy.stream.end = "open" /\ DownClosing(c, h, n) => DownClosing(d, h, n)
  BY <1>1, <1>5, <1>6, <1>8, <1>9 DEF DownClosing
<1>12. Pending(d, req)
  BY <1>1, <1>5, <1>6, <1>7, <1>8 DEF Tidy, Pending
<1>13. Lasts(c, d)
  BY <1>1, <1>5, <1>6, <1>8 DEF Lasts
<1> QED
  BY <1>1, <1>5, <1>6, <1>8, <1>10, <1>11, <1>12, <1>13 DEF Tidy

\* Everything that was not thrown away is on its way.
LEMMA AllOnTheWay ==
  ASSUME NEW c \in Connections, NEW g \in Chunks, NEW m, NEW h \in Chunks, NEW n, NEW req,
         Sound(c, g, m, h, n, req), c.backend.kind # "none"
  PROVE  /\ alive(c.backend.status) /\ c.proxy.stream.end # "bad" /\ c.proxy.stream.in = <<>>
              => AllUp(c, g, PayloadOf(m, req))
         /\ ~is_shutdown(c.proxy.status) /\ c.backend.stream.in = <<>> => AllDown(c, h, n)
<1>1. ASSUME alive(c.backend.status), c.proxy.stream.end # "bad", c.proxy.stream.in = <<>>
      PROVE  AllUp(c, g, PayloadOf(m, req))
  <2>1. PICK b \in Chunks : b = Held(c.backend)
    BY ConnectionParts, Joined DEF Held
  <2>2. PICK t \in Chunks : t = g \o b
    BY Joined
  <2>3. c.data = <<>> /\ NoHeader(c.proxy.stream.in) = <<>>
    BY <1>1 DEF Sound, Upstream, Phase, NoHeader
  <2>4. (g \o (b \o <<>>)) \o <<>> = Count(PayloadOf(m, req))
    BY <1>1, <2>1, <2>3 DEF Sound, Upstream, UpFlow, Intact, Forwarded
  <2>5. b \o <<>> = b /\ t \o <<>> = t
    BY NothingJoined
  <2> QED
    BY <1>1, <2>1, <2>2, <2>4, <2>5 DEF AllUp
<1>2. ASSUME ~is_shutdown(c.proxy.status), c.backend.stream.in = <<>>
      PROVE  AllDown(c, h, n)
  <2>1. PICK b \in Chunks : b = c.proxy.stream.out \o c.proxy.session
    BY ConnectionParts, Joined
  <2>2. PICK t \in Chunks : t = h \o b
    BY Joined
  <2>3. t \o <<>> = Count(n)
    BY <1>2, <2>1, <2>2 DEF Sound, Downstream, DownFlow
  <2>4. t \o <<>> = t
    BY NothingJoined
  <2> QED
    BY <1>2, <2>1, <2>2, <2>3, <2>4 DEF AllDown
<1> QED
  BY <1>1, <1>2

\* Reading the target while the client keeps up.
LEMMA TargetReadTidy ==
  ASSUME NEW c \in Connections, NEW g \in Chunks, NEW m \in Nat, NEW h \in Chunks, NEW n \in Nat,
         NEW req \in RequestKinds, NEW k, NEW x, k = PayloadOf(m, req),
         Sound(c, g, m, h, n, req), Tidy(c, g, k, h, n, req, x),
         c.backend.kind # "none", tls_writable(c.proxy), NEW d, d = backend_do_read(c)
  PROVE  Tidy(d, g, k, h, n, req, x) /\ Lasts(c, d)
<1>1. PICK p \in TlsConns, b \in Backends : p = c.proxy /\ b = c.backend
  BY ConnectionParts
<1>2. /\ p.status \in Statuses /\ b.status \in Statuses /\ b.stream.in \in Chunks
      /\ b.stream \in Streams
      /\ p.side = "server" /\ Len(p.stream.out) <= Cap /\ ~is_shutdown(p.status)
  BY <1>1, ConnectionParts DEF Sound, Sane, tls_writable, alive, is_shutdown
<1>3. PICK y, s : y \in Chunks /\ y = b.stream.in /\ s = tls_do_send(write_session(p, y))
  BY <1>2
<1>4. Pushed(p, y, s)
  BY <1>1, <1>2, <1>3, TlsPushes, Zenon
<1>5. /\ s \in TlsConns
      /\ s.stream.in = p.stream.in /\ s.stream.end = p.stream.end
      /\ s.status \in {p.status, shutdown(p.status)}
      /\ s.status = p.status \/ p.stream.end = "rst"
      /\ s.tls = p.tls \/ (p.tls = "answer" /\ s.tls = "sent") \/ (p.tls = "finish" /\ s.tls = "up")
  BY <1>4 DEF Pushed
<1>6. PICK r : r = TcpDrained(b)
  OBVIOUS
<1>7. /\ r \in Backends /\ r.kind = b.kind /\ r.send_buffer = b.send_buffer
      /\ r.stream.in = <<>> /\ r.stream.out = b.stream.out /\ r.stream.end = b.stream.end
      /\ r.stream.up = b.stream.up
      /\ r.status = IF b.stream.end # "open" THEN shutdown(b.status) ELSE b.status
  <2>1. shutdown(b.status) \in Statuses
    BY <1>2, LifeCycle
  <2> QED
    BY <1>2, <1>6, <2>1, NothingJoined DEF TcpDrained, Backends, Streams
<1>8. d = [c EXCEPT !.proxy = s, !.backend = r]
  BY <1>1, <1>3, <1>6 DEF backend_do_read
<1>9. /\ d.proxy = s /\ d.backend = r /\ d.status = c.status
      /\ d.target_addr = c.target_addr /\ d.dns = c.dns
  BY ONLY c \in Connections, <1>5, <1>7, <1>8 DEF Connections
<1>10. d \in Connections /\ Sound(d, g, m, h, n, req)
  BY ReadsBackend, DownOnly DEF Sound
<1>11. /\ is_shutdown(s.status) => p.stream.end = "rst"
       /\ s.status = "PeerClosed" => p.status = "PeerClosed"
       /\ p.status # "Deregistered"
       /\ is_shutdown(b.status) => r.status = b.status
       /\ r.status = "PeerClosed" => b.status = "PeerClosed"
       /\ b.status = "Deregistered" => is_shutdown(b.status)
       /\ is_shutdown(b.status) => b.status # "Established"
  BY <1>2, <1>5, <1>7 DEF shutdown, is_shutdown, Statuses
<1>12. UpClosing(d, g, k)
  BY <1>1, <1>2, <1>5, <1>7, <1>9, <1>11 DEF Tidy, UpClosing
<1>13. ~is_shutdown(d.proxy.status) => AllDown(d, h, n)
  BY <1>1, <1>7, <1>9, <1>10, AllOnTheWay
<1>14. c.backend.kind = "tcp" /\ c.proxy.stream.end = "open" => DownClosing(d, h, n)
  BY <1>1, <1>2, <1>5, <1>7, <1>9, <1>11, <1>13 DEF Tidy, DownClosing
<1>15. Pending(d, req)
  BY <1>1, <1>5, <1>7, <1>9 DEF Tidy, Pending
<1>16. Lasts(c, d)
  BY <1>1, <1>5, <1>7, <1>9, <1>11 DEF Lasts
<1> QED
  BY <1>1, <1>5, <1>7, <1>9, <1>12, <1>14, <1>15, <1>16 DEF Tidy

\* tcp_send that does not fail keeps all; none fails on an empty buffer.
LEMMA TcpKeeps ==
  ASSUME NEW b \in Backends, b.kind # "udp", BackendFits(b), NEW buffer \in Chunks,
         ~(b.send_buffer \o buffer # <<>> /\ (is_shutdown(b.status) \/ b.stream.end = "rst"))
  PROVE  /\ tcp_send(b, buffer).status = b.status
         /\ Held(tcp_send(b, buffer)) = Held(b) \o buffer
<1>1. PICK out, sb, data : out = b.stream.out /\ sb = b.send_buffer /\ data = sb \o buffer
  OBVIOUS
<1>2. out \in Chunks /\ sb \in Chunks /\ b.stream \in Streams /\ Len(b.stream.out) <= Cap
  BY <1>1 DEF Backends, Streams, BackendFits
<1>3. data \in Chunks /\ out \o data = (out \o sb) \o buffer
  <2>1. Queued(out, sb, buffer, data)
    BY <1>1, <1>2, HeldMoves, Zenon
  <2> QED
    BY <2>1 DEF Queued
<1>4. PICK w : w = WriteSome(b.stream, data, Taken(b.stream, data))
  OBVIOUS
<1>5. Wrote(b.stream, data, w)
  BY <1>2, <1>3, <1>4, Writes, Zenon
<1>6. tcp_send(b, buffer) = [b EXCEPT !.send_buffer = Rest(data, Taken(b.stream, data)), !.stream = w]
  BY <1>1, <1>4 DEF tcp_send
<1>7. /\ tcp_send(b, buffer).status = b.status /\ tcp_send(b, buffer).stream = w
      /\ tcp_send(b, buffer).send_buffer = Rest(data, Taken(b.stream, data))
  BY <1>6 DEF Backends
<1>8. w.out \o Rest(data, Taken(b.stream, data)) = out \o data
  BY <1>1, <1>5 DEF Wrote
<1> QED
  BY <1>1, <1>3, <1>7, <1>8 DEF Held

\* A dispatch changes a state only to shut the backend down.
LEMMA DispatchStatus ==
  ASSUME NEW b \in Backends, NEW buffer
  PROVE  backend_dispatch(b, buffer).status \in {b.status, shutdown(b.status)}
<1>1. tcp_send(b, buffer).status \in {b.status, shutdown(b.status)}
  BY DEF tcp_send, Backends
<1>2. udp_dispatch(b, buffer).status \in {b.status, shutdown(b.status)}
  BY DEF udp_dispatch, Backends
<1> QED
  BY <1>1, <1>2 DEF backend_dispatch, tcp_dispatch

\* Flushing towards the target.
LEMMA TargetFlushTidy ==
  ASSUME NEW c \in Connections, Sane(c), NEW g \in Chunks, NEW k, NEW h, NEW n, NEW req, NEW x,
         Tidy(c, g, k, h, n, req, x), c.backend.kind # "none",
         NEW d, d = [c EXCEPT !.backend = backend_dispatch(c.backend, <<>>)]
  PROVE  Tidy(d, g, k, h, n, req, x) /\ Lasts(c, d)
<1>1. PICK b \in Backends : b = c.backend /\ b.status \in Statuses /\ BackendFits(b)
                              /\ b.kind # "none" /\ b.send_buffer \in Chunks
                              /\ Held(b) \in Chunks
  BY ConnectionParts, Joined DEF Sane, Held
<1>2. PICK e \in Chunks : e = <<>> /\ Len(e) = 0 /\ b.send_buffer \o e = b.send_buffer
                            /\ Held(b) \o e = Held(b)
  BY <1>1, NothingJoined
<1>3. PICK r : r = backend_dispatch(b, e)
  OBVIOUS
<1>4. Passes(b, e, r)
  BY <1>1, <1>3, BackendPasses, Zenon
<1>5. /\ r \in Backends /\ r.kind = b.kind
      /\ r.stream.in = b.stream.in /\ r.stream.end = b.stream.end /\ r.stream.up = b.stream.up
      /\ Len(r.send_buffer) <= Len(b.send_buffer) + Len(e)
  BY <1>4 DEF Passes
<1>6. r.status \in {b.status, shutdown(b.status)}
  BY <1>3, DispatchStatus
<1>7. b.kind = "tcp" /\ ~(b.send_buffer # <<>> /\ (is_shutdown(b.status) \/ b.stream.end = "rst"))
        => r.status = b.status /\ Held(r) = Held(b)
  BY <1>1, <1>2, <1>3, TcpKeeps DEF backend_dispatch, tcp_dispatch
<1>8. b.send_buffer = <<>> => r.send_buffer = <<>>
  <2>1. r.send_buffer \in Chunks
    BY <1>5 DEF Backends
  <2> QED
    BY <1>2, <1>5, <2>1, NothingJoined
<1>9. /\ d.backend = r /\ d.proxy = c.proxy /\ d.status = c.status
      /\ d.target_addr = c.target_addr /\ d.dns = c.dns
  BY <1>1, <1>2, <1>3, <1>5, WithBackend
<1>10. /\ is_shutdown(b.status) => r.status = b.status
       /\ r.status = "PeerClosed" => b.status = "PeerClosed"
       /\ b.status = "Deregistered" => is_shutdown(b.status)
       /\ is_shutdown(b.status) => b.status # "Established"
  BY <1>1, <1>6 DEF shutdown, is_shutdown, Statuses
<1>11. /\ Held(r) = Held(b) => AllUp(d, g, k) = AllUp(c, g, k)
       /\ AllDown(d, h, n) = AllDown(c, h, n)
  BY <1>1, <1>5, <1>9 DEF AllUp, AllDown
<1>12. UpClosing(d, g, k)
  BY <1>1, <1>5, <1>7, <1>8, <1>9, <1>10, <1>11 DEF Tidy, UpClosing
<1>13. c.backend.kind = "tcp" /\ DownClosing(c, h, n) => DownClosing(d, h, n)
  <2>1. b.kind = "tcp" /\ b.stream.end = "fin" /\ is_shutdown(r.status) => is_shutdown(b.status)
    BY <1>7, <1>10
  <2> QED
    BY <1>1, <1>5, <1>9, <1>10, <1>11, <2>1 DEF DownClosing
<1>14. Pending(d, req)
  BY <1>1, <1>5, <1>9 DEF Tidy, Pending
<1>15. Lasts(c, d)
  BY <1>1, <1>5, <1>9, <1>10 DEF Lasts
<1> QED
  BY <1>1, <1>5, <1>9, <1>12, <1>13, <1>14, <1>15 DEF Tidy

\* Reading the client while the target keeps up.
LEMMA ClientReadTidy ==
  ASSUME NEW c \in Connections, NEW g \in Chunks, NEW m \in Nat, NEW h \in Chunks, NEW n \in Nat,
         NEW req \in RequestKinds, NEW o \in Outcomes, NEW k, NEW x, k = PayloadOf(m, req),
         Sound(c, g, m, h, n, req), Tidy(c, g, k, h, n, req, x),
         c.backend.kind # "none", backend_writable(c.backend),
         NEW d, d = try_read_proxy(c, o, req)
  PROVE  Tidy(d, g, k, h, n, req, x) /\ Lasts(c, d)
<1>1. PICK p \in TlsConns, b \in Backends : p = c.proxy /\ b = c.backend
  BY ConnectionParts
<1>2. /\ p.status \in Statuses /\ b.status \in Statuses /\ alive(b.status) /\ b.kind # "none"
      /\ p.stream.in \in Chunks /\ b.send_buffer \in Chunks /\ BackendFits(b)
      /\ p.side = "server" /\ b.kind = "tcp" => b.send_buffer = <<>>
  BY <1>1, ConnectionParts DEF Sound, Sane, backend_writable
<1>3. PICK s : s = tls_do_read(p)
  OBVIOUS
<1>4. /\ s \in TlsConns /\ s.session = p.session /\ s.stream = [p.stream EXCEPT !.in = <<>>]
      /\ s.tls = IF p.tls = "hello" THEN "answer" ELSE p.tls
      /\ s.status = IF p.stream.end # "open" THEN shutdown(p.status) ELSE p.status
  BY <1>1, <1>3, TlsReads DEF Sound, Sane
<1>5. s.stream.in = <<>> /\ s.stream.end = p.stream.end /\ s.stream.out = p.stream.out
  BY <1>1, <1>4 DEF TlsConns, Streams
<1>6. PICK y \in Chunks : y = tls_read_data(p)
  BY <1>2, NothingJoined DEF tls_read_data
<1>7. PICK r : r = IF y = <<>> THEN b ELSE backend_dispatch(b, y)
  OBVIOUS
<1>8. /\ r \in Backends /\ r.kind = b.kind
      /\ r.stream.in = b.stream.in /\ r.stream.end = b.stream.end /\ r.stream.up = b.stream.up
  <2>1. y # <<>> => Passes(b, y, r)
    BY <1>2, <1>7, BackendPasses
  <2> QED
    BY <1>7, <2>1 DEF Passes
<1>9. r.status \in {b.status, shutdown(b.status)}
  BY <1>7, DispatchStatus
<1>10. b.kind = "tcp" /\ b.stream.end # "rst" => r.status = b.status
  <2>1. ~is_shutdown(b.status)
    BY <1>2 DEF alive, is_shutdown
  <2> QED
    BY <1>2, <1>7, <2>1, TcpKeeps DEF backend_dispatch, tcp_dispatch
<1>11. /\ d.proxy = s /\ d.backend = r /\ d.status = c.status
       /\ d.target_addr = c.target_addr /\ d.dns = c.dns
  <2>1. PICK e : e = [c EXCEPT !.proxy = s]
    OBVIOUS
  <2>2. e \in Connections /\ e.status = c.status /\ e.backend = c.backend
    BY <1>4, <2>1, WithProxy
  <2>3. c.status \in Forwarding
    BY DEF Sound, Upstream, Phase
  <2>4. dispatch(e, y, o, req) = [e EXCEPT !.backend = backend_dispatch(b, y)]
    BY <1>1, <2>2, <2>3 DEF dispatch, Forwarding
  <2>5. d = IF y = <<>> THEN e ELSE dispatch(e, y, o, req)
    BY <1>1, <1>3, <1>6, <2>1 DEF try_read_proxy
  <2>6. /\ e.proxy = s /\ e.target_addr = c.target_addr /\ e.dns = c.dns
    BY <1>4, <2>1, WithProxy
  <2>7. CASE y = <<>>
    BY <1>1, <1>7, <2>2, <2>5, <2>6, <2>7
  <2>8. CASE y # <<>>
    <3>1. d = [e EXCEPT !.backend = r]
      BY <1>7, <2>4, <2>5, <2>8
    <3> QED
      BY <1>8, <2>2, <2>6, <3>1, WithBackend
  <2> QED
    BY <2>7, <2>8
<1>12. d \in Connections /\ Sound(d, g, m, h, n, req)
  BY ReadsProxy, UpOnly DEF Sound, Sane
<1>13. /\ is_shutdown(p.status) => s.status = p.status
       /\ s.status = "PeerClosed" => p.status = "PeerClosed"
       /\ p.status = "Deregistered" => is_shutdown(p.status)
       /\ is_shutdown(s.status) => is_shutdown(p.status) \/ p.stream.end # "open"
       /\ ~is_shutdown(b.status) /\ b.status # "Deregistered"
       /\ r.status = "PeerClosed" => b.status = "PeerClosed"
  BY <1>2, <1>4, <1>9 DEF shutdown, is_shutdown, alive, Statuses
<1>14. alive(r.status) /\ p.stream.end # "bad" => AllUp(d, g, k)
  BY <1>1, <1>2, <1>5, <1>8, <1>11, <1>12, AllOnTheWay
<1>15. UpClosing(d, g, k)
  BY <1>1, <1>2, <1>5, <1>8, <1>10, <1>11, <1>13, <1>14 DEF Tidy, UpClosing
<1>16. c.backend.kind = "tcp" /\ c.proxy.stream.end = "open" /\ DownClosing(c, h, n)
         => DownClosing(d, h, n)
  BY <1>1, <1>4, <1>8, <1>10, <1>11, <1>13 DEF DownClosing
<1>17. Pending(d, req)
  BY <1>1, <1>2, <1>4, <1>5, <1>8, <1>11 DEF Tidy, Pending
<1>18. Lasts(c, d)
  BY <1>1, <1>2, <1>5, <1>8, <1>11, <1>13 DEF Lasts
<1> QED
  BY <1>1, <1>2, <1>4, <1>5, <1>8, <1>11, <1>13, <1>15, <1>16, <1>17, <1>18 DEF Tidy

\* d is h after dispatch in DnsWait: the data is cached, the target cannot be
\* reached, or there is a target now.
Placed(h, d) ==
  /\ d.dns = h.dns /\ d.target_addr = h.target_addr /\ d.status # "HandShake"
  /\ d.proxy.stream = h.proxy.stream /\ d.proxy.session = h.proxy.session
  /\ d.proxy.tls = h.proxy.tls
  /\ \/ /\ d.backend.kind = "none" /\ d.proxy.status = h.proxy.status
        /\ ~h.target_addr /\ h.command = "CONNECT"
     \/ /\ d.backend.kind = "none" /\ d.proxy.status = shutdown(h.proxy.status)
        /\ h.target_addr \/ h.command = "UDP_ASSOCIATE"
     \/ /\ d.backend.kind = "tcp" /\ d.proxy.status = h.proxy.status
        /\ d.backend.status = "Established" /\ d.backend.stream.end = "open"
     \/ d.backend.kind = "udp" /\ d.proxy.status = h.proxy.status

LEMMA ShutPlaces ==
  ASSUME NEW h \in Connections, Sane(h), NEW d, d = ShutdownProxy(h)
  PROVE  /\ d.dns = h.dns /\ d.target_addr = h.target_addr /\ d.status = h.status
         /\ d.proxy.stream = h.proxy.stream /\ d.proxy.session = h.proxy.session
         /\ d.proxy.tls = h.proxy.tls /\ d.backend = h.backend
         /\ d.proxy.status = shutdown(h.proxy.status)
<1>1. d.proxy.status = shutdown(h.proxy.status)
  BY ConnectionParts DEF ShutdownProxy, Connections, TlsConns
<1> QED
  BY <1>1, ProxyShut DEF UpSame, DownSame

LEMMA TcpPlaces ==
  ASSUME NEW h \in Connections, Sane(h), NEW o \in Outcomes, h.backend.kind = "none",
         h.status = "DnsWait", h.command = "CONNECT", h.target_addr,
         NEW d, d = try_setup_tcp_target(h, o)
  PROVE  Placed(h, d)
<1>1. h.data \in Chunks /\ h.backend = NoBackend
  BY ConnectionParts DEF Sane
<1>2. CASE o.setup = "ok"
  <2>1. PICK r : r = tcp_dispatch(tcp_dispatch(NewTcpBackend, h.data), <<>>)
    OBVIOUS
  <2>2. r \in Backends /\ r.kind = "tcp" /\ r.status = "Established" /\ r.stream.end = "open"
    BY <1>1, <2>1, TcpTarget
  <2>3. d = [h EXCEPT !.status = "TCPForward", !.data = <<>>, !.backend = r]
    BY <1>2, <2>1 DEF try_setup_tcp_target
  <2>4. /\ d.backend = r /\ d.proxy = h.proxy /\ d.status = "TCPForward"
        /\ d.target_addr = h.target_addr /\ d.dns = h.dns
    BY <2>2, <2>3 DEF Connections
  <2> QED
    BY <2>2, <2>4 DEF Placed
<1>3. CASE o.setup = "register"
  <2>1. PICK e : e = [h EXCEPT !.status = "TCPForward"]
    OBVIOUS
  <2>2. /\ e \in Connections /\ e.backend = h.backend /\ e.proxy = h.proxy
        /\ e.status = "TCPForward" /\ e.target_addr = h.target_addr /\ e.dns = h.dns
    BY <2>1 DEF Connections
  <2>3. Sane(e)
    BY <2>2 DEF Sane
  <2>4. d = ShutdownProxy(e)
    BY <1>3, <2>1 DEF try_setup_tcp_target
  <2>5. /\ d.dns = e.dns /\ d.target_addr = e.target_addr /\ d.status = e.status
        /\ d.proxy.stream = e.proxy.stream /\ d.proxy.session = e.proxy.session
        /\ d.proxy.tls = e.proxy.tls /\ d.backend = e.backend
        /\ d.proxy.status = shutdown(e.proxy.status)
    BY <2>2, <2>3, <2>4, ShutPlaces
  <2> QED
    BY <2>2, <2>5 DEF Placed
<1>4. CASE o.setup = "connect"
  <2>1. d = ShutdownProxy(h)
    BY <1>4 DEF try_setup_tcp_target
  <2> QED
    BY <2>1, ShutPlaces DEF Placed
<1> QED
  BY <1>2, <1>3, <1>4 DEF Outcomes

LEMMA UdpPlaces ==
  ASSUME NEW h \in Connections, Sane(h), NEW buffer \in Chunks, NEW o \in Outcomes,
         h.backend.kind = "none", h.status = "DnsWait", h.command = "UDP_ASSOCIATE",
         NEW d, d = try_setup_udp_target(h, buffer, o)
  PROVE  Placed(h, d)
<1>1. CASE o.setup = "ok"
  <2>1. PICK r : r = udp_dispatch(NewUdpBackend, buffer)
    OBVIOUS
  <2>2. r \in Backends /\ r.kind = "udp"
    BY <2>1, NewBackends, UdpPasses DEF Passes
  <2>3. d = [h EXCEPT !.status = "UDPForward", !.backend = r]
    BY <1>1, <2>1 DEF try_setup_udp_target
  <2>4. /\ d.backend = r /\ d.proxy = h.proxy /\ d.status = "UDPForward"
        /\ d.target_addr = h.target_addr /\ d.dns = h.dns
    BY <2>2, <2>3 DEF Connections
  <2> QED
    BY <2>2, <2>4 DEF Placed
<1>2. CASE o.setup = "register"
  <2>1. PICK e : e = [h EXCEPT !.status = "UDPForward"]
    OBVIOUS
  <2>2. /\ e \in Connections /\ e.backend = h.backend /\ e.proxy = h.proxy
        /\ e.status = "UDPForward" /\ e.target_addr = h.target_addr /\ e.dns = h.dns
    BY <2>1 DEF Connections
  <2>3. Sane(e)
    BY <2>2 DEF Sane
  <2>4. d = ShutdownProxy(e)
    BY <1>2, <2>1 DEF try_setup_udp_target
  <2> QED
    BY <2>2, <2>3, <2>4, ShutPlaces DEF Placed
<1>3. CASE o.setup = "connect"
  <2>1. d = ShutdownProxy(h)
    BY <1>3 DEF try_setup_udp_target
  <2> QED
    BY <2>1, ShutPlaces DEF Placed
<1> QED
  BY <1>1, <1>2, <1>3 DEF Outcomes

LEMMA WaitingPlaces ==
  ASSUME NEW h \in Connections, Sane(h), NEW buffer \in Chunks, NEW o \in Outcomes,
         h.backend.kind = "none", h.status = "DnsWait",
         NEW d, d = DispatchWaiting(h, buffer, o)
  PROVE  Placed(h, d)
<1>1. CASE h.command = "UDP_ASSOCIATE"
  BY <1>1, UdpPlaces DEF DispatchWaiting
<1>2. CASE h.command = "CONNECT"
  <2>1. PICK e : e = [h EXCEPT !.data = h.data \o buffer]
    OBVIOUS
  <2>2. h.data \o buffer \in Chunks
    BY ConnectionParts, Joined
  <2>3. /\ e \in Connections /\ e.backend = h.backend /\ e.proxy = h.proxy
        /\ e.target_addr = h.target_addr /\ e.status = h.status /\ e.command = h.command
        /\ e.dns = h.dns
    BY <2>1, <2>2 DEF Connections
  <2>4. Sane(e)
    BY <2>3 DEF Sane
  <2>5. d = IF h.target_addr THEN try_setup_tcp_target(e, o) ELSE e
    BY <1>2, <2>1 DEF DispatchWaiting
  <2>6. h.target_addr => Placed(e, d)
    BY <1>2, <2>3, <2>4, <2>5, TcpPlaces
  <2> QED
    BY <1>2, <2>3, <2>5, <2>6 DEF Placed
<1> QED
  BY <1>1, <1>2 DEF Connections

\* What a connection in DnsWait is like before it dispatches.
Ready(h, req, x) ==
  /\ h.proxy.tls # "finish" /\ (h.proxy.tls # "up" => h.proxy.stream.in = <<>>)
  /\ req # "domain" => h.dns = "none"
  /\ h.proxy.session = <<>> /\ h.proxy.status # "PeerClosed"
  /\ h.target_addr \/ h.command = "UDP_ASSOCIATE" => h.dns = "none"
  /\ h.proxy.stream.in = <<>> \/ (req = "domain" /\ h.dns = "none")
  /\ is_shutdown(h.proxy.status) =>
       h.proxy.stream.in = <<>> /\ (h.proxy.stream.end = "open" => x)

LEMMA PlacedTidy ==
  ASSUME NEW h \in Connections, NEW d \in Connections, NEW g \in Chunks, NEW m \in Nat,
         NEW r \in Chunks, NEW n \in Nat, NEW req \in RequestKinds, NEW x,
         Ready(h, req, x), Placed(h, d), Sound(d, g, m, r, n, req)
  PROVE  Tidy(d, g, PayloadOf(m, req), r, n, req, x)
<1>1. PICK k : k = PayloadOf(m, req)
  OBVIOUS
<1>2. /\ h.proxy.status \in Statuses /\ shutdown(h.proxy.status) # "PeerClosed"
      /\ is_shutdown(shutdown(h.proxy.status))
      /\ alive("Established") /\ ~is_shutdown("Established")
  BY ConnectionParts DEF Statuses, shutdown, is_shutdown, alive
<1>3. Pending(d, req)
  BY <1>2 DEF Ready, Placed, Pending
<1>4. d.backend.kind = "tcp" /\ d.proxy.stream.end # "bad" /\ d.proxy.stream.in = <<>>
        => AllUp(d, g, k)
  BY <1>1, <1>2, AllOnTheWay DEF Placed
<1>5. UpClosing(d, g, k)
  BY <1>2, <1>4 DEF Ready, Placed, UpClosing
<1>6. d.backend.kind = "tcp" /\ ~is_shutdown(d.proxy.status) => DownClosing(d, r, n)
  BY <1>2 DEF Ready, Placed, DownClosing
<1> QED
  BY <1>1, <1>2, <1>3, <1>5, <1>6 DEF Tidy, Ready, Placed

\* e is c, which has no target, after do_read.
Unread(c, e) ==
  /\ e.proxy.tls # "finish" /\ e.target_addr = c.target_addr
  /\ e.proxy.session = <<>> /\ e.proxy.status # "PeerClosed"
  /\ e.proxy.stream.end = "open" => e.proxy.status = c.proxy.status

\* do_read of the client's side keeps it, without a target.
LEMMA DoReadTidy ==
  ASSUME NEW c \in Connections, Sane(c), NEW g, NEW k, NEW h, NEW n, NEW req, NEW x,
         Tidy(c, g, k, h, n, req, x), c.backend.kind = "none",
         NEW e, e = [c EXCEPT !.proxy = tls_do_read(c.proxy)]
  PROVE  Tidy(e, g, k, h, n, req, x) /\ Lasts(c, e) /\ Unread(c, e)
<1>1. PICK p, s : p \in TlsConns /\ p = c.proxy /\ s = tls_do_read(p)
  BY ConnectionParts
<1>2. p.side = "server" /\ p.status \in Statuses /\ p.stream \in Streams
  BY <1>1, ConnectionParts DEF Sane
<1>3. /\ s \in TlsConns /\ s.session = p.session /\ s.stream = [p.stream EXCEPT !.in = <<>>]
      /\ s.tls = IF p.tls = "hello" THEN "answer" ELSE p.tls
      /\ s.status = IF p.stream.end # "open" THEN shutdown(p.status) ELSE p.status
  BY <1>1, <1>2, TlsReads
<1>4. s.stream.in = <<>> /\ s.stream.end = p.stream.end
  BY <1>2, <1>3 DEF Streams
<1>5. /\ e.proxy = s /\ e.backend = c.backend /\ e.status = c.status
      /\ e.target_addr = c.target_addr /\ e.dns = c.dns
  BY <1>1, <1>3, WithProxy
<1>6. /\ is_shutdown(p.status) => s.status = p.status
      /\ s.status = "PeerClosed" => p.status = "PeerClosed"
      /\ p.status = "Deregistered" => is_shutdown(p.status)
      /\ p.stream.end = "open" => s.status = p.status
  BY <1>2, <1>3 DEF shutdown, is_shutdown, Statuses
<1>7. Pending(c, req)
  BY DEF Tidy
<1>8. Pending(e, req)
  BY <1>7, <1>1, <1>3, <1>4, <1>5, <1>6 DEF Pending
<1>9. Lasts(c, e)
  BY <1>1, <1>4, <1>5, <1>6 DEF Lasts
<1>10. Tidy(e, g, k, h, n, req, x)
  BY <1>1, <1>4, <1>5, <1>6, <1>8 DEF Tidy, UpClosing
<1>11. p.tls # "finish" /\ p.session = <<>> /\ p.status # "PeerClosed"
  BY <1>1 DEF Tidy, Pending
<1>12. Unread(c, e)
  BY <1>1, <1>3, <1>4, <1>5, <1>6, <1>11 DEF Unread
<1> QED
  BY <1>9, <1>10, <1>12

\* Reading the request.
LEMMA HandshakeReady ==
  ASSUME NEW c \in Connections, NEW m \in Nat, NEW req \in RequestKinds, NEW o \in Outcomes,
         NEW x, Sane(c), Phase(c, m, req), Pending(c, req), c.status = "HandShake",
         NEW s \in Chunks, s = c.proxy.stream.in, s # <<>>,
         NEW e \in Connections, ReadFrom(c, e), Unread(c, e),
         NEW h, h = try_handshake(e, s, o, req)
  PROVE  h \in Connections /\ Sane(h) /\ Ready(h, req, x) /\ h.proxy = e.proxy
         /\ h.backend = e.backend /\ h.status = "DnsWait"
<1>1. ParsedRequest(s, req) = req
  <2>1. s = Sends(m, req)
    BY DEF Phase
  <2> QED
    BY <2>1, Requests
<1>2. c.backend.kind = "none" /\ c.dns = "none" /\ ~is_shutdown(c.proxy.status)
  BY DEF Phase, Forwarding, Pending
<1>3. e.dns = "none" /\ e.proxy.stream.in = <<>> /\ Sane(e) /\ e.backend = c.backend
  BY <1>2 DEF ReadFrom
<1>4. PICK command, addr, target, dns :
        /\ command = IF req = "udp" THEN "UDP_ASSOCIATE" ELSE "CONNECT"
        /\ addr = CASE req = "domain" -> "Domain" [] req = "none" -> "None" [] OTHER -> "Socket"
        /\ target = (req = "domain" => o.cached)
        /\ dns = IF req = "domain" /\ ~o.cached THEN "asked" ELSE e.dns
  OBVIOUS
<1>5. h = [e EXCEPT !.status = "DnsWait", !.command = command, !.sock5_addr = addr,
                    !.target_addr = target, !.dns = dns]
  BY <1>1, <1>4 DEF try_handshake
<1>6. command \in {"CONNECT", "UDP_ASSOCIATE"} /\ addr \in {"Domain", "Socket", "None"}
  BY <1>4
<1>7. target \in BOOLEAN
  BY <1>4 DEF Outcomes
<1>8. dns \in {"none", "asked", "hit", "fail"}
  BY <1>3, <1>4
<1>9. /\ h \in Connections /\ h.proxy = e.proxy /\ h.backend = e.backend
      /\ h.status = "DnsWait" /\ h.command = command /\ h.target_addr = target /\ h.dns = dns
  BY <1>5, <1>6, <1>7, <1>8 DEF Connections
<1>10. Sane(h)
  BY <1>3, <1>9 DEF Sane
<1>11. /\ req # "domain" => dns = "none"
       /\ target => dns = "none"
       /\ command = "UDP_ASSOCIATE" => dns = "none"
  BY <1>3, <1>4 DEF Outcomes
<1> QED
  BY <1>2, <1>3, <1>9, <1>10, <1>11 DEF Ready, Unread

\* Reading the client of a connection without a target.
LEMMA FirstReadTidy ==
  ASSUME NEW c \in Connections, NEW g \in Chunks, NEW m \in Nat, NEW h \in Chunks, NEW n \in Nat,
         NEW req \in RequestKinds, NEW o \in Outcomes, NEW k, NEW x, k = PayloadOf(m, req),
         Sound(c, g, m, h, n, req), Tidy(c, g, k, h, n, req, x), c.backend.kind = "none",
         is_shutdown(c.proxy.status) /\ c.proxy.stream.end = "open" => x,
         NEW d, d = try_read_proxy(c, o, req)
  PROVE  Tidy(d, g, k, h, n, req, x) /\ Lasts(c, d)
<1>1. PICK e \in Connections : e = [c EXCEPT !.proxy = tls_do_read(c.proxy)] /\ ReadFrom(c, e)
  BY DoRead DEF Sound
<1>2. PICK s \in Chunks : s = c.proxy.stream.in
  BY ConnectionParts
<1>3. Sane(c) /\ Phase(c, m, req) /\ UpBound(c, req) /\ Pending(c, req)
  BY DEF Sound, Upstream, Tidy
<1>4. Tidy(e, g, k, h, n, req, x) /\ Lasts(c, e) /\ Unread(c, e)
  BY <1>1, <1>3, DoReadTidy
<1>5. d \in Connections /\ Sound(d, g, m, h, n, req)
  BY ReadsProxy, UpOnly DEF Sound, Sane
<1>6. /\ Sane(e) /\ e.proxy.stream.in = <<>> /\ e.proxy.stream.end = c.proxy.stream.end
      /\ e.backend = c.backend /\ e.dns = c.dns /\ e.status = c.status /\ e.command = c.command
      /\ is_shutdown(c.proxy.status) => is_shutdown(e.proxy.status)
  BY <1>1 DEF ReadFrom
<1>7. d = e \/ (s # <<>> /\ d = dispatch(e, s, o, req))
  BY <1>1, <1>2 DEF try_read_proxy, tls_read_data
<1>8. CASE d = e
  BY <1>4, <1>8
<1>9. CASE s # <<>> /\ d = dispatch(e, s, o, req) /\ c.status = "HandShake"
  <2>1. PICK w : w = try_handshake(e, s, o, req)
    OBVIOUS
  <2>2. /\ w \in Connections /\ Sane(w) /\ Ready(w, req, x) /\ w.proxy = e.proxy
        /\ w.backend = e.backend /\ w.status = "DnsWait"
    <3>1. ReadFrom(c, e) /\ Unread(c, e) /\ s # <<>> /\ c.status = "HandShake"
      BY <1>1, <1>4, <1>9
    <3> QED
      BY ONLY c \in Connections, m \in Nat, req \in RequestKinds, o \in Outcomes, e \in Connections,
              <1>2, <1>3, <2>1, <3>1, HandshakeReady
  <2>3. HandshakePayload(s) \in Chunks
    <3>1. s = Sends(m, req)
      BY <1>2, <1>3, <1>9 DEF Phase
    <3> QED
      BY <1>9, <3>1, Requests
  <2>4. d = DispatchWaiting(w, HandshakePayload(s), o)
    BY <1>6, <1>9, <2>1 DEF dispatch
  <2>5. Placed(w, d)
    BY <1>6, <2>2, <2>3, <2>4, WaitingPlaces
  <2>6. Tidy(d, g, k, h, n, req, x)
    BY <1>5, <2>2, <2>5, PlacedTidy
  <2>7. c.dns = "none" /\ ~is_shutdown(c.proxy.status)
    BY <1>2, <1>3, <1>9 DEF Pending
  <2>8. Lasts(c, d)
    BY <1>2, <1>6, <1>9, <2>2, <2>5, <2>7 DEF Lasts, Placed, is_shutdown
  <2> QED
    BY <2>6, <2>8
<1>10. CASE s # <<>> /\ d = dispatch(e, s, o, req) /\ c.status = "DnsWait"
  <2>1. c.command # "UDP_ASSOCIATE" /\ req = "domain"
    BY <1>2, <1>3, <1>10 DEF Phase, UpBound
  <2>2. Ready(e, req, x)
    BY <1>4, <1>3, <1>6, <1>10, <2>1 DEF Ready, Pending, Unread
  <2>3. d = DispatchWaiting(e, s, o)
    BY <1>6, <1>10 DEF dispatch
  <2>4. Placed(e, d)
    BY <1>6, <1>10, <2>3, WaitingPlaces
  <2>5. Tidy(d, g, k, h, n, req, x)
    BY <1>5, <2>2, <2>4, PlacedTidy
  <2>6. e.proxy.status = "Deregistered" => d.proxy.status = "Deregistered"
    BY <2>4 DEF Placed, shutdown, is_shutdown
  <2>7. Lasts(c, d)
    BY <1>2, <1>4, <1>6, <1>10, <2>4, <2>6 DEF Lasts, Placed
  <2> QED
    BY <2>5, <2>7
<1>11. CASE s # <<>> /\ d = dispatch(e, s, o, req) /\ c.status \in Forwarding
  <2>1. d = [e EXCEPT !.backend = e.backend]
    BY <1>6, <1>11 DEF dispatch, Forwarding, backend_dispatch
  <2>2. d = e
    BY <2>1 DEF Connections
  <2> QED
    BY <1>4, <2>2
<1> QED
  BY <1>7, <1>8, <1>9, <1>10, <1>11 DEF Connections, Forwarding

LEMMA FlagTidy ==
  ASSUME NEW c \in Connections, NEW g, NEW k, NEW h, NEW n, NEW req, NEW x,
         Tidy(c, g, k, h, n, req, x), NEW f \in BOOLEAN, NEW d,
         d = [c EXCEPT !.read_proxy = f] \/ d = [c EXCEPT !.read_backend = f]
  PROVE  Tidy(d, g, k, h, n, req, x) /\ Lasts(c, d)
<1>1. /\ d.proxy = c.proxy /\ d.backend = c.backend /\ d.status = c.status
      /\ d.target_addr = c.target_addr /\ d.dns = c.dns
  BY DEF Connections
<1>2. StatesDiffer(c, d)
  BY <1>1 DEF StatesDiffer
<1>3. AllUp(d, g, k) = AllUp(c, g, k) /\ AllDown(d, h, n) = AllDown(c, h, n)
  BY <1>2, SameData
<1>4. Pending(d, req) /\ UpClosing(d, g, k) /\ (DownClosing(c, h, n) => DownClosing(d, h, n))
  BY <1>1, <1>3 DEF Tidy, Pending, UpClosing, DownClosing
<1> QED
  BY <1>1, <1>4 DEF Tidy, Lasts

\* What the resolver's answer does not undo.
Answered(c, d) ==
  /\ d.proxy.stream.end = c.proxy.stream.end /\ d.dns = "none"
  /\ c.backend.kind # "none" => d.backend.kind = c.backend.kind

\* The resolver's answer.
LEMMA ResolvesTidy ==
  ASSUME NEW c \in Connections, NEW g \in Chunks, NEW m \in Nat, NEW h \in Chunks, NEW n \in Nat,
         NEW req \in RequestKinds, NEW o \in Outcomes, NEW k, NEW x, k = PayloadOf(m, req),
         Sound(c, g, m, h, n, req), Tidy(c, g, k, h, n, req, x), c.dns # "none",
         ~(c.backend.kind = "none" /\ is_shutdown(c.proxy.status) /\ c.proxy.stream.end = "open"),
         NEW ip, NEW s, s = [c EXCEPT !.dns = "none"], NEW d, d = try_resolve(s, ip, o)
  PROVE  Tidy(d, g, k, h, n, req, x) /\ Answered(c, d)
<1>1. s \in Connections /\ Sound(s, g, m, h, n, req)
  BY FlagSet
<1>2. d \in Connections /\ Sound(d, g, m, h, n, req)
  BY <1>1, Resolves
<1>3. /\ s.proxy = c.proxy /\ s.backend = c.backend /\ s.status = c.status
      /\ s.target_addr = c.target_addr /\ s.dns = "none" /\ s.sock5_addr = c.sock5_addr
  BY DEF Connections
<1>4. Pending(c, req)
  BY DEF Tidy
<1>5. s.status = "DnsWait" => s.backend.kind = "none"
  BY <1>1 DEF Sound, Upstream, Phase, Forwarding
<1>6. s.sock5_addr = "Domain" => req = "domain"
  BY <1>1 DEF Sound, Upstream, Phase
<1>7. CASE s.status # "DnsWait" \/ s.sock5_addr # "Domain"
  <2>1. d = s
    BY <1>7 DEF try_resolve
  <2>2. AllUp(d, g, k) = AllUp(c, g, k) /\ AllDown(d, h, n) = AllDown(c, h, n)
    BY <1>3, <2>1 DEF AllUp, AllDown
  <2>3. /\ Pending(d, req) /\ UpClosing(d, g, k)
        /\ DownClosing(c, h, n) => DownClosing(d, h, n)
    <3>1. /\ d.proxy = c.proxy /\ d.backend = c.backend /\ d.status = c.status
          /\ d.target_addr = c.target_addr /\ d.dns = "none"
      BY ONLY <1>3, <2>1
    <3>2. Pending(d, req)
      BY ONLY <1>4, <3>1 DEF Pending
    <3>3. UpClosing(c, g, k)
      BY DEF Tidy
    <3>4. UpClosing(d, g, k)
      BY ONLY <2>2, <3>1, <3>3 DEF UpClosing
    <3>5. DownClosing(c, h, n) => DownClosing(d, h, n)
      BY ONLY <2>2, <3>1 DEF DownClosing
    <3> QED
      BY <3>2, <3>4, <3>5
  <2> QED
    BY <1>3, <2>1, <2>3 DEF Tidy, Answered
<1>8. CASE s.status = "DnsWait" /\ s.sock5_addr = "Domain" /\ ip = "fail"
  <2>1. d = ShutdownProxy(s) /\ Sane(s)
    BY <1>1, <1>8 DEF try_resolve, Sound
  <2>2. /\ d.dns = s.dns /\ d.target_addr = s.target_addr /\ d.status = s.status
        /\ d.proxy.stream = s.proxy.stream /\ d.proxy.session = s.proxy.session
        /\ d.proxy.tls = s.proxy.tls /\ d.backend = s.backend
        /\ d.proxy.status = shutdown(s.proxy.status)
    BY <1>1, <2>1, ShutPlaces
  <2>3. s.proxy.status \in Statuses
    BY <1>1, ConnectionParts
  <2>4. is_shutdown(d.proxy.status) /\ d.proxy.status # "PeerClosed"
    BY <2>2, <2>3 DEF shutdown, is_shutdown, Statuses
  <2>5. Pending(d, req)
    BY <1>3, <1>4, <1>5, <1>6, <1>8, <2>2, <2>4 DEF Pending
  <2> QED
    BY <1>3, <1>5, <1>8, <2>2, <2>5 DEF Tidy, UpClosing, Answered
<1>9. CASE s.status = "DnsWait" /\ s.sock5_addr = "Domain" /\ ip # "fail"
  <2>1. PICK e : e = [s EXCEPT !.target_addr = TRUE]
    OBVIOUS
  <2>2. /\ e \in Connections /\ e.proxy = c.proxy /\ e.backend = c.backend
        /\ e.status = c.status /\ e.dns = "none"
    BY <1>1, <1>3, <2>1 DEF Connections
  <2>3. Sane(e)
    BY <1>3, <2>2 DEF Sound, Sane
  <2>4. d = DispatchWaiting(e, <<>>, o) /\ <<>> \in Chunks
    BY <1>9, <2>1, NothingJoined DEF try_resolve
  <2>5. Placed(e, d)
    BY <1>3, <1>5, <1>9, <2>2, <2>3, <2>4, WaitingPlaces
  <2>6. Ready(e, req, x)
    BY <1>3, <1>4, <1>5, <1>6, <1>9, <2>2 DEF Ready, Pending
  <2>7. Tidy(d, g, k, h, n, req, x)
    BY <1>2, <2>2, <2>5, <2>6, PlacedTidy
  <2> QED
    BY <1>3, <1>5, <1>9, <2>2, <2>5, <2>7 DEF Placed, Answered
<1> QED
  BY <1>7, <1>8, <1>9

\* The branches of Connection::ready.
LEMMA ClientReadableTidy ==
  ASSUME NEW c \in Connections, NEW g \in Chunks, NEW m \in Nat, NEW h \in Chunks, NEW n \in Nat,
         NEW req \in RequestKinds, NEW o \in Outcomes, NEW k, NEW x, k = PayloadOf(m, req),
         Sound(c, g, m, h, n, req), Tidy(c, g, k, h, n, req, x),
         c.backend.kind = "none" /\ is_shutdown(c.proxy.status) /\ c.proxy.stream.end = "open" => x,
         NEW d, d = ProxyReadable(c, o, req)
  PROVE  Tidy(d, g, k, h, n, req, x) /\ Lasts(c, d)
<1>1. CASE c.backend.kind = "none"
  <2>1. d = try_read_proxy(c, o, req)
    BY <1>1 DEF ProxyReadable
  <2> QED
    BY <1>1, <2>1, FirstReadTidy
<1>2. CASE c.backend.kind # "none" /\ backend_writable(c.backend)
  <2>1. d = try_read_proxy(c, o, req)
    BY <1>2 DEF ProxyReadable
  <2> QED
    BY <1>2, <2>1, ClientReadTidy
<1>3. CASE c.backend.kind # "none" /\ ~backend_writable(c.backend)
  <2>1. d = [c EXCEPT !.read_proxy = TRUE]
    BY <1>3 DEF ProxyReadable
  <2> QED
    BY <2>1, FlagTidy
<1> QED
  BY <1>1, <1>2, <1>3

LEMMA ClientWritableTidy ==
  ASSUME NEW c \in Connections, NEW g \in Chunks, NEW m \in Nat, NEW h \in Chunks, NEW n \in Nat,
         NEW req \in RequestKinds, NEW k, NEW x, k = PayloadOf(m, req),
         Sound(c, g, m, h, n, req), Tidy(c, g, k, h, n, req, x),
         NEW d, d = ProxyWritable(c)
  PROVE  Tidy(d, g, k, h, n, req, x) /\ Lasts(c, d)
<1>1. PICK s : s = [c EXCEPT !.proxy = tls_do_send(tls_established(c.proxy))]
  OBVIOUS
<1>2. s \in Connections /\ Sane(s) /\ UpSame(c, s) /\ Downstream(s, h, n)
  BY <1>1, ProxyFlushes DEF Sound
<1>3. Sound(s, g, m, h, n, req)
  BY <1>2, DownOnly
<1>4. Tidy(s, g, k, h, n, req, x) /\ Lasts(c, s)
  BY <1>1, FlushesTidy DEF Sound
<1>5. CASE tls_writable(s.proxy) /\ s.read_backend /\ s.backend.kind # "none"
  <2>1. PICK e : e = backend_do_read(s)
    OBVIOUS
  <2>2. Tidy(e, g, k, h, n, req, x) /\ Lasts(s, e)
    BY <1>2, <1>3, <1>4, <1>5, <2>1, TargetReadTidy
  <2>3. e \in Connections
    BY ONLY <1>2, <1>5, <2>1, h \in Chunks, n \in Nat, ReadsBackend
  <2>4. d = [e EXCEPT !.read_backend = FALSE]
    BY <1>1, <1>5, <2>1 DEF ProxyWritable
  <2>5. Tidy(d, g, k, h, n, req, x) /\ Lasts(e, d)
    BY <2>2, <2>3, <2>4, FlagTidy
  <2> QED
    BY <1>4, <2>2, <2>5, LastsTwice
<1>6. CASE tls_writable(s.proxy) /\ s.read_backend /\ s.backend.kind = "none"
  <2>1. d = [s EXCEPT !.read_backend = FALSE]
    BY <1>1, <1>6 DEF ProxyWritable
  <2>2. Tidy(d, g, k, h, n, req, x) /\ Lasts(s, d)
    BY <1>2, <1>4, <2>1, FlagTidy
  <2> QED
    BY <1>4, <2>2, LastsTwice
<1>7. CASE ~(tls_writable(s.proxy) /\ s.read_backend)
  <2>1. d = s
    BY <1>1, <1>7 DEF ProxyWritable
  <2> QED
    BY <1>4, <2>1
<1> QED
  BY <1>5, <1>6, <1>7

LEMMA TargetReadableTidy ==
  ASSUME NEW c \in Connections, NEW g \in Chunks, NEW m \in Nat, NEW h \in Chunks, NEW n \in Nat,
         NEW req \in RequestKinds, NEW k, NEW x, k = PayloadOf(m, req),
         Sound(c, g, m, h, n, req), Tidy(c, g, k, h, n, req, x), c.backend.kind # "none",
         NEW d, d = BackendReadable(c)
  PROVE  Tidy(d, g, k, h, n, req, x) /\ Lasts(c, d)
<1>1. CASE tls_writable(c.proxy)
  BY <1>1, TargetReadTidy DEF BackendReadable
<1>2. CASE ~tls_writable(c.proxy)
  BY <1>2, FlagTidy DEF BackendReadable
<1> QED
  BY <1>1, <1>2

LEMMA TargetWritableTidy ==
  ASSUME NEW c \in Connections, NEW g \in Chunks, NEW m \in Nat, NEW h \in Chunks, NEW n \in Nat,
         NEW req \in RequestKinds, NEW o \in Outcomes, NEW k, NEW x, k = PayloadOf(m, req),
         Sound(c, g, m, h, n, req), Tidy(c, g, k, h, n, req, x), c.backend.kind # "none",
         NEW d, d = BackendWritable(c, o, req)
  PROVE  Tidy(d, g, k, h, n, req, x) /\ Lasts(c, d)
<1>1. PICK s : s = [c EXCEPT !.backend = backend_dispatch(c.backend, <<>>)]
  OBVIOUS
<1>2. Sane(c) /\ Upstream(c, g, m, req)
  BY DEF Sound
<1>3. s \in Connections /\ Sane(s) /\ DownSame(c, s) /\ Upstream(s, g, m, req)
  BY ONLY <1>1, <1>2, c \in Connections, g \in Chunks, m \in Nat, req \in RequestKinds,
          c.backend.kind # "none", BackendFlushes
<1>4. Sound(s, g, m, h, n, req)
  BY <1>3, UpOnly
<1>5. Tidy(s, g, k, h, n, req, x) /\ Lasts(c, s)
  BY <1>1, <1>2, TargetFlushTidy
<1>6. CASE backend_writable(s.backend) /\ s.read_proxy
  <2>1. PICK e : e = try_read_proxy(s, o, req)
    OBVIOUS
  <2>2. s.backend.kind # "none"
    BY <1>5 DEF Lasts
  <2>3. Tidy(e, g, k, h, n, req, x) /\ Lasts(s, e)
    BY <1>3, <1>4, <1>5, <1>6, <2>1, <2>2, ClientReadTidy
  <2>4. e \in Connections
    BY <1>3, <1>6, <2>1, ReadsProxy DEF Sane
  <2>5. d = [e EXCEPT !.read_proxy = FALSE]
    BY <1>1, <1>6, <2>1 DEF BackendWritable
  <2>6. Tidy(d, g, k, h, n, req, x) /\ Lasts(e, d)
    BY <2>3, <2>4, <2>5, FlagTidy
  <2> QED
    BY <1>5, <2>3, <2>6, LastsTwice
<1>7. CASE ~(backend_writable(s.backend) /\ s.read_proxy)
  <2>1. d = s
    BY <1>1, <1>7 DEF BackendWritable
  <2> QED
    BY <1>5, <2>1
<1> QED
  BY <1>6, <1>7

\* The end of every handler.
LEMMA ClosesTidy ==
  ASSUME NEW c \in Connections, Sane(c), NEW g, NEW k, NEW h, NEW n, NEW req, NEW x,
         Tidy(c, g, k, h, n, req, x), NEW d, d = CheckBoth(PropagateClose(c))
  PROVE  /\ Tidy(d, g, k, h, n, req, x) /\ Lasts(c, d)
         /\ d.backend.kind = "none" /\ is_shutdown(d.proxy.status) => destroyed(d)
<1>1. PICK e : e = PropagateClose(c)
  OBVIOUS
<1>2. e \in Connections /\ Sane(e)
  BY <1>1, Propagates
<1>3. Tidy(e, g, k, h, n, req, x) /\ Lasts(c, e)
  BY <1>1, PropagatesTidy
<1>4. d = CheckBoth(e)
  BY <1>1
<1>5. /\ Tidy(d, g, k, h, n, req, x) /\ Lasts(e, d)
      /\ d.backend.kind = "none" /\ is_shutdown(d.proxy.status) => destroyed(d)
  BY <1>2, <1>3, <1>4, ChecksTidy
<1> QED
  BY <1>3, <1>5, LastsTwice

\* Shut down before there was a target, while the client stays.
Shed(c) ==
  c.backend.kind = "none" /\ is_shutdown(c.proxy.status) /\ c.proxy.stream.end = "open"

\* d is the connection after a handler.
Handles(c, d, g, k, h, n, req, x) ==
  /\ Tidy(d, g, k, h, n, req, x)
  /\ d.proxy.stream.end = c.proxy.stream.end
  /\ c.backend.kind # "none" => d.backend.kind = c.backend.kind
  /\ d.backend.kind = "none" /\ is_shutdown(d.proxy.status) => destroyed(d)

LEMMA ReadyProxyTidy ==
  ASSUME NEW c \in Connections, NEW g \in Chunks, NEW m \in Nat, NEW h \in Chunks, NEW n \in Nat,
         NEW req \in RequestKinds, NEW o \in Outcomes, NEW k, NEW x, k = PayloadOf(m, req),
         Sound(c, g, m, h, n, req), Tidy(c, g, k, h, n, req, x), Shed(c) => x,
         NEW e \in Events, NEW d, d = ReadyProxy(c, e, o, req)
  PROVE  Handles(c, d, g, k, h, n, req, x) /\ Lasts(c, d)
<1>1. PICK r : r = IF e.r THEN ProxyReadable(c, o, req) ELSE c
  OBVIOUS
<1>2. r \in Connections /\ Sound(r, g, m, h, n, req)
  BY <1>1, ClientReadable
<1>3. Tidy(r, g, k, h, n, req, x) /\ Lasts(c, r)
  <2>1. CASE e.r
    BY <1>1, <2>1, ClientReadableTidy DEF Shed
  <2>2. CASE ~e.r
    BY <1>1, <2>2 DEF Lasts
  <2> QED
    BY <2>1, <2>2
<1>4. PICK w : w = IF e.w THEN ProxyWritable(r) ELSE r
  OBVIOUS
<1>5. w \in Connections /\ Sound(w, g, m, h, n, req)
  BY <1>2, <1>4, ClientWritable
<1>6. Tidy(w, g, k, h, n, req, x) /\ Lasts(r, w)
  <2>1. CASE e.w
    BY <1>2, <1>3, <1>4, <2>1, ClientWritableTidy
  <2>2. CASE ~e.w
    BY <1>3, <1>4, <2>2 DEF Lasts
  <2> QED
    BY <2>1, <2>2
<1>7. d = CheckBoth(PropagateClose(w)) /\ Sane(w)
  BY <1>1, <1>4, <1>5 DEF ReadyProxy, Sound
<1>8. /\ Tidy(d, g, k, h, n, req, x) /\ Lasts(w, d)
      /\ d.backend.kind = "none" /\ is_shutdown(d.proxy.status) => destroyed(d)
  BY <1>5, <1>6, <1>7, ClosesTidy
<1>9. Lasts(c, d)
  BY <1>3, <1>6, <1>8, LastsTwice
<1> QED
  BY <1>8, <1>9 DEF Handles, Lasts

LEMMA ReadyBackendTidy ==
  ASSUME NEW c \in Connections, NEW g \in Chunks, NEW m \in Nat, NEW h \in Chunks, NEW n \in Nat,
         NEW req \in RequestKinds, NEW o \in Outcomes, NEW k, NEW x, k = PayloadOf(m, req),
         Sound(c, g, m, h, n, req), Tidy(c, g, k, h, n, req, x), c.backend.kind # "none",
         NEW e \in Events, NEW d, d = ReadyBackend(c, e, o, req)
  PROVE  Handles(c, d, g, k, h, n, req, x) /\ Lasts(c, d)
<1>1. PICK r : r = IF e.r THEN BackendReadable(c) ELSE c
  OBVIOUS
<1>2. r \in Connections /\ Sound(r, g, m, h, n, req) /\ r.backend.kind # "none"
  BY <1>1, TargetReadable
<1>3. Tidy(r, g, k, h, n, req, x) /\ Lasts(c, r)
  <2>1. CASE e.r
    BY <1>1, <2>1, TargetReadableTidy
  <2>2. CASE ~e.r
    BY <1>1, <2>2 DEF Lasts
  <2> QED
    BY <2>1, <2>2
<1>4. PICK w : w = IF e.w THEN BackendWritable(r, o, req) ELSE r
  OBVIOUS
<1>5. w \in Connections /\ Sound(w, g, m, h, n, req)
  BY <1>2, <1>4, TargetWritable
<1>6. Tidy(w, g, k, h, n, req, x) /\ Lasts(r, w)
  <2>1. CASE e.w
    BY <1>2, <1>3, <1>4, <2>1, TargetWritableTidy
  <2>2. CASE ~e.w
    BY <1>3, <1>4, <2>2 DEF Lasts
  <2> QED
    BY <2>1, <2>2
<1>7. d = CheckBoth(PropagateClose(w)) /\ Sane(w)
  BY <1>1, <1>4, <1>5 DEF ReadyBackend, Sound
<1>8. /\ Tidy(d, g, k, h, n, req, x) /\ Lasts(w, d)
      /\ d.backend.kind = "none" /\ is_shutdown(d.proxy.status) => destroyed(d)
  BY <1>5, <1>6, <1>7, ClosesTidy
<1>9. Lasts(c, d)
  BY <1>3, <1>6, <1>8, LastsTwice
<1> QED
  BY <1>8, <1>9 DEF Handles, Lasts

LEMMA ReadyDnsTidy ==
  ASSUME NEW c \in Connections, NEW g \in Chunks, NEW m \in Nat, NEW h \in Chunks, NEW n \in Nat,
         NEW req \in RequestKinds, NEW o \in Outcomes, NEW k, NEW x, k = PayloadOf(m, req),
         Sound(c, g, m, h, n, req), Tidy(c, g, k, h, n, req, x), c.dns # "none", ~Shed(c),
         NEW ip, NEW d, d = ReadyDns(c, ip, o)
  PROVE  Handles(c, d, g, k, h, n, req, x)
<1>1. PICK s : s = [c EXCEPT !.dns = "none"]
  OBVIOUS
<1>2. PICK w : w = try_resolve(s, ip, o)
  OBVIOUS
<1>3. s \in Connections /\ Sound(s, g, m, h, n, req)
  BY <1>1, FlagSet
<1>4. w \in Connections /\ Sound(w, g, m, h, n, req)
  BY <1>2, <1>3, Resolves
<1>5. Tidy(w, g, k, h, n, req, x) /\ Answered(c, w)
  BY <1>1, <1>2, ResolvesTidy DEF Shed
<1>6. d = CheckBoth(PropagateClose(w)) /\ Sane(w)
  BY <1>1, <1>2, <1>4 DEF ReadyDns, Sound
<1>7. /\ Tidy(d, g, k, h, n, req, x) /\ Lasts(w, d)
      /\ d.backend.kind = "none" /\ is_shutdown(d.proxy.status) => destroyed(d)
  BY <1>4, <1>5, <1>6, ClosesTidy
<1> QED
  BY <1>5, <1>7 DEF Handles, Answered, Lasts

-----------------------------------------------------------------------------
(* The invariant *)

\* One event of each channel at most; a connection that was shed is on the
\* removed list, and the client's event is the only one that can still reach it.
Batch(c, es, rem) ==
  /\ \A e, f \in es : e.ch = f.ch => e = f
  /\ \A e \in es : /\ e.ch = "backend" => c.backend.kind # "none"
                   /\ e.ch = "dns" => c.dns \in {"hit", "fail"}
  /\ Shed(c) => rem /\ \A e \in es : e.ch = "proxy"

\* A shed connection that got a target all the same, and is dropped with it at
\* the end of the batch.
Revived(c, es, rem) ==
  /\ is_shutdown(c.proxy.status) /\ rem /\ es = {}
  /\ is_shutdown(c.backend.status) => c.backend.stream.end # "fin"

Ends(c, g, k, h, n, req, es, rem) ==
  /\ Batch(c, es, rem) /\ Pending(c, req) /\ UpClosing(c, g, k)
  /\ c.backend.kind = "tcp" /\ c.proxy.stream.end = "open" =>
       DownClosing(c, h, n) \/ Revived(c, es, rem)

Closing ==
  /\ removed \/ loop = "removed" => request = "domain" \/ destroyed(conn)
  /\ expired => loop = "removed"
  /\ loop = "poll" => ~removed /\ batch = {}
  /\ ~expired => Ends(conn, got.target, PayloadOf(sent.client, request), got.client, sent.target,
                      request, batch, removed)

LEMMA ClosingInit ==
  Init => Closing
<1> SUFFICES ASSUME Init PROVE Closing
  OBVIOUS
<1>1. PICK c, p, k : c = NewConnection /\ p = NewTlsConn("server") /\ k = NewStream(TRUE)
  OBVIOUS
<1>2. k.in = <<>> /\ k.end = "open"
  BY <1>1 DEF NewStream
<1>3. p.stream = k /\ p.session = <<>> /\ p.status = "Connecting" /\ p.tls = "start"
  BY <1>1 DEF NewTlsConn
<1>4. NoBackend.kind = "none"
  BY DEF NoBackend
<1>5. c.proxy = p /\ c.backend = NoBackend /\ c.status = "HandShake" /\ c.dns = "none"
  BY <1>1 DEF NewConnection
<1>6. ~is_shutdown("Connecting")
  BY DEF is_shutdown
<1>7. conn = c /\ loop = "poll" /\ batch = {} /\ ~removed /\ ~expired
  BY <1>1 DEF Init
<1>8. Pending(c, request)
  BY <1>2, <1>3, <1>4, <1>5, <1>6 DEF Pending
<1>9. ~Shed(c) /\ c.backend.kind # "tcp"
  BY <1>3, <1>4, <1>5, <1>6 DEF Shed
<1> QED
  BY <1>7, <1>8, <1>9 DEF Closing, Ends, Batch, UpClosing

\* One event has been handled.
LEMMA AfterEvent ==
  ASSUME NEW c \in Connections, NEW d \in Connections, NEW g, NEW k, NEW h, NEW n, NEW req,
         NEW es, es \subseteq Events, NEW e \in es, NEW rem \in BOOLEAN,
         Ends(c, g, k, h, n, req, es, rem), Handles(c, d, g, k, h, n, req, Shed(c)),
         \A f \in es \ {e} : f.ch = "dns" => d.dns \in {"hit", "fail"}
  PROVE  Ends(d, g, k, h, n, req, es \ {e}, rem \/ destroyed(d))
<1>1. Batch(c, es, rem)
  BY DEF Ends
<1>2. \A f \in es \ {e} : f.ch = "backend" => d.backend.kind # "none"
  BY <1>1 DEF Batch, Handles
<1>3. ASSUME Shed(d)
      PROVE  (rem \/ destroyed(d)) /\ \A f \in es \ {e} : f.ch = "proxy"
  <2>1. destroyed(d)
    BY <1>3 DEF Shed, Handles
  <2>2. Shed(c) \/ d.dns = "none"
    BY <1>3 DEF Shed, Handles, Tidy
  <2>3. \A f \in es \ {e} : f.ch \in {"proxy", "backend", "dns"}
    BY DEF Events
  <2>4. \A f \in es \ {e} : f.ch # "backend"
    BY <1>2, <1>3 DEF Shed
  <2> QED
    BY <1>1, <2>1, <2>2, <2>3, <2>4 DEF Batch
<1>4. Batch(d, es \ {e}, rem \/ destroyed(d))
  BY <1>1, <1>2, <1>3 DEF Batch
<1>5. ASSUME Shed(c), is_shutdown(d.proxy.status), d.backend.stream.end = "open"
      PROVE  Revived(d, es \ {e}, rem \/ destroyed(d))
  <2>1. es \ {e} = {}
    BY <1>1, <1>5 DEF Batch
  <2> QED
    BY <1>1, <1>5, <2>1 DEF Batch, Revived
<1> QED
  BY <1>4, <1>5 DEF Ends, Handles, Tidy

\* What a handler leaves destroyed stays so.
LEMMA StaysDestroyed ==
  ASSUME NEW c, NEW d, NEW req, req # "domain", Lasts(c, d), Pending(c, req), destroyed(c)
  PROVE  destroyed(d)
BY DEF Lasts, Pending, destroyed, is_shutdown

\* The event loop.
LEMMA ServerCloses ==
  ASSUME Flow, Closing, Server
  PROVE  Closing'
<1>1. Around /\ Sound(conn, got.target, sent.client, got.client, sent.target, request)
  BY FlowParts
<1>2. PICK c \in Connections, g \in Chunks, h \in Chunks, m \in Nat, n \in Nat, req \in RequestKinds :
        /\ c = conn /\ g = got.target /\ h = got.client /\ m = sent.client /\ n = sent.target
        /\ req = request
  BY <1>1, Numbers DEF Sound, Sane
<1>3. Sound(c, g, m, h, n, req) /\ Sane(c)
  BY <1>1, <1>2 DEF Sound
<1>4. PICK k : k = PayloadOf(m, req)
  OBVIOUS
<1>5. setting' = setting /\ sent' = sent /\ got' = got /\ expired' = expired /\ loop # "removed"
  BY DEF Server, Poll, HandleProxy, HandleBackend, HandleDns, EndBatch, Handled
<1>6. request' = req /\ got'.target = g /\ got'.client = h /\ sent'.client = m /\ sent'.target = n
  BY <1>2, <1>5 DEF request
<1>7. ~expired /\ Ends(c, g, k, h, n, req, batch, removed)
  BY <1>2, <1>4, <1>5 DEF Closing
<1>8. ASSUME NEW e \in batch, NEW d \in Connections, Handled(e, d),
             Handles(c, d, g, k, h, n, req, Shed(c)),
             \A f \in batch \ {e} : f.ch = "dns" => d.dns \in {"hit", "fail"},
             req = "domain" \/ Lasts(c, d)
      PROVE  Closing'
  <2>1. /\ loop = "events" /\ loop' = loop /\ batch' = batch \ {e} /\ conn' = d
        /\ removed' = (removed \/ destroyed(d))
    BY <1>8 DEF Handled
  <2>2. removed \in BOOLEAN /\ batch \subseteq Events
    BY <1>1 DEF Around
  <2>3. Ends(d, g, k, h, n, req, batch \ {e}, removed \/ destroyed(d))
    BY <1>7, <1>8, <2>2, AfterEvent
  <2>4. removed => req = "domain" \/ destroyed(d)
    <3>1. removed => req = "domain" \/ destroyed(c)
      BY <1>2 DEF Closing
    <3>2. Pending(c, req)
      BY <1>7 DEF Ends
    <3> QED
      BY <1>8, <3>1, <3>2, StaysDestroyed
  <2> QED
    BY <1>4, <1>5, <1>6, <1>7, <2>1, <2>3, <2>4 DEF Closing
<1>9. batch # {} => Tidy(c, g, k, h, n, req, Shed(c))
  BY <1>7 DEF Ends, Revived, Tidy, Shed
<1>10. Batch(c, batch, removed) /\ Pending(c, req)
  BY <1>7 DEF Ends
<1>11. CASE HandleProxy
  <2>1. PICK e \in batch, o \in Outcomes : e.ch = "proxy" /\ Handled(e, ReadyProxy(c, e, o, req))
    BY <1>2, <1>11 DEF HandleProxy
  <2>2. PICK d : d = ReadyProxy(c, e, o, req)
    OBVIOUS
  <2>3. e \in Events /\ Tidy(c, g, k, h, n, req, Shed(c))
    BY <1>1, <1>9 DEF Around
  <2>4. d \in Connections
    BY <1>3, <2>2, <2>3, ReadiesProxy DEF Sound, Sane
  <2>5. Handles(c, d, g, k, h, n, req, Shed(c)) /\ Lasts(c, d)
    BY <1>3, <1>4, <2>2, <2>3, ReadyProxyTidy
  <2>6. \A f \in batch \ {e} : f.ch = "dns" => d.dns \in {"hit", "fail"}
    BY <1>10, <2>5 DEF Batch, Lasts
  <2> QED
    BY <1>8, <2>1, <2>2, <2>4, <2>5, <2>6
<1>12. CASE HandleBackend
  <2>1. PICK e \in batch, o \in Outcomes :
          e.ch = "backend" /\ Handled(e, ReadyBackend(c, e, o, req))
    BY <1>2, <1>12 DEF HandleBackend
  <2>2. PICK d : d = ReadyBackend(c, e, o, req)
    OBVIOUS
  <2>3. e \in Events /\ Tidy(c, g, k, h, n, req, Shed(c)) /\ c.backend.kind # "none"
    BY <1>1, <1>9, <1>10, <2>1 DEF Around, Batch
  <2>4. d \in Connections
    BY <1>3, <2>2, <2>3, ReadiesBackend DEF Sound, Sane
  <2>5. Handles(c, d, g, k, h, n, req, Shed(c)) /\ Lasts(c, d)
    BY <1>3, <1>4, <2>2, <2>3, ReadyBackendTidy
  <2>6. \A f \in batch \ {e} : f.ch = "dns" => d.dns \in {"hit", "fail"}
    BY <1>10, <2>5 DEF Batch, Lasts
  <2> QED
    BY <1>8, <2>1, <2>2, <2>4, <2>5, <2>6
<1>13. CASE HandleDns
  <2>1. PICK e \in batch, o \in Outcomes : e.ch = "dns" /\ Handled(e, ReadyDns(c, c.dns, o))
    BY <1>2, <1>13 DEF HandleDns
  <2>2. PICK d, ip : ip = c.dns /\ d = ReadyDns(c, ip, o)
    OBVIOUS
  <2>3. Tidy(c, g, k, h, n, req, Shed(c)) /\ c.dns # "none" /\ ~Shed(c)
    BY <1>9, <1>10, <2>1 DEF Batch
  <2>4. d \in Connections
    BY <1>3, <2>2, ReadiesDns DEF Sound, Sane
  <2>5. Handles(c, d, g, k, h, n, req, Shed(c))
    BY <1>3, <1>4, <2>2, <2>3, ReadyDnsTidy
  <2>6. \A f \in batch \ {e} : f.ch = "dns" => d.dns \in {"hit", "fail"}
    BY <1>10, <2>1 DEF Batch
  <2>7. req = "domain"
    BY <1>10, <2>3 DEF Pending
  <2> QED
    BY <1>8, <2>1, <2>2, <2>4, <2>5, <2>6, <2>7
<1>14. CASE Poll
  <2>1. PICK d : d = conn'
    OBVIOUS
  <2>2. PICK p, b : /\ p = IF ProxyEdge THEN Reported(c.proxy.stream) ELSE c.proxy.stream
                    /\ b = IF BackendEdge THEN Reported(c.backend.stream) ELSE c.backend.stream
    OBVIOUS
  <2>3. c.proxy \in TlsConns /\ c.backend \in Backends /\ c.proxy.stream \in Streams
        /\ c.backend.stream \in Streams
    BY ConnectionParts
  <2>4. /\ p.in = c.proxy.stream.in /\ p.out = c.proxy.stream.out /\ p.end = c.proxy.stream.end
        /\ b.in = c.backend.stream.in /\ b.out = c.backend.stream.out
        /\ b.end = c.backend.stream.end /\ b.up = c.backend.stream.up
    BY <2>2, <2>3 DEF Reported, Streams
  <2>5. d = [c EXCEPT !.proxy = [c.proxy EXCEPT !.stream = p],
                      !.backend = [c.backend EXCEPT !.stream = b]]
    BY <1>2, <1>14, <2>1, <2>2 DEF Poll, Connections
  <2>6. /\ d.status = c.status /\ d.target_addr = c.target_addr /\ d.dns = c.dns
        /\ d.proxy.stream = p /\ d.proxy.session = c.proxy.session
        /\ d.proxy.tls = c.proxy.tls /\ d.proxy.status = c.proxy.status
        /\ d.backend.kind = c.backend.kind /\ d.backend.stream = b
        /\ d.backend.send_buffer = c.backend.send_buffer /\ d.backend.status = c.backend.status
    BY <2>3, <2>5 DEF Connections, TlsConns, Backends
  <2>7. AllUp(d, g, k) = AllUp(c, g, k) /\ AllDown(d, h, n) = AllDown(c, h, n)
    BY <2>4, <2>6 DEF AllUp, AllDown, Held
  <2>8. loop = "poll" /\ loop' = "events" /\ ~removed /\ batch = {} /\ removed' = removed
    BY <1>14 DEF Poll, Closing
  <2>9. ~Shed(c) /\ ~Shed(d)
    BY <1>10, <2>4, <2>6, <2>8 DEF Batch, Shed
  <2>10. \A e \in batch' : \/ e = ProxyEvent /\ e.ch = "proxy"
                           \/ e = BackendEvent /\ e.ch = "backend" /\ c.backend.kind # "none"
                           \/ e = DnsEvent /\ e.ch = "dns" /\ c.dns \in {"hit", "fail"}
    BY <1>2, <1>14 DEF Poll, ProxyEvent, BackendEvent, DnsEvent, BackendEdge, DnsReady
  <2>11. Batch(d, batch', removed)
    BY <2>6, <2>9, <2>10 DEF Batch
  <2>12. Pending(d, req) /\ UpClosing(d, g, k)
    BY <1>7, <2>4, <2>6, <2>7 DEF Ends, Pending, UpClosing
  <2>13. DownClosing(c, h, n) => DownClosing(d, h, n)
    BY <2>4, <2>6, <2>7 DEF DownClosing
  <2>14. Ends(d, g, k, h, n, req, batch', removed)
    BY <1>7, <2>4, <2>6, <2>8, <2>11, <2>12, <2>13 DEF Ends, Revived
  <2> QED
    BY <1>4, <1>5, <1>6, <1>7, <2>1, <2>8, <2>14 DEF Closing
<1>15. CASE EndBatch
  <2>1. /\ conn' = c /\ batch' = batch /\ removed' = removed /\ batch = {}
        /\ loop' = IF removed THEN "removed" ELSE "poll"
    BY <1>2, <1>15 DEF EndBatch
  <2>2. removed => req = "domain" \/ destroyed(c)
    BY <1>2 DEF Closing
  <2> QED
    BY <1>4, <1>5, <1>6, <1>7, <2>1, <2>2 DEF Closing
<1> QED
  BY <1>11, <1>12, <1>13, <1>14, <1>15 DEF Server

\* The idle timeout closes both sides.
LEMMA TimeoutCloses ==
  ASSUME Flow, Closing, Timeout
  PROVE  Closing'
<1>1. Around /\ Sound(conn, got.target, sent.client, got.client, sent.target, request)
  BY FlowParts
<1>2. PICK c \in Connections : c = conn
  BY <1>1 DEF Sound, Sane
<1>3. PICK ps, bs : /\ ps = shutdown(c.proxy.status)
                    /\ bs = IF c.backend.kind = "none" THEN c.backend.status
                            ELSE shutdown(c.backend.status)
  OBVIOUS
<1>4. PICK e : e = [c EXCEPT !.proxy = [c.proxy EXCEPT !.status = ps],
                             !.backend = [c.backend EXCEPT !.status = bs]]
  OBVIOUS
<1>5. destroy(c) = CheckBoth(e)
  BY <1>3, <1>4 DEF destroy, Connections
<1>6. c.proxy \in TlsConns /\ c.backend \in Backends /\ c.proxy.status \in Statuses
      /\ c.backend.status \in Statuses
  BY ConnectionParts
<1>7. /\ e.proxy.status = ps /\ e.backend.status = bs /\ e.backend.kind = c.backend.kind
      /\ e.proxy = [c.proxy EXCEPT !.status = ps]
      /\ e.backend = [c.backend EXCEPT !.status = bs]
  BY <1>4, <1>6 DEF Connections, TlsConns, Backends
<1>8. PICK d : d = CheckBoth(e)
  OBVIOUS
<1>9. /\ d.proxy = tls_check_status(e.proxy)
      /\ d.backend = IF e.backend.kind = "none" THEN e.backend ELSE backend_check_status(e.backend)
  BY <1>4, <1>8 DEF CheckBoth, Connections
<1>10. /\ d.proxy.status = check_status(ps, ~wants_write(e.proxy))
       /\ d.backend.kind = c.backend.kind
       /\ c.backend.kind # "none" =>
            d.backend.status = check_status(bs, finish_send(e.backend))
  BY <1>6, <1>7, <1>9 DEF tls_check_status, backend_check_status, TlsConns, Backends
<1>11. destroyed(d)
  BY <1>3, <1>6, <1>10 DEF destroyed, check_status, shutdown, is_shutdown, Statuses
<1>12. conn' = d /\ loop' = "removed" /\ expired'
  BY <1>2, <1>5, <1>8 DEF Timeout
<1> QED
  BY <1>11, <1>12 DEF Closing

\* A peer changes neither the state of a side nor what the server holds.
Apart(c, d) ==
  /\ d.status = c.status /\ d.target_addr = c.target_addr
  /\ d.proxy.session = c.proxy.session /\ d.proxy.status = c.proxy.status
  /\ d.backend.kind = c.backend.kind /\ d.backend.status = c.backend.status
  /\ d.backend.send_buffer = c.backend.send_buffer

ClientMoved(c, d, t, p) ==
  /\ Apart(c, d) /\ d.dns = c.dns /\ d.backend = c.backend
  /\ d.proxy.tls = t /\ d.proxy.stream = p

TargetMoved(c, d, b) ==
  Apart(c, d) /\ d.dns = c.dns /\ d.proxy = c.proxy /\ d.backend.stream = b

\* A step of the client.
LEMMA ClientApart ==
  ASSUME NEW c \in Connections, NEW p \in Streams, NEW d,
         NEW t \in {"start", "hello", "answer", "sent", "finish", "up"},
         d = [c EXCEPT !.proxy = [c.proxy EXCEPT !.tls = t, !.stream = p]]
  PROVE  ClientMoved(c, d, t, p)
<1>1. c.proxy \in TlsConns
  BY ConnectionParts
<1>2. PICK q : q = [c.proxy EXCEPT !.tls = t, !.stream = p]
  OBVIOUS
<1>3. q.tls = t /\ q.stream = p /\ q.session = c.proxy.session /\ q.status = c.proxy.status
  BY <1>1, <1>2 DEF TlsConns
<1>4. d = [c EXCEPT !.proxy = q]
  BY <1>2
<1>5. /\ d.proxy = q /\ d.backend = c.backend /\ d.status = c.status /\ d.dns = c.dns
      /\ d.target_addr = c.target_addr
  BY <1>4 DEF Connections
<1> QED
  BY <1>3, <1>5 DEF Apart, ClientMoved

\* A step of the target.
LEMMA TargetApart ==
  ASSUME NEW c \in Connections, NEW b, NEW d,
         d = [c EXCEPT !.backend = [c.backend EXCEPT !.stream = b]]
  PROVE  TargetMoved(c, d, b)
<1>1. c.backend \in Backends
  BY ConnectionParts
<1>2. PICK q : q = [c.backend EXCEPT !.stream = b]
  OBVIOUS
<1>3. /\ q.stream = b /\ q.kind = c.backend.kind /\ q.status = c.backend.status
      /\ q.send_buffer = c.backend.send_buffer
  BY <1>1, <1>2 DEF Backends
<1>4. d = [c EXCEPT !.backend = q]
  BY <1>2
<1>5. /\ d.backend = q /\ d.proxy = c.proxy /\ d.status = c.status /\ d.dns = c.dns
      /\ d.target_addr = c.target_addr
  BY <1>4 DEF Connections
<1> QED
  BY <1>3, <1>5 DEF Apart, TargetMoved

\* The peers.
LEMMA PeersClose ==
  ASSUME Flow, Closing, Peers
  PROVE  Closing'
<1>1. Around /\ Sound(conn, got.target, sent.client, got.client, sent.target, request)
  BY FlowParts
<1>2. PICK c \in Connections, g \in Chunks, h \in Chunks, m \in Nat, n \in Nat, req \in RequestKinds :
        /\ c = conn /\ g = got.target /\ h = got.client /\ m = sent.client /\ n = sent.target
        /\ req = request
  BY <1>1, Numbers DEF Sound, Sane
<1>3. Sane(c) /\ Around
  BY <1>1, <1>2 DEF Sound
<1>4. PICK k, d : k = PayloadOf(m, req) /\ d = conn'
  OBVIOUS
<1>5. setting' = setting /\ loop' = loop /\ batch' = batch /\ removed' = removed /\ expired' = expired
  BY DEF Peers, ClientHello, ClientAnswered, ClientSend, ClientEnd, ClientRecv, TargetConnect,
         TargetSend, TargetEnd, TargetRecv, DnsAnswer
<1>6. ~expired => Ends(c, g, k, h, n, req, batch, removed)
  BY <1>2, <1>4 DEF Closing
<1>7. request' = req
  BY <1>2, <1>5 DEF request
<1>8. ASSUME Apart(c, d),
             ~expired => Ends(d, got'.target, PayloadOf(sent'.client, req), got'.client,
                              sent'.target, req, batch, removed)
      PROVE  Closing'
  <2>1. destroyed(d) <=> destroyed(c)
    BY <1>8 DEF Apart, destroyed
  <2> QED
    BY <1>2, <1>4, <1>5, <1>7, <1>8, <2>1 DEF Closing
<1>9. ASSUME Apart(c, d), got' = got, sent' = sent,
             ~expired => Ends(d, g, k, h, n, req, batch, removed)
      PROVE  Closing'
  BY <1>2, <1>4, <1>8, <1>9
<1>10. PICK p \in Streams, b \in Streams, t \in {"start", "hello", "answer", "sent", "finish", "up"} :
         p = c.proxy.stream /\ b = c.backend.stream /\ t = c.proxy.tls
  BY ConnectionParts DEF TlsConns
<1>11. c.proxy \in TlsConns /\ c.backend \in Backends /\ p.out \in Chunks /\ b.out \in Chunks
       /\ c.proxy.session \in Chunks /\ c.backend.send_buffer \in Chunks
  BY <1>10, ConnectionParts
<1>12. \A q \in Streams :
         [c.proxy EXCEPT !.stream = q] = [c.proxy EXCEPT !.tls = t, !.stream = q]
  BY <1>10, <1>11 DEF TlsConns
<1>13. CASE ClientHello
  <2>1. PICK q : q = [p EXCEPT !.edge = TRUE]
    OBVIOUS
  <2>2. q \in Streams /\ q.in = p.in /\ q.out = p.out /\ q.end = p.end
    BY <2>1 DEF Streams
  <2>3. d = [c EXCEPT !.proxy = [c.proxy EXCEPT !.tls = "hello", !.stream = q]] /\ t = "start"
    BY <1>2, <1>4, <1>10, <1>11, <1>13, <2>1 DEF ClientHello, Connections, TlsConns
  <2>4. /\ Apart(c, d) /\ d.dns = c.dns /\ d.backend = c.backend
        /\ d.proxy.tls = "hello" /\ d.proxy.stream = q
    <3>1. ClientMoved(c, d, "hello", q)
      BY <2>2, <2>3, ClientApart
    <3> QED
      BY <3>1 DEF ClientMoved
  <2>5. AllUp(d, g, k) = AllUp(c, g, k) /\ AllDown(d, h, n) = AllDown(c, h, n)
    BY <1>10, <2>2, <2>4 DEF AllUp, AllDown, Apart
  <2>6. Ends(c, g, k, h, n, req, batch, removed) => Ends(d, g, k, h, n, req, batch, removed)
    BY <1>10, <2>2, <2>3, <2>4, <2>5
       DEF Apart, Ends, Batch, Shed, Pending, UpClosing, DownClosing, Revived
  <2> QED
    BY <1>6, <1>9, <1>13, <2>4, <2>6 DEF ClientHello
<1>14. CASE ClientAnswered
  <2>1. d = [c EXCEPT !.proxy = [c.proxy EXCEPT !.tls = "up", !.stream = p]]
    <3>1. d = [c EXCEPT !.proxy = [c.proxy EXCEPT !.tls = "up"]]
      BY <1>2, <1>4, <1>14 DEF ClientAnswered, Connections
    <3>2. [c.proxy EXCEPT !.tls = "up"] = [c.proxy EXCEPT !.tls = "up", !.stream = p]
      BY <1>10, <1>11 DEF TlsConns
    <3> QED
      BY <3>1, <3>2
  <2>2. /\ Apart(c, d) /\ d.dns = c.dns /\ d.backend = c.backend
        /\ d.proxy.tls = "up" /\ d.proxy.stream = p
    <3>1. ClientMoved(c, d, "up", p)
      BY <2>1, ClientApart
    <3> QED
      BY <3>1 DEF ClientMoved
  <2>3. AllUp(d, g, k) = AllUp(c, g, k) /\ AllDown(d, h, n) = AllDown(c, h, n)
    BY <1>10, <2>2 DEF AllUp, AllDown, Apart
  <2>4. Ends(c, g, k, h, n, req, batch, removed) => Ends(d, g, k, h, n, req, batch, removed)
    BY <1>10, <2>2, <2>3 DEF Apart, Ends, Batch, Shed, Pending, UpClosing, DownClosing, Revived
  <2> QED
    BY <1>6, <1>9, <1>14, <2>2, <2>4 DEF ClientAnswered
<1>15. CASE ClientSend
  <2>1. PICK x \in Nat : x = NextChunk(m, req)
    BY DEF NextChunk
  <2>2. PICK q \in Streams : q = Arrived(p, x) /\ q.out = p.out /\ q.end = p.end
    BY KernelSteps
  <2>3. d = [c EXCEPT !.proxy = [c.proxy EXCEPT !.tls = t, !.stream = q]]
    <3>1. d = [c EXCEPT !.proxy = [c.proxy EXCEPT !.stream = q]]
      BY <1>2, <1>4, <1>10, <1>15, <2>1, <2>2 DEF ClientSend, NextChunk, Connections
    <3> QED
      BY <1>12, <3>1
  <2>4. /\ Apart(c, d) /\ d.dns = c.dns /\ d.backend = c.backend
        /\ d.proxy.tls = t /\ d.proxy.stream = q
    <3>1. ClientMoved(c, d, t, q)
      BY <2>2, <2>3, ClientApart
    <3> QED
      BY <3>1 DEF ClientMoved
  <2>5. ~is_shutdown(c.proxy.status) /\ t = "up"
    BY <1>2, <1>10, <1>15 DEF ClientSend
  <2>6. AllDown(d, h, n) = AllDown(c, h, n)
    BY <1>10, <2>2, <2>4 DEF AllDown, Apart
  <2>7. PICK l : l = PayloadOf(m + 1, req)
    OBVIOUS
  <2>8. Ends(c, g, k, h, n, req, batch, removed) => Ends(d, g, l, h, n, req, batch, removed)
    BY <1>10, <2>2, <2>4, <2>5, <2>6
       DEF Apart, Ends, Batch, Shed, Pending, UpClosing, DownClosing, Revived
  <2>9. sent'.client = m + 1 /\ sent'.target = n /\ got'.target = g /\ got'.client = h
    BY <1>2, <1>3, <1>15 DEF ClientSend, Around
  <2> QED
    BY <1>6, <1>8, <2>4, <2>7, <2>8, <2>9
<1>16. CASE ClientEnd
  <2>1. PICK how \in {"fin", "rst", "bad"} :
          /\ c.proxy.stream.end = "open" \/ (c.proxy.stream.end = "fin" /\ how = "rst")
          /\ conn' = [conn EXCEPT !.proxy.stream = EndedBy(conn.proxy.stream, how)]
    BY <1>2, <1>16 DEF ClientEnd
  <2>2. PICK q \in Streams : q = EndedBy(p, how) /\ q.in = p.in /\ q.out = p.out /\ q.end = how
    <3>1. EndedBy(p, how).end = how
      BY DEF EndedBy, Streams
    <3> QED
      BY <3>1, KernelSteps
  <2>3. d = [c EXCEPT !.proxy = [c.proxy EXCEPT !.tls = t, !.stream = q]]
    <3>1. d = [c EXCEPT !.proxy = [c.proxy EXCEPT !.stream = q]]
      BY <1>2, <1>4, <1>10, <2>1, <2>2 DEF Connections
    <3> QED
      BY <1>12, <3>1
  <2>4. /\ Apart(c, d) /\ d.dns = c.dns /\ d.backend = c.backend
        /\ d.proxy.tls = t /\ d.proxy.stream = q
    <3>1. ClientMoved(c, d, t, q)
      BY <2>2, <2>3, ClientApart
    <3> QED
      BY <3>1 DEF ClientMoved
  <2>5. AllUp(d, g, k) = AllUp(c, g, k)
    BY <1>10, <2>2, <2>4 DEF AllUp, Apart
  <2>6. Ends(c, g, k, h, n, req, batch, removed) => Ends(d, g, k, h, n, req, batch, removed)
    BY <1>10, <2>1, <2>2, <2>4, <2>5 DEF Apart, Ends, Batch, Shed, Pending, UpClosing
  <2> QED
    BY <1>6, <1>9, <1>16, <2>4, <2>6 DEF ClientEnd
<1>17. CASE ClientRecv
  <2>1. p.out # <<>>
    BY <1>2, <1>10, <1>17 DEF ClientRecv
  <2>2. PICK q \in Streams : q = Received(p) /\ q.in = p.in /\ q.end = p.end /\ q.out = Tail(p.out)
    BY <2>1, KernelSteps
  <2>3. d = [c EXCEPT !.proxy = [c.proxy EXCEPT !.tls = t, !.stream = q]]
    <3>1. d = [c EXCEPT !.proxy = [c.proxy EXCEPT !.stream = q]]
      BY <1>2, <1>4, <1>10, <1>17, <2>2 DEF ClientRecv, Connections
    <3> QED
      BY <1>12, <3>1
  <2>4. /\ Apart(c, d) /\ d.dns = c.dns /\ d.backend = c.backend
        /\ d.proxy.tls = t /\ d.proxy.stream = q
    <3>1. ClientMoved(c, d, t, q)
      BY <2>2, <2>3, ClientApart
    <3> QED
      BY <3>1 DEF ClientMoved
  <2>5. PICK out \in Chunks, s \in Chunks : out = p.out /\ s = c.proxy.session
    BY <1>11
  <2>6. out # <<>>
    BY <2>1, <2>5
  <2>7. PICK l \in Chunks, u \in Chunks :
          l = Append(h, Head(out)) /\ u = Tail(out) /\ l \o u = h \o out
    BY ONLY <2>6, h \in Chunks, out \in Chunks, HandedOn
  <2>8. l \o (u \o s) = h \o (out \o s)
    <3>1. Recut(l, u, h, out)
      BY <2>7 DEF Recut
    <3>2. Recut(l, u \o s, h, out \o s)
      BY <3>1, SameBehind
    <3> QED
      BY <3>2 DEF Recut
  <2>9. AllUp(d, g, k) = AllUp(c, g, k) /\ AllDown(d, l, n) = AllDown(c, h, n)
    BY <1>10, <2>2, <2>4, <2>5, <2>7, <2>8 DEF AllUp, AllDown, Apart
  <2>10. Ends(c, g, k, h, n, req, batch, removed) => Ends(d, g, k, l, n, req, batch, removed)
    BY <1>10, <2>2, <2>4, <2>9
       DEF Apart, Ends, Batch, Shed, Pending, UpClosing, DownClosing, Revived
  <2>11. got'.client = l /\ got'.target = g /\ sent' = sent
    BY <1>2, <1>3, <1>10, <1>17, <2>5, <2>7 DEF ClientRecv, Around
  <2> QED
    BY <1>2, <1>4, <1>6, <1>8, <2>4, <2>10, <2>11
<1>18. CASE TargetConnect
  <2>1. PICK how \in {"open", "rst"} :
          conn' = [conn EXCEPT !.backend.stream =
                     [conn.backend.stream EXCEPT !.up = TRUE, !.end = how, !.edge = TRUE]]
    BY <1>18 DEF TargetConnect
  <2>2. PICK q : q = [b EXCEPT !.up = TRUE, !.end = how, !.edge = TRUE]
    OBVIOUS
  <2>3. q.in = b.in /\ q.out = b.out /\ q.end = how /\ q.up = TRUE
    BY <2>2 DEF Streams
  <2>4. d = [c EXCEPT !.backend = [c.backend EXCEPT !.stream = q]]
    BY <1>2, <1>4, <1>10, <2>1, <2>2 DEF Connections
  <2>5. Apart(c, d) /\ d.dns = c.dns /\ d.proxy = c.proxy /\ d.backend.stream = q
    <3>1. TargetMoved(c, d, q)
      BY ONLY c \in Connections, <2>4, TargetApart
    <3> QED
      BY <3>1 DEF TargetMoved
  <2>6. AllUp(d, g, k) = AllUp(c, g, k)
    BY <1>10, <2>3, <2>5 DEF AllUp, Held, Apart
  <2>7. c.backend.kind = "tcp" /\ ~b.up
    BY <1>2, <1>10, <1>18 DEF TargetConnect
  <2>8. Ends(c, g, k, h, n, req, batch, removed) => Ends(d, g, k, h, n, req, batch, removed)
    BY <1>10, <2>3, <2>5, <2>6, <2>7
       DEF Apart, Ends, Batch, Shed, Pending, UpClosing, DownClosing, Revived
  <2> QED
    BY <1>6, <1>9, <1>18, <2>5, <2>8 DEF TargetConnect
<1>19. CASE TargetSend
  <2>1. PICK q \in Streams : q = Arrived(b, n + 1) /\ q.out = b.out /\ q.end = b.end /\ q.up = b.up
    <3>1. PICK x \in Nat : x = n + 1
      OBVIOUS
    <3>2. Arrived(b, x).up = b.up
      BY DEF Arrived, Streams
    <3> QED
      BY <3>1, <3>2, KernelSteps
  <2>2. d = [c EXCEPT !.backend = [c.backend EXCEPT !.stream = q]]
    BY <1>2, <1>4, <1>10, <1>19, <2>1 DEF TargetSend, Connections
  <2>3. Apart(c, d) /\ d.dns = c.dns /\ d.proxy = c.proxy /\ d.backend.stream = q
    <3>1. TargetMoved(c, d, q)
      BY ONLY c \in Connections, <2>2, TargetApart
    <3> QED
      BY <3>1 DEF TargetMoved
  <2>4. AllUp(d, g, k) = AllUp(c, g, k)
    BY <1>10, <2>1, <2>3 DEF AllUp, Held, Apart
  <2>5. ~is_shutdown(c.backend.status)
    BY <1>2, <1>19 DEF TargetSend, TargetOpen
  <2>6. PICK l : l = n + 1
    OBVIOUS
  <2>7. Ends(c, g, k, h, n, req, batch, removed) => Ends(d, g, k, h, l, req, batch, removed)
    BY <1>10, <2>1, <2>3, <2>4, <2>5
       DEF Apart, Ends, Batch, Shed, Pending, UpClosing, DownClosing, Revived
  <2>8. sent'.client = m /\ sent'.target = l /\ got'.target = g /\ got'.client = h
    BY <1>2, <1>3, <1>19, <2>6 DEF TargetSend, Around
  <2> QED
    BY <1>4, <1>6, <1>8, <2>3, <2>7, <2>8
<1>20. CASE TargetEnd
  <2>1. PICK how \in {"fin", "rst"} :
          conn' = [conn EXCEPT !.backend.stream = EndedBy(conn.backend.stream, how)]
    BY <1>20 DEF TargetEnd
  <2>2. PICK q : q = EndedBy(b, how)
    OBVIOUS
  <2>3. q.in = b.in /\ q.out = b.out /\ q.end = how /\ q.up = b.up
    BY <2>2 DEF EndedBy, Streams
  <2>4. d = [c EXCEPT !.backend = [c.backend EXCEPT !.stream = q]]
    BY <1>2, <1>4, <1>10, <2>1, <2>2 DEF Connections
  <2>5. Apart(c, d) /\ d.dns = c.dns /\ d.proxy = c.proxy /\ d.backend.stream = q
    <3>1. TargetMoved(c, d, q)
      BY ONLY c \in Connections, <2>4, TargetApart
    <3> QED
      BY <3>1 DEF TargetMoved
  <2>6. ~is_shutdown(c.backend.status) /\ b.up
    BY <1>2, <1>10, <1>20 DEF TargetEnd, TargetOpen
  <2>7. Ends(c, g, k, h, n, req, batch, removed) => Ends(d, g, k, h, n, req, batch, removed)
    BY <1>10, <2>3, <2>5, <2>6
       DEF Apart, Ends, Batch, Shed, Pending, UpClosing, DownClosing, Revived
  <2> QED
    BY <1>6, <1>9, <1>20, <2>5, <2>7 DEF TargetEnd
<1>21. CASE TargetRecv
  <2>1. b.out # <<>>
    BY <1>2, <1>10, <1>21 DEF TargetRecv
  <2>2. PICK q \in Streams : /\ q = Received(b) /\ q.in = b.in /\ q.out = Tail(b.out)
                             /\ q.end = b.end /\ q.up = b.up
    <3>1. Received(b).end = b.end /\ Received(b).up = b.up
      BY DEF Received, Streams
    <3> QED
      BY <2>1, <3>1, KernelSteps
  <2>3. d = [c EXCEPT !.backend = [c.backend EXCEPT !.stream = q]]
    BY <1>2, <1>4, <1>10, <1>21, <2>2 DEF TargetRecv, Connections
  <2>4. Apart(c, d) /\ d.dns = c.dns /\ d.proxy = c.proxy /\ d.backend.stream = q
    <3>1. TargetMoved(c, d, q)
      BY ONLY c \in Connections, <2>3, TargetApart
    <3> QED
      BY <3>1 DEF TargetMoved
  <2>5. PICK out \in Chunks, s \in Chunks : out = b.out /\ s = c.backend.send_buffer
    BY <1>11
  <2>6. out # <<>>
    BY <2>1, <2>5
  <2>7. PICK l \in Chunks, u \in Chunks :
          l = Append(g, Head(out)) /\ u = Tail(out) /\ l \o u = g \o out
    BY ONLY <2>6, g \in Chunks, out \in Chunks, HandedOn
  <2>8. l \o (u \o s) = g \o (out \o s)
    <3>1. Recut(l, u, g, out)
      BY <2>7 DEF Recut
    <3>2. Recut(l, u \o s, g, out \o s)
      BY <3>1, SameBehind
    <3> QED
      BY <3>2 DEF Recut
  <2>9. AllUp(d, l, k) = AllUp(c, g, k) /\ AllDown(d, h, n) = AllDown(c, h, n)
    BY <1>10, <2>2, <2>4, <2>5, <2>7, <2>8 DEF AllUp, AllDown, Held, Apart
  <2>10. Ends(c, g, k, h, n, req, batch, removed) => Ends(d, l, k, h, n, req, batch, removed)
    BY <1>10, <2>2, <2>4, <2>9
       DEF Apart, Ends, Batch, Shed, Pending, UpClosing, DownClosing, Revived
  <2>11. got'.target = l /\ got'.client = h /\ sent' = sent
    BY <1>2, <1>3, <1>10, <1>21, <2>5, <2>7 DEF TargetRecv, Around
  <2> QED
    BY <1>2, <1>4, <1>6, <1>8, <2>4, <2>10, <2>11
<1>22. CASE DnsAnswer
  <2>1. PICK ip \in {"hit", "fail"} : conn' = [conn EXCEPT !.dns = ip]
    BY <1>22 DEF DnsAnswer
  <2>2. /\ d.proxy = c.proxy /\ d.backend = c.backend /\ d.status = c.status
        /\ d.target_addr = c.target_addr /\ d.dns = ip /\ c.dns = "asked"
    BY <1>2, <1>4, <1>22, <2>1 DEF DnsAnswer, Connections
  <2>3. Apart(c, d)
    BY <2>2 DEF Apart
  <2>4. AllUp(d, g, k) = AllUp(c, g, k) /\ AllDown(d, h, n) = AllDown(c, h, n)
    BY <2>2 DEF AllUp, AllDown
  <2>5. Ends(c, g, k, h, n, req, batch, removed) => Ends(d, g, k, h, n, req, batch, removed)
    BY <2>2, <2>4 DEF Ends, Batch, Shed, Pending, UpClosing, DownClosing, Revived
  <2> QED
    BY <1>6, <1>9, <1>22, <2>3, <2>5 DEF DnsAnswer
<1> QED
  BY <1>13, <1>14, <1>15, <1>16, <1>17, <1>18, <1>19, <1>20, <1>21, <1>22 DEF Peers

\* Everything a closed side waited for has left the server.
LEMMA ClosingShows ==
  ASSUME Flow, Closing
  PROVE  RemainingDataSent
<1>1. PICK c \in Connections, g \in Chunks, h \in Chunks, m \in Nat, n \in Nat, req \in RequestKinds :
        /\ c = conn /\ g = got.target /\ h = got.client /\ m = sent.client /\ n = sent.target
        /\ req = request
  BY FlowParts, Numbers DEF Sound, Sane
<1>2. PICK k : k = PayloadOf(m, req) /\ k = Payload
  BY <1>1 DEF PayloadOf, Payload
<1>3. loop = "removed" /\ request # "domain" => destroyed(conn)
  BY DEF Closing
<1>4. ASSUME ~expired, c.backend.kind = "tcp"
      PROVE  Ends(c, g, k, h, n, req, batch, removed)
  BY <1>1, <1>2, <1>4 DEF Closing
<1>5. ASSUME ~expired, c.backend.kind = "tcp", is_shutdown(c.backend.status),
             c.backend.stream.end = "open", c.proxy.stream.end = "fin"
      PROVE  AtTarget = Count(Payload)
  <2>1. AllUp(c, g, k) /\ c.backend.send_buffer = <<>>
    <3>1. c.backend.status # "Established"
      BY <1>5 DEF is_shutdown
    <3> QED
      BY <1>4, <1>5, <3>1 DEF Ends, UpClosing
  <2>2. c.backend.stream.out \in Chunks
    BY ConnectionParts
  <2>3. c.backend.stream.out \o <<>> = c.backend.stream.out
    BY <2>2, NothingJoined
  <2> QED
    BY <1>1, <1>2, <2>1, <2>3 DEF AllUp, Held, AtTarget
<1>6. ASSUME ~expired, c.backend.kind = "tcp", is_shutdown(c.proxy.status),
             is_shutdown(c.backend.status), c.proxy.stream.end = "open",
             c.backend.stream.end = "fin"
      PROVE  AtClient = Count(sent.target)
  <2>1. DownClosing(c, h, n)
    BY <1>4, <1>6 DEF Ends, Revived
  <2>2. AllDown(c, h, n) /\ c.proxy.session = <<>>
    BY <1>6, <2>1 DEF DownClosing
  <2>3. c.proxy.stream.out \in Chunks
    BY ConnectionParts
  <2>4. c.proxy.stream.out \o <<>> = c.proxy.stream.out
    BY <2>3, NothingJoined
  <2> QED
    BY <1>1, <2>2, <2>4 DEF AllDown, AtClient
<1> QED
  BY <1>1, <1>3, <1>5, <1>6 DEF RemainingDataSent

\* "peer is closed, sending remaining data": a side that is shut down because the
\* other ended has been given everything the other sent, and a connection with a
\* side that is still open is not dropped (but for a domain, see the property).
THEOREM RemainderIsSent ==
  Spec => []RemainingDataSent
<1>1. Init => Closing
  BY ClosingInit
<1>2. Flow /\ Closing /\ [Next]_vars => Closing'
  <2> SUFFICES ASSUME Flow, Closing, [Next]_vars PROVE Closing'
    OBVIOUS
  <2>1. CASE Server
    BY <2>1, ServerCloses
  <2>2. CASE Timeout
    BY <2>2, TimeoutCloses
  <2>3. CASE Peers
    BY <2>3, PeersClose
  <2>4. CASE UNCHANGED vars
    BY <2>4 DEF Closing, vars, request
  <2> QED
    BY <2>1, <2>2, <2>3, <2>4 DEF Next, PollTimesOut, Finished
<1>3. Flow /\ Closing => RemainingDataSent
  BY ClosingShows
<1> QED
  BY <1>1, <1>2, <1>3, FlowHolds, PTL DEF Spec
=============================================================================
