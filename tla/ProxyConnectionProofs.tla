----------------------- MODULE ProxyConnectionProofs -----------------------
(***************************************************************************)
(* Theorems about ProxyConnection, for every setting, every number of      *)
(* chunks and every size of the sockets' buffers: nothing is lost, doubled *)
(* or overtaken in either direction, and what is left is sent before a     *)
(* side is closed because the other ended.                                 *)
(*                                                                         *)
(* A handler is a chain of operators on the connection's record.  Works    *)
(* says what every link of such a chain does to the two streams of data    *)
(* that run through the record, and Closing what holds of its two statuses *)
(* between any two links.                                                  *)
(***************************************************************************)
EXTENDS ProxyConnection, TlsConnProofs

-----------------------------------------------------------------------------
(* Front parts of sequences *)

\* t begins with s.
FrontOf(s, t) == s \in Chunks /\ t \in Chunks /\ \E u \in Chunks : s \o u = t

\* What comes first is a front part.
LEMMA FrontPart ==
  ASSUME NEW s \in Chunks, NEW u \in Chunks
  PROVE  FrontOf(s, s \o u)
BY Joined DEF FrontOf

LEMMA FrontSelf ==
  ASSUME NEW s \in Chunks
  PROVE  FrontOf(s, s)
BY NothingJoined DEF FrontOf

LEMMA FrontTwice ==
  ASSUME NEW s, NEW t, NEW u, FrontOf(s, t), FrontOf(t, u)
  PROVE  FrontOf(s, u)
<1>1. PICK x \in Chunks : s \o x = t
  BY DEF FrontOf
<1>2. PICK y \in Chunks : t \o y = u
  BY DEF FrontOf
<1>3. s \in Chunks /\ u \in Chunks
  BY DEF FrontOf
<1>4. Regroups(s, x, y)
  BY <1>3, Regrouping, Zenon
<1>5. x \o y \in Chunks
  BY Joined
<1> QED
  BY <1>1, <1>2, <1>3, <1>4, <1>5 DEF FrontOf, Regroups

\* What comes before both changes nothing.
LEMMA FrontBehind ==
  ASSUME NEW g \in Chunks, NEW s, NEW t, FrontOf(s, t)
  PROVE  FrontOf(g \o s, g \o t)
<1>1. PICK x \in Chunks : s \o x = t
  BY DEF FrontOf
<1>2. s \in Chunks /\ t \in Chunks
  BY DEF FrontOf
<1>3. Regroups(g, s, x)
  BY <1>2, Regrouping, Zenon
<1>4. g \o s \in Chunks /\ g \o t \in Chunks
  BY <1>2, Joined
<1> QED
  BY <1>1, <1>3, <1>4 DEF FrontOf, Regroups

\* A front part is found by its length.
LEMMA FrontCut ==
  ASSUME NEW s, NEW t, FrontOf(s, t)
  PROVE  s = SubSeq(t, 1, Len(s))
<1>1. PICK u \in Chunks : s \o u = t
  BY DEF FrontOf
<1>2. s \in Chunks /\ t \in Chunks /\ Len(s) \in Nat /\ Len(u) \in Nat
  BY LenProperties DEF FrontOf, Chunks
<1>3. Len(t) = Len(s) + Len(u) /\ \A i \in 1 .. Len(s) : t[i] = s[i]
  BY <1>1, <1>2, ConcatProperties DEF Chunks
<1>4. \A i \in 1 .. Len(s) : t[i] \in Nat
  BY <1>2, <1>3, ElementOfSeq DEF Chunks
<1>5. PICK n \in Nat : n = Len(s)
  BY <1>2
<1>6. /\ SubSeq(t, 1, n) \in Seq(Nat) /\ Len(SubSeq(t, 1, n)) = n
      /\ \A i \in 1 .. n : SubSeq(t, 1, n)[i] = t[i]
  BY <1>2, <1>3, <1>4, <1>5, SubSeqProperties DEF Chunks
<1> QED
  BY <1>2, <1>3, <1>5, <1>6, SeqEqual DEF Chunks

\* A front part of what is counted is counted, and so it is when one more is.
LEMMA FrontCounts ==
  ASSUME NEW s, NEW n \in Nat, FrontOf(s, Count(n))
  PROVE  Prefix(s, n) /\ FrontOf(s, Count(n + 1))
<1>1. PICK u \in Chunks : s \o u = Count(n)
  BY DEF FrontOf
<1>2. s \in Chunks /\ Count(n) \in Chunks /\ Count(n + 1) \in Chunks
  BY Counting, n + 1 \in Nat DEF FrontOf
<1>3. Prefix(s, n)
  BY <1>1, <1>2, FrontIsPrefix
<1>4. s \o Append(u, n + 1) = Count(n + 1)
  BY <1>1, <1>2, CountsOn
<1>5. Append(u, n + 1) \in Chunks
  BY OneMore, n + 1 \in Nat
<1> QED
  BY <1>2, <1>3, <1>4, <1>5 DEF FrontOf

\* An empty sequence has empty parts.
LEMMA EmptyParts ==
  ASSUME NEW s \in Chunks, NEW t \in Chunks, s \o t = <<>>
  PROVE  s = <<>> /\ t = <<>>
<1>1. Len(s) \in Nat /\ Len(t) \in Nat /\ Len(s) + Len(t) = 0
  BY Joined, NothingJoined
<1> QED
  BY <1>1, NothingJoined

-----------------------------------------------------------------------------
(* The TLS connection on the client's side *)

\* What waits in the session, and all that is on its way to the server.
Pending(p) == p.session \o p.plain
Queue(p) == p.stream.out \o Pending(p)

\* Nothing waits for the end of a handshake that has ended, and nothing ends
\* that is not connected.
TlsSound(p) ==
  /\ p \in TlsConns /\ p.side = "client"
  /\ Len(p.stream.out) <= Cap
  /\ p.tls \in {"finish", "up"} => p.plain = <<>>
  /\ ~p.stream.up => p.stream.end = "open"

LEMMA TlsParts ==
  ASSUME NEW p \in TlsConns
  PROVE  /\ p.stream \in Streams /\ p.status \in Statuses
         /\ p.session \in Chunks /\ p.plain \in Chunks /\ p.stream.in \in Chunks
         /\ p.stream.out \in Chunks /\ Pending(p) \in Chunks /\ Queue(p) \in Chunks
<1>1. /\ p.stream \in Streams /\ p.status \in Statuses
      /\ p.session \in Chunks /\ p.plain \in Chunks /\ p.stream.in \in Chunks
      /\ p.stream.out \in Chunks
  BY DEF TlsConns, Streams
<1>2. Pending(p) \in Chunks
  BY <1>1, Joined DEF Pending
<1> QED
  BY <1>1, <1>2, Joined DEF Queue

\* p after a read of all the socket holds.
Drained(p, r) ==
  /\ TlsSound(r)
  /\ r.stream = [p.stream EXCEPT !.in = <<>>]
  /\ r.stream.in = <<>> /\ r.stream.end = p.stream.end /\ r.stream.out = p.stream.out
  /\ r.status = IF p.stream.end # "open" THEN shutdown(p.status) ELSE p.status
  /\ Queue(r) = Queue(p)
  /\ r.tls = "up" => p.tls = "up" /\ r.session = p.session /\ r.plain = p.plain

\* do_read of the client's side: the end of the handshake moves what waited
\* for it into the session, behind what is there.
LEMMA TlsClientReads ==
  ASSUME NEW p, TlsSound(p), NEW r, r = tls_do_read(p)
  PROVE  Drained(p, r)
<1>1. /\ p \in TlsConns /\ p.stream \in Streams /\ p.status \in Statuses
      /\ p.session \in Chunks /\ p.plain \in Chunks /\ p.stream.in \in Chunks
      /\ p.stream.out \in Chunks /\ p.side = "client"
  BY TlsParts DEF TlsSound
<1>2. PICK k : k = [p.stream EXCEPT !.in = <<>>]
  OBVIOUS
<1>3. /\ k \in Streams /\ k.in = <<>> /\ k.end = p.stream.end /\ k.out = p.stream.out
      /\ k.up = p.stream.up
  BY <1>1, <1>2, NothingJoined DEF Streams
<1>4. PICK st : st = IF p.stream.end # "open" THEN shutdown(p.status) ELSE p.status
  OBVIOUS
<1>5. st \in Statuses
  BY <1>1, <1>4, LifeCycle
<1>6. <<>> \in Chunks
  BY <1>1, NothingJoined
<1>7. CASE p.tls = "hello"
  <2>1. r = [p EXCEPT !.stream = k, !.tls = "finish", !.session = p.session \o p.plain,
                      !.plain = <<>>, !.status = st]
    BY <1>7, <1>1, <1>2, <1>4 DEF tls_do_read
  <2>2. p.session \o p.plain \in Chunks /\ (p.session \o p.plain) \o <<>> = p.session \o p.plain
    <3>1. PICK x \in Chunks : x = p.session \o p.plain
      BY <1>1, Joined
    <3> QED
      BY <3>1, NothingJoined
  <2>3. /\ r \in TlsConns /\ r.side = "client" /\ r.stream = k /\ r.tls = "finish"
        /\ r.session = p.session \o p.plain /\ r.plain = <<>> /\ r.status = st
    BY <1>1, <1>3, <1>5, <1>6, <2>1, <2>2 DEF TlsConns
  <2>4. Pending(r) = Pending(p)
    BY <2>2, <2>3 DEF Pending
  <2> QED
    BY <1>2, <1>3, <1>4, <1>6, <2>3, <2>4 DEF Drained, TlsSound, Queue
<1>8. CASE p.tls # "hello"
  <2>1. r = [p EXCEPT !.stream = k, !.tls = p.tls, !.session = p.session,
                      !.plain = p.plain, !.status = st]
    BY <1>8, <1>1, <1>2, <1>4 DEF tls_do_read
  <2>2. /\ r \in TlsConns /\ r.side = "client" /\ r.stream = k /\ r.tls = p.tls
        /\ r.session = p.session /\ r.plain = p.plain /\ r.status = st
    BY <1>1, <1>3, <1>5, <2>1 DEF TlsConns
  <2> QED
    BY <1>2, <1>3, <1>4, <1>6, <2>2 DEF Drained, TlsSound, Queue, Pending
<1> QED
  BY <1>7, <1>8

\* p after data was put behind what it has for the server, s after a flush.
Took(p, d, w) ==
  /\ TlsSound(w) /\ w.stream = p.stream /\ w.status = p.status /\ w.tls = p.tls
  /\ Queue(w) = Queue(p) \o d
  /\ d = <<>> => w.session = p.session /\ w.plain = p.plain

\* write_session of the client's side: behind the handshake into the session,
\* before into what waits for it.
LEMMA TlsClientWrites ==
  ASSUME NEW p, TlsSound(p), NEW d \in Chunks, NEW w, w = write_session(p, d)
  PROVE  Took(p, d, w)
<1>1. PICK out, session, plain :
        out = p.stream.out /\ session = p.session /\ plain = p.plain
  OBVIOUS
<1>2. /\ p \in TlsConns /\ out \in Chunks /\ session \in Chunks /\ plain \in Chunks
      /\ p.side = "client"
  BY <1>1, TlsParts DEF TlsSound
<1>3. session \o d \in Chunks /\ plain \o d \in Chunks /\ session \o plain \in Chunks
  BY <1>2, Joined
<1>4. Regroups(session, plain, d)
  BY <1>2, Regrouping, Zenon
<1>5. PICK x \in Chunks : x = session \o plain
  BY <1>3
<1>6. Regroups(out, x, d)
  BY <1>2, Regrouping, Zenon
<1>7. session \o <<>> = session /\ plain \o <<>> = plain
      /\ (session \o d) \o <<>> = session \o d
  <2>1. PICK y \in Chunks : y = session \o d
    BY <1>3
  <2> QED
    BY <1>2, <2>1, NothingJoined
<1>8. CASE p.tls \in {"finish", "up"}
  <2>1. w = [p EXCEPT !.session = session \o d]
    BY <1>8, <1>1, <1>2 DEF write_session
  <2>2. /\ w \in TlsConns /\ w.side = "client" /\ w.stream = p.stream /\ w.tls = p.tls
        /\ w.session = session \o d /\ w.plain = p.plain /\ w.status = p.status
    BY <1>2, <1>3, <2>1 DEF TlsConns
  <2>3. plain = <<>>
    BY <1>1, <1>8 DEF TlsSound
  <2>4. Pending(w) = x \o d
    BY <1>1, <1>5, <1>7, <2>2, <2>3 DEF Pending
  <2>5. Queue(w) = Queue(p) \o d
    BY <1>1, <1>5, <1>6, <2>2, <2>4 DEF Queue, Pending, Regroups
  <2> QED
    BY <1>1, <1>7, <2>2, <2>5 DEF Took, TlsSound
<1>9. CASE p.tls \notin {"finish", "up"}
  <2>1. w = [p EXCEPT !.plain = plain \o d]
    BY <1>9, <1>1, <1>2 DEF write_session
  <2>2. /\ w \in TlsConns /\ w.side = "client" /\ w.stream = p.stream /\ w.tls = p.tls
        /\ w.session = p.session /\ w.plain = plain \o d /\ w.status = p.status
    BY <1>2, <1>3, <2>1 DEF TlsConns
  <2>3. Pending(w) = x \o d
    BY <1>1, <1>4, <1>5, <2>2 DEF Pending, Regroups
  <2>4. Queue(w) = Queue(p) \o d
    BY <1>1, <1>5, <1>6, <2>2, <2>3 DEF Queue, Pending, Regroups
  <2> QED
    BY <1>1, <1>7, <1>9, <2>2, <2>4 DEF Took, TlsSound
<1> QED
  BY <1>8, <1>9

\* p after d was put into its queue and the queue was flushed.
Carried(p, d, s) ==
  /\ TlsSound(s) /\ Queue(s) = Queue(p) \o d
  /\ s.stream.in = p.stream.in /\ s.stream.end = p.stream.end
  /\ s.status \in {p.status, shutdown(p.status)}
  /\ s.status = p.status \/ p.stream.end = "rst"
  /\ is_shutdown(p.status) =>
       s.tls = p.tls /\ (d = <<>> => s.session = p.session /\ s.plain = p.plain)

LEMMA TlsClientSends ==
  ASSUME NEW p, TlsSound(p), NEW s, s = tls_do_send(p)
  PROVE  Carried(p, <<>>, s)
<1>1. p \in TlsConns /\ Len(p.stream.out) <= Cap
  BY DEF TlsSound
<1>2. Flush(p, s)
  BY <1>1, TlsSends, Zenon
<1>3. s \in TlsConns
  BY <1>2 DEF Flush
<1>4. PICK out, session, plain, out2, session2 :
        /\ out = p.stream.out /\ session = p.session /\ plain = p.plain
        /\ out2 = s.stream.out /\ session2 = s.session /\ s.plain = plain
  BY <1>2 DEF Flush
<1>5. /\ out \in Chunks /\ session \in Chunks /\ plain \in Chunks
      /\ out2 \in Chunks /\ session2 \in Chunks /\ out2 \o session2 = out \o session
  BY <1>1, <1>2, <1>3, <1>4, TlsParts DEF Flush
<1>6. Regroups(out, session, plain) /\ Regroups(out2, session2, plain)
  BY <1>5, Regrouping, Zenon
<1>7. Queue(s) = Queue(p)
  BY <1>4, <1>5, <1>6 DEF Queue, Pending, Regroups
<1>8. Queue(p) \o <<>> = Queue(p)
  BY <1>1, TlsParts, NothingJoined
<1>9. TlsSound(s)
  BY <1>2 DEF TlsSound, Flush
<1>10. is_shutdown(p.status) => s.tls = p.tls
  <2> SUFFICES ASSUME is_shutdown(p.status) PROVE s.tls = p.tls
    OBVIOUS
  <2>1. p.status # "Connecting"
    BY DEF is_shutdown
  <2>2. s = [p EXCEPT !.writable = TRUE] \/ s = [p EXCEPT !.writable = TRUE, !.status = shutdown(p.status)]
    BY <2>1 DEF tls_do_send
  <2> QED
    BY <1>1, <2>2 DEF TlsConns
<1> QED
  BY <1>2, <1>7, <1>8, <1>9, <1>10 DEF Carried, Flush

LEMMA TlsClientPushes ==
  ASSUME NEW p, TlsSound(p), NEW d \in Chunks, NEW s, s = tls_do_send(write_session(p, d))
  PROVE  Carried(p, d, s)
<1>1. PICK w : w = write_session(p, d)
  OBVIOUS
<1>2. Took(p, d, w)
  BY <1>1, TlsClientWrites, Zenon
<1>3. TlsSound(w) /\ s = tls_do_send(w)
  BY <1>1, <1>2 DEF Took
<1>4. Carried(w, <<>>, s)
  BY <1>3, TlsClientSends, Zenon
<1>5. Queue(w) \o <<>> = Queue(w)
  BY <1>3, TlsParts, NothingJoined DEF TlsSound
<1> QED
  BY <1>2, <1>4, <1>5 DEF Carried, Took

-----------------------------------------------------------------------------
(* The client's socket *)

Held(b) == b.stream.out \o b.send_buffer

LEMMA ClientParts ==
  ASSUME NEW b \in Clients
  PROVE  /\ b.stream \in Streams /\ b.status \in Statuses /\ b.send_buffer \in Chunks
         /\ b.stream.in \in Chunks /\ b.stream.out \in Chunks /\ Held(b) \in Chunks
<1>1. /\ b.stream \in Streams /\ b.status \in Statuses /\ b.send_buffer \in Chunks
      /\ b.stream.in \in Chunks /\ b.stream.out \in Chunks
  BY DEF Clients, Streams
<1> QED
  BY <1>1, Joined DEF Held

\* b after it was given data: only a client that was reset, or is shut down
\* already, gives up what it holds, and then nothing of data counts.
Given(b, data, r) ==
  /\ r \in Clients /\ Len(r.stream.out) <= Cap
  /\ r.stream.in = b.stream.in /\ r.stream.end = b.stream.end
  /\ r.status \in {b.status, shutdown(b.status)}
  /\ r.status = b.status \/ b.stream.end = "rst"
  /\ FrontOf(Held(r), Held(b) \o data)
  /\ is_shutdown(b.status) => FrontOf(Held(r), Held(b))
  /\ ~is_shutdown(r.status) => Held(r) = Held(b) \o data
  /\ b.send_buffer = <<>> /\ data = <<>> => r.send_buffer = <<>> /\ Held(r) = Held(b) \o data

\* tcp_send.
LEMMA TcpGiven ==
  ASSUME NEW b \in Clients, Len(b.stream.out) <= Cap, NEW buffer \in Chunks, NEW r,
         r = tcp_send(b, buffer)
  PROVE  Given(b, buffer, r)
<1>1. PICK out, sb, data : out = b.stream.out /\ sb = b.send_buffer /\ data = sb \o buffer
  OBVIOUS
<1>2. out \in Chunks /\ sb \in Chunks /\ b.stream \in Streams /\ b.status \in Statuses
  BY <1>1, ClientParts
<1>3. /\ data \in Chunks /\ Len(data) = Len(sb) + Len(buffer)
      /\ Len(sb) \in Nat /\ Len(buffer) \in Nat
  BY <1>1, <1>2, Joined, NothingJoined
<1>4. Regroups(out, sb, buffer)
  BY <1>2, Regrouping, Zenon
<1>5. out \o data = Held(b) \o buffer
  BY <1>1, <1>4 DEF Regroups, Held
<1>6. /\ shutdown(b.status) \in Statuses /\ is_shutdown(shutdown(b.status))
      /\ is_shutdown(b.status) => shutdown(b.status) = b.status
  BY <1>2, LifeCycle DEF shutdown
<1>7. Held(b) \in Chunks /\ out \o <<>> = out /\ <<>> \o <<>> = <<>> /\ Len(<<>>) = 0
      /\ <<>> \in Chunks
  BY <1>2, ClientParts, NothingJoined
<1>8. FrontOf(out, out \o data) /\ FrontOf(out, out \o sb)
  BY <1>2, <1>3, FrontPart
<1>9. CASE data # <<>> /\ (is_shutdown(b.status) \/ b.stream.end = "rst")
  <2>1. r = [b EXCEPT !.send_buffer = <<>>, !.status = shutdown(b.status)]
    BY <1>9, <1>1 DEF tcp_send
  <2>2. /\ r \in Clients /\ r.stream = b.stream /\ r.send_buffer = <<>>
        /\ r.status = shutdown(b.status)
    BY <1>6, <1>7, <2>1 DEF Clients
  <2>3. Held(r) = out /\ Held(b) = out \o sb
    BY <1>1, <1>7, <2>2 DEF Held
  <2>4. sb = <<>> => buffer # <<>>
    BY <1>9, <1>1, <1>7
  <2>5. FrontOf(Held(r), Held(b) \o buffer) /\ FrontOf(Held(r), Held(b))
    BY <1>5, <1>8, <2>3
  <2> QED
    BY <1>1, <1>6, <1>9, <2>2, <2>4, <2>5 DEF Given
<1>10. CASE ~(data # <<>> /\ (is_shutdown(b.status) \/ b.stream.end = "rst"))
  <2>1. PICK k, n, w : k = b.stream /\ n = Taken(k, data) /\ w = WriteSome(k, data, n)
    OBVIOUS
  <2>2. r = [b EXCEPT !.send_buffer = Rest(data, n), !.stream = w]
    BY <1>10, <1>1, <2>1 DEF tcp_send
  <2>3. k \in Streams /\ Len(k.out) <= Cap /\ w = WriteSome(k, data, Taken(k, data))
    BY <1>2, <2>1
  <2>4. Wrote(k, data, w)
    BY <1>3, <2>3, Writes, Zenon
  <2>5. /\ w \in Streams /\ Len(w.out) <= Cap /\ w.in = b.stream.in /\ w.end = b.stream.end
        /\ Rest(data, n) \in Chunks /\ Len(Rest(data, n)) <= Len(data)
        /\ w.out \o Rest(data, n) = out \o data
    BY <1>1, <2>1, <2>4 DEF Wrote
  <2>6. /\ r \in Clients /\ r.stream = w /\ r.send_buffer = Rest(data, n)
        /\ r.status = b.status
    BY <2>2, <2>5 DEF Clients
  <2>7. Held(r) = Held(b) \o buffer
    BY <1>5, <2>5, <2>6 DEF Held
  <2>8. Held(r) \in Chunks /\ FrontOf(Held(r), Held(r))
    BY <2>6, ClientParts, FrontSelf
  <2>9. data = <<>> => Rest(data, n) = <<>>
    <3> SUFFICES ASSUME data = <<>> PROVE Rest(data, n) = <<>>
      OBVIOUS
    <3>1. Len(Rest(data, n)) \in Nat /\ Len(data) = 0
      BY <1>7, <2>5, NothingJoined
    <3>2. Len(Rest(data, n)) = 0
      BY <2>5, <3>1
    <3> QED
      BY <2>5, <3>2, NothingJoined
  <2>10. sb = <<>> /\ buffer = <<>> => data = <<>>
    BY <1>1, <1>7
  <2>11. is_shutdown(b.status) => FrontOf(Held(r), Held(b))
    <3> SUFFICES ASSUME is_shutdown(b.status) PROVE FrontOf(Held(r), Held(b))
      OBVIOUS
    <3>1. data = <<>>
      BY <1>10
    <3>2. buffer = <<>>
      BY <1>1, <1>2, <3>1, EmptyParts
    <3>3. Held(b) \o <<>> = Held(b)
      BY <1>7, NothingJoined
    <3> QED
      BY <2>7, <2>8, <3>2, <3>3
  <2> QED
    BY <1>1, <1>3, <2>5, <2>6, <2>7, <2>8, <2>9, <2>10, <2>11 DEF Given
<1> QED
  BY <1>9, <1>10

\* The client's part of SendClient.
ClientGiven(b, buffer) ==
  IF b.status = "Connecting" THEN [b EXCEPT !.send_buffer = b.send_buffer \o buffer]
  ELSE tcp_send(b, buffer)

LEMMA ClientTakes ==
  ASSUME NEW b \in Clients, Len(b.stream.out) <= Cap, NEW buffer \in Chunks, NEW r,
         r = ClientGiven(b, buffer)
  PROVE  Given(b, buffer, r)
<1>1. CASE b.status # "Connecting"
  <2>1. r = tcp_send(b, buffer)
    BY <1>1 DEF ClientGiven
  <2> QED
    BY <2>1, TcpGiven, Zenon
<1>2. CASE b.status = "Connecting"
  <2>1. PICK out, sb : out = b.stream.out /\ sb = b.send_buffer
    OBVIOUS
  <2>2. out \in Chunks /\ sb \in Chunks /\ Held(b) \in Chunks
    BY <2>1, ClientParts
  <2>3. sb \o buffer \in Chunks
    BY <2>2, Joined
  <2>4. Regroups(out, sb, buffer)
    BY <2>2, Regrouping, Zenon
  <2>5. r = [b EXCEPT !.send_buffer = sb \o buffer]
    BY <1>2, <2>1 DEF ClientGiven
  <2>6. /\ r \in Clients /\ r.stream = b.stream /\ r.send_buffer = sb \o buffer
        /\ r.status = b.status
    BY <2>3, <2>5 DEF Clients
  <2>7. Held(r) = Held(b) \o buffer
    BY <2>1, <2>4, <2>6 DEF Held, Regroups
  <2>8. FrontOf(Held(r), Held(r))
    BY <2>6, ClientParts, FrontSelf
  <2>9. ~is_shutdown(b.status)
    BY <1>2 DEF is_shutdown
  <2>10. <<>> \o <<>> = <<>>
    BY <2>2, NothingJoined
  <2> QED
    BY <2>1, <2>3, <2>6, <2>7, <2>8, <2>9, <2>10 DEF Given
<1> QED
  BY <1>1, <1>2

-----------------------------------------------------------------------------
(* The connection *)

Sound(c) ==
  /\ c \in Connections /\ TlsSound(c.server_conn)
  /\ Len(c.client.stream.out) <= Cap

\* All of the client's data that is on its way, and all of the server's.
Upward(c) == Queue(c.server_conn) \o c.client.stream.in
Downward(c) == Held(c.client) \o c.server_conn.stream.in

\* What the client may still get: a client that is shut down gets nothing new.
Owed(c) == IF is_shutdown(c.client.status) THEN Held(c.client) ELSE Downward(c)

\* Nothing of what the server sent has been thrown away.
Kept(c) ==
  \/ ~is_shutdown(c.client.status) /\ c.server_conn.stream.end # "bad"
  \/ c.client.stream.end = "open" /\ c.server_conn.stream.end = "fin"

\* A step of a handler: the client's data only moves, the server's moves or is
\* thrown away at its end.
Works(c, d) ==
  /\ Sound(d)
  /\ d.client.stream.end = c.client.stream.end
  /\ d.server_conn.stream.end = c.server_conn.stream.end
  /\ Upward(d) = Upward(c)
  /\ FrontOf(Owed(d), Owed(c))
  /\ Kept(d) => Kept(c) /\ Downward(d) = Downward(c)

LEMMA WorksTwice ==
  ASSUME NEW c, NEW d, NEW e, Works(c, d), Works(d, e)
  PROVE  Works(c, e)
<1>1. FrontOf(Owed(e), Owed(d)) /\ FrontOf(Owed(d), Owed(c))
  BY DEF Works
<1>2. FrontOf(Owed(e), Owed(c))
  BY <1>1, FrontTwice, Zenon
<1> QED
  BY <1>2 DEF Works

\* A side is shut down only because one of them ended.
Caused(c) ==
  /\ is_shutdown(c.client.status) \/ is_shutdown(c.server_conn.status) =>
       c.client.stream.end # "open" \/ c.server_conn.stream.end # "open"
  /\ c.server_conn.status = "PeerClosed" => is_shutdown(c.client.status)
  /\ c.client.status = "PeerClosed" => is_shutdown(c.server_conn.status)

\* When only the client ended, what it sent has been read by the time a side is
\* shut down, and the session flushed by the time the server's is; no handshake
\* ends after that, because nobody reads for a client that is shut down.
UpDone(c) ==
  c.server_conn.stream.end = "open" /\ c.client.stream.end = "fin" =>
    /\ is_shutdown(c.client.status) \/ is_shutdown(c.server_conn.status)
         => c.client.stream.in = <<>>
    /\ is_shutdown(c.server_conn.status)
         => is_shutdown(c.client.status) /\ c.server_conn.session = <<>>

\* The same when only the server ended.
DownDone(c) ==
  c.client.stream.end = "open" /\ c.server_conn.stream.end = "fin" =>
    /\ is_shutdown(c.client.status) \/ is_shutdown(c.server_conn.status)
         => c.server_conn.stream.in = <<>>
    /\ is_shutdown(c.client.status) => c.client.send_buffer = <<>>

Closing(c) == Caused(c) /\ UpDone(c) /\ DownDone(c)

\* A step of a handler that keeps Closing too.
Runs(c, d) == Works(c, d) /\ Closing(d)

LEMMA RunsTwice ==
  ASSUME NEW c, NEW d, NEW e, Runs(c, d), Runs(d, e)
  PROVE  Runs(c, e)
BY WorksTwice DEF Runs

LEMMA Parts ==
  ASSUME NEW c \in Connections
  PROVE  /\ c.client \in Clients /\ c.server_conn \in TlsConns
         /\ c.read_client \in BOOLEAN /\ c.read_server \in BOOLEAN
         /\ Upward(c) \in Chunks /\ Downward(c) \in Chunks /\ Owed(c) \in Chunks
<1>1. /\ c.client \in Clients /\ c.server_conn \in TlsConns
      /\ c.read_client \in BOOLEAN /\ c.read_server \in BOOLEAN
  BY DEF Connections
<1>2. /\ Queue(c.server_conn) \in Chunks /\ c.server_conn.stream.in \in Chunks
      /\ Held(c.client) \in Chunks /\ c.client.stream.in \in Chunks
  BY <1>1, TlsParts, ClientParts
<1>3. Upward(c) \in Chunks /\ Downward(c) \in Chunks
  BY <1>2, Joined DEF Upward, Downward
<1> QED
  BY <1>1, <1>2, <1>3 DEF Owed

\* A step that changes no data: the two statuses go on, and what is noted of
\* the sockets and of parked readers changes.
Still(c, d) ==
  /\ d \in Connections
  /\ d.client.stream.in = c.client.stream.in /\ d.client.stream.out = c.client.stream.out
  /\ d.client.stream.end = c.client.stream.end /\ d.client.send_buffer = c.client.send_buffer
  /\ d.server_conn.stream.in = c.server_conn.stream.in
  /\ d.server_conn.stream.out = c.server_conn.stream.out
  /\ d.server_conn.stream.end = c.server_conn.stream.end
  /\ d.server_conn.stream.up = c.server_conn.stream.up
  /\ d.server_conn.session = c.server_conn.session
  /\ d.server_conn.plain = c.server_conn.plain
  /\ d.server_conn.side = c.server_conn.side /\ d.server_conn.tls = c.server_conn.tls
  /\ is_shutdown(c.client.status) => is_shutdown(d.client.status)

LEMMA StillWorks ==
  ASSUME NEW c, Sound(c), NEW d, Still(c, d)
  PROVE  Works(c, d)
<1>1. Sound(d)
  BY DEF Sound, TlsSound, Still, Connections
<1>2. Upward(d) = Upward(c) /\ Downward(d) = Downward(c) /\ Held(d.client) = Held(c.client)
  BY DEF Still, Upward, Downward, Queue, Pending, Held
<1>3. /\ Held(c.client) \in Chunks /\ c.server_conn.stream.in \in Chunks
      /\ Downward(c) \in Chunks
  BY Parts, ClientParts, TlsParts DEF Sound
<1>4. FrontOf(Held(c.client), Downward(c))
  BY <1>3, FrontPart DEF Downward
<1>5. FrontOf(Owed(d), Owed(c))
  <2>1. FrontOf(Held(c.client), Held(c.client)) /\ FrontOf(Downward(c), Downward(c))
    BY <1>3, FrontSelf
  <2> QED
    BY <1>2, <1>4, <2>1 DEF Still, Owed
<1> QED
  BY <1>1, <1>2, <1>5 DEF Works, Still, Kept

\* The same when neither side is newly shut down.
LEMMA StillRuns ==
  ASSUME NEW c, Sound(c), Closing(c), NEW d, Still(c, d),
         is_shutdown(d.client.status) => is_shutdown(c.client.status),
         is_shutdown(d.server_conn.status) <=> is_shutdown(c.server_conn.status),
         d.client.status = "PeerClosed" => is_shutdown(d.server_conn.status),
         d.server_conn.status = "PeerClosed" => is_shutdown(d.client.status)
  PROVE  Runs(c, d)
<1>1. Works(c, d)
  BY StillWorks
<1>2. Closing(d)
  BY DEF Still, Closing, Caused, UpDone, DownDone
<1> QED
  BY <1>1, <1>2 DEF Runs

-----------------------------------------------------------------------------
(* The handlers' operators *)

\* The read side of the client's socket.
LEMMA ClientDrained ==
  ASSUME NEW b \in Clients, NEW r, r = TcpDrained(b)
  PROVE  /\ r \in Clients /\ r.stream.in = <<>> /\ r.stream.out = b.stream.out
         /\ r.stream.end = b.stream.end /\ r.send_buffer = b.send_buffer
         /\ r.status = IF b.stream.end # "open" THEN shutdown(b.status) ELSE b.status
<1>1. PICK k : k = [b.stream EXCEPT !.in = <<>>]
  OBVIOUS
<1>2. k \in Streams /\ k.in = <<>> /\ k.end = b.stream.end /\ k.out = b.stream.out
  BY <1>1, ClientParts, NothingJoined DEF Streams
<1>3. PICK st : st = IF b.stream.end # "open" THEN shutdown(b.status) ELSE b.status
  OBVIOUS
<1>4. st \in Statuses
  BY <1>3, ClientParts, LifeCycle
<1>5. r = [b EXCEPT !.stream = k, !.status = st]
  BY <1>1, <1>3 DEF TcpDrained
<1> QED
  BY <1>2, <1>3, <1>4, <1>5 DEF Clients

\* shutdown does nothing to what is shut down.
LEMMA ShutStays ==
  ASSUME NEW st \in Statuses, NEW t, t \in {st, shutdown(st)}
  PROVE  /\ is_shutdown(st) => t = st
         /\ t = st \/ (is_shutdown(t) /\ t = "Shutdown")
BY DEF shutdown, is_shutdown, Statuses

\* try_read_client.
LEMMA ReadsClient ==
  ASSUME NEW c, Sound(c), Closing(c), NEW d, d = try_read_client(c)
  PROVE  Runs(c, d)
<1>1. PICK b, p, r, s :
        /\ b = c.client /\ p = c.server_conn /\ r = TcpDrained(b)
        /\ s = tls_do_send(write_session(p, b.stream.in))
  OBVIOUS
<1>2. /\ c \in Connections /\ b \in Clients /\ b.stream.in \in Chunks /\ b.status \in Statuses
      /\ TlsSound(p) /\ p.status \in Statuses
  BY <1>1, Parts, ClientParts, TlsParts DEF Sound, TlsSound
<1>3. Carried(p, b.stream.in, s)
  BY <1>1, <1>2, TlsClientPushes, Zenon
<1>4. /\ r \in Clients /\ r.stream.in = <<>> /\ r.stream.out = b.stream.out
      /\ r.stream.end = b.stream.end /\ r.send_buffer = b.send_buffer
      /\ r.status = IF b.stream.end # "open" THEN shutdown(b.status) ELSE b.status
  BY <1>1, <1>2, ClientDrained, Zenon
<1>5. d = [c EXCEPT !.client = r, !.read_client = FALSE, !.server_conn = s]
  BY <1>1 DEF try_read_client
<1>6. d \in Connections /\ d.client = r /\ d.server_conn = s /\ TlsSound(s)
  BY <1>2, <1>3, <1>4, <1>5 DEF Connections, Carried, TlsSound
<1>7. Sound(d)
  BY <1>1, <1>4, <1>6 DEF Sound
<1>8. Upward(d) = Upward(c)
  <2>1. Queue(s) \in Chunks /\ Queue(s) \o <<>> = Queue(s)
    BY <1>6, TlsParts, NothingJoined DEF TlsSound
  <2> QED
    BY <1>1, <1>3, <1>4, <1>6, <2>1 DEF Upward, Carried
<1>9. Held(r) = Held(b) /\ Downward(d) = Downward(c)
  BY <1>1, <1>3, <1>4, <1>6 DEF Downward, Held, Carried
<1>10. /\ is_shutdown(b.status) => r.status = b.status
       /\ r.status = b.status \/ (is_shutdown(r.status) /\ r.status = "Shutdown")
       /\ is_shutdown(p.status) => s.status = p.status
       /\ s.status = p.status \/ (is_shutdown(s.status) /\ s.status = "Shutdown")
  <2>1. r.status \in {b.status, shutdown(b.status)} /\ s.status \in {p.status, shutdown(p.status)}
    BY <1>3, <1>4 DEF Carried
  <2> QED
    BY <1>2, <2>1, ShutStays, Zenon
<1>11. FrontOf(Owed(d), Owed(c))
  <2>1. /\ Held(b) \in Chunks /\ p.stream.in \in Chunks /\ Downward(c) \in Chunks
    BY <1>1, <1>2, Parts, ClientParts, TlsParts DEF TlsSound
  <2>2. FrontOf(Held(b), Downward(c)) /\ FrontOf(Held(b), Held(b))
        /\ FrontOf(Downward(c), Downward(c))
    BY <1>1, <2>1, FrontPart, FrontSelf DEF Downward
  <2> QED
    BY <1>1, <1>6, <1>9, <1>10, <2>2 DEF Owed
<1>12. Works(c, d)
  BY <1>1, <1>3, <1>4, <1>6, <1>7, <1>8, <1>9, <1>10, <1>11 DEF Works, Kept, Carried
<1>13. Caused(d)
  <2>1. Caused(c) /\ s.stream.end = p.stream.end /\ (s.status = p.status \/ p.stream.end = "rst")
    BY <1>3 DEF Closing, Carried
  <2> QED
    BY <1>1, <1>4, <1>6, <1>10, <2>1 DEF Caused
<1>14. UpDone(d)
  <2>1. UpDone(c) /\ s.stream.end = p.stream.end /\ (s.status = p.status \/ p.stream.end = "rst")
        /\ (is_shutdown(p.status) =>
              s.tls = p.tls /\ (b.stream.in = <<>> => s.session = p.session /\ s.plain = p.plain))
    BY <1>3 DEF Closing, Carried
  <2> QED
    BY <1>1, <1>4, <1>6, <1>10, <2>1 DEF UpDone
<1>15. DownDone(d)
  <2>1. DownDone(c) /\ s.stream.end = p.stream.end /\ (s.status = p.status \/ p.stream.end = "rst")
        /\ s.stream.in = p.stream.in
    BY <1>3 DEF Closing, Carried
  <2> QED
    BY <1>1, <1>4, <1>6, <1>10, <2>1 DEF DownDone
<1> QED
  BY <1>12, <1>13, <1>14, <1>15 DEF Runs, Closing

\* The flush of the session.
LEMMA SendsServer ==
  ASSUME NEW c, Sound(c), Closing(c), NEW d,
         d = [c EXCEPT !.server_conn = tls_do_send(c.server_conn)]
  PROVE  Runs(c, d)
<1>1. PICK b, p, s : b = c.client /\ p = c.server_conn /\ s = tls_do_send(p)
  OBVIOUS
<1>2. /\ c \in Connections /\ b \in Clients /\ b.stream.in \in Chunks /\ b.status \in Statuses
      /\ TlsSound(p) /\ p.status \in Statuses
  BY <1>1, Parts, ClientParts, TlsParts DEF Sound, TlsSound
<1>3. Carried(p, <<>>, s)
  BY <1>1, <1>2, TlsClientSends, Zenon
<1>4. d \in Connections /\ d.client = b /\ d.server_conn = s /\ TlsSound(s)
  BY <1>1, <1>2, <1>3 DEF Connections, Carried, TlsSound
<1>5. Sound(d)
  BY <1>1, <1>4 DEF Sound
<1>6. Queue(s) = Queue(p)
  <2>1. Queue(p) \in Chunks /\ Queue(p) \o <<>> = Queue(p)
    BY <1>2, TlsParts, NothingJoined DEF TlsSound
  <2> QED
    BY <1>3, <2>1 DEF Carried
<1>7. Upward(d) = Upward(c) /\ Downward(d) = Downward(c) /\ Owed(d) = Owed(c)
  <2>1. s.stream.in = p.stream.in
    BY <1>3 DEF Carried
  <2>2. Upward(d) = Upward(c)
    BY <1>1, <1>4, <1>6 DEF Upward
  <2>3. Downward(d) = Downward(c)
    BY <1>1, <1>4, <2>1 DEF Downward
  <2> QED
    BY <1>1, <1>4, <2>2, <2>3 DEF Owed
<1>8. /\ is_shutdown(p.status) => s.status = p.status
      /\ s.status = p.status \/ (is_shutdown(s.status) /\ s.status = "Shutdown")
  <2>1. s.status \in {p.status, shutdown(p.status)}
    BY <1>3 DEF Carried
  <2> QED
    BY <1>2, <2>1, ShutStays, Zenon
<1>9. Owed(c) \in Chunks /\ FrontOf(Owed(d), Owed(c))
  BY <1>2, <1>7, Parts, FrontSelf
<1>10. Works(c, d)
  BY <1>1, <1>3, <1>4, <1>5, <1>7, <1>9 DEF Works, Kept, Carried
<1>11. Closing(d)
  <2>1. /\ s.stream.end = p.stream.end /\ (s.status = p.status \/ p.stream.end = "rst")
        /\ s.stream.in = p.stream.in
        /\ is_shutdown(p.status) =>
              s.tls = p.tls /\ s.session = p.session /\ s.plain = p.plain
    BY <1>3 DEF Carried
  <2>2. Caused(d)
    BY <1>1, <1>4, <1>8, <2>1 DEF Caused, Closing
  <2>3. UpDone(d)
    BY <1>1, <1>4, <1>8, <2>1 DEF UpDone, Closing
  <2>4. DownDone(d)
    BY <1>1, <1>4, <1>8, <2>1 DEF DownDone, Closing
  <2> QED
    BY <2>2, <2>3, <2>4 DEF Closing
<1> QED
  BY <1>10, <1>11 DEF Runs

\* try_send_server.
LEMMA TriesSendServer ==
  ASSUME NEW c, Sound(c), Closing(c), NEW d, d = try_send_server(c)
  PROVE  Runs(c, d)
<1>1. PICK s : s = [c EXCEPT !.server_conn = tls_do_send(c.server_conn)]
  OBVIOUS
<1>2. Runs(c, s)
  BY <1>1, SendsServer, Zenon
<1>3. d = s \/ d = try_read_client(s)
  BY <1>1 DEF try_send_server
<1>4. CASE d = s
  BY <1>2, <1>4
<1>5. CASE d = try_read_client(s)
  <2>1. Sound(s) /\ Closing(s)
    BY <1>2 DEF Runs, Works
  <2>2. Runs(s, d)
    BY <1>5, <2>1, ReadsClient, Zenon
  <2> QED
    BY <1>2, <2>2, RunsTwice, Zenon
<1> QED
  BY <1>3, <1>4, <1>5

\* SendClient with nothing new, and with what was just read from a server
\* whose socket is empty now.
LEMMA SendsClient ==
  ASSUME NEW c, Sound(c), NEW buffer \in Chunks, NEW d, d = SendClient(c, buffer)
  PROVE  /\ d \in Connections /\ d.server_conn = c.server_conn
         /\ d.read_client = c.read_client /\ d.read_server = c.read_server
         /\ Given(c.client, buffer, d.client)
<1>1. PICK b, r : b = c.client /\ r = ClientGiven(b, buffer)
  OBVIOUS
<1>2. c \in Connections /\ b \in Clients /\ Len(b.stream.out) <= Cap
  BY <1>1, Parts DEF Sound
<1>3. Given(b, buffer, r)
  BY <1>1, <1>2, ClientTakes, Zenon
<1>4. d = [c EXCEPT !.client = r]
  BY <1>1 DEF SendClient, BufferOrSend, ClientGiven
<1>5. r \in Clients
  BY <1>3 DEF Given
<1>6. /\ d \in Connections /\ d.server_conn = c.server_conn /\ d.client = r
      /\ d.read_client = c.read_client /\ d.read_server = c.read_server
  BY <1>2, <1>4, <1>5 DEF Connections
<1> QED
  BY <1>1, <1>3, <1>6

\* The client's side after it was given data, the server's side as it was.
LEMMA GivesClient ==
  ASSUME NEW c, Sound(c), Closing(c), NEW d, d = SendClient(c, <<>>)
  PROVE  Runs(c, d)
<1>1. PICK b, p, r : b = c.client /\ p = c.server_conn /\ r = d.client
  OBVIOUS
<1>2. /\ c \in Connections /\ b \in Clients /\ b.status \in Statuses /\ Held(b) \in Chunks
      /\ p.stream.in \in Chunks /\ b.send_buffer \in Chunks
  BY <1>1, Parts, ClientParts, TlsParts, NothingJoined DEF Sound, TlsSound
<1>3. <<>> \in Chunks /\ Len(<<>>) = 0 /\ Held(b) \o <<>> = Held(b)
  BY <1>2, NothingJoined
<1>4. /\ d \in Connections /\ d.server_conn = p /\ Given(b, <<>>, r)
  BY <1>1, <1>3, SendsClient, Zenon
<1>5. /\ r \in Clients /\ Len(r.stream.out) <= Cap
      /\ r.stream.in = b.stream.in /\ r.stream.end = b.stream.end
      /\ r.status \in {b.status, shutdown(b.status)}
      /\ r.status = b.status \/ b.stream.end = "rst"
      /\ FrontOf(Held(r), Held(b))
      /\ ~is_shutdown(r.status) => Held(r) = Held(b)
      /\ b.send_buffer = <<>> => r.send_buffer = <<>> /\ Held(r) = Held(b)
  BY <1>3, <1>4 DEF Given
<1>6. Sound(d)
  BY <1>1, <1>4, <1>5 DEF Sound
<1>7. /\ is_shutdown(b.status) => r.status = b.status
      /\ r.status = b.status \/ (is_shutdown(r.status) /\ r.status = "Shutdown")
  BY <1>2, <1>5, ShutStays, Zenon
<1>8. Upward(d) = Upward(c)
  BY <1>1, <1>4, <1>5 DEF Upward
<1>9. ~is_shutdown(r.status) \/ b.send_buffer = <<>> => Downward(d) = Downward(c)
  <2>1. ~is_shutdown(r.status) \/ b.send_buffer = <<>> => Held(r) = Held(b)
    BY <1>5
  <2> QED
    BY <1>1, <1>4, <2>1 DEF Downward
<1>10. FrontOf(Owed(d), Owed(c))
  <2>1. FrontOf(Held(b), Downward(c)) /\ FrontOf(Downward(c), Downward(c))
    BY <1>1, <1>2, FrontPart, FrontSelf, Parts DEF Downward
  <2>2. FrontOf(Held(r), Downward(c))
    BY <1>5, <2>1, FrontTwice, Zenon
  <2> QED
    BY <1>1, <1>4, <1>5, <1>7, <1>9, <2>1, <2>2 DEF Owed
<1>11. Works(c, d)
  <2>1. Kept(d) => Kept(c) /\ Downward(d) = Downward(c)
    <3>1. DownDone(c)
      BY DEF Closing
    <3> QED
      BY <1>1, <1>4, <1>5, <1>7, <1>9, <3>1 DEF Kept, DownDone
  <2> QED
    BY <1>1, <1>4, <1>5, <1>6, <1>8, <1>10, <2>1 DEF Works
<1>12. Closing(d)
  <2>1. Caused(d)
    BY <1>1, <1>4, <1>5, <1>7 DEF Caused, Closing
  <2>2. UpDone(d)
    BY <1>1, <1>4, <1>5, <1>7 DEF UpDone, Closing
  <2>3. DownDone(d)
    BY <1>1, <1>4, <1>5, <1>7 DEF DownDone, Closing
  <2> QED
    BY <2>1, <2>2, <2>3 DEF Closing
<1> QED
  BY <1>11, <1>12 DEF Runs

\* try_read_server, which is called for a client that can be written to.
LEMMA ReadsServer ==
  ASSUME NEW c, Sound(c), Closing(c), writable(c.client), NEW d, d = try_read_server(c)
  PROVE  Runs(c, d)
<1>1. PICK b, p, q, buffer, e :
        /\ b = c.client /\ p = c.server_conn /\ q = tls_do_read(p)
        /\ buffer = tls_read_data(p) /\ e = [c EXCEPT !.server_conn = q]
  OBVIOUS
<1>2. /\ c \in Connections /\ b \in Clients /\ b.status \in Statuses /\ Held(b) \in Chunks
      /\ TlsSound(p) /\ p.stream.in \in Chunks /\ p.status \in Statuses
      /\ b.send_buffer = <<>> /\ ~is_shutdown(b.status) /\ b.status # "Connecting"
  BY <1>1, Parts, ClientParts, TlsParts DEF Sound, TlsSound, writable, alive, is_shutdown
<1>3. Drained(p, q)
  BY <1>1, <1>2, TlsClientReads, Zenon
<1>4. e \in Connections /\ e.client = b /\ e.server_conn = q /\ TlsSound(q)
  BY <1>1, <1>2, <1>3 DEF Connections, Drained, TlsSound
<1>5. Sound(e)
  BY <1>1, <1>4 DEF Sound
<1>6. <<>> \in Chunks /\ Len(<<>>) = 0 /\ Held(b) \o <<>> = Held(b)
  BY <1>2, NothingJoined
<1>7. /\ buffer \in Chunks
      /\ p.stream.end # "bad" => buffer = p.stream.in
      /\ p.stream.end = "bad" => buffer = <<>>
  BY <1>1, <1>2, <1>6 DEF tls_read_data
<1>8. PICK f : f = SendClient(e, buffer)
  OBVIOUS
<1>9. PICK r : r = IF buffer = <<>> THEN b ELSE f.client
  OBVIOUS
<1>10. /\ d \in Connections /\ d.client = r /\ d.server_conn = q
       /\ buffer # <<>> => Given(b, buffer, r)
       /\ buffer = <<>> => r = b
  <2>1. /\ f \in Connections /\ f.server_conn = q /\ Given(b, buffer, f.client)
        /\ f.read_server \in BOOLEAN
    <3>1. /\ f \in Connections /\ f.server_conn = e.server_conn
          /\ Given(e.client, buffer, f.client)
      BY <1>5, <1>7, <1>8, SendsClient, Zenon
    <3> QED
      BY <1>4, <3>1, Parts
  <2>2. CASE buffer = <<>>
    <3>1. d = e
      BY <1>1, <2>2 DEF try_read_server
    <3> QED
      BY <1>4, <1>9, <2>2, <3>1
  <2>3. CASE buffer # <<>>
    <3>1. PICK x : x = (f.read_server /\ ~writable(f.client))
      OBVIOUS
    <3>2. d = [f EXCEPT !.read_server = x]
      BY <1>1, <1>8, <2>3, <3>1 DEF try_read_server
    <3>3. x \in BOOLEAN
      BY <3>1
    <3>4. d \in Connections /\ d.client = f.client /\ d.server_conn = f.server_conn
      BY <2>1, <3>2, <3>3 DEF Connections
    <3> QED
      BY <1>9, <2>1, <2>3, <3>4
  <2> QED
    BY <2>2, <2>3
<1>11. /\ r \in Clients /\ Len(r.stream.out) <= Cap
       /\ r.stream.in = b.stream.in /\ r.stream.end = b.stream.end
       /\ r.status \in {b.status, shutdown(b.status)}
       /\ r.status = b.status \/ b.stream.end = "rst"
       /\ FrontOf(Held(r), Held(b) \o buffer)
       /\ ~is_shutdown(r.status) => Held(r) = Held(b) \o buffer
  <2>1. CASE buffer = <<>>
    <3>1. r = b
      BY <1>10, <2>1
    <3>2. FrontOf(Held(b), Held(b))
      BY <1>2, FrontSelf
    <3> QED
      BY <1>1, <1>2, <1>6, <2>1, <3>1, <3>2 DEF Sound
  <2>2. CASE buffer # <<>>
    <3>1. Given(b, buffer, r)
      BY <1>10, <2>2
    <3> QED
      BY <3>1 DEF Given
  <2> QED
    BY <2>1, <2>2
<1>12. Sound(d)
  BY <1>4, <1>10, <1>11 DEF Sound
<1>13. /\ Queue(q) = Queue(p) /\ q.stream.in = <<>> /\ q.stream.end = p.stream.end
       /\ q.status = IF p.stream.end # "open" THEN shutdown(p.status) ELSE p.status
       /\ q.tls = "up" => p.tls = "up" /\ q.session = p.session /\ q.plain = p.plain
  BY <1>3 DEF Drained
<1>14. Upward(d) = Upward(c)
  BY <1>1, <1>10, <1>11, <1>13 DEF Upward
<1>15. Downward(d) = Held(r)
  <2>1. Held(r) \in Chunks /\ Held(r) \o <<>> = Held(r)
    BY <1>11, ClientParts, NothingJoined
  <2> QED
    BY <1>10, <1>13, <2>1 DEF Downward
<1>16. /\ is_shutdown(b.status) => r.status = b.status
       /\ r.status = b.status \/ (is_shutdown(r.status) /\ r.status = "Shutdown")
       /\ is_shutdown(p.status) => q.status = p.status
       /\ q.status = p.status \/ (is_shutdown(q.status) /\ q.status = "Shutdown")
  <2>1. q.status \in {p.status, shutdown(p.status)} /\ r.status \in {b.status, shutdown(b.status)}
    BY <1>11, <1>13
  <2> QED
    BY <1>2, <2>1, ShutStays, Zenon
<1>17. FrontOf(Owed(d), Owed(c))
  <2>1. Owed(c) = Downward(c) /\ Owed(d) = Held(r)
    BY <1>1, <1>2, <1>10, <1>15 DEF Owed
  <2>2. FrontOf(Held(b) \o buffer, Downward(c))
    <3>1. FrontOf(Held(b), Downward(c)) /\ FrontOf(Downward(c), Downward(c))
      BY <1>1, <1>2, FrontPart, FrontSelf, Parts DEF Downward
    <3> QED
      BY <1>1, <1>6, <1>7, <3>1 DEF Downward
  <2> QED
    BY <1>11, <2>1, <2>2, FrontTwice, Zenon
<1>18. Kept(d) => Kept(c) /\ Downward(d) = Downward(c)
  <2> SUFFICES ASSUME Kept(d) PROVE Kept(c) /\ Downward(d) = Downward(c)
    OBVIOUS
  <2>1. p.stream.end # "bad" /\ ~is_shutdown(r.status)
    BY <1>1, <1>2, <1>10, <1>11, <1>13 DEF Kept
  <2>2. Downward(d) = Held(b) \o p.stream.in
    BY <1>7, <1>11, <1>15, <2>1
  <2> QED
    BY <1>1, <1>2, <2>1, <2>2 DEF Kept, Downward
<1>19. Works(c, d)
  BY <1>1, <1>10, <1>11, <1>12, <1>13, <1>14, <1>17, <1>18 DEF Works
<1>20. Caused(d)
  BY <1>1, <1>10, <1>11, <1>13, <1>16 DEF Caused, Closing
<1>21. UpDone(d)
  BY <1>1, <1>2, <1>10, <1>11, <1>13, <1>16 DEF UpDone, Closing
<1>22. DownDone(d)
  BY <1>1, <1>2, <1>10, <1>11, <1>13, <1>16 DEF DownDone, Closing
<1> QED
  BY <1>19, <1>20, <1>21, <1>22 DEF Runs, Closing

\* try_send_client.
LEMMA TriesSendClient ==
  ASSUME NEW c, Sound(c), Closing(c), NEW d, d = try_send_client(c)
  PROVE  Runs(c, d)
<1>1. PICK s : s = SendClient(c, <<>>)
  OBVIOUS
<1>2. Runs(c, s)
  BY <1>1, GivesClient, Zenon
<1>3. CASE ~(writable(s.client) /\ s.read_server)
  <2>1. d = s
    BY <1>1, <1>3 DEF try_send_client
  <2> QED
    BY <1>2, <2>1
<1>4. CASE writable(s.client) /\ s.read_server
  <2>1. PICK e : e = try_read_server(s)
    OBVIOUS
  <2>2. Sound(s) /\ Closing(s)
    BY <1>2 DEF Runs, Works
  <2>3. Runs(s, e)
    BY <1>4, <2>1, <2>2, ReadsServer, Zenon
  <2>4. d = [e EXCEPT !.read_server = FALSE]
    BY <1>1, <1>4, <2>1 DEF try_send_client
  <2>5. Sound(e) /\ Closing(e)
    BY <2>3 DEF Runs, Works
  <2>6. d \in Connections /\ d.client = e.client /\ d.server_conn = e.server_conn
    BY <2>4, <2>5 DEF Sound, Connections
  <2>7. Still(e, d)
    BY <2>6 DEF Still
  <2>8. Runs(e, d)
    BY <2>5, <2>6, <2>7, StillRuns DEF Closing, Caused
  <2>9. Runs(c, e)
    BY <1>2, <2>3, RunsTwice, Zenon
  <2> QED
    BY <2>8, <2>9, RunsTwice, Zenon
<1> QED
  BY <1>3, <1>4

\* A connection as it is.
LEMMA RunsNot ==
  ASSUME NEW c, Sound(c), Closing(c)
  PROVE  Runs(c, c)
<1>1. Still(c, c)
  BY DEF Still, Sound
<1> QED
  BY <1>1, StillRuns DEF Closing, Caused

\* Parking a reader.
LEMMA Parks ==
  ASSUME NEW c, Sound(c), Closing(c), NEW d,
         \/ d = [c EXCEPT !.read_client = TRUE]
         \/ d = [c EXCEPT !.read_server = TRUE]
  PROVE  Runs(c, d)
<1>1. d \in Connections /\ d.client = c.client /\ d.server_conn = c.server_conn
  BY DEF Sound, Connections
<1>2. Still(c, d)
  BY <1>1 DEF Still
<1> QED
  BY <1>1, <1>2, StillRuns DEF Closing, Caused

\* The statuses of the two sides, set anew.
WithStatuses(c, st, tt) == [c EXCEPT !.client.status = st, !.server_conn.status = tt]

Restatused(c, st, tt, d) ==
  /\ d.client.status = st /\ d.server_conn.status = tt
  /\ (is_shutdown(c.client.status) => is_shutdown(st)) => Still(c, d)

LEMMA StatusesSet ==
  ASSUME NEW c \in Connections, NEW st \in Statuses, NEW tt \in Statuses, NEW d,
         d = WithStatuses(c, st, tt)
  PROVE  Restatused(c, st, tt, d)
<1>1. PICK b, p : b = [c.client EXCEPT !.status = st] /\ p = [c.server_conn EXCEPT !.status = tt]
  OBVIOUS
<1>2. c.client \in Clients /\ c.server_conn \in TlsConns
  BY Parts
<1>3. /\ b \in Clients /\ b.status = st /\ b.stream = c.client.stream
      /\ b.send_buffer = c.client.send_buffer
  BY <1>1, <1>2 DEF Clients
<1>4. /\ p \in TlsConns /\ p.status = tt /\ p.stream = c.server_conn.stream
      /\ p.session = c.server_conn.session /\ p.plain = c.server_conn.plain
      /\ p.side = c.server_conn.side /\ p.tls = c.server_conn.tls
  BY <1>1, <1>2 DEF TlsConns
<1>5. d = [c EXCEPT !.client = b, !.server_conn = p]
  BY <1>1 DEF WithStatuses, Connections
<1>6. d \in Connections /\ d.client = b /\ d.server_conn = p
  BY <1>3, <1>4, <1>5 DEF Connections
<1> QED
  BY <1>1, <1>3, <1>4, <1>6 DEF Still, Restatused

\* established for one of the sides.
LEMMA Establishes ==
  ASSUME NEW c, Sound(c), Closing(c), NEW d,
         \/ d = [c EXCEPT !.client.status = established(c.client.status)]
         \/ d = [c EXCEPT !.server_conn.status = established(c.server_conn.status)]
  PROVE  Runs(c, d)
<1>1. PICK b, p : b = c.client.status /\ p = c.server_conn.status
  OBVIOUS
<1>2. c \in Connections /\ b \in Statuses /\ p \in Statuses
  BY <1>1, Parts, ClientParts, TlsParts DEF Sound
<1>3. PICK st, tt : /\ d = WithStatuses(c, st, tt)
                    /\ st \in {b, established(b)} /\ tt \in {p, established(p)}
  <2>1. CASE d = [c EXCEPT !.client.status = established(c.client.status)]
    <3>1. c.server_conn = [c.server_conn EXCEPT !.status = p]
      BY <1>1, <1>2, Parts DEF TlsConns
    <3>2. d = WithStatuses(c, established(b), p)
      BY <1>1, <1>2, <2>1, <3>1 DEF WithStatuses, Connections
    <3> QED
      BY <3>2
  <2>2. CASE d = [c EXCEPT !.server_conn.status = established(c.server_conn.status)]
    <3>1. d = WithStatuses(c, b, established(p))
      BY <1>1, <1>2, <2>2 DEF WithStatuses, Connections, Clients, TlsConns
    <3> QED
      BY <3>1
  <2> QED
    BY <2>1, <2>2
<1>4. /\ st \in Statuses /\ (is_shutdown(st) <=> is_shutdown(b))
      /\ (st = "PeerClosed" => b = "PeerClosed")
      /\ tt \in Statuses /\ (is_shutdown(tt) <=> is_shutdown(p))
      /\ (tt = "PeerClosed" => p = "PeerClosed")
  BY <1>2, <1>3 DEF established, is_shutdown, Statuses
<1>5. d.client.status = st /\ d.server_conn.status = tt /\ Still(c, d)
  <2>1. Restatused(c, st, tt, d)
    BY <1>1, <1>2, <1>3, <1>4, StatusesSet, Zenon
  <2> QED
    BY <1>1, <1>2, <1>4, <2>1 DEF Restatused
<1> QED
  BY <1>1, <1>4, <1>5, StillRuns DEF Closing, Caused

\* Each side learns that the other is shut down.
LEMMA Propagates ==
  ASSUME NEW c, Sound(c), Closing(c), NEW d, d = PropagateClose(c)
  PROVE  Runs(c, d)
<1>1. PICK b, p : b = c.client.status /\ p = c.server_conn.status
  OBVIOUS
<1>2. c \in Connections /\ b \in Statuses /\ p \in Statuses
  BY <1>1, Parts, ClientParts, TlsParts DEF Sound
<1>3. PICK st, tt : /\ st = IF is_shutdown(p) THEN peer_closed(b) ELSE b
                    /\ tt = IF is_shutdown(b) THEN peer_closed(p) ELSE p
  OBVIOUS
<1>4. d = WithStatuses(c, st, tt)
  BY <1>1, <1>2, <1>3 DEF PropagateClose, WithStatuses, Connections, Clients, TlsConns
<1>5. /\ st \in Statuses /\ (is_shutdown(st) <=> is_shutdown(b))
      /\ (st = "PeerClosed" => b = "PeerClosed" \/ is_shutdown(p))
      /\ tt \in Statuses /\ (is_shutdown(tt) <=> is_shutdown(p))
      /\ (tt = "PeerClosed" => p = "PeerClosed" \/ is_shutdown(b))
  BY <1>2, <1>3 DEF peer_closed, is_shutdown, Statuses
<1>6. d.client.status = st /\ d.server_conn.status = tt /\ Still(c, d)
  <2>1. Restatused(c, st, tt, d)
    BY <1>1, <1>2, <1>4, <1>5, StatusesSet, Zenon
  <2> QED
    BY <1>1, <1>2, <1>4, <1>5, <2>1 DEF Restatused
<1> QED
  BY <1>1, <1>5, <1>6, StillRuns DEF Closing, Caused

\* check_status of both sides: a side that learned of the other's end and has
\* nothing left to send is done.
LEMMA ChecksBoth ==
  ASSUME NEW c, Sound(c), NEW d, d = CheckBoth(c)
  PROVE  Still(c, d) /\ Works(c, d) /\ (Closing(c) => Closing(d))
<1>1. PICK b, p, s :
        b = c.client.status /\ p = c.server_conn.status /\ s = c.server_conn
  OBVIOUS
<1>2. c \in Connections /\ b \in Statuses /\ p \in Statuses /\ s \in TlsConns
  BY <1>1, Parts, ClientParts, TlsParts DEF Sound
<1>3. PICK st, tt : /\ st = check_status(b, c.client.send_buffer = <<>>)
                    /\ tt = check_status(p, ~wants_write(s))
  OBVIOUS
<1>4. d = WithStatuses(c, st, tt)
  <2>1. tls_check_status(s) = [s EXCEPT !.status = tt]
    BY <1>1, <1>2, <1>3 DEF tls_check_status
  <2>2. d = [c EXCEPT !.client.status = st, !.server_conn = [s EXCEPT !.status = tt]]
    BY <1>1, <1>3, <2>1 DEF CheckBoth
  <2> QED
    BY <1>1, <1>2, <2>2 DEF WithStatuses, Connections
<1>5. /\ st \in Statuses /\ (is_shutdown(b) => is_shutdown(st))
      /\ (is_shutdown(st) /\ ~is_shutdown(b) => b = "PeerClosed" /\ c.client.send_buffer = <<>>)
      /\ (st = "PeerClosed" => b = "PeerClosed")
  BY <1>2, <1>3 DEF check_status, is_shutdown, Statuses
<1>6. /\ tt \in Statuses /\ (is_shutdown(p) => is_shutdown(tt))
      /\ (is_shutdown(tt) /\ ~is_shutdown(p) => p = "PeerClosed" /\ ~wants_write(s))
      /\ (tt = "PeerClosed" => p = "PeerClosed")
  BY <1>2, <1>3 DEF check_status, is_shutdown, Statuses
<1>7. d.client.status = st /\ d.server_conn.status = tt /\ Still(c, d)
  <2>1. Restatused(c, st, tt, d)
    BY <1>1, <1>2, <1>4, <1>5, <1>6, StatusesSet, Zenon
  <2> QED
    BY <1>1, <1>2, <1>4, <1>5, <2>1 DEF Restatused
<1>8. Works(c, d)
  BY <1>7, StillWorks
<1>9. Closing(c) => Closing(d)
  <2> SUFFICES ASSUME Closing(c) PROVE Closing(d)
    OBVIOUS
  <2>1. ~wants_write(s) => s.session = <<>>
    BY DEF wants_write
  <2>2. s.tls = "up" => s.plain = <<>>
    BY <1>1 DEF Sound, TlsSound
  <2>3. Caused(d)
    BY <1>1, <1>5, <1>6, <1>7 DEF Still, Caused, Closing
  <2>4. UpDone(d)
    BY <1>1, <1>5, <1>6, <1>7, <2>1, <2>2 DEF Still, Caused, UpDone, Closing
  <2>5. DownDone(d)
    BY <1>1, <1>5, <1>6, <1>7 DEF Still, Caused, DownDone, Closing
  <2> QED
    BY <2>3, <2>4, <2>5 DEF Closing
<1> QED
  BY <1>7, <1>8, <1>9

\* destroy throws no data away.
LEMMA Destroys ==
  ASSUME NEW c, Sound(c), NEW d, d = destroy(c)
  PROVE  Still(c, d) /\ Works(c, d)
<1>1. PICK b, p, e : /\ b = shutdown(c.client.status) /\ p = shutdown(c.server_conn.status)
                     /\ e = WithStatuses(c, b, p)
  OBVIOUS
<1>2. c \in Connections /\ b \in Statuses /\ p \in Statuses /\ is_shutdown(b)
  BY <1>1, Parts, ClientParts, TlsParts, LifeCycle DEF Sound
<1>3. Still(c, e)
  <2>1. Restatused(c, b, p, e)
    BY <1>1, <1>2, StatusesSet, Zenon
  <2> QED
    BY <1>1, <1>2, <2>1 DEF Restatused
<1>4. Sound(e)
  BY <1>3, StillWorks DEF Works
<1>5. d = CheckBoth(e)
  BY <1>1 DEF destroy, WithStatuses
<1>6. Still(e, d)
  BY <1>4, <1>5, ChecksBoth, Zenon
<1>7. Still(c, d)
  BY <1>3, <1>6 DEF Still
<1> QED
  BY <1>7, StillWorks

\* The end of ready.
LEMMA Concludes ==
  ASSUME NEW c, NEW e, Runs(c, e), NEW d, d = CheckBoth(PropagateClose(e))
  PROVE  Runs(c, d)
<1>1. PICK f : f = PropagateClose(e)
  OBVIOUS
<1>2. Sound(e) /\ Closing(e)
  BY DEF Runs, Works
<1>3. Runs(e, f)
  BY <1>1, <1>2, Propagates, Zenon
<1>4. Sound(f) /\ Closing(f) /\ d = CheckBoth(f)
  BY <1>1, <1>3 DEF Runs, Works
<1>5. Runs(f, d)
  BY <1>4, ChecksBoth DEF Runs
<1>6. Runs(c, f)
  BY <1>3, RunsTwice, Zenon
<1> QED
  BY <1>5, <1>6, RunsTwice, Zenon

\* Connection::ready for the client's socket.
LEMMA ReadiesClient ==
  ASSUME NEW c, Sound(c), Closing(c), NEW e, NEW d, d = ReadyClient(c, e)
  PROVE  Runs(c, d)
<1>1. PICK r, w : /\ r = IF e.r THEN ClientReadable(c) ELSE c
                  /\ w = IF e.w THEN ClientWritable(r) ELSE r
  OBVIOUS
<1>2. Runs(c, r)
  <2>1. \/ r = c \/ r = try_read_client(c) \/ r = [c EXCEPT !.read_client = TRUE]
    BY <1>1 DEF ClientReadable
  <2>2. Runs(c, c)
    BY RunsNot
  <2> QED
    BY <2>1, <2>2, ReadsClient, Parks
<1>3. Sound(r) /\ Closing(r)
  BY <1>2 DEF Runs, Works
<1>4. Runs(r, w)
  <2>1. CASE w = r
    BY <1>3, <2>1, RunsNot
  <2>2. CASE w = ClientWritable(r)
    <3>1. PICK f : f = [r EXCEPT !.client.status = established(r.client.status)]
      OBVIOUS
    <3>2. Runs(r, f)
      BY <1>3, <3>1, Establishes
    <3>3. Sound(f) /\ Closing(f) /\ w = try_send_client(f)
      BY <2>2, <3>1, <3>2 DEF Runs, Works, ClientWritable
    <3>4. Runs(f, w)
      BY <3>3, TriesSendClient, Zenon
    <3> QED
      BY <3>2, <3>4, RunsTwice, Zenon
  <2> QED
    BY <1>1, <2>1, <2>2
<1>5. Runs(c, w)
  BY <1>2, <1>4, RunsTwice, Zenon
<1>6. d = CheckBoth(PropagateClose(w))
  BY <1>1 DEF ReadyClient
<1> QED
  BY <1>5, <1>6, Concludes, Zenon

\* Connection::ready for the TLS socket.
LEMMA ReadiesTcp ==
  ASSUME NEW c, Sound(c), Closing(c), NEW e, NEW d, d = ReadyTcp(c, e)
  PROVE  Runs(c, d)
<1>1. PICK r, w : /\ r = IF e.r THEN ServerReadable(c) ELSE c
                  /\ w = IF e.w THEN ServerWritable(r) ELSE r
  OBVIOUS
<1>2. Runs(c, r)
  <2>1. \/ r = c \/ (writable(c.client) /\ r = try_read_server(c))
        \/ r = [c EXCEPT !.read_server = TRUE]
    BY <1>1 DEF ServerReadable
  <2>2. Runs(c, c)
    BY RunsNot
  <2> QED
    BY <2>1, <2>2, ReadsServer, Parks
<1>3. Sound(r) /\ Closing(r)
  BY <1>2 DEF Runs, Works
<1>4. Runs(r, w)
  <2>1. CASE w = r
    BY <1>3, <2>1, RunsNot
  <2>2. CASE w = ServerWritable(r)
    <3>1. PICK f : f = [r EXCEPT !.server_conn.status = established(r.server_conn.status)]
      OBVIOUS
    <3>2. Runs(r, f)
      BY <1>3, <3>1, Establishes
    <3>3. Sound(f) /\ Closing(f) /\ w = try_send_server(f)
      BY <2>2, <3>1, <3>2 DEF Runs, Works, ServerWritable
    <3>4. Runs(f, w)
      BY <3>3, TriesSendServer, Zenon
    <3> QED
      BY <3>2, <3>4, RunsTwice, Zenon
  <2> QED
    BY <1>1, <2>1, <2>2
<1>5. Runs(c, w)
  BY <1>2, <1>4, RunsTwice, Zenon
<1>6. d = CheckBoth(PropagateClose(w))
  BY <1>1 DEF ReadyTcp
<1> QED
  BY <1>5, <1>6, Concludes, Zenon

-----------------------------------------------------------------------------
(* The connection in its world *)

\* g and h are what the server and the client have received, n and m how many
\* chunks the client and the server have sent.
UpFlow(c, pl, g, n) ==
  IF pl \in {"conns", "out"} THEN g \o Upward(c) = Request(n)
  ELSE g = <<>> /\ Queue(c.server_conn) = <<>> /\ c.client.stream.in = Count(n)

DownFlow(c, h, m) ==
  /\ FrontOf(h \o Owed(c), Count(m))
  /\ Kept(c) => h \o Downward(c) = Count(m)

\* In the pool there is no client yet, and the server waits for a request.
Fresh(c, m) ==
  /\ c.client.status = "Connecting"
  /\ c.server_conn.status \in {"Connecting", "Established"}
  /\ c.server_conn.stream.in = <<>> /\ m = 0

Good(c, pl, g, h, n, m, ex) ==
  /\ Sound(c) /\ UpFlow(c, pl, g, n) /\ DownFlow(c, h, m)
  /\ pl = "pool" => Fresh(c, m)
  /\ pl \in {"conns", "out"} /\ ~ex => Closing(c)

\* The request and behind it what the client has sent.
LEMMA Requests ==
  ASSUME NEW n \in Nat
  PROVE  Request(n) \in Chunks /\ Request(n) = <<Header>> \o Count(n) /\ <<Header>> \in Chunks
<1>1. <<Header>> \in Chunks
  BY DEF Header, Chunks
<1> QED
  BY <1>1, Counting, Joined DEF Request

Requested(s, t, n) == s \o t = Request(n)

LEMMA RequestsOn ==
  ASSUME NEW s \in Chunks, NEW t \in Chunks, NEW n \in Nat, Requested(s, t, n)
  PROVE  Requested(s, Append(t, n + 1), n + 1)
<1>1. PICK y \in Nat : y = n + 1
  OBVIOUS
<1>2. PICK x \in Chunks : x = <<y>>
  <2>1. <<y>> \in Seq(Nat)
    OBVIOUS
  <2> QED
    BY <2>1 DEF Chunks
<1>3. PICK k, a : k = Count(n) /\ a = <<Header>>
  OBVIOUS
<1>4. k \in Chunks /\ a \in Chunks /\ Request(n) = a \o k
  BY <1>3, Counting, Requests
<1>5. Append(t, y) = t \o <<y>> /\ Append(k, y) = k \o <<y>>
  BY <1>4, AppendIsConcat DEF Chunks
<1>6. Append(k, y) = Count(n + 1)
  BY <1>1, <1>3, Counting
<1>7. Regroups(s, t, x) /\ Regroups(a, k, x)
  BY <1>4, Regrouping, Zenon
<1>8. Request(n + 1) = a \o (k \o x)
  BY <1>2, <1>3, <1>5, <1>6 DEF Request
<1> QED
  BY <1>1, <1>2, <1>4, <1>5, <1>7, <1>8 DEF Regroups, Requested

\* What Works says of the way down is what DownFlow needs.
LEMMA DownKept ==
  ASSUME NEW c, NEW d, Works(c, d), NEW h \in Chunks, NEW m, DownFlow(c, h, m)
  PROVE  DownFlow(d, h, m)
<1>1. FrontOf(Owed(d), Owed(c)) /\ FrontOf(h \o Owed(c), Count(m))
  BY DEF Works, DownFlow
<1>2. FrontOf(h \o Owed(d), h \o Owed(c))
  BY <1>1, FrontBehind, Zenon
<1>3. FrontOf(h \o Owed(d), Count(m))
  BY <1>1, <1>2, FrontTwice, Zenon
<1> QED
  BY <1>3 DEF Works, DownFlow

\* A handler's work in the table.
LEMMA GoodRuns ==
  ASSUME NEW c, NEW d, Runs(c, d), NEW g, NEW h \in Chunks, NEW n, NEW m, NEW ex,
         Good(c, "conns", g, h, n, m, ex)
  PROVE  Good(d, "conns", g, h, n, m, ex)
<1>1. DownFlow(d, h, m)
  BY DownKept DEF Runs, Good
<1> QED
  BY <1>1 DEF Runs, Works, Good, UpFlow

\* What is noted of the sockets.
LEMMA GoodStill ==
  ASSUME NEW c, NEW d, Still(c, d), d.client.status = c.client.status,
         d.server_conn.status = c.server_conn.status,
         NEW pl, NEW g, NEW h \in Chunks, NEW n, NEW m, NEW ex, Good(c, pl, g, h, n, m, ex)
  PROVE  Good(d, pl, g, h, n, m, ex)
<1>1. Works(c, d)
  BY StillWorks DEF Good
<1>2. DownFlow(d, h, m)
  BY <1>1, DownKept DEF Good
<1>3. UpFlow(d, pl, g, n)
  <2>1. Queue(d.server_conn) = Queue(c.server_conn) /\ d.client.stream.in = c.client.stream.in
    BY DEF Still, Queue, Pending
  <2> QED
    BY <1>1, <2>1 DEF Good, Works, UpFlow
<1>4. Closing(c) => Closing(d)
  BY DEF Still, Closing, Caused, UpDone, DownDone
<1> QED
  BY <1>1, <1>2, <1>3, <1>4 DEF Works, Good, Fresh, Still

\* Leaving the table, also by a timeout.
LEMMA GoodLeaves ==
  ASSUME NEW c, NEW g, NEW h, NEW n, NEW m, NEW ex, Good(c, "conns", g, h, n, m, ex)
  PROVE  Good(c, "out", g, h, n, m, ex)
BY DEF Good, UpFlow

LEMMA GoodExpires ==
  ASSUME NEW c, NEW d, d = destroy(c), NEW g, NEW h \in Chunks, NEW n, NEW m, NEW ex,
         Good(c, "conns", g, h, n, m, ex)
  PROVE  Good(d, "out", g, h, n, m, TRUE)
<1>1. Sound(c)
  BY DEF Good
<1>2. Works(c, d)
  BY <1>1, Destroys, Zenon
<1>3. DownFlow(d, h, m)
  BY <1>2, DownKept DEF Good
<1> QED
  BY <1>2, <1>3 DEF Works, Good, UpFlow

-----------------------------------------------------------------------------
(* The pool *)

\* A TLS connection without a client goes on: nothing is sent, nothing comes.
Idles(p, q) ==
  /\ TlsSound(q) /\ Queue(q) = Queue(p) /\ q.stream.in = <<>>
  /\ q.stream.end = p.stream.end /\ q.status # "PeerClosed"

LEMMA IdlesTwice ==
  ASSUME NEW p, NEW q, NEW r, Idles(p, q), Idles(q, r)
  PROVE  Idles(p, r)
BY DEF Idles

LEMMA IdleReads ==
  ASSUME NEW p, TlsSound(p), p.stream.in = <<>>, p.status # "PeerClosed", NEW q,
         q = tls_do_read(p)
  PROVE  Idles(p, q)
<1>1. Drained(p, q)
  BY TlsClientReads, Zenon
<1>2. shutdown(p.status) # "PeerClosed"
  BY DEF shutdown, is_shutdown
<1> QED
  BY <1>1, <1>2 DEF Drained, Idles

LEMMA IdleSends ==
  ASSUME NEW p, TlsSound(p), p.stream.in = <<>>, p.status # "PeerClosed", NEW q,
         q = tls_do_send(p)
  PROVE  Idles(p, q)
<1>1. Carried(p, <<>>, q)
  BY TlsClientSends, Zenon
<1>2. shutdown(p.status) # "PeerClosed"
  BY DEF shutdown, is_shutdown
<1>3. Queue(p) \o <<>> = Queue(p)
  BY TlsParts, NothingJoined DEF TlsSound
<1> QED
  BY <1>1, <1>2, <1>3 DEF Carried, Idles

LEMMA IdleStatus ==
  ASSUME NEW p, TlsSound(p), p.stream.in = <<>>, NEW st \in Statuses, st # "PeerClosed", NEW q,
         q = [p EXCEPT !.status = st]
  PROVE  Idles(p, q) /\ q.status = st
<1>1. /\ q \in TlsConns /\ q.side = p.side /\ q.stream = p.stream /\ q.tls = p.tls
      /\ q.session = p.session /\ q.plain = p.plain /\ q.status = st
  BY DEF TlsSound, TlsConns
<1> QED
  BY <1>1 DEF TlsSound, Idles, Queue, Pending

\* check_status takes a connection that failed out of the pool.
LEMMA IdleChecked ==
  ASSUME NEW p, TlsSound(p), p.stream.in = <<>>, p.status # "PeerClosed", NEW q,
         q = tls_check_status(p)
  PROVE  Idles(p, q) /\ q.status \in {"Connecting", "Established", "Deregistered"}
<1>1. PICK st : st = check_status(p.status, ~wants_write(p))
  OBVIOUS
<1>2. p.status \in Statuses
  BY TlsParts DEF TlsSound
<1>3. st \in Statuses /\ st \in {"Connecting", "Established", "Deregistered"}
  BY <1>1, <1>2 DEF check_status, Statuses
<1>4. q = [p EXCEPT !.status = st]
  BY <1>1 DEF tls_check_status
<1>5. st # "PeerClosed"
  BY <1>3
<1>6. Idles(p, q) /\ q.status = st
  BY <1>3, <1>4, <1>5, IdleStatus, Zenon
<1> QED
  BY <1>3, <1>6

\* IdlePool::ready and what check_timeout does with a connection.
LEMMA PoolHandles ==
  ASSUME NEW p, TlsSound(p), p.stream.in = <<>>, p.status # "PeerClosed", NEW e, NEW q,
         q = PoolReady(p, e) \/ q = PoolChecked(p)
  PROVE  Idles(p, q) /\ q.status \in {"Connecting", "Established", "Deregistered"}
<1>1. Idles(p, p)
  BY DEF Idles
<1>2. PICK w : q = tls_check_status(w) /\ Idles(p, w)
  <2>1. CASE q = PoolChecked(p)
    <3>1. PICK w : w = tls_do_read(p)
      OBVIOUS
    <3>2. Idles(p, w)
      BY <3>1, IdleReads, Zenon
    <3>3. q = tls_check_status(w)
      BY <2>1, <3>1 DEF PoolChecked
    <3> QED
      BY <3>2, <3>3
  <2>2. CASE q = PoolReady(p, e)
    <3>1. PICK r, w : /\ r = IF e.r THEN tls_do_read(p) ELSE p
                      /\ w = IF e.w THEN tls_do_send(tls_established(r)) ELSE r
      OBVIOUS
    <3>2. Idles(p, r)
      <4>1. CASE r = p
        BY <1>1, <4>1
      <4>2. CASE r = tls_do_read(p)
        BY <4>2, IdleReads, Zenon
      <4> QED
        BY <3>1, <4>1, <4>2
    <3>3. TlsSound(r) /\ r.stream.in = <<>> /\ r.status # "PeerClosed"
      BY <3>2 DEF Idles
    <3>4. Idles(p, w)
      <4>1. CASE w = r
        BY <3>2, <4>1
      <4>2. CASE w = tls_do_send(tls_established(r))
        <5>1. PICK s, st : s = tls_established(r) /\ st = established(r.status)
          OBVIOUS
        <5>2. r.status \in Statuses
          BY <3>3, TlsParts DEF TlsSound
        <5>3. st \in Statuses /\ st # "PeerClosed" /\ s = [r EXCEPT !.status = st]
          BY <3>3, <5>1, <5>2, LifeCycle DEF tls_established, established
        <5>4. Idles(r, s)
          BY <3>3, <5>3, IdleStatus, Zenon
        <5>5. TlsSound(s) /\ s.stream.in = <<>> /\ s.status # "PeerClosed" /\ w = tls_do_send(s)
          BY <4>2, <5>1, <5>4 DEF Idles
        <5>6. Idles(s, w)
          BY <5>5, IdleSends, Zenon
        <5>7. Idles(r, w)
          BY <5>4, <5>6, IdlesTwice, Zenon
        <5> QED
          BY <3>2, <5>7, IdlesTwice, Zenon
      <4> QED
        BY <3>1, <4>1, <4>2
    <3>5. q = tls_check_status(w)
      BY <2>2, <3>1 DEF PoolReady
    <3> QED
      BY <3>4, <3>5
  <2> QED
    BY <2>1, <2>2
<1>3. TlsSound(w) /\ w.stream.in = <<>> /\ w.status # "PeerClosed"
  BY <1>2 DEF Idles
<1>4. Idles(w, q) /\ q.status \in {"Connecting", "Established", "Deregistered"}
  BY <1>2, <1>3, IdleChecked, Zenon
<1> QED
  BY <1>2, <1>4, IdlesTwice, Zenon

\* Where the pool leaves a connection.
PlaceOf(q) == IF q.status = "Deregistered" THEN "dropped" ELSE "pool"

\* What the pool does with a connection: an event, or its timer.
PoolStep(p, e, q) == q = PoolReady(p, e) \/ q = PoolChecked(p)

LEMMA GoodPool ==
  ASSUME NEW c, NEW e, NEW q, NEW d, NEW g, NEW h \in Chunks, NEW n, NEW m, NEW ex, NEW pl,
         PoolStep(c.server_conn, e, q),
         d = [c EXCEPT !.server_conn = q],
         pl = PlaceOf(q), Good(c, "pool", g, h, n, m, ex)
  PROVE  d.server_conn = q /\ Good(d, pl, g, h, n, m, ex)
<1>1. PICK p : p = c.server_conn
  OBVIOUS
<1>2. c \in Connections /\ TlsSound(p) /\ p.stream.in = <<>> /\ p.status # "PeerClosed"
  BY <1>1 DEF Good, Sound, Fresh
<1>3. Idles(p, q) /\ q.status \in {"Connecting", "Established", "Deregistered"}
  <2>1. q = PoolReady(p, e) \/ q = PoolChecked(p)
    BY <1>1 DEF PoolStep
  <2> QED
    BY <1>2, <2>1, PoolHandles, Zenon
<1>4. d \in Connections /\ d.server_conn = q /\ d.client = c.client
  BY <1>2, <1>3 DEF Connections, Idles, TlsSound
<1>5. Sound(d)
  BY <1>3, <1>4 DEF Good, Sound, Idles
<1>6. Upward(d) = Upward(c) /\ Downward(d) = Downward(c) /\ Owed(d) = Owed(c)
  <2>1. q.stream.in = p.stream.in /\ Queue(q) = Queue(p)
    BY <1>2, <1>3 DEF Idles
  <2>2. Upward(d) = Upward(c)
    BY <1>1, <1>4, <2>1 DEF Upward
  <2>3. Downward(d) = Downward(c)
    BY <1>1, <1>4, <2>1 DEF Downward
  <2> QED
    BY <1>4, <2>2, <2>3 DEF Owed
<1>7. DownFlow(d, h, m)
  <2>1. Kept(d) => Kept(c)
    BY <1>1, <1>3, <1>4 DEF Kept, Idles
  <2> QED
    BY <1>6, <2>1 DEF Good, DownFlow
<1>8. pl = IF q.status = "Deregistered" THEN "dropped" ELSE "pool"
  BY DEF PlaceOf
<1>9. UpFlow(d, pl, g, n)
  BY <1>1, <1>3, <1>4, <1>8 DEF Good, UpFlow, Idles
<1>10. pl = "pool" => Fresh(d, m)
  BY <1>3, <1>4, <1>8 DEF Good, Fresh, Idles
<1>11. pl \notin {"conns", "out"}
  BY <1>8
<1>12. Good(d, pl, g, h, n, m, ex)
  BY <1>5, <1>7, <1>9, <1>10, <1>11 DEF Good
<1> QED
  BY <1>4, <1>12

\* accept_once: the request goes ahead of everything, and what the client has
\* sent already comes behind it.
LEMMA GoodAccepted ==
  ASSUME NEW c, NEW d, NEW g, NEW h \in Chunks, NEW n \in Nat, NEW m, NEW ex,
         d = [c EXCEPT !.server_conn = write_session(Reregistered(c.server_conn), <<Header>>),
                       !.client.stream.edge = TRUE],
         Good(c, "pool", g, h, n, m, ex)
  PROVE  Good(d, "conns", g, h, n, m, ex)
<1>1. PICK p, b, k, q, w, r :
        /\ p = c.server_conn /\ b = c.client
        /\ k = [p.stream EXCEPT !.edge = Writable(p.stream) \/ TlsReadable(p)]
        /\ q = [p EXCEPT !.stream = k] /\ w = write_session(q, <<Header>>)
        /\ r = [b EXCEPT !.stream.edge = TRUE]
  OBVIOUS
<1>2. c \in Connections /\ TlsSound(p) /\ p \in TlsConns /\ b \in Clients /\ Sound(c)
      /\ p.stream \in Streams /\ b.stream \in Streams
  BY <1>1, Parts, TlsParts, ClientParts DEF Good, Sound, TlsSound
<1>3. /\ k \in Streams /\ k.in = p.stream.in /\ k.out = p.stream.out /\ k.end = p.stream.end
      /\ k.up = p.stream.up
  <2>1. (Writable(p.stream) \/ TlsReadable(p)) \in BOOLEAN
    BY DEF Writable, TlsReadable, Readable
  <2> QED
    BY <1>1, <1>2, <2>1 DEF Streams
<1>4. TlsSound(q) /\ q.stream = k /\ Queue(q) = Queue(p) /\ q.status = p.status
  <2>1. /\ q \in TlsConns /\ q.side = p.side /\ q.stream = k /\ q.tls = p.tls
        /\ q.session = p.session /\ q.plain = p.plain /\ q.status = p.status
    BY <1>1, <1>2, <1>3 DEF TlsConns
  <2> QED
    BY <1>2, <1>3, <2>1 DEF TlsSound, Queue, Pending
<1>5. <<Header>> \in Chunks
  BY Requests
<1>6. Took(q, <<Header>>, w)
  BY <1>1, <1>4, <1>5, TlsClientWrites, Zenon
<1>7. /\ r \in Clients /\ r.stream.in = b.stream.in /\ r.stream.out = b.stream.out
      /\ r.stream.end = b.stream.end /\ r.send_buffer = b.send_buffer /\ r.status = b.status
  BY <1>1, <1>2 DEF Clients, Streams
<1>8. d = [c EXCEPT !.server_conn = w, !.client = r]
  BY <1>1 DEF Reregistered
<1>9. d \in Connections /\ d.server_conn = w /\ d.client = r
  BY <1>2, <1>6, <1>7, <1>8 DEF Connections, Took, TlsSound
<1>10. Sound(d)
  BY <1>1, <1>2, <1>6, <1>7, <1>9 DEF Sound, Took
<1>11. /\ w.stream.in = p.stream.in /\ w.stream.end = p.stream.end /\ w.status = p.status
       /\ Queue(w) = Queue(p) \o <<Header>>
  BY <1>3, <1>4, <1>6 DEF Took
<1>12. /\ g = <<>> /\ Queue(p) = <<>> /\ b.stream.in = Count(n) /\ p.stream.in = <<>> /\ m = 0
       /\ b.status = "Connecting" /\ p.status \in {"Connecting", "Established"}
  BY <1>1 DEF Good, UpFlow, Fresh
<1>13. g \o Upward(d) = Request(n)
  <2>1. <<>> \o <<Header>> = <<Header>>
    BY <1>5, NothingJoined
  <2>2. Upward(d) = Request(n)
    BY <1>7, <1>9, <1>11, <1>12, <2>1 DEF Upward, Request
  <2> QED
    BY <1>12, <2>2, Requests, NothingJoined
<1>14. DownFlow(d, h, m)
  <2>1. Held(r) = Held(b)
    BY <1>7 DEF Held
  <2>2. Downward(d) = Downward(c)
    BY <1>1, <1>9, <1>11, <2>1 DEF Downward
  <2>3. Owed(d) = Owed(c)
    BY <1>1, <1>7, <1>9, <2>1, <2>2 DEF Owed
  <2>4. Kept(d) => Kept(c)
    <3>1. /\ d.server_conn = w /\ d.client = r /\ c.server_conn = p /\ c.client = b
          /\ w.stream.end = p.stream.end /\ r.status = b.status /\ r.stream.end = b.stream.end
      BY <1>1, <1>7, <1>9, <1>11
    <3> QED
      BY ONLY <3>1 DEF Kept
  <2> QED
    BY <2>2, <2>3, <2>4 DEF Good, DownFlow
<1>15. Closing(d)
  BY <1>7, <1>9, <1>11, <1>12 DEF Closing, Caused, UpDone, DownDone, is_shutdown
<1> QED
  BY <1>10, <1>13, <1>14, <1>15 DEF Good, UpFlow

\* An accept that fails drops both.
LEMMA GoodDropped ==
  ASSUME NEW c, NEW d, d = destroy(c), NEW g, NEW h \in Chunks, NEW n, NEW m, NEW ex,
         Good(c, "pool", g, h, n, m, ex)
  PROVE  Good(d, "dropped", g, h, n, m, ex)
<1>1. Sound(c)
  BY DEF Good
<1>2. Still(c, d) /\ Works(c, d)
  BY <1>1, Destroys, Zenon
<1>3. DownFlow(d, h, m)
  BY <1>2, DownKept DEF Good
<1>4. Queue(d.server_conn) = Queue(c.server_conn) /\ d.client.stream.in = c.client.stream.in
  BY <1>2 DEF Still, Queue, Pending
<1> QED
  BY <1>2, <1>3, <1>4 DEF Works, Good, UpFlow

-----------------------------------------------------------------------------
(* The peers *)

\* A new state of one of the two sockets.
ClientSocket(c, k, d) ==
  /\ d \in Connections /\ d.server_conn = c.server_conn /\ d.client.stream = k
  /\ d.client.status = c.client.status /\ d.client.send_buffer = c.client.send_buffer

LEMMA ClientSocketSet ==
  ASSUME NEW c \in Connections, NEW k \in Streams, NEW d, d = [c EXCEPT !.client.stream = k]
  PROVE  ClientSocket(c, k, d)
<1>1. PICK b : b = [c.client EXCEPT !.stream = k]
  OBVIOUS
<1>2. /\ b \in Clients /\ b.stream = k /\ b.status = c.client.status
      /\ b.send_buffer = c.client.send_buffer
  BY <1>1, Parts DEF Clients
<1>3. d = [c EXCEPT !.client = b]
  BY <1>1
<1> QED
  BY <1>2, <1>3 DEF ClientSocket, Connections

ServerSocket(c, k, d) ==
  /\ d \in Connections /\ d.client = c.client /\ d.server_conn.stream = k
  /\ d.server_conn.status = c.server_conn.status /\ d.server_conn.tls = c.server_conn.tls
  /\ d.server_conn.session = c.server_conn.session
  /\ d.server_conn.plain = c.server_conn.plain /\ d.server_conn.side = c.server_conn.side

LEMMA ServerSocketSet ==
  ASSUME NEW c \in Connections, NEW k \in Streams, NEW d,
         d = [c EXCEPT !.server_conn.stream = k]
  PROVE  ServerSocket(c, k, d)
<1>1. PICK p : p = [c.server_conn EXCEPT !.stream = k]
  OBVIOUS
<1>2. /\ p \in TlsConns /\ p.stream = k /\ p.status = c.server_conn.status
      /\ p.tls = c.server_conn.tls /\ p.session = c.server_conn.session
      /\ p.plain = c.server_conn.plain /\ p.side = c.server_conn.side
  BY <1>1, Parts DEF TlsConns
<1>3. d = [c EXCEPT !.server_conn = p]
  BY <1>1
<1> QED
  BY <1>2, <1>3 DEF ServerSocket, Connections

\* One chunk more from the client.
LEMMA GoodClientSend ==
  ASSUME NEW c, NEW d, NEW pl, NEW g \in Chunks, NEW h \in Chunks, NEW n \in Nat, NEW m, NEW ex,
         Good(c, pl, g, h, n, m, ex), pl \in {"pool", "conns"},
         c.client.stream.end = "open", ~is_shutdown(c.client.status),
         d = [c EXCEPT !.client.stream = Arrived(c.client.stream, n + 1)]
  PROVE  Good(d, pl, g, h, n + 1, m, ex)
<1>1. PICK b, p, k : b = c.client /\ p = c.server_conn /\ k = Arrived(b.stream, n + 1)
  OBVIOUS
<1>2. /\ c \in Connections /\ b.stream \in Streams /\ b.stream.in \in Chunks
      /\ Queue(p) \in Chunks /\ n + 1 \in Nat
  BY <1>1, Parts, ClientParts, TlsParts DEF Good, Sound
<1>3. Append(b.stream.in, n + 1) \in Chunks
  BY <1>2, OneMore
<1>4. /\ k \in Streams /\ k.in = Append(b.stream.in, n + 1) /\ k.out = b.stream.out
      /\ k.end = b.stream.end
  BY <1>1, <1>2, <1>3 DEF Arrived, Streams
<1>5. ClientSocket(c, k, d)
  <2>1. d = [c EXCEPT !.client.stream = k]
    BY <1>1
  <2> QED
    BY <1>2, <1>4, <2>1, ClientSocketSet, Zenon
<1>6. Sound(d)
  BY <1>1, <1>4, <1>5 DEF Good, Sound, ClientSocket
<1>7. UpFlow(d, pl, g, n + 1)
  <2>1. CASE pl = "conns"
    <3>1. PICK x, i, y \in Chunks : x = Queue(p) /\ i = b.stream.in /\ y = Append(i, n + 1)
      BY <1>2, <1>3
    <3>2. Regroups(g, x, i) /\ Regroups(g, x, y)
      BY <3>1, Regrouping, Zenon
    <3>3. PICK f \in Chunks : f = g \o x
      BY <3>1, Joined
    <3>4. g \o (x \o i) = Request(n)
      BY <1>1, <2>1, <3>1 DEF Good, UpFlow, Upward
    <3>5. f \o i = Request(n)
      BY <3>2, <3>3, <3>4 DEF Regroups
    <3>6. f \o y = Request(n + 1)
      <4>1. Requested(f, i, n) /\ f \in Chunks /\ i \in Chunks /\ n \in Nat
        BY <3>5 DEF Requested
      <4>2. Requested(f, Append(i, n + 1), n + 1)
        BY ONLY <4>1, RequestsOn, Zenon
      <4> QED
        BY ONLY <3>1, <4>2 DEF Requested
    <3>7. Upward(d) = x \o y
      BY <1>1, <1>4, <1>5, <3>1 DEF Upward, ClientSocket
    <3> QED
      BY <2>1, <3>2, <3>3, <3>6, <3>7 DEF UpFlow, Regroups
  <2>2. CASE pl = "pool"
    BY <1>1, <1>4, <1>5, <2>2, Counting DEF Good, UpFlow, ClientSocket
  <2> QED
    BY <2>1, <2>2
<1>8. DownFlow(d, h, m)
  <2>1. Held(d.client) = Held(c.client)
    BY <1>1, <1>4, <1>5 DEF ClientSocket, Held
  <2>2. Downward(d) = Downward(c)
    BY <1>5, <2>1 DEF ClientSocket, Downward
  <2>3. Owed(d) = Owed(c) /\ (Kept(d) => Kept(c))
    BY <1>1, <1>4, <1>5, <2>1, <2>2 DEF ClientSocket, Owed, Kept
  <2> QED
    BY <2>2, <2>3 DEF Good, DownFlow
<1>9. Closing(c) => Closing(d)
  BY <1>1, <1>4, <1>5 DEF ClientSocket, Closing, Caused, UpDone, DownDone
<1> QED
  BY <1>5, <1>6, <1>7, <1>8, <1>9 DEF Good, Fresh, ClientSocket

\* The client ends.
LEMMA GoodClientEnd ==
  ASSUME NEW c, NEW d, NEW pl, NEW g \in Chunks, NEW h \in Chunks, NEW n \in Nat, NEW m, NEW ex,
         Good(c, pl, g, h, n, m, ex), pl \in {"pool", "conns"},
         c.client.stream.end = "open", ~is_shutdown(c.client.status), NEW how \in {"fin", "rst"},
         d = [c EXCEPT !.client.stream = EndedBy(c.client.stream, how)]
  PROVE  Good(d, pl, g, h, n, m, ex)
<1>1. PICK b, k : b = c.client /\ k = EndedBy(b.stream, how)
  OBVIOUS
<1>2. c \in Connections /\ b.stream \in Streams
  BY <1>1, Parts, ClientParts DEF Good, Sound
<1>3. k \in Streams /\ k.in = b.stream.in /\ k.out = b.stream.out /\ k.end = how
  BY <1>1, <1>2 DEF EndedBy, Streams
<1>4. ClientSocket(c, k, d)
  <2>1. d = [c EXCEPT !.client.stream = k]
    BY <1>1
  <2> QED
    BY <1>2, <1>3, <2>1, ClientSocketSet, Zenon
<1>5. Sound(d)
  BY <1>1, <1>3, <1>4 DEF Good, Sound, ClientSocket
<1>6. UpFlow(d, pl, g, n)
  <2>1. Upward(d) = Upward(c)
    BY <1>1, <1>3, <1>4 DEF Upward, ClientSocket
  <2> QED
    BY <1>1, <1>3, <1>4, <2>1 DEF Good, UpFlow, ClientSocket
<1>7. DownFlow(d, h, m)
  <2>1. Held(d.client) = Held(c.client)
    BY <1>1, <1>3, <1>4 DEF ClientSocket, Held
  <2>2. Downward(d) = Downward(c)
    BY <1>4, <2>1 DEF ClientSocket, Downward
  <2>3. Owed(d) = Owed(c) /\ (Kept(d) => Kept(c))
    BY <1>1, <1>3, <1>4, <2>1, <2>2 DEF ClientSocket, Owed, Kept
  <2> QED
    BY <2>2, <2>3 DEF Good, DownFlow
<1>8. Closing(c) => Closing(d)
  BY <1>1, <1>3, <1>4 DEF ClientSocket, Closing, Caused, UpDone, DownDone
<1> QED
  BY <1>4, <1>5, <1>6, <1>7, <1>8 DEF Good, Fresh, ClientSocket

\* A peer takes the first chunk of what a socket has for it.
OneTaken(k, g, r, f) ==
  /\ r \in Streams /\ r.in = k.in /\ r.end = k.end /\ r.up = k.up
  /\ Len(r.out) <= Cap /\ f \in Chunks /\ f \o r.out = g \o k.out

LEMMA TakesOne ==
  ASSUME NEW k \in Streams, k.out # <<>>, Len(k.out) <= Cap, NEW g \in Chunks, NEW r, NEW f,
         r = Received(k), f = Append(g, Head(k.out))
  PROVE  OneTaken(k, g, r, f)
<1>1. k.out \in Chunks /\ Len(k.out) \in Nat /\ Cap \in Nat
  BY NothingJoined, CapAssumption DEF Streams
<1>2. /\ f \in Chunks /\ Tail(k.out) \in Chunks /\ Len(Tail(k.out)) = Len(k.out) - 1
      /\ f \o Tail(k.out) = g \o k.out
  BY <1>1, HandedOn
<1>3. r = [k EXCEPT !.out = Tail(k.out), !.edge = k.edge \/ k.full, !.full = FALSE]
  BY DEF Received
<1>4. r \in Streams /\ r.in = k.in /\ r.end = k.end /\ r.up = k.up /\ r.out = Tail(k.out)
  BY <1>2, <1>3 DEF Streams
<1>5. Len(r.out) <= Cap
  BY <1>1, <1>2, <1>4
<1> QED
  BY <1>2, <1>4, <1>5 DEF OneTaken

\* What a peer has got, h, becomes f when it takes the first chunk of k.
Takes(h, k, f) == k.out # <<>> /\ f = Append(h, Head(k.out))

LEMMA GoodClientRecv ==
  ASSUME NEW c, NEW d, NEW pl, NEW g \in Chunks, NEW h \in Chunks, NEW n \in Nat, NEW m, NEW ex,
         Good(c, pl, g, h, n, m, ex), NEW f, Takes(h, c.client.stream, f),
         d = [c EXCEPT !.client.stream = Received(c.client.stream)]
  PROVE  f \in Chunks /\ Good(d, pl, g, f, n, m, ex)
<1>1. PICK b, k, r : b = c.client /\ k = b.stream /\ r = Received(k)
  OBVIOUS
<1>2. /\ c \in Connections /\ b \in Clients /\ k \in Streams /\ k.out \in Chunks
      /\ b.send_buffer \in Chunks /\ k.out # <<>> /\ Len(k.out) <= Cap
      /\ c.server_conn.stream.in \in Chunks /\ Held(b) \in Chunks
  BY <1>1, Parts, ClientParts, TlsParts DEF Good, Sound, Takes
<1>3. /\ r \in Streams /\ r.in = k.in /\ r.end = k.end /\ r.up = k.up
      /\ Len(r.out) <= Cap /\ f \in Chunks /\ f \o r.out = h \o k.out
  <2>1. f = Append(h, Head(k.out))
    BY <1>1 DEF Takes
  <2>2. OneTaken(k, h, r, f)
    BY <1>1, <1>2, <2>1, TakesOne, Zenon
  <2> QED
    BY <2>2 DEF OneTaken
<1>4. ClientSocket(c, r, d)
  <2>1. d = [c EXCEPT !.client.stream = r]
    BY <1>1
  <2> QED
    BY <1>2, <1>3, <2>1, ClientSocketSet, Zenon
<1>5. Sound(d)
  BY <1>1, <1>3, <1>4 DEF Good, Sound, ClientSocket
<1>6. UpFlow(d, pl, g, n)
  <2>1. Upward(d) = Upward(c)
    BY <1>1, <1>3, <1>4 DEF Upward, ClientSocket
  <2> QED
    BY <1>1, <1>3, <1>4, <2>1 DEF Good, UpFlow, ClientSocket
<1>7. DownFlow(d, f, m)
  <2>1. PICK e : e = d.client
    OBVIOUS
  <2>2. e.stream = r /\ e.send_buffer = b.send_buffer /\ e.status = b.status /\ r.out \in Chunks
    BY <1>1, <1>3, <1>4, <2>1 DEF ClientSocket, Streams
  <2>3. f \o Held(e) = h \o Held(b) /\ Held(e) \in Chunks
    <3>1. PICK u, v, sb \in Chunks : u = r.out /\ v = k.out /\ sb = b.send_buffer
      BY <1>2, <2>2
    <3>2. f \o u = h \o v
      BY <1>3, <3>1
    <3>3. Recut(f, u, h, v)
      BY <1>3, <3>1, <3>2 DEF Recut
    <3>4. Recut(f, u \o sb, h, v \o sb)
      BY <3>1, <3>3, SameBehind, Zenon
    <3> QED
      BY <1>1, <2>2, <3>1, <3>4 DEF Held, Recut
  <2>4. f \o Downward(d) = h \o Downward(c)
    <3>1. PICK u, v, i \in Chunks : u = Held(e) /\ v = Held(b) /\ i = c.server_conn.stream.in
      BY <1>2, <2>3
    <3>2. f \o u = h \o v
      BY <2>3, <3>1
    <3>3. Recut(f, u, h, v)
      BY <1>3, <3>1, <3>2 DEF Recut
    <3>4. Recut(f, u \o i, h, v \o i)
      BY <3>1, <3>3, SameBehind, Zenon
    <3> QED
      BY <1>1, <1>4, <2>1, <3>1, <3>4 DEF Downward, ClientSocket, Recut
  <2>5. f \o Owed(d) = h \o Owed(c)
    BY <1>1, <2>1, <2>2, <2>3, <2>4 DEF Owed
  <2>6. Kept(d) => Kept(c)
    BY <1>1, <1>3, <1>4 DEF Kept, ClientSocket
  <2> QED
    BY <2>4, <2>5, <2>6 DEF Good, DownFlow
<1>8. Closing(c) => Closing(d)
  BY <1>1, <1>3, <1>4 DEF ClientSocket, Closing, Caused, UpDone, DownDone
<1> QED
  BY <1>3, <1>4, <1>5, <1>6, <1>7, <1>8 DEF Good, Fresh, ClientSocket

\* The socket of the dial connects, or is refused.
LEMMA GoodServerConnect ==
  ASSUME NEW c, NEW d, NEW pl, NEW g \in Chunks, NEW h \in Chunks, NEW n \in Nat, NEW m, NEW ex,
         Good(c, pl, g, h, n, m, ex), ~c.server_conn.stream.up, NEW how \in {"open", "rst"},
         d = [c EXCEPT !.server_conn.stream =
                [c.server_conn.stream EXCEPT !.up = TRUE, !.end = how, !.edge = TRUE]]
  PROVE  Good(d, pl, g, h, n, m, ex)
<1>1. PICK p, k : /\ p = c.server_conn
                  /\ k = [p.stream EXCEPT !.up = TRUE, !.end = how, !.edge = TRUE]
  OBVIOUS
<1>2. c \in Connections /\ p.stream \in Streams /\ p.stream.end = "open"
  BY <1>1, Parts, TlsParts DEF Good, Sound, TlsSound
<1>3. k \in Streams /\ k.in = p.stream.in /\ k.out = p.stream.out /\ k.end = how /\ k.up
  BY <1>1, <1>2 DEF Streams
<1>4. ServerSocket(c, k, d)
  <2>1. d = [c EXCEPT !.server_conn.stream = k]
    BY <1>1
  <2> QED
    BY <1>2, <1>3, <2>1, ServerSocketSet, Zenon
<1>5. Sound(d)
  BY <1>1, <1>3, <1>4, Parts DEF Good, Sound, TlsSound, ServerSocket
<1>6. Queue(d.server_conn) = Queue(c.server_conn)
  BY <1>1, <1>3, <1>4 DEF Queue, Pending, ServerSocket
<1>7. UpFlow(d, pl, g, n)
  BY <1>4, <1>6 DEF Good, UpFlow, Upward, ServerSocket
<1>8. Downward(d) = Downward(c)
  BY <1>1, <1>3, <1>4 DEF Downward, ServerSocket
<1>9. DownFlow(d, h, m)
  BY <1>1, <1>2, <1>3, <1>4, <1>8 DEF Good, DownFlow, Owed, Kept, ServerSocket
<1>10. Closing(c) => Closing(d)
  BY <1>1, <1>2, <1>3, <1>4 DEF ServerSocket, Closing, Caused, UpDone, DownDone
<1> QED
  BY <1>1, <1>3, <1>4, <1>5, <1>7, <1>9, <1>10 DEF Good, Fresh, ServerSocket

\* The server's flight arrives.
LEMMA GoodServerHello ==
  ASSUME NEW c, NEW d, NEW pl, NEW g \in Chunks, NEW h \in Chunks, NEW n \in Nat, NEW m, NEW ex,
         Good(c, pl, g, h, n, m, ex),
         d = [c EXCEPT !.server_conn.tls = "hello", !.server_conn.stream.edge = TRUE]
  PROVE  Good(d, pl, g, h, n, m, ex)
<1>1. PICK p, k, q : /\ p = c.server_conn /\ k = [p.stream EXCEPT !.edge = TRUE]
                     /\ q = [p EXCEPT !.tls = "hello", !.stream = k]
  OBVIOUS
<1>2. p = c.server_conn
  BY <1>1
<1>3. c \in Connections /\ p \in TlsConns /\ p.stream \in Streams /\ TlsSound(p)
  BY <1>2, Parts, TlsParts DEF Good, Sound
<1>4. /\ k \in Streams /\ k.in = p.stream.in /\ k.out = p.stream.out /\ k.end = p.stream.end
      /\ k.up = p.stream.up
  BY <1>1, <1>3 DEF Streams
<1>5. /\ q \in TlsConns /\ q.stream = k /\ q.status = p.status /\ q.tls = "hello"
      /\ q.session = p.session /\ q.plain = p.plain /\ q.side = p.side
  BY <1>1, <1>3, <1>4 DEF TlsConns
<1>6. d = [c EXCEPT !.server_conn = q]
  BY <1>1
<1>7. d \in Connections /\ d.client = c.client /\ d.server_conn = q
  BY <1>3, <1>5, <1>6 DEF Connections
<1>8. Sound(d)
  BY <1>3, <1>4, <1>5, <1>7 DEF Good, Sound, TlsSound
<1>9. Queue(q) = Queue(p)
  BY <1>4, <1>5 DEF Queue, Pending
<1>10. UpFlow(d, pl, g, n)
  BY <1>2, <1>7, <1>9 DEF Good, UpFlow, Upward
<1>11. Downward(d) = Downward(c)
  BY <1>2, <1>4, <1>5, <1>7 DEF Downward
<1>12. DownFlow(d, h, m)
  BY <1>2, <1>4, <1>5, <1>7, <1>11 DEF Good, DownFlow, Owed, Kept
<1>13. Closing(c) => Closing(d)
  BY <1>2, <1>4, <1>5, <1>7 DEF Closing, Caused, UpDone, DownDone
<1> QED
  BY <1>2, <1>4, <1>5, <1>7, <1>8, <1>10, <1>12, <1>13 DEF Good, Fresh

\* One chunk more from the server, which answers a request.
LEMMA GoodServerSend ==
  ASSUME NEW c, NEW d, NEW pl, NEW g \in Chunks, NEW h \in Chunks, NEW n \in Nat, NEW m \in Nat,
         NEW ex, Good(c, pl, g, h, n, m, ex), g # <<>>,
         c.server_conn.stream.end = "open",
         d = [c EXCEPT !.server_conn.stream = Arrived(c.server_conn.stream, m + 1)]
  PROVE  Good(d, pl, g, h, n, m + 1, ex)
<1>1. PICK b, p, k : b = c.client /\ p = c.server_conn /\ k = Arrived(p.stream, m + 1)
  OBVIOUS
<1>2. /\ c \in Connections /\ p.stream \in Streams /\ p.stream.in \in Chunks
      /\ Held(b) \in Chunks /\ m + 1 \in Nat /\ p.stream.end = "open"
  BY <1>1, Parts, ClientParts, TlsParts DEF Good, Sound
<1>3. Append(p.stream.in, m + 1) \in Chunks
  BY <1>2, OneMore
<1>4. /\ k \in Streams /\ k.in = Append(p.stream.in, m + 1) /\ k.out = p.stream.out
      /\ k.end = p.stream.end /\ k.up = p.stream.up
  BY <1>1, <1>2, <1>3 DEF Arrived, Streams
<1>5. ServerSocket(c, k, d)
  <2>1. d = [c EXCEPT !.server_conn.stream = k]
    BY <1>1
  <2> QED
    BY <1>2, <1>4, <2>1, ServerSocketSet, Zenon
<1>6. Sound(d)
  <2>1. d.server_conn \in TlsConns
    BY <1>5, Parts DEF ServerSocket
  <2> QED
    BY <1>1, <1>3, <1>4, <1>5, <2>1 DEF Good, Sound, TlsSound, ServerSocket
<1>7. pl \in {"conns", "out"}
  BY DEF Good, UpFlow
<1>8. UpFlow(d, pl, g, n)
  <2>1. Queue(d.server_conn) = Queue(c.server_conn)
    BY <1>1, <1>4, <1>5 DEF Queue, Pending, ServerSocket
  <2> QED
    BY <1>5, <2>1 DEF Good, UpFlow, Upward, ServerSocket
<1>9. DownFlow(d, h, m + 1)
  <2>1. d.client = b /\ d.server_conn.stream = k
    BY <1>1, <1>5 DEF ServerSocket
  <2>2. CASE is_shutdown(b.status)
    <3>1. FrontOf(h \o Held(b), Count(m))
      BY <1>1, <2>2 DEF Good, DownFlow, Owed
    <3>2. FrontOf(h \o Held(b), Count(m + 1))
      BY <3>1, FrontCounts
    <3>3. Owed(d) = Held(b) /\ ~Kept(d)
      BY <1>2, <1>4, <2>1, <2>2 DEF Owed, Kept
    <3> QED
      BY <3>2, <3>3 DEF DownFlow
  <2>3. CASE ~is_shutdown(b.status)
    <3>1. PICK x, i, y \in Chunks : x = Held(b) /\ i = p.stream.in /\ y = Append(i, m + 1)
      BY <1>2, <1>3
    <3>2. h \o (x \o i) = Count(m)
      BY <1>1, <1>2, <2>3, <3>1 DEF Good, DownFlow, Kept, Downward
    <3>3. Regroups(h, x, i) /\ Regroups(h, x, y)
      BY <3>1, Regrouping, Zenon
    <3>4. PICK f \in Chunks : f = h \o x
      BY <3>1, Joined
    <3>5. f \o i = Count(m)
      BY <3>2, <3>3, <3>4 DEF Regroups
    <3>6. f \o y = Count(m + 1)
      <4>1. f \in Chunks /\ i \in Chunks /\ m \in Nat /\ f \o i = Count(m)
        BY <3>1, <3>4, <3>5
      <4>2. f \o Append(i, m + 1) = Count(m + 1)
        BY ONLY <4>1, CountsOn, Zenon
      <4> QED
        BY ONLY <3>1, <4>2
    <3>7. Downward(d) = x \o y
      BY <1>4, <2>1, <3>1 DEF Downward
    <3>8. h \o Downward(d) = Count(m + 1)
      BY <3>3, <3>4, <3>6, <3>7 DEF Regroups
    <3>9. FrontOf(Count(m + 1), Count(m + 1))
      BY <1>2, Counting, FrontSelf
    <3>10. Owed(d) = Downward(d)
      BY <2>1, <2>3 DEF Owed
    <3> QED
      BY <3>8, <3>9, <3>10 DEF DownFlow
  <2> QED
    BY <2>2, <2>3
<1>10. Closing(c) => Closing(d)
  BY <1>1, <1>2, <1>4, <1>5 DEF ServerSocket, Closing, Caused, UpDone, DownDone
<1> QED
  BY <1>6, <1>7, <1>8, <1>9, <1>10 DEF Good

\* The server ends: a client that was shut down before has another cause.
LEMMA GoodServerEnd ==
  ASSUME NEW c, NEW d, NEW pl, NEW g \in Chunks, NEW h \in Chunks, NEW n \in Nat, NEW m,
         Good(c, pl, g, h, n, m, FALSE), pl \in {"pool", "conns"},
         c.server_conn.stream.end = "open", c.server_conn.stream.up,
         NEW how \in {"fin", "rst", "bad"},
         d = [c EXCEPT !.server_conn.stream = EndedBy(c.server_conn.stream, how)]
  PROVE  Good(d, pl, g, h, n, m, FALSE)
<1>1. PICK p, k : p = c.server_conn /\ k = EndedBy(p.stream, how)
  OBVIOUS
<1>2. c \in Connections /\ p.stream \in Streams
  BY <1>1, Parts, TlsParts DEF Good, Sound
<1>3. k \in Streams /\ k.in = p.stream.in /\ k.out = p.stream.out /\ k.end = how /\ k.up
  BY <1>1, <1>2 DEF EndedBy, Streams
<1>4. ServerSocket(c, k, d)
  <2>1. d = [c EXCEPT !.server_conn.stream = k]
    BY <1>1
  <2> QED
    BY <1>2, <1>3, <2>1, ServerSocketSet, Zenon
<1>5. Sound(d)
  <2>1. d.server_conn \in TlsConns
    BY <1>4, Parts DEF ServerSocket
  <2> QED
    BY <1>1, <1>3, <1>4, <2>1 DEF Good, Sound, TlsSound, ServerSocket
<1>6. UpFlow(d, pl, g, n)
  <2>1. Queue(d.server_conn) = Queue(c.server_conn)
    BY <1>1, <1>3, <1>4 DEF Queue, Pending, ServerSocket
  <2> QED
    BY <1>4, <2>1 DEF Good, UpFlow, Upward, ServerSocket
<1>7. c.client.stream.end # "open" \/ ~is_shutdown(c.client.status)
  BY DEF Good, Fresh, Closing, Caused, is_shutdown
<1>8. DownFlow(d, h, m)
  <2>1. Downward(d) = Downward(c)
    BY <1>1, <1>3, <1>4 DEF Downward, ServerSocket
  <2>2. Owed(d) = Owed(c)
    BY <1>4, <2>1 DEF Owed, ServerSocket
  <2>3. Kept(d) => Kept(c)
    BY <1>1, <1>3, <1>4, <1>7 DEF Kept, ServerSocket
  <2> QED
    BY <2>1, <2>2, <2>3 DEF Good, DownFlow
<1>9. Closing(c) => Closing(d)
  BY <1>1, <1>3, <1>4 DEF ServerSocket, Closing, Caused, UpDone, DownDone
<1> QED
  BY <1>1, <1>3, <1>4, <1>5, <1>6, <1>8, <1>9 DEF Good, Fresh, ServerSocket

LEMMA GoodServerRecv ==
  ASSUME NEW c, NEW d, NEW pl, NEW g \in Chunks, NEW h \in Chunks, NEW n \in Nat, NEW m, NEW ex,
         Good(c, pl, g, h, n, m, ex), NEW f, Takes(g, c.server_conn.stream, f),
         d = [c EXCEPT !.server_conn.stream = Received(c.server_conn.stream)]
  PROVE  f \in Chunks /\ Good(d, pl, f, h, n, m, ex)
<1>1. PICK p, k, r : p = c.server_conn /\ k = p.stream /\ r = Received(k)
  OBVIOUS
<1>2. /\ c \in Connections /\ p \in TlsConns /\ k \in Streams /\ k.out \in Chunks
      /\ Pending(p) \in Chunks /\ k.out # <<>> /\ Len(k.out) <= Cap /\ TlsSound(p)
      /\ c.client.stream.in \in Chunks /\ Queue(p) \in Chunks
  BY <1>1, Parts, ClientParts, TlsParts DEF Good, Sound, TlsSound, Takes
<1>3. /\ r \in Streams /\ r.in = k.in /\ r.end = k.end /\ r.up = k.up
      /\ Len(r.out) <= Cap /\ f \in Chunks /\ f \o r.out = g \o k.out /\ r.out \in Chunks
  <2>1. f = Append(g, Head(k.out))
    BY <1>1 DEF Takes
  <2>2. OneTaken(k, g, r, f)
    BY <1>1, <1>2, <2>1, TakesOne, Zenon
  <2> QED
    BY <2>2 DEF OneTaken, Streams
<1>4. ServerSocket(c, r, d)
  <2>1. d = [c EXCEPT !.server_conn.stream = r]
    BY <1>1
  <2> QED
    BY <1>2, <1>3, <2>1, ServerSocketSet, Zenon
<1>5. Sound(d)
  <2>1. d.server_conn \in TlsConns
    BY <1>4, Parts DEF ServerSocket
  <2> QED
    BY <1>1, <1>2, <1>3, <1>4, <2>1 DEF Good, Sound, TlsSound, ServerSocket
<1>6. UpFlow(d, pl, f, n)
  <2>1. pl \in {"conns", "out"}
    <3> SUFFICES ASSUME pl \notin {"conns", "out"} PROVE FALSE
      OBVIOUS
    <3>1. k.out \o Pending(p) = <<>>
      BY <1>1 DEF Good, UpFlow, Queue
    <3> QED
      BY <1>2, <3>1, EmptyParts
  <2>2. PICK q : q = d.server_conn
    OBVIOUS
  <2>3. q.stream = r /\ Pending(q) = Pending(p)
    BY <1>1, <1>4, <2>2 DEF ServerSocket, Pending
  <2>4. f \o Queue(q) = g \o Queue(p) /\ Queue(q) \in Chunks
    <3>1. PICK u, v, i \in Chunks : u = r.out /\ v = k.out /\ i = Pending(p)
      BY <1>2, <1>3
    <3>2. Recut(f, u, g, v)
      BY <1>3, <3>1 DEF Recut
    <3>3. Recut(f, u \o i, g, v \o i)
      BY <3>1, <3>2, SameBehind, Zenon
    <3> QED
      BY <1>1, <2>3, <3>1, <3>3 DEF Queue, Recut
  <2>5. f \o Upward(d) = g \o Upward(c)
    <3>1. PICK u, v, i \in Chunks : u = Queue(q) /\ v = Queue(p) /\ i = c.client.stream.in
      BY <1>2, <2>4
    <3>2. Recut(f, u, g, v)
      BY <1>3, <2>4, <3>1 DEF Recut
    <3>3. Recut(f, u \o i, g, v \o i)
      BY <3>1, <3>2, SameBehind, Zenon
    <3> QED
      BY <1>1, <1>4, <2>2, <3>1, <3>3 DEF Upward, ServerSocket, Recut
  <2> QED
    BY <2>1, <2>5 DEF Good, UpFlow
<1>7. DownFlow(d, h, m)
  <2>1. Downward(d) = Downward(c)
    BY <1>1, <1>3, <1>4 DEF Downward, ServerSocket
  <2>2. Owed(d) = Owed(c)
    BY <1>4, <2>1 DEF Owed, ServerSocket
  <2>3. Kept(d) => Kept(c)
    BY <1>1, <1>3, <1>4 DEF Kept, ServerSocket
  <2> QED
    BY <2>1, <2>2, <2>3 DEF Good, DownFlow
<1>8. Closing(c) => Closing(d)
  BY <1>1, <1>3, <1>4 DEF ServerSocket, Closing, Caused, UpDone, DownDone
<1> QED
  BY <1>1, <1>3, <1>4, <1>5, <1>6, <1>7, <1>8 DEF Good, Fresh, ServerSocket

-----------------------------------------------------------------------------
(* The inductive invariant *)

\* The loop's own state: only a connection in the table has events of its own,
\* is put on the removed list or expires.
Book ==
  /\ setting \in SettingType
  /\ place \in {"pool", "conns", "out", "dropped"} /\ arrived \in BOOLEAN
  /\ sent \in [client : Nat, server : Nat]
  /\ got \in [client : Chunks, server : Chunks]
  /\ loop \in {"poll", "events"}
  /\ batch \subseteq [ch : {"idle", "tcp", "client", "listen"}, r : BOOLEAN, w : BOOLEAN]
  /\ removed \in BOOLEAN /\ expired \in BOOLEAN
  /\ expired => place = "out"
  /\ removed => place \in {"conns", "out"}
  /\ \A e \in batch : e.ch \in {"tcp", "client"} => place = "conns"
  /\ loop = "poll" => batch = {}

AllGood == Good(conn, place, got.server, got.client, sent.client, sent.server, expired)

Inv == Book /\ AllGood

\* The parts of the variables that the lemmas about Good speak of.
LEMMA Counters ==
  ASSUME Book
  PROVE  /\ got.server \in Chunks /\ got.client \in Chunks
         /\ sent.client \in Nat /\ sent.server \in Nat
BY DEF Book

LEMMA InvInit ==
  ASSUME Init
  PROVE  Inv
<1>1. Book
  <2>1. <<>> \in Chunks
    BY DEF Chunks
  <2> QED
    BY <2>1, SettingsAssumption DEF Init, Book
<1>2. PICK c, b, p : c = conn /\ b = c.client /\ p = c.server_conn
  OBVIOUS
<1>3. b = NewClient /\ p = NewTlsConn("client") /\ c \in Connections
  <2>1. <<>> \in Chunks
    BY DEF Chunks
  <2>2. NewClient \in Clients
    BY <2>1 DEF NewClient, Clients, NewStream, Streams, Statuses
  <2>3. NewTlsConn("client") \in TlsConns
    BY <2>1 DEF NewTlsConn, TlsConns, NewStream, Streams, Statuses
  <2> QED
    BY <1>2, <2>2, <2>3 DEF Init, NewConnection, Connections
<1>4. /\ b.stream.in = <<>> /\ b.stream.out = <<>> /\ b.send_buffer = <<>>
      /\ b.status = "Connecting"
  BY <1>3 DEF NewClient, NewStream
<1>5. /\ p.stream.in = <<>> /\ p.stream.out = <<>> /\ p.session = <<>> /\ p.plain = <<>>
      /\ p.status = "Connecting" /\ p.side = "client" /\ p.stream.end = "open"
  BY <1>3 DEF NewTlsConn, NewStream
<1>6. <<>> \in Chunks /\ Len(<<>>) = 0 /\ <<>> \o <<>> = <<>> /\ Cap \in Nat
  <2>1. <<>> \in Chunks
    BY DEF Chunks
  <2> QED
    BY <2>1, NothingJoined, CapAssumption
<1>7. Sound(c)
  <2>1. p \in TlsConns
    BY <1>2, <1>3, Parts
  <2>2. p.tls = "answer"
    BY <1>3 DEF NewTlsConn
  <2> QED
    BY <1>2, <1>3, <1>4, <1>5, <1>6, <2>1, <2>2 DEF Sound, TlsSound
<1>8. Queue(p) = <<>> /\ Held(b) = <<>>
  BY <1>4, <1>5, <1>6 DEF Queue, Pending, Held
<1>9. Count(0) = <<>>
  <2>1. Count(0) \in Chunks /\ Len(Count(0)) = 0
    BY Counting
  <2> QED
    BY <2>1, NothingJoined
<1>10. UpFlow(c, "pool", <<>>, 0)
  BY <1>2, <1>4, <1>8, <1>9 DEF UpFlow
<1>11. DownFlow(c, <<>>, 0)
  <2>1. Downward(c) = <<>> /\ Owed(c) = <<>>
    BY <1>2, <1>4, <1>5, <1>6, <1>8 DEF Downward, Owed, is_shutdown
  <2>2. FrontOf(<<>>, <<>>)
    BY <1>6, FrontSelf
  <2> QED
    BY <1>6, <1>9, <2>1, <2>2 DEF DownFlow
<1>12. Fresh(c, 0)
  BY <1>2, <1>4, <1>5 DEF Fresh
<1>13. Good(c, "pool", <<>>, <<>>, 0, 0, FALSE)
  BY <1>7, <1>10, <1>11, <1>12 DEF Good
<1>14. AllGood
  BY <1>2, <1>13 DEF Init, AllGood
<1> QED
  BY <1>1, <1>14 DEF Inv

\* epoll_wait.
LEMMA InvPoll ==
  ASSUME Inv, Poll
  PROVE  Inv'
<1>1. Book'
  <2>1. batch' \subseteq [ch : {"idle", "tcp", "client", "listen"}, r : BOOLEAN, w : BOOLEAN]
    <3>1. /\ ServerEvent \in [ch : {"idle", "tcp", "client", "listen"}, r : BOOLEAN, w : BOOLEAN]
          /\ ClientEvent \in [ch : {"idle", "tcp", "client", "listen"}, r : BOOLEAN, w : BOOLEAN]
          /\ ListenEvent \in [ch : {"idle", "tcp", "client", "listen"}, r : BOOLEAN, w : BOOLEAN]
      BY DEF ServerEvent, ClientEvent, ListenEvent, Writable, Readable, TlsReadable
    <3> QED
      BY <3>1 DEF Poll
  <2>2. \A e \in batch' : e.ch \in {"tcp", "client"} => place = "conns"
    <3> SUFFICES ASSUME NEW e \in batch', e.ch \in {"tcp", "client"} PROVE place = "conns"
      OBVIOUS
    <3>1. CASE ServerEdge /\ e = ServerEvent
      BY <3>1 DEF ServerEdge, ServerEvent, Inv, Book, Gone
    <3>2. CASE ClientEdge /\ e = ClientEvent
      BY <3>2 DEF ClientEdge
    <3>3. CASE ListenEdge /\ e = ListenEvent
      BY <3>3 DEF ListenEvent
    <3> QED
      BY <3>1, <3>2, <3>3 DEF Poll
  <2> QED
    BY <2>1, <2>2 DEF Poll, Inv, Book
<1>2. PICK c, d : c = conn /\ d = conn'
  OBVIOUS
<1>3. c \in Connections /\ c.client \in Clients /\ c.server_conn \in TlsConns
      /\ c.client.stream \in Streams /\ c.server_conn.stream \in Streams
  BY <1>2, Parts, ClientParts, TlsParts DEF Inv, AllGood, Good, Sound
<1>4. PICK k, j : /\ k = IF ServerEdge THEN Reported(c.server_conn.stream) ELSE c.server_conn.stream
                  /\ j = IF ClientEdge THEN Reported(c.client.stream) ELSE c.client.stream
  OBVIOUS
<1>5. /\ k \in Streams /\ k.in = c.server_conn.stream.in /\ k.out = c.server_conn.stream.out
      /\ k.end = c.server_conn.stream.end /\ k.up = c.server_conn.stream.up
  BY <1>3, <1>4 DEF Reported, Streams
<1>6. /\ j \in Streams /\ j.in = c.client.stream.in /\ j.out = c.client.stream.out
      /\ j.end = c.client.stream.end
  BY <1>3, <1>4 DEF Reported, Streams
<1>7. PICK e : e = [c EXCEPT !.server_conn.stream = k]
  OBVIOUS
<1>8. ServerSocket(c, k, e)
  BY <1>3, <1>5, <1>7, ServerSocketSet, Zenon
<1>9. d = [e EXCEPT !.client.stream = j]
  BY <1>2, <1>3, <1>4, <1>7 DEF Poll, Connections
<1>10. ClientSocket(e, j, d)
  <2>1. e \in Connections
    BY <1>8 DEF ServerSocket
  <2> QED
    BY <1>6, <1>9, <2>1, ClientSocketSet, Zenon
<1>11. /\ Still(c, d) /\ d.client.status = c.client.status
       /\ d.server_conn.status = c.server_conn.status
  BY <1>5, <1>6, <1>8, <1>10 DEF Still, ClientSocket, ServerSocket
<1>12. PICK g, h, n, m, pl, ex :
         /\ g = got.server /\ h = got.client /\ n = sent.client /\ m = sent.server
         /\ pl = place /\ ex = expired
  OBVIOUS
<1>13. Good(c, pl, g, h, n, m, ex) /\ h \in Chunks
  BY <1>2, <1>12, Counters DEF Inv, AllGood
<1>14. Good(d, pl, g, h, n, m, ex)
  BY <1>11, <1>13, GoodStill, Zenon
<1>15. AllGood'
  BY <1>2, <1>12, <1>14 DEF Poll, AllGood
<1> QED
  BY <1>1, <1>15 DEF Inv

\* accept_once.
LEMMA InvAccept ==
  ASSUME Inv, Accept
  PROVE  Inv'
<1>1. PICK e \in batch :
        /\ loop = "events" /\ e.ch = "listen"
        /\ batch' = batch \ {e}
        /\ \/ /\ place = "pool" /\ place' = "conns"
              /\ conn' = [conn EXCEPT
                            !.server_conn = write_session(Reregistered(@), <<Header>>),
                            !.client.stream.edge = TRUE]
           \/ place = "pool" /\ place' = "dropped" /\ conn' = destroy(conn)
           \/ place # "pool" /\ UNCHANGED <<place, conn>>
        /\ UNCHANGED <<setting, arrived, sent, got, loop, removed, expired>>
  BY DEF Accept
<1>2. Book'
  BY <1>1 DEF Inv, Book
<1>3. PICK c, d, g, h, n, m, ex :
        /\ c = conn /\ d = conn' /\ g = got.server /\ h = got.client
        /\ n = sent.client /\ m = sent.server /\ ex = expired
  OBVIOUS
<1>4. h \in Chunks /\ n \in Nat
  BY <1>3, Counters DEF Inv
<1>5. Good(c, place, g, h, n, m, ex)
  BY <1>3 DEF Inv, AllGood
<1>6. Good(d, place', g, h, n, m, ex)
  <2>1. CASE place = "pool" /\ place' = "conns"
    <3>1. d = [c EXCEPT !.server_conn = write_session(Reregistered(c.server_conn), <<Header>>),
                        !.client.stream.edge = TRUE]
      BY <1>1, <1>3, <2>1
    <3>2. Good(c, "pool", g, h, n, m, ex)
      BY <1>5, <2>1
    <3>3. Good(d, "conns", g, h, n, m, ex)
      BY <1>4, <3>1, <3>2, GoodAccepted, Zenon
    <3> QED
      BY <2>1, <3>3
  <2>2. CASE place = "pool" /\ place' = "dropped"
    <3>1. d = destroy(c)
      BY <1>1, <1>3, <2>2
    <3>2. Good(c, "pool", g, h, n, m, ex)
      BY <1>5, <2>2
    <3>3. Good(d, "dropped", g, h, n, m, ex)
      BY <1>4, <3>1, <3>2, GoodDropped, Zenon
    <3> QED
      BY <2>2, <3>3
  <2>3. CASE place # "pool"
    <3>1. d = c /\ place' = place
      BY <1>1, <1>3, <2>3
    <3> QED
      BY <1>5, <3>1
  <2> QED
    BY <1>1, <2>1, <2>2, <2>3
<1>7. AllGood'
  BY <1>1, <1>3, <1>6 DEF AllGood
<1> QED
  BY <1>2, <1>7 DEF Inv

\* The pool's handler and its timer.
LEMMA InvIdle ==
  ASSUME Inv, HandleIdle \/ PoolCheck
  PROVE  Inv'
<1>1. PICK c, d, g, h, n, m, ex :
        /\ c = conn /\ d = conn' /\ g = got.server /\ h = got.client
        /\ n = sent.client /\ m = sent.server /\ ex = expired
  OBVIOUS
<1>2. h \in Chunks /\ Good(c, place, g, h, n, m, ex) /\ c \in Connections
  BY <1>1, Counters DEF Inv, AllGood, Good, Sound
<1>3. CASE place # "pool"
  <2>1. conn' = conn /\ place' = place
    BY <1>3 DEF HandleIdle, PoolCheck
  <2>2. UNCHANGED <<setting, arrived, sent, got, loop, removed, expired>>
        /\ batch' \subseteq batch
    BY <1>3 DEF HandleIdle, PoolCheck
  <2>3. Book'
    BY <2>1, <2>2 DEF Inv, Book
  <2>4. AllGood'
    BY <1>1, <1>2, <2>1, <2>2 DEF AllGood
  <2> QED
    BY <2>3, <2>4 DEF Inv
<1>4. CASE place = "pool"
  <2>1. PICK e, q : /\ PoolStep(c.server_conn, e, q)
                    /\ d = [c EXCEPT !.server_conn = q]
    <3>1. CASE HandleIdle
      <4>1. PICK e \in batch : conn' = [conn EXCEPT !.server_conn = PoolReady(@, e)]
        BY <1>4, <3>1 DEF HandleIdle
      <4> QED
        BY <1>1, <4>1 DEF PoolStep
    <3>2. CASE PoolCheck
      <4>1. conn' = [conn EXCEPT !.server_conn = PoolChecked(@)]
        BY <3>2 DEF PoolCheck
      <4> QED
        BY <1>1, <4>1 DEF PoolStep
    <3> QED
      BY <3>1, <3>2
  <2>2. Good(c, "pool", g, h, n, m, ex)
    BY <1>2, <1>4
  <2>3. PICK pl : pl = PlaceOf(q)
    OBVIOUS
  <2>4. d.server_conn = q /\ Good(d, pl, g, h, n, m, ex)
    BY ONLY <1>2, <2>3, <2>1, <2>2, GoodPool, Zenon
  <2>5. /\ place' = pl /\ pl \in {"pool", "dropped"}
        /\ UNCHANGED <<setting, arrived, sent, got, loop, removed, expired>>
        /\ batch' \subseteq batch
    BY <1>1, <1>4, <2>3, <2>4 DEF HandleIdle, PoolCheck, PlaceOf
  <2>6. Good(d, place', g, h, n, m, ex)
    BY <2>4, <2>5
  <2>7. AllGood'
    BY <1>1, <2>5, <2>6 DEF AllGood
  <2>8. Book'
    BY <1>4, <2>5 DEF Inv, Book
  <2> QED
    BY <2>7, <2>8 DEF Inv
<1> QED
  BY <1>3, <1>4

\* The handlers of a connection in the table.
LEMMA InvHandle ==
  ASSUME Inv, HandleTcp \/ HandleClient
  PROVE  Inv'
<1>1. PICK c, d, g, h, n, m, ex :
        /\ c = conn /\ d = conn' /\ g = got.server /\ h = got.client
        /\ n = sent.client /\ m = sent.server /\ ex = expired
  OBVIOUS
<1>2. PICK e \in batch : /\ e.ch \in {"tcp", "client"}
                         /\ d = ReadyTcp(c, e) \/ d = ReadyClient(c, e)
                         /\ batch' = batch \ {e} /\ removed' \in BOOLEAN
                         /\ UNCHANGED <<setting, place, arrived, sent, got, loop, expired>>
  BY <1>1 DEF HandleTcp, HandleClient, Handled, destroyed, Inv, Book
<1>3. place = "conns" /\ ~ex
  BY <1>1, <1>2 DEF Inv, Book
<1>4. h \in Chunks /\ Good(c, "conns", g, h, n, m, ex)
  BY <1>1, <1>3, Counters DEF Inv, AllGood
<1>5. Sound(c) /\ Closing(c)
  BY <1>3, <1>4 DEF Good
<1>6. Runs(c, d)
  BY <1>2, <1>5, ReadiesTcp, ReadiesClient, Zenon
<1>7. Good(d, "conns", g, h, n, m, ex)
  BY <1>4, <1>6, GoodRuns, Zenon
<1>8. AllGood'
  BY <1>1, <1>2, <1>3, <1>7 DEF AllGood
<1>9. Book'
  BY <1>2, <1>3 DEF Inv, Book
<1> QED
  BY <1>8, <1>9 DEF Inv

\* remove_closed, and check_timeout of the table.
LEMMA InvLeaves ==
  ASSUME Inv, EndBatch \/ Timeout
  PROVE  Inv'
<1>1. PICK c, d, g, h, n, m, ex :
        /\ c = conn /\ d = conn' /\ g = got.server /\ h = got.client
        /\ n = sent.client /\ m = sent.server /\ ex = expired
  OBVIOUS
<1>2. h \in Chunks /\ Good(c, place, g, h, n, m, ex)
  BY <1>1, Counters DEF Inv, AllGood
<1>3. CASE EndBatch
  <2>1. Good(c, place', g, h, n, m, ex)
    <3>1. CASE place' = place
      BY <1>2, <3>1
    <3>2. CASE place' # place
      <4>1. place = "conns" /\ place' = "out"
        BY <1>3, <3>2 DEF EndBatch, Inv, Book
      <4>2. Good(c, "conns", g, h, n, m, ex)
        BY <1>2, <4>1
      <4>3. Good(c, "out", g, h, n, m, ex)
        BY <4>2, GoodLeaves, Zenon
      <4> QED
        BY <4>1, <4>3
    <3> QED
      BY <3>1, <3>2
  <2>2. AllGood'
    BY <1>1, <1>3, <2>1 DEF EndBatch, AllGood
  <2>3. Book'
    BY <1>3 DEF EndBatch, Inv, Book
  <2> QED
    BY <2>2, <2>3 DEF Inv
<1>4. CASE Timeout
  <2>1. d = destroy(c) /\ place = "conns"
    BY <1>1, <1>4 DEF Timeout
  <2>2. Good(c, "conns", g, h, n, m, ex)
    BY <1>2, <2>1
  <2>3. Good(d, "out", g, h, n, m, TRUE)
    BY <1>2, <2>1, <2>2, GoodExpires, Zenon
  <2>4. AllGood'
    BY <1>1, <1>4, <2>3 DEF Timeout, AllGood
  <2>5. Book'
    BY <1>4 DEF Timeout, Inv, Book
  <2> QED
    BY <2>4, <2>5 DEF Inv
<1> QED
  BY <1>3, <1>4

\* What the peers leave alone of the loop's state.
Apart == UNCHANGED <<setting, place, loop, batch, removed, expired>>

LEMMA BookApart ==
  ASSUME Book, Apart, arrived' \in BOOLEAN, sent' \in [client : Nat, server : Nat],
         got' \in [client : Chunks, server : Chunks]
  PROVE  Book'
BY DEF Book, Apart

\* The client.
LEMMA InvClient ==
  ASSUME Inv, ClientArrive \/ ClientSend \/ ClientEnd \/ ClientRecv
  PROVE  Inv'
<1>1. PICK c, d, pl, g, h, n, m, ex :
        /\ c = conn /\ d = conn' /\ pl = place /\ g = got.server /\ h = got.client
        /\ n = sent.client /\ m = sent.server /\ ex = expired
  OBVIOUS
<1>2. /\ g \in Chunks /\ h \in Chunks /\ n \in Nat /\ Good(c, pl, g, h, n, m, ex)
      /\ sent \in [client : Nat, server : Nat] /\ got \in [client : Chunks, server : Chunks]
      /\ pl \in {"pool", "conns", "out", "dropped"} /\ arrived \in BOOLEAN
  BY <1>1, Counters DEF Inv, AllGood, Book
<1>3. Apart
  BY DEF Apart, ClientArrive, ClientSend, ClientEnd, ClientRecv
<1>4. CASE ClientArrive
  <2>1. AllGood'
    BY <1>4 DEF ClientArrive, Inv, AllGood
  <2>2. Book'
    BY <1>2, <1>3, <1>4, BookApart DEF ClientArrive, Inv
  <2> QED
    BY <2>1, <2>2 DEF Inv
<1>5. CASE ClientSend
  <2>1. /\ pl \in {"pool", "conns"} /\ c.client.stream.end = "open"
        /\ ~is_shutdown(c.client.status)
        /\ d = [c EXCEPT !.client.stream = Arrived(c.client.stream, n + 1)]
    BY <1>1, <1>2, <1>5 DEF ClientSend, ClientOpen, Client, Gone
  <2>2. Good(d, pl, g, h, n + 1, m, ex)
    BY <1>2, <2>1, GoodClientSend, Zenon
  <2>3. /\ sent' \in [client : Nat, server : Nat] /\ got' = got /\ arrived' = arrived
        /\ sent'.client = n + 1 /\ sent'.server = m
    BY <1>1, <1>2, <1>5 DEF ClientSend
  <2>4. AllGood'
    BY <1>1, <1>3, <2>2, <2>3 DEF AllGood, Apart
  <2>5. Book'
    BY <1>2, <1>3, <2>3, BookApart DEF Inv
  <2> QED
    BY <2>4, <2>5 DEF Inv
<1>6. CASE ClientEnd
  <2>1. PICK how \in {"fin", "rst"} :
          conn' = [conn EXCEPT !.client.stream = EndedBy(@, how)]
    BY <1>6 DEF ClientEnd
  <2>2. /\ pl \in {"pool", "conns"} /\ c.client.stream.end = "open"
        /\ ~is_shutdown(c.client.status)
        /\ d = [c EXCEPT !.client.stream = EndedBy(c.client.stream, how)]
    BY <1>1, <1>2, <1>6, <2>1 DEF ClientEnd, ClientOpen, Client, Gone
  <2>3. Good(d, pl, g, h, n, m, ex)
    BY <1>2, <2>2, GoodClientEnd, Zenon
  <2>4. sent' = sent /\ got' = got /\ arrived' = arrived
    BY <1>6 DEF ClientEnd
  <2>5. AllGood'
    BY <1>1, <1>3, <2>3, <2>4 DEF AllGood, Apart
  <2>6. Book'
    BY <1>2, <1>3, <2>4, BookApart DEF Inv
  <2> QED
    BY <2>5, <2>6 DEF Inv
<1>7. CASE ClientRecv
  <2>1. PICK f : f = Append(h, Head(c.client.stream.out))
    OBVIOUS
  <2>2. /\ Takes(h, c.client.stream, f)
        /\ d = [c EXCEPT !.client.stream = Received(c.client.stream)]
    BY <1>1, <1>7, <2>1 DEF ClientRecv, Client, Takes
  <2>3. f \in Chunks /\ Good(d, pl, g, f, n, m, ex)
    BY ONLY <1>2, <2>2, GoodClientRecv, Zenon
  <2>4. /\ got' \in [client : Chunks, server : Chunks] /\ sent' = sent /\ arrived' = arrived
        /\ got'.client = f /\ got'.server = g
    <3>1. got' = [got EXCEPT !.client = f]
      BY <1>1, <1>7, <2>1 DEF ClientRecv, Client
    <3> QED
      BY <1>1, <1>2, <1>7, <2>3, <3>1 DEF ClientRecv
  <2>5. AllGood'
    BY <1>1, <1>3, <2>3, <2>4 DEF AllGood, Apart
  <2>6. Book'
    BY <1>2, <1>3, <2>4, BookApart DEF Inv
  <2> QED
    BY <2>5, <2>6 DEF Inv
<1> QED
  BY <1>4, <1>5, <1>6, <1>7

\* The trojan server.
LEMMA InvServer ==
  ASSUME Inv, ServerConnect \/ ServerHello \/ ServerSend \/ ServerEnd \/ ServerRecv
  PROVE  Inv'
<1>1. PICK c, d, pl, g, h, n, m, ex :
        /\ c = conn /\ d = conn' /\ pl = place /\ g = got.server /\ h = got.client
        /\ n = sent.client /\ m = sent.server /\ ex = expired
  OBVIOUS
<1>2. /\ g \in Chunks /\ h \in Chunks /\ n \in Nat /\ m \in Nat /\ Good(c, pl, g, h, n, m, ex)
      /\ sent \in [client : Nat, server : Nat] /\ got \in [client : Chunks, server : Chunks]
      /\ pl \in {"pool", "conns", "out", "dropped"} /\ arrived \in BOOLEAN
      /\ ex \in BOOLEAN /\ (ex => pl = "out")
  BY <1>1, Counters DEF Inv, AllGood, Book
<1>3. Apart /\ arrived' = arrived
  BY DEF Apart, ServerConnect, ServerHello, ServerSend, ServerEnd, ServerRecv
<1>4. CASE ServerConnect \/ ServerHello \/ ServerEnd
  <2>1. sent' = sent /\ got' = got
    BY <1>4 DEF ServerConnect, ServerHello, ServerEnd
  <2>2. Good(d, pl, g, h, n, m, ex)
    <3>1. CASE ServerConnect
      <4>1. PICK how \in {"open", "rst"} :
              conn' = [conn EXCEPT !.server_conn.stream =
                         [conn.server_conn.stream EXCEPT !.up = TRUE, !.end = how, !.edge = TRUE]]
        BY <3>1 DEF ServerConnect
      <4>2. /\ ~c.server_conn.stream.up
            /\ d = [c EXCEPT !.server_conn.stream =
                      [c.server_conn.stream EXCEPT !.up = TRUE, !.end = how, !.edge = TRUE]]
        BY <1>1, <3>1, <4>1 DEF ServerConnect, Server
      <4> QED
        BY <1>2, <4>2, GoodServerConnect, Zenon
    <3>2. CASE ServerHello
      <4>1. d = [c EXCEPT !.server_conn.tls = "hello", !.server_conn.stream.edge = TRUE]
        BY <1>1, <3>2 DEF ServerHello
      <4> QED
        BY <1>2, <4>1, GoodServerHello, Zenon
    <3>3. CASE ServerEnd
      <4>1. PICK how \in {"fin", "rst", "bad"} :
              conn' = [conn EXCEPT !.server_conn.stream = EndedBy(@, how)]
        BY <3>3 DEF ServerEnd
      <4>2. /\ pl \in {"pool", "conns"} /\ c.server_conn.stream.end = "open"
            /\ c.server_conn.stream.up
            /\ d = [c EXCEPT !.server_conn.stream = EndedBy(c.server_conn.stream, how)]
        BY <1>1, <1>2, <3>3, <4>1 DEF ServerEnd, ServerOpen, Server, Gone
      <4>3. ex = FALSE
        BY <1>2, <4>2
      <4>4. Good(c, pl, g, h, n, m, FALSE)
        BY <1>2, <4>3
      <4>5. Good(d, pl, g, h, n, m, FALSE)
        BY <1>2, <4>2, <4>4, GoodServerEnd, Zenon
      <4> QED
        BY <4>3, <4>5
    <3> QED
      BY <1>4, <3>1, <3>2, <3>3
  <2>3. AllGood'
    BY <1>1, <1>3, <2>1, <2>2 DEF AllGood, Apart
  <2>4. Book'
    BY <1>2, <1>3, <2>1, BookApart DEF Inv
  <2> QED
    BY <2>3, <2>4 DEF Inv
<1>5. CASE ServerSend
  <2>1. /\ g # <<>> /\ c.server_conn.stream.end = "open"
        /\ d = [c EXCEPT !.server_conn.stream = Arrived(c.server_conn.stream, m + 1)]
    BY <1>1, <1>5 DEF ServerSend, ServerOpen, Server
  <2>2. Good(d, pl, g, h, n, m + 1, ex)
    BY <1>2, <2>1, GoodServerSend, Zenon
  <2>3. /\ sent' \in [client : Nat, server : Nat] /\ got' = got
        /\ sent'.client = n /\ sent'.server = m + 1
    BY <1>1, <1>2, <1>5 DEF ServerSend
  <2>4. AllGood'
    BY <1>1, <1>3, <2>2, <2>3 DEF AllGood, Apart
  <2>5. Book'
    BY <1>2, <1>3, <2>3, BookApart DEF Inv
  <2> QED
    BY <2>4, <2>5 DEF Inv
<1>6. CASE ServerRecv
  <2>1. PICK f : f = Append(g, Head(c.server_conn.stream.out))
    OBVIOUS
  <2>2. /\ Takes(g, c.server_conn.stream, f)
        /\ d = [c EXCEPT !.server_conn.stream = Received(c.server_conn.stream)]
    BY <1>1, <1>6, <2>1 DEF ServerRecv, Server, Takes
  <2>3. f \in Chunks /\ Good(d, pl, f, h, n, m, ex)
    BY ONLY <1>2, <2>2, GoodServerRecv, Zenon
  <2>4. /\ got' \in [client : Chunks, server : Chunks] /\ sent' = sent
        /\ got'.client = h /\ got'.server = f
    <3>1. got' = [got EXCEPT !.server = f]
      BY <1>1, <1>6, <2>1 DEF ServerRecv, Server
    <3> QED
      BY <1>1, <1>2, <1>6, <2>3, <3>1 DEF ServerRecv
  <2>5. AllGood'
    BY <1>1, <1>3, <2>3, <2>4 DEF AllGood, Apart
  <2>6. Book'
    BY <1>2, <1>3, <2>4, BookApart DEF Inv
  <2> QED
    BY <2>5, <2>6 DEF Inv
<1> QED
  BY <1>4, <1>5, <1>6

LEMMA InvNext ==
  ASSUME Inv, [Next]_vars
  PROVE  Inv'
<1>1. CASE Loop
  BY <1>1, InvPoll, InvAccept, InvIdle, InvHandle, InvLeaves DEF Loop
<1>2. CASE Timeout \/ PoolCheck
  BY <1>2, InvLeaves, InvIdle
<1>3. CASE Peers
  BY <1>3, InvClient, InvServer DEF Peers
<1>4. CASE UNCHANGED vars
  BY <1>4 DEF vars, Inv, Book, AllGood
<1> QED
  BY <1>1, <1>2, <1>3, <1>4 DEF Next, PollTimesOut

\* The inductive invariant holds in every state the proxy reaches.
THEOREM Invariant == Spec => []Inv
<1>1. Init => Inv
  BY InvInit
<1>2. Inv /\ [Next]_vars => Inv'
  BY InvNext
<1> QED
  BY <1>1, <1>2, PTL DEF Spec

-----------------------------------------------------------------------------
(* The theorems *)

\* Every variable has its type, and no socket holds more than its buffer.
THEOREM TypeCorrect == Spec => []TypeOK
<1>1. Inv => TypeOK
  BY DEF Inv, Book, AllGood, Good, Sound, TlsSound, TypeOK, Client, Server
<1> QED
  BY <1>1, Invariant, PTL

\* The server gets the request that accept_once wrote and behind it, in order,
\* what the client sent; the client gets in order what the server sent; and
\* while a side is up every chunk for it is in exactly one place.
THEOREM NothingIsLost == Spec => []NothingLost
<1>1. Inv => RequestFirst
  <2> SUFFICES ASSUME Inv PROVE RequestFirst
    OBVIOUS
  <2>1. PICK g, n, p, out, session, plain, in :
          /\ g = got.server /\ n = sent.client /\ p = conn.server_conn
          /\ out = p.stream.out /\ session = p.session /\ plain = p.plain
          /\ in = conn.client.stream.in
    OBVIOUS
  <2>2. /\ g \in Chunks /\ n \in Nat /\ p \in TlsConns /\ out \in Chunks /\ session \in Chunks
        /\ plain \in Chunks /\ in \in Chunks /\ Pending(p) \in Chunks /\ Queue(p) \in Chunks
        /\ UpFlow(conn, place, g, n)
    BY <2>1, Counters, Parts, ClientParts, TlsParts DEF Inv, AllGood, Good, Sound
  <2>3. PICK at \in Chunks : at = g \o out
    BY <2>2, Joined
  <2>4. AtServer = at
    BY <2>1, <2>3 DEF AtServer, Server
  <2>5. CASE place \in {"conns", "out"}
    <3>1. PICK x, q, y \in Chunks : x = Pending(p) /\ q = Queue(p) /\ y = x \o in
      BY <2>2, Joined
    <3>2. x = session \o plain /\ q = out \o x
      BY <2>1, <3>1 DEF Pending, Queue
    <3>3. g \o (q \o in) = Request(n)
      BY <2>1, <2>2, <2>5, <3>1 DEF UpFlow, Upward
    <3>4. Regroups(out, x, in) /\ Regroups(g, out, y)
      BY <2>2, <3>1, Regrouping, Zenon
    <3>5. at \o y = Request(n)
      BY <2>3, <3>1, <3>2, <3>3, <3>4 DEF Regroups
    <3>6. Request(n) \in Chunks
      BY <2>2, Requests
    <3>7. FrontOf(at, Request(n))
      BY <3>5, <3>6 DEF FrontOf
    <3>8. at = SubSeq(Request(n), 1, Len(at))
      BY <3>7, FrontCut, Zenon
    <3>9. ((at \o session) \o plain) \o in = Request(n)
      <4>1. PICK s \in Chunks : s = at \o session
        BY <2>2, Joined
      <4>2. Regroups(at, session, plain) /\ Regroups(at, x, in)
        BY <2>2, <2>3, <3>1, Regrouping, Zenon
      <4> QED
        BY <3>1, <3>2, <3>5, <4>2 DEF Regroups
    <3> QED
      BY <2>1, <2>4, <3>8, <3>9 DEF RequestFirst, Server, Client
  <2>6. CASE place \notin {"conns", "out"}
    <3>1. g = <<>> /\ out \o Pending(p) = <<>>
      BY <2>1, <2>2, <2>6 DEF UpFlow, Queue
    <3>2. out = <<>>
      BY <2>2, <3>1, EmptyParts
    <3>3. at = <<>> /\ Request(n) \in Chunks /\ <<>> \o Request(n) = Request(n) /\ <<>> \in Chunks
      BY <2>2, <2>3, <3>1, <3>2, Requests, NothingJoined
    <3>4. FrontOf(at, Request(n))
      BY <3>3 DEF FrontOf
    <3>5. at = SubSeq(Request(n), 1, Len(at))
      BY <3>4, FrontCut, Zenon
    <3> QED
      BY <2>1, <2>4, <2>6, <3>5 DEF RequestFirst
  <2> QED
    BY <2>5, <2>6
<1>2. Inv => DownstreamInOrder
  <2> SUFFICES ASSUME Inv PROVE DownstreamInOrder
    OBVIOUS
  <2>1. PICK h, m, b, out, sb, in :
          /\ h = got.client /\ m = sent.server /\ b = conn.client
          /\ out = b.stream.out /\ sb = b.send_buffer /\ in = conn.server_conn.stream.in
    OBVIOUS
  <2>2. /\ h \in Chunks /\ m \in Nat /\ out \in Chunks /\ sb \in Chunks /\ in \in Chunks
        /\ Held(b) \in Chunks /\ DownFlow(conn, h, m)
    BY <2>1, Counters, Parts, ClientParts, TlsParts DEF Inv, AllGood, Good, Sound
  <2>3. PICK at, x \in Chunks : at = h \o out /\ x = Held(b)
    BY <2>2, Joined
  <2>4. AtClient = at /\ x = out \o sb
    BY <2>1, <2>3 DEF AtClient, Client, Held
  <2>5. Prefix(at, m)
    <3>1. FrontOf(out, x) /\ FrontOf(x, x \o in)
      BY <2>2, <2>3, <2>4, FrontPart
    <3>2. FrontOf(out, x \o in)
      BY <3>1, FrontTwice, Zenon
    <3>3. Owed(conn) \in {x, x \o in}
      BY <2>1, <2>3 DEF Owed, Downward
    <3>4. FrontOf(out, Owed(conn))
      BY <3>1, <3>2, <3>3
    <3>5. FrontOf(h \o out, h \o Owed(conn))
      BY <2>2, <3>4, FrontBehind, Zenon
    <3>6. FrontOf(h \o Owed(conn), Count(m))
      BY <2>2 DEF DownFlow
    <3>7. FrontOf(h \o out, Count(m))
      BY <3>5, <3>6, FrontTwice, Zenon
    <3>8. FrontOf(at, Count(m))
      BY <2>3, <3>7
    <3> QED
      BY <2>2, <3>8, FrontCounts, Zenon
  <2>6. ~is_shutdown(b.status) /\ conn.server_conn.stream.end # "bad" =>
          (at \o sb) \o in = Count(m)
    <3> SUFFICES ASSUME ~is_shutdown(b.status), conn.server_conn.stream.end # "bad"
                 PROVE  (at \o sb) \o in = Count(m)
      OBVIOUS
    <3>1. h \o (x \o in) = Count(m)
      BY <2>1, <2>2, <2>3 DEF DownFlow, Kept, Downward
    <3>2. Regroups(h, out, sb) /\ Regroups(h, x, in)
      BY <2>2, <2>3, Regrouping, Zenon
    <3> QED
      BY <2>3, <2>4, <3>1, <3>2 DEF Regroups
  <2> QED
    BY <2>1, <2>4, <2>5, <2>6 DEF DownstreamInOrder, Client, Server
<1> QED
  BY <1>1, <1>2, Invariant, PTL DEF NothingLost

\* "peer is closed, sending remaining data": a side that is shut down because
\* the other one ended was given everything before, except for plaintext that
\* waits for the end of the handshake: that is all that can be lost.
THEOREM RemainderIsSent == Spec => []RemainingDataSent
<1>1. Inv => RemainingDataSent
  <2> SUFFICES ASSUME Inv, ~expired, place \in {"conns", "out"} PROVE
        /\ (/\ is_shutdown(Server.status)
            /\ Server.stream.end = "open" /\ Client.stream.end = "fin")
             => /\ AtServer \o Server.plain = Request(sent.client)
                /\ Server.tls = "up" => AtServer = Request(sent.client)
        /\ (/\ is_shutdown(Client.status) /\ is_shutdown(Server.status)
            /\ Client.stream.end = "open" /\ Server.stream.end = "fin")
             => AtClient = Count(sent.server)
    BY DEF RemainingDataSent, ServerFollows, ClientFollows
  <2>1. PICK g, h, n, m, p, b :
          /\ g = got.server /\ n = sent.client /\ h = got.client /\ m = sent.server
          /\ p = conn.server_conn /\ b = conn.client
    OBVIOUS
  <2>2. /\ g \in Chunks /\ h \in Chunks /\ n \in Nat /\ m \in Nat
        /\ p.stream.out \in Chunks /\ b.stream.out \in Chunks /\ p.plain \in Chunks
        /\ p.tls = "up" => p.plain = <<>>
        /\ UpFlow(conn, place, g, n) /\ DownFlow(conn, h, m) /\ Closing(conn)
    BY <2>1, Counters, Parts, ClientParts, TlsParts DEF Inv, AllGood, Good, Sound, TlsSound
  <2>3. b.stream.out \o <<>> = b.stream.out
    BY <2>2, NothingJoined
  <2>4. ASSUME is_shutdown(p.status), p.stream.end = "open", b.stream.end = "fin"
        PROVE  /\ AtServer \o p.plain = Request(n)
               /\ p.tls = "up" => AtServer = Request(n)
    <3>1. PICK out \in Chunks, plain \in Chunks : out = p.stream.out /\ plain = p.plain
      BY <2>2
    <3>2. p.session = <<>> /\ b.stream.in = <<>>
      BY <2>1, <2>2, <2>4 DEF Closing, UpDone
    <3>3. PICK q, at \in Chunks : q = out \o plain /\ at = g \o out
      BY <2>2, Joined
    <3>4. <<>> \o plain = plain /\ q \o <<>> = q /\ at \o <<>> = at
      BY <3>3, NothingJoined
    <3>5. Upward(conn) = q
      BY <2>1, <3>1, <3>2, <3>3, <3>4 DEF Upward, Queue, Pending
    <3>6. g \o q = Request(n)
      BY <2>2, <3>5 DEF UpFlow
    <3>7. Regroups(g, out, plain)
      BY <2>2, <3>1, Regrouping, Zenon
    <3>8. at \o plain = Request(n)
      BY <3>3, <3>6, <3>7 DEF Regroups
    <3>9. AtServer = at
      BY <2>1, <3>1, <3>3 DEF AtServer, Server
    <3> QED
      BY <2>2, <3>1, <3>4, <3>8, <3>9
  <2>5. ASSUME is_shutdown(b.status), is_shutdown(p.status), b.stream.end = "open",
               p.stream.end = "fin"
        PROVE  AtClient = Count(m)
    <3>1. b.send_buffer = <<>> /\ p.stream.in = <<>>
      BY <2>1, <2>2, <2>5 DEF Closing, DownDone
    <3>2. Downward(conn) = b.stream.out
      BY <2>1, <2>3, <3>1 DEF Downward, Held
    <3>3. Kept(conn)
      BY <2>1, <2>5 DEF Kept
    <3> QED
      BY <2>1, <2>2, <3>2, <3>3 DEF DownFlow, AtClient, Client
  <2> QED
    BY <2>1, <2>4, <2>5 DEF Server, Client
<1> QED
  BY <1>1, Invariant, PTL
=============================================================================
