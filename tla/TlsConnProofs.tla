---------------------------- MODULE TlsConnProofs ----------------------------
(***************************************************************************)
(* What the operators of KernelSocket, ConnStatus and TlsConn do, for      *)
(* every socket, every amount of data and every Cap: the lemmas that the   *)
(* proofs about connections rest on.  Their common theme is that moving    *)
(* data along leaves the sequence it is part of as it was.                 *)
(***************************************************************************)
EXTENDS TlsConn, SequenceTheorems, TLAPS

-----------------------------------------------------------------------------
(* Sequences of chunks *)

\* Two sequences of chunks make one.
LEMMA Joined ==
  ASSUME NEW s \in Chunks, NEW t \in Chunks
  PROVE  s \o t \in Chunks /\ Len(s \o t) = Len(s) + Len(t)
BY ConcatProperties DEF Chunks

\* Three make the same one in either way.
LEMMA JoinedTwice ==
  ASSUME NEW s \in Chunks, NEW t \in Chunks, NEW u \in Chunks
  PROVE  (s \o t) \o u = s \o (t \o u)
BY ConcatAssociative, SMTT(60) DEF Chunks

\* The same with a name for what is concluded.
Regroups(s, t, u) == (s \o t) \o u = s \o (t \o u)

LEMMA Regrouping ==
  ASSUME NEW s \in Chunks, NEW t \in Chunks, NEW u \in Chunks
  PROVE  Regroups(s, t, u)
BY JoinedTwice DEF Regroups

\* The empty sequence changes nothing.
LEMMA NothingJoined ==
  ASSUME NEW s \in Chunks
  PROVE  /\ <<>> \in Chunks /\ Len(<<>>) = 0
         /\ s \o <<>> = s /\ <<>> \o s = s
         /\ Len(s) \in Nat
         /\ Len(s) = 0 => s = <<>>
BY ConcatEmptySeq, EmptySeq, LenProperties DEF Chunks

\* A write that takes the first n chunks and leaves the rest keeps the order.
LEMMA SplitKeeps ==
  ASSUME NEW d \in Chunks, NEW n \in 0 .. Len(d)
  PROVE  /\ SubSeq(d, 1, n) \in Chunks /\ Len(SubSeq(d, 1, n)) = n
         /\ Rest(d, n) \in Chunks /\ Len(Rest(d, n)) = Len(d) - n
         /\ SubSeq(d, 1, n) \o Rest(d, n) = d
<1>1. Len(d) \in Nat /\ \A i \in 1 .. Len(d) : d[i] \in Nat
  BY LenProperties, ElementOfSeq DEF Chunks
<1>2. SubSeq(d, 1, n) \in Chunks /\ Len(SubSeq(d, 1, n)) = n
  <2>1. \A i \in 1 .. n : d[i] \in Nat
    BY <1>1
  <2> QED
    BY <1>1, <2>1, SubSeqProperties DEF Chunks
<1>3. Rest(d, n) \in Chunks /\ Len(Rest(d, n)) = Len(d) - n
  <2>1. \A i \in n + 1 .. Len(d) : d[i] \in Nat
    BY <1>1
  <2> QED
    BY <1>1, <2>1, SubSeqProperties, SMTT(30) DEF Chunks, Rest
<1>4. SubSeq(d, 1, n) \o SubSeq(d, n + 1, Len(d)) = SubSeq(d, 1, Len(d))
  <2>1. 1 \in 1 .. Len(d) + 1 /\ n \in 1 - 1 .. Len(d) /\ Len(d) \in n .. Len(d)
    BY <1>1
  <2> QED
    BY <1>1, <2>1, ConcatAdjacentSubSeq DEF Chunks
<1> QED
  BY <1>2, <1>3, <1>4, SubSeqFull DEF Rest, Chunks

\* A chunk that goes from the front of one sequence to the end of another.
LEMMA HandedOn ==
  ASSUME NEW s \in Chunks, NEW t \in Chunks, t # <<>>
  PROVE  /\ Append(s, Head(t)) \in Chunks
         /\ Tail(t) \in Chunks
         /\ Len(Tail(t)) = Len(t) - 1
         /\ Append(s, Head(t)) \o Tail(t) = s \o t
<1>1. /\ Head(t) \in Nat /\ Tail(t) \in Seq(Nat) /\ Len(Tail(t)) = Len(t) - 1
      /\ Len(t) \in Nat \ {0}
  BY HeadTailProperties, EmptySeq DEF Chunks
<1>2. Append(s, Head(t)) = s \o <<Head(t)>> /\ Append(s, Head(t)) \in Seq(Nat)
  BY <1>1, AppendIsConcat, AppendProperties DEF Chunks
<1>3. t = <<Head(t)>> \o Tail(t)
  <2>1. SubSeq(t, 1, Len(t)) = <<t[1]>> \o SubSeq(t, 1 + 1, Len(t))
    <3>1. 1 \in 1 .. Len(t) /\ Len(t) \in 1 .. Len(t)
      BY <1>1
    <3> QED
      BY <3>1, SubSeqRecursiveFirst DEF Chunks
  <2>2. SubSeq(t, 1, Len(t)) = t /\ Tail(t) = SubSeq(t, 2, Len(t)) /\ Head(t) = t[1]
    BY SubSeqFull, TailIsSubSeq DEF Chunks
  <2> QED
    BY <2>1, <2>2
<1>4. <<Head(t)>> \in Seq(Nat)
  BY <1>1
<1> QED
  BY <1>1, <1>2, <1>3, <1>4, ConcatAssociative DEF Chunks

\* Two ways to cut one sequence in two.
Recut(k, r, s, t) ==
  k \in Chunks /\ r \in Chunks /\ s \in Chunks /\ t \in Chunks /\ k \o r = s \o t

\* What follows the sequence does not tell them apart.
LEMMA SameBehind ==
  ASSUME NEW k, NEW r, NEW s, NEW t, Recut(k, r, s, t), NEW u \in Chunks
  PROVE  Recut(k, r \o u, s, t \o u)
<1>1. /\ k \in Chunks /\ r \in Chunks /\ s \in Chunks /\ t \in Chunks
      /\ r \o u \in Chunks /\ t \o u \in Chunks
  BY Joined DEF Recut
<1>2. Regroups(k, r, u)
  BY <1>1, Regrouping, Zenon
<1>3. Regroups(s, t, u)
  BY <1>1, Regrouping, Zenon
<1> QED
  BY <1>1, <1>2, <1>3 DEF Recut, Regroups

\* Counting.
LEMMA Counting ==
  ASSUME NEW n \in Nat
  PROVE  /\ Count(n) \in Chunks
         /\ Len(Count(n)) = n
         /\ \A i \in 1 .. n : Count(n)[i] = i
         /\ Append(Count(n), n + 1) = Count(n + 1)
<1>1. \A m \in Nat : /\ Count(m) \in Chunks
                     /\ Len(Count(m)) = m
                     /\ \A i \in 1 .. m : Count(m)[i] = i
  <2> SUFFICES ASSUME NEW m \in Nat
               PROVE  /\ Count(m) \in Chunks
                      /\ Len(Count(m)) = m
                      /\ \A i \in 1 .. m : Count(m)[i] = i
    OBVIOUS
  <2>1. Count(m) \in [1 .. m -> Nat]
    BY DEF Count
  <2> QED
    BY <2>1, SeqDef, LenProperties DEF Count, Chunks
<1>2. /\ Append(Count(n), n + 1) \in Seq(Nat)
      /\ Len(Append(Count(n), n + 1)) = n + 1
      /\ \A i \in 1 .. n : Append(Count(n), n + 1)[i] = i
      /\ Append(Count(n), n + 1)[n + 1] = n + 1
  BY <1>1, AppendProperties DEF Chunks
<1>3. Append(Count(n), n + 1) = Count(n + 1)
  BY <1>1, <1>2, SeqEqual, n + 1 \in Nat DEF Chunks
<1> QED
  BY <1>1, <1>3

\* The next chunk at the end of what is counted.
LEMMA CountsOn ==
  ASSUME NEW s \in Chunks, NEW t \in Chunks, NEW n \in Nat, s \o t = Count(n)
  PROVE  s \o Append(t, n + 1) = Count(n + 1)
<1>0. PICK y \in Nat : y = n + 1
  OBVIOUS
<1>1. PICK x \in Chunks : x = <<y>>
  <2>1. <<y>> \in Seq(Nat)
    OBVIOUS
  <2> QED
    BY <2>1 DEF Chunks
<1>2. Append(t, n + 1) = t \o x /\ Append(Count(n), n + 1) = Count(n) \o x
  <2>1. PICK k \in Chunks : k = Count(n)
    BY Counting
  <2>2. Append(t, y) = t \o <<y>> /\ Append(k, y) = k \o <<y>>
    BY AppendIsConcat DEF Chunks
  <2> QED
    BY <1>0, <1>1, <2>1, <2>2
<1>3. (s \o t) \o x = s \o (t \o x)
  BY ONLY s \in Chunks, t \in Chunks, x \in Chunks, JoinedTwice
<1>4. Append(Count(n), n + 1) = Count(n + 1)
  BY Counting
<1> QED
  BY <1>2, <1>3, <1>4

\* One chunk more.
LEMMA OneMore ==
  ASSUME NEW s \in Chunks, NEW x \in Nat
  PROVE  /\ Append(s, x) \in Chunks /\ Len(Append(s, x)) = Len(s) + 1
         /\ Append(s, x) # <<>>
         /\ \A i \in 1 .. Len(s) : Append(s, x)[i] = s[i]
         /\ Append(s, x)[Len(s) + 1] = x
<1>1. /\ Append(s, x) \in Seq(Nat) /\ Len(Append(s, x)) = Len(s) + 1 /\ Len(s) \in Nat
      /\ \A i \in 1 .. Len(s) : Append(s, x)[i] = s[i]
      /\ Append(s, x)[Len(s) + 1] = x
  BY AppendProperties, LenProperties DEF Chunks
<1>2. Append(s, x) # <<>>
  BY <1>1, EmptySeq
<1> QED
  BY <1>1, <1>2 DEF Chunks

\* The front part of what is counted is counted.
LEMMA FrontIsPrefix ==
  ASSUME NEW s \in Chunks, NEW t \in Chunks, NEW n \in Nat, s \o t = Count(n)
  PROVE  Prefix(s, n)
<1>1. Len(s) \in Nat /\ Len(t) \in Nat /\ Len(s) + Len(t) = n
  BY Joined, Counting, LenProperties DEF Chunks
<1>2. \A i \in 1 .. Len(s) : s[i] = i
  <2> SUFFICES ASSUME NEW i \in 1 .. Len(s) PROVE s[i] = i
    OBVIOUS
  <2>1. (s \o t)[i] = s[i]
    BY <1>1, ConcatProperties DEF Chunks
  <2>2. i \in 1 .. n
    BY <1>1
  <2> QED
    BY <2>1, <2>2, Counting
<1>3. PICK m \in Nat : m = Len(s)
  BY <1>1
<1>4. Count(m) \in Seq(Nat) /\ Len(Count(m)) = m /\ \A i \in 1 .. m : Count(m)[i] = i
  BY Counting DEF Chunks
<1>5. s = Count(m)
  BY <1>2, <1>3, <1>4, SeqEqual DEF Chunks
<1> QED
  BY <1>1, <1>3, <1>5 DEF Prefix

\* A prefix of 1, 2, ..., n has prefixes of 1, 2, ..., n only, and is one of
\* any longer count.
LEMMA PrefixShrinks ==
  ASSUME NEW s \in Chunks, NEW t \in Chunks, NEW n \in Nat, Prefix(s \o t, n)
  PROVE  Prefix(s, n)
<1>1. Len(s) \in Nat /\ Len(t) \in Nat /\ Len(s \o t) = Len(s) + Len(t)
  BY Joined, LenProperties DEF Chunks
<1>2. PICK m \in Nat : m = Len(s \o t)
  BY <1>1
<1>3. s \o t = Count(m) /\ m <= n
  BY <1>2 DEF Prefix
<1>4. Prefix(s, m)
  BY <1>3, FrontIsPrefix
<1> QED
  BY <1>1, <1>3, <1>4 DEF Prefix

LEMMA FrontStays ==
  ASSUME NEW g \in Chunks, NEW s \in Chunks, NEW t \in Chunks, NEW n \in Nat,
         Prefix(g \o (s \o t), n)
  PROVE  Prefix(g \o s, n)
<1>1. (g \o s) \o t = g \o (s \o t)
  BY JoinedTwice
<1>2. PICK f \in Chunks : f = g \o s
  BY Joined
<1> QED
  BY <1>1, <1>2, PrefixShrinks

LEMMA PrefixGrows ==
  ASSUME NEW s \in Chunks, NEW n \in Nat, Prefix(s, n)
  PROVE  Prefix(s, n + 1)
BY LenProperties DEF Prefix, Chunks
-----------------------------------------------------------------------------
(* Sockets *)

\* A socket takes at most what it has room for.
LEMMA TakenFits ==
  ASSUME NEW k \in Streams, Len(k.out) <= Cap, NEW d \in Chunks
  PROVE  /\ Taken(k, d) \in 0 .. Len(d)
         /\ Len(k.out) + Taken(k, d) <= Cap
         /\ ~k.up => Taken(k, d) = 0
<1>1. Len(d) \in Nat /\ Len(k.out) \in Nat /\ Cap \in Nat
  BY CapAssumption, LenProperties DEF Chunks, Streams
<1>2. CASE k.up /\ Len(d) <= Cap - Len(k.out)
  <2>1. Taken(k, d) = Len(d)
    BY <1>2 DEF Taken
  <2> QED
    BY <1>1, <1>2, <2>1
<1>3. CASE k.up /\ ~(Len(d) <= Cap - Len(k.out))
  <2>1. Taken(k, d) = Cap - Len(k.out)
    BY <1>3 DEF Taken
  <2> QED
    BY <1>1, <1>3, <2>1
<1>4. CASE ~k.up
  <2>1. Taken(k, d) = 0
    BY <1>4 DEF Taken
  <2> QED
    BY <1>1, <2>1
<1> QED
  BY <1>2, <1>3, <1>4

\* A write of d to the socket k that made it w, the rest of d kept.
Wrote(k, d, w) ==
  /\ w \in Streams /\ Len(w.out) <= Cap
  /\ w.in = k.in /\ w.end = k.end /\ w.up = k.up /\ w.edge = k.edge
  /\ Rest(d, Taken(k, d)) \in Chunks
  /\ Len(Rest(d, Taken(k, d))) <= Len(d)
  /\ w.out \o Rest(d, Taken(k, d)) = k.out \o d

\* A write appends the taken part and touches nothing else but full.
LEMMA Writes ==
  ASSUME NEW k \in Streams, Len(k.out) <= Cap, NEW d \in Chunks, NEW w,
         w = WriteSome(k, d, Taken(k, d))
  PROVE  Wrote(k, d, w)
<1>1. PICK n \in 0 .. Len(d) : n = Taken(k, d) /\ Len(k.out) + n <= Cap
  BY TakenFits
<1>2. /\ SubSeq(d, 1, n) \in Chunks /\ Len(SubSeq(d, 1, n)) = n
      /\ Rest(d, n) \in Chunks /\ Len(Rest(d, n)) = Len(d) - n
      /\ SubSeq(d, 1, n) \o Rest(d, n) = d
  BY SplitKeeps
<1>3. k.out \in Chunks /\ Len(d) \in Nat
  BY LenProperties DEF Streams, Chunks
<1>4. /\ k.out \o SubSeq(d, 1, n) \in Chunks
      /\ Len(k.out \o SubSeq(d, 1, n)) = Len(k.out) + n
      /\ (k.out \o SubSeq(d, 1, n)) \o Rest(d, n) = k.out \o d
  <2>1. PICK a, r, u : a = SubSeq(d, 1, n) /\ r = Rest(d, n) /\ u = k.out
    OBVIOUS
  <2>2. u \in Chunks /\ a \in Chunks /\ r \in Chunks
    BY <1>2, <1>3, <2>1
  <2>3. u \o a \in Chunks /\ Len(u \o a) = Len(u) + Len(a) /\ (u \o a) \o r = u \o (a \o r)
    BY <2>2, Joined, JoinedTwice, SMTT(60)
  <2> QED
    BY <1>2, <2>1, <2>3
<1>5. w = [k EXCEPT !.out = k.out \o SubSeq(d, 1, n), !.full = k.full \/ n < Len(d)]
  BY <1>1 DEF WriteSome
<1>6. w \in Streams
  BY <1>3, <1>4, <1>5 DEF Streams
<1>7. /\ w.out = k.out \o SubSeq(d, 1, n)
      /\ w.in = k.in /\ w.end = k.end /\ w.up = k.up /\ w.edge = k.edge
  BY <1>5 DEF Streams
<1>8. Len(d) - n <= Len(d)
  BY <1>3
<1> QED
  BY <1>1, <1>2, <1>4, <1>6, <1>7, <1>8 DEF Wrote

-----------------------------------------------------------------------------
(* Life cycle *)

\* No method of StatusProvider brings a socket back that was shut down, makes
\* one alive that was not, or sets it back to Connecting.
LEMMA LifeCycle ==
  ASSUME NEW st \in Statuses
  PROVE  /\ shutdown(st) \in Statuses /\ is_shutdown(shutdown(st))
         /\ peer_closed(st) \in Statuses
         /\ peer_closed(st) # "Connecting"
         /\ is_shutdown(peer_closed(st)) <=> is_shutdown(st)
         /\ established(st) \in Statuses /\ established(st) # "Connecting"
         /\ is_shutdown(established(st)) <=> is_shutdown(st)
         /\ is_shutdown(st) <=> st \in {"Shutdown", "Deregistered"}
         /\ alive(st) <=> st \in {"PeerClosed", "Established"}
         /\ \A f \in BOOLEAN :
              /\ check_status(st, f) \in Statuses
              /\ is_shutdown(st) => is_shutdown(check_status(st, f))
              /\ alive(check_status(st, f)) => alive(st)
              /\ check_status(st, f) = "Connecting" <=> st = "Connecting"
              /\ is_shutdown(check_status(st, f)) /\ ~is_shutdown(st)
                   => f /\ st = "PeerClosed"
BY DEF Statuses, shutdown, is_shutdown, peer_closed, established, alive, check_status

-----------------------------------------------------------------------------
(* The TLS connection *)

\* do_read takes all of the socket and notes its end; on the server's side it
\* adds nothing to the session.
LEMMA TlsReads ==
  ASSUME NEW p \in TlsConns, p.side = "server", NEW r, r = tls_do_read(p)
  PROVE  /\ r \in TlsConns
         /\ r.side = "server" /\ r.session = p.session /\ r.plain = p.plain
         /\ r.writable = p.writable
         /\ r.stream = [p.stream EXCEPT !.in = <<>>]
         /\ r.tls = IF p.tls = "hello" THEN "answer" ELSE p.tls
         /\ r.status = IF p.stream.end # "open" THEN shutdown(p.status) ELSE p.status
<1>1. /\ p.stream \in Streams /\ p.status \in Statuses /\ p.session \in Chunks
      /\ p.plain \in Chunks
  BY DEF TlsConns
<1>2. [p.stream EXCEPT !.in = <<>>] \in Streams
  BY <1>1, NothingJoined DEF Streams
<1>3. r = [p EXCEPT !.stream = [p.stream EXCEPT !.in = <<>>],
                    !.tls = IF p.tls = "hello" THEN "answer" ELSE p.tls,
                    !.session = p.session, !.plain = p.plain,
                    !.status = IF p.stream.end # "open" THEN shutdown(p.status) ELSE p.status]
  BY DEF tls_do_read, TlsConns
<1>4. shutdown(p.status) \in Statuses
  BY <1>1, LifeCycle
<1> HIDE DEF tls_do_read, Streams
<1> QED
  BY <1>1, <1>2, <1>3, <1>4 DEF TlsConns

\* d taken into the session.
Buffered(p, d, w) ==
  /\ w \in TlsConns
  /\ w = [p EXCEPT !.session = p.session \o d]
  /\ w.session = p.session \o d
  /\ w.side = p.side /\ w.stream = p.stream /\ w.status = p.status
  /\ w.writable = p.writable /\ w.tls = p.tls /\ w.plain = p.plain

\* write_session of the server's side appends to the session.
LEMMA TlsWrites ==
  ASSUME NEW p \in TlsConns, p.side = "server", NEW d \in Chunks, NEW w,
         w = write_session(p, d)
  PROVE  Buffered(p, d, w)
BY Joined DEF write_session, TlsConns, Buffered

\* One flush of the session, from p to s.
Flush(p, s) ==
  /\ s \in TlsConns /\ Len(s.stream.out) <= Cap
  /\ s.stream.out \o s.session = p.stream.out \o p.session
  /\ s.side = p.side /\ s.plain = p.plain
  /\ s.stream.in = p.stream.in /\ s.stream.end = p.stream.end
  /\ s.stream.up = p.stream.up /\ s.stream.edge = p.stream.edge
  /\ s.status \in {p.status, shutdown(p.status)}
  /\ s.status = p.status \/ p.stream.end = "rst"
  /\ is_shutdown(p.status) => s.stream = p.stream /\ s.session = p.session
  /\ Len(s.session) <= Len(p.session)
  /\ (s.writable /\ ~is_shutdown(s.status) /\ p.status # "Connecting") => s.session = <<>>
  /\ p.status = "Connecting" => s = p
  /\ s.tls = p.tls \/ (p.tls = "answer" /\ s.tls = "sent")
       \/ (p.tls = "finish" /\ s.tls = "up")
  /\ ~is_shutdown(p.status) /\ is_shutdown(s.status) => wants_write(p)

\* do_send moves the front of the session into the socket: socket and session
\* together stay what they are.  It writes nothing once the connection is shut
\* down, it shuts it down on a reset only, and a connection that says it is
\* writable afterwards has an empty session.
LEMMA TlsSends ==
  ASSUME NEW p \in TlsConns, Len(p.stream.out) <= Cap, NEW s, s = tls_do_send(p)
  PROVE  Flush(p, s)
<1>1. /\ p.stream \in Streams /\ p.status \in Statuses /\ p.session \in Chunks
      /\ p.plain \in Chunks /\ p.writable \in BOOLEAN /\ Len(p.session) \in Nat
      /\ p.stream.up \in BOOLEAN
  BY LenProperties DEF TlsConns, Chunks, Streams
<1>2. shutdown(p.status) \in Statuses /\ is_shutdown(shutdown(p.status))
  BY <1>1, LifeCycle
<1>a. CASE p.status = "Connecting"
  <2>1. s = p
    BY <1>a DEF tls_do_send
  <2> QED
    BY <1>1, <1>a, <2>1 DEF is_shutdown, Flush
<1>b. CASE p.status # "Connecting" /\ ~wants_write(p)
  <2>1. s = [p EXCEPT !.writable = TRUE]
    BY <1>b DEF tls_do_send
  <2>2. p.session = <<>>
    BY <1>b DEF wants_write
  <2>3. s \in TlsConns
    BY <1>1, <2>1 DEF TlsConns
  <2>4. /\ s.stream = p.stream /\ s.session = p.session /\ s.status = p.status
        /\ s.side = p.side /\ s.plain = p.plain /\ s.tls = p.tls
    BY <2>1 DEF TlsConns
  <2> QED
    BY <1>1, <1>b, <2>2, <2>3, <2>4 DEF Flush
<1>c. CASE p.status # "Connecting" /\ wants_write(p)
             /\ (is_shutdown(p.status) \/ p.stream.end = "rst")
  <2>1. s = [p EXCEPT !.writable = TRUE, !.status = shutdown(p.status)]
    BY <1>c DEF tls_do_send
  <2>2. is_shutdown(p.status) => shutdown(p.status) = p.status
    BY DEF shutdown
  <2>3. s \in TlsConns
    BY <1>1, <1>2, <2>1 DEF TlsConns
  <2>4. /\ s.stream = p.stream /\ s.session = p.session /\ s.status = shutdown(p.status)
        /\ s.side = p.side /\ s.plain = p.plain /\ s.tls = p.tls
    BY <2>1 DEF TlsConns
  <2> QED
    BY <1>1, <1>2, <1>c, <2>2, <2>3, <2>4 DEF Flush
<1>d. CASE p.status # "Connecting" /\ wants_write(p)
             /\ ~is_shutdown(p.status) /\ p.stream.end # "rst"
  <2>1. PICK n : n = Taken(p.stream, p.session)
    OBVIOUS
  <2>2. PICK w : w = WriteSome(p.stream, p.session, n)
    OBVIOUS
  <2>3. s = [p EXCEPT !.writable = p.stream.up /\ n = Len(p.session),
                      !.session = Rest(p.session, n),
                      !.tls = IF p.stream.up THEN Flushed(p.tls) ELSE p.tls,
                      !.stream = w]
    BY <1>d, <2>1, <2>2 DEF tls_do_send
  <2>4. /\ w \in Streams /\ Len(w.out) <= Cap
        /\ w.in = p.stream.in /\ w.end = p.stream.end
        /\ w.up = p.stream.up /\ w.edge = p.stream.edge
        /\ Rest(p.session, n) \in Chunks
        /\ Len(Rest(p.session, n)) <= Len(p.session)
        /\ w.out \o Rest(p.session, n) = p.stream.out \o p.session
    <3>1. PICK k, d : k = p.stream /\ d = p.session
      OBVIOUS
    <3>2. k \in Streams /\ Len(k.out) <= Cap /\ d \in Chunks
      BY <1>1, <3>1
    <3>3. w = WriteSome(k, d, Taken(k, d))
      BY <2>1, <2>2, <3>1
    <3>4. Wrote(k, d, w)
      BY <3>2, <3>3, Writes, Zenon
    <3> QED
      BY <2>1, <3>1, <3>4 DEF Wrote
  <2>5. /\ Flushed(p.tls) \in {"start", "hello", "answer", "sent", "finish", "up"}
        /\ Flushed(p.tls) = p.tls \/ (p.tls = "answer" /\ Flushed(p.tls) = "sent")
              \/ (p.tls = "finish" /\ Flushed(p.tls) = "up")
    BY DEF Flushed, TlsConns
  <2>6. n = Len(p.session) => Rest(p.session, n) = <<>>
    <3>1. PICK d \in Chunks : d = p.session /\ Len(d) \in Nat
      BY <1>1
    <3>2. Len(d) \in 0 .. Len(d)
      BY <3>1
    <3>3. Rest(d, Len(d)) \in Chunks /\ Len(Rest(d, Len(d))) = Len(d) - Len(d)
      BY <3>2, SplitKeeps, Zenon
    <3>4. Len(d) - Len(d) = 0
      BY <3>1
    <3>5. Rest(d, Len(d)) = <<>>
      BY <3>3, <3>4, NothingJoined, Zenon
    <3> QED
      BY <3>1, <3>5
  <2>7. s \in TlsConns
    BY <1>1, <2>3, <2>4, <2>5 DEF TlsConns
  <2>8. /\ s.writable = (p.stream.up /\ n = Len(p.session))
        /\ s.session = Rest(p.session, n) /\ s.stream = w
        /\ s.status = p.status /\ s.side = p.side /\ s.plain = p.plain
        /\ s.tls = IF p.stream.up THEN Flushed(p.tls) ELSE p.tls
    BY <2>3 DEF TlsConns
  <2> QED
    BY <1>d, <2>4, <2>5, <2>6, <2>7, <2>8 DEF Flush
<1> QED
  BY <1>a, <1>b, <1>c, <1>d

\* d put into the session and flushed, from p to s.
Pushed(p, d, s) ==
  /\ s \in TlsConns /\ Len(s.stream.out) <= Cap
  /\ (s.stream.out \o s.session) \o <<>> = (p.stream.out \o p.session) \o d
  /\ s.side = "server"
  /\ s.stream.in = p.stream.in /\ s.stream.end = p.stream.end
  /\ s.status \in {p.status, shutdown(p.status)}
  /\ s.status = p.status \/ p.stream.end = "rst"
  /\ s.tls = p.tls \/ (p.tls = "answer" /\ s.tls = "sent") \/ (p.tls = "finish" /\ s.tls = "up")
  /\ Len(s.session) <= Len(p.session) + Len(d)
  /\ (s.writable /\ ~is_shutdown(s.status) /\ p.status # "Connecting") => s.session = <<>>

\* Data put into the session of the server's side and flushed at once.
LEMMA TlsPushes ==
  ASSUME NEW p \in TlsConns, p.side = "server", Len(p.stream.out) <= Cap, NEW d \in Chunks,
         NEW s, s = tls_do_send(write_session(p, d))
  PROVE  Pushed(p, d, s)
<1>1. PICK w : w = write_session(p, d)
  OBVIOUS
<1>2. /\ w \in TlsConns /\ w.session = p.session \o d
      /\ w.side = p.side /\ w.stream = p.stream /\ w.status = p.status /\ w.tls = p.tls
  <2>1. Buffered(p, d, w)
    BY <1>1, TlsWrites, Zenon
  <2> QED
    BY <2>1 DEF Buffered
<1>3. /\ s \in TlsConns /\ Len(s.stream.out) <= Cap
      /\ s.stream.out \o s.session = w.stream.out \o w.session
      /\ s.side = w.side
      /\ s.stream.in = w.stream.in /\ s.stream.end = w.stream.end
      /\ s.status \in {w.status, shutdown(w.status)}
      /\ s.status = w.status \/ w.stream.end = "rst"
      /\ s.tls = w.tls \/ (w.tls = "answer" /\ s.tls = "sent") \/ (w.tls = "finish" /\ s.tls = "up")
      /\ Len(s.session) <= Len(w.session)
      /\ (s.writable /\ ~is_shutdown(s.status) /\ w.status # "Connecting") => s.session = <<>>
  <2>1. Len(w.stream.out) <= Cap /\ s = tls_do_send(w)
    BY <1>1, <1>2
  <2>2. Flush(w, s)
    BY <1>2, <2>1, TlsSends, Zenon
  <2> QED
    BY <2>2 DEF Flush
<1>4. /\ p.stream.out \in Chunks /\ p.session \in Chunks
      /\ s.stream.out \in Chunks /\ s.session \in Chunks
  BY <1>3 DEF TlsConns, Streams
<1>5. (s.stream.out \o s.session) \o <<>> = (p.stream.out \o p.session) \o d
  <2>1. PICK out \in Chunks, session \in Chunks : out = p.stream.out /\ session = p.session
    BY <1>4
  <2>2. PICK t \in Chunks : t = s.stream.out \o s.session
    BY <1>4, Joined
  <2>3. t \o <<>> = t
    BY NothingJoined
  <2>4. (out \o session) \o d = out \o (session \o d)
    BY ONLY out \in Chunks, session \in Chunks, d \in Chunks, JoinedTwice
  <2> QED
    BY <1>2, <1>3, <2>1, <2>2, <2>3, <2>4
<1>6. Len(w.session) = Len(p.session) + Len(d)
  BY <1>2, <1>4, Joined
<1> QED
  BY <1>2, <1>3, <1>5, <1>6 DEF Pushed
=============================================================================
