--------------------------- MODULE TunProxyProofs ---------------------------
(***************************************************************************)
(* Theorems about TunProxy: the safety properties of the UDP and of the    *)
(* TCP server of the Windows tun proxy, each from an inductive invariant   *)
(* of its own, UdpInv and TcpInv.                                          *)
(*                                                                         *)
(* From the bottom up: sequences of chunks, the TLS connection that both   *)
(* servers use, one connection, all connections of a server, the steps of  *)
(* the loop and of the world around it, the theorems.                      *)
(***************************************************************************)
EXTENDS TunProxy, SequenceTheorems, FiniteSetTheorems, TLAPS

-----------------------------------------------------------------------------
(* Sequences of chunks, as in TlsConnProofs *)

Chunks == Seq(Nat)

\* Two sequences of chunks make one.
LEMMA Joined ==
  ASSUME NEW s \in Chunks, NEW t \in Chunks
  PROVE  s \o t \in Chunks /\ Len(s \o t) = Len(s) + Len(t)
BY ConcatProperties DEF Chunks

\* Three make the same one in either way.
LEMMA JoinedTwice ==
  ASSUME NEW s \in Chunks, NEW t \in Chunks, NEW u \in Chunks
  PROVE  (s \o t) \o u = s \o (t \o u)
BY ConcatAssociative, SMTT(60) DEF Chunks

\* The same with a name for what is concluded.
Regroups(s, t, u) == (s \o t) \o u = s \o (t \o u)

LEMMA Regrouping ==
  ASSUME NEW s \in Chunks, NEW t \in Chunks, NEW u \in Chunks
  PROVE  Regroups(s, t, u)
BY JoinedTwice DEF Regroups

\* The empty sequence changes nothing.
LEMMA NothingJoined ==
  ASSUME NEW s \in Chunks
  PROVE  /\ <<>> \in Chunks /\ Len(<<>>) = 0
         /\ s \o <<>> = s /\ <<>> \o s = s
         /\ Len(s) \in Nat
         /\ Len(s) = 0 => s = <<>>
BY ConcatEmptySeq, EmptySeq, LenProperties DEF Chunks

\* A write that takes the first n chunks and leaves the rest keeps the order.
LEMMA SplitKeeps ==
  ASSUME NEW d \in Chunks, NEW n \in 0 .. Len(d)
  PROVE  /\ SubSeq(d, 1, n) \in Chunks /\ Len(SubSeq(d, 1, n)) = n
         /\ Rest(d, n) \in Chunks /\ Len(Rest(d, n)) = Len(d) - n
         /\ SubSeq(d, 1, n) \o Rest(d, n) = d
<1>1. Len(d) \in Nat /\ \A i \in 1 .. Len(d) : d[i] \in Nat
  BY LenProperties, ElementOfSeq DEF Chunks
<1>2. SubSeq(d, 1, n) \in Chunks /\ Len(SubSeq(d, 1, n)) = n
  <2>1. \A i \in 1 .. n : d[i] \in Nat
    BY <1>1
  <2> QED
    BY <1>1, <2>1, SubSeqProperties DEF Chunks
<1>3. Rest(d, n) \in Chunks /\ Len(Rest(d, n)) = Len(d) - n
  <2>1. \A i \in n + 1 .. Len(d) : d[i] \in Nat
    BY <1>1
  <2> QED
    BY <1>1, <2>1, SubSeqProperties, SMTT(30) DEF Chunks, Rest
<1>4. SubSeq(d, 1, n) \o SubSeq(d, n + 1, Len(d)) = SubSeq(d, 1, Len(d))
  <2>1. 1 \in 1 .. Len(d) + 1 /\ n \in 1 - 1 .. Len(d) /\ Len(d) \in n .. Len(d)
    BY <1>1
  <2> QED
    BY <1>1, <2>1, ConcatAdjacentSubSeq DEF Chunks
<1> QED
  BY <1>2, <1>3, <1>4, SubSeqFull DEF Rest, Chunks

\* A chunk that goes from the front of one sequence to the end of another.
LEMMA HandedOn ==
  ASSUME NEW s \in Chunks, NEW t \in Chunks, t # <<>>
  PROVE  /\ Append(s, Head(t)) \in Chunks
         /\ Tail(t) \in Chunks
         /\ Len(Tail(t)) = Len(t) - 1
         /\ Append(s, Head(t)) \o Tail(t) = s \o t
<1>1. /\ Head(t) \in Nat /\ Tail(t) \in Seq(Nat) /\ Len(Tail(t)) = Len(t) - 1
      /\ Len(t) \in Nat \ {0}
  BY HeadTailProperties, EmptySeq DEF Chunks
<1>2. Append(s, Head(t)) = s \o <<Head(t)>> /\ Append(s, Head(t)) \in Seq(Nat)
  BY <1>1, AppendIsConcat, AppendProperties DEF Chunks
<1>3. t = <<Head(t)>> \o Tail(t)
  <2>1. SubSeq(t, 1, Len(t)) = <<t[1]>> \o SubSeq(t, 1 + 1, Len(t))
    <3>1. 1 \in 1 .. Len(t) /\ Len(t) \in 1 .. Len(t)
      BY <1>1
    <3> QED
      BY <3>1, SubSeqRecursiveFirst DEF Chunks
  <2>2. SubSeq(t, 1, Len(t)) = t /\ Tail(t) = SubSeq(t, 2, Len(t)) /\ Head(t) = t[1]
    BY SubSeqFull, TailIsSubSeq DEF Chunks
  <2> QED
    BY <2>1, <2>2
<1>4. <<Head(t)>> \in Seq(Nat)
  BY <1>1
<1> QED
  BY <1>1, <1>2, <1>3, <1>4, ConcatAssociative DEF Chunks

\* Counting.
LEMMA Counting ==
  ASSUME NEW n \in Nat
  PROVE  /\ Count(n) \in Chunks
         /\ Len(Count(n)) = n
         /\ \A i \in 1 .. n : Count(n)[i] = i
         /\ Append(Count(n), n + 1) = Count(n + 1)
<1>1. \A m \in Nat : /\ Count(m) \in Chunks
                     /\ Len(Count(m)) = m
                     /\ \A i \in 1 .. m : Count(m)[i] = i
  <2> SUFFICES ASSUME NEW m \in Nat
               PROVE  /\ Count(m) \in Chunks
                      /\ Len(Count(m)) = m
                      /\ \A i \in 1 .. m : Count(m)[i] = i
    OBVIOUS
  <2>1. Count(m) \in [1 .. m -> Nat]
    BY DEF Count
  <2> QED
    BY <2>1, SeqDef, LenProperties DEF Count, Chunks
<1>2. /\ Append(Count(n), n + 1) \in Seq(Nat)
      /\ Len(Append(Count(n), n + 1)) = n + 1
      /\ \A i \in 1 .. n : Append(Count(n), n + 1)[i] = i
      /\ Append(Count(n), n + 1)[n + 1] = n + 1
  BY <1>1, AppendProperties DEF Chunks
<1>3. Append(Count(n), n + 1) = Count(n + 1)
  BY <1>1, <1>2, SeqEqual, n + 1 \in Nat DEF Chunks
<1> QED
  BY <1>1, <1>3

\* The next chunk at the end of what is counted.
LEMMA CountsOn ==
  ASSUME NEW s \in Chunks, NEW t \in Chunks, NEW n \in Nat, s \o t = Count(n)
  PROVE  s \o Append(t, n + 1) = Count(n + 1)
<1>1. PICK y \in Nat : y = n + 1
  OBVIOUS
<1>2. PICK x \in Chunks : x = <<y>>
  <2>1. <<y>> \in Seq(Nat)
    OBVIOUS
  <2> QED
    BY <2>1 DEF Chunks
<1>3. Append(t, n + 1) = t \o x /\ Append(Count(n), n + 1) = Count(n) \o x
  <2>1. PICK k \in Chunks : k = Count(n)
    BY Counting
  <2>2. Append(t, y) = t \o <<y>> /\ Append(k, y) = k \o <<y>>
    BY AppendIsConcat DEF Chunks
  <2> QED
    BY <1>1, <1>2, <2>1, <2>2
<1>4. (s \o t) \o x = s \o (t \o x)
  BY ONLY s \in Chunks, t \in Chunks, x \in Chunks, JoinedTwice
<1>5. Append(Count(n), n + 1) = Count(n + 1)
  BY Counting
<1> QED
  BY <1>3, <1>4, <1>5

\* One chunk more.
LEMMA OneMore ==
  ASSUME NEW s \in Chunks, NEW x \in Nat
  PROVE  /\ Append(s, x) \in Chunks /\ Len(Append(s, x)) = Len(s) + 1
         /\ Append(s, x) # <<>>
         /\ \A i \in 1 .. Len(s) : Append(s, x)[i] = s[i]
         /\ Append(s, x)[Len(s) + 1] = x
<1>1. /\ Append(s, x) \in Seq(Nat) /\ Len(Append(s, x)) = Len(s) + 1 /\ Len(s) \in Nat
      /\ \A i \in 1 .. Len(s) : Append(s, x)[i] = s[i]
      /\ Append(s, x)[Len(s) + 1] = x
  BY AppendProperties, LenProperties DEF Chunks
<1>2. Append(s, x) # <<>>
  BY <1>1, EmptySeq
<1> QED
  BY <1>1, <1>2 DEF Chunks

-----------------------------------------------------------------------------
(* The TLS connection *)

Remotes ==
  [up : BOOLEAN, in : Chunks, out : Chunks, end : {"open", "fin", "rst", "bad"}, shut : BOOLEAN,
   armed : SUBSET {"r", "w"}, tls : {"answer", "sent", "hello", "finish", "up"},
   dec : Chunks, session : Chunks, plain : Chunks, seen : Nat, heard : Chunks, said : Nat]

\* Everything that was written for the server, in order.
Upward(p) == ((p.heard \o p.out) \o p.session) \o p.plain

\* Data waits in plain while the handshake lasts and in the session afterwards;
\* what was decrypted and what is in the socket are all that the server has
\* sent, unless the connection was reset.
RemoteSound(p) ==
  /\ p \in Remotes /\ Len(p.out) <= Cap
  /\ p.tls \in {"finish", "up"} => p.plain = <<>>
  /\ p.tls \notin {"finish", "up"} => p.session = <<>>
  /\ p.end = "rst" => p.in = <<>>
  /\ p.end # "rst" => Count(p.seen) \o p.in = Count(p.said)

LEMMA RemoteParts ==
  ASSUME NEW p \in Remotes
  PROVE  /\ p.in \in Chunks /\ p.out \in Chunks /\ p.dec \in Chunks /\ p.session \in Chunks
         /\ p.plain \in Chunks /\ p.heard \in Chunks /\ p.seen \in Nat /\ p.said \in Nat
         /\ p.heard \o p.out \in Chunks /\ (p.heard \o p.out) \o p.session \in Chunks
         /\ Upward(p) \in Chunks
<1>1. /\ p.in \in Chunks /\ p.out \in Chunks /\ p.dec \in Chunks /\ p.session \in Chunks
      /\ p.plain \in Chunks /\ p.heard \in Chunks /\ p.seen \in Nat /\ p.said \in Nat
  BY DEF Remotes
<1>2. p.heard \o p.out \in Chunks
  BY <1>1, Joined
<1>3. (p.heard \o p.out) \o p.session \in Chunks
  BY <1>1, <1>2, Joined
<1> QED
  BY <1>1, <1>2, <1>3, Joined DEF Upward

\* What the server sends is where it was.
Alike(p, q) ==
  /\ q.in = p.in /\ q.dec = p.dec /\ q.seen = p.seen /\ q.said = p.said /\ q.end = p.end

\* q is p after a call that moves data along.
Moved(p, q) == RemoteSound(q) /\ Alike(p, q) /\ q.shut = p.shut /\ Upward(q) = Upward(p)

\* q is p after data was written.
Wrote(p, data, q) ==
  RemoteSound(q) /\ Alike(p, q) /\ q.shut = p.shut /\ Upward(q) = Upward(p) \o data

LEMMA PooledSound ==
  ASSUME NEW how
  PROVE  /\ RemoteSound(Pooled(how)) /\ Upward(Pooled(how)) = <<>>
         /\ Pooled(how).dec = <<>> /\ Pooled(how).seen = 0 /\ ~Pooled(how).shut
         /\ Pooled(how).in = <<>> /\ Pooled(how).said = 0 /\ Pooled(how).end = "open"
<1>1. PICK p : p = Pooled(how)
  OBVIOUS
<1>2. <<>> \in Chunks /\ <<>> \o <<>> = <<>> /\ Len(<<>>) = 0
  <2>1. <<>> \in Chunks
    BY DEF Chunks
  <2> QED
    BY <2>1, NothingJoined
<1>3. /\ p.in = <<>> /\ p.out = <<>> /\ p.dec = <<>> /\ p.session = <<>> /\ p.plain = <<>>
      /\ p.heard = <<>> /\ p.seen = 0 /\ p.said = 0 /\ p.end = "open" /\ ~p.shut
  BY <1>1 DEF Pooled
<1>4. p \in Remotes
  BY <1>1, <1>2 DEF Pooled, Remotes
<1>5. Count(0) \in Chunks
  BY Counting
<1>6. Count(p.seen) \o p.in = Count(p.said)
  BY <1>3, <1>5, NothingJoined
<1>7. Upward(p) = <<>>
  BY <1>2, <1>3 DEF Upward
<1> QED
  BY <1>1, <1>2, <1>3, <1>4, <1>6, <1>7, RemoteAssumption DEF RemoteSound

\* Arming and reporting.
LEMMA Arms ==
  ASSUME NEW p, RemoteSound(p), NEW A \in SUBSET {"r", "w"}, NEW q, q = [p EXCEPT !.armed = A]
  PROVE  Moved(p, q)
<1>1. q \in Remotes
  BY DEF RemoteSound, Remotes
<1>2. /\ q.in = p.in /\ q.dec = p.dec /\ q.seen = p.seen /\ q.said = p.said /\ q.end = p.end
      /\ q.shut = p.shut /\ q.heard = p.heard /\ q.out = p.out /\ q.session = p.session
      /\ q.plain = p.plain /\ q.tls = p.tls
  BY DEF RemoteSound, Remotes
<1> QED
  BY <1>1, <1>2 DEF RemoteSound, Moved, Alike, Upward

LEMMA Blocks ==
  ASSUME NEW p, RemoteSound(p)
  PROVE  Moved(p, WouldBlock(p)) /\ Moved(p, p) /\ Moved(p, Reported(p))
<1>1. Moved(p, p)
  BY DEF Moved, Alike
<1>2. Moved(p, WouldBlock(p))
  <2>1. WouldBlock(p) = p \/ WouldBlock(p) = [p EXCEPT !.armed = {"r", "w"}]
    BY DEF WouldBlock
  <2> QED
    BY <1>1, <2>1, Arms
<1>3. Moved(p, Reported(p))
  <2>1. PICK A : A = p.armed \ EventOf(p)
    OBVIOUS
  <2>2. A \in SUBSET {"r", "w"}
    BY <2>1 DEF RemoteSound, Remotes
  <2>3. Reported(p) = [p EXCEPT !.armed = A]
    BY <2>1 DEF Reported
  <2> QED
    BY <2>2, <2>3, Arms, Zenon
<1> QED
  BY <1>1, <1>2, <1>3

LEMMA MovedTwice ==
  ASSUME NEW p, NEW q, NEW r, Moved(p, q), Moved(q, r)
  PROVE  Moved(p, r)
BY DEF Moved, Alike

\* A write goes behind everything else.
LEMMA Writes ==
  ASSUME NEW p, RemoteSound(p), NEW data \in Chunks
  PROVE  Wrote(p, data, write(p, data))
<1>1. PICK q, u, s, l : /\ q = write(p, data) /\ u = p.heard \o p.out
                        /\ s = p.session /\ l = p.plain
  OBVIOUS
<1>2. /\ p \in Remotes /\ u \in Chunks /\ s \in Chunks /\ l \in Chunks
      /\ s \o data \in Chunks /\ l \o data \in Chunks /\ u \o s \in Chunks
      /\ Upward(p) = (u \o s) \o l
  BY <1>1, RemoteParts, Joined DEF RemoteSound, Upward
<1>3. CASE p.tls \in {"finish", "up"}
  <2>1. q = [p EXCEPT !.session = s \o data] /\ l = <<>>
    BY <1>1, <1>3 DEF write, RemoteSound
  <2>2. q \in Remotes /\ q.session = s \o data /\ q.plain = l /\ q.heard \o q.out = u
        /\ q.tls = p.tls /\ q.out = p.out /\ q.shut = p.shut
    BY <1>1, <1>2, <2>1 DEF Remotes
  <2>3. Alike(p, q)
    BY <1>2, <2>1 DEF Remotes, Alike
  <2>4. Upward(q) = Upward(p) \o data
    <3>1. Upward(q) = (u \o (s \o data)) \o l
      BY <2>2 DEF Upward
    <3>2. Regroups(u, s, data)
      BY <1>2, Regrouping, Zenon
    <3>3. u \o (s \o data) \in Chunks
      BY <1>2, Joined
    <3>4. (u \o (s \o data)) \o l = u \o (s \o data) /\ (u \o s) \o l = u \o s
      BY <1>2, <2>1, <3>3, NothingJoined
    <3> QED
      BY <1>2, <3>1, <3>2, <3>4 DEF Regroups
  <2>5. RemoteSound(q)
    BY <1>1, <1>3, <2>1, <2>2, <2>3 DEF RemoteSound, Alike
  <2> QED
    BY <1>1, <2>2, <2>3, <2>4, <2>5 DEF Wrote
<1>4. CASE p.tls \notin {"finish", "up"}
  <2>1. q = [p EXCEPT !.plain = l \o data] /\ s = <<>>
    BY <1>1, <1>4 DEF write, RemoteSound
  <2>2. q \in Remotes /\ q.session = s /\ q.plain = l \o data /\ q.heard \o q.out = u
        /\ q.tls = p.tls /\ q.out = p.out /\ q.shut = p.shut
    BY <1>1, <1>2, <2>1 DEF Remotes
  <2>3. Alike(p, q)
    BY <1>2, <2>1 DEF Remotes, Alike
  <2>4. Upward(q) = Upward(p) \o data
    <3>1. Upward(q) = (u \o s) \o (l \o data)
      BY <2>2 DEF Upward
    <3>2. Regroups(u \o s, l, data)
      BY <1>2, Regrouping, Zenon
    <3> QED
      BY <1>2, <3>1, <3>2 DEF Regroups
  <2>5. RemoteSound(q)
    BY <1>1, <1>4, <2>1, <2>2, <2>3 DEF RemoteSound, Alike
  <2> QED
    BY <1>1, <2>2, <2>3, <2>4, <2>5 DEF Wrote
<1> QED
  BY <1>3, <1>4

\* One write_tls takes a first part of the session into the socket.
LEMMA Flushes ==
  ASSUME NEW p, RemoteSound(p)
  PROVE  Moved(p, flush(p))
<1>1. PICK n, q, h, s, f, r : /\ n = Least(Least(Len(p.session), Burst), Cap - Len(p.out))
                              /\ q = flush(p) /\ h = p.heard /\ s = p.session
                              /\ f = SubSeq(s, 1, n) /\ r = Rest(s, n)
  OBVIOUS
<1>2. /\ p \in Remotes /\ h \in Chunks /\ s \in Chunks /\ p.out \in Chunks /\ p.plain \in Chunks
      /\ Len(s) \in Nat /\ Len(p.out) \in Nat /\ Len(p.out) <= Cap /\ Cap \in Nat /\ Burst \in Nat
  BY <1>1, RemoteParts, LenProperties, RemoteAssumption DEF RemoteSound, Chunks
<1>3. CASE q = p \/ q = WouldBlock(p)
  BY <1>1, <1>3, Blocks
<1>4. CASE ~(q = p \/ q = WouldBlock(p))
  <2>1. PICK t : t = (CASE p.tls = "answer" -> "sent" [] p.tls = "finish" -> "up" [] OTHER -> p.tls)
    OBVIOUS
  <2>2. q = [p EXCEPT !.out = p.out \o f, !.session = r, !.tls = t]
    BY <1>1, <1>4, <2>1 DEF flush
  <2>3. n \in 0 .. Len(s) /\ Len(p.out) + n <= Cap
    <3>1. Cap - Len(p.out) \in Nat
      BY <1>2
    <3>2. PICK a, b, c \in Nat : a = Len(s) /\ b = Burst /\ c = Cap - Len(p.out)
      BY <1>2, <3>1, Zenon
    <3>3. n = Least(Least(a, b), c)
      BY <1>1, <3>2
    <3>4. n \in 0 .. a /\ n <= c
      BY ONLY <3>2, <3>3, a \in Nat, b \in Nat, c \in Nat DEF Least
    <3> QED
      BY <1>2, <3>2, <3>4
  <2>4. /\ f \in Chunks /\ Len(f) = n /\ r \in Chunks /\ Len(r) = Len(s) - n /\ f \o r = s
        /\ p.out \o f \in Chunks /\ Len(p.out \o f) = Len(p.out) + n
    <3>1. /\ f \in Chunks /\ Len(f) = n /\ r \in Chunks /\ Len(r) = Len(s) - n /\ f \o r = s
      BY <1>1, <1>2, <2>3, SplitKeeps
    <3> QED
      BY <1>2, <3>1, Joined
  <2>5. t \in {"answer", "sent", "hello", "finish", "up"}
        /\ (t \in {"finish", "up"} <=> p.tls \in {"finish", "up"})
    BY <1>2, <2>1 DEF Remotes
  <2>6. /\ q \in Remotes /\ q.out = p.out \o f /\ q.session = r /\ q.tls = t /\ q.heard = h
        /\ q.plain = p.plain /\ q.shut = p.shut
    BY <1>1, <1>2, <2>2, <2>4, <2>5 DEF Remotes
  <2>7. Alike(p, q)
    BY <1>2, <2>2 DEF Remotes, Alike
  <2>8. Upward(q) = Upward(p)
    <3>1. PICK u \in Chunks : u = h \o p.out
      BY <1>2, Joined
    <3>2. Regroups(h, p.out, f) /\ Regroups(u, f, r)
      BY <1>2, <2>4, <3>1, Regrouping, Zenon
    <3>3. (h \o (p.out \o f)) \o r = u \o s
      BY <2>4, <3>1, <3>2 DEF Regroups
    <3> QED
      BY <1>1, <2>6, <3>1, <3>3 DEF Upward
  <2>9. s = <<>> => r = <<>>
    BY <1>2, <2>3, <2>4, NothingJoined
  <2>10. RemoteSound(q)
    <3>1. Len(q.out) <= Cap
      BY <2>3, <2>4, <2>6
    <3> QED
      BY <1>1, <2>5, <2>6, <2>7, <2>9, <3>1 DEF RemoteSound, Alike
  <2> QED
    BY <1>1, <2>6, <2>7, <2>8, <2>10 DEF Moved
<1> QED
  BY <1>3, <1>4

\* What waited for the end of the handshake is now the session's.
LEMMA HandshakeEnds ==
  ASSUME NEW p, RemoteSound(p)
  PROVE  Moved(p, ReadBlocks(p))
<1>1. PICK q : q = [p EXCEPT !.tls = "finish", !.session = p.plain, !.plain = <<>>]
  OBVIOUS
<1>2. CASE p.up /\ p.tls = "hello"
  <2>1. /\ p \in Remotes /\ p.plain \in Chunks /\ <<>> \in Chunks /\ p.session = <<>>
        /\ p.heard \o p.out \in Chunks
    BY <1>2, RemoteParts, NothingJoined DEF RemoteSound
  <2>2. /\ q \in Remotes /\ q.tls = "finish" /\ q.session = p.plain /\ q.plain = <<>>
        /\ q.heard = p.heard /\ q.out = p.out /\ q.shut = p.shut
    BY <1>1, <2>1 DEF Remotes
  <2>3. Alike(p, q)
    BY <1>1, <2>1 DEF Remotes, Alike
  <2>4. Upward(q) = Upward(p)
    <3>1. PICK u \in Chunks : u = p.heard \o p.out
      BY <2>1
    <3>2. Upward(q) = (u \o p.plain) \o <<>> /\ Upward(p) = (u \o <<>>) \o p.plain
      BY <2>1, <2>2, <3>1 DEF Upward
    <3>3. u \o p.plain \in Chunks
      BY <2>1, Joined
    <3>4. (u \o p.plain) \o <<>> = u \o p.plain /\ u \o <<>> = u
      BY <3>3, NothingJoined
    <3> QED
      BY <3>2, <3>4
  <2>5. RemoteSound(q)
    BY <2>2, <2>3 DEF RemoteSound, Alike
  <2>6. Moved(p, q)
    BY <2>2, <2>3, <2>4, <2>5 DEF Moved
  <2>7. Moved(q, WouldBlock(q))
    BY <2>5, Blocks
  <2>8. ReadBlocks(p) = WouldBlock(q)
    BY <1>1, <1>2 DEF ReadBlocks
  <2> QED
    BY <2>6, <2>7, <2>8, MovedTwice
<1>3. CASE ~(p.up /\ p.tls = "hello")
  <2>1. ReadBlocks(p) = WouldBlock(p)
    BY <1>3 DEF ReadBlocks
  <2> QED
    BY <2>1, Blocks
<1> QED
  BY <1>2, <1>3

\* q is p, closed.
ClosedAs(p, q) == RemoteSound(q) /\ Alike(p, q) /\ q.shut /\ Upward(q) = Upward(p)

LEMMA Closes ==
  ASSUME NEW p, RemoteSound(p)
  PROVE  ClosedAs(p, close(p))
<1>1. PICK q : q = close(p)
  OBVIOUS
<1>2. /\ q \in Remotes /\ q.shut /\ q.tls = p.tls /\ q.session = p.session
      /\ q.plain = p.plain /\ q.heard = p.heard /\ q.out = p.out
  BY <1>1 DEF close, RemoteSound, Remotes
<1>3. Alike(p, q)
  BY <1>1 DEF close, RemoteSound, Remotes, Alike
<1> QED
  BY <1>1, <1>2, <1>3 DEF RemoteSound, Alike, Upward, ClosedAs

\* Nothing is read from the socket any more: it was closed, or what it holds
\* goes with a bad record.
Cut(p) == p.shut \/ p.end = "bad"

\* q is p after n chunks were read.
ReadOff(p, n, q) ==
  /\ RemoteSound(q) /\ q.said = p.said /\ q.end = p.end /\ q.shut = p.shut
  /\ Upward(q) = Upward(p)
  /\ \/ n <= Len(p.dec) /\ q.dec = Rest(p.dec, n) /\ q.in = p.in /\ q.seen = p.seen
     \/ /\ n > Len(p.dec) /\ ~Cut(p) /\ q.dec = Rest(p.dec \o p.in, n) /\ q.in = <<>>
        /\ q.seen = p.seen + Len(p.in)

LEMMA Reads ==
  ASSUME NEW p, RemoteSound(p), NEW n \in 0 .. Len(Readable(p))
  PROVE  ReadOff(p, n, ReadSome(p, n))
<1>1. PICK q : q = ReadSome(p, n)
  OBVIOUS
<1>2. /\ p \in Remotes /\ p.in \in Chunks /\ p.dec \in Chunks /\ Readable(p) \in Chunks
      /\ Len(p.in) \in Nat /\ Len(p.dec) \in Nat /\ p.seen \in Nat /\ p.said \in Nat /\ <<>> \in Chunks
      /\ (Cut(p) => Readable(p) = p.dec) /\ (~Cut(p) => Readable(p) = p.dec \o p.in)
  BY RemoteParts, Joined, NothingJoined DEF RemoteSound, Readable, Cut
<1>3. CASE n <= Len(p.dec)
  <2>1. q = [p EXCEPT !.dec = Rest(p.dec, n)]
    BY <1>1, <1>3 DEF ReadSome
  <2>2. Rest(p.dec, n) \in Chunks
    BY <1>2, <1>3, SplitKeeps
  <2>3. /\ q \in Remotes /\ q.dec = Rest(p.dec, n) /\ q.in = p.in /\ q.seen = p.seen
        /\ q.said = p.said /\ q.end = p.end /\ q.shut = p.shut
    BY <1>2, <2>1, <2>2 DEF Remotes
  <2>4. /\ q.heard = p.heard /\ q.out = p.out /\ q.session = p.session /\ q.plain = p.plain
        /\ q.tls = p.tls
    BY <1>2, <2>1 DEF Remotes
  <2> QED
    BY <1>1, <1>3, <2>3, <2>4 DEF RemoteSound, Upward, ReadOff
<1>4. CASE n > Len(p.dec)
  <2>1. q = [p EXCEPT !.dec = Rest(Readable(p), n), !.in = <<>>, !.seen = p.seen + Len(p.in)]
    BY <1>1, <1>2, <1>4 DEF ReadSome
  <2>2. /\ Rest(Readable(p), n) \in Chunks /\ ~Cut(p) /\ p.seen + Len(p.in) \in Nat
        /\ Rest(Readable(p), n) = Rest(p.dec \o p.in, n)
    <3>1. ~Cut(p)
      BY <1>2, <1>4
    <3>2. Rest(Readable(p), n) \in Chunks
      BY <1>2, SplitKeeps
    <3>3. p.seen + Len(p.in) \in Nat
      BY <1>2
    <3> QED
      BY <1>2, <3>1, <3>2, <3>3, Zenon
  <2>3. /\ q \in Remotes /\ q.dec = Rest(p.dec \o p.in, n) /\ q.in = <<>>
        /\ q.seen = p.seen + Len(p.in)
        /\ q.said = p.said /\ q.end = p.end /\ q.shut = p.shut
    BY <1>2, <2>1, <2>2 DEF Remotes
  <2>4. /\ q.heard = p.heard /\ q.out = p.out /\ q.session = p.session /\ q.plain = p.plain
        /\ q.tls = p.tls
    BY <1>2, <2>1 DEF Remotes
  <2>5. p.end # "rst" => Count(q.seen) \o q.in = Count(q.said)
    <3> SUFFICES ASSUME p.end # "rst" PROVE Count(q.seen) \o q.in = Count(q.said)
      OBVIOUS
    <3>1. Count(p.seen) \o p.in = Count(p.said)
      BY DEF RemoteSound
    <3>2. p.seen + Len(p.in) = p.said
      <4>1. PICK a, b \in Chunks : a = Count(p.seen) /\ b = Count(p.said)
        BY <1>2, Counting
      <4>2. Len(a) = p.seen /\ Len(b) = p.said
        BY <1>2, <4>1, Counting
      <4>3. Len(a \o p.in) = Len(a) + Len(p.in)
        BY <1>2, Joined
      <4> QED
        BY <3>1, <4>1, <4>2, <4>3
    <3> QED
      BY <1>2, <2>3, <3>2, Counting, NothingJoined
  <2>6. RemoteSound(q)
    BY <2>3, <2>4, <2>5 DEF RemoteSound
  <2> QED
    BY <1>1, <1>4, <2>2, <2>3, <2>4, <2>6 DEF Upward, ReadOff
<1> QED
  BY <1>2, <1>3, <1>4

\* The server and the network leave alone what the connection has written and
\* decrypted.
Outside(p, q) ==
  /\ RemoteSound(q) /\ q.dec = p.dec /\ q.seen = p.seen /\ q.shut = p.shut
  /\ Upward(q) = Upward(p)

LEMMA NetworkMoves ==
  ASSUME NEW p, RemoteSound(p)
  PROVE  /\ Moved(p, Connected(p))
         /\ p.tls = "sent" => Moved(p, Greeted(p))
         /\ p.out # <<>> => Moved(p, Delivered(p))
<1>1. /\ p \in Remotes /\ p.out \in Chunks /\ p.heard \in Chunks
  BY RemoteParts DEF RemoteSound
<1>2. Moved(p, Connected(p))
  <2>1. PICK q : q = Connected(p)
    OBVIOUS
  <2>2. /\ q \in Remotes /\ q.shut = p.shut /\ q.tls = p.tls /\ q.session = p.session
        /\ q.plain = p.plain /\ q.heard = p.heard /\ q.out = p.out
    BY <1>1, <2>1 DEF Connected, Remotes
  <2>3. Alike(p, q)
    BY <1>1, <2>1 DEF Connected, Remotes, Alike
  <2> QED
    BY <2>1, <2>2, <2>3 DEF Moved, RemoteSound, Upward, Alike
<1>3. p.tls = "sent" => Moved(p, Greeted(p))
  <2> SUFFICES ASSUME p.tls = "sent" PROVE Moved(p, Greeted(p))
    OBVIOUS
  <2>1. PICK q : q = Greeted(p)
    OBVIOUS
  <2>2. /\ q \in Remotes /\ q.shut = p.shut /\ q.tls = "hello" /\ q.session = p.session
        /\ q.plain = p.plain /\ q.heard = p.heard /\ q.out = p.out
    BY <1>1, <2>1 DEF Greeted, Remotes
  <2>3. Alike(p, q)
    BY <1>1, <2>1 DEF Greeted, Remotes, Alike
  <2> QED
    BY <2>1, <2>2, <2>3 DEF Moved, RemoteSound, Upward, Alike
<1>4. p.out # <<>> => Moved(p, Delivered(p))
  <2> SUFFICES ASSUME p.out # <<>> PROVE Moved(p, Delivered(p))
    OBVIOUS
  <2>1. PICK q, a, t : q = Delivered(p) /\ a = Append(p.heard, Head(p.out)) /\ t = Tail(p.out)
    OBVIOUS
  <2>2. /\ a \in Chunks /\ t \in Chunks /\ Len(t) = Len(p.out) - 1
        /\ a \o t = p.heard \o p.out /\ Len(p.out) \in Nat /\ Len(p.out) <= Cap /\ Cap \in Nat
    BY <1>1, <2>1, HandedOn, LenProperties, RemoteAssumption DEF RemoteSound, Chunks
  <2>3. q = [p EXCEPT !.out = t, !.heard = a]
    BY <2>1 DEF Delivered
  <2>4. /\ q \in Remotes /\ q.shut = p.shut /\ q.tls = p.tls /\ q.session = p.session
        /\ q.plain = p.plain /\ q.heard = a /\ q.out = t
    BY <1>1, <2>2, <2>3 DEF Remotes
  <2>5. Alike(p, q)
    BY <1>1, <2>3 DEF Remotes, Alike
  <2>6. Upward(q) = Upward(p)
    BY <2>2, <2>4 DEF Upward
  <2>7. Len(q.out) <= Cap
    BY <2>2, <2>4
  <2> QED
    BY <2>1, <2>4, <2>5, <2>6, <2>7 DEF Moved, RemoteSound, Alike
<1> QED
  BY <1>2, <1>3, <1>4

LEMMA ServerSends ==
  ASSUME NEW p, RemoteSound(p), Serves(p), NEW q, q = Served(p)
  PROVE  /\ Outside(p, q) /\ q.in = Append(p.in, p.said + 1) /\ q.said = p.said + 1
         /\ q.end = p.end
<1>1. /\ p \in Remotes /\ p.in \in Chunks /\ p.said \in Nat /\ p.seen \in Nat /\ p.end = "open"
  BY RemoteParts DEF RemoteSound, Serves
<1>2. PICK i, n : i = Append(p.in, p.said + 1) /\ n = p.said + 1
  OBVIOUS
<1>3. n \in Nat /\ i \in Chunks
  BY <1>1, <1>2, OneMore
<1>4. q = [p EXCEPT !.said = n, !.in = i]
  BY <1>2 DEF Served
<1>5. /\ q \in Remotes /\ q.in = i /\ q.said = n /\ q.end = p.end /\ q.dec = p.dec
      /\ q.seen = p.seen /\ q.shut = p.shut
  BY <1>1, <1>3, <1>4 DEF Remotes
<1>6. /\ q.tls = p.tls /\ q.session = p.session /\ q.plain = p.plain /\ q.heard = p.heard
      /\ q.out = p.out
  BY <1>1, <1>4 DEF Remotes
<1>7. Count(q.seen) \o q.in = Count(q.said)
  <2>1. PICK a \in Chunks : a = Count(p.seen)
    BY <1>1, Counting
  <2>2. a \o p.in = Count(p.said)
    BY <1>1, <2>1 DEF RemoteSound
  <2>3. a \o Append(p.in, p.said + 1) = Count(p.said + 1)
    BY ONLY <1>1, <2>2, a \in Chunks, CountsOn, Zenon
  <2> QED
    BY <1>2, <1>5, <2>1, <2>3
<1>8. RemoteSound(q) /\ Upward(q) = Upward(p)
  BY <1>1, <1>5, <1>6, <1>7 DEF RemoteSound, Upward
<1> QED
  BY <1>2, <1>5, <1>8 DEF Outside

LEMMA ServerEnds ==
  ASSUME NEW p, RemoteSound(p), NEW q,
         \/ q = Finished(p) /\ Serves(p)
         \/ q = WithReset(p)
         \/ q = WithBadRecord(p) /\ Breakable(p)
  PROVE  Outside(p, q)
<1>1. p \in Remotes /\ <<>> \in Chunks
  BY NothingJoined, RemoteParts DEF RemoteSound
<1>2. CASE q = Finished(p) /\ Serves(p)
  <2>1. /\ q \in Remotes /\ q.in = p.in /\ q.said = p.said /\ q.end = "fin" /\ q.dec = p.dec
        /\ q.seen = p.seen /\ q.shut = p.shut
    BY <1>1, <1>2 DEF Finished, Remotes
  <2>2. /\ q.tls = p.tls /\ q.session = p.session /\ q.plain = p.plain /\ q.heard = p.heard
        /\ q.out = p.out /\ p.end = "open"
    BY <1>1, <1>2 DEF Finished, Remotes, Serves
  <2>3. RemoteSound(q) /\ Upward(q) = Upward(p)
    BY <2>1, <2>2 DEF RemoteSound, Upward
  <2> QED
    BY <2>1, <2>2, <2>3 DEF Outside
<1>3. CASE q = WithReset(p)
  <2>1. /\ q \in Remotes /\ q.in = <<>> /\ q.said = p.said /\ q.end = "rst" /\ q.dec = p.dec
        /\ q.seen = p.seen /\ q.shut = p.shut
    BY <1>1, <1>3 DEF WithReset, Remotes
  <2>2. /\ q.tls = p.tls /\ q.session = p.session /\ q.plain = p.plain /\ q.heard = p.heard
        /\ q.out = p.out
    BY <1>1, <1>3 DEF WithReset, Remotes
  <2>3. RemoteSound(q) /\ Upward(q) = Upward(p)
    BY <2>1, <2>2 DEF RemoteSound, Upward
  <2> QED
    BY <2>1, <2>3 DEF Outside
<1>4. CASE q = WithBadRecord(p) /\ Breakable(p)
  <2>1. /\ q \in Remotes /\ q.in = p.in /\ q.said = p.said /\ q.end = "bad" /\ q.dec = p.dec
        /\ q.seen = p.seen /\ q.shut = p.shut
    BY <1>1, <1>4 DEF WithBadRecord, Remotes
  <2>2. /\ q.tls = p.tls /\ q.session = p.session /\ q.plain = p.plain /\ q.heard = p.heard
        /\ q.out = p.out /\ p.end = "open"
    BY <1>1, <1>4 DEF WithBadRecord, Remotes, Breakable
  <2>3. RemoteSound(q) /\ Upward(q) = Upward(p)
    BY <2>1, <2>2 DEF RemoteSound, Upward
  <2> QED
    BY <2>1, <2>2, <2>3 DEF Outside
<1> QED
  BY <1>2, <1>3, <1>4

-----------------------------------------------------------------------------
(* A connection of the UDP server *)

UdpConns ==
  [local : Dests, remote : Remotes, rclosed : BOOLEAN, rbuffer : Chunks, lbuffer : Chunks,
   established : BOOLEAN, idle : Nat, opener : Nat, gave : Chunks]

\* Everything the connection has for the server, and has sent it.
Framed(c) == Upward(c.remote) \o c.rbuffer

\* The request comes first; until it is written one datagram waits in rbuffer.
Led(c) ==
  /\ c.established => Framed(c) # <<>> /\ Framed(c)[1] = Request
  /\ ~c.established => /\ Upward(c.remote) = <<>> /\ Len(c.rbuffer) <= 1
                       /\ \A i \in 1 .. Len(c.rbuffer) : c.rbuffer[i] # Request

\* The packets that were given to the application, and behind them in lbuffer
\* what was read of the next ones: all that was decrypted.  More than a part of
\* a packet is only kept when it is invalid.
InStep(c, bad) ==
  /\ c.remote.dec = <<>>
  /\ c.gave = Count(Len(c.gave)) /\ \A i \in 1 .. Len(c.gave) : i \notin bad
  /\ \A i \in 1 .. Len(c.lbuffer) : c.lbuffer[i] = 2 * Len(c.gave) + i
  /\ 2 * Len(c.gave) + Len(c.lbuffer) = c.remote.seen
  /\ Len(c.lbuffer) >= 2 => Len(c.gave) + 1 \in bad

UdpSound(c, bad) == c \in UdpConns /\ RemoteSound(c.remote) /\ Led(c) /\ InStep(c, bad)

LEMMA UdpParts ==
  ASSUME NEW c \in UdpConns
  PROVE  /\ c.remote \in Remotes /\ c.rbuffer \in Chunks /\ c.lbuffer \in Chunks
         /\ c.gave \in Chunks /\ Len(c.gave) \in Nat /\ Len(c.lbuffer) \in Nat
         /\ Len(c.rbuffer) \in Nat /\ Upward(c.remote) \in Chunks /\ Framed(c) \in Chunks
<1>1. c.remote \in Remotes /\ c.rbuffer \in Chunks /\ c.lbuffer \in Chunks /\ c.gave \in Chunks
  BY DEF UdpConns
<1> QED
  BY <1>1, RemoteParts, NothingJoined, Joined DEF Framed

\* A step that leaves the data of the connection where it is, as far as the
\* connection is concerned.
Keeps(c, e) ==
  /\ e \in UdpConns /\ RemoteSound(e.remote)
  /\ e.local = c.local /\ e.established = c.established
  /\ e.rbuffer = c.rbuffer /\ e.lbuffer = c.lbuffer /\ e.gave = c.gave
  /\ e.remote.dec = c.remote.dec /\ e.remote.seen = c.remote.seen
  /\ Upward(e.remote) = Upward(c.remote)

\* A step of the connection: what it has for the server is f, and its socket
\* is the same.
Holds(c, e, f, bad) == UdpSound(e, bad) /\ e.local = c.local /\ Framed(e) = f

LEMMA KeepsSound ==
  ASSUME NEW c, NEW e, NEW bad, UdpSound(c, bad), Keeps(c, e)
  PROVE  Holds(c, e, Framed(c), bad)
<1>1. Framed(e) = Framed(c)
  BY DEF Keeps, Framed
<1>2. Led(e)
  BY <1>1 DEF Keeps, Led, UdpSound
<1>3. InStep(e, bad)
  BY DEF Keeps, InStep, UdpSound
<1> QED
  BY <1>1, <1>2, <1>3 DEF Keeps, Holds, UdpSound

LEMMA KeepsRemote ==
  ASSUME NEW c \in UdpConns, NEW q, RemoteSound(q), q.dec = c.remote.dec, q.seen = c.remote.seen,
         Upward(q) = Upward(c.remote), NEW r \in BOOLEAN,
         NEW e, e = [c EXCEPT !.remote = q, !.rclosed = r]
  PROVE  Keeps(c, e)
<1>1. q \in Remotes
  BY DEF RemoteSound
<1>2. /\ e \in UdpConns /\ e.remote = q /\ e.local = c.local /\ e.established = c.established
      /\ e.rbuffer = c.rbuffer /\ e.lbuffer = c.lbuffer /\ e.gave = c.gave
  BY <1>1 DEF UdpConns
<1> QED
  BY <1>2 DEF Keeps

\* The same when only the remote end changes.
LEMMA KeepsMoved ==
  ASSUME NEW c \in UdpConns, NEW q, Moved(c.remote, q) \/ Outside(c.remote, q),
         NEW e, e = [c EXCEPT !.remote = q]
  PROVE  Keeps(c, e)
<1>1. PICK r \in BOOLEAN : r = c.rclosed
  BY DEF UdpConns
<1>2. e = [c EXCEPT !.remote = q, !.rclosed = r]
  BY <1>1 DEF UdpConns
<1>3. RemoteSound(q) /\ q.dec = c.remote.dec /\ q.seen = c.remote.seen /\ Upward(q) = Upward(c.remote)
  BY DEF Moved, Outside, Alike
<1> QED
  BY <1>2, <1>3, KeepsRemote, Zenon

LEMMA UdpCloses ==
  ASSUME NEW c \in UdpConns, RemoteSound(c.remote)
  PROVE  Keeps(c, udp_close_remote(c)) /\ Keeps(c, c)
<1>1. Keeps(c, c)
  BY DEF Keeps
<1>2. PICK q : q = close(c.remote)
  OBVIOUS
<1>3. RemoteSound(q) /\ q.dec = c.remote.dec /\ q.seen = c.remote.seen /\ Upward(q) = Upward(c.remote)
  BY <1>2, Closes DEF ClosedAs, Alike
<1>4. CASE ~c.rclosed
  <2>1. udp_close_remote(c) = [c EXCEPT !.remote = q, !.rclosed = TRUE]
    BY <1>2, <1>4 DEF udp_close_remote
  <2>2. Keeps(c, udp_close_remote(c))
    BY <1>3, <2>1, KeepsRemote
  <2> QED
    BY <1>1, <2>2
<1>5. CASE c.rclosed
  BY <1>1, <1>5 DEF udp_close_remote
<1> QED
  BY <1>4, <1>5

LEMMA UdpFlushes ==
  ASSUME NEW c \in UdpConns, RemoteSound(c.remote)
  PROVE  Keeps(c, udp_flush_remote(c))
<1>1. CASE FlushFails(c.remote)
  BY <1>1, UdpCloses DEF udp_flush_remote
<1>2. CASE ~FlushFails(c.remote)
  <2>1. Moved(c.remote, flush(c.remote))
    BY Flushes
  <2>2. PICK q : q = flush(c.remote)
    OBVIOUS
  <2>3. udp_flush_remote(c) = [c EXCEPT !.remote = q]
    BY <1>2, <2>2 DEF udp_flush_remote
  <2> QED
    BY <2>1, <2>2, <2>3, KeepsMoved
<1> QED
  BY <1>1, <1>2

\* local_to_remote of a connection that has written the request: rbuffer and
\* the datagram go behind everything else.
LEMMA UdpSends ==
  ASSUME NEW c, NEW bad, UdpSound(c, bad), c.established, NEW data \in Chunks,
         NEW e, e = udp_local_to_remote(c, data)
  PROVE  Holds(c, e, Framed(c) \o data, bad)
<1>1. PICK p, r, q, d : /\ p = c.remote /\ r = c.rbuffer /\ q = write(p, r \o data)
                        /\ d = [c EXCEPT !.remote = q, !.rbuffer = <<>>]
  OBVIOUS
<1>2. /\ c \in UdpConns /\ RemoteSound(p) /\ r \in Chunks /\ r \o data \in Chunks
      /\ Upward(p) \in Chunks /\ <<>> \in Chunks /\ Framed(c) \in Chunks
  BY <1>1, UdpParts, Joined, NothingJoined DEF UdpSound
<1>3. Wrote(p, r \o data, q)
  BY <1>1, <1>2, Writes
<1>4. RemoteSound(q) /\ q \in Remotes /\ q.dec = p.dec /\ q.seen = p.seen
  BY <1>3 DEF Wrote, Alike, RemoteSound
<1>5. /\ d \in UdpConns /\ d.remote = q /\ d.rbuffer = <<>> /\ d.local = c.local
      /\ d.established /\ d.gave = c.gave /\ d.lbuffer = c.lbuffer
  BY <1>1, <1>2, <1>4 DEF UdpConns
<1>6. Framed(d) = Framed(c) \o data
  <2>1. Upward(q) = Upward(p) \o (r \o data) /\ Upward(q) \in Chunks
    BY <1>3, <1>4, RemoteParts DEF Wrote
  <2>2. Upward(q) \o <<>> = Upward(q)
    BY <2>1, NothingJoined
  <2>3. Regroups(Upward(p), r, data)
    BY <1>2, Regrouping, Zenon
  <2> QED
    BY <1>1, <1>5, <2>1, <2>2, <2>3 DEF Framed, Regroups
<1>7. Led(d)
  <2>1. PICK f \in Chunks : f = Framed(c)
    BY <1>2
  <2>2. f # <<>> /\ f[1] = Request /\ Len(f) \in Nat /\ Len(f) # 0
    BY <2>1, NothingJoined DEF UdpSound, Led
  <2>3. Len(f \o data) = Len(f) + Len(data) /\ Len(data) \in Nat /\ (f \o data)[1] = f[1]
    BY <2>2, ConcatProperties, LenProperties DEF Chunks
  <2>4. f \o data # <<>>
    BY <2>2, <2>3, NothingJoined
  <2> QED
    BY <1>5, <1>6, <2>1, <2>2, <2>3, <2>4 DEF Led
<1>8. UdpSound(d, bad)
  <2>1. InStep(d, bad)
    BY <1>1, <1>4, <1>5 DEF InStep, UdpSound
  <2> QED
    BY <1>4, <1>5, <1>7, <2>1 DEF UdpSound
<1>9. Keeps(d, e)
  <2>1. e = udp_flush_remote(d)
    BY <1>1 DEF udp_local_to_remote
  <2> QED
    BY <1>4, <1>5, <2>1, UdpFlushes
<1>10. Holds(d, e, Framed(d), bad)
  BY <1>8, <1>9, KeepsSound, Zenon
<1> QED
  BY <1>5, <1>6, <1>10 DEF Holds

LEMMA OneChunk ==
  ASSUME NEW s \in Chunks, NEW k \in Nat
  PROVE  <<k>> \in Chunks /\ s \o <<k>> = Append(s, k) /\ Len(<<k>>) = 1 /\ <<k>>[1] = k
<1>1. <<k>> \in Seq(Nat)
  OBVIOUS
<1> QED
  BY <1>1, AppendIsConcat DEF Chunks

\* Connection::do_local: the datagram goes behind everything else, or is dropped.
LEMMA UdpTakes ==
  ASSUME NEW c, NEW bad, UdpSound(c, bad), NEW k \in Nat, k # Request,
         NEW e, e = udp_do_local(c, k)
  PROVE  Holds(c, e, Framed(c), bad) \/ Holds(c, e, Append(Framed(c), k), bad)
<1>1. /\ c \in UdpConns /\ RemoteSound(c.remote) /\ Framed(c) \in Chunks /\ Upward(c.remote) \in Chunks
      /\ <<k>> \in Chunks /\ Framed(c) \o <<k>> = Append(Framed(c), k) /\ c.rbuffer \in Chunks
      /\ Keeps(c, udp_close_remote(c)) /\ Keeps(c, c) /\ Len(<<k>>) = 1 /\ <<k>>[1] = k
  BY UdpParts, OneChunk, UdpCloses DEF UdpSound
<1>2. CASE e = udp_close_remote(c) \/ e = c
  <2>1. Keeps(c, e)
    BY <1>1, <1>2
  <2> QED
    BY <2>1, KeepsSound
<1>3. CASE c.idle < Stale /\ c.rbuffer = <<>> /\ ~c.established
  <2>1. e = [c EXCEPT !.rbuffer = <<k>>]
    BY <1>3 DEF udp_do_local, Stale, UdpSound, UdpConns
  <2>2. /\ e \in UdpConns /\ e.rbuffer = <<k>> /\ e.remote = c.remote /\ e.local = c.local
        /\ e.established = c.established /\ e.lbuffer = c.lbuffer /\ e.gave = c.gave
    BY <1>1, <2>1 DEF UdpConns
  <2>3. Upward(c.remote) = <<>>
    BY <1>3 DEF UdpSound, Led
  <2>4. Framed(c) = <<>>
    BY <1>1, <1>3, <2>3, NothingJoined DEF Framed
  <2>5. Framed(e) = Append(Framed(c), k)
    BY <1>1, <2>2, <2>3, <2>4 DEF Framed
  <2>6. Led(e)
    <3>1. \A i \in 1 .. 1 : <<k>>[i] # Request
      BY <1>1
    <3> QED
      BY <1>1, <1>3, <2>2, <2>3, <3>1 DEF Led
  <2>7. InStep(e, bad)
    BY <2>2 DEF InStep, UdpSound
  <2> QED
    BY <1>1, <2>2, <2>5, <2>6, <2>7 DEF Holds, UdpSound
<1>4. CASE e = udp_local_to_remote(c, <<k>>) /\ c.established
  <2>1. Holds(c, e, Framed(c) \o <<k>>, bad)
    BY <1>1, <1>4, UdpSends, Zenon
  <2> QED
    BY <1>1, <2>1
<1>5. \/ e = udp_close_remote(c) \/ e = c
      \/ c.idle < Stale /\ c.rbuffer = <<>> /\ ~c.established
      \/ e = udp_local_to_remote(c, <<k>>) /\ c.established
  <2>1. c.idle \in Nat /\ c.established \in BOOLEAN
    BY <1>1 DEF UdpConns
  <2> QED
    BY <2>1 DEF udp_do_local, Stale
<1> QED
  BY <1>2, <1>3, <1>4, <1>5

\* The writable event: the first one writes the request, and behind it what
\* waited in rbuffer.
LEMMA UdpWrites ==
  ASSUME NEW c, NEW bad, UdpSound(c, bad), NEW e, e = UdpWritable(c)
  PROVE  \/ Holds(c, e, Framed(c), bad)
         \/ ~c.established /\ Holds(c, e, <<Request>> \o Framed(c), bad)
<1>1. /\ c \in UdpConns /\ RemoteSound(c.remote) /\ Framed(c) \in Chunks /\ Upward(c.remote) \in Chunks
      /\ c.rbuffer \in Chunks /\ <<>> \in Chunks /\ <<Request>> \in Chunks
      /\ Len(<<Request>>) = 1 /\ <<Request>>[1] = Request
  BY UdpParts, NothingJoined, OneChunk DEF UdpSound, Request
<1>2. CASE c.established
  <2>1. e = udp_local_to_remote(c, <<>>)
    BY <1>2 DEF UdpWritable
  <2>2. Holds(c, e, Framed(c) \o <<>>, bad)
    BY <1>1, <1>2, <2>1, UdpSends, Zenon
  <2> QED
    BY <1>1, <2>2, NothingJoined
<1>3. CASE ~c.established
  <2>1. PICK q, d : /\ q = write(c.remote, <<Request>>)
                    /\ d = [c EXCEPT !.remote = q, !.established = TRUE]
    OBVIOUS
  <2>2. Wrote(c.remote, <<Request>>, q)
    BY <1>1, <2>1, Writes
  <2>3. /\ RemoteSound(q) /\ q \in Remotes /\ q.dec = c.remote.dec /\ q.seen = c.remote.seen
    BY <2>2 DEF Wrote, Alike, RemoteSound
  <2>4. /\ d \in UdpConns /\ d.remote = q /\ d.rbuffer = c.rbuffer /\ d.local = c.local
        /\ d.established /\ d.gave = c.gave /\ d.lbuffer = c.lbuffer
    BY <1>1, <2>1, <2>3 DEF UdpConns
  <2>5. Upward(c.remote) = <<>> /\ Framed(c) = c.rbuffer /\ Upward(q) = <<Request>>
    <3>1. Upward(c.remote) = <<>>
      BY <1>3 DEF UdpSound, Led
    <3> QED
      BY <1>1, <2>2, <3>1, NothingJoined DEF Framed, Wrote
  <2>6. Framed(d) = <<Request>> \o Framed(c)
    BY <2>4, <2>5 DEF Framed
  <2>7. Led(d)
    <3>1. PICK f, g \in Chunks : f = <<Request>> /\ g = Framed(c)
      BY <1>1
    <3>2. Len(f \o g) = 1 + Len(g) /\ Len(g) \in Nat /\ (f \o g)[1] = Request
      BY <1>1, <3>1, ConcatProperties, LenProperties DEF Chunks
    <3>3. f \o g # <<>>
      BY <3>2, NothingJoined
    <3> QED
      BY <2>4, <2>6, <3>1, <3>2, <3>3 DEF Led
  <2>8. UdpSound(d, bad)
    <3>1. InStep(d, bad)
      BY <2>3, <2>4 DEF InStep, UdpSound
    <3> QED
      BY <2>3, <2>4, <2>7, <3>1 DEF UdpSound
  <2>9. e = udp_local_to_remote(d, <<>>)
    BY <1>3, <2>1 DEF UdpWritable
  <2>10. Holds(d, e, Framed(d) \o <<>>, bad)
    BY <1>1, <2>4, <2>8, <2>9, UdpSends, Zenon
  <2>11. Framed(d) \o <<>> = Framed(d)
    BY <2>4, UdpParts, NothingJoined
  <2> QED
    BY <1>3, <2>4, <2>6, <2>10, <2>11 DEF Holds
<1> QED
  BY <1>2, <1>3

\* A set of numbers has a least one.
LEMMA LeastExists ==
  ASSUME NEW T, T \subseteq Nat, T # {}
  PROVE  \E x \in T : \A y \in T : x <= y
<1>1. IsWellFoundedOn(OpToRel(<, Nat), Nat)
  BY NatLessThanWellFounded
<1>2. PICK x \in T : \A y \in T : ~(<<y, x>> \in OpToRel(<, Nat))
  BY <1>1, WFMin
<1>3. \A y \in T : x <= y
  <2> SUFFICES ASSUME NEW y \in T, y < x PROVE FALSE
    OBVIOUS
  <2>1. <<y, x>> \in OpToRel(<, Nat)
    BY DEF OpToRel
  <2> QED
    BY <1>2, <2>1
<1> QED
  BY <1>3

\* A set of numbers up to N has a greatest one.
LEMMA GreatestExists ==
  ASSUME NEW N \in Nat, NEW S, S \subseteq 0 .. N, S # {}
  PROVE  \E m \in S : \A l \in S : l <= m
<1> DEFINE T == {x \in Nat : \E m \in S : x = N - m}
<1>1. T \subseteq Nat /\ T # {}
  <2>1. PICK m \in S : TRUE
    OBVIOUS
  <2>2. N - m \in T
    OBVIOUS
  <2> QED
    BY <2>2
<1>2. PICK x \in T : \A y \in T : x <= y
  BY <1>1, LeastExists
<1>3. PICK m \in S : x = N - m
  OBVIOUS
<1>4. \A l \in S : l <= m
  <2> SUFFICES ASSUME NEW l \in S PROVE l <= m
    OBVIOUS
  <2>1. N - l \in T
    OBVIOUS
  <2> QED
    BY <1>2, <1>3, <2>1
<1> QED
  BY <1>4

\* What parsing takes of data that begins behind packet g: n packets, the next
\* of which is incomplete or invalid.
Parses(data, g, n, bad) ==
  /\ n \in Nat /\ 2 * n <= Len(data)
  /\ Parsed(data) \in Chunks /\ Len(Parsed(data)) = n
  /\ \A i \in 1 .. n : Parsed(data)[i] = g + i /\ g + i \notin bad
  /\ 2 * n + 2 <= Len(data) => g + n + 1 \in bad

LEMMA ParsesRun ==
  ASSUME NEW data \in Chunks, NEW g \in Nat, \A i \in 1 .. Len(data) : data[i] = 2 * g + i
  PROVE  \E n \in Nat : Parses(data, g, n, setting.bad)
<1>1. PICK L, h \in Nat : L = Len(data) /\ h = L \div 2 /\ 2 * h <= L /\ L < 2 * h + 2
  <2>1. PICK L \in Nat : L = Len(data)
    BY NothingJoined
  <2>2. L \div 2 \in Nat /\ 2 * (L \div 2) <= L /\ L < 2 * (L \div 2) + 2
    OBVIOUS
  <2> QED
    BY <2>1, <2>2
<1> DEFINE ok == {m \in 0 .. h : \A i \in 1 .. m : PacketOf(data[2 * i]) \notin setting.bad}
<1>2. ok = {m \in 0 .. Len(data) \div 2 : \A i \in 1 .. m : PacketOf(data[2 * i]) \notin setting.bad}
  BY <1>1
<1>3. \A i \in 1 .. h : PacketOf(data[2 * i]) = g + i
  <2> SUFFICES ASSUME NEW i \in 1 .. h PROVE PacketOf(data[2 * i]) = g + i
    OBVIOUS
  <2>1. 2 * i \in 1 .. L
    BY <1>1
  <2>2. data[2 * i] = 2 * g + 2 * i
    BY <1>1, <2>1
  <2>3. (2 * g + 2 * i + 1) \div 2 = g + i
    BY <1>1
  <2> QED
    BY <2>2, <2>3 DEF PacketOf
<1>4. ok \subseteq 0 .. h /\ 0 \in ok
  OBVIOUS
<1>5. PICK n \in ok : \A l \in ok : l <= n
  BY <1>4, GreatestExists
<1>6. PICK k : k = (CHOOSE m \in ok : \A l \in ok : l <= m)
  OBVIOUS
<1>7. k \in ok /\ \A l \in ok : l <= k
  BY <1>5, <1>6
<1>8. k = n
  <2>1. n \in 0 .. h /\ k \in 0 .. h
    BY <1>4, <1>5, <1>7, Zenon
  <2>2. n <= k /\ k <= n
    BY <1>5, <1>7, Zenon
  <2> QED
    BY ONLY <2>1, <2>2, h \in Nat
<1>9. Parsed(data) = [i \in 1 .. n |-> PacketOf(data[2 * i])]
  BY <1>2, <1>6, <1>8 DEF Parsed
<1>10. n \in Nat /\ n <= h /\ \A i \in 1 .. n : PacketOf(data[2 * i]) \notin setting.bad
  BY <1>5
<1> HIDE DEF ok
<1>11. \A i \in 1 .. n : Parsed(data)[i] = g + i /\ g + i \notin setting.bad
  <2> SUFFICES ASSUME NEW i \in 1 .. n PROVE Parsed(data)[i] = g + i /\ g + i \notin setting.bad
    OBVIOUS
  <2>1. i \in 1 .. h
    BY <1>10
  <2>2. PacketOf(data[2 * i]) = g + i /\ PacketOf(data[2 * i]) \notin setting.bad
    BY <1>3, <1>10, <2>1
  <2> QED
    BY <1>9, <2>2
<1>12. Parsed(data) \in Chunks /\ Len(Parsed(data)) = n
  <2>1. Parsed(data) \in [1 .. n -> Nat]
    <3>1. \A i \in 1 .. n : PacketOf(data[2 * i]) \in Nat
      BY <1>3, <1>10
    <3> QED
      BY <1>9, <3>1
  <2>2. Parsed(data) \in Seq(Nat)
    BY <1>10, <2>1, SeqDef
  <2> QED
    BY <1>10, <2>1, <2>2, LenProperties DEF Chunks
<1>13. ASSUME 2 * n + 2 <= L PROVE g + n + 1 \in setting.bad
  <2>1. n + 1 \in 1 .. h
    BY <1>1, <1>10, <1>13
  <2>2. n + 1 \notin ok
    BY <1>5, <1>10
  <2>3. PICK i \in 1 .. n + 1 : PacketOf(data[2 * i]) \in setting.bad
    BY <2>1, <2>2 DEF ok
  <2>4. i = n + 1
    BY <1>10, <2>3
  <2>5. PacketOf(data[2 * i]) = g + i
    BY <1>3, <2>1, <2>4
  <2> QED
    BY <1>10, <2>3, <2>4, <2>5
<1>14. 2 * n <= Len(data)
  BY <1>1, <1>10
<1> QED
  BY <1>1, <1>10, <1>11, <1>12, <1>13, <1>14 DEF Parses

\* What is in the socket is the next the server has sent.
LEMMA InRun ==
  ASSUME NEW p, RemoteSound(p)
  PROVE  \A i \in 1 .. Len(p.in) : p.in[i] = p.seen + i
<1>1. p.in \in Chunks /\ p.seen \in Nat /\ p.said \in Nat /\ Len(p.in) \in Nat
  BY RemoteParts, NothingJoined DEF RemoteSound
<1>2. CASE p.end = "rst"
  <2>1. p.in = <<>> /\ Len(<<>>) = 0
    BY <1>2 DEF RemoteSound
  <2> QED
    BY <2>1
<1>3. CASE p.end # "rst"
  <2> SUFFICES ASSUME NEW i \in 1 .. Len(p.in) PROVE p.in[i] = p.seen + i
    OBVIOUS
  <2>1. PICK a, b \in Chunks : a = Count(p.seen) /\ b = Count(p.said)
    BY <1>1, Counting
  <2>2. Len(a) = p.seen /\ Len(b) = p.said /\ a \o p.in = b
    BY <1>1, <1>3, <2>1, Counting DEF RemoteSound
  <2>3. Len(a \o p.in) = p.seen + Len(p.in) /\ (a \o p.in)[p.seen + i] = p.in[i]
    <3>1. /\ Len(a \o p.in) = Len(a) + Len(p.in)
          /\ \A j \in 1 .. Len(a) + Len(p.in) :
               (a \o p.in)[j] = IF j <= Len(a) THEN a[j] ELSE p.in[j - Len(a)]
      BY <1>1, ConcatProperties DEF Chunks
    <3>2. PICK j : j = p.seen + i
      OBVIOUS
    <3>3. j \in 1 .. Len(a) + Len(p.in) /\ ~(j <= Len(a)) /\ j - Len(a) = i
      BY <1>1, <2>2, <3>2
    <3> QED
      BY <2>2, <3>1, <3>2, <3>3
  <2>4. p.seen + i \in 1 .. p.said
    BY <1>1, <2>2, <2>3
  <2>5. b[p.seen + i] = p.seen + i
    BY <1>1, <2>1, <2>4, Counting
  <2> QED
    BY <2>2, <2>3, <2>5
<1> QED
  BY <1>2, <1>3

\* Numbers that go on where others end.
LEMMA RunsOn ==
  ASSUME NEW s \in Chunks, NEW t \in Chunks, NEW b \in Nat,
         \A i \in 1 .. Len(s) : s[i] = b + i,
         \A i \in 1 .. Len(t) : t[i] = b + Len(s) + i
  PROVE  \A i \in 1 .. Len(s \o t) : (s \o t)[i] = b + i
<1>1. /\ Len(s \o t) = Len(s) + Len(t) /\ Len(s) \in Nat /\ Len(t) \in Nat
      /\ \A i \in 1 .. Len(s) + Len(t) :
           (s \o t)[i] = IF i <= Len(s) THEN s[i] ELSE t[i - Len(s)]
  BY ConcatProperties, LenProperties DEF Chunks
<1> SUFFICES ASSUME NEW i \in 1 .. Len(s) + Len(t) PROVE (s \o t)[i] = b + i
  BY <1>1
<1>2. CASE i <= Len(s)
  <2>1. i \in 1 .. Len(s)
    BY <1>1, <1>2
  <2> QED
    BY <1>1, <1>2, <2>1
<1>3. CASE ~(i <= Len(s))
  <2>1. PICK j : j = i - Len(s)
    OBVIOUS
  <2>2. j \in 1 .. Len(t) /\ b + Len(s) + j = b + i
    BY <1>1, <1>3, <2>1
  <2>3. (s \o t)[i] = t[j]
    BY <1>1, <1>3, <2>1
  <2> QED
    BY <2>2, <2>3
<1> QED
  BY <1>2, <1>3

LEMMA RunsBehind ==
  ASSUME NEW s \in Chunks, NEW b \in Nat, \A i \in 1 .. Len(s) : s[i] = b + i, NEW n \in 0 .. Len(s)
  PROVE  \A i \in 1 .. Len(Rest(s, n)) : Rest(s, n)[i] = b + n + i
<1>1. Len(s) \in Nat /\ Len(Rest(s, n)) = Len(s) - n
  BY SplitKeeps, NothingJoined
<1> SUFFICES ASSUME NEW i \in 1 .. Len(s) - n PROVE Rest(s, n)[i] = b + n + i
  BY <1>1
<1>2. Rest(s, n)[i] = s[n + 1 + i - 1]
  <2>1. \A j \in n + 1 .. Len(s) : s[j] \in Nat
    BY <1>1
  <2> QED
    BY <1>1, <2>1, SubSeqProperties, SMTT(30) DEF Rest
<1>3. n + 1 + i - 1 = n + i /\ n + i \in 1 .. Len(s) /\ b + (n + i) = b + n + i
  BY <1>1
<1> QED
  BY <1>2, <1>3

\* What is counted from the first on.
LEMMA RunCounts ==
  ASSUME NEW s \in Chunks, \A i \in 1 .. Len(s) : s[i] = i
  PROVE  s = Count(Len(s))
<1>1. PICK n \in Nat : n = Len(s)
  BY NothingJoined
<1>2. PICK k \in Chunks : k = Count(n)
  BY Counting
<1>3. Len(k) = n /\ \A i \in 1 .. n : k[i] = i
  BY <1>2, Counting
<1> QED
  BY <1>1, <1>2, <1>3, SeqEqual DEF Chunks

\* What one readable event reads off the remote end: everything.
ReadAll(p, q) ==
  /\ RemoteSound(q) /\ q.dec = <<>> /\ q.seen = p.seen + Len(Readable(p))
  /\ Upward(q) = Upward(p)

LEMMA ReadsAll ==
  ASSUME NEW p, RemoteSound(p), p.dec = <<>>
  PROVE  /\ ReadAll(p, ReadSome(p, Len(Readable(p))))
         /\ Readable(p) \in Chunks
         /\ \A i \in 1 .. Len(Readable(p)) : Readable(p)[i] = p.seen + i
<1>1. /\ p.in \in Chunks /\ p.seen \in Nat /\ <<>> \in Chunks /\ Len(<<>>) = 0 /\ Len(p.in) \in Nat
      /\ <<>> \o p.in = p.in /\ <<>> \o <<>> = <<>>
  BY RemoteParts, NothingJoined DEF RemoteSound
<1>2. PICK m, n, q : m = Readable(p) /\ n = Len(m) /\ q = ReadSome(p, n)
  OBVIOUS
<1>3. m = (IF Cut(p) THEN <<>> ELSE p.in) /\ m \in Chunks /\ n \in Nat
  BY <1>1, <1>2 DEF Readable, Cut
<1>4. ReadOff(p, n, q)
  <2>1. n \in 0 .. Len(Readable(p))
    BY <1>2, <1>3
  <2> QED
    BY <1>2, <2>1, Reads
<1>5. q.dec = <<>> /\ q.seen = p.seen + n
  <2>1. CASE n <= Len(p.dec)
    <3>1. n = 0 /\ Len(p.dec) = 0
      BY <1>1, <1>3, <2>1
    <3>2. q.dec = Rest(<<>>, 0) /\ q.seen = p.seen
      BY <1>4, <2>1, <3>1 DEF ReadOff
    <3>3. Rest(<<>>, 0) \in Chunks /\ Len(Rest(<<>>, 0)) = 0
      BY <1>1, SplitKeeps
    <3> QED
      BY <1>1, <3>1, <3>2, <3>3, NothingJoined
  <2>2. CASE n > Len(p.dec)
    <3>1. ~Cut(p) /\ q.dec = Rest(p.in, n) /\ q.seen = p.seen + Len(p.in)
      BY <1>1, <1>3, <1>4, <2>2 DEF ReadOff
    <3>2. n = Len(p.in)
      BY <1>2, <1>3, <3>1
    <3>3. Rest(p.in, n) \in Chunks /\ Len(Rest(p.in, n)) = 0
      BY <1>1, <3>2, SplitKeeps
    <3> QED
      BY <3>1, <3>2, <3>3, NothingJoined
  <2>3. Len(p.dec) = 0
    BY <1>1
  <2> QED
    BY <1>3, <2>1, <2>2, <2>3
<1>6. \A i \in 1 .. Len(m) : m[i] = p.seen + i
  <2>1. \A i \in 1 .. Len(p.in) : p.in[i] = p.seen + i
    BY InRun
  <2> QED
    BY <1>1, <1>3, <2>1
<1> QED
  BY <1>2, <1>3, <1>4, <1>5, <1>6 DEF ReadOff, ReadAll

\* remote_to_local: whole packets are taken out, and the start of one stays.
LEMMA UdpReads ==
  ASSUME NEW c, UdpSound(c, setting.bad), NEW e, e = UdpRead(c)
  PROVE  Holds(c, e, Framed(c), setting.bad)
<1>1. PICK p, m, data, g, rest, q, d :
        /\ p = c.remote /\ m = Readable(p) /\ data = c.lbuffer \o m /\ g = Len(c.gave)
        /\ rest = Unparsed(data) /\ q = ReadSome(p, Len(m))
        /\ d = [c EXCEPT !.remote = q, !.lbuffer = rest, !.gave = c.gave \o Parsed(data)]
  OBVIOUS
<1>2. /\ c \in UdpConns /\ RemoteSound(p) /\ c.lbuffer \in Chunks /\ c.gave \in Chunks
      /\ g \in Nat /\ Len(c.lbuffer) \in Nat /\ p.dec = <<>> /\ p.seen = 2 * g + Len(c.lbuffer)
      /\ \A i \in 1 .. Len(c.lbuffer) : c.lbuffer[i] = 2 * g + i
      /\ c.gave = Count(g) /\ \A i \in 1 .. g : i \notin setting.bad
  BY <1>1, UdpParts DEF UdpSound, InStep
<1>3. /\ ReadAll(p, q) /\ m \in Chunks /\ \A i \in 1 .. Len(m) : m[i] = p.seen + i
  BY <1>1, <1>2, ReadsAll
<1>4. /\ data \in Chunks /\ Len(data) = Len(c.lbuffer) + Len(m) /\ Len(m) \in Nat
  BY <1>1, <1>2, <1>3, Joined, NothingJoined
<1>5. PICK b \in Nat : b = 2 * g
  BY <1>2
<1>6. \A i \in 1 .. Len(data) : data[i] = b + i
  <2>1. \A i \in 1 .. Len(c.lbuffer) : c.lbuffer[i] = b + i
    BY <1>2, <1>5
  <2>2. \A i \in 1 .. Len(m) : m[i] = b + Len(c.lbuffer) + i
    BY <1>2, <1>3, <1>5
  <2>3. PICK l : l = c.lbuffer
    OBVIOUS
  <2>4. /\ l \in Chunks /\ \A i \in 1 .. Len(l) : l[i] = b + i
        /\ \A i \in 1 .. Len(m) : m[i] = b + Len(l) + i
    BY <1>2, <2>1, <2>2, <2>3
  <2>5. \A i \in 1 .. Len(l \o m) : (l \o m)[i] = b + i
    BY ONLY b \in Nat, <1>3, <2>4, RunsOn
  <2> QED
    BY <1>1, <2>3, <2>5
<1>7. PICK n \in Nat : Parses(data, g, n, setting.bad)
  BY <1>2, <1>4, <1>5, <1>6, ParsesRun
<1>8. PICK s : s = Parsed(data)
  OBVIOUS
<1>9. /\ 2 * n <= Len(data) /\ s \in Chunks /\ Len(s) = n
      /\ \A i \in 1 .. n : s[i] = g + i /\ g + i \notin setting.bad
      /\ 2 * n + 2 <= Len(data) => g + n + 1 \in setting.bad
  BY <1>7, <1>8 DEF Parses
<1>10. PICK k, t : k = 2 * n /\ t = g + n
  OBVIOUS
<1>11. k \in 0 .. Len(data) /\ t \in Nat /\ rest = Rest(data, k)
  <2>1. PICK L \in Nat : L = Len(data)
    BY <1>4, NothingJoined
  <2>2. k \in 0 .. L /\ t \in Nat
    BY <1>2, <1>9, <1>10, <2>1
  <2>3. rest = Rest(data, k)
    BY <1>1, <1>8, <1>9, <1>10 DEF Unparsed
  <2> QED
    BY <2>1, <2>2, <2>3
<1>12. /\ rest \in Chunks /\ Len(rest) = Len(data) - k
       /\ \A i \in 1 .. Len(rest) : rest[i] = 2 * t + i
  <2>1. rest \in Chunks /\ Len(rest) = Len(data) - k
    BY <1>4, <1>11, SplitKeeps
  <2>2. \A i \in 1 .. Len(rest) : rest[i] = b + k + i
    BY <1>4, <1>6, <1>11, RunsBehind
  <2>3. b + k = 2 * t
    BY <1>2, <1>5, <1>10
  <2> QED
    BY <2>1, <2>2, <2>3
<1>13. c.gave \o s = Count(t) /\ Len(c.gave \o s) = t /\ c.gave \o s \in Chunks
  <2>1. \A i \in 1 .. Len(c.gave) : c.gave[i] = 0 + i
    BY <1>1, <1>2, Counting
  <2>2. \A i \in 1 .. Len(s) : s[i] = 0 + Len(c.gave) + i
    BY <1>1, <1>2, <1>9
  <2>3. \A i \in 1 .. Len(c.gave \o s) : (c.gave \o s)[i] = 0 + i
    BY <1>2, <1>9, <2>1, <2>2, RunsOn
  <2>4. Len(c.gave \o s) = t /\ c.gave \o s \in Chunks
    BY <1>1, <1>2, <1>9, <1>10, Joined
  <2>5. \A i \in 1 .. Len(c.gave \o s) : (c.gave \o s)[i] = i
    BY <1>11, <2>3, <2>4
  <2> QED
    BY <2>4, <2>5, RunCounts
<1>14. \A i \in 1 .. t : i \notin setting.bad
  <2> SUFFICES ASSUME NEW i \in 1 .. t PROVE i \notin setting.bad
    OBVIOUS
  <2>1. CASE i <= g
    <3>1. i \in 1 .. g
      BY <1>2, <1>11, <2>1
    <3> QED
      BY <1>2, <3>1
  <2>2. CASE ~(i <= g)
    <3>1. i - g \in 1 .. n /\ g + (i - g) = i
      BY <1>2, <1>10, <2>2
    <3> QED
      BY <1>9, <3>1
  <2> QED
    BY <2>1, <2>2
<1>15. RemoteSound(q) /\ q \in Remotes /\ q.dec = <<>> /\ q.seen = p.seen + Len(m) /\ Upward(q) = Upward(p)
  BY <1>1, <1>3 DEF ReadAll, RemoteSound
<1>16. /\ d \in UdpConns /\ d.remote = q /\ d.lbuffer = rest /\ d.gave = c.gave \o s
       /\ d.local = c.local /\ d.established = c.established /\ d.rbuffer = c.rbuffer
  <2>1. PICK l : l = c.gave \o s
    OBVIOUS
  <2>2. /\ d = [c EXCEPT !.remote = q, !.lbuffer = rest, !.gave = l] /\ c \in UdpConns
        /\ q \in Remotes /\ rest \in Chunks /\ l \in Chunks
    BY <1>1, <1>2, <1>8, <1>12, <1>13, <1>15, <2>1
  <2>3. /\ d \in UdpConns /\ d.remote = q /\ d.lbuffer = rest /\ d.gave = l
        /\ d.local = c.local /\ d.established = c.established /\ d.rbuffer = c.rbuffer
    BY ONLY <2>2 DEF UdpConns
  <2> QED
    BY <2>1, <2>3
<1>17. Framed(d) = Framed(c) /\ Led(d)
  <2>1. Framed(d) = Framed(c)
    BY <1>1, <1>15, <1>16 DEF Framed
  <2> QED
    BY <1>1, <1>15, <1>16, <2>1 DEF Led, UdpSound
<1>18. InStep(d, setting.bad)
  <2>1. PICK x, y, z, w \in Nat :
          x = Len(c.lbuffer) /\ y = Len(m) /\ z = Len(data) /\ w = Len(rest)
    BY <1>2, <1>4, <1>12, NothingJoined
  <2>2. 2 * t + Len(rest) = q.seen
    <3>1. z = x + y /\ w = z - k /\ k = 2 * n /\ t = g + n /\ q.seen = 2 * g + x + y
      BY <1>2, <1>4, <1>10, <1>12, <1>15, <2>1
    <3>2. 2 * t + w = q.seen
      <4>1. g \in Nat
        BY <1>2
      <4>2. 2 * (g + n) + ((x + y) - 2 * n) = 2 * g + x + y
        BY <4>1
      <4> QED
        BY ONLY <3>1, <4>2
    <3> QED
      BY <2>1, <3>2
  <2>3. Len(rest) >= 2 => t + 1 \in setting.bad
    <3> SUFFICES ASSUME Len(rest) >= 2 PROVE t + 1 \in setting.bad
      OBVIOUS
    <3>1. z = x + y /\ w = z - k /\ k = 2 * n /\ t = g + n /\ w >= 2
      BY <1>4, <1>10, <1>12, <2>1
    <3>2. 2 * n + 2 <= Len(data) /\ g + n + 1 = t + 1
      BY <2>1, <3>1
    <3> QED
      BY <1>9, <3>2
  <2>4. PICK l : l = c.gave \o s
    OBVIOUS
  <2>5. l = Count(t) /\ Len(l) = t
    BY <1>13, <2>4
  <2> QED
    BY <1>12, <1>14, <1>15, <1>16, <2>2, <2>3, <2>4, <2>5 DEF InStep
<1>19. UdpSound(d, setting.bad)
  BY <1>15, <1>16, <1>17, <1>18 DEF UdpSound
<1>20. Keeps(d, e)
  <2>1. \/ e = udp_close_remote(d) \/ e = [d EXCEPT !.remote = ReadBlocks(q)]
    BY <1>1, <1>16 DEF UdpRead
  <2>2. Moved(q, ReadBlocks(q))
    BY <1>15, HandshakeEnds
  <2>3. CASE e = udp_close_remote(d)
    BY <1>15, <1>16, <2>3, UdpCloses
  <2>4. CASE e = [d EXCEPT !.remote = ReadBlocks(q)]
    <3>1. PICK r : r = ReadBlocks(q)
      OBVIOUS
    <3>2. e = [d EXCEPT !.remote = r] /\ Moved(d.remote, r)
      BY <1>16, <2>2, <2>4, <3>1
    <3> QED
      BY <1>16, <3>2, KeepsMoved
  <2> QED
    BY <2>1, <2>3, <2>4
<1>21. Holds(d, e, Framed(d), setting.bad)
  BY <1>19, <1>20, KeepsSound, Zenon
<1> QED
  BY <1>16, <1>17, <1>21 DEF Holds

-----------------------------------------------------------------------------
(* Datagrams, in the sockets and in the connections *)

To(k, st) == st.datagrams[k].dst
From(k, st) == st.datagrams[k].src

\* f, what the connection of source s has for the server when n datagrams were
\* posted: the request at the beginning, if at all, and datagrams of s, in order
\* as far as they have the same destination.
Line(f, s, st, n) ==
  /\ \A i \in 1 .. Len(f) : f[i] = Request \/ (f[i] \in 1 .. n /\ From(f[i], st) = s)
  /\ \A i, j \in 1 .. Len(f) : i < j =>
       /\ f[j] # Request /\ f[j] # f[i]
       /\ f[i] # Request /\ To(f[i], st) = To(f[j], st) => f[i] < f[j]

\* What waits in the socket for destination d.
Waiting(rx, d, st, n) ==
  /\ rx \in Chunks
  /\ \A i \in 1 .. Len(rx) : rx[i] \in 1 .. n /\ To(rx[i], st) = d
  /\ \A i, j \in 1 .. Len(rx) : i < j => rx[i] < rx[j]

\* Nothing of f was sent to d behind something that still waits there.
Precedes(f, rx, d, st) ==
  \A i \in 1 .. Len(f) : f[i] # Request /\ To(f[i], st) = d =>
    \A j \in 1 .. Len(rx) : f[i] < rx[j]

\* The first datagram of the socket is handled.
LEMMA SocketMoves ==
  ASSUME NEW rx, NEW d, NEW st, NEW n \in Nat, Waiting(rx, d, st, n), rx # <<>>
  PROVE  /\ Waiting(Tail(rx), d, st, n)
         /\ Head(rx) \in 1 .. n /\ To(Head(rx), st) = d
         /\ \A i \in 1 .. Len(Tail(rx)) : Head(rx) < Tail(rx)[i]
         /\ \A f : Precedes(f, rx, d, st) => Precedes(f, Tail(rx), d, st)
<1>1. /\ rx \in Chunks /\ \A i \in 1 .. Len(rx) : rx[i] \in 1 .. n /\ To(rx[i], st) = d
      /\ \A i, j \in 1 .. Len(rx) : i < j => rx[i] < rx[j]
  BY DEF Waiting
<1>2. PICK t, L : t = Tail(rx) /\ L = Len(t)
  OBVIOUS
<1>3. /\ t \in Chunks /\ L \in Nat /\ Len(rx) = L + 1 /\ Head(rx) = rx[1]
      /\ \A i \in 1 .. L : t[i] = rx[i + 1]
  <2>1. Len(rx) \in Nat \ {0}
    BY <1>1, NothingJoined
  <2>2. /\ Tail(rx) \in Seq(Nat) /\ Len(Tail(rx)) = Len(rx) - 1
        /\ \A i \in 1 .. Len(Tail(rx)) : Tail(rx)[i] = rx[i + 1]
    BY <1>1, HeadTailProperties DEF Chunks
  <2>3. Head(rx) = rx[1]
    BY <1>1 DEF Chunks
  <2> QED
    BY <1>2, <2>1, <2>2, <2>3 DEF Chunks
<1>4. \A i \in 1 .. L : i + 1 \in 1 .. Len(rx) /\ 1 < i + 1 /\ 1 \in 1 .. Len(rx)
  BY <1>3
<1>5. Waiting(t, d, st, n)
  <2>1. \A i \in 1 .. L : t[i] \in 1 .. n /\ To(t[i], st) = d
    BY <1>1, <1>3, <1>4
  <2>2. \A i, j \in 1 .. L : i < j => t[i] < t[j]
    <3> SUFFICES ASSUME NEW i \in 1 .. L, NEW j \in 1 .. L, i < j PROVE t[i] < t[j]
      OBVIOUS
    <3>1. i + 1 < j + 1
      OBVIOUS
    <3>2. rx[i + 1] < rx[j + 1]
      BY <1>1, <1>4, <3>1
    <3> QED
      BY <1>3, <3>2
  <2> QED
    BY <1>2, <1>3, <2>1, <2>2 DEF Waiting
<1>6. Head(rx) \in 1 .. n /\ To(Head(rx), st) = d
  <2>1. 1 \in 1 .. Len(rx)
    BY <1>3
  <2> QED
    BY <1>1, <1>3, <2>1
<1>7. \A i \in 1 .. L : Head(rx) < t[i]
  BY <1>1, <1>3, <1>4
<1>8. ASSUME NEW f, Precedes(f, rx, d, st) PROVE Precedes(f, t, d, st)
  BY <1>2, <1>3, <1>4, <1>8 DEF Precedes
<1> QED
  BY <1>2, <1>5, <1>6, <1>7, <1>8

\* A connection takes the first datagram of a socket.
LEMMA LineGrows ==
  ASSUME NEW f \in Chunks, NEW s, NEW st, NEW n \in Nat, Line(f, s, st, n),
         NEW rx, NEW d, Waiting(rx, d, st, n), rx # <<>>, Precedes(f, rx, d, st),
         NEW k, k = Head(rx), From(k, st) = s
  PROVE  /\ Line(Append(f, k), s, st, n)
         /\ Precedes(Append(f, k), Tail(rx), d, st)
<1>1. /\ k \in 1 .. n /\ To(k, st) = d /\ \A i \in 1 .. Len(Tail(rx)) : k < Tail(rx)[i]
      /\ Precedes(f, Tail(rx), d, st)
  BY SocketMoves
<1>2. PICK g, L : g = Append(f, k) /\ L = Len(f)
  OBVIOUS
<1>3. k \in Nat /\ k # Request /\ L \in Nat
  BY <1>1, <1>2, NothingJoined DEF Request
<1>4. Len(g) = L + 1 /\ g[L + 1] = k /\ \A i \in 1 .. L : g[i] = f[i]
  BY <1>2, <1>3, OneMore
<1>5. \A i \in 1 .. L : f[i] # Request /\ To(f[i], st) = d => f[i] < k
  <2>1. 1 \in 1 .. Len(rx) /\ rx[1] = k
    <3>1. rx \in Chunks
      BY DEF Waiting
    <3> QED
      BY <3>1, NothingJoined DEF Chunks
  <2> QED
    BY <1>2, <2>1 DEF Precedes
<1>6. \A i \in 1 .. L + 1 : i \in 1 .. L \/ i = L + 1
  BY <1>3
<1>7. \A i \in 1 .. L + 1 : g[i] = Request \/ (g[i] \in 1 .. n /\ From(g[i], st) = s)
  <2> SUFFICES ASSUME NEW i \in 1 .. L + 1
               PROVE  g[i] = Request \/ (g[i] \in 1 .. n /\ From(g[i], st) = s)
    OBVIOUS
  <2>1. CASE i \in 1 .. L
    BY <1>2, <1>4, <2>1 DEF Line
  <2>2. CASE i = L + 1
    BY <1>1, <1>4, <2>2
  <2> QED
    BY <1>6, <2>1, <2>2
<1>8. ASSUME NEW i \in 1 .. L + 1, NEW j \in 1 .. L + 1, i < j
      PROVE  /\ g[j] # Request /\ g[j] # g[i]
             /\ g[i] # Request /\ To(g[i], st) = To(g[j], st) => g[i] < g[j]
  <2>1. i \in 1 .. L
    BY <1>3, <1>8
  <2>2. CASE j \in 1 .. L
    BY <1>2, <1>4, <1>8, <2>1, <2>2 DEF Line
  <2>3. CASE j = L + 1
    <3>1. g[j] = k /\ g[i] = f[i]
      BY <1>4, <2>1, <2>3
    <3>2. f[i] # k
      <4> SUFFICES ASSUME f[i] = k PROVE FALSE
        OBVIOUS
      <4>1. f[i] < k
        BY <1>1, <1>3, <1>5, <2>1
      <4> QED
        BY <1>3, <4>1
    <3>3. f[i] # Request /\ To(f[i], st) = d => f[i] < k
      BY <1>5, <2>1
    <3> QED
      BY <1>1, <1>3, <3>1, <3>2, <3>3
  <2> QED
    BY <1>6, <2>2, <2>3
<1>9. Line(g, s, st, n)
  BY <1>4, <1>7, <1>8 DEF Line
<1>10. Precedes(g, Tail(rx), d, st)
  <2> SUFFICES ASSUME NEW i \in 1 .. L + 1, g[i] # Request, To(g[i], st) = d,
                      NEW j \in 1 .. Len(Tail(rx))
               PROVE  g[i] < Tail(rx)[j]
    BY <1>4 DEF Precedes
  <2>1. CASE i \in 1 .. L
    BY <1>1, <1>2, <1>4, <2>1 DEF Precedes
  <2>2. CASE i = L + 1
    BY <1>1, <1>4, <2>2
  <2> QED
    BY <1>6, <2>1, <2>2
<1> QED
  BY <1>2, <1>9, <1>10

\* Other sockets are not concerned.
LEMMA OthersPreceded ==
  ASSUME NEW f \in Chunks, NEW k \in Nat, NEW rx, NEW d, NEW st, Precedes(f, rx, d, st), To(k, st) # d
  PROVE  Precedes(Append(f, k), rx, d, st)
<1>1. PICK g, L : g = Append(f, k) /\ L = Len(f)
  OBVIOUS
<1>2. L \in Nat /\ Len(g) = L + 1 /\ g[L + 1] = k /\ \A i \in 1 .. L : g[i] = f[i]
  BY <1>1, OneMore, NothingJoined
<1> SUFFICES ASSUME NEW i \in 1 .. L + 1, g[i] # Request, To(g[i], st) = d, NEW j \in 1 .. Len(rx)
             PROVE  g[i] < rx[j]
  BY <1>1, <1>2 DEF Precedes
<1>3. i \in 1 .. L
  BY <1>2
<1> QED
  BY <1>1, <1>2, <1>3 DEF Precedes

\* The request in front of datagrams.
LEMMA RequestLeads ==
  ASSUME NEW f \in Chunks, NEW s, NEW st, NEW n \in Nat, Line(f, s, st, n),
         \A i \in 1 .. Len(f) : f[i] # Request
  PROVE  /\ Line(<<Request>> \o f, s, st, n)
         /\ \A rx, d : Precedes(f, rx, d, st) => Precedes(<<Request>> \o f, rx, d, st)
<1>1. PICK g, L : g = <<Request>> \o f /\ L = Len(f)
  OBVIOUS
<1>2. /\ Len(g) = L + 1 /\ L \in Nat /\ g[1] = Request
      /\ \A i \in 2 .. L + 1 : i - 1 \in 1 .. L /\ g[i] = f[i - 1]
  <2>1. PICK r \in Chunks : r = <<Request>> /\ Len(r) = 1 /\ r[1] = Request
    BY OneChunk DEF Request
  <2>2. /\ Len(r \o f) = Len(r) + Len(f) /\ L \in Nat
        /\ \A i \in 1 .. Len(r) + Len(f) : (r \o f)[i] = IF i <= Len(r) THEN r[i] ELSE f[i - Len(r)]
    BY <1>1, ConcatProperties, LenProperties DEF Chunks
  <2> QED
    BY <1>1, <2>1, <2>2
<1>3. \A i \in 1 .. L + 1 : i = 1 \/ i \in 2 .. L + 1
  BY <1>2
<1>4. ASSUME NEW i \in 1 .. L + 1, NEW j \in 1 .. L + 1, i < j
      PROVE  /\ g[j] # Request /\ g[j] # g[i]
             /\ g[i] # Request /\ To(g[i], st) = To(g[j], st) => g[i] < g[j]
  <2>1. j \in 2 .. L + 1
    BY <1>2, <1>4
  <2>2. g[j] = f[j - 1] /\ j - 1 \in 1 .. L /\ g[j] # Request
    BY <1>1, <1>2, <2>1
  <2>3. CASE i = 1
    BY <1>2, <2>2, <2>3
  <2>4. CASE i \in 2 .. L + 1
    <3>1. g[i] = f[i - 1] /\ i - 1 \in 1 .. L /\ i - 1 < j - 1
      BY <1>2, <1>4, <2>4
    <3> QED
      BY <1>1, <2>2, <3>1 DEF Line
  <2> QED
    BY <1>3, <2>3, <2>4
<1>5. \A i \in 1 .. L + 1 : g[i] = Request \/ (g[i] \in 1 .. n /\ From(g[i], st) = s)
  BY <1>1, <1>2, <1>3 DEF Line
<1>6. Line(g, s, st, n)
  BY <1>2, <1>4, <1>5 DEF Line
<1>7. ASSUME NEW rx, NEW d, Precedes(f, rx, d, st) PROVE Precedes(g, rx, d, st)
  <2> SUFFICES ASSUME NEW i \in 1 .. L + 1, g[i] # Request, To(g[i], st) = d, NEW j \in 1 .. Len(rx)
               PROVE  g[i] < rx[j]
    BY <1>2 DEF Precedes
  <2>1. i \in 2 .. L + 1
    BY <1>2, <1>3
  <2> QED
    BY <1>1, <1>2, <1>7, <2>1 DEF Precedes
<1> QED
  BY <1>1, <1>6, <1>7

\* The next datagram is posted.
LEMMA Posts ==
  ASSUME NEW rx, NEW d, NEW st, NEW n \in Nat, Waiting(rx, d, st, n)
  PROVE  /\ Waiting(rx, d, st, n + 1)
         /\ To(n + 1, st) = d => Waiting(Append(rx, n + 1), d, st, n + 1)
         /\ \A f, s : Line(f, s, st, n) => Line(f, s, st, n + 1)
         /\ \A f, s : Line(f, s, st, n) /\ Precedes(f, rx, d, st)
                        => Precedes(f, Append(rx, n + 1), d, st)
<1>1. PICK m, t, L : m = n + 1 /\ m \in Nat /\ t = Append(rx, n + 1) /\ L = Len(rx) /\ L \in Nat
  <2>1. rx \in Chunks
    BY DEF Waiting
  <2>2. n + 1 \in Nat /\ Len(rx) \in Nat
    BY <2>1, NothingJoined
  <2> QED
    BY <2>2, Zenon
<1>2. /\ rx \in Chunks /\ t \in Chunks /\ Len(t) = L + 1 /\ t[L + 1] = m
      /\ \A i \in 1 .. L : t[i] = rx[i]
  <2>1. rx \in Chunks
    BY DEF Waiting
  <2> QED
    BY <1>1, <2>1, OneMore
<1>3. \A x \in 1 .. n : x \in 1 .. m /\ x < m
  BY <1>1
<1>4. Waiting(rx, d, st, m)
  BY <1>3 DEF Waiting
<1>5. \A i \in 1 .. L + 1 : i \in 1 .. L \/ i = L + 1
  BY <1>1
<1>6. ASSUME To(m, st) = d PROVE Waiting(t, d, st, m)
  <2>1. \A i \in 1 .. L + 1 : t[i] \in 1 .. m /\ To(t[i], st) = d
    <3> SUFFICES ASSUME NEW i \in 1 .. L + 1 PROVE t[i] \in 1 .. m /\ To(t[i], st) = d
      OBVIOUS
    <3>1. CASE i \in 1 .. L
      BY <1>1, <1>2, <1>4, <3>1 DEF Waiting
    <3>2. CASE i = L + 1
      <4>1. m \in 1 .. m
        BY <1>1
      <4> QED
        BY <1>2, <1>6, <3>2, <4>1
    <3> QED
      BY <1>5, <3>1, <3>2
  <2>2. ASSUME NEW i \in 1 .. L + 1, NEW j \in 1 .. L + 1, i < j PROVE t[i] < t[j]
    <3>1. i \in 1 .. L
      BY <1>1, <2>2
    <3>2. CASE j \in 1 .. L
      BY <1>1, <1>2, <2>2, <3>1, <3>2 DEF Waiting
    <3>3. CASE j = L + 1
      <4>1. rx[i] \in 1 .. n
        BY <1>1, <3>1 DEF Waiting
      <4> QED
        BY <1>2, <1>3, <3>1, <3>3, <4>1
    <3> QED
      BY <1>5, <3>2, <3>3
  <2> QED
    BY <1>2, <2>1, <2>2 DEF Waiting
<1>7. ASSUME NEW f, NEW s, Line(f, s, st, n) PROVE Line(f, s, st, m)
  BY <1>3, <1>7 DEF Line
<1>8. ASSUME NEW f, NEW s, Line(f, s, st, n), Precedes(f, rx, d, st) PROVE Precedes(f, t, d, st)
  <2> SUFFICES ASSUME NEW i \in 1 .. Len(f), f[i] # Request, To(f[i], st) = d, NEW j \in 1 .. L + 1
               PROVE  f[i] < t[j]
    BY <1>2 DEF Precedes
  <2>1. CASE j \in 1 .. L
    BY <1>1, <1>2, <1>8, <2>1 DEF Precedes
  <2>2. CASE j = L + 1
    <3>1. f[i] \in 1 .. n
      BY <1>8 DEF Line
    <3> QED
      BY <1>2, <1>3, <2>2, <3>1
  <2> QED
    BY <1>5, <2>1, <2>2
<1> QED
  BY <1>1, <1>4, <1>6, <1>7, <1>8

-----------------------------------------------------------------------------
(* The UDP server, with connections us, handles hs, sockets uk, in the world  *)
(* st after n datagrams were posted                                           *)

Users(us, d) == {s \in DOMAIN us : us[s].local = d}

\* A handle counts its connections, and every connection has one.
HandlesKept(us, hs, uk) ==
  /\ IsFiniteSet(DOMAIN us) /\ DOMAIN us \subseteq Sources
  /\ DOMAIN uk \subseteq Dests /\ DOMAIN hs \subseteq DOMAIN uk
  /\ \A d \in DOMAIN hs : hs[d] \in [idle : Nat, refs : Nat] /\ hs[d].refs = Cardinality(Users(us, d))
  /\ \A s \in DOMAIN us : us[s].local \in DOMAIN hs

SockSound(k, d, st, n) == DOMAIN k = {"rx", "tx", "wakers"} /\ Waiting(k.rx, d, st, n)

\* f may be what the connection of s has for the server.
Ready(f, s, uk, st, n) ==
  /\ Line(f, s, st, n)
  /\ \A d \in DOMAIN uk : Precedes(f, uk[d].rx, d, st)

UdpState(us, hs, uk, st, n) ==
  /\ HandlesKept(us, hs, uk)
  /\ \A d \in DOMAIN uk : SockSound(uk[d], d, st, n)
  /\ \A s \in DOMAIN us : UdpSound(us[s], st.bad) /\ Ready(Framed(us[s]), s, uk, st, n)

\* Connections change, and none comes or goes.
LEMMA SameUsers ==
  ASSUME NEW us, NEW hs, NEW uk, NEW st, NEW n, UdpState(us, hs, uk, st, n),
         NEW vs, DOMAIN vs = DOMAIN us,
         \A s \in DOMAIN us : /\ vs[s].local = us[s].local /\ UdpSound(vs[s], st.bad)
                              /\ Ready(Framed(vs[s]), s, uk, st, n)
  PROVE  UdpState(vs, hs, uk, st, n)
<1>1. \A d : Users(vs, d) = Users(us, d)
  BY DEF Users
<1>2. HandlesKept(vs, hs, uk)
  BY <1>1 DEF UdpState, HandlesKept
<1> QED
  BY <1>2 DEF UdpState

\* One of them takes a step that does not disturb the order.
LEMMA OneUser ==
  ASSUME NEW us, NEW hs, NEW uk, NEW st, NEW n, UdpState(us, hs, uk, st, n),
         NEW s \in DOMAIN us, NEW f, NEW e, Holds(us[s], e, f, st.bad), Ready(f, s, uk, st, n),
         NEW vs, DOMAIN vs = DOMAIN us, vs[s] = e, \A x \in DOMAIN us \ {s} : vs[x] = us[x]
  PROVE  UdpState(vs, hs, uk, st, n)
<1>1. \A x \in DOMAIN us : /\ vs[x].local = us[x].local /\ UdpSound(vs[x], st.bad)
                           /\ Ready(Framed(vs[x]), x, uk, st, n)
  <2> SUFFICES ASSUME NEW x \in DOMAIN us
               PROVE  /\ vs[x].local = us[x].local /\ UdpSound(vs[x], st.bad)
                      /\ Ready(Framed(vs[x]), x, uk, st, n)
    OBVIOUS
  <2>1. CASE x = s
    BY <2>1 DEF Holds
  <2>2. CASE x # s
    BY <2>2 DEF UdpState
  <2> QED
    BY <2>1, <2>2
<1> QED
  BY <1>1, SameUsers

\* The handle of a socket is noted as used.
LEMMA HandleNoted ==
  ASSUME NEW us, NEW hs, NEW uk, NEW st, NEW n, UdpState(us, hs, uk, st, n),
         NEW d \in DOMAIN uk, NEW r, r = (IF d \in DOMAIN hs THEN hs[d].refs ELSE 0),
         NEW gs, gs = Put(hs, d, [idle |-> 0, refs |-> r])
  PROVE  UdpState(us, gs, uk, st, n) /\ d \in DOMAIN gs /\ gs[d].refs = r /\ r \in Nat
<1>1. DOMAIN gs = DOMAIN hs \cup {d} /\ gs[d] = [idle |-> 0, refs |-> r]
      /\ \A x \in DOMAIN hs \ {d} : gs[x] = hs[x]
  BY DEF Put
<1>2. r \in Nat /\ r = Cardinality(Users(us, d))
  <2>1. CASE d \in DOMAIN hs
    BY <2>1 DEF UdpState, HandlesKept
  <2>2. CASE d \notin DOMAIN hs
    <3>1. Users(us, d) = {}
      BY <2>2 DEF UdpState, HandlesKept, Users
    <3> QED
      BY <2>2, <3>1, FS_EmptySet
  <2> QED
    BY <2>1, <2>2
<1>3. gs[d] \in [idle : Nat, refs : Nat] /\ gs[d].refs = r
  BY <1>1, <1>2
<1>4. HandlesKept(us, gs, uk)
  BY <1>1, <1>2, <1>3 DEF UdpState, HandlesKept
<1> QED
  BY <1>1, <1>2, <1>3, <1>4 DEF UdpState

\* A connection more: its handle counts it.
LEMMA NewUser ==
  ASSUME NEW us, NEW hs, NEW uk, NEW st, NEW n, UdpState(us, hs, uk, st, n),
         NEW d \in DOMAIN hs, NEW s \in Sources, s \notin DOMAIN us,
         NEW c, UdpSound(c, st.bad), c.local = d, Ready(Framed(c), s, uk, st, n),
         NEW vs, vs = Put(us, s, c),
         NEW gs, DOMAIN gs = DOMAIN hs, gs[d] \in [idle : Nat, refs : Nat],
         gs[d].refs = hs[d].refs + 1, \A x \in DOMAIN hs \ {d} : gs[x] = hs[x]
  PROVE  UdpState(vs, gs, uk, st, n)
<1>1. DOMAIN vs = DOMAIN us \cup {s} /\ vs[s] = c /\ \A x \in DOMAIN us : vs[x] = us[x]
  BY DEF Put
<1>2. Users(vs, d) = Users(us, d) \cup {s} /\ s \notin Users(us, d)
      /\ \A x : x # d => Users(vs, x) = Users(us, x)
  BY <1>1 DEF Users
<1>3. IsFiniteSet(DOMAIN us)
  BY DEF UdpState, HandlesKept
<1>4. IsFiniteSet(Users(us, d))
  BY <1>3, FS_Subset DEF Users
<1>5. Cardinality(Users(vs, d)) = Cardinality(Users(us, d)) + 1
  <2>1. PICK U : U = Users(us, d)
    OBVIOUS
  <2>2. Cardinality(U \cup {s}) = Cardinality(U) + 1
    BY ONLY <1>2, <1>4, <2>1, FS_AddElement
  <2> QED
    BY ONLY <1>2, <2>1, <2>2
<1>6. IsFiniteSet(DOMAIN vs)
  BY <1>1, <1>3, FS_AddElement
<1>7. \A x \in DOMAIN gs : gs[x] \in [idle : Nat, refs : Nat] /\ gs[x].refs = Cardinality(Users(vs, x))
  <2> SUFFICES ASSUME NEW x \in DOMAIN hs
               PROVE  gs[x] \in [idle : Nat, refs : Nat] /\ gs[x].refs = Cardinality(Users(vs, x))
    OBVIOUS
  <2>1. CASE x = d
    BY <1>5, <2>1 DEF UdpState, HandlesKept
  <2>2. CASE x # d
    BY <1>2, <2>2 DEF UdpState, HandlesKept
  <2> QED
    BY <2>1, <2>2
<1>8. HandlesKept(vs, gs, uk)
  BY <1>1, <1>6, <1>7 DEF UdpState, HandlesKept
<1>9. \A x \in DOMAIN vs : UdpSound(vs[x], st.bad) /\ Ready(Framed(vs[x]), x, uk, st, n)
  BY <1>1 DEF UdpState
<1> QED
  BY <1>8, <1>9 DEF UdpState

\* The first datagram of socket d is handled: whoever it is from may take it.
LEMMA FirstTaken ==
  ASSUME NEW us, NEW hs, NEW uk, NEW st, NEW n \in Nat, UdpState(us, hs, uk, st, n),
         NEW d \in DOMAIN uk, uk[d].rx # <<>>, NEW k, k = Head(uk[d].rx),
         NEW vk, DOMAIN vk = DOMAIN uk, DOMAIN vk[d] = {"rx", "tx", "wakers"},
         vk[d].rx = Tail(uk[d].rx), \A x \in DOMAIN uk \ {d} : vk[x] = uk[x]
  PROVE  /\ UdpState(us, hs, vk, st, n)
         /\ k \in 1 .. n /\ To(k, st) = d
         /\ \A f, s : Ready(f, s, uk, st, n) => Ready(f, s, vk, st, n)
         /\ \A f \in Chunks : Ready(f, From(k, st), uk, st, n)
                                => Ready(Append(f, k), From(k, st), vk, st, n)
<1>1. PICK rx : rx = uk[d].rx
  OBVIOUS
<1>2. Waiting(rx, d, st, n) /\ rx # <<>> /\ k = Head(rx)
  BY <1>1 DEF UdpState, SockSound
<1>3. /\ Waiting(Tail(rx), d, st, n) /\ k \in 1 .. n /\ To(k, st) = d
      /\ \A f : Precedes(f, rx, d, st) => Precedes(f, Tail(rx), d, st)
  BY ONLY n \in Nat, <1>2, SocketMoves
<1>4. ASSUME NEW f, NEW s, Ready(f, s, uk, st, n) PROVE Ready(f, s, vk, st, n)
  <2>1. \A x \in DOMAIN vk : Precedes(f, vk[x].rx, x, st)
    <3> SUFFICES ASSUME NEW x \in DOMAIN uk PROVE Precedes(f, vk[x].rx, x, st)
      OBVIOUS
    <3>1. CASE x = d
      BY <1>1, <1>3, <1>4, <3>1 DEF Ready
    <3>2. CASE x # d
      BY <1>4, <3>2 DEF Ready
    <3> QED
      BY <3>1, <3>2
  <2> QED
    BY <1>4, <2>1 DEF Ready
<1>5. ASSUME NEW f \in Chunks, Ready(f, From(k, st), uk, st, n)
      PROVE  Ready(Append(f, k), From(k, st), vk, st, n)
  <2>1. PICK s : s = From(k, st)
    OBVIOUS
  <2>2. Line(f, s, st, n) /\ Precedes(f, rx, d, st)
    BY <1>1, <1>5, <2>1 DEF Ready
  <2>3. Line(Append(f, k), s, st, n) /\ Precedes(Append(f, k), Tail(rx), d, st)
    BY <1>2, <2>1, <2>2, LineGrows
  <2>4. \A x \in DOMAIN vk : Precedes(Append(f, k), vk[x].rx, x, st)
    <3> SUFFICES ASSUME NEW x \in DOMAIN uk PROVE Precedes(Append(f, k), vk[x].rx, x, st)
      OBVIOUS
    <3>1. CASE x = d
      BY <1>1, <2>3, <3>1
    <3>2. CASE x # d
      <4>1. Precedes(f, vk[x].rx, x, st)
        BY <1>5, <3>2 DEF Ready
      <4>2. k \in Nat /\ To(k, st) # x
        BY <1>3, <3>2
      <4> QED
        BY <4>1, <4>2, OthersPreceded
    <3> QED
      BY <3>1, <3>2
  <2> QED
    BY <2>1, <2>3, <2>4 DEF Ready
<1>6. \A x \in DOMAIN vk : SockSound(vk[x], x, st, n)
  <2> SUFFICES ASSUME NEW x \in DOMAIN uk PROVE SockSound(vk[x], x, st, n)
    OBVIOUS
  <2>1. CASE x = d
    BY <1>1, <1>3, <2>1 DEF SockSound
  <2>2. CASE x # d
    BY <2>2 DEF UdpState
  <2> QED
    BY <2>1, <2>2
<1>7. HandlesKept(us, hs, vk)
  BY DEF UdpState, HandlesKept
<1>8. UdpState(us, hs, vk, st, n)
  BY <1>4, <1>6, <1>7 DEF UdpState
<1> QED
  BY <1>3, <1>4, <1>5, <1>8

\* Wakers and the send buffer do not matter.
LEMMA SameWaiting ==
  ASSUME NEW us, NEW hs, NEW uk, NEW st, NEW n, UdpState(us, hs, uk, st, n),
         NEW vk, DOMAIN vk = DOMAIN uk,
         \A d \in DOMAIN uk : DOMAIN vk[d] = {"rx", "tx", "wakers"} /\ vk[d].rx = uk[d].rx
  PROVE  UdpState(us, hs, vk, st, n)
<1>1. HandlesKept(us, hs, vk)
  BY DEF UdpState, HandlesKept
<1>2. \A d \in DOMAIN vk : SockSound(vk[d], d, st, n)
  BY DEF UdpState, SockSound
<1>3. \A s \in DOMAIN us : Ready(Framed(us[s]), s, vk, st, n)
  BY DEF UdpState, Ready
<1> QED
  BY <1>1, <1>2, <1>3 DEF UdpState

\* Connections go, and then handles that nobody uses, with their sockets.
LEMMA UsersGo ==
  ASSUME NEW us, NEW hs, NEW uk, NEW st, NEW n, UdpState(us, hs, uk, st, n),
         NEW gone, gone \subseteq DOMAIN us,
         NEW left, DOMAIN left = DOMAIN hs,
         \A d \in DOMAIN hs :
           left[d] = [hs[d] EXCEPT !.refs = hs[d].refs - Cardinality({s \in gone : us[s].local = d})],
         NEW late, \A d \in late : left[d].refs = 0
  PROVE  UdpState(Without(us, gone), Without(left, late), Without(uk, late), st, n)
<1>1. PICK vs, gs, vk : vs = Without(us, gone) /\ gs = Without(left, late) /\ vk = Without(uk, late)
  OBVIOUS
<1>2. /\ DOMAIN vs = DOMAIN us \ gone /\ \A s \in DOMAIN vs : vs[s] = us[s]
      /\ DOMAIN gs = DOMAIN hs \ late /\ \A d \in DOMAIN gs : gs[d] = left[d]
      /\ DOMAIN vk = DOMAIN uk \ late /\ \A d \in DOMAIN vk : vk[d] = uk[d]
  BY <1>1 DEF Without
<1>3. IsFiniteSet(DOMAIN us) /\ IsFiniteSet(DOMAIN vs)
  <2>1. IsFiniteSet(DOMAIN us)
    BY DEF UdpState, HandlesKept
  <2> QED
    BY <1>2, <2>1, FS_Subset
<1>4. ASSUME NEW d \in DOMAIN hs
      PROVE  left[d] \in [idle : Nat, refs : Nat] /\ left[d].refs = Cardinality(Users(vs, d))
  <2>1. PICK U, G : U = Users(us, d) /\ G = {s \in gone : us[s].local = d}
    OBVIOUS
  <2>2. IsFiniteSet(U)
    BY <1>3, <2>1, FS_Subset DEF Users
  <2>3. Users(vs, d) = U \ G /\ U \cap G = G
    BY <1>2, <2>1 DEF Users
  <2>4. IsFiniteSet(U \ G) /\ Cardinality(U \ G) = Cardinality(U) - Cardinality(G)
    BY <2>2, <2>3, FS_Difference
  <2>5. Cardinality(U \ G) \in Nat
    BY <2>4, FS_CardinalityType
  <2>6. PICK r : r = Cardinality(U \ G)
    OBVIOUS
  <2>7. hs[d] \in [idle : Nat, refs : Nat] /\ hs[d].refs = Cardinality(U)
    BY <2>1 DEF UdpState, HandlesKept
  <2>8. left[d] = [hs[d] EXCEPT !.refs = r] /\ r \in Nat
    BY <2>1, <2>4, <2>5, <2>6, <2>7
  <2> QED
    BY <2>3, <2>6, <2>7, <2>8
<1>5. ASSUME NEW s \in DOMAIN vs PROVE vs[s].local \in DOMAIN gs
  <2>1. PICK d : d = us[s].local
    OBVIOUS
  <2>2. d \in DOMAIN hs /\ s \in Users(vs, d)
    BY <1>2, <2>1 DEF UdpState, HandlesKept, Users
  <2>3. IsFiniteSet(Users(vs, d))
    BY <1>3, FS_Subset DEF Users
  <2>4. Cardinality(Users(vs, d)) # 0
    BY <2>2, <2>3, FS_EmptySet
  <2>5. d \notin late
    BY <1>4, <2>2, <2>4
  <2> QED
    BY <1>2, <2>1, <2>2, <2>5
<1>6. HandlesKept(vs, gs, vk)
  <2>1. \A d \in DOMAIN gs : gs[d] \in [idle : Nat, refs : Nat] /\ gs[d].refs = Cardinality(Users(vs, d))
    BY <1>2, <1>4
  <2>2. DOMAIN vs \subseteq Sources /\ DOMAIN vk \subseteq Dests /\ DOMAIN gs \subseteq DOMAIN vk
    BY <1>2 DEF UdpState, HandlesKept
  <2> QED
    BY <1>3, <1>5, <2>1, <2>2 DEF HandlesKept
<1>7. \A d \in DOMAIN vk : SockSound(vk[d], d, st, n)
  BY <1>2 DEF UdpState
<1>8. \A s \in DOMAIN vs : UdpSound(vs[s], st.bad) /\ Ready(Framed(vs[s]), s, vk, st, n)
  BY <1>2 DEF UdpState, Ready
<1> QED
  BY <1>1, <1>6, <1>7, <1>8 DEF UdpState

\* A datagram is posted and dropped, or it is the last in its socket.
LEMMA OnePosted ==
  ASSUME NEW us, NEW hs, NEW uk, NEW st, NEW n \in Nat, UdpState(us, hs, uk, st, n)
  PROVE  /\ UdpState(us, hs, uk, st, n + 1)
         /\ \A vk, d, old :
              /\ d = To(n + 1, st) /\ d \in Dests
              /\ old = (IF d \in DOMAIN uk THEN uk[d].rx ELSE <<>>)
              /\ DOMAIN vk = DOMAIN uk \cup {d} /\ DOMAIN vk[d] = {"rx", "tx", "wakers"}
              /\ vk[d].rx = Append(old, n + 1) /\ \A x \in DOMAIN uk \ {d} : vk[x] = uk[x]
              => UdpState(us, hs, vk, st, n + 1)
<1>1. PICK m : m = n + 1
  OBVIOUS
<1>2. \A d \in DOMAIN uk : SockSound(uk[d], d, st, m)
  <2> SUFFICES ASSUME NEW d \in DOMAIN uk PROVE SockSound(uk[d], d, st, m)
    OBVIOUS
  <2>1. SockSound(uk[d], d, st, n)
    BY DEF UdpState
  <2> QED
    BY <1>1, <2>1, Posts DEF SockSound
<1>3. Waiting(<<>>, "none", st, n)
  <2>1. <<>> \in Chunks /\ Len(<<>>) = 0
    BY DEF Chunks
  <2> QED
    BY <2>1 DEF Waiting
<1>4. \A f, s : Line(f, s, st, n) => Line(f, s, st, m)
  BY <1>1, <1>3, Posts
<1>5. UdpState(us, hs, uk, st, m)
  <2>1. \A s \in DOMAIN us : Ready(Framed(us[s]), s, uk, st, m)
    BY <1>4 DEF UdpState, Ready
  <2> QED
    BY <1>2, <2>1 DEF UdpState
<1>6. ASSUME NEW vk, NEW d, NEW old, d = To(n + 1, st), d \in Dests,
             old = (IF d \in DOMAIN uk THEN uk[d].rx ELSE <<>>),
             DOMAIN vk = DOMAIN uk \cup {d}, DOMAIN vk[d] = {"rx", "tx", "wakers"},
             vk[d].rx = Append(old, n + 1), \A x \in DOMAIN uk \ {d} : vk[x] = uk[x]
      PROVE  UdpState(us, hs, vk, st, m)
  <2>1. Waiting(old, d, st, n)
    <3>1. CASE d \in DOMAIN uk
      BY <1>6, <3>1 DEF UdpState, SockSound
    <3>2. CASE d \notin DOMAIN uk
      <4>1. <<>> \in Chunks /\ Len(<<>>) = 0 /\ old = <<>>
        BY <1>6, <3>2 DEF Chunks
      <4> QED
        BY <4>1 DEF Waiting
    <3> QED
      BY <3>1, <3>2
  <2>2. \A f, s : Line(f, s, st, n) /\ Precedes(f, old, d, st) => Precedes(f, Append(old, n + 1), d, st)
    BY <2>1, Posts
  <2>3. Waiting(Append(old, n + 1), d, st, m)
    BY <1>1, <1>6, <2>1, Posts
  <2>4. \A x \in DOMAIN vk : SockSound(vk[x], x, st, m)
    <3> SUFFICES ASSUME NEW x \in DOMAIN vk PROVE SockSound(vk[x], x, st, m)
      OBVIOUS
    <3>1. CASE x = d
      BY <1>6, <2>3, <3>1 DEF SockSound
    <3>2. CASE x # d
      BY <1>2, <1>6, <3>2
    <3> QED
      BY <3>1, <3>2
  <2>5. ASSUME NEW s \in DOMAIN us PROVE Ready(Framed(us[s]), s, vk, st, m)
    <3>1. PICK f : f = Framed(us[s])
      OBVIOUS
    <3>2. Line(f, s, st, n) /\ \A x \in DOMAIN uk : Precedes(f, uk[x].rx, x, st)
      BY <3>1 DEF UdpState, Ready
    <3>3. Precedes(f, old, d, st)
      <4>1. CASE d \in DOMAIN uk
        BY <1>6, <3>2, <4>1
      <4>2. CASE d \notin DOMAIN uk
        <5>1. old = <<>> /\ Len(<<>>) = 0
          BY <1>6, <4>2
        <5> QED
          BY <5>1 DEF Precedes
      <4> QED
        BY <4>1, <4>2
    <3>4. \A x \in DOMAIN vk : Precedes(f, vk[x].rx, x, st)
      <4> SUFFICES ASSUME NEW x \in DOMAIN vk PROVE Precedes(f, vk[x].rx, x, st)
        OBVIOUS
      <4>1. CASE x = d
        BY <1>6, <2>2, <3>2, <3>3, <4>1
      <4>2. CASE x # d
        BY <1>6, <3>2, <4>2
      <4> QED
        BY <4>1, <4>2
    <3> QED
      BY <1>4, <3>1, <3>2, <3>4 DEF Ready
  <2>6. HandlesKept(us, hs, vk)
    BY <1>6 DEF UdpState, HandlesKept
  <2> QED
    BY <2>4, <2>5, <2>6 DEF UdpState
<1> QED
  BY <1>1, <1>5, <1>6

-----------------------------------------------------------------------------
(* The steps of the UDP server *)

\* Where the loop is, and whom its UDP events are for: a socket that is there,
\* and at the end of the round a connection that is there.
UdpKeys ==
  /\ setting \in Settings /\ posted \in 0 .. Len(setting.datagrams)
  /\ at \in {"start", "iface", "local", "events"}
  /\ at \in {"start", "iface"} => batch = {}
  /\ \A e \in events : e.of # "tcp" => at = "iface" /\ e.key \in DOMAIN usocks
  /\ \A e \in batch : e.of # "tcp" => /\ at = "local" => e.key \in DOMAIN usocks
                                      /\ at = "events" => e.key \in DOMAIN uconns

\* The inductive invariant of the UDP server.
UdpInv == UdpKeys /\ UdpState(uconns, handles, usocks, setting, posted)

\* The world.
LEMMA World ==
  ASSUME UdpKeys
  PROVE  /\ setting.timer \in Nat /\ posted \in Nat /\ posted <= Len(setting.datagrams)
         /\ Len(setting.datagrams) \in Nat
         /\ \A k \in 1 .. Len(setting.datagrams) :
              /\ From(k, setting) \in Sources /\ To(k, setting) \in Dests
              /\ From(k, setting) = Src(k) /\ To(k, setting) = Dst(k)
<1>1. SettingOK(setting) /\ posted \in 0 .. Len(setting.datagrams)
  BY SettingsAssumption DEF UdpKeys
<1>2. setting.timer \in Nat /\ setting.datagrams \in Seq([src : Sources, dst : Dests])
  BY <1>1 DEF SettingOK
<1>3. PICK D : D = setting.datagrams
  OBVIOUS
<1>4. Len(D) \in Nat /\ \A k \in 1 .. Len(D) : D[k] \in [src : Sources, dst : Dests]
  BY <1>2, <1>3, LenProperties, ElementOfSeq
<1>5. \A k \in 1 .. Len(D) : D[k].src \in Sources /\ D[k].dst \in Dests
  BY <1>4
<1> QED
  BY <1>1, <1>2, <1>3, <1>4, <1>5 DEF From, To, Src, Dst

\* A connection of the pool.
FreshConn(c, d, how, k) == c = [NewUdpConn(d, Pooled(how)) EXCEPT !.opener = k]

LEMMA FreshSound ==
  ASSUME NEW d \in Dests, NEW how, NEW k \in Nat, NEW bad, NEW c, FreshConn(c, d, how, k)
  PROVE  UdpSound(c, bad) /\ Framed(c) = <<>> /\ c.local = d
<1>1. PICK p : p = Pooled(how)
  OBVIOUS
<1>2. RemoteSound(p) /\ Upward(p) = <<>> /\ p.dec = <<>> /\ p.seen = 0 /\ p \in Remotes
  BY <1>1, PooledSound DEF RemoteSound
<1>3. <<>> \in Chunks /\ Len(<<>>) = 0 /\ <<>> \o <<>> = <<>>
  <2>1. <<>> \in Chunks
    BY DEF Chunks
  <2> QED
    BY <2>1, NothingJoined
<1>4. /\ c \in UdpConns /\ c.remote = p /\ c.rbuffer = <<>> /\ c.lbuffer = <<>> /\ c.gave = <<>>
      /\ c.established = FALSE /\ c.local = d
  BY <1>1, <1>2, <1>3 DEF FreshConn, NewUdpConn, UdpConns
<1>5. Framed(c) = <<>>
  BY <1>2, <1>3, <1>4 DEF Framed
<1>6. Led(c)
  BY <1>2, <1>3, <1>4 DEF Led
<1>7. <<>> = Count(0)
  <2>1. Count(0) \in Chunks /\ Len(Count(0)) = 0
    BY Counting
  <2> QED
    BY <2>1, NothingJoined
<1>8. InStep(c, bad)
  <2>1. \A i \in 1 .. 0 : FALSE
    OBVIOUS
  <2>2. 2 * 0 + 0 = 0 /\ ~(0 >= 2)
    OBVIOUS
  <2> QED
    BY <1>2, <1>3, <1>4, <1>7, <2>1, <2>2 DEF InStep
<1> QED
  BY <1>2, <1>4, <1>5, <1>6, <1>8 DEF UdpSound

LEMMA NothingReady ==
  ASSUME NEW s, NEW uk, NEW st, NEW n
  PROVE  Ready(<<>>, s, uk, st, n)
<1>1. Len(<<>>) = 0
  OBVIOUS
<1> QED
  BY <1>1 DEF Ready, Line, Precedes

\* UdpServer::do_local: the datagram is its source's, in order.
LEMMA UdpLocalStep ==
  ASSUME UdpInv, NEW e \in batch, UdpLocal(e)
  PROVE  UdpState(uconns', handles', usocks', setting, posted)
<1>1. PICK d, k, s, st, n, us, uk, hs :
        /\ d = e.key /\ k = Head(usocks[d].rx) /\ s = From(k, setting) /\ st = setting
        /\ n = posted /\ us = uconns /\ uk = usocks /\ hs = handles
  OBVIOUS
<1>2. UdpState(us, hs, uk, st, n) /\ d \in DOMAIN uk /\ uk[d].rx # <<>> /\ n \in Nat
  BY <1>1, World DEF UdpInv, UdpKeys, UdpLocal, Handling
<1>3. DOMAIN uk[d] = {"rx", "tx", "wakers"}
  BY <1>2 DEF UdpState, SockSound
<1>4. PICK vk : vk = usocks'
  OBVIOUS
<1>5. /\ DOMAIN vk = DOMAIN uk /\ DOMAIN vk[d] = {"rx", "tx", "wakers"}
      /\ vk[d].rx = Tail(uk[d].rx) /\ \A x \in DOMAIN uk \ {d} : vk[x] = uk[x]
  BY <1>1, <1>2, <1>3, <1>4 DEF UdpLocal
<1>6. /\ UdpState(us, hs, vk, st, n) /\ k \in 1 .. n
      /\ \A f, t : Ready(f, t, uk, st, n) => Ready(f, t, vk, st, n)
      /\ \A f \in Chunks : Ready(f, s, uk, st, n) => Ready(Append(f, k), s, vk, st, n)
  BY <1>1, <1>2, <1>5, FirstTaken
<1>7. k \in Nat /\ k # Request /\ s \in Sources /\ Src(k) = s
  <2>1. k \in 1 .. Len(setting.datagrams)
    BY <1>1, <1>6, World DEF UdpInv
  <2> QED
    BY <1>1, <2>1, World DEF UdpInv, Request
<1>8. PICK new, old, c, r :
        /\ new = (s \notin DOMAIN us)
        /\ old = (IF new THEN [NewUdpConn(d, Pooled(st.pooled)) EXCEPT !.opener = k] ELSE us[s])
        /\ c = udp_do_local(old, k)
        /\ r = (IF d \in DOMAIN hs THEN hs[d].refs ELSE 0)
  OBVIOUS
<1>9. /\ handles' = Put(hs, d, [idle |-> 0, refs |-> IF new THEN r + 1 ELSE r])
      /\ uconns' = Put(us, s, c)
  BY <1>1, <1>7, <1>8 DEF UdpLocal
<1>10. UdpSound(old, st.bad) /\ Ready(Framed(old), s, uk, st, n) /\ (new => old.local = d)
  <2>1. CASE new
    <3>1. d \in Dests
      BY <1>2 DEF UdpState, HandlesKept
    <3>2. FreshConn(old, d, st.pooled, k)
      BY <1>8, <2>1 DEF FreshConn
    <3>3. UdpSound(old, st.bad) /\ Framed(old) = <<>> /\ old.local = d
      BY ONLY <1>7, <3>1, <3>2, FreshSound, Zenon
    <3>4. Ready(<<>>, s, uk, st, n)
      BY NothingReady
    <3> QED
      BY <3>3, <3>4
  <2>2. CASE ~new
    BY <1>2, <1>8, <2>2 DEF UdpState
  <2> QED
    BY <1>8, <2>1, <2>2
<1>11. PICK f : Holds(old, c, f, st.bad) /\ Ready(f, s, vk, st, n)
  <2>1. \/ Holds(old, c, Framed(old), st.bad) \/ Holds(old, c, Append(Framed(old), k), st.bad)
    BY <1>7, <1>8, <1>10, UdpTakes
  <2>2. Framed(old) \in Chunks
    BY <1>10, UdpParts DEF UdpSound
  <2>3. Ready(Framed(old), s, vk, st, n) /\ Ready(Append(Framed(old), k), s, vk, st, n)
    BY <1>6, <1>10, <2>2
  <2> QED
    BY <2>1, <2>3
<1>12. UdpSound(c, st.bad) /\ c.local = old.local /\ Ready(Framed(c), s, vk, st, n)
  BY <1>11 DEF Holds
<1>13. PICK gs : gs = Put(hs, d, [idle |-> 0, refs |-> r])
  OBVIOUS
<1>14. UdpState(us, gs, vk, st, n) /\ d \in DOMAIN gs /\ gs[d].refs = r /\ r \in Nat
  BY <1>2, <1>5, <1>6, <1>8, <1>13, HandleNoted
<1>15. CASE new
  <2>1. handles' = Put(hs, d, [idle |-> 0, refs |-> r + 1])
    BY <1>9, <1>15
  <2>2. /\ DOMAIN handles' = DOMAIN gs /\ handles'[d] = [idle |-> 0, refs |-> r + 1]
        /\ \A x \in DOMAIN gs \ {d} : handles'[x] = gs[x]
    BY <1>13, <2>1 DEF Put
  <2>3. handles'[d] \in [idle : Nat, refs : Nat] /\ handles'[d].refs = gs[d].refs + 1
    BY <1>14, <2>2
  <2>4. s \notin DOMAIN us /\ c.local = d
    BY <1>8, <1>10, <1>12, <1>15
  <2>5. UdpState(uconns', handles', vk, st, n)
    BY ONLY <1>7, <1>9, <1>12, <1>14, <2>2, <2>3, <2>4, NewUser
  <2> QED
    BY <1>1, <1>4, <2>5
<1>16. CASE ~new
  <2>1. handles' = gs /\ s \in DOMAIN us /\ old = us[s]
    BY <1>8, <1>9, <1>13, <1>16
  <2>2. DOMAIN uconns' = DOMAIN us /\ uconns'[s] = c /\ \A x \in DOMAIN us \ {s} : uconns'[x] = us[x]
    BY <1>9, <2>1 DEF Put
  <2>3. UdpState(uconns', gs, vk, st, n)
    BY ONLY <1>11, <1>14, <2>1, <2>2, OneUser
  <2> QED
    BY <1>1, <1>4, <2>1, <2>3
<1> QED
  BY <1>8, <1>15, <1>16

\* The end of the loop over the datagrams of a socket.
LEMMA UdpDrainedStep ==
  ASSUME UdpInv, NEW e \in batch, UdpDrained(e)
  PROVE  UdpState(uconns', handles', usocks', setting, posted)
<1>1. PICK d, st, n, us, uk, hs :
        d = e.key /\ st = setting /\ n = posted /\ us = uconns /\ uk = usocks /\ hs = handles
  OBVIOUS
<1>2. UdpState(us, hs, uk, st, n) /\ d \in DOMAIN uk
  BY <1>1 DEF UdpInv, UdpKeys, UdpDrained, Handling
<1>3. \A x \in DOMAIN uk : DOMAIN uk[x] = {"rx", "tx", "wakers"}
  BY <1>2 DEF UdpState, SockSound
<1>4. PICK vk : vk = usocks'
  OBVIOUS
<1>5. /\ DOMAIN vk = DOMAIN uk
      /\ \A x \in DOMAIN uk : DOMAIN vk[x] = {"rx", "tx", "wakers"} /\ vk[x].rx = uk[x].rx
  BY <1>1, <1>2, <1>3, <1>4 DEF UdpDrained, Used
<1>6. UdpState(us, hs, vk, st, n)
  BY <1>2, <1>5, SameWaiting
<1>7. PICK r : r = (IF d \in DOMAIN hs THEN hs[d].refs ELSE 0)
  OBVIOUS
<1>8. handles' = Put(hs, d, [idle |-> 0, refs |-> r]) /\ uconns' = us
  BY <1>1, <1>7 DEF UdpDrained, Used
<1>9. UdpState(us, handles', vk, st, n)
  BY <1>2, <1>5, <1>6, <1>7, <1>8, HandleNoted
<1> QED
  BY <1>1, <1>4, <1>8, <1>9

\* What the connection of s has for the server, and the request in front of it.
LEMMA RequestReady ==
  ASSUME NEW c, NEW bad, UdpSound(c, bad), ~c.established, NEW s, NEW uk, NEW st, NEW n \in Nat,
         Ready(Framed(c), s, uk, st, n)
  PROVE  Ready(<<Request>> \o Framed(c), s, uk, st, n)
<1>1. PICK f \in Chunks : f = Framed(c)
  BY UdpParts DEF UdpSound
<1>2. \A i \in 1 .. Len(f) : f[i] # Request
  <2>1. Upward(c.remote) = <<>> /\ \A i \in 1 .. Len(c.rbuffer) : c.rbuffer[i] # Request
    BY DEF UdpSound, Led
  <2>2. f = c.rbuffer
    BY <1>1, <2>1, UdpParts, NothingJoined DEF UdpSound, Framed
  <2> QED
    BY <2>1, <2>2
<1>3. Line(f, s, st, n) /\ \A d \in DOMAIN uk : Precedes(f, uk[d].rx, d, st)
  BY <1>1 DEF Ready
<1>4. /\ Line(<<Request>> \o f, s, st, n)
      /\ \A rx, d : Precedes(f, rx, d, st) => Precedes(<<Request>> \o f, rx, d, st)
  BY <1>2, <1>3, RequestLeads
<1> QED
  BY <1>1, <1>3, <1>4 DEF Ready

\* Connection::do_remote.
LEMMA UdpHandles ==
  ASSUME NEW o, UdpSound(o, setting.bad), NEW kinds, NEW s, NEW uk, NEW st, NEW n \in Nat, st = setting,
         Ready(Framed(o), s, uk, st, n),
         NEW a, a = [o EXCEPT !.idle = 0],
         NEW b, b = (IF "w" \in kinds THEN UdpWritable(a) ELSE a),
         NEW c, c = (IF "r" \in kinds THEN UdpRead(b) ELSE b)
  PROVE  /\ UdpSound(b, setting.bad) /\ b.local = o.local
         /\ \E f : Holds(o, c, f, setting.bad) /\ Ready(f, s, uk, st, n)
<1>1. UdpSound(a, setting.bad) /\ Framed(a) = Framed(o) /\ a.local = o.local
  <2>1. Keeps(o, a)
    <3>1. o \in UdpConns /\ RemoteSound(o.remote)
      BY DEF UdpSound
    <3>2. /\ a \in UdpConns /\ a.remote = o.remote /\ a.local = o.local
          /\ a.established = o.established /\ a.rbuffer = o.rbuffer /\ a.lbuffer = o.lbuffer
          /\ a.gave = o.gave
      BY <3>1 DEF UdpConns
    <3> QED
      BY <3>1, <3>2 DEF Keeps
  <2> QED
    BY <2>1, KeepsSound DEF Holds
<1>2. UdpSound(b, setting.bad) /\ b.local = o.local /\ Ready(Framed(b), s, uk, st, n)
  <2>1. CASE "w" \in kinds
    <3>1. \/ Holds(a, b, Framed(a), setting.bad)
          \/ ~a.established /\ Holds(a, b, <<Request>> \o Framed(a), setting.bad)
      BY <1>1, <2>1, UdpWrites
    <3>2. ~a.established => Ready(<<Request>> \o Framed(a), s, uk, st, n)
      BY <1>1, RequestReady
    <3> QED
      BY <1>1, <3>1, <3>2 DEF Holds
  <2>2. CASE "w" \notin kinds
    BY <1>1, <2>2
  <2> QED
    BY <2>1, <2>2
<1>3. Holds(o, c, Framed(b), setting.bad)
  <2>1. CASE "r" \in kinds
    <3>1. Holds(b, c, Framed(b), setting.bad)
      BY <1>2, <2>1, UdpReads
    <3> QED
      BY <1>2, <3>1 DEF Holds
  <2>2. CASE "r" \notin kinds
    BY <1>2, <2>2 DEF Holds
  <2> QED
    BY <2>1, <2>2
<1> QED
  BY <1>2, <1>3

LEMMA UdpRemoteStep ==
  ASSUME UdpInv, NEW e \in batch, UdpRemote(e)
  PROVE  UdpState(uconns', handles', usocks', setting, posted)
<1>1. PICK s, st, n, us, uk, hs :
        s = e.key /\ st = setting /\ n = posted /\ us = uconns /\ uk = usocks /\ hs = handles
  OBVIOUS
<1>2. UdpState(us, hs, uk, st, n) /\ s \in DOMAIN us /\ n \in Nat
  BY <1>1, World DEF UdpInv, UdpKeys, UdpRemote, Handling
<1>3. PICK o, a, b, c :
        /\ o = us[s] /\ a = [o EXCEPT !.idle = 0]
        /\ b = (IF "w" \in e.kinds THEN UdpWritable(a) ELSE a)
        /\ c = (IF "r" \in e.kinds THEN UdpRead(b) ELSE b)
  OBVIOUS
<1>4. UdpSound(o, st.bad) /\ Ready(Framed(o), s, uk, st, n)
  BY <1>2, <1>3 DEF UdpState
<1>5. /\ UdpSound(b, st.bad) /\ b.local = o.local
      /\ \E f : Holds(o, c, f, st.bad) /\ Ready(f, s, uk, st, n)
  BY <1>1, <1>2, <1>3, <1>4, UdpHandles
<1>6. uconns' = [us EXCEPT ![s] = c] /\ handles' = hs
  BY <1>1, <1>3 DEF UdpRemote
<1>7. UdpState(uconns', hs, uk, st, n)
  <2>1. PICK f : Holds(us[s], c, f, st.bad) /\ Ready(f, s, uk, st, n)
    BY <1>3, <1>5
  <2>2. DOMAIN uconns' = DOMAIN us /\ uconns'[s] = c /\ \A x \in DOMAIN us \ {s} : uconns'[x] = us[x]
    BY <1>2, <1>6
  <2> QED
    BY ONLY <1>2, <2>1, <2>2, OneUser
<1>8. usocks' = uk \/ \E x : usocks' = [uk EXCEPT ![b.local].tx = x]
  BY <1>1, <1>3 DEF UdpRemote
<1>9. \A x \in DOMAIN uk : DOMAIN uk[x] = {"rx", "tx", "wakers"}
  BY <1>2 DEF UdpState, SockSound
<1>10. PICK vk : vk = usocks'
  OBVIOUS
<1>11. /\ DOMAIN vk = DOMAIN uk
       /\ \A x \in DOMAIN uk : DOMAIN vk[x] = {"rx", "tx", "wakers"} /\ vk[x].rx = uk[x].rx
  BY <1>8, <1>9, <1>10
<1>12. UdpState(uconns', hs, vk, st, n)
  BY <1>7, <1>11, SameWaiting
<1> QED
  BY <1>1, <1>6, <1>10, <1>12

\* remove_closed and check_timeout.
LEMMA UdpRemovedStep ==
  ASSUME UdpInv, NEW timeout, UdpRemoved(timeout)
  PROVE  UdpState(uconns', handles', usocks', setting, posted)
<1>1. PICK st, n, us, uk, hs :
        st = setting /\ n = posted /\ us = uconns /\ uk = usocks /\ hs = handles
  OBVIOUS
<1>2. UdpState(us, hs, uk, st, n)
  BY <1>1 DEF UdpInv
<1>3. PICK gone, left, late :
        /\ gone = uremoved \cap DOMAIN us
        /\ left = [d \in DOMAIN hs |->
                     [hs[d] EXCEPT !.refs = hs[d].refs - Cardinality({s \in gone : us[s].local = d})]]
        /\ late = {d \in DOMAIN left : timeout /\ Unused(left[d])}
  OBVIOUS
<1>4. uconns' = Without(us, gone) /\ handles' = Without(left, late) /\ usocks' = Without(uk, late)
  BY <1>1, <1>3 DEF UdpRemoved
<1>5. /\ gone \subseteq DOMAIN us /\ DOMAIN left = DOMAIN hs
      /\ \A d \in DOMAIN hs :
           left[d] = [hs[d] EXCEPT !.refs = hs[d].refs - Cardinality({s \in gone : us[s].local = d})]
  BY <1>3
<1>6. \A d \in late : left[d].refs = 0
  BY <1>3 DEF Unused
<1>7. UdpState(Without(us, gone), Without(left, late), Without(uk, late), st, n)
  BY ONLY <1>2, <1>5, <1>6, UsersGo
<1> QED
  BY <1>1, <1>4, <1>7

\* A connection keeps everything in these steps: what poll reports, time, the
\* network and the server.
LEMMA AllKeep ==
  ASSUME NEW us, NEW hs, NEW uk, NEW st, NEW n, UdpState(us, hs, uk, st, n),
         NEW vs, DOMAIN vs = DOMAIN us, \A s \in DOMAIN us : Keeps(us[s], vs[s])
  PROVE  UdpState(vs, hs, uk, st, n)
<1>1. ASSUME NEW s \in DOMAIN us
      PROVE  /\ vs[s].local = us[s].local /\ UdpSound(vs[s], st.bad)
             /\ Ready(Framed(vs[s]), s, uk, st, n)
  <2>1. UdpSound(us[s], st.bad) /\ Ready(Framed(us[s]), s, uk, st, n)
    BY DEF UdpState
  <2>2. Holds(us[s], vs[s], Framed(us[s]), st.bad)
    BY <2>1, KeepsSound
  <2> QED
    BY <2>1, <2>2 DEF Holds
<1> QED
  BY <1>1, SameUsers

LEMMA KeepsSelf ==
  ASSUME NEW us, NEW hs, NEW uk, NEW st, NEW n, UdpState(us, hs, uk, st, n), NEW s \in DOMAIN us
  PROVE  us[s] \in UdpConns /\ RemoteSound(us[s].remote) /\ Keeps(us[s], us[s])
<1>1. us[s] \in UdpConns /\ RemoteSound(us[s].remote)
  BY DEF UdpState, UdpSound
<1> QED
  BY <1>1 DEF Keeps

LEMMA UdpPollStep ==
  ASSUME UdpInv, Poll
  PROVE  UdpState(uconns', handles', usocks', setting, posted)
<1>1. PICK st, n, us, uk, hs :
        st = setting /\ n = posted /\ us = uconns /\ uk = usocks /\ hs = handles
  OBVIOUS
<1>2. UdpState(us, hs, uk, st, n)
  BY <1>1 DEF UdpInv
<1>3. /\ uconns' = [s \in DOMAIN us |-> [us[s] EXCEPT !.remote = Reported(us[s].remote)]]
      /\ handles' = hs /\ usocks' = uk
  BY <1>1 DEF Poll
<1>4. ASSUME NEW s \in DOMAIN us PROVE Keeps(us[s], uconns'[s])
  <2>1. PICK c, q : c = us[s] /\ q = Reported(c.remote)
    OBVIOUS
  <2>2. c \in UdpConns /\ RemoteSound(c.remote)
    BY <1>2, <2>1, KeepsSelf
  <2>3. Moved(c.remote, q)
    BY <2>1, <2>2, Blocks
  <2>4. uconns'[s] = [c EXCEPT !.remote = q]
    BY <1>3, <2>1
  <2> QED
    BY <2>1, <2>2, <2>3, <2>4, KeepsMoved
<1>5. DOMAIN uconns' = DOMAIN us
  BY <1>3
<1> QED
  BY <1>1, <1>2, <1>3, <1>4, <1>5, AllKeep

LEMMA UdpWaitStep ==
  ASSUME UdpInv, UdpWait(setting.timer)
  PROVE  UdpState(uconns', handles', usocks, setting, posted)
<1>1. PICK st, n, us, uk, hs, t :
        /\ st = setting /\ n = posted /\ us = uconns /\ uk = usocks /\ hs = handles
        /\ t = setting.timer
  OBVIOUS
<1>2. UdpState(us, hs, uk, st, n) /\ t \in Nat
  BY <1>1, World DEF UdpInv
<1>3. /\ uconns' = [s \in DOMAIN us |-> [us[s] EXCEPT !.idle = Least(us[s].idle + 1, t)]]
      /\ handles' = [d \in DOMAIN hs |-> [hs[d] EXCEPT !.idle = Least(hs[d].idle + 1, t)]]
  BY <1>1 DEF UdpWait
<1>4. \A i \in Nat : Least(i + 1, t) \in Nat
  BY <1>2 DEF Least
<1>5. ASSUME NEW s \in DOMAIN us PROVE Keeps(us[s], uconns'[s])
  <2>1. PICK c, i : c = us[s] /\ i = Least(c.idle + 1, t)
    OBVIOUS
  <2>2. c \in UdpConns /\ RemoteSound(c.remote)
    BY <1>2, <2>1, KeepsSelf
  <2>3. i \in Nat
    BY <1>4, <2>1, <2>2 DEF UdpConns
  <2>4. PICK v : v = [c EXCEPT !.idle = i]
    OBVIOUS
  <2>5. uconns'[s] = v
    BY <1>3, <2>1, <2>4
  <2>6. /\ v \in UdpConns /\ v.remote = c.remote /\ v.local = c.local
        /\ v.established = c.established /\ v.rbuffer = c.rbuffer /\ v.lbuffer = c.lbuffer
        /\ v.gave = c.gave
    BY <2>2, <2>3, <2>4 DEF UdpConns
  <2> QED
    BY <2>1, <2>2, <2>5, <2>6 DEF Keeps
<1>6. UdpState(uconns', hs, uk, st, n)
  BY <1>2, <1>3, <1>5, AllKeep
<1>7. DOMAIN handles' = DOMAIN hs /\ \A d \in DOMAIN hs :
        handles'[d] \in [idle : Nat, refs : Nat] /\ handles'[d].refs = hs[d].refs
  <2> SUFFICES ASSUME NEW d \in DOMAIN hs
               PROVE  handles'[d] \in [idle : Nat, refs : Nat] /\ handles'[d].refs = hs[d].refs
    BY <1>3
  <2>1. hs[d] \in [idle : Nat, refs : Nat]
    BY <1>2 DEF UdpState, HandlesKept
  <2>2. PICK i \in Nat : i = Least(hs[d].idle + 1, t)
    BY <1>4, <2>1
  <2>3. handles'[d] = [hs[d] EXCEPT !.idle = i]
    BY <1>3, <2>2
  <2> QED
    BY <2>1, <2>3
<1>8. HandlesKept(uconns', handles', uk)
  BY <1>6, <1>7 DEF UdpState, HandlesKept
<1> QED
  BY <1>1, <1>6, <1>8 DEF UdpState

\* The network and the server behind the connection of s.
LEMMA UdpPeersStep ==
  ASSUME UdpInv, NEW s \in DOMAIN uconns, UdpPeers(s)
  PROVE  UdpState(uconns', handles', usocks', setting, posted) /\ DOMAIN uconns' = DOMAIN uconns
<1>1. PICK st, n, us, uk, hs, p :
        /\ st = setting /\ n = posted /\ us = uconns /\ uk = usocks /\ hs = handles
        /\ p = us[s].remote
  OBVIOUS
<1>2. UdpState(us, hs, uk, st, n) /\ s \in DOMAIN us
  BY <1>1 DEF UdpInv
<1>3. us[s] \in UdpConns /\ RemoteSound(p)
  BY <1>1, <1>2, KeepsSelf
<1>4. PICK q : UdpPeer(s, q) /\ (Moved(p, q) \/ Outside(p, q))
  <2>1. CASE UdpConnect(s)
    BY <1>1, <1>3, <2>1, NetworkMoves DEF UdpConnect
  <2>2. CASE UdpGreet(s)
    BY <1>1, <1>3, <2>2, NetworkMoves DEF UdpGreet, Greets
  <2>3. CASE UdpDeliver(s)
    BY <1>1, <1>3, <2>3, NetworkMoves DEF UdpDeliver, Delivers
  <2>4. CASE UdpServe(s)
    BY <1>1, <1>3, <2>4, ServerSends DEF UdpServe
  <2>5. CASE UdpEnd(s)
    BY <1>1, <1>3, <2>5, ServerEnds DEF UdpEnd
  <2> QED
    BY <2>1, <2>2, <2>3, <2>4, <2>5 DEF UdpPeers
<1>5. /\ uconns' = [us EXCEPT ![s].remote = q] /\ handles' = hs /\ usocks' = uk
  BY <1>1, <1>4 DEF UdpPeer
<1>6. PICK v : v = [us[s] EXCEPT !.remote = q]
  OBVIOUS
<1>7. DOMAIN uconns' = DOMAIN us /\ uconns'[s] = v /\ \A x \in DOMAIN us \ {s} : uconns'[x] = us[x]
  BY <1>2, <1>5, <1>6
<1>8. Keeps(us[s], v)
  BY <1>1, <1>3, <1>4, <1>6, KeepsMoved
<1>9. \A x \in DOMAIN us : Keeps(us[x], uconns'[x])
  BY <1>2, <1>7, <1>8, KeepsSelf
<1>10. UdpState(uconns', hs, uk, st, n)
  BY <1>2, <1>7, <1>9, AllKeep
<1> QED
  BY <1>1, <1>5, <1>7, <1>10

\* A datagram of an application.
LEMMA PostStep ==
  ASSUME UdpInv, Post
  PROVE  /\ UdpState(uconns', handles', usocks', setting, posted')
         /\ DOMAIN usocks \subseteq DOMAIN usocks'
         /\ events' \subseteq events \cup {x \in events' : x.of = "udp" /\ x.key \in DOMAIN usocks'}
<1>1. PICK st, n, us, uk, hs, k, d :
        /\ st = setting /\ n = posted /\ us = uconns /\ uk = usocks /\ hs = handles
        /\ k = posted + 1 /\ d = Dst(k)
  OBVIOUS
<1>2. UdpState(us, hs, uk, st, n) /\ n \in Nat
  BY <1>1, World DEF UdpInv
<1>3. uconns' = us /\ handles' = hs /\ posted' = k
  BY <1>1 DEF Post
<1>4. UdpState(us, hs, uk, st, k)
  BY <1>1, <1>2, OnePosted
<1>5. CASE usocks' = uk /\ events' = events
  BY <1>1, <1>3, <1>4, <1>5
<1>6. CASE ~(usocks' = uk /\ events' = events)
  <2>1. PICK sock : sock = (IF d \in DOMAIN usocks THEN usocks[d]
                            ELSE [rx |-> <<>>, tx |-> <<>>, wakers |-> {"rx", "tx"}])
    OBVIOUS
  <2>2. /\ usocks' = Put(uk, d, [sock EXCEPT !.rx = Append(sock.rx, k), !.wakers = sock.wakers \ {"rx"}])
        /\ events' = events \cup Sent("udp", d, sock.wakers \cap {"rx"})
    BY <1>1, <1>6, <2>1 DEF Post
  <2>3. DOMAIN sock = {"rx", "tx", "wakers"} /\ sock.rx = (IF d \in DOMAIN uk THEN uk[d].rx ELSE <<>>)
    <3>1. CASE d \in DOMAIN uk
      BY <1>1, <1>2, <2>1, <3>1 DEF UdpState, SockSound
    <3>2. CASE d \notin DOMAIN uk
      BY <1>1, <2>1, <3>2
    <3> QED
      BY <3>1, <3>2
  <2>4. /\ DOMAIN usocks' = DOMAIN uk \cup {d} /\ \A x \in DOMAIN uk \ {d} : usocks'[x] = uk[x]
        /\ DOMAIN usocks'[d] = {"rx", "tx", "wakers"} /\ usocks'[d].rx = Append(sock.rx, k)
    BY <2>2, <2>3 DEF Put
  <2>5. d = To(k, st) /\ d \in Dests
    <3>1. k \in 1 .. Len(setting.datagrams)
      BY <1>1, World DEF UdpInv, Post
    <3> QED
      BY <1>1, <3>1, World DEF UdpInv
  <2>6. UdpState(us, hs, usocks', st, k)
    <3>1. PICK vk, old : vk = usocks' /\ old = sock.rx
      OBVIOUS
    <3>2. /\ d = To(n + 1, st) /\ d \in Dests /\ old = (IF d \in DOMAIN uk THEN uk[d].rx ELSE <<>>)
          /\ DOMAIN vk = DOMAIN uk \cup {d} /\ DOMAIN vk[d] = {"rx", "tx", "wakers"}
          /\ vk[d].rx = Append(old, n + 1) /\ \A x \in DOMAIN uk \ {d} : vk[x] = uk[x]
      BY <1>1, <2>3, <2>4, <2>5, <3>1
    <3>3. UdpState(us, hs, vk, st, n + 1)
      BY ONLY <1>2, <3>2, OnePosted
    <3> QED
      BY <1>1, <3>1, <3>3
  <2>7. \A x \in Sent("udp", d, sock.wakers \cap {"rx"}) : x.of = "udp" /\ x.key = d
    BY DEF Sent
  <2> QED
    BY <1>1, <1>3, <2>2, <2>4, <2>6, <2>7
<1> QED
  BY <1>5, <1>6

\* A packet of the server leaves a socket.
LEMMA TellStep ==
  ASSUME UdpInv, NEW d \in DOMAIN usocks, Tell(d)
  PROVE  /\ UdpState(uconns', handles', usocks', setting, posted')
         /\ DOMAIN usocks' = DOMAIN usocks
         /\ events' \subseteq events \cup {x \in events' : x.of = "udp" /\ x.key \in DOMAIN usocks'}
<1>1. PICK st, n, us, uk, hs :
        st = setting /\ n = posted /\ us = uconns /\ uk = usocks /\ hs = handles
  OBVIOUS
<1>2. UdpState(us, hs, uk, st, n) /\ d \in DOMAIN uk
  BY <1>1 DEF UdpInv
<1>3. \A x \in DOMAIN uk : DOMAIN uk[x] = {"rx", "tx", "wakers"}
  BY <1>2 DEF UdpState, SockSound
<1>4. PICK t, w, vk : t = Tail(uk[d].tx) /\ w = uk[d].wakers \ {"tx"} /\ vk = usocks'
  OBVIOUS
<1>5. /\ vk = [uk EXCEPT ![d].tx = t, ![d].wakers = w] /\ uconns' = us /\ handles' = hs /\ posted' = n
      /\ events' = events \cup Sent("udp", d, uk[d].wakers \cap {"tx"})
  BY <1>1, <1>4 DEF Tell
<1>6. /\ DOMAIN vk = DOMAIN uk
      /\ \A x \in DOMAIN uk : DOMAIN vk[x] = {"rx", "tx", "wakers"} /\ vk[x].rx = uk[x].rx
  BY <1>2, <1>3, <1>5
<1>7. UdpState(us, hs, vk, st, n)
  BY <1>2, <1>6, SameWaiting
<1>8. \A x \in Sent("udp", d, uk[d].wakers \cap {"tx"}) : x.of = "udp" /\ x.key = d
  BY DEF Sent
<1>9. \A x \in events' : x \in events \/ (x.of = "udp" /\ x.key \in DOMAIN usocks')
  <2>1. d \in DOMAIN usocks'
    BY <1>2, <1>4, <1>6
  <2>2. PICK S : S = Sent("udp", d, uk[d].wakers \cap {"tx"})
    OBVIOUS
  <2>3. events' = events \cup S /\ \A x \in S : x.of = "udp" /\ x.key = d
    BY <1>5, <1>8, <2>2
  <2> QED
    BY ONLY <2>1, <2>3
<1>10. events' \subseteq events \cup {x \in events' : x.of = "udp" /\ x.key \in DOMAIN usocks'}
  BY <1>9
<1>11. UdpState(uconns', handles', usocks', setting, posted') /\ DOMAIN usocks' = DOMAIN usocks
  BY <1>1, <1>4, <1>5, <1>6, <1>7
<1> QED
  BY <1>10, <1>11

-----------------------------------------------------------------------------
(* The invariant of the UDP server *)

LEMMA SentOf ==
  ASSUME NEW of, NEW key, NEW kinds
  PROVE  \A x \in Sent(of, key, kinds) : x.of = of /\ x.key = key
BY DEF Sent

\* What the TCP server does, its applications and its peers.
TcpOnly ==
  /\ UNCHANGED <<setting, at, udpvars>> /\ batch' \subseteq batch
  /\ \A x \in events' : x \in events \/ x.of = "tcp"

LEMMA TcpOnlyKeeps ==
  ASSUME UdpInv, TcpOnly
  PROVE  UdpInv'
<1>1. /\ setting' = setting /\ at' = at /\ batch' \subseteq batch /\ usocks' = usocks
      /\ uconns' = uconns /\ handles' = handles /\ posted' = posted
      /\ \A x \in events' : x \in events \/ x.of = "tcp"
  BY DEF TcpOnly, udpvars
<1>2. UdpKeys'
  BY <1>1 DEF UdpInv, UdpKeys
<1> QED
  BY <1>1, <1>2 DEF UdpInv

LEMMA HandlersTcpOnly ==
  ASSUME NEW e \in batch, Handlers(e), UNCHANGED <<udpvars, routes>>
  PROVE  TcpOnly
<1>1. CASE TcpUnused(e)
  BY <1>1 DEF TcpUnused, TcpOnly, Handled
<1>2. CASE TcpLocal(e)
  <2>1. \E h, s : Handler(h, s, events)
    BY <1>2 DEF TcpLocal
  <2>2. \A x \in events' : x \in events \/ x.of = "tcp"
    BY <2>1, SentOf DEF Handler
  <2> QED
    BY <1>2, <2>2 DEF TcpLocal, TcpOnly, Handled
<1>3. CASE TcpRemote(e)
  <2>1. \E h, s : Handler(h, s, events)
    BY <1>3 DEF TcpRemote
  <2>2. \A x \in events' : x \in events \/ x.of = "tcp"
    BY <2>1, SentOf DEF Handler
  <2> QED
    BY <1>3, <2>2 DEF TcpRemote, TcpOnly, Handled
<1> QED
  BY <1>1, <1>2, <1>3 DEF Handlers

LEMMA AppTcpOnly ==
  ASSUME NEW a \in Apps, App(a), UNCHANGED <<udpvars, routes>>
  PROVE  TcpOnly
<1>1. CASE Syn(a)
  <2>1. \E h, ev : events' = events \cup Sent("tcp", h, ev)
    BY <1>1 DEF Syn
  <2>2. \A x \in events' : x \in events \/ x.of = "tcp"
    BY <2>1, SentOf
  <2> QED
    BY <1>1, <2>2 DEF Syn, TcpOnly
<1>2. CASE \E h, s : Segment(h, s)
  <2>1. \A x \in events' : x \in events \/ x.of = "tcp"
    BY <1>2, SentOf DEF Segment
  <2> QED
    BY <1>2, <2>1 DEF Segment, TcpOnly
<1>3. Syn(a) \/ \E h, s : Segment(h, s)
  <2>1. Syn(a) \/ Open(a) \/ Send(a) \/ Receive(a) \/ Fin(a) \/ AckFin(a) \/ Reset(a) \/ Expire(a)
    BY DEF App
  <2>2. Open(a) => \E h, s : Segment(h, s)
    BY DEF Open
  <2>3. Send(a) => \E h, s : Segment(h, s)
    BY DEF Send
  <2>4. Receive(a) => \E h, s : Segment(h, s)
    BY DEF Receive
  <2>5. Fin(a) => \E h, s : Segment(h, s)
    BY DEF Fin
  <2>6. AckFin(a) => \E h, s : Segment(h, s)
    BY DEF AckFin
  <2>7. Reset(a) => \E h, s : Segment(h, s)
    BY DEF Reset
  <2>8. Expire(a) => \E h, s : Segment(h, s)
    BY DEF Expire
  <2> QED
    BY <2>1, <2>2, <2>3, <2>4, <2>5, <2>6, <2>7, <2>8
<1> QED
  BY <1>1, <1>2, <1>3

LEMMA PeersTcpOnly ==
  ASSUME NEW h, TcpPeers(h), UNCHANGED <<udpvars, routes>>
  PROVE  TcpOnly
<1>1. \E q : Peer(h, q)
  BY DEF TcpPeers, TcpConnect, TcpGreet, TcpDeliver, TcpServe, TcpEnd
<1> QED
  BY <1>1 DEF Peer, TcpOnly, loopvars

\* The handlers of the UDP server.
LEMMA UdpHandlersKeep ==
  ASSUME UdpInv, NEW e \in batch, UdpHandlers(e)
  PROVE  UdpInv'
<1>1. CASE UdpLocal(e)
  <2>1. UdpState(uconns', handles', usocks', setting, posted)
    BY <1>1, UdpLocalStep
  <2>2. /\ UNCHANGED <<setting, at, events, batch, due, posted>> /\ at = "local"
        /\ DOMAIN usocks' = DOMAIN usocks
    BY <1>1 DEF UdpLocal, Handling, loopvars
  <2>3. UdpKeys'
    BY <2>2 DEF UdpInv, UdpKeys
  <2> QED
    BY <2>1, <2>2, <2>3 DEF UdpInv
<1>2. CASE UdpDrained(e)
  <2>1. UdpState(uconns', handles', usocks', setting, posted)
    BY <1>2, UdpDrainedStep
  <2>2. /\ UNCHANGED <<setting, at, events, uconns, posted>> /\ at = "local"
        /\ DOMAIN usocks' = DOMAIN usocks /\ batch' \subseteq batch
    BY <1>2 DEF UdpDrained, Handling, Handled, Used
  <2>3. UdpKeys'
    BY <2>2 DEF UdpInv, UdpKeys
  <2> QED
    BY <2>1, <2>2, <2>3 DEF UdpInv
<1>3. CASE UdpRemote(e)
  <2>1. UdpState(uconns', handles', usocks', setting, posted)
    BY <1>3, UdpRemoteStep
  <2>2. /\ UNCHANGED <<setting, at, events, posted>> /\ at = "events"
        /\ DOMAIN uconns' = DOMAIN uconns /\ batch' \subseteq batch
    BY <1>3 DEF UdpRemote, Handling, Handled
  <2>3. UdpKeys'
    BY <2>2 DEF UdpInv, UdpKeys
  <2> QED
    BY <2>1, <2>2, <2>3 DEF UdpInv
<1> QED
  BY <1>1, <1>2, <1>3 DEF UdpHandlers

\* The turns of the loop.
LEMMA LoopKeepsUdp ==
  ASSUME UdpInv, Loop
  PROVE  UdpInv'
<1>1. CASE apply_ipset
  <2>1. /\ UNCHANGED <<setting, events, batch, uconns, handles, usocks, posted>>
        /\ at = "start" /\ at' = "iface"
    BY <1>1 DEF apply_ipset, udpvars
  <2>2. UdpKeys'
    BY <2>1 DEF UdpInv, UdpKeys
  <2> QED
    BY <2>1, <2>2 DEF UdpInv
<1>2. CASE Interface
  <2>1. /\ UNCHANGED <<setting, uconns, handles, usocks, posted>>
        /\ at = "iface" /\ at' = "local" /\ events' = {} /\ batch' = get_events(events)
    BY <1>2 DEF Interface, udpvars
  <2>2. \A x \in get_events(events) : \E y \in events : x.of = y.of /\ x.key = y.key
    BY DEF get_events
  <2>3. UdpKeys'
    BY <2>1, <2>2 DEF UdpInv, UdpKeys
  <2> QED
    BY <2>1, <2>3 DEF UdpInv
<1>3. CASE Poll
  <2>1. UdpState(uconns', handles', usocks', setting, posted)
    BY <1>3, UdpPollStep
  <2>2. /\ UNCHANGED <<setting, events, usocks, posted>> /\ DOMAIN uconns' = DOMAIN uconns
        /\ at = "local" /\ at' = "events" /\ batch' = Remote("tcp", conns) \cup Remote("udp", uconns)
    BY <1>3 DEF Poll
  <2>3. /\ \A x \in Remote("tcp", conns) : x.of = "tcp"
        /\ \A x \in Remote("udp", uconns) : x.of = "udp" /\ x.key \in DOMAIN uconns
    BY DEF Remote
  <2>4. UdpKeys'
    BY <2>2, <2>3 DEF UdpInv, UdpKeys
  <2> QED
    BY <2>1, <2>2, <2>4 DEF UdpInv
<1>4. CASE EndOfRound
  <2>1. UdpState(uconns', handles', usocks', setting, posted)
    BY <1>4, UdpRemovedStep DEF EndOfRound
  <2>2. /\ UNCHANGED <<setting, batch, posted>> /\ at = "events" /\ at' = "iface" /\ batch = {}
    BY <1>4 DEF EndOfRound, UdpRemoved
  <2>3. \A x \in events' : x \in events \/ x.of = "tcp"
    <3>1. \A x \in events' : x \in events \/ \E h, ev : x \in Sent("tcp", h, ev)
      <4> DEFINE late == {h \in DOMAIN conns \ removed : due /\ TcpExpired(conns[h])}
                 End(h) == close_remote(close_local(
                             IF conns[h].lclosed /\ conns[h].idle >= Long
                             THEN set_state([sock |-> sockets[h], c |-> conns[h], ev |-> {}], "Closed")
                             ELSE [sock |-> sockets[h], c |-> conns[h], ev |-> {}]))
      <4>1. events' = events \cup UNION {Sent("tcp", h, End(h).ev) : h \in late}
        BY <1>4 DEF EndOfRound, TcpRemoved
      <4> HIDE DEF End, late
      <4> QED
        BY <4>1
    <3> QED
      BY <3>1, SentOf
  <2>4. UdpKeys'
    BY <2>2, <2>3 DEF UdpInv, UdpKeys
  <2> QED
    BY <2>1, <2>2, <2>4 DEF UdpInv
<1>5. CASE \E e \in batch : Handlers(e) /\ UNCHANGED <<udpvars, routes>>
  BY <1>5, HandlersTcpOnly, TcpOnlyKeeps
<1>6. CASE \E e \in batch : UdpHandlers(e) /\ UNCHANGED <<tcpvars, routes>>
  BY <1>6, UdpHandlersKeep
<1> QED
  BY <1>1, <1>2, <1>3, <1>4, <1>5, <1>6 DEF Loop

LEMMA UdpInitially ==
  ASSUME Init
  PROVE  UdpInv
<1>1. /\ uconns = << >> /\ handles = << >> /\ usocks = << >> /\ posted = 0 /\ setting \in Settings
      /\ events = {} /\ batch = {} /\ at = "start"
  BY DEF Init
<1>2. DOMAIN << >> = {}
  OBVIOUS
<1>3. UdpState(uconns, handles, usocks, setting, posted)
  BY <1>1, <1>2, FS_EmptySet DEF UdpState, HandlesKept
<1>4. Len(setting.datagrams) \in Nat
  BY <1>1, SettingsAssumption, LenProperties DEF SettingOK
<1> QED
  BY <1>1, <1>3, <1>4 DEF UdpInv, UdpKeys

LEMMA UdpStep ==
  ASSUME UdpInv, [Next]_vars
  PROVE  UdpInv'
<1>1. CASE Loop
  BY <1>1, LoopKeepsUdp
<1>2. CASE Wait
  <2>1. UdpState(uconns', handles', usocks, setting, posted)
    BY <1>2, UdpWaitStep DEF Wait
  <2>2. /\ UNCHANGED <<setting, at, events, batch, usocks, posted>> /\ DOMAIN uconns' = DOMAIN uconns
    BY <1>2 DEF Wait, UdpWait
  <2>3. UdpKeys'
    BY <2>2 DEF UdpInv, UdpKeys
  <2> QED
    BY <2>1, <2>2, <2>3 DEF UdpInv
<1>3. CASE (\E a \in Apps : App(a)) /\ UNCHANGED <<udpvars, routes>>
  BY <1>3, AppTcpOnly, TcpOnlyKeeps
<1>4. CASE (\E h \in DOMAIN conns : TcpPeers(h)) /\ UNCHANGED <<udpvars, routes>>
  BY <1>4, PeersTcpOnly, TcpOnlyKeeps
<1>5. CASE Post
  <2>1. /\ UdpState(uconns', handles', usocks', setting, posted') /\ DOMAIN usocks \subseteq DOMAIN usocks'
        /\ events' \subseteq events \cup {x \in events' : x.of = "udp" /\ x.key \in DOMAIN usocks'}
    BY <1>5, PostStep
  <2>2. UNCHANGED <<setting, at, batch>> /\ at = "iface" /\ posted' \in 0 .. Len(setting.datagrams)
    BY <1>5, World DEF Post, UdpInv
  <2>3. UdpKeys'
    BY <2>1, <2>2 DEF UdpInv, UdpKeys
  <2> QED
    BY <2>1, <2>2, <2>3 DEF UdpInv
<1>6. CASE \E d \in DOMAIN usocks : Tell(d)
  <2>1. PICK d \in DOMAIN usocks : Tell(d)
    BY <1>6
  <2>2. /\ UdpState(uconns', handles', usocks', setting, posted') /\ DOMAIN usocks' = DOMAIN usocks
        /\ events' \subseteq events \cup {x \in events' : x.of = "udp" /\ x.key \in DOMAIN usocks'}
    BY <2>1, TellStep
  <2>3. UNCHANGED <<setting, at, batch, posted>> /\ at = "iface"
    BY <2>1 DEF Tell
  <2>4. UdpKeys'
    BY <2>2, <2>3 DEF UdpInv, UdpKeys
  <2> QED
    BY <2>2, <2>3, <2>4 DEF UdpInv
<1>7. CASE \E s \in DOMAIN uconns : UdpPeers(s)
  <2>1. PICK s \in DOMAIN uconns : UdpPeers(s)
    BY <1>7
  <2>2. UdpState(uconns', handles', usocks', setting, posted) /\ DOMAIN uconns' = DOMAIN uconns
    BY <2>1, UdpPeersStep
  <2>3. \E q : UdpPeer(s, q)
    BY <2>1 DEF UdpPeers, UdpConnect, UdpGreet, UdpDeliver, UdpServe, UdpEnd
  <2>4. UNCHANGED <<setting, at, events, batch, posted, usocks>>
    BY <2>3 DEF UdpPeer, loopvars
  <2>5. UdpKeys'
    BY <2>2, <2>4 DEF UdpInv, UdpKeys
  <2> QED
    BY <2>2, <2>4, <2>5 DEF UdpInv
<1>8. CASE UNCHANGED vars
  <2>1. TcpOnly
    BY <1>8 DEF vars, loopvars, udpvars, TcpOnly
  <2> QED
    BY <2>1, TcpOnlyKeeps
<1> QED
  BY <1>1, <1>2, <1>3, <1>4, <1>5, <1>6, <1>7, <1>8 DEF Next

\* The invariant of the UDP server: of every connection, that what it has for
\* the server is the request, at most once, and the datagrams of its source,
\* none behind one that still waits in a socket, and that what was decrypted
\* are the packets it gave and the start of the next; of every handle, that it
\* counts its connections; of every event, that its socket is there.
THEOREM UdpInvariant == Spec => []UdpInv
<1>1. Init => UdpInv
  BY UdpInitially
<1>2. UdpInv /\ [Next]_vars => UdpInv'
  BY UdpStep
<1> QED
  BY <1>1, <1>2, PTL DEF Spec

\* A handle counts the connections that reply through it (UdpServer.handles,
\* do_local and remove_closed): its socket is there while one is left.
THEOREM HandlesAreCounted == Spec => []HandlesCounted
<1>1. UdpInv => HandlesCounted
  BY DEF UdpInv, UdpState, HandlesKept, HandlesCounted, Users
<1> QED
  BY <1>1, UdpInvariant, PTL

\* What DatagramsInOrder says of the data of source s.
InLine(data, s, established) ==
  /\ established => data # <<>> /\ Head(data) = Request
  /\ \A i \in 1 .. Len(data) : data[i] = Request \/ Src(data[i]) = s
  /\ \A i, j \in 1 .. Len(data) : i < j =>
       /\ data[j] \notin {Request, data[i]}
       /\ data[i] # Request /\ Dst(data[i]) = Dst(data[j]) => data[i] < data[j]

\* The server gets the request first, then datagrams of this source, each at
\* most once, in the order sent as far as the destination is the same
\* (Connection::do_local, do_remote and local_to_remote of the UDP server).
THEOREM DatagramsKeepOrder == Spec => []DatagramsInOrder
<1>1. ASSUME UdpInv PROVE DatagramsInOrder
  <2>1. ASSUME NEW s \in DOMAIN uconns PROVE InLine(Framed(uconns[s]), s, uconns[s].established)
    <3>1. PICK data : data = Framed(uconns[s])
      OBVIOUS
    <3>2. UdpSound(uconns[s], setting.bad) /\ Line(data, s, setting, posted)
      BY <1>1, <3>1 DEF UdpInv, UdpState, Ready
    <3>3. data \in Chunks
      BY <3>1, <3>2, UdpParts DEF UdpSound
    <3>4. uconns[s].established => data # <<>> /\ Head(data) = Request
      BY <3>1, <3>2, <3>3 DEF UdpSound, Led, Chunks
    <3>5. \A i \in 1 .. Len(data) : data[i] = Request \/ Src(data[i]) = s
      BY <3>2 DEF Line, From, Src
    <3>6. \A i, j \in 1 .. Len(data) : i < j =>
            /\ data[j] \notin {Request, data[i]}
            /\ data[i] # Request /\ Dst(data[i]) = Dst(data[j]) => data[i] < data[j]
      BY <3>2 DEF Line, To, Dst
    <3>7. InLine(data, s, uconns[s].established)
      BY ONLY <3>4, <3>5, <3>6 DEF InLine
    <3> QED
      BY ONLY <3>1, <3>7
  <2>2. \A s \in DOMAIN uconns : InLine(Framed(uconns[s]), s, uconns[s].established)
    BY ONLY <2>1
  <2> QED
    BY ONLY <2>2, Zenon DEF DatagramsInOrder, InLine, Framed, Upward
<1> QED
  BY <1>1, UdpInvariant, PTL

\* The packets of the server are taken out of its stream whole, in order, each
\* once, and none behind an invalid one (remote_to_local of the UDP server).
THEOREM PacketsStayInStep == Spec => []PacketsInStep
<1>1. ASSUME UdpInv PROVE PacketsInStep
  <2> SUFFICES ASSUME NEW s \in DOMAIN uconns, NEW c, c = uconns[s]
               PROVE  /\ c.gave = Count(Len(c.gave)) /\ \A i \in DOMAIN c.gave : c.gave[i] \notin setting.bad
                      /\ ~c.rclosed => 2 * Len(c.gave) + Len(c.lbuffer) = c.remote.seen
    BY DEF PacketsInStep
  <2>1. UdpSound(c, setting.bad)
    BY <1>1 DEF UdpInv, UdpState
  <2>2. /\ c.gave = Count(Len(c.gave)) /\ \A i \in 1 .. Len(c.gave) : i \notin setting.bad
        /\ 2 * Len(c.gave) + Len(c.lbuffer) = c.remote.seen
    BY <2>1 DEF UdpSound, InStep
  <2>3. c.gave \in Chunks /\ Len(c.gave) \in Nat
    BY <2>1, UdpParts DEF UdpSound
  <2>4. PICK L \in Nat : L = Len(c.gave)
    BY <2>3
  <2>5. DOMAIN c.gave = 1 .. L /\ \A i \in 1 .. L : c.gave[i] = i
    BY <2>2, <2>4 DEF Count
  <2> QED
    BY <2>2, <2>4, <2>5
<1> QED
  BY <1>1, UdpInvariant, PTL

-----------------------------------------------------------------------------
(* A connection of the TCP server *)

Sockets ==
  [app : Apps, state : States, rx : Chunks, tx : Chunks, wakers : SUBSET {"rx", "tx"}]

TcpConns ==
  [remote : Remotes, lbuffer : Chunks, lclosed : BOOLEAN, rclosed : BOOLEAN,
   established : BOOLEAN, idle : Nat]

AppRecords ==
  [syns : Nat, sent : Nat, got : Chunks, fin : BOOLEAN, ended : BOOLEAN, reset : BOOLEAN]

\* States of a socket that was closed.
Ending == {"FinWait1", "FinWait2", "Closing", "LastAck", "TimeWait", "Closed"}

Lead(c) == IF c.established THEN <<Header>> ELSE <<>>

\* What the application has sent is, behind the request, with the server, on the
\* way to it, or still in the socket.
UpKept(k, c, a) ==
  /\ ~c.established => Upward(c.remote) = <<>>
  /\ Upward(c.remote) \o k.rx = Lead(c) \o Count(a.sent)

\* What was decrypted is with the application, in its socket, or waits.
DownKept(k, c, a) ==
  /\ ((a.got \o k.tx) \o c.lbuffer) \o c.remote.dec = Count(c.remote.seen)
  /\ c.lbuffer = <<>> => c.remote.dec = <<>>

\* Unless the application resets, nobody is told an end before it has got
\* everything: the local side is closed behind the remote side, when nothing
\* waits any more, and the remote side behind the end of the server's stream.
Orderly(k, c, a) ==
  /\ k.state # "Listen" /\ (k.state \in Ending => c.lclosed)
  /\ c.lclosed => c.rclosed /\ c.lbuffer = <<>> /\ c.remote.dec = <<>>
  /\ c.rclosed /\ c.remote.end = "fin" => c.remote.in = <<>>
  /\ a.ended => c.lclosed /\ k.tx = <<>>

\* Socket k, connection c and application a fit together, in the middle of a
\* handler as well.
Fits(k, c, a) ==
  /\ k \in Sockets /\ Len(k.tx) <= TxCap /\ c \in TcpConns /\ a \in AppRecords
  /\ RemoteSound(c.remote) /\ c.rclosed = c.remote.shut /\ Len(c.lbuffer) <= 1
  /\ UpKept(k, c, a)
  /\ DownKept(k, c, a) \/ (a.reset /\ c.lclosed)
  /\ c.lclosed => k.state \in Ending /\ k.wakers = {}
  /\ a.reset \/ Orderly(k, c, a)

\* What a handler works on: it never wakes itself, and the socket is still the
\* same application's.
Job(k, c) == [sock |-> k, c |-> c, ev |-> {}]

Works(s, o, a) ==
  /\ s = Job(s.sock, s.c)
  /\ s.sock.app = o /\ Fits(s.sock, s.c, a)

\* The parts of a socket and a connection.
LEMMA TcpParts ==
  ASSUME NEW k, NEW c, NEW a, Fits(k, c, a)
  PROVE  /\ k.rx \in Chunks /\ k.tx \in Chunks /\ Len(k.tx) \in Nat /\ k.state \in States
         /\ c.lbuffer \in Chunks /\ c.remote \in Remotes /\ c.remote.dec \in Chunks
         /\ c.remote.in \in Chunks /\ c.remote.seen \in Nat /\ Upward(c.remote) \in Chunks
         /\ a.got \in Chunks /\ a.sent \in Nat
         /\ a.got \o k.tx \in Chunks /\ (a.got \o k.tx) \o c.lbuffer \in Chunks
<1>1. k.rx \in Chunks /\ k.tx \in Chunks /\ k.state \in States
  BY DEF Fits, Sockets
<1>2. c.lbuffer \in Chunks /\ c.remote \in Remotes
  BY DEF Fits, TcpConns
<1>3. a.got \in Chunks /\ a.sent \in Nat
  BY DEF Fits, AppRecords
<1>4. a.got \o k.tx \in Chunks /\ Len(k.tx) \in Nat
  BY <1>1, <1>3, Joined, NothingJoined
<1> QED
  BY <1>1, <1>2, <1>3, <1>4, RemoteParts, Joined

\* Wakers and the idle time do not matter to what was sent.
Rewaked(k, l, w, c) ==
  w \in SUBSET {"rx", "tx"} /\ (c.lclosed => w = {}) /\ l = [k EXCEPT !.wakers = w]

LEMMA NewWakers ==
  ASSUME NEW k, NEW c, NEW a, Fits(k, c, a), NEW w, NEW l, Rewaked(k, l, w, c)
  PROVE  Fits(l, c, a) /\ l.app = k.app
<1>1. k \in Sockets /\ w \in SUBSET {"rx", "tx"} /\ l = [k EXCEPT !.wakers = w] /\ (c.lclosed => w = {})
  BY DEF Fits, Rewaked
<1>2. l \in Sockets /\ l.rx = k.rx /\ l.tx = k.tx /\ l.state = k.state /\ l.app = k.app /\ l.wakers = w
  BY <1>1 DEF Sockets
<1>3. UpKept(l, c, a)
  BY <1>2 DEF Fits, UpKept
<1>4. DownKept(l, c, a) \/ (a.reset /\ c.lclosed)
  BY <1>2 DEF Fits, DownKept
<1>5. a.reset \/ Orderly(l, c, a)
  BY <1>2 DEF Fits, Orderly
<1> QED
  BY <1>1, <1>2, <1>3, <1>4, <1>5 DEF Fits

\* A connection that has the same data.
SameData(c, d) ==
  /\ d \in TcpConns /\ RemoteSound(d.remote)
  /\ d.lbuffer = c.lbuffer /\ d.established = c.established
  /\ d.remote.dec = c.remote.dec /\ d.remote.seen = c.remote.seen /\ Upward(d.remote) = Upward(c.remote)
  /\ d.rclosed = d.remote.shut

\* The remote side moves data along or is closed, or time passes.
LEMMA SameDataFits ==
  ASSUME NEW k, NEW c, NEW a, Fits(k, c, a), NEW d, SameData(c, d), d.lclosed = c.lclosed,
         c.rclosed => d.rclosed,
         a.reset \/ (d.rclosed /\ d.remote.end = "fin" => d.remote.in = <<>>)
  PROVE  Fits(k, d, a)
<1>1. UpKept(k, d, a)
  BY DEF Fits, UpKept, SameData, Lead
<1>2. DownKept(k, d, a) \/ (a.reset /\ d.lclosed)
  BY DEF Fits, DownKept, SameData
<1>3. a.reset \/ Orderly(k, d, a)
  BY DEF Fits, Orderly, SameData
<1> QED
  BY <1>1, <1>2, <1>3 DEF Fits, SameData

LEMMA MovedData ==
  ASSUME NEW k, NEW c, NEW a, Fits(k, c, a), NEW q, Moved(c.remote, q),
         NEW d, d = [c EXCEPT !.remote = q]
  PROVE  Fits(k, d, a) /\ SameData(c, d) /\ d.lclosed = c.lclosed /\ d.rclosed = c.rclosed /\ d.remote = q
<1>1. c \in TcpConns /\ q \in Remotes /\ c.rclosed = c.remote.shut
  BY DEF Fits, Moved, RemoteSound
<1>2. /\ d \in TcpConns /\ d.remote = q /\ d.lbuffer = c.lbuffer /\ d.established = c.established
      /\ d.lclosed = c.lclosed /\ d.rclosed = c.rclosed
  BY <1>1 DEF TcpConns
<1>3. SameData(c, d)
  BY <1>1, <1>2 DEF SameData, Moved, Alike
<1>4. a.reset \/ (d.rclosed /\ d.remote.end = "fin" => d.remote.in = <<>>)
  BY <1>2 DEF Fits, Orderly, Moved, Alike
<1> QED
  BY <1>2, <1>3, <1>4, SameDataFits

\* Changes of single fields of what a handler works on.
LEMMA JobParts ==
  ASSUME NEW k, NEW c
  PROVE  Job(k, c).sock = k /\ Job(k, c).c = c /\ Job(k, c).ev = {}
BY DEF Job

LEMMA CloseRemoteAs ==
  ASSUME NEW k, NEW c, ~c.rclosed
  PROVE  close_remote(Job(k, c)) = Job(k, [c EXCEPT !.remote = close(c.remote), !.rclosed = TRUE])
BY JobParts DEF Job, close_remote

\* close_remote: in an orderly way at the end of the stream only.
LEMMA CloseRemote ==
  ASSUME NEW s, NEW o, NEW a, Works(s, o, a),
         \/ s.c.rclosed \/ a.reset \/ s.c.remote.end # "fin" \/ s.c.remote.in = <<>>
  PROVE  /\ Works(close_remote(s), o, a) /\ close_remote(s).c.rclosed
         /\ close_remote(s).c.lclosed = s.c.lclosed /\ close_remote(s).c.lbuffer = s.c.lbuffer
         /\ close_remote(s).c.remote.dec = s.c.remote.dec /\ close_remote(s).sock = s.sock
<1>1. CASE s.c.rclosed
  BY <1>1 DEF close_remote
<1>2. CASE ~s.c.rclosed
  <2>1. PICK c, k, q, d : /\ c = s.c /\ k = s.sock /\ q = close(c.remote)
                          /\ d = [c EXCEPT !.remote = q, !.rclosed = TRUE]
    OBVIOUS
  <2>2. Fits(k, c, a) /\ s = Job(k, c) /\ c \in TcpConns /\ k.app = o
    BY <2>1 DEF Works, Fits
  <2>3. ClosedAs(c.remote, q)
    BY <2>1, <2>2, Closes DEF Fits
  <2>4. RemoteSound(q) /\ q \in Remotes /\ Alike(c.remote, q) /\ q.shut /\ Upward(q) = Upward(c.remote)
    BY <2>3 DEF ClosedAs, RemoteSound
  <2>5. /\ d \in TcpConns /\ d.remote = q /\ d.lbuffer = c.lbuffer /\ d.established = c.established
        /\ d.lclosed = c.lclosed /\ d.rclosed = TRUE
    BY <2>1, <2>2, <2>4 DEF TcpConns
  <2>6. q.shut = TRUE
    BY <2>4 DEF Remotes
  <2>7. SameData(c, d)
    BY <2>4, <2>5, <2>6 DEF SameData, Alike
  <2>8. a.reset \/ (d.rclosed /\ d.remote.end = "fin" => d.remote.in = <<>>)
    BY <1>2, <2>1, <2>4, <2>5 DEF Alike
  <2>9. Fits(k, d, a)
    BY <2>2, <2>5, <2>7, <2>8, SameDataFits
  <2>10. close_remote(s) = Job(k, d)
    BY <1>2, <2>1, <2>2, CloseRemoteAs
  <2>11. Works(Job(k, d), o, a)
    BY <2>2, <2>9, JobParts DEF Works
  <2>12. close_remote(s).c = d /\ close_remote(s).sock = k
    BY <2>10 DEF Job
  <2> QED
    BY <2>1, <2>4, <2>5, <2>10, <2>11, <2>12 DEF Alike
<1> QED
  BY <1>1, <1>2

\* A socket without wakers in another state.
LEMMA SetStateAs ==
  ASSUME NEW k \in Sockets, NEW c, k.wakers = {}, NEW x
  PROVE  set_state(Job(k, c), x) = Job([k EXCEPT !.state = x], c)
<1>1. PICK j, t : j = [k EXCEPT !.state = x] /\ t = Job(j, c)
  OBVIOUS
<1>2. j.wakers = {} /\ [j EXCEPT !.wakers = {}] = j
  BY <1>1 DEF Sockets
<1>3. [Job(k, c) EXCEPT !.sock.state = x] = t
  BY <1>1 DEF Job
<1>4. set_state(Job(k, c), x) = Wake(t, {"rx", "tx"})
  BY <1>3 DEF set_state
<1>5. {} \cup ({"rx", "tx"} \cap j.wakers) = {} /\ j.wakers \ {"rx", "tx"} = {}
  BY <1>2
<1>6. t.ev = {} /\ t.sock = j
  BY <1>1, JobParts
<1>7. Wake(t, {"rx", "tx"}) = [t EXCEPT !.ev = {}, !.sock.wakers = {}]
  BY ONLY <1>5, <1>6 DEF Wake
<1>8. [t EXCEPT !.ev = {}, !.sock.wakers = {}] = [[t EXCEPT !.ev = {}] EXCEPT !.sock.wakers = {}]
  OBVIOUS
<1>9. [t EXCEPT !.ev = {}] = t /\ [t EXCEPT !.sock.wakers = {}] = Job([j EXCEPT !.wakers = {}], c)
  BY <1>1 DEF Job
<1> QED
  BY <1>1, <1>2, <1>4, <1>7, <1>8, <1>9

\* l and d are k and c after the local side was closed.
LocalClosed(k, c, l, d) ==
  \E x \in Ending : l = [[k EXCEPT !.wakers = {}] EXCEPT !.state = x] /\ d = [c EXCEPT !.lclosed = TRUE]

LEMMA CloseLocalAs ==
  ASSUME NEW k \in Sockets, NEW c, ~c.lclosed
  PROVE  \E l, d : close_local(Job(k, c)) = Job(l, d) /\ LocalClosed(k, c, l, d)
<1>1. PICK j, t, d : j = [k EXCEPT !.wakers = {}] /\ t = Job(j, c) /\ d = [c EXCEPT !.lclosed = TRUE]
  OBVIOUS
<1>2. j \in Sockets /\ j.wakers = {} /\ j.state = k.state /\ k.state \in States
  BY <1>1 DEF Sockets
<1>3. [Job(k, c) EXCEPT !.sock.wakers = {}] = t
  BY <1>1 DEF Job
<1>4. \A x : set_state(t, x) = Job([j EXCEPT !.state = x], c)
  BY <1>1, <1>2, SetStateAs
<1>5. PICK u : u = close_tcp(t)
  OBVIOUS
<1>6. PICK x \in Ending : u = Job([j EXCEPT !.state = x], c)
  <2>1. t.sock.state = k.state
    BY <1>1, <1>2 DEF Job
  <2>2. CASE k.state = "Listen"
    <3>1. u = set_state(t, "Closed")
      BY <1>5, <2>1, <2>2 DEF close_tcp
    <3> QED
      BY <1>4, <3>1 DEF Ending
  <2>3. CASE k.state \in {"SynReceived", "Established"}
    <3>1. u = set_state(t, "FinWait1")
      BY <1>5, <2>1, <2>3 DEF close_tcp
    <3> QED
      BY <1>4, <3>1 DEF Ending
  <2>4. CASE k.state = "CloseWait"
    <3>1. u = set_state(t, "LastAck")
      BY <1>5, <2>1, <2>4 DEF close_tcp
    <3> QED
      BY <1>4, <3>1 DEF Ending
  <2>5. CASE k.state \in Ending
    <3>1. u = t
      BY <1>5, <2>1, <2>5 DEF close_tcp, Ending
    <3>2. j = [j EXCEPT !.state = k.state]
      BY <1>2 DEF Sockets
    <3> QED
      BY <1>1, <2>5, <3>1, <3>2
  <2> QED
    BY <1>2, <2>2, <2>3, <2>4, <2>5 DEF States, Ending
<1>7. close_local(Job(k, c)) = [u EXCEPT !.c.lclosed = TRUE]
  BY <1>3, <1>5 DEF close_local, Job
<1>8. PICK l : l = [j EXCEPT !.state = x]
  OBVIOUS
<1>9. [Job(l, c) EXCEPT !.c.lclosed = TRUE] = Job(l, d)
  <2>1. \A v : [Job(l, c) EXCEPT !.c.lclosed = v] = Job(l, [c EXCEPT !.lclosed = v])
    BY ONLY TRUE DEF Job
  <2> QED
    BY <1>1, <2>1, Zenon
<1>10. close_local(Job(k, c)) = Job(l, d)
  BY <1>6, <1>7, <1>8, <1>9
<1>11. LocalClosed(k, c, l, d)
  BY <1>1, <1>6, <1>8 DEF LocalClosed
<1> QED
  BY <1>10, <1>11

\* close_local: in an orderly way when the remote side is closed and nothing
\* waits for the application any more.
LEMMA CloseLocal ==
  ASSUME NEW s, NEW o, NEW a, Works(s, o, a),
         \/ s.c.lclosed \/ a.reset
         \/ s.c.rclosed /\ s.c.lbuffer = <<>> /\ s.c.remote.dec = <<>>
  PROVE  /\ Works(close_local(s), o, a) /\ close_local(s).c.lclosed
         /\ close_local(s).c.rclosed = s.c.rclosed /\ close_local(s).c.lbuffer = s.c.lbuffer
         /\ close_local(s).c.remote = s.c.remote /\ close_local(s).sock.tx = s.sock.tx
         /\ close_local(s).c.established = s.c.established
<1>1. CASE s.c.lclosed
  BY <1>1 DEF close_local
<1>2. CASE ~s.c.lclosed
  <2>1. PICK k, c, t : k = s.sock /\ c = s.c /\ t = close_local(s)
    OBVIOUS
  <2>2. Fits(k, c, a) /\ s = Job(k, c) /\ k.app = o /\ ~c.lclosed
    BY <1>2, <2>1 DEF Works
  <2>3. k \in Sockets /\ c \in TcpConns
    BY <2>2 DEF Fits
  <2>4. PICK l, d : t = Job(l, d) /\ LocalClosed(k, c, l, d)
    BY ONLY <2>1, <2>2, <2>3, CloseLocalAs, Zenon
  <2>5. PICK x \in Ending : l = [[k EXCEPT !.wakers = {}] EXCEPT !.state = x] /\ d = [c EXCEPT !.lclosed = TRUE]
    BY <2>4 DEF LocalClosed
  <2>6. /\ l \in Sockets /\ l.app = k.app /\ l.rx = k.rx /\ l.tx = k.tx /\ l.wakers = {} /\ l.state = x
    BY <2>3, <2>5 DEF Sockets, States, Ending
  <2>7. /\ d \in TcpConns /\ d.lclosed = TRUE /\ d.rclosed = c.rclosed /\ d.lbuffer = c.lbuffer
        /\ d.remote = c.remote /\ d.established = c.established
    BY <2>3, <2>5 DEF TcpConns
  <2>8. UpKept(l, d, a)
    BY <2>2, <2>6, <2>7 DEF Fits, UpKept, Lead
  <2>9. DownKept(l, d, a)
    BY <2>2, <2>6, <2>7 DEF Fits, DownKept
  <2>10. a.reset \/ Orderly(l, d, a)
    <3>1. a.reset \/ (c.rclosed /\ c.lbuffer = <<>> /\ c.remote.dec = <<>> /\ Orderly(k, c, a))
      BY <1>2, <2>1, <2>2 DEF Fits
    <3>2. l.state # "Listen"
      BY <2>6 DEF Ending
    <3> QED
      BY <2>6, <2>7, <3>1, <3>2 DEF Orderly
  <2>11. Fits(l, d, a)
    BY <2>2, <2>6, <2>7, <2>8, <2>9, <2>10 DEF Fits
  <2>12. Works(t, o, a)
    BY <2>2, <2>4, <2>6, <2>11, JobParts DEF Works
  <2> QED
    BY <2>1, <2>4, <2>6, <2>7, <2>12, JobParts
<1> QED
  BY <1>1, <1>2

\* A connection that is not lost: an inactive socket was reset or closed.
LEMMA InactiveEnded ==
  ASSUME NEW k, NEW c, NEW a, Fits(k, c, a), ~is_active(k)
  PROVE  a.reset \/ c.lclosed
BY DEF Fits, Orderly, is_active, Ending

\* check_half_close: afterwards the remote side is closed if the local side is.
LEMMA CheckHalfClose ==
  ASSUME NEW s, NEW o, NEW a, Works(s, o, a)
  PROVE  /\ Works(check_half_close(s), o, a)
         /\ check_half_close(s).c.lclosed => check_half_close(s).c.rclosed
<1>1. PICK t : t = (IF s.c.lclosed THEN close_remote(s) ELSE s)
  OBVIOUS
<1>2. Works(t, o, a) /\ (t.c.lclosed => t.c.rclosed)
  <2>1. CASE s.c.lclosed
    <3>1. s.c.rclosed \/ a.reset
      BY <2>1 DEF Works, Fits, Orderly
    <3> QED
      BY <1>1, <2>1, <3>1, CloseRemote
  <2>2. CASE ~s.c.lclosed
    BY <1>1, <2>2
  <2> QED
    BY <2>1, <2>2
<1>3. CASE t.c.rclosed /\ t.c.lbuffer = <<>>
  <2>1. t.c.lclosed \/ a.reset \/ (t.c.rclosed /\ t.c.lbuffer = <<>> /\ t.c.remote.dec = <<>>)
    BY <1>2, <1>3 DEF Works, Fits, DownKept
  <2>2. check_half_close(s) = close_local(t)
    BY <1>1, <1>3 DEF check_half_close
  <2> QED
    BY <1>2, <1>3, <2>1, <2>2, CloseLocal
<1>4. CASE ~(t.c.rclosed /\ t.c.lbuffer = <<>>)
  <2>1. check_half_close(s) = t
    BY <1>1, <1>4 DEF check_half_close
  <2> QED
    BY <1>2, <2>1
<1> QED
  BY <1>3, <1>4

\* reregister_local.
LEMMA ReregisterLocal ==
  ASSUME NEW s, NEW o, NEW a, Works(s, o, a)
  PROVE  Works(reregister_local(s), o, a) /\ reregister_local(s).c = s.c
<1>1. CASE s.c.lclosed
  BY <1>1 DEF reregister_local
<1>2. CASE ~s.c.lclosed
  <2>1. PICK k, c, w, l, t :
          /\ k = s.sock /\ c = s.c /\ t = reregister_local(s)
          /\ w = k.wakers \cup (IF c.lbuffer = <<>> THEN {} ELSE {"tx"}) \cup (IF c.rclosed THEN {} ELSE {"rx"})
          /\ l = [k EXCEPT !.wakers = w]
    OBVIOUS
  <2>2. Fits(k, c, a) /\ s = Job(k, c) /\ k.app = o /\ ~c.lclosed
    BY <1>2, <2>1 DEF Works
  <2>3. w \in SUBSET {"rx", "tx"} /\ (c.lclosed => w = {})
    BY <2>1, <2>2 DEF Fits, Sockets
  <2>4. Fits(l, c, a) /\ l.app = k.app
    <3>1. Rewaked(k, l, w, c)
      BY <2>1, <2>2, <2>3 DEF Rewaked
    <3> QED
      BY ONLY <2>2, <3>1, NewWakers, Zenon
  <2>5. t = [s EXCEPT !.sock.wakers = w]
    BY <1>2, <2>1 DEF reregister_local
  <2>6. t = Job(l, c)
    <3>1. t = [Job(k, c) EXCEPT !.sock.wakers = w]
      BY <2>2, <2>5
    <3>2. [Job(k, c) EXCEPT !.sock.wakers = w] = Job([k EXCEPT !.wakers = w], c)
      BY ONLY TRUE DEF Job
    <3> QED
      BY <2>1, <3>1, <3>2
  <2>7. t.sock = l /\ t.c = c
    BY <2>6 DEF Job
  <2>8. Works(t, o, a)
    BY ONLY <2>2, <2>4, <2>6, <2>7 DEF Works
  <2> QED
    BY <2>1, <2>7, <2>8
<1> QED
  BY <1>1, <1>2

\* A handler's work with another remote side.
Onto(s, q) == [s EXCEPT !.c.remote = q]

LEMMA OntoAs ==
  ASSUME NEW k, NEW c, NEW q
  PROVE  Onto(Job(k, c), q) = Job(k, [c EXCEPT !.remote = q])
BY DEF Onto, Job

LEMMA MovesOn ==
  ASSUME NEW s, NEW o, NEW a, Works(s, o, a), NEW q, Moved(s.c.remote, q)
  PROVE  /\ Works(Onto(s, q), o, a) /\ Onto(s, q).sock = s.sock /\ Onto(s, q).c.remote = q
         /\ Onto(s, q).c.lclosed = s.c.lclosed /\ Onto(s, q).c.rclosed = s.c.rclosed
         /\ Onto(s, q).c.lbuffer = s.c.lbuffer
<1>1. PICK k, c, d : k = s.sock /\ c = s.c /\ d = [c EXCEPT !.remote = q]
  OBVIOUS
<1>2. Fits(k, c, a) /\ s = Job(k, c) /\ k.app = o /\ Moved(c.remote, q)
  BY <1>1 DEF Works
<1>3. /\ Fits(k, d, a) /\ d.lbuffer = c.lbuffer /\ d.lclosed = c.lclosed /\ d.rclosed = c.rclosed
      /\ d.remote = q
  BY <1>1, <1>2, MovedData DEF SameData
<1>4. Onto(s, q) = Job(k, d)
  BY <1>1, <1>2, OntoAs
<1>5. Onto(s, q).sock = k /\ Onto(s, q).c = d
  BY <1>4 DEF Job
<1>6. Works(Onto(s, q), o, a)
  BY ONLY <1>2, <1>3, <1>4, <1>5 DEF Works
<1> QED
  BY <1>1, <1>3, <1>5, <1>6

\* flush_remote closes only what was reset.
LEMMA FlushRemote ==
  ASSUME NEW s, NEW o, NEW a, Works(s, o, a)
  PROVE  Works(flush_remote(s), o, a)
<1>1. RemoteSound(s.c.remote) /\ s.c.rclosed = s.c.remote.shut
  BY DEF Works, Fits
<1>2. CASE FlushFails(s.c.remote)
  <2>1. s.c.rclosed \/ s.c.remote.end # "fin"
    BY <1>1, <1>2 DEF FlushFails
  <2>2. flush_remote(s) = close_remote(s)
    BY <1>2 DEF flush_remote
  <2> QED
    BY <2>1, <2>2, CloseRemote
<1>3. CASE ~FlushFails(s.c.remote)
  <2>1. flush_remote(s) = Onto(s, flush(s.c.remote))
    BY <1>3 DEF flush_remote, Onto
  <2>2. Moved(s.c.remote, flush(s.c.remote))
    BY <1>1, Flushes
  <2> QED
    BY <2>1, <2>2, MovesOn
<1> QED
  BY <1>2, <1>3

\* The application's data goes behind what was written for the server.
LEMMA TakesUp ==
  ASSUME NEW k, NEW c, NEW a, Fits(k, c, a), c.established, NEW l, NEW d,
         l = [k EXCEPT !.rx = <<>>], d = [c EXCEPT !.remote = write(c.remote, k.rx)]
  PROVE  Fits(l, d, a) /\ l.app = k.app
<1>1. PICK q, p, r : q = write(c.remote, k.rx) /\ p = c.remote /\ r = k.rx
  OBVIOUS
<1>2. k \in Sockets /\ c \in TcpConns /\ r \in Chunks /\ <<>> \in Chunks /\ RemoteSound(p)
  BY <1>1, TcpParts, NothingJoined DEF Fits
<1>3. Wrote(p, r, q)
  BY <1>1, <1>2, Writes
<1>4. RemoteSound(q) /\ q \in Remotes /\ Alike(p, q) /\ q.shut = p.shut /\ Upward(q) = Upward(p) \o r
  BY <1>3 DEF Wrote, RemoteSound
<1>5. /\ l \in Sockets /\ l.rx = <<>> /\ l.tx = k.tx /\ l.state = k.state /\ l.wakers = k.wakers
      /\ l.app = k.app
  BY <1>2 DEF Sockets
<1>6. /\ d \in TcpConns /\ d.remote = q /\ d.lbuffer = c.lbuffer /\ d.established = c.established
      /\ d.lclosed = c.lclosed /\ d.rclosed = c.rclosed
  BY <1>1, <1>2, <1>4 DEF TcpConns
<1>7. UpKept(l, d, a)
  <2>1. Upward(q) \in Chunks
    BY <1>4, RemoteParts
  <2>2. Upward(q) \o <<>> = Upward(q)
    BY <2>1, NothingJoined
  <2>3. Upward(p) \o r = Lead(c) \o Count(a.sent)
    BY <1>1 DEF Fits, UpKept
  <2> QED
    BY <1>4, <1>5, <1>6, <2>2, <2>3 DEF UpKept, Lead
<1>8. DownKept(l, d, a) \/ (a.reset /\ d.lclosed)
  BY <1>1, <1>4, <1>5, <1>6 DEF Fits, DownKept, Alike
<1>9. a.reset \/ Orderly(l, d, a)
  BY <1>1, <1>4, <1>5, <1>6 DEF Fits, Orderly, Alike
<1> QED
  BY <1>1, <1>4, <1>5, <1>6, <1>7, <1>8, <1>9 DEF Fits

\* local_to_remote.
LEMMA LocalToRemote ==
  ASSUME NEW s, NEW o, NEW a, Works(s, o, a)
  PROVE  Works(local_to_remote(s), o, a)
<1>1. CASE ~s.c.established /\ is_active(s.sock)
  <2>1. local_to_remote(s) = s
    BY <1>1 DEF local_to_remote
  <2> QED
    BY <2>1
<1>2. CASE ~s.c.established /\ ~is_active(s.sock)
  <2>1. local_to_remote(s) = close_local(s)
    BY <1>2 DEF local_to_remote
  <2>2. a.reset \/ s.c.lclosed
    BY <1>2, InactiveEnded DEF Works
  <2> QED
    BY <2>1, <2>2, CloseLocal
<1>3. CASE s.c.established
  <2>1. PICK k, c, l, d : /\ k = s.sock /\ c = s.c /\ l = [k EXCEPT !.rx = <<>>]
                          /\ d = [c EXCEPT !.remote = write(c.remote, k.rx)]
    OBVIOUS
  <2>2. Fits(k, c, a) /\ s = Job(k, c) /\ k.app = o /\ c.established
    BY <1>3, <2>1 DEF Works
  <2>3. Fits(l, d, a) /\ l.app = k.app
    BY <2>1, <2>2, TakesUp
  <2>4. PICK t : t = [s EXCEPT !.sock.rx = <<>>, !.c.remote = write(@, s.sock.rx)]
    OBVIOUS
  <2>5. t = Job(l, d)
    <3>1. PICK q, v : q = write(c.remote, k.rx) /\ v = <<>>
      OBVIOUS
    <3>2. t = [s EXCEPT !.sock.rx = v, !.c.remote = q]
      BY <2>1, <2>4, <3>1
    <3>3. t = Onto([s EXCEPT !.sock.rx = v], q)
      BY <3>2 DEF Onto
    <3>4. [Job(k, c) EXCEPT !.sock.rx = v] = Job([k EXCEPT !.rx = v], c)
      BY ONLY TRUE DEF Job
    <3>5. [s EXCEPT !.sock.rx = v] = Job(l, c)
      BY <2>1, <2>2, <3>1, <3>4
    <3> QED
      BY <2>1, <3>1, <3>3, <3>5, OntoAs
  <2>6. t.sock = l /\ t.c = d
    BY <2>5 DEF Job
  <2>7. Works(t, o, a)
    BY ONLY <2>2, <2>3, <2>5, <2>6 DEF Works
  <2>8. PICK u : u = IF is_active(t.sock) THEN t ELSE close_local(t)
    OBVIOUS
  <2>9. Works(u, o, a)
    <3>1. CASE is_active(t.sock)
      BY <2>7, <2>8, <3>1
    <3>2. CASE ~is_active(t.sock)
      <4>1. a.reset \/ t.c.lclosed
        BY <2>7, <3>2, InactiveEnded DEF Works
      <4> QED
        BY <2>7, <2>8, <3>2, <4>1, CloseLocal
    <3> QED
      BY <3>1, <3>2
  <2>10. local_to_remote(s) = IF u.c.rclosed THEN u ELSE flush_remote(u)
    BY <1>3, <2>4, <2>8 DEF local_to_remote
  <2> QED
    BY <2>9, <2>10, FlushRemote
<1> QED
  BY <1>1, <1>2, <1>3

\* The first chunks of two sequences.
LEMMA PrefixOf ==
  ASSUME NEW d \in Chunks, NEW e \in Chunks, NEW n \in 0 .. Len(d)
  PROVE  SubSeq(d \o e, 1, n) = SubSeq(d, 1, n)
<1>1. Len(d) \in Nat /\ Len(e) \in Nat /\ d \o e \in Chunks /\ Len(d \o e) = Len(d) + Len(e)
  BY Joined, NothingJoined
<1>2. n \in 0 .. Len(d \o e)
  BY <1>1
<1>3. SubSeq(d \o e, 1, n) \in Chunks /\ Len(SubSeq(d \o e, 1, n)) = n
  BY <1>1, <1>2, SplitKeeps
<1>4. SubSeq(d, 1, n) \in Chunks /\ Len(SubSeq(d, 1, n)) = n
  BY SplitKeeps
<1>5. \A i \in 1 .. n : SubSeq(d \o e, 1, n)[i] = SubSeq(d, 1, n)[i]
  <2> SUFFICES ASSUME NEW i \in 1 .. n
               PROVE  SubSeq(d \o e, 1, n)[i] = SubSeq(d, 1, n)[i]
    OBVIOUS
  <2>1. SubSeq(d \o e, 1, n)[i] = (d \o e)[i]
    BY <1>1, <1>2, SubSeqProperties DEF Chunks
  <2>2. SubSeq(d, 1, n)[i] = d[i]
    BY <1>1, SubSeqProperties DEF Chunks
  <2>3. i \in 1 .. Len(d)
    BY <1>1
  <2>4. (d \o e)[i] = d[i]
    BY <1>1, <2>3, ConcatProperties DEF Chunks
  <2> QED
    BY <2>1, <2>2, <2>4
<1> QED
  BY <1>3, <1>4, <1>5, SeqEqual DEF Chunks

LEMMA PrefixBeyond ==
  ASSUME NEW d \in Chunks, NEW e \in Chunks, NEW n \in 0 .. Len(e)
  PROVE  SubSeq(d \o e, 1, Len(d) + n) = d \o SubSeq(e, 1, n)
<1>1. PICK f, g \in Chunks : f = SubSeq(e, 1, n) /\ g = Rest(e, n)
  BY SplitKeeps
<1>2. f \o g = e /\ Len(f) = n
  BY <1>1, SplitKeeps
<1>3. PICK x \in Chunks : x = d \o f
  BY Joined
<1>4. Len(x) = Len(d) + n /\ Len(x) \in Nat
  BY <1>2, <1>3, Joined, NothingJoined
<1>5. Regroups(d, f, g)
  BY Regrouping, Zenon
<1>6. d \o e = x \o g
  BY <1>2, <1>3, <1>5 DEF Regroups
<1>7. SubSeq(x \o g, 1, Len(x)) = SubSeq(x, 1, Len(x))
  BY <1>4, PrefixOf
<1>8. SubSeq(x, 1, Len(x)) = x
  BY SubSeqFull DEF Chunks
<1> QED
  BY <1>1, <1>3, <1>4, <1>6, <1>7, <1>8

\* One more than what was written is held.
HeldOf(data, n) == SubSeq(data, n + 1, Least(n + 1, Len(data)))

LEMMA HeldNext ==
  ASSUME NEW data \in Chunks, NEW n \in 0 .. Len(data)
  PROVE  /\ HeldOf(data, n) \in Chunks /\ Len(HeldOf(data, n)) \in {0, 1}
         /\ HeldOf(data, n) = <<>> <=> n = Len(data)
         /\ n + Len(HeldOf(data, n)) \in 0 .. Len(data)
         /\ n < Len(data) => Len(HeldOf(data, n)) = 1
         /\ SubSeq(data, 1, n) \o HeldOf(data, n) = SubSeq(data, 1, n + Len(HeldOf(data, n)))
<1>1. /\ Len(data) \in Nat /\ n \in Nat /\ \A i \in 1 .. Len(data) : data[i] \in Nat
      /\ SubSeq(data, 1, n) \in Chunks
  BY LenProperties, ElementOfSeq, SplitKeeps DEF Chunks
<1>2. PICK h : h = HeldOf(data, n)
  OBVIOUS
<1>3. CASE n = Len(data)
  <2>1. Least(n + 1, Len(data)) = n
    BY <1>1, <1>3 DEF Least
  <2>2. h = SubSeq(data, n + 1, n)
    BY <1>2, <2>1 DEF HeldOf
  <2>3. h = <<>>
    BY <1>1, <2>2, SubSeqEmpty
  <2> QED
    BY <1>1, <1>2, <1>3, <2>3, NothingJoined
<1>4. CASE n < Len(data)
  <2>1. Least(n + 1, Len(data)) = n + 1
    BY <1>1, <1>4 DEF Least
  <2>2. h = SubSeq(data, n + 1, n + 1)
    BY <1>2, <2>1 DEF HeldOf
  <2>3. PICK y \in Nat : y = n + 1 /\ y \in 1 .. Len(data)
    BY <1>1, <1>4
  <2>4. h \in Chunks /\ Len(h) = 1
    <3>1. \A i \in y .. y : data[i] \in Nat
      BY <1>1, <2>3
    <3>2. SubSeq(data, y, y) \in Seq(Nat) /\ Len(SubSeq(data, y, y)) = 1
      BY <1>1, <2>3, <3>1, SubSeqProperties DEF Chunks
    <3> QED
      BY <2>2, <2>3, <3>2 DEF Chunks
  <2>5. SubSeq(data, 1, n) \o SubSeq(data, n + 1, y) = SubSeq(data, 1, y)
    <3>1. 1 \in 1 .. Len(data) + 1 /\ n \in 1 - 1 .. Len(data) /\ y \in n .. Len(data)
      BY <1>1, <2>3
    <3> QED
      BY <3>1, ConcatAdjacentSubSeq DEF Chunks
  <2>6. h # <<>>
    <3>1. Len(<<>>) = 0
      BY <2>4, NothingJoined
    <3> QED
      BY <2>4, <3>1
  <2> QED
    BY <1>1, <1>2, <1>4, <2>2, <2>3, <2>4, <2>5, <2>6
<1> QED
  BY <1>1, <1>3, <1>4

\* Everything in the socket follows what was decrypted.
LEMMA SeenAll ==
  ASSUME NEW p, RemoteSound(p)
  PROVE  Count(p.seen) \o p.in = Count(p.seen + Len(p.in))
<1>1. p \in Remotes /\ p.in \in Chunks /\ p.seen \in Nat /\ p.said \in Nat /\ Len(p.in) \in Nat
  BY RemoteParts, NothingJoined DEF RemoteSound
<1>2. PICK a, b \in Chunks : a = Count(p.seen) /\ b = Count(p.said)
  BY <1>1, Counting
<1>3. Len(a) = p.seen /\ Len(b) = p.said /\ Len(a \o p.in) = Len(a) + Len(p.in)
  BY <1>1, <1>2, Counting, Joined
<1>4. CASE p.end # "rst"
  <2>1. a \o p.in = b
    BY <1>2, <1>4 DEF RemoteSound
  <2> QED
    BY <1>2, <1>3, <2>1
<1>5. CASE p.end = "rst"
  <2>1. p.in = <<>>
    BY <1>5 DEF RemoteSound
  <2>2. a \o p.in = a /\ Len(p.in) = 0
    BY <2>1, NothingJoined
  <2> QED
    BY <1>1, <1>2, <2>2
<1> QED
  BY <1>4, <1>5

\* What was read follows what was decrypted before.
LEMMA ReadKeeps ==
  ASSUME NEW p, RemoteSound(p), NEW m \in 0 .. Len(Readable(p)), NEW q, ReadOff(p, m, q),
         NEW x \in Chunks, x \o p.dec = Count(p.seen)
  PROVE  /\ (x \o SubSeq(Readable(p), 1, m)) \o q.dec = Count(q.seen)
         /\ m = Len(Readable(p)) => q.dec = <<>> /\ (Cut(q) \/ q.in = <<>>)
<1>1. /\ p \in Remotes /\ p.in \in Chunks /\ p.dec \in Chunks /\ Len(p.in) \in Nat /\ Len(p.dec) \in Nat
      /\ p.seen \in Nat
  BY RemoteParts, NothingJoined DEF RemoteSound
<1>2. PICK r, f : r = Readable(p) /\ f = SubSeq(r, 1, m)
  OBVIOUS
<1>3. (Cut(p) /\ r = p.dec) \/ (~Cut(p) /\ r = p.dec \o p.in)
  BY <1>1, <1>2, NothingJoined DEF Readable, Cut
<1>4. /\ r \in Chunks /\ p.dec \o p.in \in Chunks /\ Len(p.dec \o p.in) = Len(p.dec) + Len(p.in)
      /\ f \in Chunks /\ Rest(r, m) \in Chunks /\ f \o Rest(r, m) = r /\ Len(Rest(r, m)) = Len(r) - m
      /\ Len(r) \in Nat /\ m \in Nat
  <2>1. r \in Chunks /\ p.dec \o p.in \in Chunks /\ Len(p.dec \o p.in) = Len(p.dec) + Len(p.in)
    BY <1>1, <1>3, Joined
  <2> QED
    BY <1>2, <2>1, SplitKeeps, NothingJoined
<1>5. PICK A, B, R \in Nat : A = Len(p.dec) /\ B = Len(p.in) /\ R = Len(r)
  BY <1>1, <1>4, Zenon
<1>6. (Cut(p) /\ R = A) \/ (~Cut(p) /\ R = A + B)
  BY <1>3, <1>4, <1>5
<1>7. CASE m <= Len(p.dec)
  <2>1. m \in 0 .. Len(p.dec)
    BY <1>1, <1>4, <1>7
  <2>2. f = SubSeq(p.dec, 1, m)
    BY <1>1, <1>2, <1>3, <2>1, PrefixOf
  <2>3. PICK e \in Chunks : e = Rest(p.dec, m)
    BY <1>1, <2>1, SplitKeeps
  <2>4. f \o e = p.dec /\ Len(e) = Len(p.dec) - m
    BY <1>1, <2>1, <2>2, <2>3, SplitKeeps
  <2>5. q.dec = e /\ q.seen = p.seen /\ q.in = p.in /\ (Cut(q) <=> Cut(p))
    BY <1>1, <1>4, <1>7, <2>3 DEF ReadOff, Cut
  <2>6. Regroups(x, f, e)
    BY <1>4, Regrouping, Zenon
  <2>7. (x \o f) \o e = Count(p.seen)
    BY <2>4, <2>6 DEF Regroups
  <2>8. ASSUME m = Len(r) PROVE e = <<>> /\ (Cut(p) \/ p.in = <<>>)
    <3>1. m <= A /\ m = R /\ Len(e) = A - m
      BY <1>7, <1>5, <2>4, <2>8
    <3>2. Len(e) = 0 /\ (~Cut(p) => B = 0)
      BY ONLY <1>6, <3>1, A \in Nat, B \in Nat, R \in Nat
    <3> QED
      BY <1>1, <1>5, <3>2, NothingJoined
  <2> QED
    BY <1>2, <2>5, <2>7, <2>8
<1>8. CASE m > Len(p.dec)
  <2>1. r = p.dec \o p.in
    <3>1. m \in 0 .. R /\ m > A
      BY <1>2, <1>8, <1>5
    <3>2. ~Cut(p)
      BY ONLY <1>6, <3>1, A \in Nat, B \in Nat, R \in Nat
    <3> QED
      BY <1>3, <3>2
  <2>2. q.dec = Rest(r, m) /\ q.in = <<>> /\ q.seen = p.seen + Len(p.in)
    BY <1>1, <1>4, <1>8, <2>1 DEF ReadOff
  <2>3. PICK e \in Chunks : e = Rest(r, m)
    BY <1>4
  <2>4. Regroups(x, f, e) /\ Regroups(x, p.dec, p.in)
    BY <1>1, <1>4, Regrouping, Zenon
  <2>5. (x \o f) \o e = (x \o p.dec) \o p.in
    BY <1>4, <2>1, <2>3, <2>4 DEF Regroups
  <2>6. (x \o f) \o e = Count(q.seen)
    BY <2>2, <2>5, SeenAll
  <2>7. m = Len(r) => e = <<>>
    BY <1>4, <2>3, NothingJoined
  <2> QED
    BY <1>2, <2>2, <2>3, <2>6, <2>7
<1>9. m <= Len(p.dec) \/ m > Len(p.dec)
  BY <1>1, <1>4
<1> QED
  BY <1>7, <1>8, <1>9

\* n chunks of data go into the socket's buffer, one more is held, and as much
\* was read.
CopyOf(k, c, n, q) ==
  LET data == c.lbuffer \o Readable(c.remote)
      m    == n + Len(HeldOf(data, n)) - Len(c.lbuffer)
  IN  /\ n \in 0 .. Len(data) /\ Len(k.tx) + n <= TxCap
      /\ m \in 0 .. Len(Readable(c.remote)) /\ ReadOff(c.remote, m, q)

Copied(k, c, n, q, l, d) ==
  LET data == c.lbuffer \o Readable(c.remote)
  IN  /\ l = [k EXCEPT !.tx = k.tx \o SubSeq(data, 1, n)]
      /\ d = [[c EXCEPT !.lbuffer = HeldOf(data, n)] EXCEPT !.remote = q]

LEMMA CopiesDown ==
  ASSUME NEW k, NEW c, NEW a, Fits(k, c, a), NEW n, NEW q, CopyOf(k, c, n, q), NEW l, NEW d,
         Copied(k, c, n, q, l, d)
  PROVE  /\ Fits(l, d, a) /\ l.app = k.app /\ d.rclosed = c.rclosed
         /\ d.lbuffer = <<>> => a.reset \/ Cut(d.remote) \/ d.remote.in = <<>>
<1>1. PICK data : data = c.lbuffer \o Readable(c.remote)
  OBVIOUS
<1>2. PICK b, p, r, h, m, f, x : /\ b = c.lbuffer /\ p = c.remote /\ r = Readable(p) /\ h = HeldOf(data, n)
                                 /\ m = n + Len(h) - Len(b) /\ f = SubSeq(data, 1, n) /\ x = a.got \o k.tx
                                 /\ data = b \o r
                                 /\ l = [k EXCEPT !.tx = k.tx \o SubSeq(data, 1, n)]
                                 /\ d = [[c EXCEPT !.lbuffer = HeldOf(data, n)] EXCEPT !.remote = q]
  BY <1>1 DEF Copied
<1>3. /\ k \in Sockets /\ c \in TcpConns /\ RemoteSound(p) /\ b \in Chunks /\ k.tx \in Chunks /\ a.got \in Chunks
      /\ x \in Chunks /\ p.dec \in Chunks /\ p.in \in Chunks /\ Len(b) \in Nat /\ Len(k.tx) \in Nat /\ Len(b) <= 1
  BY <1>2, TcpParts, NothingJoined DEF Fits
<1>4. r \in Chunks /\ data \in Chunks /\ Len(r) \in Nat /\ Len(data) = Len(b) + Len(r)
  <2>1. r \in Chunks
    BY <1>2, <1>3, Joined, NothingJoined DEF Readable
  <2> QED
    BY <1>2, <1>3, <2>1, Joined, NothingJoined
<1>5. n \in 0 .. Len(data) /\ Len(k.tx) + n <= TxCap /\ m \in 0 .. Len(r) /\ ReadOff(p, m, q)
  BY <1>2 DEF CopyOf
<1>6. /\ h \in Chunks /\ Len(h) \in {0, 1} /\ (h = <<>> <=> n = Len(data))
      /\ f \o h = SubSeq(data, 1, n + Len(h)) /\ f \in Chunks /\ Len(f) = n
  <2>1. data \in Chunks /\ n \in 0 .. Len(data)
    BY <1>4, <1>5
  <2>2. SubSeq(data, 1, n) \in Chunks /\ Len(SubSeq(data, 1, n)) = n
    BY ONLY <2>1, SplitKeeps
  <2>3. /\ HeldOf(data, n) \in Chunks /\ Len(HeldOf(data, n)) \in {0, 1}
        /\ HeldOf(data, n) = <<>> <=> n = Len(data)
        /\ SubSeq(data, 1, n) \o HeldOf(data, n) = SubSeq(data, 1, n + Len(HeldOf(data, n)))
    BY ONLY <2>1, HeldNext, Zenon
  <2> QED
    BY ONLY <1>2, <2>2, <2>3, Zenon
<1>7. f \o h = b \o SubSeq(r, 1, m)
  <2>1. n + Len(h) = Len(b) + m
    <3>1. n \in Nat /\ Len(h) \in Nat /\ Len(b) \in Nat /\ m = n + Len(h) - Len(b)
      BY <1>2, <1>3, <1>5, <1>6
    <3>2. PICK y, z \in Nat : y = Len(h) /\ z = Len(b)
      BY <3>1, Zenon
    <3>3. n \in Nat /\ m = n + y - z
      BY <3>1, <3>2
    <3>4. n + y = z + m
      BY ONLY <3>3, y \in Nat, z \in Nat
    <3> QED
      BY <3>2, <3>4
  <2>2. SubSeq(b \o r, 1, Len(b) + m) = b \o SubSeq(r, 1, m)
    BY <1>3, <1>4, <1>5, PrefixBeyond
  <2> QED
    BY <1>2, <1>6, <2>1, <2>2
<1>8. RemoteSound(q) /\ q \in Remotes /\ q.end = p.end /\ q.shut = p.shut /\ Upward(q) = Upward(p)
      /\ (q.in = p.in \/ q.in = <<>>) /\ q.dec \in Chunks
  BY <1>5, RemoteParts DEF ReadOff, RemoteSound
<1>9. k.tx \o f \in Chunks /\ Len(k.tx \o f) = Len(k.tx) + n
  BY <1>3, <1>6, Joined
<1>10. /\ l \in Sockets /\ l.tx = k.tx \o f /\ l.rx = k.rx /\ l.state = k.state /\ l.wakers = k.wakers
      /\ l.app = k.app
  BY <1>2, <1>3, <1>9 DEF Sockets
<1>11. /\ d \in TcpConns /\ d.remote = q /\ d.lbuffer = h /\ d.established = c.established
       /\ d.lclosed = c.lclosed /\ d.rclosed = c.rclosed
  BY <1>2, <1>3, <1>6, <1>8 DEF TcpConns
<1>12. UpKept(l, d, a)
  BY <1>2, <1>8, <1>10, <1>11 DEF Fits, UpKept, Lead
<1>13. ASSUME DownKept(k, c, a)
       PROVE  /\ ((a.got \o l.tx) \o h) \o q.dec = Count(q.seen)
              /\ h = <<>> => q.dec = <<>> /\ (Cut(q) \/ q.in = <<>>)
  <2>1. PICK y, z \in Chunks : y = x \o b /\ z = SubSeq(r, 1, m)
    BY <1>3, <1>4, <1>5, Joined, SplitKeeps
  <2>2. y \o p.dec = Count(p.seen)
    BY <1>2, <1>13, <2>1 DEF DownKept
  <2>3. /\ (y \o z) \o q.dec = Count(q.seen)
        /\ m = Len(r) => q.dec = <<>> /\ (Cut(q) \/ q.in = <<>>)
    <3>1. m \in 0 .. Len(Readable(p)) /\ ReadOff(p, m, q) /\ RemoteSound(p)
      BY <1>2, <1>3, <1>5
    <3>2. /\ (y \o SubSeq(Readable(p), 1, m)) \o q.dec = Count(q.seen)
          /\ m = Len(Readable(p)) => q.dec = <<>> /\ (Cut(q) \/ q.in = <<>>)
      BY ONLY <2>2, <3>1, y \in Chunks, ReadKeeps, Zenon
    <3> QED
      BY ONLY <1>2, <2>1, <3>2, Zenon
  <2>4. Regroups(a.got, k.tx, f) /\ Regroups(x, f, h) /\ Regroups(x, b, z)
    BY <1>3, <1>6, <2>1, Regrouping, Zenon
  <2>5. a.got \o (k.tx \o f) = x \o f /\ (x \o f) \o h = x \o (f \o h) /\ (x \o b) \o z = x \o (b \o z)
    BY <1>2, <2>4 DEF Regroups
  <2>6. (a.got \o l.tx) \o h = y \o z
    BY <1>7, <1>10, <2>1, <2>5
  <2>7. h = <<>> => m = Len(r)
    <3>1. h = <<>> => Len(h) = 0
      BY <1>3, NothingJoined
    <3> QED
      <4>1. PICK x1, y1, z1 : x1 = Len(h) /\ y1 = Len(b) /\ z1 = Len(r)
        OBVIOUS
      <4>2. n \in Int /\ y1 \in Nat /\ z1 \in Nat /\ m = n + x1 - y1
        <5>1. n \in Int
          BY ONLY <1>5
        <5>2. y1 \in Nat /\ z1 \in Nat
          BY ONLY <1>3, <1>4, <4>1
        <5>3. m = n + x1 - y1
          BY ONLY <1>2, <4>1, Zenon
        <5> QED
          BY ONLY <5>1, <5>2, <5>3
      <4>3. h = <<>> => x1 = 0 /\ n = y1 + z1
        BY <1>4, <1>6, <3>1, <4>1
      <4>4. h = <<>> => m = z1
        BY ONLY <4>2, <4>3
      <4> QED
        BY <4>1, <4>4
  <2> QED
    BY <2>3, <2>6, <2>7
<1>14. DownKept(l, d, a) \/ (a.reset /\ d.lclosed)
  <2>1. CASE DownKept(k, c, a)
    BY <1>10, <1>11, <1>13, <2>1 DEF DownKept
  <2>2. CASE a.reset /\ c.lclosed
    BY <1>11, <2>2
  <2> QED
    BY <2>1, <2>2 DEF Fits
<1>15. a.reset \/ Orderly(l, d, a)
  <2> SUFFICES ASSUME ~a.reset PROVE Orderly(l, d, a)
    OBVIOUS
  <2>1. Orderly(k, c, a)
    BY DEF Fits
  <2>2. c.lclosed => b = <<>> /\ p.dec = <<>> /\ p.shut
    BY <1>2, <2>1 DEF Orderly, Fits
  <2>3. c.lclosed => data = <<>>
    BY <1>2, <1>3, <2>2, NothingJoined DEF Readable
  <2>4. c.lclosed => n = 0 /\ h = <<>>
    <3> SUFFICES ASSUME c.lclosed PROVE n = 0 /\ h = <<>>
      OBVIOUS
    <3>1. Len(data) = 0
      BY <1>4, <2>3, NothingJoined
    <3> QED
      BY <1>5, <1>6, <3>1
  <2>5. c.lclosed => l.tx = k.tx
    <3> SUFFICES ASSUME c.lclosed PROVE l.tx = k.tx
      OBVIOUS
    <3>1. f = <<>>
      BY <1>6, <2>4, NothingJoined
    <3> QED
      BY <1>3, <1>10, <3>1, NothingJoined
  <2>6. c.lclosed => q.dec = <<>>
    <3>1. DownKept(k, c, a)
      BY DEF Fits
    <3> QED
      BY <1>13, <2>4, <3>1
  <2> QED
    BY <1>2, <1>8, <1>10, <1>11, <2>1, <2>4, <2>5, <2>6 DEF Orderly
<1>16. Len(l.tx) <= TxCap /\ Len(d.lbuffer) <= 1
  <2>1. Len(l.tx) = Len(k.tx) + n /\ Len(d.lbuffer) = Len(h)
    BY <1>9, <1>10, <1>11
  <2>2. PICK y, z : y = Len(l.tx) /\ z = Len(d.lbuffer)
    OBVIOUS
  <2>3. y <= TxCap
    BY <1>5, <2>1, <2>2
  <2>4. z \in {0, 1}
    BY <1>6, <2>1, <2>2
  <2>5. z <= 1
    BY ONLY <2>4
  <2> QED
    BY <2>2, <2>3, <2>5
<1>17. Fits(l, d, a)
  BY <1>2, <1>8, <1>10, <1>11, <1>12, <1>14, <1>15, <1>16 DEF Fits
<1>18. d.lbuffer = <<>> => a.reset \/ Cut(d.remote) \/ d.remote.in = <<>>
  <2> SUFFICES ASSUME h = <<>>, ~a.reset PROVE Cut(q) \/ q.in = <<>>
    BY <1>11
  <2>1. c.rclosed = p.shut /\ DownKept(k, c, a)
    BY <1>2 DEF Fits
  <2> QED
    BY <1>8, <1>11, <1>13, <2>1
<1> QED
  BY <1>10, <1>11, <1>17, <1>18

\* What copy_stream takes is what there is room for.
LEMMA CopyBounds ==
  ASSUME NEW k, NEW c, NEW a, Fits(k, c, a), NEW data, NEW room, NEW n, NEW q,
         data = c.lbuffer \o Readable(c.remote),
         room = (IF may_send(k) THEN TxCap - Len(k.tx) ELSE 0), n = Least(room, Len(data)),
         q = (IF n + Len(HeldOf(data, n)) <= Len(c.lbuffer) THEN c.remote
              ELSE ReadSome(c.remote, n + Len(HeldOf(data, n)) - Len(c.lbuffer)))
  PROVE  CopyOf(k, c, n, q)
<1>1. PICK b, p, r, h : b = c.lbuffer /\ p = c.remote /\ r = Readable(p) /\ h = HeldOf(data, n)
  OBVIOUS
<1>2. /\ RemoteSound(p) /\ b \in Chunks /\ p.dec \in Chunks /\ p.in \in Chunks /\ Len(b) \in Nat
      /\ Len(k.tx) \in Nat /\ Len(k.tx) <= TxCap /\ TxCap \in Nat /\ Len(b) <= 1
  BY <1>1, TcpParts, NothingJoined, BuffersAssumption DEF Fits
<1>3. r \in Chunks /\ data \in Chunks /\ Len(r) \in Nat /\ Len(data) = Len(b) + Len(r)
  <2>1. r \in Chunks
    BY <1>1, <1>2, Joined, NothingJoined DEF Readable
  <2> QED
    BY <1>1, <1>2, <2>1, Joined, NothingJoined
<1>4. PICK x, y, z \in Nat : x = Len(k.tx) /\ y = Len(b) /\ z = Len(r)
  BY <1>2, <1>3, Zenon
<1>5. x <= TxCap /\ y <= 1 /\ Len(data) = y + z /\ TxCap \in Nat
  BY <1>2, <1>3, <1>4
<1>6. room \in Nat /\ x + room <= TxCap
  <2>1. room = TxCap - x \/ room = 0
    BY <1>4
  <2> QED
    BY ONLY <1>5, <2>1, x \in Nat
<1>7. n \in 0 .. y + z /\ x + n <= TxCap
  <2>1. n = Least(room, y + z)
    BY <1>5
  <2> QED
    BY ONLY <1>5, <1>6, <2>1, x \in Nat, y \in Nat, z \in Nat DEF Least
<1>8. n \in 0 .. Len(data)
  BY <1>5, <1>7
<1>9. Len(h) \in {0, 1} /\ n + Len(h) \in 0 .. Len(data) /\ (n < Len(data) => Len(h) = 1)
  <2>1. /\ Len(HeldOf(data, n)) \in {0, 1} /\ n + Len(HeldOf(data, n)) \in 0 .. Len(data)
        /\ n < Len(data) => Len(HeldOf(data, n)) = 1
    BY ONLY <1>3, <1>8, HeldNext, Zenon
  <2> QED
    BY ONLY <1>1, <2>1, Zenon
<1>10. PICK w : w = Len(h)
  OBVIOUS
<1>11. w \in {0, 1} /\ n + w <= y + z /\ (n < y + z => w = 1)
  BY <1>5, <1>7, <1>9, <1>10
<1>12. PICK m : m = n + w - y
  OBVIOUS
<1>13. m \in 0 .. z /\ (n + w <= y => m = 0)
  BY ONLY <1>5, <1>7, <1>11, <1>12, y \in Nat, z \in Nat
<1>14. q = IF n + w <= y THEN p ELSE ReadSome(p, m)
  BY <1>1, <1>4, <1>10, <1>12
<1>15. ReadOff(p, m, q)
  <2>1. CASE n + w <= y
    <3>1. m = 0 /\ q = p
      BY <1>13, <1>14, <2>1
    <3>2. Len(p.dec) \in Nat /\ 0 <= Len(p.dec)
      BY <1>2, NothingJoined
    <3>3. Rest(p.dec, 0) = p.dec
      <4>1. 0 + 1 = 1
        OBVIOUS
      <4>2. SubSeq(p.dec, 1, Len(p.dec)) = p.dec
        BY <1>2, SubSeqFull DEF Chunks
      <4> QED
        BY <4>1, <4>2 DEF Rest
    <3> QED
      BY <1>2, <3>1, <3>2, <3>3 DEF ReadOff
  <2>2. CASE ~(n + w <= y)
    <3>1. q = ReadSome(p, m) /\ m \in 0 .. Len(Readable(p))
      BY <1>1, <1>4, <1>13, <1>14, <2>2
    <3> QED
      BY <1>2, <3>1, Reads
  <2> QED
    BY <2>1, <2>2
<1>16. m = n + Len(HeldOf(data, n)) - Len(c.lbuffer)
  BY <1>1, <1>4, <1>10, <1>12
<1>17. Len(k.tx) + n <= TxCap /\ m \in 0 .. Len(Readable(c.remote)) /\ ReadOff(c.remote, m, q)
  BY <1>1, <1>4, <1>7, <1>13, <1>15
<1> QED
  BY <1>8, <1>16, <1>17 DEF CopyOf

\* copy_stream towards the application.
LEMMA CopyToLocalWorks ==
  ASSUME NEW s, NEW o, NEW a, Works(s, o, a)
  PROVE  /\ Works(CopyToLocal(s), o, a)
         /\ CopyToLocal(s).c.lbuffer = <<>> =>
              a.reset \/ Cut(CopyToLocal(s).c.remote) \/ CopyToLocal(s).c.remote.in = <<>>
<1>1. PICK k, c, data, room, n, h, q, l, d, f, t :
        /\ k = s.sock /\ c = s.c /\ data = c.lbuffer \o Readable(c.remote) /\ t = CopyToLocal(s)
        /\ room = (IF may_send(k) THEN TxCap - Len(k.tx) ELSE 0) /\ n = Least(room, Len(data))
        /\ h = HeldOf(data, n)
        /\ q = (IF n + Len(h) <= Len(c.lbuffer) THEN c.remote ELSE ReadSome(c.remote, n + Len(h) - Len(c.lbuffer)))
        /\ f = k.tx \o SubSeq(data, 1, n)
        /\ l = [k EXCEPT !.tx = f] /\ d = [[c EXCEPT !.lbuffer = h] EXCEPT !.remote = q]
  OBVIOUS
<1>2. Fits(k, c, a) /\ s = Job(k, c) /\ k.app = o
  BY <1>1 DEF Works
<1>3. CopyOf(k, c, n, q)
  BY <1>1, <1>2, CopyBounds
<1>4. /\ Fits(l, d, a) /\ l.app = k.app /\ d.rclosed = c.rclosed
      /\ d.lbuffer = <<>> => a.reset \/ Cut(d.remote) \/ d.remote.in = <<>>
  <2>1. Copied(k, c, n, q, l, d)
    BY <1>1 DEF Copied
  <2> QED
    BY ONLY <1>2, <1>3, <2>1, CopiesDown
<1>5. t = [s EXCEPT !.sock.tx = f, !.c.lbuffer = h, !.c.remote = q]
  BY <1>1 DEF CopyToLocal, HeldOf
<1>6. t = Job(l, d)
  <2>1. PICK u, v : u = [s EXCEPT !.sock.tx = f] /\ v = [u EXCEPT !.c.lbuffer = h]
    OBVIOUS
  <2>2. t = Onto(v, q)
    BY ONLY <1>5, <2>1 DEF Onto
  <2>3. [Job(k, c) EXCEPT !.sock.tx = f] = Job([k EXCEPT !.tx = f], c)
    BY ONLY TRUE DEF Job
  <2>4. [Job(l, c) EXCEPT !.c.lbuffer = h] = Job(l, [c EXCEPT !.lbuffer = h])
    BY ONLY TRUE DEF Job
  <2>5. PICK e : e = [c EXCEPT !.lbuffer = h]
    OBVIOUS
  <2>6. Onto(Job(l, e), q) = Job(l, [e EXCEPT !.remote = q])
    BY OntoAs
  <2>7. u = Job(l, c)
    BY ONLY <1>1, <1>2, <2>3, <2>1
  <2>8. v = Job(l, e)
    BY ONLY <2>4, <2>5, <2>1, <2>7
  <2>9. d = [e EXCEPT !.remote = q]
    BY ONLY <1>1, <2>5
  <2> QED
    BY ONLY <2>2, <2>6, <2>8, <2>9
<1>7. t.sock = l /\ t.c = d
  BY <1>6 DEF Job
<1>8. Works(t, o, a)
  BY ONLY <1>2, <1>4, <1>6, <1>7 DEF Works
<1> QED
  BY <1>1, <1>4, <1>7, <1>8

\* What waits for an application that has reset the connection is dropped.
LEMMA DropsHeld ==
  ASSUME NEW s, NEW o, NEW a, Works(s, o, a), a.reset, NEW e, e = [s EXCEPT !.c.lbuffer = <<>>]
  PROVE  Works(close_local(e), o, a)
<1>1. PICK k, c, v, d : k = s.sock /\ c = s.c /\ v = <<>> /\ d = [c EXCEPT !.lbuffer = v]
  OBVIOUS
<1>2. Fits(k, c, a) /\ s = Job(k, c) /\ k.app = o
  BY <1>1 DEF Works
<1>3. e = Job(k, d)
  <2>1. [Job(k, c) EXCEPT !.c.lbuffer = v] = Job(k, [c EXCEPT !.lbuffer = v])
    BY ONLY TRUE DEF Job
  <2> QED
    BY <1>1, <1>2, <2>1
<1>4. k \in Sockets /\ c \in TcpConns /\ v \in Chunks /\ Len(v) <= 1
  BY <1>1, <1>2, TcpParts, NothingJoined DEF Fits
<1>5. /\ d \in TcpConns /\ d.lbuffer = <<>> /\ d.lclosed = c.lclosed /\ d.rclosed = c.rclosed
      /\ d.remote = c.remote /\ d.established = c.established
  BY <1>1, <1>4 DEF TcpConns
<1>6. CASE c.lclosed
  <2>1. UpKept(k, d, a)
    BY <1>2, <1>5 DEF Fits, UpKept, Lead
  <2>2. Fits(k, d, a)
    BY <1>1, <1>2, <1>4, <1>5, <1>6, <2>1 DEF Fits
  <2>3. e.sock = k /\ e.c = d
    BY <1>3 DEF Job
  <2>4. Works(e, o, a)
    BY ONLY <1>2, <1>3, <2>2, <2>3 DEF Works
  <2>5. close_local(e) = e
    BY <1>5, <1>6, <2>3 DEF close_local
  <2> QED
    BY <2>4, <2>5
<1>7. CASE ~c.lclosed
  <2>1. PICK l, g : close_local(e) = Job(l, g) /\ LocalClosed(k, d, l, g)
    <3>1. ~d.lclosed
      BY <1>5, <1>7
    <3> QED
      BY ONLY <1>3, <1>4, <3>1, CloseLocalAs, Zenon
  <2>2. PICK x \in Ending : l = [[k EXCEPT !.wakers = {}] EXCEPT !.state = x] /\ g = [d EXCEPT !.lclosed = TRUE]
    BY <2>1 DEF LocalClosed
  <2>3. l \in Sockets /\ l.app = k.app /\ l.rx = k.rx /\ l.tx = k.tx /\ l.wakers = {} /\ l.state = x
    BY <1>4, <2>2 DEF Sockets, States, Ending
  <2>4. /\ g \in TcpConns /\ g.lclosed = TRUE /\ g.rclosed = c.rclosed /\ g.lbuffer = <<>>
        /\ g.remote = c.remote /\ g.established = c.established
    BY <1>5, <2>2 DEF TcpConns
  <2>5. UpKept(l, g, a)
    BY <1>2, <2>3, <2>4 DEF Fits, UpKept, Lead
  <2>6. Fits(l, g, a)
    BY <1>1, <1>2, <1>4, <2>3, <2>4, <2>5 DEF Fits
  <2>7. close_local(e).sock = l /\ close_local(e).c = g
    BY <2>1 DEF Job
  <2>8. l.app = o
    BY <1>2, <2>3
  <2> QED
    BY ONLY <2>1, <2>6, <2>7, <2>8 DEF Works
<1> QED
  BY <1>6, <1>7

\* remote_to_local: the remote side is closed when everything was read.
LEMMA RemoteToLocal ==
  ASSUME NEW s, NEW o, NEW a, Works(s, o, a)
  PROVE  Works(remote_to_local(s), o, a)
<1>1. PICK t : t = CopyToLocal(s)
  OBVIOUS
<1>2. Works(t, o, a) /\ (t.c.lbuffer = <<>> => a.reset \/ Cut(t.c.remote) \/ t.c.remote.in = <<>>)
  BY <1>1, CopyToLocalWorks
<1>3. RemoteSound(t.c.remote)
  BY <1>2 DEF Works, Fits
<1>4. PICK u : u = CASE t.c.lbuffer # <<>> /\ is_active(t.sock)  -> t
                     [] t.c.lbuffer # <<>> /\ ~is_active(t.sock) -> close_local([t EXCEPT !.c.lbuffer = <<>>])
                     [] t.c.lbuffer = <<>> /\ ReadBreaks(t.c.remote)  -> close_remote(t)
                     [] OTHER -> [t EXCEPT !.c.remote = ReadBlocks(@)]
  OBVIOUS
<1>5. Works(u, o, a)
  <2>1. CASE t.c.lbuffer # <<>> /\ is_active(t.sock)
    <3>1. u = t
      BY <1>4, <2>1
    <3> QED
      BY <1>2, <3>1
  <2>2. CASE t.c.lbuffer # <<>> /\ ~is_active(t.sock)
    <3>1. PICK e : e = [t EXCEPT !.c.lbuffer = <<>>]
      OBVIOUS
    <3>2. u = close_local(e)
      BY <1>4, <2>2, <3>1
    <3>3. a.reset
      <4>1. a.reset \/ t.c.lclosed
        BY <1>2, <2>2, InactiveEnded DEF Works
      <4>2. a.reset \/ (t.c.lclosed => t.c.lbuffer = <<>>)
        BY <1>2 DEF Works, Fits, Orderly
      <4> QED
        BY <2>2, <4>1, <4>2
    <3> QED
      BY <1>2, <3>1, <3>2, <3>3, DropsHeld
  <2>3. CASE t.c.lbuffer = <<>> /\ ReadBreaks(t.c.remote)
    <3>1. u = close_remote(t)
      BY <1>4, <2>3
    <3>2. t.c.rclosed = t.c.remote.shut
      BY <1>2 DEF Works, Fits
    <3>3. t.c.rclosed \/ a.reset \/ t.c.remote.end # "fin" \/ t.c.remote.in = <<>>
      BY <1>2, <2>3, <3>2 DEF Cut
    <3> QED
      BY <1>2, <3>1, <3>3, CloseRemote
  <2>4. CASE t.c.lbuffer = <<>> /\ ~ReadBreaks(t.c.remote)
    <3>1. u = Onto(t, ReadBlocks(t.c.remote))
      BY <1>4, <2>4 DEF Onto
    <3>2. Moved(t.c.remote, ReadBlocks(t.c.remote))
      BY <1>3, HandshakeEnds
    <3> QED
      BY <1>2, <3>1, <3>2, MovesOn
  <2> QED
    BY <2>1, <2>2, <2>3, <2>4
<1>6. remote_to_local(s) = IF u.c.rclosed /\ u.c.lbuffer = <<>> /\ t.sock.tx = <<>> THEN close_local(u) ELSE u
  BY <1>1, <1>4 DEF remote_to_local
<1>7. CASE u.c.rclosed /\ u.c.lbuffer = <<>> /\ t.sock.tx = <<>>
  <2>1. u.c.lclosed \/ a.reset \/ (u.c.rclosed /\ u.c.lbuffer = <<>> /\ u.c.remote.dec = <<>>)
    BY <1>5, <1>7 DEF Works, Fits, DownKept
  <2> QED
    BY <1>5, <1>6, <1>7, <2>1, CloseLocal
<1> QED
  BY <1>5, <1>6, <1>7

\* An event ends the time in which nothing has happened.
LEMMA NotIdle ==
  ASSUME NEW k, NEW c, NEW a, Fits(k, c, a), NEW i \in Nat
  PROVE  Fits(k, [c EXCEPT !.idle = i], a)
<1>1. PICK d : d = [c EXCEPT !.idle = i]
  OBVIOUS
<1>2. /\ d \in TcpConns /\ d.remote = c.remote /\ d.lbuffer = c.lbuffer /\ d.established = c.established
      /\ d.lclosed = c.lclosed /\ d.rclosed = c.rclosed
  BY <1>1 DEF Fits, TcpConns
<1>3. SameData(c, d)
  BY <1>2 DEF SameData, Fits
<1>4. a.reset \/ (d.rclosed /\ d.remote.end = "fin" => d.remote.in = <<>>)
  BY <1>2 DEF Fits, Orderly
<1> QED
  BY <1>1, <1>2, <1>3, <1>4, SameDataFits

LEMMA Wakes ==
  ASSUME NEW s, NEW o, NEW a, Works(s, o, a), NEW t, t = [s EXCEPT !.c.idle = 0]
  PROVE  /\ Works(t, o, a) /\ t.c.lclosed = s.c.lclosed /\ t.c.rclosed = s.c.rclosed
         /\ t.c.established = s.c.established
<1>1. PICK k, c, d : k = s.sock /\ c = s.c /\ d = [c EXCEPT !.idle = 0]
  OBVIOUS
<1>2. Fits(k, c, a) /\ s = Job(k, c) /\ k.app = o /\ c \in TcpConns
  BY <1>1 DEF Works, Fits
<1>3. Fits(k, d, a)
  BY <1>1, <1>2, NotIdle
<1>4. t = Job(k, d)
  <2>1. [Job(k, c) EXCEPT !.c.idle = 0] = Job(k, [c EXCEPT !.idle = 0])
    BY ONLY TRUE DEF Job
  <2> QED
    BY <1>1, <1>2, <2>1
<1>5. t.sock = k /\ t.c = d
  BY <1>4 DEF Job
<1>6. Works(t, o, a)
  BY ONLY <1>2, <1>3, <1>4, <1>5 DEF Works
<1>7. d.lclosed = c.lclosed /\ d.rclosed = c.rclosed /\ d.established = c.established
  BY <1>1, <1>2 DEF TcpConns
<1> QED
  BY <1>1, <1>5, <1>6, <1>7

\* The request is the first that is written for the server.
LEMMA RequestFirst ==
  ASSUME NEW k, NEW c, NEW a, Fits(k, c, a), ~c.established, NEW d,
         d = [[c EXCEPT !.remote = write(c.remote, <<Header>>)] EXCEPT !.established = TRUE]
  PROVE  Fits(k, d, a) /\ d.lclosed = c.lclosed
<1>1. PICK q, p, x : q = write(c.remote, <<Header>>) /\ p = c.remote /\ x = <<Header>>
  OBVIOUS
<1>2. c \in TcpConns /\ RemoteSound(p) /\ x \in Chunks
  <2>1. Header \in Nat
    BY DEF Header
  <2> QED
    BY <1>1, <2>1 DEF Fits, Chunks
<1>3. Wrote(p, x, q)
  BY <1>1, <1>2, Writes
<1>4. RemoteSound(q) /\ q \in Remotes /\ Alike(p, q) /\ q.shut = p.shut /\ Upward(q) = Upward(p) \o x
  BY <1>3 DEF Wrote, RemoteSound
<1>5. /\ d \in TcpConns /\ d.remote = q /\ d.lbuffer = c.lbuffer /\ d.established = TRUE
      /\ d.lclosed = c.lclosed /\ d.rclosed = c.rclosed
  BY <1>1, <1>2, <1>4 DEF TcpConns
<1>6. UpKept(k, d, a)
  <2>1. Upward(p) = <<>> /\ Upward(p) \o k.rx = <<>> \o Count(a.sent)
    BY <1>1 DEF Fits, UpKept, Lead
  <2>2. k.rx \in Chunks /\ a.sent \in Nat
    BY TcpParts
  <2>3. Count(a.sent) \in Chunks
    BY <2>2, Counting
  <2>4. k.rx = Count(a.sent)
    BY <2>1, <2>2, <2>3, NothingJoined
  <2>5. Upward(q) = x
    BY <1>2, <1>4, <2>1, NothingJoined
  <2> QED
    BY <1>1, <1>5, <2>4, <2>5 DEF UpKept, Lead
<1>7. DownKept(k, d, a) \/ (a.reset /\ d.lclosed)
  BY <1>1, <1>4, <1>5 DEF Fits, DownKept, Alike
<1>8. a.reset \/ Orderly(k, d, a)
  BY <1>1, <1>4, <1>5 DEF Fits, Orderly, Alike
<1> QED
  BY <1>1, <1>4, <1>5, <1>6, <1>7, <1>8 DEF Fits

\* After a handler, the local side is closed only if the remote side is.
Worked(s, o, a) == Works(s, o, a) /\ (s.c.lclosed => s.c.rclosed)

LEMMA Reregistered ==
  ASSUME NEW s, NEW o, NEW a, Works(s, o, a)
  PROVE  Worked(reregister_local(check_half_close(s)), o, a)
BY CheckHalfClose, ReregisterLocal DEF Worked

LEMMA DoLocal ==
  ASSUME NEW s, NEW o, NEW a, Works(s, o, a), NEW kinds
  PROVE  Worked(do_local(s, kinds), o, a)
<1>1. PICK x : x = [s EXCEPT !.c.idle = 0]
  OBVIOUS
<1>2. PICK y : y = IF "rx" \in kinds THEN local_to_remote(x) ELSE x
  OBVIOUS
<1>3. PICK z : z = IF "tx" \in kinds THEN remote_to_local(y) ELSE y
  OBVIOUS
<1>4. Works(x, o, a)
  BY <1>1, Wakes
<1>5. Works(y, o, a)
  BY <1>2, <1>4, LocalToRemote
<1>6. Works(z, o, a)
  BY <1>3, <1>5, RemoteToLocal
<1>7. do_local(s, kinds) = reregister_local(check_half_close(z))
  BY <1>1, <1>2, <1>3 DEF do_local
<1> QED
  BY <1>6, <1>7, Reregistered

LEMMA DoRemote ==
  ASSUME NEW s, NEW o, NEW a, Works(s, o, a), NEW kinds
  PROVE  Worked(do_remote(s, kinds), o, a)
<1>1. PICK x : x = [s EXCEPT !.c.idle = 0]
  OBVIOUS
<1>2. PICK y : y = IF s.c.established THEN x
                   ELSE [x EXCEPT !.c.remote = write(@, <<Header>>), !.c.established = TRUE]
  OBVIOUS
<1>3. PICK z : z = IF "w" \in kinds THEN local_to_remote(y) ELSE x
  OBVIOUS
<1>4. PICK u : u = IF "r" \in kinds THEN remote_to_local(z) ELSE z
  OBVIOUS
<1>5. Works(x, o, a) /\ x.c.lclosed = s.c.lclosed /\ x.c.established = s.c.established
  BY <1>1, Wakes
<1>6. Works(y, o, a)
  <2>1. CASE s.c.established
    BY <1>2, <1>5, <2>1
  <2>2. CASE ~s.c.established
    <3>1. PICK k, c, q, v, d, e : /\ k = x.sock /\ c = x.c /\ q = write(c.remote, <<Header>>) /\ v = TRUE
                               /\ e = [c EXCEPT !.remote = q] /\ d = [e EXCEPT !.established = v]
      OBVIOUS
    <3>2. Fits(k, c, a) /\ x = Job(k, c) /\ k.app = o /\ ~c.established
      BY <1>5, <2>2, <3>1 DEF Works
    <3>3. Fits(k, d, a)
      BY <3>1, <3>2, RequestFirst
    <3>4. y = [x EXCEPT !.c.remote = q, !.c.established = v]
      BY <1>2, <2>2, <3>1
    <3>5. y = [Onto(x, q) EXCEPT !.c.established = v]
      BY ONLY <3>4 DEF Onto
    <3>6. [Job(k, e) EXCEPT !.c.established = v] = Job(k, [e EXCEPT !.established = v])
      BY ONLY TRUE DEF Job
    <3>7. Onto(x, q) = Job(k, e)
      BY <3>1, <3>2, OntoAs
    <3>8. y = Job(k, d)
      BY ONLY <3>1, <3>5, <3>6, <3>7
    <3>9. y.sock = k /\ y.c = d
      BY <3>8 DEF Job
    <3> QED
      BY ONLY <3>2, <3>3, <3>8, <3>9 DEF Works
  <2> QED
    BY <2>1, <2>2
<1>7. Works(z, o, a)
  BY <1>3, <1>5, <1>6, LocalToRemote
<1>8. Works(u, o, a)
  BY <1>4, <1>7, RemoteToLocal
<1>9. CASE "w" \in kinds /\ ~s.c.established /\ s.c.lclosed
  <2>1. do_remote(s, kinds) = close_remote(x)
    BY <1>1, <1>9 DEF do_remote
  <2>2. x.c.rclosed \/ a.reset
    BY <1>5, <1>9 DEF Works, Fits, Orderly
  <2> QED
    BY <1>5, <2>1, <2>2, CloseRemote DEF Worked
<1>10. CASE ~("w" \in kinds /\ ~s.c.established /\ s.c.lclosed)
  <2>1. do_remote(s, kinds) = reregister_local(check_half_close(u))
    BY <1>1, <1>2, <1>3, <1>4, <1>10 DEF do_remote
  <2> QED
    BY <1>8, <2>1, Reregistered
<1> QED
  BY <1>9, <1>10

-----------------------------------------------------------------------------
(* The segments of an application *)

\* What a segment works on.
Seg(k) == [sock |-> k, ev |-> {}]

LEMMA WakeSocket ==
  ASSUME NEW k, NEW kinds
  PROVE  Wake(Seg(k), kinds).sock = [k EXCEPT !.wakers = k.wakers \ kinds]
BY DEF Wake, Seg

LEMMA SetStateSocket ==
  ASSUME NEW k \in Sockets, NEW x \in States, NEW l, l = set_state(Seg(k), x).sock
  PROVE  /\ l \in Sockets /\ l.app = k.app /\ l.state = x /\ l.rx = k.rx /\ l.tx = k.tx
         /\ l.wakers = {}
<1>1. PICK j : j = [k EXCEPT !.state = x]
  OBVIOUS
<1>2. [Seg(k) EXCEPT !.sock.state = x] = Seg([k EXCEPT !.state = x])
  BY ONLY TRUE DEF Seg
<1>3. set_state(Seg(k), x) = Wake(Seg(j), {"rx", "tx"})
  BY ONLY <1>1, <1>2 DEF set_state
<1>4. l = [j EXCEPT !.wakers = j.wakers \ {"rx", "tx"}]
  BY <1>3, WakeSocket
<1>5. /\ j \in Sockets /\ j.app = k.app /\ j.state = x /\ j.rx = k.rx /\ j.tx = k.tx
      /\ j.wakers \subseteq {"rx", "tx"}
  BY <1>1 DEF Sockets
<1>6. j.wakers \ {"rx", "tx"} = {}
  BY <1>5
<1> QED
  BY <1>4, <1>5, <1>6 DEF Sockets

\* A socket in another state, and what the application knows of it.
Restated(k, l, c, a, b) ==
  /\ l \in Sockets /\ l.rx = k.rx /\ l.tx = k.tx /\ l.wakers = {}
  /\ b \in AppRecords /\ b.sent = a.sent /\ b.got = a.got /\ (a.reset => b.reset)
  /\ c.lclosed => l.state \in Ending
  /\ \/ b.reset
     \/ /\ l.state # "Listen" /\ (l.state \in Ending => c.lclosed)
        /\ b.ended => c.lclosed /\ k.tx = <<>>

LEMMA RestatedFits ==
  ASSUME NEW k, NEW l, NEW c, NEW a, NEW b, Fits(k, c, a), Restated(k, l, c, a, b)
  PROVE  Fits(l, c, b)
<1>1. UpKept(l, c, b)
  BY DEF Fits, UpKept, Restated
<1>2. DownKept(l, c, b) \/ (b.reset /\ c.lclosed)
  BY DEF Fits, DownKept, Restated
<1>3. b.reset \/ Orderly(l, c, b)
  BY DEF Fits, Orderly, Restated
<1> QED
  BY <1>1, <1>2, <1>3 DEF Fits, Restated

\* The handshake's last segment, and the end of the socket.
LEMMA OpenFits ==
  ASSUME NEW k, NEW c, NEW a, Fits(k, c, a), NEW l,
         \/ k.state = "SynReceived" /\ l = Opened(Seg(k)).sock
         \/ k.state = "TimeWait" /\ l = Expired(Seg(k)).sock
  PROVE  Fits(l, c, a) /\ l \in Sockets /\ l.app = k.app
<1>1. PICK x : x = IF k.state = "SynReceived" THEN "Established" ELSE "Closed"
  OBVIOUS
<1>2. l = set_state(Seg(k), x).sock /\ x \in States /\ k \in Sockets /\ a \in AppRecords
  BY <1>1 DEF Opened, Expired, States, Fits
<1>3. l \in Sockets /\ l.app = k.app /\ l.state = x /\ l.rx = k.rx /\ l.tx = k.tx /\ l.wakers = {}
  BY <1>2, SetStateSocket
<1>4. c.lclosed => x \in Ending
  BY <1>1 DEF Fits, Ending
<1>5. a.reset \/ (x # "Listen" /\ (x \in Ending => c.lclosed) /\ (a.ended => c.lclosed /\ k.tx = <<>>))
  BY <1>1 DEF Fits, Orderly, Ending
<1>6. Restated(k, l, c, a, a)
  BY <1>2, <1>3, <1>4, <1>5 DEF Restated
<1> QED
  BY <1>3, <1>6, RestatedFits

\* The application's FIN.
LEMMA FinFits ==
  ASSUME NEW k, NEW c, NEW a, Fits(k, c, a), CanFin(k), NEW l, l = FinTaken(Seg(k)).sock,
         NEW b, b = [a EXCEPT !.fin = TRUE]
  PROVE  Fits(l, c, b) /\ l \in Sockets /\ l.app = k.app
<1>1. PICK x : x = CASE k.state = "Established" -> "CloseWait"
                     [] k.state = "FinWait1"    -> "Closing"
                     [] OTHER                   -> "TimeWait"
  OBVIOUS
<1>2. k.state \in {"Established", "FinWait1", "FinWait2"}
  BY DEF CanFin, Receiving
<1>3. \/ k.state = "Established" /\ x = "CloseWait"
      \/ k.state = "FinWait1" /\ x = "Closing"
      \/ k.state = "FinWait2" /\ x = "TimeWait"
  BY <1>1, <1>2
<1>4. Seg(k).sock = k
  BY DEF Seg
<1>5. l = set_state(Seg(k), x).sock /\ x \in States /\ k \in Sockets /\ a \in AppRecords
  BY <1>1, <1>3, <1>4 DEF FinTaken, States, Fits
<1>6. l \in Sockets /\ l.app = k.app /\ l.state = x /\ l.rx = k.rx /\ l.tx = k.tx /\ l.wakers = {}
  BY <1>5, SetStateSocket
<1>7. c.lclosed => x \in Ending
  BY <1>3 DEF Fits, Ending
<1>8. /\ b \in AppRecords /\ b.sent = a.sent /\ b.got = a.got /\ b.ended = a.ended /\ b.reset = a.reset
  BY <1>5 DEF AppRecords
<1>9. a.reset \/ (x # "Listen" /\ (x \in Ending => c.lclosed) /\ (a.ended => c.lclosed /\ k.tx = <<>>))
  BY <1>3 DEF Fits, Orderly, Ending
<1>10. Restated(k, l, c, a, b)
  BY <1>5, <1>6, <1>7, <1>8, <1>9 DEF Restated
<1> QED
  BY <1>6, <1>10, RestatedFits

\* The application has got the end of the stream.
LEMMA AckFinFits ==
  ASSUME NEW k, NEW c, NEW a, Fits(k, c, a), CanAckFin(k), NEW l, l = FinAcked(Seg(k)).sock,
         NEW b, b = [a EXCEPT !.ended = TRUE]
  PROVE  Fits(l, c, b) /\ l \in Sockets /\ l.app = k.app
<1>1. PICK x : x = CASE k.state = "FinWait1" -> "FinWait2"
                     [] k.state = "Closing"  -> "TimeWait"
                     [] OTHER                -> "Closed"
  OBVIOUS
<1>2. k.state \in {"FinWait1", "Closing", "LastAck"} /\ k.tx = <<>>
  BY DEF CanAckFin
<1>3. x \in {"FinWait2", "TimeWait", "Closed"}
  BY <1>1, <1>2
<1>4. Seg(k).sock = k
  BY DEF Seg
<1>5. l = set_state(Seg(k), x).sock /\ x \in States /\ k \in Sockets /\ a \in AppRecords
  BY <1>1, <1>3, <1>4 DEF FinAcked, States, Fits
<1>6. l \in Sockets /\ l.app = k.app /\ l.state = x /\ l.rx = k.rx /\ l.tx = k.tx /\ l.wakers = {}
  BY <1>5, SetStateSocket
<1>7. x \in Ending /\ x # "Listen"
  BY <1>3 DEF Ending
<1>8. /\ b \in AppRecords /\ b.sent = a.sent /\ b.got = a.got /\ b.reset = a.reset
  BY <1>5 DEF AppRecords
<1>9. a.reset \/ c.lclosed
  BY <1>2 DEF Fits, Orderly, Ending
<1>10. Restated(k, l, c, a, b)
  BY <1>2, <1>5, <1>6, <1>7, <1>8, <1>9 DEF Restated
<1> QED
  BY <1>6, <1>10, RestatedFits

\* A reset.
LEMMA ResetFits ==
  ASSUME NEW k, NEW c, NEW a, Fits(k, c, a), CanReset(k), NEW l, l = WasReset(Seg(k)).sock,
         NEW b, b = [a EXCEPT !.reset = TRUE]
  PROVE  Fits(l, c, b) /\ l \in Sockets /\ l.app = k.app
<1>1. PICK x : x = IF k.state = "SynReceived" THEN "Listen" ELSE "Closed"
  OBVIOUS
<1>2. Seg(k).sock = k
  BY DEF Seg
<1>3. l = set_state(Seg(k), x).sock /\ x \in States /\ k \in Sockets /\ a \in AppRecords
  BY <1>1, <1>2 DEF WasReset, States, Fits
<1>4. l \in Sockets /\ l.app = k.app /\ l.state = x /\ l.rx = k.rx /\ l.tx = k.tx /\ l.wakers = {}
  BY <1>3, SetStateSocket
<1>5. c.lclosed => x \in Ending
  BY <1>1 DEF Fits, Ending
<1>6. b \in AppRecords /\ b.sent = a.sent /\ b.got = a.got /\ b.reset = TRUE
  BY <1>3 DEF AppRecords
<1>7. Restated(k, l, c, a, b)
  BY <1>3, <1>4, <1>5, <1>6 DEF Restated
<1> QED
  BY <1>4, <1>7, RestatedFits

\* One chunk more behind what was counted.
Reaches(u, r, z, n) == u \o r = z \o Count(n)

LEMMA BehindCount ==
  ASSUME NEW u \in Chunks, NEW r \in Chunks, NEW z \in Chunks, NEW n \in Nat, Reaches(u, r, z, n)
  PROVE  Reaches(u, Append(r, n + 1), z, n + 1)
<1>1. PICK y \in Nat : y = n + 1
  OBVIOUS
<1>2. PICK e, g \in Chunks : e = <<y>> /\ g = Count(n)
  BY <1>1, OneChunk, Counting
<1>3. Append(r, y) = r \o e /\ Append(g, y) = g \o e
  BY <1>1, <1>2, OneChunk
<1>4. Append(g, y) = Count(n + 1)
  BY <1>1, <1>2, Counting
<1>5. Regroups(u, r, e) /\ Regroups(z, g, e)
  BY Regrouping, Zenon
<1> QED
  BY <1>1, <1>2, <1>3, <1>4, <1>5 DEF Regroups, Reaches

\* The application sends a chunk.
LEMMA SendFits ==
  ASSUME NEW k, NEW c, NEW a, Fits(k, c, a), NEW l, l = Took(Seg(k), a.sent + 1).sock,
         NEW b, b = [a EXCEPT !.sent = a.sent + 1]
  PROVE  Fits(l, c, b) /\ l \in Sockets /\ l.app = k.app
<1>1. PICK n \in Nat : n = a.sent + 1
  <2>1. a.sent \in Nat
    BY TcpParts
  <2> QED
    BY ONLY <2>1
<1>2. PICK r : n = a.sent + 1 /\ r = Append(k.rx, n)
  BY <1>1
<1>3. k \in Sockets /\ c \in TcpConns /\ a \in AppRecords /\ k.rx \in Chunks /\ a.sent \in Nat /\ r \in Chunks
  BY <1>2, TcpParts, OneMore DEF Fits
<1>4. PICK j : j = [k EXCEPT !.rx = r]
  OBVIOUS
<1>5. [Seg(k) EXCEPT !.sock.rx = r] = Seg([k EXCEPT !.rx = r])
  BY ONLY TRUE DEF Seg
<1>6. Seg(k).sock = k
  BY DEF Seg
<1>7. Took(Seg(k), n) = Wake([Seg(k) EXCEPT !.sock.rx = r], {"rx"})
  BY ONLY <1>2, <1>6 DEF Took
<1>8. l = [j EXCEPT !.wakers = j.wakers \ {"rx"}]
  <2>1. l = Wake(Seg(j), {"rx"}).sock
    BY <1>2, <1>4, <1>5, <1>7
  <2> QED
    BY ONLY <2>1, WakeSocket
<1>9. j \in Sockets /\ j.rx = r /\ j.tx = k.tx /\ j.state = k.state /\ j.app = k.app /\ j.wakers = k.wakers
  BY <1>3, <1>4 DEF Sockets
<1>10. /\ l \in Sockets /\ l.rx = r /\ l.tx = k.tx /\ l.state = k.state /\ l.app = k.app
      /\ l.wakers = k.wakers \ {"rx"}
  BY <1>8, <1>9 DEF Sockets
<1>11. /\ b \in AppRecords /\ b.sent = n /\ b.got = a.got /\ b.ended = a.ended /\ b.reset = a.reset
  BY <1>2, <1>3 DEF AppRecords
<1>12. UpKept(l, c, b)
  <2>1. ~c.established => Upward(c.remote) = <<>>
    BY DEF Fits, UpKept
  <2>2. Upward(c.remote) \o k.rx = Lead(c) \o Count(a.sent)
    BY DEF Fits, UpKept
  <2>3. Upward(c.remote) \in Chunks /\ Lead(c) \in Chunks
    <3>1. <<Header>> \in Seq(Nat) /\ <<>> \in Seq(Nat)
      BY DEF Header
    <3> QED
      BY <3>1, TcpParts DEF Lead, Chunks
  <2>4. Reaches(Upward(c.remote), k.rx, Lead(c), a.sent)
    BY <2>2 DEF Reaches
  <2>5. k.rx \in Chunks /\ a.sent \in Nat
    BY TcpParts
  <2>6. Reaches(Upward(c.remote), Append(k.rx, a.sent + 1), Lead(c), a.sent + 1)
    BY ONLY <2>3, <2>4, <2>5, BehindCount, Zenon
  <2>7. Upward(c.remote) \o Append(k.rx, a.sent + 1) = Lead(c) \o Count(a.sent + 1)
    BY <2>6 DEF Reaches
  <2> QED
    BY <1>2, <1>10, <1>11, <2>1, <2>7 DEF UpKept
<1>13. DownKept(l, c, b) \/ (b.reset /\ c.lclosed)
  BY <1>10, <1>11 DEF Fits, DownKept
<1>14. b.reset \/ Orderly(l, c, b)
  BY <1>10, <1>11 DEF Fits, Orderly
<1>15. c.lclosed => l.state \in Ending /\ l.wakers = {}
  BY <1>10 DEF Fits
<1> QED
  BY <1>10, <1>11, <1>12, <1>13, <1>14, <1>15 DEF Fits

\* The application gets a chunk.
LEMMA ReceiveFits ==
  ASSUME NEW k, NEW c, NEW a, Fits(k, c, a), k.tx # <<>>, NEW l, l = Gave(Seg(k)).sock,
         NEW b, b = [a EXCEPT !.got = Append(a.got, Head(k.tx))]
  PROVE  Fits(l, c, b) /\ l \in Sockets /\ l.app = k.app
<1>1. PICK g, r : g = Append(a.got, Head(k.tx)) /\ r = Tail(k.tx)
  OBVIOUS
<1>2. /\ k \in Sockets /\ c \in TcpConns /\ a \in AppRecords /\ k.tx \in Chunks /\ a.got \in Chunks
      /\ Len(k.tx) \in Nat /\ Len(k.tx) <= TxCap /\ TxCap \in Nat
  BY TcpParts, BuffersAssumption DEF Fits
<1>3. g \in Chunks /\ r \in Chunks /\ Len(r) = Len(k.tx) - 1 /\ g \o r = a.got \o k.tx
  BY <1>1, <1>2, HandedOn
<1>4. PICK j : j = [k EXCEPT !.tx = r]
  OBVIOUS
<1>5. [Seg(k) EXCEPT !.sock.tx = r] = Seg([k EXCEPT !.tx = r])
  BY ONLY TRUE DEF Seg
<1>6. Seg(k).sock = k
  BY DEF Seg
<1>7. Gave(Seg(k)) = Wake([Seg(k) EXCEPT !.sock.tx = r], {"tx"})
  BY ONLY <1>1, <1>6 DEF Gave
<1>8. l = [j EXCEPT !.wakers = j.wakers \ {"tx"}]
  <2>1. l = Wake(Seg(j), {"tx"}).sock
    BY <1>4, <1>5, <1>7
  <2> QED
    BY ONLY <2>1, WakeSocket
<1>9. j \in Sockets /\ j.tx = r /\ j.rx = k.rx /\ j.state = k.state /\ j.app = k.app /\ j.wakers = k.wakers
  BY <1>2, <1>3, <1>4 DEF Sockets
<1>10. /\ l \in Sockets /\ l.tx = r /\ l.rx = k.rx /\ l.state = k.state /\ l.app = k.app
       /\ l.wakers = k.wakers \ {"tx"}
  BY <1>8, <1>9 DEF Sockets
<1>11. /\ b \in AppRecords /\ b.sent = a.sent /\ b.got = g /\ b.ended = a.ended /\ b.reset = a.reset
  BY <1>1, <1>2, <1>3 DEF AppRecords
<1>12. UpKept(l, c, b)
  BY <1>10, <1>11 DEF Fits, UpKept
<1>13. DownKept(l, c, b) \/ (b.reset /\ c.lclosed)
  BY <1>3, <1>10, <1>11 DEF Fits, DownKept
<1>14. b.reset \/ Orderly(l, c, b)
  BY <1>10, <1>11 DEF Fits, Orderly
<1>15. c.lclosed => l.state \in Ending /\ l.wakers = {}
  BY <1>10 DEF Fits
<1>16. Len(l.tx) <= TxCap
  <2>1. Len(l.tx) = Len(k.tx) - 1
    BY <1>3, <1>10
  <2> QED
    BY <1>2, <2>1
<1> QED
  BY <1>10, <1>11, <1>12, <1>13, <1>14, <1>15, <1>16 DEF Fits

-----------------------------------------------------------------------------
(* All connections of the TCP server *)

\* A socket whose SYN was handed to it has a connection, or gets one from the
\* pool with its first event.
ConnAt(cs, h, st) == IF h \in DOMAIN cs THEN cs[h] ELSE NewConnection(Pooled(st.pooled))

\* A socket that listens and has no connection is one that a repeated SYN has
\* left behind, or one that was reset before its first event.
Real(cs, ks, h) == ks[h].state # "Listen" \/ h \in DOMAIN cs

AppsSound(ks, as) ==
  /\ DOMAIN as = Apps
  /\ \A a \in Apps : as[a] \in AppRecords /\ (as[a].syns = 0 => as[a] = NewApp)
  /\ \A h \in DOMAIN ks : ks[h] \in Sockets /\ as[ks[h].app].syns # 0

\* An application has one socket that counts, all its data are there.
TcpState(cs, ks, as, st) ==
  /\ IsFiniteSet(DOMAIN ks) /\ DOMAIN cs \subseteq DOMAIN ks /\ AppsSound(ks, as)
  /\ \A h, g \in DOMAIN ks : Real(cs, ks, h) /\ Real(cs, ks, g) /\ ks[h].app = ks[g].app => h = g
  /\ \A h \in DOMAIN ks : Real(cs, ks, h) => Fits(ks[h], ConnAt(cs, h, st), as[ks[h].app])
  /\ \A h \in DOMAIN cs : cs[h].lclosed => cs[h].rclosed

\* g is f, except for x.
Elsewhere(f, g, x) ==
  DOMAIN g \ {x} = DOMAIN f \ {x} /\ \A y \in DOMAIN f \ {x} : g[y] = f[y]

\* Socket h is the only one of application a that counts.
Alone(cs, ks, h, a) == \A g \in DOMAIN ks \ {h} : Real(cs, ks, g) => ks[g].app # a

\* What is there at h after a step.
StepsTo(cs, ks, as, st, h, a) ==
  /\ h \in DOMAIN ks /\ ks[h] \in Sockets /\ ks[h].app = a
  /\ DOMAIN as = Apps /\ as[a] \in AppRecords /\ as[a].syns # 0
  /\ Real(cs, ks, h) => Fits(ks[h], ConnAt(cs, h, st), as[a])
  /\ h \in DOMAIN cs => (cs[h].lclosed => cs[h].rclosed)

LEMMA OneChanges ==
  ASSUME NEW cs, NEW ks, NEW as, NEW st, TcpState(cs, ks, as, st), NEW h, NEW a \in Apps,
         NEW cs2, NEW ks2, NEW as2, Elsewhere(cs, cs2, h), Elsewhere(ks, ks2, h), Elsewhere(as, as2, a),
         Alone(cs, ks, h, a), StepsTo(cs2, ks2, as2, st, h, a)
  PROVE  TcpState(cs2, ks2, as2, st)
<1>1. /\ DOMAIN ks2 = DOMAIN ks \cup {h} /\ DOMAIN cs2 \subseteq DOMAIN cs \cup {h}
      /\ IsFiniteSet(DOMAIN ks2) /\ DOMAIN cs2 \subseteq DOMAIN ks2
  <2>1. /\ DOMAIN ks2 = DOMAIN ks \cup {h} /\ DOMAIN cs2 \subseteq DOMAIN cs \cup {h}
    BY DEF Elsewhere, StepsTo
  <2>2. IsFiniteSet(DOMAIN ks) /\ DOMAIN cs \subseteq DOMAIN ks
    BY DEF TcpState
  <2> QED
    BY <2>1, <2>2, FS_AddElement
<1>2. /\ \A g \in DOMAIN ks2 \ {h} : g \in DOMAIN ks /\ ks2[g] = ks[g]
      /\ \A g \in DOMAIN ks \ {h} : g \in DOMAIN cs2 <=> g \in DOMAIN cs
      /\ \A g \in DOMAIN cs2 \ {h} : g \in DOMAIN cs /\ cs2[g] = cs[g]
      /\ \A x \in Apps \ {a} : as2[x] = as[x]
  BY DEF Elsewhere, TcpState, AppsSound
<1>3. \A g \in DOMAIN ks2 \ {h} : Real(cs2, ks2, g) <=> Real(cs, ks, g)
  BY <1>2 DEF Real
<1>4. \A g \in DOMAIN ks2 \ {h} : ConnAt(cs2, g, st) = ConnAt(cs, g, st)
  BY <1>2 DEF ConnAt
<1>5. AppsSound(ks2, as2)
  <2>1. /\ \A x \in Apps : as[x] \in AppRecords /\ (as[x].syns = 0 => as[x] = NewApp)
        /\ \A g \in DOMAIN ks : ks[g] \in Sockets /\ as[ks[g].app].syns # 0
    BY DEF TcpState, AppsSound
  <2>2. /\ DOMAIN as2 = Apps /\ ks2[h] \in Sockets /\ ks2[h].app = a
        /\ as2[a] \in AppRecords /\ as2[a].syns # 0
    BY DEF StepsTo
  <2>3. \A x \in Apps : as2[x] \in AppRecords /\ (as2[x].syns = 0 => as2[x] = NewApp)
    BY <1>2, <2>1, <2>2
  <2>4. \A g \in DOMAIN ks2 : ks2[g] \in Sockets /\ as2[ks2[g].app].syns # 0
    <3> SUFFICES ASSUME NEW g \in DOMAIN ks2
                 PROVE  ks2[g] \in Sockets /\ as2[ks2[g].app].syns # 0
      OBVIOUS
    <3>1. CASE g = h
      BY <2>2, <3>1
    <3>2. CASE g # h
      <4>1. ks2[g] = ks[g] /\ ks[g] \in Sockets /\ as[ks[g].app].syns # 0
        BY <1>2, <2>1, <3>2
      <4>2. ks[g].app \in Apps
        BY <4>1 DEF Sockets
      <4> QED
        BY <1>2, <2>2, <4>1, <4>2
    <3> QED
      BY <3>1, <3>2
  <2> QED
    BY <2>2, <2>3, <2>4 DEF AppsSound
<1>6. ASSUME NEW g \in DOMAIN ks2, NEW f \in DOMAIN ks2, Real(cs2, ks2, g), Real(cs2, ks2, f),
             ks2[g].app = ks2[f].app
      PROVE  g = f
  BY <1>2, <1>3, <1>6 DEF TcpState, Alone, StepsTo
<1>7. ASSUME NEW g \in DOMAIN ks2, Real(cs2, ks2, g)
      PROVE  Fits(ks2[g], ConnAt(cs2, g, st), as2[ks2[g].app])
  <2>1. CASE g = h
    BY <1>7, <2>1 DEF StepsTo
  <2>2. CASE g # h
    <3>1. /\ g \in DOMAIN ks /\ ks2[g] = ks[g] /\ Real(cs, ks, g)
          /\ ConnAt(cs2, g, st) = ConnAt(cs, g, st)
      BY <1>2, <1>3, <1>4, <1>7, <2>2
    <3>2. Fits(ks[g], ConnAt(cs, g, st), as[ks[g].app]) /\ ks[g].app # a /\ ks[g] \in Sockets
      BY <2>2, <3>1 DEF TcpState, Alone, AppsSound
    <3>3. as2[ks[g].app] = as[ks[g].app]
      BY <1>2, <3>2 DEF Sockets
    <3> QED
      BY <3>1, <3>2, <3>3
  <2> QED
    BY <2>1, <2>2
<1>8. ASSUME NEW g \in DOMAIN cs2 PROVE cs2[g].lclosed => cs2[g].rclosed
  BY <1>2, <1>8 DEF TcpState, StepsTo
<1> QED
  BY <1>1, <1>5, <1>6, <1>7, <1>8 DEF TcpState

\* Sockets and connections go, and nothing else changes.
Fewer(f, g) == DOMAIN g \subseteq DOMAIN f /\ \A x \in DOMAIN g : g[x] = f[x]

LEMMA SomeGo ==
  ASSUME NEW cs, NEW ks, NEW as, NEW st, TcpState(cs, ks, as, st), NEW cs2, NEW ks2,
         Fewer(cs, cs2), Fewer(ks, ks2), DOMAIN cs2 = DOMAIN cs \cap DOMAIN ks2
  PROVE  TcpState(cs2, ks2, as, st)
<1>1. IsFiniteSet(DOMAIN ks2)
  BY FS_Subset DEF TcpState, Fewer
<1>2. \A g \in DOMAIN ks2 : g \in DOMAIN ks /\ ks2[g] = ks[g]
  BY DEF Fewer
<1>3. \A g \in DOMAIN ks2 : Real(cs2, ks2, g) => Real(cs, ks, g)
  BY <1>2 DEF Real
<1>4. \A g \in DOMAIN ks2 : ConnAt(cs2, g, st) = ConnAt(cs, g, st)
  BY <1>2 DEF ConnAt, Fewer
<1>5. AppsSound(ks2, as)
  BY <1>2 DEF TcpState, AppsSound
<1>6. ASSUME NEW g \in DOMAIN ks2, NEW f \in DOMAIN ks2, Real(cs2, ks2, g), Real(cs2, ks2, f),
             ks2[g].app = ks2[f].app
      PROVE  g = f
  BY <1>2, <1>3, <1>6 DEF TcpState
<1>7. ASSUME NEW g \in DOMAIN ks2, Real(cs2, ks2, g)
      PROVE  Fits(ks2[g], ConnAt(cs2, g, st), as[ks2[g].app])
  <2>1. Fits(ks[g], ConnAt(cs, g, st), as[ks[g].app])
    BY <1>2, <1>3, <1>7 DEF TcpState
  <2> QED
    BY <1>2, <1>4, <2>1
<1>8. ASSUME NEW g \in DOMAIN cs2 PROVE cs2[g].lclosed => cs2[g].rclosed
  BY <1>8 DEF TcpState, Fewer
<1> QED
  BY <1>1, <1>5, <1>6, <1>7, <1>8 DEF TcpState

\* Every connection changes in a way that does not matter.
NoMatter(c, d) ==
  /\ d.lclosed = c.lclosed /\ d.rclosed = c.rclosed
  /\ \A k, a : Fits(k, c, a) => Fits(k, d, a)

LEMMA AllChange ==
  ASSUME NEW cs, NEW ks, NEW as, NEW st, TcpState(cs, ks, as, st), NEW cs2,
         DOMAIN cs2 = DOMAIN cs, \A h \in DOMAIN cs : NoMatter(cs[h], cs2[h])
  PROVE  TcpState(cs2, ks, as, st)
<1>1. \A h : Real(cs2, ks, h) <=> Real(cs, ks, h)
  BY DEF Real
<1>2. ASSUME NEW h \in DOMAIN ks, Real(cs2, ks, h)
      PROVE  Fits(ks[h], ConnAt(cs2, h, st), as[ks[h].app])
  <2>1. Fits(ks[h], ConnAt(cs, h, st), as[ks[h].app])
    BY <1>1, <1>2 DEF TcpState
  <2>2. CASE h \in DOMAIN cs
    <3>1. ConnAt(cs, h, st) = cs[h] /\ ConnAt(cs2, h, st) = cs2[h]
      BY <2>2 DEF ConnAt
    <3>2. NoMatter(cs[h], cs2[h])
      BY <2>2
    <3> QED
      BY <2>1, <3>1, <3>2 DEF NoMatter
  <2>3. CASE h \notin DOMAIN cs
    <3>1. ConnAt(cs2, h, st) = ConnAt(cs, h, st)
      BY <2>3 DEF ConnAt
    <3> QED
      BY <2>1, <3>1
  <2> QED
    BY <2>2, <2>3
<1>3. \A h \in DOMAIN cs2 : cs2[h].lclosed => cs2[h].rclosed
  BY DEF TcpState, NoMatter
<1>4. /\ IsFiniteSet(DOMAIN ks) /\ DOMAIN cs2 \subseteq DOMAIN ks /\ AppsSound(ks, as)
      /\ \A h, g \in DOMAIN ks : Real(cs2, ks, h) /\ Real(cs2, ks, g) /\ ks[h].app = ks[g].app => h = g
  BY <1>1 DEF TcpState
<1> QED
  BY <1>2, <1>3, <1>4 DEF TcpState

\* A repeated SYN leaves a socket that nobody uses.
LEMMA UnusedAdded ==
  ASSUME NEW cs, NEW ks, NEW as, NEW st, TcpState(cs, ks, as, st), NEW h, h \notin DOMAIN ks,
         NEW l \in Sockets, l.state = "Listen", as[l.app].syns # 0, NEW ks2, ks2 = Put(ks, h, l)
  PROVE  TcpState(cs, ks2, as, st)
<1>1. /\ DOMAIN ks2 = DOMAIN ks \cup {h} /\ ks2[h] = l /\ \A g \in DOMAIN ks : ks2[g] = ks[g]
  BY DEF Put
<1>2. IsFiniteSet(DOMAIN ks2) /\ DOMAIN cs \subseteq DOMAIN ks2 /\ h \notin DOMAIN cs
  BY <1>1, FS_AddElement DEF TcpState
<1>3. ~Real(cs, ks2, h) /\ \A g \in DOMAIN ks : Real(cs, ks2, g) <=> Real(cs, ks, g)
  BY <1>1, <1>2 DEF Real
<1>4. AppsSound(ks2, as)
  BY <1>1 DEF TcpState, AppsSound
<1>5. ASSUME NEW g \in DOMAIN ks2, NEW f \in DOMAIN ks2, Real(cs, ks2, g), Real(cs, ks2, f),
             ks2[g].app = ks2[f].app
      PROVE  g = f
  BY <1>1, <1>3, <1>5 DEF TcpState
<1>6. ASSUME NEW g \in DOMAIN ks2, Real(cs, ks2, g)
      PROVE  Fits(ks2[g], ConnAt(cs, g, st), as[ks2[g].app])
  <2>1. g \in DOMAIN ks /\ ks2[g] = ks[g] /\ Real(cs, ks, g)
    BY <1>1, <1>3, <1>6
  <2>2. Fits(ks[g], ConnAt(cs, g, st), as[ks[g].app])
    BY <2>1 DEF TcpState
  <2> QED
    BY <2>1, <2>2
<1>7. \A g \in DOMAIN cs : cs[g].lclosed => cs[g].rclosed
  BY DEF TcpState
<1> QED
  BY <1>2, <1>4, <1>5, <1>6, <1>7 DEF TcpState

\* How often an application has sent its SYN does not matter either.
MoreSyns(as, as2, a) == as2 = [as EXCEPT ![a].syns = as[a].syns + 1]

SynsMore(as, as2, a) ==
  /\ as2[a] = [as[a] EXCEPT !.syns = as[a].syns + 1] /\ as2[a] \in AppRecords /\ as2[a].syns # 0
  /\ DOMAIN as2 = Apps

LEMMA SynCounted ==
  ASSUME NEW cs, NEW ks, NEW as, NEW st, TcpState(cs, ks, as, st), NEW a \in Apps,
         NEW as2, MoreSyns(as, as2, a)
  PROVE  TcpState(cs, ks, as2, st) /\ SynsMore(as, as2, a)
<1>1. /\ DOMAIN as = Apps /\ as[a] \in AppRecords
  BY DEF TcpState, AppsSound
<1>2. /\ DOMAIN as2 = Apps /\ \A x \in Apps \ {a} : as2[x] = as[x]
      /\ as2[a] = [as[a] EXCEPT !.syns = as[a].syns + 1]
  BY <1>1 DEF MoreSyns
<1>3. /\ as2[a] \in AppRecords /\ as2[a].syns # 0 /\ as2[a].sent = as[a].sent /\ as2[a].got = as[a].got
      /\ as2[a].ended = as[a].ended /\ as2[a].reset = as[a].reset
  <2>1. PICK x, b, n : x = as[a] /\ b = as2[a] /\ n = x.syns + 1
    OBVIOUS
  <2>2. x \in AppRecords /\ b = [x EXCEPT !.syns = n]
    BY <1>1, <1>2, <2>1
  <2>3. n \in Nat /\ n # 0
    <3>1. PICK m \in Nat : m = x.syns
      BY <2>2 DEF AppRecords
    <3>2. n = m + 1
      BY ONLY <2>1, <3>1
    <3> QED
      BY ONLY <3>2, m \in Nat
  <2>4. b \in AppRecords /\ b.syns = n /\ b.sent = x.sent /\ b.got = x.got /\ b.ended = x.ended /\ b.reset = x.reset
    BY ONLY <2>2, <2>3 DEF AppRecords
  <2> QED
    BY <2>1, <2>3, <2>4
<1>4. ASSUME NEW k, NEW c, Fits(k, c, as[a]) PROVE Fits(k, c, as2[a])
  <2>1. UpKept(k, c, as2[a])
    BY <1>3, <1>4 DEF Fits, UpKept
  <2>2. DownKept(k, c, as2[a]) \/ (as2[a].reset /\ c.lclosed)
    BY <1>3, <1>4 DEF Fits, DownKept
  <2>3. as2[a].reset \/ Orderly(k, c, as2[a])
    BY <1>3, <1>4 DEF Fits, Orderly
  <2> QED
    BY <1>3, <1>4, <2>1, <2>2, <2>3 DEF Fits
<1>5. AppsSound(ks, as2)
  <2>1. /\ \A x \in Apps : as[x] \in AppRecords /\ (as[x].syns = 0 => as[x] = NewApp)
        /\ \A g \in DOMAIN ks : ks[g] \in Sockets /\ as[ks[g].app].syns # 0
    BY DEF TcpState, AppsSound
  <2>2. \A x \in Apps : as2[x] \in AppRecords /\ (as2[x].syns = 0 => as2[x] = NewApp)
    BY <1>2, <1>3, <2>1
  <2>3. \A g \in DOMAIN ks : as2[ks[g].app].syns # 0
    BY <1>2, <1>3, <2>1 DEF Sockets
  <2> QED
    BY <1>2, <2>1, <2>2, <2>3 DEF AppsSound
<1>6. ASSUME NEW g \in DOMAIN ks, Real(cs, ks, g)
      PROVE  Fits(ks[g], ConnAt(cs, g, st), as2[ks[g].app])
  <2>1. Fits(ks[g], ConnAt(cs, g, st), as[ks[g].app]) /\ ks[g].app \in Apps
    BY <1>6 DEF TcpState, AppsSound, Sockets
  <2> QED
    BY <1>2, <1>4, <2>1
<1>7. TcpState(cs, ks, as2, st)
  BY <1>5, <1>6 DEF TcpState
<1>8. SynsMore(as, as2, a)
  BY <1>2, <1>3 DEF SynsMore
<1> QED
  BY <1>7, <1>8

-----------------------------------------------------------------------------
(* The steps of the TCP server *)

\* Where the loop is, and whom its TCP events are for: a socket that is there,
\* and at the end of the round a connection that is there.  get_events and poll
\* give one event for each of them.
TcpKeys ==
  /\ setting \in Settings /\ at \in {"start", "iface", "local", "events"}
  /\ at \in {"start", "iface"} => batch = {}
  /\ \A e \in events : e.of = "tcp" => at = "iface" /\ e.key \in DOMAIN sockets
  /\ \A e \in batch : e.of = "tcp" => /\ at = "local" => e.key \in DOMAIN sockets
                                      /\ at = "events" => e.key \in DOMAIN conns
  /\ \A e, f \in batch : e.of = f.of /\ e.key = f.key => e = f

\* The inductive invariant of the TCP server.
TcpInv == TcpKeys /\ TcpState(conns, sockets, apps, setting)

\* A handler.
LEMMA HandlerStep ==
  ASSUME TcpInv, NEW h \in DOMAIN sockets, Real(conns, sockets, h), NEW s,
         Worked(s, sockets[h].app, apps[sockets[h].app]), Handler(h, s, events), UNCHANGED apps
  PROVE  /\ TcpState(conns', sockets', apps', setting) /\ events' = events
         /\ DOMAIN sockets' = DOMAIN sockets /\ DOMAIN conns \subseteq DOMAIN conns'
<1>1. PICK a : a = sockets[h].app
  OBVIOUS
<1>2. TcpState(conns, sockets, apps, setting) /\ AppsSound(sockets, apps)
  BY DEF TcpInv, TcpState
<1>3. a \in Apps /\ apps[a] \in AppRecords /\ apps[a].syns # 0 /\ DOMAIN apps = Apps
  BY <1>1, <1>2 DEF AppsSound, Sockets
<1>4. s = Job(s.sock, s.c) /\ s.sock.app = a /\ Fits(s.sock, s.c, apps[a]) /\ (s.c.lclosed => s.c.rclosed)
  BY <1>1 DEF Worked, Works
<1>5. s.ev = {}
  BY <1>4 DEF Job
<1>6. events' = events
  <2>1. Sent("tcp", h, {}) = {}
    BY DEF Sent
  <2> QED
    BY <1>5, <2>1 DEF Handler
<1>7. sockets' = [sockets EXCEPT ![h] = s.sock] /\ conns' = Put(conns, h, s.c)
  BY DEF Handler
<1>8. /\ DOMAIN sockets' = DOMAIN sockets /\ DOMAIN conns' = DOMAIN conns \cup {h}
      /\ sockets'[h] = s.sock /\ conns'[h] = s.c
  BY <1>7 DEF Put
<1>9. Elsewhere(sockets, sockets', h)
  BY <1>7 DEF Elsewhere
<1>10. Elsewhere(conns, conns', h)
  BY <1>7 DEF Elsewhere, Put
<1>11. Elsewhere(apps, apps', a)
  BY DEF Elsewhere
<1>12. Alone(conns, sockets, h, a)
  BY <1>1, <1>2 DEF TcpState, Alone
<1>13. StepsTo(conns', sockets', apps', setting, h, a)
  <2>1. s.sock \in Sockets
    BY <1>4 DEF Fits
  <2>2. ConnAt(conns', h, setting) = s.c
    BY <1>8 DEF ConnAt
  <2> QED
    BY <1>3, <1>4, <1>8, <2>1, <2>2 DEF StepsTo
<1>14. TcpState(conns', sockets', apps', setting)
  BY ONLY <1>2, <1>3, <1>9, <1>10, <1>11, <1>12, <1>13, OneChanges, Zenon
<1> QED
  BY <1>6, <1>8, <1>14

LEMMA TcpHandlersKeep ==
  ASSUME TcpInv, NEW e \in batch, Handlers(e)
  PROVE  TcpInv'
<1>1. TcpState(conns, sockets, apps, setting) /\ TcpKeys
  BY DEF TcpInv
<1>2. CASE TcpUnused(e)
  <2>1. /\ UNCHANGED <<setting, at, events, conns, apps>> /\ at = "local" /\ batch' = batch \ {e} /\ e.of = "tcp"
        /\ e.key \in DOMAIN sockets /\ e.key \notin DOMAIN conns /\ sockets' = Without(sockets, {e.key})
    BY <1>1, <1>2 DEF TcpUnused, Handling, Handled, TcpKeys
  <2>2. DOMAIN sockets' = DOMAIN sockets \ {e.key} /\ Fewer(sockets, sockets') /\ Fewer(conns, conns)
    BY <2>1 DEF Without, Fewer
  <2>3. DOMAIN conns = DOMAIN conns \cap DOMAIN sockets'
    BY <1>1, <2>1, <2>2 DEF TcpState
  <2>4. TcpState(conns, sockets', apps, setting)
    BY <1>1, <2>2, <2>3, SomeGo
  <2>5. TcpKeys'
    BY <1>1, <2>1, <2>2 DEF TcpKeys
  <2> QED
    BY <2>1, <2>4, <2>5 DEF TcpInv
<1>3. CASE TcpLocal(e)
  <2>1. PICK h, c, s : /\ h = e.key /\ c = ConnAt(conns, h, setting)
                       /\ s = do_local([sock |-> sockets[h], c |-> c, ev |-> {}], e.kinds)
    OBVIOUS
  <2>2. /\ UNCHANGED <<setting, at, apps>> /\ at = "local" /\ batch' = batch \ {e} /\ e.of = "tcp"
        /\ h \in DOMAIN sockets /\ Real(conns, sockets, h) /\ Handler(h, s, events)
    BY <1>1, <1>3, <2>1 DEF TcpLocal, Handling, Handled, TcpKeys, Real, ConnAt
  <2>3. Fits(sockets[h], c, apps[sockets[h].app])
    BY <1>1, <2>1, <2>2 DEF TcpState
  <2>4. PICK k, j : k = sockets[h] /\ j = Job(k, c)
    OBVIOUS
  <2>5. j.sock = k /\ j.c = c
    BY <2>4 DEF Job
  <2>6. Works(j, k.app, apps[k.app])
    BY <2>3, <2>4, <2>5 DEF Works
  <2>7. s = do_local(j, e.kinds)
    BY <2>1, <2>4 DEF Job
  <2>8. Worked(s, sockets[h].app, apps[sockets[h].app])
    BY <2>4, <2>6, <2>7, DoLocal
  <2>9. /\ TcpState(conns', sockets', apps', setting) /\ events' = events
        /\ DOMAIN sockets' = DOMAIN sockets
    BY <2>2, <2>8, HandlerStep
  <2>10. TcpKeys'
    BY <1>1, <2>2, <2>9 DEF TcpKeys
  <2> QED
    BY <2>2, <2>9, <2>10 DEF TcpInv
<1>4. CASE TcpRemote(e)
  <2>1. PICK h, c, s : /\ h = e.key /\ c = conns[h]
                       /\ s = do_remote([sock |-> sockets[h], c |-> c, ev |-> {}], e.kinds)
    OBVIOUS
  <2>2. /\ UNCHANGED <<setting, at, apps>> /\ at = "events" /\ batch' = batch \ {e} /\ e.of = "tcp"
        /\ h \in DOMAIN conns /\ Handler(h, s, events)
    BY <1>1, <1>4, <2>1 DEF TcpRemote, Handling, Handled, TcpKeys
  <2>3. h \in DOMAIN sockets /\ Real(conns, sockets, h) /\ c = ConnAt(conns, h, setting)
    BY <1>1, <2>1, <2>2 DEF TcpState, Real, ConnAt
  <2>4. Fits(sockets[h], c, apps[sockets[h].app])
    BY <1>1, <2>3 DEF TcpState
  <2>5. PICK k, j : k = sockets[h] /\ j = Job(k, c)
    OBVIOUS
  <2>6. j.sock = k /\ j.c = c
    BY <2>5 DEF Job
  <2>7. Works(j, k.app, apps[k.app])
    BY <2>4, <2>5, <2>6 DEF Works
  <2>8. s = do_remote(j, e.kinds)
    BY <2>1, <2>5 DEF Job
  <2>9. Worked(s, sockets[h].app, apps[sockets[h].app])
    BY <2>5, <2>7, <2>8, DoRemote
  <2>10. /\ TcpState(conns', sockets', apps', setting) /\ events' = events
         /\ DOMAIN sockets' = DOMAIN sockets /\ DOMAIN conns \subseteq DOMAIN conns'
    BY <2>2, <2>3, <2>9, HandlerStep
  <2>11. TcpKeys'
    BY <1>1, <2>2, <2>10 DEF TcpKeys
  <2> QED
    BY <2>2, <2>10, <2>11 DEF TcpInv
<1> QED
  BY <1>2, <1>3, <1>4 DEF Handlers

\* Application a becomes b.
Becomes(a, b) == apps'[a] = b /\ Elsewhere(apps, apps', a) /\ DOMAIN apps' = DOMAIN apps

\* Application a is at socket h, which counts.
AtSocket(h, a) ==
  /\ Real(conns, sockets, h) /\ sockets[h].app = a /\ Work(h) = Seg(sockets[h])
  /\ Fits(sockets[h], ConnAt(conns, h, setting), apps[a])

\* A step of application a at its socket h that leaves the connections alone.
SegmentAs(h, a, l, b) ==
  /\ h \in DOMAIN sockets /\ at = "iface"
  /\ sockets' = [sockets EXCEPT ![h] = l] /\ conns' = conns
  /\ Becomes(a, b) /\ UNCHANGED <<setting, at, batch>>
  /\ \A x \in events' : x \in events \/ x.key = h

LEMMA SegmentStep ==
  ASSUME TcpInv, NEW h, NEW a \in Apps, AtSocket(h, a),
         NEW l, NEW b, SegmentAs(h, a, l, b), b.syns = apps[a].syns,
         Fits(l, ConnAt(conns, h, setting), b), l.app = a
  PROVE  TcpInv'
<1>1. /\ TcpState(conns, sockets, apps, setting) /\ AppsSound(sockets, apps) /\ TcpKeys
      /\ h \in DOMAIN sockets /\ Real(conns, sockets, h) /\ sockets[h].app = a
  BY DEF TcpInv, TcpState, SegmentAs, AtSocket
<1>2. apps[a].syns # 0 /\ DOMAIN apps = Apps
  BY <1>1 DEF AppsSound
<1>3. /\ sockets' = [sockets EXCEPT ![h] = l] /\ conns' = conns /\ apps'[a] = b
      /\ Elsewhere(apps, apps', a) /\ DOMAIN apps' = DOMAIN apps
  BY DEF SegmentAs, Becomes
<1>4. /\ DOMAIN sockets' = DOMAIN sockets /\ sockets'[h] = l /\ DOMAIN apps' = Apps
  BY <1>1, <1>2, <1>3
<1>5. Elsewhere(sockets, sockets', h)
  BY <1>3 DEF Elsewhere
<1>6. Elsewhere(conns, conns', h)
  BY <1>3 DEF Elsewhere
<1>7. Alone(conns, sockets, h, a)
  BY <1>1 DEF TcpState, Alone
<1>8. StepsTo(conns', sockets', apps', setting, h, a)
  <2>1. l \in Sockets /\ b \in AppRecords
    BY DEF Fits
  <2>2. ConnAt(conns', h, setting) = ConnAt(conns, h, setting)
    BY <1>3
  <2>3. h \in DOMAIN conns' => (conns'[h].lclosed => conns'[h].rclosed)
    BY <1>1, <1>3 DEF TcpState
  <2> QED
    BY <1>1, <1>2, <1>3, <1>4, <2>1, <2>2, <2>3 DEF StepsTo
<1>9. TcpState(conns', sockets', apps', setting)
  BY ONLY <1>1, <1>3, <1>5, <1>6, <1>7, <1>8, a \in Apps, OneChanges, Zenon
<1>10. TcpKeys'
  BY <1>1, <1>3, <1>4 DEF TcpKeys, SegmentAs
<1> QED
  BY <1>9, <1>10 DEF TcpInv, SegmentAs

LEMMA SegmentIs ==
  ASSUME TcpInv, NEW a \in Apps, NEW h \in HandleOf(a), NEW s, Segment(h, s), NEW b, Becomes(a, b)
  PROVE  SegmentAs(h, a, s.sock, b) /\ AtSocket(h, a)
<1>1. h \in DOMAIN sockets /\ sockets[h].app = a /\ Real(conns, sockets, h)
  BY DEF HandleOf, Real
<1>2. \A x \in events' : x \in events \/ x.key = h
  BY SentOf DEF Segment
<1>3. SegmentAs(h, a, s.sock, b)
  BY <1>1, <1>2 DEF Segment, SegmentAs
<1>4. Fits(sockets[h], ConnAt(conns, h, setting), apps[a])
  BY <1>1 DEF TcpInv, TcpState
<1>5. Work(h) = Seg(sockets[h])
  BY DEF Work, Seg
<1> QED
  BY <1>1, <1>3, <1>4, <1>5 DEF AtSocket

\* The segments of an application whose socket is there.
LEMMA SegmentsKeep ==
  ASSUME TcpInv, NEW a \in Apps, App(a), ~Syn(a)
  PROVE  TcpInv'
<1>1. DOMAIN apps = Apps /\ apps[a] \in AppRecords
  BY DEF TcpInv, TcpState, AppsSound
<1>2. PICK r : r = apps[a]
  OBVIOUS
<1>3. CASE Open(a) \/ Expire(a)
  <2>1. PICK h, s :
          /\ h \in HandleOf(a) /\ Segment(h, s) /\ apps' = apps
          /\ \/ sockets[h].state = "SynReceived" /\ s = Opened(Work(h))
             \/ sockets[h].state = "TimeWait" /\ s = Expired(Work(h))
    BY <1>3 DEF Open, Expire
  <2>2. Becomes(a, r)
    BY <1>2, <2>1 DEF Becomes, Elsewhere
  <2>3. SegmentAs(h, a, s.sock, r) /\ AtSocket(h, a)
    BY ONLY TcpInv, a \in Apps, <2>1, <2>2, SegmentIs, Zenon
  <2>4. Fits(sockets[h], ConnAt(conns, h, setting), r) /\ Work(h) = Seg(sockets[h]) /\ sockets[h].app = a
    BY <1>2, <2>3 DEF AtSocket
  <2>5. Fits(s.sock, ConnAt(conns, h, setting), r) /\ s.sock.app = a
    BY <2>1, <2>4, OpenFits
  <2> QED
    BY <1>2, <2>3, <2>5, SegmentStep
<1>4. CASE Send(a)
  <2>1. PICK h, s, b :
          /\ h \in HandleOf(a) /\ Segment(h, s) /\ b = [r EXCEPT !.sent = r.sent + 1]
          /\ apps' = [apps EXCEPT ![a] = b] /\ s = Took(Work(h), r.sent + 1)
    BY <1>1, <1>2, <1>4 DEF Send
  <2>2. Becomes(a, b)
    BY <1>1, <2>1 DEF Becomes, Elsewhere
  <2>3. SegmentAs(h, a, s.sock, b) /\ AtSocket(h, a)
    BY ONLY TcpInv, a \in Apps, <2>1, <2>2, SegmentIs, Zenon
  <2>4. Fits(sockets[h], ConnAt(conns, h, setting), r) /\ Work(h) = Seg(sockets[h]) /\ sockets[h].app = a
    BY <1>2, <2>3 DEF AtSocket
  <2>5. PICK k, c, l : k = sockets[h] /\ c = ConnAt(conns, h, setting) /\ l = s.sock
    OBVIOUS
  <2>6. /\ Fits(k, c, r) /\ k.app = a /\ l = Took(Seg(k), r.sent + 1).sock
        /\ b = [r EXCEPT !.sent = r.sent + 1]
    BY <2>1, <2>4, <2>5
  <2>7. Fits(l, c, b) /\ l.app = k.app
    BY ONLY <2>6, SendFits
  <2>8. Fits(s.sock, ConnAt(conns, h, setting), b) /\ s.sock.app = a
    BY <2>5, <2>6, <2>7
  <2>9. b.syns = apps[a].syns
    BY <1>1, <1>2, <2>1 DEF AppRecords
  <2> QED
    BY <2>3, <2>8, <2>9, SegmentStep
<1>5. CASE Receive(a)
  <2>1. PICK h, s, b :
          /\ h \in HandleOf(a) /\ Segment(h, s) /\ b = [r EXCEPT !.got = Append(r.got, Head(sockets[h].tx))]
          /\ apps' = [apps EXCEPT ![a] = b] /\ CanGive(sockets[h]) /\ s = Gave(Work(h))
    BY <1>1, <1>2, <1>5 DEF Receive
  <2>2. Becomes(a, b)
    BY <1>1, <2>1 DEF Becomes, Elsewhere
  <2>3. SegmentAs(h, a, s.sock, b) /\ AtSocket(h, a)
    BY ONLY TcpInv, a \in Apps, <2>1, <2>2, SegmentIs, Zenon
  <2>4. Fits(sockets[h], ConnAt(conns, h, setting), r) /\ Work(h) = Seg(sockets[h]) /\ sockets[h].app = a
    BY <1>2, <2>3 DEF AtSocket
  <2>5. PICK k, c, l : k = sockets[h] /\ c = ConnAt(conns, h, setting) /\ l = s.sock
    OBVIOUS
  <2>6. /\ Fits(k, c, r) /\ k.app = a /\ l = Gave(Seg(k)).sock
        /\ b = [r EXCEPT !.got = Append(r.got, Head(k.tx))] /\ k.tx # <<>>
    BY <2>1, <2>4, <2>5 DEF CanGive
  <2>7. Fits(l, c, b) /\ l.app = k.app
    BY ONLY <2>6, ReceiveFits
  <2>8. Fits(s.sock, ConnAt(conns, h, setting), b) /\ s.sock.app = a
    BY <2>5, <2>6, <2>7
  <2>9. b.syns = apps[a].syns
    BY <1>1, <1>2, <2>1 DEF AppRecords
  <2> QED
    BY <2>3, <2>8, <2>9, SegmentStep
<1>6. CASE Fin(a)
  <2>1. PICK h, s, b :
          /\ h \in HandleOf(a) /\ Segment(h, s) /\ b = [r EXCEPT !.fin = TRUE]
          /\ apps' = [apps EXCEPT ![a] = b] /\ CanFin(sockets[h]) /\ s = FinTaken(Work(h))
    BY <1>1, <1>2, <1>6 DEF Fin
  <2>2. Becomes(a, b)
    BY <1>1, <2>1 DEF Becomes, Elsewhere
  <2>3. SegmentAs(h, a, s.sock, b) /\ AtSocket(h, a)
    BY ONLY TcpInv, a \in Apps, <2>1, <2>2, SegmentIs, Zenon
  <2>4. Fits(sockets[h], ConnAt(conns, h, setting), r) /\ Work(h) = Seg(sockets[h]) /\ sockets[h].app = a
    BY <1>2, <2>3 DEF AtSocket
  <2>5. PICK k, c, l : k = sockets[h] /\ c = ConnAt(conns, h, setting) /\ l = s.sock
    OBVIOUS
  <2>6. /\ Fits(k, c, r) /\ k.app = a /\ l = FinTaken(Seg(k)).sock
        /\ b = [r EXCEPT !.fin = TRUE] /\ CanFin(k)
    BY <2>1, <2>4, <2>5
  <2>7. Fits(l, c, b) /\ l.app = k.app
    BY ONLY <2>6, FinFits
  <2>8. Fits(s.sock, ConnAt(conns, h, setting), b) /\ s.sock.app = a
    BY <2>5, <2>6, <2>7
  <2>9. b.syns = apps[a].syns
    BY <1>1, <1>2, <2>1 DEF AppRecords
  <2> QED
    BY <2>3, <2>8, <2>9, SegmentStep
<1>7. CASE AckFin(a)
  <2>1. PICK h, s, b :
          /\ h \in HandleOf(a) /\ Segment(h, s) /\ b = [r EXCEPT !.ended = TRUE]
          /\ apps' = [apps EXCEPT ![a] = b] /\ CanAckFin(sockets[h]) /\ s = FinAcked(Work(h))
    BY <1>1, <1>2, <1>7 DEF AckFin
  <2>2. Becomes(a, b)
    BY <1>1, <2>1 DEF Becomes, Elsewhere
  <2>3. SegmentAs(h, a, s.sock, b) /\ AtSocket(h, a)
    BY ONLY TcpInv, a \in Apps, <2>1, <2>2, SegmentIs, Zenon
  <2>4. Fits(sockets[h], ConnAt(conns, h, setting), r) /\ Work(h) = Seg(sockets[h]) /\ sockets[h].app = a
    BY <1>2, <2>3 DEF AtSocket
  <2>5. PICK k, c, l : k = sockets[h] /\ c = ConnAt(conns, h, setting) /\ l = s.sock
    OBVIOUS
  <2>6. /\ Fits(k, c, r) /\ k.app = a /\ l = FinAcked(Seg(k)).sock
        /\ b = [r EXCEPT !.ended = TRUE] /\ CanAckFin(k)
    BY <2>1, <2>4, <2>5
  <2>7. Fits(l, c, b) /\ l.app = k.app
    BY ONLY <2>6, AckFinFits
  <2>8. Fits(s.sock, ConnAt(conns, h, setting), b) /\ s.sock.app = a
    BY <2>5, <2>6, <2>7
  <2>9. b.syns = apps[a].syns
    BY <1>1, <1>2, <2>1 DEF AppRecords
  <2> QED
    BY <2>3, <2>8, <2>9, SegmentStep
<1>8. CASE Reset(a)
  <2>1. PICK h, s, b :
          /\ h \in HandleOf(a) /\ Segment(h, s) /\ b = [r EXCEPT !.reset = TRUE]
          /\ apps' = [apps EXCEPT ![a] = b] /\ CanReset(sockets[h]) /\ s = WasReset(Work(h))
    BY <1>1, <1>2, <1>8 DEF Reset
  <2>2. Becomes(a, b)
    BY <1>1, <2>1 DEF Becomes, Elsewhere
  <2>3. SegmentAs(h, a, s.sock, b) /\ AtSocket(h, a)
    BY ONLY TcpInv, a \in Apps, <2>1, <2>2, SegmentIs, Zenon
  <2>4. Fits(sockets[h], ConnAt(conns, h, setting), r) /\ Work(h) = Seg(sockets[h]) /\ sockets[h].app = a
    BY <1>2, <2>3 DEF AtSocket
  <2>5. PICK k, c, l : k = sockets[h] /\ c = ConnAt(conns, h, setting) /\ l = s.sock
    OBVIOUS
  <2>6. /\ Fits(k, c, r) /\ k.app = a /\ l = WasReset(Seg(k)).sock
        /\ b = [r EXCEPT !.reset = TRUE] /\ CanReset(k)
    BY <2>1, <2>4, <2>5
  <2>7. Fits(l, c, b) /\ l.app = k.app
    BY ONLY <2>6, ResetFits
  <2>8. Fits(s.sock, ConnAt(conns, h, setting), b) /\ s.sock.app = a
    BY <2>5, <2>6, <2>7
  <2>9. b.syns = apps[a].syns
    BY <1>1, <1>2, <2>1 DEF AppRecords
  <2> QED
    BY <2>3, <2>8, <2>9, SegmentStep
<1> QED
  BY <1>3, <1>4, <1>5, <1>6, <1>7, <1>8 DEF App

\* A new socket gets a handle that is not in use.
LEMMA FreeIsNew ==
  ASSUME IsFiniteSet(DOMAIN sockets)
  PROVE  Free \notin DOMAIN sockets
<1>1. PICK D : D = DOMAIN sockets
  OBVIOUS
<1>2. PICK n \in Nat : n = Cardinality(D)
  BY <1>1, FS_CardinalityType
<1>3. PICK T : T = {h \in 1 .. n + 1 : h \notin D}
  OBVIOUS
<1>4. T # {}
  <2> SUFFICES ASSUME T = {} PROVE FALSE
    OBVIOUS
  <2>1. 1 .. n + 1 \in SUBSET D
    BY <1>3
  <2>2. Cardinality(1 .. n + 1) <= n
    BY <1>1, <1>2, <2>1, FS_Subset
  <2>3. Cardinality(1 .. n + 1) = n + 1
    BY FS_Interval
  <2> QED
    BY <2>2, <2>3
<1>5. PICK h \in T : \A g \in T : h <= g
  <2>1. T \subseteq Nat
    BY <1>3
  <2> QED
    BY <1>4, <2>1, LeastExists
<1>6. h \in 1 .. n + 1 /\ h \notin D /\ \A g \in 1 .. h - 1 : g \in D
  BY <1>3, <1>5
<1> QED
  BY <1>1, <1>2, <1>6 DEF Free

\* A new socket and the connection it gets fit a new application.
LEMMA NewFits ==
  ASSUME NEW l \in Sockets, l.state = "SynReceived", l.rx = <<>>, l.tx = <<>>, NEW st,
         NEW b \in AppRecords, b.sent = 0, b.got = <<>>, ~b.ended
  PROVE  Fits(l, NewConnection(Pooled(st.pooled)), b)
<1>1. PICK p, c : p = Pooled(st.pooled) /\ c = NewConnection(p)
  OBVIOUS
<1>2. /\ RemoteSound(p) /\ Upward(p) = <<>> /\ p.dec = <<>> /\ p.seen = 0 /\ ~p.shut
      /\ p \in Remotes
  BY <1>1, PooledSound DEF RemoteSound
<1>3. p.shut = FALSE
  BY <1>2 DEF Remotes
<1>4. <<>> \in Chunks /\ Len(<<>>) = 0 /\ <<>> \o <<>> = <<>> /\ Count(0) \in Chunks /\ Count(0) = <<>>
  <2>1. <<>> \in Chunks
    BY DEF Chunks
  <2>2. Count(0) \in Chunks /\ Len(Count(0)) = 0
    BY Counting
  <2> QED
    BY <2>1, <2>2, NothingJoined
<1>5. /\ c.remote = p /\ c.lbuffer = <<>> /\ c.lclosed = FALSE /\ c.rclosed = FALSE
      /\ c.established = FALSE /\ c \in TcpConns
  BY <1>1, <1>2, <1>4 DEF NewConnection, TcpConns
<1>6. UpKept(l, c, b)
  BY <1>2, <1>4, <1>5 DEF UpKept, Lead
<1>7. DownKept(l, c, b)
  BY <1>2, <1>4, <1>5 DEF DownKept
<1>8. Orderly(l, c, b)
  BY <1>5 DEF Orderly, Ending
<1>9. Len(l.tx) <= TxCap
  BY <1>4, BuffersAssumption
<1>10. Len(c.lbuffer) <= 1
  BY <1>4, <1>5
<1> QED
  BY <1>1, <1>2, <1>3, <1>5, <1>6, <1>7, <1>8, <1>9, <1>10 DEF Fits

\* The socket that preprocess_packet makes for a SYN, in state x.
Fresh(a, x, w) == [app |-> a, state |-> x, rx |-> <<>>, tx |-> <<>>, wakers |-> w]

LEMMA FreshSockets ==
  ASSUME NEW a \in Apps, NEW s, s = set_state(Seg(Fresh(a, "Listen", {"tx"})), "Listen")
  PROVE  /\ s.sock = Fresh(a, "Listen", {}) /\ SynTaken(s).sock = Fresh(a, "SynReceived", {})
         /\ s.sock \in Sockets /\ SynTaken(s).sock \in Sockets
<1>1. ASSUME NEW k, NEW v, NEW x
      PROVE  [[sock |-> k, ev |-> v] EXCEPT !.sock.state = x] = [sock |-> [k EXCEPT !.state = x], ev |-> v]
  BY ONLY TRUE
<1>2. ASSUME NEW v, NEW w, NEW x, w \subseteq {"rx", "tx"}, NEW t,
             t = [sock |-> Fresh(a, x, w), ev |-> v], NEW y
      PROVE  set_state(t, y) = [sock |-> Fresh(a, y, {}), ev |-> v \cup ({"rx", "tx"} \cap w)]
  <2>1. PICK f, g, u, e, z : /\ f = Fresh(a, x, w) /\ g = Fresh(a, y, w) /\ u = [sock |-> g, ev |-> v]
                             /\ e = v \cup ({"rx", "tx"} \cap w) /\ z = w \ {"rx", "tx"}
    OBVIOUS
  <2>2. [f EXCEPT !.state = y] = g /\ [g EXCEPT !.wakers = z] = Fresh(a, y, z) /\ g.wakers = w
    <3>1. [Fresh(a, x, w) EXCEPT !.state = y] = Fresh(a, y, w)
      BY ONLY TRUE DEF Fresh
    <3>2. [Fresh(a, y, w) EXCEPT !.wakers = z] = Fresh(a, y, z) /\ Fresh(a, y, w).wakers = w
      BY ONLY TRUE DEF Fresh
    <3> QED
      BY ONLY <2>1, <3>1, <3>2
  <2>3. [t EXCEPT !.sock.state = y] = u
    <3>1. [[sock |-> f, ev |-> v] EXCEPT !.sock.state = y] = [sock |-> [f EXCEPT !.state = y], ev |-> v]
      BY ONLY <1>1
    <3> QED
      BY ONLY <1>2, <2>1, <2>2, <3>1
  <2>4. u.ev = v /\ u.sock = g /\ z = {}
    BY <1>2, <2>1
  <2>5. set_state(t, y) = [u EXCEPT !.ev = e, !.sock.wakers = z]
    BY ONLY <2>1, <2>2, <2>3, <2>4 DEF set_state, Wake
  <2>6. [u EXCEPT !.ev = e, !.sock.wakers = z] = [sock |-> [g EXCEPT !.wakers = z], ev |-> e]
    <3>1. [u EXCEPT !.ev = e, !.sock.wakers = z] = [[u EXCEPT !.ev = e] EXCEPT !.sock.wakers = z]
      BY ONLY TRUE
    <3>2. [u EXCEPT !.ev = e] = [sock |-> g, ev |-> e]
      BY ONLY <2>1
    <3>3. [[sock |-> g, ev |-> e] EXCEPT !.sock.wakers = z] = [sock |-> [g EXCEPT !.wakers = z], ev |-> e]
      BY ONLY TRUE
    <3> QED
      BY ONLY <3>1, <3>2, <3>3
  <2> QED
    BY ONLY <2>1, <2>2, <2>4, <2>5, <2>6
<1>3. <<>> \in Chunks
  BY DEF Chunks
<1>4. Fresh(a, "Listen", {}) \in Sockets /\ Fresh(a, "SynReceived", {}) \in Sockets
  BY <1>3 DEF Fresh, Sockets, States
<1>5. PICK v : s = [sock |-> Fresh(a, "Listen", {}), ev |-> v]
  BY <1>2 DEF Seg
<1>6. s.sock = Fresh(a, "Listen", {})
  BY <1>5
<1>7. SynTaken(s).sock = Fresh(a, "SynReceived", {})
  BY <1>2, <1>5 DEF SynTaken
<1> QED
  BY <1>4, <1>6, <1>7

\* A SYN: the first makes the socket that counts, another one that nobody uses.
LEMMA SynKeeps ==
  ASSUME TcpInv, NEW a \in Apps, Syn(a)
  PROVE  TcpInv'
<1>1. TcpState(conns, sockets, apps, setting) /\ TcpKeys /\ AppsSound(sockets, apps)
  BY DEF TcpInv, TcpState
<1>2. PICK h, s, l : /\ h = Free /\ s = set_state(Seg(Fresh(a, "Listen", {"tx"})), "Listen")
                     /\ l = IF apps[a].syns = 0 THEN SynTaken(s).sock ELSE s.sock
  OBVIOUS
<1>3. /\ sockets' = Put(sockets, h, l) /\ events' = events \cup Sent("tcp", h, s.ev)
      /\ apps' = [apps EXCEPT ![a].syns = apps[a].syns + 1] /\ conns' = conns
      /\ UNCHANGED <<setting, at, batch>> /\ at = "iface"
  BY <1>2 DEF Syn, Seg, Fresh
<1>4. h \notin DOMAIN sockets
  BY <1>1, <1>2, FreeIsNew DEF TcpState
<1>5. /\ s.sock = Fresh(a, "Listen", {}) /\ SynTaken(s).sock = Fresh(a, "SynReceived", {})
      /\ s.sock \in Sockets /\ SynTaken(s).sock \in Sockets
  BY <1>2, FreshSockets
<1>6. PICK as : as = apps'
  OBVIOUS
<1>7. /\ TcpState(conns, sockets, as, setting) /\ as[a] = [apps[a] EXCEPT !.syns = apps[a].syns + 1]
      /\ as[a] \in AppRecords /\ as[a].syns # 0 /\ DOMAIN as = Apps
  <2>1. MoreSyns(apps, as, a)
    BY <1>3, <1>6 DEF MoreSyns
  <2>2. TcpState(conns, sockets, as, setting) /\ SynsMore(apps, as, a)
    BY ONLY <1>1, <2>1, a \in Apps, SynCounted, Zenon
  <2> QED
    BY <2>2 DEF SynsMore
<1>8. /\ DOMAIN sockets' = DOMAIN sockets \cup {h} /\ sockets'[h] = l
      /\ \A g \in DOMAIN sockets : sockets'[g] = sockets[g]
  BY <1>3, <1>4 DEF Put
<1>9. TcpState(conns, sockets', as, setting)
  <2>1. CASE apps[a].syns = 0
    <3>1. apps[a] = NewApp /\ \A g \in DOMAIN sockets : sockets[g].app # a
      BY <1>1, <2>1 DEF AppsSound
    <3>2. as[a].sent = 0 /\ as[a].got = <<>> /\ ~as[a].ended
      BY <1>7, <3>1 DEF NewApp
    <3>3. /\ l \in Sockets /\ l.app = a /\ l.state = "SynReceived" /\ l.rx = <<>> /\ l.tx = <<>>
      BY <1>2, <1>5, <2>1 DEF Fresh
    <3>4. h \notin DOMAIN conns
      BY <1>1, <1>4 DEF TcpState
    <3>5. Fits(l, ConnAt(conns, h, setting), as[a])
      BY <1>7, <3>2, <3>3, <3>4, NewFits DEF ConnAt
    <3>6. StepsTo(conns, sockets', as, setting, h, a)
      BY <1>7, <1>8, <3>3, <3>4, <3>5 DEF StepsTo
    <3>7. Elsewhere(conns, conns, h) /\ Elsewhere(as, as, a) /\ Elsewhere(sockets, sockets', h)
      BY <1>8 DEF Elsewhere
    <3>8. Alone(conns, sockets, h, a)
      BY <3>1 DEF Alone
    <3> QED
      BY ONLY <1>7, <3>6, <3>7, <3>8, a \in Apps, OneChanges, Zenon
  <2>2. CASE apps[a].syns # 0
    <3>1. l \in Sockets /\ l.app = a /\ l.state = "Listen"
      BY <1>2, <1>5, <2>2 DEF Fresh
    <3> QED
      BY <1>3, <1>4, <1>7, <3>1, UnusedAdded
  <2> QED
    BY <2>1, <2>2
<1>10. TcpKeys'
  <2>1. \A x \in events' : x \in events \/ x.key = h
    BY <1>3, SentOf
  <2> QED
    BY <1>1, <1>3, <1>8, <2>1 DEF TcpKeys
<1> QED
  BY <1>3, <1>6, <1>9, <1>10 DEF TcpInv

\* A step of the network or of the server does not matter to a connection.
LEMMA RemoteStep ==
  ASSUME NEW k, NEW c, NEW a, Fits(k, c, a), NEW q,
         Moved(c.remote, q) \/ (Outside(c.remote, q) /\ ~c.remote.shut),
         NEW d, d = [c EXCEPT !.remote = q]
  PROVE  NoMatter(c, d)
<1>1. CASE Moved(c.remote, q)
  <2>1. d.lclosed = c.lclosed /\ d.rclosed = c.rclosed
    BY <1>1, MovedData
  <2> QED
    BY <1>1, <2>1, MovedData DEF NoMatter
<1>2. CASE Outside(c.remote, q) /\ ~c.remote.shut
  <2>1. c \in TcpConns /\ q \in Remotes /\ RemoteSound(q) /\ c.rclosed = c.remote.shut
    BY <1>2 DEF Fits, Outside, RemoteSound
  <2>2. /\ d \in TcpConns /\ d.remote = q /\ d.lbuffer = c.lbuffer /\ d.established = c.established
        /\ d.lclosed = c.lclosed /\ d.rclosed = c.rclosed
    BY <2>1 DEF TcpConns
  <2>3. SameData(c, d) /\ ~d.rclosed
    BY <1>2, <2>1, <2>2 DEF SameData, Outside
  <2>4. ASSUME NEW l, NEW b, Fits(l, c, b) PROVE Fits(l, d, b)
    BY <2>2, <2>3, <2>4, SameDataFits
  <2> QED
    BY <2>2, <2>4 DEF NoMatter
<1> QED
  BY <1>1, <1>2

\* The connection of a socket, if it has one.
LEMMA ConnFits ==
  ASSUME TcpInv, NEW h \in DOMAIN conns
  PROVE  /\ h \in DOMAIN sockets /\ Fits(sockets[h], conns[h], apps[sockets[h].app])
         /\ conns[h] \in TcpConns /\ RemoteSound(conns[h].remote)
<1>1. h \in DOMAIN sockets /\ Real(conns, sockets, h) /\ ConnAt(conns, h, setting) = conns[h]
  BY DEF TcpInv, TcpState, Real, ConnAt
<1>2. Fits(sockets[h], conns[h], apps[sockets[h].app])
  BY <1>1 DEF TcpInv, TcpState
<1> QED
  BY <1>1, <1>2 DEF Fits

LEMMA TcpPeersKeep ==
  ASSUME TcpInv, NEW h \in DOMAIN conns, TcpPeers(h)
  PROVE  TcpInv'
<1>1. PICK c, p : c = conns[h] /\ p = c.remote
  OBVIOUS
<1>2. Fits(sockets[h], c, apps[sockets[h].app]) /\ c \in TcpConns /\ RemoteSound(p)
  BY <1>1, ConnFits
<1>3. PICK q : Peer(h, q) /\ (Moved(p, q) \/ (Outside(p, q) /\ ~p.shut))
  <2>1. CASE TcpConnect(h)
    BY <1>1, <1>2, <2>1, NetworkMoves DEF TcpConnect
  <2>2. CASE TcpGreet(h)
    BY <1>1, <1>2, <2>2, NetworkMoves DEF TcpGreet, Greets
  <2>3. CASE TcpDeliver(h)
    BY <1>1, <1>2, <2>3, NetworkMoves DEF TcpDeliver, Delivers
  <2>4. CASE TcpServe(h)
    <3>1. Peer(h, Served(p)) /\ Serves(p)
      BY <1>1, <2>4 DEF TcpServe
    <3>2. Outside(p, Served(p)) /\ ~p.shut
      BY <1>2, <3>1, ServerSends DEF Serves
    <3> QED
      BY <3>1, <3>2
  <2>5. CASE TcpEnd(h)
    <3>1. PICK q : /\ Peer(h, q) /\ ~p.shut
                   /\ \/ q = Finished(p) /\ Serves(p)
                      \/ q = WithReset(p)
                      \/ q = WithBadRecord(p) /\ Breakable(p)
      BY <1>1, <2>5 DEF TcpEnd, Serves, Resettable, Breakable
    <3>2. Outside(p, q)
      BY <1>2, <3>1, ServerEnds
    <3> QED
      BY <3>1, <3>2
  <2> QED
    BY <2>1, <2>2, <2>3, <2>4, <2>5 DEF TcpPeers
<1>4. PICK d : d = [c EXCEPT !.remote = q]
  OBVIOUS
<1>5. NoMatter(c, d)
  BY <1>1, <1>2, <1>3, <1>4, RemoteStep
<1>6. /\ conns' = [conns EXCEPT ![h].remote = q] /\ UNCHANGED <<setting, at, events, batch, sockets, apps>>
  BY <1>3 DEF Peer, loopvars
<1>7. DOMAIN conns' = DOMAIN conns /\ conns'[h] = d /\ \A g \in DOMAIN conns \ {h} : conns'[g] = conns[g]
  BY <1>1, <1>4, <1>6
<1>8. \A g \in DOMAIN conns : NoMatter(conns[g], conns'[g])
  BY <1>1, <1>5, <1>7 DEF NoMatter
<1>9. TcpState(conns, sockets, apps, setting) /\ TcpKeys
  BY DEF TcpInv
<1>10. TcpState(conns', sockets, apps, setting)
  BY ONLY <1>7, <1>8, <1>9, AllChange
<1>11. TcpKeys'
  BY <1>6, <1>7, <1>9 DEF TcpKeys
<1> QED
  BY <1>6, <1>10, <1>11 DEF TcpInv

\* poll reports what is ready.
LEMMA TcpPollKeeps ==
  ASSUME TcpInv, Poll
  PROVE  TcpInv'
<1>1. /\ UNCHANGED <<setting, events, sockets, apps>> /\ at = "local" /\ at' = "events"
      /\ batch' = Remote("tcp", conns) \cup Remote("udp", uconns)
      /\ DOMAIN conns' = DOMAIN conns
      /\ \A h \in DOMAIN conns : conns'[h] = [conns[h] EXCEPT !.remote = Reported(conns[h].remote)]
  BY DEF Poll
<1>2. TcpState(conns, sockets, apps, setting) /\ TcpKeys
  BY DEF TcpInv
<1>3. ASSUME NEW h \in DOMAIN conns PROVE NoMatter(conns[h], conns'[h])
  <2>1. PICK c, q : c = conns[h] /\ q = Reported(c.remote)
    OBVIOUS
  <2>2. Fits(sockets[h], c, apps[sockets[h].app]) /\ RemoteSound(c.remote)
    BY <2>1, ConnFits
  <2>3. Moved(c.remote, q)
    BY <2>1, <2>2, Blocks
  <2> QED
    BY <1>1, <2>1, <2>2, <2>3, RemoteStep
<1>4. TcpState(conns', sockets, apps, setting)
  BY ONLY <1>1, <1>2, <1>3, AllChange
<1>5. /\ \A x \in Remote("tcp", conns) : x.of = "tcp" /\ x.key \in DOMAIN conns
      /\ \A x \in Remote("udp", uconns) : x.of = "udp"
  BY DEF Remote
<1>6. \A x, y \in batch' : x.of = y.of /\ x.key = y.key => x = y
  <2>1. \A x, y \in Remote("tcp", conns) : x.key = y.key => x = y
    BY DEF Remote
  <2>2. \A x, y \in Remote("udp", uconns) : x.key = y.key => x = y
    BY DEF Remote
  <2> QED
    BY <1>1, <1>5, <2>1, <2>2
<1>7. TcpKeys'
  <2>1. \A x \in batch' : x.of = "tcp" => x.key \in DOMAIN conns'
    BY <1>1, <1>5
  <2> QED
    BY <1>1, <1>2, <1>6, <2>1 DEF TcpKeys
<1> QED
  BY <1>1, <1>4, <1>7 DEF TcpInv

\* Time passes.
LEMMA TcpWaitKeeps ==
  ASSUME TcpInv, Wait
  PROVE  TcpInv'
<1>1. /\ UNCHANGED <<setting, at, events, batch, sockets, apps>> /\ DOMAIN conns' = DOMAIN conns
      /\ \A h \in DOMAIN conns :
           conns'[h] = [conns[h] EXCEPT !.idle = Least(conns[h].idle + 1, setting.timer)]
  BY DEF Wait, TcpWait
<1>2. TcpState(conns, sockets, apps, setting) /\ TcpKeys
  BY DEF TcpInv
<1>3. ASSUME NEW h \in DOMAIN conns PROVE NoMatter(conns[h], conns'[h])
  <2>1. PICK c, i : c = conns[h] /\ i = Least(c.idle + 1, setting.timer)
    OBVIOUS
  <2>2. c \in TcpConns
    BY <2>1, ConnFits
  <2>3. i \in Nat
    <3>1. PICK n \in Nat : n = c.idle
      BY <2>2 DEF TcpConns
    <3>2. PICK m \in Nat : m = setting.timer
      BY <1>2, SettingsAssumption DEF TcpKeys, SettingOK
    <3> QED
      BY <2>1, <3>1, <3>2 DEF Least
  <2>4. PICK d : d = [c EXCEPT !.idle = i]
    OBVIOUS
  <2>5. d.lclosed = c.lclosed /\ d.rclosed = c.rclosed
    BY <2>2, <2>4 DEF TcpConns
  <2>6. ASSUME NEW k, NEW a, Fits(k, c, a) PROVE Fits(k, d, a)
    BY <2>3, <2>4, <2>6, NotIdle
  <2>7. NoMatter(c, d)
    BY <2>5, <2>6 DEF NoMatter
  <2> QED
    BY <1>1, <2>1, <2>4, <2>7
<1>4. TcpState(conns', sockets, apps, setting)
  BY ONLY <1>1, <1>2, <1>3, AllChange
<1>5. TcpKeys'
  BY <1>1, <1>2 DEF TcpKeys
<1> QED
  BY <1>1, <1>4, <1>5 DEF TcpInv

\* The end of a connection wakes nobody: close_local takes the wakers out of the
\* socket first, and a connection whose local side is closed has none.
LEMMA EndsQuietly ==
  ASSUME NEW k, NEW c, NEW a, Fits(k, c, a), NEW s,
         s = close_remote(close_local(IF c.lclosed /\ c.idle >= Long
                                      THEN set_state(Job(k, c), "Closed") ELSE Job(k, c)))
  PROVE  s.ev = {}
<1>1. k \in Sockets /\ (c.lclosed => k.wakers = {})
  BY DEF Fits
<1>2. PICK l \in Sockets : (IF c.lclosed /\ c.idle >= Long
                            THEN set_state(Job(k, c), "Closed") ELSE Job(k, c)) = Job(l, c)
  <2>1. CASE c.lclosed /\ c.idle >= Long
    <3>1. set_state(Job(k, c), "Closed") = Job([k EXCEPT !.state = "Closed"], c)
      BY <1>1, <2>1, SetStateAs
    <3>2. [k EXCEPT !.state = "Closed"] \in Sockets
      BY <1>1 DEF Sockets, States
    <3> QED
      BY <2>1, <3>1, <3>2
  <2> QED
    BY <1>1, <2>1
<1>3. PICK m, d : close_local(Job(l, c)) = Job(m, d)
  <2>1. CASE c.lclosed
    <3>1. Job(l, c).c = c
      BY DEF Job
    <3> QED
      BY <2>1, <3>1 DEF close_local
  <2> QED
    BY <2>1, CloseLocalAs
<1>4. s = close_remote(Job(m, d))
  BY <1>2, <1>3
<1>5. CASE d.rclosed
  <2>1. Job(m, d).c = d /\ Job(m, d).ev = {}
    BY DEF Job
  <2> QED
    BY <1>4, <1>5, <2>1 DEF close_remote
<1>6. CASE ~d.rclosed
  <2>1. PICK e : s = Job(m, e)
    BY <1>4, <1>6, CloseRemoteAs
  <2> QED
    BY <2>1 DEF Job
<1> QED
  BY <1>5, <1>6

LEMMA EndOfRoundKeeps ==
  ASSUME TcpInv, EndOfRound
  PROVE  TcpInv'
<1>1. TcpState(conns, sockets, apps, setting) /\ TcpKeys
  BY DEF TcpInv
<1> DEFINE late == {h \in DOMAIN conns \ removed : due /\ TcpExpired(conns[h])}
           gone == (removed \cap DOMAIN conns) \cup late
           End(h) == close_remote(close_local(
                       IF conns[h].lclosed /\ conns[h].idle >= Long
                       THEN set_state(Job(sockets[h], conns[h]), "Closed")
                       ELSE Job(sockets[h], conns[h])))
<1>2. /\ events' = events \cup UNION {Sent("tcp", h, End(h).ev) : h \in late}
      /\ sockets' = Without(sockets, gone) /\ conns' = Without(conns, gone)
      /\ UNCHANGED <<setting, batch, apps>> /\ at = "events" /\ at' = "iface" /\ batch = {}
  BY DEF EndOfRound, TcpRemoved, Job
<1>3. late \subseteq DOMAIN conns /\ gone \subseteq DOMAIN conns
  OBVIOUS
<1>4. \A h \in late : End(h).ev = {}
  BY <1>3, ConnFits, EndsQuietly
<1> HIDE DEF late, gone, End
<1>5. \A x \in events' : x \in events
  <2>1. \A h \in late : Sent("tcp", h, End(h).ev) = {}
    BY <1>4 DEF Sent
  <2> QED
    BY <1>2, <2>1
<1>6. Fewer(sockets, sockets') /\ Fewer(conns, conns') /\ DOMAIN conns' = DOMAIN conns \cap DOMAIN sockets'
  <2>1. DOMAIN conns \subseteq DOMAIN sockets
    BY <1>1 DEF TcpState
  <2> QED
    BY <1>2, <2>1 DEF Without, Fewer
<1>7. TcpState(conns', sockets', apps, setting)
  BY ONLY <1>1, <1>6, SomeGo
<1>8. \A x \in events : x.of # "tcp"
  BY <1>1, <1>2 DEF TcpKeys
<1>9. TcpKeys'
  BY <1>1, <1>2, <1>5, <1>8 DEF TcpKeys
<1> QED
  BY <1>2, <1>7, <1>9 DEF TcpInv

-----------------------------------------------------------------------------
(* The invariant of the TCP server *)

\* What the UDP server does, its applications and its peers.
UdpOnly ==
  /\ UNCHANGED <<setting, at, tcpvars>> /\ batch' \subseteq batch
  /\ \A x \in events' : x \in events \/ x.of = "udp"

LEMMA UdpOnlyKeeps ==
  ASSUME TcpInv, UdpOnly
  PROVE  TcpInv'
<1>1. /\ setting' = setting /\ at' = at /\ batch' \subseteq batch /\ sockets' = sockets
      /\ conns' = conns /\ apps' = apps /\ \A x \in events' : x \in events \/ x.of = "udp"
  BY DEF UdpOnly, tcpvars
<1>2. TcpKeys'
  BY <1>1 DEF TcpInv, TcpKeys
<1> QED
  BY <1>1, <1>2 DEF TcpInv

\* get_events gives one event for each socket.
LEMMA EventsMerged ==
  ASSUME NEW sent, NEW x \in get_events(sent), NEW y \in get_events(sent), x.of = y.of, x.key = y.key
  PROVE  x = y
<1> DEFINE Kinds(of, key) == {f.kind : f \in {g \in sent : g.of = of /\ g.key = key}}
<1>1. PICK e \in sent : x = [of |-> e.of, key |-> e.key, kinds |-> Kinds(e.of, e.key)]
  BY DEF get_events
<1>2. PICK f \in sent : y = [of |-> f.of, key |-> f.key, kinds |-> Kinds(f.of, f.key)]
  BY DEF get_events
<1> HIDE DEF Kinds
<1>3. e.of = f.of /\ e.key = f.key
  BY <1>1, <1>2
<1> QED
  BY <1>1, <1>2, <1>3

LEMMA UdpHandlersOnly ==
  ASSUME NEW e \in batch, UdpHandlers(e), UNCHANGED <<tcpvars, routes>>
  PROVE  UdpOnly
<1>1. CASE UdpLocal(e)
  BY <1>1 DEF UdpLocal, Handling, UdpOnly, loopvars
<1>2. CASE UdpDrained(e)
  BY <1>2 DEF UdpDrained, Handled, UdpOnly
<1>3. CASE UdpRemote(e)
  BY <1>3 DEF UdpRemote, Handled, UdpOnly
<1> QED
  BY <1>1, <1>2, <1>3 DEF UdpHandlers

LEMMA UdpWorldOnly ==
  ASSUME Post \/ (\E d \in DOMAIN usocks : Tell(d)) \/ (\E s \in DOMAIN uconns : UdpPeers(s)),
         UNCHANGED <<tcpvars, routes>>
  PROVE  UdpOnly
<1>1. CASE Post
  <2>1. \A x \in events' : x \in events \/ x.of = "udp"
    BY <1>1, SentOf DEF Post
  <2> QED
    BY <1>1, <2>1 DEF Post, UdpOnly
<1>2. CASE \E d \in DOMAIN usocks : Tell(d)
  <2>1. PICK d \in DOMAIN usocks : Tell(d)
    BY <1>2
  <2>2. PICK ev : events' = events \cup Sent("udp", d, ev)
    BY <2>1 DEF Tell
  <2>3. \A x \in events' : x \in events \/ x.of = "udp"
    BY <2>2, SentOf
  <2> QED
    BY <2>1, <2>3 DEF Tell, UdpOnly
<1>3. CASE \E s \in DOMAIN uconns : UdpPeers(s)
  <2>1. \E s, q : UdpPeer(s, q)
    BY <1>3 DEF UdpPeers, UdpConnect, UdpGreet, UdpDeliver, UdpServe, UdpEnd
  <2> QED
    BY <2>1 DEF UdpPeer, UdpOnly, loopvars
<1> QED
  BY <1>1, <1>2, <1>3

LEMMA LoopKeepsTcp ==
  ASSUME TcpInv, Loop
  PROVE  TcpInv'
<1>1. CASE apply_ipset
  <2>1. /\ UNCHANGED <<setting, events, batch, sockets, conns, apps>> /\ at = "start" /\ at' = "iface"
    BY <1>1 DEF apply_ipset, tcpvars
  <2>2. TcpKeys'
    BY <2>1 DEF TcpInv, TcpKeys
  <2> QED
    BY <2>1, <2>2 DEF TcpInv
<1>2. CASE Interface
  <2>1. /\ UNCHANGED <<setting, sockets, conns, apps>> /\ at = "iface" /\ at' = "local"
        /\ events' = {} /\ batch' = get_events(events)
    BY <1>2 DEF Interface, tcpvars
  <2>2. \A x \in get_events(events) : \E y \in events : x.of = y.of /\ x.key = y.key
    BY DEF get_events
  <2>3. \A x, y \in get_events(events) : x.of = y.of /\ x.key = y.key => x = y
    BY EventsMerged
  <2>4. TcpKeys'
    BY <2>1, <2>2, <2>3 DEF TcpInv, TcpKeys
  <2> QED
    BY <2>1, <2>4 DEF TcpInv
<1>3. CASE Poll
  BY <1>3, TcpPollKeeps
<1>4. CASE EndOfRound
  BY <1>4, EndOfRoundKeeps
<1>5. CASE \E e \in batch : Handlers(e) /\ UNCHANGED <<udpvars, routes>>
  BY <1>5, TcpHandlersKeep
<1>6. CASE \E e \in batch : UdpHandlers(e) /\ UNCHANGED <<tcpvars, routes>>
  BY <1>6, UdpHandlersOnly, UdpOnlyKeeps
<1> QED
  BY <1>1, <1>2, <1>3, <1>4, <1>5, <1>6 DEF Loop

LEMMA TcpInitially ==
  ASSUME Init
  PROVE  TcpInv
<1>1. /\ sockets = << >> /\ conns = << >> /\ apps = [a \in Apps |-> NewApp] /\ setting \in Settings
      /\ events = {} /\ batch = {} /\ at = "start"
  BY DEF Init
<1>2. DOMAIN << >> = {} /\ <<>> \in Chunks
  BY DEF Chunks
<1>3. NewApp \in AppRecords
  BY <1>2 DEF NewApp, AppRecords
<1>4. AppsSound(sockets, apps)
  BY <1>1, <1>2, <1>3 DEF AppsSound
<1>5. TcpState(conns, sockets, apps, setting)
  BY <1>1, <1>2, <1>4, FS_EmptySet DEF TcpState
<1> QED
  BY <1>1, <1>5 DEF TcpInv, TcpKeys

LEMMA TcpStep ==
  ASSUME TcpInv, [Next]_vars
  PROVE  TcpInv'
<1>1. CASE Loop
  BY <1>1, LoopKeepsTcp
<1>2. CASE Wait
  BY <1>2, TcpWaitKeeps
<1>3. CASE \E a \in Apps : App(a)
  BY <1>3, SynKeeps, SegmentsKeep
<1>4. CASE \E h \in DOMAIN conns : TcpPeers(h)
  BY <1>4, TcpPeersKeep
<1>5. CASE /\ Post \/ (\E d \in DOMAIN usocks : Tell(d)) \/ (\E s \in DOMAIN uconns : UdpPeers(s))
           /\ UNCHANGED <<tcpvars, routes>>
  BY <1>5, UdpWorldOnly, UdpOnlyKeeps
<1>6. CASE UNCHANGED vars
  <2>1. UdpOnly
    BY <1>6 DEF vars, loopvars, tcpvars, UdpOnly
  <2> QED
    BY <2>1, UdpOnlyKeeps
<1> QED
  BY <1>1, <1>2, <1>3, <1>4, <1>5, <1>6 DEF Next

\* The invariant of the TCP server: of every application that has a socket, that
\* one socket is the one that counts and fits its connection, present or to come,
\* and what the application has sent and got; of every event, that its socket is
\* there.
THEOREM TcpInvariant == Spec => []TcpInv
<1>1. Init => TcpInv
  BY TcpInitially
<1>2. TcpInv /\ [Next]_vars => TcpInv'
  BY TcpStep
<1> QED
  BY <1>1, <1>2, PTL DEF Spec

\* Nothing is lost or reordered between an application and the server while the
\* connection lasts (copy_stream in both directions, lbuffer and the session of
\* the TLS connection, wintun/tcp.rs).
THEOREM NothingIsLost == Spec => []NothingLost
<1>1. TcpInv => NothingLost
  <2> SUFFICES ASSUME TcpInv, NEW h \in DOMAIN conns,
                      ~conns[h].rclosed, conns[h].remote.end # "rst"
               PROVE  LET c == conns[h]
                          p == c.remote
                          k == sockets[h]
                          a == apps[k.app]
                      IN  /\ p.heard \o p.out \o p.session \o p.plain \o k.rx
                               = (IF c.established THEN <<Header>> ELSE <<>>) \o Count(a.sent)
                          /\ a.got \o k.tx \o c.lbuffer \o p.dec \o p.in = Count(p.said)
    BY DEF NothingLost
  <2>1. PICK c, p, k, a : c = conns[h] /\ p = c.remote /\ k = sockets[h] /\ a = apps[k.app]
    OBVIOUS
  <2>2. Fits(k, c, a) /\ ~c.rclosed /\ p.end # "rst" /\ (c.lclosed => c.rclosed)
    BY <2>1, ConnFits DEF TcpInv, TcpState
  <2>3. UpKept(k, c, a) /\ DownKept(k, c, a) /\ Count(p.seen) \o p.in = Count(p.said)
    BY <2>1, <2>2 DEF Fits, RemoteSound
  <2>4. (((p.heard \o p.out) \o p.session) \o p.plain) \o k.rx
          = (IF c.established THEN <<Header>> ELSE <<>>) \o Count(a.sent)
    BY <2>1, <2>3 DEF UpKept, Upward, Lead
  <2>5. (((a.got \o k.tx) \o c.lbuffer) \o p.dec) \o p.in = Count(p.said)
    BY <2>1, <2>3 DEF DownKept
  <2> QED
    BY <2>1, <2>4, <2>5
<1> QED
  BY <1>1, TcpInvariant, PTL

\* An application that is told the end of the stream has got everything that
\* reads have returned, and after an orderly end everything the server sent
\* (close_local behind remote_to_local and check_half_close, wintun/tcp.rs); a
\* bad record takes with it only what came with it into the socket.
THEOREM RemainderIsSent == Spec => []RemainingDataSent
<1>1. TcpInv => RemainingDataSent
  <2> SUFFICES ASSUME TcpInv, NEW h \in DOMAIN conns,
                      apps[sockets[h].app].ended, ~apps[sockets[h].app].reset
               PROVE  LET p == conns[h].remote
                          a == apps[sockets[h].app]
                      IN  /\ a.got = Count(p.seen)
                          /\ p.end = "fin" => p.seen = p.said
                          /\ p.end = "bad" => p.seen + Len(p.in) = p.said
    BY DEF RemainingDataSent
  <2>1. PICK c, p, k, a : c = conns[h] /\ p = c.remote /\ k = sockets[h] /\ a = apps[k.app]
    OBVIOUS
  <2>2. Fits(k, c, a) /\ a.ended /\ ~a.reset
    BY <2>1, ConnFits
  <2>3. /\ DownKept(k, c, a) /\ c.rclosed /\ k.tx = <<>> /\ c.lbuffer = <<>> /\ p.dec = <<>>
        /\ p.end = "fin" => p.in = <<>>
    BY <2>1, <2>2 DEF Fits, Orderly
  <2>4. a.got \in Chunks /\ p.seen \in Nat /\ p.said \in Nat /\ p.in \in Chunks
    BY <2>1, <2>2, TcpParts, RemoteParts
  <2>5. a.got = Count(p.seen)
    BY <2>1, <2>3, <2>4, NothingJoined DEF DownKept
  <2>6. ASSUME p.end # "rst" PROVE p.seen + Len(p.in) = p.said
    <3>1. Count(p.seen) \o p.in = Count(p.said) /\ RemoteSound(p)
      BY <2>1, <2>2, <2>6 DEF Fits, RemoteSound
    <3>2. Count(p.seen + Len(p.in)) = Count(p.said)
      BY <3>1, SeenAll
    <3>3. p.seen + Len(p.in) \in Nat
      BY <2>4, NothingJoined
    <3>4. Len(Count(p.seen + Len(p.in))) = p.seen + Len(p.in) /\ Len(Count(p.said)) = p.said
      BY <2>4, <3>3, Counting
    <3> QED
      BY <3>2, <3>4
  <2>7. p.end = "fin" => p.seen = p.said
    BY <2>3, <2>4, <2>6, NothingJoined
  <2> QED
    BY <2>1, <2>5, <2>6, <2>7
<1> QED
  BY <1>1, TcpInvariant, PTL

\* A wake, and an event of mio, is handled for a socket that is there: get_socket
\* does not panic (do_local and do_remote of both servers, remove_closed and
\* check_timeout between them).
THEOREM EventsFindSockets == Spec => []EventsHaveSockets
<1>1. TcpInv /\ UdpInv => EventsHaveSockets
  <2> SUFFICES ASSUME TcpInv, UdpInv PROVE EventsHaveSockets
    OBVIOUS
  <2>1. TcpKeys /\ DOMAIN conns \subseteq DOMAIN sockets
    BY DEF TcpInv, TcpState
  <2>2. UdpKeys /\ \A s \in DOMAIN uconns : uconns[s].local \in DOMAIN usocks
    BY DEF UdpInv, UdpState, HandlesKept
  <2> QED
    BY <2>1, <2>2 DEF TcpKeys, UdpKeys, EventsHaveSockets
<1> QED
  BY <1>1, TcpInvariant, UdpInvariant, PTL
=============================================================================
