---------------------------- MODULE KernelSocket ----------------------------
(***************************************************************************)
(* A connected socket of the kernel, registered edge-triggered with the    *)
(* poll.  Data is counted in chunks.  full is SOCK_NOSPACE: a writer was   *)
(* turned away, so the next room that appears is an edge.  end says how    *)
(* the peer's stream ends after the chunks in .in: "fin", "rst" (also a    *)
(* refused connect), or "bad" (bytes that are not a TLS record).  up is    *)
(* FALSE while connecting.  edge is readiness that poll has not reported.  *)
(***************************************************************************)
EXTENDS Integers, Sequences

CONSTANT
  Cap  \* chunks a socket's send buffer holds (packets, for UDP)

ASSUME CapAssumption == Cap \in Nat \ {0}

Chunks == Seq(Nat)

Streams ==
  [in : Chunks, end : {"open", "fin", "rst", "bad"}, out : Chunks, full : BOOLEAN,
   edge : BOOLEAN, up : BOOLEAN]

NewStream(isUp) ==
  [in |-> <<>>, end |-> "open", out |-> <<>>, full |-> FALSE,
   edge |-> isUp, up |-> isUp]

Readable(k) == k.up /\ (k.in # <<>> \/ k.end # "open")

Writable(k) == k.up /\ (Len(k.out) < Cap \/ k.end = "rst")

\* The length of the prefix of data that the socket takes before the write
\* would block.
Taken(k, data) ==
  IF ~k.up THEN 0
  ELSE IF Len(data) <= Cap - Len(k.out) THEN Len(data) ELSE Cap - Len(k.out)

WriteSome(k, data, n) ==
  [k EXCEPT !.out = @ \o SubSeq(data, 1, n),
            !.full = @ \/ n < Len(data)]

Rest(data, n) == SubSeq(data, n + 1, Len(data))

\* epoll_wait: a reported socket loses its edge, and finding it full asks
\* for an edge once there is room again.
Reported(k) == [k EXCEPT !.edge = FALSE, !.full = @ \/ Len(k.out) >= Cap]

\* The peer sends a chunk.  Nothing bounds what it sends before it is read: a
\* loop that reads until the socket would block also takes what arrives while
\* it runs, which is the same as if that had arrived just before.
Arrived(k, chunk) == [k EXCEPT !.in = Append(@, chunk), !.edge = TRUE]

\* The peer's stream ends.
EndedBy(k, how) == [k EXCEPT !.end = how, !.edge = TRUE]

\* The peer takes a chunk: an edge only for a writer that was turned away.
Received(k) ==
  [k EXCEPT !.out = Tail(@), !.edge = @ \/ k.full, !.full = FALSE]

Count(n) == [i \in 1 .. n |-> i]

\* s is the first part of 1, 2, ..., n.
Prefix(s, n) == Len(s) <= n /\ s = Count(Len(s))
=============================================================================
