------------------------------- MODULE SmolTcp -------------------------------
(***************************************************************************)
(* A TCP socket of smoltcp, as wintun/tcp.rs and wintun/tun.rs use it.     *)
(*                                                                         *)
(* wakers are the registered wakers that lead back to the proxy (a dummy   *)
(* waker is none); each is used once.  An operation works on a record with *)
(* at least sock, the socket, and ev, the wakes it has caused.             *)
(***************************************************************************)
EXTENDS Integers, Sequences

CONSTANTS
  RxCap,  \* chunks in the receive buffer
  TxCap   \* chunks in the send buffer, sent and not acknowledged included

ASSUME BuffersAssumption == RxCap \in Nat \ {0} /\ TxCap \in Nat \ {0}

States == {"Listen", "SynReceived", "Established", "CloseWait", "LastAck",
           "FinWait1", "FinWait2", "Closing", "TimeWait", "Closed"}

is_active(k) == k.state \notin {"Closed", "TimeWait", "Listen"}

may_send(k) == k.state \in {"Established", "CloseWait"}

\* States in which the peer has not ended its stream.
Receiving == {"Established", "FinWait1", "FinWait2"}

Wake(s, kinds) ==
  [s EXCEPT !.ev = @ \cup (kinds \cap s.sock.wakers), !.sock.wakers = @ \ kinds]

set_state(s, state) == Wake([s EXCEPT !.sock.state = state], {"rx", "tx"})

\* close(): the FIN follows what is in the send buffer.
close_tcp(s) ==
  CASE s.sock.state = "Listen"                           -> set_state(s, "Closed")
    [] s.sock.state \in {"SynReceived", "Established"}   -> set_state(s, "FinWait1")
    [] s.sock.state = "CloseWait"                        -> set_state(s, "LastAck")
    [] OTHER                                             -> s

-----------------------------------------------------------------------------
(* Segments of the application, as interface.poll handles them *)

\* The SYN is taken by the socket that was made for it.
SynTaken(s) == set_state(s, "SynReceived")

\* The handshake's last segment.
Opened(s) == set_state(s, "Established")

CanTake(k) == k.state \in Receiving /\ Len(k.rx) < RxCap

Took(s, chunk) == Wake([s EXCEPT !.sock.rx = Append(@, chunk)], {"rx"})

CanGive(k) == k.tx # <<>> /\ k.state \in States \ {"Listen", "SynReceived", "Closed", "TimeWait"}

Gave(s) == Wake([s EXCEPT !.sock.tx = Tail(@)], {"tx"})

\* The application's FIN.
CanFin(k) == k.state \in Receiving

FinTaken(s) ==
  set_state(s, CASE s.sock.state = "Established" -> "CloseWait"
                 [] s.sock.state = "FinWait1"    -> "Closing"
                 [] OTHER                        -> "TimeWait")

\* The application acknowledges the socket's FIN.
CanAckFin(k) == k.tx = <<>> /\ k.state \in {"FinWait1", "Closing", "LastAck"}

FinAcked(s) ==
  set_state(s, CASE s.sock.state = "FinWait1" -> "FinWait2"
                 [] s.sock.state = "Closing"  -> "TimeWait"
                 [] OTHER                     -> "Closed")

\* A RST: a socket that has only seen the SYN listens again.
CanReset(k) == k.state \notin {"Listen", "Closed"}

WasReset(s) == set_state(s, IF s.sock.state = "SynReceived" THEN "Listen" ELSE "Closed")

\* The end of the time in which late segments are expected.
Expired(s) == set_state(s, "Closed")
=============================================================================
