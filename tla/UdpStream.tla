----------------------------- MODULE UdpStream -----------------------------
(***************************************************************************)
(* UDP packets inside the TLS stream: the framing of UdpAssociate          *)
(* (proto.rs) and the loop with which UdpBackend (udp_backend.rs) cuts the *)
(* stream into packets again.  TLS keeps no packet boundaries: the stream  *)
(* arrives in pieces of any size.  The parser only looks at how many bytes *)
(* it has, so a buffer is the number of bytes held from the start of the   *)
(* first packet that is not forwarded yet.                                 *)
(***************************************************************************)
EXTENDS Integers, Sequences

CONSTANTS
  Packets,     \* the packets a client may send: [atyp, name, length, crlf]
  MaxPackets,  \* how many it sends
  MAX_PACKET_SIZE  \* the largest payload, 1450 in the code

\* name is the length of a domain, which a "LITERAL" spells an IP address with;
\* crlf says whether the separator is right.
PacketType ==
  [atyp : {"IPV4", "IPV6", "DOMAIN", "LITERAL"}, name : 0 .. 255, length : 0 .. 2^16 - 1, crlf : BOOLEAN]

ASSUME PacketsAssumption == Packets \subseteq PacketType
ASSUME MaxPacketsAssumption == MaxPackets \in Nat /\ MAX_PACKET_SIZE \in Nat

VARIABLES
  stream,    \* packets the client wrote and the server has not forwarded
  unread,    \* bytes of them that have not been dispatched
  buffer,    \* bytes that do_send holds or send_buffer keeps
  pc,        \* "idle", or "parse" inside the loop of do_send
  blocked,   \* send_to would block: the loop stopped before a whole packet
  status,    \* "Established" or "Shutdown"
  written    \* how many packets so far

vars == <<stream, unread, buffer, pc, blocked, status, written>>

-----------------------------------------------------------------------------
(* proto.rs *)

\* Bytes of the address and port behind the type byte, as generate() writes
\* them and parse_address() expects them.
AddressSize(p) ==
  CASE p.atyp = "IPV4" -> 6
    [] p.atyp = "IPV6" -> 18
    [] OTHER           -> p.name + 3

\* Type byte, address, two bytes of length, CRLF, payload.
PacketSize(p) == 1 + AddressSize(p) + 4 + p.length

\* A parser that counts the separator but not the length field.
parse_short(p, n) ==
  IF n < 11 \/ n - 1 - AddressSize(p) < p.length + 2 THEN "Continued" ELSE "Packet"

\* A parser that wants one byte more than the packet has.
parse_one_more(p, n) ==
  IF n < 11 \/ n - 1 - AddressSize(p) <= p.length + 4 THEN "Continued" ELSE "Packet"

\* A parser that calls a header invalid when only a part of it is there.
parse_impatient(p, n) ==
  LET rest == n - 1 - AddressSize(p)
  IN  CASE rest < 4                          -> "InvalidProtocol"
        [] rest >= 4 /\ rest < p.length + 4 -> "Continued"
        [] OTHER                             -> "Packet"

\* UdpAssociate::parse on the first n bytes of a stream that starts with p.
parse(p, n) ==
  LET rest == n - 1 - AddressSize(p)
  IN  CASE n < 11                                     -> "Continued"
        [] n >= 11 /\ rest < 0                        -> "InvalidProtocol"
        [] n >= 11 /\ rest \in 0 .. 3                 -> "Continued"
        [] n >= 11 /\ rest >= 4 /\ p.length > MAX_PACKET_SIZE -> "InvalidProtocol"
        [] n >= 11 /\ rest >= 4 /\ p.length <= MAX_PACKET_SIZE
             /\ rest < p.length + 4                   -> "Continued"
        [] OTHER -> IF p.crlf /\ p.atyp # "DOMAIN" THEN "Packet" ELSE "InvalidProtocol"

-----------------------------------------------------------------------------
(* The client and udp_backend.rs *)

Init ==
  /\ stream = <<>> /\ unread = 0 /\ buffer = 0 /\ pc = "idle" /\ blocked = FALSE
  /\ status = "Established" /\ written = 0

Write ==
  /\ written < MaxPackets
  /\ \E p \in Packets :
       /\ stream' = Append(stream, p)
       /\ unread' = unread + PacketSize(p)
  /\ written' = written + 1
  /\ UNCHANGED <<buffer, pc, blocked, status>>

\* dispatch(): any part of the stream arrives, behind what is buffered; a
\* writable event dispatches nothing new.
Dispatch ==
  /\ pc = "idle" /\ status = "Established"
  /\ \E n \in 0 .. unread : (n > 0 \/ blocked) /\ unread' = unread - n /\ buffer' = buffer + n
  /\ pc' = "parse" /\ blocked' = FALSE
  /\ UNCHANGED <<stream, status, written>>

\* The parser's verdict on the head of the buffer; an empty one is Continued.
Verdict == IF stream = <<>> THEN "Continued" ELSE parse(Head(stream), buffer)

SendPacket ==
  /\ pc = "parse" /\ Verdict = "Packet"
  /\ buffer' = buffer - PacketSize(Head(stream))
  /\ stream' = Tail(stream)
  /\ UNCHANGED <<unread, pc, blocked, status, written>>

SendBlocks ==
  /\ pc = "parse" /\ Verdict = "Packet"
  /\ pc' = "idle" /\ blocked' = TRUE
  /\ UNCHANGED <<stream, unread, buffer, status, written>>

Continued ==
  /\ pc = "parse" /\ Verdict = "Continued"
  /\ pc' = "idle"
  /\ UNCHANGED <<stream, unread, buffer, blocked, status, written>>

InvalidProtocol ==
  /\ pc = "parse" /\ Verdict = "InvalidProtocol"
  /\ pc' = "idle" /\ status' = "Shutdown" /\ buffer' = 0
  /\ UNCHANGED <<stream, unread, blocked, written>>

Next == Write \/ Dispatch \/ SendPacket \/ SendBlocks \/ Continued \/ InvalidProtocol

Spec == Init /\ [][Next]_vars

-----------------------------------------------------------------------------
(* Properties *)

\* Every variable has its type: above all, no packet takes more bytes out of
\* the buffer than are in it.
TypeOK ==
  /\ stream \in Seq(Packets)
  /\ unread \in Nat /\ buffer \in Nat
  /\ pc \in {"idle", "parse"} /\ blocked \in BOOLEAN
  /\ status \in {"Established", "Shutdown"}
  /\ written \in 0 .. MaxPackets

WellFormed(p) == p.crlf /\ p.atyp # "DOMAIN" /\ p.length <= MAX_PACKET_SIZE

\* The parser stays in step with the packets: when the last one is forwarded
\* no byte is left over or still to come, and between two dispatches no
\* complete packet is held back unless the socket was full, or it is one of
\* fewer than 11 bytes (an empty packet to a literal like "::"), which waits
\* for the next.
InStep ==
  /\ stream = <<>> => buffer = 0 /\ unread = 0
  /\ pc = "idle" /\ status = "Established" /\ ~blocked /\ stream # <<>>
       => buffer < PacketSize(Head(stream)) \/ buffer < 11

\* However the stream is cut into pieces, a correct packet whose address fits
\* into the 11 bytes the parser waits for, an IPv4 packet, is never the reason
\* to close.  (One to an IPv6 address can be: its address is 17 bytes.)
IPv4NeverCutOff ==
  status = "Shutdown" => stream # <<>> /\ ~(WellFormed(Head(stream)) /\ Head(stream).atyp = "IPV4")
=============================================================================
