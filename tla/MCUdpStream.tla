---------------------------- MODULE MCUdpStream ----------------------------
(* UdpStream with packets at the borders of the parser's length checks. *)
EXTENDS UdpStream

Pkt(atyp, name, length, crlf) ==
  [atyp |-> atyp, name |-> name, length |-> length, crlf |-> crlf]

Small4 == Pkt("IPV4", 0, 3, TRUE)
Small6 == Pkt("IPV6", 0, 2, TRUE)

\* An empty packet, one of the largest size and one beyond it, every kind of
\* address, one that is shorter than what the parser waits for, and a wrong
\* separator.
MixedPackets ==
  {Pkt("IPV4", 0, 0, TRUE), Small4, Pkt("IPV4", 0, 4, TRUE), Small6,
   Pkt("DOMAIN", 2, 1, TRUE), Pkt("LITERAL", 9, 1, TRUE), Pkt("LITERAL", 2, 0, TRUE),
   Pkt("IPV4", 0, 1, FALSE)}

============================================================================
