-------------------------- MODULE UdpStreamProofs --------------------------
(***************************************************************************)
(* Proofs about UdpStream, for every set of packets, every largest payload *)
(* and every way to cut the stream into pieces.                            *)
(***************************************************************************)
EXTENDS UdpStream, TLAPS

\* The numbers in a packet are natural.
LEMMA PacketFields == ASSUME NEW p \in Packets PROVE p.name \in Nat /\ p.length \in Nat
<1>1. p \in PacketType
  BY PacketsAssumption
<1>2. p.name \in 0 .. 255 /\ p.length \in 0 .. 2^16 - 1
  BY <1>1, Zenon DEF PacketType
<1>3. p.length \in Nat
  BY <1>2
<1> QED
  BY <1>2, <1>3

\* Both sizes are natural numbers, and what the parser calls a packet is there
\* to the last byte.
LEMMA Sizes ==
  ASSUME NEW p \in Packets, NEW n \in Nat
  PROVE  /\ AddressSize(p) \in Nat /\ PacketSize(p) \in Nat
         /\ parse(p, n) = "Packet" => PacketSize(p) <= n
<1>1. p.name \in Nat /\ p.length \in Nat
  BY PacketFields
<1>2. AddressSize(p) \in Nat
  BY <1>1 DEF AddressSize
<1>3. PacketSize(p) \in Nat
  BY <1>1, <1>2 DEF PacketSize
<1>4. ASSUME parse(p, n) = "Packet" PROVE PacketSize(p) <= n
  <2> HIDE DEF AddressSize
  <2>1. MAX_PACKET_SIZE \in Nat
    BY MaxPacketsAssumption
  <2>2. n - 1 - AddressSize(p) >= p.length + 4
    BY <1>1, <1>2, <1>4, <2>1 DEF parse
  <2> QED
    BY <1>1, <1>2, <2>2 DEF PacketSize
<1> QED
  BY <1>2, <1>3, <1>4

\* Once 11 bytes are there the address of an IPv4 packet is complete, so the
\* parser has no reason to refuse it.
LEMMA IPv4Accepted ==
  ASSUME NEW p \in Packets, NEW n \in Nat, WellFormed(p), p.atyp = "IPV4"
  PROVE  parse(p, n) # "InvalidProtocol"
<1>1. AddressSize(p) = 6
  BY DEF AddressSize
<1>2. p.length \in Nat /\ MAX_PACKET_SIZE \in Nat
  BY PacketFields, MaxPacketsAssumption
<1> HIDE DEF AddressSize
<1> QED
  BY <1>1, <1>2 DEF parse, WellFormed

\* Every step keeps the variables in their types.
LEMMA TypeStep == TypeOK /\ [Next]_vars => TypeOK'
<1> SUFFICES ASSUME TypeOK, [Next]_vars PROVE TypeOK'
  OBVIOUS
<1> USE DEF TypeOK
<1>1. CASE Write
  <2>1. PICK p \in Packets : stream' = Append(stream, p) /\ unread' = unread + PacketSize(p)
    BY <1>1 DEF Write
  <2>2. PacketSize(p) \in Nat
    BY Sizes
  <2>3. written' \in 0 .. MaxPackets
    BY <1>1, MaxPacketsAssumption DEF Write
  <2> QED
    BY <1>1, <2>1, <2>2, <2>3 DEF Write
<1>2. CASE Dispatch
  <2>1. PICK n \in 0 .. unread : unread' = unread - n /\ buffer' = buffer + n
    BY <1>2 DEF Dispatch
  <2>2. unread' \in Nat /\ buffer' \in Nat
    BY <2>1
  <2>3. blocked' \in BOOLEAN
    BY <1>2 DEF Dispatch
  <2> QED
    BY <1>2, <2>2, <2>3 DEF Dispatch
<1>3. CASE SendPacket
  <2>1. stream # <<>> /\ parse(Head(stream), buffer) = "Packet"
    BY <1>3 DEF SendPacket, Verdict
  <2>2. Head(stream) \in Packets /\ Tail(stream) \in Seq(Packets)
    BY <2>1
  <2>3. PacketSize(Head(stream)) \in Nat /\ PacketSize(Head(stream)) <= buffer
    BY <2>1, <2>2, Sizes
  <2> QED
    BY <1>3, <2>2, <2>3 DEF SendPacket
<1>4. CASE SendBlocks \/ Continued \/ InvalidProtocol
  <2>1. blocked' \in BOOLEAN
    BY <1>4 DEF SendBlocks, Continued, InvalidProtocol
  <2>2. buffer' \in Nat
    BY <1>4 DEF SendBlocks, Continued, InvalidProtocol
  <2> QED
    BY <1>4, <2>1, <2>2 DEF SendBlocks, Continued, InvalidProtocol
<1>5. CASE UNCHANGED vars
  BY <1>5 DEF vars
<1> QED
  BY <1>1, <1>2, <1>3, <1>4, <1>5 DEF Next

\* The variables keep their types: no packet takes more bytes out of the buffer
\* than UdpBackend holds.
THEOREM Typed == Spec => []TypeOK
<1>1. ASSUME Init PROVE TypeOK
  <2>1. blocked \in BOOLEAN
    BY <1>1 DEF Init
  <2>2. stream \in Seq(Packets) /\ written \in 0 .. MaxPackets
    BY <1>1, MaxPacketsAssumption DEF Init
  <2> QED
    BY <1>1, <2>1, <2>2 DEF Init, TypeOK
<1> QED
  BY <1>1, TypeStep, PTL DEF Spec

-----------------------------------------------------------------------------
\* The loop of do_send only runs while the connection is up, so the packet
\* that ended it stays at the head.
Guarded == IPv4NeverCutOff /\ (pc = "parse" => status = "Established")

\* No step ends the connection because of a correct IPv4 packet.
LEMMA GuardedStep == TypeOK /\ Guarded /\ [Next]_vars => Guarded'
<1> SUFFICES ASSUME TypeOK, Guarded, [Next]_vars PROVE Guarded'
  OBVIOUS
<1> USE DEF Guarded, IPv4NeverCutOff
<1>1. CASE Write
  <2>1. PICK p \in Packets : stream' = Append(stream, p)
    BY <1>1 DEF Write
  <2>2. stream # <<>> => stream' # <<>> /\ Head(stream') = Head(stream)
    BY <2>1 DEF TypeOK
  <2> QED
    BY <1>1, <2>2 DEF Write
<1>2. CASE Dispatch
  BY <1>2 DEF Dispatch
<1>3. CASE SendPacket
  BY <1>3 DEF SendPacket, TypeOK
<1>4. CASE SendBlocks \/ Continued
  BY <1>4 DEF SendBlocks, Continued
<1>5. CASE InvalidProtocol
  <2>1. stream # <<>> /\ parse(Head(stream), buffer) = "InvalidProtocol"
    BY <1>5 DEF InvalidProtocol, Verdict
  <2>2. Head(stream) \in Packets /\ buffer \in Nat
    BY <2>1 DEF TypeOK
  <2>3. ~(WellFormed(Head(stream)) /\ Head(stream).atyp = "IPV4")
    BY <2>1, <2>2, IPv4Accepted
  <2> QED
    BY <1>5, <2>1, <2>3 DEF InvalidProtocol
<1>6. CASE UNCHANGED vars
  BY <1>6 DEF vars
<1> QED
  BY <1>1, <1>2, <1>3, <1>4, <1>5, <1>6 DEF Next

\* However a stream of packets is cut into pieces, UdpBackend never closes the
\* connection because of a correct IPv4 packet.
THEOREM IPv4Safe == Spec => []IPv4NeverCutOff
<1>1. Init => Guarded
  BY DEF Init, Guarded, IPv4NeverCutOff
<1>2. Guarded => IPv4NeverCutOff
  BY DEF Guarded
<1> QED
  BY <1>1, <1>2, GuardedStep, Typed, PTL DEF Spec

-----------------------------------------------------------------------------
\* The packets of s laid end to end fill n bytes: off[i] is where packet i ends.
EndToEnd(off, s, n) ==
  /\ off \in [0 .. Len(s) -> Int]
  /\ off[0] = 0 /\ off[Len(s)] = n
  /\ \A i \in 1 .. Len(s) : off[i] = off[i - 1] + PacketSize(s[i])

\* While the connection is up, the bytes in the buffer and those still to come
\* are the packets of the stream.  One that was ended keeps the packet that
\* ended it.
LaidOut ==
  /\ status = "Established" => \E off : EndToEnd(off, stream, buffer + unread)
  /\ status = "Shutdown" => stream # <<>> /\ pc = "idle"

\* A packet written behind the others adds its size.
LEMMA EndToEndAppend ==
  ASSUME NEW s \in Seq(Packets), NEW p \in Packets, NEW n \in Nat, NEW off, EndToEnd(off, s, n)
  PROVE  \E new : EndToEnd(new, Append(s, p), n + PacketSize(p))
<1> DEFINE k == Len(s)
           t == Append(s, p)
           new == [i \in 0 .. k + 1 |-> IF i <= k THEN off[i] ELSE n + PacketSize(p)]
<1>1. /\ k \in Nat /\ Len(t) = k + 1 /\ t[k + 1] = p
      /\ \A i \in 1 .. k : t[i] = s[i]
  OBVIOUS
<1>2. PacketSize(p) \in Nat
  BY Sizes
<1>3. /\ new \in [0 .. Len(t) -> Int] /\ new[k + 1] = n + PacketSize(p)
      /\ \A i \in 0 .. k : new[i] = off[i]
  BY <1>1, <1>2 DEF EndToEnd
<1>4. \A i \in 1 .. Len(t) : new[i] = new[i - 1] + PacketSize(t[i])
  <2> HIDE DEF new, t, k
  <2> QED
    BY <1>1, <1>3, SMTT(30) DEF EndToEnd, k
<1> HIDE DEF new, t
<1>5. EndToEnd(new, t, n + PacketSize(p))
  BY <1>1, <1>3, <1>4 DEF EndToEnd
<1> QED
  BY <1>5 DEF t

\* Taking the first packet off takes its size off.
LEMMA EndToEndTail ==
  ASSUME NEW s \in Seq(Packets), s # <<>>, NEW n \in Nat, NEW off, EndToEnd(off, s, n)
  PROVE  \E new : EndToEnd(new, Tail(s), n - PacketSize(Head(s)))
<1> DEFINE k == Len(s)
           t == Tail(s)
           new == [i \in 0 .. k - 1 |-> off[i + 1] - PacketSize(s[1])]
<1>1. /\ k \in Nat \ {0} /\ Len(t) = k - 1 /\ Head(s) = s[1] /\ s[1] \in Packets
      /\ \A i \in 1 .. k - 1 : t[i] = s[i + 1]
  OBVIOUS
<1>2. PacketSize(s[1]) \in Nat
  BY <1>1, Sizes
<1>3. /\ new \in [0 .. Len(t) -> Int]
      /\ \A i \in 0 .. k - 1 : new[i] = off[i + 1] - PacketSize(s[1])
  BY <1>1, <1>2 DEF EndToEnd
<1> HIDE DEF new, t
<1>4. new[0] = 0 /\ new[k - 1] = n - PacketSize(s[1])
  BY <1>1, <1>2, <1>3 DEF EndToEnd
<1>5. \A i \in 1 .. Len(t) : new[i] = new[i - 1] + PacketSize(t[i])
  <2> SUFFICES ASSUME NEW i \in 1 .. k - 1 PROVE new[i] = new[i - 1] + PacketSize(t[i])
    BY <1>1
  <2>1. i \in 0 .. k - 1 /\ i - 1 \in 0 .. k - 1 /\ i + 1 \in 1 .. k /\ (i - 1) + 1 = i
    BY <1>1
  <2>2. off[i + 1] = off[i] + PacketSize(t[i])
    <3>1. \A j \in 1 .. k : off[j] = off[j - 1] + PacketSize(s[j])
      BY DEF EndToEnd
    <3>2. off[i + 1] = off[(i + 1) - 1] + PacketSize(s[i + 1])
      BY <2>1, <3>1
    <3> QED
      BY <1>1, <2>1, <3>2
  <2>3. off[i] \in Int /\ off[i + 1] \in Int
    BY <1>1, <2>1, SMTT(30) DEF EndToEnd
  <2>4. PacketSize(t[i]) \in Nat
    BY <1>1, <2>1, Sizes, SMTT(30)
  <2> HIDE DEF k
  <2> QED
    BY <1>2, <1>3, <2>1, <2>2, <2>3, <2>4, SMTT(30)
<1>6. EndToEnd(new, t, n - PacketSize(s[1]))
  BY <1>1, <1>3, <1>4, <1>5 DEF EndToEnd
<1> QED
  BY <1>1, <1>6 DEF t

\* The parser asks for more only if the packet is not complete, or is shorter
\* than the smallest header it looks at.
LEMMA ContinuedIsShort ==
  ASSUME NEW p \in Packets, NEW n \in Nat, parse(p, n) = "Continued"
  PROVE  n < PacketSize(p) \/ n < 11
<1>1. p.length \in Nat /\ MAX_PACKET_SIZE \in Nat /\ AddressSize(p) \in Nat
  BY PacketFields, Sizes, MaxPacketsAssumption
<1> HIDE DEF AddressSize
<1> QED
  BY <1>1 DEF parse, PacketSize

\* Every step keeps the packets end to end: SendPacket takes off exactly the
\* bytes of the packet it forwards.
LEMMA LaidOutStep == TypeOK /\ LaidOut /\ [Next]_vars => LaidOut'
<1> SUFFICES ASSUME TypeOK, LaidOut, [Next]_vars PROVE LaidOut'
  OBVIOUS
<1> USE DEF LaidOut
<1>0. stream \in Seq(Packets) /\ buffer \in Nat /\ unread \in Nat /\ buffer + unread \in Nat
  BY DEF TypeOK
<1>1. CASE Write
  <2>1. PICK p \in Packets : stream' = Append(stream, p) /\ unread' = unread + PacketSize(p)
    BY <1>1 DEF Write
  <2>2. PacketSize(p) \in Nat
    BY Sizes
  <2>3. stream' # <<>> /\ buffer' + unread' = (buffer + unread) + PacketSize(p)
    BY <1>0, <1>1, <2>1, <2>2 DEF Write
  <2> QED
    BY <1>0, <1>1, <2>1, <2>3, EndToEndAppend DEF Write
<1>2. CASE Dispatch
  <2>1. PICK n \in 0 .. unread : unread' = unread - n /\ buffer' = buffer + n
    BY <1>2 DEF Dispatch
  <2>2. buffer' + unread' = buffer + unread
    BY <1>0, <2>1
  <2> QED
    BY <1>2, <2>2 DEF Dispatch
<1>3. CASE SendPacket
  <2>1. stream # <<>> /\ parse(Head(stream), buffer) = "Packet" /\ status = "Established"
    BY <1>3 DEF SendPacket, Verdict, TypeOK
  <2>2. PacketSize(Head(stream)) \in Nat
    BY <1>0, <2>1, Sizes
  <2>3. buffer' + unread' = (buffer + unread) - PacketSize(Head(stream))
    BY <1>0, <1>3, <2>2 DEF SendPacket
  <2> QED
    BY <1>0, <1>3, <2>1, <2>3, EndToEndTail DEF SendPacket
<1>4. CASE SendBlocks \/ Continued
  BY <1>4 DEF SendBlocks, Continued
<1>5. CASE InvalidProtocol
  BY <1>5 DEF InvalidProtocol, Verdict
<1>6. CASE UNCHANGED vars
  BY <1>6 DEF vars
<1> QED
  BY <1>1, <1>2, <1>3, <1>4, <1>5, <1>6 DEF Next

\* An empty stream has no bytes.
LEMMA EmptyIsEmpty ==
  ASSUME TypeOK, LaidOut, stream = <<>>
  PROVE  buffer = 0 /\ unread = 0
<1>1. PICK off : EndToEnd(off, stream, buffer + unread)
  BY DEF TypeOK, LaidOut
<1>2. Len(stream) = 0
  OBVIOUS
<1>3. buffer + unread = 0
  BY <1>1, <1>2 DEF EndToEnd
<1> QED
  BY <1>3 DEF TypeOK

\* Between two dispatches the buffer holds no whole packet that could be sent.
Waiting ==
  pc = "idle" /\ status = "Established" /\ ~blocked /\ stream # <<>>
    => buffer < PacketSize(Head(stream)) \/ buffer < 11

\* The loop of do_send stops only where the next packet is not complete.
LEMMA WaitingStep == TypeOK /\ LaidOut /\ Waiting /\ [Next]_vars => Waiting'
<1> SUFFICES ASSUME TypeOK, LaidOut, Waiting, [Next]_vars PROVE Waiting'
  OBVIOUS
<1> USE DEF Waiting
<1>1. CASE Write
  <2>1. PICK p \in Packets : stream' = Append(stream, p)
    BY <1>1 DEF Write
  <2>2. CASE stream = <<>>
    BY <1>1, <2>2, EmptyIsEmpty DEF Write
  <2>3. CASE stream # <<>>
    <3>1. Head(stream') = Head(stream)
      BY <2>1, <2>3 DEF TypeOK
    <3> QED
      BY <1>1, <2>3, <3>1 DEF Write
  <2> QED
    BY <2>2, <2>3
<1>2. CASE Dispatch \/ SendPacket \/ SendBlocks \/ InvalidProtocol
  BY <1>2 DEF Dispatch, SendPacket, SendBlocks, InvalidProtocol
<1>3. CASE Continued
  <2> SUFFICES ASSUME stream # <<>> PROVE buffer < PacketSize(Head(stream)) \/ buffer < 11
    BY <1>3 DEF Continued
  <2>1. parse(Head(stream), buffer) = "Continued"
    BY <1>3 DEF Continued, Verdict
  <2>2. Head(stream) \in Packets /\ buffer \in Nat
    BY DEF TypeOK
  <2> QED
    BY <2>1, <2>2, ContinuedIsShort
<1>4. CASE UNCHANGED vars
  BY <1>4 DEF vars
<1> QED
  BY <1>1, <1>2, <1>3, <1>4 DEF Next

\* However the stream is cut, UdpBackend finds the packets where the client put
\* them: no byte is left over, and no complete packet waits for nothing.
THEOREM StaysInStep == Spec => []InStep
<1>1. Init => LaidOut /\ Waiting
  <2> SUFFICES ASSUME Init PROVE LaidOut /\ Waiting
    OBVIOUS
  <2>1. EndToEnd([i \in 0 .. 0 |-> 0], stream, buffer + unread)
    BY DEF Init, EndToEnd
  <2> QED
    BY <2>1 DEF Init, LaidOut, Waiting
<1>2. TypeOK /\ LaidOut /\ Waiting => InStep
  BY EmptyIsEmpty DEF InStep, Waiting
<1> QED
  BY <1>1, <1>2, Typed, LaidOutStep, WaitingStep, PTL DEF Spec
=============================================================================
