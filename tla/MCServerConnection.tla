------------------------ MODULE MCServerConnection ------------------------
(* ServerConnection on small instances.  With a socket of one chunk it takes *)
(* three chunks to park a reader: one in the socket, one buffered, one       *)
(* unread.  Two packets fill a UDP socket.                                   *)
EXTENDS ServerConnection

Setting(requests, short, up, down) ==
  {[request |-> r, idle |-> short, up |-> up, down |-> down] : r \in requests}

SafetySettings ==
  Setting({"addr", "domain", "none"}, TRUE, 3, 3) \cup Setting({"udp"}, TRUE, 4, 2)

LiveSettings ==
  Setting({"addr", "domain"}, FALSE, 3, 0) \cup Setting({"addr"}, FALSE, 1, 3)
    \cup Setting(RequestKinds, TRUE, 1, 1)

===========================================================================
