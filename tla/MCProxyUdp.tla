----------------------------- MODULE MCProxyUdp -----------------------------
(* ProxyUdp on small instances: datagrams that come faster than the server's *)
(* handshake and socket take them; replies from changing addresses and an    *)
(* invalid one; a datagram behind a reply; two sources.                      *)
EXTENDS ProxyUdp

To(src, dst) == [src |-> src, dst |-> dst]

TooFast ==
  [datagrams |-> <<To("s1", "a1"), To("s1", "a2"), To("s1", "a1")>>,
   replies |-> <<>>, pooled |-> "connecting"]

ManyReplies ==
  [datagrams |-> <<To("s1", "a1")>>, replies |-> <<"a2", "a1", Bad>>, pooled |-> "ready"]

AskAgain ==
  [datagrams |-> <<To("s1", "a1"), To("s1", "a1")>>, replies |-> <<"a2">>, pooled |-> "ready"]

TwoSources ==
  [datagrams |-> <<To("s1", "a1"), To("s2", "a1")>>, replies |-> <<>>, pooled |-> "ready"]

UdpSettings == {TooFast, ManyReplies, AskAgain, TwoSources}
=============================================================================
