------------------------- MODULE MCProxyConnection -------------------------
(* ProxyConnection on small instances.  With a socket of one chunk it takes  *)
(* three chunks to park a reader: the request counts as one on the way up.   *)
EXTENDS ProxyConnection

Setting(short, up, down) == [idle |-> short, up |-> up, down |-> down]

ConnSettings == {Setting(FALSE, 3, 1), Setting(FALSE, 0, 4), Setting(TRUE, 2, 2)}

RequestSettings == {Setting(FALSE, 0, 0)}
===========================================================================
