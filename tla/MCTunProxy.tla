----------------------------- MODULE MCTunProxy -----------------------------
(* Small instances of TunProxy. *)
EXTENDS TunProxy

D(s, d) == [src |-> s, dst |-> d]

Quiet ==
  [list |-> <<>>, inverse |-> FALSE, pooled |-> "ready", syns |-> 0, ups |-> 0,
   datagrams |-> <<>>, downs |-> 0, bad |-> {}, drops |-> 0, ends |-> {}, timer |-> 0]

\* Data in both directions over a connection that is still connecting, or ready;
\* every way to end it; a repeated SYN; long silence.
TcpSettings ==
  {[Quiet EXCEPT !.pooled = pooled, !.syns = 1, !.ups = 3, !.downs = 2]
     : pooled \in {"connecting", "ready"}}
  \cup {[Quiet EXCEPT !.pooled = "connecting", !.syns = 2, !.ups = 1, !.downs = 1,
                      !.ends = {"rst", "apprst"}],
        [Quiet EXCEPT !.syns = 1, !.ups = 1, !.downs = 4, !.ends = {"fin", "appfin"}, !.timer = 1],
        [Quiet EXCEPT !.syns = 1, !.ups = 1, !.downs = 4, !.ends = {"rst"}],
        [Quiet EXCEPT !.pooled = "connecting", !.syns = 1, !.ups = 1, !.downs = 3, !.ends = {"bad"}],
        [Quiet EXCEPT !.pooled = "connecting", !.syns = 1, !.ups = 1, !.downs = 1,
                      !.ends = {"fin", "apprst"}, !.timer = 3]}

UdpSettings ==
  {[Quiet EXCEPT !.pooled = "connecting", !.datagrams = <<D("s1", "d1"), D("s1", "d2"), D("s2", "d1")>>,
                 !.downs = 2],
   [Quiet EXCEPT !.datagrams = <<D("s1", "d1"), D("s1", "p"), D("s1", "d2")>>, !.downs = 4,
                 !.drops = 1, !.bad = {2}],
   [Quiet EXCEPT !.datagrams = <<D("s1", "d1"), D("s2", "d1"), D("s1", "d2")>>, !.downs = 1,
                 !.ends = {"fin"}, !.timer = 2],
   [Quiet EXCEPT !.pooled = "connecting", !.datagrams = <<D("s1", "d1"), D("s1", "d1")>>, !.downs = 0,
                 !.ends = {"rst"}, !.timer = 2],
   [Quiet EXCEPT !.datagrams = <<D("s1", "d1"), D("s1", "d2")>>, !.downs = 3, !.ends = {"bad"}],
   [Quiet EXCEPT !.datagrams = <<D("s1", "d1"), D("s1", "d2"), D("s1", "d1")>>]}

Private4 == <<Cidr(0, 3), Cidr(9, 4), Cidr(14, 3), Cidr(15, 4)>>

Lists4 ==
  {<<>>} \cup {<<c>> : c \in Cidrs} \cup {<<c, d>> : c, d \in Cidrs}

RouteSettings ==
  {[Quiet EXCEPT !.list = l, !.inverse = TRUE] : l \in {m \in Lists4 : Aligned(m \o Private4)}}
  \cup {[Quiet EXCEPT !.list = <<Cidr(4, 4), Cidr(2, 3)>>]}

AllSettings == TcpSettings \cup UdpSettings \cup RouteSettings
=============================================================================
