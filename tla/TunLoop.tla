------------------------------- MODULE TunLoop -------------------------------
(***************************************************************************)
(* The loop of the Windows tun proxy (run, wintun/mod.rs) and the wakers   *)
(* that its sockets report to (wintun/waker.rs), as far as the TCP and the *)
(* UDP server share them.                                                  *)
(*                                                                         *)
(* A round of the loop: "start" once, then "iface" (interface.poll: the    *)
(* only time at which packets of applications reach the sockets), "local"  *)
(* (the events of the wakers, one by one) and "events" (those of mio), at  *)
(* the end of which closed connections are removed.                        *)
(***************************************************************************)
EXTENDS TunTls, FiniteSets

VARIABLES
  setting,  \* the world of this behaviour
  at,       \* where the loop is
  events,   \* the channels of Wakers: [of, key, kind] that were sent
  batch,    \* the events of this phase that are not handled yet
  due       \* check_timeout is to run at the end of this round

loopvars == <<setting, at, events, batch, due>>

\* Maps of the program: with an entry, and without some.
Put(f, x, v) == [y \in DOMAIN f \cup {x} |-> IF y = x THEN v ELSE f[y]]

Without(f, gone) == [x \in DOMAIN f \ gone |-> f[x]]

Sent(of, key, kinds) == {[of |-> of, key |-> key, kind |-> k] : k \in kinds}

\* get_events: the events of a socket become one.
get_events(sent) ==
  {[of |-> e.of, key |-> e.key, kinds |-> {f.kind : f \in {g \in sent : g.of = e.of /\ g.key = e.key}}]
     : e \in sent}

\* The event that is handled now.  UDP sockets come before TCP sockets.
Handling(phase, e) ==
  /\ at = phase /\ e \in batch
  /\ phase = "local" /\ e.of = "tcp" => \A f \in batch : f.of = "tcp"

Handled(e) == batch' = batch \ {e}
=============================================================================
