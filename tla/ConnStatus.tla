----------------------------- MODULE ConnStatus -----------------------------
(***************************************************************************)
(* The life cycle that every socket of the program shares: the trait       *)
(* StatusProvider of status.rs.  The trait's methods read and write one    *)
(* ConnStatus value, so each is an operator from a status to the next.     *)
(* close_conn() and deregister() return true in every implementation.      *)
(***************************************************************************)
EXTENDS Integers

Statuses == {"Connecting", "Established", "PeerClosed", "Shutdown", "Deregistered"}

alive(st) == st \in {"PeerClosed", "Established"}

is_shutdown(st) == st \in {"Shutdown", "Deregistered"}

peer_closed(st) == IF st \in {"Established", "Connecting"} THEN "PeerClosed" ELSE st

established(st) == IF st = "Connecting" THEN "Established" ELSE st

shutdown(st) == IF is_shutdown(st) THEN st ELSE "Shutdown"

\* A check_status that forgets to wait for the remaining data.
check_status_no_wait(st, finish_send) ==
  IF st = "PeerClosed" \/ st = "Shutdown" THEN "Deregistered" ELSE st

\* The loop runs at most twice: PeerClosed, once everything is sent, falls
\* through Shutdown to Deregistered in the same call.
check_status(st, finish_send) ==
  CASE st = "PeerClosed" /\ finish_send -> "Deregistered"
    [] st = "Shutdown"                  -> "Deregistered"
    [] OTHER                            -> st
=============================================================================
