----------------------------- MODULE MCIdlePool -----------------------------
(* IdlePool on small instances. *)
EXTENDS IdlePool
=============================================================================
