---------------------------- MODULE MCTlsServer ----------------------------
(* TlsServer with two connection indexes. *)
EXTENDS TlsServer
============================================================================
