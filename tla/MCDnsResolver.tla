--------------------------- MODULE MCDnsResolver ---------------------------
(* DnsResolver with three askers and two domains. *)
EXTENDS DnsResolver
============================================================================
