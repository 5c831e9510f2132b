---------------------------- MODULE MCDiscovery -----------------------------
(* Two users closing at any time, and two datagrams on their way out.      *)
EXTENDS Discovery
=============================================================================
