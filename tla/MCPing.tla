------------------------------- MODULE MCPing -------------------------------
(* Timeouts of 6 and 5, frames under way for up to 2: an answer comes just *)
(* before the check.  Queues of two entries: two packets, or a packet and  *)
(* a ping, are enough to refuse a ping.                                    *)
EXTENDS Ping
=============================================================================
