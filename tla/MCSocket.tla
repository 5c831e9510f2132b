------------------------------ MODULE MCSocket ------------------------------
(* Two users closing at any time, two writes, a write queue of one entry.  *)
EXTENDS Socket
=============================================================================
