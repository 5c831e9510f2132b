------------------------------ MODULE MCAsync -------------------------------
(* Two sender threads and up to MCSends accepted entries.                  *)
EXTENDS Async

CONSTANT MCSends

MCData == 1 .. MCSends
=============================================================================
