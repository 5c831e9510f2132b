------------------------------ MODULE MCServer ------------------------------
(* Two users closing at any time, and three connections.                     *)
EXTENDS Server
=============================================================================
