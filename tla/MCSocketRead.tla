---------------------------- MODULE MCSocketRead ----------------------------
(* Bytes of two values, so that a body has at most 3 bytes and a frame at  *)
(* most 5; a packet of each length, and one that is too long: its header   *)
(* is that of a ping.                                                      *)
EXTENDS SocketRead

MCPackets == {<< >>, <<1>>, <<0, 1>>, <<1, 0, 1>>, <<1, 1, 1, 0>>}
=============================================================================
