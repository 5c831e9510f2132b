------------------------- MODULE MCDiscoveryPackets -------------------------
(* Foreign datagrams: two that are the pieces of the packet, and one that  *)
(* begins with it and is longer.                                           *)
EXTENDS DiscoveryPackets

OtherTraffic == {<<8, 100>>, <<193, 210, 19>>, <<8, 100, 193, 210, 19, 7>>}
=============================================================================
