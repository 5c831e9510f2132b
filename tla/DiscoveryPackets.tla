-------------------------- MODULE DiscoveryPackets --------------------------
(***************************************************************************)
(* Scanning a LAN: a scanner sends its packet to the multicast group every *)
(* COBRA_DISCOVERY_TIMEOUT, each listener that receives it answers with    *)
(* the same packet, and the scanner reports the host that answered.  Both  *)
(* sides read datagrams into a buffer of one packet (cobra_buffer_t), one  *)
(* and the same for all senders.                                           *)
(*                                                                         *)
(* External: UDP may lose, merge or reorder datagrams; one that is longer  *)
(* than the buffer offered is cut; while 0 bytes are offered nothing is    *)
(* received; a socket gets what is sent to it and to the groups it joined. *)
(***************************************************************************)
EXTENDS Buffer

CONSTANTS
    Listeners,  \* hosts that run cobra_discovery_listen
    Foreign     \* datagrams that other programs send to the port

Scanner == "scanner"    \* the host that runs cobra_discovery_scan
Stranger == "stranger"  \* a host that does not use the library

Hosts == Listeners \cup {Scanner}

Packet == <<8, 100, 193, 210, 19>>  \* COBRA_DISCOVERY_PACKET
PacketSize == 5                     \* COBRA_DISCOVERY_PACKET_SIZE

ASSUME PacketsAssumption == Packet \in Seq(Byte) /\ Foreign \subseteq Seq(Byte)

VARIABLES
    inbox,      \* the datagrams waiting at the socket of each host
    buf,        \* discovery->read_buffer of each host
    found       \* the hosts found_callback was called with

packetVars == <<inbox, buf, found>>

Datagrams == [from : Hosts \cup {Stranger}, bytes : {Packet} \cup Foreign]

PacketsTypeOK ==
    /\ inbox \in [Hosts -> SUBSET Datagrams]
    /\ buf \in [Hosts -> [off : 0 .. PacketSize, unread : Seq(Byte)]]
    /\ \A h \in Hosts : buf[h].off + Len(buf[h].unread) <= PacketSize
    /\ found \subseteq Hosts \cup {Stranger}
-----------------------------------------------------------------------------
(* Faults that the properties below must catch, used by the mutation runs. *)
HandledReadPast(b) == [off |-> b.off + Len(b.unread), unread |-> << >>]

GroupOfAll == Hosts
-----------------------------------------------------------------------------
(* cobra_discovery_create *)
PacketsInit ==
    /\ inbox = [h \in Hosts |-> {}]
    /\ buf = [h \in Hosts |-> Cleared]
    /\ found = {}

(* The members of COBRA_DISCOVERY_MULTICAST_ADDR: only listeners join it. *)
Group == Listeners

(* The same bytes arrive at some hosts. *)
Arrive(box, hosts, from, bytes) ==
    [h \in Hosts |-> IF h \in hosts
                     THEN box[h] \cup {[from |-> from, bytes |-> bytes]}
                     ELSE box[h]]

(* cobra__discovery_scanner_timer_callback: a packet to the group. *)
Scan(reached) ==
    /\ inbox' = Arrive(inbox, reached, Scanner, Packet)
    /\ UNCHANGED <<buf, found>>

(* Something else is sent to the port of a host. *)
Other(h, bytes) ==
    /\ inbox' = Arrive(inbox, {h}, Stranger, bytes)
    /\ UNCHANGED <<buf, found>>

(* What cobra__discovery_listener_alloc_callback offers for a datagram. *)
Offered(h) == BufCapacity(buf[h], PacketSize)

(* The buffer after the start of a read callback. *)
Received(h, d) ==
    LET n == IF Len(d.bytes) < Offered(h) THEN Len(d.bytes) ELSE Offered(h)
    IN  Store(buf[h], SubSeq(d.bytes, 1, n), PacketSize)

(* cobra_buffer_equals *)
Recognised(b) == b.unread = Packet

(* cobra_buffer_clear, once the packet was handled. *)
Handled(b) == Cleared

(* cobra__discovery_listener_read_callback with the packet in the buffer:  *)
(* the sender of the datagram is answered; the answer arrives or is lost.  *)
Answer(l, d, arrives) ==
    /\ d \in inbox[l]
    /\ Offered(l) > 0 /\ Recognised(Received(l, d))
    /\ inbox' = Arrive([inbox EXCEPT ![l] = @ \ {d}],
                       IF arrives THEN {d.from} ELSE {}, l, Packet)
    /\ buf' = [buf EXCEPT ![l] = Handled(Received(l, d))]
    /\ UNCHANGED found

(* cobra__discovery_scanner_read_callback with the packet in the buffer. *)
Found(d) ==
    /\ d \in inbox[Scanner]
    /\ Offered(Scanner) > 0 /\ Recognised(Received(Scanner, d))
    /\ found' = found \cup {d.from}
    /\ inbox' = [inbox EXCEPT ![Scanner] = @ \ {d}]
    /\ buf' = [buf EXCEPT ![Scanner] = Handled(Received(Scanner, d))]

(* Both, with anything else in the buffer: it stays there. *)
Unrecognised(h) ==
    \E d \in inbox[h] :
        /\ Offered(h) > 0 /\ ~ Recognised(Received(h, d))
        /\ inbox' = [inbox EXCEPT ![h] = @ \ {d}]
        /\ buf' = [buf EXCEPT ![h] = Received(h, d)]
        /\ UNCHANGED found

PacketsNext ==
    \/ \E reached \in SUBSET Group : Scan(reached)
    \/ \E h \in Hosts, bytes \in Foreign : Other(h, bytes)
    \/ \E l \in Listeners, d \in Datagrams, arrives \in BOOLEAN : Answer(l, d, arrives)
    \/ \E d \in Datagrams : Found(d)
    \/ \E h \in Hosts : Unrecognised(h)

(* What waits at a socket is read, and the scan is repeated by its timer.  *)
(* An answer that is sent again and again arrives at last.                 *)
PacketsFairness ==
    /\ \A h \in Hosts : WF_packetVars(Unrecognised(h))
    /\ \A d \in Datagrams : WF_packetVars(Found(d))
    /\ \A l \in Listeners :
         /\ WF_packetVars(Scan({l}))
         /\ \A d \in Datagrams : SF_packetVars(Answer(l, d, TRUE))

PacketsSafety == PacketsInit /\ [][PacketsNext]_packetVars
PacketsSpec == PacketsSafety /\ PacketsFairness
-----------------------------------------------------------------------------
(* A buffer that the datagrams read into it have not left empty.           *)
Spoiled(h) == buf[h].unread # << >>

BeginsWithPacket(bytes) == SubSeq(bytes, 1, PacketSize) = Packet

(* Who is found has just sent the packet: a listener, in one datagram that *)
(* was read into an empty buffer.  The scanner does not find itself.  Two  *)
(* exceptions, both strangers: the last piece of a packet whose first      *)
(* bytes earlier datagrams have left in the buffer (discovery_scan.c:96,   *)
(* 102), and a longer datagram, cut to the packet at its beginning.        *)
FoundByPacket ==
    [][\A h \in found' \ found : \E d \in inbox[Scanner] \ inbox'[Scanner] :
          /\ d.from = h
          /\ \/ h \in Listeners /\ ~ Spoiled(Scanner)
             \/ h = Stranger /\ (Spoiled(Scanner) \/ BeginsWithPacket(d.bytes))]_packetVars

(* Every listener is found, unless a foreign datagram stays in a buffer on *)
(* the way: the buffer of the listener, or that of the scanner.            *)
FindsUnspoiled ==
    \A l \in Listeners : <>(l \in found \/ Spoiled(l) \/ Spoiled(Scanner))
=============================================================================
