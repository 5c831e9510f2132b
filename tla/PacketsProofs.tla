--------------------------- MODULE PacketsProofs ----------------------------
(***************************************************************************)
(* Scanning a LAN, for every set of listeners and whatever datagrams other *)
(* programs send: a buffer holds no more than a packet, and a host that is *)
(* found has just sent the packet, or what completed it.                   *)
(***************************************************************************)
EXTENDS DiscoveryPackets, SequenceTheorems, TLAPS

(* A buffer of a discovery is read whole or not at all, and is not overrun. *)
Intact(b) ==
    /\ b \in [off : {0}, unread : Seq(Byte)]
    /\ Len(b.unread) <= PacketSize

(* A datagram for the scanner: from a listener it is the packet. *)
Honest(d) == d.from = Stranger \/ (d.from \in Listeners /\ d.bytes = Packet)

PacketsInv ==
    /\ PacketsTypeOK
    /\ \A h \in Hosts : Intact(buf[h])
    /\ \A d \in inbox[Scanner] : Honest(d)

(* The packet has PacketSize bytes. *)
LEMMA PacketLength == Packet \in Seq(Byte) /\ Len(Packet) = PacketSize /\ Packet # << >>
BY PacketsAssumption DEF Packet, PacketSize

(* The first n bytes of a datagram. *)
LEMMA FirstBytes ==
    ASSUME NEW s \in Seq(Byte), NEW n \in Nat, n <= Len(s)
    PROVE  /\ SubSeq(s, 1, n) \in Seq(Byte)
           /\ Len(SubSeq(s, 1, n)) = n
           /\ \A i \in 1 .. n : SubSeq(s, 1, n)[i] = s[i]
<1>1. Len(s) \in Nat
  BY LenProperties
<1>2. \A i \in 1 .. n : i \in 1 .. Len(s)
  BY <1>1
<1>3. \A i \in 1 .. n : s[i] \in Byte
  BY <1>2, ElementOfSeq
<1>4. /\ SubSeq(s, 1, n) \in Seq(Byte)
      /\ Len(SubSeq(s, 1, n)) = IF 1 <= n THEN n - 1 + 1 ELSE 0
      /\ \A i \in 1 .. n - 1 + 1 : SubSeq(s, 1, n)[i] = s[1 + i - 1]
  BY <1>3, SubSeqProperties
<1> QED BY <1>4

(* What is appended to a buffer when a datagram is read into it: as much   *)
(* of the datagram as there is room for.                                   *)
LEMMA ReceivedBytes ==
    ASSUME PacketsInv, NEW h \in Hosts, NEW d \in Datagrams
    PROVE  \E n \in Nat :
             /\ n <= Len(d.bytes) /\ d.bytes \in Seq(Byte)
             /\ n = Len(d.bytes) \/ n = PacketSize - Len(buf[h].unread)
             /\ Len(buf[h].unread) + n <= PacketSize
             /\ Received(h, d) = [off |-> 0, unread |-> buf[h].unread \o SubSeq(d.bytes, 1, n)]
<1> DEFINE old == buf[h].unread
           room == Offered(h)
           n == IF Len(d.bytes) < room THEN Len(d.bytes) ELSE room
<1>1. /\ old \in Seq(Byte) /\ Len(old) \in Nat /\ Len(old) <= PacketSize
      /\ buf[h] = [off |-> 0, unread |-> old]
  BY LenProperties DEF PacketsInv, Intact
<1>2. d.bytes \in Seq(Byte) /\ Len(d.bytes) \in Nat
  BY PacketsAssumption, PacketLength, LenProperties DEF Datagrams
<1>3. room = PacketSize - Len(old) /\ room \in Nat
  BY <1>1 DEF Offered, BufCapacity, PacketSize
<1>4. n \in Nat /\ n <= Len(d.bytes) /\ n <= room /\ (n = Len(d.bytes) \/ n = room)
  BY <1>2, <1>3
<1>5. Len(SubSeq(d.bytes, 1, n)) = n
  <2> HIDE DEF n
  <2> QED BY <1>2, <1>4, FirstBytes
<1>6. Received(h, d) = Store(buf[h], SubSeq(d.bytes, 1, n), PacketSize)
  BY DEF Received
<1>7. Received(h, d) = [off |-> 0, unread |-> old \o SubSeq(d.bytes, 1, n)]
  <2> DEFINE new == SubSeq(d.bytes, 1, n)
  <2>1. ~ (BufCapacity(buf[h], PacketSize) < Len(new))
    <3>1. BufCapacity(buf[h], PacketSize) = room
      BY DEF Offered
    <3> HIDE DEF n, room, new
    <3>2. ~ (room < n)
      BY <1>3, <1>4
    <3>3. Len(new) = n
      BY <1>5 DEF new
    <3> QED BY <3>1, <3>2, <3>3
  <2>2. Received(h, d) = [buf[h] EXCEPT !.unread = @ \o new]
    <3> HIDE DEF n, room, new
    <3> QED BY <1>6, <2>1 DEF Store, new
  <2> HIDE DEF n, old, new
  <2>3. buf[h].unread = old /\ buf[h] = [off |-> 0, unread |-> old]
    BY <1>1 DEF old
  <2>4. Received(h, d) = [[off |-> 0, unread |-> old] EXCEPT !.unread = old \o new]
    BY <2>2, <2>3, Zenon
  <2>5. Received(h, d) = [off |-> 0, unread |-> old \o new]
    BY <2>4
  <2> QED BY <2>5 DEF new
<1>8. Len(old) + n <= PacketSize
  <2> HIDE DEF n, room, old
  <2> QED BY <1>1, <1>3, <1>4 DEF PacketSize
<1> QED BY <1>2, <1>3, <1>4, <1>7, <1>8

(* A read callback leaves the buffer intact.  It recognises what was read  *)
(* into an empty buffer only if that begins with the packet, and never the *)
(* packet itself behind what was left in the buffer: its first byte occurs *)
(* in it only once.                                                        *)
LEMMA ReadBuffer ==
    ASSUME PacketsInv, NEW h \in Hosts, NEW d \in Datagrams, Offered(h) > 0
    PROVE  /\ Intact(Received(h, d))
           /\ Recognised(Received(h, d)) =>
                IF Spoiled(h) THEN d.bytes # Packet ELSE BeginsWithPacket(d.bytes)
<1>1. PICK n \in Nat :
        /\ n <= Len(d.bytes) /\ d.bytes \in Seq(Byte)
        /\ n = Len(d.bytes) \/ n = PacketSize - Len(buf[h].unread)
        /\ Len(buf[h].unread) + n <= PacketSize
        /\ Received(h, d) = [off |-> 0, unread |-> buf[h].unread \o SubSeq(d.bytes, 1, n)]
  BY ReceivedBytes
<1> DEFINE old == buf[h].unread
           new == SubSeq(d.bytes, 1, n)
<1>2. old \in Seq(Byte) /\ Len(old) \in Nat /\ buf[h].off = 0
  BY LenProperties DEF PacketsInv, Intact
<1>3. /\ new \in Seq(Byte) /\ Len(new) = n
      /\ n > 0 => new[1] = d.bytes[1]
  BY <1>1, FirstBytes
<1>4. Received(h, d) = [off |-> 0, unread |-> old \o new]
  BY <1>1
<1>5. Len(old) < PacketSize
  BY <1>2 DEF Offered, BufCapacity, PacketSize
<1>6. Len(old) + n <= PacketSize /\ (n = Len(d.bytes) \/ n = PacketSize - Len(old))
  BY <1>1
<1>7. Spoiled(h) <=> old # << >>
  BY DEF Spoiled
<1> HIDE DEF new, old
<1>8. /\ old \o new \in Seq(Byte)
      /\ Len(old \o new) = Len(old) + Len(new)
      /\ \A i \in 1 .. Len(old) + Len(new) :
           (old \o new)[i] = IF i <= Len(old) THEN old[i] ELSE new[i - Len(old)]
  BY <1>2, <1>3, ConcatProperties
<1>9. Intact(Received(h, d))
  <2>1. Intact([off |-> 0, unread |-> old \o new])
    BY <1>3, <1>6, <1>8 DEF Intact
  <2> QED BY <1>4, <2>1
<1>10. ASSUME old # << >>, d.bytes = Packet, old \o new = Packet
       PROVE  FALSE
  <2> DEFINE m == Len(old)
  <2>1. m \in Nat /\ m # 0 /\ m < 5
    BY <1>2, <1>5, <1>10, EmptySeq DEF PacketSize
  <2>2. n > 0
    <3>1. n = 5 \/ n = 5 - m
      BY <1>6, <1>10, PacketLength DEF PacketSize
    <3> HIDE DEF m
    <3> QED BY <2>1, <3>1
  <2>3. new[1] = 8
    BY <1>3, <1>10, <2>2 DEF Packet
  <2>4. (old \o new)[m + 1] = new[1]
    <3>1. \A i \in 1 .. m + n : (old \o new)[i] = IF i <= m THEN old[i] ELSE new[i - m]
      BY <1>3, <1>8
    <3> HIDE DEF m
    <3>2. ASSUME NEW k, k = m + 1
          PROVE  k \in 1 .. m + n /\ ~ (k <= m) /\ k - m = 1
      BY <2>1, <2>2, <3>2
    <3>3. ASSUME NEW k, k = m + 1
          PROVE  (old \o new)[k] = new[1]
      <4>1. (old \o new)[k] = IF k <= m THEN old[k] ELSE new[k - m]
        BY <3>1, <3>2, <3>3
      <4> QED BY <3>2, <3>3, <4>1
    <3> QED BY <3>3
  <2> HIDE DEF m
  <2>5. Packet[m + 1] # 8
    <3>1. Packet[2] # 8 /\ Packet[3] # 8 /\ Packet[4] # 8 /\ Packet[5] # 8
      BY DEF Packet
    <3>2. m + 1 = 2 \/ m + 1 = 3 \/ m + 1 = 4 \/ m + 1 = 5
      BY <2>1
    <3> QED BY <3>1, <3>2
  <2> QED BY <1>10, <2>3, <2>4, <2>5
<1>11. ASSUME old = << >>, old \o new = Packet
       PROVE  BeginsWithPacket(d.bytes)
  <2>1. new = Packet
    BY <1>3, <1>11, ConcatEmptySeq
  <2>2. n = PacketSize
    BY <1>3, <2>1, PacketLength
  <2> QED BY <2>1, <2>2 DEF BeginsWithPacket, new
<1>12. Recognised(Received(h, d)) => old \o new = Packet
  BY <1>4 DEF Recognised
<1> QED BY <1>7, <1>9, <1>10, <1>11, <1>12

(* A buffer that is intact, or was cleared, is of its type. *)
LEMMA IntactFits ==
    ASSUME NEW b, Intact(b)
    PROVE  /\ b \in [off : 0 .. PacketSize, unread : Seq(Byte)]
           /\ b.off + Len(b.unread) <= PacketSize
BY LenProperties DEF Intact, PacketSize

LEMMA ClearedIntact == Intact(Cleared)
BY EmptySeq DEF Cleared, Intact, PacketSize

(* Datagrams that arrive keep the type of the inboxes, and those for the   *)
(* scanner honest.                                                         *)
LEMMA ArriveKeeps ==
    ASSUME NEW box \in [Hosts -> SUBSET Datagrams],
           \A d \in box[Scanner] : Honest(d),
           NEW hosts, NEW from \in Hosts \cup {Stranger}, NEW bytes \in {Packet} \cup Foreign,
           Scanner \in hosts => Honest([from |-> from, bytes |-> bytes])
    PROVE  /\ Arrive(box, hosts, from, bytes) \in [Hosts -> SUBSET Datagrams]
           /\ \A d \in Arrive(box, hosts, from, bytes)[Scanner] : Honest(d)
<1>1. [from |-> from, bytes |-> bytes] \in Datagrams
  BY DEF Datagrams
<1>2. Scanner \in Hosts
  BY DEF Hosts
<1> QED BY <1>1, <1>2 DEF Arrive

(* Every step preserves the invariant. *)
LEMMA PacketsStep == PacketsInv /\ [PacketsNext]_packetVars => PacketsInv'
<1> SUFFICES ASSUME PacketsInv, [PacketsNext]_packetVars
             PROVE  PacketsInv'
  OBVIOUS
<1> DEFINE BoxOK(box) ==
             /\ box \in [Hosts -> SUBSET Datagrams]
             /\ \A d \in box[Scanner] : Honest(d)
           BufOK(b) == b \in [Hosts -> [off : 0 .. PacketSize, unread : Seq(Byte)]]
                       /\ \A h \in Hosts : Intact(b[h])
<1>0. BoxOK(inbox) /\ BufOK(buf) /\ found \subseteq Hosts \cup {Stranger}
  BY DEF PacketsInv, PacketsTypeOK
<1>1. ASSUME BoxOK(inbox'), BufOK(buf'), found' \subseteq Hosts \cup {Stranger}
      PROVE  PacketsInv'
  <2>1. \A h \in Hosts : buf'[h].off + Len(buf'[h].unread) <= PacketSize
    BY <1>1, IntactFits
  <2> QED BY <1>1, <2>1 DEF PacketsInv, PacketsTypeOK
<1>2. ASSUME NEW h \in Hosts, NEW b, Intact(b), buf' = [buf EXCEPT ![h] = b]
      PROVE  BufOK(buf')
  BY <1>0, <1>2, IntactFits
<1>3. ASSUME NEW h \in Hosts, NEW d \in inbox[h]
      PROVE  BoxOK([inbox EXCEPT ![h] = @ \ {d}]) /\ d \in Datagrams
  BY <1>0 DEF Hosts
<1>4. ASSUME NEW reached \in SUBSET Group, Scan(reached)
      PROVE  PacketsInv'
  <2>1. Scanner \in Hosts /\ (Scanner \in reached => Scanner \in Listeners)
    BY DEF Hosts, Group
  <2>2. Scanner \in reached => Honest([from |-> Scanner, bytes |-> Packet])
    BY <2>1 DEF Honest
  <2>3. BoxOK(inbox')
    BY <1>0, <1>4, <2>1, <2>2, ArriveKeeps DEF Scan
  <2> QED BY <1>0, <1>1, <1>4, <2>3 DEF Scan
<1>5. ASSUME NEW h \in Hosts, NEW bytes \in Foreign, Other(h, bytes)
      PROVE  PacketsInv'
  <2>1. Honest([from |-> Stranger, bytes |-> bytes])
    BY DEF Honest
  <2>2. BoxOK(inbox')
    BY <1>0, <1>5, <2>1, ArriveKeeps DEF Other
  <2> QED BY <1>0, <1>1, <1>5, <2>2 DEF Other
<1>6. ASSUME NEW l \in Listeners, NEW d \in Datagrams, NEW arrives \in BOOLEAN,
             Answer(l, d, arrives)
      PROVE  PacketsInv'
  <2>1. /\ d \in inbox[l]
        /\ inbox' = Arrive([inbox EXCEPT ![l] = @ \ {d}],
                           IF arrives THEN {d.from} ELSE {}, l, Packet)
        /\ buf' = [buf EXCEPT ![l] = Cleared]
        /\ found' = found
    BY <1>6 DEF Answer, Handled
  <2>2. l \in Hosts /\ Honest([from |-> l, bytes |-> Packet])
    BY DEF Hosts, Honest
  <2>3. BoxOK(inbox')
    <3> DEFINE box == [inbox EXCEPT ![l] = @ \ {d}]
    <3>1. BoxOK(box)
      BY <1>3, <2>1, <2>2
    <3> HIDE DEF box
    <3>2. inbox' = Arrive(box, IF arrives THEN {d.from} ELSE {}, l, Packet)
      BY <2>1 DEF box
    <3> QED BY <2>2, <3>1, <3>2, ArriveKeeps
  <2>4. BufOK(buf')
    BY <1>2, <2>1, <2>2, ClearedIntact
  <2> QED BY <1>0, <1>1, <2>1, <2>3, <2>4
<1>7. ASSUME NEW d \in Datagrams, Found(d)
      PROVE  PacketsInv'
  <2>1. /\ d \in inbox[Scanner] /\ Scanner \in Hosts
        /\ found' = found \cup {d.from}
        /\ inbox' = [inbox EXCEPT ![Scanner] = @ \ {d}]
        /\ buf' = [buf EXCEPT ![Scanner] = Cleared]
    BY <1>7 DEF Found, Handled, Hosts
  <2>2. d.from \in Hosts \cup {Stranger}
    BY DEF Datagrams
  <2>3. BoxOK(inbox')
    BY <1>3, <2>1
  <2>4. BufOK(buf')
    BY <1>2, <2>1, ClearedIntact
  <2> QED BY <1>0, <1>1, <2>1, <2>2, <2>3, <2>4
<1>8. ASSUME NEW h \in Hosts, Unrecognised(h)
      PROVE  PacketsInv'
  <2>1. PICK d \in inbox[h] :
          /\ Offered(h) > 0
          /\ inbox' = [inbox EXCEPT ![h] = @ \ {d}]
          /\ buf' = [buf EXCEPT ![h] = Received(h, d)]
          /\ found' = found
    BY <1>8 DEF Unrecognised
  <2>2. BoxOK(inbox') /\ d \in Datagrams
    BY <1>3, <2>1
  <2>3. Intact(Received(h, d))
    BY <2>1, <2>2, ReadBuffer
  <2>4. BufOK(buf')
    BY <1>2, <2>1, <2>3
  <2> QED BY <1>0, <1>1, <2>1, <2>2, <2>4
<1>9. CASE UNCHANGED packetVars
  BY <1>0, <1>1, <1>9 DEF packetVars
<1> QED BY <1>4, <1>5, <1>6, <1>7, <1>8, <1>9 DEF PacketsNext

(* What a step that finds a host has read from the inbox of the scanner. *)
LEMMA FindsSender ==
    ASSUME PacketsInv, [PacketsNext]_packetVars, NEW h \in found' \ found
    PROVE  \E d \in inbox[Scanner] \ inbox'[Scanner] :
             /\ d.from = h
             /\ \/ h \in Listeners /\ ~ Spoiled(Scanner)
                \/ h = Stranger /\ (Spoiled(Scanner) \/ BeginsWithPacket(d.bytes))
<1>1. PICK d \in Datagrams : Found(d)
  BY DEF PacketsNext, Scan, Other, Answer, Unrecognised, packetVars
<1>2. /\ d \in inbox[Scanner] /\ Scanner \in Hosts
      /\ Offered(Scanner) > 0 /\ Recognised(Received(Scanner, d))
      /\ found' = found \cup {d.from}
      /\ inbox' = [inbox EXCEPT ![Scanner] = @ \ {d}]
  BY <1>1 DEF Found, Hosts
<1>3. d.from = h
  BY <1>2
<1>4. d \in inbox[Scanner] \ inbox'[Scanner]
  BY <1>2 DEF PacketsInv, PacketsTypeOK
<1>5. h = Stranger \/ (h \in Listeners /\ d.bytes = Packet)
  BY <1>2, <1>3 DEF PacketsInv, Honest
<1>6. IF Spoiled(Scanner) THEN d.bytes # Packet ELSE BeginsWithPacket(d.bytes)
  BY <1>2, ReadBuffer
<1> QED BY <1>3, <1>4, <1>5, <1>6

(* Whatever datagrams other programs send, pieces of the packet and longer *)
(* ones included, no buffer is overrun, and a host that is found has just  *)
(* sent the packet.  A listener is never taken for one on account of what  *)
(* is left in the buffer (discovery_scan.c:96-102): its packet behind that *)
(* is not recognised.  Only a stranger can be found by the end of a packet *)
(* that others began.                                                      *)
THEOREM FoundBySendingPacket == PacketsSpec => []PacketsTypeOK /\ FoundByPacket
<1>1. PacketsInit => PacketsInv
  <2> SUFFICES ASSUME PacketsInit PROVE PacketsInv
    OBVIOUS
  <2>1. \A h \in Hosts : Intact(buf[h])
    BY ClearedIntact DEF PacketsInit
  <2>2. \A h \in Hosts : /\ buf[h] \in [off : 0 .. PacketSize, unread : Seq(Byte)]
                         /\ buf[h].off + Len(buf[h].unread) <= PacketSize
    BY <2>1, IntactFits
  <2>3. buf \in [Hosts -> [off : 0 .. PacketSize, unread : Seq(Byte)]]
    BY <2>2 DEF PacketsInit
  <2>4. inbox \in [Hosts -> SUBSET Datagrams] /\ inbox[Scanner] = {} /\ found = {}
    BY DEF PacketsInit, Hosts
  <2> QED BY <2>1, <2>2, <2>3, <2>4 DEF PacketsInv, PacketsTypeOK
<1>2. PacketsInv => PacketsTypeOK
  BY DEF PacketsInv
<1>3. PacketsInv /\ [PacketsNext]_packetVars =>
        [\A h \in found' \ found : \E d \in inbox[Scanner] \ inbox'[Scanner] :
           /\ d.from = h
           /\ \/ h \in Listeners /\ ~ Spoiled(Scanner)
              \/ h = Stranger /\ (Spoiled(Scanner) \/ BeginsWithPacket(d.bytes))]_packetVars
  BY FindsSender
<1> QED BY <1>1, <1>2, <1>3, PacketsStep, PTL DEF PacketsSpec, PacketsSafety, FoundByPacket
=============================================================================
