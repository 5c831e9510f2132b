----------------------------- MODULE SocketRead -----------------------------
(***************************************************************************)
(* Packets over a byte stream: one side frames what cobra_socket_write is  *)
(* given (socket_write.c), TCP delivers the bytes in order and in pieces   *)
(* of any size, and cobra__socket_read_callback of the other side          *)
(* (socket_read.c) reassembles the packets in a buffer that holds one      *)
(* frame of maximal length.                                                *)
(*                                                                         *)
(* External: a read callback gets at most as many bytes as alloc offered;  *)
(* when it filled the buffer, libuv reads once more and, if nothing is     *)
(* there, calls back with length 0 (EAGAIN); at the end of the stream it   *)
(* calls back with a negative length.                                      *)
(***************************************************************************)
EXTENDS Buffer

CONSTANTS
    Packets,    \* what is written; the empty packet is a ping
    MaxFrames   \* bound on the number of packets and pings written

HeaderLength == 2                       \* COBRA_SOCKET_FRAME_HEADER_LENGTH
BodyMax == Base * Base - 1              \* COBRA_SOCKET_FRAME_BODY_MAX_LENGTH
FrameMax == BodyMax + HeaderLength      \* COBRA_SOCKET_FRAME_MAX_LENGTH

ASSUME SocketReadAssumption ==
    /\ \A p \in Packets : p \in Seq(Byte)
    /\ MaxFrames \in Nat

VARIABLES
    sent,       \* the packets written so far; a ping is the empty packet
    wire,       \* the bytes in transit
    buf,        \* sock->read_buffer
    body,       \* sock->read_frame_body_length, 0 while a header is awaited
    parsing,    \* the read callback is in its loop
    callbacks,  \* alloc_callback and read_callback are set
    consumed,   \* what the reader made of the frames so far
    filled,     \* the last read filled the buffer
    closing     \* why the reader closed the socket

readVars == <<buf, body, parsing, consumed, filled, closing>>
vars == <<sent, wire, callbacks, readVars>>

ReadTypeOK ==
    /\ sent \in Seq(Packets) /\ Len(sent) <= MaxFrames
    /\ wire \in Seq(Byte)
    /\ buf \in [off : 0 .. FrameMax, unread : Seq(Byte)]
    /\ buf.off + Len(buf.unread) <= FrameMax
    /\ body \in 0 .. BodyMax
    /\ parsing \in BOOLEAN
    /\ callbacks \in BOOLEAN
    /\ consumed \in Seq([body : Seq(Byte), how : {"ping", "delivered", "skipped"}])
    /\ filled \in BOOLEAN
    /\ closing \in {"no", "eof", "again"}
-----------------------------------------------------------------------------
(* Faults that the properties below must catch, used by the mutation runs. *)
CompleteWithMore == BufLength(buf) > IF body = 0 THEN HeaderLength ELSE body
-----------------------------------------------------------------------------
(* cobra_socket_create *)
ReadInit ==
    /\ sent = << >>
    /\ wire = << >>
    /\ buf = Cleared
    /\ body = 0
    /\ parsing = FALSE
    /\ callbacks = FALSE
    /\ consumed = << >>
    /\ filled = FALSE
    /\ closing = "no"

(* cobra__socket_write_async_send_callback: header and body are one frame, *)
(* in a buffer of just its size.  cobra_socket_write refuses an empty      *)
(* packet, a ping is one; no length is too long for it.                    *)
Frame(p) ==
    LET size == Len(p) + HeaderLength
    IN  Store(StoreUint(Cleared, Len(p), HeaderLength, size), p, size).unread

Write(p) ==
    /\ Len(sent) < MaxFrames /\ closing # "eof"
    /\ sent' = Append(sent, p)
    /\ wire' = wire \o Frame(p)
    /\ UNCHANGED <<callbacks, readVars>>

(* cobra_socket_set_callbacks *)
SetCallbacks ==
    /\ callbacks' = ~ callbacks
    /\ UNCHANGED <<sent, wire, readVars>>

(* cobra__socket_alloc_callback and the start of the read callback, with   *)
(* the first n bytes in transit.                                           *)
ReadBytes(n) ==
    /\ ~ parsing
    /\ n <= Len(wire) /\ n <= BufCapacity(buf, FrameMax)
    /\ buf' = Store(buf, SubSeq(wire, 1, n), FrameMax)
    /\ wire' = SubSeq(wire, n + 1, Len(wire))
    /\ filled' = (n = BufCapacity(buf, FrameMax))
    /\ parsing' = TRUE
    /\ UNCHANGED <<sent, callbacks, body, consumed, closing>>

(* What the loop waits for, a header or a body, is in the buffer. *)
Complete == BufLength(buf) >= IF body = 0 THEN HeaderLength ELSE body

Took(bytes, how) == consumed' = Append(consumed, [body |-> bytes, how |-> how])

(* The header is complete: it is read, and the loop goes on; a body of     *)
(* length 0 is a ping.                                                     *)
ReadHeader ==
    /\ parsing /\ body = 0 /\ Complete
    /\ body' = UintValue(buf, HeaderLength)
    /\ buf' = Consume(buf, HeaderLength)
    /\ IF body' = 0 THEN Took(<< >>, "ping") ELSE UNCHANGED consumed
    /\ UNCHANGED <<sent, wire, callbacks, parsing, filled, closing>>

(* The body is complete: it is handed to the user, or thrown away. *)
ReadBody ==
    /\ parsing /\ body > 0 /\ Complete
    /\ Took(SubSeq(buf.unread, 1, body), IF callbacks THEN "delivered" ELSE "skipped")
    /\ buf' = Consume(buf, body)
    /\ body' = 0
    /\ UNCHANGED <<sent, wire, callbacks, parsing, filled, closing>>

(* More bytes are needed: the loop ends and makes room. *)
ReadEnd ==
    /\ parsing /\ ~ Complete
    /\ buf' = Fragment(buf)
    /\ parsing' = FALSE
    /\ UNCHANGED <<sent, wire, callbacks, body, consumed, filled, closing>>

(* The read callback with length <= 0. *)
ReadNothing(why) ==
    /\ ~ parsing /\ closing = "no"
    /\ wire = << >>
    /\ why = "again" => filled
    /\ closing' = why
    /\ UNCHANGED <<sent, wire, callbacks, buf, body, parsing, consumed, filled>>

ReadNext ==
    \/ \E p \in Packets : Write(p)
    \/ SetCallbacks
    \/ \E n \in 1 .. FrameMax : ReadBytes(n)
    \/ ReadHeader \/ ReadBody \/ ReadEnd
    \/ \E why \in {"eof", "again"} : ReadNothing(why)

(* The loop goes on reading while there is something to read. *)
ReadFairness ==
    /\ WF_vars(\E n \in 1 .. FrameMax : ReadBytes(n))
    /\ WF_vars(ReadHeader \/ ReadBody \/ ReadEnd)

ReadSafety == ReadInit /\ [][ReadNext]_vars
ReadSpec == ReadSafety /\ ReadFairness
-----------------------------------------------------------------------------
(* The header tells the length of the first k packets: a longer packet is  *)
(* not refused by the code (socket_write.c:7), and its header tells only   *)
(* the low-order bytes of its length (socket_write.c:87).                  *)
Told(k) == \A j \in 1 .. k : j <= Len(sent) => Len(sent[j]) <= BodyMax

(* The k-th frame the reader makes out of the byte stream is the k-th      *)
(* packet written, however TCP cuts the stream, whether or not the user    *)
(* had callbacks set for the earlier ones, and whatever comes after it,    *)
(* until a packet longer than a header can tell.                           *)
InSync ==
    \A k \in 1 .. Len(consumed) :
        Told(k) => k <= Len(sent) /\ consumed[k].body = sent[k]

(* Between two read callbacks there is room for at least one more byte: a  *)
(* partial frame never fills the buffer, so alloc never offers 0 bytes     *)
(* (which libuv reports as an error that closes the socket), not even when *)
(* a packet was too long and its bytes are taken for headers.              *)
RoomToRead == ~ parsing => BufCapacity(buf, FrameMax) > 0

(* Every packet written is consumed, unless the reader closed before or a  *)
(* packet was too long.                                                    *)
AllConsumed ==
    \A k \in 1 .. MaxFrames :
        Len(sent) >= k /\ Told(k) ~> (Len(consumed) >= k \/ closing # "no")
=============================================================================
