------------------------------- MODULE Buffer -------------------------------
(***************************************************************************)
(* The byte buffer of src/buffer (cobra_buffer_t), as operators on         *)
(* [off, unread]: read_pointer - head_pointer, and the bytes between the   *)
(* read and the write pointer.  The read pointer moves away from the head  *)
(* and room is lost in front of it until the buffer is emptied or          *)
(* fragmented.  A byte has Base values, so that its width is a parameter.  *)
(***************************************************************************)
EXTENDS Integers, Sequences

CONSTANTS
    Base,       \* number of values of a byte
    Word        \* sizeof(uint64_t)

ASSUME BufferAssumption ==
    /\ Base \in Nat /\ Base >= 2
    /\ Word \in Nat /\ Word >= 2

Byte == 0 .. Base - 1

(* cobra_buffer_init, cobra_buffer_clear *)
Cleared == [off |-> 0, unread |-> << >>]

-----------------------------------------------------------------------------
(* Faults that the properties of SocketRead and DiscoveryPackets must      *)
(* catch, used by the mutation runs.                                       *)
CapacityFromRead(b, size) == size - b.off

FragmentNever(b) == b

HighDigits(word, n) == SubSeq(word, 1, n)

AtHighEnd(s) == [i \in 1 .. Word |-> IF i <= Len(s) THEN s[i] ELSE 0]
-----------------------------------------------------------------------------
(* cobra_buffer_length, cobra_buffer_capacity *)
BufLength(b) == Len(b.unread)

BufCapacity(b, size) == size - (b.off + Len(b.unread))

(* cobra_buffer_read, cobra_buffer_read_void: the pointer is moved over n  *)
(* bytes; the read that empties the buffer clears it.  A read of more than *)
(* there is does nothing.                                                  *)
Consume(b, n) ==
    IF Len(b.unread) < n THEN b
    ELSE IF Len(b.unread) = n THEN Cleared
    ELSE [off |-> b.off + n, unread |-> SubSeq(b.unread, n + 1, Len(b.unread))]

(* cobra_buffer_write, cobra_buffer_write_void (the bytes are already in   *)
(* place there): more than fits is not written at all.                     *)
Store(b, bytes, size) ==
    IF BufCapacity(b, size) < Len(bytes) THEN b
    ELSE [b EXCEPT !.unread = @ \o bytes]

(* cobra_buffer_fragment: the unread bytes are moved to the head. *)
Fragment(b) ==
    IF b.unread = << >> \/ b.off = 0 THEN b ELSE [b EXCEPT !.off = 0]

(* The bytes of a word in memory (little-endian), turned by                *)
(* cobra_utils_flip_array into big-endian order.                           *)
Flip(s) == [i \in 1 .. Len(s) |-> s[Len(s) - i + 1]]

WordBytes(x) ==
    LET rest[i \in 0 .. Word - 1] == IF i = 0 THEN x ELSE rest[i - 1] \div Base
    IN  [i \in 1 .. Word |-> rest[i - 1] % Base]

WordValue(s) ==
    LET high[i \in 0 .. Word] == IF i = 0 THEN 0 ELSE high[i - 1] * Base + s[Word - i + 1]
    IN  high[Word]

(* cobra_buffer_write_uint: the n low-order bytes, high-order byte first;  *)
(* what does not fit in them is lost.                                      *)
LowDigits(word, n) == SubSeq(word, Word - n + 1, Word)

StoreUint(b, x, n, size) == Store(b, LowDigits(Flip(WordBytes(x)), n), size)

(* cobra_buffer_read_uint: n bytes are read into the end of a zero word.   *)
AtLowEnd(s) ==
    [i \in 1 .. Word |-> IF i > Word - Len(s) THEN s[i - (Word - Len(s))] ELSE 0]

UintValue(b, n) ==
    IF Len(b.unread) < n THEN 0 ELSE WordValue(Flip(AtLowEnd(SubSeq(b.unread, 1, n))))
=============================================================================
