------------------------------- MODULE Queue --------------------------------
(***************************************************************************)
(* The bounded ring buffer of src/queue (cobra_queue_t).  The two moving   *)
(* pointers are offsets from head_pointer; a slot that malloc returned and *)
(* nobody wrote holds Garbage.  The queue itself is not thread-safe: its   *)
(* callers hold the mutex of cobra_async_t, so each operation is one step. *)
(***************************************************************************)
EXTENDS Naturals, Sequences

CONSTANTS
    Size,       \* capacity given to cobra_queue_init
    Data,       \* the pointers a caller may store
    Garbage     \* content of a slot never written

ASSUME QueueAssumption ==
    /\ Size \in Nat \ {0}
    /\ Garbage \notin Data

VARIABLES
    length,     \* number of unread entries
    slots,      \* the allocated array
    read,       \* read_pointer - head_pointer
    write       \* write_pointer - head_pointer

queueVars == <<length, slots, read, write>>

QueueTypeOK ==
    /\ length \in 0 .. Size
    /\ slots \in [0 .. Size - 1 -> Data \cup {Garbage}]
    /\ read \in 0 .. Size - 1
    /\ write \in 0 .. Size - 1
-----------------------------------------------------------------------------
(* Faults that the properties below must catch, used by the mutation runs. *)
CapacityOffByOne == Size + 1 - length

AdvanceNoWrap(p) == p + 1

ClearWriteOnly ==
    /\ read' = IF read + 1 = Size THEN 0 ELSE read + 1
    /\ write' = 0
-----------------------------------------------------------------------------
(* cobra_queue_init *)
QueueInit ==
    /\ length = 0
    /\ slots = [i \in 0 .. Size - 1 |-> Garbage]
    /\ read = 0
    /\ write = 0

(* cobra_queue_capacity *)
Capacity == Size - length

(* A pointer moved on by one entry, back to the head at the end. *)
Advance(p) == IF p + 1 = Size THEN 0 ELSE p + 1

(* cobra_queue_clear: the pointers are reset, length is left as it is. *)
Clear ==
    /\ read' = 0
    /\ write' = 0

(* cobra_queue_write: an entry offered to a full queue is dropped. *)
Write(d) ==
    IF Capacity = 0
    THEN UNCHANGED queueVars
    ELSE /\ slots' = [slots EXCEPT ![write] = d]
         /\ length' = length + 1
         /\ write' = Advance(write)
         /\ UNCHANGED read

(* The entry cobra_queue_read returns when the queue is not empty. *)
Front == slots[read]

(* cobra_queue_read: the read that empties the queue also clears it. *)
Read ==
    IF length = 0
    THEN UNCHANGED queueVars
    ELSE /\ length' = length - 1
         /\ IF length' = 0
            THEN Clear
            ELSE read' = Advance(read) /\ UNCHANGED write
         /\ UNCHANGED slots

QueueNext == Read \/ \E d \in Data : Write(d)

QueueSpec == QueueInit /\ [][QueueNext]_queueVars
-----------------------------------------------------------------------------
(* The slot of the i-th oldest entry, and the entries oldest first. *)
Slot(i) == IF read + i - 1 < Size THEN read + i - 1 ELSE read + i - 1 - Size

Contents == [i \in 1 .. length |-> slots[Slot(i)]]

(* The two pointers and the counter agree: write is the slot after the     *)
(* newest entry.  A queue that is full and one that is empty have equal    *)
(* pointers, only length tells them apart (queue_write.c, queue_read.c).   *)
PointersAgree == write = Slot(length + 1)

(* An unread entry is one that was written: cobra_queue_read never returns *)
(* uninitialised memory, also after a clear has moved the pointers.        *)
NoGarbageRead == \A i \in 1 .. length : Contents[i] \in Data

(* Seen as the sequence of its unread entries the ring buffer is a bounded *)
(* FIFO: every write appends, every read removes the oldest entry.         *)
Abstract == INSTANCE Fifo WITH q <- Contents
ImplementsFifo == Abstract!FifoSpec
=============================================================================
