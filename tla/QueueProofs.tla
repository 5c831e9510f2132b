----------------------------- MODULE QueueProofs ----------------------------
(***************************************************************************)
(* The ring buffer of src/queue, for every capacity and every set of data: *)
(* its inductive invariant, what one write and one read do to the sequence *)
(* of unread entries, and that it implements the bounded FIFO.             *)
(***************************************************************************)
EXTENDS Queue, SequenceTheorems, TLAPS

(* The parts that make each other inductive: without PointersAgree a write *)
(* could land on an unread entry, without the type Slot is not a slot.     *)
QueueInv == QueueTypeOK /\ PointersAgree /\ NoGarbageRead

(* The slots of the unread entries are slots of the array, all different,  *)
(* and none of them is the one the next write uses, if there is room.      *)
LEMMA SlotsDistinct ==
    ASSUME QueueInv
    PROVE  /\ \A i \in 1 .. Size : Slot(i) \in 0 .. Size - 1
           /\ \A i, j \in 1 .. Size : Slot(i) = Slot(j) => i = j
           /\ length < Size => \A i \in 1 .. length : Slot(i) # write
           /\ length > 0 => Slot(1) = read
<1>1. /\ Size \in Nat \ {0}
      /\ read \in 0 .. Size - 1
      /\ length \in 0 .. Size
      /\ write = Slot(length + 1)
  BY QueueAssumption DEF QueueInv, QueueTypeOK, PointersAgree
<1> QED BY <1>1 DEF Slot

(* cobra_queue_write on a queue with room appends the entry and moves none *)
(* of the older ones.                                                      *)
LEMMA WriteAppends ==
    ASSUME QueueInv, Capacity # 0, NEW d \in Data, Write(d)
    PROVE  /\ QueueInv'
           /\ length' = length + 1
           /\ \A i \in 1 .. length : Contents'[i] = Contents[i]
           /\ Contents'[length + 1] = d
<1>1. /\ Size \in Nat \ {0}
      /\ read \in 0 .. Size - 1
      /\ write \in 0 .. Size - 1
      /\ length \in 0 .. Size - 1
      /\ slots \in [0 .. Size - 1 -> Data \cup {Garbage}]
      /\ write = Slot(length + 1)
  BY QueueAssumption DEF QueueInv, QueueTypeOK, PointersAgree, Capacity
<1>2. /\ slots' = [slots EXCEPT ![write] = d]
      /\ length' = length + 1
      /\ write' = Advance(write)
      /\ read' = read
  BY DEF Write
<1>3. \A i \in 1 .. length + 1 : Slot(i)' = Slot(i)
  BY <1>2 DEF Slot
<1>4. write' = Slot(length + 1)'
  BY <1>1, <1>2 DEF Slot, Advance
<1>5. \A i \in 1 .. length : Contents'[i] = Contents[i]
  <2> SUFFICES ASSUME NEW i \in 1 .. length
               PROVE  Contents'[i] = Contents[i]
    OBVIOUS
  <2>1. Slot(i) \in 0 .. Size - 1 /\ Slot(i) # write
    BY <1>1, SlotsDistinct
  <2>2. slots'[Slot(i)] = slots[Slot(i)]
    BY <2>1, <1>1, <1>2
  <2>3. Contents[i] = slots[Slot(i)]
    BY DEF Contents
  <2>4. i \in 1 .. length'
    BY <1>1, <1>2
  <2>5. Contents'[i] = slots'[Slot(i)']
    BY <2>4 DEF Contents
  <2> QED BY <2>2, <2>3, <2>5, <1>1, <1>3
<1>6. Contents'[length + 1] = d
  <2>1. \A i \in 1 .. length' : Contents'[i] = slots'[Slot(i)]
    BY <1>2, <1>3 DEF Contents
  <2>2. length + 1 \in 1 .. length'
    BY <1>1, <1>2
  <2>3. Contents'[length + 1] = slots'[write]
    BY <2>1, <2>2, <1>1
  <2> QED BY <2>3, <1>1, <1>2
<1>7. QueueTypeOK'
  BY <1>1, <1>2 DEF QueueTypeOK, Advance
<1>8. NoGarbageRead'
  <2> SUFFICES ASSUME NEW i \in 1 .. length'
               PROVE  Contents'[i] \in Data
    BY DEF NoGarbageRead
  <2>1. CASE i \in 1 .. length
    BY <2>1, <1>5 DEF QueueInv, NoGarbageRead
  <2>2. CASE i = length + 1
    BY <2>2, <1>6
  <2> QED BY <2>1, <2>2, <1>1, <1>2
<1> QED BY <1>2, <1>4, <1>5, <1>6, <1>7, <1>8 DEF QueueInv, PointersAgree

(* cobra_queue_read on a non-empty queue returns the oldest entry and      *)
(* moves the others up by one, also when it clears the pointers.           *)
LEMMA ReadRemoves ==
    ASSUME QueueInv, length # 0, Read
    PROVE  /\ QueueInv'
           /\ length' = length - 1
           /\ Front = Contents[1]
           /\ \A i \in 1 .. length' : Contents'[i] = Contents[i + 1]
<1>1. /\ Size \in Nat \ {0}
      /\ read \in 0 .. Size - 1
      /\ write \in 0 .. Size - 1
      /\ length \in 1 .. Size
      /\ slots \in [0 .. Size - 1 -> Data \cup {Garbage}]
      /\ write = Slot(length + 1)
  BY QueueAssumption DEF QueueInv, QueueTypeOK, PointersAgree
<1>2. /\ slots' = slots
      /\ length' = length - 1
      /\ IF length' = 0 THEN read' = 0 /\ write' = 0
                        ELSE read' = Advance(read) /\ write' = write
  BY DEF Read, Clear
<1>3. Front = Contents[1]
  BY <1>1 DEF Front, Contents, Slot
<1>4. \A i \in 1 .. length' : Slot(i)' = Slot(i + 1)
  BY <1>1, <1>2 DEF Slot, Advance
<1>5. write' = Slot(length + 1)'
  BY <1>1, <1>2 DEF Slot, Advance
<1>6. \A i \in 1 .. length' : Contents'[i] = Contents[i + 1]
  <2> SUFFICES ASSUME NEW i \in 1 .. length'
               PROVE  Contents'[i] = Contents[i + 1]
    OBVIOUS
  <2>1. Contents'[i] = slots'[Slot(i)']
    BY DEF Contents
  <2>2. i + 1 \in 1 .. length
    BY <1>1, <1>2
  <2>3. Contents[i + 1] = slots[Slot(i + 1)]
    BY <2>2 DEF Contents
  <2> QED BY <2>1, <2>3, <1>2, <1>4
<1>7. QueueTypeOK'
  BY <1>1, <1>2 DEF QueueTypeOK, Advance
<1>8. NoGarbageRead'
  <2>1. \A i \in 1 .. length' : i + 1 \in 1 .. length
    BY <1>1, <1>2
  <2> QED BY <2>1, <1>6 DEF QueueInv, NoGarbageRead
<1> QED BY <1>2, <1>3, <1>5, <1>6, <1>7, <1>8 DEF QueueInv, PointersAgree

(* The unread entries are a sequence of data as long as length says.       *)
LEMMA ContentsSeq ==
    QueueInv => Contents \in Seq(Data) /\ Len(Contents) = length
<1> SUFFICES ASSUME QueueInv
             PROVE  Contents \in Seq(Data) /\ Len(Contents) = length
  OBVIOUS
<1>1. length \in Nat
  BY QueueAssumption DEF QueueInv, QueueTypeOK
<1>2. Contents \in [1 .. length -> Data]
  BY DEF QueueInv, NoGarbageRead, Contents
<1> QED BY <1>1, <1>2

(* The two lemmas above, in terms of that sequence. *)
LEMMA WriteIsPut ==
    ASSUME QueueInv, Capacity # 0, NEW d \in Data, Write(d)
    PROVE  Abstract!Put(d)
<1>1. /\ QueueInv'
      /\ length' = length + 1
      /\ \A i \in 1 .. length : Contents'[i] = Contents[i]
      /\ Contents'[length + 1] = d
  BY WriteAppends
<1>2. Contents \in Seq(Data) /\ Len(Contents) = length
  BY ContentsSeq
<1>3. Contents' \in Seq(Data) /\ Len(Contents') = length + 1
  <2>1. QueueInv'
    BY <1>1
  <2>2. (Contents \in Seq(Data) /\ Len(Contents) = length)'
    BY <2>1, ContentsSeq, PTL
  <2> QED BY <2>2, <1>1
<1>4. Size \in Nat /\ length \in 0 .. Size - 1
  BY QueueAssumption DEF QueueInv, QueueTypeOK, Capacity
<1>5. Contents' = Append(Contents, d)
  BY <1>1, <1>2, <1>3, <1>4, AppendProperties, SeqEqual
<1> QED BY <1>2, <1>4, <1>5 DEF Abstract!Put

(* cobra_queue_read on a queue that is not empty takes the first element   *)
(* off that sequence.                                                      *)
LEMMA ReadIsGet ==
    ASSUME QueueInv, length # 0, Read
    PROVE  Abstract!Get
<1>1. /\ QueueInv'
      /\ length' = length - 1
      /\ \A i \in 1 .. length' : Contents'[i] = Contents[i + 1]
  BY ReadRemoves
<1>2. Contents \in Seq(Data) /\ Len(Contents) = length
  BY ContentsSeq
<1>3. (Contents \in Seq(Data) /\ Len(Contents) = length)'
  <2>1. QueueInv'
    BY <1>1
  <2> QED BY <2>1, ContentsSeq, PTL
<1>4. Contents # << >>
  BY <1>2
<1>5. /\ Tail(Contents) \in Seq(Data)
      /\ Len(Tail(Contents)) = length - 1
      /\ \A i \in 1 .. length - 1 : Tail(Contents)[i] = Contents[i + 1]
  BY <1>2, <1>4, HeadTailProperties
<1>6. Contents' = Tail(Contents)
  BY <1>1, <1>3, <1>5, SeqEqual
<1> QED BY <1>4, <1>6 DEF Abstract!Get

(* cobra_queue_init establishes the invariant. *)
LEMMA QueueInitInv == QueueInit => QueueInv
  BY QueueAssumption
  DEF QueueInit, QueueInv, QueueTypeOK, PointersAgree, NoGarbageRead, Slot, Contents

(* Every operation preserves it. *)
LEMMA QueueNextInv == QueueInv /\ [QueueNext]_queueVars => QueueInv'
<1> SUFFICES ASSUME QueueInv, [QueueNext]_queueVars
             PROVE  QueueInv'
  OBVIOUS
<1>1. CASE UNCHANGED queueVars
  BY <1>1 DEF queueVars, QueueInv, QueueTypeOK, PointersAgree, NoGarbageRead, Contents, Slot
<1>2. CASE Read
  BY <1>1, <1>2, ReadRemoves DEF Read
<1>3. ASSUME NEW d \in Data, Write(d)
      PROVE  QueueInv'
  BY <1>1, <1>3, WriteAppends DEF Write
<1> QED BY <1>1, <1>2, <1>3 DEF QueueNext

(* The ring buffer is type correct, its pointers agree with its length and *)
(* an unread entry is never uninitialised memory, for every capacity.      *)
THEOREM QueueSafe == QueueSpec => [](QueueTypeOK /\ PointersAgree /\ NoGarbageRead)
<1>1. QueueInit => QueueInv
  BY QueueInitInv
<1>2. QueueInv /\ [QueueNext]_queueVars => QueueInv'
  BY QueueNextInv
<1> QED BY <1>1, <1>2, PTL DEF QueueSpec, QueueInv

(* The ring buffer implements the bounded FIFO: a write that finds room is *)
(* its Put, a read that finds an entry its Get, and the others a stutter.  *)
THEOREM QueueImplementsFifo == QueueSpec => ImplementsFifo
<1>1. QueueInit => Abstract!FifoInit
  BY DEF QueueInit, Contents, Abstract!FifoInit
<1>2. QueueInv /\ [QueueNext]_queueVars => [Abstract!FifoNext]_Contents
  <2> SUFFICES ASSUME QueueInv, [QueueNext]_queueVars
               PROVE  Abstract!FifoNext \/ UNCHANGED Contents
    BY Zenon
  <2>1. CASE UNCHANGED queueVars
    BY <2>1 DEF queueVars, Contents, Slot
  <2>2. CASE Read /\ length # 0
    BY <2>2, ReadIsGet DEF Abstract!FifoNext
  <2>3. CASE Read /\ length = 0
    BY <2>3 DEF Read, queueVars, Contents, Slot
  <2>4. ASSUME NEW d \in Data, Write(d), Capacity # 0
        PROVE  Abstract!FifoNext
    BY <2>4, WriteIsPut DEF Abstract!FifoNext
  <2>5. ASSUME NEW d \in Data, Write(d), Capacity = 0
        PROVE  UNCHANGED Contents
    BY <2>5 DEF Write, queueVars, Contents, Slot
  <2> QED BY <2>1, <2>2, <2>3, <2>4, <2>5 DEF QueueNext
<1>3. QueueInit => QueueInv
  BY QueueInitInv
<1>4. QueueInv /\ [QueueNext]_queueVars => QueueInv'
  BY QueueNextInv
<1> QED BY <1>1, <1>2, <1>3, <1>4, PTL DEF QueueSpec, ImplementsFifo, Abstract!FifoSpec
=============================================================================
