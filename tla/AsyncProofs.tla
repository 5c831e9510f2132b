----------------------------- MODULE AsyncProofs ----------------------------
(***************************************************************************)
(* The mailbox of src/async for every queue size, every set of senders and *)
(* every number of sends: entries are delivered in order and without loss, *)
(* and no wake-up is lost.  For a queue of one entry, no drain callback is *)
(* lost either.                                                            *)
(***************************************************************************)
EXTENDS Async, QueueProofs

(* InOrder is inductive given the ring-buffer invariant, which says where  *)
(* an entry goes; it also bounds done by sent, hence by MaxSends.  Clear   *)
(* leaves length alone, so binding is safe only because nothing was sent.  *)
NothingBeforeBind ==
    handle = "unbound" => length = 0 /\ pc = "idle" /\ waiting = {}

AsyncInv ==
    /\ AsyncTypeOK
    /\ PointersAgree
    /\ NoGarbageRead
    /\ InOrder
    /\ NoLostWakeup
    /\ NothingBeforeBind

(* cobra_async_init establishes the invariant.                             *)
LEMMA AsyncInitInv == AsyncInit => AsyncInv
<1> SUFFICES ASSUME AsyncInit
             PROVE  AsyncInv
  OBVIOUS
<1>1. QueueInv
  BY QueueInitInv DEF AsyncInit
<1>2. AsyncTypeOK
  <2>1. QueueTypeOK /\ 0 \in 0 .. MaxSends
    BY <1>1, AsyncAssumption DEF QueueInv
  <2>2. pending \in BOOLEAN /\ drainFlag \in BOOLEAN
    BY DEF AsyncInit
  <2> QED BY <2>1, <2>2 DEF AsyncInit, AsyncTypeOK
<1>3. InOrder /\ NoLostWakeup /\ NothingBeforeBind
  BY DEF AsyncInit, QueueInit, InOrder, NoLostWakeup, NothingBeforeBind, InHand
<1> QED BY <1>1, <1>2, <1>3 DEF AsyncInv, QueueInv

(* An accepted entry goes behind all the others, and is signalled. *)
LEMMA AcceptInv ==
    ASSUME AsyncInv, NEW s \in Senders, Accept(s), handle # "unbound"
    PROVE  AsyncInv'
<1>1. /\ sent \in 0 .. MaxSends /\ sent + 1 \in Data
      /\ done \in 0 .. MaxSends
      /\ length \in 0 .. Size
      /\ Size \in Nat /\ MaxSends \in Nat
  BY AsyncAssumption, QueueAssumption
  DEF AsyncInv, AsyncTypeOK, QueueTypeOK, Accept
<1>2. QueueInv /\ Capacity # 0 /\ Write(sent + 1)
  BY <1>1 DEF AsyncInv, AsyncTypeOK, QueueInv, Accept, Capacity
<1>3. /\ QueueInv'
      /\ length' = length + 1
      /\ \A i \in 1 .. length : Contents'[i] = Contents[i]
      /\ Contents'[length + 1] = sent + 1
  BY <1>1, <1>2, WriteAppends
<1>4. AsyncTypeOK'
  BY <1>1, <1>3, AsyncAssumption
  DEF AsyncInv, AsyncTypeOK, QueueInv, Accept, Signal, loopVars
<1>5. InHand' = InHand /\ InHand \in {0, 1}
  BY DEF Accept, loopVars, InHand
<1>6. InOrder'
  BY <1>1, <1>3, <1>5 DEF AsyncInv, InOrder, Accept, loopVars
<1>7. NoLostWakeup' /\ NothingBeforeBind'
  BY DEF Accept, Signal, NoLostWakeup, NothingBeforeBind
<1> QED BY <1>3, <1>4, <1>6, <1>7 DEF AsyncInv, QueueInv

(* Taking the next entry hands over the oldest one and keeps the others in *)
(* order behind it.  n entries are done when the loop looks at the queue.  *)
LEMMA TakeNextInOrder ==
    ASSUME QueueInv, TakeNext, NEW n \in Nat,
           \A i \in 1 .. length : Contents[i] = n + i
    PROVE  /\ QueueInv'
           /\ n + length = n + InHand' + length'
           /\ pc' = "deliver" => hand' = n + 1
           /\ \A i \in 1 .. length' : Contents'[i] = n + InHand' + i
           /\ pc' \in {"deliver", "drain"}
           /\ hand' \in {hand} \cup Data
           /\ pc' = "drain" => length' = 0
<1>1. length \in Nat /\ Read
  BY QueueAssumption DEF QueueInv, QueueTypeOK, TakeNext
<1>2. CASE length = 0
  <2>1. UNCHANGED queueVars /\ pc' = "drain" /\ hand' = hand
    BY <1>1, <1>2 DEF Read, TakeNext
  <2>2. QueueInv'
    BY <2>1 DEF QueueInv, queueVars, QueueTypeOK, PointersAgree, NoGarbageRead, Contents, Slot
  <2> QED BY <1>2, <2>1, <2>2 DEF queueVars, InHand
<1>3. CASE length # 0
  <2>1. /\ QueueInv'
        /\ length' = length - 1
        /\ Front = Contents[1]
        /\ \A i \in 1 .. length' : Contents'[i] = Contents[i + 1]
    BY <1>1, <1>3, ReadRemoves
  <2>2. pc' = "deliver" /\ hand' = Front
    BY <1>3 DEF TakeNext
  <2>3. Contents[1] \in Data /\ Contents[1] = n + 1
    BY <1>1, <1>3 DEF QueueInv, NoGarbageRead
  <2>4. InHand' = 1
    BY <2>2 DEF InHand
  <2>5. \A i \in 1 .. length' : Contents'[i] = n + InHand' + i
    BY <1>1, <2>1, <2>4
  <2> QED BY <1>1, <2>1, <2>2, <2>3, <2>4, <2>5
<1> QED BY <1>2, <1>3

(* The loop enters cobra__async_send_callback: it consumes the signal and  *)
(* takes the oldest entry.                                                 *)
LEMMA WakeUpInv ==
    ASSUME AsyncInv, WakeUp
    PROVE  AsyncInv'
<1>1. /\ QueueInv /\ TakeNext /\ done \in Nat /\ length \in Nat
      /\ sent = done + length
      /\ \A i \in 1 .. length : Contents[i] = done + i
  BY AsyncAssumption, QueueAssumption
  DEF AsyncInv, AsyncTypeOK, QueueTypeOK, QueueInv, InOrder, InHand, WakeUp
<1>2. /\ QueueInv'
      /\ done + length = done + InHand' + length'
      /\ pc' = "deliver" => hand' = done + 1
      /\ \A i \in 1 .. length' : Contents'[i] = done + InHand' + i
      /\ pc' \in {"deliver", "drain"}
      /\ hand' \in {hand} \cup Data
      /\ pc' = "drain" => length' = 0
  BY <1>1, TakeNextInOrder
<1>3. AsyncTypeOK'
  BY <1>2 DEF AsyncInv, AsyncTypeOK, QueueInv, WakeUp, DrainDue
<1>4. InOrder'
  BY <1>1, <1>2 DEF InOrder, WakeUp
<1>5. NoLostWakeup' /\ NothingBeforeBind'
  BY <1>2 DEF NoLostWakeup, NothingBeforeBind, WakeUp
<1> QED BY <1>2, <1>3, <1>4, <1>5 DEF AsyncInv, QueueInv

(* A send_callback returns: its entry is done, and the next one is taken.  *)
LEMMA DeliveredInv ==
    ASSUME AsyncInv, Delivered
    PROVE  AsyncInv'
<1>1. /\ QueueInv /\ TakeNext /\ done \in Nat /\ length \in Nat
      /\ sent = done + 1 + length /\ sent <= MaxSends
      /\ \A i \in 1 .. length : Contents[i] = done + 1 + i
      /\ MaxSends \in Nat
      /\ done' = done + 1 /\ sent' = sent
  BY AsyncAssumption, QueueAssumption
  DEF AsyncInv, AsyncTypeOK, QueueTypeOK, QueueInv, InOrder, InHand, Delivered
<1>2. /\ QueueInv'
      /\ done + 1 + length = done + 1 + InHand' + length'
      /\ pc' = "deliver" => hand' = done + 1 + 1
      /\ \A i \in 1 .. length' : Contents'[i] = done + 1 + InHand' + i
      /\ pc' \in {"deliver", "drain"}
      /\ hand' \in {hand} \cup Data
      /\ pc' = "drain" => length' = 0
  <2>1. done + 1 \in Nat
    BY <1>1
  <2> QED BY <1>1, <2>1, TakeNextInOrder
<1>3. AsyncTypeOK'
  BY <1>1, <1>2 DEF AsyncInv, AsyncTypeOK, QueueInv, Delivered
<1>4. InOrder'
  BY <1>1, <1>2 DEF InOrder
<1>5. NoLostWakeup' /\ NothingBeforeBind'
  BY <1>2 DEF NoLostWakeup, NothingBeforeBind, Delivered, AsyncInv
<1> QED BY <1>2, <1>3, <1>4, <1>5 DEF AsyncInv, QueueInv

(* The steps that leave the queue alone. *)
LEMMA OtherInv ==
    ASSUME AsyncInv,
           \/ Bind \/ Drain \/ Close \/ CloseCallback
           \/ UNCHANGED asyncVars
           \/ handle # "unbound" /\ \E s \in Senders : Overflow(s)
    PROVE  AsyncInv'
<1> USE DEF AsyncInv, AsyncTypeOK, QueueTypeOK, PointersAgree, NoGarbageRead, InOrder,
            NoLostWakeup, NothingBeforeBind, InHand, Contents, Slot, queueVars, loopVars
<1>1. CASE UNCHANGED asyncVars
  BY <1>1 DEF asyncVars
<1>2. CASE Bind
  <2>1. length' = 0 /\ length = 0 /\ read' = 0 /\ write' = 0 /\ slots' = slots /\ pc = "idle"
    BY <1>2 DEF Bind, Clear
  <2>2. 1 <= Size /\ Size \in Nat
    BY QueueAssumption
  <2>3. PointersAgree' /\ QueueTypeOK'
    BY <2>1, <2>2
  <2>4. NoGarbageRead' /\ InOrder'
    BY <1>2, <2>1 DEF Bind
  <2>5. AsyncTypeOK'
    BY <1>2, <2>3 DEF Bind
  <2> QED BY <1>2, <2>1, <2>3, <2>4, <2>5 DEF Bind
<1>3. CASE Drain
  BY <1>3 DEF Drain
<1>4. CASE Close
  BY <1>4 DEF Close
<1>5. CASE CloseCallback
  BY <1>5 DEF CloseCallback
<1>6. ASSUME NEW s \in Senders, Overflow(s), handle # "unbound"
      PROVE  AsyncInv'
  BY <1>6 DEF Overflow
<1> QED BY <1>1, <1>2, <1>3, <1>4, <1>5, <1>6

(* Every step of the mailbox preserves the invariant.                      *)
LEMMA AsyncNextInv == AsyncInv /\ [AsyncNext]_asyncVars => AsyncInv'
<1> SUFFICES ASSUME AsyncInv, [AsyncNext]_asyncVars
             PROVE  AsyncInv'
  OBVIOUS
<1>1. CASE WakeUp
  BY <1>1, WakeUpInv
<1>2. CASE Delivered
  BY <1>2, DeliveredInv
<1>3. ASSUME NEW s \in Senders, Accept(s), handle # "unbound"
      PROVE  AsyncInv'
  BY <1>3, AcceptInv
<1>4. CASE \/ Bind \/ Drain \/ Close \/ CloseCallback
           \/ UNCHANGED asyncVars
           \/ handle # "unbound" /\ \E s \in Senders : Overflow(s)
  BY <1>4, OtherInv
<1> QED BY <1>1, <1>2, <1>3, <1>4 DEF AsyncNext, Send

(* The mailbox is type correct, delivers what it accepted in order and     *)
(* without loss, and never loses a wake-up, whatever the size of the queue *)
(* and the number of sending threads.                                      *)
THEOREM AsyncSafe == AsyncSafety => [](AsyncTypeOK /\ InOrder /\ NoLostWakeup)
<1> QED BY AsyncInitInv, AsyncNextInv, PTL DEF AsyncSafety, AsyncInv

(* Looking at the queue is Take of the mailbox: the oldest entry is taken, *)
(* or there is none.                                                       *)
LEMMA TakeNextIsTake ==
    ASSUME QueueInv, TakeNext, Garbage \notin Data
    PROVE  Box!Take
<1>1. Contents \in Seq(Data) /\ Len(Contents) = length /\ length \in Nat
  BY ContentsSeq, QueueAssumption DEF QueueInv, QueueTypeOK
<1>2. Read
  BY DEF TakeNext
<1>3. CASE length = 0
  <2>1. UNCHANGED queueVars /\ pc' = "drain"
    BY <1>2, <1>3 DEF Read, TakeNext
  <2>2. Contents' = Contents /\ Contents = << >>
    BY <1>1, <1>3, <2>1 DEF queueVars, Contents, Slot
  <2> QED BY <2>1, <2>2 DEF Box!Take
<1>4. CASE length # 0
  <2>1. Front = Contents[1]
    BY <1>2, <1>4, ReadRemoves
  <2>2. pc' = "deliver" /\ hand' = Contents[1]
    BY <1>4, <2>1 DEF TakeNext
  <2>3. Contents # << >> /\ Contents' = Tail(Contents)
    BY <1>2, <1>4, ReadIsGet DEF Abstract!Get
  <2>4. Head(Contents) = Contents[1]
    BY <1>1, <2>3
  <2> QED BY <2>2, <2>3, <2>4 DEF Box!Take
<1> QED BY <1>3, <1>4

(* Every step of the async is one of the mailbox, or does not show.        *)
LEMMA MailboxStep ==
    AsyncInv /\ [AsyncNext]_asyncVars => [Box!MailboxNext]_(Box!mailboxVars)
<1> SUFFICES ASSUME AsyncInv, [AsyncNext]_asyncVars
             PROVE  Box!MailboxNext \/ UNCHANGED Box!mailboxVars
  BY Zenon
<1>0. QueueInv /\ Garbage \notin Data
  BY QueueAssumption DEF AsyncInv, AsyncTypeOK, QueueInv
<1>h. pc = "deliver" => hand # Garbage
  <2>1. /\ sent \in 0 .. MaxSends /\ done \in 0 .. MaxSends /\ length \in Nat
        /\ sent = done + InHand + length /\ (pc = "deliver" => hand = done + 1)
        /\ MaxSends \in Nat /\ Data = 1 .. MaxSends
    BY AsyncAssumption, QueueAssumption DEF AsyncInv, AsyncTypeOK, QueueTypeOK, InOrder
  <2>2. pc = "deliver" => hand \in Data
    BY <2>1 DEF InHand
  <2> QED BY <1>0, <2>2
<1> USE DEF Box!MailboxNext, Box!mailboxVars
<1>1. CASE WakeUp
  <2>1. Box!Take
    BY <1>0, <1>1, TakeNextIsTake DEF WakeUp
  <2>2. Box!Wakes
    BY <1>1, <2>1 DEF WakeUp, Box!Wakes
  <2> QED BY <2>2
<1>2. CASE Delivered
  <2>1. Box!Take
    BY <1>0, <1>2, TakeNextIsTake DEF Delivered
  <2>2. Box!Returns
    BY <1>h, <1>2, <2>1 DEF Delivered, Box!Returns
  <2> QED BY <2>2
<1>3. ASSUME NEW s \in Senders, Accept(s), handle # "unbound"
      PROVE  Box!MailboxNext
  <2>1. sent + 1 \in Data /\ Capacity # 0 /\ Write(sent + 1)
    BY <1>3, AsyncAssumption DEF Accept, Capacity, AsyncInv, AsyncTypeOK
  <2>2. Abstract!Put(sent + 1)
    BY <1>0, <2>1, WriteIsPut
  <2>3. Box!Post(sent + 1)
    BY <1>3, <2>2 DEF Accept, Signal, loopVars, Abstract!Put, Box!Post
  <2> QED BY <2>1, <2>3
<1>4. CASE Bind
  <2>1. length = 0 /\ length' = 0
    BY <1>4 DEF Bind, AsyncInv, NothingBeforeBind
  <2>2. Contents' = Contents
    BY <2>1 DEF Contents
  <2> QED BY <1>4, <2>2 DEF Bind, loopVars, Box!Bound
<1>5. ASSUME UNCHANGED queueVars
      PROVE  Contents' = Contents
  BY <1>5 DEF queueVars, Contents, Slot
<1>6. CASE Drain
  BY <1>5, <1>6 DEF Drain
<1>7. CASE Close
  BY <1>5, <1>7 DEF Close, loopVars, Box!Closes
<1>8. CASE CloseCallback
  BY <1>5, <1>8 DEF CloseCallback, loopVars, Box!Closed
<1>9. ASSUME NEW s \in Senders, Overflow(s)
      PROVE  UNCHANGED Box!mailboxVars
  BY <1>5, <1>9 DEF Overflow, loopVars
<1>10. CASE UNCHANGED asyncVars
  BY <1>5, <1>10 DEF asyncVars, loopVars
<1> QED BY <1>1, <1>2, <1>3, <1>4, <1>6, <1>7, <1>8, <1>9, <1>10 DEF AsyncNext, Send

(* To its owner the async is the mailbox, for every size of its queue and  *)
(* every number of sending threads: what Socket, Server and Discovery take *)
(* their asyncs to be.                                                     *)
THEOREM AsyncImplementsMailbox == AsyncSafety => ImplementsMailbox
<1>1. AsyncInit => Box!MailboxInit
  BY DEF AsyncInit, QueueInit, Contents, Box!MailboxInit
<1> QED BY <1>1, AsyncInitInv, AsyncNextInv, MailboxStep, PTL
        DEF AsyncSafety, ImplementsMailbox, Box!MailboxSpec

(* For a queue of one entry: while the loop delivers, drain_flag is set,   *)
(* and when it was not set nobody had been waiting.                        *)
DrainFlagSet ==
    /\ handle = "open" /\ pc = "deliver" => drainFlag
    /\ handle = "open" /\ pc = "drain" /\ ~ drainFlag /\ waiting # {} => Capacity = 0

(* With room for one entry every step keeps a waiting sender covered:      *)
(* between two callbacks it waits only while the queue is full, and inside *)
(* a callback only with drain_flag set.                                    *)
LEMMA OneNextInv ==
    ASSUME Size = 1
    PROVE  AsyncInv /\ WaitingMeansFull /\ DrainFlagSet /\ [AsyncNext]_asyncVars
             => WaitingMeansFull' /\ DrainFlagSet'
<1> SUFFICES ASSUME AsyncInv, WaitingMeansFull, DrainFlagSet, [AsyncNext]_asyncVars
             PROVE  WaitingMeansFull' /\ DrainFlagSet'
  OBVIOUS
<1> USE DEF WaitingMeansFull, DrainFlagSet, Capacity, queueVars, loopVars
<1>0. length \in 0 .. 1
  BY DEF AsyncInv, AsyncTypeOK, QueueTypeOK
<1>1. CASE UNCHANGED asyncVars
  BY <1>1 DEF asyncVars
<1>2. CASE Bind
  BY <1>2 DEF Bind, AsyncInv, NothingBeforeBind
<1>3. CASE WakeUp
  <2>1. CASE length = 0
    <3>1. waiting' = {} /\ pc' = "drain"
      BY <1>3, <2>1 DEF WakeUp, TakeNext
    <3> QED BY <3>1
  <2>2. CASE length = 1
    <3>1. DrainDue
      BY <2>2 DEF DrainDue
    <3>2. drainFlag'
      BY <1>3, <3>1, Zenon DEF WakeUp
    <3>3. pc' = "deliver"
      BY <1>3, <2>2 DEF WakeUp, TakeNext
    <3> QED BY <3>2, <3>3
  <2> QED BY <1>0, <2>1, <2>2
<1>4. CASE Delivered
  BY <1>0, <1>4 DEF Delivered, TakeNext, Read
<1>5. CASE Drain
  BY <1>5 DEF Drain
<1>6. CASE Close \/ CloseCallback
  BY <1>6 DEF Close, CloseCallback
<1>7. ASSUME NEW s \in Senders, Send(s)
      PROVE  WaitingMeansFull' /\ DrainFlagSet'
  BY <1>0, <1>7 DEF Send, Overflow, Accept, Write
<1> QED BY <1>1, <1>2, <1>3, <1>4, <1>5, <1>6, <1>7 DEF AsyncNext

(* A mailbox of one entry, such as close_async, loses no drain callback:   *)
(* between two callbacks a sender waits only while the queue is full.  The *)
(* hypothesis is needed: run async_drain refutes it for two entries.       *)
THEOREM NoDrainLostWithOneEntry ==
    ASSUME Size = 1
    PROVE  AsyncSafety => []WaitingMeansFull
<1>1. AsyncInit => AsyncInv /\ WaitingMeansFull /\ DrainFlagSet
  BY AsyncInitInv DEF AsyncInit, WaitingMeansFull, DrainFlagSet
<1>2. AsyncInv /\ [AsyncNext]_asyncVars => AsyncInv'
  BY AsyncNextInv
<1>3. AsyncInv /\ WaitingMeansFull /\ DrainFlagSet /\ [AsyncNext]_asyncVars
        => WaitingMeansFull' /\ DrainFlagSet'
  BY OneNextInv
<1> QED BY <1>1, <1>2, <1>3, PTL DEF AsyncSafety
=============================================================================
