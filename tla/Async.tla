------------------------------- MODULE Async --------------------------------
(***************************************************************************)
(* The cross-thread mailbox of src/async (cobra_async_t).  Any thread may  *)
(* call cobra_async_send; the thread of the event loop runs                *)
(* cobra__async_send_callback.  Both take the mutex of the async, so the   *)
(* steps here are the sections between a lock and the unlock that follows. *)
(*                                                                         *)
(* External: uv_async_send marks the handle and wakes the loop (several    *)
(* marks may be merged into one callback), and a handle being closed gets  *)
(* no further send callback, only its close callback.                      *)
(*                                                                         *)
(* Every owner of a mailbox sets a send_callback before it binds it, so    *)
(* the branch of cobra__async_send_callback without one is left out.       *)
(*                                                                         *)
(* Entries are numbered in the order in which they are accepted.           *)
(***************************************************************************)
EXTENDS Queue

CONSTANTS
    Senders,    \* threads calling cobra_async_send
    MaxSends    \* bound on the number of accepted entries

ASSUME AsyncAssumption ==
    /\ MaxSends \in Nat
    /\ Data = 1 .. MaxSends

VARIABLES
    handle,     \* the uv_async_t: "unbound", "open", "closing", "closed"
    pending,    \* uv_async_send was called since the last send callback
    pc,         \* loop thread: "idle", "deliver" or "drain"
    hand,       \* the entry passed to send_callback
    drainFlag,  \* drain_flag of cobra__async_send_callback
    waiting,    \* senders told FULL or OVERFLOW since the last drain_callback
    sent,       \* entries accepted so far
    done        \* entries whose send_callback has returned

loopVars == <<pc, hand, drainFlag, done>>
asyncVars == <<queueVars, handle, pending, loopVars, waiting, sent>>

AsyncTypeOK ==
    /\ QueueTypeOK
    /\ handle \in {"unbound", "open", "closing", "closed"}
    /\ pending \in BOOLEAN
    /\ pc \in {"idle", "deliver", "drain"}
    /\ hand \in Data \cup {Garbage}
    /\ drainFlag \in BOOLEAN
    /\ waiting \in SUBSET Senders
    /\ sent \in 0 .. MaxSends
    /\ done \in 0 .. MaxSends
-----------------------------------------------------------------------------
(* Faults that the properties below must catch, used by the mutation runs. *)
SignalWhenFull == pending' = (pending \/ length' = Size)

DrainDueAfterRead == length' = Size

TakeNextUnlessEmptied ==
    /\ Read
    /\ IF length <= 1
       THEN pc' = "drain" /\ UNCHANGED hand
       ELSE pc' = "deliver" /\ hand' = slots[read]
-----------------------------------------------------------------------------
(* cobra_async_init *)
AsyncInit ==
    /\ QueueInit
    /\ handle = "unbound"
    /\ pending = FALSE
    /\ pc = "idle"
    /\ hand = Garbage
    /\ drainFlag = FALSE
    /\ waiting = {}
    /\ sent = 0
    /\ done = 0

(* cobra_async_bind *)
Bind ==
    /\ handle = "unbound"
    /\ handle' = "open"
    /\ Clear
    /\ UNCHANGED <<length, slots, pending, loopVars, waiting, sent>>

(* uv_async_send: also called, without effect, on a handle being closed. *)
Signal == pending' = TRUE

(* cobra_async_send: the entry is refused by a full queue (OVERFLOW); the  *)
(* sender that is refused, or that fills the queue (FULL), is owed a drain *)
(* callback.  It may go on sending without waiting for it.                 *)
Overflow(s) ==
    /\ Capacity = 0
    /\ waiting' = waiting \cup {s}
    /\ UNCHANGED <<queueVars, handle, pending, loopVars, sent>>

Accept(s) ==
    /\ Capacity > 0
    /\ sent < MaxSends
    /\ Write(sent + 1)
    /\ Signal
    /\ sent' = sent + 1
    /\ waiting' = IF Size = length' THEN waiting \cup {s} ELSE waiting
    /\ UNCHANGED <<handle, loopVars>>

Send(s) ==
    /\ handle # "unbound"
    /\ Overflow(s) \/ Accept(s)

(* The loop of cobra__async_send_callback, under the mutex: the next entry *)
(* is taken and its send_callback starts, or the loop ends.                *)
TakeNext ==
    /\ Read
    /\ IF length = 0
       THEN pc' = "drain" /\ UNCHANGED hand
       ELSE pc' = "deliver" /\ hand' = Front

(* drain_flag, sampled once, before the loop. *)
DrainDue == Capacity = 0

(* cobra__async_send_callback is entered. *)
WakeUp ==
    /\ handle = "open"
    /\ pending
    /\ pc = "idle"
    /\ pending' = FALSE
    /\ TakeNext
    /\ drainFlag' = DrainDue
    /\ UNCHANGED <<handle, waiting, sent, done>>

(* send_callback returns; the loop locks the mutex and looks again. *)
Delivered ==
    /\ pc = "deliver"
    /\ done' = done + 1
    /\ TakeNext
    /\ UNCHANGED <<handle, pending, drainFlag, waiting, sent>>

(* cobra__async_send_callback ends, with drain_callback if it is due. *)
Drain ==
    /\ pc = "drain"
    /\ pc' = "idle"
    /\ waiting' = IF drainFlag THEN {} ELSE waiting
    /\ UNCHANGED <<queueVars, handle, pending, hand, drainFlag, sent, done>>

(* cobra_async_close is called by the loop thread, from a callback of      *)
(* another handle or from the send_callback of this one (close_async).     *)
Close ==
    /\ handle = "open"
    /\ pc \in {"idle", "deliver"}
    /\ handle' = "closing"
    /\ UNCHANGED <<queueVars, pending, loopVars, waiting, sent>>

(* cobra__async_close_callback *)
CloseCallback ==
    /\ handle = "closing"
    /\ pc = "idle"
    /\ handle' = "closed"
    /\ UNCHANGED <<queueVars, pending, loopVars, waiting, sent>>

AsyncNext ==
    \/ Bind \/ WakeUp \/ Delivered \/ Drain \/ Close \/ CloseCallback
    \/ \E s \in Senders : Send(s)

(* The event loop keeps running its callbacks. *)
AsyncFairness ==
    /\ WF_asyncVars(WakeUp)
    /\ WF_asyncVars(Delivered)
    /\ WF_asyncVars(Drain)

AsyncSafety == AsyncInit /\ [][AsyncNext]_asyncVars
AsyncSpec == AsyncSafety /\ AsyncFairness
-----------------------------------------------------------------------------
(* Is an entry in the hand of the send callback? *)
InHand == IF pc = "deliver" THEN 1 ELSE 0

(* Entries reach send_callback in the order in which cobra_async_send      *)
(* accepted them, none lost, none twice, although the mutex is released    *)
(* around every callback and senders write while the loop drains.          *)
InOrder ==
    /\ sent = done + InHand + length
    /\ pc = "deliver" => hand = done + 1
    /\ \A i \in 1 .. length : Contents[i] = done + InHand + i

(* uv_async_send merges signals: still, unless the loop is about to look   *)
(* at the queue again, an entry in it has a callback on its way.           *)
NoLostWakeup ==
    handle = "open" /\ length > 0 /\ pc # "deliver" => pending

(* Seen by its owner the ring buffer, the two sections under the mutex and *)
(* the merged signals are one mailbox: no send that comes between two      *)
(* reads, or between the callback and a close, shows in another way.       *)
Box == INSTANCE Mailbox WITH
    None <- Garbage,
    box <- Contents,
    due <- pending,
    taken <- IF pc = "deliver" THEN hand ELSE Garbage
ImplementsMailbox == Box!MailboxSpec

(* Every accepted entry is delivered, unless the mailbox is closed.        *)
EventuallyDelivered ==
    \A k \in Data : sent >= k ~> (done >= k \/ handle \in {"closing", "closed"})

(* A sender told FULL or OVERFLOW is released by a drain callback, unless  *)
(* the mailbox is closed.                                                  *)
DrainReachesWaiting ==
    \A s \in Senders :
        s \in waiting ~> (s \notin waiting \/ handle \in {"closing", "closed"})

(* Between two callbacks a sender waits only while the queue is full, so   *)
(* that the next send callback samples drain_flag = true and releases it.  *)
(* True of a queue of one entry, the close_async of every component.       *)
WaitingMeansFull ==
    handle = "open" /\ pc = "idle" /\ waiting # {} => Capacity = 0
=============================================================================
