---------------------------- MODULE SocketProofs ----------------------------
(***************************************************************************)
(* The life of a socket, for every set of users and of writes and every    *)
(* size of the write queue: closing is never a dead end, the close report  *)
(* is the end of everything, the callbacks follow the user's view, and the *)
(* two asyncs are used as the mailboxes they are.                          *)
(***************************************************************************)
EXTENDS Socket, SequenceTheorems, TLAPS

(* The handles move together: not initialised, open, or being closed. *)
Uninit == \A h \in Handles : handle[h] = "uninit"
Opened == \A h \in Handles : handle[h] = "open"
Closing == \A h \in Handles : handle[h] \in {"closing", "closed"}

HandlesTogether ==
    /\ IF loop = "none" THEN Uninit ELSE Opened \/ Closing
    /\ loop \in {"start", "write"} => Opened
    /\ loop = "close" => \A h \in Handles : handle[h] # "closed"

(* What sock->state says about the thread and the connection. *)
StateFits ==
    /\ (state = "CLOSED") <=> (loop = "none")
    /\ loop = "none" => posting = {} /\ closeQ = << >>
    /\ state = "CONNECTED" => connects = 1

(* At most one lookup, then at most one connection attempt, then at most   *)
(* one connection.                                                         *)
OneAttempt ==
    /\ connects \in 0 .. 1
    /\ loop \in {"none", "start"} => lookup = "none" /\ dial = "none" /\ connects = 0
    /\ lookup # "none" => dial = "none" /\ connects = 0
    /\ dial = "active" => connects = 0 /\ handle["tcp"] # "closed"
    /\ dial = "late" => connects = 0 /\ Closing

(* The closed handles are counted, and the last one reports. *)
ClosedOne(h) == IF handle[h] = "closed" THEN 1 ELSE 0

CountsHandles ==
    /\ Closing => closedCount = ClosedOne("tcp") + ClosedOne("timer") + ClosedOne("check_timer")
                                  + ClosedOne("write_async") + ClosedOne("close_async")
    /\ Closing => closeError # None
    /\ reports = IF Closing /\ closedCount = 5 THEN 1 ELSE 0

(* A context in the queue has been signalled. *)
PostSignalled == closeQ # << >> => closeSig

(* A write is in one place: about to be posted, in the queue, in the hand  *)
(* of the callback, or in flight.                                          *)
WritesPlaced ==
    /\ \A w \in Writes : wr[w] # "none" => connects = 1
    /\ \A i \in 1 .. Len(writeQ) : wr[writeQ[i]] = "queued"
    /\ \A i, j \in 1 .. Len(writeQ) : writeQ[i] = writeQ[j] => i = j
    /\ loop = "write" =>
         wr[hand] = "queued" /\ \A i \in 1 .. Len(writeQ) : writeQ[i] # hand
    /\ \A i \in 1 .. Len(flight) : wr[flight[i]] = "flight"
    /\ \A i, j \in 1 .. Len(flight) : flight[i] = flight[j] => i = j
    /\ flight # << >> => handle["tcp"] # "closed"

SocketInv ==
    /\ SocketTypeOK
    /\ HandlesTogether
    /\ StateFits
    /\ OneAttempt
    /\ CountsHandles
    /\ PostSignalled
    /\ WritesPlaced
    /\ ClosingInProgress

ControlInv ==
    /\ HandlesTogether
    /\ StateFits
    /\ OneAttempt
    /\ CountsHandles
    /\ PostSignalled
    /\ ClosingInProgress

(* After a send on close_async a context is in the queue and is signalled, *)
(* whether it is the one sent or, on overflow, an earlier one.             *)
LEMMA PostIsPending ==
    ASSUME closeQ \in Seq(Errors), Len(closeQ) <= 1, PostSignalled, closeSig \in BOOLEAN,
           NEW error \in Errors, Post(error)
    PROVE  /\ closeQ' \in Seq(Errors) /\ Len(closeQ') <= 1
           /\ closeQ' # << >>
           /\ closeSig'
<1>1. CASE Len(closeQ) = 1
  <2>1. closeQ # << >>
    BY <1>1
  <2> QED BY <1>1, <2>1 DEF Post, PostSignalled
<1>2. CASE Len(closeQ) # 1
  <2>1. Len(closeQ) = 0
    BY <1>2
  <2>2. closeQ' = Append(closeQ, error) /\ closeSig' = TRUE
    BY <1>2 DEF Post
  <2>3. closeQ' \in Seq(Errors) /\ Len(closeQ') = 1
    BY <2>1, <2>2
  <2> QED BY <2>2, <2>3
<1> QED BY <1>1, <1>2

(* Closing from the loop thread: the state is CLOSING, and if it was not   *)
(* so before, a context is pending.                                        *)
LEMMA LoopClosePosts ==
    ASSUME SocketInv, loop # "none", NEW error \in Errors, LoopClose(error)
    PROVE  /\ state' = "CLOSING" /\ posting' = posting
           /\ \/ UNCHANGED <<state, closeQ, closeSig>>
              \/ /\ closeQ' \in Seq(Errors) /\ Len(closeQ') <= 1
                 /\ closeQ' # << >> /\ closeSig'
<1>1. CASE state = "CLOSING"
  BY <1>1 DEF LoopClose, closeVars
<1>2. CASE state # "CLOSING"
  <2>1. state \notin {"CLOSED", "CLOSING"}
    BY <1>2 DEF SocketInv, StateFits
  <2>2. state' = "CLOSING" /\ Post(error) /\ posting' = posting
    BY <2>1 DEF LoopClose
  <2>3. /\ closeQ' \in Seq(Errors) /\ Len(closeQ') <= 1
        /\ closeQ' # << >> /\ closeSig'
    BY <2>2, PostIsPending DEF SocketInv, SocketTypeOK
  <2> QED BY <2>2, <2>3
<1> QED BY <1>1, <1>2

(* Taking the next context or the next write from its queue. *)
LEMMA TakeCloseTypes ==
    ASSUME closeQ \in Seq(Errors), Len(closeQ) <= 1, TakeClose
    PROVE  /\ closeQ' \in Seq(Errors) /\ Len(closeQ') <= 1
           /\ loop' \in {"run", "close"}
           /\ loop' = "close" => hand' \in Errors
<1>1. CASE closeQ = << >>
  BY <1>1 DEF TakeClose
<1>2. CASE closeQ # << >>
  <2>1. Tail(closeQ) \in Seq(Errors) /\ Head(closeQ) \in Errors /\ Len(Tail(closeQ)) = Len(closeQ) - 1
    BY <1>2, HeadTailProperties
  <2> QED BY <1>2, <2>1 DEF TakeClose
<1> QED BY <1>1, <1>2

(* Taking the next write: it is the oldest one queued, and leaves the      *)
(* queue.                                                                  *)
LEMMA TakeWriteFirst ==
    ASSUME writeQ \in Seq(Writes), Len(writeQ) <= QueueSize, TakeWrite
    PROVE  /\ writeQ' \in Seq(Writes) /\ Len(writeQ') <= QueueSize
           /\ \/ loop' = "run" /\ writeQ' = << >>
              \/ /\ loop' = "write"
                 /\ Len(writeQ) > 0 /\ hand' = writeQ[1] /\ hand' \in Writes
                 /\ Len(writeQ') = Len(writeQ) - 1
                 /\ \A i \in 1 .. Len(writeQ') : writeQ'[i] = writeQ[i + 1]
<1>1. CASE writeQ = << >>
  BY <1>1 DEF TakeWrite
<1>2. CASE writeQ # << >>
  <2>1. /\ Tail(writeQ) \in Seq(Writes) /\ Head(writeQ) \in Writes
        /\ Len(Tail(writeQ)) = Len(writeQ) - 1
        /\ \A i \in 1 .. Len(Tail(writeQ)) : Tail(writeQ)[i] = writeQ[i + 1]
    BY <1>2, HeadTailProperties
  <2>2. Len(writeQ) > 0 /\ Head(writeQ) = writeQ[1]
    BY <1>2
  <2>3. loop' = "write" /\ hand' = Head(writeQ) /\ writeQ' = Tail(writeQ)
    BY <1>2 DEF TakeWrite
  <2>4. Len(writeQ) \in Nat /\ QueueSize \in Nat
    BY SocketAssumption
  <2> QED BY <2>1, <2>2, <2>3, <2>4
<1> QED BY <1>1, <1>2

(* Every step preserves the part of the invariant about the control of the *)
(* socket: the state, the handles and the close contexts.                  *)
LEMMA ControlStep == SocketInv /\ [Next]_vars => ControlInv'
<1> SUFFICES ASSUME SocketInv, [Next]_vars
             PROVE  ControlInv'
  OBVIOUS
<1> USE DEF SocketInv, SocketTypeOK, ControlInv, HandlesTogether, Uninit, Opened, Closing, Handles,
            StateFits, OneAttempt, CountsHandles, ClosedOne, PostSignalled, ClosingInProgress,
            Alive, closeVars, writeVars, handleVars, dialVars, TakeClose, TakeWrite
<1>1. CASE Connect
  BY <1>1 DEF Connect
<1>2. CASE Destroy
  BY <1>2 DEF Destroy
<1>3. CASE LookupStarts
  BY <1>3 DEF LookupStarts
<1>4. CASE PeerGone
  <2>1. /\ state' = "CLOSING" /\ posting' = posting
        /\ \/ UNCHANGED <<state, closeQ, closeSig>>
           \/ closeQ' # << >> /\ closeSig'
    <3>1. loop # "none" /\ LoopClose("OK") /\ "OK" \in Errors
      BY <1>4 DEF PeerGone, Errors
    <3> QED BY <3>1, LoopClosePosts
  <2> QED BY <1>4, <2>1 DEF PeerGone
<1>5. CASE Unreachable
  <2>1. /\ state' = "CLOSING" /\ posting' = posting
        /\ \/ UNCHANGED <<state, closeQ, closeSig>>
           \/ closeQ' # << >> /\ closeSig'
    <3>1. loop # "none" /\ LoopClose("UNREACHABLE") /\ "UNREACHABLE" \in Errors
      BY <1>5 DEF Unreachable, Errors
    <3> QED BY <3>1, LoopClosePosts
  <2> QED BY <1>5, <2>1 DEF Unreachable
<1>6. CASE ConnectThread
  BY <1>6 DEF ConnectThread
<1>7. CASE Resolved
  BY <1>7 DEF Resolved
<1>8. CASE ResolveFailed
  <2>1. /\ state' = "CLOSING" /\ posting' = posting
        /\ \/ UNCHANGED <<state, closeQ, closeSig>>
           \/ closeQ' # << >> /\ closeSig'
    <3>1. loop # "none" /\ LoopClose("RESOLVING") /\ "RESOLVING" \in Errors
      BY <1>8 DEF ResolveFailed, Errors
    <3> QED BY <3>1, LoopClosePosts
  <2> QED BY <1>8, <2>1 DEF ResolveFailed
<1>9. CASE ResolveCanceled
  BY <1>9 DEF ResolveCanceled
<1>10. CASE Connected
  BY <1>10 DEF Connected, Dialling
<1>11. CASE ConnectFailed
  <2>1. /\ state' = "CLOSING" /\ posting' = posting
        /\ \/ UNCHANGED <<state, closeQ, closeSig>>
           \/ closeQ' # << >> /\ closeSig'
    <3>1. loop # "none" /\ LoopClose("CONNECTING") /\ "CONNECTING" \in Errors
      BY <1>11 DEF ConnectFailed, Errors
    <3> QED BY <3>1, LoopClosePosts
  <2> QED BY <1>11, <2>1 DEF ConnectFailed, Dialling
<1>12. CASE ConnectCanceled
  BY <1>12 DEF ConnectCanceled
<1>13. CASE CloseWakes
  BY <1>13 DEF CloseWakes
<1>14. CASE CloseHandles
  <2>1. \A h \in Handles : handle'[h] = "closing"
    BY <1>14 DEF CloseHandles
  <2>2. ~ Uninit' /\ ~ Opened' /\ Closing'
    BY <2>1
  <2>3. closedCount' = 0 /\ reports' = 0 /\ closeError' # None
    BY <1>14 DEF CloseHandles, Errors, None
  <2>4. CountsHandles'
    BY <2>1, <2>3
  <2>5. loop' \in {"run", "close"} /\ (loop' = "run" => closeQ' = << >>)
    BY <1>14 DEF CloseHandles
  <2>6. HandlesTogether'
    BY <2>1, <2>2, <2>5
  <2>7. PostSignalled'
    BY <1>14 DEF CloseHandles
  <2>8. StateFits' /\ OneAttempt' /\ ClosingInProgress'
    BY <1>14, <2>1, <2>5 DEF CloseHandles
  <2> QED BY <2>4, <2>6, <2>7, <2>8
<1>15. CASE CloseHandlesAgain
  BY <1>15 DEF CloseHandlesAgain
<1>16. CASE WriteWakes
  BY <1>16 DEF WriteWakes
<1>17. CASE SendFrame
  BY <1>17 DEF SendFrame
<1>18. CASE Written
  BY <1>18 DEF Written
<1>19. CASE WriteFailed
  <2>1. /\ state' = "CLOSING" /\ posting' = posting
        /\ \/ UNCHANGED <<state, closeQ, closeSig>>
           \/ closeQ' # << >> /\ closeSig'
    <3>1. loop # "none" /\ LoopClose("WRITE_ERROR") /\ "WRITE_ERROR" \in Errors
      BY <1>19 DEF WriteFailed, Errors
    <3> QED BY <3>1, LoopClosePosts
  <2> QED BY <1>19, <2>1 DEF WriteFailed
<1>20. CASE LoopEnds
  BY <1>20 DEF LoopEnds
<1>21. ASSUME NEW u \in Users, CloseBegins(u)
      PROVE  ControlInv'
  BY <1>21 DEF CloseBegins
<1>22. ASSUME NEW u \in Users, ClosePosted(u)
      PROVE  ControlInv'
  <2>1. closeQ' # << >> /\ closeSig'
    <3>1. Post("OK") /\ "OK" \in Errors
      BY <1>22 DEF ClosePosted, Errors
    <3> QED BY <3>1, PostIsPending
  <2> QED BY <1>22, <2>1 DEF ClosePosted
<1>23. ASSUME NEW w \in Writes, WriteBegins(w)
      PROVE  ControlInv'
  BY <1>23 DEF WriteBegins
<1>24. ASSUME NEW w \in Writes, WritePosted(w)
      PROVE  ControlInv'
  BY <1>24 DEF WritePosted
<1>25. ASSUME NEW h \in Handles, HandleClosed(h)
      PROVE  ControlInv'
  BY <1>25 DEF HandleClosed, AllClosed
<1>26. CASE UNCHANGED vars
  BY <1>26 DEF vars
<1>27. CASE Accept
  BY <1>27 DEF Accept
<1>28. CASE CancelRefused
  BY <1>28 DEF CancelRefused
<1>29. CASE LateAsserted
  BY <1>29 DEF LateAsserted
<1> QED BY <1>1, <1>2, <1>3, <1>4, <1>5, <1>6, <1>7, <1>8, <1>9, <1>10, <1>11, <1>12, <1>13, <1>14, <1>15, <1>16, <1>17, <1>18, <1>19, <1>20, <1>21, <1>22, <1>23, <1>24, <1>25, <1>26, <1>27, <1>28, <1>29 DEF Next, LoopStep

(* Every step preserves the types.                                         *)
LEMMA TypeStep == SocketInv /\ [Next]_vars => SocketTypeOK'
<1> SUFFICES ASSUME SocketInv, [Next]_vars
             PROVE  SocketTypeOK'
  OBVIOUS
<1> USE DEF SocketInv, SocketTypeOK, closeVars, writeVars, handleVars, dialVars
<1>1. CASE Connect
  BY <1>1 DEF Connect
<1>2. CASE Destroy
  BY <1>2 DEF Destroy
<1>3. CASE LookupStarts
  BY <1>3 DEF LookupStarts
<1>4. CASE PeerGone
  <2>1. loop # "none" /\ LoopClose("OK") /\ "OK" \in Errors
    BY <1>4 DEF PeerGone, Errors
  <2>2. /\ state' = "CLOSING" /\ posting' = posting
        /\ closeQ' \in Seq(Errors) /\ Len(closeQ') <= 1 /\ closeSig' \in BOOLEAN
    BY <2>1, LoopClosePosts
  <2> QED BY <1>4, <2>2 DEF PeerGone
<1>5. CASE Unreachable
  <2>1. loop # "none" /\ LoopClose("UNREACHABLE") /\ "UNREACHABLE" \in Errors
    BY <1>5 DEF Unreachable, Errors
  <2>2. /\ state' = "CLOSING" /\ posting' = posting
        /\ closeQ' \in Seq(Errors) /\ Len(closeQ') <= 1 /\ closeSig' \in BOOLEAN
    BY <2>1, LoopClosePosts
  <2> QED BY <1>5, <2>2 DEF Unreachable
<1>6. CASE ConnectThread
  BY <1>6 DEF ConnectThread
<1>7. CASE Resolved
  BY <1>7 DEF Resolved
<1>8. CASE ResolveFailed
  <2>1. loop # "none" /\ LoopClose("RESOLVING") /\ "RESOLVING" \in Errors
    BY <1>8 DEF ResolveFailed, Errors
  <2>2. /\ state' = "CLOSING" /\ posting' = posting
        /\ closeQ' \in Seq(Errors) /\ Len(closeQ') <= 1 /\ closeSig' \in BOOLEAN
    BY <2>1, LoopClosePosts
  <2> QED BY <1>8, <2>2 DEF ResolveFailed
<1>9. CASE ResolveCanceled
  BY <1>9 DEF ResolveCanceled
<1>10. CASE Connected
  BY <1>10 DEF Connected, Dialling
<1>11. CASE ConnectFailed
  <2>1. loop # "none" /\ LoopClose("CONNECTING") /\ "CONNECTING" \in Errors
    BY <1>11 DEF ConnectFailed, Errors
  <2>2. /\ state' = "CLOSING" /\ posting' = posting
        /\ closeQ' \in Seq(Errors) /\ Len(closeQ') <= 1 /\ closeSig' \in BOOLEAN
    BY <2>1, LoopClosePosts
  <2> QED BY <1>11, <2>2 DEF ConnectFailed
<1>12. CASE ConnectCanceled
  BY <1>12 DEF ConnectCanceled
<1>13. CASE CloseWakes
  <2>1. TakeClose
    BY <1>13 DEF CloseWakes
  <2>2. /\ closeQ' \in Seq(Errors) /\ Len(closeQ') <= 1
        /\ loop' \in {"run", "close"} /\ (loop' = "close" => hand' \in Errors)
    BY <2>1, TakeCloseTypes
  <2>3. closeSig' = FALSE /\ UNCHANGED <<state, posting, writeVars, handleVars, dialVars, freed>>
    BY <1>13 DEF CloseWakes
  <2>4. /\ closeSig' \in BOOLEAN
        /\ loop' \in {"none", "start", "run", "close", "write", "ended",
                     "aborted", "crashed", "asserted"}
        /\ loop' = "write" => hand' \in Writes
    BY <2>2, <2>3
  <2> QED BY <2>2, <2>3, <2>4
<1>14. CASE CloseHandles
  <2>1. TakeClose
    BY <1>14 DEF CloseHandles
  <2>2. /\ closeQ' \in Seq(Errors) /\ Len(closeQ') <= 1
        /\ loop' \in {"run", "close"} /\ (loop' = "close" => hand' \in Errors)
    BY <2>1, TakeCloseTypes
  <2> QED BY <1>14, <2>2 DEF CloseHandles
<1>15. CASE CloseHandlesAgain
  BY <1>15 DEF CloseHandlesAgain
<1>16. CASE WriteWakes
  <2>1. TakeWrite
    BY <1>16 DEF WriteWakes
  <2>2. /\ writeQ' \in Seq(Writes) /\ Len(writeQ') <= QueueSize
        /\ loop' = "run" \/ (loop' = "write" /\ hand' \in Writes)
    BY <2>1, TakeWriteFirst
  <2>3. writeSig' = FALSE /\ UNCHANGED <<state, closeVars, flight, wr, handleVars, dialVars, freed>>
    BY <1>16 DEF WriteWakes
  <2>4. /\ writeSig' \in BOOLEAN
        /\ loop' \in {"none", "start", "run", "close", "write", "ended",
                     "aborted", "crashed", "asserted"}
        /\ loop' = "close" => hand' \in Errors
        /\ loop' = "write" => hand' \in Writes
    BY <2>2, <2>3
  <2> QED BY <2>2, <2>3, <2>4
<1>17. CASE SendFrame
  <2>1. TakeWrite /\ hand \in Writes
    BY <1>17 DEF SendFrame
  <2>2. flight' \in Seq(Writes)
    <3>1. Append(flight, hand) \in Seq(Writes)
      BY <2>1, AppendProperties
    <3> QED BY <1>17, <3>1 DEF SendFrame
  <2>3. wr' \in [Writes -> {"none", "checked", "refused", "queued", "flight",
                          "ok", "dropped", "failed", "lost"}]
    BY <1>17, <2>1 DEF SendFrame
  <2>4. /\ writeQ' \in Seq(Writes) /\ Len(writeQ') <= QueueSize
        /\ loop' = "run" \/ (loop' = "write" /\ hand' \in Writes)
    BY <2>1, TakeWriteFirst
  <2> QED BY <1>17, <2>2, <2>3, <2>4 DEF SendFrame
<1>18. CASE Written
  BY <1>18 DEF Written
<1>19. CASE WriteFailed
  <2>1. loop # "none" /\ LoopClose("WRITE_ERROR") /\ "WRITE_ERROR" \in Errors
    BY <1>19 DEF WriteFailed, Errors
  <2>2. /\ state' = "CLOSING" /\ posting' = posting
        /\ closeQ' \in Seq(Errors) /\ Len(closeQ') <= 1 /\ closeSig' \in BOOLEAN
    BY <2>1, LoopClosePosts
  <2> QED BY <1>19, <2>2 DEF WriteFailed
<1>20. CASE LoopEnds
  BY <1>20 DEF LoopEnds
<1>21. ASSUME NEW u \in Users, CloseBegins(u)
      PROVE  SocketTypeOK'
  BY <1>21 DEF CloseBegins
<1>22. ASSUME NEW u \in Users, ClosePosted(u)
      PROVE  SocketTypeOK'
  <2>1. Post("OK") /\ "OK" \in Errors
    BY <1>22 DEF ClosePosted, Errors
  <2>2. closeQ' \in Seq(Errors) /\ Len(closeQ') <= 1 /\ closeSig' \in BOOLEAN
    BY <2>1, PostIsPending DEF Post
  <2> QED BY <1>22, <2>2 DEF ClosePosted
<1>23. ASSUME NEW w \in Writes, WriteBegins(w)
      PROVE  SocketTypeOK'
  BY <1>23 DEF WriteBegins
<1>24. ASSUME NEW w \in Writes, WritePosted(w)
      PROVE  SocketTypeOK'
  <2>1. CASE Len(writeQ) = QueueSize
    BY <1>24, <2>1 DEF WritePosted
  <2>2. CASE Len(writeQ) # QueueSize
    <3>1. writeQ' = Append(writeQ, w)
      BY <1>24, <2>2 DEF WritePosted
    <3>2. writeQ' \in Seq(Writes) /\ Len(writeQ') = Len(writeQ) + 1
      BY <1>24, <3>1, AppendProperties
    <3>3. Len(writeQ) \in Nat /\ QueueSize \in Nat
      BY SocketAssumption
    <3>4. Len(writeQ') <= QueueSize
      BY <2>2, <3>2, <3>3
    <3>5. wr' \in [Writes -> {"none", "checked", "refused", "queued", "flight",
                            "ok", "dropped", "failed", "lost"}]
      BY <1>24, <2>2 DEF WritePosted
    <3>6. writeSig' = TRUE /\ UNCHANGED <<state, closeVars, flight, loop, hand, handleVars, dialVars, freed>>
      BY <1>24, <2>2 DEF WritePosted
    <3> QED BY <3>2, <3>4, <3>5, <3>6
  <2> QED BY <2>1, <2>2
<1>25. ASSUME NEW h \in Handles, HandleClosed(h)
      PROVE  SocketTypeOK'
  <2>1. Closing
    BY <1>25 DEF HandleClosed, HandlesTogether, Uninit, Opened, Closing
  <2>2. closedCount + 1 \in 0 .. 5
    BY <1>25, <2>1 DEF HandleClosed, CountsHandles, ClosedOne, Handles
  <2> QED BY <1>25, <2>2 DEF HandleClosed
<1>26. CASE UNCHANGED vars
  BY <1>26 DEF vars
<1>27. CASE Accept
  BY <1>27 DEF Accept
<1>28. CASE CancelRefused
  BY <1>28 DEF CancelRefused
<1>29. CASE LateAsserted
  BY <1>29 DEF LateAsserted
<1> QED BY <1>1, <1>2, <1>3, <1>4, <1>5, <1>6, <1>7, <1>8, <1>9, <1>10, <1>11, <1>12, <1>13, <1>14, <1>15, <1>16, <1>17, <1>18, <1>19, <1>20, <1>21, <1>22, <1>23, <1>24, <1>25, <1>26, <1>27, <1>28, <1>29 DEF Next, LoopStep


(* Every step keeps each accepted write in exactly one place: the queue,   *)
(* the hand of the loop, or in flight.                                     *)
LEMMA WritesStep == SocketInv /\ [Next]_vars => WritesPlaced'
<1> SUFFICES ASSUME SocketInv, [Next]_vars
             PROVE  WritesPlaced'
  OBVIOUS
<1> USE DEF SocketInv, SocketTypeOK, WritesPlaced, StateFits, OneAttempt, HandlesTogether, Opened, closeVars, writeVars, handleVars, dialVars
<1>1. CASE Connect
  BY <1>1 DEF Connect
<1>2. CASE Destroy
  BY <1>2 DEF Destroy
<1>3. CASE LookupStarts
  BY <1>3 DEF LookupStarts
<1>4. CASE PeerGone
  BY <1>4 DEF PeerGone
<1>5. CASE Unreachable
  BY <1>5 DEF Unreachable
<1>6. CASE ConnectThread
  BY <1>6 DEF ConnectThread
<1>7. CASE Resolved
  BY <1>7 DEF Resolved
<1>8. CASE ResolveFailed
  BY <1>8 DEF ResolveFailed
<1>9. CASE ResolveCanceled
  BY <1>9 DEF ResolveCanceled
<1>10. CASE Connected
  BY <1>10 DEF Connected, Dialling
<1>11. CASE ConnectFailed
  BY <1>11 DEF ConnectFailed, Dialling
<1>12. CASE ConnectCanceled
  BY <1>12 DEF ConnectCanceled
<1>13. CASE CloseWakes
  BY <1>13 DEF CloseWakes, TakeClose
<1>14. CASE CloseHandles
  BY <1>14 DEF CloseHandles, TakeClose, Handles
<1>15. CASE CloseHandlesAgain
  BY <1>15 DEF CloseHandlesAgain
<1>16. CASE WriteWakes
  <2>1. TakeWrite /\ UNCHANGED <<wr, flight, handle, connects>>
    BY <1>16 DEF WriteWakes
  <2>2. CASE loop' = "run" /\ writeQ' = << >>
    BY <2>1, <2>2
  <2>3. CASE loop' = "write"
    <3>1. /\ Len(writeQ) > 0 /\ hand' = writeQ[1]
          /\ Len(writeQ') = Len(writeQ) - 1
          /\ \A i \in 1 .. Len(writeQ') : writeQ'[i] = writeQ[i + 1]
      BY <2>1, <2>3, TakeWriteFirst
    <3>2. Len(writeQ) \in Nat
      OBVIOUS
    <3>3. \A i \in 1 .. Len(writeQ') : i + 1 \in 1 .. Len(writeQ) /\ i + 1 # 1
      BY <3>1, <3>2
    <3>4. \A i \in 1 .. Len(writeQ') : wr'[writeQ'[i]] = "queued" /\ writeQ'[i] # hand'
      <4> SUFFICES ASSUME NEW i \in 1 .. Len(writeQ')
                   PROVE  wr'[writeQ'[i]] = "queued" /\ writeQ'[i] # hand'
        OBVIOUS
      <4>1. i + 1 \in 1 .. Len(writeQ) /\ 1 \in 1 .. Len(writeQ) /\ i + 1 # 1
        BY <3>1, <3>2, <3>3
      <4>2. wr[writeQ[i + 1]] = "queued" /\ writeQ[i + 1] # writeQ[1]
        BY <4>1
      <4> QED BY <2>1, <3>1, <4>2
    <3>5. \A i, j \in 1 .. Len(writeQ') : writeQ'[i] = writeQ'[j] => i = j
      <4> SUFFICES ASSUME NEW i \in 1 .. Len(writeQ'), NEW j \in 1 .. Len(writeQ'),
                          writeQ'[i] = writeQ'[j]
                   PROVE  i = j
        OBVIOUS
      <4>1. i + 1 = j + 1
        BY <3>1, <3>3
      <4> QED BY <4>1
    <3>6. wr'[hand'] = "queued"
      BY <2>1, <3>1, <3>2
    <3> QED BY <2>1, <3>4, <3>5, <3>6
  <2> QED BY <2>1, <2>2, <2>3, TakeWriteFirst
<1>17. CASE SendFrame
  <2>1. /\ loop = "write"
        /\ TakeWrite /\ hand \in Writes /\ wr[hand] = "queued"
        /\ handle["tcp"] = "open" /\ UNCHANGED <<handle, connects>>
    BY <1>17 DEF SendFrame, Handles
  <2>2. /\ writeQ' \in Seq(Writes)
        /\ \/ loop' = "run" /\ writeQ' = << >>
           \/ /\ loop' = "write"
              /\ Len(writeQ) > 0 /\ hand' = writeQ[1] /\ hand' \in Writes
              /\ Len(writeQ') = Len(writeQ) - 1
              /\ \A i \in 1 .. Len(writeQ') : writeQ'[i] = writeQ[i + 1]
    BY <2>1, TakeWriteFirst
  <2>3. \A w \in Writes : w # hand => wr'[w] = wr[w]
    BY <1>17 DEF SendFrame
  <2>4. /\ \A i \in 1 .. Len(writeQ') : wr'[writeQ'[i]] = "queued"
        /\ \A i, j \in 1 .. Len(writeQ') : writeQ'[i] = writeQ'[j] => i = j
        /\ loop' = "write" =>
             wr'[hand'] = "queued" /\ \A i \in 1 .. Len(writeQ') : writeQ'[i] # hand'
    <3>1. CASE loop' = "run" /\ writeQ' = << >>
      BY <3>1
    <3>2. CASE loop' = "write"
      <4>1. Len(writeQ) \in Nat
        OBVIOUS
      <4>2. \A i \in 1 .. Len(writeQ') : i + 1 \in 1 .. Len(writeQ) /\ i + 1 # 1
        BY <2>2, <3>2, <4>1
      <4>3. \A i \in 1 .. Len(writeQ) :
              writeQ[i] \in Writes /\ writeQ[i] # hand /\ wr'[writeQ[i]] = "queued"
        BY <2>1, <2>3
      <4>4. \A i \in 1 .. Len(writeQ') : wr'[writeQ'[i]] = "queued" /\ writeQ'[i] # hand'
        BY <2>2, <3>2, <4>1, <4>2, <4>3
      <4>5. wr'[hand'] = "queued"
        BY <2>2, <3>2, <4>1, <4>3
      <4>6. \A i, j \in 1 .. Len(writeQ') : writeQ'[i] = writeQ'[j] => i = j
        <5> SUFFICES ASSUME NEW i \in 1 .. Len(writeQ'), NEW j \in 1 .. Len(writeQ'),
                            writeQ'[i] = writeQ'[j]
                     PROVE  i = j
          OBVIOUS
        <5>1. i + 1 = j + 1
          BY <2>2, <3>2, <4>2
        <5> QED BY <5>1
      <4> QED BY <4>4, <4>5, <4>6
    <3> QED BY <2>2, <3>1, <3>2
  <2>5. \A i \in 1 .. Len(flight) : flight[i] \in Writes /\ flight[i] # hand
    BY <2>1
  <2>6. /\ \A i \in 1 .. Len(flight') : wr'[flight'[i]] = "flight"
        /\ \A i, j \in 1 .. Len(flight') : flight'[i] = flight'[j] => i = j
    <3>1. CASE flight' = flight
      BY <2>3, <2>5, <3>1
    <3>2. CASE flight' # flight
      <4>1. flight' = Append(flight, hand) /\ wr'[hand] = "flight"
        BY <1>17, <2>1, <3>2 DEF SendFrame
      <4>2. /\ Len(flight') = Len(flight) + 1 /\ flight'[Len(flight) + 1] = hand
            /\ \A i \in 1 .. Len(flight) : flight'[i] = flight[i]
        BY <2>1, <4>1, AppendProperties
      <4>3. Len(flight) \in Nat
        OBVIOUS
      <4> QED BY <2>3, <2>5, <4>1, <4>2, <4>3
    <3> QED BY <3>1, <3>2
  <2>7. \A w \in Writes : wr'[w] # "none" => connects' = 1
    BY <2>1, <2>3
  <2> QED BY <2>1, <2>4, <2>6, <2>7
<1>18. CASE Written
  BY <1>18 DEF Written
<1>19. CASE WriteFailed
  BY <1>19 DEF WriteFailed
<1>20. CASE LoopEnds
  BY <1>20 DEF LoopEnds
<1>21. ASSUME NEW u \in Users, CloseBegins(u)
      PROVE  WritesPlaced'
  BY <1>21 DEF CloseBegins
<1>22. ASSUME NEW u \in Users, ClosePosted(u)
      PROVE  WritesPlaced'
  BY <1>22 DEF ClosePosted
<1>23. ASSUME NEW w \in Writes, WriteBegins(w)
      PROVE  WritesPlaced'
  BY <1>23 DEF WriteBegins
<1>24. ASSUME NEW w \in Writes, WritePosted(w)
      PROVE  WritesPlaced'
  <2>1. /\ wr[w] = "checked" /\ \A v \in Writes : v # w => wr'[v] = wr[v]
        /\ UNCHANGED <<flight, loop, hand, handle, connects>>
    BY <1>24 DEF WritePosted
  <2>2. CASE Len(writeQ) = QueueSize
    BY <1>24, <2>1, <2>2 DEF WritePosted
  <2>3. CASE Len(writeQ) # QueueSize
    <3>1. writeQ' = Append(writeQ, w) /\ wr'[w] = "queued"
      BY <1>24, <2>3 DEF WritePosted
    <3>2. /\ Len(writeQ') = Len(writeQ) + 1 /\ writeQ'[Len(writeQ) + 1] = w
          /\ \A i \in 1 .. Len(writeQ) : writeQ'[i] = writeQ[i]
      BY <1>24, <3>1, AppendProperties
    <3>3. \A i \in 1 .. Len(writeQ) : writeQ[i] \in Writes /\ writeQ[i] # w
      BY <2>1
    <3>4. \A i \in 1 .. Len(flight) : flight[i] \in Writes /\ flight[i] # w
      BY <2>1
    <3>5. Len(writeQ) \in Nat
      OBVIOUS
    <3>6. \A i \in 1 .. Len(writeQ') : i \in 1 .. Len(writeQ) \/ i = Len(writeQ) + 1
      BY <3>2, <3>5
    <3>7. \A i \in 1 .. Len(writeQ') : wr'[writeQ'[i]] = "queued"
      BY <2>1, <3>1, <3>2, <3>3, <3>6
    <3>8. \A i, j \in 1 .. Len(writeQ') : writeQ'[i] = writeQ'[j] => i = j
      <4>1. \A i, j \in 1 .. Len(writeQ) : writeQ[i] = writeQ[j] => i = j
        OBVIOUS
      <4> HIDE DEF SocketInv, SocketTypeOK, WritesPlaced
      <4> QED BY <3>2, <3>3, <3>6, <4>1
    <3>9. loop' = "write" =>
            wr'[hand'] = "queued" /\ \A i \in 1 .. Len(writeQ') : writeQ'[i] # hand'
      <4> SUFFICES ASSUME loop = "write"
                   PROVE  wr'[hand] = "queued" /\ \A i \in 1 .. Len(writeQ') : writeQ'[i] # hand
        BY <2>1
      <4>1. hand \in Writes /\ hand # w
        BY <2>1
      <4> QED BY <2>1, <3>2, <3>6, <4>1
    <3>10. \A i \in 1 .. Len(flight') : wr'[flight'[i]] = "flight"
      BY <2>1, <3>4
    <3>11. \A v \in Writes : wr'[v] # "none" => connects' = 1
      BY <2>1
    <3>12. \A i, j \in 1 .. Len(flight') : flight'[i] = flight'[j] => i = j
      BY <2>1
    <3>13. flight' # << >> => handle'["tcp"] # "closed"
      BY <2>1
    <3> HIDE DEF SocketInv, SocketTypeOK
    <3> QED BY <3>7, <3>8, <3>9, <3>10, <3>11, <3>12, <3>13
  <2> QED BY <2>2, <2>3
<1>25. ASSUME NEW h \in Handles, HandleClosed(h)
      PROVE  WritesPlaced'
  BY <1>25 DEF HandleClosed
<1>26. CASE UNCHANGED vars
  BY <1>26 DEF vars
<1>27. CASE Accept
  BY <1>27 DEF Accept
<1>28. CASE CancelRefused
  BY <1>28 DEF CancelRefused
<1>29. CASE LateAsserted
  BY <1>29 DEF LateAsserted
<1> QED BY <1>1, <1>2, <1>3, <1>4, <1>5, <1>6, <1>7, <1>8, <1>9, <1>10, <1>11, <1>12, <1>13, <1>14, <1>15, <1>16, <1>17, <1>18, <1>19, <1>20, <1>21, <1>22, <1>23, <1>24, <1>25, <1>26, <1>27, <1>28, <1>29 DEF Next, LoopStep

(* cobra_socket_create establishes the invariant.                          *)
LEMMA SocketInitInv == Init => SocketInv
<1> SUFFICES ASSUME Init
             PROVE  SocketInv
  OBVIOUS
<1> USE DEF Init, SocketInv, SocketTypeOK, HandlesTogether, Uninit, Opened, Closing, Handles,
            StateFits, OneAttempt, CountsHandles, PostSignalled, WritesPlaced, ClosingInProgress
<1>1. SocketTypeOK
  <2>1. << >> \in Seq(Errors) /\ << >> \in Seq(Writes) /\ Len(<< >>) = 0
    OBVIOUS
  <2>2. posting \subseteq Users /\ freed \in BOOLEAN /\ closeSig \in BOOLEAN /\ writeSig \in BOOLEAN
    OBVIOUS
  <2>3. Len(writeQ) <= QueueSize
    BY SocketAssumption
  <2> QED BY <2>1, <2>2, <2>3
<1>2. HandlesTogether /\ StateFits /\ OneAttempt /\ PostSignalled /\ ClosingInProgress
  OBVIOUS
<1>3. CountsHandles /\ WritesPlaced
  OBVIOUS
<1> QED BY <1>1, <1>2, <1>3

(* Every step of the socket preserves the invariant.                       *)
LEMMA SocketNextInv == SocketInv /\ [Next]_vars => SocketInv'
  BY TypeStep, ControlStep, WritesStep DEF SocketInv, ControlInv

(* Once all handles are closed nothing is left to call back. *)
LEMMA ReportIsLast == SocketInv => ReportAfterAll
<1> SUFFICES ASSUME SocketInv, reports > 0
             PROVE  /\ reports = 1
                    /\ \A h \in Handles : handle[h] = "closed"
                    /\ dial # "active" /\ flight = << >>
                    /\ closeError # None
                    /\ loop \notin {"close", "write"}
  BY DEF ReportAfterAll
<1>1. Closing /\ closedCount = 5 /\ reports = 1 /\ closeError # None
  BY DEF SocketInv, CountsHandles
<1>2. \A h \in Handles : handle[h] = "closed"
  BY <1>1 DEF SocketInv, CountsHandles, ClosedOne, Handles
<1>3. handle["tcp"] = "closed"
  BY <1>2 DEF Handles
<1>4. dial # "active" /\ flight = << >>
  BY <1>3 DEF SocketInv, OneAttempt, WritesPlaced
<1>5. loop \notin {"close", "write"}
  BY <1>3 DEF SocketInv, HandlesTogether, Opened, Handles
<1> QED BY <1>1, <1>2, <1>4, <1>5

(* A socket is type correct, CLOSING is never a dead end, and the close    *)
(* report comes once, after everything is closed and cancelled; what is    *)
(* left, if anything, is a lookup or what it starts on the closed handle.  *)
THEOREM SocketSafe == Safety => [](SocketTypeOK /\ ClosingInProgress /\ ReportAfterAll)
<1>1. SocketInv => SocketTypeOK /\ ClosingInProgress
  BY DEF SocketInv
<1> QED BY <1>1, SocketInitInv, SocketNextInv, ReportIsLast, PTL DEF Safety

Answered == {w \in Writes : wr[w] \in {"ok", "dropped"}}

(* The step in which each callback of the user runs. *)
LEMMA UserViewStep ==
    SocketInv /\ [Next]_vars => [View!UserNext]_<<loop # "none", dial = "late", connects, Answered, reports>>
<1> SUFFICES ASSUME SocketInv, [Next]_vars
             PROVE  \/ View!UserNext
                    \/ UNCHANGED <<loop # "none", dial = "late", connects, Answered, reports>>
  BY Zenon
<1> USE DEF closeVars, writeVars, handleVars, dialVars
<1>1. CASE Connect
  <2>1. loop = "none" /\ loop' # "none" /\ UNCHANGED <<dial, connects, Answered, reports>>
    BY <1>1 DEF Connect, Answered, SocketInv, StateFits
  <2>2. View!Open
    BY <2>1 DEF View!Open, Answered
  <2> QED BY <2>2 DEF View!UserNext
<1>2. CASE Connected
  <2>1. /\ loop # "none" /\ loop' # "none" /\ UNCHANGED <<Answered, reports>>
        /\ connects = 0 /\ connects' = 1 /\ dial' = "none"
    BY <1>2 DEF Connected, Dialling, Answered, SocketInv, OneAttempt
  <2>2. reports = 0 \/ dial = "late"
    BY <1>2 DEF Connected, Dialling, SocketInv, CountsHandles, Closing, Handles
  <2>3. View!ConnectCalled
    BY <2>1, <2>2 DEF View!ConnectCalled, Answered
  <2> QED BY <2>3 DEF View!UserNext
<1>3. CASE SendFrame
  <2>1. /\ hand \in Writes /\ wr[hand] = "queued" /\ connects = 1
        /\ loop # "none" /\ loop' # "none" /\ UNCHANGED <<dial, connects, reports>>
    BY <1>3 DEF SendFrame, TakeWrite, SocketInv, SocketTypeOK, WritesPlaced
  <2>2. reports = 0
    BY <1>3 DEF SendFrame, SocketInv, HandlesTogether, Opened, CountsHandles, Closing, Handles
  <2>3. CASE state = "CLOSING"
    <3>1. wr' = [wr EXCEPT ![hand] = "dropped"]
      BY <1>3, <2>3 DEF SendFrame
    <3>2. hand \notin Answered /\ Answered' = Answered \cup {hand}
      BY <2>1, <3>1 DEF Answered, SocketInv, SocketTypeOK
    <3>3. \E w \in Writes : View!WriteCalled(w)
      BY <2>1, <2>2, <3>2 DEF View!WriteCalled, Answered
    <3> QED BY <3>3 DEF View!UserNext
  <2>4. CASE state # "CLOSING"
    <3>1. \E to \in {"flight", "lost"} : wr' = [wr EXCEPT ![hand] = to]
      BY <1>3, <2>4 DEF SendFrame
    <3>2. Answered' = Answered
      BY <2>1, <3>1 DEF Answered, SocketInv, SocketTypeOK
    <3> QED BY <2>1, <3>2
  <2> QED BY <2>3, <2>4
<1>4. CASE Written
  <2>1. /\ Head(flight) \in Writes /\ wr[Head(flight)] = "flight"
        /\ wr' = [wr EXCEPT ![Head(flight)] = "ok"]
        /\ loop # "none" /\ loop' # "none" /\ UNCHANGED <<dial, connects, reports>>
    <3>1. flight # << >> /\ flight \in Seq(Writes)
      BY <1>4 DEF Written, SocketInv, SocketTypeOK
    <3>2. 1 \in 1 .. Len(flight) /\ Head(flight) = flight[1] /\ Head(flight) \in Writes
      BY <3>1
    <3> QED BY <1>4, <3>2 DEF Written, SocketInv, WritesPlaced
  <2>2. connects = 1
    BY <2>1 DEF SocketInv, WritesPlaced
  <2>3. reports = 0
    <3>1. handle["tcp"] # "closed"
      BY <1>4 DEF Written
    <3>2. ClosedOne("tcp") = 0
      BY <3>1 DEF ClosedOne
    <3>3. \A h \in Handles : ClosedOne(h) \in 0 .. 1
      BY DEF ClosedOne
    <3>4. Closing => closedCount # 5
      BY <3>2, <3>3 DEF SocketInv, CountsHandles, Handles
    <3> QED BY <3>4 DEF SocketInv, CountsHandles
  <2>4. Head(flight) \notin Answered /\ Answered' = Answered \cup {Head(flight)}
    BY <2>1 DEF Answered, SocketInv, SocketTypeOK
  <2>5. \E w \in Writes : View!WriteCalled(w)
    BY <2>1, <2>2, <2>3, <2>4 DEF View!WriteCalled, Answered
  <2> QED BY <2>5 DEF View!UserNext
<1>5. ASSUME NEW h \in Handles, HandleClosed(h)
      PROVE  View!UserNext \/ UNCHANGED <<loop # "none", dial = "late", connects, Answered, reports>>
  <2>1. loop # "none" /\ loop' # "none" /\ UNCHANGED <<dial, connects, Answered>>
    BY <1>5 DEF HandleClosed, Answered
  <2>2. CASE closedCount' = 5
    <3>1. closedCount # 5
      BY <1>5, <2>2 DEF HandleClosed, AllClosed, SocketInv, SocketTypeOK
    <3>2. reports = 0 /\ reports' = 1
      BY <1>5, <2>2, <3>1 DEF HandleClosed, AllClosed, SocketInv, CountsHandles
    <3>3. View!CloseCalled
      BY <2>1, <3>2 DEF View!CloseCalled, Answered
    <3> QED BY <3>3 DEF View!UserNext
  <2>3. CASE closedCount' # 5
    BY <1>5, <2>1, <2>3 DEF HandleClosed, AllClosed
  <2> QED BY <2>2, <2>3
<1>6. CASE Destroy
  BY <1>6 DEF Destroy, Answered, Alive
<1>7. CASE LookupStarts
  BY <1>7 DEF LookupStarts, Answered, Alive
<1>8. CASE PeerGone
  BY <1>8 DEF PeerGone, Answered, Alive
<1>9. CASE Unreachable
  BY <1>9 DEF Unreachable, Answered, Alive
<1>10. CASE ConnectThread
  BY <1>10 DEF ConnectThread, Answered, Alive
<1>11. CASE Resolved
  <2>1. /\ loop # "none" /\ loop' = loop /\ UNCHANGED <<connects, Answered, reports>>
        /\ connects = 0 /\ dial # "late"
    BY <1>11 DEF Resolved, Answered, SocketInv, OneAttempt
  <2>2. CASE dial' = "late"
    <3>1. View!LateBegins
      BY <2>1, <2>2 DEF View!LateBegins, Answered
    <3> QED BY <3>1 DEF View!UserNext
  <2>3. CASE dial' # "late"
    BY <2>1, <2>3
  <2> QED BY <2>2, <2>3
<1>12. CASE ResolveFailed
  BY <1>12 DEF ResolveFailed, Answered, Alive
<1>13. CASE ResolveCanceled
  BY <1>13 DEF ResolveCanceled, Answered, Alive
<1>14. CASE ConnectFailed \/ ConnectCanceled
  <2>1. /\ loop # "none" /\ loop' = loop /\ UNCHANGED <<connects, Answered, reports>>
        /\ dial' = "none"
    BY <1>14 DEF ConnectFailed, ConnectCanceled, Answered
  <2>2. CASE dial = "late"
    <3>1. View!LateFails
      BY <2>1, <2>2 DEF View!LateFails, Answered
    <3> QED BY <3>1 DEF View!UserNext
  <2>3. CASE dial # "late"
    BY <2>1, <2>3
  <2> QED BY <2>2, <2>3
<1>16. CASE CloseWakes
  BY <1>16 DEF CloseWakes, TakeClose, Answered, Alive
<1>17. CASE CloseHandles
  BY <1>17 DEF CloseHandles, TakeClose, Answered, Alive
<1>18. CASE CloseHandlesAgain
  BY <1>18 DEF CloseHandlesAgain, Answered, Alive
<1>19. CASE WriteWakes
  BY <1>19 DEF WriteWakes, TakeWrite, Answered, Alive
<1>20. CASE LoopEnds
  BY <1>20 DEF LoopEnds, Answered, Alive
<1>21. ASSUME NEW u \in Users, CloseBegins(u)
      PROVE  UNCHANGED <<loop # "none", dial = "late", connects, Answered, reports>>
  BY <1>21 DEF CloseBegins, Answered, SocketInv, SocketTypeOK
<1>22. ASSUME NEW u \in Users, ClosePosted(u)
      PROVE  UNCHANGED <<loop # "none", dial = "late", connects, Answered, reports>>
  BY <1>22 DEF ClosePosted, Answered, SocketInv, SocketTypeOK
<1>23. ASSUME NEW w \in Writes, WriteBegins(w)
      PROVE  UNCHANGED <<loop # "none", dial = "late", connects, Answered, reports>>
  BY <1>23 DEF WriteBegins, Answered, SocketInv, SocketTypeOK
<1>24. ASSUME NEW w \in Writes, WritePosted(w)
      PROVE  UNCHANGED <<loop # "none", dial = "late", connects, Answered, reports>>
  BY <1>24 DEF WritePosted, Answered, SocketInv, SocketTypeOK
<1>25. CASE WriteFailed
  <2>1. Head(flight) \in Writes /\ wr[Head(flight)] = "flight"
    <3>1. flight # << >> /\ flight \in Seq(Writes)
      BY <1>25 DEF WriteFailed, SocketInv, SocketTypeOK
    <3>2. 1 \in 1 .. Len(flight) /\ Head(flight) = flight[1] /\ Head(flight) \in Writes
      BY <3>1
    <3> QED BY <3>2 DEF SocketInv, WritesPlaced
  <2> QED BY <1>25, <2>1 DEF WriteFailed, Answered, SocketInv, SocketTypeOK
<1>26. CASE UNCHANGED vars
  BY <1>26 DEF vars, Answered
<1>27. CASE Accept
  <2>1. /\ loop = "none" /\ loop' # "none" /\ UNCHANGED <<Answered, reports>>
        /\ connects = 0 /\ connects' = 1 /\ dial' = dial
    BY <1>27 DEF Accept, Answered, SocketInv, StateFits, OneAttempt
  <2>2. reports = 0
    BY <2>1 DEF SocketInv, HandlesTogether, Uninit, CountsHandles, Closing, Handles
  <2>3. View!Accepted
    BY <2>1, <2>2 DEF View!Accepted, Answered
  <2> QED BY <2>3 DEF View!UserNext
<1>28. CASE CancelRefused
  BY <1>28 DEF CancelRefused, Answered
<1>29. CASE LateAsserted
  BY <1>29 DEF LateAsserted, Answered
<1> QED BY <1>1, <1>2, <1>3, <1>4, <1>5, <1>6, <1>7, <1>8, <1>9, <1>10, <1>11, <1>12, <1>13, <1>14, <1>16, <1>17, <1>18, <1>19, <1>20, <1>21, <1>22, <1>23, <1>24, <1>25, <1>26, <1>27, <1>28, <1>29 DEF Next, LoopStep

(* The callbacks of the user follow the view: connect_callback at most     *)
(* once, write_callback at most once per write and only between the two,   *)
(* close_callback once and last, except where a lookup too late to cancel  *)
(* has begun a connection on the closed handle (socket_connect.c:103).     *)
THEOREM SocketImplementsUserView == Safety => ImplementsUserView
<1>1. Init => View!UserInit
  <2> SUFFICES ASSUME Init
               PROVE  View!UserInit
    OBVIOUS
  <2>1. Answered = {}
    BY DEF Init, Answered
  <2>2. loop = "none" /\ dial = "none" /\ connects = 0 /\ reports = 0
    BY DEF Init
  <2> QED BY <2>1, <2>2 DEF View!UserInit, Answered
<1>2. SocketInv /\ [Next]_vars => [View!UserNext]_(View!userVars)
  BY UserViewStep DEF View!userVars, Answered
<1> QED BY <1>1, <1>2, SocketInitInv, SocketNextInv, PTL
        DEF Safety, ImplementsUserView, View!UserSpec

(* A connection was begun on a tcp handle that is closing or closed.       *)
LateDial == dial = "late"

(* No connect_callback comes after the close report (NoConnectAfterReport, *)
(* which socket_connect.c:103 breaks) unless a lookup that was too late to *)
(* cancel has started a connection on the handle being closed.             *)
THEOREM NoConnectAfterReportUnlessLate ==
    Safety /\ [][~ LateDial']_vars => NoConnectAfterReport
<1>1. SocketInv /\ ~ LateDial /\ [Next]_vars => [connects' > connects => reports = 0]_vars
  <2> SUFFICES ASSUME SocketInv, ~ LateDial, [Next]_vars, connects' # connects
               PROVE  reports = 0
    <3>1. SocketInv => connects \in Nat
      BY DEF SocketInv, SocketTypeOK
    <3>2. connects \in Nat => (connects' > connects => connects' # connects)
      OBVIOUS
    <3> QED BY <3>1, <3>2
  <2>1. View!UserNext
    BY UserViewStep
  <2> QED BY <2>1 DEF View!UserNext, View!Open, View!Accepted, View!ConnectCalled, View!CloseCalled,
                      View!LateBegins, View!LateFails, View!WriteCalled, LateDial
<1>2. Init => ~ LateDial
  BY DEF Init, LateDial
<1>3. ~ LateDial /\ [~ LateDial']_vars => ~ LateDial'
  BY DEF vars, dialVars, LateDial
<1> QED BY <1>1, <1>2, <1>3, SocketInitInv, SocketNextInv, PTL DEF Safety, NoConnectAfterReport
-----------------------------------------------------------------------------
(* The two asyncs of a socket are used as mailboxes (Mailbox.tla).         *)

(* What the steps below need of the types. *)
LEMMA BoxTypes ==
    ASSUME SocketInv
    PROVE  /\ closeQ \in Seq(Errors) /\ Len(closeQ) <= 1 /\ Len(closeQ) \in Nat
           /\ writeQ \in Seq(Writes) /\ Len(writeQ) <= QueueSize /\ Len(writeQ) \in Nat
           /\ handle = [h \in Handles |-> handle[h]]
           /\ "close_async" \in Handles /\ "write_async" \in Handles
           /\ loop = "close" => hand \in Errors
           /\ loop = "write" => hand \in Writes
           /\ None \notin Errors /\ None \notin Writes
  BY SocketAssumption, LenProperties DEF SocketInv, SocketTypeOK, Handles, Errors, None

(* The asyncs are bound exactly when the socket has been opened.           *)
LEMMA BoundWhenOpened ==
    ASSUME SocketInv, NEW h \in Handles
    PROVE  /\ loop = "none" => handle[h] = "uninit"
           /\ loop # "none" => handle[h] \in {"open", "closing", "closed"}
  BY DEF SocketInv, HandlesTogether, Uninit, Opened, Closing

(* A write is posted on an open socket, a close context likewise. *)
LEMMA PostedWhenOpened ==
    ASSUME SocketInv
    PROVE  /\ posting # {} => loop # "none"
           /\ \A w \in Writes : wr[w] # "none" => loop # "none"
  BY DEF SocketInv, StateFits, OneAttempt, WritesPlaced

(* Posting on close_async: an entry of the mailbox, or dropped. *)
LEMMA PostOnBox ==
    ASSUME SocketInv, NEW error \in Errors, Post(error), loop # "none",
           handle' = handle, hand' = hand, loop' = loop
    PROVE  CloseBox!MailboxNext \/ UNCHANGED CloseBox!mailboxVars
<1> USE DEF CloseBox!MailboxNext, CloseBox!mailboxVars, BoxHandle
<1>1. CASE Len(closeQ) = 1
  <2>1. closeQ' = closeQ /\ closeSig' = closeSig
    BY <1>1 DEF Post
  <2> QED BY <2>1
<1>2. CASE Len(closeQ) # 1
  <2>1. Len(closeQ) < 1
    <3> DEFINE n == Len(closeQ)
    <3>1. n \in Nat /\ n <= 1 /\ n # 1
      BY BoxTypes, <1>2
    <3> HIDE DEF n
    <3>2. n < 1
      BY <3>1
    <3> QED BY <3>2 DEF n
  <2>2. closeQ' = Append(closeQ, error) /\ closeSig' = TRUE
    BY <1>2 DEF Post
  <2>3. handle["close_async"] \in {"open", "closing", "closed"}
    BY BoxTypes, BoundWhenOpened
  <2>4. CloseBox!Post(error)
    BY <2>1, <2>2, <2>3 DEF CloseBox!Post
  <2> QED BY <2>4
<1> QED BY <1>1, <1>2

LEMMA LoopCloseOnBox ==
    ASSUME SocketInv, NEW error \in Errors, LoopClose(error), loop = "run",
           handle' = handle, hand' = hand, loop' = loop
    PROVE  CloseBox!MailboxNext \/ UNCHANGED CloseBox!mailboxVars
<1>1. Post(error) \/ (closeQ' = closeQ /\ closeSig' = closeSig)
  BY DEF LoopClose, closeVars
<1>2. CASE closeQ' = closeQ /\ closeSig' = closeSig
  BY <1>2 DEF CloseBox!mailboxVars, BoxHandle
<1> QED BY <1>1, <1>2, PostOnBox

(* One of the handles has closed: the mailbox of it, or none. *)
LEMMA ClosedOnBoxes ==
    ASSUME SocketInv, NEW h \in Handles, HandleClosed(h)
    PROVE  /\ CloseBox!MailboxNext \/ UNCHANGED CloseBox!mailboxVars
           /\ WriteBox!MailboxNext \/ UNCHANGED WriteBox!mailboxVars
<1> USE DEF CloseBox!MailboxNext, CloseBox!mailboxVars, BoxHandle,
            WriteBox!MailboxNext, WriteBox!mailboxVars
<1>1. /\ loop = "run" /\ loop' = loop /\ hand' = hand
      /\ closeQ' = closeQ /\ closeSig' = closeSig /\ writeQ' = writeQ /\ writeSig' = writeSig
      /\ handle[h] = "closing" /\ handle' = [handle EXCEPT ![h] = "closed"]
  BY DEF HandleClosed, closeVars, writeVars
<1>2. \A g \in Handles : handle'[g] = IF g = h THEN "closed" ELSE handle[g]
  BY <1>1, BoxTypes
<1>3. CASE h = "close_async"
  <2>1. /\ handle["close_async"] = "closing" /\ handle'["close_async"] = "closed"
        /\ handle'["write_async"] = handle["write_async"]
    BY <1>1, <1>2, <1>3, BoxTypes
  <2>2. CloseBox!Closed
    BY <1>1, <2>1 DEF CloseBox!Closed
  <2> QED BY <1>1, <2>1, <2>2
<1>4. CASE h = "write_async"
  <2>1. /\ handle["write_async"] = "closing" /\ handle'["write_async"] = "closed"
        /\ handle'["close_async"] = handle["close_async"]
    BY <1>1, <1>2, <1>4, BoxTypes
  <2>2. WriteBox!Closed
    BY <1>1, <2>1 DEF WriteBox!Closed
  <2> QED BY <1>1, <2>1, <2>2
<1>5. CASE h \notin {"close_async", "write_async"}
  <2>1. /\ handle'["write_async"] = handle["write_async"]
        /\ handle'["close_async"] = handle["close_async"]
    BY <1>2, <1>5, BoxTypes
  <2> QED BY <1>1, <2>1
<1> QED BY <1>3, <1>4, <1>5

(* The socket is opened: both asyncs are bound. *)
LEMMA OpenedOnBoxes ==
    ASSUME SocketInv, Connect \/ Accept
    PROVE  CloseBox!Bound /\ WriteBox!Bound
<1>1. loop = "none"
  BY DEF Connect, Accept, SocketInv, StateFits
<1>2. handle["close_async"] = "uninit" /\ handle["write_async"] = "uninit"
  BY <1>1, BoundWhenOpened, BoxTypes
<1>3. /\ handle'["close_async"] = "open" /\ handle'["write_async"] = "open"
      /\ loop' \in {"start", "run"}
      /\ closeQ' = closeQ /\ closeSig' = closeSig /\ writeQ' = writeQ /\ writeSig' = writeSig
  BY BoxTypes DEF Connect, Accept, closeVars, writeVars
<1> QED BY <1>1, <1>2, <1>3 DEF CloseBox!Bound, WriteBox!Bound, BoxHandle

(* The steps that show in neither mailbox. *)
Aside ==
    \/ Destroy \/ LookupStarts \/ ConnectThread
    \/ ResolveCanceled \/ Resolved \/ Connected \/ ConnectCanceled
    \/ CloseHandlesAgain \/ CancelRefused \/ LateAsserted \/ Written \/ LoopEnds
    \/ \E u \in Users : CloseBegins(u)
    \/ \E w \in Writes : WriteBegins(w)
    \/ UNCHANGED vars

LEMMA AsideOnBoxes ==
    ASSUME Aside
    PROVE  UNCHANGED CloseBox!mailboxVars /\ UNCHANGED WriteBox!mailboxVars
<1>1. /\ handle' = handle /\ hand' = hand
      /\ closeQ' = closeQ /\ closeSig' = closeSig /\ writeQ' = writeQ /\ writeSig' = writeSig
  BY DEF Aside, Destroy, LookupStarts, ConnectThread, ResolveCanceled, Resolved, Connected,
         ConnectCanceled, CloseHandlesAgain, CancelRefused, LateAsserted, Written, LoopEnds, CloseBegins,
         WriteBegins, vars, closeVars, writeVars, handleVars
<1>2. \/ loop' = loop
      \/ loop = "close" /\ loop' \in {"aborted", "crashed"}
      \/ loop \in {"start", "run"} /\ loop' \in {"run", "ended", "asserted"}
  BY DEF Aside, Destroy, LookupStarts, ConnectThread, ResolveCanceled, Resolved, Connected,
         ConnectCanceled, CloseHandlesAgain, CancelRefused, LateAsserted, Written, LoopEnds, CloseBegins,
         WriteBegins, vars
<1> QED BY <1>1, <1>2 DEF CloseBox!mailboxVars, WriteBox!mailboxVars, BoxHandle

(* The steps of the loop that may ask for the close. *)
Asks ==
    PeerGone \/ Unreachable \/ ResolveFailed \/ ConnectFailed \/ WriteFailed

LEMMA AsksOnBoxes ==
    ASSUME SocketInv, Asks
    PROVE  /\ CloseBox!MailboxNext \/ UNCHANGED CloseBox!mailboxVars
           /\ UNCHANGED WriteBox!mailboxVars
<1>1. /\ handle' = handle /\ hand' = hand /\ loop = "run" /\ loop' = loop
      /\ writeQ' = writeQ /\ writeSig' = writeSig
  BY DEF Asks, PeerGone, Unreachable, ResolveFailed, ConnectFailed, WriteFailed,
         writeVars, handleVars
<1>2. PICK error \in Errors : LoopClose(error)
  BY DEF Asks, PeerGone, Unreachable, ResolveFailed, ConnectFailed, WriteFailed, Errors
<1>3. CloseBox!MailboxNext \/ UNCHANGED CloseBox!mailboxVars
  BY <1>1, <1>2, LoopCloseOnBox
<1>4. UNCHANGED WriteBox!mailboxVars
  BY <1>1 DEF WriteBox!mailboxVars, BoxHandle
<1> QED BY <1>3, <1>4

(* Every step of the socket is one of each mailbox, or does not show in it. *)
LEMMA BoxesStep ==
    SocketInv /\ [Next]_vars =>
        /\ [CloseBox!MailboxNext]_(CloseBox!mailboxVars)
        /\ [WriteBox!MailboxNext]_(WriteBox!mailboxVars)
<1> SUFFICES ASSUME SocketInv, [Next]_vars
             PROVE  /\ CloseBox!MailboxNext \/ UNCHANGED CloseBox!mailboxVars
                    /\ WriteBox!MailboxNext \/ UNCHANGED WriteBox!mailboxVars
  BY Zenon
<1>1. CASE Aside
  BY <1>1, AsideOnBoxes
<1>2. CASE Asks
  BY <1>2, AsksOnBoxes
<1>3. CASE Connect \/ Accept
  BY <1>3, OpenedOnBoxes DEF CloseBox!MailboxNext, WriteBox!MailboxNext
<1>4. ASSUME NEW h \in Handles, HandleClosed(h)
      PROVE  /\ CloseBox!MailboxNext \/ UNCHANGED CloseBox!mailboxVars
             /\ WriteBox!MailboxNext \/ UNCHANGED WriteBox!mailboxVars
  BY <1>4, ClosedOnBoxes
<1>5. ASSUME NEW u \in Users, ClosePosted(u)
      PROVE  /\ CloseBox!MailboxNext \/ UNCHANGED CloseBox!mailboxVars
             /\ UNCHANGED WriteBox!mailboxVars
  <2>1. /\ Post("OK") /\ "OK" \in Errors /\ handle' = handle /\ hand' = hand /\ loop' = loop
        /\ writeQ' = writeQ /\ writeSig' = writeSig /\ posting # {}
    BY <1>5 DEF ClosePosted, Errors, writeVars, handleVars
  <2>2. loop # "none"
    BY <2>1, PostedWhenOpened
  <2>3. UNCHANGED WriteBox!mailboxVars
    BY <2>1 DEF WriteBox!mailboxVars, BoxHandle
  <2> QED BY <2>1, <2>2, <2>3, PostOnBox
<1>6. ASSUME NEW w \in Writes, WritePosted(w)
      PROVE  /\ UNCHANGED CloseBox!mailboxVars
             /\ WriteBox!MailboxNext \/ UNCHANGED WriteBox!mailboxVars
  <2> USE DEF BoxHandle
  <2>1. /\ closeQ' = closeQ /\ closeSig' = closeSig /\ handle' = handle /\ hand' = hand
        /\ loop' = loop /\ wr[w] # "none"
    BY <1>6 DEF WritePosted, closeVars, handleVars
  <2>2. UNCHANGED CloseBox!mailboxVars
    BY <2>1 DEF CloseBox!mailboxVars
  <2>3. CASE Len(writeQ) = QueueSize
    <3>1. writeQ' = writeQ /\ writeSig' = writeSig
      BY <1>6, <2>3 DEF WritePosted
    <3> QED BY <2>1, <2>2, <3>1 DEF WriteBox!mailboxVars
  <2>4. CASE Len(writeQ) # QueueSize
    <3>1. Len(writeQ) < QueueSize
      <4> DEFINE n == Len(writeQ)
      <4>1. n \in Nat /\ n <= QueueSize /\ n # QueueSize /\ QueueSize \in Nat
        BY BoxTypes, SocketAssumption, <2>4
      <4> HIDE DEF n
      <4>2. n < QueueSize
        BY <4>1
      <4> QED BY <4>2 DEF n
    <3>2. writeQ' = Append(writeQ, w) /\ writeSig' = TRUE
      BY <1>6, <2>4 DEF WritePosted
    <3>3. handle["write_async"] \in {"open", "closing", "closed"}
      BY <2>1, BoxTypes, BoundWhenOpened, PostedWhenOpened
    <3>4. WriteBox!Post(w)
      BY <2>1, <3>1, <3>2, <3>3 DEF WriteBox!Post
    <3> QED BY <2>2, <3>4 DEF WriteBox!MailboxNext
  <2> QED BY <2>3, <2>4
<1>7. CASE CloseWakes
  <2> USE DEF BoxHandle
  <2>1. /\ loop = "run" /\ closeSig /\ handle["close_async"] = "open" /\ closeSig' = FALSE
        /\ TakeClose /\ handle' = handle /\ writeQ' = writeQ /\ writeSig' = writeSig
    BY <1>7 DEF CloseWakes, writeVars, handleVars
  <2>2. CloseBox!Take /\ loop' \in {"run", "close"}
    BY <2>1 DEF TakeClose, CloseBox!Take
  <2>3. CloseBox!Wakes
    BY <2>1, <2>2 DEF CloseBox!Wakes
  <2>4. UNCHANGED WriteBox!mailboxVars
    BY <2>1, <2>2 DEF WriteBox!mailboxVars
  <2> QED BY <2>3, <2>4 DEF CloseBox!MailboxNext
<1>8. CASE CloseHandles
  <2> USE DEF BoxHandle
  <2>1. /\ loop = "close" /\ closeSig' = closeSig /\ TakeClose
        /\ writeQ' = writeQ /\ writeSig' = writeSig
        /\ handle["close_async"] = "open" /\ handle'["close_async"] = "closing"
        /\ handle["write_async"] = "open" /\ handle'["write_async"] = "closing"
    BY <1>8, BoxTypes DEF CloseHandles, writeVars
  <2>2. CloseBox!Take /\ loop' \in {"run", "close"}
    BY <2>1 DEF TakeClose, CloseBox!Take
  <2>3. CloseBox!Returns
    BY <2>1, <2>2, BoxTypes DEF CloseBox!Returns
  <2>4. WriteBox!Closes
    BY <2>1, <2>2 DEF WriteBox!Closes
  <2> QED BY <2>3, <2>4 DEF CloseBox!MailboxNext, WriteBox!MailboxNext
<1>9. CASE WriteWakes
  <2> USE DEF BoxHandle
  <2>1. /\ loop = "run" /\ writeSig /\ handle["write_async"] = "open" /\ writeSig' = FALSE
        /\ TakeWrite /\ handle' = handle /\ closeQ' = closeQ /\ closeSig' = closeSig
    BY <1>9 DEF WriteWakes, closeVars, handleVars
  <2>2. WriteBox!Take /\ loop' \in {"run", "write"}
    BY <2>1 DEF TakeWrite, WriteBox!Take
  <2>3. WriteBox!Wakes
    BY <2>1, <2>2 DEF WriteBox!Wakes
  <2>4. UNCHANGED CloseBox!mailboxVars
    BY <2>1, <2>2 DEF CloseBox!mailboxVars
  <2> QED BY <2>3, <2>4 DEF WriteBox!MailboxNext
<1>10. CASE SendFrame
  <2> USE DEF BoxHandle
  <2>1. /\ loop = "write" /\ writeSig' = writeSig /\ TakeWrite /\ handle' = handle
        /\ closeQ' = closeQ /\ closeSig' = closeSig
    BY <1>10 DEF SendFrame, closeVars, handleVars
  <2>2. WriteBox!Take /\ loop' \in {"run", "write"}
    BY <2>1 DEF TakeWrite, WriteBox!Take
  <2>3. WriteBox!Returns
    BY <2>1, <2>2, BoxTypes DEF WriteBox!Returns
  <2>4. UNCHANGED CloseBox!mailboxVars
    BY <2>1, <2>2 DEF CloseBox!mailboxVars
  <2> QED BY <2>3, <2>4 DEF WriteBox!MailboxNext
<1> QED BY <1>1, <1>2, <1>3, <1>4, <1>5, <1>6, <1>7, <1>8, <1>9, <1>10
        DEF Next, LoopStep, Aside, Asks

(* close_async and write_async of a socket are used as the mailboxes that  *)
(* they are.                                                               *)
THEOREM SocketUsesMailboxes == Safety => UsesMailboxes
<1>1. Init => CloseBox!MailboxInit /\ WriteBox!MailboxInit
  BY DEF Init, Handles, BoxHandle, CloseBox!MailboxInit, WriteBox!MailboxInit
<1> QED BY <1>1, SocketInitInv, SocketNextInv, BoxesStep, PTL
        DEF Safety, UsesMailboxes, CloseBox!MailboxSpec, WriteBox!MailboxSpec
-----------------------------------------------------------------------------
(* The lookup or the connection attempt puts the state over CLOSING        *)
(* (socket_connect.c:97, 127): the one way to two closes.                  *)
SetBack == state = "CLOSING" /\ state' # "CLOSING"

(* A socket that was not set back has one close under way, in one place: a *)
(* user about to post a context, the queue, the hand of the callback, or   *)
(* the handles.                                                            *)
OneClose ==
    /\ state # "CLOSING" => posting = {} /\ closeQ = << >> /\ loop # "close" /\ ~ Closing
    /\ \A u, v \in posting : u = v
    /\ posting # {} => closeQ = << >> /\ loop # "close" /\ ~ Closing
    /\ closeQ # << >> => loop # "close" /\ ~ Closing
    /\ loop = "close" => Opened
    /\ HandlesClosedOnce

LEMMA OpenedNotClosing == ~ (Opened /\ Closing) /\ ~ (Uninit /\ Closing)
BY DEF Opened, Closing, Uninit, Handles

(* A step that leaves the places of a close alone. *)
LEMMA AsideOneClose ==
    ASSUME OneClose, UNCHANGED <<posting, closeQ, handle>>, loop' = loop \/ loop' \notin {"close", "aborted"},
           state' = state \/ (state # "CLOSING" /\ state' # "CLOSING")
    PROVE  OneClose'
BY DEF OneClose, HandlesClosedOnce, Opened, Closing

LEMMA LoopCloseOnce ==
    ASSUME SocketInv, OneClose, loop = "run", UNCHANGED <<loop, handle>>, NEW error \in Errors, LoopClose(error)
    PROVE  OneClose'
<1>1. CASE state \in {"CLOSED", "CLOSING"}
  BY <1>1, AsideOneClose DEF LoopClose, closeVars
<1>2. CASE state \notin {"CLOSED", "CLOSING"}
  <2>1. state' = "CLOSING" /\ posting' = posting /\ posting = {} /\ ~ Closing
    BY <1>2 DEF LoopClose, OneClose
  <2> QED BY <2>1 DEF OneClose, HandlesClosedOnce, Opened, Closing
<1> QED BY <1>1, <1>2

LEMMA OneCloseStep == SocketInv /\ OneClose /\ [Next]_vars /\ ~ SetBack => OneClose'
<1> SUFFICES ASSUME SocketInv, OneClose, [Next]_vars, ~ SetBack
             PROVE  OneClose'
  OBVIOUS
<1> USE DEF closeVars, writeVars, handleVars, dialVars
<1>0. "tcp" \in Handles /\ Len(closeQ) <= 1 /\ closeQ \in Seq(Errors)
  BY DEF Handles, SocketInv, SocketTypeOK
<1>1. CASE Connect \/ Accept
  <2>1. state = "CLOSED" /\ state' # "CLOSING" /\ loop' \in {"start", "run"} /\ UNCHANGED <<posting, closeQ>>
    BY <1>1 DEF Connect, Accept
  <2>2. ~ Closing'
    <3>1. handle'["tcp"] = "open"
      BY <1>0, <1>1 DEF Connect, Accept
    <3> QED BY <1>0, <3>1 DEF Closing
  <2> QED BY <2>1, <2>2 DEF OneClose, HandlesClosedOnce
<1>2. ASSUME NEW u \in Users, CloseBegins(u)
      PROVE  OneClose'
  <2>1. /\ posting = {} /\ closeQ = << >> /\ loop # "close" /\ ~ Closing
        /\ state' = "CLOSING" /\ posting' = {u} /\ UNCHANGED <<closeQ, loop, handle>>
    BY <1>2 DEF CloseBegins, OneClose
  <2> QED BY <2>1 DEF OneClose, HandlesClosedOnce, Closing
<1>3. ASSUME NEW u \in Users, ClosePosted(u)
      PROVE  OneClose'
  <2>1. posting = {u} /\ state = "CLOSING" /\ closeQ = << >> /\ loop # "close" /\ ~ Closing
    BY <1>3 DEF ClosePosted, OneClose
  <2>2. posting' = {} /\ UNCHANGED <<state, loop, handle>>
    BY <1>3, <2>1 DEF ClosePosted
  <2> QED BY <2>1, <2>2 DEF OneClose, HandlesClosedOnce, Closing
<1>4. CASE ResolveFailed \/ ConnectFailed \/ PeerGone \/ Unreachable \/ WriteFailed
  <2>1. loop = "run" /\ UNCHANGED <<loop, handle>> /\ \E error \in Errors : LoopClose(error)
    BY <1>4 DEF ResolveFailed, ConnectFailed, PeerGone, Unreachable, WriteFailed, Errors
  <2> QED BY <2>1, LoopCloseOnce
(* Here the step would set the state back if it was CLOSING. *)
<1>5. CASE Resolved \/ Connected
  <2>1. /\ UNCHANGED <<posting, closeQ, loop, handle>>
        /\ state # "CLOSING" /\ state' # "CLOSING"
    BY <1>5 DEF Resolved, Connected, SetBack
  <2> QED BY <2>1, AsideOneClose
<1>6. CASE ConnectThread
  <2>1. /\ UNCHANGED <<posting, closeQ, handle>> /\ loop' = "run"
        /\ state' = state \/ (state # "CLOSING" /\ state' # "CLOSING")
    BY <1>6 DEF ConnectThread
  <2> QED BY <2>1, AsideOneClose
<1>7. CASE CloseWakes
  <2>1. UNCHANGED <<state, posting, handle>> /\ loop = "run" /\ TakeClose
    BY <1>7 DEF CloseWakes
  <2>2. CASE closeQ = << >>
    BY <2>1, <2>2, AsideOneClose DEF TakeClose
  <2>3. CASE closeQ # << >>
    <3>1. state = "CLOSING" /\ posting = {} /\ ~ Closing
      BY <2>3 DEF OneClose
    <3>2. loop' = "close" /\ closeQ' = << >>
      BY <1>0, <2>1, <2>3 DEF TakeClose
    <3>3. Opened
      BY <2>1, <3>1 DEF SocketInv, HandlesTogether
    <3> QED BY <2>1, <3>1, <3>2, <3>3 DEF OneClose, HandlesClosedOnce, Opened
  <2> QED BY <2>2, <2>3
<1>8. CASE CloseHandles
  <2>1. state = "CLOSING" /\ posting = {} /\ closeQ = << >>
    BY <1>8 DEF CloseHandles, OneClose
  <2>2. UNCHANGED <<state, posting>> /\ loop' = "run" /\ closeQ' = << >>
    BY <1>8, <2>1 DEF CloseHandles, TakeClose
  <2> QED BY <2>1, <2>2 DEF OneClose, HandlesClosedOnce
<1>9. CASE CloseHandlesAgain
  BY <1>9 DEF CloseHandlesAgain, OneClose, Opened
<1>10. CASE CancelRefused
  <2>1. /\ state = "CLOSING" /\ posting = {} /\ closeQ = << >>
        /\ loop' = "crashed" /\ UNCHANGED <<state, posting, closeQ>>
    BY <1>10 DEF CancelRefused, OneClose
  <2> QED BY <2>1 DEF OneClose, HandlesClosedOnce
<1>11. ASSUME NEW h \in Handles, HandleClosed(h)
       PROVE  OneClose'
  <2>1. loop = "run" /\ handle[h] = "closing" /\ UNCHANGED <<state, posting, closeQ, loop>>
    BY <1>11 DEF HandleClosed
  <2>2. Closing
    BY <2>1 DEF SocketInv, HandlesTogether, Opened
  <2>3. state = "CLOSING" /\ posting = {} /\ closeQ = << >>
    BY <2>2 DEF OneClose
  <2> QED BY <2>1, <2>3 DEF OneClose, HandlesClosedOnce
<1>12. CASE WriteWakes \/ SendFrame
  <2>1. UNCHANGED <<state, posting, closeQ, handle>> /\ loop' \in {"run", "write"}
    BY <1>12 DEF WriteWakes, SendFrame, TakeWrite
  <2> QED BY <2>1, AsideOneClose
<1>13. CASE \/ Destroy \/ LookupStarts \/ ResolveCanceled \/ ConnectCanceled \/ LateAsserted \/ Written \/ LoopEnds
            \/ (\E w \in Writes : WriteBegins(w) \/ WritePosted(w)) \/ UNCHANGED vars
  <2>1. UNCHANGED <<state, posting, closeQ, handle>> /\ loop' \in {loop, "ended", "asserted"}
    BY <1>13 DEF Destroy, LookupStarts, ResolveCanceled, ConnectCanceled, LateAsserted, Written, LoopEnds,
                 WriteBegins, WritePosted, vars
  <2> QED BY <2>1, AsideOneClose
<1> QED BY <1>1, <1>2, <1>3, <1>4, <1>5, <1>6, <1>7, <1>8, <1>9, <1>10, <1>11, <1>12, <1>13
       DEF Next, LoopStep

LEMMA OneCloseInit == Init => OneClose
BY DEF Init, OneClose, HandlesClosedOnce, Closing, Opened, Handles

(* The handles of a socket are closed twice only if its state was set back *)
(* from CLOSING: without that, what socket_close.c:17 says holds, however  *)
(* many users close and whatever fails at the same time.                   *)
THEOREM ClosedOnceUnlessSetBack == Safety /\ [][~ SetBack]_vars => []HandlesClosedOnce
<1>1. SocketInv /\ OneClose /\ [Next]_vars /\ [~ SetBack]_vars => OneClose'
  <2>1. UNCHANGED vars => ~ SetBack
    BY DEF vars, SetBack
  <2> QED BY <2>1, OneCloseStep
<1>2. OneClose => HandlesClosedOnce
  BY DEF OneClose
<1> QED BY <1>1, <1>2, OneCloseInit, SocketInitInv, SocketNextInv, PTL DEF Safety

(* An accepted socket looks nothing up and has no connection attempt. *)
NoAttempt == lookup = "none" /\ dial = "none" /\ loop # "start"

LEMMA NoAttemptStep ==
    SocketInv /\ NoAttempt /\ [Next]_vars /\ ~ Connect => NoAttempt' /\ ~ SetBack
<1> SUFFICES ASSUME SocketInv, NoAttempt, [Next]_vars, ~ Connect
             PROVE  NoAttempt' /\ ~ SetBack
  OBVIOUS
<1> USE DEF closeVars, writeVars, handleVars, dialVars, NoAttempt, SetBack
<1>1. CASE Accept \/ Destroy
  BY <1>1 DEF Accept, Destroy
<1>2. ASSUME NEW u \in Users, CloseBegins(u) \/ ClosePosted(u)
      PROVE  NoAttempt' /\ ~ SetBack
  BY <1>2 DEF CloseBegins, ClosePosted
<1>3. ASSUME NEW w \in Writes, WriteBegins(w) \/ WritePosted(w)
      PROVE  NoAttempt' /\ ~ SetBack
  BY <1>3 DEF WriteBegins, WritePosted
<1>4. CASE \/ LookupStarts \/ ConnectThread \/ Resolved \/ ResolveFailed \/ ResolveCanceled
           \/ Connected \/ ConnectFailed \/ ConnectCanceled \/ LateAsserted
  BY <1>4 DEF LookupStarts, ConnectThread, Resolved, ResolveFailed, ResolveCanceled,
              Connected, ConnectFailed, ConnectCanceled, LateAsserted, Dialling
<1>5. CASE PeerGone \/ Unreachable \/ WriteFailed
  BY <1>5 DEF PeerGone, Unreachable, WriteFailed, LoopClose
<1>6. CASE CloseWakes \/ CloseHandles \/ CloseHandlesAgain \/ CancelRefused
  BY <1>6 DEF CloseWakes, CloseHandles, CloseHandlesAgain, CancelRefused, TakeClose
<1>7. ASSUME NEW h \in Handles, HandleClosed(h)
      PROVE  NoAttempt' /\ ~ SetBack
  BY <1>7 DEF HandleClosed
<1>8. CASE WriteWakes \/ SendFrame \/ Written \/ LoopEnds
  BY <1>8 DEF WriteWakes, SendFrame, Written, LoopEnds, TakeWrite
<1>9. CASE UNCHANGED vars
  BY <1>9 DEF vars
<1> QED BY <1>1, <1>2, <1>3, <1>4, <1>5, <1>6, <1>7, <1>8, <1>9 DEF Next, LoopStep

(* The handles of a socket that a server accepted (cobra__socket_bind) are *)
(* closed once: nothing of such a socket sets its state back.              *)
THEOREM AcceptedClosesOnce == Safety /\ [][~ Connect]_vars => []HandlesClosedOnce
<1>1. Init => NoAttempt
  BY DEF Init, NoAttempt
<1>2. SocketInv /\ NoAttempt /\ [Next]_vars /\ [~ Connect]_vars => NoAttempt' /\ [~ SetBack]_vars
  <2>1. UNCHANGED vars => NoAttempt' = NoAttempt
    BY DEF vars, closeVars, writeVars, handleVars, dialVars, NoAttempt
  <2> QED BY <2>1, NoAttemptStep
<1>3. Safety /\ [][~ Connect]_vars => [][~ SetBack]_vars
  BY <1>1, <1>2, SocketInitInv, SocketNextInv, PTL DEF Safety
<1> QED BY <1>3, ClosedOnceUnlessSetBack, PTL
=============================================================================
