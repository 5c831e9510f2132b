-------------------------- MODULE DiscoveryProofs ---------------------------
(***************************************************************************)
(* The life of a discovery, for every set of users and every number of     *)
(* sends on their way: it is closed once, and what its user is told is     *)
(* what closed it first.                                                   *)
(***************************************************************************)
EXTENDS Discovery, FiniteSetTheorems, SequenceTheorems, TLAPS

(* uv_close has been called on the handles. *)
CloseCalled == handle["close_async"] \in {"closing", "closed"}

(* The handles are closed together, and only once a thread runs the loop.  *)
HandlesTogether ==
    /\ (state = "CLOSED") <=> (loop = "none")
    /\ loop = "none" => ~ CloseCalled
    /\ \A h \in Handles : handle[h] \in {"closing", "closed"} <=> CloseCalled

(* A context that is carried to the loop, and the error that is kept for   *)
(* the report, are of the first cause.                                     *)
CauseCarried ==
    /\ posting # {} => cause = "OK"
    /\ closeQ # << >> => closeQ[1] = cause
    /\ loop = "close" => hand = cause
    /\ CloseCalled => closeError = cause

(* The closed handles are counted, and the last one reports. *)
ClosedOne(h) == IF handle[h] = "closed" THEN 1 ELSE 0

CountsHandles ==
    /\ closedCount = ClosedOne("udp") + ClosedOne("timer") + ClosedOne("close_async")
    /\ reports = IF closedCount = 3 THEN 1 ELSE 0
    /\ handle["udp"] = "closed" => flight = 0

DiscoveryInv ==
    /\ DiscoveryTypeOK
    /\ IsFiniteSet(posting)
    /\ HandlesTogether
    /\ CauseCarried
    /\ CountsHandles
    /\ OneContext
    /\ ContextIsDue

(* There are three handles. *)
LEMMA ThreeHandles == Cardinality(Handles) = 3
<1>1. IsFiniteSet({}) /\ Cardinality({}) = 0
  BY FS_EmptySet
<1>2. IsFiniteSet({"udp"}) /\ Cardinality({"udp"}) = 1
  BY FS_Singleton
<1>3. IsFiniteSet({"udp"} \cup {"timer"}) /\ Cardinality({"udp"} \cup {"timer"}) = 2
  BY <1>2, FS_AddElement
<1>4. Cardinality(({"udp"} \cup {"timer"}) \cup {"close_async"}) = 3
  BY <1>3, FS_AddElement
<1>5. Handles = ({"udp"} \cup {"timer"}) \cup {"close_async"}
  BY DEF Handles
<1> QED BY <1>4, <1>5

(* Where a close context can be: nowhere before the discovery is closing,  *)
(* and in one place only from then on.                                     *)
LEMMA ContextPlaces ==
    ASSUME DiscoveryInv
    PROVE  /\ state # "CLOSING" => /\ posting = {} /\ closeQ = << >>
                                   /\ loop \notin {"close", "aborted"} /\ ~ CloseCalled
           /\ posting # {} => /\ Cardinality(posting) = 1 /\ closeQ = << >>
                              /\ loop \notin {"close", "aborted"} /\ ~ CloseCalled
           /\ closeQ # << >> => /\ posting = {} /\ Len(closeQ) = 1
                                /\ loop \notin {"close", "aborted"} /\ ~ CloseCalled
           /\ loop \in {"close", "aborted"} =>
                /\ posting = {} /\ closeQ = << >> /\ ~ CloseCalled
           /\ CloseCalled => posting = {} /\ closeQ = << >>
<1>1. /\ Cardinality(posting) \in Nat
      /\ Cardinality(posting) = 0 <=> posting = {}
  BY FS_CardinalityType, FS_EmptySet DEF DiscoveryInv
<1>2. Len(closeQ) \in Nat /\ (Len(closeQ) = 0 <=> closeQ = << >>)
  BY EmptySeq DEF DiscoveryInv, DiscoveryTypeOK
<1> DEFINE inPosting == Cardinality(posting)
           inQueue == Len(closeQ)
           inHand == IF loop \in {"close", "aborted"} THEN 1 ELSE 0
           handled == IF CloseCalled THEN 1 ELSE 0
<1>3. inPosting + inQueue + inHand + handled = IF state = "CLOSING" THEN 1 ELSE 0
  BY DEF DiscoveryInv, OneContext, CloseCalled
<1>4. /\ inHand \in 0 .. 1 /\ (inHand = 0 <=> loop \notin {"close", "aborted"})
      /\ handled \in 0 .. 1 /\ (handled = 0 <=> ~ CloseCalled)
  OBVIOUS
<1>5. inPosting \in Nat /\ inQueue \in Nat
  BY <1>1, <1>2
<1> HIDE DEF inPosting, inQueue, inHand, handled
<1>6. /\ state # "CLOSING" => inPosting = 0 /\ inQueue = 0 /\ inHand = 0 /\ handled = 0
      /\ inPosting # 0 => inPosting = 1 /\ inQueue = 0 /\ inHand = 0 /\ handled = 0
      /\ inQueue # 0 => inPosting = 0 /\ inQueue = 1 /\ inHand = 0 /\ handled = 0
      /\ inHand # 0 => inPosting = 0 /\ inQueue = 0 /\ handled = 0
      /\ handled # 0 => inPosting = 0 /\ inQueue = 0
  <2>1. inPosting + inQueue + inHand + handled <= 1
    BY <1>3, <1>4, <1>5
  <2>2. state # "CLOSING" => inPosting + inQueue + inHand + handled = 0
    BY <1>3
  <2> QED BY <2>1, <2>2, <1>4, <1>5
<1>7. /\ posting = {} <=> inPosting = 0
      /\ closeQ = << >> <=> inQueue = 0
  BY <1>1, <1>2 DEF inPosting, inQueue
<1> QED BY <1>4, <1>6, <1>7 DEF inPosting, inQueue

(* Posting a context when none is in the queue. *)
LEMMA PostIsPending ==
    ASSUME closeQ = << >>, NEW error \in Errors, Post(error)
    PROVE  closeQ' = <<error>> /\ closeSig' = TRUE
BY DEF Post

(* Closing from the loop thread: nothing happens, or the first context is  *)
(* in the queue and its error is the cause.                                *)
LEMMA LoopClosePosts ==
    ASSUME DiscoveryInv, loop # "none", NEW error \in Errors, LoopClose(error)
    PROVE  \/ UNCHANGED <<state, closeVars, cause>>
           \/ /\ state # "CLOSING"
              /\ state' = "CLOSING" /\ cause' = error /\ posting' = posting
              /\ closeQ' = <<error>> /\ closeSig' = TRUE
<1>1. CASE state = "CLOSING"
  BY <1>1 DEF LoopClose
<1>2. CASE state # "CLOSING"
  <2>1. state # "CLOSED"
    BY DEF DiscoveryInv, HandlesTogether
  <2>2. state' = "CLOSING" /\ cause' = error /\ Post(error) /\ posting' = posting
    BY <1>2, <2>1 DEF LoopClose
  <2>3. closeQ = << >>
    BY <1>2, ContextPlaces
  <2> QED BY <1>2, <2>2, <2>3, PostIsPending
<1> QED BY <1>1, <1>2

(* What the loop finds in close_async. *)
LEMMA TakeCloseFirst ==
    ASSUME closeQ \in Seq(Errors), Len(closeQ) <= 1, TakeClose
    PROVE  /\ closeQ' = << >>
           /\ IF closeQ = << >>
              THEN loop' = "run" /\ hand' = hand
              ELSE loop' = "close" /\ hand' = closeQ[1] /\ hand' \in Errors /\ Len(closeQ) = 1
<1>1. CASE closeQ = << >>
  BY <1>1 DEF TakeClose
<1>2. CASE closeQ # << >>
  <2>1. Len(closeQ) = 1
    <3> DEFINE n == Len(closeQ)
    <3>1. n \in Nat \ {0} /\ n <= 1
      BY <1>2, EmptySeq
    <3> HIDE DEF n
    <3>2. n = 1
      BY <3>1
    <3> QED BY <3>2 DEF n
  <2>2. Head(closeQ) = closeQ[1] /\ Head(closeQ) \in Errors
    BY <1>2, HeadTailProperties
  <2>3. Tail(closeQ) = << >>
    <3>1. Tail(closeQ) \in Seq(Errors) /\ Len(Tail(closeQ)) = 0
      BY <1>2, <2>1, HeadTailProperties
    <3> QED BY <3>1, EmptySeq
  <2> QED BY <1>2, <2>1, <2>2, <2>3 DEF TakeClose
<1> QED BY <1>1, <1>2

(* A step that leaves the handles, the loop's place in a close and the     *)
(* report alone, and either leaves the contexts alone or posts the first   *)
(* one, preserves the invariant.                                           *)
LEMMA ClosingStep ==
    ASSUME DiscoveryInv, DiscoveryTypeOK',
           UNCHANGED <<hand, handleVars>>,
           loop \notin {"none", "close", "aborted"}, loop' \notin {"none", "close", "aborted"},
           flight' = flight \/ handle["udp"] # "closed",
           \/ UNCHANGED <<state, closeVars, cause>>
           \/ /\ state # "CLOSING"
              /\ state' = "CLOSING" /\ posting' = posting
              /\ closeQ' = <<cause'>> /\ closeSig' = TRUE
    PROVE  DiscoveryInv'
<1>1. IsFiniteSet(posting)' /\ HandlesTogether' /\ CountsHandles'
  BY DEF DiscoveryInv, HandlesTogether, CountsHandles, ClosedOne, CloseCalled, handleVars, closeVars
<1>2. CASE UNCHANGED <<state, closeVars, cause>>
  BY <1>1, <1>2 DEF DiscoveryInv, OneContext, ContextIsDue, CauseCarried, CloseCalled,
                    handleVars, closeVars
<1>3. CASE /\ state # "CLOSING"
           /\ state' = "CLOSING" /\ posting' = posting
           /\ closeQ' = <<cause'>> /\ closeSig' = TRUE
  <2>1. posting = {} /\ ~ CloseCalled
    BY <1>3, ContextPlaces
  <2>2. CauseCarried' /\ ContextIsDue'
    BY <1>3, <2>1 DEF CauseCarried, ContextIsDue, CloseCalled, handleVars
  <2>3. Cardinality(posting') = 0 /\ Len(closeQ') = 1
    BY <1>3, <2>1, FS_EmptySet
  <2>4. OneContext'
    BY <1>3, <2>1, <2>3 DEF OneContext, CloseCalled, handleVars
  <2> QED BY <1>1, <2>2, <2>4 DEF DiscoveryInv
<1> QED BY <1>2, <1>3

(* Every step preserves the types.                                         *)
LEMMA TypeStep == DiscoveryInv /\ [Next]_vars => DiscoveryTypeOK'
<1> SUFFICES ASSUME DiscoveryInv, [Next]_vars
             PROVE  DiscoveryTypeOK'
  OBVIOUS
<1> USE DEF DiscoveryInv, DiscoveryTypeOK, closeVars, handleVars, ioVars
<1>1. ASSUME NEW error \in Errors, LoopClose(error), loop # "none"
      PROVE  /\ state' \in {"CLOSED", "INITIALIZING", "LISTENING", "SCANNING", "CLOSING"}
             /\ posting' \subseteq Users
             /\ closeQ' \in Seq(Errors) /\ Len(closeQ') <= 1
             /\ closeSig' \in BOOLEAN
             /\ cause' \in Errors \cup {None}
  <2>1. CASE UNCHANGED <<state, closeVars, cause>>
    BY <2>1
  <2>2. CASE /\ state' = "CLOSING" /\ cause' = error /\ posting' = posting
             /\ closeQ' = <<error>> /\ closeSig' = TRUE
    BY <2>2
  <2> QED BY <1>1, <2>1, <2>2, LoopClosePosts
<1>2. CASE Listen \/ Scan
  BY <1>2 DEF Listen, Scan, Open, Handles
<1>3. CASE Destroy
  BY <1>3 DEF Destroy
<1>4. ASSUME NEW u \in Users, CloseBegins(u)
      PROVE  DiscoveryTypeOK'
  BY <1>4 DEF CloseBegins, Errors
<1>5. ASSUME NEW u \in Users, ClosePosted(u)
      PROVE  DiscoveryTypeOK'
  <2>1. closeQ' = <<"OK">> /\ closeSig' = TRUE
    BY <1>5, ContextPlaces, PostIsPending DEF ClosePosted, Errors
  <2> QED BY <1>5, <2>1 DEF ClosePosted, Errors
<1>6. CASE ThreadStarts
  BY <1>6 DEF ThreadStarts
<1>7. CASE Bound
  BY <1>7, <1>1 DEF Bound, Errors
<1>8. CASE Joined
  BY <1>8, <1>1 DEF Joined, Errors
<1>9. CASE ReceiveStarts
  BY <1>9 DEF ReceiveStarts
<1>10. CASE SendPacket
  BY <1>10, DiscoveryAssumption DEF SendPacket
<1>11. CASE Sent
  BY <1>11, DiscoveryAssumption DEF Sent
<1>12. CASE SendFailed
  BY <1>12, <1>1, DiscoveryAssumption DEF SendFailed, Errors
<1>13. CASE CloseWakes
  <2>1. /\ closeQ' \in Seq(Errors) /\ Len(closeQ') <= 1
        /\ loop' \in {"run", "close"} /\ (loop' = "close" => hand' \in Errors)
    <3>1. TakeClose
      BY <1>13 DEF CloseWakes
    <3> QED BY <3>1, TakeCloseFirst
  <2> QED BY <1>13, <2>1 DEF CloseWakes
<1>14. CASE CloseHandles
  <2>1. /\ closeQ' \in Seq(Errors) /\ Len(closeQ') <= 1
        /\ loop' \in {"run", "close"} /\ (loop' = "close" => hand' \in Errors)
    <3>1. TakeClose
      BY <1>14 DEF CloseHandles
    <3> QED BY <3>1, TakeCloseFirst
  <2>2. closeError' \in Errors
    BY <1>14 DEF CloseHandles
  <2> QED BY <1>14, <2>1, <2>2, ThreeHandles DEF CloseHandles
<1>15. CASE CloseHandlesFails
  BY <1>15 DEF CloseHandlesFails
<1>16. ASSUME NEW h \in Handles, HandleClosed(h)
       PROVE  DiscoveryTypeOK'
  <2>1. closedCount' \in 0 .. 3
    BY <1>16 DEF HandleClosed, CountsHandles, ClosedOne, Handles
  <2>2. reports' \in Nat
    BY <1>16 DEF HandleClosed
  <2> QED BY <1>16, <2>1, <2>2, ThreeHandles DEF HandleClosed
<1>17. CASE LoopEnds
  BY <1>17 DEF LoopEnds
<1>18. CASE UNCHANGED vars
  BY <1>18 DEF vars
<1> QED BY <1>2, <1>3, <1>4, <1>5, <1>6, <1>7, <1>8, <1>9, <1>10, <1>11, <1>12, <1>13, <1>14,
           <1>15, <1>16, <1>17, <1>18 DEF Next

(* Every step preserves the invariant. *)
LEMMA InvStep == DiscoveryInv /\ [Next]_vars => DiscoveryInv'
<1> SUFFICES ASSUME DiscoveryInv, [Next]_vars
             PROVE  DiscoveryInv'
  OBVIOUS
<1>0. DiscoveryTypeOK'
  BY TypeStep
<1> USE <1>0
<1>1. CASE Listen \/ Scan
  <2>1. /\ state = "CLOSED" /\ state' = "INITIALIZING" /\ loop' = "start"
        /\ UNCHANGED <<closeVars, hand, closeError, closedCount, reports, ioVars, cause>>
    BY <1>1 DEF Listen, Scan, Open
  <2>2. posting = {} /\ closeQ = << >> /\ ~ CloseCalled
    BY <2>1, ContextPlaces
  <2>3. \A h \in Handles : handle[h] \notin {"closing", "closed"}
    BY <2>2 DEF DiscoveryInv, HandlesTogether
  <2>4. \A h \in Handles : handle'[h] \notin {"closing", "closed"}
    BY <1>1, <2>3 DEF Listen, Scan, Open
  <2>5. ~ CloseCalled'
    BY <2>4 DEF CloseCalled, Handles
  <2>6. HandlesTogether'
    BY <2>1, <2>4, <2>5 DEF HandlesTogether
  <2>7. CauseCarried' /\ ContextIsDue' /\ IsFiniteSet(posting')
    BY <2>1, <2>2, <2>5 DEF CauseCarried, ContextIsDue, closeVars, DiscoveryInv
  <2>8. CountsHandles'
    BY <2>1, <2>3, <2>4 DEF CountsHandles, ClosedOne, DiscoveryInv, Handles, ioVars
  <2>9. OneContext'
    <3>1. Cardinality(posting') = 0 /\ Len(closeQ') = 0
      BY <2>1, <2>2, FS_EmptySet DEF closeVars
    <3> QED BY <2>1, <2>5, <3>1 DEF OneContext, CloseCalled
  <2> QED BY <2>6, <2>7, <2>8, <2>9 DEF DiscoveryInv
<1>2. CASE Destroy
  BY <1>2 DEF Destroy, DiscoveryInv, HandlesTogether, CloseCalled, CauseCarried, CountsHandles,
              ClosedOne, OneContext, ContextIsDue, closeVars, handleVars, ioVars
<1>3. ASSUME NEW u \in Users, CloseBegins(u)
      PROVE  DiscoveryInv'
  <2>1. /\ posting = {} /\ closeQ = << >> /\ loop \notin {"close", "aborted"} /\ ~ CloseCalled
    BY <1>3, ContextPlaces DEF CloseBegins
  <2>2. posting' = {u} /\ IsFiniteSet(posting') /\ Cardinality(posting') = 1
    <3>1. posting' = {u}
      BY <1>3, <2>1 DEF CloseBegins
    <3> QED BY <3>1, FS_Singleton
  <2>3. HandlesTogether' /\ CountsHandles' /\ ContextIsDue' /\ CauseCarried'
    BY <1>3, <2>1 DEF CloseBegins, DiscoveryInv, HandlesTogether, CloseCalled, CountsHandles,
                      ClosedOne, ContextIsDue, CauseCarried, handleVars, ioVars
  <2>4. OneContext'
    <3>1. Len(closeQ') = 0
      BY <1>3, <2>1 DEF CloseBegins
    <3> QED BY <1>3, <2>1, <2>2, <3>1 DEF CloseBegins, OneContext, CloseCalled, handleVars
  <2> QED BY <2>2, <2>3, <2>4 DEF DiscoveryInv
<1>4. ASSUME NEW u \in Users, ClosePosted(u)
      PROVE  DiscoveryInv'
  <2>1. posting # {}
    BY <1>4 DEF ClosePosted
  <2>2. /\ Cardinality(posting) = 1 /\ closeQ = << >>
        /\ loop \notin {"close", "aborted"} /\ ~ CloseCalled /\ state = "CLOSING"
    BY <2>1, ContextPlaces
  <2>3. IsFiniteSet(posting') /\ Cardinality(posting') = 0 /\ posting' = {}
    <3>1. posting' = posting \ {u} /\ u \in posting
      BY <1>4 DEF ClosePosted
    <3>2. IsFiniteSet(posting')
      BY <3>1, FS_RemoveElement DEF DiscoveryInv
    <3>3. Cardinality(posting') = 0
      BY <2>2, <3>1, FS_RemoveElement DEF DiscoveryInv
    <3> QED BY <3>2, <3>3, FS_EmptySet
  <2>4. closeQ' = <<"OK">> /\ closeSig' = TRUE
    BY <1>4, <2>2, PostIsPending DEF ClosePosted, Errors
  <2>5. HandlesTogether' /\ CountsHandles' /\ ContextIsDue'
    BY <1>4, <2>4 DEF ClosePosted, DiscoveryInv, HandlesTogether, CloseCalled, CountsHandles,
                      ClosedOne, ContextIsDue, handleVars, ioVars
  <2>6. CauseCarried'
    BY <1>4, <2>1, <2>2, <2>3, <2>4 DEF ClosePosted, DiscoveryInv, CauseCarried, CloseCalled,
                                        handleVars
  <2>7. OneContext'
    <3>1. Len(closeQ') = 1
      BY <2>4
    <3> QED BY <1>4, <2>2, <2>3, <3>1 DEF ClosePosted, OneContext, CloseCalled, handleVars
  <2> QED BY <2>3, <2>5, <2>6, <2>7 DEF DiscoveryInv
<1>5. CASE ThreadStarts
  BY <1>5 DEF ThreadStarts, Begins, DiscoveryInv, HandlesTogether, CloseCalled, CauseCarried,
              CountsHandles, ClosedOne, OneContext, ContextIsDue, closeVars, handleVars, ioVars
<1>6. CASE Bound
  <2>1. CASE LoopClose("BINDING")
    BY <1>6, <2>1, LoopClosePosts, ClosingStep DEF Bound, Errors, ioVars
  <2>2. CASE UNCHANGED <<state, closeVars, cause>>
    BY <1>6, <2>2, ClosingStep DEF Bound, ioVars
  <2> QED BY <1>6, <2>1, <2>2 DEF Bound
<1>7. CASE Joined
  <2>1. CASE LoopClose("JOINING_GROUP")
    BY <1>7, <2>1, LoopClosePosts, ClosingStep DEF Joined, Errors, ioVars
  <2>2. CASE UNCHANGED <<state, closeVars, cause>>
    BY <1>7, <2>2, ClosingStep DEF Joined, ioVars
  <2> QED BY <1>7, <2>1, <2>2 DEF Joined
<1>8. CASE ReceiveStarts
  BY <1>8, ClosingStep DEF ReceiveStarts
<1>9. CASE SendPacket
  <2>1. handle["udp"] # "closed"
    BY <1>9 DEF SendPacket, DiscoveryInv, HandlesTogether, Handles
  <2> QED BY <1>9, <2>1, ClosingStep DEF SendPacket
<1>10. CASE Sent
  BY <1>10, ClosingStep DEF Sent
<1>11. CASE SendFailed
  <2>1. LoopClose("SENDING_FRAME") /\ "SENDING_FRAME" \in Errors /\ handle["udp"] # "closed"
    BY <1>11 DEF SendFailed, Errors
  <2> QED BY <1>11, <2>1, LoopClosePosts, ClosingStep DEF SendFailed
<1>12. CASE CloseWakes
  <2>1. TakeClose /\ loop = "run" /\ UNCHANGED <<state, posting, handleVars, ioVars, cause>>
    BY <1>12 DEF CloseWakes
  <2>2. closeQ' = << >> /\ IF closeQ = << >>
                           THEN loop' = "run" /\ hand' = hand
                           ELSE loop' = "close" /\ hand' = closeQ[1] /\ Len(closeQ) = 1
    BY <2>1, TakeCloseFirst DEF DiscoveryInv, DiscoveryTypeOK
  <2>3. HandlesTogether' /\ CountsHandles' /\ ContextIsDue' /\ CauseCarried'
    BY <2>1, <2>2 DEF DiscoveryInv, HandlesTogether, CloseCalled, CountsHandles,
                      ClosedOne, ContextIsDue, CauseCarried, handleVars, ioVars
  <2>4. OneContext'
    <3>1. Len(closeQ') = 0
      BY <2>2
    <3>2. CASE closeQ = << >>
      BY <2>1, <2>2, <3>1, <3>2 DEF DiscoveryInv, OneContext, handleVars
    <3>3. CASE closeQ # << >>
      <4>1. posting' = {} /\ state' = "CLOSING" /\ ~ CloseCalled'
        BY <2>1, <3>3, ContextPlaces DEF CloseCalled, handleVars
      <4>2. Cardinality(posting') = 0 /\ loop' = "close"
        BY <2>2, <3>3, <4>1, FS_EmptySet
      <4> QED BY <3>1, <4>1, <4>2 DEF OneContext, CloseCalled
    <3> QED BY <3>2, <3>3
  <2> QED BY <2>1, <2>3, <2>4 DEF DiscoveryInv
<1>13. CASE CloseHandles
  <2>1. posting = {} /\ closeQ = << >> /\ ~ CloseCalled /\ state = "CLOSING"
    BY <1>13, ContextPlaces DEF CloseHandles
  <2>2. loop' = "run" /\ closeQ' = << >>
    <3>1. TakeClose
      BY <1>13 DEF CloseHandles
    <3> QED BY <2>1, <3>1 DEF TakeClose
  <2>3. (\A h \in Handles : handle'[h] = "closing") /\ CloseCalled'
    BY <1>13 DEF CloseHandles, CloseCalled, Handles
  <2>4. HandlesTogether' /\ ContextIsDue' /\ CauseCarried'
    BY <1>13, <2>1, <2>2, <2>3 DEF CloseHandles, DiscoveryInv, HandlesTogether, ContextIsDue,
                                   CauseCarried
  <2>5. CountsHandles'
    <3>1. \A h \in Handles : handle[h] # "closed" /\ handle'[h] # "closed"
      BY <1>13, <2>3 DEF CloseHandles
    <3> QED BY <1>13, <3>1 DEF CloseHandles, DiscoveryInv, CountsHandles, ClosedOne, Handles
  <2>6. OneContext' /\ IsFiniteSet(posting')
    <3>1. Cardinality(posting') = 0 /\ Len(closeQ') = 0 /\ posting' = {} /\ state' = "CLOSING"
      BY <1>13, <2>1, <2>2, FS_EmptySet DEF CloseHandles
    <3> QED BY <2>2, <2>3, <3>1, FS_EmptySet DEF OneContext, CloseCalled
  <2> QED BY <2>4, <2>5, <2>6 DEF DiscoveryInv
<1>14. CASE CloseHandlesFails
  BY <1>14 DEF CloseHandlesFails, DiscoveryInv, HandlesTogether, CloseCalled, CauseCarried,
               CountsHandles, ClosedOne, OneContext, ContextIsDue, closeVars, handleVars, ioVars
<1>15. ASSUME NEW h \in Handles, HandleClosed(h)
       PROVE  DiscoveryInv'
  <2>1. handle[h] = "closing" /\ CloseCalled
    BY <1>15 DEF HandleClosed, DiscoveryInv, HandlesTogether
  <2>2. /\ handle'[h] = "closed"
        /\ \A g \in Handles : g # h => handle'[g] = handle[g]
    BY <1>15 DEF HandleClosed, DiscoveryInv, DiscoveryTypeOK
  <2>3. CloseCalled'
    BY <2>1, <2>2 DEF CloseCalled, Handles
  <2>4. HandlesTogether' /\ ContextIsDue' /\ CauseCarried' /\ IsFiniteSet(posting')
    BY <1>15, <2>1, <2>2, <2>3 DEF HandleClosed, DiscoveryInv, HandlesTogether, ContextIsDue,
                                   CauseCarried, closeVars
  <2>5. CountsHandles'
    <3>1. closedCount' = ClosedOne("udp")' + ClosedOne("timer")' + ClosedOne("close_async")'
      BY <1>15, <2>1, <2>2 DEF HandleClosed, DiscoveryInv, CountsHandles, ClosedOne, Handles
    <3>2. closedCount # 3
      BY <2>1 DEF DiscoveryInv, CountsHandles, ClosedOne, Handles
    <3>3. reports' = IF closedCount' = 3 THEN 1 ELSE 0
      BY <1>15, <3>2 DEF HandleClosed, AllClosed, DiscoveryInv, CountsHandles
    <3>4. handle'["udp"] = "closed" => flight' = 0
      BY <1>15, <2>2 DEF HandleClosed, DiscoveryInv, CountsHandles, Handles, ioVars
    <3> QED BY <3>1, <3>3, <3>4 DEF CountsHandles
  <2>6. OneContext'
    BY <1>15, <2>1, <2>3 DEF HandleClosed, DiscoveryInv, OneContext, CloseCalled, closeVars
  <2> QED BY <2>4, <2>5, <2>6 DEF DiscoveryInv
<1>16. CASE LoopEnds
  BY <1>16 DEF LoopEnds, DiscoveryInv, HandlesTogether, CloseCalled, CauseCarried,
               CountsHandles, ClosedOne, OneContext, ContextIsDue, closeVars, handleVars, ioVars
<1>17. CASE UNCHANGED vars
  BY <1>17 DEF vars, DiscoveryInv, HandlesTogether, CloseCalled, CauseCarried,
               CountsHandles, ClosedOne, OneContext, ContextIsDue, closeVars, handleVars, ioVars
<1> QED BY <1>1, <1>2, <1>3, <1>4, <1>5, <1>6, <1>7, <1>8, <1>9, <1>10, <1>11, <1>12, <1>13, <1>14,
           <1>15, <1>16, <1>17 DEF Next

(* What the invariant says of the report. *)
LEMMA ReportIsLast == DiscoveryInv => ReportTellsCause
<1> SUFFICES ASSUME DiscoveryInv, reports > 0
             PROVE  ReportTellsCause
  BY DEF ReportTellsCause
<1>1. reports = 1 /\ closedCount = 3
  BY DEF DiscoveryInv, CountsHandles
<1>2. \A h \in Handles : handle[h] = "closed"
  BY <1>1 DEF DiscoveryInv, CountsHandles, ClosedOne, Handles
<1>3. CloseCalled /\ flight = 0
  BY <1>2 DEF CloseCalled, Handles, DiscoveryInv, CountsHandles
<1>4. closeError = cause
  BY <1>3 DEF DiscoveryInv, CauseCarried
<1> QED BY <1>1, <1>2, <1>3, <1>4 DEF ReportTellsCause

(* cobra_discovery_create establishes the invariant.                       *)
LEMMA InitInv == Init => DiscoveryInv
<1> SUFFICES ASSUME Init PROVE DiscoveryInv
  OBVIOUS
<1>1. DiscoveryTypeOK
  <2>1. closeQ \in Seq(Errors) /\ Len(closeQ) = 0
    BY EmptySeq DEF Init
  <2>2. closedCount \in 0 .. Cardinality(Handles) /\ flight \in 0 .. MaxFlight
    BY ThreeHandles, DiscoveryAssumption DEF Init
  <2>3. handle \in [Handles -> {"uninit", "open", "closing", "closed"}]
    BY DEF Init
  <2>4. Len(closeQ) <= 1 /\ reports \in Nat
    BY <2>1 DEF Init
  <2>5. closeSig \in BOOLEAN /\ started \in BOOLEAN
    BY DEF Init
  <2> QED BY <2>1, <2>2, <2>3, <2>4, <2>5, Zenon DEF Init, DiscoveryTypeOK
<1>2. IsFiniteSet(posting) /\ Cardinality(posting) = 0 /\ Len(closeQ) = 0
  BY FS_EmptySet DEF Init
<1>3. HandlesTogether /\ CauseCarried /\ CountsHandles /\ ContextIsDue
  BY DEF Init, HandlesTogether, CloseCalled, CauseCarried, CountsHandles, ClosedOne, Handles,
         ContextIsDue
<1>4. OneContext
  BY <1>2 DEF Init, OneContext, Handles
<1> QED BY <1>1, <1>2, <1>3, <1>4 DEF DiscoveryInv

(* A discovery is closed by one context, whoever closes it and whatever    *)
(* fails (discovery_close.c:18-33), the context wakes the loop, and the    *)
(* report comes once, after everything else, with the first cause.         *)
THEOREM DiscoverySafe ==
    Spec => [](DiscoveryTypeOK /\ OneContext /\ ContextIsDue /\ ReportTellsCause)
<1>1. DiscoveryInv => DiscoveryTypeOK /\ OneContext /\ ContextIsDue /\ ReportTellsCause
  BY ReportIsLast DEF DiscoveryInv
<1> QED BY <1>1, InitInv, InvStep, PTL DEF Spec, Safety

(* What the two modes make of the handles: a scan has all of them open     *)
(* until it closes them, any other discovery a timer that was never        *)
(* initialised.                                                            *)
HandlesOfMode ==
    IF mode = "scan"
    THEN HandlesInitialised /\ (CloseCalled \/ \A h \in Handles : handle[h] = "open")
    ELSE handle["timer"] = "uninit"

LEMMA HandlesOfModeStep == DiscoveryInv /\ HandlesOfMode /\ [Next]_vars => HandlesOfMode'
<1> SUFFICES ASSUME DiscoveryInv, HandlesOfMode, [Next]_vars
             PROVE  HandlesOfMode'
  OBVIOUS
<1> USE DEF closeVars, handleVars, ioVars
<1>0. /\ handle \in [Handles -> {"uninit", "open", "closing", "closed"}]
      /\ "timer" \in Handles /\ "close_async" \in Handles
  BY DEF DiscoveryInv, DiscoveryTypeOK, Handles
<1>1. CASE Listen
  <2>1. mode = "none" /\ mode' = "listen" /\ handle'["timer"] = handle["timer"]
    BY <1>0, <1>1 DEF Listen, Open
  <2> QED BY <2>1 DEF HandlesOfMode
<1>2. CASE Scan
  BY <1>0, <1>2 DEF Scan, Open, HandlesOfMode, HandlesInitialised
<1>3. CASE CloseHandles
  <2>1. mode = "scan" /\ mode' = mode
    BY <1>0, <1>3 DEF CloseHandles, HandlesOfMode
  <2>2. loop' # "aborted" /\ CloseCalled'
    BY <1>0, <1>3 DEF CloseHandles, TakeClose, CloseCalled
  <2> QED BY <2>1, <2>2 DEF HandlesOfMode, HandlesInitialised
<1>4. CASE CloseHandlesFails
  <2>1. ~ CloseCalled /\ \E h \in Handles : handle[h] # "open"
    BY <1>4, ContextPlaces DEF CloseHandlesFails, DiscoveryInv
  <2>2. mode # "scan"
    BY <2>1 DEF HandlesOfMode
  <2> QED BY <1>4, <2>2 DEF CloseHandlesFails, HandlesOfMode
<1>5. ASSUME NEW h \in Handles, HandleClosed(h)
      PROVE  HandlesOfMode'
  <2>1. CloseCalled /\ handle["timer"] \in {"closing", "closed"}
    BY <1>0, <1>5 DEF HandleClosed, DiscoveryInv, HandlesTogether
  <2>2. mode = "scan" /\ HandlesInitialised
    BY <2>1 DEF HandlesOfMode
  <2>3. CloseCalled' /\ UNCHANGED <<mode, loop>>
    BY <1>0, <1>5, <2>1 DEF HandleClosed, CloseCalled
  <2> QED BY <2>2, <2>3 DEF HandlesOfMode, HandlesInitialised
(* The other steps leave the handles and the mode of an open one alone. *)
<1>6. ASSUME UNCHANGED handle, mode' = mode \/ (mode = "none" /\ mode' = "freed"),
             loop' = loop \/ loop' # "aborted"
      PROVE  HandlesOfMode'
  BY <1>6 DEF HandlesOfMode, HandlesInitialised, CloseCalled
<1>7. CASE Destroy \/ (\E u \in Users : CloseBegins(u) \/ ClosePosted(u)) \/ UNCHANGED vars
  BY <1>6, <1>7 DEF Destroy, CloseBegins, ClosePosted, vars
<1>8. CASE ThreadStarts \/ Bound \/ Joined \/ ReceiveStarts
  BY <1>6, <1>8 DEF ThreadStarts, Bound, Joined, ReceiveStarts
<1>9. CASE SendPacket \/ Sent \/ SendFailed \/ CloseWakes \/ LoopEnds
  BY <1>6, <1>9 DEF SendPacket, Sent, SendFailed, CloseWakes, TakeClose, LoopEnds
<1> QED BY <1>1, <1>2, <1>3, <1>4, <1>5, <1>7, <1>8, <1>9 DEF Next

(* A scan closes only handles that it initialised (discovery_scan.c:17-19, *)
(* discovery_close.c:51-55).                                               *)
THEOREM ScanHandlesInitialised == Safety => [](mode = "scan" => HandlesInitialised)
<1>1. Init => HandlesOfMode
  BY DEF Init, HandlesOfMode, Handles
<1>2. HandlesOfMode => (mode = "scan" => HandlesInitialised)
  BY DEF HandlesOfMode
<1> QED BY <1>1, <1>2, HandlesOfModeStep, InitInv, InvStep, PTL DEF Safety

(* The close of a listener is never reported: its loop does not survive    *)
(* the closing of a timer that was not initialised.                        *)
THEOREM ListenerNeverReports == Safety => [](mode = "listen" => reports = 0)
<1>1. Init => HandlesOfMode
  BY DEF Init, HandlesOfMode, Handles
<1>2. DiscoveryInv /\ HandlesOfMode => (mode = "listen" => reports = 0)
  <2> SUFFICES ASSUME DiscoveryInv, HandlesOfMode, mode = "listen"
               PROVE  reports = 0
    OBVIOUS
  <2>1. ClosedOne("timer") = 0 /\ ClosedOne("udp") <= 1 /\ ClosedOne("close_async") <= 1
    BY DEF HandlesOfMode, ClosedOne
  <2>2. closedCount # 3
    BY <2>1 DEF DiscoveryInv, CountsHandles, ClosedOne
  <2> QED BY <2>2 DEF DiscoveryInv, CountsHandles
<1> QED BY <1>1, <1>2, HandlesOfModeStep, InitInv, InvStep, PTL DEF Safety

(* close_async is bound when the discovery is opened, in both modes. *)
BoundWithLoop == (loop = "none") <=> (handle["close_async"] = "uninit")

LEMMA BoundStep == DiscoveryInv /\ BoundWithLoop /\ [Next]_vars => BoundWithLoop'
<1> SUFFICES ASSUME DiscoveryInv, BoundWithLoop, [Next]_vars
             PROVE  BoundWithLoop'
  OBVIOUS
<1> USE DEF BoundWithLoop
<1>1. CASE Listen \/ Scan
  BY <1>1 DEF Listen, Scan, Open, Handles
<1>2. CASE CloseHandles
  BY <1>2 DEF CloseHandles, TakeClose, DiscoveryInv, HandlesTogether, Handles
<1>3. ASSUME NEW h \in Handles, HandleClosed(h)
      PROVE  BoundWithLoop'
  <2>1. handle'["close_async"] \in {handle["close_async"], "closed"} /\ loop = "run" /\ loop' = "run"
    BY <1>3 DEF HandleClosed, DiscoveryInv, DiscoveryTypeOK
  <2> QED BY <2>1
<1>4. CASE CloseWakes
  BY <1>4 DEF CloseWakes, TakeClose, handleVars
<1>5. CASE \/ Destroy \/ ThreadStarts \/ Bound \/ Joined \/ ReceiveStarts \/ SendPacket \/ Sent
           \/ SendFailed \/ CloseHandlesFails \/ LoopEnds
           \/ \E u \in Users : CloseBegins(u) \/ ClosePosted(u)
           \/ UNCHANGED vars
  <2>1. handle' = handle
    BY <1>5 DEF Destroy, ThreadStarts, Bound, Joined, ReceiveStarts, SendPacket, Sent, SendFailed,
                CloseHandlesFails, LoopEnds, CloseBegins, ClosePosted, vars, handleVars
  <2>2. loop' = loop \/ (loop # "none" /\ loop' # "none")
    BY <1>5 DEF Destroy, ThreadStarts, Bound, Joined, ReceiveStarts, SendPacket, Sent, SendFailed,
                CloseHandlesFails, LoopEnds, CloseBegins, ClosePosted, vars
  <2> QED BY <2>1, <2>2
<1> QED BY <1>1, <1>2, <1>3, <1>4, <1>5 DEF Next

(* Every step of the discovery is one of the mailbox, or does not show.    *)
LEMMA MailboxStep ==
    DiscoveryInv /\ BoundWithLoop /\ [Next]_vars => [CloseBox!MailboxNext]_(CloseBox!mailboxVars)
<1> SUFFICES ASSUME DiscoveryInv, BoundWithLoop, [Next]_vars
             PROVE  CloseBox!MailboxNext \/ UNCHANGED CloseBox!mailboxVars
  BY Zenon
<1>t. /\ closeQ \in Seq(Errors) /\ Len(closeQ) <= 1 /\ Len(closeQ) \in Nat
      /\ handle = [h \in Handles |-> handle[h]]
      /\ "close_async" \in Handles
      /\ loop = "close" => hand \in Errors
      /\ None \notin Errors
  BY LenProperties DEF DiscoveryInv, DiscoveryTypeOK, Handles, Errors, None
<1> USE DEF CloseBox!MailboxNext, CloseBox!mailboxVars
<1>p. ASSUME NEW error \in Errors, Post(error), loop # "none", handle' = handle, hand' = hand,
             loop' = loop \/ (loop \notin {"close", "aborted"} /\ loop' \notin {"close", "aborted"})
      PROVE  CloseBox!MailboxNext \/ UNCHANGED CloseBox!mailboxVars
  <2>1. CASE Len(closeQ) = 1
    <3>1. closeQ' = closeQ /\ closeSig' = closeSig
      BY <1>p, <2>1 DEF Post
    <3> QED BY <1>p, <3>1
  <2>2. CASE Len(closeQ) # 1
    <3>1. Len(closeQ) < 1
      <4> DEFINE n == Len(closeQ)
      <4>1. n \in Nat /\ n <= 1 /\ n # 1
        BY <1>t, <2>2
      <4> HIDE DEF n
      <4>2. n < 1
        BY <4>1
      <4> QED BY <4>2 DEF n
    <3>2. closeQ' = Append(closeQ, error) /\ closeSig' = TRUE
      BY <1>p, <2>2 DEF Post
    <3>3. handle["close_async"] # "uninit" /\ handle["close_async"] # "unbound"
      BY <1>p, <1>t DEF BoundWithLoop, DiscoveryInv, DiscoveryTypeOK
    <3>4. CloseBox!Post(error)
      BY <1>p, <3>1, <3>2, <3>3 DEF CloseBox!Post
    <3> QED BY <3>4
  <2> QED BY <2>1, <2>2
<1>l. ASSUME NEW error \in Errors, LoopClose(error), loop # "none", handle' = handle, hand' = hand,
             loop' = loop \/ (loop \notin {"close", "aborted"} /\ loop' \notin {"close", "aborted"})
      PROVE  CloseBox!MailboxNext \/ UNCHANGED CloseBox!mailboxVars
  <2>1. Post(error) \/ (closeQ' = closeQ /\ closeSig' = closeSig)
    BY <1>l DEF LoopClose, closeVars
  <2> QED BY <1>l, <1>p, <2>1
<1>1. CASE Listen \/ Scan
  <2>1. loop = "none"
    BY <1>1 DEF Listen, Scan, Open, DiscoveryInv, HandlesTogether
  <2>2. handle["close_async"] = "uninit"
    BY <2>1 DEF BoundWithLoop
  <2>3. handle'["close_async"] = "open" /\ loop' = "start" /\ closeQ' = closeQ /\ closeSig' = closeSig
    BY <1>1, <1>t DEF Listen, Scan, Open, Handles, closeVars
  <2>4. CloseBox!Bound
    BY <2>1, <2>2, <2>3 DEF CloseBox!Bound
  <2> QED BY <2>4
<1>2. CASE CloseWakes
  <2>1. /\ loop = "run" /\ closeSig /\ handle["close_async"] = "open" /\ closeSig' = FALSE
        /\ TakeClose /\ handle' = handle
    BY <1>2 DEF CloseWakes, handleVars
  <2>2. CloseBox!Take
    BY <2>1 DEF TakeClose, CloseBox!Take
  <2>3. CloseBox!Wakes
    BY <2>1, <2>2 DEF CloseBox!Wakes
  <2> QED BY <2>3
<1>3. CASE CloseHandles
  <2>1. loop = "close" /\ TakeClose /\ closeSig' = closeSig /\ handle'["close_async"] = "closing"
    BY <1>3, <1>t DEF CloseHandles
  <2>2. handle["close_async"] = "open"
    <3>1. ~ CloseCalled
      BY <2>1, ContextPlaces
    <3>2. handle["close_async"] # "uninit"
      BY <2>1 DEF BoundWithLoop
    <3> QED BY <3>1, <3>2, <1>t DEF CloseCalled, DiscoveryInv, DiscoveryTypeOK
  <2>3. CloseBox!Take
    BY <2>1 DEF TakeClose, CloseBox!Take
  <2>4. CloseBox!Returns
    BY <1>t, <2>1, <2>2, <2>3 DEF CloseBox!Returns
  <2> QED BY <2>4
<1>4. ASSUME NEW h \in Handles, HandleClosed(h)
      PROVE  CloseBox!MailboxNext \/ UNCHANGED CloseBox!mailboxVars
  <2>1. /\ loop = "run" /\ loop' = loop /\ hand' = hand /\ closeQ' = closeQ /\ closeSig' = closeSig
        /\ handle[h] = "closing" /\ handle' = [handle EXCEPT ![h] = "closed"]
    BY <1>4 DEF HandleClosed, closeVars
  <2>2. CASE h = "close_async"
    <3>1. handle["close_async"] = "closing" /\ handle'["close_async"] = "closed"
      BY <1>t, <2>1, <2>2
    <3>2. CloseBox!Closed
      BY <2>1, <3>1 DEF CloseBox!Closed
    <3> QED BY <3>2
  <2>3. CASE h # "close_async"
    <3>1. handle'["close_async"] = handle["close_async"]
      BY <1>t, <2>1, <2>3
    <3> QED BY <2>1, <3>1
  <2> QED BY <2>2, <2>3
<1>5. CASE Bound \/ Joined \/ SendFailed
  <2>1. /\ loop \in {"bind", "join", "run"} /\ loop' \in {"join", "receive", "run"}
        /\ handle' = handle /\ hand' = hand
        /\ \/ LoopClose("BINDING") \/ LoopClose("JOINING_GROUP") \/ LoopClose("SENDING_FRAME")
           \/ UNCHANGED closeVars
        /\ "BINDING" \in Errors /\ "JOINING_GROUP" \in Errors /\ "SENDING_FRAME" \in Errors
    BY <1>5 DEF Bound, Joined, SendFailed, Errors, handleVars
  <2>2. CASE UNCHANGED closeVars
    BY <2>1, <2>2 DEF closeVars
  <2> QED BY <1>l, <2>1, <2>2
<1>6. ASSUME NEW u \in Users, ClosePosted(u)
      PROVE  CloseBox!MailboxNext \/ UNCHANGED CloseBox!mailboxVars
  <2>1. /\ Post("OK") /\ "OK" \in Errors /\ handle' = handle /\ hand' = hand /\ loop' = loop
        /\ posting # {}
    BY <1>6 DEF ClosePosted, Errors, handleVars
  <2>2. loop # "none"
    BY <2>1, ContextPlaces DEF DiscoveryInv, HandlesTogether
  <2> QED BY <1>p, <2>1, <2>2
<1>7. CASE \/ Destroy \/ ThreadStarts \/ ReceiveStarts \/ SendPacket \/ Sent
           \/ CloseHandlesFails \/ LoopEnds
           \/ \E u \in Users : CloseBegins(u)
           \/ UNCHANGED vars
  <2>1. handle' = handle /\ hand' = hand /\ closeQ' = closeQ /\ closeSig' = closeSig
    BY <1>7 DEF Destroy, ThreadStarts, ReceiveStarts, SendPacket, Sent, CloseHandlesFails, LoopEnds,
                CloseBegins, vars, handleVars, closeVars
  <2>2. loop' = loop \/ (loop = "close" /\ loop' = "aborted")
        \/ (loop \in {"start", "receive", "run"} /\ loop' \in {"bind", "run", "ended"})
    BY <1>7 DEF Destroy, ThreadStarts, ReceiveStarts, SendPacket, Sent, CloseHandlesFails, LoopEnds,
                CloseBegins, vars
  <2> QED BY <2>1, <2>2
<1> QED BY <1>1, <1>2, <1>3, <1>4, <1>5, <1>6, <1>7 DEF Next

(* close_async of a discovery is used as the mailbox that it is, for every *)
(* set of users.                                                           *)
THEOREM DiscoveryUsesMailbox == Safety => UsesMailbox
<1>1. Init => BoundWithLoop /\ CloseBox!MailboxInit
  BY DEF Init, BoundWithLoop, Handles, CloseBox!MailboxInit
<1> QED BY <1>1, InitInv, InvStep, BoundStep, MailboxStep, PTL
        DEF Safety, UsesMailbox, CloseBox!MailboxSpec
=============================================================================
