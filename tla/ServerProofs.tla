---------------------------- MODULE ServerProofs ----------------------------
(***************************************************************************)
(* The life of a server, for every set of users and of connections: it is  *)
(* closed once, what its user is told is what closed it first, and its     *)
(* callbacks are those of ServerView.                                      *)
(***************************************************************************)
EXTENDS Server, FiniteSetTheorems, SequenceTheorems, TLAPS

(* uv_close has been called on the handles. *)
CloseCalled == handle["close_async"] \in {"closing", "closed"}

(* The handles are closed together, and only once a thread runs the loop.  *)
HandlesTogether ==
    /\ (state = "CLOSED") <=> (loop = "none")
    /\ loop = "none" => ~ CloseCalled
    /\ \A h \in Handles : handle[h] \in {"closing", "closed"} <=> CloseCalled

(* A context that is carried to the loop, and the error that is kept for   *)
(* the report, are of the first cause.                                     *)
CauseCarried ==
    /\ posting # {} => cause = "OK"
    /\ closeQ # << >> => closeQ[1] = cause
    /\ loop = "close" => hand = cause
    /\ CloseCalled => closeError = cause

(* The closed handles are counted, and the last one reports. *)
ClosedOne(h) == IF handle[h] = "closed" THEN 1 ELSE 0

CountsHandles ==
    /\ closedCount = ClosedOne("tcp") + ClosedOne("close_async")
    /\ reports = IF closedCount = 2 THEN 1 ELSE 0

ServerInv ==
    /\ ServerTypeOK
    /\ IsFiniteSet(posting)
    /\ HandlesTogether
    /\ CauseCarried
    /\ CountsHandles
    /\ OneContext
    /\ ContextIsDue

(* Where a close context can be: nowhere before the server is closing,  *)
(* and in one place only from then on.                                     *)
LEMMA ContextPlaces ==
    ASSUME ServerInv
    PROVE  /\ state # "CLOSING" => /\ posting = {} /\ closeQ = << >>
                                   /\ loop \notin {"close", "crashed"} /\ ~ CloseCalled
           /\ posting # {} => /\ Cardinality(posting) = 1 /\ closeQ = << >>
                              /\ loop \notin {"close", "crashed"} /\ ~ CloseCalled
           /\ closeQ # << >> => /\ posting = {} /\ Len(closeQ) = 1
                                /\ loop \notin {"close", "crashed"} /\ ~ CloseCalled
           /\ loop \in {"close", "crashed"} =>
                /\ posting = {} /\ closeQ = << >> /\ ~ CloseCalled
           /\ CloseCalled => posting = {} /\ closeQ = << >>
<1>1. /\ Cardinality(posting) \in Nat
      /\ Cardinality(posting) = 0 <=> posting = {}
  BY FS_CardinalityType, FS_EmptySet DEF ServerInv
<1>2. Len(closeQ) \in Nat /\ (Len(closeQ) = 0 <=> closeQ = << >>)
  BY EmptySeq DEF ServerInv, ServerTypeOK
<1> DEFINE inPosting == Cardinality(posting)
           inQueue == Len(closeQ)
           inHand == IF loop \in {"close", "crashed"} THEN 1 ELSE 0
           handled == IF CloseCalled THEN 1 ELSE 0
<1>3. inPosting + inQueue + inHand + handled = IF state = "CLOSING" THEN 1 ELSE 0
  BY DEF ServerInv, OneContext, CloseCalled
<1>4. /\ inHand \in 0 .. 1 /\ (inHand = 0 <=> loop \notin {"close", "crashed"})
      /\ handled \in 0 .. 1 /\ (handled = 0 <=> ~ CloseCalled)
  OBVIOUS
<1>5. inPosting \in Nat /\ inQueue \in Nat
  BY <1>1, <1>2
<1> HIDE DEF inPosting, inQueue, inHand, handled
<1>6. /\ state # "CLOSING" => inPosting = 0 /\ inQueue = 0 /\ inHand = 0 /\ handled = 0
      /\ inPosting # 0 => inPosting = 1 /\ inQueue = 0 /\ inHand = 0 /\ handled = 0
      /\ inQueue # 0 => inPosting = 0 /\ inQueue = 1 /\ inHand = 0 /\ handled = 0
      /\ inHand # 0 => inPosting = 0 /\ inQueue = 0 /\ handled = 0
      /\ handled # 0 => inPosting = 0 /\ inQueue = 0
  <2>1. inPosting + inQueue + inHand + handled <= 1
    BY <1>3, <1>4, <1>5
  <2>2. state # "CLOSING" => inPosting + inQueue + inHand + handled = 0
    BY <1>3
  <2> QED BY <2>1, <2>2, <1>4, <1>5
<1>7. /\ posting = {} <=> inPosting = 0
      /\ closeQ = << >> <=> inQueue = 0
  BY <1>1, <1>2 DEF inPosting, inQueue
<1> QED BY <1>4, <1>6, <1>7 DEF inPosting, inQueue

(* Posting a context when none is in the queue. *)
LEMMA PostIsPending ==
    ASSUME closeQ = << >>, NEW error \in Errors, Post(error)
    PROVE  closeQ' = <<error>> /\ closeSig' = TRUE
BY DEF Post

(* Closing from the loop thread: nothing happens, or the first context is  *)
(* in the queue and its error is the cause.                                *)
LEMMA LoopClosePosts ==
    ASSUME ServerInv, loop # "none", NEW error \in Errors, LoopClose(error)
    PROVE  \/ UNCHANGED <<state, closeVars, cause>>
           \/ /\ state # "CLOSING"
              /\ state' = "CLOSING" /\ cause' = error /\ posting' = posting
              /\ closeQ' = <<error>> /\ closeSig' = TRUE
<1>1. CASE state = "CLOSING"
  BY <1>1 DEF LoopClose
<1>2. CASE state # "CLOSING"
  <2>1. state # "CLOSED"
    BY DEF ServerInv, HandlesTogether
  <2>2. state' = "CLOSING" /\ cause' = error /\ Post(error) /\ posting' = posting
    BY <1>2, <2>1 DEF LoopClose
  <2>3. closeQ = << >>
    BY <1>2, ContextPlaces
  <2> QED BY <1>2, <2>2, <2>3, PostIsPending
<1> QED BY <1>1, <1>2

(* What the loop finds in close_async. *)
LEMMA TakeCloseFirst ==
    ASSUME closeQ \in Seq(Errors), Len(closeQ) <= 1, TakeClose
    PROVE  /\ closeQ' = << >>
           /\ IF closeQ = << >>
              THEN loop' = "run" /\ hand' = hand
              ELSE loop' = "close" /\ hand' = closeQ[1] /\ hand' \in Errors /\ Len(closeQ) = 1
<1>1. CASE closeQ = << >>
  BY <1>1 DEF TakeClose
<1>2. CASE closeQ # << >>
  <2>1. Len(closeQ) = 1
    <3> DEFINE n == Len(closeQ)
    <3>1. n \in Nat \ {0} /\ n <= 1
      BY <1>2, EmptySeq
    <3> HIDE DEF n
    <3>2. n = 1
      BY <3>1
    <3> QED BY <3>2 DEF n
  <2>2. Head(closeQ) = closeQ[1] /\ Head(closeQ) \in Errors
    BY <1>2, HeadTailProperties
  <2>3. Tail(closeQ) = << >>
    <3>1. Tail(closeQ) \in Seq(Errors) /\ Len(Tail(closeQ)) = 0
      BY <1>2, <2>1, HeadTailProperties
    <3> QED BY <3>1, EmptySeq
  <2> QED BY <1>2, <2>1, <2>2, <2>3 DEF TakeClose
<1> QED BY <1>1, <1>2

(* A step that leaves the handles, the loop's place in a close and the     *)
(* report alone, and either leaves the contexts alone or posts the first   *)
(* one, preserves the invariant.                                           *)
LEMMA ClosingStep ==
    ASSUME ServerInv, ServerTypeOK',
           UNCHANGED <<hand, handleVars>>,
           loop \notin {"none", "close", "crashed"}, loop' \notin {"none", "close", "crashed"},
           \/ UNCHANGED <<state, closeVars, cause>>
           \/ /\ state # "CLOSING"
              /\ state' = "CLOSING" /\ posting' = posting
              /\ closeQ' = <<cause'>> /\ closeSig' = TRUE
    PROVE  ServerInv'
<1>1. IsFiniteSet(posting)' /\ HandlesTogether' /\ CountsHandles'
  BY DEF ServerInv, HandlesTogether, CountsHandles, ClosedOne, CloseCalled, handleVars, closeVars
<1>2. CASE UNCHANGED <<state, closeVars, cause>>
  BY <1>1, <1>2 DEF ServerInv, OneContext, ContextIsDue, CauseCarried, CloseCalled,
                    handleVars, closeVars
<1>3. CASE /\ state # "CLOSING"
           /\ state' = "CLOSING" /\ posting' = posting
           /\ closeQ' = <<cause'>> /\ closeSig' = TRUE
  <2>1. posting = {} /\ ~ CloseCalled
    BY <1>3, ContextPlaces
  <2>2. CauseCarried' /\ ContextIsDue'
    BY <1>3, <2>1 DEF CauseCarried, ContextIsDue, CloseCalled, handleVars
  <2>3. Cardinality(posting') = 0 /\ Len(closeQ') = 1
    BY <1>3, <2>1, FS_EmptySet
  <2>4. OneContext'
    BY <1>3, <2>1, <2>3 DEF OneContext, CloseCalled, handleVars
  <2> QED BY <1>1, <2>2, <2>4 DEF ServerInv
<1> QED BY <1>2, <1>3

(* Every step preserves the types.                                         *)
LEMMA TypeStep == ServerInv /\ [Next]_vars => ServerTypeOK'
<1> SUFFICES ASSUME ServerInv, [Next]_vars
             PROVE  ServerTypeOK'
  OBVIOUS
<1> USE DEF ServerInv, ServerTypeOK, closeVars, handleVars, netVars
<1>1. ASSUME NEW error \in Errors, LoopClose(error), loop # "none"
      PROVE  /\ state' \in {"CLOSED", "INITIALIZING", "RESOLVING", "CLOSING"}
             /\ posting' \subseteq Users
             /\ closeQ' \in Seq(Errors) /\ Len(closeQ') <= 1
             /\ closeSig' \in BOOLEAN
             /\ cause' \in Errors \cup {None}
  <2>1. CASE UNCHANGED <<state, closeVars, cause>>
    BY <2>1
  <2>2. CASE /\ state' = "CLOSING" /\ cause' = error /\ posting' = posting
             /\ closeQ' = <<error>> /\ closeSig' = TRUE
    BY <2>2
  <2> QED BY <1>1, <2>1, <2>2, LoopClosePosts
<1>2. CASE Listen \/ Destroy
  BY <1>2 DEF Listen, Destroy
<1>3. ASSUME NEW u \in Users, CloseBegins(u)
      PROVE  ServerTypeOK'
  BY <1>3 DEF CloseBegins, Errors
<1>4. ASSUME NEW u \in Users, ClosePosted(u)
      PROVE  ServerTypeOK'
  <2>1. closeQ' = <<"OK">> /\ closeSig' = TRUE
    BY <1>4, ContextPlaces, PostIsPending DEF ClosePosted, Errors
  <2> QED BY <1>4, <2>1 DEF ClosePosted, Errors
<1>5. CASE ThreadStarts \/ LookupStarts
  BY <1>5 DEF ThreadStarts, LookupStarts
<1>6. CASE Resolved
  <2>1. listening' \in BOOLEAN
    BY <1>6 DEF Resolved
  <2>2. CASE UNCHANGED <<state, closeVars, cause>>
    BY <1>6, <2>1, <2>2 DEF Resolved
  <2>3. CASE LoopClose("BINDING") \/ LoopClose("LISTENING")
    BY <1>6, <2>1, <2>3, <1>1 DEF Resolved, Errors
  <2> QED BY <1>6, <2>2, <2>3 DEF Resolved
<1>7. CASE ResolveFailed \/ ResolveCanceled
  BY <1>7, <1>1 DEF ResolveFailed, ResolveCanceled, Errors
<1>8. CASE ConnectionFailed
  BY <1>8, <1>1 DEF ConnectionFailed, Errors
<1>9. ASSUME NEW s \in Conns,
             Connection(s) \/ SocketCloses(s) \/ DeadCloses(s) \/ SocketClosed(s)
      PROVE  ServerTypeOK'
  BY <1>9 DEF Connection, SocketCloses, DeadCloses, SocketClosed
<1>10. CASE CloseWakes \/ CloseHandles
  <2>1. /\ closeQ' \in Seq(Errors) /\ Len(closeQ') <= 1
        /\ loop' \in {"run", "close"} /\ (loop' = "close" => hand' \in Errors)
    <3>1. TakeClose
      BY <1>10 DEF CloseWakes, CloseHandles
    <3> QED BY <3>1, TakeCloseFirst
  <2>2. CASE CloseWakes
    BY <2>2, <2>1 DEF CloseWakes
  <2>3. CASE CloseHandles
    BY <2>3, <2>1 DEF CloseHandles
  <2> QED BY <1>10, <2>2, <2>3
<1>11. ASSUME NEW h \in Handles, HandleClosed(h)
       PROVE  ServerTypeOK'
  <2>1. closedCount' \in 0 .. 2
    BY <1>11 DEF HandleClosed, CountsHandles, ClosedOne, Handles
  <2>2. reports' \in Nat
    BY <1>11 DEF HandleClosed
  <2> QED BY <1>11, <2>1, <2>2 DEF HandleClosed
<1>12. CASE LoopEnds \/ CancelRefused
  BY <1>12 DEF LoopEnds, CancelRefused
<1>13. CASE UNCHANGED vars
  BY <1>13 DEF vars
<1> QED BY <1>2, <1>3, <1>4, <1>5, <1>6, <1>7, <1>8, <1>9, <1>10, <1>11, <1>12, <1>13 DEF Next

(* Every step preserves the invariant. *)
LEMMA InvStep == ServerInv /\ [Next]_vars => ServerInv'
<1> SUFFICES ASSUME ServerInv, [Next]_vars
             PROVE  ServerInv'
  OBVIOUS
<1>0. ServerTypeOK'
  BY TypeStep
<1> USE <1>0
<1>1. CASE Listen
  <2>1. /\ state = "CLOSED" /\ state' = "INITIALIZING" /\ loop' = "start"
        /\ handle' = [h \in Handles |-> "open"]
        /\ UNCHANGED <<closeVars, hand, closeError, closedCount, reports, cause>>
    BY <1>1 DEF Listen
  <2>2. posting = {} /\ closeQ = << >> /\ ~ CloseCalled
    BY <2>1, ContextPlaces
  <2>3. ~ CloseCalled' /\ HandlesTogether'
    BY <2>1 DEF CloseCalled, HandlesTogether, Handles
  <2>4. CauseCarried' /\ ContextIsDue' /\ IsFiniteSet(posting')
    BY <2>1, <2>2, <2>3 DEF CauseCarried, ContextIsDue, closeVars, ServerInv
  <2>5. CountsHandles'
    BY <2>1, <2>2 DEF CountsHandles, ClosedOne, ServerInv, HandlesTogether, Handles
  <2>6. OneContext'
    <3>1. Cardinality(posting') = 0 /\ Len(closeQ') = 0
      BY <2>1, <2>2, FS_EmptySet DEF closeVars
    <3> QED BY <2>1, <2>3, <3>1 DEF OneContext, CloseCalled
  <2> QED BY <2>3, <2>4, <2>5, <2>6 DEF ServerInv
<1>2. ASSUME NEW u \in Users, CloseBegins(u)
      PROVE  ServerInv'
  <2>1. /\ posting = {} /\ closeQ = << >> /\ loop \notin {"close", "crashed"} /\ ~ CloseCalled
    BY <1>2, ContextPlaces DEF CloseBegins
  <2>2. posting' = {u} /\ IsFiniteSet(posting') /\ Cardinality(posting') = 1
    <3>1. posting' = {u}
      BY <1>2, <2>1 DEF CloseBegins
    <3> QED BY <3>1, FS_Singleton
  <2>3. HandlesTogether' /\ CountsHandles' /\ ContextIsDue' /\ CauseCarried'
    BY <1>2, <2>1 DEF CloseBegins, ServerInv, HandlesTogether, CloseCalled, CountsHandles,
                      ClosedOne, ContextIsDue, CauseCarried, handleVars
  <2>4. OneContext'
    <3>1. Len(closeQ') = 0
      BY <1>2, <2>1 DEF CloseBegins
    <3> QED BY <1>2, <2>1, <2>2, <3>1 DEF CloseBegins, OneContext, CloseCalled, handleVars
  <2> QED BY <2>2, <2>3, <2>4 DEF ServerInv
<1>3. ASSUME NEW u \in Users, ClosePosted(u)
      PROVE  ServerInv'
  <2>1. posting # {}
    BY <1>3 DEF ClosePosted
  <2>2. /\ Cardinality(posting) = 1 /\ closeQ = << >>
        /\ loop \notin {"close", "crashed"} /\ ~ CloseCalled /\ state = "CLOSING"
    BY <2>1, ContextPlaces
  <2>3. IsFiniteSet(posting') /\ Cardinality(posting') = 0 /\ posting' = {}
    <3>1. posting' = posting \ {u} /\ u \in posting
      BY <1>3 DEF ClosePosted
    <3>2. IsFiniteSet(posting')
      BY <3>1, FS_RemoveElement DEF ServerInv
    <3>3. Cardinality(posting') = 0
      BY <2>2, <3>1, FS_RemoveElement DEF ServerInv
    <3> QED BY <3>2, <3>3, FS_EmptySet
  <2>4. closeQ' = <<"OK">> /\ closeSig' = TRUE
    BY <1>3, <2>2, PostIsPending DEF ClosePosted, Errors
  <2>5. HandlesTogether' /\ CountsHandles' /\ ContextIsDue'
    BY <1>3, <2>4 DEF ClosePosted, ServerInv, HandlesTogether, CloseCalled, CountsHandles,
                      ClosedOne, ContextIsDue, handleVars
  <2>6. CauseCarried'
    BY <1>3, <2>1, <2>2, <2>3, <2>4 DEF ClosePosted, ServerInv, CauseCarried, CloseCalled,
                                        handleVars
  <2>7. OneContext'
    <3>1. Len(closeQ') = 1
      BY <2>4
    <3> QED BY <1>3, <2>2, <2>3, <3>1 DEF ClosePosted, OneContext, CloseCalled, handleVars
  <2> QED BY <2>3, <2>5, <2>6, <2>7 DEF ServerInv
<1>4. CASE ThreadStarts \/ Destroy \/ CancelRefused \/ LoopEnds \/ UNCHANGED vars
  BY <1>4 DEF ThreadStarts, Destroy, CancelRefused, LoopEnds, vars, Begins, ServerInv, HandlesTogether,
              CloseCalled, CauseCarried, CountsHandles, ClosedOne, OneContext, ContextIsDue,
              closeVars, handleVars
<1>5. CASE LookupStarts \/ ResolveCanceled
           \/ \E s \in Conns : Connection(s) \/ SocketCloses(s) \/ DeadCloses(s) \/ SocketClosed(s)
  <2>1. UNCHANGED <<state, closeVars, loop, hand, handleVars, cause>>
    BY <1>5 DEF LookupStarts, ResolveCanceled, Connection, SocketCloses, DeadCloses, SocketClosed
  <2> QED BY <2>1 DEF ServerInv, HandlesTogether, CloseCalled, CauseCarried, CountsHandles,
                      ClosedOne, OneContext, ContextIsDue, closeVars, handleVars
<1>6. CASE Resolved \/ ResolveFailed \/ ConnectionFailed
  <2>1. loop = "run" /\ loop' = "run" /\ UNCHANGED <<hand, handleVars>>
    BY <1>6 DEF Resolved, ResolveFailed, ConnectionFailed
  <2>2. ASSUME NEW error \in Errors, LoopClose(error)
        PROVE  ServerInv'
    BY <2>1, <2>2, LoopClosePosts, ClosingStep
  <2>3. CASE UNCHANGED <<state, closeVars, cause>>
    BY <2>1, <2>3, ClosingStep
  <2> QED BY <1>6, <2>2, <2>3 DEF Resolved, ResolveFailed, ConnectionFailed, Errors
<1>7. CASE CloseWakes
  <2>1. TakeClose /\ loop = "run" /\ UNCHANGED <<state, posting, handleVars, cause>>
    BY <1>7 DEF CloseWakes
  <2>2. closeQ' = << >> /\ IF closeQ = << >>
                           THEN loop' = "run" /\ hand' = hand
                           ELSE loop' = "close" /\ hand' = closeQ[1] /\ Len(closeQ) = 1
    BY <2>1, TakeCloseFirst DEF ServerInv, ServerTypeOK
  <2>3. HandlesTogether' /\ CountsHandles' /\ ContextIsDue' /\ CauseCarried'
    BY <2>1, <2>2 DEF ServerInv, HandlesTogether, CloseCalled, CountsHandles,
                      ClosedOne, ContextIsDue, CauseCarried, handleVars
  <2>4. OneContext'
    <3>1. Len(closeQ') = 0
      BY <2>2
    <3>2. CASE closeQ = << >>
      BY <2>1, <2>2, <3>1, <3>2 DEF ServerInv, OneContext, handleVars
    <3>3. CASE closeQ # << >>
      <4>1. posting' = {} /\ state' = "CLOSING" /\ ~ CloseCalled'
        BY <2>1, <3>3, ContextPlaces DEF CloseCalled, handleVars
      <4>2. Cardinality(posting') = 0 /\ loop' = "close"
        BY <2>2, <3>3, <4>1, FS_EmptySet
      <4> QED BY <3>1, <4>1, <4>2 DEF OneContext, CloseCalled
    <3> QED BY <3>2, <3>3
  <2> QED BY <2>1, <2>3, <2>4 DEF ServerInv
<1>8. CASE CloseHandles
  <2>1. posting = {} /\ closeQ = << >> /\ ~ CloseCalled /\ state = "CLOSING"
    BY <1>8, ContextPlaces DEF CloseHandles
  <2>2. loop' = "run" /\ closeQ' = << >>
    <3>1. TakeClose
      BY <1>8 DEF CloseHandles
    <3> QED BY <2>1, <3>1 DEF TakeClose
  <2>3. (\A h \in Handles : handle'[h] = "closing") /\ CloseCalled'
    BY <1>8 DEF CloseHandles, CloseCalled, Handles
  <2>4. HandlesTogether' /\ ContextIsDue' /\ CauseCarried'
    BY <1>8, <2>1, <2>2, <2>3 DEF CloseHandles, ServerInv, HandlesTogether, ContextIsDue,
                                  CauseCarried
  <2>5. CountsHandles'
    <3>1. \A h \in Handles : handle[h] # "closed" /\ handle'[h] # "closed"
      BY <2>1, <2>3 DEF ServerInv, HandlesTogether
    <3> QED BY <1>8, <3>1 DEF CloseHandles, ServerInv, CountsHandles, ClosedOne, Handles
  <2>6. OneContext' /\ IsFiniteSet(posting')
    <3>1. Cardinality(posting') = 0 /\ Len(closeQ') = 0 /\ posting' = {} /\ state' = "CLOSING"
      BY <1>8, <2>1, <2>2, FS_EmptySet DEF CloseHandles
    <3> QED BY <2>2, <2>3, <3>1, FS_EmptySet DEF OneContext, CloseCalled
  <2> QED BY <2>4, <2>5, <2>6 DEF ServerInv
<1>9. ASSUME NEW h \in Handles, HandleClosed(h)
      PROVE  ServerInv'
  <2>1. handle[h] = "closing" /\ CloseCalled
    BY <1>9 DEF HandleClosed, ServerInv, HandlesTogether
  <2>2. /\ handle'[h] = "closed"
        /\ \A g \in Handles : g # h => handle'[g] = handle[g]
    BY <1>9 DEF HandleClosed, ServerInv, ServerTypeOK
  <2>3. CloseCalled'
    BY <2>1, <2>2 DEF CloseCalled, Handles
  <2>4. HandlesTogether' /\ ContextIsDue' /\ CauseCarried' /\ IsFiniteSet(posting')
    BY <1>9, <2>1, <2>2, <2>3 DEF HandleClosed, ServerInv, HandlesTogether, ContextIsDue,
                                  CauseCarried, closeVars
  <2>5. CountsHandles'
    <3>1. closedCount' = ClosedOne("tcp")' + ClosedOne("close_async")'
      BY <1>9, <2>1, <2>2 DEF HandleClosed, ServerInv, CountsHandles, ClosedOne, Handles
    <3>2. closedCount # 2
      BY <2>1 DEF ServerInv, CountsHandles, ClosedOne, Handles
    <3>3. reports' = IF closedCount' = 2 THEN 1 ELSE 0
      BY <1>9, <3>2 DEF HandleClosed, AllClosed, ServerInv, CountsHandles
    <3> QED BY <3>1, <3>3 DEF CountsHandles
  <2>6. OneContext'
    BY <1>9, <2>1, <2>3 DEF HandleClosed, ServerInv, OneContext, CloseCalled, closeVars
  <2> QED BY <2>4, <2>5, <2>6 DEF ServerInv
<1> QED BY <1>1, <1>2, <1>3, <1>4, <1>5, <1>6, <1>7, <1>8, <1>9 DEF Next

(* What the invariant says of the report. *)
LEMMA ReportIsLast == ServerInv => ReportTellsCause
<1> SUFFICES ASSUME ServerInv, reports > 0
             PROVE  ReportTellsCause
  BY DEF ReportTellsCause
<1>1. reports = 1 /\ closedCount = 2
  BY DEF ServerInv, CountsHandles
<1>2. \A h \in Handles : handle[h] = "closed"
  BY <1>1 DEF ServerInv, CountsHandles, ClosedOne, Handles
<1>3. CloseCalled
  BY <1>2 DEF CloseCalled, Handles
<1>4. closeError = cause
  BY <1>3 DEF ServerInv, CauseCarried
<1> QED BY <1>1, <1>2, <1>4 DEF ReportTellsCause

(* The initial state. *)
LEMMA InitInv == Init => ServerInv
<1> SUFFICES ASSUME Init PROVE ServerInv
  OBVIOUS
<1>1. ServerTypeOK
  <2>1. closeQ \in Seq(Errors) /\ Len(closeQ) = 0
    BY EmptySeq DEF Init
  <2>2. closedCount \in 0 .. 2 /\ Len(closeQ) <= 1 /\ reports \in Nat
    BY <2>1 DEF Init
  <2>3. /\ handle \in [Handles -> {"uninit", "open", "closing", "closed"}]
        /\ sock \in [Conns -> {"none", "open", "dead", "closing", "closed"}]
    BY DEF Init
  <2>4. closeSig \in BOOLEAN /\ listening \in BOOLEAN /\ freed \in BOOLEAN
    BY DEF Init
  <2> QED BY <2>1, <2>2, <2>3, <2>4, Zenon DEF Init, ServerTypeOK
<1>2. IsFiniteSet(posting) /\ Cardinality(posting) = 0 /\ Len(closeQ) = 0
  BY FS_EmptySet DEF Init
<1>3. HandlesTogether /\ CauseCarried /\ CountsHandles /\ ContextIsDue
  BY DEF Init, HandlesTogether, CloseCalled, CauseCarried, CountsHandles, ClosedOne, Handles,
         ContextIsDue
<1>4. OneContext
  BY <1>2 DEF Init, OneContext, Handles
<1> QED BY <1>1, <1>2, <1>3, <1>4 DEF ServerInv

(* A server is closed by one context, whoever closes it and whatever fails *)
(* (server_close.c:8-36), the context wakes the loop, and the report comes *)
(* once, when the handles are closed, with the first cause.                *)
THEOREM ServerSafe ==
    Safety => [](ServerTypeOK /\ OneContext /\ ContextIsDue /\ ReportTellsCause)
<1>1. ServerInv => ServerTypeOK /\ OneContext /\ ContextIsDue /\ ReportTellsCause
  BY ReportIsLast DEF ServerInv
<1> QED BY <1>1, InitInv, InvStep, PTL DEF Safety

(* Every step of the server is one that its user may expect, or none.      *)
LEMMA ServerViewStep == ServerInv /\ [Next]_vars => [View!ViewNext]_(View!viewVars)
<1> SUFFICES ASSUME ServerInv, [Next]_vars
             PROVE  View!ViewNext \/ UNCHANGED View!viewVars
  BY Zenon
<1> USE DEF View!viewVars, closeVars, handleVars, netVars
<1>1. CASE Listen
  <2>1. View!Open
    BY <1>1 DEF Listen, View!Open, ServerInv, HandlesTogether
  <2> QED BY <2>1 DEF View!ViewNext
<1>2. CASE \/ Destroy \/ ThreadStarts \/ LookupStarts \/ Resolved \/ ResolveFailed
           \/ ResolveCanceled \/ ConnectionFailed \/ CloseHandles \/ CloseWakes \/ CancelRefused
           \/ \E u \in Users : CloseBegins(u) \/ ClosePosted(u)
           \/ UNCHANGED vars
  <2>1. sock' = sock /\ reports' = reports
    BY <1>2 DEF Destroy, ThreadStarts, LookupStarts, Resolved, ResolveFailed, ResolveCanceled,
                ConnectionFailed, CloseHandles, CloseWakes, CancelRefused, CloseBegins, ClosePosted, vars
  <2>2. loop' = loop \/ (loop \in {"start", "run", "close"} /\ loop' \in {"run", "close", "crashed"})
    BY <1>2 DEF Destroy, ThreadStarts, LookupStarts, Resolved, ResolveFailed, ResolveCanceled,
                ConnectionFailed, CloseHandles, CloseWakes, CancelRefused, CloseBegins, ClosePosted, TakeClose, vars
  <2> QED BY <2>1, <2>2
<1>3. ASSUME NEW s \in Conns, Connection(s)
      PROVE  View!ViewNext
  <2>1. /\ loop = "run" /\ loop' = "run" /\ reports' = reports
        /\ sock[s] = "none" /\ sock'[s] \in {"open", "dead"}
        /\ \A t \in Conns : t # s => sock'[t] = sock[t]
    BY <1>3 DEF Connection, ServerInv, ServerTypeOK
  <2>2. reports = 0
    BY <1>3 DEF Connection, ServerInv, CountsHandles, ClosedOne
  <2>3. View!HandOver(s)
    BY <2>1, <2>2 DEF View!HandOver
  <2> QED BY <2>3 DEF View!ViewNext
<1>4. ASSUME NEW s \in Conns, SocketCloses(s) \/ DeadCloses(s)
      PROVE  UNCHANGED View!viewVars
  <2>1. /\ loop' = loop /\ reports' = reports
        /\ sock[s] \in {"open", "dead"} /\ sock'[s] = "closing"
        /\ \A t \in Conns : t # s => sock'[t] = sock[t]
    BY <1>4 DEF SocketCloses, DeadCloses, ServerInv, ServerTypeOK
  <2> QED BY <2>1
<1>5. ASSUME NEW s \in Conns, SocketClosed(s)
      PROVE  View!ViewNext
  <2>1. /\ loop = "run" /\ loop' = "run" /\ reports' = reports
        /\ sock[s] = "closing" /\ sock'[s] = "closed"
        /\ \A t \in Conns : t # s => sock'[t] = sock[t]
    BY <1>5 DEF SocketClosed, ServerInv, ServerTypeOK
  <2>2. View!SocketGone(s)
    BY <2>1 DEF View!SocketGone
  <2> QED BY <2>2 DEF View!ViewNext
<1>6. ASSUME NEW h \in Handles, HandleClosed(h)
      PROVE  View!ViewNext \/ UNCHANGED View!viewVars
  <2>1. loop = "run" /\ loop' = loop /\ sock' = sock
    BY <1>6 DEF HandleClosed
  <2>2. reports' = reports \/ (reports = 0 /\ reports' = 1)
    <3>1. closedCount # 2 /\ reports = 0
      BY <1>6 DEF HandleClosed, ServerInv, CountsHandles, ClosedOne, Handles
    <3> QED BY <1>6, <3>1 DEF HandleClosed
  <2>3. CASE reports = 0 /\ reports' = 1
    BY <2>1, <2>3 DEF View!ViewNext, View!CloseCalled
  <2> QED BY <2>1, <2>2, <2>3
<1>7. CASE LoopEnds
  <2>1. reports = 1
    BY <1>7 DEF LoopEnds, ServerInv, CountsHandles, ClosedOne, Handles
  <2>2. View!ThreadEnds
    BY <1>7, <2>1 DEF LoopEnds, View!ThreadEnds
  <2> QED BY <2>2 DEF View!ViewNext
<1> QED BY <1>1, <1>2, <1>3, <1>4, <1>5, <1>6, <1>7 DEF Next

(* The server implements what its user sees of it: each accepted socket is *)
(* handed over once and before the report, and the thread on whose loop    *)
(* the sockets live outlasts them all.                                     *)
THEOREM ServerImplementsView == Safety => ImplementsServerView
<1>1. Init => View!ViewInit
  BY DEF Init, View!ViewInit
<1> QED BY <1>1, InitInv, InvStep, ServerViewStep, PTL
        DEF Safety, ImplementsServerView, View!ViewSpec

(* close_async is bound when the server listens. *)
BoundWithLoop == (loop = "none") <=> (handle["close_async"] = "uninit")

LEMMA BoundStep == ServerInv /\ BoundWithLoop /\ [Next]_vars => BoundWithLoop'
<1> SUFFICES ASSUME ServerInv, BoundWithLoop, [Next]_vars
             PROVE  BoundWithLoop'
  OBVIOUS
<1> USE DEF BoundWithLoop
<1>1. CASE Listen
  BY <1>1 DEF Listen, Handles
<1>2. CASE CloseHandles
  BY <1>2 DEF CloseHandles, TakeClose, ServerInv, HandlesTogether, Handles
<1>3. ASSUME NEW h \in Handles, HandleClosed(h)
      PROVE  BoundWithLoop'
  <2>1. handle'["close_async"] \in {handle["close_async"], "closed"} /\ loop = "run" /\ loop' = "run"
    BY <1>3 DEF HandleClosed, ServerInv, ServerTypeOK
  <2> QED BY <2>1
<1>4. CASE CloseWakes
  BY <1>4 DEF CloseWakes, TakeClose, handleVars
<1>5. CASE \/ Destroy \/ ThreadStarts \/ LookupStarts \/ Resolved \/ ResolveFailed
           \/ ResolveCanceled \/ ConnectionFailed \/ CancelRefused \/ LoopEnds
           \/ \E u \in Users : CloseBegins(u) \/ ClosePosted(u)
           \/ \E s \in Conns : Connection(s) \/ SocketCloses(s) \/ DeadCloses(s) \/ SocketClosed(s)
           \/ UNCHANGED vars
  <2>1. handle' = handle
    BY <1>5 DEF Destroy, ThreadStarts, LookupStarts, Resolved, ResolveFailed, ResolveCanceled,
                ConnectionFailed, CancelRefused, LoopEnds, CloseBegins, ClosePosted, Connection,
                SocketCloses, DeadCloses, SocketClosed, vars, handleVars
  <2>2. loop' = loop \/ (loop # "none" /\ loop' # "none")
    BY <1>5 DEF Destroy, ThreadStarts, LookupStarts, Resolved, ResolveFailed, ResolveCanceled,
                ConnectionFailed, CancelRefused, LoopEnds, CloseBegins, ClosePosted, Connection,
                SocketCloses, DeadCloses, SocketClosed, vars
  <2> QED BY <2>1, <2>2
<1> QED BY <1>1, <1>2, <1>3, <1>4, <1>5 DEF Next

(* Every step of the server is one of the mailbox, or does not show in it. *)
LEMMA MailboxStep ==
    ServerInv /\ BoundWithLoop /\ [Next]_vars => [CloseBox!MailboxNext]_(CloseBox!mailboxVars)
<1> SUFFICES ASSUME ServerInv, BoundWithLoop, [Next]_vars
             PROVE  CloseBox!MailboxNext \/ UNCHANGED CloseBox!mailboxVars
  BY Zenon
<1>t. /\ closeQ \in Seq(Errors) /\ Len(closeQ) <= 1 /\ Len(closeQ) \in Nat
      /\ handle = [h \in Handles |-> handle[h]]
      /\ "close_async" \in Handles
      /\ loop = "close" => hand \in Errors
      /\ None \notin Errors
  BY LenProperties DEF ServerInv, ServerTypeOK, Handles, Errors, None
<1> USE DEF CloseBox!MailboxNext, CloseBox!mailboxVars
<1>p. ASSUME NEW error \in Errors, Post(error), loop # "none", handle' = handle, hand' = hand,
             loop' = loop \/ (loop \in {"start", "run"} /\ loop' \in {"start", "run"})
      PROVE  CloseBox!MailboxNext \/ UNCHANGED CloseBox!mailboxVars
  <2>1. CASE Len(closeQ) = 1
    <3>1. closeQ' = closeQ /\ closeSig' = closeSig
      BY <1>p, <2>1 DEF Post
    <3> QED BY <1>p, <3>1
  <2>2. CASE Len(closeQ) # 1
    <3>1. Len(closeQ) < 1
      <4> DEFINE n == Len(closeQ)
      <4>1. n \in Nat /\ n <= 1 /\ n # 1
        BY <1>t, <2>2
      <4> HIDE DEF n
      <4>2. n < 1
        BY <4>1
      <4> QED BY <4>2 DEF n
    <3>2. closeQ' = Append(closeQ, error) /\ closeSig' = TRUE
      BY <1>p, <2>2 DEF Post
    <3>3. handle["close_async"] # "uninit" /\ handle["close_async"] # "unbound"
      BY <1>p, <1>t DEF BoundWithLoop, ServerInv, ServerTypeOK
    <3>4. CloseBox!Post(error)
      BY <1>p, <3>1, <3>2, <3>3 DEF CloseBox!Post
    <3> QED BY <3>4
  <2> QED BY <2>1, <2>2
<1>l. ASSUME NEW error \in Errors, LoopClose(error), loop = "run", loop' = loop,
             handle' = handle, hand' = hand
      PROVE  CloseBox!MailboxNext \/ UNCHANGED CloseBox!mailboxVars
  <2>1. Post(error) \/ (closeQ' = closeQ /\ closeSig' = closeSig)
    BY <1>l DEF LoopClose, closeVars
  <2> QED BY <1>l, <1>p, <2>1
<1>1. CASE Listen
  <2>1. loop = "none"
    BY <1>1 DEF Listen, ServerInv, HandlesTogether
  <2>2. handle["close_async"] = "uninit"
    BY <2>1 DEF BoundWithLoop
  <2>3. handle'["close_async"] = "open" /\ loop' = "start" /\ closeQ' = closeQ /\ closeSig' = closeSig
    BY <1>1, <1>t DEF Listen, closeVars
  <2>4. CloseBox!Bound
    BY <2>1, <2>2, <2>3 DEF CloseBox!Bound
  <2> QED BY <2>4
<1>2. CASE CloseWakes
  <2>1. /\ loop = "run" /\ closeSig /\ handle["close_async"] = "open" /\ closeSig' = FALSE
        /\ TakeClose /\ handle' = handle
    BY <1>2 DEF CloseWakes, handleVars
  <2>2. CloseBox!Take
    BY <2>1 DEF TakeClose, CloseBox!Take
  <2>3. CloseBox!Wakes
    BY <2>1, <2>2 DEF CloseBox!Wakes
  <2> QED BY <2>3
<1>3. CASE CloseHandles
  <2>1. loop = "close" /\ TakeClose /\ closeSig' = closeSig /\ handle'["close_async"] = "closing"
    BY <1>3, <1>t DEF CloseHandles
  <2>2. handle["close_async"] = "open"
    <3>1. ~ CloseCalled
      BY <2>1, ContextPlaces
    <3>2. handle["close_async"] # "uninit"
      BY <2>1 DEF BoundWithLoop
    <3> QED BY <3>1, <3>2, <1>t DEF CloseCalled, ServerInv, ServerTypeOK
  <2>3. CloseBox!Take
    BY <2>1 DEF TakeClose, CloseBox!Take
  <2>4. CloseBox!Returns
    BY <1>t, <2>1, <2>2, <2>3 DEF CloseBox!Returns
  <2> QED BY <2>4
<1>4. ASSUME NEW h \in Handles, HandleClosed(h)
      PROVE  CloseBox!MailboxNext \/ UNCHANGED CloseBox!mailboxVars
  <2>1. /\ loop = "run" /\ loop' = loop /\ hand' = hand /\ closeQ' = closeQ /\ closeSig' = closeSig
        /\ handle[h] = "closing" /\ handle' = [handle EXCEPT ![h] = "closed"]
    BY <1>4 DEF HandleClosed, closeVars
  <2>2. CASE h = "close_async"
    <3>1. handle["close_async"] = "closing" /\ handle'["close_async"] = "closed"
      BY <1>t, <2>1, <2>2
    <3>2. CloseBox!Closed
      BY <2>1, <3>1 DEF CloseBox!Closed
    <3> QED BY <3>2
  <2>3. CASE h # "close_async"
    <3>1. handle'["close_async"] = handle["close_async"]
      BY <1>t, <2>1, <2>3
    <3> QED BY <2>1, <3>1
  <2> QED BY <2>2, <2>3
<1>5. CASE ResolveFailed
  <2>1. "RESOLVING" \in Errors /\ LoopClose("RESOLVING") /\ loop = "run" /\ loop' = loop
        /\ handle' = handle /\ hand' = hand
    BY <1>5 DEF ResolveFailed, Errors, handleVars
  <2> QED BY <1>l, <2>1
<1>6. CASE ConnectionFailed
  <2>1. "OK" \in Errors /\ LoopClose("OK") /\ loop = "run" /\ loop' = loop
        /\ handle' = handle /\ hand' = hand
    BY <1>6 DEF ConnectionFailed, Errors, handleVars
  <2> QED BY <1>l, <2>1
<1>7. CASE Resolved
  <2>1. /\ loop = "run" /\ loop' = loop /\ handle' = handle /\ hand' = hand
        /\ LoopClose("BINDING") \/ LoopClose("LISTENING") \/ UNCHANGED closeVars
        /\ "BINDING" \in Errors /\ "LISTENING" \in Errors
    BY <1>7 DEF Resolved, Errors, handleVars
  <2>2. CASE UNCHANGED closeVars
    BY <2>1, <2>2 DEF closeVars
  <2> QED BY <1>l, <2>1, <2>2
<1>8. ASSUME NEW u \in Users, ClosePosted(u)
      PROVE  CloseBox!MailboxNext \/ UNCHANGED CloseBox!mailboxVars
  <2>1. /\ Post("OK") /\ "OK" \in Errors /\ handle' = handle /\ hand' = hand /\ loop' = loop
        /\ posting # {}
    BY <1>8 DEF ClosePosted, Errors, handleVars
  <2>2. loop # "none"
    BY <2>1, ContextPlaces DEF ServerInv, HandlesTogether
  <2> QED BY <1>p, <2>1, <2>2
<1>9. CASE \/ Destroy \/ ThreadStarts \/ LookupStarts \/ ResolveCanceled \/ CancelRefused \/ LoopEnds
           \/ \E u \in Users : CloseBegins(u)
           \/ \E s \in Conns : Connection(s) \/ SocketCloses(s) \/ DeadCloses(s) \/ SocketClosed(s)
           \/ UNCHANGED vars
  <2>1. handle' = handle /\ hand' = hand /\ closeQ' = closeQ /\ closeSig' = closeSig
    BY <1>9 DEF Destroy, ThreadStarts, LookupStarts, ResolveCanceled, CancelRefused, LoopEnds,
                CloseBegins, Connection, SocketCloses, DeadCloses, SocketClosed, vars, handleVars, closeVars
  <2>2. loop' = loop \/ (loop = "close" /\ loop' = "crashed")
        \/ (loop \in {"start", "run"} /\ loop' \in {"run", "ended"})
    BY <1>9 DEF Destroy, ThreadStarts, LookupStarts, ResolveCanceled, CancelRefused, LoopEnds,
                CloseBegins, Connection, SocketCloses, DeadCloses, SocketClosed, vars
  <2> QED BY <2>1, <2>2
<1> QED BY <1>1, <1>2, <1>3, <1>4, <1>5, <1>6, <1>7, <1>8, <1>9 DEF Next

(* close_async of a server is used as the mailbox that it is.              *)
THEOREM ServerUsesMailbox == Safety => UsesMailbox
<1>1. Init => BoundWithLoop /\ CloseBox!MailboxInit
  BY DEF Init, BoundWithLoop, Handles, CloseBox!MailboxInit
<1> QED BY <1>1, InitInv, InvStep, BoundStep, MailboxStep, PTL
        DEF Safety, UsesMailbox, CloseBox!MailboxSpec
=============================================================================
