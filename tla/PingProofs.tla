----------------------------- MODULE PingProofs -----------------------------
(***************************************************************************)
(* The keep-alive of src/socket for all timeouts, delays and queue sizes:  *)
(* a peer that stopped is noticed in time, however many pings are refused; *)
(* pings end; and a peer that is there is given up only when a ping, or an *)
(* answer, was refused not long ago.                                       *)
(***************************************************************************)
EXTENDS Ping, FiniteSetTheorems, FunctionTheorems, SequenceTheorems, TLAPS

(* The check timer runs as long as a ping is not answered, and ends before *)
(* the other timer, so that a second ping never puts the check off.        *)
CheckRuns(e) ==
    /\ alive[e] = "PING_SENT" => check[e] # Off
    /\ check[e] # Off => PingTimeout - timer[e] <= CheckTimeout - check[e]

(* The timers tell how long nothing was read: since the timer was started, *)
(* or, after a ping that nothing followed, since a whole timeout before.   *)
IdleIsTimed(e) ==
    \/ idle[e] = PingTimeout - timer[e]
    \/ alive[e] = "PING_SENT" /\ idle[e] = PingTimeout + CheckTimeout - check[e]

TimersAgree ==
    \A e \in Ends :
        IF status[e] = "open" THEN CheckRuns(e) /\ IdleIsTimed(e) ELSE check[e] = Off

PingInv == PingTypeOK /\ TimersAgree

(* Every end has a peer, whose peer it is. *)
LEMMA PeerIsOther ==
    ASSUME NEW e \in Ends
    PROVE  Peer(e) \in Ends /\ Peer(Peer(e)) = e /\ Peer(e) # e
  BY DEF Ends, Peer

(* A function on 1 .. n is a sequence. *)
LEMMA FunctionIsSeq ==
    ASSUME NEW S, NEW n \in Nat, NEW s \in [1 .. n -> S]
    PROVE  s \in Seq(S)
  BY SeqDef

(* A ping is written into a queue that has room for it, or refused. *)
LEMMA WritePingType ==
    ASSUME PingTypeOK, NEW e \in Ends, WritePing(e)
    PROVE  /\ queue' \in [Ends -> Seq(Frames)]
           /\ \A f \in Ends : Len(queue'[f]) <= QueueSize
           /\ calm' \in 0 .. LongAgo
<1>1. /\ queue[e] \in Seq(Frames) /\ Len(queue[e]) \in Nat /\ Len(queue[e]) <= QueueSize
      /\ QueueSize \in Nat /\ LongAgo \in Nat
  BY PingAssumption DEF PingTypeOK, LongAgo
<1>2. CASE Len(queue[e]) = QueueSize
  BY <1>1, <1>2 DEF WritePing, PingTypeOK
<1>3. CASE Len(queue[e]) # QueueSize
  <2> DEFINE longer == Append(queue[e], "ping")
  <2>1. longer \in Seq(Frames) /\ Len(longer) = Len(queue[e]) + 1
    BY <1>1 DEF Frames
  <2>2. queue' = [queue EXCEPT ![e] = longer] /\ calm' = calm
    BY <1>3 DEF WritePing
  <2>3. Len(longer) <= QueueSize
    BY <1>1, <1>3, <2>1
  <2> HIDE DEF longer
  <2> QED BY <2>1, <2>2, <2>3 DEF PingTypeOK
<1> QED BY <1>2, <1>3

(* Every step preserves the types. *)
LEMMA TypeStep == PingInv /\ [Next]_vars => PingTypeOK'
<1> SUFFICES ASSUME PingInv, [Next]_vars
             PROVE  PingTypeOK'
  OBVIOUS
<1>0. /\ PingTimeout \in Nat /\ CheckTimeout \in Nat /\ MaxDelay \in Nat /\ LongAgo \in Nat
      /\ Off = -1
  BY PingAssumption DEF LongAgo, Off
<1> USE DEF PingInv, PingTypeOK, timerVars, Off
<1>1. ASSUME NEW e \in Ends, TimerFires(e)
      PROVE  PingTypeOK'
  <2>1. WritePing(e)
    BY <1>1 DEF TimerFires
  <2>2. check' \in [Ends -> Off .. CheckTimeout]
    BY <1>0, <1>1 DEF TimerFires, StartCheck
  <2>3. /\ queue' \in [Ends -> Seq(Frames)]
        /\ \A f \in Ends : Len(queue'[f]) <= QueueSize
        /\ calm' \in 0 .. LongAgo
    BY <2>1, WritePingType
  <2>4. timer' \in [Ends -> 0 .. PingTimeout] /\ alive' \in [Ends -> {"OK", "PING_SENT"}]
    BY <1>0, <1>1 DEF TimerFires
  <2> QED BY <1>1, <2>2, <2>3, <2>4 DEF TimerFires
<1>2. ASSUME NEW e \in Ends, CheckPasses(e)
      PROVE  PingTypeOK'
  <2>1. check' \in [Ends -> Off .. CheckTimeout]
    BY <1>0, <1>2 DEF CheckPasses
  <2> QED BY <1>2, <2>1 DEF CheckPasses
<1>3. ASSUME NEW e \in Ends, NEW how \in {"unreachable", "silent", "closed"}, Stops(e, how)
      PROVE  PingTypeOK'
  <2>1. << >> \in Seq(Frames) /\ Len(<< >>) <= QueueSize
    BY PingAssumption
  <2>2. check' \in [Ends -> Off .. CheckTimeout]
    BY <1>0, <1>3 DEF Stops
  <2>3. /\ queue' \in [Ends -> Seq(Frames)]
        /\ \A f \in Ends : Len(queue'[f]) <= QueueSize
    BY <1>3, <2>1 DEF Stops
  <2>4. status' \in [Ends -> {"open", "unreachable", "closed", "silent"}]
    BY <1>3 DEF Stops
  <2> QED BY <1>3, <2>2, <2>3, <2>4 DEF Stops
<1>4. ASSUME NEW e \in Ends, WriteData(e)
      PROVE  PingTypeOK'
  <2> DEFINE longer == Append(queue[e], "data")
  <2>1. longer \in Seq(Frames) /\ Len(longer) <= QueueSize
    BY <1>4, PingAssumption DEF WriteData, Frames
  <2>2. queue' = [queue EXCEPT ![e] = longer]
    BY <1>4 DEF WriteData
  <2> HIDE DEF longer
  <2> QED BY <1>4, <2>1, <2>2 DEF WriteData
<1>5. ASSUME NEW e \in Ends, Send(e)
      PROVE  PingTypeOK'
  <2> DEFINE Timed == [frame : Frames, age : 0 .. MaxDelay]
             out == [i \in 1 .. Len(queue[e]) |-> [frame |-> queue[e][i], age |-> 0]]
  <2>1. out \in Seq(Timed)
    <3>1. Len(queue[e]) \in Nat /\ \A i \in 1 .. Len(queue[e]) : queue[e][i] \in Frames
      BY ElementOfSeq, LenProperties
    <3>2. out \in [1 .. Len(queue[e]) -> Timed]
      BY <1>0, <3>1
    <3> HIDE DEF out, Timed
    <3> QED BY <3>1, <3>2, FunctionIsSeq
  <2>2. wire[e] \o out \in Seq(Timed)
    BY <2>1, ConcatProperties
  <2>3. wire' = [wire EXCEPT ![e] = wire[e] \o out] /\ queue' = [queue EXCEPT ![e] = << >>]
    BY <1>5 DEF Send
  <2> HIDE DEF out
  <2>4. wire' \in [Ends -> Seq(Timed)]
    BY <2>2, <2>3
  <2>5. << >> \in Seq(Frames) /\ Len(<< >>) <= QueueSize
    BY PingAssumption
  <2> QED BY <1>5, <2>3, <2>4, <2>5 DEF Send
<1>6. ASSUME NEW e \in Ends, Receive(e)
      PROVE  PingTypeOK'
  <2>1. /\ queue' \in [Ends -> Seq(Frames)]
        /\ \A f \in Ends : Len(queue'[f]) <= QueueSize
        /\ calm' \in 0 .. LongAgo
        /\ alive' \in [Ends -> {"OK", "PING_SENT"}]
    BY <1>6, WritePingType DEF Receive, PingFrame
  <2>2. wire' \in [Ends -> Seq([frame : Frames, age : 0 .. MaxDelay])]
    <3>1. Peer(e) \in Ends /\ wire[Peer(e)] # << >>
      BY <1>6, PeerIsOther DEF Receive
    <3>2. Tail(wire[Peer(e)]) \in Seq([frame : Frames, age : 0 .. MaxDelay])
      BY <3>1, HeadTailProperties
    <3> QED BY <1>6, <3>1, <3>2 DEF Receive
  <2>3. timer' \in [Ends -> 0 .. PingTimeout]
    <3>1. timer' = [timer EXCEPT ![e] = PingTimeout]
      BY <1>6 DEF Receive
    <3> QED BY <1>0, <3>1
  <2>4. idle' \in [Ends -> Nat]
    <3>1. idle' = [idle EXCEPT ![e] = 0]
      BY <1>6 DEF Receive
    <3> QED BY <3>1
  <2> QED BY <1>6, <2>1, <2>2, <2>3, <2>4 DEF Receive
<1>7. CASE Tick
  <2>1. \A e \in Ends : timer'[e] \in 0 .. PingTimeout /\ check'[e] \in Off .. CheckTimeout
    <3> SUFFICES ASSUME NEW e \in Ends
                 PROVE  timer'[e] \in 0 .. PingTimeout /\ check'[e] \in Off .. CheckTimeout
      OBVIOUS
    <3>1. /\ timer[e] \in 0 .. PingTimeout /\ check[e] \in Off .. CheckTimeout
          /\ status[e] = "open" => timer[e] > 0 /\ check[e] # 0
          /\ status[e] # "open" => check[e] = Off
      BY <1>7 DEF Tick, Settled, TimersAgree
    <3>2. /\ timer'[e] = IF status[e] = "open" THEN timer[e] - 1 ELSE timer[e]
          /\ check'[e] = IF check[e] = Off THEN Off ELSE check[e] - 1
      BY <1>7 DEF Tick
    <3> QED BY <1>0, <3>1, <3>2
  <2>2. wire' \in [Ends -> Seq([frame : Frames, age : 0 .. MaxDelay])]
    <3> DEFINE Timed == [frame : Frames, age : 0 .. MaxDelay]
    <3>1. ASSUME NEW e \in Ends, status[Peer(e)] = "open"
          PROVE  Older(wire[e]) \in Seq(Timed)
      <4>1. \A i \in 1 .. Len(wire[e]) : wire[e][i].age < MaxDelay
        BY <1>7, <3>1, PeerIsOther DEF Tick, Settled
      <4>2. Len(wire[e]) \in Nat /\ \A i \in 1 .. Len(wire[e]) : wire[e][i] \in Timed
        BY ElementOfSeq, LenProperties
      <4>3. Older(wire[e]) \in [1 .. Len(wire[e]) -> Timed]
        <5>0. \A r \in Timed : r.frame \in Frames /\ r.age \in 0 .. MaxDelay
          OBVIOUS
        <5>1. ASSUME NEW i \in 1 .. Len(wire[e])
              PROVE  [frame |-> wire[e][i].frame, age |-> wire[e][i].age + 1] \in Timed
          <6>1. wire[e][i] \in Timed /\ wire[e][i].age < MaxDelay
            BY <4>1, <4>2
          <6>2. wire[e][i].frame \in Frames /\ wire[e][i].age \in 0 .. MaxDelay
            BY <5>0, <6>1, Zenon
          <6>3. wire[e][i].age + 1 \in 0 .. MaxDelay
            <7> DEFINE age == wire[e][i].age
            <7>1. age \in 0 .. MaxDelay /\ age < MaxDelay
              BY <6>1, <6>2
            <7>2. MaxDelay \in Int
              BY PingAssumption
            <7> HIDE DEF age
            <7>3. age + 1 \in 0 .. MaxDelay
              BY <7>1, <7>2
            <7> QED BY <7>3 DEF age
          <6> QED BY <6>2, <6>3
        <5> HIDE DEF Timed
        <5> QED BY <5>1 DEF Older
      <4> HIDE DEF Timed
      <4> QED BY <4>2, <4>3, FunctionIsSeq
    <3>2. wire' = [e \in Ends |-> IF status[Peer(e)] = "open" THEN Older(wire[e]) ELSE << >>]
      BY <1>7 DEF Tick
    <3>3. << >> \in Seq(Timed)
      OBVIOUS
    <3> HIDE DEF Timed
    <3>4. \A e \in Ends : wire'[e] \in Seq(Timed)
      <4> TAKE e \in Ends
      <4>1. wire'[e] = IF status[Peer(e)] = "open" THEN Older(wire[e]) ELSE << >>
        BY <3>2
      <4> QED BY <3>1, <3>3, <4>1
    <3>5. wire' \in [Ends -> Seq(Timed)]
      <4>1. wire' = [e \in Ends |-> wire'[e]]
        BY <3>2, Zenon
      <4> QED BY <3>4, <4>1, Zenon
    <3> QED BY <3>5 DEF Timed
  <2>3. timer' \in [Ends -> 0 .. PingTimeout] /\ check' \in [Ends -> Off .. CheckTimeout]
    BY <1>7, <2>1 DEF Tick
  <2>4. idle' \in [Ends -> Nat] /\ calm' \in 0 .. LongAgo
    BY <1>0, <1>7 DEF Tick
  <2> QED BY <1>7, <2>2, <2>3, <2>4 DEF Tick
<1>8. CASE UNCHANGED vars
  BY <1>8 DEF vars
<1> QED BY <1>1, <1>2, <1>3, <1>4, <1>5, <1>6, <1>7, <1>8
        DEF Next, GivesUp, FallsSilent, PeerClosed

(* Every step preserves the relation of the two timers to what was read.   *)
LEMMA TimersStep == PingInv /\ [Next]_vars => TimersAgree'
<1> SUFFICES ASSUME PingInv, [Next]_vars, NEW f \in Ends
             PROVE  IF status'[f] = "open" THEN (CheckRuns(f) /\ IdleIsTimed(f))'
                                           ELSE check'[f] = Off
  BY DEF TimersAgree
<1>0. /\ PingTimeout \in Nat /\ CheckTimeout \in Nat /\ 0 < CheckTimeout
      /\ CheckTimeout < PingTimeout /\ Off = -1
  BY PingAssumption DEF Off
<1>t. /\ timer[f] \in 0 .. PingTimeout /\ check[f] \in -1 .. CheckTimeout /\ idle[f] \in Nat
      /\ alive[f] \in {"OK", "PING_SENT"}
      /\ IF status[f] = "open" THEN CheckRuns(f) /\ IdleIsTimed(f) ELSE check[f] = Off
  BY <1>0 DEF PingInv, PingTypeOK, TimersAgree
<1> DEFINE
  Same == /\ status'[f] = status[f] /\ timer'[f] = timer[f] /\ check'[f] = check[f]
          /\ alive'[f] = alive[f] /\ idle'[f] = idle[f]
  Kept == IF status'[f] = "open" THEN (CheckRuns(f) /\ IdleIsTimed(f))' ELSE check'[f] = Off
<1>s. ASSUME Same PROVE Kept
  BY <1>t, <1>s DEF CheckRuns, IdleIsTimed
<1>m. /\ status = [e \in Ends |-> status[e]] /\ timer = [e \in Ends |-> timer[e]]
      /\ check = [e \in Ends |-> check[e]] /\ alive = [e \in Ends |-> alive[e]]
      /\ idle = [e \in Ends |-> idle[e]]
  BY DEF PingInv, PingTypeOK
<1>1. ASSUME NEW e \in Ends, TimerFires(e)
      PROVE  Kept
  <2>1. CASE f = e
    <3>1. /\ status[f] = "open" /\ timer[f] = 0
          /\ status'[f] = status[f] /\ idle'[f] = idle[f]
          /\ timer'[f] = PingTimeout /\ alive'[f] = "PING_SENT" /\ check'[f] = CheckTimeout
      BY <1>1, <1>m, <2>1 DEF TimerFires, StartCheck
    <3>2. check[f] = Off /\ idle[f] = PingTimeout
      BY <1>0, <1>t, <3>1 DEF CheckRuns, IdleIsTimed
    <3>3. CheckRuns(f)' /\ IdleIsTimed(f)'
      BY <1>0, <3>1, <3>2 DEF CheckRuns, IdleIsTimed
    <3> QED BY <3>1, <3>3
  <2>2. CASE f # e
    <3>1. Same
      BY <1>1, <1>m, <2>2 DEF TimerFires, StartCheck
    <3> QED BY <3>1, <1>s
  <2> QED BY <2>1, <2>2
<1>2. ASSUME NEW e \in Ends, CheckPasses(e)
      PROVE  Kept
  <2>1. CASE f = e
    <3>1. /\ status[f] = "open" /\ alive[f] = "OK" /\ check'[f] = Off
          /\ status'[f] = status[f] /\ timer'[f] = timer[f] /\ alive'[f] = alive[f]
          /\ idle'[f] = idle[f]
      BY <1>2, <1>m, <2>1 DEF CheckPasses
    <3> QED BY <1>t, <3>1 DEF CheckRuns, IdleIsTimed
  <2>2. CASE f # e
    <3>1. Same
      BY <1>2, <1>m, <2>2 DEF CheckPasses
    <3> QED BY <3>1, <1>s
  <2> QED BY <2>1, <2>2
<1>3. ASSUME NEW e \in Ends, NEW how \in {"unreachable", "silent", "closed"}, Stops(e, how)
      PROVE  Kept
  <2>1. CASE f = e
    <3>1. status'[f] = how /\ check'[f] = Off
      BY <1>3, <1>m, <2>1 DEF Stops
    <3> QED BY <3>1
  <2>2. CASE f # e
    <3>1. Same
      BY <1>3, <1>m, <2>2 DEF Stops, timerVars
    <3> QED BY <3>1, <1>s
  <2> QED BY <2>1, <2>2
<1>4. ASSUME NEW e \in Ends, WriteData(e) \/ Send(e)
      PROVE  Kept
  <2>1. Same
    BY <1>4 DEF WriteData, Send, timerVars
  <2> QED BY <2>1, <1>s
<1>5. ASSUME NEW e \in Ends, Receive(e)
      PROVE  Kept
  <2>1. alive'[f] = "PING_SENT" => alive[f] = "PING_SENT"
    BY <1>5, <1>m DEF Receive, PingFrame
  <2>2. f # e => alive'[f] = alive[f]
    BY <1>5, <1>m DEF Receive, PingFrame
  <2>3. CASE f = e
    <3>1. /\ status[f] = "open" /\ status'[f] = status[f] /\ check'[f] = check[f]
          /\ timer'[f] = PingTimeout /\ idle'[f] = 0
      BY <1>5, <1>m, <2>3 DEF Receive
    <3>2. CheckRuns(f)'
      BY <1>0, <1>t, <2>1, <3>1 DEF CheckRuns
    <3>3. IdleIsTimed(f)'
      BY <1>0, <3>1 DEF IdleIsTimed
    <3> QED BY <3>2, <3>3, <3>1
  <2>4. CASE f # e
    <3>1. Same
      BY <1>5, <1>m, <2>2, <2>4 DEF Receive
    <3> QED BY <3>1, <1>s
  <2> QED BY <2>3, <2>4
<1>6. CASE Tick
  <2>1. CASE status[f] = "open"
    <3>1. timer[f] > 0 /\ check[f] # 0
      BY <1>6, <2>1 DEF Tick, Settled
    <3>2. /\ timer'[f] = timer[f] - 1 /\ idle'[f] = idle[f] + 1
          /\ check'[f] = IF check[f] = Off THEN Off ELSE check[f] - 1
          /\ status'[f] = "open" /\ alive'[f] = alive[f]
      BY <1>6, <2>1 DEF Tick
    <3>3. CheckRuns(f) /\ IdleIsTimed(f)
      BY <1>t, <2>1
    <3>4. CheckRuns(f)'
      BY <1>0, <1>t, <3>1, <3>2, <3>3 DEF CheckRuns
    <3>5. IdleIsTimed(f)'
      BY <1>0, <1>t, <3>1, <3>2, <3>3 DEF CheckRuns, IdleIsTimed
    <3> QED BY <3>2, <3>4, <3>5
  <2>2. CASE status[f] # "open"
    <3>1. check'[f] = Off /\ status'[f] = status[f]
      BY <1>6, <1>t, <2>2 DEF Tick
    <3> QED BY <2>2, <3>1
  <2> QED BY <2>1, <2>2
<1>7. CASE UNCHANGED vars
  <2>1. Same
    BY <1>7 DEF vars, timerVars
  <2> QED BY <2>1, <1>s
<1> QED BY <1>1, <1>2, <1>3, <1>4, <1>5, <1>6, <1>7 DEF Next, GivesUp, FallsSilent, PeerClosed

(* cobra__socket_start_ping establishes the invariant. *)
LEMMA PingInit == Init => PingInv
<1> USE PingAssumption
<1> SUFFICES ASSUME Init
             PROVE  PingInv
  OBVIOUS
<1>1. \A e \in Ends : timer[e] \in 0 .. PingTimeout /\ idle[e] = PingTimeout - timer[e]
  BY DEF Init
<1>2. << >> \in Seq(Frames) /\ << >> \in Seq([frame : Frames, age : 0 .. MaxDelay])
  OBVIOUS
<1>3. LongAgo \in Nat /\ Off = -1
  BY DEF LongAgo, Off
<1>4. timer \in [Ends -> 0 .. PingTimeout] /\ idle \in [Ends -> Nat]
  BY <1>1 DEF Init
<1>5. PingTypeOK
  BY <1>2, <1>3, <1>4 DEF Init, PingTypeOK
<1>6. TimersAgree
  BY <1>1, <1>3 DEF Init, TimersAgree, CheckRuns, IdleIsTimed
<1> QED BY <1>5, <1>6 DEF PingInv

(* An open end has read something within PingTimeout + CheckTimeout, and   *)
(* after PingTimeout is waiting for the check (socket_ping.c:22-39): so a  *)
(* peer that stopped is noticed, for all timeouts and queue sizes.         *)
THEOREM StoppedPeerIsNoticed == Spec => [](PingTypeOK /\ DeadPeerNoticed)
<1> USE PingAssumption
<1>1. Init => PingInv
  BY PingInit
<1>2. PingInv /\ [Next]_vars => PingInv'
  BY TypeStep, TimersStep DEF PingInv
<1>3. PingInv => PingTypeOK /\ DeadPeerNoticed
  <2> SUFFICES ASSUME PingInv, NEW e \in Ends, status[e] = "open"
               PROVE  /\ idle[e] <= PingTimeout + CheckTimeout
                      /\ idle[e] > PingTimeout => alive[e] = "PING_SENT" /\ check[e] # Off
    BY DEF PingInv, DeadPeerNoticed
  <2>1. /\ timer[e] \in 0 .. PingTimeout /\ check[e] \in Off .. CheckTimeout /\ Off = -1
        /\ CheckRuns(e) /\ IdleIsTimed(e)
    BY DEF PingInv, PingTypeOK, TimersAgree, Off
  <2> QED BY <2>1 DEF CheckRuns, IdleIsTimed
<1> QED BY <1>1, <1>2, <1>3, PTL DEF Spec
-----------------------------------------------------------------------------
(* What keeps pings from echoing: between two ends that are open there are *)
(* never more pings under way than ends that wait for one.                 *)
PingsOf(e) == Cardinality(Under(e)) + Cardinality(Queued(e))
Unanswered(e) == IF alive[e] = "PING_SENT" THEN 1 ELSE 0

PingsCounted ==
    (\A e \in Ends : status[e] = "open") =>
        PingsOf("client") + PingsOf("server") <= Unanswered("client") + Unanswered("server")

(* The places of pings in a sequence of frames under way, and in a queue.  *)
UnderIn(w) == {i \in 1 .. Len(w) : w[i].frame = "ping"}
QueuedIn(q) == {i \in 1 .. Len(q) : q[i] = "ping"}

(* A set of integers that fits, when moved by k, into another is no larger.*)
LEMMA ShiftBound ==
    ASSUME NEW S \in SUBSET Int, NEW T \in SUBSET Int, IsFiniteSet(T), NEW k \in Int,
           \A i \in S : i + k \in T
    PROVE  IsFiniteSet(S) /\ Cardinality(S) <= Cardinality(T)
<1> DEFINE f == [i \in S |-> i + k]
<1>1. f \in [S -> T]
  OBVIOUS
<1>2. \A a, b \in S : f[a] = f[b] => a = b
  OBVIOUS
<1> HIDE DEF f
<1>3. f \in Injection(S, T)
  BY <1>1, <1>2, Fun_IsInj
<1> QED BY <1>3, FS_Injection

(* The places in a sequence are finitely many integers. *)
LEMMA PlacesFinite ==
    ASSUME NEW n \in Nat, NEW S \in SUBSET (1 .. n)
    PROVE  IsFiniteSet(S) /\ Cardinality(S) \in Nat /\ S \in SUBSET Int
<1>1. IsFiniteSet(1 .. n)
  BY FS_Interval
<1>2. IsFiniteSet(S)
  BY <1>1, FS_Subset
<1>3. Cardinality(S) \in Nat
  BY <1>2, FS_CardinalityType
<1> QED BY <1>2, <1>3

(* An entry more in the queue is at most a ping more. *)
LEMMA QueuedGrows ==
    ASSUME NEW q \in Seq(Frames), NEW d \in Frames
    PROVE  Cardinality(QueuedIn(Append(q, d))) <=
             Cardinality(QueuedIn(q)) + IF d = "ping" THEN 1 ELSE 0
<1>1. Len(q) \in Nat /\ QueuedIn(q) \in SUBSET (1 .. Len(q))
  BY DEF QueuedIn
<1>2. IsFiniteSet(QueuedIn(q)) /\ Cardinality(QueuedIn(q)) \in Nat
  BY <1>1, PlacesFinite
<1>3. /\ Len(Append(q, d)) = Len(q) + 1 /\ Append(q, d)[Len(q) + 1] = d
      /\ \A i \in 1 .. Len(q) : Append(q, d)[i] = q[i]
  BY AppendProperties
<1>4. CASE d = "ping"
  <2>1. QueuedIn(Append(q, d)) = QueuedIn(q) \cup {Len(q) + 1}
    BY <1>1, <1>3, <1>4 DEF QueuedIn
  <2>2. Len(q) + 1 \notin QueuedIn(q)
    BY <1>1
  <2>3. Cardinality(QueuedIn(q) \cup {Len(q) + 1}) =
          IF Len(q) + 1 \in QueuedIn(q) THEN Cardinality(QueuedIn(q))
          ELSE Cardinality(QueuedIn(q)) + 1
    BY <1>2, FS_AddElement, Zenon
  <2>4. Cardinality(QueuedIn(Append(q, d))) = Cardinality(QueuedIn(q)) + 1
    BY <2>1, <2>2, <2>3, Zenon
  <2> QED BY <1>2, <1>4, <2>4
<1>5. CASE d # "ping"
  <2>1. QueuedIn(Append(q, d)) = QueuedIn(q)
    BY <1>1, <1>3, <1>5 DEF QueuedIn
  <2> QED BY <1>2, <1>5, <2>1
<1> QED BY <1>4, <1>5

(* A frame that is read is gone from those under way. *)
LEMMA UnderShrinks ==
    ASSUME NEW S, NEW w \in Seq(S), w # << >>
    PROVE  Cardinality(UnderIn(Tail(w))) <=
             Cardinality(UnderIn(w)) - IF Head(w).frame = "ping" THEN 1 ELSE 0
<1>1. Len(w) \in Nat \ {0} /\ Head(w) = w[1]
  BY EmptySeq, LenProperties
<1>2. /\ Len(Tail(w)) = Len(w) - 1
      /\ \A i \in 1 .. Len(w) - 1 : Tail(w)[i] = w[i + 1]
  BY HeadTailProperties
<1> DEFINE rest == UnderIn(w) \ {1}
<1>3. IsFiniteSet(UnderIn(w)) /\ Cardinality(UnderIn(w)) \in Nat
  <2>1. UnderIn(w) \in SUBSET (1 .. Len(w))
    BY DEF UnderIn
  <2> QED BY <1>1, <2>1, PlacesFinite
<1>4. /\ IsFiniteSet(rest)
      /\ Cardinality(rest) = Cardinality(UnderIn(w)) - IF Head(w).frame = "ping" THEN 1 ELSE 0
  <2>1. 1 \in UnderIn(w) <=> Head(w).frame = "ping"
    BY <1>1 DEF UnderIn
  <2>2. /\ IsFiniteSet(rest)
        /\ Cardinality(rest) = IF 1 \in UnderIn(w) THEN Cardinality(UnderIn(w)) - 1
                               ELSE Cardinality(UnderIn(w))
    BY <1>3, FS_RemoveElement, Zenon
  <2> HIDE DEF rest
  <2> QED BY <1>3, <2>1, <2>2
<1>5. \A i \in UnderIn(Tail(w)) : i + 1 \in rest
  BY <1>1, <1>2 DEF UnderIn
<1>6. rest \in SUBSET Int /\ UnderIn(Tail(w)) \in SUBSET Int
  BY <1>1, <1>2 DEF UnderIn
<1> HIDE DEF rest
<1>7. Cardinality(UnderIn(Tail(w))) <= Cardinality(rest)
  <2>1. 1 \in Int
    OBVIOUS
  <2> QED BY <1>4, <1>5, <1>6, <2>1, ShiftBound, Zenon
<1> QED BY <1>4, <1>7

(* Writing out a queue moves its pings behind those under way. *)
LEMMA UnderJoins ==
    ASSUME NEW S, NEW w \in Seq(S), NEW v \in Seq(S), NEW q \in Seq(Frames), Len(v) = Len(q),
           \A i \in 1 .. Len(q) : v[i].frame = q[i]
    PROVE  Cardinality(UnderIn(w \o v)) <= Cardinality(UnderIn(w)) + Cardinality(QueuedIn(q))
<1>1. Len(w) \in Nat /\ Len(q) \in Nat
  OBVIOUS
<1>2. /\ Len(w \o v) = Len(w) + Len(q)
      /\ \A i \in 1 .. Len(w) : (w \o v)[i] = w[i]
      /\ \A i \in Len(w) + 1 .. Len(w) + Len(q) : (w \o v)[i] = v[i - Len(w)]
  <2>1. /\ Len(w \o v) = Len(w) + Len(v)
        /\ \A i \in 1 .. Len(w) + Len(v) : (w \o v)[i] =
               IF i <= Len(w) THEN w[i] ELSE v[i - Len(w)]
    BY ConcatProperties, Zenon
  <2>2. ASSUME NEW i \in 1 .. Len(w)
        PROVE  (w \o v)[i] = w[i]
    <3>1. i \in 1 .. Len(w) + Len(v) /\ i <= Len(w)
      BY <1>1
    <3> QED BY <2>1, <3>1, Zenon
  <2>3. ASSUME NEW i \in Len(w) + 1 .. Len(w) + Len(q)
        PROVE  (w \o v)[i] = v[i - Len(w)]
    <3>1. i \in 1 .. Len(w) + Len(v) /\ ~ (i <= Len(w))
      BY <1>1
    <3> QED BY <2>1, <3>1, Zenon
  <2>4. Len(w \o v) = Len(w) + Len(q)
    BY <2>1
  <2> QED BY <2>2, <2>3, <2>4
<1> DEFINE late == {i \in Len(w) + 1 .. Len(w) + Len(q) : (w \o v)[i].frame = "ping"}
<1>3. UnderIn(w \o v) = UnderIn(w) \cup late
  BY <1>1, <1>2 DEF UnderIn
<1>4. \A i \in late : i - Len(w) \in QueuedIn(q)
  BY <1>1, <1>2 DEF QueuedIn
<1>5. /\ IsFiniteSet(UnderIn(w)) /\ Cardinality(UnderIn(w)) \in Nat
      /\ IsFiniteSet(QueuedIn(q)) /\ Cardinality(QueuedIn(q)) \in Nat
      /\ QueuedIn(q) \in SUBSET Int
  <2>1. UnderIn(w) \in SUBSET (1 .. Len(w)) /\ QueuedIn(q) \in SUBSET (1 .. Len(q))
    BY DEF UnderIn, QueuedIn
  <2> QED BY <1>1, <2>1, PlacesFinite
<1>6. late \in SUBSET Int
  BY <1>1
<1> HIDE DEF late
<1>7. IsFiniteSet(late) /\ Cardinality(late) <= Cardinality(QueuedIn(q))
  <2>1. - Len(w) \in Int /\ \A i \in late : i + (- Len(w)) \in QueuedIn(q)
    BY <1>1, <1>4, <1>6
  <2> QED BY <1>5, <1>6, <2>1, ShiftBound
<1>8. /\ Cardinality(late) \in Nat
      /\ Cardinality(UnderIn(w) \cup late) =
           Cardinality(UnderIn(w)) + Cardinality(late) - Cardinality(UnderIn(w) \cap late)
      /\ Cardinality(UnderIn(w) \cap late) \in Nat
  BY <1>5, <1>7, FS_Union, FS_CardinalityType, FS_Intersection
<1> QED BY <1>3, <1>5, <1>7, <1>8

(* The pings of an end are counted by natural numbers. *)
LEMMA PingsAreCounted ==
    PingTypeOK => \A e \in Ends :
        /\ Cardinality(UnderIn(wire[e])) \in Nat
        /\ Cardinality(QueuedIn(queue[e])) \in Nat
        /\ PingsOf(e) = Cardinality(UnderIn(wire[e])) + Cardinality(QueuedIn(queue[e]))
<1> SUFFICES ASSUME PingTypeOK, NEW e \in Ends
             PROVE  /\ Cardinality(UnderIn(wire[e])) \in Nat
                    /\ Cardinality(QueuedIn(queue[e])) \in Nat
                    /\ PingsOf(e) = Cardinality(UnderIn(wire[e])) + Cardinality(QueuedIn(queue[e]))
  OBVIOUS
<1>1. Len(wire[e]) \in Nat /\ Len(queue[e]) \in Nat
  BY LenProperties DEF PingTypeOK
<1>2. UnderIn(wire[e]) \in SUBSET (1 .. Len(wire[e]))
  BY DEF UnderIn
<1>3. QueuedIn(queue[e]) \in SUBSET (1 .. Len(queue[e]))
  BY DEF QueuedIn
<1> QED BY <1>1, <1>2, <1>3, PlacesFinite DEF PingsOf, Under, Queued, UnderIn, QueuedIn

(* Writing a ping makes one more of them, at most. *)
LEMMA WritePingCounts ==
    ASSUME PingTypeOK, NEW e \in Ends, WritePing(e)
    PROVE  /\ Cardinality(QueuedIn(queue'[e])) <= Cardinality(QueuedIn(queue[e])) + 1
           /\ \A f \in Ends : f # e => queue'[f] = queue[f]
<1>1. queue = [f \in Ends |-> queue[f]] /\ queue[e] \in Seq(Frames) /\ "ping" \in Frames
  BY DEF PingTypeOK, Frames
<1>2. Cardinality(QueuedIn(queue[e])) \in Nat
  BY PingsAreCounted
<1>3. CASE Len(queue[e]) = QueueSize
  BY <1>2, <1>3 DEF WritePing
<1>4. CASE Len(queue[e]) # QueueSize
  <2>1. queue' = [queue EXCEPT ![e] = Append(queue[e], "ping")]
    BY <1>4 DEF WritePing
  <2>2. queue'[e] = Append(queue[e], "ping") /\ \A f \in Ends : f # e => queue'[f] = queue[f]
    BY <1>1, <2>1
  <2>3. Cardinality(QueuedIn(Append(queue[e], "ping"))) <= Cardinality(QueuedIn(queue[e])) + 1
    BY <1>1, QueuedGrows
  <2> QED BY <2>2, <2>3
<1> QED BY <1>3, <1>4

(* Every step keeps the count: the ping of a timer is waited for, and the  *)
(* answer to a ping takes its place.                                       *)
LEMMA CountStep == PingInv /\ PingsCounted /\ [Next]_vars => PingsCounted'
<1> SUFFICES ASSUME PingInv, PingsCounted, [Next]_vars, \A e \in Ends : status'[e] = "open"
             PROVE  (PingsOf("client") + PingsOf("server")
                       <= Unanswered("client") + Unanswered("server"))'
  BY DEF PingsCounted
<1> DEFINE U(e) == Cardinality(UnderIn(wire[e]))
           Q(e) == Cardinality(QueuedIn(queue[e]))
           W(e) == Unanswered(e)
<1>1. PingTypeOK /\ PingTypeOK'
  BY TypeStep DEF PingInv
<1>2. \A e \in Ends : /\ U(e) \in Nat /\ Q(e) \in Nat /\ W(e) \in {0, 1}
                      /\ PingsOf(e) = U(e) + Q(e)
  BY <1>1, PingsAreCounted DEF Unanswered
<1>3. (\A e \in Ends : /\ U(e) \in Nat /\ Q(e) \in Nat /\ W(e) \in {0, 1}
                       /\ PingsOf(e) = U(e) + Q(e))'
  <2>1. (\A e \in Ends :
           /\ Cardinality(UnderIn(wire[e])) \in Nat
           /\ Cardinality(QueuedIn(queue[e])) \in Nat
           /\ PingsOf(e) = Cardinality(UnderIn(wire[e])) + Cardinality(QueuedIn(queue[e])))'
    BY <1>1, PingsAreCounted, PTL
  <2> QED BY <2>1 DEF Unanswered
<1>o. /\ "client" \in Ends /\ "server" \in Ends /\ Ends = {"client", "server"}
  BY DEF Ends
<1>m. /\ wire = [e \in Ends |-> wire[e]] /\ queue = [e \in Ends |-> queue[e]]
      /\ alive = [e \in Ends |-> alive[e]] /\ status = [e \in Ends |-> status[e]]
      /\ \A e \in Ends : /\ queue[e] \in Seq(Frames)
                          /\ wire[e] \in Seq([frame : Frames, age : 0 .. MaxDelay])
                          /\ alive[e] \in {"OK", "PING_SENT"}
  BY <1>1 DEF PingTypeOK
<1> DEFINE Same(e) == wire'[e] = wire[e] /\ queue'[e] = queue[e] /\ alive'[e] = alive[e]
<1>s. ASSUME NEW e \in Ends, Same(e)
      PROVE  U(e)' = U(e) /\ Q(e)' = Q(e) /\ W(e)' = W(e)
  BY <1>s DEF Unanswered
<1> DEFINE Kept == PingsCounted'
(* A step that adds no more pings than waits, to an end and its peer. *)
<1>k. ASSUME NEW e \in Ends, NEW p \in Ends, p = Peer(e), \A f \in Ends : status[f] = "open",
             U(e)' + Q(e)' + U(p)' + Q(p)' + W(e) + W(p) <= U(e) + Q(e) + U(p) + Q(p) + W(e)' + W(p)'
      PROVE  Kept
  <2>1. U("client") + Q("client") + U("server") + Q("server") <= W("client") + W("server")
    BY <1>k, <1>o, <1>2 DEF PingsCounted
  <2> HIDE DEF U, Q, W
  <2>2. CASE e = "client"
    <3>1. p = "server"
      BY <1>k, <2>2 DEF Peer
    <3>2. U("client")' + Q("client")' + U("server")' + Q("server")' <= W("client")' + W("server")'
      BY <1>2, <1>3, <1>k, <1>o, <2>1, <2>2, <3>1 DEF W, Unanswered
    <3> QED BY <1>3, <1>o, <3>2 DEF PingsCounted, W
  <2>3. CASE e = "server"
    <3>1. p = "client"
      BY <1>k, <2>3 DEF Peer
    <3>2. U("client")' + Q("client")' + U("server")' + Q("server")' <= W("client")' + W("server")'
      BY <1>2, <1>3, <1>k, <1>o, <2>1, <2>3, <3>1 DEF W, Unanswered
    <3> QED BY <1>3, <1>o, <3>2 DEF PingsCounted, W
  <2> QED BY <1>o, <2>2, <2>3
<1>4. ASSUME NEW e \in Ends, TimerFires(e)
      PROVE  Kept
  <2>1. alive[e] = "OK" /\ alive'[e] = "PING_SENT"
    <3>1. /\ timer[e] = 0 /\ timer[e] \in 0 .. PingTimeout /\ check[e] \in -1 .. CheckTimeout
          /\ CheckRuns(e) /\ alive'[e] = "PING_SENT"
      BY <1>1, <1>4 DEF TimerFires, PingInv, PingTypeOK, TimersAgree, Off
    <3>2. check[e] = Off
      BY <3>1, PingAssumption DEF CheckRuns, Off
    <3> QED BY <1>m, <3>1, <3>2 DEF CheckRuns
  <2>2. Q(e)' <= Q(e) + 1 /\ \A f \in Ends : f # e => queue'[f] = queue[f]
    <3>1. WritePing(e)
      BY <1>4 DEF TimerFires
    <3> QED BY <1>1, <3>1, WritePingCounts
  <2>3. wire' = wire /\ status' = status
    BY <1>4 DEF TimerFires
  <2>4. \A f \in Ends : f # e => Same(f)
    BY <1>m, <1>4, <2>2, <2>3 DEF TimerFires
  <2>5. W(e) = 0 /\ W(e)' = 1 /\ U(e)' = U(e)
    BY <2>1, <2>3 DEF Unanswered
  <2>6. \A f \in Ends : status[f] = "open"
    BY <2>3
  <2>7. Peer(e) \in Ends /\ Same(Peer(e))
    BY <2>4, PeerIsOther
  <2> QED BY <1>2, <1>3, <1>k, <1>s, <2>2, <2>5, <2>6, <2>7
<1>5. ASSUME NEW e \in Ends, CheckPasses(e)
      PROVE  Kept
  <2>1. \A f \in Ends : Same(f) /\ status[f] = "open"
    BY <1>5 DEF CheckPasses
  <2> QED BY <1>2, <1>3, <1>k, <1>s, <2>1, PeerIsOther
<1>6. ASSUME NEW e \in Ends, NEW how \in {"unreachable", "silent", "closed"}, Stops(e, how)
      PROVE  Kept
  <2>1. status'[e] # "open"
    BY <1>6, <1>m DEF Stops
  <2> QED BY <2>1
<1>7. ASSUME NEW e \in Ends, WriteData(e)
      PROVE  Kept
  <2>1. /\ queue' = [queue EXCEPT ![e] = Append(queue[e], "data")]
        /\ wire' = wire /\ alive' = alive /\ status' = status
    BY <1>7 DEF WriteData, timerVars
  <2>2. queue'[e] = Append(queue[e], "data") /\ \A f \in Ends : f # e => Same(f)
    BY <1>m, <2>1
  <2>3. Q(e)' <= Q(e)
    <3>1. "data" \in Frames /\ "data" # "ping" /\ queue[e] \in Seq(Frames)
      BY <1>m DEF Frames
    <3>2. Cardinality(QueuedIn(Append(queue[e], "data"))) <= Cardinality(QueuedIn(queue[e])) + 0
      BY <3>1, QueuedGrows
    <3> QED BY <1>2, <2>2, <3>2
  <2>4. U(e)' = U(e) /\ W(e)' = W(e)
    BY <2>1 DEF Unanswered
  <2>5. \A f \in Ends : status[f] = "open"
    BY <2>1
  <2>6. Peer(e) \in Ends /\ Same(Peer(e))
    BY <2>2, PeerIsOther
  <2> QED BY <1>2, <1>3, <1>k, <1>s, <2>3, <2>4, <2>5, <2>6
<1>8. ASSUME NEW e \in Ends, Send(e)
      PROVE  Kept
  <2> DEFINE v == [i \in 1 .. Len(queue[e]) |-> [frame |-> queue[e][i], age |-> 0]]
  <2>1. /\ wire' = [wire EXCEPT ![e] = wire[e] \o v]
        /\ queue' = [queue EXCEPT ![e] = << >>]
        /\ alive' = alive /\ status' = status
    BY <1>8 DEF Send, timerVars
  <2>2. \A i \in 1 .. Len(queue[e]) : v[i].frame = queue[e][i]
    OBVIOUS
  <2>3. v \in Seq([frame : Frames, age : 0 .. MaxDelay]) /\ Len(v) = Len(queue[e])
    <3>1. Len(queue[e]) \in Nat /\ \A i \in 1 .. Len(queue[e]) : queue[e][i] \in Frames
      BY <1>m, ElementOfSeq, LenProperties
    <3>2. 0 \in 0 .. MaxDelay
      BY PingAssumption
    <3>3. v \in [1 .. Len(queue[e]) -> [frame : Frames, age : 0 .. MaxDelay]]
      BY <3>1, <3>2
    <3>4. Len(v) = Len(queue[e])
      BY <3>1
    <3> HIDE DEF v
    <3>5. v \in Seq([frame : Frames, age : 0 .. MaxDelay])
      BY <3>1, <3>3, FunctionIsSeq
    <3> QED BY <3>4, <3>5
  <2> HIDE DEF v
  <2>4. /\ wire'[e] = wire[e] \o v /\ queue'[e] = << >>
        /\ \A f \in Ends : f # e => Same(f)
    BY <1>m, <2>1
  <2>5. U(e)' <= U(e) + Q(e)
    <3>1. Cardinality(UnderIn(wire[e] \o v)) <= Cardinality(UnderIn(wire[e])) + Cardinality(QueuedIn(queue[e]))
      BY <1>m, <2>2, <2>3, UnderJoins
    <3> QED BY <2>4, <3>1
  <2>6. Q(e)' = 0
    <3>1. QueuedIn(<< >>) = {}
      BY DEF QueuedIn
    <3> QED BY <2>4, <3>1, FS_EmptySet
  <2>7. W(e)' = W(e)
    BY <2>1 DEF Unanswered
  <2>8. \A f \in Ends : status[f] = "open"
    BY <2>1
  <2>9. Peer(e) \in Ends /\ Same(Peer(e))
    BY <2>4, PeerIsOther
  <2> QED BY <1>2, <1>3, <1>k, <1>s, <2>5, <2>6, <2>7, <2>8, <2>9
<1>9. ASSUME NEW e \in Ends, Receive(e)
      PROVE  Kept
  <2> DEFINE p == Peer(e)
             ping == Head(wire[p]).frame = "ping"
  <2>1. p \in Ends /\ p # e /\ Peer(p) = e
    BY PeerIsOther
  <2> HIDE DEF p
  <2>2. /\ wire[p] # << >> /\ wire' = [wire EXCEPT ![p] = Tail(wire[p])] /\ status' = status
        /\ IF ping THEN PingFrame(e) ELSE UNCHANGED <<alive, queue>>
    BY <1>9 DEF Receive, p
  <2>3. wire'[p] = Tail(wire[p]) /\ wire'[e] = wire[e]
    BY <1>m, <2>1, <2>2
  <2>4. U(p)' <= U(p) - (IF ping THEN 1 ELSE 0) /\ U(e)' = U(e)
    BY <1>m, <2>1, <2>2, <2>3, UnderShrinks
  <2>5. \A f \in Ends : status[f] = "open"
    BY <2>2
  <2> HIDE DEF ping
  <2>6. CASE ~ ping
    <3>1. W(e)' = W(e) /\ W(p)' = W(p) /\ Q(e)' = Q(e) /\ Q(p)' = Q(p)
      BY <2>2, <2>6 DEF Unanswered
    <3> QED BY <1>2, <1>3, <1>k, <2>1, <2>4, <2>5, <2>6, <3>1 DEF p
  <2>7. CASE ping /\ alive[e] = "OK"
    <3>1. WritePing(e) /\ alive' = alive
      BY <2>2, <2>7 DEF PingFrame
    <3>2. Q(e)' <= Q(e) + 1 /\ queue'[p] = queue[p]
      BY <1>1, <2>1, <3>1, WritePingCounts
    <3>3. W(e)' = W(e) /\ W(p)' = W(p) /\ Q(p)' = Q(p)
      BY <3>1, <3>2 DEF Unanswered
    <3> QED BY <1>2, <1>3, <1>k, <2>1, <2>4, <2>5, <2>7, <3>2, <3>3 DEF p
  <2>8. CASE ping /\ alive[e] # "OK"
    <3>1. alive' = [alive EXCEPT ![e] = "OK"] /\ queue' = queue
      BY <2>2, <2>8 DEF PingFrame
    <3>2. alive[e] = "PING_SENT" /\ alive'[e] = "OK" /\ alive'[p] = alive[p]
      BY <1>m, <2>1, <2>8, <3>1
    <3>3. W(e) = 1 /\ W(e)' = 0 /\ W(p)' = W(p) /\ Q(e)' = Q(e) /\ Q(p)' = Q(p)
      BY <3>1, <3>2 DEF Unanswered
    <3> QED BY <1>2, <1>3, <1>k, <2>1, <2>4, <2>5, <2>8, <3>3 DEF p
  <2> QED BY <2>6, <2>7, <2>8
<1>10. CASE Tick
  <2>1. status' = status /\ alive' = alive /\ queue' = queue
    BY <1>10 DEF Tick
  <2>2. ASSUME NEW e \in Ends
        PROVE  U(e)' = U(e)
    <3>1. wire'[e] = Older(wire[e])
      BY <1>10, <2>1, PeerIsOther DEF Tick
    <3>2. Len(wire[e]) \in Nat
      BY <1>m, LenProperties
    <3>3. /\ Len(Older(wire[e])) = Len(wire[e])
          /\ \A i \in 1 .. Len(wire[e]) : Older(wire[e])[i].frame = wire[e][i].frame
      BY <3>2 DEF Older
    <3>4. UnderIn(Older(wire[e])) = UnderIn(wire[e])
      BY <3>3 DEF UnderIn
    <3> QED BY <3>1, <3>4
  <2>3. \A e \in Ends : Q(e)' = Q(e) /\ W(e)' = W(e) /\ status[e] = "open"
    BY <2>1 DEF Unanswered
  <2>4. "client" \in Ends /\ Peer("client") \in Ends
    BY <1>o, PeerIsOther
  <2>5. U("client")' + Q("client")' + U(Peer("client"))' + Q(Peer("client"))' + W("client") + W(Peer("client"))
          <= U("client") + Q("client") + U(Peer("client")) + Q(Peer("client")) + W("client")' + W(Peer("client"))'
    <3> HIDE DEF U, Q, W
    <3>1. /\ U("client")' = U("client") /\ Q("client")' = Q("client") /\ W("client")' = W("client")
          /\ U(Peer("client"))' = U(Peer("client")) /\ Q(Peer("client"))' = Q(Peer("client"))
          /\ W(Peer("client"))' = W(Peer("client"))
      BY <2>2, <2>3, <2>4
    <3> QED BY <1>2, <2>4, <3>1
  <2>6. Kept
    <3> HIDE DEF U, Q, W, Kept
    <3> QED BY <1>k, <2>3, <2>4, <2>5
  <2> QED BY <2>6 DEF PingsCounted
<1>11. CASE UNCHANGED vars
  <2>1. \A f \in Ends : Same(f) /\ status[f] = "open"
    BY <1>11 DEF vars, timerVars
  <2>2. "client" \in Ends /\ Peer("client") \in Ends
    BY <1>o, PeerIsOther
  <2>3. U("client")' + Q("client")' + U(Peer("client"))' + Q(Peer("client"))' + W("client") + W(Peer("client"))
          <= U("client") + Q("client") + U(Peer("client")) + Q(Peer("client")) + W("client")' + W(Peer("client"))'
    <3>s. Same("client") /\ Same(Peer("client"))
      BY <2>1, <2>2
    <3>1. /\ U("client")' = U("client") /\ Q("client")' = Q("client") /\ W("client")' = W("client")
          /\ U(Peer("client"))' = U(Peer("client")) /\ Q(Peer("client"))' = Q(Peer("client"))
          /\ W(Peer("client"))' = W(Peer("client"))
      BY <1>s, <2>2, <3>s
    <3> HIDE DEF U, Q, W, Same
    <3> QED BY <1>2, <2>2, <3>1
  <2>4. Kept
    <3>1. \A f \in Ends : status[f] = "open"
      BY <2>1
    <3> HIDE DEF U, Q, W, Kept, Same
    <3> QED BY <1>k, <2>2, <2>3, <3>1
  <2> QED BY <2>4 DEF PingsCounted
<1>12. Kept
  <2>1. ASSUME NEW e \in Ends, GivesUp(e) \/ FallsSilent(e) \/ PeerClosed(e)
        PROVE  Kept
    <3>1. Stops(e, "unreachable") \/ Stops(e, "silent") \/ Stops(e, "closed")
      BY <2>1 DEF GivesUp, FallsSilent, PeerClosed
    <3> HIDE DEF Kept
    <3> QED BY <1>6, <3>1
  <2>2. Tick \/ UNCHANGED vars => Kept
    BY <1>10, <1>11 DEF PingsCounted
  <2> HIDE DEF Kept
  <2> QED BY <1>4, <1>5, <1>7, <1>8, <1>9, <2>1, <2>2 DEF Next
<1> QED BY <1>12 DEF PingsCounted

(* Once each end has what it takes for an answer, no ping is left under    *)
(* way between two open ends, for all timeouts, delays and queue sizes.    *)
THEOREM PingsEnd == Spec => []NoEcho
<1>1. Init => PingInv /\ PingsCounted
  <2>1. ASSUME Init
        PROVE  PingsCounted
    <3>1. \A e \in Ends : Under(e) = {} /\ Queued(e) = {}
      BY <2>1 DEF Init, Under, Queued
    <3>2. \A e \in Ends : PingsOf(e) = 0 /\ Unanswered(e) \in Nat
      BY <3>1, FS_EmptySet DEF PingsOf, Unanswered
    <3>3. "client" \in Ends /\ "server" \in Ends
      BY DEF Ends
    <3> QED BY <3>2, <3>3 DEF PingsCounted
  <2> QED BY <2>1, PingInit
<1>2. PingInv /\ [Next]_vars => PingInv'
  BY TypeStep, TimersStep DEF PingInv
<1>3. PingInv /\ PingsCounted => NoEcho
  <2> SUFFICES ASSUME PingInv, PingsCounted, \A e \in Ends : status[e] = "open" /\ alive[e] = "OK",
                      NEW e \in Ends
               PROVE  Under(e) = {} /\ Queued(e) = {}
    BY DEF NoEcho
  <2>1. \A f \in Ends : PingsOf(f) \in Nat /\ Unanswered(f) = 0
    BY PingsAreCounted DEF PingInv, Unanswered
  <2>2. PingsOf("client") = 0 /\ PingsOf("server") = 0
    BY <2>1 DEF PingsCounted, Ends
  <2>3. PingsOf(e) = 0
    BY <2>2 DEF Ends
  <2>4. Cardinality(Under(e)) = 0 /\ Cardinality(Queued(e)) = 0
    <3>1. Under(e) = UnderIn(wire[e]) /\ Queued(e) = QueuedIn(queue[e])
      BY DEF Under, Queued, UnderIn, QueuedIn
    <3>2. /\ Cardinality(UnderIn(wire[e])) \in Nat /\ Cardinality(QueuedIn(queue[e])) \in Nat
          /\ PingsOf(e) = Cardinality(UnderIn(wire[e])) + Cardinality(QueuedIn(queue[e]))
      BY PingsAreCounted DEF PingInv
    <3> QED BY <2>3, <3>1, <3>2
  <2>5. IsFiniteSet(Under(e)) /\ IsFiniteSet(Queued(e))
    <3>1. Len(wire[e]) \in Nat /\ Len(queue[e]) \in Nat
      BY LenProperties DEF PingInv, PingTypeOK
    <3>2. Under(e) \in SUBSET (1 .. Len(wire[e])) /\ Queued(e) \in SUBSET (1 .. Len(queue[e]))
      BY DEF Under, Queued
    <3> QED BY <3>1, <3>2, PlacesFinite
  <2> QED BY <2>4, <2>5, FS_EmptySet
<1> QED BY <1>1, <1>2, <1>3, CountStep, PTL DEF Spec
-----------------------------------------------------------------------------
(* What an end has to say and the other has not read: its frames under way *)
(* and those still in write_async, in one line.                            *)
Timed == [frame : Frames, age : 0 .. MaxDelay]
Fresh(q) == [i \in 1 .. Len(q) |-> [frame |-> q[i], age |-> 0]]
LineOf(w, q) == w \o Fresh(q)
Line(e) == LineOf(wire[e], queue[e])

LEMMA FreshIs ==
    ASSUME NEW q \in Seq(Frames)
    PROVE  /\ Fresh(q) \in Seq(Timed) /\ Len(Fresh(q)) = Len(q)
           /\ \A i \in 1 .. Len(q) : Fresh(q)[i] = [frame |-> q[i], age |-> 0]
<1>1. Len(q) \in Nat /\ \A i \in 1 .. Len(q) : q[i] \in Frames
  BY ElementOfSeq, LenProperties
<1>2. Fresh(q) \in [1 .. Len(q) -> Timed]
  BY <1>1, PingAssumption DEF Fresh, Timed
<1>3. \A i \in 1 .. Len(q) : Fresh(q)[i] = [frame |-> q[i], age |-> 0]
  BY DEF Fresh
<1> HIDE DEF Timed
<1>4. Fresh(q) \in Seq(Timed)
  BY <1>1, <1>2, FunctionIsSeq
<1>5. Len(Fresh(q)) = Len(q)
  BY <1>1, <1>2, <1>4
<1> QED BY <1>3, <1>4, <1>5

LEMMA LineIs ==
    ASSUME NEW w \in Seq(Timed), NEW q \in Seq(Frames)
    PROVE  /\ LineOf(w, q) \in Seq(Timed) /\ Len(LineOf(w, q)) = Len(w) + Len(q)
           /\ \A i \in 1 .. Len(w) : LineOf(w, q)[i] = w[i]
           /\ \A i \in 1 .. Len(q) : LineOf(w, q)[Len(w) + i] = [frame |-> q[i], age |-> 0]
<1> DEFINE v == Fresh(q)
<1>1. v \in Seq(Timed) /\ Len(v) = Len(q) /\ \A i \in 1 .. Len(q) : v[i] = [frame |-> q[i], age |-> 0]
  BY FreshIs
<1>2. LineOf(w, q) = w \o v
  BY DEF LineOf
<1> HIDE DEF v, Timed
<1>3. /\ w \o v \in Seq(Timed) /\ Len(w \o v) = Len(w) + Len(v)
      /\ \A i \in 1 .. Len(w) : (w \o v)[i] = w[i]
      /\ \A i \in 1 .. Len(v) : (w \o v)[Len(w) + i] = v[i]
  BY <1>1
<1> QED BY <1>1, <1>2, <1>3

(* A line that only grew, at its end. *)
Grown(l, m) == Len(m) >= Len(l) /\ \A i \in 1 .. Len(l) : m[i] = l[i]

LEMMA LineGrows ==
    ASSUME NEW w \in Seq(Timed), NEW q \in Seq(Frames), NEW d \in Frames
    PROVE  LET l == LineOf(w, q)
               m == LineOf(w, Append(q, d))
           IN  Grown(l, m) /\ Len(m) = Len(l) + 1 /\ m[Len(l) + 1] = [frame |-> d, age |-> 0]
<1> DEFINE r == Append(q, d)
           l == LineOf(w, q)
           m == LineOf(w, r)
<1>1. /\ r \in Seq(Frames) /\ Len(r) = Len(q) + 1 /\ r[Len(q) + 1] = d
      /\ \A i \in 1 .. Len(q) : r[i] = q[i]
  BY AppendProperties
<1>2. Len(w) \in Nat /\ Len(q) \in Nat
  BY LenProperties
<1> HIDE DEF r
<1>3. /\ Len(l) = Len(w) + Len(q)
      /\ \A i \in 1 .. Len(w) : l[i] = w[i]
      /\ \A i \in 1 .. Len(q) : l[Len(w) + i] = [frame |-> q[i], age |-> 0]
  BY LineIs
<1>4. /\ Len(m) = Len(w) + Len(r)
      /\ \A i \in 1 .. Len(w) : m[i] = w[i]
      /\ \A i \in 1 .. Len(r) : m[Len(w) + i] = [frame |-> r[i], age |-> 0]
  BY <1>1, LineIs
<1> HIDE DEF l, m
<1>5. Len(m) = Len(l) + 1
  BY <1>1, <1>2, <1>3, <1>4
<1>6. m[Len(l) + 1] = [frame |-> d, age |-> 0]
  <2>1. Len(q) + 1 \in 1 .. Len(r) /\ Len(w) + (Len(q) + 1) = Len(l) + 1
    BY <1>1, <1>2, <1>3
  <2>2. m[Len(w) + (Len(q) + 1)] = [frame |-> r[Len(q) + 1], age |-> 0]
    BY <1>4, <2>1
  <2> QED BY <1>1, <2>1, <2>2
<1>7. ASSUME NEW i \in 1 .. Len(l)
      PROVE  m[i] = l[i]
  <2>1. CASE i <= Len(w)
    <3>1. i \in 1 .. Len(w)
      BY <1>2, <2>1
    <3> QED BY <1>3, <1>4, <3>1
  <2>2. CASE i > Len(w)
    <3>1. PICK k \in 1 .. Len(q) : i = Len(w) + k
      <4>1. i - Len(w) \in 1 .. Len(q) /\ i = Len(w) + (i - Len(w))
        BY <1>2, <1>3, <2>2
      <4> QED BY <4>1
    <3>2. k \in 1 .. Len(r) /\ r[k] = q[k]
      BY <1>1, <1>2
    <3>3. m[Len(w) + k] = [frame |-> q[k], age |-> 0] /\ l[Len(w) + k] = [frame |-> q[k], age |-> 0]
      BY <1>3, <1>4, <3>2
    <3> QED BY <3>1, <3>3
  <2>3. i <= Len(w) \/ i > Len(w)
    BY <1>2, <1>3
  <2> QED BY <2>1, <2>2, <2>3
<1>8. Grown(l, m)
  <2>1. Len(m) >= Len(l)
    BY <1>2, <1>3, <1>5
  <2> QED BY <1>7, <2>1 DEF Grown
<1> QED BY <1>5, <1>6, <1>8 DEF l, m, r

(* Writing out a queue changes nothing in the line. *)
LEMMA LineSent ==
    ASSUME NEW w \in Seq(Timed), NEW q \in Seq(Frames)
    PROVE  LineOf(w \o Fresh(q), << >>) = LineOf(w, q)
<1>1. Fresh(<< >>) = << >>
  BY DEF Fresh
<1>2. w \o Fresh(q) \in Seq(Timed)
  <2> HIDE DEF Timed
  <2> QED BY FreshIs, ConcatProperties
<1> DEFINE x == w \o Fresh(q)
<1> HIDE DEF x
<1>3. x \o << >> = x
  BY <1>2 DEF x
<1> QED BY <1>1, <1>3 DEF LineOf, x

(* A line whose first frame was read. *)
Begun(l, m) == Len(l) >= 1 /\ Len(m) = Len(l) - 1 /\ \A i \in 1 .. Len(m) : m[i] = l[i + 1]

LEMMA LineRead ==
    ASSUME NEW w \in Seq(Timed), NEW q \in Seq(Frames), w # << >>
    PROVE  Begun(LineOf(w, q), LineOf(Tail(w), q)) /\ LineOf(w, q)[1] = Head(w)
<1> DEFINE v == Tail(w)
           l == LineOf(w, q)
           m == LineOf(v, q)
<1>1. Len(w) \in Nat \ {0} /\ Head(w) = w[1] /\ Len(q) \in Nat
  BY EmptySeq, LenProperties
<1>2. v \in Seq(Timed) /\ Len(v) = Len(w) - 1 /\ \A i \in 1 .. Len(w) - 1 : v[i] = w[i + 1]
  <2> HIDE DEF Timed
  <2> QED BY HeadTailProperties
<1> HIDE DEF v
<1>3. /\ Len(l) = Len(w) + Len(q)
      /\ \A i \in 1 .. Len(w) : l[i] = w[i]
      /\ \A i \in 1 .. Len(q) : l[Len(w) + i] = [frame |-> q[i], age |-> 0]
  BY LineIs
<1>4. /\ Len(m) = Len(v) + Len(q)
      /\ \A i \in 1 .. Len(v) : m[i] = v[i]
      /\ \A i \in 1 .. Len(q) : m[Len(v) + i] = [frame |-> q[i], age |-> 0]
  BY <1>2, LineIs
<1> HIDE DEF l, m
<1>5. Len(m) = Len(l) - 1 /\ Len(l) >= 1 /\ l[1] = Head(w)
  <2>1. 1 \in 1 .. Len(w)
    BY <1>1
  <2>2. Len(m) = Len(l) - 1 /\ Len(l) >= 1
    BY <1>1, <1>2, <1>3, <1>4
  <2> QED BY <1>1, <1>3, <2>1, <2>2
<1>6. ASSUME NEW i \in 1 .. Len(m)
      PROVE  m[i] = l[i + 1]
  <2>1. CASE i <= Len(v)
    <3>1. i \in 1 .. Len(v) /\ i \in 1 .. Len(w) - 1 /\ i + 1 \in 1 .. Len(w)
      BY <1>1, <1>2, <2>1
    <3> QED BY <1>2, <1>3, <1>4, <3>1
  <2>2. CASE i > Len(v)
    <3>1. PICK k \in 1 .. Len(q) : i = Len(v) + k /\ i + 1 = Len(w) + k
      <4>1. i - Len(v) \in 1 .. Len(q) /\ i = Len(v) + (i - Len(v)) /\ i + 1 = Len(w) + (i - Len(v))
        BY <1>1, <1>2, <1>4, <2>2
      <4> QED BY <4>1
    <3>2. m[Len(v) + k] = l[Len(w) + k]
      BY <1>3, <1>4
    <3> QED BY <3>1, <3>2
  <2>3. i <= Len(v) \/ i > Len(v)
    BY <1>1, <1>2, <1>4
  <2> QED BY <2>1, <2>2, <2>3
<1> QED BY <1>5, <1>6 DEF l, m, v, Begun

(* A line one unit of time later. *)
Aged(l, m) ==
    /\ Len(m) = Len(l)
    /\ \A i \in 1 .. Len(l) : m[i].frame = l[i].frame /\ m[i].age = l[i].age + 1

LEMMA LineAges ==
    ASSUME NEW w \in Seq(Timed)
    PROVE  Aged(LineOf(w, << >>), LineOf(Older(w), << >>))
<1>1. Fresh(<< >>) = << >>
  BY DEF Fresh
<1>2. Len(w) \in Nat /\ Older(w) = [i \in 1 .. Len(w) |-> [frame |-> w[i].frame, age |-> w[i].age + 1]]
  BY LenProperties DEF Older
<1>3. /\ Older(w) \in Seq(Range(Older(w))) /\ Len(Older(w)) = Len(w)
      /\ \A i \in 1 .. Len(w) : Older(w)[i].frame = w[i].frame /\ Older(w)[i].age = w[i].age + 1
  <2>1. Older(w) \in [1 .. Len(w) -> Range(Older(w))]
    BY <1>2 DEF Range
  <2>2. Older(w) \in Seq(Range(Older(w)))
    BY <1>2, <2>1, FunctionIsSeq
  <2>3. Len(Older(w)) = Len(w)
    BY <1>2
  <2>4. \A i \in 1 .. Len(w) : Older(w)[i] = [frame |-> w[i].frame, age |-> w[i].age + 1]
    BY <1>2
  <2>5. \A i \in 1 .. Len(w) : Older(w)[i].frame = w[i].frame /\ Older(w)[i].age = w[i].age + 1
    <3> TAKE i \in 1 .. Len(w)
    <3> DEFINE v == [frame |-> w[i].frame, age |-> w[i].age + 1]
    <3>1. v.frame = w[i].frame /\ v.age = w[i].age + 1
      OBVIOUS
    <3>2. Older(w)[i] = v
      BY <2>4
    <3> QED BY <3>1, <3>2, Zenon
  <2> QED BY <2>2, <2>3, <2>5, Zenon
<1>4. w \o << >> = w
  <2> HIDE DEF Timed
  <2> QED OBVIOUS
<1>5. Older(w) \o << >> = Older(w)
  BY <1>3
<1> QED BY <1>1, <1>3, <1>4, <1>5 DEF LineOf, Aged
-----------------------------------------------------------------------------
(* Why a peer that is there and whose pings were not refused is heard of    *)
(* before the check.  The time since an end sent the ping that it waits to *)
(* have answered:                                                          *)
Ago(e) == CheckTimeout - check[e]

PingAged(l, a) == \E i \in 1 .. Len(l) : l[i].frame = "ping" /\ l[i].age >= a

(* A ping that its reader answers: it waits for none, or takes another one *)
(* before it for the answer.                                               *)
Asking(l, ok, a) ==
    \E i \in 1 .. Len(l) :
        /\ l[i].frame = "ping" /\ l[i].age >= a
        /\ ok \/ \E j \in 1 .. i - 1 : l[j].frame = "ping"

(* The ping of an end that waits is under way, or the ping that the other  *)
(* end sends; or the other end has read something since; or the ping was   *)
(* refused since, but then by a queue that is under way.                   *)
Noticed(e) ==
    alive[e] = "PING_SENT" =>
        \/ PingAged(Line(e), 0) \/ PingAged(Line(Peer(e)), 0)
        \/ PingTimeout - timer[Peer(e)] <= Ago(e)
        \/ calm <= Ago(e) /\ \E i \in 1 .. Len(Line(e)) : Line(e)[i].age >= Ago(e)

(* With no ping refused for long enough, the answer to the ping of an end  *)
(* that waits is under way, or the ping is, to be answered.                *)
Helped(e) ==
    alive[e] = "PING_SENT" /\ calm > Ago(e) + MaxDelay =>
        \/ PingAged(Line(Peer(e)), Ago(e) - MaxDelay)
        \/ Asking(Line(e), alive[Peer(e)] = "OK", Ago(e))

CauseInv ==
    (\A e \in Ends : status[e] = "open") => \A e \in Ends : Noticed(e) /\ Helped(e)

LEMMA PingAgedGrows ==
    ASSUME NEW l, NEW m, NEW a, Len(l) \in Nat, Len(m) \in Nat, Grown(l, m), PingAged(l, a)
    PROVE  PingAged(m, a)
<1>1. \A i \in 1 .. Len(l) : i \in 1 .. Len(m)
  BY DEF Grown
<1> QED BY <1>1 DEF Grown, PingAged

LEMMA PingJoins ==
    ASSUME NEW m, NEW j \in 1 .. Len(m), m[j] = [frame |-> "ping", age |-> 0], NEW a, 0 >= a
    PROVE  PingAged(m, a)
<1>1. m[j].frame = "ping" /\ m[j].age = 0
  OBVIOUS
<1> QED BY <1>1 DEF PingAged

LEMMA AskingGrows ==
    ASSUME NEW l, NEW m, NEW a, NEW ok, NEW ko, Len(l) \in Nat, Len(m) \in Nat, Grown(l, m),
           Asking(l, ok, a), ok => ko
    PROVE  Asking(m, ko, a)
<1>1. PICK i \in 1 .. Len(l) : /\ l[i].frame = "ping" /\ l[i].age >= a
                               /\ ok \/ \E j \in 1 .. i - 1 : l[j].frame = "ping"
  BY DEF Asking
<1>2. i \in 1 .. Len(m) /\ m[i] = l[i] /\ \A j \in 1 .. i - 1 : m[j] = l[j]
  BY DEF Grown
<1> QED BY <1>1, <1>2 DEF Asking

(* What is not the first frame of a line is still there when that one is   *)
(* read.                                                                   *)
LEMMA PingAgedStays ==
    ASSUME NEW l, NEW m, NEW a, Len(l) \in Nat, Begun(l, m), PingAged(l, a), l[1].frame # "ping"
    PROVE  PingAged(m, a)
<1>1. PICK i \in 1 .. Len(l) : l[i].frame = "ping" /\ l[i].age >= a
  BY DEF PingAged
<1>2. i - 1 \in 1 .. Len(m) /\ m[i - 1] = l[i]
  <2>1. i # 1
    BY <1>1
  <2>2. i - 1 \in 1 .. Len(m) /\ (i - 1) + 1 = i
    BY <2>1 DEF Begun
  <2>3. m[i - 1] = l[(i - 1) + 1]
    BY <2>2 DEF Begun
  <2> QED BY <2>2, <2>3
<1> QED BY <1>1, <1>2 DEF PingAged

LEMMA AskingStays ==
    ASSUME NEW l, NEW m, NEW a, NEW ok, NEW ko, Len(l) \in Nat, Begun(l, m), Asking(l, ok, a),
           IF l[1].frame = "ping" THEN ~ ok /\ ko ELSE ok => ko
    PROVE  Asking(m, ko, a)
<1>1. PICK i \in 1 .. Len(l) : /\ l[i].frame = "ping" /\ l[i].age >= a
                               /\ ok \/ \E j \in 1 .. i - 1 : l[j].frame = "ping"
  BY DEF Asking
<1>2. i # 1
  BY <1>1
<1>3. i - 1 \in 1 .. Len(m) /\ m[i - 1] = l[i]
  <2>1. i - 1 \in 1 .. Len(m) /\ (i - 1) + 1 = i
    BY <1>2 DEF Begun
  <2>2. m[i - 1] = l[(i - 1) + 1]
    BY <2>1 DEF Begun
  <2> QED BY <2>1, <2>2
<1>4. ASSUME NEW j \in 1 .. i - 1, l[j].frame = "ping"
      PROVE  ko \/ \E k \in 1 .. (i - 1) - 1 : m[k].frame = "ping"
  <2>1. CASE j = 1
    BY <1>4, <2>1
  <2>2. CASE j # 1
    <3>1. j - 1 \in 1 .. (i - 1) - 1 /\ j - 1 \in 1 .. Len(m) /\ (j - 1) + 1 = j
      BY <2>2 DEF Begun
    <3>2. m[j - 1] = l[(j - 1) + 1]
      BY <3>1 DEF Begun
    <3> QED BY <1>4, <3>1, <3>2
  <2> QED BY <2>1, <2>2
<1>5. ko \/ \E k \in 1 .. (i - 1) - 1 : m[k].frame = "ping"
  BY <1>1, <1>4
<1> QED BY <1>1, <1>3, <1>5 DEF Asking

(* What an end has, while both are open. *)
LEMMA EndIs ==
    ASSUME PingInv, NEW e \in Ends
    PROVE  /\ Line(e) \in Seq(Timed) /\ Len(Line(e)) \in Nat
           /\ \A i \in 1 .. Len(Line(e)) : Line(e)[i].age \in 0 .. MaxDelay
           /\ wire[e] \in Seq(Timed) /\ queue[e] \in Seq(Frames)
           /\ timer[e] \in 0 .. PingTimeout /\ alive[e] \in {"OK", "PING_SENT"}
           /\ status[e] = "open" /\ alive[e] = "PING_SENT" => check[e] \in 0 .. CheckTimeout /\ Ago(e) \in 0 .. CheckTimeout
           /\ calm \in Nat /\ MaxDelay \in Nat /\ CheckTimeout \in Nat /\ PingTimeout \in Nat
           /\ CheckTimeout < PingTimeout
<1>1. /\ wire[e] \in Seq(Timed) /\ queue[e] \in Seq(Frames)
      /\ timer[e] \in 0 .. PingTimeout /\ alive[e] \in {"OK", "PING_SENT"}
      /\ check[e] \in Off .. CheckTimeout /\ calm \in 0 .. LongAgo
      /\ status[e] = "open" => CheckRuns(e)
  BY DEF PingInv, PingTypeOK, TimersAgree, Timed
<1>2. Line(e) \in Seq(Timed)
  BY <1>1, LineIs DEF Line
<1>3. \A i \in 1 .. Len(Line(e)) : Line(e)[i].age \in 0 .. MaxDelay
  <2> SUFFICES ASSUME NEW i \in 1 .. Len(Line(e))
               PROVE  Line(e)[i].age \in 0 .. MaxDelay
    OBVIOUS
  <2>1. Line(e)[i] \in Timed
    <3> HIDE DEF Timed
    <3> QED BY <1>2, ElementOfSeq
  <2> QED BY <2>1 DEF Timed
<1>4. Len(Line(e)) \in Nat
  BY <1>2, LenProperties
<1>5. status[e] = "open" /\ alive[e] = "PING_SENT" => check[e] \in 0 .. CheckTimeout /\ Ago(e) \in 0 .. CheckTimeout
  BY <1>1, PingAssumption DEF CheckRuns, Off, Ago
<1> QED BY <1>1, <1>2, <1>3, <1>4, <1>5, PingAssumption DEF LongAgo

LEMMA CauseOfBoth ==
    ASSUME NEW e \in Ends, (Noticed(e) /\ Helped(e))', (Noticed(Peer(e)) /\ Helped(Peer(e)))'
    PROVE  CauseInv'
<1>1. Ends = {e, Peer(e)}
  BY DEF Ends, Peer
<1>2. (\A f \in Ends : Noticed(f) /\ Helped(f))'
  <2> SUFFICES ASSUME NEW f \in Ends
               PROVE  (Noticed(f) /\ Helped(f))'
    OBVIOUS
  <2>1. f = e \/ f = Peer(e)
    BY <1>1
  <2> QED BY <2>1
<1> QED BY <1>2 DEF CauseInv

(* A ping is written at the end of the line, or refused by a line that is  *)
(* not empty.                                                              *)
LEMMA WritePingLine ==
    ASSUME PingInv, NEW e \in Ends, WritePing(e), wire'[e] = wire[e]
    PROVE  /\ \A f \in Ends : f # e => queue'[f] = queue[f]
           /\ \/ /\ Grown(Line(e), Line(e)') /\ Len(Line(e)') = Len(Line(e)) + 1 /\ calm' = calm
                 /\ (Line(e)')[Len(Line(e)) + 1] = [frame |-> "ping", age |-> 0]
              \/ Line(e)' = Line(e) /\ Len(Line(e)) >= 1 /\ calm' = 0
<1>1. queue = [f \in Ends |-> queue[f]] /\ "ping" \in Frames
  BY DEF PingInv, PingTypeOK, Frames
<1>2. wire[e] \in Seq(Timed) /\ queue[e] \in Seq(Frames)
  BY EndIs
<1>3. CASE Len(queue[e]) = QueueSize
  <2>1. calm' = 0 /\ queue' = queue
    BY <1>3 DEF WritePing
  <2>2. Len(Line(e)) = Len(wire[e]) + Len(queue[e]) /\ Len(wire[e]) \in Nat
    BY <1>2, LineIs, LenProperties DEF Line
  <2>3. Len(Line(e)) >= 1
    BY <1>3, <2>2, PingAssumption
  <2> QED BY <2>1, <2>3 DEF Line
<1>4. CASE Len(queue[e]) # QueueSize
  <2>1. calm' = calm /\ queue' = [queue EXCEPT ![e] = Append(queue[e], "ping")]
    BY <1>4 DEF WritePing
  <2>2. queue'[e] = Append(queue[e], "ping") /\ \A f \in Ends : f # e => queue'[f] = queue[f]
    BY <1>1, <2>1
  <2>3. Line(e)' = LineOf(wire[e], Append(queue[e], "ping"))
    BY <2>2 DEF Line
  <2> QED BY <1>1, <1>2, <2>1, <2>2, <2>3, LineGrows DEF Line
<1> QED BY <1>3, <1>4

LEMMA TimerFiresCause ==
    ASSUME PingInv, CauseInv, \A e \in Ends : status[e] = "open", NEW x \in Ends, TimerFires(x)
    PROVE  CauseInv'
<1>1. PICK p \in Ends : p = Peer(x) /\ x = Peer(p) /\ p # x
  BY PeerIsOther
<1>2. /\ timer[x] = 0 /\ WritePing(x) /\ wire' = wire
      /\ timer'[x] = PingTimeout /\ alive'[x] = "PING_SENT" /\ check'[x] = CheckTimeout
      /\ timer'[p] = timer[p] /\ alive'[p] = alive[p] /\ check'[p] = check[p]
  BY <1>1 DEF TimerFires, StartCheck, PingInv, PingTypeOK
<1>3. alive[x] = "OK"
  <2>1. /\ check[x] \in -1 .. CheckTimeout /\ CheckRuns(x) /\ Off = -1
        /\ alive[x] \in {"OK", "PING_SENT"}
    BY DEF PingInv, PingTypeOK, TimersAgree, Off
  <2> QED BY <1>2, <2>1, PingAssumption DEF CheckRuns
<1>4. Line(p)' = Line(p)
  BY <1>1, <1>2, WritePingLine DEF Line
<1>5. PICK l, m, k : l = Line(x) /\ m = Line(x)' /\ k = Line(p)
  OBVIOUS
<1>6. /\ Len(l) \in Nat /\ Len(k) \in Nat
      /\ \A i \in 1 .. Len(l) : l[i].age \in 0 .. MaxDelay
      /\ \A i \in 1 .. Len(k) : k[i].age \in 0 .. MaxDelay
      /\ alive[p] \in {"OK", "PING_SENT"}
      /\ alive[p] = "PING_SENT" => Ago(p) \in 0 .. CheckTimeout
      /\ calm \in Nat /\ MaxDelay \in Nat /\ CheckTimeout \in Nat /\ PingTimeout \in Nat
      /\ CheckTimeout < PingTimeout
  BY <1>5, EndIs
<1>7. \/ /\ Grown(l, m) /\ Len(m) = Len(l) + 1 /\ calm' = calm
         /\ m[Len(l) + 1] = [frame |-> "ping", age |-> 0]
      \/ m = l /\ Len(l) >= 1 /\ calm' = 0
  BY <1>2, <1>5, WritePingLine
<1>8. Ago(x)' = 0 /\ Ago(p)' = Ago(p)
  BY <1>2, <1>6 DEF Ago
<1>9. Noticed(x)'
  <2>1. CASE Grown(l, m) /\ Len(m) = Len(l) + 1 /\ m[Len(l) + 1] = [frame |-> "ping", age |-> 0]
    <3>1. PingAged(m, 0)
      BY <1>6, <2>1 DEF PingAged
    <3> QED BY <1>5, <3>1 DEF Noticed
  <2>2. CASE m = l /\ Len(l) >= 1 /\ calm' = 0
    <3>1. calm' <= Ago(x)' /\ \E i \in 1 .. Len(m) : m[i].age >= Ago(x)'
      BY <1>6, <1>8, <2>2
    <3> QED BY <1>5, <3>1 DEF Noticed
  <2> QED BY <1>7, <2>1, <2>2
<1>10. Helped(x)'
  <2> SUFFICES ASSUME calm' > MaxDelay
               PROVE  PingAged(k, 0 - MaxDelay) \/ Asking(m, alive[p] = "OK", 0)
    <3>1. Helped(x)' = (alive'[x] = "PING_SENT" /\ calm' > Ago(x)' + MaxDelay =>
                          \/ PingAged(Line(p)', Ago(x)' - MaxDelay)
                          \/ Asking(Line(x)', alive'[p] = "OK", Ago(x)'))
      BY <1>1 DEF Helped
    <3>2. 0 + MaxDelay = MaxDelay
      BY <1>6
    <3> QED BY <1>2, <1>4, <1>5, <1>8, <3>1, <3>2, Zenon
  <2>1. /\ Grown(l, m) /\ Len(m) = Len(l) + 1 /\ calm' = calm
        /\ m[Len(l) + 1] = [frame |-> "ping", age |-> 0]
    BY <1>6, <1>7
  <2>2. CASE alive[p] = "OK"
    BY <1>6, <2>1, <2>2 DEF Asking
  <2>3. CASE alive[p] = "PING_SENT"
    <3>1. Noticed(p)
      BY DEF CauseInv
    <3>2. CASE PingAged(k, 0)
      BY <1>6, <3>2 DEF PingAged
    <3>3. CASE PingAged(l, 0)
      <4>1. PICK j \in 1 .. Len(l) : l[j].frame = "ping"
        BY <3>3 DEF PingAged
      <4>2. Len(l) + 1 \in 1 .. Len(m) /\ j \in 1 .. (Len(l) + 1) - 1 /\ m[j].frame = "ping"
        BY <1>6, <2>1, <4>1 DEF Grown
      <4> QED BY <2>1, <4>2 DEF Asking
    <3>4. CASE PingTimeout - timer[x] <= Ago(p)
      BY <1>2, <1>6, <2>3, <3>4
    <3>5. CASE calm <= Ago(p) /\ \E i \in 1 .. Len(k) : k[i].age >= Ago(p)
      <4>1. PICK i \in 1 .. Len(k) : k[i].age >= Ago(p) /\ k[i].age \in 0 .. MaxDelay
        BY <1>6, <3>5
      <4>2. Ago(p) <= MaxDelay
        BY <1>6, <2>3, <4>1
      <4> QED BY <1>6, <2>1, <2>3, <3>5, <4>2
    <3> QED BY <1>1, <1>5, <2>3, <3>1, <3>2, <3>3, <3>4, <3>5 DEF Noticed
  <2> QED BY <1>6, <2>2, <2>3
<1>11. Noticed(p)'
  BY <1>1, <1>2, <1>6, <1>8 DEF Noticed
<1>12. Helped(p)'
  <2> SUFFICES ASSUME alive[p] = "PING_SENT", calm' > Ago(p) + MaxDelay
               PROVE  PingAged(m, Ago(p) - MaxDelay)
    BY <1>1, <1>2, <1>4, <1>5, <1>8 DEF Helped
  <2>1. /\ Grown(l, m) /\ Len(m) = Len(l) + 1 /\ calm' = calm
        /\ m[Len(l) + 1] = [frame |-> "ping", age |-> 0]
    BY <1>6, <1>7
  <2>2. PingAged(l, Ago(p) - MaxDelay) \/ Asking(k, alive[x] = "OK", Ago(p))
    BY <1>1, <1>5, <2>1 DEF CauseInv, Helped
  <2>3. CASE PingAged(l, Ago(p) - MaxDelay)
    BY <1>6, <2>1, <2>3, PingAgedGrows
  <2>4. CASE Asking(k, alive[x] = "OK", Ago(p))
    <3>1. PICK i \in 1 .. Len(k) : k[i].age >= Ago(p) /\ k[i].age \in 0 .. MaxDelay
      BY <1>6, <2>4 DEF Asking
    <3>2. 0 >= Ago(p) - MaxDelay
      BY <1>6, <3>1
    <3> QED BY <1>6, <2>1, <3>2 DEF PingAged
  <2> QED BY <2>2, <2>3, <2>4
<1> QED BY <1>1, <1>9, <1>10, <1>11, <1>12, CauseOfBoth

(* Nothing but lines that grow. *)
LEMMA GrownCause ==
    ASSUME PingInv, CauseInv, \A e \in Ends : status[e] = "open", calm' = calm,
           \A e \in Ends :
              /\ alive'[e] = alive[e] /\ timer'[e] = timer[e]
              /\ alive[e] = "PING_SENT" => check'[e] = check[e]
              /\ Grown(Line(e), Line(e)') /\ Len(Line(e)') \in Nat
    PROVE  CauseInv'
<1>1. ASSUME NEW e \in Ends
      PROVE  (Noticed(e) /\ Helped(e))'
  <2>1. PICK p \in Ends : p = Peer(e)
    BY PeerIsOther
  <2>2. PICK l, m, k, n : l = Line(e) /\ m = Line(e)' /\ k = Line(p) /\ n = Line(p)'
    OBVIOUS
  <2>3. Len(l) \in Nat /\ Len(m) \in Nat /\ Len(k) \in Nat /\ Len(n) \in Nat /\ Grown(l, m) /\ Grown(k, n)
    BY <2>2, EndIs
  <2> SUFFICES ASSUME alive'[e] = "PING_SENT"
               PROVE  (Noticed(e) /\ Helped(e))'
    BY DEF Noticed, Helped
  <2>4. alive[e] = "PING_SENT" /\ Ago(e)' = Ago(e) /\ timer'[p] = timer[p] /\ alive'[p] = alive[p]
    BY DEF Ago
  <2>5. Noticed(e)'
    <3>1. \/ PingAged(l, 0) \/ PingAged(k, 0)
          \/ PingTimeout - timer[p] <= Ago(e)
          \/ calm <= Ago(e) /\ \E i \in 1 .. Len(l) : l[i].age >= Ago(e)
      BY <2>1, <2>2, <2>4 DEF CauseInv, Noticed
    <3>2. (\E i \in 1 .. Len(l) : l[i].age >= Ago(e)) => (\E i \in 1 .. Len(m) : m[i].age >= Ago(e))
      BY <2>3 DEF Grown
    <3>3. (PingAged(l, 0) => PingAged(m, 0)) /\ (PingAged(k, 0) => PingAged(n, 0))
      BY <2>3, PingAgedGrows
    <3> QED BY <2>1, <2>2, <2>4, <3>1, <3>2, <3>3 DEF Noticed
  <2>6. Helped(e)'
    <3> SUFFICES ASSUME calm > Ago(e) + MaxDelay
                 PROVE  PingAged(n, Ago(e) - MaxDelay) \/ Asking(m, alive[p] = "OK", Ago(e))
      BY <2>1, <2>2, <2>4 DEF Helped
    <3>1. PingAged(k, Ago(e) - MaxDelay) \/ Asking(l, alive[p] = "OK", Ago(e))
      BY <2>1, <2>2, <2>4 DEF CauseInv, Helped
    <3>2. PingAged(k, Ago(e) - MaxDelay) => PingAged(n, Ago(e) - MaxDelay)
      BY <2>3, PingAgedGrows
    <3>3. Asking(l, alive[p] = "OK", Ago(e)) => Asking(m, alive[p] = "OK", Ago(e))
      BY <2>3, AskingGrows
    <3> QED BY <3>1, <3>2, <3>3
  <2> QED BY <2>5, <2>6
<1>2. PICK e \in Ends : TRUE
  BY DEF Ends
<1> QED BY <1>1, PeerIsOther, CauseOfBoth

LEMMA SameCause ==
    ASSUME PingInv, CauseInv, \A e \in Ends : status[e] = "open", calm' = calm,
           \A e \in Ends :
              /\ alive'[e] = alive[e] /\ timer'[e] = timer[e] /\ Line(e)' = Line(e)
              /\ alive[e] = "PING_SENT" => check'[e] = check[e]
    PROVE  CauseInv'
<1>1. \A e \in Ends : Grown(Line(e), Line(e)') /\ Len(Line(e)') \in Nat
  BY EndIs DEF Grown
<1> QED BY <1>1, GrownCause

LEMMA WriteDataCause ==
    ASSUME PingInv, CauseInv, \A e \in Ends : status[e] = "open", NEW x \in Ends, WriteData(x)
    PROVE  CauseInv'
<1>1. /\ queue' = [queue EXCEPT ![x] = Append(queue[x], "data")]
      /\ UNCHANGED <<wire, alive, timer, check, calm>>
  BY DEF WriteData, timerVars
<1>2. queue'[x] = Append(queue[x], "data") /\ \A e \in Ends : e # x => queue'[e] = queue[e]
  BY <1>1 DEF PingInv, PingTypeOK
<1>3. ASSUME NEW e \in Ends
      PROVE  Grown(Line(e), Line(e)') /\ Len(Line(e)') \in Nat
  <2>1. Len(Line(e)) \in Nat /\ wire[e] \in Seq(Timed) /\ queue[e] \in Seq(Frames) /\ "data" \in Frames
    BY EndIs DEF Frames
  <2>2. CASE e = x
    <3>1. Line(e)' = LineOf(wire[e], Append(queue[e], "data"))
      BY <1>1, <1>2, <2>2 DEF Line
    <3>2. /\ Grown(LineOf(wire[e], queue[e]), LineOf(wire[e], Append(queue[e], "data")))
          /\ Len(LineOf(wire[e], Append(queue[e], "data"))) = Len(LineOf(wire[e], queue[e])) + 1
      BY <2>1, LineGrows
    <3> QED BY <2>1, <3>1, <3>2 DEF Line
  <2>3. CASE e # x
    <3>1. Line(e)' = Line(e)
      BY <1>1, <1>2, <2>3 DEF Line
    <3> QED BY <2>1, <3>1 DEF Grown
  <2> QED BY <2>2, <2>3
<1> QED BY <1>1, <1>3, GrownCause

LEMMA SendCause ==
    ASSUME PingInv, CauseInv, \A e \in Ends : status[e] = "open", NEW x \in Ends, Send(x)
    PROVE  CauseInv'
<1>1. /\ queue' = [queue EXCEPT ![x] = << >>] /\ wire' = [wire EXCEPT ![x] = wire[x] \o Fresh(queue[x])]
      /\ UNCHANGED <<alive, timer, check, calm>>
  BY DEF Send, timerVars, Fresh
<1>2. /\ queue'[x] = << >> /\ wire'[x] = wire[x] \o Fresh(queue[x])
      /\ \A e \in Ends : e # x => queue'[e] = queue[e] /\ wire'[e] = wire[e]
  BY <1>1 DEF PingInv, PingTypeOK
<1>3. ASSUME NEW e \in Ends
      PROVE  Line(e)' = Line(e)
  <2>1. CASE e = x
    <3>1. Line(e)' = LineOf(wire[e] \o Fresh(queue[e]), << >>)
      BY <1>2, <2>1 DEF Line
    <3> QED BY <3>1, EndIs, LineSent DEF Line
  <2>2. CASE e # x
    BY <1>2, <2>2 DEF Line
  <2> QED BY <2>1, <2>2
<1> QED BY <1>1, <1>3, SameCause

LEMMA CheckPassesCause ==
    ASSUME PingInv, CauseInv, \A e \in Ends : status[e] = "open", NEW x \in Ends, CheckPasses(x)
    PROVE  CauseInv'
<1>1. /\ alive[x] = "OK" /\ check' = [check EXCEPT ![x] = Off]
      /\ UNCHANGED <<alive, timer, queue, wire, calm>>
  BY DEF CheckPasses
<1>2. \A e \in Ends : Line(e)' = Line(e)
  BY <1>1 DEF Line
<1>3. \A e \in Ends : alive[e] = "PING_SENT" => check'[e] = check[e]
  BY <1>1 DEF PingInv, PingTypeOK
<1> QED BY <1>1, <1>2, <1>3, SameCause

LEMMA ReceiveCause ==
    ASSUME PingInv, CauseInv, \A e \in Ends : status[e] = "open", NEW x \in Ends, Receive(x)
    PROVE  CauseInv'
<1>1. PICK p \in Ends : p = Peer(x) /\ x = Peer(p) /\ p # x
  BY PeerIsOther
<1>2. /\ wire[p] # << >> /\ wire'[p] = Tail(wire[p]) /\ wire'[x] = wire[x]
      /\ timer'[x] = PingTimeout /\ timer'[p] = timer[p] /\ check' = check
      /\ IF Head(wire[p]).frame = "ping" THEN PingFrame(x) ELSE UNCHANGED <<alive, queue, calm>>
  BY <1>1 DEF Receive, PingInv, PingTypeOK
<1>3. PICK l, m, k, n : l = Line(x) /\ m = Line(x)' /\ k = Line(p) /\ n = Line(p)'
  OBVIOUS
<1>4. /\ Len(l) \in Nat /\ Len(k) \in Nat
      /\ \A i \in 1 .. Len(l) : l[i].age \in 0 .. MaxDelay
      /\ \A i \in 1 .. Len(k) : k[i].age \in 0 .. MaxDelay
      /\ alive[p] \in {"OK", "PING_SENT"} /\ alive[x] \in {"OK", "PING_SENT"}
      /\ alive[p] = "PING_SENT" => Ago(p) \in 0 .. CheckTimeout
      /\ alive[x] = "PING_SENT" => Ago(x) \in 0 .. CheckTimeout
      /\ calm \in Nat /\ MaxDelay \in Nat /\ CheckTimeout \in Nat /\ PingTimeout \in Nat
  BY <1>3, EndIs
<1>5. queue'[p] = queue[p] /\ alive'[p] = alive[p]
  <2>1. WritePing(x) => queue'[p] = queue[p]
    BY <1>1, <1>2, WritePingLine
  <2> QED BY <1>1, <1>2, <2>1 DEF PingFrame, PingInv, PingTypeOK
<1>6. Begun(k, n) /\ k[1] = Head(wire[p])
  <2>1. n = LineOf(Tail(wire[p]), queue[p]) /\ k = LineOf(wire[p], queue[p])
    BY <1>2, <1>3, <1>5 DEF Line
  <2>2. wire[p] \in Seq(Timed) /\ queue[p] \in Seq(Frames)
    BY EndIs
  <2> QED BY <1>2, <2>1, <2>2, LineRead
<1>7. Ago(x)' = Ago(x) /\ Ago(p)' = Ago(p)
  BY <1>2 DEF Ago
<1>8. Noticed(p)'
  <2> SUFFICES ASSUME alive[p] = "PING_SENT"
               PROVE  PingTimeout - timer'[x] <= Ago(p)'
    BY <1>1, <1>5 DEF Noticed
  <2> QED BY <1>2, <1>4, <1>7
(* What the read does to the end that reads. *)
<1>9. CASE k[1].frame # "ping"
  <2>1. UNCHANGED <<alive, queue, calm>> /\ m = l
    <3>1. UNCHANGED <<alive, queue, calm>>
      BY <1>2, <1>6, <1>9
    <3> QED BY <1>2, <1>3, <3>1 DEF Line
  <2>2. Noticed(x)'
    <3> SUFFICES ASSUME alive[x] = "PING_SENT"
                 PROVE  \/ PingAged(l, 0) \/ PingAged(n, 0)
                        \/ PingTimeout - timer[p] <= Ago(x)
                        \/ calm <= Ago(x) /\ \E i \in 1 .. Len(l) : l[i].age >= Ago(x)
      BY <1>1, <1>2, <1>3, <1>7, <2>1 DEF Noticed
    <3>1. \/ PingAged(l, 0) \/ PingAged(k, 0)
          \/ PingTimeout - timer[p] <= Ago(x)
          \/ calm <= Ago(x) /\ \E i \in 1 .. Len(l) : l[i].age >= Ago(x)
      BY <1>1, <1>3 DEF CauseInv, Noticed
    <3>2. PingAged(k, 0) => PingAged(n, 0)
      BY <1>4, <1>6, <1>9, PingAgedStays
    <3> QED BY <3>1, <3>2
  <2>3. Helped(x)'
    <3> SUFFICES ASSUME alive[x] = "PING_SENT", calm > Ago(x) + MaxDelay
                 PROVE  PingAged(n, Ago(x) - MaxDelay) \/ Asking(l, alive[p] = "OK", Ago(x))
      BY <1>1, <1>2, <1>3, <1>5, <1>7, <2>1 DEF Helped
    <3>1. PingAged(k, Ago(x) - MaxDelay) \/ Asking(l, alive[p] = "OK", Ago(x))
      BY <1>1, <1>3 DEF CauseInv, Helped
    <3>2. PingAged(k, Ago(x) - MaxDelay) => PingAged(n, Ago(x) - MaxDelay)
      BY <1>4, <1>6, <1>9, PingAgedStays
    <3> QED BY <3>1, <3>2
  <2>4. Helped(p)'
    <3> SUFFICES ASSUME alive[p] = "PING_SENT", calm > Ago(p) + MaxDelay
                 PROVE  PingAged(l, Ago(p) - MaxDelay) \/ Asking(n, alive[x] = "OK", Ago(p))
      BY <1>1, <1>2, <1>3, <1>5, <1>7, <2>1 DEF Helped
    <3>1. PingAged(l, Ago(p) - MaxDelay) \/ Asking(k, alive[x] = "OK", Ago(p))
      BY <1>1, <1>3 DEF CauseInv, Helped
    <3>2. Asking(k, alive[x] = "OK", Ago(p)) => Asking(n, alive[x] = "OK", Ago(p))
      BY <1>4, <1>6, <1>9, AskingStays
    <3> QED BY <3>1, <3>2
  <2> QED BY <1>1, <1>8, <2>2, <2>3, <2>4, CauseOfBoth
<1>10. CASE k[1].frame = "ping"
  <2>1. PingFrame(x) /\ alive'[x] = "OK"
    <3>1. PingFrame(x)
      BY <1>2, <1>6, <1>10
    <3> QED BY <3>1 DEF PingFrame, PingInv, PingTypeOK
  <2>2. Noticed(x)' /\ Helped(x)'
    BY <2>1 DEF Noticed, Helped
  <2>3. Helped(p)'
    <3> SUFFICES ASSUME alive[p] = "PING_SENT", calm' > Ago(p) + MaxDelay
                 PROVE  PingAged(m, Ago(p) - MaxDelay) \/ Asking(n, TRUE, Ago(p))
      BY <1>1, <1>2, <1>3, <1>5, <1>7, <2>1 DEF Helped
    <3>1. CASE alive[x] = "OK"
      <4>1. WritePing(x)
        BY <2>1, <3>1 DEF PingFrame
      <4>2. /\ Grown(l, m) /\ Len(m) = Len(l) + 1 /\ calm' = calm
            /\ m[Len(l) + 1] = [frame |-> "ping", age |-> 0]
        <5>1. calm' # 0
          BY <1>4
        <5> QED BY <1>2, <1>3, <4>1, <5>1, WritePingLine
      <4>3. PingAged(l, Ago(p) - MaxDelay) \/ Asking(k, alive[x] = "OK", Ago(p))
        BY <1>1, <1>3, <4>2 DEF CauseInv, Helped
      <4>4. ASSUME PingAged(l, Ago(p) - MaxDelay)
            PROVE  PingAged(m, Ago(p) - MaxDelay)
        BY <1>4, <4>2, <4>4, PingAgedGrows
      <4>5. ASSUME Asking(k, alive[x] = "OK", Ago(p))
            PROVE  PingAged(m, Ago(p) - MaxDelay)
        <5>1. PICK i \in 1 .. Len(k) : k[i].age >= Ago(p) /\ k[i].age \in 0 .. MaxDelay
          BY <1>4, <4>5 DEF Asking
        <5>2. 0 >= Ago(p) - MaxDelay
          BY <1>4, <5>1
        <5>3. Len(l) + 1 \in 1 .. Len(m)
          BY <1>4, <4>2
        <5>4. m[Len(l) + 1] = [frame |-> "ping", age |-> 0]
          BY <4>2
        <5> QED BY <5>2, <5>3, <5>4, PingJoins
      <4> QED BY <4>3, <4>4, <4>5
    <3>2. CASE alive[x] = "PING_SENT"
      <4>1. UNCHANGED <<queue, calm>> /\ m = l
        <5>1. UNCHANGED <<queue, calm>>
          BY <2>1, <3>2 DEF PingFrame
        <5> QED BY <1>2, <1>3, <5>1 DEF Line
      <4>2. PingAged(l, Ago(p) - MaxDelay) \/ Asking(k, FALSE, Ago(p))
        BY <1>1, <1>3, <3>2, <4>1 DEF CauseInv, Helped
      <4>3. Asking(k, FALSE, Ago(p)) => Asking(n, TRUE, Ago(p))
        BY <1>4, <1>6, <1>10, AskingStays
      <4> QED BY <4>1, <4>2, <4>3
    <3> QED BY <1>4, <3>1, <3>2
  <2> QED BY <1>1, <1>8, <2>2, <2>3, CauseOfBoth
<1> QED BY <1>9, <1>10

LEMMA AgedHas ==
    ASSUME NEW l \in Seq(Timed), NEW m, Aged(l, m), NEW a \in Int
    PROVE  /\ PingAged(l, 0) => PingAged(m, 0)
           /\ PingAged(l, a - MaxDelay) => PingAged(m, (a + 1) - MaxDelay)
           /\ \A ok : Asking(l, ok, a) => Asking(m, ok, a + 1)
           /\ (\E i \in 1 .. Len(l) : l[i].age >= a) => (\E i \in 1 .. Len(m) : m[i].age >= a + 1)
<1>1. Len(l) \in Nat /\ Len(m) = Len(l) /\ MaxDelay \in Nat
  BY LenProperties, PingAssumption DEF Aged
<1>2. \A i \in 1 .. Len(l) : m[i].frame = l[i].frame /\ m[i].age = l[i].age + 1 /\ l[i].age \in Nat
  <2> SUFFICES ASSUME NEW i \in 1 .. Len(l)
               PROVE  l[i].age \in Nat
    BY DEF Aged
  <2>1. l[i] \in Timed
    <3> HIDE DEF Timed
    <3> QED BY ElementOfSeq
  <2>2. 0 .. MaxDelay \subseteq Nat
    BY <1>1
  <2> QED BY <2>1, <2>2 DEF Timed
<1>3. ASSUME NEW b \in Int
      PROVE  PingAged(l, b) => PingAged(m, b) /\ PingAged(m, b + 1)
  <2> SUFFICES ASSUME NEW i \in 1 .. Len(l), l[i].frame = "ping", l[i].age >= b
               PROVE  PingAged(m, b) /\ PingAged(m, b + 1)
    BY DEF PingAged
  <2>1. i \in 1 .. Len(m) /\ m[i].frame = "ping" /\ m[i].age >= b /\ m[i].age >= b + 1
    BY <1>1, <1>2
  <2> QED BY <2>1 DEF PingAged
<1>4. ASSUME NEW ok, Asking(l, ok, a)
      PROVE  Asking(m, ok, a + 1)
  <2>1. PICK i \in 1 .. Len(l) : /\ l[i].frame = "ping" /\ l[i].age >= a
                                 /\ ok \/ \E j \in 1 .. i - 1 : l[j].frame = "ping"
    BY <1>4 DEF Asking
  <2>2. i \in 1 .. Len(m) /\ m[i].frame = "ping" /\ m[i].age >= a + 1
    BY <1>1, <1>2, <2>1
  <2>3. \A j \in 1 .. i - 1 : m[j].frame = l[j].frame
    BY <1>1, <1>2
  <2> QED BY <2>1, <2>2, <2>3 DEF Asking
<1>5. PingAged(l, a - MaxDelay) => PingAged(m, (a + 1) - MaxDelay)
  <2>1. a - MaxDelay \in Int /\ (a - MaxDelay) + 1 = (a + 1) - MaxDelay
    BY <1>1
  <2> QED BY <1>3, <2>1
<1>6. (\E i \in 1 .. Len(l) : l[i].age >= a) => (\E i \in 1 .. Len(m) : m[i].age >= a + 1)
  BY <1>1, <1>2
<1> QED BY <1>3, <1>4, <1>5, <1>6

LEMMA TickCause ==
    ASSUME PingInv, CauseInv, \A e \in Ends : status[e] = "open", Tick
    PROVE  CauseInv'
<1>1. ASSUME NEW e \in Ends
      PROVE  Aged(Line(e), Line(e)')
  <2>1. queue[e] = << >> /\ queue' = queue
    BY DEF Tick, Settled
  <2>2. wire'[e] = Older(wire[e])
    BY PeerIsOther DEF Tick
  <2> QED BY <2>1, <2>2, EndIs, LineAges DEF Line
<1>2. ASSUME NEW e \in Ends
      PROVE  (Noticed(e) /\ Helped(e))'
  <2>1. PICK p \in Ends : p = Peer(e)
    BY PeerIsOther
  <2>2. PICK l, m, k, n : l = Line(e) /\ m = Line(e)' /\ k = Line(p) /\ n = Line(p)'
    OBVIOUS
  <2>3. /\ l \in Seq(Timed) /\ k \in Seq(Timed) /\ Aged(l, m) /\ Aged(k, n)
        /\ alive[e] = "PING_SENT" => check[e] \in 0 .. CheckTimeout /\ Ago(e) \in 0 .. CheckTimeout
        /\ timer[p] \in 0 .. PingTimeout
        /\ MaxDelay \in Nat /\ CheckTimeout \in Nat /\ PingTimeout \in Nat /\ calm \in 0 .. LongAgo
        /\ LongAgo \in Nat
    <3>1. calm \in 0 .. LongAgo
      BY DEF PingInv, PingTypeOK
    <3>2. MaxDelay \in Nat /\ CheckTimeout \in Nat /\ PingTimeout \in Nat /\ LongAgo \in Nat
      BY PingAssumption DEF LongAgo
    <3> HIDE DEF Timed
    <3>3. /\ alive[e] = "PING_SENT" => check[e] \in 0 .. CheckTimeout /\ Ago(e) \in 0 .. CheckTimeout
          /\ timer[p] \in 0 .. PingTimeout /\ l \in Seq(Timed) /\ k \in Seq(Timed)
      BY <2>2, EndIs
    <3>4. Aged(l, m) /\ Aged(k, n)
      BY <1>1, <2>2
    <3> QED BY <3>1, <3>2, <3>3, <3>4
  <2> SUFFICES ASSUME alive'[e] = "PING_SENT"
               PROVE  (Noticed(e) /\ Helped(e))'
    BY DEF Noticed, Helped
  <2>4. /\ alive[e] = "PING_SENT" /\ alive' = alive
        /\ timer'[p] = timer[p] - 1
        /\ check'[e] = IF check[e] = Off THEN Off ELSE check[e] - 1
        /\ calm' = IF calm = LongAgo THEN LongAgo ELSE calm + 1
    BY DEF Tick
  <2>5. Ago(e)' = Ago(e) + 1 /\ Ago(e) \in 0 .. CheckTimeout /\ Ago(e) \in Int
    BY <2>3, <2>4 DEF Ago, Off
  <2>6. Noticed(e)'
    <3>1. \/ PingAged(l, 0) \/ PingAged(k, 0)
          \/ PingTimeout - timer[p] <= Ago(e)
          \/ calm <= Ago(e) /\ \E i \in 1 .. Len(l) : l[i].age >= Ago(e)
      BY <2>1, <2>2, <2>4 DEF CauseInv, Noticed
    <3>2. PingTimeout - timer[p] <= Ago(e) => PingTimeout - timer'[p] <= Ago(e)'
      BY <2>3, <2>4, <2>5
    <3>3. calm <= Ago(e) => calm' <= Ago(e)'
      BY <2>3, <2>4, <2>5
    <3>4. (\E i \in 1 .. Len(l) : l[i].age >= Ago(e)) => (\E i \in 1 .. Len(m) : m[i].age >= Ago(e)')
      BY <2>3, <2>5, AgedHas
    <3>5. (PingAged(l, 0) => PingAged(m, 0)) /\ (PingAged(k, 0) => PingAged(n, 0))
      BY <2>3, <2>5, AgedHas
    <3> QED BY <2>1, <2>2, <3>1, <3>2, <3>3, <3>4, <3>5 DEF Noticed
  <2>7. Helped(e)'
    <3> SUFFICES ASSUME calm' > Ago(e)' + MaxDelay
                 PROVE  PingAged(n, Ago(e)' - MaxDelay) \/ Asking(m, alive[p] = "OK", Ago(e)')
      BY <2>1, <2>2, <2>4 DEF Helped
    <3>1. calm > Ago(e) + MaxDelay
      BY <2>3, <2>4, <2>5
    <3>2. PingAged(k, Ago(e) - MaxDelay) \/ Asking(l, alive[p] = "OK", Ago(e))
      BY <2>1, <2>2, <2>4, <3>1 DEF CauseInv, Helped
    <3>3. PingAged(k, Ago(e) - MaxDelay) => PingAged(n, (Ago(e) + 1) - MaxDelay)
      BY <2>3, <2>5, AgedHas
    <3>4. Asking(l, alive[p] = "OK", Ago(e)) => Asking(m, alive[p] = "OK", Ago(e) + 1)
      BY <2>3, <2>5, AgedHas
    <3> QED BY <2>5, <3>2, <3>3, <3>4
  <2> QED BY <2>6, <2>7
<1>3. PICK e \in Ends : TRUE
  BY DEF Ends
<1> QED BY <1>2, PeerIsOther, CauseOfBoth

LEMMA CauseStep == PingInv /\ CauseInv /\ [Next]_vars => CauseInv'
<1> SUFFICES ASSUME PingInv, CauseInv, [Next]_vars, \A e \in Ends : status'[e] = "open"
             PROVE  CauseInv'
  BY DEF CauseInv
<1>0. status = [e \in Ends |-> status[e]]
  BY DEF PingInv, PingTypeOK
<1>1. ASSUME NEW x \in Ends, NEW how \in {"unreachable", "silent", "closed"}
      PROVE  ~ Stops(x, how)
  <2> SUFFICES ASSUME Stops(x, how)
               PROVE  FALSE
    OBVIOUS
  <2>1. status'[x] = how
    BY <1>0 DEF Stops
  <2> QED BY <2>1
<1>2. ASSUME NEW x \in Ends
      PROVE  ~ GivesUp(x) /\ ~ FallsSilent(x) /\ ~ PeerClosed(x)
  BY <1>1 DEF GivesUp, FallsSilent, PeerClosed
<1>3. status' = status
  BY <1>2 DEF Next, vars, Tick, TimerFires, CheckPasses, WriteData, Send, Receive
<1>4. \A e \in Ends : status[e] = "open"
  BY <1>3
<1>5. CASE Tick
  BY <1>4, <1>5, TickCause
<1>6. ASSUME NEW x \in Ends, TimerFires(x) \/ CheckPasses(x) \/ WriteData(x) \/ Send(x) \/ Receive(x)
      PROVE  CauseInv'
  BY <1>4, <1>6, TimerFiresCause, CheckPassesCause, WriteDataCause, SendCause, ReceiveCause
<1>7. CASE UNCHANGED vars
  <2>1. \A e \in Ends : Line(e)' = Line(e)
    BY <1>7 DEF vars, Line
  <2> QED BY <1>4, <1>7, <2>1, SameCause DEF vars, timerVars
<1> QED BY <1>2, <1>5, <1>6, <1>7 DEF Next

(* A peer that is there is given up only for a cause: a ping refused not    *)
(* longer ago than CheckTimeout + MaxDelay (socket_ping.c:13-34), for all  *)
(* timeouts that leave time for an answer and all queue sizes.             *)
THEOREM GivenUpForCause == Spec => GivesUpForCause
<1>1. Init => PingInv /\ CauseInv
  <2>1. Init => CauseInv
    BY DEF Init, CauseInv, Noticed, Helped
  <2> QED BY <2>1, PingInit
<1>2. PingInv /\ CauseInv /\ [Next]_vars => PingInv' /\ CauseInv'
  BY TypeStep, TimersStep, CauseStep DEF PingInv
<1>3. PingInv /\ CauseInv => \A e \in Ends : GivesUp(e) /\ status[Peer(e)] = "open" => calm < LongAgo
  <2> SUFFICES ASSUME PingInv, CauseInv, NEW e \in Ends, GivesUp(e), status[Peer(e)] = "open"
               PROVE  calm < LongAgo
    OBVIOUS
  <2>1. PICK p \in Ends : p = Peer(e)
    BY PeerIsOther
  <2>2. \A f \in Ends : status[f] = "open"
    <3>1. status[e] = "open"
      BY DEF GivesUp, Stops
    <3> QED BY <3>1 DEF Ends, Peer
  <2>3. /\ alive[e] = "PING_SENT" /\ Ago(e) = CheckTimeout
        /\ calm \in 0 .. LongAgo /\ LongAgo = CheckTimeout + MaxDelay + 1
        /\ MaxDelay \in Nat /\ CheckTimeout \in Nat /\ 2 * MaxDelay < CheckTimeout
    <3>1. alive[e] \in {"OK", "PING_SENT"} /\ calm \in 0 .. LongAgo /\ alive[e] # "OK" /\ check[e] = 0
      BY DEF PingInv, PingTypeOK, GivesUp
    <3> QED BY <3>1, PingAssumption, ResponsiveAssumption DEF Ago, LongAgo
  <2>4. PICK l, k : l = Line(e) /\ k = Line(p)
    OBVIOUS
  <2>5. /\ \A i \in 1 .. Len(l) : l[i].age \in 0 .. MaxDelay
        /\ \A i \in 1 .. Len(k) : k[i].age \in 0 .. MaxDelay
    BY <2>4, EndIs
  <2>6. CASE calm > CheckTimeout + MaxDelay
    <3>1. PingAged(k, CheckTimeout - MaxDelay) \/ Asking(l, alive[p] = "OK", CheckTimeout)
      BY <2>1, <2>2, <2>3, <2>4, <2>6 DEF CauseInv, Helped
    <3>2. ~ PingAged(k, CheckTimeout - MaxDelay)
      BY <2>3, <2>5 DEF PingAged
    <3>3. ~ Asking(l, alive[p] = "OK", CheckTimeout)
      <4>1. \A i \in 1 .. Len(l) : ~ (l[i].age >= CheckTimeout)
        BY <2>3, <2>5
      <4> QED BY <4>1 DEF Asking
    <3> QED BY <3>1, <3>2, <3>3
  <2>7. CASE ~ (calm > CheckTimeout + MaxDelay)
    BY <2>3, <2>7
  <2> QED BY <2>6, <2>7
<1>4. PingInv /\ CauseInv => [\A e \in Ends : GivesUp(e) /\ status[Peer(e)] = "open" => calm < LongAgo]_vars
  BY <1>3
<1> QED BY <1>1, <1>2, <1>4, PTL DEF Spec, GivesUpForCause
=============================================================================
