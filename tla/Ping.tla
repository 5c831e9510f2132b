-------------------------------- MODULE Ping --------------------------------
(***************************************************************************)
(* The keep-alive of src/socket: the two ends of a connection, each with   *)
(* its timer_handle, its check_timer_handle and its alive flag, exchanging *)
(* pings (frames without a body) and packets.  A ping is answered with a   *)
(* ping, and no ping tells which of the two it is.                         *)
(*                                                                         *)
(* Time is discrete and the same for both ends.  Time does not pass while  *)
(* a timer is due, a write waits in write_async, or a frame has been under *)
(* way for MaxDelay; what happens at one instant happens in any order.     *)
(*                                                                         *)
(* External: TCP delivers frames in order; a frame is read within MaxDelay *)
(* of being written, the time its reader's loop is busy included; a peer   *)
(* may fall silent for good (its host or the network fails); uv_timer_again*)
(* restarts a repeating timer, which repeats at its own time otherwise.    *)
(***************************************************************************)
EXTENDS Integers, Sequences

CONSTANTS
    PingTimeout,    \* COBRA_SOCKET_PING_TIMEOUT
    CheckTimeout,   \* COBRA_SOCKET_PING_CHECK_TIMEOUT
    MaxDelay,       \* bound on the time from the write to the read of a frame
    QueueSize,      \* write_queue_size of the two sockets
    MaxData         \* bound on the packets under way from one end

ASSUME PingAssumption ==
    /\ PingTimeout \in Nat /\ CheckTimeout \in Nat
    /\ 0 < CheckTimeout /\ CheckTimeout < PingTimeout
    /\ MaxDelay \in 0 .. PingTimeout
    /\ QueueSize \in Nat \ {0} /\ MaxData \in Nat

(* There is time for a ping and its answer before the check. *)
ASSUME ResponsiveAssumption == 2 * MaxDelay < CheckTimeout

VARIABLES
    status,     \* of each end: "open", "unreachable", "closed" or "silent"
    alive,      \* sock->alive
    timer,      \* time left on timer_handle
    check,      \* time left on check_timer_handle, or Off
    queue,      \* write_async
    wire,       \* frames written by each end and not read yet, oldest first
    idle,       \* history: time since each end read something
    calm        \* history: time since a ping was last refused, up to LongAgo

timerVars == <<alive, timer, check>>
vars == <<status, timerVars, queue, wire, idle, calm>>

Ends == {"client", "server"}
Peer(e) == IF e = "client" THEN "server" ELSE "client"

Frames == {"ping", "data"}
Off == -1
LongAgo == CheckTimeout + MaxDelay + 1

PingTypeOK ==
    /\ status \in [Ends -> {"open", "unreachable", "closed", "silent"}]
    /\ alive \in [Ends -> {"OK", "PING_SENT"}]
    /\ timer \in [Ends -> 0 .. PingTimeout]
    /\ check \in [Ends -> Off .. CheckTimeout]
    /\ queue \in [Ends -> Seq(Frames)]
    /\ \A e \in Ends : Len(queue[e]) <= QueueSize
    /\ wire \in [Ends -> Seq([frame : Frames, age : 0 .. MaxDelay])]
    /\ idle \in [Ends -> Nat]
    /\ calm \in 0 .. LongAgo
-----------------------------------------------------------------------------
(* Faults that the properties below must catch, used by the mutation runs. *)
WritePingUnchecked(e) ==
    queue' = [queue EXCEPT ![e] = Append(@, "ping")] /\ UNCHANGED calm

StartCheckIfWritten(e) ==
    check' = IF queue' = queue THEN check ELSE [check EXCEPT ![e] = CheckTimeout]

AnswerAlways(e) ==
    /\ alive' = [alive EXCEPT ![e] = "OK"]
    /\ IF Len(queue[e]) = QueueSize
       THEN calm' = 0 /\ UNCHANGED queue
       ELSE queue' = [queue EXCEPT ![e] = Append(@, "ping")] /\ UNCHANGED calm

AnswerAfterOwnPing(e) ==
    IF alive[e] = "OK"
    THEN UNCHANGED <<alive, queue, calm>>
    ELSE /\ alive' = [alive EXCEPT ![e] = "OK"]
         /\ IF Len(queue[e]) = QueueSize
            THEN calm' = 0 /\ UNCHANGED queue
            ELSE queue' = [queue EXCEPT ![e] = Append(@, "ping")] /\ UNCHANGED calm
-----------------------------------------------------------------------------
(* cobra__socket_start_ping.  The ends are connected one after the other.  *)
Init ==
    /\ status = [e \in Ends |-> "open"]
    /\ alive = [e \in Ends |-> "OK"]
    /\ timer \in [Ends -> PingTimeout - MaxDelay .. PingTimeout]
    /\ check = [e \in Ends |-> Off]
    /\ queue = [e \in Ends |-> << >>]
    /\ wire = [e \in Ends |-> << >>]
    /\ idle = [e \in Ends |-> PingTimeout - timer[e]]
    /\ calm = LongAgo

(* cobra__socket_write of a ping: a full queue refuses it, and its result  *)
(* is not looked at.                                                       *)
WritePing(e) ==
    IF Len(queue[e]) = QueueSize
    THEN calm' = 0 /\ UNCHANGED queue
    ELSE queue' = [queue EXCEPT ![e] = Append(@, "ping")] /\ UNCHANGED calm

(* check_timer_handle is started, or started again. *)
StartCheck(e) == check' = [check EXCEPT ![e] = CheckTimeout]

(* cobra__socket_timer_callback *)
TimerFires(e) ==
    /\ status[e] = "open" /\ timer[e] = 0
    /\ timer' = [timer EXCEPT ![e] = PingTimeout]
    /\ alive' = [alive EXCEPT ![e] = "PING_SENT"]
    /\ WritePing(e)
    /\ StartCheck(e)
    /\ UNCHANGED <<status, wire, idle>>

(* An end stops: nothing of it is left that could act. *)
Stops(e, how) ==
    /\ status[e] = "open"
    /\ status' = [status EXCEPT ![e] = how]
    /\ check' = [check EXCEPT ![e] = Off]
    /\ queue' = [queue EXCEPT ![e] = << >>]
    /\ UNCHANGED <<alive, timer, wire, idle, calm>>

(* cobra__socket_check_timer_callback *)
CheckPasses(e) ==
    /\ status[e] = "open" /\ check[e] = 0
    /\ alive[e] = "OK"
    /\ check' = [check EXCEPT ![e] = Off]
    /\ UNCHANGED <<status, alive, timer, queue, wire, idle, calm>>

GivesUp(e) ==
    /\ check[e] = 0
    /\ alive[e] # "OK"
    /\ Stops(e, "unreachable")

(* cobra_socket_write, called by a user; a refused packet is no step. *)
WriteData(e) ==
    /\ status[e] = "open"
    /\ Len(queue[e]) < QueueSize
    /\ Len(queue[e]) + Len(wire[e]) < MaxData
    /\ queue' = [queue EXCEPT ![e] = Append(@, "data")]
    /\ UNCHANGED <<status, timerVars, wire, idle, calm>>

(* The callback of write_async empties the queue (socket_write.c:51).      *)
Send(e) ==
    /\ status[e] = "open" /\ queue[e] # << >>
    /\ wire' = [wire EXCEPT ![e] =
                  @ \o [i \in 1 .. Len(queue[e]) |-> [frame |-> queue[e][i], age |-> 0]]]
    /\ queue' = [queue EXCEPT ![e] = << >>]
    /\ UNCHANGED <<status, timerVars, idle, calm>>

(* cobra__socket_ping_frame *)
PingFrame(e) ==
    IF alive[e] = "OK"
    THEN WritePing(e) /\ UNCHANGED alive
    ELSE alive' = [alive EXCEPT ![e] = "OK"] /\ UNCHANGED <<queue, calm>>

(* cobra__socket_read_callback: every read restarts the timer.             *)
Receive(e) ==
    /\ status[e] = "open" /\ wire[Peer(e)] # << >>
    /\ timer' = [timer EXCEPT ![e] = PingTimeout]
    /\ idle' = [idle EXCEPT ![e] = 0]
    /\ IF Head(wire[Peer(e)]).frame = "ping"
       THEN PingFrame(e)
       ELSE UNCHANGED <<alive, queue, calm>>
    /\ wire' = [wire EXCEPT ![Peer(e)] = Tail(@)]
    /\ UNCHANGED <<status, check>>

(* The host of an end, or the network, fails. *)
FallsSilent(e) == Stops(e, "silent")

(* The peer gave up and closed the connection: length <= 0 is read.        *)
PeerClosed(e) ==
    /\ status[Peer(e)] = "unreachable"
    /\ Stops(e, "closed")

(* Is there nothing left to do for this end at this instant? *)
Settled(e) ==
    status[e] = "open" =>
        /\ timer[e] > 0 /\ check[e] # 0 /\ queue[e] = << >>
        /\ \A i \in 1 .. Len(wire[Peer(e)]) : wire[Peer(e)][i].age < MaxDelay

(* The same frames, one unit of time later. *)
Older(frames) ==
    [i \in 1 .. Len(frames) |-> [frame |-> frames[i].frame, age |-> frames[i].age + 1]]

(* Time passes.  What is sent to an end that stopped is lost. *)
Tick ==
    /\ \A e \in Ends : Settled(e)
    /\ timer' = [e \in Ends |-> IF status[e] = "open" THEN timer[e] - 1 ELSE timer[e]]
    /\ check' = [e \in Ends |-> IF check[e] = Off THEN Off ELSE check[e] - 1]
    /\ wire' = [e \in Ends |->
                  IF status[Peer(e)] = "open"
                  THEN Older(wire[e])
                  ELSE << >>]
    /\ idle' = [e \in Ends |-> IF status[e] = "open" THEN idle[e] + 1 ELSE idle[e]]
    /\ calm' = IF calm = LongAgo THEN LongAgo ELSE calm + 1
    /\ UNCHANGED <<status, alive, queue>>

Next ==
    \/ Tick
    \/ \E e \in Ends :
         \/ TimerFires(e) \/ CheckPasses(e) \/ GivesUp(e)
         \/ WriteData(e) \/ Send(e) \/ Receive(e)
         \/ FallsSilent(e) \/ PeerClosed(e)

Spec == Init /\ [][Next]_vars
-----------------------------------------------------------------------------
(* An end that is open has read something not longer ago than it takes to  *)
(* ping and to check: a peer that stopped is noticed in that time, also    *)
(* when the ping was refused (socket_ping.c:26).                           *)
DeadPeerNoticed ==
    \A e \in Ends : status[e] = "open" =>
        /\ idle[e] <= PingTimeout + CheckTimeout
        /\ idle[e] > PingTimeout => alive[e] = "PING_SENT" /\ check[e] # Off

(* A peer that is there is given up only when a ping, or the answer to     *)
(* one, was refused by a full queue on either side, and not longer ago     *)
(* than CheckTimeout + MaxDelay.  Pings that cross, each taken for the     *)
(* answer to the other, do no harm by themselves (socket_ping.c:13).       *)
GivesUpForCause ==
    [][\A e \in Ends : GivesUp(e) /\ status[Peer(e)] = "open" => calm < LongAgo]_vars

(* Pings end: once each end has what it takes for an answer, no ping is    *)
(* left under way, which an end that is OK would answer, and the other end *)
(* would answer that, for ever.                                            *)
Under(e) == {i \in 1 .. Len(wire[e]) : wire[e][i].frame = "ping"}
Queued(e) == {i \in 1 .. Len(queue[e]) : queue[e][i] = "ping"}

NoEcho ==
    (\A e \in Ends : status[e] = "open" /\ alive[e] = "OK") =>
        \A e \in Ends : Under(e) = {} /\ Queued(e) = {}
=============================================================================
