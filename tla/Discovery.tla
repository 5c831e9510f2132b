----------------------------- MODULE Discovery ------------------------------
(***************************************************************************)
(* The life of one object of src/discovery, listening for requests or      *)
(* scanning for listeners: opening, sending, failing and closing, as user  *)
(* threads and the thread of the event loop interleave.  A step is what    *)
(* happens between two points where another thread can act on the same     *)
(* data.  What is in the datagrams is the subject of DiscoveryPackets.     *)
(*                                                                         *)
(* External: as in Socket; closing the udp handle cancels the sends on it; *)
(* uv_close on a handle that was never initialised aborts.                 *)
(***************************************************************************)
EXTENDS Naturals, Sequences, FiniteSets

CONSTANTS
    Users,      \* user threads that may close the discovery
    MaxFlight   \* bound on the uv_udp_send requests not answered

ASSUME DiscoveryAssumption == MaxFlight \in Nat

VARIABLES
    state,      \* discovery->state
    mode,       \* "listen" or "scan": the call that opened it
    posting,    \* users between the unlock and the async send of a close
    closeQ,     \* close_async: the errors of the posted close contexts
    closeSig,   \* close_async was signalled and its callback is due
    loop,       \* where the loop thread is
    hand,       \* the error of the close context being handled
    handle,     \* the three uv handles
    started,    \* the timer of a scan and the receiving were started
    flight,     \* number of uv_udp_send requests not answered
    closeError, \* discovery->close_error
    closedCount,\* discovery->closed_handlers_count
    reports,    \* calls of close_callback
    cause       \* history: what first set CLOSING

closeVars == <<posting, closeQ, closeSig>>
handleVars == <<handle, closeError, closedCount, reports>>
ioVars == <<started, flight>>
vars == <<state, mode, closeVars, loop, hand, handleVars, ioVars, cause>>

Handles == {"udp", "timer", "close_async"}

Errors == {"OK", "BINDING", "JOINING_GROUP", "SENDING_FRAME"}

None == "NONE"

DiscoveryTypeOK ==
    /\ state \in {"CLOSED", "INITIALIZING", "LISTENING", "SCANNING", "CLOSING"}
    /\ mode \in {"none", "listen", "scan", "freed"}
    /\ posting \subseteq Users
    /\ closeQ \in Seq(Errors) /\ Len(closeQ) <= 1
    /\ closeSig \in BOOLEAN
    /\ loop \in {"none", "start", "bind", "join", "receive", "run", "close", "ended", "aborted"}
    /\ loop = "close" => hand \in Errors
    /\ handle \in [Handles -> {"uninit", "open", "closing", "closed"}]
    /\ started \in BOOLEAN
    /\ flight \in 0 .. MaxFlight
    /\ closeError \in Errors \cup {None}
    /\ closedCount \in 0 .. Cardinality(Handles)
    /\ reports \in Nat
    /\ cause \in Errors \cup {None}
-----------------------------------------------------------------------------
(* Faults that the properties below must catch, used by the mutation runs. *)
PostUnsignalled(error) ==
    IF Len(closeQ) = 1
    THEN UNCHANGED <<closeQ, closeSig>>
    ELSE closeQ' = Append(closeQ, error) /\ UNCHANGED closeSig

LoopCloseAgain(error) ==
    /\ state' = "CLOSING"
    /\ cause' = IF cause = None THEN error ELSE cause
    /\ IF Len(closeQ) = 1
       THEN UNCHANGED closeVars
       ELSE closeQ' = Append(closeQ, error) /\ closeSig' = TRUE /\ UNCHANGED posting

BeginsAnyway == TRUE

TakeCloseUnread ==
    IF closeQ = << >>
    THEN loop' = "run" /\ UNCHANGED <<closeQ, hand>>
    ELSE loop' = "close" /\ closeQ' = Tail(closeQ) /\ UNCHANGED hand

AllClosedAndOne(count) == count = 4
-----------------------------------------------------------------------------
(* cobra_discovery_create *)
Init ==
    /\ state = "CLOSED" /\ mode = "none"
    /\ posting = {}
    /\ closeQ = << >> /\ closeSig = FALSE
    /\ loop = "none" /\ hand = None
    /\ handle = [h \in Handles |-> "uninit"]
    /\ started = FALSE /\ flight = 0
    /\ closeError = None
    /\ closedCount = 0 /\ reports = 0
    /\ cause = None

(* cobra_discovery_destroy: refused (NOT_CLOSED) in every other state. *)
Destroy ==
    /\ state = "CLOSED" /\ mode = "none"
    /\ mode' = "freed"
    /\ UNCHANGED <<state, closeVars, loop, hand, handleVars, ioVars, cause>>

(* cobra_discovery_listen and cobra_discovery_scan: the handles are        *)
(* initialised under the mutex, the timer only by the scan; then the       *)
(* thread is created.                                                      *)
Open(how, opened) ==
    /\ state = "CLOSED" /\ mode = "none"
    /\ state' = "INITIALIZING"
    /\ mode' = how
    /\ handle' = [h \in Handles |-> IF h \in opened THEN "open" ELSE handle[h]]
    /\ loop' = "start"
    /\ UNCHANGED <<closeVars, hand, closeError, closedCount, reports, ioVars, cause>>

Listen == Open("listen", {"udp", "close_async"})

Scan == Open("scan", Handles)

(* Has the user not closed it during the creation of the thread? *)
Begins == state # "CLOSING"

(* cobra__discovery_listen_thread, cobra__discovery_scan_thread: the first *)
(* section, under the mutex.                                               *)
ThreadStarts ==
    /\ loop = "start"
    /\ IF Begins
       THEN /\ state' = IF mode = "listen" THEN "LISTENING" ELSE "SCANNING"
            /\ loop' = "bind"
       ELSE loop' = "run" /\ UNCHANGED state
    /\ UNCHANGED <<mode, closeVars, hand, handleVars, ioVars, cause>>

(* A failed assertion of libuv ends every thread. *)
Alive == loop # "aborted"

(* cobra_async_send on close_async; a second context is dropped. *)
Post(error) ==
    IF Len(closeQ) = 1
    THEN UNCHANGED <<closeQ, closeSig>>
    ELSE closeQ' = Append(closeQ, error) /\ closeSig' = TRUE

(* cobra__discovery_close called by the loop thread. *)
LoopClose(error) ==
    IF state \in {"CLOSED", "CLOSING"}
    THEN UNCHANGED <<state, closeVars, cause>>
    ELSE /\ state' = "CLOSING" /\ cause' = error
         /\ Post(error) /\ UNCHANGED posting

(* cobra_discovery_close called by a user: first the section under the     *)
(* mutex, then the async send.                                             *)
CloseBegins(u) ==
    /\ Alive
    /\ state \notin {"CLOSED", "CLOSING"}
    /\ state' = "CLOSING" /\ cause' = "OK"
    /\ posting' = posting \cup {u}
    /\ UNCHANGED <<mode, closeQ, closeSig, loop, hand, handleVars, ioVars>>

ClosePosted(u) ==
    /\ Alive
    /\ u \in posting
    /\ posting' = posting \ {u}
    /\ Post("OK")
    /\ UNCHANGED <<state, mode, loop, hand, handleVars, ioVars, cause>>
-----------------------------------------------------------------------------
(* The rest of the two thread functions.  They go on after a failure: a    *)
(* discovery that is closing joins the group and receives all the same.    *)
Bound ==
    /\ loop = "bind"
    /\ loop' = IF mode = "listen" THEN "join" ELSE "receive"
    /\ LoopClose("BINDING") \/ UNCHANGED <<state, closeVars, cause>>
    /\ UNCHANGED <<mode, hand, handleVars, ioVars>>

Joined ==
    /\ loop = "join"
    /\ loop' = "receive"
    /\ LoopClose("JOINING_GROUP") \/ UNCHANGED <<state, closeVars, cause>>
    /\ UNCHANGED <<mode, hand, handleVars, ioVars>>

(* uv_timer_start (scan) and uv_udp_recv_start, whose result is ignored: a *)
(* discovery that does not receive is as if no datagram came.              *)
ReceiveStarts ==
    /\ loop = "receive"
    /\ loop' = "run"
    /\ started' = TRUE
    /\ UNCHANGED <<state, mode, closeVars, hand, handleVars, flight, cause>>

(* A request goes out: the timer of a scan; an answer: a listener received *)
(* the packet.  The result of uv_udp_send is ignored, a refusal is as if   *)
(* nothing happened.                                                       *)
SendPacket ==
    /\ loop = "run" /\ started /\ flight < MaxFlight
    /\ \/ mode = "scan" /\ handle["timer"] = "open"
       \/ mode = "listen" /\ handle["udp"] = "open"
    /\ flight' = flight + 1
    /\ UNCHANGED <<state, mode, closeVars, loop, hand, handleVars, started, cause>>

(* cobra__discovery_listener_send_callback, the same for both modes; a     *)
(* cancelled send is a failed one, and a datagram that went out before     *)
(* uv_close may still be reported as sent.                                 *)
Sent ==
    /\ loop = "run" /\ flight > 0 /\ handle["udp"] \in {"open", "closing"}
    /\ flight' = flight - 1
    /\ UNCHANGED <<state, mode, closeVars, loop, hand, handleVars, started, cause>>

SendFailed ==
    /\ loop = "run" /\ flight > 0 /\ handle["udp"] \in {"open", "closing"}
    /\ flight' = flight - 1
    /\ LoopClose("SENDING_FRAME")
    /\ UNCHANGED <<mode, loop, hand, handleVars, started>>
-----------------------------------------------------------------------------
(* cobra__async_send_callback of close_async looks at the queue. *)
TakeClose ==
    IF closeQ = << >>
    THEN loop' = "run" /\ UNCHANGED <<closeQ, hand>>
    ELSE loop' = "close" /\ hand' = Head(closeQ) /\ closeQ' = Tail(closeQ)

CloseWakes ==
    /\ loop = "run" /\ closeSig /\ handle["close_async"] = "open"
    /\ closeSig' = FALSE
    /\ TakeClose
    /\ UNCHANGED <<state, mode, posting, handleVars, ioVars, cause>>

(* cobra__discovery_close_async_send_callback *)
CloseHandles ==
    /\ loop = "close"
    /\ \A h \in Handles : handle[h] = "open"
    /\ handle' = [h \in Handles |-> "closing"]
    /\ closeError' = hand
    /\ closedCount' = 0
    /\ TakeClose
    /\ UNCHANGED <<state, mode, posting, closeSig, reports, ioVars, cause>>

(* The same, on a handle that is not open. *)
CloseHandlesFails ==
    /\ loop = "close"
    /\ \E h \in Handles : handle[h] # "open"
    /\ loop' = "aborted"
    /\ UNCHANGED <<state, mode, closeVars, hand, handleVars, ioVars, cause>>

(* All of COBRA_DISCOVERY_TOTAL_HANDLERS_COUNT handles are closed. *)
AllClosed(count) == count = 3

(* cobra__discovery_common_close_callback, for one of the handles. *)
HandleClosed(h) ==
    /\ loop = "run" /\ handle[h] = "closing"
    /\ h = "udp" => flight = 0
    /\ handle' = [handle EXCEPT ![h] = "closed"]
    /\ closedCount' = closedCount + 1
    /\ reports' = IF AllClosed(closedCount') THEN reports + 1 ELSE reports
    /\ UNCHANGED <<state, mode, closeVars, loop, hand, closeError, ioVars, cause>>

(* uv_run returns: the thread ends. *)
LoopEnds ==
    /\ loop = "run"
    /\ \A h \in Handles : handle[h] = "closed"
    /\ loop' = "ended"
    /\ UNCHANGED <<state, mode, closeVars, hand, handleVars, ioVars, cause>>
-----------------------------------------------------------------------------
Next ==
    \/ Listen \/ Scan \/ Destroy
    \/ \E u \in Users : CloseBegins(u) \/ ClosePosted(u)
    \/ ThreadStarts \/ Bound \/ Joined \/ ReceiveStarts
    \/ SendPacket \/ Sent \/ SendFailed
    \/ CloseWakes \/ CloseHandles \/ CloseHandlesFails
    \/ \E h \in Handles : HandleClosed(h)
    \/ LoopEnds

(* The thread goes on to uv_run, the loop runs what is due, sends end in   *)
(* one way or the other, and a thread inside a close goes on.              *)
Fairness ==
    /\ WF_vars(ThreadStarts \/ Bound \/ Joined \/ ReceiveStarts)
    /\ WF_vars(Sent \/ SendFailed)
    /\ WF_vars(CloseWakes)
    /\ WF_vars(CloseHandles \/ CloseHandlesFails)
    /\ \A h \in Handles : WF_vars(HandleClosed(h))
    /\ WF_vars(LoopEnds)
    /\ \A u \in Users : WF_vars(ClosePosted(u))

Safety == Init /\ [][Next]_vars
Spec == Safety /\ Fairness
-----------------------------------------------------------------------------
(* A close context exists once: a thread is about to post it, it is in     *)
(* the queue, it is being handled, or it has been and the handles close.   *)
(* The state is set to CLOSING under the mutex and never left, unlike that *)
(* of a socket, so the handles are never closed twice.                     *)
OneContext ==
    Cardinality(posting) + Len(closeQ)
      + (IF loop \in {"close", "aborted"} THEN 1 ELSE 0)
      + (IF handle["close_async"] \in {"closing", "closed"} THEN 1 ELSE 0)
      = IF state = "CLOSING" THEN 1 ELSE 0

(* A posted context wakes the loop, whatever the thread is doing: a close  *)
(* that is called before uv_run is not lost.                               *)
ContextIsDue == closeQ # << >> => closeSig

(* close_async is used as the mailbox it is (Async.tla): a context is      *)
(* posted once the handle is initialised and wakes the loop, and only a    *)
(* callback that is due takes it (discovery_listen.c:18,                   *)
(* discovery_close.c:33).                                                  *)
CloseBox == INSTANCE Mailbox WITH
    Size <- 1, Data <- Errors,
    box <- closeQ, due <- closeSig,
    taken <- IF loop \in {"close", "aborted"} THEN hand ELSE None,
    handle <- IF handle["close_async"] = "uninit" THEN "unbound" ELSE handle["close_async"]
UsesMailbox == CloseBox!MailboxSpec

(* The user is told once, when nothing can call back any more, and of what *)
(* closed the discovery first: later failures do not replace it.           *)
ReportTellsCause ==
    reports > 0 =>
        /\ reports = 1
        /\ \A h \in Handles : handle[h] = "closed"
        /\ flight = 0
        /\ closeError = cause

(* A scan that is closed, or fails, is reported and its thread ends; of a  *)
(* listener see HandlesInitialised.                                        *)
CloseCompletes ==
    (state = "CLOSING" /\ mode = "scan") ~> (reports = 1 /\ loop = "ended")

(* No handle is closed that was not initialised: "Necessary to re-init     *)
(* handles each time you want to open connection"                          *)
(* (discovery_listen.c:14).                                                *)
HandlesInitialised == loop # "aborted"
=============================================================================
