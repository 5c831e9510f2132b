------------------------------- MODULE Socket -------------------------------
(***************************************************************************)
(* The life of one socket of src/socket: connecting or being accepted,     *)
(* writing and closing, as user threads, the thread of the event loop and  *)
(* a worker of the resolver interleave.  A step is what happens between    *)
(* two points where another thread can act on the same data: a section     *)
(* under mutex_handle, a send on an async, a callback of the loop.         *)
(*                                                                         *)
(* The queues of close_async and write_async are the FIFOs that Queue and  *)
(* Async implement; draining and the bytes on the wire are left out.       *)
(*                                                                         *)
(* External, from the way the code uses libuv: a loop runs one callback at *)
(* a time; uv_cancel stops a lookup only while it is queued and leaves a   *)
(* connect request alone; closing the tcp handle cancels its connect       *)
(* request and its writes; uv_close on a handle that is not open aborts;   *)
(* uv_getaddrinfo, uv_tcp_connect and uv_write may refuse at once, and     *)
(* then never call back (the request of the first two is not set up);      *)
(* uv_tcp_connect does not ask whether the handle is open: on one that is  *)
(* closing or closed it opens a new descriptor, and the connection fails   *)
(* an assertion, or is cancelled with the closing, or, on a closed handle  *)
(* in a build without assertions, is made; reading and timers are refused  *)
(* on such a handle; uv_run returns when no handle and no request is left. *)
(***************************************************************************)
EXTENDS Naturals, Sequences

CONSTANTS
    Users,      \* user threads that may close the socket
    Writes,     \* the calls of cobra__socket_write, pings among them
    QueueSize   \* write_queue_size of cobra_socket_create

ASSUME SocketAssumption == QueueSize \in Nat \ {0} /\ "NONE" \notin Writes

VARIABLES
    state,      \* sock->state
    posting,    \* users between the unlock and the async send of a close
    closeQ,     \* close_async: the errors of the posted close contexts
    closeSig,   \* close_async was signalled and its callback is due
    writeQ,     \* write_async: the posted writes
    writeSig,   \* write_async was signalled and its callback is due
    loop,       \* where the loop thread is
    hand,       \* what the running async callback was given
    handle,     \* the five uv handles
    lookup,     \* resolve_request; "dead" after uv_getaddrinfo refused it
    dial,       \* connect_request; "dead" after uv_tcp_connect refused it,
                \* "late" on a tcp handle that is closing or closed
    flight,     \* uv_write requests not answered yet, oldest first
    wr,         \* what became of each write
    closeError, \* sock->close_error
    closedCount,\* sock->closed_handlers_count
    connects,   \* calls of connect_callback (connection_callback if accepted)
    reports,    \* calls of close_callback
    freed       \* cobra_socket_destroy succeeded

closeVars == <<posting, closeQ, closeSig>>
writeVars == <<writeQ, writeSig, flight, wr>>
handleVars == <<handle, closeError, closedCount, reports>>
dialVars == <<lookup, dial, connects>>
vars == <<state, closeVars, writeVars, loop, hand, handleVars, dialVars, freed>>

Handles == {"tcp", "timer", "check_timer", "write_async", "close_async"}

Errors == {"OK", "RESOLVING", "CONNECTING", "UNREACHABLE", "WRITE_ERROR"}

None == "NONE"

SocketTypeOK ==
    /\ state \in {"CLOSED", "INITIALIZING", "RESOLVING", "CONNECTING", "CONNECTED", "CLOSING"}
    /\ posting \subseteq Users
    /\ closeQ \in Seq(Errors) /\ Len(closeQ) <= 1
    /\ closeSig \in BOOLEAN
    /\ writeQ \in Seq(Writes) /\ Len(writeQ) <= QueueSize
    /\ writeSig \in BOOLEAN
    /\ loop \in {"none", "start", "run", "close", "write", "ended",
                "aborted", "crashed", "asserted"}
    /\ loop = "close" => hand \in Errors
    /\ loop = "write" => hand \in Writes
    /\ handle \in [Handles -> {"uninit", "open", "closing", "closed"}]
    /\ lookup \in {"none", "queued", "running", "canceled", "dead"}
    /\ dial \in {"none", "active", "late", "dead"}
    /\ flight \in Seq(Writes)
    /\ wr \in [Writes -> {"none", "checked", "refused", "queued", "flight",
                          "ok", "dropped", "failed", "lost"}]
    /\ closeError \in Errors \cup {None}
    /\ closedCount \in 0 .. 5
    /\ connects \in Nat
    /\ reports \in Nat
    /\ freed \in BOOLEAN
-----------------------------------------------------------------------------
(* Faults that the properties below must catch, used by the mutation runs. *)
PostUnchecked(error) == closeQ' = Append(closeQ, error) /\ closeSig' = TRUE

PostUnsignalled(error) ==
    IF Len(closeQ) = 1
    THEN UNCHANGED <<closeQ, closeSig>>
    ELSE closeQ' = Append(closeQ, error) /\ UNCHANGED closeSig

AllButOneClosed(count) == count >= 4

AllClosedAndOne(count) == count = 6

TakeWriteUnlessEmptied ==
    IF Len(writeQ) <= 1
    THEN loop' = "run" /\ writeQ' = << >> /\ UNCHANGED hand
    ELSE loop' = "write" /\ hand' = Head(writeQ) /\ writeQ' = Tail(writeQ)
-----------------------------------------------------------------------------
(* cobra_socket_create *)
Init ==
    /\ state = "CLOSED"
    /\ posting = {}
    /\ closeQ = << >> /\ closeSig = FALSE
    /\ writeQ = << >> /\ writeSig = FALSE
    /\ loop = "none" /\ hand = None
    /\ handle = [h \in Handles |-> "uninit"]
    /\ lookup = "none" /\ dial = "none"
    /\ flight = << >>
    /\ wr = [w \in Writes |-> "none"]
    /\ closeError = None
    /\ closedCount = 0
    /\ connects = 0 /\ reports = 0
    /\ freed = FALSE

(* cobra_socket_destroy: refused (NOT_CLOSED) in every other state. *)
Destroy ==
    /\ state = "CLOSED" /\ ~ freed
    /\ freed' = TRUE
    /\ UNCHANGED <<state, closeVars, writeVars, loop, hand, handleVars, dialVars>>

(* cobra_socket_connect: the handles are initialised under the mutex, then *)
(* the thread is created.                                                  *)
Connect ==
    /\ state = "CLOSED" /\ ~ freed
    /\ state' = "INITIALIZING"
    /\ handle' = [h \in Handles |-> "open"]
    /\ loop' = "start"
    /\ UNCHANGED <<closeVars, writeVars, hand, closeError, closedCount, reports, dialVars, freed>>

(* cobra__socket_bind, start_read and start_ping, then connection_callback *)
(* of the server: an accepted socket is CONNECTED from its first moment.   *)
(* Its loop is that of the server, which outlives it ("ended" then says    *)
(* that nothing of the socket is left on the loop).                        *)
Accept ==
    /\ state = "CLOSED" /\ ~ freed
    /\ state' = "CONNECTED"
    /\ handle' = [h \in Handles |-> "open"]
    /\ loop' = "run"
    /\ connects' = connects + 1
    /\ UNCHANGED <<closeVars, writeVars, hand, closeError, closedCount, reports, lookup, dial, freed>>

(* cobra__socket_connect_thread up to uv_run; the result of uv_getaddrinfo *)
(* is not looked at.                                                       *)
ConnectThread ==
    /\ loop = "start"
    /\ loop' = "run"
    /\ IF state = "CLOSING"
       THEN UNCHANGED <<state, lookup>>
       ELSE state' = "RESOLVING" /\ lookup' \in {"queued", "dead"}
    /\ UNCHANGED <<closeVars, writeVars, hand, handleVars, dial, connects, freed>>

(* A failed assertion of libuv, or a crash in it, ends every thread. *)
Alive == loop \notin {"aborted", "crashed", "asserted"}

(* A worker of the thread pool takes the lookup up: too late to cancel it. *)
LookupStarts ==
    /\ Alive
    /\ lookup = "queued"
    /\ lookup' = "running"
    /\ UNCHANGED <<state, closeVars, writeVars, loop, hand, handleVars, dial, connects, freed>>

(* cobra_async_send on close_async: a second context is dropped (OVERFLOW, *)
(* ignored by the code).                                                   *)
Post(error) ==
    IF Len(closeQ) = 1
    THEN UNCHANGED <<closeQ, closeSig>>
    ELSE closeQ' = Append(closeQ, error) /\ closeSig' = TRUE

(* cobra__socket_close called by the loop thread. *)
LoopClose(error) ==
    IF state \in {"CLOSED", "CLOSING"}
    THEN UNCHANGED <<state, closeVars>>
    ELSE state' = "CLOSING" /\ Post(error) /\ UNCHANGED posting

(* cobra_socket_close called by a user: first the section under the mutex, *)
(* then the async send.  (It does nothing if already closed or closing.)   *)
CloseBegins(u) ==
    /\ Alive
    /\ state \notin {"CLOSED", "CLOSING"}
    /\ u \notin posting
    /\ state' = "CLOSING"
    /\ posting' = posting \cup {u}
    /\ UNCHANGED <<closeQ, closeSig, writeVars, loop, hand, handleVars, dialVars, freed>>

ClosePosted(u) ==
    /\ Alive
    /\ u \in posting
    /\ posting' = posting \ {u}
    /\ Post("OK")
    /\ UNCHANGED <<state, writeVars, loop, hand, handleVars, dialVars, freed>>
-----------------------------------------------------------------------------
(* cobra__socket_resolve_callback with an address.  The state is set       *)
(* whatever it was, and the connection is tried whatever became of the     *)
(* handle; the result of uv_tcp_connect is not looked at.                  *)
Resolved ==
    /\ loop = "run" /\ lookup = "running"
    /\ lookup' = "none"
    /\ state' = "CONNECTING"
    /\ dial' \in {"dead", IF handle["tcp"] = "open" THEN "active" ELSE "late"}
    /\ UNCHANGED <<closeVars, writeVars, loop, hand, handleVars, connects, freed>>

(* cobra__socket_resolve_callback with an error, and with UV_ECANCELED. *)
ResolveFailed ==
    /\ loop = "run" /\ lookup = "running"
    /\ lookup' = "none"
    /\ LoopClose("RESOLVING")
    /\ UNCHANGED <<writeVars, loop, hand, handleVars, dial, connects, freed>>

ResolveCanceled ==
    /\ loop = "run" /\ lookup = "canceled"
    /\ lookup' = "none"
    /\ UNCHANGED <<state, closeVars, writeVars, loop, hand, handleVars, dial, connects, freed>>

(* An attempt whose handle is not being closed: begun on the open handle,  *)
(* or on the one that had closed before.                                   *)
Dialling ==
    \/ dial = "active" /\ handle["tcp"] = "open"
    \/ dial = "late" /\ handle["tcp"] = "closed"

(* cobra__socket_connect_callback, likewise.  Success also starts reading  *)
(* and the ping timer (refused, unseen, on closed handles).                *)
Connected ==
    /\ loop = "run" /\ Dialling
    /\ dial' = "none"
    /\ state' = "CONNECTED"
    /\ connects' = connects + 1
    /\ UNCHANGED <<closeVars, writeVars, loop, hand, handleVars, lookup, freed>>

ConnectFailed ==
    /\ loop = "run" /\ Dialling
    /\ dial' = "none"
    /\ LoopClose("CONNECTING")
    /\ UNCHANGED <<writeVars, loop, hand, handleVars, lookup, connects, freed>>

ConnectCanceled ==
    /\ loop = "run" /\ dial \in {"active", "late"} /\ handle["tcp"] = "closing"
    /\ dial' = "none"
    /\ UNCHANGED <<state, closeVars, writeVars, loop, hand, handleVars, lookup, connects, freed>>

(* libuv finds a connection on a handle that is closing or closed.         *)
LateAsserted ==
    /\ loop = "run" /\ dial = "late"
    /\ loop' = "asserted"
    /\ UNCHANGED <<state, closeVars, writeVars, hand, handleVars, dialVars, freed>>

(* cobra__socket_read_callback with length <= 0: the peer is gone. *)
PeerGone ==
    /\ loop = "run" /\ connects > 0 /\ handle["tcp"] = "open"
    /\ LoopClose("OK")
    /\ UNCHANGED <<writeVars, loop, hand, handleVars, dialVars, freed>>

(* cobra__socket_check_timer_callback: the peer did not answer a ping. *)
Unreachable ==
    /\ loop = "run" /\ connects > 0 /\ handle["check_timer"] = "open"
    /\ LoopClose("UNREACHABLE")
    /\ UNCHANGED <<writeVars, loop, hand, handleVars, dialVars, freed>>
-----------------------------------------------------------------------------
(* cobra__async_send_callback of close_async looks at the queue: the next  *)
(* context is taken, or the callback ends.                                 *)
TakeClose ==
    IF closeQ = << >>
    THEN loop' = "run" /\ UNCHANGED <<closeQ, hand>>
    ELSE loop' = "close" /\ hand' = Head(closeQ) /\ closeQ' = Tail(closeQ)

CloseWakes ==
    /\ loop = "run" /\ closeSig /\ handle["close_async"] = "open"
    /\ closeSig' = FALSE
    /\ TakeClose
    /\ UNCHANGED <<state, posting, writeVars, handleVars, dialVars, freed>>

(* cobra__socket_close_async_send_callback: the requests are cancelled and *)
(* the handles closed; then the queue is looked at again.                  *)
CloseHandles ==
    /\ loop = "close"
    /\ \A h \in Handles : handle[h] = "open"
    /\ lookup' = IF lookup = "queued" THEN "canceled" ELSE lookup
    /\ handle' = [h \in Handles |-> "closing"]
    /\ closeError' = hand
    /\ closedCount' = 0
    /\ TakeClose
    /\ UNCHANGED <<state, posting, closeSig, writeVars, dial, connects, reports, freed>>

(* The same, run again: uv_close asserts that the handle is not closing.   *)
CloseHandlesAgain ==
    /\ loop = "close"
    /\ \E h \in Handles : handle[h] # "open"
    /\ loop' = "aborted"
    /\ UNCHANGED <<state, closeVars, writeVars, hand, handleVars, dialVars, freed>>

(* The same with a request that was refused and is kept: uv_cancel reads   *)
(* its type, which was never written, and may take it for another's.       *)
CancelRefused ==
    /\ loop = "close"
    /\ lookup = "dead" \/ dial = "dead"
    /\ loop' = "crashed"
    /\ UNCHANGED <<state, closeVars, writeVars, hand, handleVars, dialVars, freed>>

(* All of COBRA_SOCKET_TOTAL_HANDLERS_COUNT handles are closed. *)
AllClosed(count) == count = 5

(* cobra__socket_common_close_callback, for one of the handles; the last   *)
(* one calls close_callback.  The requests of the tcp handle go first.     *)
HandleClosed(h) ==
    /\ loop = "run" /\ handle[h] = "closing"
    /\ h = "tcp" => dial \notin {"active", "late"} /\ flight = << >>
    /\ handle' = [handle EXCEPT ![h] = "closed"]
    /\ closedCount' = closedCount + 1
    /\ reports' = IF AllClosed(closedCount') THEN reports + 1 ELSE reports
    /\ UNCHANGED <<state, closeVars, writeVars, loop, hand, closeError, dialVars, freed>>

(* uv_run returns: the thread ends. *)
LoopEnds ==
    /\ loop = "run"
    /\ \A h \in Handles : handle[h] = "closed"
    /\ lookup \in {"none", "dead"} /\ dial \notin {"active", "late"}
    /\ loop' = "ended"
    /\ UNCHANGED <<state, closeVars, writeVars, hand, handleVars, dialVars, freed>>
-----------------------------------------------------------------------------
(* cobra__socket_write: first the check under the mutex, then the async    *)
(* send.  (Any state but CONNECTED is answered NOT_CONNECTED and nothing   *)
(* happens.)  A ping is such a write, made by the loop thread.             *)
WriteBegins(w) ==
    /\ Alive
    /\ state = "CONNECTED"
    /\ wr[w] = "none"
    /\ wr' = [wr EXCEPT ![w] = "checked"]
    /\ UNCHANGED <<state, closeVars, writeQ, writeSig, flight, loop, hand, handleVars, dialVars, freed>>

WritePosted(w) ==
    /\ Alive
    /\ wr[w] = "checked"
    /\ IF Len(writeQ) = QueueSize
       THEN wr' = [wr EXCEPT ![w] = "refused"] /\ UNCHANGED <<writeQ, writeSig>>
       ELSE /\ wr' = [wr EXCEPT ![w] = "queued"]
            /\ writeQ' = Append(writeQ, w)
            /\ writeSig' = TRUE
    /\ UNCHANGED <<state, closeVars, flight, loop, hand, handleVars, dialVars, freed>>

(* cobra__async_send_callback of write_async looks at the queue. *)
TakeWrite ==
    IF writeQ = << >>
    THEN loop' = "run" /\ UNCHANGED <<writeQ, hand>>
    ELSE loop' = "write" /\ hand' = Head(writeQ) /\ writeQ' = Tail(writeQ)

WriteWakes ==
    /\ loop = "run" /\ writeSig /\ handle["write_async"] = "open"
    /\ writeSig' = FALSE
    /\ TakeWrite
    /\ UNCHANGED <<state, closeVars, flight, wr, handleVars, dialVars, freed>>

(* cobra__socket_write_async_send_callback: on a closing socket the user's *)
(* write_callback is told NOT_CONNECTED, else the frame goes to uv_write.  *)
(* Its result is not looked at: a frame that it refused is lost.           *)
SendFrame ==
    /\ loop = "write"
    /\ \/ /\ state = "CLOSING"
          /\ wr' = [wr EXCEPT ![hand] = "dropped"] /\ UNCHANGED flight
       \/ /\ state # "CLOSING"
          /\ wr' = [wr EXCEPT ![hand] = "flight"] /\ flight' = Append(flight, hand)
       \/ /\ state # "CLOSING"
          /\ wr' = [wr EXCEPT ![hand] = "lost"] /\ UNCHANGED flight
    /\ TakeWrite
    /\ UNCHANGED <<state, closeVars, writeSig, handleVars, dialVars, freed>>

(* cobra__socket_write_callback: only success is passed on to the user.    *)
(* After uv_close either may come: what was written before is reported so. *)
Written ==
    /\ loop = "run" /\ flight # << >> /\ handle["tcp"] \in {"open", "closing"}
    /\ flight' = Tail(flight)
    /\ wr' = [wr EXCEPT ![Head(flight)] = "ok"]
    /\ UNCHANGED <<state, closeVars, writeQ, writeSig, loop, hand, handleVars, dialVars, freed>>

WriteFailed ==
    /\ loop = "run" /\ flight # << >> /\ handle["tcp"] \in {"open", "closing"}
    /\ flight' = Tail(flight)
    /\ wr' = [wr EXCEPT ![Head(flight)] = "failed"]
    /\ LoopClose("WRITE_ERROR")
    /\ UNCHANGED <<writeQ, writeSig, loop, hand, handleVars, dialVars, freed>>
-----------------------------------------------------------------------------
LoopStep ==
    \/ ConnectThread
    \/ Resolved \/ ResolveFailed \/ ResolveCanceled
    \/ Connected \/ ConnectFailed \/ ConnectCanceled \/ LateAsserted
    \/ CloseWakes \/ CloseHandles \/ CloseHandlesAgain \/ CancelRefused
    \/ \E h \in Handles : HandleClosed(h)
    \/ WriteWakes \/ SendFrame \/ Written \/ WriteFailed
    \/ LoopEnds

Next ==
    \/ Connect \/ Accept \/ Destroy
    \/ \E u \in Users : CloseBegins(u) \/ ClosePosted(u)
    \/ \E w \in Writes : WriteBegins(w) \/ WritePosted(w)
    \/ LookupStarts
    \/ PeerGone \/ Unreachable
    \/ LoopStep

(* The loop runs what is due, the lookup and the connection attempt end in *)
(* one way or the other, and a thread inside a call of the API goes on.    *)
(* The peer need not go away, nor a user call anything.                    *)
Fairness ==
    /\ WF_vars(LookupStarts)
    /\ WF_vars(ConnectThread)
    /\ WF_vars(Resolved \/ ResolveFailed \/ ResolveCanceled)
    /\ WF_vars(Connected \/ ConnectFailed \/ ConnectCanceled \/ LateAsserted)
    /\ WF_vars(CloseWakes)
    /\ WF_vars(CloseHandles \/ CloseHandlesAgain \/ CancelRefused)
    /\ \A h \in Handles : WF_vars(HandleClosed(h))
    /\ WF_vars(WriteWakes)
    /\ WF_vars(SendFrame)
    /\ WF_vars(Written \/ WriteFailed)
    /\ WF_vars(LoopEnds)
    /\ \A u \in Users : WF_vars(ClosePosted(u))
    /\ \A w \in Writes : WF_vars(WritePosted(w))

Safety == Init /\ [][Next]_vars
Spec == Safety /\ Fairness
-----------------------------------------------------------------------------
(* A socket in CLOSING is on its way to be closed: a thread is about to    *)
(* post a context, one is in the queue with its callback due, one is being *)
(* handled, or the handles have been closed.  So CLOSING is never a dead   *)
(* end, although close_async has room for one context only and an overflow *)
(* is ignored (socket_close.c:33).                                         *)
ClosingInProgress ==
    state = "CLOSING" =>
        \/ posting # {}
        \/ closeQ # << >> /\ closeSig
        \/ loop = "close" \/ ~ Alive
        \/ handle["close_async"] \in {"closing", "closed"}

(* When close_callback runs, the five handles are closed and nothing of    *)
(* libuv is left that could run a callback of the user, but for a lookup   *)
(* that was too late to cancel and the connection it starts on the closed  *)
(* handle (socket_close.c:48-49, 71-78; socket_connect.c:103).             *)
ReportAfterAll ==
    reports > 0 =>
        /\ reports = 1
        /\ \A h \in Handles : handle[h] = "closed"
        /\ dial # "active" /\ flight = << >>
        /\ closeError # None
        /\ loop \notin {"close", "write"}

(* The callbacks of the user are those the abstract view allows: the close *)
(* report is the last of them, unless a lookup that was too late to cancel *)
(* has started a connection (socket_close.c:68-79, socket_connect.c:103).  *)
View == INSTANCE UserView WITH
    opened <- loop # "none",
    late <- dial = "late",
    answered <- {w \in Writes : wr[w] \in {"ok", "dropped"}}
ImplementsUserView == View!UserSpec

(* The two asyncs are used as the mailboxes they are (Async.tla): nothing  *)
(* is posted before the handles are initialised, a context or a write is   *)
(* taken only by a callback that is due, oldest first, and the callback    *)
(* that closes the handles leaves what is in hand and in the queues to     *)
(* the runs that have begun (socket_close.c:54-62, async_send.c:21-41).    *)
BoxHandle(h) == IF handle[h] = "uninit" THEN "unbound" ELSE handle[h]

CloseBox == INSTANCE Mailbox WITH
    Size <- 1, Data <- Errors,
    box <- closeQ, due <- closeSig, handle <- BoxHandle("close_async"),
    taken <- IF loop \in {"close", "aborted", "crashed"} THEN hand ELSE None

WriteBox == INSTANCE Mailbox WITH
    Size <- QueueSize, Data <- Writes,
    box <- writeQ, due <- writeSig, handle <- BoxHandle("write_async"),
    taken <- IF loop = "write" THEN hand ELSE None

UsesMailboxes == CloseBox!MailboxSpec /\ WriteBox!MailboxSpec

(* Closing completes: whoever asked, the user gets the close report and    *)
(* the loop thread leaves uv_run, unless the program is ended by the       *)
(* double close below, by the cancelling of a refused request, or by a     *)
(* connection that a lookup started on a handle being closed.              *)
CloseCompletes ==
    state = "CLOSING" ~> ((reports = 1 /\ loop = "ended") \/ ~ Alive)

(* Opening settles: connected, or reported, or stuck because the refusal   *)
(* of uv_getaddrinfo or of uv_tcp_connect was ignored                      *)
(* (socket_connect.c:67, 103).                                             *)
OpenSettles ==
    loop = "start" ~>
        \/ connects = 1 \/ reports = 1
        \/ lookup = "dead" \/ dial = "dead"
        \/ ~ Alive

(* An accepted write is answered by write_callback, or the close report    *)
(* comes instead, or uv_write refused it, which the code does not notice   *)
(* (socket_write.c:95).                                                    *)
AcceptedWriteSettles ==
    \A w \in Writes :
        wr[w] = "queued" ~>
            \/ wr[w] \in {"ok", "dropped"} \/ reports = 1
            \/ wr[w] = "lost"
            \/ ~ Alive

(* Handles are closed once: "If the socket is already closing - do         *)
(* nothing" (socket_close.c:17).                                           *)
HandlesClosedOnce == loop # "aborted"

(* Who closes a socket while it connects does not see it connect: "If user *)
(* called cobra_socket_socket() during connecting", the callback returns   *)
(* (socket_connect.c:87, 116).                                             *)
NoConnectAfterReport == [][connects' > connects => reports = 0]_vars
=============================================================================
