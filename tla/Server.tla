------------------------------- MODULE Server -------------------------------
(***************************************************************************)
(* The life of one server of src/server: listening, accepting and closing, *)
(* as user threads, the thread of the event loop and a worker of the       *)
(* resolver interleave.  The accepted sockets live on the loop of the      *)
(* server; of each only what the loop knows of it is kept here, its own    *)
(* life is the subject of Socket and Ping.                                 *)
(*                                                                         *)
(* External: as in Socket; a closed handle can be neither bound nor made   *)
(* to listen, and its connection callback does not run; uv_accept may      *)
(* fail, and the handle then refuses to read and to write; uv_getaddrinfo  *)
(* may refuse at once, and the request is then not set up.                 *)
(***************************************************************************)
EXTENDS Naturals, Sequences, FiniteSets

CONSTANTS
    Users,      \* user threads that may close the server
    Conns       \* the connections that clients make

VARIABLES
    state,      \* server->state
    posting,    \* users between the unlock and the async send of a close
    closeQ,     \* close_async: the errors of the posted close contexts
    closeSig,   \* close_async was signalled and its callback is due
    loop,       \* where the loop thread is
    hand,       \* the error of the close context being handled
    handle,     \* the two uv handles
    lookup,     \* resolve_request; "dead" after uv_getaddrinfo refused it
    listening,  \* uv_listen succeeded
    sock,       \* the socket made for each connection
    closeError, \* server->close_error
    closedCount,\* server->closed_handlers_count
    reports,    \* calls of close_callback
    cause,      \* history: what first set CLOSING
    freed       \* cobra_server_destroy succeeded

closeVars == <<posting, closeQ, closeSig>>
handleVars == <<handle, closeError, closedCount, reports>>
netVars == <<lookup, listening, sock>>
vars == <<state, closeVars, loop, hand, handleVars, netVars, cause, freed>>

Handles == {"tcp", "close_async"}

Errors == {"OK", "RESOLVING", "BINDING", "LISTENING"}

None == "NONE"

ServerTypeOK ==
    /\ state \in {"CLOSED", "INITIALIZING", "RESOLVING", "CLOSING"}
    /\ posting \subseteq Users
    /\ closeQ \in Seq(Errors) /\ Len(closeQ) <= 1
    /\ closeSig \in BOOLEAN
    /\ loop \in {"none", "start", "run", "close", "ended", "crashed"}
    /\ loop = "close" => hand \in Errors
    /\ handle \in [Handles -> {"uninit", "open", "closing", "closed"}]
    /\ lookup \in {"none", "queued", "running", "canceled", "dead"}
    /\ listening \in BOOLEAN
    /\ sock \in [Conns -> {"none", "open", "dead", "closing", "closed"}]
    /\ closeError \in Errors \cup {None}
    /\ closedCount \in 0 .. 2
    /\ reports \in Nat
    /\ cause \in Errors \cup {None}
    /\ freed \in BOOLEAN
-----------------------------------------------------------------------------
(* Faults that the properties below must catch, used by the mutation runs. *)
BeginsAnyway == TRUE

PostUnsignalled(error) ==
    IF Len(closeQ) = 1
    THEN UNCHANGED <<closeQ, closeSig>>
    ELSE closeQ' = Append(closeQ, error) /\ UNCHANGED closeSig

LoopCloseAgain(error) ==
    /\ state' = "CLOSING"
    /\ cause' = IF cause = None THEN error ELSE cause
    /\ IF Len(closeQ) = 1
       THEN UNCHANGED closeVars
       ELSE closeQ' = Append(closeQ, error) /\ closeSig' = TRUE /\ UNCHANGED posting

TakeCloseUnread ==
    IF closeQ = << >>
    THEN loop' = "run" /\ UNCHANGED <<closeQ, hand>>
    ELSE loop' = "close" /\ closeQ' = Tail(closeQ) /\ UNCHANGED hand

AnyClosed(count) == count >= 1

AllClosedAndOne(count) == count = 3
-----------------------------------------------------------------------------
(* cobra_server_create *)
Init ==
    /\ state = "CLOSED"
    /\ posting = {}
    /\ closeQ = << >> /\ closeSig = FALSE
    /\ loop = "none" /\ hand = None
    /\ handle = [h \in Handles |-> "uninit"]
    /\ lookup = "none" /\ listening = FALSE
    /\ sock = [s \in Conns |-> "none"]
    /\ closeError = None
    /\ closedCount = 0 /\ reports = 0
    /\ cause = None
    /\ freed = FALSE

(* cobra_server_destroy: refused (NOT_CLOSED) in every other state. *)
Destroy ==
    /\ state = "CLOSED" /\ ~ freed
    /\ freed' = TRUE
    /\ UNCHANGED <<state, closeVars, loop, hand, handleVars, netVars, cause>>

(* cobra_server_listen: the handles are initialised under the mutex, then  *)
(* the thread is created.                                                  *)
Listen ==
    /\ state = "CLOSED" /\ ~ freed
    /\ state' = "INITIALIZING"
    /\ handle' = [h \in Handles |-> "open"]
    /\ loop' = "start"
    /\ UNCHANGED <<closeVars, hand, closeError, closedCount, reports, netVars, cause, freed>>

(* Has the user not closed it during the creation of the thread? *)
Begins == state # "CLOSING"

(* cobra_server_listen_thread up to uv_run; the result of uv_getaddrinfo   *)
(* is not looked at.                                                       *)
ThreadStarts ==
    /\ loop = "start"
    /\ loop' = "run"
    /\ IF Begins
       THEN state' = "RESOLVING" /\ lookup' \in {"queued", "dead"}
       ELSE UNCHANGED <<state, lookup>>
    /\ UNCHANGED <<closeVars, hand, handleVars, listening, sock, cause, freed>>

(* A crash in libuv ends every thread. *)
Alive == loop # "crashed"

(* A worker of the thread pool takes the lookup up: too late to cancel it. *)
LookupStarts ==
    /\ Alive
    /\ lookup = "queued"
    /\ lookup' = "running"
    /\ UNCHANGED <<state, closeVars, loop, hand, handleVars, listening, sock, cause, freed>>

(* cobra_async_send on close_async; a second context is dropped. *)
Post(error) ==
    IF Len(closeQ) = 1
    THEN UNCHANGED <<closeQ, closeSig>>
    ELSE closeQ' = Append(closeQ, error) /\ closeSig' = TRUE

(* cobra__server_close called by the loop thread. *)
LoopClose(error) ==
    IF state \in {"CLOSED", "CLOSING"}
    THEN UNCHANGED <<state, closeVars, cause>>
    ELSE /\ state' = "CLOSING" /\ cause' = error
         /\ Post(error) /\ UNCHANGED posting

(* cobra_server_close called by a user: first the section under the mutex, *)
(* then the async send.                                                    *)
CloseBegins(u) ==
    /\ Alive
    /\ state \notin {"CLOSED", "CLOSING"}
    /\ state' = "CLOSING" /\ cause' = "OK"
    /\ posting' = posting \cup {u}
    /\ UNCHANGED <<closeQ, closeSig, loop, hand, handleVars, netVars, freed>>

ClosePosted(u) ==
    /\ Alive
    /\ u \in posting
    /\ posting' = posting \ {u}
    /\ Post("OK")
    /\ UNCHANGED <<state, loop, hand, handleVars, netVars, cause, freed>>
-----------------------------------------------------------------------------
(* cobra__server_resolve_callback with an address: the handle is bound and *)
(* listens, or one of the two is refused.  The state stays RESOLVING.      *)
Resolved ==
    /\ loop = "run" /\ lookup = "running"
    /\ lookup' = "none"
    /\ \/ /\ handle["tcp"] = "open"
          /\ listening' = TRUE /\ UNCHANGED <<state, closeVars, cause>>
       \/ /\ LoopClose("BINDING") /\ UNCHANGED listening
       \/ /\ handle["tcp"] = "open"
          /\ LoopClose("LISTENING") /\ UNCHANGED listening
    /\ UNCHANGED <<loop, hand, handleVars, sock, freed>>

(* The same with an error, and with UV_ECANCELED. *)
ResolveFailed ==
    /\ loop = "run" /\ lookup = "running"
    /\ lookup' = "none"
    /\ LoopClose("RESOLVING")
    /\ UNCHANGED <<loop, hand, handleVars, listening, sock, freed>>

ResolveCanceled ==
    /\ loop = "run" /\ lookup = "canceled"
    /\ lookup' = "none"
    /\ UNCHANGED <<state, closeVars, loop, hand, handleVars, listening, sock, cause, freed>>

(* cobra__server_connection_callback: a socket is made on the server's     *)
(* loop and handed over, also when the server is CLOSING, and also when    *)
(* uv_accept, whose result is not looked at, has failed.                   *)
Connection(s) ==
    /\ loop = "run" /\ listening /\ handle["tcp"] = "open"
    /\ sock[s] = "none"
    /\ \E accepted \in {"open", "dead"} : sock' = [sock EXCEPT ![s] = accepted]
    /\ UNCHANGED <<state, closeVars, loop, hand, handleVars, lookup, listening, cause, freed>>

(* The same with an error: the server is closed. *)
ConnectionFailed ==
    /\ loop = "run" /\ listening /\ handle["tcp"] = "open"
    /\ LoopClose("OK")
    /\ UNCHANGED <<loop, hand, handleVars, netVars, freed>>

(* An accepted socket is closed, by its user, its peer, or its ping. *)
SocketCloses(s) ==
    /\ loop = "run" /\ sock[s] = "open"
    /\ sock' = [sock EXCEPT ![s] = "closing"]
    /\ UNCHANGED <<state, closeVars, loop, hand, handleVars, lookup, listening, cause, freed>>

(* A socket that was not accepted: its ping is not answered, and it closes *)
(* as one whose peer stopped (DeadPeerNoticed in Ping).                    *)
DeadCloses(s) ==
    /\ loop = "run" /\ sock[s] = "dead"
    /\ sock' = [sock EXCEPT ![s] = "closing"]
    /\ UNCHANGED <<state, closeVars, loop, hand, handleVars, lookup, listening, cause, freed>>

SocketClosed(s) ==
    /\ loop = "run" /\ sock[s] = "closing"
    /\ sock' = [sock EXCEPT ![s] = "closed"]
    /\ UNCHANGED <<state, closeVars, loop, hand, handleVars, lookup, listening, cause, freed>>
-----------------------------------------------------------------------------
(* cobra__async_send_callback of close_async looks at the queue. *)
TakeClose ==
    IF closeQ = << >>
    THEN loop' = "run" /\ UNCHANGED <<closeQ, hand>>
    ELSE loop' = "close" /\ hand' = Head(closeQ) /\ closeQ' = Tail(closeQ)

CloseWakes ==
    /\ loop = "run" /\ closeSig /\ handle["close_async"] = "open"
    /\ closeSig' = FALSE
    /\ TakeClose
    /\ UNCHANGED <<state, posting, handleVars, netVars, cause, freed>>

(* cobra__server_close_async_send_callback.  The accepted sockets are left *)
(* as they are.                                                            *)
CloseHandles ==
    /\ loop = "close"
    /\ lookup' = IF lookup = "queued" THEN "canceled" ELSE lookup
    /\ handle' = [h \in Handles |-> "closing"]
    /\ closeError' = hand
    /\ closedCount' = 0
    /\ TakeClose
    /\ UNCHANGED <<state, posting, closeSig, reports, listening, sock, cause, freed>>

(* The same with a lookup that was refused and is kept: uv_cancel reads    *)
(* its type, which was never written, and may take it for another's.       *)
CancelRefused ==
    /\ loop = "close" /\ lookup = "dead"
    /\ loop' = "crashed"
    /\ UNCHANGED <<state, closeVars, hand, handleVars, netVars, cause, freed>>

(* All of COBRA_SERVER_TOTAL_HANDLERS_COUNT handles are closed. *)
AllClosed(count) == count = 2

(* cobra__server_common_close_callback, for one of the handles. *)
HandleClosed(h) ==
    /\ loop = "run" /\ handle[h] = "closing"
    /\ handle' = [handle EXCEPT ![h] = "closed"]
    /\ closedCount' = closedCount + 1
    /\ reports' = IF AllClosed(closedCount') THEN reports + 1 ELSE reports
    /\ UNCHANGED <<state, closeVars, loop, hand, closeError, netVars, cause, freed>>

(* uv_run returns: the thread ends. *)
LoopEnds ==
    /\ loop = "run"
    /\ \A h \in Handles : handle[h] = "closed"
    /\ lookup \in {"none", "dead"}
    /\ \A s \in Conns : sock[s] \in {"none", "closed"}
    /\ loop' = "ended"
    /\ UNCHANGED <<state, closeVars, hand, handleVars, netVars, cause, freed>>
-----------------------------------------------------------------------------
Next ==
    \/ Listen \/ Destroy
    \/ \E u \in Users : CloseBegins(u) \/ ClosePosted(u)
    \/ ThreadStarts \/ LookupStarts
    \/ Resolved \/ ResolveFailed \/ ResolveCanceled
    \/ ConnectionFailed
    \/ \E s \in Conns :
         Connection(s) \/ SocketCloses(s) \/ DeadCloses(s) \/ SocketClosed(s)
    \/ CloseWakes \/ CloseHandles \/ CancelRefused
    \/ \E h \in Handles : HandleClosed(h)
    \/ LoopEnds

(* The thread runs, the lookup ends in one way or the other, the loop runs *)
(* what is due (the timers of a socket that was not accepted included),    *)
(* and a thread inside a close goes on.  Nobody need connect, or close.    *)
Fairness ==
    /\ WF_vars(ThreadStarts)
    /\ WF_vars(LookupStarts)
    /\ WF_vars(Resolved \/ ResolveFailed \/ ResolveCanceled)
    /\ WF_vars(CloseWakes)
    /\ WF_vars(CloseHandles \/ CancelRefused)
    /\ \A h \in Handles : WF_vars(HandleClosed(h))
    /\ \A s \in Conns : WF_vars(DeadCloses(s)) /\ WF_vars(SocketClosed(s))
    /\ WF_vars(LoopEnds)
    /\ \A u \in Users : WF_vars(ClosePosted(u))

Safety == Init /\ [][Next]_vars
Spec == Safety /\ Fairness
-----------------------------------------------------------------------------
(* A close context exists once: a thread is about to post it, it is in     *)
(* the queue, it is being handled, or it has been and the handles close.   *)
(* The steps of resolving and listening leave a server that is CLOSING in  *)
(* that state, unlike those of a socket.                                   *)
OneContext ==
    Cardinality(posting) + Len(closeQ)
      + (IF loop \in {"close", "crashed"} THEN 1 ELSE 0)
      + (IF handle["close_async"] \in {"closing", "closed"} THEN 1 ELSE 0)
      = IF state = "CLOSING" THEN 1 ELSE 0

(* A posted context wakes the loop, whatever the thread is doing. *)
ContextIsDue == closeQ # << >> => closeSig

(* The user is told once, when the handles are closed, and of what closed  *)
(* the server first; a lookup that was too late to cancel does not bind    *)
(* the closed handle, and its failure is not what is told.                 *)
ReportTellsCause ==
    reports > 0 =>
        /\ reports = 1
        /\ \A h \in Handles : handle[h] = "closed"
        /\ closeError = cause

(* close_async is used as the mailbox it is (Async.tla): a context is      *)
(* posted once the handle is initialised and wakes the loop, and only a    *)
(* callback that is due takes it (server_listen.c:20, server_close.c:33).  *)
CloseBox == INSTANCE Mailbox WITH
    Size <- 1, Data <- Errors,
    box <- closeQ, due <- closeSig,
    taken <- IF loop \in {"close", "crashed"} THEN hand ELSE None,
    handle <- IF handle["close_async"] = "uninit" THEN "unbound" ELSE handle["close_async"]
UsesMailbox == CloseBox!MailboxSpec

(* The callbacks of the user, and the end of the thread, are those the     *)
(* abstract view allows.                                                   *)
View == INSTANCE ServerView WITH
    opened <- loop # "none",
    handed <- {s \in Conns : sock[s] # "none"},
    gone <- {s \in Conns : sock[s] = "closed"},
    ended <- loop = "ended"
ImplementsServerView == View!ViewSpec

(* A server that is closed, or fails, is reported, and its thread ends     *)
(* unless an accepted socket stays open: the close leaves it alone         *)
(* (server_close.c:54-55), or the cancelling of a refused lookup crashes.  *)
(* A socket that was not accepted does not stay.                           *)
CloseCompletes ==
    state = "CLOSING" ~>
        \/ reports = 1 /\ (loop = "ended" \/ \E s \in Conns : sock[s] = "open")
        \/ ~ Alive

(* Opening settles: the server listens, or is reported, or is stuck        *)
(* because the refusal of uv_getaddrinfo was ignored (server_listen.c:61). *)
OpenSettles == loop = "start" ~> (listening \/ reports = 1 \/ lookup = "dead")
=============================================================================
