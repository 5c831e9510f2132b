----------------------------- MODULE ServerView -----------------------------
(***************************************************************************)
(* What the user of a server may rely on: connection_callback hands over   *)
(* each socket once, and none after close_callback, which runs once; the   *)
(* thread of the server, on whose loop the sockets live, ends only when    *)
(* the server and every socket that was handed over are closed.            *)
(***************************************************************************)
EXTENDS Naturals

CONSTANT Conns

VARIABLES
    opened,     \* cobra_server_listen returned COBRA_SERVER_OK
    handed,     \* the sockets given to connection_callback
    gone,       \* those of them that are closed
    reports,    \* number of calls of close_callback
    ended       \* the thread of the server has ended

viewVars == <<opened, handed, gone, reports, ended>>

ViewInit ==
    /\ opened = FALSE /\ ended = FALSE
    /\ handed = {} /\ gone = {}
    /\ reports = 0

Open ==
    /\ ~ opened
    /\ opened' = TRUE
    /\ UNCHANGED <<handed, gone, reports, ended>>

HandOver(s) ==
    /\ opened /\ reports = 0
    /\ s \notin handed
    /\ handed' = handed \cup {s}
    /\ UNCHANGED <<opened, gone, reports, ended>>

SocketGone(s) ==
    /\ s \in handed \ gone
    /\ ~ ended
    /\ gone' = gone \cup {s}
    /\ UNCHANGED <<opened, handed, reports, ended>>

CloseCalled ==
    /\ opened /\ reports = 0
    /\ reports' = 1
    /\ UNCHANGED <<opened, handed, gone, ended>>

ThreadEnds ==
    /\ reports = 1 /\ gone = handed
    /\ ~ ended
    /\ ended' = TRUE
    /\ UNCHANGED <<opened, handed, gone, reports>>

ViewNext ==
    \/ Open \/ CloseCalled \/ ThreadEnds
    \/ \E s \in Conns : HandOver(s) \/ SocketGone(s)

ViewSpec == ViewInit /\ [][ViewNext]_viewVars
=============================================================================
