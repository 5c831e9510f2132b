------------------------------ MODULE UserView ------------------------------
(***************************************************************************)
(* What the user of a socket may rely on, in terms of the callbacks it     *)
(* registered: connect_callback, or for an accepted socket the             *)
(* connection_callback of its server, runs at most once, write_callback at *)
(* most once for each write and only on a socket that was connected, and   *)
(* close_callback runs once and is the last of them, except that           *)
(* connect_callback may follow it when a lookup that the close could not   *)
(* cancel has begun a connection.  A socket is opened once.                *)
(***************************************************************************)
EXTENDS Naturals

CONSTANT Writes

VARIABLES
    opened,     \* cobra_socket_connect returned OK, or the socket was accepted
    late,       \* a connection is tried that was begun after the close
    connects,   \* number of calls of connect_callback or connection_callback
    answered,   \* the writes whose write_callback has run
    reports     \* number of calls of close_callback

userVars == <<opened, late, connects, answered, reports>>

UserInit ==
    /\ opened = FALSE /\ late = FALSE
    /\ connects = 0
    /\ answered = {}
    /\ reports = 0

Open ==
    /\ ~ opened
    /\ opened' = TRUE
    /\ UNCHANGED <<late, connects, answered, reports>>

Accepted ==
    /\ ~ opened /\ connects = 0 /\ reports = 0
    /\ opened' = TRUE /\ connects' = 1
    /\ UNCHANGED <<late, answered, reports>>

LateBegins ==
    /\ opened /\ ~ late /\ connects = 0
    /\ late' = TRUE
    /\ UNCHANGED <<opened, connects, answered, reports>>

LateFails ==
    /\ late
    /\ late' = FALSE
    /\ UNCHANGED <<opened, connects, answered, reports>>

ConnectCalled ==
    /\ opened /\ connects = 0
    /\ reports = 0 \/ late
    /\ connects' = 1 /\ late' = FALSE
    /\ UNCHANGED <<opened, answered, reports>>

WriteCalled(w) ==
    /\ connects = 1 /\ reports = 0
    /\ w \notin answered
    /\ answered' = answered \cup {w}
    /\ UNCHANGED <<opened, late, connects, reports>>

CloseCalled ==
    /\ opened /\ reports = 0
    /\ reports' = 1
    /\ UNCHANGED <<opened, late, connects, answered>>

UserNext ==
    \/ Open \/ Accepted \/ ConnectCalled \/ CloseCalled
    \/ LateBegins \/ LateFails
    \/ \E w \in Writes : WriteCalled(w)

UserSpec == UserInit /\ [][UserNext]_userVars
=============================================================================
