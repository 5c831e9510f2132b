------------------------------ MODULE Mailbox -------------------------------
(***************************************************************************)
(* What the owners of a cobra_async_t rely on, and what Socket, Server and *)
(* Discovery take their write_async and close_async to be: entries are     *)
(* handed to send_callback one after the other, oldest first, by a run of  *)
(* the callback that a posted entry has made due and that ends when the    *)
(* mailbox is empty.  A mailbox that is closing wakes no more, but a run   *)
(* of its callback goes on to the end.  Async.tla implements it.           *)
(***************************************************************************)
EXTENDS Naturals, Sequences

CONSTANTS
    Size,       \* how many entries it holds
    Data,       \* entries
    None        \* no entry

VARIABLES
    box,        \* entries accepted and not handed over, oldest first
    due,        \* a run of the callback is due
    taken,      \* the entry in the hand of send_callback, or None
    handle      \* "unbound", "open", "closing" or "closed"

mailboxVars == <<box, due, taken, handle>>

MailboxInit ==
    /\ box = << >> /\ due = FALSE
    /\ taken = None
    /\ handle = "unbound"

Bound ==
    /\ handle = "unbound"
    /\ handle' = "open"
    /\ UNCHANGED <<box, due, taken>>

Post(d) ==
    /\ handle # "unbound"
    /\ Len(box) < Size
    /\ box' = Append(box, d)
    /\ due' = TRUE
    /\ UNCHANGED <<taken, handle>>

Take ==
    IF box = << >>
    THEN taken' = None /\ UNCHANGED box
    ELSE taken' = Head(box) /\ box' = Tail(box)

Wakes ==
    /\ handle = "open" /\ due /\ taken = None
    /\ due' = FALSE
    /\ Take
    /\ UNCHANGED handle

(* send_callback may have closed the mailbox. *)
Returns ==
    /\ taken # None
    /\ Take
    /\ handle' = handle \/ (handle = "open" /\ handle' = "closing")
    /\ UNCHANGED due

Closes ==
    /\ handle = "open"
    /\ handle' = "closing"
    /\ UNCHANGED <<box, due, taken>>

Closed ==
    /\ handle = "closing" /\ taken = None
    /\ handle' = "closed"
    /\ UNCHANGED <<box, due, taken>>

MailboxNext ==
    \/ Bound \/ Wakes \/ Returns \/ Closes \/ Closed
    \/ \E d \in Data : Post(d)

MailboxSpec == MailboxInit /\ [][MailboxNext]_mailboxVars
=============================================================================
