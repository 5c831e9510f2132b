-------------------------------- MODULE Fifo --------------------------------
(***************************************************************************)
(* What the ring buffer of src/queue promises: a first-in first-out queue  *)
(* of at most Size entries.  Queue.tla implements it.                      *)
(***************************************************************************)
EXTENDS Naturals, Sequences

CONSTANTS Size, Data

VARIABLE q

FifoInit == q = << >>

Put(d) ==
    /\ Len(q) < Size
    /\ q' = Append(q, d)

Get ==
    /\ q # << >>
    /\ q' = Tail(q)

FifoNext == Get \/ \E d \in Data : Put(d)

FifoSpec == FifoInit /\ [][FifoNext]_q
=============================================================================
