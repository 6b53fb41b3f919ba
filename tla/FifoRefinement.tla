--------------------------- MODULE FifoRefinement ---------------------------
(* The FIFO queues implement StealDeques, with pops at the front: the      *)
(* atomic steps are the store of the tail and the compare-exchanges.       *)
EXTENDS FifoQueue, Sequences

\* What the contract sees of a queue and of a thread.
Deque(q) ==
    IF q \in dropped THEN <<>> ELSE Run(buffer, q, worker_head[q], tail[q] - worker_head[q])

Hand(t) ==
    CASE pc[t] = "pop_read"     -> Run(buffer, t, seen_worker[t], 1)
      [] pc[t] = "copy"         -> Run(buffer, victim[t], from[t], count[t])
      [] pc[t] = "publish_dest" -> Run(buffer, t, my_tail[t], TransferCount(t))
      [] OTHER                  -> <<>>

Source(t) == IF Stealing(t) THEN victim[t] ELSE t

\* Slots a steal or a Drain took, from the booking to its completion.
BookedBy(q) ==
    LET thieves == {t \in Workers : Stealing(t) /\ victim[t] = q}
    IN  CASE thieves # {}        -> count[CHOOSE t \in thieves : TRUE]
          [] draining[q] # "no"  -> drain_to[q] - stealer_head[q]
          [] OTHER               -> 0

Drained(q) ==
    IF draining[q] # "no"
    THEN Run(buffer, q, drain_head[q], drain_to[q] - drain_head[q])
    ELSE <<>>

Contract == INSTANCE StealDeques WITH
    Elements <- 1 .. MaxCreated,
    PopsBack <- FALSE,
    deque    <- [q \in Workers |-> Deque(q)],
    hand     <- [t \in Workers |-> Hand(t)],
    source   <- [t \in Workers |-> Source(t)],
    stealing <- [t \in Workers |-> Stealing(t)],
    booked   <- [q \in Workers |-> BookedBy(q)],
    drained  <- [q \in Workers |-> Drained(q)],
    out      <- out

(* Every behaviour of the FIFO queues is one of the contract: pops and     *)
(* steals take the oldest items, in order, while the other is in progress  *)
(* too, and nothing is lost, invented or delivered twice.                  *)
ImplementsContract == Contract!Spec
=============================================================================
