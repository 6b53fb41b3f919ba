--------------------------- MODULE LifoRefinement ---------------------------
(* The LIFO queues implement StealDeques: the atomic steps of the contract *)
(* are the store of push_count and the two compare-exchanges.              *)
EXTENDS LifoQueue, Sequences

\* What the contract sees of a queue and of a thread.
Deque(q) ==
    IF q \in dropped THEN <<>> ELSE Run(buffer, q, next_head[q], TailOf(q) - next_head[q])

Hand(t) ==
    CASE pc[t] = "pop_read"     -> Run(buffer, t, my_tail[t] - 1, 1)
      [] pc[t] = "copy"         -> Run(buffer, victim[t], seen_head[t], count[t])
      [] pc[t] = "publish_dest" -> Run(buffer, t, my_tail[t], TransferCount(t))
      [] OTHER                  -> <<>>

Source(t) == IF Stealing(t) THEN victim[t] ELSE t

Drained(q) ==
    IF draining[q] # "no"
    THEN Run(buffer, q, drain_current[q], drain_end[q] - drain_current[q])
    ELSE <<>>

Contract == INSTANCE StealDeques WITH
    Elements <- 1 .. MaxCreated,
    PopsBack <- TRUE,
    deque    <- [q \in Workers |-> Deque(q)],
    hand     <- [t \in Workers |-> Hand(t)],
    source   <- [t \in Workers |-> Source(t)],
    stealing <- [t \in Workers |-> Stealing(t)],
    booked   <- [q \in Workers |-> next_head[q] - head[q]],
    drained  <- [q \in Workers |-> Drained(q)],
    out      <- out

(* Every behaviour of the LIFO queues is one of the contract: pops take    *)
(* the newest item, steals the oldest ones in order and in one step, as    *)
(* many as the destination has room for, and nothing is lost, invented or  *)
(* delivered twice on the way.                                             *)
ImplementsContract == Contract!Spec
=============================================================================
