---------------------------- MODULE StealDeques ----------------------------
(***************************************************************************)
(* What a pool of work-stealing queues promises its callers, without ring  *)
(* buffers, counters or compare-exchanges.  A queue is a sequence, oldest  *)
(* item first.  Its owner appends at the back and pops at one fixed end; a *)
(* thief takes a run of items off the front in one atomic step and later   *)
(* appends it, in order, to its own queue; at most one steal works on a    *)
(* queue at a time and its slots count against the capacity until it ends. *)
(***************************************************************************)
EXTENDS Integers, Sequences, SequencesExt

CONSTANTS Workers, Capacity, Elements,
          PopsBack      \* TRUE for src/lifo.rs, FALSE for src/fifo.rs

VARIABLES
    deque,      \* deque[q]: the items of q, oldest first
    hand,       \* hand[t]: the items t has taken out and not yet passed on
    source,     \* source[t]: the queue t steals from, or t itself
    stealing,   \* stealing[t]: t has not yet given back the slots it took
    booked,     \* booked[q]: the number of slots the steal in progress holds
    drained,    \* drained[q]: the items the Drain of q still has to yield
    out         \* the items handed to a caller, or dropped

vars == <<deque, hand, source, stealing, booked, drained, out>>

Nothing == [w \in Workers |-> <<>>]

Init ==
    /\ deque = Nothing /\ hand = Nothing /\ drained = Nothing
    /\ source = [w \in Workers |-> w]
    /\ stealing = [w \in Workers |-> FALSE]
    /\ booked = [w \in Workers |-> 0]
    /\ out = {}

Known ==
    out \cup UNION {ToSet(deque[w]) \cup ToSet(hand[w]) \cup ToSet(drained[w]) : w \in Workers}

\* New items, in order, at the back; never more than there is room for.
Put(t) ==
    \E s \in BoundedSeq(Elements \ Known, Capacity[t] - booked[t] - Len(deque[t])) :
        /\ IsInjective(s)
        /\ deque' = [deque EXCEPT ![t] = @ \o s]
        /\ UNCHANGED <<hand, source, stealing, booked, drained, out>>

\* The owner claims the item at its end.
Claim(t) ==
    /\ deque[t] # <<>> /\ hand[t] = <<>> /\ ~ stealing[t]
    /\ LET s == deque[t] IN
         IF PopsBack
         THEN /\ hand' = [hand EXCEPT ![t] = <<Last(s)>>]
              /\ deque' = [deque EXCEPT ![t] = Front(s)]
         ELSE /\ hand' = [hand EXCEPT ![t] = <<Head(s)>>]
              /\ deque' = [deque EXCEPT ![t] = Tail(s)]
    /\ UNCHANGED <<source, stealing, booked, drained, out>>

\* The last item in hand goes to the caller (pop, steal_and_pop).
Deliver(t) ==
    /\ hand[t] # <<>>
    /\ out' = out \cup {Last(hand[t])}
    /\ hand' = [hand EXCEPT ![t] = Front(@)]
    /\ UNCHANGED <<deque, source, stealing, booked, drained>>

\* A run of items leaves the front of v, which no other steal works on.
Take(v, n) ==
    /\ booked[v] = 0
    /\ deque' = [deque EXCEPT ![v] = SubSeq(@, n + 1, Len(@))]
    /\ booked' = [booked EXCEPT ![v] = n]

Book(t, v) ==
    \E n \in 1 .. Len(deque[v]) :
        /\ hand[t] = <<>> /\ ~ stealing[t]
        /\ Take(v, n)
        /\ hand' = [hand EXCEPT ![t] = SubSeq(deque[v], 1, n)]
        /\ source' = [source EXCEPT ![t] = v]
        /\ stealing' = [stealing EXCEPT ![t] = TRUE]
        /\ UNCHANGED <<drained, out>>

\* The stolen items appear at the back of the thief's queue, all at once.
Land(t) ==
    /\ stealing[t]
    /\ Len(deque[t]) + booked[t] + Len(hand[t]) <= Capacity[t]
    /\ deque' = [deque EXCEPT ![t] = @ \o hand[t]]
    /\ hand' = [hand EXCEPT ![t] = <<>>]
    /\ UNCHANGED <<source, stealing, booked, drained, out>>

\* The steal ends once nothing is left in hand.
Release(t) ==
    /\ stealing[t] /\ hand[t] = <<>>
    /\ booked' = [booked EXCEPT ![source[t]] = 0]
    /\ source' = [source EXCEPT ![t] = t]
    /\ stealing' = [stealing EXCEPT ![t] = FALSE]
    /\ UNCHANGED <<deque, hand, drained, out>>

BookDrain(q) ==
    \E n \in 1 .. Len(deque[q]) :
        /\ Take(q, n)
        /\ drained' = [drained EXCEPT ![q] = SubSeq(deque[q], 1, n)]
        /\ UNCHANGED <<hand, source, stealing, out>>

DrainNext(q) ==
    /\ drained[q] # <<>>
    /\ out' = out \cup {Head(drained[q])}
    /\ drained' = [drained EXCEPT ![q] = Tail(@)]
    /\ UNCHANGED <<deque, hand, source, stealing, booked>>

ReleaseDrain(q) ==
    /\ booked[q] # 0 /\ drained[q] = <<>>
    /\ \A t \in Workers : stealing[t] => source[t] # q
    /\ booked' = [booked EXCEPT ![q] = 0]
    /\ UNCHANGED <<deque, hand, source, stealing, drained, out>>

(* A queue nobody works on goes away: what it holds is released, and what  *)
(* a leaked Drain took from it is not.                                     *)
Drop(q) ==
    /\ hand[q] = <<>> /\ \A t \in Workers : stealing[t] => source[t] # q
    /\ out' = out \cup ToSet(deque[q])
    /\ deque' = [deque EXCEPT ![q] = <<>>]
    /\ UNCHANGED <<hand, source, stealing, booked, drained>>

Next ==
    \E t \in Workers :
        \/ Put(t) \/ Claim(t) \/ Deliver(t) \/ Land(t) \/ Release(t)
        \/ \E v \in Workers : Book(t, v)
        \/ BookDrain(t) \/ DrainNext(t) \/ ReleaseDrain(t) \/ Drop(t)

Spec == Init /\ [][Next]_vars
=============================================================================
