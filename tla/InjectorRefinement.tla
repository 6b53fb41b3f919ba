------------------------- MODULE InjectorRefinement -------------------------
(* The injector implements MpmcQueue: a push takes effect with the         *)
(* compare-exchange of tail.index, a pop with that of head.index, when the *)
(* value it will return may not even be written.                           *)
EXTENDS Injector

ToPush(t) == pc[t] \in {"push_index", "push_block", "push_first", "push_head", "push_cas"}
Pushed(t) == pc[t] \in {"push_next", "push_tail", "push_link", "push_write", "push_ready"}
ToPop(t) == pc[t] \in {"pop_index", "pop_block", "pop_tail", "pop_cas"}
HasTicket(t) == pc[t] \in {"pop_wait", "pop_peek", "pop_move", "pop_head", "pop_value"}
HasValue(t) == pc[t] \in {"pop_read", "destroy", "mark"}

\* What the queue holds, what t's call is doing, with which value, and what the drop has released.
Queue == IF gone THEN <<>> ELSE SubSeq(order, SlotsBelow(head) + 1, Len(order))
Op(t) ==
    CASE ToPush(t) -> "push"
      [] Pushed(t) -> "pushed"
      [] ToPop(t)  -> "pop"
      [] HasTicket(t) \/ HasValue(t) -> "popped"
      [] OTHER     -> "idle"
Held(t) ==
    CASE ToPush(t) \/ HasValue(t) -> loc[t].value
      [] HasTicket(t) -> order[SlotsBelow(loc[t].index) + 1]
      [] OTHER        -> None
Released == {dropped[n] : n \in DOMAIN dropped}

Contract == INSTANCE MpmcQueue WITH
    queue <- Queue,
    op <- [t \in Threads |-> Op(t)],
    held <- [t \in Threads |-> Held(t)],
    released <- Released

(* Every behaviour of the injector is one of a FIFO queue with atomic      *)
(* operations: values leave in the order of the pushes, each once and to   *)
(* one caller, none is read before it is written, a pop fails only on an   *)
(* empty queue, and the drop releases exactly what is left.                *)
ImplementsQueue == Contract!Spec
=============================================================================
