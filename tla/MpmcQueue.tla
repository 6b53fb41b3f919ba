----------------------------- MODULE MpmcQueue -----------------------------
(***************************************************************************)
(* What the injector promises, and what the pool relies on: a FIFO queue   *)
(* for any number of threads on which every call takes effect in one step  *)
(* between its beginning and its return (linearizability).                 *)
(***************************************************************************)
EXTENDS Sequences, SequencesExt

CONSTANTS Threads, Values, None

VARIABLES
    queue,      \* the values, oldest first
    op,         \* op[t]: the call t is in and whether it has taken effect
    held,       \* held[t]: the value t is pushing or has popped
    released    \* the values dropped together with the queue

vars == <<queue, op, held, released>>

Init ==
    /\ queue = <<>> /\ released = {}
    /\ op = [t \in Threads |-> "idle"]
    /\ held = [t \in Threads |-> None]

Turn(t, from, to, value) ==
    /\ op[t] = from
    /\ op' = [op EXCEPT ![t] = to]
    /\ held' = [held EXCEPT ![t] = value]

CallPush(t) == \E v \in Values : Turn(t, "idle", "push", v) /\ UNCHANGED <<queue, released>>

Push(t) == Turn(t, "push", "pushed", None) /\ queue' = Append(queue, held[t]) /\ UNCHANGED released

CallPop(t) == Turn(t, "idle", "pop", None) /\ UNCHANGED <<queue, released>>

Pop(t) ==
    /\ queue # <<>>
    /\ Turn(t, "pop", "popped", Head(queue))
    /\ queue' = Tail(queue)
    /\ UNCHANGED released

\* Only an empty queue has nothing to pop.
PopNone(t) == queue = <<>> /\ Turn(t, "pop", "idle", None) /\ UNCHANGED <<queue, released>>

Return(t) ==
    /\ Turn(t, "pushed", "idle", None) \/ Turn(t, "popped", "idle", None)
    /\ UNCHANGED <<queue, released>>

Drop ==
    /\ \A t \in Threads : op[t] = "idle"
    /\ queue' = <<>>
    /\ released' = ToSet(queue)
    /\ UNCHANGED <<op, held>>

Next ==
    \/ Drop
    \/ \E t \in Threads :
        CallPush(t) \/ Push(t) \/ CallPop(t) \/ Pop(t) \/ PopNone(t) \/ Return(t)

Spec == Init /\ [][Next]_vars
=============================================================================
