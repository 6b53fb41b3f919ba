----------------------------- MODULE FifoQueue -----------------------------
(***************************************************************************)
(* The FIFO work-stealing queue of src/fifo.rs.                            *)
(*                                                                         *)
(* Owners and thieves share one word, `heads`: the worker head, which pops *)
(* and bookings advance, and the stealer head, which stays behind while a  *)
(* steal copies and then catches up with whatever the worker head is.      *)
(* Threads, positions and granularity are those of LifoQueue.              *)
(***************************************************************************)
EXTENDS Ring

CONSTANTS
    Stealers,   \* Stealers[t]: the queues t holds a Stealer handle of
    Ops,        \* Ops[t]: the operations the client of t calls
    Starts,     \* the positions an empty queue may start with
    MaxCreated, \* bound: number of items the clients create
    MaxAdvance, \* bound: highest position a tail may reach
    AllowLeak   \* whether a client may leak a Drain (mem::forget)

OpNames == {"push", "extend", "pop", "steal", "steal_and_pop", "drain", "drop"}

ASSUME ClientAssumption ==
    /\ Stealers \in [Workers -> SUBSET Workers]
    /\ Ops \in [Workers -> SUBSET OpNames]
    /\ Starts \subseteq Nat
    /\ MaxCreated \in Nat /\ MaxAdvance \in Nat
    /\ AllowLeak \in BOOLEAN
    /\ Vacant \notin Nat

VARIABLES
    worker_head,    \* the two halves of heads[q]
    stealer_head,
    tail,           \* tail[q]: written by the owner of q only
    buffer,         \* buffer[q]: the slots of q
    dropped,        \* the queues whose last handle is gone

    pc,             \* pc[t]: the step thread t executes next
    op,             \* op[t]: the operation it executes
    victim,         \* victim[t]: the queue it pops or steals from
    my_tail,        \* the tail it loaded from its own queue
    free,           \* the max_count passed to book_items
    seen_worker,    \* the heads it loaded last
    seen_stealer,
    from,           \* the stealer head its booking returned
    count,          \* the number of items it writes or books
    carried,        \* the items it was given to write: carried[t] + 1 and on

    draining,       \* draining[q]: "no", "active", "loaded" or "leaked"
    drain_head, drain_to,       \* the fields `head` and `to_head` of the Drain
    drain_seen,     \* the worker head its completion loaded

    created,        \* number of items created: items are 1..created
    out             \* what has been moved out to a caller, or dropped

headsVars  == <<worker_head, stealer_head>>
queueVars  == <<headsVars, tail, buffer, dropped>>
seenVars   == <<seen_worker, seen_stealer>>
localVars  == <<op, victim, my_tail, free, seenVars, from, count, carried>>
threadVars == <<pc, localVars>>
drainVars  == <<draining, drain_head, drain_to, drain_seen>>
itemVars   == <<created, out>>
vars       == <<queueVars, threadVars, drainVars, itemVars>>

-----------------------------------------------------------------------------
(* The ABA assumption, as in LifoQueue: no thief sleeps between its load   *)
(* of `heads` and its compare-exchange while the queue moves on by a whole *)
(* cycle of its positions.                                                 *)

Booking == {"load_tail", "book"}

Recent(q, n) ==
    \A t \in Workers :
        pc[t] \in Booking /\ victim[t] = q => tail[q] + n - seen_worker[t] < Modulus

-----------------------------------------------------------------------------
(* Counters, positions and locals are natural numbers; a slot holds an item *)
(* or is vacant.  No subtraction of the code goes below zero.               *)
TypeOK ==
    /\ worker_head \in [Workers -> Nat] /\ stealer_head \in [Workers -> Nat]
    /\ tail \in [Workers -> Nat]
    /\ DOMAIN buffer = Workers
    /\ \A q \in Workers : buffer[q] \in [0 .. Capacity[q] - 1 -> Nat \cup {Vacant}]
    /\ dropped \subseteq Workers
    /\ pc \in [Workers -> {"idle", "write", "publish", "pop_cas", "pop_read",
                           "load_heads", "load_tail", "book", "copy",
                           "publish_dest", "load_commit", "commit"}]
    /\ op \in [Workers -> OpNames \cup {"none"}]
    /\ victim \in [Workers -> Workers]
    /\ my_tail \in [Workers -> Nat] /\ free \in [Workers -> Nat]
    /\ seen_worker \in [Workers -> Nat] /\ seen_stealer \in [Workers -> Nat]
    /\ from \in [Workers -> Nat] /\ count \in [Workers -> Nat]
    /\ carried \in [Workers -> Nat]
    /\ draining \in [Workers -> {"no", "active", "loaded", "leaked"}]
    /\ drain_head \in [Workers -> Nat] /\ drain_to \in [Workers -> Nat]
    /\ drain_seen \in [Workers -> Nat]
    /\ created \in Nat
    /\ out \subseteq Nat \cup {Vacant}

Zero == [w \in Workers |-> 0]

\* Worker::new, then as many pushes and pops as it takes to reach a position.
Init ==
    /\ tail \in [Workers -> Starts]
    /\ worker_head = tail /\ stealer_head = tail
    /\ buffer = EmptyBuffers
    /\ dropped = {}
    /\ pc = [t \in Workers |-> "idle"]
    /\ op = [t \in Workers |-> "none"]
    /\ victim = [t \in Workers |-> t]
    /\ my_tail = Zero /\ free = Zero /\ seen_worker = Zero /\ seen_stealer = Zero
    /\ from = Zero /\ count = Zero /\ carried = Zero
    /\ draining = [q \in Workers |-> "no"]
    /\ drain_head = Zero /\ drain_to = Zero /\ drain_seen = Zero
    /\ created = 0
    /\ out = {}

Goto(t, step) == pc' = [pc EXCEPT ![t] = step]

\* The client of t calls an operation on the queue q.
Call(t, name, q) ==
    /\ pc[t] = "idle"
    /\ name \in Ops[t]
    /\ {t, q} \cap dropped = {}
    /\ op' = [op EXCEPT ![t] = name]
    /\ victim' = [victim EXCEPT ![t] = q]

\* The locals of an operation that returns are dead: back to fixed values.
Return(t) ==
    /\ Goto(t, "idle")
    /\ op' = [op EXCEPT ![t] = "none"]
    /\ victim' = [victim EXCEPT ![t] = t]
    /\ my_tail' = [my_tail EXCEPT ![t] = 0]
    /\ free' = [free EXCEPT ![t] = 0]
    /\ seen_worker' = [seen_worker EXCEPT ![t] = 0]
    /\ seen_stealer' = [seen_stealer EXCEPT ![t] = 0]
    /\ from' = [from EXCEPT ![t] = 0]
    /\ count' = [count EXCEPT ![t] = 0]
    /\ carried' = [carried EXCEPT ![t] = 0]

LoadOwnTail(t) == my_tail' = [my_tail EXCEPT ![t] = tail[t]]

\* Occupied slots of the own queue, the ones being stolen included.
OwnLen(t) == WrappingSub(tail[t], stealer_head[t])

-----------------------------------------------------------------------------
(* Worker::push and Worker::extend *)

\* The n items, new ones, that the call will store.
Carry(t, n) ==
    /\ count' = [count EXCEPT ![t] = n]
    /\ carried' = [carried EXCEPT ![t] = created]
    /\ created' = created + n

\* Mutant: one item too many fits.
MutPush(t) ==
    /\ Call(t, "push", t)
    /\ created < MaxCreated /\ tail[t] < MaxAdvance
    /\ ~ (OwnLen(t) > Capacity[t])
    /\ LoadOwnTail(t)
    /\ Carry(t, 1)
    /\ Goto(t, "write")
    /\ UNCHANGED <<queueVars, free, seenVars, from, drainVars, out>>

Push(t) ==
    /\ Call(t, "push", t)
    /\ created < MaxCreated /\ tail[t] < MaxAdvance
    /\ ~ (OwnLen(t) > Capacity[t] - 1)
    /\ LoadOwnTail(t)
    /\ Carry(t, 1)
    /\ Goto(t, "write")
    /\ UNCHANGED <<queueVars, free, seenVars, from, drainVars, out>>

\* Mutant: slots that a thief or a Drain still reads from count as free.
MutExtend(t, n) ==
    /\ Call(t, "extend", t)
    /\ created + n <= MaxCreated /\ tail[t] + n <= MaxAdvance
    /\ LoadOwnTail(t)
    /\ Carry(t, Least(n, WrappingSub(worker_head[t] + Capacity[t], tail[t])))
    /\ Goto(t, "write")
    /\ UNCHANGED <<queueVars, free, seenVars, from, drainVars, out>>

Extend(t, n) ==
    /\ Call(t, "extend", t)
    /\ created + n <= MaxCreated /\ tail[t] + n <= MaxAdvance
    /\ LoadOwnTail(t)
    /\ LET max_tail == stealer_head[t] + Capacity[t] IN
         Carry(t, Least(n, WrappingSub(max_tail, tail[t])))
    /\ Goto(t, "write")
    /\ UNCHANGED <<queueVars, free, seenVars, from, drainVars, out>>

Write(t) ==
    /\ pc[t] = "write"
    /\ buffer' = Written(buffer, t, my_tail[t], [k \in 0 .. count[t] - 1 |-> carried[t] + 1 + k])
    /\ Goto(t, "publish")
    /\ UNCHANGED <<headsVars, tail, dropped, localVars, drainVars, itemVars>>

Publish(t) ==
    /\ pc[t] = "publish"
    /\ Recent(t, count[t])
    /\ tail' = [tail EXCEPT ![t] = my_tail[t] + count[t]]
    /\ Return(t)
    /\ UNCHANGED <<headsVars, buffer, dropped, drainVars, itemVars>>

-----------------------------------------------------------------------------
(* Worker::pop *)

\* The heads a load or a failed compare-exchange found.
See(t, q) ==
    /\ seen_worker' = [seen_worker EXCEPT ![t] = worker_head[q]]
    /\ seen_stealer' = [seen_stealer EXCEPT ![t] = stealer_head[q]]

\* What a compare-exchange of `heads` compares.
SameHeads(t, q) ==
    /\ Short(worker_head[q]) = Short(seen_worker[t])
    /\ Short(stealer_head[q]) = Short(seen_stealer[t])

\* Mutant: an empty queue is popped as well.
MutPop(t) ==
    /\ Call(t, "pop", t)
    /\ LoadOwnTail(t)
    /\ See(t, t)
    /\ Goto(t, "pop_cas")
    /\ UNCHANGED <<queueVars, free, from, count, carried, drainVars, itemVars>>

Pop(t) ==
    /\ Call(t, "pop", t)
    /\ Short(tail[t]) # Short(worker_head[t])
    /\ LoadOwnTail(t)
    /\ See(t, t)
    /\ Goto(t, "pop_cas")
    /\ UNCHANGED <<queueVars, free, from, count, carried, drainVars, itemVars>>

(* The stealer head moves along with the worker head unless a steal holds  *)
(* it back.                                                                *)
PopCasOk(t) ==
    /\ pc[t] = "pop_cas"
    /\ SameHeads(t, t)
    /\ worker_head' = [worker_head EXCEPT ![t] = seen_worker[t] + 1]
    /\ stealer_head' = [stealer_head EXCEPT ![t] =
          IF Short(seen_stealer[t]) = Short(seen_worker[t])
          THEN seen_stealer[t] + 1 ELSE seen_stealer[t]]
    /\ Goto(t, "pop_read")
    /\ UNCHANGED <<tail, buffer, dropped, localVars, drainVars, itemVars>>

PopCasFail(t) ==
    /\ pc[t] = "pop_cas"
    /\ ~ SameHeads(t, t)
    /\ \/ /\ Short(tail[t]) = Short(worker_head[t])
          /\ Return(t)
       \/ /\ Short(tail[t]) # Short(worker_head[t])
          /\ See(t, t)
          /\ UNCHANGED <<pc, op, victim, my_tail, free, from, count, carried>>
    /\ UNCHANGED <<queueVars, drainVars, itemVars>>

PopRead(t) ==
    /\ pc[t] = "pop_read"
    /\ out' = out \cup Read(buffer, t, seen_worker[t], 1)
    /\ buffer' = MovedOut(buffer, t, seen_worker[t], 1)
    /\ Return(t)
    /\ UNCHANGED <<headsVars, tail, dropped, drainVars, created>>

-----------------------------------------------------------------------------
(* Stealer::steal, Stealer::steal_and_pop, Worker::drain *)

Steal(t, v, name) ==
    /\ v \in Stealers[t] /\ name \in {"steal", "steal_and_pop"}
    /\ Call(t, name, v)
    /\ tail[t] + Capacity[t] <= MaxAdvance
    /\ LoadOwnTail(t)
    /\ free' = [free EXCEPT ![t] =
          Capacity[t] - OwnLen(t) + (IF name = "steal_and_pop" THEN 1 ELSE 0)]
    /\ Goto(t, "load_heads")
    /\ UNCHANGED <<queueVars, seenVars, from, count, carried, drainVars, itemVars>>

DrainCall(t) ==
    /\ Call(t, "drain", t)
    /\ free' = [free EXCEPT ![t] = Modulus - 1]
    /\ Goto(t, "load_heads")
    /\ UNCHANGED <<queueVars, my_tail, seenVars, from, count, carried, drainVars, itemVars>>

(* book_items *)

\* Mutant: a steal in progress is not noticed.
MutBusyTest(t) ==
    /\ See(t, victim[t])
    /\ count' = [count EXCEPT ![t] = 0]
    /\ Goto(t, "load_tail")
    /\ UNCHANGED <<op, victim, my_tail, free, from, carried>>

\* The test at the top of the loop: heads that differ mean Busy.
BusyTest(t) ==
    LET v == victim[t] IN
    \/ /\ Short(stealer_head[v]) # Short(worker_head[v])
       /\ Return(t)
    \/ /\ Short(stealer_head[v]) = Short(worker_head[v])
       /\ See(t, v)
       /\ count' = [count EXCEPT ![t] = 0]
       /\ Goto(t, "load_tail")
       /\ UNCHANGED <<op, victim, my_tail, free, from, carried>>

LoadHeads(t) ==
    /\ pc[t] = "load_heads"
    /\ BusyTest(t)
    /\ UNCHANGED <<queueVars, drainVars, itemVars>>

\* Mutant: an item is left out.
MutItemCount(t) == WrappingSub(tail[victim[t]], seen_worker[t] + 1)

ItemCount(t) == WrappingSub(tail[victim[t]], seen_worker[t])

\* The tail is loaded and count_fn called: n is its result, cut to size.
LoadTail(t, n) ==
    /\ pc[t] = "load_tail"
    /\ n \in 0 .. Least(ItemCount(t), free[t])
    /\ \/ /\ n = 0
          /\ Return(t)
       \/ /\ n > 0
          /\ count' = [count EXCEPT ![t] = n]
          /\ Goto(t, "book")
          /\ UNCHANGED <<op, victim, my_tail, free, seenVars, from, carried>>
    /\ UNCHANGED <<queueVars, drainVars, itemVars>>

\* The booking moves the worker head only.
BookOk(t) ==
    /\ pc[t] = "book"
    /\ SameHeads(t, victim[t])
    /\ worker_head' = [worker_head EXCEPT ![victim[t]] = seen_worker[t] + count[t]]
    /\ stealer_head' = [stealer_head EXCEPT ![victim[t]] = seen_stealer[t]]
    /\ \/ /\ op[t] = "drain"
          /\ draining' = [draining EXCEPT ![t] = "active"]
          /\ drain_head' = [drain_head EXCEPT ![t] = seen_stealer[t]]
          /\ drain_to' = [drain_to EXCEPT ![t] = seen_stealer[t] + count[t]]
          /\ Return(t)
          /\ UNCHANGED drain_seen
       \/ /\ op[t] # "drain"
          /\ from' = [from EXCEPT ![t] = seen_stealer[t]]
          /\ Goto(t, "copy")
          /\ UNCHANGED <<op, victim, my_tail, free, seenVars, count, carried, drainVars>>
    /\ UNCHANGED <<tail, buffer, dropped, itemVars>>

BookFail(t) ==
    /\ pc[t] = "book"
    /\ ~ SameHeads(t, victim[t])
    /\ BusyTest(t)
    /\ UNCHANGED <<queueVars, drainVars, itemVars>>

TransferCount(t) == IF op[t] = "steal_and_pop" THEN count[t] - 1 ELSE count[t]

\* Mutant: steal_and_pop returns the oldest of the items instead of the newest.
MutCopy(t) ==
    /\ pc[t] = "copy"
    /\ LET v == victim[t]
           n == TransferCount(t)
       IN  /\ buffer' = Written(MovedOut(buffer, v, from[t], count[t]),
                               t, my_tail[t], Items(buffer, v, from[t] + count[t] - n, n))
           /\ out' = out \cup Read(buffer, v, from[t], count[t] - n)
    /\ Goto(t, "publish_dest")
    /\ UNCHANGED <<headsVars, tail, dropped, localVars, drainVars, created>>

\* transfer_items and the read of the item steal_and_pop returns.
Copy(t) ==
    /\ pc[t] = "copy"
    /\ LET v == victim[t]
           n == TransferCount(t)
       IN  /\ buffer' = Written(MovedOut(buffer, v, from[t], count[t]),
                               t, my_tail[t], Items(buffer, v, from[t], n))
           /\ out' = out \cup Read(buffer, v, from[t] + n, count[t] - n)
    /\ Goto(t, "publish_dest")
    /\ UNCHANGED <<headsVars, tail, dropped, localVars, drainVars, created>>

PublishDest(t) ==
    /\ pc[t] = "publish_dest"
    /\ Recent(t, TransferCount(t))
    /\ tail' = [tail EXCEPT ![t] = my_tail[t] + TransferCount(t)]
    /\ Goto(t, "load_commit")
    /\ UNCHANGED <<headsVars, buffer, dropped, localVars, drainVars, itemVars>>

\* Completion: the heads are loaded ...
LoadCommit(t) ==
    /\ pc[t] = "load_commit"
    /\ See(t, victim[t])
    /\ Goto(t, "commit")
    /\ UNCHANGED <<queueVars, op, victim, my_tail, free, from, count, carried,
                   drainVars, itemVars>>

\* ... and the stealer head catches up with the worker head found there, ...
CommitOk(t) ==
    /\ pc[t] = "commit"
    /\ SameHeads(t, victim[t])
    /\ worker_head' = [worker_head EXCEPT ![victim[t]] = seen_worker[t]]
    /\ stealer_head' = [stealer_head EXCEPT ![victim[t]] = seen_worker[t]]
    /\ Return(t)
    /\ UNCHANGED <<tail, buffer, dropped, drainVars, itemVars>>

\* ... unless the owner has popped meanwhile.
CommitFail(t) ==
    /\ pc[t] = "commit"
    /\ ~ SameHeads(t, victim[t])
    /\ See(t, victim[t])
    /\ UNCHANGED <<queueVars, pc, op, victim, my_tail, free, from, count,
                   carried, drainVars, itemVars>>

-----------------------------------------------------------------------------
(* The iterator Drain, concurrent with the owner *)

DrainNext(q) ==
    /\ draining[q] = "active"
    /\ Short(drain_head[q]) # Short(drain_to[q])
    /\ out' = out \cup Read(buffer, q, drain_head[q], 1)
    /\ buffer' = MovedOut(buffer, q, drain_head[q], 1)
    /\ drain_head' = [drain_head EXCEPT ![q] = @ + 1]
    /\ UNCHANGED <<headsVars, tail, dropped, threadVars, draining, drain_to,
                   drain_seen, created>>

\* After the last item, the loop that completes the steal: a load, ...
DrainLoad(q) ==
    /\ \/ draining[q] = "active" /\ Short(drain_head[q]) = Short(drain_to[q])
       \/ draining[q] = "loaded" /\ Short(worker_head[q]) # Short(drain_seen[q])
    /\ draining' = [draining EXCEPT ![q] = "loaded"]
    /\ drain_seen' = [drain_seen EXCEPT ![q] = worker_head[q]]
    /\ UNCHANGED <<queueVars, threadVars, drain_head, drain_to, itemVars>>

\* ... and a compare-exchange (the stealer head cannot have changed).
DrainCommit(q) ==
    /\ draining[q] = "loaded"
    /\ Short(worker_head[q]) = Short(drain_seen[q])
    /\ stealer_head' = [stealer_head EXCEPT ![q] = drain_seen[q]]
    /\ draining' = [draining EXCEPT ![q] = "no"]
    /\ drain_head' = [drain_head EXCEPT ![q] = 0]
    /\ drain_to' = [drain_to EXCEPT ![q] = 0]
    /\ drain_seen' = [drain_seen EXCEPT ![q] = 0]
    /\ UNCHANGED <<worker_head, tail, buffer, dropped, threadVars, itemVars>>

DrainLeak(q) ==
    /\ AllowLeak
    /\ draining[q] = "active"
    /\ Short(drain_head[q]) # Short(drain_to[q])
    /\ draining' = [draining EXCEPT ![q] = "leaked"]
    /\ UNCHANGED <<queueVars, threadVars, drain_head, drain_to, drain_seen, itemVars>>

-----------------------------------------------------------------------------

\* Mutant: the items of a leaked Drain are released once more.
MutDrop(q) ==
    /\ "drop" \in Ops[q]
    /\ q \notin dropped
    /\ pc[q] = "idle"
    /\ \A t \in Workers : pc[t] # "idle" => victim[t] # q
    /\ draining[q] \in {"no", "leaked"}
    /\ dropped' = dropped \cup {q}
    /\ out' = out \cup Read(buffer, q, stealer_head[q], OwnLen(q))
    /\ buffer' = MovedOut(buffer, q, stealer_head[q], OwnLen(q))
    /\ UNCHANGED <<headsVars, tail, threadVars, drainVars, created>>

\* Queue::drop releases the items from the worker head to the tail.
Drop(q) ==
    /\ "drop" \in Ops[q]
    /\ q \notin dropped
    /\ pc[q] = "idle"
    /\ \A t \in Workers : pc[t] # "idle" => victim[t] # q
    /\ draining[q] \in {"no", "leaked"}
    /\ dropped' = dropped \cup {q}
    /\ LET n == WrappingSub(tail[q], worker_head[q]) IN
         /\ out' = out \cup Read(buffer, q, worker_head[q], n)
         /\ buffer' = MovedOut(buffer, q, worker_head[q], n)
    /\ UNCHANGED <<headsVars, tail, threadVars, drainVars, created>>

Step(t) ==
    \/ Push(t)
    \/ \E n \in 0 .. MaxCreated : Extend(t, n)
    \/ Write(t)
    \/ Publish(t)
    \/ Pop(t)
    \/ PopCasOk(t)
    \/ PopCasFail(t)
    \/ PopRead(t)
    \/ \E v \in Workers, name \in OpNames : Steal(t, v, name)
    \/ DrainCall(t)
    \/ LoadHeads(t)
    \/ \E n \in 0 .. Modulus - 1 : LoadTail(t, n)
    \/ BookOk(t)
    \/ BookFail(t)
    \/ Copy(t)
    \/ PublishDest(t)
    \/ LoadCommit(t)
    \/ CommitOk(t)
    \/ CommitFail(t)
    \/ DrainNext(t)
    \/ DrainLoad(t)
    \/ DrainCommit(t)
    \/ DrainLeak(t)
    \/ Drop(t)

Next == \E t \in Workers : Step(t)

Spec == Init /\ [][Next]_vars
-----------------------------------------------------------------------------
(* Properties *)

(* The stealer head follows the worker head, that one the tail, and the    *)
(* tail is never more than the capacity ahead of the stealer head.         *)
PositionsOrdered ==
    \A q \in Workers :
        /\ stealer_head[q] <= worker_head[q]
        /\ worker_head[q] <= tail[q]
        /\ tail[q] <= stealer_head[q] + Capacity[q]

Stealing(t) == pc[t] \in {"copy", "publish_dest", "load_commit", "commit"}

(* One steal or drain at a time: the heads differ exactly while there is   *)
(* one, so that pops during a steal cost no capacity once it is complete,  *)
(* and the stealer head is the one its booking returned (the debug         *)
(* assertions of the completion loops).                                    *)
OneThief ==
    \A q \in Workers :
        LET thieves == {t \in Workers : Stealing(t) /\ victim[t] = q}
        IN  /\ \A t, u \in thieves : t = u
            /\ thieves # {} => draining[q] = "no"
            /\ stealer_head[q] # worker_head[q] <=> thieves # {} \/ draining[q] # "no"
            /\ \A t \in thieves : stealer_head[q] = from[t]
            /\ draining[q] # "no" => drain_head[q] \in stealer_head[q] .. drain_to[q]

\* The slots of q that the next step of thread t, or of the Drain of q, moves from.
ThreadReads(t, q) ==
    CASE pc[t] = "pop_read" /\ t = q -> Slots(q, seen_worker[t], 1)
      [] pc[t] = "copy" /\ victim[t] = q -> Slots(q, from[t], count[t])
      [] OTHER -> {}

DrainReads(q) ==
    IF draining[q] = "active"
    THEN Slots(q, drain_head[q], drain_to[q] - drain_head[q])
    ELSE {}

\* The slots of its own queue that the next step of t writes.
ThreadWrites(t) ==
    CASE pc[t] = "write" -> Slots(t, my_tail[t], count[t])
      [] pc[t] = "copy" -> Slots(t, my_tail[t], TransferCount(t))
      [] OTHER -> {}

(* The contract of read_at and write_at: what is read was initialized and  *)
(* not moved out, what is written holds no item that would be leaked, and  *)
(* no two threads access one slot concurrently.                            *)
SlotContract ==
    \A q \in Workers :
        /\ \A t \in Workers : \A i \in ThreadReads(t, q) : buffer[q][i] # Vacant
        /\ \A i \in DrainReads(q) : buffer[q][i] # Vacant
        /\ \A i \in ThreadWrites(q) : buffer[q][i] = Vacant
        /\ \A t \in Workers :
              /\ ThreadReads(t, q) \cap (DrainReads(q) \cup ThreadWrites(q)) = {}
              /\ \A u \in Workers \ {t} : ThreadReads(t, q) \cap ThreadReads(u, q) = {}

Stored == (UNION {{buffer[q][i] : i \in DOMAIN buffer[q]} : q \in Workers}) \ {Vacant}

Carried == UNION {carried[t] + 1 .. carried[t] + count[t] :
                     t \in {u \in Workers : pc[u] = "write"}}

(* Every item given to push or extend is on its way to its slot, in exactly *)
(* one slot, or was handed out, once; what was never an item is never       *)
(* handed out; a queue that is gone kept none, unless its Drain was leaked. *)
ExactlyOnce ==
    /\ out \cup Stored \cup Carried = 1 .. created
    /\ out \cap Stored = {} /\ (out \cup Stored) \cap Carried = {}
    /\ \A p, q \in Workers : \A i \in DOMAIN buffer[p], j \in DOMAIN buffer[q] :
          buffer[p][i] = buffer[q][j] /\ buffer[p][i] # Vacant => p = q /\ i = j
    /\ \A q \in dropped : draining[q] = "no" =>
          \A i \in DOMAIN buffer[q] : buffer[q][i] = Vacant

(* steal and drain report Empty because of the queue only when it is empty *)
(* at that very moment.                                                    *)
EmptyIsTrue ==
    [][\A t \in Workers :
          pc[t] = "load_tail" /\ pc'[t] = "idle" /\ ItemCount(t) = 0
            => worker_head[victim[t]] = tail[victim[t]]]_vars
=============================================================================
