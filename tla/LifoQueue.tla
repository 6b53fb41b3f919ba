----------------------------- MODULE LifoQueue -----------------------------
(***************************************************************************)
(* The LIFO work-stealing queue of src/lifo.rs.                            *)
(*                                                                         *)
(* Every thread t of Workers owns the queue t (its `Worker` handle) and    *)
(* may hold `Stealer` handles of the queues Stealers[t].  One action is    *)
(* one access to an atomic shared with other threads, together with the    *)
(* local computation up to the next one.                                   *)
(***************************************************************************)
EXTENDS Ring

CONSTANTS
    Stealers,   \* Stealers[t]: the queues t holds a Stealer handle of
    Ops,        \* Ops[t]: the operations the client of t calls
    Starts,     \* the <<pop count, head>> pairs a queue may start with
    MaxCreated, \* bound: number of items the clients create
    MaxAdvance, \* bound: highest value a push count may reach
    AllowLeak   \* whether a client may leak a Drain (mem::forget)

OpNames == {"push", "extend", "pop", "steal", "steal_and_pop", "drain", "drop"}

ASSUME ClientAssumption ==
    /\ Stealers \in [Workers -> SUBSET Workers]
    /\ Ops \in [Workers -> SUBSET OpNames]
    /\ Starts \subseteq Nat \X Nat
    /\ MaxCreated \in Nat /\ MaxAdvance \in Nat
    /\ AllowLeak \in BOOLEAN
    /\ Vacant \notin Nat

VARIABLES
    push_count, \* push_count[q]: written by the owner of q only
    pop_count,  \* the two halves of pop_count_and_head[q]: the pop count, ...
    next_head,  \* ... and the head the steal in progress will leave behind
    head,       \* head[q]: the head left behind by the last finished steal
    buffer,     \* buffer[q]: the slots of q
    dropped,    \* the queues whose last handle is gone

    pc,         \* pc[t]: the step thread t executes next
    op,         \* op[t]: the operation it executes
    victim,     \* victim[t]: the queue it pops or steals from
    my_push,    \* the push_count it loaded from its own queue, ...
    my_tail,    \* ... the tail computed from it, ...
    free,       \* ... and the max_count passed to book_items
    seen_pop,   \* the pop_count_and_head it loaded last: the pop count, ...
    seen_head,  \* ... and the head
    old_head,   \* the `head` loaded by book_items
    count,      \* the number of items it writes or books
    carried,    \* the items it was given to write: carried[t] + 1 and on

    draining,   \* draining[q]: "no", "active" or "leaked", the Drain of q
    drain_current, drain_end,   \* its fields `current` and `end`

    created,    \* number of items the clients have created: items are 1..created
    out         \* what has been moved out to a caller, or dropped

queueVars  == <<push_count, pop_count, next_head, head, buffer, dropped>>
wordVars   == <<pop_count, next_head>>
seenVars   == <<seen_pop, seen_head>>
localVars  == <<op, victim, my_push, my_tail, free, seen_pop, seen_head,
                old_head, count, carried>>
threadVars == <<pc, localVars>>
drainVars  == <<draining, drain_current, drain_end>>
itemVars   == <<created, out>>
vars       == <<queueVars, threadVars, drainVars, itemVars>>

-----------------------------------------------------------------------------
TailOf(q) == push_count[q] - pop_count[q]

-----------------------------------------------------------------------------
(* The ABA assumption.  A compare-exchange compares the two 32-bit halves  *)
(* of a word, so it can be fooled by a thread that sleeps through 2^32     *)
(* operations between its load and its compare-exchange; the README of the *)
(* crate accepts that.  Here: the owner publishes items only while no      *)
(* thief holds a word that many operations old.                            *)

Booking == {"load_head", "load_push", "book"}

Recent(q, n) ==
    \A t \in Workers :
        pc[t] \in Booking /\ victim[t] = q
          => push_count[q] + n - seen_pop[t] - seen_head[t] < Modulus

-----------------------------------------------------------------------------
(* Counters, positions and locals are natural numbers; a slot holds an item *)
(* or is vacant.  No subtraction of the code goes below zero.               *)
TypeOK ==
    /\ push_count \in [Workers -> Nat]
    /\ pop_count \in [Workers -> Nat]
    /\ next_head \in [Workers -> Nat]
    /\ head \in [Workers -> Nat]
    /\ DOMAIN buffer = Workers
    /\ \A q \in Workers : buffer[q] \in [0 .. Capacity[q] - 1 -> Nat \cup {Vacant}]
    /\ dropped \subseteq Workers
    /\ pc \in [Workers -> {"idle", "write", "publish", "pop_cas", "pop_read",
                           "load_word", "load_head", "load_push", "book",
                           "copy", "publish_dest", "commit"}]
    /\ op \in [Workers -> OpNames \cup {"none"}]
    /\ victim \in [Workers -> Workers]
    /\ my_push \in [Workers -> Nat]
    /\ my_tail \in [Workers -> Nat]
    /\ free \in [Workers -> Nat]
    /\ seen_pop \in [Workers -> Nat]
    /\ seen_head \in [Workers -> Nat]
    /\ old_head \in [Workers -> Nat]
    /\ count \in [Workers -> Nat]
    /\ carried \in [Workers -> Nat]
    /\ draining \in [Workers -> {"no", "active", "leaked"}]
    /\ drain_current \in [Workers -> Nat]
    /\ drain_end \in [Workers -> Nat]
    /\ created \in Nat
    /\ out \subseteq Nat \cup {Vacant}

(* Worker::new, followed by enough pushes, pops and steals to bring the    *)
(* counters of the empty queue anywhere (as the `rotate` helpers of the    *)
(* tests do).                                                              *)
Init ==
    /\ \E s \in [Workers -> Starts] :
          /\ pop_count = [q \in Workers |-> s[q][1]]
          /\ head = [q \in Workers |-> s[q][2]]
          /\ next_head = head
          /\ push_count = [q \in Workers |-> s[q][1] + s[q][2]]
    /\ buffer = EmptyBuffers
    /\ dropped = {}
    /\ pc = [t \in Workers |-> "idle"]
    /\ op = [t \in Workers |-> "none"]
    /\ victim = [t \in Workers |-> t]
    /\ my_push = [t \in Workers |-> 0]
    /\ my_tail = [t \in Workers |-> 0]
    /\ free = [t \in Workers |-> 0]
    /\ seen_pop = [t \in Workers |-> 0]
    /\ seen_head = [t \in Workers |-> 0]
    /\ old_head = [t \in Workers |-> 0]
    /\ count = [t \in Workers |-> 0]
    /\ carried = [t \in Workers |-> 0]
    /\ draining = [q \in Workers |-> "no"]
    /\ drain_current = [q \in Workers |-> 0]
    /\ drain_end = [q \in Workers |-> 0]
    /\ created = 0
    /\ out = {}

Goto(t, step) == pc' = [pc EXCEPT ![t] = step]

\* The client of t calls an operation on the queue q.
Call(t, name, q) ==
    /\ pc[t] = "idle"
    /\ name \in Ops[t]
    /\ {t, q} \cap dropped = {}
    /\ op' = [op EXCEPT ![t] = name]
    /\ victim' = [victim EXCEPT ![t] = q]

\* The locals of an operation that returns are dead: back to fixed values.
Return(t) ==
    /\ Goto(t, "idle")
    /\ op' = [op EXCEPT ![t] = "none"]
    /\ victim' = [victim EXCEPT ![t] = t]
    /\ my_push' = [my_push EXCEPT ![t] = 0]
    /\ my_tail' = [my_tail EXCEPT ![t] = 0]
    /\ free' = [free EXCEPT ![t] = 0]
    /\ seen_pop' = [seen_pop EXCEPT ![t] = 0]
    /\ seen_head' = [seen_head EXCEPT ![t] = 0]
    /\ old_head' = [old_head EXCEPT ![t] = 0]
    /\ count' = [count EXCEPT ![t] = 0]
    /\ carried' = [carried EXCEPT ![t] = 0]

\* Every writer starts by loading the counters of its own queue.
LoadOwnTail(t) ==
    /\ my_push' = [my_push EXCEPT ![t] = push_count[t]]
    /\ my_tail' = [my_tail EXCEPT ![t] = TailOf(t)]

\* Occupied slots of the own queue, the ones being stolen included.
OwnLen(t) == WrappingSub(TailOf(t), head[t])

-----------------------------------------------------------------------------
(* Worker::push and Worker::extend *)

\* The n items, new ones, that the call will store.
Carry(t, n) ==
    /\ count' = [count EXCEPT ![t] = n]
    /\ carried' = [carried EXCEPT ![t] = created]
    /\ created' = created + n

\* Mutant: one item too many fits.
MutPush(t) ==
    /\ Call(t, "push", t)
    /\ created < MaxCreated /\ push_count[t] < MaxAdvance
    /\ ~ (OwnLen(t) > Capacity[t])
    /\ LoadOwnTail(t)
    /\ Carry(t, 1)
    /\ Goto(t, "write")
    /\ UNCHANGED <<queueVars, free, seenVars, old_head, drainVars, out>>

(* push: the counters are loaded, then `head`; a full queue gives the item *)
(* back.                                                                   *)
Push(t) ==
    /\ Call(t, "push", t)
    /\ created < MaxCreated /\ push_count[t] < MaxAdvance
    /\ ~ (OwnLen(t) > Capacity[t] - 1)
    /\ LoadOwnTail(t)
    /\ Carry(t, 1)
    /\ Goto(t, "write")
    /\ UNCHANGED <<queueVars, free, seenVars, old_head, drainVars, out>>

\* Mutant: slots that a thief or a Drain still reads from count as free.
MutExtend(t, n) ==
    /\ Call(t, "extend", t)
    /\ created + n <= MaxCreated /\ push_count[t] + n <= MaxAdvance
    /\ LoadOwnTail(t)
    /\ Carry(t, Least(n, WrappingSub(next_head[t] + Capacity[t], TailOf(t))))
    /\ Goto(t, "write")
    /\ UNCHANGED <<queueVars, free, seenVars, old_head, drainVars, out>>

(* extend: the iterator is consumed up to max_tail = head + capacity; the  *)
(* items it still holds are dropped with it and never reach the queue.     *)
Extend(t, n) ==
    /\ Call(t, "extend", t)
    /\ created + n <= MaxCreated /\ push_count[t] + n <= MaxAdvance
    /\ LoadOwnTail(t)
    /\ LET max_tail == head[t] + Capacity[t] IN
         Carry(t, Least(n, WrappingSub(max_tail, TailOf(t))))
    /\ Goto(t, "write")
    /\ UNCHANGED <<queueVars, free, seenVars, old_head, drainVars, out>>

\* write_at for every item, oldest first.
Write(t) ==
    /\ pc[t] = "write"
    /\ buffer' = Written(buffer, t, my_tail[t], [k \in 0 .. count[t] - 1 |-> carried[t] + 1 + k])
    /\ Goto(t, "publish")
    /\ UNCHANGED <<push_count, wordVars, head, dropped, localVars, drainVars, itemVars>>

\* The release store of push_count makes the items visible.
Publish(t) ==
    /\ pc[t] = "publish"
    /\ Recent(t, count[t])
    /\ push_count' = [push_count EXCEPT ![t] = my_push[t] + count[t]]
    /\ Return(t)
    /\ UNCHANGED <<wordVars, head, buffer, dropped, drainVars, itemVars>>

-----------------------------------------------------------------------------
(* Worker::pop *)

\* One look at a head: the queue is empty, or the newest item is claimed.
PopTest(t, popped, h) ==
    /\ seen_pop' = [seen_pop EXCEPT ![t] = popped]
    /\ seen_head' = [seen_head EXCEPT ![t] = h]
    /\ Goto(t, "pop_cas")

\* Mutant: an empty queue is popped as well.
MutPop(t) ==
    /\ Call(t, "pop", t)
    /\ LoadOwnTail(t)
    /\ PopTest(t, pop_count[t], next_head[t])
    /\ UNCHANGED <<queueVars, free, old_head, count, carried, drainVars, itemVars>>

\* pop_count_and_head and push_count are loaded; on an empty queue: None.
Pop(t) ==
    /\ Call(t, "pop", t)
    /\ Short(TailOf(t)) # Short(next_head[t])
    /\ LoadOwnTail(t)
    /\ PopTest(t, pop_count[t], next_head[t])
    /\ UNCHANGED <<queueVars, free, old_head, count, carried, drainVars, itemVars>>

\* What a compare-exchange of pop_count_and_head compares.
SameWord(t, q) ==
    /\ Short(pop_count[q]) = Short(seen_pop[t])
    /\ Short(next_head[q]) = Short(seen_head[t])

PopCasOk(t) ==
    /\ pc[t] = "pop_cas"
    /\ SameWord(t, t)
    /\ pop_count' = [pop_count EXCEPT ![t] = seen_pop[t] + 1]
    /\ next_head' = [next_head EXCEPT ![t] = seen_head[t]]
    /\ Goto(t, "pop_read")
    /\ UNCHANGED <<push_count, head, buffer, dropped, localVars, drainVars, itemVars>>

\* Mutant: a pop that loses a race is taken for a pop on an empty queue.
MutPopCasFail(t) ==
    /\ pc[t] = "pop_cas"
    /\ ~ SameWord(t, t)
    /\ Return(t)
    /\ UNCHANGED <<queueVars, drainVars, itemVars>>

(* A failed compare-exchange reloads the word, keeps the tail and tests    *)
(* again.  (A spurious failure of the weak compare-exchange reloads what   *)
(* was there: no step of the model.)                                       *)
PopCasFail(t) ==
    /\ pc[t] = "pop_cas"
    /\ ~ SameWord(t, t)
    /\ \/ /\ Short(my_tail[t]) = Short(next_head[t])
          /\ Return(t)
       \/ /\ Short(my_tail[t]) # Short(next_head[t])
          /\ PopTest(t, seen_pop[t], next_head[t])
          /\ UNCHANGED <<op, victim, my_push, my_tail, free, old_head, count, carried>>
    /\ UNCHANGED <<queueVars, drainVars, itemVars>>

PopRead(t) ==
    /\ pc[t] = "pop_read"
    /\ out' = out \cup Read(buffer, t, my_tail[t] - 1, 1)
    /\ buffer' = MovedOut(buffer, t, my_tail[t] - 1, 1)
    /\ Return(t)
    /\ UNCHANGED <<push_count, wordVars, head, dropped, drainVars, created>>

-----------------------------------------------------------------------------
(* Stealer::steal, Stealer::steal_and_pop, Worker::drain *)

(* The free capacity of the destination, the own queue, limits the items   *)
(* to book; steal_and_pop hands one more to the caller.                    *)
Steal(t, v, name) ==
    /\ v \in Stealers[t] /\ name \in {"steal", "steal_and_pop"}
    /\ Call(t, name, v)
    /\ push_count[t] + Capacity[t] <= MaxAdvance
    /\ LoadOwnTail(t)
    /\ free' = [free EXCEPT ![t] =
          Capacity[t] - OwnLen(t) + (IF name = "steal_and_pop" THEN 1 ELSE 0)]
    /\ Goto(t, "load_word")
    /\ UNCHANGED <<queueVars, seenVars, old_head, count, carried, drainVars, itemVars>>

\* drain books with max_count = UnsignedShort::MAX.
DrainCall(t) ==
    /\ Call(t, "drain", t)
    /\ free' = [free EXCEPT ![t] = Modulus - 1]
    /\ Goto(t, "load_word")
    /\ UNCHANGED <<queueVars, my_push, my_tail, seenVars, old_head, count,
                   carried, drainVars, itemVars>>

(* book_items *)

LoadWord(t) ==
    /\ pc[t] = "load_word"
    /\ seen_pop' = [seen_pop EXCEPT ![t] = pop_count[victim[t]]]
    /\ seen_head' = [seen_head EXCEPT ![t] = next_head[victim[t]]]
    /\ Goto(t, "load_head")
    /\ UNCHANGED <<queueVars, op, victim, my_push, my_tail, free, old_head,
                   count, carried, drainVars, itemVars>>

\* Mutant: a steal in progress is not noticed.
MutLoadHead(t) ==
    /\ pc[t] = "load_head"
    /\ old_head' = [old_head EXCEPT ![t] = head[victim[t]]]
    /\ Goto(t, "load_push")
    /\ UNCHANGED <<queueVars, op, victim, my_push, my_tail, free, seenVars, count, carried,
                   drainVars, itemVars>>

\* `head` is loaded, once; if it differs from the head in the word: Busy.
LoadHead(t) ==
    /\ pc[t] = "load_head"
    /\ \/ /\ Short(head[victim[t]]) # Short(seen_head[t])
          /\ Return(t)
       \/ /\ Short(head[victim[t]]) = Short(seen_head[t])
          /\ old_head' = [old_head EXCEPT ![t] = head[victim[t]]]
          /\ Goto(t, "load_push")
          /\ UNCHANGED <<op, victim, my_push, my_tail, free, seenVars, count, carried>>
    /\ UNCHANGED <<queueVars, drainVars, itemVars>>

\* Mutant: an item is left out.
MutItemCount(t) ==
    WrappingSub(WrappingSub(push_count[victim[t]], seen_pop[t]), seen_head[t] + 1)

\* The number of items the loaded counters promise.
ItemCount(t) ==
    WrappingSub(WrappingSub(push_count[victim[t]], seen_pop[t]), seen_head[t])

(* push_count is loaded and count_fn called: n, its result cut down to     *)
(* max_count and to the item count, may be anything in that range.         *)
LoadPush(t, n) ==
    /\ pc[t] = "load_push"
    /\ n \in 0 .. Least(ItemCount(t), free[t])
    /\ \/ /\ n = 0
          /\ Return(t)
       \/ /\ n > 0
          /\ count' = [count EXCEPT ![t] = n]
          /\ Goto(t, "book")
          /\ UNCHANGED <<op, victim, my_push, my_tail, free, seenVars, old_head, carried>>
    /\ UNCHANGED <<queueVars, drainVars, itemVars>>

(* The compare-exchange that books the items.  A drain returns its         *)
(* iterator, a steal goes on to copy.                                      *)
BookOk(t) ==
    /\ pc[t] = "book"
    /\ SameWord(t, victim[t])
    /\ pop_count' = [pop_count EXCEPT ![victim[t]] = seen_pop[t]]
    /\ next_head' = [next_head EXCEPT ![victim[t]] = seen_head[t] + count[t]]
    /\ \/ /\ op[t] = "drain"
          /\ draining' = [draining EXCEPT ![t] = "active"]
          /\ drain_current' = [drain_current EXCEPT ![t] = seen_head[t]]
          /\ drain_end' = [drain_end EXCEPT ![t] = seen_head[t] + count[t]]
          /\ Return(t)
       \/ /\ op[t] # "drain"
          /\ Goto(t, "copy")
          /\ UNCHANGED <<localVars, drainVars>>
    /\ UNCHANGED <<push_count, head, buffer, dropped, itemVars>>

(* A failed compare-exchange goes round the loop with the word it found    *)
(* and the `head` loaded at the start.                                     *)
BookFail(t) ==
    /\ pc[t] = "book"
    /\ ~ SameWord(t, victim[t])
    /\ \/ /\ Short(old_head[t]) # Short(next_head[victim[t]])
          /\ Return(t)
       \/ /\ Short(old_head[t]) = Short(next_head[victim[t]])
          /\ seen_pop' = [seen_pop EXCEPT ![t] = pop_count[victim[t]]]
          /\ seen_head' = [seen_head EXCEPT ![t] = next_head[victim[t]]]
          /\ count' = [count EXCEPT ![t] = 0]
          /\ Goto(t, "load_push")
          /\ UNCHANGED <<op, victim, my_push, my_tail, free, old_head, carried>>
    /\ UNCHANGED <<queueVars, drainVars, itemVars>>

\* Mutant: the item that steal_and_pop returns goes to the destination too.
MutTransferCount(t) == count[t]

(* The items that go to the destination; steal_and_pop keeps the last one  *)
(* it booked for its caller.                                               *)
TransferCount(t) == IF op[t] = "steal_and_pop" THEN count[t] - 1 ELSE count[t]

\* Mutant: the items arrive newest first.
MutCopy(t) ==
    /\ pc[t] = "copy"
    /\ LET v == victim[t]
           n == TransferCount(t)
           items == Items(buffer, v, seen_head[t], n)
       IN  /\ buffer' = Written(MovedOut(buffer, v, seen_head[t], count[t]), t, my_tail[t],
                               [k \in 0 .. n - 1 |-> items[n - 1 - k]])
           /\ out' = out \cup Read(buffer, v, seen_head[t] + n, count[t] - n)
    /\ Goto(t, "publish_dest")
    /\ UNCHANGED <<push_count, wordVars, head, dropped, localVars, drainVars, created>>

(* transfer_items (module Transfer has its chunks) and the read of the     *)
(* last item.  By SlotContract nobody else touches these slots meanwhile,  *)
(* so one step is enough.                                                  *)
Copy(t) ==
    /\ pc[t] = "copy"
    /\ LET v == victim[t]
           n == TransferCount(t)
       IN  /\ buffer' = Written(MovedOut(buffer, v, seen_head[t], count[t]),
                               t, my_tail[t], Items(buffer, v, seen_head[t], n))
           /\ out' = out \cup Read(buffer, v, seen_head[t] + n, count[t] - n)
    /\ Goto(t, "publish_dest")
    /\ UNCHANGED <<push_count, wordVars, head, dropped, localVars, drainVars, created>>

\* The moved items become visible in the destination ...
PublishDest(t) ==
    /\ pc[t] = "publish_dest"
    /\ Recent(t, TransferCount(t))
    /\ push_count' = [push_count EXCEPT ![t] = my_push[t] + TransferCount(t)]
    /\ Goto(t, "commit")
    /\ UNCHANGED <<wordVars, head, buffer, dropped, localVars, drainVars, itemVars>>

\* ... and only then does the source give up the slots.
Commit(t) ==
    /\ pc[t] = "commit"
    /\ head' = [head EXCEPT ![victim[t]] = seen_head[t] + count[t]]
    /\ Return(t)
    /\ UNCHANGED <<push_count, wordVars, buffer, dropped, drainVars, itemVars>>

-----------------------------------------------------------------------------
(* The iterator Drain.  It is Send: it moves on concurrently with the      *)
(* owner.  Dropping it calls next until it is exhausted.                   *)

DrainNext(q) ==
    /\ draining[q] = "active"
    /\ Short(drain_current[q]) # Short(drain_end[q])
    /\ out' = out \cup Read(buffer, q, drain_current[q], 1)
    /\ buffer' = MovedOut(buffer, q, drain_current[q], 1)
    /\ drain_current' = [drain_current EXCEPT ![q] = @ + 1]
    /\ UNCHANGED <<push_count, wordVars, head, dropped, threadVars, draining,
                   drain_end, created>>

\* The call of next that reads the last item goes on to store `head`.
DrainCommit(q) ==
    /\ draining[q] = "active"
    /\ Short(drain_current[q]) = Short(drain_end[q])
    /\ head' = [head EXCEPT ![q] = drain_end[q]]
    /\ draining' = [draining EXCEPT ![q] = "no"]
    /\ drain_current' = [drain_current EXCEPT ![q] = 0]
    /\ drain_end' = [drain_end EXCEPT ![q] = 0]
    /\ UNCHANGED <<push_count, wordVars, buffer, dropped, threadVars, itemVars>>

\* mem::forget, before the last item is read: no destructor runs.
DrainLeak(q) ==
    /\ AllowLeak
    /\ draining[q] = "active"
    /\ Short(drain_current[q]) # Short(drain_end[q])
    /\ draining' = [draining EXCEPT ![q] = "leaked"]
    /\ UNCHANGED <<queueVars, threadVars, drain_current, drain_end, itemVars>>

-----------------------------------------------------------------------------
(* The last handle of q goes: Queue::drop releases the items from `head`   *)
(* to the tail.  A handle in use, or a Drain, keeps the queue alive.       *)
Drop(q) ==
    /\ "drop" \in Ops[q]
    /\ q \notin dropped
    /\ pc[q] = "idle"
    /\ \A t \in Workers : pc[t] # "idle" => victim[t] # q
    /\ draining[q] # "active"
    /\ dropped' = dropped \cup {q}
    /\ out' = out \cup Read(buffer, q, head[q], OwnLen(q))
    /\ buffer' = MovedOut(buffer, q, head[q], OwnLen(q))
    /\ UNCHANGED <<push_count, wordVars, head, threadVars, drainVars, created>>

Step(t) ==
    \/ Push(t)
    \/ \E n \in 0 .. MaxCreated : Extend(t, n)
    \/ Write(t)
    \/ Publish(t)
    \/ Pop(t)
    \/ PopCasOk(t)
    \/ PopCasFail(t)
    \/ PopRead(t)
    \/ \E v \in Workers, name \in OpNames : Steal(t, v, name)
    \/ DrainCall(t)
    \/ LoadWord(t)
    \/ LoadHead(t)
    \/ \E n \in 0 .. Modulus - 1 : LoadPush(t, n)
    \/ BookOk(t)
    \/ BookFail(t)
    \/ Copy(t)
    \/ PublishDest(t)
    \/ Commit(t)
    \/ DrainNext(t)
    \/ DrainCommit(t)
    \/ DrainLeak(t)
    \/ Drop(t)

Next == \E t \in Workers : Step(t)

Spec == Init /\ [][Next]_vars
-----------------------------------------------------------------------------
(* Properties *)

(* The comments of book_items, push and steal rest on this: the head never *)
(* overtakes the booked head, nor that one the tail ("the computed tail is *)
(* not less than the head"), and the occupied slots, those still being     *)
(* copied by a thief included, never exceed the capacity.                  *)
PositionsOrdered ==
    \A q \in Workers :
        /\ head[q] <= next_head[q]
        /\ next_head[q] <= TailOf(q)
        /\ TailOf(q) <= head[q] + Capacity[q]

Stealing(t) == pc[t] \in {"copy", "publish_dest", "commit"}

(* "Only one stealer can succeed": at most one steal or drain works on a   *)
(* queue, and the two heads differ exactly while there is one, so Busy is  *)
(* never reported for ever once every thief has returned.                  *)
OneThief ==
    \A q \in Workers :
        LET thieves == {t \in Workers : Stealing(t) /\ victim[t] = q}
        IN  /\ \A t, u \in thieves : t = u
            /\ thieves # {} => draining[q] = "no"
            /\ head[q] # next_head[q] <=> thieves # {} \/ draining[q] # "no"

\* The slots of q that the next step of thread t, or of the Drain of q, moves from.
ThreadReads(t, q) ==
    CASE pc[t] = "pop_read" /\ t = q -> Slots(q, my_tail[t] - 1, 1)
      [] pc[t] = "copy" /\ victim[t] = q -> Slots(q, seen_head[t], count[t])
      [] OTHER -> {}

DrainReads(q) ==
    IF draining[q] = "active"
    THEN Slots(q, drain_current[q], drain_end[q] - drain_current[q])
    ELSE {}

\* The slots of its own queue that the next step of t writes.
ThreadWrites(t) ==
    CASE pc[t] = "write" -> Slots(t, my_tail[t], count[t])
      [] pc[t] = "copy" -> Slots(t, my_tail[t], TransferCount(t))
      [] OTHER -> {}

(* The contract of read_at and write_at: what is read was initialized and  *)
(* not moved out, what is written holds no item that would be leaked, and  *)
(* no two threads access one slot concurrently.                            *)
SlotContract ==
    \A q \in Workers :
        /\ \A t \in Workers : \A i \in ThreadReads(t, q) : buffer[q][i] # Vacant
        /\ \A i \in DrainReads(q) : buffer[q][i] # Vacant
        /\ \A i \in ThreadWrites(q) : buffer[q][i] = Vacant
        /\ \A t \in Workers :
              /\ ThreadReads(t, q) \cap (DrainReads(q) \cup ThreadWrites(q)) = {}
              /\ \A u \in Workers \ {t} : ThreadReads(t, q) \cap ThreadReads(u, q) = {}

Stored == (UNION {{buffer[q][i] : i \in DOMAIN buffer[q]} : q \in Workers}) \ {Vacant}

Carried == UNION {carried[t] + 1 .. carried[t] + count[t] :
                     t \in {u \in Workers : pc[u] = "write"}}

(* Every item given to push or extend is on its way to its slot, in exactly *)
(* one slot, or was handed out, once; what was never an item is never       *)
(* handed out; a queue that is gone kept none.                              *)
ExactlyOnce ==
    /\ out \cup Stored \cup Carried = 1 .. created
    /\ out \cap Stored = {} /\ (out \cup Stored) \cap Carried = {}
    /\ \A p, q \in Workers : \A i \in DOMAIN buffer[p], j \in DOMAIN buffer[q] :
          buffer[p][i] = buffer[q][j] /\ buffer[p][i] # Vacant => p = q /\ i = j
    /\ \A q \in dropped : \A i \in DOMAIN buffer[q] : buffer[q][i] = Vacant

(* read_at's safety section: "The item at the given position must have     *)
(* been initialized before and cannot have been moved out".                *)
NothingReadTwice == Vacant \notin out

(* steal and drain report Empty because of the queue (not of count_fn or   *)
(* of a full destination) only when it is empty at that very moment,       *)
(* although the counters that say so were loaded one after the other.      *)
EmptyIsTrue ==
    [][\A t \in Workers :
          pc[t] = "load_push" /\ pc'[t] = "idle" /\ ItemCount(t) = 0
            => next_head[victim[t]] = TailOf(victim[t])]_vars

(* pop gives up only when a thief has booked everything: an item that is   *)
(* still in the queue when its owner pops is popped, whatever is retried.  *)
PopFailsOnlyEmpty ==
    [][\A t \in Workers :
          pc[t] = "pop_cas" /\ pc'[t] = "idle" => next_head[t] = TailOf(t)]_vars

(* Drain, "Leaking": "subsequent stealing operations will permanently fail *)
(* with Busy": once a Drain is leaked no booking succeeds and the slots it *)
(* holds are never given back.                                             *)
LeakedStaysBusy ==
    [][\A q \in Workers :
          draining[q] = "leaked" =>
              /\ draining'[q] = "leaked"
              /\ next_head'[q] = next_head[q]
              /\ head'[q] = head[q]]_vars
=============================================================================
