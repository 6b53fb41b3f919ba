-------------------------- MODULE FifoQueue_proofs --------------------------
(* Safety of the FIFO queue, and its refinement of StealDeques: positions,  *)
(* slots and items, for any number of workers, any capacities and any width *)
(* of the counters.                                                         *)
EXTENDS FifoQueue, FifoRefinement, RingTheorems

(* Every type but those of the slots and of the items. *)
CounterTypes ==
    /\ worker_head \in [Workers -> Nat] /\ stealer_head \in [Workers -> Nat]
    /\ tail \in [Workers -> Nat]
    /\ pc \in [Workers -> {"idle", "write", "publish", "pop_cas", "pop_read",
                           "load_heads", "load_tail", "book", "copy",
                           "publish_dest", "load_commit", "commit"}]
    /\ op \in [Workers -> OpNames \cup {"none"}]
    /\ victim \in [Workers -> Workers]
    /\ my_tail \in [Workers -> Nat] /\ free \in [Workers -> Nat]
    /\ seen_worker \in [Workers -> Nat] /\ seen_stealer \in [Workers -> Nat]
    /\ from \in [Workers -> Nat] /\ count \in [Workers -> Nat]
    /\ carried \in [Workers -> Nat]
    /\ draining \in [Workers -> {"no", "active", "loaded", "leaked"}]
    /\ drain_head \in [Workers -> Nat] /\ drain_to \in [Workers -> Nat]
    /\ drain_seen \in [Workers -> Nat]
    /\ created \in Nat

Ordered(q) ==
    /\ stealer_head[q] <= worker_head[q]
    /\ worker_head[q] <= tail[q]
    /\ tail[q] <= stealer_head[q] + Capacity[q]

(* A thread that is going to write to its queue still knows its tail, and  *)
(* the room it computed can only have grown.                               *)
Looking == {"load_heads", "load_tail", "book"}

KnowsTail(t) ==
    /\ \/ pc[t] \in {"write", "publish", "copy", "publish_dest"}
       \/ (pc[t] \in Looking /\ op[t] # "drain")
       => my_tail[t] = tail[t]
    /\ pc[t] \in {"write", "publish"}
         => tail[t] + count[t] <= stealer_head[t] + Capacity[t]
    /\ pc[t] \in Looking /\ op[t] = "steal"
         => tail[t] + free[t] <= stealer_head[t] + Capacity[t]
    /\ pc[t] \in Looking /\ op[t] = "steal_and_pop"
         => tail[t] + free[t] <= stealer_head[t] + Capacity[t] + 1
    /\ pc[t] \in {"copy", "publish_dest"}
         => tail[t] + TransferCount(t) <= stealer_head[t] + Capacity[t]

(* What a popping owner saw is at most as old as its call. *)
PopSaw(t) ==
    pc[t] = "pop_cas" =>
        /\ seen_worker[t] <= worker_head[t] /\ seen_stealer[t] <= stealer_head[t]
        /\ seen_stealer[t] <= seen_worker[t] /\ seen_worker[t] < tail[t]
        /\ tail[t] <= seen_stealer[t] + Capacity[t]

(* What a thief saw was true at some moment, not a cycle ago, and there    *)
(* was no other thief then.                                                *)
ThiefSaw(t) ==
    LET v == victim[t] IN
    /\ pc[t] \in Looking
         => op[t] \in {"steal", "steal_and_pop", "drain"} /\ (op[t] = "drain" => v = t)
    /\ pc[t] \in Booking =>
         /\ seen_worker[t] = seen_stealer[t]
         /\ seen_worker[t] <= worker_head[v] /\ seen_stealer[t] <= stealer_head[v]
         /\ tail[v] < seen_worker[t] + Modulus
    /\ pc[t] = "book" =>
         /\ count[t] >= 1 /\ count[t] <= free[t]
         /\ seen_worker[t] + count[t] <= tail[v]

(* A booking holds what lies behind the stealer head; pops move the worker *)
(* head further.  It holds it alone.                                       *)
Holds(t) ==
    LET v == victim[t] IN
    /\ Stealing(t) =>
        /\ op[t] \in {"steal", "steal_and_pop"} /\ count[t] >= 1
        /\ stealer_head[v] = from[t] /\ from[t] + count[t] <= worker_head[v]
        /\ draining[v] = "no"
    /\ pc[t] = "commit" =>
        /\ from[t] <= seen_worker[t] /\ seen_worker[t] <= worker_head[v]
        /\ seen_stealer[t] = from[t]

Alone ==
    \A t, u \in Workers : Stealing(t) /\ Stealing(u) /\ victim[t] = victim[u] => t = u

DrainHolds(q) ==
    /\ draining[q] # "no" =>
        /\ stealer_head[q] <= drain_head[q] /\ drain_head[q] <= drain_to[q]
        /\ stealer_head[q] < drain_to[q] /\ drain_to[q] <= worker_head[q]
    /\ draining[q] = "loaded" =>
        drain_to[q] <= drain_seen[q] /\ drain_seen[q] <= worker_head[q]

NoOrphan(q) ==
    stealer_head[q] # worker_head[q] =>
        draining[q] # "no" \/ \E t \in Workers : Stealing(t) /\ victim[t] = q

PositionInv ==
    /\ CounterTypes
    /\ \A q \in Workers : Ordered(q)
    /\ \A t \in Workers : KnowsTail(t)
    /\ \A t \in Workers : PopSaw(t)
    /\ \A t \in Workers : ThiefSaw(t)
    /\ \A t \in Workers : Holds(t)
    /\ Alone
    /\ \A q \in Workers : DrainHolds(q)
    /\ \A q \in Workers : NoOrphan(q)
-----------------------------------------------------------------------------
(* What the wrap-around arithmetic of each operation really computes. *)

(* The occupied length is never out of range: `capacity - len` cannot       *)
(* underflow in spare_capacity, steal and steal_and_pop.                    *)
LEMMA OwnLenExact ==
    ASSUME PositionInv, NEW t \in Workers
    PROVE  /\ OwnLen(t) = tail[t] - stealer_head[t]
           /\ OwnLen(t) \in 0 .. Capacity[t]
<1>1. /\ tail[t] \in Nat /\ stealer_head[t] \in Nat /\ worker_head[t] \in Nat
      /\ stealer_head[t] <= worker_head[t] /\ worker_head[t] <= tail[t]
      /\ tail[t] <= stealer_head[t] + Capacity[t]
  BY DEF PositionInv, CounterTypes, Ordered
<1>2. Capacity[t] \in Nat /\ Capacity[t] < Modulus /\ Modulus \in Nat
  BY CapacityFacts, CapacityAssumption
<1>3. 0 <= tail[t] - stealer_head[t] /\ tail[t] - stealer_head[t] < Modulus
  BY ONLY <1>1, <1>2
<1>4. OwnLen(t) = tail[t] - stealer_head[t]
  BY <1>1, <1>3, WrappingSubExact DEF OwnLen
<1> QED
  BY ONLY <1>1, <1>2, <1>4

(* extend's max_tail - tail is the room left. *)
LEMMA RoomExact ==
    ASSUME PositionInv, NEW t \in Workers
    PROVE  WrappingSub(stealer_head[t] + Capacity[t], tail[t])
             = stealer_head[t] + Capacity[t] - tail[t]
<1>1. /\ tail[t] \in Nat /\ stealer_head[t] \in Nat /\ worker_head[t] \in Nat
      /\ stealer_head[t] <= worker_head[t] /\ worker_head[t] <= tail[t]
      /\ tail[t] <= stealer_head[t] + Capacity[t]
  BY DEF PositionInv, CounterTypes, Ordered
<1>2. Capacity[t] \in Nat /\ Capacity[t] < Modulus /\ Modulus \in Nat
  BY CapacityFacts, CapacityAssumption
<1> QED
  BY <1>1, <1>2, WrappingSubExact

(* Two of the three positions of a queue are equal when their short values  *)
(* are: the Busy test and the tests for an empty queue.                     *)
LEMMA HeadsExact ==
    ASSUME PositionInv, NEW q \in Workers
    PROVE  /\ Short(stealer_head[q]) = Short(worker_head[q]) => stealer_head[q] = worker_head[q]
           /\ Short(tail[q]) = Short(worker_head[q]) => tail[q] = worker_head[q]
<1>1. /\ tail[q] \in Nat /\ stealer_head[q] \in Nat /\ worker_head[q] \in Nat
      /\ stealer_head[q] <= worker_head[q] /\ worker_head[q] <= tail[q]
      /\ tail[q] <= stealer_head[q] + Capacity[q]
  BY DEF PositionInv, CounterTypes, Ordered
<1>2. Capacity[q] \in Nat /\ Capacity[q] < Modulus /\ Modulus \in Nat
  BY CapacityFacts, CapacityAssumption
<1>3. /\ worker_head[q] - stealer_head[q] < Modulus /\ stealer_head[q] - worker_head[q] < Modulus
      /\ worker_head[q] - tail[q] < Modulus /\ tail[q] - worker_head[q] < Modulus
  BY ONLY <1>1, <1>2
<1>4. Short(stealer_head[q]) = Short(worker_head[q]) => stealer_head[q] = worker_head[q]
  BY <1>1, <1>3, ShortEqual
<1>5. Short(tail[q]) = Short(worker_head[q]) => tail[q] = worker_head[q]
  BY <1>1, <1>3, ShortEqual
<1> QED
  BY <1>4, <1>5

(* A successful compare-exchange of pop finds the heads it loaded, and its *)
(* test whether they are equal is exact too.                               *)
LEMMA PopCasExact ==
    ASSUME PositionInv, NEW t \in Workers, pc[t] = "pop_cas", SameHeads(t, t)
    PROVE  /\ worker_head[t] = seen_worker[t] /\ stealer_head[t] = seen_stealer[t]
           /\ Short(seen_stealer[t]) = Short(seen_worker[t])
                <=> seen_stealer[t] = seen_worker[t]
<1>1. /\ tail[t] \in Nat /\ stealer_head[t] \in Nat /\ worker_head[t] \in Nat
      /\ seen_worker[t] \in Nat /\ seen_stealer[t] \in Nat
      /\ stealer_head[t] <= worker_head[t] /\ worker_head[t] <= tail[t]
      /\ seen_worker[t] <= worker_head[t] /\ seen_stealer[t] <= stealer_head[t]
      /\ seen_stealer[t] <= seen_worker[t] /\ tail[t] <= seen_stealer[t] + Capacity[t]
  BY DEF PositionInv, CounterTypes, Ordered, PopSaw
<1>2. Capacity[t] \in Nat /\ Capacity[t] < Modulus /\ Modulus \in Nat
  BY CapacityFacts, CapacityAssumption
<1>3. /\ worker_head[t] - seen_worker[t] < Modulus /\ seen_worker[t] - worker_head[t] < Modulus
      /\ stealer_head[t] - seen_stealer[t] < Modulus /\ seen_stealer[t] - stealer_head[t] < Modulus
  BY ONLY <1>1, <1>2
<1>4. worker_head[t] = seen_worker[t]
  BY <1>1, <1>3, ShortEqual DEF SameHeads
<1>5. stealer_head[t] = seen_stealer[t]
  BY <1>1, <1>3, ShortEqual DEF SameHeads
<1> QED
  BY <1>4, <1>5, HeadsExact

(* What a thief knows of its victim while it is about to book. *)
LEMMA BookingFacts ==
    ASSUME PositionInv, NEW t \in Workers, NEW v \in Workers, v = victim[t], pc[t] \in Booking
    PROVE  /\ tail[v] \in Nat /\ stealer_head[v] \in Nat /\ worker_head[v] \in Nat
           /\ seen_worker[t] \in Nat /\ seen_stealer[t] = seen_worker[t]
           /\ stealer_head[v] <= worker_head[v] /\ worker_head[v] <= tail[v]
           /\ seen_worker[t] <= stealer_head[v]
           /\ tail[v] < seen_worker[t] + Modulus /\ Modulus \in Nat
  BY CapacityAssumption DEF PositionInv, CounterTypes, Ordered, ThiefSaw

(* The item count a thief computes is the difference of the tail and the    *)
(* head it loaded, even when they do not belong to one moment.              *)
LEMMA ItemCountExact ==
    ASSUME PositionInv, NEW t \in Workers, pc[t] = "load_tail"
    PROVE  /\ ItemCount(t) = tail[victim[t]] - seen_worker[t]
           /\ ItemCount(t) \in 0 .. Modulus - 1
<1> DEFINE v == victim[t]
<1>1. v \in Workers
  BY DEF PositionInv, CounterTypes
<1> HIDE DEF v
<1>2. /\ tail[v] \in Nat /\ stealer_head[v] \in Nat /\ worker_head[v] \in Nat
      /\ seen_worker[t] \in Nat
      /\ stealer_head[v] <= worker_head[v] /\ worker_head[v] <= tail[v]
      /\ seen_worker[t] <= stealer_head[v]
      /\ tail[v] < seen_worker[t] + Modulus /\ Modulus \in Nat
  BY <1>1, BookingFacts DEF v, Booking
<1>3. 0 <= tail[v] - seen_worker[t] /\ tail[v] - seen_worker[t] < Modulus
  BY ONLY <1>2
<1>4. ItemCount(t) = tail[v] - seen_worker[t]
  BY <1>2, <1>3, WrappingSubExact DEF ItemCount, v
<1>5. ItemCount(t) \in 0 .. Modulus - 1
  BY ONLY <1>2, <1>3, <1>4
<1> QED
  BY <1>4, <1>5 DEF v

(* The compare-exchange of book_items succeeds only on heads that are still *)
(* the current ones, with no other steal in progress.                       *)
LEMMA BookExact ==
    ASSUME PositionInv, NEW t \in Workers, pc[t] = "book", SameHeads(t, victim[t])
    PROVE  /\ worker_head[victim[t]] = seen_worker[t]
           /\ stealer_head[victim[t]] = seen_worker[t]
           /\ seen_stealer[t] = seen_worker[t]
<1> DEFINE v == victim[t]
<1>1. v \in Workers
  BY DEF PositionInv, CounterTypes
<1> HIDE DEF v
<1>2. /\ tail[v] \in Nat /\ stealer_head[v] \in Nat /\ worker_head[v] \in Nat
      /\ seen_worker[t] \in Nat /\ seen_stealer[t] = seen_worker[t]
      /\ stealer_head[v] <= worker_head[v] /\ worker_head[v] <= tail[v]
      /\ seen_worker[t] <= stealer_head[v]
      /\ tail[v] < seen_worker[t] + Modulus /\ Modulus \in Nat
  BY <1>1, BookingFacts DEF v, Booking
<1>3. worker_head[v] - seen_worker[t] < Modulus /\ seen_worker[t] - worker_head[v] < Modulus
  BY ONLY <1>2
<1>4. Short(worker_head[v]) = Short(seen_worker[t])
  BY DEF SameHeads, v
<1>5. worker_head[v] = seen_worker[t]
  BY <1>2, <1>3, <1>4, ShortEqual
<1>6. stealer_head[v] = seen_worker[t]
  BY ONLY <1>2, <1>5
<1> QED
  BY <1>2, <1>5, <1>6 DEF v

(* The completing compare-exchange of a steal, likewise. *)
LEMMA CommitExact ==
    ASSUME PositionInv, NEW t \in Workers, pc[t] = "commit", SameHeads(t, victim[t])
    PROVE  /\ worker_head[victim[t]] = seen_worker[t]
           /\ stealer_head[victim[t]] <= seen_worker[t]
<1> DEFINE v == victim[t]
<1>1. v \in Workers
  BY DEF PositionInv, CounterTypes
<1> HIDE DEF v
<1>2. /\ tail[v] \in Nat /\ stealer_head[v] \in Nat /\ worker_head[v] \in Nat
      /\ seen_worker[t] \in Nat /\ from[t] \in Nat
      /\ stealer_head[v] <= worker_head[v] /\ worker_head[v] <= tail[v]
      /\ tail[v] <= stealer_head[v] + Capacity[v]
      /\ from[t] <= seen_worker[t] /\ seen_worker[t] <= worker_head[v]
      /\ stealer_head[v] = from[t]
  BY <1>1 DEF PositionInv, CounterTypes, Ordered, Holds, Stealing, v
<1>3. Capacity[v] \in Nat /\ Capacity[v] < Modulus /\ Modulus \in Nat
  BY <1>1, CapacityFacts, CapacityAssumption
<1>4. worker_head[v] - seen_worker[t] < Modulus /\ seen_worker[t] - worker_head[v] < Modulus
  BY ONLY <1>2, <1>3
<1>5. Short(worker_head[v]) = Short(seen_worker[t])
  BY DEF SameHeads, v
<1>6. worker_head[v] = seen_worker[t]
  BY <1>2, <1>4, <1>5, ShortEqual
<1> QED
  BY <1>2, <1>6 DEF v

(* The iterator Drain ends at its last item, and its completion finds the  *)
(* worker head it loaded.                                                  *)
LEMMA DrainExact ==
    ASSUME PositionInv, NEW q \in Workers
    PROVE  /\ draining[q] = "active" /\ Short(drain_head[q]) = Short(drain_to[q])
                => drain_head[q] = drain_to[q]
           /\ draining[q] = "loaded" /\ Short(worker_head[q]) = Short(drain_seen[q])
                => worker_head[q] = drain_seen[q]
<1>1. /\ tail[q] \in Nat /\ stealer_head[q] \in Nat /\ worker_head[q] \in Nat
      /\ drain_head[q] \in Nat /\ drain_to[q] \in Nat /\ drain_seen[q] \in Nat
      /\ worker_head[q] <= tail[q] /\ tail[q] <= stealer_head[q] + Capacity[q]
      /\ draining[q] # "no" => stealer_head[q] <= drain_head[q] /\ drain_head[q] <= drain_to[q]
                               /\ drain_to[q] <= worker_head[q]
      /\ draining[q] = "loaded" => drain_to[q] <= drain_seen[q] /\ drain_seen[q] <= worker_head[q]
  BY DEF PositionInv, CounterTypes, Ordered, DrainHolds
<1>2. Capacity[q] \in Nat /\ Capacity[q] < Modulus /\ Modulus \in Nat
  BY CapacityFacts, CapacityAssumption
<1>3. ASSUME draining[q] = "active", Short(drain_head[q]) = Short(drain_to[q])
      PROVE  drain_head[q] = drain_to[q]
  <2>1. drain_head[q] - drain_to[q] < Modulus /\ drain_to[q] - drain_head[q] < Modulus
    BY <1>1, <1>2, <1>3
  <2> QED
    BY <1>1, <1>3, <2>1, ShortEqual
<1>4. ASSUME draining[q] = "loaded", Short(worker_head[q]) = Short(drain_seen[q])
      PROVE  worker_head[q] = drain_seen[q]
  <2>1. worker_head[q] - drain_seen[q] < Modulus /\ drain_seen[q] - worker_head[q] < Modulus
    BY <1>1, <1>2, <1>4
  <2> QED
    BY <1>1, <1>4, <2>1, ShortEqual
<1> QED
  BY <1>3, <1>4
-----------------------------------------------------------------------------

(* The invariant holds initially. *)
LEMMA InitPositionInv == Init => PositionInv
<1> SUFFICES ASSUME Init PROVE PositionInv
  OBVIOUS
<1>1. tail \in [Workers -> Nat] /\ worker_head = tail /\ stealer_head = tail
  BY ClientAssumption DEF Init
<1>2. CounterTypes
  BY <1>1 DEF Init, CounterTypes, Zero
<1>3. ASSUME NEW q \in Workers PROVE Ordered(q) /\ NoOrphan(q) /\ DrainHolds(q)
  <2>1. /\ tail[q] \in Nat /\ worker_head[q] = tail[q] /\ stealer_head[q] = tail[q]
        /\ Capacity[q] \in Nat /\ draining[q] = "no"
    BY <1>1, CapacityFacts DEF Init
  <2> QED
    BY <2>1 DEF Ordered, NoOrphan, DrainHolds
<1>4. \A t \in Workers : KnowsTail(t) /\ PopSaw(t) /\ ThiefSaw(t) /\ Holds(t) /\ ~ Stealing(t)
  BY DEF Init, KnowsTail, PopSaw, ThiefSaw, Holds, Stealing, Looking, Booking
<1>5. Alone
  BY <1>4 DEF Alone
<1> QED
  BY <1>2, <1>3, <1>4, <1>5 DEF PositionInv

(* A call that returns without a booking leaves the invariant alone. *)
LEMMA ReturnPositionInv ==
    ASSUME PositionInv, NEW t \in Workers, ~ Stealing(t), Return(t),
           UNCHANGED <<headsVars, tail, drainVars, created>>
    PROVE  PositionInv'
<1> USE DEF Return, Goto, headsVars, drainVars
<1>1. CounterTypes'
  BY DEF PositionInv, CounterTypes
<1>2. \A q \in Workers : Ordered(q)' /\ DrainHolds(q)'
  BY DEF PositionInv, Ordered, DrainHolds
<1>3. ASSUME NEW u \in Workers
      PROVE  KnowsTail(u)' /\ PopSaw(u)' /\ ThiefSaw(u)' /\ Holds(u)'
  <2>1. CASE u = t
    BY <2>1 DEF PositionInv, CounterTypes, KnowsTail, PopSaw, ThiefSaw, Holds,
                Looking, Booking, Stealing
  <2>2. CASE u # t
    BY <2>2 DEF PositionInv, CounterTypes, KnowsTail, PopSaw, ThiefSaw, Holds,
                Looking, Booking, Stealing, TransferCount
  <2> QED
    BY <2>1, <2>2
<1>4. \A u \in Workers : Stealing(u)' => Stealing(u) /\ u # t
  BY DEF PositionInv, CounterTypes, Stealing
<1>5. \A u \in Workers : u # t => victim'[u] = victim[u] /\ (Stealing(u)' <=> Stealing(u))
  BY DEF PositionInv, CounterTypes, Stealing
<1>6. Alone'
  BY <1>4, <1>5 DEF PositionInv, Alone
<1>7. \A q \in Workers : NoOrphan(q)'
  BY <1>4, <1>5 DEF PositionInv, NoOrphan
<1> QED
  BY <1>1, <1>2, <1>3, <1>6, <1>7 DEF PositionInv

(* Every step preserves it. *)
LEMMA NextPositionInv == PositionInv /\ [Next]_vars => PositionInv'
<1> SUFFICES ASSUME PositionInv, [Next]_vars PROVE PositionInv'
  OBVIOUS
<1> USE CapacityFacts, CapacityAssumption
<1> USE DEF PositionInv, CounterTypes, Ordered, KnowsTail, PopSaw, ThiefSaw,
            Holds, Alone, DrainHolds, NoOrphan, Looking, Booking, Stealing
<1> USE DEF Goto, OpNames, TransferCount, headsVars, queueVars, seenVars,
            localVars, threadVars, drainVars, itemVars
<1>1. ASSUME NEW t \in Workers, Push(t) PROVE PositionInv'
  <2>1. /\ pc[t] = "idle" /\ pc' = [pc EXCEPT ![t] = "write"]
        /\ op' = [op EXCEPT ![t] = "push"] /\ victim' = [victim EXCEPT ![t] = t]
        /\ my_tail' = [my_tail EXCEPT ![t] = tail[t]]
        /\ count' = [count EXCEPT ![t] = 1]
        /\ carried' = [carried EXCEPT ![t] = created] /\ created' = created + 1
        /\ tail[t] + 1 <= stealer_head[t] + Capacity[t]
        /\ UNCHANGED <<worker_head, stealer_head, tail, free, seen_worker,
                    seen_stealer, from, draining, drain_head, drain_to, drain_seen>>
    BY <1>1, OwnLenExact DEF Push, Call, LoadOwnTail, Carry
  <2>2. CounterTypes'
    BY <2>1
  <2>3. \A q \in Workers : Ordered(q)'
    BY <2>1
  <2>4. \A u \in Workers : KnowsTail(u)'
    BY <2>1
  <2>5. \A u \in Workers : PopSaw(u)'
    BY <2>1
  <2>6. \A u \in Workers : ThiefSaw(u)'
    BY <2>1
  <2>7. \A u \in Workers : Holds(u)'
    BY <2>1
  <2>8. Alone'
    BY <2>1
  <2>9. \A q \in Workers : DrainHolds(q)'
    BY <2>1
  <2>10. \A q \in Workers : NoOrphan(q)'
    <3>1. \A u \in Workers : (Stealing(u)' <=> Stealing(u)) /\ (Stealing(u) => victim'[u] = victim[u])
      BY <2>1
    <3> HIDE DEF Stealing
    <3> QED
      BY <2>1, <3>1
  <2> QED
    BY <2>2, <2>3, <2>4, <2>5, <2>6, <2>7, <2>8, <2>9, <2>10
<1>2. ASSUME NEW t \in Workers, NEW n \in Nat, Extend(t, n) PROVE PositionInv'
  <2> DEFINE m == Least(n, WrappingSub(stealer_head[t] + Capacity[t], tail[t]))
  <2>1. /\ pc[t] = "idle" /\ pc' = [pc EXCEPT ![t] = "write"]
        /\ op' = [op EXCEPT ![t] = "extend"] /\ victim' = [victim EXCEPT ![t] = t]
        /\ my_tail' = [my_tail EXCEPT ![t] = tail[t]]
        /\ count' = [count EXCEPT ![t] = m]
        /\ carried' = [carried EXCEPT ![t] = created] /\ created' = created + m
        /\ UNCHANGED <<queueVars, free, seenVars, from, drainVars>>
    BY <1>2 DEF Extend, Call, LoadOwnTail, Carry
  <2>2. m \in Nat /\ tail[t] + m <= stealer_head[t] + Capacity[t]
    <3>1. m = Least(n, stealer_head[t] + Capacity[t] - tail[t])
      BY ONLY PositionInv, t \in Workers, RoomExact
    <3>2. /\ stealer_head[t] \in Nat /\ Capacity[t] \in Nat /\ tail[t] \in Nat
          /\ tail[t] <= stealer_head[t] + Capacity[t]
      OBVIOUS
    <3> HIDE DEF m
    <3> QED
      BY ONLY <3>1, <3>2, n \in Nat DEF Least
  <2> HIDE DEF m
  <2>3. CounterTypes'
    BY <2>1, <2>2
  <2>4. \A q \in Workers : Ordered(q)'
    BY <2>1, <2>2
  <2>5. \A u \in Workers : KnowsTail(u)'
    BY <2>1, <2>2
  <2>6. \A u \in Workers : PopSaw(u)'
    BY <2>1, <2>2
  <2>7. \A u \in Workers : ThiefSaw(u)'
    BY <2>1, <2>2
  <2>8. \A u \in Workers : Holds(u)'
    BY <2>1, <2>2
  <2>9. Alone'
    BY <2>1, <2>2
  <2>10. \A q \in Workers : DrainHolds(q)'
    BY <2>1, <2>2
  <2>11. \A q \in Workers : NoOrphan(q)'
    <3>1. \A u \in Workers : (Stealing(u)' <=> Stealing(u)) /\ (Stealing(u) => victim'[u] = victim[u])
      BY <2>1
    <3> HIDE DEF Stealing
    <3> QED
      BY <2>1, <3>1
  <2> QED
    BY <2>3, <2>4, <2>5, <2>6, <2>7, <2>8, <2>9, <2>10, <2>11
<1>3. ASSUME NEW t \in Workers, Write(t) PROVE PositionInv'
  <2>1. /\ pc[t] = "write" /\ pc' = [pc EXCEPT ![t] = "publish"]
        /\ UNCHANGED <<worker_head, stealer_head, tail, op, victim, my_tail, free,
                    seen_worker, seen_stealer, from, count, carried, draining, drain_head,
                    drain_to, drain_seen, created>>
    BY <1>3 DEF Write
  <2>2. CounterTypes'
    BY <2>1
  <2>3. \A q \in Workers : Ordered(q)'
    BY <2>1
  <2>4. \A u \in Workers : KnowsTail(u)'
    BY <2>1
  <2>5. \A u \in Workers : PopSaw(u)'
    BY <2>1
  <2>6. \A u \in Workers : ThiefSaw(u)'
    BY <2>1
  <2>7. \A u \in Workers : Holds(u)'
    BY <2>1
  <2>8. Alone'
    BY <2>1
  <2>9. \A q \in Workers : DrainHolds(q)'
    BY <2>1
  <2>10. \A q \in Workers : NoOrphan(q)'
    <3>1. \A u \in Workers : (Stealing(u)' <=> Stealing(u)) /\ (Stealing(u) => victim'[u] = victim[u])
      BY <2>1
    <3> HIDE DEF Stealing
    <3> QED
      BY <2>1, <3>1
  <2> QED
    BY <2>2, <2>3, <2>4, <2>5, <2>6, <2>7, <2>8, <2>9, <2>10
<1>4. ASSUME NEW t \in Workers, Publish(t) PROVE PositionInv'
  BY <1>4 DEF Publish, Recent, Return
<1>5. ASSUME NEW t \in Workers, Pop(t) PROVE PositionInv'
  <2>1. /\ pc[t] = "idle" /\ pc' = [pc EXCEPT ![t] = "pop_cas"]
        /\ op' = [op EXCEPT ![t] = "pop"] /\ victim' = [victim EXCEPT ![t] = t]
        /\ my_tail' = [my_tail EXCEPT ![t] = tail[t]]
        /\ seen_worker' = [seen_worker EXCEPT ![t] = worker_head[t]]
        /\ seen_stealer' = [seen_stealer EXCEPT ![t] = stealer_head[t]]
        /\ tail[t] # worker_head[t]
        /\ UNCHANGED <<queueVars, free, from, count, carried, drainVars, created>>
    BY <1>5 DEF Pop, Call, LoadOwnTail, See, Short
  <2>2. worker_head[t] < tail[t]
    <3>1. worker_head[t] \in Nat /\ tail[t] \in Nat /\ worker_head[t] <= tail[t]
      OBVIOUS
    <3>2. tail[t] # worker_head[t]
      BY <2>1
    <3> QED
      BY ONLY <3>1, <3>2
  <2>3. CounterTypes'
    BY <2>1, <2>2
  <2>4. \A q \in Workers : Ordered(q)'
    BY <2>1, <2>2
  <2>5. \A u \in Workers : KnowsTail(u)'
    BY <2>1, <2>2
  <2>6. \A u \in Workers : PopSaw(u)'
    BY <2>1, <2>2
  <2>7. \A u \in Workers : ThiefSaw(u)'
    BY <2>1, <2>2
  <2>8. \A u \in Workers : Holds(u)'
    BY <2>1, <2>2
  <2>9. Alone'
    BY <2>1, <2>2
  <2>10. \A q \in Workers : DrainHolds(q)'
    BY <2>1, <2>2
  <2>11. \A q \in Workers : NoOrphan(q)'
    <3>1. \A u \in Workers : (Stealing(u)' <=> Stealing(u)) /\ (Stealing(u) => victim'[u] = victim[u])
      BY <2>1
    <3> HIDE DEF Stealing
    <3> QED
      BY <2>1, <3>1
  <2> QED
    BY <2>3, <2>4, <2>5, <2>6, <2>7, <2>8, <2>9, <2>10, <2>11
<1>6. ASSUME NEW t \in Workers, PopCasOk(t) PROVE PositionInv'
  <2>1. /\ pc[t] = "pop_cas" /\ pc' = [pc EXCEPT ![t] = "pop_read"]
        /\ worker_head' = [worker_head EXCEPT ![t] = seen_worker[t] + 1]
        /\ stealer_head' = [stealer_head EXCEPT ![t] =
              IF Short(seen_stealer[t]) = Short(seen_worker[t])
              THEN seen_stealer[t] + 1 ELSE seen_stealer[t]]
        /\ UNCHANGED <<tail, localVars, drainVars, created>>
    BY <1>6 DEF PopCasOk
  <2>2. /\ worker_head[t] = seen_worker[t] /\ stealer_head[t] = seen_stealer[t]
        /\ Short(seen_stealer[t]) = Short(seen_worker[t]) <=> seen_stealer[t] = seen_worker[t]
    BY <1>6, PopCasExact DEF PopCasOk
  <2>3. /\ worker_head' = [worker_head EXCEPT ![t] = worker_head[t] + 1]
        /\ stealer_head' = [stealer_head EXCEPT ![t] =
              IF stealer_head[t] = worker_head[t] THEN stealer_head[t] + 1 ELSE stealer_head[t]]
    BY ONLY <2>1, <2>2
  <2>4. /\ seen_worker[t] = worker_head[t] /\ seen_stealer[t] = stealer_head[t]
        /\ pc[t] = "pop_cas" /\ pc' = [pc EXCEPT ![t] = "pop_read"]
        /\ UNCHANGED <<tail, localVars, drainVars, created>>
    BY ONLY <2>1, <2>2
  <2>5. CounterTypes'
    BY <2>3, <2>4
  <2>6. \A q \in Workers : Ordered(q)'
    BY <2>3, <2>4
  <2>7. \A u \in Workers : KnowsTail(u)'
    BY <2>3, <2>4
  <2>8. \A u \in Workers : PopSaw(u)'
    BY <2>3, <2>4
  <2>9. \A u \in Workers : ThiefSaw(u)'
    BY <2>3, <2>4
  <2>10. \A u \in Workers : Holds(u)'
    BY <2>3, <2>4
  <2>11. Alone'
    BY <2>3, <2>4
  <2>12. \A q \in Workers : DrainHolds(q)'
    BY <2>3, <2>4
  <2>13. \A q \in Workers : NoOrphan(q)'
    <3>1. \A u \in Workers : (Stealing(u)' <=> Stealing(u)) /\ (Stealing(u) => victim'[u] = victim[u])
      BY <2>3, <2>4
    <3> HIDE DEF Stealing
    <3> QED
      BY <2>3, <2>4, <3>1
  <2> QED
    BY <2>5, <2>6, <2>7, <2>8, <2>9, <2>10, <2>11, <2>12, <2>13
<1>7. ASSUME NEW t \in Workers, PopCasFail(t) PROVE PositionInv'
  <2>1. CASE Short(tail[t]) = Short(worker_head[t]) /\ Return(t)
    BY <1>7, <2>1, ReturnPositionInv DEF PopCasFail, Return
  <2>2. CASE Short(tail[t]) # Short(worker_head[t]) /\ See(t, t)
    <3>1. /\ pc[t] = "pop_cas" /\ worker_head[t] # tail[t]
          /\ seen_worker' = [seen_worker EXCEPT ![t] = worker_head[t]]
          /\ seen_stealer' = [seen_stealer EXCEPT ![t] = stealer_head[t]]
          /\ UNCHANGED <<worker_head, stealer_head, tail, pc, op, victim, my_tail,
                      free, from, count, carried, draining, drain_head, drain_to,
                      drain_seen, created>>
      BY <1>7, <2>2 DEF PopCasFail, See, Return
    <3>2. CounterTypes'
      BY <3>1
    <3>3. \A q \in Workers : Ordered(q)'
      BY <3>1
    <3>4. \A u \in Workers : KnowsTail(u)'
      BY <3>1
    <3>5. ASSUME NEW u \in Workers PROVE PopSaw(u)'
      <4>1. CASE u = t
        <5>1. /\ worker_head[t] \in Nat /\ stealer_head[t] \in Nat /\ tail[t] \in Nat
              /\ Capacity[t] \in Nat
              /\ stealer_head[t] <= worker_head[t] /\ worker_head[t] <= tail[t]
              /\ tail[t] <= stealer_head[t] + Capacity[t] /\ worker_head[t] # tail[t]
          BY <3>1
        <5>2. worker_head[t] < tail[t]
          BY ONLY <5>1
        <5>3. /\ seen_worker'[t] = worker_head[t] /\ seen_stealer'[t] = stealer_head[t]
              /\ UNCHANGED <<worker_head, stealer_head, tail>>
          BY <3>1
        <5> QED
          BY ONLY <4>1, <5>1, <5>2, <5>3 DEF PopSaw
      <4>2. CASE u # t
        BY <3>1, <4>2
      <4> QED
        BY <4>1, <4>2
    <3>6. \A u \in Workers : ThiefSaw(u)'
      BY <3>1
    <3>7. \A u \in Workers : Holds(u)'
      BY <3>1
    <3>8. Alone'
      BY <3>1
    <3>9. \A q \in Workers : DrainHolds(q)'
      BY <3>1
    <3>10. \A q \in Workers : NoOrphan(q)'
      <4>1. \A u \in Workers : (Stealing(u)' <=> Stealing(u)) /\ (Stealing(u) => victim'[u] = victim[u])
        BY <3>1
      <4> HIDE DEF Stealing
      <4> QED
        BY <3>1, <4>1
    <3> QED
      BY <3>2, <3>3, <3>4, <3>5, <3>6, <3>7, <3>8, <3>9, <3>10
  <2> HIDE DEF PositionInv
  <2> QED
    BY ONLY <1>7, <2>1, <2>2, SMTT(30) DEF PopCasFail
<1>8. ASSUME NEW t \in Workers, PopRead(t) PROVE PositionInv'
  BY <1>8, ReturnPositionInv DEF PopRead
<1>9. ASSUME NEW t \in Workers, NEW v \in Workers, NEW name \in OpNames, Steal(t, v, name) PROVE PositionInv'
  <2> DEFINE m == Capacity[t] - OwnLen(t) + (IF name = "steal_and_pop" THEN 1 ELSE 0)
  <2>1. /\ pc[t] = "idle" /\ pc' = [pc EXCEPT ![t] = "load_heads"]
        /\ name \in {"steal", "steal_and_pop"}
        /\ op' = [op EXCEPT ![t] = name] /\ victim' = [victim EXCEPT ![t] = v]
        /\ my_tail' = [my_tail EXCEPT ![t] = tail[t]] /\ free' = [free EXCEPT ![t] = m]
        /\ UNCHANGED <<queueVars, seenVars, from, count, carried, drainVars, itemVars>>
    BY <1>9 DEF Steal, Call, LoadOwnTail
  <2>2. /\ m \in Nat
        /\ name = "steal" => tail[t] + m <= stealer_head[t] + Capacity[t]
        /\ name = "steal_and_pop" => tail[t] + m <= stealer_head[t] + Capacity[t] + 1
    <3>1. OwnLen(t) = tail[t] - stealer_head[t] /\ OwnLen(t) \in 0 .. Capacity[t]
      BY ONLY PositionInv, t \in Workers, OwnLenExact
    <3>2. tail[t] \in Nat /\ stealer_head[t] \in Nat /\ Capacity[t] \in Nat
      OBVIOUS
    <3>3. m = Capacity[t] - OwnLen(t) + (IF name = "steal_and_pop" THEN 1 ELSE 0)
      OBVIOUS
    <3> HIDE DEF m
    <3> QED
      BY ONLY <3>1, <3>2, <3>3
  <2> HIDE DEF m
  <2>3. CounterTypes'
    BY <2>1, <2>2
  <2>4. \A q \in Workers : Ordered(q)'
    BY <2>1, <2>2
  <2>5. \A u \in Workers : KnowsTail(u)'
    BY <2>1, <2>2
  <2>6. \A u \in Workers : PopSaw(u)'
    BY <2>1, <2>2
  <2>7. \A u \in Workers : ThiefSaw(u)'
    BY <2>1, <2>2
  <2>8. \A u \in Workers : Holds(u)'
    BY <2>1, <2>2
  <2>9. Alone'
    BY <2>1, <2>2
  <2>10. \A q \in Workers : DrainHolds(q)'
    BY <2>1, <2>2
  <2>11. \A q \in Workers : NoOrphan(q)'
    <3>1. \A u \in Workers : (Stealing(u)' <=> Stealing(u)) /\ (Stealing(u) => victim'[u] = victim[u])
      BY <2>1
    <3> HIDE DEF Stealing
    <3> QED
      BY <2>1, <3>1
  <2> QED
    BY <2>3, <2>4, <2>5, <2>6, <2>7, <2>8, <2>9, <2>10, <2>11
<1>10. ASSUME NEW t \in Workers, DrainCall(t) PROVE PositionInv'
  <2>1. /\ pc[t] = "idle" /\ pc' = [pc EXCEPT ![t] = "load_heads"]
        /\ op' = [op EXCEPT ![t] = "drain"] /\ victim' = [victim EXCEPT ![t] = t]
        /\ free' = [free EXCEPT ![t] = Modulus - 1]
        /\ UNCHANGED <<worker_head, stealer_head, tail, my_tail, seen_worker,
                    seen_stealer, from, count, carried, draining, drain_head, drain_to,
                    drain_seen, created>>
    BY <1>10 DEF DrainCall, Call
  <2>2. CounterTypes'
    BY <2>1
  <2>3. \A q \in Workers : Ordered(q)'
    BY <2>1
  <2>4. \A u \in Workers : KnowsTail(u)'
    BY <2>1
  <2>5. \A u \in Workers : PopSaw(u)'
    BY <2>1
  <2>6. \A u \in Workers : ThiefSaw(u)'
    BY <2>1
  <2>7. \A u \in Workers : Holds(u)'
    BY <2>1
  <2>8. Alone'
    BY <2>1
  <2>9. \A q \in Workers : DrainHolds(q)'
    BY <2>1
  <2>10. \A q \in Workers : NoOrphan(q)'
    <3>1. \A u \in Workers : (Stealing(u)' <=> Stealing(u)) /\ (Stealing(u) => victim'[u] = victim[u])
      BY <2>1
    <3> HIDE DEF Stealing
    <3> QED
      BY <2>1, <3>1
  <2> QED
    BY <2>2, <2>3, <2>4, <2>5, <2>6, <2>7, <2>8, <2>9, <2>10
<1>11. ASSUME NEW t \in Workers, LoadHeads(t) PROVE PositionInv'
  <2>1. CASE Short(stealer_head[victim[t]]) # Short(worker_head[victim[t]]) /\ Return(t)
    BY <1>11, <2>1, ReturnPositionInv DEF LoadHeads, BusyTest, Return
  <2>2. CASE Short(stealer_head[victim[t]]) = Short(worker_head[victim[t]]) /\ See(t, victim[t])
    <3>1. /\ pc[t] \in {"load_heads", "book"} /\ pc' = [pc EXCEPT ![t] = "load_tail"]
          /\ stealer_head[victim[t]] = worker_head[victim[t]]
          /\ seen_worker' = [seen_worker EXCEPT ![t] = worker_head[victim[t]]]
          /\ seen_stealer' = [seen_stealer EXCEPT ![t] = stealer_head[victim[t]]]
          /\ count' = [count EXCEPT ![t] = 0]
          /\ UNCHANGED <<worker_head, stealer_head, tail, op, victim, my_tail,
                      free, from, carried, draining, drain_head, drain_to, drain_seen,
                      created>>
      BY <1>11, <2>2, HeadsExact DEF LoadHeads, BusyTest, See, Return
    <3>2. CounterTypes'
      BY <3>1
    <3>3. \A q \in Workers : Ordered(q)'
      BY <3>1
    <3>4. \A u \in Workers : KnowsTail(u)'
      BY <3>1
    <3>5. \A u \in Workers : PopSaw(u)'
      BY <3>1
    <3>6. \A u \in Workers : ThiefSaw(u)'
      BY <3>1
    <3>7. \A u \in Workers : Holds(u)'
      BY <3>1
    <3>8. Alone'
      BY <3>1
    <3>9. \A q \in Workers : DrainHolds(q)'
      BY <3>1
    <3>10. \A q \in Workers : NoOrphan(q)'
      <4>1. \A u \in Workers : (Stealing(u)' <=> Stealing(u)) /\ (Stealing(u) => victim'[u] = victim[u])
        BY <3>1
      <4> HIDE DEF Stealing
      <4> QED
        BY <3>1, <4>1
    <3> QED
      BY <3>2, <3>3, <3>4, <3>5, <3>6, <3>7, <3>8, <3>9, <3>10
  <2> HIDE DEF PositionInv
  <2> QED
    BY ONLY <1>11, <2>1, <2>2, SMTT(30) DEF LoadHeads, BusyTest
<1>12. ASSUME NEW t \in Workers, NEW n \in Nat, LoadTail(t, n) PROVE PositionInv'
  <2>1. CASE n = 0 /\ Return(t)
    BY <1>12, <2>1, ReturnPositionInv DEF LoadTail, Return
  <2>2. CASE n > 0 /\ Goto(t, "book")
    <3>1. /\ pc[t] = "load_tail" /\ pc' = [pc EXCEPT ![t] = "book"]
          /\ n > 0 /\ n <= free[t] /\ n <= tail[victim[t]] - seen_worker[t]
          /\ count' = [count EXCEPT ![t] = n]
          /\ UNCHANGED <<worker_head, stealer_head, tail, op, victim, my_tail,
                      free, seen_worker, seen_stealer, from, carried, draining, drain_head,
                      drain_to, drain_seen, created>>
      BY <1>12, <2>2, ItemCountExact DEF LoadTail, Return, Least
    <3>2. CounterTypes'
      BY <3>1
    <3>3. \A q \in Workers : Ordered(q)'
      BY <3>1
    <3>4. \A u \in Workers : KnowsTail(u)'
      BY <3>1
    <3>5. \A u \in Workers : PopSaw(u)'
      BY <3>1
    <3>6. \A u \in Workers : ThiefSaw(u)'
      BY <3>1
    <3>7. \A u \in Workers : Holds(u)'
      BY <3>1
    <3>8. Alone'
      BY <3>1
    <3>9. \A q \in Workers : DrainHolds(q)'
      BY <3>1
    <3>10. \A q \in Workers : NoOrphan(q)'
      <4>1. \A u \in Workers : (Stealing(u)' <=> Stealing(u)) /\ (Stealing(u) => victim'[u] = victim[u])
        BY <3>1
      <4> HIDE DEF Stealing
      <4> QED
        BY <3>1, <4>1
    <3> QED
      BY <3>2, <3>3, <3>4, <3>5, <3>6, <3>7, <3>8, <3>9, <3>10
  <2> HIDE DEF PositionInv
  <2> QED
    BY ONLY <1>12, <2>1, <2>2, SMTT(30) DEF LoadTail
<1>13. ASSUME NEW t \in Workers, BookOk(t) PROVE PositionInv'
  <2> DEFINE v == victim[t]
  <2>1. /\ pc[t] = "book" /\ v \in Workers
        /\ worker_head[v] = seen_worker[t] /\ stealer_head[v] = seen_worker[t]
        /\ seen_stealer[t] = seen_worker[t]
        /\ worker_head' = [worker_head EXCEPT ![v] = seen_worker[t] + count[t]]
        /\ stealer_head' = stealer_head
        /\ UNCHANGED <<tail, created>>
    BY <1>13, BookExact DEF BookOk
  <2>2. draining[v] = "no" /\ \A u \in Workers : Stealing(u) => victim[u] # v
    BY <2>1
  <2>3. CASE op[t] = "drain" /\ Return(t)
    <3>1. /\ v = t
          /\ draining' = [draining EXCEPT ![t] = "active"]
          /\ drain_head' = [drain_head EXCEPT ![t] = seen_worker[t]]
          /\ drain_to' = [drain_to EXCEPT ![t] = seen_worker[t] + count[t]]
          /\ drain_seen' = drain_seen
      BY <1>13, <2>1, <2>3 DEF BookOk
    <3> USE DEF Return
    <3>2. CounterTypes'
      BY <2>1, <2>2, <2>3, <3>1
    <3>3. \A q \in Workers : Ordered(q)'
      BY <2>1, <2>2, <2>3, <3>1
    <3>4. \A u \in Workers : KnowsTail(u)'
      BY <2>1, <2>2, <2>3, <3>1
    <3>5. \A u \in Workers : PopSaw(u)'
      BY <2>1, <2>2, <2>3, <3>1
    <3>6. \A u \in Workers : ThiefSaw(u)'
      BY <2>1, <2>2, <2>3, <3>1
    <3>7. \A u \in Workers : Holds(u)'
      BY <2>1, <2>2, <2>3, <3>1
    <3>8. Alone'
      BY <2>1, <2>2, <2>3, <3>1
    <3>9. \A q \in Workers : DrainHolds(q)'
      BY <2>1, <2>2, <2>3, <3>1
    <3>10. \A q \in Workers : NoOrphan(q)'
      BY <2>1, <2>2, <2>3, <3>1
    <3> QED
      BY <3>2, <3>3, <3>4, <3>5, <3>6, <3>7, <3>8, <3>9, <3>10
  <2>4. CASE op[t] # "drain" /\ Goto(t, "copy")
    <3>1. /\ pc' = [pc EXCEPT ![t] = "copy"]
          /\ from' = [from EXCEPT ![t] = seen_worker[t]]
          /\ UNCHANGED <<op, victim, my_tail, free, seenVars, count, carried, drainVars>>
      BY <1>13, <2>1, <2>4 DEF BookOk, Return
    <3>2. CounterTypes'
      BY <2>1, <2>2, <2>4, <3>1
    <3>3. \A q \in Workers : Ordered(q)'
      BY <2>1, <2>2, <2>4, <3>1
    <3>4. \A u \in Workers : KnowsTail(u)'
      BY <2>1, <2>2, <2>4, <3>1
    <3>5. \A u \in Workers : PopSaw(u)'
      BY <2>1, <2>2, <2>4, <3>1
    <3>6. \A u \in Workers : ThiefSaw(u)'
      BY <2>1, <2>2, <2>4, <3>1
    <3>7. \A u \in Workers : Holds(u)'
      BY <2>1, <2>2, <2>4, <3>1
    <3>8. Alone'
      BY <2>1, <2>2, <2>4, <3>1
    <3>9. \A q \in Workers : DrainHolds(q)'
      BY <2>1, <2>2, <2>4, <3>1
    <3>10. \A q \in Workers : NoOrphan(q)'
      BY <2>1, <2>2, <2>4, <3>1
    <3> QED
      BY <3>2, <3>3, <3>4, <3>5, <3>6, <3>7, <3>8, <3>9, <3>10
  <2> QED
    BY <1>13, <2>3, <2>4 DEF BookOk
<1>14. ASSUME NEW t \in Workers, BookFail(t) PROVE PositionInv'
  <2>1. CASE Short(stealer_head[victim[t]]) # Short(worker_head[victim[t]]) /\ Return(t)
    BY <1>14, <2>1, ReturnPositionInv DEF BookFail, BusyTest, Return
  <2>2. CASE Short(stealer_head[victim[t]]) = Short(worker_head[victim[t]]) /\ See(t, victim[t])
    <3>1. /\ pc[t] \in {"load_heads", "book"} /\ pc' = [pc EXCEPT ![t] = "load_tail"]
          /\ stealer_head[victim[t]] = worker_head[victim[t]]
          /\ seen_worker' = [seen_worker EXCEPT ![t] = worker_head[victim[t]]]
          /\ seen_stealer' = [seen_stealer EXCEPT ![t] = stealer_head[victim[t]]]
          /\ count' = [count EXCEPT ![t] = 0]
          /\ UNCHANGED <<worker_head, stealer_head, tail, op, victim, my_tail,
                      free, from, carried, draining, drain_head, drain_to, drain_seen,
                      created>>
      BY <1>14, <2>2, HeadsExact DEF BookFail, BusyTest, See, Return
    <3>2. CounterTypes'
      BY <3>1
    <3>3. \A q \in Workers : Ordered(q)'
      BY <3>1
    <3>4. \A u \in Workers : KnowsTail(u)'
      BY <3>1
    <3>5. \A u \in Workers : PopSaw(u)'
      BY <3>1
    <3>6. \A u \in Workers : ThiefSaw(u)'
      BY <3>1
    <3>7. \A u \in Workers : Holds(u)'
      BY <3>1
    <3>8. Alone'
      BY <3>1
    <3>9. \A q \in Workers : DrainHolds(q)'
      BY <3>1
    <3>10. \A q \in Workers : NoOrphan(q)'
      <4>1. \A u \in Workers : (Stealing(u)' <=> Stealing(u)) /\ (Stealing(u) => victim'[u] = victim[u])
        BY <3>1
      <4> HIDE DEF Stealing
      <4> QED
        BY <3>1, <4>1
    <3> QED
      BY <3>2, <3>3, <3>4, <3>5, <3>6, <3>7, <3>8, <3>9, <3>10
  <2> HIDE DEF PositionInv
  <2> QED
    BY ONLY <1>14, <2>1, <2>2, SMTT(30) DEF BookFail, BusyTest
<1>15. ASSUME NEW t \in Workers, Copy(t) PROVE PositionInv'
  <2>1. /\ pc[t] = "copy" /\ pc' = [pc EXCEPT ![t] = "publish_dest"]
        /\ UNCHANGED <<worker_head, stealer_head, tail, op, victim, my_tail, free,
                    seen_worker, seen_stealer, from, count, carried, draining, drain_head,
                    drain_to, drain_seen, created>>
    BY <1>15 DEF Copy
  <2>2. CounterTypes'
    BY <2>1
  <2>3. \A q \in Workers : Ordered(q)'
    BY <2>1
  <2>4. \A u \in Workers : KnowsTail(u)'
    BY <2>1
  <2>5. \A u \in Workers : PopSaw(u)'
    BY <2>1
  <2>6. \A u \in Workers : ThiefSaw(u)'
    BY <2>1
  <2>7. \A u \in Workers : Holds(u)'
    BY <2>1
  <2>8. Alone'
    BY <2>1
  <2>9. \A q \in Workers : DrainHolds(q)'
    BY <2>1
  <2>10. \A q \in Workers : NoOrphan(q)'
    <3>1. \A u \in Workers : (Stealing(u)' <=> Stealing(u)) /\ (Stealing(u) => victim'[u] = victim[u])
      BY <2>1
    <3> HIDE DEF Stealing
    <3> QED
      BY <2>1, <3>1
  <2> QED
    BY <2>2, <2>3, <2>4, <2>5, <2>6, <2>7, <2>8, <2>9, <2>10
<1>16. ASSUME NEW t \in Workers, PublishDest(t) PROVE PositionInv'
  <2>1. /\ pc[t] = "publish_dest" /\ pc' = [pc EXCEPT ![t] = "load_commit"]
        /\ tail' = [tail EXCEPT ![t] = my_tail[t] + TransferCount(t)]
        /\ Recent(t, TransferCount(t))
        /\ UNCHANGED <<headsVars, localVars, drainVars, created>>
    BY <1>16 DEF PublishDest
  <2>2. TransferCount(t) \in Nat /\ my_tail[t] = tail[t]
    BY <2>1
  <2> USE DEF Recent
  <2>3. CounterTypes'
    BY <2>1, <2>2
  <2>4. \A q \in Workers : Ordered(q)'
    BY <2>1, <2>2
  <2>5. \A u \in Workers : KnowsTail(u)'
    BY <2>1, <2>2
  <2>6. \A u \in Workers : PopSaw(u)'
    BY <2>1, <2>2
  <2>7. \A u \in Workers : ThiefSaw(u)'
    BY <2>1, <2>2
  <2>8. \A u \in Workers : Holds(u)'
    BY <2>1, <2>2
  <2>9. Alone'
    BY <2>1, <2>2
  <2>10. \A q \in Workers : DrainHolds(q)'
    BY <2>1, <2>2
  <2>11. \A q \in Workers : NoOrphan(q)'
    <3>1. \A u \in Workers : (Stealing(u)' <=> Stealing(u)) /\ (Stealing(u) => victim'[u] = victim[u])
      BY <2>1
    <3> HIDE DEF Stealing
    <3> QED
      BY <2>1, <3>1
  <2> QED
    BY <2>3, <2>4, <2>5, <2>6, <2>7, <2>8, <2>9, <2>10, <2>11
<1>17. ASSUME NEW t \in Workers, LoadCommit(t) PROVE PositionInv'
  <2>1. /\ pc[t] = "load_commit" /\ pc' = [pc EXCEPT ![t] = "commit"]
        /\ seen_worker' = [seen_worker EXCEPT ![t] = worker_head[victim[t]]]
        /\ seen_stealer' = [seen_stealer EXCEPT ![t] = stealer_head[victim[t]]]
        /\ UNCHANGED <<worker_head, stealer_head, tail, op, victim, my_tail, free,
                    from, count, carried, draining, drain_head, drain_to, drain_seen,
                    created>>
    BY <1>17 DEF LoadCommit, See
  <2>2. CounterTypes'
    BY <2>1
  <2>3. \A q \in Workers : Ordered(q)'
    BY <2>1
  <2>4. \A u \in Workers : KnowsTail(u)'
    BY <2>1
  <2>5. \A u \in Workers : PopSaw(u)'
    BY <2>1
  <2>6. \A u \in Workers : ThiefSaw(u)'
    BY <2>1
  <2>7. \A u \in Workers : Holds(u)'
    BY <2>1
  <2>8. Alone'
    BY <2>1
  <2>9. \A q \in Workers : DrainHolds(q)'
    BY <2>1
  <2>10. \A q \in Workers : NoOrphan(q)'
    <3>1. \A u \in Workers : (Stealing(u)' <=> Stealing(u)) /\ (Stealing(u) => victim'[u] = victim[u])
      BY <2>1
    <3> HIDE DEF Stealing
    <3> QED
      BY <2>1, <3>1
  <2> QED
    BY <2>2, <2>3, <2>4, <2>5, <2>6, <2>7, <2>8, <2>9, <2>10
<1>18. ASSUME NEW t \in Workers, CommitOk(t) PROVE PositionInv'
  <2> DEFINE v == victim[t]
  <2>1. /\ pc[t] = "commit" /\ v \in Workers
        /\ worker_head' = worker_head
        /\ stealer_head' = [stealer_head EXCEPT ![v] = worker_head[v]]
        /\ UNCHANGED <<tail, drainVars, created>>
    <3>1. pc[t] = "commit" /\ SameHeads(t, v)
      BY <1>18 DEF CommitOk
    <3>2. worker_head[v] = seen_worker[t]
      BY <3>1, CommitExact
    <3> QED
      BY <1>18, <3>2 DEF CommitOk
  <2>2. Stealing(t) /\ draining[v] = "no" /\ \A u \in Workers : Stealing(u) /\ victim[u] = v => u = t
    BY <2>1
  <2>3. Return(t)
    BY <1>18 DEF CommitOk
  <2> USE DEF Return
  <2>4. CounterTypes'
    BY <2>1, <2>2, <2>3
  <2>5. \A q \in Workers : Ordered(q)'
    BY <2>1, <2>2, <2>3
  <2>6. \A u \in Workers : KnowsTail(u)'
    BY <2>1, <2>2, <2>3
  <2>7. \A u \in Workers : PopSaw(u)'
    BY <2>1, <2>2, <2>3
  <2>8. \A u \in Workers : ThiefSaw(u)'
    BY <2>1, <2>2, <2>3
  <2>9. \A u \in Workers : Holds(u)'
    BY <2>1, <2>2, <2>3
  <2>10. Alone'
    BY <2>1, <2>2, <2>3
  <2>11. \A q \in Workers : DrainHolds(q)'
    BY <2>1, <2>2, <2>3
  <2>12. \A q \in Workers : NoOrphan(q)'
    BY <2>1, <2>2, <2>3
  <2> QED
    BY <2>4, <2>5, <2>6, <2>7, <2>8, <2>9, <2>10, <2>11, <2>12
<1>19. ASSUME NEW t \in Workers, CommitFail(t) PROVE PositionInv'
  <2>1. /\ pc[t] = "commit"
        /\ seen_worker' = [seen_worker EXCEPT ![t] = worker_head[victim[t]]]
        /\ seen_stealer' = [seen_stealer EXCEPT ![t] = stealer_head[victim[t]]]
        /\ UNCHANGED <<worker_head, stealer_head, tail, pc, op, victim, my_tail,
                    free, from, count, carried, draining, drain_head, drain_to, drain_seen,
                    created>>
    BY <1>19 DEF CommitFail, See
  <2>2. CounterTypes'
    BY <2>1
  <2>3. \A q \in Workers : Ordered(q)'
    BY <2>1
  <2>4. \A u \in Workers : KnowsTail(u)'
    BY <2>1
  <2>5. \A u \in Workers : PopSaw(u)'
    BY <2>1
  <2>6. \A u \in Workers : ThiefSaw(u)'
    BY <2>1
  <2>7. \A u \in Workers : Holds(u)'
    BY <2>1
  <2>8. Alone'
    BY <2>1
  <2>9. \A q \in Workers : DrainHolds(q)'
    BY <2>1
  <2>10. \A q \in Workers : NoOrphan(q)'
    <3>1. \A u \in Workers : (Stealing(u)' <=> Stealing(u)) /\ (Stealing(u) => victim'[u] = victim[u])
      BY <2>1
    <3> HIDE DEF Stealing
    <3> QED
      BY <2>1, <3>1
  <2> QED
    BY <2>2, <2>3, <2>4, <2>5, <2>6, <2>7, <2>8, <2>9, <2>10
<1>20. ASSUME NEW t \in Workers, DrainNext(t) PROVE PositionInv'
  <2>1. /\ draining[t] = "active" /\ drain_head[t] # drain_to[t]
        /\ drain_head' = [drain_head EXCEPT ![t] = drain_head[t] + 1]
        /\ UNCHANGED <<worker_head, stealer_head, tail, pc, op, victim, my_tail,
                    free, seen_worker, seen_stealer, from, count, carried, draining,
                    drain_to, drain_seen, created>>
    BY <1>20 DEF DrainNext
  <2>2. CounterTypes'
    BY <2>1
  <2>3. \A q \in Workers : Ordered(q)'
    BY <2>1
  <2>4. \A u \in Workers : KnowsTail(u)'
    BY <2>1
  <2>5. \A u \in Workers : PopSaw(u)'
    BY <2>1
  <2>6. \A u \in Workers : ThiefSaw(u)'
    BY <2>1
  <2>7. \A u \in Workers : Holds(u)'
    BY <2>1
  <2>8. Alone'
    BY <2>1
  <2>9. ASSUME NEW q \in Workers PROVE DrainHolds(q)'
    <3>1. CASE q = t
      <4>1. /\ stealer_head[t] \in Nat /\ drain_head[t] \in Nat /\ drain_to[t] \in Nat
            /\ stealer_head[t] <= drain_head[t] /\ drain_head[t] <= drain_to[t]
            /\ stealer_head[t] < drain_to[t] /\ drain_to[t] <= worker_head[t]
            /\ drain_head[t] # drain_to[t] /\ draining[t] = "active"
        BY <2>1
      <4>2. stealer_head[t] <= drain_head[t] + 1 /\ drain_head[t] + 1 <= drain_to[t]
        BY ONLY <4>1
      <4>3. /\ drain_head'[t] = drain_head[t] + 1
            /\ UNCHANGED <<stealer_head, worker_head, drain_to, draining, drain_seen>>
        BY <2>1
      <4> QED
        BY ONLY <3>1, <4>1, <4>2, <4>3 DEF DrainHolds
    <3>2. CASE q # t
      BY <2>1, <3>2
    <3> QED
      BY <3>1, <3>2
  <2>10. \A q \in Workers : NoOrphan(q)'
    <3>1. \A u \in Workers : (Stealing(u)' <=> Stealing(u)) /\ (Stealing(u) => victim'[u] = victim[u])
      BY <2>1
    <3> HIDE DEF Stealing
    <3> QED
      BY <2>1, <3>1
  <2> QED
    BY <2>2, <2>3, <2>4, <2>5, <2>6, <2>7, <2>8, <2>9, <2>10
<1>21. ASSUME NEW t \in Workers, DrainLoad(t) PROVE PositionInv'
  <2>1. /\ \/ draining[t] = "active" /\ drain_head[t] = drain_to[t]
         \/ draining[t] = "loaded"
        /\ draining' = [draining EXCEPT ![t] = "loaded"]
        /\ drain_seen' = [drain_seen EXCEPT ![t] = worker_head[t]]
        /\ UNCHANGED <<worker_head, stealer_head, tail, pc, op, victim, my_tail,
                    free, seen_worker, seen_stealer, from, count, carried, drain_head,
                    drain_to, created>>
    BY <1>21, DrainExact DEF DrainLoad
  <2>2. CounterTypes'
    BY <2>1
  <2>3. \A q \in Workers : Ordered(q)'
    BY <2>1
  <2>4. \A u \in Workers : KnowsTail(u)'
    BY <2>1
  <2>5. \A u \in Workers : PopSaw(u)'
    BY <2>1
  <2>6. \A u \in Workers : ThiefSaw(u)'
    BY <2>1
  <2>7. \A u \in Workers : Holds(u)'
    BY <2>1
  <2>8. Alone'
    BY <2>1
  <2>9. \A q \in Workers : DrainHolds(q)'
    BY <2>1
  <2>10. \A q \in Workers : NoOrphan(q)'
    <3>1. \A u \in Workers : (Stealing(u)' <=> Stealing(u)) /\ (Stealing(u) => victim'[u] = victim[u])
      BY <2>1
    <3> HIDE DEF Stealing
    <3> QED
      BY <2>1, <3>1
  <2> QED
    BY <2>2, <2>3, <2>4, <2>5, <2>6, <2>7, <2>8, <2>9, <2>10
<1>22. ASSUME NEW t \in Workers, DrainCommit(t) PROVE PositionInv'
  <2>1. /\ draining[t] = "loaded"
        /\ draining' = [draining EXCEPT ![t] = "no"]
        /\ stealer_head' = [stealer_head EXCEPT ![t] = worker_head[t]]
        /\ drain_head' = [drain_head EXCEPT ![t] = 0] /\ drain_to' = [drain_to EXCEPT ![t] = 0]
        /\ drain_seen' = [drain_seen EXCEPT ![t] = 0]
        /\ UNCHANGED <<worker_head, tail, pc, op, victim, my_tail, free,
                    seen_worker, seen_stealer, from, count, carried, created>>
    BY <1>22, DrainExact DEF DrainCommit
  <2>2. CounterTypes'
    BY <2>1
  <2>3. \A q \in Workers : Ordered(q)'
    BY <2>1
  <2>4. \A u \in Workers : KnowsTail(u)'
    BY <2>1
  <2>5. \A u \in Workers : PopSaw(u)'
    BY <2>1
  <2>6. \A u \in Workers : ThiefSaw(u)'
    BY <2>1
  <2>7. \A u \in Workers : Holds(u)'
    BY <2>1
  <2>8. Alone'
    BY <2>1
  <2>9. \A q \in Workers : DrainHolds(q)'
    BY <2>1
  <2>10. \A q \in Workers : NoOrphan(q)'
    <3>1. \A u \in Workers : (Stealing(u)' <=> Stealing(u)) /\ (Stealing(u) => victim'[u] = victim[u])
      BY <2>1
    <3> HIDE DEF Stealing
    <3> QED
      BY <2>1, <3>1
  <2> QED
    BY <2>2, <2>3, <2>4, <2>5, <2>6, <2>7, <2>8, <2>9, <2>10
<1>23. ASSUME NEW t \in Workers, DrainLeak(t) PROVE PositionInv'
  <2>1. /\ draining[t] = "active"
        /\ draining' = [draining EXCEPT ![t] = "leaked"]
        /\ UNCHANGED <<worker_head, stealer_head, tail, pc, op, victim, my_tail,
                    free, seen_worker, seen_stealer, from, count, carried, drain_head,
                    drain_to, drain_seen, created>>
    BY <1>23 DEF DrainLeak
  <2>2. CounterTypes'
    BY <2>1
  <2>3. \A q \in Workers : Ordered(q)'
    BY <2>1
  <2>4. \A u \in Workers : KnowsTail(u)'
    BY <2>1
  <2>5. \A u \in Workers : PopSaw(u)'
    BY <2>1
  <2>6. \A u \in Workers : ThiefSaw(u)'
    BY <2>1
  <2>7. \A u \in Workers : Holds(u)'
    BY <2>1
  <2>8. Alone'
    BY <2>1
  <2>9. \A q \in Workers : DrainHolds(q)'
    BY <2>1
  <2>10. \A q \in Workers : NoOrphan(q)'
    <3>1. \A u \in Workers : (Stealing(u)' <=> Stealing(u)) /\ (Stealing(u) => victim'[u] = victim[u])
      BY <2>1
    <3> HIDE DEF Stealing
    <3> QED
      BY <2>1, <3>1
  <2> QED
    BY <2>2, <2>3, <2>4, <2>5, <2>6, <2>7, <2>8, <2>9, <2>10
<1>24. ASSUME NEW t \in Workers, Drop(t) PROVE PositionInv'
  BY <1>24 DEF Drop
<1> QED
  <2>1. CASE UNCHANGED vars
    BY <2>1 DEF vars
  <2>2. CASE Next
    <3>1. PICK t \in Workers : Step(t)
      BY <2>2 DEF Next
    <3>2. 0 .. MaxCreated \subseteq Nat /\ 0 .. Modulus - 1 \subseteq Nat
      BY ClientAssumption
    <3> HIDE DEF PositionInv
    <3> QED
      BY <3>1, <3>2, <1>1, <1>2, <1>3, <1>4, <1>5, <1>6, <1>7, <1>8, <1>9, <1>10, <1>11, <1>12, <1>13, <1>14, <1>15, <1>16, <1>17, <1>18, <1>19, <1>20, <1>21, <1>22, <1>23, <1>24 DEF Step
  <2> QED
    BY <2>1, <2>2
-----------------------------------------------------------------------------
(* Types of the slots. *)

ItemTypes ==
    /\ BufferShape(buffer)
    /\ dropped \subseteq Workers
    /\ out \subseteq Content

(* Buffers, items and results have their types initially ... *)
LEMMA InitItemTypes == Init => ItemTypes
<1>1. BufferShape(EmptyBuffers)
  BY DEF EmptyBuffers, BufferShape, Content
<1> QED
  BY <1>1 DEF Init, ItemTypes

(* ... and after every step. *)
LEMMA NextItemTypes == PositionInv /\ ItemTypes /\ [Next]_vars => ItemTypes'
<1> SUFFICES ASSUME PositionInv, ItemTypes, [Next]_vars PROVE ItemTypes'
  OBVIOUS
<1>1. CASE UNCHANGED vars
  BY <1>1 DEF vars, queueVars, itemVars, ItemTypes
<1>2. ASSUME NEW t \in Workers, Step(t) PROVE ItemTypes'
  <2>1. /\ my_tail[t] \in Nat /\ seen_worker[t] \in Nat /\ count[t] \in Nat
        /\ carried[t] \in Nat /\ from[t] \in Nat /\ drain_head[t] \in Nat
        /\ victim[t] \in Workers /\ TransferCount(t) \in Int /\ worker_head[t] \in Nat
    BY DEF PositionInv, CounterTypes, TransferCount
  <2>0. BufferShape(buffer) /\ dropped \subseteq Workers /\ out \subseteq Content
    BY DEF ItemTypes
  <2>2. CASE Write(t)
    <3> DEFINE s == [k \in 0 .. count[t] - 1 |-> carried[t] + 1 + k]
    <3>1. \A k \in DOMAIN s : s[k] \in Content
      BY <2>1 DEF Content
    <3>2. buffer' = Written(buffer, t, my_tail[t], s) /\ UNCHANGED <<dropped, out>>
      BY <2>2 DEF Write, itemVars
    <3> HIDE DEF s
    <3> QED
      BY <2>0, <2>1, <3>1, <3>2, WrittenTypes DEF ItemTypes
  <2>8. ASSUME NEW q \in Workers, NEW p \in Int, NEW n \in Int,
               buffer' = MovedOut(buffer, q, p, n), out' = out \cup Read(buffer, q, p, n),
               dropped' \subseteq Workers
        PROVE  ItemTypes'
    <3>1. BufferShape(MovedOut(buffer, q, p, n))
      BY ONLY <2>0, MovedOutCells, q \in Workers, p \in Int, n \in Int
    <3>2. Read(buffer, q, p, n) \subseteq Content
      BY ONLY <2>0, ReadTypes, q \in Workers, p \in Int, n \in Int
    <3> QED
      BY <2>0, <2>8, <3>1, <3>2 DEF ItemTypes
  <2>3. CASE PopRead(t)
    BY <2>0, <2>1, <2>3, <2>8 DEF PopRead
  <2>4. CASE DrainNext(t)
    BY <2>0, <2>1, <2>4, <2>8 DEF DrainNext
  <2>5. CASE Drop(t)
    <3> DEFINE n == WrappingSub(tail[t], worker_head[t])
    <3>1. n \in Int
      <4>1. Short(tail[t]) - Short(worker_head[t]) \in Int
        BY ShortRange DEF PositionInv, CounterTypes
      <4> QED
        BY <4>1, ShortRange DEF WrappingSub
    <3>2. /\ buffer' = MovedOut(buffer, t, worker_head[t], n)
          /\ out' = out \cup Read(buffer, t, worker_head[t], n)
          /\ dropped' = dropped \cup {t}
      BY <2>5 DEF Drop
    <3> HIDE DEF n
    <3> QED
      BY <2>0, <2>1, <2>8, <3>1, <3>2
  <2>6. CASE Copy(t)
    <3> DEFINE v == victim[t]
               n == TransferCount(t)
               b == MovedOut(buffer, v, from[t], count[t])
               s == Items(buffer, v, from[t], n)
    <3>1. /\ buffer' = Written(b, t, my_tail[t], s) /\ dropped' = dropped
          /\ out' = out \cup Read(buffer, v, from[t] + n, count[t] - n)
      BY <2>6 DEF Copy
    <3>2. /\ v \in Workers /\ n \in Int /\ from[t] + n \in Int /\ count[t] - n \in Int
          /\ from[t] \in Int /\ count[t] \in Int
      BY <2>1
    <3> HIDE DEF v, n
    <3>3. BufferShape(b)
      BY ONLY <2>0, <3>2, MovedOutCells DEF b
    <3>4. /\ \A k \in DOMAIN s : s[k] \in Content
          /\ Read(buffer, v, from[t] + n, count[t] - n) \subseteq Content
      BY <2>0, <3>2, ReadTypes
    <3> HIDE DEF b, s
    <3> QED
      BY <2>0, <2>1, <3>1, <3>3, <3>4, WrittenTypes DEF ItemTypes
  <2>7. CASE \/ Push(t) \/ (\E n \in 0 .. MaxCreated : Extend(t, n)) \/ Publish(t)
             \/ Pop(t) \/ PopCasOk(t) \/ PopCasFail(t)
             \/ (\E v \in Workers, name \in OpNames : Steal(t, v, name)) \/ DrainCall(t)
             \/ LoadHeads(t) \/ (\E n \in 0 .. Modulus - 1 : LoadTail(t, n))
             \/ BookOk(t) \/ BookFail(t) \/ PublishDest(t) \/ LoadCommit(t) \/ CommitOk(t)
             \/ CommitFail(t) \/ DrainLoad(t) \/ DrainCommit(t) \/ DrainLeak(t)
    <3>1. UNCHANGED <<buffer, dropped, out>>
      BY <2>7 DEF Push, Extend, Publish, Pop, PopCasOk, PopCasFail, Steal, DrainCall,
                  LoadHeads, LoadTail, BookOk, BookFail, PublishDest, LoadCommit, CommitOk,
                  CommitFail, DrainLoad, DrainCommit, DrainLeak, queueVars, itemVars
    <3> QED
      BY <3>1 DEF ItemTypes
  <2> QED
    BY <1>2, <2>2, <2>3, <2>4, <2>5, <2>6, <2>7 DEF Step
<1> QED
  BY <1>1, <1>2 DEF Next

-----------------------------------------------------------------------------
(* The results about positions. *)

(* Every variable keeps its type; in particular no count, position or free  *)
(* capacity the code computes in wrap-around arithmetic goes below zero.    *)
THEOREM TypesAreKept == Spec => []TypeOK
<1>1. PositionInv /\ ItemTypes => TypeOK
  BY DEF PositionInv, CounterTypes, ItemTypes, BufferShape, Content, TypeOK
<1> QED
  BY <1>1, InitPositionInv, NextPositionInv, InitItemTypes, NextItemTypes, PTL DEF Spec

(* The positions stay ordered and the occupied slots within the capacity,   *)
(* whatever push, pop, steal, steal_and_pop and drain do concurrently.      *)
THEOREM PositionsStayOrdered == Spec => []PositionsOrdered
<1>1. PositionInv => PositionsOrdered
  BY DEF PositionInv, Ordered, PositionsOrdered
<1> QED
  BY <1>1, InitPositionInv, NextPositionInv, PTL DEF Spec

(* book_items lets a single steal or drain onto a queue: the heads of the   *)
(* queue differ exactly while one is there, and the stealer head its        *)
(* completion finds is the one its booking returned, as the debug           *)
(* assertions of the completion loops say.                                  *)
THEOREM OneThiefAtATime == Spec => []OneThief
<1>1. PositionInv => OneThief
  <2> SUFFICES ASSUME PositionInv, NEW q \in Workers
               PROVE  LET thieves == {t \in Workers : Stealing(t) /\ victim[t] = q}
                      IN  /\ \A t, u \in thieves : t = u
                          /\ thieves # {} => draining[q] = "no"
                          /\ stealer_head[q] # worker_head[q] <=> thieves # {} \/ draining[q] # "no"
                          /\ \A t \in thieves : stealer_head[q] = from[t]
                          /\ draining[q] # "no" => drain_head[q] \in stealer_head[q] .. drain_to[q]
    BY DEF OneThief
  <2> DEFINE thieves == {t \in Workers : Stealing(t) /\ victim[t] = q}
  <2>0. /\ stealer_head[q] \in Nat /\ worker_head[q] \in Nat
        /\ drain_head[q] \in Nat /\ drain_to[q] \in Nat
    BY DEF PositionInv, CounterTypes
  <2>1. \A t, u \in thieves : t = u
    BY DEF PositionInv, Alone
  <2>2. ASSUME NEW t \in thieves
        PROVE  /\ draining[q] = "no" /\ stealer_head[q] # worker_head[q]
               /\ stealer_head[q] = from[t]
    <3>1. /\ stealer_head[q] = from[t] /\ from[t] + count[t] <= worker_head[q]
          /\ count[t] >= 1 /\ draining[q] = "no"
      BY DEF PositionInv, Holds
    <3>2. count[t] \in Nat /\ from[t] \in Nat
      BY DEF PositionInv, CounterTypes
    <3> QED
      BY ONLY <2>0, <3>1, <3>2
  <2>3. draining[q] # "no" => /\ stealer_head[q] # worker_head[q]
                              /\ drain_head[q] \in stealer_head[q] .. drain_to[q]
    <3>1. draining[q] # "no" => /\ stealer_head[q] <= drain_head[q] /\ drain_head[q] <= drain_to[q]
                                /\ stealer_head[q] < drain_to[q] /\ drain_to[q] <= worker_head[q]
      BY DEF PositionInv, DrainHolds
    <3> QED
      BY ONLY <2>0, <3>1
  <2>4. stealer_head[q] # worker_head[q] => thieves # {} \/ draining[q] # "no"
    BY DEF PositionInv, NoOrphan
  <2> HIDE DEF thieves
  <2>5. thieves # {} => draining[q] = "no" /\ stealer_head[q] # worker_head[q]
    BY <2>2
  <2>6. \A t \in thieves : stealer_head[q] = from[t]
    BY <2>2
  <2> QED
    BY <2>1, <2>3, <2>4, <2>5, <2>6 DEF thieves
<1> QED
  BY <1>1, InitPositionInv, NextPositionInv, PTL DEF Spec

(* steal and drain answer Empty only when the queue is empty, although they *)
(* load the heads and the tail one after the other.                         *)
THEOREM EmptyAnswersAreTrue == Spec => EmptyIsTrue
<1>1. ASSUME PositionInv, NEW t \in Workers, pc[t] = "load_tail", ItemCount(t) = 0
      PROVE  worker_head[victim[t]] = tail[victim[t]]
  <2> DEFINE v == victim[t]
  <2>1. v \in Workers
    BY <1>1 DEF PositionInv, CounterTypes
  <2>2. tail[v] - seen_worker[t] = 0
    BY <1>1, ItemCountExact
  <2> HIDE DEF v
  <2>3. /\ tail[v] \in Nat /\ stealer_head[v] \in Nat /\ worker_head[v] \in Nat
        /\ seen_worker[t] \in Nat
        /\ stealer_head[v] <= worker_head[v] /\ worker_head[v] <= tail[v]
        /\ seen_worker[t] <= stealer_head[v]
    BY <1>1, <2>1, BookingFacts DEF v, Booking
  <2>4. worker_head[v] = tail[v]
    BY ONLY <2>2, <2>3
  <2> QED
    BY <2>4 DEF v
<1>2. PositionInv /\ [Next]_vars
        => [\A t \in Workers :
               pc[t] = "load_tail" /\ pc'[t] = "idle" /\ ItemCount(t) = 0
                 => worker_head[victim[t]] = tail[victim[t]]]_vars
  BY <1>1
<1> QED
  BY <1>2, InitPositionInv, NextPositionInv, PTL DEF Spec, EmptyIsTrue

-----------------------------------------------------------------------------
(* Which slots hold an item.  A position of q is live when its slot does:   *)
(* its item can still be popped or booked, is claimed by the pop of the     *)
(* owner, is written but not published, or is booked by a thief or a Drain  *)
(* that has not moved it out yet.  (A leaked Drain keeps its items for      *)
(* ever, even when the queue is dropped.)                                   *)
BookedAt(q, p) ==
    \E t \in Workers :
        /\ pc[t] = "copy" /\ victim[t] = q
        /\ from[t] <= p /\ p < from[t] + count[t]

OwnAt(q, p) ==
    \/ pc[q] = "pop_read" /\ p = seen_worker[q]
    \/ pc[q] = "publish" /\ my_tail[q] <= p /\ p < my_tail[q] + count[q]
    \/ pc[q] = "publish_dest" /\ my_tail[q] <= p /\ p < my_tail[q] + TransferCount(q)

LiveAt(q, p) ==
    \/ q \notin dropped /\ worker_head[q] <= p /\ p < tail[q]
    \/ OwnAt(q, p)
    \/ draining[q] # "no" /\ drain_head[q] <= p /\ p < drain_to[q]
    \/ BookedAt(q, p)

Live(q) == {p \in Int : LiveAt(q, p)}

SlotsLive == \A q \in Workers : Occupied(buffer, q) = SlotsAt(q, Live(q))

(* The item a pop has claimed is nobody else's.  Its position may be left   *)
(* behind by both heads, but by less than a capacity: the owner, busy with  *)
(* the pop, pushes nothing.                                                 *)
PopReads(t) ==
    pc[t] = "pop_read" =>
        /\ seen_worker[t] < worker_head[t]
        /\ tail[t] <= seen_worker[t] + Capacity[t]
        /\ \A u \in Workers : Stealing(u) /\ victim[u] = t =>
              seen_worker[t] < from[u] \/ from[u] + count[u] <= seen_worker[t]
        /\ draining[t] # "no" => seen_worker[t] < stealer_head[t] \/ drain_to[t] <= seen_worker[t]

(* A Drain completes its steal after its last item. *)
LoadedEmpty(q) == draining[q] = "loaded" => drain_head[q] = drain_to[q]

HeldInv ==
    /\ \A t \in Workers : PopReads(t)
    /\ \A q \in Workers : LoadedEmpty(q)

(* No thread and no Drain works on a queue whose last handle is gone. *)
GoneIsQuiet ==
    \A q \in dropped :
        /\ pc[q] = "idle"
        /\ draining[q] \in {"no", "leaked"}
        /\ \A t \in Workers : pc[t] # "idle" => victim[t] # q

SlotInv == HeldInv /\ GoneIsQuiet /\ SlotsLive

(* The live positions lie in a window of one capacity: their slots differ.  *)
Floor(q) ==
    IF pc[q] = "pop_read" /\ seen_worker[q] < stealer_head[q]
    THEN seen_worker[q] ELSE stealer_head[q]

Window(q) == Floor(q) .. Floor(q) + Capacity[q] - 1

(* What the owner of a queue and a thief hold of it, from the invariant. *)
LEMMA Numbers ==
    ASSUME PositionInv, NEW t \in Workers
    PROVE  /\ worker_head[t] \in Nat /\ stealer_head[t] \in Nat /\ tail[t] \in Nat
           /\ Capacity[t] \in Nat /\ my_tail[t] \in Nat /\ count[t] \in Nat
           /\ seen_worker[t] \in Nat /\ seen_stealer[t] \in Nat /\ from[t] \in Nat
           /\ drain_head[t] \in Nat /\ drain_to[t] \in Nat /\ drain_seen[t] \in Nat
           /\ carried[t] \in Nat /\ victim[t] \in Workers
           /\ stealer_head[t] <= worker_head[t] /\ worker_head[t] <= tail[t]
           /\ tail[t] <= stealer_head[t] + Capacity[t]
           /\ TransferCount(t) \in Int
  BY CapacityFacts DEF PositionInv, CounterTypes, Ordered, TransferCount

(* The window ends behind the tail. *)
LEMMA WindowBounds ==
    ASSUME PositionInv, HeldInv, NEW q \in Workers
    PROVE  /\ Floor(q) \in Int /\ Floor(q) <= stealer_head[q]
           /\ tail[q] <= Floor(q) + Capacity[q]
           /\ Window(q) \subseteq Int /\ Near(q, Window(q))
<1>1. PopReads(q)
  BY DEF HeldInv
<1>2. Floor(q) \in Int /\ Floor(q) <= stealer_head[q] /\ tail[q] <= Floor(q) + Capacity[q]
  BY <1>1, Numbers DEF PopReads, Floor
<1> QED
  BY <1>2, WindowIsNear, Numbers DEF Window

(* A booking of q lies between its two heads, below everything that can be  *)
(* popped.                                                                  *)
LEMMA BookedBelow ==
    ASSUME PositionInv, NEW q \in Workers, NEW p \in Int, BookedAt(q, p)
    PROVE  stealer_head[q] <= p /\ p < worker_head[q] /\ draining[q] = "no"
<1>1. PICK t \in Workers : /\ pc[t] = "copy" /\ victim[t] = q
                           /\ from[t] <= p /\ p < from[t] + count[t]
  BY DEF BookedAt
<1>2. /\ stealer_head[q] = from[t] /\ from[t] + count[t] <= worker_head[q] /\ draining[q] = "no"
  BY <1>1 DEF PositionInv, Stealing, Holds
<1> QED
  BY <1>1, <1>2, Numbers

(* Every live position is in the window. *)
LEMMA LiveInWindow ==
    ASSUME PositionInv, HeldInv, NEW q \in Workers
    PROVE  Live(q) \subseteq Window(q)
<1> SUFFICES ASSUME NEW p \in Int, LiveAt(q, p) PROVE p \in Window(q)
  BY DEF Live
<1>1. /\ Floor(q) \in Int /\ Floor(q) <= stealer_head[q] /\ tail[q] <= Floor(q) + Capacity[q]
  BY WindowBounds
<1>2. PopReads(q) /\ KnowsTail(q) /\ DrainHolds(q)
  BY DEF PositionInv, HeldInv
<1>3. CASE worker_head[q] <= p /\ p < tail[q]
  BY <1>1, <1>3, Numbers DEF Window
<1>4. CASE pc[q] = "pop_read" /\ p = seen_worker[q]
  BY <1>1, <1>2, <1>4, Numbers DEF Window, PopReads, Floor
<1>5. CASE pc[q] = "publish" /\ my_tail[q] <= p /\ p < my_tail[q] + count[q]
  <2>1. my_tail[q] = tail[q] /\ tail[q] + count[q] <= stealer_head[q] + Capacity[q]
    BY <1>2, <1>5 DEF KnowsTail
  <2> QED
    BY <1>5, <2>1, Numbers DEF Window, Floor
<1>6. CASE pc[q] = "publish_dest" /\ my_tail[q] <= p /\ p < my_tail[q] + TransferCount(q)
  <2>1. my_tail[q] = tail[q] /\ tail[q] + TransferCount(q) <= stealer_head[q] + Capacity[q]
    BY <1>2, <1>6 DEF KnowsTail
  <2> QED
    BY <1>6, <2>1, Numbers DEF Window, Floor
<1>7. CASE draining[q] # "no" /\ drain_head[q] <= p /\ p < drain_to[q]
  <2>1. stealer_head[q] <= drain_head[q] /\ drain_to[q] <= worker_head[q]
    BY <1>2, <1>7 DEF DrainHolds
  <2> QED
    BY <1>1, <1>7, <2>1, Numbers DEF Window
<1>8. CASE BookedAt(q, p)
  <2>1. stealer_head[q] <= p /\ p < worker_head[q]
    BY <1>8, BookedBelow
  <2> QED
    BY <1>1, <2>1, Numbers DEF Window
<1> QED
  BY <1>3, <1>4, <1>5, <1>6, <1>7, <1>8 DEF LiveAt, OwnAt

(* A step that moves items out of the live positions gone and into the      *)
(* vacant positions new keeps the correspondence.                           *)
LEMMA SlotsFollow ==
    ASSUME PositionInv, HeldInv, SlotsLive, NEW q \in Workers,
           NEW gone \in SUBSET Window(q), NEW new \in SUBSET Window(q),
           Occupied(buffer', q) = (Occupied(buffer, q) \ SlotsAt(q, gone)) \cup SlotsAt(q, new),
           \A p \in Int : LiveAt(q, p)' <=> (LiveAt(q, p) /\ p \notin gone) \/ p \in new
    PROVE  Occupied(buffer, q)' = SlotsAt(q, Live(q))'
<1>1. Window(q) \subseteq Int /\ Near(q, Window(q)) /\ Live(q) \in SUBSET Window(q)
  BY WindowBounds, LiveInWindow
<1>2. Live(q)' = {p \in Int : LiveAt(q, p)'}
  BY DEF Live
<1>3. Live(q)' = (Live(q) \ gone) \cup new
  BY ONLY <1>1, <1>2, new \in SUBSET Window(q),
     \A p \in Int : LiveAt(q, p)' <=> (LiveAt(q, p) /\ p \notin gone) \/ p \in new
     DEF Live
<1>4. SlotsAt(q, Live(q) \ gone) = SlotsAt(q, Live(q)) \ SlotsAt(q, gone)
  BY ONLY <1>1, SlotsMinus, q \in Workers, gone \in SUBSET Window(q)
<1>5. SlotsAt(q, (Live(q) \ gone) \cup new) = SlotsAt(q, Live(q) \ gone) \cup SlotsAt(q, new)
  BY ONLY DEF SlotsAt
<1>6. Occupied(buffer, q) = SlotsAt(q, Live(q))
  BY DEF SlotsLive
<1>7. SlotsAt(q, Live(q))' = SlotsAt(q, Live(q)')
  BY DEF SlotsAt
<1>8. Occupied(buffer, q)' = Occupied(buffer', q)
  BY DEF Occupied
<1> QED
  BY ONLY <1>3, <1>4, <1>5, <1>6, <1>7, <1>8,
     Occupied(buffer', q) = (Occupied(buffer, q) \ SlotsAt(q, gone)) \cup SlotsAt(q, new)

(* A step that touches no slot and makes no position live or dead does too. *)
LEMMA SlotsStay ==
    ASSUME SlotsLive, NEW q \in Workers, buffer' = buffer,
           \A p \in Int : LiveAt(q, p)' <=> LiveAt(q, p)
    PROVE  Occupied(buffer, q)' = SlotsAt(q, Live(q))'
<1>1. Live(q)' = {p \in Int : LiveAt(q, p)'}
  BY DEF Live
<1>2. Live(q)' = Live(q)
  BY ONLY <1>1, \A p \in Int : LiveAt(q, p)' <=> LiveAt(q, p) DEF Live
<1>3. SlotsAt(q, Live(q))' = SlotsAt(q, Live(q)')
  BY DEF SlotsAt
<1>4. Occupied(buffer, q)' = Occupied(buffer, q)
  BY DEF Occupied
<1> QED
  BY ONLY <1>2, <1>3, <1>4, SlotsLive, q \in Workers DEF SlotsLive

Active == {"pop_read", "publish", "publish_dest", "copy"}

\* The locals of the threads other than t that matter here do not change.
OthersKeep(t) ==
    \A u \in Workers \ {t} :
        /\ pc'[u] = pc[u] /\ op'[u] = op[u] /\ victim'[u] = victim[u]
        /\ my_tail'[u] = my_tail[u] /\ seen_worker'[u] = seen_worker[u]
        /\ from'[u] = from[u] /\ count'[u] = count[u] /\ carried'[u] = carried[u]

(* A step of t changes no local variable of another thread. *)
LEMMA StepOthers ==
    ASSUME PositionInv, NEW t \in Workers, Step(t)
    PROVE  OthersKeep(t)
<1> USE DEF OthersKeep, PositionInv, CounterTypes, Goto, localVars, threadVars, seenVars
<1>1. CASE Push(t) \/ \E n \in 0 .. MaxCreated : Extend(t, n)
  BY <1>1 DEF Push, Extend, Call, LoadOwnTail, Carry
<1>6. CASE Write(t)
  <2>1. /\ pc' = [pc EXCEPT ![t] = "publish"] /\ UNCHANGED localVars
    BY <1>6 DEF Write
  <2> QED
    BY <2>1
<1>7. CASE Publish(t)
  BY <1>7 DEF Publish, Return
<1>2. CASE Pop(t) \/ PopCasOk(t) \/ PopCasFail(t) \/ PopRead(t)
  BY <1>2 DEF Pop, PopCasOk, PopCasFail, PopRead, Call, Return, LoadOwnTail, See
<1>3. CASE \/ (\E v \in Workers, name \in OpNames : Steal(t, v, name)) \/ DrainCall(t)
           \/ LoadHeads(t) \/ (\E n \in 0 .. Modulus - 1 : LoadTail(t, n))
  BY <1>3 DEF Steal, DrainCall, LoadHeads, LoadTail, BusyTest, See, Call, Return, LoadOwnTail
<1>4. CASE BookOk(t) \/ BookFail(t) \/ Copy(t) \/ PublishDest(t)
  BY <1>4 DEF BookOk, BookFail, BusyTest, See, Copy, PublishDest, Return
<1>8. CASE LoadCommit(t) \/ CommitOk(t) \/ CommitFail(t)
  BY <1>8 DEF LoadCommit, CommitOk, CommitFail, See, Return
<1>5. CASE DrainNext(t) \/ DrainLoad(t) \/ DrainCommit(t) \/ DrainLeak(t) \/ Drop(t)
  BY <1>5 DEF DrainNext, DrainLoad, DrainCommit, DrainLeak, Drop
<1> QED
  BY <1>1, <1>2, <1>3, <1>4, <1>5, <1>6, <1>7, <1>8 DEF Step

(* Bookings do not depend on a thread that copies neither before nor after. *)
LEMMA BookedStays ==
    ASSUME NEW t \in Workers, OthersKeep(t), pc[t] # "copy", pc'[t] # "copy",
           NEW q \in Workers, NEW p \in Int
    PROVE  BookedAt(q, p)' <=> BookedAt(q, p)
BY DEF OthersKeep, BookedAt

(* A queue whose positions, Drain and bookings stay, and whose owner is not *)
(* the thread that moves.                                                   *)
LEMMA OtherQueue ==
    ASSUME NEW t \in Workers, OthersKeep(t), NEW q \in Workers \ {t}, NEW p \in Int,
           worker_head'[q] = worker_head[q], tail'[q] = tail[q],
           q \in dropped' <=> q \in dropped,
           draining'[q] = "no" <=> draining[q] = "no",
           drain_head'[q] = drain_head[q], drain_to'[q] = drain_to[q],
           BookedAt(q, p)' <=> BookedAt(q, p)
    PROVE  LiveAt(q, p)' <=> LiveAt(q, p)
BY DEF LiveAt, OwnAt, OthersKeep, TransferCount

(* A step of a thread that holds no slot before or after it. *)
LEMMA QuietStep ==
    ASSUME SlotsLive, NEW t \in Workers, OthersKeep(t),
           pc[t] \notin Active, pc'[t] \notin Active,
           UNCHANGED <<worker_head, tail, buffer, dropped, drain_head, drain_to>>,
           \A q \in Workers : draining'[q] = "no" <=> draining[q] = "no"
    PROVE  SlotsLive'
<1>1. ASSUME NEW q \in Workers, NEW p \in Int PROVE LiveAt(q, p)' <=> LiveAt(q, p)
  <2>1. BookedAt(q, p)' <=> BookedAt(q, p)
    BY BookedStays DEF Active
  <2>3. CASE q = t
    BY <2>1, <2>3 DEF LiveAt, OwnAt, Active
  <2>4. CASE q # t
    BY <2>1, <2>4, OtherQueue
  <2> QED
    BY <2>3, <2>4
<1> QED
  BY <1>1, SlotsStay DEF SlotsLive

(* Initially no queue is gone and no slot holds an item. *)
LEMMA InitSlotInv == Init => SlotInv
<1> SUFFICES ASSUME Init PROVE SlotInv
  OBVIOUS
<1>1. GoneIsQuiet /\ HeldInv
  BY DEF Init, GoneIsQuiet, HeldInv, PopReads, LoadedEmpty
<1>2. ASSUME NEW q \in Workers PROVE Occupied(buffer, q) = SlotsAt(q, Live(q))
  <2>1. Occupied(buffer, q) = {}
    BY DEF Init, EmptyBuffers, Occupied
  <2>2. ASSUME NEW p \in Int PROVE ~ LiveAt(q, p)
    <3>1. worker_head[q] = tail[q] /\ tail[q] \in Int
      BY InitPositionInv DEF Init, PositionInv, CounterTypes
    <3>2. ~ BookedAt(q, p)
      BY DEF Init, BookedAt
    <3>3. pc[q] = "idle" /\ draining[q] = "no"
      BY DEF Init
    <3> QED
      BY <3>1, <3>2, <3>3 DEF LiveAt, OwnAt
  <2>4. Live(q) = {}
    BY ONLY <2>2 DEF Live
  <2> QED
    BY ONLY <2>1, <2>4 DEF SlotsAt
<1> QED
  BY <1>1, <1>2 DEF SlotInv, SlotsLive

(* A thread that is in a call got its handles before, or finds them alive. *)
LEMMA GoneStays ==
    ASSUME GoneIsQuiet, NEW t \in Workers, OthersKeep(t), dropped' = dropped,
           dropped \subseteq Workers,
           pc'[t] = "idle" \/ (t \notin dropped /\ victim'[t] \notin dropped),
           \A q \in Workers : draining'[q] \in {"no", "leaked"} \/ q \notin dropped
    PROVE  GoneIsQuiet'
BY DEF GoneIsQuiet, OthersKeep

(* A handle in use, or a Drain, keeps its queue alive. *)
LEMMA NextGone == PositionInv /\ ItemTypes /\ GoneIsQuiet /\ [Next]_vars => GoneIsQuiet'
<1> SUFFICES ASSUME PositionInv, ItemTypes, GoneIsQuiet, [Next]_vars PROVE GoneIsQuiet'
  OBVIOUS
<1> USE DEF Goto, queueVars, headsVars, localVars, threadVars, drainVars, seenVars
<1>1. CASE UNCHANGED vars
  BY <1>1 DEF vars, GoneIsQuiet
<1>2. ASSUME NEW t \in Workers, Step(t) PROVE GoneIsQuiet'
  <2>0. /\ OthersKeep(t) /\ dropped \subseteq Workers
        /\ pc \in [Workers -> {"idle", "write", "publish", "pop_cas", "pop_read",
                               "load_heads", "load_tail", "book", "copy",
                               "publish_dest", "load_commit", "commit"}]
        /\ victim \in [Workers -> Workers]
        /\ draining \in [Workers -> {"no", "active", "loaded", "leaked"}]
    BY <1>2, StepOthers DEF ItemTypes, PositionInv, CounterTypes
  <2>1. /\ pc[t] # "idle" => t \notin dropped /\ victim[t] \notin dropped
        /\ \A q \in Workers : draining[q] \in {"no", "leaked"} \/ q \notin dropped
    BY DEF GoneIsQuiet
  <2>2. CASE Push(t) \/ (\E n \in 0 .. MaxCreated : Extend(t, n)) \/ Pop(t) \/ DrainCall(t)
             \/ (\E v \in Workers, name \in OpNames : Steal(t, v, name))
    <3>1. /\ dropped' = dropped /\ draining' = draining
          /\ t \notin dropped /\ victim'[t] \notin dropped
      BY <2>0, <2>2 DEF Push, Extend, Pop, DrainCall, Steal, Call
    <3> QED
      BY ONLY <2>0, <2>1, <3>1, GoneIsQuiet, GoneStays, t \in Workers
  <2>3. CASE \/ Write(t) \/ Publish(t) \/ PopCasOk(t) \/ PopCasFail(t) \/ PopRead(t)
             \/ LoadHeads(t) \/ (\E n \in 0 .. Modulus - 1 : LoadTail(t, n))
             \/ BookFail(t) \/ Copy(t) \/ PublishDest(t) \/ LoadCommit(t) \/ CommitOk(t)
             \/ CommitFail(t)
    <3>1. /\ dropped' = dropped /\ draining' = draining /\ pc[t] # "idle"
          /\ pc'[t] = "idle" \/ victim'[t] = victim[t]
      BY <2>0, <2>3 DEF Write, Publish, PopCasOk, PopCasFail, PopRead, See, LoadHeads,
         BusyTest, LoadTail, BookFail, Copy, PublishDest, LoadCommit, CommitOk, CommitFail, Return
    <3> QED
      BY ONLY <2>0, <2>1, <3>1, GoneIsQuiet, GoneStays, t \in Workers
  <2>4. CASE BookOk(t)
    <3>1. /\ dropped' = dropped /\ pc[t] # "idle"
          /\ pc'[t] = "idle" \/ victim'[t] = victim[t]
          /\ \A q \in Workers : draining'[q] = draining[q] \/ q = t
      BY <2>0, <2>4 DEF BookOk, Return
    <3>2. \A q \in Workers : draining'[q] \in {"no", "leaked"} \/ q \notin dropped
      BY ONLY <2>1, <3>1
    <3> QED
      BY ONLY <2>0, <2>1, <3>1, <3>2, GoneIsQuiet, GoneStays, t \in Workers
  <2>5. CASE DrainNext(t) \/ DrainLoad(t) \/ DrainCommit(t) \/ DrainLeak(t)
    <3>1. /\ dropped' = dropped /\ pc' = pc /\ victim' = victim
          /\ draining[t] \notin {"no", "leaked"}
          /\ \A q \in Workers : draining'[q] = draining[q] \/ q = t
      BY <2>0, <2>5 DEF DrainNext, DrainLoad, DrainCommit, DrainLeak
    <3>2. \A q \in Workers : draining'[q] \in {"no", "leaked"} \/ q \notin dropped
      BY ONLY <2>1, <3>1
    <3> QED
      BY ONLY <2>0, <2>1, <3>1, <3>2, GoneIsQuiet, GoneStays, t \in Workers
  <2>6. CASE Drop(t)
    BY <2>0, <2>6 DEF Drop, GoneIsQuiet
  <2> QED
    BY <1>2, <2>2, <2>3, <2>4, <2>5, <2>6 DEF Step
<1> QED
  BY <1>1, <1>2 DEF Next

(* A pop that has claimed its item does not depend on what others do: heads *)
(* only move on, and a new booking starts at the worker head.               *)
LEMMA PopReadsStay ==
    ASSUME PositionInv, HeldInv, NEW t \in Workers,
           pc'[t] = "pop_read" =>
              pc[t] = "pop_read" /\ seen_worker'[t] = seen_worker[t] /\ tail'[t] = tail[t],
           worker_head'[t] \in Nat, stealer_head'[t] \in Nat,
           worker_head[t] <= worker_head'[t], stealer_head[t] <= stealer_head'[t],
           \A u \in Workers : Stealing(u)' /\ victim'[u] = t =>
              \/ /\ Stealing(u) /\ victim[u] = t
                 /\ from'[u] = from[u] /\ count'[u] = count[u]
              \/ worker_head[t] <= from'[u] /\ from'[u] \in Nat,
           pc'[t] = "pop_read" /\ draining'[t] # "no" =>
              draining[t] # "no" /\ drain_to'[t] = drain_to[t]
    PROVE  PopReads(t)'
<1> SUFFICES ASSUME pc'[t] = "pop_read" PROVE PopReads(t)'
  BY DEF PopReads
<1>1. /\ seen_worker[t] < worker_head[t] /\ tail[t] <= seen_worker[t] + Capacity[t]
      /\ \A u \in Workers : Stealing(u) /\ victim[u] = t =>
            seen_worker[t] < from[u] \/ from[u] + count[u] <= seen_worker[t]
      /\ draining[t] # "no" => seen_worker[t] < stealer_head[t] \/ drain_to[t] <= seen_worker[t]
  BY DEF HeldInv, PopReads
<1>2. /\ seen_worker[t] \in Nat /\ worker_head[t] \in Nat /\ stealer_head[t] \in Nat
      /\ seen_worker'[t] = seen_worker[t] /\ tail'[t] = tail[t]
  BY Numbers
<1>3. seen_worker'[t] < worker_head'[t]
  BY <1>1, <1>2
<1>4. ASSUME NEW u \in Workers, Stealing(u)', victim'[u] = t
      PROVE  seen_worker'[t] < from'[u] \/ from'[u] + count'[u] <= seen_worker'[t]
  BY <1>1, <1>2, <1>4
<1>5. draining'[t] # "no" => seen_worker'[t] < stealer_head'[t] \/ drain_to'[t] <= seen_worker'[t]
  BY <1>1, <1>2
<1> QED
  BY <1>1, <1>2, <1>3, <1>4, <1>5 DEF PopReads

(* No step disturbs a claim. *)
LEMMA NextHeld ==
    ASSUME PositionInv, PositionInv', HeldInv, [Next]_vars
    PROVE  HeldInv'
<1> USE DEF Goto, queueVars, headsVars, localVars, threadVars, drainVars, seenVars
<1>0. /\ pc \in [Workers -> {"idle", "write", "publish", "pop_cas", "pop_read",
                             "load_heads", "load_tail", "book", "copy",
                             "publish_dest", "load_commit", "commit"}]
      /\ victim \in [Workers -> Workers] /\ from \in [Workers -> Nat]
      /\ draining \in [Workers -> {"no", "active", "loaded", "leaked"}]
      /\ worker_head \in [Workers -> Nat] /\ stealer_head \in [Workers -> Nat]
      /\ tail \in [Workers -> Nat] /\ drain_to \in [Workers -> Nat]
      /\ drain_head \in [Workers -> Nat] /\ seen_worker \in [Workers -> Nat]
      /\ count \in [Workers -> Nat] /\ drain_seen \in [Workers -> Nat]
  BY DEF PositionInv, CounterTypes
<1>00. worker_head' \in [Workers -> Nat] /\ stealer_head' \in [Workers -> Nat]
  BY DEF PositionInv, CounterTypes
<1>1. CASE UNCHANGED vars
  BY <1>1 DEF vars, HeldInv, PopReads, LoadedEmpty, Stealing
<1>2. ASSUME NEW t \in Workers, Step(t) PROVE HeldInv'
  <2>0. OthersKeep(t)
    BY <1>2, StepOthers
  \* Steps of t that change neither heads nor Drains.
  <2>1. ASSUME UNCHANGED <<worker_head, stealer_head, drainVars>>,
               pc'[t] # "pop_read", \A q \in Workers \ {t} : tail'[q] = tail[q],
               Stealing(t)' => /\ Stealing(t) /\ victim'[t] = victim[t]
                               /\ from'[t] = from[t] /\ count'[t] = count[t]
        PROVE  HeldInv'
    <3>1. \A u \in Workers : Stealing(u)' =>
             /\ Stealing(u) /\ victim'[u] = victim[u]
             /\ from'[u] = from[u] /\ count'[u] = count[u]
      BY <2>0, <2>1 DEF OthersKeep, Stealing
    <3>2. ASSUME NEW q \in Workers PROVE PopReads(q)'
      <4>1. pc'[q] = "pop_read" =>
               pc[q] = "pop_read" /\ seen_worker'[q] = seen_worker[q] /\ tail'[q] = tail[q]
        BY <2>0, <2>1 DEF OthersKeep
      <4>2. worker_head'[q] \in Nat /\ stealer_head'[q] \in Nat
            /\ worker_head[q] <= worker_head'[q] /\ stealer_head[q] <= stealer_head'[q]
        BY <1>0, <2>1
      <4> QED
        BY <2>1, <3>1, <4>1, <4>2, PopReadsStay
    <3>3. ASSUME NEW q \in Workers PROVE LoadedEmpty(q)'
      BY <2>1 DEF HeldInv, LoadedEmpty
    <3> QED
      BY <3>2, <3>3 DEF HeldInv
  <2>2. CASE \/ Push(t) \/ (\E n \in 0 .. MaxCreated : Extend(t, n)) \/ Write(t) \/ Publish(t)
             \/ Pop(t) \/ PopCasFail(t) \/ PopRead(t)
             \/ (\E v \in Workers, name \in OpNames : Steal(t, v, name)) \/ DrainCall(t)
    <3>1. /\ UNCHANGED <<worker_head, stealer_head, drainVars>>
          /\ pc'[t] # "pop_read" /\ (\A q \in Workers \ {t} : tail'[q] = tail[q])
          /\ ~ Stealing(t)'
      BY <1>0, <2>2 DEF Push, Extend, Write, Publish, Pop, PopCasFail, PopRead, Steal,
                        DrainCall, Call, See, Return, Stealing
    <3> QED
      BY <2>1, <3>1
  <2>3. CASE LoadHeads(t) \/ (\E n \in 0 .. Modulus - 1 : LoadTail(t, n)) \/ BookFail(t)
    <3>1. /\ UNCHANGED <<worker_head, stealer_head, drainVars>>
          /\ pc'[t] # "pop_read" /\ (\A q \in Workers \ {t} : tail'[q] = tail[q])
          /\ ~ Stealing(t)'
      BY <1>0, <2>3 DEF LoadHeads, LoadTail, BookFail, BusyTest, See, Return, Stealing
    <3> QED
      BY <2>1, <3>1
  <2>4. CASE Copy(t) \/ PublishDest(t) \/ LoadCommit(t) \/ CommitFail(t)
    <3>1. /\ UNCHANGED <<worker_head, stealer_head, drainVars>>
          /\ pc'[t] # "pop_read" /\ (\A q \in Workers \ {t} : tail'[q] = tail[q])
          /\ Stealing(t) /\ victim'[t] = victim[t] /\ from'[t] = from[t] /\ count'[t] = count[t]
      BY <1>0, <2>4 DEF Copy, PublishDest, LoadCommit, CommitFail, See, Stealing
    <3> QED
      BY <2>1, <3>1
  <2>5. CASE PopCasOk(t)
    <3>0. /\ pc[t] = "pop_cas" /\ tail' = tail
          /\ pc' = [pc EXCEPT ![t] = "pop_read"] /\ UNCHANGED <<localVars, drainVars>>
          /\ worker_head' = [worker_head EXCEPT ![t] = seen_worker[t] + 1]
          /\ stealer_head'[t] \in {stealer_head[t], seen_stealer[t] + 1}
          /\ \A q \in Workers \ {t} : stealer_head'[q] = stealer_head[q]
      BY <1>0, <2>5, PopCasExact DEF PopCasOk
    <3>1. /\ worker_head[t] = seen_worker[t] /\ stealer_head[t] = seen_stealer[t]
      BY <2>5, PopCasExact DEF PopCasOk
    <3>2. \A u \in Workers : Stealing(u)' <=> Stealing(u)
      BY <1>0, <3>0 DEF Stealing
    <3>3. PopReads(t)'
      <4>1. seen_worker'[t] < worker_head'[t]
        BY <1>0, <3>0
      <4>2. tail'[t] <= seen_worker'[t] + Capacity[t]
        BY <3>0, <3>1, Numbers
      <4>3. ASSUME NEW u \in Workers, Stealing(u)', victim'[u] = t
            PROVE  from'[u] + count'[u] <= seen_worker'[t]
        <5>1. Stealing(u) /\ victim[u] = t
          BY <3>0, <3>2, <4>3
        <5>2. from[u] + count[u] <= worker_head[t]
          BY <5>1 DEF PositionInv, Holds
        <5> QED
          BY <3>0, <3>1, <5>2
      <4>4. draining'[t] # "no" => drain_to'[t] <= seen_worker'[t]
        BY <3>0, <3>1 DEF PositionInv, DrainHolds
      <4> QED
        BY <4>1, <4>2, <4>3, <4>4 DEF PopReads
    <3>4. ASSUME NEW q \in Workers \ {t} PROVE PopReads(q)'
      <4>1. /\ pc'[q] = pc[q] /\ seen_worker'[q] = seen_worker[q] /\ tail'[q] = tail[q]
            /\ worker_head'[q] = worker_head[q] /\ stealer_head'[q] = stealer_head[q]
        BY <1>0, <3>0
      <4>2. worker_head'[q] \in Nat /\ stealer_head'[q] \in Nat
            /\ worker_head[q] <= worker_head'[q] /\ stealer_head[q] <= stealer_head'[q]
        BY <1>0, <4>1
      <4>3. \A u \in Workers : Stealing(u)' /\ victim'[u] = q =>
               /\ Stealing(u) /\ victim[u] = q /\ from'[u] = from[u] /\ count'[u] = count[u]
        BY <3>0, <3>2
      <4>4. draining' = draining /\ drain_to' = drain_to
        BY <3>0
      <4> QED
        BY <4>1, <4>2, <4>3, <4>4, PopReadsStay
    <3>5. ASSUME NEW q \in Workers PROVE LoadedEmpty(q)'
      BY <3>0 DEF HeldInv, LoadedEmpty
    <3> QED
      BY <3>3, <3>4, <3>5 DEF HeldInv
  <2>6. CASE BookOk(t)
    <3> DEFINE v == victim[t]
    <3>0. /\ pc[t] = "book" /\ tail' = tail /\ v \in Workers /\ pc'[t] \in {"idle", "copy"}
          /\ worker_head' = [worker_head EXCEPT ![v] = seen_worker[t] + count[t]]
          /\ stealer_head' = [stealer_head EXCEPT ![v] = seen_stealer[t]]
          /\ pc'[t] = "copy" => from'[t] = seen_stealer[t] /\ victim'[t] = v
          /\ \A q \in Workers \ {t} : draining'[q] = draining[q] /\ drain_to'[q] = drain_to[q]
      BY <1>0, <2>6 DEF BookOk, Return
    <3>1. worker_head[v] = seen_worker[t] /\ stealer_head[v] = seen_worker[t]
          /\ seen_stealer[t] = seen_worker[t]
      BY <2>6, BookExact DEF BookOk
    <3>2. /\ stealer_head' = stealer_head
          /\ \A q \in Workers : worker_head[q] <= worker_head'[q]
          /\ seen_worker[t] \in Nat
      BY <1>0, <3>0, <3>1
    <3>3. ASSUME NEW q \in Workers PROVE PopReads(q)'
      <4>1. pc'[q] = "pop_read" =>
               q # t /\ pc[q] = "pop_read" /\ seen_worker'[q] = seen_worker[q] /\ tail'[q] = tail[q]
        BY <2>0, <3>0 DEF OthersKeep
      <4>2. worker_head'[q] \in Nat /\ stealer_head'[q] \in Nat
            /\ worker_head[q] <= worker_head'[q] /\ stealer_head[q] <= stealer_head'[q]
        BY <1>0, <1>00, <3>2
      <4>3. ASSUME NEW u \in Workers, Stealing(u)', victim'[u] = q
            PROVE  \/ /\ Stealing(u) /\ victim[u] = q
                      /\ from'[u] = from[u] /\ count'[u] = count[u]
                   \/ worker_head[q] <= from'[u] /\ from'[u] \in Nat
        <5>1. CASE u # t
          BY <2>0, <4>3, <5>1 DEF OthersKeep, Stealing
        <5>2. CASE u = t
          BY <3>0, <3>1, <3>2, <4>3, <5>2 DEF Stealing
        <5> QED
          BY <5>1, <5>2
      <4>4. pc'[q] = "pop_read" /\ draining'[q] # "no" =>
               draining[q] # "no" /\ drain_to'[q] = drain_to[q]
        BY <3>0, <4>1
      <4> QED
        BY <4>1, <4>2, <4>3, <4>4, PopReadsStay
    <3>4. ASSUME NEW q \in Workers PROVE LoadedEmpty(q)'
      BY <1>0, <2>6 DEF BookOk, HeldInv, LoadedEmpty
    <3> QED
      BY <3>3, <3>4 DEF HeldInv
  <2>7. CASE CommitOk(t)
    <3> DEFINE v == victim[t]
    <3>0. /\ pc[t] = "commit" /\ tail' = tail /\ v \in Workers /\ pc'[t] = "idle"
          /\ worker_head' = [worker_head EXCEPT ![v] = seen_worker[t]]
          /\ stealer_head' = [stealer_head EXCEPT ![v] = seen_worker[t]]
          /\ UNCHANGED drainVars
      BY <1>0, <2>7 DEF CommitOk, Return
    <3>1. worker_head[v] = seen_worker[t] /\ stealer_head[v] <= seen_worker[t]
      BY <2>7, CommitExact DEF CommitOk
    <3>2. \A q \in Workers : /\ worker_head[q] <= worker_head'[q]
                             /\ stealer_head[q] <= stealer_head'[q]
      BY <1>0, <3>0, <3>1
    <3>3. ASSUME NEW q \in Workers PROVE PopReads(q)'
      <4>1. pc'[q] = "pop_read" =>
               pc[q] = "pop_read" /\ seen_worker'[q] = seen_worker[q] /\ tail'[q] = tail[q]
        BY <2>0, <3>0 DEF OthersKeep
      <4>2. worker_head'[q] \in Nat /\ stealer_head'[q] \in Nat
            /\ worker_head[q] <= worker_head'[q] /\ stealer_head[q] <= stealer_head'[q]
        BY <1>00, <3>2
      <4>3. \A u \in Workers : Stealing(u)' /\ victim'[u] = q =>
               /\ Stealing(u) /\ victim[u] = q /\ from'[u] = from[u] /\ count'[u] = count[u]
        BY <2>0, <3>0 DEF OthersKeep, Stealing
      <4>4. draining' = draining /\ drain_to' = drain_to
        BY <3>0
      <4> QED
        BY <4>1, <4>2, <4>3, <4>4, PopReadsStay
    <3>4. ASSUME NEW q \in Workers PROVE LoadedEmpty(q)'
      BY <3>0 DEF HeldInv, LoadedEmpty
    <3> QED
      BY <3>3, <3>4 DEF HeldInv
  <2>8. CASE DrainNext(t) \/ DrainLoad(t) \/ DrainCommit(t) \/ DrainLeak(t) \/ Drop(t)
    <3>0. /\ UNCHANGED <<worker_head, tail, pc, localVars>>
          /\ \A q \in Workers : draining'[q] # "no" =>
                draining[q] # "no" /\ drain_to'[q] = drain_to[q]
      BY <1>0, <2>8 DEF DrainNext, DrainLoad, DrainCommit, DrainLeak, Drop
    <3>1. \A q \in Workers : stealer_head[q] <= stealer_head'[q]
      <4>1. CASE DrainCommit(t)
        <5>1. /\ stealer_head' = [stealer_head EXCEPT ![t] = drain_seen[t]]
              /\ draining[t] = "loaded"
          BY <4>1 DEF DrainCommit
        <5>2. stealer_head[t] < drain_to[t] /\ drain_to[t] <= drain_seen[t]
          BY <5>1 DEF PositionInv, DrainHolds
        <5>3. stealer_head[t] <= drain_seen[t]
          BY <1>0, <5>2
        <5> QED
          BY <1>0, <5>1, <5>3
      <4>2. CASE ~ DrainCommit(t)
        <5>1. stealer_head' = stealer_head
          BY <2>8, <4>2 DEF DrainNext, DrainLoad, DrainLeak, Drop
        <5> QED
          BY <1>0, <5>1
      <4> QED
        BY <4>1, <4>2
    <3>2. ASSUME NEW q \in Workers PROVE PopReads(q)'
      <4>1. worker_head'[q] \in Nat /\ stealer_head'[q] \in Nat
            /\ worker_head[q] <= worker_head'[q] /\ stealer_head[q] <= stealer_head'[q]
        BY <1>0, <1>00, <3>0, <3>1
      <4>2. \A u \in Workers : Stealing(u)' /\ victim'[u] = q =>
               /\ Stealing(u) /\ victim[u] = q /\ from'[u] = from[u] /\ count'[u] = count[u]
        BY <3>0 DEF Stealing
      <4>3. pc' = pc /\ seen_worker' = seen_worker /\ tail' = tail
        BY <3>0
      <4> QED
        BY <3>0, <4>1, <4>2, <4>3, PopReadsStay
    <3>3. ASSUME NEW q \in Workers PROVE LoadedEmpty(q)'
      <4>1. LoadedEmpty(q)
        BY DEF HeldInv
      <4>2. CASE DrainLoad(t)
        <5>1. drain_head[t] = drain_to[t]
          BY <4>2, DrainExact DEF DrainLoad, HeldInv, LoadedEmpty
        <5> QED
          BY <1>0, <4>1, <4>2, <5>1 DEF DrainLoad, LoadedEmpty
      <4>3. CASE ~ DrainLoad(t)
        BY <1>0, <2>8, <4>1, <4>3 DEF DrainNext, DrainCommit, DrainLeak, Drop, LoadedEmpty
      <4> QED
        BY <4>2, <4>3
    <3> QED
      BY <3>2, <3>3 DEF HeldInv
  <2> QED
    BY <1>2, <2>2, <2>3, <2>4, <2>5, <2>6, <2>7, <2>8 DEF Step
<1> QED
  BY <1>1, <1>2 DEF Next

(* A thief books at least one item. *)
LEMMA Transferred ==
    ASSUME PositionInv, NEW t \in Workers, Stealing(t)
    PROVE  TransferCount(t) \in 0 .. count[t]
<1>1. count[t] \in Nat /\ count[t] >= 1
  BY DEF PositionInv, CounterTypes, Holds
<1> QED
  BY <1>1 DEF TransferCount

(* A store of the tail publishes what was written. *)
LEMMA PublishSlots ==
    ASSUME PositionInv, SlotInv, NEW t \in Workers, Publish(t) \/ PublishDest(t)
    PROVE  SlotsLive'
<1> DEFINE n == IF pc[t] = "publish" THEN count[t] ELSE TransferCount(t)
<1>1. /\ pc[t] \in {"publish", "publish_dest"} /\ pc'[t] \notin Active
      /\ tail' = [tail EXCEPT ![t] = my_tail[t] + n]
      /\ UNCHANGED <<worker_head, buffer, dropped, drainVars>>
  BY DEF Publish, PublishDest, Return, Goto, PositionInv, CounterTypes, headsVars, Active
<1>2. OthersKeep(t)
  BY StepOthers DEF Step
<1>3. t \notin dropped
  BY <1>1 DEF SlotInv, GoneIsQuiet
<1>4. my_tail[t] = tail[t] /\ n \in Nat
  <2>1. my_tail[t] = tail[t]
    BY <1>1 DEF PositionInv, KnowsTail
  <2>2. pc[t] = "publish_dest" => TransferCount(t) \in 0 .. count[t]
    BY Transferred DEF Stealing
  <2>3. n \in Nat
    BY <1>1, <2>2, Numbers
  <2> QED
    BY <2>1, <2>3
<1>5. \A p \in Int : OwnAt(t, p) <=> tail[t] <= p /\ p < tail[t] + n
  BY <1>1, <1>4 DEF OwnAt
<1> HIDE DEF n
<1>6. tail'[t] = tail[t] + n /\ \A q \in Workers \ {t} : tail'[q] = tail[q]
  BY <1>1, <1>4 DEF PositionInv, CounterTypes
<1>7. ASSUME NEW q \in Workers, NEW p \in Int PROVE LiveAt(q, p)' <=> LiveAt(q, p)
  <2>1. BookedAt(q, p)' <=> BookedAt(q, p)
    BY <1>1, <1>2, BookedStays DEF Active
  <2>2. CASE q # t
    BY <1>1, <1>2, <1>6, <2>1, <2>2, OtherQueue DEF drainVars
  <2>3. CASE q = t
    <3>1. tail[t] \in Int /\ worker_head[t] \in Int /\ worker_head[t] <= tail[t]
      BY Numbers
    <3> DEFINE drained == draining[t] # "no" /\ drain_head[t] <= p /\ p < drain_to[t]
    <3>2. /\ LiveAt(t, p) <=> \/ worker_head[t] <= p /\ p < tail[t]
                              \/ tail[t] <= p /\ p < tail[t] + n
                              \/ drained \/ BookedAt(t, p)
      BY <1>3, <1>5 DEF LiveAt
    <3>3. /\ LiveAt(t, p)' <=> \/ worker_head[t] <= p /\ p < tail[t] + n
                               \/ drained \/ BookedAt(t, p)
      BY <1>1, <1>3, <1>6, <2>1, <2>3 DEF LiveAt, OwnAt, drainVars, Active
    <3> HIDE DEF drained
    <3> QED
      BY ONLY <1>4, <2>3, <3>1, <3>2, <3>3, p \in Int
  <2> QED
    BY <2>2, <2>3
<1> QED
  BY <1>1, <1>7, SlotsStay DEF SlotInv, SlotsLive

(* A pop that wins its compare-exchange takes the oldest item off the       *)
(* worker head and keeps its slot.                                          *)
LEMMA PopCasSlots ==
    ASSUME PositionInv, SlotInv, NEW t \in Workers, PopCasOk(t)
    PROVE  SlotsLive'
<1>1. /\ pc[t] = "pop_cas" /\ pc'[t] = "pop_read" /\ seen_worker' = seen_worker
      /\ worker_head' = [worker_head EXCEPT ![t] = seen_worker[t] + 1]
      /\ UNCHANGED <<tail, buffer, dropped, drainVars>>
  BY DEF PopCasOk, Goto, PositionInv, CounterTypes, localVars, seenVars
<1>2. OthersKeep(t)
  BY StepOthers DEF Step
<1>3. t \notin dropped
  BY <1>1 DEF SlotInv, GoneIsQuiet
<1>4. worker_head[t] = seen_worker[t] /\ seen_worker[t] < tail[t]
  BY <1>1, PopCasExact DEF PopCasOk, PositionInv, PopSaw
<1>5. /\ worker_head'[t] = worker_head[t] + 1
      /\ \A q \in Workers \ {t} : worker_head'[q] = worker_head[q]
  BY <1>1, <1>4 DEF PositionInv, CounterTypes
<1>6. ASSUME NEW q \in Workers, NEW p \in Int PROVE LiveAt(q, p)' <=> LiveAt(q, p)
  <2>1. BookedAt(q, p)' <=> BookedAt(q, p)
    BY <1>1, <1>2, BookedStays
  <2>2. CASE q # t
    BY <1>1, <1>2, <1>5, <2>1, <2>2, OtherQueue DEF drainVars
  <2>3. CASE q = t
    <3>1. tail[t] \in Int /\ worker_head[t] \in Int /\ worker_head[t] < tail[t]
      BY <1>4, Numbers
    <3> DEFINE drained == draining[t] # "no" /\ drain_head[t] <= p /\ p < drain_to[t]
    <3>2. /\ LiveAt(t, p) <=> \/ worker_head[t] <= p /\ p < tail[t]
                              \/ drained \/ BookedAt(t, p)
      BY <1>1, <1>3 DEF LiveAt, OwnAt
    <3>3. /\ LiveAt(t, p)' <=> \/ worker_head[t] + 1 <= p /\ p < tail[t]
                               \/ p = worker_head[t]
                               \/ drained \/ BookedAt(t, p)
      BY <1>1, <1>3, <1>4, <1>5, <2>1, <2>3 DEF LiveAt, OwnAt, drainVars
    <3> HIDE DEF drained
    <3> QED
      BY ONLY <2>3, <3>1, <3>2, <3>3, p \in Int
  <2> QED
    BY <2>2, <2>3
<1> QED
  BY <1>1, <1>6, SlotsStay DEF SlotInv, SlotsLive

(* A booking moves items from the tail's side of the worker head to the     *)
(* side of the thief, or of the Drain.                                      *)
LEMMA BookSlots ==
    ASSUME PositionInv, SlotInv, NEW t \in Workers, BookOk(t)
    PROVE  SlotsLive'
<1> DEFINE v == victim[t]
           f == seen_worker[t]
           c == count[t]
<1>1. /\ pc[t] = "book" /\ v \in Workers
      /\ worker_head' = [worker_head EXCEPT ![v] = f + c]
      /\ UNCHANGED <<tail, buffer, dropped>>
  BY DEF BookOk, PositionInv, CounterTypes
<1>2. OthersKeep(t)
  BY StepOthers DEF Step
<1>3. t \notin dropped /\ v \notin dropped
  BY <1>1 DEF SlotInv, GoneIsQuiet
<1>4. /\ worker_head[v] = f /\ stealer_head[v] = f /\ seen_stealer[t] = f
      /\ c \in Nat /\ f \in Nat /\ f + c <= tail[v]
      /\ op[t] = "drain" => v = t
  <2>1. worker_head[v] = f /\ stealer_head[v] = f /\ seen_stealer[t] = f
    BY BookExact DEF BookOk
  <2>2. f + c <= tail[v] /\ (op[t] = "drain" => v = t)
    BY <1>1 DEF PositionInv, ThiefSaw, Looking
  <2> QED
    BY <2>1, <2>2, Numbers
<1>5. /\ worker_head'[v] = f + c
      /\ \A q \in Workers \ {v} : worker_head'[q] = worker_head[q]
  BY <1>1 DEF PositionInv, CounterTypes
<1>9. draining[v] = "no"
  <2>1. draining[v] # "no" => stealer_head[v] < drain_to[v] /\ drain_to[v] <= worker_head[v]
    BY <1>1 DEF PositionInv, DrainHolds
  <2> QED
    BY <1>1, <1>4, <2>1, Numbers
<1>10. tail[v] \in Int /\ pc[t] \notin Active
  BY <1>1, Numbers DEF Active
<1>6. CASE op[t] = "drain"
  <2>1. /\ pc'[t] = "idle" /\ v = t
        /\ draining' = [draining EXCEPT ![t] = "active"]
        /\ drain_head' = [drain_head EXCEPT ![t] = f]
        /\ drain_to' = [drain_to EXCEPT ![t] = f + c]
    BY <1>4, <1>6 DEF BookOk, Return, Goto, PositionInv, CounterTypes
  <2>2. /\ draining'[t] = "active" /\ drain_head'[t] = f /\ drain_to'[t] = f + c
        /\ \A q \in Workers \ {t} : /\ draining'[q] = draining[q]
                                    /\ drain_head'[q] = drain_head[q]
                                    /\ drain_to'[q] = drain_to[q]
    BY <2>1 DEF PositionInv, CounterTypes
  <2> HIDE DEF v, f, c
  <2>3. ASSUME NEW q \in Workers, NEW p \in Int PROVE LiveAt(q, p)' <=> LiveAt(q, p)
    <3>1. BookedAt(q, p)' <=> BookedAt(q, p)
      BY <1>1, <1>2, <2>1, BookedStays
    <3>2. CASE q # t
      BY <1>1, <1>2, <1>5, <2>1, <2>2, <3>1, <3>2, OtherQueue
    <3>3. CASE q = t
      <4>2. LiveAt(t, p) <=> (f <= p /\ p < tail[t]) \/ BookedAt(t, p)
        BY <1>3, <1>4, <1>9, <1>10, <2>1 DEF LiveAt, OwnAt, Active
      <4>3. LiveAt(t, p)' <=> \/ f + c <= p /\ p < tail[t]
                              \/ f <= p /\ p < f + c
                              \/ BookedAt(t, p)
        BY <1>1, <1>3, <1>5, <2>1, <2>2, <3>1, <3>3 DEF LiveAt, OwnAt
      <4> QED
        BY ONLY <1>4, <1>10, <2>1, <3>3, <4>2, <4>3, p \in Int
    <3> QED
      BY <3>2, <3>3
  <2> QED
    BY <1>1, <2>3, SlotsStay DEF SlotInv, SlotsLive
<1>7. CASE op[t] # "drain"
  <2>1. /\ pc'[t] = "copy" /\ from'[t] = f
        /\ UNCHANGED <<op, victim, my_tail, count, drainVars>>
    BY <1>4, <1>7 DEF BookOk, Goto, PositionInv, CounterTypes
  <2>2. \A u \in Workers \ {t} : pc'[u] = pc[u] /\ from'[u] = from[u] /\ seen_worker'[u] = seen_worker[u]
    BY <1>2 DEF OthersKeep
  <2>3. ASSUME NEW q \in Workers, NEW p \in Int PROVE LiveAt(q, p)' <=> LiveAt(q, p)
    <3>1. BookedAt(q, p)' <=> \/ BookedAt(q, p)
                              \/ q = v /\ f <= p /\ p < f + c
      BY <1>1, <2>1, <2>2 DEF BookedAt
    <3>2. OwnAt(q, p)' <=> OwnAt(q, p)
      <4>1. CASE q = t
        BY <1>10, <2>1, <4>1 DEF OwnAt, Active
      <4>2. CASE q # t
        BY <2>1, <2>2, <4>2 DEF OwnAt, TransferCount
      <4> QED
        BY <4>1, <4>2
    <3> HIDE DEF v, f, c
    <3>3. CASE q = v
      <4>2. LiveAt(v, p) <=> \/ f <= p /\ p < tail[v]
                             \/ OwnAt(v, p) \/ BookedAt(v, p)
        BY <1>3, <1>4, <1>9 DEF LiveAt
      <4>3. LiveAt(q, p)' <=> \/ f + c <= p /\ p < tail[v]
                              \/ OwnAt(v, p) \/ BookedAt(v, p)
                              \/ f <= p /\ p < f + c
        BY <1>1, <1>3, <1>5, <1>9, <2>1, <3>1, <3>2, <3>3 DEF LiveAt, drainVars
      <4> QED
        BY ONLY <1>4, <1>10, <3>3, <4>2, <4>3, p \in Int
    <3>4. CASE q # v
      BY <1>1, <1>5, <2>1, <3>1, <3>2, <3>4 DEF LiveAt, drainVars
    <3> QED
      BY <3>3, <3>4
  <2> QED
    BY <1>1, <2>3, SlotsStay DEF SlotInv, SlotsLive
<1> QED
  BY <1>6, <1>7

(* A Drain that completes its steal has moved everything out. *)
LEMMA DrainCommitSlots ==
    ASSUME PositionInv, SlotInv, NEW t \in Workers, DrainCommit(t)
    PROVE  SlotsLive'
<1>1. /\ draining[t] = "loaded"
      /\ draining' = [draining EXCEPT ![t] = "no"]
      /\ drain_head' = [drain_head EXCEPT ![t] = 0]
      /\ drain_to' = [drain_to EXCEPT ![t] = 0]
      /\ UNCHANGED <<worker_head, tail, buffer, dropped, pc, localVars>>
  BY DEF DrainCommit, threadVars
<1>2. OthersKeep(t)
  BY StepOthers DEF Step
<1>3. drain_head[t] = drain_to[t] /\ drain_to[t] \in Int
  BY <1>1, Numbers DEF SlotInv, HeldInv, LoadedEmpty
<1>4. ASSUME NEW q \in Workers, NEW p \in Int PROVE LiveAt(q, p)' <=> LiveAt(q, p)
  <2>1. BookedAt(q, p)' <=> BookedAt(q, p)
    BY <1>1 DEF BookedAt, localVars
  <2>2. CASE q = t
    <3>1. draining'[t] = "no" /\ ~ (drain_head[t] <= p /\ p < drain_to[t])
      BY <1>1, <1>3 DEF PositionInv, CounterTypes
    <3>2. OwnAt(q, p)' <=> OwnAt(q, p)
      BY <1>1 DEF OwnAt, localVars, seenVars, TransferCount
    <3> QED
      BY <1>1, <2>1, <2>2, <3>1, <3>2 DEF LiveAt
  <2>3. CASE q # t
    <3>1. /\ draining'[q] = draining[q] /\ drain_head'[q] = drain_head[q]
          /\ drain_to'[q] = drain_to[q]
      BY <1>1, <2>3 DEF PositionInv, CounterTypes
    <3> QED
      BY <1>1, <1>2, <2>1, <2>3, <3>1, OtherQueue
  <2> QED
    BY <2>2, <2>3
<1> QED
  BY <1>1, <1>4, SlotsStay DEF SlotInv, SlotsLive

(* The positions a thread is about to write to are in the window, behind    *)
(* the tail: no live position is among them.                                *)
LEMMA RoomToWrite ==
    ASSUME PositionInv, NEW t \in Workers, pc[t] \in {"write", "copy"},
           NEW n \in Nat, IF pc[t] = "write" THEN n = count[t] ELSE n = TransferCount(t)
    PROVE  /\ my_tail[t] = tail[t]
           /\ my_tail[t] .. my_tail[t] + n - 1 \subseteq Window(t)
           /\ n <= Capacity[t]
           /\ \A p \in my_tail[t] .. my_tail[t] + n - 1 : ~ LiveAt(t, p)
<1>1. my_tail[t] = tail[t]
  BY DEF PositionInv, KnowsTail
<1>2. my_tail[t] + n <= stealer_head[t] + Capacity[t]
  BY <1>1 DEF PositionInv, KnowsTail
<1>3. my_tail[t] .. my_tail[t] + n - 1 \subseteq Window(t) /\ n <= Capacity[t]
  BY <1>1, <1>2, Numbers DEF Window, Floor
<1>4. ASSUME NEW p \in my_tail[t] .. my_tail[t] + n - 1 PROVE ~ LiveAt(t, p)
  <2>1. p \in Int /\ tail[t] <= p /\ worker_head[t] <= p
    BY <1>1, Numbers
  <2>2. ~ OwnAt(t, p)
    BY DEF OwnAt
  <2>3. ~ BookedAt(t, p)
    BY <2>1, BookedBelow, Numbers
  <2>4. draining[t] # "no" => drain_to[t] <= p
    BY <2>1, Numbers DEF PositionInv, DrainHolds
  <2> QED
    BY <2>1, <2>2, <2>3, <2>4, Numbers DEF LiveAt
<1> QED
  BY <1>1, <1>3, <1>4

(* What the owner holds is booked neither by a thief nor by its Drain. *)
LEMMA OwnApart ==
    ASSUME PositionInv, HeldInv, NEW t \in Workers, NEW p \in Int, OwnAt(t, p)
    PROVE  /\ draining[t] # "no" => p < drain_head[t] \/ drain_to[t] <= p
           /\ ~ BookedAt(t, p)
           /\ pc[t] = "pop_read" => p < worker_head[t]
<1>0. draining[t] # "no" => stealer_head[t] <= drain_head[t] /\ drain_to[t] <= worker_head[t]
  BY DEF PositionInv, DrainHolds
<1>1. CASE pc[t] = "pop_read"
  <2>1. /\ p = seen_worker[t] /\ p < worker_head[t]
        /\ \A u \in Workers : Stealing(u) /\ victim[u] = t => p < from[u] \/ from[u] + count[u] <= p
        /\ draining[t] # "no" => p < stealer_head[t] \/ drain_to[t] <= p
    BY <1>1 DEF OwnAt, HeldInv, PopReads
  <2>2. draining[t] # "no" => p < drain_head[t] \/ drain_to[t] <= p
    BY <1>0, <2>1, Numbers
  <2>3. ASSUME NEW u \in Workers, pc[u] = "copy", victim[u] = t
        PROVE  ~ (from[u] <= p /\ p < from[u] + count[u])
    BY <2>1, <2>3, Numbers DEF Stealing
  <2> QED
    BY <2>1, <2>2, <2>3 DEF BookedAt
<1>2. CASE pc[t] \in {"publish", "publish_dest"}
  <2>1. tail[t] <= p
    BY <1>2 DEF OwnAt, PositionInv, KnowsTail
  <2> QED
    BY <1>0, <1>2, <2>1, BookedBelow, Numbers
<1> QED
  BY <1>1, <1>2 DEF OwnAt

(* push and extend fill slots that nobody uses ... *)
LEMMA WriteSlots ==
    ASSUME PositionInv, ItemTypes, SlotInv, NEW t \in Workers, Write(t)
    PROVE  SlotsLive'
<1> DEFINE s == [k \in 0 .. count[t] - 1 |-> carried[t] + 1 + k]
           new == my_tail[t] .. my_tail[t] + count[t] - 1
<1>1. /\ pc[t] = "write" /\ pc'[t] = "publish"
      /\ buffer' = Written(buffer, t, my_tail[t], s)
      /\ UNCHANGED <<worker_head, tail, dropped, localVars, drainVars>>
  BY DEF Write, Goto, headsVars, PositionInv, CounterTypes
<1>2. OthersKeep(t)
  BY StepOthers DEF Step
<1>3. /\ new \subseteq Window(t) /\ count[t] <= Capacity[t]
  BY <1>1, RoomToWrite, Numbers
<1>4. /\ s \in [0 .. count[t] - 1 -> Content]
      /\ \A k \in 0 .. count[t] - 1 : s[k] # Vacant
  BY Numbers, ClientAssumption DEF Content
<1>5. BufferShape(buffer) /\ my_tail[t] \in Int /\ count[t] \in Nat
  BY Numbers DEF ItemTypes
<1> HIDE DEF s
<1>6. ASSUME NEW q \in Workers
      PROVE  Occupied(buffer', q)
               = IF q = t THEN Occupied(buffer, t) \cup Slots(t, my_tail[t], count[t])
                 ELSE Occupied(buffer, q)
  <2>1. FilledIn(buffer', buffer, t, my_tail[t], count[t], s)
    BY ONLY <1>1, <1>3, <1>4, <1>5, WrittenCells, t \in Workers
  <2>2. \A k \in 0 .. count[t] - 1 : s[k] # Vacant
    BY ONLY <1>4
  <2>3. WriteFits(buffer', buffer, t, my_tail[t], count[t], s)
    BY ONLY <1>5, <2>1, <2>2, t \in Workers DEF WriteFits
  <2> QED
    BY ONLY <2>3, WriteOccupies, q \in Workers
<1>7. ASSUME NEW q \in Workers PROVE Occupied(buffer, q)' = SlotsAt(q, Live(q))'
  <2>1. ASSUME NEW p \in Int PROVE BookedAt(q, p)' <=> BookedAt(q, p)
    BY <1>1, <1>2, BookedStays
  <2>3. CASE q # t
    <3>1. ASSUME NEW p \in Int PROVE LiveAt(q, p)' <=> LiveAt(q, p)
      BY <1>1, <1>2, <2>1, <2>3, OtherQueue DEF drainVars
    <3>2. Occupied(buffer', q) = (Occupied(buffer, q) \ SlotsAt(q, {})) \cup SlotsAt(q, {})
      BY ONLY <1>6, <2>3 DEF SlotsAt
    <3> QED
      BY <3>1, <3>2, SlotsFollow DEF SlotInv
  <2>4. CASE q = t
    <3>1. ASSUME NEW p \in Int
          PROVE  LiveAt(q, p)' <=> (LiveAt(q, p) /\ p \notin {}) \/ p \in new
      <4>1. ~ OwnAt(q, p)
        BY <1>1, <2>4 DEF OwnAt
      <4>2. OwnAt(q, p)' <=> my_tail[t] <= p /\ p < my_tail[t] + count[t]
        BY <1>1, <2>4 DEF OwnAt, localVars
      <4>3. p \in new <=> my_tail[t] <= p /\ p < my_tail[t] + count[t]
        BY Numbers
      <4> HIDE DEF new
      <4> QED
        BY <1>1, <2>1, <4>1, <4>2, <4>3 DEF LiveAt, drainVars
    <3>2. Occupied(buffer', q) = (Occupied(buffer, q) \ SlotsAt(q, {})) \cup SlotsAt(q, new)
      <4>1. Slots(t, my_tail[t], count[t]) = SlotsAt(t, new)
        BY <1>5, SlotsOfRun
      <4> QED
        BY ONLY <1>6, <2>4, <4>1 DEF SlotsAt
    <3> HIDE DEF new
    <3> QED
      BY <1>3, <2>4, <3>1, <3>2, SlotsFollow DEF SlotInv
  <2> QED
    BY <2>3, <2>4
<1> QED
  BY <1>7 DEF SlotsLive

(* A step that only moves items out, and takes the positions it moves them  *)
(* from out of the live ones.                                               *)
LEMMA MovedOutSlots ==
    ASSUME PositionInv, ItemTypes, SlotInv,
           NEW v \in Workers, NEW f \in Int, NEW n \in Int,
           f .. f + n - 1 \subseteq Window(v),
           buffer' = MovedOut(buffer, v, f, n),
           \A q \in Workers : \A p \in Int :
              LiveAt(q, p)' <=> LiveAt(q, p) /\ ~ (q = v /\ f <= p /\ p < f + n)
    PROVE  SlotsLive'
<1> DEFINE gone == f .. f + n - 1
<1>1. ASSUME NEW q \in Workers PROVE Occupied(buffer, q)' = SlotsAt(q, Live(q))'
  <2>1. Occupied(buffer', q)
          = IF q = v THEN Occupied(buffer, v) \ Slots(v, f, n) ELSE Occupied(buffer, q)
    BY MovedOutOccupied DEF ItemTypes
  <2>2. CASE q # v
    <3>1. \A p \in Int : LiveAt(q, p)' <=> (LiveAt(q, p) /\ p \notin {}) \/ p \in {}
      BY <2>2
    <3>2. Occupied(buffer', q) = (Occupied(buffer, q) \ SlotsAt(q, {})) \cup SlotsAt(q, {})
      BY ONLY <2>1, <2>2 DEF SlotsAt
    <3> QED
      BY <3>1, <3>2, SlotsFollow DEF SlotInv
  <2>3. CASE q = v
    <3>1. \A p \in Int : LiveAt(q, p)' <=> (LiveAt(q, p) /\ p \notin gone) \/ p \in {}
      BY <2>3
    <3>2. Occupied(buffer', q) = (Occupied(buffer, q) \ SlotsAt(q, gone)) \cup SlotsAt(q, {})
      <4>1. Slots(v, f, n) = SlotsAt(v, gone)
        BY SlotsOfRun
      <4> QED
        BY ONLY <2>1, <2>3, <4>1 DEF SlotsAt
    <3>3. gone \subseteq Window(q)
      BY <2>3
    <3> HIDE DEF gone
    <3> QED
      BY <3>1, <3>2, <3>3, SlotsFollow DEF SlotInv
  <2> QED
    BY <2>2, <2>3
<1> QED
  BY <1>1 DEF SlotsLive

(* ... pop empties the slot it claimed, *)
LEMMA PopReadSlots ==
    ASSUME PositionInv, ItemTypes, SlotInv, NEW t \in Workers, PopRead(t)
    PROVE  SlotsLive'
<1> DEFINE f == seen_worker[t]
<1>1. /\ pc[t] = "pop_read" /\ pc'[t] = "idle"
      /\ buffer' = MovedOut(buffer, t, f, 1)
      /\ UNCHANGED <<worker_head, tail, dropped, drainVars>>
  BY DEF PopRead, Return, Goto, headsVars, PositionInv, CounterTypes
<1>2. OthersKeep(t)
  BY StepOthers DEF Step
<1>4. f \in Int /\ OwnAt(t, f) /\ \A p \in Int : p = f <=> (f <= p /\ p < f + 1)
  BY <1>1, Numbers DEF OwnAt
<1>5. f .. f + 1 - 1 \subseteq Window(t)
  <2>1. f \in Live(t)
    BY <1>4 DEF LiveAt, Live
  <2>2. f \in Window(t)
    BY <2>1, LiveInWindow DEF SlotInv
  <2> QED
    BY <1>4, <2>2
<1>6. ASSUME NEW q \in Workers, NEW p \in Int
      PROVE  LiveAt(q, p)' <=> LiveAt(q, p) /\ ~ (q = t /\ f <= p /\ p < f + 1)
  <2>1. BookedAt(q, p)' <=> BookedAt(q, p)
    BY <1>1, <1>2, BookedStays
  <2>3. CASE q # t
    BY <1>1, <1>2, <2>1, <2>3, OtherQueue DEF drainVars
  <2>4. CASE q = t
    <3>1. OwnAt(t, p) <=> p = f
      BY <1>1 DEF OwnAt
    <3>2. ~ OwnAt(q, p)'
      BY <1>1, <2>4 DEF OwnAt
    <3>3. /\ ~ BookedAt(t, f) /\ f < worker_head[t]
          /\ draining[t] # "no" => f < drain_head[t] \/ drain_to[t] <= f
      BY <1>1, <1>4, OwnApart DEF SlotInv
    <3>4. worker_head[t] \in Int /\ drain_head[t] \in Int /\ drain_to[t] \in Int
      BY Numbers
    <3> DEFINE rest == \/ q \notin dropped /\ worker_head[q] <= p /\ p < tail[q]
                       \/ draining[q] # "no" /\ drain_head[q] <= p /\ p < drain_to[q]
                       \/ BookedAt(q, p)
    <3>5. p = f => ~ rest
      BY <1>4, <2>4, <3>3, <3>4
    <3>6. p = f <=> (f <= p /\ p < f + 1)
      BY <1>4
    <3>7. LiveAt(q, p) <=> rest \/ p = f
      BY <2>4, <3>1 DEF LiveAt
    <3>8. LiveAt(q, p)' <=> rest
      BY <1>1, <2>1, <2>4, <3>2 DEF LiveAt, drainVars
    <3> HIDE DEF f, rest
    <3> QED
      BY ONLY <2>4, <3>5, <3>6, <3>7, <3>8
  <2> QED
    BY <2>3, <2>4
<1> HIDE DEF f
<1> QED
  BY <1>1, <1>4, <1>5, <1>6, MovedOutSlots

(* ... and so does the Drain with every item it returns. *)
LEMMA DrainNextSlots ==
    ASSUME PositionInv, ItemTypes, SlotInv, NEW t \in Workers, DrainNext(t)
    PROVE  SlotsLive'
<1> DEFINE f == drain_head[t]
<1>1. /\ draining[t] = "active" /\ f # drain_to[t]
      /\ drain_head' = [drain_head EXCEPT ![t] = f + 1]
      /\ buffer' = MovedOut(buffer, t, f, 1)
      /\ UNCHANGED <<worker_head, tail, dropped, pc, localVars, draining, drain_to>>
  BY DEF DrainNext, headsVars, threadVars
<1>2. OthersKeep(t)
  BY StepOthers DEF Step
<1>3. /\ f \in Int /\ drain_to[t] \in Int /\ f < drain_to[t]
      /\ stealer_head[t] <= f /\ drain_to[t] <= worker_head[t] /\ worker_head[t] \in Int
  <2>1. /\ stealer_head[t] <= f /\ f <= drain_to[t] /\ drain_to[t] <= worker_head[t]
    BY <1>1 DEF PositionInv, DrainHolds
  <2> QED
    BY <1>1, <2>1, Numbers
<1>5. f .. f + 1 - 1 \subseteq Window(t)
  <2>1. f \in Live(t)
    BY <1>1, <1>3 DEF LiveAt, Live
  <2>2. f \in Window(t)
    BY <2>1, LiveInWindow DEF SlotInv
  <2> QED
    BY <1>3, <2>2
<1>6. ASSUME NEW q \in Workers, NEW p \in Int
      PROVE  LiveAt(q, p)' <=> LiveAt(q, p) /\ ~ (q = t /\ f <= p /\ p < f + 1)
  <2>1. BookedAt(q, p)' <=> BookedAt(q, p)
    BY <1>1 DEF BookedAt, localVars
  <2>3. CASE q # t
    <3>1. drain_head'[q] = drain_head[q]
      BY <1>1, <2>3 DEF PositionInv, CounterTypes
    <3> QED
      BY <1>1, <1>2, <2>1, <2>3, <3>1, OtherQueue
  <2>4. CASE q = t
    <3>0. drain_head'[t] = f + 1
      BY <1>1 DEF PositionInv, CounterTypes
    <3>1. OwnAt(q, p)' <=> OwnAt(q, p)
      BY <1>1 DEF OwnAt, localVars, seenVars, TransferCount
    <3>2. ~ BookedAt(t, p)
      BY <1>1, BookedBelow
    <3>3. OwnAt(t, p) => p < f \/ drain_to[t] <= p
      BY <1>1, OwnApart DEF SlotInv
    <3> DEFINE rest == \/ t \notin dropped /\ worker_head[t] <= p /\ p < tail[t]
                       \/ OwnAt(t, p)
    <3>4. LiveAt(t, p) <=> rest \/ (f <= p /\ p < drain_to[t])
      BY <1>1, <3>2 DEF LiveAt
    <3>5. LiveAt(t, p)' <=> rest \/ (f + 1 <= p /\ p < drain_to[t])
      BY <1>1, <2>1, <2>4, <3>0, <3>1, <3>2 DEF LiveAt
    <3>6. p = f => ~ rest
      BY <1>3, <3>3
    <3> HIDE DEF f, rest
    <3> QED
      BY ONLY <1>3, <2>4, <3>4, <3>5, <3>6, p \in Int
  <2> QED
    BY <2>3, <2>4
<1> HIDE DEF f
<1> QED
  BY <1>1, <1>3, <1>5, <1>6, MovedOutSlots

(* A thief moves its booking to the free slots of its own queue. *)
LEMMA CopySlots ==
    ASSUME PositionInv, ItemTypes, SlotInv, Unique(buffer), NEW t \in Workers, Copy(t)
    PROVE  /\ SlotsLive'
           /\ Slots(victim[t], from[t], count[t]) \subseteq Occupied(buffer, victim[t])
           /\ Slots(t, my_tail[t], TransferCount(t)) \cap Occupied(buffer, t) = {}
<1> DEFINE v == victim[t]
           c == count[t]
           n == TransferCount(t)
           f == from[t]
           gone == f .. f + c - 1
           new == my_tail[t] .. my_tail[t] + n - 1
<1>1. /\ pc[t] = "copy" /\ pc'[t] = "publish_dest" /\ v \in Workers
      /\ buffer' = Copied(buffer, v, f, c, t, my_tail[t], n)
      /\ UNCHANGED <<worker_head, tail, dropped, localVars, drainVars>>
  BY DEF Copy, Copied, Goto, headsVars, PositionInv, CounterTypes
<1>2. OthersKeep(t)
  BY StepOthers DEF Step
<1>3. n \in 0 .. c /\ c \in Nat /\ f \in Nat /\ my_tail[t] \in Nat
  BY <1>1, Transferred, Numbers DEF Stealing
<1>4. /\ stealer_head[v] = f /\ f + c <= worker_head[v] /\ draining[v] = "no"
  BY <1>1 DEF PositionInv, Holds, Stealing
<1>6. /\ new \subseteq Window(t) /\ n <= Capacity[t]
      /\ \A p \in new : ~ LiveAt(t, p)
  BY <1>1, <1>3, RoomToWrite
<1>7. \A p \in gone : LiveAt(v, p)
  <2>1. ASSUME NEW p \in gone PROVE f <= p /\ p < f + c
    BY <1>3
  <2>2. \A p \in gone : BookedAt(v, p)
    BY <1>1, <2>1 DEF BookedAt
  <2> QED
    BY <2>2 DEF LiveAt
<1>8. Slots(v, f, c) = SlotsAt(v, gone) /\ Slots(t, my_tail[t], n) = SlotsAt(t, new)
  BY <1>1, <1>3, SlotsOfRun
<1>9. \A q \in Workers : Near(q, Window(q)) /\ Live(q) \in SUBSET Window(q)
  BY WindowBounds, LiveInWindow DEF SlotInv
<1>14. \A p : /\ p \in gone <=> p \in Int /\ f <= p /\ p < f + c
              /\ p \in new <=> p \in Int /\ my_tail[t] <= p /\ p < my_tail[t] + n
  BY <1>3
<1>5. gone \subseteq Live(v) /\ gone \subseteq Window(v) /\ c <= Capacity[v]
  <2>1. gone \subseteq Live(v)
    BY ONLY <1>7, <1>14 DEF Live
  <2>2. /\ f + c <= stealer_head[v] + Capacity[v] /\ Capacity[v] \in Nat
    BY <1>1, <1>4, Numbers
  <2>3. c <= Capacity[v]
    BY ONLY <1>3, <1>4, <2>2
  <2> QED
    BY ONLY <1>1, <1>9, <2>1, <2>3
<1> HIDE DEF gone, new, v, c, n, f
<1>10. Slots(v, f, c) \subseteq Occupied(buffer, v)
  BY <1>1, <1>5, <1>8 DEF SlotInv, SlotsLive, SlotsAt
<1>11. Slots(t, my_tail[t], n) \cap Occupied(buffer, t) = {}
  <2>1. new \cap Live(t) = {}
    BY ONLY <1>6 DEF Live
  <2>2. SlotsAt(t, new) \cap SlotsAt(t, Live(t)) = {}
    <3>1. new \in SUBSET Window(t) /\ Live(t) \in SUBSET Window(t) /\ Near(t, Window(t))
      BY ONLY <1>6, <1>9, t \in Workers
    <3> QED
      BY ONLY <2>1, <3>1, SlotsDisjoint, t \in Workers
  <2> QED
    BY <1>8, <2>2 DEF SlotInv, SlotsLive
<1>12. ASSUME NEW q \in Workers
       PROVE  Occupied(buffer', q)
                = (IF q = v THEN Occupied(buffer, q) \ Slots(v, f, c) ELSE Occupied(buffer, q))
                    \cup (IF q = t THEN Slots(t, my_tail[t], n) ELSE {})
  <2>1. BufferShape(buffer) /\ Unique(buffer)
    BY DEF ItemTypes
  <2>2. CopyFits(buffer, v, f, c, t, my_tail[t], n)
    BY ONLY <1>1, <1>3, <1>5, <1>6, <1>10, <1>11, <2>1, t \in Workers DEF CopyFits
  <2> QED
    BY ONLY <1>1, <2>2, CopyMoves, q \in Workers
<1>13. ASSUME NEW q \in Workers PROVE Occupied(buffer, q)' = SlotsAt(q, Live(q))'
  <2> DEFINE out_of == IF q = v THEN gone ELSE {}
             in_to  == IF q = t THEN new ELSE {}
  <2>1. Occupied(buffer', q) = (Occupied(buffer, q) \ SlotsAt(q, out_of)) \cup SlotsAt(q, in_to)
    <3>1. /\ SlotsAt(q, out_of) = IF q = v THEN Slots(v, f, c) ELSE {}
          /\ SlotsAt(q, in_to) = IF q = t THEN Slots(t, my_tail[t], n) ELSE {}
      BY ONLY <1>8 DEF SlotsAt
    <3> HIDE DEF out_of, in_to
    <3> QED
      BY ONLY <1>12, <3>1
  <2>2. out_of \in SUBSET Window(q) /\ in_to \in SUBSET Window(q)
    BY ONLY <1>5, <1>6
  <2>4. ASSUME NEW p \in Int
        PROVE  BookedAt(q, p)' <=> BookedAt(q, p) /\ ~ (q = v /\ p \in gone)
    <3>1. ASSUME NEW u \in Workers, pc[u] = "copy", victim[u] = v PROVE u = t
      BY <1>1, <3>1 DEF PositionInv, Alone, Stealing, v
    <3>2. \A u \in Workers \ {t} : pc'[u] = pc[u]
      BY <1>2 DEF OthersKeep
    <3>3. q = v /\ p \in gone <=> victim[t] = q /\ from[t] <= p /\ p < from[t] + count[t]
      BY <1>14 DEF v, f, c
    <3>4. BookedAt(q, p) <=> \/ \E u \in Workers \ {t} :
                                   /\ pc[u] = "copy" /\ victim[u] = q
                                   /\ from[u] <= p /\ p < from[u] + count[u]
                             \/ q = v /\ p \in gone
      BY <1>1, <3>3 DEF BookedAt
    <3>5. BookedAt(q, p)' <=> \E u \in Workers \ {t} :
                                 /\ pc[u] = "copy" /\ victim[u] = q
                                 /\ from[u] <= p /\ p < from[u] + count[u]
      BY <1>1, <3>2 DEF BookedAt, localVars
    <3>6. q = v => ~ BookedAt(q, p)'
      BY ONLY <3>1, <3>5
    <3> QED
      BY ONLY <3>4, <3>5, <3>6
  <2>5. ASSUME NEW p \in Int
        PROVE  OwnAt(q, p)' <=> OwnAt(q, p) \/ (q = t /\ p \in new)
    <3>1. CASE q = t
      BY <1>1, <1>14, <3>1 DEF OwnAt, localVars, n, TransferCount
    <3>2. CASE q # t
      BY <1>1, <1>2, <3>2 DEF OwnAt, OthersKeep, localVars, TransferCount
    <3> QED
      BY <3>1, <3>2
  <2>6. ASSUME NEW p \in Int
        PROVE  LiveAt(q, p)' <=> (LiveAt(q, p) /\ p \notin out_of) \/ p \in in_to
    <3> DEFINE rest == \/ q \notin dropped /\ worker_head[q] <= p /\ p < tail[q]
                       \/ OwnAt(q, p)
                       \/ draining[q] # "no" /\ drain_head[q] <= p /\ p < drain_to[q]
    <3>1. LiveAt(q, p) <=> rest \/ BookedAt(q, p)
      BY DEF LiveAt
    <3>2. LiveAt(q, p)' <=> \/ rest \/ (q = t /\ p \in new)
                            \/ BookedAt(q, p) /\ ~ (q = v /\ p \in gone)
      BY <1>1, <2>4, <2>5 DEF LiveAt, drainVars
    <3>3. q = v /\ p \in gone => ~ rest
      <4> SUFFICES ASSUME q = v, p \in gone PROVE ~ rest
        OBVIOUS
      <4>1. p < worker_head[q] /\ draining[q] = "no"
        <5>1. worker_head[q] \in Int
          BY Numbers
        <5> QED
          BY <1>3, <1>4, <1>14, <5>1
      <4>2. BookedAt(q, p)
        BY <1>1, <1>14 DEF BookedAt, v, f, c
      <4>3. ~ OwnAt(q, p)
        BY <4>2, OwnApart DEF SlotInv
      <4> QED
        BY <4>1, <4>3, Numbers
    <3> HIDE DEF rest
    <3> QED
      BY ONLY <3>1, <3>2, <3>3
  <2> HIDE DEF out_of, in_to
  <2>7. SlotsLive /\ HeldInv
    BY DEF SlotInv
  <2> QED
    BY ONLY <2>1, <2>2, <2>6, <2>7, SlotsFollow, PositionInv, q \in Workers
<1> QED
  BY <1>10, <1>11, <1>13 DEF SlotsLive, v, f, c, n

(* The length Queue::drop computes is exact. *)
LEMMA DropLenExact ==
    ASSUME PositionInv, NEW t \in Workers
    PROVE  /\ WrappingSub(tail[t], worker_head[t]) = tail[t] - worker_head[t]
           /\ tail[t] - worker_head[t] \in Nat
<1>1. 0 <= tail[t] - worker_head[t] /\ tail[t] - worker_head[t] < Modulus
  <2>1. Capacity[t] \in Nat /\ Capacity[t] < Modulus /\ Modulus \in Nat
    BY CapacityFacts, CapacityAssumption
  <2> QED
    BY <2>1, Numbers
<1> QED
  BY <1>1, WrappingSubExact, Numbers

(* Queue::drop takes what can still be popped; what a leaked Drain has      *)
(* booked stays where it is.                                                *)
LEMMA DropSlots ==
    ASSUME PositionInv, ItemTypes, SlotInv, NEW t \in Workers, Drop(t)
    PROVE  SlotsLive'
<1> DEFINE n == WrappingSub(tail[t], worker_head[t])
           f == worker_head[t]
<1>1. /\ pc[t] = "idle" /\ t \notin dropped /\ dropped' = dropped \cup {t}
      /\ \A u \in Workers : pc[u] # "idle" => victim[u] # t
      /\ buffer' = MovedOut(buffer, t, f, n)
      /\ UNCHANGED <<worker_head, tail, pc, localVars, drainVars>>
  BY DEF Drop, headsVars, threadVars
<1>2. OthersKeep(t)
  BY StepOthers DEF Step
<1>3. n = tail[t] - f /\ n \in Int /\ f \in Int /\ tail[t] \in Int
  BY DropLenExact, Numbers
<1>4. f .. f + n - 1 \subseteq Window(t)
  <2>1. ASSUME NEW p \in f .. f + n - 1 PROVE p \in Live(t)
    BY <1>1, <1>3 DEF LiveAt, Live
  <2> QED
    BY <2>1, LiveInWindow DEF SlotInv
<1>5. draining[t] # "no" => drain_to[t] <= f
  BY DEF PositionInv, DrainHolds
<1>6. ASSUME NEW q \in Workers, NEW p \in Int
      PROVE  LiveAt(q, p)' <=> LiveAt(q, p) /\ ~ (q = t /\ f <= p /\ p < f + n)
  <2>1. BookedAt(q, p)' <=> BookedAt(q, p)
    BY <1>1 DEF BookedAt, localVars
  <2>3. CASE q # t
    BY <1>1, <1>2, <2>1, <2>3, OtherQueue DEF drainVars
  <2>4. CASE q = t
    <3> DEFINE drained == draining[t] # "no" /\ drain_head[t] <= p /\ p < drain_to[t]
    <3>1. ~ BookedAt(t, p) /\ ~ OwnAt(t, p) /\ ~ OwnAt(q, p)'
      BY <1>1, <2>4 DEF BookedAt, OwnAt
    <3>2. LiveAt(q, p)' <=> drained
      BY <1>1, <2>1, <2>4, <3>1 DEF LiveAt, drainVars
    <3>3. LiveAt(t, p) <=> drained \/ (f <= p /\ p < tail[t])
      BY <1>1, <3>1 DEF LiveAt
    <3>4. drained => p < f
      BY <1>3, <1>5, Numbers
    <3> HIDE DEF drained, f, n
    <3> QED
      BY ONLY <1>3, <2>4, <3>2, <3>3, <3>4, p \in Int
  <2> QED
    BY <2>3, <2>4
<1> HIDE DEF f, n
<1> QED
  BY <1>1, <1>3, <1>4, <1>6, MovedOutSlots

(* Every step keeps the correspondence of positions and slots. *)
LEMMA NextSlotInv ==
    ASSUME PositionInv, PositionInv', ItemTypes, SlotInv, Unique(buffer), [Next]_vars
    PROVE  SlotInv'
<1>1. GoneIsQuiet' /\ HeldInv'
  BY NextGone, NextHeld DEF SlotInv
<1>2. CASE UNCHANGED vars
  <2>1. ASSUME NEW q \in Workers, NEW p \in Int PROVE LiveAt(q, p)' <=> LiveAt(q, p)
    BY <1>2 DEF vars, queueVars, headsVars, threadVars, localVars, seenVars, drainVars, LiveAt,
                OwnAt, BookedAt, TransferCount
  <2>2. buffer' = buffer
    BY <1>2 DEF vars, queueVars
  <2> QED
    BY <1>1, <2>1, <2>2, SlotsStay DEF SlotInv, SlotsLive
<1>3. ASSUME NEW t \in Workers, Step(t) PROVE SlotsLive'
  <2>0. OthersKeep(t) /\ SlotsLive
    BY <1>3, StepOthers DEF SlotInv
  <2>1. ASSUME pc[t] \notin Active, pc'[t] \notin Active,
               UNCHANGED <<worker_head, tail, buffer, dropped, drain_head, drain_to>>,
               \A q \in Workers : draining'[q] = "no" <=> draining[q] = "no"
        PROVE  SlotsLive'
    BY <2>0, <2>1, QuietStep
  <2> USE DEF Active, Goto, queueVars, headsVars, drainVars
  <2>6. CASE \/ Push(t) \/ (\E n \in 0 .. MaxCreated : Extend(t, n)) \/ Pop(t) \/ DrainCall(t)
             \/ \E v \in Workers, name \in OpNames : Steal(t, v, name)
    <3>1. /\ pc[t] \notin Active /\ pc'[t] \notin Active
          /\ UNCHANGED <<worker_head, tail, buffer, dropped, drain_head, drain_to, draining>>
      BY <2>6 DEF Push, Extend, Pop, Call, DrainCall, Steal, PositionInv, CounterTypes
    <3> QED
      BY ONLY <2>1, <3>1
  <2>7. CASE \/ LoadHeads(t) \/ (\E n \in 0 .. Modulus - 1 : LoadTail(t, n)) \/ BookFail(t)
             \/ PopCasFail(t) \/ LoadCommit(t) \/ CommitFail(t)
    <3>1. /\ pc[t] \notin Active /\ pc'[t] \notin Active
          /\ UNCHANGED <<worker_head, tail, buffer, dropped, drain_head, drain_to, draining>>
      BY <2>7 DEF LoadHeads, LoadTail, BookFail, BusyTest, PopCasFail, LoadCommit, CommitFail,
                  Return, PositionInv, CounterTypes
    <3> QED
      BY ONLY <2>1, <3>1
  <2>9. CASE CommitOk(t)
    <3>1. /\ pc[t] \notin Active /\ pc'[t] \notin Active
          /\ worker_head' = [worker_head EXCEPT ![victim[t]] = seen_worker[t]]
          /\ UNCHANGED <<tail, buffer, dropped, drain_head, drain_to, draining>>
      BY <2>9 DEF CommitOk, Return, PositionInv, CounterTypes
    <3>2. worker_head[victim[t]] = seen_worker[t]
      BY <2>9, CommitExact DEF CommitOk
    <3>3. worker_head' = worker_head
      BY <3>1, <3>2 DEF PositionInv, CounterTypes
    <3> QED
      BY ONLY <2>1, <3>1, <3>3
  <2>8. CASE DrainLeak(t) \/ DrainLoad(t)
    <3>1. /\ draining[t] # "no" /\ \E to \in {"leaked", "loaded"} : draining' = [draining EXCEPT ![t] = to]
          /\ UNCHANGED <<worker_head, tail, buffer, dropped, drain_head, drain_to, pc, localVars>>
      BY <2>8 DEF DrainLeak, DrainLoad, threadVars
    <3>2. ASSUME NEW q \in Workers, NEW p \in Int PROVE LiveAt(q, p)' <=> LiveAt(q, p)
      <4>1. draining'[q] = "no" <=> draining[q] = "no"
        BY <3>1 DEF PositionInv, CounterTypes
      <4> QED
        BY <3>1, <4>1 DEF localVars, seenVars, LiveAt, OwnAt, BookedAt, TransferCount
    <3> QED
      BY <2>0, <3>1, <3>2, SlotsStay DEF SlotsLive
  <2> QED
    BY <1>3, <2>6, <2>7, <2>8, <2>9, PublishSlots, PopCasSlots, BookSlots,
       DrainCommitSlots, WriteSlots, PopReadSlots, DrainNextSlots, CopySlots, DropSlots
       DEF Step
<1> QED
  BY <1>1, <1>2, <1>3 DEF Next, SlotInv

-----------------------------------------------------------------------------
(* Items. *)

\* The items t was given and has not stored yet.
Brought(t) == IF pc[t] = "write" THEN carried[t] + 1 .. carried[t] + count[t] ELSE {}

(* No item is stored twice, or stored and still on its way to a slot. *)
StoreInv ==
    /\ Unique(buffer)
    /\ StoredIn(buffer) \subseteq 1 .. created
    /\ \A t \in Workers : /\ Brought(t) \subseteq 1 .. created
                          /\ Brought(t) \cap StoredIn(buffer) = {}
    /\ \A t, u \in Workers : t # u => Brought(t) \cap Brought(u) = {}

(* What was handed out is the rest. *)
OutInv ==
    /\ out \cap StoredIn(buffer) = {}
    /\ \A t \in Workers : out \cap Brought(t) = {}
    /\ \A x : x \in 1 .. created <=>
          x \in out \/ x \in StoredIn(buffer) \/ \E t \in Workers : x \in Brought(t)

(* A step that stores nothing new and leaves the newcomers alone. *)
LEMMA StoreShrinks ==
    ASSUME StoreInv, Unique(buffer'), StoredIn(buffer') \subseteq StoredIn(buffer),
           created' = created, \A t \in Workers : Brought(t)' = Brought(t)
    PROVE  StoreInv'
<1>1. Unique(buffer)' = Unique(buffer') /\ StoredIn(buffer)' = StoredIn(buffer')
  BY DEF Unique, StoredIn
<1> QED
  BY <1>1 DEF StoreInv

(* The newcomers after a step that is neither push, extend nor their write. *)
LEMMA BroughtStays ==
    ASSUME NEW t \in Workers, OthersKeep(t),
           \/ pc[t] # "write" /\ pc'[t] # "write"
           \/ pc'[t] = pc[t] /\ carried'[t] = carried[t] /\ count'[t] = count[t]
    PROVE  \A u \in Workers : Brought(u)' = Brought(u)
<1>1. Brought(t)' = Brought(t)
  BY DEF Brought
<1>2. ASSUME NEW u \in Workers \ {t} PROVE Brought(u)' = Brought(u)
  BY DEF Brought, OthersKeep
<1> QED
  BY <1>1, <1>2

(* Live positions: what the step moves out is stored, and only that goes. *)
LEMMA LiveRead ==
    ASSUME ItemTypes, SlotsLive, StoreInv, NEW q \in Workers, NEW f \in Int, NEW n \in Int,
           f .. f + n - 1 \subseteq Live(q)
    PROVE  /\ Read(buffer, q, f, n) \subseteq StoredIn(buffer)
           /\ Slots(q, f, n) \subseteq Occupied(buffer, q)
<1>1. Slots(q, f, n) = SlotsAt(q, f .. f + n - 1)
  BY SlotsOfRun
<1>2. Slots(q, f, n) \subseteq Occupied(buffer, q)
  BY <1>1 DEF SlotsLive, SlotsAt
<1> QED
  BY <1>2, ReadStored DEF ItemTypes

(* push and extend bring items that nobody has seen. *)
LEMMA BringItems ==
    ASSUME PositionInv, StoreInv, NEW t \in Workers, OthersKeep(t), buffer' = buffer,
           pc[t] # "write", pc'[t] = "write", NEW n \in Nat, count'[t] = n,
           carried'[t] = created, created' = created + n
    PROVE  /\ StoreInv'
           /\ OutInv /\ out' = out => OutInv'
<1>1. created \in Nat
  BY DEF PositionInv, CounterTypes
<1>2. Brought(t) = {} /\ Brought(t)' = created + 1 .. created + n
  BY DEF Brought
<1>3. \A u \in Workers \ {t} : Brought(u)' = Brought(u)
  BY DEF Brought, OthersKeep
<1>4. Unique(buffer)' = Unique(buffer) /\ StoredIn(buffer)' = StoredIn(buffer)
  BY DEF Unique, StoredIn
<1>5. \A x : /\ x \in (created + 1 .. created + n) => x \notin 1 .. created
             /\ x \in 1 .. created + n <=> x \in 1 .. created \/ x \in created + 1 .. created + n
  BY <1>1
<1>6. StoreInv'
  <2>1. /\ Unique(buffer) /\ StoredIn(buffer) \subseteq 1 .. created
        /\ \A u \in Workers : /\ Brought(u) \subseteq 1 .. created
                              /\ Brought(u) \cap StoredIn(buffer) = {}
        /\ \A u, v \in Workers : u # v => Brought(u) \cap Brought(v) = {}
    BY DEF StoreInv
  <2>2. StoredIn(buffer)' \subseteq 1 .. created'
    BY ONLY <1>4, <1>5, <2>1, created' = created + n
  <2>3. ASSUME NEW u \in Workers
        PROVE  Brought(u)' \subseteq 1 .. created' /\ Brought(u)' \cap StoredIn(buffer)' = {}
    BY ONLY <1>2, <1>3, <1>4, <1>5, <2>1, created' = created + n, t \in Workers, u \in Workers
  <2>4. ASSUME NEW u \in Workers, NEW v \in Workers, u # v PROVE Brought(u)' \cap Brought(v)' = {}
    <3>1. \A w \in Workers \ {t} : Brought(w)' \cap Brought(t)' = {}
      BY ONLY <1>2, <1>3, <1>5, <2>1
    <3>2. CASE u = t \/ v = t
      BY ONLY <2>4, <3>1, <3>2, u \in Workers, v \in Workers
    <3>3. CASE u # t /\ v # t
      <4>1. Brought(u)' = Brought(u) /\ Brought(v)' = Brought(v)
        BY ONLY <1>3, <3>3, u \in Workers, v \in Workers
      <4> QED
        BY ONLY <2>1, <2>4, <4>1, u \in Workers, v \in Workers
    <3> QED
      BY <3>2, <3>3
  <2> QED
    BY ONLY <1>4, <2>1, <2>2, <2>3, <2>4 DEF StoreInv
<1>7. ASSUME OutInv, out' = out PROVE OutInv'
  <2>1. ASSUME NEW x
        PROVE  x \in 1 .. created' <=> \/ x \in out' \/ x \in StoredIn(buffer)'
                                       \/ \E u \in Workers : x \in Brought(u)'
    <3>1. (\E u \in Workers : x \in Brought(u)') <=>
             (\E u \in Workers : x \in Brought(u)) \/ x \in created + 1 .. created + n
      BY ONLY <1>2, <1>3, t \in Workers
    <3> QED
      BY ONLY <1>4, <1>5, <1>7, <3>1, created' = created + n DEF OutInv
  <2>2. \A u \in Workers : out' \cap Brought(u)' = {}
    <3>1. out \subseteq 1 .. created
      BY ONLY <1>7 DEF OutInv
    <3> QED
      BY ONLY <1>2, <1>3, <1>5, <1>7, <3>1, t \in Workers DEF OutInv
  <2> QED
    BY ONLY <1>4, <1>7, <2>1, <2>2 DEF OutInv
<1> QED
  BY <1>6, <1>7

(* write_at moves them to vacant slots. *)
LEMMA WriteItems ==
    ASSUME PositionInv, ItemTypes, SlotInv, StoreInv, NEW t \in Workers, Write(t)
    PROVE  /\ StoreInv'
           /\ OutInv => OutInv'
<1> DEFINE s == [k \in 0 .. count[t] - 1 |-> carried[t] + 1 + k]
           new == my_tail[t] .. my_tail[t] + count[t] - 1
<1>1. /\ pc[t] = "write" /\ pc'[t] = "publish"
      /\ buffer' = Written(buffer, t, my_tail[t], s)
      /\ out' = out /\ created' = created
  BY DEF Write, Goto, headsVars, itemVars, PositionInv, CounterTypes
<1>2. OthersKeep(t)
  BY StepOthers DEF Step
<1>3. /\ new \subseteq Window(t) /\ count[t] <= Capacity[t]
      /\ \A p \in new : ~ LiveAt(t, p)
      /\ my_tail[t] \in Int /\ count[t] \in Nat
  BY <1>1, RoomToWrite, Numbers
<1>4. /\ s \in [0 .. count[t] - 1 -> Content]
      /\ \A k \in 0 .. count[t] - 1 : s[k] # Vacant /\ s[k] \in Brought(t)
      /\ \A k, l \in 0 .. count[t] - 1 : s[k] = s[l] => k = l
      /\ \A x \in Brought(t) : x - carried[t] - 1 \in 0 .. count[t] - 1 /\ s[x - carried[t] - 1] = x
  <2>1. count[t] \in Nat /\ carried[t] \in Nat
    BY Numbers
  <2>2. Brought(t) = carried[t] + 1 .. carried[t] + count[t]
    BY ONLY <1>1 DEF Brought
  <2>3. \A k \in 0 .. count[t] - 1 : s[k] = carried[t] + 1 + k /\ s[k] \in Nat
    BY ONLY <2>1
  <2>4. s \in [0 .. count[t] - 1 -> Content]
    BY ONLY <2>1 DEF Content
  <2> HIDE DEF s
  <2>5. \A k \in 0 .. count[t] - 1 : s[k] # Vacant /\ s[k] \in Brought(t)
    BY ONLY <2>1, <2>2, <2>3, ClientAssumption
  <2>6. \A k, l \in 0 .. count[t] - 1 : s[k] = s[l] => k = l
    BY ONLY <2>1, <2>3
  <2>7. ASSUME NEW x \in Brought(t)
        PROVE  x - carried[t] - 1 \in 0 .. count[t] - 1 /\ s[x - carried[t] - 1] = x
    <3> DEFINE k == x - carried[t] - 1
    <3>1. k \in 0 .. count[t] - 1 /\ carried[t] + 1 + k = x
      BY ONLY <2>1, <2>2, x \in Brought(t)
    <3> HIDE DEF k
    <3>2. s[k] = x
      BY ONLY <2>3, <3>1
    <3> QED
      BY ONLY <3>1, <3>2 DEF k
  <2> QED
    BY ONLY <2>4, <2>5, <2>6, <2>7
<1>5. BufferShape(buffer) /\ Unique(buffer)
  BY DEF ItemTypes, StoreInv
<1> HIDE DEF s
<1>6. {s[k] : k \in 0 .. count[t] - 1} = Brought(t)
  BY ONLY <1>4
<1>7. Slots(t, my_tail[t], count[t]) \cap Occupied(buffer, t) = {}
  <2>1. new \cap Live(t) = {}
    BY ONLY <1>3 DEF Live
  <2>2. Slots(t, my_tail[t], count[t]) = SlotsAt(t, new)
    BY <1>3, SlotsOfRun
  <2> HIDE DEF new
  <2>3. SlotsAt(t, new) \cap SlotsAt(t, Live(t)) = {}
    <3>1. Near(t, Window(t)) /\ Live(t) \in SUBSET Window(t) /\ new \in SUBSET Window(t)
      BY <1>3, WindowBounds, LiveInWindow DEF SlotInv
    <3> QED
      BY ONLY <2>1, <3>1, SlotsDisjoint, t \in Workers
  <2> QED
    BY <2>2, <2>3 DEF SlotInv, SlotsLive
<1>8. FilledIn(buffer', buffer, t, my_tail[t], count[t], s)
  BY ONLY <1>1, <1>3, <1>4, <1>5, WrittenCells, t \in Workers
<1>9. Unique(buffer') /\ StoredIn(buffer') = StoredIn(buffer) \cup {s[k] : k \in 0 .. count[t] - 1}
  <2>1. \A k \in 0 .. count[t] - 1 : s[k] # Vacant /\ s[k] \notin StoredIn(buffer)
    BY <1>4 DEF StoreInv
  <2>2. \A k, l \in 0 .. count[t] - 1 : s[k] = s[l] => k = l
    BY ONLY <1>4
  <2>3. my_tail[t] \in Int /\ count[t] \in Nat
    BY ONLY <1>3
  <2> QED
    BY ONLY <1>5, <1>7, <1>8, <2>1, <2>2, <2>3, WrittenItems, t \in Workers
<1>10. Brought(t)' = {} /\ \A u \in Workers \ {t} : Brought(u)' = Brought(u)
  BY <1>1, <1>2 DEF Brought, OthersKeep
<1>11. Unique(buffer)' /\ StoredIn(buffer)' = StoredIn(buffer) \cup Brought(t)
  <2>1. Unique(buffer)' = Unique(buffer') /\ StoredIn(buffer)' = StoredIn(buffer')
    BY DEF Unique, StoredIn
  <2> QED
    BY ONLY <1>6, <1>9, <2>1
<1>12. StoreInv'
  BY <1>1, <1>10, <1>11 DEF StoreInv
<1>13. ASSUME OutInv PROVE OutInv'
  <2>1. ASSUME NEW x
        PROVE  \/ x \in StoredIn(buffer)' \/ \E u \in Workers : x \in Brought(u)'
               <=> \/ x \in StoredIn(buffer) \/ \E u \in Workers : x \in Brought(u)
    BY ONLY <1>10, <1>11, t \in Workers
  <2>2. out' = out /\ created' = created
    BY <1>1
  <2>3. out' \cap StoredIn(buffer)' = {} /\ \A u \in Workers : out' \cap Brought(u)' = {}
    BY ONLY <1>10, <1>11, <1>13, <2>2, t \in Workers DEF OutInv
  <2> QED
    BY ONLY <1>13, <2>1, <2>2, <2>3 DEF OutInv
<1> QED
  BY <1>12, <1>13

(* What is moved out to a caller was stored and is stored no more. *)
LEMMA HandedOut ==
    ASSUME StoreInv, NEW R, R \subseteq StoredIn(buffer), Unique(buffer'),
           StoredIn(buffer') = StoredIn(buffer) \ R,
           created' = created, \A t \in Workers : Brought(t)' = Brought(t)
    PROVE  /\ StoreInv'
           /\ OutInv /\ out' = out \cup R => OutInv'
<1>1. StoreInv'
  BY StoreShrinks
<1>2. StoredIn(buffer)' = StoredIn(buffer')
  BY DEF StoredIn
<1>3. ASSUME OutInv, out' = out \cup R PROVE OutInv'
  <2>1. out' \cap StoredIn(buffer)' = {}
    BY <1>2, <1>3 DEF OutInv
  <2>2. ASSUME NEW t \in Workers PROVE out' \cap Brought(t)' = {}
    BY <1>3 DEF OutInv, StoreInv
  <2>3. ASSUME NEW x
        PROVE  x \in 1 .. created' <=> \/ x \in out' \/ x \in StoredIn(buffer)'
                                       \/ \E u \in Workers : x \in Brought(u)'
    BY <1>2, <1>3 DEF OutInv
  <2> QED
    BY ONLY <2>1, <2>2, <2>3 DEF OutInv
<1> QED
  BY <1>1, <1>3

(* Moving the items of live positions out hands them over. *)
LEMMA MoveOutItems ==
    ASSUME PositionInv, ItemTypes, SlotInv, StoreInv, NEW q \in Workers, NEW f \in Int,
           NEW n \in Int, \A p \in f .. f + n - 1 : LiveAt(q, p),
           buffer' = MovedOut(buffer, q, f, n), out' = out \cup Read(buffer, q, f, n),
           created' = created, \A t \in Workers : Brought(t)' = Brought(t)
    PROVE  /\ StoreInv'
           /\ OutInv => OutInv'
<1>1. f .. f + n - 1 \subseteq Live(q)
  <2>1. f .. f + n - 1 \subseteq Int
    OBVIOUS
  <2> QED
    BY <2>1 DEF Live
<1>2. Read(buffer, q, f, n) \subseteq StoredIn(buffer)
  BY <1>1, LiveRead DEF SlotInv
<1>3. Unique(buffer') /\ StoredIn(buffer') = StoredIn(buffer) \ Read(buffer, q, f, n)
  BY MovedOutItems DEF ItemTypes, StoreInv
<1> QED
  BY <1>2, <1>3, HandedOut

(* A bulk copy keeps the items, but for the one steal_and_pop returns. *)
LEMMA CopyItems ==
    ASSUME PositionInv, ItemTypes, SlotInv, StoreInv, NEW t \in Workers, Copy(t)
    PROVE  /\ StoreInv'
           /\ OutInv => OutInv'
<1> DEFINE v == victim[t]
           c == count[t]
           n == TransferCount(t)
           f == from[t]
           R == Read(buffer, v, f + n, c - n)
<1>1. /\ pc[t] = "copy" /\ pc'[t] = "publish_dest" /\ v \in Workers
      /\ buffer' = Copied(buffer, v, f, c, t, my_tail[t], n)
      /\ out' = out \cup R /\ created' = created
  BY DEF Copy, Copied, Goto, PositionInv, CounterTypes
<1>2. OthersKeep(t)
  BY StepOthers DEF Step
<1>3. n \in 0 .. c /\ c \in Nat /\ f \in Int /\ my_tail[t] \in Int /\ n \in Nat
  BY <1>1, Transferred, Numbers DEF Stealing
<1>4. c <= Capacity[v]
  <2>1. /\ stealer_head[v] = f /\ f + c <= worker_head[v]
    BY <1>1 DEF PositionInv, Holds, Stealing
  <2> QED
    BY <1>1, <1>3, <2>1, Numbers
<1>5. n <= Capacity[t]
  BY <1>1, <1>3, RoomToWrite
<1>6. /\ Slots(v, f, c) \subseteq Occupied(buffer, v)
      /\ Slots(t, my_tail[t], n) \cap Occupied(buffer, t) = {}
  BY CopySlots DEF StoreInv
<1>7. BufferShape(buffer) /\ Unique(buffer)
  BY DEF ItemTypes, StoreInv
<1> HIDE DEF v, c, n, f
<1>8. Unique(buffer') /\ StoredIn(buffer') = StoredIn(buffer) \ R /\ R \subseteq StoredIn(buffer)
  <2>1. CopyFits(buffer, v, f, c, t, my_tail[t], n)
    BY ONLY <1>1, <1>3, <1>4, <1>5, <1>6, <1>7, t \in Workers DEF CopyFits
  <2> QED
    BY ONLY <1>1, <2>1, CopyMoves
<1>9. \A u \in Workers : Brought(u)' = Brought(u)
  BY <1>1, <1>2, BroughtStays
<1> HIDE DEF R
<1> QED
  BY <1>1, <1>8, <1>9, HandedOut

(* Queue::drop hands over what could still be popped, and nothing else. *)
LEMMA DropItems ==
    ASSUME PositionInv, ItemTypes, SlotInv, StoreInv, NEW t \in Workers, Drop(t)
    PROVE  /\ StoreInv'
           /\ OutInv => OutInv'
<1> DEFINE n == WrappingSub(tail[t], worker_head[t])
           f == worker_head[t]
<1>1. /\ t \notin dropped
      /\ buffer' = MovedOut(buffer, t, f, n)
      /\ out' = out \cup Read(buffer, t, f, n) /\ created' = created
      /\ pc' = pc /\ carried' = carried /\ count' = count
  BY DEF Drop, threadVars, localVars
<1>2. OthersKeep(t)
  BY StepOthers DEF Step
<1>3. n = tail[t] - f /\ n \in Int /\ f \in Int /\ tail[t] \in Int
  BY DropLenExact, Numbers
<1>4. \A u \in Workers : Brought(u)' = Brought(u)
  BY <1>1, <1>2, BroughtStays
<1>5. ASSUME NEW p \in f .. f + n - 1 PROVE LiveAt(t, p)
  BY <1>1, <1>3 DEF LiveAt
<1> HIDE DEF n, f
<1> QED
  BY <1>1, <1>3, <1>4, <1>5, MoveOutItems

(* Every step keeps the items apart and accounts for all of them. *)
LEMMA NextStoreInv ==
    ASSUME PositionInv, ItemTypes, SlotInv, StoreInv, [Next]_vars
    PROVE  /\ StoreInv'
           /\ OutInv => OutInv'
<1>1. ASSUME NEW t \in Workers, OthersKeep(t), buffer' = buffer, out' = out, created' = created,
             \/ pc[t] # "write" /\ pc'[t] # "write"
             \/ pc'[t] = pc[t] /\ carried'[t] = carried[t] /\ count'[t] = count[t]
      PROVE  StoreInv' /\ (OutInv => OutInv')
  <2>1. \A u \in Workers : Brought(u)' = Brought(u)
    BY <1>1, BroughtStays
  <2>2. Unique(buffer') /\ StoredIn(buffer') = StoredIn(buffer) \ {} /\ out' = out \cup {}
    BY <1>1 DEF StoreInv
  <2>3. {} \subseteq StoredIn(buffer)
    OBVIOUS
  <2> QED
    BY <1>1, <2>1, <2>2, <2>3, HandedOut
<1>2. CASE UNCHANGED vars
  <2>1. \A u \in Workers : Brought(u)' = Brought(u)
    BY <1>2 DEF vars, threadVars, localVars, Brought
  <2>2. /\ Unique(buffer') /\ StoredIn(buffer') = StoredIn(buffer) \ {} /\ out' = out \cup {}
        /\ created' = created
    BY <1>2 DEF vars, queueVars, itemVars, StoreInv
  <2>3. {} \subseteq StoredIn(buffer)
    OBVIOUS
  <2> QED
    BY <2>1, <2>2, <2>3, HandedOut
<1>3. ASSUME NEW t \in Workers, Step(t) PROVE StoreInv' /\ (OutInv => OutInv')
  <2>0. OthersKeep(t)
    BY <1>3, StepOthers
  <2>1. CASE Push(t)
    <3>1. /\ pc[t] = "idle" /\ pc'[t] = "write" /\ count'[t] = 1 /\ carried'[t] = created
          /\ created' = created + 1 /\ buffer' = buffer /\ out' = out
      BY <2>1 DEF Push, Call, Carry, Goto, queueVars, PositionInv, CounterTypes
    <3> QED
      BY <2>0, <3>1, BringItems
  <2>2. CASE \E n \in 0 .. MaxCreated : Extend(t, n)
    <3>1. PICK n \in 0 .. MaxCreated : Extend(t, n)
      BY <2>2
    <3> DEFINE m == Least(n, WrappingSub(stealer_head[t] + Capacity[t], tail[t]))
    <3>2. m \in Nat
      <4>1. WrappingSub(stealer_head[t] + Capacity[t], tail[t]) \in Nat
        BY RoomExact, Numbers
      <4> QED
        BY <4>1, ClientAssumption DEF Least
    <3>3. /\ pc[t] = "idle" /\ pc'[t] = "write" /\ count'[t] = m /\ carried'[t] = created
          /\ created' = created + m /\ buffer' = buffer /\ out' = out
      BY <3>1 DEF Extend, Call, Carry, Goto, queueVars, PositionInv, CounterTypes
    <3> HIDE DEF m
    <3> QED
      BY <2>0, <3>2, <3>3, BringItems
  <2>3. CASE PopRead(t)
    <3>1. /\ pc[t] = "pop_read" /\ pc'[t] = "idle"
          /\ buffer' = MovedOut(buffer, t, seen_worker[t], 1)
          /\ out' = out \cup Read(buffer, t, seen_worker[t], 1)
          /\ created' = created
      BY <2>3 DEF PopRead, Return, Goto, PositionInv, CounterTypes
    <3>2. seen_worker[t] \in Int
      BY Numbers
    <3>3. \A p \in seen_worker[t] .. seen_worker[t] + 1 - 1 : LiveAt(t, p)
      BY <3>1, <3>2 DEF LiveAt, OwnAt
    <3>4. \A u \in Workers : Brought(u)' = Brought(u)
      BY <2>0, <3>1, BroughtStays
    <3> QED
      BY <3>1, <3>2, <3>3, <3>4, MoveOutItems
  <2>4. CASE DrainNext(t)
    <3>1. /\ draining[t] = "active" /\ drain_head[t] # drain_to[t]
          /\ buffer' = MovedOut(buffer, t, drain_head[t], 1)
          /\ out' = out \cup Read(buffer, t, drain_head[t], 1)
          /\ created' = created /\ pc' = pc /\ carried' = carried /\ count' = count
      BY <2>4 DEF DrainNext, threadVars, localVars
    <3>2. drain_head[t] \in Int /\ drain_to[t] \in Int /\ drain_head[t] < drain_to[t]
      <4>1. drain_head[t] <= drain_to[t]
        BY <3>1 DEF PositionInv, DrainHolds
      <4> QED
        BY <3>1, <4>1, Numbers
    <3>3. \A p \in drain_head[t] .. drain_head[t] + 1 - 1 : LiveAt(t, p)
      BY <3>1, <3>2 DEF LiveAt
    <3>4. \A u \in Workers : Brought(u)' = Brought(u)
      BY <2>0, <3>1, BroughtStays
    <3> QED
      BY <3>1, <3>2, <3>3, <3>4, MoveOutItems
  <2> USE DEF Goto, queueVars, itemVars
  <2>5. CASE \/ Publish(t) \/ Pop(t) \/ PopCasOk(t) \/ PopCasFail(t) \/ DrainCall(t)
             \/ (\E v \in Workers, name \in OpNames : Steal(t, v, name))
    <3>1. /\ pc[t] # "write" /\ pc'[t] # "write"
          /\ buffer' = buffer /\ out' = out /\ created' = created
      BY <2>5 DEF Publish, Pop, PopCasOk, PopCasFail, See, Call, Return, DrainCall, Steal,
                  PositionInv, CounterTypes
    <3> QED
      BY <1>1, <2>0, <3>1
  <2>6. CASE \/ LoadHeads(t) \/ (\E n \in 0 .. Modulus - 1 : LoadTail(t, n))
             \/ BookOk(t) \/ BookFail(t) \/ PublishDest(t) \/ LoadCommit(t)
             \/ CommitOk(t) \/ CommitFail(t)
    <3>1. /\ pc[t] # "write" /\ pc'[t] # "write"
          /\ buffer' = buffer /\ out' = out /\ created' = created
      BY <2>6 DEF LoadHeads, LoadTail, BusyTest, BookOk, BookFail, PublishDest, LoadCommit,
                  CommitOk, CommitFail, Return,
                  PositionInv, CounterTypes
    <3> QED
      BY <1>1, <2>0, <3>1
  <2>7. CASE DrainLoad(t) \/ DrainCommit(t) \/ DrainLeak(t)
    <3>1. /\ pc' = pc /\ carried' = carried /\ count' = count
          /\ buffer' = buffer /\ out' = out /\ created' = created
      BY <2>7 DEF DrainLoad, DrainCommit, DrainLeak, threadVars, localVars
    <3> QED
      BY <1>1, <2>0, <3>1
  <2> QED
    BY <1>3, <2>1, <2>2, <2>3, <2>4, <2>5, <2>6, <2>7, WriteItems, CopyItems, DropItems DEF Step
<1> QED
  BY <1>2, <1>3 DEF Next

(* Initially there is no item. *)
LEMMA InitStoreInv == Init => StoreInv /\ OutInv
<1> SUFFICES ASSUME Init PROVE StoreInv /\ OutInv
  OBVIOUS
<1>1. BufferShape(buffer) /\ \A q \in Workers : \A i \in 0 .. Capacity[q] - 1 : buffer[q][i] = Vacant
  BY InitItemTypes DEF Init, EmptyBuffers, ItemTypes
<1>2. StoredIn(buffer) = {}
  <2>1. ASSUME NEW x PROVE x \notin StoredIn(buffer)
    BY <1>1, StoredCells
  <2> QED
    BY <2>1
<1>3. Unique(buffer)
  BY <1>1, UniqueCells
<1>4. \A t \in Workers : Brought(t) = {}
  BY DEF Init, Brought
<1>5. created = 0 /\ out = {} /\ 1 .. created = {}
  BY DEF Init
<1> QED
  BY ONLY <1>2, <1>3, <1>4, <1>5 DEF StoreInv, OutInv

-----------------------------------------------------------------------------
(* The contract of the slots. *)

\* The positions of q that the next step of t, or of the Drain of q, reads ...
ReadAt(t, q) ==
    {p \in Window(q) :
        \/ pc[t] = "pop_read" /\ t = q /\ p = seen_worker[t]
        \/ pc[t] = "copy" /\ victim[t] = q /\ from[t] <= p /\ p < from[t] + count[t]}

DrainAt(q) ==
    {p \in Window(q) : draining[q] = "active" /\ drain_head[q] <= p /\ p < drain_to[q]}

\* ... and those its owner writes.
WriteAt(q) ==
    {p \in Window(q) :
        \/ pc[q] = "write" /\ my_tail[q] <= p /\ p < my_tail[q] + count[q]
        \/ pc[q] = "copy" /\ my_tail[q] <= p /\ p < my_tail[q] + TransferCount(q)}

(* What is read is live ... *)
LEMMA ReadsAreLive ==
    ASSUME PositionInv, SlotInv, NEW q \in Workers
    PROVE  /\ \A t \in Workers : /\ ThreadReads(t, q) = SlotsAt(q, ReadAt(t, q))
                                 /\ ReadAt(t, q) \subseteq Live(q)
           /\ DrainReads(q) = SlotsAt(q, DrainAt(q))
           /\ DrainAt(q) \subseteq Live(q)
<1>0. Window(q) \subseteq Int /\ \A p \in Int : LiveAt(q, p) => p \in Window(q)
  BY WindowBounds, LiveInWindow DEF SlotInv, Live
<1>1. ASSUME NEW t \in Workers
      PROVE  ThreadReads(t, q) = SlotsAt(q, ReadAt(t, q)) /\ ReadAt(t, q) \subseteq Live(q)
  <2>0. seen_worker[t] \in Int /\ from[t] \in Int /\ count[t] \in Int
    BY Numbers
  <2>1. CASE pc[t] = "pop_read" /\ t = q
    <3>1. LiveAt(q, seen_worker[t])
      BY <2>1 DEF LiveAt, OwnAt
    <3>2. ReadAt(t, q) = seen_worker[t] .. seen_worker[t] + 1 - 1
      BY ONLY <1>0, <2>0, <2>1, <3>1 DEF ReadAt
    <3>3. ThreadReads(t, q) = Slots(q, seen_worker[t], 1)
      BY ONLY <2>1 DEF ThreadReads
    <3>4. ThreadReads(t, q) = SlotsAt(q, ReadAt(t, q))
      BY <2>0, <3>2, <3>3, SlotsOfRun
    <3>5. ReadAt(t, q) \subseteq Live(q)
      BY ONLY <1>0, <2>0, <2>1, <3>1 DEF ReadAt, Live
    <3> QED
      BY <3>4, <3>5
  <2>2. CASE pc[t] = "copy" /\ victim[t] = q
    <3>1. \A p \in Int : from[t] <= p /\ p < from[t] + count[t] => LiveAt(q, p)
      BY <2>2 DEF LiveAt, BookedAt
    <3>2. ReadAt(t, q) = from[t] .. from[t] + count[t] - 1
      BY ONLY <1>0, <2>0, <2>2, <3>1 DEF ReadAt
    <3>3. ThreadReads(t, q) = Slots(q, from[t], count[t])
      BY ONLY <2>2 DEF ThreadReads
    <3>4. ThreadReads(t, q) = SlotsAt(q, ReadAt(t, q))
      BY <2>0, <3>2, <3>3, SlotsOfRun
    <3>5. ReadAt(t, q) \subseteq Live(q)
      BY ONLY <1>0, <2>0, <2>2, <3>1 DEF ReadAt, Live
    <3> QED
      BY <3>4, <3>5
  <2>3. CASE ~ (pc[t] = "pop_read" /\ t = q) /\ ~ (pc[t] = "copy" /\ victim[t] = q)
    <3>1. ThreadReads(t, q) = {} /\ ReadAt(t, q) = {}
      BY ONLY <2>3 DEF ThreadReads, ReadAt
    <3> QED
      BY ONLY <3>1 DEF SlotsAt
  <2> QED
    BY <2>1, <2>2, <2>3
<1>2. DrainReads(q) = SlotsAt(q, DrainAt(q)) /\ DrainAt(q) \subseteq Live(q)
  <2>0. drain_head[q] \in Int /\ drain_to[q] \in Int
    BY Numbers
  <2>1. CASE draining[q] = "active"
    <3>2. \A p \in Int : drain_head[q] <= p /\ p < drain_to[q] => LiveAt(q, p)
      BY <2>1 DEF LiveAt
    <3>3. DrainAt(q) = drain_head[q] .. drain_head[q] + (drain_to[q] - drain_head[q]) - 1
      BY ONLY <1>0, <2>0, <2>1, <3>2 DEF DrainAt
    <3>4. DrainReads(q) = SlotsAt(q, DrainAt(q))
      BY <2>0, <2>1, <3>3, SlotsOfRun DEF DrainReads
    <3>5. DrainAt(q) \subseteq Live(q)
      BY ONLY <1>0, <3>2 DEF DrainAt, Live
    <3> QED
      BY <3>4, <3>5
  <2>2. CASE draining[q] # "active"
    <3>1. DrainReads(q) = {} /\ DrainAt(q) = {}
      BY ONLY <2>2 DEF DrainReads, DrainAt
    <3> QED
      BY ONLY <3>1 DEF SlotsAt
  <2> QED
    BY <2>1, <2>2
<1> QED
  BY <1>1, <1>2

(* ... what is written is not ... *)
LEMMA WritesAreNew ==
    ASSUME PositionInv, HeldInv, NEW q \in Workers
    PROVE  /\ ThreadWrites(q) = SlotsAt(q, WriteAt(q))
           /\ WriteAt(q) \cap Live(q) = {}
<1>0. my_tail[q] \in Int /\ count[q] \in Nat /\ Window(q) \subseteq Int
  BY Numbers, WindowBounds
<1>1. ASSUME NEW n \in Nat, pc[q] \in {"write", "copy"},
             IF pc[q] = "write" THEN n = count[q] ELSE n = TransferCount(q)
      PROVE  ThreadWrites(q) = SlotsAt(q, WriteAt(q)) /\ WriteAt(q) \cap Live(q) = {}
  <2>1. /\ my_tail[q] .. my_tail[q] + n - 1 \subseteq Window(q)
        /\ \A p \in my_tail[q] .. my_tail[q] + n - 1 : ~ LiveAt(q, p)
    BY <1>1, RoomToWrite
  <2>2. WriteAt(q) = my_tail[q] .. my_tail[q] + n - 1
    <3>1. WriteAt(q) = {p \in Window(q) : my_tail[q] <= p /\ p < my_tail[q] + n}
      BY <1>1 DEF WriteAt
    <3> QED
      BY ONLY <1>0, <2>1, <3>1, n \in Nat
  <2>3. ThreadWrites(q) = Slots(q, my_tail[q], n)
    BY <1>1 DEF ThreadWrites
  <2> QED
    BY <1>0, <2>1, <2>2, <2>3, SlotsOfRun DEF Live
<1>2. CASE pc[q] = "write"
  BY <1>0, <1>1, <1>2
<1>3. CASE pc[q] = "copy"
  <2>1. TransferCount(q) \in Nat
    BY <1>0, <1>3, Transferred DEF Stealing
  <2> QED
    BY <1>1, <1>3, <2>1
<1>4. CASE pc[q] \notin {"write", "copy"}
  <2>1. ThreadWrites(q) = {} /\ WriteAt(q) = {}
    BY <1>4 DEF ThreadWrites, WriteAt
  <2> QED
    BY ONLY <2>1 DEF SlotsAt
<1> QED
  BY <1>2, <1>3, <1>4

(* ... and no two of the owner, the thief and the Drain share a position. *)
LEMMA ReadsApart ==
    ASSUME PositionInv, HeldInv, NEW q \in Workers, NEW t \in Workers
    PROVE  /\ ReadAt(t, q) \cap DrainAt(q) = {}
           /\ \A u \in Workers \ {t} : ReadAt(t, q) \cap ReadAt(u, q) = {}
<1>0. Window(q) \subseteq Int
  BY WindowBounds
<1>1. ASSUME NEW u \in Workers, NEW p \in Window(q), p \in ReadAt(u, q)
      PROVE  \/ pc[u] = "pop_read" /\ u = q /\ OwnAt(q, p)
             \/ pc[u] = "copy" /\ victim[u] = q /\ BookedAt(q, p)
  BY <1>1 DEF ReadAt, OwnAt, BookedAt
<1>2. ASSUME NEW p \in Window(q), OwnAt(q, p)
      PROVE  /\ draining[q] # "no" => ~ (drain_head[q] <= p /\ p < drain_to[q])
             /\ ~ BookedAt(q, p)
  BY <1>0, <1>2, OwnApart, Numbers
<1>3. ASSUME NEW p \in Window(q), BookedAt(q, p) PROVE draining[q] = "no"
  BY <1>0, <1>3, BookedBelow
<1>4. ReadAt(t, q) \cap DrainAt(q) = {}
  <2> SUFFICES ASSUME NEW p \in Window(q), p \in ReadAt(t, q), p \in DrainAt(q) PROVE FALSE
    BY DEF ReadAt
  <2>1. draining[q] = "active" /\ drain_head[q] <= p /\ p < drain_to[q]
    BY DEF DrainAt
  <2> QED
    BY <1>1, <1>2, <1>3, <2>1
<1>5. ASSUME NEW u \in Workers \ {t} PROVE ReadAt(t, q) \cap ReadAt(u, q) = {}
  <2> SUFFICES ASSUME NEW p \in Window(q), p \in ReadAt(t, q), p \in ReadAt(u, q) PROVE FALSE
    BY DEF ReadAt
  <2>1. CASE pc[t] = "copy" /\ pc[u] = "copy"
    <3>1. Stealing(t) /\ Stealing(u) /\ victim[t] = victim[u]
      BY <1>1, <2>1 DEF Stealing
    <3> QED
      BY <3>1 DEF PositionInv, Alone
  <2> QED
    BY <1>1, <1>2, <2>1
<1> QED
  BY <1>4, <1>5

(* The invariants of the positions and of the slots imply the contract.     *)
LEMMA ContractFollows == PositionInv /\ SlotInv => SlotContract
<1> SUFFICES ASSUME PositionInv, SlotInv, NEW q \in Workers
             PROVE  /\ \A t \in Workers : \A i \in ThreadReads(t, q) : buffer[q][i] # Vacant
                    /\ \A i \in DrainReads(q) : buffer[q][i] # Vacant
                    /\ \A i \in ThreadWrites(q) : buffer[q][i] = Vacant
                    /\ \A t \in Workers :
                          /\ ThreadReads(t, q) \cap (DrainReads(q) \cup ThreadWrites(q)) = {}
                          /\ \A u \in Workers \ {t} : ThreadReads(t, q) \cap ThreadReads(u, q) = {}
  BY DEF SlotContract
<1>1. Near(q, Window(q)) /\ Window(q) \subseteq Int /\ HeldInv
  BY WindowBounds DEF SlotInv
<1>2. Occupied(buffer, q) = SlotsAt(q, Live(q))
  BY DEF SlotInv, SlotsLive
<1>3. \A i \in SlotsAt(q, Live(q)) : buffer[q][i] # Vacant
  BY <1>2 DEF Occupied
<1>4. /\ Live(q) \in SUBSET Window(q) /\ WriteAt(q) \in SUBSET Window(q)
      /\ DrainAt(q) \in SUBSET Window(q) /\ \A t \in Workers : ReadAt(t, q) \in SUBSET Window(q)
  BY <1>1, LiveInWindow DEF WriteAt, DrainAt, ReadAt
<1>5. ASSUME NEW i \in SlotsAt(q, WriteAt(q)) PROVE buffer[q][i] = Vacant
  <2>1. SlotsAt(q, WriteAt(q)) \cap SlotsAt(q, Live(q)) = {}
    BY ONLY <1>1, <1>4, WritesAreNew, PositionInv, SlotsDisjoint, q \in Workers
  <2>2. i \in 0 .. Capacity[q] - 1
    BY <1>1, <1>4, SlotType DEF SlotsAt
  <2> QED
    BY <1>2, <2>1, <2>2 DEF Occupied
<1>6. ASSUME NEW A \in SUBSET Live(q)
      PROVE  \A i \in SlotsAt(q, A) : buffer[q][i] # Vacant
  BY <1>3 DEF SlotsAt
<1>7. ASSUME NEW t \in Workers
      PROVE  /\ SlotsAt(q, ReadAt(t, q)) \cap SlotsAt(q, DrainAt(q)) = {}
             /\ SlotsAt(q, ReadAt(t, q)) \cap SlotsAt(q, WriteAt(q)) = {}
             /\ \A u \in Workers \ {t} :
                   SlotsAt(q, ReadAt(t, q)) \cap SlotsAt(q, ReadAt(u, q)) = {}
  <2>1. ReadAt(t, q) \cap WriteAt(q) = {}
    BY <1>1, ReadsAreLive, WritesAreNew
  <2> QED
    BY ONLY <1>1, <1>4, <2>1, PositionInv, ReadsApart, SlotsDisjoint, q \in Workers, t \in Workers
<1> QED
  BY <1>1, <1>5, <1>6, <1>7, ReadsAreLive, WritesAreNew

(* read_at and write_at keep their contract: what is read was initialized   *)
(* and not moved out, what is written holds no item, and no two threads     *)
(* access one slot at a time, whatever the width of the counters.           *)
THEOREM SlotContractKept == Spec => []SlotContract
<1>1. PositionInv /\ PositionInv' /\ ItemTypes /\ SlotInv /\ StoreInv /\ [Next]_vars
        => SlotInv' /\ StoreInv'
  BY NextSlotInv, NextStoreInv DEF StoreInv
<1> QED
  BY <1>1, InitPositionInv, NextPositionInv, InitItemTypes, NextItemTypes, InitSlotInv,
     InitStoreInv, ContractFollows, PTL DEF Spec

(* The invariants account for every item. *)
LEMMA AccountFollows ==
    PositionInv /\ ItemTypes /\ SlotInv /\ StoreInv /\ OutInv => ExactlyOnce
<1> SUFFICES ASSUME PositionInv, ItemTypes, SlotInv, StoreInv, OutInv PROVE ExactlyOnce
  OBVIOUS
<1>1. Stored = StoredIn(buffer)
  BY DEF Stored, StoredIn
<1>2. ASSUME NEW x PROVE x \in Carried <=> \E t \in Workers : x \in Brought(t)
  BY DEF Carried, Brought
<1>3. out \cup Stored \cup Carried = 1 .. created
  BY ONLY <1>1, <1>2, OutInv DEF OutInv
<1>4. out \cap Stored = {} /\ (out \cup Stored) \cap Carried = {}
  BY ONLY <1>1, <1>2, OutInv, StoreInv DEF OutInv, StoreInv
<1>5. ASSUME NEW q \in dropped, draining[q] = "no", NEW i \in DOMAIN buffer[q]
      PROVE  buffer[q][i] = Vacant
  <2>1. q \in Workers /\ i \in 0 .. Capacity[q] - 1
    BY DEF ItemTypes, BufferShape
  <2>2. ASSUME NEW p \in Int PROVE ~ LiveAt(q, p)
    BY <1>5 DEF SlotInv, GoneIsQuiet, LiveAt, OwnAt, BookedAt
  <2>3. Live(q) = {}
    BY ONLY <2>2 DEF Live
  <2>4. Occupied(buffer, q) = {}
    BY <2>1, <2>3 DEF SlotInv, SlotsLive, SlotsAt
  <2> QED
    BY ONLY <2>1, <2>4 DEF Occupied
<1> QED
  BY <1>3, <1>4, <1>5 DEF ExactlyOnce, StoreInv, Unique

(* Every item given to push or extend is on its way to its slot, in exactly *)
(* one slot, or was handed out, once, leaked Drains or not: Queue::drop      *)
(* starts at the worker head, behind everything a Drain has booked.         *)
THEOREM ItemsExactlyOnce == Spec => []ExactlyOnce
<1>1. PositionInv /\ PositionInv' /\ ItemTypes /\ SlotInv /\ StoreInv /\ OutInv /\ [Next]_vars
        => SlotInv' /\ StoreInv' /\ OutInv'
  <2> SUFFICES ASSUME PositionInv, PositionInv', ItemTypes, SlotInv, StoreInv, OutInv, [Next]_vars
               PROVE  SlotInv' /\ StoreInv' /\ OutInv'
    OBVIOUS
  <2>1. Unique(buffer)
    BY DEF StoreInv
  <2>2. SlotInv'
    BY <2>1, NextSlotInv
  <2> QED
    BY <2>2, NextStoreInv
<1> QED
  BY <1>1, InitPositionInv, NextPositionInv, InitItemTypes, NextItemTypes, InitSlotInv,
     InitStoreInv, AccountFollows, PTL DEF Spec

-----------------------------------------------------------------------------
(* The refinement: what the contract sees of the queues *)

\* The positions of q that t holds, that can be popped or booked, that the Drain has left.
HandAt(t, q, p) ==
    \/ pc[t] = "pop_read" /\ q = t /\ p = seen_worker[t]
    \/ pc[t] = "copy" /\ q = victim[t] /\ from[t] <= p /\ p < from[t] + count[t]
    \/ pc[t] = "publish_dest" /\ q = t /\ my_tail[t] <= p /\ p < my_tail[t] + TransferCount(t)

DequeAt(q, p) == q \notin dropped /\ worker_head[q] <= p /\ p < tail[q]

DrainedAt(q, p) == draining[q] # "no" /\ drain_head[q] <= p /\ p < drain_to[q]

SeenAt(q, p) == DequeAt(q, p) \/ DrainedAt(q, p) \/ \E t \in Workers : HandAt(t, q, p)

\* The slot of the position p of q keeps its item.
Kept(q, p) == buffer'[q][Slot(q, p)] = buffer[q][Slot(q, p)]

RefInv ==
    /\ PositionInv /\ ItemTypes /\ SlotInv /\ StoreInv /\ OutInv
    /\ created <= MaxCreated

(* All of them are live. *)
LEMMA SeenIsLive ==
    ASSUME NEW q \in Workers, NEW p \in Int, SeenAt(q, p)
    PROVE  LiveAt(q, p)
  BY DEF SeenAt, DequeAt, DrainedAt, HandAt, LiveAt, OwnAt, BookedAt

LEMMA SeenInWindow ==
    ASSUME RefInv, NEW q \in Workers, NEW p \in Int, LiveAt(q, p)
    PROVE  p \in Window(q)
<1>1. Live(q) \subseteq Window(q)
  BY LiveInWindow DEF RefInv, SlotInv
<1> QED
  BY <1>1 DEF Live

(* Live positions hold items, each a different one. *)
LEMMA LiveDistinct ==
    ASSUME RefInv, NEW q \in Workers, NEW p \in Int, LiveAt(q, p)
    PROVE  /\ buffer[q][Slot(q, p)] \in StoredIn(buffer)
           /\ buffer[q][Slot(q, p)] \in 1 .. created
           /\ \A v \in Workers : \A r \in Int :
                 LiveAt(v, r) /\ buffer[v][Slot(v, r)] = buffer[q][Slot(q, p)] => v = q /\ r = p
<1>1. \A v \in Workers : \A r \in Int :
         LiveAt(v, r) => /\ r \in Window(v) /\ Slot(v, r) \in 0 .. Capacity[v] - 1
                         /\ buffer[v][Slot(v, r)] # Vacant
  <2> SUFFICES ASSUME NEW v \in Workers, NEW r \in Int, LiveAt(v, r)
               PROVE  /\ r \in Window(v) /\ Slot(v, r) \in 0 .. Capacity[v] - 1
                      /\ buffer[v][Slot(v, r)] # Vacant
    OBVIOUS
  <2>1. r \in Window(v)
    BY SeenInWindow
  <2>2. Slot(v, r) \in SlotsAt(v, Live(v))
    BY DEF Live, SlotsAt
  <2>3. Slot(v, r) \in Occupied(buffer, v)
    BY <2>2 DEF RefInv, SlotInv, SlotsLive
  <2> QED
    BY <2>1, <2>3 DEF Occupied
<1>2. BufferShape(buffer) /\ Unique(buffer) /\ StoredIn(buffer) \subseteq 1 .. created
  BY DEF RefInv, ItemTypes, StoreInv
<1>3. buffer[q][Slot(q, p)] \in StoredIn(buffer)
  BY <1>1, <1>2, StoredCells
<1>4. ASSUME NEW v \in Workers, NEW r \in Int, LiveAt(v, r),
             buffer[v][Slot(v, r)] = buffer[q][Slot(q, p)]
      PROVE  v = q /\ r = p
  <2>1. v = q /\ Slot(v, r) = Slot(q, p)
    BY <1>1, <1>2, <1>4, UniqueCells
  <2>2. Near(q, Window(q))
    BY WindowBounds DEF RefInv, SlotInv
  <2>3. r \in Window(q) /\ p \in Window(q)
    BY <1>1, <1>4, <2>1
  <2>4. p - r < Capacity[q] /\ r - p < Capacity[q]
    BY ONLY <2>2, <2>3 DEF Near
  <2> QED
    BY <2>1, <2>4, SlotInjective
<1> QED
  BY <1>2, <1>3, <1>4

(* A hand whose positions keep their items stays as it is, ... *)
LEMMA HandStays ==
    ASSUME PositionInv, NEW t \in Workers,
           pc'[t] = pc[t], op'[t] = op[t], victim'[t] = victim[t], my_tail'[t] = my_tail[t],
           seen_worker'[t] = seen_worker[t], from'[t] = from[t], count'[t] = count[t],
           \A q \in Workers : \A p \in Int : HandAt(t, q, p) => Kept(q, p)
    PROVE  /\ Hand(t)' = Hand(t) /\ Source(t)' = Source(t) /\ Stealing(t)' = Stealing(t)
<1>1. /\ my_tail[t] \in Int /\ seen_worker[t] \in Int /\ from[t] \in Int /\ count[t] \in Int
      /\ TransferCount(t) \in Int /\ victim[t] \in Workers
  BY Numbers
<1>2. TransferCount(t)' = TransferCount(t)
  BY DEF TransferCount
<1>3. Source(t)' = Source(t) /\ Stealing(t)' = Stealing(t)
  BY DEF Source, Stealing
<1>4. CASE pc[t] = "pop_read"
  <2>1. \A r \in seen_worker[t] .. seen_worker[t] + 1 - 1 : Kept(t, r)
    BY <1>1, <1>4 DEF HandAt
  <2>2. Run(buffer', t, seen_worker[t], 1) = Run(buffer, t, seen_worker[t], 1)
    BY <1>1, <2>1, RunSame DEF Kept
  <2> QED
    BY <1>3, <1>4, <2>2 DEF Hand
<1>5. CASE pc[t] = "copy"
  <2>1. \A r \in from[t] .. from[t] + count[t] - 1 : Kept(victim[t], r)
    BY <1>1, <1>5 DEF HandAt
  <2>2. Run(buffer', victim[t], from[t], count[t]) = Run(buffer, victim[t], from[t], count[t])
    BY <1>1, <2>1, RunSame DEF Kept
  <2> QED
    BY <1>3, <1>5, <2>2 DEF Hand
<1>6. CASE pc[t] = "publish_dest"
  <2>1. \A r \in my_tail[t] .. my_tail[t] + TransferCount(t) - 1 : Kept(t, r)
    BY <1>1, <1>6 DEF HandAt
  <2>2. Run(buffer', t, my_tail[t], TransferCount(t)) = Run(buffer, t, my_tail[t], TransferCount(t))
    BY <1>1, <2>1, RunSame DEF Kept
  <2> QED
    BY <1>2, <1>3, <1>6, <2>2 DEF Hand
<1>7. CASE pc[t] \notin {"pop_read", "copy", "publish_dest"}
  BY <1>3, <1>7 DEF Hand
<1> QED
  BY <1>4, <1>5, <1>6, <1>7

(* ... and so do the queue ... *)
LEMMA DequeStays ==
    ASSUME PositionInv, NEW q \in Workers, worker_head'[q] = worker_head[q], tail'[q] = tail[q],
           q \in dropped' <=> q \in dropped, \A p \in Int : DequeAt(q, p) => Kept(q, p)
    PROVE  Deque(q)' = Deque(q)
<1>1. worker_head[q] \in Int /\ tail[q] \in Int
  BY Numbers
<1>2. CASE q \notin dropped
  <2>1. \A r \in worker_head[q] .. worker_head[q] + (tail[q] - worker_head[q]) - 1 : Kept(q, r)
    BY <1>1, <1>2 DEF DequeAt
  <2>2. Run(buffer', q, worker_head[q], tail[q] - worker_head[q])
          = Run(buffer, q, worker_head[q], tail[q] - worker_head[q])
    BY <1>1, <2>1, RunSame DEF Kept
  <2> QED
    BY <1>2, <2>2 DEF Deque
<1> QED
  BY <1>2 DEF Deque

(* ... and what the Drain has left. *)
LEMMA DrainedStays ==
    ASSUME PositionInv, NEW q \in Workers, draining'[q] = "no" <=> draining[q] = "no",
           drain_head'[q] = drain_head[q], drain_to'[q] = drain_to[q],
           \A p \in Int : DrainedAt(q, p) => Kept(q, p)
    PROVE  Drained(q)' = Drained(q)
<1>1. drain_head[q] \in Int /\ drain_to[q] \in Int
  BY Numbers
<1>2. CASE draining[q] # "no"
  <2>1. \A r \in drain_head[q] .. drain_head[q] + (drain_to[q] - drain_head[q]) - 1 : Kept(q, r)
    BY <1>1, <1>2 DEF DrainedAt
  <2>2. Run(buffer', q, drain_head[q], drain_to[q] - drain_head[q])
          = Run(buffer, q, drain_head[q], drain_to[q] - drain_head[q])
    BY <1>1, <2>1, RunSame DEF Kept
  <2> QED
    BY <1>2, <2>2 DEF Drained
<1> QED
  BY <1>2 DEF Drained

(* What a steal or a Drain has booked is what the heads differ by, or less: *)
(* pops of the owner count too, until the stealer head catches up.          *)
LEMMA BookedIs ==
    ASSUME PositionInv, NEW q \in Workers
    PROVE  /\ \A t \in Workers : Stealing(t) /\ victim[t] = q => BookedBy(q) = count[t]
           /\ (\A t \in Workers : ~ (Stealing(t) /\ victim[t] = q)) /\ draining[q] # "no"
                => BookedBy(q) = drain_to[q] - stealer_head[q]
           /\ (\A t \in Workers : ~ (Stealing(t) /\ victim[t] = q)) /\ draining[q] = "no"
                => BookedBy(q) = 0
<1> DEFINE T == {t \in Workers : Stealing(t) /\ victim[t] = q}
<1>1. BookedBy(q) = CASE T # {}             -> count[CHOOSE t \in T : TRUE]
                      [] draining[q] # "no" -> drain_to[q] - stealer_head[q]
                      [] OTHER              -> 0
  BY DEF BookedBy
<1>2. ASSUME NEW t \in Workers, Stealing(t), victim[t] = q PROVE BookedBy(q) = count[t]
  <2>1. t \in T /\ \A u \in T : u = t
    BY <1>2 DEF PositionInv, Alone
  <2>2. draining[q] = "no"
    BY <1>2 DEF PositionInv, Holds
  <2>3. (CHOOSE u \in T : TRUE) = t
    BY <2>1
  <2> HIDE DEF T
  <2> QED
    BY <1>1, <2>1, <2>2, <2>3
<1>3. ASSUME \A t \in Workers : ~ (Stealing(t) /\ victim[t] = q) PROVE T = {}
  BY <1>3
<1> HIDE DEF T
<1> QED
  BY <1>1, <1>2, <1>3

LEMMA BookedFits ==
    ASSUME PositionInv, NEW q \in Workers
    PROVE  /\ BookedBy(q) \in Nat /\ BookedBy(q) <= worker_head[q] - stealer_head[q]
           /\ worker_head[q] = stealer_head[q]
                => /\ \A t \in Workers : ~ (Stealing(t) /\ victim[t] = q)
                   /\ draining[q] = "no" /\ BookedBy(q) = 0
<1>1. ASSUME NEW t \in Workers, Stealing(t), victim[t] = q
      PROVE  /\ BookedBy(q) = count[t] /\ count[t] \in Nat /\ count[t] >= 1
             /\ count[t] <= worker_head[q] - stealer_head[q]
  <2>1. /\ count[t] >= 1 /\ stealer_head[q] = from[t] /\ from[t] + count[t] <= worker_head[q]
    BY <1>1 DEF PositionInv, Holds
  <2> QED
    BY <1>1, <2>1, BookedIs, Numbers
<1>2. /\ draining[q] # "no" => stealer_head[q] < drain_to[q] /\ drain_to[q] <= worker_head[q]
      /\ stealer_head[q] \in Nat /\ drain_to[q] \in Nat /\ worker_head[q] \in Nat
      /\ stealer_head[q] <= worker_head[q]
  BY Numbers DEF PositionInv, DrainHolds
<1>3. CASE \E t \in Workers : Stealing(t) /\ victim[t] = q
  BY <1>1, <1>2, <1>3
<1>4. CASE \A t \in Workers : ~ (Stealing(t) /\ victim[t] = q)
  <2>1. draining[q] # "no" => BookedBy(q) = drain_to[q] - stealer_head[q]
    BY <1>4, BookedIs
  <2>2. draining[q] = "no" => BookedBy(q) = 0
    BY <1>4, BookedIs
  <2>3. CASE draining[q] = "no"
    BY <1>2, <1>4, <2>2, <2>3
  <2>4. CASE draining[q] # "no"
    BY <1>2, <1>4, <2>1, <2>4
  <2> QED
    BY <2>3, <2>4
<1> QED
  BY <1>3, <1>4

(* The functions the contract sees, when only one place of them may change. *)
LEMMA OthersSeen ==
    ASSUME PositionInv, NEW t \in Workers, OthersKeep(t),
           \A u \in Workers \ {t} : \A q \in Workers : \A p \in Int :
              HandAt(u, q, p) => Kept(q, p)
    PROVE  /\ [u \in Workers |-> Hand(u)]' = [[u \in Workers |-> Hand(u)] EXCEPT ![t] = Hand(t)']
           /\ [u \in Workers |-> Source(u)]'
                = [[u \in Workers |-> Source(u)] EXCEPT ![t] = Source(t)']
           /\ [u \in Workers |-> Stealing(u)]'
                = [[u \in Workers |-> Stealing(u)] EXCEPT ![t] = Stealing(t)']
<1>1. ASSUME NEW u \in Workers \ {t}
      PROVE  Hand(u)' = Hand(u) /\ Source(u)' = Source(u) /\ Stealing(u)' = Stealing(u)
  BY HandStays DEF OthersKeep
<1> QED
  BY <1>1

LEMMA SourcesStay ==
    ASSUME NEW t \in Workers, OthersKeep(t), Source(t)' = Source(t), Stealing(t)' = Stealing(t)
    PROVE  /\ [u \in Workers |-> Source(u)]' = [u \in Workers |-> Source(u)]
           /\ [u \in Workers |-> Stealing(u)]' = [u \in Workers |-> Stealing(u)]
<1>1. \A u \in Workers : Source(u)' = Source(u) /\ Stealing(u)' = Stealing(u)
  BY DEF OthersKeep, Source, Stealing
<1> QED
  BY <1>1

\* The deques and Drains stay if their counters do, and their slots.
LEMMA DequesStay ==
    ASSUME PositionInv, UNCHANGED <<worker_head, tail, dropped>>,
           \A q \in Workers : \A p \in Int : DequeAt(q, p) => Kept(q, p)
    PROVE  [q \in Workers |-> Deque(q)]' = [q \in Workers |-> Deque(q)]
<1>1. \A q \in Workers : Deque(q)' = Deque(q)
  BY DequeStays
<1> QED
  BY <1>1

LEMMA DrainsStay ==
    ASSUME PositionInv, UNCHANGED <<drain_head, drain_to>>,
           \A q \in Workers : draining'[q] = "no" <=> draining[q] = "no",
           \A q \in Workers : \A p \in Int : DrainedAt(q, p) => Kept(q, p)
    PROVE  [q \in Workers |-> Drained(q)]' = [q \in Workers |-> Drained(q)]
<1>1. \A q \in Workers : Drained(q)' = Drained(q)
  BY DrainedStays
<1> QED
  BY <1>1

\* The bookings stay when no steal and no Drain begins or ends.
LEMMA BookedSame ==
    ASSUME NEW q \in Workers,
           \A u \in Workers : Stealing(u)' /\ victim'[u] = q <=> Stealing(u) /\ victim[u] = q,
           \A u \in Workers : Stealing(u) /\ victim[u] = q => count'[u] = count[u],
           draining'[q] = "no" <=> draining[q] = "no",
           draining[q] # "no" => drain_to'[q] = drain_to[q] /\ stealer_head'[q] = stealer_head[q]
    PROVE  BookedBy(q)' = BookedBy(q)
<1> DEFINE T == {u \in Workers : Stealing(u) /\ victim[u] = q}
           T2 == {u \in Workers : Stealing(u)' /\ victim'[u] = q}
<1>1. T2 = T
  OBVIOUS
<1>2. BookedBy(q) = CASE T # {}             -> count[CHOOSE t \in T : TRUE]
                      [] draining[q] # "no" -> drain_to[q] - stealer_head[q]
                      [] OTHER              -> 0
  BY DEF BookedBy
<1>3. BookedBy(q)' = CASE T2 # {}             -> count'[CHOOSE t \in T2 : TRUE]
                       [] draining'[q] # "no" -> drain_to'[q] - stealer_head'[q]
                       [] OTHER               -> 0
  BY DEF BookedBy
<1>4. T # {} => (CHOOSE t \in T : TRUE) \in T
  OBVIOUS
<1>5. \A u \in T : count'[u] = count[u]
  OBVIOUS
<1> HIDE DEF T, T2
<1> QED
  BY <1>1, <1>2, <1>3, <1>4, <1>5

\* Nothing is booked after the steal or the Drain.
LEMMA BookedNone ==
    ASSUME NEW q \in Workers,
           \A u \in Workers : ~ (Stealing(u)' /\ victim'[u] = q), draining'[q] = "no"
    PROVE  BookedBy(q)' = 0
<1> DEFINE T == {u \in Workers : Stealing(u)' /\ victim'[u] = q}
<1>1. BookedBy(q)' = CASE T # {}             -> count'[CHOOSE t \in T : TRUE]
                       [] draining'[q] # "no" -> drain_to'[q] - stealer_head'[q]
                       [] OTHER               -> 0
  BY DEF BookedBy
<1>2. T = {}
  OBVIOUS
<1> HIDE DEF T
<1> QED
  BY <1>1, <1>2

\* A steal books what it counts.
LEMMA BookedAfter ==
    ASSUME NEW t \in Workers, NEW q \in Workers, Stealing(t)', victim'[t] = q,
           draining'[q] = "no",
           \A u \in Workers \ {t} : ~ (Stealing(u)' /\ victim'[u] = q)
    PROVE  BookedBy(q)' = count'[t]
<1> DEFINE T == {u \in Workers : Stealing(u)' /\ victim'[u] = q}
<1>1. BookedBy(q)' = CASE T # {}             -> count'[CHOOSE u \in T : TRUE]
                       [] draining'[q] # "no" -> drain_to'[q] - stealer_head'[q]
                       [] OTHER               -> 0
  BY DEF BookedBy
<1>2. t \in T /\ \A u \in T : u = t
  OBVIOUS
<1>3. (CHOOSE u \in T : TRUE) = t
  BY <1>2
<1> HIDE DEF T
<1> QED
  BY <1>1, <1>2, <1>3

\* A Drain books what it is going to yield.
LEMMA BookedDrain ==
    ASSUME NEW q \in Workers,
           \A u \in Workers : ~ (Stealing(u)' /\ victim'[u] = q), draining'[q] # "no"
    PROVE  BookedBy(q)' = drain_to'[q] - stealer_head'[q]
<1> DEFINE T == {u \in Workers : Stealing(u)' /\ victim'[u] = q}
<1>1. BookedBy(q)' = CASE T # {}             -> count'[CHOOSE t \in T : TRUE]
                       [] draining'[q] # "no" -> drain_to'[q] - stealer_head'[q]
                       [] OTHER               -> 0
  BY DEF BookedBy
<1>2. T = {}
  OBVIOUS
<1> HIDE DEF T
<1> QED
  BY <1>1, <1>2

LEMMA BookedStay ==
    ASSUME NEW t \in Workers, OthersKeep(t), Stealing(t)' = Stealing(t),
           Stealing(t) => victim'[t] = victim[t] /\ count'[t] = count[t],
           \A q \in Workers : draining'[q] = "no" <=> draining[q] = "no",
           \A q \in Workers : draining[q] # "no" =>
              drain_to'[q] = drain_to[q] /\ stealer_head'[q] = stealer_head[q]
    PROVE  [q \in Workers |-> BookedBy(q)]' = [q \in Workers |-> BookedBy(q)]
<1>1. \A u \in Workers : /\ Stealing(u)' = Stealing(u)
                         /\ Stealing(u) => victim'[u] = victim[u] /\ count'[u] = count[u]
  BY DEF OthersKeep, Stealing
<1>2. \A q \in Workers : BookedBy(q)' = BookedBy(q)
  BY <1>1, BookedSame
<1> QED
  BY <1>2

Refines == [Contract!Next]_(Contract!vars)

Handy == {"pop_read", "copy", "publish_dest"}

\* A step between a call and the next effect of it, or to its end.
LEMMA QuietRefines ==
    ASSUME PositionInv, NEW t \in Workers, OthersKeep(t),
           pc[t] \notin Handy, pc'[t] \notin Handy, Stealing(t)' = Stealing(t),
           Stealing(t) => victim'[t] = victim[t] /\ count'[t] = count[t],
           UNCHANGED <<worker_head, stealer_head, tail, dropped, drain_head, drain_to, out>>,
           \A q \in Workers : draining'[q] = "no" <=> draining[q] = "no",
           \A q \in Workers : \A p \in Int : SeenAt(q, p) => Kept(q, p)
    PROVE  UNCHANGED Contract!vars
<1>1. Hand(t)' = Hand(t) /\ Source(t)' = Source(t)
  BY DEF Hand, Source, Handy
<1>2. /\ [u \in Workers |-> Source(u)]' = [u \in Workers |-> Source(u)]
      /\ [u \in Workers |-> Stealing(u)]' = [u \in Workers |-> Stealing(u)]
  BY <1>1, SourcesStay
<1>3. [u \in Workers |-> Hand(u)]' = [u \in Workers |-> Hand(u)]
  <2>1. [u \in Workers |-> Hand(u)]' = [[u \in Workers |-> Hand(u)] EXCEPT ![t] = Hand(t)']
    BY OthersSeen DEF SeenAt
  <2> QED
    BY ONLY <1>1, <2>1
<1>4. [q \in Workers |-> Deque(q)]' = [q \in Workers |-> Deque(q)]
  BY DequesStay DEF SeenAt
<1>5. [q \in Workers |-> Drained(q)]' = [q \in Workers |-> Drained(q)]
  BY DrainsStay DEF SeenAt
<1>6. [q \in Workers |-> BookedBy(q)]' = [q \in Workers |-> BookedBy(q)]
  BY BookedStay
<1> QED
  BY ONLY <1>2, <1>3, <1>4, <1>5, <1>6, out' = out DEF Contract!vars

LEMMA LooksRefine ==
    ASSUME RefInv, NEW t \in Workers,
           \/ Push(t) \/ (\E n \in 0 .. MaxCreated : Extend(t, n)) \/ Pop(t) \/ PopCasFail(t)
           \/ (\E v \in Workers, name \in OpNames : Steal(t, v, name)) \/ DrainCall(t)
           \/ LoadHeads(t) \/ (\E n \in 0 .. Modulus - 1 : LoadTail(t, n))
           \/ BookFail(t) \/ LoadCommit(t) \/ CommitFail(t)
    PROVE  Refines
<1>1. PositionInv /\ CounterTypes
  BY DEF RefInv, PositionInv
<1>2. OthersKeep(t)
  BY <1>1, StepOthers DEF Step
<1>3. UNCHANGED <<worker_head, stealer_head, tail, dropped, drainVars, out, buffer>>
  BY DEF Push, Extend, Pop, PopCasFail, Steal, DrainCall, LoadHeads, LoadTail, BookFail,
     LoadCommit, CommitFail, queueVars, headsVars, itemVars
<1>4. pc \in [Workers -> {"idle", "write", "publish", "pop_cas", "pop_read",
                           "load_heads", "load_tail", "book", "copy",
                           "publish_dest", "load_commit", "commit"}]
  BY <1>1 DEF CounterTypes
<1>5. /\ pc[t] \notin Handy /\ pc'[t] \notin Handy /\ Stealing(t)' = Stealing(t)
      /\ Stealing(t) => victim'[t] = victim[t] /\ count'[t] = count[t]
  <2>1. CASE LoadCommit(t) \/ CommitFail(t)
    BY <1>4, <2>1 DEF LoadCommit, CommitFail, Goto, Handy, Stealing
  <2>2. CASE ~ (LoadCommit(t) \/ CommitFail(t))
    <3>1. /\ pc[t] \in {"idle", "pop_cas", "load_heads", "load_tail", "book"}
          /\ pc'[t] \in {"idle", "write", "pop_cas", "load_heads", "load_tail", "book"}
      BY <1>4, <2>2 DEF Push, Extend, Pop, PopCasFail, Steal, DrainCall, LoadHeads, LoadTail,
         BookFail, BusyTest, Call, Return, Goto
    <3> QED
      BY <3>1 DEF Handy, Stealing
  <2> QED
    BY <2>1, <2>2
<1>6. UNCHANGED Contract!vars
  BY <1>1, <1>2, <1>3, <1>5, QuietRefines DEF Kept, drainVars
<1> QED
  BY ONLY <1>6 DEF Refines

(* The clients do not see a Drain look for the heads, or leak. *)
LEMMA DrainLooksRefine ==
    ASSUME RefInv, NEW t \in Workers, DrainLoad(t) \/ DrainLeak(t)
    PROVE  Refines
<1>1. PositionInv /\ CounterTypes
  BY DEF RefInv, PositionInv
<1>2. OthersKeep(t)
  BY <1>1, StepOthers DEF Step
<1>3. UNCHANGED <<queueVars, threadVars, drain_head, drain_to, itemVars>>
  BY DEF DrainLoad, DrainLeak
<1>4. \A q \in Workers : draining'[q] = "no" <=> draining[q] = "no"
  BY <1>1 DEF DrainLoad, DrainLeak, CounterTypes
<1>5. \A u \in Workers : Hand(u)' = Hand(u) /\ Source(u)' = Source(u) /\ Stealing(u)' = Stealing(u)
  BY <1>1, <1>3, HandStays DEF Kept, queueVars, threadVars, localVars, seenVars
<1>6. [q \in Workers |-> Deque(q)]' = [q \in Workers |-> Deque(q)]
  BY <1>1, <1>3, DequesStay DEF Kept, queueVars, headsVars
<1>7. [q \in Workers |-> Drained(q)]' = [q \in Workers |-> Drained(q)]
  BY <1>1, <1>3, <1>4, DrainsStay DEF Kept, queueVars
<1>8. [q \in Workers |-> BookedBy(q)]' = [q \in Workers |-> BookedBy(q)]
  BY <1>2, <1>3, <1>4, <1>5, BookedStay DEF queueVars, headsVars, threadVars, localVars
<1>9. /\ [u \in Workers |-> Hand(u)]' = [u \in Workers |-> Hand(u)]
      /\ [u \in Workers |-> Source(u)]' = [u \in Workers |-> Source(u)]
      /\ [u \in Workers |-> Stealing(u)]' = [u \in Workers |-> Stealing(u)]
  BY <1>5
<1>10. out' = out
  BY <1>3 DEF itemVars
<1> QED
  BY ONLY <1>6, <1>7, <1>8, <1>9, <1>10 DEF Refines, Contract!vars

(* A live position next to a run of others in the window of its queue. *)
LEMMA LiveApart ==
    ASSUME RefInv, NEW q \in Workers, NEW p \in Int, LiveAt(q, p), NEW v \in Workers,
           NEW f \in Int, NEW n \in Int, f .. f + n - 1 \subseteq Window(v),
           ~ (q = v /\ p \in f .. f + n - 1)
    PROVE  Apart(q, p, v, f, n)
<1>1. p \in Window(q)
  BY SeenInWindow
<1>2. Near(q, Window(q))
  BY WindowBounds DEF RefInv, SlotInv
<1> SUFFICES ASSUME q = v, NEW x \in f .. f + n - 1
             PROVE  x # p /\ x - p < Capacity[q] /\ p - x < Capacity[q]
  BY DEF Apart
<1>3. x \in Window(q)
  OBVIOUS
<1> QED
  BY <1>1, <1>2, <1>3 DEF Near

(* What is written before it is published is none of the contract's business. *)
LEMMA WriteRefines ==
    ASSUME RefInv, NEW t \in Workers, Write(t)
    PROVE  Refines
<1>1. PositionInv /\ CounterTypes /\ BufferShape(buffer)
  BY DEF RefInv, PositionInv, ItemTypes
<1>2. OthersKeep(t)
  BY <1>1, StepOthers DEF Step
<1> DEFINE f == my_tail[t]
           n == count[t]
           s == [k \in 0 .. n - 1 |-> carried[t] + 1 + k]
<1>3. /\ pc[t] = "write" /\ pc'[t] = "publish" /\ buffer' = Written(buffer, t, f, s)
      /\ UNCHANGED <<worker_head, stealer_head, tail, dropped, draining, drain_head, drain_to, out>>
  BY <1>1 DEF Write, Goto, CounterTypes, headsVars, drainVars, itemVars
<1>4. /\ f \in Nat /\ n \in Nat /\ carried[t] \in Nat
  BY <1>1, Numbers
<1>5. f .. f + n - 1 \subseteq Window(t) /\ n <= Capacity[t]
      /\ \A p \in f .. f + n - 1 : ~ LiveAt(t, p)
  BY <1>1, <1>3, <1>4, RoomToWrite
<1>6. s \in [0 .. n - 1 -> Content]
  BY <1>4 DEF Content
<1> HIDE DEF f, n, s
<1>7. FilledIn(buffer', buffer, t, f, n, s)
  BY <1>1, <1>3, <1>4, <1>5, <1>6, WrittenCells
<1>8. ASSUME NEW q \in Workers, NEW p \in Int, SeenAt(q, p) PROVE Kept(q, p)
  <2>1. LiveAt(q, p)
    BY <1>8, SeenIsLive
  <2>2. Apart(q, p, t, f, n)
    BY <1>4, <1>5, <2>1, LiveApart
  <2> QED
    BY <1>4, <1>7, <2>2, FilledKeeps DEF Kept
<1>9. pc[t] \notin Handy /\ pc'[t] \notin Handy /\ ~ Stealing(t) /\ Stealing(t)' = Stealing(t)
  BY <1>3 DEF Handy, Stealing
<1>10. UNCHANGED Contract!vars
  BY <1>1, <1>2, <1>3, <1>8, <1>9, QuietRefines
<1> QED
  BY ONLY <1>10 DEF Refines

(* The functions stay for everybody but t and everything but what is moved out of its hand. *)
LEMMA HandGoesOn ==
    ASSUME PositionInv, NEW t \in Workers, OthersKeep(t),
           UNCHANGED <<worker_head, stealer_head, tail, dropped, draining, drain_head, drain_to>>,
           Source(t)' = Source(t), Stealing(t)' = Stealing(t),
           Stealing(t) => victim'[t] = victim[t] /\ count'[t] = count[t],
           \A q \in Workers : \A p \in Int :
              SeenAt(q, p) /\ ~ HandAt(t, q, p) => Kept(q, p),
           \A u \in Workers \ {t} : \A q \in Workers : \A p \in Int :
              HandAt(u, q, p) => ~ HandAt(t, q, p),
           \A q \in Workers : \A p \in Int :
              HandAt(t, q, p) => ~ DequeAt(q, p) /\ ~ DrainedAt(q, p)
    PROVE  /\ [u \in Workers |-> Hand(u)]' = [[u \in Workers |-> Hand(u)] EXCEPT ![t] = Hand(t)']
           /\ UNCHANGED <<[q \in Workers |-> Deque(q)], [u \in Workers |-> Source(u)],
                          [u \in Workers |-> Stealing(u)],
                          [q \in Workers |-> BookedBy(q)],
                          [q \in Workers |-> Drained(q)]>>
<1>1. [u \in Workers |-> Hand(u)]' = [[u \in Workers |-> Hand(u)] EXCEPT ![t] = Hand(t)']
  BY OthersSeen DEF SeenAt
<1>2. [q \in Workers |-> Deque(q)]' = [q \in Workers |-> Deque(q)]
  BY DequesStay DEF SeenAt
<1>3. [q \in Workers |-> Drained(q)]' = [q \in Workers |-> Drained(q)]
  BY DrainsStay DEF SeenAt
<1>4. [q \in Workers |-> BookedBy(q)]' = [q \in Workers |-> BookedBy(q)]
  BY BookedStay
<1>5. /\ [u \in Workers |-> Source(u)]' = [u \in Workers |-> Source(u)]
      /\ [u \in Workers |-> Stealing(u)]' = [u \in Workers |-> Stealing(u)]
  BY SourcesStay
<1> QED
  BY ONLY <1>1, <1>2, <1>3, <1>4, <1>5

(* What a thread holds, nobody else has, and it is not in the queue any more. *)
LEMMA HandsApart ==
    ASSUME RefInv, NEW t \in Workers, NEW q \in Workers, NEW p \in Int, HandAt(t, q, p)
    PROVE  /\ ~ DequeAt(q, p) /\ ~ DrainedAt(q, p)
           /\ \A u \in Workers \ {t} : ~ HandAt(u, q, p)
<1>1. PositionInv /\ HeldInv
  BY DEF RefInv, SlotInv
<1>2. /\ worker_head[q] \in Int /\ tail[q] \in Int /\ worker_head[q] <= tail[q]
      /\ my_tail[q] \in Int /\ drain_to[q] \in Int /\ drain_head[q] \in Int
  BY <1>1, Numbers
<1>3. ASSUME NEW u \in Workers, HandAt(u, q, p), pc[u] # "copy"
      PROVE  /\ u = q /\ OwnAt(q, p) /\ ~ DequeAt(q, p) /\ ~ DrainedAt(q, p) /\ ~ BookedAt(q, p)
  <2>1. u = q /\ OwnAt(q, p) /\ pc[q] \in {"pop_read", "publish_dest"}
    BY <1>3 DEF HandAt, OwnAt
  <2>2. /\ draining[q] # "no" => p < drain_head[q] \/ drain_to[q] <= p
        /\ ~ BookedAt(q, p)
        /\ pc[q] = "pop_read" => p < worker_head[q]
    BY <1>1, <2>1, OwnApart
  <2>3. pc[q] = "publish_dest" => tail[q] <= p
    BY <1>1, <2>1 DEF OwnAt, PositionInv, KnowsTail
  <2>4. ~ DequeAt(q, p)
    BY <1>2, <2>1, <2>2, <2>3 DEF DequeAt
  <2>5. ~ DrainedAt(q, p)
    BY <1>2, <2>2 DEF DrainedAt
  <2> QED
    BY <2>1, <2>2, <2>4, <2>5
<1>4. ASSUME NEW u \in Workers, HandAt(u, q, p), pc[u] = "copy"
      PROVE  /\ victim[u] = q /\ BookedAt(q, p) /\ ~ DequeAt(q, p) /\ ~ DrainedAt(q, p)
  <2>1. BookedAt(q, p) /\ victim[u] = q
    BY <1>4 DEF HandAt, BookedAt
  <2>2. p < worker_head[q] /\ draining[q] = "no"
    BY <1>1, <2>1, BookedBelow
  <2> QED
    BY <1>2, <2>1, <2>2 DEF DequeAt, DrainedAt
<1>5. ASSUME NEW u \in Workers \ {t}, HandAt(u, q, p) PROVE FALSE
  <2>1. CASE pc[t] = "copy" /\ pc[u] = "copy"
    <3>1. victim[t] = q /\ victim[u] = q
      BY <1>4, <1>5, <2>1
    <3> QED
      BY <1>1, <2>1, <3>1 DEF PositionInv, Alone, Stealing
  <2>2. CASE pc[t] # "copy" /\ pc[u] # "copy"
    BY <1>3, <1>5, <2>2
  <2>3. CASE pc[t] = "copy" /\ pc[u] # "copy"
    BY <1>3, <1>4, <1>5, <2>3
  <2>4. CASE pc[t] # "copy" /\ pc[u] = "copy"
    BY <1>3, <1>4, <1>5, <2>4
  <2> QED
    BY <2>1, <2>2, <2>3, <2>4
<1> QED
  BY <1>3, <1>4, <1>5

(* The last item in the hand of t goes to its caller. *)
LEMMA DeliverStep ==
    ASSUME NEW t \in Workers,
           [u \in Workers |-> Hand(u)]' = [[u \in Workers |-> Hand(u)] EXCEPT ![t] = Hand(t)'],
           UNCHANGED <<[q \in Workers |-> Deque(q)], [u \in Workers |-> Source(u)],
                       [u \in Workers |-> Stealing(u)],
                       [q \in Workers |-> BookedBy(q)],
                       [q \in Workers |-> Drained(q)]>>,
           Hand(t) # <<>>, out' = out \cup {Hand(t)[Len(Hand(t))]},
           Hand(t)' = SubSeq(Hand(t), 1, Len(Hand(t)) - 1)
    PROVE  Refines
<1> DEFINE H == [u \in Workers |-> Hand(u)]
<1>1. H[t] = Hand(t)
  OBVIOUS
<1>2. Contract!Last(Hand(t)) = Hand(t)[Len(Hand(t))]
      /\ Contract!Front(Hand(t)) = SubSeq(Hand(t), 1, Len(Hand(t)) - 1)
  BY DEF Contract!Last, Contract!Front
<1>3. H' = [H EXCEPT ![t] = Contract!Front(H[t])]
  BY <1>1, <1>2
<1>4. H[t] # <<>> /\ out' = out \cup {Contract!Last(H[t])}
  BY <1>1, <1>2
<1> HIDE DEF H
<1>5. Contract!Deliver(t)
  BY <1>3, <1>4 DEF Contract!Deliver, H
<1> QED
  BY <1>5 DEF Refines, Contract!Next

LEMMA PopReadRefines ==
    ASSUME RefInv, NEW t \in Workers, PopRead(t)
    PROVE  Refines
<1>1. PositionInv /\ CounterTypes /\ BufferShape(buffer)
  BY DEF RefInv, PositionInv, ItemTypes
<1>2. OthersKeep(t)
  BY <1>1, StepOthers DEF Step
<1> DEFINE f == seen_worker[t]
<1>3. /\ pc[t] = "pop_read" /\ pc'[t] = "idle"
      /\ buffer' = MovedOut(buffer, t, f, 1) /\ out' = out \cup Read(buffer, t, f, 1)
      /\ UNCHANGED <<worker_head, stealer_head, tail, dropped, draining, drain_head, drain_to>>
  BY <1>1 DEF PopRead, Return, Goto, CounterTypes, headsVars, drainVars
<1>4. f \in Int
  BY <1>1, Numbers
<1>5. \A q \in Workers : \A p \in Int : HandAt(t, q, p) <=> q = t /\ p = f
  BY <1>3 DEF HandAt
<1>6. LiveAt(t, f) /\ f .. f + 1 - 1 \subseteq Window(t)
  <2>1. SeenAt(t, f)
    BY <1>4, <1>5 DEF SeenAt
  <2>2. LiveAt(t, f)
    BY <1>4, <2>1, SeenIsLive
  <2>3. f \in Window(t)
    BY <1>4, <2>2, SeenInWindow
  <2> HIDE DEF f
  <2> QED
    BY <1>4, <2>2, <2>3
<1>7. Hand(t) = Run(buffer, t, f, 1) /\ Hand(t)' = <<>>
      /\ Source(t)' = Source(t) /\ Stealing(t)' = Stealing(t) /\ ~ Stealing(t)
  BY <1>3 DEF Hand, Source, Stealing
<1> HIDE DEF f
<1>8. ASSUME NEW q \in Workers, NEW p \in Int, SeenAt(q, p), ~ HandAt(t, q, p)
      PROVE  Kept(q, p)
  <2>1. LiveAt(q, p)
    BY <1>8, SeenIsLive
  <2>2. ~ (q = t /\ p \in f .. f + 1 - 1)
    BY <1>4, <1>5, <1>8
  <2>3. Apart(q, p, t, f, 1)
    BY <1>4, <1>6, <2>1, <2>2, LiveApart
  <2> QED
    BY <1>1, <1>3, <1>4, <2>3, MovedOutKeeps DEF Kept
<1>9. /\ [u \in Workers |-> Hand(u)]' = [[u \in Workers |-> Hand(u)] EXCEPT ![t] = Hand(t)']
      /\ UNCHANGED <<[q \in Workers |-> Deque(q)], [u \in Workers |-> Source(u)],
                     [u \in Workers |-> Stealing(u)],
                     [q \in Workers |-> BookedBy(q)],
                     [q \in Workers |-> Drained(q)]>>
  BY <1>1, <1>2, <1>3, <1>7, <1>8, HandsApart, HandGoesOn
<1>10. /\ Hand(t) # <<>> /\ out' = out \cup {Hand(t)[Len(Hand(t))]}
       /\ Hand(t)' = SubSeq(Hand(t), 1, Len(Hand(t)) - 1)
  <2> DEFINE s == Run(buffer, t, f, 1)
  <2>1. /\ s # <<>> /\ Len(s) = 1 /\ SubSeq(s, 1, Len(s) - 1) = <<>>
        /\ Read(buffer, t, f, 1) = {s[1]}
    BY <1>4, RunOne
  <2>5. Hand(t) = s /\ out' = out \cup {s[1]} /\ Hand(t)' = <<>>
    BY <1>3, <1>7, <2>1
  <2> HIDE DEF s
  <2> QED
    BY ONLY <2>1, <2>5
<1> QED
  BY <1>9, <1>10, DeliverStep

(* A steal copies what it has in its hand; steal_and_pop hands out the last item of it. *)
LEMMA CopyRefines ==
    ASSUME RefInv, PositionInv', NEW t \in Workers, Copy(t)
    PROVE  Refines
<1>1. /\ PositionInv /\ CounterTypes /\ BufferShape(buffer) /\ ItemTypes /\ SlotInv
      /\ Unique(buffer)
  BY DEF RefInv, PositionInv, ItemTypes, StoreInv
<1>2. OthersKeep(t)
  BY <1>1, StepOthers DEF Step
<1> DEFINE v == victim[t]
           c == count[t]
           n == TransferCount(t)
           f == from[t]
           to == my_tail[t]
<1>3. /\ pc[t] = "copy" /\ pc'[t] = "publish_dest" /\ v \in Workers
      /\ buffer' = Copied(buffer, v, f, c, t, to, n)
      /\ out' = out \cup Read(buffer, v, f + n, c - n)
      /\ UNCHANGED <<worker_head, stealer_head, tail, dropped, draining, drain_head, drain_to,
                     op, victim, my_tail, count, from>>
  BY <1>1 DEF Copy, Copied, Goto, CounterTypes, headsVars, drainVars, localVars, seenVars
<1>4. n \in 0 .. c /\ c \in Nat /\ f \in Nat /\ to \in Nat /\ n \in Nat
  BY <1>1, <1>3, Transferred, Numbers DEF Stealing
<1>5. /\ op[t] \in {"steal", "steal_and_pop"} /\ c >= 1
      /\ f .. f + c - 1 \subseteq Window(v) /\ c <= Capacity[v]
  <2>1. /\ stealer_head[v] = f /\ f + c <= worker_head[v]
        /\ op[t] \in {"steal", "steal_and_pop"} /\ c >= 1
    BY <1>1, <1>3 DEF PositionInv, Holds, Stealing
  <2>2. /\ f + c <= stealer_head[v] + Capacity[v] /\ Capacity[v] \in Nat
    <3>1. worker_head[v] <= tail[v] /\ tail[v] <= stealer_head[v] + Capacity[v]
          /\ worker_head[v] \in Int /\ tail[v] \in Int /\ stealer_head[v] \in Int
          /\ Capacity[v] \in Nat
      BY <1>1, <1>3, Numbers
    <3> HIDE DEF f, c, v
    <3> QED
      BY <1>4, <2>1, <3>1
  <2>3. ASSUME NEW p \in f .. f + c - 1 PROVE p \in Window(v)
    <3>0. f <= p /\ p < f + c /\ p \in Int
      <4> HIDE DEF f, c, n, to
      <4> QED
        BY <1>4, <2>3
    <3>1. BookedAt(v, p)
      BY <1>3, <3>0 DEF BookedAt
    <3>2. LiveAt(v, p) /\ p \in Int
      BY <3>0, <3>1 DEF LiveAt
    <3> QED
      BY <1>3, <3>2, SeenInWindow
  <2>4. f + c <= f + Capacity[v]
    BY <2>1, <2>2
  <2> HIDE DEF f, c, v
  <2> QED
    BY <1>4, <2>1, <2>2, <2>3, <2>4
<1>6. /\ to .. to + n - 1 \subseteq Window(t) /\ n <= Capacity[t]
      /\ \A p \in to .. to + n - 1 : ~ LiveAt(t, p)
  BY <1>1, <1>3, <1>4, RoomToWrite
<1>7. CopyFits(buffer, v, f, c, t, to, n)
  <2>1. /\ Slots(v, f, c) \subseteq Occupied(buffer, v)
        /\ Slots(t, to, n) \cap Occupied(buffer, t) = {}
    BY <1>1, CopySlots
  <2> QED
    BY ONLY <1>1, <1>3, <1>4, <1>5, <1>6, <2>1, t \in Workers DEF CopyFits
<1>8. /\ Hand(t) = Run(buffer, v, f, c) /\ Hand(t)' = Run(buffer', t, to, n)
      /\ Source(t)' = Source(t) /\ Stealing(t)' = Stealing(t)
      /\ (Stealing(t) => victim'[t] = victim[t] /\ count'[t] = count[t])
  BY <1>3 DEF Hand, Source, Stealing, TransferCount
<1>9. \A q \in Workers : \A p \in Int : HandAt(t, q, p) <=> q = v /\ p \in f .. f + c - 1
  BY <1>3, <1>4 DEF HandAt
<1>10. n = IF op[t] = "steal_and_pop" THEN c - 1 ELSE c
  BY DEF TransferCount
<1> HIDE DEF v, c, n, f, to
<1>11. Hand(t)' = Run(buffer, v, f, n)
  BY <1>3, <1>7, <1>8, CopiedRun
<1>12. ASSUME NEW q \in Workers, NEW p \in Int, SeenAt(q, p), ~ HandAt(t, q, p)
       PROVE  Kept(q, p)
  <2>1. LiveAt(q, p)
    BY <1>12, SeenIsLive
  <2>2. ~ (q = v /\ p \in f .. f + c - 1)
    BY <1>9, <1>12
  <2>3. Apart(q, p, v, f, c)
    BY <1>3, <1>4, <1>5, <2>1, <2>2, LiveApart
  <2>4. Apart(q, p, t, to, n)
    BY <1>4, <1>6, <2>1, LiveApart
  <2> QED
    BY <1>3, <1>7, <2>3, <2>4, CopiedKeeps DEF Kept
<1>13. /\ [u \in Workers |-> Hand(u)]' = [[u \in Workers |-> Hand(u)] EXCEPT ![t] = Hand(t)']
       /\ UNCHANGED <<[q \in Workers |-> Deque(q)], [u \in Workers |-> Source(u)],
                      [u \in Workers |-> Stealing(u)],
                      [q \in Workers |-> BookedBy(q)],
                      [q \in Workers |-> Drained(q)]>>
  BY <1>1, <1>2, <1>3, <1>8, <1>12, HandsApart, HandGoesOn
<1>14. CASE op[t] = "steal_and_pop"
  <2> DEFINE s == Run(buffer, v, f, c)
  <2>1. n = c - 1 /\ c - n = 1 /\ c \in Nat \ {0} /\ f + c - 1 = f + n /\ f + n \in Int
    BY <1>4, <1>5, <1>10, <1>14
  <2>2. /\ s # <<>> /\ Len(s) = c /\ s[c] = buffer[v][Slot(v, f + c - 1)]
        /\ SubSeq(s, 1, c - 1) = Run(buffer, v, f, c - 1)
    BY <1>4, <2>1, RunLast
  <2>3. Read(buffer, v, f + n, 1) = {buffer[v][Slot(v, f + n)]}
    BY <2>1, ReadOne
  <2>4. Hand(t) = s /\ Hand(t)' = Run(buffer, v, f, c - 1) /\ out' = out \cup {s[c]}
    BY <1>3, <1>8, <1>11, <2>1, <2>2, <2>3
  <2> HIDE DEF s
  <2>5. /\ Hand(t) # <<>> /\ out' = out \cup {Hand(t)[Len(Hand(t))]}
        /\ Hand(t)' = SubSeq(Hand(t), 1, Len(Hand(t)) - 1)
    BY ONLY <2>2, <2>4
  <2> QED
    BY ONLY <1>13, <2>5, DeliverStep, t \in Workers
<1>15. CASE op[t] = "steal"
  <2>1. n = c /\ c - n = 0
    BY <1>4, <1>10, <1>15
  <2>2. Read(buffer, v, f + n, 0) = {}
    BY DEF Read, Slots
  <2>3. out' = out /\ Hand(t)' = Hand(t)
    BY <1>3, <1>8, <1>11, <2>1, <2>2
  <2>4. [u \in Workers |-> Hand(u)]' = [u \in Workers |-> Hand(u)]
    BY ONLY <1>13, <2>3
  <2> QED
    BY ONLY <1>13, <2>3, <2>4 DEF Refines, Contract!vars
<1> QED
  BY <1>5, <1>14, <1>15

(* A step that moves no item leaves every other hand and what the Drains hold. *)
LEMMA NothingMoves ==
    ASSUME PositionInv, buffer' = buffer, NEW t \in Workers, OthersKeep(t)
    PROVE  /\ [u \in Workers |-> Hand(u)]' = [[u \in Workers |-> Hand(u)] EXCEPT ![t] = Hand(t)']
           /\ [u \in Workers |-> Source(u)]'
                = [[u \in Workers |-> Source(u)] EXCEPT ![t] = Source(t)']
           /\ [u \in Workers |-> Stealing(u)]'
                = [[u \in Workers |-> Stealing(u)] EXCEPT ![t] = Stealing(t)']
           /\ UNCHANGED drainVars
                => [q \in Workers |-> Drained(q)]' = [q \in Workers |-> Drained(q)]
<1>1. \A q \in Workers : \A p \in Int : Kept(q, p)
  BY DEF Kept
<1> QED
  BY <1>1, OthersSeen, DrainsStay DEF drainVars

(* What is published follows on what is in the queue. *)
LEMMA DequeGrows ==
    ASSUME PositionInv, buffer' = buffer, NEW t \in Workers, t \notin dropped, NEW n \in Nat,
           tail' = [tail EXCEPT ![t] = tail[t] + n], UNCHANGED <<worker_head, dropped>>
    PROVE  /\ Deque(t) = Run(buffer, t, worker_head[t], tail[t] - worker_head[t])
           /\ tail[t] - worker_head[t] \in Nat /\ Len(Deque(t)) = tail[t] - worker_head[t]
           /\ [q \in Workers |-> Deque(q)]'
                = [[q \in Workers |-> Deque(q)] EXCEPT
                      ![t] = Deque(t) \o Run(buffer, t, tail[t], n)]
<1>1. /\ worker_head[t] \in Int /\ tail[t] \in Int /\ tail[t] - worker_head[t] \in Nat
      /\ worker_head[t] + (tail[t] - worker_head[t]) = tail[t]
      /\ (tail[t] - worker_head[t]) + n = tail[t] + n - worker_head[t]
  BY Numbers
<1>2. tail'[t] = tail[t] + n
  BY DEF PositionInv, CounterTypes
<1>3. ASSUME NEW q \in Workers \ {t} PROVE Deque(q)' = Deque(q)
  <2>1. tail'[q] = tail[q]
    BY DEF PositionInv, CounterTypes
  <2> QED
    BY <2>1 DEF Deque
<1>4. Deque(t) = Run(buffer, t, worker_head[t], tail[t] - worker_head[t])
      /\ Deque(t)' = Run(buffer, t, worker_head[t], tail[t] + n - worker_head[t])
  <2>1. t \notin dropped' /\ worker_head' = worker_head
    OBVIOUS
  <2>2. Deque(t)' = Run(buffer', t, worker_head[t], tail'[t] - worker_head[t])
    BY <2>1 DEF Deque
  <2>3. Deque(t)' = Run(buffer, t, worker_head[t], tail[t] + n - worker_head[t])
    BY <1>1, <1>2, <2>2
  <2> QED
    BY <2>3 DEF Deque
<1>5. Deque(t)' = Deque(t) \o Run(buffer, t, tail[t], n)
  <2> DEFINE h == worker_head[t]
             m == tail[t] - worker_head[t]
  <2>1. Run(buffer, t, h, m) \o Run(buffer, t, h + m, n) = Run(buffer, t, h, m + n)
    <3>1. h \in Int /\ m \in Nat
      BY <1>1
    <3> HIDE DEF h, m
    <3> QED
      BY <3>1, RunJoin
  <2> QED
    BY <1>1, <1>4, <2>1
<1>6. Len(Deque(t)) = tail[t] - worker_head[t]
  BY <1>1, <1>4, RunLen
<1> QED
  BY <1>1, <1>3, <1>4, <1>5, <1>6

(* The items the contract sees are those at the positions seen. *)
LEMMA KnownIsSeen ==
    ASSUME PositionInv, NEW x \in Contract!Known
    PROVE  \/ x \in out
           \/ \E q \in Workers : \E p \in Int : SeenAt(q, p) /\ x = buffer[q][Slot(q, p)]
<1> DEFINE Seen(y) == \E q \in Workers : \E p \in Int : SeenAt(q, p) /\ y = buffer[q][Slot(q, p)]
<1>1. ASSUME NEW q \in Workers, NEW f \in Int, NEW n \in Int,
             \A p \in f .. f + n - 1 : SeenAt(q, p),
             NEW y \in Contract!ToSet(Run(buffer, q, f, n))
      PROVE  Seen(y)
  <2>1. PICK k \in 1 .. n : y = buffer[q][Slot(q, f + k - 1)]
    <3> DEFINE s == Run(buffer, q, f, n)
    <3>1. DOMAIN s = 1 .. n /\ \A k \in 1 .. n : s[k] = buffer[q][Slot(q, f + k - 1)]
      BY ONLY RunAt
    <3>2. y \in {s[k] : k \in DOMAIN s}
      BY <1>1 DEF Contract!ToSet
    <3> HIDE DEF s
    <3> QED
      BY ONLY <3>1, <3>2
  <2>2. f + k - 1 \in f .. f + n - 1 /\ f + k - 1 \in Int
    OBVIOUS
  <2> QED
    BY <1>1, <2>1, <2>2
<1>2. Contract!ToSet(<<>>) = {}
  BY DEF Contract!ToSet
<1>3. ASSUME NEW w \in Workers, x \in Contract!ToSet(Deque(w)) PROVE Seen(x)
  <2>1. worker_head[w] \in Int /\ tail[w] \in Int
    BY Numbers
  <2>2. w \notin dropped /\ Deque(w) = Run(buffer, w, worker_head[w], tail[w] - worker_head[w])
    BY <1>2, <1>3 DEF Deque
  <2>3. \A p \in worker_head[w] .. worker_head[w] + (tail[w] - worker_head[w]) - 1 : SeenAt(w, p)
    BY <2>1, <2>2 DEF SeenAt, DequeAt
  <2> QED
    BY <1>1, <1>3, <2>1, <2>2, <2>3
<1>4. ASSUME NEW w \in Workers, x \in Contract!ToSet(Drained(w)) PROVE Seen(x)
  <2>1. drain_head[w] \in Int /\ drain_to[w] \in Int
    BY Numbers
  <2>2. /\ draining[w] # "no"
        /\ Drained(w) = Run(buffer, w, drain_head[w], drain_to[w] - drain_head[w])
    BY <1>2, <1>4 DEF Drained
  <2>3. \A p \in drain_head[w] .. drain_head[w] + (drain_to[w] - drain_head[w]) - 1 :
           SeenAt(w, p)
    BY <2>1, <2>2 DEF SeenAt, DrainedAt
  <2> QED
    BY <1>1, <1>4, <2>1, <2>2, <2>3
<1>5. ASSUME NEW w \in Workers, x \in Contract!ToSet(Hand(w)) PROVE Seen(x)
  <2>1. /\ my_tail[w] \in Int /\ seen_worker[w] \in Int /\ from[w] \in Int
        /\ count[w] \in Int /\ TransferCount(w) \in Int /\ victim[w] \in Workers
    BY Numbers
  <2>2. CASE pc[w] = "pop_read"
    <3>1. \A p \in seen_worker[w] .. seen_worker[w] + 1 - 1 : SeenAt(w, p)
      BY <2>1, <2>2 DEF SeenAt, HandAt
    <3>2. Hand(w) = Run(buffer, w, seen_worker[w], 1)
      BY <2>2 DEF Hand
    <3> QED
      BY <1>1, <1>5, <2>1, <3>1, <3>2
  <2>3. CASE pc[w] = "copy"
    <3>1. \A p \in from[w] .. from[w] + count[w] - 1 : SeenAt(victim[w], p)
      BY <2>1, <2>3 DEF SeenAt, HandAt
    <3>2. Hand(w) = Run(buffer, victim[w], from[w], count[w])
      BY <2>3 DEF Hand
    <3> QED
      BY <1>1, <1>5, <2>1, <3>1, <3>2
  <2>4. CASE pc[w] = "publish_dest"
    <3>1. \A p \in my_tail[w] .. my_tail[w] + TransferCount(w) - 1 : SeenAt(w, p)
      BY <2>1, <2>4 DEF SeenAt, HandAt
    <3>2. Hand(w) = Run(buffer, w, my_tail[w], TransferCount(w))
      BY <2>4 DEF Hand
    <3> QED
      BY <1>1, <1>5, <2>1, <3>1, <3>2
  <2>5. CASE pc[w] \notin {"pop_read", "copy", "publish_dest"}
    BY <1>2, <1>5, <2>5 DEF Hand
  <2> QED
    BY <2>2, <2>3, <2>4, <2>5
<1> HIDE DEF Seen
<1>6. x \in out \/ \E w \in Workers : \/ x \in Contract!ToSet(Deque(w))
                                      \/ x \in Contract!ToSet(Hand(w))
                                      \/ x \in Contract!ToSet(Drained(w))
  BY DEF Contract!Known
<1>7. x \in out \/ Seen(x)
  BY ONLY <1>3, <1>4, <1>5, <1>6
<1> QED
  BY <1>7 DEF Seen

(* The contract of push and extend: new items, in order, as many as there is room for. *)
LEMMA PublishRefines ==
    ASSUME RefInv, NEW t \in Workers, Publish(t)
    PROVE  Refines
<1>1. /\ PositionInv /\ CounterTypes /\ BufferShape(buffer) /\ SlotInv /\ OutInv
  BY DEF RefInv, PositionInv, ItemTypes
<1>2. OthersKeep(t)
  BY <1>1, StepOthers DEF Step
<1> DEFINE n == count[t]
           s == Run(buffer, t, tail[t], n)
<1>3. /\ pc[t] = "publish" /\ pc'[t] = "idle" /\ buffer' = buffer
      /\ tail' = [tail EXCEPT ![t] = tail[t] + n]
      /\ UNCHANGED <<worker_head, stealer_head, dropped, drainVars, out>>
      /\ my_tail[t] = tail[t] /\ t \notin dropped
      /\ tail[t] + n <= stealer_head[t] + Capacity[t]
  BY <1>1 DEF Publish, Return, Goto, CounterTypes, headsVars, itemVars, PositionInv, KnowsTail,
     SlotInv, GoneIsQuiet
<1>4. /\ n \in Nat /\ tail[t] \in Int /\ worker_head[t] \in Int /\ stealer_head[t] \in Int
      /\ Capacity[t] \in Int /\ worker_head[t] <= tail[t]
      /\ BookedBy(t) \in Int /\ BookedBy(t) <= worker_head[t] - stealer_head[t]
  BY <1>1, Numbers, BookedFits
<1>5. ASSUME NEW p \in Int, tail[t] <= p, p < tail[t] + n
      PROVE  LiveAt(t, p) /\ \A q \in Workers : SeenAt(q, p) => q # t
  <2>1. OwnAt(t, p)
    BY <1>3, <1>4, <1>5 DEF OwnAt
  <2>2. ASSUME SeenAt(t, p) PROVE FALSE
    <3>1. ~ DequeAt(t, p)
      BY <1>4, <1>5 DEF DequeAt
    <3>2. ~ DrainedAt(t, p)
      <4>1. draining[t] # "no" => drain_to[t] <= worker_head[t]
        BY <1>1 DEF PositionInv, DrainHolds
      <4>2. drain_to[t] \in Int
        BY <1>1, Numbers
      <4> QED
        BY <1>4, <1>5, <4>1, <4>2 DEF DrainedAt
    <3>3. PICK u \in Workers : HandAt(u, t, p)
      BY <2>2, <3>1, <3>2 DEF SeenAt
    <3>4. pc[u] = "copy" /\ victim[u] = t
      BY <1>3, <3>3 DEF HandAt
    <3>5. BookedAt(t, p)
      BY <3>3, <3>4 DEF HandAt, BookedAt
    <3>6. p < worker_head[t]
      BY <1>1, <3>5, BookedBelow
    <3> QED
      BY ONLY <1>4, <1>5, <3>6
  <2> QED
    BY <2>1, <2>2 DEF LiveAt
<1>6. ASSUME NEW k \in 1 .. n
      PROVE  /\ tail[t] + k - 1 \in Int /\ tail[t] <= tail[t] + k - 1
             /\ tail[t] + k - 1 < tail[t] + n
             /\ s[k] = buffer[t][Slot(t, tail[t] + k - 1)]
  <2>1. s[k] = buffer[t][Slot(t, tail[t] + k - 1)]
    BY RunAt
  <2> HIDE DEF n, s
  <2> QED
    BY <1>4, <2>1
<1>7. /\ [q \in Workers |-> Deque(q)]'
           = [[q \in Workers |-> Deque(q)] EXCEPT ![t] = Deque(t) \o s]
      /\ Len(Deque(t)) = tail[t] - worker_head[t]
  BY <1>1, <1>3, <1>4, DequeGrows
<1> HIDE DEF n
<1>8. \A k \in 1 .. n : s[k] \in 1 .. MaxCreated \ Contract!Known
  <2> SUFFICES ASSUME NEW k \in 1 .. n PROVE s[k] \in 1 .. MaxCreated \ Contract!Known
    OBVIOUS
  <2> DEFINE p == tail[t] + k - 1
  <2>1. p \in Int /\ s[k] = buffer[t][Slot(t, p)]
    BY <1>6
  <2>2. LiveAt(t, p) /\ \A q \in Workers : SeenAt(q, p) => q # t
    BY <1>5, <1>6
  <2> HIDE DEF p, s
  <2>3. /\ s[k] \in StoredIn(buffer) /\ s[k] \in 1 .. created
        /\ \A v \in Workers : \A r \in Int :
              LiveAt(v, r) /\ buffer[v][Slot(v, r)] = s[k] => v = t /\ r = p
    BY <2>1, <2>2, LiveDistinct
  <2>4. s[k] \in 1 .. MaxCreated
    <3>1. created <= MaxCreated /\ created \in Nat /\ MaxCreated \in Nat
      BY <1>1, ClientAssumption DEF RefInv, CounterTypes
    <3> QED
      BY <2>3, <3>1
  <2>5. s[k] \notin out
    BY <1>1, <2>3 DEF OutInv
  <2>6. ASSUME NEW q \in Workers, NEW r \in Int, SeenAt(q, r), s[k] = buffer[q][Slot(q, r)]
        PROVE  FALSE
    <3>1. LiveAt(q, r)
      BY <2>6, SeenIsLive
    <3>2. q = t /\ r = p
      BY ONLY <2>3, <2>6, <3>1
    <3> QED
      BY ONLY <2>2, <2>6, <3>2
  <2>7. s[k] \notin Contract!Known
    BY <1>1, <2>5, <2>6, KnownIsSeen
  <2> QED
    BY ONLY <2>4, <2>7
<1>9. Contract!IsInjective(s)
  <2>1. DOMAIN s = 1 .. n
    BY RunAt
  <2>2. ASSUME NEW k \in 1 .. n, NEW l \in 1 .. n, s[k] = s[l] PROVE k = l
    <3>1. /\ tail[t] + k - 1 \in Int /\ LiveAt(t, tail[t] + k - 1)
          /\ tail[t] + l - 1 \in Int /\ LiveAt(t, tail[t] + l - 1)
          /\ buffer[t][Slot(t, tail[t] + k - 1)] = buffer[t][Slot(t, tail[t] + l - 1)]
      BY <1>5, <1>6, <2>2
    <3>2. tail[t] + k - 1 = tail[t] + l - 1
      BY <3>1, LiveDistinct
    <3> QED
      BY <1>4, <3>2
  <2> QED
    BY <2>1, <2>2 DEF Contract!IsInjective
<1>10. s \in Contract!BoundedSeq(1 .. MaxCreated \ Contract!Known,
                                 Capacity[t] - BookedBy(t) - Len(Deque(t)))
  <2> DEFINE S == 1 .. MaxCreated \ Contract!Known
             room == Capacity[t] - BookedBy(t) - Len(Deque(t))
  <2>1. s \in [1 .. n -> S]
    BY <1>8 DEF Run
  <2>2. n \in 0 .. room
    <3>1. room = Capacity[t] - BookedBy(t) - (tail[t] - worker_head[t])
      BY <1>7
    <3>2. tail[t] + n <= stealer_head[t] + Capacity[t]
      BY <1>3
    <3> HIDE DEF room
    <3> QED
      BY ONLY <1>4, <3>1, <3>2
  <2> HIDE DEF S, room, s
  <2> QED
    BY <2>1, <2>2 DEF Contract!BoundedSeq, Contract!SeqOf, S, room
<1>11. Hand(t) = <<>> /\ Hand(t)' = <<>> /\ Source(t)' = Source(t) /\ Stealing(t)' = Stealing(t)
      /\ ~ Stealing(t)
  BY <1>3 DEF Hand, Source, Stealing
<1>12. /\ [u \in Workers |-> Hand(u)]' = [u \in Workers |-> Hand(u)]
       /\ [u \in Workers |-> Source(u)]' = [u \in Workers |-> Source(u)]
       /\ [u \in Workers |-> Stealing(u)]' = [u \in Workers |-> Stealing(u)]
       /\ [q \in Workers |-> Drained(q)]' = [q \in Workers |-> Drained(q)]
  <2>1. /\ [u \in Workers |-> Hand(u)]' = [[u \in Workers |-> Hand(u)] EXCEPT ![t] = Hand(t)']
        /\ [q \in Workers |-> Drained(q)]' = [q \in Workers |-> Drained(q)]
    BY <1>1, <1>2, <1>3, NothingMoves
  <2>2. /\ [u \in Workers |-> Source(u)]' = [u \in Workers |-> Source(u)]
        /\ [u \in Workers |-> Stealing(u)]' = [u \in Workers |-> Stealing(u)]
    BY <1>2, <1>11, SourcesStay
  <2> QED
    BY ONLY <1>11, <2>1, <2>2
<1>13. [q \in Workers |-> BookedBy(q)]' = [q \in Workers |-> BookedBy(q)]
  BY <1>2, <1>3, <1>11, BookedStay DEF drainVars
<1>14. Contract!Put(t)
  <2> HIDE DEF s
  <2>1. out' = out
    BY <1>3
  <2> QED
    BY ONLY <1>7, <1>9, <1>10, <1>12, <1>13, <2>1, t \in Workers DEF Contract!Put
<1> QED
  BY <1>14 DEF Refines, Contract!Next

(* What a steal moved appears at the back of the thief's queue at once. *)
LEMMA PublishDestRefines ==
    ASSUME RefInv, NEW t \in Workers, PublishDest(t)
    PROVE  Refines
<1>1. PositionInv /\ CounterTypes /\ SlotInv
  BY DEF RefInv, PositionInv
<1>2. OthersKeep(t)
  BY <1>1, StepOthers DEF Step
<1> DEFINE n == TransferCount(t)
           s == Run(buffer, t, tail[t], n)
<1>3. /\ pc[t] = "publish_dest" /\ pc'[t] = "load_commit" /\ buffer' = buffer
      /\ tail' = [tail EXCEPT ![t] = tail[t] + n]
      /\ UNCHANGED <<worker_head, stealer_head, dropped, drainVars, out, op, victim, count>>
      /\ my_tail[t] = tail[t] /\ t \notin dropped
      /\ tail[t] + n <= stealer_head[t] + Capacity[t]
  BY <1>1 DEF PublishDest, Goto, CounterTypes, headsVars, itemVars, localVars, PositionInv,
     KnowsTail, SlotInv, GoneIsQuiet
<1>4. /\ n \in Nat /\ tail[t] \in Int /\ worker_head[t] \in Int /\ stealer_head[t] \in Int
      /\ Capacity[t] \in Int /\ worker_head[t] <= tail[t]
      /\ BookedBy(t) \in Int /\ BookedBy(t) <= worker_head[t] - stealer_head[t]
  <2>1. n \in 0 .. count[t] /\ count[t] \in Nat
    BY <1>1, <1>3, Transferred, Numbers DEF Stealing
  <2>2. n \in Nat
    BY <2>1
  <2> QED
    BY <1>1, <2>2, Numbers, BookedFits
<1>5. /\ [q \in Workers |-> Deque(q)]'
           = [[q \in Workers |-> Deque(q)] EXCEPT ![t] = Deque(t) \o s]
      /\ Len(Deque(t)) = tail[t] - worker_head[t]
  BY <1>1, <1>3, <1>4, DequeGrows
<1>6. /\ Hand(t) = s /\ Hand(t)' = <<>>
      /\ Source(t)' = Source(t) /\ Stealing(t)' = Stealing(t) /\ Stealing(t)
  BY <1>3, <1>4 DEF Hand, Source, Stealing
<1> HIDE DEF n
<1>7. Len(s) = n
  BY <1>4, RunLen
<1>8. /\ [u \in Workers |-> Hand(u)]' = [[u \in Workers |-> Hand(u)] EXCEPT ![t] = <<>>]
      /\ [u \in Workers |-> Source(u)]' = [u \in Workers |-> Source(u)]
      /\ [u \in Workers |-> Stealing(u)]' = [u \in Workers |-> Stealing(u)]
      /\ [q \in Workers |-> Drained(q)]' = [q \in Workers |-> Drained(q)]
  <2>1. /\ [u \in Workers |-> Hand(u)]' = [[u \in Workers |-> Hand(u)] EXCEPT ![t] = Hand(t)']
        /\ [q \in Workers |-> Drained(q)]' = [q \in Workers |-> Drained(q)]
    BY <1>1, <1>2, <1>3, NothingMoves
  <2>2. /\ [u \in Workers |-> Source(u)]' = [u \in Workers |-> Source(u)]
        /\ [u \in Workers |-> Stealing(u)]' = [u \in Workers |-> Stealing(u)]
    BY <1>2, <1>6, SourcesStay
  <2> QED
    BY ONLY <1>6, <2>1, <2>2
<1>9. [q \in Workers |-> BookedBy(q)]' = [q \in Workers |-> BookedBy(q)]
  BY <1>2, <1>3, <1>6, BookedStay DEF drainVars
<1>10. Contract!Land(t)
  <2> HIDE DEF s
  <2>1. Len(Deque(t)) + BookedBy(t) + Len(Hand(t)) <= Capacity[t]
    <3>1. tail[t] + n <= stealer_head[t] + Capacity[t]
      BY <1>3
    <3>2. Len(Deque(t)) = tail[t] - worker_head[t] /\ Len(Hand(t)) = n
      BY <1>5, <1>6, <1>7
    <3>3. (tail[t] - worker_head[t]) + BookedBy(t) + n <= Capacity[t]
      BY ONLY <1>4, <3>1
    <3> QED
      BY ONLY <3>2, <3>3
  <2>2. out' = out
    BY <1>3
  <2> QED
    BY ONLY <1>5, <1>6, <1>8, <1>9, <2>1, <2>2, t \in Workers DEF Contract!Land
<1> QED
  BY <1>10 DEF Refines, Contract!Next

(* A pop claims the oldest item, ahead of a steal in progress too. *)
LEMMA PopCasRefines ==
    ASSUME RefInv, NEW t \in Workers, PopCasOk(t)
    PROVE  Refines
<1>1. PositionInv /\ CounterTypes /\ SlotInv
  BY DEF RefInv, PositionInv
<1>2. OthersKeep(t)
  BY <1>1, StepOthers DEF Step
<1> DEFINE f == worker_head[t]
           n == tail[t] - f
           s == Run(buffer, t, f, n)
<1>3. /\ pc[t] = "pop_cas" /\ pc'[t] = "pop_read" /\ buffer' = buffer
      /\ worker_head' = [worker_head EXCEPT ![t] = seen_worker[t] + 1]
      /\ UNCHANGED <<tail, dropped, drainVars, out, op, victim, seen_worker, count>>
      /\ t \notin dropped
  BY <1>1 DEF PopCasOk, Goto, CounterTypes, itemVars, localVars, seenVars, SlotInv, GoneIsQuiet
<1>4. seen_worker[t] = f /\ seen_worker[t] < tail[t]
  BY <1>1, <1>3, PopCasExact DEF PositionInv, PopSaw, PopCasOk
<1>5. /\ f \in Int /\ n \in Nat \ {0} /\ tail[t] - (f + 1) = n - 1
      /\ worker_head'[t] = f + 1 /\ \A q \in Workers \ {t} : worker_head'[q] = worker_head[q]
  <2>1. tail[t] \in Int /\ f \in Int /\ worker_head \in [Workers -> Nat]
    BY <1>1, Numbers DEF CounterTypes
  <2> HIDE DEF f
  <2>2. n \in Nat \ {0} /\ tail[t] - (f + 1) = n - 1
    BY <1>4, <2>1
  <2>3. worker_head'[t] = f + 1 /\ \A q \in Workers \ {t} : worker_head'[q] = worker_head[q]
    BY <1>3, <1>4, <2>1
  <2> QED
    BY <2>1, <2>2, <2>3
<1>6. /\ Deque(t) = s /\ Deque(t)' = Run(buffer, t, f + 1, n - 1)
      /\ \A q \in Workers \ {t} : Deque(q)' = Deque(q)
  <2>1. Deque(t) = s
    BY <1>3 DEF Deque
  <2>2. Deque(t)' = Run(buffer', t, worker_head'[t], tail'[t] - worker_head'[t])
    BY <1>3 DEF Deque
  <2>3. Deque(t)' = Run(buffer, t, f + 1, n - 1)
    BY <1>3, <1>5, <2>2
  <2>4. \A q \in Workers \ {t} : Deque(q)' = Deque(q)
    BY <1>3, <1>5 DEF Deque
  <2> QED
    BY <2>1, <2>3, <2>4
<1>7. /\ Hand(t) = <<>> /\ Hand(t)' = Run(buffer, t, f, 1)
      /\ Source(t)' = Source(t) /\ Stealing(t)' = Stealing(t) /\ ~ Stealing(t)
  BY <1>3, <1>4 DEF Hand, Source, Stealing
<1> HIDE DEF f, n
<1>8. /\ s # <<>> /\ Head(s) = buffer[t][Slot(t, f)] /\ Tail(s) = Run(buffer, t, f + 1, n - 1)
  <2>1. f \in Int /\ n \in Nat \ {0}
    BY <1>5
  <2> QED
    BY ONLY <2>1, RunFirst
<1>9. Hand(t)' = <<Head(s)>>
  BY <1>5, <1>7, <1>8, RunOne
<1> HIDE DEF s
<1>10. /\ [u \in Workers |-> Hand(u)]' = [[u \in Workers |-> Hand(u)] EXCEPT ![t] = Hand(t)']
       /\ [u \in Workers |-> Source(u)]' = [u \in Workers |-> Source(u)]
       /\ [u \in Workers |-> Stealing(u)]' = [u \in Workers |-> Stealing(u)]
       /\ [q \in Workers |-> Drained(q)]' = [q \in Workers |-> Drained(q)]
  <2>1. /\ [u \in Workers |-> Hand(u)]' = [[u \in Workers |-> Hand(u)] EXCEPT ![t] = Hand(t)']
        /\ [q \in Workers |-> Drained(q)]' = [q \in Workers |-> Drained(q)]
    BY <1>1, <1>2, <1>3, NothingMoves
  <2>2. /\ [u \in Workers |-> Source(u)]' = [u \in Workers |-> Source(u)]
        /\ [u \in Workers |-> Stealing(u)]' = [u \in Workers |-> Stealing(u)]
    BY <1>2, <1>7, SourcesStay
  <2> QED
    BY ONLY <2>1, <2>2
<1>11. [q \in Workers |-> BookedBy(q)]' = [q \in Workers |-> BookedBy(q)]
  <2>1. ASSUME NEW q \in Workers, draining[q] # "no" PROVE stealer_head'[q] = stealer_head[q]
    <3>1. CASE q # t
      BY <1>3, <3>1 DEF PopCasOk
    <3>2. CASE q = t
      <4>1. stealer_head[t] # worker_head[t]
        BY <1>1, <2>1, <3>2, BookedFits
      <4>2. seen_stealer[t] = stealer_head[t]
        BY <1>1, <1>3, PopCasExact DEF PopCasOk
      <4>3. Short(seen_stealer[t]) # Short(seen_worker[t])
        BY <1>1, <1>3, <1>4, <4>1, <4>2, HeadsExact DEF f
      <4> QED
        BY <1>1, <3>2, <4>2, <4>3 DEF PopCasOk, CounterTypes
    <3> QED
      BY <3>1, <3>2
  <2> QED
    BY <1>2, <1>3, <1>7, <2>1, BookedStay DEF drainVars
<1>12. Contract!Claim(t)
  <2> DEFINE D == [q \in Workers |-> Deque(q)]
             H == [u \in Workers |-> Hand(u)]
             S == [u \in Workers |-> Stealing(u)]
  <2>1. D[t] = s /\ H[t] = <<>> /\ ~ S[t]
    BY <1>6, <1>7
  <2>3. D' = [D EXCEPT ![t] = Tail(s)]
    BY <1>6, <1>8
  <2>4. H' = [H EXCEPT ![t] = <<Head(s)>>]
    BY <1>9, <1>10
  <2>5. out' = out
    BY <1>3
  <2> HIDE DEF D, H, S
  <2> QED
    BY ONLY <1>8, <1>10, <1>11, <2>1, <2>3, <2>4, <2>5 DEF Contract!Claim, D, H, S
<1> QED
  BY <1>12 DEF Refines, Contract!Next

(* The end of a steal gives the slots back. *)
LEMMA CommitRefines ==
    ASSUME RefInv, NEW t \in Workers, CommitOk(t)
    PROVE  Refines
<1>1. PositionInv /\ CounterTypes
  BY DEF RefInv, PositionInv
<1>2. OthersKeep(t)
  BY <1>1, StepOthers DEF Step
<1>0. PICK v \in Workers : v = victim[t]
  BY <1>1, Numbers
<1>3. /\ pc[t] = "commit" /\ pc'[t] = "idle" /\ buffer' = buffer
      /\ worker_head' = [worker_head EXCEPT ![v] = seen_worker[t]]
      /\ stealer_head' = [stealer_head EXCEPT ![v] = seen_worker[t]]
      /\ UNCHANGED <<tail, dropped, drainVars, out>>
      /\ victim'[t] = t
  BY <1>0, <1>1 DEF CommitOk, Return, Goto, CounterTypes, itemVars
<1>4. worker_head' = worker_head
  <2>1. worker_head[v] = seen_worker[t]
    BY <1>0, <1>1, <1>3, CommitExact DEF CommitOk
  <2> QED
    BY <1>1, <1>3, <2>1 DEF CounterTypes
<1>5. /\ Hand(t) = <<>> /\ Hand(t)' = <<>> /\ Source(t) = v /\ Source(t)' = t
      /\ Stealing(t) /\ ~ Stealing(t)'
  BY <1>0, <1>3 DEF Hand, Source, Stealing
<1>6. /\ [u \in Workers |-> Hand(u)]' = [[u \in Workers |-> Hand(u)] EXCEPT ![t] = <<>>]
      /\ [u \in Workers |-> Source(u)]' = [[u \in Workers |-> Source(u)] EXCEPT ![t] = t]
      /\ [u \in Workers |-> Stealing(u)]' = [[u \in Workers |-> Stealing(u)] EXCEPT ![t] = FALSE]
      /\ [q \in Workers |-> Drained(q)]' = [q \in Workers |-> Drained(q)]
  <2>1. /\ [u \in Workers |-> Hand(u)]' = [[u \in Workers |-> Hand(u)] EXCEPT ![t] = Hand(t)']
        /\ [u \in Workers |-> Source(u)]'
             = [[u \in Workers |-> Source(u)] EXCEPT ![t] = Source(t)']
        /\ [u \in Workers |-> Stealing(u)]'
             = [[u \in Workers |-> Stealing(u)] EXCEPT ![t] = Stealing(t)']
        /\ [q \in Workers |-> Drained(q)]' = [q \in Workers |-> Drained(q)]
    BY <1>1, <1>2, <1>3, NothingMoves
  <2>2. Stealing(t)' = FALSE
    BY <1>5 DEF Stealing
  <2> QED
    BY ONLY <1>5, <2>1, <2>2
<1>7. [u \in Workers |-> Hand(u)]' = [u \in Workers |-> Hand(u)]
  BY ONLY <1>5, <1>6
<1>8. [q \in Workers |-> Deque(q)]' = [q \in Workers |-> Deque(q)]
  BY <1>1, <1>3, <1>4, DequesStay DEF Kept
<1>9. [q \in Workers |-> BookedBy(q)]' = [[q \in Workers |-> BookedBy(q)] EXCEPT ![v] = 0]
  <2>1. ASSUME NEW q \in Workers, q # v PROVE BookedBy(q)' = BookedBy(q)
    <3>1. \A u \in Workers : Stealing(u)' /\ victim'[u] = q <=> Stealing(u) /\ victim[u] = q
      BY <1>0, <1>2, <1>3, <1>5, <2>1 DEF OthersKeep, Stealing
    <3>2. \A u \in Workers : Stealing(u) /\ victim[u] = q => count'[u] = count[u]
      BY <1>0, <1>2, <2>1 DEF OthersKeep
    <3>3. draining' = draining /\ drain_to' = drain_to /\ stealer_head'[q] = stealer_head[q]
      BY <1>1, <1>3, <2>1 DEF drainVars, CounterTypes
    <3> QED
      BY <3>1, <3>2, <3>3, BookedSame
  <2>2. BookedBy(v)' = 0
    <3>1. \A u \in Workers : ~ (Stealing(u)' /\ victim'[u] = v)
      <4>1. ASSUME NEW u \in Workers \ {t}, Stealing(u)', victim'[u] = v PROVE FALSE
        <5>1. Stealing(u) /\ victim[u] = v
          BY <1>2, <4>1 DEF OthersKeep, Stealing
        <5> QED
          BY <1>0, <1>1, <1>5, <5>1 DEF PositionInv, Alone
      <4> QED
        BY <1>5, <4>1
    <3>2. draining'[v] = "no"
      BY <1>0, <1>1, <1>3, <1>5 DEF PositionInv, Holds, drainVars
    <3> QED
      BY <3>1, <3>2, BookedNone
  <2>3. \A q \in Workers : BookedBy(q)' = IF q = v THEN 0 ELSE BookedBy(q)
    BY <2>1, <2>2
  <2> QED
    BY ONLY <2>3
<1>10. Contract!Release(t)
  <2>1. out' = out
    BY <1>3
  <2> DEFINE B == [q \in Workers |-> BookedBy(q)]
             R == [u \in Workers |-> Source(u)]
             S == [u \in Workers |-> Stealing(u)]
             H == [u \in Workers |-> Hand(u)]
  <2>2. S[t] /\ H[t] = <<>> /\ R[t] = v /\ B' = [B EXCEPT ![v] = 0]
    BY <1>5, <1>9
  <2>3. B' = [B EXCEPT ![R[t]] = 0]
    BY <2>2
  <2> HIDE DEF B, R, S, H
  <2> QED
    BY ONLY <1>6, <1>7, <1>8, <2>1, <2>2, <2>3 DEF Contract!Release, B, R, S, H
<1> QED
  BY <1>10 DEF Refines, Contract!Next

(* A booking takes the oldest items of a queue no steal works on. *)
LEMMA BookingTakes ==
    ASSUME PositionInv, buffer' = buffer, NEW v \in Workers, v \notin dropped,
           NEW n \in Nat \ {0}, worker_head[v] + n <= tail[v],
           worker_head' = [worker_head EXCEPT ![v] = worker_head[v] + n],
           UNCHANGED <<tail, dropped>>
    PROVE  /\ [q \in Workers |-> Deque(q)]'
                = [[q \in Workers |-> Deque(q)] EXCEPT
                      ![v] = SubSeq(Deque(v), n + 1, Len(Deque(v)))]
           /\ n \in 1 .. Len(Deque(v))
           /\ SubSeq(Deque(v), 1, n) = Run(buffer, v, worker_head[v], n)
<1> DEFINE f == worker_head[v]
           m == tail[v] - f
           s == Run(buffer, v, f, m)
<1>1. /\ f \in Int /\ tail[v] \in Int /\ m \in Nat /\ n \in 0 .. m /\ n \in 1 .. m /\ n \in Nat
      /\ tail[v] - (f + n) = m - n
  BY Numbers
<1>2. /\ worker_head'[v] = f + n /\ \A q \in Workers \ {v} : worker_head'[q] = worker_head[q]
  BY DEF PositionInv, CounterTypes
<1>3. /\ Deque(v) = s /\ Deque(v)' = Run(buffer, v, f + n, m - n)
      /\ \A q \in Workers \ {v} : Deque(q)' = Deque(q)
  <2>1. Deque(v)' = Run(buffer', v, worker_head'[v], tail'[v] - worker_head'[v])
    BY DEF Deque
  <2>2. Deque(v)' = Run(buffer, v, f + n, m - n)
    BY <1>1, <1>2, <2>1
  <2>3. \A q \in Workers \ {v} : Deque(q)' = Deque(q)
    BY <1>2 DEF Deque
  <2> QED
    BY <2>2, <2>3 DEF Deque
<1> HIDE DEF f, m
<1>4. /\ SubSeq(s, 1, n) = Run(buffer, v, f, n) /\ SubSeq(s, n + 1, m) = Run(buffer, v, f + n, m - n)
      /\ Len(s) = m
  <2>1. f \in Int /\ m \in Nat /\ n \in 0 .. m
    BY <1>1
  <2> QED
    BY ONLY <2>1, RunCut, RunLen
<1> HIDE DEF s
<1>5. [q \in Workers |-> Deque(q)]'
        = [[q \in Workers |-> Deque(q)] EXCEPT ![v] = SubSeq(Deque(v), n + 1, Len(Deque(v)))]
  BY <1>3, <1>4
<1> QED
  BY <1>1, <1>3, <1>4, <1>5 DEF f

(* A steal or a Drain books. *)
LEMMA BookRefines ==
    ASSUME RefInv, NEW t \in Workers, BookOk(t)
    PROVE  Refines
<1>1. PositionInv /\ CounterTypes /\ SlotInv
  BY DEF RefInv, PositionInv
<1>2. OthersKeep(t)
  BY <1>1, StepOthers DEF Step
<1>3. PICK v \in Workers : v = victim[t]
  BY <1>1, Numbers
<1> DEFINE n == count[t]
<1>4. /\ pc[t] = "book" /\ buffer' = buffer
      /\ worker_head' = [worker_head EXCEPT ![v] = seen_worker[t] + n]
      /\ stealer_head' = [stealer_head EXCEPT ![v] = seen_stealer[t]]
      /\ UNCHANGED <<tail, dropped, out>>
      /\ v \notin dropped /\ t \notin dropped
  BY <1>1, <1>3 DEF BookOk, CounterTypes, SlotInv, GoneIsQuiet, itemVars
<1>5. /\ worker_head[v] = seen_worker[t] /\ stealer_head[v] = seen_worker[t]
      /\ seen_stealer[t] = seen_worker[t]
      /\ op[t] \in {"steal", "steal_and_pop", "drain"} /\ (op[t] = "drain" => v = t)
      /\ n >= 1 /\ seen_worker[t] + n <= tail[v]
  BY <1>1, <1>3, <1>4, BookExact DEF BookOk, PositionInv, ThiefSaw, Looking
<1>6. /\ n \in Nat \ {0} /\ worker_head[v] + n <= tail[v] /\ worker_head[v] \in Nat
      /\ worker_head' = [worker_head EXCEPT ![v] = worker_head[v] + n]
      /\ stealer_head' = stealer_head
  <2>1. n \in Nat /\ worker_head[v] \in Nat
    BY <1>1, Numbers
  <2>2. stealer_head' = stealer_head
    BY <1>1, <1>4, <1>5 DEF CounterTypes
  <2> HIDE DEF n
  <2> QED
    BY <1>4, <1>5, <2>1, <2>2
<1> HIDE DEF n
<1>7. /\ [q \in Workers |-> Deque(q)]'
           = [[q \in Workers |-> Deque(q)] EXCEPT ![v] = SubSeq(Deque(v), n + 1, Len(Deque(v)))]
      /\ n \in 1 .. Len(Deque(v))
      /\ SubSeq(Deque(v), 1, n) = Run(buffer, v, worker_head[v], n)
  BY ONLY <1>1, <1>4, <1>6, BookingTakes
<1>8. /\ \A u \in Workers : ~ (Stealing(u) /\ victim[u] = v)
      /\ draining[v] = "no" /\ BookedBy(v) = 0
  <2>1. worker_head[v] = stealer_head[v]
    BY <1>5
  <2> QED
    BY ONLY <1>1, <2>1, BookedFits, v \in Workers
<1>9. Hand(t) = <<>> /\ ~ Stealing(t) /\ Source(t) = t
  BY <1>4 DEF Hand, Stealing, Source
<1>10. CASE op[t] # "drain"
  <2>1. /\ pc'[t] = "copy" /\ from'[t] = seen_stealer[t] /\ UNCHANGED <<victim, count, drainVars>>
    BY <1>1, <1>10 DEF BookOk, Goto, CounterTypes
  <2>2. Hand(t)' = SubSeq(Deque(v), 1, n) /\ Source(t)' = v /\ Stealing(t)' = TRUE
    <3>1. Hand(t)' = Run(buffer', victim'[t], from'[t], count'[t])
      BY <2>1 DEF Hand
    <3> QED
      BY <1>3, <1>4, <1>5, <1>7, <2>1, <3>1 DEF Source, Stealing, n
  <2>3. /\ [u \in Workers |-> Hand(u)]'
             = [[u \in Workers |-> Hand(u)] EXCEPT ![t] = SubSeq(Deque(v), 1, n)]
        /\ [u \in Workers |-> Source(u)]' = [[u \in Workers |-> Source(u)] EXCEPT ![t] = v]
        /\ [u \in Workers |-> Stealing(u)]'
             = [[u \in Workers |-> Stealing(u)] EXCEPT ![t] = TRUE]
        /\ [q \in Workers |-> Drained(q)]' = [q \in Workers |-> Drained(q)]
    <3>1. /\ [u \in Workers |-> Hand(u)]' = [[u \in Workers |-> Hand(u)] EXCEPT ![t] = Hand(t)']
          /\ [u \in Workers |-> Source(u)]'
               = [[u \in Workers |-> Source(u)] EXCEPT ![t] = Source(t)']
          /\ [u \in Workers |-> Stealing(u)]'
               = [[u \in Workers |-> Stealing(u)] EXCEPT ![t] = Stealing(t)']
          /\ [q \in Workers |-> Drained(q)]' = [q \in Workers |-> Drained(q)]
      BY <1>1, <1>2, <1>4, <2>1, NothingMoves
    <3> QED
      BY ONLY <2>2, <3>1
  <2>4. [q \in Workers |-> BookedBy(q)]' = [[q \in Workers |-> BookedBy(q)] EXCEPT ![v] = n]
    <3>1. ASSUME NEW q \in Workers, q # v PROVE BookedBy(q)' = BookedBy(q)
      <4>1. \A u \in Workers : Stealing(u)' /\ victim'[u] = q <=> Stealing(u) /\ victim[u] = q
        BY <1>2, <1>3, <1>9, <2>1, <3>1 DEF OthersKeep, Stealing
      <4> QED
        BY <1>6, <2>1, <4>1, BookedSame DEF drainVars
    <3>2. BookedBy(v)' = n
      <4>1. \A u \in Workers \ {t} : ~ (Stealing(u)' /\ victim'[u] = v)
        BY <1>2, <1>8 DEF OthersKeep, Stealing
      <4>2. Stealing(t)' /\ victim'[t] = v /\ count'[t] = n /\ draining'[v] = "no"
        BY <1>3, <1>8, <2>1 DEF Stealing, drainVars, n
      <4> QED
        BY <4>1, <4>2, BookedAfter
    <3>3. \A q \in Workers : BookedBy(q)' = IF q = v THEN n ELSE BookedBy(q)
      BY <3>1, <3>2
    <3> QED
      BY ONLY <3>3
  <2>5. Contract!Book(t, v)
    <3> DEFINE D == [q \in Workers |-> Deque(q)]
               B == [q \in Workers |-> BookedBy(q)]
               H == [u \in Workers |-> Hand(u)]
               R == [u \in Workers |-> Source(u)]
               S == [u \in Workers |-> Stealing(u)]
               Z == [q \in Workers |-> Drained(q)]
    <3>1. H[t] = <<>> /\ ~ S[t] /\ D[v] = Deque(v) /\ out' = out /\ B[v] = 0
      BY <1>4, <1>8, <1>9
    <3>2. /\ H' = [H EXCEPT ![t] = SubSeq(Deque(v), 1, n)] /\ R' = [R EXCEPT ![t] = v]
          /\ S' = [S EXCEPT ![t] = TRUE] /\ Z' = Z
          /\ D' = [D EXCEPT ![v] = SubSeq(Deque(v), n + 1, Len(Deque(v)))]
          /\ B' = [B EXCEPT ![v] = n]
      BY ONLY <1>7, <2>3, <2>4
    <3> HIDE DEF B, D, H, R, S, Z
    <3>3. \E m \in 1 .. Len(D[v]) :
             /\ H[t] = <<>> /\ ~ S[t] /\ B[v] = 0
             /\ D' = [D EXCEPT ![v] = SubSeq(@, m + 1, Len(@))] /\ B' = [B EXCEPT ![v] = m]
             /\ H' = [H EXCEPT ![t] = SubSeq(D[v], 1, m)] /\ R' = [R EXCEPT ![t] = v]
             /\ S' = [S EXCEPT ![t] = TRUE] /\ Z' = Z /\ out' = out
      BY ONLY <1>7, <3>1, <3>2
    <3> QED
      BY ONLY <3>3 DEF Contract!Book, Contract!Take, B, D, H, R, S, Z
  <2> QED
    BY <2>5 DEF Refines, Contract!Next
<1>11. CASE op[t] = "drain"
  <2>1. /\ pc'[t] = "idle" /\ v = t
        /\ draining' = [draining EXCEPT ![t] = "active"]
        /\ drain_head' = [drain_head EXCEPT ![t] = seen_stealer[t]]
        /\ drain_to' = [drain_to EXCEPT ![t] = seen_stealer[t] + n]
        /\ victim'[t] = t
    BY <1>1, <1>5, <1>11 DEF BookOk, Return, Goto, CounterTypes, n
  <2>2. Hand(t)' = <<>> /\ Source(t)' = t /\ ~ Stealing(t)'
    BY <2>1 DEF Hand, Source, Stealing
  <2>3. /\ [u \in Workers |-> Hand(u)]' = [u \in Workers |-> Hand(u)]
        /\ [u \in Workers |-> Source(u)]' = [u \in Workers |-> Source(u)]
        /\ [u \in Workers |-> Stealing(u)]' = [u \in Workers |-> Stealing(u)]
    <3>1. [u \in Workers |-> Hand(u)]' = [[u \in Workers |-> Hand(u)] EXCEPT ![t] = Hand(t)']
      BY <1>1, <1>2, <1>4, NothingMoves
    <3>2. Source(t)' = Source(t) /\ Stealing(t)' = Stealing(t)
      BY <1>9, <2>2 DEF Stealing
    <3>3. /\ [u \in Workers |-> Source(u)]' = [u \in Workers |-> Source(u)]
          /\ [u \in Workers |-> Stealing(u)]' = [u \in Workers |-> Stealing(u)]
      BY <1>2, <3>2, SourcesStay
    <3> QED
      BY ONLY <1>9, <2>2, <3>1, <3>3
  <2>4. /\ draining'[t] = "active" /\ drain_head'[t] = seen_stealer[t]
        /\ drain_to'[t] = seen_stealer[t] + n /\ (seen_stealer[t] + n) - seen_stealer[t] = n
        /\ \A q \in Workers \ {t} : /\ draining'[q] = draining[q] /\ drain_head'[q] = drain_head[q]
                                    /\ drain_to'[q] = drain_to[q]
    <3>1. (seen_stealer[t] + n) - seen_stealer[t] = n
      BY <1>1, <1>6, Numbers
    <3> QED
      BY <1>1, <2>1, <3>1 DEF CounterTypes
  <2>5. [q \in Workers |-> Drained(q)]'
          = [[q \in Workers |-> Drained(q)] EXCEPT ![t] = SubSeq(Deque(t), 1, n)]
    <3>1. Drained(t)' = Run(buffer', t, drain_head'[t], drain_to'[t] - drain_head'[t])
      BY <2>4 DEF Drained
    <3>2. Drained(t)' = SubSeq(Deque(t), 1, n)
      BY <1>4, <1>5, <1>7, <2>1, <2>4, <3>1
    <3>3. \A q \in Workers \ {t} : Drained(q)' = Drained(q)
      BY <1>4, <2>4 DEF Drained
    <3> QED
      BY <3>2, <3>3
  <2>6. [q \in Workers |-> BookedBy(q)]' = [[q \in Workers |-> BookedBy(q)] EXCEPT ![t] = n]
    <3>0. \A u \in Workers : Stealing(u)' = Stealing(u) /\ (Stealing(u) => victim'[u] = victim[u])
      BY <1>2, <1>9, <2>2 DEF OthersKeep, Stealing
    <3>1. ASSUME NEW q \in Workers, q # t PROVE BookedBy(q)' = BookedBy(q)
      <4>1. \A u \in Workers : Stealing(u) => count'[u] = count[u]
        BY <1>2, <1>9 DEF OthersKeep
      <4> QED
        BY <1>6, <2>4, <3>0, <3>1, <4>1, BookedSame
    <3>2. BookedBy(t)' = n
      <4>1. \A u \in Workers : ~ (Stealing(u)' /\ victim'[u] = t)
        BY <1>8, <2>1, <3>0
      <4>2. BookedBy(t)' = drain_to'[t] - stealer_head'[t]
        BY <2>4, <4>1, BookedDrain
      <4> QED
        BY <1>5, <1>6, <2>1, <2>4, <4>2
    <3>3. \A q \in Workers : BookedBy(q)' = IF q = t THEN n ELSE BookedBy(q)
      BY <3>1, <3>2
    <3> QED
      BY ONLY <3>3
  <2>7. Contract!BookDrain(t)
    <3> DEFINE D == [q \in Workers |-> Deque(q)]
               B == [q \in Workers |-> BookedBy(q)]
               Z == [q \in Workers |-> Drained(q)]
    <3>1. D[t] = Deque(t) /\ out' = out /\ B[t] = 0 /\ n \in 1 .. Len(Deque(t))
      BY <1>4, <1>7, <1>8, <2>1
    <3>2. /\ Z' = [Z EXCEPT ![t] = SubSeq(Deque(t), 1, n)]
          /\ D' = [D EXCEPT ![t] = SubSeq(Deque(t), n + 1, Len(Deque(t)))]
          /\ B' = [B EXCEPT ![t] = n]
      BY ONLY <1>7, <2>1, <2>5, <2>6, t \in Workers
    <3> HIDE DEF B, D, Z
    <3>3. \E m \in 1 .. Len(D[t]) :
             /\ B[t] = 0
             /\ D' = [D EXCEPT ![t] = SubSeq(@, m + 1, Len(@))] /\ B' = [B EXCEPT ![t] = m]
             /\ Z' = [Z EXCEPT ![t] = SubSeq(D[t], 1, m)]
             /\ out' = out
      BY ONLY <3>1, <3>2
    <3> QED
      BY ONLY <2>3, <3>3 DEF Contract!BookDrain, Contract!Take, B, D, Z
  <2> QED
    BY <2>7 DEF Refines, Contract!Next
<1> QED
  BY <1>10, <1>11

\* The bookings stay when no thread moves and the Drains go on.
LEMMA BookedAll ==
    ASSUME UNCHANGED <<pc, victim, count, draining, drain_to, stealer_head>>
    PROVE  [q \in Workers |-> BookedBy(q)]' = [q \in Workers |-> BookedBy(q)]
<1>1. \A u \in Workers : Stealing(u)' = Stealing(u) /\ victim'[u] = victim[u] /\ count'[u] = count[u]
  BY DEF Stealing
<1>2. \A q \in Workers : BookedBy(q)' = BookedBy(q)
  BY <1>1, BookedSame
<1> QED
  BY <1>2

(* A step that only moves items out of queues and Drains leaves every hand. *)
LEMMA AllHandsStay ==
    ASSUME PositionInv, UNCHANGED threadVars,
           \A u \in Workers : \A q \in Workers : \A p \in Int : HandAt(u, q, p) => Kept(q, p)
    PROVE  /\ [u \in Workers |-> Hand(u)]' = [u \in Workers |-> Hand(u)]
           /\ [u \in Workers |-> Source(u)]' = [u \in Workers |-> Source(u)]
           /\ [u \in Workers |-> Stealing(u)]' = [u \in Workers |-> Stealing(u)]
<1>1. \A u \in Workers : Hand(u)' = Hand(u) /\ Source(u)' = Source(u)
                         /\ Stealing(u)' = Stealing(u)
  BY HandStays DEF threadVars, localVars, seenVars
<1> QED
  BY <1>1

(* A Drain yields the items it took in order. *)
LEMMA DrainNextRefines ==
    ASSUME RefInv, NEW t \in Workers, DrainNext(t)
    PROVE  Refines
<1>1. PositionInv /\ CounterTypes /\ BufferShape(buffer)
  BY DEF RefInv, PositionInv, ItemTypes
<1> DEFINE f == drain_head[t]
           n == drain_to[t] - f
           s == Run(buffer, t, f, n)
<1>2. /\ draining[t] = "active" /\ drain_head[t] # drain_to[t]
      /\ buffer' = MovedOut(buffer, t, f, 1) /\ out' = out \cup Read(buffer, t, f, 1)
      /\ drain_head' = [drain_head EXCEPT ![t] = f + 1]
      /\ UNCHANGED <<worker_head, stealer_head, tail, dropped, threadVars, draining, drain_to>>
  BY DEF DrainNext, headsVars
<1>3. /\ f \in Int /\ n \in Nat \ {0} /\ drain_to[t] - (f + 1) = n - 1 /\ f + n = drain_to[t]
      /\ f < worker_head[t] /\ f < drain_to[t] /\ worker_head[t] \in Int
  <2>1. DrainHolds(t)
    BY <1>1 DEF PositionInv
  <2>2. drain_to[t] \in Nat /\ drain_head[t] \in Nat /\ worker_head[t] \in Int
    BY <1>1, Numbers
  <2> QED
    BY <1>2, <2>1, <2>2 DEF DrainHolds
<1>4. LiveAt(t, f) /\ DrainedAt(t, f) /\ f .. f + 1 - 1 \subseteq Window(t)
  <2>1. DrainedAt(t, f)
    BY <1>2, <1>3 DEF DrainedAt
  <2>2. LiveAt(t, f)
    BY <1>3, <2>1, SeenIsLive DEF SeenAt
  <2>3. f \in Window(t)
    BY <1>3, <2>2, SeenInWindow
  <2> HIDE DEF f
  <2> QED
    BY <1>3, <2>1, <2>2, <2>3
<1> HIDE DEF f, n
<1>5. ASSUME NEW q \in Workers, NEW p \in Int, SeenAt(q, p), ~ (q = t /\ p = f)
      PROVE  Kept(q, p)
  <2>1. LiveAt(q, p)
    BY <1>5, SeenIsLive
  <2>2. ~ (q = t /\ p \in f .. f + 1 - 1)
    BY <1>3, <1>5
  <2>3. Apart(q, p, t, f, 1)
    BY <1>3, <1>4, <2>1, <2>2, LiveApart
  <2> QED
    BY <1>1, <1>2, <1>3, <2>3, MovedOutKeeps DEF Kept
<1>6. /\ [u \in Workers |-> Hand(u)]' = [u \in Workers |-> Hand(u)]
      /\ [u \in Workers |-> Source(u)]' = [u \in Workers |-> Source(u)]
      /\ [u \in Workers |-> Stealing(u)]' = [u \in Workers |-> Stealing(u)]
  <2>1. ASSUME NEW u \in Workers, NEW q \in Workers, NEW p \in Int, HandAt(u, q, p)
        PROVE  Kept(q, p)
    <3>1. ~ DrainedAt(q, p)
      BY <2>1, HandsApart
    <3> QED
      BY <1>4, <1>5, <2>1, <3>1 DEF SeenAt
  <2> QED
    BY <1>1, <1>2, <2>1, AllHandsStay
<1>7. [q \in Workers |-> Deque(q)]' = [q \in Workers |-> Deque(q)]
  <2>1. ASSUME NEW q \in Workers, NEW p \in Int, DequeAt(q, p) PROVE Kept(q, p)
    <3>1. ~ (q = t /\ p = f)
      BY <1>3, <2>1 DEF DequeAt
    <3> QED
      BY <1>5, <2>1, <3>1 DEF SeenAt
  <2> QED
    BY <1>1, <1>2, <2>1, DequesStay
<1>8. /\ Drained(t) = s /\ Drained(t)' = Tail(s) /\ s # <<>> /\ Head(s) = buffer[t][Slot(t, f)]
  <2>1. /\ s # <<>> /\ Head(s) = buffer[t][Slot(t, f)]
        /\ Tail(s) = Run(buffer, t, f + 1, n - 1)
    <3>1. f \in Int /\ n \in Nat \ {0}
      BY <1>3
    <3> QED
      BY ONLY <3>1, RunFirst
  <2>2. Drained(t) = s
    BY <1>2 DEF Drained, f, n
  <2>3. Drained(t)' = Run(buffer', t, f + 1, n - 1)
    <3>1. drain_head'[t] = f + 1
      BY <1>1, <1>2 DEF CounterTypes
    <3>2. Drained(t)' = Run(buffer', t, drain_head'[t], drain_to'[t] - drain_head'[t])
      BY <1>2 DEF Drained
    <3> QED
      BY <1>2, <1>3, <3>1, <3>2
  <2>4. ASSUME NEW r \in f + 1 .. f + 1 + (n - 1) - 1
        PROVE  buffer'[t][Slot(t, r)] = buffer[t][Slot(t, r)]
    <3>1. r \in Int /\ r # f /\ f <= r /\ r < f + n
      BY <1>3
    <3>2. DrainedAt(t, r)
      BY <1>2, <1>3, <3>1 DEF DrainedAt, f, n
    <3> QED
      BY <1>5, <3>1, <3>2 DEF SeenAt, Kept
  <2>5. Run(buffer', t, f + 1, n - 1) = Run(buffer, t, f + 1, n - 1)
    <3>1. f + 1 \in Int /\ n - 1 \in Int
      BY <1>3
    <3> QED
      BY <2>4, <3>1, RunSame
  <2> HIDE DEF s
  <2> QED
    BY ONLY <2>1, <2>2, <2>3, <2>5
<1>9. [q \in Workers |-> Drained(q)]' = [[q \in Workers |-> Drained(q)] EXCEPT ![t] = Tail(s)]
  <2>1. ASSUME NEW q \in Workers \ {t} PROVE Drained(q)' = Drained(q)
    <3>1. drain_head'[q] = drain_head[q]
      BY <1>1, <1>2 DEF CounterTypes
    <3>2. \A p \in Int : DrainedAt(q, p) => Kept(q, p)
      BY <1>5 DEF SeenAt
    <3> QED
      BY <1>1, <1>2, <3>1, <3>2, DrainedStays
  <2> QED
    BY <1>8, <2>1
<1>10. [q \in Workers |-> BookedBy(q)]' = [q \in Workers |-> BookedBy(q)]
  BY <1>2, BookedAll DEF threadVars, localVars
<1>11. out' = out \cup {Head(s)}
  BY <1>2, <1>3, <1>8, ReadOne
<1>12. Contract!DrainNext(t)
  <2> DEFINE Z == [q \in Workers |-> Drained(q)]
  <2>1. Z[t] = s /\ Z' = [Z EXCEPT ![t] = Tail(s)]
    BY <1>8, <1>9
  <2> HIDE DEF Z, s
  <2> QED
    BY ONLY <1>6, <1>7, <1>8, <1>10, <1>11, <2>1 DEF Contract!DrainNext, Z
<1> QED
  BY <1>12 DEF Refines, Contract!Next

(* A Drain that is through gives the slots back. *)
LEMMA DrainCommitRefines ==
    ASSUME RefInv, NEW t \in Workers, DrainCommit(t)
    PROVE  Refines
<1>1. PositionInv /\ CounterTypes
  BY DEF RefInv, PositionInv
<1>2. /\ draining[t] = "loaded" /\ buffer' = buffer
      /\ draining' = [draining EXCEPT ![t] = "no"]
      /\ drain_head' = [drain_head EXCEPT ![t] = 0]
      /\ drain_to' = [drain_to EXCEPT ![t] = 0]
      /\ stealer_head' = [stealer_head EXCEPT ![t] = drain_seen[t]]
      /\ UNCHANGED <<worker_head, tail, dropped, threadVars, out>>
  BY DEF DrainCommit, itemVars
<1>3. /\ drain_head[t] = drain_to[t] /\ drain_to[t] \in Int
      /\ stealer_head[t] < drain_to[t] /\ stealer_head[t] \in Int
  BY <1>1, <1>2, Numbers DEF RefInv, SlotInv, HeldInv, LoadedEmpty, PositionInv, DrainHolds
<1>4. drain_head[t] = drain_to[t]
  BY <1>3
<1>5. /\ [u \in Workers |-> Hand(u)]' = [u \in Workers |-> Hand(u)]
      /\ [u \in Workers |-> Source(u)]' = [u \in Workers |-> Source(u)]
      /\ [u \in Workers |-> Stealing(u)]' = [u \in Workers |-> Stealing(u)]
  BY <1>1, <1>2, AllHandsStay DEF Kept
<1>6. [q \in Workers |-> Deque(q)]' = [q \in Workers |-> Deque(q)]
  BY <1>1, <1>2, DequesStay DEF Kept
<1>7. Drained(t) = <<>> /\ [q \in Workers |-> Drained(q)]' = [q \in Workers |-> Drained(q)]
  <2>1. Drained(t) = <<>>
    <3>1. drain_to[t] - drain_head[t] \in Int /\ drain_to[t] - drain_head[t] <= 0
      BY <1>3, <1>4
    <3>2. Run(buffer, t, drain_head[t], drain_to[t] - drain_head[t]) = <<>>
      BY ONLY <1>3, <3>1, RunEmpty
    <3> QED
      BY <1>2, <3>2 DEF Drained
  <2>2. Drained(t)' = <<>>
    BY <1>1, <1>2 DEF Drained, CounterTypes
  <2>3. ASSUME NEW q \in Workers \ {t} PROVE Drained(q)' = Drained(q)
    <3>1. /\ draining'[q] = draining[q] /\ drain_head'[q] = drain_head[q]
          /\ drain_to'[q] = drain_to[q]
      BY <1>1, <1>2 DEF CounterTypes
    <3> QED
      BY <1>2, <3>1 DEF Drained
  <2> QED
    BY <2>1, <2>2, <2>3
<1>8. \A u \in Workers : ~ (Stealing(u) /\ victim[u] = t)
  BY <1>1, <1>2 DEF PositionInv, Holds
<1>9. /\ [q \in Workers |-> BookedBy(q)]' = [[q \in Workers |-> BookedBy(q)] EXCEPT ![t] = 0]
      /\ BookedBy(t) # 0
  <2>0. \A u \in Workers : Stealing(u)' = Stealing(u) /\ victim'[u] = victim[u] /\ count'[u] = count[u]
    BY <1>2 DEF threadVars, localVars, Stealing
  <2>1. ASSUME NEW q \in Workers, q # t PROVE BookedBy(q)' = BookedBy(q)
    <3>1. draining'[q] = draining[q] /\ drain_to'[q] = drain_to[q] /\ stealer_head'[q] = stealer_head[q]
      BY <1>2, <2>1
    <3> QED
      BY <2>0, <3>1, BookedSame
  <2>2. BookedBy(t)' = 0
    <3>1. draining'[t] = "no" /\ \A u \in Workers : ~ (Stealing(u)' /\ victim'[u] = t)
      BY <1>1, <1>2, <1>8, <2>0 DEF CounterTypes
    <3> QED
      BY <3>1, BookedNone
  <2>3. \A q \in Workers : BookedBy(q)' = IF q = t THEN 0 ELSE BookedBy(q)
    BY <2>1, <2>2
  <2>4. BookedBy(t) = drain_to[t] - stealer_head[t]
    BY <1>1, <1>2, <1>8, BookedIs
  <2>5. BookedBy(t) # 0
    BY <1>3, <2>4
  <2> QED
    BY ONLY <2>3, <2>5
<1>10. Contract!ReleaseDrain(t)
  <2> DEFINE B == [q \in Workers |-> BookedBy(q)]
             R == [u \in Workers |-> Source(u)]
             S == [u \in Workers |-> Stealing(u)]
             Z == [q \in Workers |-> Drained(q)]
  <2>1. /\ B[t] # 0 /\ Z[t] = <<>> /\ (\A u \in Workers : S[u] => R[u] # t)
        /\ B' = [B EXCEPT ![t] = 0] /\ out' = out
    BY <1>2, <1>7, <1>8, <1>9 DEF Source
  <2> HIDE DEF B, R, S, Z
  <2> QED
    BY ONLY <1>5, <1>6, <1>7, <2>1 DEF Contract!ReleaseDrain, B, R, S, Z
<1> QED
  BY <1>10 DEF Refines, Contract!Next

(* A queue that goes releases what it holds. *)
LEMMA DropRefines ==
    ASSUME RefInv, NEW t \in Workers, Drop(t)
    PROVE  Refines
<1>1. PositionInv /\ CounterTypes /\ BufferShape(buffer)
  BY DEF RefInv, PositionInv, ItemTypes
<1> DEFINE f == worker_head[t]
           n == WrappingSub(tail[t], worker_head[t])
<1>2. /\ pc[t] = "idle" /\ dropped' = dropped \cup {t} /\ t \notin dropped
      /\ \A u \in Workers : pc[u] # "idle" => victim[u] # t
      /\ buffer' = MovedOut(buffer, t, f, n) /\ out' = out \cup Read(buffer, t, f, n)
      /\ UNCHANGED <<worker_head, stealer_head, tail, threadVars, drainVars>>
  BY DEF Drop, headsVars
<1>5. n = tail[t] - f /\ n \in Int /\ f \in Int /\ tail[t] \in Int
  BY <1>1, DropLenExact, Numbers
<1>6. f .. f + n - 1 \subseteq Window(t)
  <2>1. ASSUME NEW p \in f .. f + n - 1 PROVE p \in Window(t)
    <3>1. p \in Int /\ f <= p /\ p < tail[t]
      <4> HIDE DEF f, n
      <4> QED
        BY <1>5, <2>1
    <3>2. LiveAt(t, p)
      BY <1>2, <3>1 DEF LiveAt
    <3> QED
      BY <3>1, <3>2, SeenInWindow
  <2> QED
    BY <2>1
<1> HIDE DEF n, f
<1>7. ASSUME NEW q \in Workers, NEW p \in Int, SeenAt(q, p), q # t \/ ~ DequeAt(q, p)
      PROVE  Kept(q, p)
  <2>1. LiveAt(q, p)
    BY <1>7, SeenIsLive
  <2>2. ~ (q = t /\ p \in f .. f + n - 1)
    BY <1>2, <1>5, <1>7 DEF DequeAt, f
  <2>3. Apart(q, p, t, f, n)
    BY <1>5, <1>6, <2>1, <2>2, LiveApart
  <2> QED
    BY <1>1, <1>2, <1>5, <2>3, MovedOutKeeps DEF Kept
<1>8. /\ [u \in Workers |-> Hand(u)]' = [u \in Workers |-> Hand(u)]
      /\ [u \in Workers |-> Source(u)]' = [u \in Workers |-> Source(u)]
      /\ [u \in Workers |-> Stealing(u)]' = [u \in Workers |-> Stealing(u)]
  <2>1. ASSUME NEW u \in Workers, NEW q \in Workers, NEW p \in Int, HandAt(u, q, p)
        PROVE  Kept(q, p)
    BY <1>7, <2>1, HandsApart DEF SeenAt
  <2> QED
    BY <1>1, <1>2, <2>1, AllHandsStay
<1>9. [q \in Workers |-> Drained(q)]' = [q \in Workers |-> Drained(q)]
  <2>1. ASSUME NEW q \in Workers, NEW p \in Int, DrainedAt(q, p) PROVE Kept(q, p)
    <3>1. ~ DequeAt(q, p)
      <4>1. drain_to[q] <= worker_head[q] /\ drain_to[q] \in Int /\ worker_head[q] \in Int
        BY <1>1, <2>1, Numbers DEF PositionInv, DrainHolds, DrainedAt
      <4> QED
        BY <2>1, <4>1 DEF DrainedAt, DequeAt
    <3> QED
      BY <1>7, <2>1, <3>1 DEF SeenAt
  <2> QED
    BY <1>1, <1>2, <2>1, DrainsStay DEF drainVars
<1>10. Deque(t) = Run(buffer, t, f, n)
       /\ [q \in Workers |-> Deque(q)]' = [[q \in Workers |-> Deque(q)] EXCEPT ![t] = <<>>]
  <2>1. Deque(t) = Run(buffer, t, f, n)
    BY <1>2, <1>5 DEF Deque, f
  <2>2. Deque(t)' = <<>>
    BY <1>2 DEF Deque
  <2>3. ASSUME NEW q \in Workers \ {t} PROVE Deque(q)' = Deque(q)
    <3>2. \A p \in Int : DequeAt(q, p) => Kept(q, p)
      BY <1>7 DEF SeenAt
    <3> QED
      BY <1>1, <1>2, <3>2, DequeStays
  <2> QED
    BY <2>1, <2>2, <2>3
<1>11. out' = out \cup Contract!ToSet(Deque(t))
  <2>1. {Run(buffer, t, f, n)[k] : k \in DOMAIN Run(buffer, t, f, n)} = Read(buffer, t, f, n)
    <3>1. f \in Int /\ n \in Int
      BY <1>5
    <3> QED
      BY ONLY <3>1, RunSet
  <2> QED
    BY <1>2, <1>10, <2>1 DEF Contract!ToSet
<1>12. [q \in Workers |-> BookedBy(q)]' = [q \in Workers |-> BookedBy(q)]
  BY <1>2, BookedAll DEF threadVars, localVars, drainVars
<1>13. Hand(t) = <<>> /\ \A u \in Workers : Stealing(u) => Source(u) # t
  BY <1>2 DEF Hand, Stealing, Source
<1>14. Contract!Drop(t)
  <2> DEFINE D == [q \in Workers |-> Deque(q)]
             H == [u \in Workers |-> Hand(u)]
             R == [u \in Workers |-> Source(u)]
             S == [u \in Workers |-> Stealing(u)]
  <2>1. /\ H[t] = <<>> /\ (\A u \in Workers : S[u] => R[u] # t)
        /\ D[t] = Deque(t) /\ D' = [D EXCEPT ![t] = <<>>]
    BY <1>10, <1>13
  <2> HIDE DEF D, H, R, S
  <2> QED
    BY ONLY <1>8, <1>9, <1>11, <1>12, <2>1 DEF Contract!Drop, D, H, R, S
<1> QED
  BY <1>14 DEF Refines, Contract!Next

(* The clients create no more items than the bound says. *)
Bounded == created <= MaxCreated

LEMMA NextBounded == PositionInv /\ Bounded /\ [Next]_vars => Bounded'
<1> SUFFICES ASSUME PositionInv, Bounded, [Next]_vars PROVE created' <= MaxCreated
  BY DEF Bounded
<1>0. created \in Nat /\ MaxCreated \in Nat /\ created <= MaxCreated
  BY ClientAssumption DEF PositionInv, CounterTypes, Bounded
<1>1. CASE UNCHANGED vars
  BY <1>0, <1>1 DEF vars, itemVars
<1>2. ASSUME NEW t \in Workers, Step(t) PROVE created' <= MaxCreated
  <2>1. CASE Push(t)
    BY <1>0, <2>1 DEF Push, Carry
  <2>2. ASSUME NEW n \in 0 .. MaxCreated, Extend(t, n) PROVE created' <= MaxCreated
    <3> DEFINE room == WrappingSub(stealer_head[t] + Capacity[t], tail[t])
    <3>1. room \in Int
      <4>1. stealer_head[t] \in Int /\ Capacity[t] \in Int /\ tail[t] \in Int
        BY CapacityAssumption DEF PositionInv, CounterTypes
      <4> QED
        BY <4>1, RoomExact
    <3>2. created' = created + Least(n, room) /\ created + n <= MaxCreated
      BY <2>2 DEF Extend, Carry
    <3> HIDE DEF room
    <3>3. Least(n, room) <= n /\ Least(n, room) \in Int
      BY <3>1 DEF Least
    <3> QED
      BY <1>0, <3>2, <3>3
  <2>3. CASE ~ (Push(t) \/ \E n \in 0 .. MaxCreated : Extend(t, n))
    <3>1. created' = created
      BY <1>2, <2>3 DEF Step, Write, Publish, Pop, PopCasOk, PopCasFail, PopRead,
         Steal, DrainCall, LoadHeads, LoadTail, BookOk, BookFail, Copy, PublishDest,
         LoadCommit, CommitOk, CommitFail, DrainNext, DrainLoad, DrainCommit, DrainLeak,
         Drop, itemVars
    <3> QED
      BY <1>0, <3>1
  <2> QED
    BY <2>1, <2>2, <2>3
<1> QED
  BY <1>1, <1>2 DEF Next

(* Every step of the queues is one of the contract, or none at all. *)
LEMMA StepRefines ==
    ASSUME RefInv, PositionInv', [Next]_vars
    PROVE  Refines
<1>1. CASE UNCHANGED vars
  <2>1. \A t \in Workers : Hand(t)' = Hand(t) /\ Source(t)' = Source(t)
                           /\ Stealing(t)' = Stealing(t)
    BY <1>1 DEF vars, queueVars, threadVars, localVars, seenVars, Hand, Source, Stealing,
       TransferCount
  <2>2. \A q \in Workers : Deque(q)' = Deque(q) /\ Drained(q)' = Drained(q)
    BY <1>1 DEF vars, queueVars, headsVars, drainVars, Deque, Drained
  <2>3. [q \in Workers |-> BookedBy(q)]' = [q \in Workers |-> BookedBy(q)]
    BY <1>1, BookedAll DEF vars, queueVars, headsVars, threadVars, localVars, drainVars
  <2>4. out' = out
    BY <1>1 DEF vars, itemVars
  <2> QED
    BY <2>1, <2>2, <2>3, <2>4 DEF Refines, Contract!vars
<1>2. ASSUME NEW t \in Workers, Step(t) PROVE Refines
  <2>1. CASE \/ Push(t) \/ (\E n \in 0 .. MaxCreated : Extend(t, n)) \/ Pop(t) \/ PopCasFail(t)
             \/ (\E v \in Workers, name \in OpNames : Steal(t, v, name)) \/ DrainCall(t)
             \/ LoadHeads(t) \/ (\E n \in 0 .. Modulus - 1 : LoadTail(t, n))
             \/ BookFail(t) \/ LoadCommit(t) \/ CommitFail(t)
    BY <2>1, LooksRefine
  <2>2. CASE DrainLoad(t) \/ DrainLeak(t)
    BY <2>2, DrainLooksRefine
  <2>3. CASE Write(t)
    BY <2>3, WriteRefines
  <2>4. CASE Publish(t)
    BY <2>4, PublishRefines
  <2>5. CASE PopCasOk(t)
    BY <2>5, PopCasRefines
  <2>6. CASE PopRead(t)
    BY <2>6, PopReadRefines
  <2>7. CASE BookOk(t)
    BY <2>7, BookRefines
  <2>8. CASE Copy(t)
    BY <2>8, CopyRefines
  <2>9. CASE PublishDest(t)
    BY <2>9, PublishDestRefines
  <2>10. CASE CommitOk(t)
    BY <2>10, CommitRefines
  <2>11. CASE DrainNext(t)
    BY <2>11, DrainNextRefines
  <2>12. CASE DrainCommit(t)
    BY <2>12, DrainCommitRefines
  <2>13. CASE Drop(t)
    BY <2>13, DropRefines
  <2> QED
    BY <1>2, <2>1, <2>2, <2>3, <2>4, <2>5, <2>6, <2>7, <2>8, <2>9, <2>10, <2>11, <2>12, <2>13
       DEF Step
<1> QED
  BY <1>1, <1>2 DEF Next

(* The queues start where the contract does. *)
LEMMA InitRefines == Init => Contract!Init
<1> SUFFICES ASSUME Init PROVE Contract!Init
  OBVIOUS
<1>1. PositionInv
  BY InitPositionInv
<1>2. ASSUME NEW q \in Workers
      PROVE  /\ Deque(q) = <<>> /\ Hand(q) = <<>> /\ Drained(q) = <<>>
             /\ Source(q) = q /\ Stealing(q) = FALSE /\ BookedBy(q) = 0
  <2>1. tail[q] - worker_head[q] = 0 /\ worker_head[q] \in Int /\ worker_head[q] = stealer_head[q]
    <3>1. worker_head = tail /\ stealer_head = tail
      BY DEF Init
    <3>2. tail[q] \in Int
      BY <1>1 DEF PositionInv, CounterTypes
    <3> QED
      BY <3>1, <3>2
  <2>2. Run(buffer, q, worker_head[q], tail[q] - worker_head[q]) = <<>>
    <3>1. tail[q] - worker_head[q] \in Int /\ tail[q] - worker_head[q] <= 0 /\ worker_head[q] \in Int
      BY <2>1
    <3> QED
      BY ONLY <3>1, RunEmpty
  <2>3. Deque(q) = <<>>
    BY <2>2 DEF Deque
  <2>4. BookedBy(q) = 0
    BY <1>1, <2>1, BookedFits
  <2> QED
    BY <2>3, <2>4 DEF Init, Hand, Drained, Source, Stealing
<1>3. out = {}
  BY DEF Init
<1>4. /\ [q \in Workers |-> Deque(q)] = [q \in Workers |-> <<>>]
      /\ [q \in Workers |-> Hand(q)] = [q \in Workers |-> <<>>]
      /\ [q \in Workers |-> Drained(q)] = [q \in Workers |-> <<>>]
      /\ [q \in Workers |-> Source(q)] = [q \in Workers |-> q]
      /\ [q \in Workers |-> Stealing(q)] = [q \in Workers |-> FALSE]
      /\ [q \in Workers |-> BookedBy(q)] = [q \in Workers |-> 0]
  BY <1>2
<1> QED
  BY ONLY <1>3, <1>4 DEF Contract!Init, Contract!Nothing

(* The FIFO queues implement StealDeques, leaked Drains or not: the owner   *)
(* may pop while a steal or a Drain is in progress, and every item still     *)
(* leaves its queue at the front, in order, in one step.                     *)
THEOREM FifoImplementsDeques == Spec => ImplementsContract
<1>1. Init => Bounded
  BY ClientAssumption DEF Init, Bounded
<1>2. PositionInv /\ PositionInv' /\ ItemTypes /\ SlotInv /\ StoreInv /\ OutInv /\ [Next]_vars
        => SlotInv' /\ StoreInv' /\ OutInv'
  <2> SUFFICES ASSUME PositionInv, PositionInv', ItemTypes, SlotInv, StoreInv, OutInv,
                      [Next]_vars
               PROVE  SlotInv' /\ StoreInv' /\ OutInv'
    OBVIOUS
  <2>1. Unique(buffer)
    BY DEF StoreInv
  <2>2. SlotInv'
    BY <2>1, NextSlotInv
  <2> QED
    BY <2>2, NextStoreInv
<1>3. PositionInv /\ PositionInv' /\ ItemTypes /\ SlotInv /\ StoreInv /\ OutInv /\ Bounded
        /\ [Next]_vars
        => [Contract!Next]_(Contract!vars)
  BY StepRefines DEF RefInv, Bounded, Refines
<1> QED
  BY <1>1, <1>2, <1>3, InitPositionInv, NextPositionInv, InitItemTypes, NextItemTypes,
     InitSlotInv, InitStoreInv, NextBounded, InitRefines, PTL
     DEF Spec, ImplementsContract, Contract!Spec
=============================================================================
