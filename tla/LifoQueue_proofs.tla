-------------------------- MODULE LifoQueue_proofs --------------------------
(* Safety of the LIFO queue, its positions, its slots and its items, for    *)
(* any number of workers, any capacities and any width of the counters.     *)
EXTENDS LifoQueue, LifoRefinement, RingTheorems

(* Every type but those of the slots and of the items. *)
CounterTypes ==
    /\ push_count \in [Workers -> Nat]
    /\ pop_count \in [Workers -> Nat]
    /\ next_head \in [Workers -> Nat]
    /\ head \in [Workers -> Nat]
    /\ pc \in [Workers -> {"idle", "write", "publish", "pop_cas", "pop_read",
                           "load_word", "load_head", "load_push", "book",
                           "copy", "publish_dest", "commit"}]
    /\ op \in [Workers -> OpNames \cup {"none"}]
    /\ victim \in [Workers -> Workers]
    /\ my_push \in [Workers -> Nat]
    /\ my_tail \in [Workers -> Nat]
    /\ free \in [Workers -> Nat]
    /\ seen_pop \in [Workers -> Nat]
    /\ seen_head \in [Workers -> Nat]
    /\ old_head \in [Workers -> Nat]
    /\ count \in [Workers -> Nat]
    /\ carried \in [Workers -> Nat]
    /\ draining \in [Workers -> {"no", "active", "leaked"}]
    /\ drain_current \in [Workers -> Nat]
    /\ drain_end \in [Workers -> Nat]
    /\ created \in Nat

Ordered(q) ==
    /\ head[q] <= next_head[q]
    /\ next_head[q] + pop_count[q] <= push_count[q]
    /\ push_count[q] <= pop_count[q] + head[q] + Capacity[q]

(* A thread that is going to write to its queue still knows its tail: only *)
(* the owner moves it.  A thief fills the room it computed first.          *)
Looking == {"load_word", "load_head", "load_push", "book"}

KnowsTail(t) ==
    /\ \/ pc[t] \in {"write", "publish", "pop_cas", "copy", "publish_dest"}
       \/ (pc[t] \in Looking /\ op[t] # "drain")
       => my_push[t] = push_count[t] /\ my_tail[t] + pop_count[t] = push_count[t]
    /\ pc[t] \in {"write", "publish"}
         => my_tail[t] + count[t] <= head[t] + Capacity[t]
    /\ pc[t] \in Looking /\ op[t] = "steal"
         => my_tail[t] + free[t] <= head[t] + Capacity[t]
    /\ pc[t] \in Looking /\ op[t] = "steal_and_pop"
         => my_tail[t] + free[t] <= head[t] + Capacity[t] + 1
    /\ pc[t] \in {"copy", "publish_dest"}
         => my_tail[t] + TransferCount(t) <= head[t] + Capacity[t]

(* What a popping owner saw is at most as old as its call. *)
PopSaw(t) ==
    /\ pc[t] = "pop_cas" =>
         /\ seen_pop[t] = pop_count[t]
         /\ seen_head[t] <= next_head[t]
         /\ seen_head[t] < my_tail[t]
         /\ my_tail[t] <= seen_head[t] + Capacity[t]
    /\ pc[t] = "pop_read" =>
         /\ my_tail[t] + pop_count[t] = push_count[t] + 1
         /\ my_tail[t] <= head[t] + Capacity[t]

(* What a thief saw was true at some moment, and not a cycle ago. *)
ThiefSaw(t) ==
    LET v == victim[t] IN
    /\ pc[t] \in Looking
         => op[t] \in {"steal", "steal_and_pop", "drain"} /\ (op[t] = "drain" => v = t)
    /\ pc[t] \in Booking =>
         /\ seen_pop[t] <= pop_count[v]
         /\ seen_head[t] <= next_head[v]
         /\ seen_head[t] <= head[v] + Capacity[v]
         /\ push_count[v] < seen_pop[t] + seen_head[t] + Modulus
    /\ pc[t] \in {"load_push", "book"} =>
         /\ old_head[t] = seen_head[t]
         /\ seen_head[t] <= head[v]
    /\ pc[t] = "book" =>
         /\ count[t] >= 1
         /\ count[t] <= free[t]
         /\ seen_pop[t] + seen_head[t] + count[t] <= push_count[v]

(* A booking holds what lies between the two heads, and holds it alone. *)
Holds(t) ==
    Stealing(t) =>
        /\ op[t] \in {"steal", "steal_and_pop"}
        /\ count[t] >= 1
        /\ head[victim[t]] = seen_head[t]
        /\ next_head[victim[t]] = seen_head[t] + count[t]
        /\ draining[victim[t]] = "no"

Alone ==
    \A t, u \in Workers : Stealing(t) /\ Stealing(u) /\ victim[t] = victim[u] => t = u

DrainHolds(q) ==
    draining[q] # "no" =>
        /\ head[q] <= drain_current[q]
        /\ drain_current[q] <= drain_end[q]
        /\ head[q] < drain_end[q]
        /\ drain_end[q] = next_head[q]

NoOrphan(q) ==
    head[q] # next_head[q] =>
        draining[q] # "no" \/ \E t \in Workers : Stealing(t) /\ victim[t] = q

PositionInv ==
    /\ CounterTypes
    /\ \A q \in Workers : Ordered(q)
    /\ \A t \in Workers : KnowsTail(t)
    /\ \A t \in Workers : PopSaw(t)
    /\ \A t \in Workers : ThiefSaw(t)
    /\ \A t \in Workers : Holds(t)
    /\ Alone
    /\ \A q \in Workers : DrainHolds(q)
    /\ \A q \in Workers : NoOrphan(q)

-----------------------------------------------------------------------------
(* What the wrap-around arithmetic of each operation really computes. *)

(* The occupied length is never out of range: `capacity - len` cannot       *)
(* underflow in spare_capacity, steal and steal_and_pop.                    *)
LEMMA OwnLenExact ==
    ASSUME PositionInv, NEW t \in Workers
    PROVE  /\ OwnLen(t) = TailOf(t) - head[t]
           /\ OwnLen(t) \in 0 .. Capacity[t]
<1>1. /\ TailOf(t) \in Nat /\ head[t] \in Nat
      /\ 0 <= TailOf(t) - head[t] /\ TailOf(t) - head[t] <= Capacity[t]
  BY CapacityFacts DEF PositionInv, CounterTypes, Ordered, TailOf
<1>2. Capacity[t] \in Nat /\ Capacity[t] < Modulus /\ Modulus \in Nat
  BY CapacityFacts, CapacityAssumption
<1>3. TailOf(t) - head[t] < Modulus
  BY <1>1, <1>2
<1>4. OwnLen(t) = TailOf(t) - head[t]
  BY <1>1, <1>3, WrappingSubExact DEF OwnLen
<1> QED
  BY <1>1, <1>2, <1>4

(* extend's max_tail - tail is the room left. *)
LEMMA RoomExact ==
    ASSUME PositionInv, NEW t \in Workers
    PROVE  WrappingSub(head[t] + Capacity[t], TailOf(t)) = head[t] + Capacity[t] - TailOf(t)
<1>1. /\ TailOf(t) \in Nat /\ head[t] \in Nat
      /\ 0 <= TailOf(t) - head[t] /\ TailOf(t) - head[t] <= Capacity[t]
  BY CapacityFacts DEF PositionInv, CounterTypes, Ordered, TailOf
<1>2. Capacity[t] \in Nat /\ Capacity[t] < Modulus /\ Modulus \in Nat
  BY CapacityFacts, CapacityAssumption
<1> QED
  BY <1>1, <1>2, WrappingSubExact

(* A successful compare-exchange of pop finds the head it loaded. *)
LEMMA PopCasExact ==
    ASSUME PositionInv, NEW t \in Workers, pc[t] = "pop_cas", SameWord(t, t)
    PROVE  next_head[t] = seen_head[t]
<1>1. /\ next_head[t] \in Int /\ seen_head[t] \in Int
      /\ seen_head[t] <= next_head[t]
      /\ next_head[t] - seen_head[t] <= Capacity[t]
  BY CapacityFacts DEF PositionInv, CounterTypes, Ordered, KnowsTail, PopSaw
<1>2. Capacity[t] \in Nat /\ Capacity[t] < Modulus /\ Modulus \in Nat
  BY CapacityFacts, CapacityAssumption
<1>3. next_head[t] - seen_head[t] < Modulus /\ seen_head[t] - next_head[t] < Modulus
  BY <1>1, <1>2
<1> QED
  BY <1>1, <1>3, ShortEqual DEF SameWord

(* A thief that finds `head` equal to the head in the word has not missed a *)
(* cycle.                                                                   *)
LEMMA LoadHeadExact ==
    ASSUME PositionInv, NEW t \in Workers, pc[t] = "load_head",
           Short(head[victim[t]]) = Short(seen_head[t])
    PROVE  head[victim[t]] = seen_head[t]
<1> DEFINE v == victim[t]
<1>1. v \in Workers
  BY DEF PositionInv, CounterTypes
<1> HIDE DEF v
<1>2. /\ head[v] \in Nat /\ next_head[v] \in Nat /\ push_count[v] \in Nat /\ pop_count[v] \in Nat
      /\ seen_head[t] \in Nat /\ seen_pop[t] \in Nat
  BY <1>1 DEF PositionInv, CounterTypes
<1>3. /\ head[v] <= next_head[v] /\ next_head[v] + pop_count[v] <= push_count[v]
  BY <1>1 DEF PositionInv, Ordered
<1>4. /\ seen_pop[t] <= pop_count[v]
      /\ seen_head[t] <= head[v] + Capacity[v]
      /\ push_count[v] < seen_pop[t] + seen_head[t] + Modulus
  BY DEF PositionInv, ThiefSaw, Booking, v
<1>5. Capacity[v] \in Nat /\ Capacity[v] < Modulus /\ Modulus \in Nat
  BY <1>1, CapacityFacts, CapacityAssumption
<1>6. head[v] - seen_head[t] < Modulus /\ seen_head[t] - head[v] < Modulus
  BY <1>2, <1>3, <1>4, <1>5
<1>7. Short(head[v]) = Short(seen_head[t])
  BY DEF v
<1>8. head[v] = seen_head[t]
  BY <1>2, <1>6, <1>7, ShortEqual
<1> QED
  BY <1>8 DEF v

(* The item count a thief computes is the difference of the counters it     *)
(* loaded, even when they do not belong to one moment.                      *)
LEMMA ItemCountExact ==
    ASSUME PositionInv, NEW t \in Workers, pc[t] = "load_push"
    PROVE  /\ ItemCount(t) = push_count[victim[t]] - seen_pop[t] - seen_head[t]
           /\ ItemCount(t) \in 0 .. Modulus - 1
<1> DEFINE v == victim[t]
<1>1. v \in Workers
  BY DEF PositionInv, CounterTypes
<1> HIDE DEF v
<1>2. /\ next_head[v] \in Nat /\ push_count[v] \in Nat /\ pop_count[v] \in Nat
      /\ seen_head[t] \in Nat /\ seen_pop[t] \in Nat
  BY <1>1 DEF PositionInv, CounterTypes
<1>3. next_head[v] + pop_count[v] <= push_count[v]
  BY <1>1 DEF PositionInv, Ordered
<1>4. /\ seen_pop[t] <= pop_count[v] /\ seen_head[t] <= next_head[v]
      /\ push_count[v] < seen_pop[t] + seen_head[t] + Modulus
  BY DEF PositionInv, ThiefSaw, Booking, v
<1>5. push_count[v] - seen_pop[t] - seen_head[t] \in 0 .. Modulus - 1
  BY <1>2, <1>3, <1>4, CapacityAssumption
<1>6. push_count[v] \in Int /\ seen_pop[t] \in Int /\ seen_head[t] \in Int
  BY <1>2
<1>7. WrappingSub(WrappingSub(push_count[v], seen_pop[t]), seen_head[t])
        = Short(push_count[v] - seen_pop[t] - seen_head[t])
  BY <1>6, WrappingSubTwice
<1>8. ItemCount(t) = push_count[v] - seen_pop[t] - seen_head[t]
  BY <1>5, <1>7, ShortSmall DEF ItemCount, v
<1> QED
  BY <1>5, <1>8 DEF v

(* The compare-exchange of book_items succeeds only on a word that is still *)
(* the current one, with no other steal in progress.                        *)
LEMMA BookExact ==
    ASSUME PositionInv, NEW t \in Workers, pc[t] = "book", SameWord(t, victim[t])
    PROVE  /\ pop_count[victim[t]] = seen_pop[t]
           /\ next_head[victim[t]] = seen_head[t]
           /\ head[victim[t]] = seen_head[t]
<1> DEFINE v == victim[t]
<1>1. v \in Workers
  BY DEF PositionInv, CounterTypes
<1> HIDE DEF v
<1>2. /\ head[v] \in Nat /\ next_head[v] \in Nat /\ push_count[v] \in Nat /\ pop_count[v] \in Nat
      /\ seen_head[t] \in Nat /\ seen_pop[t] \in Nat
  BY <1>1 DEF PositionInv, CounterTypes
<1>3. /\ head[v] <= next_head[v] /\ next_head[v] + pop_count[v] <= push_count[v]
  BY <1>1 DEF PositionInv, Ordered
<1>4. /\ seen_pop[t] <= pop_count[v] /\ seen_head[t] <= next_head[v]
      /\ seen_head[t] <= head[v]
      /\ push_count[v] < seen_pop[t] + seen_head[t] + Modulus
  BY DEF PositionInv, ThiefSaw, Booking, v
<1>5. /\ pop_count[v] - seen_pop[t] < Modulus /\ seen_pop[t] - pop_count[v] < Modulus
      /\ next_head[v] - seen_head[t] < Modulus /\ seen_head[t] - next_head[v] < Modulus
  BY <1>2, <1>3, <1>4, CapacityAssumption
<1>6. Short(pop_count[v]) = Short(seen_pop[t]) /\ Short(next_head[v]) = Short(seen_head[t])
  BY DEF SameWord, v
<1>7. pop_count[v] = seen_pop[t] /\ next_head[v] = seen_head[t]
  BY <1>2, <1>5, <1>6, ShortEqual
<1> QED
  BY <1>2, <1>3, <1>4, <1>7 DEF v

(* After a failed compare-exchange, the stale `head` only matches a word    *)
(* whose head has not moved.                                                *)
LEMMA BookFailExact ==
    ASSUME PositionInv, NEW t \in Workers, pc[t] = "book",
           Short(old_head[t]) = Short(next_head[victim[t]])
    PROVE  next_head[victim[t]] = seen_head[t]
<1> DEFINE v == victim[t]
<1>1. v \in Workers
  BY DEF PositionInv, CounterTypes
<1> HIDE DEF v
<1>2. /\ next_head[v] \in Nat /\ push_count[v] \in Nat /\ pop_count[v] \in Nat
      /\ seen_head[t] \in Nat /\ seen_pop[t] \in Nat
  BY <1>1 DEF PositionInv, CounterTypes
<1>3. next_head[v] + pop_count[v] <= push_count[v]
  BY <1>1 DEF PositionInv, Ordered
<1>4. /\ seen_pop[t] <= pop_count[v] /\ seen_head[t] <= next_head[v]
      /\ push_count[v] < seen_pop[t] + seen_head[t] + Modulus
      /\ old_head[t] = seen_head[t]
  BY DEF PositionInv, ThiefSaw, Booking, v
<1>5. next_head[v] - seen_head[t] < Modulus /\ seen_head[t] - next_head[v] < Modulus
  BY <1>2, <1>3, <1>4, CapacityAssumption
<1>6. Short(next_head[v]) = Short(seen_head[t])
  BY <1>4 DEF v
<1> QED
  BY <1>2, <1>5, <1>6, ShortEqual DEF v
-----------------------------------------------------------------------------
(* The arithmetic of three steps below. *)
LEMMA Below ==
    ASSUME NEW a \in Nat, NEW b \in Nat, a <= b, a # b
    PROVE  a < b /\ a + 1 <= b
  OBVIOUS

(* The tail of a queue is a natural number. *)
LEMMA TailRange ==
    ASSUME NEW h \in Nat, NEW n \in Nat, NEW p \in Nat, NEW e \in Nat, NEW k \in Nat,
           h <= n, n + p <= e, e <= p + h + k, e - p # n
    PROVE  n < e - p /\ e - p <= n + k
  OBVIOUS

(* The invariant holds initially. *)
LEMMA InitPositionInv == Init => PositionInv
<1> SUFFICES ASSUME Init PROVE PositionInv
  OBVIOUS
<1>1. PICK s \in [Workers -> Starts] :
         /\ pop_count = [q \in Workers |-> s[q][1]]
         /\ head = [q \in Workers |-> s[q][2]]
         /\ next_head = head
         /\ push_count = [q \in Workers |-> s[q][1] + s[q][2]]
  BY DEF Init
<1>2. \A q \in Workers : s[q] \in Nat \X Nat
  BY ClientAssumption
<1>3. \A q \in Workers : s[q][1] \in Nat /\ s[q][2] \in Nat
  BY <1>2
<1> DEFINE p == [q \in Workers |-> s[q][1]]
           h == [q \in Workers |-> s[q][2]]
<1>4. /\ p \in [Workers -> Nat] /\ h \in [Workers -> Nat]
      /\ pop_count = p /\ head = h /\ next_head = h
      /\ push_count = [q \in Workers |-> p[q] + h[q]]
  BY <1>1, <1>3
<1> HIDE DEF p, h
<1>9. CounterTypes
  BY <1>4 DEF Init, CounterTypes
<1>5. ASSUME NEW q \in Workers PROVE Ordered(q) /\ NoOrphan(q)
  <2>1. p[q] \in Nat /\ h[q] \in Nat /\ Capacity[q] \in Nat
    BY <1>4, CapacityFacts
  <2>2. pop_count[q] = p[q] /\ head[q] = h[q] /\ next_head[q] = h[q] /\ push_count[q] = p[q] + h[q]
    BY <1>4
  <2> QED
    BY <2>1, <2>2 DEF Ordered, NoOrphan
<1>6. \A t \in Workers : KnowsTail(t) /\ PopSaw(t) /\ ThiefSaw(t) /\ Holds(t) /\ ~ Stealing(t)
  BY DEF Init, KnowsTail, PopSaw, ThiefSaw, Holds, Stealing, Looking, Booking
<1>7. Alone
  BY <1>6 DEF Alone
<1>8. \A q \in Workers : DrainHolds(q)
  BY DEF Init, DrainHolds
<1> QED
  BY <1>9, <1>5, <1>6, <1>7, <1>8 DEF PositionInv

(* A call that returns without a booking leaves the invariant alone. *)
LEMMA ReturnPositionInv ==
    ASSUME PositionInv, NEW t \in Workers, ~ Stealing(t), Return(t),
           UNCHANGED <<push_count, wordVars, head, drainVars, created>>
    PROVE  PositionInv'
<1> USE DEF Return, Goto, wordVars, drainVars
<1>1. CounterTypes'
  BY DEF PositionInv, CounterTypes
<1>2. \A q \in Workers : Ordered(q)' /\ DrainHolds(q)'
  BY DEF PositionInv, Ordered, DrainHolds
<1>3. ASSUME NEW u \in Workers
      PROVE  KnowsTail(u)' /\ PopSaw(u)' /\ ThiefSaw(u)' /\ Holds(u)'
  <2>1. CASE u = t
    BY <2>1 DEF PositionInv, CounterTypes, KnowsTail, PopSaw, ThiefSaw, Holds,
                Looking, Booking, Stealing
  <2>2. CASE u # t
    BY <2>2 DEF PositionInv, CounterTypes, KnowsTail, PopSaw, ThiefSaw, Holds,
                Looking, Booking, Stealing, TransferCount
  <2> QED
    BY <2>1, <2>2
<1>4. \A u \in Workers : Stealing(u)' => Stealing(u) /\ u # t
  BY DEF PositionInv, CounterTypes, Stealing
<1>5. \A u \in Workers : u # t => victim'[u] = victim[u] /\ (Stealing(u)' <=> Stealing(u))
  BY DEF PositionInv, CounterTypes, Stealing
<1>6. Alone'
  BY <1>4, <1>5 DEF PositionInv, Alone
<1>7. \A q \in Workers : NoOrphan(q)'
  BY <1>4, <1>5 DEF PositionInv, NoOrphan
<1> QED
  BY <1>1, <1>2, <1>3, <1>6, <1>7 DEF PositionInv

(* Every step preserves it. *)
LEMMA NextPositionInv == PositionInv /\ [Next]_vars => PositionInv'
<1> SUFFICES ASSUME PositionInv, [Next]_vars PROVE PositionInv'
  OBVIOUS
<1> USE CapacityFacts, CapacityAssumption
<1> USE DEF PositionInv, CounterTypes, Ordered, KnowsTail, PopSaw, ThiefSaw,
            Holds, Alone, DrainHolds, NoOrphan, Looking, Booking, Stealing
<1> USE DEF Goto, TailOf, OpNames, TransferCount, queueVars, wordVars, seenVars,
            localVars, threadVars, drainVars, itemVars
<1>1. ASSUME NEW t \in Workers, Push(t) PROVE PositionInv'
  <2>1. /\ pc[t] = "idle" /\ pc' = [pc EXCEPT ![t] = "write"]
        /\ op' = [op EXCEPT ![t] = "push"] /\ victim' = [victim EXCEPT ![t] = t]
        /\ my_push' = [my_push EXCEPT ![t] = push_count[t]]
        /\ my_tail' = [my_tail EXCEPT ![t] = TailOf(t)]
        /\ count' = [count EXCEPT ![t] = 1]
        /\ carried' = [carried EXCEPT ![t] = created] /\ created' = created + 1
        /\ UNCHANGED <<queueVars, free, seenVars, old_head, drainVars>>
    BY <1>1 DEF Push, Call, LoadOwnTail, Carry
  <2>2. /\ TailOf(t) \in Nat /\ TailOf(t) + pop_count[t] = push_count[t]
        /\ TailOf(t) + 1 <= head[t] + Capacity[t]
    <3>1. OwnLen(t) = TailOf(t) - head[t]
      BY ONLY PositionInv, t \in Workers, OwnLenExact
    <3>2. ~ (OwnLen(t) > Capacity[t] - 1)
      BY ONLY <1>1 DEF Push
    <3>3. /\ push_count[t] \in Nat /\ pop_count[t] \in Nat /\ head[t] \in Nat
          /\ Capacity[t] \in Nat /\ next_head[t] \in Nat
          /\ head[t] <= next_head[t] /\ next_head[t] + pop_count[t] <= push_count[t]
      OBVIOUS
    <3> QED
      BY ONLY <3>1, <3>2, <3>3 DEF TailOf
  <2> HIDE DEF TailOf
  <2>3. CounterTypes'
    BY <2>1, <2>2
  <2>4. \A q \in Workers : Ordered(q)' /\ DrainHolds(q)'
    BY <2>1
  <2>5. \A u \in Workers : KnowsTail(u)'
    BY <2>1, <2>2
  <2>6. \A u \in Workers : PopSaw(u)' /\ ThiefSaw(u)'
    BY <2>1
  <2>7. \A u \in Workers : Holds(u)'
    BY <2>1
  <2>8. Alone'
    BY <2>1
  <2>9. \A q \in Workers : NoOrphan(q)'
    BY <2>1
  <2> QED
    BY <2>3, <2>4, <2>5, <2>6, <2>7, <2>8, <2>9
<1>2. ASSUME NEW t \in Workers, NEW n \in Nat, Extend(t, n) PROVE PositionInv'
  BY <1>2, RoomExact DEF Extend, Call, LoadOwnTail, Carry, Least
<1>3. ASSUME NEW t \in Workers, Write(t) PROVE PositionInv'
  <2>1. /\ pc[t] = "write" /\ pc' = [pc EXCEPT ![t] = "publish"]
        /\ UNCHANGED <<push_count, wordVars, head, localVars, drainVars, itemVars>>
    BY <1>3 DEF Write
  <2>2. CounterTypes'
    BY <2>1
  <2>3. \A q \in Workers : Ordered(q)'
    BY <2>1
  <2>4. \A u \in Workers : KnowsTail(u)'
    BY <2>1
  <2>5. \A u \in Workers : PopSaw(u)'
    BY <2>1
  <2>6. \A u \in Workers : ThiefSaw(u)'
    BY <2>1
  <2>7. \A u \in Workers : Holds(u)'
    BY <2>1
  <2>8. Alone'
    BY <2>1
  <2>9. \A q \in Workers : DrainHolds(q)'
    BY <2>1
  <2>10. \A q \in Workers : NoOrphan(q)'
    BY <2>1
  <2> QED
    BY <2>2, <2>3, <2>4, <2>5, <2>6, <2>7, <2>8, <2>9, <2>10
<1>4. ASSUME NEW t \in Workers, Publish(t) PROVE PositionInv'
  BY <1>4 DEF Publish, Recent, Return
<1>5. ASSUME NEW t \in Workers, Pop(t) PROVE PositionInv'
  <2>1. CounterTypes'
    BY <1>5 DEF Pop, Call, LoadOwnTail, PopTest
  <2>2. \A q \in Workers : Ordered(q)'
    BY <1>5 DEF Pop, Call, LoadOwnTail, PopTest
  <2>3. \A u \in Workers : KnowsTail(u)'
    BY <1>5 DEF Pop, Call, LoadOwnTail, PopTest
  <2>4. ASSUME NEW u \in Workers PROVE PopSaw(u)'
    <3>1. /\ pc' = [pc EXCEPT ![t] = "pop_cas"] /\ TailOf(t) # next_head[t]
          /\ my_tail' = [my_tail EXCEPT ![t] = TailOf(t)]
          /\ seen_pop' = [seen_pop EXCEPT ![t] = pop_count[t]]
          /\ seen_head' = [seen_head EXCEPT ![t] = next_head[t]]
          /\ UNCHANGED <<push_count, wordVars, head>>
      BY <1>5 DEF Pop, Call, LoadOwnTail, PopTest
    <3>2. CASE u = t
      <4>1. /\ pop_count[t] \in Nat /\ push_count[t] \in Nat /\ head[t] \in Nat
            /\ next_head[t] \in Nat /\ Capacity[t] \in Nat
        OBVIOUS
      <4>2. next_head[t] < TailOf(t) /\ TailOf(t) <= next_head[t] + Capacity[t]
        <5>1. /\ head[t] <= next_head[t] /\ next_head[t] + pop_count[t] <= push_count[t]
              /\ push_count[t] <= pop_count[t] + head[t] + Capacity[t]
          OBVIOUS
        <5>2. push_count[t] - pop_count[t] # next_head[t]
          BY <3>1
        <5> QED
          BY ONLY <4>1, <5>1, <5>2, TailRange DEF TailOf
      <4>3. /\ pc'[t] = "pop_cas" /\ my_tail'[t] = TailOf(t) /\ seen_head'[t] = next_head[t]
            /\ seen_pop'[t] = pop_count[t] /\ pop_count'[t] = pop_count[t]
            /\ next_head'[t] = next_head[t]
        BY <3>1
      <4> HIDE DEF TailOf
      <4> QED
        BY <3>2, <4>1, <4>2, <4>3
    <3>3. CASE u # t
      BY <3>1, <3>3
    <3> QED
      BY <3>2, <3>3
  <2>5. \A u \in Workers : ThiefSaw(u)'
    BY <1>5 DEF Pop, Call, LoadOwnTail, PopTest
  <2>6. \A u \in Workers : Holds(u)'
    BY <1>5 DEF Pop, Call, LoadOwnTail, PopTest
  <2>7. Alone'
    BY <1>5 DEF Pop, Call, LoadOwnTail, PopTest
  <2>8. \A q \in Workers : DrainHolds(q)'
    BY <1>5 DEF Pop, Call, LoadOwnTail, PopTest
  <2>9. \A q \in Workers : NoOrphan(q)'
    BY <1>5 DEF Pop, Call, LoadOwnTail, PopTest
  <2> QED
    BY <2>1, <2>2, <2>3, <2>4, <2>5, <2>6, <2>7, <2>8, <2>9
<1>6. ASSUME NEW t \in Workers, PopCasOk(t) PROVE PositionInv'
  <2>1. CounterTypes'
    BY <1>6, PopCasExact DEF PopCasOk
  <2>2. \A q \in Workers : Ordered(q)'
    BY <1>6, PopCasExact DEF PopCasOk
  <2>3. \A u \in Workers : KnowsTail(u)'
    BY <1>6, PopCasExact DEF PopCasOk
  <2>4. ASSUME NEW u \in Workers PROVE PopSaw(u)'
    <3>1. /\ pc[t] = "pop_cas" /\ pc' = [pc EXCEPT ![t] = "pop_read"]
          /\ pop_count' = [pop_count EXCEPT ![t] = seen_pop[t] + 1]
          /\ next_head' = [next_head EXCEPT ![t] = seen_head[t]]
          /\ UNCHANGED <<push_count, head, localVars>>
      BY <1>6 DEF PopCasOk
    <3>2. CASE u = t
      <4>1. /\ pop_count[t] \in Nat /\ push_count[t] \in Nat /\ head[t] \in Nat
            /\ my_tail[t] \in Nat /\ Capacity[t] \in Nat
        OBVIOUS
      <4>2. /\ my_tail[t] + pop_count[t] = push_count[t] /\ seen_pop[t] = pop_count[t]
            /\ push_count[t] <= pop_count[t] + head[t] + Capacity[t]
        BY <3>1
      <4>3. /\ my_tail[t] + (seen_pop[t] + 1) = push_count[t] + 1
            /\ my_tail[t] <= head[t] + Capacity[t]
        BY <4>1, <4>2
      <4>4. /\ pc'[t] = "pop_read" /\ pop_count'[t] = seen_pop[t] + 1 /\ my_tail'[t] = my_tail[t]
            /\ push_count'[t] = push_count[t] /\ head'[t] = head[t]
        BY <3>1
      <4> QED
        BY <3>2, <4>3, <4>4
    <3>3. CASE u # t
      <4>1. /\ pc'[u] = pc[u] /\ pop_count'[u] = pop_count[u] /\ next_head'[u] = next_head[u]
        BY <3>1, <3>3
      <4>2. PopSaw(u)
        OBVIOUS
      <4> QED
        BY <3>1, <4>1, <4>2
    <3> QED
      BY <3>2, <3>3
  <2>5. \A u \in Workers : ThiefSaw(u)'
    BY <1>6, PopCasExact DEF PopCasOk
  <2>6. \A u \in Workers : Holds(u)'
    BY <1>6, PopCasExact DEF PopCasOk
  <2>7. Alone'
    BY <1>6, PopCasExact DEF PopCasOk
  <2>8. \A q \in Workers : DrainHolds(q)'
    BY <1>6, PopCasExact DEF PopCasOk
  <2>9. \A q \in Workers : NoOrphan(q)'
    BY <1>6, PopCasExact, SMTT(30) DEF PopCasOk
  <2> QED
    BY <2>1, <2>2, <2>3, <2>4, <2>5, <2>6, <2>7, <2>8, <2>9
<1>7. ASSUME NEW t \in Workers, PopCasFail(t) PROVE PositionInv'
  <2>1. CASE Short(my_tail[t]) = Short(next_head[t]) /\ Return(t)
    BY <1>7, <2>1, ReturnPositionInv DEF PopCasFail, Return
  <2>2. CASE Short(my_tail[t]) # Short(next_head[t]) /\ PopTest(t, seen_pop[t], next_head[t])
    <3>1. /\ pc[t] = "pop_cas" /\ my_tail[t] # next_head[t]
          /\ pc' = pc /\ seen_pop' = seen_pop
          /\ seen_head' = [seen_head EXCEPT ![t] = next_head[t]]
          /\ UNCHANGED <<push_count, wordVars, head, op, victim, my_push, my_tail,
                         free, old_head, count, carried, drainVars, created>>
      BY <1>7, <2>2 DEF PopCasFail, PopTest, Return
    <3>2. CounterTypes'
      BY <3>1
    <3>3. \A q \in Workers : Ordered(q)'
      BY <3>1
    <3>4. \A u \in Workers : KnowsTail(u)'
      BY <3>1
    <3>5. ASSUME NEW u \in Workers PROVE PopSaw(u)'
      <4>1. CASE u = t
        <5>1. /\ pop_count[t] \in Nat /\ push_count[t] \in Nat /\ head[t] \in Nat
              /\ next_head[t] \in Nat /\ my_tail[t] \in Nat /\ Capacity[t] \in Nat
          OBVIOUS
        <5>2. /\ my_tail[t] + pop_count[t] = push_count[t]
              /\ seen_pop[t] = pop_count[t]
              /\ next_head[t] + pop_count[t] <= push_count[t] /\ head[t] <= next_head[t]
              /\ push_count[t] <= pop_count[t] + head[t] + Capacity[t]
          BY <3>1
        <5>3. next_head[t] < my_tail[t] /\ my_tail[t] <= next_head[t] + Capacity[t]
          <6>1. my_tail[t] = push_count[t] - pop_count[t] /\ my_tail[t] # next_head[t]
            BY <3>1, <5>1, <5>2
          <6> QED
            BY ONLY <6>1, <5>1, <5>2, TailRange
        <5>4. seen_head'[t] = next_head[t]
          BY <3>1
        <5> QED
          BY <3>1, <4>1, <5>1, <5>2, <5>3, <5>4
      <4>2. CASE u # t
        BY <3>1, <4>2
      <4> QED
        BY <4>1, <4>2
    <3>6. \A u \in Workers : ThiefSaw(u)'
      BY <3>1
    <3>7. \A u \in Workers : Holds(u)'
      BY <3>1
    <3>8. Alone'
      BY <3>1
    <3>9. \A q \in Workers : DrainHolds(q)'
      BY <3>1
    <3>10. \A q \in Workers : NoOrphan(q)'
      BY <3>1
    <3> QED
      BY <3>2, <3>3, <3>4, <3>5, <3>6, <3>7, <3>8, <3>9, <3>10
  <2> HIDE DEF PositionInv
  <2> QED
    BY ONLY <1>7, <2>1, <2>2 DEF PopCasFail
<1>8. ASSUME NEW t \in Workers, PopRead(t) PROVE PositionInv'
  BY <1>8 DEF PopRead, Return
<1>9. ASSUME NEW t \in Workers, NEW v \in Workers, NEW name \in OpNames, Steal(t, v, name) PROVE PositionInv'
  <2>1. /\ pc[t] = "idle" /\ pc' = [pc EXCEPT ![t] = "load_word"]
        /\ name \in {"steal", "steal_and_pop"}
        /\ op' = [op EXCEPT ![t] = name] /\ victim' = [victim EXCEPT ![t] = v]
        /\ my_push' = [my_push EXCEPT ![t] = push_count[t]]
        /\ my_tail' = [my_tail EXCEPT ![t] = TailOf(t)]
        /\ free' = [free EXCEPT ![t] =
              Capacity[t] - OwnLen(t) + (IF name = "steal_and_pop" THEN 1 ELSE 0)]
        /\ UNCHANGED <<queueVars, seenVars, old_head, count, carried, drainVars, itemVars>>
    BY <1>9 DEF Steal, Call, LoadOwnTail
  <2>2. /\ push_count[t] \in Nat /\ pop_count[t] \in Nat /\ head[t] \in Nat
        /\ Capacity[t] \in Nat /\ next_head[t] \in Nat
        /\ head[t] <= next_head[t] /\ next_head[t] + pop_count[t] <= push_count[t]
    OBVIOUS
  <2>3. OwnLen(t) = TailOf(t) - head[t] /\ OwnLen(t) \in 0 .. Capacity[t]
    BY ONLY PositionInv, t \in Workers, OwnLenExact
  <2>4. TailOf(t) \in Nat /\ TailOf(t) + pop_count[t] = push_count[t]
    BY ONLY <2>2 DEF TailOf
  <2> HIDE DEF TailOf
  <2>5. /\ free'[t] \in Nat
        /\ name = "steal" => TailOf(t) + free'[t] <= head[t] + Capacity[t]
        /\ name = "steal_and_pop" => TailOf(t) + free'[t] <= head[t] + Capacity[t] + 1
    <3>1. free'[t] = Capacity[t] - OwnLen(t) + (IF name = "steal_and_pop" THEN 1 ELSE 0)
      BY <2>1
    <3> QED
      BY ONLY <2>2, <2>3, <2>4, <3>1
  <2>6. CounterTypes'
    <3>1. free' \in [Workers -> Nat]
      BY <2>1, <2>5
    <3> QED
      BY <2>1, <2>4, <3>1
  <2>7. \A q \in Workers : Ordered(q)' /\ DrainHolds(q)'
    BY <2>1
  <2>8. ASSUME NEW u \in Workers PROVE KnowsTail(u)'
    <3>1. CASE u = t
      BY <2>1, <2>4, <2>5, <3>1
    <3>2. CASE u # t
      BY <2>1, <3>2
    <3> QED
      BY <3>1, <3>2
  <2>9. \A u \in Workers : PopSaw(u)' /\ ThiefSaw(u)'
    BY <2>1
  <2>10. \A u \in Workers : Holds(u)'
    BY <2>1
  <2>11. Alone'
    BY <2>1
  <2>12. \A q \in Workers : NoOrphan(q)'
    BY <2>1
  <2> QED
    BY <2>6, <2>7, <2>8, <2>9, <2>10, <2>11, <2>12
<1>10. ASSUME NEW t \in Workers, DrainCall(t) PROVE PositionInv'
  BY <1>10 DEF DrainCall, Call
<1>11. ASSUME NEW t \in Workers, LoadWord(t) PROVE PositionInv'
  BY <1>11, SMTT(30) DEF LoadWord
<1>12. ASSUME NEW t \in Workers, LoadHead(t) PROVE PositionInv'
  <2>1. CASE Short(head[victim[t]]) # Short(seen_head[t]) /\ Return(t)
    BY <1>12, <2>1, ReturnPositionInv DEF LoadHead, Return
  <2>2. CASE Short(head[victim[t]]) = Short(seen_head[t]) /\ Goto(t, "load_push")
    <3>1. /\ pc[t] = "load_head" /\ head[victim[t]] = seen_head[t]
          /\ pc' = [pc EXCEPT ![t] = "load_push"]
          /\ old_head' = [old_head EXCEPT ![t] = head[victim[t]]]
          /\ UNCHANGED <<push_count, wordVars, head, op, victim, my_push, my_tail,
                         free, seenVars, count, carried, drainVars, created>>
      BY <1>12, <2>2, LoadHeadExact DEF LoadHead, Return
    <3>2. CounterTypes'
      BY <3>1
    <3>3. \A q \in Workers : Ordered(q)'
      BY <3>1
    <3>4. \A u \in Workers : KnowsTail(u)'
      BY <3>1
    <3>5. \A u \in Workers : PopSaw(u)'
      BY <3>1
    <3>6. \A u \in Workers : ThiefSaw(u)'
      BY <3>1
    <3>7. \A u \in Workers : Holds(u)'
      BY <3>1
    <3>8. Alone'
      BY <3>1
    <3>9. \A q \in Workers : DrainHolds(q)'
      BY <3>1
    <3>10. ASSUME NEW q \in Workers PROVE NoOrphan(q)'
      <4>1. \A u \in Workers : Stealing(u)' <=> Stealing(u)
        BY <3>1
      <4>2. NoOrphan(q)
        OBVIOUS
      <4> HIDE DEF Stealing
      <4> QED
        BY <3>1, <4>1, <4>2
    <3> QED
      BY <3>2, <3>3, <3>4, <3>5, <3>6, <3>7, <3>8, <3>9, <3>10
  <2> HIDE DEF PositionInv
  <2> QED
    BY ONLY <1>12, <2>1, <2>2 DEF LoadHead
<1>13. ASSUME NEW t \in Workers, NEW n \in Nat, LoadPush(t, n) PROVE PositionInv'
  <2>1. CASE n = 0 /\ Return(t)
    BY <1>13, <2>1, ReturnPositionInv DEF LoadPush, Return
  <2>2. CASE n > 0 /\ Goto(t, "book")
    <3>1. /\ pc[t] = "load_push" /\ n > 0 /\ n <= free[t]
          /\ n <= push_count[victim[t]] - seen_pop[t] - seen_head[t]
          /\ pc' = [pc EXCEPT ![t] = "book"]
          /\ count' = [count EXCEPT ![t] = n]
          /\ UNCHANGED <<push_count, wordVars, head, op, victim, my_push, my_tail,
                         free, seenVars, old_head, carried, drainVars, created>>
      BY <1>13, <2>2, ItemCountExact DEF LoadPush, Return, Least
    <3>2. CounterTypes'
      BY <3>1
    <3>3. \A q \in Workers : Ordered(q)'
      BY <3>1
    <3>4. \A u \in Workers : KnowsTail(u)'
      BY <3>1
    <3>5. \A u \in Workers : PopSaw(u)'
      BY <3>1
    <3>6. \A u \in Workers : ThiefSaw(u)'
      BY <3>1
    <3>7. \A u \in Workers : Holds(u)'
      BY <3>1
    <3>8. Alone'
      BY <3>1
    <3>9. \A q \in Workers : DrainHolds(q)'
      BY <3>1
    <3>10. \A q \in Workers : NoOrphan(q)'
      <4>1. \A u \in Workers : Stealing(u)' <=> Stealing(u)
        BY <3>1
      <4> HIDE DEF Stealing
      <4> QED
        BY <3>1, <4>1
    <3> QED
      BY <3>2, <3>3, <3>4, <3>5, <3>6, <3>7, <3>8, <3>9, <3>10
  <2> HIDE DEF PositionInv
  <2> QED
    BY ONLY <1>13, <2>1, <2>2, SMTT(30) DEF LoadPush
<1>14. ASSUME NEW t \in Workers, BookOk(t) PROVE PositionInv'
  <2> DEFINE v == victim[t]
  <2>1. /\ pc[t] = "book" /\ v \in Workers
        /\ pop_count[v] = seen_pop[t] /\ next_head[v] = seen_head[t] /\ head[v] = seen_head[t]
        /\ pop_count' = pop_count
        /\ next_head' = [next_head EXCEPT ![v] = seen_head[t] + count[t]]
        /\ UNCHANGED <<push_count, head, created>>
    BY <1>14, BookExact DEF BookOk
  <2>2. draining[v] = "no" /\ \A u \in Workers : Stealing(u) => victim[u] # v
    BY <2>1
  <2>3. CASE op[t] = "drain" /\ Return(t)
    <3>1. /\ v = t
          /\ draining' = [draining EXCEPT ![t] = "active"]
          /\ drain_current' = [drain_current EXCEPT ![t] = seen_head[t]]
          /\ drain_end' = [drain_end EXCEPT ![t] = seen_head[t] + count[t]]
      BY <1>14, <2>1, <2>3 DEF BookOk
    <3> USE DEF Return
    <3>2. CounterTypes'
      BY <2>1, <2>2, <2>3, <3>1
    <3>3. \A q \in Workers : Ordered(q)'
      BY <2>1, <2>2, <2>3, <3>1
    <3>4. \A u \in Workers : KnowsTail(u)'
      BY <2>1, <2>2, <2>3, <3>1
    <3>5. \A u \in Workers : PopSaw(u)'
      BY <2>1, <2>2, <2>3, <3>1
    <3>6. \A u \in Workers : ThiefSaw(u)'
      BY <2>1, <2>2, <2>3, <3>1
    <3>7. \A u \in Workers : Holds(u)'
      BY <2>1, <2>2, <2>3, <3>1
    <3>8. Alone'
      BY <2>1, <2>2, <2>3, <3>1
    <3>9. \A q \in Workers : DrainHolds(q)'
      BY <2>1, <2>2, <2>3, <3>1
    <3>10. \A q \in Workers : NoOrphan(q)'
      BY <2>1, <2>2, <2>3, <3>1
    <3> QED
      BY <3>2, <3>3, <3>4, <3>5, <3>6, <3>7, <3>8, <3>9, <3>10
  <2>4. CASE op[t] # "drain" /\ Goto(t, "copy")
    <3>1. pc' = [pc EXCEPT ![t] = "copy"] /\ UNCHANGED <<localVars, drainVars>>
      BY <1>14, <2>4 DEF BookOk, Return
    <3>2. CounterTypes'
      BY <2>1, <2>2, <2>4, <3>1
    <3>3. \A q \in Workers : Ordered(q)'
      BY <2>1, <2>2, <2>4, <3>1
    <3>4. \A u \in Workers : KnowsTail(u)'
      BY <2>1, <2>2, <2>4, <3>1
    <3>5. \A u \in Workers : PopSaw(u)'
      BY <2>1, <2>2, <2>4, <3>1
    <3>6. \A u \in Workers : ThiefSaw(u)'
      BY <2>1, <2>2, <2>4, <3>1
    <3>7. \A u \in Workers : Holds(u)'
      BY <2>1, <2>2, <2>4, <3>1
    <3>8. Alone'
      BY <2>1, <2>2, <2>4, <3>1
    <3>9. \A q \in Workers : DrainHolds(q)'
      BY <2>1, <2>2, <2>4, <3>1
    <3>10. \A q \in Workers : NoOrphan(q)'
      BY <2>1, <2>2, <2>4, <3>1
    <3> QED
      BY <3>2, <3>3, <3>4, <3>5, <3>6, <3>7, <3>8, <3>9, <3>10
  <2> QED
    BY <1>14, <2>3, <2>4 DEF BookOk
<1>15. ASSUME NEW t \in Workers, BookFail(t) PROVE PositionInv'
  <2>1. CASE Short(old_head[t]) # Short(next_head[victim[t]]) /\ Return(t)
    BY <1>15, <2>1, ReturnPositionInv DEF BookFail, Return
  <2>2. CASE Short(old_head[t]) = Short(next_head[victim[t]]) /\ Goto(t, "load_push")
    <3>1. /\ pc[t] = "book" /\ next_head[victim[t]] = seen_head[t]
          /\ pc' = [pc EXCEPT ![t] = "load_push"]
          /\ seen_pop' = [seen_pop EXCEPT ![t] = pop_count[victim[t]]]
          /\ seen_head' = [seen_head EXCEPT ![t] = next_head[victim[t]]]
          /\ count' = [count EXCEPT ![t] = 0]
          /\ UNCHANGED <<push_count, wordVars, head, op, victim, my_push, my_tail,
                         free, old_head, carried, drainVars, created>>
      BY <1>15, <2>2, BookFailExact DEF BookFail, Return
    <3>2. CounterTypes'
      BY <3>1
    <3>3. \A q \in Workers : Ordered(q)'
      BY <3>1
    <3>4. \A u \in Workers : KnowsTail(u)'
      BY <3>1
    <3>5. \A u \in Workers : PopSaw(u)'
      BY <3>1
    <3>6. \A u \in Workers : ThiefSaw(u)'
      BY <3>1
    <3>7. \A u \in Workers : Holds(u)'
      BY <3>1
    <3>8. Alone'
      BY <3>1
    <3>9. \A q \in Workers : DrainHolds(q)'
      BY <3>1
    <3>10. \A q \in Workers : NoOrphan(q)'
      BY <3>1
    <3> QED
      BY <3>2, <3>3, <3>4, <3>5, <3>6, <3>7, <3>8, <3>9, <3>10
  <2> HIDE DEF PositionInv
  <2> QED
    BY ONLY <1>15, <2>1, <2>2, SMTT(30) DEF BookFail
<1>16. ASSUME NEW t \in Workers, Copy(t) PROVE PositionInv'
  BY <1>16 DEF Copy
<1>17. ASSUME NEW t \in Workers, PublishDest(t) PROVE PositionInv'
  BY <1>17 DEF PublishDest, Recent
<1>18. ASSUME NEW t \in Workers, Commit(t) PROVE PositionInv'
  BY <1>18 DEF Commit, Return
<1>19. ASSUME NEW t \in Workers, DrainNext(t) PROVE PositionInv'
  <2>1. /\ draining[t] = "active" /\ drain_current[t] # drain_end[t]
        /\ drain_current' = [drain_current EXCEPT ![t] = @ + 1]
        /\ UNCHANGED <<push_count, wordVars, head, threadVars, draining, drain_end, created>>
    BY <1>19 DEF DrainNext
  <2>2. CounterTypes'
    BY <2>1
  <2>3. \A q \in Workers : Ordered(q)'
    BY <2>1
  <2>4. \A u \in Workers : KnowsTail(u)'
    BY <2>1
  <2>5. \A u \in Workers : PopSaw(u)'
    BY <2>1
  <2>6. \A u \in Workers : ThiefSaw(u)'
    BY <2>1
  <2>7. \A u \in Workers : Holds(u)'
    BY <2>1
  <2>8. Alone'
    BY <2>1
  <2>9. ASSUME NEW q \in Workers PROVE DrainHolds(q)'
    <3>1. CASE q = t
      <4>1. /\ drain_current'[t] = drain_current[t] + 1 /\ drain_end'[t] = drain_end[t]
            /\ head'[t] = head[t] /\ next_head'[t] = next_head[t]
        BY <2>1
      <4>2. /\ drain_current[t] \in Nat /\ drain_end[t] \in Nat /\ head[t] \in Nat
            /\ head[t] <= drain_current[t] /\ drain_current[t] <= drain_end[t]
            /\ head[t] < drain_end[t] /\ drain_end[t] = next_head[t]
        BY <2>1
      <4>3. drain_current[t] + 1 <= drain_end[t] /\ head[t] <= drain_current[t] + 1
        <5>1. drain_current[t] # drain_end[t]
          BY <2>1
        <5> QED
          BY ONLY <4>2, <5>1, Below
      <4> QED
        BY <3>1, <4>1, <4>2, <4>3
    <3>2. CASE q # t
      BY <2>1, <3>2
    <3> QED
      BY <3>1, <3>2
  <2>10. \A q \in Workers : NoOrphan(q)'
    BY <2>1
  <2> QED
    BY <2>2, <2>3, <2>4, <2>5, <2>6, <2>7, <2>8, <2>9, <2>10
<1>20. ASSUME NEW t \in Workers, DrainCommit(t) PROVE PositionInv'
  BY <1>20 DEF DrainCommit
<1>21. ASSUME NEW t \in Workers, DrainLeak(t) PROVE PositionInv'
  BY <1>21 DEF DrainLeak
<1>22. ASSUME NEW t \in Workers, Drop(t) PROVE PositionInv'
  BY <1>22 DEF Drop
<1> QED
  <2>1. CASE UNCHANGED vars
    BY <2>1 DEF vars
  <2>2. CASE Next
    <3>1. PICK t \in Workers : Step(t)
      BY <2>2 DEF Next
    <3>2. 0 .. MaxCreated \subseteq Nat /\ 0 .. Modulus - 1 \subseteq Nat
      BY ClientAssumption
    <3> HIDE DEF PositionInv
    <3> QED
      BY <3>1, <3>2, <1>1, <1>2, <1>3, <1>4, <1>5, <1>6, <1>7, <1>8, <1>9, <1>10, <1>11,
         <1>12, <1>13, <1>14, <1>15, <1>16, <1>17, <1>18, <1>19, <1>20, <1>21, <1>22 DEF Step
  <2> QED
    BY <2>1, <2>2

-----------------------------------------------------------------------------
(* Types of the slots. *)

ItemTypes ==
    /\ BufferShape(buffer)
    /\ dropped \subseteq Workers
    /\ out \subseteq Content

(* Buffers, items and results have their types initially ... *)
LEMMA InitItemTypes == Init => ItemTypes
<1>1. BufferShape(EmptyBuffers)
  BY DEF EmptyBuffers, BufferShape, Content
<1> QED
  BY <1>1 DEF Init, ItemTypes

(* ... and after every step. *)
LEMMA NextItemTypes == PositionInv /\ ItemTypes /\ [Next]_vars => ItemTypes'
<1> SUFFICES ASSUME PositionInv, ItemTypes, [Next]_vars PROVE ItemTypes'
  OBVIOUS
<1>1. CASE UNCHANGED vars
  BY <1>1 DEF vars, queueVars, itemVars, ItemTypes
<1>2. ASSUME NEW t \in Workers, Step(t) PROVE ItemTypes'
  <2>1. /\ my_tail[t] \in Nat /\ seen_head[t] \in Nat /\ count[t] \in Nat
        /\ carried[t] \in Nat /\ head[t] \in Nat /\ drain_current[t] \in Nat
        /\ victim[t] \in Workers /\ OwnLen(t) \in Int /\ TransferCount(t) \in Int
        /\ my_tail[t] - 1 \in Int
    BY OwnLenExact, CapacityFacts DEF PositionInv, CounterTypes, TransferCount
  <2>0. BufferShape(buffer) /\ dropped \subseteq Workers /\ out \subseteq Content
    BY DEF ItemTypes
  <2>2. CASE Write(t)
    <3> DEFINE s == [k \in 0 .. count[t] - 1 |-> carried[t] + 1 + k]
    <3>1. \A k \in DOMAIN s : s[k] \in Content
      BY <2>1 DEF Content
    <3>2. buffer' = Written(buffer, t, my_tail[t], s) /\ UNCHANGED <<dropped, out>>
      BY <2>2 DEF Write, itemVars
    <3> HIDE DEF s
    <3> QED
      BY <2>0, <2>1, <3>1, <3>2, WrittenTypes DEF ItemTypes
  <2>8. ASSUME NEW q \in Workers, NEW p \in Int, NEW n \in Int,
               buffer' = MovedOut(buffer, q, p, n), out' = out \cup Read(buffer, q, p, n),
               dropped' \subseteq Workers
        PROVE  ItemTypes'
    <3>1. BufferShape(MovedOut(buffer, q, p, n))
      BY ONLY <2>0, MovedOutCells, q \in Workers, p \in Int, n \in Int
    <3>2. Read(buffer, q, p, n) \subseteq Content
      BY ONLY <2>0, ReadTypes, q \in Workers, p \in Int, n \in Int
    <3> QED
      BY <2>0, <2>8, <3>1, <3>2 DEF ItemTypes
  <2>3. CASE PopRead(t)
    BY <2>0, <2>1, <2>3, <2>8 DEF PopRead
  <2>4. CASE DrainNext(t)
    BY <2>0, <2>1, <2>4, <2>8 DEF DrainNext
  <2>5. CASE Drop(t)
    BY <2>0, <2>1, <2>5, <2>8 DEF Drop
  <2>6. CASE Copy(t)
    <3> DEFINE v == victim[t]
               n == TransferCount(t)
               b == MovedOut(buffer, v, seen_head[t], count[t])
               s == Items(buffer, v, seen_head[t], n)
    <3>1. /\ buffer' = Written(b, t, my_tail[t], s) /\ dropped' = dropped
          /\ out' = out \cup Read(buffer, v, seen_head[t] + n, count[t] - n)
      BY <2>6 DEF Copy
    <3>2. BufferShape(b)
      <4>1. v \in Workers /\ seen_head[t] \in Int /\ count[t] \in Int
        BY <2>1
      <4> HIDE DEF v
      <4> QED
        BY ONLY <2>0, <4>1, MovedOutCells DEF b
    <3>3. /\ \A k \in DOMAIN s : s[k] \in Content
          /\ Read(buffer, v, seen_head[t] + n, count[t] - n) \subseteq Content
      <4>1. /\ v \in Workers /\ n \in Int /\ seen_head[t] + n \in Int /\ count[t] - n \in Int
            /\ seen_head[t] \in Int
        BY <2>1
      <4> HIDE DEF v, n
      <4> QED
        BY <2>0, <4>1, ReadTypes
    <3> HIDE DEF b, s, v, n
    <3> QED
      BY <2>0, <2>1, <3>1, <3>2, <3>3, WrittenTypes DEF ItemTypes
  <2>7. CASE \/ Push(t) \/ (\E n \in 0 .. MaxCreated : Extend(t, n)) \/ Publish(t)
             \/ Pop(t) \/ PopCasOk(t) \/ PopCasFail(t)
             \/ (\E v \in Workers, name \in OpNames : Steal(t, v, name)) \/ DrainCall(t)
             \/ LoadWord(t) \/ LoadHead(t) \/ (\E n \in 0 .. Modulus - 1 : LoadPush(t, n))
             \/ BookOk(t) \/ BookFail(t) \/ PublishDest(t) \/ Commit(t)
             \/ DrainCommit(t) \/ DrainLeak(t)
    <3>1. UNCHANGED <<buffer, dropped, out>>
      BY <2>7 DEF Push, Extend, Publish, Pop, PopCasOk, PopCasFail, Steal, DrainCall,
                  LoadWord, LoadHead, LoadPush, BookOk, BookFail, PublishDest, Commit,
                  DrainCommit, DrainLeak, queueVars, itemVars
    <3> QED
      BY <3>1 DEF ItemTypes
  <2> QED
    BY <1>2, <2>2, <2>3, <2>4, <2>5, <2>6, <2>7 DEF Step
<1> QED
  BY <1>1, <1>2 DEF Next

-----------------------------------------------------------------------------
(* The results. *)

(* Every variable keeps its type; in particular no count, position or free  *)
(* capacity the code computes in wrap-around arithmetic goes below zero.    *)
THEOREM TypesAreKept == Spec => []TypeOK
<1>1. PositionInv /\ ItemTypes => TypeOK
  BY DEF PositionInv, CounterTypes, ItemTypes, BufferShape, Content, TypeOK
<1> QED
  BY <1>1, InitPositionInv, NextPositionInv, InitItemTypes, NextItemTypes, PTL DEF Spec

(* The positions stay ordered and the occupied slots within the capacity,   *)
(* whatever push, pop, steal, steal_and_pop and drain do concurrently.      *)
THEOREM PositionsStayOrdered == Spec => []PositionsOrdered
<1>1. ASSUME PositionInv, NEW q \in Workers
      PROVE  head[q] <= next_head[q] /\ next_head[q] <= TailOf(q)
             /\ TailOf(q) <= head[q] + Capacity[q]
  <2>1. /\ push_count[q] \in Nat /\ pop_count[q] \in Nat /\ next_head[q] \in Nat
        /\ head[q] \in Nat /\ Capacity[q] \in Nat
    BY <1>1, CapacityFacts DEF PositionInv, CounterTypes
  <2>2. Ordered(q)
    BY <1>1 DEF PositionInv
  <2> QED
    BY <2>1, <2>2 DEF Ordered, TailOf
<1>2. PositionInv => PositionsOrdered
  BY <1>1 DEF PositionsOrdered
<1> QED
  BY <1>2, InitPositionInv, NextPositionInv, PTL DEF Spec

(* book_items lets a single steal or drain onto a queue, and the two heads  *)
(* of the queue differ exactly while one is there.                          *)
THEOREM OneThiefAtATime == Spec => []OneThief
<1>1. PositionInv => OneThief
  <2> SUFFICES ASSUME PositionInv, NEW q \in Workers
               PROVE  LET thieves == {t \in Workers : Stealing(t) /\ victim[t] = q}
                      IN  /\ \A t, u \in thieves : t = u
                          /\ thieves # {} => draining[q] = "no"
                          /\ head[q] # next_head[q] <=> thieves # {} \/ draining[q] # "no"
    BY DEF OneThief
  <2> DEFINE thieves == {t \in Workers : Stealing(t) /\ victim[t] = q}
  <2>1. \A t, u \in thieves : t = u
    BY DEF PositionInv, Alone
  <2>2. ASSUME NEW t \in thieves PROVE draining[q] = "no" /\ head[q] # next_head[q]
    <3>1. /\ head[q] = seen_head[t] /\ next_head[q] = seen_head[t] + count[t]
          /\ count[t] >= 1 /\ draining[q] = "no"
      BY DEF PositionInv, Holds
    <3>2. count[t] \in Nat /\ seen_head[t] \in Nat
      BY DEF PositionInv, CounterTypes
    <3> QED
      BY <3>1, <3>2
  <2>3. draining[q] # "no" => head[q] # next_head[q]
    <3>1. head[q] \in Nat /\ next_head[q] \in Nat
      BY DEF PositionInv, CounterTypes
    <3>2. draining[q] # "no" => head[q] < drain_end[q] /\ drain_end[q] = next_head[q]
      BY DEF PositionInv, DrainHolds
    <3> QED
      BY <3>1, <3>2
  <2>4. head[q] # next_head[q] => thieves # {} \/ draining[q] # "no"
    BY DEF PositionInv, NoOrphan
  <2> HIDE DEF thieves
  <2>5. thieves # {} => draining[q] = "no" /\ head[q] # next_head[q]
    BY <2>2
  <2> QED
    BY <2>1, <2>3, <2>4, <2>5 DEF thieves
<1> QED
  BY <1>1, InitPositionInv, NextPositionInv, PTL DEF Spec

(* steal and drain answer Empty only when the queue is empty, although they *)
(* loaded the three counters one after the other.                           *)
THEOREM EmptyAnswersAreTrue == Spec => EmptyIsTrue
<1>1. ASSUME PositionInv, NEW t \in Workers, pc[t] = "load_push", ItemCount(t) = 0
      PROVE  next_head[victim[t]] = TailOf(victim[t])
  <2> DEFINE v == victim[t]
  <2>1. /\ push_count[v] \in Nat /\ pop_count[v] \in Nat /\ next_head[v] \in Nat
        /\ seen_pop[t] \in Nat /\ seen_head[t] \in Nat
    BY <1>1 DEF PositionInv, CounterTypes
  <2>2. /\ next_head[v] + pop_count[v] <= push_count[v]
        /\ seen_pop[t] <= pop_count[v] /\ seen_head[t] <= next_head[v]
    BY <1>1 DEF PositionInv, CounterTypes, Ordered, ThiefSaw, Booking
  <2>3. push_count[v] - seen_pop[t] - seen_head[t] = 0
    BY <1>1, ItemCountExact
  <2> HIDE DEF v
  <2>4. next_head[v] = push_count[v] - pop_count[v]
    BY <2>1, <2>2, <2>3
  <2> QED
    BY <2>4 DEF TailOf, v
<1>2. PositionInv /\ [Next]_vars
        => [\A t \in Workers :
               pc[t] = "load_push" /\ pc'[t] = "idle" /\ ItemCount(t) = 0
                 => next_head[victim[t]] = TailOf(victim[t])]_vars
  BY <1>1
<1> QED
  BY <1>2, InitPositionInv, NextPositionInv, PTL DEF Spec, EmptyIsTrue

(* pop gives up only when a thief has booked every item: the tail it loaded *)
(* at its start is still the tail when its compare-exchange is retried.     *)
THEOREM PopGivesUpOnlyOnEmpty == Spec => PopFailsOnlyEmpty
<1>1. ASSUME PositionInv, [Next]_vars, NEW t \in Workers,
             pc[t] = "pop_cas", pc'[t] = "idle"
      PROVE  Short(my_tail[t]) = Short(next_head[t])
  <2>1. PICK u \in Workers : Step(u)
    BY <1>1 DEF Next, vars, threadVars
  <2>2. PopCasFail(t)
    <3> USE DEF Goto, PositionInv, CounterTypes, Call, Return, PopTest, threadVars
    <3>1. CASE u # t
      <4>1. CASE \/ Push(u) \/ (\E n \in 0 .. MaxCreated : Extend(u, n)) \/ Write(u) \/ Publish(u)
                 \/ Pop(u) \/ PopCasOk(u) \/ PopCasFail(u) \/ PopRead(u)
        BY <1>1, <3>1, <4>1
           DEF Push, Extend, Write, Publish, Pop, PopCasOk, PopCasFail, PopRead
      <4>2. CASE \/ (\E v \in Workers, name \in OpNames : Steal(u, v, name)) \/ DrainCall(u)
                 \/ LoadWord(u) \/ LoadHead(u) \/ (\E n \in 0 .. Modulus - 1 : LoadPush(u, n))
                 \/ BookOk(u) \/ BookFail(u)
        BY <1>1, <3>1, <4>2
           DEF Steal, DrainCall, LoadWord, LoadHead, LoadPush, BookOk, BookFail
      <4>3. CASE \/ Copy(u) \/ PublishDest(u) \/ Commit(u)
                 \/ DrainNext(u) \/ DrainCommit(u) \/ DrainLeak(u) \/ Drop(u)
        BY <1>1, <3>1, <4>3
           DEF Copy, PublishDest, Commit, DrainNext, DrainCommit, DrainLeak, Drop
      <4> QED
        BY <2>1, <4>1, <4>2, <4>3 DEF Step
    <3>2. CASE u = t
      BY <1>1, <2>1, <3>2
         DEF Step, Push, Extend, Write, Publish, Pop, PopCasOk, PopRead, Steal,
             DrainCall, LoadWord, LoadHead, LoadPush, BookOk, BookFail, Copy, PublishDest,
             Commit, DrainNext, DrainCommit, DrainLeak, Drop
    <3> QED
      BY <3>1, <3>2
  <2> QED
    BY <1>1, <2>2 DEF PopCasFail, PopTest, Goto, PositionInv, CounterTypes
<1>2. ASSUME PositionInv, NEW t \in Workers, pc[t] = "pop_cas",
             Short(my_tail[t]) = Short(next_head[t])
      PROVE  next_head[t] = TailOf(t)
  <2>1. /\ push_count[t] \in Nat /\ pop_count[t] \in Nat /\ next_head[t] \in Nat
        /\ head[t] \in Nat /\ my_tail[t] \in Nat
        /\ Capacity[t] \in Nat /\ Capacity[t] < Modulus /\ Modulus \in Nat
    BY <1>2, CapacityFacts, CapacityAssumption DEF PositionInv, CounterTypes
  <2>2. Ordered(t) /\ my_tail[t] + pop_count[t] = push_count[t]
    BY <1>2 DEF PositionInv, KnowsTail
  <2>3. next_head[t] <= my_tail[t] /\ my_tail[t] - next_head[t] < Modulus
    BY <2>1, <2>2 DEF Ordered
  <2>4. my_tail[t] = next_head[t]
    BY <1>2, <2>1, <2>3, ShortEqual
  <2> QED
    BY <2>1, <2>2, <2>4 DEF TailOf
<1>3. PositionInv /\ [Next]_vars
        => [\A t \in Workers :
               pc[t] = "pop_cas" /\ pc'[t] = "idle" => next_head[t] = TailOf(t)]_vars
  BY <1>1, <1>2
<1> QED
  BY <1>3, InitPositionInv, NextPositionInv, PTL DEF Spec, PopFailsOnlyEmpty

(* A leaked Drain holds its slots for ever: no booking succeeds on a queue  *)
(* whose two heads differ, and no thief is left to bring them together.     *)
THEOREM LeakedDrainStaysBusy == Spec => LeakedStaysBusy
<1>1. ASSUME PositionInv, Next, NEW q \in Workers, draining[q] = "leaked"
      PROVE  draining'[q] = "leaked" /\ next_head'[q] = next_head[q] /\ head'[q] = head[q]
  <2>1. PICK t \in Workers : Step(t)
    BY <1>1 DEF Next
  <2>2. head[q] # next_head[q]
    <3>1. head[q] \in Nat /\ next_head[q] \in Nat
      BY <1>1 DEF PositionInv, CounterTypes
    <3>2. head[q] < next_head[q]
      BY <1>1 DEF PositionInv, DrainHolds
    <3> QED
      BY <3>1, <3>2
  <2> USE DEF Step, queueVars, wordVars, drainVars
  <2>3. CASE PopCasOk(t)
    <3>1. next_head[t] = seen_head[t]
      BY <1>1, <2>3, PopCasExact DEF PopCasOk
    <3> QED
      BY <1>1, <2>3, <3>1 DEF PopCasOk, PositionInv, CounterTypes
  <2>4. CASE BookOk(t)
    <3>1. next_head[victim[t]] = seen_head[t] /\ head[victim[t]] = seen_head[t]
      BY <1>1, <2>4, BookExact DEF BookOk
    <3>2. victim[t] # q
      BY <2>2, <3>1
    <3>3. op[t] = "drain" => t # q
      BY <1>1, <2>4, <3>2 DEF BookOk, PositionInv, ThiefSaw, Looking
    <3> QED
      BY <1>1, <2>4, <3>2, <3>3 DEF BookOk, PositionInv, CounterTypes
  <2>5. CASE Commit(t)
    <3>1. victim[t] # q
      BY <1>1, <2>5 DEF Commit, PositionInv, Holds, Stealing
    <3> QED
      BY <1>1, <2>5, <3>1 DEF Commit, PositionInv, CounterTypes
  <2>6. CASE DrainCommit(t) \/ DrainLeak(t) \/ DrainNext(t) \/ Drop(t)
    BY <1>1, <2>6 DEF DrainCommit, DrainLeak, DrainNext, Drop, PositionInv, CounterTypes
  <2>7. CASE \/ Push(t) \/ (\E n \in 0 .. MaxCreated : Extend(t, n)) \/ Write(t) \/ Publish(t)
             \/ Pop(t) \/ PopCasFail(t) \/ PopRead(t)
             \/ (\E v \in Workers, name \in OpNames : Steal(t, v, name)) \/ DrainCall(t)
             \/ LoadWord(t) \/ LoadHead(t) \/ (\E n \in 0 .. Modulus - 1 : LoadPush(t, n))
             \/ BookFail(t) \/ Copy(t) \/ PublishDest(t)
    BY <1>1, <2>7
       DEF Push, Extend, Write, Publish, Pop, PopCasFail, PopRead, Steal, DrainCall,
           LoadWord, LoadHead, LoadPush, BookFail, Copy, PublishDest
  <2> QED
    BY <2>1, <2>3, <2>4, <2>5, <2>6, <2>7
<1>2. PositionInv /\ [Next]_vars
        => [\A q \in Workers :
               draining[q] = "leaked" =>
                   /\ draining'[q] = "leaked"
                   /\ next_head'[q] = next_head[q]
                   /\ head'[q] = head[q]]_vars
  BY <1>1
<1> QED
  BY <1>2, InitPositionInv, NextPositionInv, PTL DEF Spec, LeakedStaysBusy

-----------------------------------------------------------------------------
(* Which slots hold an item.  A position of q is live when its slot does:   *)
(* its item can still be popped or booked, is claimed by the pop of the     *)
(* owner, is written but not published, or is booked by a thief or a Drain  *)
(* that has not moved it out yet.                                           *)
BookedAt(q, p) ==
    \E t \in Workers :
        /\ pc[t] = "copy" /\ victim[t] = q
        /\ seen_head[t] <= p /\ p < seen_head[t] + count[t]

OwnAt(q, p) ==
    \/ pc[q] = "pop_read" /\ p = my_tail[q] - 1
    \/ pc[q] = "publish" /\ my_tail[q] <= p /\ p < my_tail[q] + count[q]
    \/ pc[q] = "publish_dest" /\ my_tail[q] <= p /\ p < my_tail[q] + TransferCount(q)

LiveAt(q, p) ==
    \/ q \notin dropped /\ next_head[q] <= p /\ p < TailOf(q)
    \/ OwnAt(q, p)
    \/ q \notin dropped /\ draining[q] # "no" /\ drain_current[q] <= p /\ p < drain_end[q]
    \/ BookedAt(q, p)

Window(q) == head[q] .. head[q] + Capacity[q] - 1

Live(q) == {p \in Window(q) : LiveAt(q, p)}

SlotsLive == \A q \in Workers : Occupied(buffer, q) = SlotsAt(q, Live(q))

(* No thread and no Drain works on a queue whose last handle is gone. *)
GoneIsQuiet ==
    \A q \in dropped :
        /\ pc[q] = "idle"
        /\ draining[q] # "active"
        /\ \A t \in Workers : pc[t] # "idle" => victim[t] # q

SlotInv == GoneIsQuiet /\ SlotsLive

(* Live positions lie in a window of one capacity: their slots differ. *)
LiveNear == \A q \in Workers : \A p \in Int : LiveAt(q, p) => p \in Window(q)

(* PositionInv says so ... *)
LEMMA LiveInWindow == PositionInv => LiveNear
<1> SUFFICES ASSUME PositionInv, NEW q \in Workers, NEW p \in Int, LiveAt(q, p)
             PROVE  p \in Window(q)
  BY DEF LiveNear
<1>1. /\ push_count[q] \in Nat /\ pop_count[q] \in Nat /\ next_head[q] \in Nat
      /\ head[q] \in Nat /\ Capacity[q] \in Nat /\ my_tail[q] \in Nat /\ count[q] \in Nat
      /\ drain_current[q] \in Nat /\ drain_end[q] \in Nat
  BY CapacityFacts DEF PositionInv, CounterTypes
<1>2. Ordered(q) /\ KnowsTail(q) /\ PopSaw(q) /\ DrainHolds(q)
  BY DEF PositionInv
<1>3. CASE next_head[q] <= p /\ p < TailOf(q)
  BY ONLY <1>1, <1>2, <1>3, p \in Int DEF Ordered, TailOf, Window
<1>4. CASE pc[q] = "pop_read" /\ p = my_tail[q] - 1
  BY ONLY <1>1, <1>2, <1>4, p \in Int DEF Ordered, PopSaw, Window
<1>5. CASE pc[q] = "publish" /\ my_tail[q] <= p /\ p < my_tail[q] + count[q]
  BY ONLY <1>1, <1>2, <1>5, p \in Int DEF Ordered, KnowsTail, Window
<1>6. CASE pc[q] = "publish_dest" /\ my_tail[q] <= p /\ p < my_tail[q] + TransferCount(q)
  <2>1. TransferCount(q) \in Int
    BY <1>1 DEF TransferCount
  <2> QED
    BY ONLY <1>1, <1>2, <1>6, <2>1, p \in Int DEF Ordered, KnowsTail, Window
<1>7. CASE draining[q] # "no" /\ drain_current[q] <= p /\ p < drain_end[q]
  BY ONLY <1>1, <1>2, <1>7, p \in Int DEF Ordered, DrainHolds, Window
<1>8. CASE BookedAt(q, p)
  <2>1. PICK t \in Workers : /\ pc[t] = "copy" /\ victim[t] = q
                             /\ seen_head[t] <= p /\ p < seen_head[t] + count[t]
    BY <1>8 DEF BookedAt
  <2>2. Holds(t) /\ Stealing(t)
    BY <2>1 DEF PositionInv, Stealing
  <2>3. head[q] = seen_head[t] /\ next_head[q] = seen_head[t] + count[t]
    BY ONLY <2>1, <2>2 DEF Holds
  <2> QED
    BY ONLY <1>1, <1>2, <2>1, <2>3, p \in Int DEF Ordered, Window
<1> QED
  BY <1>3, <1>4, <1>5, <1>6, <1>7, <1>8 DEF LiveAt, OwnAt

(* ... before and after a step. *)
LEMMA LiveInNextWindow == PositionInv' => LiveNear'
  BY LiveInWindow, PTL

(* A booking of q lies between its two heads, below everything its owner    *)
(* works on.                                                                *)
LEMMA BookedBelow ==
    ASSUME PositionInv, NEW q \in Workers, NEW p \in Int, BookedAt(q, p)
    PROVE  head[q] <= p /\ p < next_head[q] /\ draining[q] = "no"
<1>1. PICK t \in Workers : /\ pc[t] = "copy" /\ victim[t] = q
                           /\ seen_head[t] <= p /\ p < seen_head[t] + count[t]
  BY DEF BookedAt
<1>2. Holds(t) /\ Stealing(t)
  BY <1>1 DEF PositionInv, Stealing
<1> QED
  BY ONLY <1>1, <1>2 DEF Holds

(* A step that moves items out of the live positions gone and into the      *)
(* vacant positions new keeps the correspondence.                           *)
LEMMA SlotsFollow ==
    ASSUME PositionInv, PositionInv', SlotsLive, NEW q \in Workers, head'[q] = head[q],
           NEW gone \in SUBSET Window(q), NEW new \in SUBSET Window(q),
           Occupied(buffer', q) = (Occupied(buffer, q) \ SlotsAt(q, gone)) \cup SlotsAt(q, new),
           \A p \in Int : LiveAt(q, p)' <=> (LiveAt(q, p) /\ p \notin gone) \/ p \in new
    PROVE  Occupied(buffer, q)' = SlotsAt(q, Live(q))'
<1>1. Window(q)' = Window(q) /\ Window(q) \subseteq Int /\ head[q] \in Int
  BY CapacityFacts DEF Window, PositionInv, CounterTypes
<1>2. Live(q)' = {p \in Window(q)' : LiveAt(q, p)'}
  BY DEF Live
<1>3. Live(q)' = (Live(q) \ gone) \cup new
  BY ONLY <1>1, <1>2, new \in SUBSET Window(q),
     \A p \in Int : LiveAt(q, p)' <=> (LiveAt(q, p) /\ p \notin gone) \/ p \in new
     DEF Live
<1>4. Live(q) \subseteq Window(q)
  BY DEF Live
<1>5. SlotsAt(q, (Live(q) \ gone) \cup new)
        = (SlotsAt(q, Live(q)) \ SlotsAt(q, gone)) \cup SlotsAt(q, new)
  <2>1. SlotsAt(q, Live(q) \ gone) = SlotsAt(q, Live(q)) \ SlotsAt(q, gone)
    <3>1. Near(q, Window(q))
      BY ONLY <1>1, WindowIsNear, q \in Workers DEF Window
    <3>2. Live(q) \in SUBSET Window(q)
      BY ONLY <1>4
    <3> QED
      BY ONLY <3>1, <3>2, SlotsMinus, q \in Workers, gone \in SUBSET Window(q)
  <2>2. SlotsAt(q, (Live(q) \ gone) \cup new) = SlotsAt(q, Live(q) \ gone) \cup SlotsAt(q, new)
    BY ONLY DEF SlotsAt
  <2> QED
    BY ONLY <2>1, <2>2
<1>6. Occupied(buffer, q) = SlotsAt(q, Live(q))
  BY DEF SlotsLive
<1>7. SlotsAt(q, Live(q))' = SlotsAt(q, Live(q)')
  BY DEF SlotsAt
<1>8. Occupied(buffer, q)' = Occupied(buffer', q)
  BY DEF Occupied
<1> QED
  BY ONLY <1>3, <1>5, <1>6, <1>7, <1>8,
     Occupied(buffer', q) = (Occupied(buffer, q) \ SlotsAt(q, gone)) \cup SlotsAt(q, new)

(* A step that touches no slot and makes no position live or dead does too, *)
(* even when the head moves.                                                *)
LEMMA SlotsStay ==
    ASSUME PositionInv, PositionInv', SlotsLive, NEW q \in Workers, buffer' = buffer,
           \A p \in Int : LiveAt(q, p)' <=> LiveAt(q, p)
    PROVE  Occupied(buffer, q)' = SlotsAt(q, Live(q))'
<1>1. head[q] \in Int /\ head'[q] \in Int /\ Capacity[q] \in Int
  BY CapacityFacts DEF PositionInv, CounterTypes
<1>2. \A p : p \in Live(q) <=> p \in Int /\ LiveAt(q, p)
  BY <1>1, LiveInWindow DEF LiveNear, Live, Window
<1>3. \A p \in Int : LiveAt(q, p)' => p \in Window(q)'
  BY LiveInNextWindow DEF LiveNear
<1>4. \A p : p \in Live(q)' <=> p \in Int /\ LiveAt(q, p)'
  <2>1. Live(q)' = {p \in Window(q)' : LiveAt(q, p)'}
    BY DEF Live
  <2>2. Window(q)' \subseteq Int
    BY <1>1 DEF Window
  <2> QED
    BY ONLY <1>3, <2>1, <2>2
<1>5. Live(q)' = Live(q)
  BY ONLY <1>2, <1>4, \A p \in Int : LiveAt(q, p)' <=> LiveAt(q, p)
<1>6. SlotsAt(q, Live(q))' = SlotsAt(q, Live(q)')
  BY DEF SlotsAt
<1>7. Occupied(buffer, q)' = Occupied(buffer, q)
  BY DEF Occupied
<1> QED
  BY ONLY <1>5, <1>6, <1>7, SlotsLive, q \in Workers DEF SlotsLive

Active == {"pop_read", "publish", "publish_dest", "copy"}

\* The locals of the threads other than t that matter here do not change.
OthersKeep(t) ==
    \A u \in Workers \ {t} :
        /\ pc'[u] = pc[u] /\ op'[u] = op[u] /\ victim'[u] = victim[u]
        /\ my_tail'[u] = my_tail[u] /\ seen_head'[u] = seen_head[u] /\ count'[u] = count[u]
        /\ carried'[u] = carried[u]

(* A step of t changes no local variable of another thread. *)
LEMMA StepOthers ==
    ASSUME PositionInv, NEW t \in Workers, Step(t)
    PROVE  OthersKeep(t)
<1> USE DEF OthersKeep, PositionInv, CounterTypes, Goto, localVars, threadVars
<1>1. CASE Push(t) \/ \E n \in 0 .. MaxCreated : Extend(t, n)
  BY <1>1 DEF Push, Extend, Call, LoadOwnTail, Carry, seenVars
<1>6. CASE Write(t)
  <2>1. /\ pc' = [pc EXCEPT ![t] = "publish"] /\ UNCHANGED localVars
    BY <1>6 DEF Write
  <2> QED
    BY <2>1
<1>7. CASE Publish(t)
  BY <1>7 DEF Publish, Return
<1>2. CASE Pop(t) \/ PopCasOk(t) \/ PopCasFail(t) \/ PopRead(t)
  BY <1>2 DEF Pop, PopCasOk, PopCasFail, PopRead, Call, Return, LoadOwnTail, PopTest
<1>3. CASE \/ (\E v \in Workers, name \in OpNames : Steal(t, v, name)) \/ DrainCall(t)
           \/ LoadWord(t) \/ LoadHead(t) \/ (\E n \in 0 .. Modulus - 1 : LoadPush(t, n))
  BY <1>3 DEF Steal, DrainCall, LoadWord, LoadHead, LoadPush, Call, Return, LoadOwnTail, seenVars
<1>4. CASE BookOk(t) \/ BookFail(t) \/ Copy(t) \/ PublishDest(t) \/ Commit(t)
  BY <1>4 DEF BookOk, BookFail, Copy, PublishDest, Commit, Return
<1>5. CASE DrainNext(t) \/ DrainCommit(t) \/ DrainLeak(t) \/ Drop(t)
  BY <1>5 DEF DrainNext, DrainCommit, DrainLeak, Drop
<1> QED
  BY <1>1, <1>2, <1>3, <1>4, <1>5, <1>6, <1>7 DEF Step

(* Bookings do not depend on a thread that copies neither before nor after. *)
LEMMA BookedStays ==
    ASSUME NEW t \in Workers, OthersKeep(t), pc[t] # "copy", pc'[t] # "copy",
           NEW q \in Workers, NEW p \in Int
    PROVE  BookedAt(q, p)' <=> BookedAt(q, p)
BY DEF OthersKeep, BookedAt

(* A step of a thread that holds no slot before or after it.  *)
LEMMA QuietStep ==
    ASSUME PositionInv, PositionInv', SlotsLive, NEW t \in Workers, OthersKeep(t),
           pc[t] \notin Active, pc'[t] \notin Active,
           UNCHANGED <<push_count, pop_count, next_head, buffer, dropped,
                       drain_current, drain_end>>,
           \A q \in Workers : draining'[q] = "no" <=> draining[q] = "no"
    PROVE  SlotsLive'
<1>1. ASSUME NEW q \in Workers, NEW p \in Int PROVE LiveAt(q, p)' <=> LiveAt(q, p)
  <2>1. BookedAt(q, p)' <=> BookedAt(q, p)
    BY BookedStays DEF Active
  <2>2. TailOf(q)' = TailOf(q)
    BY DEF TailOf
  <2>3. CASE q = t
    BY <2>1, <2>2, <2>3 DEF LiveAt, OwnAt, Active
  <2>4. CASE q # t
    BY <2>1, <2>2, <2>4 DEF LiveAt, OwnAt, OthersKeep, TransferCount
  <2> QED
    BY <2>3, <2>4
<1> QED
  BY <1>1, SlotsStay DEF SlotsLive

(* Initially no queue is gone and no slot holds an item. *)
LEMMA InitSlotInv == Init => SlotInv
<1> SUFFICES ASSUME Init PROVE SlotInv
  OBVIOUS
<1>1. GoneIsQuiet
  BY DEF Init, GoneIsQuiet
<1>2. ASSUME NEW q \in Workers PROVE Occupied(buffer, q) = SlotsAt(q, Live(q))
  <2>1. Occupied(buffer, q) = {}
    BY DEF Init, EmptyBuffers, Occupied
  <2>2. ASSUME NEW p \in Int PROVE ~ LiveAt(q, p)
    <3>1. TailOf(q) = next_head[q] /\ next_head[q] \in Int
      <4>1. PICK s \in [Workers -> Starts] :
               /\ pop_count = [r \in Workers |-> s[r][1]]
               /\ head = [r \in Workers |-> s[r][2]]
               /\ next_head = head
               /\ push_count = [r \in Workers |-> s[r][1] + s[r][2]]
        BY DEF Init
      <4>2. s[q] \in Nat \X Nat
        BY ClientAssumption
      <4>3. s[q][1] \in Nat /\ s[q][2] \in Nat
        BY <4>2
      <4> QED
        BY <4>1, <4>3 DEF TailOf
    <3>2. ~ BookedAt(q, p)
      BY DEF Init, BookedAt
    <3>3. pc[q] = "idle" /\ draining[q] = "no"
      BY DEF Init
    <3> QED
      BY <3>1, <3>2, <3>3 DEF LiveAt, OwnAt
  <2>3. Window(q) \subseteq Int
    <3>1. head[q] \in Int /\ Capacity[q] \in Int
      BY InitPositionInv, CapacityFacts DEF PositionInv, CounterTypes
    <3> QED
      BY <3>1 DEF Window
  <2>4. Live(q) = {}
    BY ONLY <2>2, <2>3 DEF Live
  <2> QED
    BY ONLY <2>1, <2>4 DEF SlotsAt
<1> QED
  BY <1>1, <1>2 DEF SlotInv, SlotsLive

(* A thread that is in a call got its handles before, or finds them alive. *)
LEMMA GoneStays ==
    ASSUME GoneIsQuiet, NEW t \in Workers, OthersKeep(t), dropped' = dropped,
           dropped \subseteq Workers,
           pc'[t] = "idle" \/ (t \notin dropped /\ victim'[t] \notin dropped),
           \A q \in Workers : draining'[q] = "active" =>
              draining[q] = "active" \/ (q = t /\ t \notin dropped)
    PROVE  GoneIsQuiet'
BY DEF GoneIsQuiet, OthersKeep

(* A handle in use, or a Drain, keeps its queue alive. *)
LEMMA NextGone == PositionInv /\ ItemTypes /\ GoneIsQuiet /\ [Next]_vars => GoneIsQuiet'
<1> SUFFICES ASSUME PositionInv, ItemTypes, GoneIsQuiet, [Next]_vars PROVE GoneIsQuiet'
  OBVIOUS
<1> USE DEF Goto, queueVars, wordVars, localVars, threadVars, drainVars
<1>1. CASE UNCHANGED vars
  BY <1>1 DEF vars, GoneIsQuiet
<1>2. ASSUME NEW t \in Workers, Step(t) PROVE GoneIsQuiet'
  <2>0. /\ OthersKeep(t) /\ dropped \subseteq Workers /\ t \in DOMAIN pc
        /\ pc \in [Workers -> {"idle", "write", "publish", "pop_cas", "pop_read",
                               "load_word", "load_head", "load_push", "book",
                               "copy", "publish_dest", "commit"}]
        /\ victim \in [Workers -> Workers]
        /\ draining \in [Workers -> {"no", "active", "leaked"}]
    BY <1>2, StepOthers DEF ItemTypes, PositionInv, CounterTypes
  <2>1. pc[t] # "idle" => t \notin dropped /\ victim[t] \notin dropped
    BY DEF GoneIsQuiet
  <2>2. CASE Push(t) \/ (\E n \in 0 .. MaxCreated : Extend(t, n)) \/ Pop(t) \/ DrainCall(t)
             \/ (\E v \in Workers, name \in OpNames : Steal(t, v, name))
    <3>1. /\ dropped' = dropped /\ draining' = draining
          /\ t \notin dropped /\ victim'[t] \notin dropped
      BY <2>0, <2>2 DEF Push, Extend, Pop, DrainCall, Steal, Call
    <3> QED
      BY ONLY <2>0, <3>1, GoneIsQuiet, GoneStays, t \in Workers
  <2>3. CASE \/ Write(t) \/ Publish(t) \/ PopCasOk(t) \/ PopCasFail(t) \/ PopRead(t)
             \/ LoadWord(t) \/ LoadHead(t) \/ (\E n \in 0 .. Modulus - 1 : LoadPush(t, n))
             \/ BookFail(t) \/ Copy(t) \/ PublishDest(t) \/ Commit(t)
    <3>1. /\ dropped' = dropped /\ draining' = draining /\ pc[t] # "idle"
          /\ pc'[t] = "idle" \/ victim'[t] = victim[t]
      BY <2>0, <2>3 DEF Write, Publish, PopCasOk, PopCasFail, PopRead, PopTest, LoadWord,
         LoadHead, LoadPush, BookFail, Copy, PublishDest, Commit, Return
    <3> QED
      BY ONLY <2>0, <2>1, <3>1, GoneIsQuiet, GoneStays, t \in Workers
  <2>4. CASE BookOk(t)
    <3>1. /\ dropped' = dropped /\ pc[t] # "idle"
          /\ pc'[t] = "idle" \/ victim'[t] = victim[t]
          /\ \A q \in Workers : draining'[q] = "active" => draining[q] = "active" \/ q = t
      BY <2>0, <2>4 DEF BookOk, Return
    <3> QED
      BY ONLY <2>0, <2>1, <3>1, GoneIsQuiet, GoneStays, t \in Workers
  <2>5. CASE DrainNext(t) \/ DrainCommit(t) \/ DrainLeak(t)
    <3>1. /\ dropped' = dropped /\ pc' = pc /\ victim' = victim
          /\ \A q \in Workers : draining'[q] = "active" => draining[q] = "active"
      BY <2>0, <2>5 DEF DrainNext, DrainCommit, DrainLeak
    <3> QED
      BY ONLY <2>0, <2>1, <3>1, GoneIsQuiet, GoneStays, t \in Workers
  <2>6. CASE Drop(t)
    BY <2>0, <2>6 DEF Drop, GoneIsQuiet
  <2> QED
    BY <1>2, <2>2, <2>3, <2>4, <2>5, <2>6 DEF Step
<1> QED
  BY <1>1, <1>2 DEF Next

(* A queue whose counters, Drain and bookings stay, and whose owner is not   *)
(* the thread that moves.                                                    *)
LEMMA OtherQueue ==
    ASSUME NEW t \in Workers, OthersKeep(t), NEW q \in Workers \ {t}, NEW p \in Int,
           next_head'[q] = next_head[q], TailOf(q)' = TailOf(q),
           q \in dropped' <=> q \in dropped,
           draining'[q] = draining[q], drain_current'[q] = drain_current[q],
           drain_end'[q] = drain_end[q],
           BookedAt(q, p)' <=> BookedAt(q, p)
    PROVE  LiveAt(q, p)' <=> LiveAt(q, p)
BY DEF LiveAt, OwnAt, OthersKeep, TransferCount

(* What the owner of a queue and a thief hold of it, from the invariant. *)
LEMMA Numbers ==
    ASSUME PositionInv, NEW t \in Workers
    PROVE  /\ push_count[t] \in Nat /\ pop_count[t] \in Nat /\ next_head[t] \in Nat
           /\ head[t] \in Nat /\ Capacity[t] \in Nat /\ my_push[t] \in Nat
           /\ my_tail[t] \in Nat /\ count[t] \in Nat /\ seen_pop[t] \in Nat
           /\ seen_head[t] \in Nat /\ drain_current[t] \in Nat /\ drain_end[t] \in Nat
           /\ carried[t] \in Nat /\ victim[t] \in Workers
           /\ head[t] <= next_head[t] /\ next_head[t] <= TailOf(t)
           /\ TailOf(t) <= head[t] + Capacity[t] /\ TailOf(t) \in Nat
           /\ TransferCount(t) \in Int
<1>1. /\ push_count[t] \in Nat /\ pop_count[t] \in Nat /\ next_head[t] \in Nat
      /\ head[t] \in Nat /\ Capacity[t] \in Nat /\ my_push[t] \in Nat
      /\ my_tail[t] \in Nat /\ count[t] \in Nat /\ seen_pop[t] \in Nat
      /\ seen_head[t] \in Nat /\ drain_current[t] \in Nat /\ drain_end[t] \in Nat
      /\ carried[t] \in Nat /\ victim[t] \in Workers
  BY CapacityFacts DEF PositionInv, CounterTypes
<1>2. Ordered(t)
  BY DEF PositionInv
<1> QED
  BY ONLY <1>1, <1>2 DEF Ordered, TailOf, TransferCount

(* A thief books at least one item. *)
LEMMA Transferred ==
    ASSUME PositionInv, NEW t \in Workers, Stealing(t)
    PROVE  TransferCount(t) \in 0 .. count[t]
<1>1. count[t] \in Nat /\ count[t] >= 1
  BY DEF PositionInv, CounterTypes, Holds
<1> QED
  BY <1>1 DEF TransferCount

(* The release store of push_count publishes what was written. *)
LEMMA PublishSlots ==
    ASSUME PositionInv, PositionInv', SlotInv, NEW t \in Workers, Publish(t)
    PROVE  SlotsLive'
<1>1. /\ pc[t] = "publish" /\ pc'[t] = "idle"
      /\ push_count' = [push_count EXCEPT ![t] = my_push[t] + count[t]]
      /\ UNCHANGED <<pop_count, next_head, head, buffer, dropped, drainVars>>
  BY DEF Publish, Return, Goto, PositionInv, CounterTypes, wordVars
<1>2. OthersKeep(t)
  BY StepOthers DEF Step
<1>3. t \notin dropped
  BY <1>1 DEF SlotInv, GoneIsQuiet
<1>4. my_push[t] = push_count[t] /\ my_tail[t] = TailOf(t)
  <2>1. my_push[t] = push_count[t] /\ my_tail[t] + pop_count[t] = push_count[t]
    BY <1>1 DEF PositionInv, KnowsTail
  <2> QED
    BY <2>1, Numbers DEF TailOf
<1>5. /\ TailOf(t)' = TailOf(t) + count[t]
      /\ \A q \in Workers \ {t} : TailOf(q)' = TailOf(q)
  BY <1>1, <1>4, Numbers DEF TailOf, PositionInv, CounterTypes
<1>6. ASSUME NEW q \in Workers, NEW p \in Int PROVE LiveAt(q, p)' <=> LiveAt(q, p)
  <2>1. BookedAt(q, p)' <=> BookedAt(q, p)
    BY <1>1, <1>2, BookedStays
  <2>2. CASE q # t
    BY <1>1, <1>2, <1>5, <2>1, <2>2, OtherQueue DEF drainVars
  <2>3. CASE q = t
    <3>1. /\ TailOf(t) \in Int /\ next_head[t] \in Int /\ next_head[t] <= TailOf(t)
          /\ count[t] \in Nat
      BY Numbers
    <3>2. /\ LiveAt(t, p) <=> \/ next_head[t] <= p /\ p < TailOf(t)
                              \/ TailOf(t) <= p /\ p < TailOf(t) + count[t]
                              \/ draining[t] # "no" /\ drain_current[t] <= p /\ p < drain_end[t]
                              \/ BookedAt(t, p)
      BY <1>1, <1>3, <1>4 DEF LiveAt, OwnAt
    <3>3. /\ LiveAt(t, p)' <=> \/ next_head[t] <= p /\ p < TailOf(t) + count[t]
                               \/ draining[t] # "no" /\ drain_current[t] <= p /\ p < drain_end[t]
                               \/ BookedAt(t, p)
      BY <1>1, <1>3, <1>5, <2>1, <2>3 DEF LiveAt, OwnAt, drainVars
    <3> QED
      BY ONLY <2>3, <3>1, <3>2, <3>3, p \in Int
  <2> QED
    BY <2>2, <2>3
<1> QED
  BY <1>1, <1>6, SlotsStay DEF SlotInv, SlotsLive

(* So does the one of transfer_items' destination. *)
LEMMA PublishDestSlots ==
    ASSUME PositionInv, PositionInv', SlotInv, NEW t \in Workers, PublishDest(t)
    PROVE  SlotsLive'
<1>1. /\ pc[t] = "publish_dest" /\ pc'[t] = "commit"
      /\ push_count' = [push_count EXCEPT ![t] = my_push[t] + TransferCount(t)]
      /\ UNCHANGED <<pop_count, next_head, head, buffer, dropped, drainVars>>
  BY DEF PublishDest, Goto, PositionInv, CounterTypes, wordVars
<1>2. OthersKeep(t)
  BY StepOthers DEF Step
<1>3. t \notin dropped
  BY <1>1 DEF SlotInv, GoneIsQuiet
<1> DEFINE n == TransferCount(t)
<1>4. my_push[t] = push_count[t] /\ my_tail[t] = TailOf(t) /\ n \in Nat
  <2>1. my_push[t] = push_count[t] /\ my_tail[t] + pop_count[t] = push_count[t]
    BY <1>1 DEF PositionInv, KnowsTail
  <2>2. n \in 0 .. count[t] /\ count[t] \in Nat
    BY <1>1, Transferred, Numbers DEF Stealing
  <2> QED
    BY <2>1, <2>2, Numbers DEF TailOf
<1> HIDE DEF n
<1>5. /\ TailOf(t)' = TailOf(t) + n
      /\ \A q \in Workers \ {t} : TailOf(q)' = TailOf(q)
  BY <1>1, <1>4, Numbers DEF TailOf, PositionInv, CounterTypes, n
<1>6. ASSUME NEW q \in Workers, NEW p \in Int PROVE LiveAt(q, p)' <=> LiveAt(q, p)
  <2>1. BookedAt(q, p)' <=> BookedAt(q, p)
    BY <1>1, <1>2, BookedStays
  <2>2. CASE q # t
    BY <1>1, <1>2, <1>5, <2>1, <2>2, OtherQueue DEF drainVars
  <2>3. CASE q = t
    <3>1. /\ TailOf(t) \in Int /\ next_head[t] \in Int /\ next_head[t] <= TailOf(t)
          /\ n \in Nat
      BY <1>4, Numbers
    <3>2. /\ LiveAt(t, p) <=> \/ next_head[t] <= p /\ p < TailOf(t)
                              \/ TailOf(t) <= p /\ p < TailOf(t) + n
                              \/ draining[t] # "no" /\ drain_current[t] <= p /\ p < drain_end[t]
                              \/ BookedAt(t, p)
      BY <1>1, <1>3, <1>4 DEF LiveAt, OwnAt, n
    <3>3. /\ LiveAt(t, p)' <=> \/ next_head[t] <= p /\ p < TailOf(t) + n
                               \/ draining[t] # "no" /\ drain_current[t] <= p /\ p < drain_end[t]
                               \/ BookedAt(t, p)
      BY <1>1, <1>3, <1>5, <2>1, <2>3 DEF LiveAt, OwnAt, drainVars
    <3> QED
      BY ONLY <2>3, <3>1, <3>2, <3>3, p \in Int
  <2> QED
    BY <2>2, <2>3
<1> QED
  BY <1>1, <1>6, SlotsStay DEF SlotInv, SlotsLive

(* A pop that wins its compare-exchange takes the newest item off the tail  *)
(* and keeps its slot.                                                      *)
LEMMA PopCasSlots ==
    ASSUME PositionInv, PositionInv', SlotInv, NEW t \in Workers, PopCasOk(t)
    PROVE  SlotsLive'
<1>1. /\ pc[t] = "pop_cas" /\ pc'[t] = "pop_read" /\ my_tail' = my_tail
      /\ pop_count' = [pop_count EXCEPT ![t] = seen_pop[t] + 1]
      /\ next_head' = [next_head EXCEPT ![t] = seen_head[t]]
      /\ UNCHANGED <<push_count, head, buffer, dropped, drainVars>>
  BY DEF PopCasOk, Goto, PositionInv, CounterTypes, localVars
<1>2. OthersKeep(t)
  BY StepOthers DEF Step
<1>3. t \notin dropped
  BY <1>1 DEF SlotInv, GoneIsQuiet
<1>4. /\ next_head[t] = seen_head[t] /\ seen_pop[t] = pop_count[t]
      /\ my_tail[t] = TailOf(t) /\ next_head[t] < TailOf(t)
  <2>1. next_head[t] = seen_head[t]
    BY PopCasExact DEF PopCasOk
  <2>2. my_tail[t] + pop_count[t] = push_count[t]
    BY <1>1 DEF PositionInv, KnowsTail
  <2>3. seen_pop[t] = pop_count[t] /\ seen_head[t] < my_tail[t]
    BY <1>1 DEF PositionInv, PopSaw
  <2> QED
    BY <2>1, <2>2, <2>3, Numbers DEF TailOf
<1>5. /\ TailOf(t)' = TailOf(t) - 1
      /\ \A q \in Workers \ {t} : TailOf(q)' = TailOf(q)
      /\ next_head' = next_head
  BY <1>1, <1>4, Numbers DEF TailOf, PositionInv, CounterTypes
<1>6. ASSUME NEW q \in Workers, NEW p \in Int PROVE LiveAt(q, p)' <=> LiveAt(q, p)
  <2>1. BookedAt(q, p)' <=> BookedAt(q, p)
    BY <1>1, <1>2, BookedStays
  <2>2. CASE q # t
    BY <1>1, <1>2, <1>5, <2>1, <2>2, OtherQueue DEF drainVars
  <2>3. CASE q = t
    <3>1. TailOf(t) \in Int /\ next_head[t] \in Int /\ next_head[t] < TailOf(t)
      BY <1>4, Numbers
    <3>2. /\ LiveAt(t, p) <=> \/ next_head[t] <= p /\ p < TailOf(t)
                              \/ draining[t] # "no" /\ drain_current[t] <= p /\ p < drain_end[t]
                              \/ BookedAt(t, p)
      BY <1>1, <1>3 DEF LiveAt, OwnAt
    <3>3. /\ LiveAt(t, p)' <=> \/ next_head[t] <= p /\ p < TailOf(t) - 1
                               \/ p = TailOf(t) - 1
                               \/ draining[t] # "no" /\ drain_current[t] <= p /\ p < drain_end[t]
                               \/ BookedAt(t, p)
      BY <1>1, <1>3, <1>4, <1>5, <2>1, <2>3 DEF LiveAt, OwnAt, drainVars
    <3> QED
      BY ONLY <2>3, <3>1, <3>2, <3>3, p \in Int
  <2> QED
    BY <2>2, <2>3
<1> QED
  BY <1>1, <1>6, SlotsStay DEF SlotInv, SlotsLive

(* A booking moves items from the tail's side of next_head to the side of   *)
(* the thief, or of the Drain.                                              *)
LEMMA BookSlots ==
    ASSUME PositionInv, PositionInv', SlotInv, NEW t \in Workers, BookOk(t)
    PROVE  SlotsLive'
<1> DEFINE v == victim[t]
<1>1. /\ pc[t] = "book" /\ v \in Workers
      /\ pop_count' = [pop_count EXCEPT ![v] = seen_pop[t]]
      /\ next_head' = [next_head EXCEPT ![v] = seen_head[t] + count[t]]
      /\ UNCHANGED <<push_count, head, buffer, dropped>>
  BY DEF BookOk, PositionInv, CounterTypes
<1>2. OthersKeep(t)
  BY StepOthers DEF Step
<1>3. t \notin dropped /\ v \notin dropped
  BY <1>1 DEF SlotInv, GoneIsQuiet
<1>4. /\ next_head[v] = seen_head[t] /\ pop_count[v] = seen_pop[t] /\ head[v] = seen_head[t]
      /\ count[t] \in Nat /\ seen_head[t] \in Nat
      /\ seen_head[t] + count[t] <= TailOf(v)
      /\ op[t] = "drain" => v = t
  <2>1. next_head[v] = seen_head[t] /\ pop_count[v] = seen_pop[t] /\ head[v] = seen_head[t]
    BY BookExact DEF BookOk
  <2>2. ThiefSaw(t)
    BY DEF PositionInv
  <2>3. /\ seen_pop[t] + seen_head[t] + count[t] <= push_count[v]
        /\ op[t] = "drain" => v = t
    BY <1>1, <2>2 DEF ThiefSaw, Looking
  <2>4. /\ push_count[v] \in Nat /\ pop_count[v] \in Nat /\ seen_pop[t] \in Nat
        /\ seen_head[t] \in Nat /\ count[t] \in Nat
    BY <1>1, Numbers
  <2> HIDE DEF v
  <2> QED
    BY ONLY <2>1, <2>3, <2>4 DEF TailOf
<1>5. /\ \A q \in Workers : TailOf(q)' = TailOf(q)
      /\ next_head'[v] = seen_head[t] + count[t]
      /\ \A q \in Workers \ {v} : next_head'[q] = next_head[q]
  BY <1>1, <1>4 DEF TailOf, PositionInv, CounterTypes
<1>9. draining[v] = "no"
  <2>1. draining[v] # "no" => head[v] < next_head[v]
    BY <1>1 DEF PositionInv, DrainHolds
  <2> QED
    BY <1>1, <1>4, <2>1, Numbers
<1>10. /\ TailOf(v) \in Int /\ pc[t] \notin Active
  BY <1>1, Numbers DEF Active
<1> HIDE DEF v
<1>6. CASE op[t] = "drain"
  <2>1. /\ pc'[t] = "idle" /\ v = t
        /\ draining' = [draining EXCEPT ![t] = "active"]
        /\ drain_current' = [drain_current EXCEPT ![t] = seen_head[t]]
        /\ drain_end' = [drain_end EXCEPT ![t] = seen_head[t] + count[t]]
    BY <1>4, <1>6 DEF BookOk, Return, Goto, PositionInv, CounterTypes
  <2>2. /\ draining'[t] = "active" /\ drain_current'[t] = seen_head[t]
        /\ drain_end'[t] = seen_head[t] + count[t]
        /\ \A q \in Workers \ {t} : /\ draining'[q] = draining[q]
                                    /\ drain_current'[q] = drain_current[q]
                                    /\ drain_end'[q] = drain_end[q]
    BY <2>1 DEF PositionInv, CounterTypes
  <2>3. ASSUME NEW q \in Workers, NEW p \in Int PROVE LiveAt(q, p)' <=> LiveAt(q, p)
    <3>1. BookedAt(q, p)' <=> BookedAt(q, p)
      BY <1>1, <1>2, <2>1, BookedStays
    <3>2. CASE q # t
      BY <1>1, <1>2, <1>5, <2>1, <2>2, <3>1, <3>2, OtherQueue
    <3>3. CASE q = t
      <4>2. LiveAt(t, p) <=> (seen_head[t] <= p /\ p < TailOf(t)) \/ BookedAt(t, p)
        BY <1>3, <1>4, <1>9, <1>10, <2>1 DEF LiveAt, OwnAt, Active
      <4>3. LiveAt(t, p)' <=> \/ seen_head[t] + count[t] <= p /\ p < TailOf(t)
                              \/ seen_head[t] <= p /\ p < seen_head[t] + count[t]
                              \/ BookedAt(t, p)
        BY <1>1, <1>3, <1>5, <2>1, <2>2, <3>1, <3>3 DEF LiveAt, OwnAt
      <4> QED
        BY ONLY <1>4, <1>10, <2>1, <3>3, <4>2, <4>3, p \in Int
    <3> QED
      BY <3>2, <3>3
  <2> QED
    BY <1>1, <2>3, SlotsStay DEF SlotInv, SlotsLive
<1>7. CASE op[t] # "drain"
  <2>1. /\ pc'[t] = "copy" /\ UNCHANGED <<localVars, drainVars>>
    BY <1>7 DEF BookOk, Goto, PositionInv, CounterTypes
  <2>3. ASSUME NEW q \in Workers, NEW p \in Int PROVE LiveAt(q, p)' <=> LiveAt(q, p)
    <3>1. BookedAt(q, p)' <=> \/ BookedAt(q, p)
                              \/ q = v /\ seen_head[t] <= p /\ p < seen_head[t] + count[t]
      BY <1>1, <1>2, <2>1 DEF BookedAt, OthersKeep, localVars, v
    <3>2. CASE q = v
      <4>1. OwnAt(q, p)' <=> OwnAt(q, p)
        BY <1>2, <1>10, <2>1 DEF OwnAt, OthersKeep, TransferCount, localVars, Active
      <4>2. LiveAt(v, p) <=> \/ seen_head[t] <= p /\ p < TailOf(v)
                             \/ OwnAt(v, p) \/ BookedAt(v, p)
        BY <1>3, <1>4, <1>9 DEF LiveAt, OwnAt
      <4>3. LiveAt(q, p)' <=> \/ seen_head[t] + count[t] <= p /\ p < TailOf(v)
                              \/ OwnAt(v, p) \/ BookedAt(v, p)
                              \/ seen_head[t] <= p /\ p < seen_head[t] + count[t]
        BY <1>1, <1>3, <1>5, <1>9, <2>1, <3>1, <3>2, <4>1 DEF LiveAt, OwnAt, drainVars
      <4> QED
        BY ONLY <1>4, <1>10, <3>2, <4>2, <4>3, p \in Int
    <3>3. CASE q # v
      <4>1. OwnAt(q, p)' <=> OwnAt(q, p)
        BY <1>2, <1>10, <2>1 DEF OwnAt, OthersKeep, TransferCount, localVars, Active
      <4> QED
        BY <1>1, <1>5, <2>1, <3>1, <3>3, <4>1 DEF LiveAt, OwnAt, drainVars
    <3> QED
      BY <3>2, <3>3
  <2> QED
    BY <1>1, <2>3, SlotsStay DEF SlotInv, SlotsLive
<1> QED
  BY <1>6, <1>7

(* A Drain that has moved everything out holds nothing any more. *)
LEMMA DrainCommitSlots ==
    ASSUME PositionInv, PositionInv', SlotInv, NEW t \in Workers, DrainCommit(t)
    PROVE  SlotsLive'
<1>1. /\ draining[t] = "active"
      /\ draining' = [draining EXCEPT ![t] = "no"]
      /\ drain_current' = [drain_current EXCEPT ![t] = 0]
      /\ drain_end' = [drain_end EXCEPT ![t] = 0]
      /\ UNCHANGED <<push_count, pop_count, next_head, buffer, dropped, pc>>
  BY DEF DrainCommit, wordVars, threadVars
<1>2. OthersKeep(t) /\ localVars' = localVars
  BY StepOthers DEF Step, DrainCommit, threadVars
<1>3. drain_current[t] = drain_end[t]
  <2>1. /\ head[t] <= drain_current[t] /\ drain_current[t] <= drain_end[t]
        /\ drain_end[t] = next_head[t]
    BY <1>1 DEF PositionInv, DrainHolds
  <2>2. Capacity[t] < Modulus /\ Modulus \in Nat
    BY CapacityFacts, CapacityAssumption
  <2>3. Short(drain_current[t]) = Short(drain_end[t])
    BY DEF DrainCommit
  <2>4. drain_end[t] - drain_current[t] < Modulus /\ drain_current[t] - drain_end[t] < Modulus
    BY <2>1, <2>2, Numbers
  <2> QED
    BY <2>3, <2>4, Numbers, ShortEqual
<1>6. ASSUME NEW q \in Workers, NEW p \in Int PROVE LiveAt(q, p)' <=> LiveAt(q, p)
  <2>1. BookedAt(q, p)' <=> BookedAt(q, p)
    BY <1>1, <1>2 DEF BookedAt, localVars
  <2>2. TailOf(q)' = TailOf(q)
    BY <1>1 DEF TailOf
  <2>3. CASE q = t
    <3>1. draining'[t] = "no" /\ ~ (drain_current[t] <= p /\ p < drain_end[t])
      BY <1>1, <1>3, Numbers DEF PositionInv, CounterTypes
    <3> QED
      BY <1>1, <1>2, <2>1, <2>2, <2>3, <3>1 DEF LiveAt, OwnAt, localVars, TransferCount
  <2>4. CASE q # t
    <3>1. /\ draining'[q] = draining[q] /\ drain_current'[q] = drain_current[q]
          /\ drain_end'[q] = drain_end[q]
      BY <1>1, <2>4 DEF PositionInv, CounterTypes
    <3> QED
      BY <1>1, <1>2, <2>1, <2>2, <2>4, <3>1, OtherQueue
  <2> QED
    BY <2>3, <2>4
<1> QED
  BY <1>1, <1>6, SlotsStay DEF SlotInv, SlotsLive

(* The positions a thread is about to write to are in the window, behind    *)
(* the tail: no live position is among them.                                *)
LEMMA RoomToWrite ==
    ASSUME PositionInv, NEW t \in Workers, pc[t] \in {"write", "copy"},
           NEW n \in Nat, IF pc[t] = "write" THEN n = count[t] ELSE n = TransferCount(t)
    PROVE  /\ my_tail[t] = TailOf(t)
           /\ my_tail[t] .. my_tail[t] + n - 1 \subseteq Window(t)
           /\ n <= Capacity[t]
           /\ \A p \in my_tail[t] .. my_tail[t] + n - 1 : ~ LiveAt(t, p)
<1>1. my_tail[t] = TailOf(t)
  <2>1. my_tail[t] + pop_count[t] = push_count[t]
    BY DEF PositionInv, KnowsTail
  <2> QED
    BY <2>1, Numbers DEF TailOf
<1>2. my_tail[t] + n <= head[t] + Capacity[t]
  BY DEF PositionInv, KnowsTail
<1>3. my_tail[t] .. my_tail[t] + n - 1 \subseteq Window(t) /\ n <= Capacity[t]
  BY <1>1, <1>2, Numbers DEF Window
<1>4. ASSUME NEW p \in my_tail[t] .. my_tail[t] + n - 1 PROVE ~ LiveAt(t, p)
  <2>1. p \in Int /\ TailOf(t) <= p /\ next_head[t] <= p
    BY <1>1, Numbers
  <2>2. ~ OwnAt(t, p)
    BY DEF OwnAt
  <2>3. ~ BookedAt(t, p)
    BY <2>1, BookedBelow, Numbers
  <2>4. draining[t] # "no" => drain_end[t] <= p
    BY <2>1, Numbers DEF PositionInv, DrainHolds
  <2> QED
    BY <2>1, <2>2, <2>3, <2>4, Numbers DEF LiveAt
<1> QED
  BY <1>1, <1>3, <1>4

(* What the owner holds lies behind every booking. *)
LEMMA OwnAbove ==
    ASSUME PositionInv, NEW t \in Workers, NEW p \in Int, OwnAt(t, p)
    PROVE  p >= next_head[t]
<1>1. CASE pc[t] = "pop_read"
  <2>1. my_tail[t] + pop_count[t] = push_count[t] + 1
    BY <1>1 DEF PositionInv, PopSaw
  <2> QED
    BY <1>1, <2>1, Numbers DEF TailOf, OwnAt
<1>2. CASE pc[t] \in {"publish", "publish_dest"}
  <2>1. my_tail[t] + pop_count[t] = push_count[t]
    BY <1>2 DEF PositionInv, KnowsTail
  <2> QED
    BY <1>2, <2>1, Numbers DEF TailOf, OwnAt
<1> QED
  BY <1>1, <1>2 DEF OwnAt

(* push and extend fill slots that nobody uses ... *)
LEMMA WriteSlots ==
    ASSUME PositionInv, PositionInv', ItemTypes, SlotInv, NEW t \in Workers, Write(t)
    PROVE  SlotsLive'
<1> DEFINE s == [k \in 0 .. count[t] - 1 |-> carried[t] + 1 + k]
           new == my_tail[t] .. my_tail[t] + count[t] - 1
<1>1. /\ pc[t] = "write" /\ pc'[t] = "publish"
      /\ buffer' = Written(buffer, t, my_tail[t], s)
      /\ UNCHANGED <<push_count, pop_count, next_head, head, dropped, localVars, drainVars>>
  BY DEF Write, Goto, wordVars, PositionInv, CounterTypes
<1>2. OthersKeep(t)
  BY StepOthers DEF Step
<1>3. /\ my_tail[t] = TailOf(t) /\ new \subseteq Window(t) /\ count[t] <= Capacity[t]
      /\ \A p \in new : ~ LiveAt(t, p)
  BY <1>1, RoomToWrite, Numbers
<1>4. /\ s \in [0 .. count[t] - 1 -> Content]
      /\ \A k \in 0 .. count[t] - 1 : s[k] # Vacant
  BY Numbers, ClientAssumption DEF Content
<1>5. BufferShape(buffer) /\ my_tail[t] \in Int /\ count[t] \in Nat
  BY Numbers DEF ItemTypes
<1> HIDE DEF s
<1>6. ASSUME NEW q \in Workers
      PROVE  Occupied(buffer', q)
               = IF q = t THEN Occupied(buffer, t) \cup Slots(t, my_tail[t], count[t])
                 ELSE Occupied(buffer, q)
  <2>1. FilledIn(buffer', buffer, t, my_tail[t], count[t], s)
    BY ONLY <1>1, <1>3, <1>4, <1>5, WrittenCells, t \in Workers
  <2>3. WriteFits(buffer', buffer, t, my_tail[t], count[t], s)
    BY ONLY <1>4, <1>5, <2>1, t \in Workers DEF WriteFits
  <2> QED
    BY ONLY <2>3, WriteOccupies, q \in Workers
<1>7. ASSUME NEW q \in Workers PROVE Occupied(buffer, q)' = SlotsAt(q, Live(q))'
  <2>1. ASSUME NEW p \in Int PROVE BookedAt(q, p)' <=> BookedAt(q, p)
    BY <1>1, <1>2, BookedStays
  <2>2. TailOf(q)' = TailOf(q)
    BY <1>1 DEF TailOf
  <2>3. CASE q # t
    <3>1. ASSUME NEW p \in Int PROVE LiveAt(q, p)' <=> LiveAt(q, p)
      BY <1>1, <1>2, <2>1, <2>2, <2>3, OtherQueue DEF drainVars
    <3>2. Occupied(buffer', q) = (Occupied(buffer, q) \ SlotsAt(q, {})) \cup SlotsAt(q, {})
      BY ONLY <1>6, <2>3 DEF SlotsAt
    <3> QED
      BY <1>1, <3>1, <3>2, SlotsFollow DEF SlotInv
  <2>4. CASE q = t
    <3>1. ASSUME NEW p \in Int
          PROVE  LiveAt(q, p)' <=> (LiveAt(q, p) /\ p \notin {}) \/ p \in new
      <4>1. ~ OwnAt(q, p)
        BY <1>1, <2>4 DEF OwnAt
      <4>2. OwnAt(q, p)' <=> my_tail[t] <= p /\ p < my_tail[t] + count[t]
        BY <1>1, <2>4 DEF OwnAt, localVars
      <4>3. p \in new <=> my_tail[t] <= p /\ p < my_tail[t] + count[t]
        BY Numbers
      <4> HIDE DEF new
      <4> QED
        BY <1>1, <2>1, <2>2, <4>1, <4>2, <4>3 DEF LiveAt, drainVars
    <3>2. Occupied(buffer', q) = (Occupied(buffer, q) \ SlotsAt(q, {})) \cup SlotsAt(q, new)
      <4>1. Slots(t, my_tail[t], count[t]) = SlotsAt(t, new)
        BY <1>5, SlotsOfRun
      <4> QED
        BY ONLY <1>6, <2>4, <4>1 DEF SlotsAt
    <3> HIDE DEF new
    <3> QED
      BY <1>1, <1>3, <2>4, <3>1, <3>2, SlotsFollow DEF SlotInv
  <2> QED
    BY <2>3, <2>4
<1> QED
  BY <1>7 DEF SlotsLive

(* A step that only moves items out, and takes the positions it moves them  *)
(* from out of the live ones.                                               *)
LEMMA MovedOutSlots ==
    ASSUME PositionInv, PositionInv', ItemTypes, SlotInv, head' = head,
           NEW v \in Workers, NEW f \in Int, NEW n \in Int,
           f .. f + n - 1 \subseteq Window(v),
           buffer' = MovedOut(buffer, v, f, n),
           \A q \in Workers : \A p \in Int :
              LiveAt(q, p)' <=> LiveAt(q, p) /\ ~ (q = v /\ f <= p /\ p < f + n)
    PROVE  SlotsLive'
<1> DEFINE gone == f .. f + n - 1
<1>1. ASSUME NEW q \in Workers PROVE Occupied(buffer, q)' = SlotsAt(q, Live(q))'
  <2>1. Occupied(buffer', q)
          = IF q = v THEN Occupied(buffer, v) \ Slots(v, f, n) ELSE Occupied(buffer, q)
    BY MovedOutOccupied DEF ItemTypes
  <2>2. CASE q # v
    <3>1. \A p \in Int : LiveAt(q, p)' <=> (LiveAt(q, p) /\ p \notin {}) \/ p \in {}
      BY <2>2
    <3>2. Occupied(buffer', q) = (Occupied(buffer, q) \ SlotsAt(q, {})) \cup SlotsAt(q, {})
      BY ONLY <2>1, <2>2 DEF SlotsAt
    <3> QED
      BY <3>1, <3>2, SlotsFollow DEF SlotInv
  <2>3. CASE q = v
    <3>1. \A p \in Int : LiveAt(q, p)' <=> (LiveAt(q, p) /\ p \notin gone) \/ p \in {}
      BY <2>3
    <3>2. Occupied(buffer', q) = (Occupied(buffer, q) \ SlotsAt(q, gone)) \cup SlotsAt(q, {})
      <4>1. Slots(v, f, n) = SlotsAt(v, gone)
        BY SlotsOfRun
      <4> QED
        BY ONLY <2>1, <2>3, <4>1 DEF SlotsAt
    <3>3. gone \subseteq Window(q) /\ head'[q] = head[q]
      BY <2>3
    <3> HIDE DEF gone
    <3> QED
      BY <3>1, <3>2, <3>3, SlotsFollow DEF SlotInv
  <2> QED
    BY <2>2, <2>3
<1> QED
  BY <1>1 DEF SlotsLive

(* ... pop empties the slot it claimed, *)
LEMMA PopReadSlots ==
    ASSUME PositionInv, PositionInv', ItemTypes, SlotInv, NEW t \in Workers, PopRead(t)
    PROVE  SlotsLive'
<1>1. /\ pc[t] = "pop_read" /\ pc'[t] = "idle"
      /\ buffer' = MovedOut(buffer, t, my_tail[t] - 1, 1)
      /\ UNCHANGED <<push_count, pop_count, next_head, head, dropped, drainVars>>
  BY DEF PopRead, Return, Goto, wordVars, PositionInv, CounterTypes
<1>2. OthersKeep(t)
  BY StepOthers DEF Step
<1>3. my_tail[t] - 1 = TailOf(t) /\ my_tail[t] \in Nat
  <2>1. my_tail[t] + pop_count[t] = push_count[t] + 1
    BY <1>1 DEF PositionInv, PopSaw
  <2>2. my_tail[t] \in Nat /\ pop_count[t] \in Nat /\ push_count[t] \in Nat
    BY Numbers
  <2> QED
    BY ONLY <2>1, <2>2 DEF TailOf
<1> DEFINE f == my_tail[t] - 1
<1>4. f \in Int /\ LiveAt(t, f) /\ \A p \in Int : p = f <=> (f <= p /\ p < f + 1)
  BY <1>1, <1>3 DEF LiveAt, OwnAt
<1>5. f .. f + 1 - 1 \subseteq Window(t)
  <2>1. f \in Window(t)
    BY <1>4, LiveInWindow DEF LiveNear
  <2> QED
    BY <1>4, <2>1
<1>6. ASSUME NEW q \in Workers, NEW p \in Int
      PROVE  LiveAt(q, p)' <=> LiveAt(q, p) /\ ~ (q = t /\ f <= p /\ p < f + 1)
  <2>1. BookedAt(q, p)' <=> BookedAt(q, p)
    BY <1>1, <1>2, BookedStays
  <2>2. TailOf(q)' = TailOf(q)
    BY <1>1 DEF TailOf
  <2>3. CASE q # t
    BY <1>1, <1>2, <2>1, <2>2, <2>3, OtherQueue DEF drainVars
  <2>4. CASE q = t
    <3>1. OwnAt(t, p) <=> p = f
      BY <1>1 DEF OwnAt
    <3>2. ~ OwnAt(q, p)'
      BY <1>1, <2>4 DEF OwnAt
    <3>3. BookedAt(t, p) => p # f
      <4>1. BookedAt(t, p) => p < next_head[t]
        BY BookedBelow
      <4> QED
        BY <1>3, <4>1, Numbers
    <3>4. draining[t] # "no" /\ p < drain_end[t] => p # f
      <4>1. draining[t] # "no" => drain_end[t] = next_head[t]
        BY DEF PositionInv, DrainHolds
      <4> QED
        BY <1>3, <4>1, Numbers
    <3>5. p < TailOf(t) => p # f
      BY <1>3, Numbers
    <3>6. p = f <=> (f <= p /\ p < f + 1)
      BY <1>4
    <3> HIDE DEF f
    <3> QED
      BY <1>1, <2>1, <2>2, <2>4, <3>1, <3>2, <3>3, <3>4, <3>5, <3>6 DEF LiveAt, drainVars
  <2> QED
    BY <2>3, <2>4
<1>7. buffer' = MovedOut(buffer, t, f, 1)
  BY <1>1
<1> HIDE DEF f
<1> QED
  BY <1>1, <1>4, <1>5, <1>6, <1>7, MovedOutSlots

(* ... and so does the Drain with every item it returns. *)
LEMMA DrainNextSlots ==
    ASSUME PositionInv, PositionInv', ItemTypes, SlotInv, NEW t \in Workers, DrainNext(t)
    PROVE  SlotsLive'
<1> DEFINE f == drain_current[t]
<1>1. /\ draining[t] = "active" /\ f # drain_end[t]
      /\ drain_current' = [drain_current EXCEPT ![t] = f + 1]
      /\ buffer' = MovedOut(buffer, t, f, 1)
      /\ UNCHANGED <<push_count, pop_count, next_head, head, dropped, pc, localVars,
                     draining, drain_end>>
  BY DEF DrainNext, wordVars, threadVars
<1>2. OthersKeep(t)
  BY StepOthers DEF Step
<1>3. /\ f \in Int /\ drain_end[t] \in Int /\ f < drain_end[t]
      /\ head[t] <= f /\ drain_end[t] = next_head[t]
  <2>1. /\ head[t] <= f /\ f <= drain_end[t] /\ drain_end[t] = next_head[t]
    BY <1>1 DEF PositionInv, DrainHolds
  <2> QED
    BY <1>1, <2>1, Numbers
<1>4. t \notin dropped
  BY <1>1 DEF SlotInv, GoneIsQuiet
<1>5. f .. f + 1 - 1 \subseteq Window(t)
  BY <1>3, Numbers DEF Window
<1>6. ASSUME NEW q \in Workers, NEW p \in Int
      PROVE  LiveAt(q, p)' <=> LiveAt(q, p) /\ ~ (q = t /\ f <= p /\ p < f + 1)
  <2>1. BookedAt(q, p)' <=> BookedAt(q, p)
    BY <1>1 DEF BookedAt, localVars
  <2>2. TailOf(q)' = TailOf(q)
    BY <1>1 DEF TailOf
  <2>3. CASE q # t
    <3>1. drain_current'[q] = drain_current[q]
      BY <1>1, <2>3 DEF PositionInv, CounterTypes
    <3> QED
      BY <1>1, <1>2, <2>1, <2>2, <2>3, <3>1, OtherQueue
  <2>4. CASE q = t
    <3>0. drain_current'[t] = f + 1
      BY <1>1 DEF PositionInv, CounterTypes
    <3>1. OwnAt(q, p)' <=> OwnAt(q, p)
      BY <1>1 DEF OwnAt, localVars, TransferCount
    <3>2. ~ BookedAt(t, p)
      BY <1>1, BookedBelow
    <3>3. OwnAt(t, p) => p >= next_head[t]
      BY OwnAbove
    <3>4. LiveAt(t, p) <=> \/ next_head[t] <= p /\ p < TailOf(t)
                           \/ OwnAt(t, p)
                           \/ f <= p /\ p < next_head[t]
      BY <1>1, <1>3, <1>4, <3>2 DEF LiveAt
    <3>5. LiveAt(t, p)' <=> \/ next_head[t] <= p /\ p < TailOf(t)
                            \/ OwnAt(t, p)
                            \/ f + 1 <= p /\ p < next_head[t]
      BY <1>1, <1>3, <1>4, <2>1, <2>2, <2>4, <3>0, <3>1, <3>2 DEF LiveAt
    <3>6. f \in Int /\ next_head[t] \in Int /\ f < next_head[t]
      BY <1>3
    <3> HIDE DEF f
    <3> QED
      BY ONLY <2>4, <3>3, <3>4, <3>5, <3>6, p \in Int
  <2> QED
    BY <2>3, <2>4
<1> HIDE DEF f
<1> QED
  BY <1>1, <1>3, <1>5, <1>6, MovedOutSlots

(* A thief moves its booking to the free slots of its own queue. *)
LEMMA CopySlots ==
    ASSUME PositionInv, PositionInv', ItemTypes, SlotInv, Unique(buffer),
           NEW t \in Workers, Copy(t)
    PROVE  /\ SlotsLive'
           /\ Slots(victim[t], seen_head[t], count[t]) \subseteq Occupied(buffer, victim[t])
           /\ Slots(t, my_tail[t], TransferCount(t)) \cap Occupied(buffer, t) = {}
<1> DEFINE v == victim[t]
           c == count[t]
           n == TransferCount(t)
           f == seen_head[t]
           gone == f .. f + c - 1
           new == my_tail[t] .. my_tail[t] + n - 1
<1>1. /\ pc[t] = "copy" /\ pc'[t] = "publish_dest" /\ v \in Workers
      /\ buffer' = Copied(buffer, v, f, c, t, my_tail[t], n)
      /\ UNCHANGED <<push_count, pop_count, next_head, head, dropped, localVars, drainVars>>
  BY DEF Copy, Copied, Goto, wordVars, PositionInv, CounterTypes
<1>2. OthersKeep(t)
  BY StepOthers DEF Step
<1>3. n \in 0 .. c /\ c \in Nat /\ f \in Nat /\ my_tail[t] \in Nat
  BY <1>1, Transferred, Numbers DEF Stealing
<1>4. /\ head[v] = f /\ next_head[v] = f + c /\ draining[v] = "no"
  BY <1>1 DEF PositionInv, Holds, Stealing
<1>5. gone \subseteq Window(v) /\ c <= Capacity[v]
  <2>1. /\ f + c <= head[v] + Capacity[v] /\ Capacity[v] \in Nat
    BY <1>1, <1>4, Numbers
  <2> QED
    BY <1>3, <1>4, <2>1 DEF Window
<1>6. /\ my_tail[t] = TailOf(t) /\ new \subseteq Window(t) /\ n <= Capacity[t]
      /\ \A p \in new : ~ LiveAt(t, p)
  BY <1>1, <1>3, RoomToWrite
<1>7. \A p \in gone : LiveAt(v, p)
  <2>1. ASSUME NEW p \in gone PROVE f <= p /\ p < f + c
    BY <1>3
  <2>2. \A p \in gone : BookedAt(v, p)
    BY <1>1, <2>1 DEF BookedAt
  <2> QED
    BY <2>2 DEF LiveAt
<1>8. Slots(v, f, c) = SlotsAt(v, gone) /\ Slots(t, my_tail[t], n) = SlotsAt(t, new)
  BY <1>1, <1>3, SlotsOfRun
<1>9. \A q \in Workers : Near(q, Window(q)) /\ Live(q) \in SUBSET Window(q)
  <2>1. \A q \in Workers : head[q] \in Int
    BY Numbers
  <2> QED
    BY <2>1, WindowIsNear DEF Window, Live
<1>14. \A p : /\ p \in gone <=> p \in Int /\ f <= p /\ p < f + c
              /\ p \in new <=> p \in Int /\ my_tail[t] <= p /\ p < my_tail[t] + n
  BY <1>3
<1> HIDE DEF gone, new, v, c, n, f
<1>10. Slots(v, f, c) \subseteq Occupied(buffer, v)
  <2>1. gone \subseteq Live(v)
    BY ONLY <1>5, <1>7 DEF Live
  <2> QED
    BY <1>1, <1>8, <2>1 DEF SlotInv, SlotsLive, SlotsAt
<1>11. Slots(t, my_tail[t], n) \cap Occupied(buffer, t) = {}
  <2>1. new \cap Live(t) = {}
    BY ONLY <1>6 DEF Live
  <2>2. SlotsAt(t, new) \cap SlotsAt(t, Live(t)) = {}
    <3>1. new \in SUBSET Window(t) /\ Live(t) \in SUBSET Window(t) /\ Near(t, Window(t))
      BY ONLY <1>6, <1>9, t \in Workers
    <3> QED
      BY ONLY <2>1, <3>1, SlotsDisjoint, t \in Workers
  <2> QED
    BY <1>8, <2>2 DEF SlotInv, SlotsLive
<1>12. ASSUME NEW q \in Workers
       PROVE  Occupied(buffer', q)
                = (IF q = v THEN Occupied(buffer, q) \ Slots(v, f, c) ELSE Occupied(buffer, q))
                    \cup (IF q = t THEN Slots(t, my_tail[t], n) ELSE {})
  <2>1. BufferShape(buffer) /\ Unique(buffer)
    BY DEF ItemTypes
  <2>2. CopyFits(buffer, v, f, c, t, my_tail[t], n)
    BY ONLY <1>1, <1>3, <1>5, <1>6, <1>10, <1>11, <2>1, t \in Workers DEF CopyFits
  <2> QED
    BY ONLY <1>1, <2>2, CopyMoves, q \in Workers
<1>13. ASSUME NEW q \in Workers PROVE Occupied(buffer, q)' = SlotsAt(q, Live(q))'
  <2> DEFINE out_of == IF q = v THEN gone ELSE {}
             in_to  == IF q = t THEN new ELSE {}
  <2>1. Occupied(buffer', q) = (Occupied(buffer, q) \ SlotsAt(q, out_of)) \cup SlotsAt(q, in_to)
    <3>1. /\ SlotsAt(q, out_of) = IF q = v THEN Slots(v, f, c) ELSE {}
          /\ SlotsAt(q, in_to) = IF q = t THEN Slots(t, my_tail[t], n) ELSE {}
      BY ONLY <1>8 DEF SlotsAt
    <3> HIDE DEF out_of, in_to
    <3> QED
      BY ONLY <1>12, <3>1
  <2>2. out_of \in SUBSET Window(q) /\ in_to \in SUBSET Window(q)
    BY ONLY <1>5, <1>6
  <2>3. TailOf(q)' = TailOf(q)
    BY <1>1 DEF TailOf
  <2>4. ASSUME NEW p \in Int
        PROVE  BookedAt(q, p)' <=> BookedAt(q, p) /\ ~ (q = v /\ p \in gone)
    <3>1. ASSUME NEW u \in Workers, pc[u] = "copy", victim[u] = v PROVE u = t
      BY <1>1, <3>1 DEF PositionInv, Alone, Stealing, v
    <3>2. \A u \in Workers \ {t} : pc'[u] = pc[u]
      BY <1>2 DEF OthersKeep
    <3>3. q = v /\ p \in gone <=> victim[t] = q /\ seen_head[t] <= p /\ p < seen_head[t] + count[t]
      BY <1>14 DEF v, f, c
    <3>4. BookedAt(q, p) <=> \/ \E u \in Workers \ {t} :
                                   /\ pc[u] = "copy" /\ victim[u] = q
                                   /\ seen_head[u] <= p /\ p < seen_head[u] + count[u]
                             \/ q = v /\ p \in gone
      BY <1>1, <3>3 DEF BookedAt
    <3>5. BookedAt(q, p)' <=> \E u \in Workers \ {t} :
                                 /\ pc[u] = "copy" /\ victim[u] = q
                                 /\ seen_head[u] <= p /\ p < seen_head[u] + count[u]
      BY <1>1, <3>2 DEF BookedAt, localVars
    <3>6. q = v => ~ BookedAt(q, p)'
      BY ONLY <3>1, <3>5
    <3> QED
      BY ONLY <3>4, <3>5, <3>6
  <2>5. ASSUME NEW p \in Int
        PROVE  OwnAt(q, p)' <=> OwnAt(q, p) \/ (q = t /\ p \in new)
    <3>1. CASE q = t
      BY <1>1, <1>14, <3>1 DEF OwnAt, localVars, n, TransferCount
    <3>2. CASE q # t
      BY <1>1, <1>2, <3>2 DEF OwnAt, OthersKeep, localVars, TransferCount
    <3> QED
      BY <3>1, <3>2
  <2>6. ASSUME NEW p \in Int
        PROVE  LiveAt(q, p)' <=> (LiveAt(q, p) /\ p \notin out_of) \/ p \in in_to
    <3> DEFINE rest == \/ q \notin dropped /\ next_head[q] <= p /\ p < TailOf(q)
                       \/ OwnAt(q, p)
                       \/ q \notin dropped /\ draining[q] # "no"
                          /\ drain_current[q] <= p /\ p < drain_end[q]
    <3>1. LiveAt(q, p) <=> rest \/ BookedAt(q, p)
      BY DEF LiveAt
    <3>2. LiveAt(q, p)' <=> \/ rest \/ (q = t /\ p \in new)
                            \/ BookedAt(q, p) /\ ~ (q = v /\ p \in gone)
      BY <1>1, <2>3, <2>4, <2>5 DEF LiveAt, drainVars
    <3>3. q = v /\ p \in gone => ~ rest
      <4> SUFFICES ASSUME q = v, p \in gone PROVE ~ rest
        OBVIOUS
      <4>1. p < next_head[q] /\ head[q] <= p /\ draining[q] = "no"
        BY <1>4, <1>14
      <4>2. OwnAt(q, p) => p >= next_head[q]
        BY OwnAbove
      <4> QED
        BY <4>1, <4>2, Numbers
    <3> HIDE DEF rest
    <3> QED
      BY ONLY <3>1, <3>2, <3>3
  <2> HIDE DEF out_of, in_to
  <2>7. head'[q] = head[q] /\ SlotsLive
    BY <1>1 DEF SlotInv
  <2> QED
    BY ONLY <2>1, <2>2, <2>6, <2>7, SlotsFollow, PositionInv, PositionInv', q \in Workers
<1> QED
  BY <1>10, <1>11, <1>13 DEF SlotsLive, v, f, c, n

(* Queue::drop leaves no item behind: what is neither booked nor in the     *)
(* hands of the owner lies between head and tail.                           *)
LEMMA DropSlots ==
    ASSUME PositionInv, PositionInv', ItemTypes, SlotInv, NEW t \in Workers, Drop(t)
    PROVE  SlotsLive'
<1> DEFINE n == OwnLen(t)
<1>1. /\ pc[t] = "idle" /\ draining[t] # "active" /\ dropped' = dropped \cup {t}
      /\ \A u \in Workers : pc[u] # "idle" => victim[u] # t
      /\ buffer' = MovedOut(buffer, t, head[t], n)
      /\ UNCHANGED <<push_count, pop_count, next_head, head, pc, localVars, drainVars>>
  BY DEF Drop, wordVars, threadVars
<1>2. OthersKeep(t)
  BY StepOthers DEF Step
<1>3. n = TailOf(t) - head[t] /\ n \in Int /\ head[t] \in Int /\ TailOf(t) \in Int
  BY OwnLenExact, Numbers
<1> HIDE DEF n
<1>4. head[t] .. head[t] + n - 1 \subseteq Window(t)
  BY <1>3, Numbers DEF Window
<1>6. ASSUME NEW q \in Workers, NEW p \in Int
      PROVE  LiveAt(q, p)' <=> LiveAt(q, p) /\ ~ (q = t /\ head[t] <= p /\ p < head[t] + n)
  <2>1. BookedAt(q, p)' <=> BookedAt(q, p)
    BY <1>1 DEF BookedAt, localVars
  <2>2. TailOf(q)' = TailOf(q)
    BY <1>1 DEF TailOf
  <2>3. CASE q # t
    BY <1>1, <1>2, <2>1, <2>2, <2>3, OtherQueue DEF drainVars
  <2>4. CASE q = t
    <3>1. ~ BookedAt(t, p) /\ ~ OwnAt(t, p) /\ ~ OwnAt(q, p)'
      BY <1>1, <2>4 DEF BookedAt, OwnAt
    <3>2. ~ LiveAt(q, p)'
      BY <1>1, <2>1, <2>4, <3>1 DEF LiveAt
    <3>3. LiveAt(t, p) => head[t] <= p /\ p < head[t] + n
      <4>1. draining[t] # "no" => head[t] <= drain_current[t] /\ drain_end[t] <= TailOf(t)
        BY Numbers DEF PositionInv, DrainHolds
      <4> QED
        BY <1>3, <3>1, <4>1, Numbers DEF LiveAt
    <3> QED
      BY <2>4, <3>2, <3>3
  <2> QED
    BY <2>3, <2>4
<1> QED
  BY <1>1, <1>3, <1>4, <1>6, MovedOutSlots

(* Every step keeps the correspondence of positions and slots. *)
LEMMA NextSlotInv ==
    ASSUME PositionInv, PositionInv', ItemTypes, SlotInv, Unique(buffer), [Next]_vars
    PROVE  SlotInv'
<1>1. GoneIsQuiet'
  BY NextGone DEF SlotInv
<1>2. CASE UNCHANGED vars
  <2>1. ASSUME NEW q \in Workers, NEW p \in Int PROVE LiveAt(q, p)' <=> LiveAt(q, p)
    BY <1>2 DEF vars, queueVars, threadVars, localVars, drainVars, LiveAt, OwnAt, BookedAt,
                TailOf, TransferCount
  <2>2. buffer' = buffer
    BY <1>2 DEF vars, queueVars
  <2> QED
    BY <1>1, <2>1, <2>2, SlotsStay DEF SlotInv, SlotsLive
<1>3. ASSUME NEW t \in Workers, Step(t) PROVE SlotsLive'
  <2>0. OthersKeep(t) /\ SlotsLive
    BY <1>3, StepOthers DEF SlotInv
  <2>1. ASSUME pc[t] \notin Active, pc'[t] \notin Active,
               UNCHANGED <<push_count, pop_count, next_head, buffer, dropped,
                           drain_current, drain_end>>,
               \A q \in Workers : draining'[q] = "no" <=> draining[q] = "no"
        PROVE  SlotsLive'
    BY <2>0, <2>1, QuietStep
  <2> USE DEF Active, Goto, queueVars, wordVars, drainVars
  <2>6. CASE \/ Push(t) \/ (\E n \in 0 .. MaxCreated : Extend(t, n)) \/ Pop(t) \/ DrainCall(t)
             \/ \E v \in Workers, name \in OpNames : Steal(t, v, name)
    <3>1. /\ pc[t] \notin Active /\ pc'[t] \notin Active
          /\ UNCHANGED <<push_count, pop_count, next_head, buffer, dropped,
                         drain_current, drain_end, draining>>
      BY <2>6 DEF Push, Extend, Pop, PopTest, Call, DrainCall, Steal, PositionInv, CounterTypes
    <3> QED
      BY ONLY <2>1, <3>1
  <2>7. CASE \/ LoadWord(t) \/ LoadHead(t) \/ (\E n \in 0 .. Modulus - 1 : LoadPush(t, n))
             \/ BookFail(t) \/ PopCasFail(t) \/ Commit(t)
    <3>1. /\ pc[t] \notin Active /\ pc'[t] \notin Active
          /\ UNCHANGED <<push_count, pop_count, next_head, buffer, dropped,
                         drain_current, drain_end, draining>>
      BY <2>7 DEF LoadWord, LoadHead, LoadPush, BookFail, PopCasFail, PopTest, Commit, Return,
                  PositionInv, CounterTypes
    <3> QED
      BY ONLY <2>1, <3>1
  <2>8. CASE DrainLeak(t)
    <3>1. /\ draining[t] = "active" /\ draining' = [draining EXCEPT ![t] = "leaked"]
          /\ UNCHANGED <<push_count, pop_count, next_head, buffer, dropped,
                         drain_current, drain_end, pc, localVars>>
      BY <2>8 DEF DrainLeak, threadVars
    <3>2. ASSUME NEW q \in Workers, NEW p \in Int PROVE LiveAt(q, p)' <=> LiveAt(q, p)
      <4>1. draining'[q] = "no" <=> draining[q] = "no"
        BY <3>1 DEF PositionInv, CounterTypes
      <4> QED
        BY <3>1, <4>1 DEF localVars, LiveAt, OwnAt, BookedAt, TailOf, TransferCount
    <3> QED
      BY <2>0, <3>1, <3>2, SlotsStay DEF SlotsLive
  <2> QED
    BY <1>3, <2>6, <2>7, <2>8, PublishSlots, PublishDestSlots, PopCasSlots, BookSlots,
       DrainCommitSlots, WriteSlots, PopReadSlots, DrainNextSlots, CopySlots, DropSlots
       DEF Step
<1> QED
  BY <1>1, <1>2, <1>3 DEF Next, SlotInv

-----------------------------------------------------------------------------
(* Items. *)

\* The items t was given and has not stored yet.
Brought(t) == IF pc[t] = "write" THEN carried[t] + 1 .. carried[t] + count[t] ELSE {}

(* No item is stored twice, or stored and still on its way to a slot. *)
StoreInv ==
    /\ Unique(buffer)
    /\ StoredIn(buffer) \subseteq 1 .. created
    /\ \A t \in Workers : /\ Brought(t) \subseteq 1 .. created
                          /\ Brought(t) \cap StoredIn(buffer) = {}
    /\ \A t, u \in Workers : t # u => Brought(t) \cap Brought(u) = {}

(* What was handed out is the rest. *)
OutInv ==
    /\ out \cap StoredIn(buffer) = {}
    /\ \A t \in Workers : out \cap Brought(t) = {}
    /\ \A x : x \in 1 .. created <=>
          x \in out \/ x \in StoredIn(buffer) \/ \E t \in Workers : x \in Brought(t)

(* A step that stores nothing new and leaves the newcomers alone. *)
LEMMA StoreShrinks ==
    ASSUME StoreInv, Unique(buffer'), StoredIn(buffer') \subseteq StoredIn(buffer),
           created' = created, \A t \in Workers : Brought(t)' = Brought(t)
    PROVE  StoreInv'
<1>1. Unique(buffer)' = Unique(buffer') /\ StoredIn(buffer)' = StoredIn(buffer')
  BY DEF Unique, StoredIn
<1> QED
  BY <1>1 DEF StoreInv

(* The newcomers after a step that is neither push, extend nor their write. *)
LEMMA BroughtStays ==
    ASSUME NEW t \in Workers, OthersKeep(t),
           \/ pc[t] # "write" /\ pc'[t] # "write"
           \/ pc'[t] = pc[t] /\ carried'[t] = carried[t] /\ count'[t] = count[t]
    PROVE  \A u \in Workers : Brought(u)' = Brought(u)
<1>1. Brought(t)' = Brought(t)
  BY DEF Brought
<1>2. ASSUME NEW u \in Workers \ {t} PROVE Brought(u)' = Brought(u)
  BY DEF Brought, OthersKeep
<1> QED
  BY <1>1, <1>2

(* Live positions: what the step moves out is stored, and only that goes. *)
LEMMA LiveRead ==
    ASSUME ItemTypes, SlotsLive, StoreInv, NEW q \in Workers, NEW f \in Int, NEW n \in Int,
           f .. f + n - 1 \subseteq Live(q)
    PROVE  /\ Read(buffer, q, f, n) \subseteq StoredIn(buffer)
           /\ Slots(q, f, n) \subseteq Occupied(buffer, q)
<1>1. Slots(q, f, n) = SlotsAt(q, f .. f + n - 1)
  BY SlotsOfRun
<1>2. Slots(q, f, n) \subseteq Occupied(buffer, q)
  BY <1>1 DEF SlotsLive, SlotsAt
<1> QED
  BY <1>2, ReadStored DEF ItemTypes

(* push and extend bring items that nobody has seen. *)
LEMMA BringItems ==
    ASSUME PositionInv, StoreInv, NEW t \in Workers, OthersKeep(t), buffer' = buffer,
           pc[t] # "write", pc'[t] = "write", NEW n \in Nat, count'[t] = n,
           carried'[t] = created, created' = created + n
    PROVE  /\ StoreInv'
           /\ OutInv /\ out' = out => OutInv'
<1>1. created \in Nat
  BY DEF PositionInv, CounterTypes
<1>2. Brought(t) = {} /\ Brought(t)' = created + 1 .. created + n
  BY DEF Brought
<1>3. \A u \in Workers \ {t} : Brought(u)' = Brought(u)
  BY DEF Brought, OthersKeep
<1>4. Unique(buffer)' = Unique(buffer) /\ StoredIn(buffer)' = StoredIn(buffer)
  BY DEF Unique, StoredIn
<1>5. \A x : /\ x \in (created + 1 .. created + n) => x \notin 1 .. created
             /\ x \in 1 .. created + n <=> x \in 1 .. created \/ x \in created + 1 .. created + n
  BY <1>1
<1>6. StoreInv'
  <2>1. /\ Unique(buffer) /\ StoredIn(buffer) \subseteq 1 .. created
        /\ \A u \in Workers : /\ Brought(u) \subseteq 1 .. created
                              /\ Brought(u) \cap StoredIn(buffer) = {}
        /\ \A u, v \in Workers : u # v => Brought(u) \cap Brought(v) = {}
    BY DEF StoreInv
  <2>2. StoredIn(buffer)' \subseteq 1 .. created'
    BY ONLY <1>4, <1>5, <2>1, created' = created + n
  <2>3. ASSUME NEW u \in Workers
        PROVE  Brought(u)' \subseteq 1 .. created' /\ Brought(u)' \cap StoredIn(buffer)' = {}
    BY ONLY <1>2, <1>3, <1>4, <1>5, <2>1, created' = created + n, t \in Workers, u \in Workers
  <2>4. ASSUME NEW u \in Workers, NEW v \in Workers, u # v PROVE Brought(u)' \cap Brought(v)' = {}
    <3>1. \A w \in Workers \ {t} : Brought(w)' \cap Brought(t)' = {}
      BY ONLY <1>2, <1>3, <1>5, <2>1
    <3>2. CASE u = t \/ v = t
      BY ONLY <2>4, <3>1, <3>2, u \in Workers, v \in Workers
    <3>3. CASE u # t /\ v # t
      <4>1. Brought(u)' = Brought(u) /\ Brought(v)' = Brought(v)
        BY ONLY <1>3, <3>3, u \in Workers, v \in Workers
      <4> QED
        BY ONLY <2>1, <2>4, <4>1, u \in Workers, v \in Workers
    <3> QED
      BY <3>2, <3>3
  <2> QED
    BY ONLY <1>4, <2>1, <2>2, <2>3, <2>4 DEF StoreInv
<1>7. ASSUME OutInv, out' = out PROVE OutInv'
  <2>1. ASSUME NEW x
        PROVE  x \in 1 .. created' <=> \/ x \in out' \/ x \in StoredIn(buffer)'
                                       \/ \E u \in Workers : x \in Brought(u)'
    <3>1. (\E u \in Workers : x \in Brought(u)') <=>
             (\E u \in Workers : x \in Brought(u)) \/ x \in created + 1 .. created + n
      BY ONLY <1>2, <1>3, t \in Workers
    <3> QED
      BY ONLY <1>4, <1>5, <1>7, <3>1, created' = created + n DEF OutInv
  <2>2. \A u \in Workers : out' \cap Brought(u)' = {}
    <3>1. out \subseteq 1 .. created
      BY ONLY <1>7 DEF OutInv
    <3> QED
      BY ONLY <1>2, <1>3, <1>5, <1>7, <3>1, t \in Workers DEF OutInv
  <2> QED
    BY ONLY <1>4, <1>7, <2>1, <2>2 DEF OutInv
<1> QED
  BY <1>6, <1>7

(* write_at moves them to vacant slots. *)
LEMMA WriteItems ==
    ASSUME PositionInv, ItemTypes, SlotInv, StoreInv, NEW t \in Workers, Write(t)
    PROVE  /\ StoreInv'
           /\ OutInv => OutInv'
<1> DEFINE s == [k \in 0 .. count[t] - 1 |-> carried[t] + 1 + k]
           new == my_tail[t] .. my_tail[t] + count[t] - 1
<1>1. /\ pc[t] = "write" /\ pc'[t] = "publish"
      /\ buffer' = Written(buffer, t, my_tail[t], s)
      /\ out' = out /\ created' = created
  BY DEF Write, Goto, wordVars, itemVars, PositionInv, CounterTypes
<1>2. OthersKeep(t)
  BY StepOthers DEF Step
<1>3. /\ new \subseteq Window(t) /\ count[t] <= Capacity[t]
      /\ \A p \in new : ~ LiveAt(t, p)
      /\ my_tail[t] \in Int /\ count[t] \in Nat /\ head[t] \in Int
  BY <1>1, RoomToWrite, Numbers, SMTT(30)
<1>4. /\ s \in [0 .. count[t] - 1 -> Content]
      /\ \A k \in 0 .. count[t] - 1 : s[k] # Vacant /\ s[k] \in Brought(t)
      /\ \A k, l \in 0 .. count[t] - 1 : s[k] = s[l] => k = l
      /\ \A x \in Brought(t) : x - carried[t] - 1 \in 0 .. count[t] - 1 /\ s[x - carried[t] - 1] = x
  <2>1. count[t] \in Nat /\ carried[t] \in Nat
    BY Numbers
  <2>2. Brought(t) = carried[t] + 1 .. carried[t] + count[t]
    BY ONLY <1>1 DEF Brought
  <2>3. \A k \in 0 .. count[t] - 1 : s[k] = carried[t] + 1 + k /\ s[k] \in Nat
    BY ONLY <2>1
  <2>4. s \in [0 .. count[t] - 1 -> Content]
    BY ONLY <2>1 DEF Content
  <2> HIDE DEF s
  <2>5. \A k \in 0 .. count[t] - 1 : s[k] # Vacant /\ s[k] \in Brought(t)
    BY ONLY <2>1, <2>2, <2>3, ClientAssumption
  <2>6. \A k, l \in 0 .. count[t] - 1 : s[k] = s[l] => k = l
    BY ONLY <2>1, <2>3
  <2>7. ASSUME NEW x \in Brought(t)
        PROVE  x - carried[t] - 1 \in 0 .. count[t] - 1 /\ s[x - carried[t] - 1] = x
    <3> DEFINE k == x - carried[t] - 1
    <3>1. k \in 0 .. count[t] - 1 /\ carried[t] + 1 + k = x
      BY ONLY <2>1, <2>2, x \in Brought(t)
    <3> HIDE DEF k
    <3>2. s[k] = x
      BY ONLY <2>3, <3>1
    <3> QED
      BY ONLY <3>1, <3>2 DEF k
  <2> QED
    BY ONLY <2>4, <2>5, <2>6, <2>7
<1>5. BufferShape(buffer) /\ Unique(buffer)
  BY DEF ItemTypes, StoreInv
<1> HIDE DEF s
<1>6. {s[k] : k \in 0 .. count[t] - 1} = Brought(t)
  BY ONLY <1>4
<1>7. Slots(t, my_tail[t], count[t]) \cap Occupied(buffer, t) = {}
  <2>1. new \cap Live(t) = {}
    BY ONLY <1>3 DEF Live
  <2>2. Slots(t, my_tail[t], count[t]) = SlotsAt(t, new)
    BY <1>3, SlotsOfRun
  <2> HIDE DEF new
  <2>3. SlotsAt(t, new) \cap SlotsAt(t, Live(t)) = {}
    <3>1. Near(t, Window(t)) /\ Live(t) \in SUBSET Window(t) /\ new \in SUBSET Window(t)
      BY <1>3, WindowIsNear DEF Window, Live
    <3> QED
      BY ONLY <2>1, <3>1, SlotsDisjoint, t \in Workers
  <2> QED
    BY <2>2, <2>3 DEF SlotInv, SlotsLive
<1>8. FilledIn(buffer', buffer, t, my_tail[t], count[t], s)
  BY ONLY <1>1, <1>3, <1>4, <1>5, WrittenCells, t \in Workers
<1>9. Unique(buffer') /\ StoredIn(buffer') = StoredIn(buffer) \cup {s[k] : k \in 0 .. count[t] - 1}
  <2>1. \A k \in 0 .. count[t] - 1 : s[k] # Vacant /\ s[k] \notin StoredIn(buffer)
    BY <1>4 DEF StoreInv
  <2>2. \A k, l \in 0 .. count[t] - 1 : s[k] = s[l] => k = l
    BY ONLY <1>4
  <2>3. my_tail[t] \in Int /\ count[t] \in Nat
    BY ONLY <1>3
  <2> QED
    BY ONLY <1>5, <1>7, <1>8, <2>1, <2>2, <2>3, WrittenItems, t \in Workers
<1>10. Brought(t)' = {} /\ \A u \in Workers \ {t} : Brought(u)' = Brought(u)
  BY <1>1, <1>2 DEF Brought, OthersKeep
<1>11. Unique(buffer)' /\ StoredIn(buffer)' = StoredIn(buffer) \cup Brought(t)
  <2>1. Unique(buffer)' = Unique(buffer') /\ StoredIn(buffer)' = StoredIn(buffer')
    BY DEF Unique, StoredIn
  <2> QED
    BY ONLY <1>6, <1>9, <2>1
<1>12. StoreInv'
  BY <1>1, <1>10, <1>11 DEF StoreInv
<1>13. ASSUME OutInv PROVE OutInv'
  <2>1. ASSUME NEW x
        PROVE  \/ x \in StoredIn(buffer)' \/ \E u \in Workers : x \in Brought(u)'
               <=> \/ x \in StoredIn(buffer) \/ \E u \in Workers : x \in Brought(u)
    BY ONLY <1>10, <1>11, t \in Workers
  <2>2. out' = out /\ created' = created
    BY <1>1
  <2>3. out' \cap StoredIn(buffer)' = {} /\ \A u \in Workers : out' \cap Brought(u)' = {}
    BY ONLY <1>10, <1>11, <1>13, <2>2, t \in Workers DEF OutInv
  <2> QED
    BY ONLY <1>13, <2>1, <2>2, <2>3 DEF OutInv
<1> QED
  BY <1>12, <1>13

(* What is moved out to a caller was stored and is stored no more. *)
LEMMA HandedOut ==
    ASSUME StoreInv, NEW R, R \subseteq StoredIn(buffer), Unique(buffer'),
           StoredIn(buffer') = StoredIn(buffer) \ R,
           created' = created, \A t \in Workers : Brought(t)' = Brought(t)
    PROVE  /\ StoreInv'
           /\ OutInv /\ out' = out \cup R => OutInv'
<1>1. StoreInv'
  BY StoreShrinks
<1>2. StoredIn(buffer)' = StoredIn(buffer')
  BY DEF StoredIn
<1>3. ASSUME OutInv, out' = out \cup R PROVE OutInv'
  <2>1. out' \cap StoredIn(buffer)' = {}
    BY <1>2, <1>3 DEF OutInv
  <2>2. ASSUME NEW t \in Workers PROVE out' \cap Brought(t)' = {}
    BY <1>3 DEF OutInv, StoreInv
  <2>3. ASSUME NEW x
        PROVE  x \in 1 .. created' <=> \/ x \in out' \/ x \in StoredIn(buffer)'
                                       \/ \E u \in Workers : x \in Brought(u)'
    BY <1>2, <1>3 DEF OutInv
  <2> QED
    BY ONLY <2>1, <2>2, <2>3 DEF OutInv
<1> QED
  BY <1>1, <1>3

(* Moving the items of live positions out hands them over. *)
LEMMA MoveOutItems ==
    ASSUME PositionInv, ItemTypes, SlotInv, StoreInv, NEW q \in Workers, NEW f \in Int,
           NEW n \in Int, \A p \in f .. f + n - 1 : LiveAt(q, p),
           buffer' = MovedOut(buffer, q, f, n), out' = out \cup Read(buffer, q, f, n),
           created' = created, \A t \in Workers : Brought(t)' = Brought(t)
    PROVE  /\ StoreInv'
           /\ OutInv => OutInv'
<1>1. f .. f + n - 1 \subseteq Live(q)
  <2>1. f .. f + n - 1 \subseteq Int
    OBVIOUS
  <2> QED
    BY <2>1, LiveInWindow DEF LiveNear, Live
<1>2. Read(buffer, q, f, n) \subseteq StoredIn(buffer)
  BY <1>1, LiveRead DEF SlotInv
<1>3. Unique(buffer') /\ StoredIn(buffer') = StoredIn(buffer) \ Read(buffer, q, f, n)
  BY MovedOutItems DEF ItemTypes, StoreInv
<1> QED
  BY <1>2, <1>3, HandedOut

(* A bulk copy keeps the items, but for the one steal_and_pop returns. *)
LEMMA CopyItems ==
    ASSUME PositionInv, PositionInv', ItemTypes, SlotInv, StoreInv, NEW t \in Workers, Copy(t)
    PROVE  /\ StoreInv'
           /\ OutInv => OutInv'
<1> DEFINE v == victim[t]
           c == count[t]
           n == TransferCount(t)
           f == seen_head[t]
           R == Read(buffer, v, f + n, c - n)
<1>1. /\ pc[t] = "copy" /\ pc'[t] = "publish_dest" /\ v \in Workers
      /\ buffer' = Copied(buffer, v, f, c, t, my_tail[t], n)
      /\ out' = out \cup R /\ created' = created
  BY DEF Copy, Copied, Goto, PositionInv, CounterTypes
<1>2. OthersKeep(t)
  BY StepOthers DEF Step
<1>3. n \in 0 .. c /\ c \in Nat /\ f \in Int /\ my_tail[t] \in Int /\ n \in Nat
  BY <1>1, Transferred, Numbers DEF Stealing
<1>4. c <= Capacity[v]
  <2>1. /\ head[v] = f /\ next_head[v] = f + c
    BY <1>1 DEF PositionInv, Holds, Stealing
  <2> QED
    BY <1>1, <1>3, <2>1, Numbers
<1>5. n <= Capacity[t]
  BY <1>1, <1>3, RoomToWrite
<1>6. /\ Slots(v, f, c) \subseteq Occupied(buffer, v)
      /\ Slots(t, my_tail[t], n) \cap Occupied(buffer, t) = {}
  BY CopySlots DEF StoreInv
<1>7. BufferShape(buffer) /\ Unique(buffer)
  BY DEF ItemTypes, StoreInv
<1> HIDE DEF v, c, n, f
<1>8. Unique(buffer') /\ StoredIn(buffer') = StoredIn(buffer) \ R /\ R \subseteq StoredIn(buffer)
  <2>1. CopyFits(buffer, v, f, c, t, my_tail[t], n)
    BY ONLY <1>1, <1>3, <1>4, <1>5, <1>6, <1>7, t \in Workers DEF CopyFits
  <2> QED
    BY ONLY <1>1, <2>1, CopyMoves
<1>9. \A u \in Workers : Brought(u)' = Brought(u)
  BY <1>1, <1>2, BroughtStays
<1> HIDE DEF R
<1> QED
  BY <1>1, <1>8, <1>9, HandedOut

(* A leaked Drain keeps its queue: a queue with a leaked Drain is never     *)
(* dropped.                                                                 *)
LeakedKept == \A q \in Workers : draining[q] = "leaked" => q \notin dropped

(* Queue::drop releases every item of the queue, and hands over nothing     *)
(* else if no Drain was leaked.                                             *)
LEMMA DropItems ==
    ASSUME PositionInv, ItemTypes, SlotInv, StoreInv, NEW t \in Workers, Drop(t)
    PROVE  /\ StoreInv'
           /\ OutInv /\ LeakedKept' => OutInv'
<1> DEFINE n == OwnLen(t)
<1>1. /\ t \notin dropped /\ draining[t] # "active" /\ dropped' = dropped \cup {t}
      /\ \A u \in Workers : pc[u] # "idle" => victim[u] # t
      /\ buffer' = MovedOut(buffer, t, head[t], n) /\ draining' = draining
      /\ out' = out \cup Read(buffer, t, head[t], n) /\ created' = created
      /\ pc' = pc /\ carried' = carried /\ count' = count
  BY DEF Drop, threadVars, localVars, drainVars
<1>2. OthersKeep(t)
  BY StepOthers DEF Step
<1>3. n = TailOf(t) - head[t] /\ n \in Int /\ head[t] \in Int /\ TailOf(t) \in Int
  BY OwnLenExact, Numbers
<1> HIDE DEF n
<1>4. \A u \in Workers : Brought(u)' = Brought(u)
  BY <1>1, <1>2, BroughtStays
<1>5. Unique(buffer') /\ StoredIn(buffer') = StoredIn(buffer) \ Read(buffer, t, head[t], n)
  BY <1>1, <1>3, MovedOutItems DEF ItemTypes, StoreInv
<1>6. StoreInv'
  BY <1>1, <1>4, <1>5, StoreShrinks
<1>7. ASSUME LeakedKept' PROVE OutInv => OutInv'
  <2>1. draining[t] = "no"
    BY <1>1, <1>7 DEF LeakedKept, PositionInv, CounterTypes
  <2>2. head[t] = next_head[t]
    <3>1. \A u \in Workers : ~ (Stealing(u) /\ victim[u] = t)
      BY <1>1 DEF Stealing
    <3> QED
      BY <2>1, <3>1 DEF PositionInv, NoOrphan
  <2>3. ASSUME NEW p \in head[t] .. head[t] + n - 1 PROVE LiveAt(t, p)
    BY <1>1, <1>3, <2>2 DEF LiveAt
  <2> QED
    BY <1>1, <1>3, <1>4, <2>3, MoveOutItems
<1> QED
  BY <1>6, <1>7

(* Every step keeps the items apart, and accounts for all of them unless a  *)
(* queue with a leaked Drain is dropped.                                    *)
LEMMA NextStoreInv ==
    ASSUME PositionInv, PositionInv', ItemTypes, SlotInv, StoreInv, [Next]_vars
    PROVE  /\ StoreInv'
           /\ OutInv /\ LeakedKept' => OutInv'
<1>1. ASSUME NEW t \in Workers, OthersKeep(t), buffer' = buffer, out' = out, created' = created,
             \/ pc[t] # "write" /\ pc'[t] # "write"
             \/ pc'[t] = pc[t] /\ carried'[t] = carried[t] /\ count'[t] = count[t]
      PROVE  StoreInv' /\ (OutInv => OutInv')
  <2>1. \A u \in Workers : Brought(u)' = Brought(u)
    BY <1>1, BroughtStays
  <2>2. Unique(buffer') /\ StoredIn(buffer') = StoredIn(buffer) \ {} /\ out' = out \cup {}
    BY <1>1 DEF StoreInv
  <2>3. {} \subseteq StoredIn(buffer)
    OBVIOUS
  <2> QED
    BY <1>1, <2>1, <2>2, <2>3, HandedOut
<1>2. CASE UNCHANGED vars
  <2>1. \A u \in Workers : Brought(u)' = Brought(u)
    BY <1>2 DEF vars, threadVars, localVars, Brought
  <2>2. /\ Unique(buffer') /\ StoredIn(buffer') = StoredIn(buffer) \ {} /\ out' = out \cup {}
        /\ created' = created
    BY <1>2 DEF vars, queueVars, itemVars, StoreInv
  <2>3. {} \subseteq StoredIn(buffer)
    OBVIOUS
  <2> QED
    BY <2>1, <2>2, <2>3, HandedOut
<1>3. ASSUME NEW t \in Workers, Step(t) PROVE StoreInv' /\ (OutInv /\ LeakedKept' => OutInv')
  <2>0. OthersKeep(t)
    BY <1>3, StepOthers
  <2>1. CASE Push(t)
    <3>1. /\ pc[t] = "idle" /\ pc'[t] = "write" /\ count'[t] = 1 /\ carried'[t] = created
          /\ created' = created + 1 /\ buffer' = buffer /\ out' = out
      BY <2>1 DEF Push, Call, Carry, Goto, queueVars, PositionInv, CounterTypes
    <3> QED
      BY <2>0, <3>1, BringItems
  <2>2. CASE \E n \in 0 .. MaxCreated : Extend(t, n)
    <3>1. PICK n \in 0 .. MaxCreated : Extend(t, n)
      BY <2>2
    <3> DEFINE m == Least(n, WrappingSub(head[t] + Capacity[t], TailOf(t)))
    <3>2. m \in Nat
      <4>1. WrappingSub(head[t] + Capacity[t], TailOf(t)) \in Nat
        BY RoomExact, Numbers
      <4> QED
        BY <4>1, ClientAssumption DEF Least
    <3>3. /\ pc[t] = "idle" /\ pc'[t] = "write" /\ count'[t] = m /\ carried'[t] = created
          /\ created' = created + m /\ buffer' = buffer /\ out' = out
      BY <3>1 DEF Extend, Call, Carry, Goto, queueVars, PositionInv, CounterTypes
    <3> HIDE DEF m
    <3> QED
      BY <2>0, <3>2, <3>3, BringItems
  <2>3. CASE PopRead(t)
    <3>1. /\ pc[t] = "pop_read" /\ pc'[t] = "idle"
          /\ buffer' = MovedOut(buffer, t, my_tail[t] - 1, 1)
          /\ out' = out \cup Read(buffer, t, my_tail[t] - 1, 1)
          /\ created' = created
      BY <2>3 DEF PopRead, Return, Goto, PositionInv, CounterTypes
    <3>2. my_tail[t] - 1 \in Int
      BY Numbers
    <3>3. \A p \in my_tail[t] - 1 .. (my_tail[t] - 1) + 1 - 1 : LiveAt(t, p)
      BY <3>1, <3>2 DEF LiveAt, OwnAt
    <3>4. \A u \in Workers : Brought(u)' = Brought(u)
      BY <2>0, <3>1, BroughtStays
    <3> QED
      BY <3>1, <3>2, <3>3, <3>4, MoveOutItems
  <2>4. CASE DrainNext(t)
    <3>1. /\ draining[t] = "active" /\ drain_current[t] # drain_end[t]
          /\ buffer' = MovedOut(buffer, t, drain_current[t], 1)
          /\ out' = out \cup Read(buffer, t, drain_current[t], 1)
          /\ created' = created /\ pc' = pc /\ carried' = carried /\ count' = count
      BY <2>4 DEF DrainNext, threadVars, localVars
    <3>2. drain_current[t] \in Int /\ drain_end[t] \in Int /\ drain_current[t] < drain_end[t]
      <4>1. drain_current[t] <= drain_end[t]
        BY <3>1 DEF PositionInv, DrainHolds
      <4> QED
        BY <3>1, <4>1, Numbers
    <3>3. \A p \in drain_current[t] .. drain_current[t] + 1 - 1 : LiveAt(t, p)
      <4>1. t \notin dropped
        BY <3>1 DEF SlotInv, GoneIsQuiet
      <4> QED
        BY <3>1, <3>2, <4>1 DEF LiveAt
    <3>4. \A u \in Workers : Brought(u)' = Brought(u)
      BY <2>0, <3>1, BroughtStays
    <3> QED
      BY <3>1, <3>2, <3>3, <3>4, MoveOutItems
  <2> USE DEF Goto, queueVars, itemVars
  <2>5. CASE \/ Publish(t) \/ Pop(t) \/ PopCasOk(t) \/ PopCasFail(t) \/ DrainCall(t)
             \/ (\E v \in Workers, name \in OpNames : Steal(t, v, name))
    <3>1. /\ pc[t] # "write" /\ pc'[t] # "write"
          /\ buffer' = buffer /\ out' = out /\ created' = created
      BY <2>5 DEF Publish, Pop, PopCasOk, PopCasFail, PopTest, Call, Return, DrainCall, Steal,
                  PositionInv, CounterTypes
    <3> QED
      BY <1>1, <2>0, <3>1
  <2>6. CASE \/ LoadWord(t) \/ LoadHead(t) \/ (\E n \in 0 .. Modulus - 1 : LoadPush(t, n))
             \/ BookOk(t) \/ BookFail(t) \/ PublishDest(t) \/ Commit(t)
    <3>1. /\ pc[t] # "write" /\ pc'[t] # "write"
          /\ buffer' = buffer /\ out' = out /\ created' = created
      BY <2>6 DEF LoadWord, LoadHead, LoadPush, BookOk, BookFail, PublishDest, Commit, Return,
                  PositionInv, CounterTypes
    <3> QED
      BY <1>1, <2>0, <3>1
  <2>7. CASE DrainCommit(t) \/ DrainLeak(t)
    <3>1. /\ pc' = pc /\ carried' = carried /\ count' = count
          /\ buffer' = buffer /\ out' = out /\ created' = created
      BY <2>7 DEF DrainCommit, DrainLeak, threadVars, localVars
    <3> QED
      BY <1>1, <2>0, <3>1
  <2> QED
    BY <1>3, <2>1, <2>2, <2>3, <2>4, <2>5, <2>6, <2>7, WriteItems, CopyItems, DropItems DEF Step
<1> QED
  BY <1>2, <1>3 DEF Next

(* Initially there is no item. *)
LEMMA InitStoreInv == Init => StoreInv /\ OutInv
<1> SUFFICES ASSUME Init PROVE StoreInv /\ OutInv
  OBVIOUS
<1>1. BufferShape(buffer) /\ \A q \in Workers : \A i \in 0 .. Capacity[q] - 1 : buffer[q][i] = Vacant
  BY InitItemTypes DEF Init, EmptyBuffers, ItemTypes
<1>2. StoredIn(buffer) = {}
  <2>1. ASSUME NEW x PROVE x \notin StoredIn(buffer)
    BY <1>1, StoredCells
  <2> QED
    BY <2>1
<1>3. Unique(buffer)
  BY <1>1, UniqueCells
<1>4. \A t \in Workers : Brought(t) = {}
  BY DEF Init, Brought
<1>5. created = 0 /\ out = {} /\ 1 .. created = {}
  BY DEF Init
<1> QED
  BY ONLY <1>2, <1>3, <1>4, <1>5 DEF StoreInv, OutInv

-----------------------------------------------------------------------------
(* The contract of the slots. *)

\* The positions of q that the next step of t, or of the Drain of q, reads ...
ReadAt(t, q) ==
    {p \in Window(q) :
        \/ pc[t] = "pop_read" /\ t = q /\ p = my_tail[t] - 1
        \/ pc[t] = "copy" /\ victim[t] = q /\ seen_head[t] <= p /\ p < seen_head[t] + count[t]}

DrainAt(q) ==
    {p \in Window(q) : draining[q] = "active" /\ drain_current[q] <= p /\ p < drain_end[q]}

\* ... and those its owner writes.
WriteAt(q) ==
    {p \in Window(q) :
        \/ pc[q] = "write" /\ my_tail[q] <= p /\ p < my_tail[q] + count[q]
        \/ pc[q] = "copy" /\ my_tail[q] <= p /\ p < my_tail[q] + TransferCount(q)}

(* What is read is live ... *)
LEMMA ReadsAreLive ==
    ASSUME PositionInv, SlotInv, NEW q \in Workers
    PROVE  /\ \A t \in Workers : /\ ThreadReads(t, q) = SlotsAt(q, ReadAt(t, q))
                                 /\ ReadAt(t, q) \subseteq Live(q)
           /\ DrainReads(q) = SlotsAt(q, DrainAt(q))
           /\ DrainAt(q) \subseteq Live(q)
<1>0. Window(q) \subseteq Int /\ \A p \in Int : LiveAt(q, p) => p \in Window(q)
  BY Numbers, LiveInWindow DEF Window, LiveNear
<1>1. ASSUME NEW t \in Workers
      PROVE  ThreadReads(t, q) = SlotsAt(q, ReadAt(t, q)) /\ ReadAt(t, q) \subseteq Live(q)
  <2>0. my_tail[t] \in Int /\ seen_head[t] \in Int /\ count[t] \in Int
    BY Numbers
  <2>1. CASE pc[t] = "pop_read" /\ t = q
    <3>1. LiveAt(q, my_tail[t] - 1)
      BY <2>1 DEF LiveAt, OwnAt
    <3>2. ReadAt(t, q) = my_tail[t] - 1 .. (my_tail[t] - 1) + 1 - 1
      BY ONLY <1>0, <2>0, <2>1, <3>1 DEF ReadAt
    <3>3. ThreadReads(t, q) = Slots(q, my_tail[t] - 1, 1)
      BY ONLY <2>1 DEF ThreadReads
    <3>4. ThreadReads(t, q) = SlotsAt(q, ReadAt(t, q))
      BY <2>0, <3>2, <3>3, SlotsOfRun
    <3>5. ReadAt(t, q) \subseteq Live(q)
      BY ONLY <1>0, <2>0, <2>1, <3>1 DEF ReadAt, Live
    <3> QED
      BY <3>4, <3>5
  <2>2. CASE pc[t] = "copy" /\ victim[t] = q
    <3>1. \A p \in Int : seen_head[t] <= p /\ p < seen_head[t] + count[t] => LiveAt(q, p)
      BY <2>2 DEF LiveAt, BookedAt
    <3>2. ReadAt(t, q) = seen_head[t] .. seen_head[t] + count[t] - 1
      BY ONLY <1>0, <2>0, <2>2, <3>1 DEF ReadAt
    <3>3. ThreadReads(t, q) = Slots(q, seen_head[t], count[t])
      BY ONLY <2>2 DEF ThreadReads
    <3>4. ThreadReads(t, q) = SlotsAt(q, ReadAt(t, q))
      BY <2>0, <3>2, <3>3, SlotsOfRun
    <3>5. ReadAt(t, q) \subseteq Live(q)
      BY ONLY <1>0, <2>0, <2>2, <3>1 DEF ReadAt, Live
    <3> QED
      BY <3>4, <3>5
  <2>3. CASE ~ (pc[t] = "pop_read" /\ t = q) /\ ~ (pc[t] = "copy" /\ victim[t] = q)
    <3>1. ThreadReads(t, q) = {} /\ ReadAt(t, q) = {}
      BY ONLY <2>3 DEF ThreadReads, ReadAt
    <3> QED
      BY ONLY <3>1 DEF SlotsAt
  <2> QED
    BY <2>1, <2>2, <2>3
<1>2. DrainReads(q) = SlotsAt(q, DrainAt(q)) /\ DrainAt(q) \subseteq Live(q)
  <2>0. drain_current[q] \in Int /\ drain_end[q] \in Int
    BY Numbers
  <2>1. CASE draining[q] = "active"
    <3>1. q \notin dropped
      BY <2>1 DEF SlotInv, GoneIsQuiet
    <3>2. \A p \in Int : drain_current[q] <= p /\ p < drain_end[q] => LiveAt(q, p)
      BY <2>1, <3>1 DEF LiveAt
    <3>3. DrainAt(q) = drain_current[q] .. drain_current[q] + (drain_end[q] - drain_current[q]) - 1
      BY ONLY <1>0, <2>0, <2>1, <3>2 DEF DrainAt
    <3>4. DrainReads(q) = SlotsAt(q, DrainAt(q))
      BY <2>0, <2>1, <3>3, SlotsOfRun DEF DrainReads
    <3>5. DrainAt(q) \subseteq Live(q)
      BY ONLY <1>0, <3>2 DEF DrainAt, Live
    <3> QED
      BY <3>4, <3>5
  <2>2. CASE draining[q] # "active"
    <3>1. DrainReads(q) = {} /\ DrainAt(q) = {}
      BY ONLY <2>2 DEF DrainReads, DrainAt
    <3> QED
      BY ONLY <3>1 DEF SlotsAt
  <2> QED
    BY <2>1, <2>2
<1> QED
  BY <1>1, <1>2

(* ... what is written is not ... *)
LEMMA WritesAreNew ==
    ASSUME PositionInv, NEW q \in Workers
    PROVE  /\ ThreadWrites(q) = SlotsAt(q, WriteAt(q))
           /\ WriteAt(q) \cap Live(q) = {}
<1>0. my_tail[q] \in Int /\ count[q] \in Nat /\ Window(q) \subseteq Int
  BY Numbers DEF Window
<1>1. ASSUME NEW n \in Nat, pc[q] \in {"write", "copy"},
             IF pc[q] = "write" THEN n = count[q] ELSE n = TransferCount(q)
      PROVE  ThreadWrites(q) = SlotsAt(q, WriteAt(q)) /\ WriteAt(q) \cap Live(q) = {}
  <2>1. /\ my_tail[q] .. my_tail[q] + n - 1 \subseteq Window(q)
        /\ \A p \in my_tail[q] .. my_tail[q] + n - 1 : ~ LiveAt(q, p)
    BY <1>1, RoomToWrite
  <2>2. WriteAt(q) = my_tail[q] .. my_tail[q] + n - 1
    <3>1. WriteAt(q) = {p \in Window(q) : my_tail[q] <= p /\ p < my_tail[q] + n}
      BY <1>1 DEF WriteAt
    <3> QED
      BY ONLY <1>0, <2>1, <3>1, n \in Nat
  <2>3. ThreadWrites(q) = Slots(q, my_tail[q], n)
    BY <1>1 DEF ThreadWrites
  <2> QED
    BY <1>0, <2>1, <2>2, <2>3, SlotsOfRun DEF Live
<1>2. CASE pc[q] = "write"
  BY <1>0, <1>1, <1>2
<1>3. CASE pc[q] = "copy"
  <2>1. TransferCount(q) \in Nat
    BY <1>0, <1>3, Transferred DEF Stealing
  <2> QED
    BY <1>1, <1>3, <2>1
<1>4. CASE pc[q] \notin {"write", "copy"}
  <2>1. ThreadWrites(q) = {} /\ WriteAt(q) = {}
    BY <1>4 DEF ThreadWrites, WriteAt
  <2> QED
    BY ONLY <2>1 DEF SlotsAt
<1> QED
  BY <1>2, <1>3, <1>4

(* ... and no two of the owner, the thief and the Drain share a position. *)
LEMMA ReadsApart ==
    ASSUME PositionInv, NEW q \in Workers, NEW t \in Workers
    PROVE  /\ ReadAt(t, q) \cap DrainAt(q) = {}
           /\ \A u \in Workers \ {t} : ReadAt(t, q) \cap ReadAt(u, q) = {}
<1>0. Window(q) \subseteq Int
  BY Numbers DEF Window
<1>1. ASSUME NEW u \in Workers, pc[u] = "copy", victim[u] = q
      PROVE  /\ next_head[q] = seen_head[u] + count[u] /\ draining[q] = "no" /\ Stealing(u)
             /\ seen_head[u] \in Int /\ count[u] \in Int
  BY <1>1, Numbers DEF PositionInv, Holds, Stealing
<1>2. ASSUME pc[q] = "pop_read" PROVE my_tail[q] - 1 >= next_head[q]
  BY <1>2, Numbers, OwnAbove DEF OwnAt
<1>3. next_head[q] \in Int /\ my_tail[q] \in Int /\ drain_end[q] \in Int
  BY Numbers
<1>4. ReadAt(t, q) \cap DrainAt(q) = {}
  <2> SUFFICES ASSUME NEW p \in Window(q), p \in ReadAt(t, q), p \in DrainAt(q) PROVE FALSE
    BY DEF ReadAt
  <2>1. draining[q] = "active" /\ p < drain_end[q] /\ p \in Int
    BY <1>0 DEF DrainAt
  <2>2. drain_end[q] = next_head[q]
    BY <2>1 DEF PositionInv, DrainHolds
  <2>3. pc[q] = "pop_read" /\ p = my_tail[q] - 1
    BY <1>1, <2>1 DEF ReadAt
  <2> QED
    BY ONLY <1>2, <1>3, <2>1, <2>2, <2>3
<1>5. ASSUME NEW u \in Workers \ {t} PROVE ReadAt(t, q) \cap ReadAt(u, q) = {}
  <2> SUFFICES ASSUME NEW p \in Window(q), p \in ReadAt(t, q), p \in ReadAt(u, q) PROVE FALSE
    BY DEF ReadAt
  <2>1. ASSUME NEW a \in Workers, pc[a] = "pop_read", a = q, p = my_tail[a] - 1,
               NEW b \in Workers, pc[b] = "copy", victim[b] = q, p < seen_head[b] + count[b]
        PROVE  FALSE
    BY <1>0, <1>1, <1>2, <1>3, <2>1
  <2>2. CASE pc[t] = "copy" /\ pc[u] = "copy"
    <3>1. Stealing(t) /\ Stealing(u) /\ victim[t] = victim[u]
      BY <1>1, <2>2 DEF ReadAt
    <3> QED
      BY <3>1 DEF PositionInv, Alone
  <2> QED
    BY <2>1, <2>2 DEF ReadAt
<1> QED
  BY <1>4, <1>5

(* The invariants of the positions and of the slots imply the contract.     *)
LEMMA ContractFollows == PositionInv /\ SlotInv => SlotContract
<1> SUFFICES ASSUME PositionInv, SlotInv, NEW q \in Workers
             PROVE  /\ \A t \in Workers : \A i \in ThreadReads(t, q) : buffer[q][i] # Vacant
                    /\ \A i \in DrainReads(q) : buffer[q][i] # Vacant
                    /\ \A i \in ThreadWrites(q) : buffer[q][i] = Vacant
                    /\ \A t \in Workers :
                          /\ ThreadReads(t, q) \cap (DrainReads(q) \cup ThreadWrites(q)) = {}
                          /\ \A u \in Workers \ {t} : ThreadReads(t, q) \cap ThreadReads(u, q) = {}
  BY DEF SlotContract
<1>1. Near(q, Window(q)) /\ Window(q) \subseteq Int
  BY WindowIsNear, Numbers, SMTT(30) DEF Window
<1>2. Occupied(buffer, q) = SlotsAt(q, Live(q))
  BY DEF SlotInv, SlotsLive
<1>3. \A i \in SlotsAt(q, Live(q)) : buffer[q][i] # Vacant
  BY <1>2 DEF Occupied
<1>4. /\ Live(q) \in SUBSET Window(q) /\ WriteAt(q) \in SUBSET Window(q)
      /\ DrainAt(q) \in SUBSET Window(q) /\ \A t \in Workers : ReadAt(t, q) \in SUBSET Window(q)
  BY DEF Live, WriteAt, DrainAt, ReadAt
<1>5. ASSUME NEW i \in SlotsAt(q, WriteAt(q)) PROVE buffer[q][i] = Vacant
  <2>1. SlotsAt(q, WriteAt(q)) \cap SlotsAt(q, Live(q)) = {}
    BY ONLY <1>1, <1>4, WritesAreNew, PositionInv, SlotsDisjoint, q \in Workers
  <2>2. i \in 0 .. Capacity[q] - 1
    BY <1>1, <1>4, SlotType DEF SlotsAt
  <2> QED
    BY <1>2, <2>1, <2>2 DEF Occupied
<1>6. ASSUME NEW A \in SUBSET Live(q)
      PROVE  \A i \in SlotsAt(q, A) : buffer[q][i] # Vacant
  BY <1>3 DEF SlotsAt
<1>7. ASSUME NEW t \in Workers
      PROVE  /\ SlotsAt(q, ReadAt(t, q)) \cap SlotsAt(q, DrainAt(q)) = {}
             /\ SlotsAt(q, ReadAt(t, q)) \cap SlotsAt(q, WriteAt(q)) = {}
             /\ \A u \in Workers \ {t} :
                   SlotsAt(q, ReadAt(t, q)) \cap SlotsAt(q, ReadAt(u, q)) = {}
  <2>1. ReadAt(t, q) \cap WriteAt(q) = {}
    BY ReadsAreLive, WritesAreNew
  <2> QED
    BY ONLY <1>1, <1>4, <2>1, PositionInv, ReadsApart, SlotsDisjoint, q \in Workers, t \in Workers
<1> QED
  BY <1>5, <1>6, <1>7, ReadsAreLive, WritesAreNew

(* read_at and write_at keep their contract: what is read was initialized   *)
(* and not moved out, what is written holds no item, and no two threads     *)
(* access one slot at a time, whatever the width of the counters.           *)
THEOREM SlotContractKept == Spec => []SlotContract
<1>1. PositionInv /\ PositionInv' /\ ItemTypes /\ SlotInv /\ StoreInv /\ [Next]_vars
        => SlotInv' /\ StoreInv'
  BY NextSlotInv, NextStoreInv DEF StoreInv
<1> QED
  BY <1>1, InitPositionInv, NextPositionInv, InitItemTypes, NextItemTypes, InitSlotInv,
     InitStoreInv, ContractFollows, PTL DEF Spec

(* The invariants account for every item. *)
LEMMA AccountFollows ==
    PositionInv /\ ItemTypes /\ SlotInv /\ StoreInv /\ OutInv => ExactlyOnce
<1> SUFFICES ASSUME PositionInv, ItemTypes, SlotInv, StoreInv, OutInv PROVE ExactlyOnce
  OBVIOUS
<1>1. Stored = StoredIn(buffer)
  BY DEF Stored, StoredIn
<1>2. ASSUME NEW x PROVE x \in Carried <=> \E t \in Workers : x \in Brought(t)
  BY DEF Carried, Brought
<1>3. out \cup Stored \cup Carried = 1 .. created
  BY ONLY <1>1, <1>2, OutInv DEF OutInv
<1>4. out \cap Stored = {} /\ (out \cup Stored) \cap Carried = {}
  BY ONLY <1>1, <1>2, OutInv, StoreInv DEF OutInv, StoreInv
<1>5. ASSUME NEW q \in dropped, NEW i \in DOMAIN buffer[q] PROVE buffer[q][i] = Vacant
  <2>1. q \in Workers /\ i \in 0 .. Capacity[q] - 1
    BY DEF ItemTypes, BufferShape
  <2>2. ASSUME NEW p \in Int PROVE ~ LiveAt(q, p)
    BY DEF SlotInv, GoneIsQuiet, LiveAt, OwnAt, BookedAt
  <2>3. Live(q) = {}
    <3>1. Window(q) \subseteq Int
      BY <2>1, Numbers DEF Window
    <3> QED
      BY ONLY <2>2, <3>1 DEF Live
  <2>4. Occupied(buffer, q) = {}
    BY <2>1, <2>3 DEF SlotInv, SlotsLive, SlotsAt
  <2> QED
    BY ONLY <2>1, <2>4 DEF Occupied
<1> QED
  BY <1>3, <1>4, <1>5 DEF ExactlyOnce, StoreInv, Unique

(* Every item given to push or extend is on its way to its slot, in exactly *)
(* one slot, or was handed out, once, as long as no queue is dropped while  *)
(* a Drain of it is leaked.  (Without that Queue::drop releases the slots   *)
(* from head on, the ones the Drain has read from included.)                *)
THEOREM ItemsExactlyOnce == Spec /\ []LeakedKept => []ExactlyOnce
<1>1. PositionInv /\ PositionInv' /\ ItemTypes /\ SlotInv /\ StoreInv /\ OutInv
        /\ LeakedKept' /\ [Next]_vars
        => SlotInv' /\ StoreInv' /\ OutInv'
  <2> SUFFICES ASSUME PositionInv, PositionInv', ItemTypes, SlotInv, StoreInv, OutInv,
                      LeakedKept', [Next]_vars
               PROVE  SlotInv' /\ StoreInv' /\ OutInv'
    OBVIOUS
  <2>1. Unique(buffer)
    BY DEF StoreInv
  <2>2. SlotInv'
    BY <2>1, NextSlotInv
  <2> QED
    BY <2>2, NextStoreInv
<1> QED
  BY <1>1, InitPositionInv, NextPositionInv, InitItemTypes, NextItemTypes, InitSlotInv,
     InitStoreInv, AccountFollows, PTL DEF Spec

(* That is the case where clients leak no Drain at all. *)
LEMMA NothingLeaks ==
    ASSUME ~ AllowLeak
    PROVE  Spec => []LeakedKept
<1> DEFINE NoneLeaked == \A q \in Workers : draining[q] # "leaked"
<1>1. Init => NoneLeaked
  BY DEF Init
<1>2. PositionInv /\ NoneLeaked /\ [Next]_vars => NoneLeaked'
  <2> SUFFICES ASSUME PositionInv, NoneLeaked, [Next]_vars, NEW q \in Workers
               PROVE  draining'[q] # "leaked"
    OBVIOUS
  <2>1. CASE UNCHANGED vars
    BY <2>1 DEF vars, drainVars
  <2>2. ASSUME NEW t \in Workers, Step(t) PROVE draining'[q] # "leaked"
    <3>0. draining \in [Workers -> {"no", "active", "leaked"}]
      BY DEF PositionInv, CounterTypes
    <3>1. CASE BookOk(t) \/ DrainCommit(t) \/ DrainLeak(t)
      BY <3>0, <3>1 DEF BookOk, DrainCommit, DrainLeak, drainVars
    <3>2. CASE ~ (BookOk(t) \/ DrainCommit(t) \/ DrainLeak(t))
      BY <2>2, <3>2 DEF Step, Push, Extend, Write, Publish, Pop, PopCasOk, PopCasFail, PopRead,
         Steal, DrainCall, LoadWord, LoadHead, LoadPush, BookFail, Copy, PublishDest, Commit,
         DrainNext, Drop, drainVars
    <3> QED
      BY <3>1, <3>2
  <2> QED
    BY <2>1, <2>2 DEF Next
<1>3. NoneLeaked => LeakedKept
  BY DEF LeakedKept
<1> QED
  BY <1>1, <1>2, <1>3, InitPositionInv, NextPositionInv, PTL DEF Spec

(* No item is lost or handed out twice then. *)
THEOREM NoLeakNoLoss ==
    ASSUME ~ AllowLeak
    PROVE  Spec => []ExactlyOnce
  BY NothingLeaks, ItemsExactlyOnce, PTL

-----------------------------------------------------------------------------
(* The refinement: what the contract sees of the queues *)

\* The positions of q that t holds, that can be popped or booked, that the Drain has left.
HandAt(t, q, p) ==
    \/ pc[t] = "pop_read" /\ q = t /\ p = my_tail[t] - 1
    \/ pc[t] = "copy" /\ q = victim[t] /\ seen_head[t] <= p /\ p < seen_head[t] + count[t]
    \/ pc[t] = "publish_dest" /\ q = t /\ my_tail[t] <= p /\ p < my_tail[t] + TransferCount(t)

DequeAt(q, p) == q \notin dropped /\ next_head[q] <= p /\ p < TailOf(q)

DrainedAt(q, p) == draining[q] # "no" /\ drain_current[q] <= p /\ p < drain_end[q]

SeenAt(q, p) == DequeAt(q, p) \/ DrainedAt(q, p) \/ \E t \in Workers : HandAt(t, q, p)

\* The slot of the position p of q keeps its item.
Kept(q, p) == buffer'[q][Slot(q, p)] = buffer[q][Slot(q, p)]

RefInv ==
    /\ PositionInv /\ ItemTypes /\ SlotInv /\ StoreInv /\ OutInv /\ LeakedKept
    /\ created <= MaxCreated

(* All of them are live. *)
LEMMA SeenIsLive ==
    ASSUME RefInv, NEW q \in Workers, NEW p \in Int, SeenAt(q, p)
    PROVE  LiveAt(q, p)
<1>1. CASE DequeAt(q, p)
  BY <1>1 DEF DequeAt, LiveAt
<1>2. CASE DrainedAt(q, p)
  <2>1. q \notin dropped
    BY <1>2 DEF RefInv, DrainedAt, LeakedKept, SlotInv, GoneIsQuiet, PositionInv, CounterTypes
  <2> QED
    BY <1>2, <2>1 DEF DrainedAt, LiveAt
<1>3. CASE \E t \in Workers : HandAt(t, q, p)
  BY <1>3 DEF HandAt, LiveAt, OwnAt, BookedAt
<1> QED
  BY <1>1, <1>2, <1>3 DEF SeenAt

(* Live positions hold items, each a different one. *)
LEMMA LiveDistinct ==
    ASSUME RefInv, NEW q \in Workers, NEW p \in Int, LiveAt(q, p)
    PROVE  /\ buffer[q][Slot(q, p)] \in StoredIn(buffer)
           /\ buffer[q][Slot(q, p)] \in 1 .. created
           /\ \A v \in Workers : \A r \in Int :
                 LiveAt(v, r) /\ buffer[v][Slot(v, r)] = buffer[q][Slot(q, p)] => v = q /\ r = p
<1>1. \A v \in Workers : \A r \in Int :
         LiveAt(v, r) => /\ r \in Window(v) /\ Slot(v, r) \in 0 .. Capacity[v] - 1
                         /\ buffer[v][Slot(v, r)] # Vacant
  <2> SUFFICES ASSUME NEW v \in Workers, NEW r \in Int, LiveAt(v, r)
               PROVE  /\ r \in Window(v) /\ Slot(v, r) \in 0 .. Capacity[v] - 1
                      /\ buffer[v][Slot(v, r)] # Vacant
    OBVIOUS
  <2>1. r \in Window(v)
    BY LiveInWindow DEF RefInv, LiveNear
  <2>2. Slot(v, r) \in SlotsAt(v, Live(v))
    BY <2>1 DEF Live, SlotsAt
  <2>3. Slot(v, r) \in Occupied(buffer, v)
    BY <2>2 DEF RefInv, SlotInv, SlotsLive
  <2> QED
    BY <2>1, <2>3 DEF Occupied
<1>2. BufferShape(buffer) /\ Unique(buffer) /\ StoredIn(buffer) \subseteq 1 .. created
  BY DEF RefInv, ItemTypes, StoreInv
<1>3. buffer[q][Slot(q, p)] \in StoredIn(buffer)
  BY <1>1, <1>2, StoredCells
<1>4. ASSUME NEW v \in Workers, NEW r \in Int, LiveAt(v, r),
             buffer[v][Slot(v, r)] = buffer[q][Slot(q, p)]
      PROVE  v = q /\ r = p
  <2>1. v = q /\ Slot(v, r) = Slot(q, p)
    BY <1>1, <1>2, <1>4, UniqueCells
  <2>2. Near(q, Window(q))
    <3>1. head[q] \in Int
      BY Numbers DEF RefInv
    <3> QED
      BY <3>1, WindowIsNear DEF Window
  <2>3. r \in Window(q) /\ p \in Window(q)
    BY <1>1, <1>4, <2>1
  <2>4. p - r < Capacity[q] /\ r - p < Capacity[q]
    BY ONLY <2>2, <2>3 DEF Near
  <2> QED
    BY <2>1, <2>4, SlotInjective
<1> QED
  BY <1>2, <1>3, <1>4

(* A hand whose positions keep their items stays as it is, ... *)
LEMMA HandStays ==
    ASSUME PositionInv, NEW t \in Workers,
           pc'[t] = pc[t], op'[t] = op[t], victim'[t] = victim[t], my_tail'[t] = my_tail[t],
           seen_head'[t] = seen_head[t], count'[t] = count[t],
           \A q \in Workers : \A p \in Int : HandAt(t, q, p) => Kept(q, p)
    PROVE  /\ Hand(t)' = Hand(t) /\ Source(t)' = Source(t) /\ Stealing(t)' = Stealing(t)
<1>1. /\ my_tail[t] \in Int /\ seen_head[t] \in Int /\ count[t] \in Int
      /\ TransferCount(t) \in Int /\ victim[t] \in Workers
  BY Numbers
<1>2. TransferCount(t)' = TransferCount(t)
  BY DEF TransferCount
<1>3. Source(t)' = Source(t) /\ Stealing(t)' = Stealing(t)
  BY DEF Source, Stealing
<1>4. CASE pc[t] = "pop_read"
  <2>1. \A r \in my_tail[t] - 1 .. my_tail[t] - 1 + 1 - 1 : Kept(t, r)
    BY <1>1, <1>4 DEF HandAt
  <2>2. Run(buffer', t, my_tail[t] - 1, 1) = Run(buffer, t, my_tail[t] - 1, 1)
    BY <1>1, <2>1, RunSame DEF Kept
  <2> QED
    BY <1>3, <1>4, <2>2 DEF Hand
<1>5. CASE pc[t] = "copy"
  <2>1. \A r \in seen_head[t] .. seen_head[t] + count[t] - 1 : Kept(victim[t], r)
    BY <1>1, <1>5 DEF HandAt
  <2>2. Run(buffer', victim[t], seen_head[t], count[t])
          = Run(buffer, victim[t], seen_head[t], count[t])
    BY <1>1, <2>1, RunSame DEF Kept
  <2> QED
    BY <1>3, <1>5, <2>2 DEF Hand
<1>6. CASE pc[t] = "publish_dest"
  <2>1. \A r \in my_tail[t] .. my_tail[t] + TransferCount(t) - 1 : Kept(t, r)
    BY <1>1, <1>6 DEF HandAt
  <2>2. Run(buffer', t, my_tail[t], TransferCount(t)) = Run(buffer, t, my_tail[t], TransferCount(t))
    BY <1>1, <2>1, RunSame DEF Kept
  <2> QED
    BY <1>2, <1>3, <1>6, <2>2 DEF Hand
<1>7. CASE pc[t] \notin {"pop_read", "copy", "publish_dest"}
  BY <1>3, <1>7 DEF Hand
<1> QED
  BY <1>4, <1>5, <1>6, <1>7

(* ... and so do the queue ... *)
LEMMA DequeStays ==
    ASSUME PositionInv, NEW q \in Workers, next_head'[q] = next_head[q], TailOf(q)' = TailOf(q),
           q \in dropped' <=> q \in dropped, \A p \in Int : DequeAt(q, p) => Kept(q, p)
    PROVE  Deque(q)' = Deque(q)
<1>1. next_head[q] \in Int /\ TailOf(q) \in Int
  BY Numbers
<1>2. CASE q \notin dropped
  <2>1. \A r \in next_head[q] .. next_head[q] + (TailOf(q) - next_head[q]) - 1 : Kept(q, r)
    BY <1>1, <1>2 DEF DequeAt
  <2>2. Run(buffer', q, next_head[q], TailOf(q) - next_head[q])
          = Run(buffer, q, next_head[q], TailOf(q) - next_head[q])
    BY <1>1, <2>1, RunSame DEF Kept
  <2> QED
    BY <1>2, <2>2 DEF Deque
<1> QED
  BY <1>2 DEF Deque

(* ... and what the Drain has left. *)
LEMMA DrainedStays ==
    ASSUME PositionInv, NEW q \in Workers, draining'[q] = "no" <=> draining[q] = "no",
           drain_current'[q] = drain_current[q], drain_end'[q] = drain_end[q],
           \A p \in Int : DrainedAt(q, p) => Kept(q, p)
    PROVE  Drained(q)' = Drained(q)
<1>1. drain_current[q] \in Int /\ drain_end[q] \in Int
  BY Numbers
<1>2. CASE draining[q] # "no"
  <2>1. \A r \in drain_current[q] .. drain_current[q] + (drain_end[q] - drain_current[q]) - 1 :
           Kept(q, r)
    BY <1>1, <1>2 DEF DrainedAt
  <2>2. Run(buffer', q, drain_current[q], drain_end[q] - drain_current[q])
          = Run(buffer, q, drain_current[q], drain_end[q] - drain_current[q])
    BY <1>1, <2>1, RunSame DEF Kept
  <2> QED
    BY <1>2, <2>2 DEF Drained
<1> QED
  BY <1>2 DEF Drained

(* The functions the contract sees, when only one place of them may change. *)
LEMMA OthersSeen ==
    ASSUME PositionInv, NEW t \in Workers, OthersKeep(t),
           \A u \in Workers \ {t} : \A q \in Workers : \A p \in Int :
              HandAt(u, q, p) => Kept(q, p)
    PROVE  /\ [u \in Workers |-> Hand(u)]' = [[u \in Workers |-> Hand(u)] EXCEPT ![t] = Hand(t)']
           /\ [u \in Workers |-> Source(u)]'
                = [[u \in Workers |-> Source(u)] EXCEPT ![t] = Source(t)']
           /\ [u \in Workers |-> Stealing(u)]'
                = [[u \in Workers |-> Stealing(u)] EXCEPT ![t] = Stealing(t)']
<1>1. ASSUME NEW u \in Workers \ {t}
      PROVE  Hand(u)' = Hand(u) /\ Source(u)' = Source(u) /\ Stealing(u)' = Stealing(u)
  BY HandStays DEF OthersKeep
<1> QED
  BY <1>1

LEMMA SourcesStay ==
    ASSUME NEW t \in Workers, OthersKeep(t), Source(t)' = Source(t), Stealing(t)' = Stealing(t)
    PROVE  /\ [u \in Workers |-> Source(u)]' = [u \in Workers |-> Source(u)]
           /\ [u \in Workers |-> Stealing(u)]' = [u \in Workers |-> Stealing(u)]
<1>1. \A u \in Workers : Source(u)' = Source(u) /\ Stealing(u)' = Stealing(u)
  BY DEF OthersKeep, Source, Stealing
<1> QED
  BY <1>1

\* The deques and Drains stay if their counters do, and their slots.
LEMMA DequesStay ==
    ASSUME PositionInv, UNCHANGED <<push_count, pop_count, next_head, dropped>>,
           \A q \in Workers : \A p \in Int : DequeAt(q, p) => Kept(q, p)
    PROVE  [q \in Workers |-> Deque(q)]' = [q \in Workers |-> Deque(q)]
<1>1. \A q \in Workers : TailOf(q)' = TailOf(q)
  BY DEF TailOf
<1>2. \A q \in Workers : Deque(q)' = Deque(q)
  BY <1>1, DequeStays
<1> QED
  BY <1>2

LEMMA DrainsStay ==
    ASSUME PositionInv, UNCHANGED <<drain_current, drain_end>>,
           \A q \in Workers : draining'[q] = "no" <=> draining[q] = "no",
           \A q \in Workers : \A p \in Int : DrainedAt(q, p) => Kept(q, p)
    PROVE  [q \in Workers |-> Drained(q)]' = [q \in Workers |-> Drained(q)]
<1>1. \A q \in Workers : Drained(q)' = Drained(q)
  BY DrainedStays
<1> QED
  BY <1>1

LEMMA BookedStay ==
    ASSUME UNCHANGED <<next_head, head>>
    PROVE  [q \in Workers |-> next_head[q] - head[q]]' = [q \in Workers |-> next_head[q] - head[q]]
  OBVIOUS

Refines == [Contract!Next]_(Contract!vars)

Handy == {"pop_read", "copy", "publish_dest"}

\* A step between a call and the next effect of it, or to its end.
LEMMA QuietRefines ==
    ASSUME PositionInv, NEW t \in Workers, OthersKeep(t),
           pc[t] \notin Handy, pc'[t] \notin Handy, pc[t] # "commit", pc'[t] # "commit",
           UNCHANGED <<push_count, pop_count, next_head, head, dropped, drain_current, drain_end,
                       out>>,
           \A q \in Workers : draining'[q] = "no" <=> draining[q] = "no",
           \A q \in Workers : \A p \in Int : SeenAt(q, p) => Kept(q, p)
    PROVE  UNCHANGED Contract!vars
<1>1. Hand(t)' = Hand(t) /\ Source(t)' = Source(t) /\ Stealing(t)' = Stealing(t)
  BY DEF Hand, Source, Stealing, Handy
<1>2. /\ [u \in Workers |-> Source(u)]' = [u \in Workers |-> Source(u)]
      /\ [u \in Workers |-> Stealing(u)]' = [u \in Workers |-> Stealing(u)]
  BY <1>1, SourcesStay
<1>3. [u \in Workers |-> Hand(u)]' = [u \in Workers |-> Hand(u)]
  <2>1. [u \in Workers |-> Hand(u)]' = [[u \in Workers |-> Hand(u)] EXCEPT ![t] = Hand(t)']
    BY OthersSeen DEF SeenAt
  <2> QED
    BY ONLY <1>1, <2>1
<1>4. [q \in Workers |-> Deque(q)]' = [q \in Workers |-> Deque(q)]
  BY DequesStay DEF SeenAt
<1>5. [q \in Workers |-> Drained(q)]' = [q \in Workers |-> Drained(q)]
  BY DrainsStay DEF SeenAt
<1>6. [q \in Workers |-> next_head[q] - head[q]]' = [q \in Workers |-> next_head[q] - head[q]]
  BY BookedStay
<1> QED
  BY ONLY <1>2, <1>3, <1>4, <1>5, <1>6, out' = out DEF Contract!vars

LEMMA LooksRefine ==
    ASSUME RefInv, NEW t \in Workers,
           \/ Push(t) \/ (\E n \in 0 .. MaxCreated : Extend(t, n)) \/ Pop(t) \/ PopCasFail(t)
           \/ (\E v \in Workers, name \in OpNames : Steal(t, v, name)) \/ DrainCall(t)
           \/ LoadWord(t) \/ LoadHead(t) \/ (\E n \in 0 .. Modulus - 1 : LoadPush(t, n))
           \/ BookFail(t) \/ DrainLeak(t)
    PROVE  Refines
<1>1. PositionInv /\ CounterTypes
  BY DEF RefInv, PositionInv
<1>2. OthersKeep(t)
  BY <1>1, StepOthers DEF Step
<1>3. UNCHANGED <<push_count, pop_count, next_head, head, dropped, drain_current, drain_end,
                  out, buffer>>
  BY DEF Push, Extend, Pop, PopCasFail, Steal, DrainCall, LoadWord, LoadHead, LoadPush, BookFail,
     DrainLeak, queueVars, wordVars, drainVars, itemVars
<1>4. pc \in [Workers -> {"idle", "write", "publish", "pop_cas", "pop_read",
                           "load_word", "load_head", "load_push", "book",
                           "copy", "publish_dest", "commit"}]
      /\ draining \in [Workers -> {"no", "active", "leaked"}]
  BY <1>1 DEF CounterTypes
<1>5. CASE DrainLeak(t)
  <2>1. pc' = pc /\ my_tail' = my_tail /\ victim' = victim /\ op' = op
        /\ seen_head' = seen_head /\ count' = count
    BY <1>5 DEF DrainLeak, threadVars, localVars
  <2>2. \A q \in Workers : draining'[q] = "no" <=> draining[q] = "no"
    BY <1>4, <1>5 DEF DrainLeak
  <2>3. \A q \in Workers : \A p \in Int : Kept(q, p)
    BY <1>3 DEF Kept
  <2>4. \A u \in Workers : Hand(u)' = Hand(u) /\ Source(u)' = Source(u)
                           /\ Stealing(u)' = Stealing(u)
    BY <1>1, <2>1, <2>3, HandStays
  <2>5. [q \in Workers |-> Deque(q)]' = [q \in Workers |-> Deque(q)]
    BY <1>1, <1>3, <2>3, DequesStay
  <2>6. [q \in Workers |-> Drained(q)]' = [q \in Workers |-> Drained(q)]
    BY <1>1, <1>3, <2>2, <2>3, DrainsStay
  <2>7. /\ [u \in Workers |-> Hand(u)]' = [u \in Workers |-> Hand(u)]
        /\ [u \in Workers |-> Source(u)]' = [u \in Workers |-> Source(u)]
        /\ [u \in Workers |-> Stealing(u)]' = [u \in Workers |-> Stealing(u)]
    BY <2>4
  <2>8. [q \in Workers |-> next_head[q] - head[q]]' = [q \in Workers |-> next_head[q] - head[q]]
    BY <1>3, BookedStay
  <2> QED
    BY ONLY <1>3, <2>5, <2>6, <2>7, <2>8 DEF Contract!vars, Refines
<1>6. CASE ~ DrainLeak(t)
  <2>1. draining' = draining
    BY <1>6 DEF Push, Extend, Pop, PopCasFail, Steal, DrainCall, LoadWord, LoadHead, LoadPush,
       BookFail, drainVars
  <2>2. /\ pc[t] \in {"idle", "pop_cas", "load_word", "load_head", "load_push", "book"}
        /\ pc'[t] \in {"idle", "write", "pop_cas", "load_word", "load_head", "load_push", "book"}
    BY <1>4, <1>6 DEF Push, Extend, Pop, PopCasFail, Steal, DrainCall, LoadWord, LoadHead,
       LoadPush, BookFail, Call, Return, Goto, PopTest
  <2>3. pc[t] \notin Handy /\ pc'[t] \notin Handy /\ pc[t] # "commit" /\ pc'[t] # "commit"
    BY <2>2 DEF Handy
  <2>4. \A q \in Workers : \A p \in Int : SeenAt(q, p) => Kept(q, p)
    BY <1>3 DEF Kept
  <2>5. UNCHANGED Contract!vars
    BY <1>1, <1>2, <1>3, <2>1, <2>3, <2>4, QuietRefines
  <2> QED
    BY ONLY <2>5 DEF Refines
<1> QED
  BY <1>5, <1>6

(* A live position next to a run of others in the window of its queue. *)
LEMMA LiveApart ==
    ASSUME RefInv, NEW q \in Workers, NEW p \in Int, LiveAt(q, p), NEW v \in Workers,
           NEW f \in Int, NEW n \in Int, f .. f + n - 1 \subseteq Window(v),
           ~ (q = v /\ p \in f .. f + n - 1)
    PROVE  Apart(q, p, v, f, n)
<1>1. p \in Window(q)
  BY LiveInWindow DEF RefInv, LiveNear
<1>2. head[q] \in Int /\ Capacity[q] \in Int
  BY Numbers DEF RefInv
<1> SUFFICES ASSUME q = v, NEW x \in f .. f + n - 1
             PROVE  x # p /\ x - p < Capacity[q] /\ p - x < Capacity[q]
  BY DEF Apart
<1>3. x \in Window(q)
  OBVIOUS
<1> QED
  BY <1>1, <1>2, <1>3 DEF Window

(* What is written before it is published is none of the contract's business. *)
LEMMA WriteRefines ==
    ASSUME RefInv, NEW t \in Workers, Write(t)
    PROVE  Refines
<1>1. PositionInv /\ CounterTypes /\ BufferShape(buffer)
  BY DEF RefInv, PositionInv, ItemTypes
<1>2. OthersKeep(t)
  BY <1>1, StepOthers DEF Step
<1> DEFINE f == my_tail[t]
           n == count[t]
           s == [k \in 0 .. n - 1 |-> carried[t] + 1 + k]
<1>3. /\ pc[t] = "write" /\ pc'[t] = "publish" /\ buffer' = Written(buffer, t, f, s)
      /\ UNCHANGED <<push_count, pop_count, next_head, head, dropped, draining, drain_current,
                     drain_end, out>>
  BY <1>1 DEF Write, Goto, CounterTypes, wordVars, drainVars, itemVars
<1>4. /\ f \in Nat /\ n \in Nat /\ carried[t] \in Nat
  BY <1>1, Numbers
<1>5. f .. f + n - 1 \subseteq Window(t) /\ n <= Capacity[t]
      /\ \A p \in f .. f + n - 1 : ~ LiveAt(t, p)
  BY <1>1, <1>3, <1>4, RoomToWrite
<1>6. s \in [0 .. n - 1 -> Content]
  BY <1>4 DEF Content
<1> HIDE DEF f, n, s
<1>7. FilledIn(buffer', buffer, t, f, n, s)
  BY <1>1, <1>3, <1>4, <1>5, <1>6, WrittenCells
<1>8. ASSUME NEW q \in Workers, NEW p \in Int, SeenAt(q, p) PROVE Kept(q, p)
  <2>1. LiveAt(q, p)
    BY <1>8, SeenIsLive
  <2>2. Apart(q, p, t, f, n)
    BY <1>4, <1>5, <2>1, LiveApart
  <2> QED
    BY <1>4, <1>7, <2>2, FilledKeeps DEF Kept
<1>9. pc[t] \notin Handy /\ pc'[t] \notin Handy /\ pc[t] # "commit" /\ pc'[t] # "commit"
  BY <1>3 DEF Handy
<1>10. UNCHANGED Contract!vars
  BY <1>1, <1>2, <1>3, <1>8, <1>9, QuietRefines
<1> QED
  BY ONLY <1>10 DEF Refines

(* The functions stay for everybody but t and everything but what is moved out of its hand. *)
LEMMA HandGoesOn ==
    ASSUME PositionInv, NEW t \in Workers, OthersKeep(t),
           UNCHANGED <<push_count, pop_count, next_head, head, dropped, draining, drain_current,
                       drain_end>>,
           Source(t)' = Source(t), Stealing(t)' = Stealing(t),
           \A q \in Workers : \A p \in Int :
              SeenAt(q, p) /\ ~ HandAt(t, q, p) => Kept(q, p),
           \A u \in Workers \ {t} : \A q \in Workers : \A p \in Int :
              HandAt(u, q, p) => ~ HandAt(t, q, p),
           \A q \in Workers : \A p \in Int :
              HandAt(t, q, p) => ~ DequeAt(q, p) /\ ~ DrainedAt(q, p)
    PROVE  /\ [u \in Workers |-> Hand(u)]' = [[u \in Workers |-> Hand(u)] EXCEPT ![t] = Hand(t)']
           /\ UNCHANGED <<[q \in Workers |-> Deque(q)], [u \in Workers |-> Source(u)],
                          [u \in Workers |-> Stealing(u)],
                          [q \in Workers |-> next_head[q] - head[q]],
                          [q \in Workers |-> Drained(q)]>>
<1>1. [u \in Workers |-> Hand(u)]' = [[u \in Workers |-> Hand(u)] EXCEPT ![t] = Hand(t)']
  BY OthersSeen DEF SeenAt
<1>2. [q \in Workers |-> Deque(q)]' = [q \in Workers |-> Deque(q)]
  BY DequesStay DEF SeenAt
<1>3. [q \in Workers |-> Drained(q)]' = [q \in Workers |-> Drained(q)]
  BY DrainsStay DEF SeenAt
<1>4. [q \in Workers |-> next_head[q] - head[q]]' = [q \in Workers |-> next_head[q] - head[q]]
  BY BookedStay
<1>5. /\ [u \in Workers |-> Source(u)]' = [u \in Workers |-> Source(u)]
      /\ [u \in Workers |-> Stealing(u)]' = [u \in Workers |-> Stealing(u)]
  BY SourcesStay
<1> QED
  BY ONLY <1>1, <1>2, <1>3, <1>4, <1>5

(* What a thread holds, nobody else has, and it is not in the queue any more. *)
LEMMA HandsApart ==
    ASSUME RefInv, NEW t \in Workers, NEW q \in Workers, NEW p \in Int, HandAt(t, q, p)
    PROVE  /\ ~ DequeAt(q, p) /\ ~ DrainedAt(q, p)
           /\ \A u \in Workers \ {t} : ~ HandAt(u, q, p)
<1>1. PositionInv
  BY DEF RefInv
<1>2. /\ next_head[q] \in Int /\ TailOf(q) \in Int /\ head[q] \in Int /\ pop_count[q] \in Int
      /\ push_count[q] \in Int /\ drain_end[q] \in Int
      /\ my_tail[q] \in Int /\ TransferCount(q) \in Int /\ TailOf(q) = push_count[q] - pop_count[q]
  BY <1>1, Numbers DEF TailOf
<1>3. draining[q] # "no" => drain_end[q] = next_head[q]
  BY <1>1 DEF PositionInv, DrainHolds
<1>4. ASSUME NEW u \in Workers, HandAt(u, q, p), pc[u] # "copy"
      PROVE  u = q /\ p >= next_head[q] /\ p >= TailOf(q)
  <2>1. u = q /\ OwnAt(q, p)
    BY <1>4 DEF HandAt, OwnAt
  <2>2. p >= next_head[q]
    BY <1>1, <2>1, OwnAbove
  <2>3. p >= TailOf(q)
    BY <1>1, <1>2, <1>4, <2>1 DEF HandAt, PositionInv, PopSaw, KnowsTail
  <2> QED
    BY <2>1, <2>2, <2>3
<1>5. ASSUME NEW u \in Workers, HandAt(u, q, p), pc[u] = "copy"
      PROVE  victim[u] = q /\ p < next_head[q] /\ draining[q] = "no"
  <2>1. BookedAt(q, p) /\ victim[u] = q
    BY <1>5 DEF HandAt, BookedAt
  <2> QED
    BY <1>1, <2>1, BookedBelow
<1>6. ASSUME NEW u \in Workers \ {t}, HandAt(u, q, p) PROVE FALSE
  <2>1. CASE pc[t] = "copy" /\ pc[u] = "copy"
    <3>1. victim[t] = q /\ victim[u] = q
      BY <1>5, <1>6, <2>1
    <3> QED
      BY <1>1, <2>1, <3>1 DEF PositionInv, Alone, Stealing
  <2>2. CASE pc[t] # "copy" /\ pc[u] # "copy"
    BY <1>4, <1>6, <2>2
  <2>3. CASE pc[t] = "copy" /\ pc[u] # "copy"
    BY <1>2, <1>4, <1>5, <1>6, <2>3
  <2>4. CASE pc[t] # "copy" /\ pc[u] = "copy"
    BY <1>2, <1>4, <1>5, <1>6, <2>4
  <2> QED
    BY <2>1, <2>2, <2>3, <2>4
<1>7. CASE pc[t] = "copy"
  BY <1>2, <1>5, <1>6, <1>7 DEF DequeAt, DrainedAt
<1>8. CASE pc[t] # "copy"
  BY <1>2, <1>3, <1>4, <1>6, <1>8 DEF DequeAt, DrainedAt
<1> QED
  BY <1>7, <1>8

(* The last item in the hand of t goes to its caller. *)
LEMMA DeliverStep ==
    ASSUME NEW t \in Workers,
           [u \in Workers |-> Hand(u)]' = [[u \in Workers |-> Hand(u)] EXCEPT ![t] = Hand(t)'],
           UNCHANGED <<[q \in Workers |-> Deque(q)], [u \in Workers |-> Source(u)],
                       [u \in Workers |-> Stealing(u)],
                       [q \in Workers |-> next_head[q] - head[q]],
                       [q \in Workers |-> Drained(q)]>>,
           Hand(t) # <<>>, out' = out \cup {Hand(t)[Len(Hand(t))]},
           Hand(t)' = SubSeq(Hand(t), 1, Len(Hand(t)) - 1)
    PROVE  Refines
<1> DEFINE H == [u \in Workers |-> Hand(u)]
<1>1. H[t] = Hand(t)
  OBVIOUS
<1>2. Contract!Last(Hand(t)) = Hand(t)[Len(Hand(t))]
      /\ Contract!Front(Hand(t)) = SubSeq(Hand(t), 1, Len(Hand(t)) - 1)
  BY DEF Contract!Last, Contract!Front
<1>3. H' = [H EXCEPT ![t] = Contract!Front(H[t])]
  BY <1>1, <1>2
<1>4. H[t] # <<>> /\ out' = out \cup {Contract!Last(H[t])}
  BY <1>1, <1>2
<1> HIDE DEF H
<1>5. Contract!Deliver(t)
  BY <1>3, <1>4 DEF Contract!Deliver, H
<1> QED
  BY <1>5 DEF Refines, Contract!Next

LEMMA PopReadRefines ==
    ASSUME RefInv, NEW t \in Workers, PopRead(t)
    PROVE  Refines
<1>1. PositionInv /\ CounterTypes /\ BufferShape(buffer)
  BY DEF RefInv, PositionInv, ItemTypes
<1>2. OthersKeep(t)
  BY <1>1, StepOthers DEF Step
<1> DEFINE f == my_tail[t] - 1
<1>3. /\ pc[t] = "pop_read" /\ pc'[t] = "idle"
      /\ buffer' = MovedOut(buffer, t, f, 1) /\ out' = out \cup Read(buffer, t, f, 1)
      /\ UNCHANGED <<push_count, pop_count, next_head, head, dropped, draining, drain_current,
                     drain_end>>
  BY <1>1 DEF PopRead, Return, Goto, CounterTypes, wordVars, drainVars
<1>4. f \in Int /\ my_tail[t] \in Int
  BY <1>1, Numbers
<1>5. \A q \in Workers : \A p \in Int : HandAt(t, q, p) <=> q = t /\ p = f
  BY <1>3 DEF HandAt
<1>6. LiveAt(t, f) /\ f .. f + 1 - 1 \subseteq Window(t)
  <2>1. SeenAt(t, f)
    BY <1>4, <1>5 DEF SeenAt
  <2>2. LiveAt(t, f)
    BY <1>4, <2>1, SeenIsLive
  <2>3. f \in Window(t)
    BY <1>1, <1>4, <2>2, LiveInWindow DEF LiveNear
  <2> HIDE DEF f
  <2> QED
    BY <1>4, <2>2, <2>3
<1>7. Hand(t) = Run(buffer, t, f, 1) /\ Hand(t)' = <<>>
      /\ Source(t)' = Source(t) /\ Stealing(t)' = Stealing(t)
  BY <1>3 DEF Hand, Source, Stealing
<1> HIDE DEF f
<1>8. ASSUME NEW q \in Workers, NEW p \in Int, SeenAt(q, p), ~ HandAt(t, q, p)
      PROVE  Kept(q, p)
  <2>1. LiveAt(q, p)
    BY <1>8, SeenIsLive
  <2>2. ~ (q = t /\ p \in f .. f + 1 - 1)
    BY <1>4, <1>5, <1>8
  <2>3. Apart(q, p, t, f, 1)
    BY <1>4, <1>6, <2>1, <2>2, LiveApart
  <2> QED
    BY <1>1, <1>3, <1>4, <2>3, MovedOutKeeps DEF Kept
<1>9. /\ [u \in Workers |-> Hand(u)]' = [[u \in Workers |-> Hand(u)] EXCEPT ![t] = Hand(t)']
      /\ UNCHANGED <<[q \in Workers |-> Deque(q)], [u \in Workers |-> Source(u)],
                     [u \in Workers |-> Stealing(u)],
                     [q \in Workers |-> next_head[q] - head[q]],
                     [q \in Workers |-> Drained(q)]>>
  BY <1>1, <1>2, <1>3, <1>7, <1>8, HandsApart, HandGoesOn
<1>10. /\ Hand(t) # <<>> /\ out' = out \cup {Hand(t)[Len(Hand(t))]}
       /\ Hand(t)' = SubSeq(Hand(t), 1, Len(Hand(t)) - 1)
  <2> DEFINE s == Run(buffer, t, f, 1)
  <2>1. /\ s # <<>> /\ Len(s) = 1 /\ SubSeq(s, 1, Len(s) - 1) = <<>>
        /\ Read(buffer, t, f, 1) = {s[1]}
    BY <1>4, RunOne
  <2>5. Hand(t) = s /\ out' = out \cup {s[1]} /\ Hand(t)' = <<>>
    BY <1>3, <1>7, <2>1
  <2> HIDE DEF s
  <2> QED
    BY ONLY <2>1, <2>5
<1> QED
  BY <1>9, <1>10, DeliverStep

(* A steal copies what it has in its hand; steal_and_pop hands out the last item of it. *)
LEMMA CopyRefines ==
    ASSUME RefInv, PositionInv', NEW t \in Workers, Copy(t)
    PROVE  Refines
<1>1. /\ PositionInv /\ CounterTypes /\ BufferShape(buffer) /\ ItemTypes /\ SlotInv
      /\ Unique(buffer)
  BY DEF RefInv, PositionInv, ItemTypes, StoreInv
<1>2. OthersKeep(t)
  BY <1>1, StepOthers DEF Step
<1> DEFINE v == victim[t]
           c == count[t]
           n == TransferCount(t)
           f == seen_head[t]
           to == my_tail[t]
<1>3. /\ pc[t] = "copy" /\ pc'[t] = "publish_dest" /\ v \in Workers
      /\ buffer' = Copied(buffer, v, f, c, t, to, n)
      /\ out' = out \cup Read(buffer, v, f + n, c - n)
      /\ UNCHANGED <<push_count, pop_count, next_head, head, dropped, draining, drain_current,
                     drain_end, op, victim, my_tail, count, seen_head>>
  BY <1>1 DEF Copy, Copied, Goto, CounterTypes, wordVars, drainVars, localVars
<1>4. n \in 0 .. c /\ c \in Nat /\ f \in Nat /\ to \in Nat /\ n \in Nat
  BY <1>1, <1>3, Transferred, Numbers DEF Stealing
<1>5. /\ op[t] \in {"steal", "steal_and_pop"} /\ c >= 1
      /\ f .. f + c - 1 \subseteq Window(v) /\ c <= Capacity[v]
  <2>1. /\ head[v] = f /\ next_head[v] = f + c
        /\ op[t] \in {"steal", "steal_and_pop"} /\ c >= 1
    BY <1>1, <1>3 DEF PositionInv, Holds, Stealing
  <2>2. /\ f + c <= head[v] + Capacity[v] /\ Capacity[v] \in Nat
    BY <1>1, <1>3, <2>1, Numbers
  <2> QED
    BY <1>4, <2>1, <2>2 DEF Window
<1>6. /\ to .. to + n - 1 \subseteq Window(t) /\ n <= Capacity[t]
      /\ \A p \in to .. to + n - 1 : ~ LiveAt(t, p)
  BY <1>1, <1>3, <1>4, RoomToWrite
<1>7. CopyFits(buffer, v, f, c, t, to, n)
  <2>1. /\ Slots(v, f, c) \subseteq Occupied(buffer, v)
        /\ Slots(t, to, n) \cap Occupied(buffer, t) = {}
    BY <1>1, CopySlots
  <2> QED
    BY ONLY <1>1, <1>3, <1>4, <1>5, <1>6, <2>1, t \in Workers DEF CopyFits
<1>8. /\ Hand(t) = Run(buffer, v, f, c) /\ Hand(t)' = Run(buffer', t, to, n)
      /\ Source(t)' = Source(t) /\ Stealing(t)' = Stealing(t)
  BY <1>3 DEF Hand, Source, Stealing, TransferCount
<1>9. \A q \in Workers : \A p \in Int : HandAt(t, q, p) <=> q = v /\ p \in f .. f + c - 1
  BY <1>3, <1>4 DEF HandAt
<1>10. n = IF op[t] = "steal_and_pop" THEN c - 1 ELSE c
  BY DEF TransferCount
<1> HIDE DEF v, c, n, f, to
<1>11. Hand(t)' = Run(buffer, v, f, n)
  BY <1>3, <1>7, <1>8, CopiedRun
<1>12. ASSUME NEW q \in Workers, NEW p \in Int, SeenAt(q, p), ~ HandAt(t, q, p)
       PROVE  Kept(q, p)
  <2>1. LiveAt(q, p)
    BY <1>12, SeenIsLive
  <2>2. ~ (q = v /\ p \in f .. f + c - 1)
    BY <1>9, <1>12
  <2>3. Apart(q, p, v, f, c)
    BY <1>3, <1>4, <1>5, <2>1, <2>2, LiveApart
  <2>4. Apart(q, p, t, to, n)
    BY <1>4, <1>6, <2>1, LiveApart
  <2> QED
    BY <1>3, <1>7, <2>3, <2>4, CopiedKeeps DEF Kept
<1>13. /\ [u \in Workers |-> Hand(u)]' = [[u \in Workers |-> Hand(u)] EXCEPT ![t] = Hand(t)']
       /\ UNCHANGED <<[q \in Workers |-> Deque(q)], [u \in Workers |-> Source(u)],
                      [u \in Workers |-> Stealing(u)],
                      [q \in Workers |-> next_head[q] - head[q]],
                      [q \in Workers |-> Drained(q)]>>
  BY <1>1, <1>2, <1>3, <1>8, <1>12, HandsApart, HandGoesOn
<1>14. CASE op[t] = "steal_and_pop"
  <2> DEFINE s == Run(buffer, v, f, c)
  <2>1. n = c - 1 /\ c - n = 1 /\ c \in Nat \ {0} /\ f + c - 1 = f + n /\ f + n \in Int
    BY <1>4, <1>5, <1>10, <1>14
  <2>2. /\ s # <<>> /\ Len(s) = c /\ s[c] = buffer[v][Slot(v, f + c - 1)]
        /\ SubSeq(s, 1, c - 1) = Run(buffer, v, f, c - 1)
    BY <1>4, <2>1, RunLast
  <2>3. Read(buffer, v, f + n, 1) = {buffer[v][Slot(v, f + n)]}
    BY <2>1, ReadOne
  <2>4. Hand(t) = s /\ Hand(t)' = Run(buffer, v, f, c - 1) /\ out' = out \cup {s[c]}
    BY <1>3, <1>8, <1>11, <2>1, <2>2, <2>3
  <2> HIDE DEF s
  <2>5. /\ Hand(t) # <<>> /\ out' = out \cup {Hand(t)[Len(Hand(t))]}
        /\ Hand(t)' = SubSeq(Hand(t), 1, Len(Hand(t)) - 1)
    BY ONLY <2>2, <2>4
  <2> QED
    BY ONLY <1>13, <2>5, DeliverStep, t \in Workers
<1>15. CASE op[t] = "steal"
  <2>1. n = c /\ c - n = 0
    BY <1>4, <1>10, <1>15
  <2>2. Read(buffer, v, f + n, 0) = {}
    BY DEF Read, Slots
  <2>3. out' = out /\ Hand(t)' = Hand(t)
    BY <1>3, <1>8, <1>11, <2>1, <2>2
  <2>4. [u \in Workers |-> Hand(u)]' = [u \in Workers |-> Hand(u)]
    BY ONLY <1>13, <2>3
  <2> QED
    BY ONLY <1>13, <2>3, <2>4 DEF Refines, Contract!vars
<1> QED
  BY <1>5, <1>14, <1>15

(* A step that moves no item leaves every other hand and what the Drains hold. *)
LEMMA NothingMoves ==
    ASSUME PositionInv, buffer' = buffer, NEW t \in Workers, OthersKeep(t)
    PROVE  /\ [u \in Workers |-> Hand(u)]' = [[u \in Workers |-> Hand(u)] EXCEPT ![t] = Hand(t)']
           /\ [u \in Workers |-> Source(u)]'
                = [[u \in Workers |-> Source(u)] EXCEPT ![t] = Source(t)']
           /\ [u \in Workers |-> Stealing(u)]'
                = [[u \in Workers |-> Stealing(u)] EXCEPT ![t] = Stealing(t)']
           /\ UNCHANGED drainVars
                => [q \in Workers |-> Drained(q)]' = [q \in Workers |-> Drained(q)]
<1>1. \A q \in Workers : \A p \in Int : Kept(q, p)
  BY DEF Kept
<1> QED
  BY <1>1, OthersSeen, DrainsStay DEF drainVars

(* What is published follows on what is in the queue. *)
LEMMA DequeGrows ==
    ASSUME PositionInv, buffer' = buffer, NEW t \in Workers, t \notin dropped, NEW n \in Nat,
           push_count' = [push_count EXCEPT ![t] = push_count[t] + n],
           UNCHANGED <<pop_count, next_head, dropped>>
    PROVE  /\ Deque(t) = Run(buffer, t, next_head[t], TailOf(t) - next_head[t])
           /\ TailOf(t) - next_head[t] \in Nat /\ Len(Deque(t)) = TailOf(t) - next_head[t]
           /\ [q \in Workers |-> Deque(q)]'
                = [[q \in Workers |-> Deque(q)] EXCEPT
                      ![t] = Deque(t) \o Run(buffer, t, TailOf(t), n)]
<1>1. /\ next_head[t] \in Int /\ TailOf(t) \in Int /\ TailOf(t) - next_head[t] \in Nat
      /\ push_count[t] \in Nat /\ pop_count[t] \in Nat
      /\ next_head[t] + (TailOf(t) - next_head[t]) = TailOf(t)
      /\ (TailOf(t) - next_head[t]) + n = TailOf(t) + n - next_head[t]
  BY Numbers
<1>2. TailOf(t)' = TailOf(t) + n
  <2>1. push_count'[t] = push_count[t] + n
    BY DEF PositionInv, CounterTypes
  <2> QED
    BY <1>1, <2>1 DEF TailOf
<1>3. ASSUME NEW q \in Workers \ {t} PROVE Deque(q)' = Deque(q)
  <2>1. TailOf(q)' = TailOf(q)
    BY DEF TailOf, PositionInv, CounterTypes
  <2> QED
    BY <2>1 DEF Deque
<1>4. Deque(t) = Run(buffer, t, next_head[t], TailOf(t) - next_head[t])
      /\ Deque(t)' = Run(buffer, t, next_head[t], TailOf(t) + n - next_head[t])
  <2>1. t \notin dropped' /\ next_head' = next_head
    OBVIOUS
  <2>2. Deque(t)' = Run(buffer', t, next_head[t], TailOf(t)' - next_head[t])
    BY <2>1 DEF Deque
  <2>3. Deque(t)' = Run(buffer, t, next_head[t], TailOf(t) + n - next_head[t])
    BY <1>1, <1>2, <2>2
  <2> QED
    BY <2>3 DEF Deque
<1>5. Deque(t)' = Deque(t) \o Run(buffer, t, TailOf(t), n)
  <2> DEFINE h == next_head[t]
             m == TailOf(t) - next_head[t]
  <2>1. Run(buffer, t, h, m) \o Run(buffer, t, h + m, n) = Run(buffer, t, h, m + n)
    <3>1. h \in Int /\ m \in Nat
      BY <1>1
    <3> HIDE DEF h, m
    <3> QED
      BY <3>1, RunJoin
  <2> QED
    BY <1>1, <1>4, <2>1
<1>6. Len(Deque(t)) = TailOf(t) - next_head[t]
  BY <1>1, <1>4, RunLen
<1> QED
  BY <1>1, <1>3, <1>4, <1>5, <1>6

(* The items the contract sees are those at the positions seen. *)
LEMMA KnownIsSeen ==
    ASSUME PositionInv, NEW x \in Contract!Known
    PROVE  \/ x \in out
           \/ \E q \in Workers : \E p \in Int : SeenAt(q, p) /\ x = buffer[q][Slot(q, p)]
<1> DEFINE Seen(y) == \E q \in Workers : \E p \in Int : SeenAt(q, p) /\ y = buffer[q][Slot(q, p)]
<1>1. ASSUME NEW q \in Workers, NEW f \in Int, NEW n \in Int,
             \A p \in f .. f + n - 1 : SeenAt(q, p),
             NEW y \in Contract!ToSet(Run(buffer, q, f, n))
      PROVE  Seen(y)
  <2>1. PICK k \in 1 .. n : y = buffer[q][Slot(q, f + k - 1)]
    <3> DEFINE s == Run(buffer, q, f, n)
    <3>1. DOMAIN s = 1 .. n /\ \A k \in 1 .. n : s[k] = buffer[q][Slot(q, f + k - 1)]
      BY ONLY RunAt
    <3>2. y \in {s[k] : k \in DOMAIN s}
      BY <1>1 DEF Contract!ToSet
    <3> HIDE DEF s
    <3> QED
      BY ONLY <3>1, <3>2
  <2>2. f + k - 1 \in f .. f + n - 1 /\ f + k - 1 \in Int
    OBVIOUS
  <2> QED
    BY <1>1, <2>1, <2>2
<1>2. Contract!ToSet(<<>>) = {}
  BY DEF Contract!ToSet
<1>3. ASSUME NEW w \in Workers, x \in Contract!ToSet(Deque(w)) PROVE Seen(x)
  <2>1. next_head[w] \in Int /\ TailOf(w) \in Int
    BY Numbers
  <2>2. w \notin dropped /\ Deque(w) = Run(buffer, w, next_head[w], TailOf(w) - next_head[w])
    BY <1>2, <1>3 DEF Deque
  <2>3. \A p \in next_head[w] .. next_head[w] + (TailOf(w) - next_head[w]) - 1 : SeenAt(w, p)
    BY <2>1, <2>2 DEF SeenAt, DequeAt
  <2> QED
    BY <1>1, <1>3, <2>1, <2>2, <2>3
<1>4. ASSUME NEW w \in Workers, x \in Contract!ToSet(Drained(w)) PROVE Seen(x)
  <2>1. drain_current[w] \in Int /\ drain_end[w] \in Int
    BY Numbers
  <2>2. /\ draining[w] # "no"
        /\ Drained(w) = Run(buffer, w, drain_current[w], drain_end[w] - drain_current[w])
    BY <1>2, <1>4 DEF Drained
  <2>3. \A p \in drain_current[w] .. drain_current[w] + (drain_end[w] - drain_current[w]) - 1 :
           SeenAt(w, p)
    BY <2>1, <2>2 DEF SeenAt, DrainedAt
  <2> QED
    BY <1>1, <1>4, <2>1, <2>2, <2>3
<1>5. ASSUME NEW w \in Workers, x \in Contract!ToSet(Hand(w)) PROVE Seen(x)
  <2>1. /\ my_tail[w] \in Int /\ my_tail[w] - 1 \in Int /\ seen_head[w] \in Int
        /\ count[w] \in Int /\ TransferCount(w) \in Int /\ victim[w] \in Workers
    BY Numbers
  <2>2. CASE pc[w] = "pop_read"
    <3>1. \A p \in my_tail[w] - 1 .. my_tail[w] - 1 + 1 - 1 : SeenAt(w, p)
      BY <2>1, <2>2 DEF SeenAt, HandAt
    <3>2. Hand(w) = Run(buffer, w, my_tail[w] - 1, 1)
      BY <2>2 DEF Hand
    <3> QED
      BY <1>1, <1>5, <2>1, <3>1, <3>2
  <2>3. CASE pc[w] = "copy"
    <3>1. \A p \in seen_head[w] .. seen_head[w] + count[w] - 1 : SeenAt(victim[w], p)
      BY <2>1, <2>3 DEF SeenAt, HandAt
    <3>2. Hand(w) = Run(buffer, victim[w], seen_head[w], count[w])
      BY <2>3 DEF Hand
    <3> QED
      BY <1>1, <1>5, <2>1, <3>1, <3>2
  <2>4. CASE pc[w] = "publish_dest"
    <3>1. \A p \in my_tail[w] .. my_tail[w] + TransferCount(w) - 1 : SeenAt(w, p)
      BY <2>1, <2>4 DEF SeenAt, HandAt
    <3>2. Hand(w) = Run(buffer, w, my_tail[w], TransferCount(w))
      BY <2>4 DEF Hand
    <3> QED
      BY <1>1, <1>5, <2>1, <3>1, <3>2
  <2>5. CASE pc[w] \notin {"pop_read", "copy", "publish_dest"}
    BY <1>2, <1>5, <2>5 DEF Hand
  <2> QED
    BY <2>2, <2>3, <2>4, <2>5
<1> HIDE DEF Seen
<1>6. x \in out \/ \E w \in Workers : \/ x \in Contract!ToSet(Deque(w))
                                      \/ x \in Contract!ToSet(Hand(w))
                                      \/ x \in Contract!ToSet(Drained(w))
  BY DEF Contract!Known
<1>7. x \in out \/ Seen(x)
  BY ONLY <1>3, <1>4, <1>5, <1>6
<1> QED
  BY <1>7 DEF Seen

(* The contract of push and extend: new items, in order, as many as there is room for. *)
LEMMA PublishRefines ==
    ASSUME RefInv, NEW t \in Workers, Publish(t)
    PROVE  Refines
<1>1. /\ PositionInv /\ CounterTypes /\ BufferShape(buffer) /\ SlotInv /\ OutInv
  BY DEF RefInv, PositionInv, ItemTypes
<1>2. OthersKeep(t)
  BY <1>1, StepOthers DEF Step
<1> DEFINE n == count[t]
           s == Run(buffer, t, TailOf(t), n)
<1>3. /\ pc[t] = "publish" /\ pc'[t] = "idle" /\ buffer' = buffer
      /\ push_count' = [push_count EXCEPT ![t] = push_count[t] + n]
      /\ UNCHANGED <<pop_count, next_head, head, dropped, drainVars, out>>
      /\ my_tail[t] + pop_count[t] = push_count[t] /\ t \notin dropped
      /\ my_tail[t] + n <= head[t] + Capacity[t]
  BY <1>1 DEF Publish, Return, Goto, CounterTypes, wordVars, itemVars, PositionInv, KnowsTail,
     SlotInv, GoneIsQuiet
<1>4. /\ n \in Nat /\ my_tail[t] \in Int /\ my_tail[t] = TailOf(t) /\ TailOf(t) \in Int
      /\ next_head[t] \in Int /\ head[t] \in Int /\ Capacity[t] \in Int
      /\ next_head[t] <= TailOf(t)
  <2>1. n \in Nat /\ my_tail[t] \in Int /\ push_count[t] \in Int /\ pop_count[t] \in Int
    BY <1>1, Numbers
  <2> QED
    BY <1>1, <1>3, <2>1, Numbers DEF TailOf
<1>5. ASSUME NEW p \in Int, TailOf(t) <= p, p < TailOf(t) + n
      PROVE  LiveAt(t, p) /\ \A q \in Workers : SeenAt(q, p) => q # t
  <2>1. OwnAt(t, p)
    BY <1>3, <1>4, <1>5 DEF OwnAt
  <2>2. ASSUME SeenAt(t, p) PROVE FALSE
    <3>1. ~ DequeAt(t, p)
      BY <1>4, <1>5 DEF DequeAt
    <3>2. ~ DrainedAt(t, p)
      <4>1. draining[t] # "no" => drain_end[t] = next_head[t]
        BY <1>1 DEF PositionInv, DrainHolds
      <4> QED
        BY <1>4, <1>5, <4>1 DEF DrainedAt
    <3>3. PICK u \in Workers : HandAt(u, t, p)
      BY <2>2, <3>1, <3>2 DEF SeenAt
    <3>4. pc[u] = "copy" /\ victim[u] = t
      BY <1>3, <3>3 DEF HandAt
    <3>5. BookedAt(t, p)
      BY <3>3, <3>4 DEF HandAt, BookedAt
    <3>6. p < next_head[t]
      BY <1>1, <3>5, BookedBelow
    <3> QED
      BY ONLY <1>4, <1>5, <3>6
  <2> QED
    BY <2>1, <2>2 DEF LiveAt
<1>6. ASSUME NEW k \in 1 .. n
      PROVE  /\ TailOf(t) + k - 1 \in Int /\ TailOf(t) <= TailOf(t) + k - 1
             /\ TailOf(t) + k - 1 < TailOf(t) + n
             /\ s[k] = buffer[t][Slot(t, TailOf(t) + k - 1)]
  <2>1. s[k] = buffer[t][Slot(t, TailOf(t) + k - 1)]
    BY RunAt
  <2> HIDE DEF n, s
  <2> QED
    BY <1>4, <2>1
<1>7. /\ [q \in Workers |-> Deque(q)]'
           = [[q \in Workers |-> Deque(q)] EXCEPT ![t] = Deque(t) \o s]
      /\ Len(Deque(t)) = TailOf(t) - next_head[t]
  BY <1>1, <1>3, <1>4, DequeGrows
<1> HIDE DEF n
<1>8. \A k \in 1 .. n : s[k] \in 1 .. MaxCreated \ Contract!Known
  <2> SUFFICES ASSUME NEW k \in 1 .. n PROVE s[k] \in 1 .. MaxCreated \ Contract!Known
    OBVIOUS
  <2> DEFINE p == TailOf(t) + k - 1
  <2>1. p \in Int /\ s[k] = buffer[t][Slot(t, p)]
    BY <1>6
  <2>2. LiveAt(t, p) /\ \A q \in Workers : SeenAt(q, p) => q # t
    BY <1>5, <1>6
  <2> HIDE DEF p, s
  <2>3. /\ s[k] \in StoredIn(buffer) /\ s[k] \in 1 .. created
        /\ \A v \in Workers : \A r \in Int :
              LiveAt(v, r) /\ buffer[v][Slot(v, r)] = s[k] => v = t /\ r = p
    BY <2>1, <2>2, LiveDistinct
  <2>4. s[k] \in 1 .. MaxCreated
    <3>1. created <= MaxCreated /\ created \in Nat /\ MaxCreated \in Nat
      BY <1>1, ClientAssumption DEF RefInv, CounterTypes
    <3> QED
      BY <2>3, <3>1
  <2>5. s[k] \notin out
    BY <1>1, <2>3 DEF OutInv
  <2>6. ASSUME NEW q \in Workers, NEW r \in Int, SeenAt(q, r), s[k] = buffer[q][Slot(q, r)]
        PROVE  FALSE
    <3>1. LiveAt(q, r)
      BY <2>6, SeenIsLive
    <3>2. q = t /\ r = p
      BY ONLY <2>3, <2>6, <3>1
    <3> QED
      BY ONLY <2>2, <2>6, <3>2
  <2>7. s[k] \notin Contract!Known
    BY <1>1, <2>5, <2>6, KnownIsSeen
  <2> QED
    BY ONLY <2>4, <2>7
<1>9. Contract!IsInjective(s)
  <2>1. DOMAIN s = 1 .. n
    BY RunAt
  <2>2. ASSUME NEW k \in 1 .. n, NEW l \in 1 .. n, s[k] = s[l] PROVE k = l
    <3>1. /\ TailOf(t) + k - 1 \in Int /\ LiveAt(t, TailOf(t) + k - 1)
          /\ TailOf(t) + l - 1 \in Int /\ LiveAt(t, TailOf(t) + l - 1)
          /\ buffer[t][Slot(t, TailOf(t) + k - 1)] = buffer[t][Slot(t, TailOf(t) + l - 1)]
      BY <1>5, <1>6, <2>2
    <3>2. TailOf(t) + k - 1 = TailOf(t) + l - 1
      BY <3>1, LiveDistinct
    <3> QED
      BY <1>4, <3>2
  <2> QED
    BY <2>1, <2>2 DEF Contract!IsInjective
<1>10. s \in Contract!BoundedSeq(1 .. MaxCreated \ Contract!Known,
                                 Capacity[t] - (next_head[t] - head[t]) - Len(Deque(t)))
  <2> DEFINE S == 1 .. MaxCreated \ Contract!Known
             room == Capacity[t] - (next_head[t] - head[t]) - Len(Deque(t))
  <2>1. s \in [1 .. n -> S]
    BY <1>8 DEF Run
  <2>2. n \in 0 .. room
    BY <1>3, <1>4, <1>7
  <2> HIDE DEF S, room, s
  <2> QED
    BY <2>1, <2>2 DEF Contract!BoundedSeq, Contract!SeqOf, S, room
<1>11. Hand(t) = <<>> /\ Hand(t)' = <<>> /\ Source(t)' = Source(t) /\ Stealing(t)' = Stealing(t)
  BY <1>3 DEF Hand, Source, Stealing
<1>12. /\ [u \in Workers |-> Hand(u)]' = [u \in Workers |-> Hand(u)]
       /\ [u \in Workers |-> Source(u)]' = [u \in Workers |-> Source(u)]
       /\ [u \in Workers |-> Stealing(u)]' = [u \in Workers |-> Stealing(u)]
       /\ [q \in Workers |-> Drained(q)]' = [q \in Workers |-> Drained(q)]
  <2>1. /\ [u \in Workers |-> Hand(u)]' = [[u \in Workers |-> Hand(u)] EXCEPT ![t] = Hand(t)']
        /\ [q \in Workers |-> Drained(q)]' = [q \in Workers |-> Drained(q)]
    BY <1>1, <1>2, <1>3, NothingMoves
  <2>2. /\ [u \in Workers |-> Source(u)]' = [u \in Workers |-> Source(u)]
        /\ [u \in Workers |-> Stealing(u)]' = [u \in Workers |-> Stealing(u)]
    BY <1>2, <1>11, SourcesStay
  <2> QED
    BY ONLY <1>11, <2>1, <2>2
<1>13. [q \in Workers |-> next_head[q] - head[q]]' = [q \in Workers |-> next_head[q] - head[q]]
  BY <1>3, BookedStay
<1>14. Contract!Put(t)
  <2> HIDE DEF s
  <2>1. out' = out
    BY <1>3
  <2> QED
    BY ONLY <1>7, <1>9, <1>10, <1>12, <1>13, <2>1, t \in Workers DEF Contract!Put
<1> QED
  BY <1>14 DEF Refines, Contract!Next

(* What a steal moved appears at the back of the thief's queue at once. *)
LEMMA PublishDestRefines ==
    ASSUME RefInv, NEW t \in Workers, PublishDest(t)
    PROVE  Refines
<1>1. PositionInv /\ CounterTypes /\ SlotInv
  BY DEF RefInv, PositionInv
<1>2. OthersKeep(t)
  BY <1>1, StepOthers DEF Step
<1> DEFINE n == TransferCount(t)
           s == Run(buffer, t, TailOf(t), n)
<1>3. /\ pc[t] = "publish_dest" /\ pc'[t] = "commit" /\ buffer' = buffer
      /\ push_count' = [push_count EXCEPT ![t] = push_count[t] + n]
      /\ UNCHANGED <<pop_count, next_head, head, dropped, drainVars, out, op, victim>>
      /\ my_tail[t] + pop_count[t] = push_count[t] /\ t \notin dropped
      /\ my_tail[t] + n <= head[t] + Capacity[t]
  BY <1>1 DEF PublishDest, Goto, CounterTypes, wordVars, itemVars, localVars, PositionInv,
     KnowsTail, SlotInv, GoneIsQuiet
<1>4. /\ n \in Nat /\ my_tail[t] \in Int /\ my_tail[t] = TailOf(t) /\ TailOf(t) \in Int
      /\ next_head[t] \in Int /\ head[t] \in Int /\ Capacity[t] \in Int
  <2>1. n \in 0 .. count[t] /\ count[t] \in Nat
    BY <1>1, <1>3, Transferred, Numbers DEF Stealing
  <2>2. my_tail[t] \in Int /\ push_count[t] \in Int /\ pop_count[t] \in Int
    BY <1>1, Numbers
  <2> QED
    BY <1>1, <1>3, <2>1, <2>2, Numbers DEF TailOf
<1>5. /\ [q \in Workers |-> Deque(q)]'
           = [[q \in Workers |-> Deque(q)] EXCEPT ![t] = Deque(t) \o s]
      /\ Len(Deque(t)) = TailOf(t) - next_head[t]
  BY <1>1, <1>3, <1>4, DequeGrows
<1>6. /\ Hand(t) = s /\ Hand(t)' = <<>>
      /\ Source(t)' = Source(t) /\ Stealing(t)' = Stealing(t) /\ Stealing(t)
  BY <1>3, <1>4 DEF Hand, Source, Stealing
<1> HIDE DEF n
<1>7. Len(s) = n
  BY <1>4, RunLen
<1>8. /\ [u \in Workers |-> Hand(u)]' = [[u \in Workers |-> Hand(u)] EXCEPT ![t] = <<>>]
      /\ [u \in Workers |-> Source(u)]' = [u \in Workers |-> Source(u)]
      /\ [u \in Workers |-> Stealing(u)]' = [u \in Workers |-> Stealing(u)]
      /\ [q \in Workers |-> Drained(q)]' = [q \in Workers |-> Drained(q)]
  <2>1. /\ [u \in Workers |-> Hand(u)]' = [[u \in Workers |-> Hand(u)] EXCEPT ![t] = Hand(t)']
        /\ [q \in Workers |-> Drained(q)]' = [q \in Workers |-> Drained(q)]
    BY <1>1, <1>2, <1>3, NothingMoves
  <2>2. /\ [u \in Workers |-> Source(u)]' = [u \in Workers |-> Source(u)]
        /\ [u \in Workers |-> Stealing(u)]' = [u \in Workers |-> Stealing(u)]
    BY <1>2, <1>6, SourcesStay
  <2> QED
    BY ONLY <1>6, <2>1, <2>2
<1>9. [q \in Workers |-> next_head[q] - head[q]]' = [q \in Workers |-> next_head[q] - head[q]]
  BY <1>3, BookedStay
<1>10. Contract!Land(t)
  <2> HIDE DEF s
  <2>1. Len(Deque(t)) + (next_head[t] - head[t]) + Len(Hand(t)) <= Capacity[t]
    BY <1>3, <1>4, <1>5, <1>6, <1>7
  <2>2. out' = out
    BY <1>3
  <2> QED
    BY ONLY <1>5, <1>6, <1>8, <1>9, <2>1, <2>2, t \in Workers DEF Contract!Land
<1> QED
  BY <1>10 DEF Refines, Contract!Next

(* A pop claims the newest item. *)
LEMMA PopCasRefines ==
    ASSUME RefInv, NEW t \in Workers, PopCasOk(t)
    PROVE  Refines
<1>1. PositionInv /\ CounterTypes /\ SlotInv
  BY DEF RefInv, PositionInv
<1>2. OthersKeep(t)
  BY <1>1, StepOthers DEF Step
<1> DEFINE f == next_head[t]
           n == TailOf(t) - f
           s == Run(buffer, t, f, n)
<1>3. /\ pc[t] = "pop_cas" /\ pc'[t] = "pop_read" /\ buffer' = buffer
      /\ pop_count' = [pop_count EXCEPT ![t] = seen_pop[t] + 1]
      /\ next_head' = [next_head EXCEPT ![t] = seen_head[t]]
      /\ UNCHANGED <<push_count, head, dropped, drainVars, out, op, victim, my_tail>>
      /\ t \notin dropped
  BY <1>1 DEF PopCasOk, Goto, CounterTypes, itemVars, localVars, SlotInv, GoneIsQuiet
<1>4. /\ my_tail[t] + pop_count[t] = push_count[t] /\ seen_pop[t] = pop_count[t]
      /\ seen_head[t] = f /\ seen_head[t] < my_tail[t]
  BY <1>1, <1>3, PopCasExact DEF PositionInv, KnowsTail, PopSaw, PopCasOk
<1>5. /\ my_tail[t] = TailOf(t) /\ TailOf(t) \in Int /\ f \in Int /\ n \in Nat \ {0}
      /\ my_tail[t] - 1 = f + n - 1 /\ TailOf(t)' = TailOf(t) - 1
      /\ next_head' = next_head /\ (TailOf(t) - 1) - f = n - 1
  <2>1. /\ push_count[t] \in Int /\ pop_count[t] \in Int /\ my_tail[t] \in Int /\ f \in Int
    BY <1>1, Numbers
  <2>2. TailOf(t)' = push_count[t] - (seen_pop[t] + 1)
    BY <1>1, <1>3 DEF TailOf, CounterTypes
  <2>3. next_head' = next_head
    BY <1>1, <1>3, <1>4 DEF CounterTypes
  <2>4. TailOf(t) = push_count[t] - pop_count[t]
    BY DEF TailOf
  <2> HIDE DEF f
  <2> QED
    BY <1>4, <2>1, <2>2, <2>3, <2>4
<1>6. /\ Deque(t) = s /\ Deque(t)' = Run(buffer, t, f, n - 1)
      /\ \A q \in Workers \ {t} : Deque(q)' = Deque(q)
  <2>1. Deque(t) = s
    BY <1>3 DEF Deque
  <2>2. Deque(t)' = Run(buffer', t, f, TailOf(t)' - f)
    BY <1>3, <1>5 DEF Deque
  <2>3. \A q \in Workers \ {t} : TailOf(q)' = TailOf(q)
    BY <1>1, <1>3 DEF TailOf, CounterTypes
  <2> QED
    BY <1>3, <1>5, <2>1, <2>2, <2>3 DEF Deque
<1>7. /\ Hand(t) = <<>> /\ Hand(t)' = Run(buffer, t, my_tail[t] - 1, 1)
      /\ Source(t)' = Source(t) /\ Stealing(t)' = Stealing(t) /\ ~ Stealing(t)
  BY <1>3 DEF Hand, Source, Stealing
<1> HIDE DEF f, n
<1>8. /\ s # <<>> /\ Len(s) = n /\ s[n] = buffer[t][Slot(t, f + n - 1)]
      /\ SubSeq(s, 1, n - 1) = Run(buffer, t, f, n - 1)
  <2>1. f \in Int /\ n \in Nat \ {0}
    BY <1>5
  <2> QED
    BY ONLY <2>1, RunLast
<1>9. Hand(t)' = <<s[n]>>
  <2>1. my_tail[t] - 1 \in Int
    BY <1>5
  <2>2. Run(buffer, t, my_tail[t] - 1, 1) = <<buffer[t][Slot(t, my_tail[t] - 1)]>>
    BY <2>1, RunOne
  <2> QED
    BY <1>5, <1>7, <1>8, <2>2
<1> HIDE DEF s
<1>10. /\ [u \in Workers |-> Hand(u)]' = [[u \in Workers |-> Hand(u)] EXCEPT ![t] = Hand(t)']
       /\ [u \in Workers |-> Source(u)]' = [u \in Workers |-> Source(u)]
       /\ [u \in Workers |-> Stealing(u)]' = [u \in Workers |-> Stealing(u)]
       /\ [q \in Workers |-> Drained(q)]' = [q \in Workers |-> Drained(q)]
  <2>1. /\ [u \in Workers |-> Hand(u)]' = [[u \in Workers |-> Hand(u)] EXCEPT ![t] = Hand(t)']
        /\ [q \in Workers |-> Drained(q)]' = [q \in Workers |-> Drained(q)]
    BY <1>1, <1>2, <1>3, NothingMoves
  <2>2. /\ [u \in Workers |-> Source(u)]' = [u \in Workers |-> Source(u)]
        /\ [u \in Workers |-> Stealing(u)]' = [u \in Workers |-> Stealing(u)]
    BY <1>2, <1>7, SourcesStay
  <2> QED
    BY ONLY <2>1, <2>2
<1>11. [q \in Workers |-> next_head[q] - head[q]]' = [q \in Workers |-> next_head[q] - head[q]]
  BY <1>3, <1>5, BookedStay
<1>12. Contract!Claim(t)
  <2> DEFINE D == [q \in Workers |-> Deque(q)]
             H == [u \in Workers |-> Hand(u)]
             S == [u \in Workers |-> Stealing(u)]
  <2>1. D[t] = s /\ H[t] = <<>> /\ ~ S[t]
    BY <1>6, <1>7
  <2>2. Contract!Last(s) = s[n] /\ Contract!Front(s) = SubSeq(s, 1, n - 1)
    BY <1>8 DEF Contract!Last, Contract!Front
  <2>3. D' = [D EXCEPT ![t] = Contract!Front(s)]
    BY <1>6, <1>8, <2>2
  <2>4. H' = [H EXCEPT ![t] = <<Contract!Last(s)>>]
    BY <1>9, <1>10, <2>2
  <2>5. out' = out
    BY <1>3
  <2> HIDE DEF D, H, S
  <2> QED
    BY ONLY <1>8, <1>10, <1>11, <2>1, <2>3, <2>4, <2>5 DEF Contract!Claim, D, H, S
<1> QED
  BY <1>12 DEF Refines, Contract!Next

(* The end of a steal gives the slots back. *)
LEMMA CommitRefines ==
    ASSUME RefInv, NEW t \in Workers, Commit(t)
    PROVE  Refines
<1>1. PositionInv /\ CounterTypes
  BY DEF RefInv, PositionInv
<1>2. OthersKeep(t)
  BY <1>1, StepOthers DEF Step
<1>3. /\ pc[t] = "commit" /\ pc'[t] = "idle" /\ buffer' = buffer
      /\ head' = [head EXCEPT ![victim[t]] = seen_head[t] + count[t]]
      /\ UNCHANGED <<push_count, pop_count, next_head, dropped, drainVars, out>>
      /\ victim'[t] = t
  BY <1>1 DEF Commit, Return, Goto, CounterTypes, wordVars, itemVars
<1>4. /\ victim[t] \in Workers /\ next_head[victim[t]] = seen_head[t] + count[t]
      /\ next_head[victim[t]] \in Int
  BY <1>1, <1>3, Numbers DEF PositionInv, Holds, Stealing
<1>5. /\ Hand(t) = <<>> /\ Hand(t)' = <<>> /\ Source(t) = victim[t] /\ Source(t)' = t
      /\ Stealing(t) /\ ~ Stealing(t)'
  BY <1>3 DEF Hand, Source, Stealing
<1>6. /\ [u \in Workers |-> Hand(u)]' = [[u \in Workers |-> Hand(u)] EXCEPT ![t] = <<>>]
      /\ [u \in Workers |-> Source(u)]' = [[u \in Workers |-> Source(u)] EXCEPT ![t] = t]
      /\ [u \in Workers |-> Stealing(u)]' = [[u \in Workers |-> Stealing(u)] EXCEPT ![t] = FALSE]
      /\ [q \in Workers |-> Drained(q)]' = [q \in Workers |-> Drained(q)]
  <2>1. /\ [u \in Workers |-> Hand(u)]' = [[u \in Workers |-> Hand(u)] EXCEPT ![t] = Hand(t)']
        /\ [u \in Workers |-> Source(u)]'
             = [[u \in Workers |-> Source(u)] EXCEPT ![t] = Source(t)']
        /\ [u \in Workers |-> Stealing(u)]'
             = [[u \in Workers |-> Stealing(u)] EXCEPT ![t] = Stealing(t)']
        /\ [q \in Workers |-> Drained(q)]' = [q \in Workers |-> Drained(q)]
    BY <1>1, <1>2, <1>3, NothingMoves
  <2>2. Stealing(t)' = FALSE
    BY <1>5 DEF Stealing
  <2> QED
    BY ONLY <1>5, <2>1, <2>2
<1>7. [u \in Workers |-> Hand(u)]' = [u \in Workers |-> Hand(u)]
  BY ONLY <1>5, <1>6
<1>8. [q \in Workers |-> Deque(q)]' = [q \in Workers |-> Deque(q)]
  BY <1>1, <1>3, DequesStay DEF Kept
<1>9. [q \in Workers |-> next_head[q] - head[q]]'
        = [[q \in Workers |-> next_head[q] - head[q]] EXCEPT ![victim[t]] = 0]
  <2>1. \A q \in Workers : head'[q] = IF q = victim[t] THEN next_head[q] ELSE head[q]
    BY <1>1, <1>3, <1>4 DEF CounterTypes
  <2>2. \A q \in Workers : next_head'[q] - head'[q]
                             = IF q = victim[t] THEN 0 ELSE next_head[q] - head[q]
    BY <1>3, <1>4, <2>1
  <2> QED
    BY <2>2
<1>10. Contract!Release(t)
  <2>1. out' = out
    BY <1>3
  <2> QED
    BY ONLY <1>5, <1>6, <1>7, <1>8, <1>9, <2>1, t \in Workers DEF Contract!Release
<1> QED
  BY <1>10 DEF Refines, Contract!Next

(* A booking takes the oldest items of a queue no steal works on. *)
LEMMA BookingTakes ==
    ASSUME PositionInv, buffer' = buffer, NEW v \in Workers, v \notin dropped,
           head[v] = next_head[v], NEW n \in Nat \ {0}, next_head[v] + n <= TailOf(v),
           next_head' = [next_head EXCEPT ![v] = next_head[v] + n],
           UNCHANGED <<push_count, pop_count, head, dropped>>
    PROVE  /\ [q \in Workers |-> Deque(q)]'
                = [[q \in Workers |-> Deque(q)] EXCEPT
                      ![v] = SubSeq(Deque(v), n + 1, Len(Deque(v)))]
           /\ [q \in Workers |-> next_head[q] - head[q]]'
                = [[q \in Workers |-> next_head[q] - head[q]] EXCEPT ![v] = n]
           /\ next_head[v] - head[v] = 0
           /\ n \in 1 .. Len(Deque(v))
           /\ SubSeq(Deque(v), 1, n) = Run(buffer, v, next_head[v], n)
<1> DEFINE f == next_head[v]
           m == TailOf(v) - f
           s == Run(buffer, v, f, m)
<1>1. /\ f \in Int /\ TailOf(v) \in Int /\ m \in Nat /\ n \in 0 .. m /\ n \in 1 .. m /\ n \in Nat
      /\ TailOf(v) - (f + n) = m - n
  BY Numbers
<1>2. /\ next_head'[v] = f + n /\ \A q \in Workers \ {v} : next_head'[q] = next_head[q]
      /\ next_head \in [Workers -> Nat]
  BY DEF PositionInv, CounterTypes
<1>3. \A q \in Workers : TailOf(q)' = TailOf(q)
  BY DEF TailOf
<1>4. /\ Deque(v) = s /\ Deque(v)' = Run(buffer, v, f + n, m - n)
      /\ \A q \in Workers \ {v} : Deque(q)' = Deque(q)
  <2>1. Deque(v)' = Run(buffer', v, next_head'[v], TailOf(v)' - next_head'[v])
    BY DEF Deque
  <2>2. Deque(v)' = Run(buffer, v, f + n, m - n)
    BY <1>1, <1>2, <1>3, <2>1
  <2>3. \A q \in Workers \ {v} : Deque(q)' = Deque(q)
    BY <1>2, <1>3 DEF Deque
  <2> QED
    BY <2>2, <2>3 DEF Deque
<1> HIDE DEF f, m
<1>5. /\ SubSeq(s, 1, n) = Run(buffer, v, f, n) /\ SubSeq(s, n + 1, m) = Run(buffer, v, f + n, m - n)
      /\ Len(s) = m
  <2>1. f \in Int /\ m \in Nat /\ n \in 0 .. m
    BY <1>1
  <2> QED
    BY ONLY <2>1, RunCut, RunLen
<1> HIDE DEF s
<1>6. [q \in Workers |-> Deque(q)]'
        = [[q \in Workers |-> Deque(q)] EXCEPT ![v] = SubSeq(Deque(v), n + 1, Len(Deque(v)))]
  BY <1>4, <1>5
<1>7. /\ [q \in Workers |-> next_head[q] - head[q]]'
           = [[q \in Workers |-> next_head[q] - head[q]] EXCEPT ![v] = n]
      /\ next_head[v] - head[v] = 0
  <2>1. \A q \in Workers : next_head'[q] - head'[q]
                             = IF q = v THEN n ELSE next_head[q] - head[q]
    BY <1>1, <1>2 DEF f
  <2>2. next_head[v] - head[v] = 0
    BY <1>1 DEF f
  <2> QED
    BY <2>1, <2>2
<1> QED
  BY <1>1, <1>4, <1>5, <1>6, <1>7 DEF f

LEMMA BookRefines ==
    ASSUME RefInv, NEW t \in Workers, BookOk(t)
    PROVE  Refines
<1>1. PositionInv /\ CounterTypes /\ SlotInv
  BY DEF RefInv, PositionInv
<1>2. OthersKeep(t)
  BY <1>1, StepOthers DEF Step
<1> DEFINE v == victim[t]
           n == count[t]
<1>3. /\ pc[t] = "book" /\ v \in Workers /\ buffer' = buffer
      /\ pop_count' = [pop_count EXCEPT ![v] = seen_pop[t]]
      /\ next_head' = [next_head EXCEPT ![v] = seen_head[t] + n]
      /\ UNCHANGED <<push_count, head, dropped, out>>
      /\ v \notin dropped /\ t \notin dropped
  BY <1>1 DEF BookOk, CounterTypes, SlotInv, GoneIsQuiet, itemVars
<1>4. /\ next_head[v] = seen_head[t] /\ pop_count[v] = seen_pop[t] /\ head[v] = seen_head[t]
      /\ op[t] \in {"steal", "steal_and_pop", "drain"} /\ (op[t] = "drain" => v = t)
      /\ n >= 1 /\ seen_pop[t] + seen_head[t] + n <= push_count[v]
  BY <1>1, <1>3, BookExact DEF BookOk, PositionInv, ThiefSaw, Looking
<1>5. /\ n \in Nat \ {0} /\ next_head[v] + n <= TailOf(v) /\ pop_count' = pop_count
      /\ next_head' = [next_head EXCEPT ![v] = next_head[v] + n]
  <2>1. /\ n \in Nat /\ push_count[v] \in Int /\ pop_count[v] \in Int /\ next_head[v] \in Int
    BY <1>1, <1>3, Numbers
  <2>2. pop_count' = pop_count
    BY <1>1, <1>3, <1>4 DEF CounterTypes
  <2>3. TailOf(v) = push_count[v] - pop_count[v]
    BY DEF TailOf
  <2> HIDE DEF v, n
  <2> QED
    BY <1>3, <1>4, <2>1, <2>2, <2>3
<1> HIDE DEF v, n
<1>6. /\ [q \in Workers |-> Deque(q)]'
           = [[q \in Workers |-> Deque(q)] EXCEPT
            ![v] = SubSeq(Deque(v), n + 1, Len(Deque(v)))]
      /\ [q \in Workers |-> next_head[q] - head[q]]'
           = [[q \in Workers |-> next_head[q] - head[q]] EXCEPT ![v] = n]
      /\ next_head[v] - head[v] = 0
      /\ n \in 1 .. Len(Deque(v))
      /\ SubSeq(Deque(v), 1, n) = Run(buffer, v, next_head[v], n)
  <2>1. /\ head[v] = next_head[v] /\ PositionInv
        /\ UNCHANGED <<push_count, pop_count, head, dropped>>
    BY <1>1, <1>3, <1>4, <1>5
  <2> QED
    BY ONLY <1>3, <1>5, <2>1, BookingTakes
<1>7. Hand(t) = <<>> /\ ~ Stealing(t) /\ Source(t) = t
  BY <1>3 DEF Hand, Stealing, Source
<1>8. \A q \in Workers : \A p \in Int : Kept(q, p)
  BY <1>3 DEF Kept
<1>9. CASE op[t] # "drain"
  <2>1. /\ pc'[t] = "copy" /\ UNCHANGED <<localVars, drainVars>>
    BY <1>1, <1>9 DEF BookOk, Goto, CounterTypes
  <2>2. Hand(t)' = SubSeq(Deque(v), 1, n) /\ Source(t)' = v /\ Stealing(t)' = TRUE
    <3>1. Hand(t)' = Run(buffer', victim'[t], seen_head'[t], count'[t])
      BY <2>1 DEF Hand
    <3> QED
      BY <1>3, <1>4, <1>6, <2>1, <3>1 DEF localVars, Source, Stealing, v, n
  <2>3. /\ [u \in Workers |-> Hand(u)]'
             = [[u \in Workers |-> Hand(u)] EXCEPT ![t] = SubSeq(Deque(v), 1, n)]
        /\ [u \in Workers |-> Source(u)]' = [[u \in Workers |-> Source(u)] EXCEPT ![t] = v]
        /\ [u \in Workers |-> Stealing(u)]'
             = [[u \in Workers |-> Stealing(u)] EXCEPT ![t] = TRUE]
        /\ [q \in Workers |-> Drained(q)]' = [q \in Workers |-> Drained(q)]
    <3>1. /\ [u \in Workers |-> Hand(u)]' = [[u \in Workers |-> Hand(u)] EXCEPT ![t] = Hand(t)']
          /\ [u \in Workers |-> Source(u)]'
               = [[u \in Workers |-> Source(u)] EXCEPT ![t] = Source(t)']
          /\ [u \in Workers |-> Stealing(u)]'
               = [[u \in Workers |-> Stealing(u)] EXCEPT ![t] = Stealing(t)']
          /\ [q \in Workers |-> Drained(q)]' = [q \in Workers |-> Drained(q)]
      BY <1>1, <1>2, <1>3, <2>1, NothingMoves
    <3> QED
      BY ONLY <2>2, <3>1
  <2>4. Contract!Book(t, v)
    <3> DEFINE D == [q \in Workers |-> Deque(q)]
               B == [q \in Workers |-> next_head[q] - head[q]]
               H == [u \in Workers |-> Hand(u)]
               R == [u \in Workers |-> Source(u)]
               S == [u \in Workers |-> Stealing(u)]
               Z == [q \in Workers |-> Drained(q)]
    <3>1. H[t] = <<>> /\ ~ S[t] /\ D[v] = Deque(v) /\ out' = out
      BY <1>3, <1>7
    <3>2. /\ H' = [H EXCEPT ![t] = SubSeq(Deque(v), 1, n)] /\ R' = [R EXCEPT ![t] = v]
          /\ S' = [S EXCEPT ![t] = TRUE] /\ Z' = Z
          /\ D' = [D EXCEPT ![v] = SubSeq(Deque(v), n + 1, Len(Deque(v)))]
          /\ B' = [B EXCEPT ![v] = n] /\ B[v] = 0
      BY ONLY <1>3, <1>6, <2>3
    <3> HIDE DEF B, D, H, R, S, Z
    <3>3. \E m \in 1 .. Len(D[v]) :
             /\ H[t] = <<>> /\ ~ S[t] /\ B[v] = 0
             /\ D' = [D EXCEPT ![v] = SubSeq(@, m + 1, Len(@))] /\ B' = [B EXCEPT ![v] = m]
             /\ H' = [H EXCEPT ![t] = SubSeq(D[v], 1, m)] /\ R' = [R EXCEPT ![t] = v]
             /\ S' = [S EXCEPT ![t] = TRUE] /\ Z' = Z /\ out' = out
      BY ONLY <1>6, <3>1, <3>2
    <3> QED
      BY ONLY <3>3 DEF Contract!Book, Contract!Take, B, D, H, R, S, Z
  <2> QED
    BY <1>3, <2>4 DEF Refines, Contract!Next
<1>10. CASE op[t] = "drain"
  <2>1. /\ pc'[t] = "idle" /\ v = t
        /\ draining' = [draining EXCEPT ![t] = "active"]
        /\ drain_current' = [drain_current EXCEPT ![t] = seen_head[t]]
        /\ drain_end' = [drain_end EXCEPT ![t] = seen_head[t] + n]
        /\ victim'[t] = t
    BY <1>1, <1>4, <1>10 DEF BookOk, Return, Goto, CounterTypes, n
  <2>2. Hand(t)' = <<>> /\ Source(t)' = t /\ ~ Stealing(t)'
    BY <2>1 DEF Hand, Source, Stealing
  <2>3. /\ [u \in Workers |-> Hand(u)]' = [u \in Workers |-> Hand(u)]
        /\ [u \in Workers |-> Source(u)]' = [u \in Workers |-> Source(u)]
        /\ [u \in Workers |-> Stealing(u)]' = [u \in Workers |-> Stealing(u)]
    <3>1. [u \in Workers |-> Hand(u)]' = [[u \in Workers |-> Hand(u)] EXCEPT ![t] = Hand(t)']
      BY <1>1, <1>2, <1>3, NothingMoves
    <3>2. Source(t)' = Source(t) /\ Stealing(t)' = Stealing(t)
      BY <1>7, <2>2 DEF Stealing
    <3>3. /\ [u \in Workers |-> Source(u)]' = [u \in Workers |-> Source(u)]
          /\ [u \in Workers |-> Stealing(u)]' = [u \in Workers |-> Stealing(u)]
      BY <1>2, <3>2, SourcesStay
    <3> QED
      BY ONLY <1>7, <2>2, <3>1, <3>3
  <2>4. [q \in Workers |-> Drained(q)]'
          = [[q \in Workers |-> Drained(q)] EXCEPT ![t] = SubSeq(Deque(t), 1, n)]
    <3>1. /\ draining'[t] = "active" /\ drain_current'[t] = seen_head[t]
          /\ drain_end'[t] = seen_head[t] + n
          /\ \A q \in Workers \ {t} : /\ draining'[q] = draining[q]
                                      /\ drain_current'[q] = drain_current[q]
                                      /\ drain_end'[q] = drain_end[q]
      BY <1>1, <2>1 DEF CounterTypes
    <3>2. Drained(t)' = Run(buffer', t, drain_current'[t], drain_end'[t] - drain_current'[t])
      BY <3>1 DEF Drained
    <3>3. (seen_head[t] + n) - seen_head[t] = n
      BY <1>1, <1>5, Numbers
    <3>4. Drained(t)' = SubSeq(Deque(t), 1, n)
      BY <1>3, <1>4, <1>6, <2>1, <3>1, <3>2, <3>3
    <3>5. \A q \in Workers \ {t} : Drained(q)' = Drained(q)
      BY <1>3, <3>1 DEF Drained
    <3> QED
      BY <3>4, <3>5
  <2>5. Contract!BookDrain(t)
    <3> DEFINE D == [q \in Workers |-> Deque(q)]
               B == [q \in Workers |-> next_head[q] - head[q]]
               Z == [q \in Workers |-> Drained(q)]
    <3>1. D[t] = Deque(t) /\ out' = out
      BY <1>3
    <3>2. /\ Z' = [Z EXCEPT ![t] = SubSeq(Deque(t), 1, n)]
          /\ D' = [D EXCEPT ![t] = SubSeq(Deque(t), n + 1, Len(Deque(t)))]
          /\ B' = [B EXCEPT ![t] = n] /\ B[t] = 0
      BY ONLY <1>6, <2>1, <2>4, t \in Workers
    <3> HIDE DEF B, D, Z
    <3>3. \E m \in 1 .. Len(D[t]) :
             /\ B[t] = 0
             /\ D' = [D EXCEPT ![t] = SubSeq(@, m + 1, Len(@))] /\ B' = [B EXCEPT ![t] = m]
             /\ Z' = [Z EXCEPT ![t] = SubSeq(D[t], 1, m)]
             /\ out' = out
      BY ONLY <1>6, <2>1, <3>1, <3>2
    <3> QED
      BY ONLY <2>3, <3>3 DEF Contract!BookDrain, Contract!Take, B, D, Z
  <2> QED
    BY <2>5 DEF Refines, Contract!Next
<1> QED
  BY <1>9, <1>10

(* A step that only moves items out of queues and Drains leaves every hand. *)
LEMMA AllHandsStay ==
    ASSUME PositionInv, UNCHANGED threadVars,
           \A u \in Workers : \A q \in Workers : \A p \in Int : HandAt(u, q, p) => Kept(q, p)
    PROVE  /\ [u \in Workers |-> Hand(u)]' = [u \in Workers |-> Hand(u)]
           /\ [u \in Workers |-> Source(u)]' = [u \in Workers |-> Source(u)]
           /\ [u \in Workers |-> Stealing(u)]' = [u \in Workers |-> Stealing(u)]
<1>1. \A u \in Workers : Hand(u)' = Hand(u) /\ Source(u)' = Source(u)
                         /\ Stealing(u)' = Stealing(u)
  BY HandStays DEF threadVars, localVars
<1> QED
  BY <1>1

(* A Drain yields the items it took in order. *)
LEMMA DrainNextRefines ==
    ASSUME RefInv, NEW t \in Workers, DrainNext(t)
    PROVE  Refines
<1>1. PositionInv /\ CounterTypes /\ BufferShape(buffer)
  BY DEF RefInv, PositionInv, ItemTypes
<1> DEFINE f == drain_current[t]
           n == drain_end[t] - f
           s == Run(buffer, t, f, n)
<1>2. /\ draining[t] = "active" /\ drain_current[t] # drain_end[t]
      /\ buffer' = MovedOut(buffer, t, f, 1) /\ out' = out \cup Read(buffer, t, f, 1)
      /\ drain_current' = [drain_current EXCEPT ![t] = f + 1]
      /\ UNCHANGED <<push_count, pop_count, next_head, head, dropped, threadVars, draining,
                     drain_end>>
  BY DEF DrainNext, wordVars
<1>3. /\ f \in Int /\ n \in Nat \ {0} /\ drain_end[t] - (f + 1) = n - 1 /\ f + n = drain_end[t]
      /\ head[t] <= f /\ f < next_head[t] /\ f < drain_end[t]
      /\ next_head[t] \in Int /\ head[t] \in Int
  <2>1. DrainHolds(t)
    BY <1>1 DEF PositionInv
  <2>2. drain_end[t] \in Nat /\ drain_current[t] \in Nat /\ next_head[t] \in Int /\ head[t] \in Int
    BY <1>1, Numbers
  <2> QED
    BY <1>2, <2>1, <2>2 DEF DrainHolds
<1>4. LiveAt(t, f) /\ DrainedAt(t, f) /\ f .. f + 1 - 1 \subseteq Window(t)
  <2>1. DrainedAt(t, f)
    BY <1>2, <1>3 DEF DrainedAt
  <2>2. LiveAt(t, f)
    BY <1>3, <2>1, SeenIsLive DEF SeenAt
  <2>3. f \in Window(t)
    BY <1>1, <1>3, <2>2, LiveInWindow DEF LiveNear
  <2> HIDE DEF f
  <2> QED
    BY <1>3, <2>1, <2>2, <2>3
<1> HIDE DEF f, n
<1>5. ASSUME NEW q \in Workers, NEW p \in Int, SeenAt(q, p), ~ (q = t /\ p = f)
      PROVE  Kept(q, p)
  <2>1. LiveAt(q, p)
    BY <1>5, SeenIsLive
  <2>2. ~ (q = t /\ p \in f .. f + 1 - 1)
    BY <1>3, <1>5
  <2>3. Apart(q, p, t, f, 1)
    BY <1>3, <1>4, <2>1, <2>2, LiveApart
  <2> QED
    BY <1>1, <1>2, <1>3, <2>3, MovedOutKeeps DEF Kept
<1>6. /\ [u \in Workers |-> Hand(u)]' = [u \in Workers |-> Hand(u)]
      /\ [u \in Workers |-> Source(u)]' = [u \in Workers |-> Source(u)]
      /\ [u \in Workers |-> Stealing(u)]' = [u \in Workers |-> Stealing(u)]
  <2>1. ASSUME NEW u \in Workers, NEW q \in Workers, NEW p \in Int, HandAt(u, q, p)
        PROVE  Kept(q, p)
    <3>1. ~ DrainedAt(q, p)
      BY <2>1, HandsApart
    <3> QED
      BY <1>4, <1>5, <2>1, <3>1 DEF SeenAt
  <2> QED
    BY <1>1, <1>2, <2>1, AllHandsStay
<1>7. [q \in Workers |-> Deque(q)]' = [q \in Workers |-> Deque(q)]
  <2>1. ASSUME NEW q \in Workers, NEW p \in Int, DequeAt(q, p) PROVE Kept(q, p)
    <3>1. ~ (q = t /\ p = f)
      BY <1>3, <2>1 DEF DequeAt
    <3> QED
      BY <1>5, <2>1, <3>1 DEF SeenAt
  <2> QED
    BY <1>1, <1>2, <2>1, DequesStay
<1>8. /\ Drained(t) = s /\ Drained(t)' = Tail(s) /\ s # <<>> /\ Head(s) = buffer[t][Slot(t, f)]
  <2>1. /\ s # <<>> /\ Head(s) = buffer[t][Slot(t, f)]
        /\ Tail(s) = Run(buffer, t, f + 1, n - 1)
    <3>1. f \in Int /\ n \in Nat \ {0}
      BY <1>3
    <3> QED
      BY ONLY <3>1, RunFirst
  <2>2. Drained(t) = s
    BY <1>2 DEF Drained, f, n
  <2>3. Drained(t)' = Run(buffer', t, f + 1, n - 1)
    <3>1. drain_current'[t] = f + 1
      BY <1>1, <1>2 DEF CounterTypes
    <3>2. Drained(t)' = Run(buffer', t, drain_current'[t], drain_end'[t] - drain_current'[t])
      BY <1>2 DEF Drained
    <3> QED
      BY <1>2, <1>3, <3>1, <3>2
  <2>4. ASSUME NEW r \in f + 1 .. f + 1 + (n - 1) - 1
        PROVE  buffer'[t][Slot(t, r)] = buffer[t][Slot(t, r)]
    <3>1. r \in Int /\ r # f /\ f <= r /\ r < f + n
      BY <1>3
    <3>2. DrainedAt(t, r)
      BY <1>2, <1>3, <3>1 DEF DrainedAt, f, n
    <3> QED
      BY <1>5, <3>1, <3>2 DEF SeenAt, Kept
  <2>5. Run(buffer', t, f + 1, n - 1) = Run(buffer, t, f + 1, n - 1)
    <3>1. f + 1 \in Int /\ n - 1 \in Int
      BY <1>3
    <3> QED
      BY <2>4, <3>1, RunSame
  <2> HIDE DEF s
  <2> QED
    BY ONLY <2>1, <2>2, <2>3, <2>5
<1>9. [q \in Workers |-> Drained(q)]' = [[q \in Workers |-> Drained(q)] EXCEPT ![t] = Tail(s)]
  <2>1. ASSUME NEW q \in Workers \ {t} PROVE Drained(q)' = Drained(q)
    <3>1. drain_current'[q] = drain_current[q]
      BY <1>1, <1>2 DEF CounterTypes
    <3>2. \A p \in Int : DrainedAt(q, p) => Kept(q, p)
      BY <1>5 DEF SeenAt
    <3> QED
      BY <1>1, <1>2, <3>1, <3>2, DrainedStays
  <2> QED
    BY <1>8, <2>1
<1>10. [q \in Workers |-> next_head[q] - head[q]]' = [q \in Workers |-> next_head[q] - head[q]]
  BY <1>2, BookedStay
<1>11. out' = out \cup {Head(s)}
  BY <1>2, <1>3, <1>8, ReadOne
<1>12. Contract!DrainNext(t)
  <2> DEFINE Z == [q \in Workers |-> Drained(q)]
  <2>1. Z[t] = s /\ Z' = [Z EXCEPT ![t] = Tail(s)]
    BY <1>8, <1>9
  <2> HIDE DEF Z, s
  <2> QED
    BY ONLY <1>6, <1>7, <1>8, <1>10, <1>11, <2>1 DEF Contract!DrainNext, Z
<1> QED
  BY <1>12 DEF Refines, Contract!Next

(* A Drain that is through gives the slots back. *)
LEMMA DrainCommitRefines ==
    ASSUME RefInv, NEW t \in Workers, DrainCommit(t)
    PROVE  Refines
<1>1. PositionInv /\ CounterTypes
  BY DEF RefInv, PositionInv
<1>2. /\ draining[t] = "active" /\ buffer' = buffer
      /\ Short(drain_current[t]) = Short(drain_end[t])
      /\ head' = [head EXCEPT ![t] = drain_end[t]]
      /\ draining' = [draining EXCEPT ![t] = "no"]
      /\ drain_current' = [drain_current EXCEPT ![t] = 0]
      /\ drain_end' = [drain_end EXCEPT ![t] = 0]
      /\ UNCHANGED <<push_count, pop_count, next_head, dropped, threadVars, out>>
  BY DEF DrainCommit, wordVars, itemVars
<1>3. /\ head[t] <= drain_current[t] /\ drain_current[t] <= drain_end[t]
      /\ head[t] < drain_end[t] /\ drain_end[t] = next_head[t]
      /\ head[t] \in Int /\ drain_current[t] \in Int /\ next_head[t] \in Int
      /\ next_head[t] <= head[t] + Capacity[t] /\ Capacity[t] \in Nat
  BY <1>1, <1>2, Numbers DEF PositionInv, DrainHolds
<1>4. drain_current[t] = drain_end[t]
  <2>1. Capacity[t] < Modulus /\ Modulus \in Nat
    BY CapacityFacts, CapacityAssumption
  <2>2. drain_end[t] - drain_current[t] < Modulus /\ drain_current[t] - drain_end[t] < Modulus
    BY <1>3, <2>1
  <2> QED
    BY <1>2, <1>3, <2>2, ShortEqual
<1>5. /\ [u \in Workers |-> Hand(u)]' = [u \in Workers |-> Hand(u)]
      /\ [u \in Workers |-> Source(u)]' = [u \in Workers |-> Source(u)]
      /\ [u \in Workers |-> Stealing(u)]' = [u \in Workers |-> Stealing(u)]
  BY <1>1, <1>2, AllHandsStay DEF Kept
<1>6. [q \in Workers |-> Deque(q)]' = [q \in Workers |-> Deque(q)]
  BY <1>1, <1>2, DequesStay DEF Kept
<1>7. Drained(t) = <<>> /\ [q \in Workers |-> Drained(q)]' = [q \in Workers |-> Drained(q)]
  <2>1. Drained(t) = <<>>
    <3>1. drain_end[t] - drain_current[t] \in Int /\ drain_end[t] - drain_current[t] <= 0
      BY <1>3, <1>4
    <3>2. Run(buffer, t, drain_current[t], drain_end[t] - drain_current[t]) = <<>>
      BY ONLY <1>3, <3>1, RunEmpty
    <3> QED
      BY <1>2, <3>2 DEF Drained
  <2>2. Drained(t)' = <<>>
    BY <1>1, <1>2 DEF Drained, CounterTypes
  <2>3. ASSUME NEW q \in Workers \ {t} PROVE Drained(q)' = Drained(q)
    <3>1. /\ draining'[q] = draining[q] /\ drain_current'[q] = drain_current[q]
          /\ drain_end'[q] = drain_end[q]
      BY <1>1, <1>2 DEF CounterTypes
    <3> QED
      BY <1>2, <3>1 DEF Drained
  <2> QED
    BY <2>1, <2>2, <2>3
<1>8. /\ [q \in Workers |-> next_head[q] - head[q]]'
           = [[q \in Workers |-> next_head[q] - head[q]] EXCEPT ![t] = 0]
      /\ next_head[t] - head[t] # 0
  <2>1. \A q \in Workers : next_head'[q] - head'[q]
                             = IF q = t THEN 0 ELSE next_head[q] - head[q]
    BY <1>1, <1>2, <1>3 DEF CounterTypes
  <2>2. [q \in Workers |-> next_head[q] - head[q]]'
          = [[q \in Workers |-> next_head[q] - head[q]] EXCEPT ![t] = 0]
    BY ONLY <2>1
  <2> QED
    BY ONLY <1>3, <2>2
<1>9. \A u \in Workers : Stealing(u) => Source(u) # t
  BY <1>1, <1>2 DEF PositionInv, Holds, Source
<1>10. Contract!ReleaseDrain(t)
  <2> DEFINE B == [q \in Workers |-> next_head[q] - head[q]]
             R == [u \in Workers |-> Source(u)]
             S == [u \in Workers |-> Stealing(u)]
             Z == [q \in Workers |-> Drained(q)]
  <2>1. /\ B[t] # 0 /\ Z[t] = <<>> /\ (\A u \in Workers : S[u] => R[u] # t)
        /\ B' = [B EXCEPT ![t] = 0] /\ out' = out
    BY <1>2, <1>7, <1>8, <1>9
  <2> HIDE DEF B, R, S, Z
  <2> QED
    BY ONLY <1>5, <1>6, <1>7, <2>1 DEF Contract!ReleaseDrain, B, R, S, Z
<1> QED
  BY <1>10 DEF Refines, Contract!Next

(* A queue that goes releases what it holds. *)
LEMMA DropRefines ==
    ASSUME RefInv, LeakedKept', NEW t \in Workers, Drop(t)
    PROVE  Refines
<1>1. PositionInv /\ CounterTypes /\ BufferShape(buffer)
  BY DEF RefInv, PositionInv, ItemTypes
<1> DEFINE f == head[t]
           n == OwnLen(t)
<1>2. /\ pc[t] = "idle" /\ draining[t] # "active" /\ dropped' = dropped \cup {t}
      /\ t \notin dropped
      /\ \A u \in Workers : pc[u] # "idle" => victim[u] # t
      /\ buffer' = MovedOut(buffer, t, f, n) /\ out' = out \cup Read(buffer, t, f, n)
      /\ UNCHANGED <<push_count, pop_count, next_head, head, threadVars, drainVars>>
  BY DEF Drop, wordVars
<1>3. draining[t] = "no"
  BY <1>1, <1>2 DEF LeakedKept, CounterTypes, drainVars
<1>4. f = next_head[t]
  BY <1>1, <1>2, <1>3 DEF PositionInv, NoOrphan, Stealing
<1>5. n = TailOf(t) - f /\ n \in Int /\ f \in Int /\ TailOf(t) \in Int /\ n \in Nat
      /\ TailOf(t) <= f + Capacity[t] /\ Capacity[t] \in Int
  BY <1>1, OwnLenExact, Numbers
<1> HIDE DEF n, f
<1>6. f .. f + n - 1 \subseteq Window(t)
  BY <1>5 DEF Window, f
<1>7. ASSUME NEW q \in Workers, NEW p \in Int, SeenAt(q, p), q # t \/ ~ DequeAt(q, p)
      PROVE  Kept(q, p)
  <2>1. LiveAt(q, p)
    BY <1>7, SeenIsLive
  <2>2. q # t
    BY <1>2, <1>3, <1>7 DEF SeenAt, DrainedAt, HandAt
  <2>3. Apart(q, p, t, f, n)
    BY <2>2 DEF Apart
  <2> QED
    BY <1>1, <1>2, <1>5, <2>3, MovedOutKeeps DEF Kept
<1>8. /\ [u \in Workers |-> Hand(u)]' = [u \in Workers |-> Hand(u)]
      /\ [u \in Workers |-> Source(u)]' = [u \in Workers |-> Source(u)]
      /\ [u \in Workers |-> Stealing(u)]' = [u \in Workers |-> Stealing(u)]
  <2>1. ASSUME NEW u \in Workers, NEW q \in Workers, NEW p \in Int, HandAt(u, q, p)
        PROVE  Kept(q, p)
    BY <1>7, <2>1, HandsApart DEF SeenAt
  <2> QED
    BY <1>1, <1>2, <2>1, AllHandsStay
<1>9. [q \in Workers |-> Drained(q)]' = [q \in Workers |-> Drained(q)]
  <2>1. ASSUME NEW q \in Workers, NEW p \in Int, DrainedAt(q, p) PROVE Kept(q, p)
    BY <1>3, <1>7, <2>1 DEF SeenAt, DrainedAt
  <2> QED
    BY <1>1, <1>2, <2>1, DrainsStay DEF drainVars
<1>10. Deque(t) = Run(buffer, t, f, n)
       /\ [q \in Workers |-> Deque(q)]' = [[q \in Workers |-> Deque(q)] EXCEPT ![t] = <<>>]
  <2>1. Deque(t) = Run(buffer, t, f, n)
    BY <1>2, <1>4, <1>5 DEF Deque
  <2>2. Deque(t)' = <<>>
    BY <1>2 DEF Deque
  <2>3. ASSUME NEW q \in Workers \ {t} PROVE Deque(q)' = Deque(q)
    <3>1. TailOf(q)' = TailOf(q)
      BY <1>2 DEF TailOf
    <3>2. \A p \in Int : DequeAt(q, p) => Kept(q, p)
      BY <1>7 DEF SeenAt
    <3> QED
      BY <1>1, <1>2, <3>1, <3>2, DequeStays
  <2> QED
    BY <2>1, <2>2, <2>3
<1>11. out' = out \cup Contract!ToSet(Deque(t))
  <2>1. {Run(buffer, t, f, n)[k] : k \in DOMAIN Run(buffer, t, f, n)} = Read(buffer, t, f, n)
    <3>1. f \in Int /\ n \in Int
      BY <1>5
    <3> QED
      BY ONLY <3>1, RunSet
  <2> QED
    BY <1>2, <1>10, <2>1 DEF Contract!ToSet
<1>12. [q \in Workers |-> next_head[q] - head[q]]' = [q \in Workers |-> next_head[q] - head[q]]
  BY <1>2, BookedStay
<1>13. Hand(t) = <<>> /\ \A u \in Workers : Stealing(u) => Source(u) # t
  BY <1>2 DEF Hand, Stealing, Source
<1>14. Contract!Drop(t)
  <2> DEFINE D == [q \in Workers |-> Deque(q)]
             H == [u \in Workers |-> Hand(u)]
             R == [u \in Workers |-> Source(u)]
             S == [u \in Workers |-> Stealing(u)]
  <2>1. /\ H[t] = <<>> /\ (\A u \in Workers : S[u] => R[u] # t)
        /\ D[t] = Deque(t) /\ D' = [D EXCEPT ![t] = <<>>]
    BY <1>10, <1>13
  <2> HIDE DEF D, H, R, S
  <2> QED
    BY ONLY <1>8, <1>9, <1>11, <1>12, <2>1 DEF Contract!Drop, D, H, R, S
<1> QED
  BY <1>14 DEF Refines, Contract!Next

(* The clients create no more items than the bound says. *)
Bounded == created <= MaxCreated

LEMMA NextBounded == PositionInv /\ Bounded /\ [Next]_vars => Bounded'
<1> SUFFICES ASSUME PositionInv, Bounded, [Next]_vars PROVE created' <= MaxCreated
  BY DEF Bounded
<1>0. created \in Nat /\ MaxCreated \in Nat /\ created <= MaxCreated
  BY ClientAssumption DEF PositionInv, CounterTypes, Bounded
<1>1. CASE UNCHANGED vars
  BY <1>0, <1>1 DEF vars, itemVars
<1>2. ASSUME NEW t \in Workers, Step(t) PROVE created' <= MaxCreated
  <2>1. CASE Push(t)
    BY <1>0, <2>1 DEF Push, Carry
  <2>2. ASSUME NEW n \in 0 .. MaxCreated, Extend(t, n) PROVE created' <= MaxCreated
    <3> DEFINE room == WrappingSub(head[t] + Capacity[t], TailOf(t))
    <3>1. room \in Int
      BY RoomExact, Numbers
    <3>2. created' = created + Least(n, room) /\ created + n <= MaxCreated
      BY <2>2 DEF Extend, Carry
    <3> HIDE DEF room
    <3>3. Least(n, room) <= n /\ Least(n, room) \in Int
      BY <3>1 DEF Least
    <3> QED
      BY <1>0, <3>2, <3>3
  <2>3. CASE ~ (Push(t) \/ \E n \in 0 .. MaxCreated : Extend(t, n))
    <3>1. created' = created
      BY <1>2, <2>3 DEF Step, Write, Publish, Pop, PopCasOk, PopCasFail, PopRead,
         Steal, DrainCall, LoadWord, LoadHead, LoadPush, BookOk, BookFail, Copy, PublishDest,
         Commit, DrainNext, DrainCommit, DrainLeak, Drop, itemVars
    <3> QED
      BY <1>0, <3>1
  <2> QED
    BY <2>1, <2>2, <2>3
<1> QED
  BY <1>1, <1>2 DEF Next

(* Every step of the queues is one of the contract, or none at all. *)
LEMMA StepRefines ==
    ASSUME RefInv, PositionInv', LeakedKept', [Next]_vars
    PROVE  Refines
<1>1. CASE UNCHANGED vars
  <2>1. \A t \in Workers : Hand(t)' = Hand(t) /\ Source(t)' = Source(t)
                           /\ Stealing(t)' = Stealing(t)
    BY <1>1 DEF vars, queueVars, threadVars, localVars, Hand, Source, Stealing, TransferCount
  <2>2. \A q \in Workers : Deque(q)' = Deque(q) /\ Drained(q)' = Drained(q)
    BY <1>1 DEF vars, queueVars, drainVars, Deque, Drained, TailOf
  <2>3. [q \in Workers |-> next_head[q] - head[q]]' = [q \in Workers |-> next_head[q] - head[q]]
    BY <1>1, BookedStay DEF vars, queueVars
  <2>4. out' = out
    BY <1>1 DEF vars, itemVars
  <2> QED
    BY <2>1, <2>2, <2>3, <2>4 DEF Refines, Contract!vars
<1>2. ASSUME NEW t \in Workers, Step(t) PROVE Refines
  <2>1. CASE \/ Push(t) \/ (\E n \in 0 .. MaxCreated : Extend(t, n)) \/ Pop(t) \/ PopCasFail(t)
             \/ (\E v \in Workers, name \in OpNames : Steal(t, v, name)) \/ DrainCall(t)
             \/ LoadWord(t) \/ LoadHead(t) \/ (\E n \in 0 .. Modulus - 1 : LoadPush(t, n))
             \/ BookFail(t) \/ DrainLeak(t)
    BY <2>1, LooksRefine
  <2>2. CASE Write(t)
    BY <2>2, WriteRefines
  <2>3. CASE Publish(t)
    BY <2>3, PublishRefines
  <2>4. CASE PopCasOk(t)
    BY <2>4, PopCasRefines
  <2>5. CASE PopRead(t)
    BY <2>5, PopReadRefines
  <2>6. CASE BookOk(t)
    BY <2>6, BookRefines
  <2>7. CASE Copy(t)
    BY <2>7, CopyRefines
  <2>8. CASE PublishDest(t)
    BY <2>8, PublishDestRefines
  <2>9. CASE Commit(t)
    BY <2>9, CommitRefines
  <2>10. CASE DrainNext(t)
    BY <2>10, DrainNextRefines
  <2>11. CASE DrainCommit(t)
    BY <2>11, DrainCommitRefines
  <2>12. CASE Drop(t)
    BY <2>12, DropRefines
  <2> QED
    BY <1>2, <2>1, <2>2, <2>3, <2>4, <2>5, <2>6, <2>7, <2>8, <2>9, <2>10, <2>11, <2>12
       DEF Step
<1> QED
  BY <1>1, <1>2 DEF Next

(* The queues start where the contract does. *)
LEMMA InitRefines == Init => Contract!Init
<1> SUFFICES ASSUME Init PROVE Contract!Init
  OBVIOUS
<1>1. PositionInv
  BY InitPositionInv
<1>2. ASSUME NEW q \in Workers
      PROVE  /\ Deque(q) = <<>> /\ Hand(q) = <<>> /\ Drained(q) = <<>>
             /\ Source(q) = q /\ Stealing(q) = FALSE /\ next_head[q] - head[q] = 0
  <2>1. /\ TailOf(q) - next_head[q] = 0 /\ next_head[q] - head[q] = 0 /\ next_head[q] \in Int
    <3>1. PICK s \in [Workers -> Starts] :
             /\ pop_count = [r \in Workers |-> s[r][1]]
             /\ head = [r \in Workers |-> s[r][2]]
             /\ next_head = head
             /\ push_count = [r \in Workers |-> s[r][1] + s[r][2]]
      BY DEF Init
    <3>2. pop_count[q] \in Int /\ head[q] \in Int /\ push_count[q] \in Int
      BY <1>1, Numbers
    <3>3. push_count[q] = pop_count[q] + head[q] /\ next_head[q] = head[q]
      BY <3>1
    <3> QED
      BY <3>2, <3>3 DEF TailOf
  <2>2. Run(buffer, q, next_head[q], TailOf(q) - next_head[q]) = <<>>
    <3>1. TailOf(q) - next_head[q] \in Int /\ TailOf(q) - next_head[q] <= 0 /\ next_head[q] \in Int
      BY <2>1
    <3> QED
      BY ONLY <3>1, RunEmpty
  <2>3. Deque(q) = <<>>
    BY <2>2 DEF Deque
  <2> QED
    BY <2>1, <2>3 DEF Init, Hand, Drained, Source, Stealing
<1>3. out = {}
  BY DEF Init
<1>4. /\ [q \in Workers |-> Deque(q)] = [q \in Workers |-> <<>>]
      /\ [q \in Workers |-> Hand(q)] = [q \in Workers |-> <<>>]
      /\ [q \in Workers |-> Drained(q)] = [q \in Workers |-> <<>>]
      /\ [q \in Workers |-> Source(q)] = [q \in Workers |-> q]
      /\ [q \in Workers |-> Stealing(q)] = [q \in Workers |-> FALSE]
      /\ [q \in Workers |-> next_head[q] - head[q]] = [q \in Workers |-> 0]
  BY <1>2
<1> QED
  BY ONLY <1>3, <1>4 DEF Contract!Init, Contract!Nothing

(* The LIFO queues implement StealDeques, as long as no queue is dropped    *)
(* with a leaked Drain; the owner's pops, the thieves' steals in one step   *)
(* in order, Busy, the copies and the Drains behind it are all details.     *)
THEOREM LifoImplementsDeques == Spec /\ []LeakedKept => ImplementsContract
<1>1. Init => Bounded
  BY ClientAssumption DEF Init, Bounded
<1>2. PositionInv /\ PositionInv' /\ ItemTypes /\ SlotInv /\ StoreInv /\ OutInv
        /\ LeakedKept' /\ [Next]_vars
        => SlotInv' /\ StoreInv' /\ OutInv'
  <2> SUFFICES ASSUME PositionInv, PositionInv', ItemTypes, SlotInv, StoreInv, OutInv,
                      LeakedKept', [Next]_vars
               PROVE  SlotInv' /\ StoreInv' /\ OutInv'
    OBVIOUS
  <2>1. Unique(buffer)
    BY DEF StoreInv
  <2>2. SlotInv'
    BY <2>1, NextSlotInv
  <2> QED
    BY <2>2, NextStoreInv
<1>3. PositionInv /\ PositionInv' /\ ItemTypes /\ SlotInv /\ StoreInv /\ OutInv /\ Bounded
        /\ LeakedKept /\ LeakedKept' /\ [Next]_vars
        => [Contract!Next]_(Contract!vars)
  BY StepRefines DEF RefInv, Bounded, Refines
<1> QED
  BY <1>1, <1>2, <1>3, InitPositionInv, NextPositionInv, InitItemTypes, NextItemTypes,
     InitSlotInv, InitStoreInv, NextBounded, InitRefines, PTL
     DEF Spec, ImplementsContract, Contract!Spec

(* In particular where clients leak no Drain. *)
THEOREM NoLeakImplements ==
    ASSUME ~ AllowLeak
    PROVE  Spec => ImplementsContract
  BY NothingLeaks, LifoImplementsDeques, PTL
=============================================================================
