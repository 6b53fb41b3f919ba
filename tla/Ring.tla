-------------------------------- MODULE Ring --------------------------------
(***************************************************************************)
(* Ring buffers addressed by wrap-around positions, as both queues use     *)
(* them (read_at, write_at, capacity, new).                                *)
(*                                                                         *)
(* Positions and counters are kept unreduced, as ghost integers, and every *)
(* place where the code observes one goes through Short, the value the     *)
(* wrap-around UnsignedShort really has: wrapping subtractions, equality   *)
(* tests, compare-exchange and buffer indices.                             *)
(***************************************************************************)
EXTENDS Integers

CONSTANTS
    Workers,    \* the threads, each one with the queue it owns
    Capacity,   \* Capacity[q]: number of slots of the queue q (mask + 1)
    Modulus,    \* 2^UnsignedShort::BITS
    Vacant      \* content of a slot that holds no item, or a moved-out one

\* `new` makes the capacity a power of two not above 2^(UnsignedShort::BITS - 1).
ASSUME CapacityAssumption ==
    /\ Modulus \in Nat \ {0}
    /\ Capacity \in [Workers -> Nat]
    /\ \A q \in Workers :
          Capacity[q] > 0 /\ \E k \in 2 .. Modulus : Modulus = k * Capacity[q]

\* The value an UnsignedShort holds.
Short(x) == x % Modulus

\* a.wrapping_sub(b)
WrappingSub(a, b) == Short(Short(a) - Short(b))

\* read_at and write_at map a position to a slot with `position & mask`.
Slot(q, position) == Short(position) % Capacity[q]

\* The slots of the n positions from p on.
Slots(q, p, n) == {Slot(q, p + k) : k \in 0 .. n - 1}

\* allocate_buffer
EmptyBuffers == [q \in Workers |-> [i \in 0 .. Capacity[q] - 1 |-> Vacant]]

\* The n items of q from the position p on.
Items(buffer, q, p, n) == [k \in 0 .. n - 1 |-> buffer[q][Slot(q, p + k)]]

\* The same as a sequence.
Run(buffer, q, p, n) == [k \in 1 .. n |-> buffer[q][Slot(q, p + k - 1)]]

(* read_at for n positions moves the items out: the slots hold nothing     *)
(* that may be read again, although their bits are not erased.             *)
MovedOut(buffer, q, p, n) ==
    [buffer EXCEPT ![q] = [i \in DOMAIN @ |->
        IF i \in Slots(q, p, n) THEN Vacant ELSE @[i]]]

\* write_at for the items s[0], s[1], ... from the position p on.
Written(buffer, q, p, s) ==
    [buffer EXCEPT ![q] = [i \in DOMAIN @ |->
        IF \E k \in DOMAIN s : i = Slot(q, p + k)
        THEN s[CHOOSE k \in DOMAIN s : i = Slot(q, p + k)]
        ELSE @[i]]]

Read(buffer, q, p, n) == {buffer[q][i] : i \in Slots(q, p, n)}

Least(m, n) == IF m <= n THEN m ELSE n
=============================================================================
