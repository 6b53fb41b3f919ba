-------------------------- MODULE Injector_proofs --------------------------
(***************************************************************************)
(* The proofs about the injector, for blocks of any size, any number of    *)
(* threads and any values: head stays behind tail, "empty" and `len` are   *)
(* true of one moment; no block is freed under a reader, no block and no   *)
(* value is leaked; and the injector implements MpmcQueue.                 *)
(***************************************************************************)
EXTENDS InjectorRefinement, FiniteSetTheorems, SequenceTheorems, WellFoundedInduction, TLAPS

-----------------------------------------------------------------------------
(* Arithmetic of positions *)

\* Division and remainder.
LEMMA DivMod ==
    ASSUME NEW x \in Nat, NEW m \in Nat \ {0}
    PROVE  /\ x \div m \in Nat
           /\ x % m \in 0 .. m - 1
           /\ x = m * (x \div m) + (x % m)
BY SMT

\* Quotient and remainder are unique.
LEMMA DivUnique ==
    ASSUME NEW m \in Nat \ {0}, NEW a \in Nat, NEW b \in Nat, NEW r \in 0 .. m - 1,
           NEW q \in 0 .. m - 1, m * a + r <= m * b + q, m * b + q <= m * a + r
    PROVE  a = b /\ r = q
<1>1. m * (a - b) = q - r
  BY SMT
<1>2. ASSUME a - b >= 1 PROVE FALSE
  <2>1. m * (a - b) >= m
    BY <1>2, SMT
  <2> QED
    BY <1>1, <2>1
<1>3. ASSUME a - b <= -1 PROVE FALSE
  <2>1. m * (a - b) <= -m
    BY <1>3, SMT
  <2> QED
    BY <1>1, <2>1
<1>4. a = b
  BY <1>2, <1>3
<1> QED
  BY <1>4, <1>1

\* A larger number has no smaller quotient.
LEMMA DivMonotonic ==
    ASSUME NEW m \in Nat \ {0}, NEW a \in Nat, NEW b \in Nat, NEW r \in 0 .. m - 1,
           NEW q \in 0 .. m - 1, m * a + r <= m * b + q
    PROVE  a <= b
<1>1. SUFFICES ASSUME a - b >= 1 PROVE FALSE
  OBVIOUS
<1>2. m * (a - b) >= m
  BY <1>1, SMT
<1>3. m * (a - b) = m * a - m * b
  BY SMT
<1> QED
  BY <1>2, <1>3

\* A lap has at least one slot and the boundary.
LEMMA Laps == LAP \in Nat \ {0} /\ LAP >= 2 /\ BLOCK_CAP = LAP - 1 /\ Slots = 0 .. LAP - 2
BY LapAssumption DEF BLOCK_CAP, Slots

\* An index is a position and a bit, a position a lap and an offset.
LEMMA IndexFacts ==
    ASSUME NEW n \in Nat
    PROVE  /\ Pos(n) \in Nat /\ Lap(n) \in Nat /\ Slot0(n) \in 0 .. LAP - 1
           /\ Pos(n) = LAP * Lap(n) + Slot0(n)
           /\ n = 2 * Pos(n) + (n % 2) /\ n % 2 \in 0 .. 1
           /\ HasNext(n) <=> n % 2 = 1
           /\ Boundary(n) <=> Slot0(n) = LAP - 1
           /\ LastSlot(n) <=> Slot0(n) = LAP - 2
<1>1. Pos(n) \in Nat /\ n = 2 * Pos(n) + (n % 2) /\ n % 2 \in 0 .. 1
  BY DivMod DEF Pos
<1>2. Lap(n) \in Nat /\ Slot0(n) \in 0 .. LAP - 1 /\ Pos(n) = LAP * Lap(n) + Slot0(n)
  BY <1>1, DivMod, Laps DEF Lap, Slot0
<1> QED
  BY <1>1, <1>2, Laps DEF HasNext, Boundary, LastSlot

\* Position and lap determine each other's order.
LEMMA OrderFacts ==
    ASSUME NEW m \in Nat, NEW n \in Nat
    PROVE  /\ m <= n => Pos(m) <= Pos(n)
           /\ Pos(m) <= Pos(n) => Lap(m) <= Lap(n)
           /\ Pos(m) = Pos(n) => Lap(m) = Lap(n) /\ Slot0(m) = Slot0(n)
           /\ Lap(m) < Lap(n) => Pos(m) < Pos(n)
<1>1. /\ Pos(m) \in Nat /\ Lap(m) \in Nat /\ Slot0(m) \in 0 .. LAP - 1
      /\ Pos(m) = LAP * Lap(m) + Slot0(m) /\ m = 2 * Pos(m) + (m % 2) /\ m % 2 \in 0 .. 1
  BY IndexFacts
<1>2. /\ Pos(n) \in Nat /\ Lap(n) \in Nat /\ Slot0(n) \in 0 .. LAP - 1
      /\ Pos(n) = LAP * Lap(n) + Slot0(n) /\ n = 2 * Pos(n) + (n % 2) /\ n % 2 \in 0 .. 1
  BY IndexFacts
<1>3. m <= n => Pos(m) <= Pos(n)
  BY <1>1, <1>2
<1>4. ASSUME Pos(m) <= Pos(n) PROVE Lap(m) <= Lap(n)
  <2>1. LAP * Lap(m) + Slot0(m) <= LAP * Lap(n) + Slot0(n)
    BY <1>1, <1>2, <1>4
  <2> QED
    BY ONLY <1>1, <1>2, <2>1, DivMonotonic, Laps, Zenon
<1>5. ASSUME Pos(n) <= Pos(m) PROVE Lap(n) <= Lap(m)
  <2>1. LAP * Lap(n) + Slot0(n) <= LAP * Lap(m) + Slot0(m)
    BY <1>1, <1>2, <1>5
  <2> QED
    BY ONLY <1>1, <1>2, <2>1, DivMonotonic, Laps, Zenon
<1>6. ASSUME Pos(m) = Pos(n) PROVE Lap(m) = Lap(n) /\ Slot0(m) = Slot0(n)
  <2>1. /\ LAP * Lap(m) + Slot0(m) <= LAP * Lap(n) + Slot0(n)
        /\ LAP * Lap(n) + Slot0(n) <= LAP * Lap(m) + Slot0(m)
    BY <1>1, <1>2, <1>6
  <2> QED
    BY ONLY <1>1, <1>2, <2>1, DivUnique, Laps, Zenon
<1> QED
  BY <1>1, <1>2, <1>3, <1>4, <1>5, <1>6

\* The next position is in the same lap, or the first one of the next.
LEMMA StepFacts ==
    ASSUME NEW n \in Nat
    PROVE  /\ Pos(n + 2) = Pos(n) + 1
           /\ HasNext(n + 2) <=> HasNext(n)
           /\ ~ Boundary(n) => Lap(n + 2) = Lap(n) /\ Slot0(n + 2) = Slot0(n) + 1
           /\ Boundary(n) => Lap(n + 2) = Lap(n) + 1 /\ Slot0(n + 2) = 0
<1>1. /\ Pos(n) \in Nat /\ Lap(n) \in Nat /\ Slot0(n) \in 0 .. LAP - 1
      /\ Pos(n) = LAP * Lap(n) + Slot0(n) /\ n = 2 * Pos(n) + (n % 2) /\ n % 2 \in 0 .. 1
      /\ HasNext(n) <=> n % 2 = 1
      /\ Boundary(n) <=> Slot0(n) = LAP - 1
  BY IndexFacts
<1>2. /\ Pos(n + 2) \in Nat /\ Lap(n + 2) \in Nat /\ Slot0(n + 2) \in 0 .. LAP - 1
      /\ Pos(n + 2) = LAP * Lap(n + 2) + Slot0(n + 2)
      /\ n + 2 = 2 * Pos(n + 2) + ((n + 2) % 2) /\ (n + 2) % 2 \in 0 .. 1
      /\ HasNext(n + 2) <=> (n + 2) % 2 = 1
  BY IndexFacts
<1>3. Pos(n + 2) = Pos(n) + 1 /\ (n + 2) % 2 = n % 2
  <2>1. /\ Pos(n) \in Nat /\ n = 2 * Pos(n) + (n % 2) /\ n % 2 \in 0 .. 1
        /\ Pos(n + 2) \in Nat /\ n + 2 = 2 * Pos(n + 2) + ((n + 2) % 2)
        /\ (n + 2) % 2 \in 0 .. 1
    BY ONLY <1>1, <1>2, Zenon
  <2> QED
    BY ONLY <2>1, n \in Nat
<1> DEFINE here == LAP * Lap(n)
           there == LAP * Lap(n + 2)
<1>6. here \in Int /\ there \in Int
  <2>1. \A k \in Nat : LAP * k \in Int
    BY Laps
  <2> QED
    BY ONLY <1>1, <1>2, <2>1, Zenon
<1>7. Pos(n) = here + Slot0(n) /\ Pos(n + 2) = there + Slot0(n + 2)
  <2>1. Pos(n) = here + Slot0(n)
    BY ONLY <1>1
  <2>2. Pos(n + 2) = there + Slot0(n + 2)
    BY ONLY <1>2
  <2> QED
    BY ONLY <2>1, <2>2, Zenon
<1>8. /\ Slot0(n) \in 0 .. LAP - 1 /\ Slot0(n + 2) \in 0 .. LAP - 1
      /\ Boundary(n) <=> Slot0(n) = LAP - 1
  BY <1>1, <1>2, Zenon
<1>4. CASE ~ Boundary(n)
  <2>1. /\ there + Slot0(n + 2) <= here + (Slot0(n) + 1)
        /\ here + (Slot0(n) + 1) <= there + Slot0(n + 2)
    <3> HIDE DEF here, there
    <3> QED
      BY ONLY <1>8, <1>3, <1>6, <1>7, Laps
  <2>2. Slot0(n) + 1 \in 0 .. LAP - 1
    <3> HIDE DEF here, there
    <3> QED
      BY ONLY <1>8, <1>4, Laps
  <2>3. Lap(n + 2) = Lap(n) /\ Slot0(n + 2) = Slot0(n) + 1
    BY ONLY <1>1, <1>2, <2>1, <2>2, DivUnique, Laps, Zenon
  <2> QED
    BY <1>1, <1>2, <1>3, <1>4, <2>3
<1>5. CASE Boundary(n)
  <2>1. LAP * (Lap(n) + 1) = here + LAP
    <3>1. \A k \in Nat : LAP * (k + 1) = LAP * k + LAP
      BY ONLY Laps
    <3> QED
      BY ONLY <1>1, <3>1, Zenon
  <2>2. /\ there + Slot0(n + 2) <= LAP * (Lap(n) + 1) + 0
        /\ LAP * (Lap(n) + 1) + 0 <= there + Slot0(n + 2)
    <3> HIDE DEF here, there
    <3> QED
      BY ONLY <1>8, <1>3, <1>5, <1>6, <1>7, <2>1, Laps
  <2>3. Lap(n) + 1 \in Nat /\ 0 \in 0 .. LAP - 1
    <3>1. Lap(n) \in Nat
      BY ONLY <1>1, Zenon
    <3> QED
      BY ONLY <3>1, Laps
  <2>4. Lap(n + 2) = Lap(n) + 1 /\ Slot0(n + 2) = 0
    BY ONLY <1>1, <1>2, <2>2, <2>3, DivUnique, Laps, Zenon
  <2> QED
    BY <1>1, <1>2, <1>3, <1>5, <2>4
<1> QED
  BY <1>4, <1>5

\* HAS_NEXT does not change the position.
LEMMA BitFacts ==
    ASSUME NEW n \in Nat
    PROVE  /\ WithNext(n) \in Nat /\ WithoutNext(n) \in Nat
           /\ HasNext(WithNext(n)) /\ ~ HasNext(WithoutNext(n))
           /\ Pos(WithNext(n)) = Pos(n) /\ Pos(WithoutNext(n)) = Pos(n)
           /\ n <= WithNext(n) /\ n <= WithoutNext(n) + 1
<1>1. n = 2 * Pos(n) + (n % 2) /\ n % 2 \in 0 .. 1 /\ (HasNext(n) <=> n % 2 = 1) /\ Pos(n) \in Nat
  BY IndexFacts
<1>2. WithNext(n) = 2 * Pos(n) + 1 /\ WithoutNext(n) = 2 * Pos(n)
  BY <1>1 DEF WithNext, WithoutNext
<1>3. \A k \in Nat : /\ Pos(2 * k) = k /\ ~ HasNext(2 * k)
                     /\ Pos(2 * k + 1) = k /\ HasNext(2 * k + 1)
  BY DEF Pos, HasNext
<1> QED
  BY <1>1, <1>2, <1>3

-----------------------------------------------------------------------------
(* The inductive invariant *)

Block == [next : Nat, freed : BOOLEAN,
          state : [Slots -> SUBSET {"WRITE", "READ", "DESTROY"}],
          value : [Slots -> Values \cup {None}]]

Locals == [index : Nat, block : Nat, other : Nat, next : Nat, cursor : Slots,
           value : Values \cup {None}, spare : BOOLEAN]

Pushing == {"push_index", "push_block", "push_first", "push_head", "push_cas",
            "push_next", "push_tail", "push_link", "push_write", "push_ready"}
Popping == {"pop_index", "pop_block", "pop_tail", "pop_cas",
            "pop_wait", "pop_peek", "pop_move", "pop_head", "pop_value", "pop_read",
            "destroy", "mark"}
Asking == {"empty_head", "empty_tail", "len_tail", "len_head", "len_check"}

Types ==
    /\ tail \in Nat /\ head \in Nat /\ tail_block \in Nat /\ head_block \in Nat
    /\ heap \in Seq(Block)
    /\ pc \in [Threads -> {"idle"} \cup Pushing \cup Popping \cup Asking]
    /\ loc \in [Threads -> Locals]
    /\ script \in [Threads -> Seq(Calls)]
    /\ gone \in BOOLEAN
    /\ truth \in [Threads -> Nat]

\* Blocks are installed in the order of the laps: the block of lap n has the address n + 1.
TailBlock ==
    /\ tail_block = Len(heap)
    /\ tail_block = Null => tail = 0
    /\ tail_block # Null => Lap(tail) < tail_block
    /\ ~ Boundary(tail) => tail_block \in {Null, Lap(tail) + 1}

HeadBlock ==
    /\ head_block = Null => head = 0
    /\ head_block # Null => Lap(head) < head_block /\ head_block <= Len(heap)
    /\ ~ Boundary(head) => head_block \in {Null, Lap(head) + 1}

\* A block is linked to the next one after the tail has gone there.
Links ==
    \A b \in DOMAIN heap :
        heap[b].next # Null => heap[b].next = b + 1 /\ b <= Lap(tail)

\* What a push has seen: it gets its ticket only if the block it saw is the ticket's.
PushSaw(t) ==
    /\ pc[t] \in {"push_block", "push_first", "push_head", "push_cas"} => loc[t].index <= tail
    /\ pc[t] \in {"push_first", "push_head", "push_cas"} =>
        ~ Boundary(loc[t].index) /\ (LastSlot(loc[t].index) => loc[t].spare)
    /\ pc[t] = "push_head" => loc[t].index = 0 /\ loc[t].block = 1 /\ head_block = Null
    /\ pc[t] \in {"push_head", "push_cas"} => tail_block # Null
    /\ pc[t] = "push_cas" /\ tail = loc[t].index => loc[t].block = Lap(tail) + 1

\* From its ticket on until it returns a push is a writer.
Writing(t) == pc[t] \in {"push_next", "push_tail", "push_link", "push_write", "push_ready"}

WriterHolds(t) ==
    /\ Writing(t) =>
        /\ ~ Boundary(loc[t].index) /\ Pos(loc[t].index) < Pos(tail)
        /\ loc[t].block = Lap(loc[t].index) + 1 /\ loc[t].block <= Len(heap)
    /\ pc[t] \in {"push_next", "push_tail"} => tail = loc[t].index + 2 /\ Boundary(tail)
    /\ pc[t] = "push_next" => tail_block = Lap(tail) + 1 /\ loc[t].spare
    /\ pc[t] = "push_tail" => tail_block = Lap(tail) + 2
    /\ pc[t] \in {"push_tail", "push_link"} => loc[t].next = loc[t].block + 1
    /\ pc[t] = "push_link" => loc[t].block <= Lap(tail)

\* What a pop has seen: with HAS_NEXT, or after a look at the tail, there is something to pop.
PopSaw(t) ==
    /\ pc[t] \in {"pop_block", "pop_tail", "pop_cas"} => loc[t].index <= head
    /\ pc[t] \in {"pop_tail", "pop_cas"} =>
        /\ ~ Boundary(loc[t].index)
        /\ head = loc[t].index /\ loc[t].block # Null => loc[t].block = Lap(head) + 1
        /\ loc[t].block # Null => head_block # Null
    /\ pc[t] = "pop_tail" => ~ HasNext(loc[t].index) /\ loc[t].other = loc[t].index + 2
    /\ pc[t] = "pop_cas" =>
        /\ loc[t].block # Null
        /\ ~ HasNext(loc[t].index) => Pos(loc[t].index) < Pos(tail)
        /\ \/ loc[t].other = loc[t].index + 2
           \/ /\ loc[t].other = WithNext(loc[t].index + 2)
              /\ Lap(loc[t].index) < Lap(tail)

\* From its ticket on until its slot has been marked a pop is a reader.
Moving(t) == pc[t] \in {"pop_wait", "pop_peek", "pop_move", "pop_head"}
Reading(t) == Moving(t) \/ pc[t] \in {"pop_value", "pop_read"}

ReaderHolds(t) ==
    /\ Reading(t) =>
        /\ ~ Boundary(loc[t].index) /\ Pos(loc[t].index) < Pos(head)
        /\ loc[t].block = Lap(loc[t].index) + 1 /\ loc[t].block <= Len(heap)
    /\ Moving(t) =>
        /\ LastSlot(loc[t].index) /\ Pos(head) = Pos(loc[t].index) + 1 /\ Boundary(head)
    /\ pc[t] \in {"pop_wait", "pop_peek"} => loc[t].other = head
    /\ pc[t] \in {"pop_peek", "pop_move", "pop_head"} =>
        loc[t].next = Lap(head) + 2 /\ Lap(head) < Lap(tail)
    /\ pc[t] \in {"pop_move", "pop_head"} =>
        /\ Pos(loc[t].other) = Pos(head) + 1
        /\ HasNext(loc[t].other) => Lap(head) + 1 < Lap(tail)
    /\ pc[t] = "pop_head" => head_block = Lap(head) + 2
    /\ pc[t] = "pop_value" => loc[t].block <= Lap(head) \/ ~ LastSlot(loc[t].index)
    /\ pc[t] = "pop_read" => ~ LastSlot(loc[t].index)
    /\ pc[t] = "mark" => loc[t].cursor < BLOCK_CAP - 1

\* No two tickets are for the same slot, and one push installs the first block.
OneTicketEach ==
    \A t, u \in Threads : t # u =>
        /\ Writing(t) /\ Writing(u) => Pos(loc[t].index) # Pos(loc[u].index)
        /\ Reading(t) /\ Reading(u) => Pos(loc[t].index) # Pos(loc[u].index)
        /\ ~ (pc[t] = "push_head" /\ pc[u] = "push_head")

\* What is_empty and len have seen.
AskerSaw(t) ==
    /\ pc[t] = "empty_tail" => loc[t].index <= head
    /\ pc[t] \in {"len_head", "len_check"} => loc[t].index <= tail
    /\ pc[t] = "len_check" /\ tail = loc[t].index =>
        truth[t] = SlotsBelow(tail) - SlotsBelow(loc[t].other)

TicketInv ==
    /\ Types /\ HeadBehindTail /\ TailBlock /\ HeadBlock /\ Links /\ OneTicketEach
    /\ \A t \in Threads :
        PushSaw(t) /\ WriterHolds(t) /\ PopSaw(t) /\ ReaderHolds(t) /\ AskerSaw(t)
    /\ gone => \A t \in Threads : pc[t] = "idle"

-----------------------------------------------------------------------------
(* A step of one thread leaves what the others have seen and hold alone.   *)

\* How far the shared variables may move under a thread u that does nothing.
Moves(u) ==
    /\ tail <= tail' /\ head <= head' /\ Len(heap) <= Len(heap')
    /\ tail' # tail \/ tail_block' # tail_block => pc[u] \notin {"push_next", "push_tail"}
    /\ head' # head => ~ Moving(u)
    /\ head_block' # head_block => pc[u] \notin {"push_head", "pop_head"}
    /\ tail_block # Null => tail_block' # Null
    /\ head_block # Null => head_block' # Null

Keeps(t) == PushSaw(t) /\ WriterHolds(t) /\ PopSaw(t) /\ ReaderHolds(t) /\ AskerSaw(t)

\* The order of the indices carries over to their laps.
LEMMA Monotonic ==
    ASSUME Types, Types', tail <= tail', head <= head'
    PROVE  /\ Pos(tail) <= Pos(tail') /\ Lap(tail) <= Lap(tail')
           /\ Pos(head) <= Pos(head') /\ Lap(head) <= Lap(head')
           /\ Pos(tail) \in Nat /\ Pos(tail') \in Nat /\ Lap(tail) \in Nat /\ Lap(tail') \in Nat
           /\ Pos(head) \in Nat /\ Pos(head') \in Nat /\ Lap(head) \in Nat /\ Lap(head') \in Nat
<1>1. tail \in Nat /\ tail' \in Nat /\ head \in Nat /\ head' \in Nat
  BY DEF Types
<1> QED
  BY <1>1, OrderFacts, IndexFacts

\* What the other threads know stays true when the indices move on.
LEMMA OthersKeep ==
    ASSUME Types, Types', NEW u \in Threads, Keeps(u), Moves(u),
           pc'[u] = pc[u], loc'[u] = loc[u], truth'[u] = truth[u]
    PROVE  Keeps(u)'
<1>1. /\ loc[u] \in Locals
      /\ loc[u].index \in Nat /\ loc[u].block \in Nat /\ loc[u].other \in Nat /\ loc[u].next \in Nat
  BY DEF Types, Locals
<1>2. /\ Pos(loc[u].index) \in Nat /\ Lap(loc[u].index) \in Nat
      /\ Pos(loc[u].other) \in Nat /\ Lap(loc[u].other) \in Nat
  BY <1>1, IndexFacts
<1>3. /\ tail \in Nat /\ tail' \in Nat /\ head \in Nat /\ head' \in Nat
      /\ heap \in Seq(Block) /\ heap' \in Seq(Block)
      /\ Len(heap) \in Nat /\ Len(heap') \in Nat
  BY DEF Types
<1>4. /\ Pos(tail) <= Pos(tail') /\ Lap(tail) <= Lap(tail')
      /\ Pos(head) <= Pos(head') /\ Lap(head) <= Lap(head')
      /\ Pos(tail) \in Nat /\ Pos(tail') \in Nat /\ Lap(tail) \in Nat /\ Lap(tail') \in Nat
      /\ Pos(head) \in Nat /\ Pos(head') \in Nat /\ Lap(head) \in Nat /\ Lap(head') \in Nat
  BY <1>3, Monotonic DEF Moves
<1>5. /\ PushSaw(u) /\ WriterHolds(u) /\ PopSaw(u) /\ ReaderHolds(u) /\ AskerSaw(u)
      /\ pc'[u] = pc[u] /\ loc'[u] = loc[u] /\ truth'[u] = truth[u]
      /\ Moves(u)
      /\ tail \in Nat /\ tail' \in Nat /\ head \in Nat /\ head' \in Nat
      /\ loc[u].index \in Nat
  BY <1>1, <1>3 DEF Keeps
<1>6. PushSaw(u)'
  BY ONLY <1>5 DEF PushSaw, Moves
<1>7. WriterHolds(u)'
  <2>1. /\ loc[u].block \in Nat /\ Len(heap) \in Nat /\ Len(heap') \in Nat
        /\ Pos(loc[u].index) \in Nat /\ Pos(tail) \in Nat /\ Pos(tail') \in Nat
        /\ Lap(tail) \in Nat /\ Lap(tail') \in Nat
        /\ Pos(tail) <= Pos(tail') /\ Lap(tail) <= Lap(tail')
    BY <1>1, <1>2, <1>3, <1>4
  <2> QED
    BY ONLY <1>5, <2>1 DEF WriterHolds, Writing, Moves
<1>8. PopSaw(u)'
  <2>1. /\ Pos(loc[u].index) \in Nat /\ Pos(tail) \in Nat /\ Pos(tail') \in Nat
        /\ Lap(loc[u].index) \in Nat /\ Lap(tail) \in Nat /\ Lap(tail') \in Nat
        /\ Pos(tail) <= Pos(tail') /\ Lap(tail) <= Lap(tail')
    BY <1>2, <1>4
  <2> QED
    BY ONLY <1>5, <2>1 DEF PopSaw, Moves
<1>9. ReaderHolds(u)'
  <2>1. /\ loc[u].block \in Nat /\ Len(heap) \in Nat /\ Len(heap') \in Nat
        /\ Pos(loc[u].index) \in Nat /\ Pos(head) \in Nat /\ Pos(head') \in Nat
        /\ Lap(head) \in Nat /\ Lap(head') \in Nat /\ Lap(tail) \in Nat /\ Lap(tail') \in Nat
        /\ Pos(head) <= Pos(head') /\ Lap(head) <= Lap(head') /\ Lap(tail) <= Lap(tail')
    BY <1>1, <1>2, <1>3, <1>4
  <2>2. CASE Moving(u)
    <3>1. head' = head
      BY ONLY <1>5, <2>2 DEF Moves
    <3>2. /\ pc[u] \in {"pop_wait", "pop_peek", "pop_move", "pop_head"}
          /\ ~ Boundary(loc[u].index) /\ Pos(loc[u].index) < Pos(head')
          /\ loc[u].block = Lap(loc[u].index) + 1 /\ loc[u].block <= Len(heap)
          /\ LastSlot(loc[u].index) /\ Pos(head') = Pos(loc[u].index) + 1 /\ Boundary(head')
      BY ONLY <1>5, <2>2, <3>1 DEF ReaderHolds, Reading, Moving
    <3>3. loc[u].block <= Len(heap')
      BY ONLY <1>5, <2>1, <3>2 DEF Moves
    <3>4. /\ pc[u] \in {"pop_wait", "pop_peek"} => loc[u].other = head'
          /\ pc[u] \in {"pop_peek", "pop_move", "pop_head"} =>
                loc[u].next = Lap(head') + 2 /\ Lap(head') < Lap(tail')
          /\ pc[u] \in {"pop_move", "pop_head"} =>
                /\ Pos(loc[u].other) = Pos(head') + 1
                /\ HasNext(loc[u].other) => Lap(head') + 1 < Lap(tail')
      BY ONLY <1>5, <2>1, <3>1 DEF ReaderHolds
    <3>5. pc[u] = "pop_head" => head_block' = Lap(head') + 2
      BY ONLY <1>5, <3>1 DEF ReaderHolds, Moves
    <3> QED
      BY ONLY <1>5, <3>2, <3>3, <3>4, <3>5 DEF ReaderHolds, Reading, Moving
  <2>3. CASE ~ Moving(u)
    <3>1. pc[u] \notin {"pop_wait", "pop_peek", "pop_move", "pop_head"}
      BY ONLY <2>3 DEF Moving
    <3>2. pc[u] \in {"pop_value", "pop_read"} =>
        /\ ~ Boundary(loc[u].index) /\ Pos(loc[u].index) < Pos(head)
        /\ loc[u].block = Lap(loc[u].index) + 1 /\ loc[u].block <= Len(heap)
      BY ONLY <1>5 DEF ReaderHolds, Reading
    <3>3. Len(heap) <= Len(heap')
      BY ONLY <1>5 DEF Moves
    <3>4. pc[u] \in {"pop_value", "pop_read"} =>
        /\ ~ Boundary(loc[u].index) /\ Pos(loc[u].index) < Pos(head')
        /\ loc[u].block = Lap(loc[u].index) + 1 /\ loc[u].block <= Len(heap')
      BY ONLY <3>2, <3>3, <2>1
    <3>5. /\ pc[u] = "pop_value" => loc[u].block <= Lap(head') \/ ~ LastSlot(loc[u].index)
          /\ pc[u] = "pop_read" => ~ LastSlot(loc[u].index)
          /\ pc[u] = "mark" => loc[u].cursor < BLOCK_CAP - 1
      BY ONLY <1>5, <2>1 DEF ReaderHolds
    <3> QED
      BY ONLY <1>5, <3>1, <3>4, <3>5 DEF ReaderHolds, Reading, Moving
  <2> QED
    BY ONLY <2>2, <2>3
<1>10. AskerSaw(u)'
  BY ONLY <1>5 DEF AskerSaw, Moves
<1> QED
  BY <1>6, <1>7, <1>8, <1>9, <1>10 DEF Keeps

-----------------------------------------------------------------------------
(* What a step of t has to show *)

\* A step of t leaves the other threads where they are.
Alone(t) ==
    \A u \in Threads : u # t => pc'[u] = pc[u] /\ loc'[u] = loc[u] /\ truth'[u] = truth[u]

\* The tickets that t holds after its step are nobody else's.
OwnTickets(t) ==
    \A u \in Threads : u # t =>
        /\ Writing(t)' /\ Writing(u) => Pos(loc'[t].index) # Pos(loc[u].index)
        /\ Reading(t)' /\ Reading(u) => Pos(loc'[t].index) # Pos(loc[u].index)
        /\ ~ (pc'[t] = "push_head" /\ pc[u] = "push_head")

\* A step of one thread: its own part of the invariant is enough.
LEMMA StepKeeps ==
    ASSUME TicketInv, NEW t \in Threads, Types', Alone(t), ~ gone',
           HeadBehindTail', TailBlock', HeadBlock', Links', Keeps(t)', OwnTickets(t),
           \A u \in Threads : u # t => Moves(u)
    PROVE  TicketInv'
<1>1. Types /\ OneTicketEach /\ \A u \in Threads : Keeps(u)
  BY DEF TicketInv, Keeps
<1>2. ASSUME NEW u \in Threads PROVE Keeps(u)'
  <2>1. CASE u = t
    BY <2>1
  <2>2. CASE u # t
    <3>1. pc'[u] = pc[u] /\ loc'[u] = loc[u] /\ truth'[u] = truth[u] /\ Moves(u) /\ Keeps(u)
      BY <1>1, <2>2 DEF Alone
    <3> QED
      BY <1>1, <3>1, OthersKeep
  <2> QED
    BY <2>1, <2>2
<1>3. OneTicketEach'
  <2>1. SUFFICES ASSUME NEW v \in Threads, NEW w \in Threads, v # w
                 PROVE  /\ Writing(v)' /\ Writing(w)' => Pos(loc'[v].index) # Pos(loc'[w].index)
                        /\ Reading(v)' /\ Reading(w)' => Pos(loc'[v].index) # Pos(loc'[w].index)
                        /\ ~ (pc'[v] = "push_head" /\ pc'[w] = "push_head")
    BY DEF OneTicketEach
  <2>2. \A u \in Threads : u # t =>
            /\ Writing(u)' <=> Writing(u)
            /\ Reading(u)' <=> Reading(u)
            /\ pc'[u] = pc[u] /\ loc'[u] = loc[u]
    BY DEF Alone, Writing, Reading, Moving
  <2>3. CASE v # t /\ w # t
    BY ONLY <1>1, <2>1, <2>2, <2>3 DEF OneTicketEach
  <2>4. CASE v = t
    BY ONLY <2>1, <2>2, <2>4, OwnTickets(t) DEF OwnTickets
  <2>5. CASE w = t
    BY ONLY <2>1, <2>2, <2>5, OwnTickets(t) DEF OwnTickets
  <2> QED
    BY <2>3, <2>4, <2>5
<1> QED
  BY ONLY <1>2, <1>3, Types', ~ gone', HeadBehindTail', TailBlock', HeadBlock', Links'
     DEF TicketInv, Keeps

\* A step that moves no index and no block.
LEMMA LocalStep ==
    ASSUME TicketInv, NEW t \in Threads, Types', Alone(t), ~ gone', Links', Keeps(t)',
           UNCHANGED positions, Len(heap') = Len(heap),
           Writing(t)' => Writing(t) /\ loc'[t].index = loc[t].index,
           Reading(t)' => Reading(t) /\ loc'[t].index = loc[t].index,
           pc'[t] # "push_head"
    PROVE  TicketInv'
<1>1. /\ tail' = tail /\ head' = head /\ tail_block' = tail_block /\ head_block' = head_block
      /\ tail \in Nat /\ head \in Nat /\ Len(heap) \in Nat
      /\ HeadBehindTail /\ TailBlock /\ HeadBlock /\ OneTicketEach
  BY DEF positions, TicketInv, Types
<1>2. HeadBehindTail' /\ TailBlock' /\ HeadBlock'
  BY ONLY <1>1, Len(heap') = Len(heap) DEF HeadBehindTail, TailBlock, HeadBlock
<1>3. \A u \in Threads : u # t => Moves(u)
  BY ONLY <1>1, Len(heap') = Len(heap) DEF Moves
<1>4. OwnTickets(t)
  BY <1>1 DEF OneTicketEach, OwnTickets
<1> QED
  BY ONLY <1>2, <1>3, <1>4, StepKeeps, TicketInv, Types', Alone(t), ~ gone', Links', Keeps(t)',
          t \in Threads
-----------------------------------------------------------------------------
(* The steps that only look *)

\* What the invariant says of t itself.
LEMMA Own ==
    ASSUME TicketInv, NEW t \in Threads
    PROVE  /\ Keeps(t) /\ Types /\ Links /\ HeadBehindTail /\ TailBlock /\ HeadBlock
           /\ gone => pc[t] = "idle"
           /\ tail \in Nat /\ head \in Nat /\ tail_block \in Nat /\ head_block \in Nat
           /\ Len(heap) \in Nat
           /\ pc \in [Threads -> {"idle"} \cup Pushing \cup Popping \cup Asking]
           /\ loc \in [Threads -> Locals] /\ loc[t] \in Locals
           /\ loc[t].index \in Nat /\ loc[t].block \in Nat /\ loc[t].other \in Nat
           /\ loc[t].next \in Nat /\ loc[t].cursor \in Slots
           /\ loc[t].value \in Values \cup {None} /\ loc[t].spare \in BOOLEAN
<1>1. Keeps(t) /\ Types /\ Links /\ HeadBehindTail /\ TailBlock /\ HeadBlock
  BY DEF TicketInv, Keeps
<1>2. gone => pc[t] = "idle"
  BY DEF TicketInv
<1>3. /\ tail \in Nat /\ head \in Nat /\ tail_block \in Nat /\ head_block \in Nat
      /\ heap \in Seq(Block)
      /\ pc \in [Threads -> {"idle"} \cup Pushing \cup Popping \cup Asking]
      /\ loc \in [Threads -> Locals]
  BY <1>1 DEF Types
<1>4. Len(heap) \in Nat
  BY <1>3
<1>5. loc[t] \in Locals
  BY <1>3
<1>6. /\ loc[t].index \in Nat /\ loc[t].block \in Nat /\ loc[t].other \in Nat
      /\ loc[t].next \in Nat /\ loc[t].cursor \in Slots
      /\ loc[t].value \in Values \cup {None} /\ loc[t].spare \in BOOLEAN
  BY <1>5 DEF Locals
<1> QED
  BY <1>1, <1>2, <1>3, <1>4, <1>5, <1>6

\* A step of t sets t's program counter and locals.
LEMMA StepTypes ==
    ASSUME TicketInv, NEW t \in Threads,
           NEW step \in {"idle"} \cup Pushing \cup Popping \cup Asking, NEW l \in Locals,
           Goto(t, step), loc' = [loc EXCEPT ![t] = l], UNCHANGED truth
    PROVE  /\ pc' \in [Threads -> {"idle"} \cup Pushing \cup Popping \cup Asking]
           /\ loc' \in [Threads -> Locals]
           /\ Alone(t) /\ pc'[t] = step /\ loc'[t] = l
<1>1. /\ pc \in [Threads -> {"idle"} \cup Pushing \cup Popping \cup Asking]
      /\ loc \in [Threads -> Locals]
  BY Own
<1>2. pc' = [pc EXCEPT ![t] = step]
  BY DEF Goto
<1>3. pc' \in [Threads -> {"idle"} \cup Pushing \cup Popping \cup Asking] /\ pc'[t] = step
  BY ONLY <1>1, <1>2, t \in Threads, step \in {"idle"} \cup Pushing \cup Popping \cup Asking
<1>4. loc' \in [Threads -> Locals] /\ loc'[t] = l
  BY ONLY <1>1, loc' = [loc EXCEPT ![t] = l], t \in Threads, l \in Locals
<1>5. Alone(t)
  BY <1>1, <1>2 DEF Alone
<1> QED
  BY <1>3, <1>4, <1>5

\* A step that only moves t on, with new locals.
LEMMA Look ==
    ASSUME TicketInv, NEW t \in Threads,
           NEW step \in ({"idle"} \cup Pushing \cup Popping \cup Asking) \ {"push_head"},
           NEW l \in Locals, pc[t] # "idle",
           Goto(t, step), loc' = [loc EXCEPT ![t] = l],
           UNCHANGED <<positions, heap, others>>,
           pc'[t] = step /\ loc'[t] = l =>
                /\ Keeps(t)'
                /\ Writing(t)' => Writing(t) /\ l.index = loc[t].index
                /\ Reading(t)' => Reading(t) /\ l.index = loc[t].index
    PROVE  TicketInv'
<1>1. UNCHANGED <<tail, tail_block, head, head_block, heap, script, gone, order, truth>>
  BY DEF positions, others, history
<1>2. /\ pc' \in [Threads -> {"idle"} \cup Pushing \cup Popping \cup Asking]
      /\ loc' \in [Threads -> Locals]
      /\ Alone(t) /\ pc'[t] = step /\ loc'[t] = l
  BY <1>1, StepTypes
<1>3. Types' /\ Links' /\ ~ gone'
  BY ONLY <1>1, <1>2, Own, TicketInv, t \in Threads, pc[t] # "idle" DEF Types, Links
<1> QED
  BY <1>1, <1>2, <1>3, LocalStep

\* Where t is tells which part of the invariant is about t.
Quiet == {"idle", "push_index", "pop_index", "empty_head", "len_tail", "destroy"}

\* A thread is in one part of the code, the other parts ask nothing of it.
LEMMA WhereItIs ==
    ASSUME NEW t \in Threads
    PROVE  /\ pc'[t] \in Quiet =>
                Keeps(t)' /\ ~ Writing(t)' /\ ~ Reading(t)'
           /\ pc'[t] \in {"push_block", "push_first", "push_head", "push_cas"} /\ PushSaw(t)' =>
                Keeps(t)' /\ ~ Writing(t)' /\ ~ Reading(t)'
           /\ pc'[t] \in {"push_next", "push_tail", "push_link", "push_write", "push_ready"}
                /\ WriterHolds(t)' =>
                Keeps(t)' /\ Writing(t)' /\ ~ Reading(t)'
           /\ pc'[t] \in {"pop_block", "pop_tail", "pop_cas"} /\ PopSaw(t)' =>
                Keeps(t)' /\ ~ Writing(t)' /\ ~ Reading(t)'
           /\ pc'[t] \in {"pop_wait", "pop_peek", "pop_move", "pop_head", "pop_value", "pop_read"}
                /\ ReaderHolds(t)' =>
                Keeps(t)' /\ ~ Writing(t)' /\ Reading(t)'
           /\ pc'[t] = "mark" /\ ReaderHolds(t)' =>
                Keeps(t)' /\ ~ Writing(t)' /\ ~ Reading(t)'
           /\ pc'[t] \in {"empty_tail", "len_head", "len_check"} /\ AskerSaw(t)' =>
                Keeps(t)' /\ ~ Writing(t)' /\ ~ Reading(t)'
<1>1. pc'[t] \in Quiet => Keeps(t)' /\ ~ Writing(t)' /\ ~ Reading(t)'
  BY DEF Quiet, Keeps, PushSaw, WriterHolds, Writing, PopSaw, ReaderHolds, Reading, Moving, AskerSaw
<1>2. ASSUME pc'[t] \in {"push_block", "push_first", "push_head", "push_cas"}, PushSaw(t)'
      PROVE  Keeps(t)' /\ ~ Writing(t)' /\ ~ Reading(t)'
  BY <1>2 DEF Keeps, WriterHolds, Writing, PopSaw, ReaderHolds, Reading, Moving, AskerSaw
<1>3. ASSUME pc'[t] \in {"push_next", "push_tail", "push_link", "push_write", "push_ready"},
             WriterHolds(t)'
      PROVE  Keeps(t)' /\ Writing(t)' /\ ~ Reading(t)'
  BY <1>3 DEF Keeps, PushSaw, Writing, PopSaw, ReaderHolds, Reading, Moving, AskerSaw
<1>4. ASSUME pc'[t] \in {"pop_block", "pop_tail", "pop_cas"}, PopSaw(t)'
      PROVE  Keeps(t)' /\ ~ Writing(t)' /\ ~ Reading(t)'
  BY <1>4 DEF Keeps, PushSaw, WriterHolds, Writing, ReaderHolds, Reading, Moving, AskerSaw
<1>5. ASSUME pc'[t] \in {"pop_wait", "pop_peek", "pop_move", "pop_head", "pop_value", "pop_read"},
             ReaderHolds(t)'
      PROVE  Keeps(t)' /\ ~ Writing(t)' /\ Reading(t)'
  BY <1>5 DEF Keeps, PushSaw, WriterHolds, Writing, PopSaw, Reading, Moving, AskerSaw
<1>6. ASSUME pc'[t] = "mark", ReaderHolds(t)'
      PROVE  Keeps(t)' /\ ~ Writing(t)' /\ ~ Reading(t)'
  BY <1>6 DEF Keeps, PushSaw, WriterHolds, Writing, PopSaw, Reading, Moving, AskerSaw
<1>7. ASSUME pc'[t] \in {"empty_tail", "len_head", "len_check"}, AskerSaw(t)'
      PROVE  Keeps(t)' /\ ~ Writing(t)' /\ ~ Reading(t)'
  BY <1>7 DEF Keeps, PushSaw, WriterHolds, Writing, PopSaw, ReaderHolds, Reading, Moving
<1> QED
  BY <1>1, <1>2, <1>3, <1>4, <1>5, <1>6, <1>7

\* A call that ends, or begins again, has seen and holds nothing.
LEMMA Quietly ==
    ASSUME TicketInv, NEW t \in Threads, NEW step \in Quiet, NEW l \in Locals, pc[t] # "idle",
           Goto(t, step), loc' = [loc EXCEPT ![t] = l], UNCHANGED <<positions, heap, others>>
    PROVE  TicketInv'
<1>1. step \in ({"idle"} \cup Pushing \cup Popping \cup Asking) \ {"push_head"}
  BY DEF Quiet, Pushing, Popping, Asking
<1>2. ASSUME pc'[t] = step PROVE Keeps(t)' /\ ~ Writing(t)' /\ ~ Reading(t)'
  BY <1>2, WhereItIs
<1> QED
  BY <1>1, <1>2, Look

\* The locals of a thread outside a call.
LEMMA NoLocalsType == NoLocals \in Locals
BY Laps DEF NoLocals, Locals, Null

\* push reads the tail.
LEMMA LoadTailKeeps ==
    ASSUME TicketInv, NEW t \in Threads, LoadTail(t)
    PROVE  TicketInv'
<1> DEFINE l == [loc[t] EXCEPT !.index = tail]
<1>1. l \in Locals /\ l.index = tail /\ loc' = [loc EXCEPT ![t] = l]
  BY Own DEF Locals, LoadTail
<1>2. /\ pc[t] = "push_index" /\ Goto(t, "push_block") /\ UNCHANGED <<positions, heap, others>>
      /\ tail' = tail /\ tail \in Nat
  BY Own DEF LoadTail, positions
<1> HIDE DEF l
<1>3. ASSUME pc'[t] = "push_block", loc'[t] = l
      PROVE  Keeps(t)' /\ ~ Writing(t)' /\ ~ Reading(t)'
  <2>1. PushSaw(t)'
    BY ONLY <1>1, <1>2, <1>3 DEF PushSaw
  <2> QED
    BY <1>3, <2>1, WhereItIs
<1> QED
  BY ONLY <1>1, <1>2, <1>3, Look, TicketInv, t \in Threads DEF Pushing

\* The first position.
LEMMA Zero == Pos(0) = 0 /\ Lap(0) = 0 /\ Slot0(0) = 0 /\ ~ HasNext(0) /\ ~ Boundary(0)
<1>1. Pos(0) = 0 /\ ~ HasNext(0)
  BY DEF Pos, HasNext
<1>2. 0 \div LAP = 0 /\ 0 % LAP = 0
  <2>1. /\ 0 \div LAP \in Nat /\ 0 % LAP \in 0 .. LAP - 1
        /\ 0 = LAP * (0 \div LAP) + (0 % LAP)
    BY DivMod, Laps
  <2>2. LAP * 0 = 0 /\ 0 \in 0 .. LAP - 1
    BY Laps
  <2>3. /\ LAP * (0 \div LAP) + (0 % LAP) <= LAP * 0 + 0
        /\ LAP * 0 + 0 <= LAP * (0 \div LAP) + (0 % LAP)
    BY <2>1, <2>2, Laps
  <2> QED
    BY <2>1, <2>2, <2>3, DivUnique, Laps
<1> QED
  BY <1>1, <1>2, Laps DEF Lap, Slot0, Boundary

\* push reads the tail's block; on a boundary it starts again.
LEMMA LoadTailBlockKeeps ==
    ASSUME TicketInv, NEW t \in Threads, LoadTailBlock(t)
    PROVE  TicketInv'
<1>1. /\ pc[t] = "push_block" /\ UNCHANGED <<positions, heap, others>>
      /\ tail' = tail /\ tail_block' = tail_block
  BY DEF LoadTailBlock, positions
<1>2. CASE Boundary(loc[t].index)
  <2> DEFINE l == [loc[t] EXCEPT !.index = 0, !.block = Null]
  <2>1. l \in Locals /\ loc' = [loc EXCEPT ![t] = l] /\ Goto(t, "push_index")
    BY <1>2, Own DEF Locals, LoadTailBlock, Null
  <2> QED
    BY <1>1, <2>1, Quietly DEF Quiet
<1>3. CASE ~ Boundary(loc[t].index)
  <2> DEFINE l == [loc[t] EXCEPT !.block = tail_block, !.spare = @ \/ LastSlot(loc[t].index)]
             step == IF tail_block = Null THEN "push_first" ELSE "push_cas"
  <2>1. /\ l \in Locals /\ loc' = [loc EXCEPT ![t] = l] /\ Goto(t, step)
        /\ l.index = loc[t].index /\ l.block = tail_block
        /\ LastSlot(loc[t].index) => l.spare
    BY <1>3, Own DEF Locals, LoadTailBlock
  <2>2. /\ step \in {"push_first", "push_cas"} /\ (step = "push_cas" => tail_block # Null)
        /\ loc[t].index <= tail
        /\ ~ Boundary(tail) => tail_block \in {Null, Lap(tail) + 1}
    BY <1>1, Own DEF Keeps, PushSaw, TailBlock
  <2> HIDE DEF l, step
  <2>3. ASSUME pc'[t] = step, loc'[t] = l
        PROVE  Keeps(t)' /\ ~ Writing(t)' /\ ~ Reading(t)'
    <3>1. PushSaw(t)'
      BY ONLY <1>1, <1>3, <2>1, <2>2, <2>3 DEF PushSaw
    <3> QED
      BY <2>2, <2>3, <3>1, WhereItIs
  <2> QED
    BY ONLY <1>1, <2>1, <2>2, <2>3, Look, TicketInv, t \in Threads DEF Pushing
<1> QED
  BY <1>2, <1>3

\* A push that lost its ticket has read the tail.
LEMMA LoseTailTicketKeeps ==
    ASSUME TicketInv, NEW t \in Threads, LoseTailTicket(t)
    PROVE  TicketInv'
<1> DEFINE l == [loc[t] EXCEPT !.index = tail]
<1>1. l \in Locals /\ l.index = tail /\ loc' = [loc EXCEPT ![t] = l]
  BY Own DEF Locals, LoseTailTicket
<1>2. /\ pc[t] = "push_cas" /\ Goto(t, "push_block") /\ UNCHANGED <<positions, heap, others>>
      /\ tail' = tail /\ tail \in Nat
  BY Own DEF LoseTailTicket, positions
<1> HIDE DEF l
<1>3. ASSUME pc'[t] = "push_block", loc'[t] = l
      PROVE  Keeps(t)' /\ ~ Writing(t)' /\ ~ Reading(t)'
  <2>1. PushSaw(t)'
    BY ONLY <1>1, <1>2, <1>3 DEF PushSaw
  <2> QED
    BY <1>3, <2>1, WhereItIs
<1> QED
  BY ONLY <1>1, <1>2, <1>3, Look, TicketInv, t \in Threads DEF Pushing

\* A failed compare-exchange changes nothing but the place.
LEMMA FailSpuriouslyKeeps ==
    ASSUME TicketInv, NEW t \in Threads, FailSpuriously(t)
    PROVE  TicketInv'
<1>1. /\ UNCHANGED <<positions, heap, others>> /\ tail' = tail /\ head' = head
      /\ loc[t] \in Locals /\ loc' = [loc EXCEPT ![t] = loc[t]]
  BY Own DEF FailSpuriously, positions
<1>2. CASE pc[t] = "push_cas" /\ Goto(t, "push_block")
  <2>1. loc[t].index <= tail
    BY <1>2, Own DEF Keeps, PushSaw
  <2>2. ASSUME pc'[t] = "push_block", loc'[t] = loc[t]
        PROVE  Keeps(t)' /\ ~ Writing(t)' /\ ~ Reading(t)'
    <3>1. PushSaw(t)'
      BY ONLY <1>1, <2>1, <2>2 DEF PushSaw
    <3> QED
      BY <2>2, <3>1, WhereItIs
  <2> QED
    BY ONLY <1>1, <1>2, <2>2, Look, TicketInv, t \in Threads DEF Pushing
<1>3. CASE pc[t] = "pop_cas" /\ Goto(t, "pop_block")
  <2>1. loc[t].index <= head
    BY <1>3, Own DEF Keeps, PopSaw
  <2>2. ASSUME pc'[t] = "pop_block", loc'[t] = loc[t]
        PROVE  Keeps(t)' /\ ~ Writing(t)' /\ ~ Reading(t)'
    <3>1. PopSaw(t)'
      BY ONLY <1>1, <2>1, <2>2 DEF PopSaw
    <3> QED
      BY <2>2, <3>1, WhereItIs
  <2> QED
    BY ONLY <1>1, <1>3, <2>2, Look, TicketInv, t \in Threads DEF Popping
<1> QED
  BY <1>2, <1>3 DEF FailSpuriously

\* pop and is_empty look at head, or look again.
LEMMA LoadHeadKeeps ==
    ASSUME TicketInv, NEW t \in Threads, LoadHead(t) \/ LoseHeadTicket(t)
    PROVE  TicketInv'
<1> DEFINE l == [loc[t] EXCEPT !.index = head]
<1>1. l \in Locals /\ l.index = head /\ loc' = [loc EXCEPT ![t] = l]
  BY Own DEF Locals, LoadHead, LoseHeadTicket
<1>2. /\ pc[t] # "idle" /\ Goto(t, "pop_block") /\ UNCHANGED <<positions, heap, others>>
      /\ head' = head /\ head \in Nat
  BY Own DEF LoadHead, LoseHeadTicket, positions
<1> HIDE DEF l
<1>3. ASSUME pc'[t] = "pop_block", loc'[t] = l
      PROVE  Keeps(t)' /\ ~ Writing(t)' /\ ~ Reading(t)'
  <2>1. PopSaw(t)'
    BY ONLY <1>1, <1>2, <1>3 DEF PopSaw
  <2> QED
    BY <1>3, <2>1, WhereItIs
<1> QED
  BY ONLY <1>1, <1>2, <1>3, Look, TicketInv, t \in Threads DEF Popping

\* pop reads the head's block: it belongs to the index if the head has not moved.
LEMMA LoadHeadBlockKeeps ==
    ASSUME TicketInv, NEW t \in Threads, LoadHeadBlock(t)
    PROVE  TicketInv'
<1>1. /\ pc[t] = "pop_block" /\ UNCHANGED <<positions, heap, others>>
      /\ head' = head /\ head_block' = head_block
  BY DEF LoadHeadBlock, positions
<1>2. CASE Again(t)
  BY <1>1, <1>2, Quietly, NoLocalsType DEF Again, Quiet
<1>3. CASE ~ Again(t)
  <2> DEFINE l == [loc[t] EXCEPT !.block = head_block, !.other = loc[t].index + 2]
             step == IF HasNext(loc[t].index) THEN "pop_cas" ELSE "pop_tail"
  <2>4. /\ loc' = [loc EXCEPT ![t].block = head_block, ![t].other = loc[t].index + 2]
        /\ Goto(t, step)
        /\ ~ Boundary(loc[t].index) /\ (HasNext(loc[t].index) => head_block # Null)
    BY <1>3 DEF LoadHeadBlock
  <2>1. /\ l \in Locals /\ loc' = [loc EXCEPT ![t] = l] /\ Goto(t, step)
        /\ l.index = loc[t].index /\ l.block = head_block /\ l.other = loc[t].index + 2
        /\ ~ Boundary(loc[t].index) /\ (HasNext(loc[t].index) => head_block # Null)
    <3>3. /\ loc \in [Threads -> Locals] /\ loc[t] \in Locals /\ head_block \in Nat
          /\ loc[t].index + 2 \in Nat
      BY Own
    <3>1. l \in Locals /\ loc' = [loc EXCEPT ![t] = l]
      BY ONLY <2>4, <3>3, t \in Threads DEF Locals
    <3>2. l.index = loc[t].index /\ l.block = head_block /\ l.other = loc[t].index + 2
      BY Own DEF Locals
    <3> QED
      BY <2>4, <3>1, <3>2
  <2>2. /\ step \in {"pop_tail", "pop_cas"} /\ (step = "pop_cas" <=> HasNext(loc[t].index))
        /\ loc[t].index <= head
        /\ ~ Boundary(head) => head_block \in {Null, Lap(head) + 1}
    BY <1>1, Own DEF Keeps, PopSaw, HeadBlock
  <2> HIDE DEF l, step
  <2>3. ASSUME pc'[t] = step, loc'[t] = l
        PROVE  Keeps(t)' /\ ~ Writing(t)' /\ ~ Reading(t)'
    <3>1. PopSaw(t)'
      BY ONLY <1>1, <2>1, <2>2, <2>3 DEF PopSaw
    <3> QED
      BY <2>2, <2>3, <3>1, WhereItIs
  <2> QED
    BY ONLY <1>1, <2>1, <2>2, <2>3, Look, TicketInv, t \in Threads DEF Popping
<1> QED
  BY <1>2, <1>3

\* pop reads the tail, which is ahead of the head it saw.
LEMMA LookAtTailKeeps ==
    ASSUME TicketInv, NEW t \in Threads, LookAtTail(t)
    PROVE  TicketInv'
<1>1. /\ pc[t] = "pop_tail" /\ UNCHANGED <<positions, heap, others>>
      /\ head' = head /\ head_block' = head_block /\ tail' = tail
  BY DEF LookAtTail, positions
<1>2. CASE Return(t) \/ Again(t)
  BY <1>1, <1>2, Quietly, NoLocalsType DEF Return, Again, Quiet
<1>3. CASE ~ Return(t) /\ ~ Again(t)
  <2> DEFINE o == IF Lap(loc[t].index) # Lap(tail) THEN WithNext(loc[t].other) ELSE loc[t].other
             l == [loc[t] EXCEPT !.other = o]
  <2>1. /\ loc' = [loc EXCEPT ![t].other = o] /\ Goto(t, "pop_cas")
        /\ Pos(loc[t].index) # Pos(tail) /\ loc[t].block # Null
    BY <1>3 DEF LookAtTail
  <2>2. /\ loc \in [Threads -> Locals] /\ loc[t] \in Locals /\ loc[t].index \in Nat
        /\ loc[t].other \in Nat /\ head \in Nat /\ tail \in Nat /\ Pos(head) <= Pos(tail)
    BY Own DEF HeadBehindTail
  <2>3. /\ loc[t].index <= head /\ loc[t].other = loc[t].index + 2 /\ ~ Boundary(loc[t].index)
        /\ head = loc[t].index => loc[t].block = Lap(head) + 1
        /\ head_block # Null
    BY <1>1, <2>1, Own DEF Keeps, PopSaw
  <2>4. /\ Pos(loc[t].index) \in Nat /\ Pos(head) \in Nat /\ Pos(tail) \in Nat
        /\ Lap(loc[t].index) \in Nat /\ Lap(tail) \in Nat
        /\ Pos(loc[t].index) <= Pos(head)
        /\ Pos(loc[t].index) <= Pos(tail) => Lap(loc[t].index) <= Lap(tail)
    BY <2>2, <2>3, IndexFacts, OrderFacts
  <2>5. Pos(loc[t].index) < Pos(tail) /\ Lap(loc[t].index) <= Lap(tail)
    BY ONLY <2>1, <2>2, <2>4
  <2>6. /\ o \in Nat
        /\ \/ o = loc[t].index + 2
           \/ o = WithNext(loc[t].index + 2) /\ Lap(loc[t].index) < Lap(tail)
    <3>1. loc[t].other \in Nat /\ WithNext(loc[t].other) \in Nat
      BY ONLY <2>2, BitFacts
    <3> QED
      BY ONLY <2>3, <2>4, <2>5, <3>1
  <2> HIDE DEF o
  <2>7. /\ l \in Locals /\ loc' = [loc EXCEPT ![t] = l]
        /\ l.index = loc[t].index /\ l.block = loc[t].block /\ l.other = o
    BY ONLY <2>1, <2>2, <2>6, t \in Threads DEF Locals
  <2> HIDE DEF l
  <2>8. ASSUME pc'[t] = "pop_cas", loc'[t] = l
        PROVE  Keeps(t)' /\ ~ Writing(t)' /\ ~ Reading(t)'
    <3>1. PopSaw(t)'
      BY ONLY <1>1, <2>1, <2>3, <2>5, <2>6, <2>7, <2>8 DEF PopSaw
    <3> QED
      BY <2>8, <3>1, WhereItIs
  <2> QED
    BY ONLY <1>1, <2>1, <2>7, <2>8, Look, TicketInv, t \in Threads DEF Popping
<1> QED
  BY <1>2, <1>3

\* A pop that moves the head is on the last slot of the block of head's lap.
LEMMA MoverFacts ==
    ASSUME TicketInv, NEW t \in Threads, Moving(t)
    PROVE  /\ Lap(head) = Lap(loc[t].index) /\ Lap(head) \in Nat /\ Lap(tail) \in Nat
           /\ loc[t].block = Lap(head) + 1 /\ loc[t].block \in DOMAIN heap
           /\ ~ Boundary(loc[t].index) /\ Pos(loc[t].index) < Pos(head)
           /\ LastSlot(loc[t].index) /\ Pos(head) = Pos(loc[t].index) + 1 /\ Boundary(head)
           /\ loc[t].block <= Len(heap)
<1>1. /\ ~ Boundary(loc[t].index) /\ Pos(loc[t].index) < Pos(head)
      /\ LastSlot(loc[t].index) /\ Pos(head) = Pos(loc[t].index) + 1 /\ Boundary(head)
      /\ loc[t].block = Lap(loc[t].index) + 1 /\ loc[t].block <= Len(heap)
  BY Own DEF Keeps, ReaderHolds, Reading
<1>2. loc[t].index \in Nat /\ head \in Nat /\ tail \in Nat /\ loc[t].index + 2 \in Nat
  BY Own
<1>3. Pos(loc[t].index + 2) = Pos(head) /\ Lap(loc[t].index + 2) = Lap(loc[t].index)
  BY <1>1, <1>2, StepFacts
<1>4. Lap(head) = Lap(loc[t].index) /\ Lap(head) \in Nat /\ Lap(tail) \in Nat
  BY <1>2, <1>3, OrderFacts, IndexFacts
<1>5. heap \in Seq(Block)
  BY Own DEF Types
<1>6. loc[t].block \in DOMAIN heap
  BY ONLY <1>1, <1>4, <1>5
<1> QED
  BY <1>1, <1>4, <1>6

\* The next block is linked, so the tail is in a later lap.
LEMMA WaitNextKeeps ==
    ASSUME TicketInv, NEW t \in Threads, WaitNext(t)
    PROVE  TicketInv'
<1> DEFINE n == heap[loc[t].block].next
           l == [loc[t] EXCEPT !.next = n]
<1>1. /\ pc[t] = "pop_wait" /\ n # Null /\ loc' = [loc EXCEPT ![t].next = n]
      /\ Goto(t, "pop_peek") /\ UNCHANGED <<positions, heap, others>>
      /\ head' = head /\ tail' = tail /\ heap' = heap
  BY DEF WaitNext, positions
<1>2. /\ Lap(head) \in Nat /\ Lap(tail) \in Nat
      /\ loc[t].block = Lap(head) + 1 /\ loc[t].block \in DOMAIN heap
      /\ ~ Boundary(loc[t].index) /\ Pos(loc[t].index) < Pos(head)
      /\ LastSlot(loc[t].index) /\ Pos(head) = Pos(loc[t].index) + 1 /\ Boundary(head)
      /\ loc[t].block <= Len(heap) /\ loc[t].block = Lap(loc[t].index) + 1
  BY <1>1, MoverFacts DEF Moving
<1>3. n = Lap(head) + 2 /\ Lap(head) < Lap(tail) /\ n \in Nat
  <2>1. n = loc[t].block + 1 /\ loc[t].block <= Lap(tail)
    BY <1>1, <1>2, Own DEF Links
  <2> QED
    BY <1>2, <2>1
<1>4. loc[t].other = head
  BY <1>1, Own DEF Keeps, ReaderHolds
<1>5. loc \in [Threads -> Locals] /\ loc[t] \in Locals
  BY Own
<1> HIDE DEF n
<1>6. /\ l \in Locals /\ loc' = [loc EXCEPT ![t] = l] /\ l.next = n
      /\ l.index = loc[t].index /\ l.block = loc[t].block /\ l.other = loc[t].other
  BY ONLY <1>1, <1>3, <1>5, t \in Threads DEF Locals
<1> HIDE DEF l
<1>7. ASSUME pc'[t] = "pop_peek", loc'[t] = l
      PROVE  Keeps(t)' /\ ~ Writing(t)' /\ Reading(t)
  <2>1. ReaderHolds(t)'
    BY ONLY <1>1, <1>2, <1>3, <1>4, <1>6, <1>7 DEF ReaderHolds, Reading, Moving
  <2> QED
    BY <1>1, <1>7, <2>1, WhereItIs DEF Reading, Moving
<1> QED
  BY ONLY <1>1, <1>6, <1>7, Look, TicketInv, t \in Threads DEF Popping

\* HAS_NEXT is kept only if the next block is linked as well.
LEMMA PeekNextKeeps ==
    ASSUME TicketInv, NEW t \in Threads, PeekNext(t)
    PROVE  TicketInv'
<1> DEFINE skipped == WithoutNext(loc[t].other) + 2
           o == IF heap[loc[t].next].next # Null THEN WithNext(skipped) ELSE skipped
           l == [loc[t] EXCEPT !.other = o]
<1>1. /\ pc[t] = "pop_peek" /\ loc' = [loc EXCEPT ![t].other = o]
      /\ Goto(t, "pop_move") /\ UNCHANGED <<positions, heap, others>>
      /\ head' = head /\ tail' = tail /\ heap' = heap
  BY DEF PeekNext, positions
<1>2. /\ Lap(head) \in Nat /\ Lap(tail) \in Nat
      /\ ~ Boundary(loc[t].index) /\ Pos(loc[t].index) < Pos(head)
      /\ LastSlot(loc[t].index) /\ Pos(head) = Pos(loc[t].index) + 1 /\ Boundary(head)
      /\ loc[t].block <= Len(heap) /\ loc[t].block = Lap(loc[t].index) + 1
  BY <1>1, MoverFacts DEF Moving
<1>3. loc[t].other = head /\ loc[t].next = Lap(head) + 2 /\ Lap(head) < Lap(tail)
  BY <1>1, Own DEF Keeps, ReaderHolds
<1>4. /\ loc \in [Threads -> Locals] /\ loc[t] \in Locals /\ head \in Nat /\ tail \in Nat
      /\ heap \in Seq(Block) /\ Len(heap) \in Nat
  BY Own DEF Types
<1>5. loc[t].next \in DOMAIN heap
  <2>1. tail_block # Null => Lap(tail) < Len(heap)
    BY Own DEF TailBlock
  <2>2. tail_block = Null => Lap(tail) = 0
    BY Own, Zero DEF TailBlock
  <2>3. Lap(tail) < Len(heap)
    BY ONLY <1>2, <1>3, <2>1, <2>2
  <2> QED
    BY ONLY <1>2, <1>3, <1>4, <2>3
<1>6. heap[loc[t].next].next # Null => Lap(head) + 1 < Lap(tail)
  <2>1. heap[loc[t].next].next # Null => loc[t].next <= Lap(tail)
    BY <1>5, Own DEF Links
  <2> QED
    BY ONLY <1>2, <1>3, <2>1
<1>7. /\ o \in Nat /\ Pos(o) = Pos(head) + 1
      /\ HasNext(o) => heap[loc[t].next].next # Null
  <2>1. WithoutNext(head) \in Nat /\ skipped \in Nat /\ skipped = WithoutNext(head) + 2
    <3>1. WithoutNext(head) \in Nat
      BY ONLY <1>4, BitFacts
    <3> QED
      BY ONLY <1>3, <3>1
  <2>2. Pos(skipped) = Pos(head) + 1 /\ ~ HasNext(skipped)
    BY ONLY <1>4, <2>1, BitFacts, StepFacts
  <2> HIDE DEF skipped
  <2>3. WithNext(skipped) \in Nat /\ Pos(WithNext(skipped)) = Pos(skipped)
    BY ONLY <2>1, BitFacts
  <2> QED
    BY ONLY <2>1, <2>2, <2>3
<1> HIDE DEF o
<1>8. /\ l \in Locals /\ loc' = [loc EXCEPT ![t] = l] /\ l.next = loc[t].next
      /\ l.index = loc[t].index /\ l.block = loc[t].block /\ l.other = o
  BY ONLY <1>1, <1>4, <1>7, t \in Threads DEF Locals
<1> HIDE DEF l
<1>9. ASSUME pc'[t] = "pop_move", loc'[t] = l
      PROVE  Keeps(t)' /\ ~ Writing(t)' /\ Reading(t)
  <2>1. ReaderHolds(t)'
    BY ONLY <1>1, <1>2, <1>3, <1>6, <1>7, <1>8, <1>9 DEF ReaderHolds, Reading, Moving
  <2> QED
    BY <1>1, <1>9, <2>1, WhereItIs DEF Reading, Moving
<1> QED
  BY ONLY <1>1, <1>8, <1>9, Look, TicketInv, t \in Threads DEF Popping

\* The value is read, the ticket stays.
LEMMA ReadValueKeeps ==
    ASSUME TicketInv, NEW t \in Threads, ReadValue(t)
    PROVE  TicketInv'
<1> DEFINE v == heap[loc[t].block].value[Slot0(loc[t].index)]
           l == [loc[t] EXCEPT !.value = v, !.cursor = 0]
           step == IF LastSlot(loc[t].index) THEN "destroy" ELSE "pop_read"
<1>1. /\ pc[t] = "pop_value" /\ loc' = [loc EXCEPT ![t].value = v, ![t].cursor = 0]
      /\ Goto(t, step) /\ UNCHANGED <<positions, heap, others>>
      /\ head' = head /\ tail' = tail /\ heap' = heap
  BY DEF ReadValue, positions
<1>2. /\ ~ Boundary(loc[t].index) /\ Pos(loc[t].index) < Pos(head)
      /\ loc[t].block <= Len(heap) /\ loc[t].block = Lap(loc[t].index) + 1
  BY <1>1, Own DEF Keeps, ReaderHolds, Reading
<1>3. /\ loc \in [Threads -> Locals] /\ loc[t] \in Locals /\ loc[t].index \in Nat
      /\ heap \in Seq(Block)
  BY Own DEF Types
<1>4. v \in Values \cup {None} /\ 0 \in Slots
  <2>1. Lap(loc[t].index) \in Nat /\ Slot0(loc[t].index) \in Slots
    <3>1. /\ Lap(loc[t].index) \in Nat /\ Slot0(loc[t].index) \in 0 .. LAP - 1
          /\ Boundary(loc[t].index) <=> Slot0(loc[t].index) = LAP - 1
      BY ONLY <1>3, IndexFacts
    <3> QED
      BY ONLY <1>2, <3>1, Laps
  <2>2. heap[loc[t].block] \in Block
    BY ONLY <1>2, <1>3, <2>1
  <2>3. 0 \in Slots
    BY Laps
  <2> QED
    BY ONLY <2>1, <2>2, <2>3 DEF Block
<1> HIDE DEF v
<1>5. /\ l \in Locals /\ loc' = [loc EXCEPT ![t] = l]
      /\ l.index = loc[t].index /\ l.block = loc[t].block
  BY ONLY <1>1, <1>3, <1>4, t \in Threads DEF Locals
<1> HIDE DEF l
<1>6. CASE LastSlot(loc[t].index)
  BY <1>1, <1>5, <1>6, Quietly DEF Quiet
<1>7. CASE ~ LastSlot(loc[t].index)
  <2>1. ASSUME pc'[t] = "pop_read", loc'[t] = l
        PROVE  Keeps(t)' /\ ~ Writing(t)' /\ Reading(t)
    <3>1. ReaderHolds(t)'
      BY ONLY <1>1, <1>2, <1>5, <1>7, <2>1 DEF ReaderHolds, Reading, Moving
    <3> QED
      BY <1>1, <2>1, <3>1, WhereItIs DEF Reading, Moving
  <2> QED
    BY ONLY <1>1, <1>5, <1>7, <2>1, Look, TicketInv, t \in Threads DEF Popping
<1> QED
  BY <1>6, <1>7

\* is_empty and len look at head or at tail.
LEMMA EmptyHeadKeeps ==
    ASSUME TicketInv, NEW t \in Threads, EmptyHead(t)
    PROVE  TicketInv'
<1> DEFINE l == [loc[t] EXCEPT !.index = head]
<1>1. l \in Locals /\ l.index = head /\ loc' = [loc EXCEPT ![t] = l]
  BY Own DEF Locals, EmptyHead
<1>2. /\ pc[t] # "idle" /\ Goto(t, "empty_tail") /\ UNCHANGED <<positions, heap, others>>
      /\ head' = head /\ head \in Nat
  BY Own DEF EmptyHead, positions
<1> HIDE DEF l
<1>3. ASSUME pc'[t] = "empty_tail", loc'[t] = l
      PROVE  Keeps(t)' /\ ~ Writing(t)' /\ ~ Reading(t)'
  <2>1. AskerSaw(t)'
    BY ONLY <1>1, <1>2, <1>3 DEF AskerSaw
  <2> QED
    BY <1>3, <2>1, WhereItIs
<1> QED
  BY ONLY <1>1, <1>2, <1>3, Look, TicketInv, t \in Threads DEF Asking

\* is_empty answers.
LEMMA EmptyTailKeeps ==
    ASSUME TicketInv, NEW t \in Threads, EmptyTail(t)
    PROVE  TicketInv'
BY Quietly, NoLocalsType DEF EmptyTail, Return, Quiet

\* len reads the tail.
LEMMA LenTailKeeps ==
    ASSUME TicketInv, NEW t \in Threads, LenTail(t)
    PROVE  TicketInv'
<1> DEFINE l == [loc[t] EXCEPT !.index = tail]
<1>1. l \in Locals /\ l.index = tail /\ loc' = [loc EXCEPT ![t] = l]
  BY Own DEF Locals, LenTail
<1>2. /\ pc[t] # "idle" /\ Goto(t, "len_head") /\ UNCHANGED <<positions, heap, others>>
      /\ tail' = tail /\ tail \in Nat
  BY Own DEF LenTail, positions
<1> HIDE DEF l
<1>3. ASSUME pc'[t] = "len_head", loc'[t] = l
      PROVE  Keeps(t)' /\ ~ Writing(t)' /\ ~ Reading(t)'
  <2>1. AskerSaw(t)'
    BY ONLY <1>1, <1>2, <1>3 DEF AskerSaw
  <2> QED
    BY <1>3, <2>1, WhereItIs
<1> QED
  BY ONLY <1>1, <1>2, <1>3, Look, TicketInv, t \in Threads DEF Asking

\* A call begins.
LEMMA CallKeeps ==
    ASSUME TicketInv, NEW t \in Threads, Call(t)
    PROVE  TicketInv'
<1>1. PICK step \in {"push_index", "pop_index", "empty_head", "len_tail"},
           op \in {"push", "pop", "is_empty", "len"} :
        /\ Begin(t, op, step)
        /\ UNCHANGED <<positions, heap, gone, dropped, history>>
        /\ \/ loc' = loc
           \/ op = "push" /\ loc' = [loc EXCEPT ![t].value = Head(script[t]).value]
  BY DEF Call, CallPush, CallPop, CallIsEmpty, CallLen
<1>2. /\ pc[t] = "idle" /\ ~ gone /\ script[t] # <<>> /\ Head(script[t]).op = op
      /\ script' = [script EXCEPT ![t] = Tail(@)] /\ Goto(t, step)
      /\ UNCHANGED <<tail, tail_block, head, head_block, heap, gone, order, truth>>
  BY <1>1 DEF Begin, positions, history
<1>3. /\ script \in [Threads -> Seq(Calls)] /\ script[t] \in Seq(Calls)
      /\ loc \in [Threads -> Locals] /\ loc[t] \in Locals
  BY Own DEF Types
<1>4. Head(script[t]) \in Calls /\ Tail(script[t]) \in Seq(Calls)
  BY ONLY <1>2, <1>3
<1>5. PICK l \in Locals : loc' = [loc EXCEPT ![t] = l]
  <2>1. CASE loc' = loc
    BY ONLY <1>3, <2>1, t \in Threads
  <2>2. CASE op = "push" /\ loc' = [loc EXCEPT ![t].value = Head(script[t]).value]
    <3> DEFINE v == Head(script[t]).value
    <3>1. v \in Values
      BY ONLY <1>2, <1>4, <2>2 DEF Calls
    <3> HIDE DEF v
    <3>2. [loc[t] EXCEPT !.value = v] \in Locals
      BY ONLY <1>3, <3>1 DEF Locals
    <3>3. loc' = [loc EXCEPT ![t] = [loc[t] EXCEPT !.value = v]]
      BY ONLY <1>3, <2>2, t \in Threads DEF v
    <3> QED
      BY ONLY <3>2, <3>3
  <2> QED
    BY <1>1, <2>1, <2>2
<1>6. step \in {"idle"} \cup Pushing \cup Popping \cup Asking /\ step \in Quiet /\ step # "push_head"
  BY <1>1 DEF Pushing, Popping, Asking, Quiet
<1>7. /\ pc' \in [Threads -> {"idle"} \cup Pushing \cup Popping \cup Asking]
      /\ loc' \in [Threads -> Locals]
      /\ Alone(t) /\ pc'[t] = step /\ loc'[t] = l
  BY ONLY <1>2, <1>5, <1>6, StepTypes, TicketInv, t \in Threads
<1>8. script' \in [Threads -> Seq(Calls)]
  BY ONLY <1>2, <1>3, <1>4, t \in Threads
<1>9. Types' /\ Links' /\ ~ gone'
  BY ONLY <1>2, <1>7, <1>8, Own, TicketInv, t \in Threads DEF Types, Links
<1>10. Keeps(t)' /\ ~ Writing(t)' /\ ~ Reading(t)'
  BY <1>6, <1>7, WhereItIs
<1> QED
  BY <1>2, <1>6, <1>7, <1>9, <1>10, LocalStep DEF positions

\* Between two positions there are as many slots as positions, less the boundaries.
LEMMA SlotsBelowFacts ==
    ASSUME NEW m \in Nat, NEW n \in Nat, Pos(m) <= Pos(n)
    PROVE  SlotsBelow(m) \in Int /\ SlotsBelow(n) \in Int /\ SlotsBelow(m) <= SlotsBelow(n)
<1>1. /\ Pos(m) \in Nat /\ Lap(m) \in Nat /\ Slot0(m) \in 0 .. LAP - 1
      /\ Pos(m) = LAP * Lap(m) + Slot0(m)
      /\ Pos(n) \in Nat /\ Lap(n) \in Nat /\ Slot0(n) \in 0 .. LAP - 1
      /\ Pos(n) = LAP * Lap(n) + Slot0(n)
      /\ Lap(m) <= Lap(n)
  BY IndexFacts, OrderFacts
<1>2. \A x, y \in Nat : x < y => LAP * y - LAP * x >= (y - x) + (LAP - 1)
  <2>1. SUFFICES ASSUME NEW x \in Nat, NEW y \in Nat, x < y
                 PROVE  LAP * y - LAP * x >= (y - x) + (LAP - 1)
    OBVIOUS
  <2> DEFINE d == y - x - 1
             k == LAP - 1
  <2>2. d \in Nat /\ k \in Nat /\ y = x + d + 1 /\ LAP = k + 1
    BY <2>1, Laps
  <2>3. \A i, j \in Nat : i * j \in Nat
    OBVIOUS
  <2>4. k * d \in Nat
    BY ONLY <2>2, <2>3
  <2>5. LAP * y - LAP * x = k * d + d + k + 1
    BY ONLY <2>2, <2>1, SMT
  <2> QED
    BY ONLY <2>1, <2>2, <2>4, <2>5
<1> DEFINE here == LAP * Lap(m)
           there == LAP * Lap(n)
<1>3. /\ here \in Int /\ there \in Int
      /\ Lap(m) < Lap(n) => there - here >= (Lap(n) - Lap(m)) + (LAP - 1)
      /\ Lap(m) = Lap(n) => there = here
  <2>1. \A k \in Nat : LAP * k \in Int
    BY Laps
  <2>2. here \in Int /\ there \in Int
    BY ONLY <1>1, <2>1, Zenon
  <2>3. Lap(m) < Lap(n) => there - here >= (Lap(n) - Lap(m)) + (LAP - 1)
    BY ONLY <1>1, <1>2, Zenon
  <2> QED
    BY ONLY <2>2, <2>3
<1>4. Pos(m) = here + Slot0(m) /\ Pos(n) = there + Slot0(n)
  BY <1>1
<1>5. /\ Pos(m) \in Nat /\ Lap(m) \in Nat /\ Slot0(m) \in 0 .. LAP - 1
      /\ Pos(n) \in Nat /\ Lap(n) \in Nat /\ Slot0(n) \in 0 .. LAP - 1
      /\ Lap(m) <= Lap(n)
  BY <1>1
<1> HIDE DEF here, there
<1>6. SlotsBelow(m) = Pos(m) - Lap(m) /\ SlotsBelow(n) = Pos(n) - Lap(n)
  BY DEF SlotsBelow
<1>7. CASE Lap(m) = Lap(n)
  BY ONLY <1>5, <1>6, <1>7, Pos(m) <= Pos(n)
<1>8. CASE Lap(m) < Lap(n)
  <2>1. LAP \in Nat
    BY Laps
  <2>2. /\ Slot0(m) \in Int /\ Slot0(n) \in Int
        /\ Slot0(n) >= 0 /\ Slot0(m) <= LAP - 1
    BY ONLY <1>5, <2>1
  <2>3. there - here >= (Lap(n) - Lap(m)) + (LAP - 1)
    BY ONLY <1>3, <1>8
  <2>4. /\ SlotsBelow(m) = (here + Slot0(m)) - Lap(m)
        /\ SlotsBelow(n) = (there + Slot0(n)) - Lap(n)
    BY ONLY <1>4, <1>6
  <2>5. here \in Int /\ there \in Int /\ Lap(m) \in Int /\ Lap(n) \in Int
    BY ONLY <1>3, <1>5
  <2> QED
    BY ONLY <2>1, <2>2, <2>3, <2>4, <2>5
<1> QED
  BY ONLY <1>5, <1>7, <1>8

\* len reads the head, and the history what is true then.
LEMMA LenHeadKeeps ==
    ASSUME TicketInv, NEW t \in Threads, LenHead(t)
    PROVE  TicketInv'
<1> DEFINE l == [loc[t] EXCEPT !.other = head]
<1>1. /\ pc[t] = "len_head" /\ Goto(t, "len_check") /\ loc' = [loc EXCEPT ![t].other = head]
      /\ truth' = [truth EXCEPT ![t] = Length]
      /\ UNCHANGED <<tail, tail_block, head, head_block, heap, script, gone, order>>
      /\ UNCHANGED positions
  BY DEF LenHead, positions
<1>2. /\ loc \in [Threads -> Locals] /\ loc[t] \in Locals /\ head \in Nat /\ tail \in Nat
      /\ pc \in [Threads -> {"idle"} \cup Pushing \cup Popping \cup Asking]
      /\ truth \in [Threads -> Nat] /\ Pos(head) <= Pos(tail)
  BY Own DEF Types, HeadBehindTail
<1>3. /\ l \in Locals /\ loc' = [loc EXCEPT ![t] = l]
      /\ l.index = loc[t].index /\ l.other = head
  BY ONLY <1>1, <1>2, t \in Threads DEF Locals
<1>4. Length \in Nat
  <2>1. /\ SlotsBelow(head) \in Int /\ SlotsBelow(tail) \in Int
        /\ SlotsBelow(head) <= SlotsBelow(tail)
    BY ONLY <1>2, SlotsBelowFacts
  <2> QED
    BY ONLY <2>1 DEF Length
<1>5. loc[t].index <= tail
  BY <1>1, Own DEF Keeps, AskerSaw
<1> HIDE DEF l
<1>6. /\ pc' \in [Threads -> {"idle"} \cup Pushing \cup Popping \cup Asking]
      /\ loc' \in [Threads -> Locals] /\ truth' \in [Threads -> Nat]
      /\ pc'[t] = "len_check" /\ loc'[t] = l /\ truth'[t] = Length
      /\ \A u \in Threads : u # t => pc'[u] = pc[u] /\ loc'[u] = loc[u] /\ truth'[u] = truth[u]
  BY ONLY <1>1, <1>2, <1>3, <1>4, t \in Threads DEF Goto, Asking
<1>7. Types' /\ Links' /\ ~ gone'
  BY ONLY <1>1, <1>6, Own, TicketInv, t \in Threads DEF Types, Links
<1>8. Keeps(t)' /\ ~ Writing(t)' /\ ~ Reading(t)'
  <2>1. AskerSaw(t)'
    BY ONLY <1>1, <1>3, <1>5, <1>6 DEF AskerSaw, Length
  <2> QED
    BY <1>6, <2>1, WhereItIs
<1> QED
  BY <1>1, <1>6, <1>7, <1>8, LocalStep DEF Alone

\* len answers, or starts again.
LEMMA LenCheckKeeps ==
    ASSUME TicketInv, NEW t \in Threads, LenCheck(t)
    PROVE  TicketInv'
<1>1. /\ pc[t] = "len_check" /\ truth' = [truth EXCEPT ![t] = 0]
      /\ UNCHANGED <<tail, tail_block, head, head_block, heap, script, gone, order>>
      /\ UNCHANGED positions
  BY DEF LenCheck, positions
<1>2. /\ loc \in [Threads -> Locals] /\ loc[t] \in Locals
      /\ pc \in [Threads -> {"idle"} \cup Pushing \cup Popping \cup Asking]
      /\ truth \in [Threads -> Nat]
  BY Own DEF Types
<1>3. PICK l \in Locals, step \in {"idle", "len_tail"} :
        loc' = [loc EXCEPT ![t] = l] /\ pc' = [pc EXCEPT ![t] = step]
  <2>1. CASE Return(t)
    BY ONLY <2>1, NoLocalsType DEF Return, Goto
  <2>2. CASE Goto(t, "len_tail") /\ loc' = loc
    <3>1. loc' = [loc EXCEPT ![t] = loc[t]]
      BY ONLY <1>2, <2>2, t \in Threads
    <3> QED
      BY ONLY <1>2, <2>2, <3>1 DEF Goto
  <2> QED
    BY <2>1, <2>2 DEF LenCheck
<1>4. /\ pc' \in [Threads -> {"idle"} \cup Pushing \cup Popping \cup Asking]
      /\ loc' \in [Threads -> Locals] /\ truth' \in [Threads -> Nat]
      /\ pc'[t] = step
      /\ \A u \in Threads : u # t => pc'[u] = pc[u] /\ loc'[u] = loc[u] /\ truth'[u] = truth[u]
  BY ONLY <1>1, <1>2, <1>3, t \in Threads DEF Asking
<1>5. Types' /\ Links' /\ ~ gone'
  BY ONLY <1>1, <1>4, Own, TicketInv, t \in Threads DEF Types, Links
<1>6. Keeps(t)' /\ ~ Writing(t)' /\ ~ Reading(t)'
  BY <1>3, <1>4, WhereItIs DEF Quiet
<1>7. step # "push_head"
  BY <1>3
<1> QED
  BY <1>1, <1>4, <1>5, <1>6, <1>7, LocalStep DEF Alone

-----------------------------------------------------------------------------
(* The steps on a slot *)

\* One block is changed.
LEMMA HeapUpdate ==
    ASSUME heap \in Seq(Block), NEW b, NEW e, b \in DOMAIN heap => e \in Block,
           heap' = [heap EXCEPT ![b] = e]
    PROVE  /\ heap' \in Seq(Block) /\ Len(heap') = Len(heap) /\ DOMAIN heap' = DOMAIN heap
           /\ \A c \in DOMAIN heap : heap'[c] = IF c = b THEN e ELSE heap[c]
<1>1. heap \in [1 .. Len(heap) -> Block] /\ Len(heap) \in Nat /\ DOMAIN heap = 1 .. Len(heap)
  OBVIOUS
<1>2. heap' \in [1 .. Len(heap) -> Block]
  BY ONLY <1>1, heap' = [heap EXCEPT ![b] = e], b \in DOMAIN heap => e \in Block
<1>3. heap' \in Seq(Block) /\ Len(heap') = Len(heap) /\ DOMAIN heap' = DOMAIN heap
  BY <1>1, <1>2, SeqDef, LenProperties
<1> QED
  BY <1>1, <1>3

\* The links of the blocks are as before, or undone.
LEMMA LinksKept ==
    ASSUME TicketInv, tail' = tail, DOMAIN heap' = DOMAIN heap,
           \A b \in DOMAIN heap : heap'[b].next \in {heap[b].next, Null}
    PROVE  Links'
BY DEF TicketInv, Links

\* Setting a bit keeps the types and the links.
LEMMA SetBitFacts ==
    ASSUME TicketInv, NEW t \in Threads, NEW i, NEW bit \in {"WRITE", "READ", "DESTROY"},
           SetBit(t, i, bit), tail' = tail
    PROVE  heap' \in Seq(Block) /\ Len(heap') = Len(heap) /\ Links'
<1> DEFINE b == loc[t].block
           e == [heap[b] EXCEPT !.state = [heap[b].state EXCEPT ![i] = @ \cup {bit}]]
<1>1. heap \in Seq(Block)
  BY Own DEF Types
<1>2. heap' = [heap EXCEPT ![b] = e]
  BY <1>1 DEF SetBit
<1>3. b \in DOMAIN heap => e \in Block /\ e.next = heap[b].next
  <2>1. SUFFICES ASSUME b \in DOMAIN heap PROVE e \in Block /\ e.next = heap[b].next
    OBVIOUS
  <2>2. heap[b] \in Block
    BY ONLY <1>1, <2>1
  <2> QED
    BY ONLY <2>2, bit \in {"WRITE", "READ", "DESTROY"} DEF Block
<1> HIDE DEF e, b
<1>4. /\ heap' \in Seq(Block) /\ Len(heap') = Len(heap) /\ DOMAIN heap' = DOMAIN heap
      /\ \A c \in DOMAIN heap : heap'[c] = IF c = b THEN e ELSE heap[c]
  BY ONLY <1>1, <1>2, <1>3, HeapUpdate
<1>5. \A c \in DOMAIN heap : heap'[c].next = heap[c].next
  BY ONLY <1>3, <1>4
<1> QED
  BY <1>4, <1>5, LinksKept

\* A step that sets a bit, or writes a slot, moves t on.
LEMMA SlotStep ==
    ASSUME TicketInv, NEW t \in Threads,
           NEW step \in ({"idle"} \cup Pushing \cup Popping \cup Asking) \ {"push_head"},
           NEW l \in Locals, pc[t] # "idle",
           Goto(t, step), loc' = [loc EXCEPT ![t] = l],
           UNCHANGED <<positions, others>>,
           heap' \in Seq(Block), Len(heap') = Len(heap), Links',
           pc'[t] = step /\ loc'[t] = l =>
                /\ Keeps(t)'
                /\ Writing(t)' => Writing(t) /\ l.index = loc[t].index
                /\ Reading(t)' => Reading(t) /\ l.index = loc[t].index
    PROVE  TicketInv'
<1>1. UNCHANGED <<tail, tail_block, head, head_block, script, gone, order, truth>>
  BY DEF positions, others, history
<1>2. /\ pc' \in [Threads -> {"idle"} \cup Pushing \cup Popping \cup Asking]
      /\ loc' \in [Threads -> Locals]
      /\ Alone(t) /\ pc'[t] = step /\ loc'[t] = l
  BY <1>1, StepTypes
<1>3. Types' /\ ~ gone'
  BY ONLY <1>1, <1>2, Own, TicketInv, t \in Threads, pc[t] # "idle", heap' \in Seq(Block) DEF Types
<1> QED
  BY <1>1, <1>2, <1>3, LocalStep

\* A push returns its ticket.
LEMMA MarkWrittenKeeps ==
    ASSUME TicketInv, NEW t \in Threads, MarkWritten(t)
    PROVE  TicketInv'
<1>1. /\ pc[t] = "push_ready" /\ SetBit(t, Slot0(loc[t].index), "WRITE")
      /\ Goto(t, "idle") /\ loc' = [loc EXCEPT ![t] = NoLocals]
      /\ UNCHANGED <<positions, others>> /\ tail' = tail
  BY DEF MarkWritten, Return, positions
<1>2. heap' \in Seq(Block) /\ Len(heap') = Len(heap) /\ Links'
  BY <1>1, SetBitFacts
<1>3. ASSUME pc'[t] = "idle" PROVE Keeps(t)' /\ ~ Writing(t)' /\ ~ Reading(t)'
  BY <1>3, WhereItIs DEF Quiet
<1> QED
  BY <1>1, <1>2, <1>3, NoLocalsType, SlotStep DEF Pushing

\* A pop returns its ticket, or goes on destroying the block.
LEMMA MarkReadKeeps ==
    ASSUME TicketInv, NEW t \in Threads, MarkRead(t)
    PROVE  TicketInv'
<1> DEFINE i == Slot0(loc[t].index)
<1>1. /\ pc[t] = "pop_read" /\ SetBit(t, i, "READ")
      /\ UNCHANGED <<positions, others>> /\ tail' = tail
  BY DEF MarkRead, positions
<1>2. heap' \in Seq(Block) /\ Len(heap') = Len(heap) /\ Links'
  BY <1>1, SetBitFacts
<1>3. PICK step \in {"idle", "destroy"}, l \in Locals :
        Goto(t, step) /\ loc' = [loc EXCEPT ![t] = l]
  <2>1. CASE Return(t)
    BY <2>1, NoLocalsType DEF Return
  <2>2. CASE loc' = [loc EXCEPT ![t].cursor = i + 1] /\ Goto(t, "destroy")
    <3>1. i + 1 \in Slots
      <4>1. ~ LastSlot(loc[t].index) /\ ~ Boundary(loc[t].index) /\ loc[t].index \in Nat
        BY <1>1, Own DEF Keeps, ReaderHolds, Reading
      <4>2. /\ i \in 0 .. LAP - 1
            /\ Boundary(loc[t].index) <=> i = LAP - 1
            /\ LastSlot(loc[t].index) <=> i = LAP - 2
        BY ONLY <4>1, IndexFacts
      <4> HIDE DEF i
      <4> QED
        BY ONLY <4>1, <4>2, Laps
    <3> HIDE DEF i
    <3>2. loc \in [Threads -> Locals] /\ loc[t] \in Locals
      BY Own
    <3>3. [loc[t] EXCEPT !.cursor = i + 1] \in Locals
      BY ONLY <3>1, <3>2 DEF Locals
    <3>4. loc' = [loc EXCEPT ![t] = [loc[t] EXCEPT !.cursor = i + 1]]
      BY ONLY <2>2, <3>2
    <3> QED
      BY ONLY <2>2, <3>3, <3>4
  <2> QED
    BY <2>1, <2>2 DEF MarkRead
<1>4. ASSUME pc'[t] = step PROVE Keeps(t)' /\ ~ Writing(t)' /\ ~ Reading(t)'
  BY <1>3, <1>4, WhereItIs DEF Quiet
<1>5. step \in ({"idle"} \cup Pushing \cup Popping \cup Asking) \ {"push_head"}
  BY <1>3 DEF Popping
<1> QED
  BY <1>1, <1>2, <1>3, <1>4, <1>5, SlotStep

\* The destruction stops or goes on.
LEMMA MarkDestroyKeeps ==
    ASSUME TicketInv, NEW t \in Threads, MarkDestroy(t)
    PROVE  TicketInv'
<1> DEFINE i == loc[t].cursor
<1>1. /\ pc[t] = "mark" /\ SetBit(t, i, "DESTROY")
      /\ UNCHANGED <<positions, others>> /\ tail' = tail
  BY DEF MarkDestroy, positions
<1>2. heap' \in Seq(Block) /\ Len(heap') = Len(heap) /\ Links'
  BY <1>1, SetBitFacts
<1>3. PICK step \in {"idle", "destroy"}, l \in Locals :
        Goto(t, step) /\ loc' = [loc EXCEPT ![t] = l]
  <2>1. CASE Return(t)
    BY <2>1, NoLocalsType DEF Return
  <2>2. CASE loc' = [loc EXCEPT ![t].cursor = i + 1] /\ Goto(t, "destroy")
    <3>2. loc \in [Threads -> Locals] /\ loc[t] \in Locals /\ i \in Slots /\ i < BLOCK_CAP - 1
      BY <1>1, Own DEF Keeps, ReaderHolds
    <3> HIDE DEF i
    <3>1. i + 1 \in Slots
      BY ONLY <3>2, Laps
    <3>3. [loc[t] EXCEPT !.cursor = i + 1] \in Locals
      BY ONLY <3>1, <3>2 DEF Locals
    <3>4. loc' = [loc EXCEPT ![t] = [loc[t] EXCEPT !.cursor = i + 1]]
      BY ONLY <2>2, <3>2
    <3> QED
      BY ONLY <2>2, <3>3, <3>4
  <2> QED
    BY <2>1, <2>2 DEF MarkDestroy
<1>4. ASSUME pc'[t] = step PROVE Keeps(t)' /\ ~ Writing(t)' /\ ~ Reading(t)'
  BY <1>3, <1>4, WhereItIs DEF Quiet
<1>5. step \in ({"idle"} \cup Pushing \cup Popping \cup Asking) \ {"push_head"}
  BY <1>3 DEF Popping
<1> QED
  BY <1>1, <1>2, <1>3, <1>4, <1>5, SlotStep

\* The value is written.
LEMMA WriteValueKeeps ==
    ASSUME TicketInv, NEW t \in Threads, WriteValue(t)
    PROVE  TicketInv'
<1> DEFINE b == loc[t].block
           e == [heap[b] EXCEPT !.value = [heap[b].value EXCEPT ![Slot0(loc[t].index)] = loc[t].value]]
<1>1. /\ pc[t] = "push_write" /\ Goto(t, "push_ready")
      /\ heap' = [heap EXCEPT ![b].value[Slot0(loc[t].index)] = loc[t].value]
      /\ UNCHANGED <<positions, others>> /\ tail' = tail /\ loc' = loc
  BY DEF WriteValue, positions
<1>2. /\ heap \in Seq(Block) /\ loc[t].value \in Values \cup {None}
      /\ loc \in [Threads -> Locals] /\ loc[t] \in Locals
      /\ WriterHolds(t)
  BY Own DEF Types, Keeps
<1>3. b \in DOMAIN heap => e \in Block /\ e.next = heap[b].next
  <2>1. SUFFICES ASSUME b \in DOMAIN heap PROVE e \in Block /\ e.next = heap[b].next
    OBVIOUS
  <2>2. heap[b] \in Block
    BY ONLY <1>2, <2>1
  <2> QED
    BY ONLY <1>2, <2>2 DEF Block
<1>4. heap' = [heap EXCEPT ![b] = e]
  BY <1>1, <1>2
<1>5. loc' = [loc EXCEPT ![t] = loc[t]]
  BY ONLY <1>1, <1>2
<1> HIDE DEF e, b
<1>6. /\ heap' \in Seq(Block) /\ Len(heap') = Len(heap) /\ DOMAIN heap' = DOMAIN heap
      /\ \A c \in DOMAIN heap : heap'[c] = IF c = b THEN e ELSE heap[c]
  BY ONLY <1>2, <1>3, <1>4, HeapUpdate
<1>7. \A c \in DOMAIN heap : heap'[c].next = heap[c].next
  BY ONLY <1>3, <1>6
<1>8. Links'
  BY <1>1, <1>6, <1>7, LinksKept
<1>9. ASSUME pc'[t] = "push_ready", loc'[t] = loc[t]
      PROVE  Keeps(t)' /\ Writing(t) /\ ~ Reading(t)'
  <2>1. WriterHolds(t)'
    BY ONLY <1>1, <1>2, <1>6, <1>9 DEF WriterHolds, Writing
  <2> QED
    BY <1>1, <1>9, <2>1, WhereItIs DEF Writing
<1> QED
  BY <1>1, <1>2, <1>5, <1>6, <1>8, <1>9, SlotStep DEF Pushing

\* A freed block is not linked to any other.
LEMMA DestroyKeeps ==
    ASSUME TicketInv, NEW t \in Threads, Destroy(t)
    PROVE  TicketInv'
<1> DEFINE i == loc[t].cursor
<1>1. /\ pc[t] = "destroy" /\ UNCHANGED <<positions, others>> /\ tail' = tail
  BY DEF Destroy, positions
<1>2. /\ heap \in Seq(Block) /\ loc \in [Threads -> Locals] /\ loc[t] \in Locals /\ i \in Slots
      /\ pc \in [Threads -> {"idle"} \cup Pushing \cup Popping \cup Asking]
      /\ Links
  BY Own DEF Types
<1>3. CASE heap' = [heap EXCEPT ![loc[t].block] = FreedBlock] /\ Return(t)
  <2>1. FreedBlock \in Block /\ FreedBlock.next = Null
    BY DEF FreedBlock, NewBlock, Block, Null
  <2>2. /\ heap' \in Seq(Block) /\ Len(heap') = Len(heap) /\ DOMAIN heap' = DOMAIN heap
        /\ \A c \in DOMAIN heap : heap'[c] = IF c = loc[t].block THEN FreedBlock ELSE heap[c]
    BY <1>2, <1>3, <2>1, HeapUpdate
  <2>3. \A c \in DOMAIN heap : heap'[c].next \in {heap[c].next, Null}
    BY ONLY <2>1, <2>2
  <2>4. Links'
    BY <1>1, <2>2, <2>3, LinksKept
  <2>5. ASSUME pc'[t] = "idle" PROVE Keeps(t)' /\ ~ Writing(t)' /\ ~ Reading(t)'
    BY <2>5, WhereItIs DEF Quiet
  <2> QED
    BY <1>1, <1>3, <2>2, <2>4, <2>5, NoLocalsType, SlotStep DEF Return
<1>4. CASE i < BLOCK_CAP - 1 /\ loc' = [loc EXCEPT ![t].cursor = i + 1] /\ UNCHANGED <<heap, pc>>
  <2> HIDE DEF i
  <2>1. i + 1 \in Slots
    BY ONLY <1>2, <1>4, Laps
  <2>2. [loc[t] EXCEPT !.cursor = i + 1] \in Locals
    BY ONLY <1>2, <2>1 DEF Locals
  <2>3. loc' = [loc EXCEPT ![t] = [loc[t] EXCEPT !.cursor = i + 1]]
    BY ONLY <1>2, <1>4
  <2>4. Goto(t, "destroy")
    BY ONLY <1>1, <1>2, <1>4 DEF Goto
  <2> QED
    BY <1>1, <1>4, <2>2, <2>3, <2>4, Quietly DEF Quiet
<1>5. CASE i < BLOCK_CAP - 1 /\ Goto(t, "mark") /\ UNCHANGED <<heap, loc>>
  <2>1. loc' = [loc EXCEPT ![t] = loc[t]]
    BY ONLY <1>2, <1>5
  <2>2. ASSUME pc'[t] = "mark", loc'[t] = loc[t]
        PROVE  Keeps(t)' /\ ~ Writing(t)' /\ ~ Reading(t)'
    <3>1. ReaderHolds(t)'
      BY ONLY <1>5, <2>2 DEF ReaderHolds, Reading, Moving
    <3> QED
      BY <2>2, <3>1, WhereItIs
  <2> QED
    BY <1>1, <1>2, <1>5, <2>1, <2>2, Look DEF Popping
<1> QED
  BY <1>3, <1>4, <1>5 DEF Destroy

-----------------------------------------------------------------------------
(* The steps that move an index or a block *)

\* The position behind another one.
LEMMA Successor ==
    ASSUME NEW m \in Nat, NEW n \in Nat, Pos(n) = Pos(m) + 1
    PROVE  /\ m <= n /\ Lap(m) \in Nat /\ Lap(n) \in Nat /\ Pos(m) \in Nat
           /\ ~ Boundary(m) => Lap(n) = Lap(m) /\ (Boundary(n) <=> LastSlot(m))
           /\ Boundary(m) => Lap(n) = Lap(m) + 1 /\ ~ Boundary(n)
<1>1. m + 2 \in Nat /\ Pos(m + 2) = Pos(n)
  BY StepFacts
<1>2. Lap(n) = Lap(m + 2) /\ Slot0(n) = Slot0(m + 2)
  BY <1>1, OrderFacts
<1>3. /\ Pos(m) \in Nat /\ Lap(m) \in Nat /\ Lap(n) \in Nat
      /\ Slot0(m) \in 0 .. LAP - 1 /\ Slot0(n) \in 0 .. LAP - 1
      /\ m = 2 * Pos(m) + (m % 2) /\ m % 2 \in 0 .. 1
      /\ n = 2 * Pos(n) + (n % 2) /\ n % 2 \in 0 .. 1
      /\ Boundary(m) <=> Slot0(m) = LAP - 1
      /\ LastSlot(m) <=> Slot0(m) = LAP - 2
      /\ Boundary(n) <=> Slot0(n) = LAP - 1
  BY IndexFacts
<1>4. m <= n
  BY ONLY <1>3, Pos(n) = Pos(m) + 1
<1>5. ASSUME ~ Boundary(m) PROVE Lap(n) = Lap(m) /\ (Boundary(n) <=> LastSlot(m))
  <2>1. Lap(n) = Lap(m) /\ Slot0(n) = Slot0(m) + 1
    BY <1>2, <1>5, StepFacts
  <2> QED
    BY ONLY <1>3, <2>1, Laps
<1>6. ASSUME Boundary(m) PROVE Lap(n) = Lap(m) + 1 /\ ~ Boundary(n)
  <2>1. Lap(n) = Lap(m) + 1 /\ Slot0(n) = 0
    BY <1>2, <1>6, StepFacts
  <2> QED
    BY ONLY <1>3, <2>1, Laps
<1> QED
  BY ONLY <1>3, <1>4, <1>5, <1>6

\* The tail's block is there for everybody who has got so far.
LEMMA TailAhead ==
    ASSUME TicketInv
    PROVE  /\ Lap(tail) \in Nat /\ Lap(head) \in Nat
           /\ Lap(head) < Lap(tail) => Lap(head) + 2 <= Len(heap)
<1>1. tail \in Nat /\ head \in Nat /\ TailBlock /\ heap \in Seq(Block)
  BY DEF TicketInv, Types
<1>2. Lap(tail) \in Nat /\ Lap(head) \in Nat /\ Len(heap) \in Nat
  <2>1. Lap(tail) \in Nat /\ Lap(head) \in Nat
    BY ONLY <1>1, IndexFacts
  <2> QED
    BY ONLY <1>1, <2>1
<1>3. tail_block # Null => Lap(tail) < Len(heap)
  BY <1>1 DEF TailBlock
<1>4. tail_block = Null => Lap(tail) = 0
  BY <1>1, Zero DEF TailBlock
<1> QED
  BY ONLY <1>2, <1>3, <1>4

\* One push installs a block, one pop moves the head.
LEMMA OneInstaller ==
    ASSUME TicketInv, NEW t \in Threads, NEW u \in Threads, u # t
    PROVE  /\ pc[t] \in {"push_next", "push_tail"} => pc[u] \notin {"push_next", "push_tail"}
           /\ Moving(t) => ~ Moving(u)
<1>1. OneTicketEach
  BY DEF TicketInv
<1>2. ASSUME pc[t] \in {"push_next", "push_tail"}, pc[u] \in {"push_next", "push_tail"}
      PROVE  FALSE
  <2>1. tail = loc[t].index + 2 /\ tail = loc[u].index + 2
    BY <1>2, Own DEF Keeps, WriterHolds
  <2>2. loc[t].index \in Nat /\ loc[u].index \in Nat
    BY Own
  <2>3. loc[t].index = loc[u].index
    BY ONLY <2>1, <2>2
  <2> QED
    BY <1>1, <1>2, <2>3 DEF OneTicketEach, Writing
<1>3. ASSUME Moving(t), Moving(u) PROVE FALSE
  <2>1. Pos(head) = Pos(loc[t].index) + 1 /\ Pos(head) = Pos(loc[u].index) + 1
    BY <1>3, MoverFacts
  <2>2. Pos(loc[t].index) \in Nat /\ Pos(loc[u].index) \in Nat
    BY Own, IndexFacts
  <2>3. Pos(loc[t].index) = Pos(loc[u].index)
    BY ONLY <2>1, <2>2
  <2> QED
    BY <1>1, <1>3, <2>3 DEF OneTicketEach, Reading
<1> QED
  BY <1>2, <1>3

\* The link is to the block behind.
LEMMA LinkNextKeeps ==
    ASSUME TicketInv, NEW t \in Threads, LinkNext(t)
    PROVE  TicketInv'
<1> DEFINE b == loc[t].block
           e == [heap[b] EXCEPT !.next = loc[t].next]
<1>1. /\ pc[t] = "push_link" /\ Goto(t, "push_write")
      /\ heap' = [heap EXCEPT ![b].next = loc[t].next]
      /\ UNCHANGED <<positions, others>> /\ tail' = tail /\ loc' = loc
  BY DEF LinkNext, positions
<1>2. /\ heap \in Seq(Block) /\ loc[t].next \in Nat
      /\ loc \in [Threads -> Locals] /\ loc[t] \in Locals
      /\ WriterHolds(t) /\ Links
  BY Own DEF Types, Keeps
<1>3. loc[t].next = b + 1 /\ b <= Lap(tail)
  BY ONLY <1>1, <1>2 DEF WriterHolds
<1>4. b \in DOMAIN heap => e \in Block /\ e.next = loc[t].next
  <2>1. SUFFICES ASSUME b \in DOMAIN heap PROVE e \in Block /\ e.next = loc[t].next
    OBVIOUS
  <2>2. heap[b] \in Block
    BY ONLY <1>2, <2>1
  <2> QED
    BY ONLY <1>2, <2>2 DEF Block
<1>5. heap' = [heap EXCEPT ![b] = e]
  BY ONLY <1>1, <1>2
<1>6. loc' = [loc EXCEPT ![t] = loc[t]]
  BY ONLY <1>1, <1>2
<1> HIDE DEF e, b
<1>7. /\ heap' \in Seq(Block) /\ Len(heap') = Len(heap) /\ DOMAIN heap' = DOMAIN heap
      /\ \A c \in DOMAIN heap : heap'[c] = IF c = b THEN e ELSE heap[c]
  BY ONLY <1>2, <1>4, <1>5, HeapUpdate
<1>8. Links'
  BY ONLY <1>1, <1>2, <1>3, <1>4, <1>7 DEF Links
<1>9. ASSUME pc'[t] = "push_write", loc'[t] = loc[t]
      PROVE  Keeps(t)' /\ Writing(t) /\ ~ Reading(t)'
  <2>1. WriterHolds(t)'
    BY ONLY <1>1, <1>2, <1>7, <1>9 DEF WriterHolds, Writing
  <2> QED
    BY <1>1, <1>9, <2>1, WhereItIs DEF Writing
<1> QED
  BY <1>1, <1>2, <1>6, <1>7, <1>8, <1>9, SlotStep DEF Pushing

\* Nobody gets a ticket from the head while it is on the boundary.
LEMMA MoveHeadBlockKeeps ==
    ASSUME TicketInv, NEW t \in Threads, MoveHeadBlock(t)
    PROVE  TicketInv'
<1>1. /\ pc[t] = "pop_move" /\ head_block' = loc[t].next /\ Goto(t, "pop_head")
      /\ UNCHANGED <<tail, tail_block, head, heap, loc, script, gone, order, truth>>
  BY DEF MoveHeadBlock, others, history
<1>2. /\ loc[t].next = Lap(head) + 2 /\ Lap(head) < Lap(tail) /\ ReaderHolds(t) /\ ~ gone
      /\ loc[t] \in Locals /\ loc \in [Threads -> Locals] /\ loc[t].next \in Nat
      /\ HeadBlock /\ HeadBehindTail /\ TailBlock /\ Links /\ Types
  BY <1>1, Own DEF Keeps, ReaderHolds
<1>3. Moving(t) /\ Boundary(head)
  BY <1>1, MoverFacts DEF Moving
<1>4. Lap(head) \in Nat /\ Lap(head) + 2 <= Len(heap)
  BY <1>2, TailAhead
<1>5. loc' = [loc EXCEPT ![t] = loc[t]]
  BY ONLY <1>1, <1>2
<1>6. /\ pc' \in [Threads -> {"idle"} \cup Pushing \cup Popping \cup Asking]
      /\ loc' \in [Threads -> Locals]
      /\ Alone(t) /\ pc'[t] = "pop_head" /\ loc'[t] = loc[t]
  <2>1. "pop_head" \in {"idle"} \cup Pushing \cup Popping \cup Asking
    BY DEF Popping
  <2> QED
    BY ONLY <1>1, <1>2, <1>5, <2>1, StepTypes, TicketInv, t \in Threads
<1>7. Types' /\ Links' /\ ~ gone'
  BY ONLY <1>1, <1>2, <1>6 DEF Types, Links
<1>8. HeadBehindTail' /\ TailBlock'
  BY ONLY <1>1, <1>2 DEF HeadBehindTail, TailBlock
<1>9. HeadBlock'
  BY ONLY <1>1, <1>2, <1>3, <1>4 DEF HeadBlock, Null
<1>10. Keeps(t)' /\ ~ Writing(t)' /\ Reading(t)
  <2>1. ReaderHolds(t)'
    BY ONLY <1>1, <1>2, <1>6 DEF ReaderHolds, Reading, Moving
  <2> QED
    BY <1>3, <1>6, <2>1, WhereItIs DEF Reading
<1>11. ASSUME NEW u \in Threads, u # t PROVE Moves(u)
  <2>1. pc[u] # "pop_head"
    BY <1>3, <1>11, OneInstaller DEF Moving
  <2>2. pc[u] # "push_head"
    <3>1. pc[u] = "push_head" => head_block = Null
      BY Own DEF Keeps, PushSaw
    <3>2. head_block = Null => head = 0
      BY <1>2 DEF HeadBlock
    <3> QED
      BY <1>3, <3>1, <3>2, Zero
  <2>3. tail \in Nat /\ head \in Nat /\ Len(heap) \in Nat
    BY Own
  <2> QED
    BY ONLY <1>1, <1>2, <1>4, <2>1, <2>2, <2>3 DEF Moves, Null
<1>12. OwnTickets(t)
  BY <1>6, <1>10 DEF TicketInv, OneTicketEach, OwnTickets
<1> QED
  BY <1>6, <1>7, <1>8, <1>9, <1>10, <1>11, <1>12, StepKeeps

\* The head leaves the boundary for the block that has been stored before.
LEMMA MoveHeadKeeps ==
    ASSUME TicketInv, NEW t \in Threads, MoveHead(t)
    PROVE  TicketInv'
<1>1. /\ pc[t] = "pop_head" /\ head' = loc[t].other /\ Goto(t, "pop_value")
      /\ UNCHANGED <<tail, tail_block, head_block, heap, loc, script, gone, order, truth>>
  BY DEF MoveHead, others, history
<1>2. /\ Lap(head) < Lap(tail) /\ Pos(loc[t].other) = Pos(head) + 1
      /\ HasNext(loc[t].other) => Lap(head) + 1 < Lap(tail)
      /\ head_block = Lap(head) + 2 /\ ~ gone
      /\ loc[t] \in Locals /\ loc \in [Threads -> Locals] /\ loc[t].other \in Nat
      /\ loc[t].index \in Nat /\ head \in Nat /\ tail \in Nat
      /\ HeadBlock /\ TailBlock /\ Links /\ Types
  BY <1>1, Own DEF Keeps, ReaderHolds
<1>3. /\ Moving(t) /\ Boundary(head) /\ Pos(loc[t].index) < Pos(head)
      /\ ~ Boundary(loc[t].index) /\ loc[t].block = Lap(loc[t].index) + 1
      /\ loc[t].block = Lap(head) + 1 /\ loc[t].block <= Len(heap)
  BY <1>1, MoverFacts DEF Moving
<1>4. head <= head' /\ Lap(head') = Lap(head) + 1 /\ ~ Boundary(head') /\ Pos(head') = Pos(head) + 1
  BY <1>1, <1>2, <1>3, Successor
<1>5. /\ Lap(head) \in Nat /\ Lap(tail) \in Nat /\ Pos(head) \in Nat /\ Pos(tail) \in Nat
      /\ Pos(loc[t].index) \in Nat /\ Pos(head) < Pos(tail)
  BY <1>2, IndexFacts, OrderFacts
<1>6. loc' = [loc EXCEPT ![t] = loc[t]]
  BY ONLY <1>1, <1>2
<1>7. /\ pc' \in [Threads -> {"idle"} \cup Pushing \cup Popping \cup Asking]
      /\ loc' \in [Threads -> Locals]
      /\ Alone(t) /\ pc'[t] = "pop_value" /\ loc'[t] = loc[t]
  <2>1. "pop_value" \in {"idle"} \cup Pushing \cup Popping \cup Asking
    BY DEF Popping
  <2> QED
    BY ONLY <1>1, <1>2, <1>6, <2>1, StepTypes, TicketInv, t \in Threads
<1>8. Types' /\ Links' /\ ~ gone' /\ TailBlock'
  BY ONLY <1>1, <1>2, <1>7 DEF Types, Links, TailBlock
<1>9. HeadBehindTail'
  BY ONLY <1>1, <1>2, <1>4, <1>5 DEF HeadBehindTail
<1>10. HeadBlock'
  BY ONLY <1>1, <1>2, <1>4, <1>5 DEF HeadBlock, Null
<1>11. Keeps(t)' /\ ~ Writing(t)' /\ Reading(t)
  <2>1. ReaderHolds(t)'
    BY ONLY <1>1, <1>3, <1>4, <1>5, <1>7 DEF ReaderHolds, Reading, Moving
  <2> QED
    BY <1>3, <1>7, <2>1, WhereItIs DEF Reading
<1>12. ASSUME NEW u \in Threads, u # t PROVE Moves(u)
  <2>1. ~ Moving(u)
    BY <1>3, <1>12, OneInstaller
  <2>2. Len(heap) \in Nat
    BY Own
  <2> QED
    BY ONLY <1>1, <1>2, <1>4, <2>1, <2>2 DEF Moves
<1>13. OwnTickets(t)
  BY <1>7, <1>11 DEF TicketInv, OneTicketEach, OwnTickets
<1> QED
  BY <1>7, <1>8, <1>9, <1>10, <1>11, <1>12, <1>13, StepKeeps

\* The head was behind the tail when it was read, and it has not moved since.
LEMMA TakeHeadTicketKeeps ==
    ASSUME TicketInv, NEW t \in Threads, TakeHeadTicket(t)
    PROVE  TicketInv'
<1> DEFINE step == IF LastSlot(loc[t].index) THEN "pop_wait" ELSE "pop_value"
<1>1. /\ pc[t] = "pop_cas" /\ head = loc[t].index /\ head' = loc[t].other /\ Goto(t, step)
      /\ UNCHANGED <<tail, tail_block, head_block, heap, loc, script, gone, order, truth>>
  BY DEF TakeHeadTicket, others, history
<1>2. /\ ~ gone /\ loc[t] \in Locals /\ loc \in [Threads -> Locals] /\ loc[t].other \in Nat
      /\ head \in Nat /\ tail \in Nat /\ Len(heap) \in Nat
      /\ HeadBlock /\ TailBlock /\ Links /\ Types /\ HeadBehindTail
  BY <1>1, Own
<1>3. /\ ~ Boundary(head) /\ loc[t].block = Lap(head) + 1 /\ head_block # Null
      /\ ~ HasNext(head) => Pos(head) < Pos(tail)
      /\ \/ loc[t].other = head + 2
         \/ loc[t].other = WithNext(head + 2) /\ Lap(head) < Lap(tail)
  BY <1>1, Own DEF Keeps, PopSaw
<1>4. Pos(head') = Pos(head) + 1 /\ (HasNext(head') => Lap(head) < Lap(tail))
  <2>1. /\ head + 2 \in Nat /\ Pos(head + 2) = Pos(head) + 1
        /\ HasNext(head + 2) <=> HasNext(head)
    <3>1. head \in Nat /\ head + 2 \in Nat
      BY ONLY <1>2
    <3> QED
      BY ONLY <3>1, StepFacts
  <2>2. Pos(WithNext(head + 2)) = Pos(head + 2)
    BY ONLY <2>1, BitFacts
  <2>3. HasNext(head) => Lap(head) < Lap(tail)
    BY <1>2 DEF HeadBehindTail
  <2> QED
    BY ONLY <1>1, <1>3, <2>1, <2>2, <2>3
<1>5. /\ head <= head' /\ Lap(head') = Lap(head) /\ Lap(head) \in Nat /\ Pos(head) \in Nat
      /\ Boundary(head') <=> LastSlot(head)
  BY ONLY <1>1, <1>2, <1>3, <1>4, Successor
<1>6. Pos(head) < Pos(tail) /\ Pos(tail) \in Nat
  <2>1. Pos(tail) \in Nat /\ (Lap(head) < Lap(tail) => Pos(head) < Pos(tail))
    BY ONLY <1>2, IndexFacts, OrderFacts
  <2> QED
    BY <1>2, <1>3, <2>1 DEF HeadBehindTail
<1>7. loc' = [loc EXCEPT ![t] = loc[t]]
  BY ONLY <1>1, <1>2
<1>8. /\ step \in {"pop_wait", "pop_value"} /\ (step = "pop_wait" <=> LastSlot(head))
      /\ step \in {"idle"} \cup Pushing \cup Popping \cup Asking
  BY ONLY <1>1 DEF Popping
<1> HIDE DEF step
<1>9. /\ pc' \in [Threads -> {"idle"} \cup Pushing \cup Popping \cup Asking]
      /\ loc' \in [Threads -> Locals]
      /\ Alone(t) /\ pc'[t] = step /\ loc'[t] = loc[t]
  BY ONLY <1>1, <1>2, <1>7, <1>8, StepTypes, TicketInv, t \in Threads
<1>10. Types' /\ Links' /\ ~ gone' /\ TailBlock'
  BY ONLY <1>1, <1>2, <1>9 DEF Types, Links, TailBlock
<1>11. HeadBehindTail'
  BY ONLY <1>1, <1>4, <1>5, <1>6 DEF HeadBehindTail
<1>12. head_block = Lap(head) + 1 /\ head_block <= Len(heap)
  BY ONLY <1>2, <1>3 DEF HeadBlock
<1>13. HeadBlock'
  BY ONLY <1>1, <1>5, <1>12 DEF HeadBlock, Null
<1>14. Keeps(t)' /\ ~ Writing(t)'
  <2>1. ReaderHolds(t)'
    BY ONLY <1>1, <1>3, <1>4, <1>5, <1>8, <1>9, <1>12 DEF ReaderHolds, Reading, Moving
  <2> QED
    BY <1>8, <1>9, <2>1, WhereItIs
<1>15. ASSUME NEW u \in Threads, u # t PROVE Moves(u)
  <2>1. ~ Moving(u)
    BY <1>3, MoverFacts
  <2> QED
    BY ONLY <1>1, <1>2, <1>5, <2>1 DEF Moves
<1>16. OwnTickets(t)
  <2>1. ASSUME NEW u \in Threads, u # t, Reading(u) PROVE Pos(head) # Pos(loc[u].index)
    <3>1. Pos(loc[u].index) < Pos(head) /\ loc[u].index \in Nat
      BY <2>1, Own DEF Keeps, ReaderHolds
    <3>2. Pos(loc[u].index) \in Nat
      BY ONLY <3>1, IndexFacts
    <3> QED
      BY ONLY <1>5, <3>1, <3>2
  <2> QED
    BY ONLY <1>1, <1>8, <1>9, <1>14, <2>1 DEF OwnTickets
<1> QED
  BY <1>9, <1>10, <1>11, <1>13, <1>14, <1>15, <1>16, StepKeeps

\* Only the thread that installed the first block stores it.
LEMMA PublishFirstKeeps ==
    ASSUME TicketInv, NEW t \in Threads, PublishFirst(t)
    PROVE  TicketInv'
<1>1. /\ pc[t] = "push_head" /\ head_block' = loc[t].block /\ Goto(t, "push_cas")
      /\ UNCHANGED <<tail, tail_block, head, heap, loc, script, gone, order, truth>>
  BY DEF PublishFirst, others, history
<1>2. /\ ~ gone /\ loc[t] \in Locals /\ loc \in [Threads -> Locals]
      /\ head \in Nat /\ tail \in Nat /\ tail_block \in Nat /\ Len(heap) \in Nat
      /\ HeadBlock /\ TailBlock /\ Links /\ Types /\ HeadBehindTail /\ PushSaw(t)
  BY <1>1, Own DEF Keeps
<1>3. /\ loc[t].index = 0 /\ loc[t].block = 1 /\ head_block = Null /\ tail_block # Null
      /\ head = 0 /\ Len(heap) >= 1
  BY ONLY <1>1, <1>2 DEF PushSaw, HeadBlock, TailBlock, Null
<1>4. loc' = [loc EXCEPT ![t] = loc[t]]
  BY ONLY <1>1, <1>2
<1>5. /\ pc' \in [Threads -> {"idle"} \cup Pushing \cup Popping \cup Asking]
      /\ loc' \in [Threads -> Locals]
      /\ Alone(t) /\ pc'[t] = "push_cas" /\ loc'[t] = loc[t]
  <2>1. "push_cas" \in {"idle"} \cup Pushing \cup Popping \cup Asking
    BY DEF Pushing
  <2> QED
    BY ONLY <1>1, <1>2, <1>4, <2>1, StepTypes, TicketInv, t \in Threads
<1>6. Types' /\ Links' /\ ~ gone' /\ TailBlock' /\ HeadBehindTail'
  BY ONLY <1>1, <1>2, <1>3, <1>5 DEF Types, Links, TailBlock, HeadBehindTail
<1>7. HeadBlock'
  BY ONLY <1>1, <1>2, <1>3, Zero DEF HeadBlock, Null
<1>8. Keeps(t)' /\ ~ Writing(t)' /\ ~ Reading(t)'
  <2>1. PushSaw(t)'
    BY ONLY <1>1, <1>2, <1>3, <1>5, Zero DEF PushSaw
  <2> QED
    BY <1>5, <2>1, WhereItIs
<1>9. ASSUME NEW u \in Threads, u # t PROVE Moves(u)
  <2>1. pc[u] # "push_head"
    BY <1>1, <1>9 DEF TicketInv, OneTicketEach
  <2>2. pc[u] # "pop_head"
    <3>1. pc[u] = "pop_head" => head_block = Lap(head) + 2 /\ Lap(head) \in Nat
      BY <1>2, Own, IndexFacts DEF Keeps, ReaderHolds
    <3> QED
      BY ONLY <1>3, <3>1 DEF Null
  <2> QED
    BY ONLY <1>1, <1>2, <1>3, <2>1, <2>2 DEF Moves
<1>10. OwnTickets(t)
  BY ONLY <1>5, <1>8 DEF OwnTickets
<1> QED
  BY <1>5, <1>6, <1>7, <1>8, <1>9, <1>10, StepKeeps

\* The ticket is the tail's, so nobody else has it.
LEMMA TakeTailTicketKeeps ==
    ASSUME TicketInv, NEW t \in Threads, TakeTailTicket(t)
    PROVE  TicketInv'
<1> DEFINE step == IF LastSlot(loc[t].index) THEN "push_next" ELSE "push_write"
<1>1. /\ pc[t] = "push_cas" /\ tail = loc[t].index /\ tail' = tail + 2 /\ Goto(t, step)
      /\ UNCHANGED <<tail_block, head, head_block, heap, loc, script, gone, truth>>
  BY DEF TakeTailTicket
<1>2. /\ ~ gone /\ loc[t] \in Locals /\ loc \in [Threads -> Locals]
      /\ head \in Nat /\ tail \in Nat /\ tail + 2 \in Nat /\ tail_block \in Nat
      /\ Len(heap) \in Nat /\ Links /\ Types
  BY <1>1, Own
<1>3. HeadBlock /\ TailBlock /\ HeadBehindTail /\ PushSaw(t)
  BY Own DEF Keeps
<1>4. /\ ~ Boundary(tail) /\ (LastSlot(tail) => loc[t].spare)
      /\ loc[t].block = Lap(tail) + 1 /\ tail_block # Null
  BY ONLY <1>1, <1>3 DEF PushSaw
<1>5. tail_block = Lap(tail) + 1 /\ tail_block = Len(heap)
  BY ONLY <1>3, <1>4 DEF TailBlock
<1>6. Pos(tail') = Pos(tail) + 1 /\ tail' \in Nat /\ (HasNext(tail') <=> HasNext(tail))
  <2>1. tail \in Nat
    BY <1>2
  <2>2. Pos(tail + 2) = Pos(tail) + 1 /\ (HasNext(tail + 2) <=> HasNext(tail))
    BY ONLY <2>1, StepFacts
  <2> QED
    BY ONLY <1>1, <1>2, <2>2
<1>7. /\ tail <= tail' /\ Lap(tail') = Lap(tail) /\ Lap(tail) \in Nat /\ Pos(tail) \in Nat
      /\ Boundary(tail') <=> LastSlot(tail)
  BY ONLY <1>2, <1>4, <1>6, Successor
<1>8. loc' = [loc EXCEPT ![t] = loc[t]]
  BY ONLY <1>1, <1>2
<1>9. /\ step \in {"push_next", "push_write"} /\ (step = "push_next" <=> LastSlot(tail))
      /\ step \in {"idle"} \cup Pushing \cup Popping \cup Asking
  BY ONLY <1>1 DEF Pushing
<1> HIDE DEF step
<1>10. /\ pc' \in [Threads -> {"idle"} \cup Pushing \cup Popping \cup Asking]
       /\ loc' \in [Threads -> Locals]
       /\ Alone(t) /\ pc'[t] = step /\ loc'[t] = loc[t]
  BY ONLY <1>1, <1>2, <1>8, <1>9, StepTypes, TicketInv, t \in Threads
<1>11. Types' /\ Links' /\ ~ gone'
  BY ONLY <1>1, <1>2, <1>6, <1>7, <1>10 DEF Types, Links
<1>12. HeadBlock' /\ TailBlock'
  BY ONLY <1>1, <1>3, <1>4, <1>5, <1>7 DEF HeadBlock, TailBlock
<1>13. HeadBehindTail'
  <2>1. Pos(head) \in Nat
    BY ONLY <1>2, IndexFacts
  <2> QED
    BY ONLY <1>1, <1>3, <1>6, <1>7, <2>1 DEF HeadBehindTail
<1>14. Keeps(t)' /\ ~ Reading(t)'
  <2>1. WriterHolds(t)'
    BY ONLY <1>1, <1>2, <1>4, <1>5, <1>6, <1>7, <1>9, <1>10 DEF WriterHolds, Writing
  <2> QED
    BY <1>9, <1>10, <2>1, WhereItIs
<1>15. ASSUME NEW u \in Threads, u # t PROVE Moves(u)
  <2>1. pc[u] \in {"push_next", "push_tail"} => Boundary(tail)
    BY Own DEF Keeps, WriterHolds
  <2> QED
    BY ONLY <1>1, <1>2, <1>4, <1>7, <2>1 DEF Moves
<1>16. OwnTickets(t)
  <2>1. ASSUME NEW u \in Threads, u # t, Writing(u) PROVE Pos(tail) # Pos(loc[u].index)
    <3>1. Pos(loc[u].index) < Pos(tail) /\ loc[u].index \in Nat
      BY <2>1, Own DEF Keeps, WriterHolds
    <3>2. Pos(loc[u].index) \in Nat
      BY ONLY <3>1, IndexFacts
    <3> QED
      BY ONLY <1>7, <3>1, <3>2
  <2> QED
    BY ONLY <1>1, <1>9, <1>10, <1>14, <2>1 DEF OwnTickets
<1> QED
  BY <1>10, <1>11, <1>12, <1>13, <1>14, <1>15, <1>16, StepKeeps

\* A new block at the end.
LEMMA HeapAppend ==
    ASSUME TicketInv, heap' = Append(heap, NewBlock), Lap(tail) <= Lap(tail'),
           Lap(tail) \in Nat, Lap(tail') \in Nat
    PROVE  heap' \in Seq(Block) /\ Len(heap') = Len(heap) + 1 /\ Links'
<1>1. heap \in Seq(Block) /\ Links
  BY DEF TicketInv, Types
<1>2. NewBlock \in Block /\ NewBlock.next = Null
  BY DEF NewBlock, Block, Null
<1>3. /\ heap' \in Seq(Block) /\ Len(heap') = Len(heap) + 1
      /\ \A b \in 1 .. Len(heap) + 1 : heap'[b] = IF b <= Len(heap) THEN heap[b] ELSE NewBlock
  BY ONLY <1>1, <1>2, heap' = Append(heap, NewBlock)
<1>4. ASSUME NEW b \in DOMAIN heap', heap'[b].next # Null
      PROVE  heap'[b].next = b + 1 /\ b <= Lap(tail')
  <2>1. Len(heap) \in Nat /\ b \in 1 .. Len(heap) + 1
    BY ONLY <1>1, <1>3, b \in DOMAIN heap'
  <2>2. b <= Len(heap)
    BY ONLY <1>2, <1>3, <1>4, <2>1
  <2>3. b \in DOMAIN heap /\ heap'[b] = heap[b] /\ b \in Nat
    BY ONLY <1>1, <1>3, <2>1, <2>2
  <2>4. heap[b].next = b + 1 /\ b <= Lap(tail)
    BY ONLY <1>1, <1>4, <2>3 DEF Links
  <2> QED
    BY <2>3, <2>4
<1> QED
  BY <1>3, <1>4 DEF Links

\* The first block gets the first address.
LEMMA InstallFirstKeeps ==
    ASSUME TicketInv, NEW t \in Threads, InstallFirst(t)
    PROVE  TicketInv'
<1>1. /\ pc[t] = "push_first" /\ UNCHANGED <<tail, head, head_block, others>>
      /\ UNCHANGED <<tail, head, head_block, script, gone, truth>>
  BY DEF InstallFirst, others, history
<1>2. /\ ~ gone /\ loc[t] \in Locals /\ loc \in [Threads -> Locals] /\ loc[t].index \in Nat
      /\ head \in Nat /\ tail \in Nat /\ tail_block \in Nat /\ head_block \in Nat
      /\ heap \in Seq(Block) /\ Len(heap) \in Nat /\ Types
  BY <1>1, Own DEF Types
<1>3. HeadBlock /\ TailBlock /\ HeadBehindTail /\ PushSaw(t)
  BY Own DEF Keeps
<1>4. CASE tail_block # Null
  <2> DEFINE l == [loc[t] EXCEPT !.index = 0, !.spare = TRUE]
  <2>1. /\ loc' = [loc EXCEPT ![t].index = 0, ![t].spare = TRUE] /\ Goto(t, "push_index")
        /\ UNCHANGED <<positions, heap, others>>
    BY <1>1, <1>4 DEF InstallFirst, positions
  <2>2. l \in Locals /\ loc' = [loc EXCEPT ![t] = l]
    BY ONLY <1>2, <2>1 DEF Locals
  <2> QED
    BY <1>1, <2>1, <2>2, Quietly DEF Quiet
<1>5. CASE tail_block = Null
  <2> DEFINE l == [loc[t] EXCEPT !.block = Len(heap')]
  <2>1. /\ heap' = Append(heap, NewBlock) /\ tail_block' = Len(heap')
        /\ loc' = [loc EXCEPT ![t].block = Len(heap')] /\ Goto(t, "push_head")
    BY <1>5 DEF InstallFirst
  <2>2. /\ Len(heap) = 0 /\ tail = 0 /\ loc[t].index = 0
        /\ ~ Boundary(loc[t].index) /\ (LastSlot(loc[t].index) => loc[t].spare)
    BY ONLY <1>1, <1>2, <1>3, <1>5 DEF TailBlock, PushSaw, Null
  <2>3. Lap(tail) \in Nat /\ Lap(head) \in Nat /\ Lap(tail') = Lap(tail)
    BY ONLY <1>1, <1>2, IndexFacts
  <2>4. heap' \in Seq(Block) /\ Len(heap') = Len(heap) + 1 /\ Links'
    BY <2>1, <2>3, HeapAppend
  <2>5. Len(heap') = 1 /\ tail_block' = 1
    BY ONLY <2>1, <2>2, <2>4
  <2>6. head_block = Null
    BY ONLY <1>2, <1>3, <2>2, <2>3 DEF HeadBlock, Null
  <2>7. /\ l \in Locals /\ loc' = [loc EXCEPT ![t] = l]
        /\ l.index = 0 /\ l.block = 1 /\ l.spare = loc[t].spare
    <3>1. loc \in [Threads -> Locals] /\ loc[t] \in Locals /\ Len(heap') \in Nat
      BY ONLY <1>2, <2>5
    <3>2. l \in Locals /\ loc' = [loc EXCEPT ![t] = l]
      BY ONLY <2>1, <3>1 DEF Locals
    <3>3. l.index = loc[t].index /\ l.block = Len(heap') /\ l.spare = loc[t].spare
      BY ONLY <3>1 DEF Locals
    <3> HIDE DEF l
    <3> QED
      BY ONLY <2>2, <2>5, <3>2, <3>3
  <2> HIDE DEF l
  <2>8. /\ pc' \in [Threads -> {"idle"} \cup Pushing \cup Popping \cup Asking]
        /\ loc' \in [Threads -> Locals]
        /\ Alone(t) /\ pc'[t] = "push_head" /\ loc'[t] = l
    <3>1. "push_head" \in {"idle"} \cup Pushing \cup Popping \cup Asking
      BY DEF Pushing
    <3> QED
      BY ONLY <1>1, <2>1, <2>7, <3>1, StepTypes, TicketInv, t \in Threads
  <2>9. Types' /\ ~ gone'
    BY ONLY <1>1, <1>2, <2>4, <2>5, <2>8 DEF Types
  <2>10. HeadBehindTail'
    BY ONLY <1>1, <1>3 DEF HeadBehindTail
  <2>11. TailBlock'
    BY ONLY <1>1, <2>2, <2>5, Zero DEF TailBlock, Null
  <2>12. HeadBlock'
    BY ONLY <1>1, <1>3, <2>6 DEF HeadBlock
  <2>13. Keeps(t)' /\ ~ Writing(t)' /\ ~ Reading(t)'
    <3>1. PushSaw(t)'
      BY ONLY <1>1, <2>2, <2>5, <2>6, <2>7, <2>8 DEF PushSaw, Null
    <3> QED
      BY <2>8, <3>1, WhereItIs
  <2>14. ASSUME NEW u \in Threads, u # t
         PROVE  pc[u] \notin {"push_next", "push_tail", "push_head"}
    <3>1. /\ pc[u] = "push_next" => tail_block = Lap(tail) + 1
          /\ pc[u] = "push_tail" => tail_block = Lap(tail) + 2
          /\ pc[u] = "push_head" => tail_block # Null
      BY Own DEF Keeps, WriterHolds, PushSaw
    <3> QED
      BY ONLY <1>5, <2>3, <3>1 DEF Null
  <2>15. ASSUME NEW u \in Threads, u # t PROVE Moves(u)
    BY ONLY <1>1, <1>2, <1>5, <2>2, <2>5, <2>14, <2>15 DEF Moves, Null
  <2>16. OwnTickets(t)
    BY ONLY <2>13, <2>14 DEF OwnTickets
  <2> QED
    BY <2>4, <2>8, <2>9, <2>10, <2>11, <2>12, <2>13, <2>15, <2>16, StepKeeps
<1> QED
  BY <1>4, <1>5

\* A push that installs a block has the ticket of the last slot before it.
LEMMA InstallerFacts ==
    ASSUME TicketInv, NEW t \in Threads, pc[t] \in {"push_next", "push_tail"}
    PROVE  /\ tail = loc[t].index + 2 /\ Boundary(tail) /\ Lap(tail) = Lap(loc[t].index)
           /\ Pos(tail) = Pos(loc[t].index) + 1 /\ Lap(tail) \in Nat /\ Pos(tail) \in Nat
           /\ Pos(loc[t].index) \in Nat
           /\ ~ Boundary(loc[t].index) /\ loc[t].block = Lap(tail) + 1 /\ loc[t].block <= Len(heap)
           /\ pc[t] = "push_next" => tail_block = Lap(tail) + 1
           /\ pc[t] = "push_tail" => tail_block = Lap(tail) + 2 /\ loc[t].next = loc[t].block + 1
<1>1. loc[t].index \in Nat /\ tail \in Nat /\ WriterHolds(t)
  BY Own DEF Keeps
<1>2. /\ tail = loc[t].index + 2 /\ Boundary(tail)
      /\ ~ Boundary(loc[t].index) /\ loc[t].block = Lap(loc[t].index) + 1
      /\ loc[t].block <= Len(heap)
      /\ pc[t] = "push_next" => tail_block = Lap(tail) + 1
      /\ pc[t] = "push_tail" => tail_block = Lap(tail) + 2 /\ loc[t].next = loc[t].block + 1
  BY ONLY <1>1, pc[t] \in {"push_next", "push_tail"} DEF WriterHolds, Writing
<1>3. Pos(tail) = Pos(loc[t].index) + 1
  BY ONLY <1>1, <1>2, StepFacts
<1>4. /\ Lap(tail) = Lap(loc[t].index) /\ Lap(tail) \in Nat /\ Pos(loc[t].index) \in Nat
      /\ Pos(tail) \in Nat
  BY ONLY <1>1, <1>2, <1>3, Successor
<1> QED
  BY <1>2, <1>3, <1>4

\* The block of the next lap gets the next address; only one thread installs it.
LEMMA InstallNextKeeps ==
    ASSUME TicketInv, NEW t \in Threads, InstallNext(t)
    PROVE  TicketInv'
<1> DEFINE l == [loc[t] EXCEPT !.next = Len(heap'), !.spare = FALSE]
<1>1. /\ pc[t] = "push_next" /\ heap' = Append(heap, NewBlock) /\ tail_block' = Len(heap')
      /\ loc' = [loc EXCEPT ![t].next = Len(heap'), ![t].spare = FALSE] /\ Goto(t, "push_tail")
      /\ UNCHANGED <<tail, head, head_block, script, gone, truth>>
  BY DEF InstallNext, others, history
<1>2. /\ ~ gone /\ loc[t] \in Locals /\ loc \in [Threads -> Locals] /\ loc[t].index \in Nat
      /\ head \in Nat /\ tail \in Nat /\ tail_block \in Nat /\ head_block \in Nat
      /\ Len(heap) \in Nat /\ Types
  BY <1>1, Own
<1>3. HeadBlock /\ TailBlock /\ HeadBehindTail
  BY Own
<1>4. /\ tail = loc[t].index + 2 /\ Boundary(tail) /\ Lap(tail) = Lap(loc[t].index)
      /\ Pos(tail) = Pos(loc[t].index) + 1 /\ Lap(tail) \in Nat /\ Pos(tail) \in Nat
      /\ Pos(loc[t].index) \in Nat
      /\ ~ Boundary(loc[t].index) /\ loc[t].block = Lap(tail) + 1 /\ loc[t].block <= Len(heap)
      /\ tail_block = Lap(tail) + 1
  BY <1>1, InstallerFacts
<1>5. heap' \in Seq(Block) /\ Len(heap') = Len(heap) + 1 /\ Links'
  BY <1>1, <1>4, HeapAppend
<1>6. Len(heap) = Lap(tail) + 1 /\ Len(heap') = Lap(tail) + 2 /\ Len(heap') \in Nat
  <2>1. tail_block = Len(heap)
    BY ONLY <1>3 DEF TailBlock
  <2> QED
    BY ONLY <1>4, <1>5, <2>1
<1>7. /\ l \in Locals /\ loc' = [loc EXCEPT ![t] = l]
      /\ l.index = loc[t].index /\ l.block = loc[t].block /\ l.next = Len(heap')
  BY ONLY <1>1, <1>2, <1>6 DEF Locals
<1> HIDE DEF l
<1>8. /\ pc' \in [Threads -> {"idle"} \cup Pushing \cup Popping \cup Asking]
      /\ loc' \in [Threads -> Locals]
      /\ Alone(t) /\ pc'[t] = "push_tail" /\ loc'[t] = l
  <2>1. "push_tail" \in {"idle"} \cup Pushing \cup Popping \cup Asking
    BY DEF Pushing
  <2> QED
    BY ONLY <1>1, <1>7, <2>1, StepTypes, TicketInv, t \in Threads
<1>9. Types' /\ ~ gone'
  BY ONLY <1>1, <1>2, <1>5, <1>6, <1>8 DEF Types
<1>10. HeadBehindTail'
  BY ONLY <1>1, <1>3 DEF HeadBehindTail
<1>11. TailBlock'
  BY ONLY <1>1, <1>4, <1>6 DEF TailBlock, Null
<1>12. HeadBlock'
  BY ONLY <1>1, <1>2, <1>3, <1>5 DEF HeadBlock
<1>13. Keeps(t)' /\ ~ Reading(t)'
  <2>1. WriterHolds(t)'
    BY ONLY <1>1, <1>4, <1>6, <1>7, <1>8 DEF WriterHolds, Writing
  <2> QED
    BY <1>8, <2>1, WhereItIs
<1>14. ASSUME NEW u \in Threads, u # t PROVE Moves(u)
  <2>1. pc[u] \notin {"push_next", "push_tail"}
    BY <1>1, <1>14, OneInstaller
  <2> QED
    BY ONLY <1>1, <1>2, <1>5, <1>6, <2>1 DEF Moves, Null
<1>15. OwnTickets(t)
  <2>1. Writing(t) /\ OneTicketEach
    BY <1>1 DEF Writing, TicketInv
  <2> QED
    BY ONLY <1>7, <1>8, <1>13, <2>1, t \in Threads DEF OwnTickets, OneTicketEach
<1> QED
  BY <1>5, <1>8, <1>9, <1>10, <1>11, <1>12, <1>13, <1>14, <1>15, StepKeeps

\* The tail leaves the boundary for the block that has been stored before.
LEMMA SkipBoundaryKeeps ==
    ASSUME TicketInv, NEW t \in Threads, SkipBoundary(t)
    PROVE  TicketInv'
<1>1. /\ pc[t] = "push_tail" /\ tail' = loc[t].index + 4 /\ Goto(t, "push_link")
      /\ UNCHANGED <<tail_block, head, head_block, heap, loc, script, gone, truth>>
  BY DEF SkipBoundary, others, history
<1>2. /\ ~ gone /\ loc[t] \in Locals /\ loc \in [Threads -> Locals] /\ loc[t].index \in Nat
      /\ head \in Nat /\ tail \in Nat /\ Len(heap) \in Nat /\ Types /\ Links
  BY <1>1, Own
<1>3. HeadBlock /\ TailBlock /\ HeadBehindTail
  BY Own
<1>4. /\ tail = loc[t].index + 2 /\ Boundary(tail) /\ Lap(tail) = Lap(loc[t].index)
      /\ Pos(tail) = Pos(loc[t].index) + 1 /\ Lap(tail) \in Nat /\ Pos(tail) \in Nat
      /\ Pos(loc[t].index) \in Nat
      /\ ~ Boundary(loc[t].index) /\ loc[t].block = Lap(tail) + 1 /\ loc[t].block <= Len(heap)
      /\ tail_block = Lap(tail) + 2 /\ loc[t].next = loc[t].block + 1
  BY <1>1, InstallerFacts
<1>5. tail' = tail + 2 /\ tail' \in Nat
  BY ONLY <1>1, <1>2, <1>4
<1>6. Pos(tail') = Pos(tail) + 1
  BY ONLY <1>2, <1>5, StepFacts
<1>7. tail <= tail' /\ Lap(tail') = Lap(tail) + 1 /\ ~ Boundary(tail')
  BY ONLY <1>2, <1>4, <1>5, <1>6, Successor
<1>8. loc' = [loc EXCEPT ![t] = loc[t]]
  BY ONLY <1>1, <1>2
<1>9. /\ pc' \in [Threads -> {"idle"} \cup Pushing \cup Popping \cup Asking]
      /\ loc' \in [Threads -> Locals]
      /\ Alone(t) /\ pc'[t] = "push_link" /\ loc'[t] = loc[t]
  <2>1. "push_link" \in {"idle"} \cup Pushing \cup Popping \cup Asking
    BY DEF Pushing
  <2> QED
    BY ONLY <1>1, <1>2, <1>8, <2>1, StepTypes, TicketInv, t \in Threads
<1>10. Types' /\ ~ gone'
  BY ONLY <1>1, <1>2, <1>5, <1>9 DEF Types
<1>11. Links'
  <2>1. ASSUME NEW b \in DOMAIN heap, heap[b].next # Null
        PROVE  heap[b].next = b + 1 /\ b <= Lap(tail')
    <3>1. heap[b].next = b + 1 /\ b <= Lap(tail)
      BY ONLY <1>2, <2>1 DEF Links
    <3>2. b \in Nat
      <4>1. heap \in Seq(Block)
        BY <1>2 DEF Types
      <4> QED
        BY ONLY <2>1, <4>1
    <3> QED
      BY ONLY <1>4, <1>7, <3>1, <3>2
  <2> QED
    BY ONLY <1>1, <2>1 DEF Links
<1>12. HeadBehindTail'
  <2>1. Pos(head) \in Nat /\ Lap(head) \in Nat
    BY ONLY <1>2, IndexFacts
  <2> QED
    BY ONLY <1>1, <1>3, <1>4, <1>6, <1>7, <2>1 DEF HeadBehindTail
<1>13. HeadBlock' /\ TailBlock'
  BY ONLY <1>1, <1>3, <1>4, <1>7 DEF HeadBlock, TailBlock, Null
<1>14. Keeps(t)' /\ ~ Reading(t)'
  <2>1. WriterHolds(t)'
    BY ONLY <1>1, <1>4, <1>6, <1>7, <1>9 DEF WriterHolds, Writing
  <2> QED
    BY <1>9, <2>1, WhereItIs
<1>15. ASSUME NEW u \in Threads, u # t PROVE Moves(u)
  <2>1. pc[u] \notin {"push_next", "push_tail"}
    BY <1>1, <1>15, OneInstaller
  <2> QED
    BY ONLY <1>1, <1>2, <1>7, <2>1 DEF Moves
<1>16. OwnTickets(t)
  <2>1. Writing(t) /\ OneTicketEach
    BY <1>1 DEF Writing, TicketInv
  <2> QED
    BY ONLY <1>9, <1>14, <2>1, t \in Threads DEF OwnTickets, OneTicketEach
<1> QED
  BY <1>9, <1>10, <1>11, <1>12, <1>13, <1>14, <1>15, <1>16, StepKeeps

\* The drop frees what is left.
LEMMA DropKeeps ==
    ASSUME TicketInv, Drop
    PROVE  TicketInv'
<1> DEFINE walked == {Chain[k] : k \in DOMAIN Chain} \ {Null}
<1>1. /\ \A t \in Threads : pc[t] = "idle"
      /\ heap' = [b \in DOMAIN heap |-> IF b \in walked THEN FreedBlock ELSE heap[b]]
      /\ gone' = TRUE
      /\ UNCHANGED <<tail, tail_block, head, head_block, pc, loc, script, truth>>
  BY DEF Drop, positions, history
<1>2. Types /\ HeadBehindTail /\ TailBlock /\ HeadBlock /\ heap \in Seq(Block)
  BY DEF TicketInv, Types
<1> HIDE DEF walked
<1>3. FreedBlock \in Block /\ FreedBlock.next = Null
  BY DEF FreedBlock, NewBlock, Block, Null
<1>4. heap' \in Seq(Block) /\ Len(heap') = Len(heap) /\ DOMAIN heap' = DOMAIN heap
  <2>1. heap \in [1 .. Len(heap) -> Block] /\ Len(heap) \in Nat /\ DOMAIN heap = 1 .. Len(heap)
    BY ONLY <1>2
  <2>2. heap' \in [1 .. Len(heap) -> Block]
    BY ONLY <1>1, <1>3, <2>1
  <2> QED
    BY ONLY <2>1, <2>2, SeqDef, LenProperties
<1>5. Links'
  <2>1. \A b \in DOMAIN heap : heap'[b].next \in {heap[b].next, Null}
    BY ONLY <1>1, <1>3
  <2> QED
    BY <1>1, <1>4, <2>1, LinksKept
<1>6. Types' /\ HeadBehindTail' /\ TailBlock' /\ HeadBlock'
  BY ONLY <1>1, <1>2, <1>4 DEF Types, HeadBehindTail, TailBlock, HeadBlock
<1>7. ASSUME NEW t \in Threads
      PROVE  pc'[t] = "idle" /\ Keeps(t)' /\ ~ Writing(t)' /\ ~ Reading(t)'
  <2>1. pc'[t] = "idle"
    BY <1>1
  <2> QED
    BY <2>1, WhereItIs DEF Quiet
<1>8. OneTicketEach'
  BY ONLY <1>7 DEF OneTicketEach
<1> QED
  BY ONLY <1>5, <1>6, <1>7, <1>8 DEF TicketInv, Keeps

\* The invariant holds at first.
LEMMA InitTicketInv == Init => TicketInv
<1>1. SUFFICES ASSUME Init PROVE TicketInv
  OBVIOUS
<1>2. /\ tail = 0 /\ head = 0 /\ tail_block = 0 /\ head_block = 0 /\ heap = <<>>
      /\ pc = [t \in Threads |-> "idle"] /\ loc = [t \in Threads |-> NoLocals]
      /\ script \in [Threads -> Seq(Calls)] /\ gone = FALSE
      /\ truth = [t \in Threads |-> 0]
  BY <1>1, ScriptsAssumption DEF Init, Null
<1>3. heap \in Seq(Block) /\ Len(heap) = 0 /\ DOMAIN heap = {}
  BY ONLY <1>2
<1>4. Types
  BY ONLY <1>2, <1>3, NoLocalsType DEF Types
<1>5. HeadBehindTail /\ TailBlock /\ HeadBlock /\ Links
  BY ONLY <1>2, <1>3, Zero DEF HeadBehindTail, TailBlock, HeadBlock, Links, Null
<1>6. \A t \in Threads : pc[t] = "idle"
  BY ONLY <1>2
<1>7. OneTicketEach /\ \A t \in Threads : Keeps(t)
  BY ONLY <1>6 DEF OneTicketEach, Keeps, PushSaw, WriterHolds, Writing, PopSaw, ReaderHolds,
     Reading, Moving, AskerSaw
<1> QED
  BY ONLY <1>2, <1>4, <1>5, <1>7 DEF TicketInv, Keeps

\* Every step keeps the invariant.
LEMMA NextTicketInv == TicketInv /\ [Next]_vars => TicketInv'
<1>1. SUFFICES ASSUME TicketInv, [Next]_vars PROVE TicketInv'
  OBVIOUS
<1>2. CASE UNCHANGED vars
  <2>1. UNCHANGED <<tail, tail_block, head, head_block, heap, pc, loc, script, gone, truth>>
    BY <1>2 DEF vars, positions, others, history
  <2> QED
    BY ONLY <1>1, <2>1 DEF TicketInv, Types, HeadBehindTail, TailBlock, HeadBlock, Links,
       OneTicketEach, PushSaw, WriterHolds, Writing, PopSaw, ReaderHolds, Reading, Moving, AskerSaw
<1>3. CASE Drop
  BY <1>1, <1>3, DropKeeps
<1>4. ASSUME NEW t \in Threads, Call(t) \/ FailSpuriously(t) PROVE TicketInv'
  BY <1>1, <1>4, CallKeeps, FailSpuriouslyKeeps
<1>5. ASSUME NEW t \in Threads, Step(t) PROVE TicketInv'
  <2>1. CASE LoadTail(t) \/ LoadTailBlock(t) \/ InstallFirst(t) \/ PublishFirst(t)
    BY <1>1, <2>1, LoadTailKeeps, LoadTailBlockKeeps, InstallFirstKeeps, PublishFirstKeeps
  <2>2. CASE TakeTailTicket(t) \/ LoseTailTicket(t) \/ InstallNext(t) \/ SkipBoundary(t)
    BY <1>1, <2>2, TakeTailTicketKeeps, LoseTailTicketKeeps, InstallNextKeeps, SkipBoundaryKeeps
  <2>3. CASE LinkNext(t) \/ WriteValue(t) \/ MarkWritten(t)
    BY <1>1, <2>3, LinkNextKeeps, WriteValueKeeps, MarkWrittenKeeps
  <2>4. CASE LoadHead(t) \/ LoadHeadBlock(t) \/ LookAtTail(t) \/ TakeHeadTicket(t) \/ LoseHeadTicket(t)
    BY <1>1, <2>4, LoadHeadKeeps, LoadHeadBlockKeeps, LookAtTailKeeps, TakeHeadTicketKeeps
  <2>5. CASE WaitNext(t) \/ PeekNext(t) \/ MoveHeadBlock(t) \/ MoveHead(t)
    BY <1>1, <2>5, WaitNextKeeps, PeekNextKeeps, MoveHeadBlockKeeps, MoveHeadKeeps
  <2>6. CASE ReadValue(t) \/ MarkRead(t) \/ Destroy(t) \/ MarkDestroy(t)
    BY <1>1, <2>6, ReadValueKeeps, MarkReadKeeps, DestroyKeeps, MarkDestroyKeeps
  <2>7. CASE EmptyHead(t) \/ EmptyTail(t) \/ LenTail(t) \/ LenHead(t) \/ LenCheck(t)
    BY <1>1, <2>7, EmptyHeadKeeps, EmptyTailKeeps, LenTailKeeps, LenHeadKeeps, LenCheckKeeps
  <2> QED
    BY <1>5, <2>1, <2>2, <2>3, <2>4, <2>5, <2>6, <2>7 DEF Step
<1> QED
  BY <1>1, <1>2, <1>3, <1>4, <1>5 DEF Next

\* The tickets are handed out as the invariant says, whatever the threads call.
THEOREM TicketsInvariant == Spec => []TicketInv
BY InitTicketInv, NextTicketInv, PTL DEF Spec

-----------------------------------------------------------------------------
(* What follows *)

(* Head never passes tail, and a pop that finds HAS_NEXT may take a ticket *)
(* without a look at the tail: for blocks of any size, any threads.        *)
THEOREM HeadStaysBehind == Spec => []HeadBehindTail
<1>1. TicketInv => HeadBehindTail
  BY DEF TicketInv
<1> QED
  BY <1>1, TicketsInvariant, PTL

\* A step moves one thread on, the others stay where they are.
LEMMA OthersStay ==
    ASSUME TicketInv, NEW t \in Threads, Call(t) \/ Step(t) \/ FailSpuriously(t),
           NEW u \in Threads, u # t
    PROVE  pc'[u] = pc[u] /\ loc'[u] = loc[u]
<1>1. /\ pc \in [Threads -> {"idle"} \cup Pushing \cup Popping \cup Asking]
      /\ loc \in [Threads -> Locals] /\ u \in Threads /\ u # t
  BY Own
<1>2. CASE Call(t) \/ FailSpuriously(t)
  BY ONLY <1>1, <1>2 DEF Call, CallPush, CallPop, CallIsEmpty, CallLen, Begin, FailSpuriously, Goto
<1>3. CASE \/ LoadTail(t) \/ LoadTailBlock(t) \/ InstallFirst(t) \/ PublishFirst(t)
           \/ TakeTailTicket(t) \/ LoseTailTicket(t)
  BY ONLY <1>1, <1>3 DEF LoadTail, LoadTailBlock, InstallFirst, PublishFirst, TakeTailTicket,
     LoseTailTicket, Goto
<1>4. CASE InstallNext(t) \/ SkipBoundary(t) \/ LinkNext(t) \/ WriteValue(t) \/ MarkWritten(t)
  BY ONLY <1>1, <1>4 DEF InstallNext, SkipBoundary, LinkNext, WriteValue, MarkWritten, Return, Goto
<1>5. CASE LoadHead(t) \/ LoadHeadBlock(t) \/ LookAtTail(t) \/ TakeHeadTicket(t) \/ LoseHeadTicket(t)
  BY ONLY <1>1, <1>5 DEF LoadHead, LoadHeadBlock, LookAtTail, TakeHeadTicket, LoseHeadTicket,
     Again, Return, Goto
<1>6. CASE WaitNext(t) \/ PeekNext(t) \/ MoveHeadBlock(t) \/ MoveHead(t) \/ ReadValue(t)
  BY ONLY <1>1, <1>6 DEF WaitNext, PeekNext, MoveHeadBlock, MoveHead, ReadValue, Goto
<1>7. CASE MarkRead(t) \/ Destroy(t) \/ MarkDestroy(t)
  BY ONLY <1>1, <1>7 DEF MarkRead, Destroy, MarkDestroy, Return, Goto
<1>8. CASE EmptyHead(t) \/ EmptyTail(t) \/ LenTail(t) \/ LenHead(t) \/ LenCheck(t)
  BY ONLY <1>1, <1>8 DEF EmptyHead, EmptyTail, LenTail, LenHead, LenCheck, Return, Goto
<1> QED
  BY <1>2, <1>3, <1>4, <1>5, <1>6, <1>7, <1>8 DEF Step

\* A thread whose place changes has moved, and nobody else.
LEMMA OneMoves ==
    ASSUME TicketInv, Next, NEW t \in Threads, pc'[t] # pc[t]
    PROVE  Call(t) \/ Step(t) \/ FailSpuriously(t)
<1>1. ~ Drop
  BY DEF Drop
<1>2. PICK u \in Threads : Call(u) \/ Step(u) \/ FailSpuriously(u)
  BY <1>1 DEF Next
<1>3. u = t
  BY <1>2, OthersStay
<1> QED
  BY <1>2, <1>3

\* The steps out of the three places where is_empty, len and pop answer.
LEMMA Answers ==
    ASSUME TicketInv, Next, NEW t \in Threads, pc'[t] # pc[t]
    PROVE  /\ pc[t] = "pop_tail" => LookAtTail(t)
           /\ pc[t] = "len_check" => LenCheck(t)
<1>1. Call(t) \/ Step(t) \/ FailSpuriously(t)
  BY OneMoves
<1>2. CASE Call(t) \/ FailSpuriously(t)
  BY ONLY <1>2 DEF Call, CallPush, CallPop, CallIsEmpty, CallLen, Begin, FailSpuriously
<1>3. CASE \/ LoadTail(t) \/ LoadTailBlock(t) \/ InstallFirst(t) \/ PublishFirst(t)
           \/ TakeTailTicket(t) \/ LoseTailTicket(t) \/ InstallNext(t) \/ SkipBoundary(t)
           \/ LinkNext(t) \/ WriteValue(t) \/ MarkWritten(t)
  BY ONLY <1>3 DEF LoadTail, LoadTailBlock, InstallFirst, PublishFirst, TakeTailTicket,
     LoseTailTicket, InstallNext, SkipBoundary, LinkNext, WriteValue, MarkWritten
<1>4. CASE \/ LoadHead(t) \/ LoadHeadBlock(t) \/ LookAtTail(t) \/ TakeHeadTicket(t)
           \/ LoseHeadTicket(t) \/ WaitNext(t) \/ PeekNext(t) \/ MoveHeadBlock(t) \/ MoveHead(t)
  <2>1. CASE LookAtTail(t)
    <3>1. pc[t] = "pop_tail"
      BY ONLY <2>1 DEF LookAtTail
    <3> QED
      BY ONLY <2>1, <3>1
  <2>2. CASE ~ LookAtTail(t)
    BY ONLY <1>4, <2>2 DEF LoadHead, LoadHeadBlock, TakeHeadTicket, LoseHeadTicket,
       WaitNext, PeekNext, MoveHeadBlock, MoveHead
  <2> QED
    BY <2>1, <2>2
<1>5. CASE \/ ReadValue(t) \/ MarkRead(t) \/ Destroy(t) \/ MarkDestroy(t)
           \/ EmptyHead(t) \/ EmptyTail(t) \/ LenTail(t) \/ LenHead(t) \/ LenCheck(t)
  <2>1. CASE LenCheck(t)
    <3>1. pc[t] = "len_check"
      BY ONLY <2>1 DEF LenCheck
    <3> QED
      BY ONLY <2>1, <3>1
  <2>2. CASE ~ LenCheck(t)
    BY ONLY <1>5, <2>2 DEF ReadValue, MarkRead, Destroy, MarkDestroy, EmptyHead, EmptyTail,
       LenTail, LenHead
  <2> QED
    BY <2>1, <2>2
<1> QED
  BY ONLY <1>1, <1>2, <1>3, <1>4, <1>5 DEF Step

\* A position between head's and tail's that is tail's is head's as well.
LEMMA EmptyMoment ==
    ASSUME TicketInv, NEW index \in Nat, index <= head, Pos(index) = Pos(tail)
    PROVE  Length = 0
<1>1. tail \in Nat /\ head \in Nat /\ Pos(head) <= Pos(tail)
  BY DEF TicketInv, Types, HeadBehindTail
<1>2. Pos(index) <= Pos(head) /\ Pos(head) \in Nat /\ Pos(tail) \in Nat
  BY <1>1, OrderFacts, IndexFacts
<1>3. Pos(head) = Pos(tail)
  BY ONLY <1>1, <1>2, Pos(index) = Pos(tail)
<1>4. Lap(head) = Lap(tail) /\ Lap(head) \in Nat
  BY <1>1, <1>3, OrderFacts, IndexFacts
<1> QED
  BY ONLY <1>2, <1>3, <1>4 DEF Length, SlotsBelow

(* When pop returns None and when is_empty returns true the queue is empty *)
(* at that moment, however long ago head was read.                         *)
THEOREM EmptyAnswersAreTrue == Spec => EmptyIsTrue
<1>1. ASSUME TicketInv, [Next]_vars
      PROVE  [\A t \in Threads :
                \/ pc[t] = "pop_tail" /\ pc'[t] = "idle"
                \/ pc[t] = "empty_tail" /\ pc'[t] = "idle" /\ IsEmptyAnswer(t)
                => Length = 0]_vars
  <2>1. SUFFICES ASSUME Next, NEW t \in Threads,
                        \/ pc[t] = "pop_tail" /\ pc'[t] = "idle"
                        \/ pc[t] = "empty_tail" /\ pc'[t] = "idle" /\ IsEmptyAnswer(t)
                 PROVE  Length = 0
    BY <1>1
  <2>2. loc[t].index \in Nat /\ Keeps(t)
    BY <1>1, Own
  <2>3. CASE pc[t] = "pop_tail" /\ pc'[t] = "idle"
    <3>1. LookAtTail(t)
      BY <1>1, <2>1, <2>3, Answers
    <3>2. pc \in [Threads -> {"idle"} \cup Pushing \cup Popping \cup Asking]
      BY <1>1, Own
    <3>3. Pos(loc[t].index) = Pos(tail)
      BY ONLY <2>3, <3>1, <3>2 DEF LookAtTail, Again, Goto
    <3>4. loc[t].index <= head
      BY <2>2, <2>3 DEF Keeps, PopSaw
    <3> QED
      BY <1>1, <2>2, <3>3, <3>4, EmptyMoment
  <2>4. CASE pc[t] = "empty_tail" /\ IsEmptyAnswer(t)
    <3>1. loc[t].index <= head
      BY <2>2, <2>4 DEF Keeps, AskerSaw
    <3> QED
      BY <1>1, <2>2, <2>4, <3>1, EmptyMoment DEF IsEmptyAnswer
  <2> QED
    BY <2>1, <2>3, <2>4
<1> QED
  BY <1>1, TicketsInvariant, PTL DEF Spec, EmptyIsTrue

\* A whole number of laps less.
LEMMA DivShift ==
    ASSUME NEW x \in Nat, NEW a \in Nat
    PROVE  (x - a * LAP) \div LAP = (x \div LAP) - a
<1> DEFINE y == x - a * LAP
           q == x \div LAP
           r == x % LAP
           p == y \div LAP
           s == y % LAP
<1>1. LAP \in Nat \ {0}
  BY Laps
<1>2. q \in Nat /\ r \in 0 .. LAP - 1 /\ x = LAP * q + r
  BY <1>1, DivMod
<1>3. y \in Int
  BY <1>1
<1>4. p \in Int /\ s \in 0 .. LAP - 1 /\ y = LAP * p + s
  <2> HIDE DEF y
  <2> QED
    BY ONLY <1>1, <1>3, SMT
<1>5. LAP * (p - (q - a)) = r - s
  <2> HIDE DEF q, r, p, s
  <2>1. x - a * LAP = LAP * p + s
    BY ONLY <1>4
  <2> QED
    BY ONLY <1>1, <1>2, <1>4, <2>1, x \in Nat, a \in Nat, SMT
<1> DEFINE d == p - (q - a)
<1>6. d \in Int
  BY ONLY <1>2, <1>4, a \in Nat
<1> HIDE DEF y, q, r, p, s, d
<1>7. LAP * d = r - s
  BY ONLY <1>5 DEF d
<1>8. ASSUME d >= 1 PROVE FALSE
  <2>1. LAP * d >= LAP
    BY ONLY <1>1, <1>6, <1>8, SMT
  <2> QED
    BY ONLY <1>1, <1>2, <1>4, <1>7, <2>1
<1>9. ASSUME d <= -1 PROVE FALSE
  <2>1. LAP * d <= -LAP
    BY ONLY <1>1, <1>6, <1>9, SMT
  <2> QED
    BY ONLY <1>1, <1>2, <1>4, <1>7, <2>1
<1>10. d = 0
  BY ONLY <1>6, <1>8, <1>9
<1>11. p = q - a
  BY ONLY <1>2, <1>4, <1>10, a \in Nat DEF d
<1> QED
  BY ONLY <1>11 DEF p, q, y

\* On the boundary as many slots are below as on the position behind it.
LEMMA SettleFacts ==
    ASSUME NEW p \in Nat
    PROVE  Settle(p) \in Nat /\ Settle(p) - (Settle(p) \div LAP) = p - (p \div LAP)
<1>1. LAP \in Nat \ {0} /\ LAP >= 2
  BY Laps
<1>2. p \div LAP \in Nat /\ p % LAP \in 0 .. LAP - 1 /\ p = LAP * (p \div LAP) + (p % LAP)
  BY <1>1, DivMod
<1>3. CASE p % LAP # LAP - 1
  <2>1. Settle(p) = p
    BY <1>3 DEF Settle
  <2> QED
    BY <2>1
<1>4. CASE p % LAP = LAP - 1
  <2>1. Settle(p) = p + 1
    BY <1>4 DEF Settle
  <2> DEFINE q == p \div LAP
             n == (p + 1) \div LAP
             r == (p + 1) % LAP
  <2>2. n \in Nat /\ r \in 0 .. LAP - 1 /\ p + 1 = LAP * n + r
    <3>1. p + 1 \in Nat
      OBVIOUS
    <3> QED
      BY ONLY <1>1, <3>1, DivMod
  <2>3. p + 1 = LAP * (q + 1) + 0 /\ q + 1 \in Nat
    <3>1. p = LAP * q + (LAP - 1) /\ q \in Nat
      BY <1>2, <1>4
    <3> HIDE DEF q
    <3> QED
      BY ONLY <1>1, <3>1, SMT
  <2> HIDE DEF n, r
  <2>4. LAP * n + r <= LAP * (q + 1) + 0 /\ LAP * (q + 1) + 0 <= LAP * n + r
    BY ONLY <2>2, <2>3, p \in Nat
  <2>5. 0 \in 0 .. LAP - 1
    BY <1>1
  <2>6. n = q + 1
    BY ONLY <1>1, <2>2, <2>3, <2>4, <2>5, DivUnique
  <2> QED
    BY ONLY <1>2, <2>1, <2>6, p \in Nat DEF n
<1> QED
  BY <1>3, <1>4

\* What len computes is the difference of the slots below its two indices.
LEMMA LenArithmetic ==
    ASSUME NEW t \in Threads, loc[t].index \in Nat, loc[t].other \in Nat
    PROVE  LenAnswer(t) = SlotsBelow(loc[t].index) - SlotsBelow(loc[t].other)
<1> DEFINE p == Pos(loc[t].index)
           o == Pos(loc[t].other)
           q == Settle(p)
           h == Settle(o)
           a == h \div LAP
           to == q - a * LAP
<1>1. p \in Nat /\ o \in Nat
  BY IndexFacts
<1>2. q \in Nat /\ h \in Nat /\ q - (q \div LAP) = p - (p \div LAP) /\ h - a = o - (o \div LAP)
  <2> HIDE DEF p, o
  <2> QED
    BY ONLY <1>1, SettleFacts
<1>3. SlotsBelow(loc[t].index) = p - (p \div LAP) /\ SlotsBelow(loc[t].other) = o - (o \div LAP)
  BY DEF SlotsBelow, Lap
<1>4. LenAnswer(t) = to - (h - a * LAP) - (to \div LAP)
  BY DEF LenAnswer
<1> HIDE DEF p, o, q, h
<1>5. a \in Nat /\ q \div LAP \in Nat /\ p \div LAP \in Nat /\ o \div LAP \in Nat
  BY ONLY <1>1, <1>2, DivMod, Laps
<1>6. to \div LAP = (q \div LAP) - a
  <2> HIDE DEF a
  <2> QED
    BY ONLY <1>2, <1>5, DivShift
<1>7. LAP \in Nat /\ a * LAP \in Int
  BY ONLY <1>5, Laps
<1> DEFINE base == a * LAP
           lap == q \div LAP
<1>8. LenAnswer(t) = (q - base) - (h - base) - (lap - a)
  BY ONLY <1>4, <1>6
<1>9. base \in Int /\ lap \in Nat
  BY ONLY <1>5, <1>7
<1> HIDE DEF base, lap, a
<1>10. LenAnswer(t) = (q - lap) - (h - a)
  BY ONLY <1>2, <1>5, <1>8, <1>9
<1> QED
  BY ONLY <1>2, <1>3, <1>10 DEF lap

(* What len returns was the length of the queue at the moment it read      *)
(* head, with head and tail on any slot or boundary.                       *)
THEOREM LenAnswersAreTrue == Spec => LenIsASnapshot
<1>1. ASSUME TicketInv, [Next]_vars
      PROVE  [\A t \in Threads :
                pc[t] = "len_check" /\ pc'[t] = "idle" => LenAnswer(t) = truth[t]]_vars
  <2>1. SUFFICES ASSUME Next, NEW t \in Threads, pc[t] = "len_check", pc'[t] = "idle"
                 PROVE  LenAnswer(t) = truth[t]
    BY <1>1
  <2>2. /\ loc[t].index \in Nat /\ loc[t].other \in Nat /\ Keeps(t)
        /\ pc \in [Threads -> {"idle"} \cup Pushing \cup Popping \cup Asking]
    BY <1>1, Own
  <2>3. LenCheck(t)
    BY <1>1, <2>1, Answers
  <2>4. tail = loc[t].index
    BY ONLY <2>1, <2>2, <2>3 DEF LenCheck, Goto
  <2>5. truth[t] = SlotsBelow(loc[t].index) - SlotsBelow(loc[t].other)
    BY ONLY <2>1, <2>2, <2>4 DEF Keeps, AskerSaw
  <2> QED
    BY <2>2, <2>5, LenArithmetic
<1> QED
  BY <1>1, TicketsInvariant, PTL DEF Spec, LenIsASnapshot

-----------------------------------------------------------------------------
(* Types *)

\* A push carries a value until it returns.
Carrying ==
    /\ order \in Seq(Values)
    /\ \A t \in Threads : pc[t] \in Pushing => loc[t].value \in Values

\* The auxiliary invariant looks at one thread at a time.
LEMMA CarryOn ==
    ASSUME TicketInv, Carrying, NEW t \in Threads, Call(t) \/ Step(t) \/ FailSpuriously(t),
           order' \in Seq(Values),
           pc'[t] \in Pushing => loc'[t].value \in Values
    PROVE  Carrying'
<1>1. \A u \in Threads : u # t => pc'[u] = pc[u] /\ loc'[u] = loc[u]
  BY OthersStay
<1> QED
  BY <1>1 DEF Carrying

\* A push carries a value from its call to its ticket.
LEMMA PushCarries ==
    ASSUME TicketInv, Carrying, NEW t \in Threads,
           \/ LoadTail(t) \/ LoadTailBlock(t) \/ InstallFirst(t) \/ PublishFirst(t)
           \/ TakeTailTicket(t) \/ LoseTailTicket(t) \/ InstallNext(t) \/ SkipBoundary(t)
           \/ LinkNext(t) \/ WriteValue(t) \/ MarkWritten(t)
    PROVE  Carrying'
<1>1. /\ pc \in [Threads -> {"idle"} \cup Pushing \cup Popping \cup Asking]
      /\ loc \in [Threads -> Locals] /\ loc[t] \in Locals
      /\ pc[t] \in Pushing => loc[t].value \in Values
      /\ order \in Seq(Values)
  BY Own DEF Carrying
<1>2. Step(t)
  BY DEF Step
<1>3. CASE MarkWritten(t)
  <2>1. order' = order /\ pc' = [pc EXCEPT ![t] = "idle"]
    BY ONLY <1>3 DEF MarkWritten, Return, Goto, others, history
  <2>2. pc'[t] \notin Pushing
    BY ONLY <1>1, <2>1 DEF Pushing
  <2> QED
    BY <1>1, <1>2, <2>1, <2>2, CarryOn
<1>4. CASE ~ MarkWritten(t)
  <2>1. pc[t] \in Pushing
    BY ONLY <1>4, \/ LoadTail(t) \/ LoadTailBlock(t) \/ InstallFirst(t) \/ PublishFirst(t)
                  \/ TakeTailTicket(t) \/ LoseTailTicket(t) \/ InstallNext(t) \/ SkipBoundary(t)
                  \/ LinkNext(t) \/ WriteValue(t) \/ MarkWritten(t)
       DEF LoadTail, LoadTailBlock, InstallFirst, PublishFirst, TakeTailTicket,
           LoseTailTicket, InstallNext, SkipBoundary, LinkNext, WriteValue, Pushing
  <2>2. order' \in Seq(Values)
    <3>1. CASE TakeTailTicket(t)
      <4>1. order' = Append(order, loc[t].value)
        BY <3>1 DEF TakeTailTicket
      <4> QED
        BY ONLY <1>1, <2>1, <4>1
    <3>2. CASE ~ TakeTailTicket(t)
      <4>1. order' = order
        BY <1>4, <3>2 DEF LoadTail, LoadTailBlock, InstallFirst, PublishFirst,
           LoseTailTicket, InstallNext, SkipBoundary, LinkNext, WriteValue, others, history
      <4> QED
        BY <1>1, <4>1
    <3> QED
      BY <3>1, <3>2
  <2>3. loc'[t].value = loc[t].value
    <3>1. CASE TakeTailTicket(t) \/ PublishFirst(t) \/ SkipBoundary(t) \/ LinkNext(t) \/ WriteValue(t)
      BY <3>1 DEF TakeTailTicket, PublishFirst, SkipBoundary, LinkNext, WriteValue
    <3>2. CASE LoadTail(t) \/ LoseTailTicket(t)
      BY ONLY <1>1, <3>2 DEF LoadTail, LoseTailTicket, Locals
    <3>3. CASE LoadTailBlock(t)
      BY ONLY <1>1, <3>3 DEF LoadTailBlock, Locals
    <3>4. CASE InstallFirst(t)
      BY ONLY <1>1, <3>4 DEF InstallFirst, Locals
    <3>5. CASE InstallNext(t)
      BY ONLY <1>1, <3>5 DEF InstallNext, Locals
    <3> QED
      BY <1>4, <3>1, <3>2, <3>3, <3>4, <3>5
  <2> QED
    BY <1>1, <1>2, <2>1, <2>2, <2>3, CarryOn
<1> QED
  BY <1>3, <1>4

\* The other steps carry nothing on.
LEMMA OthersCarry ==
    ASSUME TicketInv, Carrying, NEW t \in Threads,
           \/ LoadHead(t) \/ LoadHeadBlock(t) \/ LookAtTail(t) \/ TakeHeadTicket(t)
           \/ LoseHeadTicket(t) \/ WaitNext(t) \/ PeekNext(t) \/ MoveHeadBlock(t) \/ MoveHead(t)
           \/ ReadValue(t) \/ MarkRead(t) \/ Destroy(t) \/ MarkDestroy(t)
           \/ EmptyHead(t) \/ EmptyTail(t) \/ LenTail(t) \/ LenHead(t) \/ LenCheck(t)
    PROVE  Carrying'
<1>1. /\ pc \in [Threads -> {"idle"} \cup Pushing \cup Popping \cup Asking]
      /\ order \in Seq(Values)
  BY Own DEF Carrying
<1>2. order' = order /\ pc'[t] \notin Pushing
  <2>1. CASE LoadHead(t) \/ LoadHeadBlock(t) \/ LookAtTail(t)
    BY ONLY <1>1, <2>1 DEF LoadHead, LoadHeadBlock, LookAtTail, Again, Return, Goto, others,
       history, Pushing
  <2>2. CASE TakeHeadTicket(t) \/ LoseHeadTicket(t) \/ WaitNext(t) \/ PeekNext(t)
    BY ONLY <1>1, <2>2 DEF TakeHeadTicket, LoseHeadTicket, WaitNext, PeekNext, Goto, others,
       history, Pushing
  <2>3. CASE MoveHeadBlock(t) \/ MoveHead(t) \/ ReadValue(t) \/ MarkRead(t)
    BY ONLY <1>1, <2>3 DEF MoveHeadBlock, MoveHead, ReadValue, MarkRead, Return, Goto, others,
       history, Pushing
  <2>4. CASE Destroy(t) \/ MarkDestroy(t)
    BY ONLY <1>1, <2>4 DEF Destroy, MarkDestroy, Return, Goto, others, history, Pushing
  <2>5. CASE EmptyHead(t) \/ EmptyTail(t) \/ LenTail(t) \/ LenHead(t) \/ LenCheck(t)
    BY ONLY <1>1, <2>5 DEF EmptyHead, EmptyTail, LenTail, LenHead, LenCheck, Return, Goto, others,
       history, Pushing
  <2> QED
    BY <2>1, <2>2, <2>3, <2>4, <2>5
<1>3. Step(t)
  BY DEF Step
<1> QED
  BY <1>1, <1>2, <1>3, CarryOn

\* Every step keeps the auxiliary invariant.
LEMMA NextCarrying == TicketInv /\ Carrying /\ [Next]_vars => Carrying'
<1>1. SUFFICES ASSUME TicketInv, Carrying, [Next]_vars PROVE Carrying'
  OBVIOUS
<1>2. CASE Drop \/ UNCHANGED vars
  BY ONLY <1>1, <1>2 DEF Drop, vars, others, history, Carrying
<1>3. ASSUME NEW t \in Threads, Call(t) \/ FailSpuriously(t) PROVE Carrying'
  <2>1. /\ pc \in [Threads -> {"idle"} \cup Pushing \cup Popping \cup Asking]
        /\ loc \in [Threads -> Locals] /\ loc[t] \in Locals /\ order \in Seq(Values)
        /\ script[t] \in Seq(Calls) /\ (pc[t] \in Pushing => loc[t].value \in Values)
    BY <1>1, Own DEF Carrying, Types
  <2>2. order' = order
    BY <1>3 DEF Call, CallPush, CallPop, CallIsEmpty, CallLen, FailSpuriously, others, history
  <2>3. CASE CallPush(t)
    <3>1. /\ loc' = [loc EXCEPT ![t].value = Head(script[t]).value]
          /\ script[t] # <<>> /\ Head(script[t]).op = "push"
      BY ONLY <2>3 DEF CallPush, Begin
    <3>2. Head(script[t]) \in Calls
      BY ONLY <2>1, <3>1
    <3>3. Head(script[t]).value \in Values
      BY ONLY <3>1, <3>2 DEF Calls
    <3>4. loc'[t].value \in Values
      BY ONLY <1>3, <2>1, <3>1, <3>3 DEF Locals
    <3> QED
      BY <1>1, <1>3, <2>1, <2>2, <3>4, CarryOn
  <2>4. CASE CallPop(t) \/ CallIsEmpty(t) \/ CallLen(t) \/ FailSpuriously(t)
    <3>1. pc'[t] \in Pushing => pc[t] \in Pushing /\ loc' = loc
      BY ONLY <1>3, <2>1, <2>4 DEF CallPop, CallIsEmpty, CallLen, Begin, FailSpuriously, Goto, Pushing
    <3> QED
      BY <1>1, <1>3, <2>1, <2>2, <3>1, CarryOn
  <2> QED
    BY <1>3, <2>3, <2>4 DEF Call
<1>4. ASSUME NEW t \in Threads, Step(t) PROVE Carrying'
  BY <1>1, <1>4, PushCarries, OthersCarry DEF Step
<1> QED
  BY <1>1, <1>2, <1>3, <1>4 DEF Next

\* The variables have their types; in particular the locals stay within a block.
THEOREM TypeCorrect == Spec => []TypeOK
<1>1. Init => Carrying
  <2>1. SUFFICES ASSUME Init PROVE Carrying
    OBVIOUS
  <2>2. order = <<>> /\ pc = [t \in Threads |-> "idle"]
    BY <2>1 DEF Init
  <2>3. \A t \in Threads : pc[t] \notin Pushing
    BY ONLY <2>2 DEF Pushing
  <2> QED
    BY ONLY <2>2, <2>3 DEF Carrying
<1>2. TicketInv /\ Carrying => TypeOK
  BY DEF TicketInv, Types, Carrying, TypeOK, Block, Locals
<1> QED
  BY <1>1, <1>2, NextCarrying, TicketsInvariant, PTL DEF Spec

-----------------------------------------------------------------------------
(* The inductive invariant: who may still touch a block *)

State(b, i) == heap[b].state[i]
Last == BLOCK_CAP - 1

\* The ticket for slot i of block b has been given out when the index stands where it does.
Passed(index, b, i) == b <= Lap(index) \/ (b = Lap(index) + 1 /\ i < Slot0(index))

Destroying(t) == pc[t] \in {"destroy", "mark"}

\* Slot i has been marked for its reader to go on with the destruction.
HandedOver(b, i) == "DESTROY" \in State(b, i) /\ "READ" \notin State(b, i)

\* The value of the last slot has been read.
Begun(b) ==
    /\ b <= Lap(head) /\ "WRITE" \in State(b, Last)
    /\ \A t \in Threads : Reading(t) /\ loc[t].block = b => ~ LastSlot(loc[t].index)

\* The bits of a slot tell what has happened to it.
SlotBits ==
    \A b \in DOMAIN heap : \A i \in Slots :
        /\ "WRITE" \in State(b, i) => Passed(tail, b, i)
        /\ "READ" \in State(b, i) => Passed(head, b, i) /\ "WRITE" \in State(b, i)
        /\ "DESTROY" \in State(b, i) => i < Last /\ Begun(b)
        /\ HandedOver(b, i) => \A j \in 0 .. i - 1 : "READ" \in State(b, j)

\* Freed blocks are behind the head, and nobody holds one.
FreedBehind == \A b \in DOMAIN heap : heap[b].freed => b <= Lap(head)

Holding(t) ==
    /\ Writing(t) =>
        Live(loc[t].block) /\ "WRITE" \notin State(loc[t].block, Slot0(loc[t].index))
    /\ Reading(t) =>
        Live(loc[t].block) /\ "READ" \notin State(loc[t].block, Slot0(loc[t].index))
    /\ pc[t] = "pop_read" => "WRITE" \in State(loc[t].block, Slot0(loc[t].index))
    /\ Destroying(t) =>
        /\ Live(loc[t].block) /\ Begun(loc[t].block)
        /\ \A j \in 0 .. loc[t].cursor - 1 : "READ" \in State(loc[t].block, j)
        /\ \A i \in Slots : ~ HandedOver(loc[t].block, i)
        /\ \A u \in Threads : u # t /\ Destroying(u) => loc[u].block # loc[t].block

BlockInv ==
    TicketInv /\ (~ gone => SlotBits /\ FreedBehind /\ \A t \in Threads : Holding(t))

-----------------------------------------------------------------------------
(* Tickets and slots *)

\* What has been passed stays passed.
LEMMA PassedFacts ==
    ASSUME NEW m \in Nat, NEW n \in Nat, NEW b \in Nat, NEW i \in Slots
    PROVE  /\ Pos(m) <= Pos(n) /\ Passed(m, b, i) => Passed(n, b, i)
           /\ ~ Boundary(m) /\ b = Lap(m) + 1 /\ i = Slot0(m) =>
                ~ Passed(m, b, i) /\ (Pos(m) < Pos(n) => Passed(n, b, i))
           /\ Passed(m, b, i) => b <= Lap(m) + 1
<1>1. /\ Pos(m) \in Nat /\ Lap(m) \in Nat /\ Slot0(m) \in 0 .. LAP - 1
      /\ Pos(m) = LAP * Lap(m) + Slot0(m)
      /\ Pos(n) \in Nat /\ Lap(n) \in Nat /\ Slot0(n) \in 0 .. LAP - 1
      /\ Pos(n) = LAP * Lap(n) + Slot0(n)
      /\ Pos(m) <= Pos(n) => Lap(m) <= Lap(n)
  BY IndexFacts, OrderFacts
<1> DEFINE here == LAP * Lap(m)
           there == LAP * Lap(n)
<1>2. /\ Pos(m) = here + Slot0(m) /\ Pos(n) = there + Slot0(n)
      /\ Lap(m) = Lap(n) => here = there
  BY <1>1
<1>3. here \in Int /\ there \in Int
  <2>1. \A k \in Nat : LAP * k \in Int
    BY Laps
  <2> QED
    BY ONLY <1>1, <2>1, Zenon
<1>4. /\ Pos(m) \in Nat /\ Lap(m) \in Nat /\ Slot0(m) \in 0 .. LAP - 1
      /\ Pos(n) \in Nat /\ Lap(n) \in Nat /\ Slot0(n) \in 0 .. LAP - 1
      /\ Pos(m) <= Pos(n) => Lap(m) <= Lap(n)
      /\ i \in Int /\ LAP \in Nat
  BY ONLY <1>1, Laps, i \in Slots
<1> HIDE DEF here, there
<1>5. Lap(m) = Lap(n) => Pos(n) - Pos(m) = Slot0(n) - Slot0(m)
  BY ONLY <1>2, <1>3, <1>4
<1>6. Pos(m) <= Pos(n) /\ Passed(m, b, i) => Passed(n, b, i)
  BY ONLY <1>4, <1>5, b \in Nat DEF Passed
<1>7. b = Lap(m) + 1 /\ i = Slot0(m) =>
        ~ Passed(m, b, i) /\ (Pos(m) < Pos(n) => Passed(n, b, i))
  BY ONLY <1>4, <1>5, b \in Nat DEF Passed
<1>8. Passed(m, b, i) => b <= Lap(m) + 1
  BY ONLY <1>4, b \in Nat DEF Passed
<1> QED
  BY ONLY <1>6, <1>7, <1>8

\* The slot of a ticket.
LEMMA TicketSlot ==
    ASSUME NEW n \in Nat, ~ Boundary(n)
    PROVE  Slot0(n) \in Slots /\ (LastSlot(n) <=> Slot0(n) = Last) /\ Last \in Slots
<1>1. /\ Slot0(n) \in 0 .. LAP - 1
      /\ Boundary(n) <=> Slot0(n) = LAP - 1
      /\ LastSlot(n) <=> Slot0(n) = LAP - 2
  BY IndexFacts
<1>2. Last = LAP - 2
  BY Laps DEF Last
<1> QED
  BY ONLY <1>1, <1>2, Laps, ~ Boundary(n)

\* Two tickets for one slot are one ticket.
LEMMA SameSlot ==
    ASSUME NEW m \in Nat, NEW n \in Nat, Lap(m) = Lap(n), Slot0(m) = Slot0(n)
    PROVE  Pos(m) = Pos(n)
BY IndexFacts

-----------------------------------------------------------------------------
(* The frame of a step *)

\* The queue is there, and neither index goes back.
LEMMA Frame ==
    ASSUME TicketInv, NEW t \in Threads, Call(t) \/ Step(t) \/ FailSpuriously(t)
    PROVE  /\ ~ gone /\ gone' = gone
           /\ Pos(head) <= Pos(head') /\ Pos(tail) <= Pos(tail')
<1>1. /\ gone => pc[t] = "idle"
      /\ tail \in Nat /\ head \in Nat /\ loc[t].index \in Nat /\ loc[t].other \in Nat /\ Keeps(t)
  BY Own
<1>2. Pos(tail) \in Nat /\ Pos(head) \in Nat
  BY ONLY <1>1, IndexFacts
<1>3. CASE Call(t) \/ FailSpuriously(t)
  <2>1. ~ gone /\ gone' = gone /\ UNCHANGED positions
    BY ONLY <1>1, <1>3 DEF Call, CallPush, CallPop, CallIsEmpty, CallLen, Begin, FailSpuriously, others
  <2> QED
    BY ONLY <1>2, <2>1 DEF positions
<1>4. CASE \/ LoadTail(t) \/ LoadTailBlock(t) \/ LoseTailTicket(t)
           \/ LinkNext(t) \/ WriteValue(t) \/ MarkWritten(t)
           \/ LoadHead(t) \/ LoadHeadBlock(t) \/ LookAtTail(t) \/ LoseHeadTicket(t)
  <2>1. ~ gone /\ gone' = gone /\ UNCHANGED positions
    BY ONLY <1>1, <1>4 DEF LoadTail, LoadTailBlock, LoseTailTicket, LinkNext, WriteValue,
       MarkWritten, LoadHead, LoadHeadBlock, LookAtTail, LoseHeadTicket, others
  <2> QED
    BY ONLY <1>2, <2>1 DEF positions
<1>5. CASE \/ WaitNext(t) \/ PeekNext(t) \/ ReadValue(t) \/ MarkRead(t) \/ Destroy(t) \/ MarkDestroy(t)
           \/ EmptyHead(t) \/ EmptyTail(t) \/ LenTail(t) \/ LenHead(t) \/ LenCheck(t)
  <2>1. ~ gone /\ gone' = gone /\ UNCHANGED positions
    BY ONLY <1>1, <1>5 DEF WaitNext, PeekNext, ReadValue, MarkRead, Destroy, MarkDestroy,
       EmptyHead, EmptyTail, LenTail, LenHead, LenCheck, others
  <2> QED
    BY ONLY <1>2, <2>1 DEF positions
<1>6. CASE InstallFirst(t) \/ PublishFirst(t) \/ InstallNext(t) \/ MoveHeadBlock(t)
  <2>1. ~ gone /\ gone' = gone /\ tail' = tail /\ head' = head
    BY ONLY <1>1, <1>6 DEF InstallFirst, PublishFirst, InstallNext, MoveHeadBlock, others
  <2> QED
    BY ONLY <1>2, <2>1
<1>7. CASE TakeTailTicket(t) \/ SkipBoundary(t)
  <2>1. ~ gone /\ gone' = gone /\ head' = head
    BY ONLY <1>1, <1>7 DEF TakeTailTicket, SkipBoundary, others
  <2>2. tail' = tail + 2
    <3>1. pc[t] = "push_tail" => tail = loc[t].index + 2
      BY InstallerFacts
    <3> QED
      BY ONLY <1>1, <1>7, <3>1 DEF TakeTailTicket, SkipBoundary
  <2>3. Pos(tail + 2) = Pos(tail) + 1
    BY ONLY <1>1, StepFacts
  <2> QED
    BY ONLY <1>2, <2>1, <2>2, <2>3
<1>8. CASE TakeHeadTicket(t)
  <2>1. ~ gone /\ gone' = gone /\ tail' = tail /\ head' = loc[t].other /\ head = loc[t].index
    BY ONLY <1>1, <1>8 DEF TakeHeadTicket, others
  <2>2. loc[t].other = head + 2 \/ loc[t].other = WithNext(head + 2)
    BY ONLY <1>1, <1>8, <2>1 DEF TakeHeadTicket, Keeps, PopSaw
  <2>3. Pos(head + 2) = Pos(head) + 1
    BY ONLY <1>1, StepFacts
  <2>4. Pos(WithNext(head + 2)) = Pos(head + 2)
    <3>1. head + 2 \in Nat
      BY <1>1
    <3> QED
      BY ONLY <3>1, BitFacts
  <2> QED
    BY ONLY <1>2, <2>1, <2>2, <2>3, <2>4
<1>9. CASE MoveHead(t)
  <2>1. ~ gone /\ gone' = gone /\ tail' = tail /\ head' = loc[t].other
    BY ONLY <1>1, <1>9 DEF MoveHead, others
  <2>2. Pos(loc[t].other) = Pos(head) + 1
    BY ONLY <1>1, <1>9 DEF MoveHead, Keeps, ReaderHolds
  <2> QED
    BY ONLY <1>2, <2>1, <2>2
<1> QED
  BY <1>3, <1>4, <1>5, <1>6, <1>7, <1>8, <1>9 DEF Step

\* The bits of the blocks are as before, a new block has none.
BitsKept ==
    /\ DOMAIN heap \subseteq DOMAIN heap'
    /\ \A b \in DOMAIN heap : heap'[b].state = heap[b].state /\ heap'[b].freed = heap[b].freed
    /\ \A b \in DOMAIN heap' : b \in DOMAIN heap \/ heap'[b] = NewBlock

\* A reader of a last slot that is new reads ahead of what is being destroyed.
ReadsAhead(t) ==
    Reading(t)' =>
        \/ Reading(t) /\ loc'[t].block = loc[t].block /\ loc'[t].index = loc[t].index
        \/ Lap(head') < loc'[t].block

\* Nobody else destroys the block that t destroys.
DestroysAlone(t) ==
    Destroying(t)' => \A u \in Threads : u # t /\ Destroying(u) => loc[u].block # loc'[t].block

\* What can be said of the laps and addresses.
LEMMA Addresses ==
    ASSUME TicketInv
    PROVE  /\ tail \in Nat /\ head \in Nat /\ Lap(tail) \in Nat /\ Lap(head) \in Nat
           /\ Pos(tail) \in Nat /\ Pos(head) \in Nat
           /\ heap \in Seq(Block) /\ \A b \in DOMAIN heap : b \in Nat /\ heap[b] \in Block
           /\ \A t \in Threads : loc[t].index \in Nat /\ loc[t].block \in Nat
<1>1. tail \in Nat /\ head \in Nat /\ heap \in Seq(Block) /\ loc \in [Threads -> Locals]
  BY DEF TicketInv, Types
<1>2. \A b \in DOMAIN heap : b \in Nat /\ heap[b] \in Block
  BY ONLY <1>1
<1>3. \A t \in Threads : loc[t].index \in Nat /\ loc[t].block \in Nat
  BY ONLY <1>1 DEF Locals
<1>4. Lap(tail) \in Nat /\ Lap(head) \in Nat /\ Pos(tail) \in Nat /\ Pos(head) \in Nat
  BY ONLY <1>1, IndexFacts
<1> QED
  BY <1>1, <1>2, <1>3, <1>4

\* A destruction that has begun stays begun: the head does not go back, nobody reads its last slot anew.
LEMMA BegunKept ==
    ASSUME TicketInv, TicketInv', NEW t \in Threads, Pos(head) <= Pos(head'),
           \A u \in Threads : u # t => pc'[u] = pc[u] /\ loc'[u] = loc[u],
           ReadsAhead(t), NEW b \in DOMAIN heap,
           "WRITE" \in heap[b].state[Last] => "WRITE" \in heap'[b].state[Last], Begun(b)
    PROVE  Begun(b)'
<1>1. b \in Nat /\ Lap(head) \in Nat /\ Lap(head') \in Nat /\ head \in Nat /\ head' \in Nat
  <2>1. head \in Nat /\ head' \in Nat /\ b \in Nat
    BY Addresses DEF TicketInv, Types
  <2> QED
    BY ONLY <2>1, IndexFacts
<1>2. Lap(head) <= Lap(head')
  BY ONLY <1>1, OrderFacts, Pos(head) <= Pos(head')
<1>3. b <= Lap(head) /\ "WRITE" \in heap'[b].state[Last]
  BY DEF Begun, State
<1>4. b <= Lap(head')
  BY ONLY <1>1, <1>2, <1>3
<1>5. ASSUME NEW u \in Threads, Reading(u)', loc'[u].block = b PROVE ~ LastSlot(loc'[u].index)
  <2>1. CASE u # t
    <3>1. Reading(u) /\ loc[u] = loc'[u]
      BY <1>5, <2>1 DEF Reading, Moving
    <3> QED
      BY <1>5, <3>1 DEF Begun
  <2>2. CASE u = t
    <3>1. Reading(t) /\ loc'[t].block = loc[t].block /\ loc'[t].index = loc[t].index
      BY <1>1, <1>4, <1>5, <2>2 DEF ReadsAhead
    <3> QED
      BY <1>5, <2>2, <3>1 DEF Begun
  <2> QED
    BY <2>1, <2>2
<1>6. Last' = Last
  BY DEF Last, BLOCK_CAP
<1> QED
  BY ONLY <1>3, <1>4, <1>5 DEF Begun, State

\* Another thread holds what it held.
LEMMA OthersHold ==
    ASSUME BlockInv, TicketInv', NEW t \in Threads, ~ gone, Pos(head) <= Pos(head'),
           \A u \in Threads : u # t => pc'[u] = pc[u] /\ loc'[u] = loc[u],
           BitsKept, ReadsAhead(t), DestroysAlone(t),
           NEW u \in Threads, u # t
    PROVE  Holding(u)'
<1>1. Holding(u) /\ TicketInv /\ pc'[u] = pc[u] /\ loc'[u] = loc[u]
  BY DEF BlockInv
<1> DEFINE b == loc[u].block
<1>2. ASSUME b \in DOMAIN heap
      PROVE  /\ b \in DOMAIN heap' /\ heap'[b].freed = heap[b].freed
             /\ heap'[b].state = heap[b].state
  BY <1>2 DEF BitsKept
<1>3. Writing(u)' => Live(b)' /\ "WRITE" \notin heap'[b].state[Slot0(loc[u].index)]
  <2>1. Writing(u)' <=> Writing(u)
    BY ONLY <1>1 DEF Writing
  <2> QED
    BY <1>1, <1>2, <2>1 DEF Holding, Live, State
<1>4. Reading(u)' => Live(b)' /\ "READ" \notin heap'[b].state[Slot0(loc[u].index)]
  <2>1. Reading(u)' <=> Reading(u)
    BY ONLY <1>1 DEF Reading, Moving
  <2> QED
    BY <1>1, <1>2, <2>1 DEF Holding, Live, State
<1>5. pc'[u] = "pop_read" => "WRITE" \in heap'[b].state[Slot0(loc[u].index)]
  <2>1. pc[u] = "pop_read" => Live(b) /\ "WRITE" \in State(b, Slot0(loc[u].index))
    BY ONLY <1>1 DEF Holding, Reading
  <2> QED
    BY ONLY <1>1, <1>2, <2>1 DEF Live, State
<1>6. ASSUME Destroying(u)'
      PROVE  /\ Live(b)' /\ Begun(b)'
             /\ \A j \in 0 .. loc[u].cursor - 1 : "READ" \in heap'[b].state[j]
             /\ \A i \in Slots : ~ HandedOver(b, i)'
             /\ \A v \in Threads : v # u /\ Destroying(v)' => loc'[v].block # b
  <2>1. Destroying(u)
    BY ONLY <1>1, <1>6 DEF Destroying
  <2>2. /\ Live(b) /\ Begun(b)
        /\ \A j \in 0 .. loc[u].cursor - 1 : "READ" \in State(b, j)
        /\ \A i \in Slots : ~ HandedOver(b, i)
        /\ \A v \in Threads : v # u /\ Destroying(v) => loc[v].block # b
    BY ONLY <1>1, <2>1 DEF Holding
  <2>3. b \in DOMAIN heap /\ heap'[b].state = heap[b].state /\ Live(b)'
    BY ONLY <1>1, <1>2, <2>2 DEF Live
  <2>4. Begun(b)'
    BY <1>1, <2>2, <2>3, BegunKept
  <2>5. /\ \A j \in 0 .. loc[u].cursor - 1 : "READ" \in heap'[b].state[j]
        /\ \A i \in Slots : ~ HandedOver(b, i)'
    BY ONLY <1>1, <2>2, <2>3 DEF State, HandedOver
  <2>6. ASSUME NEW v \in Threads, v # u, Destroying(v)' PROVE loc'[v].block # b
    <3>1. CASE v = t
      BY <1>1, <2>1, <2>6, <3>1 DEF DestroysAlone
    <3>2. CASE v # t
      <4>1. Destroying(v) /\ loc'[v] = loc[v]
        BY <2>6, <3>2 DEF Destroying
      <4> QED
        BY ONLY <2>2, <2>6, <4>1
    <3> QED
      BY <3>1, <3>2
  <2> QED
    BY <2>3, <2>4, <2>5, <2>6
<1> QED
  BY ONLY <1>1, <1>3, <1>4, <1>5, <1>6 DEF Holding, State

\* Bits that stay as they are tell the truth when the indices move on.
LEMMA BitsStayTrue ==
    ASSUME BlockInv, TicketInv', NEW t \in Threads, ~ gone,
           Pos(head) <= Pos(head'), Pos(tail) <= Pos(tail'),
           \A u \in Threads : u # t => pc'[u] = pc[u] /\ loc'[u] = loc[u],
           BitsKept, ReadsAhead(t)
    PROVE  SlotBits' /\ FreedBehind'
<1>1. TicketInv /\ SlotBits /\ FreedBehind
  BY DEF BlockInv
<1>2. /\ tail \in Nat /\ head \in Nat /\ Lap(head) \in Nat
      /\ \A b \in DOMAIN heap : b \in Nat
  BY <1>1, Addresses
<1>3. tail' \in Nat /\ head' \in Nat
  BY DEF TicketInv, Types
<1>4. Lap(head) <= Lap(head') /\ Lap(head') \in Nat
  BY ONLY <1>2, <1>3, IndexFacts, OrderFacts, Pos(head) <= Pos(head')
<1>5. ASSUME NEW b \in DOMAIN heap', NEW i \in Slots
      PROVE  /\ "WRITE" \in heap'[b].state[i] => Passed(tail', b, i)
             /\ "READ" \in heap'[b].state[i] =>
                  Passed(head', b, i) /\ "WRITE" \in heap'[b].state[i]
             /\ "DESTROY" \in heap'[b].state[i] => i < Last /\ Begun(b)'
             /\ "DESTROY" \in heap'[b].state[i] /\ "READ" \notin heap'[b].state[i] =>
                  \A j \in 0 .. i - 1 : "READ" \in heap'[b].state[j]
  <2>1. CASE b \notin DOMAIN heap
    <3>1. heap'[b].state[i] = {}
      BY <1>5, <2>1 DEF BitsKept, NewBlock
    <3> QED
      BY ONLY <3>1
  <2>2. CASE b \in DOMAIN heap
    <3>1. heap'[b].state = heap[b].state
      BY <2>2 DEF BitsKept
    <3>2. /\ "WRITE" \in heap[b].state[i] => Passed(tail, b, i)
          /\ "READ" \in heap[b].state[i] => Passed(head, b, i) /\ "WRITE" \in heap[b].state[i]
          /\ "DESTROY" \in heap[b].state[i] => i < Last /\ Begun(b)
          /\ "DESTROY" \in heap[b].state[i] /\ "READ" \notin heap[b].state[i] =>
               \A j \in 0 .. i - 1 : "READ" \in heap[b].state[j]
      BY ONLY <1>1, <1>5, <2>2 DEF SlotBits, State, HandedOver
    <3>3. b \in Nat
      BY ONLY <1>2, <2>2
    <3>4. Passed(tail, b, i) => Passed(tail', b, i)
      BY ONLY PassedFacts, <1>2, <1>3, <1>5, <3>3, Pos(tail) <= Pos(tail')
    <3>5. Passed(head, b, i) => Passed(head', b, i)
      BY ONLY PassedFacts, <1>2, <1>3, <1>5, <3>3, Pos(head) <= Pos(head')
    <3>6. Begun(b) => Begun(b)'
      BY <1>1, <2>2, <3>1, BegunKept
    <3> QED
      BY ONLY <3>1, <3>2, <3>4, <3>5, <3>6
  <2> QED
    BY <2>1, <2>2
<1>6. ASSUME NEW b \in DOMAIN heap', heap'[b].freed PROVE b <= Lap(head')
  <2>1. b \in DOMAIN heap
    BY <1>6 DEF BitsKept, NewBlock
  <2>2. b <= Lap(head) /\ b \in Nat
    BY <1>1, <1>2, <1>6, <2>1 DEF BitsKept, FreedBehind
  <2> QED
    BY ONLY <1>2, <1>4, <2>2
<1>7. SlotBits'
  BY ONLY <1>5 DEF SlotBits, State, HandedOver, Passed
<1> QED
  BY ONLY <1>6, <1>7 DEF FreedBehind

\* A step that leaves the bits alone.
LEMMA KeptStep ==
    ASSUME BlockInv, TicketInv', NEW t \in Threads, ~ gone,
           Pos(head) <= Pos(head'), Pos(tail) <= Pos(tail'),
           \A u \in Threads : u # t => pc'[u] = pc[u] /\ loc'[u] = loc[u],
           BitsKept, ReadsAhead(t), DestroysAlone(t), Holding(t)'
    PROVE  BlockInv'
<1>1. SlotBits' /\ FreedBehind'
  BY BitsStayTrue
<1>2. \A u \in Threads : u # t => Holding(u)'
  BY OthersHold
<1> QED
  BY <1>1, <1>2 DEF BlockInv

-----------------------------------------------------------------------------
(* Every action keeps it *)

Acts(t) == Call(t) \/ Step(t) \/ FailSpuriously(t)

\* What is known before any step of a thread.
LEMMA Around ==
    ASSUME BlockInv, NEW t \in Threads, Acts(t)
    PROVE  /\ TicketInv /\ TicketInv' /\ ~ gone
           /\ SlotBits /\ FreedBehind /\ \A u \in Threads : Holding(u)
           /\ Pos(head) <= Pos(head') /\ Pos(tail) <= Pos(tail')
           /\ \A u \in Threads : u # t => pc'[u] = pc[u] /\ loc'[u] = loc[u]
           /\ pc \in [Threads -> {"idle"} \cup Pushing \cup Popping \cup Asking]
           /\ loc \in [Threads -> Locals]
<1>1. TicketInv
  BY DEF BlockInv
<1>2. Next
  BY DEF Next, Acts
<1>3. TicketInv'
  BY <1>1, <1>2, NextTicketInv
<1>4. ~ gone /\ Pos(head) <= Pos(head') /\ Pos(tail) <= Pos(tail')
  BY <1>1, Frame DEF Acts
<1>5. \A u \in Threads : u # t => pc'[u] = pc[u] /\ loc'[u] = loc[u]
  BY <1>1, OthersStay DEF Acts
<1>6. /\ pc \in [Threads -> {"idle"} \cup Pushing \cup Popping \cup Asking]
      /\ loc \in [Threads -> Locals]
  BY <1>1 DEF TicketInv, Types
<1> QED
  BY <1>1, <1>3, <1>4, <1>5, <1>6 DEF BlockInv

\* A heap that stays keeps its bits, and so does one with a block more.
LEMMA BitsKeptFacts ==
    ASSUME TicketInv
    PROVE  /\ heap' = heap => BitsKept
           /\ heap' = Append(heap, NewBlock) => BitsKept
<1>1. heap \in Seq(Block)
  BY DEF TicketInv, Types
<1>2. heap' = heap => BitsKept
  BY DEF BitsKept
<1>3. ASSUME heap' = Append(heap, NewBlock) PROVE BitsKept
  <2>1. /\ DOMAIN heap' = 1 .. Len(heap) + 1 /\ DOMAIN heap = 1 .. Len(heap) /\ Len(heap) \in Nat
        /\ heap'[Len(heap) + 1] = NewBlock
        /\ \A b \in 1 .. Len(heap) : heap'[b] = heap[b]
    <3>1. NewBlock \in Block
      BY DEF NewBlock, Block, Null
    <3> QED
      BY ONLY <1>1, <1>3, <3>1
  <2> QED
    BY ONLY <2>1 DEF BitsKept
<1> QED
  BY <1>2, <1>3

\* A thread that holds no block after its step.
LEMMA EmptyHanded ==
    ASSUME BlockInv, NEW t \in Threads, Acts(t), BitsKept,
           pc'[t] \notin {"push_next", "push_tail", "push_link", "push_write", "push_ready",
                          "pop_wait", "pop_peek", "pop_move", "pop_head", "pop_value", "pop_read",
                          "destroy", "mark"}
    PROVE  BlockInv'
<1>1. ~ Writing(t)' /\ ~ Reading(t)' /\ ~ Destroying(t)' /\ pc'[t] # "pop_read"
  BY DEF Writing, Reading, Moving, Destroying
<1>2. ReadsAhead(t) /\ DestroysAlone(t) /\ Holding(t)'
  BY ONLY <1>1 DEF ReadsAhead, DestroysAlone, Holding
<1> QED
  BY <1>2, Around, KeptStep

\* The steps of threads that have no ticket.
LEMMA CallsAndLooks ==
    ASSUME BlockInv, NEW t \in Threads,
           \/ Call(t) \/ FailSpuriously(t)
           \/ LoadTail(t) \/ LoadTailBlock(t) \/ InstallFirst(t) \/ PublishFirst(t)
           \/ LoseTailTicket(t) \/ LoadHead(t) \/ LoadHeadBlock(t) \/ LookAtTail(t)
           \/ LoseHeadTicket(t)
           \/ EmptyHead(t) \/ EmptyTail(t) \/ LenTail(t) \/ LenHead(t) \/ LenCheck(t)
    PROVE  BlockInv'
<1>1. Acts(t)
  BY DEF Acts, Step
<1>2. /\ TicketInv
      /\ pc \in [Threads -> {"idle"} \cup Pushing \cup Popping \cup Asking]
  BY <1>1, Around
<1> DEFINE Outside == {"idle", "push_index", "push_block", "push_first", "push_head", "push_cas",
                       "pop_index", "pop_block", "pop_tail", "pop_cas", "empty_head", "empty_tail",
                       "len_tail", "len_head", "len_check"}
<1>3. BitsKept /\ pc'[t] \in Outside
  <2>1. CASE Call(t) \/ FailSpuriously(t)
    <3>1. heap' = heap /\ pc'[t] \in Outside
      BY ONLY <1>2, <2>1 DEF Call, CallPush, CallPop, CallIsEmpty, CallLen, Begin, FailSpuriously, Goto
    <3> QED
      BY <1>2, <3>1, BitsKeptFacts
  <2>2. CASE LoadTail(t) \/ LoadTailBlock(t) \/ PublishFirst(t) \/ LoseTailTicket(t)
    <3>1. heap' = heap /\ pc'[t] \in Outside
      BY ONLY <1>2, <2>2 DEF LoadTail, LoadTailBlock, PublishFirst, LoseTailTicket, Goto
    <3> QED
      BY <1>2, <3>1, BitsKeptFacts
  <2>3. CASE InstallFirst(t)
    <3>1. heap' \in {heap, Append(heap, NewBlock)} /\ pc'[t] \in Outside
      BY ONLY <1>2, <2>3 DEF InstallFirst, Goto
    <3> QED
      BY <1>2, <3>1, BitsKeptFacts
  <2>4. CASE LoadHead(t) \/ LoadHeadBlock(t) \/ LookAtTail(t) \/ LoseHeadTicket(t)
    <3>1. heap' = heap /\ pc'[t] \in Outside
      BY ONLY <1>2, <2>4 DEF LoadHead, LoadHeadBlock, LookAtTail, LoseHeadTicket, Goto, Again, Return
    <3> QED
      BY <1>2, <3>1, BitsKeptFacts
  <2>5. CASE EmptyHead(t) \/ EmptyTail(t) \/ LenTail(t) \/ LenHead(t) \/ LenCheck(t)
    <3>1. heap' = heap /\ pc'[t] \in Outside
      BY ONLY <1>2, <2>5 DEF EmptyHead, EmptyTail, LenTail, LenHead, LenCheck, Goto, Return
    <3> QED
      BY <1>2, <3>1, BitsKeptFacts
  <2> QED
    BY <2>1, <2>2, <2>3, <2>4, <2>5
<1> QED
  BY <1>1, <1>3, EmptyHanded

\* A block that is changed in other parts keeps its bits.
LEMMA OneBlockKept ==
    ASSUME TicketInv, NEW b, NEW e, heap' = [heap EXCEPT ![b] = e],
           b \in DOMAIN heap => e.state = heap[b].state /\ e.freed = heap[b].freed
    PROVE  BitsKept
<1>1. DOMAIN heap' = DOMAIN heap
  OBVIOUS
<1>2. \A c \in DOMAIN heap : heap'[c] = IF c = b THEN e ELSE heap[c]
  OBVIOUS
<1> QED
  BY ONLY <1>1, <1>2, b \in DOMAIN heap => e.state = heap[b].state /\ e.freed = heap[b].freed
     DEF BitsKept

\* A thread that goes on with its ticket.
LEMMA SameTicket ==
    ASSUME BlockInv, NEW t \in Threads, Acts(t), BitsKept,
           loc'[t].block = loc[t].block, loc'[t].index = loc[t].index,
           \/ Writing(t) /\ Writing(t)'
           \/ Reading(t) /\ Reading(t)' /\ pc'[t] # "pop_read"
    PROVE  BlockInv'
<1>1. /\ Holding(t) /\ pc'[t] # "pop_read"
  <2>1. Holding(t)
    BY Around
  <2>2. Writing(t)' => pc'[t] # "pop_read"
    BY DEF Writing
  <2> QED
    BY ONLY <2>1, <2>2, \/ Writing(t) /\ Writing(t)'
                        \/ Reading(t) /\ Reading(t)' /\ pc'[t] # "pop_read"
<1>2. ~ Destroying(t)' /\ ~ (Reading(t)' /\ Writing(t)')
  BY DEF Writing, Reading, Moving, Destroying
<1>3. ReadsAhead(t) /\ DestroysAlone(t)
  BY <1>2 DEF ReadsAhead, DestroysAlone
<1> DEFINE b == loc[t].block
           i == Slot0(loc[t].index)
<1>4. /\ Writing(t)' => Live(b) /\ "WRITE" \notin heap[b].state[i]
      /\ Reading(t)' => Live(b) /\ "READ" \notin heap[b].state[i]
  BY <1>1, <1>2 DEF Holding, State
<1>5. Live(b) => b \in DOMAIN heap' /\ ~ heap'[b].freed /\ heap'[b].state = heap[b].state
  BY DEF BitsKept, Live
<1>6. Slot0(loc'[t].index) = i
  OBVIOUS
<1>7. Holding(t)'
  BY ONLY <1>1, <1>2, <1>4, <1>5, <1>6, loc'[t].block = loc[t].block DEF Holding, State, Live
<1> QED
  BY <1>3, <1>7, Around, KeptStep

\* The steps of a push that has its ticket, up to the last.
LEMMA WriterSteps ==
    ASSUME BlockInv, NEW t \in Threads,
           InstallNext(t) \/ SkipBoundary(t) \/ LinkNext(t) \/ WriteValue(t)
    PROVE  BlockInv'
<1>1. Acts(t)
  BY DEF Acts, Step
<1>2. /\ TicketInv /\ loc \in [Threads -> Locals]
      /\ pc \in [Threads -> {"idle"} \cup Pushing \cup Popping \cup Asking]
  BY <1>1, Around
<1>3. heap \in Seq(Block) /\ \A b \in DOMAIN heap : heap[b] \in Block
  BY <1>2, Addresses
<1>4. /\ loc'[t].block = loc[t].block /\ loc'[t].index = loc[t].index
      /\ Writing(t) /\ Writing(t)'
  BY ONLY <1>2, InstallNext(t) \/ SkipBoundary(t) \/ LinkNext(t) \/ WriteValue(t)
     DEF InstallNext, SkipBoundary, LinkNext, WriteValue, Writing, Goto, Locals
<1>5. BitsKept
  <2>1. CASE InstallNext(t) \/ SkipBoundary(t)
    <3>1. heap' = heap \/ heap' = Append(heap, NewBlock)
      BY ONLY <2>1 DEF InstallNext, SkipBoundary
    <3> QED
      BY <1>2, <3>1, BitsKeptFacts
  <2>2. CASE LinkNext(t)
    <3> DEFINE b == loc[t].block
               e == [heap[b] EXCEPT !.next = loc[t].next]
    <3>1. heap' = [heap EXCEPT ![b] = e]
      BY ONLY <1>3, <2>2 DEF LinkNext
    <3>2. b \in DOMAIN heap => e.state = heap[b].state /\ e.freed = heap[b].freed
      BY ONLY <1>3 DEF Block
    <3> HIDE DEF e, b
    <3> QED
      BY <1>2, <3>1, <3>2, OneBlockKept
  <2>3. CASE WriteValue(t)
    <3> DEFINE b == loc[t].block
               e == [heap[b] EXCEPT !.value[Slot0(loc[t].index)] = loc[t].value]
    <3>1. heap' = [heap EXCEPT ![b] = e]
      BY ONLY <1>3, <2>3 DEF WriteValue
    <3>2. b \in DOMAIN heap => e.state = heap[b].state /\ e.freed = heap[b].freed
      BY ONLY <1>3 DEF Block
    <3> HIDE DEF e, b
    <3> QED
      BY <1>2, <3>1, <3>2, OneBlockKept
  <2> QED
    BY <2>1, <2>2, <2>3
<1> QED
  BY <1>1, <1>4, <1>5, SameTicket

\* The steps of a pop that moves the head to the next block.
LEMMA MoverSteps ==
    ASSUME BlockInv, NEW t \in Threads,
           WaitNext(t) \/ PeekNext(t) \/ MoveHeadBlock(t) \/ MoveHead(t)
    PROVE  BlockInv'
<1>1. Acts(t)
  BY DEF Acts, Step
<1>2. /\ TicketInv /\ loc \in [Threads -> Locals]
      /\ pc \in [Threads -> {"idle"} \cup Pushing \cup Popping \cup Asking]
  BY <1>1, Around
<1>3. /\ heap' = heap /\ loc'[t].block = loc[t].block /\ loc'[t].index = loc[t].index
      /\ Reading(t) /\ Reading(t)' /\ pc'[t] # "pop_read"
  BY ONLY <1>2, WaitNext(t) \/ PeekNext(t) \/ MoveHeadBlock(t) \/ MoveHead(t)
     DEF WaitNext, PeekNext, MoveHeadBlock, MoveHead, Reading, Moving, Goto, Locals
<1>4. BitsKept
  BY <1>2, <1>3, BitsKeptFacts
<1> QED
  BY <1>1, <1>3, <1>4, SameTicket

\* A slot whose ticket is still to be taken is in a block that is there, and its bit is not set.
LEMMA Fresh ==
    ASSUME BlockInv, ~ gone, NEW n \in Nat, ~ Boundary(n), Lap(head) <= Lap(n),
           NEW b \in DOMAIN heap, b = Lap(n) + 1
    PROVE  /\ Live(b)
           /\ n = tail => "WRITE" \notin State(b, Slot0(n))
           /\ n = head => "READ" \notin State(b, Slot0(n))
<1>1. TicketInv /\ SlotBits /\ FreedBehind
  BY DEF BlockInv
<1>2. Lap(head) \in Nat /\ b \in Nat
  BY <1>1, Addresses
<1>3. Lap(n) \in Nat /\ Slot0(n) \in Slots
  BY ONLY n \in Nat, ~ Boundary(n), IndexFacts, TicketSlot
<1>4. ~ Passed(n, b, Slot0(n))
  BY ONLY <1>2, <1>3, n \in Nat, ~ Boundary(n), b = Lap(n) + 1, PassedFacts
<1>5. Live(b)
  BY ONLY <1>1, <1>2, <1>3, Lap(head) <= Lap(n), b = Lap(n) + 1, b \in DOMAIN heap
     DEF Live, FreedBehind
<1>6. /\ "WRITE" \in State(b, Slot0(n)) => Passed(tail, b, Slot0(n))
      /\ "READ" \in State(b, Slot0(n)) => Passed(head, b, Slot0(n))
  BY ONLY <1>1, <1>3, b \in DOMAIN heap DEF SlotBits
<1> QED
  BY ONLY <1>4, <1>5, <1>6

\* The slot of a new ticket has not been written, its block is ahead of every freed one.
LEMMA TakeTailTicketHolds ==
    ASSUME BlockInv, NEW t \in Threads, TakeTailTicket(t)
    PROVE  BlockInv'
<1>1. Acts(t)
  BY DEF Acts, Step
<1>2. /\ TicketInv /\ TicketInv' /\ ~ gone
      /\ pc \in [Threads -> {"idle"} \cup Pushing \cup Popping \cup Asking]
  BY <1>1, Around
<1>3. /\ pc[t] = "push_cas" /\ tail = loc[t].index /\ heap' = heap /\ loc' = loc
      /\ pc'[t] \in {"push_next", "push_write"}
  BY ONLY <1>2, TakeTailTicket(t) DEF TakeTailTicket, Goto
<1>4. Writing(t)' /\ ~ Reading(t)' /\ ~ Destroying(t)' /\ pc'[t] # "pop_read"
  BY ONLY <1>3 DEF Writing, Reading, Moving, Destroying
<1>5. /\ ~ Boundary(loc[t].index) /\ loc[t].block = Lap(loc[t].index) + 1
      /\ loc[t].block <= Len(heap)
  BY ONLY <1>2, <1>3, <1>4 DEF TicketInv, WriterHolds
<1>6. /\ loc[t].index \in Nat /\ head \in Nat /\ Lap(loc[t].index) \in Nat
      /\ HeadBehindTail /\ heap \in Seq(Block)
  BY <1>2, <1>3, Addresses DEF TicketInv
<1>7. Lap(head) <= Lap(tail) /\ tail \in Nat
  BY ONLY <1>3, <1>6, OrderFacts DEF HeadBehindTail
<1>8. loc[t].block \in DOMAIN heap
  BY ONLY <1>5, <1>6
<1>9. Live(loc[t].block) /\ "WRITE" \notin State(loc[t].block, Slot0(tail))
  BY ONLY BlockInv, <1>2, <1>3, <1>5, <1>7, <1>8, Fresh
<1>10. Holding(t)'
  BY ONLY <1>3, <1>4, <1>9 DEF Holding, Live, State
<1>11. ReadsAhead(t) /\ DestroysAlone(t)
  BY ONLY <1>4 DEF ReadsAhead, DestroysAlone
<1>12. BitsKept
  BY <1>2, <1>3, BitsKeptFacts
<1> QED
  BY <1>1, <1>10, <1>11, <1>12, Around, KeptStep

\* The slot of a new ticket has not been read.
LEMMA TakeHeadTicketHolds ==
    ASSUME BlockInv, NEW t \in Threads, TakeHeadTicket(t)
    PROVE  BlockInv'
<1>1. Acts(t)
  BY DEF Acts, Step
<1>2. /\ TicketInv /\ TicketInv' /\ ~ gone
      /\ pc \in [Threads -> {"idle"} \cup Pushing \cup Popping \cup Asking]
  BY <1>1, Around
<1>3. /\ pc[t] = "pop_cas" /\ head = loc[t].index /\ head' = loc[t].other
      /\ heap' = heap /\ loc' = loc /\ pc'[t] \in {"pop_wait", "pop_value"}
  BY ONLY <1>2, TakeHeadTicket(t) DEF TakeHeadTicket, Goto
<1>4. ~ Writing(t)' /\ Reading(t)' /\ ~ Destroying(t)' /\ pc'[t] # "pop_read"
  BY ONLY <1>3 DEF Writing, Reading, Moving, Destroying
<1>5. /\ ~ Boundary(loc[t].index) /\ loc[t].block = Lap(loc[t].index) + 1
      /\ loc[t].block <= Len(heap)
  BY ONLY <1>2, <1>3, <1>4 DEF TicketInv, ReaderHolds
<1>6. head \in Nat /\ Lap(head) \in Nat /\ Pos(head) \in Nat /\ heap \in Seq(Block)
  BY <1>2, Addresses
<1>7. loc[t].block \in DOMAIN heap
  BY ONLY <1>3, <1>5, <1>6
<1>8. Lap(head) <= Lap(head)
  BY ONLY <1>6
<1>9. Live(loc[t].block) /\ "READ" \notin State(loc[t].block, Slot0(head))
  BY ONLY BlockInv, <1>2, <1>3, <1>5, <1>6, <1>7, <1>8, Fresh
<1>10. Holding(t)'
  BY ONLY <1>3, <1>4, <1>9 DEF Holding, Live, State
<1>11. Lap(head') = Lap(head)
  <2>1. loc[t].other = head + 2 \/ loc[t].other = WithNext(head + 2)
    BY <1>2, <1>3, Own DEF Keeps, PopSaw
  <2>2. head + 2 \in Nat /\ Lap(head + 2) = Lap(head)
    <3>1. ~ Boundary(head)
      BY ONLY <1>3, <1>5
    <3>2. Lap(head + 2) = Lap(head)
      BY ONLY <1>6, <3>1, StepFacts
    <3> QED
      BY ONLY <1>6, <3>2
  <2>3. Pos(WithNext(head + 2)) = Pos(head + 2)
    BY ONLY <2>2, BitFacts
  <2> QED
    BY ONLY <1>3, <2>1, <2>2, <2>3 DEF Lap
<1>12. ReadsAhead(t) /\ DestroysAlone(t)
  BY ONLY <1>3, <1>4, <1>5, <1>6, <1>11 DEF ReadsAhead, DestroysAlone
<1>13. BitsKept
  BY <1>2, <1>3, BitsKeptFacts
<1> QED
  BY <1>1, <1>10, <1>12, <1>13, Around, KeptStep

\* The reader of a last slot is the only one, and nobody destroys its block.
LEMMA LastReader ==
    ASSUME BlockInv, ~ gone, NEW t \in Threads, Reading(t), LastSlot(loc[t].index)
    PROVE  /\ ~ Begun(loc[t].block)
           /\ \A i \in Slots : "DESTROY" \notin State(loc[t].block, i)
           /\ \A u \in Threads : Destroying(u) => loc[u].block # loc[t].block
           /\ \A u \in Threads : u # t /\ Reading(u) /\ loc[u].block = loc[t].block =>
                ~ LastSlot(loc[u].index)
<1>1. TicketInv /\ SlotBits /\ \A u \in Threads : Holding(u)
  BY DEF BlockInv
<1>2. ~ Begun(loc[t].block)
  BY DEF Begun
<1>3. loc[t].block \in DOMAIN heap
  BY <1>1 DEF Holding, Live
<1>4. \A i \in Slots : "DESTROY" \notin State(loc[t].block, i)
  BY ONLY <1>1, <1>2, <1>3 DEF SlotBits
<1>5. \A u \in Threads : Destroying(u) => loc[u].block # loc[t].block
  BY ONLY <1>1, <1>2 DEF Holding
<1>6. ASSUME NEW u \in Threads, u # t, Reading(u), loc[u].block = loc[t].block, LastSlot(loc[u].index)
      PROVE  FALSE
  <2>1. /\ loc[t].index \in Nat /\ loc[u].index \in Nat
        /\ loc[t].block = Lap(loc[t].index) + 1 /\ loc[u].block = Lap(loc[u].index) + 1
        /\ Pos(loc[t].index) # Pos(loc[u].index)
    BY <1>1, <1>6, Addresses DEF TicketInv, ReaderHolds, OneTicketEach
  <2>2. Lap(loc[t].index) \in Nat /\ Lap(loc[u].index) \in Nat
    BY ONLY <2>1, IndexFacts
  <2>3. Lap(loc[t].index) = Lap(loc[u].index)
    BY ONLY <1>6, <2>1, <2>2
  <2>4. Slot0(loc[t].index) = Slot0(loc[u].index)
    BY ONLY <1>6, <2>1, IndexFacts, LastSlot(loc[t].index)
  <2> QED
    BY ONLY <2>1, <2>3, <2>4, SameSlot
<1> QED
  BY <1>2, <1>4, <1>5, <1>6

\* The last slot's reader begins the destruction; no other thread has.
LEMMA ReadValueHolds ==
    ASSUME BlockInv, NEW t \in Threads, ReadValue(t)
    PROVE  BlockInv'
<1>1. Acts(t)
  BY DEF Acts, Step
<1>2. /\ TicketInv /\ ~ gone /\ Holding(t) /\ loc \in [Threads -> Locals]
      /\ pc \in [Threads -> {"idle"} \cup Pushing \cup Popping \cup Asking]
      /\ \A u \in Threads : u # t => pc'[u] = pc[u] /\ loc'[u] = loc[u]
  BY <1>1, Around
<1> DEFINE b == loc[t].block
           i == Slot0(loc[t].index)
<1>3. /\ pc[t] = "pop_value" /\ heap' = heap /\ head' = head /\ "WRITE" \in heap[b].state[i]
      /\ loc'[t].block = loc[t].block /\ loc'[t].index = loc[t].index /\ loc'[t].cursor = 0
      /\ pc'[t] = IF LastSlot(loc[t].index) THEN "destroy" ELSE "pop_read"
  BY ONLY <1>2, ReadValue(t) DEF ReadValue, WaitWrite, Bits, Goto, Locals, positions
<1>4. Reading(t) /\ Live(b) /\ "READ" \notin heap[b].state[i]
  BY ONLY <1>2, <1>3 DEF Holding, Reading, State
<1>5. loc[t].index \in Nat /\ ~ Boundary(loc[t].index)
  BY <1>2, <1>4, Addresses DEF TicketInv, ReaderHolds
<1>6. BitsKept
  BY <1>2, <1>3, BitsKeptFacts
<1>7. CASE ~ LastSlot(loc[t].index)
  <2>1. ~ Writing(t)' /\ Reading(t)' /\ ~ Destroying(t)'
    BY ONLY <1>3, <1>7 DEF Writing, Reading, Moving, Destroying
  <2>2. ReadsAhead(t) /\ DestroysAlone(t)
    BY ONLY <1>3, <1>4, <2>1 DEF ReadsAhead, DestroysAlone
  <2>3. Slot0(loc'[t].index) = i
    BY ONLY <1>3
  <2>4. Holding(t)'
    BY ONLY <1>3, <1>4, <2>1, <2>3 DEF Holding, Live, State
  <2> QED
    BY <1>1, <1>6, <2>2, <2>4, Around, KeptStep
<1>8. CASE LastSlot(loc[t].index)
  <2>1. ~ Writing(t)' /\ ~ Reading(t)' /\ Destroying(t)' /\ pc'[t] # "pop_read"
    BY ONLY <1>3, <1>8 DEF Writing, Reading, Moving, Destroying
  <2>2. /\ \A j \in Slots : "DESTROY" \notin State(b, j)
        /\ \A u \in Threads : Destroying(u) => loc[u].block # b
        /\ \A u \in Threads : u # t /\ Reading(u) /\ loc[u].block = b => ~ LastSlot(loc[u].index)
    BY <1>2, <1>4, <1>8, LastReader
  <2>3. ReadsAhead(t) /\ DestroysAlone(t)
    BY ONLY <1>3, <2>1, <2>2 DEF ReadsAhead, DestroysAlone
  <2>4. i = Last /\ b <= Lap(head)
    <3>1. i = Last
      BY ONLY <1>5, <1>8, TicketSlot
    <3>2. b <= Lap(head)
      BY <1>2, <1>3, <1>8 DEF TicketInv, ReaderHolds
    <3> QED
      BY <3>1, <3>2
  <2>5. ASSUME NEW u \in Threads, Reading(u)', loc'[u].block = b PROVE ~ LastSlot(loc'[u].index)
    <3>1. u # t
      BY ONLY <2>1, <2>5
    <3>2. Reading(u) /\ loc'[u] = loc[u]
      BY ONLY <1>2, <2>5, <3>1 DEF Reading, Moving
    <3> QED
      BY ONLY <2>2, <2>5, <3>1, <3>2
  <2>6. Begun(b)'
    BY ONLY <1>3, <2>4, <2>5 DEF Begun, State
  <2>7. \A j \in Slots : ~ HandedOver(b, j)'
    BY ONLY <1>3, <2>2 DEF HandedOver, State
  <2>8. ASSUME NEW u \in Threads, u # t, Destroying(u)' PROVE loc'[u].block # b
    <3>1. Destroying(u) /\ loc'[u] = loc[u]
      BY ONLY <1>2, <2>8 DEF Destroying
    <3> QED
      BY ONLY <2>2, <3>1
  <2>9. Live(b)'
    BY ONLY <1>3, <1>4 DEF Live
  <2>10. Holding(t)'
    BY ONLY <1>3, <2>1, <2>6, <2>7, <2>8, <2>9 DEF Holding
  <2> QED
    BY <1>1, <1>6, <2>3, <2>10, Around, KeptStep
<1> QED
  BY <1>7, <1>8

-----------------------------------------------------------------------------
(* The steps that set a bit *)

\* Slot k of block c gets the bit, nothing else changes.
BitSet(c, k, bit) ==
    /\ DOMAIN heap' = DOMAIN heap
    /\ \A b \in DOMAIN heap : heap'[b].freed = heap[b].freed
    /\ \A b \in DOMAIN heap : \A i \in Slots :
        heap'[b].state[i] = heap[b].state[i] \cup (IF b = c /\ i = k THEN {bit} ELSE {})

\* The fetch_or changes one slot.
LEMMA SetBitIsBitSet ==
    ASSUME TicketInv, NEW t \in Threads, NEW i \in Slots, NEW bit, SetBit(t, i, bit)
    PROVE  BitSet(loc[t].block, i, bit)
<1> DEFINE b == loc[t].block
           s == [heap[b].state EXCEPT ![i] = @ \cup {bit}]
           e == [heap[b] EXCEPT !.state = s]
<1>1. heap \in Seq(Block) /\ \A c \in DOMAIN heap : heap[c] \in Block
  BY Addresses
<1>2. heap' = [heap EXCEPT ![b] = e]
  BY ONLY <1>1, SetBit(t, i, bit) DEF SetBit
<1>3. b \in DOMAIN heap => e.state = s /\ e.freed = heap[b].freed
  BY ONLY <1>1 DEF Block
<1>4. b \in DOMAIN heap =>
        \A j \in Slots : s[j] = heap[b].state[j] \cup (IF j = i THEN {bit} ELSE {})
  <2>1. SUFFICES ASSUME b \in DOMAIN heap, NEW j \in Slots
                 PROVE  s[j] = heap[b].state[j] \cup (IF j = i THEN {bit} ELSE {})
    OBVIOUS
  <2>2. DOMAIN heap[b].state = Slots
    BY ONLY <1>1, <2>1 DEF Block
  <2> QED
    BY ONLY <2>1, <2>2
<1> HIDE DEF s, e
<1>5. /\ DOMAIN heap' = DOMAIN heap
      /\ \A c \in DOMAIN heap : heap'[c] = IF c = b THEN e ELSE heap[c]
  BY ONLY <1>2
<1> HIDE DEF b
<1>6. BitSet(b, i, bit)
  BY ONLY <1>3, <1>4, <1>5 DEF BitSet
<1> QED
  BY ONLY <1>6 DEF b

\* Two writers, or two readers, are at different slots.
LEMMA OtherSlot ==
    ASSUME TicketInv, NEW t \in Threads, NEW u \in Threads, t # u,
           (Writing(t) /\ Writing(u)) \/ (Reading(t) /\ Reading(u))
    PROVE  ~ (loc[u].block = loc[t].block /\ Slot0(loc[u].index) = Slot0(loc[t].index))
<1>1. SUFFICES ASSUME loc[u].block = loc[t].block, Slot0(loc[u].index) = Slot0(loc[t].index)
               PROVE  FALSE
  OBVIOUS
<1>2. /\ loc[t].index \in Nat /\ loc[u].index \in Nat
      /\ loc[t].block = Lap(loc[t].index) + 1 /\ loc[u].block = Lap(loc[u].index) + 1
      /\ Pos(loc[t].index) # Pos(loc[u].index)
  BY Addresses DEF TicketInv, ReaderHolds, WriterHolds, OneTicketEach
<1>3. Lap(loc[t].index) \in Nat /\ Lap(loc[u].index) \in Nat
  BY ONLY <1>2, IndexFacts
<1>4. Lap(loc[t].index) = Lap(loc[u].index)
  BY ONLY <1>1, <1>2, <1>3
<1> QED
  BY ONLY <1>1, <1>2, <1>4, SameSlot

\* The slot of a thread that holds a ticket.
LEMMA TicketFacts ==
    ASSUME BlockInv, ~ gone, NEW t \in Threads, Writing(t) \/ Reading(t)
    PROVE  /\ loc[t].block \in DOMAIN heap /\ Slot0(loc[t].index) \in Slots
           /\ Writing(t) => Passed(tail, loc[t].block, Slot0(loc[t].index))
           /\ Reading(t) => Passed(head, loc[t].block, Slot0(loc[t].index))
<1>1. TicketInv /\ Holding(t)
  BY DEF BlockInv
<1>2. /\ tail \in Nat /\ head \in Nat /\ loc[t].index \in Nat /\ loc[t].block \in Nat
      /\ ~ Boundary(loc[t].index) /\ loc[t].block = Lap(loc[t].index) + 1
      /\ Writing(t) => Pos(loc[t].index) < Pos(tail)
      /\ Reading(t) => Pos(loc[t].index) < Pos(head)
  BY <1>1, Addresses DEF TicketInv, ReaderHolds, WriterHolds
<1>3. loc[t].block \in DOMAIN heap
  BY <1>1 DEF Holding, Live
<1>4. Slot0(loc[t].index) \in Slots
  BY ONLY <1>2, TicketSlot
<1>5. \A n \in Nat : Pos(loc[t].index) < Pos(n) => Passed(n, loc[t].block, Slot0(loc[t].index))
  BY ONLY <1>2, <1>4, PassedFacts
<1> QED
  BY ONLY <1>2, <1>3, <1>4, <1>5

\* When the bit may be set, as far as the other threads and the other bits go.
MaySet(t, c, k, bit) ==
    /\ bit = "WRITE" =>
        /\ Passed(tail, c, k)
        /\ \A u \in Threads : u # t /\ Writing(u) =>
                ~ (loc[u].block = c /\ Slot0(loc[u].index) = k)
    /\ bit = "READ" =>
        /\ Passed(head, c, k) /\ "WRITE" \in State(c, k)
        /\ \A u \in Threads : u # t /\ Reading(u) =>
                ~ (loc[u].block = c /\ Slot0(loc[u].index) = k)
    /\ bit = "DESTROY" =>
        /\ k < Last /\ Begun(c) /\ \A j \in 0 .. k - 1 : "READ" \in State(c, j)
        /\ \A u \in Threads : u # t /\ Destroying(u) => loc[u].block # c

\* The bits tell the truth when one more is set.
LEMMA BitsTellOn ==
    ASSUME BlockInv, NEW t \in Threads, Acts(t), UNCHANGED <<head, tail>>, ~ Reading(t)',
           NEW c \in DOMAIN heap, NEW k \in Slots, NEW bit \in {"WRITE", "READ", "DESTROY"},
           BitSet(c, k, bit), MaySet(t, c, k, bit)
    PROVE  /\ SlotBits' /\ FreedBehind'
           /\ \A b \in DOMAIN heap : Begun(b) => Begun(b)'
<1>1. /\ TicketInv /\ TicketInv' /\ SlotBits /\ FreedBehind /\ Pos(head) <= Pos(head')
      /\ \A u \in Threads : u # t => pc'[u] = pc[u] /\ loc'[u] = loc[u]
  BY Around
<1>2. ReadsAhead(t)
  BY DEF ReadsAhead
<1>3. Last \in Slots
  BY ONLY Laps DEF Last
<1>4. \A b \in DOMAIN heap : Begun(b) => Begun(b)'
  <2>1. SUFFICES ASSUME NEW b \in DOMAIN heap, Begun(b) PROVE Begun(b)'
    OBVIOUS
  <2>2. "WRITE" \in heap[b].state[Last] => "WRITE" \in heap'[b].state[Last]
    BY ONLY <1>3, <2>1, BitSet(c, k, bit) DEF BitSet
  <2> QED
    BY <1>1, <1>2, <2>1, <2>2, BegunKept
<1>5. FreedBehind'
  BY ONLY <1>1, BitSet(c, k, bit), UNCHANGED <<head, tail>> DEF FreedBehind, BitSet
<1>6. ASSUME NEW b \in DOMAIN heap', NEW i \in Slots
      PROVE  /\ "WRITE" \in heap'[b].state[i] => Passed(tail', b, i)
             /\ "READ" \in heap'[b].state[i] =>
                  Passed(head', b, i) /\ "WRITE" \in heap'[b].state[i]
             /\ "DESTROY" \in heap'[b].state[i] => i < Last /\ Begun(b)'
             /\ "DESTROY" \in heap'[b].state[i] /\ "READ" \notin heap'[b].state[i] =>
                  \A j \in 0 .. i - 1 : "READ" \in heap'[b].state[j]
  <2>1. b \in DOMAIN heap
    BY ONLY <1>6, BitSet(c, k, bit) DEF BitSet
  <2>2. /\ "WRITE" \in heap[b].state[i] => Passed(tail, b, i)
        /\ "READ" \in heap[b].state[i] => Passed(head, b, i) /\ "WRITE" \in heap[b].state[i]
        /\ "DESTROY" \in heap[b].state[i] => i < Last /\ Begun(b)
        /\ "DESTROY" \in heap[b].state[i] /\ "READ" \notin heap[b].state[i] =>
             \A j \in 0 .. i - 1 : "READ" \in heap[b].state[j]
    BY ONLY <1>1, <1>6, <2>1 DEF SlotBits, State, HandedOver
  <2>3. \A j \in 0 .. i - 1 : j \in Slots
    BY ONLY <1>6, Laps
  <2>4. /\ \A j \in Slots : heap[b].state[j] \subseteq heap'[b].state[j]
        /\ heap'[b].state[i] = heap[b].state[i] \cup (IF b = c /\ i = k THEN {bit} ELSE {})
    BY ONLY <1>6, <2>1, BitSet(c, k, bit) DEF BitSet
  <2>5. CASE b # c \/ i # k
    <3>1. heap'[b].state[i] = heap[b].state[i]
      BY ONLY <2>4, <2>5
    <3> QED
      BY ONLY <1>4, <2>1, <2>2, <2>3, <2>4, <3>1, UNCHANGED <<head, tail>>
  <2>6. CASE b = c /\ i = k
    <3>1. heap'[b].state[i] = heap[b].state[i] \cup {bit}
      BY ONLY <2>4, <2>6
    <3>2. /\ bit = "WRITE" => Passed(tail, b, i)
          /\ bit = "READ" => Passed(head, b, i) /\ "WRITE" \in heap[b].state[i]
          /\ bit = "DESTROY" =>
               i < Last /\ Begun(b) /\ \A j \in 0 .. i - 1 : "READ" \in heap[b].state[j]
      BY ONLY <2>6, MaySet(t, c, k, bit) DEF MaySet, State
    <3>3. \A j \in 0 .. i - 1 : "READ" \in heap[b].state[j] => "READ" \in heap'[b].state[j]
      BY ONLY <2>3, <2>4
    <3> QED
      BY ONLY <1>4, <2>1, <2>2, <3>1, <3>2, <3>3, UNCHANGED <<head, tail>>
  <2> QED
    BY <2>5, <2>6
<1>7. SlotBits'
  BY ONLY <1>6 DEF SlotBits, State, HandedOver, Passed
<1> QED
  BY <1>4, <1>5, <1>7

\* The other threads hold what they held when a bit is set.
LEMMA OthersHoldOn ==
    ASSUME BlockInv, NEW t \in Threads, Acts(t), UNCHANGED <<head, tail>>,
           ~ Reading(t)', DestroysAlone(t),
           NEW c \in DOMAIN heap, NEW k \in Slots, NEW bit \in {"WRITE", "READ", "DESTROY"},
           BitSet(c, k, bit), MaySet(t, c, k, bit), NEW u \in Threads, u # t
    PROVE  Holding(u)'
<1>1. /\ Holding(u) /\ TicketInv /\ pc'[u] = pc[u] /\ loc'[u] = loc[u] /\ ~ gone
      /\ \A v \in Threads : v # t => pc'[v] = pc[v] /\ loc'[v] = loc[v]
  BY Around
<1>2. \A b \in DOMAIN heap : Begun(b) => Begun(b)'
  BY BitsTellOn
<1> DEFINE i == Slot0(loc[u].index)
<1>3. PICK b \in Nat : b = loc[u].block
  BY <1>1, Addresses
<1>4. /\ Live(b) => b \in DOMAIN heap /\ Live(b)'
      /\ b \in DOMAIN heap => \A j \in Slots :
           heap'[b].state[j] = heap[b].state[j] \cup (IF b = c /\ j = k THEN {bit} ELSE {})
  BY ONLY BitSet(c, k, bit) DEF Live, BitSet
<1>5. Writing(u) \/ Reading(u) => i \in Slots
  BY <1>1, TicketFacts
<1>6. Writing(u)' => Live(b)' /\ "WRITE" \notin heap'[b].state[i]
  <2>1. SUFFICES ASSUME Writing(u)' PROVE Live(b)' /\ "WRITE" \notin heap'[b].state[i]
    OBVIOUS
  <2>2. Writing(u)
    BY ONLY <1>1, <2>1 DEF Writing
  <2>3. Live(b) /\ "WRITE" \notin heap[b].state[i]
    BY ONLY <1>1, <1>3, <2>2 DEF Holding, State
  <2>4. bit = "WRITE" => ~ (b = c /\ i = k)
    BY ONLY <1>3, <2>2, u \in Threads, u # t, MaySet(t, c, k, bit) DEF MaySet
  <2> QED
    BY ONLY <1>4, <1>5, <2>2, <2>3, <2>4, bit \in {"WRITE", "READ", "DESTROY"}
<1>7. Reading(u)' => Live(b)' /\ "READ" \notin heap'[b].state[i]
  <2>1. SUFFICES ASSUME Reading(u)' PROVE Live(b)' /\ "READ" \notin heap'[b].state[i]
    OBVIOUS
  <2>2. Reading(u)
    BY ONLY <1>1, <2>1 DEF Reading, Moving
  <2>3. Live(b) /\ "READ" \notin heap[b].state[i]
    BY ONLY <1>1, <1>3, <2>2 DEF Holding, State
  <2>4. bit = "READ" => ~ (b = c /\ i = k)
    BY ONLY <1>3, <2>2, u \in Threads, u # t, MaySet(t, c, k, bit) DEF MaySet
  <2> QED
    BY ONLY <1>4, <1>5, <2>2, <2>3, <2>4, bit \in {"WRITE", "READ", "DESTROY"}
<1>8. pc'[u] = "pop_read" => "WRITE" \in heap'[b].state[i]
  <2>1. pc[u] = "pop_read" => Reading(u) /\ Live(b) /\ "WRITE" \in heap[b].state[i]
    BY ONLY <1>1, <1>3 DEF Holding, Reading, State
  <2> QED
    BY ONLY <1>1, <1>4, <1>5, <2>1
<1>9. ASSUME Destroying(u)'
      PROVE  /\ Live(b)' /\ Begun(b)'
             /\ \A j \in 0 .. loc[u].cursor - 1 : "READ" \in heap'[b].state[j]
             /\ \A j \in Slots : ~ HandedOver(b, j)'
             /\ \A v \in Threads : v # u /\ Destroying(v)' => loc'[v].block # b
  <2>1. Destroying(u)
    BY ONLY <1>1, <1>9 DEF Destroying
  <2>2. /\ Live(b) /\ Begun(b)
        /\ \A j \in 0 .. loc[u].cursor - 1 : "READ" \in heap[b].state[j]
        /\ \A j \in Slots : ~ ("DESTROY" \in heap[b].state[j] /\ "READ" \notin heap[b].state[j])
        /\ \A v \in Threads : v # u /\ Destroying(v) => loc[v].block # b
    BY ONLY <1>1, <1>3, <2>1 DEF Holding, HandedOver, State
  <2>3. \A j \in 0 .. loc[u].cursor - 1 : j \in Slots
    <3>1. loc[u].cursor \in Slots
      BY <1>1, Own
    <3> QED
      BY ONLY <3>1, Laps
  <2>4. bit = "DESTROY" => b # c
    BY ONLY <1>3, <2>1, u \in Threads, u # t, MaySet(t, c, k, bit) DEF MaySet
  <2>5. \A j \in Slots : ~ HandedOver(b, j)'
    BY ONLY <1>4, <2>2, <2>4 DEF HandedOver, State
  <2>6. ASSUME NEW v \in Threads, v # u, Destroying(v)' PROVE loc'[v].block # b
    <3>1. CASE v = t
      BY ONLY <1>3, <2>1, <2>6, <3>1, u \in Threads, u # t, DestroysAlone(t) DEF DestroysAlone
    <3>2. CASE v # t
      <4>1. Destroying(v) /\ loc'[v] = loc[v]
        BY ONLY <1>1, <2>6, <3>2 DEF Destroying
      <4> QED
        BY ONLY <2>2, <2>6, <4>1
    <3> QED
      BY <3>1, <3>2
  <2> QED
    BY ONLY <1>2, <1>4, <2>2, <2>3, <2>5, <2>6
<1> QED
  BY ONLY <1>1, <1>3, <1>6, <1>7, <1>8, <1>9 DEF Holding, State

\* A step that sets one bit.
LEMMA BitStep ==
    ASSUME BlockInv, NEW t \in Threads, Acts(t), UNCHANGED <<head, tail>>,
           ~ Reading(t)', DestroysAlone(t), Holding(t)',
           NEW c \in DOMAIN heap, NEW k \in Slots, NEW bit \in {"WRITE", "READ", "DESTROY"},
           BitSet(c, k, bit), MaySet(t, c, k, bit)
    PROVE  BlockInv'
<1>1. SlotBits' /\ FreedBehind'
  BY BitsTellOn
<1>2. \A u \in Threads : u # t => Holding(u)'
  BY OthersHoldOn
<1>3. TicketInv'
  BY Around
<1> QED
  BY <1>1, <1>2, <1>3 DEF BlockInv

\* WRITE is set by the only writer of the slot.
LEMMA MarkWrittenHolds ==
    ASSUME BlockInv, NEW t \in Threads, MarkWritten(t)
    PROVE  BlockInv'
<1>1. Acts(t)
  BY DEF Acts, Step
<1>2. /\ TicketInv /\ ~ gone
      /\ pc \in [Threads -> {"idle"} \cup Pushing \cup Popping \cup Asking]
  BY <1>1, Around
<1>3. /\ pc[t] = "push_ready" /\ pc'[t] = "idle" /\ SetBit(t, Slot0(loc[t].index), "WRITE")
      /\ UNCHANGED <<head, tail>>
  BY ONLY <1>2, MarkWritten(t) DEF MarkWritten, Return, Goto, positions
<1>4. Writing(t) /\ ~ Writing(t)' /\ ~ Reading(t)' /\ ~ Destroying(t)' /\ pc'[t] # "pop_read"
  BY ONLY <1>3 DEF Writing, Reading, Moving, Destroying
<1>5. Holding(t)' /\ DestroysAlone(t)
  BY ONLY <1>4 DEF Holding, DestroysAlone
<1>6. PICK c \in DOMAIN heap : c = loc[t].block
  BY <1>2, <1>4, TicketFacts
<1>7. PICK k \in Slots : k = Slot0(loc[t].index)
  BY <1>2, <1>4, TicketFacts
<1>8. BitSet(c, k, "WRITE")
  BY <1>2, <1>3, <1>6, <1>7, SetBitIsBitSet
<1>9. MaySet(t, c, k, "WRITE")
  <2>1. Passed(tail, c, k)
    BY <1>2, <1>4, <1>6, <1>7, TicketFacts
  <2>2. ASSUME NEW u \in Threads, u # t, Writing(u)
        PROVE  ~ (loc[u].block = c /\ Slot0(loc[u].index) = k)
    <3>1. TicketInv /\ Writing(t) /\ Writing(u)
      BY ONLY <1>2, <1>4, <2>2
    <3>2. ~ (loc[u].block = loc[t].block /\ Slot0(loc[u].index) = Slot0(loc[t].index))
      BY ONLY <2>2, <3>1, OtherSlot
    <3> QED
      BY ONLY <1>6, <1>7, <3>2
  <2> QED
    BY ONLY <2>1, <2>2 DEF MaySet
<1> QED
  BY <1>1, <1>3, <1>4, <1>5, <1>8, <1>9, BitStep

\* A slot that has been handed over is the only one of its block.
LEMMA OneHandedOver ==
    ASSUME BlockInv, ~ gone, NEW c \in DOMAIN heap, NEW k \in Slots, HandedOver(c, k),
           NEW i \in Slots, HandedOver(c, i)
    PROVE  i = k
<1>1. SlotBits
  BY DEF BlockInv
<1>2. /\ \A j \in 0 .. k - 1 : "READ" \in State(c, j)
      /\ \A j \in 0 .. i - 1 : "READ" \in State(c, j)
  BY ONLY <1>1, c \in DOMAIN heap, k \in Slots, i \in Slots, HandedOver(c, k), HandedOver(c, i)
     DEF SlotBits
<1>3. "READ" \notin State(c, k) /\ "READ" \notin State(c, i)
  BY DEF HandedOver
<1>4. i \in Nat /\ k \in Nat
  BY Laps
<1> QED
  BY ONLY <1>2, <1>3, <1>4

\* READ is set by the only reader of the slot; if DESTROY is there, nobody else destroys the block.
LEMMA MarkReadHolds ==
    ASSUME BlockInv, NEW t \in Threads, MarkRead(t)
    PROVE  BlockInv'
<1>1. Acts(t)
  BY DEF Acts, Step
<1>2. /\ TicketInv /\ TicketInv' /\ ~ gone /\ SlotBits /\ \A u \in Threads : Holding(u)
      /\ pc \in [Threads -> {"idle"} \cup Pushing \cup Popping \cup Asking]
      /\ loc \in [Threads -> Locals]
      /\ \A u \in Threads : u # t => pc'[u] = pc[u] /\ loc'[u] = loc[u]
  BY <1>1, Around
<1>3. Reading(t) /\ pc[t] = "pop_read"
  BY DEF MarkRead, Reading
<1>4. PICK c \in DOMAIN heap : c = loc[t].block
  BY <1>2, <1>3, TicketFacts
<1>5. PICK k \in Slots : k = Slot0(loc[t].index)
  BY <1>2, <1>3, TicketFacts
<1>6. /\ SetBit(t, k, "READ") /\ UNCHANGED <<head, tail>>
      /\ \/ "DESTROY" \in State(c, k) /\ pc'[t] = "destroy" /\ loc'[t].block = c /\ loc'[t].cursor = k + 1
         \/ "DESTROY" \notin State(c, k) /\ pc'[t] = "idle"
  BY ONLY <1>2, <1>4, <1>5, MarkRead(t) DEF MarkRead, Return, Goto, positions, Bits, State, Locals
<1>7. ~ Writing(t)' /\ ~ Reading(t)' /\ pc'[t] # "pop_read"
  BY ONLY <1>6 DEF Writing, Reading, Moving
<1>8. Live(c) /\ "READ" \notin State(c, k) /\ "WRITE" \in State(c, k)
  BY ONLY <1>2, <1>3, <1>4, <1>5 DEF Holding
<1>9. BitSet(c, k, "READ")
  BY <1>2, <1>4, <1>6, SetBitIsBitSet
<1>10. MaySet(t, c, k, "READ")
  <2>1. Passed(head, c, k)
    BY <1>2, <1>3, <1>4, <1>5, TicketFacts
  <2>2. ASSUME NEW u \in Threads, u # t, Reading(u)
        PROVE  ~ (loc[u].block = c /\ Slot0(loc[u].index) = k)
    BY <1>2, <1>3, <1>4, <1>5, <2>2, OtherSlot
  <2> QED
    BY ONLY <1>8, <2>1, <2>2 DEF MaySet
<1>11. CASE "DESTROY" \notin State(c, k)
  <2>1. ~ Destroying(t)'
    BY ONLY <1>6, <1>11 DEF Destroying
  <2>2. Holding(t)' /\ DestroysAlone(t)
    BY ONLY <1>7, <2>1 DEF Holding, DestroysAlone
  <2> QED
    BY <1>1, <1>6, <1>7, <1>9, <1>10, <2>2, BitStep
<1>12. CASE "DESTROY" \in State(c, k)
  <2>1. HandedOver(c, k) /\ pc'[t] = "destroy" /\ loc'[t].block = c /\ loc'[t].cursor = k + 1
    BY ONLY <1>6, <1>8, <1>12 DEF HandedOver
  <2>2. Begun(c) /\ \A j \in 0 .. k - 1 : "READ" \in State(c, j)
    BY ONLY <1>2, <1>12, <2>1, c \in DOMAIN heap, k \in Slots DEF SlotBits
  <2>3. \A u \in Threads : Destroying(u) => loc[u].block # c
    BY ONLY <1>2, <2>1, k \in Slots DEF Holding
  <2>4. DestroysAlone(t)
    BY ONLY <2>1, <2>3 DEF DestroysAlone
  <2>5. Begun(c)'
    BY <1>1, <1>6, <1>7, <1>9, <1>10, <2>2, BitsTellOn
  <2>6. /\ \A j \in Slots : heap[c].state[j] \subseteq heap'[c].state[j]
        /\ heap'[c].state[k] = heap[c].state[k] \cup {"READ"}
        /\ \A j \in Slots : j # k => heap'[c].state[j] = heap[c].state[j]
        /\ Live(c)'
    <3>1. \A j \in Slots : heap'[c].state[j] = heap[c].state[j] \cup (IF j = k THEN {"READ"} ELSE {})
      BY ONLY <1>4, <1>9 DEF BitSet
    <3>2. Live(c)'
      BY ONLY <1>4, <1>8, <1>9 DEF BitSet, Live
    <3> QED
      BY ONLY <1>5, <3>1, <3>2
  <2>7. \A j \in 0 .. loc'[t].cursor - 1 : "READ" \in heap'[c].state[j]
    <3>1. SUFFICES ASSUME NEW j \in 0 .. loc'[t].cursor - 1 PROVE "READ" \in heap'[c].state[j]
      OBVIOUS
    <3>2. j \in Slots /\ (j \in 0 .. k - 1 \/ j = k)
      BY ONLY <1>5, <2>1, <3>1, Laps
    <3> QED
      BY ONLY <2>2, <2>6, <3>2 DEF State
  <2>8. \A j \in Slots : ~ HandedOver(c, j)'
    <3>1. SUFFICES ASSUME NEW j \in Slots, HandedOver(c, j)' PROVE FALSE
      OBVIOUS
    <3>2. j # k
      BY ONLY <2>6, <3>1 DEF HandedOver, State
    <3>3. HandedOver(c, j)
      BY ONLY <2>6, <3>1, <3>2 DEF HandedOver, State
    <3> QED
      BY ONLY BlockInv, <1>2, <2>1, <3>2, <3>3, c \in DOMAIN heap, k \in Slots, j \in Slots, OneHandedOver
  <2>9. ASSUME NEW u \in Threads, u # t, Destroying(u)' PROVE loc'[u].block # c
    <3>1. Destroying(u) /\ loc'[u] = loc[u]
      BY ONLY <1>2, <2>9 DEF Destroying
    <3> QED
      BY ONLY <2>3, <3>1
  <2>10. Holding(t)'
    BY ONLY <1>7, <2>1, <2>5, <2>6, <2>7, <2>8, <2>9 DEF Holding, State
  <2> QED
    BY <1>1, <1>6, <1>7, <1>9, <1>10, <2>4, <2>10, BitStep
<1> QED
  BY <1>11, <1>12

\* DESTROY is set by the only destroyer, which stops unless the slot has been read.
LEMMA MarkDestroyHolds ==
    ASSUME BlockInv, NEW t \in Threads, MarkDestroy(t)
    PROVE  BlockInv'
<1>1. Acts(t)
  BY DEF Acts, Step
<1>2. /\ TicketInv /\ TicketInv' /\ ~ gone /\ Holding(t)
      /\ pc \in [Threads -> {"idle"} \cup Pushing \cup Popping \cup Asking]
      /\ loc \in [Threads -> Locals]
      /\ \A u \in Threads : u # t => pc'[u] = pc[u] /\ loc'[u] = loc[u]
  BY <1>1, Around
<1>3. pc[t] = "mark" /\ Destroying(t)
  BY DEF MarkDestroy, Destroying
<1>4. PICK c \in DOMAIN heap : c = loc[t].block
  BY <1>2, <1>3 DEF Holding, Live
<1>5. PICK k \in Slots : k = loc[t].cursor
  BY <1>2, Own
<1>6. /\ SetBit(t, k, "DESTROY") /\ UNCHANGED <<head, tail>>
      /\ \/ "READ" \in State(c, k) /\ pc'[t] = "destroy" /\ loc'[t].block = c /\ loc'[t].cursor = k + 1
         \/ "READ" \notin State(c, k) /\ pc'[t] = "idle"
  BY ONLY <1>2, <1>4, <1>5, MarkDestroy(t) DEF MarkDestroy, Return, Goto, positions, Bits, State, Locals
<1>7. ~ Writing(t)' /\ ~ Reading(t)' /\ pc'[t] # "pop_read"
  BY ONLY <1>6 DEF Writing, Reading, Moving
<1>8. /\ Live(c) /\ Begun(c)
      /\ \A j \in 0 .. k - 1 : "READ" \in State(c, j)
      /\ \A i \in Slots : ~ HandedOver(c, i)
      /\ \A u \in Threads : u # t /\ Destroying(u) => loc[u].block # c
  BY ONLY <1>2, <1>3, <1>4, <1>5 DEF Holding
<1>9. BitSet(c, k, "DESTROY")
  BY <1>2, <1>4, <1>6, SetBitIsBitSet
<1>10. k < Last
  BY <1>2, <1>3, <1>5 DEF TicketInv, ReaderHolds, Last
<1>11. MaySet(t, c, k, "DESTROY")
  BY ONLY <1>8, <1>10 DEF MaySet
<1>12. CASE "READ" \notin State(c, k)
  <2>1. ~ Destroying(t)'
    BY ONLY <1>6, <1>12 DEF Destroying
  <2>2. Holding(t)' /\ DestroysAlone(t)
    BY ONLY <1>7, <2>1 DEF Holding, DestroysAlone
  <2> QED
    BY <1>1, <1>6, <1>7, <1>9, <1>11, <2>2, BitStep
<1>13. CASE "READ" \in State(c, k)
  <2>1. pc'[t] = "destroy" /\ loc'[t].block = c /\ loc'[t].cursor = k + 1
    BY ONLY <1>6, <1>13
  <2>2. DestroysAlone(t)
    BY ONLY <1>8, <2>1 DEF DestroysAlone
  <2>3. Begun(c)'
    BY <1>1, <1>6, <1>7, <1>8, <1>9, <1>11, BitsTellOn
  <2>4. /\ \A j \in Slots : heap[c].state[j] \subseteq heap'[c].state[j]
        /\ \A j \in Slots : j # k => heap'[c].state[j] = heap[c].state[j]
        /\ Live(c)'
    <3>1. \A j \in Slots : heap'[c].state[j] = heap[c].state[j] \cup (IF j = k THEN {"DESTROY"} ELSE {})
      BY ONLY <1>4, <1>9 DEF BitSet
    <3>2. Live(c)'
      BY ONLY <1>4, <1>8, <1>9 DEF BitSet, Live
    <3> QED
      BY ONLY <1>5, <3>1, <3>2
  <2>5. \A j \in 0 .. loc'[t].cursor - 1 : "READ" \in heap'[c].state[j]
    <3>1. SUFFICES ASSUME NEW j \in 0 .. loc'[t].cursor - 1 PROVE "READ" \in heap'[c].state[j]
      OBVIOUS
    <3>2. j \in Slots /\ (j \in 0 .. k - 1 \/ j = k)
      BY ONLY <1>5, <2>1, <3>1, Laps
    <3> QED
      BY ONLY <1>8, <1>13, <2>4, <3>2 DEF State
  <2>6. \A j \in Slots : ~ HandedOver(c, j)'
    <3>1. SUFFICES ASSUME NEW j \in Slots, HandedOver(c, j)' PROVE FALSE
      OBVIOUS
    <3>2. j # k
      BY ONLY <1>13, <2>4, <3>1 DEF HandedOver, State
    <3> QED
      BY ONLY <1>8, <2>4, <3>1, <3>2 DEF HandedOver, State
  <2>7. ASSUME NEW u \in Threads, u # t, Destroying(u)' PROVE loc'[u].block # c
    <3>1. Destroying(u) /\ loc'[u] = loc[u]
      BY ONLY <1>2, <2>7 DEF Destroying
    <3> QED
      BY ONLY <1>8, <2>7, <3>1
  <2>8. Holding(t)'
    BY ONLY <1>7, <2>1, <2>3, <2>4, <2>5, <2>6, <2>7 DEF Holding, State
  <2> QED
    BY <1>1, <1>6, <1>7, <1>9, <1>11, <2>2, <2>8, BitStep
<1> QED
  BY <1>12, <1>13

-----------------------------------------------------------------------------
(* Destroying a block *)

\* Nobody else holds the block that is freed.
LEMMA NobodyElseHolds ==
    ASSUME BlockInv, ~ gone, NEW t \in Threads, Destroying(t), loc[t].cursor = Last,
           NEW u \in Threads, u # t, Writing(u) \/ Reading(u) \/ Destroying(u)
    PROVE  loc[u].block # loc[t].block
<1>1. SUFFICES ASSUME loc[u].block = loc[t].block PROVE FALSE
  OBVIOUS
<1> DEFINE b == loc[t].block
           i == Slot0(loc[u].index)
<1>2. TicketInv /\ SlotBits /\ Holding(t) /\ Holding(u)
  BY DEF BlockInv
<1>3. /\ b \in DOMAIN heap /\ Begun(b) /\ ~ Destroying(u)
      /\ \A j \in 0 .. Last - 1 : "READ" \in State(b, j)
  BY ONLY <1>1, <1>2, Destroying(t), loc[t].cursor = Last, u # t DEF Holding, Live
<1>4. i \in Slots /\ (LastSlot(loc[u].index) <=> i = Last)
  <2>1. loc[u].index \in Nat /\ ~ Boundary(loc[u].index)
    BY <1>2, <1>3, Addresses DEF TicketInv, WriterHolds, ReaderHolds
  <2> QED
    BY ONLY <2>1, TicketSlot
<1>5. i # Last => "READ" \in State(b, i) /\ "WRITE" \in State(b, i)
  <2>1. i # Last => i \in 0 .. Last - 1
    BY ONLY <1>4, Laps DEF Last
  <2> QED
    BY ONLY <1>2, <1>3, <1>4, <2>1 DEF SlotBits
<1>6. "WRITE" \in State(b, Last) /\ (Reading(u) => ~ LastSlot(loc[u].index))
  BY ONLY <1>1, <1>3 DEF Begun
<1>7. /\ Writing(u) => "WRITE" \notin State(b, i)
      /\ Reading(u) => "READ" \notin State(b, i)
  BY ONLY <1>1, <1>2 DEF Holding
<1> QED
  BY <1>3, <1>4, <1>5, <1>6, <1>7

\* The block is freed.
LEMMA FreeHolds ==
    ASSUME BlockInv, NEW t \in Threads, Destroy(t), loc[t].cursor = Last
    PROVE  BlockInv'
<1>1. Acts(t)
  BY DEF Acts, Step
<1>2. /\ TicketInv /\ TicketInv' /\ ~ gone /\ SlotBits /\ FreedBehind
      /\ \A u \in Threads : Holding(u)
      /\ pc \in [Threads -> {"idle"} \cup Pushing \cup Popping \cup Asking]
      /\ \A u \in Threads : u # t => pc'[u] = pc[u] /\ loc'[u] = loc[u]
      /\ Pos(head) <= Pos(head')
  BY <1>1, Around
<1>3. pc[t] = "destroy" /\ Destroying(t)
  BY DEF Destroy, Destroying
<1>4. PICK c \in DOMAIN heap : c = loc[t].block
  BY <1>2, <1>3 DEF Holding, Live
<1>5. /\ heap' = [heap EXCEPT ![c] = FreedBlock] /\ pc'[t] = "idle"
      /\ UNCHANGED <<head, tail>>
  <2>1. ~ (loc[t].cursor < BLOCK_CAP - 1) /\ Last = BLOCK_CAP - 1
    BY Laps DEF Last
  <2> QED
    BY ONLY <1>2, <1>4, <2>1, Destroy(t) DEF Destroy, Return, Goto, positions
<1>6. ~ Writing(t)' /\ ~ Reading(t)' /\ ~ Destroying(t)' /\ pc'[t] # "pop_read"
  BY ONLY <1>5 DEF Writing, Reading, Moving, Destroying
<1>7. Holding(t)' /\ ReadsAhead(t)
  BY ONLY <1>6 DEF Holding, ReadsAhead
<1>8. /\ DOMAIN heap' = DOMAIN heap
      /\ \A b \in DOMAIN heap : b # c => heap'[b] = heap[b]
      /\ heap'[c] = FreedBlock
  BY ONLY <1>4, <1>5
<1>9. \A b \in DOMAIN heap : b # c /\ Begun(b) => Begun(b)'
  BY <1>2, <1>7, <1>8, BegunKept
<1>10. c <= Lap(head)
  BY ONLY <1>2, <1>3, <1>4 DEF Holding, Begun
<1>11. FreedBehind'
  BY ONLY <1>2, <1>4, <1>5, <1>8, <1>10 DEF FreedBehind
<1>12. SlotBits'
  <2>1. ASSUME NEW b \in DOMAIN heap', NEW i \in Slots
        PROVE  /\ "WRITE" \in heap'[b].state[i] => Passed(tail', b, i)
               /\ "READ" \in heap'[b].state[i] =>
                    Passed(head', b, i) /\ "WRITE" \in heap'[b].state[i]
               /\ "DESTROY" \in heap'[b].state[i] => i < Last /\ Begun(b)'
               /\ "DESTROY" \in heap'[b].state[i] /\ "READ" \notin heap'[b].state[i] =>
                    \A j \in 0 .. i - 1 : "READ" \in heap'[b].state[j]
    <3>1. CASE b = c
      <4>1. heap'[b].state[i] = {}
        BY ONLY <1>8, <2>1, <3>1 DEF FreedBlock, NewBlock
      <4> QED
        BY ONLY <4>1
    <3>2. CASE b # c
      <4>1. b \in DOMAIN heap /\ heap'[b] = heap[b]
        BY ONLY <1>8, <2>1, <3>2
      <4>2. /\ "WRITE" \in heap[b].state[i] => Passed(tail, b, i)
            /\ "READ" \in heap[b].state[i] => Passed(head, b, i) /\ "WRITE" \in heap[b].state[i]
            /\ "DESTROY" \in heap[b].state[i] => i < Last /\ Begun(b)
            /\ "DESTROY" \in heap[b].state[i] /\ "READ" \notin heap[b].state[i] =>
                 \A j \in 0 .. i - 1 : "READ" \in heap[b].state[j]
        BY ONLY <1>2, <2>1, <4>1 DEF SlotBits, State, HandedOver
      <4> QED
        BY ONLY <1>5, <1>9, <3>2, <4>1, <4>2
    <3> QED
      BY <3>1, <3>2
  <2> QED
    BY ONLY <2>1 DEF SlotBits, State, HandedOver, Passed
<1>13. ASSUME NEW u \in Threads, u # t PROVE Holding(u)'
  <2>1. Holding(u) /\ pc'[u] = pc[u] /\ loc'[u] = loc[u]
    BY ONLY <1>2, <1>13
  <2>2. PICK b \in Nat : b = loc[u].block
    BY <1>2, Addresses
  <2>3. CASE ~ (Writing(u) \/ Reading(u) \/ Destroying(u))
    <3>1. ~ Writing(u)' /\ ~ Reading(u)' /\ ~ Destroying(u)' /\ pc'[u] # "pop_read"
      BY ONLY <2>1, <2>3 DEF Writing, Reading, Moving, Destroying
    <3> QED
      BY ONLY <3>1 DEF Holding
  <2>4. CASE Writing(u) \/ Reading(u) \/ Destroying(u)
    <3>1. b # c
      BY <1>2, <1>3, <1>4, <1>13, <2>2, <2>4, NobodyElseHolds
    <3>2. Live(b)
      BY ONLY <2>1, <2>2, <2>4 DEF Holding
    <3>3. b \in DOMAIN heap /\ heap'[b] = heap[b] /\ Live(b)'
      BY ONLY <1>8, <3>1, <3>2 DEF Live
    <3>4. /\ Writing(u)' <=> Writing(u)
          /\ Reading(u)' <=> Reading(u)
          /\ Destroying(u)' <=> Destroying(u)
      BY ONLY <2>1 DEF Writing, Reading, Moving, Destroying
    <3>5. ASSUME Destroying(u)
          PROVE  /\ Begun(b)'
                 /\ \A j \in 0 .. loc[u].cursor - 1 : "READ" \in heap'[b].state[j]
                 /\ \A j \in Slots : ~ HandedOver(b, j)'
                 /\ \A v \in Threads : v # u /\ Destroying(v)' => loc'[v].block # b
      <4>1. /\ Begun(b)
            /\ \A j \in 0 .. loc[u].cursor - 1 : "READ" \in State(b, j)
            /\ \A j \in Slots : ~ HandedOver(b, j)
            /\ \A v \in Threads : v # u /\ Destroying(v) => loc[v].block # b
        BY ONLY <2>1, <2>2, <3>5 DEF Holding
      <4>2. \A v \in Threads : v # u /\ Destroying(v)' => loc'[v].block # b
        <5>1. SUFFICES ASSUME NEW v \in Threads, v # u, Destroying(v)' PROVE loc'[v].block # b
          OBVIOUS
        <5>2. Destroying(v) /\ loc'[v] = loc[v]
          BY ONLY <1>2, <1>6, <5>1 DEF Destroying
        <5> QED
          BY ONLY <4>1, <5>1, <5>2
      <4>3. /\ \A j \in 0 .. loc[u].cursor - 1 : "READ" \in heap'[b].state[j]
            /\ \A j \in Slots : ~ HandedOver(b, j)'
        BY ONLY <3>3, <4>1 DEF State, HandedOver
      <4> QED
        BY ONLY <1>9, <3>1, <3>3, <4>1, <4>2, <4>3
    <3>6. /\ Writing(u) => "WRITE" \notin heap'[b].state[Slot0(loc[u].index)]
          /\ Reading(u) => "READ" \notin heap'[b].state[Slot0(loc[u].index)]
          /\ pc[u] = "pop_read" => "WRITE" \in heap'[b].state[Slot0(loc[u].index)]
      BY ONLY <2>1, <2>2, <3>3 DEF Holding, State
    <3> QED
      BY ONLY <2>1, <2>2, <3>3, <3>4, <3>5, <3>6 DEF Holding, State
  <2> QED
    BY <2>3, <2>4
<1> QED
  BY <1>2, <1>7, <1>11, <1>12, <1>13 DEF BlockInv

\* The destruction goes on, stops at a slot that is being read, or frees the block.
LEMMA DestroyHolds ==
    ASSUME BlockInv, NEW t \in Threads, Destroy(t)
    PROVE  BlockInv'
<1>1. Acts(t)
  BY DEF Acts, Step
<1>2. /\ TicketInv /\ ~ gone /\ Holding(t) /\ loc \in [Threads -> Locals]
      /\ pc \in [Threads -> {"idle"} \cup Pushing \cup Popping \cup Asking]
      /\ Pos(head) <= Pos(head') /\ TicketInv'
      /\ \A u \in Threads : u # t => pc'[u] = pc[u] /\ loc'[u] = loc[u]
  BY <1>1, Around
<1>3. pc[t] = "destroy" /\ Destroying(t)
  BY DEF Destroy, Destroying
<1>4. CASE loc[t].cursor = Last
  BY <1>4, FreeHolds
<1>5. CASE loc[t].cursor # Last
  <2>1. PICK c \in DOMAIN heap : c = loc[t].block
    BY <1>2, <1>3 DEF Holding, Live
  <2>2. PICK k \in Slots : k = loc[t].cursor
    BY <1>2, Own
  <2>3. /\ heap' = heap /\ loc'[t].block = c /\ pc'[t] \in {"destroy", "mark"}
        /\ \/ loc'[t].cursor = k
           \/ loc'[t].cursor = k + 1 /\ "READ" \in State(c, k)
    BY ONLY <1>2, <1>3, <1>5, <2>1, <2>2, Destroy(t)
       DEF Destroy, Last, Goto, Bits, State, Locals
  <2>4. BitsKept
    BY <1>2, <2>3, BitsKeptFacts
  <2>5. ~ Writing(t)' /\ ~ Reading(t)' /\ Destroying(t)' /\ pc'[t] # "pop_read"
    BY ONLY <2>3 DEF Writing, Reading, Moving, Destroying
  <2>6. /\ Live(c) /\ Begun(c)
        /\ \A j \in 0 .. k - 1 : "READ" \in State(c, j)
        /\ \A i \in Slots : ~ HandedOver(c, i)
        /\ \A u \in Threads : u # t /\ Destroying(u) => loc[u].block # c
    BY ONLY <1>2, <1>3, <2>1, <2>2 DEF Holding
  <2>7. ReadsAhead(t) /\ DestroysAlone(t)
    BY ONLY <2>3, <2>5, <2>6 DEF ReadsAhead, DestroysAlone
  <2>8. Begun(c)'
    BY <1>2, <2>1, <2>3, <2>6, <2>7, BegunKept
  <2>9. \A j \in 0 .. loc'[t].cursor - 1 : "READ" \in heap'[c].state[j]
    <3>1. SUFFICES ASSUME NEW j \in 0 .. loc'[t].cursor - 1 PROVE "READ" \in heap'[c].state[j]
      OBVIOUS
    <3>2. j \in 0 .. k - 1 \/ (j = k /\ "READ" \in State(c, k))
      BY ONLY <2>2, <2>3, <3>1, Laps
    <3> QED
      BY ONLY <2>3, <2>6, <3>2 DEF State
  <2>10. Live(c)' /\ \A j \in Slots : ~ HandedOver(c, j)'
    BY ONLY <2>3, <2>6 DEF Live, HandedOver, State
  <2>11. ASSUME NEW u \in Threads, u # t, Destroying(u)' PROVE loc'[u].block # c
    <3>1. Destroying(u) /\ loc'[u] = loc[u]
      BY ONLY <1>2, <2>11 DEF Destroying
    <3> QED
      BY ONLY <2>6, <2>11, <3>1
  <2>12. Holding(t)'
    BY ONLY <2>3, <2>5, <2>8, <2>9, <2>10, <2>11 DEF Holding, State
  <2> QED
    BY <1>1, <2>4, <2>7, <2>12, Around, KeptStep
<1> QED
  BY <1>4, <1>5

-----------------------------------------------------------------------------
(* The theorem *)

\* At first there is no block.
LEMMA InitBlockInv == Init => BlockInv
<1>1. SUFFICES ASSUME Init PROVE BlockInv
  OBVIOUS
<1>2. TicketInv
  BY <1>1, InitTicketInv
<1>3. DOMAIN heap = {} /\ \A t \in Threads : pc[t] = "idle"
  BY <1>1 DEF Init
<1>4. SlotBits /\ FreedBehind
  BY ONLY <1>3 DEF SlotBits, FreedBehind
<1>5. \A t \in Threads : Holding(t)
  BY ONLY <1>3 DEF Holding, Writing, Reading, Moving, Destroying
<1> QED
  BY <1>2, <1>4, <1>5 DEF BlockInv

\* Every step keeps the invariant.
LEMMA NextBlockInv == BlockInv /\ [Next]_vars => BlockInv'
<1>1. SUFFICES ASSUME BlockInv, [Next]_vars PROVE BlockInv'
  OBVIOUS
<1>2. TicketInv
  BY <1>1 DEF BlockInv
<1>3. TicketInv'
  BY <1>1, <1>2, NextTicketInv
<1>4. CASE UNCHANGED vars
  <2>1. UNCHANGED <<tail, head, heap, pc, loc, gone>>
    BY <1>4 DEF vars, positions, others
  <2>2. SlotBits' = SlotBits /\ FreedBehind' = FreedBehind
    BY ONLY <2>1 DEF SlotBits, FreedBehind, State, HandedOver, Begun, Reading, Moving
  <2>3. \A t \in Threads : Holding(t)' = Holding(t)
    BY ONLY <2>1 DEF Holding, Live, State, HandedOver, Begun, Writing, Reading, Moving, Destroying
  <2> QED
    BY <1>1, <1>3, <2>1, <2>2, <2>3 DEF BlockInv
<1>5. CASE Drop
  <2>1. gone'
    BY <1>5 DEF Drop
  <2> QED
    BY <1>3, <2>1 DEF BlockInv
<1>6. ASSUME NEW t \in Threads, Acts(t) PROVE BlockInv'
  <2>1. CASE \/ Call(t) \/ FailSpuriously(t)
             \/ LoadTail(t) \/ LoadTailBlock(t) \/ InstallFirst(t) \/ PublishFirst(t)
             \/ LoseTailTicket(t) \/ LoadHead(t) \/ LoadHeadBlock(t) \/ LookAtTail(t)
             \/ LoseHeadTicket(t)
             \/ EmptyHead(t) \/ EmptyTail(t) \/ LenTail(t) \/ LenHead(t) \/ LenCheck(t)
    BY <1>1, <2>1, CallsAndLooks
  <2>2. CASE InstallNext(t) \/ SkipBoundary(t) \/ LinkNext(t) \/ WriteValue(t)
    BY <1>1, <2>2, WriterSteps
  <2>3. CASE WaitNext(t) \/ PeekNext(t) \/ MoveHeadBlock(t) \/ MoveHead(t)
    BY <1>1, <2>3, MoverSteps
  <2>4. CASE TakeTailTicket(t)
    BY <1>1, <2>4, TakeTailTicketHolds
  <2>5. CASE TakeHeadTicket(t)
    BY <1>1, <2>5, TakeHeadTicketHolds
  <2>6. CASE ReadValue(t)
    BY <1>1, <2>6, ReadValueHolds
  <2>7. CASE MarkWritten(t)
    BY <1>1, <2>7, MarkWrittenHolds
  <2>8. CASE MarkRead(t)
    BY <1>1, <2>8, MarkReadHolds
  <2>9. CASE MarkDestroy(t)
    BY <1>1, <2>9, MarkDestroyHolds
  <2>10. CASE Destroy(t)
    BY <1>1, <2>10, DestroyHolds
  <2> QED
    BY ONLY <1>6, <2>1, <2>2, <2>3, <2>4, <2>5, <2>6, <2>7, <2>8, <2>9, <2>10 DEF Acts, Step
<1> QED
  BY ONLY <1>1, <1>4, <1>5, <1>6 DEF Next, Acts

\* The invariant is strong enough.
LEMMA BlocksAreThere == BlockInv => NoBlockFreedUnderReader
<1>1. SUFFICES ASSUME BlockInv PROVE NoBlockFreedUnderReader
  OBVIOUS
<1>2. TicketInv
  BY <1>1 DEF BlockInv
<1>3. /\ gone => \A t \in Threads : pc[t] = "idle"
      /\ ~ gone => FreedBehind /\ \A t \in Threads : Holding(t)
  BY <1>1 DEF BlockInv, TicketInv
<1>4. /\ heap \in Seq(Block) /\ Lap(head) \in Nat /\ Lap(tail) \in Nat
      /\ HeadBehindTail /\ HeadBlock /\ TailBlock
      /\ tail_block \in Nat /\ head_block \in Nat /\ tail \in Nat /\ head \in Nat
  BY <1>2, Addresses DEF TicketInv, Types
<1>5. ASSUME ~ gone, NEW b \in Nat, Lap(head) < b, b <= Len(heap) PROVE Live(b)
  <2>1. b \in DOMAIN heap
    BY ONLY <1>4, <1>5
  <2> QED
    BY ONLY <1>3, <1>4, <1>5, <2>1 DEF FreedBehind, Live
<1>6. ASSUME NEW t \in Threads,
             pc[t] \in {"push_link", "push_write", "push_ready", "pop_wait", "pop_value",
                        "pop_read", "destroy", "mark"}
      PROVE  Live(loc[t].block)
  <2>1. ~ gone
    BY ONLY <1>3, <1>6
  <2> QED
    BY ONLY <1>3, <1>6, <2>1 DEF Holding, Writing, Reading, Moving, Destroying
<1>7. ASSUME NEW t \in Threads, pc[t] = "pop_peek" PROVE Live(loc[t].next)
  <2>1. ~ gone
    BY ONLY <1>3, <1>7
  <2>2. loc[t].next = Lap(head) + 2 /\ Lap(head) < Lap(tail)
    BY <1>2, <1>7 DEF TicketInv, ReaderHolds
  <2>3. Lap(head) + 2 <= Len(heap)
    BY <1>2, <2>2, TailAhead
  <2>4. Lap(head) + 2 \in Nat /\ Lap(head) < Lap(head) + 2
    BY ONLY <1>4
  <2>5. Live(Lap(head) + 2)
    BY ONLY <1>5, <2>1, <2>3, <2>4
  <2> QED
    BY ONLY <2>2, <2>5
<1>8. \A t \in Threads : pc[t] = "push_next" => loc[t].spare
  BY <1>2 DEF TicketInv, WriterHolds
<1>9. ASSUME ~ gone, NEW b \in {tail_block, head_block}, b # Null PROVE Live(b)
  <2>1. Lap(head) <= Lap(tail)
    BY ONLY <1>4, OrderFacts DEF HeadBehindTail
  <2>2. b \in Nat /\ Lap(head) < b /\ b <= Len(heap)
    <3>1. CASE b = tail_block
      BY ONLY <1>4, <1>9, <2>1, <3>1 DEF TailBlock
    <3>2. CASE b = head_block
      BY ONLY <1>4, <1>9, <3>2 DEF HeadBlock
    <3> QED
      BY <1>9, <3>1, <3>2
  <2> QED
    BY ONLY <1>5, <1>9, <2>2
<1> QED
  BY ONLY <1>6, <1>7, <1>8, <1>9 DEF NoBlockFreedUnderReader

(* The comment on the injector, "so no block is freed under a reader": the *)
(* handshake of READ and DESTROY in `pop` and `Block::destroy` leaves one  *)
(* thread that frees a block, after every writer and reader is done.       *)
THEOREM NoBlockIsFreedEarly == Spec => []NoBlockFreedUnderReader
<1>1. Spec => []BlockInv
  BY InitBlockInv, NextBlockInv, PTL DEF Spec
<1> QED
  BY <1>1, BlocksAreThere, PTL

-----------------------------------------------------------------------------
(* The inductive invariant: whatever is left to do, somebody will do *)

\* t installs the next block.
Installing(t) == pc[t] \in {"push_next", "push_tail"}

\* t links block b to the next one.
Linking(t, b) == pc[t] \in {"push_tail", "push_link"} /\ loc[t].block = b

\* t writes, or reads, slot i of block b.
At(t, b, i) == loc[t].block = b /\ Slot0(loc[t].index) = i
Filling(t, b, i) == Writing(t) /\ At(t, b, i)
Emptying(t, b, i) == Reading(t) /\ At(t, b, i)

\* t destroys block b, or goes on with it after its slot.
Freeing(t, b) ==
    /\ loc[t].block = b
    /\ \/ Destroying(t)
       \/ Reading(t) /\ (LastSlot(loc[t].index) \/ HandedOver(b, Slot0(loc[t].index)))

\* What there is to do in a block.
BlockDuties(b) ==
    /\ b < Len(heap) /\ heap[b].next = Null => \E t \in Threads : Linking(t, b)
    /\ \A i \in Slots :
        Passed(tail, b, i) /\ "WRITE" \notin State(b, i) => \E t \in Threads : Filling(t, b, i)
    /\ \A i \in 0 .. Last - 1 :
        Passed(head, b, i) /\ "READ" \notin State(b, i) => \E t \in Threads : Emptying(t, b, i)
    /\ b <= Lap(head) => \E t \in Threads : Freeing(t, b)

Duties ==
    /\ Boundary(tail) => \E t \in Threads : Installing(t)
    /\ Boundary(head) => \E t \in Threads : Moving(t)
    /\ tail_block # Null /\ head_block = Null => \E t \in Threads : pc[t] = "push_head"
    /\ \A b \in DOMAIN heap : ~ heap[b].freed => BlockDuties(b)

DutyInv == BlockInv /\ (~ gone => Duties)

-----------------------------------------------------------------------------
(* What a step leaves to do *)

\* What t does not do is left to the threads that did it before.
LEMMA DutiesInBlock ==
    ASSUME Duties, NEW t \in Threads, NEW b \in DOMAIN heap, ~ heap[b].freed,
           \A u \in Threads : u # t => pc'[u] = pc[u] /\ loc'[u] = loc[u],
           heap'[b].state = heap[b].state,
           b < Len(heap') /\ heap'[b].next = Null =>
              Linking(t, b)' \/ (b < Len(heap) /\ heap[b].next = Null /\ ~ Linking(t, b)),
           \A i \in Slots : Passed(tail', b, i) =>
              Filling(t, b, i)' \/ (Passed(tail, b, i) /\ ~ Filling(t, b, i)),
           \A i \in 0 .. Last - 1 : Passed(head', b, i) =>
              Emptying(t, b, i)' \/ (Passed(head, b, i) /\ ~ Emptying(t, b, i)),
           b <= Lap(head') => Freeing(t, b)' \/ (b <= Lap(head) /\ ~ Freeing(t, b))
    PROVE  BlockDuties(b)'
<1>1. BlockDuties(b)
  BY DEF Duties
<1>2. ASSUME NEW u \in Threads, u # t
      PROVE  /\ Linking(u, b) => Linking(u, b)'
             /\ \A i : Filling(u, b, i) => Filling(u, b, i)'
             /\ \A i : Emptying(u, b, i) => Emptying(u, b, i)'
             /\ Freeing(u, b) => Freeing(u, b)'
  <2>1. pc'[u] = pc[u] /\ loc'[u] = loc[u]
    BY <1>2
  <2> QED
    BY ONLY <2>1, heap'[b].state = heap[b].state
       DEF Linking, Filling, Emptying, Freeing, At, Writing, Reading, Moving, Destroying,
           HandedOver, State
<1>3. b < Len(heap') /\ heap'[b].next = Null => \E u \in Threads : Linking(u, b)'
  BY ONLY <1>1, <1>2, t \in Threads,
          b < Len(heap') /\ heap'[b].next = Null =>
            Linking(t, b)' \/ (b < Len(heap) /\ heap[b].next = Null /\ ~ Linking(t, b))
     DEF BlockDuties
<1>4. ASSUME NEW i \in Slots, Passed(tail', b, i), "WRITE" \notin heap'[b].state[i]
      PROVE  \E u \in Threads : Filling(u, b, i)'
  <2>1. Filling(t, b, i)' \/ (Passed(tail, b, i) /\ ~ Filling(t, b, i))
    BY <1>4
  <2>2. CASE Filling(t, b, i)'
    BY <2>2
  <2>3. CASE Passed(tail, b, i) /\ ~ Filling(t, b, i)
    <3>1. PICK u \in Threads : Filling(u, b, i)
      BY <1>1, <1>4, <2>3 DEF BlockDuties, State
    <3>2. u # t
      BY <2>3, <3>1
    <3> QED
      BY <1>2, <3>1, <3>2
  <2> QED
    BY <2>1, <2>2, <2>3
<1>5. ASSUME NEW i \in 0 .. Last - 1, Passed(head', b, i), "READ" \notin heap'[b].state[i]
      PROVE  \E u \in Threads : Emptying(u, b, i)'
  <2>1. Emptying(t, b, i)' \/ (Passed(head, b, i) /\ ~ Emptying(t, b, i))
    BY <1>5
  <2>2. CASE Emptying(t, b, i)'
    BY <2>2
  <2>3. CASE Passed(head, b, i) /\ ~ Emptying(t, b, i)
    <3>1. PICK u \in Threads : Emptying(u, b, i)
      BY <1>1, <1>5, <2>3 DEF BlockDuties, State
    <3>2. u # t
      BY <2>3, <3>1
    <3> QED
      BY <1>2, <3>1, <3>2
  <2> QED
    BY <2>1, <2>2, <2>3
<1>6. b <= Lap(head') => \E u \in Threads : Freeing(u, b)'
  BY ONLY <1>1, <1>2, t \in Threads,
          b <= Lap(head') => Freeing(t, b)' \/ (b <= Lap(head) /\ ~ Freeing(t, b))
     DEF BlockDuties
<1> QED
  BY ONLY <1>3, <1>4, <1>5, <1>6 DEF BlockDuties, State, Passed

\* The same for the duties that belong to no block.
LEMMA DutiesOn ==
    ASSUME DutyInv, ~ gone, BlockInv', NEW t \in Threads,
           \A u \in Threads : u # t => pc'[u] = pc[u] /\ loc'[u] = loc[u],
           Boundary(tail') => Installing(t)' \/ (Boundary(tail) /\ ~ Installing(t)),
           Boundary(head') => Moving(t)' \/ (Boundary(head) /\ ~ Moving(t)),
           tail_block' # Null /\ head_block' = Null =>
              \/ pc'[t] = "push_head"
              \/ tail_block # Null /\ head_block = Null /\ pc[t] # "push_head",
           \A b \in DOMAIN heap' : ~ heap'[b].freed => BlockDuties(b)'
    PROVE  DutyInv'
<1>1. Duties
  BY DEF DutyInv
<1>2. ASSUME NEW u \in Threads, u # t
      PROVE  /\ Installing(u) => Installing(u)'
             /\ Moving(u) => Moving(u)'
             /\ pc'[u] = pc[u]
  BY <1>2 DEF Installing, Moving
<1>3. Boundary(tail') => \E u \in Threads : Installing(u)'
  BY ONLY <1>1, <1>2, t \in Threads,
          Boundary(tail') => Installing(t)' \/ (Boundary(tail) /\ ~ Installing(t)) DEF Duties
<1>4. Boundary(head') => \E u \in Threads : Moving(u)'
  BY ONLY <1>1, <1>2, t \in Threads,
          Boundary(head') => Moving(t)' \/ (Boundary(head) /\ ~ Moving(t)) DEF Duties
<1>5. tail_block' # Null /\ head_block' = Null => \E u \in Threads : pc'[u] = "push_head"
  BY ONLY <1>1, <1>2, t \in Threads,
          tail_block' # Null /\ head_block' = Null =>
              \/ pc'[t] = "push_head"
              \/ tail_block # Null /\ head_block = Null /\ pc[t] # "push_head"
     DEF Duties
<1>6. Duties'
  BY ONLY <1>3, <1>4, <1>5, \A b \in DOMAIN heap' : ~ heap'[b].freed => BlockDuties(b)'
     DEF Duties, Boundary, Slot0, Pos
<1> QED
  BY <1>6 DEF DutyInv

\* A step that moves no index, installs no block and leaves the bits alone.
LEMMA QuietDuties ==
    ASSUME DutyInv, NEW t \in Threads, Acts(t), BlockInv',
           tail' = tail, head' = head, tail_block' = tail_block,
           head_block' = Null => head_block = Null /\ (pc[t] = "push_head" => pc'[t] = "push_head"),
           DOMAIN heap' = DOMAIN heap,
           \A b \in DOMAIN heap :
              /\ heap'[b].state = heap[b].state /\ heap'[b].freed = heap[b].freed
              /\ heap'[b].next = heap[b].next,
           Installing(t) => Installing(t)',
           Moving(t) => Moving(t)',
           \A b : /\ Linking(t, b) => Linking(t, b)'
                  /\ \A i : Filling(t, b, i) => Filling(t, b, i)'
                  /\ \A i \in 0 .. Last - 1 : Emptying(t, b, i) => Emptying(t, b, i)'
                  /\ b \in DOMAIN heap /\ Freeing(t, b) => Freeing(t, b)'
    PROVE  DutyInv'
<1>1. /\ ~ gone /\ \A u \in Threads : u # t => pc'[u] = pc[u] /\ loc'[u] = loc[u]
      /\ heap \in Seq(Block) /\ heap' \in Seq(Block)
  <2>1. BlockInv
    BY DEF DutyInv
  <2>2. TicketInv /\ TicketInv'
    BY <2>1, Around
  <2> QED
    BY <2>1, <2>2, Around DEF TicketInv, Types
<1>2. Duties
  BY <1>1 DEF DutyInv
<1>3. Len(heap') = Len(heap)
  BY <1>1
<1>4. ASSUME NEW b \in DOMAIN heap', ~ heap'[b].freed PROVE BlockDuties(b)'
  <2>1. /\ b \in DOMAIN heap /\ ~ heap[b].freed
        /\ heap'[b].state = heap[b].state /\ heap'[b].next = heap[b].next
    BY <1>4
  <2>2. /\ Linking(t, b) => Linking(t, b)'
        /\ \A i \in Slots : Filling(t, b, i) => Filling(t, b, i)'
        /\ \A i \in 0 .. Last - 1 : Emptying(t, b, i) => Emptying(t, b, i)'
        /\ Freeing(t, b) => Freeing(t, b)'
    BY <2>1
  <2>3. /\ \A i \in Slots : Passed(tail', b, i) = Passed(tail, b, i)
        /\ \A i \in 0 .. Last - 1 : Passed(head', b, i) = Passed(head, b, i)
        /\ Lap(head') = Lap(head)
    BY ONLY tail' = tail, head' = head
  <2>4. b < Len(heap') /\ heap'[b].next = Null =>
              Linking(t, b)' \/ (b < Len(heap) /\ heap[b].next = Null /\ ~ Linking(t, b))
    BY ONLY <1>3, <2>1, <2>2
  <2>5. /\ \A i \in Slots : Passed(tail', b, i) =>
              Filling(t, b, i)' \/ (Passed(tail, b, i) /\ ~ Filling(t, b, i))
        /\ \A i \in 0 .. Last - 1 : Passed(head', b, i) =>
              Emptying(t, b, i)' \/ (Passed(head, b, i) /\ ~ Emptying(t, b, i))
        /\ b <= Lap(head') => Freeing(t, b)' \/ (b <= Lap(head) /\ ~ Freeing(t, b))
    BY ONLY <2>2, <2>3
  <2> QED
    BY <1>1, <1>2, <2>1, <2>4, <2>5, DutiesInBlock
<1>5. /\ Boundary(tail') => Installing(t)' \/ (Boundary(tail) /\ ~ Installing(t))
      /\ Boundary(head') => Moving(t)' \/ (Boundary(head) /\ ~ Moving(t))
  OBVIOUS
<1> QED
  BY <1>1, <1>4, <1>5, DutiesOn

\* The program counters of threads that have nothing to do for others.
Outside == {"idle", "push_index", "push_block", "push_first", "push_cas",
            "pop_index", "pop_block", "pop_tail", "pop_cas", "empty_head", "empty_tail",
            "len_tail", "len_head", "len_check"}

LEMMA OutsideFacts ==
    ASSUME NEW t \in Threads, pc[t] \in Outside
    PROVE  /\ ~ Installing(t) /\ ~ Moving(t) /\ pc[t] # "push_head"
           /\ \A b : ~ Linking(t, b) /\ ~ Freeing(t, b)
           /\ \A b, i : ~ Filling(t, b, i) /\ ~ Emptying(t, b, i)
BY DEF Outside, Installing, Moving, Linking, Filling, Emptying, Freeing, Writing, Reading, Destroying

\* Calls, loads and lost tickets.
LEMMA LooksKeepDuties ==
    ASSUME DutyInv, NEW t \in Threads, BlockInv',
           \/ Call(t) \/ FailSpuriously(t)
           \/ LoadTail(t) \/ LoadTailBlock(t) \/ LoseTailTicket(t)
           \/ LoadHead(t) \/ LoadHeadBlock(t) \/ LookAtTail(t) \/ LoseHeadTicket(t)
           \/ EmptyHead(t) \/ EmptyTail(t) \/ LenTail(t) \/ LenHead(t) \/ LenCheck(t)
    PROVE  DutyInv'
<1>1. Acts(t)
  BY DEF Acts, Step
<1>2. UNCHANGED <<positions, heap>> /\ pc[t] \in Outside
  <2>1. CASE Call(t) \/ FailSpuriously(t)
    BY ONLY <2>1 DEF Call, CallPush, CallPop, CallIsEmpty, CallLen, Begin, FailSpuriously, Outside
  <2>2. CASE \/ LoadTail(t) \/ LoadTailBlock(t) \/ LoseTailTicket(t)
             \/ LoadHead(t) \/ LoadHeadBlock(t) \/ LookAtTail(t) \/ LoseHeadTicket(t)
    BY ONLY <2>2 DEF LoadTail, LoadTailBlock, LoseTailTicket, LoadHead, LoadHeadBlock,
       LookAtTail, LoseHeadTicket, Outside
  <2>3. CASE EmptyHead(t) \/ EmptyTail(t) \/ LenTail(t) \/ LenHead(t) \/ LenCheck(t)
    BY ONLY <2>3 DEF EmptyHead, EmptyTail, LenTail, LenHead, LenCheck, Outside
  <2> QED
    BY <2>1, <2>2, <2>3
<1>3. /\ ~ Installing(t) /\ ~ Moving(t) /\ pc[t] # "push_head"
      /\ \A b : ~ Linking(t, b) /\ ~ Freeing(t, b)
      /\ \A b, i : ~ Filling(t, b, i) /\ ~ Emptying(t, b, i)
  BY <1>2, OutsideFacts
<1>4. /\ tail' = tail /\ head' = head /\ tail_block' = tail_block /\ head_block' = head_block
      /\ heap' = heap
  BY ONLY <1>2 DEF positions
<1> QED
  BY <1>1, <1>3, <1>4, QuietDuties

\* A thread that goes on with its ticket, and neither installs nor links a block.
LEMMA SameDuties ==
    ASSUME DutyInv, NEW t \in Threads, BlockInv',
           WaitNext(t) \/ PeekNext(t) \/ MoveHeadBlock(t) \/ WriteValue(t)
    PROVE  DutyInv'
<1>1. Acts(t)
  BY DEF Acts, Step
<1>2. /\ TicketInv /\ loc \in [Threads -> Locals] /\ heap \in Seq(Block)
      /\ pc \in [Threads -> {"idle"} \cup Pushing \cup Popping \cup Asking]
  <2>1. BlockInv
    BY DEF DutyInv
  <2> QED
    BY <1>1, <2>1, Around DEF TicketInv, Types
<1>3. tail' = tail /\ head' = head /\ tail_block' = tail_block /\ pc[t] # "push_head"
  BY ONLY WaitNext(t) \/ PeekNext(t) \/ MoveHeadBlock(t) \/ WriteValue(t)
     DEF WaitNext, PeekNext, MoveHeadBlock, WriteValue, positions
<1>4. head_block' = Null => head_block = Null
  <2>1. CASE MoveHeadBlock(t)
    <3>1. loc[t].next = Lap(head) + 2 /\ head_block' = loc[t].next
      BY <1>2, <2>1, Own DEF MoveHeadBlock, Keeps, ReaderHolds
    <3>2. Lap(head) \in Nat
      BY <1>2, Addresses
    <3> QED
      BY ONLY <3>1, <3>2 DEF Null
  <2>2. CASE ~ MoveHeadBlock(t)
    BY ONLY <2>2, WaitNext(t) \/ PeekNext(t) \/ MoveHeadBlock(t) \/ WriteValue(t)
       DEF WaitNext, PeekNext, WriteValue, positions
  <2> QED
    BY <2>1, <2>2
<1>5. /\ loc'[t].block = loc[t].block /\ loc'[t].index = loc[t].index
      /\ Writing(t)' = Writing(t) /\ Reading(t)' = Reading(t) /\ Moving(t)' = Moving(t)
      /\ ~ Installing(t) /\ ~ Destroying(t) /\ \A b : ~ Linking(t, b)
  BY ONLY <1>2, WaitNext(t) \/ PeekNext(t) \/ MoveHeadBlock(t) \/ WriteValue(t)
     DEF WaitNext, PeekNext, MoveHeadBlock, WriteValue, Goto, Locals, Writing, Reading, Moving,
         Installing, Destroying, Linking
<1>6. /\ DOMAIN heap' = DOMAIN heap
      /\ \A b \in DOMAIN heap :
              /\ heap'[b].state = heap[b].state /\ heap'[b].freed = heap[b].freed
              /\ heap'[b].next = heap[b].next
  <2>1. CASE ~ WriteValue(t)
    BY ONLY <2>1, WaitNext(t) \/ PeekNext(t) \/ MoveHeadBlock(t) \/ WriteValue(t)
       DEF WaitNext, PeekNext, MoveHeadBlock
  <2>2. CASE WriteValue(t)
    <3>1. \A b \in DOMAIN heap : heap[b] \in Block
      BY ONLY <1>2
    <3>2. heap' = [heap EXCEPT ![loc[t].block].value[Slot0(loc[t].index)] = loc[t].value]
      BY ONLY <2>2 DEF WriteValue
    <3> QED
      BY ONLY <3>1, <3>2 DEF Block
  <2> QED
    BY <2>1, <2>2
<1>7. \A b : /\ \A i : Filling(t, b, i) => Filling(t, b, i)'
             /\ \A i \in 0 .. Last - 1 : Emptying(t, b, i) => Emptying(t, b, i)'
             /\ b \in DOMAIN heap /\ Freeing(t, b) => Freeing(t, b)'
  BY ONLY <1>5, <1>6 DEF Filling, Emptying, Freeing, At, HandedOver, State
<1> QED
  BY <1>1, <1>3, <1>4, <1>5, <1>6, <1>7, QuietDuties

\* The surroundings of a step, for what is to be done.
LEMMA Before ==
    ASSUME DutyInv, NEW t \in Threads, Acts(t)
    PROVE  /\ BlockInv /\ Duties /\ TicketInv /\ TicketInv' /\ ~ gone
           /\ loc \in [Threads -> Locals] /\ heap \in Seq(Block) /\ heap' \in Seq(Block)
           /\ \A b \in DOMAIN heap : b \in Nat /\ heap[b] \in Block
           /\ pc \in [Threads -> {"idle"} \cup Pushing \cup Popping \cup Asking]
           /\ \A u \in Threads : u # t => pc'[u] = pc[u] /\ loc'[u] = loc[u]
           /\ tail \in Nat /\ head \in Nat /\ Lap(tail) \in Nat /\ Lap(head) \in Nat
           /\ Lap(head) <= Lap(tail)
<1>1. BlockInv
  BY DEF DutyInv
<1>2. /\ TicketInv /\ TicketInv' /\ ~ gone
      /\ loc \in [Threads -> Locals]
      /\ pc \in [Threads -> {"idle"} \cup Pushing \cup Popping \cup Asking]
      /\ \A u \in Threads : u # t => pc'[u] = pc[u] /\ loc'[u] = loc[u]
  BY <1>1, Around
<1>3. heap' \in Seq(Block)
  BY <1>2 DEF TicketInv, Types
<1>4. /\ heap \in Seq(Block) /\ \A b \in DOMAIN heap : b \in Nat /\ heap[b] \in Block
      /\ tail \in Nat /\ head \in Nat /\ Lap(tail) \in Nat /\ Lap(head) \in Nat
  BY <1>2, Addresses
<1>5. Lap(head) <= Lap(tail)
  BY <1>2, <1>4, OrderFacts DEF TicketInv, HeadBehindTail
<1> QED
  BY <1>1, <1>2, <1>3, <1>4, <1>5 DEF DutyInv

\* The first block is empty, and t publishes it.
LEMMA InstallFirstDuties ==
    ASSUME DutyInv, NEW t \in Threads, BlockInv', InstallFirst(t)
    PROVE  DutyInv'
<1>1. Acts(t)
  BY DEF Acts, Step
<1>2. /\ BlockInv /\ Duties /\ TicketInv /\ TicketInv' /\ ~ gone
      /\ loc \in [Threads -> Locals] /\ heap \in Seq(Block)
      /\ pc \in [Threads -> {"idle"} \cup Pushing \cup Popping \cup Asking]
      /\ \A u \in Threads : u # t => pc'[u] = pc[u] /\ loc'[u] = loc[u]
      /\ tail \in Nat /\ head \in Nat /\ Lap(head) <= Lap(tail)
  BY <1>1, Before
<1>3. /\ pc[t] = "push_first" /\ tail' = tail /\ head' = head /\ head_block' = head_block
  BY DEF InstallFirst
<1>4. /\ ~ Installing(t) /\ ~ Moving(t) /\ \A b : ~ Linking(t, b) /\ ~ Freeing(t, b)
      /\ \A b, i : ~ Filling(t, b, i) /\ ~ Emptying(t, b, i)
  BY ONLY <1>3 DEF Installing, Moving, Linking, Filling, Emptying, Freeing, Writing, Reading, Destroying
<1>5. CASE tail_block # Null
  <2>1. heap' = heap /\ tail_block' = tail_block
    BY <1>5 DEF InstallFirst
  <2> QED
    BY <1>1, <1>3, <1>4, <2>1, QuietDuties
<1>6. CASE tail_block = Null
  <2>1. heap' = Append(heap, NewBlock) /\ pc'[t] = "push_head"
    BY ONLY <1>2, <1>6, InstallFirst(t) DEF InstallFirst, Goto
  <2>2. tail_block = Len(heap) /\ tail = 0
    BY <1>2, <1>6 DEF TicketInv, TailBlock
  <2>3. Len(heap) = 0
    BY ONLY <1>6, <2>2 DEF Null
  <2>4. heap' = <<NewBlock>>
    BY ONLY <1>2, <2>1, <2>3
  <2>5. DOMAIN heap' = {1} /\ Len(heap') = 1
    BY ONLY <2>4
  <2>6. Lap(tail) = 0 /\ Slot0(tail) = 0 /\ Lap(head) = 0 /\ ~ Boundary(tail) /\ ~ Boundary(head)
    <3>1. Lap(head) = 0 /\ head = 0
      <4>1. HeadBehindTail /\ HeadBlock
        BY <1>2 DEF TicketInv
      <4>2. Pos(head) \in Nat /\ Pos(head) <= Pos(0)
        BY <1>2, <2>2, <4>1, IndexFacts DEF HeadBehindTail
      <4>3. head_block = Null
        <5>1. Lap(head) \in Nat
          BY <1>2, IndexFacts
        <5> QED
          BY ONLY <2>3, <4>1, <5>1, <1>2 DEF HeadBlock, TicketInv, Types
      <4> QED
        BY <4>1, <4>3, Zero DEF HeadBlock
    <3> QED
      BY <2>2, <3>1, Zero
  <2>7. BlockDuties(1)'
    <3>1. 1 > Lap(head) /\ \A i \in Slots : ~ Passed(tail, 1, i) /\ ~ Passed(head, 1, i)
      <4>1. \A i \in Slots : i \in Nat
        BY Laps
      <4>2. Slot0(head) = 0
        <5>1. head = 0
          BY <1>2, <2>3, <2>6 DEF TicketInv, HeadBlock, Types
        <5> QED
          BY <5>1, Zero
      <4> QED
        BY ONLY <2>6, <4>1, <4>2 DEF Passed
    <3>2. ~ (1 < Len(heap')) /\ ~ (1 <= Lap(head))
      BY ONLY <2>5, <2>6
    <3>3. \A i \in 0 .. Last - 1 : i \in Slots
      BY Laps DEF Last
    <3> QED
      BY ONLY <1>3, <3>1, <3>2, <3>3 DEF BlockDuties, Passed
  <2>8. /\ Boundary(tail') => FALSE
        /\ Boundary(head') => FALSE
    BY ONLY <1>3, <2>6
  <2>9. \A b \in DOMAIN heap' : BlockDuties(b)'
    BY ONLY <2>5, <2>7
  <2> QED
    BY <1>2, <2>1, <2>8, <2>9, DutiesOn
<1> QED
  BY <1>5, <1>6

\* The head's block is published.
LEMMA PublishFirstDuties ==
    ASSUME DutyInv, NEW t \in Threads, BlockInv', PublishFirst(t)
    PROVE  DutyInv'
<1>1. Acts(t)
  BY DEF Acts, Step
<1>2. TicketInv
  BY <1>1, Before
<1>3. loc[t].block = 1
  BY <1>2, Own DEF PublishFirst, Keeps, PushSaw
<1>4. /\ pc[t] = "push_head" /\ tail' = tail /\ head' = head /\ tail_block' = tail_block
      /\ heap' = heap /\ head_block' # Null
  BY <1>3 DEF PublishFirst, Null
<1>5. /\ ~ Installing(t) /\ ~ Moving(t) /\ \A b : ~ Linking(t, b) /\ ~ Freeing(t, b)
      /\ \A b, i : ~ Filling(t, b, i) /\ ~ Emptying(t, b, i)
  BY ONLY <1>4 DEF Installing, Moving, Linking, Filling, Emptying, Freeing, Writing, Reading, Destroying
<1> QED
  BY <1>1, <1>4, <1>5, QuietDuties

\* Which slots a ticket passes.
LEMMA NextPassed ==
    ASSUME NEW m \in Nat, NEW n \in Nat, Pos(n) = Pos(m) + 1, NEW b \in Nat, NEW i \in Slots
    PROVE  /\ Passed(n, b, i) => Passed(m, b, i) \/ (~ Boundary(m) /\ b = Lap(m) + 1 /\ i = Slot0(m))
           /\ Boundary(n) => ~ Boundary(m) /\ LastSlot(m)
           /\ ~ Boundary(m) => Lap(n) = Lap(m)
           /\ Boundary(m) => Lap(n) = Lap(m) + 1 /\ ~ Boundary(n)
<1>1. /\ Lap(m) \in Nat /\ Lap(n) \in Nat /\ Pos(m) \in Nat
      /\ ~ Boundary(m) => Lap(n) = Lap(m) /\ (Boundary(n) <=> LastSlot(m))
      /\ Boundary(m) => Lap(n) = Lap(m) + 1 /\ ~ Boundary(n)
  BY Successor
<1>2. /\ Slot0(m) \in 0 .. LAP - 1 /\ Slot0(n) \in 0 .. LAP - 1
      /\ Boundary(m) <=> Slot0(m) = LAP - 1
  BY IndexFacts
<1>3. /\ ~ Boundary(m) => Slot0(n) = Slot0(m) + 1
      /\ Boundary(m) => Slot0(n) = 0
  <2>1. m + 2 \in Nat /\ Pos(m + 2) = Pos(n)
    BY StepFacts
  <2>2. Slot0(n) = Slot0(m + 2)
    BY <2>1, OrderFacts
  <2> QED
    BY <2>2, StepFacts
<1>4. LAP \in Nat /\ i \in 0 .. LAP - 2
  BY Laps
<1>5. Passed(n, b, i) => Passed(m, b, i) \/ (~ Boundary(m) /\ b = Lap(m) + 1 /\ i = Slot0(m))
  BY ONLY <1>1, <1>2, <1>3, <1>4, b \in Nat DEF Passed
<1> QED
  BY ONLY <1>1, <1>5

\* With the ticket t has to write its slot, and maybe to install the next block.
LEMMA TakeTailTicketDuties ==
    ASSUME DutyInv, NEW t \in Threads, BlockInv', TakeTailTicket(t)
    PROVE  DutyInv'
<1>1. Acts(t)
  BY DEF Acts, Step
<1>2. /\ BlockInv /\ Duties /\ TicketInv /\ ~ gone
      /\ pc \in [Threads -> {"idle"} \cup Pushing \cup Popping \cup Asking]
      /\ \A u \in Threads : u # t => pc'[u] = pc[u] /\ loc'[u] = loc[u]
      /\ \A b \in DOMAIN heap : b \in Nat
      /\ tail \in Nat
  BY <1>1, Before
<1>3. /\ pc[t] = "push_cas" /\ tail = loc[t].index /\ tail' = tail + 2
      /\ heap' = heap /\ loc' = loc /\ head' = head /\ tail_block' = tail_block
      /\ head_block' = head_block
      /\ pc'[t] = IF LastSlot(tail) THEN "push_next" ELSE "push_write"
  BY ONLY <1>2, TakeTailTicket(t) DEF TakeTailTicket, Goto
<1>4. /\ ~ Installing(t) /\ ~ Moving(t) /\ \A b : ~ Linking(t, b) /\ ~ Freeing(t, b)
      /\ \A b, i : ~ Filling(t, b, i) /\ ~ Emptying(t, b, i)
  BY ONLY <1>3 DEF Installing, Moving, Linking, Filling, Emptying, Freeing, Writing, Reading, Destroying
<1>5. ~ Boundary(tail) /\ loc[t].block = Lap(tail) + 1 /\ Writing(t)'
  <2>1. PushSaw(t)
    BY <1>2 DEF TicketInv
  <2> QED
    BY ONLY <1>3, <2>1 DEF PushSaw, Writing
<1>6. tail + 2 \in Nat /\ Pos(tail + 2) = Pos(tail) + 1
  BY ONLY <1>2, StepFacts
<1>7. Boundary(tail') => Installing(t)'
  <2>1. 0 \in Slots /\ 0 \in Nat
    BY Laps
  <2>2. Boundary(tail + 2) => LastSlot(tail)
    BY ONLY <1>2, <1>6, <2>1, NextPassed
  <2> QED
    BY ONLY <1>3, <2>2 DEF Installing
<1>8. ASSUME NEW b \in DOMAIN heap', ~ heap'[b].freed PROVE BlockDuties(b)'
  <2>1. b \in DOMAIN heap /\ b \in Nat /\ ~ heap[b].freed
    BY <1>2, <1>3, <1>8
  <2>2. \A i \in Slots : Passed(tail', b, i) => Filling(t, b, i)' \/ Passed(tail, b, i)
    <3>1. SUFFICES ASSUME NEW i \in Slots, Passed(tail + 2, b, i), ~ Passed(tail, b, i)
                   PROVE  Filling(t, b, i)'
      BY <1>3
    <3>2. b = Lap(tail) + 1 /\ i = Slot0(tail)
      BY ONLY <1>2, <1>6, <2>1, <3>1, NextPassed
    <3> QED
      BY ONLY <1>3, <1>5, <3>2 DEF Filling, At
  <2> QED
    BY <1>2, <1>3, <1>4, <2>1, <2>2, DutiesInBlock
<1> QED
  BY <1>2, <1>3, <1>4, <1>7, <1>8, DutiesOn

\* The next block is empty; t has yet to move the tail and to link it.
LEMMA InstallNextDuties ==
    ASSUME DutyInv, NEW t \in Threads, BlockInv', InstallNext(t)
    PROVE  DutyInv'
<1>1. Acts(t)
  BY DEF Acts, Step
<1>2. /\ BlockInv /\ Duties /\ TicketInv /\ ~ gone
      /\ loc \in [Threads -> Locals] /\ heap \in Seq(Block)
      /\ pc \in [Threads -> {"idle"} \cup Pushing \cup Popping \cup Asking]
      /\ \A u \in Threads : u # t => pc'[u] = pc[u] /\ loc'[u] = loc[u]
      /\ tail \in Nat /\ head \in Nat /\ Lap(tail) \in Nat /\ Lap(head) \in Nat
      /\ Lap(head) <= Lap(tail)
  BY <1>1, Before
<1>3. /\ pc[t] = "push_next" /\ tail' = tail /\ head' = head /\ head_block' = head_block
      /\ heap' = Append(heap, NewBlock) /\ pc'[t] = "push_tail"
      /\ loc'[t].block = loc[t].block /\ loc'[t].index = loc[t].index
  BY ONLY <1>2, InstallNext(t) DEF InstallNext, Goto, Locals
<1>4. /\ tail_block = Len(heap) /\ tail_block = Lap(tail) + 1 /\ loc[t].block = Lap(tail) + 1
  <2>1. pc[t] \in {"push_next", "push_tail"}
    BY <1>3
  <2>2. tail_block = Lap(tail) + 1 /\ loc[t].block = Lap(tail) + 1
    BY ONLY <1>2, <1>3, <2>1, InstallerFacts
  <2> QED
    BY <1>2, <2>2 DEF TicketInv, TailBlock
<1>5. /\ ~ Moving(t) /\ \A b : ~ Linking(t, b) /\ ~ Freeing(t, b)
      /\ \A b, i : ~ Emptying(t, b, i) /\ (Filling(t, b, i) => Filling(t, b, i)')
  BY ONLY <1>3 DEF Moving, Linking, Filling, Emptying, Freeing, Writing, Reading, Destroying, At
<1>6. /\ Len(heap') = Lap(tail) + 2 /\ DOMAIN heap' = 1 .. Lap(tail) + 2
      /\ DOMAIN heap = 1 .. Lap(tail) + 1
      /\ \A b \in DOMAIN heap : heap'[b] = heap[b]
      /\ heap'[Lap(tail) + 2] = NewBlock
  <2>1. Len(heap) = Lap(tail) + 1
    BY ONLY <1>4
  <2>2. NewBlock \in Block
    BY DEF NewBlock, Block, Null
  <2> QED
    BY ONLY <1>2, <1>3, <2>1, <2>2
<1>7. ASSUME NEW b \in DOMAIN heap', ~ heap'[b].freed PROVE BlockDuties(b)'
  <2>1. CASE b = Lap(tail) + 2
    <3>1. b > Lap(head) /\ \A i \in Slots : ~ Passed(tail, b, i) /\ ~ Passed(head, b, i)
      BY ONLY <1>2, <2>1 DEF Passed
    <3>2. \A i \in 0 .. Last - 1 : i \in Slots
      BY Laps DEF Last
    <3>3. ~ (b < Len(heap')) /\ ~ (b <= Lap(head))
      BY ONLY <1>2, <1>6, <2>1
    <3> QED
      BY ONLY <1>3, <3>1, <3>2, <3>3 DEF BlockDuties, Passed
  <2>2. CASE b # Lap(tail) + 2
    <3>1. b \in DOMAIN heap /\ heap'[b] = heap[b]
      BY ONLY <1>2, <1>6, <1>7, <2>2
    <3>2. b < Len(heap) \/ Linking(t, b)'
      BY ONLY <1>2, <1>3, <1>4, <1>6, <3>1 DEF Linking
    <3> QED
      BY <1>2, <1>3, <1>5, <1>7, <3>1, <3>2, DutiesInBlock
  <2> QED
    BY <2>1, <2>2
<1>8. Installing(t)' /\ tail_block # Null
  BY ONLY <1>2, <1>3, <1>4 DEF Installing, Null
<1> QED
  BY <1>2, <1>3, <1>5, <1>7, <1>8, DutiesOn

\* The tail leaves the boundary; no slot is passed by that.
LEMMA SkipBoundaryDuties ==
    ASSUME DutyInv, NEW t \in Threads, BlockInv', SkipBoundary(t)
    PROVE  DutyInv'
<1>1. Acts(t)
  BY DEF Acts, Step
<1>2. /\ BlockInv /\ Duties /\ TicketInv /\ ~ gone
      /\ pc \in [Threads -> {"idle"} \cup Pushing \cup Popping \cup Asking]
      /\ \A u \in Threads : u # t => pc'[u] = pc[u] /\ loc'[u] = loc[u]
      /\ \A b \in DOMAIN heap : b \in Nat
      /\ tail \in Nat
  BY <1>1, Before
<1>3. /\ pc[t] = "push_tail" /\ tail' = loc[t].index + 4 /\ head' = head
      /\ tail_block' = tail_block /\ head_block' = head_block
      /\ heap' = heap /\ loc' = loc /\ pc'[t] = "push_link"
  BY ONLY <1>2, SkipBoundary(t) DEF SkipBoundary, Goto
<1>4. tail = loc[t].index + 2 /\ Boundary(tail)
  BY <1>2, <1>3, InstallerFacts
<1>5. loc[t].index \in Nat
  BY <1>2, Own
<1>6. tail' = tail + 2 /\ tail + 2 \in Nat /\ Pos(tail + 2) = Pos(tail) + 1
  <2>1. Pos(tail + 2) = Pos(tail) + 1
    BY ONLY <1>2, StepFacts
  <2> QED
    BY ONLY <1>2, <1>3, <1>4, <1>5, <2>1
<1>7. /\ ~ Moving(t) /\ \A b : (Linking(t, b) => Linking(t, b)') /\ ~ Freeing(t, b)
      /\ \A b, i : ~ Emptying(t, b, i) /\ (Filling(t, b, i) => Filling(t, b, i)')
  BY ONLY <1>3 DEF Moving, Linking, Filling, Emptying, Freeing, Writing, Reading, Destroying, At
<1>8. ~ Boundary(tail')
  <2>1. 0 \in Slots /\ 0 \in Nat
    BY Laps
  <2> QED
    BY ONLY <1>2, <1>4, <1>6, <2>1, NextPassed
<1>9. ASSUME NEW b \in DOMAIN heap', ~ heap'[b].freed PROVE BlockDuties(b)'
  <2>1. b \in DOMAIN heap /\ b \in Nat /\ ~ heap[b].freed
    BY <1>2, <1>3, <1>9
  <2>2. \A i \in Slots : Passed(tail', b, i) => Passed(tail, b, i)
    BY ONLY <1>2, <1>4, <1>6, <2>1, NextPassed
  <2> QED
    BY <1>2, <1>3, <1>7, <2>1, <2>2, DutiesInBlock
<1> QED
  BY <1>2, <1>3, <1>7, <1>8, <1>9, DutiesOn

\* The link is there.
LEMMA LinkNextDuties ==
    ASSUME DutyInv, NEW t \in Threads, BlockInv', LinkNext(t)
    PROVE  DutyInv'
<1>1. Acts(t)
  BY DEF Acts, Step
<1>2. /\ BlockInv /\ Duties /\ TicketInv /\ ~ gone /\ heap \in Seq(Block)
      /\ pc \in [Threads -> {"idle"} \cup Pushing \cup Popping \cup Asking]
      /\ \A u \in Threads : u # t => pc'[u] = pc[u] /\ loc'[u] = loc[u]
      /\ \A b \in DOMAIN heap : b \in Nat /\ heap[b] \in Block
  BY <1>1, Before
<1>3. /\ pc[t] = "push_link" /\ tail' = tail /\ head' = head
      /\ tail_block' = tail_block /\ head_block' = head_block
      /\ heap' = [heap EXCEPT ![loc[t].block].next = loc[t].next]
      /\ loc' = loc /\ pc'[t] = "push_write"
  BY ONLY <1>2, LinkNext(t) DEF LinkNext, Goto, positions
<1>4. loc[t].next # Null
  <2>1. WriterHolds(t) /\ loc[t].block \in Nat
    BY <1>2, Own DEF Keeps
  <2> QED
    BY ONLY <1>3, <2>1 DEF WriterHolds, Null
<1>5. /\ ~ Moving(t) /\ ~ Installing(t) /\ \A b : ~ Freeing(t, b)
      /\ \A b, i : ~ Emptying(t, b, i) /\ (Filling(t, b, i) => Filling(t, b, i)')
      /\ \A b : Linking(t, b) => b = loc[t].block
  BY ONLY <1>3 DEF Moving, Installing, Linking, Filling, Emptying, Freeing, Writing, Reading,
     Destroying, At
<1>6. /\ DOMAIN heap' = DOMAIN heap /\ Len(heap') = Len(heap)
      /\ \A b \in DOMAIN heap :
            /\ heap'[b].state = heap[b].state /\ heap'[b].freed = heap[b].freed
            /\ heap'[b].next = IF b = loc[t].block THEN loc[t].next ELSE heap[b].next
  BY ONLY <1>2, <1>3 DEF Block
<1>7. ASSUME NEW b \in DOMAIN heap', ~ heap'[b].freed PROVE BlockDuties(b)'
  <2>1. b \in DOMAIN heap /\ ~ heap[b].freed /\ heap'[b].state = heap[b].state
    BY <1>6, <1>7
  <2>2. heap'[b].next = Null => heap[b].next = Null /\ ~ Linking(t, b)
    BY ONLY <1>4, <1>5, <1>6, <2>1
  <2> QED
    BY <1>2, <1>3, <1>5, <1>6, <2>1, <2>2, DutiesInBlock
<1> QED
  BY <1>2, <1>3, <1>5, <1>7, DutiesOn

\* With the ticket t has to read its slot, and maybe to move the head.
LEMMA TakeHeadTicketDuties ==
    ASSUME DutyInv, NEW t \in Threads, BlockInv', TakeHeadTicket(t)
    PROVE  DutyInv'
<1>1. Acts(t)
  BY DEF Acts, Step
<1>2. /\ BlockInv /\ Duties /\ TicketInv /\ TicketInv' /\ ~ gone
      /\ pc \in [Threads -> {"idle"} \cup Pushing \cup Popping \cup Asking]
      /\ \A u \in Threads : u # t => pc'[u] = pc[u] /\ loc'[u] = loc[u]
      /\ \A b \in DOMAIN heap : b \in Nat
      /\ head \in Nat
  BY <1>1, Before
<1>3. /\ pc[t] = "pop_cas" /\ head = loc[t].index /\ head' = loc[t].other
      /\ heap' = heap /\ loc' = loc /\ tail' = tail /\ tail_block' = tail_block
      /\ head_block' = head_block
      /\ pc'[t] = IF LastSlot(head) THEN "pop_wait" ELSE "pop_value"
  BY ONLY <1>2, TakeHeadTicket(t) DEF TakeHeadTicket, Goto
<1>4. /\ ~ Installing(t) /\ ~ Moving(t) /\ \A b : ~ Linking(t, b) /\ ~ Freeing(t, b)
      /\ \A b, i : ~ Filling(t, b, i) /\ ~ Emptying(t, b, i)
  BY ONLY <1>3 DEF Installing, Moving, Linking, Filling, Emptying, Freeing, Writing, Reading, Destroying
<1>5. /\ ~ Boundary(head) /\ loc[t].block = Lap(head) + 1 /\ Reading(t)'
      /\ loc[t].other \in {head + 2, WithNext(head + 2)}
  <2>1. PopSaw(t)
    BY <1>2 DEF TicketInv
  <2>2. /\ ~ Boundary(head)
        /\ loc[t].other \in {head + 2, WithNext(head + 2)}
    BY ONLY <1>3, <2>1 DEF PopSaw
  <2>3. loc[t].block = Lap(head) + 1
    BY ONLY <1>3, <2>1 DEF PopSaw
  <2>4. Reading(t)'
    BY ONLY <1>3 DEF Reading, Moving
  <2> QED
    BY ONLY <2>2, <2>3, <2>4
<1>6. head' \in Nat /\ Pos(head') = Pos(head) + 1
  <2>1. head + 2 \in Nat /\ Pos(head + 2) = Pos(head) + 1
    BY ONLY <1>2, StepFacts
  <2>2. Pos(WithNext(head + 2)) = Pos(head + 2)
    BY ONLY <2>1, BitFacts
  <2>3. Pos(head') = Pos(head) + 1
    BY ONLY <1>3, <1>5, <2>1, <2>2
  <2>4. head' \in Nat
    BY <1>2 DEF TicketInv, Types
  <2> QED
    BY ONLY <2>3, <2>4
<1>7. /\ Boundary(head') => Moving(t)'
      /\ Lap(head') = Lap(head)
  <2>1. 0 \in Slots /\ 0 \in Nat
    BY Laps
  <2>2. (Boundary(head') => LastSlot(head)) /\ Lap(head') = Lap(head)
    BY ONLY <1>2, <1>5, <1>6, <2>1, NextPassed
  <2> QED
    BY ONLY <1>3, <2>2 DEF Moving
<1>8. ASSUME NEW b \in DOMAIN heap', ~ heap'[b].freed PROVE BlockDuties(b)'
  <2>1. b \in DOMAIN heap /\ b \in Nat /\ ~ heap[b].freed
    BY <1>2, <1>3, <1>8
  <2>2. \A i \in 0 .. Last - 1 : Passed(head', b, i) => Emptying(t, b, i)' \/ Passed(head, b, i)
    <3>1. SUFFICES ASSUME NEW i \in 0 .. Last - 1, Passed(head', b, i), ~ Passed(head, b, i)
                   PROVE  Emptying(t, b, i)'
      OBVIOUS
    <3>2. i \in Slots
      BY Laps DEF Last
    <3>3. b = Lap(head) + 1 /\ i = Slot0(head)
      BY ONLY <1>2, <1>6, <2>1, <3>1, <3>2, NextPassed
    <3> QED
      BY ONLY <1>3, <1>5, <3>3 DEF Emptying, At
  <2> QED
    BY <1>2, <1>3, <1>4, <1>7, <2>1, <2>2, DutiesInBlock
<1> QED
  BY <1>2, <1>3, <1>4, <1>7, <1>8, DutiesOn

\* The head leaves the boundary; the block behind is t's to destroy.
LEMMA MoveHeadDuties ==
    ASSUME DutyInv, NEW t \in Threads, BlockInv', MoveHead(t)
    PROVE  DutyInv'
<1>1. Acts(t)
  BY DEF Acts, Step
<1>2. /\ BlockInv /\ Duties /\ TicketInv /\ TicketInv' /\ ~ gone
      /\ pc \in [Threads -> {"idle"} \cup Pushing \cup Popping \cup Asking]
      /\ \A u \in Threads : u # t => pc'[u] = pc[u] /\ loc'[u] = loc[u]
      /\ \A b \in DOMAIN heap : b \in Nat
      /\ head \in Nat /\ Lap(head) \in Nat
  BY <1>1, Before
<1>3. /\ pc[t] = "pop_head" /\ head' = loc[t].other
      /\ heap' = heap /\ loc' = loc /\ tail' = tail /\ tail_block' = tail_block
      /\ head_block' = head_block /\ pc'[t] = "pop_value"
  BY ONLY <1>2, MoveHead(t) DEF MoveHead, Goto
<1>4. /\ ~ Installing(t) /\ \A b : ~ Linking(t, b) /\ (Freeing(t, b) => Freeing(t, b)')
      /\ \A b, i : ~ Filling(t, b, i) /\ (Emptying(t, b, i) => Emptying(t, b, i)')
      /\ Reading(t)' /\ Moving(t)
  BY ONLY <1>3 DEF Installing, Moving, Linking, Filling, Emptying, Freeing, Writing, Reading,
     Destroying, At, HandedOver, State
<1>5. /\ LastSlot(loc[t].index) /\ loc[t].block = Lap(head) + 1 /\ Boundary(head)
  BY <1>2, <1>4, MoverFacts
<1>6. head' \in Nat /\ Pos(head') = Pos(head) + 1
  <2>1. ReaderHolds(t) /\ head' \in Nat
    BY <1>2 DEF TicketInv, Types
  <2> QED
    BY ONLY <1>3, <2>1 DEF ReaderHolds
<1>7. ~ Boundary(head') /\ Lap(head') = Lap(head) + 1
  <2>1. 0 \in Slots /\ 0 \in Nat
    BY Laps
  <2> QED
    BY ONLY <1>2, <1>5, <1>6, <2>1, NextPassed
<1>8. \A b : b = Lap(head) + 1 => Freeing(t, b)'
  BY ONLY <1>3, <1>4, <1>5 DEF Freeing
<1>9. ASSUME NEW b \in DOMAIN heap', ~ heap'[b].freed PROVE BlockDuties(b)'
  <2>1. b \in DOMAIN heap /\ b \in Nat /\ ~ heap[b].freed
    BY <1>2, <1>3, <1>9
  <2>2. \A i \in 0 .. Last - 1 : Passed(head', b, i) => Passed(head, b, i)
    <3>1. \A i \in 0 .. Last - 1 : i \in Slots
      BY Laps DEF Last
    <3> QED
      BY ONLY <1>2, <1>5, <1>6, <2>1, <3>1, NextPassed
  <2>3. b <= Lap(head') => b <= Lap(head) \/ Freeing(t, b)'
    <3>1. b <= Lap(head') => b <= Lap(head) \/ b = Lap(head) + 1
      BY ONLY <1>2, <1>7, <2>1
    <3> QED
      BY ONLY <1>8, <3>1
  <2> QED
    BY <1>2, <1>3, <1>4, <2>1, <2>2, <2>3, DutiesInBlock
<1> QED
  BY <1>2, <1>3, <1>4, <1>7, <1>9, DutiesOn

\* The reader of a slot reads on, the last one of a block destroys it.
LEMMA ReadValueDuties ==
    ASSUME DutyInv, NEW t \in Threads, BlockInv', ReadValue(t)
    PROVE  DutyInv'
<1>1. Acts(t)
  BY DEF Acts, Step
<1>2. /\ TicketInv /\ loc \in [Threads -> Locals]
      /\ pc \in [Threads -> {"idle"} \cup Pushing \cup Popping \cup Asking]
  BY <1>1, Before
<1>3. /\ pc[t] = "pop_value" /\ UNCHANGED positions /\ heap' = heap
      /\ loc'[t].block = loc[t].block /\ loc'[t].index = loc[t].index
      /\ pc'[t] = IF LastSlot(loc[t].index) THEN "destroy" ELSE "pop_read"
  BY ONLY <1>2, ReadValue(t) DEF ReadValue, Goto, Locals
<1>4. /\ ~ Installing(t) /\ ~ Moving(t) /\ \A b : ~ Linking(t, b)
      /\ \A b, i : ~ Filling(t, b, i)
  BY ONLY <1>3 DEF Installing, Moving, Linking, Filling, Writing
<1>5. \A b \in DOMAIN heap : Freeing(t, b) => Freeing(t, b)'
  BY ONLY <1>3 DEF Freeing, Reading, Moving, Destroying, HandedOver, State
<1>6. ASSUME NEW b, NEW i \in 0 .. Last - 1, Emptying(t, b, i) PROVE Emptying(t, b, i)'
  <2>1. ~ LastSlot(loc[t].index)
    <3>1. loc[t].index \in Nat /\ ~ Boundary(loc[t].index)
      BY <1>2, <1>6, Own DEF Keeps, ReaderHolds, Emptying
    <3>2. LastSlot(loc[t].index) => i = Last /\ Last \in Slots
      BY ONLY <1>6, <3>1, TicketSlot DEF Emptying, At
    <3> QED
      BY ONLY <1>6, <3>2, Laps
  <2> QED
    BY ONLY <1>3, <1>6, <2>1 DEF Emptying, At, Reading
<1> QED
  BY <1>1, <1>3, <1>4, <1>5, <1>6, QuietDuties DEF positions

\* The destruction of a block goes on, or ends with freeing it.
LEMMA DestroyDuties ==
    ASSUME DutyInv, NEW t \in Threads, BlockInv', Destroy(t)
    PROVE  DutyInv'
<1>1. Acts(t)
  BY DEF Acts, Step
<1>2. /\ BlockInv /\ Duties /\ TicketInv /\ ~ gone
      /\ loc \in [Threads -> Locals] /\ heap \in Seq(Block)
      /\ pc \in [Threads -> {"idle"} \cup Pushing \cup Popping \cup Asking]
      /\ \A u \in Threads : u # t => pc'[u] = pc[u] /\ loc'[u] = loc[u]
  BY <1>1, Before
<1>3. /\ pc[t] = "destroy" /\ tail' = tail /\ head' = head /\ tail_block' = tail_block
      /\ head_block' = head_block
  BY DEF Destroy, positions
<1>4. /\ ~ Installing(t) /\ ~ Moving(t) /\ \A b : ~ Linking(t, b)
      /\ \A b, i : ~ Filling(t, b, i) /\ ~ Emptying(t, b, i)
      /\ \A b : Freeing(t, b) => b = loc[t].block
  BY ONLY <1>3 DEF Installing, Moving, Linking, Filling, Emptying, Freeing, Writing, Reading
<1>5. CASE loc[t].cursor = BLOCK_CAP - 1
  <2>1. heap' = [heap EXCEPT ![loc[t].block] = FreedBlock]
    <3>1. loc[t].cursor \in Slots
      BY <1>2, Own
    <3>2. ~ (loc[t].cursor < BLOCK_CAP - 1)
      BY ONLY <1>5, <3>1, Laps
    <3> QED
      BY ONLY <3>2, Destroy(t) DEF Destroy
  <2>2. /\ DOMAIN heap' = DOMAIN heap /\ Len(heap') = Len(heap)
        /\ \A b \in DOMAIN heap :
              heap'[b] = IF b = loc[t].block THEN FreedBlock ELSE heap[b]
    BY ONLY <1>2, <2>1
  <2>3. ASSUME NEW b \in DOMAIN heap', ~ heap'[b].freed PROVE BlockDuties(b)'
    <3>1. b # loc[t].block
      BY ONLY <2>2, <2>3 DEF FreedBlock, NewBlock
    <3>2. b \in DOMAIN heap /\ heap'[b] = heap[b]
      BY ONLY <2>2, <2>3, <3>1
    <3> QED
      BY <1>2, <1>3, <1>4, <2>2, <2>3, <3>1, <3>2, DutiesInBlock
  <2> QED
    BY <1>2, <1>3, <1>4, <2>3, DutiesOn
<1>6. CASE loc[t].cursor # BLOCK_CAP - 1
  <2>1. heap' = heap /\ loc'[t].block = loc[t].block /\ pc'[t] \in {"destroy", "mark"}
    BY ONLY <1>2, <1>3, <1>6, Destroy(t) DEF Destroy, Goto, Locals
  <2>2. \A b \in DOMAIN heap : Freeing(t, b) => Freeing(t, b)'
    BY ONLY <2>1 DEF Freeing, Destroying
  <2> QED
    BY <1>1, <1>3, <1>4, <2>1, <2>2, QuietDuties
<1> QED
  BY <1>5, <1>6

-----------------------------------------------------------------------------
(* The steps that set a bit *)

\* Slot k of block c gets the bit, every other part of every block stays.
OneBitSet(c, k, bit) ==
    /\ DOMAIN heap' = DOMAIN heap /\ Len(heap') = Len(heap)
    /\ \A b \in DOMAIN heap : b # c => heap'[b] = heap[b]
    /\ heap'[c].freed = heap[c].freed /\ heap'[c].next = heap[c].next
    /\ \A j \in Slots : heap'[c].state[j] = heap[c].state[j] \cup (IF j = k THEN {bit} ELSE {})

\* The fetch_or of t in the block that it holds.
LEMMA BitLeaves ==
    ASSUME TicketInv, NEW t \in Threads, NEW c \in DOMAIN heap, NEW k \in Slots,
           NEW bit \in {"WRITE", "READ", "DESTROY"}, SetBit(t, k, bit), c = loc[t].block
    PROVE  OneBitSet(c, k, bit)
<1>1. /\ heap \in Seq(Block) /\ \A b \in DOMAIN heap : heap[b] \in Block
      /\ BitSet(c, k, bit)
  BY Addresses, SetBitIsBitSet
<1> DEFINE e == [heap[c] EXCEPT !.state = [heap[c].state EXCEPT ![k] = @ \cup {bit}]]
<1>2. heap' = [heap EXCEPT ![c] = e]
  BY ONLY <1>1, SetBit(t, k, bit), c = loc[t].block DEF SetBit
<1>3. e.next = heap[c].next
  BY ONLY <1>1, c \in DOMAIN heap DEF Block
<1> HIDE DEF e
<1>4. /\ DOMAIN heap' = DOMAIN heap /\ Len(heap') = Len(heap)
      /\ \A b \in DOMAIN heap : b # c => heap'[b] = heap[b]
      /\ heap'[c].next = heap[c].next
  BY ONLY <1>1, <1>2, <1>3, c \in DOMAIN heap
<1>5. /\ heap'[c].freed = heap[c].freed
      /\ \A j \in Slots : heap'[c].state[j] = heap[c].state[j] \cup (IF j = k THEN {bit} ELSE {})
  BY ONLY <1>1, c \in DOMAIN heap DEF BitSet
<1> QED
  BY ONLY <1>4, <1>5 DEF OneBitSet

\* The duties in the other blocks are as before.
LEMMA BitDuties ==
    ASSUME DutyInv, NEW t \in Threads, Acts(t), BlockInv', NEW c \in DOMAIN heap, NEW k \in Slots,
           NEW bit \in {"WRITE", "READ", "DESTROY"}, SetBit(t, k, bit), c = loc[t].block,
           tail' = tail, head' = head, tail_block' = tail_block, head_block' = head_block,
           ~ Installing(t), ~ Moving(t), pc[t] # "push_head", ~ Linking(t, c),
           \A i \in Slots : Filling(t, c, i) => Filling(t, c, i)' \/ (i = k /\ bit = "WRITE"),
           \A i \in Slots : Emptying(t, c, i) => Emptying(t, c, i)' \/ (i = k /\ bit = "READ"),
           ~ heap[c].freed /\ c <= Lap(head) => \E u \in Threads : Freeing(u, c)'
    PROVE  DutyInv'
<1>1. /\ Duties /\ TicketInv /\ ~ gone /\ heap \in Seq(Block)
      /\ \A u \in Threads : u # t => pc'[u] = pc[u] /\ loc'[u] = loc[u]
  BY Before
<1>2. /\ DOMAIN heap' = DOMAIN heap /\ Len(heap') = Len(heap)
      /\ \A b \in DOMAIN heap : b # c => heap'[b] = heap[b]
      /\ heap'[c].freed = heap[c].freed /\ heap'[c].next = heap[c].next
      /\ \A j \in Slots : heap'[c].state[j] = heap[c].state[j] \cup (IF j = k THEN {bit} ELSE {})
  <2>1. TicketInv
    BY <1>1
  <2>2. OneBitSet(c, k, bit)
    BY <2>1, BitLeaves
  <2> QED
    BY ONLY <2>2 DEF OneBitSet
<1>3. ASSUME NEW b \in DOMAIN heap', ~ heap'[b].freed, b # c PROVE BlockDuties(b)'
  <2>1. b \in DOMAIN heap /\ heap'[b] = heap[b]
    BY ONLY <1>2, <1>3
  <2>2. ~ Linking(t, b) /\ ~ Freeing(t, b) /\ \A i : ~ Filling(t, b, i) /\ ~ Emptying(t, b, i)
    BY ONLY <1>3, c = loc[t].block DEF Linking, Freeing, Filling, Emptying, At
  <2> QED
    BY <1>1, <1>2, <1>3, <2>1, <2>2, DutiesInBlock
<1>4. ASSUME ~ heap'[c].freed PROVE BlockDuties(c)'
  <2>1. ~ heap[c].freed /\ BlockDuties(c)
    BY <1>1, <1>2, <1>4 DEF Duties
  <2>2. ASSUME c < Len(heap'), heap'[c].next = Null PROVE \E u \in Threads : Linking(u, c)'
    <3>1. PICK u \in Threads : Linking(u, c)
      BY ONLY <1>2, <2>1, <2>2 DEF BlockDuties
    <3>2. pc'[u] = pc[u] /\ loc'[u] = loc[u]
      BY ONLY <1>1, <3>1, ~ Linking(t, c)
    <3>3. Linking(u, c)'
      BY ONLY <3>1, <3>2 DEF Linking
    <3> QED
      BY ONLY <3>3
  <2>3. ASSUME NEW i \in Slots, Passed(tail, c, i), "WRITE" \notin heap'[c].state[i]
        PROVE  \E u \in Threads : Filling(u, c, i)'
    <3>1. "WRITE" \notin State(c, i) /\ ~ (i = k /\ bit = "WRITE")
      BY ONLY <1>2, <2>3 DEF State
    <3>2. PICK u \in Threads : Filling(u, c, i)
      BY ONLY <2>1, <2>3, <3>1 DEF BlockDuties
    <3>3. CASE u = t
      BY ONLY <2>3, <3>1, <3>2, <3>3,
         \A j \in Slots : Filling(t, c, j) => Filling(t, c, j)' \/ (j = k /\ bit = "WRITE")
    <3>4. CASE u # t
      <4>1. pc'[u] = pc[u] /\ loc'[u] = loc[u]
        BY ONLY <1>1, <3>4
      <4>2. Filling(u, c, i)'
        BY ONLY <3>2, <4>1 DEF Filling, At, Writing
      <4> QED
        BY ONLY <4>2
    <3> QED
      BY <3>3, <3>4
  <2>4. ASSUME NEW i \in 0 .. Last - 1, Passed(head, c, i), "READ" \notin heap'[c].state[i]
        PROVE  \E u \in Threads : Emptying(u, c, i)'
    <3>0. i \in Slots
      BY Laps DEF Last
    <3>1. "READ" \notin State(c, i) /\ ~ (i = k /\ bit = "READ")
      BY ONLY <1>2, <2>4, <3>0 DEF State
    <3>2. PICK u \in Threads : Emptying(u, c, i)
      BY ONLY <2>1, <2>4, <3>1 DEF BlockDuties
    <3>3. CASE u = t
      BY ONLY <3>0, <3>1, <3>2, <3>3,
         \A j \in Slots : Emptying(t, c, j) => Emptying(t, c, j)' \/ (j = k /\ bit = "READ")
    <3>4. CASE u # t
      <4>1. pc'[u] = pc[u] /\ loc'[u] = loc[u]
        BY ONLY <1>1, <3>4
      <4>2. Emptying(u, c, i)'
        BY ONLY <3>2, <4>1 DEF Emptying, At, Reading, Moving
      <4> QED
        BY ONLY <4>2
    <3> QED
      BY <3>3, <3>4
  <2>5. c <= Lap(head') => \E u \in Threads : Freeing(u, c)'
    BY <2>1
  <2>6. /\ \A i \in Slots : Passed(tail', c, i) = Passed(tail, c, i)
        /\ \A i \in 0 .. Last - 1 : Passed(head', c, i) = Passed(head, c, i)
    BY ONLY tail' = tail, head' = head
  <2> QED
    BY ONLY <2>2, <2>3, <2>4, <2>5, <2>6 DEF BlockDuties, State, Passed
<1>5. \A b \in DOMAIN heap' : ~ heap'[b].freed => BlockDuties(b)'
  BY <1>3, <1>4
<1> QED
  BY <1>1, <1>5, DutiesOn

\* Whoever goes on with the destruction still does.
LEMMA FreeingStays ==
    ASSUME TicketInv, BlockInv, ~ gone, NEW t \in Threads, NEW u \in Threads, u # t,
           pc'[u] = pc[u], loc'[u] = loc[u],
           NEW c \in DOMAIN heap, NEW k \in Slots, NEW bit, OneBitSet(c, k, bit), Freeing(u, c),
           bit = "READ" => Reading(t) /\ c = loc[t].block /\ k = Slot0(loc[t].index)
    PROVE  Freeing(u, c)'
<1>1. CASE Destroying(u)
  BY <1>1 DEF Freeing, Destroying
<1>2. CASE Reading(u) /\ LastSlot(loc[u].index)
  BY <1>2 DEF Freeing, Reading, Moving
<1>3. CASE Reading(u) /\ HandedOver(c, Slot0(loc[u].index))
  <2>1. PICK i \in Slots : i = Slot0(loc[u].index)
    BY <1>3, TicketFacts
  <2>2. loc[u].block = c
    BY DEF Freeing
  <2>3. bit = "READ" => i # k
    BY <1>3, <2>1, <2>2, OtherSlot
  <2>4. "DESTROY" \in heap[c].state[i] /\ "READ" \notin heap[c].state[i]
    BY ONLY <1>3, <2>1 DEF HandedOver, State
  <2>5. heap'[c].state[i] = heap[c].state[i] \cup (IF i = k THEN {bit} ELSE {})
    BY ONLY <2>1, OneBitSet(c, k, bit) DEF OneBitSet
  <2>6. "DESTROY" \in heap'[c].state[i] /\ "READ" \notin heap'[c].state[i]
    BY ONLY <2>3, <2>4, <2>5
  <2>7. Reading(u)'
    BY ONLY <1>3, pc'[u] = pc[u] DEF Reading, Moving
  <2> QED
    BY ONLY <2>1, <2>2, <2>6, <2>7, loc'[u] = loc[u] DEF Freeing, HandedOver, State
<1> QED
  BY <1>1, <1>2, <1>3 DEF Freeing

\* The slot is written.
LEMMA MarkWrittenDuties ==
    ASSUME DutyInv, NEW t \in Threads, BlockInv', MarkWritten(t)
    PROVE  DutyInv'
<1>1. Acts(t)
  BY DEF Acts, Step
<1>2. /\ Duties /\ TicketInv /\ BlockInv /\ ~ gone
      /\ pc \in [Threads -> {"idle"} \cup Pushing \cup Popping \cup Asking]
      /\ \A u \in Threads : u # t => pc'[u] = pc[u] /\ loc'[u] = loc[u]
  BY <1>1, Before
<1>3. /\ pc[t] = "push_ready" /\ SetBit(t, Slot0(loc[t].index), "WRITE") /\ UNCHANGED positions
  BY ONLY MarkWritten(t) DEF MarkWritten
<1>4. /\ ~ Installing(t) /\ ~ Moving(t) /\ Writing(t)
      /\ \A b : ~ Freeing(t, b) /\ ~ Linking(t, b)
      /\ \A b, i : ~ Emptying(t, b, i)
  BY ONLY <1>3 DEF Installing, Moving, Linking, Emptying, Freeing, Writing, Reading, Destroying
<1>5. PICK c \in DOMAIN heap : c = loc[t].block
  BY <1>2, <1>4, TicketFacts
<1>6. PICK k \in Slots : k = Slot0(loc[t].index)
  BY <1>2, <1>4, TicketFacts
<1>7. SetBit(t, k, "WRITE") /\ "WRITE" \in {"WRITE", "READ", "DESTROY"}
  BY ONLY <1>3, <1>6
<1>8. OneBitSet(c, k, "WRITE")
  BY <1>2, <1>5, <1>7, BitLeaves
<1>9. ASSUME ~ heap[c].freed, c <= Lap(head) PROVE \E u \in Threads : Freeing(u, c)'
  <2>1. PICK u \in Threads : Freeing(u, c)
    BY <1>2, <1>9 DEF Duties, BlockDuties
  <2>2. u # t
    BY <1>4, <2>1
  <2>3. Freeing(u, c)'
    BY <1>2, <1>8, <2>1, <2>2, FreeingStays
  <2> QED
    BY ONLY <2>3
<1>10. \A i \in Slots : Filling(t, c, i) => i = k
  BY ONLY <1>6 DEF Filling, At
<1> QED
  BY <1>1, <1>3, <1>4, <1>5, <1>7, <1>9, <1>10, BitDuties DEF positions

\* The slot is read; where it has been handed over the destruction goes on.
LEMMA MarkReadDuties ==
    ASSUME DutyInv, NEW t \in Threads, BlockInv', MarkRead(t)
    PROVE  DutyInv'
<1>1. Acts(t)
  BY DEF Acts, Step
<1>2. /\ Duties /\ TicketInv /\ BlockInv /\ ~ gone /\ loc \in [Threads -> Locals]
      /\ pc \in [Threads -> {"idle"} \cup Pushing \cup Popping \cup Asking]
      /\ \A u \in Threads : u # t => pc'[u] = pc[u] /\ loc'[u] = loc[u]
  BY <1>1, Before
<1>3. /\ pc[t] = "pop_read" /\ SetBit(t, Slot0(loc[t].index), "READ") /\ UNCHANGED positions
  BY ONLY MarkRead(t) DEF MarkRead
<1>4. /\ ~ Installing(t) /\ ~ Moving(t) /\ Reading(t) /\ ~ Destroying(t)
      /\ \A b : ~ Linking(t, b)
      /\ \A b, i : ~ Filling(t, b, i)
  BY ONLY <1>3 DEF Installing, Moving, Linking, Filling, Writing, Reading, Destroying
<1>5. PICK c \in DOMAIN heap : c = loc[t].block
  BY <1>2, <1>4, TicketFacts
<1>6. PICK k \in Slots : k = Slot0(loc[t].index)
  BY <1>2, <1>4, TicketFacts
<1>7. SetBit(t, k, "READ") /\ "READ" \in {"WRITE", "READ", "DESTROY"}
  BY ONLY <1>3, <1>6
<1>8. OneBitSet(c, k, "READ")
  BY <1>2, <1>5, <1>7, BitLeaves
<1>9. ~ LastSlot(loc[t].index)
  BY <1>2, <1>3, Own DEF Keeps, ReaderHolds
<1>10. ASSUME ~ heap[c].freed, c <= Lap(head) PROVE \E u \in Threads : Freeing(u, c)'
  <2>1. CASE "DESTROY" \in State(c, k)
    <3>1. pc'[t] = "destroy" /\ loc'[t].block = c
      BY ONLY <1>2, <1>5, <1>6, <2>1, MarkRead(t) DEF MarkRead, Goto, Bits, State, Locals
    <3> QED
      BY ONLY <3>1, t \in Threads DEF Freeing, Destroying
  <2>2. CASE "DESTROY" \notin State(c, k)
    <3>1. PICK u \in Threads : Freeing(u, c)
      BY <1>2, <1>10 DEF Duties, BlockDuties
    <3>2. u # t
      BY ONLY <1>4, <1>6, <1>9, <2>2, <3>1 DEF Freeing, HandedOver
    <3>3. Freeing(u, c)'
      BY <1>2, <1>4, <1>5, <1>6, <1>8, <3>1, <3>2, FreeingStays
    <3> QED
      BY ONLY <3>3
  <2> QED
    BY <2>1, <2>2
<1>11. \A i \in Slots : Emptying(t, c, i) => i = k
  BY ONLY <1>6 DEF Emptying, At
<1> QED
  BY <1>1, <1>3, <1>4, <1>5, <1>7, <1>10, <1>11, BitDuties DEF positions

\* The destroyer passes the slot, or hands the block over to its reader.
LEMMA MarkDestroyDuties ==
    ASSUME DutyInv, NEW t \in Threads, BlockInv', MarkDestroy(t)
    PROVE  DutyInv'
<1>1. Acts(t)
  BY DEF Acts, Step
<1>2. /\ Duties /\ TicketInv /\ ~ gone /\ loc \in [Threads -> Locals] /\ BlockInv
      /\ pc \in [Threads -> {"idle"} \cup Pushing \cup Popping \cup Asking]
      /\ \A u \in Threads : u # t => pc'[u] = pc[u] /\ loc'[u] = loc[u]
      /\ \A b \in DOMAIN heap : b \in Nat
  BY <1>1, Before
<1>3. /\ pc[t] = "mark" /\ SetBit(t, loc[t].cursor, "DESTROY") /\ UNCHANGED positions
  BY ONLY MarkDestroy(t) DEF MarkDestroy
<1>4. /\ ~ Installing(t) /\ ~ Moving(t) /\ ~ Reading(t) /\ Destroying(t)
      /\ \A b : ~ Linking(t, b)
      /\ \A b, i : ~ Filling(t, b, i) /\ ~ Emptying(t, b, i)
  BY ONLY <1>3 DEF Installing, Moving, Linking, Filling, Emptying, Writing, Reading, Destroying
<1>5. PICK c \in DOMAIN heap : c = loc[t].block /\ Begun(c)
  BY <1>2, <1>4 DEF BlockInv, Holding, Live
<1>6. PICK k \in Slots : k = loc[t].cursor /\ k \in 0 .. Last - 1
  <2>1. loc[t].cursor \in Slots /\ loc[t].cursor < BLOCK_CAP - 1
    BY <1>2, <1>3, Own DEF Keeps, ReaderHolds
  <2> QED
    BY <2>1, Laps DEF Last
<1>7. SetBit(t, k, "DESTROY") /\ "DESTROY" \in {"WRITE", "READ", "DESTROY"}
  BY ONLY <1>3, <1>6
<1>8. OneBitSet(c, k, "DESTROY")
  BY <1>2, <1>5, <1>7, BitLeaves
<1>9. ASSUME ~ heap[c].freed, c <= Lap(head) PROVE \E u \in Threads : Freeing(u, c)'
  <2>1. CASE "READ" \in State(c, k)
    <3>1. pc'[t] = "destroy" /\ loc'[t].block = c
      BY ONLY <1>2, <1>5, <1>6, <2>1, MarkDestroy(t) DEF MarkDestroy, Goto, Bits, State, Locals
    <3> QED
      BY ONLY <3>1, t \in Threads DEF Freeing, Destroying
  <2>2. CASE "READ" \notin State(c, k)
    <3>1. BlockDuties(c) /\ Passed(head, c, k)
      BY <1>2, <1>9 DEF Duties, Passed
    <3>2. PICK u \in Threads : Emptying(u, c, k)
      BY ONLY <1>6, <2>2, <3>1 DEF BlockDuties
    <3>3. pc'[u] = pc[u] /\ loc'[u] = loc[u]
      BY ONLY <1>2, <1>4, <3>2
    <3>4. heap'[c].state[k] = heap[c].state[k] \cup {"DESTROY"}
      BY ONLY <1>8, k \in Slots DEF OneBitSet
    <3>5. Freeing(u, c)'
      BY ONLY <2>2, <3>2, <3>3, <3>4 DEF Emptying, At, Freeing, Reading, Moving, HandedOver, State
    <3> QED
      BY ONLY <3>5
  <2> QED
    BY <2>1, <2>2
<1> QED
  BY <1>1, <1>3, <1>4, <1>5, <1>7, <1>9, BitDuties DEF positions

-----------------------------------------------------------------------------
(* The invariant *)

\* At first there is nothing to do.
LEMMA InitDutyInv == Init => DutyInv
<1>1. SUFFICES ASSUME Init PROVE DutyInv
  OBVIOUS
<1>2. BlockInv
  BY <1>1, InitBlockInv
<1>3. tail = 0 /\ head = 0 /\ tail_block = Null /\ DOMAIN heap = {}
  BY <1>1 DEF Init
<1>4. ~ Boundary(tail) /\ ~ Boundary(head)
  BY <1>3, Zero
<1> QED
  BY ONLY <1>2, <1>3, <1>4 DEF DutyInv, Duties

\* Every step leaves its duties to somebody.
LEMMA NextDutyInv == DutyInv /\ [Next]_vars => DutyInv'
<1>1. SUFFICES ASSUME DutyInv, [Next]_vars PROVE DutyInv'
  OBVIOUS
<1>2. BlockInv /\ BlockInv'
  BY <1>1, NextBlockInv DEF DutyInv
<1>3. CASE UNCHANGED vars
  <2>1. UNCHANGED <<tail, head, tail_block, head_block, heap, pc, loc, gone>>
    BY <1>3 DEF vars, positions, others
  <2>2. \A t \in Threads : \A b :
           /\ Installing(t)' = Installing(t) /\ Moving(t)' = Moving(t)
           /\ Linking(t, b)' = Linking(t, b) /\ Freeing(t, b)' = Freeing(t, b)
           /\ \A i : Filling(t, b, i)' = Filling(t, b, i) /\ Emptying(t, b, i)' = Emptying(t, b, i)
    BY ONLY <2>1 DEF Installing, Moving, Linking, Freeing, Filling, Emptying, At, Writing, Reading,
       Destroying, HandedOver, State
  <2>3. ASSUME NEW b \in DOMAIN heap, BlockDuties(b) PROVE BlockDuties(b)'
    <3>1. b < Len(heap') /\ heap'[b].next = Null => \E t \in Threads : Linking(t, b)'
      BY ONLY <2>1, <2>2, <2>3 DEF BlockDuties
    <3>2. \A i \in Slots : Passed(tail', b, i) /\ "WRITE" \notin heap'[b].state[i]
             => \E t \in Threads : Filling(t, b, i)'
      BY ONLY <2>1, <2>2, <2>3 DEF BlockDuties, State
    <3>3. \A i \in 0 .. Last - 1 : Passed(head', b, i) /\ "READ" \notin heap'[b].state[i]
             => \E t \in Threads : Emptying(t, b, i)'
      BY ONLY <2>1, <2>2, <2>3 DEF BlockDuties, State
    <3>4. b <= Lap(head') => \E t \in Threads : Freeing(t, b)'
      BY ONLY <2>1, <2>2, <2>3 DEF BlockDuties
    <3> QED
      BY ONLY <3>1, <3>2, <3>3, <3>4 DEF BlockDuties, State, Passed
  <2>4. Duties => Duties'
    BY ONLY <2>1, <2>2, <2>3 DEF Duties
  <2> QED
    BY <1>1, <1>2, <2>1, <2>4 DEF DutyInv
<1>4. CASE Drop
  BY <1>2, <1>4 DEF Drop, DutyInv
<1>5. ASSUME NEW t \in Threads, Acts(t) PROVE DutyInv'
  <2>1. CASE \/ Call(t) \/ FailSpuriously(t)
             \/ LoadTail(t) \/ LoadTailBlock(t) \/ LoseTailTicket(t)
             \/ LoadHead(t) \/ LoadHeadBlock(t) \/ LookAtTail(t) \/ LoseHeadTicket(t)
             \/ EmptyHead(t) \/ EmptyTail(t) \/ LenTail(t) \/ LenHead(t) \/ LenCheck(t)
    BY <1>1, <1>2, <2>1, LooksKeepDuties
  <2>2. CASE InstallFirst(t)
    BY <1>1, <1>2, <2>2, InstallFirstDuties
  <2>3. CASE PublishFirst(t)
    BY <1>1, <1>2, <2>3, PublishFirstDuties
  <2>4. CASE TakeTailTicket(t)
    BY <1>1, <1>2, <2>4, TakeTailTicketDuties
  <2>5. CASE InstallNext(t)
    BY <1>1, <1>2, <2>5, InstallNextDuties
  <2>6. CASE SkipBoundary(t)
    BY <1>1, <1>2, <2>6, SkipBoundaryDuties
  <2>7. CASE LinkNext(t)
    BY <1>1, <1>2, <2>7, LinkNextDuties
  <2>8. CASE MarkWritten(t)
    BY <1>1, <1>2, <2>8, MarkWrittenDuties
  <2>9. CASE TakeHeadTicket(t)
    BY <1>1, <1>2, <2>9, TakeHeadTicketDuties
  <2>10. CASE WaitNext(t) \/ PeekNext(t) \/ MoveHeadBlock(t) \/ WriteValue(t)
    BY <1>1, <1>2, <2>10, SameDuties
  <2>11. CASE MoveHead(t)
    BY <1>1, <1>2, <2>11, MoveHeadDuties
  <2>12. CASE ReadValue(t)
    BY <1>1, <1>2, <2>12, ReadValueDuties
  <2>13. CASE MarkRead(t)
    BY <1>1, <1>2, <2>13, MarkReadDuties
  <2>14. CASE Destroy(t)
    BY <1>1, <1>2, <2>14, DestroyDuties
  <2>15. CASE MarkDestroy(t)
    BY <1>1, <1>2, <2>15, MarkDestroyDuties
  <2> QED
    BY ONLY <1>5, <2>1, <2>2, <2>3, <2>4, <2>5, <2>6, <2>7, <2>8, <2>9, <2>10, <2>11, <2>12,
            <2>13, <2>14, <2>15 DEF Acts, Step
<1> QED
  BY ONLY <1>1, <1>3, <1>4, <1>5 DEF Next, Acts

-----------------------------------------------------------------------------
(* The values are in the order of the tickets *)

\* How many slots there are up to slot i of block b.
Place(b, i) == (b - 1) * BLOCK_CAP + i + 1

\* The value of a slot that is written, or is about to be, is that of its ticket.
ValuesInOrder ==
    /\ Len(order) = SlotsBelow(tail)
    /\ \A t \in Threads :
        /\ Writing(t) => loc[t].value = order[Place(loc[t].block, Slot0(loc[t].index))]
        /\ pc[t] = "push_ready" => heap[loc[t].block].value[Slot0(loc[t].index)] = loc[t].value
    /\ \A b \in DOMAIN heap : \A i \in Slots :
        ~ heap[b].freed /\ "WRITE" \in State(b, i) => heap[b].value[i] = order[Place(b, i)]

ValueInv == BlockInv /\ Carrying /\ (~ gone => ValuesInOrder)

\* A slot behind an index has its place below it, that of the index itself is the next one.
LEMMA PlaceFacts ==
    ASSUME NEW n \in Nat, NEW b \in Nat \ {0}, NEW i \in Slots
    PROVE  /\ SlotsBelow(n) \in Nat /\ Place(b, i) \in Nat
           /\ Passed(n, b, i) => Place(b, i) \in 1 .. SlotsBelow(n)
           /\ b = Lap(n) + 1 /\ i = Slot0(n) => Place(b, i) = SlotsBelow(n) + 1
<1> DEFINE a == Lap(n)
           s == Slot0(n)
           c == LAP - 1
<1>1. /\ a \in Nat /\ s \in 0 .. LAP - 1 /\ Pos(n) = LAP * a + s
      /\ LAP \in Nat /\ LAP >= 2 /\ BLOCK_CAP = c /\ i \in 0 .. LAP - 2
  BY IndexFacts, Laps
<1>2. SlotsBelow(n) = LAP * a + s - a
  BY ONLY <1>1 DEF SlotsBelow
<1>3. /\ Place(b, i) = (b - 1) * c + i + 1
      /\ Passed(n, b, i) <=> b <= a \/ (b = a + 1 /\ i < s)
      /\ (b = Lap(n) + 1 /\ i = Slot0(n)) <=> b = a + 1 /\ i = s
  BY <1>1 DEF Place, Passed
<1> HIDE DEF a, s
<1>4. LAP * a - a = a * c /\ a * c \in Nat
  BY ONLY <1>1
<1>5. c \in Nat /\ (b - 1) * c \in Nat
  BY ONLY <1>1
<1>6. b <= a => (b - 1) * c + c <= a * c
  <2>1. SUFFICES ASSUME b <= a PROVE (b - 1) * c + c <= a * c
    OBVIOUS
  <2>2. PICK d \in Nat : a = b + d
    <3>1. a - b \in Nat
      BY ONLY <1>1, <2>1
    <3> QED
      BY ONLY <1>1, <3>1
  <2>3. a * c = (b - 1) * c + c + d * c /\ d * c \in Nat
    BY ONLY <1>5, <2>2
  <2> QED
    BY ONLY <1>5, <2>3
<1>7. b = a + 1 => (b - 1) * c = a * c
  BY ONLY <1>1
<1> DEFINE x == (b - 1) * c
           y == a * c
<1>8. /\ x \in Nat /\ y \in Nat /\ SlotsBelow(n) = y + s /\ Place(b, i) = x + i + 1
      /\ b <= a => x + c <= y
      /\ b = a + 1 => x = y
  BY ONLY <1>1, <1>2, <1>3, <1>4, <1>5, <1>6, <1>7
<1> HIDE DEF x, y
<1> QED
  BY ONLY <1>1, <1>3, <1>8

\* The places of the tickets.
LEMMA TicketPlaces ==
    ASSUME BlockInv, ~ gone
    PROVE  /\ \A b \in DOMAIN heap : \A i \in Slots :
                 "WRITE" \in State(b, i) => Place(b, i) \in 1 .. SlotsBelow(tail)
           /\ \A t \in Threads : Writing(t) =>
                 Place(loc[t].block, Slot0(loc[t].index)) \in 1 .. SlotsBelow(tail)
           /\ SlotsBelow(tail) \in Nat
<1>1. TicketInv /\ SlotBits
  BY DEF BlockInv
<1>2. tail \in Nat /\ heap \in Seq(Block)
  BY <1>1, Addresses
<1>3. \A b \in DOMAIN heap : b \in Nat \ {0}
  BY ONLY <1>2
<1>4. ASSUME NEW b \in DOMAIN heap, NEW i \in Slots, "WRITE" \in State(b, i)
      PROVE  Place(b, i) \in 1 .. SlotsBelow(tail)
  BY <1>1, <1>2, <1>3, <1>4, PlaceFacts DEF SlotBits
<1>5. ASSUME NEW t \in Threads, Writing(t)
      PROVE  Place(loc[t].block, Slot0(loc[t].index)) \in 1 .. SlotsBelow(tail)
  <2>1. /\ loc[t].block \in DOMAIN heap /\ Slot0(loc[t].index) \in Slots
        /\ Passed(tail, loc[t].block, Slot0(loc[t].index))
    BY <1>5, TicketFacts
  <2> QED
    BY <1>2, <1>3, <2>1, PlaceFacts
<1>6. SlotsBelow(tail) \in Nat
  <2>1. 0 \in Slots /\ 1 \in Nat \ {0}
    BY Laps
  <2> QED
    BY <1>2, <2>1, PlaceFacts
<1> QED
  BY ONLY <1>4, <1>5, <1>6

\* The tickets already given out keep their values, t sees to its own and to what it writes.
LEMMA ValuesOn ==
    ASSUME ValueInv, NEW t \in Threads, Acts(t), BlockInv', Carrying', ~ gone,
           Len(order') = SlotsBelow(tail'),
           \A k \in 1 .. Len(order) : order'[k] = order[k],
           Writing(t)' =>
              loc'[t].value = order'[Place(loc'[t].block, Slot0(loc'[t].index))],
           pc'[t] = "push_ready" =>
              heap'[loc'[t].block].value[Slot0(loc'[t].index)] = loc'[t].value,
           \A u \in Threads : u # t /\ pc[u] = "push_ready" =>
              heap'[loc[u].block].value[Slot0(loc[u].index)] =
                 heap[loc[u].block].value[Slot0(loc[u].index)],
           \A b \in DOMAIN heap' : \A i \in Slots :
              ~ heap'[b].freed /\ "WRITE" \in heap'[b].state[i] =>
                 \/ /\ b \in DOMAIN heap /\ ~ heap[b].freed /\ "WRITE" \in State(b, i)
                    /\ heap'[b].value[i] = heap[b].value[i]
                 \/ heap'[b].value[i] = order'[Place(b, i)]
    PROVE  ValueInv'
<1>1. BlockInv /\ ValuesInOrder
  BY DEF ValueInv
<1>2. \A u \in Threads : u # t => pc'[u] = pc[u] /\ loc'[u] = loc[u]
  BY <1>1, Around
<1>3. /\ \A b \in DOMAIN heap : \A i \in Slots :
            "WRITE" \in State(b, i) => Place(b, i) \in 1 .. SlotsBelow(tail)
      /\ \A u \in Threads : Writing(u) =>
            Place(loc[u].block, Slot0(loc[u].index)) \in 1 .. SlotsBelow(tail)
      /\ Len(order) = SlotsBelow(tail)
  BY <1>1, TicketPlaces DEF ValuesInOrder
<1>4. ASSUME NEW u \in Threads, Writing(u)'
      PROVE  loc'[u].value = order'[Place(loc'[u].block, Slot0(loc'[u].index))]
  <2>1. CASE u = t
    BY <1>4, <2>1
  <2>2. CASE u # t
    <3>1. Writing(u) /\ loc'[u] = loc[u]
      BY ONLY <1>2, <1>4, <2>2 DEF Writing
    <3>2. loc[u].value = order[Place(loc[u].block, Slot0(loc[u].index))]
      BY ONLY <1>1, <3>1 DEF ValuesInOrder
    <3>3. Place(loc[u].block, Slot0(loc[u].index)) \in 1 .. Len(order)
      BY ONLY <1>3, <3>1
    <3> QED
      BY ONLY <3>1, <3>2, <3>3, \A k \in 1 .. Len(order) : order'[k] = order[k]
  <2> QED
    BY ONLY <2>1, <2>2
<1>5. ASSUME NEW u \in Threads, pc'[u] = "push_ready"
      PROVE  heap'[loc'[u].block].value[Slot0(loc'[u].index)] = loc'[u].value
  <2>1. CASE u = t
    BY <1>5, <2>1
  <2>2. CASE u # t
    <3>1. pc[u] = "push_ready" /\ loc'[u] = loc[u]
      BY ONLY <1>2, <1>5, <2>2
    <3>2. heap[loc[u].block].value[Slot0(loc[u].index)] = loc[u].value
      BY ONLY <1>1, <3>1 DEF ValuesInOrder
    <3> QED
      BY <2>2, <3>1, <3>2
  <2> QED
    BY ONLY <2>1, <2>2
<1>6. ASSUME NEW b \in DOMAIN heap', NEW i \in Slots,
             ~ heap'[b].freed, "WRITE" \in heap'[b].state[i]
      PROVE  heap'[b].value[i] = order'[Place(b, i)]
  <2>1. CASE /\ b \in DOMAIN heap /\ ~ heap[b].freed /\ "WRITE" \in State(b, i)
             /\ heap'[b].value[i] = heap[b].value[i]
    <3>1. heap[b].value[i] = order[Place(b, i)]
      BY ONLY <1>1, <2>1, i \in Slots DEF ValuesInOrder
    <3>2. Place(b, i) \in 1 .. Len(order)
      BY ONLY <1>3, <2>1, i \in Slots
    <3> QED
      BY ONLY <2>1, <3>1, <3>2, \A k \in 1 .. Len(order) : order'[k] = order[k]
  <2> QED
    BY <1>6, <2>1
<1>7. ValuesInOrder'
  BY ONLY <1>4, <1>5, <1>6, Len(order') = SlotsBelow(tail') DEF ValuesInOrder, SlotsBelow, State
<1> QED
  BY <1>7 DEF ValueInv

\* A step that gives out no ticket and writes no value.
LEMMA ValuesStay ==
    ASSUME ValueInv, NEW t \in Threads, Acts(t), BlockInv', Carrying',
           order' = order, SlotsBelow(tail') = SlotsBelow(tail),
           Writing(t)' =>
              /\ Writing(t) /\ loc'[t].value = loc[t].value
              /\ loc'[t].block = loc[t].block /\ loc'[t].index = loc[t].index,
           pc'[t] # "push_ready",
           \A b \in DOMAIN heap : heap'[b].freed \/ heap'[b].value = heap[b].value,
           \A b \in DOMAIN heap' : ~ heap'[b].freed =>
              \/ b \in DOMAIN heap /\ ~ heap[b].freed /\ \A i \in Slots :
                    "WRITE" \in heap'[b].state[i] => "WRITE" \in State(b, i)
              \/ heap'[b] = NewBlock
    PROVE  ValueInv'
<1>1. BlockInv /\ ValuesInOrder /\ ~ gone
  BY Around DEF ValueInv
<1>2. Writing(t)' => loc'[t].value = order'[Place(loc'[t].block, Slot0(loc'[t].index))]
  BY ONLY <1>1, order' = order, t \in Threads,
           Writing(t)' =>
              /\ Writing(t) /\ loc'[t].value = loc[t].value
              /\ loc'[t].block = loc[t].block /\ loc'[t].index = loc[t].index
     DEF ValuesInOrder
<1>3. ASSUME NEW u \in Threads, u # t, pc[u] = "push_ready"
      PROVE  heap'[loc[u].block].value[Slot0(loc[u].index)] =
                heap[loc[u].block].value[Slot0(loc[u].index)]
  <2>1. pc'[u] = pc[u] /\ loc'[u] = loc[u]
    BY <1>1, <1>3, Around
  <2>2. Live(loc[u].block)' /\ Live(loc[u].block)
    <3>1. Writing(u) /\ Writing(u)'
      BY ONLY <1>3, <2>1 DEF Writing
    <3>2. ~ gone'
      BY <1>1, Around, Frame DEF Acts
    <3> QED
      BY ONLY <1>1, <2>1, <3>1, <3>2, BlockInv', u \in Threads DEF BlockInv, Holding, Live
  <2> QED
    BY <2>1, <2>2 DEF Live
<1>4. ASSUME NEW b \in DOMAIN heap', NEW i \in Slots,
             ~ heap'[b].freed, "WRITE" \in heap'[b].state[i]
      PROVE  /\ b \in DOMAIN heap /\ ~ heap[b].freed /\ "WRITE" \in State(b, i)
             /\ heap'[b].value[i] = heap[b].value[i]
  <2>1. heap'[b] # NewBlock
    BY ONLY <1>4 DEF NewBlock
  <2> QED
    BY <1>4, <2>1
<1>5. Len(order') = SlotsBelow(tail')
  BY <1>1 DEF ValuesInOrder
<1> QED
  BY <1>1, <1>2, <1>3, <1>4, <1>5, ValuesOn

\* Calls, looks and the steps of a reader up to the read.
LEMMA LooksKeepValues ==
    ASSUME ValueInv, NEW t \in Threads, BlockInv', Carrying',
           \/ Call(t) \/ FailSpuriously(t)
           \/ LoadTail(t) \/ LoadTailBlock(t) \/ PublishFirst(t) \/ LoseTailTicket(t)
           \/ LoadHead(t) \/ LoadHeadBlock(t) \/ LookAtTail(t) \/ TakeHeadTicket(t)
           \/ LoseHeadTicket(t) \/ WaitNext(t) \/ PeekNext(t) \/ MoveHeadBlock(t) \/ MoveHead(t)
           \/ ReadValue(t)
           \/ EmptyHead(t) \/ EmptyTail(t) \/ LenTail(t) \/ LenHead(t) \/ LenCheck(t)
    PROVE  ValueInv'
<1>1. Acts(t)
  BY DEF Acts, Step
<1>2. /\ BlockInv /\ ~ gone /\ heap \in Seq(Block)
      /\ pc \in [Threads -> {"idle"} \cup Pushing \cup Popping \cup Asking]
  BY <1>1, Around, Addresses DEF ValueInv
<1>3. tail' = tail /\ heap' = heap /\ order' = order /\ ~ Writing(t)' /\ pc'[t] # "push_ready"
  <2>1. CASE Call(t)
    BY ONLY <1>2, <2>1 DEF Call, CallPush, CallPop, CallIsEmpty, CallLen, Begin, Goto, positions,
       history, Writing
  <2>2. CASE FailSpuriously(t)
    BY ONLY <1>2, <2>2 DEF FailSpuriously, Goto, positions, others, history, Writing
  <2>3. CASE LoadTail(t) \/ LoadTailBlock(t) \/ PublishFirst(t) \/ LoseTailTicket(t)
    BY ONLY <1>2, <2>3 DEF LoadTail, LoadTailBlock, PublishFirst, LoseTailTicket, Goto, positions,
       others, history, Writing
  <2>4. CASE LoadHead(t) \/ LoadHeadBlock(t) \/ LookAtTail(t) \/ LoseHeadTicket(t)
    BY ONLY <1>2, <2>4 DEF LoadHead, LoadHeadBlock, LookAtTail, LoseHeadTicket, Again, Return, Goto,
       positions, others, history, Writing
  <2>5. CASE TakeHeadTicket(t) \/ WaitNext(t) \/ PeekNext(t)
    BY ONLY <1>2, <2>5 DEF TakeHeadTicket, WaitNext, PeekNext, Goto, positions, others, history, Writing
  <2>6. CASE MoveHeadBlock(t) \/ MoveHead(t) \/ ReadValue(t)
    BY ONLY <1>2, <2>6 DEF MoveHeadBlock, MoveHead, ReadValue, Goto, positions, others, history, Writing
  <2>7. CASE EmptyHead(t) \/ EmptyTail(t) \/ LenTail(t) \/ LenHead(t) \/ LenCheck(t)
    BY ONLY <1>2, <2>7 DEF EmptyHead, EmptyTail, LenTail, LenHead, LenCheck, Return, Goto, positions,
       others, history, Writing
  <2> QED
    BY <2>1, <2>2, <2>3, <2>4, <2>5, <2>6, <2>7
<1>4. \A b \in DOMAIN heap' : b \in DOMAIN heap /\ heap'[b] = heap[b]
  BY ONLY <1>3
<1>5. SlotsBelow(tail') = SlotsBelow(tail)
  BY ONLY <1>3
<1> QED
  BY <1>1, <1>3, <1>4, <1>5, ValuesStay DEF State

\* A block is installed or linked, the boundary is skipped.
LEMMA InstallsKeepValues ==
    ASSUME ValueInv, NEW t \in Threads, BlockInv', Carrying',
           InstallFirst(t) \/ InstallNext(t) \/ SkipBoundary(t) \/ LinkNext(t)
    PROVE  ValueInv'
<1>1. Acts(t)
  BY DEF Acts, Step
<1>2. /\ BlockInv /\ TicketInv /\ ~ gone /\ heap \in Seq(Block) /\ tail \in Nat
      /\ pc \in [Threads -> {"idle"} \cup Pushing \cup Popping \cup Asking]
      /\ loc \in [Threads -> Locals] /\ Keeps(t)
  BY <1>1, Around, Addresses, Own DEF ValueInv
<1>3. order' = order
  BY ONLY InstallFirst(t) \/ InstallNext(t) \/ SkipBoundary(t) \/ LinkNext(t)
     DEF InstallFirst, InstallNext, SkipBoundary, LinkNext, others, history
<1>4. pc'[t] # "push_ready"
  BY ONLY <1>2, InstallFirst(t) \/ InstallNext(t) \/ SkipBoundary(t) \/ LinkNext(t)
     DEF InstallFirst, InstallNext, SkipBoundary, LinkNext, Goto
<1>5. Writing(t)' =>
         /\ Writing(t) /\ loc'[t].value = loc[t].value
         /\ loc'[t].block = loc[t].block /\ loc'[t].index = loc[t].index
  <2>1. CASE InstallFirst(t)
    BY ONLY <1>2, <2>1 DEF InstallFirst, Goto, Writing
  <2>2. CASE InstallNext(t)
    BY ONLY <1>2, <2>2 DEF InstallNext, Goto, Writing, Locals
  <2>3. CASE SkipBoundary(t) \/ LinkNext(t)
    BY ONLY <1>2, <2>3 DEF SkipBoundary, LinkNext, Goto, Writing
  <2> QED
    BY <2>1, <2>2, <2>3
<1>6. SlotsBelow(tail') = SlotsBelow(tail)
  <2>1. CASE SkipBoundary(t)
    <3>1. tail' = tail + 2 /\ Boundary(tail)
      BY ONLY <1>2, <2>1 DEF SkipBoundary, Keeps, WriterHolds, Locals
    <3>2. Pos(tail') = Pos(tail) + 1 /\ Lap(tail') = Lap(tail) + 1 /\ Pos(tail) \in Nat /\ Lap(tail) \in Nat
      BY <1>2, <3>1, StepFacts, IndexFacts
    <3> QED
      BY ONLY <3>2 DEF SlotsBelow
  <2>2. CASE ~ SkipBoundary(t)
    <3>1. tail' = tail
      BY <2>2 DEF InstallFirst, InstallNext, LinkNext, positions
    <3> QED
      BY ONLY <3>1
  <2> QED
    BY <2>1, <2>2
<1>7. \A b \in DOMAIN heap' :
         \/ /\ b \in DOMAIN heap /\ heap'[b].state = heap[b].state
            /\ heap'[b].freed = heap[b].freed /\ heap'[b].value = heap[b].value
         \/ b \notin DOMAIN heap /\ heap'[b] = NewBlock
  <2>1. CASE heap' = heap \/ heap' = Append(heap, NewBlock)
    BY ONLY <1>2, <2>1
  <2>2. CASE LinkNext(t)
    BY ONLY <1>2, <2>2 DEF LinkNext, Block
  <2> QED
    BY <2>1, <2>2 DEF InstallFirst, InstallNext, SkipBoundary
<1>8. \A b \in DOMAIN heap : b \in DOMAIN heap'
  <2>1. CASE heap' = heap \/ heap' = Append(heap, NewBlock)
    BY ONLY <1>2, <2>1
  <2>2. CASE LinkNext(t)
    BY ONLY <1>2, <2>2 DEF LinkNext
  <2> QED
    BY <2>1, <2>2 DEF InstallFirst, InstallNext, SkipBoundary
<1> QED
  BY <1>1, <1>3, <1>4, <1>5, <1>6, <1>7, <1>8, ValuesStay DEF State

\* READ and DESTROY bits, and the free.
LEMMA ReadersKeepValues ==
    ASSUME ValueInv, NEW t \in Threads, BlockInv', Carrying',
           MarkRead(t) \/ Destroy(t) \/ MarkDestroy(t)
    PROVE  ValueInv'
<1>1. Acts(t)
  BY DEF Acts, Step
<1>2. /\ BlockInv /\ TicketInv /\ ~ gone /\ heap \in Seq(Block)
      /\ pc \in [Threads -> {"idle"} \cup Pushing \cup Popping \cup Asking]
      /\ loc \in [Threads -> Locals] /\ loc[t].cursor \in Slots
  BY <1>1, Around, Addresses, Own DEF ValueInv
<1>3. tail' = tail /\ order' = order
  BY ONLY MarkRead(t) \/ Destroy(t) \/ MarkDestroy(t)
     DEF MarkRead, Destroy, MarkDestroy, positions, others, history
<1>4. pc'[t] # "push_ready" /\ ~ Writing(t)'
  BY ONLY <1>2, MarkRead(t) \/ Destroy(t) \/ MarkDestroy(t)
     DEF MarkRead, Destroy, MarkDestroy, Goto, Return, Writing
<1>5. SlotsBelow(tail') = SlotsBelow(tail)
  BY ONLY <1>3
<1>6. /\ DOMAIN heap' = DOMAIN heap
      /\ \A b \in DOMAIN heap :
           \/ heap'[b].freed
           \/ /\ heap'[b].freed = heap[b].freed /\ heap'[b].value = heap[b].value
              /\ \A i \in Slots : "WRITE" \in heap'[b].state[i] => "WRITE" \in State(b, i)
  <2>1. ASSUME NEW k \in Slots, NEW bit \in {"READ", "DESTROY"}, SetBit(t, k, bit)
        PROVE  /\ DOMAIN heap' = DOMAIN heap
               /\ \A b \in DOMAIN heap :
                    /\ heap'[b].freed = heap[b].freed /\ heap'[b].value = heap[b].value
                    /\ \A i \in Slots : "WRITE" \in heap'[b].state[i] => "WRITE" \in heap[b].state[i]
    BY ONLY <1>2, <2>1 DEF SetBit, Block
  <2>2. CASE MarkRead(t)
    <3>1. SetBit(t, Slot0(loc[t].index), "READ") /\ Slot0(loc[t].index) \in Slots
      <4>1. Reading(t)
        BY <2>2 DEF MarkRead, Reading
      <4> QED
        BY <1>2, <2>2, <4>1, TicketFacts DEF MarkRead
    <3> QED
      BY ONLY <2>1, <3>1 DEF State
  <2>3. CASE MarkDestroy(t)
    <3>1. SetBit(t, loc[t].cursor, "DESTROY")
      BY ONLY <2>3 DEF MarkDestroy
    <3> QED
      BY ONLY <1>2, <2>1, <3>1 DEF State
  <2>4. CASE Destroy(t)
    <3>1. heap' = heap \/ heap' = [heap EXCEPT ![loc[t].block] = FreedBlock]
      BY ONLY <2>4 DEF Destroy
    <3>2. FreedBlock.freed
      BY ONLY TRUE DEF FreedBlock, NewBlock
    <3> QED
      BY ONLY <1>2, <3>1, <3>2 DEF State
  <2> QED
    BY <2>2, <2>3, <2>4
<1> QED
  BY <1>1, <1>3, <1>4, <1>5, <1>6, ValuesStay

\* The ticket and the value are one step.
LEMMA TakeTailTicketValues ==
    ASSUME ValueInv, NEW t \in Threads, BlockInv', Carrying', TakeTailTicket(t)
    PROVE  ValueInv'
<1>1. Acts(t)
  BY DEF Acts, Step
<1>2. /\ BlockInv /\ TicketInv /\ ~ gone /\ heap \in Seq(Block) /\ tail \in Nat
      /\ pc \in [Threads -> {"idle"} \cup Pushing \cup Popping \cup Asking]
      /\ loc \in [Threads -> Locals] /\ Keeps(t)
      /\ ValuesInOrder /\ order \in Seq(Values) /\ loc[t].index \in Nat
  BY <1>1, Around, Addresses, Own DEF ValueInv, Carrying
<1>3. /\ pc[t] = "push_cas" /\ tail = loc[t].index /\ tail' = tail + 2
      /\ order' = Append(order, loc[t].value) /\ heap' = heap /\ loc' = loc
      /\ pc'[t] \in {"push_next", "push_write"}
  BY ONLY <1>2, TakeTailTicket(t) DEF TakeTailTicket, Goto
<1>4. ~ Boundary(tail)
  BY ONLY <1>2, <1>3 DEF Keeps, PushSaw
<1>5. /\ SlotsBelow(tail) \in Nat /\ Len(order) = SlotsBelow(tail)
      /\ SlotsBelow(tail') = SlotsBelow(tail) + 1
  <2>1. Pos(tail') = Pos(tail) + 1 /\ Lap(tail') = Lap(tail) /\ Pos(tail) \in Nat /\ Lap(tail) \in Nat
    BY <1>2, <1>3, <1>4, StepFacts, IndexFacts
  <2>2. SlotsBelow(tail) \in Nat
    BY <1>2, TicketPlaces
  <2> QED
    BY ONLY <1>2, <2>1, <2>2 DEF SlotsBelow, ValuesInOrder
<1>6. loc[t].value \in Values
  BY ONLY <1>2, <1>3, ValueInv, t \in Threads DEF ValueInv, Carrying, Pushing
<1>7. /\ Len(order') = SlotsBelow(tail')
      /\ \A k \in 1 .. Len(order) : order'[k] = order[k]
      /\ order'[SlotsBelow(tail) + 1] = loc[t].value
  BY ONLY <1>2, <1>3, <1>5, <1>6
<1>8. Writing(t)' =>
         loc'[t].value = order'[Place(loc'[t].block, Slot0(loc'[t].index))]
  <2>1. loc[t].block = Lap(tail) + 1
    BY ONLY <1>2, <1>3 DEF Keeps, PushSaw
  <2>3. Lap(tail) \in Nat /\ Slot0(loc[t].index) \in Slots
    BY <1>2, <1>3, <1>4, IndexFacts, TicketSlot
  <2>4. loc[t].block \in Nat \ {0}
    BY ONLY <2>1, <2>3
  <2>2. Place(loc[t].block, Slot0(loc[t].index)) = SlotsBelow(tail) + 1
    BY <1>2, <1>3, <2>1, <2>3, <2>4, PlaceFacts
  <2> QED
    BY ONLY <1>3, <1>7, <2>2
<1>9. pc'[t] # "push_ready"
  BY ONLY <1>3
<1>10. \A b \in DOMAIN heap' : b \in DOMAIN heap /\ heap'[b] = heap[b]
  BY ONLY <1>3
<1> QED
  BY <1>1, <1>2, <1>3, <1>7, <1>8, <1>9, <1>10, ValuesOn DEF State

\* The value goes into the slot of the ticket, which is not written yet.
LEMMA WriteValueValues ==
    ASSUME ValueInv, NEW t \in Threads, BlockInv', Carrying', WriteValue(t)
    PROVE  ValueInv'
<1>1. Acts(t)
  BY DEF Acts, Step
<1>2. /\ BlockInv /\ TicketInv /\ ~ gone /\ heap \in Seq(Block) /\ tail \in Nat
      /\ pc \in [Threads -> {"idle"} \cup Pushing \cup Popping \cup Asking]
      /\ loc \in [Threads -> Locals] /\ Holding(t)
      /\ ValuesInOrder /\ loc[t].value \in Values \cup {None}
  BY <1>1, Around, Addresses, Own DEF ValueInv
<1>3. /\ pc[t] = "push_write" /\ pc'[t] = "push_ready"
      /\ heap' = [heap EXCEPT ![loc[t].block].value[Slot0(loc[t].index)] = loc[t].value]
      /\ loc' = loc /\ order' = order /\ tail' = tail
  BY ONLY <1>2, WriteValue(t) DEF WriteValue, Goto, positions, others, history
<1>4. Writing(t)
  BY ONLY <1>3 DEF Writing
<1>5. PICK c \in DOMAIN heap : c = loc[t].block
  BY <1>2, <1>4, TicketFacts
<1>6. PICK k \in Slots : k = Slot0(loc[t].index)
  BY <1>2, <1>4, TicketFacts
<1>7. /\ DOMAIN heap' = DOMAIN heap
      /\ \A b \in DOMAIN heap :
           /\ heap'[b].freed = heap[b].freed /\ heap'[b].state = heap[b].state
           /\ \A i \in Slots : heap'[b].value[i] =
                IF b = c /\ i = k THEN loc[t].value ELSE heap[b].value[i]
  <2>1. heap' = [heap EXCEPT ![c].value[k] = loc[t].value] /\ heap[c] \in Block
    BY ONLY <1>2, <1>3, <1>5, <1>6
  <2>2. DOMAIN heap' = DOMAIN heap /\ \A b \in DOMAIN heap : b # c => heap'[b] = heap[b]
    BY ONLY <1>2, <2>1
  <2>3. heap'[c] = [heap[c] EXCEPT !.value[k] = loc[t].value]
    BY ONLY <1>2, <2>1, c \in DOMAIN heap
  <2>4. /\ heap'[c].freed = heap[c].freed /\ heap'[c].state = heap[c].state
        /\ heap'[c].value = [heap[c].value EXCEPT ![k] = loc[t].value]
    BY ONLY <2>1, <2>3 DEF Block
  <2>5. \A i \in Slots : heap'[c].value[i] = IF i = k THEN loc[t].value ELSE heap[c].value[i]
    BY ONLY <2>1, <2>4 DEF Block
  <2> QED
    BY ONLY <2>2, <2>4, <2>5
<1>8. "WRITE" \notin State(c, k)
  BY ONLY <1>2, <1>4, <1>5, <1>6 DEF Holding
<1>9. ASSUME NEW u \in Threads, u # t, pc[u] = "push_ready"
      PROVE  heap'[loc[u].block].value[Slot0(loc[u].index)] =
                heap[loc[u].block].value[Slot0(loc[u].index)]
  <2>1. Writing(u)
    BY ONLY <1>9 DEF Writing
  <2>2. /\ loc[u].block \in DOMAIN heap /\ Slot0(loc[u].index) \in Slots
        /\ ~ (loc[u].block = c /\ Slot0(loc[u].index) = k)
    BY <1>2, <1>4, <1>5, <1>6, <1>9, <2>1, TicketFacts, OtherSlot
  <2> QED
    BY ONLY <1>7, <2>2
<1>10. \A b \in DOMAIN heap' : \A i \in Slots :
           ~ heap'[b].freed /\ "WRITE" \in heap'[b].state[i] =>
              /\ b \in DOMAIN heap /\ ~ heap[b].freed /\ "WRITE" \in State(b, i)
              /\ heap'[b].value[i] = heap[b].value[i]
  BY ONLY <1>7, <1>8 DEF State
<1>11. heap'[c].value[k] = loc[t].value
  BY ONLY <1>7, c \in DOMAIN heap, k \in Slots
<1>12. loc[t].value = order[Place(loc[t].block, Slot0(loc[t].index))] /\ Len(order) = SlotsBelow(tail)
  BY ONLY <1>2, <1>4, t \in Threads DEF ValuesInOrder
<1>13. Len(order') = SlotsBelow(tail') /\ \A n \in 1 .. Len(order) : order'[n] = order[n]
  BY ONLY <1>3, <1>12
<1>14. loc'[t].value = order'[Place(loc'[t].block, Slot0(loc'[t].index))]
  BY ONLY <1>3, <1>12
<1>15. heap'[loc'[t].block].value[Slot0(loc'[t].index)] = loc'[t].value
  BY ONLY <1>3, <1>5, <1>6, <1>11
<1> QED
  BY <1>1, <1>2, <1>9, <1>10, <1>13, <1>14, <1>15, ValuesOn

\* WRITE tells of the value that is there.
LEMMA MarkWrittenValues ==
    ASSUME ValueInv, NEW t \in Threads, BlockInv', Carrying', MarkWritten(t)
    PROVE  ValueInv'
<1>1. Acts(t)
  BY DEF Acts, Step
<1>2. /\ BlockInv /\ TicketInv /\ ~ gone /\ heap \in Seq(Block) /\ tail \in Nat
      /\ pc \in [Threads -> {"idle"} \cup Pushing \cup Popping \cup Asking]
      /\ loc \in [Threads -> Locals] /\ ValuesInOrder
  BY <1>1, Around, Addresses, Own DEF ValueInv
<1>3. /\ pc[t] = "push_ready" /\ pc'[t] = "idle" /\ SetBit(t, Slot0(loc[t].index), "WRITE")
      /\ order' = order /\ tail' = tail
  BY ONLY <1>2, MarkWritten(t) DEF MarkWritten, Return, Goto, positions, others, history
<1>4. Writing(t) /\ ~ Writing(t)'
  BY ONLY <1>3 DEF Writing
<1>5. PICK c \in DOMAIN heap : c = loc[t].block
  BY <1>2, <1>4, TicketFacts
<1>6. PICK k \in Slots : k = Slot0(loc[t].index)
  BY <1>2, <1>4, TicketFacts
<1>7. /\ DOMAIN heap' = DOMAIN heap
      /\ \A b \in DOMAIN heap :
           /\ heap'[b].freed = heap[b].freed /\ heap'[b].value = heap[b].value
           /\ \A i \in Slots : "WRITE" \in heap'[b].state[i] =>
                "WRITE" \in heap[b].state[i] \/ (b = c /\ i = k)
  BY ONLY <1>2, <1>3, <1>5, <1>6 DEF SetBit, Block
<1>8. heap[c].value[k] = order[Place(c, k)] /\ Len(order) = SlotsBelow(tail)
  BY ONLY <1>2, <1>3, <1>4, <1>5, <1>6, t \in Threads DEF ValuesInOrder
<1>9. ASSUME NEW u \in Threads, u # t, pc[u] = "push_ready"
      PROVE  heap'[loc[u].block].value[Slot0(loc[u].index)] =
                heap[loc[u].block].value[Slot0(loc[u].index)]
  <2>1. Writing(u)
    BY ONLY <1>9 DEF Writing
  <2>2. loc[u].block \in DOMAIN heap
    BY <1>2, <2>1, TicketFacts
  <2> QED
    BY ONLY <1>7, <2>2
<1>10. \A b \in DOMAIN heap' : \A i \in Slots :
           ~ heap'[b].freed /\ "WRITE" \in heap'[b].state[i] =>
              \/ /\ b \in DOMAIN heap /\ ~ heap[b].freed /\ "WRITE" \in State(b, i)
                 /\ heap'[b].value[i] = heap[b].value[i]
              \/ heap'[b].value[i] = order'[Place(b, i)]
  BY ONLY <1>3, <1>7, <1>8 DEF State
<1> QED
  BY <1>1, <1>2, <1>3, <1>4, <1>8, <1>9, <1>10, ValuesOn

\* At first there is no value.
LEMMA InitValueInv == Init => ValueInv
<1>1. SUFFICES ASSUME Init PROVE ValueInv
  OBVIOUS
<1>2. BlockInv
  BY <1>1, InitBlockInv
<1>3. tail = 0 /\ order = <<>> /\ DOMAIN heap = {} /\ pc = [t \in Threads |-> "idle"]
  BY <1>1 DEF Init
<1>4. SlotsBelow(tail) = 0
  BY <1>3, Zero DEF SlotsBelow
<1>5. \A t \in Threads : pc[t] \notin Pushing /\ ~ Writing(t) /\ pc[t] # "push_ready"
  BY ONLY <1>3 DEF Pushing, Writing
<1>6. order \in Seq(Values) /\ Len(order) = 0
  BY ONLY <1>3
<1> QED
  BY ONLY <1>2, <1>3, <1>4, <1>5, <1>6 DEF ValueInv, Carrying, ValuesInOrder

\* The values stay in the order of the tickets.
LEMMA NextValueInv == ValueInv /\ [Next]_vars => ValueInv'
<1>1. SUFFICES ASSUME ValueInv, [Next]_vars PROVE ValueInv'
  OBVIOUS
<1>2. BlockInv' /\ Carrying'
  BY <1>1, NextBlockInv, NextCarrying DEF ValueInv, BlockInv
<1>3. CASE UNCHANGED vars
  <2>1. UNCHANGED <<tail, heap, pc, loc, gone, order>>
    BY <1>3 DEF vars, positions, others, history
  <2>2. ValuesInOrder => ValuesInOrder'
    BY ONLY <2>1 DEF ValuesInOrder, Writing, State, SlotsBelow
  <2> QED
    BY ONLY <1>1, <1>2, <2>1, <2>2 DEF ValueInv
<1>4. CASE Drop
  BY <1>2, <1>4 DEF Drop, ValueInv
<1>5. ASSUME NEW t \in Threads, Acts(t) PROVE ValueInv'
  <2>1. CASE \/ Call(t) \/ FailSpuriously(t)
             \/ LoadTail(t) \/ LoadTailBlock(t) \/ PublishFirst(t) \/ LoseTailTicket(t)
             \/ LoadHead(t) \/ LoadHeadBlock(t) \/ LookAtTail(t) \/ TakeHeadTicket(t)
             \/ LoseHeadTicket(t) \/ WaitNext(t) \/ PeekNext(t) \/ MoveHeadBlock(t) \/ MoveHead(t)
             \/ ReadValue(t)
             \/ EmptyHead(t) \/ EmptyTail(t) \/ LenTail(t) \/ LenHead(t) \/ LenCheck(t)
    BY <1>1, <1>2, <2>1, LooksKeepValues
  <2>2. CASE InstallFirst(t) \/ InstallNext(t) \/ SkipBoundary(t) \/ LinkNext(t)
    BY <1>1, <1>2, <2>2, InstallsKeepValues
  <2>3. CASE MarkRead(t) \/ Destroy(t) \/ MarkDestroy(t)
    BY <1>1, <1>2, <2>3, ReadersKeepValues
  <2>4. CASE TakeTailTicket(t)
    BY <1>1, <1>2, <2>4, TakeTailTicketValues
  <2>5. CASE WriteValue(t)
    BY <1>1, <1>2, <2>5, WriteValueValues
  <2>6. CASE MarkWritten(t)
    BY <1>1, <1>2, <2>6, MarkWrittenValues
  <2> QED
    BY ONLY <1>5, <2>1, <2>2, <2>3, <2>4, <2>5, <2>6 DEF Acts, Step
<1> QED
  BY ONLY <1>1, <1>3, <1>4, <1>5 DEF Next, Acts

-----------------------------------------------------------------------------
(* The queue at rest, and the drop *)

AtRest == ~ gone /\ \A t \in Threads : pc[t] = "idle"

\* A set of natural numbers has a least one.
LEMMA LeastOne ==
    ASSUME NEW S \in SUBSET Nat, NEW n \in S
    PROVE  \E m \in S : \A k \in S : m <= k
<1> DEFINE R == OpToRel(<, Nat)
<1>1. IsWellFoundedOn(R, Nat)
  BY NatLessThanWellFounded
<1>2. S \subseteq Nat /\ S # {}
  OBVIOUS
<1>4. \A k, m \in Nat : k < m => <<k, m>> \in R
  BY DEF OpToRel
<1> HIDE DEF R
<1>3. PICK m \in S : \A k \in S : ~ (<<k, m>> \in R)
  BY ONLY <1>1, <1>2, WFMin
<1>5. \A k \in S : ~ (k < m)
  BY ONLY <1>2, <1>3, <1>4
<1>6. \A k \in S : m <= k
  BY ONLY <1>2, <1>5, m \in S
<1> QED
  BY ONLY <1>6, m \in S

\* When nobody is in a call all that there was to do has been done.
LEMMA RestFacts ==
    ASSUME DutyInv, AtRest
    PROVE  /\ BlockInv /\ TicketInv /\ ~ Boundary(tail) /\ ~ Boundary(head)
           /\ tail_block = Len(heap) /\ (tail_block # Null => head_block # Null)
           /\ \A b \in DOMAIN heap : ~ heap[b].freed =>
                /\ b < Len(heap) => heap[b].next # Null
                /\ \A i \in Slots : Passed(tail, b, i) => "WRITE" \in State(b, i)
                /\ b > Lap(head)
<1>1. BlockInv /\ TicketInv /\ Duties /\ \A t \in Threads : pc[t] = "idle"
  BY DEF DutyInv, BlockInv, AtRest
<1>2. ASSUME NEW t \in Threads
      PROVE  /\ ~ Installing(t) /\ ~ Moving(t) /\ pc[t] # "push_head"
             /\ \A b : ~ Linking(t, b) /\ ~ Freeing(t, b)
             /\ \A b, i : ~ Filling(t, b, i)
  <2>1. pc[t] \in Outside
    BY ONLY <1>1, t \in Threads DEF Outside
  <2> QED
    BY <2>1, OutsideFacts
<1>3. tail_block = Len(heap)
  BY <1>1 DEF TicketInv, TailBlock
<1>4. ~ Boundary(tail) /\ ~ Boundary(head) /\ (tail_block # Null => head_block # Null)
  BY ONLY <1>1, <1>2 DEF Duties
<1>5. ASSUME NEW b \in DOMAIN heap, ~ heap[b].freed
      PROVE  /\ b < Len(heap) => heap[b].next # Null
             /\ \A i \in Slots : Passed(tail, b, i) => "WRITE" \in State(b, i)
             /\ b > Lap(head)
  <2>1. BlockDuties(b)
    BY ONLY <1>1, <1>5 DEF Duties
  <2>2. b \in Nat /\ Lap(head) \in Nat
    BY <1>1, Addresses
  <2>3. ~ (b <= Lap(head))
    BY ONLY <1>2, <2>1 DEF BlockDuties
  <2> QED
    BY ONLY <1>2, <2>1, <2>2, <2>3 DEF BlockDuties
<1> QED
  BY ONLY <1>1, <1>3, <1>4, <1>5

\* The blocks that there are: those of the laps from head's to tail's.
LEMMA RestBlocks ==
    ASSUME DutyInv, AtRest, heap # <<>>
    PROVE  /\ Lap(head) \in Nat /\ Lap(tail) \in Nat /\ Lap(head) <= Lap(tail)
           /\ DOMAIN heap = 1 .. Lap(tail) + 1 /\ head_block = Lap(head) + 1
           /\ \A b \in DOMAIN heap : ~ heap[b].freed <=> b > Lap(head)
           /\ \A b \in Lap(head) + 1 .. Lap(tail) : heap[b].next = b + 1
<1>1. /\ BlockInv /\ TicketInv /\ ~ Boundary(tail) /\ ~ Boundary(head)
      /\ tail_block = Len(heap) /\ (tail_block # Null => head_block # Null)
      /\ \A b \in DOMAIN heap : ~ heap[b].freed =>
           (b < Len(heap) => heap[b].next # Null) /\ b > Lap(head)
  BY RestFacts
<1>2. /\ tail \in Nat /\ head \in Nat /\ Lap(tail) \in Nat /\ Lap(head) \in Nat
      /\ Pos(tail) \in Nat /\ Pos(head) \in Nat /\ heap \in Seq(Block)
  BY <1>1, Addresses
<1>3. TailBlock /\ HeadBlock /\ Links /\ FreedBehind /\ HeadBehindTail
  BY <1>1 DEF TicketInv, BlockInv, AtRest
<1>4. Lap(head) <= Lap(tail)
  BY <1>2, <1>3, OrderFacts DEF HeadBehindTail
<1>5. tail_block # Null
  BY ONLY <1>1, <1>2, heap # <<>> DEF Null
<1>6. tail_block = Lap(tail) + 1 /\ head_block = Lap(head) + 1
  BY ONLY <1>1, <1>3, <1>5 DEF TailBlock, HeadBlock
<1>7. DOMAIN heap = 1 .. Lap(tail) + 1 /\ Len(heap) = Lap(tail) + 1
  <2>1. Len(heap) = Lap(tail) + 1
    BY ONLY <1>1, <1>6
  <2>2. DOMAIN heap = 1 .. Len(heap)
    BY ONLY <1>2
  <2> QED
    BY ONLY <2>1, <2>2
<1>8. ASSUME NEW b \in DOMAIN heap PROVE ~ heap[b].freed <=> b > Lap(head)
  <2>1. b \in Nat
    BY ONLY <1>2
  <2> QED
    BY ONLY <1>1, <1>2, <1>3, <2>1, b \in DOMAIN heap DEF FreedBehind
<1>9. ASSUME NEW b \in Lap(head) + 1 .. Lap(tail) PROVE heap[b].next = b + 1
  <2>1. b \in DOMAIN heap /\ b > Lap(head) /\ b < Len(heap)
    BY ONLY <1>2, <1>7
  <2> QED
    BY ONLY <1>1, <1>3, <1>8, <2>1 DEF Links
<1> QED
  BY ONLY <1>2, <1>4, <1>6, <1>7, <1>8, <1>9

\* The walk of the drop comes to these blocks one by one.
LEMMA ChainFacts ==
    ASSUME DutyInv, AtRest, heap # <<>>
    PROVE  Chain = [k \in 0 .. Lap(tail) - Lap(head) |-> Lap(head) + 1 + k]
<1> DEFINE n == Lap(tail) - Lap(head)
           a == Lap(head) + 1
           Walk(f) == [k \in 0 .. n |-> IF k = 0 THEN head_block ELSE heap[f[k - 1]].next]
           w == [k \in 0 .. n |-> a + k]
<1>1. /\ n \in Nat /\ a \in Nat /\ head_block = a
      /\ \A b \in a .. a + n - 1 : heap[b].next = b + 1
  <2>1. /\ Lap(head) \in Nat /\ Lap(tail) \in Nat /\ Lap(head) <= Lap(tail)
        /\ head_block = Lap(head) + 1
        /\ \A b \in Lap(head) + 1 .. Lap(tail) : heap[b].next = b + 1
    BY RestBlocks
  <2>2. a .. a + n - 1 = Lap(head) + 1 .. Lap(tail)
    BY ONLY <2>1
  <2> QED
    BY ONLY <2>1, <2>2
<1>2. Chain = CHOOSE f : f = Walk(f)
  BY DEF Chain
<1> HIDE DEF n, a
<1>3. w = Walk(w)
  <2>1. ASSUME NEW k \in 0 .. n
        PROVE  a + k = IF k = 0 THEN head_block ELSE heap[w[k - 1]].next
    <3>1. CASE k = 0
      BY ONLY <1>1, <3>1
    <3>2. CASE k # 0
      <4>1. k - 1 \in 0 .. n /\ a + (k - 1) \in a .. a + n - 1
        BY ONLY <1>1, <3>2
      <4>2. w[k - 1] = a + (k - 1)
        BY ONLY <4>1
      <4>3. heap[a + (k - 1)].next = a + (k - 1) + 1
        BY ONLY <1>1, <4>1
      <4> QED
        BY ONLY <1>1, <3>2, <4>2, <4>3
    <3> QED
      BY ONLY <3>1, <3>2
  <2> QED
    BY ONLY <2>1
<1> HIDE DEF w
<1>4. Chain = Walk(Chain)
  BY ONLY <1>2, <1>3
<1>5. ASSUME NEW m \in 0 .. n PROVE Chain[m] = a + m
  <2> DEFINE S == {k \in 0 .. n : Chain[k] # a + k}
  <2>1. SUFFICES ASSUME S # {} PROVE FALSE
    BY <1>5
  <2>2. PICK s \in S : \A k \in S : s <= k
    <3>1. S \in SUBSET Nat
      OBVIOUS
    <3> HIDE DEF S
    <3> QED
      BY ONLY <2>1, <3>1, LeastOne
  <2>3. s \in 0 .. n /\ Chain[s] # a + s
    BY <2>2
  <2>4. Chain[s] = IF s = 0 THEN head_block ELSE heap[Chain[s - 1]].next
    BY ONLY <1>4, <2>3
  <2>5. s # 0
    BY ONLY <1>1, <2>3, <2>4
  <2>6. s - 1 \in 0 .. n /\ s - 1 \notin S
    BY ONLY <1>1, <2>2, <2>3, <2>5
  <2>7. Chain[s - 1] = a + (s - 1)
    BY ONLY <2>6
  <2>8. heap[a + (s - 1)].next = a + (s - 1) + 1
    <3>1. a + (s - 1) \in a .. a + n - 1
      BY ONLY <1>1, <2>3, <2>5
    <3> QED
      BY ONLY <1>1, <3>1
  <2> QED
    BY ONLY <1>1, <2>3, <2>4, <2>5, <2>7, <2>8
<1>6. Chain = [k \in 0 .. n |-> a + k]
  BY ONLY <1>4, <1>5
<1> QED
  BY ONLY <1>6 DEF n, a

\* Position n as an index: what is behind the head and before the tail, or not.
LEMMA PositionFacts ==
    ASSUME NEW n \in Nat
    PROVE  2 * n \in Nat /\ Pos(2 * n) = n /\ Lap(2 * n) = n \div LAP /\ Slot0(2 * n) = n % LAP
<1>1. 2 * n \in Nat /\ (2 * n) \div 2 = n
  OBVIOUS
<1> QED
  BY ONLY <1>1 DEF Pos, Lap, Slot0

\* The slots between two positions are the places between them.
LEMMA PlacesBetween ==
    ASSUME NEW h \in Nat, NEW e \in Nat, NEW k \in Nat,
           SlotsBelow(h) + 1 <= k, k <= SlotsBelow(e)
    PROVE  \E m \in Nat : /\ ~ Boundary(m) /\ m = 2 * Pos(m) /\ Pos(h) <= Pos(m) /\ Pos(m) < Pos(e)
                          /\ SlotsBelow(m) + 1 = k
<1> DEFINE c == LAP - 1
           a == (k - 1) \div c
           i == (k - 1) % c
           n == a * LAP + i
           m == 2 * n
<1>1. LAP \in Nat /\ LAP >= 2 /\ c \in Nat \ {0} /\ SlotsBelow(h) \in Nat /\ SlotsBelow(e) \in Nat
  <2>1. 0 \in Slots /\ 1 \in Nat \ {0}
    BY Laps
  <2> QED
    BY <2>1, Laps, PlaceFacts
<1>2. k - 1 \in Nat
  BY ONLY <1>1, k \in Nat, SlotsBelow(h) + 1 <= k
<1>3. a \in Nat /\ i \in 0 .. c - 1 /\ k - 1 = c * a + i
  BY ONLY <1>1, <1>2, DivMod
<1> HIDE DEF a, i
<1>4. n \in Nat /\ i \in 0 .. LAP - 1 /\ i # LAP - 1 /\ n = LAP * a + i
  BY ONLY <1>1, <1>3
<1> HIDE DEF n
<1>5. m \in Nat /\ Pos(m) = n
  BY <1>4, PositionFacts
<1> HIDE DEF m
<1>6. Lap(m) = a /\ Slot0(m) = i
  <2>1. /\ Lap(m) \in Nat /\ Slot0(m) \in 0 .. LAP - 1 /\ Pos(m) = LAP * Lap(m) + Slot0(m)
        /\ LAP \in Nat \ {0}
    BY <1>1, <1>5, IndexFacts
  <2>2. LAP * Lap(m) + Slot0(m) = LAP * a + i
    BY ONLY <1>4, <1>5, <2>1
  <2>3. LAP * Lap(m) \in Nat /\ LAP * a \in Nat
    BY ONLY <1>3, <2>1
  <2>4. /\ LAP * Lap(m) + Slot0(m) <= LAP * a + i
        /\ LAP * a + i <= LAP * Lap(m) + Slot0(m)
    BY ONLY <1>4, <2>1, <2>2, <2>3
  <2> QED
    BY ONLY <1>3, <1>4, <2>1, <2>4, DivUnique
<1>7. ~ Boundary(m)
  BY <1>4, <1>5, <1>6, IndexFacts
<1>8. SlotsBelow(m) + 1 = k
  <2>1. SlotsBelow(m) = (LAP * a + i) - a
    BY ONLY <1>4, <1>5, <1>6 DEF SlotsBelow
  <2>2. LAP * a - a = c * a /\ LAP * a \in Nat /\ c * a \in Nat
    BY ONLY <1>1, <1>3
  <2> QED
    BY ONLY <1>2, <1>3, <2>1, <2>2, k \in Nat
<1>9. Pos(h) \in Nat /\ Pos(e) \in Nat /\ Pos(m) \in Nat
  BY <1>5, IndexFacts
<1>10. Pos(m) < Pos(e)
  <2>1. SUFFICES ASSUME Pos(e) <= Pos(m) PROVE FALSE
    BY <1>9
  <2>2. SlotsBelow(e) <= SlotsBelow(m) /\ SlotsBelow(m) \in Int
    BY <1>5, <2>1, SlotsBelowFacts
  <2> QED
    BY ONLY <1>1, <1>8, <2>2, k \in Nat, k <= SlotsBelow(e)
<1>11. Pos(h) <= Pos(m)
  <2>1. SUFFICES ASSUME Pos(m) < Pos(h) PROVE FALSE
    BY <1>9
  <2>2. m + 2 \in Nat /\ Pos(m + 2) = Pos(m) + 1 /\ Lap(m + 2) = Lap(m)
    BY <1>5, <1>7, StepFacts
  <2>3. Pos(m + 2) <= Pos(h)
    BY ONLY <1>9, <2>1, <2>2
  <2>4. SlotsBelow(m + 2) <= SlotsBelow(h) /\ SlotsBelow(m + 2) = k
    BY <1>3, <1>4, <1>5, <1>6, <1>8, <2>2, <2>3, SlotsBelowFacts DEF SlotsBelow
  <2> QED
    BY ONLY <1>1, <2>4, k \in Nat, SlotsBelow(h) + 1 <= k
<1>12. m = 2 * Pos(m)
  BY ONLY <1>5 DEF m
<1> QED
  BY ONLY <1>5, <1>7, <1>8, <1>10, <1>11, <1>12

\* What the drop releases: the value of each slot from head to tail.
LEMMA DropReleases ==
    ASSUME DutyInv, ValueInv, Drop, heap # <<>>, NEW n \in Pos(head) .. Pos(tail) - 1,
           n % LAP # BLOCK_CAP
    PROVE  /\ n \in DOMAIN dropped'
           /\ dropped'[n] = order[SlotsBelow(2 * n) + 1]
           /\ SlotsBelow(2 * n) + 1 \in SlotsBelow(head) + 1 .. Len(order)
<1>1. AtRest /\ BlockInv /\ TicketInv /\ ~ gone /\ ValuesInOrder
  BY DEF AtRest, Drop, ValueInv, DutyInv, BlockInv
<1>2. /\ tail \in Nat /\ head \in Nat /\ Pos(tail) \in Nat /\ Pos(head) \in Nat
      /\ Lap(tail) \in Nat /\ Lap(head) \in Nat
  BY <1>1, Addresses
<1>3. PICK m \in Nat : m = 2 * n /\ Pos(m) = n /\ Lap(m) = n \div LAP /\ Slot0(m) = n % LAP
  <2>1. n \in Nat
    BY ONLY <1>2
  <2> QED
    BY <2>1, PositionFacts
<1>4. ~ Boundary(m) /\ Pos(head) <= Pos(m) /\ Pos(m) < Pos(tail)
  BY ONLY <1>2, <1>3, n % LAP # BLOCK_CAP, n \in Pos(head) .. Pos(tail) - 1 DEF Boundary
<1>5. /\ Lap(m) \in Nat /\ Lap(head) <= Lap(m) /\ Lap(m) <= Lap(tail)
      /\ Slot0(m) \in Slots
  <2>0. Lap(m) \in Nat /\ Pos(m) \in Nat
    BY IndexFacts
  <2>1. Lap(m) \in Nat /\ Pos(m) <= Pos(tail)
    BY ONLY <1>2, <1>4, <2>0
  <2>2. Lap(head) <= Lap(m)
    BY <1>2, <1>4, OrderFacts
  <2>3. Lap(m) <= Lap(tail)
    BY <1>2, <2>1, OrderFacts
  <2>4. Slot0(m) \in Slots
    BY <1>4, TicketSlot
  <2> QED
    BY ONLY <2>1, <2>2, <2>3, <2>4
<1>6. PICK b \in Nat \ {0} : b = Lap(m) + 1
  BY ONLY <1>5
<1>7. PICK i \in Slots : i = Slot0(m)
  BY ONLY <1>5
<1>8. Passed(tail, b, i)
  BY <1>2, <1>3, <1>4, <1>6, <1>7, PassedFacts
<1>9. b \in DOMAIN heap /\ ~ heap[b].freed
  <2>1. /\ DOMAIN heap = 1 .. Lap(tail) + 1
        /\ \A c \in DOMAIN heap : ~ heap[c].freed <=> c > Lap(head)
    BY <1>1, RestBlocks
  <2> QED
    BY ONLY <1>2, <1>5, <1>6, <2>1
<1>10. "WRITE" \in State(b, i)
  BY <1>1, <1>8, <1>9, RestFacts
<1>11. heap[b].value[i] = order[Place(b, i)]
  BY ONLY <1>1, <1>9, <1>10, i \in Slots DEF ValuesInOrder
<1>12. Place(b, i) = SlotsBelow(m) + 1 /\ Place(b, i) \in 1 .. SlotsBelow(tail)
  BY <1>2, <1>6, <1>7, <1>8, PlaceFacts
<1>13. SlotsBelow(head) <= SlotsBelow(m) /\ SlotsBelow(head) \in Int /\ SlotsBelow(m) \in Int
  BY <1>2, <1>4, SlotsBelowFacts
<1>14. ValueAt(n) = heap[b].value[i]
  <2>1. Chain = [k \in 0 .. Lap(tail) - Lap(head) |-> Lap(head) + 1 + k]
    BY <1>1, ChainFacts
  <2>2. n \div LAP - Lap(head) \in 0 .. Lap(tail) - Lap(head)
    BY ONLY <1>2, <1>3, <1>5
  <2>3. Chain[n \div LAP - Lap(head)] = Lap(head) + 1 + (n \div LAP - Lap(head))
    BY ONLY <2>1, <2>2
  <2>4. Chain[n \div LAP - Lap(head)] = b
    BY ONLY <1>2, <1>3, <1>5, <1>6, <2>3
  <2> QED
    BY ONLY <1>3, <1>7, <2>4 DEF ValueAt
<1>15. dropped' = [k \in {k \in Pos(head) .. Pos(tail) - 1 : k % LAP # BLOCK_CAP} |-> ValueAt(k)]
  BY DEF Drop
<1>16. n \in DOMAIN dropped' /\ dropped'[n] = ValueAt(n)
  BY ONLY <1>15, n \in Pos(head) .. Pos(tail) - 1, n % LAP # BLOCK_CAP
<1>17. Len(order) = SlotsBelow(tail)
  BY ONLY <1>1 DEF ValuesInOrder
<1>18. SlotsBelow(m) + 1 \in SlotsBelow(head) + 1 .. Len(order)
  BY ONLY <1>12, <1>13, <1>17
<1>19. dropped'[n] = order[SlotsBelow(m) + 1]
  BY ONLY <1>11, <1>12, <1>14, <1>16
<1> QED
  BY ONLY <1>3, <1>16, <1>18, <1>19

\* What there is after the drop.
Dropped ==
    /\ \A b \in DOMAIN heap : heap[b].freed
    /\ {dropped[n] : n \in DOMAIN dropped} = {order[k] : k \in SlotsBelow(head) + 1 .. Len(order)}

\* The drop frees what is there and releases what is left.
LEMMA DropLeaves == DutyInv /\ ValueInv /\ Drop => Dropped'
<1>1. SUFFICES ASSUME DutyInv, ValueInv, Drop PROVE Dropped'
  OBVIOUS
<1>2. AtRest /\ BlockInv /\ TicketInv /\ ~ gone /\ ValuesInOrder
  BY <1>1 DEF AtRest, Drop, ValueInv, DutyInv, BlockInv
<1>3. /\ tail \in Nat /\ head \in Nat /\ Pos(tail) \in Nat /\ Pos(head) \in Nat
      /\ Lap(tail) \in Nat /\ Lap(head) \in Nat /\ heap \in Seq(Block) /\ Len(heap) \in Nat
  BY <1>2, Addresses, Own
<1> DEFINE left == {n \in Pos(head) .. Pos(tail) - 1 : n % LAP # BLOCK_CAP}
           walked == {Chain[k] : k \in DOMAIN Chain} \ {Null}
<1>4. /\ dropped' = [n \in left |-> ValueAt(n)]
      /\ heap' = [b \in DOMAIN heap |-> IF b \in walked THEN FreedBlock ELSE heap[b]]
      /\ head' = head /\ order' = order
  BY <1>1 DEF Drop, positions, history
<1>5. FreedBlock.freed
  BY ONLY TRUE DEF FreedBlock, NewBlock
<1>6. DOMAIN dropped' = left
  BY ONLY <1>4
<1>7. CASE heap = <<>>
  <2>1. tail = 0 /\ head = 0
    <3>1. TailBlock /\ HeadBlock
      BY <1>2 DEF TicketInv
    <3>2. tail_block = 0 /\ head_block \in Nat
      <4>1. tail_block = Len(heap) /\ head_block \in Nat
        BY <1>2 DEF TicketInv, Types, TailBlock
      <4> QED
        BY ONLY <1>7, <4>1
    <3>3. head_block = Null
      BY ONLY <1>7, <3>1, <3>2 DEF HeadBlock, Null
    <3> QED
      BY ONLY <3>1, <3>2, <3>3 DEF TailBlock, HeadBlock, Null
  <2>2. left = {}
    BY ONLY <1>3, <2>1
  <2>3. Len(order') = SlotsBelow(head')
    BY <1>2, <1>4, <2>1 DEF ValuesInOrder
  <2>4. SlotsBelow(head') \in Int
    BY ONLY <1>3, <1>4 DEF SlotsBelow
  <2>5. SlotsBelow(head') + 1 .. Len(order') = {}
    BY ONLY <2>3, <2>4
  <2>6. DOMAIN heap' = {}
    BY ONLY <1>4, <1>7
  <2> HIDE DEF left
  <2> QED
    BY ONLY <1>6, <2>2, <2>5, <2>6 DEF Dropped
<1>8. CASE heap # <<>>
  <2>1. \A b \in DOMAIN heap' : heap'[b].freed
    <3>1. /\ DOMAIN heap = 1 .. Lap(tail) + 1
          /\ \A c \in DOMAIN heap : ~ heap[c].freed <=> c > Lap(head)
      BY <1>1, <1>2, <1>8, RestBlocks
    <3>2. Chain = [k \in 0 .. Lap(tail) - Lap(head) |-> Lap(head) + 1 + k]
      BY <1>1, <1>2, <1>8, ChainFacts
    <3>3. ASSUME NEW b \in DOMAIN heap, b > Lap(head) PROVE b \in walked
      <4>1. PICK k \in 0 .. Lap(tail) - Lap(head) : k = b - Lap(head) - 1
        BY ONLY <1>3, <3>1, <3>3
      <4>2. Chain[k] = b /\ k \in DOMAIN Chain /\ b # Null
        BY ONLY <1>3, <3>1, <3>2, <4>1, b \in DOMAIN heap DEF Null
      <4> QED
        BY ONLY <4>2
    <3> HIDE DEF walked
    <3>4. \A b \in DOMAIN heap : b \in walked \/ heap[b].freed
      BY ONLY <3>1, <3>3
    <3>5. DOMAIN heap' = DOMAIN heap
      BY ONLY <1>4
    <3>6. ASSUME NEW b \in DOMAIN heap PROVE heap'[b].freed
      BY ONLY <1>4, <1>5, <3>4, <3>6
    <3> QED
      BY ONLY <3>5, <3>6
  <2>2. \A n \in left : /\ dropped'[n] = order[SlotsBelow(2 * n) + 1]
                        /\ SlotsBelow(2 * n) + 1 \in SlotsBelow(head) + 1 .. Len(order)
    BY <1>1, <1>8, DropReleases
  <2>3. ASSUME NEW k \in SlotsBelow(head) + 1 .. Len(order)
        PROVE  \E n \in left : dropped'[n] = order[k]
    <3>1. Len(order) = SlotsBelow(tail)
      BY ONLY <1>2 DEF ValuesInOrder
    <3>2. SlotsBelow(head) \in Nat /\ SlotsBelow(tail) \in Nat
      <4>1. 0 \in Slots /\ 1 \in Nat \ {0}
        BY Laps
      <4> QED
        BY <1>3, <4>1, PlaceFacts
    <3>3. k \in Nat /\ SlotsBelow(head) + 1 <= k /\ k <= SlotsBelow(tail)
      BY ONLY <3>1, <3>2, <2>3
    <3>4. PICK m \in Nat : /\ ~ Boundary(m) /\ m = 2 * Pos(m)
                           /\ Pos(head) <= Pos(m) /\ Pos(m) < Pos(tail)
                           /\ SlotsBelow(m) + 1 = k
      BY <1>3, <3>3, PlacesBetween
    <3>5. PICK n \in Pos(head) .. Pos(tail) - 1 : n = Pos(m)
      <4>1. Pos(m) \in Nat
        BY IndexFacts
      <4> QED
        BY ONLY <1>3, <3>4, <4>1
    <3>6. n \in left
      BY ONLY <3>4, <3>5 DEF Boundary, Slot0
    <3>7. dropped'[n] = order[SlotsBelow(2 * n) + 1]
      BY ONLY <2>2, <3>6
    <3> QED
      BY ONLY <3>4, <3>5, <3>6, <3>7
  <2> HIDE DEF left
  <2>4. {dropped'[n] : n \in left} = {order[k] : k \in SlotsBelow(head) + 1 .. Len(order)}
    BY ONLY <2>2, <2>3
  <2>5. SlotsBelow(head') = SlotsBelow(head)
    BY ONLY <1>4
  <2> QED
    BY ONLY <1>4, <1>6, <2>1, <2>4, <2>5 DEF Dropped
<1> QED
  BY <1>7, <1>8

-----------------------------------------------------------------------------
(* Nothing leaks *)

LeakInv == DutyInv /\ ValueInv /\ (gone => Dropped)

\* At rest there is a block for each lap from head's to tail's, and no other.
LEMMA RestCount ==
    ASSUME DutyInv, AtRest
    PROVE  Cardinality({b \in DOMAIN heap : Live(b)}) =
             IF heap = <<>> THEN 0 ELSE Lap(tail) - Lap(head) + 1
<1>1. CASE heap = <<>>
  <2>1. {b \in DOMAIN heap : Live(b)} = {}
    BY ONLY <1>1
  <2> QED
    BY <1>1, <2>1, FS_EmptySet
<1>2. CASE heap # <<>>
  <2>1. /\ Lap(head) \in Nat /\ Lap(tail) \in Nat /\ Lap(head) <= Lap(tail)
        /\ DOMAIN heap = 1 .. Lap(tail) + 1
        /\ \A b \in DOMAIN heap : ~ heap[b].freed <=> b > Lap(head)
    BY <1>2, RestBlocks
  <2>2. {b \in DOMAIN heap : Live(b)} = Lap(head) + 1 .. Lap(tail) + 1
    <3>1. \A b : b \in DOMAIN heap /\ Live(b) <=> b \in Lap(head) + 1 .. Lap(tail) + 1
      BY ONLY <2>1 DEF Live
    <3> QED
      BY ONLY <3>1
  <2>3. Cardinality(Lap(head) + 1 .. Lap(tail) + 1) =
          IF Lap(head) + 1 > Lap(tail) + 1 THEN 0 ELSE (Lap(tail) + 1) - (Lap(head) + 1) + 1
    BY <2>1, FS_Interval
  <2>4. Cardinality(Lap(head) + 1 .. Lap(tail) + 1) = Lap(tail) - Lap(head) + 1
    BY ONLY <2>1, <2>3
  <2> QED
    BY <1>2, <2>2, <2>4, Zenon
<1> QED
  BY <1>1, <1>2

\* Every step keeps the invariant.
LEMMA NextLeakInv == LeakInv /\ [Next]_vars => LeakInv'
<1>1. SUFFICES ASSUME LeakInv, [Next]_vars PROVE LeakInv'
  OBVIOUS
<1>2. DutyInv' /\ ValueInv'
  BY <1>1, NextDutyInv, NextValueInv DEF LeakInv
<1>3. CASE Drop
  BY <1>1, <1>2, <1>3, DropLeaves DEF LeakInv
<1>4. CASE UNCHANGED vars
  <2>1. UNCHANGED <<head, heap, gone, dropped, order>>
    BY <1>4 DEF vars, positions, others, history
  <2>2. Dropped => Dropped'
    <3>1. {dropped'[n] : n \in DOMAIN dropped'} = {dropped[n] : n \in DOMAIN dropped}
      BY ONLY <2>1
    <3>2. SlotsBelow(head') = SlotsBelow(head)
      BY ONLY <2>1
    <3>3. {order'[k] : k \in SlotsBelow(head') + 1 .. Len(order')} =
            {order[k] : k \in SlotsBelow(head) + 1 .. Len(order)}
      BY ONLY <2>1, <3>2
    <3> QED
      BY ONLY <2>1, <3>1, <3>3 DEF Dropped, SlotsBelow
  <2> QED
    BY ONLY <1>1, <1>2, <2>1, <2>2 DEF LeakInv
<1>5. ASSUME NEW t \in Threads, Acts(t) PROVE LeakInv'
  <2>1. TicketInv
    BY <1>1 DEF LeakInv, DutyInv, BlockInv
  <2>2. ~ gone'
    BY <1>5, <2>1, Frame DEF Acts
  <2> QED
    BY ONLY <1>2, <2>2 DEF LeakInv
<1> QED
  BY ONLY <1>1, <1>3, <1>4, <1>5 DEF Next, Acts

\* The invariant holds throughout.
LEMMA LeakInvariant == Spec => []LeakInv
<1>1. Init => LeakInv
  BY InitDutyInv, InitValueInv DEF Init, LeakInv
<1> QED
  BY <1>1, NextLeakInv, PTL DEF Spec

(* When no call is under way exactly the blocks from head's to tail's      *)
(* exist: every other has been freed by its last reader; the drop frees    *)
(* those and releases each value that is left and no other.                *)
THEOREM NothingIsLeaked == Spec => []NothingLeaks
<1>1. LeakInv => NothingLeaks
  BY RestCount DEF LeakInv, NothingLeaks, AtRest, Dropped
<1> QED
  BY <1>1, LeakInvariant, PTL

-----------------------------------------------------------------------------
(* The refinement: how a step changes what the contract sees *)

\* A call that is under way is in one of these places.
LEMMA OpFacts ==
    ASSUME NEW t \in Threads
    PROVE  /\ ToPush(t) => Op(t) = "push" /\ Held(t) = loc[t].value
           /\ Pushed(t) => Op(t) = "pushed" /\ Held(t) = None
           /\ ToPop(t) => Op(t) = "pop" /\ Held(t) = None
           /\ HasTicket(t) => Op(t) = "popped" /\ Held(t) = order[SlotsBelow(loc[t].index) + 1]
           /\ HasValue(t) => Op(t) = "popped" /\ Held(t) = loc[t].value
           /\ pc[t] \in Asking \cup {"idle"} => Op(t) = "idle" /\ Held(t) = None
BY DEF Op, Held, ToPush, Pushed, ToPop, HasTicket, HasValue, Asking

\* The same after a step.
LEMMA OpFactsAfter ==
    ASSUME NEW t \in Threads
    PROVE  /\ ToPush(t)' => Op(t)' = "push" /\ Held(t)' = loc'[t].value
           /\ Pushed(t)' => Op(t)' = "pushed" /\ Held(t)' = None
           /\ ToPop(t)' => Op(t)' = "pop" /\ Held(t)' = None
           /\ HasTicket(t)' => Op(t)' = "popped" /\ Held(t)' = order'[SlotsBelow(loc'[t].index) + 1]
           /\ HasValue(t)' => Op(t)' = "popped" /\ Held(t)' = loc'[t].value
           /\ pc'[t] \in Asking \cup {"idle"} => Op(t)' = "idle" /\ Held(t)' = None
BY DEF Op, Held, ToPush, Pushed, ToPop, HasTicket, HasValue, Asking, SlotsBelow

\* A step of t changes nothing that the contract sees of the others.
LEMMA OthersMapped ==
    ASSUME LeakInv, NEW t \in Threads, Acts(t),
           \A k \in 1 .. Len(order) : order'[k] = order[k]
    PROVE  /\ [u \in Threads |-> Op(u)]' = [[u \in Threads |-> Op(u)] EXCEPT ![t] = Op(t)']
           /\ [u \in Threads |-> Held(u)]' = [[u \in Threads |-> Held(u)] EXCEPT ![t] = Held(t)']
<1>1. BlockInv /\ TicketInv /\ ValuesInOrder /\ ~ gone
  BY Around DEF LeakInv, ValueInv
<1>2. \A u \in Threads : u # t => pc'[u] = pc[u] /\ loc'[u] = loc[u]
  BY <1>1, Around
<1>3. ASSUME NEW u \in Threads, u # t
      PROVE  Op(u)' = Op(u) /\ Held(u)' = Held(u)
  <2>1. pc'[u] = pc[u] /\ loc'[u] = loc[u]
    BY <1>2, <1>3
  <2>2. HasTicket(u) => order'[SlotsBelow(loc[u].index) + 1] = order[SlotsBelow(loc[u].index) + 1]
    <3>1. SUFFICES ASSUME HasTicket(u) PROVE SlotsBelow(loc[u].index) + 1 \in 1 .. Len(order)
      OBVIOUS
    <3>2. Reading(u)
      BY ONLY <3>1 DEF HasTicket, Reading, Moving
    <3>3. /\ loc[u].index \in Nat /\ tail \in Nat /\ head \in Nat
          /\ ~ Boundary(loc[u].index) /\ Pos(loc[u].index) < Pos(head)
          /\ Pos(head) <= Pos(tail)
          /\ loc[u].block = Lap(loc[u].index) + 1
      BY <1>1, <3>2, Own DEF Keeps, ReaderHolds, HeadBehindTail
    <3>4. Pos(loc[u].index) \in Nat /\ Pos(head) \in Nat /\ Pos(tail) \in Nat
      BY <3>3, IndexFacts
    <3>5. Pos(loc[u].index) < Pos(tail)
      BY ONLY <3>3, <3>4
    <3>6. /\ loc[u].block \in Nat \ {0} /\ Slot0(loc[u].index) \in Slots
      <4>1. Lap(loc[u].index) \in Nat
        BY <3>3, IndexFacts
      <4>2. Slot0(loc[u].index) \in Slots
        BY <1>1, <3>2, TicketFacts
      <4> QED
        BY ONLY <3>3, <4>1, <4>2
    <3>7. Passed(tail, loc[u].block, Slot0(loc[u].index))
      BY <3>3, <3>5, <3>6, PassedFacts
    <3>8. Place(loc[u].block, Slot0(loc[u].index)) \in 1 .. SlotsBelow(tail)
      BY <3>3, <3>6, <3>7, PlaceFacts
    <3>9. Place(loc[u].block, Slot0(loc[u].index)) = SlotsBelow(loc[u].index) + 1
      BY <3>3, <3>6, PlaceFacts
    <3>10. Len(order) = SlotsBelow(tail)
      BY ONLY <1>1 DEF ValuesInOrder
    <3> QED
      BY ONLY <3>8, <3>9, <3>10
  <2>3. Op(u)' = Op(u)
    BY ONLY <2>1 DEF Op, ToPush, Pushed, ToPop, HasTicket, HasValue
  <2>4. CASE HasTicket(u)
    <3>1. HasTicket(u)'
      BY ONLY <2>1, <2>4 DEF HasTicket
    <3> QED
      BY <2>1, <2>2, <2>3, <2>4, <3>1, OpFacts, OpFactsAfter
  <2>5. CASE ~ HasTicket(u)
    <3>1. Held(u)' = Held(u)
      BY ONLY <2>1, <2>5 DEF Held, ToPush, HasTicket, HasValue
    <3> QED
      BY ONLY <2>3, <3>1
  <2> QED
    BY ONLY <2>4, <2>5
<1> QED
  BY <1>3

\* No call goes on for the contract.
LEMMA Stutters ==
    ASSUME LeakInv, NEW t \in Threads, Acts(t), order' = order, dropped' = dropped,
           SlotsBelow(head') = SlotsBelow(head), Op(t)' = Op(t), Held(t)' = Held(t)
    PROVE  UNCHANGED Contract!vars
<1>1. gone' = gone
  BY Frame DEF LeakInv, DutyInv, BlockInv, Acts
<1>2. /\ [u \in Threads |-> Op(u)]' = [[u \in Threads |-> Op(u)] EXCEPT ![t] = Op(t)']
      /\ [u \in Threads |-> Held(u)]' = [[u \in Threads |-> Held(u)] EXCEPT ![t] = Held(t)']
  BY OthersMapped
<1>3. [u \in Threads |-> Op(u)]' = [u \in Threads |-> Op(u)]
  BY ONLY <1>2, Op(t)' = Op(t)
<1>4. [u \in Threads |-> Held(u)]' = [u \in Threads |-> Held(u)]
  BY ONLY <1>2, Held(t)' = Held(t)
<1>5. Queue' = Queue
  BY ONLY <1>1, order' = order, SlotsBelow(head') = SlotsBelow(head) DEF Queue, SlotsBelow
<1>6. Released' = Released
  BY ONLY dropped' = dropped DEF Released
<1> QED
  BY ONLY <1>3, <1>4, <1>5, <1>6 DEF Contract!vars

\* The call of t goes on.
LEMMA Turns ==
    ASSUME LeakInv, NEW t \in Threads, Acts(t),
           \A k \in 1 .. Len(order) : order'[k] = order[k],
           NEW from, NEW to, NEW value, Op(t) = from, Op(t)' = to, Held(t)' = value
    PROVE  Contract!Turn(t, from, to, value)
<1>1. /\ [u \in Threads |-> Op(u)]' = [[u \in Threads |-> Op(u)] EXCEPT ![t] = Op(t)']
      /\ [u \in Threads |-> Held(u)]' = [[u \in Threads |-> Held(u)] EXCEPT ![t] = Held(t)']
  BY OthersMapped
<1>2. [u \in Threads |-> Op(u)][t] = from
  OBVIOUS
<1> QED
  BY ONLY <1>1, <1>2, Op(t)' = to, Held(t)' = value DEF Contract!Turn

\* A call begins or ends without the queue.
LEMMA QueueStays ==
    ASSUME LeakInv, NEW t \in Threads, Acts(t), order' = order, dropped' = dropped,
           SlotsBelow(head') = SlotsBelow(head)
    PROVE  Queue' = Queue /\ Released' = Released
<1>1. gone' = gone
  BY Frame DEF LeakInv, DutyInv, BlockInv, Acts
<1>2. Queue' = Queue
  BY ONLY <1>1, order' = order, SlotsBelow(head') = SlotsBelow(head) DEF Queue, SlotsBelow
<1>3. Released' = Released
  BY ONLY dropped' = dropped DEF Released
<1> QED
  BY ONLY <1>2, <1>3

Refines == [Contract!Next]_(Contract!vars)

\* The looks and moves between a call and its return.
LEMMA LooksRefine ==
    ASSUME LeakInv, NEW t \in Threads,
           \/ CallIsEmpty(t) \/ CallLen(t) \/ FailSpuriously(t)
           \/ LoadTail(t) \/ LoadTailBlock(t) \/ InstallFirst(t) \/ PublishFirst(t)
           \/ LoseTailTicket(t) \/ InstallNext(t) \/ SkipBoundary(t) \/ LinkNext(t) \/ WriteValue(t)
           \/ LoadHead(t) \/ LoadHeadBlock(t)
           \/ LoseHeadTicket(t) \/ WaitNext(t) \/ PeekNext(t) \/ MoveHeadBlock(t)
           \/ EmptyHead(t) \/ EmptyTail(t) \/ LenTail(t) \/ LenHead(t) \/ LenCheck(t)
    PROVE  Refines
<1>1. Acts(t)
  BY DEF Acts, Step, Call
<1>2. /\ pc \in [Threads -> {"idle"} \cup Pushing \cup Popping \cup Asking]
      /\ loc \in [Threads -> Locals]
  BY <1>1, Around DEF LeakInv, DutyInv
<1>3. order' = order /\ dropped' = dropped /\ head' = head
  <2>1. CASE CallIsEmpty(t) \/ CallLen(t) \/ FailSpuriously(t)
    BY ONLY <2>1 DEF CallIsEmpty, CallLen, FailSpuriously, positions, others, history
  <2>2. CASE LoadTail(t) \/ LoadTailBlock(t) \/ InstallFirst(t) \/ PublishFirst(t)
    BY ONLY <2>2 DEF LoadTail, LoadTailBlock, InstallFirst, PublishFirst, positions, others, history
  <2>3. CASE LoseTailTicket(t) \/ InstallNext(t) \/ SkipBoundary(t) \/ LinkNext(t) \/ WriteValue(t)
    BY ONLY <2>3 DEF LoseTailTicket, InstallNext, SkipBoundary, LinkNext, WriteValue, positions,
       others, history
  <2>4. CASE LoadHead(t) \/ LoadHeadBlock(t)
    BY ONLY <2>4 DEF LoadHead, LoadHeadBlock, positions, others, history
  <2>5. CASE LoseHeadTicket(t) \/ WaitNext(t) \/ PeekNext(t) \/ MoveHeadBlock(t)
    BY ONLY <2>5 DEF LoseHeadTicket, WaitNext, PeekNext, MoveHeadBlock, positions, others, history
  <2>6. CASE EmptyHead(t) \/ EmptyTail(t) \/ LenTail(t) \/ LenHead(t) \/ LenCheck(t)
    BY ONLY <2>6 DEF EmptyHead, EmptyTail, LenTail, LenHead, LenCheck, positions, others, history
  <2> QED
    BY <2>1, <2>2, <2>3, <2>4, <2>5, <2>6
<1>4. \/ ToPush(t) /\ ToPush(t)' /\ loc'[t].value = loc[t].value
      \/ Pushed(t) /\ Pushed(t)'
      \/ ToPop(t) /\ ToPop(t)'
      \/ HasTicket(t) /\ HasTicket(t)' /\ loc'[t].index = loc[t].index
      \/ pc[t] \in Asking \cup {"idle"} /\ pc'[t] \in Asking \cup {"idle"}
  <2>1. CASE CallIsEmpty(t) \/ CallLen(t) \/ FailSpuriously(t)
    BY ONLY <1>2, <2>1 DEF CallIsEmpty, CallLen, FailSpuriously, Begin, Goto, Asking, ToPush, ToPop
  <2>2. CASE LoadTail(t) \/ LoadTailBlock(t) \/ LoseTailTicket(t)
    BY ONLY <1>2, <2>2 DEF LoadTail, LoadTailBlock, LoseTailTicket, Goto, ToPush, Locals
  <2>3. CASE InstallFirst(t) \/ PublishFirst(t)
    BY ONLY <1>2, <2>3 DEF InstallFirst, PublishFirst, Goto, ToPush, Locals
  <2>4. CASE InstallNext(t) \/ SkipBoundary(t) \/ LinkNext(t) \/ WriteValue(t)
    BY ONLY <1>2, <2>4 DEF InstallNext, SkipBoundary, LinkNext, WriteValue, Goto, Pushed
  <2>5. CASE LoadHead(t) \/ LoadHeadBlock(t) \/ LoseHeadTicket(t)
    BY ONLY <1>2, <2>5 DEF LoadHead, LoadHeadBlock, LoseHeadTicket, Again, Goto, ToPop
  <2>6. CASE WaitNext(t) \/ PeekNext(t) \/ MoveHeadBlock(t)
    BY ONLY <1>2, <2>6 DEF WaitNext, PeekNext, MoveHeadBlock, Goto, HasTicket, Locals
  <2>7. CASE EmptyHead(t) \/ EmptyTail(t) \/ LenTail(t) \/ LenHead(t) \/ LenCheck(t)
    BY ONLY <1>2, <2>7 DEF EmptyHead, EmptyTail, LenTail, LenHead, LenCheck, Return, Goto, Asking
  <2> QED
    BY <2>1, <2>2, <2>3, <2>4, <2>5, <2>6, <2>7
<1>5. Op(t)' = Op(t) /\ Held(t)' = Held(t)
  BY <1>3, <1>4, OpFacts, OpFactsAfter
<1>6. SlotsBelow(head') = SlotsBelow(head)
  BY ONLY <1>3
<1>7. UNCHANGED Contract!vars
  BY <1>1, <1>3, <1>5, <1>6, Stutters
<1> QED
  BY ONLY <1>7 DEF Refines

\* A step into the contract is one of its steps.
LEMMA CallsRefine ==
    ASSUME LeakInv, NEW t \in Threads, CallPush(t) \/ CallPop(t)
    PROVE  Refines
<1>1. Acts(t)
  BY DEF Acts, Call
<1>2. /\ pc \in [Threads -> {"idle"} \cup Pushing \cup Popping \cup Asking]
      /\ loc \in [Threads -> Locals] /\ Carrying'
      /\ script[t] \in Seq(Calls)
  <2>1. TicketInv /\ Carrying
    BY DEF LeakInv, ValueInv, BlockInv
  <2>2. [Next]_vars
    BY <1>1 DEF Acts, Next
  <2> QED
    BY <2>1, <2>2, NextCarrying DEF TicketInv, Types
<1>3. order' = order /\ dropped' = dropped /\ head' = head /\ pc[t] = "idle"
  BY ONLY CallPush(t) \/ CallPop(t) DEF CallPush, CallPop, Begin, positions, history
<1>4. SlotsBelow(head') = SlotsBelow(head)
  BY ONLY <1>3
<1>5. Queue' = Queue /\ Released' = Released /\ Op(t) = "idle"
  BY <1>1, <1>3, <1>4, QueueStays, OpFacts
<1>6. CASE CallPush(t)
  <2>1. pc'[t] = "push_index"
    BY ONLY <1>2, <1>6 DEF CallPush, Begin, Goto
  <2>2. Op(t)' = "push" /\ Held(t)' = loc'[t].value
    BY <2>1, OpFactsAfter DEF ToPush
  <2>3. loc'[t].value \in Values
    BY ONLY <1>2, <2>1, t \in Threads DEF Carrying, Pushing
  <2>4. Contract!Turn(t, "idle", "push", loc'[t].value)
    BY <1>1, <1>3, <1>5, <2>2, Turns
  <2>5. Contract!CallPush(t)
    BY ONLY <1>5, <2>3, <2>4 DEF Contract!CallPush
  <2> QED
    BY ONLY <2>5, t \in Threads DEF Refines, Contract!Next
<1>7. CASE CallPop(t)
  <2>1. pc'[t] = "pop_index"
    BY ONLY <1>2, <1>7 DEF CallPop, Begin, Goto
  <2>2. Op(t)' = "pop" /\ Held(t)' = None
    BY <2>1, OpFactsAfter DEF ToPop
  <2>3. Contract!Turn(t, "idle", "pop", None)
    BY <1>1, <1>3, <1>5, <2>2, Turns
  <2>4. Contract!CallPop(t)
    BY ONLY <1>5, <2>3 DEF Contract!CallPop
  <2> QED
    BY ONLY <2>4, t \in Threads DEF Refines, Contract!Next
<1> QED
  BY <1>6, <1>7

\* The places of head and tail in the order of the values.
LEMMA QueueEnds ==
    ASSUME LeakInv, ~ gone
    PROVE  /\ SlotsBelow(head) \in Nat /\ SlotsBelow(tail) \in Nat
           /\ SlotsBelow(head) <= SlotsBelow(tail) /\ Len(order) = SlotsBelow(tail)
           /\ Queue = SubSeq(order, SlotsBelow(head) + 1, Len(order)) /\ order \in Seq(Values)
           /\ \A k \in SlotsBelow(head) + 1 .. Len(order) : order[k] \in Values
<1>1. BlockInv /\ TicketInv /\ ValuesInOrder /\ order \in Seq(Values)
  BY DEF LeakInv, ValueInv, Carrying, BlockInv
<1>2. tail \in Nat /\ head \in Nat /\ Pos(head) <= Pos(tail)
  BY <1>1, Addresses DEF TicketInv, HeadBehindTail
<1>3. SlotsBelow(head) \in Nat /\ SlotsBelow(tail) \in Nat
  <2>1. 0 \in Slots /\ 1 \in Nat \ {0}
    BY Laps
  <2> QED
    BY <1>2, <2>1, PlaceFacts
<1>4. SlotsBelow(head) <= SlotsBelow(tail)
  BY <1>2, SlotsBelowFacts
<1>5. Len(order) = SlotsBelow(tail)
  BY ONLY <1>1 DEF ValuesInOrder
<1>6. Queue = SubSeq(order, SlotsBelow(head) + 1, Len(order))
  BY ONLY ~ gone DEF Queue
<1> QED
  BY ONLY <1>1, <1>3, <1>4, <1>5, <1>6

\* What is appended to a sequence is appended to what is left of it.
LEMMA AppendToRest ==
    ASSUME NEW S, NEW q \in Seq(S), NEW v \in S, NEW s \in Nat, s <= Len(q)
    PROVE  SubSeq(Append(q, v), s + 1, Len(q) + 1) = Append(SubSeq(q, s + 1, Len(q)), v)
<1> DEFINE n == Len(q)
           p == Append(q, v)
           r == SubSeq(q, s + 1, n)
<1>1. n \in Nat /\ p[n + 1] = v /\ \A i \in 1 .. n : p[i] = q[i]
  OBVIOUS
<1>2. p \in Seq(S) /\ s + 1 \in 1 .. Len(p) /\ n + 1 \in s + 1 .. Len(p) /\ (n + 1) - 1 = n
  OBVIOUS
<1>3. r \in Seq(S)
  OBVIOUS
<1> HIDE DEF p
<1>4. SubSeq(p, s + 1, (n + 1) - 1) = r
  BY <1>1
<1> HIDE DEF n, r
<1>5. SubSeq(p, s + 1, n + 1) = SubSeq(p, s + 1, (n + 1) - 1) \o <<p[n + 1]>>
  BY <1>2, SubSeqRecursiveSecond
<1>6. SubSeq(p, s + 1, n + 1) = r \o <<v>>
  BY ONLY <1>1, <1>4, <1>5
<1>7. r \o <<v>> = Append(r, v)
  BY <1>3, AppendIsConcat
<1> QED
  BY ONLY <1>6, <1>7 DEF n, p, r

\* The first of what is left, if there is something.
LEMMA HeadOfRest ==
    ASSUME NEW S, NEW q \in Seq(S), NEW s \in Nat, s + 1 <= Len(q)
    PROVE  /\ SubSeq(q, s + 1, Len(q)) # <<>>
           /\ Head(SubSeq(q, s + 1, Len(q))) = q[s + 1]
<1> DEFINE r == SubSeq(q, s + 1, Len(q))
<1>1. s + 1 \in 1 .. Len(q) /\ Len(q) \in s + 1 .. Len(q)
  OBVIOUS
<1>2. Head(r) = q[s + 1]
  BY <1>1, HeadTailOfSubSeq
<1>3. Len(r) # 0
  BY <1>1
<1> HIDE DEF r
<1>4. r # <<>>
  BY ONLY <1>3
<1> QED
  BY <1>2, <1>4 DEF r

\* A push takes effect with its ticket.
LEMMA TakeTailTicketRefines ==
    ASSUME LeakInv, NEW t \in Threads, TakeTailTicket(t)
    PROVE  Refines
<1>1. Acts(t)
  BY DEF Acts, Step
<1>2. /\ TicketInv /\ Carrying /\ ~ gone /\ gone' = gone
      /\ pc \in [Threads -> {"idle"} \cup Pushing \cup Popping \cup Asking]
  BY <1>1, Around, Frame DEF LeakInv, ValueInv, DutyInv, Acts
<1>3. /\ pc[t] = "push_cas" /\ order' = Append(order, loc[t].value)
      /\ pc'[t] \in {"push_next", "push_write"} /\ head' = head /\ dropped' = dropped
  BY ONLY <1>2, TakeTailTicket(t) DEF TakeTailTicket, Goto
<1>4. loc[t].value \in Values /\ order \in Seq(Values)
  BY ONLY <1>2, <1>3, t \in Threads DEF Carrying, Pushing
<1>5. \A k \in 1 .. Len(order) : order'[k] = order[k]
  BY ONLY <1>3, <1>4
<1>6. Op(t) = "push" /\ Held(t) = loc[t].value
  BY <1>3, OpFacts DEF ToPush
<1>7. Op(t)' = "pushed" /\ Held(t)' = None
  BY <1>3, OpFactsAfter DEF Pushed
<1>8. Contract!Turn(t, "push", "pushed", None)
  BY <1>1, <1>5, <1>6, <1>7, Turns
<1> DEFINE s == SlotsBelow(head)
<1>9. s \in Nat /\ s <= Len(order) /\ Len(order) \in Nat /\ Queue = SubSeq(order, s + 1, Len(order))
  BY <1>2, <1>4, QueueEnds
<1>10. Queue' = SubSeq(order', s + 1, Len(order'))
  BY ONLY <1>2, <1>3 DEF Queue, SlotsBelow
<1> HIDE DEF s
<1>11. SubSeq(Append(order, loc[t].value), s + 1, Len(order) + 1)
         = Append(SubSeq(order, s + 1, Len(order)), loc[t].value)
  BY <1>4, <1>9, AppendToRest
<1>12. Queue' = Append(Queue, loc[t].value)
  <2>1. Len(order') = Len(order) + 1
    BY ONLY <1>3, <1>4
  <2> QED
    BY ONLY <1>3, <1>9, <1>10, <1>11, <2>1
<1>13. Released' = Released
  BY ONLY <1>3 DEF Released
<1>14. [u \in Threads |-> Held(u)][t] = loc[t].value
  BY ONLY <1>6, t \in Threads
<1>15. Contract!Push(t)
  BY ONLY <1>8, <1>12, <1>13, <1>14 DEF Contract!Push
<1> QED
  BY ONLY <1>15, t \in Threads DEF Refines, Contract!Next

\* A pop takes effect with its ticket, whether the value is written or not.
LEMMA TakeHeadTicketRefines ==
    ASSUME LeakInv, NEW t \in Threads, TakeHeadTicket(t), LeakInv'
    PROVE  Refines
<1>1. Acts(t)
  BY DEF Acts, Step
<1>2. /\ TicketInv /\ ~ gone /\ gone' = gone /\ head \in Nat /\ head' \in Nat /\ Keeps(t)
      /\ pc \in [Threads -> {"idle"} \cup Pushing \cup Popping \cup Asking]
      /\ loc[t].index \in Nat
  BY <1>1, Around, Addresses, Frame, Own DEF LeakInv, ValueInv, DutyInv, BlockInv, TicketInv, Types, Acts
<1>3. /\ pc[t] = "pop_cas" /\ head = loc[t].index /\ head' = loc[t].other /\ loc' = loc
      /\ pc'[t] \in {"pop_wait", "pop_value"} /\ order' = order /\ dropped' = dropped
  BY ONLY <1>2, TakeHeadTicket(t) DEF TakeHeadTicket, Goto, others, history
<1>4. Pos(head') = Pos(head) + 1 /\ ~ Boundary(head)
  <2>1. ~ Boundary(head) /\ (head' = head + 2 \/ head' = WithNext(head + 2))
    BY ONLY <1>2, <1>3 DEF Keeps, PopSaw
  <2>2. head + 2 \in Nat /\ Pos(head + 2) = Pos(head) + 1
    BY <1>2, StepFacts
  <2>3. Pos(WithNext(head + 2)) = Pos(head + 2)
    BY <2>2, BitFacts
  <2> QED
    BY ONLY <2>1, <2>2, <2>3
<1>5. SlotsBelow(head') = SlotsBelow(head) + 1
  <2>1. Lap(head') = Lap(head) /\ Lap(head) \in Nat /\ Pos(head) \in Nat
    BY <1>2, <1>4, Successor
  <2> QED
    BY ONLY <1>4, <2>1 DEF SlotsBelow
<1> DEFINE s == SlotsBelow(head)
<1>6. /\ s \in Nat /\ order \in Seq(Values) /\ Queue = SubSeq(order, s + 1, Len(order))
      /\ s + 1 <= Len(order)
  <2>1. s \in Nat /\ order \in Seq(Values) /\ Queue = SubSeq(order, s + 1, Len(order))
    BY <1>2, QueueEnds
  <2>2. SlotsBelow(head') <= Len(order')
    <3>1. /\ ValuesInOrder' /\ TicketInv'
      BY <1>2 DEF LeakInv, ValueInv, BlockInv
    <3>2. tail' \in Nat /\ Pos(head') <= Pos(tail')
      BY <3>1 DEF TicketInv, Types, HeadBehindTail, Pos
    <3>3. SlotsBelow(head') <= SlotsBelow(tail')
      BY <1>2, <3>2, SlotsBelowFacts
    <3>4. Len(order') = SlotsBelow(tail')
      BY ONLY <3>1 DEF ValuesInOrder, SlotsBelow
    <3> QED
      BY ONLY <3>3, <3>4
  <2> QED
    BY ONLY <1>3, <1>5, <2>1, <2>2
<1>7. Queue' = SubSeq(order, s + 2, Len(order))
  <2>1. Queue' = SubSeq(order', SlotsBelow(head') + 1, Len(order'))
    BY ONLY <1>2 DEF Queue, SlotsBelow
  <2>2. SlotsBelow(head') + 1 = s + 2
    BY ONLY <1>5, <1>6
  <2> QED
    BY ONLY <1>3, <2>1, <2>2
<1>8. Op(t) = "pop"
  BY <1>3, OpFacts DEF ToPop
<1>9. Op(t)' = "popped" /\ Held(t)' = order[s + 1]
  <2>1. HasTicket(t)'
    BY ONLY <1>3 DEF HasTicket
  <2>2. Op(t)' = "popped" /\ Held(t)' = order'[SlotsBelow(loc'[t].index) + 1]
    BY <2>1, OpFactsAfter
  <2> QED
    BY ONLY <1>3, <2>2
<1> HIDE DEF s
<1>10. Queue # <<>> /\ Head(Queue) = order[s + 1] /\ Tail(Queue) = Queue'
  <2>1. Len(order) \in Nat
    BY ONLY <1>6
  <2>2. /\ SubSeq(order, s + 1, Len(order)) # <<>>
        /\ Head(SubSeq(order, s + 1, Len(order))) = order[s + 1]
    BY <1>6, HeadOfRest
  <2>3. Tail(SubSeq(order, s + 1, Len(order))) = SubSeq(order, s + 2, Len(order))
    BY ONLY <1>6, <2>1
  <2> QED
    BY ONLY <1>6, <1>7, <2>2, <2>3
<1>11. \A k \in 1 .. Len(order) : order'[k] = order[k]
  BY ONLY <1>3
<1>12. Contract!Turn(t, "pop", "popped", order[s + 1])
  BY <1>1, <1>8, <1>9, <1>11, Turns
<1>13. Released' = Released
  BY ONLY <1>3 DEF Released
<1>14. Contract!Pop(t)
  BY ONLY <1>10, <1>12, <1>13 DEF Contract!Pop
<1> QED
  BY ONLY <1>14, t \in Threads DEF Refines, Contract!Next

\* A pop that finds nothing: the queue is empty when it looks at the tail.
LEMMA LookAtTailRefines ==
    ASSUME LeakInv, NEW t \in Threads, LookAtTail(t)
    PROVE  Refines
<1>1. Acts(t)
  BY DEF Acts, Step
<1>2. /\ TicketInv /\ ~ gone /\ Keeps(t) /\ loc[t].index \in Nat
      /\ pc \in [Threads -> {"idle"} \cup Pushing \cup Popping \cup Asking]
  BY <1>1, Around, Own DEF LeakInv, DutyInv
<1>3. /\ pc[t] = "pop_tail" /\ order' = order /\ dropped' = dropped /\ head' = head
  BY ONLY LookAtTail(t) DEF LookAtTail, positions, others, history
<1>4. Op(t) = "pop" /\ Held(t) = None
  BY <1>3, OpFacts DEF ToPop
<1>5. SlotsBelow(head') = SlotsBelow(head)
  BY ONLY <1>3
<1>6. CASE pc'[t] \in {"pop_index", "pop_cas"}
  <2>1. Op(t)' = Op(t) /\ Held(t)' = Held(t)
    BY <1>4, <1>6, OpFactsAfter DEF ToPop
  <2>2. UNCHANGED Contract!vars
    BY <1>1, <1>3, <1>5, <2>1, Stutters
  <2> QED
    BY ONLY <2>2 DEF Refines
<1>7. CASE pc'[t] = "idle" /\ Pos(loc[t].index) = Pos(tail)
  <2>1. Length = 0
    BY <1>2, <1>3, <1>7, EmptyMoment DEF Keeps, PopSaw
  <2>2. Queue = <<>>
    <3>1. /\ SlotsBelow(head) \in Nat /\ SlotsBelow(tail) \in Nat /\ Len(order) = SlotsBelow(tail)
          /\ Queue = SubSeq(order, SlotsBelow(head) + 1, Len(order))
      BY <1>2, QueueEnds
    <3>2. Len(order) < SlotsBelow(head) + 1 /\ SlotsBelow(head) + 1 \in Int /\ Len(order) \in Int
      BY ONLY <2>1, <3>1 DEF Length
    <3> QED
      BY ONLY <3>1, <3>2, SubSeqEmpty
  <2>3. Op(t)' = "idle" /\ Held(t)' = None
    BY <1>7, OpFactsAfter
  <2>4. Contract!Turn(t, "pop", "idle", None)
    BY <1>1, <1>3, <1>4, <2>3, Turns
  <2>5. Queue' = Queue /\ Released' = Released
    BY <1>1, <1>3, <1>5, QueueStays
  <2>6. Contract!PopNone(t)
    BY ONLY <2>2, <2>4, <2>5 DEF Contract!PopNone
  <2> QED
    BY ONLY <2>6, t \in Threads DEF Refines, Contract!Next
<1>8. pc'[t] \in {"pop_index", "pop_cas"} \/ (pc'[t] = "idle" /\ Pos(loc[t].index) = Pos(tail))
  BY ONLY <1>2, LookAtTail(t) DEF LookAtTail, Return, Again, Goto
<1> QED
  BY <1>6, <1>7, <1>8

\* Head moves over the boundary: the queue is the same.
LEMMA MoveHeadRefines ==
    ASSUME LeakInv, NEW t \in Threads, MoveHead(t)
    PROVE  Refines
<1>1. Acts(t)
  BY DEF Acts, Step
<1>2. /\ TicketInv /\ ~ gone /\ Keeps(t) /\ loc[t].other \in Nat /\ head \in Nat
      /\ pc \in [Threads -> {"idle"} \cup Pushing \cup Popping \cup Asking]
  BY <1>1, Around, Own DEF LeakInv, DutyInv
<1>3. /\ pc[t] = "pop_head" /\ pc'[t] = "pop_value" /\ order' = order /\ dropped' = dropped
      /\ head' = loc[t].other /\ loc' = loc
  BY ONLY <1>2, MoveHead(t) DEF MoveHead, Goto, others, history
<1>4. Pos(head') = Pos(head) + 1 /\ Boundary(head) /\ head' \in Nat
  BY ONLY <1>2, <1>3 DEF Keeps, ReaderHolds, Moving
<1>5. SlotsBelow(head') = SlotsBelow(head)
  <2>1. Lap(head') = Lap(head) + 1 /\ Lap(head) \in Nat /\ Pos(head) \in Nat
    BY <1>2, <1>4, Successor
  <2> QED
    BY ONLY <1>4, <2>1 DEF SlotsBelow
<1>6. Op(t)' = Op(t) /\ Held(t)' = Held(t)
  <2>1. HasTicket(t) /\ HasTicket(t)'
    BY ONLY <1>3 DEF HasTicket
  <2> QED
    BY <1>3, <2>1, OpFacts, OpFactsAfter
<1>7. UNCHANGED Contract!vars
  BY <1>1, <1>3, <1>5, <1>6, Stutters
<1> QED
  BY ONLY <1>7 DEF Refines

\* The value that is read is that of the ticket.
LEMMA ReadValueRefines ==
    ASSUME LeakInv, NEW t \in Threads, ReadValue(t)
    PROVE  Refines
<1>1. Acts(t)
  BY DEF Acts, Step
<1>2. /\ BlockInv /\ TicketInv /\ ~ gone /\ Keeps(t) /\ ValuesInOrder /\ Holding(t)
      /\ pc \in [Threads -> {"idle"} \cup Pushing \cup Popping \cup Asking]
      /\ loc \in [Threads -> Locals] /\ loc[t].index \in Nat
  BY <1>1, Around, Own DEF LeakInv, DutyInv, ValueInv
<1>3. /\ pc[t] = "pop_value" /\ pc'[t] \in {"destroy", "pop_read"} /\ order' = order
      /\ dropped' = dropped /\ head' = head /\ WaitWrite(t)
      /\ loc'[t].value = heap[loc[t].block].value[Slot0(loc[t].index)]
  BY ONLY <1>2, ReadValue(t) DEF ReadValue, Goto, positions, others, history, Locals
<1>4. Reading(t) /\ HasTicket(t) /\ HasValue(t)'
  BY ONLY <1>3 DEF Reading, HasTicket, HasValue
<1>5. PICK c \in DOMAIN heap : c = loc[t].block
  BY <1>2, <1>4, TicketFacts
<1>6. PICK k \in Slots : k = Slot0(loc[t].index)
  BY <1>2, <1>4, TicketFacts
<1>7. ~ heap[c].freed /\ "WRITE" \in State(c, k)
  BY ONLY <1>2, <1>3, <1>4, <1>5, <1>6 DEF Holding, Live, WaitWrite, Bits, State
<1>8. loc'[t].value = order[Place(c, k)]
  BY ONLY <1>2, <1>3, <1>5, <1>6, <1>7 DEF ValuesInOrder
<1>9. Place(c, k) = SlotsBelow(loc[t].index) + 1
  <2>1. c = Lap(loc[t].index) + 1
    BY ONLY <1>2, <1>4, <1>5 DEF Keeps, ReaderHolds
  <2>2. Lap(loc[t].index) \in Nat
    BY <1>2, IndexFacts
  <2>3. c \in Nat \ {0}
    BY ONLY <2>1, <2>2
  <2> QED
    BY <1>2, <1>6, <2>1, <2>3, PlaceFacts
<1>10. Op(t)' = Op(t) /\ Held(t)' = Held(t)
  BY <1>4, <1>8, <1>9, OpFacts, OpFactsAfter
<1>11. SlotsBelow(head') = SlotsBelow(head)
  BY ONLY <1>3
<1>12. UNCHANGED Contract!vars
  BY <1>1, <1>3, <1>10, <1>11, Stutters
<1> QED
  BY ONLY <1>12 DEF Refines

\* The steps that may return from a call that has taken effect.
LEMMA ReturnsRefine ==
    ASSUME LeakInv, NEW t \in Threads,
           MarkWritten(t) \/ MarkRead(t) \/ Destroy(t) \/ MarkDestroy(t)
    PROVE  Refines
<1>1. Acts(t)
  BY DEF Acts, Step
<1>2. /\ pc \in [Threads -> {"idle"} \cup Pushing \cup Popping \cup Asking]
      /\ loc \in [Threads -> Locals]
  BY <1>1, Around DEF LeakInv, DutyInv
<1>3. order' = order /\ dropped' = dropped /\ head' = head
  BY ONLY MarkWritten(t) \/ MarkRead(t) \/ Destroy(t) \/ MarkDestroy(t)
     DEF MarkWritten, MarkRead, Destroy, MarkDestroy, positions, others, history
<1>4. SlotsBelow(head') = SlotsBelow(head)
  BY ONLY <1>3
<1>5. \/ (Pushed(t) \/ HasValue(t)) /\ pc'[t] = "idle"
      \/ HasValue(t) /\ HasValue(t)' /\ loc'[t].value = loc[t].value
  <2>1. CASE MarkWritten(t)
    BY ONLY <1>2, <2>1 DEF MarkWritten, Return, Goto, Pushed
  <2>2. CASE MarkRead(t)
    BY ONLY <1>2, <2>2 DEF MarkRead, Return, Goto, HasValue, Locals
  <2>3. CASE Destroy(t)
    BY ONLY <1>2, <2>3 DEF Destroy, Return, Goto, HasValue, Locals
  <2>4. CASE MarkDestroy(t)
    BY ONLY <1>2, <2>4 DEF MarkDestroy, Return, Goto, HasValue, Locals
  <2> QED
    BY <2>1, <2>2, <2>3, <2>4
<1>6. CASE HasValue(t) /\ HasValue(t)' /\ loc'[t].value = loc[t].value
  <2>1. Op(t)' = Op(t) /\ Held(t)' = Held(t)
    BY <1>6, OpFacts, OpFactsAfter
  <2>2. UNCHANGED Contract!vars
    BY <1>1, <1>3, <1>4, <2>1, Stutters
  <2> QED
    BY ONLY <2>2 DEF Refines
<1>7. CASE (Pushed(t) \/ HasValue(t)) /\ pc'[t] = "idle"
  <2>1. Op(t) \in {"pushed", "popped"} /\ Op(t)' = "idle" /\ Held(t)' = None
    BY <1>7, OpFacts, OpFactsAfter
  <2>2. Contract!Turn(t, "pushed", "idle", None) \/ Contract!Turn(t, "popped", "idle", None)
    BY <1>1, <1>3, <2>1, Turns
  <2>3. Queue' = Queue /\ Released' = Released
    BY <1>1, <1>3, <1>4, QueueStays
  <2>4. Contract!Return(t)
    BY ONLY <2>2, <2>3 DEF Contract!Return
  <2> QED
    BY ONLY <2>4, t \in Threads DEF Refines, Contract!Next
<1> QED
  BY <1>5, <1>6, <1>7

\* The drop releases what the queue holds.
LEMMA DropRefines ==
    ASSUME LeakInv, Drop
    PROVE  Refines
<1>1. ~ gone /\ gone' /\ (\A t \in Threads : pc[t] = "idle") /\ pc' = pc /\ loc' = loc
      /\ order' = order /\ head' = head
  BY DEF Drop, positions, history
<1>2. Dropped'
  BY DropLeaves DEF LeakInv
<1>3. /\ SlotsBelow(head) \in Nat /\ Len(order) \in Nat
      /\ Queue = SubSeq(order, SlotsBelow(head) + 1, Len(order))
      /\ \A k \in SlotsBelow(head) + 1 .. Len(order) : order[k] \in Values
  BY <1>1, QueueEnds
<1> DEFINE s == SlotsBelow(head)
           n == Len(order)
<1>4. /\ Queue \in Seq(Values) /\ Len(Queue) = (IF s + 1 <= n THEN n - (s + 1) + 1 ELSE 0)
      /\ \A i \in 1 .. n - (s + 1) + 1 : Queue[i] = order[s + 1 + i - 1]
  <2>1. s + 1 \in Int /\ n \in Int
    BY ONLY <1>3
  <2> QED
    BY ONLY <1>3, <2>1, SubSeqProperties
<1>5. Released' = {order[k] : k \in s + 1 .. n}
  <2>1. SlotsBelow(head') = s
    BY ONLY <1>1
  <2> QED
    BY ONLY <1>1, <1>2, <2>1 DEF Released, Dropped, SlotsBelow
<1> HIDE DEF s, n
<1>6. s \in Nat /\ n \in Nat
  BY ONLY <1>3 DEF s, n
<1>7. {order[k] : k \in s + 1 .. n} = {Queue[i] : i \in DOMAIN Queue}
  <2>1. DOMAIN Queue = 1 .. n - s
    BY ONLY <1>4, <1>6
  <2>2. ASSUME NEW k \in s + 1 .. n PROVE \E i \in DOMAIN Queue : Queue[i] = order[k]
    <3>1. k - s \in 1 .. n - s /\ k - s \in 1 .. n - (s + 1) + 1 /\ s + 1 + (k - s) - 1 = k
      BY ONLY <1>6, <2>2
    <3> QED
      BY ONLY <1>4, <2>1, <3>1
  <2>3. ASSUME NEW i \in DOMAIN Queue PROVE \E k \in s + 1 .. n : Queue[i] = order[k]
    <3>1. i \in 1 .. n - (s + 1) + 1 /\ s + 1 + i - 1 \in s + 1 .. n
      BY ONLY <1>6, <2>1, <2>3
    <3> QED
      BY ONLY <1>4, <3>1
  <2> QED
    BY ONLY <2>2, <2>3
<1>8. Released' = Contract!ToSet(Queue)
  BY ONLY <1>5, <1>7 DEF Contract!ToSet
<1>9. Queue' = <<>>
  BY ONLY <1>1 DEF Queue
<1>10. ASSUME NEW t \in Threads
       PROVE  /\ Op(t)' = Op(t) /\ Op(t) = "idle" /\ Held(t)' = Held(t)
  <2>1. pc[t] = "idle" /\ pc'[t] = "idle"
    BY <1>1
  <2> QED
    BY <2>1, OpFacts, OpFactsAfter
<1>11. /\ [t \in Threads |-> Op(t)]' = [t \in Threads |-> Op(t)]
       /\ [t \in Threads |-> Held(t)]' = [t \in Threads |-> Held(t)]
       /\ \A t \in Threads : [u \in Threads |-> Op(u)][t] = "idle"
  BY ONLY <1>10
<1>12. Contract!Drop
  BY ONLY <1>8, <1>9, <1>11 DEF Contract!Drop
<1> QED
  BY ONLY <1>12 DEF Refines, Contract!Next

\* The initial state.
LEMMA InitRefines == Init => Contract!Init
<1>1. SUFFICES ASSUME Init PROVE Contract!Init
  OBVIOUS
<1>2. head = 0 /\ gone = FALSE /\ order = <<>> /\ dropped = <<>> /\ pc = [t \in Threads |-> "idle"]
  BY <1>1 DEF Init
<1>3. SlotsBelow(head) = 0
  BY <1>2, Zero DEF SlotsBelow
<1>4. Queue = <<>>
  <2>1. Queue = SubSeq(<<>>, 1, 0)
    BY ONLY <1>2, <1>3 DEF Queue
  <2> QED
    BY <2>1, SubSeqEmpty
<1>5. Released = {}
  BY ONLY <1>2 DEF Released
<1>6. \A t \in Threads : Op(t) = "idle" /\ Held(t) = None
  BY <1>2, OpFacts
<1> QED
  BY ONLY <1>4, <1>5, <1>6 DEF Contract!Init

(* The injector is a FIFO queue whose calls each take effect in one step:  *)
(* a push with the compare-exchange of tail.index, a pop with that of      *)
(* head.index, when its value need not be written yet, and an unsuccessful *)
(* pop with its look at tail.index.                                        *)
THEOREM TheInjectorIsAQueue == Spec => ImplementsQueue
<1>1. LeakInv /\ LeakInv' /\ [Next]_vars => [Contract!Next]_(Contract!vars)
  <2>1. SUFFICES ASSUME LeakInv, LeakInv', [Next]_vars PROVE Refines
    BY DEF Refines
  <2>2. CASE UNCHANGED vars
    <3>1. UNCHANGED <<head, pc, loc, gone, dropped, order>>
      BY <2>2 DEF vars, positions, others, history
    <3>2. Queue' = Queue /\ Released' = Released
      BY ONLY <3>1 DEF Queue, Released, SlotsBelow
    <3>3. ASSUME NEW t \in Threads PROVE Op(t)' = Op(t) /\ Held(t)' = Held(t)
      BY ONLY <3>1 DEF Op, Held, ToPush, Pushed, ToPop, HasTicket, HasValue, SlotsBelow
    <3>4. UNCHANGED Contract!vars
      BY ONLY <3>2, <3>3 DEF Contract!vars
    <3> QED
      BY ONLY <3>4 DEF Refines
  <2>3. CASE Drop
    BY <2>1, <2>3, DropRefines
  <2>4. ASSUME NEW t \in Threads, Acts(t) PROVE Refines
    <3>1. CASE \/ CallIsEmpty(t) \/ CallLen(t) \/ FailSpuriously(t)
               \/ LoadTail(t) \/ LoadTailBlock(t) \/ InstallFirst(t) \/ PublishFirst(t)
               \/ LoseTailTicket(t) \/ InstallNext(t) \/ SkipBoundary(t) \/ LinkNext(t)
               \/ WriteValue(t)
               \/ LoadHead(t) \/ LoadHeadBlock(t)
               \/ LoseHeadTicket(t) \/ WaitNext(t) \/ PeekNext(t) \/ MoveHeadBlock(t)
               \/ EmptyHead(t) \/ EmptyTail(t) \/ LenTail(t) \/ LenHead(t) \/ LenCheck(t)
      BY <2>1, <3>1, LooksRefine
    <3>2. CASE CallPush(t) \/ CallPop(t)
      BY <2>1, <3>2, CallsRefine
    <3>3. CASE TakeTailTicket(t)
      BY <2>1, <3>3, TakeTailTicketRefines
    <3>4. CASE TakeHeadTicket(t)
      BY <2>1, <3>4, TakeHeadTicketRefines
    <3>5. CASE LookAtTail(t)
      BY <2>1, <3>5, LookAtTailRefines
    <3>6. CASE MoveHead(t)
      BY <2>1, <3>6, MoveHeadRefines
    <3>7. CASE ReadValue(t)
      BY <2>1, <3>7, ReadValueRefines
    <3>8. CASE MarkWritten(t) \/ MarkRead(t) \/ Destroy(t) \/ MarkDestroy(t)
      BY <2>1, <3>8, ReturnsRefine
    <3> QED
      BY ONLY <2>4, <3>1, <3>2, <3>3, <3>4, <3>5, <3>6, <3>7, <3>8 DEF Acts, Call, Step
  <2> QED
    BY ONLY <2>1, <2>2, <2>3, <2>4 DEF Next, Acts
<1> QED
  BY <1>1, InitRefines, LeakInvariant, PTL DEF Spec, ImplementsQueue, Contract!Spec

=============================================================================
