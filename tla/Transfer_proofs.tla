-------------------------- MODULE Transfer_proofs --------------------------
(***************************************************************************)
(* The proofs about Transfer, for rings of any size, any positions and any *)
(* threshold: the chunks stay within both buffers, what is read and what   *)
(* is written never meet, and the chunks do what the copy item by item     *)
(* does.                                                                   *)
(*                                                                         *)
(* A chunk is a run of items without a wrap point of either ring.  Within  *)
(* it, the slot of an item is that of the first one plus the distance      *)
(* (ChunkSlots); everything else follows from that.                        *)
(***************************************************************************)
EXTENDS Transfer, RingTheorems

-----------------------------------------------------------------------------
(* The arguments *)

ArgTypes ==
    /\ src \in Workers /\ dst \in Workers
    /\ src_pos \in Nat /\ dst_pos \in Nat
    /\ count \in Nat
    /\ Room(src, dst, src_pos, dst_pos, count)

LEMMA ArgFacts ==
    ASSUME ArgTypes
    PROVE  /\ Capacity[src] \in Nat \ {0} /\ Capacity[dst] \in Nat \ {0}
           /\ count <= Capacity[src] /\ count <= Capacity[dst]
           /\ src_idx \in 0 .. Capacity[src] - 1 /\ dst_idx \in 0 .. Capacity[dst] - 1
<1>1. /\ src \in Workers /\ dst \in Workers /\ src_pos \in Int /\ dst_pos \in Int
      /\ count <= Capacity[src] /\ count <= Capacity[dst]
  BY DEF ArgTypes, Room
<1> QED
  BY <1>1, CapacityFacts, SlotType DEF src_idx, dst_idx

\* The slot of an item before the wrap point and behind it.
LEMMA SlotOnward ==
    ASSUME NEW q \in Workers, NEW p \in Int, NEW k \in Nat, k <= Capacity[q]
    PROVE  Slot(q, p + k) = IF Slot(q, p) + k < Capacity[q] THEN Slot(q, p) + k
                                                            ELSE Slot(q, p) + k - Capacity[q]
<1> DEFINE C == Capacity[q]
           a == Slot(q, p)
           d == p \div C
<1>1. C \in Nat \ {0}
  BY CapacityFacts
<1>2. a = p % C /\ Slot(q, p + k) = (p + k) % C
  BY SlotIsMod
<1>3. d \in Int /\ a \in 0 .. C - 1 /\ p = C * d + a
  BY <1>1, <1>2, DivMod
<1>4. k <= C
  OBVIOUS
<1> HIDE DEF C, a, d
<1>5. CASE a + k < C
  <2>1. p + k = C * d + (a + k) /\ a + k \in 0 .. C - 1
    BY <1>1, <1>3, <1>5
  <2>2. (p + k) % C = a + k
    BY <1>1, <1>3, <2>1, ModUnique
  <2> QED
    BY <1>2, <1>5, <2>2 DEF C, a
<1>6. CASE ~ (a + k < C)
  <2>1. a + k - C \in 0 .. C - 1
    BY <1>1, <1>3, <1>4, <1>6
  <2>2. C * (d + 1) = C * d + C
    BY <1>1, <1>3
  <2>3. p + k = C * (d + 1) + (a + k - C)
    BY <1>1, <1>3, <2>2
  <2>4. (p + k) % C = a + k - C
    <3>1. p + k \in Int /\ d + 1 \in Int
      BY <1>3
    <3> QED
      BY ONLY <1>1, <2>1, <2>3, <3>1, ModUnique
  <2> QED
    BY <1>2, <1>6, <2>4 DEF C, a
<1> QED
  BY <1>5, <1>6

-----------------------------------------------------------------------------
(* The chunks *)

\* The wrap points, as numbers of items before them.
SrcRun == Least(Capacity[src] - src_idx, count)
DstRun == Least(Capacity[dst] - dst_idx, count)

Begin(c) == Chunks[c][1]
End(c) == Chunks[c][2]

\* The chunks follow each other, and no wrap point is within one.
LEMMA ChunkShape ==
    ASSUME ArgTypes
    PROVE  /\ SrcRun \in 0 .. count /\ DstRun \in 0 .. count
           /\ Begin(1) = 0 /\ End(1) = Begin(2) /\ End(2) = Begin(3) /\ End(3) = count
           /\ \A c \in 1 .. 3 :
                /\ Begin(c) \in 0 .. count /\ End(c) \in 0 .. count
                /\ Begin(c) <= End(c) /\ Size(c) = End(c) - Begin(c)
                /\ Begin(c) < End(c) =>
                      /\ End(c) <= SrcRun \/ SrcRun <= Begin(c)
                      /\ End(c) <= DstRun \/ DstRun <= Begin(c)
<1> DEFINE s == SrcRun
           d == DstRun
           lo == IF s <= d THEN s ELSE d
           hi == IF s <= d THEN d ELSE s
<1>1. count \in Nat
  BY DEF ArgTypes
<1>2. s \in 0 .. count /\ d \in 0 .. count
  BY <1>1, ArgFacts DEF SrcRun, DstRun, Least
<1>3. Chunks = << <<0, lo>>, <<lo, hi>>, <<hi, count>> >>
  BY DEF Chunks, SrcRun, DstRun
<1>4. /\ Begin(1) = 0 /\ End(1) = lo /\ Begin(2) = lo /\ End(2) = hi
      /\ Begin(3) = hi /\ End(3) = count
  BY <1>3 DEF Begin, End
<1>5. \A c : Size(c) = End(c) - Begin(c)
  BY DEF Size, Begin, End
<1> HIDE DEF s, d
<1>6. /\ lo \in 0 .. count /\ hi \in 0 .. count /\ lo <= hi
      /\ lo <= s /\ lo <= d /\ s <= hi /\ d <= hi /\ lo \in {s, d} /\ hi \in {s, d}
  BY <1>1, <1>2
<1> HIDE DEF lo, hi
<1>7. ASSUME NEW c \in 1 .. 3
      PROVE  /\ Begin(c) \in 0 .. count /\ End(c) \in 0 .. count /\ Begin(c) <= End(c)
             /\ Begin(c) < End(c) => /\ End(c) <= s \/ s <= Begin(c)
                                     /\ End(c) <= d \/ d <= Begin(c)
  <2>1. CASE c = 1
    BY ONLY <1>1, <1>2, <1>4, <1>6, <2>1
  <2>2. CASE c = 2
    BY ONLY <1>1, <1>2, <1>4, <1>6, <2>2
  <2>3. CASE c = 3
    BY ONLY <1>1, <1>2, <1>4, <1>6, <2>3
  <2> QED
    BY <2>1, <2>2, <2>3
<1> QED
  BY <1>2, <1>4, <1>5, <1>7 DEF s, d

\* In one ring: a run of items that has the wrap point before it or behind it.
LEMMA RunSlots ==
    ASSUME NEW q \in Workers, NEW p \in Int, NEW n \in Nat, n <= Capacity[q],
           NEW b \in 0 .. n, NEW e \in 0 .. n, b < e,
           \/ e <= Least(Capacity[q] - Slot(q, p), n)
           \/ Least(Capacity[q] - Slot(q, p), n) <= b
    PROVE  /\ Slot(q, p + b) + (e - b) <= Capacity[q]
           /\ \A j \in b .. e - 1 : Slot(q, p + j) = Slot(q, p + b) + (j - b)
<1> DEFINE C == Capacity[q]
           a == Slot(q, p)
           w == Least(C - a, n)
<1>1. C \in Nat \ {0} /\ a \in 0 .. C - 1 /\ n \in Nat /\ n <= C
  BY CapacityFacts, SlotType
<1>2. \A j \in 0 .. n : Slot(q, p + j) = IF a + j < C THEN a + j ELSE a + j - C
  BY <1>1, SlotOnward
<1>3. e <= w \/ w <= b
  OBVIOUS
<1> HIDE DEF C, a
<1>4. CASE e <= w
  <2>1. a + e <= C
    BY <1>1, <1>4 DEF Least
  <2>2. \A j \in b .. e - 1 : j \in 0 .. n /\ a + j < C
    BY <1>1, <2>1
  <2>3. \A j \in b .. e - 1 : Slot(q, p + j) = a + j
    BY <1>2, <2>2
  <2>4. Slot(q, p + b) = a + b
    BY <2>3
  <2>5. \A j \in b .. e - 1 : a + j = a + b + (j - b)
    BY <1>1
  <2> QED
    BY <1>1, <2>1, <2>3, <2>4, <2>5 DEF C
<1>5. CASE w <= b
  <2>1. a + b >= C
    BY <1>1, <1>5 DEF Least
  <2>2. \A j \in b .. e - 1 : j \in 0 .. n /\ ~ (a + j < C)
    BY <1>1, <2>1
  <2>3. \A j \in b .. e - 1 : Slot(q, p + j) = a + j - C
    BY <1>2, <2>2
  <2>4. Slot(q, p + b) = a + b - C
    BY <2>3
  <2>5. \A j \in b .. e - 1 : a + j - C = (a + b - C) + (j - b)
    BY <1>1
  <2>6. (a + b - C) + (e - b) <= C
    BY <1>1
  <2> QED
    BY <2>3, <2>4, <2>5, <2>6 DEF C
<1> QED
  BY <1>3, <1>4, <1>5

\* Where the chunks start, in each ring.
LEMMA ChunkStart ==
    ASSUME ArgTypes, NEW c \in 1 .. 3
    PROVE  /\ SrcChunk(c) = Slot(src, src_pos + Begin(c))
           /\ DstChunk(c) = Slot(dst, dst_pos + Begin(c))
<1>1. /\ src \in Workers /\ dst \in Workers /\ src_pos \in Int /\ dst_pos \in Int
      /\ Begin(c) \in Nat /\ Begin(c) <= Capacity[src] /\ Begin(c) <= Capacity[dst]
  BY ArgFacts, ChunkShape DEF ArgTypes
<1>2. ASSUME NEW q \in Workers, NEW p \in Int, Begin(c) <= Capacity[q]
      PROVE  (Slot(q, p) + Begin(c)) % Capacity[q] = Slot(q, p + Begin(c))
  <2> DEFINE C == Capacity[q]
             a == Slot(q, p)
             x == Slot(q, p + Begin(c))
             k == Begin(c)
  <2>1. C \in Nat \ {0} /\ a \in 0 .. C - 1 /\ x \in 0 .. C - 1 /\ k \in Nat
    BY <1>1, <1>2, CapacityFacts, SlotType
  <2>2. x = IF a + k < C THEN a + k ELSE a + k - C
    BY <1>1, <1>2, SlotOnward
  <2> HIDE DEF C, a, x, k
  <2>3. a + k = C * 0 + x \/ a + k = C * 1 + x
    BY <2>1, <2>2
  <2>4. a + k \in Int
    BY <2>1
  <2>5. (a + k) % C = x
    BY ONLY <2>1, <2>3, <2>4, ModUnique
  <2> QED
    BY <2>5 DEF C, a, x, k
<1> QED
  BY <1>1, <1>2 DEF SrcChunk, DstChunk, src_idx, dst_idx, Begin

(* Within a chunk the slots of both rings follow each other up to the end  *)
(* of the buffer at most.                                                  *)
LEMMA ChunkSlots ==
    ASSUME ArgTypes, NEW c \in 1 .. 3, Begin(c) < End(c)
    PROVE  /\ SrcChunk(c) + Size(c) <= Capacity[src]
           /\ DstChunk(c) + Size(c) <= Capacity[dst]
           /\ \A j \in Begin(c) .. End(c) - 1 :
                /\ Slot(src, src_pos + j) = SrcChunk(c) + (j - Begin(c))
                /\ Slot(dst, dst_pos + j) = DstChunk(c) + (j - Begin(c))
<1>1. /\ src \in Workers /\ dst \in Workers /\ src_pos \in Int /\ dst_pos \in Int
      /\ count \in Nat /\ count <= Capacity[src] /\ count <= Capacity[dst]
  BY ArgFacts DEF ArgTypes
<1>2. /\ Begin(c) \in 0 .. count /\ End(c) \in 0 .. count /\ Size(c) = End(c) - Begin(c)
      /\ End(c) <= SrcRun \/ SrcRun <= Begin(c)
      /\ End(c) <= DstRun \/ DstRun <= Begin(c)
  BY ChunkShape
<1>3. /\ Slot(src, src_pos + Begin(c)) + (End(c) - Begin(c)) <= Capacity[src]
      /\ \A j \in Begin(c) .. End(c) - 1 :
            Slot(src, src_pos + j) = Slot(src, src_pos + Begin(c)) + (j - Begin(c))
  BY <1>1, <1>2, RunSlots DEF SrcRun, src_idx
<1>4. /\ Slot(dst, dst_pos + Begin(c)) + (End(c) - Begin(c)) <= Capacity[dst]
      /\ \A j \in Begin(c) .. End(c) - 1 :
            Slot(dst, dst_pos + j) = Slot(dst, dst_pos + Begin(c)) + (j - Begin(c))
  BY <1>1, <1>2, RunSlots DEF DstRun, dst_idx
<1> QED
  BY <1>2, <1>3, <1>4, ChunkStart

\* Each part of the arguments fits both buffers.
LEMMA BoundsFollow == ArgTypes => ChunksInBounds
<1> SUFFICES ASSUME ArgTypes, NEW c \in 1 .. 3, Size(c) > 0
             PROVE  /\ SrcChunk(c) + Size(c) <= Capacity[src]
                    /\ DstChunk(c) + Size(c) <= Capacity[dst]
  BY DEF ChunksInBounds
<1>1. Begin(c) < End(c)
  BY ChunkShape DEF ArgTypes
<1> QED
  BY <1>1, ChunkSlots

-----------------------------------------------------------------------------
(* A ring that steals from itself *)

(* An item that is yet to be read and a place that is yet to be written    *)
(* are in different slots, the end of the run of either included.          *)
LEMMA NeverMeet ==
    ASSUME ArgTypes, src = dst, NEW j \in 0 .. count, NEW k \in 0 .. count,
           (j < count /\ k < count) \/ (j < count /\ 0 < j) \/ (k < count /\ 0 < k)
    PROVE  Slot(src, src_pos + j) # Slot(dst, dst_pos + k)
<1>1. /\ src \in Workers /\ src_pos \in Int /\ dst_pos \in Int /\ count \in Nat
      /\ src_pos + count <= dst_pos /\ dst_pos + count <= src_pos + Capacity[src]
      /\ Capacity[src] \in Nat
  BY ArgFacts DEF ArgTypes, Room
<1> DEFINE f == src_pos + j
           t == dst_pos + k
<1>2. /\ f \in Int /\ t \in Int /\ f # t
      /\ f - t < Capacity[src] /\ t - f < Capacity[src]
  BY <1>1
<1> HIDE DEF f, t
<1>3. Slot(src, f) # Slot(src, t)
  BY ONLY <1>1, <1>2, SlotInjective
<1> QED
  BY <1>3 DEF f, t

\* copy_nonoverlapping may be used for each chunk.
LEMMA DisjointFollow == ArgTypes => ChunksDisjoint
<1> SUFFICES ASSUME ArgTypes, src = dst, NEW a \in 1 .. 3, NEW b \in 1 .. 3,
                    ~ (SrcChunk(a) + Size(a) <= DstChunk(b)), ~ (DstChunk(b) + Size(b) <= SrcChunk(a))
             PROVE  FALSE
  BY DEF ChunksDisjoint
<1> DEFINE x == SrcChunk(a)
           y == DstChunk(b)
           m == Size(a)
           l == Size(b)
<1>1. /\ count \in Nat
      /\ Begin(a) \in 0 .. count /\ End(a) \in 0 .. count /\ m = End(a) - Begin(a) /\ Begin(a) <= End(a)
      /\ Begin(b) \in 0 .. count /\ End(b) \in 0 .. count /\ l = End(b) - Begin(b) /\ Begin(b) <= End(b)
  BY ChunkShape DEF ArgTypes
<1>2. /\ x = Slot(src, src_pos + Begin(a)) /\ y = Slot(dst, dst_pos + Begin(b))
      /\ x \in Nat /\ y \in Nat
  <2>1. src_pos + Begin(a) \in Int /\ dst_pos + Begin(b) \in Int /\ src \in Workers /\ dst \in Workers
        /\ Capacity[src] \in Nat /\ Capacity[dst] \in Nat
    BY <1>1, ArgFacts DEF ArgTypes
  <2>2. x = Slot(src, src_pos + Begin(a)) /\ y = Slot(dst, dst_pos + Begin(b))
    BY ChunkStart
  <2>3. Slot(src, src_pos + Begin(a)) \in 0 .. Capacity[src] - 1
        /\ Slot(dst, dst_pos + Begin(b)) \in 0 .. Capacity[dst] - 1
    BY <2>1, SlotType
  <2> QED
    BY <2>1, <2>2, <2>3
<1>3. y < x + m /\ x < y + l
  <2>1. m \in Int /\ l \in Int
    BY <1>1
  <2> QED
    BY <1>2, <2>1
<1>4. CASE x <= y
  <2> DEFINE j == Begin(a) + (y - x)
  <2>1. /\ j \in Begin(a) .. End(a) - 1 /\ Begin(a) < End(a) /\ j \in 0 .. count
        /\ j < count /\ (0 < j \/ Begin(b) < count)
    <3> HIDE DEF x, y, m, l
    <3> QED
      BY <1>1, <1>2, <1>3, <1>4
  <2>2. Slot(src, src_pos + j) = x + (j - Begin(a))
    BY <2>1, ChunkSlots
  <2>3. x + (j - Begin(a)) = y
    <3> HIDE DEF x, y
    <3> QED
      BY <1>1, <1>2
  <2>4. Slot(src, src_pos + j) # Slot(dst, dst_pos + Begin(b))
    BY <1>1, <2>1, NeverMeet
  <2> QED
    BY <1>2, <2>2, <2>3, <2>4
<1>5. CASE y < x
  <2> DEFINE k == Begin(b) + (x - y)
  <2>1. k \in Begin(b) .. End(b) - 1 /\ Begin(b) < End(b) /\ k \in 0 .. count /\ k < count /\ 0 < k
    <3> HIDE DEF x, y, m, l
    <3> QED
      BY <1>1, <1>2, <1>3, <1>5
  <2>2. Slot(dst, dst_pos + k) = y + (k - Begin(b))
    BY <2>1, ChunkSlots
  <2>3. y + (k - Begin(b)) = x
    <3> HIDE DEF x, y
    <3> QED
      BY <1>1, <1>2
  <2>4. Slot(src, src_pos + Begin(a)) # Slot(dst, dst_pos + k)
    BY <1>1, <2>1, NeverMeet
  <2> QED
    BY <1>2, <2>2, <2>3, <2>4
<1> QED
  BY <1>2, <1>4, <1>5

-----------------------------------------------------------------------------
(* The copy *)

\* b is a buffer for each ring.
IsBuffer(b) == b = [q \in Workers |-> [k \in 0 .. Capacity[q] - 1 |-> b[q][k]]]

\* Slot k of q holds one of the first m items where it belongs, or one of the others still.
Arrived(q, k, m) == q = dst /\ \E j \in 0 .. m - 1 : k = Slot(dst, dst_pos + j)
Waits(q, k, m) == q = src /\ \E j \in m .. count - 1 : k = Slot(src, src_pos + j)

\* The first m items have been copied.
FirstMoved(b, m) ==
    /\ IsBuffer(b)
    /\ \A j \in 0 .. m - 1 : b[dst][Slot(dst, dst_pos + j)] = j + 1
    /\ \A j \in m .. count - 1 : b[src][Slot(src, src_pos + j)] = j + 1
    /\ \A q \in Workers : \A k \in 0 .. Capacity[q] - 1 :
          ~ Arrived(q, k, m) /\ ~ Waits(q, k, m) => b[q][k] = Vacant

\* The invariant: how many items have been copied at each step.
CopyInv ==
    /\ ArgTypes
    /\ chunk \in 1 .. 3 /\ i \in Nat /\ pc \in {"start", "chunks", "done"}
    /\ pc = "start" => chunk = 1 /\ i = 0 /\ FirstMoved(buffer, 0)
    /\ pc = "chunks" =>
          /\ i <= Size(chunk) /\ (Size(chunk) > SmallChunk => i \in {0, Size(chunk)})
          /\ FirstMoved(buffer, Begin(chunk) + i)
    /\ pc = "done" => FirstMoved(buffer, count)

\* Different items have different slots, and never a slot that is needed for another.
LEMMA ItemsApart ==
    ASSUME ArgTypes, NEW j \in 0 .. count - 1, NEW k \in 0 .. count - 1
    PROVE  /\ Slot(src, src_pos + j) \in 0 .. Capacity[src] - 1
           /\ Slot(dst, dst_pos + j) \in 0 .. Capacity[dst] - 1
           /\ Slot(src, src_pos + j) = Slot(src, src_pos + k) => j = k
           /\ Slot(dst, dst_pos + j) = Slot(dst, dst_pos + k) => j = k
           /\ src = dst => Slot(src, src_pos + j) # Slot(dst, dst_pos + k)
<1>1. /\ src \in Workers /\ dst \in Workers /\ src_pos \in Int /\ dst_pos \in Int /\ count \in Nat
      /\ Capacity[src] \in Nat /\ Capacity[dst] \in Nat
      /\ count <= Capacity[src] /\ count <= Capacity[dst]
  BY ArgFacts DEF ArgTypes
<1>2. /\ src_pos + j \in Int /\ dst_pos + j \in Int /\ src_pos + k \in Int /\ dst_pos + k \in Int
      /\ (src_pos + j) - (src_pos + k) < Capacity[src] /\ (src_pos + k) - (src_pos + j) < Capacity[src]
      /\ (dst_pos + j) - (dst_pos + k) < Capacity[dst] /\ (dst_pos + k) - (dst_pos + j) < Capacity[dst]
  BY <1>1
<1>3. Slot(src, src_pos + j) \in 0 .. Capacity[src] - 1 /\ Slot(dst, dst_pos + j) \in 0 .. Capacity[dst] - 1
  BY ONLY <1>1, <1>2, SlotType
<1>4. Slot(src, src_pos + j) = Slot(src, src_pos + k) => j = k
  <2>1. Slot(src, src_pos + j) = Slot(src, src_pos + k) => src_pos + j = src_pos + k
    BY ONLY <1>1, <1>2, SlotInjective
  <2> QED
    BY <1>1, <2>1
<1>5. Slot(dst, dst_pos + j) = Slot(dst, dst_pos + k) => j = k
  <2>1. Slot(dst, dst_pos + j) = Slot(dst, dst_pos + k) => dst_pos + j = dst_pos + k
    BY ONLY <1>1, <1>2, SlotInjective
  <2> QED
    BY <1>1, <2>1
<1>6. src = dst => Slot(src, src_pos + j) # Slot(dst, dst_pos + k)
  BY <1>1, NeverMeet
<1> QED
  BY <1>3, <1>4, <1>5, <1>6

\* The slots before the copy.
LEMMA FreshCells ==
    ASSUME ArgTypes
    PROVE  /\ BufferShape(Fresh(src, src_pos, count))
           /\ FirstMoved(Fresh(src, src_pos, count), 0)
<1> DEFINE b == Fresh(src, src_pos, count)
           which(k) == CHOOSE j \in 0 .. count - 1 : k = Slot(src, src_pos + j)
<1>1. count \in Nat /\ src \in Workers
  BY DEF ArgTypes
<1>2. ASSUME NEW k
      PROVE  k \in Slots(src, src_pos, count) <=> \E j \in 0 .. count - 1 : k = Slot(src, src_pos + j)
  BY DEF Slots
<1>3. ASSUME NEW k \in Slots(src, src_pos, count)
      PROVE  which(k) \in 0 .. count - 1 /\ k = Slot(src, src_pos + which(k))
  <2>1. \E j \in 0 .. count - 1 : k = Slot(src, src_pos + j)
    BY <1>2
  <2> QED
    BY ONLY <2>1
<1>4. ASSUME NEW j \in 0 .. count - 1
      PROVE  Slot(src, src_pos + j) \in Slots(src, src_pos, count) /\ which(Slot(src, src_pos + j)) = j
  <2>1. Slot(src, src_pos + j) \in Slots(src, src_pos, count)
    BY <1>2
  <2> QED
    BY <2>1, <1>3, ItemsApart
<1>5. b = [q \in Workers |-> [k \in 0 .. Capacity[q] - 1 |->
             IF q = src /\ k \in Slots(src, src_pos, count) THEN 1 + which(k) ELSE Vacant]]
  BY DEF Fresh
<1> HIDE DEF b, which
<1>6. \A q \in Workers : \A k \in 0 .. Capacity[q] - 1 :
        b[q][k] = IF q = src /\ k \in Slots(src, src_pos, count) THEN 1 + which(k) ELSE Vacant
  BY ONLY <1>5
<1>7. BufferShape(b)
  <2>1. ASSUME NEW q \in Workers PROVE b[q] \in [0 .. Capacity[q] - 1 -> Content]
    <3>1. \A k \in Slots(src, src_pos, count) : 1 + which(k) \in Content
      BY <1>3 DEF Content
    <3>2. Vacant \in Content
      BY DEF Content
    <3> QED
      BY ONLY <1>5, <3>1, <3>2
  <2>2. DOMAIN b = Workers
    BY ONLY <1>5
  <2> QED
    BY <2>1, <2>2 DEF BufferShape
<1>8. IsBuffer(b)
  BY ONLY <1>5 DEF IsBuffer
<1>9. \A j \in 0 .. count - 1 : b[src][Slot(src, src_pos + j)] = j + 1
  <2> SUFFICES ASSUME NEW j \in 0 .. count - 1 PROVE b[src][Slot(src, src_pos + j)] = j + 1
    OBVIOUS
  <2>1. Slot(src, src_pos + j) \in 0 .. Capacity[src] - 1
    BY ItemsApart
  <2>2. b[src][Slot(src, src_pos + j)] = 1 + j
    BY ONLY <1>1, <1>4, <1>6, <2>1
  <2> QED
    BY <1>1, <2>2
<1>10. \A q \in Workers : \A k \in 0 .. Capacity[q] - 1 :
          ~ Arrived(q, k, 0) /\ ~ Waits(q, k, 0) => b[q][k] = Vacant
  BY ONLY <1>2, <1>6 DEF Waits
<1>11. \A j \in 0 .. 0 - 1 : FALSE
  OBVIOUS
<1>12. FirstMoved(b, 0)
  BY ONLY <1>8, <1>9, <1>10, <1>11 DEF FirstMoved
<1> QED
  BY <1>7, <1>12 DEF b

\* One move: the next l items, whose slots follow each other in both rings.
LEMMA MoveCopies ==
    ASSUME ArgTypes, NEW m \in Nat, NEW l \in Nat, m + l <= count,
           NEW from \in Int, NEW to \in Int,
           \A j \in m .. m + l - 1 : /\ Slot(src, src_pos + j) = from + (j - m)
                                     /\ Slot(dst, dst_pos + j) = to + (j - m),
           FirstMoved(buffer, m), Move(from, to, l), UNCHANGED args
    PROVE  FirstMoved(buffer, m + l)'
<1>1. /\ count \in Nat /\ src \in Workers /\ dst \in Workers
      /\ src' = src /\ dst' = dst /\ src_pos' = src_pos /\ dst_pos' = dst_pos /\ count' = count
  BY DEF ArgTypes, args
<1> DEFINE b == buffer'
           reads(q, k) == q = src /\ k \in from .. from + l - 1
           writes(q, k) == q = dst /\ k \in to .. to + l - 1
<1>2. IsBuffer(buffer)
  BY DEF FirstMoved
<1>3. b = [q \in Workers |-> [k \in 0 .. Capacity[q] - 1 |->
             CASE writes(q, k) -> buffer[src][from + (k - to)]
               [] reads(q, k) /\ ~ writes(q, k) -> Vacant
               [] OTHER -> buffer[q][k]]]
  <2>1. \A q \in Workers : DOMAIN buffer[q] = 0 .. Capacity[q] - 1
    BY ONLY <1>2 DEF IsBuffer
  <2> QED
    BY ONLY <2>1, Move(from, to, l) DEF Move
<1>4. IsBuffer(b)
  BY ONLY <1>3 DEF IsBuffer
<1> HIDE DEF b
<1>5. ASSUME NEW q \in Workers, NEW k \in 0 .. Capacity[q] - 1
      PROVE  /\ writes(q, k) => b[q][k] = buffer[src][from + (k - to)]
             /\ reads(q, k) /\ ~ writes(q, k) => b[q][k] = Vacant
             /\ ~ reads(q, k) /\ ~ writes(q, k) => b[q][k] = buffer[q][k]
  <2> HIDE DEF reads, writes
  <2> QED
    BY ONLY <1>3
<1>6. ASSUME NEW k \in from .. from + l - 1
      PROVE  \E j \in m .. m + l - 1 : k = Slot(src, src_pos + j)
  <2>1. m + (k - from) \in m .. m + l - 1 /\ k = from + ((m + (k - from)) - m)
    OBVIOUS
  <2> QED
    BY <2>1
<1>7. ASSUME NEW k \in to .. to + l - 1
      PROVE  \E j \in m .. m + l - 1 : k = Slot(dst, dst_pos + j)
  <2>1. m + (k - to) \in m .. m + l - 1 /\ k = to + ((m + (k - to)) - m)
    OBVIOUS
  <2> QED
    BY <2>1
<1>8. \A j \in m .. m + l - 1 : j \in 0 .. count - 1
  BY <1>1
\* What was copied before stays, ...
<1>9. ASSUME NEW j \in 0 .. m - 1 PROVE b[dst][Slot(dst, dst_pos + j)] = j + 1
  <2> DEFINE k == Slot(dst, dst_pos + j)
  <2>1. j \in 0 .. count - 1 /\ j \notin m .. m + l - 1
    BY <1>1
  <2>2. k \in 0 .. Capacity[dst] - 1
    BY <2>1, ItemsApart
  <2>3. ~ writes(dst, k)
    BY <1>7, <1>8, <2>1, ItemsApart
  <2>4. ~ reads(dst, k)
    BY <1>6, <1>8, <2>1, ItemsApart
  <2>5. b[dst][k] = buffer[dst][k]
    <3> HIDE DEF reads, writes, k
    <3> QED
      BY <1>1, <1>5, <2>2, <2>3, <2>4
  <2>6. buffer[dst][k] = j + 1
    BY DEF FirstMoved
  <2> QED
    BY ONLY <2>5, <2>6
\* ... the items of this move arrive, ...
<1>10. ASSUME NEW j \in m .. m + l - 1 PROVE b[dst][Slot(dst, dst_pos + j)] = j + 1
  <2> DEFINE k == Slot(dst, dst_pos + j)
  <2>1. j \in 0 .. count - 1 /\ k \in 0 .. Capacity[dst] - 1 /\ k = to + (j - m)
    BY <1>8, ItemsApart
  <2>2. k \in to .. to + l - 1 /\ from + (k - to) = Slot(src, src_pos + j)
    BY <2>1
  <2>3. b[dst][k] = buffer[src][from + (k - to)]
    <3>1. writes(dst, k)
      BY <2>2
    <3> HIDE DEF reads, writes, k
    <3> QED
      BY <1>1, <1>5, <2>1, <3>1
  <2>4. buffer[src][Slot(src, src_pos + j)] = j + 1
    <3>1. j \in m .. count - 1
      BY <1>1
    <3> QED
      BY <3>1 DEF FirstMoved
  <2> QED
    BY ONLY <2>2, <2>3, <2>4
\* ... the others wait, ...
<1>11. ASSUME NEW j \in m + l .. count - 1 PROVE b[src][Slot(src, src_pos + j)] = j + 1
  <2> DEFINE k == Slot(src, src_pos + j)
  <2>1. j \in 0 .. count - 1 /\ j \in m .. count - 1 /\ j \notin m .. m + l - 1
    BY <1>1
  <2>2. k \in 0 .. Capacity[src] - 1
    BY <2>1, ItemsApart
  <2>3. ~ reads(src, k)
    BY <1>6, <1>8, <2>1, ItemsApart
  <2>4. ~ writes(src, k)
    BY <1>7, <1>8, <2>1, ItemsApart
  <2>5. b[src][k] = buffer[src][k]
    <3> HIDE DEF reads, writes, k
    <3> QED
      BY <1>1, <1>5, <2>2, <2>3, <2>4
  <2>6. buffer[src][k] = j + 1
    BY <2>1 DEF FirstMoved
  <2> QED
    BY ONLY <2>5, <2>6
\* ... and nothing else is left or appears.
<1>12. ASSUME NEW q \in Workers, NEW k \in 0 .. Capacity[q] - 1,
              ~ Arrived(q, k, m + l), ~ Waits(q, k, m + l)
       PROVE  b[q][k] = Vacant
  <2>1. ~ writes(q, k)
    <3> SUFFICES ASSUME q = dst, k \in to .. to + l - 1 PROVE FALSE
      OBVIOUS
    <3>1. PICK j \in m .. m + l - 1 : k = Slot(dst, dst_pos + j)
      BY <1>7
    <3>2. j \in 0 .. (m + l) - 1
      OBVIOUS
    <3> QED
      BY <1>12, <3>1, <3>2 DEF Arrived
  <2>2. CASE reads(q, k)
    <3> HIDE DEF reads, writes
    <3> QED
      BY <1>5, <2>1, <2>2
  <2>3. CASE ~ reads(q, k)
    <3>1. b[q][k] = buffer[q][k]
      <4> HIDE DEF reads, writes
      <4> QED
        BY <1>5, <2>1, <2>3
    <3>2. ~ Arrived(q, k, m)
      <4> SUFFICES ASSUME q = dst, NEW j \in 0 .. m - 1, k = Slot(dst, dst_pos + j) PROVE FALSE
        BY DEF Arrived
      <4>1. j \in 0 .. (m + l) - 1
        OBVIOUS
      <4> QED
        BY <1>12, <4>1 DEF Arrived
    <3>3. ~ Waits(q, k, m)
      <4> SUFFICES ASSUME q = src, NEW j \in m .. count - 1, k = Slot(src, src_pos + j) PROVE FALSE
        BY DEF Waits
      <4>1. CASE j \in m + l .. count - 1
        BY <1>12, <4>1 DEF Waits
      <4>2. CASE j \in m .. m + l - 1
        <5>1. k = from + (j - m) /\ k \in from .. from + l - 1
          BY <4>2
        <5> QED
          BY <2>3, <5>1
      <4> QED
        BY <1>1, <4>1, <4>2
    <3> QED
      BY <3>1, <3>2, <3>3 DEF FirstMoved
  <2> QED
    BY <2>2, <2>3
<1>13. \A j \in 0 .. (m + l) - 1 : b[dst][Slot(dst, dst_pos + j)] = j + 1
  <2>1. \A j \in 0 .. (m + l) - 1 : j \in 0 .. m - 1 \/ j \in m .. m + l - 1
    OBVIOUS
  <2> QED
    BY <1>9, <1>10, <2>1
<1>14. /\ \A q, k : Arrived(q, k, m + l)' <=> Arrived(q, k, m + l)
       /\ \A q, k : Waits(q, k, m + l)' <=> Waits(q, k, m + l)
  BY <1>1 DEF Arrived, Waits
<1>15. IsBuffer(buffer)'
  BY <1>4 DEF IsBuffer, b
<1> QED
  BY <1>1, <1>11, <1>12, <1>13, <1>14, <1>15 DEF FirstMoved, b

-----------------------------------------------------------------------------
(* Every step *)

LEMMA InitIsSound == Init => CopyInv
<1> SUFFICES ASSUME Init PROVE CopyInv
  OBVIOUS
<1>1. /\ src \in Workers /\ dst \in Workers /\ src_pos \in Nat /\ dst_pos \in Nat
      /\ Room(src, dst, src_pos, dst_pos, count)
  BY ChunkAssumption DEF Init
<1>2. count \in Nat
  BY <1>1, CapacityFacts DEF Init
<1>3. ArgTypes
  BY <1>1, <1>2 DEF ArgTypes
<1>4. /\ buffer = Fresh(src, src_pos, count)
      /\ pc = "start" /\ chunk = 1 /\ i = 0
  BY DEF Init
<1>5. FirstMoved(buffer, 0)
  BY <1>3, <1>4, FreshCells
<1> QED
  BY <1>3, <1>4, <1>5 DEF CopyInv

\* The arguments stay, and the chunks with them.
LEMMA ArgsStay ==
    ASSUME ArgTypes, UNCHANGED args
    PROVE  /\ ArgTypes' /\ Chunks' = Chunks
           /\ Size(chunk)' = Size(chunk') /\ Begin(chunk)' = Begin(chunk')
           /\ count' = count
<1>1. src' = src /\ dst' = dst /\ src_pos' = src_pos /\ dst_pos' = dst_pos /\ count' = count
  BY DEF args
<1>2. ArgTypes'
  BY <1>1 DEF ArgTypes, Room
<1>3. Chunks' = Chunks
  BY <1>1 DEF Chunks, src_idx, dst_idx
<1>4. Size(chunk)' = Size(chunk') /\ Begin(chunk)' = Begin(chunk')
  BY <1>3 DEF Size, Begin
<1> QED
  BY <1>1, <1>2, <1>3, <1>4

\* A transfer of one item, or of none.
LEMMA SingleKeeps ==
    ASSUME CopyInv, Single
    PROVE  CopyInv'
<1>1. /\ ArgTypes /\ chunk = 1 /\ i = 0 /\ FirstMoved(buffer, 0) /\ count \in Nat
  BY DEF CopyInv, Single, ArgTypes
<1>2. UNCHANGED args /\ chunk' = chunk /\ i' = i /\ pc' = "done" /\ count <= 1
  BY DEF Single
<1>3. ArgTypes' /\ count' = count
  BY <1>1, <1>2, ArgsStay
<1>4. CASE count = 1
  <2>1. PICK from \in Int, to \in Int : from = src_idx /\ to = dst_idx
    BY <1>1, ArgFacts
  <2>2. Move(from, to, 1)
    BY <1>4, <2>1 DEF Single
  <2>3. /\ src_pos \in Int /\ dst_pos \in Int
    BY <1>1 DEF ArgTypes
  <2>4. \A j \in 0 .. 0 + 1 - 1 : /\ Slot(src, src_pos + j) = from + (j - 0)
                                  /\ Slot(dst, dst_pos + j) = to + (j - 0)
    BY <2>1, <2>3 DEF src_idx, dst_idx
  <2>5. 0 + 1 <= count
    BY <1>4
  <2>6. FirstMoved(buffer, 0 + 1)'
    BY ONLY <1>1, <1>2, <2>2, <2>4, <2>5, MoveCopies
  <2>7. count' = 0 + 1
    BY <1>3, <1>4
  <2>8. FirstMoved(buffer, count)'
    BY <2>6, <2>7
  <2> QED
    BY <1>1, <1>2, <1>3, <2>8 DEF CopyInv
<1>5. CASE count = 0
  <2>1. buffer' = buffer
    BY <1>5 DEF Single
  <2>2. FirstMoved(buffer, 0)'
    BY <1>1, <1>2, <2>1 DEF FirstMoved, Arrived, Waits, args
  <2>3. FirstMoved(buffer, count)'
    BY <1>3, <1>5, <2>2
  <2> QED
    BY <1>1, <1>2, <1>3, <2>3 DEF CopyInv
<1> QED
  BY <1>1, <1>2, <1>4, <1>5

LEMMA StartKeeps ==
    ASSUME CopyInv, Start
    PROVE  CopyInv'
<1>1. /\ ArgTypes /\ chunk = 1 /\ i = 0 /\ FirstMoved(buffer, 0) /\ count \in Nat
  BY DEF CopyInv, Start, ArgTypes
<1>2. UNCHANGED args /\ buffer' = buffer /\ chunk' = chunk /\ i' = i /\ pc' = "chunks"
  BY DEF Start
<1>3. ArgTypes' /\ Size(chunk)' = Size(chunk') /\ Begin(chunk)' = Begin(chunk')
  BY <1>1, <1>2, ArgsStay
<1>4. Size(1) \in Nat /\ Begin(1) = 0
  BY <1>1, ChunkShape
<1>5. FirstMoved(buffer, 0)'
  BY <1>1, <1>2 DEF FirstMoved, Arrived, Waits, args
<1>6. (Begin(chunk) + i)' = 0
  BY <1>1, <1>2, <1>3, <1>4
<1>7. FirstMoved(buffer, Begin(chunk) + i)'
  BY <1>5, <1>6
<1> QED
  BY <1>1, <1>2, <1>3, <1>4, <1>7 DEF CopyInv

\* Part of a chunk: the next l items of it.
LEMMA CopyKeeps ==
    ASSUME CopyInv, pc = "chunks", NEW l \in Nat \ {0}, i + l <= Size(chunk),
           Size(chunk) > SmallChunk => i + l = Size(chunk),
           Move(SrcChunk(chunk) + i, DstChunk(chunk) + i, l),
           i' = i + l, UNCHANGED <<args, pc, chunk>>
    PROVE  CopyInv'
<1>1. /\ ArgTypes /\ chunk \in 1 .. 3 /\ i \in Nat /\ FirstMoved(buffer, Begin(chunk) + i)
  BY DEF CopyInv
<1>2. /\ count \in Nat /\ Begin(chunk) \in 0 .. count /\ End(chunk) \in 0 .. count
      /\ Size(chunk) = End(chunk) - Begin(chunk)
  BY <1>1, ChunkShape DEF ArgTypes
<1>3. UNCHANGED args
  OBVIOUS
<1>4. ArgTypes' /\ Size(chunk)' = Size(chunk') /\ Begin(chunk)' = Begin(chunk')
  BY <1>1, <1>3, ArgsStay
<1>5. Begin(chunk) < End(chunk) /\ SrcChunk(chunk) \in Int /\ DstChunk(chunk) \in Int
  <2>1. /\ src_pos + Begin(chunk) \in Int /\ dst_pos + Begin(chunk) \in Int
        /\ src \in Workers /\ dst \in Workers
    BY <1>1, <1>2 DEF ArgTypes
  <2>2. /\ SrcChunk(chunk) \in 0 .. Capacity[src] - 1 /\ DstChunk(chunk) \in 0 .. Capacity[dst] - 1
    BY ONLY <1>1, <2>1, ChunkStart, SlotType
  <2> QED
    BY <1>1, <1>2, <2>2
<1>6. PICK m \in Nat, from \in Int, to \in Int :
        m = Begin(chunk) + i /\ from = SrcChunk(chunk) + i /\ to = DstChunk(chunk) + i
  BY <1>1, <1>2, <1>5
<1>7. \A j \in m .. m + l - 1 : /\ Slot(src, src_pos + j) = from + (j - m)
                                /\ Slot(dst, dst_pos + j) = to + (j - m)
  <2> SUFFICES ASSUME NEW j \in m .. m + l - 1
               PROVE  /\ Slot(src, src_pos + j) = from + (j - m)
                      /\ Slot(dst, dst_pos + j) = to + (j - m)
    OBVIOUS
  <2>1. j \in Begin(chunk) .. End(chunk) - 1
    BY <1>1, <1>2, <1>6
  <2>2. /\ Slot(src, src_pos + j) = SrcChunk(chunk) + (j - Begin(chunk))
        /\ Slot(dst, dst_pos + j) = DstChunk(chunk) + (j - Begin(chunk))
    BY <1>1, <1>5, <2>1, ChunkSlots
  <2> QED
    BY <1>1, <1>2, <1>5, <1>6, <2>2
<1>8. m + l <= count
  BY <1>1, <1>2, <1>6
<1>9. FirstMoved(buffer, m) /\ Move(from, to, l)
  BY <1>1, <1>6
<1>10. l \in Nat
  OBVIOUS
<1>11. FirstMoved(buffer, m + l)'
  BY ONLY <1>1, <1>3, <1>6, <1>7, <1>8, <1>9, <1>10, MoveCopies
<1>12. (Begin(chunk) + i)' = m + l
  BY <1>1, <1>2, <1>4, <1>6
<1>13. FirstMoved(buffer, Begin(chunk) + i)'
  BY <1>11, <1>12
<1>14. (Size(chunk) > SmallChunk => i \in {0, Size(chunk)})'
  BY <1>4
<1> QED
  BY <1>1, <1>4, <1>13, <1>14 DEF CopyInv

\* The end of a chunk is the beginning of the next.
LEMMA NextChunkKeeps ==
    ASSUME CopyInv, NextChunk
    PROVE  CopyInv'
<1>1. /\ ArgTypes /\ chunk \in 1 .. 3 /\ i \in Nat /\ FirstMoved(buffer, Begin(chunk) + i)
      /\ i = Size(chunk)
  BY DEF CopyInv, NextChunk
<1>2. UNCHANGED args /\ buffer' = buffer /\ i' = 0
  BY DEF NextChunk
<1>3. ArgTypes' /\ Size(chunk)' = Size(chunk') /\ Begin(chunk)' = Begin(chunk') /\ count' = count
  BY <1>1, <1>2, ArgsStay
<1>4. count \in Nat
  BY <1>1 DEF ArgTypes
<1>5. \A c \in 1 .. 3 : Begin(c) \in Nat /\ End(c) \in Nat /\ Size(c) \in Nat /\ Begin(c) + Size(c) = End(c)
  BY <1>1, <1>4, ChunkShape
<1>6. FirstMoved(buffer, End(chunk))
  BY <1>1, <1>5
<1>7. PICK m : m = End(chunk)
  OBVIOUS
<1>8. FirstMoved(buffer, m)'
  BY <1>2, <1>6, <1>7 DEF FirstMoved, Arrived, Waits, args
<1>9. CASE chunk < 3
  <2>1. chunk' = chunk + 1 /\ pc' = "chunks" /\ chunk' \in 1 .. 3
    BY <1>1, <1>9 DEF NextChunk
  <2>2. Begin(chunk') = End(chunk)
    <3>1. Begin(2) = End(1) /\ Begin(3) = End(2)
      BY <1>1, ChunkShape
    <3> QED
      BY <1>1, <1>9, <2>1, <3>1
  <2>3. (Begin(chunk) + i)' = m
    BY <1>2, <1>3, <1>5, <1>7, <2>1, <2>2
  <2>4. FirstMoved(buffer, Begin(chunk) + i)'
    BY <1>8, <2>3
  <2>5. Size(chunk') \in Nat
    BY <1>5, <2>1
  <2> QED
    BY <1>2, <1>3, <2>1, <2>4, <2>5 DEF CopyInv
<1>10. CASE ~ (chunk < 3)
  <2>1. chunk' = 1 /\ pc' = "done" /\ chunk = 3
    BY <1>1, <1>10 DEF NextChunk
  <2>2. count' = m
    BY <1>1, <1>3, <1>7, <2>1, ChunkShape
  <2>3. FirstMoved(buffer, count)'
    BY <1>8, <2>2
  <2> QED
    BY <1>2, <1>3, <2>1, <2>3 DEF CopyInv
<1> QED
  BY <1>9, <1>10

LEMMA NextIsSound == CopyInv /\ [Next]_vars => CopyInv'
<1> SUFFICES ASSUME CopyInv, [Next]_vars PROVE CopyInv'
  OBVIOUS
<1>1. CASE Single
  BY <1>1, SingleKeeps
<1>2. CASE Start
  BY <1>2, StartKeeps
<1>3. ArgTypes /\ chunk \in 1 .. 3 /\ i \in Nat
  BY DEF CopyInv
<1>4. Size(chunk) \in Nat /\ SrcChunk(chunk) \in Int /\ DstChunk(chunk) \in Int
  <2>1. Size(chunk) \in Nat /\ Begin(chunk) \in Nat
    BY <1>3, ChunkShape DEF ArgTypes
  <2>2. /\ src_pos + Begin(chunk) \in Int /\ dst_pos + Begin(chunk) \in Int
        /\ src \in Workers /\ dst \in Workers
    BY <1>3, <2>1 DEF ArgTypes
  <2>3. /\ SrcChunk(chunk) \in 0 .. Capacity[src] - 1 /\ DstChunk(chunk) \in 0 .. Capacity[dst] - 1
    BY ONLY <1>3, <2>2, ChunkStart, SlotType
  <2> QED
    BY <2>1, <2>3
<1>5. CASE CopyItem
  <2>1. /\ pc = "chunks" /\ Size(chunk) <= SmallChunk /\ i < Size(chunk)
        /\ Move(SrcChunk(chunk) + i, DstChunk(chunk) + i, 1)
        /\ i' = i + 1 /\ UNCHANGED <<args, pc, chunk>>
    BY <1>5 DEF CopyItem
  <2>2. i + 1 <= Size(chunk) /\ (Size(chunk) > SmallChunk => i + 1 = Size(chunk))
    BY <1>3, <1>4, <2>1, ChunkAssumption
  <2>3. 1 \in Nat \ {0}
    OBVIOUS
  <2> QED
    BY ONLY CopyInv, <2>1, <2>2, <2>3, CopyKeeps
<1>6. CASE CopyBulk
  <2>1. /\ pc = "chunks" /\ Size(chunk) > SmallChunk /\ i < Size(chunk)
        /\ Move(SrcChunk(chunk), DstChunk(chunk), Size(chunk))
        /\ i' = Size(chunk) /\ UNCHANGED <<args, pc, chunk>>
    BY <1>6 DEF CopyBulk
  <2>2. i = 0
    BY <1>4, <2>1 DEF CopyInv
  <2>3. PICK l \in Nat \ {0} : l = Size(chunk)
    BY <1>3, <1>4, <2>1
  <2>4. /\ i + l <= Size(chunk) /\ (Size(chunk) > SmallChunk => i + l = Size(chunk))
        /\ i' = i + l
    BY <2>1, <2>2, <2>3
  <2>5. SrcChunk(chunk) + i = SrcChunk(chunk) /\ DstChunk(chunk) + i = DstChunk(chunk)
    BY <1>4, <2>2
  <2>6. Move(SrcChunk(chunk) + i, DstChunk(chunk) + i, l)
    BY ONLY <2>1, <2>3, <2>5
  <2> QED
    BY ONLY CopyInv, <2>1, <2>3, <2>4, <2>6, CopyKeeps
<1>7. CASE NextChunk
  BY <1>7, NextChunkKeeps
<1>8. CASE UNCHANGED vars
  <2>1. /\ UNCHANGED args /\ buffer' = buffer /\ chunk' = chunk /\ i' = i /\ pc' = pc
    BY <1>8 DEF vars
  <2>2. ArgTypes' /\ Size(chunk)' = Size(chunk') /\ Begin(chunk)' = Begin(chunk') /\ count' = count
    BY <1>3, <2>1, ArgsStay
  <2>3. ASSUME NEW m, FirstMoved(buffer, m) PROVE FirstMoved(buffer, m)'
    BY <2>1, <2>3 DEF FirstMoved, Arrived, Waits, args
  <2>4. ASSUME pc = "start" PROVE FirstMoved(buffer, 0)'
    BY <2>3, <2>4 DEF CopyInv
  <2>5. ASSUME pc = "chunks" PROVE FirstMoved(buffer, Begin(chunk) + i)'
    <3>1. PICK m : m = Begin(chunk) + i
      OBVIOUS
    <3>2. FirstMoved(buffer, m)'
      BY <2>3, <2>5, <3>1 DEF CopyInv
    <3>3. (Begin(chunk) + i)' = m
      BY <2>1, <2>2, <3>1
    <3> QED
      BY <3>2, <3>3
  <2>6. ASSUME pc = "done" PROVE FirstMoved(buffer, count)'
    <3>1. PICK m : m = count
      OBVIOUS
    <3>2. FirstMoved(buffer, m)'
      BY <2>3, <2>6, <3>1 DEF CopyInv
    <3> QED
      BY <2>2, <3>1, <3>2
  <2> QED
    BY <2>1, <2>2, <2>4, <2>5, <2>6 DEF CopyInv
<1> QED
  BY <1>1, <1>2, <1>5, <1>6, <1>7, <1>8 DEF Next

THEOREM Invariance == Spec => []CopyInv
<1> QED
  BY InitIsSound, NextIsSound, PTL DEF Spec

\* No chunk runs over the end of either buffer (transfer_items).
THEOREM ChunksStayInBounds == Spec => []ChunksInBounds
<1>1. CopyInv => ChunksInBounds
  BY BoundsFollow DEF CopyInv
<1> QED
  BY <1>1, Invariance, PTL

\* In a steal of a queue from itself no slot is read and written, as copy_nonoverlapping
\* requires (transfer_items, and the debug assertion of Stealer::steal).
THEOREM ChunksStayDisjoint == Spec => []ChunksDisjoint
<1>1. CopyInv => ChunksDisjoint
  BY DisjointFollow DEF CopyInv
<1> QED
  BY <1>1, Invariance, PTL

-----------------------------------------------------------------------------
(* The copy item by item *)

\* Every item copied, the buffers are those that transfer_items_scalar leaves.
LEMMA ScalarFollows ==
    ASSUME ArgTypes, FirstMoved(buffer, count)
    PROVE  buffer = LET before == Fresh(src, src_pos, count)
                    IN  Written(MovedOut(before, src, src_pos, count),
                                dst, dst_pos, Items(before, src, src_pos, count))
<1> DEFINE before == Fresh(src, src_pos, count)
           out == MovedOut(before, src, src_pos, count)
           items == Items(before, src, src_pos, count)
           after == Written(out, dst, dst_pos, items)
<1>1. /\ src \in Workers /\ dst \in Workers /\ src_pos \in Int /\ dst_pos \in Int
      /\ count \in Nat /\ count \in Int /\ count <= Capacity[dst]
  BY ArgFacts DEF ArgTypes
<1>2. BufferShape(before) /\ FirstMoved(before, 0)
  BY FreshCells
<1>3. after = [q \in Workers |-> [k \in 0 .. Capacity[q] - 1 |-> after[q][k]]]
  <2>1. before = [q \in Workers |-> [k \in 0 .. Capacity[q] - 1 |-> before[q][k]]]
    BY <1>2 DEF FirstMoved, IsBuffer
  <2> HIDE DEF before, items
  <2>2. out = [q \in Workers |-> [k \in 0 .. Capacity[q] - 1 |-> out[q][k]]]
    BY ONLY <1>1, <2>1 DEF MovedOut
  <2> HIDE DEF out
  <2> QED
    BY ONLY <1>1, <2>2 DEF Written
<1> HIDE DEF before, items, after, out
<1>4. /\ BufferShape(out)
      /\ \A q \in Workers : \A k \in 0 .. Capacity[q] - 1 :
            out[q][k] = IF q = src /\ k \in Slots(src, src_pos, count) THEN Vacant ELSE before[q][k]
  BY ONLY <1>1, <1>2, MovedOutCells DEF out
<1>5. \A j \in 0 .. count - 1 : before[src][Slot(src, src_pos + j)] = j + 1
  BY ONLY <1>2 DEF FirstMoved
<1>6. items \in [0 .. count - 1 -> Content] /\ \A j \in 0 .. count - 1 : items[j] = j + 1
  <2>1. items = [j \in 0 .. count - 1 |-> before[src][Slot(src, src_pos + j)]]
    BY DEF items, Items
  <2>2. \A j \in 0 .. count - 1 : j + 1 \in Content
    BY <1>1 DEF Content
  <2> QED
    BY ONLY <1>5, <2>1, <2>2
<1>7. FilledIn(after, out, dst, dst_pos, count, items)
  BY ONLY <1>1, <1>4, <1>6, WrittenCells DEF after
<1>8. ASSUME NEW q \in Workers, NEW k \in 0 .. Capacity[q] - 1
      PROVE  buffer[q][k] = after[q][k]
  <2>1. k \in Slots(src, src_pos, count) <=> \E j \in 0 .. count - 1 : k = Slot(src, src_pos + j)
    BY DEF Slots
  <2>2. k \in Slots(dst, dst_pos, count) <=> \E j \in 0 .. count - 1 : k = Slot(dst, dst_pos + j)
    BY DEF Slots
  <2>3. CASE q = dst /\ k \in Slots(dst, dst_pos, count)
    <3>1. PICK j \in 0 .. count - 1 : k = Slot(dst, dst_pos + j)
      BY <2>2, <2>3
    <3>2. after[dst][k] = j + 1
      BY <1>6, <1>7, <3>1 DEF FilledIn
    <3>3. buffer[dst][k] = j + 1
      BY <3>1 DEF FirstMoved
    <3> QED
      BY <2>3, <3>2, <3>3
  <2>4. CASE ~ (q = dst /\ k \in Slots(dst, dst_pos, count))
    <3>1. after[q][k] = out[q][k]
      BY <1>7, <2>4 DEF FilledIn
    <3>2. out[q][k] = Vacant
      <4>1. CASE q = src /\ k \in Slots(src, src_pos, count)
        BY <1>4, <4>1
      <4>2. CASE ~ (q = src /\ k \in Slots(src, src_pos, count))
        <5>1. ~ Waits(q, k, 0)
          BY <2>1, <4>2 DEF Waits
        <5>2. ~ Arrived(q, k, 0)
          BY DEF Arrived
        <5>3. before[q][k] = Vacant
          BY <1>2, <5>1, <5>2 DEF FirstMoved
        <5> QED
          BY <1>4, <4>2, <5>3
      <4> QED
        BY <4>1, <4>2
    <3>3. ~ Arrived(q, k, count)
      BY <2>2, <2>4 DEF Arrived
    <3>4. ~ Waits(q, k, count)
      BY <1>1 DEF Waits
    <3>5. buffer[q][k] = Vacant
      BY <3>3, <3>4 DEF FirstMoved
    <3> QED
      BY <3>1, <3>2, <3>5
  <2> QED
    BY <2>3, <2>4
<1>9. buffer = [q \in Workers |-> [k \in 0 .. Capacity[q] - 1 |-> buffer[q][k]]]
  BY DEF FirstMoved, IsBuffer
<1>10. [q \in Workers |-> [k \in 0 .. Capacity[q] - 1 |-> buffer[q][k]]]
         = [q \in Workers |-> [k \in 0 .. Capacity[q] - 1 |-> after[q][k]]]
  BY ONLY <1>8
<1>11. buffer = after
  BY ONLY <1>3, <1>9, <1>10
<1> QED
  BY <1>11 DEF after, out, items, before

\* "bulk_matches_scalar": the chunks, copied one by one or in bulk, leave what the copy item
\* by item leaves (transfer_items, transfer_items_scalar).
THEOREM BulkCopyIsScalar == Spec => []BulkMatchesScalar
<1>1. CopyInv => BulkMatchesScalar
  BY ScalarFollows DEF CopyInv, BulkMatchesScalar
<1> QED
  BY <1>1, Invariance, PTL
=============================================================================
