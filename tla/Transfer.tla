------------------------------ MODULE Transfer ------------------------------
(***************************************************************************)
(* transfer_items of src/transfer.rs: the copy of booked items from one    *)
(* ring to another, or from a ring to itself, in chunks that are           *)
(* contiguous in both rings.  The queue models take it as one step (Copy); *)
(* here are its steps.                                                     *)
(***************************************************************************)
EXTENDS Ring

CONSTANTS
    SmallChunk,     \* SMALL_CHUNK: longer chunks are copied in bulk
    MaxPosition     \* bound: highest position a transfer starts from

ASSUME ChunkAssumption == SmallChunk \in Nat /\ MaxPosition \in Nat

VARIABLES
    buffer,     \* the slots of the rings
    src, dst,   \* the source ring and the destination ring
    src_pos, dst_pos, count,    \* the arguments of the call
    pc,         \* "start", "chunks", "done"
    chunk,      \* number of the chunk being copied: 1, 2 or 3
    i           \* items of that chunk copied already

args == <<src, dst, src_pos, dst_pos, count>>
vars == <<buffer, args, pc, chunk, i>>

-----------------------------------------------------------------------------

\* Mutant: one slot too many is taken for free.
MutRoom(s, d, from, to, n) ==
    /\ n <= Capacity[s] /\ n <= Capacity[d]
    /\ s = d => from + n <= to /\ to + n <= from + Capacity[d] + 1

(* What steal and steal_and_pop have established when they call: the       *)
(* destination has room for the booked items before its own head.  A queue *)
(* that steals from itself has the booked items at its head and at least   *)
(* these items in use.                                                     *)
Room(s, d, from, to, n) ==
    /\ n <= Capacity[s] /\ n <= Capacity[d]
    /\ s = d => from + n <= to /\ to + n <= from + Capacity[d]

Fresh(s, from, n) ==
    [q \in Workers |-> [k \in 0 .. Capacity[q] - 1 |->
        IF q = s /\ k \in Slots(s, from, n)
        THEN 1 + (CHOOSE j \in 0 .. n - 1 : k = Slot(s, from + j))
        ELSE Vacant]]

Init ==
    /\ src \in Workers /\ dst \in Workers
    /\ src_pos \in 0 .. MaxPosition /\ dst_pos \in 0 .. MaxPosition
    /\ count \in 0 .. Capacity[src]
    /\ Room(src, dst, src_pos, dst_pos, count)
    /\ buffer = Fresh(src, src_pos, count)
    /\ pc = "start" /\ chunk = 1 /\ i = 0

src_idx == Slot(src, src_pos)
dst_idx == Slot(dst, dst_pos)

\* dst[to] := src[from], for n slots; the source slots are given up.
Move(from, to, n) ==
    buffer' = [q \in Workers |-> [k \in DOMAIN buffer[q] |->
        CASE q = dst /\ k \in to .. to + n - 1 -> buffer[src][from + (k - to)]
          [] q = src /\ k \in from .. from + n - 1
               /\ ~ (q = dst /\ k \in to .. to + n - 1) -> Vacant
          [] OTHER -> buffer[q][k]]]

\* At most one item: no chunks.
Single ==
    /\ pc = "start" /\ count <= 1
    /\ IF count = 1 THEN Move(src_idx, dst_idx, 1) ELSE UNCHANGED buffer
    /\ pc' = "done"
    /\ UNCHANGED <<args, chunk, i>>

Start ==
    /\ pc = "start" /\ count > 1
    /\ pc' = "chunks"
    /\ UNCHANGED <<buffer, args, chunk, i>>

\* Mutant: only the wrap point of the source cuts the items.
MutChunks ==
    LET s == Least(Capacity[src] - src_idx, count)
    IN  << <<0, s>>, <<s, s>>, <<s, count>> >>

(* The runs before the wrap point of each ring, sorted, cut the items into *)
(* three chunks <<start, end>>, some of them empty.                        *)
Chunks ==
    LET s == Least(Capacity[src] - src_idx, count)
        d == Least(Capacity[dst] - dst_idx, count)
        lo == IF s <= d THEN s ELSE d
        hi == IF s <= d THEN d ELSE s
    IN  << <<0, lo>>, <<lo, hi>>, <<hi, count>> >>

Size(c) == Chunks[c][2] - Chunks[c][1]
SrcChunk(c) == (src_idx + Chunks[c][1]) % Capacity[src]

\* Mutant: the index of the source.
MutDstChunk(c) == (src_idx + Chunks[c][1]) % Capacity[dst]

DstChunk(c) == (dst_idx + Chunks[c][1]) % Capacity[dst]

\* The inline loop: item by item.
CopyItem ==
    /\ pc = "chunks" /\ Size(chunk) <= SmallChunk /\ i < Size(chunk)
    /\ Move(SrcChunk(chunk) + i, DstChunk(chunk) + i, 1)
    /\ i' = i + 1
    /\ UNCHANGED <<args, pc, chunk>>

\* ptr::copy_nonoverlapping
CopyBulk ==
    /\ pc = "chunks" /\ Size(chunk) > SmallChunk /\ i < Size(chunk)
    /\ Move(SrcChunk(chunk), DstChunk(chunk), Size(chunk))
    /\ i' = Size(chunk)
    /\ UNCHANGED <<args, pc, chunk>>

\* The next chunk; an empty one is skipped.
NextChunk ==
    /\ pc = "chunks" /\ i = Size(chunk)
    /\ i' = 0
    /\ IF chunk < 3 THEN chunk' = chunk + 1 /\ UNCHANGED pc
                    ELSE chunk' = 1 /\ pc' = "done"
    /\ UNCHANGED <<buffer, args>>

Next == Single \/ Start \/ CopyItem \/ CopyBulk \/ NextChunk

Spec == Init /\ [][Next]_vars
-----------------------------------------------------------------------------
(* Properties *)

(* No chunk runs over the end of either buffer: base pointer plus length   *)
(* stays within the slots, on both sides at once, for every wrap point.    *)
ChunksInBounds ==
    pc = "chunks" =>
        \A c \in 1 .. 3 : Size(c) > 0 =>
            /\ SrcChunk(c) + Size(c) <= Capacity[src]
            /\ DstChunk(c) + Size(c) <= Capacity[dst]

(* The debug assertion for self-stealing: no slot that is read is written, *)
(* as copy_nonoverlapping requires.                                        *)
ChunksDisjoint ==
    pc = "chunks" /\ src = dst =>
        \A a, b \in 1 .. 3 :
            SrcChunk(a) + Size(a) <= DstChunk(b) \/ DstChunk(b) + Size(b) <= SrcChunk(a)

(* bulk_matches_scalar: whatever the wrap points, the chunks leave exactly *)
(* what the per-element transfer_items_scalar leaves, which is what the    *)
(* action Copy of the queue models says: every item at its new position,   *)
(* in order, no other slot touched.                                        *)
BulkMatchesScalar ==
    pc = "done" =>
        buffer = LET before == Fresh(src, src_pos, count)
                 IN  Written(MovedOut(before, src, src_pos, count),
                             dst, dst_pos, Items(before, src, src_pos, count))
=============================================================================
