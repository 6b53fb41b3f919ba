------------------------------ MODULE Injector ------------------------------
(***************************************************************************)
(* The unbounded multi-producer multi-consumer queue of                    *)
(* src/fanout/injector.rs: linked blocks of BLOCK_CAP slots, a head and a  *)
(* tail ticket, and blocks that the last reader frees.                     *)
(*                                                                         *)
(* One action is one access to shared memory.  Positions count slots; the  *)
(* one position per lap that has no slot stands for "the next block is     *)
(* being installed".  Memory is sequentially consistent and the 63-bit     *)
(* positions do not wrap.                                                  *)
(***************************************************************************)
EXTENDS Integers, Sequences, FiniteSets

CONSTANTS
    Threads,
    LAP,
    Values,     \* what is pushed
    Scripts,    \* the workloads considered: s[t] holds the calls t makes, in order
    None

ASSUME LapAssumption == LAP \in Nat /\ LAP >= 2

Calls == [op : {"push"}, value : Values] \cup [op : {"pop", "is_empty", "len"}]

ASSUME ScriptsAssumption == None \notin Values /\ Scripts \subseteq [Threads -> Seq(Calls)]

BLOCK_CAP == LAP - 1
Null == 0

VARIABLES
    tail, tail_block,   \* tail.index and tail.block
    head, head_block,   \* head.index and head.block
    heap,       \* heap[b]: the block at address b, addresses are never reused
    pc,         \* pc[t]: the access t makes next
    loc,        \* loc[t]: the locals of t's call
    script,     \* script[t]: the calls t has yet to make
    gone,       \* the queue has been dropped
    dropped,    \* the values the drop released
    order,      \* history: the values in the order of their tickets
    truth       \* history: truth[t] is the length when `len` read head

positions == <<tail, tail_block, head, head_block>>
history == <<order, truth>>
others == <<script, gone, dropped, history>>
vars == <<positions, heap, pc, loc, others>>

(* An index is a position shifted by SHIFT = 1; head's lowest bit is       *)
(* HAS_NEXT.                                                               *)
Pos(index) == index \div 2
HasNext(index) == index % 2 = 1
Slot0(index) == Pos(index) % LAP
Lap(index) == Pos(index) \div LAP
WithNext(index) == IF HasNext(index) THEN index ELSE index + 1
WithoutNext(index) == IF HasNext(index) THEN index - 1 ELSE index

Boundary(index) == Slot0(index) = BLOCK_CAP
LastSlot(index) == Slot0(index) + 1 = BLOCK_CAP

Slots == 0 .. BLOCK_CAP - 1

\* Block::new: all zero.
NewBlock == [next |-> Null, freed |-> FALSE,
             state |-> [i \in Slots |-> {}], value |-> [i \in Slots |-> None]]
FreedBlock == [NewBlock EXCEPT !.freed = TRUE]

(* The locals: the index and the block loaded last, the second index the   *)
(* operation computes or loads, the next block, the cursor of `destroy`,   *)
(* the value pushed or popped, and whether a spare block is at hand.       *)
NoLocals == [index |-> 0, block |-> Null, other |-> 0, next |-> Null, cursor |-> 0,
             value |-> None, spare |-> FALSE]

\* Injector::new.
Init ==
    /\ tail = 0 /\ head = 0 /\ tail_block = Null /\ head_block = Null
    /\ heap = <<>>
    /\ pc = [t \in Threads |-> "idle"]
    /\ loc = [t \in Threads |-> NoLocals]
    /\ script \in Scripts
    /\ gone = FALSE /\ dropped = <<>>
    /\ order = <<>> /\ truth = [t \in Threads |-> 0]

Goto(t, step) == pc' = [pc EXCEPT ![t] = step]

\* A thread begins the next call of its script, and returns from it.
Begin(t, op, step) ==
    /\ pc[t] = "idle" /\ ~ gone /\ script[t] # <<>> /\ Head(script[t]).op = op
    /\ script' = [script EXCEPT ![t] = Tail(@)]
    /\ Goto(t, step)
Return(t) == Goto(t, "idle") /\ loc' = [loc EXCEPT ![t] = NoLocals]

\* The slot that t holds a ticket for, or that its cursor is on.
SetBit(t, i, bit) == heap' = [heap EXCEPT ![loc[t].block].state[i] = @ \cup {bit}]
Bits(t, i) == heap[loc[t].block].state[i]

-----------------------------------------------------------------------------
(* push *)

CallPush(t) ==
    /\ Begin(t, "push", "push_index")
    /\ loc' = [loc EXCEPT ![t].value = Head(script[t]).value]
    /\ UNCHANGED <<positions, heap, gone, dropped, history>>

LoadTail(t) ==
    /\ pc[t] = "push_index"
    /\ loc' = [loc EXCEPT ![t].index = tail]
    /\ Goto(t, "push_block")
    /\ UNCHANGED <<positions, heap, others>>

(* On the boundary a producer is installing the next block: again.  Before *)
(* the last slot of a block a spare one is allocated.                      *)
LoadTailBlock(t) ==
    /\ pc[t] = "push_block"
    /\ \/ /\ Boundary(loc[t].index)
          /\ loc' = [loc EXCEPT ![t].index = 0, ![t].block = Null]
          /\ Goto(t, "push_index")
       \/ /\ ~ Boundary(loc[t].index)
          /\ loc' = [loc EXCEPT ![t].block = tail_block, ![t].spare = @ \/ LastSlot(loc[t].index)]
          /\ Goto(t, IF tail_block = Null THEN "push_first" ELSE "push_cas")
    /\ UNCHANGED <<positions, heap, others>>

\* The first block of all is installed by whoever comes first.
InstallFirst(t) ==
    /\ pc[t] = "push_first"
    /\ \/ /\ tail_block = Null
          /\ heap' = Append(heap, NewBlock)
          /\ tail_block' = Len(heap')
          /\ loc' = [loc EXCEPT ![t].block = Len(heap')]
          /\ Goto(t, "push_head")
       \/ /\ tail_block # Null
          /\ loc' = [loc EXCEPT ![t].index = 0, ![t].spare = TRUE]
          /\ Goto(t, "push_index")
          /\ UNCHANGED <<heap, tail_block>>
    /\ UNCHANGED <<tail, head, head_block, others>>

PublishFirst(t) ==
    /\ pc[t] = "push_head"
    /\ head_block' = loc[t].block
    /\ Goto(t, "push_cas")
    /\ UNCHANGED <<tail, tail_block, head, heap, loc, others>>

\* The compare-exchange of tail.index: t gets the ticket for its slot ...
TakeTailTicket(t) ==
    /\ pc[t] = "push_cas" /\ tail = loc[t].index
    /\ tail' = tail + 2
    /\ order' = Append(order, loc[t].value)
    /\ Goto(t, IF LastSlot(loc[t].index) THEN "push_next" ELSE "push_write")
    /\ UNCHANGED <<tail_block, head, head_block, heap, loc, script, gone, dropped, truth>>

\* ... or has to look again.
LoseTailTicket(t) ==
    /\ pc[t] = "push_cas" /\ tail # loc[t].index
    /\ loc' = [loc EXCEPT ![t].index = tail]
    /\ Goto(t, "push_block")
    /\ UNCHANGED <<positions, heap, others>>

\* With the last slot of a block comes the duty to install the next one.
InstallNext(t) ==
    /\ pc[t] = "push_next"
    /\ heap' = Append(heap, NewBlock)
    /\ tail_block' = Len(heap')
    /\ loc' = [loc EXCEPT ![t].next = Len(heap'), ![t].spare = FALSE]
    /\ Goto(t, "push_tail")
    /\ UNCHANGED <<tail, head, head_block, others>>

SkipBoundary(t) ==
    /\ pc[t] = "push_tail"
    /\ tail' = loc[t].index + 4
    /\ Goto(t, "push_link")
    /\ UNCHANGED <<tail_block, head, head_block, heap, loc, others>>

LinkNext(t) ==
    /\ pc[t] = "push_link"
    /\ heap' = [heap EXCEPT ![loc[t].block].next = loc[t].next]
    /\ Goto(t, "push_write")
    /\ UNCHANGED <<positions, loc, others>>

WriteValue(t) ==
    /\ pc[t] = "push_write"
    /\ heap' = [heap EXCEPT ![loc[t].block].value[Slot0(loc[t].index)] = loc[t].value]
    /\ Goto(t, "push_ready")
    /\ UNCHANGED <<positions, loc, others>>

\* Mutant: WRITE is not set.
MutMarkWritten(t) == pc[t] = "push_ready" /\ Return(t) /\ UNCHANGED <<positions, heap, others>>

\* WRITE is set and the call returns, an unused spare block is dropped.
MarkWritten(t) ==
    /\ pc[t] = "push_ready"
    /\ SetBit(t, Slot0(loc[t].index), "WRITE")
    /\ Return(t)
    /\ UNCHANGED <<positions, others>>

-----------------------------------------------------------------------------
(* pop *)

CallPop(t) ==
    /\ Begin(t, "pop", "pop_index")
    /\ UNCHANGED <<positions, heap, loc, gone, dropped, history>>

Again(t) == Goto(t, "pop_index") /\ loc' = [loc EXCEPT ![t] = NoLocals]

LoadHead(t) ==
    /\ pc[t] = "pop_index"
    /\ loc' = [loc EXCEPT ![t].index = head]
    /\ Goto(t, "pop_block")
    /\ UNCHANGED <<positions, heap, others>>

(* With HAS_NEXT there is something to pop and the tail is not looked at.  *)
(* Without a block the first push is still installing it: again.           *)
LoadHeadBlock(t) ==
    /\ pc[t] = "pop_block"
    /\ LET index == loc[t].index IN
       \/ /\ Boundary(index) \/ (HasNext(index) /\ head_block = Null)
          /\ Again(t)
       \/ /\ ~ Boundary(index) /\ (HasNext(index) => head_block # Null)
          /\ loc' = [loc EXCEPT ![t].block = head_block, ![t].other = index + 2]
          /\ Goto(t, IF HasNext(index) THEN "pop_cas" ELSE "pop_tail")
    /\ UNCHANGED <<positions, heap, others>>

LookAtTail(t) ==
    /\ pc[t] = "pop_tail"
    /\ LET index == loc[t].index IN
       \/ /\ Pos(index) = Pos(tail)
          /\ Return(t)
       \/ /\ Pos(index) # Pos(tail) /\ loc[t].block = Null
          /\ Again(t)
       \/ /\ Pos(index) # Pos(tail) /\ loc[t].block # Null
          /\ loc' = [loc EXCEPT ![t].other = IF Lap(index) # Lap(tail) THEN WithNext(@) ELSE @]
          /\ Goto(t, "pop_cas")
    /\ UNCHANGED <<positions, heap, others>>

TakeHeadTicket(t) ==
    /\ pc[t] = "pop_cas" /\ head = loc[t].index
    /\ head' = loc[t].other
    /\ Goto(t, IF LastSlot(loc[t].index) THEN "pop_wait" ELSE "pop_value")
    /\ UNCHANGED <<tail, tail_block, head_block, heap, loc, others>>

LoseHeadTicket(t) ==
    /\ pc[t] = "pop_cas" /\ head # loc[t].index
    /\ loc' = [loc EXCEPT ![t].index = head]
    /\ Goto(t, "pop_block")
    /\ UNCHANGED <<positions, heap, others>>

\* With the last slot comes the duty to move the head to the next block: wait_next ...
WaitNext(t) ==
    /\ pc[t] = "pop_wait" /\ heap[loc[t].block].next # Null
    /\ loc' = [loc EXCEPT ![t].next = heap[loc[t].block].next]
    /\ Goto(t, "pop_peek")
    /\ UNCHANGED <<positions, heap, others>>

\* Mutant: HAS_NEXT is handed on to the next block.
MutPeekNext(t) ==
    /\ pc[t] = "pop_peek"
    /\ loc' = [loc EXCEPT ![t].other = WithNext(@) + 2]
    /\ Goto(t, "pop_move")
    /\ UNCHANGED <<positions, heap, others>>

\* ... a look whether that block has been filled as well ...
PeekNext(t) ==
    /\ pc[t] = "pop_peek"
    /\ LET skipped == WithoutNext(loc[t].other) + 2 IN
       loc' = [loc EXCEPT ![t].other =
                 IF heap[loc[t].next].next # Null THEN WithNext(skipped) ELSE skipped]
    /\ Goto(t, "pop_move")
    /\ UNCHANGED <<positions, heap, others>>

\* ... and the two stores.
MoveHeadBlock(t) ==
    /\ pc[t] = "pop_move"
    /\ head_block' = loc[t].next
    /\ Goto(t, "pop_head")
    /\ UNCHANGED <<tail, tail_block, head, heap, loc, others>>

MoveHead(t) ==
    /\ pc[t] = "pop_head"
    /\ head' = loc[t].other
    /\ Goto(t, "pop_value")
    /\ UNCHANGED <<tail, tail_block, head_block, heap, loc, others>>

\* wait_write: the push that got the ticket of t's slot has written it.
WaitWrite(t) == "WRITE" \in Bits(t, Slot0(loc[t].index))

\* Mutant: the value is read without waiting for it.
MutReadEarly(t) ==
    /\ pc[t] = "pop_value"
    /\ loc' = [loc EXCEPT ![t].value = heap[loc[t].block].value[Slot0(loc[t].index)],
                          ![t].cursor = 0]
    /\ Goto(t, IF LastSlot(loc[t].index) THEN "destroy" ELSE "pop_read")
    /\ UNCHANGED <<positions, heap, others>>

\* Mutant: the last slot's reader begins behind its slot, as the others do.
MutReadValue(t) ==
    /\ pc[t] = "pop_value" /\ WaitWrite(t)
    /\ loc' = [loc EXCEPT ![t].value = heap[loc[t].block].value[Slot0(loc[t].index)],
                          ![t].cursor = Slot0(loc[t].index) + 1]
    /\ Goto(t, IF LastSlot(loc[t].index) THEN "destroy" ELSE "pop_read")
    /\ UNCHANGED <<positions, heap, others>>

\* The value is read when it is there.  The last slot's reader begins to destroy the block.
ReadValue(t) ==
    /\ pc[t] = "pop_value" /\ WaitWrite(t)
    /\ loc' = [loc EXCEPT ![t].value = heap[loc[t].block].value[Slot0(loc[t].index)],
                          ![t].cursor = 0]
    /\ Goto(t, IF LastSlot(loc[t].index) THEN "destroy" ELSE "pop_read")
    /\ UNCHANGED <<positions, heap, others>>

\* Mutant: the reader does not look for DESTROY.
MutMarkRead(t) ==
    /\ pc[t] = "pop_read"
    /\ SetBit(t, Slot0(loc[t].index), "READ")
    /\ Return(t)
    /\ UNCHANGED <<positions, others>>

\* A reader that finds DESTROY goes on with the destruction behind its slot.
MarkRead(t) ==
    /\ pc[t] = "pop_read"
    /\ LET i == Slot0(loc[t].index) IN
       /\ SetBit(t, i, "READ")
       /\ IF "DESTROY" \in Bits(t, i)
          THEN loc' = [loc EXCEPT ![t].cursor = i + 1] /\ Goto(t, "destroy")
          ELSE Return(t)
    /\ UNCHANGED <<positions, others>>

(* Block::destroy: slots that have been read are passed.  Behind the last  *)
(* one but one the block is free.                                          *)
Destroy(t) ==
    /\ pc[t] = "destroy"
    /\ LET i == loc[t].cursor IN
       \/ /\ i = BLOCK_CAP - 1
          /\ heap' = [heap EXCEPT ![loc[t].block] = FreedBlock]
          /\ Return(t)
       \/ /\ i < BLOCK_CAP - 1 /\ "READ" \in Bits(t, i)
          /\ loc' = [loc EXCEPT ![t].cursor = i + 1]
          /\ UNCHANGED <<heap, pc>>
       \/ /\ i < BLOCK_CAP - 1 /\ "READ" \notin Bits(t, i)
          /\ Goto(t, "mark")
          /\ UNCHANGED <<heap, loc>>
    /\ UNCHANGED <<positions, others>>

\* Mutant: the destruction goes on past a slot that is still being read.
MutMarkDestroy(t) ==
    /\ pc[t] = "mark"
    /\ SetBit(t, loc[t].cursor, "DESTROY")
    /\ loc' = [loc EXCEPT ![t].cursor = @ + 1]
    /\ Goto(t, "destroy")
    /\ UNCHANGED <<positions, others>>

\* A slot still being read: its reader, which will find DESTROY, goes on from there.
MarkDestroy(t) ==
    /\ pc[t] = "mark"
    /\ LET i == loc[t].cursor IN
       /\ SetBit(t, i, "DESTROY")
       /\ IF "READ" \in Bits(t, i)
          THEN loc' = [loc EXCEPT ![t].cursor = i + 1] /\ Goto(t, "destroy")
          ELSE Return(t)
    /\ UNCHANGED <<positions, others>>

\* compare_exchange_weak may fail although the index has not moved.
FailSpuriously(t) ==
    /\ \/ pc[t] = "push_cas" /\ tail = loc[t].index /\ Goto(t, "push_block")
       \/ pc[t] = "pop_cas" /\ head = loc[t].index /\ Goto(t, "pop_block")
    /\ UNCHANGED <<positions, heap, loc, others>>

-----------------------------------------------------------------------------
(* is_empty, len, drop *)

\* The slots below a position: every lap has one position without a slot.
SlotsBelow(index) == Pos(index) - Lap(index)
Length == SlotsBelow(tail) - SlotsBelow(head)

CallIsEmpty(t) ==
    /\ Begin(t, "is_empty", "empty_head")
    /\ UNCHANGED <<positions, heap, loc, gone, dropped, history>>

EmptyHead(t) ==
    /\ pc[t] = "empty_head"
    /\ loc' = [loc EXCEPT ![t].index = head]
    /\ Goto(t, "empty_tail")
    /\ UNCHANGED <<positions, heap, others>>

\* Mutant: only the offsets are compared.
MutIsEmptyAnswer(t) == Slot0(loc[t].index) = Slot0(tail)

\* What is_empty answers when it has read the tail.
IsEmptyAnswer(t) == Pos(loc[t].index) = Pos(tail)

EmptyTail(t) ==
    /\ pc[t] = "empty_tail"
    /\ Return(t)
    /\ UNCHANGED <<positions, heap, others>>

CallLen(t) ==
    /\ Begin(t, "len", "len_tail")
    /\ UNCHANGED <<positions, heap, loc, gone, dropped, history>>

LenTail(t) ==
    /\ pc[t] = "len_tail"
    /\ loc' = [loc EXCEPT ![t].index = tail]
    /\ Goto(t, "len_head")
    /\ UNCHANGED <<positions, heap, others>>

LenHead(t) ==
    /\ pc[t] = "len_head"
    /\ loc' = [loc EXCEPT ![t].other = head]
    /\ truth' = [truth EXCEPT ![t] = Length]
    /\ Goto(t, "len_check")
    /\ UNCHANGED <<positions, heap, script, gone, dropped, order>>

\* An index on the boundary counts as the next block's start.
Settle(position) == IF position % LAP = LAP - 1 THEN position + 1 ELSE position

\* What len answers: the distance, counted from head's lap, less the boundaries in it.
LenAnswer(t) ==
    LET h == Settle(Pos(loc[t].other))
        base == (h \div LAP) * LAP
        to == Settle(Pos(loc[t].index)) - base
    IN  to - (h - base) - to \div LAP

\* Mutant: the tail is not loaded a second time.
MutLenCheck(t) ==
    /\ pc[t] = "len_check"
    /\ truth' = [truth EXCEPT ![t] = 0]
    /\ Return(t)
    /\ UNCHANGED <<positions, heap, script, gone, dropped, order>>

\* The tail once more: if it has moved, all over.
LenCheck(t) ==
    /\ pc[t] = "len_check"
    /\ truth' = [truth EXCEPT ![t] = 0]
    /\ \/ tail = loc[t].index /\ Return(t)
       \/ tail # loc[t].index /\ Goto(t, "len_tail") /\ UNCHANGED loc
    /\ UNCHANGED <<positions, heap, script, gone, dropped, order>>

\* The blocks from head's to tail's, in the order of their links.
Chain[k \in 0 .. Lap(tail) - Lap(head)] ==
    IF k = 0 THEN head_block ELSE heap[Chain[k - 1]].next

\* The value in the slot at position n.
ValueAt(n) == heap[Chain[n \div LAP - Lap(head)]].value[n % LAP]

(* Drop: nobody else has a reference.  The values left are dropped and the *)
(* blocks freed.                                                           *)
Drop ==
    /\ ~ gone /\ \A t \in Threads : pc[t] = "idle"
    /\ gone' = TRUE
    /\ LET left == {n \in Pos(head) .. Pos(tail) - 1 : n % LAP # BLOCK_CAP}
           walked == {Chain[k] : k \in DOMAIN Chain} \ {Null}
       IN  /\ dropped' = [n \in left |-> ValueAt(n)]
           /\ heap' = [b \in DOMAIN heap |-> IF b \in walked THEN FreedBlock ELSE heap[b]]
    /\ UNCHANGED <<positions, pc, loc, script, history>>

-----------------------------------------------------------------------------
(* The specification *)

Call(t) == CallPush(t) \/ CallPop(t) \/ CallIsEmpty(t) \/ CallLen(t)

Step(t) ==
    \/ LoadTail(t) \/ LoadTailBlock(t) \/ InstallFirst(t) \/ PublishFirst(t)
    \/ TakeTailTicket(t) \/ LoseTailTicket(t) \/ InstallNext(t) \/ SkipBoundary(t)
    \/ LinkNext(t) \/ WriteValue(t) \/ MarkWritten(t)
    \/ LoadHead(t) \/ LoadHeadBlock(t) \/ LookAtTail(t) \/ TakeHeadTicket(t)
    \/ LoseHeadTicket(t) \/ WaitNext(t) \/ PeekNext(t) \/ MoveHeadBlock(t) \/ MoveHead(t)
    \/ ReadValue(t) \/ MarkRead(t) \/ Destroy(t) \/ MarkDestroy(t)
    \/ EmptyHead(t) \/ EmptyTail(t) \/ LenTail(t) \/ LenHead(t) \/ LenCheck(t)

Next == Drop \/ \E t \in Threads : Call(t) \/ Step(t) \/ FailSpuriously(t)

Spec == Init /\ [][Next]_vars

(* Threads inside a call are scheduled again and again, and a weak         *)
(* compare-exchange that could succeed does not fail for ever.             *)
Fairness ==
    \A t \in Threads :
        /\ WF_vars(Step(t))
        /\ SF_vars(TakeTailTicket(t)) /\ SF_vars(TakeHeadTicket(t))

FairSpec == Spec /\ Fairness

-----------------------------------------------------------------------------
(* Properties *)

TypeOK ==
    /\ {tail, head, tail_block, head_block} \subseteq Nat
    /\ heap \in Seq([next : Nat, freed : BOOLEAN,
                     state : [Slots -> SUBSET {"WRITE", "READ", "DESTROY"}],
                     value : [Slots -> Values \cup {None}]])
    /\ DOMAIN pc = Threads
    /\ loc \in [Threads -> [index : Nat, block : Nat, other : Nat, next : Nat,
                            cursor : Slots, value : Values \cup {None}, spare : BOOLEAN]]
    /\ order \in Seq(Values) /\ truth \in [Threads -> Nat]

Live(b) == b \in DOMAIN heap /\ ~ heap[b].freed

(* "A thread only touches a block after owning a ticket inside it, so no   *)
(* block is freed under a reader": whatever block a thread is about to     *)
(* read, write, link or free is there and not freed, so it is also freed   *)
(* only once; and the spare block that the last slot needs is at hand.     *)
NoBlockFreedUnderReader ==
    /\ \A t \in Threads :
        /\ pc[t] \in {"push_link", "push_write", "push_ready", "pop_wait", "pop_value",
                      "pop_read", "destroy", "mark"} => Live(loc[t].block)
        /\ pc[t] = "pop_peek" => Live(loc[t].next)
        /\ pc[t] = "push_next" => loc[t].spare
    /\ \A b \in {tail_block, head_block} : b # Null /\ ~ gone => Live(b)

(* Head never passes tail, and HAS_NEXT, which lets a pop take a ticket    *)
(* without looking at the tail, is set only if the tail is laps ahead.     *)
HeadBehindTail ==
    /\ Pos(head) <= Pos(tail)
    /\ HasNext(head) => Lap(head) < Lap(tail)

(* The last reader frees the block: when no call is under way exactly the  *)
(* blocks from head's to tail's exist; after the drop none does, and the   *)
(* values left in the queue, and no others, have been dropped.             *)
NothingLeaks ==
    /\ ~ gone /\ (\A t \in Threads : pc[t] = "idle") =>
        Cardinality({b \in DOMAIN heap : Live(b)}) =
            IF heap = <<>> THEN 0 ELSE Lap(tail) - Lap(head) + 1
    /\ gone =>
        /\ \A b \in DOMAIN heap : heap[b].freed
        /\ {dropped[n] : n \in DOMAIN dropped} = {order[k] : k \in SlotsBelow(head) + 1 .. Len(order)}

(* pop and is_empty say that the queue is empty only if it is at that      *)
(* moment, although they read head some time before tail.                  *)
EmptyIsTrue ==
    [][\A t \in Threads :
         \/ pc[t] = "pop_tail" /\ pc'[t] = "idle"
         \/ pc[t] = "empty_tail" /\ pc'[t] = "idle" /\ IsEmptyAnswer(t)
         => Length = 0]_vars

(* len answers with the number of tickets that were given out and not      *)
(* taken at one moment, also when head or tail rests on a boundary.        *)
LenIsASnapshot ==
    [][\A t \in Threads :
         pc[t] = "len_check" /\ pc'[t] = "idle" => LenAnswer(t) = truth[t]]_vars

(* No call hangs: not behind a boundary, a block that is not linked yet, a *)
(* value that is not written yet or a lost ticket.                         *)
CallsReturn == []<>(\A t \in Threads : pc[t] = "idle")
=============================================================================
