----------------------------- MODULE WakeOrder -----------------------------
(***************************************************************************)
(* The handshake between a worker that goes to sleep and the threads that  *)
(* publish work for it (src/fanout/mod.rs: submit_local, push, share,      *)
(* wake_specific, claim_sleeper, prepare_to_park), on memory that is not   *)
(* sequentially consistent.                                                *)
(*                                                                         *)
(* A store waits in its thread's buffer before the others see it, in       *)
(* order, as every store here is a release.  A SeqCst fence waits for it;  *)
(* what else does depends on the target.  On "x86" a read-modify-write     *)
(* leaves nothing in the buffer, but a SeqCst load is a plain one.  On     *)
(* "arm" a SeqCst load waits for the stores before it, an acquire load     *)
(* (ldapr) does not, and the store of a read-modify-write may wait like    *)
(* any other: also a SeqCst one is no fence.                               *)
(***************************************************************************)
EXTENDS Integers, Sequences

CONSTANTS
    Publishers,     \* the threads that publish work for the worker
    Worker,         \* the worker
    Scripts         \* the workloads: s[p] holds what p publishes, in order; one p shares

Publications == {"inject", "local", "share"}

ASSUME PublishersAssumption ==
    /\ Worker \notin Publishers
    /\ Scripts \subseteq [Publishers -> Seq(Publications)]

Threads == Publishers \cup {Worker}

(* What both sides look at: the worker's bit, its slot, and the tails of   *)
(* the injector, of its inbox and of the deques it can steal from, which   *)
(* only grow.                                                              *)
Queues == {"injector", "inbox", "deque"}
Locations == Queues \cup {"slot", "bit"}

VARIABLES
    target,     \* the processor the code is built for
    memory,     \* memory[x]: what every thread sees at x
    buffer,     \* buffer[t]: stores of t that the others do not see yet
    pc,         \* pc[t]: the step t takes next
    script,     \* script[p]: what p has yet to publish
    popped,     \* popped[q]: how many jobs the worker has taken from q
    permit      \* the worker has an unpark permit (host)

vars == <<target, memory, buffer, pc, script, popped, permit>>

Init ==
    /\ target \in {"x86", "arm"}
    /\ memory = [x \in Locations |-> 0]
    /\ buffer = [t \in Threads |-> <<>>]
    /\ pc = [t \in Threads |-> IF t = Worker THEN "work" ELSE "idle"]
    /\ script \in Scripts
    /\ popped = [q \in Queues |-> 0]
    /\ permit = FALSE

Goto(t, step) == pc' = [pc EXCEPT ![t] = step]

-----------------------------------------------------------------------------
(* The memory *)

Drained(t) == buffer[t] = <<>>

\* The stores of t to x that are under way.
Pending(t, x) == {k \in DOMAIN buffer[t] : buffer[t][k].at = x}

\* What t sees at x: its own last store, or what everybody sees.
Sees(t, x) ==
    IF Pending(t, x) = {} THEN memory[x]
    ELSE buffer[t][CHOOSE k \in Pending(t, x) : \A l \in Pending(t, x) : l <= k].value

\* A store with release ordering.
Store(t, x, v) == buffer' = [buffer EXCEPT ![t] = Append(@, [at |-> x, value |-> v])]

\* What a SeqCst load waits for.
Ordered(t) == target = "arm" => Drained(t)

(* A read-modify-write with AcqRel or SeqCst ordering: the stores before   *)
(* it are done, and nobody else has a store to x under way.                *)
Exchange(t, x, v) ==
    /\ Drained(t) /\ \A u \in Threads : Pending(u, x) = {}
    /\ \/ target = "x86" /\ memory' = [memory EXCEPT ![x] = v] /\ UNCHANGED buffer
       \/ target = "arm" /\ Store(t, x, v) /\ UNCHANGED memory
    /\ UNCHANGED target

Flush(t) ==
    /\ ~ Drained(t)
    /\ memory' = [memory EXCEPT ![Head(buffer[t]).at] = Head(buffer[t]).value]
    /\ buffer' = [buffer EXCEPT ![t] = Tail(@)]
    /\ UNCHANGED <<target, pc, script, popped, permit>>

-----------------------------------------------------------------------------
(* The publishers *)

Publish(p, kind, step) ==
    /\ pc[p] = "idle" /\ script[p] # <<>> /\ Head(script[p]) = kind
    /\ script' = [script EXCEPT ![p] = Tail(@)]
    /\ Goto(p, step)

\* Injector::push, a SeqCst exchange of its tail; then the sleepers are looked at.
Inject(p) ==
    /\ Publish(p, "inject", "look_bit")
    /\ Exchange(p, "injector", Sees(p, "injector") + 1)
    /\ UNCHANGED <<popped, permit>>

\* submit_local: AtomicJobSlot::replace, an AcqRel swap ...
Replace(p) ==
    /\ Publish(p, "local", IF Sees(p, "slot") = 0 THEN "fence" ELSE "displace")
    /\ Exchange(p, "slot", 1)
    /\ UNCHANGED <<popped, permit>>

\* ... the job it displaced goes to the inbox ...
Displace(p) ==
    /\ pc[p] = "displace"
    /\ Exchange(p, "inbox", Sees(p, "inbox") + 1)
    /\ Goto(p, "fence")
    /\ UNCHANGED <<script, popped, permit>>

\* share: the push to the deque is a release store of its owner.
Share(p) ==
    /\ Publish(p, "share", "fence")
    /\ Store(p, "deque", Sees(p, "deque") + 1)
    /\ UNCHANGED <<target, memory, popped, permit>>

\* Mutant: there is no fence.
MutFence(p) ==
    /\ pc[p] = "fence"
    /\ Goto(p, "look_bit")
    /\ UNCHANGED <<target, memory, buffer, script, popped, permit>>

\* ... then the fence of submit_local or of share.
Fence(p) ==
    /\ pc[p] = "fence" /\ Drained(p)
    /\ Goto(p, "look_bit")
    /\ UNCHANGED <<target, memory, buffer, script, popped, permit>>

\* wake_specific, claim_sleeper: without a sleeper there is nobody to wake.
LookAtBit(p) ==
    /\ pc[p] = "look_bit" /\ Ordered(p)
    /\ Goto(p, IF Sees(p, "bit") = 0 THEN "idle" ELSE "claim")
    /\ UNCHANGED <<target, memory, buffer, script, popped, permit>>

(* Who gets the bit unparks the worker.  Who comes too late gives up       *)
(* (wake_specific) or looks once more (claim_sleeper).                     *)
Claim(p) ==
    /\ pc[p] = "claim"
    /\ \/ Sees(p, "bit") = 1 /\ Goto(p, "unpark")
       \/ Sees(p, "bit") = 0 /\ \E step \in {"idle", "look_bit"} : Goto(p, step)
    /\ Exchange(p, "bit", 0)
    /\ UNCHANGED <<script, popped, permit>>

\* Host::unpark.
Unpark(p) ==
    /\ pc[p] = "unpark"
    /\ permit' = TRUE
    /\ Goto(p, "idle")
    /\ UNCHANGED <<target, memory, buffer, script, popped>>

-----------------------------------------------------------------------------
(* The worker *)

HasJob(x) == IF x = "slot" THEN Sees(Worker, x) = 1 ELSE Sees(Worker, x) > popped[x]

\* A job is taken: a swap of the slot, or an exchange of a head that is the worker's.
Take(x) ==
    /\ pc[Worker] = "work" /\ HasJob(x)
    /\ \/ /\ x = "slot"
          /\ Exchange(Worker, x, 0)
          /\ UNCHANGED popped
       \/ /\ x \in Queues
          /\ popped' = [popped EXCEPT ![x] = @ + 1]
          /\ UNCHANGED <<target, memory, buffer>>
    /\ UNCHANGED <<pc, script, permit>>

(* prepare_to_park: the bit, with a SeqCst fetch_or.  The looks before it, *)
(* which found nothing, are past and prove nothing.                        *)
Announce ==
    /\ pc[Worker] = "work"
    /\ Exchange(Worker, "bit", 1)
    /\ Goto(Worker, "look_injector")
    /\ UNCHANGED <<script, popped, permit>>

\* Injector::is_empty loads with SeqCst, is_some and the steal with Acquire.
Looks ==
    <<[from |-> "look_injector", at |-> "injector", seqcst |-> TRUE,  to |-> "look_inbox"],
      [from |-> "look_inbox",    at |-> "inbox",    seqcst |-> TRUE,  to |-> "look_slot"],
      [from |-> "look_slot",     at |-> "slot",     seqcst |-> FALSE, to |-> "look_deque"],
      [from |-> "look_deque",    at |-> "deque",    seqcst |-> FALSE, to |-> "park"]>>

Look ==
    \E k \in DOMAIN Looks :
        /\ pc[Worker] = Looks[k].from
        /\ Looks[k].seqcst => Ordered(Worker)
        /\ Goto(Worker, IF HasJob(Looks[k].at) THEN "retract" ELSE Looks[k].to)
        /\ UNCHANGED <<target, memory, buffer, script, popped, permit>>

\* Host::park returns with a permit, or spuriously.
Wake ==
    /\ pc[Worker] = "park"
    /\ permit' = FALSE
    /\ Goto(Worker, "retract")
    /\ UNCHANGED <<target, memory, buffer, script, popped>>

\* The bit is taken back after a look that found something, or after the park.
Retract ==
    /\ pc[Worker] = "retract"
    /\ Exchange(Worker, "bit", 0)
    /\ Goto(Worker, "work")
    /\ UNCHANGED <<script, popped, permit>>

-----------------------------------------------------------------------------

PublisherStep(p) ==
    \/ Inject(p) \/ Replace(p) \/ Displace(p) \/ Share(p)
    \/ Fence(p) \/ LookAtBit(p) \/ Claim(p) \/ Unpark(p)

WorkerStep == (\E x \in Queues \cup {"slot"} : Take(x)) \/ Announce \/ Look \/ Wake \/ Retract

Next ==
    \/ WorkerStep
    \/ \E p \in Publishers : PublisherStep(p)
    \/ \E t \in Threads : Flush(t)

Spec == Init /\ [][Next]_vars

(* "A publisher either observes our bit or its work appears in this check" *)
(* (prepare_to_park): a worker that sleeps without a permit, while nobody  *)
(* is in a call, has left no job where it should have looked, although     *)
(* both sides' stores may wait while they look.                            *)
NoMissedWake ==
    pc[Worker] = "park" /\ ~ permit /\ (\A p \in Publishers : pc[p] = "idle") =>
        \A x \in Queues \cup {"slot"} : \A p \in Publishers : ~ HasJob(x) /\ Pending(p, x) = {}
=============================================================================
