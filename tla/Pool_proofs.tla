----------------------------- MODULE Pool_proofs -----------------------------
(***************************************************************************)
(* The proofs about Pool: types, private work, no lost wake, no lost job.  *)
(*                                                                         *)
(* A worker that goes to sleep sets its bit, looks at every source of work *)
(* and parks; who makes work takes a bit and unparks.  The invariant says, *)
(* for each place on that way, what the worker has seen empty and who must *)
(* be on the way to it if that has changed since.  The steps of a wake-up  *)
(* are a detour within other steps: At(p) is the step p is at, the detour  *)
(* not counted.  The end of the module follows each job from its           *)
(* submission to its run or its release: the places that can hold one stay *)
(* apart, and every step moves jobs between at most two of them.           *)
(***************************************************************************)
EXTENDS Pool, FiniteSetTheorems, SequenceTheorems, TLAPS

-----------------------------------------------------------------------------
(* The parts of the invariant *)

(* The steps of a wake-up and of a local submission; a thread that is in   *)
(* one of them returns to call[p].back.                                    *)
OwnerSteps == {"displace", "spill", "put_inbox", "wake_owner"}
WakeSteps == {"claim", "unpark"} \cup OwnerSteps

At(p) == IF pc[p] \in WakeSteps THEN call[p].back ELSE pc[p]

Backs == {"slot", "mine", "fair_take", "run", "share", "ready", "idle", "found"}

StealSteps == {"steal", "steal_deque", "keep", "land", "release", "found"}

WorkerSteps ==
    Backs \cup StealSteps \cup
      {"off", "dead", "capped", "capped_push", "capped_len", "fair_len", "inbox", "pop",
       "search", "leave_search", "take", "len", "announce", "look_injector", "look_inbox",
       "look_slot", "retract", "retire", "park", "woken", "leave"}

ClientSteps == {"idle", "unpark_all"}

CallRecords ==
    [left : Int, spare : SUBSET Workers, hint : Workers \cup {None},
     owner : Workers \cup {None}, target : Workers \cup {None}, back : Backs]

\* TypeOK but for the numbers that rest on more than types, and with the type of the script.
QueueTypes ==
    /\ injector \in Seq(Jobs)
    /\ inbox \in [Workers -> Seq(Jobs)]
    /\ deque \in [Workers -> Seq(Jobs)]
    /\ lifo \in [Workers -> Jobs \cup {None}]
    /\ stolen \in [Workers -> Nat]
HandTypes ==
    /\ mine \in [Workers -> Seq(Jobs)]
    /\ hand \in [Workers -> Seq(Jobs)]
    /\ job \in [Procs -> Jobs \cup {None}]
    /\ done \subseteq Jobs /\ released \subseteq Jobs /\ gone \in BOOLEAN
StateTypes ==
    /\ sleeping \subseteq Workers /\ permit \subseteq Workers
    /\ searching \in Int
    /\ running \in BOOLEAN
    /\ setup \in Setups
    /\ home \in [Workers -> BOOLEAN] /\ runs \in [Workers -> 0 .. MaxRuns]
StealTypes ==
    /\ script \in [Clients -> Seq(Calls)]
    /\ todo \in [Procs -> SUBSET Workers]
    /\ victim \in [Workers -> Workers]
    /\ parking \in [Workers -> BOOLEAN]
CountTypes ==
    /\ boundary \in [Workers -> BOOLEAN]
    /\ taken \in [Workers -> Nat]
    /\ lifo_run \in [Workers -> 0 .. LifoRunLimit]
    /\ spins \in [Workers -> 0 .. RoundsBeforePark]
    /\ until_promote \in [Workers -> 1 .. PromoteEvery]
Types == QueueTypes /\ HandTypes /\ StateTypes /\ StealTypes /\ CountTypes

\* Which steps a thread can be at, and what it needs there.
InStep(p) ==
    /\ p \in Workers => pc[p] \in WorkerSteps \cup WakeSteps
    /\ p \in Clients => pc[p] \in ClientSteps \cup WakeSteps /\ call[p].back = "idle"
    /\ pc[p] = "unpark" => call[p].target \in Workers
    /\ pc[p] \in OwnerSteps => call[p].owner \in Workers
    /\ pc[p] \in OwnerSteps \ {"wake_owner"} => job[p] \in Jobs
    /\ pc[p] \in {"displace", "spill"} => Spilling
    /\ p \in Workers /\ pc[p] \in OwnerSteps => call[p].back = "slot"
    /\ p \in Workers /\ At(p) \in {"run", "keep", "capped_push"} => job[p] \in Jobs

Steps ==
    /\ pc \in [Procs -> WorkerSteps \cup ClientSteps \cup WakeSteps]
    /\ call \in [Procs -> CallRecords]
    /\ \A p \in Procs : InStep(p)

\* The step is one of p: it touches nothing that belongs to another thread.
Moves(p) ==
    /\ UNCHANGED setup
    /\ pc' = [pc EXCEPT ![p] = pc'[p]]
    /\ call' = [call EXCEPT ![p] = call'[p]]
    /\ job' = [job EXCEPT ![p] = job'[p]]
    /\ \A w \in Workers : w # p =>
         parking'[w] = parking[w] /\ taken'[w] = taken[w] /\ mine'[w] = mine[w] /\ hand'[w] = hand[w]

\* The free slots of a deque are enough for the jobs its owner has stolen and not yet pushed.
RoomKept ==
    \A w \in Workers :
        /\ Len(deque[w]) + stolen[w] + Len(hand[w]) <= DequeCapacity
        /\ pc[w] # "land" => hand[w] = <<>>

\* The workers that the pool counts as searching.
Hunting(w) == ~ parking[w] /\ At(w) \in StealSteps \cup {"leave_search"}
Hunters == {w \in Workers : Hunting(w)}

SearchersCounted ==
    /\ searching = Cardinality(Hunters)
    /\ \A w \in Workers : parking[w] => At(w) \in StealSteps

\* A worker that goes to sleep has emptied its private queue and its deque on the way.
EmptiedBy(w) ==
    /\ pc[w] \notin {"capped", "capped_push", "capped_len", "fair_take", "fair_len",
                     "take", "len", "share", "inbox"} => taken[w] = 0
    /\ pc[w] = "inbox" /\ StealableInbox => taken[w] = 0
    /\ At(w) = "inbox" /\ taken[w] = 0 => mine[w] = <<>>
    /\ At(w) = "pop" => mine[w] = <<>>
    /\ At(w) \in {"take", "len"} => deque[w] = <<>> /\ (taken[w] = 0 => mine[w] = <<>>)
    /\ At(w) \in {"search", "leave_search", "steal", "steal_deque", "ready", "idle",
                  "announce", "look_injector", "look_inbox", "look_slot", "park",
                  "woken", "retract", "retire", "leave"} =>
         mine[w] = <<>> /\ deque[w] = <<>>

Emptied == \A w \in Workers : EmptiedBy(w)

\* The worker is between its announcement and the moment it takes its bit back.
Announced(w) ==
    \/ pc[w] \in {"look_injector", "look_inbox", "look_slot", "retract", "retire", "park", "woken"}
    \/ parking[w] /\ At(w) \in StealSteps

\* The worker will park unless it is woken or still finds something: from the
\* announcement on, once it has seen an empty injector, inbox, slot.
SlotSeen(w) == pc[w] = "park" \/ (parking[w] /\ pc[w] \in {"steal", "steal_deque"})
InboxSeen(w) == SlotSeen(w) \/ pc[w] = "look_slot"
InjectorSeen(w) == InboxSeen(w) \/ pc[w] = "look_inbox"
Drowsy(w) == InjectorSeen(w) \/ pc[w] = "look_injector"

\* Somebody has taken the bit of w, and unparks it or has done so.
Claimed(w) == w \in permit \/ \E p \in Procs : pc[p] = "unpark" /\ call[p].target = w

\* A wake of w is on the way, or arrived.
Coming(w) == Claimed(w) \/ \E p \in Procs : pc[p] \in OwnerSteps /\ call[p].owner = w

BitKept ==
    /\ \A w \in sleeping : Announced(w)
    /\ \A w \in Workers : Drowsy(w) => w \in sleeping \/ Claimed(w)

PrivateWorkSeen ==
    \A w \in Workers :
        /\ InboxSeen(w) /\ inbox[w] # <<>> => Coming(w)
        /\ SlotSeen(w) /\ lifo[w] # None => Coming(w)

\* After the shutdown nobody parks for good, and before it nobody leaves.
ShutdownSeen ==
    /\ \A w \in Workers : ~ running /\ pc[w] = "park" =>
         w \in permit \/ \E c \in Clients : pc[c] = "unpark_all" /\ w \in todo[c]
    /\ \A w \in Workers : pc[w] \in {"retire", "leave"} => ~ running

\* Not started, and work is waiting for it alone.
LeftAlone(w) == pc[w] = "off" /\ inbox[w] # <<>>

SpillSeen ==
    \A p \in Procs :
        running /\ pc[p] = "spill" /\ pc[call[p].owner] = "off" => inbox[call[p].owner] # <<>>

\* The worker looks at the injector before it parks, or a wake is on its way to it.
Awake(w) == pc[w] # "off" /\ (InjectorSeen(w) => Coming(w))

\* A client has pushed a job and will take the bit of a sleeper, if there is one.
Alarm == \E c \in Clients : pc[c] = "claim" /\ call[c].spare = {}

InjectorWatched ==
    running /\ injector # <<>> =>
        \/ \A w \in Workers : pc[w] = "off"
        \/ \E w \in Workers : Awake(w)
        \/ Alarm
        \/ Spilling /\ \E w \in Workers : LeftAlone(w)

\* What SetupsAssumption says of the pool's own tuning and workload.
LEMMA SetupFacts ==
    ASSUME setup \in Setups
    PROVE  /\ LocalWakes \in BOOLEAN /\ StealableInbox \in BOOLEAN /\ ShareDisplaced \in BOOLEAN
           /\ InjectorBatch \in Nat \ {0} /\ LifoRunLimit \in Nat \ {0}
           /\ PromoteEvery \in Nat \ {0} /\ DequeCapacity \in Nat \ {0}
           /\ RoundsBeforePark \in Nat
           /\ Wakes \in [Jobs -> Jobs \cup {None}]
           /\ Blocking \subseteq Jobs /\ Panicking \subseteq Jobs
           /\ setup.backlog \in Seq(Jobs)
           /\ Script \in [Clients -> Seq(Calls)]
BY SetupsAssumption DEF LocalWakes, StealableInbox, ShareDisplaced, InjectorBatch, LifoRunLimit,
     PromoteEvery, DequeCapacity, RoundsBeforePark, Wakes, Blocking, Panicking, Script

\* A thief takes no more than there is, and no more than its own deque has room for.
LEMMA StealCount ==
    ASSUME NEW room \in Int, NEW n \in Nat, NEW k \in Nat
    PROVE  /\ Least(room, (Least(n, k) + 1) \div 2) \in Int
           /\ Least(room, (Least(n, k) + 1) \div 2) <= n
           /\ Least(room, (Least(n, k) + 1) \div 2) <= room
BY DEF Least

\* Every step keeps the types: one case per action.
LEMMA TypesKept ==
    ASSUME Types, Steps, Next
    PROVE  Types'
<1> USE DEF Set, Add, Goto, WakeUp, NoCall, Push, SubmitLocal, Replace, RunNext, Grant, Sweep,
    queueVars, poolVars, stateVars, lifeVars, workerVars, stealVars, countVars, fate
<1>0. QueueTypes /\ HandTypes /\ StateTypes /\ StealTypes /\ CountTypes
  BY DEF Types
<1>a. /\ InjectorBatch \in Nat \ {0} /\ LifoRunLimit \in Nat \ {0}
      /\ PromoteEvery \in Nat \ {0} /\ DequeCapacity \in Nat \ {0}
      /\ RoundsBeforePark \in Nat /\ Wakes \in [Jobs -> Jobs \cup {None}]
  BY ONLY <1>0, SetupFacts DEF StateTypes
<1>b. \A p \in Procs :
        /\ pc[p] = "unpark" => call[p].target \in Workers
        /\ pc[p] \in OwnerSteps => call[p].owner \in Workers
        /\ pc[p] \in OwnerSteps \ {"wake_owner"} => job[p] \in Jobs
  BY DEF Steps, InStep
<1>c. \A c \in Clients : script[c] # <<>> =>
        /\ Head(script[c]).op = "submit" => Head(script[c]).job \in Jobs
        /\ Head(script[c]).op = "submit_local" =>
             Head(script[c]).job \in Jobs /\ Head(script[c]).worker \in Workers
  <2> SUFFICES ASSUME NEW c \in Clients, script[c] # <<>>
               PROVE  /\ Head(script[c]).op = "submit" => Head(script[c]).job \in Jobs
                      /\ Head(script[c]).op = "submit_local" =>
                           Head(script[c]).job \in Jobs /\ Head(script[c]).worker \in Workers
    OBVIOUS
  <2>1. Head(script[c]) \in Calls
    BY <1>0 DEF StealTypes
  <2> QED
    BY ONLY <2>1 DEF Calls
<1>d. \A w \in Workers : pc[w] \in {"run", "keep", "capped_push"} => job[w] \in Jobs
  BY DEF Steps, InStep, At, WakeSteps, OwnerSteps, Procs
<1>f. PullBatch \in Nat
  BY SetupsAssumption
<1>e. Workers \subseteq Procs /\ Clients \subseteq Procs
  BY DEF Procs
<1>1. ASSUME NEW p \in Procs, ClaimSleeper(p) PROVE Types'
  <2>1. (QueueTypes /\ HandTypes /\ StealTypes /\ CountTypes)'
    BY ONLY <1>0, <1>a, <1>e, ClaimSleeper(p), p \in Procs DEF QueueTypes, HandTypes,
        StealTypes, CountTypes, LifoRunLimit, RoundsBeforePark, PromoteEvery, ClaimSleeper
  <2>2. StateTypes'
    BY ONLY <1>0, <1>e, ClaimSleeper(p), p \in Procs DEF StateTypes, ClaimSleeper
  <2> QED
    BY <2>1, <2>2 DEF Types
<1>2. ASSUME NEW p \in Procs, Unpark(p) PROVE Types'
  <2>1. call[p].target \in Workers
    BY ONLY <1>b, Unpark(p), p \in Procs DEF Unpark
  <2>2. (QueueTypes /\ HandTypes /\ StealTypes /\ CountTypes)'
    BY ONLY <1>0, <1>a, <1>e, Unpark(p), p \in Procs DEF QueueTypes, HandTypes, StealTypes,
        CountTypes, LifoRunLimit, RoundsBeforePark, PromoteEvery, Unpark
  <2>3. StateTypes'
    BY ONLY <1>0, <2>1, <1>e, Unpark(p), p \in Procs DEF StateTypes, Unpark
  <2> QED
    BY <2>2, <2>3 DEF Types
<1>3. ASSUME NEW p \in Procs, ChooseSpill(p) PROVE Types'
  <2>1. (QueueTypes /\ HandTypes /\ StateTypes /\ StealTypes /\ CountTypes)'
    BY ONLY <1>0, <1>a, <1>e, ChooseSpill(p), p \in Procs DEF QueueTypes, HandTypes, StateTypes,
        StealTypes, CountTypes, LifoRunLimit, RoundsBeforePark, PromoteEvery, ChooseSpill
  <2> QED
    BY <2>1 DEF Types
<1>4. ASSUME NEW p \in Procs, Displace(p) PROVE Types'
  <2>1. job[p] \in Jobs /\ call[p].owner \in Workers
    BY ONLY <1>b, Displace(p), p \in Procs DEF Displace, OwnerSteps
  <2>2. /\ Append(injector, job[p]) \in Seq(Jobs)
        /\ Append(inbox[call[p].owner], job[p]) \in Seq(Jobs)
    BY ONLY <1>0, <2>1 DEF QueueTypes
  <2>3. (StateTypes /\ StealTypes /\ CountTypes)'
    BY ONLY <1>0, <1>a, <1>e, Displace(p), p \in Procs DEF StateTypes, StealTypes, CountTypes,
        LifoRunLimit, RoundsBeforePark, PromoteEvery, Displace
  <2>4. QueueTypes'
    BY ONLY <1>0, <2>1, <2>2, <1>e, Displace(p), p \in Procs DEF QueueTypes, Displace
  <2>5. HandTypes'
    BY ONLY <1>0, <2>1, <2>2, <1>e, Displace(p), p \in Procs DEF HandTypes, Displace
  <2> QED
    BY <2>3, <2>4, <2>5 DEF Types
<1>5. ASSUME NEW p \in Procs, WakeOwner(p) PROVE Types'
  <2>1. (QueueTypes /\ HandTypes /\ StealTypes /\ CountTypes)'
    BY ONLY <1>0, <1>a, <1>e, WakeOwner(p), p \in Procs DEF QueueTypes, HandTypes, StealTypes,
        CountTypes, LifoRunLimit, RoundsBeforePark, PromoteEvery, WakeOwner, Owner
  <2>2. StateTypes'
    BY ONLY <1>0, <1>e, WakeOwner(p), p \in Procs DEF StateTypes, WakeOwner, Owner
  <2> QED
    BY <2>1, <2>2 DEF Types
<1>6. ASSUME NEW c \in Clients, Submit(c) PROVE Types'
  <2>1. Append(injector, Head(script[c]).job) \in Seq(Jobs)
    BY ONLY <1>0, <1>c, Submit(c), c \in Clients DEF Submit, QueueTypes
  <2>2. (HandTypes /\ StateTypes /\ CountTypes)'
    BY ONLY <1>0, <1>a, <1>e, Submit(c), c \in Clients DEF HandTypes, StateTypes, CountTypes,
        LifoRunLimit, RoundsBeforePark, PromoteEvery, Submit
  <2>3. QueueTypes'
    BY ONLY <1>0, <2>1, <1>e, Submit(c), c \in Clients DEF QueueTypes, Submit
  <2>4. StealTypes'
    BY ONLY <1>0, <2>1, <1>e, Submit(c), c \in Clients DEF StealTypes, Submit
  <2> QED
    BY <2>2, <2>3, <2>4 DEF Types
<1>7. ASSUME NEW c \in Clients, SubmitToWorker(c) PROVE Types'
  <2>1. Head(script[c]).job \in Jobs /\ Head(script[c]).worker \in Workers
    BY ONLY <1>c, SubmitToWorker(c), c \in Clients DEF SubmitToWorker
  <2>2. /\ Append(injector, Head(script[c]).job) \in Seq(Jobs)
        /\ lifo[Head(script[c]).worker] \in Jobs \cup {None}
    BY ONLY <1>0, <2>1 DEF QueueTypes
  <2>3. (StateTypes /\ CountTypes)'
    BY ONLY <1>0, <1>a, <1>e, SubmitToWorker(c), c \in Clients DEF StateTypes, CountTypes,
        LifoRunLimit, RoundsBeforePark, PromoteEvery, SubmitToWorker
  <2>4. QueueTypes'
    BY ONLY <1>0, <2>1, <2>2, <1>e, SubmitToWorker(c), c \in Clients DEF QueueTypes,
        SubmitToWorker
  <2>5. HandTypes'
    BY ONLY <1>0, <2>1, <2>2, <1>e, SubmitToWorker(c), c \in Clients DEF HandTypes,
        SubmitToWorker
  <2>6. StealTypes'
    BY ONLY <1>0, <2>1, <2>2, <1>e, SubmitToWorker(c), c \in Clients DEF StealTypes,
        SubmitToWorker
  <2> QED
    BY <2>3, <2>4, <2>5, <2>6 DEF Types
<1>8. ASSUME NEW c \in Clients, ShutDown(c) PROVE Types'
  <2>1. (QueueTypes /\ HandTypes /\ CountTypes)'
    BY ONLY <1>0, <1>a, <1>e, ShutDown(c), c \in Clients DEF QueueTypes, HandTypes, CountTypes,
        LifoRunLimit, RoundsBeforePark, PromoteEvery, ShutDown
  <2>2. StateTypes'
    BY ONLY <1>0, <1>e, ShutDown(c), c \in Clients DEF StateTypes, ShutDown
  <2>3. StealTypes'
    BY ONLY <1>0, <1>e, ShutDown(c), c \in Clients DEF StealTypes, ShutDown
  <2> QED
    BY <2>1, <2>2, <2>3 DEF Types
<1>9. ASSUME NEW c \in Clients, UnparkAll(c) PROVE Types'
  <2>1. todo[c] \subseteq Workers
    BY ONLY <1>0, <1>e, c \in Clients DEF StealTypes
  <2>2. (QueueTypes /\ HandTypes /\ CountTypes)'
    BY ONLY <1>0, <1>a, <1>e, UnparkAll(c), c \in Clients DEF QueueTypes, HandTypes, CountTypes,
        LifoRunLimit, RoundsBeforePark, PromoteEvery, UnparkAll
  <2>3. StateTypes'
    BY ONLY <1>0, <2>1, <1>e, UnparkAll(c), c \in Clients DEF StateTypes, UnparkAll
  <2>4. StealTypes'
    BY ONLY <1>0, <2>1, <1>e, UnparkAll(c), c \in Clients DEF StealTypes, UnparkAll
  <2> QED
    BY <2>2, <2>3, <2>4 DEF Types
<1>10. ASSUME NEW w \in Workers, Run(w) PROVE Types'
  <2>1. runs[w] + 1 \in 0 .. MaxRuns
    BY ONLY <1>0, SetupsAssumption, Run(w), w \in Workers DEF StateTypes, Run
  <2>2. (QueueTypes /\ HandTypes /\ StealTypes /\ CountTypes)'
    BY ONLY <1>0, <1>a, <1>e, Run(w), w \in Workers DEF QueueTypes, HandTypes, StealTypes,
        CountTypes, LifoRunLimit, RoundsBeforePark, PromoteEvery, Run, TakeQueue
  <2>3. StateTypes'
    BY ONLY <1>0, <2>1, <1>e, Run(w), w \in Workers DEF StateTypes, Run, TakeQueue
  <2> QED
    BY <2>2, <2>3 DEF Types
<1>11. ASSUME NEW w \in Workers, FinishJob(w) PROVE Types'
  <2>1. job[w] \in Jobs /\ Wakes[job[w]] \in Jobs \cup {None}
    BY ONLY <1>d, <1>a, FinishJob(w), w \in Workers DEF FinishJob
  <2>2. /\ lifo[w] \in Jobs \cup {None}
        /\ Wakes[job[w]] # None => Append(injector, Wakes[job[w]]) \in Seq(Jobs)
    BY ONLY <1>0, <2>1, w \in Workers DEF QueueTypes
  <2>3. (StateTypes /\ StealTypes /\ CountTypes)'
    BY ONLY <1>0, <1>a, <1>e, FinishJob(w), w \in Workers DEF StateTypes, StealTypes,
        CountTypes, LifoRunLimit, RoundsBeforePark, PromoteEvery, FinishJob
  <2>4. QueueTypes'
    BY ONLY <1>0, <2>1, <2>2, <1>e, FinishJob(w), w \in Workers DEF QueueTypes, FinishJob
  <2>5. HandTypes'
    BY ONLY <1>0, <2>1, <2>2, <1>e, FinishJob(w), w \in Workers DEF HandTypes, FinishJob
  <2> QED
    BY <2>3, <2>4, <2>5 DEF Types
<1>12. ASSUME NEW w \in Workers, Unwind(w) PROVE Types'
  <2>1. job[w] \in Jobs
    BY ONLY <1>d, Unwind(w), w \in Workers DEF Unwind
  <2>2. ToSet(mine[w]) \subseteq Jobs
    BY ONLY <1>0, w \in Workers DEF HandTypes, ToSet
  <2>3. (QueueTypes /\ StateTypes /\ StealTypes /\ CountTypes)'
    BY ONLY <1>0, <1>a, <1>e, Unwind(w), w \in Workers DEF QueueTypes, StateTypes, StealTypes,
        CountTypes, LifoRunLimit, RoundsBeforePark, PromoteEvery, Unwind, ReleaseJobs, ToSet
  <2>4. HandTypes'
    BY ONLY <1>0, <2>1, <2>2, <1>e, Unwind(w), w \in Workers DEF HandTypes, Unwind, ReleaseJobs,
        ToSet
  <2> QED
    BY <2>3, <2>4 DEF Types
<1>13. ASSUME NEW w \in Workers, TakeSlot(w) PROVE Types'
  <2>1. lifo[w] \in Jobs \cup {None}
    BY ONLY <1>0, w \in Workers DEF QueueTypes
  <2>2. lifo_run[w] < LifoRunLimit => Served(w) \in 0 .. LifoRunLimit
    BY ONLY <1>0, <1>a, w \in Workers DEF CountTypes, Served
  <2>3. (StateTypes /\ StealTypes)'
    BY ONLY <1>0, <1>e, TakeSlot(w), w \in Workers DEF StateTypes, StealTypes, TakeSlot, Served,
        AfterCapped
  <2>4. UNCHANGED <<LifoRunLimit, RoundsBeforePark, PromoteEvery>>
    BY ONLY TakeSlot(w) DEF TakeSlot, LifoRunLimit, RoundsBeforePark, PromoteEvery
  <2>5. QueueTypes'
    BY ONLY <1>0, <2>1, <2>2, <2>4, <1>e, TakeSlot(w), w \in Workers DEF QueueTypes, TakeSlot,
        Served, AfterCapped
  <2>6. HandTypes'
    BY ONLY <1>0, <2>1, <2>2, <2>4, <1>e, TakeSlot(w), w \in Workers DEF HandTypes, TakeSlot,
        Served, AfterCapped
  <2>7. CountTypes'
    <3>1. /\ UNCHANGED until_promote
          /\ spins' = spins \/ spins' = [spins EXCEPT ![w] = 0]
          /\ boundary' = boundary \/ \E b \in BOOLEAN : boundary' = [boundary EXCEPT ![w] = b]
          /\ taken' = taken \/ taken' = [taken EXCEPT ![w] = 0] \/ taken' = [taken EXCEPT ![w] = 1]
          /\ \/ lifo_run[w] < LifoRunLimit /\ lifo_run' = [lifo_run EXCEPT ![w] = Served(w)]
             \/ lifo_run' = [lifo_run EXCEPT ![w] = 0]
      BY ONLY TakeSlot(w) DEF TakeSlot
    <3> QED
      BY ONLY <1>0, <1>a, <2>2, <2>4, <3>1, w \in Workers DEF CountTypes
  <2> QED
    BY <2>3, <2>4, <2>5, <2>6, <2>7 DEF Types
<1>14. ASSUME NEW w \in Workers, TakeCapped(w) PROVE Types'
  <2>1. lifo[w] \in Jobs \cup {None}
    BY ONLY <1>0, w \in Workers DEF QueueTypes
  <2>2. (StateTypes /\ StealTypes)'
    BY ONLY <1>0, <1>e, TakeCapped(w), w \in Workers DEF StateTypes, StealTypes, TakeCapped,
        AfterCapped
  <2>3. UNCHANGED <<LifoRunLimit, RoundsBeforePark, PromoteEvery>>
    BY ONLY TakeCapped(w) DEF TakeCapped, LifoRunLimit, RoundsBeforePark, PromoteEvery
  <2>4. QueueTypes'
    BY ONLY <1>0, <2>1, <2>3, <1>e, TakeCapped(w), w \in Workers DEF QueueTypes, TakeCapped,
        AfterCapped
  <2>5. HandTypes'
    BY ONLY <1>0, <2>1, <2>3, <1>e, TakeCapped(w), w \in Workers DEF HandTypes, TakeCapped,
        AfterCapped
  <2>6. CountTypes'
    BY ONLY <1>0, <1>a, <2>3, <1>e, TakeCapped(w), w \in Workers DEF CountTypes, TakeCapped,
        AfterCapped
  <2> QED
    BY <2>2, <2>3, <2>4, <2>5, <2>6 DEF Types
<1>15. ASSUME NEW w \in Workers, PushCapped(w) PROVE Types'
  <2>1. job[w] \in Jobs
    BY ONLY <1>d, PushCapped(w), w \in Workers DEF PushCapped
  <2>2. Append(inbox[w], job[w]) \in Seq(Jobs)
    BY ONLY <1>0, <2>1, w \in Workers DEF QueueTypes
  <2>3. (StateTypes /\ StealTypes /\ CountTypes)'
    BY ONLY <1>0, <1>a, <1>e, PushCapped(w), w \in Workers DEF StateTypes, StealTypes,
        CountTypes, LifoRunLimit, RoundsBeforePark, PromoteEvery, PushCapped
  <2>4. QueueTypes'
    BY ONLY <1>0, <2>1, <2>2, <1>e, PushCapped(w), w \in Workers DEF QueueTypes, PushCapped
  <2>5. HandTypes'
    BY ONLY <1>0, <2>1, <2>2, <1>e, PushCapped(w), w \in Workers DEF HandTypes, PushCapped
  <2> QED
    BY <2>3, <2>4, <2>5 DEF Types
<1>16. ASSUME NEW w \in Workers, AnnounceCapped(w) PROVE Types'
  <2>1. (QueueTypes /\ HandTypes /\ StateTypes /\ StealTypes)'
    BY ONLY <1>0, <1>e, AnnounceCapped(w), w \in Workers DEF QueueTypes, HandTypes, StateTypes,
        StealTypes, AnnounceCapped, AfterCapped
  <2>2. UNCHANGED <<LifoRunLimit, RoundsBeforePark, PromoteEvery>>
    BY ONLY AnnounceCapped(w) DEF AnnounceCapped, LifoRunLimit, RoundsBeforePark, PromoteEvery
  <2>3. CountTypes'
    BY ONLY <1>0, <1>a, <2>2, <1>e, AnnounceCapped(w), w \in Workers DEF CountTypes,
        AnnounceCapped, AfterCapped
  <2> QED
    BY <2>1, <2>2, <2>3 DEF Types
<1>17. ASSUME NEW w \in Workers, PopInjector(w) PROVE Types'
  <2>1. injector # <<>> => Head(injector) \in Jobs /\ Tail(injector) \in Seq(Jobs)
    BY ONLY <1>0 DEF QueueTypes
  <2>2. injector # <<>> => Append(mine[w], Head(injector)) \in Seq(Jobs)
    BY ONLY <1>0, <2>1, w \in Workers DEF HandTypes
  <2>3. (StateTypes /\ StealTypes)'
    BY ONLY <1>0, <1>e, PopInjector(w), w \in Workers DEF StateTypes, StealTypes, PopInjector
  <2>4. UNCHANGED <<LifoRunLimit, RoundsBeforePark, PromoteEvery>>
    BY ONLY PopInjector(w) DEF PopInjector, LifoRunLimit, RoundsBeforePark, PromoteEvery
  <2>5. QueueTypes'
    BY ONLY <1>0, <2>1, <2>2, <2>4, <1>e, PopInjector(w), w \in Workers DEF QueueTypes,
        PopInjector
  <2>6. HandTypes'
    BY ONLY <1>0, <2>1, <2>2, <2>4, <1>e, PopInjector(w), w \in Workers DEF HandTypes,
        PopInjector
  <2>7. CountTypes'
    <3>1. /\ UNCHANGED <<boundary, lifo_run, spins, until_promote>>
          /\ taken' = taken \/ taken' = [taken EXCEPT ![w] = taken[w] + 1]
      BY ONLY PopInjector(w) DEF PopInjector
    <3> QED
      BY ONLY <1>0, <1>a, <2>4, <3>1, w \in Workers DEF CountTypes
  <2> QED
    BY <2>3, <2>4, <2>5, <2>6, <2>7 DEF Types
<1>18. ASSUME NEW w \in Workers, LenInjector(w) PROVE Types'
  <2>1. (QueueTypes /\ HandTypes /\ StateTypes /\ StealTypes)'
    BY ONLY <1>0, <1>e, LenInjector(w), w \in Workers DEF QueueTypes, HandTypes, StateTypes,
        StealTypes, LenInjector, Least
  <2>2. UNCHANGED <<LifoRunLimit, RoundsBeforePark, PromoteEvery>>
    BY ONLY LenInjector(w) DEF LenInjector, LifoRunLimit, RoundsBeforePark, PromoteEvery
  <2>3. CountTypes'
    BY ONLY <1>0, <1>a, <2>2, <1>e, LenInjector(w), w \in Workers DEF CountTypes, LenInjector,
        Least
  <2> QED
    BY <2>1, <2>2, <2>3 DEF Types
<1>19. ASSUME NEW w \in Workers, PopMine(w) PROVE Types'
  <2>1. mine[w] # <<>> => Front(mine[w]) \in Seq(Jobs) /\ Last(mine[w]) \in Jobs
    BY ONLY <1>0, w \in Workers DEF HandTypes, Front, Last
  <2>2. until_promote[w] # 1 => until_promote[w] - 1 \in 1 .. PromoteEvery
    BY ONLY <1>0, <1>a, w \in Workers DEF CountTypes
  <2>3. (QueueTypes /\ StateTypes /\ StealTypes)'
    BY ONLY <1>0, <1>e, PopMine(w), w \in Workers DEF QueueTypes, StateTypes, StealTypes,
        PopMine, Front, Last, Promote
  <2>4. UNCHANGED <<LifoRunLimit, RoundsBeforePark, PromoteEvery>>
    BY ONLY PopMine(w) DEF PopMine, LifoRunLimit, RoundsBeforePark, PromoteEvery
  <2>5. HandTypes'
    BY ONLY <1>0, <2>1, <2>2, <2>4, <1>e, PopMine(w), w \in Workers DEF HandTypes, PopMine,
        Front, Last, Promote
  <2>6. CountTypes'
    <3>1. /\ UNCHANGED <<boundary, taken, lifo_run>>
          /\ spins' = spins \/ spins' = [spins EXCEPT ![w] = 0]
          /\ \/ until_promote' = until_promote
             \/ until_promote' = [until_promote EXCEPT ![w] = PromoteEvery]
             \/ /\ until_promote[w] # 1
                /\ until_promote' = [until_promote EXCEPT ![w] = until_promote[w] - 1]
      BY ONLY PopMine(w) DEF PopMine
    <3> QED
      BY ONLY <1>0, <1>a, <2>2, <2>4, <3>1, w \in Workers DEF CountTypes
  <2> QED
    BY <2>3, <2>4, <2>5, <2>6 DEF Types
<1>20. ASSUME NEW w \in Workers, Share(w) PROVE Types'
  <2>1. taken[w] < (Len(mine[w]) + taken[w]) \div 2 => mine[w] # <<>>
    BY ONLY <1>0, w \in Workers DEF HandTypes, CountTypes
  <2>2. mine[w] # <<>> =>
          /\ Tail(mine[w]) \in Seq(Jobs)
          /\ Append(deque[w], Head(mine[w])) \in Seq(Jobs)
    BY ONLY <1>0, w \in Workers DEF HandTypes, QueueTypes
  <2>3. (StateTypes /\ StealTypes)'
    BY ONLY <1>0, <1>e, Share(w), w \in Workers DEF StateTypes, StealTypes, Share, AfterShare
  <2>4. UNCHANGED <<LifoRunLimit, RoundsBeforePark, PromoteEvery>>
    BY ONLY Share(w) DEF Share, LifoRunLimit, RoundsBeforePark, PromoteEvery
  <2>5. QueueTypes'
    BY ONLY <1>0, <2>1, <2>2, <2>4, <1>e, Share(w), w \in Workers DEF QueueTypes, Share,
        AfterShare
  <2>6. HandTypes'
    BY ONLY <1>0, <2>1, <2>2, <2>4, <1>e, Share(w), w \in Workers DEF HandTypes, Share,
        AfterShare
  <2>7. CountTypes'
    <3>1. /\ UNCHANGED <<boundary, lifo_run, spins, until_promote>>
          /\ taken' = [taken EXCEPT ![w] = 0] \/ taken' = [taken EXCEPT ![w] = taken[w] + 1]
      BY ONLY Share(w) DEF Share
    <3> QED
      BY ONLY <1>0, <1>a, <2>4, <3>1, w \in Workers DEF CountTypes
  <2> QED
    BY <2>3, <2>4, <2>5, <2>6, <2>7 DEF Types
<1>21. ASSUME NEW w \in Workers, PopInbox(w) PROVE Types'
  <2>1. inbox[w] # <<>> =>
          /\ Head(inbox[w]) \in Jobs /\ Tail(inbox[w]) \in Seq(Jobs)
          /\ Append(mine[w], Head(inbox[w])) \in Seq(Jobs)
    BY ONLY <1>0, w \in Workers DEF HandTypes, QueueTypes
  <2>2. (StateTypes /\ StealTypes)'
    BY ONLY <1>0, <1>e, PopInbox(w), w \in Workers DEF StateTypes, StealTypes, PopInbox
  <2>3. UNCHANGED <<LifoRunLimit, RoundsBeforePark, PromoteEvery>>
    BY ONLY PopInbox(w) DEF PopInbox, LifoRunLimit, RoundsBeforePark, PromoteEvery
  <2>4. QueueTypes'
    <3>1. /\ UNCHANGED <<injector, lifo, deque, stolen>>
          /\ inbox' = inbox \/ (inbox[w] # <<>> /\ inbox' = [inbox EXCEPT ![w] = Tail(inbox[w])])
      BY ONLY PopInbox(w) DEF PopInbox
    <3> QED
      BY ONLY <1>0, <2>1, <3>1, w \in Workers DEF QueueTypes
  <2>5. HandTypes'
    <3>1. UNCHANGED <<hand, done, released, gone>>
      BY ONLY PopInbox(w) DEF PopInbox
    <3>2. /\ job' = job \/ (inbox[w] # <<>> /\ job' = [job EXCEPT ![w] = Head(inbox[w])])
          /\ \/ mine' = mine
             \/ inbox[w] # <<>> /\ mine' = [mine EXCEPT ![w] = Append(mine[w], Head(inbox[w]))]
      BY ONLY PopInbox(w) DEF PopInbox
    <3> QED
      BY ONLY <1>0, <1>e, <2>1, <3>1, <3>2, w \in Workers DEF HandTypes
  <2>6. CountTypes'
    <3>1. /\ UNCHANGED <<boundary, lifo_run, until_promote>>
          /\ spins' = spins \/ spins' = [spins EXCEPT ![w] = 0]
          /\ \/ taken' = taken \/ taken' = [taken EXCEPT ![w] = 0]
             \/ taken' = [taken EXCEPT ![w] = taken[w] + 1]
      BY ONLY PopInbox(w) DEF PopInbox
    <3> QED
      BY ONLY <1>0, <1>a, <2>3, <3>1, w \in Workers DEF CountTypes
  <2> QED
    BY <2>2, <2>3, <2>4, <2>5, <2>6 DEF Types
<1>22. ASSUME NEW w \in Workers, PopDeque(w) PROVE Types'
  <2>1. deque[w] # <<>> => Front(deque[w]) \in Seq(Jobs) /\ Last(deque[w]) \in Jobs
    BY ONLY <1>0, w \in Workers DEF QueueTypes, Front, Last
  <2>2. (StateTypes /\ StealTypes)'
    BY ONLY <1>0, <1>e, PopDeque(w), w \in Workers DEF StateTypes, StealTypes, PopDeque, Front,
        Last, AfterPop
  <2>3. UNCHANGED <<LifoRunLimit, RoundsBeforePark, PromoteEvery>>
    BY ONLY PopDeque(w) DEF PopDeque, LifoRunLimit, RoundsBeforePark, PromoteEvery
  <2>4. QueueTypes'
    <3>1. /\ UNCHANGED <<injector, lifo, inbox, stolen>>
          /\ deque' = deque \/ (deque[w] # <<>> /\ deque' = [deque EXCEPT ![w] = Front(deque[w])])
      BY ONLY PopDeque(w) DEF PopDeque
    <3> QED
      BY ONLY <1>0, <2>1, <3>1, w \in Workers DEF QueueTypes
  <2>5. HandTypes'
    BY ONLY <1>0, <2>1, <2>3, <1>e, PopDeque(w), w \in Workers DEF HandTypes, PopDeque, Front,
        Last, AfterPop
  <2>6. CountTypes'
    <3>1. /\ UNCHANGED <<boundary, taken, lifo_run, until_promote>>
          /\ spins' = spins \/ spins' = [spins EXCEPT ![w] = 0]
      BY ONLY PopDeque(w) DEF PopDeque
    <3> QED
      BY ONLY <1>0, <1>a, <2>3, <3>1, w \in Workers DEF CountTypes
  <2> QED
    BY <2>2, <2>3, <2>4, <2>5, <2>6 DEF Types
<1>23. ASSUME NEW w \in Workers, EnterSearch(w) PROVE Types'
  <2>1. (QueueTypes /\ HandTypes /\ CountTypes)'
    BY ONLY <1>0, <1>a, <1>e, EnterSearch(w), w \in Workers DEF QueueTypes, HandTypes,
        CountTypes, LifoRunLimit, RoundsBeforePark, PromoteEvery, EnterSearch
  <2>2. StateTypes'
    BY ONLY <1>0, <1>e, EnterSearch(w), w \in Workers DEF StateTypes, EnterSearch
  <2>3. StealTypes'
    BY ONLY <1>0, <1>e, EnterSearch(w), w \in Workers DEF StealTypes, EnterSearch
  <2> QED
    BY <2>1, <2>2, <2>3 DEF Types
<1>24. ASSUME NEW w \in Workers, LeaveSearch(w) PROVE Types'
  <2>1. (QueueTypes /\ HandTypes /\ StealTypes /\ CountTypes)'
    BY ONLY <1>0, <1>a, <1>e, LeaveSearch(w), w \in Workers DEF QueueTypes, HandTypes,
        StealTypes, CountTypes, LifoRunLimit, RoundsBeforePark, PromoteEvery, LeaveSearch
  <2>2. StateTypes'
    BY ONLY <1>0, <1>e, LeaveSearch(w), w \in Workers DEF StateTypes, LeaveSearch
  <2> QED
    BY <2>1, <2>2 DEF Types
<1>25. ASSUME NEW w \in Workers, StealInbox(w) PROVE Types'
  <2>1. todo[w] \subseteq Workers
    BY ONLY <1>0, <1>e, w \in Workers DEF StealTypes
  <2>2. \A v \in todo[w] : inbox[v] # <<>> =>
          Head(inbox[v]) \in Jobs /\ Tail(inbox[v]) \in Seq(Jobs)
    BY ONLY <1>0, <2>1 DEF QueueTypes
  <2>3. (StateTypes /\ CountTypes)'
    BY ONLY <1>0, <1>a, <1>e, StealInbox(w), w \in Workers DEF StateTypes, CountTypes,
        LifoRunLimit, RoundsBeforePark, PromoteEvery, StealInbox
  <2>4. QueueTypes'
    <3>1. /\ UNCHANGED <<injector, lifo, deque, stolen>>
          /\ \/ inbox' = inbox
             \/ \E v \in todo[w] : inbox[v] # <<>> /\ inbox' = [inbox EXCEPT ![v] = Tail(inbox[v])]
      BY ONLY StealInbox(w) DEF StealInbox
    <3> QED
      BY ONLY <1>0, <2>1, <2>2, <3>1 DEF QueueTypes
  <2>5. HandTypes'
    <3>1. /\ UNCHANGED <<mine, hand, done, released, gone>>
          /\ \/ job' = job
             \/ \E v \in todo[w] : inbox[v] # <<>> /\ job' = [job EXCEPT ![w] = Head(inbox[v])]
      BY ONLY StealInbox(w) DEF StealInbox
    <3> QED
      BY ONLY <1>0, <1>e, <2>1, <2>2, <3>1, w \in Workers DEF HandTypes
  <2>6. StealTypes'
    BY ONLY <1>0, <2>1, <2>2, <1>e, StealInbox(w), w \in Workers DEF StealTypes, StealInbox
  <2> QED
    BY <2>3, <2>4, <2>5, <2>6 DEF Types
<1>26. ASSUME NEW w \in Workers, Keep(w) PROVE Types'
  <2>1. job[w] \in Jobs
    BY ONLY <1>d, Keep(w), w \in Workers DEF Keep
  <2>2. Append(injector, job[w]) \in Seq(Jobs) /\ Append(deque[w], job[w]) \in Seq(Jobs)
    BY ONLY <1>0, <2>1, w \in Workers DEF QueueTypes
  <2>3. (StateTypes /\ StealTypes /\ CountTypes)'
    BY ONLY <1>0, <1>a, <1>e, Keep(w), w \in Workers DEF StateTypes, StealTypes, CountTypes,
        LifoRunLimit, RoundsBeforePark, PromoteEvery, Keep
  <2>4. QueueTypes'
    BY ONLY <1>0, <2>1, <2>2, <1>e, Keep(w), w \in Workers DEF QueueTypes, Keep
  <2>5. HandTypes'
    BY ONLY <1>0, <2>1, <2>2, <1>e, Keep(w), w \in Workers DEF HandTypes, Keep
  <2> QED
    BY <2>3, <2>4, <2>5 DEF Types
<1>27. ASSUME NEW w \in Workers, StealDeque(w) PROVE Types'
  <2>1. (StateTypes /\ CountTypes)'
    BY ONLY <1>0, <1>a, <1>e, StealDeque(w), w \in Workers DEF StateTypes, CountTypes,
        LifoRunLimit, RoundsBeforePark, PromoteEvery, StealDeque, StealFrom, Least, Rest
  <2>2. QueueTypes'
    <3>1. PICK v \in Workers : StealFrom(w, v)
      BY ONLY <1>0, <1>e, StealDeque(w), w \in Workers DEF StealDeque, StealTypes
    <3> DEFINE count == Least(Room(w), (Least(Len(deque[v]), PullBatch) + 1) \div 2)
    <3>2. count \in Int /\ count <= Len(deque[v])
      <4>1. Room(w) \in Int /\ Len(deque[v]) \in Nat
        BY ONLY <1>0, <1>a, <3>1, w \in Workers DEF QueueTypes, Room
      <4> QED
        BY ONLY <4>1, <1>f, StealCount
    <3> HIDE DEF count
    <3>3. count > 0 => Rest(deque[v], count) \in Seq(Jobs)
      BY ONLY <1>0, <3>1, <3>2 DEF QueueTypes, Rest
    <3>4. UNCHANGED <<injector, inbox, lifo>>
      BY ONLY StealDeque(w) DEF StealDeque
    <3>5. \/ deque' = deque /\ stolen' = stolen
          \/ /\ count > 0 /\ deque' = [deque EXCEPT ![v] = Rest(deque[v], count)]
             /\ stolen' = [stolen EXCEPT ![v] = count]
      BY ONLY <3>1 DEF StealFrom, count
    <3>6. count > 0 => count \in Nat
      BY ONLY <3>2
    <3>7. v \in Workers
      BY ONLY <3>1
    <3> QED
      BY ONLY <1>0, <3>3, <3>4, <3>5, <3>6, <3>7 DEF QueueTypes
  <2>3. HandTypes'
    <3>1. PICK v \in Workers : StealFrom(w, v)
      BY ONLY <1>0, <1>e, StealDeque(w), w \in Workers DEF StealDeque, StealTypes
    <3> DEFINE count == Least(Room(w), (Least(Len(deque[v]), PullBatch) + 1) \div 2)
    <3>2. count \in Int /\ count <= Len(deque[v])
      <4>1. Room(w) \in Int /\ Len(deque[v]) \in Nat
        BY ONLY <1>0, <1>a, <3>1, w \in Workers DEF QueueTypes, Room
      <4> QED
        BY ONLY <4>1, <1>f, StealCount
    <3> HIDE DEF count
    <3>3. count > 0 => SubSeq(deque[v], 1, count) \in Seq(Jobs)
      BY ONLY <1>0, <3>1, <3>2 DEF QueueTypes
    <3>4. UNCHANGED <<mine, job, done, released, gone>>
      BY ONLY StealDeque(w) DEF StealDeque
    <3>5. hand' = hand \/ (count > 0 /\ hand' = [hand EXCEPT ![w] = SubSeq(deque[v], 1, count)])
      BY ONLY <3>1 DEF StealFrom, count
    <3> QED
      BY ONLY <1>0, w \in Workers, <3>1, <3>2, <3>3, <3>4, <3>5 DEF HandTypes
  <2>4. StealTypes'
    <3>1. todo \in [Procs -> SUBSET Workers] /\ victim \in [Workers -> Workers] /\ w \in Procs
      BY ONLY <1>0, <1>e, w \in Workers DEF StealTypes
    <3>2. UNCHANGED <<script, parking>>
      BY ONLY StealDeque(w) DEF StealDeque
    <3>3. \/ todo' = todo \/ \E v \in todo[w] : todo' = [todo EXCEPT ![w] = todo[w] \ {v}]
      BY ONLY StealDeque(w) DEF StealDeque
    <3>4. \E v \in Workers : victim' = [victim EXCEPT ![w] = v]
      <4>1. PICK v \in Workers : StealFrom(w, v)
        BY ONLY <3>1, StealDeque(w), w \in Workers DEF StealDeque
      <4> QED
        BY ONLY <4>1, w \in Workers DEF StealFrom
    <3> QED
      BY ONLY <1>0, <3>1, <3>2, <3>3, <3>4, w \in Workers DEF StealTypes
  <2> QED
    BY <2>1, <2>2, <2>3, <2>4 DEF Types
<1>28. ASSUME NEW w \in Workers, Land(w) PROVE Types'
  <2>1. deque[w] \o hand[w] \in Seq(Jobs)
    BY ONLY <1>0, w \in Workers DEF QueueTypes, HandTypes
  <2>2. (StateTypes /\ StealTypes /\ CountTypes)'
    BY ONLY <1>0, <1>a, <1>e, Land(w), w \in Workers DEF StateTypes, StealTypes, CountTypes,
        LifoRunLimit, RoundsBeforePark, PromoteEvery, Land
  <2>3. QueueTypes'
    BY ONLY <1>0, <2>1, <1>e, Land(w), w \in Workers DEF QueueTypes, Land
  <2>4. HandTypes'
    BY ONLY <1>0, <2>1, <1>e, Land(w), w \in Workers DEF HandTypes, Land
  <2> QED
    BY <2>2, <2>3, <2>4 DEF Types
<1>29. ASSUME NEW w \in Workers, Release(w) PROVE Types'
  <2>1. (HandTypes /\ StateTypes /\ CountTypes)'
    BY ONLY <1>0, <1>a, <1>e, Release(w), w \in Workers DEF HandTypes, StateTypes, CountTypes,
        LifoRunLimit, RoundsBeforePark, PromoteEvery, Release
  <2>2. QueueTypes'
    BY ONLY <1>0, <1>e, Release(w), w \in Workers DEF QueueTypes, Release
  <2>3. StealTypes'
    BY ONLY <1>0, <1>e, Release(w), w \in Workers DEF StealTypes, Release
  <2> QED
    BY <2>1, <2>2, <2>3 DEF Types
<1>30. ASSUME NEW w \in Workers, Found(w) PROVE Types'
  <2>1. (QueueTypes /\ HandTypes)'
    BY ONLY <1>0, <1>e, Found(w), w \in Workers DEF QueueTypes, HandTypes, Found
  <2>2. UNCHANGED <<LifoRunLimit, RoundsBeforePark, PromoteEvery>>
    BY ONLY Found(w) DEF Found, LifoRunLimit, RoundsBeforePark, PromoteEvery
  <2>3. StateTypes'
    BY ONLY <1>0, <2>2, <1>e, Found(w), w \in Workers DEF StateTypes, Found
  <2>4. StealTypes'
    BY ONLY <1>0, <2>2, <1>e, Found(w), w \in Workers DEF StealTypes, Found
  <2>5. CountTypes'
    BY ONLY <1>0, <1>a, <2>2, <1>e, Found(w), w \in Workers DEF CountTypes, Found
  <2> QED
    BY <2>1, <2>2, <2>3, <2>4, <2>5 DEF Types
<1>31. ASSUME NEW w \in Workers, NothingFound(w) PROVE Types'
  <2>1. (QueueTypes /\ HandTypes /\ CountTypes)'
    BY ONLY <1>0, <1>a, <1>e, NothingFound(w), w \in Workers DEF QueueTypes, HandTypes,
        CountTypes, LifoRunLimit, RoundsBeforePark, PromoteEvery, NothingFound
  <2>2. StateTypes'
    BY ONLY <1>0, <1>e, NothingFound(w), w \in Workers DEF StateTypes, NothingFound
  <2>3. StealTypes'
    BY ONLY <1>0, <1>e, NothingFound(w), w \in Workers DEF StealTypes, NothingFound
  <2> QED
    BY <2>1, <2>2, <2>3 DEF Types
<1>32. ASSUME NEW w \in Workers, TakeReadySlot(w) PROVE Types'
  <2>1. lifo[w] \in Jobs \cup {None}
    BY ONLY <1>0, w \in Workers DEF QueueTypes
  <2>2. (StateTypes /\ StealTypes)'
    BY ONLY <1>0, <1>e, TakeReadySlot(w), w \in Workers DEF StateTypes, StealTypes,
        TakeReadySlot
  <2>3. UNCHANGED <<LifoRunLimit, RoundsBeforePark, PromoteEvery>>
    BY ONLY TakeReadySlot(w) DEF TakeReadySlot, LifoRunLimit, RoundsBeforePark, PromoteEvery
  <2>4. QueueTypes'
    BY ONLY <1>0, <2>1, <2>3, <1>e, TakeReadySlot(w), w \in Workers DEF QueueTypes,
        TakeReadySlot
  <2>5. HandTypes'
    BY ONLY <1>0, <2>1, <2>3, <1>e, TakeReadySlot(w), w \in Workers DEF HandTypes, TakeReadySlot
  <2>6. CountTypes'
    BY ONLY <1>0, <1>a, <2>3, <1>e, TakeReadySlot(w), w \in Workers DEF CountTypes,
        TakeReadySlot
  <2> QED
    BY <2>2, <2>3, <2>4, <2>5, <2>6 DEF Types
<1>33. ASSUME NEW w \in Workers, Idle(w) PROVE Types'
  <2>1. (QueueTypes /\ HandTypes /\ StateTypes /\ StealTypes)'
    BY ONLY <1>0, <1>e, Idle(w), w \in Workers DEF QueueTypes, HandTypes, StateTypes,
        StealTypes, Idle
  <2>2. UNCHANGED <<LifoRunLimit, RoundsBeforePark, PromoteEvery>>
    BY ONLY Idle(w) DEF Idle, LifoRunLimit, RoundsBeforePark, PromoteEvery
  <2>3. CountTypes'
    BY ONLY <1>0, <1>a, <2>2, <1>e, Idle(w), w \in Workers DEF CountTypes, Idle
  <2> QED
    BY <2>1, <2>2, <2>3 DEF Types
<1>34. ASSUME NEW w \in Workers, Announce(w) PROVE Types'
  <2>1. (QueueTypes /\ HandTypes /\ StealTypes /\ CountTypes)'
    BY ONLY <1>0, <1>a, <1>e, Announce(w), w \in Workers DEF QueueTypes, HandTypes, StealTypes,
        CountTypes, LifoRunLimit, RoundsBeforePark, PromoteEvery, Announce
  <2>2. StateTypes'
    BY ONLY <1>0, <1>e, Announce(w), w \in Workers DEF StateTypes, Announce
  <2> QED
    BY <2>1, <2>2 DEF Types
<1>35. ASSUME NEW w \in Workers, Look(w) PROVE Types'
  <2>1. (QueueTypes /\ HandTypes /\ StateTypes /\ CountTypes)'
    BY ONLY <1>0, <1>a, <1>e, Look(w), w \in Workers DEF QueueTypes, HandTypes, StateTypes,
        CountTypes, LifoRunLimit, RoundsBeforePark, PromoteEvery, Look
  <2>2. StealTypes'
    <3>1. /\ UNCHANGED <<script, victim>>
          /\ todo' = todo \/ todo' = [todo EXCEPT ![w] = Workers \ {w}]
          /\ parking' = parking \/ parking' = [parking EXCEPT ![w] = TRUE]
      BY ONLY Look(w) DEF Look
    <3> QED
      BY ONLY <1>0, <1>e, <3>1, w \in Workers DEF StealTypes
  <2> QED
    BY <2>1, <2>2 DEF Types
<1>36. ASSUME NEW w \in Workers, Retract(w) PROVE Types'
  <2>1. (QueueTypes /\ HandTypes /\ StealTypes /\ CountTypes)'
    BY ONLY <1>0, <1>a, <1>e, Retract(w), w \in Workers DEF QueueTypes, HandTypes, StealTypes,
        CountTypes, LifoRunLimit, RoundsBeforePark, PromoteEvery, Retract
  <2>2. StateTypes'
    BY ONLY <1>0, <1>e, Retract(w), w \in Workers DEF StateTypes, Retract
  <2> QED
    BY <2>1, <2>2 DEF Types
<1>37. ASSUME NEW w \in Workers, Park(w) PROVE Types'
  <2>1. (QueueTypes /\ HandTypes /\ StealTypes /\ CountTypes)'
    BY ONLY <1>0, <1>a, <1>e, Park(w), w \in Workers DEF QueueTypes, HandTypes, StealTypes,
        CountTypes, LifoRunLimit, RoundsBeforePark, PromoteEvery, Park
  <2>2. StateTypes'
    BY ONLY <1>0, <1>e, Park(w), w \in Workers DEF StateTypes, Park
  <2> QED
    BY <2>1, <2>2 DEF Types
<1>38. ASSUME NEW w \in Workers, ParkSpuriously(w) PROVE Types'
  <2>1. (QueueTypes /\ HandTypes /\ StateTypes /\ StealTypes /\ CountTypes)'
    BY ONLY <1>0, <1>a, <1>e, ParkSpuriously(w), w \in Workers DEF QueueTypes, HandTypes,
        StateTypes, StealTypes, CountTypes, LifoRunLimit, RoundsBeforePark, PromoteEvery,
        ParkSpuriously
  <2> QED
    BY <2>1 DEF Types
<1>39. ASSUME NEW w \in Workers, Woken(w) PROVE Types'
  <2>1. (QueueTypes /\ HandTypes /\ StealTypes)'
    BY ONLY <1>0, <1>e, Woken(w), w \in Workers DEF QueueTypes, HandTypes, StealTypes, Woken
  <2>2. UNCHANGED <<LifoRunLimit, RoundsBeforePark, PromoteEvery>>
    BY ONLY Woken(w) DEF Woken, LifoRunLimit, RoundsBeforePark, PromoteEvery
  <2>3. StateTypes'
    BY ONLY <1>0, <2>2, <1>e, Woken(w), w \in Workers DEF StateTypes, Woken
  <2>4. CountTypes'
    BY ONLY <1>0, <1>a, <2>2, <1>e, Woken(w), w \in Workers DEF CountTypes, Woken
  <2> QED
    BY <2>1, <2>2, <2>3, <2>4 DEF Types
<1>40. ASSUME NEW w \in Workers, Leave(w) PROVE Types'
  <2>1. injector \o mine[w] \in Seq(Jobs)
    BY ONLY <1>0, w \in Workers DEF QueueTypes, HandTypes
  <2>2. (StealTypes)'
    BY ONLY <1>0, <1>e, Leave(w), w \in Workers DEF StealTypes, Leave, PutQueue
  <2>3. UNCHANGED <<LifoRunLimit, RoundsBeforePark, PromoteEvery>>
    BY ONLY Leave(w) DEF Leave, LifoRunLimit, RoundsBeforePark, PromoteEvery
  <2>4. QueueTypes'
    BY ONLY <1>0, <2>1, <2>3, <1>e, Leave(w), w \in Workers DEF QueueTypes, Leave, PutQueue
  <2>5. HandTypes'
    BY ONLY <1>0, <2>1, <2>3, <1>e, Leave(w), w \in Workers DEF HandTypes, Leave, PutQueue
  <2>6. StateTypes'
    BY ONLY <1>0, <2>1, <2>3, <1>e, Leave(w), w \in Workers DEF StateTypes, Leave, PutQueue
  <2>7. CountTypes'
    BY ONLY <1>0, <1>a, <2>3, <1>e, Leave(w), w \in Workers DEF CountTypes, Leave, PutQueue
  <2> QED
    BY <2>2, <2>3, <2>4, <2>5, <2>6, <2>7 DEF Types
<1>41. ASSUME DropPool PROVE Types'
  <2>1. (StateTypes /\ StealTypes /\ CountTypes)'
    BY ONLY <1>0, DropPool DEF StateTypes, StealTypes, CountTypes, LifoRunLimit, RoundsBeforePark,
        PromoteEvery, DropPool
  <2>2. QueueTypes'
    BY ONLY <1>0, DropPool DEF QueueTypes, DropPool
  <2>3. released' \subseteq Jobs
    <3>1. ToSet(injector) \subseteq Jobs
      BY ONLY <1>0 DEF QueueTypes, ToSet
    <3>2. ToSet(lifo) \ {None} \subseteq Jobs
      BY ONLY <1>0 DEF QueueTypes, ToSet
    <3>3. \A w \in Workers : ToSet(inbox[w]) \cup ToSet(deque[w]) \subseteq Jobs
      BY ONLY <1>0 DEF QueueTypes, ToSet
    <3>4. released \subseteq Jobs
      BY ONLY <1>0 DEF HandTypes
    <3> QED
      BY ONLY <3>1, <3>2, <3>3, <3>4, DropPool DEF DropPool, ReleaseJobs
  <2>4. HandTypes'
    BY ONLY <1>0, <2>3, DropPool DEF HandTypes, DropPool
  <2> QED
    BY <2>1, <2>2, <2>4 DEF Types
<1> QED
  BY <1>1, <1>2, <1>3, <1>4, <1>5, <1>6, <1>7, <1>8, <1>9, <1>10, <1>11, <1>12, <1>13, <1>14,
      <1>15, <1>16, <1>17, <1>18, <1>19, <1>20, <1>21, <1>22, <1>23, <1>24, <1>25, <1>26, <1>27,
      <1>28, <1>29, <1>30, <1>31, <1>32, <1>33, <1>34, <1>35, <1>36, <1>37, <1>38, <1>39, <1>40,
      <1>41
    DEF Next, WorkerStep, ClientStep, Wake

\* A step of a wake-up is a step of one thread.
LEMMA WakeMoves ==
    ASSUME Types, Steps, NEW p \in Procs, Wake(p)
    PROVE  Moves(p)
<1> USE DEF Set, Add, Goto, WakeUp, NoCall, Push, SubmitLocal, Replace, RunNext, Grant, Sweep,
    queueVars, poolVars, stateVars, lifeVars, workerVars, stealVars, countVars, fate
<1>0. /\ mine \in [Workers -> Seq(Jobs)] /\ hand \in [Workers -> Seq(Jobs)]
      /\ job \in [Procs -> Jobs \cup {None}] /\ parking \in [Workers -> BOOLEAN]
      /\ taken \in [Workers -> Nat]
  BY DEF Types, HandTypes, StealTypes, CountTypes
<1>a. pc \in [Procs -> WorkerSteps \cup ClientSteps \cup WakeSteps] /\ call \in [Procs -> CallRecords]
  BY DEF Steps
<1>1. CASE ClaimSleeper(p)
  BY ONLY <1>0, <1>a, <1>1, p \in Procs DEF Moves, ClaimSleeper
<1>2. CASE Unpark(p)
  BY ONLY <1>0, <1>a, <1>2, p \in Procs DEF Moves, Unpark
<1>3. CASE ChooseSpill(p)
  BY ONLY <1>0, <1>a, <1>3, p \in Procs DEF Moves, ChooseSpill
<1>4. CASE Displace(p)
  BY ONLY <1>0, <1>a, <1>4, p \in Procs DEF Moves, Displace
<1>5. CASE WakeOwner(p)
  BY ONLY <1>0, <1>a, <1>5, p \in Procs DEF Moves, WakeOwner, Owner
<1> QED
  BY <1>1, <1>2, <1>3, <1>4, <1>5 DEF Wake

\* A step of a client touches nothing that belongs to another thread.
LEMMA ClientMoves ==
    ASSUME Types, Steps, NEW c \in Clients, ClientStep(c)
    PROVE  Moves(c)
<1> USE DEF Set, Add, Goto, WakeUp, NoCall, Push, SubmitLocal, Replace, RunNext, Grant, Sweep,
    queueVars, poolVars, stateVars, lifeVars, workerVars, stealVars, countVars, fate
<1>0. /\ mine \in [Workers -> Seq(Jobs)] /\ hand \in [Workers -> Seq(Jobs)]
      /\ job \in [Procs -> Jobs \cup {None}] /\ parking \in [Workers -> BOOLEAN]
      /\ taken \in [Workers -> Nat]
  BY DEF Types, HandTypes, StealTypes, CountTypes
<1>a. pc \in [Procs -> WorkerSteps \cup ClientSteps \cup WakeSteps] /\ call \in [Procs -> CallRecords]
  BY DEF Steps
<1>b. c \in Procs
  BY DEF Procs
<1>1. CASE Submit(c)
  BY ONLY <1>0, <1>a, <1>b, <1>1, c \in Clients DEF Moves, Submit
<1>2. CASE SubmitToWorker(c)
  BY ONLY <1>0, <1>a, <1>b, <1>2, c \in Clients DEF Moves, SubmitToWorker
<1>3. CASE ShutDown(c)
  BY ONLY <1>0, <1>a, <1>b, <1>3, c \in Clients DEF Moves, ShutDown
<1>4. CASE UnparkAll(c)
  BY ONLY <1>0, <1>a, <1>b, <1>4, c \in Clients DEF Moves, UnparkAll
<1> QED
  BY <1>1, <1>2, <1>3, <1>4 DEF ClientStep

\* A step of a worker touches nothing that belongs to another thread.
LEMMA WorkerMoves ==
    ASSUME Types, Steps, NEW w \in Workers, WorkerStep(w) \/ ParkSpuriously(w)
    PROVE  Moves(w)
<1> USE DEF Set, Add, Goto, WakeUp, NoCall, Push, SubmitLocal, Replace, RunNext, Grant, Sweep,
    queueVars, poolVars, stateVars, lifeVars, workerVars, stealVars, countVars, fate
<1>0. /\ mine \in [Workers -> Seq(Jobs)] /\ hand \in [Workers -> Seq(Jobs)]
      /\ job \in [Procs -> Jobs \cup {None}] /\ parking \in [Workers -> BOOLEAN]
      /\ taken \in [Workers -> Nat]
  BY DEF Types, HandTypes, StealTypes, CountTypes
<1>a. pc \in [Procs -> WorkerSteps \cup ClientSteps \cup WakeSteps] /\ call \in [Procs -> CallRecords]
  BY DEF Steps
<1>b. w \in Procs
  BY DEF Procs
<1>1. CASE Run(w)
  BY ONLY <1>0, <1>a, <1>b, <1>1, w \in Workers DEF Moves, Run, TakeQueue
<1>2. CASE FinishJob(w)
  BY ONLY <1>0, <1>a, <1>b, <1>2, w \in Workers DEF Moves, FinishJob
<1>3. CASE Unwind(w)
  BY ONLY <1>0, <1>a, <1>b, <1>3, w \in Workers DEF Moves, Unwind, ReleaseJobs, ToSet
<1>4. CASE TakeSlot(w)
  BY ONLY <1>0, <1>a, <1>b, <1>4, w \in Workers DEF Moves, TakeSlot, Served, AfterCapped
<1>5. CASE TakeCapped(w)
  BY ONLY <1>0, <1>a, <1>b, <1>5, w \in Workers DEF Moves, TakeCapped, AfterCapped
<1>6. CASE PushCapped(w)
  BY ONLY <1>0, <1>a, <1>b, <1>6, w \in Workers DEF Moves, PushCapped
<1>7. CASE AnnounceCapped(w)
  BY ONLY <1>0, <1>a, <1>b, <1>7, w \in Workers DEF Moves, AnnounceCapped, AfterCapped
<1>8. CASE PopInjector(w)
  BY ONLY <1>0, <1>a, <1>b, <1>8, w \in Workers DEF Moves, PopInjector
<1>9. CASE LenInjector(w)
  BY ONLY <1>0, <1>a, <1>b, <1>9, w \in Workers DEF Moves, LenInjector, Least
<1>10. CASE PopMine(w)
  BY ONLY <1>0, <1>a, <1>b, <1>10, w \in Workers DEF Moves, PopMine, Front, Last, Promote
<1>11. CASE Share(w)
  BY ONLY <1>0, <1>a, <1>b, <1>11, w \in Workers DEF Moves, Share, AfterShare
<1>12. CASE PopInbox(w)
  BY ONLY <1>0, <1>a, <1>b, <1>12, w \in Workers DEF Moves, PopInbox
<1>13. CASE PopDeque(w)
  BY ONLY <1>0, <1>a, <1>b, <1>13, w \in Workers DEF Moves, PopDeque, Front, Last, AfterPop
<1>14. CASE EnterSearch(w)
  BY ONLY <1>0, <1>a, <1>b, <1>14, w \in Workers DEF Moves, EnterSearch
<1>15. CASE LeaveSearch(w)
  BY ONLY <1>0, <1>a, <1>b, <1>15, w \in Workers DEF Moves, LeaveSearch
<1>16. CASE StealInbox(w)
  BY ONLY <1>0, <1>a, <1>b, <1>16, w \in Workers DEF Moves, StealInbox
<1>17. CASE Keep(w)
  BY ONLY <1>0, <1>a, <1>b, <1>17, w \in Workers DEF Moves, Keep
<1>18. CASE StealDeque(w)
  BY ONLY <1>0, <1>a, <1>b, <1>18, w \in Workers DEF Moves, StealDeque, StealFrom, Least, Rest
<1>19. CASE Land(w)
  BY ONLY <1>0, <1>a, <1>b, <1>19, w \in Workers DEF Moves, Land
<1>20. CASE Release(w)
  BY ONLY <1>0, <1>a, <1>b, <1>20, w \in Workers DEF Moves, Release
<1>21. CASE Found(w)
  BY ONLY <1>0, <1>a, <1>b, <1>21, w \in Workers DEF Moves, Found
<1>22. CASE NothingFound(w)
  BY ONLY <1>0, <1>a, <1>b, <1>22, w \in Workers DEF Moves, NothingFound
<1>23. CASE TakeReadySlot(w)
  BY ONLY <1>0, <1>a, <1>b, <1>23, w \in Workers DEF Moves, TakeReadySlot
<1>24. CASE Idle(w)
  BY ONLY <1>0, <1>a, <1>b, <1>24, w \in Workers DEF Moves, Idle
<1>25. CASE Announce(w)
  BY ONLY <1>0, <1>a, <1>b, <1>25, w \in Workers DEF Moves, Announce
<1>26. CASE Look(w)
  BY ONLY <1>0, <1>a, <1>b, <1>26, w \in Workers DEF Moves, Look
<1>27. CASE Retract(w)
  BY ONLY <1>0, <1>a, <1>b, <1>27, w \in Workers DEF Moves, Retract
<1>28. CASE Park(w)
  BY ONLY <1>0, <1>a, <1>b, <1>28, w \in Workers DEF Moves, Park
<1>29. CASE ParkSpuriously(w)
  BY ONLY <1>0, <1>a, <1>b, <1>29, w \in Workers DEF Moves, ParkSpuriously
<1>30. CASE Woken(w)
  BY ONLY <1>0, <1>a, <1>b, <1>30, w \in Workers DEF Moves, Woken
<1>31. CASE Leave(w)
  BY ONLY <1>0, <1>a, <1>b, <1>31, w \in Workers DEF Moves, Leave, PutQueue
<1> QED
  BY <1>1, <1>2, <1>3, <1>4, <1>5, <1>6, <1>7, <1>8, <1>9, <1>10, <1>11, <1>12, <1>13, <1>14, <1>15,
     <1>16, <1>17, <1>18, <1>19, <1>20, <1>21, <1>22, <1>23, <1>24, <1>25, <1>26, <1>27, <1>28, <1>29, <1>30, <1>31
     DEF WorkerStep

\* The records of the wake-ups.
LEMMA NoCallRecord == NoCall \in CallRecords
BY DEF NoCall, CallRecords, Backs

\* What WakeUp leaves behind.
LEMMA WakeUpRecord ==
    ASSUME Steps, NEW p \in Procs, NEW n \in Int, NEW spare \in SUBSET Workers,
           NEW hint \in Workers \cup {None}, NEW back \in Backs, WakeUp(p, n, spare, hint, back)
    PROVE  /\ call'[p] \in CallRecords /\ pc'[p] = "claim"
           /\ call'[p].left = n /\ call'[p].spare = spare /\ call'[p].hint = hint
           /\ call'[p].back = back
<1>1. /\ call'[p] = [NoCall EXCEPT !.left = n, !.spare = spare, !.hint = hint, !.back = back]
      /\ pc'[p] = "claim"
  BY DEF WakeUp, Set, Goto, Steps
<1>2. PICK c \in CallRecords : c = NoCall
  BY NoCallRecord
<1>3. call'[p] = [c EXCEPT !.left = n, !.spare = spare, !.hint = hint, !.back = back]
  BY ONLY <1>1, <1>2
<1> QED
  BY ONLY <1>1, <1>2, <1>3, n \in Int, spare \in SUBSET Workers, hint \in Workers \cup {None},
     back \in Backs DEF CallRecords

\* What Replace leaves behind.
LEMMA ReplaceRecord ==
    ASSUME Types, Steps, NEW p \in Procs, NEW w \in Workers, NEW j, NEW back \in Backs,
           Replace(p, w, j, back)
    PROVE  /\ call'[p] \in CallRecords
           /\ call'[p].owner = w /\ call'[p].back = back /\ call'[p].left = 0
           /\ pc'[p] \in {"wake_owner", "displace", "put_inbox"}
           /\ pc'[p] = "displace" => Spilling
           /\ job'[p] = lifo[w] /\ (pc'[p] # "wake_owner" => job'[p] \in Jobs)
           /\ lifo' = [lifo EXCEPT ![w] = j]
<1>1. call'[p] = [NoCall EXCEPT !.owner = w, !.back = back]
  BY DEF Replace, Set, Goto, Steps
<1>2. PICK c \in CallRecords : c = NoCall
  BY NoCallRecord
<1>3. call'[p] = [c EXCEPT !.owner = w, !.back = back] /\ c.left = 0
  BY ONLY <1>1, <1>2 DEF NoCall
<1>4. /\ call'[p] \in CallRecords
      /\ call'[p].owner = w /\ call'[p].back = back /\ call'[p].left = 0
  BY ONLY <1>2, <1>3, w \in Workers, back \in Backs DEF CallRecords
<1>5. pc \in [Procs -> WorkerSteps \cup ClientSteps \cup WakeSteps]
  BY DEF Steps
<1>6. job \in [Procs -> Jobs \cup {None}] /\ lifo \in [Workers -> Jobs \cup {None}]
  BY DEF Types, HandTypes, QueueTypes
<1>7. /\ pc'[p] \in {"wake_owner", "displace", "put_inbox"}
      /\ pc'[p] = "displace" => Spilling
      /\ pc'[p] # "wake_owner" => lifo[w] # None
      /\ job'[p] = lifo[w] /\ lifo' = [lifo EXCEPT ![w] = j]
  <2>1. job'[p] = lifo[w] /\ lifo' = [lifo EXCEPT ![w] = j]
    BY ONLY <1>6, Replace(p, w, j, back), p \in Procs DEF Replace, Set
  <2>4. /\ lifo[w] = None => pc'[p] = "wake_owner"
        /\ lifo[w] # None /\ Spilling => pc'[p] = "displace"
        /\ lifo[w] # None /\ ~ Spilling => pc'[p] = "put_inbox"
    <3>1. CASE lifo[w] = None
      BY ONLY <1>5, <3>1, Replace(p, w, j, back), p \in Procs DEF Replace, Goto
    <3>2. CASE lifo[w] # None /\ Spilling
      BY ONLY <1>5, <3>2, Replace(p, w, j, back), p \in Procs DEF Replace, Goto
    <3>3. CASE lifo[w] # None /\ ~ Spilling
      BY ONLY <1>5, <3>3, Replace(p, w, j, back), p \in Procs DEF Replace, Goto
    <3> QED
      BY ONLY <3>1, <3>2, <3>3
  <2> QED
    BY ONLY <2>1, <2>4
<1> QED
  BY ONLY <1>4, <1>6, <1>7, w \in Workers

-----------------------------------------------------------------------------
(* What the actions that wake or submit do to the thread that takes them *)

\* The call is over, and the thread goes on where it was.
Returns(p) == pc'[p] = call[p].back /\ call'[p] = NoCall

\* The call goes on at the given step.
GoesOn(p, step) ==
    /\ pc'[p] = step /\ call'[p] \in CallRecords
    /\ call'[p].back = call[p].back /\ call'[p].owner = call[p].owner

\* A sleeper, or the hint, is unparked next; without either the call is over.
LEMMA ClaimSleeperFlow ==
    ASSUME Types, Steps, NEW p \in Procs, ClaimSleeper(p)
    PROVE  /\ pc[p] = "claim"
           /\ \/ /\ GoesOn(p, "unpark") /\ call'[p].target \in sleeping \ call[p].spare
                 /\ sleeping' = sleeping \ {call'[p].target}
              \/ /\ sleeping \subseteq call[p].spare /\ sleeping' = sleeping
                 /\ (GoesOn(p, "unpark") /\ call'[p].target \in Workers) \/ Returns(p)
<1>0. pc \in [Procs -> WorkerSteps \cup ClientSteps \cup WakeSteps] /\ call \in [Procs -> CallRecords]
  BY DEF Steps
<1>1. PICK c \in CallRecords : c = call[p]
  BY <1>0
<1>2. c.left \in Int /\ c.hint \in Workers \cup {None}
  BY DEF CallRecords
<1>3. sleeping \subseteq Workers
  BY DEF Types, StateTypes
<1>4. CASE \E w \in sleeping \ c.spare :
             /\ sleeping' = sleeping \ {w}
             /\ call' = Set(call, p, [c EXCEPT !.left = @ - 1, !.target = w])
             /\ Goto(p, "unpark")
  <2>1. PICK w \in sleeping \ c.spare :
             /\ sleeping' = sleeping \ {w}
             /\ call' = Set(call, p, [c EXCEPT !.left = @ - 1, !.target = w])
             /\ Goto(p, "unpark")
    BY ONLY <1>4
  <2>2. call'[p] = [c EXCEPT !.left = c.left - 1, !.target = w] /\ pc'[p] = "unpark"
    BY ONLY <1>0, <2>1, p \in Procs DEF Set, Goto
  <2>a. PICK n \in Int : n = c.left - 1
    BY <1>2
  <2>b. w \in Workers
    BY <1>3, <2>1
  <2>3. /\ call'[p] \in CallRecords /\ call'[p].target = w
        /\ call'[p].back = c.back /\ call'[p].owner = c.owner
    <3>1. call'[p] = [c EXCEPT !.left = n, !.target = w]
      BY ONLY <2>2, <2>a
    <3> QED
      BY ONLY <1>1, <2>a, <2>b, <3>1 DEF CallRecords
  <2>4. pc[p] = "claim"
    BY DEF ClaimSleeper
  <2> QED
    BY ONLY <1>1, <2>1, <2>2, <2>3, <2>4 DEF GoesOn
<1>5. CASE /\ sleeping \subseteq c.spare /\ UNCHANGED sleeping /\ c.hint # None
           /\ call' = Set(call, p, [c EXCEPT !.left = 0, !.target = c.hint])
           /\ Goto(p, "unpark")
  <2>2. call'[p] = [c EXCEPT !.left = 0, !.target = c.hint] /\ pc'[p] = "unpark"
    BY ONLY <1>0, <1>5, p \in Procs DEF Set, Goto
  <2>3. /\ call'[p] \in CallRecords /\ call'[p].target = c.hint
        /\ call'[p].back = c.back /\ call'[p].owner = c.owner
    <3>1. PICK n \in Int : n = 0
      OBVIOUS
    <3>2. call'[p] = [c EXCEPT !.left = n, !.target = c.hint]
      BY ONLY <2>2, <3>1
    <3> QED
      BY ONLY <1>1, <1>2, <3>1, <3>2 DEF CallRecords
  <2>4. pc[p] = "claim"
    BY DEF ClaimSleeper
  <2> QED
    BY ONLY <1>1, <1>2, <1>5, <2>2, <2>3, <2>4 DEF GoesOn
<1>6. CASE /\ sleeping \subseteq c.spare /\ UNCHANGED sleeping /\ c.hint = None
           /\ call' = Set(call, p, NoCall) /\ Goto(p, c.back)
  <2>4. pc[p] = "claim"
    BY DEF ClaimSleeper
  <2> QED
    BY ONLY <1>0, <1>1, <1>6, <2>4, p \in Procs DEF Returns, Set, Goto
<1> QED
  BY ONLY <1>1, <1>4, <1>5, <1>6, ClaimSleeper(p) DEF ClaimSleeper

\* The target has its permit; the call claims the next sleeper or is over.
LEMMA UnparkFlow ==
    ASSUME Types, Steps, NEW p \in Procs, Unpark(p)
    PROVE  /\ pc[p] = "unpark" /\ permit' = permit \cup {call[p].target}
           /\ GoesOn(p, "claim") \/ Returns(p)
<1>0. pc \in [Procs -> WorkerSteps \cup ClientSteps \cup WakeSteps] /\ call \in [Procs -> CallRecords]
  BY DEF Steps
<1>1. PICK c \in CallRecords : c = call[p]
  BY <1>0
<1>2. /\ pc[p] = "unpark" /\ permit' = permit \cup {call[p].target}
      /\ \/ call'[p] = [c EXCEPT !.target = None] /\ pc'[p] = "claim"
         \/ Returns(p)
  BY ONLY <1>0, <1>1, p \in Procs, Unpark(p) DEF Unpark, Grant, Set, Goto, Returns
<1>3. call'[p] = [c EXCEPT !.target = None] =>
        call'[p] \in CallRecords /\ call'[p].back = c.back /\ call'[p].owner = c.owner
  BY ONLY <1>1 DEF CallRecords
<1> QED
  BY ONLY <1>1, <1>2, <1>3 DEF GoesOn

\* A spill is chosen only with the owner's inbox not empty.
LEMMA ChooseSpillFlow ==
    ASSUME Types, Steps, NEW p \in Procs, ChooseSpill(p)
    PROVE  /\ pc[p] = "displace" /\ UNCHANGED <<call, job>>
           /\ pc'[p] = "put_inbox" \/ (pc'[p] = "spill" /\ inbox[call[p].owner] # <<>>)
BY DEF ChooseSpill, Goto, Steps

\* The displaced job goes to one queue, and the owner is woken next.
LEMMA DisplaceFlow ==
    ASSUME Types, Steps, NEW p \in Procs, Displace(p)
    PROVE  /\ pc[p] \in {"spill", "put_inbox"} /\ GoesOn(p, "wake_owner")
           /\ pc[p] = "spill" => UNCHANGED inbox
           /\ pc[p] = "put_inbox" =>
                /\ inbox' = [inbox EXCEPT ![call[p].owner] = Append(@, job[p])]
                /\ UNCHANGED injector
<1>0. pc \in [Procs -> WorkerSteps \cup ClientSteps \cup WakeSteps] /\ call \in [Procs -> CallRecords]
  BY DEF Steps
<1>1. PICK c \in CallRecords : c = call[p]
  BY <1>0
<1>2. /\ pc[p] \in {"spill", "put_inbox"} /\ pc'[p] = "wake_owner"
      /\ call'[p] = [c EXCEPT !.left = 1, !.spare = {c.owner}] \/ call'[p] = c
      /\ pc[p] = "spill" => UNCHANGED inbox
      /\ pc[p] = "put_inbox" =>
           /\ inbox' = [inbox EXCEPT ![c.owner] = Append(@, job[p])]
           /\ UNCHANGED injector
  BY ONLY <1>0, <1>1, p \in Procs, Displace(p) DEF Displace, Add, Set, Goto
<1>3. {c.owner} \in SUBSET Workers
  BY <1>1, <1>2 DEF Steps, InStep, OwnerSteps
<1>4. call'[p] \in CallRecords /\ call'[p].back = c.back /\ call'[p].owner = c.owner
  <2>1. ASSUME NEW s \in SUBSET Workers, call'[p] = [c EXCEPT !.left = 1, !.spare = s]
        PROVE  call'[p] \in CallRecords /\ call'[p].back = c.back /\ call'[p].owner = c.owner
    <3>1. PICK n \in Int : n = 1
      OBVIOUS
    <3>2. call'[p] = [c EXCEPT !.left = n, !.spare = s]
      BY ONLY <2>1, <3>1
    <3> QED
      BY ONLY <1>1, s \in SUBSET Workers, <3>1, <3>2 DEF CallRecords
  <2> QED
    BY ONLY <1>1, <1>2, <1>3, <2>1
<1> QED
  BY ONLY <1>1, <1>2, <1>4 DEF GoesOn

\* An owner that sleeps is unparked next.
LEMMA WakeOwnerFlow ==
    ASSUME Types, Steps, NEW p \in Procs, WakeOwner(p)
    PROVE  /\ pc[p] = "wake_owner" /\ sleeping' = sleeping \ {call[p].owner}
           /\ \/ /\ call[p].owner \in sleeping
                 /\ GoesOn(p, "unpark") /\ call'[p].target = call[p].owner
              \/ call[p].owner \notin sleeping /\ (GoesOn(p, "claim") \/ Returns(p))
<1>0. pc \in [Procs -> WorkerSteps \cup ClientSteps \cup WakeSteps] /\ call \in [Procs -> CallRecords]
  BY DEF Steps
<1>1. PICK c \in CallRecords : c = call[p]
  BY <1>0
<1>2. /\ pc[p] = "wake_owner" /\ sleeping' = sleeping \ {c.owner}
      /\ \/ /\ c.owner \in sleeping /\ pc'[p] = "unpark"
            /\ call'[p] = [c EXCEPT !.target = c.owner]
         \/ c.owner \notin sleeping /\ pc'[p] = "claim" /\ call'[p] = c
         \/ c.owner \notin sleeping /\ Returns(p)
  BY ONLY <1>0, <1>1, p \in Procs, WakeOwner(p) DEF WakeOwner, Owner, Set, Goto, Returns
<1>3. c.owner \in Workers \cup {None}
  BY ONLY <1>1 DEF CallRecords
<1>4. call'[p] = [c EXCEPT !.target = c.owner] =>
        /\ call'[p] \in CallRecords /\ call'[p].target = c.owner
        /\ call'[p].back = c.back /\ call'[p].owner = c.owner
  BY ONLY <1>1, <1>3 DEF CallRecords
<1> QED
  BY ONLY <1>1, <1>2, <1>4 DEF GoesOn

\* The thread begins to wake sleepers outside `spare`, and then goes on at `back`.
Starts(p, spare, back) ==
    /\ pc'[p] = "claim" /\ call'[p] \in CallRecords
    /\ call'[p].spare = spare /\ call'[p].back = back

\* A job handed to worker w goes to the injector, with a wake, or to the slot of w.
Hands(p, w, j, back) ==
    \/ /\ Starts(p, {}, back)
       /\ injector' = Append(injector, j) /\ lifo' = lifo
    \/ /\ pc'[p] \in {"wake_owner", "displace", "put_inbox"}
       /\ pc'[p] = "displace" => Spilling
       /\ pc'[p] # "wake_owner" => job'[p] \in Jobs
       /\ call'[p] \in CallRecords /\ call'[p].owner = w /\ call'[p].back = back
       /\ injector' = injector /\ lifo' = [lifo EXCEPT ![w] = j]

\* submit_local hands the job over in one of two ways.
LEMMA SubmitLocalFlow ==
    ASSUME Types, Steps, NEW p \in Procs, NEW w \in Workers, NEW j, NEW back \in Backs,
           SubmitLocal(p, w, j, back)
    PROVE  Hands(p, w, j, back)
<1>0. {} \in SUBSET Workers /\ 1 \in Int /\ None \in Workers \cup {None}
  OBVIOUS
<1>1. CASE Push(p, j, None, back) /\ UNCHANGED lifo
  <2>1. WakeUp(p, 1, {}, None, back) /\ injector' = Append(injector, j) /\ lifo' = lifo
    BY ONLY <1>1 DEF Push
  <2>2. call'[p] \in CallRecords /\ pc'[p] = "claim" /\ call'[p].spare = {} /\ call'[p].back = back
    BY ONLY <1>0, <2>1, WakeUpRecord, Steps, p \in Procs, back \in Backs
  <2> QED
    BY ONLY <2>1, <2>2 DEF Hands, Starts
<1>2. CASE Replace(p, w, j, back) /\ UNCHANGED injector
  <2>1. /\ pc'[p] \in {"wake_owner", "displace", "put_inbox"}
        /\ pc'[p] = "displace" => Spilling
        /\ pc'[p] # "wake_owner" => job'[p] \in Jobs
        /\ call'[p] \in CallRecords /\ call'[p].owner = w /\ call'[p].back = back
        /\ lifo' = [lifo EXCEPT ![w] = j]
    BY <1>2, ReplaceRecord
  <2> QED
    BY ONLY <1>2, <2>1 DEF Hands
<1> QED
  BY <1>1, <1>2 DEF SubmitLocal

\* submit pushes and then claims a sleeper.
LEMMA SubmitFlow ==
    ASSUME Types, Steps, NEW c \in Clients, Submit(c)
    PROVE  /\ pc[c] = "idle" /\ Starts(c, {}, "idle") /\ UNCHANGED job
<1>1. PICK w \in Workers \cup {None} : w = Head(script[c]).worker
  <2>1. Head(script[c]) \in Calls
    BY DEF Submit, Types, StealTypes
  <2> QED
    BY ONLY <2>1, Submit(c) DEF Calls, Submit
<1>2. /\ WakeUp(c, 1, {}, w, "idle")
      /\ pc[c] = "idle" /\ UNCHANGED job
  BY <1>1 DEF Submit, Push
<1>3. {} \in SUBSET Workers /\ 1 \in Int /\ c \in Procs /\ "idle" \in Backs
  BY DEF Procs, Backs
<1>4. call'[c] \in CallRecords /\ pc'[c] = "claim" /\ call'[c].spare = {} /\ call'[c].back = "idle"
  BY ONLY <1>1, <1>2, <1>3, Steps, WakeUpRecord
<1> QED
  BY ONLY <1>2, <1>4 DEF Starts

\* A client hands a job of its script to a worker.
LEMMA SubmitToWorkerFlow ==
    ASSUME Types, Steps, NEW c \in Clients, SubmitToWorker(c)
    PROVE  /\ pc[c] = "idle"
           /\ \E w \in Workers, j \in Jobs : Hands(c, w, j, "idle")
<1>1. Head(script[c]).worker \in Workers /\ Head(script[c]).job \in Jobs
  <2>1. Head(script[c]) \in Calls
    BY DEF SubmitToWorker, Types, StealTypes
  <2> QED
    BY ONLY <2>1, SubmitToWorker(c) DEF Calls, SubmitToWorker
<1>2. PICK w \in Workers, j \in Jobs : SubmitLocal(c, w, j, "idle")
  BY <1>1 DEF SubmitToWorker
<1>3. c \in Procs /\ "idle" \in Backs
  BY DEF Procs, Backs
<1>4. Hands(c, w, j, "idle")
  BY <1>2, <1>3, SubmitLocalFlow
<1> QED
  BY <1>4 DEF SubmitToWorker

\* A job returns, and may have handed another one to its worker.
LEMMA FinishJobFlow ==
    ASSUME Types, Steps, NEW w \in Workers, FinishJob(w)
    PROVE  /\ pc[w] = "run"
           /\ \/ pc'[w] = "slot" /\ UNCHANGED <<call, injector, lifo>>
              \/ \E j \in Jobs : Hands(w, w, j, "slot")
<1>0. /\ pc \in [Procs -> WorkerSteps \cup ClientSteps \cup WakeSteps] /\ w \in Procs
      /\ pc[w] = "run" /\ InStep(w)
  BY DEF Steps, Procs, FinishJob
<1>1. job[w] \in Jobs
  BY ONLY <1>0, w \in Workers DEF InStep, At, WakeSteps, OwnerSteps
<1>2. Wakes[job[w]] \in Jobs \cup {None}
  BY <1>1, SetupFacts DEF Types, StateTypes
<1>3. \/ pc'[w] = "slot" /\ UNCHANGED <<call, injector, lifo>>
      \/ Wakes[job[w]] # None /\ SubmitLocal(w, w, Wakes[job[w]], "slot")
  BY ONLY <1>0, w \in Workers, FinishJob(w) DEF FinishJob, Goto
<1>4. ASSUME Wakes[job[w]] # None, SubmitLocal(w, w, Wakes[job[w]], "slot")
      PROVE  \E j \in Jobs : Hands(w, w, j, "slot")
  <2>1. "slot" \in Backs
    BY DEF Backs
  <2>2. Hands(w, w, Wakes[job[w]], "slot")
    BY <1>0, <1>4, <2>1, SubmitLocalFlow
  <2> QED
    BY ONLY <1>2, <1>4, <2>2
<1> QED
  BY ONLY <1>0, <1>3, <1>4

\* publish_capped_slot goes on, perhaps with a wake in between.
LEMMA AnnounceCappedFlow ==
    ASSUME Types, Steps, NEW w \in Workers, AnnounceCapped(w)
    PROVE  /\ pc[w] = "capped_len" /\ UNCHANGED job
           /\ \/ pc'[w] = AfterCapped /\ UNCHANGED call
              \/ Starts(w, {w}, AfterCapped)
<1>0. /\ pc \in [Procs -> WorkerSteps \cup ClientSteps \cup WakeSteps] /\ w \in Procs
      /\ {w} \in SUBSET Workers /\ 1 \in Int /\ None \in Workers \cup {None}
      /\ AfterCapped \in Backs
  BY DEF Steps, Procs, AfterCapped, Backs
<1>1. /\ pc[w] = "capped_len" /\ UNCHANGED job
      /\ \/ pc'[w] = AfterCapped /\ UNCHANGED call
         \/ WakeUp(w, 1, {w}, None, AfterCapped)
  BY <1>0 DEF AnnounceCapped, Goto
<1>2. ASSUME WakeUp(w, 1, {w}, None, AfterCapped) PROVE Starts(w, {w}, AfterCapped)
  BY ONLY <1>0, <1>2, Steps, WakeUpRecord DEF Starts
<1> QED
  BY <1>1, <1>2

\* take_from_injector goes on, perhaps with wakes in between.
LEMMA LenInjectorFlow ==
    ASSUME Types, Steps, NEW w \in Workers, LenInjector(w)
    PROVE  \E back \in {"mine", "share", "ready", "idle"} :
             /\ pc[w] = "fair_len" => back = "mine"
             /\ pc[w] = "len" /\ taken[w] > 0 => back = "share"
             /\ pc[w] = "len" /\ taken[w] = 0 => back \in {"ready", "idle"}
             /\ pc[w] \in {"fair_len", "len"} /\ UNCHANGED job
             /\ \/ pc'[w] = back /\ UNCHANGED call
                \/ Starts(w, {}, back)
<1>0. /\ pc \in [Procs -> WorkerSteps \cup ClientSteps \cup WakeSteps] /\ w \in Procs
      /\ {} \in SUBSET Workers /\ None \in Workers \cup {None} /\ taken[w] \in Nat
  BY DEF Steps, Procs, Types, CountTypes
<1>1. PICK back \in {"mine", "share", "ready", "idle"} :
         /\ pc[w] = "fair_len" => back = "mine"
         /\ pc[w] = "len" /\ taken[w] > 0 => back = "share"
         /\ pc[w] = "len" /\ taken[w] = 0 => back \in {"ready", "idle"}
         /\ pc[w] \in {"fair_len", "len"} /\ UNCHANGED job
         /\ \/ pc'[w] = back /\ UNCHANGED call
            \/ WakeUp(w, Least(Len(injector), N), {}, None, back)
  <2>1. CASE pc[w] = "fair_len"
    BY <1>0, <2>1 DEF LenInjector, Goto
  <2>2. CASE pc[w] = "len" /\ taken[w] > 0
    BY <1>0, <2>2 DEF LenInjector, Goto
  <2>3. CASE pc[w] = "len" /\ taken[w] = 0 /\ boundary[w]
    BY <1>0, <2>3 DEF LenInjector, Goto
  <2>4. CASE pc[w] = "len" /\ taken[w] = 0 /\ ~ boundary[w]
    BY <1>0, <2>4 DEF LenInjector, Goto
  <2> QED
    BY <1>0, <2>1, <2>2, <2>3, <2>4 DEF LenInjector
<1>2. Least(Len(injector), N) \in Int
  <2>1. Len(injector) \in Nat
    BY DEF Types, QueueTypes
  <2>2. N \in Nat
    BY SetupsAssumption, FS_CardinalityType DEF N
  <2> QED
    BY ONLY <2>1, <2>2 DEF Least
<1>3. ASSUME WakeUp(w, Least(Len(injector), N), {}, None, back) PROVE Starts(w, {}, back)
  <2>1. back \in Backs
    BY <1>1 DEF Backs
  <2> QED
    BY ONLY <1>0, <1>2, <1>3, <2>1, Steps, WakeUpRecord DEF Starts
<1> QED
  BY <1>1, <1>3

\* share goes on with its loop, or leaves it, perhaps with wakes in between.
LEMMA ShareFlow ==
    ASSUME Types, Steps, NEW w \in Workers, Share(w)
    PROVE  /\ pc[w] = "share" /\ UNCHANGED job
           /\ \/ UNCHANGED <<pc, call>>
              \/ pc'[w] = AfterShare(w) /\ UNCHANGED call
              \/ Starts(w, {w}, AfterShare(w))
<1>0. /\ pc \in [Procs -> WorkerSteps \cup ClientSteps \cup WakeSteps] /\ w \in Procs
      /\ {w} \in SUBSET Workers /\ taken[w] \in Int /\ None \in Workers \cup {None}
      /\ AfterShare(w) \in Backs
  BY DEF Steps, Procs, AfterShare, Backs, Types, CountTypes
<1>1. /\ pc[w] = "share" /\ UNCHANGED job
      /\ \/ UNCHANGED <<pc, call>>
         \/ pc'[w] = AfterShare(w) /\ UNCHANGED call
         \/ WakeUp(w, taken[w], {w}, None, AfterShare(w))
  BY <1>0 DEF Share, Goto
<1>2. ASSUME WakeUp(w, taken[w], {w}, None, AfterShare(w)) PROVE Starts(w, {w}, AfterShare(w))
  BY ONLY <1>0, <1>2, Steps, WakeUpRecord DEF Starts
<1> QED
  BY <1>1, <1>2

\* The stolen job is in the deque, or in the injector with a wake to follow.
LEMMA KeepFlow ==
    ASSUME Types, Steps, NEW w \in Workers, Keep(w)
    PROVE  /\ pc[w] = "keep"
           /\ \/ pc'[w] = "found" /\ UNCHANGED <<call, injector>>
              \/ Starts(w, {}, "found")
<1>0. /\ pc \in [Procs -> WorkerSteps \cup ClientSteps \cup WakeSteps] /\ w \in Procs
      /\ {} \in SUBSET Workers /\ 1 \in Int /\ w \in Workers \cup {None}
      /\ "found" \in Backs
  BY DEF Steps, Procs, Backs
<1>1. /\ pc[w] = "keep"
      /\ \/ pc'[w] = "found" /\ UNCHANGED <<call, injector>>
         \/ WakeUp(w, 1, {}, w, "found")
  BY <1>0 DEF Keep, Push, Goto
<1>2. ASSUME WakeUp(w, 1, {}, w, "found") PROVE Starts(w, {}, "found")
  BY ONLY <1>0, <1>2, Steps, WakeUpRecord DEF Starts
<1> QED
  BY <1>1, <1>2

\* The steal is over, perhaps with a wake in between.
LEMMA ReleaseFlow ==
    ASSUME Types, Steps, NEW w \in Workers, Release(w)
    PROVE  /\ pc[w] = "release" /\ UNCHANGED job
           /\ \/ pc'[w] = "found" /\ UNCHANGED call
              \/ Starts(w, {w}, "found")
<1>0. /\ pc \in [Procs -> WorkerSteps \cup ClientSteps \cup WakeSteps] /\ w \in Procs
      /\ {w} \in SUBSET Workers /\ 1 \in Int /\ None \in Workers \cup {None}
      /\ "found" \in Backs
  BY DEF Steps, Procs, Backs
<1>1. /\ pc[w] = "release" /\ UNCHANGED job
      /\ \/ pc'[w] = "found" /\ UNCHANGED call
         \/ WakeUp(w, 1, {w}, None, "found")
  BY <1>0 DEF Release, Goto
<1>2. ASSUME WakeUp(w, 1, {w}, None, "found") PROVE Starts(w, {w}, "found")
  BY ONLY <1>0, <1>2, Steps, WakeUpRecord DEF Starts
<1> QED
  BY <1>1, <1>2

\* The steps of a wake-up lead to steps of the thread that takes them.
LEMMA WakeLeads ==
    ASSUME Types, Steps, NEW p \in Procs, Wake(p)
    PROVE  InStep(p)' /\ call'[p] \in CallRecords
<1> USE DEF Set, Add, Goto, WakeUp, NoCall, Push, SubmitLocal, Replace, RunNext, Grant, Sweep,
    queueVars, poolVars, stateVars, lifeVars, workerVars, stealVars, countVars, fate,
    WorkerSteps, ClientSteps, WakeSteps, OwnerSteps, StealSteps, Backs
<1>0. /\ pc \in [Procs -> WorkerSteps \cup ClientSteps \cup WakeSteps]
      /\ call \in [Procs -> CallRecords] /\ p \in Procs /\ Workers \cap Clients = {}
  BY SetupsAssumption DEF Steps, Procs
<1>a. InStep(p) /\ call[p] \in CallRecords
  BY <1>0 DEF Steps
<1>b. /\ lifo \in [Workers -> Jobs \cup {None}] /\ job \in [Procs -> Jobs \cup {None}]
      /\ \A w \in Workers : mine[w] \in Seq(Jobs) /\ inbox[w] \in Seq(Jobs) /\ deque[w] \in Seq(Jobs)
      /\ sleeping \subseteq Workers /\ setup \in Setups /\ todo \in [Procs -> SUBSET Workers]
  BY DEF Types, QueueTypes, HandTypes, StateTypes, StealTypes
<1>c. UNCHANGED Spilling
  BY WakeMoves DEF Moves, Spilling, ShareDisplaced, StealableInbox
<1>1. CASE ClaimSleeper(p)
  <2>1. /\ pc[p] = "claim"
        /\ \/ /\ GoesOn(p, "unpark") /\ call'[p].target \in sleeping \ call[p].spare
              /\ sleeping' = sleeping \ {call'[p].target}
           \/ /\ sleeping \subseteq call[p].spare /\ sleeping' = sleeping
              /\ (GoesOn(p, "unpark") /\ call'[p].target \in Workers) \/ Returns(p)
    BY <1>1, ClaimSleeperFlow
  <2>2. UNCHANGED job
    BY <1>1 DEF ClaimSleeper
  <2> QED
    BY ONLY <1>0, <1>a, <1>b, <1>c, <2>1, <2>2, NoCallRecord, p \in Procs DEF InStep, At,
        CallRecords, Starts, GoesOn, Returns, Hands, NoCall
<1>2. CASE Unpark(p)
  <2>1. /\ pc[p] = "unpark" /\ permit' = permit \cup {call[p].target}
        /\ GoesOn(p, "claim") \/ Returns(p)
    BY <1>2, UnparkFlow
  <2>2. UNCHANGED job
    BY <1>2 DEF Unpark
  <2> QED
    BY ONLY <1>0, <1>a, <1>b, <1>c, <2>1, <2>2, NoCallRecord, p \in Procs DEF InStep, At,
        CallRecords, Starts, GoesOn, Returns, Hands, NoCall
<1>3. CASE ChooseSpill(p)
  <2>1. /\ pc[p] = "displace" /\ UNCHANGED <<call, job>>
        /\ pc'[p] = "put_inbox" \/ (pc'[p] = "spill" /\ inbox[call[p].owner] # <<>>)
    BY <1>3, ChooseSpillFlow
  <2> QED
    BY ONLY <1>0, <1>a, <1>b, <1>c, <2>1, NoCallRecord, p \in Procs DEF InStep, At, CallRecords,
        Starts, GoesOn, Returns, Hands, NoCall
<1>4. CASE Displace(p)
  <2>1. /\ pc[p] \in {"spill", "put_inbox"} /\ GoesOn(p, "wake_owner")
        /\ pc[p] = "spill" => UNCHANGED inbox
        /\ pc[p] = "put_inbox" =>
             /\ inbox' = [inbox EXCEPT ![call[p].owner] = Append(@, job[p])]
             /\ UNCHANGED injector
    BY <1>4, DisplaceFlow
  <2> QED
    BY ONLY <1>0, <1>a, <1>b, <1>c, <2>1, NoCallRecord, p \in Procs DEF InStep, At, CallRecords,
        Starts, GoesOn, Returns, Hands, NoCall
<1>5. CASE WakeOwner(p)
  <2>1. /\ pc[p] = "wake_owner" /\ sleeping' = sleeping \ {call[p].owner}
        /\ \/ /\ call[p].owner \in sleeping
              /\ GoesOn(p, "unpark") /\ call'[p].target = call[p].owner
           \/ call[p].owner \notin sleeping /\ (GoesOn(p, "claim") \/ Returns(p))
    BY <1>5, WakeOwnerFlow
  <2>2. UNCHANGED job
    BY <1>5 DEF WakeOwner
  <2> QED
    BY ONLY <1>0, <1>a, <1>b, <1>c, <2>1, <2>2, NoCallRecord, p \in Procs DEF InStep, At,
        CallRecords, Starts, GoesOn, Returns, Hands, NoCall
<1> QED
  BY <1>1, <1>2, <1>3, <1>4, <1>5 DEF Wake

\* So do those of the clients ...
LEMMA ClientLeads ==
    ASSUME Types, Steps, NEW c \in Clients, ClientStep(c)
    PROVE  InStep(c)' /\ call'[c] \in CallRecords
<1> USE DEF Set, Add, Goto, WakeUp, NoCall, Push, SubmitLocal, Replace, RunNext, Grant, Sweep,
    queueVars, poolVars, stateVars, lifeVars, workerVars, stealVars, countVars, fate,
    WorkerSteps, ClientSteps, WakeSteps, OwnerSteps, StealSteps, Backs
<1>0. /\ pc \in [Procs -> WorkerSteps \cup ClientSteps \cup WakeSteps]
      /\ call \in [Procs -> CallRecords] /\ c \in Procs /\ Workers \cap Clients = {}
  BY SetupsAssumption DEF Steps, Procs
<1>a. InStep(c) /\ call[c] \in CallRecords
  BY <1>0 DEF Steps
<1>b. /\ lifo \in [Workers -> Jobs \cup {None}] /\ job \in [Procs -> Jobs \cup {None}]
      /\ \A w \in Workers : mine[w] \in Seq(Jobs) /\ inbox[w] \in Seq(Jobs) /\ deque[w] \in Seq(Jobs)
      /\ sleeping \subseteq Workers /\ setup \in Setups /\ todo \in [Procs -> SUBSET Workers]
  BY DEF Types, QueueTypes, HandTypes, StateTypes, StealTypes
<1>c. UNCHANGED Spilling
  BY ClientMoves DEF Moves, Spilling, ShareDisplaced, StealableInbox
<1>1. CASE Submit(c)
  <2>1. /\ pc[c] = "idle" /\ Starts(c, {}, "idle") /\ UNCHANGED job
    BY <1>1, SubmitFlow
  <2> QED
    BY ONLY <1>0, <1>a, <1>b, <1>c, <2>1, NoCallRecord, c \in Clients DEF InStep, At,
        CallRecords, Starts, GoesOn, Returns, Hands, NoCall
<1>2. CASE SubmitToWorker(c)
  <2>1. /\ pc[c] = "idle"
        /\ \E w \in Workers, j \in Jobs : Hands(c, w, j, "idle")
    BY <1>2, SubmitToWorkerFlow
  <2> QED
    BY ONLY <1>0, <1>a, <1>b, <1>c, <2>1, NoCallRecord, c \in Clients DEF InStep, At,
        CallRecords, Starts, GoesOn, Returns, Hands, NoCall
<1>3. CASE ShutDown(c)
  <2>1. /\ pc[c] = "idle" /\ pc'[c] = "unpark_all"
        /\ UNCHANGED <<call, job>>
    BY ONLY <1>0, <1>b, <1>3, c \in Clients DEF ShutDown
  <2> QED
    BY ONLY <1>0, <1>a, <1>c, <2>1, c \in Clients DEF InStep, At, CallRecords
<1>4. CASE UnparkAll(c)
  <2>1. call'[c] \in CallRecords
    BY ONLY <1>0, <1>a, <1>4, c \in Clients DEF UnparkAll
  <2>2. InStep(c)'
    BY ONLY <1>0, <1>a, <1>b, <1>c, <1>4, c \in Clients DEF InStep, At, UnparkAll
  <2> QED
    BY <2>1, <2>2
<1> QED
  BY <1>1, <1>2, <1>3, <1>4 DEF ClientStep

\* ... and those of the workers.
LEMMA WorkerLeads ==
    ASSUME Types, Steps, NEW w \in Workers, WorkerStep(w) \/ ParkSpuriously(w)
    PROVE  InStep(w)' /\ call'[w] \in CallRecords
<1> USE DEF Set, Add, Goto, WakeUp, NoCall, Push, SubmitLocal, Replace, RunNext, Grant, Sweep,
    queueVars, poolVars, stateVars, lifeVars, workerVars, stealVars, countVars, fate,
    WorkerSteps, ClientSteps, WakeSteps, OwnerSteps, StealSteps, Backs
<1>0. /\ pc \in [Procs -> WorkerSteps \cup ClientSteps \cup WakeSteps]
      /\ call \in [Procs -> CallRecords] /\ w \in Procs /\ Workers \cap Clients = {}
  BY SetupsAssumption DEF Steps, Procs
<1>a. InStep(w) /\ call[w] \in CallRecords
  BY <1>0 DEF Steps
<1>b. /\ lifo \in [Workers -> Jobs \cup {None}] /\ job \in [Procs -> Jobs \cup {None}]
      /\ \A v \in Workers : mine[v] \in Seq(Jobs) /\ inbox[v] \in Seq(Jobs) /\ deque[v] \in Seq(Jobs)
      /\ sleeping \subseteq Workers /\ setup \in Setups /\ todo \in [Procs -> SUBSET Workers]
  BY DEF Types, QueueTypes, HandTypes, StateTypes, StealTypes
<1>c. UNCHANGED Spilling
  BY WorkerMoves DEF Moves, Spilling, ShareDisplaced, StealableInbox
<1>1. CASE Run(w)
  <2>1. call'[w] \in CallRecords
    BY ONLY <1>0, <1>a, <1>1, w \in Workers DEF Run
  <2>2. InStep(w)'
    BY ONLY <1>0, <1>a, <1>b, <1>c, <1>1, w \in Workers DEF InStep, At, Run, TakeQueue
  <2> QED
    BY <2>1, <2>2
<1>2. CASE FinishJob(w)
  <2>1. /\ pc[w] = "run"
        /\ \/ pc'[w] = "slot" /\ UNCHANGED <<call, injector, lifo>>
           \/ \E j \in Jobs : Hands(w, w, j, "slot")
    BY <1>2, FinishJobFlow
  <2> QED
    BY ONLY <1>0, <1>a, <1>b, <1>c, <2>1, NoCallRecord, w \in Workers DEF InStep, At,
        CallRecords, Starts, GoesOn, Returns, Hands, NoCall
<1>3. CASE Unwind(w)
  <2>1. call'[w] \in CallRecords
    BY ONLY <1>0, <1>a, <1>3, w \in Workers DEF Unwind
  <2>2. InStep(w)'
    BY ONLY <1>0, <1>a, <1>b, <1>c, <1>3, w \in Workers DEF InStep, At, Unwind, ReleaseJobs,
        ToSet
  <2> QED
    BY <2>1, <2>2
<1>4. CASE TakeSlot(w)
  <2>1. call'[w] \in CallRecords
    BY ONLY <1>0, <1>a, <1>4, w \in Workers DEF TakeSlot
  <2>2. InStep(w)'
    BY ONLY <1>0, <1>a, <1>b, <1>c, <1>4, w \in Workers DEF InStep, At, TakeSlot, Served,
        AfterCapped
  <2> QED
    BY <2>1, <2>2
<1>5. CASE TakeCapped(w)
  <2>1. call'[w] \in CallRecords
    BY ONLY <1>0, <1>a, <1>5, w \in Workers DEF TakeCapped
  <2>2. InStep(w)'
    BY ONLY <1>0, <1>a, <1>b, <1>c, <1>5, w \in Workers DEF InStep, At, TakeCapped, AfterCapped
  <2> QED
    BY <2>1, <2>2
<1>6. CASE PushCapped(w)
  <2>1. call'[w] \in CallRecords
    BY ONLY <1>0, <1>a, <1>6, w \in Workers DEF PushCapped
  <2>2. InStep(w)'
    BY ONLY <1>0, <1>a, <1>b, <1>c, <1>6, w \in Workers DEF InStep, At, PushCapped
  <2> QED
    BY <2>1, <2>2
<1>7. CASE AnnounceCapped(w)
  <2>1. /\ pc[w] = "capped_len" /\ UNCHANGED job
        /\ \/ pc'[w] = AfterCapped /\ UNCHANGED call
           \/ Starts(w, {w}, AfterCapped)
    BY <1>7, AnnounceCappedFlow
  <2> QED
    BY ONLY <1>0, <1>a, <1>b, <1>c, <2>1, NoCallRecord, w \in Workers DEF InStep, At,
        CallRecords, Starts, GoesOn, Returns, Hands, NoCall, AfterCapped
<1>8. CASE PopInjector(w)
  <2>1. call'[w] \in CallRecords
    BY ONLY <1>0, <1>a, <1>8, w \in Workers DEF PopInjector
  <2>2. InStep(w)'
    BY ONLY <1>0, <1>a, <1>b, <1>c, <1>8, w \in Workers DEF InStep, At, PopInjector
  <2> QED
    BY <2>1, <2>2
<1>9. CASE LenInjector(w)
  <2>1. \E back \in {"mine", "share", "ready", "idle"} :
          /\ pc[w] = "fair_len" => back = "mine"
          /\ pc[w] = "len" /\ taken[w] > 0 => back = "share"
          /\ pc[w] = "len" /\ taken[w] = 0 => back \in {"ready", "idle"}
          /\ pc[w] \in {"fair_len", "len"} /\ UNCHANGED job
          /\ \/ pc'[w] = back /\ UNCHANGED call
             \/ Starts(w, {}, back)
    BY <1>9, LenInjectorFlow
  <2> QED
    BY ONLY <1>0, <1>a, <1>b, <1>c, <2>1, NoCallRecord, w \in Workers DEF InStep, At,
        CallRecords, Starts, GoesOn, Returns, Hands, NoCall
<1>10. CASE PopMine(w)
  <2>1. call'[w] \in CallRecords
    BY ONLY <1>0, <1>a, <1>10, w \in Workers DEF PopMine
  <2>2. InStep(w)'
    BY ONLY <1>0, <1>a, <1>b, <1>c, <1>10, w \in Workers DEF InStep, At, PopMine, Front, Last,
        Promote
  <2> QED
    BY <2>1, <2>2
<1>11. CASE Share(w)
  <2>1. /\ pc[w] = "share" /\ UNCHANGED job
        /\ \/ UNCHANGED <<pc, call>>
           \/ pc'[w] = AfterShare(w) /\ UNCHANGED call
           \/ Starts(w, {w}, AfterShare(w))
    BY <1>11, ShareFlow
  <2>2. AfterShare(w) = "slot" \/ (AfterShare(w) = "run" /\ job[w] \in Jobs)
    BY <1>b, <1>0 DEF AfterShare
  <2> QED
    BY ONLY <1>0, <1>a, <1>b, <1>c, <2>1, <2>2, NoCallRecord, w \in Workers DEF InStep, At,
        CallRecords, Starts, GoesOn, Returns, Hands, NoCall
<1>12. CASE PopInbox(w)
  <2>1. call'[w] \in CallRecords
    BY ONLY <1>0, <1>a, <1>12, w \in Workers DEF PopInbox
  <2>2. InStep(w)'
    BY ONLY <1>0, <1>a, <1>b, <1>c, <1>12, w \in Workers DEF InStep, At, PopInbox
  <2> QED
    BY <2>1, <2>2
<1>13. CASE PopDeque(w)
  <2>1. call'[w] \in CallRecords
    BY ONLY <1>0, <1>a, <1>13, w \in Workers DEF PopDeque
  <2>2. InStep(w)'
    BY ONLY <1>0, <1>a, <1>b, <1>c, <1>13, w \in Workers DEF InStep, At, PopDeque, Front, Last,
        AfterPop
  <2> QED
    BY <2>1, <2>2
<1>14. CASE EnterSearch(w)
  <2>1. call'[w] \in CallRecords
    BY ONLY <1>0, <1>a, <1>14, w \in Workers DEF EnterSearch
  <2>2. InStep(w)'
    BY ONLY <1>0, <1>a, <1>b, <1>c, <1>14, w \in Workers DEF InStep, At, EnterSearch
  <2> QED
    BY <2>1, <2>2
<1>15. CASE LeaveSearch(w)
  <2>1. call'[w] \in CallRecords
    BY ONLY <1>0, <1>a, <1>15, w \in Workers DEF LeaveSearch
  <2>2. InStep(w)'
    BY ONLY <1>0, <1>a, <1>b, <1>c, <1>15, w \in Workers DEF InStep, At, LeaveSearch
  <2> QED
    BY <2>1, <2>2
<1>16. CASE StealInbox(w)
  <2>1. call'[w] \in CallRecords
    BY ONLY <1>0, <1>a, <1>16, w \in Workers DEF StealInbox
  <2>2. InStep(w)'
    BY ONLY <1>0, <1>a, <1>b, <1>c, <1>16, w \in Workers DEF InStep, At, StealInbox
  <2> QED
    BY <2>1, <2>2
<1>17. CASE Keep(w)
  <2>1. /\ pc[w] = "keep"
        /\ \/ pc'[w] = "found" /\ UNCHANGED <<call, injector>>
           \/ Starts(w, {}, "found")
    BY <1>17, KeepFlow
  <2> QED
    BY ONLY <1>0, <1>a, <1>b, <1>c, <2>1, NoCallRecord, w \in Workers DEF InStep, At,
        CallRecords, Starts, GoesOn, Returns, Hands, NoCall
<1>18. CASE StealDeque(w)
  <2>1. /\ pc[w] \in {"steal_deque", "steal"} /\ pc'[w] \in {"steal", "land"}
        /\ UNCHANGED <<call, job>>
    BY ONLY <1>0, <1>b, <1>18, w \in Workers DEF StealDeque, StealFrom, Least, Rest
  <2> QED
    BY ONLY <1>0, <1>a, <1>c, <2>1, w \in Workers DEF InStep, At, CallRecords
<1>19. CASE Land(w)
  <2>1. call'[w] \in CallRecords
    BY ONLY <1>0, <1>a, <1>19, w \in Workers DEF Land
  <2>2. InStep(w)'
    BY ONLY <1>0, <1>a, <1>b, <1>c, <1>19, w \in Workers DEF InStep, At, Land
  <2> QED
    BY <2>1, <2>2
<1>20. CASE Release(w)
  <2>1. /\ pc[w] = "release" /\ UNCHANGED job
        /\ \/ pc'[w] = "found" /\ UNCHANGED call
           \/ Starts(w, {w}, "found")
    BY <1>20, ReleaseFlow
  <2> QED
    BY ONLY <1>0, <1>a, <1>b, <1>c, <2>1, NoCallRecord, w \in Workers DEF InStep, At,
        CallRecords, Starts, GoesOn, Returns, Hands, NoCall
<1>21. CASE Found(w)
  <2>1. call'[w] \in CallRecords
    BY ONLY <1>0, <1>a, <1>21, w \in Workers DEF Found
  <2>2. InStep(w)'
    BY ONLY <1>0, <1>a, <1>b, <1>c, <1>21, w \in Workers DEF InStep, At, Found
  <2> QED
    BY <2>1, <2>2
<1>22. CASE NothingFound(w)
  <2>1. call'[w] \in CallRecords
    BY ONLY <1>0, <1>a, <1>22, w \in Workers DEF NothingFound
  <2>2. InStep(w)'
    BY ONLY <1>0, <1>a, <1>b, <1>c, <1>22, w \in Workers DEF InStep, At, NothingFound
  <2> QED
    BY <2>1, <2>2
<1>23. CASE TakeReadySlot(w)
  <2>1. call'[w] \in CallRecords
    BY ONLY <1>0, <1>a, <1>23, w \in Workers DEF TakeReadySlot
  <2>2. InStep(w)'
    BY ONLY <1>0, <1>a, <1>b, <1>c, <1>23, w \in Workers DEF InStep, At, TakeReadySlot
  <2> QED
    BY <2>1, <2>2
<1>24. CASE Idle(w)
  <2>1. /\ pc[w] = "idle" /\ pc'[w] \in {"leave", "slot", "announce"}
        /\ UNCHANGED <<call, job>>
    BY ONLY <1>0, <1>b, <1>24, w \in Workers DEF Idle
  <2> QED
    BY ONLY <1>0, <1>a, <1>c, <2>1, w \in Workers DEF InStep, At, CallRecords
<1>25. CASE Announce(w)
  <2>1. call'[w] \in CallRecords
    BY ONLY <1>0, <1>a, <1>25, w \in Workers DEF Announce
  <2>2. InStep(w)'
    BY ONLY <1>0, <1>a, <1>b, <1>c, <1>25, w \in Workers DEF InStep, At, Announce
  <2> QED
    BY <2>1, <2>2
<1>26. CASE Look(w)
  <2>1. call'[w] \in CallRecords
    BY ONLY <1>0, <1>a, <1>26, w \in Workers DEF Look
  <2>2. InStep(w)'
    BY ONLY <1>0, <1>a, <1>b, <1>c, <1>26, w \in Workers DEF InStep, At, Look
  <2> QED
    BY <2>1, <2>2
<1>27. CASE Retract(w)
  <2>1. call'[w] \in CallRecords
    BY ONLY <1>0, <1>a, <1>27, w \in Workers DEF Retract
  <2>2. InStep(w)'
    BY ONLY <1>0, <1>a, <1>b, <1>c, <1>27, w \in Workers DEF InStep, At, Retract
  <2> QED
    BY <2>1, <2>2
<1>28. CASE Park(w)
  <2>1. call'[w] \in CallRecords
    BY ONLY <1>0, <1>a, <1>28, w \in Workers DEF Park
  <2>2. InStep(w)'
    BY ONLY <1>0, <1>a, <1>b, <1>c, <1>28, w \in Workers DEF InStep, At, Park
  <2> QED
    BY <2>1, <2>2
<1>29. CASE ParkSpuriously(w)
  <2>1. call'[w] \in CallRecords
    BY ONLY <1>0, <1>a, <1>29, w \in Workers DEF ParkSpuriously
  <2>2. InStep(w)'
    BY ONLY <1>0, <1>a, <1>b, <1>c, <1>29, w \in Workers DEF InStep, At, ParkSpuriously
  <2> QED
    BY <2>1, <2>2
<1>30. CASE Woken(w)
  <2>1. call'[w] \in CallRecords
    BY ONLY <1>0, <1>a, <1>30, w \in Workers DEF Woken
  <2>2. InStep(w)'
    BY ONLY <1>0, <1>a, <1>b, <1>c, <1>30, w \in Workers DEF InStep, At, Woken
  <2> QED
    BY <2>1, <2>2
<1>31. CASE Leave(w)
  <2>1. call'[w] \in CallRecords
    BY ONLY <1>0, <1>a, <1>31, w \in Workers DEF Leave
  <2>2. InStep(w)'
    BY ONLY <1>0, <1>a, <1>b, <1>c, <1>31, w \in Workers DEF InStep, At, Leave, PutQueue
  <2> QED
    BY <2>1, <2>2
<1> QED
  BY <1>1, <1>2, <1>3, <1>4, <1>5, <1>6, <1>7, <1>8, <1>9, <1>10, <1>11, <1>12, <1>13, <1>14, <1>15,
     <1>16, <1>17, <1>18, <1>19, <1>20, <1>21, <1>22, <1>23, <1>24, <1>25, <1>26, <1>27, <1>28, <1>29, <1>30, <1>31
     DEF WorkerStep
\* A step of one thread leaves the others where they are.
LEMMA OthersStay ==
    ASSUME Types, Steps, NEW p \in Procs, Moves(p), NEW q \in Procs, q # p
    PROVE  InStep(q)'
<1>1. pc'[q] = pc[q] /\ call'[q] = call[q] /\ job'[q] = job[q] /\ InStep(q)
  <2>1. /\ pc \in [Procs -> WorkerSteps \cup ClientSteps \cup WakeSteps]
        /\ call \in [Procs -> CallRecords] /\ job \in [Procs -> Jobs \cup {None}]
        /\ pc' = [pc EXCEPT ![p] = pc'[p]] /\ call' = [call EXCEPT ![p] = call'[p]]
        /\ job' = [job EXCEPT ![p] = job'[p]] /\ InStep(q)
    BY DEF Moves, Steps, Types, HandTypes
  <2> QED
    BY ONLY <2>1, q \in Procs, q # p
<1>2. Spilling' = Spilling
  BY DEF Moves, Spilling, ShareDisplaced, StealableInbox
<1>3. At(q)' = At(q)
  BY ONLY <1>1 DEF At
<1> QED
  BY ONLY <1>1, <1>2, <1>3 DEF InStep

\* Every step of the pool but its drop is one of a thread.
LEMMA NextIsOneThreads ==
    ASSUME Types, Steps, Next, ~ DropPool
    PROVE  \E p \in Procs : Moves(p) /\ InStep(p)' /\ call'[p] \in CallRecords
<1>1. ASSUME NEW p \in Procs, Wake(p) PROVE Moves(p) /\ InStep(p)' /\ call'[p] \in CallRecords
  BY <1>1, WakeMoves, WakeLeads
<1>2. ASSUME NEW c \in Clients, ClientStep(c)
      PROVE  c \in Procs /\ Moves(c) /\ InStep(c)' /\ call'[c] \in CallRecords
  BY <1>2, ClientMoves, ClientLeads DEF Procs
<1>3. ASSUME NEW w \in Workers, WorkerStep(w) \/ ParkSpuriously(w)
      PROVE  w \in Procs /\ Moves(w) /\ InStep(w)' /\ call'[w] \in CallRecords
  BY <1>3, WorkerMoves, WorkerLeads DEF Procs
<1> QED
  BY <1>1, <1>2, <1>3 DEF Next

\* Every thread stays at a step it can be at, with what it needs there.
LEMMA StepsKept ==
    ASSUME Types, Steps, Next
    PROVE  Steps'
<1>1. CASE DropPool
  <2>1. UNCHANGED <<pc, call, job, setup>>
    BY <1>1 DEF DropPool, stateVars, lifeVars
  <2>2. \A p \in Procs : InStep(p)' = InStep(p)
    BY <2>1 DEF InStep, At, Spilling, ShareDisplaced, StealableInbox
  <2> QED
    BY <2>1, <2>2 DEF Steps
<1>2. CASE ~ DropPool
  <2>1. PICK p \in Procs : Moves(p) /\ InStep(p)' /\ call'[p] \in CallRecords
    BY <1>2, NextIsOneThreads
  <2>2. \A q \in Procs : InStep(q)'
    BY <2>1, OthersStay
  <2>3. /\ pc' = [pc EXCEPT ![p] = pc'[p]] /\ call' = [call EXCEPT ![p] = call'[p]]
        /\ pc \in [Procs -> WorkerSteps \cup ClientSteps \cup WakeSteps]
        /\ call \in [Procs -> CallRecords] /\ Procs = Workers \cup Clients
    BY <2>1 DEF Moves, Steps, Procs
  <2>4. pc'[p] \in WorkerSteps \cup ClientSteps \cup WakeSteps
    BY ONLY <2>1, <2>3, p \in Procs DEF InStep
  <2> QED
    BY ONLY <2>1, <2>2, <2>3, <2>4 DEF Steps
<1> QED
  BY <1>1, <1>2
-----------------------------------------------------------------------------
(* The room in the deques *)

\* The steps that touch neither the deques nor the hands of the thieves.
LEMMA DequesUntouched ==
    ASSUME Types, Steps, Next, ~ DropPool,
           \A w \in Workers : ~ Share(w) /\ ~ PopDeque(w) /\ ~ Keep(w) /\ ~ StealDeque(w)
                                /\ ~ Land(w) /\ ~ Release(w)
    PROVE  /\ UNCHANGED <<deque, stolen, hand>>
           /\ \E p \in Procs : Moves(p) /\ pc[p] # "land"
<1> USE DEF queueVars, poolVars, stateVars, lifeVars, workerVars, stealVars, countVars
<1>1. ASSUME NEW p \in Procs, Wake(p)
      PROVE  pc[p] # "land" /\ UNCHANGED <<deque, stolen, hand>>
  BY ONLY <1>1 DEF Wake, ClaimSleeper, Unpark, ChooseSpill, Displace, WakeOwner
<1>2. ASSUME NEW c \in Clients, ClientStep(c)
      PROVE  pc[c] # "land" /\ UNCHANGED <<deque, stolen, hand>>
  BY ONLY <1>2 DEF ClientStep, Submit, SubmitToWorker, ShutDown, UnparkAll
<1>3. ASSUME NEW w \in Workers,
             Run(w) \/ FinishJob(w) \/ Unwind(w) \/ TakeSlot(w) \/ TakeCapped(w) \/ PushCapped(w)
               \/ AnnounceCapped(w) \/ PopInjector(w) \/ LenInjector(w) \/ PopMine(w)
      PROVE  pc[w] # "land" /\ UNCHANGED <<deque, stolen, hand>>
  BY ONLY <1>3 DEF Run, FinishJob, Unwind, TakeSlot, TakeCapped, PushCapped, AnnounceCapped,
     PopInjector, LenInjector, PopMine
<1>4. ASSUME NEW w \in Workers,
             PopInbox(w) \/ EnterSearch(w) \/ LeaveSearch(w) \/ StealInbox(w) \/ Found(w)
               \/ NothingFound(w) \/ TakeReadySlot(w) \/ Idle(w) \/ Announce(w) \/ Look(w)
      PROVE  pc[w] # "land" /\ UNCHANGED <<deque, stolen, hand>>
  BY ONLY <1>4 DEF PopInbox, EnterSearch, LeaveSearch, StealInbox, Found, NothingFound,
     TakeReadySlot, Idle, Announce, Look
<1>5. ASSUME NEW w \in Workers,
             Retract(w) \/ Park(w) \/ ParkSpuriously(w) \/ Woken(w) \/ Leave(w)
      PROVE  pc[w] # "land" /\ UNCHANGED <<deque, stolen, hand>>
  BY ONLY <1>5 DEF Retract, Park, ParkSpuriously, Woken, Leave
<1>6. CASE \E p \in Procs : Wake(p)
  BY <1>1, <1>6, WakeMoves
<1>7. CASE \E c \in Clients : ClientStep(c)
  BY <1>2, <1>7, ClientMoves DEF Procs
<1>8. CASE \E w \in Workers : WorkerStep(w) \/ ParkSpuriously(w)
  <2>1. PICK w \in Workers : WorkerStep(w) \/ ParkSpuriously(w)
    BY <1>8
  <2>2. Moves(w) /\ w \in Procs
    BY <2>1, WorkerMoves DEF Procs
  <2>3. pc[w] # "land" /\ UNCHANGED <<deque, stolen, hand>>
    BY <2>1, <1>3, <1>4, <1>5 DEF WorkerStep
  <2> QED
    BY <2>2, <2>3
<1> QED
  BY <1>6, <1>7, <1>8 DEF Next

\* The free slots of the deques stay enough.
LEMMA RoomStays ==
    ASSUME Types, Steps, RoomKept, Next
    PROVE  RoomKept'
<1> USE DEF Set, Goto, queueVars, poolVars, stateVars, lifeVars, workerVars, stealVars, countVars
<1>0. /\ deque \in [Workers -> Seq(Jobs)] /\ hand \in [Workers -> Seq(Jobs)]
      /\ stolen \in [Workers -> Nat] /\ job \in [Procs -> Jobs \cup {None}]
      /\ mine \in [Workers -> Seq(Jobs)] /\ taken \in [Workers -> Nat]
      /\ todo \in [Procs -> SUBSET Workers] /\ victim \in [Workers -> Workers]
      /\ pc \in [Procs -> WorkerSteps \cup ClientSteps \cup WakeSteps]
      /\ Workers \subseteq Procs
  BY DEF Types, QueueTypes, HandTypes, StealTypes, CountTypes, Steps, Procs
<1>a. DequeCapacity \in Nat
  BY SetupFacts DEF Types, StateTypes
<1>b. UNCHANGED DequeCapacity
  <2>1. UNCHANGED setup
    BY NextIsOneThreads DEF Moves, DropPool
  <2> QED
    BY <2>1 DEF DequeCapacity
<1>1. CASE DropPool
  <2>1. UNCHANGED <<stolen, hand, pc>> /\ \A w \in Workers : deque'[w] = <<>>
    BY <1>1 DEF DropPool
  <2>2. ASSUME NEW w \in Workers
        PROVE  /\ Len(deque'[w]) + stolen'[w] + Len(hand'[w]) <= DequeCapacity
               /\ pc'[w] # "land" => hand'[w] = <<>>
    <3>1. /\ Len(deque[w]) + stolen[w] + Len(hand[w]) <= DequeCapacity
          /\ pc[w] # "land" => hand[w] = <<>>
          /\ Len(deque[w]) \in Nat /\ Len(hand[w]) \in Nat /\ stolen[w] \in Nat
      BY ONLY <1>0, RoomKept, w \in Workers DEF RoomKept
    <3>2. Len(deque'[w]) = 0 /\ stolen'[w] = stolen[w] /\ hand'[w] = hand[w] /\ pc'[w] = pc[w]
      BY ONLY <2>1, w \in Workers
    <3> QED
      BY ONLY <1>a, <3>1, <3>2
  <2> QED
    BY ONLY <1>b, <2>2 DEF RoomKept
<1>2. CASE /\ UNCHANGED <<deque, stolen, hand>>
           /\ \E p \in Procs : Moves(p) /\ pc[p] # "land"
  <2>1. PICK p \in Procs : pc' = [pc EXCEPT ![p] = pc'[p]] /\ pc[p] # "land"
    BY <1>2 DEF Moves
  <2> QED
    BY ONLY <1>0, <1>b, <1>2, <2>1, RoomKept DEF RoomKept
<1>3. ASSUME NEW w \in Workers, Share(w) \/ PopDeque(w) \/ Keep(w) \/ Land(w)
      PROVE  RoomKept'
  <2>1. Moves(w)
    BY <1>3, WorkerMoves DEF WorkerStep
  <2>2. \A v \in Workers : v # w =>
          deque'[v] = deque[v] /\ stolen'[v] = stolen[v] /\ hand'[v] = hand[v] /\ pc'[v] = pc[v]
    BY ONLY <1>0, <1>3, <2>1 DEF Moves, Share, PopDeque, Keep, Land, Add
  <2>3. /\ Len(deque[w]) + stolen[w] + Len(hand[w]) <= DequeCapacity
        /\ pc[w] # "land" => hand[w] = <<>>
        /\ deque[w] \in Seq(Jobs) /\ hand[w] \in Seq(Jobs) /\ stolen[w] \in Nat
        /\ Len(deque[w]) \in Nat /\ Len(hand[w]) \in Nat /\ (hand[w] = <<>> => Len(hand[w]) = 0)
    BY ONLY <1>0, RoomKept, w \in Workers DEF RoomKept
  <2>4. /\ Len(deque'[w]) + stolen'[w] + Len(hand'[w]) <= DequeCapacity
        /\ pc'[w] # "land" => hand'[w] = <<>>
    <3>1. CASE Share(w)
      <4>1. /\ pc[w] = "share" /\ hand' = hand /\ stolen' = stolen
            /\ \/ deque' = deque
               \/ ~ Full(w) /\ deque'[w] = Append(deque[w], Head(mine[w]))
        BY ONLY <1>0, <3>1, w \in Workers DEF Share, Add
      <4>2. Len(Append(deque[w], Head(mine[w]))) = Len(deque[w]) + 1
        BY ONLY <2>3
      <4>3. CASE deque' = deque
        BY ONLY <2>3, <4>1, <4>3
      <4>4. CASE ~ Full(w) /\ deque'[w] = Append(deque[w], Head(mine[w]))
        <5>1. Len(deque[w]) + stolen[w] < DequeCapacity
          BY ONLY <1>a, <2>3, <4>1, <4>4 DEF Full, Room
        <5>2. Len(deque'[w]) = Len(deque[w]) + 1 /\ hand'[w] = <<>> /\ stolen'[w] = stolen[w]
          BY ONLY <2>3, <4>1, <4>2, <4>4
        <5>3. Len(hand'[w]) = 0
          BY ONLY <2>3, <4>1, <5>2
        <5> QED
          BY ONLY <1>a, <2>3, <5>1, <5>2, <5>3
      <4> QED
        BY ONLY <4>1, <4>3, <4>4
    <3>2. CASE PopDeque(w)
      <4>1. /\ pc[w] = "pop" /\ hand' = hand /\ stolen' = stolen
            /\ \/ deque' = deque
               \/ deque[w] # <<>> /\ deque'[w] = SubSeq(deque[w], 1, Len(deque[w]) - 1)
        BY ONLY <1>0, <3>2, w \in Workers DEF PopDeque, Front
      <4>2. deque[w] # <<>> => Len(SubSeq(deque[w], 1, Len(deque[w]) - 1)) = Len(deque[w]) - 1
        BY ONLY <2>3
      <4>3. CASE deque' = deque
        BY ONLY <2>3, <4>1, <4>3
      <4>4. CASE deque[w] # <<>> /\ deque'[w] = SubSeq(deque[w], 1, Len(deque[w]) - 1)
        <5>1. Len(deque'[w]) = Len(deque[w]) - 1 /\ hand'[w] = <<>> /\ stolen'[w] = stolen[w]
          BY ONLY <2>3, <4>1, <4>2, <4>4
        <5>2. Len(hand'[w]) = 0
          BY ONLY <2>3, <4>1, <5>1
        <5>3. Len(deque'[w]) \in Int /\ stolen'[w] \in Int
          BY ONLY <2>3, <5>1
        <5> QED
          BY ONLY <1>a, <2>3, <5>1, <5>2, <5>3, SMTT(30)
      <4> QED
        BY ONLY <4>1, <4>3, <4>4
    <3>3. CASE Keep(w)
      <4>1. /\ pc[w] = "keep" /\ hand' = hand /\ stolen' = stolen
            /\ \/ deque' = deque
               \/ ~ Full(w) /\ deque'[w] = Append(deque[w], job[w])
        BY ONLY <1>0, <3>3, w \in Workers DEF Keep, Add
      <4>2. Len(Append(deque[w], job[w])) = Len(deque[w]) + 1
        BY ONLY <2>3
      <4> QED
        <5>1. hand'[w] = <<>> /\ Len(hand'[w]) = 0 /\ Len(hand[w]) = 0 /\ stolen'[w] = stolen[w]
          BY ONLY <2>3, <4>1
        <5>2. \/ Len(deque'[w]) = Len(deque[w])
              \/ Len(deque'[w]) = Len(deque[w]) + 1 /\ DequeCapacity - Len(deque[w]) - stolen[w] # 0
          BY ONLY <4>1, <4>2 DEF Full, Room
        <5> QED
          BY ONLY <1>a, <2>3, <5>1, <5>2
    <3>4. CASE Land(w)
      <4>1. /\ stolen' = stolen /\ hand'[w] = <<>> /\ deque'[w] = deque[w] \o hand[w]
        BY ONLY <1>0, <3>4, w \in Workers DEF Land
      <4>2. Len(deque[w] \o hand[w]) = Len(deque[w]) + Len(hand[w]) /\ Len(<<>>) = 0
        BY ONLY <2>3
      <4>3. PICK h \in Nat : h = Len(hand[w])
        BY <2>3
      <4>4. PICK n \in Nat : n = Len(deque[w])
        BY <2>3
      <4>5. Len(deque'[w]) = n + h /\ Len(hand'[w]) = 0 /\ stolen'[w] = stolen[w] /\ hand'[w] = <<>>
        BY ONLY <4>1, <4>2, <4>3, <4>4
      <4>6. n + stolen[w] + h <= DequeCapacity /\ stolen[w] \in Nat
        BY ONLY <2>3, <4>3, <4>4
      <4>7. Len(deque'[w]) + stolen'[w] + Len(hand'[w]) <= DequeCapacity
        BY ONLY <1>a, h \in Nat, n \in Nat, <4>5, <4>6
      <4> QED
        BY ONLY <4>5, <4>7
    <3> QED
      BY <1>3, <3>1, <3>2, <3>3, <3>4
  <2> QED
    BY ONLY <1>b, <2>2, <2>4, RoomKept DEF RoomKept
<1>4. ASSUME NEW w \in Workers, Release(w) PROVE RoomKept'
  <2>1. Moves(w)
    BY <1>4, WorkerMoves DEF WorkerStep
  <2>2. \A v \in Workers :
          deque'[v] = deque[v] /\ hand'[v] = hand[v] /\ stolen'[v] \in {0, stolen[v]}
    BY ONLY <1>0, <1>4, <2>1 DEF Moves, Release
  <2>3. \A v \in Workers :
          /\ Len(deque[v]) + stolen[v] + Len(hand[v]) <= DequeCapacity
          /\ pc[v] # "land" => hand[v] = <<>>
          /\ Len(deque[v]) \in Nat /\ Len(hand[v]) \in Nat /\ stolen[v] \in Nat
    BY ONLY <1>0, RoomKept DEF RoomKept
  <2>4. pc[w] = "release"
    BY ONLY <1>4 DEF Release
  <2>5. \A v \in Workers : pc'[v] # "land" => pc[v] # "land"
    BY ONLY <1>0, <2>1, <2>4 DEF Moves
  <2> QED
    BY ONLY <1>a, <1>b, <2>2, <2>3, <2>5 DEF RoomKept
<1>5. ASSUME NEW w \in Workers, StealDeque(w) PROVE RoomKept'
  <2>1. Moves(w)
    BY <1>5, WorkerMoves DEF WorkerStep
  <2>2. PICK v \in Workers : StealFrom(w, v) /\ pc[w] \in {"steal", "steal_deque"}
    BY ONLY <1>0, <1>5 DEF StealDeque
  <2>3. \A u \in Workers :
          /\ Len(deque[u]) + stolen[u] + Len(hand[u]) <= DequeCapacity
          /\ pc[u] # "land" => hand[u] = <<>>
          /\ deque[u] \in Seq(Jobs) /\ hand[u] \in Seq(Jobs) /\ stolen[u] \in Nat
          /\ Len(deque[u]) \in Nat /\ Len(hand[u]) \in Nat /\ (hand[u] = <<>> => Len(hand[u]) = 0)
    <3> SUFFICES ASSUME NEW u \in Workers
                 PROVE  /\ deque[u] \in Seq(Jobs) /\ hand[u] \in Seq(Jobs) /\ stolen[u] \in Nat
                        /\ Len(deque[u]) \in Nat /\ Len(hand[u]) \in Nat
                        /\ hand[u] = <<>> => Len(hand[u]) = 0
      BY RoomKept DEF RoomKept
    <3> QED
      BY ONLY <1>0, u \in Workers
  <2>4. CASE UNCHANGED <<hand, deque, stolen>>
    BY ONLY <1>0, <1>b, <2>1, <2>2, <2>3, <2>4 DEF RoomKept, Moves
  <2>5. CASE ~ UNCHANGED <<hand, deque, stolen>>
    <3> DEFINE count == Least(Room(w), (Least(Len(deque[v]), PullBatch) + 1) \div 2)
    <3>1. /\ count > 0 /\ stolen[v] = 0 /\ pc'[w] = "land"
          /\ hand' = [hand EXCEPT ![w] = SubSeq(deque[v], 1, count)]
          /\ deque' = [deque EXCEPT ![v] = SubSeq(deque[v], count + 1, Len(deque[v]))]
          /\ stolen' = [stolen EXCEPT ![v] = count]
      BY ONLY <1>0, <2>2, <2>5 DEF StealFrom, Rest
    <3>2. count \in Int /\ count <= Len(deque[v]) /\ count <= DequeCapacity - Len(deque[w]) - stolen[w]
      <4>1. Room(w) \in Int /\ Room(w) = DequeCapacity - Len(deque[w]) - stolen[w]
        BY ONLY <1>a, <2>3, w \in Workers DEF Room
      <4>2. Len(deque[v]) \in Nat /\ PullBatch \in Nat
        BY <2>3, SetupsAssumption
      <4> HIDE DEF count
      <4> QED
        BY ONLY <4>1, <4>2, StealCount DEF count
    <3> HIDE DEF count
    <3>3. /\ Len(SubSeq(deque[v], 1, count)) = count
          /\ Len(SubSeq(deque[v], count + 1, Len(deque[v]))) = Len(deque[v]) - count
      <4>1. deque[v] \in Seq(Jobs) /\ Len(deque[v]) \in Nat /\ count \in 1 .. Len(deque[v])
        BY ONLY <2>3, <3>1, <3>2, v \in Workers
      <4> QED
        BY ONLY <4>1
    <3>4. \A u \in Workers :
            /\ u # v => deque'[u] = deque[u] /\ stolen'[u] = stolen[u]
            /\ u # w => hand'[u] = hand[u] /\ pc'[u] = pc[u]
      BY ONLY <1>0, <2>1, <3>1 DEF Moves
    <3>5. /\ Len(deque'[v]) = Len(deque[v]) - count /\ stolen'[v] = count /\ stolen[v] = 0
          /\ Len(hand'[w]) = count /\ Len(hand[w]) = 0 /\ pc'[w] = "land"
      <4>1. hand[w] = <<>>
        BY ONLY <2>2, <2>3, w \in Workers
      <4>2. /\ deque'[v] = SubSeq(deque[v], count + 1, Len(deque[v]))
            /\ hand'[w] = SubSeq(deque[v], 1, count) /\ stolen'[v] = count
        BY ONLY <1>0, <3>1, v \in Workers, w \in Workers
      <4> QED
        BY ONLY <2>3, <3>1, <3>3, <4>1, <4>2, w \in Workers
    <3>6. \A u \in Workers : Len(deque'[u]) + stolen'[u] + Len(hand'[u]) <= DequeCapacity
      <4> SUFFICES ASSUME NEW u \in Workers
                   PROVE  Len(deque'[u]) + stolen'[u] + Len(hand'[u]) <= DequeCapacity
        OBVIOUS
      <4>1. Len(deque[u]) \in Nat /\ Len(hand[u]) \in Nat /\ stolen[u] \in Nat
        BY <2>3
      <4> QED
        <5>1. /\ Len(deque[u]) + stolen[u] + Len(hand[u]) <= DequeCapacity
              /\ u # v => Len(deque'[u]) = Len(deque[u]) /\ stolen'[u] = stolen[u]
              /\ u # w => Len(hand'[u]) = Len(hand[u])
          BY ONLY <2>3, <3>4, u \in Workers
        <5>2. \/ Len(deque'[u]) = Len(deque[u]) /\ stolen'[u] = stolen[u]
              \/ Len(deque'[u]) = Len(deque[u]) - count /\ stolen'[u] = count /\ stolen[u] = 0
          BY ONLY <3>5, <5>1
        <5>3. \/ Len(hand'[u]) = Len(hand[u])
              \/ /\ Len(hand'[u]) = count /\ Len(hand[u]) = 0
                 /\ count <= DequeCapacity - Len(deque[u]) - stolen[u]
          BY ONLY <3>2, <3>5, <5>1
        <5>4. count \in Int
          BY ONLY <3>2
        <5> QED
          <6>0. Len(deque'[u]) \in Int /\ stolen'[u] \in Int /\ Len(hand'[u]) \in Int
            BY ONLY <4>1, <5>2, <5>3, <5>4
          <6>1. CASE Len(deque'[u]) = Len(deque[u]) /\ stolen'[u] = stolen[u]
            BY ONLY <1>a, <4>1, <5>1, <5>3, <5>4, <6>0, <6>1
          <6>2. CASE Len(deque'[u]) = Len(deque[u]) - count /\ stolen'[u] = count /\ stolen[u] = 0
            <7>1. Len(deque'[u]) + stolen'[u] = Len(deque[u]) + stolen[u]
              BY ONLY <4>1, <5>4, <6>2
            <7>2. CASE Len(hand'[u]) = Len(hand[u])
              BY ONLY <1>a, <4>1, <5>1, <6>0, <7>1, <7>2
            <7>3. CASE /\ Len(hand'[u]) = count /\ Len(hand[u]) = 0
                       /\ count <= DequeCapacity - Len(deque[u]) - stolen[u]
              BY ONLY <1>a, <4>1, <5>4, <6>0, <7>1, <7>3
            <7> QED
              BY ONLY <5>3, <7>2, <7>3
          <6> QED
            BY ONLY <5>2, <6>1, <6>2
    <3> QED
      BY ONLY <1>b, <2>3, <3>4, <3>5, <3>6 DEF RoomKept
  <2> QED
    BY <2>4, <2>5
<1> QED
  BY <1>1, <1>2, <1>3, <1>4, <1>5, DequesUntouched
-----------------------------------------------------------------------------
(* Where a step leads, the detour over a wake-up not counted *)

\* A wake-up does not lead its thread anywhere else.
LEMMA WakeStaysAt ==
    ASSUME Types, Steps, NEW p \in Procs, Wake(p)
    PROVE  At(p)' = At(p) /\ UNCHANGED workerVars
<1> USE DEF At, WakeSteps, OwnerSteps
<1>0. call[p].back \in Backs /\ call[p].back \notin WakeSteps
  <2>1. PICK c \in CallRecords : c = call[p]
    BY DEF Steps
  <2> QED
    BY ONLY <2>1 DEF CallRecords, Backs, WakeSteps, OwnerSteps
<1>1. CASE ClaimSleeper(p)
  <2>1. pc[p] = "claim" /\ ((GoesOn(p, "unpark") \/ Returns(p)))
    BY <1>1, ClaimSleeperFlow
  <2> QED
    BY <1>0, <1>1, <2>1 DEF GoesOn, Returns, ClaimSleeper
<1>2. CASE Unpark(p)
  <2>1. pc[p] = "unpark" /\ ((GoesOn(p, "claim") \/ Returns(p)))
    BY <1>2, UnparkFlow
  <2> QED
    BY <1>0, <1>2, <2>1 DEF GoesOn, Returns, Unpark
<1>3. CASE ChooseSpill(p)
  <2>1. pc[p] = "displace" /\ UNCHANGED call /\ pc'[p] \in {"put_inbox", "spill"}
    BY <1>3, ChooseSpillFlow
  <2> QED
    BY <1>3, <2>1 DEF ChooseSpill
<1>4. CASE Displace(p)
  <2>1. pc[p] \in {"spill", "put_inbox"} /\ GoesOn(p, "wake_owner")
    BY <1>4, DisplaceFlow
  <2> QED
    BY <1>4, <2>1 DEF GoesOn, Displace
<1>5. CASE WakeOwner(p)
  <2>1. pc[p] = "wake_owner" /\ (GoesOn(p, "unpark") \/ GoesOn(p, "claim") \/ Returns(p))
    BY <1>5, WakeOwnerFlow
  <2> QED
    BY <1>0, <1>5, <2>1 DEF GoesOn, Returns, WakeOwner
<1> QED
  BY <1>1, <1>2, <1>3, <1>4, <1>5 DEF Wake

\* Where the steps lead that may begin a wake-up.
LEMMA SubmittersLeadTo ==
    ASSUME Types, Steps, NEW w \in Workers
    PROVE  /\ FinishJob(w) => pc[w] = "run" /\ At(w)' = "slot"
           /\ AnnounceCapped(w) => pc[w] = "capped_len" /\ At(w)' = AfterCapped
           /\ LenInjector(w) =>
                \/ pc[w] = "fair_len" /\ At(w)' = "mine"
                \/ pc[w] = "len" /\ taken[w] > 0 /\ At(w)' = "share"
                \/ pc[w] = "len" /\ taken[w] = 0 /\ At(w)' \in {"ready", "idle"}
           /\ Share(w) =>
                /\ pc[w] = "share"
                /\ (pc' = pc /\ At(w)' = "share") \/ At(w)' \in {"slot", "run"}
           /\ Keep(w) => pc[w] = "keep" /\ At(w)' = "found"
           /\ Release(w) => pc[w] = "release" /\ At(w)' = "found"
<1> USE DEF At, WakeSteps, OwnerSteps
<1>1. ASSUME FinishJob(w) PROVE pc[w] = "run" /\ At(w)' = "slot"
  <2>1. /\ pc[w] = "run"
        /\ \/ pc'[w] = "slot"
           \/ \E j \in Jobs : Hands(w, w, j, "slot")
    BY <1>1, FinishJobFlow
  <2> QED
    BY ONLY <2>1 DEF Hands, Starts, At, WakeSteps, OwnerSteps
<1>2. ASSUME AnnounceCapped(w) PROVE pc[w] = "capped_len" /\ At(w)' = AfterCapped
  <2>1. pc[w] = "capped_len" /\ (pc'[w] = AfterCapped \/ Starts(w, {w}, AfterCapped))
    BY <1>2, AnnounceCappedFlow
  <2> QED
    BY ONLY <2>1 DEF Starts, AfterCapped, At, WakeSteps, OwnerSteps
<1>3. ASSUME LenInjector(w)
      PROVE  \/ pc[w] = "fair_len" /\ At(w)' = "mine"
             \/ pc[w] = "len" /\ taken[w] > 0 /\ At(w)' = "share"
             \/ pc[w] = "len" /\ taken[w] = 0 /\ At(w)' \in {"ready", "idle"}
  <2>1. PICK back \in {"mine", "share", "ready", "idle"} :
             /\ pc[w] = "fair_len" => back = "mine"
             /\ pc[w] = "len" /\ taken[w] > 0 => back = "share"
             /\ pc[w] = "len" /\ taken[w] = 0 => back \in {"ready", "idle"}
             /\ pc[w] \in {"fair_len", "len"}
             /\ pc'[w] = back \/ Starts(w, {}, back)
    BY <1>3, LenInjectorFlow
  <2>2. At(w)' = back
    BY ONLY <2>1 DEF Starts, At, WakeSteps, OwnerSteps
  <2>3. taken[w] > 0 \/ taken[w] = 0
    <3>1. taken[w] \in Nat
      BY DEF Types, CountTypes
    <3> QED
      BY ONLY <3>1
  <2> QED
    BY ONLY <2>1, <2>2, <2>3
<1>4. ASSUME Share(w)
      PROVE  /\ pc[w] = "share"
             /\ (pc' = pc /\ At(w)' = "share") \/ At(w)' \in {"slot", "run"}
  <2>1. /\ pc[w] = "share"
        /\ pc' = pc \/ pc'[w] = AfterShare(w) \/ Starts(w, {w}, AfterShare(w))
    BY <1>4, ShareFlow
  <2> QED
    BY ONLY <2>1 DEF Starts, AfterShare, At, WakeSteps, OwnerSteps
<1>5. ASSUME Keep(w) PROVE pc[w] = "keep" /\ At(w)' = "found"
  <2>1. pc[w] = "keep" /\ (pc'[w] = "found" \/ Starts(w, {}, "found"))
    BY <1>5, KeepFlow
  <2> QED
    BY ONLY <2>1 DEF Starts, At, WakeSteps, OwnerSteps
<1>6. ASSUME Release(w) PROVE pc[w] = "release" /\ At(w)' = "found"
  <2>1. pc[w] = "release" /\ (pc'[w] = "found" \/ Starts(w, {w}, "found"))
    BY <1>6, ReleaseFlow
  <2> QED
    BY ONLY <2>1 DEF Starts, At, WakeSteps, OwnerSteps
<1> QED
  BY <1>1, <1>2, <1>3, <1>4, <1>5, <1>6
-----------------------------------------------------------------------------
(* The workers that hunt *)

\* The steps that neither begin nor end a hunt.
LEMMA HuntGoesOn ==
    ASSUME Types, Steps, SearchersCounted, NEW w \in Workers, WorkerStep(w) \/ ParkSpuriously(w),
           ~ EnterSearch(w), ~ LeaveSearch(w), ~ Found(w), ~ NothingFound(w)
    PROVE  /\ Hunting(w)' = Hunting(w) /\ UNCHANGED searching
           /\ parking'[w] => At(w)' \in StealSteps
<1> USE DEF Set, Goto, queueVars, poolVars, stateVars, lifeVars, workerVars, stealVars, countVars
<1>0. /\ pc \in [Procs -> WorkerSteps \cup ClientSteps \cup WakeSteps]
      /\ parking \in [Workers -> BOOLEAN] /\ w \in Procs
      /\ parking[w] => At(w) \in StealSteps
  BY DEF Types, StealTypes, Steps, Procs, SearchersCounted
<1>1. CASE FinishJob(w) \/ AnnounceCapped(w) \/ LenInjector(w) \/ Share(w)
  <2>1. /\ UNCHANGED parking /\ UNCHANGED searching
        /\ pc[w] \in {"run", "capped_len", "fair_len", "len", "share"}
        /\ At(w)' \in {"slot", "fair_take", "mine", "share", "ready", "idle", "run"}
    <3>1. UNCHANGED parking /\ UNCHANGED searching
      BY ONLY <1>1 DEF FinishJob, AnnounceCapped, LenInjector, Share
    <3>2. AfterCapped \in {"fair_take", "mine"}
      BY DEF AfterCapped
    <3> QED
      BY <1>1, <3>1, <3>2, SubmittersLeadTo
  <2> QED
    BY ONLY <1>0, <2>1 DEF Hunting, At, WakeSteps, OwnerSteps, StealSteps
<1>2. CASE Keep(w) \/ Release(w)
  <2>1. UNCHANGED <<parking, searching>>
    BY ONLY <1>2 DEF Keep, Release
  <2>2. pc[w] \in {"keep", "release"} /\ At(w)' = "found"
    BY <1>2, SubmittersLeadTo
  <2> QED
    BY ONLY <1>0, <2>1, <2>2 DEF Hunting, At, WakeSteps, OwnerSteps, StealSteps
<1>3. CASE StealInbox(w) \/ StealDeque(w) \/ Land(w)
  <2>1. /\ UNCHANGED <<parking, searching>> /\ pc[w] \in StealSteps /\ pc'[w] \in StealSteps
    BY ONLY <1>0, <1>3 DEF StealInbox, StealDeque, StealFrom, Land, StealSteps
  <2> QED
    BY ONLY <1>0, <2>1 DEF Hunting, At, WakeSteps, OwnerSteps, StealSteps
<1>4. CASE Look(w)
  <2>1. /\ UNCHANGED searching /\ pc[w] \in {"look_injector", "look_inbox", "look_slot"}
        /\ \/ UNCHANGED parking /\ pc'[w] \in {"retract", "look_inbox", "look_slot"}
           \/ parking'[w] = TRUE /\ pc'[w] = "steal"
    BY ONLY <1>0, <1>4, w \in Workers DEF Look, Sweep
  <2> QED
    BY ONLY <1>0, <2>1 DEF Hunting, At, WakeSteps, OwnerSteps, StealSteps
<1>5. ASSUME UNCHANGED <<parking, searching>>,
             pc[w] \notin StealSteps \cup {"leave_search"} \cup WakeSteps,
             pc'[w] \notin StealSteps \cup {"leave_search"} \cup WakeSteps
      PROVE  /\ Hunting(w)' = Hunting(w) /\ UNCHANGED searching
             /\ parking'[w] => At(w)' \in StealSteps
  BY ONLY <1>0, <1>5 DEF Hunting, At
<1>6. CASE Run(w) \/ Unwind(w) \/ TakeSlot(w) \/ TakeCapped(w) \/ PushCapped(w)
  <2>1. UNCHANGED <<parking, searching>>
    BY ONLY <1>6 DEF Run, Unwind, TakeSlot, TakeCapped, PushCapped
  <2>2. /\ pc[w] \in {"off", "run", "slot", "capped", "capped_push"}
        /\ pc'[w] \in {"slot", "dead", "run", "mine", "capped", "fair_take", "capped_push", "capped_len"}
    BY ONLY <1>0, <1>6 DEF Run, Unwind, TakeSlot, RunNext, TakeCapped, PushCapped, AfterCapped
  <2> QED
    BY ONLY <1>5, <2>1, <2>2 DEF StealSteps, WakeSteps, OwnerSteps
<1>7. CASE PopInjector(w) \/ PopMine(w) \/ PopInbox(w) \/ PopDeque(w) \/ TakeReadySlot(w)
  <2>1. UNCHANGED <<parking, searching>>
    BY ONLY <1>7 DEF PopInjector, PopMine, PopInbox, PopDeque, TakeReadySlot
  <2>2. /\ pc[w] \in {"fair_take", "take", "mine", "inbox", "pop", "ready"}
        /\ pc'[w] \in {"fair_take", "take", "fair_len", "len", "share", "run", "inbox", "slot", "pop",
                       "search", "idle"}
    BY ONLY <1>0, <1>7 DEF PopInjector, PopMine, Promote, PopInbox, PopDeque, RunNext, AfterPop,
       TakeReadySlot
  <2> QED
    BY ONLY <1>5, <2>1, <2>2 DEF StealSteps, WakeSteps, OwnerSteps
<1>8. CASE Idle(w) \/ Announce(w) \/ Retract(w) \/ Park(w) \/ ParkSpuriously(w) \/ Woken(w) \/ Leave(w)
  <2>1. UNCHANGED <<parking, searching>>
    BY ONLY <1>8 DEF Idle, Announce, Retract, Park, ParkSpuriously, Woken, Leave
  <2>2. /\ pc[w] \in {"idle", "announce", "retract", "retire", "park", "woken", "leave"}
        /\ pc'[w] \in {"leave", "slot", "announce", "look_injector", "woken", "off"}
    BY ONLY <1>0, <1>8 DEF Idle, Announce, Retract, Park, ParkSpuriously, Woken, Leave
  <2> QED
    BY ONLY <1>5, <2>1, <2>2 DEF StealSteps, WakeSteps, OwnerSteps
<1> QED
  BY <1>1, <1>2, <1>3, <1>4, <1>6, <1>7, <1>8 DEF WorkerStep

\* The counter stays the number of the workers that hunt.
LEMMA SearchersStayCounted ==
    ASSUME Types, Steps, SearchersCounted, Next
    PROVE  SearchersCounted'
<1> USE DEF Set, Goto, queueVars, poolVars, stateVars, lifeVars, workerVars, stealVars, countVars
<1>0. /\ pc \in [Procs -> WorkerSteps \cup ClientSteps \cup WakeSteps]
      /\ call \in [Procs -> CallRecords]
      /\ parking \in [Workers -> BOOLEAN] /\ Workers \subseteq Procs
      /\ searching \in Int /\ searching = Cardinality(Hunters)
      /\ \A w \in Workers : parking[w] => At(w) \in StealSteps
  BY DEF Types, StealTypes, StateTypes, Steps, Procs, SearchersCounted
<1>a. IsFiniteSet(Hunters)
  BY SetupsAssumption, FS_Subset DEF Hunters
<1>1. ASSUME NEW p \in Procs, Moves(p), NEW w \in Workers, w # p
      PROVE  Hunting(w)' = Hunting(w) /\ (parking'[w] => At(w)' \in StealSteps)
  <2>1. parking'[w] = parking[w] /\ pc'[w] = pc[w] /\ call'[w] = call[w]
    BY ONLY <1>0, <1>1 DEF Moves
  <2> QED
    BY ONLY <1>0, <2>1 DEF Hunting, At
<1>2. ASSUME UNCHANGED searching,
             \A w \in Workers : Hunting(w)' = Hunting(w) /\ (parking'[w] => At(w)' \in StealSteps)
      PROVE  SearchersCounted'
  <2>1. Hunters' = Hunters
    BY ONLY <1>2 DEF Hunters
  <2> QED
    BY ONLY <1>0, <1>2, <2>1 DEF SearchersCounted
<1>3. CASE DropPool
  <2>1. UNCHANGED <<pc, call, parking, searching>>
    BY ONLY <1>3 DEF DropPool
  <2>2. \A w \in Workers : Hunting(w)' = Hunting(w) /\ (parking'[w] => At(w)' \in StealSteps)
    BY ONLY <1>0, <2>1 DEF Hunting, At
  <2> QED
    BY ONLY <1>2, <2>1, <2>2
<1>4. CASE \E p \in Procs : Wake(p)
  <2>1. PICK p \in Procs : Wake(p)
    BY <1>4
  <2>2. Moves(p) /\ At(p)' = At(p) /\ UNCHANGED parking
    BY <2>1, WakeMoves, WakeStaysAt
  <2>3. UNCHANGED searching
    BY ONLY <2>1 DEF Wake, ClaimSleeper, Unpark, ChooseSpill, Displace, WakeOwner
  <2>4. \A w \in Workers : Hunting(w)' = Hunting(w) /\ (parking'[w] => At(w)' \in StealSteps)
    BY ONLY <1>0, <1>1, <2>2 DEF Hunting
  <2> QED
    BY ONLY <1>2, <2>3, <2>4
<1>5. CASE \E c \in Clients : ClientStep(c)
  <2>1. PICK c \in Clients : ClientStep(c)
    BY <1>5
  <2>2. Moves(c) /\ c \in Procs /\ c \notin Workers
    BY <2>1, ClientMoves, SetupsAssumption DEF Procs
  <2>3. UNCHANGED searching
    BY ONLY <2>1 DEF ClientStep, Submit, SubmitToWorker, ShutDown, UnparkAll
  <2> QED
    BY ONLY <1>1, <1>2, <2>2, <2>3
<1>6. ASSUME NEW w \in Workers, WorkerStep(w) \/ ParkSpuriously(w) PROVE SearchersCounted'
  <2>0. Moves(w) /\ w \in Procs
    BY <1>6, WorkerMoves DEF Procs
  <2>1. CASE ~ EnterSearch(w) /\ ~ LeaveSearch(w) /\ ~ Found(w) /\ ~ NothingFound(w)
    BY <1>1, <1>2, <1>6, <2>0, <2>1, HuntGoesOn
  <2>2. CASE EnterSearch(w)
    <3>1. /\ pc[w] = "search" /\ pc'[w] \in {"leave_search", "steal"} /\ UNCHANGED parking
          /\ searching' = searching + 1
      BY ONLY <1>0, <2>2 DEF EnterSearch, Sweep
    <3>2. ~ Hunting(w) /\ Hunting(w)' /\ (parking'[w] => At(w)' \in StealSteps)
      BY ONLY <1>0, <3>1 DEF Hunting, At, StealSteps, WakeSteps, OwnerSteps
    <3>3. Hunters' = Hunters \cup {w} /\ w \notin Hunters
      BY ONLY <1>1, <2>0, <3>2 DEF Hunters
    <3>4. Cardinality(Hunters \cup {w}) = Cardinality(Hunters) + 1
      BY ONLY <1>a, <3>3, FS_AddElement
    <3> QED
      BY ONLY <1>0, <1>1, <2>0, <3>1, <3>2, <3>3, <3>4 DEF SearchersCounted
  <2>3. ASSUME searching' = searching - 1, Hunting(w), ~ Hunting(w)', ~ parking'[w]
        PROVE  SearchersCounted'
    <3>3. Hunters' = Hunters \ {w} /\ w \in Hunters
      BY ONLY <1>1, <2>0, <2>3 DEF Hunters
    <3>4. Cardinality(Hunters \ {w}) = Cardinality(Hunters) - 1
      BY ONLY <1>a, <3>3, FS_RemoveElement
    <3> QED
      BY ONLY <1>0, <1>1, <2>0, <2>3, <3>3, <3>4 DEF SearchersCounted
  <2>4. CASE LeaveSearch(w)
    <3>1. /\ pc[w] = "leave_search" /\ pc'[w] = "take" /\ UNCHANGED parking
          /\ searching' = searching - 1
      BY ONLY <1>0, <2>4 DEF LeaveSearch
    <3> QED
      BY ONLY <1>0, <2>3, <3>1 DEF Hunting, At, StealSteps, WakeSteps, OwnerSteps
  <2>5. CASE Found(w)
    <3>1. /\ pc[w] = "found" /\ pc'[w] = "slot" /\ parking'[w] = FALSE
          /\ \/ parking[w] /\ UNCHANGED searching
             \/ ~ parking[w] /\ searching' = searching - 1
      BY ONLY <1>0, <2>5 DEF Found
    <3>2. /\ parking[w] => Hunting(w)' = Hunting(w)
          /\ ~ parking[w] => Hunting(w) /\ ~ Hunting(w)'
      BY ONLY <1>0, <3>1 DEF Hunting, At, StealSteps, WakeSteps, OwnerSteps
    <3>3. CASE parking[w]
      BY ONLY <1>1, <1>2, <2>0, <3>1, <3>2, <3>3
    <3>4. CASE ~ parking[w]
      BY ONLY <2>3, <3>1, <3>2, <3>4
    <3> QED
      BY ONLY <3>3, <3>4
  <2>6. CASE NothingFound(w)
    <3>1. /\ pc[w] = "steal" /\ pc'[w] \in {"take", "park", "retire"} /\ parking'[w] = FALSE
          /\ \/ parking[w] /\ UNCHANGED searching
             \/ ~ parking[w] /\ searching' = searching - 1
      BY ONLY <1>0, <2>6 DEF NothingFound
    <3>2. /\ parking[w] => Hunting(w)' = Hunting(w)
          /\ ~ parking[w] => Hunting(w) /\ ~ Hunting(w)'
      BY ONLY <1>0, <3>1 DEF Hunting, At, StealSteps, WakeSteps, OwnerSteps
    <3>3. CASE parking[w]
      BY ONLY <1>1, <1>2, <2>0, <3>1, <3>2, <3>3
    <3>4. CASE ~ parking[w]
      BY ONLY <2>3, <3>1, <3>2, <3>4
    <3> QED
      BY ONLY <3>3, <3>4
  <2> QED
    BY <2>1, <2>2, <2>4, <2>5, <2>6
<1> QED
  BY <1>3, <1>4, <1>5, <1>6 DEF Next
-----------------------------------------------------------------------------
(* What a worker that goes to sleep leaves behind *)

\* Nobody but its owner fills a deque.
LEMMA OthersFillNothing ==
    ASSUME Types, Steps, Next, NEW v \in Workers, deque[v] = <<>>,
           ~ (WorkerStep(v) \/ ParkSpuriously(v))
    PROVE  deque'[v] = <<>>
<1> USE DEF Set, Goto
<1>0. deque \in [Workers -> Seq(Jobs)] /\ Len(deque[v]) = 0
  BY DEF Types, QueueTypes
<1>1. CASE DropPool
  BY <1>1 DEF DropPool
<1>2. CASE UNCHANGED deque
  BY <1>2
<1>3. ASSUME NEW w \in Workers, Share(w) \/ Keep(w) \/ Land(w) PROVE deque'[v] = <<>>
  <2>1. w # v
    BY <1>3 DEF WorkerStep
  <2> QED
    BY ONLY <1>0, <1>3, <2>1, v \in Workers, deque[v] = <<>> DEF Share, Keep, Land, Add
<1>4. ASSUME NEW w \in Workers, PopDeque(w) PROVE deque'[v] = <<>>
  BY ONLY <1>0, <1>4, v \in Workers, deque[v] = <<>> DEF PopDeque
<1>5. ASSUME NEW w \in Workers, Release(w) PROVE deque'[v] = <<>>
  BY ONLY <1>5, deque[v] = <<>> DEF Release
<1>6. ASSUME NEW w \in Workers, StealDeque(w) PROVE deque'[v] = <<>>
  <2>1. PICK u \in Workers : StealFrom(w, u)
    <3>1. victim[w] \in Workers /\ todo[w] \subseteq Workers
      BY DEF Types, StealTypes, Procs
    <3> QED
      BY ONLY <1>6, <3>1 DEF StealDeque
  <2>2. CASE u = v
    <3>1. Room(w) \in Int
      <4>1. DequeCapacity \in Nat /\ Len(deque[w]) \in Nat /\ stolen[w] \in Nat
        BY SetupFacts DEF Types, StateTypes, QueueTypes
      <4> QED
        BY ONLY <4>1 DEF Room
    <3>2. ~ (Least(Room(w), (Least(Len(deque[u]), PullBatch) + 1) \div 2) > 0)
      <4>1. PullBatch \in Nat /\ Len(deque[u]) \in Nat /\ Len(deque[u]) = 0
        BY <1>0, <2>2, SetupsAssumption
      <4>2. Least(Room(w), (Least(Len(deque[u]), PullBatch) + 1) \div 2) <= Len(deque[u])
        BY ONLY <3>1, <4>1, StealCount
      <4>3. Least(Room(w), (Least(Len(deque[u]), PullBatch) + 1) \div 2) \in Int
        BY ONLY <3>1, <4>1, StealCount
      <4> QED
        BY ONLY <4>1, <4>2, <4>3
    <3> QED
      BY ONLY <2>1, <3>2, deque[v] = <<>> DEF StealFrom
  <2>3. CASE u # v
    BY ONLY <1>0, <2>1, <2>3, v \in Workers, deque[v] = <<>> DEF StealFrom
  <2> QED
    BY <2>2, <2>3
<1> QED
  BY <1>1, <1>2, <1>3, <1>4, <1>5, <1>6, DequesUntouched

\* A worker on its way to sleep empties its private queue, then its deque.
LEMMA WorkerEmpties ==
    ASSUME Types, Steps, NEW w \in Workers, EmptiedBy(w), WorkerStep(w) \/ ParkSpuriously(w)
    PROVE  EmptiedBy(w)'
<1> USE DEF Set, Goto, queueVars, poolVars, stateVars, lifeVars, workerVars, stealVars, countVars
<1>0. /\ pc \in [Procs -> WorkerSteps \cup ClientSteps \cup WakeSteps] /\ w \in Procs
      /\ taken \in [Workers -> Nat] /\ mine \in [Workers -> Seq(Jobs)]
      /\ deque \in [Workers -> Seq(Jobs)]
  BY DEF Types, HandTypes, QueueTypes, CountTypes, Steps, Procs
<1>a. UNCHANGED StealableInbox
  BY WorkerMoves DEF Moves, StealableInbox
<1>b. StealableInbox \in BOOLEAN
  BY SetupFacts DEF Types, StateTypes
<1>1. CASE FinishJob(w) \/ Keep(w) \/ Release(w)
  <2>1. pc[w] \in {"run", "keep", "release"} /\ At(w)' \in {"slot", "found"}
    BY <1>1, SubmittersLeadTo
  <2>2. UNCHANGED taken /\ pc'[w] # "inbox"
    BY ONLY <1>1, <2>1 DEF FinishJob, Keep, Release, At, WakeSteps, OwnerSteps
  <2> QED
    BY ONLY <2>1, <2>2, EmptiedBy(w) DEF EmptiedBy
<1>2. CASE AnnounceCapped(w) \/ LenInjector(w)
  <2>1. \/ At(w)' \in {"fair_take", "mine", "share"}
        \/ pc[w] = "len" /\ taken[w] = 0 /\ At(w)' \in {"ready", "idle"}
    BY <1>2, SubmittersLeadTo DEF AfterCapped
  <2>2. taken'[w] = 0 /\ UNCHANGED <<mine, deque>>
    BY ONLY <1>0, <1>2, w \in Workers DEF AnnounceCapped, LenInjector
  <2> QED
    BY ONLY <2>1, <2>2, EmptiedBy(w) DEF EmptiedBy, At, WakeSteps, OwnerSteps
<1>3. CASE Share(w)
  <2>1. pc[w] = "share" /\ ((pc' = pc /\ At(w)' = "share") \/ At(w)' \in {"slot", "run"})
    BY <1>3, SubmittersLeadTo
  <2>2. pc' = pc \/ taken'[w] = 0
    BY ONLY <1>0, <1>3, w \in Workers DEF Share
  <2>3. pc'[w] # "inbox"
    BY ONLY <2>1 DEF At, WakeSteps, OwnerSteps
  <2> QED
    BY ONLY <2>1, <2>2, <2>3 DEF EmptiedBy
<1>4. CASE Run(w) \/ Unwind(w) \/ Found(w) \/ Park(w) \/ ParkSpuriously(w) \/ Woken(w) \/ Leave(w)
            \/ Land(w)
  <2>1. /\ pc[w] \in {"off", "run", "found", "park", "woken", "leave", "land"}
        /\ pc'[w] \in {"slot", "dead", "woken", "off", "release"}
    BY ONLY <1>0, <1>4 DEF Run, Unwind, Found, Park, ParkSpuriously, Woken, Leave, Land
  <2>2. /\ UNCHANGED taken /\ (pc[w] = "park" => UNCHANGED <<mine, deque>>)
    BY ONLY <1>4 DEF Run, Unwind, Found, Park, ParkSpuriously, Woken, Leave, Land
  <2>3. pc'[w] = "woken" => pc[w] = "park"
    BY ONLY <1>0, <1>4 DEF Run, Unwind, Found, Park, ParkSpuriously, Woken, Leave, Land
  <2> QED
    BY ONLY <2>1, <2>2, <2>3, EmptiedBy(w) DEF EmptiedBy, At, WakeSteps, OwnerSteps
<1>13. CASE Retract(w) \/ Announce(w) \/ Idle(w)
  <2>1. /\ UNCHANGED <<taken, mine, deque>>
        /\ pc[w] \in {"retract", "retire", "announce", "idle"}
        /\ pc'[w] \in {"leave", "slot", "look_injector", "announce"}
    BY ONLY <1>0, <1>13 DEF Retract, Announce, Idle
  <2> QED
    BY ONLY <2>1, EmptiedBy(w) DEF EmptiedBy, At, WakeSteps, OwnerSteps
<1>5. CASE TakeSlot(w)
  <2>1. /\ pc[w] = "slot" /\ pc'[w] \in {"run", "mine", "fair_take", "capped"}
        /\ pc'[w] # "capped" => taken'[w] \in {0, taken[w]}
    BY ONLY <1>0, <1>5, <1>b, w \in Workers DEF TakeSlot, RunNext, AfterCapped
  <2> QED
    BY ONLY <2>1, EmptiedBy(w) DEF EmptiedBy, At, WakeSteps, OwnerSteps
<1>6. CASE TakeCapped(w) \/ PushCapped(w)
  <2>1. /\ pc'[w] \in {"capped_push", "capped_len", "fair_take", "mine"}
        /\ pc'[w] = "mine" => taken'[w] = 0
    BY ONLY <1>0, <1>6, w \in Workers DEF TakeCapped, PushCapped, AfterCapped
  <2> QED
    BY ONLY <2>1 DEF EmptiedBy, At, WakeSteps, OwnerSteps
<1>7. CASE PopInjector(w)
  <2>1. /\ pc[w] \in {"fair_take", "take"} /\ deque' = deque
        /\ \/ pc' = pc /\ taken'[w] = taken[w] + 1
           \/ /\ pc[w] = "take" => pc'[w] = "len"
              /\ pc[w] = "fair_take" => pc'[w] = "fair_len"
              /\ mine' = mine /\ taken' = taken
    BY ONLY <1>0, <1>7, w \in Workers DEF PopInjector
  <2>2. taken[w] + 1 # 0
    BY ONLY <1>0, w \in Workers
  <2> QED
    BY ONLY <2>1, <2>2, EmptiedBy(w) DEF EmptiedBy, At, WakeSteps, OwnerSteps
<1>8. CASE PopMine(w)
  <2>1. /\ pc[w] = "mine" /\ UNCHANGED taken
        /\ \/ pc'[w] \in {"share", "run"}
           \/ pc'[w] = "inbox" /\ mine'[w] = <<>>
    BY ONLY <1>0, <1>8 DEF PopMine, Promote
  <2> QED
    BY ONLY <2>1, EmptiedBy(w) DEF EmptiedBy, At, WakeSteps, OwnerSteps
<1>9. CASE PopInbox(w)
  <2>1. /\ pc[w] = "inbox"
        /\ \/ StealableInbox /\ pc'[w] = "run" /\ UNCHANGED taken
           \/ /\ ~ StealableInbox
              /\ (pc'[w] = "slot" /\ taken'[w] = 0) \/ (pc'[w] = "inbox" /\ taken'[w] = taken[w] + 1)
           \/ /\ taken'[w] = 0 /\ mine' = mine
              /\ pc'[w] = IF taken[w] > 0 THEN "slot" ELSE "pop"
    BY ONLY <1>0, <1>9, w \in Workers DEF PopInbox, RunNext
  <2>2. taken[w] + 1 # 0 /\ (taken[w] > 0 \/ taken[w] = 0)
    BY ONLY <1>0, w \in Workers
  <2> QED
    BY ONLY <1>a, <2>1, <2>2, EmptiedBy(w) DEF EmptiedBy, At, WakeSteps, OwnerSteps
<1>10. CASE PopDeque(w)
  <2>1. /\ pc[w] = "pop" /\ UNCHANGED <<taken, mine>>
        /\ \/ pc'[w] = "run"
           \/ pc'[w] \in {"take", "search"} /\ deque'[w] = <<>>
    BY ONLY <1>0, <1>10 DEF PopDeque, RunNext, AfterPop
  <2> QED
    BY ONLY <2>1, EmptiedBy(w) DEF EmptiedBy, At, WakeSteps, OwnerSteps
<1>11. CASE EnterSearch(w) \/ LeaveSearch(w) \/ StealInbox(w) \/ NothingFound(w) \/ TakeReadySlot(w)
             \/ Look(w)
  <2>1. /\ UNCHANGED <<taken, mine, deque>>
        /\ pc[w] \in {"search", "leave_search", "steal", "ready", "look_injector", "look_inbox",
                      "look_slot"}
        /\ pc'[w] \in {"leave_search", "steal", "take", "keep", "steal_deque", "park", "retire", "run",
                       "idle", "retract", "look_inbox", "look_slot"}
    BY ONLY <1>0, <1>11 DEF EnterSearch, LeaveSearch, StealInbox, NothingFound, TakeReadySlot, RunNext,
       Look, Sweep
  <2> QED
    BY ONLY <2>1, EmptiedBy(w) DEF EmptiedBy, At, WakeSteps, OwnerSteps
<1>12. CASE StealDeque(w)
  <2>1. /\ UNCHANGED <<taken, mine>> /\ pc[w] \in {"steal", "steal_deque"}
        /\ pc'[w] = "land" \/ (pc'[w] = "steal" /\ UNCHANGED deque)
    BY ONLY <1>0, <1>12 DEF StealDeque, StealFrom
  <2> QED
    BY ONLY <2>1, EmptiedBy(w) DEF EmptiedBy, At, WakeSteps, OwnerSteps
<1> QED
  BY <1>1, <1>2, <1>3, <1>4, <1>5, <1>6, <1>7, <1>8, <1>9, <1>10, <1>11, <1>12, <1>13
     DEF WorkerStep

\* Nobody fills the queues a worker has emptied on its way to sleep.
LEMMA EmptiedKept ==
    ASSUME Types, Steps, Emptied, Next
    PROVE  Emptied'
<1>0. /\ pc \in [Procs -> WorkerSteps \cup ClientSteps \cup WakeSteps]
      /\ call \in [Procs -> CallRecords] /\ Workers \subseteq Procs
      /\ \A w \in Workers : EmptiedBy(w)
  BY DEF Steps, Procs, Emptied
<1>1. UNCHANGED StealableInbox
  <2>1. UNCHANGED setup
    BY NextIsOneThreads DEF Moves, DropPool, stateVars, lifeVars
  <2> QED
    BY <2>1 DEF StealableInbox
<1>2. ASSUME NEW v \in Workers PROVE EmptiedBy(v)'
  <2>1. CASE WorkerStep(v) \/ ParkSpuriously(v)
    BY <1>0, <2>1, WorkerEmpties
  <2>2. CASE ~ (WorkerStep(v) \/ ParkSpuriously(v))
    <3>1. /\ At(v)' = At(v) /\ taken'[v] = taken[v] /\ mine'[v] = mine[v]
          /\ pc'[v] = pc[v] \/ pc[v] \in WakeSteps
      <4>1. CASE Wake(v)
        <5>1. UNCHANGED workerVars /\ At(v)' = At(v)
          BY <1>0, <4>1, WakeStaysAt
        <5>2. pc[v] \in WakeSteps
          BY ONLY <4>1 DEF Wake, ClaimSleeper, Unpark, ChooseSpill, Displace, WakeOwner, WakeSteps,
             OwnerSteps
        <5> QED
          BY <5>1, <5>2 DEF workerVars, countVars
      <4>2. ASSUME NEW p \in Procs, p # v, Moves(p)
            PROVE  At(v)' = At(v) /\ taken'[v] = taken[v] /\ mine'[v] = mine[v] /\ pc'[v] = pc[v]
        <5>1. pc'[v] = pc[v] /\ call'[v] = call[v] /\ taken'[v] = taken[v] /\ mine'[v] = mine[v]
          BY ONLY <1>0, <4>2, v \in Workers DEF Moves
        <5> QED
          BY ONLY <5>1 DEF At
      <4>3. CASE DropPool
        BY ONLY <4>3 DEF DropPool, At, workerVars, countVars
      <4>4. CASE \E p \in Procs : Wake(p) /\ p # v
        BY <4>2, <4>4, WakeMoves
      <4>5. CASE \E c \in Clients : ClientStep(c)
        BY <4>2, <4>5, ClientMoves, SetupsAssumption DEF Procs
      <4>6. CASE \E w \in Workers : (WorkerStep(w) \/ ParkSpuriously(w)) /\ w # v
        BY <4>2, <4>6, WorkerMoves DEF Procs
      <4> QED
        BY <2>2, <4>1, <4>3, <4>4, <4>5, <4>6 DEF Next
    <3>2. deque[v] = <<>> => deque'[v] = <<>>
      BY <2>2, OthersFillNothing
    <3> QED
      BY ONLY <1>0, <1>1, <3>1, <3>2, v \in Workers DEF EmptiedBy, WakeSteps, OwnerSteps
  <2> QED
    BY <2>1, <2>2
<1> QED
  BY <1>2 DEF Emptied
-----------------------------------------------------------------------------
(* Bits and permits *)

\* A thread in a wake-up takes no other step.
LEMMA OneThingAtATime ==
    ASSUME NEW p \in Procs
    PROVE  /\ p \in Clients /\ ClientStep(p) => pc[p] \notin WakeSteps
           /\ p \in Workers /\ (WorkerStep(p) \/ ParkSpuriously(p)) => pc[p] \notin WakeSteps
<1> USE DEF WakeSteps, OwnerSteps
<1>1. ASSUME ClientStep(p) PROVE pc[p] \notin WakeSteps
  BY ONLY <1>1 DEF ClientStep, Submit, SubmitToWorker, ShutDown, UnparkAll
<1>2. ASSUME \/ Run(p) \/ FinishJob(p) \/ Unwind(p) \/ TakeSlot(p) \/ TakeCapped(p) \/ PushCapped(p)
             \/ AnnounceCapped(p) \/ PopInjector(p) \/ LenInjector(p) \/ PopMine(p) \/ Share(p)
             \/ PopInbox(p) \/ PopDeque(p)
      PROVE  pc[p] \notin WakeSteps
  BY ONLY <1>2 DEF Run, FinishJob, Unwind, TakeSlot, TakeCapped, PushCapped, AnnounceCapped,
     PopInjector, LenInjector, PopMine, Share, PopInbox, PopDeque
<1>3. ASSUME \/ EnterSearch(p) \/ LeaveSearch(p) \/ StealInbox(p) \/ Keep(p) \/ StealDeque(p)
             \/ Land(p) \/ Release(p) \/ Found(p) \/ NothingFound(p) \/ TakeReadySlot(p) \/ Idle(p)
             \/ Announce(p) \/ Look(p) \/ Retract(p) \/ Park(p) \/ ParkSpuriously(p) \/ Woken(p)
             \/ Leave(p)
      PROVE  pc[p] \notin WakeSteps
  BY ONLY <1>3 DEF EnterSearch, LeaveSearch, StealInbox, Keep, StealDeque, Land, Release, Found,
     NothingFound, TakeReadySlot, Idle, Announce, Look, Retract, Park, ParkSpuriously, Woken, Leave
<1> QED
  BY <1>1, <1>2, <1>3 DEF WorkerStep

\* What a worker's own steps do to bits and permits.
LEMMA OwnBits ==
    ASSUME NEW w \in Workers, WorkerStep(w) \/ ParkSpuriously(w)
    PROVE  /\ Park(w) \/ UNCHANGED permit
           /\ \/ UNCHANGED sleeping
              \/ Announce(w) /\ sleeping' = sleeping \cup {w}
              \/ /\ Retract(w) \/ Woken(w) \/ (Found(w) /\ parking[w])
                 /\ sleeping' = sleeping \ {w}
<1> USE DEF stateVars, poolVars, lifeVars
<1>1. ASSUME \/ Run(w) \/ FinishJob(w) \/ Unwind(w) \/ TakeSlot(w) \/ TakeCapped(w) \/ PushCapped(w)
             \/ AnnounceCapped(w) \/ PopInjector(w) \/ LenInjector(w) \/ PopMine(w) \/ Share(w)
             \/ PopInbox(w) \/ PopDeque(w)
      PROVE  UNCHANGED <<permit, sleeping>>
  BY ONLY <1>1 DEF Run, FinishJob, Unwind, TakeSlot, TakeCapped, PushCapped, AnnounceCapped,
     PopInjector, LenInjector, PopMine, Share, PopInbox, PopDeque
<1>2. ASSUME \/ EnterSearch(w) \/ LeaveSearch(w) \/ StealInbox(w) \/ Keep(w) \/ StealDeque(w)
             \/ Land(w) \/ Release(w) \/ NothingFound(w) \/ TakeReadySlot(w) \/ Idle(w) \/ Look(w)
             \/ ParkSpuriously(w) \/ Leave(w)
      PROVE  UNCHANGED <<permit, sleeping>>
  BY ONLY <1>2 DEF EnterSearch, LeaveSearch, StealInbox, Keep, StealDeque, Land, Release,
     NothingFound, TakeReadySlot, Idle, Look, ParkSpuriously, Leave
<1>3. ASSUME Found(w)
      PROVE  UNCHANGED permit /\ (UNCHANGED sleeping \/ (parking[w] /\ sleeping' = sleeping \ {w}))
  BY ONLY <1>3 DEF Found
<1>4. ASSUME Announce(w) \/ Retract(w) \/ Woken(w)
      PROVE  /\ UNCHANGED permit
             /\ \/ Announce(w) /\ sleeping' = sleeping \cup {w}
                \/ (Retract(w) \/ Woken(w)) /\ sleeping' = sleeping \ {w}
  BY ONLY <1>4 DEF Announce, Retract, Woken
<1>5. Park(w) => UNCHANGED sleeping
  BY ONLY TRUE DEF Park
<1> QED
  BY <1>1, <1>2, <1>3, <1>4, <1>5 DEF WorkerStep

\* A bit that has been taken for a wake-up, or a permit, stays until its worker uses it.
LEMMA ClaimsStay ==
    ASSUME Types, Steps, Next, NEW w \in Workers, Claimed(w), ~ Park(w)
    PROVE  Claimed(w)'
<1> USE DEF stateVars, poolVars, lifeVars
<1>0. /\ pc \in [Procs -> WorkerSteps \cup ClientSteps \cup WakeSteps]
      /\ call \in [Procs -> CallRecords] /\ w \in Procs
  BY DEF Steps, Procs
<1>1. CASE DropPool
  BY ONLY <1>1, Claimed(w) DEF DropPool, Claimed
<1>2. ASSUME NEW p \in Procs, Moves(p), w \in permit => w \in permit',
             pc[p] = "unpark" => call[p].target \in permit'
      PROVE  Claimed(w)'
  <2>1. CASE w \in permit
    BY ONLY <1>2, <2>1 DEF Claimed
  <2>2. CASE w \notin permit
    <3>1. PICK q \in Procs : pc[q] = "unpark" /\ call[q].target = w
      BY <2>2 DEF Claimed
    <3>2. CASE q = p
      BY ONLY <1>2, <3>1, <3>2 DEF Claimed
    <3>3. CASE q # p
      BY ONLY <1>0, <1>2, <3>1, <3>3 DEF Claimed, Moves
    <3> QED
      BY ONLY <3>2, <3>3
  <2> QED
    BY ONLY <2>1, <2>2
<1>3. ASSUME NEW p \in Procs, Wake(p) PROVE Claimed(w)'
  <2>1. CASE Unpark(p)
    <3>1. permit' = permit \cup {call[p].target} /\ Moves(p)
      BY <2>1, UnparkFlow, WakeMoves DEF Wake
    <3> QED
      BY ONLY <1>2, <3>1
  <2>2. CASE ~ Unpark(p)
    <3>1. UNCHANGED permit /\ pc[p] # "unpark"
      BY ONLY <1>3, <2>2 DEF Wake, ClaimSleeper, ChooseSpill, Displace, WakeOwner
    <3>2. Moves(p)
      BY <1>3, WakeMoves
    <3> QED
      BY ONLY <1>2, <3>1, <3>2
  <2> QED
    BY ONLY <2>1, <2>2
<1>4. ASSUME NEW c \in Clients, ClientStep(c) PROVE Claimed(w)'
  <2>1. Moves(c) /\ c \in Procs /\ pc[c] # "unpark"
    BY <1>4, ClientMoves, OneThingAtATime DEF Procs, WakeSteps
  <2>2. permit \subseteq permit'
    BY ONLY <1>4 DEF ClientStep, Submit, SubmitToWorker, ShutDown, UnparkAll, Grant
  <2> QED
    BY ONLY <1>2, <2>1, <2>2
<1>5. ASSUME NEW v \in Workers, WorkerStep(v) \/ ParkSpuriously(v) PROVE Claimed(w)'
  <2>1. Moves(v) /\ v \in Procs /\ pc[v] # "unpark"
    BY <1>5, WorkerMoves, OneThingAtATime DEF Procs, WakeSteps
  <2>2. permit' = permit \/ (v # w /\ permit' = permit \ {v})
    BY <1>5, OwnBits DEF Park
  <2> QED
    BY ONLY <1>2, <2>1, <2>2
<1> QED
  BY <1>1, <1>3, <1>4, <1>5 DEF Next

\* A bit that is taken by another thread is taken to wake its worker.
LEMMA BitsAreTakenToWake ==
    ASSUME Types, Steps, Next, NEW w \in Workers, w \in sleeping, w \notin sleeping'
    PROVE  Claimed(w)' \/ Retract(w) \/ Woken(w) \/ (Found(w) /\ parking[w])
<1> USE DEF stateVars, poolVars, lifeVars
<1>1. CASE DropPool
  BY ONLY <1>1, w \in sleeping, w \notin sleeping' DEF DropPool
<1>2. ASSUME NEW p \in Procs, Wake(p) PROVE Claimed(w)'
  <2>1. CASE ClaimSleeper(p)
    <3>1. GoesOn(p, "unpark") /\ sleeping' = sleeping \ {call'[p].target}
      BY <2>1, ClaimSleeperFlow
    <3> QED
      BY ONLY <3>1, w \in sleeping, w \notin sleeping', p \in Procs DEF GoesOn, Claimed
  <2>2. CASE WakeOwner(p)
    <3>1. /\ sleeping' = sleeping \ {call[p].owner}
          /\ call[p].owner \in sleeping =>
               GoesOn(p, "unpark") /\ call'[p].target = call[p].owner
      BY <2>2, WakeOwnerFlow
    <3> QED
      BY ONLY <3>1, w \in sleeping, w \notin sleeping', p \in Procs DEF GoesOn, Claimed
  <2>3. CASE Unpark(p) \/ ChooseSpill(p) \/ Displace(p)
    BY ONLY <2>3, w \in sleeping, w \notin sleeping' DEF Unpark, ChooseSpill, Displace
  <2> QED
    BY ONLY <1>2, <2>1, <2>2, <2>3 DEF Wake
<1>3. ASSUME NEW c \in Clients, ClientStep(c) PROVE FALSE
  BY ONLY <1>3, w \in sleeping, w \notin sleeping'
     DEF ClientStep, Submit, SubmitToWorker, ShutDown, UnparkAll
<1>4. ASSUME NEW v \in Workers, WorkerStep(v) \/ ParkSpuriously(v)
      PROVE  Retract(w) \/ Woken(w) \/ (Found(w) /\ parking[w])
  <2>1. \/ UNCHANGED sleeping \/ sleeping' = sleeping \cup {v}
        \/ /\ Retract(v) \/ Woken(v) \/ (Found(v) /\ parking[v])
           /\ sleeping' = sleeping \ {v}
    BY <1>4, OwnBits
  <2> QED
    BY ONLY <2>1, w \in sleeping, w \notin sleeping'
<1> QED
  BY <1>1, <1>2, <1>3, <1>4 DEF Next

\* Only the worker itself sets its bit.
LEMMA BitsAreSetByTheirWorkers ==
    ASSUME Types, Steps, Next, NEW w \in Workers, w \notin sleeping, w \in sleeping'
    PROVE  Announce(w)
<1> USE DEF stateVars, poolVars, lifeVars
<1>1. CASE DropPool
  BY ONLY <1>1, w \notin sleeping, w \in sleeping' DEF DropPool
<1>2. ASSUME NEW p \in Procs, Wake(p) PROVE FALSE
  BY ONLY <1>2, w \notin sleeping, w \in sleeping'
     DEF Wake, ClaimSleeper, Unpark, ChooseSpill, Displace, WakeOwner
<1>3. ASSUME NEW c \in Clients, ClientStep(c) PROVE FALSE
  BY ONLY <1>3, w \notin sleeping, w \in sleeping'
     DEF ClientStep, Submit, SubmitToWorker, ShutDown, UnparkAll
<1>4. ASSUME NEW v \in Workers, WorkerStep(v) \/ ParkSpuriously(v) PROVE Announce(w)
  <2>1. \/ UNCHANGED sleeping \/ (Announce(v) /\ sleeping' = sleeping \cup {v})
        \/ sleeping' = sleeping \ {v}
    BY <1>4, OwnBits
  <2> QED
    BY ONLY <2>1, w \notin sleeping, w \in sleeping'
<1> QED
  BY <1>1, <1>2, <1>3, <1>4 DEF Next

\* A wake of a drowsy worker that is on its way arrives.
LEMMA WakesArrive ==
    ASSUME Types, Steps, BitKept, Next, NEW w \in Workers, Coming(w), Drowsy(w), ~ Park(w)
    PROVE  Coming(w)'
<1>0. /\ pc \in [Procs -> WorkerSteps \cup ClientSteps \cup WakeSteps]
      /\ call \in [Procs -> CallRecords]
  BY DEF Steps
<1>1. CASE Claimed(w)
  BY <1>1, ClaimsStay DEF Coming
<1>2. CASE ~ Claimed(w)
  <2>1. PICK q \in Procs : pc[q] \in OwnerSteps /\ call[q].owner = w
    BY <1>2 DEF Coming
  <2>2. w \in sleeping
    BY <1>2 DEF BitKept
  <2>3. ASSUME NEW p \in Procs, p # q, Moves(p) PROVE Coming(w)'
    BY ONLY <1>0, <2>1, <2>3 DEF Moves, Coming
  <2>4. CASE Wake(q)
    <3>1. CASE ChooseSpill(q)
      <4>1. pc'[q] \in OwnerSteps /\ UNCHANGED call
        BY <3>1, ChooseSpillFlow DEF OwnerSteps
      <4> QED
        BY ONLY <2>1, <4>1 DEF Coming
    <3>2. CASE Displace(q)
      <4>1. GoesOn(q, "wake_owner")
        BY <3>2, DisplaceFlow
      <4> QED
        BY ONLY <2>1, <4>1 DEF Coming, GoesOn, OwnerSteps
    <3>3. CASE WakeOwner(q)
      <4>1. GoesOn(q, "unpark") /\ call'[q].target = w
        BY <2>1, <2>2, <3>3, WakeOwnerFlow
      <4> QED
        BY ONLY <4>1, q \in Procs DEF GoesOn, Coming, Claimed
    <3>4. ~ ClaimSleeper(q) /\ ~ Unpark(q)
      BY ONLY <2>1 DEF ClaimSleeper, Unpark, OwnerSteps
    <3> QED
      BY ONLY <2>4, <3>1, <3>2, <3>3, <3>4 DEF Wake
  <2>5. pc[q] \in WakeSteps
    BY ONLY <2>1 DEF WakeSteps
  <2>6. CASE DropPool
    BY ONLY <2>1, <2>6 DEF DropPool, Coming
  <2>7. ASSUME NEW p \in Procs, Wake(p) PROVE Coming(w)'
    BY <2>3, <2>4, <2>7, WakeMoves
  <2>8. ASSUME NEW c \in Clients, ClientStep(c) PROVE Coming(w)'
    BY <2>3, <2>5, <2>8, ClientMoves, OneThingAtATime DEF Procs
  <2>9. ASSUME NEW v \in Workers, WorkerStep(v) \/ ParkSpuriously(v) PROVE Coming(w)'
    BY <2>3, <2>5, <2>9, WorkerMoves, OneThingAtATime DEF Procs
  <2> QED
    BY <2>6, <2>7, <2>8, <2>9 DEF Next
<1> QED
  BY <1>1, <1>2
-----------------------------------------------------------------------------
(* Falling asleep *)

\* How a worker's own steps take it to its sleep and out of it.
LEMMA OwnSleep ==
    ASSUME Types, Steps, NEW w \in Workers, parking[w] => At(w) \in StealSteps,
           WorkerStep(w) \/ ParkSpuriously(w)
    PROVE  /\ Announced(w) =>
                Announced(w)' \/ Retract(w) \/ Woken(w) \/ (Found(w) /\ parking[w])
           /\ Announce(w) => Announced(w)'
           /\ Drowsy(w)' => /\ Drowsy(w) \/ Announce(w)
                            /\ ~ Park(w) /\ UNCHANGED <<inbox, lifo, injector>>
           /\ InjectorSeen(w)' => InjectorSeen(w) \/ injector = <<>>
           /\ InboxSeen(w)' => InboxSeen(w) \/ inbox[w] = <<>>
           /\ SlotSeen(w)' => SlotSeen(w) \/ lifo[w] = None
<1> USE DEF Set, Goto, Announced, Drowsy, InjectorSeen, InboxSeen, SlotSeen, At, WakeSteps, OwnerSteps,
    StealSteps
<1> DEFINE Goal ==
           /\ Announced(w) =>
                Announced(w)' \/ Retract(w) \/ Woken(w) \/ (Found(w) /\ parking[w])
           /\ Announce(w) => Announced(w)'
           /\ Drowsy(w)' => /\ Drowsy(w) \/ Announce(w)
                            /\ ~ Park(w) /\ UNCHANGED <<inbox, lifo, injector>>
           /\ InjectorSeen(w)' => InjectorSeen(w) \/ injector = <<>>
           /\ InboxSeen(w)' => InboxSeen(w) \/ inbox[w] = <<>>
           /\ SlotSeen(w)' => SlotSeen(w) \/ lifo[w] = None
<1>0. /\ pc \in [Procs -> WorkerSteps \cup ClientSteps \cup WakeSteps]
      /\ parking \in [Workers -> BOOLEAN] /\ w \in Procs
      /\ parking[w] => At(w) \in StealSteps
  BY DEF Types, StealTypes, Steps, Procs
<1>1. CASE FinishJob(w) \/ AnnounceCapped(w) \/ LenInjector(w) \/ Share(w) \/ Keep(w) \/ Release(w)
  <2>1. UNCHANGED parking /\ ~ Announce(w)
    BY ONLY <1>1 DEF FinishJob, AnnounceCapped, LenInjector, Share, Keep, Release, workerVars, stealVars,
       Announce
  <2>2. /\ pc[w] \in {"run", "capped_len", "fair_len", "len", "share", "keep", "release"}
        /\ At(w)' \in {"slot", "fair_take", "mine", "share", "ready", "idle", "run", "found"}
        /\ pc[w] \in {"keep", "release"} => At(w)' = "found"
    BY <1>1, SubmittersLeadTo DEF AfterCapped
  <2> QED
    BY ONLY <1>0, <2>1, <2>2
<1>2. CASE Run(w) \/ Unwind(w) \/ TakeSlot(w) \/ TakeCapped(w) \/ PushCapped(w) \/ PopInjector(w)
             \/ PopMine(w) \/ PopInbox(w) \/ PopDeque(w)
  <2>1. UNCHANGED parking /\ ~ Announce(w)
    BY ONLY <1>2 DEF Run, Unwind, TakeSlot, TakeCapped, PushCapped, PopInjector, PopMine, PopInbox,
       PopDeque, workerVars, stealVars, Announce
  <2>2. /\ pc[w] \in {"off", "run", "slot", "capped", "capped_push", "fair_take", "take", "mine",
                      "inbox", "pop"}
        /\ pc'[w] \in {"slot", "dead", "run", "mine", "capped", "fair_take", "capped_push",
                       "capped_len", "take", "len", "fair_len", "share", "inbox", "pop", "search"}
    BY ONLY <1>0, <1>2 DEF Run, Unwind, TakeSlot, RunNext, TakeCapped, PushCapped, AfterCapped,
       PopInjector, PopMine, Promote, PopInbox, PopDeque, AfterPop
  <2> QED
    BY ONLY <1>0, <2>1, <2>2
<1>3. CASE TakeReadySlot(w) \/ Idle(w) \/ Leave(w) \/ EnterSearch(w) \/ LeaveSearch(w)
  <2>1. UNCHANGED parking /\ ~ Announce(w)
    BY ONLY <1>3 DEF TakeReadySlot, Idle, Leave, EnterSearch, LeaveSearch, workerVars, stealVars, Announce
  <2>2. /\ pc[w] \in {"ready", "idle", "leave", "search", "leave_search"}
        /\ pc'[w] \in {"run", "idle", "leave", "slot", "announce", "off", "leave_search", "steal", "take"}
    BY ONLY <1>0, <1>3 DEF TakeReadySlot, RunNext, Idle, Leave, EnterSearch, Sweep, LeaveSearch
  <2> QED
    BY ONLY <1>0, <2>1, <2>2
<1>4. CASE StealInbox(w) \/ StealDeque(w) \/ Land(w)
  <2>1. UNCHANGED parking /\ ~ Announce(w) /\ ~ Park(w)
    BY ONLY <1>4 DEF StealInbox, StealDeque, Land, Announce, Park
  <2>2. /\ pc[w] \in {"steal", "steal_deque", "land"}
        /\ pc'[w] \in {"steal", "steal_deque", "keep", "land", "release"}
        /\ pc[w] = "land" => pc'[w] = "release"
        /\ pc'[w] \in {"steal", "steal_deque"} => UNCHANGED <<inbox, lifo, injector>>
    BY ONLY <1>0, <1>4 DEF StealInbox, StealDeque, StealFrom, Land
  <2> QED
    BY ONLY <1>0, <2>1, <2>2
<1>5. CASE Found(w) \/ NothingFound(w)
  <2>1. ~ Announce(w) /\ ~ Park(w) /\ UNCHANGED <<inbox, lifo, injector>>
    BY ONLY <1>5 DEF Found, NothingFound, Announce, Park, queueVars
  <2>2. /\ ~ parking'[w]
        /\ \/ Found(w) /\ pc[w] = "found" /\ pc'[w] = "slot"
           \/ pc[w] = "steal" /\ ~ parking[w] /\ pc'[w] = "take"
           \/ pc[w] = "steal" /\ parking[w] /\ pc'[w] \in {"park", "retire"}
    BY ONLY <1>0, <1>5, w \in Workers DEF Found, NothingFound
  <2> QED
    BY ONLY <1>0, <2>1, <2>2
<1>6. CASE Announce(w)
  <2>1. /\ pc[w] = "announce" /\ pc'[w] = "look_injector" /\ UNCHANGED parking /\ ~ Park(w)
        /\ UNCHANGED <<inbox, lifo, injector>>
    BY ONLY <1>0, <1>6 DEF Announce, Park, workerVars, stealVars, queueVars
  <2> QED
    BY ONLY <1>0, <1>6, <2>1
<1>7. CASE Look(w)
  <2>1. ~ Announce(w) /\ ~ Park(w) /\ UNCHANGED <<inbox, lifo, injector>>
    BY ONLY <1>7 DEF Look, Announce, Park, poolVars, queueVars
  <2>2. /\ pc[w] \in {"look_injector", "look_inbox", "look_slot"}
        /\ \/ pc'[w] = "retract" /\ UNCHANGED parking
           \/ pc[w] = "look_injector" /\ injector = <<>> /\ pc'[w] = "look_inbox" /\ UNCHANGED parking
           \/ pc[w] = "look_inbox" /\ inbox[w] = <<>> /\ pc'[w] = "look_slot" /\ UNCHANGED parking
           \/ pc[w] = "look_slot" /\ lifo[w] = None /\ pc'[w] = "steal" /\ parking'[w]
    BY ONLY <1>0, <1>7, w \in Workers DEF Look, SeesWork, Sweep
  <2> QED
    BY ONLY <1>0, <2>1, <2>2
<1>8. CASE Retract(w) \/ Park(w) \/ ParkSpuriously(w) \/ Woken(w)
  <2>1. UNCHANGED parking /\ ~ Announce(w)
    BY ONLY <1>8 DEF Retract, Park, ParkSpuriously, Woken, workerVars, stealVars, Announce
  <2>2. /\ Retract(w) \/ Woken(w) \/ (pc[w] = "park" /\ pc'[w] = "woken")
        /\ pc[w] \in {"retract", "retire", "park", "woken"} /\ pc'[w] \in {"slot", "leave", "woken"}
    BY ONLY <1>0, <1>8 DEF Retract, Park, ParkSpuriously, Woken
  <2> QED
    BY ONLY <1>0, <2>1, <2>2
<1> QED
  BY ONLY <1>1, <1>2, <1>3, <1>4, <1>5, <1>6, <1>7, <1>8, WorkerStep(w) \/ ParkSpuriously(w) DEF WorkerStep

\* Nobody falls asleep in a wake-up.
LEMMA WakersAreAwake ==
    ASSUME Types, Steps, NEW w \in Workers, Wake(w)
    PROVE  ~ Drowsy(w)' /\ (Announced(w) => Announced(w)')
<1> USE DEF WakeSteps, OwnerSteps
<1>1. At(w)' = At(w) /\ UNCHANGED parking
  BY WakeStaysAt DEF Procs, workerVars, stealVars
<1>2. pc[w] \in WakeSteps /\ call[w].back \in Backs
  <2>1. pc[w] \in WakeSteps
    BY ONLY Wake(w) DEF Wake, ClaimSleeper, Unpark, ChooseSpill, Displace, WakeOwner
  <2>2. PICK c \in CallRecords : c = call[w]
    BY DEF Steps, Procs
  <2> QED
    BY ONLY <2>1, <2>2 DEF CallRecords
<1> QED
  BY ONLY <1>1, <1>2 DEF Drowsy, InjectorSeen, InboxSeen, SlotSeen, Announced, At, Backs, StealSteps

\* The others neither put a worker to sleep nor wake it up otherwise than by a claim.
LEMMA OthersSleep ==
    ASSUME Types, Steps, NEW p \in Procs, Moves(p), NEW w \in Workers, w # p
    PROVE  /\ pc'[w] = pc[w]
           /\ UNCHANGED <<Announced(w), Drowsy(w), InjectorSeen(w), InboxSeen(w), SlotSeen(w)>>
<1>1. pc'[w] = pc[w] /\ call'[w] = call[w] /\ parking'[w] = parking[w]
  BY DEF Moves, Steps, Procs
<1> QED
  BY ONLY <1>1 DEF Announced, Drowsy, InjectorSeen, InboxSeen, SlotSeen, At
\* A worker that takes no step keeps its place.
LEMMA RestingStays ==
    ASSUME Types, Steps, Next, NEW w \in Workers, ~ (WorkerStep(w) \/ ParkSpuriously(w)), ~ Wake(w)
    PROVE  pc'[w] = pc[w] /\ UNCHANGED <<Announced(w), Drowsy(w), InjectorSeen(w), InboxSeen(w), SlotSeen(w)>>
<1>1. CASE DropPool
  <2>1. UNCHANGED <<pc, call, parking>>
    BY ONLY <1>1 DEF DropPool, workerVars, stealVars
  <2> QED
    BY ONLY <2>1 DEF Announced, Drowsy, InjectorSeen, InboxSeen, SlotSeen, At
<1>2. ASSUME NEW p \in Procs, Wake(p)
      PROVE  pc'[w] = pc[w] /\ UNCHANGED <<Announced(w), Drowsy(w), InjectorSeen(w), InboxSeen(w), SlotSeen(w)>>
  BY <1>2, WakeMoves, OthersSleep
<1>3. ASSUME NEW c \in Clients, ClientStep(c)
      PROVE  pc'[w] = pc[w] /\ UNCHANGED <<Announced(w), Drowsy(w), InjectorSeen(w), InboxSeen(w), SlotSeen(w)>>
  BY <1>3, ClientMoves, OthersSleep, SetupsAssumption DEF Procs
<1>4. ASSUME NEW v \in Workers, WorkerStep(v) \/ ParkSpuriously(v)
      PROVE  pc'[w] = pc[w] /\ UNCHANGED <<Announced(w), Drowsy(w), InjectorSeen(w), InboxSeen(w), SlotSeen(w)>>
  BY <1>4, WorkerMoves, OthersSleep DEF Procs
<1> QED
  BY <1>1, <1>2, <1>3, <1>4 DEF Next

\* A worker's bit is set from its announcement on until somebody claims it.
LEMMA BitsKept ==
    ASSUME Types, Steps, SearchersCounted, BitKept, Next
    PROVE  BitKept'
<1>0. \A w \in Workers : parking[w] => At(w) \in StealSteps
  BY DEF SearchersCounted
<1>1. ASSUME NEW w \in sleeping' PROVE Announced(w)'
  <2>0. w \in Workers
    BY TypesKept DEF Types, StateTypes
  <2>1. CASE w \notin sleeping
    <3>1. Announce(w)
      BY <2>0, <2>1, BitsAreSetByTheirWorkers
    <3> QED
      BY <1>0, <2>0, <3>1, OwnSleep DEF WorkerStep
  <2>2. CASE w \in sleeping
    <3>1. Announced(w)
      BY <2>2 DEF BitKept
    <3>2. CASE WorkerStep(w) \/ ParkSpuriously(w)
      <4>1. ~ Retract(w) /\ ~ Woken(w) /\ ~ (Found(w) /\ parking[w])
        BY ONLY w \in sleeping' DEF Retract, Woken, Found
      <4> QED
        BY <1>0, <2>0, <3>1, <3>2, <4>1, OwnSleep
    <3>3. CASE Wake(w)
      BY <2>0, <3>1, <3>3, WakersAreAwake
    <3>4. CASE ~ (WorkerStep(w) \/ ParkSpuriously(w)) /\ ~ Wake(w)
      BY <2>0, <3>1, <3>4, RestingStays
    <3> QED
      BY <3>2, <3>3, <3>4
  <2> QED
    BY <2>1, <2>2
<1>2. ASSUME NEW w \in Workers, Drowsy(w)' PROVE w \in sleeping' \/ Claimed(w)'
  <2>1. CASE Drowsy(w) /\ ~ Park(w) /\ ~ Retract(w) /\ ~ Woken(w) /\ ~ (Found(w) /\ parking[w])
    <3>1. w \in sleeping \/ Claimed(w)
      BY <2>1 DEF BitKept
    <3> QED
      BY <2>1, <3>1, ClaimsStay, BitsAreTakenToWake
  <2>2. CASE WorkerStep(w) \/ ParkSpuriously(w)
    <3>1. ~ Park(w) /\ (Drowsy(w) \/ Announce(w))
      BY <1>0, <1>2, <2>2, OwnSleep
    <3>2. CASE Announce(w)
      BY ONLY <3>2 DEF Announce
    <3>3. ~ Retract(w) /\ ~ Woken(w) /\ ~ Found(w)
      <4>1. pc \in [Procs -> WorkerSteps \cup ClientSteps \cup WakeSteps] /\ w \in Procs
            /\ parking \in [Workers -> BOOLEAN]
        BY DEF Steps, Procs, Types, StealTypes
      <4> QED
        BY ONLY <1>2, <4>1 DEF Retract, Woken, Found, Drowsy, InjectorSeen, InboxSeen, SlotSeen, Goto
    <3> QED
      BY <2>1, <3>1, <3>2, <3>3
  <2>3. CASE Wake(w)
    BY <1>2, <2>3, WakersAreAwake
  <2>4. CASE ~ (WorkerStep(w) \/ ParkSpuriously(w)) /\ ~ Wake(w)
    <3>1. Drowsy(w)
      BY <1>2, <2>4, RestingStays
    <3> QED
      BY <2>1, <2>4, <3>1 DEF WorkerStep
  <2> QED
    BY <2>2, <2>3, <2>4
<1> QED
  BY <1>1, <1>2 DEF BitKept
-----------------------------------------------------------------------------
(* Private work *)

\* A job that another thread puts into an inbox is followed by a wake of its owner.
LEMMA InboxIsAnnounced ==
    ASSUME Types, Steps, Next, NEW w \in Workers, inbox[w] = <<>>, inbox'[w] # <<>>
    PROVE  Coming(w)' \/ PushCapped(w)
<1> USE DEF Set, Goto, queueVars, poolVars
<1>0. inbox \in [Workers -> Seq(Jobs)]
  BY DEF Types, QueueTypes
<1>1. CASE DropPool
  BY ONLY <1>1, inbox'[w] # <<>>, w \in Workers DEF DropPool
<1>2. ASSUME NEW p \in Procs, Wake(p) PROVE Coming(w)'
  <2>1. CASE Displace(p)
    <3>1. /\ GoesOn(p, "wake_owner")
          /\ inbox' = inbox \/ inbox' = [inbox EXCEPT ![call[p].owner] = Append(@, job[p])]
      BY <2>1, DisplaceFlow
    <3>2. call[p].owner = w
      BY ONLY <1>0, <3>1, inbox[w] = <<>>, inbox'[w] # <<>>, w \in Workers
    <3> QED
      BY ONLY <3>1, <3>2, p \in Procs DEF GoesOn, Coming, OwnerSteps
  <2>2. CASE ~ Displace(p)
    BY ONLY <1>2, <2>2, inbox[w] = <<>>, inbox'[w] # <<>>
       DEF Wake, ClaimSleeper, Unpark, ChooseSpill, WakeOwner
  <2> QED
    BY ONLY <2>1, <2>2
<1>3. ASSUME NEW c \in Clients, ClientStep(c) PROVE FALSE
  BY ONLY <1>3, inbox[w] = <<>>, inbox'[w] # <<>>
     DEF ClientStep, Submit, SubmitToWorker, ShutDown, UnparkAll
<1>4. ASSUME NEW v \in Workers, WorkerStep(v) \/ ParkSpuriously(v) PROVE PushCapped(w)
  <2>1. CASE PushCapped(v)
    <3>1. inbox' = [inbox EXCEPT ![v] = Append(@, job[v])]
      BY ONLY <2>1 DEF PushCapped, Add
    <3> QED
      BY ONLY <1>0, <2>1, <3>1, inbox[w] = <<>>, inbox'[w] # <<>>, w \in Workers
  <2>2. CASE PopInbox(v)
    BY ONLY <1>0, <2>2, inbox[w] = <<>>, inbox'[w] # <<>>, w \in Workers DEF PopInbox
  <2>3. CASE StealInbox(v)
    BY ONLY <1>0, <2>3, inbox[w] = <<>>, inbox'[w] # <<>>, w \in Workers DEF StealInbox
  <2>4. CASE \/ Run(v) \/ FinishJob(v) \/ Unwind(v) \/ TakeSlot(v) \/ TakeCapped(v) \/ AnnounceCapped(v)
             \/ PopInjector(v) \/ LenInjector(v) \/ PopMine(v) \/ Share(v) \/ PopDeque(v)
             \/ EnterSearch(v) \/ LeaveSearch(v) \/ Keep(v)
    BY ONLY <2>4, inbox[w] = <<>>, inbox'[w] # <<>> DEF Run, FinishJob, Unwind, TakeSlot, TakeCapped,
       AnnounceCapped, PopInjector, LenInjector, PopMine, Share, PopDeque, EnterSearch, LeaveSearch, Keep
  <2>5. CASE \/ StealDeque(v) \/ Land(v) \/ Release(v) \/ Found(v) \/ NothingFound(v) \/ TakeReadySlot(v)
             \/ Idle(v) \/ Announce(v) \/ Look(v) \/ Retract(v) \/ Park(v) \/ ParkSpuriously(v)
             \/ Woken(v) \/ Leave(v)
    BY ONLY <2>5, inbox[w] = <<>>, inbox'[w] # <<>> DEF StealDeque, Land, Release, Found, NothingFound,
       TakeReadySlot, Idle, Announce, Look, Retract, Park, ParkSpuriously, Woken, Leave
  <2> QED
    BY <1>4, <2>1, <2>2, <2>3, <2>4, <2>5 DEF WorkerStep
<1> QED
  BY <1>1, <1>2, <1>3, <1>4 DEF Next

\* A job that is put into a slot is followed by a wake of its worker.
LEMMA SlotIsAnnounced ==
    ASSUME Types, Steps, Next, NEW w \in Workers, lifo[w] = None, lifo'[w] # None
    PROVE  Coming(w)'
<1> USE DEF Set, Goto, queueVars, poolVars
<1>0. lifo \in [Workers -> Jobs \cup {None}]
  BY DEF Types, QueueTypes
<1>1. CASE DropPool
  BY ONLY <1>1, lifo'[w] # None, w \in Workers DEF DropPool
<1>2. ASSUME NEW p \in Procs, NEW v \in Workers, NEW j \in Jobs, NEW back \in Backs, Hands(p, v, j, back)
      PROVE  Coming(w)'
  <2>1. lifo' = lifo \/ (/\ lifo' = [lifo EXCEPT ![v] = j] /\ call'[p].owner = v
                         /\ pc'[p] \in {"wake_owner", "displace", "put_inbox"})
    BY ONLY <1>2 DEF Hands
  <2>2. v = w /\ call'[p].owner = v /\ pc'[p] \in {"wake_owner", "displace", "put_inbox"}
    BY ONLY <1>0, <2>1, lifo[w] = None, lifo'[w] # None, w \in Workers
  <2> QED
    BY ONLY <2>2, p \in Procs DEF Coming, OwnerSteps
<1>3. ASSUME NEW p \in Procs, Wake(p) PROVE FALSE
  BY ONLY <1>3, lifo[w] = None, lifo'[w] # None
     DEF Wake, ClaimSleeper, Unpark, ChooseSpill, Displace, WakeOwner
<1>4. ASSUME NEW c \in Clients, ClientStep(c) PROVE Coming(w)'
  <2>1. CASE SubmitToWorker(c)
    <3>1. PICK v \in Workers, j \in Jobs : Hands(c, v, j, "idle")
      BY <2>1, SubmitToWorkerFlow
    <3>2. c \in Procs /\ "idle" \in Backs
      BY DEF Procs, Backs
    <3> QED
      BY ONLY <1>2, <3>1, <3>2
  <2>2. CASE ~ SubmitToWorker(c)
    BY ONLY <1>4, <2>2, lifo[w] = None, lifo'[w] # None DEF ClientStep, Submit, ShutDown, UnparkAll
  <2> QED
    BY ONLY <2>1, <2>2
<1>5. ASSUME NEW v \in Workers, WorkerStep(v) \/ ParkSpuriously(v) PROVE Coming(w)'
  <2>1. CASE FinishJob(v)
    <3>1. PICK j \in Jobs : Hands(v, v, j, "slot")
      BY <2>1, FinishJobFlow
    <3>2. v \in Procs /\ "slot" \in Backs
      BY DEF Procs, Backs
    <3> QED
      BY ONLY <1>2, <3>1, <3>2, v \in Workers
  <2>2. CASE TakeSlot(v) \/ TakeCapped(v) \/ TakeReadySlot(v)
    BY ONLY <1>0, <2>2, lifo[w] = None, lifo'[w] # None, w \in Workers
       DEF TakeSlot, TakeCapped, TakeReadySlot
  <2>3. CASE \/ Run(v) \/ Unwind(v) \/ PushCapped(v) \/ AnnounceCapped(v)
             \/ PopInjector(v) \/ LenInjector(v) \/ PopMine(v) \/ Share(v) \/ PopInbox(v) \/ PopDeque(v)
             \/ EnterSearch(v) \/ LeaveSearch(v) \/ Keep(v)
    BY ONLY <2>3, lifo[w] = None, lifo'[w] # None DEF Run, Unwind, PushCapped,
       AnnounceCapped, PopInjector, LenInjector, PopMine, Share, PopInbox, PopDeque, EnterSearch,
       LeaveSearch, Keep
  <2>4. CASE \/ StealInbox(v) \/ StealDeque(v) \/ Land(v) \/ Release(v) \/ Found(v) \/ NothingFound(v)
             \/ Idle(v) \/ Announce(v) \/ Look(v) \/ Retract(v) \/ Park(v) \/ ParkSpuriously(v)
             \/ Woken(v) \/ Leave(v)
    BY ONLY <2>4, lifo[w] = None, lifo'[w] # None DEF StealInbox, StealDeque, Land, Release, Found,
       NothingFound, Idle, Announce, Look, Retract, Park, ParkSpuriously, Woken, Leave
  <2> QED
    BY <1>5, <2>1, <2>2, <2>3, <2>4 DEF WorkerStep
<1> QED
  BY <1>1, <1>3, <1>4, <1>5 DEF Next

\* No worker goes to sleep on its inbox or slot.
LEMMA PrivateWorkStaysSeen ==
    ASSUME Types, Steps, SearchersCounted, BitKept, PrivateWorkSeen, Next
    PROVE  PrivateWorkSeen'
<1>0. \A w \in Workers : parking[w] => At(w) \in StealSteps
  BY DEF SearchersCounted
<1>1. ASSUME NEW w \in Workers
      PROVE  /\ InboxSeen(w) => Drowsy(w)
             /\ SlotSeen(w) => Drowsy(w)
             /\ InboxSeen(w)' => Drowsy(w)'
             /\ SlotSeen(w)' => Drowsy(w)'
  BY ONLY TRUE DEF InboxSeen, SlotSeen, InjectorSeen, Drowsy
<1>2. ASSUME NEW w \in Workers, InboxSeen(w)', inbox'[w] # <<>> PROVE Coming(w)'
  <2>1. CASE InboxSeen(w) /\ inbox[w] # <<>> /\ ~ Park(w)
    <3>1. Coming(w) /\ Drowsy(w)
      BY <1>1, <2>1 DEF PrivateWorkSeen
    <3> QED
      BY <2>1, <3>1, WakesArrive
  <2>2. CASE WorkerStep(w) \/ ParkSpuriously(w)
    <3>1. Drowsy(w)'
      BY <1>1, <1>2
    <3>2. ~ Park(w) /\ UNCHANGED inbox /\ (InboxSeen(w) \/ inbox[w] = <<>>)
      BY <1>0, <1>2, <2>2, <3>1, OwnSleep
    <3> QED
      BY <1>2, <2>1, <3>2
  <2>3. CASE Wake(w)
    BY <1>1, <1>2, <2>3, WakersAreAwake
  <2>4. CASE ~ (WorkerStep(w) \/ ParkSpuriously(w)) /\ ~ Wake(w)
    <3>1. InboxSeen(w) /\ ~ Park(w) /\ ~ PushCapped(w)
      BY <1>2, <2>4, RestingStays DEF WorkerStep
    <3> QED
      BY <1>2, <2>1, <3>1, InboxIsAnnounced
  <2> QED
    BY <2>2, <2>3, <2>4
<1>3. ASSUME NEW w \in Workers, SlotSeen(w)', lifo'[w] # None PROVE Coming(w)'
  <2>1. CASE SlotSeen(w) /\ lifo[w] # None /\ ~ Park(w)
    <3>1. Coming(w) /\ Drowsy(w)
      BY <1>1, <2>1 DEF PrivateWorkSeen
    <3> QED
      BY <2>1, <3>1, WakesArrive
  <2>2. CASE WorkerStep(w) \/ ParkSpuriously(w)
    <3>1. Drowsy(w)'
      BY <1>1, <1>3
    <3>2. ~ Park(w) /\ UNCHANGED lifo /\ (SlotSeen(w) \/ lifo[w] = None)
      BY <1>0, <1>3, <2>2, <3>1, OwnSleep
    <3> QED
      BY <1>3, <2>1, <3>2
  <2>3. CASE Wake(w)
    BY <1>1, <1>3, <2>3, WakersAreAwake
  <2>4. CASE ~ (WorkerStep(w) \/ ParkSpuriously(w)) /\ ~ Wake(w)
    <3>1. SlotSeen(w) /\ ~ Park(w)
      BY <1>3, <2>4, RestingStays DEF WorkerStep
    <3> QED
      BY <1>3, <2>1, <3>1, SlotIsAnnounced
  <2> QED
    BY <2>2, <2>3, <2>4
<1> QED
  BY <1>2, <1>3 DEF PrivateWorkSeen

-----------------------------------------------------------------------------
(* Shutdown *)

\* Only shut_down clears the flag, and it takes a round of unparks on itself.
LEMMA RunningStays ==
    ASSUME Types, Steps, Next
    PROVE  \/ UNCHANGED running
           \/ ~ running' /\ \E c \in Clients : ShutDown(c) /\ pc'[c] = "unpark_all" /\ todo'[c] = Workers
<1> USE DEF stateVars, poolVars, lifeVars, Set, Goto
<1>0. /\ pc \in [Procs -> WorkerSteps \cup ClientSteps \cup WakeSteps]
      /\ todo \in [Procs -> SUBSET Workers]
  BY DEF Steps, Types, StealTypes
<1>1. CASE DropPool
  BY ONLY <1>1 DEF DropPool
<1>2. ASSUME NEW p \in Procs, Wake(p) PROVE UNCHANGED running
  BY ONLY <1>2 DEF Wake, ClaimSleeper, Unpark, ChooseSpill, Displace, WakeOwner
<1>3. ASSUME NEW c \in Clients, ClientStep(c)
      PROVE  UNCHANGED running \/ (~ running' /\ ShutDown(c) /\ pc'[c] = "unpark_all" /\ todo'[c] = Workers)
  <2>1. CASE ShutDown(c)
    <3>1. c \in Procs
      BY DEF Procs
    <3> QED
      BY ONLY <1>0, <2>1, <3>1 DEF ShutDown
  <2>2. CASE ~ ShutDown(c)
    BY ONLY <1>3, <2>2 DEF ClientStep, Submit, SubmitToWorker, UnparkAll
  <2> QED
    BY ONLY <2>1, <2>2
<1>4. ASSUME NEW w \in Workers, WorkerStep(w) \/ ParkSpuriously(w) PROVE UNCHANGED running
  <2>1. CASE \/ Run(w) \/ FinishJob(w) \/ Unwind(w) \/ TakeSlot(w) \/ TakeCapped(w) \/ PushCapped(w)
             \/ AnnounceCapped(w) \/ PopInjector(w) \/ LenInjector(w) \/ PopMine(w) \/ Share(w)
             \/ PopInbox(w) \/ PopDeque(w)
    BY ONLY <2>1 DEF Run, FinishJob, Unwind, TakeSlot, TakeCapped, PushCapped, AnnounceCapped,
       PopInjector, LenInjector, PopMine, Share, PopInbox, PopDeque
  <2>2. CASE \/ EnterSearch(w) \/ LeaveSearch(w) \/ StealInbox(w) \/ Keep(w) \/ StealDeque(w)
             \/ Land(w) \/ Release(w) \/ Found(w) \/ NothingFound(w) \/ TakeReadySlot(w) \/ Idle(w)
             \/ Announce(w) \/ Look(w) \/ Retract(w) \/ Park(w) \/ ParkSpuriously(w) \/ Woken(w) \/ Leave(w)
    BY ONLY <2>2 DEF EnterSearch, LeaveSearch, StealInbox, Keep, StealDeque, Land, Release, Found,
       NothingFound, TakeReadySlot, Idle, Announce, Look, Retract, Park, ParkSpuriously, Woken, Leave
  <2> QED
    BY <1>4, <2>1, <2>2 DEF WorkerStep
<1> QED
  BY <1>1, <1>2, <1>3, <1>4 DEF Next

\* A worker parks only while the pool runs, and leaves only when it does not.
LEMMA StopsForAReason ==
    ASSUME Types, Steps, NEW w \in Workers, WorkerStep(w) \/ ParkSpuriously(w)
    PROVE  /\ pc'[w] = "park" => running
           /\ pc'[w] = "off" => pc[w] = "leave"
           /\ pc'[w] \in {"retire", "leave"} => pc[w] = "retire" \/ ~ running
<1> USE DEF Set, Goto, Promote, RunNext, AfterCapped, AfterPop, Sweep, StealFrom
<1>0. pc \in [Procs -> WorkerSteps \cup ClientSteps \cup WakeSteps] /\ w \in Procs
  BY DEF Steps, Procs
<1> DEFINE Goal == /\ pc'[w] = "park" => running
                   /\ pc'[w] = "off" => pc[w] = "leave"
                   /\ pc'[w] \in {"retire", "leave"} => pc[w] = "retire" \/ ~ running
<1>1. CASE \/ Run(w) \/ Unwind(w) \/ TakeSlot(w) \/ TakeCapped(w) \/ PushCapped(w)
           \/ PopInjector(w) \/ PopMine(w)
  BY ONLY <1>0, <1>1 DEF Run, Unwind, TakeSlot, TakeCapped, PushCapped, PopInjector, PopMine
<1>2. CASE PopInbox(w) \/ PopDeque(w) \/ EnterSearch(w) \/ LeaveSearch(w) \/ StealInbox(w)
  BY ONLY <1>0, <1>2 DEF PopInbox, PopDeque, EnterSearch, LeaveSearch, StealInbox
<1>3. CASE StealDeque(w) \/ Land(w) \/ Found(w)
  BY ONLY <1>0, <1>3 DEF StealDeque, Land, Found
<1>4. CASE \/ NothingFound(w) \/ TakeReadySlot(w) \/ Idle(w) \/ Announce(w)
           \/ Look(w) \/ Retract(w) \/ Park(w) \/ ParkSpuriously(w) \/ Woken(w) \/ Leave(w)
  BY ONLY <1>0, <1>4 DEF NothingFound, TakeReadySlot, Idle, Announce, Look, Retract, Park,
     ParkSpuriously, Woken, Leave
<1>5. CASE FinishJob(w) \/ AnnounceCapped(w) \/ LenInjector(w) \/ Share(w) \/ Keep(w) \/ Release(w)
  <2>1. pc'[w] = pc[w] \/ pc'[w] \notin {"park", "off", "retire", "leave"}
    BY <1>5, FinishJobFlow, AnnounceCappedFlow, LenInjectorFlow, ShareFlow, KeepFlow, ReleaseFlow
       DEF Starts, Hands, AfterShare
  <2>2. pc[w] \notin {"park", "off", "retire", "leave"}
    BY ONLY <1>5 DEF FinishJob, AnnounceCapped, LenInjector, Share, Keep, Release
  <2> QED
    BY ONLY <2>1, <2>2
<1> QED
  BY <1>1, <1>2, <1>3, <1>4, <1>5 DEF WorkerStep

\* A worker that wakes others is in the middle of its loop, before and after.
LEMMA WakersGoOn ==
    ASSUME Types, Steps, NEW w \in Workers, Wake(w)
    PROVE  pc[w] \in WakeSteps /\ pc'[w] \in WakeSteps \cup Backs
<1>1. pc[w] \in WakeSteps
  BY ONLY Wake(w) DEF Wake, ClaimSleeper, Unpark, ChooseSpill, Displace, WakeOwner, WakeSteps, OwnerSteps
<1>2. PICK c \in CallRecords : c = call[w]
  BY DEF Steps, Procs
<1>3. At(w)' = At(w)
  BY WakeStaysAt DEF Procs
<1> QED
  BY ONLY <1>1, <1>2, <1>3 DEF At, CallRecords

\* A round of unparks goes on until everyone has a permit.
LEMMA UnparksGoOn ==
    ASSUME Types, Steps, Next, NEW c \in Clients, pc[c] = "unpark_all", NEW w \in todo[c]
    PROVE  w \in permit' \/ (pc'[c] = "unpark_all" /\ w \in todo'[c])
<1> USE DEF workerVars, stealVars
<1>0. /\ pc \in [Procs -> WorkerSteps \cup ClientSteps \cup WakeSteps] /\ c \in Procs
      /\ todo \in [Procs -> SUBSET Workers] /\ c \notin Workers
  BY SetupsAssumption DEF Steps, Procs, Types, StealTypes
<1>1. CASE DropPool
  BY ONLY <1>0, <1>1, pc[c] = "unpark_all", w \in todo[c] DEF DropPool
<1>2. ASSUME NEW p \in Procs, Wake(p) PROVE pc'[c] = pc[c] /\ todo'[c] = todo[c]
  <2>1. p # c
    BY ONLY <1>2, pc[c] = "unpark_all" DEF Wake, ClaimSleeper, Unpark, ChooseSpill, Displace, WakeOwner
  <2>2. UNCHANGED todo
    BY ONLY <1>2 DEF Wake, ClaimSleeper, Unpark, ChooseSpill, Displace, WakeOwner
  <2>3. pc'[c] = pc[c]
    BY <1>0, <1>2, <2>1, WakeMoves DEF Moves
  <2> QED
    BY ONLY <2>2, <2>3
<1>3. ASSUME NEW d \in Clients, ClientStep(d) PROVE w \in permit' \/ (pc'[c] = pc[c] /\ w \in todo'[c])
  <2>1. CASE UnparkAll(d)
    BY ONLY <1>0, <2>1, w \in todo[c] DEF UnparkAll, Grant, Set, Goto
  <2>2. CASE Submit(d) \/ SubmitToWorker(d) \/ ShutDown(d)
    <3>1. d # c
      BY ONLY <2>2, pc[c] = "unpark_all" DEF Submit, SubmitToWorker, ShutDown
    <3>2. todo'[c] = todo[c]
      BY ONLY <1>0, <2>2, <3>1 DEF Submit, SubmitToWorker, ShutDown, Set
    <3>3. pc'[c] = pc[c]
      BY <1>0, <1>3, <3>1, ClientMoves DEF Moves
    <3> QED
      BY ONLY <3>2, <3>3, w \in todo[c]
  <2> QED
    BY ONLY <1>3, <2>1, <2>2 DEF ClientStep
<1>4. ASSUME NEW v \in Workers, WorkerStep(v) \/ ParkSpuriously(v) PROVE pc'[c] = pc[c] /\ todo'[c] = todo[c]
  <2>1. pc'[c] = pc[c]
    BY <1>0, <1>4, WorkerMoves DEF Moves
  <2>2. CASE \/ Run(v) \/ FinishJob(v) \/ Unwind(v) \/ TakeSlot(v) \/ TakeCapped(v) \/ PushCapped(v)
             \/ AnnounceCapped(v) \/ PopInjector(v) \/ LenInjector(v) \/ PopMine(v) \/ Share(v)
             \/ PopInbox(v) \/ PopDeque(v) \/ LeaveSearch(v) \/ Keep(v) \/ Land(v) \/ Release(v)
    BY ONLY <2>1, <2>2 DEF Run, FinishJob, Unwind, TakeSlot, TakeCapped, PushCapped, AnnounceCapped,
       PopInjector, LenInjector, PopMine, Share, PopInbox, PopDeque, LeaveSearch, Keep, Land, Release
  <2>3. CASE EnterSearch(v) \/ StealInbox(v) \/ StealDeque(v) \/ Found(v) \/ Look(v)
    BY ONLY <1>0, <2>1, <2>3 DEF EnterSearch, StealInbox, StealDeque, Found, Look, Sweep, Set
  <2>4. CASE \/ NothingFound(v) \/ TakeReadySlot(v) \/ Idle(v) \/ Announce(v)
             \/ Retract(v) \/ Park(v) \/ ParkSpuriously(v) \/ Woken(v) \/ Leave(v)
    BY ONLY <2>1, <2>4 DEF NothingFound, TakeReadySlot, Idle, Announce, Retract, Park, ParkSpuriously,
       Woken, Leave
  <2> QED
    BY <1>4, <2>1, <2>2, <2>3, <2>4 DEF WorkerStep
<1> QED
  BY <1>1, <1>2, <1>3, <1>4, <1>0 DEF Next, DropPool

\* A permit is used by its worker only.
LEMMA PermitsStay ==
    ASSUME Types, Steps, Next, NEW w \in permit, ~ Park(w)
    PROVE  w \in permit'
<1> USE DEF stateVars, poolVars, lifeVars
<1>1. CASE DropPool
  BY ONLY <1>1, w \in permit DEF DropPool
<1>2. ASSUME NEW p \in Procs, Wake(p) PROVE w \in permit'
  BY ONLY <1>2, w \in permit DEF Wake, ClaimSleeper, Unpark, ChooseSpill, Displace, WakeOwner, Grant
<1>3. ASSUME NEW c \in Clients, ClientStep(c) PROVE w \in permit'
  BY ONLY <1>3, w \in permit DEF ClientStep, Submit, SubmitToWorker, ShutDown, UnparkAll, Grant
<1>4. ASSUME NEW v \in Workers, WorkerStep(v) \/ ParkSpuriously(v) PROVE w \in permit'
  <2>1. CASE Park(v)
    BY ONLY <2>1, w \in permit, ~ Park(w) DEF Park
  <2>2. CASE ~ Park(v)
    BY <1>4, <2>2, OwnBits
  <2> QED
    BY ONLY <2>1, <2>2
<1> QED
  BY <1>1, <1>2, <1>3, <1>4 DEF Next

\* After the shutdown nobody parks for good.
LEMMA ShutdownStaysSeen ==
    ASSUME Types, Steps, ShutdownSeen, Next
    PROVE  ShutdownSeen'
<1>0. ASSUME NEW w \in Workers
      PROVE  /\ pc'[w] = "park" => running \/ (pc[w] = "park" /\ ~ Park(w))
             /\ pc'[w] \in {"retire", "leave"} => ~ running
  <2>1. CASE WorkerStep(w) \/ ParkSpuriously(w)
    BY <2>1, StopsForAReason DEF ShutdownSeen
  <2>2. CASE Wake(w)
    BY <2>2, WakersGoOn DEF WakeSteps, OwnerSteps, Backs
  <2>3. CASE ~ (WorkerStep(w) \/ ParkSpuriously(w)) /\ ~ Wake(w)
    BY <2>3, RestingStays DEF ShutdownSeen, WorkerStep
  <2> QED
    BY ONLY <2>1, <2>2, <2>3
<1>1. ASSUME NEW w \in Workers, ~ running', pc'[w] = "park"
      PROVE  w \in permit' \/ \E c \in Clients : pc'[c] = "unpark_all" /\ w \in todo'[c]
  <2>1. CASE running
    BY <1>1, <2>1, RunningStays
  <2>2. CASE ~ running
    <3>1. pc[w] = "park" /\ ~ Park(w)
      BY <1>0, <1>1, <2>2
    <3>2. CASE w \in permit
      BY <3>1, <3>2, PermitsStay
    <3>3. ASSUME NEW c \in Clients, pc[c] = "unpark_all", w \in todo[c]
          PROVE  w \in permit' \/ (pc'[c] = "unpark_all" /\ w \in todo'[c])
      BY <3>3, UnparksGoOn
    <3> QED
      BY <2>2, <3>1, <3>2, <3>3 DEF ShutdownSeen
  <2> QED
    BY ONLY <2>1, <2>2
<1>2. ASSUME NEW w \in Workers, pc'[w] \in {"retire", "leave"} PROVE ~ running'
  BY <1>0, <1>2, RunningStays
<1> QED
  BY <1>1, <1>2 DEF ShutdownSeen

-----------------------------------------------------------------------------
(* The injector *)

\* Unless peers may steal from it, an inbox is emptied by its worker, or with the pool.
LEMMA InboxesStay ==
    ASSUME Types, Steps, Next, NEW w \in Workers, inbox[w] # <<>>,
           ~ DropPool, ~ StealableInbox, ~ PopInbox(w)
    PROVE  inbox'[w] # <<>>
<1> USE DEF Set, Goto, queueVars, poolVars
<1>0. inbox \in [Workers -> Seq(Jobs)]
  BY DEF Types, QueueTypes
<1>2. ASSUME NEW p \in Procs, Wake(p) PROVE inbox'[w] # <<>>
  <2>1. CASE Displace(p)
    <3>1. inbox' = inbox \/ inbox' = [inbox EXCEPT ![call[p].owner] = Append(@, job[p])]
      BY <2>1, DisplaceFlow
    <3>2. inbox[w] \in Seq(Jobs)
      BY <1>0
    <3>3. Append(inbox[w], job[p]) # <<>>
      BY ONLY <3>2
    <3> QED
      BY ONLY <1>0, <3>1, <3>3, inbox[w] # <<>>, w \in Workers
  <2>2. CASE ~ Displace(p)
    BY ONLY <1>2, <2>2, inbox[w] # <<>> DEF Wake, ClaimSleeper, Unpark, ChooseSpill, WakeOwner
  <2> QED
    BY ONLY <2>1, <2>2
<1>3. ASSUME NEW c \in Clients, ClientStep(c) PROVE inbox'[w] # <<>>
  BY ONLY <1>3, inbox[w] # <<>> DEF ClientStep, Submit, SubmitToWorker, ShutDown, UnparkAll
<1>4. ASSUME NEW v \in Workers, WorkerStep(v) \/ ParkSpuriously(v) PROVE inbox'[w] # <<>>
  <2>1. CASE PushCapped(v)
    <3>1. inbox' = [inbox EXCEPT ![v] = Append(@, job[v])]
      BY ONLY <2>1 DEF PushCapped, Add
    <3>2. inbox[w] \in Seq(Jobs)
      BY <1>0
    <3>3. Append(inbox[w], job[v]) # <<>>
      BY ONLY <3>2
    <3> QED
      BY ONLY <1>0, <3>1, <3>3, inbox[w] # <<>>, w \in Workers
  <2>2. CASE PopInbox(v)
    <3>1. v # w
      BY ONLY <2>2, ~ PopInbox(w)
    <3> QED
      BY ONLY <1>0, <2>2, <3>1, inbox[w] # <<>>, w \in Workers DEF PopInbox
  <2>3. CASE StealInbox(v)
    BY ONLY <2>3, ~ StealableInbox DEF StealInbox
  <2>4. CASE \/ Run(v) \/ FinishJob(v) \/ Unwind(v) \/ TakeSlot(v) \/ TakeCapped(v) \/ AnnounceCapped(v)
             \/ PopInjector(v) \/ LenInjector(v) \/ PopMine(v) \/ Share(v) \/ PopDeque(v)
             \/ EnterSearch(v) \/ LeaveSearch(v) \/ Keep(v)
    BY ONLY <2>4, inbox[w] # <<>> DEF Run, FinishJob, Unwind, TakeSlot, TakeCapped,
       AnnounceCapped, PopInjector, LenInjector, PopMine, Share, PopDeque, EnterSearch, LeaveSearch, Keep
  <2>5. CASE \/ StealDeque(v) \/ Land(v) \/ Release(v) \/ Found(v) \/ NothingFound(v) \/ TakeReadySlot(v)
             \/ Idle(v) \/ Announce(v) \/ Look(v) \/ Retract(v) \/ Park(v) \/ ParkSpuriously(v)
             \/ Woken(v) \/ Leave(v)
    BY ONLY <2>5, inbox[w] # <<>> DEF StealDeque, Land, Release, Found, NothingFound,
       TakeReadySlot, Idle, Announce, Look, Retract, Park, ParkSpuriously, Woken, Leave
  <2> QED
    BY <1>4, <2>1, <2>2, <2>3, <2>4, <2>5 DEF WorkerStep
<1> QED
  BY <1>2, <1>3, <1>4 DEF Next

\* While the pool runs nobody leaves it, and who joins it starts at its slot.
LEMMA NobodyLeavesEarly ==
    ASSUME Types, Steps, ShutdownSeen, Next, running, NEW w \in Workers
    PROVE  /\ pc'[w] = "off" => pc[w] = "off"
           /\ pc[w] = "off" => pc'[w] \in {"off", "slot"}
<1>1. CASE WorkerStep(w) \/ ParkSpuriously(w)
  <2>1. pc'[w] = "off" => pc[w] = "leave"
    BY <1>1, StopsForAReason
  <2>2. pc[w] # "leave"
    BY DEF ShutdownSeen
  <2>3. CASE Run(w)
    BY ONLY <2>3, w \in Workers, Steps DEF Run, Goto, Steps, Procs
  <2>4. CASE ~ Run(w)
    <3>1. CASE \/ FinishJob(w) \/ Unwind(w) \/ TakeSlot(w) \/ TakeCapped(w) \/ PushCapped(w)
               \/ AnnounceCapped(w) \/ PopInjector(w) \/ LenInjector(w) \/ PopMine(w) \/ Share(w)
               \/ PopInbox(w) \/ PopDeque(w)
      BY ONLY <2>1, <2>2, <3>1 DEF FinishJob, Unwind, TakeSlot, TakeCapped, PushCapped, AnnounceCapped,
         PopInjector, LenInjector, PopMine, Share, PopInbox, PopDeque
    <3>2. CASE \/ EnterSearch(w) \/ LeaveSearch(w) \/ StealInbox(w) \/ Keep(w) \/ StealDeque(w)
               \/ Land(w) \/ Release(w) \/ Found(w) \/ NothingFound(w) \/ TakeReadySlot(w) \/ Idle(w)
               \/ Announce(w) \/ Look(w) \/ Retract(w) \/ Park(w) \/ ParkSpuriously(w) \/ Woken(w) \/ Leave(w)
      BY ONLY <2>1, <2>2, <3>2 DEF EnterSearch, LeaveSearch, StealInbox, Keep, StealDeque, Land, Release,
         Found, NothingFound, TakeReadySlot, Idle, Announce, Look, Retract, Park, ParkSpuriously,
         Woken, Leave
    <3> QED
      BY ONLY <1>1, <2>4, <3>1, <3>2 DEF WorkerStep
  <2> QED
    BY ONLY <2>3, <2>4
<1>2. CASE Wake(w)
  BY <1>2, WakersGoOn DEF WakeSteps, OwnerSteps, Backs
<1>3. CASE ~ (WorkerStep(w) \/ ParkSpuriously(w)) /\ ~ Wake(w)
  BY <1>3, RestingStays
<1> QED
  BY ONLY <1>1, <1>2, <1>3

\* A displaced job is spilled after a look at the inbox.
LEMMA SpillIsChosen ==
    ASSUME Types, Steps, Next, NEW p \in Procs, pc'[p] = "spill"
    PROVE  \/ ChooseSpill(p)
           \/ pc[p] = "spill" /\ call'[p] = call[p] /\ ~ Wake(p)
<1>0. p \in Workers => p \notin Clients
  BY SetupsAssumption
<1>1. CASE Wake(p)
  <2>1. CASE ChooseSpill(p)
    BY ONLY <2>1
  <2>2. CASE ClaimSleeper(p) \/ Unpark(p) \/ Displace(p) \/ WakeOwner(p)
    <3>1. PICK c \in CallRecords : c = call[p]
      BY DEF Steps
    <3>2. call[p].back # "spill"
      BY ONLY <3>1 DEF CallRecords, Backs
    <3> QED
      BY <2>2, <3>2, ClaimSleeperFlow, UnparkFlow, DisplaceFlow, WakeOwnerFlow DEF GoesOn, Returns
  <2> QED
    BY ONLY <1>1, <2>1, <2>2 DEF Wake
<1>2. CASE p \in Clients /\ ClientStep(p)
  <2>1. CASE Submit(p) \/ SubmitToWorker(p)
    BY <1>2, <2>1, SubmitFlow, SubmitToWorkerFlow DEF Starts, Hands
  <2>2. CASE ShutDown(p) \/ UnparkAll(p)
    <3>1. pc \in [Procs -> WorkerSteps \cup ClientSteps \cup WakeSteps]
      BY DEF Steps
    <3> QED
      BY ONLY <2>2, <3>1, pc'[p] = "spill", p \in Procs DEF ShutDown, UnparkAll, Goto
  <2> QED
    BY ONLY <1>2, <2>1, <2>2 DEF ClientStep
<1>3. CASE p \in Workers /\ (WorkerStep(p) \/ ParkSpuriously(p))
  <2>2. CASE FinishJob(p) \/ AnnounceCapped(p) \/ LenInjector(p) \/ Share(p) \/ Keep(p) \/ Release(p)
    <3>1. pc[p] # "spill"
      BY ONLY <2>2 DEF FinishJob, AnnounceCapped, LenInjector, Share, Keep, Release
    <3> QED
      BY <1>3, <2>2, <3>1, FinishJobFlow, AnnounceCappedFlow, LenInjectorFlow, ShareFlow, KeepFlow, ReleaseFlow
         DEF Starts, Hands, AfterShare, AfterCapped
  <2>3. CASE ~ (FinishJob(p) \/ AnnounceCapped(p) \/ LenInjector(p) \/ Share(p) \/ Keep(p) \/ Release(p))
    <3>0. pc \in [Procs -> WorkerSteps \cup ClientSteps \cup WakeSteps] /\ p \in Procs
      BY DEF Steps
    <3> USE DEF Set, Goto, Promote, RunNext, AfterCapped, AfterPop, Sweep, StealFrom
    <3>1. CASE \/ Run(p) \/ Unwind(p) \/ TakeSlot(p) \/ TakeCapped(p) \/ PushCapped(p)
               \/ PopInjector(p) \/ PopMine(p)
      BY ONLY <3>0, <3>1, pc'[p] = "spill" DEF Run, Unwind, TakeSlot, TakeCapped, PushCapped,
         PopInjector, PopMine
    <3>2. CASE PopInbox(p) \/ PopDeque(p) \/ EnterSearch(p) \/ LeaveSearch(p) \/ StealInbox(p)
      BY ONLY <3>0, <3>2, pc'[p] = "spill" DEF PopInbox, PopDeque, EnterSearch, LeaveSearch, StealInbox
    <3>3. CASE StealDeque(p) \/ Land(p) \/ Found(p)
      BY ONLY <3>0, <3>3, pc'[p] = "spill" DEF StealDeque, Land, Found
    <3>4. CASE \/ NothingFound(p) \/ TakeReadySlot(p) \/ Idle(p) \/ Announce(p)
               \/ Look(p) \/ Retract(p) \/ Park(p) \/ ParkSpuriously(p) \/ Woken(p) \/ Leave(p)
      BY ONLY <3>0, <3>4, pc'[p] = "spill" DEF NothingFound, TakeReadySlot, Idle, Announce, Look, Retract, Park,
         ParkSpuriously, Woken, Leave
    <3> QED
      BY ONLY <1>3, <2>3, <3>1, <3>2, <3>3, <3>4 DEF WorkerStep
  <2> QED
    BY ONLY <2>2, <2>3
<1>4. CASE /\ ~ Wake(p) /\ ~ (p \in Clients /\ ClientStep(p))
           /\ ~ (p \in Workers /\ (WorkerStep(p) \/ ParkSpuriously(p)))
  <2>1. pc'[p] = pc[p] /\ call'[p] = call[p]
    <3>1. CASE DropPool
      BY ONLY <3>1 DEF DropPool
    <3>2. CASE ~ DropPool
      <4>1. PICK q \in Procs : Moves(q) /\ q # p
        BY <1>4, <3>2, WakeMoves, ClientMoves, WorkerMoves DEF Next, Procs
      <4> QED
        BY <4>1 DEF Moves, Steps
    <3> QED
      BY ONLY <3>1, <3>2
  <2> QED
    BY ONLY <1>4, <2>1, pc'[p] = "spill"
<1> QED
  BY ONLY <1>1, <1>2, <1>3, <1>4

\* The inbox that led to the spill still holds its job if the owner is not started.
LEMMA SpillStaysSeen ==
    ASSUME Types, Steps, ShutdownSeen, SpillSeen, Next
    PROVE  SpillSeen'
<1> SUFFICES ASSUME NEW p \in Procs, running', pc'[p] = "spill", pc'[call'[p].owner] = "off"
             PROVE  inbox'[call'[p].owner] # <<>>
  BY DEF SpillSeen
<1>1. running
  BY RunningStays
<1>2. CASE ChooseSpill(p)
  <2>1. UNCHANGED call /\ inbox[call[p].owner] # <<>>
    BY <1>2, ChooseSpillFlow
  <2>2. UNCHANGED inbox
    BY ONLY <1>2 DEF ChooseSpill, poolVars, queueVars
  <2> QED
    BY ONLY <2>1, <2>2
<1>3. CASE ~ ChooseSpill(p)
  <2>1. pc[p] = "spill" /\ call'[p] = call[p]
    BY <1>3, SpillIsChosen
  <2>2. call[p].owner \in Workers /\ Spilling
    BY <2>1 DEF Steps, InStep, OwnerSteps
  <2>3. pc[call[p].owner] = "off"
    BY <1>1, <2>1, <2>2, NobodyLeavesEarly
  <2>4. inbox[call[p].owner] # <<>>
    BY <1>1, <2>1, <2>3 DEF SpillSeen
  <2>5. ~ DropPool
    BY ONLY <2>1, p \in Procs DEF DropPool, Procs
  <2>6. ~ PopInbox(call[p].owner)
    BY ONLY <2>3 DEF PopInbox
  <2> QED
    BY <2>1, <2>2, <2>4, <2>5, <2>6, InboxesStay DEF Spilling
<1> QED
  BY ONLY <1>2, <1>3

\* A worker that has not been run may start, and then looks at everything.
LEMMA StartersAreAwake ==
    ASSUME Types, Steps, ShutdownSeen, Next, running, NEW w \in Workers, pc[w] = "off"
    PROVE  pc'[w] = "off" \/ Awake(w)'
BY NobodyLeavesEarly DEF Awake, InjectorSeen, InboxSeen, SlotSeen

\* While the injector holds a job, an awake worker does not go to sleep unseen.
LEMMA AwakeStays ==
    ASSUME Types, Steps, SearchersCounted, BitKept, ShutdownSeen, Next, running, injector # <<>>,
           NEW w \in Workers, Awake(w)
    PROVE  Awake(w)'
<1>0. parking[w] => At(w) \in StealSteps
  BY DEF SearchersCounted
<1>1. pc'[w] # "off"
  BY NobodyLeavesEarly DEF Awake
<1>2. ASSUME InjectorSeen(w)' PROVE Coming(w)'
  <2>1. Drowsy(w)' /\ (InjectorSeen(w) => Drowsy(w))
    BY ONLY <1>2 DEF Drowsy
  <2>2. ~ Wake(w)
    BY <2>1, WakersAreAwake
  <2>3. InjectorSeen(w) /\ ~ Park(w)
    <3>1. CASE WorkerStep(w) \/ ParkSpuriously(w)
      BY <1>0, <1>2, <2>1, <3>1, OwnSleep
    <3>2. CASE ~ (WorkerStep(w) \/ ParkSpuriously(w))
      BY <1>2, <2>2, <3>2, RestingStays DEF WorkerStep
    <3> QED
      BY ONLY <3>1, <3>2
  <2> QED
    BY <2>1, <2>3, WakesArrive DEF Awake
<1> QED
  BY <1>1, <1>2 DEF Awake

\* A client that has pushed a job finds a sleeper, or all that run are awake.
LEMMA AlarmIsHeard ==
    ASSUME Types, Steps, SearchersCounted, BitKept, ShutdownSeen, Next, running, injector # <<>>, Alarm
    PROVE  Alarm' \/ (\A w \in Workers : pc'[w] = "off") \/ \E w \in Workers : Awake(w)'
<1>1. PICK c \in Clients : pc[c] = "claim" /\ call[c].spare = {}
  BY DEF Alarm
<1>2. c \in Procs /\ c \notin Workers
  BY SetupsAssumption DEF Procs
<1>3. CASE ClaimSleeper(c)
  <2>0. UNCHANGED injector /\ \A w \in Workers : pc'[w] = pc[w]
    <3>1. \A w \in Workers : pc'[w] = pc[w]
      BY <1>2, <1>3, WakeMoves DEF Moves, Steps, Procs, Wake
    <3> QED
      BY ONLY <1>3, <3>1 DEF ClaimSleeper, queueVars
  <2>1. CASE GoesOn(c, "unpark") /\ call'[c].target \in sleeping
    <3>1. PICK w \in Workers : w = call'[c].target /\ w \in sleeping
      BY <2>1 DEF Types, StateTypes
    <3>2. Coming(w)'
      BY ONLY <1>2, <2>1, <3>1 DEF GoesOn, Coming, Claimed
    <3>3. pc[w] # "off"
      <4>1. Announced(w)
        BY <3>1 DEF BitKept
      <4> QED
        BY ONLY <4>1 DEF Announced, At, WakeSteps, OwnerSteps, StealSteps
    <3> QED
      BY ONLY <2>0, <3>1, <3>2, <3>3 DEF Awake
  <2>2. CASE sleeping = {}
    <3>1. CASE \A w \in Workers : pc[w] = "off"
      BY ONLY <2>0, <3>1
    <3>2. ASSUME NEW w \in Workers, pc[w] # "off" PROVE Awake(w)'
      <4>1. InjectorSeen(w) => Coming(w)
        BY <2>2 DEF BitKept, Coming, Drowsy
      <4> QED
        BY <3>2, <4>1, AwakeStays DEF Awake
    <3> QED
      BY ONLY <3>1, <3>2
  <2> QED
    BY <1>1, <1>2, <1>3, <2>1, <2>2, ClaimSleeperFlow
<1>4. CASE ~ ClaimSleeper(c)
  <2>1. pc'[c] = pc[c] /\ call'[c] = call[c]
    <3>1. CASE DropPool
      BY ONLY <3>1 DEF DropPool
    <3>2. CASE ~ DropPool
      <4>1. ~ Wake(c) /\ ~ ClientStep(c)
        BY ONLY <1>1, <1>4 DEF Wake, Unpark, ChooseSpill, Displace, WakeOwner,
           ClientStep, Submit, SubmitToWorker, ShutDown, UnparkAll
      <4>2. PICK q \in Procs : Moves(q) /\ q # c
        BY <1>2, <3>2, <4>1, WakeMoves, ClientMoves, WorkerMoves DEF Next, Procs
      <4> QED
        BY <1>2, <4>2 DEF Moves, Steps
    <3> QED
      BY ONLY <3>1, <3>2
  <2> QED
    BY ONLY <1>1, <2>1 DEF Alarm
<1> QED
  BY ONLY <1>3, <1>4

\* Who puts a job into the empty injector goes on to wake somebody, or shuts down, or spills.
LEMMA PushesAreAnnounced ==
    ASSUME Types, Steps, Next, injector = <<>>, injector' # <<>>
    PROVE  \/ Alarm'
           \/ \E w \in Workers : pc'[w] = "claim"
           \/ \E w \in Workers : Leave(w)
           \/ \E p \in Procs : Displace(p) /\ pc[p] = "spill"
<1> USE DEF Set, Goto, queueVars, poolVars
<1>0. injector \in Seq(Jobs)
  BY DEF Types, QueueTypes
<1>1. CASE DropPool
  BY ONLY <1>1, injector' # <<>> DEF DropPool
<1>2. ASSUME NEW p \in Procs, Wake(p) PROVE Displace(p) /\ pc[p] = "spill"
  <2>1. CASE Displace(p)
    BY ONLY <2>1, injector = <<>>, injector' # <<>> DEF Displace
  <2>2. CASE ~ Displace(p)
    BY ONLY <1>2, <2>2, injector = <<>>, injector' # <<>>
       DEF Wake, ClaimSleeper, Unpark, ChooseSpill, WakeOwner
  <2> QED
    BY ONLY <2>1, <2>2
<1>3. ASSUME NEW c \in Clients, ClientStep(c) PROVE Alarm'
  <2>1. CASE Submit(c)
    BY <2>1, SubmitFlow DEF Starts, Alarm
  <2>2. CASE SubmitToWorker(c)
    <3>1. PICK w \in Workers, j \in Jobs : Hands(c, w, j, "idle")
      BY <2>2, SubmitToWorkerFlow
    <3>2. Starts(c, {}, "idle")
      BY ONLY <3>1, injector = <<>>, injector' # <<>> DEF Hands
    <3> QED
      BY ONLY <3>2, c \in Clients DEF Starts, Alarm
  <2>3. CASE ShutDown(c) \/ UnparkAll(c)
    BY ONLY <2>3, injector = <<>>, injector' # <<>> DEF ShutDown, UnparkAll
  <2> QED
    BY ONLY <1>3, <2>1, <2>2, <2>3 DEF ClientStep
<1>4. ASSUME NEW w \in Workers, WorkerStep(w) \/ ParkSpuriously(w) PROVE pc'[w] = "claim" \/ Leave(w)
  <2>1. CASE FinishJob(w)
    <3>1. CASE UNCHANGED injector
      BY ONLY <3>1, injector = <<>>, injector' # <<>>
    <3>2. ASSUME NEW j \in Jobs, Hands(w, w, j, "slot") PROVE pc'[w] = "claim"
      BY ONLY <3>2, injector = <<>>, injector' # <<>> DEF Hands, Starts
    <3> QED
      BY <2>1, <3>1, <3>2, FinishJobFlow
  <2>2. CASE Keep(w)
    BY <2>2, KeepFlow DEF Starts
  <2>3. CASE PopInjector(w)
    BY ONLY <2>3, injector = <<>>, injector' # <<>> DEF PopInjector
  <2>4. CASE \/ Run(w) \/ Unwind(w) \/ TakeSlot(w) \/ TakeCapped(w) \/ PushCapped(w) \/ AnnounceCapped(w)
             \/ LenInjector(w) \/ PopMine(w) \/ Share(w) \/ PopInbox(w) \/ PopDeque(w)
             \/ EnterSearch(w) \/ LeaveSearch(w) \/ StealInbox(w)
    BY ONLY <2>4, injector = <<>>, injector' # <<>> DEF Run, Unwind, TakeSlot, TakeCapped, PushCapped,
       AnnounceCapped, LenInjector, PopMine, Share, PopInbox, PopDeque, EnterSearch, LeaveSearch, StealInbox
  <2>5. CASE \/ StealDeque(w) \/ Land(w) \/ Release(w) \/ Found(w) \/ NothingFound(w) \/ TakeReadySlot(w)
             \/ Idle(w) \/ Announce(w) \/ Look(w) \/ Retract(w) \/ Park(w) \/ ParkSpuriously(w) \/ Woken(w)
    BY ONLY <2>5, injector = <<>>, injector' # <<>> DEF StealDeque, Land, Release, Found, NothingFound,
       TakeReadySlot, Idle, Announce, Look, Retract, Park, ParkSpuriously, Woken
  <2> QED
    BY <1>4, <2>1, <2>2, <2>3, <2>4, <2>5 DEF WorkerStep
<1> QED
  BY <1>1, <1>2, <1>3, <1>4 DEF Next

\* No job in the injector of a running pool is left to workers that all sleep.
LEMMA InjectorStaysWatched ==
    ASSUME Types, Steps, SearchersCounted, BitKept, ShutdownSeen, SpillSeen, InjectorWatched, Next
    PROVE  InjectorWatched'
<1> SUFFICES ASSUME running', injector' # <<>>
             PROVE  \/ \A w \in Workers : pc'[w] = "off"
                    \/ \E w \in Workers : Awake(w)'
                    \/ Alarm'
                    \/ Spilling' /\ \E w \in Workers : LeftAlone(w)'
  BY DEF InjectorWatched
<1>1. running
  BY RunningStays
<1>2. ~ DropPool
  BY ONLY injector' # <<>> DEF DropPool
<1>3. Spilling' = Spilling
  <2>1. UNCHANGED setup
    BY <1>2, NextIsOneThreads DEF Moves
  <2> QED
    BY ONLY <2>1 DEF Spilling, ShareDisplaced, StealableInbox
<1>4. CASE injector # <<>>
  <2>1. CASE \A w \in Workers : pc[w] = "off"
    BY <1>1, <2>1, StartersAreAwake
  <2>2. CASE \E w \in Workers : Awake(w)
    BY <1>1, <1>4, <2>2, AwakeStays
  <2>3. CASE Alarm
    BY <1>1, <1>4, <2>3, AlarmIsHeard
  <2>4. ASSUME Spilling, NEW w \in Workers, LeftAlone(w) PROVE Awake(w)' \/ LeftAlone(w)'
    <3>1. pc[w] = "off" /\ inbox[w] # <<>>
      BY ONLY <2>4 DEF LeftAlone
    <3>2. ~ PopInbox(w)
      BY ONLY <3>1 DEF PopInbox
    <3>3. inbox'[w] # <<>>
      BY <1>2, <2>4, <3>1, <3>2, InboxesStay DEF Spilling
    <3>4. pc'[w] = "off" \/ Awake(w)'
      BY <1>1, <3>1, StartersAreAwake
    <3> QED
      BY ONLY <3>3, <3>4 DEF LeftAlone
  <2> QED
    BY <1>1, <1>3, <1>4, <2>1, <2>2, <2>3, <2>4 DEF InjectorWatched
<1>5. CASE injector = <<>>
  <2>1. ASSUME NEW w \in Workers, pc'[w] \in {"claim", "wake_owner"} PROVE Awake(w)'
    BY ONLY <2>1 DEF Awake, InjectorSeen, InboxSeen, SlotSeen
  <2>2. ASSUME NEW w \in Workers PROVE ~ Leave(w)
    BY <1>1 DEF ShutdownSeen, Leave
  <2>3. ASSUME NEW p \in Procs, Displace(p), pc[p] = "spill"
        PROVE  (\E w \in Workers : Awake(w)') \/ (Spilling /\ \E w \in Workers : LeftAlone(w)')
    <3>1. PICK w \in Workers : w = call[p].owner /\ Spilling
      BY <2>3 DEF Steps, InStep, OwnerSteps
    <3>2. GoesOn(p, "wake_owner") /\ UNCHANGED inbox
      BY <2>3, DisplaceFlow
    <3>3. CASE p \in Workers
      BY ONLY <2>1, <3>2, <3>3 DEF GoesOn
    <3>4. CASE p \notin Workers
      <4>1. pc'[w] = pc[w]
        BY <2>3, <3>1, <3>4, WakeMoves DEF Wake, Moves, Steps, Procs
      <4>2. CASE pc[w] = "off"
        <5>1. inbox[w] # <<>>
          BY <1>1, <2>3, <3>1, <4>2 DEF SpillSeen
        <5> QED
          BY ONLY <3>1, <3>2, <4>1, <4>2, <5>1 DEF LeftAlone
      <4>3. CASE pc[w] # "off"
        <5>1. Coming(w)'
          BY ONLY <3>1, <3>2, p \in Procs DEF GoesOn, Coming, OwnerSteps
        <5> QED
          BY ONLY <3>1, <4>1, <4>3, <5>1 DEF Awake
      <4> QED
        BY ONLY <4>2, <4>3
    <3> QED
      BY ONLY <3>3, <3>4
  <2> QED
    BY <1>3, <1>5, <2>1, <2>2, <2>3, PushesAreAnnounced
<1> QED
  BY ONLY <1>4, <1>5

-----------------------------------------------------------------------------
(* The invariant *)

\* Everything above together is inductive.
IInv ==
    /\ Types /\ Steps /\ RoomKept /\ SearchersCounted /\ Emptied
    /\ BitKept /\ PrivateWorkSeen /\ ShutdownSeen /\ SpillSeen /\ InjectorWatched

\* No worker runs at first, and the backlog waits for one that does.
LEMMA InitIsSound == Init => IInv
<1> SUFFICES ASSUME Init PROVE IInv
  OBVIOUS
<1>1. setup \in Setups
  BY DEF Init
<1>2. /\ pc \in [Procs -> {"off", "idle"}] /\ call = [p \in Procs |-> NoCall]
      /\ \A w \in Workers : pc[w] = "off" /\ w \in Procs
      /\ \A c \in Clients : pc[c] = "idle" /\ c \in Procs
  BY SetupsAssumption DEF Init, Procs
<1>3. \A w \in Workers : parking[w] = FALSE
  BY DEF Init
<1>4. \A w \in Workers : At(w) = "off"
  BY ONLY <1>2 DEF At, WakeSteps, OwnerSteps
<1>5. Types
  <2>1. QueueTypes
    <3>1. injector \in Seq(Jobs)
      BY <1>1, SetupFacts DEF Init
    <3>2. <<>> \in Seq(Jobs)
      OBVIOUS
    <3> QED
      BY <3>1, <3>2 DEF Init, QueueTypes
  <2>2. HandTypes
    <3>1. <<>> \in Seq(Jobs)
      OBVIOUS
    <3> QED
      BY <3>1 DEF Init, HandTypes
  <2>3. StateTypes
    BY SetupsAssumption DEF Init, StateTypes
  <2>4. StealTypes
    BY <1>1, SetupFacts DEF Init, StealTypes
  <2>5. CountTypes
    BY <1>1, SetupFacts DEF Init, CountTypes
  <2> QED
    BY ONLY <2>1, <2>2, <2>3, <2>4, <2>5 DEF Types
<1>6. Steps
  <2>1. call \in [Procs -> CallRecords]
    BY <1>2, NoCallRecord
  <2>2. pc \in [Procs -> WorkerSteps \cup ClientSteps \cup WakeSteps]
    BY <1>2 DEF WorkerSteps, ClientSteps
  <2>3. ASSUME NEW p \in Procs PROVE InStep(p)
    <3>1. call[p].back = "idle"
      BY ONLY <1>2, <2>3 DEF NoCall
    <3>2. p \in Workers => At(p) = "off"
      BY <1>4
    <3>3. p \in Clients => p \notin Workers
      BY SetupsAssumption
    <3> QED
      BY ONLY <1>2, <2>3, <3>1, <3>2, <3>3 DEF InStep, WorkerSteps, ClientSteps, WakeSteps, OwnerSteps, Procs
  <2> QED
    BY ONLY <2>1, <2>2, <2>3 DEF Steps
<1>7. RoomKept
  BY <1>1, SetupFacts DEF Init, RoomKept
<1>8. SearchersCounted
  <2>1. Hunters = {}
    BY ONLY <1>4 DEF Hunters, Hunting, StealSteps
  <2> QED
    BY <1>3, <2>1, FS_EmptySet DEF Init, SearchersCounted
<1>9. Emptied
  <2>1. \A w \in Workers : taken[w] = 0
    BY DEF Init
  <2> QED
    BY ONLY <1>2, <1>4, <2>1 DEF Emptied, EmptiedBy
<1>10. ASSUME NEW w \in Workers
       PROVE  /\ w \notin sleeping /\ w \notin permit
              /\ ~ Drowsy(w) /\ ~ InboxSeen(w) /\ ~ SlotSeen(w)
  <2>1. sleeping = {} /\ permit = {}
    BY DEF Init
  <2> QED
    BY ONLY <1>2, <1>10, <2>1 DEF Drowsy, InjectorSeen, InboxSeen, SlotSeen
<1>11. BitKept
  <2>1. sleeping = {}
    BY DEF Init
  <2> QED
    BY <1>10, <2>1 DEF BitKept
<1>12. PrivateWorkSeen
  BY <1>10 DEF PrivateWorkSeen
<1>13. ShutdownSeen
  BY <1>2 DEF ShutdownSeen
<1>14. SpillSeen
  BY <1>2 DEF SpillSeen
<1>15. InjectorWatched
  BY <1>2 DEF InjectorWatched
<1> QED
  BY ONLY <1>5, <1>6, <1>7, <1>8, <1>9, <1>11, <1>12, <1>13, <1>14, <1>15 DEF IInv

\* Every step of a worker, a client or the drop of the pool keeps it.
LEMMA NextIsSound == IInv /\ [Next]_vars => IInv'
<1>1. ASSUME IInv, Next PROVE IInv'
  <2> USE <1>1 DEF IInv
  <2>1. Types'
    BY TypesKept
  <2>2. Steps'
    BY StepsKept
  <2>3. RoomKept'
    BY RoomStays
  <2>4. SearchersCounted'
    BY SearchersStayCounted
  <2>5. Emptied'
    BY EmptiedKept
  <2>6. BitKept'
    BY BitsKept
  <2>7. PrivateWorkSeen'
    BY PrivateWorkStaysSeen
  <2>8. ShutdownSeen'
    BY ShutdownStaysSeen
  <2>9. SpillSeen'
    BY SpillStaysSeen
  <2>10. InjectorWatched'
    BY InjectorStaysWatched
  <2> QED
    BY ONLY <2>1, <2>2, <2>3, <2>4, <2>5, <2>6, <2>7, <2>8, <2>9, <2>10 DEF IInv
<1>2. ASSUME IInv, UNCHANGED vars PROVE IInv'
  <2> USE DEF vars, poolVars, queueVars, stateVars, lifeVars, workerVars, stealVars, countVars, fate
  <2>0. /\ UNCHANGED <<injector, inbox, lifo, deque, stolen>>
        /\ UNCHANGED <<sleeping, searching, running, permit, home, runs, setup>>
        /\ UNCHANGED <<pc, job, call, script, mine, hand, todo, victim, parking>>
        /\ UNCHANGED <<boundary, taken, lifo_run, spins, until_promote, done, released, gone>>
    BY ONLY <1>2
  <2>1. Types'
    BY ONLY <1>2, <2>0 DEF IInv, Types, QueueTypes, HandTypes, StateTypes, StealTypes, CountTypes,
       LifoRunLimit, RoundsBeforePark, PromoteEvery
  <2>2. \A p \in Procs : At(p)' = At(p)
    BY ONLY <2>0 DEF At
  <2>3. Steps'
    BY ONLY <1>2, <2>0 DEF IInv, Steps, InStep, At, Spilling, ShareDisplaced, StealableInbox
  <2>4. RoomKept'
    BY ONLY <1>2, <2>0 DEF IInv, RoomKept, DequeCapacity
  <2>5. SearchersCounted'
    BY ONLY <1>2, <2>0 DEF IInv, SearchersCounted, Hunters, Hunting, At
  <2>6. Emptied'
    BY ONLY <1>2, <2>0 DEF IInv, Emptied, EmptiedBy, At, StealableInbox
  <2>7. BitKept' /\ PrivateWorkSeen' /\ ShutdownSeen' /\ SpillSeen'
    BY ONLY <1>2, <2>0 DEF IInv, BitKept, PrivateWorkSeen, ShutdownSeen, SpillSeen, Announced, Drowsy,
       InjectorSeen, InboxSeen, SlotSeen, Claimed, Coming, At
  <2>8. InjectorWatched'
    BY ONLY <1>2, <2>0 DEF IInv, InjectorWatched, Awake, Alarm, LeftAlone, Spilling, ShareDisplaced,
       StealableInbox, InjectorSeen, InboxSeen, SlotSeen, Coming, Claimed
  <2> QED
    BY ONLY <2>1, <2>3, <2>4, <2>5, <2>6, <2>7, <2>8 DEF IInv
<1> QED
  BY <1>1, <1>2

\* The room of the deques and the number of workers bound the counters.
LEMMA TypesFollow == IInv => TypeOK
<1> SUFFICES ASSUME IInv PROVE TypeOK
  OBVIOUS
<1>1. Types /\ setup \in Setups
  BY DEF IInv, Types, StateTypes
<1>2. stolen \in [Workers -> 0 .. DequeCapacity]
  <2>1. ASSUME NEW w \in Workers PROVE stolen[w] \in 0 .. DequeCapacity
    <3>1. stolen[w] \in Nat /\ deque[w] \in Seq(Jobs) /\ hand[w] \in Seq(Jobs)
      BY <1>1 DEF Types, QueueTypes, HandTypes
    <3>2. Len(deque[w]) \in Nat /\ Len(hand[w]) \in Nat
      BY ONLY <3>1
    <3>3. Len(deque[w]) + stolen[w] + Len(hand[w]) <= DequeCapacity
      BY DEF IInv, RoomKept
    <3>4. DequeCapacity \in Nat
      BY <1>1, SetupFacts
    <3> QED
      BY ONLY <3>1, <3>2, <3>3, <3>4
  <2>2. stolen \in [Workers -> Nat]
    BY <1>1 DEF Types, QueueTypes
  <2> QED
    BY ONLY <2>1, <2>2
<1>3. searching \in 0 .. N
  <2>1. searching = Cardinality(Hunters) /\ Hunters \subseteq Workers
    BY DEF IInv, SearchersCounted, Hunters
  <2>2. IsFiniteSet(Workers)
    BY SetupsAssumption
  <2>3. IsFiniteSet(Hunters) /\ Cardinality(Hunters) <= Cardinality(Workers)
    BY <2>1, <2>2, FS_Subset
  <2>4. Cardinality(Hunters) \in Nat /\ Cardinality(Workers) \in Nat
    BY <2>2, <2>3, FS_CardinalityType
  <2> QED
    BY ONLY <2>1, <2>3, <2>4 DEF N
<1> QED
  BY ONLY <1>1, <1>2, <1>3 DEF TypeOK, Types, QueueTypes, HandTypes, StateTypes, StealTypes, CountTypes

\* A worker that sleeps has passed every look, so work of its own is being announced.
LEMMA SleepersAreAnnounced == IInv => PrivateWorkIsAnnounced
<1> SUFFICES ASSUME IInv, NEW w \in Workers, Asleep(w)
             PROVE  /\ mine[w] = <<>> /\ deque[w] = <<>>
                    /\ lifo[w] # None \/ inbox[w] # <<>> => BeingWoken(w)
  BY DEF PrivateWorkIsAnnounced
<1>1. pc[w] = "park" /\ w \notin permit
  BY DEF Asleep
<1>2. At(w) = "park" /\ SlotSeen(w) /\ InboxSeen(w)
  BY ONLY <1>1 DEF At, WakeSteps, OwnerSteps, SlotSeen, InboxSeen
<1>3. mine[w] = <<>> /\ deque[w] = <<>>
  BY <1>2 DEF IInv, Emptied, EmptiedBy
<1>4. lifo[w] # None \/ inbox[w] # <<>> => Coming(w)
  BY <1>2 DEF IInv, PrivateWorkSeen
<1>5. Coming(w) => BeingWoken(w)
  BY ONLY <1>1 DEF Coming, Claimed, BeingWoken, OwnerSteps
<1> QED
  BY ONLY <1>3, <1>4, <1>5

\* With everybody asleep no wake is on the way, so nothing is left to be woken for.
LEMMA SleepersLeaveNothing == IInv => NoWorkAsleep
<1> DEFINE started == {w \in Workers : pc[w] # "off"}
<1> SUFFICES ASSUME IInv, started # {}, \A w \in started : Asleep(w),
                    \A c \in Clients : pc[c] = "idle"
             PROVE  /\ injector = <<>> \/ (Spilling /\ \E w \in Workers \ started : inbox[w] # <<>>)
                    /\ \A w \in started : lifo[w] = None /\ inbox[w] = <<>> /\ deque[w] = <<>>
                    /\ searching = 0
  BY DEF NoWorkAsleep
<1>1. \A w \in Workers : pc[w] = "off" \/ (pc[w] = "park" /\ w \notin permit)
  BY DEF Asleep
<1>2. ASSUME NEW p \in Procs PROVE pc[p] \in {"off", "park", "idle"}
  BY <1>1 DEF Procs
<1>3. \A w \in started : ~ Coming(w)
  BY ONLY <1>1, <1>2 DEF Coming, Claimed, OwnerSteps
<1>4. ASSUME NEW w \in started
      PROVE  lifo[w] = None /\ inbox[w] = <<>> /\ deque[w] = <<>>
  <2>1. pc[w] = "park" /\ w \in Workers
    BY <1>1
  <2>2. At(w) = "park" /\ SlotSeen(w) /\ InboxSeen(w)
    BY ONLY <2>1 DEF At, WakeSteps, OwnerSteps, SlotSeen, InboxSeen
  <2>3. deque[w] = <<>>
    BY <2>1, <2>2 DEF IInv, Emptied, EmptiedBy
  <2>4. lifo[w] = None /\ inbox[w] = <<>>
    BY <1>3, <2>1, <2>2 DEF IInv, PrivateWorkSeen
  <2> QED
    BY ONLY <2>3, <2>4
<1>5. running
  <2>1. PICK w \in Workers : pc[w] = "park" /\ w \notin permit
    BY <1>1
  <2>2. \A c \in Clients : pc[c] # "unpark_all"
    OBVIOUS
  <2> QED
    BY ONLY IInv, <2>1, <2>2 DEF IInv, ShutdownSeen
<1>6. injector = <<>> \/ (Spilling /\ \E w \in Workers \ started : inbox[w] # <<>>)
  <2>1. ~ \A w \in Workers : pc[w] = "off"
    OBVIOUS
  <2>2. ASSUME NEW w \in Workers PROVE ~ Awake(w)
    BY <1>1, <1>3 DEF Awake, InjectorSeen, InboxSeen, SlotSeen
  <2>3. ~ Alarm
    BY DEF Alarm
  <2>4. ASSUME NEW w \in Workers, LeftAlone(w) PROVE w \in Workers \ started /\ inbox[w] # <<>>
    BY <2>4 DEF LeftAlone
  <2> QED
    BY ONLY IInv, <1>5, <2>1, <2>2, <2>3, <2>4 DEF IInv, InjectorWatched
<1>7. searching = 0
  <2>1. Hunters = {}
    BY ONLY <1>1 DEF Hunters, Hunting, At, WakeSteps, OwnerSteps, StealSteps
  <2> QED
    BY <2>1, FS_EmptySet DEF IInv, SearchersCounted
<1> QED
  BY ONLY <1>4, <1>6, <1>7

\* The invariant holds in every state the pool reaches.
THEOREM Invariance == Spec => []IInv
<1> QED
  BY InitIsSound, NextIsSound, PTL DEF Spec

\* The counter of searchers, moved on many paths, stays between zero and the number of
\* workers, and no deque owes more slots than it has (Pool::run, enter_search, steal_once).
THEOREM TypesAreKept == Spec => []TypeOK
<1> QED
  BY Invariance, TypesFollow, PTL

\* No worker parks on a job that only it may run unless its wake is on the way
\* (submit_local, wake_specific, prepare_to_park).
THEOREM PrivateWorkIsNotSleptOn == Spec => []PrivateWorkIsAnnounced
<1> QED
  BY Invariance, SleepersAreAnnounced, PTL

\* No wake is lost: when every started worker sleeps, nothing is left that they could run
\* (submit, nudge_many, claim_sleeper, prepare_to_park, Parker::park).
THEOREM ThePoolDoesNotSleepOnWork == Spec => []NoWorkAsleep
<1> QED
  BY Invariance, SleepersLeaveNothing, PTL
-----------------------------------------------------------------------------
(* Sequences without repetition *)

\* A job is appended that is not there yet.
LEMMA AppendOnce ==
    ASSUME NEW S, NEW s \in Seq(S), NEW j \in S
    PROVE  /\ ToSet(Append(s, j)) = ToSet(s) \cup {j}
           /\ IsInjective(s) /\ j \notin ToSet(s) => IsInjective(Append(s, j))
<1> DEFINE r == Append(s, j)
           n == Len(s)
<1>1. n \in Nat /\ DOMAIN s = 1 .. n /\ DOMAIN r = 1 .. n + 1
  BY AppendProperties, LenProperties
<1>2. r[n + 1] = j /\ \A i \in 1 .. n : r[i] = s[i]
  BY AppendProperties
<1> HIDE DEF r, n
<1>3. \A i \in DOMAIN r : i \in DOMAIN s \/ i = n + 1
  BY ONLY <1>1
<1>4. \A i \in DOMAIN s : i \in DOMAIN r /\ r[i] = s[i] /\ i # n + 1
  BY ONLY <1>1, <1>2
<1>5. n + 1 \in DOMAIN r
  BY ONLY <1>1
<1>6. ToSet(r) = ToSet(s) \cup {j}
  BY ONLY <1>2, <1>3, <1>4, <1>5 DEF ToSet
<1>7. ASSUME IsInjective(s), j \notin ToSet(s) PROVE IsInjective(r)
  BY ONLY <1>2, <1>3, <1>4, <1>7 DEF ToSet, IsInjective
<1> QED
  BY <1>6, <1>7 DEF r

\* The first job is taken off.
LEMMA TailOnce ==
    ASSUME NEW S, NEW s \in Seq(S), s # <<>>
    PROVE  /\ Head(s) \in ToSet(s) /\ Tail(s) \in Seq(S)
           /\ IsInjective(s) => /\ ToSet(Tail(s)) = ToSet(s) \ {Head(s)}
                                /\ IsInjective(Tail(s))
<1> DEFINE r == Tail(s)
           n == Len(s)
<1>1. n \in Nat /\ n # 0 /\ DOMAIN s = 1 .. n /\ Head(s) = s[1] /\ r \in Seq(S)
      /\ DOMAIN r = 1 .. n - 1 /\ \A i \in 1 .. n - 1 : r[i] = s[i + 1]
  <2>1. n \in Nat /\ n # 0 /\ DOMAIN s = 1 .. n
    BY LenProperties, EmptySeq
  <2>2. Head(s) = s[1] /\ r \in Seq(S) /\ Len(r) = n - 1 /\ \A i \in 1 .. Len(r) : r[i] = s[i + 1]
    BY HeadTailProperties
  <2>3. DOMAIN r = 1 .. Len(r)
    BY <2>2, LenProperties
  <2> QED
    BY <2>1, <2>2, <2>3
<1> HIDE DEF r, n
<1>2. 1 \in DOMAIN s /\ \A i \in DOMAIN r : i + 1 \in DOMAIN s /\ i + 1 # 1 /\ r[i] = s[i + 1]
  BY ONLY <1>1
<1>3. \A i \in DOMAIN s : i = 1 \/ (i - 1 \in DOMAIN r /\ r[i - 1] = s[i])
  <2> SUFFICES ASSUME NEW i \in DOMAIN s, i # 1 PROVE i - 1 \in DOMAIN r /\ r[i - 1] = s[i]
    OBVIOUS
  <2>1. i \in Nat /\ i - 1 \in 1 .. n - 1 /\ (i - 1) + 1 = i
    BY ONLY <1>1, i \in DOMAIN s, i # 1
  <2> QED
    BY ONLY <1>1, <2>1
<1>4. Head(s) = s[1]
  BY <1>1
<1>5. ASSUME IsInjective(s) PROVE ToSet(r) = ToSet(s) \ {Head(s)} /\ IsInjective(r)
  <2>1. ToSet(r) = ToSet(s) \ {Head(s)}
    BY ONLY <1>2, <1>3, <1>4, <1>5 DEF ToSet, IsInjective
  <2>2. ASSUME NEW a \in DOMAIN r, NEW b \in DOMAIN r, r[a] = r[b] PROVE a = b
    <3>1. a + 1 = b + 1
      BY ONLY <1>2, <1>5, <2>2 DEF IsInjective
    <3>2. a \in Int /\ b \in Int
      BY ONLY <1>1, a \in DOMAIN r, b \in DOMAIN r
    <3> QED
      BY ONLY <3>1, <3>2
  <2> QED
    BY ONLY <2>1, <2>2 DEF IsInjective
<1> QED
  BY <1>1, <1>2, <1>4, <1>5 DEF r, ToSet

\* The last job is taken off.
LEMMA FrontOnce ==
    ASSUME NEW S, NEW s \in Seq(S), s # <<>>
    PROVE  /\ Last(s) \in ToSet(s) /\ Front(s) \in Seq(S)
           /\ IsInjective(s) => /\ ToSet(Front(s)) = ToSet(s) \ {Last(s)}
                                /\ IsInjective(Front(s))
<1> DEFINE r == Front(s)
           n == Len(s)
<1>1. n \in Nat /\ n # 0 /\ DOMAIN s = 1 .. n
  BY LenProperties, EmptySeq
<1>2. r = SubSeq(s, 1, n - 1) /\ Last(s) = s[n]
  BY DEF Front, Last
<1>3. r \in Seq(S) /\ DOMAIN r = 1 .. n - 1 /\ \A i \in 1 .. n - 1 : r[i] = s[i]
  <2>1. 1 \in 1 .. n + 1 /\ n - 1 \in 0 .. n
    BY <1>1
  <2>2. r \in Seq(S) /\ Len(r) = n - 1
    BY <1>1, <1>2, <2>1
  <2>3. \A i \in 1 .. n - 1 : r[i] = s[i]
    BY <1>1, <1>2, <2>1
  <2>4. DOMAIN r = 1 .. Len(r)
    BY <2>2, LenProperties
  <2> QED
    BY <2>2, <2>3, <2>4
<1> HIDE DEF r, n
<1>4. \A i \in DOMAIN r : i \in DOMAIN s /\ i # n /\ r[i] = s[i]
  BY ONLY <1>1, <1>3
<1>5. n \in DOMAIN s /\ \A i \in DOMAIN s : i = n \/ i \in DOMAIN r
  BY ONLY <1>1, <1>3
<1>6. ASSUME IsInjective(s) PROVE ToSet(r) = ToSet(s) \ {Last(s)} /\ IsInjective(r)
  <2>1. Last(s) = s[n]
    BY <1>2
  <2>2. ToSet(r) = ToSet(s) \ {Last(s)}
    BY ONLY <1>4, <1>5, <1>6, <2>1 DEF ToSet, IsInjective
  <2> QED
    BY ONLY <1>4, <1>6, <2>2 DEF IsInjective
<1>7. Last(s) \in ToSet(s)
  BY <1>2, <1>5 DEF ToSet
<1> QED
  BY <1>3, <1>6, <1>7 DEF r

\* Two queues of different jobs are put together.
LEMMA ConcatOnce ==
    ASSUME NEW S, NEW s \in Seq(S), NEW r \in Seq(S)
    PROVE  /\ ToSet(s \o r) = ToSet(s) \cup ToSet(r)
           /\ IsInjective(s) /\ IsInjective(r) /\ ToSet(s) \cap ToSet(r) = {}
                => IsInjective(s \o r)
<1> DEFINE q == s \o r
           n == Len(s)
           m == Len(r)
<1>1. /\ n \in Nat /\ DOMAIN s = 1 .. n /\ m \in Nat /\ DOMAIN r = 1 .. m
      /\ DOMAIN q = 1 .. n + m
  <2>1. q \in Seq(S) /\ Len(q) = n + m
    BY ConcatProperties
  <2> QED
    BY <2>1, LenProperties
<1>2. \A i \in 1 .. n + m : q[i] = IF i <= n THEN s[i] ELSE r[i - n]
  BY ConcatProperties
<1> HIDE DEF q, n, m
<1>3. \A i \in DOMAIN s : i \in DOMAIN q /\ q[i] = s[i]
  BY ONLY <1>1, <1>2
<1>4. \A i \in DOMAIN r : i + n \in DOMAIN q /\ q[i + n] = r[i]
  <2> SUFFICES ASSUME NEW i \in DOMAIN r PROVE i + n \in DOMAIN q /\ q[i + n] = r[i]
    OBVIOUS
  <2>1. i \in Nat /\ i + n \in 1 .. n + m /\ ~ (i + n <= n) /\ (i + n) - n = i
    BY ONLY <1>1, i \in DOMAIN r
  <2> QED
    BY ONLY <1>1, <1>2, <2>1
<1>5. \A i \in DOMAIN q : \/ i \in DOMAIN s /\ q[i] = s[i]
                          \/ i - n \in DOMAIN r /\ q[i] = r[i - n]
  BY ONLY <1>1, <1>2
<1>6. ToSet(q) = ToSet(s) \cup ToSet(r)
  BY ONLY <1>3, <1>4, <1>5 DEF ToSet
<1>7. ASSUME IsInjective(s), IsInjective(r), ToSet(s) \cap ToSet(r) = {},
             NEW a \in DOMAIN q, NEW b \in DOMAIN q, q[a] = q[b]
      PROVE  a = b
  <2>0. a \in Int /\ b \in Int /\ n \in Int
    BY ONLY <1>1, a \in DOMAIN q, b \in DOMAIN q
  <2>1. CASE a \in DOMAIN s /\ b \in DOMAIN s /\ q[a] = s[a] /\ q[b] = s[b]
    BY ONLY <1>7, <2>1 DEF IsInjective
  <2>2. CASE a - n \in DOMAIN r /\ b - n \in DOMAIN r /\ q[a] = r[a - n] /\ q[b] = r[b - n]
    <3>1. a - n = b - n
      BY ONLY <1>7, <2>2 DEF IsInjective
    <3> QED
      BY ONLY <2>0, <3>1
  <2>3. CASE a \in DOMAIN s /\ q[a] = s[a] /\ b - n \in DOMAIN r /\ q[b] = r[b - n]
    BY ONLY <1>7, <2>3 DEF ToSet
  <2>4. CASE b \in DOMAIN s /\ q[b] = s[b] /\ a - n \in DOMAIN r /\ q[a] = r[a - n]
    BY ONLY <1>7, <2>4 DEF ToSet
  <2> QED
    BY ONLY <1>5, <2>1, <2>2, <2>3, <2>4, a \in DOMAIN q, b \in DOMAIN q
<1> QED
  BY <1>6, <1>7 DEF q, IsInjective

\* The oldest jobs are taken off together.
LEMMA SplitOnce ==
    ASSUME NEW S, NEW s \in Seq(S), NEW k \in 0 .. Len(s), IsInjective(s)
    PROVE  /\ SubSeq(s, 1, k) \in Seq(S) /\ Rest(s, k) \in Seq(S)
           /\ ToSet(SubSeq(s, 1, k)) \cup ToSet(Rest(s, k)) = ToSet(s)
           /\ ToSet(SubSeq(s, 1, k)) \cap ToSet(Rest(s, k)) = {}
           /\ IsInjective(SubSeq(s, 1, k)) /\ IsInjective(Rest(s, k))
<1> DEFINE f == SubSeq(s, 1, k)
           r == SubSeq(s, k + 1, Len(s))
           n == Len(s)
<1>1. n \in Nat /\ DOMAIN s = 1 .. n /\ k \in 0 .. n
  BY LenProperties
<1>2. f \in Seq(S) /\ DOMAIN f = 1 .. k /\ \A i \in 1 .. k : f[i] = s[i]
  <2>1. 1 \in Int /\ k \in Int /\ \A i \in 1 .. k : s[i] \in S
    BY <1>1, ElementOfSeq
  <2>2. f \in Seq(S) /\ Len(f) = (IF 1 <= k THEN k - 1 + 1 ELSE 0)
        /\ \A i \in 1 .. k - 1 + 1 : f[i] = s[1 + i - 1]
    BY ONLY <2>1, SubSeqProperties
  <2>3. Len(f) = k /\ \A i \in 1 .. k : f[i] = s[i]
    BY ONLY <1>1, <2>2
  <2> QED
    BY <2>2, <2>3, LenProperties
<1>3. r \in Seq(S) /\ DOMAIN r = 1 .. n - k /\ \A i \in 1 .. n - k : r[i] = s[i + k]
  <2>1. k + 1 \in Int /\ n \in Int /\ \A i \in k + 1 .. n : s[i] \in S
    <3>1. \A i \in 1 .. n : s[i] \in S
      BY ElementOfSeq
    <3> HIDE DEF n
    <3> QED
      BY ONLY <1>1, <3>1
  <2>2. r \in Seq(S) /\ Len(r) = (IF k + 1 <= n THEN n - (k + 1) + 1 ELSE 0)
        /\ \A i \in 1 .. n - (k + 1) + 1 : r[i] = s[(k + 1) + i - 1]
    BY ONLY <2>1, SubSeqProperties
  <2> HIDE DEF n, r
  <2>3. Len(r) = n - k
    BY ONLY <1>1, <2>2
  <2>4. ASSUME NEW i \in 1 .. n - k PROVE r[i] = s[i + k]
    <3>1. i \in 1 .. n - (k + 1) + 1 /\ (k + 1) + i - 1 = i + k
      BY ONLY <1>1, i \in 1 .. n - k
    <3> QED
      BY ONLY <2>2, <3>1
  <2> QED
    BY <2>2, <2>3, <2>4, LenProperties
<1> HIDE DEF f, r, n
<1>4. \A i \in DOMAIN f : i \in DOMAIN s /\ f[i] = s[i]
  BY ONLY <1>1, <1>2
<1>5. \A i \in DOMAIN r : i + k \in DOMAIN s /\ i + k \notin DOMAIN f /\ r[i] = s[i + k]
  BY ONLY <1>1, <1>2, <1>3
<1>6. \A i \in DOMAIN s : \/ i \in DOMAIN f
                          \/ i - k \in DOMAIN r /\ r[i - k] = s[i]
  <2> SUFFICES ASSUME NEW i \in DOMAIN s, i \notin DOMAIN f
               PROVE  i - k \in DOMAIN r /\ r[i - k] = s[i]
    OBVIOUS
  <2>1. i \in Int /\ k \in Int /\ i - k \in 1 .. n - k /\ (i - k) + k = i
    BY ONLY <1>1, <1>2, i \in DOMAIN s, i \notin DOMAIN f
  <2> QED
    BY ONLY <1>3, <2>1
<1>7. ToSet(f) \cup ToSet(r) = ToSet(s)
  BY ONLY <1>4, <1>5, <1>6 DEF ToSet
<1>8. ToSet(f) \cap ToSet(r) = {}
  BY ONLY <1>4, <1>5, IsInjective(s) DEF ToSet, IsInjective
<1>9. IsInjective(f)
  BY ONLY <1>4, IsInjective(s) DEF IsInjective
<1>10. IsInjective(r)
  <2> SUFFICES ASSUME NEW a \in DOMAIN r, NEW b \in DOMAIN r, r[a] = r[b] PROVE a = b
    BY DEF IsInjective
  <2>1. a + k = b + k
    BY ONLY <1>5, IsInjective(s), r[a] = r[b], a \in DOMAIN r, b \in DOMAIN r DEF IsInjective
  <2>2. a \in Int /\ b \in Int /\ k \in Int
    BY ONLY <1>1, <1>3, a \in DOMAIN r, b \in DOMAIN r
  <2> QED
    BY ONLY <2>1, <2>2
<1> QED
  BY <1>2, <1>3, <1>7, <1>8, <1>9, <1>10 DEF f, r, n, Rest

-----------------------------------------------------------------------------
(* Where the jobs are *)

\* The jobs at a place.
Has(place) == ToSet(Held(place))

\* Every job that is open is at one place, once, and it has neither run nor been released.
Conserved ==
    /\ \A x \in Places : IsInjective(Held(x))
    /\ \A x, y \in Places : x # y => Has(x) \cap Has(y) = {}
    /\ UNION {Has(x) : x \in Places} = Open
    /\ done \cap released = {} /\ done \cup released \subseteq Submitted

\* Only what lies at the places in `touched` changes in this step.
Touches(touched) ==
    /\ UNCHANGED injector \/ <<"injector", None>> \in touched
    /\ \A w \in Workers :
         /\ inbox'[w] = inbox[w] \/ <<"inbox", w>> \in touched
         /\ deque'[w] = deque[w] \/ <<"deque", w>> \in touched
         /\ mine'[w] = mine[w] \/ <<"mine", w>> \in touched
         /\ hand'[w] = hand[w] \/ <<"hand", w>> \in touched
         /\ lifo'[w] = lifo[w] \/ <<"lifo", w>> \in touched
    /\ \A p \in Procs : job'[p] = job[p] \/ <<"job", p>> \in touched

\* What each place holds.
LEMMA HeldOutside ==
    /\ <<"injector", None>> \in Places
    /\ Held(<<"injector", None>>) = injector /\ Held(<<"injector", None>>)' = injector'
BY DEF Places, Held

LEMMA HeldByWorker ==
    ASSUME NEW w \in Workers
    PROVE  /\ <<"inbox", w>> \in Places /\ <<"deque", w>> \in Places /\ <<"mine", w>> \in Places
           /\ <<"hand", w>> \in Places /\ <<"lifo", w>> \in Places
           /\ Held(<<"inbox", w>>) = inbox[w] /\ Held(<<"inbox", w>>)' = inbox'[w]
           /\ Held(<<"deque", w>>) = deque[w] /\ Held(<<"deque", w>>)' = deque'[w]
           /\ Held(<<"mine", w>>) = mine[w] /\ Held(<<"mine", w>>)' = mine'[w]
           /\ Held(<<"hand", w>>) = hand[w] /\ Held(<<"hand", w>>)' = hand'[w]
           /\ Held(<<"lifo", w>>) = One(lifo[w]) /\ Held(<<"lifo", w>>)' = One(lifo'[w])
<1>1. /\ <<"inbox", w>> \in Places /\ <<"deque", w>> \in Places /\ <<"mine", w>> \in Places
      /\ <<"hand", w>> \in Places /\ <<"lifo", w>> \in Places
  BY DEF Places
<1>2. /\ Held(<<"inbox", w>>) = inbox[w] /\ Held(<<"inbox", w>>)' = inbox'[w]
      /\ Held(<<"deque", w>>) = deque[w] /\ Held(<<"deque", w>>)' = deque'[w]
      /\ Held(<<"mine", w>>) = mine[w] /\ Held(<<"mine", w>>)' = mine'[w]
      /\ Held(<<"hand", w>>) = hand[w] /\ Held(<<"hand", w>>)' = hand'[w]
      /\ Held(<<"lifo", w>>) = One(lifo[w]) /\ Held(<<"lifo", w>>)' = One(lifo'[w])
  BY DEF Held, One
<1> QED
  BY <1>1, <1>2

LEMMA HeldByThread ==
    ASSUME NEW p \in Procs
    PROVE  /\ <<"job", p>> \in Places
           /\ Held(<<"job", p>>) = One(job[p]) /\ Held(<<"job", p>>)' = One(job'[p])
BY DEF Places, Held, One

\* All the places.
LEMMA PlaceKinds ==
    ASSUME NEW x \in Places
    PROVE  \/ x = <<"injector", None>>
           \/ \E w \in Workers : x \in {<<"inbox", w>>, <<"deque", w>>, <<"mine", w>>,
                                        <<"hand", w>>, <<"lifo", w>>}
           \/ \E p \in Procs : x = <<"job", p>>
BY DEF Places

\* Elsewhere nothing changes.
LEMMA TheRestStays ==
    ASSUME NEW touched, Touches(touched), NEW x \in Places \ touched
    PROVE  Held(x)' = Held(x)
<1>1. CASE x = <<"injector", None>>
  BY <1>1, HeldOutside DEF Touches
<1>2. ASSUME NEW w \in Workers, x \in {<<"inbox", w>>, <<"deque", w>>, <<"mine", w>>,
                                       <<"hand", w>>, <<"lifo", w>>}
      PROVE  Held(x)' = Held(x)
  BY <1>2, HeldByWorker DEF Touches
<1>3. ASSUME NEW p \in Procs, x = <<"job", p>> PROVE Held(x)' = Held(x)
  BY <1>3, HeldByThread DEF Touches
<1> QED
  BY <1>1, <1>2, <1>3, PlaceKinds

\* A slot or a hand holds at most one job.
LEMMA OneHolds ==
    ASSUME NEW j \in Jobs \cup {None}
    PROVE  ToSet(One(j)) = {j} \ {None} /\ IsInjective(One(j))
<1>1. CASE j = None
  BY <1>1 DEF One, ToSet, IsInjective
<1>2. CASE j # None
  <2>1. One(j) = <<j>> /\ DOMAIN <<j>> = {1} /\ <<j>>[1] = j
    BY <1>2 DEF One
  <2> QED
    BY ONLY <1>2, <2>1 DEF ToSet, IsInjective
<1> QED
  BY <1>1, <1>2

(* The shape of every step that moves jobs: two places change, `away`       *)
(* leaves them, `new` is new, and the rest of the two is divided anew.      *)
LEMMA Regroup ==
    ASSUME Conserved, NEW x \in Places, NEW y \in Places, x # y, Touches({x, y}),
           NEW away, NEW new,
           IsInjective(Held(x)'), IsInjective(Held(y)'), Has(x)' \cap Has(y)' = {},
           Has(x)' \cup Has(y)' = ((Has(x) \cup Has(y)) \ away) \cup new,
           away \subseteq Has(x) \cup Has(y),
           new \cap (Open \ (Has(x) \cup Has(y))) = {},
           Open' = (Open \ away) \cup new,
           (done \cap released)' = {}, (done \cup released \subseteq Submitted)'
    PROVE  Conserved'
<1>1. \A z \in Places \ {x, y} : Held(z)' = Held(z) /\ Has(z)' = Has(z)
  BY TheRestStays DEF Has
<1>2. \A z \in Places : IsInjective(Held(z)')
  BY <1>1 DEF Conserved
<1>3. \A z \in Places \ {x, y} : Has(z) \cap Has(x) = {} /\ Has(z) \cap Has(y) = {} /\ Has(z) \subseteq Open
  BY DEF Conserved
<1> DEFINE both == Has(x) \cup Has(y)
           bothN == Has(x)' \cup Has(y)'
<1>4. \A z \in Places \ {x, y} : Has(z) \cap bothN = {}
  <2> SUFFICES ASSUME NEW z \in Places \ {x, y} PROVE Has(z) \cap bothN = {}
    OBVIOUS
  <2>1. Has(z) \cap both = {} /\ Has(z) \subseteq Open \ both
    BY <1>3
  <2> QED
    BY <2>1
<1>5. \A z, u \in Places \ {x, y} : z # u => Has(z) \cap Has(u) = {}
  BY DEF Conserved
<1>6. ASSUME NEW z \in Places, NEW u \in Places, z # u PROVE Has(z)' \cap Has(u)' = {}
  <2>1. CASE z \in {x, y} /\ u \in {x, y}
    BY <1>6, <2>1
  <2>2. CASE z \notin {x, y} /\ u \in {x, y}
    BY <1>1, <1>4, <2>2
  <2>3. CASE z \in {x, y} /\ u \notin {x, y}
    BY <1>1, <1>4, <2>3
  <2>4. CASE z \notin {x, y} /\ u \notin {x, y}
    BY <1>1, <1>5, <1>6, <2>4
  <2> QED
    BY <2>1, <2>2, <2>3, <2>4
<1> DEFINE others == UNION {Has(z) : z \in Places \ {x, y}}
<1>7. Open = others \cup both /\ others \cap both = {}
  <2>1. Open = UNION {Has(z) : z \in Places}
    BY DEF Conserved
  <2> QED
    BY ONLY <1>3, <2>1, x \in Places, y \in Places
<1>8. UNION {Has(z)' : z \in Places} = others \cup bothN
  BY ONLY <1>1, x \in Places, y \in Places
<1> HIDE DEF others
<1>9. others \cup bothN = Open'
  <2>1. bothN = (both \ away) \cup new /\ away \subseteq both
    OBVIOUS
  <2>2. Open' = (Open \ away) \cup new
    OBVIOUS
  <2> QED
    BY ONLY <1>7, <2>1, <2>2
<1> QED
  BY <1>2, <1>6, <1>8, <1>9 DEF Conserved

-----------------------------------------------------------------------------
(* Which jobs were submitted *)

\* The number of calls each client has made, the jobs of these calls, and the jobs that
\* others have handed to their workers.
Made == [c \in Clients |-> Len(Script[c]) - Len(script[c])]
Called == [c \in Clients |-> {Script[c][k].job : k \in 1 .. Made[c]}]
AllCalled == UNION {Called[c] : c \in Clients}
HandedOn == {Wakes[j] : j \in done \ Panicking}

\* What c has yet to call is the rest of its script, and no job that has run to its end
\* wakes itself.
ScriptKnown ==
    /\ \A c \in Clients :
         /\ Made[c] \in Nat
         /\ \A i \in 1 .. Len(script[c]) : script[c][i] = Script[c][Made[c] + i]
    /\ \A j \in done \ Panicking : Wakes[j] # j

LEMMA SubmittedIs ==
    /\ Submitted = (AllCalled \cup HandedOn \cup ToSet(setup.backlog)) \ {None}
    /\ Submitted' = (AllCalled' \cup HandedOn' \cup ToSet(setup'.backlog)) \ {None}
<1> DEFINE calls == UNION {{Script[c][k].job : k \in 1 .. Len(Script[c]) - Len(script[c])} : c \in Clients}
<1>1. \A c \in Clients : Called[c] = {Script[c][k].job : k \in 1 .. Len(Script[c]) - Len(script[c])}
  BY DEF Called, Made
<1>2. AllCalled = calls
  BY <1>1 DEF AllCalled
<1>3. \A c \in Clients : Called'[c] = {Script'[c][k].job : k \in 1 .. Len(Script'[c]) - Len(script'[c])}
  BY DEF Called, Made
<1>4. AllCalled' = calls'
  BY <1>3 DEF AllCalled
<1>5. Submitted = (calls \cup HandedOn \cup ToSet(setup.backlog)) \ {None}
  BY DEF Submitted, HandedOn
<1>6. Submitted' = (calls' \cup HandedOn' \cup ToSet(setup'.backlog)) \ {None}
  BY DEF Submitted, HandedOn
<1> QED
  BY ONLY <1>2, <1>4, <1>5, <1>6

LEMMA CalledByOne ==
    ASSUME NEW x
    PROVE  /\ x \in AllCalled <=> \E c \in Clients : x \in Called[c]
           /\ x \in AllCalled' <=> \E c \in Clients : x \in Called'[c]
BY DEF AllCalled

\* The first element and the rest, by index.
LEMMA TailIs ==
    ASSUME NEW S, NEW s \in Seq(S), s # <<>>
    PROVE  /\ Len(s) \in Nat \ {0} /\ Head(s) = s[1]
           /\ Len(Tail(s)) = Len(s) - 1
           /\ \A i \in 1 .. Len(s) - 1 : Tail(s)[i] = s[i + 1]
<1>1. Len(s) \in Nat /\ Len(s) # 0
  BY LenProperties, EmptySeq
<1>2. Head(s) = s[1] /\ Len(Tail(s)) = Len(s) - 1 /\ \A i \in 1 .. Len(Tail(s)) : Tail(s)[i] = s[i + 1]
  BY HeadTailProperties
<1> QED
  BY <1>1, <1>2

\* Nobody submits a job twice: the workload has one origin for each.
LEMMA OneOrigin ==
    ASSUME setup \in Setups, NEW j \in Jobs
    PROVE  /\ \A k \in DOMAIN setup.backlog : \A l \in DOMAIN setup.backlog :
                setup.backlog[k] = j /\ setup.backlog[l] = j => k = l
           /\ \A c \in Clients : \A k \in DOMAIN Script[c] : Script[c][k].job = j =>
                /\ j \notin ToSet(setup.backlog)
                /\ \A i \in Jobs \ {j} : Wakes[i] # j
                /\ \A d \in Clients : \A l \in DOMAIN Script[d] : Script[d][l].job = j => d = c /\ l = k
           /\ \A i \in Jobs \ {j} : Wakes[i] = j =>
                /\ j \notin ToSet(setup.backlog)
                /\ \A h \in Jobs \ {j} : Wakes[h] = j => h = i
<1>1. \A a, b \in Origins(setup, j) : a = b
  BY SetupsAssumption
<1>2. \A k \in DOMAIN setup.backlog : setup.backlog[k] = j => <<"backlog", None, k>> \in Origins(setup, j)
  BY DEF Origins
<1>3. \A i \in Jobs \ {j} : Wakes[i] = j => <<"wake", i, 0>> \in Origins(setup, j)
  BY DEF Origins, Wakes
<1>4. \A c \in Clients : \A k \in DOMAIN Script[c] :
        Script[c][k].job = j => <<"call", c, k>> \in Origins(setup, j)
  BY DEF Origins, Script
<1>5. \A k \in DOMAIN setup.backlog : \A l \in DOMAIN setup.backlog :
        setup.backlog[k] = j /\ setup.backlog[l] = j => k = l
  BY ONLY <1>1, <1>2
<1>6. ASSUME NEW c \in Clients, NEW k \in DOMAIN Script[c], Script[c][k].job = j
      PROVE  /\ j \notin ToSet(setup.backlog)
             /\ \A i \in Jobs \ {j} : Wakes[i] # j
             /\ \A d \in Clients : \A l \in DOMAIN Script[d] : Script[d][l].job = j => d = c /\ l = k
  BY ONLY <1>1, <1>2, <1>3, <1>4, <1>6 DEF ToSet
<1>7. ASSUME NEW i \in Jobs \ {j}, Wakes[i] = j
      PROVE  /\ j \notin ToSet(setup.backlog)
             /\ \A h \in Jobs \ {j} : Wakes[h] = j => h = i
  BY ONLY <1>1, <1>2, <1>3, <1>7 DEF ToSet
<1> QED
  BY ONLY <1>5, <1>6, <1>7

\* A call that was made is in the script.
LEMMA CalledInScript ==
    ASSUME ScriptKnown, script \in [Clients -> Seq(Calls)], Script \in [Clients -> Seq(Calls)],
           NEW d \in Clients, NEW k \in 1 .. Made[d]
    PROVE  k \in DOMAIN Script[d]
<1> DEFINE n == Len(script[d])
           all == Len(Script[d])
           m == Made[d]
<1>1. script[d] \in Seq(Calls) /\ Script[d] \in Seq(Calls)
  OBVIOUS
<1>2. n \in Nat /\ all \in Nat /\ DOMAIN Script[d] = 1 .. all
  BY <1>1, LenProperties
<1>3. m \in Nat /\ m = all - n
  BY DEF ScriptKnown, Made
<1>4. k \in 1 .. m
  OBVIOUS
<1> HIDE DEF n, all, m
<1>5. k \in 1 .. all
  BY ONLY <1>2, <1>3, <1>4
<1> QED
  BY <1>2, <1>5

\* A client makes its next call: the job is a new one.
LEMMA CallSubmits ==
    ASSUME Types, ScriptKnown, NEW c \in Clients, script[c] # <<>>,
           script' = [script EXCEPT ![c] = Tail(script[c])], UNCHANGED <<setup, done>>
    PROVE  /\ ScriptKnown'
           /\ Submitted' = Submitted \cup ({Head(script[c]).job} \ {None})
           /\ Head(script[c]).job \in Jobs => Head(script[c]).job \notin Submitted
<1> DEFINE j == Head(script[c]).job
           m == Made[c]
           n == Len(script[c])
           all == Len(Script[c])
<1>0. /\ script \in [Clients -> Seq(Calls)] /\ Script \in [Clients -> Seq(Calls)]
      /\ Script' = Script /\ Wakes' = Wakes /\ Panicking' = Panicking /\ setup \in Setups
  BY SetupFacts DEF Types, StealTypes, StateTypes, Script, Wakes, Panicking
<1>1. /\ n \in Nat /\ n # 0 /\ Head(script[c]) = script[c][1]
      /\ Len(script'[c]) = n - 1 /\ \A i \in 1 .. n - 1 : script'[c][i] = script[c][i + 1]
  <2>1. script[c] \in Seq(Calls) /\ script'[c] = Tail(script[c])
    BY <1>0
  <2>2. /\ n \in Nat \ {0} /\ Head(script[c]) = script[c][1]
        /\ Len(Tail(script[c])) = n - 1
        /\ \A i \in 1 .. n - 1 : Tail(script[c])[i] = script[c][i + 1]
    BY <2>1, TailIs
  <2> QED
    BY ONLY <2>1, <2>2
<1>2. /\ m \in Nat /\ all \in Nat /\ m = all - n /\ DOMAIN Script[c] = 1 .. all
      /\ \A i \in 1 .. n : script[c][i] = Script[c][m + i]
  <2>1. Script[c] \in Seq(Calls)
    BY <1>0
  <2>2. all \in Nat /\ DOMAIN Script[c] = 1 .. all
    BY <2>1, LenProperties
  <2>3. m = all - n
    BY DEF Made
  <2>4. m \in Nat /\ \A i \in 1 .. n : script[c][i] = Script[c][m + i]
    BY DEF ScriptKnown
  <2> QED
    BY ONLY <2>2, <2>3, <2>4
<1>3. Made'[c] = m + 1
  <2>1. Made'[c] = Len(Script[c]) - Len(script'[c])
    BY <1>0 DEF Made
  <2>2. Len(script'[c]) = n - 1
    BY <1>1
  <2> HIDE DEF n, m, all
  <2>3. all - (n - 1) = m + 1
    BY ONLY <1>1, <1>2
  <2> QED
    BY ONLY <2>1, <2>2, <2>3 DEF all
<1>4. \A d \in Clients \ {c} : script'[d] = script[d] /\ Made'[d] = Made[d] /\ Called'[d] = Called[d]
  <2>1. \A d \in Clients \ {c} : script'[d] = script[d] /\ Made'[d] = Made[d]
    BY <1>0 DEF Made
  <2> QED
    BY <1>0, <2>1 DEF Called
<1>5. Called'[c] = {Script[c][k].job : k \in 1 .. m + 1} /\ Called[c] = {Script[c][k].job : k \in 1 .. m}
  BY <1>0, <1>3 DEF Called
<1> HIDE DEF m, n, all
<1>6. Script[c][m + 1].job = j /\ m + 1 \in DOMAIN Script[c]
  <2>1. 1 \in 1 .. n /\ m + 1 \in 1 .. all
    BY ONLY <1>1, <1>2
  <2> QED
    BY <1>1, <1>2, <2>1
<1> HIDE DEF j
<1>7. Called'[c] = Called[c] \cup {j}
  <2>1. \A k \in 1 .. m + 1 : k \in 1 .. m \/ k = m + 1
    BY ONLY <1>2
  <2>2. m + 1 \in 1 .. m + 1 /\ \A k \in 1 .. m : k \in 1 .. m + 1
    BY ONLY <1>2
  <2> QED
    BY ONLY <1>5, <1>6, <2>1, <2>2
<1>8. ScriptKnown'
  <2>1. ASSUME NEW i \in 1 .. n - 1 PROVE script'[c][i] = Script[c][(m + 1) + i]
    <3>1. i + 1 \in 1 .. n /\ m + (i + 1) = (m + 1) + i
      BY ONLY <1>1, <1>2, i \in 1 .. n - 1
    <3> QED
      BY <1>1, <1>2, <3>1
  <2>2. /\ Made'[c] \in Nat
        /\ \A i \in 1 .. Len(script'[c]) : script'[c][i] = Script'[c][Made'[c] + i]
    BY <1>0, <1>1, <1>2, <1>3, <2>1
  <2>3. ASSUME NEW d \in Clients \ {c}
        PROVE  /\ Made'[d] \in Nat
               /\ \A i \in 1 .. Len(script'[d]) : script'[d][i] = Script'[d][Made'[d] + i]
    BY <1>0, <1>4 DEF ScriptKnown
  <2>4. ASSUME NEW d \in Clients
        PROVE  /\ Made'[d] \in Nat
               /\ \A i \in 1 .. Len(script'[d]) : script'[d][i] = Script'[d][Made'[d] + i]
    BY <2>2, <2>3
  <2>5. \A i \in (done \ Panicking)' : Wakes'[i] # i
    BY <1>0 DEF ScriptKnown
  <2> QED
    BY <2>4, <2>5 DEF ScriptKnown
<1>9. Submitted' = Submitted \cup ({j} \ {None})
  <2>1. HandedOn' = HandedOn
    BY <1>0 DEF HandedOn
  <2>2. AllCalled' = AllCalled \cup {j}
    <3>1. ASSUME NEW x PROVE x \in AllCalled' <=> x \in AllCalled \/ x = j
      BY ONLY <1>4, <1>7, c \in Clients, CalledByOne
    <3> QED
      BY ONLY <3>1
  <2>3. setup' = setup
    OBVIOUS
  <2> QED
    BY ONLY <2>1, <2>2, <2>3, SubmittedIs
<1>10. ASSUME j \in Jobs PROVE j \notin Submitted
  <2>1. /\ j \notin ToSet(setup.backlog)
        /\ \A i \in Jobs \ {j} : Wakes[i] # j
        /\ \A d \in Clients : \A l \in DOMAIN Script[d] : Script[d][l].job = j => d = c /\ l = m + 1
    BY <1>0, <1>6, <1>10, OneOrigin
  <2>2. ASSUME NEW d \in Clients, NEW k \in 1 .. Made[d] PROVE Script[d][k].job # j
    <3>1. k \in DOMAIN Script[d]
      BY <1>0, CalledInScript
    <3>2. d = c => k # m + 1
      <4>1. CASE d = c
        <5>1. k \in 1 .. m
          BY <4>1 DEF m
        <5> QED
          BY ONLY <1>2, <5>1
      <4> QED
        BY <4>1
    <3> QED
      BY <2>1, <3>1, <3>2
  <2>3. done \subseteq Jobs /\ \A i \in done \ Panicking : Wakes[i] # i
    BY DEF Types, HandTypes, ScriptKnown
  <2>4. j \notin HandedOn
    BY <2>1, <2>3 DEF HandedOn
  <2>5. \A d \in Clients : j \notin Called[d]
    BY <2>2 DEF Called
  <2>6. j \notin AllCalled
    BY ONLY <2>5, CalledByOne
  <2>7. j \notin ToSet(setup.backlog)
    BY <2>1
  <2> QED
    BY ONLY <2>4, <2>6, <2>7, SubmittedIs
<1> QED
  BY <1>8, <1>9, <1>10 DEF j

\* A job runs to its end: the one it has handed to its worker, if any, is a new one.
LEMMA FinishSubmits ==
    ASSUME Types, ScriptKnown, NEW j \in Jobs, j \notin done, j \notin Panicking, Wakes[j] # j,
           done' = done \cup {j}, UNCHANGED <<setup, script>>
    PROVE  /\ ScriptKnown'
           /\ Submitted' = Submitted \cup ({Wakes[j]} \ {None})
           /\ Wakes[j] # None => Wakes[j] \in Jobs /\ Wakes[j] \notin Submitted
<1>0. /\ script \in [Clients -> Seq(Calls)] /\ Script \in [Clients -> Seq(Calls)]
      /\ Script' = Script /\ Wakes' = Wakes /\ Panicking' = Panicking /\ setup \in Setups
      /\ Wakes \in [Jobs -> Jobs \cup {None}]
  BY SetupFacts DEF Types, StealTypes, StateTypes, Script, Wakes, Panicking
<1>1. Made' = Made /\ Called' = Called
  BY <1>0 DEF Made, Called
<1>2. ScriptKnown'
  BY <1>0, <1>1 DEF ScriptKnown
<1>3. HandedOn' = HandedOn \cup {Wakes[j]}
  BY <1>0 DEF HandedOn
<1>4. Submitted' = Submitted \cup ({Wakes[j]} \ {None})
  <2>1. AllCalled' = AllCalled
    BY <1>1 DEF AllCalled
  <2>2. setup' = setup
    OBVIOUS
  <2> QED
    BY ONLY <1>3, <2>1, <2>2, SubmittedIs
<1>5. ASSUME Wakes[j] # None PROVE Wakes[j] \in Jobs /\ Wakes[j] \notin Submitted
  <2> DEFINE k == Wakes[j]
  <2>1. k \in Jobs /\ j \in Jobs \ {k}
    BY <1>0, <1>5
  <2>2. k \notin ToSet(setup.backlog) /\ \A h \in Jobs \ {k} : Wakes[h] = k => h = j
    BY <1>0, <2>1, OneOrigin
  <2>3. ASSUME NEW d \in Clients, NEW l \in DOMAIN Script[d] PROVE Script[d][l].job # k
    BY <1>0, <2>1, OneOrigin
  <2>4. \A d \in Clients : k \notin Called[d]
    BY <1>0, <2>3, CalledInScript DEF Called
  <2>5. done \subseteq Jobs /\ \A i \in done \ Panicking : Wakes[i] # i
    BY DEF Types, HandTypes, ScriptKnown
  <2> HIDE DEF k
  <2>6. k \notin HandedOn
    BY <2>2, <2>5, j \notin done DEF HandedOn
  <2>7. k \notin AllCalled
    BY ONLY <2>4, CalledByOne
  <2>8. k \notin ToSet(setup.backlog)
    BY <2>2
  <2>9. k \notin Submitted
    BY ONLY <2>6, <2>7, <2>8, SubmittedIs
  <2> QED
    BY <2>1, <2>9 DEF k
<1> QED
  BY <1>2, <1>4, <1>5

\* Nothing is submitted by a panic, nor where neither `script` nor `done` changes.
LEMMA NothingSubmitted ==
    ASSUME Types, ScriptKnown, UNCHANGED <<setup, script>>,
           done' = done \/ \E j \in Panicking : done' = done \cup {j}
    PROVE  ScriptKnown' /\ Submitted' = Submitted
<1>0. Script' = Script /\ Wakes' = Wakes /\ Panicking' = Panicking
  BY DEF Script, Wakes, Panicking
<1>1. done' \ Panicking = done \ Panicking
  OBVIOUS
<1>2. Made' = Made /\ Called' = Called
  BY <1>0 DEF Made, Called
<1>3. ScriptKnown'
  BY <1>0, <1>1, <1>2 DEF ScriptKnown
<1>4. HandedOn' = HandedOn
  BY <1>0, <1>1 DEF HandedOn
<1>5. setup' = setup
  OBVIOUS
<1>6. AllCalled' = AllCalled
  BY <1>2 DEF AllCalled
<1>7. Submitted' = Submitted
  BY ONLY <1>4, <1>5, <1>6, SubmittedIs
<1> QED
  BY <1>3, <1>7

-----------------------------------------------------------------------------
(* What a thread has in its hands, and when *)

\* A thread holds a job while it runs it, and between taking it and putting it down.
HandKnown(p) ==
    job[p] # None => \/ pc[p] \in {"keep", "capped_push", "displace", "spill", "put_inbox"}
                     \/ At(p) \in {"run", "share"}
HandsKnown == \A p \in Procs : HandKnown(p)

\* Who is not in `run` has nothing in the private queue.
PutAway == \A w \in Workers : pc[w] \in {"off", "dead"} => mine[w] = <<>>

\* A thread at any other step has its hands free.
LEMMA HandsFree ==
    ASSUME HandsKnown, NEW p \in Procs,
           pc[p] \notin {"keep", "capped_push", "displace", "spill", "put_inbox", "run", "share",
                         "claim", "unpark", "wake_owner"}
    PROVE  job[p] = None
BY DEF HandsKnown, HandKnown, At, WakeSteps, OwnerSteps

LEMMA SubmitLocalHands ==
    ASSUME Types, Steps, NEW p \in Procs, NEW w \in Workers, NEW j \in Jobs, NEW back, SubmitLocal(p, w, j, back)
    PROVE  HandKnown(p)'
<1>0. /\ pc \in [Procs -> WorkerSteps \cup ClientSteps \cup WakeSteps]
      /\ job \in [Procs -> Jobs \cup {None}]
  BY DEF Types, HandTypes, Steps
<1>1. CASE ~ LocalWakes
  <2>1. job'[p] = None
    BY ONLY <1>0, <1>1, SubmitLocal(p, w, j, back), p \in Procs DEF SubmitLocal, Set
  <2> QED
    BY <2>1 DEF HandKnown
<1>2. CASE LocalWakes
  <2>1. job'[p] = lifo[w] /\ pc' = [pc EXCEPT ![p] = CASE lifo[w] = None -> "wake_owner"
                                                      [] lifo[w] # None /\ Spilling -> "displace"
                                                      [] OTHER -> "put_inbox"]
    BY ONLY <1>0, <1>2, SubmitLocal(p, w, j, back), p \in Procs DEF SubmitLocal, Replace, Set, Goto
  <2>2. lifo[w] # None => pc'[p] \in {"displace", "put_inbox"}
    BY ONLY <1>0, <2>1, p \in Procs
  <2> QED
    BY ONLY <2>1, <2>2 DEF HandKnown
<1> QED
  BY <1>1, <1>2

LEMMA WakeKeepsHands ==
    ASSUME Types, Steps, NEW p \in Procs, HandKnown(p), Wake(p)
    PROVE  HandKnown(p)'
<1>0. /\ pc \in [Procs -> WorkerSteps \cup ClientSteps \cup WakeSteps]
      /\ job \in [Procs -> Jobs \cup {None}]
  BY DEF Types, HandTypes, Steps
<1>1. At(p)' = At(p)
  BY WakeStaysAt
<1>2. CASE ClaimSleeper(p) \/ Unpark(p) \/ WakeOwner(p)
  <2>1. job' = job /\ pc[p] \in {"claim", "unpark", "wake_owner"}
    BY ONLY <1>2 DEF ClaimSleeper, Unpark, WakeOwner
  <2> QED
    BY ONLY <1>1, <2>1, HandKnown(p) DEF HandKnown
<1>3. CASE ChooseSpill(p)
  <2>1. pc'[p] \in {"put_inbox", "spill"}
    BY ONLY <1>0, <1>3, p \in Procs DEF ChooseSpill, Goto
  <2> QED
    BY ONLY <2>1 DEF HandKnown
<1>4. CASE Displace(p)
  <2>1. job'[p] = None
    BY ONLY <1>0, <1>4, p \in Procs DEF Displace, Set
  <2> QED
    BY ONLY <2>1 DEF HandKnown
<1> QED
  BY <1>2, <1>3, <1>4 DEF Wake

LEMMA ClientKeepsHands ==
    ASSUME Types, Steps, NEW c \in Clients, HandKnown(c), ClientStep(c)
    PROVE  HandKnown(c)'
<1>0. /\ pc \in [Procs -> WorkerSteps \cup ClientSteps \cup WakeSteps]
      /\ job \in [Procs -> Jobs \cup {None}] /\ c \in Procs
      /\ script \in [Clients -> Seq(Calls)]
  BY DEF Types, HandTypes, StealTypes, Steps, Procs
<1>1. pc[c] \in {"idle", "unpark_all"}
  BY DEF ClientStep, Submit, SubmitToWorker, ShutDown, UnparkAll
<1>2. job[c] = None
  BY ONLY <1>1, HandKnown(c) DEF HandKnown, At, WakeSteps, OwnerSteps
<1>3. CASE Submit(c) \/ ShutDown(c) \/ UnparkAll(c)
  <2>1. job' = job
    BY ONLY <1>3 DEF Submit, ShutDown, UnparkAll
  <2> QED
    BY ONLY <1>2, <2>1 DEF HandKnown
<1>4. CASE SubmitToWorker(c)
  <2>1. script[c] # <<>> /\ Head(script[c]).op = "submit_local"
        /\ SubmitLocal(c, Head(script[c]).worker, Head(script[c]).job, "idle")
    BY ONLY <1>4 DEF SubmitToWorker
  <2>2. Head(script[c]) \in Calls
    BY <1>0, <2>1
  <2>3. Head(script[c]).worker \in Workers /\ Head(script[c]).job \in Jobs
    BY ONLY <2>1, <2>2 DEF Calls
  <2> QED
    BY <1>0, <2>1, <2>3, SubmitLocalHands
<1> QED
  BY <1>3, <1>4 DEF ClientStep

LEMMA WorkerKeepsHands ==
    ASSUME Types, Steps, NEW w \in Workers, HandKnown(w), WorkerStep(w) \/ ParkSpuriously(w)
    PROVE  HandKnown(w)'
<1>0. /\ pc \in [Procs -> WorkerSteps \cup ClientSteps \cup WakeSteps]
      /\ job \in [Procs -> Jobs \cup {None}] /\ w \in Procs
      /\ call \in [Procs -> CallRecords]
      /\ lifo \in [Workers -> Jobs \cup {None}]
  BY DEF Types, QueueTypes, HandTypes, Steps, Procs
<1>1. CASE \/ Run(w) \/ AnnounceCapped(w) \/ PopInjector(w) \/ LenInjector(w) \/ EnterSearch(w)
           \/ LeaveSearch(w) \/ StealDeque(w) \/ Land(w) \/ Release(w)
  <2>1. job' = job /\ pc[w] \in {"off", "capped_len", "fair_take", "take", "fair_len", "len", "search",
                                 "leave_search", "steal", "steal_deque", "land", "release"}
    BY ONLY <1>1 DEF Run, AnnounceCapped, PopInjector, LenInjector, EnterSearch, LeaveSearch,
         StealDeque, Land, Release, poolVars
  <2>2. job[w] = None
    BY ONLY <2>1, HandKnown(w) DEF HandKnown, At, WakeSteps, OwnerSteps
  <2> QED
    BY ONLY <2>1, <2>2 DEF HandKnown
<1>2. CASE \/ Found(w) \/ NothingFound(w) \/ Idle(w) \/ Announce(w) \/ Look(w) \/ Retract(w)
           \/ Park(w) \/ ParkSpuriously(w) \/ Woken(w) \/ Leave(w)
  <2>1. job' = job /\ pc[w] \in {"found", "steal", "idle", "announce", "look_injector", "look_inbox",
                                 "look_slot", "retract", "retire", "park", "woken", "leave"}
    BY ONLY <1>2 DEF Found, NothingFound, Idle, Announce, Look, Retract, Park, ParkSpuriously, Woken,
         Leave, poolVars
  <2>2. job[w] = None
    BY ONLY <2>1, HandKnown(w) DEF HandKnown, At, WakeSteps, OwnerSteps
  <2> QED
    BY ONLY <2>1, <2>2 DEF HandKnown
<1>3. CASE Unwind(w) \/ PushCapped(w) \/ Keep(w)
  <2>1. job'[w] = None
    BY ONLY <1>0, <1>3 DEF Unwind, PushCapped, Keep, Set
  <2> QED
    BY ONLY <2>1 DEF HandKnown
<1>4. CASE FinishJob(w)
  <2>1. CASE Wakes[job[w]] = None /\ job' = [job EXCEPT ![w] = None]
    BY ONLY <1>0, <2>1 DEF HandKnown
  <2>2. CASE Wakes[job[w]] # None /\ SubmitLocal(w, w, Wakes[job[w]], "slot")
    <3>1. job[w] \in Jobs
      BY <1>4 DEF Steps, InStep, FinishJob, At, WakeSteps, OwnerSteps, Procs
    <3>2. Wakes[job[w]] \in Jobs
      BY <2>2, <3>1, SetupFacts DEF Types, StateTypes
    <3> QED
      BY <1>0, <2>2, <3>2, SubmitLocalHands
  <2> QED
    BY ONLY <1>4, <2>1, <2>2 DEF FinishJob, Set
<1>5. CASE TakeSlot(w) \/ PopInbox(w) \/ PopDeque(w) \/ TakeReadySlot(w)
  <2>1. CASE pc' = [pc EXCEPT ![w] = "run"]
    BY ONLY <1>0, <2>1 DEF HandKnown, At, WakeSteps, OwnerSteps
  <2>2. CASE job' = job
    <3>1. pc[w] \in {"slot", "inbox", "pop", "ready"}
      BY ONLY <1>5 DEF TakeSlot, PopInbox, PopDeque, TakeReadySlot
    <3>2. job[w] = None
      BY ONLY <3>1, HandKnown(w) DEF HandKnown, At, WakeSteps, OwnerSteps
    <3> QED
      BY ONLY <2>2, <3>2 DEF HandKnown
  <2> QED
    BY ONLY <1>5, <2>1, <2>2 DEF TakeSlot, PopInbox, PopDeque, TakeReadySlot, RunNext, Goto
<1>6. CASE TakeCapped(w)
  <2>1. \/ lifo[w] # None /\ pc'[w] = "capped_push"
        \/ job'[w] = None
    BY ONLY <1>0, <1>6 DEF TakeCapped, Set, Goto
  <2> QED
    BY ONLY <2>1 DEF HandKnown
<1>7. CASE PopMine(w)
  <2>1. CASE pc' = [pc EXCEPT ![w] = "run"] \/ pc' = [pc EXCEPT ![w] = "share"]
    BY ONLY <1>0, <2>1 DEF HandKnown, At, WakeSteps, OwnerSteps
  <2>2. CASE job' = job
    <3>1. pc[w] = "mine"
      BY ONLY <1>7 DEF PopMine
    <3>2. job[w] = None
      BY ONLY <3>1, HandKnown(w) DEF HandKnown, At, WakeSteps, OwnerSteps
    <3> QED
      BY ONLY <2>2, <3>2 DEF HandKnown
  <2> QED
    BY ONLY <1>7, <2>1, <2>2 DEF PopMine, Promote, Goto
<1>8. CASE Share(w)
  <2>1. job' = job /\ pc[w] = "share"
    BY ONLY <1>8 DEF Share
  <2>2. CASE pc' = pc
    BY ONLY <2>1, <2>2 DEF HandKnown, At, WakeSteps, OwnerSteps
  <2>3. CASE job[w] = None
    BY ONLY <2>1, <2>3 DEF HandKnown
  <2>4. CASE job[w] # None /\ Goto(w, AfterShare(w))
    <3>1. pc'[w] = "run"
      BY ONLY <1>0, <2>4 DEF Goto, AfterShare
    <3> QED
      BY ONLY <3>1 DEF HandKnown, At, WakeSteps, OwnerSteps
  <2>5. CASE job[w] # None /\ WakeUp(w, taken[w], {w}, None, AfterShare(w))
    <3>1. pc'[w] = "claim" /\ call'[w].back = "run"
      BY ONLY <1>0, <2>5 DEF Goto, AfterShare, WakeUp, Set, NoCall
    <3> QED
      BY ONLY <3>1 DEF HandKnown, At, WakeSteps, OwnerSteps
  <2> QED
    BY ONLY <1>8, <2>1, <2>2, <2>3, <2>4, <2>5 DEF Share
<1>9. CASE StealInbox(w)
  <2>1. CASE pc' = [pc EXCEPT ![w] = "keep"]
    BY ONLY <1>0, <2>1 DEF HandKnown
  <2>2. CASE job' = job
    <3>1. pc[w] = "steal"
      BY ONLY <1>9 DEF StealInbox
    <3>2. job[w] = None
      BY ONLY <3>1, HandKnown(w) DEF HandKnown, At, WakeSteps, OwnerSteps
    <3> QED
      BY ONLY <2>2, <3>2 DEF HandKnown
  <2> QED
    BY ONLY <1>9, <2>1, <2>2 DEF StealInbox, Goto
<1> QED
  BY <1>1, <1>2, <1>3, <1>4, <1>5, <1>6, <1>7, <1>8, <1>9 DEF WorkerStep

\* The others' hands stay as they are.
LEMMA HandsStayKnown ==
    ASSUME Types, Steps, HandsKnown, Next
    PROVE  HandsKnown'
<1>1. CASE DropPool
  <2>1. UNCHANGED <<pc, call, job>>
    BY <1>1 DEF DropPool
  <2> QED
    BY <2>1 DEF HandsKnown, HandKnown, At
<1>2. ASSUME NEW p \in Procs, Moves(p), HandKnown(p)' PROVE HandsKnown'
  <2>1. ASSUME NEW q \in Procs, q # p PROVE HandKnown(q)'
    <3>1. /\ pc \in [Procs -> WorkerSteps \cup ClientSteps \cup WakeSteps]
          /\ call \in [Procs -> CallRecords] /\ job \in [Procs -> Jobs \cup {None}]
      BY DEF Steps, Types, HandTypes
    <3>2. pc' = [pc EXCEPT ![p] = pc'[p]] /\ call' = [call EXCEPT ![p] = call'[p]]
          /\ job' = [job EXCEPT ![p] = job'[p]]
      BY <1>2 DEF Moves
    <3>3. pc'[q] = pc[q] /\ call'[q] = call[q] /\ job'[q] = job[q]
      BY ONLY <3>1, <3>2, <2>1
    <3>4. HandKnown(q)
      BY DEF HandsKnown
    <3> QED
      BY ONLY <3>3, <3>4 DEF HandKnown, At
  <2> QED
    BY <1>2, <2>1 DEF HandsKnown
<1>3. ASSUME NEW p \in Procs, Wake(p) PROVE HandsKnown'
  BY <1>2, <1>3, WakeMoves, WakeKeepsHands DEF HandsKnown
<1>4. ASSUME NEW c \in Clients, ClientStep(c) PROVE HandsKnown'
  BY <1>2, <1>4, ClientMoves, ClientKeepsHands DEF HandsKnown, Procs
<1>5. ASSUME NEW w \in Workers, WorkerStep(w) \/ ParkSpuriously(w) PROVE HandsKnown'
  BY <1>2, <1>5, WorkerMoves, WorkerKeepsHands DEF HandsKnown, Procs
<1> QED
  BY <1>1, <1>3, <1>4, <1>5 DEF Next

LEMMA PutAwayStays ==
    ASSUME Types, Steps, PutAway, Next
    PROVE  PutAway'
<1>0. /\ pc \in [Procs -> WorkerSteps \cup ClientSteps \cup WakeSteps]
      /\ mine \in [Workers -> Seq(Jobs)] /\ Workers \subseteq Procs
  BY DEF Types, HandTypes, Steps, Procs
<1>1. CASE DropPool
  BY <1>1 DEF DropPool, PutAway, workerVars
<1>2. ASSUME NEW p \in Procs, Moves(p),
             p \in Workers /\ pc'[p] \in {"off", "dead"} => mine'[p] = <<>>
      PROVE  PutAway'
  <2>1. \A w \in Workers : w # p => pc'[w] = pc[w] /\ mine'[w] = mine[w]
    <3>1. pc' = [pc EXCEPT ![p] = pc'[p]] /\ \A w \in Workers : w # p => mine'[w] = mine[w]
      BY <1>2 DEF Moves
    <3> QED
      BY ONLY <1>0, <3>1
  <2> QED
    BY ONLY <1>2, <2>1, PutAway DEF PutAway
<1>3. ASSUME NEW p \in Procs, Wake(p) PROVE PutAway'
  <2>1. At(p)' = At(p) /\ pc[p] \in WakeSteps
    BY <1>3, WakeStaysAt DEF Wake, ClaimSleeper, Unpark, ChooseSpill, Displace, WakeOwner,
       WakeSteps, OwnerSteps
  <2>2. call[p].back \in Backs
    <3>1. PICK c \in CallRecords : c = call[p]
      BY DEF Steps
    <3> QED
      BY ONLY <3>1 DEF CallRecords
  <2>3. pc'[p] \notin {"off", "dead"}
    BY ONLY <2>1, <2>2 DEF At, WakeSteps, OwnerSteps, Backs
  <2> QED
    BY <1>2, <1>3, <2>3, WakeMoves
<1>4. ASSUME NEW c \in Clients, ClientStep(c) PROVE PutAway'
  <2>1. c \in Procs /\ c \notin Workers
    BY SetupsAssumption DEF Procs
  <2> QED
    BY <1>2, <1>4, <2>1, ClientMoves
<1>5. ASSUME NEW w \in Workers, WorkerStep(w) \/ ParkSpuriously(w) PROVE PutAway'
  <2> USE DEF Goto
  <2>1. CASE Unwind(w) \/ Leave(w)
    <3>1. mine'[w] = <<>>
      BY ONLY <1>0, <2>1, w \in Workers DEF Unwind, Leave, Set
    <3> QED
      BY <1>0, <1>2, <1>5, <3>1, WorkerMoves
  <2>2. CASE FinishJob(w)
    <3>1. \/ pc' = [pc EXCEPT ![w] = "slot"]
          \/ SubmitLocal(w, w, Wakes[job[w]], "slot")
      BY ONLY <2>2 DEF FinishJob
    <3>2. pc'[w] \notin {"off", "dead"}
      BY ONLY <1>0, <3>1, w \in Workers DEF SubmitLocal, Push, Replace, WakeUp
    <3> QED
      BY <1>0, <1>2, <1>5, <3>2, WorkerMoves
  <2>3. CASE \/ Run(w) \/ TakeSlot(w) \/ TakeCapped(w) \/ PushCapped(w) \/ AnnounceCapped(w)
             \/ PopInjector(w) \/ LenInjector(w) \/ PopMine(w) \/ Share(w)
    <3>1. pc'[w] \notin {"off", "dead"}
      BY ONLY <1>0, <2>3, w \in Workers DEF Run, TakeSlot, TakeCapped, PushCapped, AnnounceCapped,
         PopInjector, LenInjector, PopMine, Share, WakeUp, RunNext, AfterCapped, AfterShare, Promote
    <3> QED
      BY <1>0, <1>2, <1>5, <3>1, WorkerMoves
  <2>4. CASE \/ PopInbox(w) \/ PopDeque(w) \/ EnterSearch(w) \/ LeaveSearch(w)
             \/ StealInbox(w) \/ Keep(w) \/ StealDeque(w) \/ Land(w) \/ Release(w)
    <3>1. pc'[w] \notin {"off", "dead"}
      BY ONLY <1>0, <2>4, w \in Workers DEF PopInbox, PopDeque, EnterSearch, LeaveSearch, StealInbox,
         Keep, StealDeque, StealFrom, Land, Release, WakeUp, Push, RunNext, AfterPop, Sweep
    <3> QED
      BY <1>0, <1>2, <1>5, <3>1, WorkerMoves
  <2>5. CASE \/ Found(w) \/ NothingFound(w) \/ TakeReadySlot(w) \/ Idle(w)
             \/ Announce(w) \/ Look(w) \/ Retract(w) \/ Park(w) \/ ParkSpuriously(w) \/ Woken(w)
    <3>1. pc'[w] \notin {"off", "dead"}
      BY ONLY <1>0, <2>5, w \in Workers DEF Found, NothingFound, TakeReadySlot, Idle, Announce, Look,
         Retract, Park, ParkSpuriously, Woken, RunNext, Sweep
    <3> QED
      BY <1>0, <1>2, <1>5, <3>1, WorkerMoves
  <2> QED
    BY <1>5, <2>1, <2>2, <2>3, <2>4, <2>5 DEF WorkerStep
<1> QED
  BY <1>1, <1>3, <1>4, <1>5 DEF Next

-----------------------------------------------------------------------------
(* Steps that move one job *)

\* Where no job is submitted, run or released, the same jobs are open.
LEMMA FateStays ==
    ASSUME Types, ScriptKnown, Conserved, UNCHANGED <<setup, script, done, released>>
    PROVE  /\ ScriptKnown' /\ Open' = Open
           /\ (done \cap released)' = {} /\ (done \cup released \subseteq Submitted)'
<1>1. ScriptKnown' /\ Submitted' = Submitted
  BY NothingSubmitted
<1> QED
  BY <1>1 DEF Conserved, Open

\* What a place holds are jobs that are open, and none of them is elsewhere.
LEMMA HeldIsOpen ==
    ASSUME Conserved, NEW x \in Places
    PROVE  /\ IsInjective(Held(x)) /\ Has(x) \subseteq Open
           /\ \A y \in Places : y # x => Has(x) \cap Has(y) = {}
BY DEF Conserved

\* One job goes from one place to another.
LEMMA JobMoved ==
    ASSUME Types, ScriptKnown, Conserved, UNCHANGED <<setup, script, done, released>>,
           NEW x \in Places, NEW y \in Places, x # y, Touches({x, y}),
           NEW j \in Has(x),
           IsInjective(Held(x)'), Has(x)' = Has(x) \ {j},
           IsInjective(Held(y)'), Has(y)' = Has(y) \cup {j}
    PROVE  ScriptKnown' /\ Conserved'
<1>1. /\ ScriptKnown' /\ Open' = Open
      /\ (done \cap released)' = {} /\ (done \cup released \subseteq Submitted)'
  BY FateStays
<1>2. Has(x) \cap Has(y) = {}
  BY HeldIsOpen
<1>3. Has(x)' \cap Has(y)' = {} /\ Has(x)' \cup Has(y)' = ((Has(x) \cup Has(y)) \ {}) \cup {}
  BY <1>2
<1>4. Open' = (Open \ {}) \cup {}
  BY <1>1
<1> DEFINE none == {}
<1>5. /\ Has(x)' \cup Has(y)' = ((Has(x) \cup Has(y)) \ none) \cup none
      /\ none \subseteq Has(x) \cup Has(y) /\ none \cap (Open \ (Has(x) \cup Has(y))) = {}
      /\ Open' = (Open \ none) \cup none
  BY <1>3, <1>4
<1> HIDE DEF none
<1>6. Conserved'
  BY <1>1, <1>3, <1>5, Regroup
<1> QED
  BY <1>1, <1>6

\* The ways in which a job leaves a place ...
LEMMA LeavesAtFront ==
    ASSUME Conserved, NEW x \in Places, Held(x) \in Seq(Jobs), Held(x) # <<>>,
           Held(x)' = Tail(Held(x))
    PROVE  /\ Head(Held(x)) \in Has(x) /\ IsInjective(Held(x)')
           /\ Has(x)' = Has(x) \ {Head(Held(x))}
BY HeldIsOpen, TailOnce DEF Has

LEMMA LeavesAtBack ==
    ASSUME Conserved, NEW x \in Places, Held(x) \in Seq(Jobs), Held(x) # <<>>,
           Held(x)' = Front(Held(x))
    PROVE  /\ Last(Held(x)) \in Has(x) /\ IsInjective(Held(x)')
           /\ Has(x)' = Has(x) \ {Last(Held(x))}
BY HeldIsOpen, FrontOnce DEF Has

LEMMA LeavesAlone ==
    ASSUME NEW x \in Places, NEW j \in Jobs, Held(x) = One(j), Held(x)' = One(None)
    PROVE  /\ j \in Has(x) /\ IsInjective(Held(x)') /\ Has(x)' = Has(x) \ {j}
<1>1. j # None
  BY SetupsAssumption
<1>2. ToSet(One(j)) = {j} /\ ToSet(One(None)) = {} /\ IsInjective(One(None))
  BY <1>1, OneHolds
<1> QED
  BY <1>2 DEF Has

\* ... and arrives at one.
LEMMA ArrivesAtBack ==
    ASSUME Conserved, NEW x \in Places, NEW y \in Places, x # y, NEW j \in Has(x), j \in Jobs,
           Held(y) \in Seq(Jobs), Held(y)' = Append(Held(y), j)
    PROVE  IsInjective(Held(y)') /\ Has(y)' = Has(y) \cup {j}
<1>1. IsInjective(Held(y)) /\ j \notin Has(y)
  BY HeldIsOpen
<1> QED
  BY <1>1, AppendOnce DEF Has

LEMMA ArrivesAlone ==
    ASSUME NEW y \in Places, NEW j \in Jobs, Held(y) = One(None), Held(y)' = One(j)
    PROVE  IsInjective(Held(y)') /\ Has(y)' = Has(y) \cup {j}
<1>1. j # None
  BY SetupsAssumption
<1>2. ToSet(One(j)) = {j} /\ ToSet(One(None)) = {} /\ IsInjective(One(j))
  BY <1>1, OneHolds
<1> QED
  BY <1>2 DEF Has

\* A step that moves no job.
LEMMA NothingMoved ==
    ASSUME Types, ScriptKnown, Conserved, UNCHANGED <<setup, script, done, released>>, Touches({})
    PROVE  ScriptKnown' /\ Conserved'
<1>1. /\ ScriptKnown' /\ Open' = Open
      /\ (done \cap released)' = {} /\ (done \cup released \subseteq Submitted)'
  BY FateStays
<1>2. \A x \in Places : Held(x)' = Held(x) /\ Has(x)' = Has(x)
  BY TheRestStays DEF Has
<1>3. /\ \A x \in Places : IsInjective(Held(x))
      /\ \A x, y \in Places : x # y => Has(x) \cap Has(y) = {}
      /\ UNION {Has(x) : x \in Places} = Open
  BY DEF Conserved
<1>4. \A x \in Places : IsInjective(Held(x)')
  BY <1>2, <1>3
<1>5. \A x, y \in Places : x # y => Has(x)' \cap Has(y)' = {}
  BY ONLY <1>2, <1>3
<1>6. UNION {Has(x)' : x \in Places} = Open'
  BY ONLY <1>1, <1>2, <1>3
<1> QED
  BY <1>1, <1>4, <1>5, <1>6 DEF Conserved

\* The types of what is moved.
LEMMA JobTypes ==
    ASSUME Types
    PROVE  /\ injector \in Seq(Jobs) /\ lifo \in [Workers -> Jobs \cup {None}]
           /\ inbox \in [Workers -> Seq(Jobs)] /\ deque \in [Workers -> Seq(Jobs)]
           /\ mine \in [Workers -> Seq(Jobs)] /\ hand \in [Workers -> Seq(Jobs)]
           /\ job \in [Procs -> Jobs \cup {None}] /\ Workers \subseteq Procs /\ Clients \subseteq Procs
           /\ None \notin Jobs
BY SetupsAssumption DEF Types, QueueTypes, HandTypes, Procs

\* From the slot into the hands of the worker.
LEMMA SlotTaken ==
    ASSUME Types, ScriptKnown, Conserved, UNCHANGED <<setup, script, done, released>>,
           NEW w \in Workers, lifo[w] # None, job[w] = None,
           lifo' = [lifo EXCEPT ![w] = None], job' = [job EXCEPT ![w] = lifo[w]],
           UNCHANGED <<injector, inbox, deque, mine, hand>>
    PROVE  ScriptKnown' /\ Conserved'
<1> DEFINE x == <<"lifo", w>>
           y == <<"job", w>>
           j == lifo[w]
<1>1. /\ j \in Jobs /\ w \in Procs /\ lifo'[w] = None /\ job'[w] = j
      /\ \A v \in Workers \ {w} : lifo'[v] = lifo[v]
      /\ \A p \in Procs \ {w} : job'[p] = job[p]
  BY JobTypes
<1>2. /\ x \in Places /\ Held(x) = One(j) /\ Held(x)' = One(None)
      /\ y \in Places /\ Held(y) = One(None) /\ Held(y)' = One(j)
  BY <1>1, HeldByWorker, HeldByThread
<1>3. Touches({x, y})
  BY <1>1 DEF Touches
<1> HIDE DEF j
<1>4. x # y
  OBVIOUS
<1> HIDE DEF x, y
<1>5. j \in Has(x) /\ IsInjective(Held(x)') /\ Has(x)' = Has(x) \ {j}
  BY <1>1, <1>2, LeavesAlone
<1>6. IsInjective(Held(y)') /\ Has(y)' = Has(y) \cup {j}
  BY <1>1, <1>2, ArrivesAlone
<1> QED
  BY <1>2, <1>3, <1>4, <1>5, <1>6, JobMoved

LEMMA TakeSlotConserves ==
    ASSUME Types, Steps, HandsKnown, ScriptKnown, Conserved, NEW w \in Workers,
           TakeSlot(w) \/ TakeCapped(w) \/ TakeReadySlot(w)
    PROVE  ScriptKnown' /\ Conserved'
<1>1. /\ UNCHANGED <<setup, script, done, released>>
      /\ UNCHANGED <<injector, inbox, deque, mine, hand>>
      /\ pc[w] \in {"slot", "capped", "ready"}
  BY DEF TakeSlot, TakeCapped, TakeReadySlot, stateVars, lifeVars, stealVars, fate
<1>2. job[w] = None
  BY <1>1, HandsFree DEF Procs
<1>3. CASE lifo[w] # None /\ lifo' = [lifo EXCEPT ![w] = None] /\ job' = [job EXCEPT ![w] = lifo[w]]
  BY <1>1, <1>2, <1>3, SlotTaken
<1>4. CASE lifo' = lifo /\ job' = job
  <2>1. Touches({})
    BY ONLY <1>1, <1>4 DEF Touches
  <2> QED
    BY <1>1, <2>1, NothingMoved
<1>5. CASE lifo[w] = None /\ lifo' = [lifo EXCEPT ![w] = None] /\ job' = [job EXCEPT ![w] = lifo[w]]
  <2>1. lifo' = lifo /\ job' = job
    BY <1>2, <1>5, JobTypes
  <2> QED
    BY <1>4, <2>1
<1> QED
  BY <1>3, <1>4, <1>5 DEF TakeSlot, TakeCapped, TakeReadySlot, RunNext, Set

\* From the hands of a thread to the end of a queue.
LEMMA JobPutDown ==
    ASSUME Types, ScriptKnown, Conserved, UNCHANGED <<setup, script, done, released>>,
           NEW p \in Procs, job[p] \in Jobs, job' = [job EXCEPT ![p] = None],
           NEW y \in Places, y # <<"job", p>>,
           Held(y) \in Seq(Jobs), Held(y)' = Append(Held(y), job[p]), Touches({<<"job", p>>, y})
    PROVE  ScriptKnown' /\ Conserved'
<1> DEFINE x == <<"job", p>>
           j == job[p]
<1>1. j \in Jobs /\ job'[p] = None
  BY JobTypes
<1>2. x \in Places /\ Held(x) = One(j) /\ Held(x)' = One(None)
  BY <1>1, HeldByThread
<1>3. Touches({x, y}) /\ x # y /\ Held(y)' = Append(Held(y), j)
  OBVIOUS
<1> HIDE DEF x, j
<1>4. j \in Has(x) /\ IsInjective(Held(x)') /\ Has(x)' = Has(x) \ {j}
  BY <1>1, <1>2, LeavesAlone
<1>5. IsInjective(Held(y)') /\ Has(y)' = Has(y) \cup {j}
  BY <1>1, <1>2, <1>3, <1>4, ArrivesAtBack
<1> QED
  BY <1>2, <1>3, <1>4, <1>5, JobMoved

\* From one end of a queue into the hands of a thread.
LEMMA JobPickedUp ==
    ASSUME Types, ScriptKnown, Conserved, UNCHANGED <<setup, script, done, released>>,
           NEW p \in Procs, job[p] = None, NEW j, job' = [job EXCEPT ![p] = j],
           NEW x \in Places, x # <<"job", p>>, Held(x) \in Seq(Jobs), Held(x) # <<>>,
           \/ j = Head(Held(x)) /\ Held(x)' = Tail(Held(x))
           \/ j = Last(Held(x)) /\ Held(x)' = Front(Held(x)),
           Touches({x, <<"job", p>>})
    PROVE  ScriptKnown' /\ Conserved'
<1> DEFINE y == <<"job", p>>
<1>1. j \in Has(x) /\ IsInjective(Held(x)') /\ Has(x)' = Has(x) \ {j}
  BY LeavesAtFront, LeavesAtBack
<1>2. j \in Jobs
  <2>1. Has(x) \subseteq Jobs
    BY DEF Has, ToSet
  <2> QED
    BY <1>1, <2>1
<1>3. job'[p] = j
  BY JobTypes
<1>4. y \in Places /\ Held(y) = One(None) /\ Held(y)' = One(j)
  BY <1>3, HeldByThread
<1>5. Touches({x, y}) /\ x # y
  OBVIOUS
<1> HIDE DEF y
<1>6. IsInjective(Held(y)') /\ Has(y)' = Has(y) \cup {j}
  BY <1>2, <1>4, ArrivesAlone
<1> QED
  BY <1>1, <1>4, <1>5, <1>6, JobMoved

\* From the front of one queue to the end of another.
LEMMA JobPassed ==
    ASSUME Types, ScriptKnown, Conserved, UNCHANGED <<setup, script, done, released>>,
           NEW x \in Places, NEW y \in Places, x # y, Touches({x, y}),
           Held(x) \in Seq(Jobs), Held(x) # <<>>, Held(x)' = Tail(Held(x)),
           Held(y) \in Seq(Jobs), Held(y)' = Append(Held(y), Head(Held(x)))
    PROVE  ScriptKnown' /\ Conserved'
<1>1. PICK j : j = Head(Held(x))
  OBVIOUS
<1>2. j \in Has(x) /\ IsInjective(Held(x)') /\ Has(x)' = Has(x) \ {j}
  BY <1>1, LeavesAtFront
<1>3. j \in Jobs
  BY <1>1
<1>4. IsInjective(Held(y)') /\ Has(y)' = Has(y) \cup {j}
  BY <1>1, <1>2, <1>3, ArrivesAtBack
<1> QED
  BY <1>2, <1>4, JobMoved

\* A thread with a job in its hands puts it into a queue.
LEMMA DisplaceConserves ==
    ASSUME Types, Steps, ScriptKnown, Conserved, NEW p \in Procs, Displace(p)
    PROVE  ScriptKnown' /\ Conserved'
<1>1. /\ UNCHANGED <<setup, script, done, released>> /\ UNCHANGED <<lifo, deque, mine, hand>>
      /\ job' = [job EXCEPT ![p] = None]
      /\ \/ UNCHANGED inbox /\ injector' = Append(injector, job[p])
         \/ UNCHANGED injector /\ inbox' = Add(inbox, call[p].owner, job[p])
  BY DEF Displace, Set, stateVars, lifeVars, workerVars, stealVars, fate
<1>2. job[p] \in Jobs /\ call[p].owner \in Workers
  BY DEF Steps, InStep, OwnerSteps, Displace
<1>3. \A q \in Procs \ {p} : job'[q] = job[q]
  BY <1>1, JobTypes
<1>4. CASE UNCHANGED inbox /\ injector' = Append(injector, job[p])
  <2> DEFINE y == <<"injector", None>>
  <2>1. y \in Places /\ Held(y) \in Seq(Jobs) /\ Held(y)' = Append(Held(y), job[p])
    BY <1>4, JobTypes, HeldOutside
  <2>2. Touches({<<"job", p>>, y})
    BY <1>1, <1>3, <1>4 DEF Touches
  <2>3. y # <<"job", p>>
    OBVIOUS
  <2> HIDE DEF y
  <2> QED
    BY <1>1, <1>2, <2>1, <2>2, <2>3, JobPutDown
<1>5. ASSUME NEW w \in Workers, w = call[p].owner,
             UNCHANGED injector, inbox' = Add(inbox, w, job[p])
      PROVE  ScriptKnown' /\ Conserved'
  <2> DEFINE y == <<"inbox", w>>
  <2>0. inbox'[w] = Append(inbox[w], job[p]) /\ \A v \in Workers \ {w} : inbox'[v] = inbox[v]
    BY <1>5, JobTypes DEF Add
  <2>1. y \in Places /\ Held(y) \in Seq(Jobs) /\ Held(y)' = Append(Held(y), job[p])
    <3>1. y \in Places /\ Held(y) = inbox[w] /\ Held(y)' = inbox'[w]
      BY HeldByWorker
    <3> QED
      BY <2>0, <3>1, JobTypes
  <2>2. Touches({<<"job", p>>, y})
    BY <1>1, <1>3, <1>5, <2>0 DEF Touches
  <2>3. y # <<"job", p>>
    OBVIOUS
  <2> HIDE DEF y
  <2> QED
    BY <1>1, <1>2, <2>1, <2>2, <2>3, JobPutDown
<1> QED
  BY <1>1, <1>2, <1>4, <1>5

LEMMA PushCappedConserves ==
    ASSUME Types, Steps, ScriptKnown, Conserved, NEW w \in Workers, PushCapped(w)
    PROVE  ScriptKnown' /\ Conserved'
<1>1. /\ UNCHANGED <<setup, script, done, released>>
      /\ UNCHANGED <<injector, lifo, deque, mine, hand>>
      /\ job' = [job EXCEPT ![w] = None] /\ inbox' = Add(inbox, w, job[w])
  BY DEF PushCapped, Set, stateVars, lifeVars, workerVars, stealVars, fate
<1>2. job[w] \in Jobs /\ w \in Procs
  BY DEF Steps, InStep, PushCapped, At, WakeSteps, OwnerSteps, Procs
<1>3. /\ \A q \in Procs \ {w} : job'[q] = job[q]
      /\ inbox'[w] = Append(inbox[w], job[w]) /\ \A v \in Workers \ {w} : inbox'[v] = inbox[v]
  BY <1>1, JobTypes DEF Add
<1> DEFINE y == <<"inbox", w>>
<1>4. y \in Places /\ Held(y) \in Seq(Jobs) /\ Held(y)' = Append(Held(y), job[w])
  <2>1. y \in Places /\ Held(y) = inbox[w] /\ Held(y)' = inbox'[w]
    BY HeldByWorker
  <2> QED
    BY <1>3, <2>1, JobTypes
<1>5. Touches({<<"job", w>>, y})
  BY <1>1, <1>3 DEF Touches
<1>6. y # <<"job", w>>
  OBVIOUS
<1> HIDE DEF y
<1> QED
  BY <1>1, <1>2, <1>4, <1>5, <1>6, JobPutDown

LEMMA KeepConserves ==
    ASSUME Types, Steps, ScriptKnown, Conserved, NEW w \in Workers, Keep(w)
    PROVE  ScriptKnown' /\ Conserved'
<1>1. /\ UNCHANGED <<setup, script, done, released>> /\ UNCHANGED <<inbox, lifo, mine, hand>>
      /\ job' = [job EXCEPT ![w] = None]
      /\ \/ UNCHANGED injector /\ deque' = Add(deque, w, job[w])
         \/ UNCHANGED deque /\ injector' = Append(injector, job[w])
  BY DEF Keep, Push, Set, stateVars, lifeVars, workerVars, stealVars, fate
<1>2. job[w] \in Jobs /\ w \in Procs
  BY DEF Steps, InStep, Keep, At, WakeSteps, OwnerSteps, Procs
<1>3. \A q \in Procs \ {w} : job'[q] = job[q]
  BY <1>1, JobTypes
<1>4. CASE UNCHANGED deque /\ injector' = Append(injector, job[w])
  <2> DEFINE y == <<"injector", None>>
  <2>1. y \in Places /\ Held(y) \in Seq(Jobs) /\ Held(y)' = Append(Held(y), job[w])
    BY <1>4, JobTypes, HeldOutside
  <2>2. Touches({<<"job", w>>, y})
    BY <1>1, <1>3, <1>4 DEF Touches
  <2>3. y # <<"job", w>>
    OBVIOUS
  <2> HIDE DEF y
  <2> QED
    BY <1>1, <1>2, <2>1, <2>2, <2>3, JobPutDown
<1>5. CASE UNCHANGED injector /\ deque' = Add(deque, w, job[w])
  <2> DEFINE y == <<"deque", w>>
  <2>0. deque'[w] = Append(deque[w], job[w]) /\ \A v \in Workers \ {w} : deque'[v] = deque[v]
    BY <1>5, JobTypes DEF Add
  <2>1. y \in Places /\ Held(y) \in Seq(Jobs) /\ Held(y)' = Append(Held(y), job[w])
    BY <2>0, JobTypes, HeldByWorker
  <2>2. Touches({<<"job", w>>, y})
    BY <1>1, <1>3, <1>5, <2>0 DEF Touches
  <2>3. y # <<"job", w>>
    OBVIOUS
  <2> HIDE DEF y
  <2> QED
    BY <1>1, <1>2, <2>1, <2>2, <2>3, JobPutDown
<1> QED
  BY <1>1, <1>4, <1>5

\* A worker takes jobs out of a queue: into another queue ...
LEMMA PopInjectorConserves ==
    ASSUME Types, ScriptKnown, Conserved, NEW w \in Workers, PopInjector(w)
    PROVE  ScriptKnown' /\ Conserved'
<1>1. /\ UNCHANGED <<setup, script, done, released>> /\ UNCHANGED <<inbox, deque, lifo, job, hand>>
      /\ \/ injector # <<>> /\ mine' = Add(mine, w, Head(injector)) /\ injector' = Tail(injector)
         \/ UNCHANGED <<mine, injector>>
  BY DEF PopInjector, stateVars, lifeVars, stealVars, fate
<1>2. CASE UNCHANGED <<mine, injector>>
  <2>1. Touches({})
    BY ONLY <1>1, <1>2 DEF Touches
  <2> QED
    BY <1>1, <2>1, NothingMoved
<1>3. CASE injector # <<>> /\ mine' = Add(mine, w, Head(injector)) /\ injector' = Tail(injector)
  <2> DEFINE x == <<"injector", None>>
             y == <<"mine", w>>
  <2>1. mine'[w] = Append(mine[w], Head(injector)) /\ \A v \in Workers \ {w} : mine'[v] = mine[v]
    BY <1>3, JobTypes DEF Add
  <2>2. x \in Places /\ Held(x) = injector /\ Held(x)' = injector'
    BY HeldOutside
  <2>3. y \in Places /\ Held(y) = mine[w] /\ Held(y)' = mine'[w]
    BY HeldByWorker
  <2>4. Touches({x, y})
    BY <1>1, <2>1 DEF Touches
  <2>5. x # y
    OBVIOUS
  <2> HIDE DEF x, y
  <2>6. /\ Held(x) \in Seq(Jobs) /\ Held(x) # <<>> /\ Held(x)' = Tail(Held(x))
        /\ Held(y) \in Seq(Jobs) /\ Held(y)' = Append(Held(y), Head(Held(x)))
    BY <1>3, <2>1, <2>2, <2>3, JobTypes
  <2> QED
    BY <1>1, <2>2, <2>3, <2>4, <2>5, <2>6, JobPassed
<1> QED
  BY <1>1, <1>2, <1>3

LEMMA ShareConserves ==
    ASSUME Types, ScriptKnown, Conserved, NEW w \in Workers, Share(w)
    PROVE  ScriptKnown' /\ Conserved'
<1>1. /\ UNCHANGED <<setup, script, done, released>> /\ UNCHANGED <<injector, inbox, lifo, job, hand>>
      /\ \/ /\ taken[w] < (Len(mine[w]) + taken[w]) \div 2
            /\ deque' = Add(deque, w, Head(mine[w])) /\ mine' = [mine EXCEPT ![w] = Tail(mine[w])]
         \/ UNCHANGED <<mine, deque>>
  BY DEF Share, Set, stateVars, lifeVars, stealVars, fate
<1>2. CASE UNCHANGED <<mine, deque>>
  <2>1. Touches({})
    BY ONLY <1>1, <1>2 DEF Touches
  <2> QED
    BY <1>1, <2>1, NothingMoved
<1>3. CASE /\ taken[w] < (Len(mine[w]) + taken[w]) \div 2
           /\ deque' = Add(deque, w, Head(mine[w])) /\ mine' = [mine EXCEPT ![w] = Tail(mine[w])]
  <2> DEFINE x == <<"mine", w>>
             y == <<"deque", w>>
             n == taken[w]
             m == Len(mine[w])
  <2>0. mine[w] # <<>>
    <3>1. n \in Nat /\ m \in Nat /\ n < (m + n) \div 2
      BY <1>3, JobTypes DEF Types, CountTypes
    <3>2. mine[w] = <<>> => m = 0
      OBVIOUS
    <3> HIDE DEF n, m
    <3>3. m # 0
      BY ONLY <3>1
    <3> QED
      BY ONLY <3>2, <3>3
  <2>1. /\ deque'[w] = Append(deque[w], Head(mine[w])) /\ \A v \in Workers \ {w} : deque'[v] = deque[v]
        /\ mine'[w] = Tail(mine[w]) /\ \A v \in Workers \ {w} : mine'[v] = mine[v]
    BY <1>3, JobTypes DEF Add
  <2>2. x \in Places /\ Held(x) = mine[w] /\ Held(x)' = mine'[w]
    BY HeldByWorker
  <2>3. y \in Places /\ Held(y) = deque[w] /\ Held(y)' = deque'[w]
    BY HeldByWorker
  <2>4. Touches({x, y})
    BY <1>1, <2>1 DEF Touches
  <2>5. x # y
    OBVIOUS
  <2> HIDE DEF x, y
  <2>6. /\ Held(x) \in Seq(Jobs) /\ Held(x) # <<>> /\ Held(x)' = Tail(Held(x))
        /\ Held(y) \in Seq(Jobs) /\ Held(y)' = Append(Held(y), Head(Held(x)))
    BY <2>0, <2>1, <2>2, <2>3, JobTypes
  <2> QED
    BY <1>1, <2>2, <2>3, <2>4, <2>5, <2>6, JobPassed
<1> QED
  BY <1>1, <1>2, <1>3

\* ... or into its hands.
LEMMA InboxTaken ==
    ASSUME Types, ScriptKnown, Conserved, UNCHANGED <<setup, script, done, released>>,
           NEW w \in Workers, NEW v \in Workers, job[w] = None, inbox[v] # <<>>,
           job' = [job EXCEPT ![w] = Head(inbox[v])], inbox' = [inbox EXCEPT ![v] = Tail(inbox[v])],
           UNCHANGED <<injector, lifo, deque, mine, hand>>
    PROVE  ScriptKnown' /\ Conserved'
<1> DEFINE x == <<"inbox", v>>
           j == Head(inbox[v])
<1>1. /\ w \in Procs /\ \A q \in Procs \ {w} : job'[q] = job[q]
      /\ inbox'[v] = Tail(inbox[v]) /\ \A u \in Workers \ {v} : inbox'[u] = inbox[u]
  BY JobTypes
<1>2. x \in Places /\ Held(x) = inbox[v] /\ Held(x)' = inbox'[v]
  BY HeldByWorker
<1>3. Touches({x, <<"job", w>>})
  BY <1>1 DEF Touches
<1>4. x # <<"job", w>>
  OBVIOUS
<1> HIDE DEF x
<1>5. Held(x) \in Seq(Jobs) /\ Held(x) # <<>> /\ j = Head(Held(x)) /\ Held(x)' = Tail(Held(x))
  BY <1>1, <1>2, JobTypes
<1>6. job' = [job EXCEPT ![w] = j]
  OBVIOUS
<1> HIDE DEF j
<1> QED
  BY <1>1, <1>2, <1>3, <1>4, <1>5, <1>6, JobPickedUp

LEMMA PopInboxConserves ==
    ASSUME Types, HandsKnown, ScriptKnown, Conserved, NEW w \in Workers, PopInbox(w)
    PROVE  ScriptKnown' /\ Conserved'
<1>1. /\ UNCHANGED <<setup, script, done, released>> /\ UNCHANGED <<injector, lifo, deque, hand>>
      /\ pc[w] = "inbox"
      /\ \/ /\ inbox[w] # <<>> /\ job' = [job EXCEPT ![w] = Head(inbox[w])]
            /\ inbox' = [inbox EXCEPT ![w] = Tail(inbox[w])] /\ UNCHANGED mine
         \/ /\ inbox[w] # <<>> /\ mine' = Add(mine, w, Head(inbox[w]))
            /\ inbox' = [inbox EXCEPT ![w] = Tail(inbox[w])] /\ UNCHANGED job
         \/ UNCHANGED <<inbox, mine, job>>
  BY DEF PopInbox, RunNext, Set, stateVars, lifeVars, stealVars, fate
<1>2. CASE UNCHANGED <<inbox, mine, job>>
  <2>1. Touches({})
    BY ONLY <1>1, <1>2 DEF Touches
  <2> QED
    BY <1>1, <2>1, NothingMoved
<1>3. CASE /\ inbox[w] # <<>> /\ job' = [job EXCEPT ![w] = Head(inbox[w])]
           /\ inbox' = [inbox EXCEPT ![w] = Tail(inbox[w])] /\ UNCHANGED mine
  <2>1. job[w] = None
    BY <1>1, HandsFree DEF Procs
  <2> QED
    BY <1>1, <1>3, <2>1, InboxTaken
<1>4. CASE /\ inbox[w] # <<>> /\ mine' = Add(mine, w, Head(inbox[w]))
           /\ inbox' = [inbox EXCEPT ![w] = Tail(inbox[w])] /\ UNCHANGED job
  <2> DEFINE x == <<"inbox", w>>
             y == <<"mine", w>>
  <2>1. /\ mine'[w] = Append(mine[w], Head(inbox[w])) /\ \A v \in Workers \ {w} : mine'[v] = mine[v]
        /\ inbox'[w] = Tail(inbox[w]) /\ \A v \in Workers \ {w} : inbox'[v] = inbox[v]
    BY <1>4, JobTypes DEF Add
  <2>2. x \in Places /\ Held(x) = inbox[w] /\ Held(x)' = inbox'[w]
    BY HeldByWorker
  <2>3. y \in Places /\ Held(y) = mine[w] /\ Held(y)' = mine'[w]
    BY HeldByWorker
  <2>4. Touches({x, y})
    BY <1>1, <1>4, <2>1 DEF Touches
  <2>5. x # y
    OBVIOUS
  <2> HIDE DEF x, y
  <2>6. /\ Held(x) \in Seq(Jobs) /\ Held(x) # <<>> /\ Held(x)' = Tail(Held(x))
        /\ Held(y) \in Seq(Jobs) /\ Held(y)' = Append(Held(y), Head(Held(x)))
    BY <1>4, <2>1, <2>2, <2>3, JobTypes
  <2> QED
    BY <1>1, <2>2, <2>3, <2>4, <2>5, <2>6, JobPassed
<1> QED
  BY <1>1, <1>2, <1>3, <1>4

LEMMA StealInboxConserves ==
    ASSUME Types, HandsKnown, ScriptKnown, Conserved, NEW w \in Workers, StealInbox(w)
    PROVE  ScriptKnown' /\ Conserved'
<1>1. /\ UNCHANGED <<setup, script, done, released>> /\ UNCHANGED <<injector, lifo, deque, mine, hand>>
      /\ pc[w] = "steal"
      /\ \E v \in todo[w] :
           \/ /\ inbox[v] # <<>> /\ job' = [job EXCEPT ![w] = Head(inbox[v])]
              /\ inbox' = [inbox EXCEPT ![v] = Tail(inbox[v])]
           \/ UNCHANGED <<inbox, job>>
  BY DEF StealInbox, Set, stateVars, lifeVars, fate
<1>2. todo[w] \subseteq Workers
  BY DEF Types, StealTypes, Procs
<1>3. CASE UNCHANGED <<inbox, job>>
  <2>1. Touches({})
    BY ONLY <1>1, <1>3 DEF Touches
  <2> QED
    BY <1>1, <2>1, NothingMoved
<1>4. ASSUME NEW v \in Workers, inbox[v] # <<>>, job' = [job EXCEPT ![w] = Head(inbox[v])],
             inbox' = [inbox EXCEPT ![v] = Tail(inbox[v])]
      PROVE  ScriptKnown' /\ Conserved'
  <2>1. job[w] = None
    BY <1>1, HandsFree DEF Procs
  <2> QED
    BY <1>1, <1>4, <2>1, InboxTaken
<1> QED
  BY <1>1, <1>2, <1>3, <1>4

LEMMA PopDequeConserves ==
    ASSUME Types, HandsKnown, ScriptKnown, Conserved, NEW w \in Workers, PopDeque(w)
    PROVE  ScriptKnown' /\ Conserved'
<1>1. /\ UNCHANGED <<setup, script, done, released>> /\ UNCHANGED <<injector, inbox, lifo, mine, hand>>
      /\ pc[w] = "pop"
      /\ \/ /\ deque[w] # <<>> /\ job' = [job EXCEPT ![w] = Last(deque[w])]
            /\ deque' = [deque EXCEPT ![w] = Front(deque[w])]
         \/ UNCHANGED <<deque, job>>
  BY DEF PopDeque, RunNext, Set, stateVars, lifeVars, stealVars, fate
<1>2. CASE UNCHANGED <<deque, job>>
  <2>1. Touches({})
    BY ONLY <1>1, <1>2 DEF Touches
  <2> QED
    BY <1>1, <2>1, NothingMoved
<1>3. CASE /\ deque[w] # <<>> /\ job' = [job EXCEPT ![w] = Last(deque[w])]
           /\ deque' = [deque EXCEPT ![w] = Front(deque[w])]
  <2> DEFINE x == <<"deque", w>>
  <2>1. job[w] = None
    BY <1>1, HandsFree DEF Procs
  <2>2. /\ w \in Procs /\ \A q \in Procs \ {w} : job'[q] = job[q]
        /\ deque'[w] = Front(deque[w]) /\ \A v \in Workers \ {w} : deque'[v] = deque[v]
    BY <1>3, JobTypes
  <2>3. x \in Places /\ Held(x) = deque[w] /\ Held(x)' = deque'[w]
    BY HeldByWorker
  <2>4. Touches({x, <<"job", w>>})
    BY <1>1, <2>2 DEF Touches
  <2>5. x # <<"job", w>>
    OBVIOUS
  <2> HIDE DEF x
  <2>6. PICK j : j = Last(Held(x))
    OBVIOUS
  <2>7. /\ Held(x) \in Seq(Jobs) /\ Held(x) # <<>> /\ Held(x)' = Front(Held(x))
        /\ job' = [job EXCEPT ![w] = j]
    BY <1>3, <2>2, <2>3, <2>6, JobTypes
  <2> QED
    BY <1>1, <2>1, <2>2, <2>3, <2>4, <2>5, <2>6, <2>7, JobPickedUp
<1> QED
  BY <1>1, <1>2, <1>3

LEMMA PopMineConserves ==
    ASSUME Types, HandsKnown, ScriptKnown, Conserved, NEW w \in Workers, PopMine(w)
    PROVE  ScriptKnown' /\ Conserved'
<1>1. /\ UNCHANGED <<setup, script, done, released>> /\ UNCHANGED <<injector, inbox, lifo, deque, hand>>
      /\ pc[w] = "mine"
      /\ \/ /\ mine[w] # <<>> /\ job' = [job EXCEPT ![w] = Last(mine[w])]
            /\ mine' = [mine EXCEPT ![w] = Front(mine[w])]
         \/ UNCHANGED <<mine, job>>
  BY DEF PopMine, Set, poolVars, queueVars, stateVars, lifeVars, stealVars, fate
<1>2. CASE UNCHANGED <<mine, job>>
  <2>1. Touches({})
    BY ONLY <1>1, <1>2 DEF Touches
  <2> QED
    BY <1>1, <2>1, NothingMoved
<1>3. CASE /\ mine[w] # <<>> /\ job' = [job EXCEPT ![w] = Last(mine[w])]
           /\ mine' = [mine EXCEPT ![w] = Front(mine[w])]
  <2> DEFINE x == <<"mine", w>>
  <2>1. job[w] = None
    BY <1>1, HandsFree DEF Procs
  <2>2. /\ w \in Procs /\ \A q \in Procs \ {w} : job'[q] = job[q]
        /\ mine'[w] = Front(mine[w]) /\ \A v \in Workers \ {w} : mine'[v] = mine[v]
    BY <1>3, JobTypes
  <2>3. x \in Places /\ Held(x) = mine[w] /\ Held(x)' = mine'[w]
    BY HeldByWorker
  <2>4. Touches({x, <<"job", w>>})
    BY <1>1, <2>2 DEF Touches
  <2>5. x # <<"job", w>>
    OBVIOUS
  <2> HIDE DEF x
  <2>6. PICK j : j = Last(Held(x))
    OBVIOUS
  <2>7. /\ Held(x) \in Seq(Jobs) /\ Held(x) # <<>> /\ Held(x)' = Front(Held(x))
        /\ job' = [job EXCEPT ![w] = j]
    BY <1>3, <2>2, <2>3, <2>6, JobTypes
  <2> QED
    BY <1>1, <2>1, <2>2, <2>3, <2>4, <2>5, <2>6, <2>7, JobPickedUp
<1> QED
  BY <1>1, <1>2, <1>3

-----------------------------------------------------------------------------
(* Steps that move several jobs, and those that move none *)

LEMMA JobsMoved ==
    ASSUME Types, ScriptKnown, Conserved, UNCHANGED <<setup, script, done, released>>,
           NEW x \in Places, NEW y \in Places, x # y, Touches({x, y}),
           IsInjective(Held(x)'), IsInjective(Held(y)'), Has(x)' \cap Has(y)' = {},
           Has(x)' \cup Has(y)' = Has(x) \cup Has(y)
    PROVE  ScriptKnown' /\ Conserved'
<1>1. /\ ScriptKnown' /\ Open' = Open
      /\ (done \cap released)' = {} /\ (done \cup released \subseteq Submitted)'
  BY FateStays
<1> DEFINE none == {}
<1>2. /\ Has(x)' \cup Has(y)' = ((Has(x) \cup Has(y)) \ none) \cup none
      /\ none \subseteq Has(x) \cup Has(y) /\ none \cap (Open \ (Has(x) \cup Has(y))) = {}
      /\ Open' = (Open \ none) \cup none
  BY <1>1
<1> HIDE DEF none
<1>3. Conserved'
  BY <1>1, <1>2, Regroup
<1> QED
  BY <1>1, <1>3

\* A queue is put behind another one.
LEMMA QueueAppended ==
    ASSUME Types, ScriptKnown, Conserved, UNCHANGED <<setup, script, done, released>>,
           NEW x \in Places, NEW y \in Places, x # y, Touches({x, y}),
           Held(x) \in Seq(Jobs), Held(x)' = <<>>,
           Held(y) \in Seq(Jobs), Held(y)' = Held(y) \o Held(x)
    PROVE  ScriptKnown' /\ Conserved'
<1>1. IsInjective(Held(x)) /\ IsInjective(Held(y)) /\ Has(y) \cap Has(x) = {}
  BY HeldIsOpen
<1>2. IsInjective(Held(y)') /\ Has(y)' = Has(y) \cup Has(x)
  BY <1>1, ConcatOnce DEF Has
<1>3. IsInjective(Held(x)') /\ Has(x)' = {}
  <2>1. IsInjective(<<>>) /\ ToSet(<<>>) = {}
    BY DEF IsInjective, ToSet
  <2> QED
    BY <2>1 DEF Has
<1> QED
  BY <1>2, <1>3, JobsMoved

LEMMA LandConserves ==
    ASSUME Types, ScriptKnown, Conserved, NEW w \in Workers, Land(w)
    PROVE  ScriptKnown' /\ Conserved'
<1>1. /\ UNCHANGED <<setup, script, done, released>> /\ UNCHANGED <<injector, inbox, lifo, job, mine>>
      /\ deque' = [deque EXCEPT ![w] = deque[w] \o hand[w]] /\ hand' = [hand EXCEPT ![w] = <<>>]
  BY DEF Land, Set, stateVars, lifeVars, fate
<1> DEFINE x == <<"hand", w>>
           y == <<"deque", w>>
<1>2. /\ deque'[w] = deque[w] \o hand[w] /\ \A v \in Workers \ {w} : deque'[v] = deque[v]
      /\ hand'[w] = <<>> /\ \A v \in Workers \ {w} : hand'[v] = hand[v]
  BY <1>1, JobTypes
<1>3. x \in Places /\ Held(x) = hand[w] /\ Held(x)' = hand'[w]
  BY HeldByWorker
<1>4. y \in Places /\ Held(y) = deque[w] /\ Held(y)' = deque'[w]
  BY HeldByWorker
<1>5. Touches({x, y})
  BY <1>1, <1>2 DEF Touches
<1>6. x # y
  OBVIOUS
<1> HIDE DEF x, y
<1>7. Held(x) \in Seq(Jobs) /\ Held(x)' = <<>> /\ Held(y) \in Seq(Jobs) /\ Held(y)' = Held(y) \o Held(x)
  BY <1>2, <1>3, <1>4, JobTypes
<1> QED
  BY <1>1, <1>3, <1>4, <1>5, <1>6, <1>7, QueueAppended

LEMMA LeaveConserves ==
    ASSUME Types, ScriptKnown, Conserved, NEW w \in Workers, Leave(w)
    PROVE  ScriptKnown' /\ Conserved'
<1>1. /\ UNCHANGED <<setup, script, done, released>> /\ UNCHANGED <<deque, inbox, lifo, job, hand>>
      /\ injector' = injector \o mine[w] /\ mine' = [mine EXCEPT ![w] = <<>>]
  BY DEF Leave, Set, stealVars, fate
<1> DEFINE x == <<"mine", w>>
           y == <<"injector", None>>
<1>2. mine'[w] = <<>> /\ \A v \in Workers \ {w} : mine'[v] = mine[v]
  BY <1>1, JobTypes
<1>3. x \in Places /\ Held(x) = mine[w] /\ Held(x)' = mine'[w]
  BY HeldByWorker
<1>4. y \in Places /\ Held(y) = injector /\ Held(y)' = injector'
  BY HeldOutside
<1>5. Touches({x, y})
  BY <1>1, <1>2 DEF Touches
<1>6. x # y
  OBVIOUS
<1> HIDE DEF x, y
<1>7. Held(x) \in Seq(Jobs) /\ Held(x)' = <<>> /\ Held(y) \in Seq(Jobs) /\ Held(y)' = Held(y) \o Held(x)
  BY <1>1, <1>2, <1>3, <1>4, JobTypes
<1> QED
  BY <1>1, <1>3, <1>4, <1>5, <1>6, <1>7, QueueAppended

\* The oldest jobs of a deque go into the hands of the thief.
LEMMA StealConserves ==
    ASSUME Types, RoomKept, ScriptKnown, Conserved, NEW w \in Workers, StealDeque(w)
    PROVE  ScriptKnown' /\ Conserved'
<1>1. /\ UNCHANGED <<setup, script, done, released>> /\ UNCHANGED <<injector, inbox, lifo, job, mine>>
      /\ pc[w] \in {"steal", "steal_deque"} /\ \E v \in Workers : StealFrom(w, v)
  <2>1. todo[w] \subseteq Workers /\ victim[w] \in Workers
    BY DEF Types, StealTypes, Procs
  <2> QED
    BY <2>1 DEF StealDeque, stateVars, lifeVars, fate
<1>2. PICK v \in Workers : StealFrom(w, v)
  BY <1>1
<1> DEFINE n == Len(deque[v])
           k == Least(Room(w), (Least(n, PullBatch) + 1) \div 2)
<1>3. \/ UNCHANGED <<hand, deque>>
      \/ /\ k > 0 /\ hand' = [hand EXCEPT ![w] = SubSeq(deque[v], 1, k)]
         /\ deque' = [deque EXCEPT ![v] = Rest(deque[v], k)]
  BY ONLY <1>2 DEF StealFrom, Set
<1>4. CASE UNCHANGED <<hand, deque>>
  <2>1. Touches({})
    BY ONLY <1>1, <1>4 DEF Touches
  <2> QED
    BY <1>1, <2>1, NothingMoved
<1>5. CASE /\ k > 0 /\ hand' = [hand EXCEPT ![w] = SubSeq(deque[v], 1, k)]
           /\ deque' = [deque EXCEPT ![v] = Rest(deque[v], k)]
  <2>1. k \in 0 .. Len(deque[v])
    <3>1. Len(deque[w]) \in Nat /\ n \in Nat /\ stolen[w] \in Nat /\ DequeCapacity \in Nat
      BY JobTypes, SetupFacts, LenProperties DEF Types, QueueTypes, StateTypes
    <3>2. Room(w) \in Int /\ PullBatch \in Nat
      BY <3>1, SetupsAssumption DEF Room
    <3>3. k \in Int /\ k <= n
      BY ONLY <3>1, <3>2, StealCount
    <3> HIDE DEF n, k
    <3>4. k \in 0 .. n
      BY ONLY <1>5, <3>1, <3>3
    <3> QED
      BY <3>4 DEF n
  <2> HIDE DEF n, k
  <2> DEFINE x == <<"deque", v>>
             y == <<"hand", w>>
  <2>2. hand[w] = <<>>
    BY <1>1 DEF RoomKept
  <2>3. /\ hand'[w] = SubSeq(deque[v], 1, k) /\ \A u \in Workers \ {w} : hand'[u] = hand[u]
        /\ deque'[v] = Rest(deque[v], k) /\ \A u \in Workers \ {v} : deque'[u] = deque[u]
    BY <1>5, JobTypes
  <2>4. x \in Places /\ Held(x) = deque[v] /\ Held(x)' = deque'[v]
    BY HeldByWorker
  <2>5. y \in Places /\ Held(y) = hand[w] /\ Held(y)' = hand'[w]
    BY HeldByWorker
  <2>6. Touches({x, y})
    BY <1>1, <2>3 DEF Touches
  <2>7. x # y
    OBVIOUS
  <2> HIDE DEF x, y
  <2>8. IsInjective(deque[v]) /\ deque[v] \in Seq(Jobs)
    BY <2>4, HeldIsOpen, JobTypes
  <2>9. /\ ToSet(hand'[w]) \cup ToSet(deque'[v]) = ToSet(deque[v])
        /\ ToSet(hand'[w]) \cap ToSet(deque'[v]) = {}
        /\ IsInjective(hand'[w]) /\ IsInjective(deque'[v])
    BY <2>1, <2>3, <2>8, SplitOnce
  <2>10. ToSet(hand[w]) = {}
    BY <2>2 DEF ToSet
  <2>11. /\ IsInjective(Held(x)') /\ IsInjective(Held(y)') /\ Has(x)' \cap Has(y)' = {}
         /\ Has(x)' \cup Has(y)' = Has(x) \cup Has(y)
    BY <2>4, <2>5, <2>9, <2>10 DEF Has
  <2> QED
    BY <1>1, <2>4, <2>5, <2>6, <2>7, <2>11, JobsMoved
<1> QED
  BY <1>3, <1>4, <1>5

\* Wakes, looks, parking and the like move no job.
LEMMA QuietConserves ==
    ASSUME Types, ScriptKnown, Conserved, NEW p \in Procs,
           \/ ClaimSleeper(p) \/ Unpark(p) \/ ChooseSpill(p) \/ WakeOwner(p) \/ UnparkAll(p)
           \/ Run(p) \/ AnnounceCapped(p) \/ LenInjector(p) \/ EnterSearch(p) \/ LeaveSearch(p)
           \/ Release(p) \/ Found(p) \/ NothingFound(p) \/ Idle(p) \/ Announce(p) \/ Look(p)
           \/ Retract(p) \/ Park(p) \/ ParkSpuriously(p) \/ Woken(p)
    PROVE  ScriptKnown' /\ Conserved'
<1> USE DEF queueVars, poolVars, stateVars, lifeVars, workerVars, stealVars, countVars, fate
<1>1. CASE ClaimSleeper(p) \/ Unpark(p) \/ ChooseSpill(p) \/ WakeOwner(p) \/ UnparkAll(p)
  <2>1. UNCHANGED <<setup, script, done, released>> /\ UNCHANGED <<injector, inbox, lifo, deque, mine, hand, job>>
    BY ONLY <1>1 DEF ClaimSleeper, Unpark, ChooseSpill, WakeOwner, UnparkAll
  <2> QED
    BY <2>1, NothingMoved DEF Touches
<1>2. CASE \/ Run(p) \/ AnnounceCapped(p) \/ LenInjector(p) \/ EnterSearch(p) \/ LeaveSearch(p)
           \/ Release(p) \/ Found(p)
  <2>1. UNCHANGED <<setup, script, done, released>> /\ UNCHANGED <<injector, inbox, lifo, deque, mine, hand, job>>
    BY ONLY <1>2 DEF Run, AnnounceCapped, LenInjector, EnterSearch, LeaveSearch, Release, Found
  <2> QED
    BY <2>1, NothingMoved DEF Touches
<1>3. CASE \/ NothingFound(p) \/ Idle(p) \/ Announce(p) \/ Look(p) \/ Retract(p) \/ Park(p)
           \/ ParkSpuriously(p) \/ Woken(p)
  <2>1. UNCHANGED <<setup, script, done, released>> /\ UNCHANGED <<injector, inbox, lifo, deque, mine, hand, job>>
    BY ONLY <1>3 DEF NothingFound, Idle, Announce, Look, Retract, Park, ParkSpuriously, Woken
  <2> QED
    BY <2>1, NothingMoved DEF Touches
<1> QED
  BY <1>1, <1>2, <1>3

-----------------------------------------------------------------------------
(* Steps at which jobs come and go *)

\* A job is handed to worker w, to the injector or to the slot; what p held is gone.
LEMMA JobHanded ==
    ASSUME Types, Conserved, NEW p \in Procs, NEW w \in Workers, NEW j \in Jobs,
           \/ /\ injector' = Append(injector, j) /\ lifo' = lifo
              /\ job' = [job EXCEPT ![p] = None]
           \/ /\ injector' = injector /\ lifo' = [lifo EXCEPT ![w] = j]
              /\ job' = [job EXCEPT ![p] = lifo[w]],
           UNCHANGED <<inbox, deque, mine, hand>>,
           Open' = (Open \ Has(<<"job", p>>)) \cup {j}, j \notin Open \ Has(<<"job", p>>),
           (done \cap released)' = {}, (done \cup released \subseteq Submitted)'
    PROVE  Conserved'
<1> DEFINE y == <<"job", p>>
           new == {j}
<1>1. y \in Places /\ Held(y) = One(job[p]) /\ Held(y)' = One(job'[p])
  BY HeldByThread
<1>2. \A q \in Procs \ {p} : job'[q] = job[q]
  BY JobTypes
<1>3. j # None
  BY SetupsAssumption
<1>4. /\ Open' = (Open \ Has(y)) \cup new /\ j \notin Open \ Has(y) /\ j \in new /\ new = {j}
      /\ (done \cap released)' = {} /\ (done \cup released \subseteq Submitted)'
  OBVIOUS
<1>5. CASE /\ injector' = Append(injector, j) /\ lifo' = lifo /\ job' = [job EXCEPT ![p] = None]
  <2> DEFINE x == <<"injector", None>>
  <2>1. x \in Places /\ Held(x) = injector /\ Held(x)' = injector' /\ injector \in Seq(Jobs)
    BY HeldOutside, JobTypes
  <2>2. Touches({x, y})
    BY <1>2, <1>5 DEF Touches
  <2>3. x # y
    OBVIOUS
  <2>4. job'[p] = None
    BY <1>5, JobTypes
  <2> HIDE DEF x, y, new
  <2>5. IsInjective(Held(y)') /\ Has(y)' = {}
    BY <1>1, <2>4, OneHolds DEF Has
  <2>6. IsInjective(Held(x)) /\ Has(x) \subseteq Open /\ Has(x) \cap Has(y) = {}
    BY <1>1, <2>1, <2>3, HeldIsOpen
  <2>7. j \notin Has(x)
    BY <1>4, <2>6
  <2>8. IsInjective(Held(x)') /\ Has(x)' = Has(x) \cup {j}
    BY <1>5, <2>1, <2>6, <2>7, AppendOnce DEF Has
  <2>9. /\ Has(x)' \cap Has(y)' = {}
        /\ Has(x)' \cup Has(y)' = ((Has(x) \cup Has(y)) \ Has(y)) \cup new
        /\ Has(y) \subseteq Has(x) \cup Has(y)
        /\ new \cap (Open \ (Has(x) \cup Has(y))) = {}
    BY <1>4, <2>5, <2>6, <2>8
  <2> QED
    BY <1>1, <1>4, <2>1, <2>2, <2>3, <2>5, <2>8, <2>9, Regroup
<1>6. CASE /\ injector' = injector /\ lifo' = [lifo EXCEPT ![w] = j] /\ job' = [job EXCEPT ![p] = lifo[w]]
  <2> DEFINE x == <<"lifo", w>>
  <2>1. x \in Places /\ Held(x) = One(lifo[w]) /\ Held(x)' = One(lifo'[w])
    BY HeldByWorker
  <2>2. /\ lifo'[w] = j /\ job'[p] = lifo[w] /\ lifo[w] \in Jobs \cup {None}
        /\ \A v \in Workers \ {w} : lifo'[v] = lifo[v]
    BY <1>6, JobTypes
  <2>3. Touches({x, y})
    BY <1>2, <1>6, <2>2 DEF Touches
  <2>4. x # y
    OBVIOUS
  <2> HIDE DEF x, y, new
  <2>5. Has(x) = {lifo[w]} \ {None}
    BY <2>1, <2>2, OneHolds DEF Has
  <2>6. IsInjective(Held(y)') /\ Has(y)' = {lifo[w]} \ {None}
    BY <1>1, <2>2, OneHolds DEF Has
  <2>7. IsInjective(Held(x)') /\ Has(x)' = {j}
    BY <1>3, <2>1, <2>2, OneHolds DEF Has
  <2>8. Has(x) \subseteq Open /\ Has(x) \cap Has(y) = {}
    BY <1>1, <2>1, <2>4, HeldIsOpen
  <2>9. j \notin Has(x)
    BY <1>4, <2>8
  <2>10. /\ Has(x)' \cap Has(y)' = {}
         /\ Has(x)' \cup Has(y)' = ((Has(x) \cup Has(y)) \ Has(y)) \cup new
         /\ Has(y) \subseteq Has(x) \cup Has(y)
         /\ new \cap (Open \ (Has(x) \cup Has(y))) = {}
    BY <1>4, <2>5, <2>6, <2>7, <2>8, <2>9
  <2> QED
    BY <1>1, <1>4, <2>1, <2>3, <2>4, <2>6, <2>7, <2>10, Regroup
<1> QED
  BY <1>5, <1>6

\* A client's call brings a new job.
LEMMA CallConserves ==
    ASSUME Types, Steps, HandsKnown, ScriptKnown, Conserved, NEW c \in Clients,
           Submit(c) \/ SubmitToWorker(c) \/ ShutDown(c)
    PROVE  ScriptKnown' /\ Conserved'
<1> DEFINE j == Head(script[c]).job
<1>0. /\ pc[c] = "idle" /\ script[c] # <<>> /\ script' = [script EXCEPT ![c] = Tail(script[c])]
      /\ UNCHANGED <<setup, done, released>> /\ UNCHANGED <<inbox, deque, mine, hand>>
  BY DEF Submit, SubmitToWorker, ShutDown, Set, queueVars, stateVars, lifeVars, workerVars, stealVars, fate
<1>1. /\ ScriptKnown' /\ Submitted' = Submitted \cup ({j} \ {None})
      /\ j \in Jobs => j \notin Submitted
  BY <1>0, CallSubmits
<1>2. c \in Procs /\ job[c] = None
  BY <1>0, HandsFree DEF Procs
<1>3. /\ (done \cap released)' = {} /\ (done \cup released \subseteq Submitted)'
      /\ done \cap released = {} /\ done \cup released \subseteq Submitted
  BY <1>0, <1>1 DEF Conserved
<1>4. Head(script[c]) \in Calls
  BY <1>0 DEF Types, StealTypes
<1>5. CASE ShutDown(c)
  <2>1. j = None
    BY ONLY <1>4, <1>5 DEF ShutDown, Calls
  <2>2. Open' = Open
    BY <1>0, <1>1, <2>1 DEF Open
  <2>3. UNCHANGED <<injector, lifo, job>>
    BY <1>5 DEF ShutDown, queueVars
  <2>4. \A x \in Places : Held(x)' = Held(x) /\ Has(x)' = Has(x)
    <3>1. Touches({})
      BY ONLY <1>0, <2>3 DEF Touches
    <3> QED
      BY <3>1, TheRestStays DEF Has
  <2>5. /\ \A x \in Places : IsInjective(Held(x))
        /\ \A x, y \in Places : x # y => Has(x) \cap Has(y) = {}
        /\ UNION {Has(x) : x \in Places} = Open
    BY DEF Conserved
  <2>6. \A x \in Places : IsInjective(Held(x)')
    BY <2>4, <2>5
  <2>7. \A x, y \in Places : x # y => Has(x)' \cap Has(y)' = {}
    BY ONLY <2>4, <2>5
  <2>8. UNION {Has(x)' : x \in Places} = Open'
    BY ONLY <2>2, <2>4, <2>5
  <2> QED
    BY <1>1, <1>3, <2>6, <2>7, <2>8 DEF Conserved
<1>6. CASE Submit(c) \/ SubmitToWorker(c)
  <2>1. j \in Jobs /\ (SubmitToWorker(c) => Head(script[c]).worker \in Workers)
    BY ONLY <1>4, <1>6 DEF Submit, SubmitToWorker, Calls
  <2>2. Has(<<"job", c>>) = {}
    <3>1. Held(<<"job", c>>) = One(None)
      BY <1>2, HeldByThread
    <3>2. ToSet(One(None)) = {}
      BY OneHolds
    <3> QED
      BY ONLY <3>1, <3>2 DEF Has
  <2>3. j # None
    BY <2>1, SetupsAssumption
  <2> HIDE DEF j
  <2>4. Open' = Open \cup {j} /\ j \notin Open
    BY ONLY <1>0, <1>1, <1>3, <2>1, <2>3 DEF Open
  <2>5. Open' = (Open \ Has(<<"job", c>>)) \cup {j} /\ j \notin Open \ Has(<<"job", c>>)
    BY ONLY <2>2, <2>4
  <2>6. \E w \in Workers :
           \/ /\ injector' = Append(injector, j) /\ lifo' = lifo
              /\ job' = [job EXCEPT ![c] = None]
           \/ /\ injector' = injector /\ lifo' = [lifo EXCEPT ![w] = j]
              /\ job' = [job EXCEPT ![c] = lifo[w]]
    <3>1. CASE Submit(c)
      <4>1. injector' = Append(injector, j) /\ lifo' = lifo /\ job' = job
        BY <3>1 DEF Submit, Push, j
      <4>2. job' = [job EXCEPT ![c] = None]
        BY <1>2, <4>1, JobTypes
      <4>3. Workers # {}
        BY SetupsAssumption
      <4> QED
        BY ONLY <4>1, <4>2, <4>3
    <3>2. CASE SubmitToWorker(c)
      <4>1. SubmitLocal(c, Head(script[c]).worker, j, "idle") /\ Head(script[c]).worker \in Workers
        BY <2>1, <3>2 DEF SubmitToWorker, j
      <4> QED
        BY ONLY <4>1 DEF SubmitLocal, Push, Replace, Set
    <3> QED
      BY <1>6, <3>1, <3>2
  <2>7. Conserved'
    BY <1>0, <1>2, <1>3, <2>1, <2>5, <2>6, JobHanded
  <2> QED
    BY <1>1, <2>7
<1> QED
  BY <1>5, <1>6

\* A job that runs to its end is done, and hands its worker at most one new one.
LEMMA FinishConserves ==
    ASSUME Types, Steps, ScriptKnown, Conserved, NEW w \in Workers, FinishJob(w)
    PROVE  ScriptKnown' /\ Conserved'
<1> DEFINE j == job[w]
           k == Wakes[job[w]]
           y == <<"job", w>>
<1>0. /\ UNCHANGED <<setup, script, released>> /\ UNCHANGED <<inbox, deque, mine, hand>>
      /\ pc[w] = "run" /\ j \notin Panicking
      /\ done' = IF k = j THEN done ELSE done \cup {j}
      /\ \/ /\ k = None /\ job' = [job EXCEPT ![w] = None] /\ UNCHANGED <<injector, lifo>>
         \/ k # None /\ SubmitLocal(w, w, k, "slot")
  BY DEF FinishJob, Set, stateVars, lifeVars, workerVars, stealVars
<1>1. j \in Jobs /\ w \in Procs /\ None \notin Jobs
  BY <1>0, JobTypes DEF Steps, InStep, At, WakeSteps, OwnerSteps, Procs
<1>2. k \in Jobs \cup {None}
  BY <1>1, SetupFacts DEF Types, StateTypes
<1>3. Has(y) = {j} /\ y \in Places
  <2>1. y \in Places /\ Held(y) = One(j)
    BY <1>1, HeldByThread
  <2>2. ToSet(One(j)) = {j}
    BY <1>1, OneHolds
  <2> QED
    BY <2>1, <2>2 DEF Has
<1>4. /\ j \in Submitted /\ j \notin done /\ j \notin released
      /\ done \cap released = {} /\ done \cup released \subseteq Submitted
  BY <1>3, HeldIsOpen DEF Conserved, Open
<1>5. CASE k = j
  <2>1. done' = done
    BY <1>0, <1>5
  <2>2. ScriptKnown' /\ Open' = Open
        /\ (done \cap released)' = {} /\ (done \cup released \subseteq Submitted)'
    BY <1>0, <2>1, FateStays
  <2>3. j \in Open
    BY <1>4 DEF Open
  <2>4. SubmitLocal(w, w, j, "slot")
    BY <1>0, <1>1, <1>5
  <2> HIDE DEF j, y
  <2>5. Open' = (Open \ Has(y)) \cup {j} /\ j \notin Open \ Has(y)
    BY <1>3, <2>2, <2>3
  <2>6. \/ /\ injector' = Append(injector, j) /\ lifo' = lifo
           /\ job' = [job EXCEPT ![w] = None]
        \/ /\ injector' = injector /\ lifo' = [lifo EXCEPT ![w] = j]
           /\ job' = [job EXCEPT ![w] = lifo[w]]
    BY ONLY <2>4 DEF SubmitLocal, Push, Replace, Set
  <2>7. Conserved'
    BY <1>0, <1>1, <2>2, <2>5, <2>6, JobHanded DEF y
  <2> QED
    BY <2>2, <2>7
<1>6. CASE k # j
  <2>1. done' = done \cup {j}
    BY <1>0, <1>6
  <2>2. /\ ScriptKnown' /\ Submitted' = Submitted \cup ({k} \ {None})
        /\ k # None => k \in Jobs /\ k \notin Submitted
    BY <1>0, <1>1, <1>4, <1>6, <2>1, FinishSubmits
  <2> HIDE DEF j, k
  <2>3. (done \cap released)' = {}
    BY ONLY <1>0, <1>4, <2>1
  <2>4. (done \cup released \subseteq Submitted)'
    BY ONLY <1>0, <1>4, <2>1, <2>2
  <2>5. CASE k = None
    <3> DEFINE x == <<"injector", None>>
               none == {}
    <3>1. job' = [job EXCEPT ![w] = None] /\ UNCHANGED <<injector, lifo>>
      BY <1>0, <2>5
    <3>2. job'[w] = None /\ \A q \in Procs \ {w} : job'[q] = job[q]
      BY <1>1, <3>1, JobTypes
    <3>3. x \in Places /\ Held(x)' = Held(x)
      BY <3>1, HeldOutside
    <3>4. Held(y)' = One(None)
      BY <1>1, <3>2, HeldByThread
    <3>5. Touches({x, y})
      BY <1>0, <3>1, <3>2 DEF Touches
    <3>6. x # y
      OBVIOUS
    <3> HIDE DEF x, y, none
    <3>7. IsInjective(Held(y)') /\ Has(y)' = {}
      BY <3>4, OneHolds DEF Has
    <3>8. IsInjective(Held(x)') /\ Has(x)' = Has(x) /\ Has(x) \cap Has(y) = {}
      BY <1>3, <3>3, <3>6, HeldIsOpen DEF Has
    <3>9. Submitted' = Submitted
      BY ONLY <2>2, <2>5
    <3>10. Open' = (Open \ Has(y)) \cup none
      BY ONLY <1>0, <1>3, <2>1, <3>9 DEF Open, none
    <3>11. /\ Has(x)' \cap Has(y)' = {}
           /\ Has(x)' \cup Has(y)' = ((Has(x) \cup Has(y)) \ Has(y)) \cup none
           /\ Has(y) \subseteq Has(x) \cup Has(y)
           /\ none \cap (Open \ (Has(x) \cup Has(y))) = {}
      BY ONLY <3>7, <3>8 DEF none
    <3>12. Conserved'
      BY <1>3, <2>3, <2>4, <3>3, <3>5, <3>6, <3>7, <3>8, <3>10, <3>11, Regroup
    <3> QED
      BY <2>2, <3>12
  <2>6. CASE k # None
    <3>1. k \in Jobs /\ k \notin Submitted /\ Submitted' = Submitted \cup {k}
      BY ONLY <2>2, <2>6
    <3>2. Open' = (Open \ {j}) \cup {k} /\ k \notin Open
      BY ONLY <1>0, <1>4, <2>1, <3>1 DEF Open
    <3> HIDE DEF y
    <3>3. Open' = (Open \ Has(y)) \cup {k} /\ k \notin Open \ Has(y)
      BY ONLY <1>3, <3>2
    <3>4. SubmitLocal(w, w, k, "slot")
      BY <1>0, <2>6
    <3>5. \/ /\ injector' = Append(injector, k) /\ lifo' = lifo
             /\ job' = [job EXCEPT ![w] = None]
          \/ /\ injector' = injector /\ lifo' = [lifo EXCEPT ![w] = k]
             /\ job' = [job EXCEPT ![w] = lifo[w]]
      BY ONLY <3>4 DEF SubmitLocal, Push, Replace, Set
    <3>6. Conserved'
      BY <1>0, <1>1, <2>3, <2>4, <3>1, <3>3, <3>5, JobHanded DEF y
    <3> QED
      BY <2>2, <3>6
  <2> QED
    BY <2>5, <2>6
<1> QED
  BY <1>5, <1>6

\* A job that panics is done, and the private queue of its worker is released.
LEMMA UnwindConserves ==
    ASSUME Types, Steps, ScriptKnown, Conserved, NEW w \in Workers, Unwind(w)
    PROVE  ScriptKnown' /\ Conserved'
<1> DEFINE j == job[w]
           y == <<"job", w>>
           x == <<"mine", w>>
           none == {}
<1>0. /\ UNCHANGED <<setup, script>> /\ UNCHANGED <<injector, lifo, inbox, deque, hand>>
      /\ pc[w] = "run" /\ j \in Panicking
      /\ done' = done \cup {j} /\ released' = released \cup ToSet(mine[w])
      /\ job' = [job EXCEPT ![w] = None] /\ mine' = [mine EXCEPT ![w] = <<>>]
  BY DEF Unwind, ReleaseJobs, Set, poolVars, queueVars, stateVars, lifeVars, stealVars
<1>1. j \in Jobs /\ w \in Procs /\ None \notin Jobs
  BY <1>0, JobTypes DEF Steps, InStep, At, WakeSteps, OwnerSteps, Procs
<1>2. /\ job'[w] = None /\ \A q \in Procs \ {w} : job'[q] = job[q]
      /\ mine'[w] = <<>> /\ \A v \in Workers \ {w} : mine'[v] = mine[v]
  BY <1>0, <1>1, JobTypes
<1>3. y \in Places /\ Held(y) = One(j) /\ Held(y)' = One(None)
  BY <1>1, <1>2, HeldByThread
<1>4. x \in Places /\ Held(x) = mine[w] /\ Held(x)' = <<>>
  BY <1>2, HeldByWorker
<1>5. Touches({x, y})
  BY <1>0, <1>2 DEF Touches
<1>6. x # y
  OBVIOUS
<1>7. ToSet(One(j)) = {j} /\ ToSet(One(None)) = {} /\ ToSet(<<>>) = {}
      /\ IsInjective(One(None)) /\ IsInjective(<<>>)
  <2>1. ToSet(<<>>) = {} /\ IsInjective(<<>>)
    BY DEF ToSet, IsInjective
  <2> QED
    BY <1>1, <2>1, OneHolds
<1>8. Submitted' = Submitted /\ ScriptKnown'
  BY <1>0, NothingSubmitted
<1> HIDE DEF j, x, y, none
<1>9. /\ IsInjective(Held(y)') /\ Has(y)' = {} /\ Has(y) = {j}
      /\ IsInjective(Held(x)') /\ Has(x)' = {} /\ Has(x) = ToSet(mine[w])
  BY <1>3, <1>4, <1>7 DEF Has
<1>10. Has(x) \subseteq Open /\ Has(y) \subseteq Open /\ Has(x) \cap Has(y) = {}
  BY <1>3, <1>4, <1>6, HeldIsOpen
<1>11. done \cap released = {} /\ done \cup released \subseteq Submitted
  BY DEF Conserved
<1>12. done' = done \cup Has(y) /\ released' = released \cup Has(x)
  BY ONLY <1>0, <1>9
<1>13. Open' = (Open \ (Has(x) \cup Has(y))) \cup none
  BY ONLY <1>8, <1>12 DEF Open, none
<1>14. (done \cap released)' = {} /\ (done \cup released \subseteq Submitted)'
  BY ONLY <1>8, <1>10, <1>11, <1>12 DEF Open
<1>15. /\ Has(x)' \cap Has(y)' = {}
       /\ Has(x)' \cup Has(y)' = ((Has(x) \cup Has(y)) \ (Has(x) \cup Has(y))) \cup none
       /\ none \cap (Open \ (Has(x) \cup Has(y))) = {}
  BY ONLY <1>9 DEF none
<1>16. Conserved'
  BY <1>3, <1>4, <1>5, <1>6, <1>9, <1>13, <1>14, <1>15, Regroup
<1> QED
  BY <1>8, <1>16

\* The drop of the pool finds every open job in a queue or a slot, and releases it.
LEMMA DropConserves ==
    ASSUME Types, RoomKept, HandsKnown, PutAway, ScriptKnown, Conserved, DropPool
    PROVE  ScriptKnown' /\ Conserved'
<1> DEFINE freed == ToSet(injector) \cup (ToSet(lifo) \ {None})
                      \cup UNION {ToSet(inbox[w]) \cup ToSet(deque[w]) : w \in Workers}
<1>0. /\ UNCHANGED <<setup, script, done>> /\ UNCHANGED <<job, mine, hand>>
      /\ \A w \in Workers : pc[w] \in {"off", "dead"}
      /\ \A c \in Clients : pc[c] = "idle"
      /\ released' = released \cup freed
      /\ injector' = <<>> /\ inbox' = [w \in Workers |-> <<>>] /\ deque' = inbox'
      /\ lifo' = [w \in Workers |-> None]
  BY DEF DropPool, ReleaseJobs, stateVars, lifeVars, workerVars, stealVars
<1>1. \A p \in Procs : job[p] = None
  BY <1>0, HandsFree DEF Procs
<1>2. \A w \in Workers : mine[w] = <<>> /\ hand[w] = <<>>
  BY <1>0 DEF PutAway, RoomKept
<1>3. One(None) = <<>> /\ ToSet(<<>>) = {} /\ IsInjective(<<>>)
  BY DEF One, ToSet, IsInjective
<1>4. ASSUME NEW x \in Places PROVE Held(x)' = <<>>
  <2>1. CASE x = <<"injector", None>>
    BY <1>0, <2>1, HeldOutside
  <2>2. ASSUME NEW w \in Workers, x \in {<<"inbox", w>>, <<"deque", w>>, <<"mine", w>>,
                                         <<"hand", w>>, <<"lifo", w>>}
        PROVE  Held(x)' = <<>>
    <3>1. inbox'[w] = <<>> /\ deque'[w] = <<>> /\ mine'[w] = <<>> /\ hand'[w] = <<>> /\ lifo'[w] = None
      BY <1>0, <1>2
    <3> QED
      BY <1>3, <2>2, <3>1, HeldByWorker
  <2>3. ASSUME NEW p \in Procs, x = <<"job", p>> PROVE Held(x)' = <<>>
    BY <1>0, <1>1, <1>3, <2>3, HeldByThread
  <2> QED
    BY <2>1, <2>2, <2>3, PlaceKinds
<1>5. ASSUME NEW x \in Places PROVE Has(x) \subseteq freed
  <2>1. CASE x = <<"injector", None>>
    BY <2>1, HeldOutside DEF Has
  <2>2. ASSUME NEW w \in Workers PROVE /\ ToSet(inbox[w]) \subseteq freed /\ ToSet(deque[w]) \subseteq freed
                                       /\ {lifo[w]} \ {None} \subseteq freed
    <3>1. lifo[w] \in ToSet(lifo)
      BY JobTypes DEF ToSet
    <3> QED
      BY <3>1
  <2>3. ASSUME NEW w \in Workers, x \in {<<"inbox", w>>, <<"deque", w>>, <<"mine", w>>,
                                         <<"hand", w>>, <<"lifo", w>>}
        PROVE  Has(x) \subseteq freed
    <3>1. ToSet(One(lifo[w])) = {lifo[w]} \ {None}
      BY JobTypes, OneHolds
    <3>2. Held(x) \in {inbox[w], deque[w], <<>>, One(lifo[w])}
      BY <1>2, <2>3, HeldByWorker
    <3> HIDE DEF freed
    <3> QED
      BY <1>3, <2>2, <3>1, <3>2 DEF Has
  <2>4. ASSUME NEW p \in Procs, x = <<"job", p>> PROVE Has(x) \subseteq freed
    <3>1. Held(x) = <<>>
      BY <1>1, <1>3, <2>4, HeldByThread
    <3> QED
      BY ONLY <1>3, <3>1 DEF Has
  <2> QED
    BY <2>1, <2>3, <2>4, PlaceKinds
<1>6. freed \subseteq Open
  <2>1. \A x \in Places : Has(x) \subseteq Open
    BY HeldIsOpen
  <2>2. ToSet(injector) \subseteq Open
    BY <2>1, HeldOutside DEF Has
  <2>3. ASSUME NEW w \in Workers PROVE /\ ToSet(inbox[w]) \subseteq Open /\ ToSet(deque[w]) \subseteq Open
                                       /\ {lifo[w]} \ {None} \subseteq Open
    <3>1. ToSet(One(lifo[w])) = {lifo[w]} \ {None}
      BY JobTypes, OneHolds
    <3>2. Has(<<"inbox", w>>) = ToSet(inbox[w]) /\ Has(<<"deque", w>>) = ToSet(deque[w])
          /\ Has(<<"lifo", w>>) = ToSet(One(lifo[w]))
      BY HeldByWorker DEF Has
    <3>3. Has(<<"inbox", w>>) \subseteq Open /\ Has(<<"deque", w>>) \subseteq Open
          /\ Has(<<"lifo", w>>) \subseteq Open
      BY <2>1, HeldByWorker
    <3> QED
      BY ONLY <3>1, <3>2, <3>3
  <2>4. ToSet(lifo) \ {None} \subseteq Open
    <3>1. \A e \in ToSet(lifo) : \E w \in Workers : e = lifo[w]
      BY JobTypes DEF ToSet
    <3> QED
      BY ONLY <2>3, <3>1
  <2>5. UNION {ToSet(inbox[w]) \cup ToSet(deque[w]) : w \in Workers} \subseteq Open
    BY ONLY <2>3
  <2> QED
    BY ONLY <2>2, <2>4, <2>5
<1> HIDE DEF freed
<1>7. freed = Open
  <2>1. Open = UNION {Has(x) : x \in Places}
    BY DEF Conserved
  <2> QED
    BY ONLY <1>5, <1>6, <2>1
<1>8. Submitted' = Submitted /\ ScriptKnown'
  BY <1>0, NothingSubmitted
<1>9. done \cap released = {} /\ done \cup released \subseteq Submitted
  BY DEF Conserved
<1>10. Open' = {}
  BY ONLY <1>0, <1>7, <1>8 DEF Open
<1>11. (done \cap released)' = {} /\ (done \cup released \subseteq Submitted)'
  BY ONLY <1>0, <1>7, <1>8, <1>9 DEF Open
<1>12. \A x \in Places : IsInjective(Held(x)') /\ Has(x)' = {}
  BY <1>3, <1>4 DEF Has
<1>13. UNION {Has(x)' : x \in Places} = {}
  BY ONLY <1>12
<1>14. \A x, y \in Places : x # y => Has(x)' \cap Has(y)' = {}
  BY ONLY <1>12
<1>15. Conserved'
  BY <1>10, <1>11, <1>12, <1>13, <1>14 DEF Conserved
<1> QED
  BY <1>8, <1>15

-----------------------------------------------------------------------------
(* Every step *)

\* A step of a worker moves its jobs.
LEMMA WorkerConserves ==
    ASSUME Types, Steps, RoomKept, HandsKnown, ScriptKnown, Conserved,
           NEW w \in Workers, WorkerStep(w) \/ ParkSpuriously(w)
    PROVE  ScriptKnown' /\ Conserved'
<1>0. w \in Procs
  BY DEF Procs
<1>1. CASE TakeSlot(w) \/ TakeCapped(w) \/ TakeReadySlot(w)
  BY <1>1, TakeSlotConserves
<1>2. CASE PushCapped(w)
  BY <1>2, PushCappedConserves
<1>3. CASE PopInjector(w)
  BY <1>3, PopInjectorConserves
<1>4. CASE PopMine(w)
  BY <1>4, PopMineConserves
<1>5. CASE Share(w)
  BY <1>5, ShareConserves
<1>6. CASE PopInbox(w)
  BY <1>6, PopInboxConserves
<1>7. CASE PopDeque(w)
  BY <1>7, PopDequeConserves
<1>8. CASE StealInbox(w)
  BY <1>8, StealInboxConserves
<1>9. CASE Keep(w)
  BY <1>9, KeepConserves
<1>10. CASE StealDeque(w)
  BY <1>10, StealConserves
<1>11. CASE Land(w)
  BY <1>11, LandConserves
<1>12. CASE Leave(w)
  BY <1>12, LeaveConserves
<1>13. CASE FinishJob(w)
  BY <1>13, FinishConserves
<1>14. CASE Unwind(w)
  BY <1>14, UnwindConserves
<1>15. CASE \/ Run(w) \/ AnnounceCapped(w) \/ LenInjector(w) \/ EnterSearch(w) \/ LeaveSearch(w)
            \/ Release(w) \/ Found(w) \/ NothingFound(w) \/ Idle(w) \/ Announce(w) \/ Look(w)
            \/ Retract(w) \/ Park(w) \/ ParkSpuriously(w) \/ Woken(w)
  BY <1>0, <1>15, QuietConserves
<1> QED
  BY <1>1, <1>2, <1>3, <1>4, <1>5, <1>6, <1>7, <1>8, <1>9, <1>10, <1>11, <1>12, <1>13, <1>14,
     <1>15 DEF WorkerStep

\* No step loses a job or makes one twice.
LEMMA NextConserves ==
    ASSUME Types, Steps, RoomKept, HandsKnown, PutAway, ScriptKnown, Conserved, Next
    PROVE  ScriptKnown' /\ Conserved'
<1>1. CASE DropPool
  BY <1>1, DropConserves
<1>2. ASSUME NEW w \in Workers, WorkerStep(w) \/ ParkSpuriously(w)
      PROVE  ScriptKnown' /\ Conserved'
  BY <1>2, WorkerConserves
<1>3. ASSUME NEW c \in Clients, ClientStep(c)
      PROVE  ScriptKnown' /\ Conserved'
  <2>1. c \in Procs
    BY DEF Procs
  <2>2. CASE UnparkAll(c)
    BY <2>1, <2>2, QuietConserves
  <2>3. CASE Submit(c) \/ SubmitToWorker(c) \/ ShutDown(c)
    BY <2>3, CallConserves
  <2> QED
    BY <1>3, <2>2, <2>3 DEF ClientStep
<1>4. ASSUME NEW p \in Procs, Wake(p)
      PROVE  ScriptKnown' /\ Conserved'
  <2>1. CASE Displace(p)
    BY <2>1, DisplaceConserves
  <2>2. CASE ClaimSleeper(p) \/ Unpark(p) \/ ChooseSpill(p) \/ WakeOwner(p)
    BY <2>2, QuietConserves
  <2> QED
    BY <1>4, <2>1, <2>2 DEF Wake
<1> QED
  BY <1>1, <1>2, <1>3, <1>4 DEF Next

\* What the conservation of jobs needs beyond IInv.
JobInv == HandsKnown /\ PutAway /\ ScriptKnown /\ Conserved

\* At first only the injector holds jobs, those of the backlog.
LEMMA InitConserves == Init => JobInv
<1> SUFFICES ASSUME Init PROVE JobInv
  OBVIOUS
<1>1. /\ setup \in Setups /\ injector = setup.backlog /\ script = Script
      /\ \A w \in Workers : /\ inbox[w] = <<>> /\ deque[w] = <<>> /\ mine[w] = <<>>
                            /\ hand[w] = <<>> /\ lifo[w] = None
      /\ \A p \in Procs : job[p] = None
      /\ done = {} /\ released = {}
  BY DEF Init
<1>2. setup.backlog \in Seq(Jobs) /\ Script \in [Clients -> Seq(Calls)] /\ None \notin Jobs
  BY <1>1, SetupsAssumption DEF Script
<1>3. HandsKnown /\ PutAway
  BY ONLY <1>1 DEF HandsKnown, HandKnown, PutAway
<1>4. \A c \in Clients : Made[c] = 0 /\ Called[c] = {}
  <2> SUFFICES ASSUME NEW c \in Clients PROVE Made[c] = 0 /\ Called[c] = {}
    OBVIOUS
  <2>1. Script[c] \in Seq(Calls) /\ script[c] = Script[c]
    BY <1>1, <1>2
  <2>2. Len(Script[c]) \in Nat
    BY <2>1, LenProperties
  <2>3. Made[c] = 0
    BY <2>1, <2>2 DEF Made
  <2>4. 1 .. Made[c] = {}
    BY <2>3
  <2> QED
    BY <2>3, <2>4 DEF Called
<1>5. ScriptKnown
  <2>1. ASSUME NEW c \in Clients
        PROVE  /\ Made[c] \in Nat
               /\ \A i \in 1 .. Len(script[c]) : script[c][i] = Script[c][Made[c] + i]
    BY <1>1, <1>4
  <2> QED
    BY <1>1, <2>1 DEF ScriptKnown
<1>6. Submitted = ToSet(injector) /\ Open = ToSet(injector)
  <2>1. AllCalled = {}
    BY <1>4, CalledByOne
  <2>2. HandedOn = {}
    BY <1>1 DEF HandedOn
  <2>3. None \notin ToSet(injector)
    BY <1>1, <1>2 DEF ToSet
  <2>4. Submitted = ToSet(injector)
    BY <1>1, <2>1, <2>2, <2>3, SubmittedIs
  <2> QED
    BY ONLY <1>1, <2>4 DEF Open
<1>7. IsInjective(injector)
  <2>1. ASSUME NEW a \in DOMAIN injector, NEW b \in DOMAIN injector, injector[a] = injector[b]
        PROVE  a = b
    <3>1. injector[a] \in Jobs
      BY <1>1, <1>2
    <3> QED
      BY <1>1, <2>1, <3>1, OneOrigin
  <2> QED
    BY <2>1 DEF IsInjective
<1> DEFINE x == <<"injector", None>>
<1>8. x \in Places /\ Held(x) = injector /\ Has(x) = ToSet(injector)
  BY HeldOutside DEF Has
<1>9. ASSUME NEW y \in Places, y # x PROVE Held(y) = <<>> /\ Has(y) = {}
  <2>1. Held(y) = <<>>
    <3>1. ASSUME NEW w \in Workers, y \in {<<"inbox", w>>, <<"deque", w>>, <<"mine", w>>,
                                           <<"hand", w>>, <<"lifo", w>>}
          PROVE  Held(y) = <<>>
      BY <1>1, <3>1, HeldByWorker DEF One
    <3>2. ASSUME NEW p \in Procs, y = <<"job", p>> PROVE Held(y) = <<>>
      BY <1>1, <3>2, HeldByThread DEF One
    <3> QED
      BY <1>9, <3>1, <3>2, PlaceKinds
  <2> QED
    BY <2>1 DEF Has, ToSet
<1> HIDE DEF x
<1>10. \A y \in Places : IsInjective(Held(y))
  <2>1. IsInjective(<<>>)
    BY DEF IsInjective
  <2> QED
    BY <1>7, <1>8, <1>9, <2>1
<1>11. \A y, z \in Places : y # z => Has(y) \cap Has(z) = {}
  BY ONLY <1>9
<1>12. UNION {Has(y) : y \in Places} = Open
  BY ONLY <1>6, <1>8, <1>9
<1>13. done \cap released = {} /\ done \cup released \subseteq Submitted
  BY <1>1
<1>14. Conserved
  BY <1>10, <1>11, <1>12, <1>13 DEF Conserved
<1> QED
  BY <1>3, <1>5, <1>14 DEF JobInv

\* Every step keeps it.
LEMMA JobInvKept == IInv /\ JobInv /\ [Next]_vars => JobInv'
<1>1. ASSUME IInv, JobInv, Next PROVE JobInv'
  <2>1. /\ Types /\ Steps /\ RoomKept
        /\ HandsKnown /\ PutAway /\ ScriptKnown /\ Conserved
    BY <1>1 DEF IInv, JobInv
  <2>2. HandsKnown'
    BY <1>1, <2>1, HandsStayKnown
  <2>3. PutAway'
    BY <1>1, <2>1, PutAwayStays
  <2>4. ScriptKnown' /\ Conserved'
    BY <1>1, <2>1, NextConserves
  <2> QED
    BY <2>2, <2>3, <2>4 DEF JobInv
<1>2. ASSUME IInv, JobInv, UNCHANGED vars PROVE JobInv'
  <2>1. /\ UNCHANGED <<setup, script, done, released, pc, call, job, mine>>
        /\ UNCHANGED <<injector, inbox, lifo, deque, hand>>
    BY <1>2 DEF vars, poolVars, queueVars, stateVars, lifeVars, workerVars, stealVars, fate
  <2>2. Types /\ HandsKnown /\ PutAway /\ ScriptKnown /\ Conserved
    BY <1>2 DEF IInv, JobInv
  <2>3. HandsKnown' /\ PutAway'
    BY <2>1, <2>2 DEF HandsKnown, HandKnown, PutAway, At
  <2>4. Touches({})
    BY ONLY <2>1 DEF Touches
  <2>5. ScriptKnown' /\ Conserved'
    BY <2>1, <2>2, <2>4, NothingMoved
  <2> QED
    BY <2>3, <2>5 DEF JobInv
<1> QED
  BY <1>1, <1>2

\* Apart and each without repetition, the places hold every open job in one spot.
LEMMA JobsFollow == Conserved => JobsConserved
<1> SUFFICES ASSUME Conserved PROVE JobsConserved
  OBVIOUS
<1>1. \A s \in Spots : s[1] \in Places /\ s[2] \in DOMAIN Held(s[1]) /\ s = <<s[1], s[2]>>
  BY DEF Spots
<1>2. \A x \in Places : \A i \in DOMAIN Held(x) : <<x, i>> \in Spots
  BY DEF Spots
<1>3. \A s \in Spots : JobAt(s) \in Has(s[1])
  BY <1>1 DEF JobAt, Has, ToSet
<1>4. \A s, t \in Spots : JobAt(s) = JobAt(t) => s = t
  <2> SUFFICES ASSUME NEW s \in Spots, NEW t \in Spots, JobAt(s) = JobAt(t) PROVE s = t
    OBVIOUS
  <2>1. s[1] = t[1]
    BY <1>1, <1>3 DEF Conserved
  <2>2. IsInjective(Held(s[1]))
    BY <1>1 DEF Conserved
  <2>3. s[2] = t[2]
    BY <1>1, <2>1, <2>2 DEF IsInjective, JobAt
  <2> QED
    BY ONLY <1>1, <2>1, <2>3
<1> DEFINE spotted == {JobAt(s) : s \in Spots}
<1>5. Open = UNION {Has(x) : x \in Places}
  BY DEF Conserved
<1>6. ASSUME NEW j \in spotted PROVE j \in Open
  <2>1. PICK s \in Spots : j = JobAt(s)
    OBVIOUS
  <2>2. s[1] \in Places /\ j \in Has(s[1])
    BY <1>1, <1>3, <2>1
  <2> QED
    BY ONLY <1>5, <2>2
<1>7. ASSUME NEW j \in Open PROVE j \in spotted
  <2>1. PICK x \in Places : j \in Has(x)
    BY ONLY <1>5, <1>7
  <2>2. PICK i \in DOMAIN Held(x) : j = Held(x)[i]
    BY <2>1 DEF Has, ToSet
  <2>3. <<x, i>> \in Spots /\ JobAt(<<x, i>>) = j
    BY <1>2, <2>2 DEF JobAt
  <2> QED
    BY ONLY <2>3
<1>8. spotted = Open
  BY <1>6, <1>7
<1> QED
  BY <1>4, <1>8 DEF JobsConserved, Conserved

\* "Every task runs exactly once": a job that was submitted and has not run is in exactly
\* one place, wherever it is stolen, displaced, shared or handed back, and is released at
\* most once, by the drop of the pool or by the panic of another (submit_local,
\* Stealer::steal_and_pop, share_mine, LocalCleanup::drop, Pool::drop, Job::drop).
THEOREM JobsAreConserved == Spec => []JobsConserved
<1>1. Spec => []JobInv
  BY Invariance, InitConserves, JobInvKept, PTL DEF Spec
<1>2. JobInv => JobsConserved
  BY JobsFollow DEF JobInv
<1> QED
  BY <1>1, <1>2, PTL
=============================================================================
