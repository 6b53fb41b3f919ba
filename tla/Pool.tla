-------------------------------- MODULE Pool --------------------------------
(***************************************************************************)
(* The work-stealing pool of src/fanout/mod.rs: workers that look for jobs *)
(* in their slot, private queue, inbox, deque, in each other's deques and  *)
(* in the injector, and park when they find none; clients that submit jobs *)
(* and wake them.                                                          *)
(*                                                                         *)
(* One action is one access to shared state.  The parts the pool is built  *)
(* from appear by their contracts: a deque as in StealDeques, the injector *)
(* and the inboxes as linearizable FIFO queues, the host as HostContract.  *)
(* Memory is sequentially consistent: the code orders the accesses that    *)
(* matter with SeqCst operations and fences.                               *)
(***************************************************************************)
EXTENDS Integers, Sequences, FiniteSets, SequencesExt

CONSTANTS
    Workers, Clients,   \* the threads in Pool::run, and the others
    Jobs,
    Setups,         \* the pools and workloads considered, see SetupsAssumption
    PullBatch,      \* PULL_BATCH
    MaxRuns,        \* bound: how often a thread calls `run` for a worker
    None

(* A setup is a Tuning, the capacity of the deques, and what is done with  *)
(* the pool: script[c] holds the calls client c makes, in order, wakes[j]  *)
(* the job that j hands to its own worker when it runs, or None; the jobs  *)
(* in blocking never return, those in panicking unwind.  The backlog was   *)
(* submitted before any worker was run.  The numbers are at least what     *)
(* with_tuning asserts.                                                    *)
Calls ==
    [op : {"submit"}, job : Jobs, worker : Workers \cup {None}]
      \cup [op : {"submit_local"}, job : Jobs, worker : Workers]
      \cup [op : {"shut_down"}, job : {None}, worker : {None}]

(* Who submits j: a Job is moved into the pool, so nobody does it twice.   *)
(* (A job that wakes itself only comes back.)                              *)
Origins(s, j) ==
    {<<"backlog", None, k>> : k \in {k \in DOMAIN s.backlog : s.backlog[k] = j}}
      \cup {<<"wake", i, 0>> : i \in {i \in Jobs \ {j} : s.wakes[i] = j}}
      \cup UNION {{<<"call", c, k>> : k \in {k \in DOMAIN s.script[c] : s.script[c][k].job = j}}
                  : c \in Clients}

ASSUME SetupsAssumption ==
    /\ Workers # {} /\ IsFiniteSet(Workers) /\ Workers \cap Clients = {}
    /\ None \notin Jobs \cup Workers
    /\ PullBatch \in Nat \ {0} /\ MaxRuns \in Nat
    /\ \A s \in Setups :
        /\ {s.local_wakes, s.stealable_inbox, s.share_displaced} \subseteq BOOLEAN
        /\ {s.injector_batch, s.lifo_run_limit, s.promote_every, s.capacity} \subseteq Nat \ {0}
        /\ s.rounds_before_park \in Nat
        /\ s.wakes \in [Jobs -> Jobs \cup {None}]
        /\ s.blocking \subseteq Jobs /\ s.panicking \subseteq Jobs
        /\ s.backlog \in Seq(Jobs)
        /\ s.script \in [Clients -> Seq(Calls)]
        /\ \A j \in Jobs : \A a, b \in Origins(s, j) : a = b

Procs == Workers \cup Clients
N == Cardinality(Workers)

VARIABLES
    injector,   \* jobs from outside, oldest first
    inbox,      \* inbox[w]: jobs w was handed and its slot could not keep
    lifo,       \* lifo[w]: the slot, a job or None
    deque,      \* deque[w]: the sharing deque, oldest first
    stolen,     \* stolen[w]: slots of w's deque a steal in progress still holds
    sleeping,   \* the bitmap, as a set
    searching,  \* number of workers hunting
    running,    \* the pool has not been shut down
    permit,     \* the workers with an unpark permit (host)
    home,       \* home[w]: the deque lies in Local::queue, nobody runs w
    runs,       \* runs[w]: how often w has been run
    setup,      \* the pool's tuning and workload, chosen once

    pc,         \* pc[p]: the step p takes next
    job,        \* job[p]: the job p is about to run or to pass on, or None
    call,       \* call[p]: the wake-up in progress, a record
    script,     \* script[c]: the calls c has yet to make
    mine,       \* mine[w]: the private queue
    hand,       \* hand[w]: jobs taken by the steal in progress
    todo,       \* todo[p]: victims still to try, or workers still to unpark
    victim,     \* victim[w]: the victim of the steal in progress
    parking,    \* parking[w]: steal_once is called by prepare_to_park
    boundary,   \* boundary[w]: slot_budget_exhausted
    taken,      \* taken[w]: jobs moved by the loop w is in
    lifo_run, spins, until_promote,     \* locals of `run`
    done,       \* jobs that have run to their end
    released,   \* jobs dropped without having run
    gone        \* the pool has been dropped

lifeVars   == <<running, home, runs, setup>>
stateVars  == <<sleeping, searching, permit, lifeVars>>
queueVars  == <<injector, inbox, lifo, deque, stolen>>
poolVars   == <<queueVars, stateVars>>
stealVars  == <<hand, todo, victim, parking>>
countVars  == <<boundary, taken, lifo_run, spins, until_promote>>
workerVars == <<mine, stealVars, countVars>>
fate       == <<done, released, gone>>
vars       == <<poolVars, pc, job, call, script, workerVars, fate>>

\* The fields of the pool's Tuning that the workers and clients read.
LocalWakes       == setup.local_wakes
StealableInbox   == setup.stealable_inbox
ShareDisplaced   == setup.share_displaced
InjectorBatch    == setup.injector_batch
LifoRunLimit     == setup.lifo_run_limit
PromoteEvery     == setup.promote_every
RoundsBeforePark == setup.rounds_before_park
DequeCapacity    == setup.capacity
Script           == setup.script
Wakes            == setup.wakes
Blocking         == setup.blocking
Panicking        == setup.panicking

\* A displaced job may be spilled: see ChooseSpill.
Spilling == ShareDisplaced /\ ~ StealableInbox

NoCall == [left |-> 0, spare |-> {}, hint |-> None, owner |-> None, target |-> None, back |-> "idle"]

Init ==
    /\ setup \in Setups
    /\ injector = setup.backlog
    /\ inbox = [w \in Workers |-> <<>>] /\ deque = inbox /\ mine = inbox /\ hand = inbox
    /\ lifo = [w \in Workers |-> None]
    /\ stolen = [w \in Workers |-> 0]
    /\ sleeping = {} /\ searching = 0 /\ running = TRUE /\ permit = {}
    /\ home = [w \in Workers |-> TRUE]
    /\ runs = [w \in Workers |-> 0]
    /\ pc = [p \in Procs |-> IF p \in Workers THEN "off" ELSE "idle"]
    /\ job = [p \in Procs |-> None]
    /\ call = [p \in Procs |-> NoCall]
    /\ script = Script
    /\ todo = [p \in Procs |-> {}]
    /\ victim = [w \in Workers |-> w]
    /\ parking = [w \in Workers |-> FALSE]
    /\ boundary = parking
    /\ taken = [w \in Workers |-> 0] /\ lifo_run = taken /\ spins = taken
    /\ until_promote = [w \in Workers |-> PromoteEvery]
    /\ done = {} /\ released = {} /\ gone = FALSE

Goto(p, step) == pc' = [pc EXCEPT ![p] = step]
Set(f, p, v) == [f EXCEPT ![p] = v]
Least(m, n) == IF m < n THEN m ELSE n
Add(f, p, j) == [f EXCEPT ![p] = Append(@, j)]

-----------------------------------------------------------------------------
(* wake, nudge_many, claim_sleeper, wake_specific *)

\* Begin to wake n sleepers outside `spare`, and return to the step `back`.
WakeUp(p, n, spare, hint, back) ==
    /\ call' = Set(call, p, [NoCall EXCEPT !.left = n, !.spare = spare, !.hint = hint, !.back = back])
    /\ Goto(p, "claim")

(* claim_sleeper takes a sleeper's bit.  Which one is open: the lowest bit *)
(* of a load that may be older than the successful fetch_and.  Without a   *)
(* sleeper, `wake` falls back on its hint.                                 *)
ClaimSleeper(p) ==
    /\ pc[p] = "claim"
    /\ LET c == call[p] IN
       \/ \E w \in sleeping \ c.spare :
            /\ sleeping' = sleeping \ {w}
            /\ call' = Set(call, p, [c EXCEPT !.left = @ - 1, !.target = w])
            /\ Goto(p, "unpark")
       \/ /\ sleeping \subseteq c.spare
          /\ UNCHANGED sleeping
          /\ \/ /\ c.hint # None
                /\ call' = Set(call, p, [c EXCEPT !.left = 0, !.target = c.hint])
                /\ Goto(p, "unpark")
             \/ /\ c.hint = None
                /\ call' = Set(call, p, NoCall)
                /\ Goto(p, c.back)
    /\ UNCHANGED <<queueVars, searching, permit, lifeVars, job, script, workerVars, fate>>

\* Mutant: the unpark is forgotten.
MutGrant(w) == UNCHANGED permit

\* Host::unpark.
Grant(w) == permit' = permit \cup {w}

Unpark(p) ==
    /\ pc[p] = "unpark"
    /\ LET c == call[p] IN
       /\ Grant(c.target)
       /\ IF c.left > 0
          THEN /\ call' = Set(call, p, [c EXCEPT !.target = None])
               /\ Goto(p, "claim")
          ELSE /\ call' = Set(call, p, NoCall)
               /\ Goto(p, c.back)
    /\ UNCHANGED <<queueVars, sleeping, searching, lifeVars, job, script, workerVars, fate>>

-----------------------------------------------------------------------------
(* submit (also submit_fn, submit_job) and submit_local *)

\* push: the job goes to the injector, then somebody is woken.
Push(p, j, hint, back) ==
    /\ injector' = Append(injector, j)
    /\ WakeUp(p, 1, {}, hint, back)

\* The slot takes the new job; the old one is in hand.
Replace(p, w, j, back) ==
    /\ lifo' = Set(lifo, w, j)
    /\ job' = Set(job, p, lifo[w])
    /\ call' = Set(call, p, [NoCall EXCEPT !.owner = w, !.back = back])
    /\ Goto(p, CASE lifo[w] = None              -> "wake_owner"
                 [] lifo[w] # None /\ Spilling -> "displace"
                 [] OTHER                       -> "put_inbox")

SubmitLocal(p, w, j, back) ==
    \/ /\ ~ LocalWakes
       /\ Push(p, j, None, back)
       /\ job' = Set(job, p, None)
       /\ UNCHANGED lifo
    \/ /\ LocalWakes
       /\ Replace(p, w, j, back)
       /\ UNCHANGED injector

(* share_displaced keeps the first displaced job in the inbox and spills   *)
(* further ones: a look at the inbox, and later a push.                    *)
ChooseSpill(p) ==
    /\ pc[p] = "displace"
    /\ Goto(p, IF inbox[call[p].owner] # <<>> THEN "spill" ELSE "put_inbox")
    /\ UNCHANGED <<poolVars, job, call, script, workerVars, fate>>

\* The displaced job goes to the inbox, or to the injector without a wake.
Displace(p) ==
    /\ pc[p] \in {"spill", "put_inbox"}
    /\ IF pc[p] = "spill"
       THEN injector' = Append(injector, job[p]) /\ UNCHANGED inbox
       ELSE inbox' = Add(inbox, call[p].owner, job[p]) /\ UNCHANGED injector
    /\ job' = Set(job, p, None)
    /\ call' = Set(call, p, IF StealableInbox
                            THEN [call[p] EXCEPT !.left = 1, !.spare = {call[p].owner}]
                            ELSE call[p])
    /\ Goto(p, "wake_owner")
    /\ UNCHANGED <<lifo, deque, stolen, stateVars, script, workerVars, fate>>

\* Mutant: `wake` in place of wake_specific, any other sleeper will do.
MutOwner(p) ==
    LET others == sleeping \ {call[p].owner}
    IN  IF others = {} THEN call[p].owner ELSE CHOOSE v \in others : TRUE

Owner(p) == call[p].owner

(* wake_specific: the owner, if it sleeps, is claimed and unparked.  Then  *)
(* a peer is told of a stealable inbox (nudge).                            *)
WakeOwner(p) ==
    /\ pc[p] = "wake_owner"
    /\ LET c == call[p] IN
       /\ sleeping' = sleeping \ {Owner(p)}
       /\ CASE Owner(p) \in sleeping ->
                  call' = Set(call, p, [c EXCEPT !.target = Owner(p)]) /\ Goto(p, "unpark")
            [] Owner(p) \notin sleeping /\ c.left > 0 -> UNCHANGED call /\ Goto(p, "claim")
            [] OTHER -> call' = Set(call, p, NoCall) /\ Goto(p, c.back)
    /\ UNCHANGED <<queueVars, searching, permit, lifeVars, job, script, workerVars, fate>>

-----------------------------------------------------------------------------
(* Clients *)

Submit(c) ==
    /\ pc[c] = "idle" /\ ~ gone /\ script[c] # <<>> /\ Head(script[c]).op = "submit"
    /\ script' = Set(script, c, Tail(script[c]))
    /\ Push(c, Head(script[c]).job, Head(script[c]).worker, "idle")
    /\ UNCHANGED <<inbox, lifo, deque, stolen, stateVars, job, workerVars, fate>>

SubmitToWorker(c) ==
    /\ pc[c] = "idle" /\ ~ gone /\ script[c] # <<>> /\ Head(script[c]).op = "submit_local"
    /\ script' = Set(script, c, Tail(script[c]))
    /\ SubmitLocal(c, Head(script[c]).worker, Head(script[c]).job, "idle")
    /\ UNCHANGED <<inbox, deque, stolen, stateVars, workerVars, fate>>

\* shut_down: the flag, then an unpark for every worker.
ShutDown(c) ==
    /\ pc[c] = "idle" /\ ~ gone /\ script[c] # <<>> /\ Head(script[c]).op = "shut_down"
    /\ script' = Set(script, c, Tail(script[c]))
    /\ running' = FALSE
    /\ todo' = Set(todo, c, Workers)
    /\ Goto(c, "unpark_all")
    /\ UNCHANGED <<queueVars, sleeping, searching, permit, home, runs, setup,
                   job, call, mine, hand, victim, parking, countVars, fate>>

UnparkAll(c) ==
    /\ pc[c] = "unpark_all"
    /\ \/ \E w \in todo[c] :
            /\ Grant(w)
            /\ todo' = Set(todo, c, todo[c] \ {w})
            /\ UNCHANGED pc
       \/ /\ todo[c] = {}
          /\ Goto(c, "idle")
          /\ UNCHANGED <<permit, todo>>
    /\ UNCHANGED <<queueVars, sleeping, searching, lifeVars,
                   job, call, script, mine, hand, victim, parking, countVars, fate>>

ClientStep(c) == Submit(c) \/ SubmitToWorker(c) \/ ShutDown(c) \/ UnparkAll(c)

-----------------------------------------------------------------------------
(* Pool::run: the worker *)

\* The job in hand is run next; finding work ends the idle rounds.
RunNext(w, j) ==
    /\ job' = Set(job, w, j)
    /\ spins' = Set(spins, w, 0)
    /\ Goto(w, "run")

\* Local::take_queue succeeds for one thread only; put_queue gives the deque back.
TakeQueue(w) == home[w] /\ home' = Set(home, w, FALSE)
PutQueue(w) == home' = Set(home, w, TRUE)

\* Mutant: a worker starts with an empty slot.
MutRun(w) ==
    /\ pc[w] = "off" /\ ~ gone /\ runs[w] < MaxRuns
    /\ TakeQueue(w)
    /\ runs' = Set(runs, w, runs[w] + 1)
    /\ lifo' = Set(lifo, w, None)
    /\ Goto(w, "slot")
    /\ UNCHANGED <<injector, inbox, deque, stolen, sleeping, searching, running, permit, setup,
                   job, call, script, workerVars, fate>>

Run(w) ==
    /\ pc[w] = "off" /\ ~ gone /\ runs[w] < MaxRuns
    /\ TakeQueue(w)
    /\ runs' = Set(runs, w, runs[w] + 1)
    /\ Goto(w, "slot")
    /\ UNCHANGED <<queueVars, sleeping, searching, running, permit, setup,
                   job, call, script, workerVars, fate>>

(* The job returns.  On its way it may have handed a job to this worker:   *)
(* itself, if it yields or was woken, or another one.                      *)
FinishJob(w) ==
    /\ pc[w] = "run" /\ job[w] \notin Blocking \cup Panicking
    /\ LET next == Wakes[job[w]] IN
       /\ done' = IF next = job[w] THEN done ELSE done \cup {job[w]}
       /\ \/ /\ next = None
             /\ job' = Set(job, w, None)
             /\ Goto(w, "slot")
             /\ UNCHANGED <<injector, lifo, call>>
          \/ /\ next # None
             /\ SubmitLocal(w, w, next, "slot")
    /\ UNCHANGED <<inbox, deque, stolen, stateVars, script, workerVars, released, gone>>

\* Job::drop: the jobs are released without being run.
ReleaseJobs(jobs) == released' = released \cup jobs

(* The job panics and `run` unwinds: the private queue is dropped with its *)
(* jobs, and the deque is not put back, so that nobody can run this worker *)
(* again.  What the deque holds stays within the reach of thieves.         *)
Unwind(w) ==
    /\ pc[w] = "run" /\ job[w] \in Panicking
    /\ done' = done \cup {job[w]}
    /\ ReleaseJobs(ToSet(mine[w]))
    /\ mine' = Set(mine, w, <<>>)
    /\ job' = Set(job, w, None)
    /\ Goto(w, "dead")
    /\ UNCHANGED <<poolVars, call, script, stealVars, countVars, gone>>

AfterCapped == IF ShareDisplaced THEN "fair_take" ELSE "mine"

\* Mutant: jobs served from the slot are not counted.
MutServed(w) == 0

Served(w) == lifo_run[w] + 1

(* 0. The slot, unless it has been served lifo_run_limit times in a row.   *)
(* At that boundary a stealable inbox is offered the slot's job; `taken`   *)
(* then holds has_other_ready_work.                                        *)
TakeSlot(w) ==
    /\ pc[w] = "slot"
    /\ \/ /\ lifo_run[w] < LifoRunLimit /\ lifo[w] # None
          /\ RunNext(w, lifo[w])
          /\ lifo' = Set(lifo, w, None)
          /\ lifo_run' = Set(lifo_run, w, Served(w))
          /\ UNCHANGED <<boundary, taken>>
       \/ /\ lifo_run[w] = LifoRunLimit \/ lifo[w] = None
          /\ LET exhausted == lifo_run[w] = LifoRunLimit
                 others == mine[w] # <<>> \/ deque[w] # <<>>
             IN  /\ boundary' = Set(boundary, w, exhausted)
                 /\ taken' = Set(taken, w, IF exhausted /\ StealableInbox /\ others THEN 1 ELSE 0)
                 /\ Goto(w, CASE ~ exhausted     -> "mine"
                              [] exhausted /\ StealableInbox  -> "capped"
                              [] OTHER           -> AfterCapped)
          /\ lifo_run' = Set(lifo_run, w, 0)
          /\ UNCHANGED <<lifo, job, spins>>
    /\ UNCHANGED <<injector, inbox, deque, stolen, stateVars,
                   call, script, mine, stealVars, until_promote, fate>>

\* publish_capped_slot: the slot's job, if any, moves to the stealable inbox ...
TakeCapped(w) ==
    /\ pc[w] = "capped"
    /\ lifo' = Set(lifo, w, None)
    /\ job' = Set(job, w, lifo[w])
    /\ \/ lifo[w] # None /\ Goto(w, "capped_push") /\ UNCHANGED taken
       \/ lifo[w] = None /\ Goto(w, AfterCapped) /\ taken' = Set(taken, w, 0)
    /\ UNCHANGED <<injector, inbox, deque, stolen, stateVars,
                   call, script, mine, stealVars, boundary, lifo_run, spins, until_promote, fate>>

PushCapped(w) ==
    /\ pc[w] = "capped_push"
    /\ inbox' = Add(inbox, w, job[w])
    /\ job' = Set(job, w, None)
    /\ Goto(w, "capped_len")
    /\ UNCHANGED <<injector, lifo, deque, stolen, stateVars, call, script, workerVars, fate>>

\* ... and a peer is told if the owner has more to do than that job.
AnnounceCapped(w) ==
    /\ pc[w] = "capped_len"
    /\ IF taken[w] = 1 \/ Len(inbox[w]) > 1
       THEN WakeUp(w, 1, {w}, None, AfterCapped)
       ELSE Goto(w, AfterCapped) /\ UNCHANGED call
    /\ taken' = Set(taken, w, 0)
    /\ UNCHANGED <<poolVars, job, script, mine, stealVars, boundary, lifo_run, spins,
                   until_promote, fate>>

(* take_from_injector, at the fairness boundary and as the last resort: a  *)
(* batch is moved, then one sleeper is woken per job that is left.         *)
PopInjector(w) ==
    /\ pc[w] \in {"fair_take", "take"}
    /\ \/ /\ taken[w] < InjectorBatch /\ injector # <<>>
          /\ mine' = Add(mine, w, Head(injector))
          /\ injector' = Tail(injector)
          /\ taken' = Set(taken, w, taken[w] + 1)
          /\ UNCHANGED pc
       \/ /\ taken[w] = InjectorBatch \/ injector = <<>>
          /\ Goto(w, IF pc[w] = "take" THEN "len" ELSE "fair_len")
          /\ UNCHANGED <<mine, injector, taken>>
    /\ UNCHANGED <<inbox, lifo, deque, stolen, stateVars,
                   job, call, script, stealVars, boundary, lifo_run, spins, until_promote, fate>>

LenInjector(w) ==
    /\ pc[w] \in {"fair_len", "len"}
    /\ LET left == Len(injector)
           back == CASE pc[w] = "fair_len"               -> "mine"
                     [] pc[w] = "len" /\ taken[w] > 0    -> "share"
                     [] OTHER -> IF boundary[w] THEN "ready" ELSE "idle"
       IN  /\ IF left > 0
              THEN WakeUp(w, Least(left, N), {}, None, back)
              ELSE Goto(w, back) /\ UNCHANGED call
           /\ taken' = Set(taken, w, 0)
           /\ spins' = Set(spins, w, IF back = "share" THEN 0 ELSE spins[w])
           /\ until_promote' = Set(until_promote, w,
                 IF back = "share" THEN PromoteEvery ELSE until_promote[w])
    /\ UNCHANGED <<poolVars, job, script, mine, stealVars, boundary, lifo_run, fate>>

(* promote: share if somebody sleeps.  The bitmap is loaded with Relaxed   *)
(* ordering, which promises nothing about how recent the answer is.        *)
Promote(w) == Goto(w, "share") \/ Goto(w, "run")

\* 1. The private queue, newest first; every promote_every jobs, the heartbeat.
PopMine(w) ==
    /\ pc[w] = "mine"
    /\ \/ /\ mine[w] # <<>>
          /\ mine' = Set(mine, w, Front(mine[w]))
          /\ job' = Set(job, w, Last(mine[w]))
          /\ spins' = Set(spins, w, 0)
          /\ IF until_promote[w] = 1
             THEN until_promote' = Set(until_promote, w, PromoteEvery) /\ Promote(w)
             ELSE until_promote' = Set(until_promote, w, until_promote[w] - 1) /\ Goto(w, "run")
       \/ /\ mine[w] = <<>>
          /\ Goto(w, "inbox")
          /\ UNCHANGED <<mine, job, spins, until_promote>>
    /\ UNCHANGED <<poolVars, call, script, stealVars, boundary, taken, lifo_run, fate>>

\* Free slots of the deque: those a thief has not given back are not free.
Room(w) == DequeCapacity - Len(deque[w]) - stolen[w]
Full(w) == Room(w) = 0

AfterShare(w) == IF job[w] = None THEN "slot" ELSE "run"

(* share: the older half of the private queue goes to the deque, job by    *)
(* job, and one sleeper is woken per job.  `taken` counts the jobs shared; *)
(* the half is that of the length at the start of the loop.                *)
Share(w) ==
    /\ pc[w] = "share"
    /\ \/ /\ taken[w] < (Len(mine[w]) + taken[w]) \div 2 /\ ~ Full(w)
          /\ deque' = Add(deque, w, Head(mine[w]))
          /\ mine' = Set(mine, w, Tail(mine[w]))
          /\ taken' = Set(taken, w, taken[w] + 1)
          /\ UNCHANGED <<pc, call>>
       \/ /\ taken[w] = (Len(mine[w]) + taken[w]) \div 2 \/ Full(w)
          /\ IF taken[w] > 0
             THEN WakeUp(w, taken[w], {w}, None, AfterShare(w))
             ELSE Goto(w, AfterShare(w)) /\ UNCHANGED call
          /\ taken' = Set(taken, w, 0)
          /\ UNCHANGED <<deque, mine>>
    /\ UNCHANGED <<injector, inbox, lifo, stolen, stateVars,
                   job, script, stealVars, boundary, lifo_run, spins, until_promote, fate>>

(* 1.5. The inbox: one job if peers may steal from it, otherwise up to     *)
(* promote_every jobs move to the private queue.                           *)
PopInbox(w) ==
    /\ pc[w] = "inbox"
    /\ \/ /\ inbox[w] # <<>> /\ StealableInbox
          /\ RunNext(w, Head(inbox[w]))
          /\ inbox' = Set(inbox, w, Tail(inbox[w]))
          /\ UNCHANGED <<mine, taken>>
       \/ /\ inbox[w] # <<>> /\ ~ StealableInbox
          /\ mine' = Add(mine, w, Head(inbox[w]))
          /\ inbox' = Set(inbox, w, Tail(inbox[w]))
          /\ LET full == taken[w] + 1 >= PromoteEvery IN
             /\ taken' = Set(taken, w, IF full THEN 0 ELSE taken[w] + 1)
             /\ spins' = Set(spins, w, 0)
             /\ Goto(w, IF full THEN "slot" ELSE "inbox")
          /\ UNCHANGED job
       \/ /\ inbox[w] = <<>>
          /\ taken' = Set(taken, w, 0)
          /\ Goto(w, IF taken[w] > 0 THEN "slot" ELSE "pop")
          /\ UNCHANGED <<inbox, mine, job, spins>>
    /\ UNCHANGED <<injector, lifo, deque, stolen, stateVars,
                   call, script, stealVars, boundary, lifo_run, until_promote, fate>>

\* Mutant: shutdown is noticed before the other workers and the injector are tried.
MutAfterPop == IF running THEN "search" ELSE "leave"

AfterPop == IF N < 2 THEN "take" ELSE "search"

\* 2. The own deque, newest first.
PopDeque(w) ==
    /\ pc[w] = "pop"
    /\ \/ /\ deque[w] # <<>>
          /\ RunNext(w, Last(deque[w]))
          /\ deque' = Set(deque, w, Front(deque[w]))
       \/ /\ deque[w] = <<>>
          /\ Goto(w, AfterPop)
          /\ UNCHANGED <<deque, job, spins>>
    /\ UNCHANGED <<injector, inbox, lifo, stolen, stateVars,
                   call, script, mine, stealVars, boundary, taken, lifo_run, until_promote, fate>>

-----------------------------------------------------------------------------
(* 3. Stealing *)

(* steal_once: every victim once, its stealable inbox before its deque.    *)
(* The random start of the sweep is an arbitrary order here.               *)
Sweep(w) ==
    /\ todo' = Set(todo, w, Workers \ {w})
    /\ Goto(w, "steal")

\* A worker hunts only while fewer than half of the pool do.
EnterSearch(w) ==
    /\ pc[w] = "search"
    /\ searching' = searching + 1
    /\ \/ /\ searching * 2 >= N
          /\ Goto(w, "leave_search")
          /\ UNCHANGED todo
       \/ /\ searching * 2 < N
          /\ Sweep(w)
    /\ UNCHANGED <<queueVars, sleeping, permit, lifeVars,
                   job, call, script, mine, hand, victim, parking, countVars, fate>>

\* Mutant: the worker that may not hunt keeps its place among the searchers.
MutLeaveSearch(w) ==
    /\ pc[w] = "leave_search"
    /\ Goto(w, "take")
    /\ UNCHANGED <<poolVars, job, call, script, workerVars, fate>>

LeaveSearch(w) ==
    /\ pc[w] = "leave_search"
    /\ searching' = searching - 1
    /\ Goto(w, "take")
    /\ UNCHANGED <<queueVars, sleeping, permit, lifeVars, job, call, script, workerVars, fate>>

StealInbox(w) ==
    /\ pc[w] = "steal" /\ StealableInbox
    /\ \E v \in todo[w] :
       /\ todo' = Set(todo, w, todo[w] \ {v})
       /\ \/ /\ inbox[v] # <<>>
             /\ job' = Set(job, w, Head(inbox[v]))
             /\ inbox' = Set(inbox, v, Tail(inbox[v]))
             /\ Goto(w, "keep")
             /\ UNCHANGED victim
          \/ /\ inbox[v] = <<>>
             /\ victim' = Set(victim, w, v)
             /\ Goto(w, "steal_deque")
             /\ UNCHANGED <<inbox, job>>
    /\ UNCHANGED <<injector, lifo, deque, stolen, stateVars,
                   call, script, mine, hand, parking, countVars, fate>>

\* Mutant: the error of a push to a full deque is ignored.
MutKeep(w) ==
    /\ pc[w] = "keep"
    /\ deque' = IF Full(w) THEN deque ELSE Add(deque, w, job[w])
    /\ job' = Set(job, w, None)
    /\ Goto(w, "found")
    /\ UNCHANGED <<injector, inbox, lifo, stolen, stateVars, call, script, workerVars, fate>>

\* The job stolen from an inbox goes to the own deque or, if full, to the injector.
Keep(w) ==
    /\ pc[w] = "keep"
    /\ \/ /\ ~ Full(w)
          /\ deque' = Add(deque, w, job[w])
          /\ Goto(w, "found")
          /\ UNCHANGED <<injector, call>>
       \/ /\ Full(w)
          /\ Push(w, job[w], w, "found")
          /\ UNCHANGED deque
    /\ job' = Set(job, w, None)
    /\ UNCHANGED <<inbox, lifo, stolen, stateVars, script, workerVars, fate>>

Rest(q, count) == SubSeq(q, count + 1, Len(q))

(* Stealer::steal with count_fn = (min(n, PULL_BATCH) + 1) / 2, as far as  *)
(* the own deque has room.  Empty and Busy both count as nothing stolen.   *)
StealFrom(w, v) ==
    LET n == Len(deque[v])
        count == Least(Room(w), (Least(n, PullBatch) + 1) \div 2)
    IN \/ /\ count > 0 /\ stolen[v] = 0
          /\ hand' = Set(hand, w, SubSeq(deque[v], 1, count))
          /\ deque' = Set(deque, v, Rest(deque[v], count))
          /\ stolen' = Set(stolen, v, count)
          /\ victim' = Set(victim, w, v)
          /\ Goto(w, "land")
       \/ /\ count = 0 \/ stolen[v] > 0
          /\ victim' = Set(victim, w, w)
          /\ Goto(w, "steal")
          /\ UNCHANGED <<hand, deque, stolen>>

StealDeque(w) ==
    /\ \/ /\ pc[w] = "steal_deque"
          /\ StealFrom(w, victim[w])
          /\ UNCHANGED todo
       \/ /\ pc[w] = "steal" /\ ~ StealableInbox
          /\ \E v \in todo[w] : StealFrom(w, v) /\ todo' = Set(todo, w, todo[w] \ {v})
    /\ UNCHANGED <<injector, inbox, lifo, stateVars,
                   job, call, script, mine, parking, countVars, fate>>

\* The stolen jobs appear in the thief's deque ...
Land(w) ==
    /\ pc[w] = "land"
    /\ deque' = Set(deque, w, deque[w] \o hand[w])
    /\ hand' = Set(hand, w, <<>>)
    /\ Goto(w, "release")
    /\ UNCHANGED <<injector, inbox, lifo, stolen, stateVars,
                   job, call, script, mine, todo, victim, parking, countVars, fate>>

\* ... the victim gets its slots back, and a thief with a surplus wakes a peer.
Release(w) ==
    /\ pc[w] = "release"
    /\ stolen' = Set(stolen, victim[w], 0)
    /\ victim' = Set(victim, w, w)
    /\ IF stolen[victim[w]] > 1
       THEN WakeUp(w, 1, {w}, None, "found")
       ELSE Goto(w, "found") /\ UNCHANGED call
    /\ UNCHANGED <<injector, inbox, lifo, deque, stateVars,
                   job, script, mine, hand, todo, parking, countVars, fate>>

\* steal_once found something: back to the top of the loop.
Found(w) ==
    /\ pc[w] = "found"
    /\ \/ /\ parking[w]
          /\ sleeping' = sleeping \ {w}
          /\ UNCHANGED <<searching, spins>>
       \/ /\ ~ parking[w]
          /\ searching' = searching - 1
          /\ spins' = Set(spins, w, 0)
          /\ UNCHANGED sleeping
    /\ parking' = Set(parking, w, FALSE)
    /\ todo' = Set(todo, w, {})
    /\ Goto(w, "slot")
    /\ UNCHANGED <<queueVars, permit, lifeVars,
                   job, call, script, mine, hand, victim, boundary, taken, lifo_run,
                   until_promote, fate>>

\* The whole sweep found nothing: on to the injector, or to the park.
NothingFound(w) ==
    /\ pc[w] = "steal" /\ todo[w] = {}
    /\ \/ /\ ~ parking[w]
          /\ searching' = searching - 1
          /\ Goto(w, "take")
       \/ /\ parking[w]
          /\ Goto(w, IF running THEN "park" ELSE "retire")
          /\ UNCHANGED searching
    /\ parking' = Set(parking, w, FALSE)
    /\ UNCHANGED <<queueVars, sleeping, permit, lifeVars,
                   job, call, script, mine, hand, todo, victim, countVars, fate>>

-----------------------------------------------------------------------------
(* Idling, parking, leaving *)

\* Nothing else was ready: the slot skipped at the boundary is served after all.
TakeReadySlot(w) ==
    /\ pc[w] = "ready"
    /\ \/ /\ lifo[w] # None
          /\ RunNext(w, lifo[w])
          /\ lifo' = Set(lifo, w, None)
          /\ lifo_run' = Set(lifo_run, w, 1)
       \/ /\ lifo[w] = None
          /\ Goto(w, "idle")
          /\ UNCHANGED <<lifo, job, spins, lifo_run>>
    /\ UNCHANGED <<injector, inbox, deque, stolen, stateVars,
                   call, script, mine, stealVars, boundary, taken, until_promote, fate>>

\* Mutant: the worker parks without prepare_to_park.
MutIdle(w) ==
    /\ pc[w] = "idle"
    /\ Goto(w, IF running THEN "park" ELSE "leave")
    /\ UNCHANGED <<poolVars, job, call, script, workerVars, fate>>

\* Shut down: leave.  Otherwise look again a few times, then prepare to park.
Idle(w) ==
    /\ pc[w] = "idle"
    /\ \/ /\ ~ running
          /\ Goto(w, "leave")
          /\ UNCHANGED spins
       \/ /\ running /\ spins[w] < RoundsBeforePark
          /\ spins' = Set(spins, w, spins[w] + 1)
          /\ Goto(w, "slot")
       \/ /\ running /\ spins[w] = RoundsBeforePark
          /\ Goto(w, "announce")
          /\ UNCHANGED spins
    /\ UNCHANGED <<poolVars, job, call, script, mine, stealVars, boundary, taken, lifo_run,
                   until_promote, fate>>

\* prepare_to_park: the bit first ...
Announce(w) ==
    /\ pc[w] = "announce"
    /\ sleeping' = sleeping \cup {w}
    /\ Goto(w, "look_injector")
    /\ UNCHANGED <<queueVars, searching, permit, lifeVars, job, call, script, workerVars, fate>>

\* Mutant: the injector is not looked at again after the announcement.
MutSeesWork(w) ==
    (pc[w] = "look_inbox" /\ inbox[w] # <<>>) \/ (pc[w] = "look_slot" /\ lifo[w] # None)

SeesWork(w) ==
    CASE pc[w] = "look_injector" -> injector # <<>>
      [] pc[w] = "look_inbox"    -> inbox[w] # <<>>
      [] pc[w] = "look_slot"     -> lifo[w] # None

\* ... then a look at every source of work, one after the other ...
Look(w) ==
    /\ pc[w] \in {"look_injector", "look_inbox", "look_slot"}
    /\ \/ /\ SeesWork(w)
          /\ Goto(w, "retract")
          /\ UNCHANGED <<todo, parking>>
       \/ /\ ~ SeesWork(w) /\ pc[w] # "look_slot"
          /\ Goto(w, IF pc[w] = "look_injector" THEN "look_inbox" ELSE "look_slot")
          /\ UNCHANGED <<todo, parking>>
       \/ /\ ~ SeesWork(w) /\ pc[w] = "look_slot"
          /\ parking' = Set(parking, w, TRUE)
          /\ Sweep(w)
    /\ UNCHANGED <<poolVars, job, call, script, mine, hand, victim, countVars, fate>>

\* ... and the bit is taken back if one of them had something, or at shutdown.
Retract(w) ==
    /\ pc[w] \in {"retract", "retire"}
    /\ sleeping' = sleeping \ {w}
    /\ Goto(w, IF pc[w] = "retire" THEN "leave" ELSE "slot")
    /\ UNCHANGED <<queueVars, searching, permit, lifeVars, job, call, script, workerVars, fate>>

\* host.park returns with a permit ...
Park(w) ==
    /\ pc[w] = "park" /\ w \in permit
    /\ permit' = permit \ {w}
    /\ Goto(w, "woken")
    /\ UNCHANGED <<queueVars, sleeping, searching, lifeVars, job, call, script, workerVars, fate>>

\* ... or spuriously.
ParkSpuriously(w) ==
    /\ pc[w] = "park"
    /\ Goto(w, "woken")
    /\ UNCHANGED <<poolVars, job, call, script, workerVars, fate>>

Woken(w) ==
    /\ pc[w] = "woken"
    /\ sleeping' = sleeping \ {w}
    /\ spins' = Set(spins, w, 0)
    /\ Goto(w, "slot")
    /\ UNCHANGED <<queueVars, searching, permit, lifeVars,
                   job, call, script, mine, stealVars, boundary, taken, lifo_run,
                   until_promote, fate>>

\* What is still private goes to the injector; the deque goes back.
Leave(w) ==
    /\ pc[w] = "leave"
    /\ injector' = injector \o mine[w]
    /\ mine' = Set(mine, w, <<>>)
    /\ PutQueue(w)
    /\ Goto(w, "off")
    /\ boundary' = Set(boundary, w, FALSE)
    /\ lifo_run' = Set(lifo_run, w, 0)
    /\ spins' = Set(spins, w, 0)
    /\ until_promote' = Set(until_promote, w, PromoteEvery)
    /\ UNCHANGED <<inbox, lifo, deque, stolen, sleeping, searching, running, permit, runs, setup,
                   job, call, script, stealVars, taken, fate>>

(* The last reference to the pool goes: nobody is in `run` or in a call.   *)
(* Injector, inboxes, slots and deques release the jobs they still hold.   *)
DropPool ==
    /\ ~ gone
    /\ \A w \in Workers : pc[w] \in {"off", "dead"}
    /\ \A c \in Clients : pc[c] = "idle"
    /\ gone' = TRUE
    /\ ReleaseJobs(ToSet(injector) \cup (ToSet(lifo) \ {None})
                  \cup UNION {ToSet(inbox[w]) \cup ToSet(deque[w]) : w \in Workers})
    /\ injector' = <<>>
    /\ inbox' = [w \in Workers |-> <<>>] /\ deque' = inbox'
    /\ lifo' = [w \in Workers |-> None]
    /\ UNCHANGED <<stolen, stateVars, pc, job, call, script, workerVars, done>>

Wake(p) ==
    ClaimSleeper(p) \/ Unpark(p) \/ ChooseSpill(p) \/ Displace(p) \/ WakeOwner(p)

WorkerStep(w) ==
    \/ Run(w) \/ FinishJob(w) \/ Unwind(w) \/ TakeSlot(w)
    \/ TakeCapped(w) \/ PushCapped(w) \/ AnnounceCapped(w)
    \/ PopInjector(w) \/ LenInjector(w) \/ PopMine(w) \/ Share(w)
    \/ PopInbox(w) \/ PopDeque(w) \/ EnterSearch(w) \/ LeaveSearch(w)
    \/ StealInbox(w) \/ Keep(w) \/ StealDeque(w) \/ Land(w) \/ Release(w)
    \/ Found(w) \/ NothingFound(w) \/ TakeReadySlot(w) \/ Idle(w)
    \/ Announce(w) \/ Look(w) \/ Retract(w) \/ Park(w) \/ Woken(w) \/ Leave(w)

Next ==
    \/ DropPool
    \/ \E w \in Workers : WorkerStep(w) \/ ParkSpuriously(w)
    \/ \E c \in Clients : ClientStep(c)
    \/ \E p \in Procs : Wake(p)

Spec == Init /\ [][Next]_vars

(* Every thread is scheduled again and again, and a client makes its calls *)
(* to the end; the host owes a parked worker a return once it has a        *)
(* permit, but no spurious one.                                            *)
Fairness ==
    /\ \A w \in Workers : WF_vars(WorkerStep(w) \/ Wake(w))
    /\ \A c \in Clients : WF_vars(ClientStep(c) \/ Wake(c))

FairSpec == Spec /\ Fairness

-----------------------------------------------------------------------------
(* Properties *)

(* Queues hold jobs; the counter of searchers, which is incremented and    *)
(* decremented on separate paths, stays between zero and the worker count. *)
TypeOK ==
    /\ injector \in Seq(Jobs)
    /\ \A q \in {inbox, deque, mine, hand} : q \in [Workers -> Seq(Jobs)]
    /\ lifo \in [Workers -> Jobs \cup {None}]
    /\ stolen \in [Workers -> 0 .. DequeCapacity]
    /\ sleeping \subseteq Workers /\ permit \subseteq Workers
    /\ searching \in 0 .. N
    /\ running \in BOOLEAN
    /\ setup \in Setups
    /\ home \in [Workers -> BOOLEAN] /\ runs \in [Workers -> 0 .. MaxRuns]
    /\ job \in [Procs -> Jobs \cup {None}]
    /\ todo \in [Procs -> SUBSET Workers]
    /\ victim \in [Workers -> Workers]
    /\ parking \in [Workers -> BOOLEAN] /\ boundary \in [Workers -> BOOLEAN]
    /\ taken \in [Workers -> Nat]
    /\ lifo_run \in [Workers -> 0 .. LifoRunLimit]
    /\ spins \in [Workers -> 0 .. RoundsBeforePark]
    /\ until_promote \in [Workers -> 1 .. PromoteEvery]
    /\ done \subseteq Jobs /\ released \subseteq Jobs /\ gone \in BOOLEAN

\* The jobs handed to the pool so far, by clients and by jobs.
Submitted ==
    ((UNION {{Script[c][k].job : k \in 1 .. Len(Script[c]) - Len(script[c])} : c \in Clients})
       \cup {Wakes[j] : j \in done \ Panicking} \cup ToSet(setup.backlog)) \ {None}

(* Where a job can be: a queue, the slot of a worker, or the hands of a     *)
(* thread, each one as a sequence.                                         *)
Places == ({"inbox", "deque", "mine", "hand", "lifo"} \X Workers) \cup ({"job"} \X Procs)
             \cup {<<"injector", None>>}

One(j) == IF j = None THEN <<>> ELSE <<j>>

Held(place) ==
    LET kind == place[1]
        p    == place[2]
    IN  CASE kind = "injector" -> injector
          [] kind = "inbox"    -> inbox[p]
          [] kind = "deque"    -> deque[p]
          [] kind = "mine"     -> mine[p]
          [] kind = "hand"     -> hand[p]
          [] kind = "lifo"     -> One(lifo[p])
          [] kind = "job"      -> One(job[p])

\* Every position that holds a job, and the job there.
Spots == UNION {{x} \X DOMAIN Held(x) : x \in Places}
JobAt(spot) == Held(spot[1])[spot[2]]

Open == Submitted \ (done \cup released)

(* "Every task runs exactly once" and a Job is released exactly once: one  *)
(* that was submitted and has not run is in exactly one place, whatever is *)
(* stolen, displaced, shared or handed back, until the drop of the pool or *)
(* the panic of another job releases it; one that has run is nowhere and   *)
(* is not released a second time.                                          *)
JobsConserved ==
    /\ \A s, t \in Spots : JobAt(s) = JobAt(t) => s = t
    /\ {JobAt(s) : s \in Spots} = Open
    /\ done \cap released = {}

Asleep(w) == pc[w] = "park" /\ w \notin permit

\* Somebody is about to unpark w.
BeingWoken(w) ==
    \E p \in Procs :
        \/ pc[p] = "unpark" /\ call[p].target = w
        \/ pc[p] \in {"displace", "spill", "put_inbox", "wake_owner"} /\ call[p].owner = w
        \/ pc[p] = "unpark_all" /\ w \in todo[p]

(* "Private work wakes the worker that holds it": no worker sleeps on a    *)
(* job in its slot or inbox, which nobody else may run, unless its wake is *)
(* on the way; and a worker never sleeps on its private queue or deque.    *)
PrivateWorkIsAnnounced ==
    \A w \in Workers : Asleep(w) =>
        /\ mine[w] = <<>> /\ deque[w] = <<>>
        /\ lifo[w] # None \/ inbox[w] # <<>> => BeingWoken(w)

(* The pool never goes to sleep on work: when every worker that has been   *)
(* started is asleep and no call is under way, no job is left anywhere     *)
(* they could reach.  The pool has no timeout, so a wake lost here is lost *)
(* for ever.  One kind of job is excepted by design (submit_local: "Avoid  *)
(* a peer wake for every lock handoff"): one that was handed to a worker   *)
(* which is not started, and spilled to the injector.                      *)
NoWorkAsleep ==
    LET started == {w \in Workers : pc[w] # "off"} IN
    started # {} /\ (\A w \in started : Asleep(w)) /\ (\A c \in Clients : pc[c] = "idle") =>
        /\ injector = <<>> \/ (Spilling /\ \E w \in Workers \ started : inbox[w] # <<>>)
        /\ \A w \in started : lifo[w] = None /\ inbox[w] = <<>> /\ deque[w] = <<>>
        /\ searching = 0

(* Two idle workers may, if the schedule is against them, steal the same   *)
(* job back and forth and look at nothing else; this says they stop.       *)
StealingSettles == <>[](\A w \in Workers : pc[w] \notin {"land", "keep"})

(* Every job that is submitted is run to its end, as far as jobs end: a    *)
(* task that wakes itself again and again does not hold up the others, and *)
(* no wake is lost or goes to the wrong worker.  The pool has no timeout   *)
(* and no poll, so this rests on the wakes alone.  (Submitted and done     *)
(* only grow, and a client's calls are finite.)                            *)
CaughtUp == {j \in Submitted : Wakes[j] # j /\ j \notin Blocking} \subseteq done

EveryJobRuns == StealingSettles /\ [](running /\ ~ gone) => []<>CaughtUp

(* The bound on the slot is there because otherwise self-waking tasks      *)
(* "starve everything this worker holds, including work it has already     *)
(* promised to share" (run): a job in a deque leaves it.                   *)
SharedWorkIsServed ==
    \A j \in Jobs, w \in Workers : j \in ToSet(deque[w]) ~> j \notin ToSet(deque[w])

(* shut_down: "Tell every worker to stop once it runs out of work": every  *)
(* worker that is running leaves `run`, and its deque is back in its slot. *)
EveryWorkerLeaves ==
    []<>(running \/ gone \/ \A w \in Workers : pc[w] = "off" /\ home[w])

\* No client has a job in hand or will submit one; all they may still do is shut down.
SubmissionsAreOver ==
    \A c \in Clients :
        /\ job[c] = None
        /\ \A k \in DOMAIN script[c] : script[c][k].op = "shut_down"

\* The jobs w can take without stealing.
InReach(w) ==
    UNION {ToSet(q) : q \in {injector, inbox[w], deque[w], mine[w]}} \cup ({lifo[w]} \ {None})

(* A worker leaves only "as soon as it finds its deque empty, the injector *)
(* empty and nothing to steal, so anything that lands afterwards is        *)
(* dropped" (shut_down): what is in reach of a worker that still has a job *)
(* to finish is run, by it or by a thief, however the shutdown races with  *)
(* its looks and with the peer that leaves.                                *)
WorkInReachIsRun ==
    StealingSettles =>
        \A j \in Jobs :
            (SubmissionsAreOver /\ \E w \in Workers : pc[w] = "run" /\ j \in InReach(w))
                ~> j \in done

(* With a stealable inbox "a blocked owner keeps only its warm slot; peers *)
(* can drain every displaced job" (tests/fanout.rs): once its peers are    *)
(* asleep, a worker whose job does not return holds at most the slot's.    *)
BlockedOwnerKeepsOnlySlot ==
    \A w \in Workers :
        /\ pc[w] = "run" /\ job[w] \in Blocking
        /\ \A v \in Workers \ {w} : Asleep(v)
        /\ \A c \in Clients : pc[c] = "idle"
        => inbox[w] = <<>> /\ mine[w] = <<>> /\ deque[w] = <<>>

\* Every worker has been run at least n times, and has left.
AllLeft(n) == ~ running /\ ~ gone /\ \A w \in Workers : pc[w] = "off" /\ runs[w] >= n

(* "so a caller that restarts this worker finds its deque" (run): what the *)
(* workers left behind in deques, slots, inboxes and the injector is run   *)
(* when each of them is run once more.                                     *)
RestartFindsTheRest == AllLeft(2) => Submitted \subseteq done
=============================================================================
