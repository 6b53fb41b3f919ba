------------------------------- MODULE MCPool -------------------------------
(* Instances of Pool for TLC: two workers, small tunings, short workloads. *)
EXTENDS Pool

CONSTANTS w1, w2, c1, c2, j1, j2, j3, j4, j5, j6

submit(j) == [op |-> "submit", job |-> j, worker |-> None]
submit_near(j, w) == [op |-> "submit", job |-> j, worker |-> w]
submit_local(j, w) == [op |-> "submit_local", job |-> j, worker |-> w]
shut_down == [op |-> "shut_down", job |-> None, worker |-> None]

\* Client c1 makes the calls `first`, client c2, if there is one, the calls `second`.
Scripts(first, second) == [p \in Clients |-> IF p = c1 THEN first ELSE second]

\* No job wakes another; j1 hands j3, or j2, to its worker; tasks wake themselves for ever.
NoWakes == [j \in Jobs |-> None]
FirstWakesThird == [NoWakes EXCEPT ![j1] = j3]
FirstWakesSecond == [NoWakes EXCEPT ![j1] = j2]
Retry(tasks) == [j \in Jobs |-> IF j \in tasks THEN j ELSE None]

\* Tuning::locality with the numbers at their smallest, and its variations.
Locality(calls, wakes) ==
    [local_wakes |-> TRUE, stealable_inbox |-> FALSE, share_displaced |-> FALSE,
     injector_batch |-> 1, lifo_run_limit |-> 1, promote_every |-> 1,
     rounds_before_park |-> 0, capacity |-> 2, script |-> calls, wakes |-> wakes,
     blocking |-> {}, panicking |-> {}, backlog |-> <<>>]

Throughput(s) == [s EXCEPT !.local_wakes = FALSE, !.injector_batch = 2, !.promote_every = 2]
Stealable(s) == [s EXCEPT !.stealable_inbox = TRUE]
Displaced(s) == [s EXCEPT !.share_displaced = TRUE]

\* What the clients do.
NoCalls == Scripts(<<>>, <<>>)
PoolAndLocal == Scripts(<<submit(j1)>>, <<submit_local(j2, w1)>>)
LocalThenPool == Scripts(<<submit_local(j1, w1), submit(j2)>>, <<>>)
Near == Scripts(<<submit_near(j1, w2)>>, <<>>)
LocalSecondFirst == Scripts(<<submit_local(j2, w1), submit_local(j1, w1)>>, <<>>)
LocalAll == Scripts(<<submit_local(j1, w1), submit_local(j2, w1), submit_local(j3, w1)>>, <<>>)
SubmitAndStop == Scripts(<<submit(j1), shut_down>>, <<>>)
LocalAndStop == Scripts(<<submit_local(j1, w1), shut_down>>, <<>>)
SubmitAll == Scripts(<<submit(j1), submit(j2), submit(j3)>>, <<>>)

(* Private work and shared work side by side; a pool without local wakes   *)
(* that takes batches; inboxes that peers steal from into deques of one    *)
(* slot, which a steal in progress fills; a job that spills; a batch of    *)
(* six of which three are shared, so that a thief takes two; a job that    *)
(* panics while others are in its worker's private queue.                  *)
SafetySetups ==
    {Locality(PoolAndLocal, FirstWakesThird),
     Throughput(Locality(LocalThenPool, NoWakes)),
     [Stealable(Displaced(Locality(LocalAll, NoWakes))) EXCEPT !.capacity = 1],
     Displaced(Locality(LocalAll, NoWakes)),
     [Throughput(Locality(NoCalls, NoWakes)) EXCEPT
        !.injector_batch = 6, !.promote_every = 7, !.capacity = 4,
        !.backlog = <<j1, j2, j3, j4, j5, j6>>],
     [Throughput(Locality(Scripts(<<submit(j4)>>, <<>>), NoWakes)) EXCEPT
        !.injector_batch = 3, !.backlog = <<j1, j2, j3>>, !.panicking = {j2}]}

\* Shutdown after a submission to the pool, or to a worker.
ShutdownSetups == {Locality(SubmitAndStop, NoWakes), Locality(LocalAndStop, FirstWakesSecond)}

(* A shutdown after jobs were handed to a worker's slot and displaced from *)
(* it while it may have one to run; one that races with a submission; and  *)
(* one while a job is run and another is shared.                           *)
StopSetups ==
    {[Locality(Scripts(<<submit_local(j2, w1), submit_local(j1, w1), shut_down>>, <<>>), NoWakes)
        EXCEPT !.backlog = <<j3>>],
     [Locality(Scripts(<<submit_local(j2, w1)>>, <<shut_down>>), NoWakes) EXCEPT !.backlog = <<j3>>],
     [Throughput(Locality(Scripts(<<>>, <<shut_down>>), NoWakes)) EXCEPT !.backlog = <<j1, j2>>]}

(* A hinted submission to a pool that looks twice; a stealable inbox; a    *)
(* second displaced job that spills, without a wake; a task that wakes     *)
(* itself for ever; and the shutdowns.                                     *)
LiveSetups ==
    {[Locality(Near, FirstWakesThird) EXCEPT !.rounds_before_park = 1],
     Stealable(Displaced(Locality(LocalSecondFirst, NoWakes))),
     Displaced(Locality(LocalAll, NoWakes)),
     Displaced(Locality(LocalSecondFirst, Retry({j1})))} \cup ShutdownSetups

\* The second job submitted to w1 never returns.
BlockedSetups == {[Stealable(Locality(LocalSecondFirst, NoWakes)) EXCEPT !.blocking = {j1}]}

\* Two tasks wake themselves while the job j1 waits in the deque.
StarvedSetups == {[Locality(SubmitAll, Retry({j2, j3})) EXCEPT !.injector_batch = 3]}
=============================================================================
