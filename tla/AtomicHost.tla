----------------------------- MODULE AtomicHost -----------------------------
(***************************************************************************)
(* The futex parker of src/fanout/atomic_host.rs (StdHost delegates to     *)
(* it): one worker's park word, the worker that parks on it and the        *)
(* threads that unpark it.  Workers share nothing else, so one is enough.  *)
(*                                                                         *)
(* Besides the word, the model follows what the memory orderings promise:  *)
(* every access that changes the word is a read-modify-write, so the whole *)
(* modification order is one release sequence and an Acquire read of the   *)
(* word synchronizes with every unpark before it.  `acquired` is the       *)
(* number of unparks whose publications the worker is bound to see.        *)
(***************************************************************************)
EXTENDS Integers

CONSTANTS
    Unparkers,      \* threads that unpark the worker
    MaxUnparks,     \* bound: number of calls to unpark
    MaxSpurious     \* bound: number of waits the platform ends by itself

ASSUME BoundsAssumption == MaxUnparks \in Nat /\ MaxSpurious \in Nat

VARIABLES
    state,      \* the park word: "LOCKED", "SIGNAL" or "ASLEEP"
    pc,         \* what the worker does next
    upc,        \* upc[u]: "idle", or "wake" between the swap and wake_one
    spurious,   \* waits the platform has ended by itself
    unparks,    \* ghost: number of unparks in the word's modification order
    acquired    \* ghost: how many of those the worker synchronizes with

vars == <<state, pc, upc, spurious, unparks, acquired>>

\* The word holds one of its three values.
TypeOK ==
    /\ state \in {"LOCKED", "SIGNAL", "ASLEEP"}
    /\ pc \in {"running", "take", "check", "wait", "blocked", "recheck", "consume"}
    /\ upc \in [Unparkers -> {"idle", "wake"}]
    /\ spurious \in Nat /\ unparks \in Nat /\ acquired \in Nat

Init ==
    /\ state = "LOCKED"
    /\ pc = "running"
    /\ upc = [u \in Unparkers |-> "idle"]
    /\ spurious = 0 /\ unparks = 0 /\ acquired = 0

-----------------------------------------------------------------------------
(* park *)

\* Mutant: the permit that the swap found is overlooked.
MutParkSwap ==
    /\ pc = "running"
    /\ state' = "ASLEEP"
    /\ pc' = "check"
    /\ acquired' = unparks
    /\ UNCHANGED <<upc, spurious, unparks>>

\* state.swap(ASLEEP, Acquire)
ParkSwap ==
    /\ pc = "running"
    /\ state' = "ASLEEP"
    /\ pc' = IF state # "LOCKED" THEN "take" ELSE "check"
    /\ acquired' = unparks
    /\ UNCHANGED <<upc, spurious, unparks>>

\* A permit was there: compare_exchange(ASLEEP, LOCKED, Acquire, Relaxed), return.
Take ==
    /\ pc = "take"
    /\ IF state = "ASLEEP"
       THEN state' = "LOCKED" /\ acquired' = unparks
       ELSE UNCHANGED <<state, acquired>>
    /\ pc' = "running"
    /\ UNCHANGED <<upc, spurious, unparks>>

\* The Acquire load in the loop condition.
Check ==
    /\ pc = "check"
    /\ pc' = IF state = "ASLEEP" THEN "wait" ELSE "consume"
    /\ acquired' = unparks
    /\ UNCHANGED <<state, upc, spurious, unparks>>

\* Mutant: the wait does not compare the word.
MutWait ==
    /\ pc = "wait"
    /\ pc' = "blocked"
    /\ UNCHANGED <<state, upc, spurious, unparks, acquired>>

\* atomic_wait::wait blocks only if the word still holds ASLEEP.
Wait ==
    /\ pc = "wait"
    /\ pc' = IF state = "ASLEEP" THEN "blocked" ELSE "recheck"
    /\ UNCHANGED <<state, upc, spurious, unparks, acquired>>

\* The platform may end a wait for reasons of its own.
SpuriousWake ==
    /\ pc = "blocked"
    /\ spurious < MaxSpurious
    /\ spurious' = spurious + 1
    /\ pc' = "recheck"
    /\ UNCHANGED <<state, upc, unparks, acquired>>

\* The Acquire load that counts wakeups with nothing to show (a statistic).
Recheck ==
    /\ pc = "recheck"
    /\ pc' = "check"
    /\ acquired' = unparks
    /\ UNCHANGED <<state, upc, spurious, unparks>>

\* Mutant: a relaxed store of LOCKED.
MutConsume ==
    /\ pc = "consume"
    /\ state' = "LOCKED"
    /\ pc' = "running"
    /\ UNCHANGED <<upc, spurious, unparks, acquired>>

\* compare_exchange(SIGNAL, LOCKED, Acquire, Relaxed), return.
Consume ==
    /\ pc = "consume"
    /\ IF state = "SIGNAL"
       THEN state' = "LOCKED" /\ acquired' = unparks
       ELSE UNCHANGED <<state, acquired>>
    /\ pc' = "running"
    /\ UNCHANGED <<upc, spurious, unparks>>

-----------------------------------------------------------------------------
(* unpark *)

\* state.swap(SIGNAL, Release)
UnparkSwap(u) ==
    /\ upc[u] = "idle"
    /\ unparks < MaxUnparks
    /\ state' = "SIGNAL"
    /\ unparks' = unparks + 1
    /\ upc' = [upc EXCEPT ![u] = IF state = "ASLEEP" THEN "wake" ELSE "idle"]
    /\ UNCHANGED <<pc, spurious, acquired>>

(* atomic_wait::wake_one, which may come arbitrarily late: the worker may  *)
(* have returned, and may even be in another wait.                         *)
WakeOne(u) ==
    /\ upc[u] = "wake"
    /\ upc' = [upc EXCEPT ![u] = "idle"]
    /\ pc' = IF pc = "blocked" THEN "recheck" ELSE pc
    /\ UNCHANGED <<state, spurious, unparks, acquired>>

Worker == ParkSwap \/ Take \/ Check \/ Wait \/ Recheck \/ Consume

Next ==
    \/ Worker
    \/ SpuriousWake
    \/ \E u \in Unparkers : UnparkSwap(u) \/ WakeOne(u)

Spec == Init /\ [][Next]_vars

(* A thread inside park or unpark is scheduled again; nobody has to call   *)
(* either, and the platform owes no spurious wakeup.                       *)
Fairness ==
    /\ WF_vars(Take \/ Check \/ Wait \/ Recheck \/ Consume)
    /\ \A u \in Unparkers : WF_vars(WakeOne(u))

FairSpec == Spec /\ Fairness

-----------------------------------------------------------------------------
(* Properties *)

(* "A wake is never lost": a worker blocked on the address although a      *)
(* permit has been left for it has a wake_one on its way.                  *)
NoLostWake ==
    pc = "blocked" /\ state # "ASLEEP" => \E u \in Unparkers : upc[u] = "wake"

(* park has to acquire the publication that preceded the permit it takes:  *)
(* a worker that runs with no permit left has acquired what every unparker *)
(* so far had published, so going to sleep again is safe.                  *)
PermitCarriesWork == pc = "running" /\ state = "LOCKED" => acquired = unparks

Parked == pc \in {"check", "wait", "blocked", "recheck", "consume"}

Host == INSTANCE HostContract WITH
    MaySpuriouslyReturn <- FALSE,
    parked <- Parked,
    permit <- state = "SIGNAL"

(* The parker keeps the contract of the trait Host and never returns from  *)
(* park without a permit; a parked worker with a permit returns.           *)
ImplementsHost == Host!Spec
ImplementsHostSafely == Host!SafeSpec
=============================================================================
