------------------------- MODULE AtomicHost_proofs -------------------------
(* No wake is lost, a consumed permit carries what was published before it, *)
(* and the parker keeps the contract of Host, for any number of unparkers.  *)
EXTENDS AtomicHost, TLAPS

(* What the word may hold at each step of park. *)
WordMatchesPc ==
    /\ pc = "running" => state # "ASLEEP"
    /\ state = "LOCKED" => pc = "running"
    /\ pc = "consume" => state = "SIGNAL"

IInv == TypeOK /\ WordMatchesPc /\ NoLostWake /\ PermitCarriesWork

(* The inductive invariant holds initially: nobody is asleep. *)
LEMMA InitIInv == Init => IInv
BY DEF Init, IInv, TypeOK, WordMatchesPc, NoLostWake, PermitCarriesWork

(* Every step of park and unpark preserves it. *)
LEMMA NextIInv == IInv /\ [Next]_vars => IInv'
<1> SUFFICES ASSUME IInv, [Next]_vars PROVE IInv'
  OBVIOUS
<1> USE DEF IInv, TypeOK, WordMatchesPc, NoLostWake, PermitCarriesWork
<1>1. CASE ParkSwap
  BY <1>1 DEF ParkSwap
<1>2. CASE Take
  BY <1>2 DEF Take
<1>3. CASE Check
  BY <1>3 DEF Check
<1>4. CASE Wait
  BY <1>4 DEF Wait
<1>5. CASE Recheck
  BY <1>5 DEF Recheck
<1>6. CASE Consume
  BY <1>6 DEF Consume
<1>7. CASE SpuriousWake
  BY <1>7 DEF SpuriousWake
<1>8. ASSUME NEW u \in Unparkers, UnparkSwap(u) PROVE IInv'
  BY <1>8 DEF UnparkSwap
<1>9. ASSUME NEW u \in Unparkers, WakeOne(u) PROVE IInv'
  BY <1>9 DEF WakeOne
<1>10. CASE UNCHANGED vars
  BY <1>10 DEF vars
<1> QED
  BY <1>1, <1>2, <1>3, <1>4, <1>5, <1>6, <1>7, <1>8, <1>9, <1>10 DEF Next, Worker

(* Hence it holds for ever. *)
LEMMA AlwaysIInv == Spec => []IInv
BY InitIInv, NextIInv, PTL DEF Spec

(* However late wake_one comes and however often the wait is ended for     *)
(* nothing, a worker blocked in spite of a permit has a wake_one coming.   *)
THEOREM NoWakeIsLost == Spec => []NoLostWake
<1>1. IInv => NoLostWake
  BY DEF IInv
<1> QED
  BY <1>1, AlwaysIInv, PTL

(* Although park may swallow several permits at once, it acquires the      *)
(* publications behind all of them.                                        *)
THEOREM PermitsCarryWork == Spec => []PermitCarriesWork
<1>1. IInv => PermitCarriesWork
  BY DEF IInv
<1> QED
  BY <1>1, AlwaysIInv, PTL

(* The three-state word implements the one-permit contract of Host. *)
THEOREM KeepsHostContract == Spec => ImplementsHostSafely
<1>1. Init => Host!Init
  BY DEF Init, Host!Init, Parked
<1>2. IInv /\ [Next]_vars => [Host!Next]_(Host!vars)
  <2> SUFFICES ASSUME IInv, [Next]_vars PROVE [Host!Next]_(Host!vars)
    OBVIOUS
  <2> USE DEF IInv, TypeOK, WordMatchesPc, Parked, Host!Next, Host!vars,
              Host!ParkTakesPermit, Host!ParkBlocks, Host!Unblock, Host!Unpark
  <2>1. CASE ParkSwap
    BY <2>1 DEF ParkSwap
  <2>2. CASE Take
    BY <2>2 DEF Take
  <2>3. CASE Check \/ Wait \/ Recheck \/ SpuriousWake
    BY <2>3 DEF Check, Wait, Recheck, SpuriousWake
  <2>4. CASE Consume
    BY <2>4 DEF Consume
  <2>5. ASSUME NEW u \in Unparkers, UnparkSwap(u) PROVE [Host!Next]_(Host!vars)
    BY <2>5 DEF UnparkSwap
  <2>6. ASSUME NEW u \in Unparkers, WakeOne(u) PROVE [Host!Next]_(Host!vars)
    BY <2>6 DEF WakeOne
  <2>7. CASE UNCHANGED vars
    BY <2>7 DEF vars
  <2> QED
    BY <2>1, <2>2, <2>3, <2>4, <2>5, <2>6, <2>7 DEF Next, Worker
<1> QED
  BY <1>1, <1>2, AlwaysIInv, PTL DEF Spec, ImplementsHostSafely, Host!SafeSpec
=============================================================================
