---------------------------- MODULE HostContract ----------------------------
(***************************************************************************)
(* "The one invariant" of the trait Host (src/fanout/mod.rs), for one      *)
(* worker: unpark leaves a permit that the next park consumes, so a worker *)
(* with a permit does not stay parked.                                     *)
(***************************************************************************)
CONSTANT MaySpuriouslyReturn    \* whether park may return without a permit

VARIABLES parked, permit
vars == <<parked, permit>>

Init == parked = FALSE /\ permit = FALSE

\* park with a permit at hand takes it and does not block; otherwise it blocks.
ParkTakesPermit == ~ parked /\ permit /\ permit' = FALSE /\ UNCHANGED parked
ParkBlocks      == ~ parked /\ ~ permit /\ parked' = TRUE /\ UNCHANGED permit

\* A blocked park returns and consumes the permit, however many unparks left it.
Unblock == parked /\ permit /\ parked' = FALSE /\ permit' = FALSE

SpuriousReturn ==
    MaySpuriouslyReturn /\ parked /\ parked' = FALSE /\ UNCHANGED permit

Unpark == permit' = TRUE /\ UNCHANGED parked

Next == ParkTakesPermit \/ ParkBlocks \/ Unblock \/ SpuriousReturn \/ Unpark

SafeSpec == Init /\ [][Next]_vars
Spec == SafeSpec /\ WF_vars(Unblock)
=============================================================================
