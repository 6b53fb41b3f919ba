---------------------------- MODULE MCFifoQueue ----------------------------
(* Instances of FifoQueue for TLC: queues of one or two slots, counters    *)
(* modulo 4.                                                               *)
EXTENDS FifoRefinement, TLC

CONSTANTS w1, w2

\* The queue of the thief w2 has half the slots of the one of w1.
SmallDest == w1 :> 2 @@ w2 :> 1

\* Two items before the short positions wrap around.
NearWrap == {6}

\* Everybody steals from everybody, itself included, and may go away.
Everybody == [w \in Workers |-> Workers]
AllOps == [w \in Workers |->
    IF w = w1 THEN {"extend", "pop", "drain", "drop", "steal"}
    ELSE {"push", "pop", "steal", "steal_and_pop", "drop"}]
=============================================================================
