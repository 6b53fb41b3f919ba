---------------------------- MODULE MCLifoQueue ----------------------------
(* Instances of LifoQueue for TLC: queues of one or two slots, counters    *)
(* modulo 4.                                                               *)
EXTENDS LifoRefinement, TLC

CONSTANTS w1, w2, w3

\* The queue of the thief w2 has half the slots of the others.
SmallDest == [w \in Workers |-> IF w = w2 THEN 1 ELSE 2]

\* One item before the head wraps around, one before the push count does.
NearWrap == {<<3, 3>>}

(* w1 works on its queue, steals from itself and may leak a Drain; w2 and  *)
(* w3 steal from it at the same time; w3 steals what w2 has stolen, while  *)
(* w2 may go away.                                                         *)
Thieves == w1 :> {w1} @@ w2 :> {w1} @@ w3 :> {w1, w2}
AllOps == w1 :> {"push", "extend", "pop", "drain", "steal"}
       @@ w2 :> {"steal_and_pop", "drop"}
       @@ w3 :> {"steal"}

\* w1 drains its queue, and goes away, while w2 steals from it.
OwnerAndThief == [w \in Workers |-> IF w = w1 THEN {} ELSE {w1}]
DrainDropOps == [w \in Workers |-> IF w = w1 THEN {"extend", "drain", "drop"} ELSE {"steal"}]
=============================================================================
