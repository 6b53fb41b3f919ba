---------------------------- MODULE MCWakeOrder ----------------------------
(* WakeOrder for TLC: two publishers.                                      *)
EXTENDS WakeOrder

CONSTANTS p1, p2

(* A client injects or hands over, once or twice, while a worker, the one  *)
(* whose deque is looked at, publishes in any of the three ways.           *)
Workloads ==
    {s \in [Publishers -> UNION {[1 .. n -> Publications] : n \in 1 .. 2}] :
        "share" \notin {s[p1][k] : k \in DOMAIN s[p1]}}
=============================================================================
