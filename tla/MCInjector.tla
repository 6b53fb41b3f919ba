----------------------------- MODULE MCInjector -----------------------------
(* Instances of Injector for TLC: blocks of three slots, three threads.    *)
EXTENDS InjectorRefinement

CONSTANTS t1, t2, t3

push(v) == [op |-> "push", value |-> v]
pop == [op |-> "pop"]
is_empty == [op |-> "is_empty"]
len == [op |-> "len"]

Pushes(n) == [v \in 1 .. n |-> push(v)]
Scripted(a, b, c) == [t \in Threads |-> CASE t = t1 -> a [] t = t2 -> b [] t = t3 -> c]

(* Two pushes race for the first block and for the last slot; three pops   *)
(* are in one block when it is destroyed; somebody looks while head and    *)
(* tail are on boundaries; the head follows with two full blocks ahead.    *)
Workloads ==
    {Scripted(Pushes(2), <<push(3), pop>>, <<pop, pop>>),
     Scripted(Pushes(3) \o <<pop>>, <<pop>>, <<pop>>),
     Scripted(Pushes(4), <<pop, pop, pop>>, <<is_empty, len>>),
     Scripted(Pushes(6), <<pop, pop, pop, pop>>, <<>>)}
=============================================================================
