----------------------------- MODULE MCTransfer -----------------------------
(* Every transfer between two rings, of a ring to itself included. *)
EXTENDS Transfer

CONSTANTS small, large

Rings == {small, large}
Sizes == [q \in Rings |-> IF q = small THEN 4 ELSE 8]
=============================================================================
