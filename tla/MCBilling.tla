------------------------------ MODULE MCBilling ------------------------------
(***************************************************************************)
(* A workspace with a few purchases for TLC.                               *)
(***************************************************************************)
EXTENDS Billing, TLC

CONSTANTS a, b, t1, t2, p1, p2

MCProvider == [i \in Payments |-> IF i = a THEN "payme" ELSE "click"]
MCBorn     == [t \in Txns |-> 1]

Symmetry == Permutations(Handlers) \cup Permutations(Txns)
===============================================================================
