----------------------------- MODULE MCCompletion -----------------------------
(***************************************************************************)
(* One or two signed requests, up to two queue slots and two overlapping   *)
(* sweeps.                                                                 *)
(***************************************************************************)
EXTENDS Completion, TLC

CONSTANTS ann, bob, w1, w2, s1, s2

Symmetry == Permutations(People) \cup Permutations(Sweeps) \cup Permutations(Workers)
===============================================================================
