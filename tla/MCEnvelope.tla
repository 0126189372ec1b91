------------------------------ MODULE MCEnvelope ------------------------------
(***************************************************************************)
(* Small envelopes for TLC: two or three people and two or three requests  *)
(* in flight.                                                              *)
(***************************************************************************)
EXTENDS Envelope, TLC

CONSTANTS ann, bob, cho, dan, p1, p2, p3

\* Who signs, and in which routing group.
AllSign     == [r \in Recipients |-> "signer"]
DanCopied   == [r \in Recipients |-> IF r = dan THEN "cc" ELSE "signer"]
OneGroup    == [r \in Recipients |-> 1]
BobNext     == [r \in Recipients |-> IF r \in {bob, dan} THEN 2 ELSE 1]

Symmetry == Permutations(Handlers)
===============================================================================
