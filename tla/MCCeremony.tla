----------------------------- MODULE MCCeremony -----------------------------
(* Instances of Ceremony for TLC. *)
EXTENDS Ceremony

f(id, type, required) == [id |-> id, type |-> type, required |-> required]

\* A signature, an optional initial, a required phone number and the date of
\* signing: a phone box can be left blank, half typed or acceptable.
SignedBoxes == {f("s", "signature", TRUE), f("i", "initial", FALSE), f("p", "phone", TRUE),
                f("d", "date", FALSE)}
=============================================================================
