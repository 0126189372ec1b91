------------------------------ MODULE EnvelopeAbs ------------------------------
(***************************************************************************)
(* What an envelope promises the people on it, with no links, no requests  *)
(* in flight and no sweeps: who has signed, and how it ends.               *)
(***************************************************************************)
EXTENDS Naturals

CONSTANTS Recipients, Role, Order, Mode

VARIABLES
    state,    \* "none", "open", "completed", "voided", "expired" or "gone"
    signed    \* the signers whose signature is recorded

vars == <<state, signed>>

Signers == {r \in Recipients : Role[r] = "signer"}

Init == state = "none" /\ signed = {}

Open ==
    /\ state = "none"
    /\ state' = "open"
    /\ UNCHANGED signed

\* Only on an open envelope and, with sequential routing, only after everyone
\* in the earlier groups.
Sign(r) ==
    /\ state = "open"
    /\ Mode = "sequential" => \A s \in Signers : Order[s] < Order[r] => s \in signed
    /\ signed' = signed \cup {r}
    /\ UNCHANGED state

Complete ==
    /\ state = "open"
    /\ signed = Signers
    /\ state' = "completed"
    /\ UNCHANGED signed

Expire ==
    /\ state = "open"
    /\ state' = "expired"
    /\ UNCHANGED signed

Void ==
    /\ state \in {"open", "expired"}
    /\ state' = "voided"
    /\ UNCHANGED signed

\* The send is withdrawn and the envelope with it.
Withdraw ==
    /\ state # "none"
    /\ state' = "gone"
    /\ UNCHANGED signed

Next ==
    \/ Open \/ Complete \/ Expire \/ Void \/ Withdraw
    \/ \E r \in Signers : Sign(r)

Spec == Init /\ [][Next]_vars
===============================================================================
