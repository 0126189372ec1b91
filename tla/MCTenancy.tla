----------------------------- MODULE MCTenancy -----------------------------
(* A visitor who belongs to a colleague's company and may create another;  *)
(* an older account already holds the colleague's address.                  *)
EXTENDS Tenancy

SomeEmail == [u \in Users |-> IF u = Visitor THEN "own" ELSE "shared"]
OldAccount == {[clerk |-> "old", email |-> "shared"]}

SomeJoined ==
    [p \in Users \X Orgs |->
        IF p[2] # "o1" THEN None ELSE IF p[1] = Visitor THEN "org:guest" ELSE "org:admin"]

SomeOffered == {<<Visitor, "send">>, <<"w", "send">>}
=============================================================================
