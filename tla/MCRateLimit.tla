---------------------------- MODULE MCRateLimit ----------------------------
(* Two replicas and one browser; budgets small enough to be reached.       *)
EXTENDS RateLimit

OneOfEach == {[surface |-> "relay", browser |-> "b", vouched |-> TRUE],
              [surface |-> "sign", browser |-> "b", vouched |-> TRUE],
              [surface |-> "verify", browser |-> "b", vouched |-> FALSE]}

SmallBudgets == [w \in Windows |-> IF w = "sign-src" THEN 2 ELSE 1]
=============================================================================
