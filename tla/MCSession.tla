------------------------------ MODULE MCSession ------------------------------
(* A small instance of Session for TLC: a guest with two tools, of which    *)
(* the policy allows one, and a client that also calls a third.             *)
EXTENDS Session

CONSTANTS shown, denied, unknown

DecisionMC ==
  [t \in Names |-> IF t = shown THEN "allow" ELSE IF t = denied THEN "deny_policy"
                   ELSE "deny_unlisted"]
=============================================================================
