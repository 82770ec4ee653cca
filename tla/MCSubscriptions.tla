--------------------------- MODULE MCSubscriptions ---------------------------
(* Instances of Subscriptions for TLC.                                      *)
EXTENDS Subscriptions, TLC

CONSTANTS s1, s2, basic, pro, r1, r2

Deliveries ==
  {[ordered |-> TRUE, once |-> TRUE, freePlan |-> TRUE, events |-> 5],
   [ordered |-> TRUE, once |-> TRUE, freePlan |-> FALSE, events |-> 3],
   [ordered |-> FALSE, once |-> FALSE, freePlan |-> TRUE, events |-> 2]}
Twice == {[ordered |-> FALSE, once |-> FALSE, freePlan |-> TRUE, events |-> 1]}
=============================================================================
