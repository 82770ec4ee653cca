---------------------------- MODULE MCPlanLimits ----------------------------
(* Instances of PlanLimits for TLC.                                         *)
EXTENDS PlanLimits, TLC

CONSTANTS u1, c1, c2, r1, r2, r3

\* The same limit for everything.
Flat(n) == [res \in AllResources |-> n]

LowPlans == {Flat(0), [Flat(1) EXCEPT !["documents"] = Unlimited]}
OnePlan == {Flat(1)}

Parallel ==
  {[creates |-> {"companies", "contractors"}, ops |-> {"remove", "leave", "assignPlan"}],
   [creates |-> {"companies", "stamps"}, ops |-> {"remove", "join", "leave", "assignPlan"}],
   [creates |-> {"companies", "documents"}, ops |-> {"cancel", "restore", "grantCredits"}]}
Race == {[creates |-> {"companies", "contractors"}, ops |-> {}]}

Symmetry == Permutations(Companies) \cup Permutations(Requests)
=============================================================================
