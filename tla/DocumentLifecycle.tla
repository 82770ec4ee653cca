-------------------------- MODULE DocumentLifecycle --------------------------
(***************************************************************************)
(* What the documents service promises of a document's status: it is       *)
(* created as a DRAFT, moves only along the transition map, may be removed *)
(* at any time, and its id never comes back.                               *)
(***************************************************************************)
EXTENDS DocumentStatuses

CONSTANT Docs
VARIABLE phase  \* "NONE" before a document exists, then its status, "REMOVED"

Init == phase = [d \in Docs |-> "NONE"]

Create(d) == phase[d] = "NONE" /\ phase' = [phase EXCEPT ![d] = "DRAFT"]

Move(d) ==
  /\ phase[d] \in Statuses
  /\ \E s \in Transitions[phase[d]] : phase' = [phase EXCEPT ![d] = s]

Remove(d) == phase[d] \in Statuses /\ phase' = [phase EXCEPT ![d] = "REMOVED"]

Next == \E d \in Docs : Create(d) \/ Move(d) \/ Remove(d)

Spec == Init /\ [][Next]_phase
=============================================================================
