---------------------------- MODULE MCMemberships ----------------------------
(* Instances of Memberships for TLC.                                        *)
EXTENDS Memberships, TLC

CONSTANTS u1, u2, u3, r1, r2

Scope(serial, fails, adds, roles, statuses) ==
  [serial |-> serial, fails |-> fails, adds |-> adds, roles |-> roles, statuses |-> statuses]

\* One handler at a time with every role and status; two without new owners.
Mixed == {Scope(TRUE, FALSE, AddRoles, Roles, {}),
          Scope(TRUE, TRUE, {"MEMBER"}, {"OWNER", "ADMIN"}, Statuses),
          Scope(FALSE, FALSE, {"ADMIN"}, {"VIEWER"}, {})}

Owners == {Scope(FALSE, FALSE, {"MEMBER"}, {"OWNER"}, {})}

Symmetry == Permutations(Users \ {Founder}) \cup Permutations(Requests)
=============================================================================
