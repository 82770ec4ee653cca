----------------------------- MODULE Memberships -----------------------------
(***************************************************************************)
(* The members of one company and its invitations                          *)
(* (backend/src/modules/memberships, with CompanyRoleGuard and the         *)
(* acceptance of invitations during registration).  Every read and write   *)
(* of a handler is a step; nothing runs in a transaction.  A user stands   *)
(* for a person with an e-mail address, with or without an account.        *)
(***************************************************************************)
EXTENDS Integers, FiniteSets

CONSTANTS
  Users,
  Founder,   \* created the company and is its first OWNER
  Requests,  \* handlers in flight together
  Scopes,    \* what a behaviour may do
  NoUser, NoMember, NoInvite, Keep

Roles == {"OWNER", "ADMIN", "MEMBER", "VIEWER"}
Statuses == {"ACTIVE", "INVITED", "SUSPENDED"}
AddRoles == Roles \ {"OWNER"}          \* AddMemberSchema

ASSUME MembershipsAssumption ==
  /\ Founder \in Users
  /\ NoUser \notin Users /\ Keep \notin Roles \cup Statuses
  /\ Scopes \subseteq [serial : BOOLEAN, fails : BOOLEAN, adds : SUBSET AddRoles,
                       roles : SUBSET Roles, statuses : SUBSET Statuses]
  /\ NoMember \notin [role : Roles, status : Statuses]
  /\ NoInvite \notin [role : AddRoles, expired : BOOLEAN]

VARIABLES
  account,   \* users who have registered
  member,    \* the membership row of each user
  invite,    \* the pending invitation of each user's address
  requests,
  scope      \* chosen by Init: one handler at a time or several, may a handler
             \* fail, the roles that POST, the roles and statuses that
             \* PATCH sends; never changes

vars == <<account, member, invite, requests, scope>>

Ops == {"none", "addMember", "cancelInvitation", "register", "update", "remove"}

\* target is the row or address a handler works on; ids are not used again, so a
\* handler loses its target when the row is deleted.
Request ==
  [op : Ops,
   at : {"idle", "guarded", "acting", "user", "member", "invite", "count", "write"},
   actor : Users \cup {NoUser}, target : Users \cup {NoUser},
   role : Roles \cup {Keep}, status : Statuses \cup {Keep},
   seen : Roles \cup {Keep}]     \* the role the target was read with

Idle == [op |-> "none", at |-> "idle", actor |-> NoUser, target |-> NoUser,
         role |-> Keep, status |-> Keep, seen |-> Keep]

Init ==
  /\ account = {Founder}
  /\ member = [u \in Users |-> IF u = Founder THEN [role |-> "OWNER", status |-> "ACTIVE"]
                               ELSE NoMember]
  /\ invite = [u \in Users |-> NoInvite]
  /\ requests = [r \in Requests |-> Idle]
  /\ scope \in Scopes

Is(u, roles) ==
  u \in Users /\ member[u] # NoMember /\ member[u].status = "ACTIVE" /\ member[u].role \in roles

ActiveOwners == {u \in Users : Is(u, {"OWNER"})}

At(r, op, at) == requests[r].op = op /\ requests[r].at = at
Go(r, q) == requests' = [requests EXCEPT ![r] = q]
Step(r, at) == Go(r, [requests[r] EXCEPT !.at = at])
Respond(r) == Go(r, Idle)

\* CompanyRoleGuard, then the handler begins.
Guarded(r, op, actor, roles, q) ==
  /\ requests[r].at = "idle"
  /\ scope.serial => \A s \in Requests : requests[s].at = "idle"
  /\ Is(actor, roles)
  /\ Go(r, [q EXCEPT !.op = op, !.at = "guarded", !.actor = actor])
  /\ UNCHANGED <<account, member, invite, scope>>

-----------------------------------------------------------------------------
(* POST members                                                             *)

AddMember(r, actor, u, role) ==
  Guarded(r, "addMember", actor, {"OWNER", "ADMIN"},
          [Idle EXCEPT !.target = u, !.role = role])

\* Only the owner adds admins.
AddCheckActor(r) ==
  LET q == requests[r] IN
  /\ At(r, "addMember", "guarded")
  /\ IF q.role = "ADMIN" /\ ~Is(q.actor, {"OWNER"}) THEN Respond(r) ELSE Step(r, "user")
  /\ UNCHANGED <<account, member, invite, scope>>

\* Bug: the address is not looked up.
AddFindUser_NoLookup(r) ==
  /\ At(r, "addMember", "user")
  /\ Step(r, "member")
  /\ UNCHANGED <<account, member, invite, scope>>

AddFindUser(r) ==
  /\ At(r, "addMember", "user")
  /\ Step(r, IF requests[r].target \in account THEN "member" ELSE "invite")
  /\ UNCHANGED <<account, member, invite, scope>>

AddFindExisting(r) ==
  LET q == requests[r] IN
  /\ q.op = "addMember" /\ q.at \in {"member", "invite"} /\ q.seen = Keep
  /\ IF \/ q.at = "member" /\ member[q.target] # NoMember
        \/ q.at = "invite" /\ invite[q.target] # NoInvite
     THEN Respond(r)
     ELSE Go(r, [q EXCEPT !.seen = q.role])
  /\ UNCHANGED <<account, member, invite, scope>>

\* Bug: the row is written with upsert.
AddInsertMember_Upsert(r) ==
  LET q == requests[r] IN
  /\ At(r, "addMember", "member") /\ q.seen # Keep
  /\ member' = [member EXCEPT ![q.target] = [role |-> q.role, status |-> "ACTIVE"]]
  /\ Respond(r)
  /\ UNCHANGED <<account, invite, scope>>

\* @@unique([userId, companyId]) refuses a second row.
AddInsertMember(r) ==
  LET q == requests[r] IN
  /\ At(r, "addMember", "member") /\ q.seen # Keep
  /\ member' = IF member[q.target] # NoMember THEN member
               ELSE [member EXCEPT ![q.target] = [role |-> q.role, status |-> "ACTIVE"]]
  /\ Respond(r)
  /\ UNCHANGED <<account, invite, scope>>

\* @@unique([email, companyId]) refuses a second invitation.
AddInsertInvite(r) ==
  LET q == requests[r] IN
  /\ At(r, "addMember", "invite") /\ q.seen # Keep
  /\ invite' = IF invite[q.target] # NoInvite THEN invite
               ELSE [invite EXCEPT ![q.target] = [role |-> q.role, expired |-> FALSE]]
  /\ Respond(r)
  /\ UNCHANGED <<account, member, scope>>

\* Handlers of one kind that hold the deleted row or invitation lose it.
Forget(u, ops, s) ==
  IF requests[s].op \in ops /\ requests[s].target = u
  THEN [requests[s] EXCEPT !.target = NoUser] ELSE requests[s]

CancelInvitation(r, actor, u) ==
  /\ invite[u] # NoInvite
  /\ Guarded(r, "cancelInvitation", actor, {"OWNER", "ADMIN"}, [Idle EXCEPT !.target = u])

CancelDelete(r) ==
  LET u == requests[r].target IN
  /\ At(r, "cancelInvitation", "guarded")
  /\ invite' = [v \in Users |-> IF v = u THEN NoInvite ELSE invite[v]]
  /\ requests' = [s \in Requests |-> IF s = r THEN Idle ELSE Forget(u, {"cancelInvitation"}, s)]
  /\ UNCHANGED <<account, member, scope>>

\* Seven days pass.
Expire(u) ==
  /\ invite[u] # NoInvite /\ ~invite[u].expired
  /\ invite' = [invite EXCEPT ![u].expired = TRUE]
  /\ UNCHANGED <<account, member, requests, scope>>

-----------------------------------------------------------------------------
(* Registration: the account, then acceptPendingInvitations.                *)

Register(r, u) ==
  /\ requests[r].at = "idle" /\ u \notin account
  /\ scope.serial => \A s \in Requests : requests[s].at = "idle"
  /\ account' = account \cup {u}
  /\ Go(r, [Idle EXCEPT !.op = "register", !.at = "invite", !.target = u])
  /\ UNCHANGED <<member, invite, scope>>

AcceptFind(r) ==
  LET q == requests[r] IN
  /\ At(r, "register", "invite")
  /\ Go(r, IF invite[q.target] # NoInvite /\ ~invite[q.target].expired
           THEN [q EXCEPT !.at = "member", !.role = invite[q.target].role]
           ELSE [q EXCEPT !.at = "write"])
  /\ UNCHANGED <<account, member, invite, scope>>

\* A member already is left as it is; a row that appears after findUnique makes
\* the insert fail, and the invitations stay.
AcceptInsert(r) ==
  LET q == requests[r] IN
  /\ At(r, "register", "member")
  /\ IF member[q.target] # NoMember
     THEN UNCHANGED member /\ (Step(r, "write") \/ Respond(r))
     ELSE /\ member' = [member EXCEPT ![q.target] = [role |-> q.role, status |-> "ACTIVE"]]
          /\ Step(r, "write")
  /\ UNCHANGED <<account, invite, scope>>

\* Bug: only the invitations that were accepted are deleted.
AcceptDelete_AcceptedOnly(r) ==
  LET q == requests[r] IN
  /\ At(r, "register", "write")
  /\ invite' = IF q.role = Keep THEN invite ELSE [invite EXCEPT ![q.target] = NoInvite]
  /\ Respond(r)
  /\ UNCHANGED <<account, member, scope>>

\* Every invitation of the address goes, expired ones included.
AcceptDelete(r) ==
  LET u == requests[r].target IN
  /\ At(r, "register", "write")
  /\ invite' = [invite EXCEPT ![u] = NoInvite]
  /\ requests' = [s \in Requests |-> IF s = r THEN Idle ELSE Forget(u, {"cancelInvitation"}, s)]
  /\ UNCHANGED <<account, member, scope>>

-----------------------------------------------------------------------------
(* PATCH members/:id                                                        *)

Update(r, actor, u, role, status) ==
  /\ member[u] # NoMember
  /\ Guarded(r, "update", actor, {"OWNER", "ADMIN"},
             [Idle EXCEPT !.target = u, !.role = role, !.status = status])

\* Bug: an owner's role may be changed.
UpdateFind_AnyRole(r) ==
  LET q == requests[r] IN
  /\ At(r, "update", "guarded")
  /\ IF q.target = NoUser THEN Respond(r)
     ELSE Step(r, IF "ADMIN" \in {q.role, member[q.target].role} THEN "acting" ELSE "write")
  /\ UNCHANGED <<account, member, invite, scope>>

\* Bug: only the new role is looked at.
UpdateFind_NewRoleOnly(r) ==
  LET q == requests[r] IN
  /\ At(r, "update", "guarded")
  /\ IF q.target = NoUser \/ (member[q.target].role = "OWNER" /\ q.role \notin {Keep, "OWNER"})
     THEN Respond(r)
     ELSE Step(r, IF q.role = "ADMIN" THEN "acting" ELSE "write")
  /\ UNCHANGED <<account, member, invite, scope>>

\* "Cannot change an OWNER's role"; where an ADMIN is involved the actor is read.
UpdateFind(r) ==
  LET q == requests[r] IN
  /\ At(r, "update", "guarded")
  /\ IF q.target = NoUser \/ (member[q.target].role = "OWNER" /\ q.role \notin {Keep, "OWNER"})
     THEN Respond(r)
     ELSE Step(r, IF "ADMIN" \in {q.role, member[q.target].role} THEN "acting" ELSE "write")
  /\ UNCHANGED <<account, member, invite, scope>>

UpdateCheckActor(r) ==
  /\ At(r, "update", "acting")
  /\ IF Is(requests[r].actor, {"OWNER"}) THEN Step(r, "write") ELSE Respond(r)
  /\ UNCHANGED <<account, member, invite, scope>>

UpdateWrite(r) ==
  LET q == requests[r]
      old == member[q.target]
  IN
  /\ At(r, "update", "write")
  /\ member' = IF q.target = NoUser THEN member
               ELSE [member EXCEPT ![q.target] =
                       [role |-> IF q.role = Keep THEN old.role ELSE q.role,
                        status |-> IF q.status = Keep THEN old.status ELSE q.status]]
  /\ Respond(r)
  /\ UNCHANGED <<account, invite, scope>>

-----------------------------------------------------------------------------
(* DELETE members/:id                                                       *)

Remove(r, actor, u) ==
  /\ member[u] # NoMember
  /\ Guarded(r, "remove", actor, Roles, [Idle EXCEPT !.target = u])

\* Bug: an owner who leaves is not told from other members.
RemoveFind_NoOwnerCheck(r) ==
  LET q == requests[r] IN
  /\ At(r, "remove", "guarded")
  /\ IF q.target = NoUser THEN Respond(r)
     ELSE Go(r, [q EXCEPT !.seen = member[q.target].role,
                  !.at = IF q.target # q.actor THEN "acting" ELSE "write"])
  /\ UNCHANGED <<account, member, invite, scope>>

RemoveFind(r) ==
  LET q == requests[r] IN
  /\ At(r, "remove", "guarded")
  /\ IF q.target = NoUser THEN Respond(r)
     ELSE Go(r, [q EXCEPT !.seen = member[q.target].role,
                  !.at = IF q.target # q.actor THEN "acting"
                         ELSE IF member[q.target].role = "OWNER" THEN "count" ELSE "write"])
  /\ UNCHANGED <<account, member, invite, scope>>

\* "Cannot leave company as the last owner."
RemoveCount(r) ==
  /\ At(r, "remove", "count")
  /\ IF Cardinality(ActiveOwners) <= 1 THEN Respond(r) ELSE Step(r, "write")
  /\ UNCHANGED <<account, member, invite, scope>>

\* Bug: admins remove anyone.
RemoveCheckActor_Anyone(r) ==
  /\ At(r, "remove", "acting")
  /\ IF Is(requests[r].actor, {"OWNER", "ADMIN"}) THEN Step(r, "write") ELSE Respond(r)
  /\ UNCHANGED <<account, member, invite, scope>>

\* Admins cannot remove owners or other admins.
RemoveCheckActor(r) ==
  LET q == requests[r] IN
  /\ At(r, "remove", "acting")
  /\ IF \/ Is(q.actor, {"OWNER"})
        \/ Is(q.actor, {"ADMIN"}) /\ q.seen \notin {"OWNER", "ADMIN"}
     THEN Step(r, "write") ELSE Respond(r)
  /\ UNCHANGED <<account, member, invite, scope>>

RemoveDelete(r) ==
  LET u == requests[r].target IN
  /\ At(r, "remove", "write")
  /\ member' = [v \in Users |-> IF v = u THEN NoMember ELSE member[v]]
  /\ requests' = [s \in Requests |-> IF s = r THEN Idle ELSE Forget(u, {"update", "remove"}, s)]
  /\ UNCHANGED <<account, invite, scope>>

\* A statement fails, or the process dies: the handler goes no further.
Fail(r) ==
  /\ scope.fails /\ requests[r].at # "idle"
  /\ Respond(r)
  /\ UNCHANGED <<account, member, invite, scope>>

-----------------------------------------------------------------------------
Starts(r, u) ==
  \/ Register(r, u)
  \/ \E actor \in Users :
       \/ \E role \in scope.adds : AddMember(r, actor, u, role)
       \/ CancelInvitation(r, actor, u)
       \/ \E role \in scope.roles \cup {Keep}, status \in scope.statuses \cup {Keep} :
            Update(r, actor, u, role, status)
       \/ Remove(r, actor, u)

Continues(r) ==
  \/ AddCheckActor(r) \/ AddFindUser(r) \/ AddFindExisting(r)
  \/ AddInsertMember(r) \/ AddInsertInvite(r)
  \/ CancelDelete(r)
  \/ AcceptFind(r) \/ AcceptInsert(r) \/ AcceptDelete(r)
  \/ UpdateFind(r) \/ UpdateCheckActor(r) \/ UpdateWrite(r)
  \/ RemoveFind(r) \/ RemoveCount(r) \/ RemoveCheckActor(r) \/ RemoveDelete(r)
  \/ Fail(r)

Next ==
  \/ \E r \in Requests, u \in Users : Starts(r, u)
  \/ \E r \in Requests : Continues(r)
  \/ \E u \in Users : Expire(u)

Spec == Init /\ [][Next]_vars

-----------------------------------------------------------------------------
\* Members have accounts: an address without one is only ever invited.
TypeOK ==
  /\ account \subseteq Users
  /\ member \in [Users -> [role : Roles, status : Statuses] \cup {NoMember}]
  /\ \A u \in Users : member[u] # NoMember => u \in account
  /\ invite \in [Users -> [role : AddRoles, expired : BOOLEAN] \cup {NoInvite}]
  /\ requests \in [Requests -> Request]
  /\ scope \in Scopes

\* "Self-removal is allowed (except the last OWNER)": the company always has an
\* owner who can act, in behaviours that leave the status of members alone.
AlwaysAnOwner == scope.statuses = {} => ActiveOwners # {}

\* The same with one handler at a time, where owners appoint others and leave.
LastOwnerStays == scope.serial => AlwaysAnOwner

\* A company whose PATCH never made a second owner keeps its founder as owner,
\* however updates, removals and registrations overlap.
SoleOwnerStays ==
  scope.statuses = {} /\ "OWNER" \notin scope.roles => Is(Founder, {"OWNER"})

\* "Cannot change an OWNER's role", with one handler at a time.
OwnerRoleKept ==
  [][scope.serial =>
       \A u \in Users :
         member[u] # NoMember /\ member'[u] # NoMember /\ member[u].role = "OWNER"
           => member'[u].role = "OWNER"]_vars

\* "Only OWNER can promote to/modify ADMIN", "ADMINs cannot remove OWNERs or
\* other ADMINs": with one handler at a time, a step that makes, changes or
\* removes an admin, or removes an owner, serves an owner or someone who leaves.
HierarchyKept ==
  [][scope.serial =>
       \A u \in Users, r \in Requests :
         LET old == member[u]
             new == member'[u]
             RoleOf(m) == IF m = NoMember THEN "none" ELSE m.role
         IN  /\ old # new /\ requests[r].op \in {"addMember", "update", "remove"}
             /\ \/ "ADMIN" \in {RoleOf(old), RoleOf(new)}
                \/ RoleOf(old) = "OWNER" /\ new = NoMember
             => \/ Is(requests[r].actor, {"OWNER"})
                \/ requests[r].actor = u /\ new = NoMember]_vars

\* Only PATCH changes the role or status of someone who is a member: adding and
\* registering twice, or both at once, leave the first row as it is.
OnlyPatchChanges ==
  [][\A u \in Users :
       member[u] # NoMember /\ member'[u] # NoMember /\ member[u] # member'[u]
         => \E r \in Requests : At(r, "update", "write") /\ requests[r].target = u]_vars

\* "Auto-accept any pending company invitations": with one handler at a time and
\* none failing, whoever has an account has no invitation left.
InvitationsSettled ==
  scope.serial /\ ~scope.fails
    => \A u \in account : invite[u] # NoInvite
         => \E r \in Requests : requests[r].op = "register" /\ requests[r].target = u
=============================================================================
