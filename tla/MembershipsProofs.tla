-------------------------- MODULE MembershipsProofs --------------------------
(***************************************************************************)
(* Proofs about Memberships, for any number of users and handlers.         *)
(***************************************************************************)
EXTENDS Memberships, FiniteSetTheorems, TLAPS

Member == [role : Roles, status : Statuses]
Invite == [role : AddRoles, expired : BOOLEAN]

\* What a handler carries: the roles its request may send, an address or a row
\* that still exists, an account where a membership is about to be created.
HandlerOK(q) ==
  /\ q.op = "addMember" => q.role \in AddRoles /\ q.target \in Users
  /\ q.op = "addMember" /\ q.at = "member" => q.target \in account
  /\ q.op = "register" => q.target \in account
  /\ q.op = "register" /\ q.at = "member" => q.role \in AddRoles
  /\ q.op = "update" => q.role \in scope.roles \cup {Keep}
                        /\ q.status \in scope.statuses \cup {Keep}
  /\ q.op \in {"update", "remove"} /\ q.target # NoUser => member[q.target] # NoMember

TypeInv == TypeOK /\ \A r \in Requests : HandlerOK(requests[r])

LEMMA IdleType == Idle \in Request /\ HandlerOK(Idle)
BY DEF Idle, Request, HandlerOK, Ops

LEMMA InitType == Init => TypeInv
<1> SUFFICES ASSUME Init PROVE TypeInv
  OBVIOUS
<1>1. Idle \in Request /\ HandlerOK(Idle)
  BY IdleType
<1>2. [role |-> "OWNER", status |-> "ACTIVE"] \in Member
  BY DEF Member, Roles, Statuses
<1>3. member \in [Users -> Member \cup {NoMember}]
  BY <1>2 DEF Init
<1>4. \A u \in Users : member[u] # NoMember => u \in account
  BY <1>2 DEF Init
<1>5. TypeOK
  BY <1>1, <1>3, <1>4, MembershipsAssumption DEF Init, TypeOK, Member
<1> QED BY <1>1, <1>5 DEF Init, TypeInv

\* A step that changes only the handler r, and leaves r well formed.
LEMMA HandlerStep ==
  ASSUME TypeInv, NEW r \in Requests, NEW q \in Request, HandlerOK(q), Go(r, q),
         UNCHANGED <<account, member, invite, scope>>
  PROVE  TypeInv'
<1>1. \A s \in Requests : requests'[s] = requests[s] \/ requests'[s] = q
  BY DEF Go, TypeInv, TypeOK
<1>2. \A s \in Requests : HandlerOK(requests[s])'
  BY <1>1 DEF TypeInv, HandlerOK
<1> QED BY <1>2 DEF TypeInv, TypeOK, Go

LEMMA StartsType ==
  ASSUME TypeInv, NEW r \in Requests, NEW u \in Users, Starts(r, u)
  PROVE  TypeInv'
<1>0. scope \in Scopes /\ TypeOK /\ Idle \in Request
  BY IdleType DEF TypeInv, TypeOK
<1>s. scope.adds \subseteq AddRoles /\ scope.roles \subseteq Roles /\ scope.statuses \subseteq Statuses
  BY <1>0, MembershipsAssumption
<1>a. ASSUME NEW op \in Ops, NEW actor \in Users, NEW roles, NEW q \in Request,
             HandlerOK([q EXCEPT !.op = op, !.at = "guarded", !.actor = actor]),
             Guarded(r, op, actor, roles, q)
      PROVE  TypeInv'
  BY <1>a, HandlerStep DEF Guarded, Request
<1>1. CASE Register(r, u)
  <2> DEFINE q == [Idle EXCEPT !.op = "register", !.at = "invite", !.target = u]
  <2>1. q \in Request
    BY DEF Idle, Request, Ops
  <2>2. requests' \in [Requests -> Request]
    BY <1>0, <1>1, <2>1 DEF Register, Go, TypeOK
  <2>3. TypeOK'
    BY <1>0, <1>1, <2>2 DEF Register, TypeOK
  <2>4. \A s \in Requests : HandlerOK(requests[s])'
    <3>1. \A s \in Requests : requests'[s] = requests[s] \/ requests'[s] = q
      BY <1>0, <1>1 DEF Register, Go, TypeOK
    <3>2. ASSUME NEW s \in Requests, requests'[s] = requests[s] PROVE HandlerOK(requests[s])'
      BY <1>1, <3>2 DEF Register, HandlerOK, TypeInv
    <3>3. ASSUME NEW s \in Requests, requests'[s] = q PROVE HandlerOK(requests[s])'
      BY <1>1, <3>3 DEF Register, HandlerOK, Idle
    <3> QED BY <3>1, <3>2, <3>3
  <2> QED BY <2>3, <2>4 DEF TypeInv
<1>2. ASSUME NEW actor \in Users, NEW role \in scope.adds, AddMember(r, actor, u, role)
      PROVE  TypeInv'
  <2> DEFINE q == [Idle EXCEPT !.target = u, !.role = role]
  <2>1. q \in Request /\ "addMember" \in Ops
    BY <1>s DEF Idle, Request, Ops, AddRoles
  <2>2. HandlerOK([q EXCEPT !.op = "addMember", !.at = "guarded", !.actor = actor])
    BY <1>s DEF HandlerOK, Idle
  <2> QED BY <1>2, <1>a, <2>1, <2>2 DEF AddMember
<1>3. ASSUME NEW actor \in Users, CancelInvitation(r, actor, u)
      PROVE  TypeInv'
  <2> DEFINE q == [Idle EXCEPT !.target = u]
  <2>1. q \in Request /\ "cancelInvitation" \in Ops
    BY DEF Idle, Request, Ops
  <2>2. HandlerOK([q EXCEPT !.op = "cancelInvitation", !.at = "guarded", !.actor = actor])
    BY DEF HandlerOK, Idle
  <2> QED BY <1>3, <1>a, <2>1, <2>2 DEF CancelInvitation
<1>4. ASSUME NEW actor \in Users, NEW role \in scope.roles \cup {Keep},
             NEW status \in scope.statuses \cup {Keep}, Update(r, actor, u, role, status)
      PROVE  TypeInv'
  <2> DEFINE q == [Idle EXCEPT !.target = u, !.role = role, !.status = status]
  <2>1. q \in Request /\ "update" \in Ops
    BY <1>s DEF Idle, Request, Ops
  <2>2. HandlerOK([q EXCEPT !.op = "update", !.at = "guarded", !.actor = actor])
    BY <1>4 DEF HandlerOK, Idle, Update
  <2> QED BY <1>4, <1>a, <2>1, <2>2 DEF Update
<1>5. ASSUME NEW actor \in Users, Remove(r, actor, u)
      PROVE  TypeInv'
  <2> DEFINE q == [Idle EXCEPT !.target = u]
  <2>1. q \in Request /\ "remove" \in Ops
    BY DEF Idle, Request, Ops
  <2>2. HandlerOK([q EXCEPT !.op = "remove", !.at = "guarded", !.actor = actor])
    BY <1>5 DEF HandlerOK, Idle, Remove
  <2> QED BY <1>5, <1>a, <2>1, <2>2 DEF Remove
<1> QED BY <1>1, <1>2, <1>3, <1>4, <1>5 DEF Starts

\* Writes of one row: the row keeps its type and no handler loses its footing.
LEMMA RowStep ==
  ASSUME TypeInv, NEW r \in Requests, NEW u \in account, NEW m \in Member,
         member' = member \/ member' = [member EXCEPT ![u] = m],
         NEW q \in Request, HandlerOK(q), q.op \notin {"update", "remove"}, Go(r, q),
         UNCHANGED <<account, invite, scope>>
  PROVE  TypeInv'
<1>1. \A s \in Requests : requests'[s] = requests[s] \/ requests'[s] = q
  BY DEF Go, TypeInv, TypeOK
<1>2. m # NoMember
  BY MembershipsAssumption DEF Member
<1>3. \A v \in Users : member'[v] = member[v] \/ (v = u /\ member'[v] = m)
  BY DEF TypeInv, TypeOK
<1>4. \A s \in Requests : HandlerOK(requests[s])'
  <2> SUFFICES ASSUME NEW s \in Requests PROVE HandlerOK(requests[s])'
    OBVIOUS
  <2>1. HandlerOK(requests'[s])
    BY <1>1 DEF TypeInv
  <2>2. requests'[s].target \in Users \cup {NoUser}
    BY <1>1 DEF TypeInv, TypeOK, Request
  <2> QED BY <1>2, <1>3, <2>1, <2>2 DEF HandlerOK
<1>5. TypeOK'
  BY <1>2, <1>3 DEF TypeInv, TypeOK, Go, Member
<1> QED BY <1>4, <1>5 DEF TypeInv

\* Deletions: a handler that held the row or the invitation loses it.
LEMMA ForgetStep ==
  ASSUME TypeInv, NEW r \in Requests, NEW u \in Users \cup {NoUser}, NEW ops \in SUBSET Ops,
         "addMember" \notin ops, "register" \notin ops,
         requests' = [s \in Requests |-> IF s = r THEN Idle ELSE Forget(u, ops, s)]
  PROVE  /\ requests' \in [Requests -> Request]
         /\ \A s \in Requests : HandlerOK(requests'[s])
         /\ \A s \in Requests : requests'[s].op \in ops => requests'[s].target # u
                                                        \/ requests'[s].target = NoUser
<1> SUFFICES ASSUME NEW s \in Requests
             PROVE  /\ requests'[s] \in Request
                    /\ HandlerOK(requests'[s])
                    /\ requests'[s].op \in ops => requests'[s].target # u
                                                  \/ requests'[s].target = NoUser
  OBVIOUS
<1>1. requests[s] \in Request /\ HandlerOK(requests[s])
  BY DEF TypeInv, TypeOK
<1>2. CASE s = r
  BY <1>2, IdleType DEF Idle
<1>3. CASE s # r
  BY <1>1, <1>3 DEF Forget, Request, HandlerOK
<1> QED BY <1>2, <1>3

LEMMA ContinuesType ==
  ASSUME TypeInv, NEW r \in Requests, Continues(r)
  PROVE  TypeInv'
<1> DEFINE q == requests[r]
<1>0. q \in Request /\ HandlerOK(q) /\ TypeOK /\ IdleType!1
  BY IdleType DEF TypeInv, TypeOK
<1>a. ASSUME Respond(r), UNCHANGED <<account, member, invite, scope>>
      PROVE  TypeInv'
  BY <1>a, IdleType, HandlerStep DEF Respond
<1>b. ASSUME NEW at \in {"acting", "user", "member", "invite", "count", "write"}, Step(r, at),
             q.op \in {"addMember", "register"} /\ at = "member" => q.target \in account,
             q.op = "register" /\ at = "member" => q.role \in AddRoles,
             UNCHANGED <<account, member, invite, scope>>
      PROVE  TypeInv'
  <2>1. [q EXCEPT !.at = at] \in Request /\ HandlerOK([q EXCEPT !.at = at])
    BY <1>0, <1>b DEF Request, HandlerOK
  <2> QED BY <1>b, <2>1, HandlerStep DEF Step
<1>1. CASE AddCheckActor(r)
  BY <1>1, <1>a, <1>b DEF AddCheckActor
<1>2. CASE AddFindUser(r)
  BY <1>2, <1>a, <1>b DEF AddFindUser, At
<1>3. CASE AddFindExisting(r)
  <2>1. q.op = "addMember"
    BY <1>3 DEF AddFindExisting
  <2>2. [q EXCEPT !.seen = q.role] \in Request /\ HandlerOK([q EXCEPT !.seen = q.role])
    BY <1>0, <2>1 DEF Request, HandlerOK, AddRoles
  <2> QED BY <1>3, <2>2, <1>a, HandlerStep DEF AddFindExisting
<1>4. CASE AddInsertMember(r)
  <2>1. q.target \in account /\ q.role \in AddRoles
    BY <1>0, <1>4 DEF AddInsertMember, At, HandlerOK
  <2>2. [role |-> q.role, status |-> "ACTIVE"] \in Member
    BY <2>1 DEF Member, AddRoles, Statuses
  <2>3. Idle.op = "none"
    BY DEF Idle
  <2> QED BY <1>4, <2>1, <2>2, <2>3, IdleType, RowStep DEF AddInsertMember, Respond
<1>5. CASE AddInsertInvite(r)
  <2>1. q.target \in Users /\ q.role \in AddRoles
    BY <1>0, <1>5 DEF AddInsertInvite, At, HandlerOK
  <2>2. invite' \in [Users -> Invite \cup {NoInvite}]
    BY <1>0, <1>5, <2>1 DEF AddInsertInvite, TypeOK, Invite
  <2>3. \A s \in Requests : requests'[s] = requests[s] \/ requests'[s] = Idle
    BY <1>0, <1>5 DEF AddInsertInvite, Respond, Go, TypeOK
  <2> QED BY <1>0, <1>5, <2>2, <2>3, IdleType
          DEF AddInsertInvite, TypeInv, TypeOK, Invite, HandlerOK, Respond, Go
<1>6. CASE CancelDelete(r)
  <2>1. q.target \in Users \cup {NoUser} /\ {"cancelInvitation"} \in SUBSET Ops
    BY <1>0 DEF Request, Ops
  <2>2. requests' \in [Requests -> Request] /\ \A s \in Requests : HandlerOK(requests'[s])
    BY <1>6, <2>1, ForgetStep DEF CancelDelete
  <2>3. invite' \in [Users -> Invite \cup {NoInvite}]
    BY <1>0, <1>6 DEF CancelDelete, TypeOK, Invite
  <2> QED BY <1>0, <1>6, <2>2, <2>3 DEF CancelDelete, TypeInv, TypeOK, Invite, HandlerOK
<1>7. CASE AcceptFind(r)
  <2>1. q.op = "register" /\ q.target \in account /\ q.target \in Users
    BY <1>0, <1>7 DEF AcceptFind, At, HandlerOK, TypeOK
  <2>2. CASE invite[q.target] # NoInvite /\ ~invite[q.target].expired
    <3> DEFINE p == [q EXCEPT !.at = "member", !.role = invite[q.target].role]
    <3>1. invite[q.target].role \in AddRoles
      BY <1>0, <2>1, <2>2 DEF TypeOK
    <3>2. p \in Request /\ HandlerOK(p)
      BY <1>0, <2>1, <3>1 DEF Request, HandlerOK, AddRoles
    <3> QED BY <1>7, <2>2, <3>2, HandlerStep DEF AcceptFind
  <2>3. CASE ~(invite[q.target] # NoInvite /\ ~invite[q.target].expired)
    BY <1>7, <2>3, <1>b DEF AcceptFind, Step
  <2> QED BY <2>2, <2>3
<1>8. CASE AcceptInsert(r)
  <2>1. q.op = "register" /\ q.target \in account /\ q.role \in AddRoles
    BY <1>0, <1>8 DEF AcceptInsert, At, HandlerOK
  <2>2. [role |-> q.role, status |-> "ACTIVE"] \in Member
    BY <2>1 DEF Member, AddRoles, Statuses
  <2>3. [q EXCEPT !.at = "write"] \in Request /\ HandlerOK([q EXCEPT !.at = "write"])
        /\ [q EXCEPT !.at = "write"].op = "register"
    BY <1>0, <2>1 DEF Request, HandlerOK
  <2>4. Idle.op = "none"
    BY DEF Idle
  <2> QED BY <1>8, <2>1, <2>2, <2>3, <2>4, IdleType, RowStep DEF AcceptInsert, Respond, Step
<1>9. CASE AcceptDelete(r)
  <2>1. q.target \in Users \cup {NoUser} /\ {"cancelInvitation"} \in SUBSET Ops
    BY <1>0 DEF Request, Ops
  <2>2. requests' \in [Requests -> Request] /\ \A s \in Requests : HandlerOK(requests'[s])
    BY <1>9, <2>1, ForgetStep DEF AcceptDelete
  <2>3. invite' \in [Users -> Invite \cup {NoInvite}]
    BY <1>0, <1>9 DEF AcceptDelete, TypeOK, Invite
  <2> QED BY <1>0, <1>9, <2>2, <2>3 DEF AcceptDelete, TypeInv, TypeOK, Invite, HandlerOK
<1>10. CASE UpdateFind(r)
  BY <1>10, <1>a, <1>b DEF UpdateFind, At
<1>11. CASE UpdateCheckActor(r)
  BY <1>11, <1>a, <1>b DEF UpdateCheckActor
<1>12. CASE UpdateWrite(r)
  <2>1. CASE q.target = NoUser
    BY <1>12, <2>1, <1>a DEF UpdateWrite
  <2>2. CASE q.target # NoUser
    <3> DEFINE old == member[q.target]
               m == [role |-> IF q.role = Keep THEN old.role ELSE q.role,
                     status |-> IF q.status = Keep THEN old.status ELSE q.status]
    <3>1. q.target \in Users /\ old # NoMember
      BY <1>0, <1>12, <2>2 DEF UpdateWrite, At, HandlerOK, Request
    <3>2. old \in Member /\ q.target \in account
      BY <1>0, <3>1 DEF TypeOK, Member
    <3>3. m \in Member
      BY <1>0, <3>2 DEF Member, Request
    <3>4. member' = [member EXCEPT ![q.target] = m] /\ Go(r, Idle)
          /\ UNCHANGED <<account, invite, scope>>
      BY <1>12, <2>2 DEF UpdateWrite, Respond
    <3>5. Idle.op = "none"
      BY DEF Idle
    <3> HIDE DEF m
    <3> QED BY <3>2, <3>3, <3>4, <3>5, IdleType, RowStep
  <2> QED BY <2>1, <2>2
<1>13. CASE RemoveFind(r)
  <2>1. CASE q.target = NoUser
    BY <1>13, <2>1, <1>a DEF RemoveFind
  <2>2. CASE q.target # NoUser
    <3>1. q.op = "remove" /\ q.target \in Users /\ member[q.target] # NoMember
      BY <1>0, <1>13, <2>2 DEF RemoveFind, At, HandlerOK, Request
    <3>2. member[q.target].role \in Roles
      BY <1>0, <3>1 DEF TypeOK
    <3>3. PICK at \in {"acting", "count", "write"} :
            Go(r, [q EXCEPT !.seen = member[q.target].role, !.at = at])
      BY <1>13, <2>2 DEF RemoveFind
    <3>4. [q EXCEPT !.seen = member[q.target].role, !.at = at] \in Request
          /\ HandlerOK([q EXCEPT !.seen = member[q.target].role, !.at = at])
      BY <1>0, <3>1, <3>2 DEF Request, HandlerOK
    <3> QED BY <1>13, <3>3, <3>4, HandlerStep DEF RemoveFind
  <2> QED BY <2>1, <2>2
<1>14. CASE RemoveCount(r)
  BY <1>14, <1>a, <1>b DEF RemoveCount
<1>15. CASE RemoveCheckActor(r)
  BY <1>15, <1>a, <1>b DEF RemoveCheckActor
<1>16. CASE RemoveDelete(r)
  <2> DEFINE ops == {"update", "remove"}
  <2>1. q.target \in Users \cup {NoUser} /\ ops \in SUBSET Ops
    BY <1>0 DEF Request, Ops
  <2>2. /\ requests' \in [Requests -> Request]
        /\ \A s \in Requests : HandlerOK(requests'[s])
        /\ \A s \in Requests : requests'[s].op \in ops => requests'[s].target # q.target
                                                        \/ requests'[s].target = NoUser
    BY <1>16, <2>1, ForgetStep DEF RemoveDelete
  <2>3. TypeOK'
    BY <1>0, <1>16, <2>2 DEF RemoveDelete, TypeOK
  <2>4. ASSUME NEW s \in Requests PROVE HandlerOK(requests[s])'
    <3>1. requests'[s].target \in Users \cup {NoUser}
      BY <2>2 DEF Request
    <3> QED BY <1>16, <2>2, <3>1 DEF RemoveDelete, HandlerOK
  <2> QED BY <2>3, <2>4 DEF TypeInv
<1>17. CASE Fail(r)
  BY <1>17, <1>a DEF Fail
<1> QED BY <1>1, <1>2, <1>3, <1>4, <1>5, <1>6, <1>7, <1>8, <1>9, <1>10, <1>11, <1>12,
           <1>13, <1>14, <1>15, <1>16, <1>17 DEF Continues

LEMMA NextType == TypeInv /\ [Next]_vars => TypeInv'
<1> SUFFICES ASSUME TypeInv, [Next]_vars PROVE TypeInv'
  OBVIOUS
<1>1. ASSUME NEW u \in Users, Expire(u) PROVE TypeInv'
  <2>1. invite' \in [Users -> Invite \cup {NoInvite}]
    BY <1>1 DEF Expire, TypeInv, TypeOK, Invite
  <2> QED BY <1>1, <2>1 DEF Expire, TypeInv, TypeOK, Invite, HandlerOK
<1>2. CASE UNCHANGED vars
  BY <1>2 DEF vars, TypeInv, TypeOK, HandlerOK
<1> QED BY <1>1, <1>2, StartsType, ContinuesType DEF Next

\* Every variable keeps its type, and only accounts are members, under any
\* interleaving of invitations, registrations, updates, removals and failures.
THEOREM TypeCorrect == Spec => []TypeOK
BY InitType, NextType, PTL DEF Spec, TypeInv

-----------------------------------------------------------------------------
\* PATCH sends no status and makes no owner.
NoNewOwners == scope.statuses = {} /\ "OWNER" \notin scope.roles

\* No handler that has been let through removes the founder or takes the role.
Harmless(q) ==
  q.target = Founder =>
    /\ ~(q.op = "remove" /\ q.at = "write")
    /\ q.op = "remove" /\ q.at = "acting" => q.actor # Founder /\ q.seen = "OWNER"
    /\ q.op = "update" /\ q.at \in {"acting", "write"} => q.role = Keep

OnlyOwner ==
  /\ member[Founder] = [role |-> "OWNER", status |-> "ACTIVE"]
  /\ \A u \in Users : member[u] # NoMember /\ member[u].role = "OWNER" => u = Founder

SoleInv == NoNewOwners => OnlyOwner /\ \A r \in Requests : Harmless(requests[r])

LEMMA SoleInit == Init => SoleInv
<1> SUFFICES ASSUME Init PROVE SoleInv
  OBVIOUS
<1>1. OnlyOwner
  BY MembershipsAssumption DEF Init, OnlyOwner
<1>2. Harmless(Idle)
  BY MembershipsAssumption DEF Harmless, Idle
<1> QED BY <1>1, <1>2 DEF Init, SoleInv

\* The founder is the only user whom CompanyRoleGuard takes for an owner.
LEMMA FounderOnly ==
  ASSUME TypeInv, OnlyOwner
  PROVE  /\ ActiveOwners = {Founder}
         /\ Cardinality(ActiveOwners) = 1
         /\ \A u : Is(u, {"OWNER"}) => u = Founder
<1>1. member[Founder] # NoMember
  BY MembershipsAssumption DEF TypeInv, TypeOK, OnlyOwner, Roles, Statuses
<1>2. ActiveOwners = {Founder}
  BY <1>1, MembershipsAssumption DEF ActiveOwners, Is, OnlyOwner
<1>3. Cardinality(ActiveOwners) = 1
  BY <1>2, FS_Singleton
<1> QED BY <1>2, <1>3 DEF Is, OnlyOwner

\* A step of handler r that leaves the rows alone.
LEMMA SoleHandlerStep ==
  ASSUME TypeInv, OnlyOwner, \A s \in Requests : Harmless(requests[s]),
         NEW r \in Requests, NEW q, Harmless(q), Go(r, q), UNCHANGED member
  PROVE  OnlyOwner' /\ \A s \in Requests : Harmless(requests'[s])
<1>1. \A s \in Requests : requests'[s] = requests[s] \/ requests'[s] = q
  BY DEF Go, TypeInv, TypeOK
<1> QED BY <1>1 DEF OnlyOwner

LEMMA SoleStarts ==
  ASSUME TypeInv, NoNewOwners, OnlyOwner, \A s \in Requests : Harmless(requests[s]),
         NEW r \in Requests, NEW u \in Users, Starts(r, u)
  PROVE  OnlyOwner' /\ \A s \in Requests : Harmless(requests'[s])
<1>1. \E q : Go(r, q) /\ q.at \notin {"acting", "write"} /\ UNCHANGED member
  <2>a. \A op, actor, fields : [[Idle EXCEPT !.target = u] EXCEPT
            !.op = op, !.at = "guarded", !.actor = actor].at = "guarded"
    BY DEF Idle
  <2>1. CASE Register(r, u)
    BY <2>1 DEF Register, Idle
  <2>2. ASSUME NEW actor \in Users, NEW role \in scope.adds, AddMember(r, actor, u, role)
        PROVE  \E q : Go(r, q) /\ q.at \notin {"acting", "write"} /\ UNCHANGED member
    BY <2>2 DEF AddMember, Guarded, Idle
  <2>3. ASSUME NEW actor \in Users, CancelInvitation(r, actor, u)
        PROVE  \E q : Go(r, q) /\ q.at \notin {"acting", "write"} /\ UNCHANGED member
    BY <2>3 DEF CancelInvitation, Guarded, Idle
  <2>4. ASSUME NEW actor \in Users, NEW role \in scope.roles \cup {Keep},
               NEW status \in scope.statuses \cup {Keep}, Update(r, actor, u, role, status)
        PROVE  \E q : Go(r, q) /\ q.at \notin {"acting", "write"} /\ UNCHANGED member
    BY <2>4 DEF Update, Guarded, Idle
  <2>5. ASSUME NEW actor \in Users, Remove(r, actor, u)
        PROVE  \E q : Go(r, q) /\ q.at \notin {"acting", "write"} /\ UNCHANGED member
    BY <2>5 DEF Remove, Guarded, Idle
  <2> QED BY <2>1, <2>2, <2>3, <2>4, <2>5 DEF Starts
<1>2. PICK q : Go(r, q) /\ q.at \notin {"acting", "write"} /\ UNCHANGED member
  BY <1>1
<1>3. Harmless(q)
  BY <1>2 DEF Harmless
<1> QED BY <1>2, <1>3, SoleHandlerStep

LEMMA SoleContinues ==
  ASSUME TypeInv, NoNewOwners, OnlyOwner, \A s \in Requests : Harmless(requests[s]),
         NEW r \in Requests, Continues(r)
  PROVE  OnlyOwner' /\ \A s \in Requests : Harmless(requests'[s])
<1> DEFINE q == requests[r]
           Goal == OnlyOwner' /\ \A s \in Requests : Harmless(requests'[s])
<1>0. q \in Request /\ HandlerOK(q) /\ Harmless(q) /\ TypeOK
  BY DEF TypeInv, TypeOK
<1>h. Harmless(Idle)
  BY MembershipsAssumption DEF Harmless, Idle
<1>f. Founder \in Users /\ member[Founder] # NoMember /\ member[Founder].role = "OWNER"
  BY <1>0, MembershipsAssumption DEF OnlyOwner, TypeOK, Roles, Statuses
<1>a. ASSUME Respond(r), UNCHANGED member PROVE Goal
  BY <1>a, <1>h, SoleHandlerStep DEF Respond
<1>b. ASSUME NEW p, Go(r, p), p.op \in {"addMember", "register"}, UNCHANGED member
      PROVE  Goal
  <2>1. Harmless(p)
    BY <1>b DEF Harmless
  <2> QED BY <1>b, <2>1, SoleHandlerStep
<1>c. ASSUME NEW u \in Users, NEW role \in AddRoles, member[u] = NoMember,
             member' = [member EXCEPT ![u] = [role |-> role, status |-> "ACTIVE"]]
      PROVE  OnlyOwner'
  BY <1>0, <1>c, <1>f DEF OnlyOwner, TypeOK, AddRoles
<1>1. CASE AddCheckActor(r) \/ AddFindUser(r)
  <2>1. PICK at : Respond(r) \/ Go(r, [q EXCEPT !.at = at])
    BY <1>1 DEF AddCheckActor, AddFindUser, Step
  <2>2. [q EXCEPT !.at = at].op = "addMember" /\ UNCHANGED member
    BY <1>0, <1>1 DEF AddCheckActor, AddFindUser, At, Request
  <2> QED BY <2>1, <2>2, <1>a, <1>b
<1>2. CASE AddFindExisting(r)
  <2>1. [q EXCEPT !.seen = q.role].op = "addMember" /\ UNCHANGED member
    BY <1>0, <1>2 DEF AddFindExisting, Request
  <2> QED BY <1>2, <2>1, <1>a, <1>b DEF AddFindExisting
<1>3. CASE AddInsertMember(r)
  <2>1. q.target \in Users /\ q.role \in AddRoles
    BY <1>0, <1>3 DEF AddInsertMember, At, HandlerOK
  <2>2. OnlyOwner'
    BY <1>3, <2>1, <1>c DEF AddInsertMember, OnlyOwner
  <2>3. \A s \in Requests : requests'[s] = requests[s] \/ requests'[s] = Idle
    BY <1>0, <1>3 DEF AddInsertMember, Respond, Go, TypeOK
  <2> QED BY <2>2, <2>3, <1>h
<1>4. CASE AddInsertInvite(r)
  BY <1>4, <1>a DEF AddInsertInvite
<1>5. CASE CancelDelete(r) \/ AcceptDelete(r)
  <2>1. \A s \in Requests : \/ requests'[s] = Idle \/ requests'[s] = requests[s]
                             \/ requests'[s].target = NoUser
    BY <1>0, <1>5 DEF CancelDelete, AcceptDelete, Forget, TypeOK, Request
  <2>2. UNCHANGED member
    BY <1>5 DEF CancelDelete, AcceptDelete
  <2> QED BY <2>1, <2>2, <1>h, MembershipsAssumption DEF Harmless, OnlyOwner
<1>6. CASE AcceptFind(r)
  <2>1. q.op = "register" /\ UNCHANGED member
    BY <1>6 DEF AcceptFind, At
  <2>2. [q EXCEPT !.at = "member", !.role = invite[q.target].role].op = "register"
        /\ [q EXCEPT !.at = "write"].op = "register"
    BY <1>0, <2>1 DEF Request
  <2> QED BY <1>6, <2>1, <2>2, <1>b DEF AcceptFind
<1>7. CASE AcceptInsert(r)
  <2>1. q.op = "register" /\ q.target \in Users /\ q.role \in AddRoles
    BY <1>0, <1>7 DEF AcceptInsert, At, HandlerOK, TypeOK
  <2>2. OnlyOwner'
    BY <1>7, <2>1, <1>c DEF AcceptInsert, OnlyOwner
  <2>3. \A s \in Requests : \/ requests'[s] = requests[s] \/ requests'[s] = Idle
                             \/ requests'[s] = [q EXCEPT !.at = "write"]
    BY <1>0, <1>7 DEF AcceptInsert, Respond, Step, Go, TypeOK
  <2>4. Harmless([q EXCEPT !.at = "write"])
    BY <1>0, <2>1 DEF Harmless, Request
  <2> QED BY <2>2, <2>3, <2>4, <1>h
<1>8. CASE UpdateFind(r)
  <2>1. q.op = "update" /\ UNCHANGED member
    BY <1>8 DEF UpdateFind, At
  <2>2. q.role # "OWNER"
    BY <1>0, <2>1, MembershipsAssumption DEF HandlerOK, NoNewOwners, Roles
  <2>3. ASSUME NEW at \in {"acting", "write"}, Go(r, [q EXCEPT !.at = at]),
               ~(member[q.target].role = "OWNER" /\ q.role \notin {Keep, "OWNER"})
        PROVE  Goal
    <3>1. Harmless([q EXCEPT !.at = at])
      BY <1>0, <1>f, <2>1, <2>2, <2>3 DEF Harmless, Request
    <3> QED BY <2>1, <2>3, <3>1, SoleHandlerStep
  <2> QED BY <1>8, <2>1, <2>3, <1>a DEF UpdateFind, Step
<1>9. CASE UpdateCheckActor(r)
  <2>1. q.op = "update" /\ q.at = "acting" /\ UNCHANGED member
    BY <1>9 DEF UpdateCheckActor, At
  <2>2. Harmless([q EXCEPT !.at = "write"])
    BY <1>0, <2>1 DEF Harmless, Request
  <2> QED BY <1>9, <2>1, <2>2, <1>a, SoleHandlerStep DEF UpdateCheckActor, Step
<1>10. CASE UpdateWrite(r)
  <2>1. q.op = "update" /\ q.at = "write" /\ Respond(r)
    BY <1>10 DEF UpdateWrite, At
  <2>2. q.status = Keep /\ q.role # "OWNER"
    BY <1>0, <2>1, MembershipsAssumption DEF HandlerOK, NoNewOwners, Roles
  <2>3. CASE q.target = NoUser
    BY <1>10, <2>1, <2>3, <1>a DEF UpdateWrite
  <2>4. CASE q.target # NoUser
    <3> DEFINE old == member[q.target]
    <3>1. q.target \in Users /\ old # NoMember
      BY <1>0, <2>1, <2>4 DEF HandlerOK, Request
    <3>2. member' = [member EXCEPT ![q.target] =
                       [role |-> IF q.role = Keep THEN old.role ELSE q.role,
                        status |-> old.status]]
      BY <1>10, <2>2, <2>4 DEF UpdateWrite
    <3>3. q.target = Founder => q.role = Keep
      BY <1>0, <2>1 DEF Harmless
    <3>4. member'[Founder] = [role |-> "OWNER", status |-> "ACTIVE"]
      BY <1>0, <1>f, <3>1, <3>2, <3>3 DEF OnlyOwner, TypeOK
    <3>5. \A u \in Users : member'[u] # NoMember /\ member'[u].role = "OWNER" => u = Founder
      BY <1>0, <2>2, <3>1, <3>2 DEF OnlyOwner, TypeOK
    <3>6. \A s \in Requests : requests'[s] = requests[s] \/ requests'[s] = Idle
      BY <1>0, <2>1 DEF Respond, Go, TypeOK
    <3> QED BY <3>4, <3>5, <3>6, <1>h DEF OnlyOwner
  <2> QED BY <2>3, <2>4
<1>11. CASE RemoveFind(r)
  <2>1. q.op = "remove" /\ UNCHANGED member
    BY <1>11 DEF RemoveFind, At
  <2>2. CASE q.target = NoUser
    BY <1>11, <2>1, <2>2, <1>a DEF RemoveFind
  <2>3. CASE q.target # NoUser
    <3> DEFINE at == IF q.target # q.actor THEN "acting"
                     ELSE IF member[q.target].role = "OWNER" THEN "count" ELSE "write"
               p == [q EXCEPT !.seen = member[q.target].role, !.at = at]
    <3>1. Go(r, p)
      BY <1>11, <2>3 DEF RemoveFind
    <3>2. /\ p.op = "remove" /\ p.at = at /\ p.seen = member[q.target].role
          /\ p.target = q.target /\ p.actor = q.actor
      BY <1>0, <2>1 DEF Request
    <3>3. Harmless(p)
      BY <1>f, <3>2 DEF Harmless
    <3> QED BY <2>1, <3>1, <3>3, SoleHandlerStep
  <2> QED BY <2>2, <2>3
<1>12. CASE RemoveCount(r)
  <2>1. Respond(r) /\ UNCHANGED member
    BY <1>12, FounderOnly DEF RemoveCount
  <2> QED BY <2>1, <1>a
<1>13. CASE RemoveCheckActor(r)
  <2>1. q.op = "remove" /\ q.at = "acting" /\ UNCHANGED member
    BY <1>13 DEF RemoveCheckActor, At
  <2>2. CASE q.target = Founder
    <3>1. q.actor # Founder /\ q.seen = "OWNER"
      BY <1>0, <2>1, <2>2 DEF Harmless
    <3>2. Respond(r)
      BY <1>13, <3>1, FounderOnly DEF RemoveCheckActor
    <3> QED BY <2>1, <3>2, <1>a
  <2>3. CASE q.target # Founder
    <3>1. Harmless([q EXCEPT !.at = "write"])
      BY <1>0, <2>3 DEF Harmless, Request
    <3> QED BY <1>13, <2>1, <3>1, <1>a, SoleHandlerStep DEF RemoveCheckActor, Step
  <2> QED BY <2>2, <2>3
<1>14. CASE RemoveDelete(r)
  <2>1. q.target # Founder
    BY <1>0, <1>14 DEF RemoveDelete, At, Harmless
  <2>2. OnlyOwner'
    BY <1>14, <1>f, <2>1 DEF RemoveDelete, OnlyOwner
  <2>3. \A s \in Requests : \/ requests'[s] = Idle \/ requests'[s] = requests[s]
                             \/ requests'[s].target = NoUser
    BY <1>0, <1>14 DEF RemoveDelete, Forget, TypeOK, Request
  <2> QED BY <2>2, <2>3, <1>h, MembershipsAssumption DEF Harmless
<1>15. CASE Fail(r)
  BY <1>15, <1>a DEF Fail
<1> QED BY <1>1, <1>2, <1>3, <1>4, <1>5, <1>6, <1>7, <1>8, <1>9, <1>10, <1>11, <1>12,
           <1>13, <1>14, <1>15 DEF Continues

LEMMA ScopeStays == ASSUME [Next]_vars PROVE UNCHANGED scope
<1>1. ASSUME NEW r \in Requests, NEW u \in Users, Starts(r, u) PROVE UNCHANGED scope
  BY <1>1 DEF Starts, Register, AddMember, CancelInvitation, Update, Remove, Guarded
<1>2. ASSUME NEW r \in Requests, Continues(r) PROVE UNCHANGED scope
  BY <1>2 DEF Continues, AddCheckActor, AddFindUser, AddFindExisting, AddInsertMember,
              AddInsertInvite, CancelDelete, AcceptFind, AcceptInsert, AcceptDelete,
              UpdateFind, UpdateCheckActor, UpdateWrite, RemoveFind, RemoveCount,
              RemoveCheckActor, RemoveDelete, Fail
<1> QED BY <1>1, <1>2 DEF Next, Expire, vars

LEMMA SoleNext == TypeInv /\ SoleInv /\ [Next]_vars => SoleInv'
<1> SUFFICES ASSUME TypeInv, SoleInv, [Next]_vars, NoNewOwners'
             PROVE  OnlyOwner' /\ \A r \in Requests : Harmless(requests'[r])
  BY DEF SoleInv, Harmless
<1>1. UNCHANGED scope
  BY ScopeStays
<1>2. NoNewOwners /\ OnlyOwner /\ \A r \in Requests : Harmless(requests[r])
  BY <1>1 DEF NoNewOwners, SoleInv
<1>3. CASE UNCHANGED <<member, requests>>
  BY <1>2, <1>3 DEF OnlyOwner
<1> QED BY <1>2, <1>3, SoleStarts, SoleContinues DEF Next, Expire, vars

\* A company whose PATCH never makes a second owner, nor touches a status, keeps
\* its founder as owner however the handlers overlap: the count of owners read
\* before leaving, and the roles read before a removal or an update, can be
\* stale, but never about the founder.
THEOREM FounderStaysOwner == Spec => []SoleOwnerStays
<1>1. SoleInv /\ TypeInv => SoleOwnerStays
  BY MembershipsAssumption
     DEF SoleInv, NoNewOwners, OnlyOwner, SoleOwnerStays, Is, TypeInv, TypeOK, Roles, Statuses
<1> QED BY <1>1, InitType, NextType, SoleInit, SoleNext, PTL DEF Spec

-----------------------------------------------------------------------------
(* The steps that write a membership row                                     *)

Inserts(r) ==
  LET q == requests[r] IN
  /\ AddInsertMember(r) \/ AcceptInsert(r)
  /\ member[q.target] = NoMember
  /\ member' = [member EXCEPT ![q.target] = [role |-> q.role, status |-> "ACTIVE"]]

Patches(r) == UpdateWrite(r) /\ requests[r].target \in Users

LEMMA RowsChange ==
  ASSUME TypeInv, [Next]_vars
  PROVE  member' = member \/ \E r \in Requests : Inserts(r) \/ Patches(r) \/ RemoveDelete(r)
<1>1. ASSUME NEW r \in Requests, NEW u \in Users, Starts(r, u) PROVE member' = member
  BY <1>1 DEF Starts, Register, AddMember, CancelInvitation, Update, Remove, Guarded
<1>2. ASSUME NEW r \in Requests, AddInsertMember(r) PROVE member' = member \/ Inserts(r)
  BY <1>2 DEF AddInsertMember, Inserts
<1>3. ASSUME NEW r \in Requests, AcceptInsert(r) PROVE member' = member \/ Inserts(r)
  BY <1>3 DEF AcceptInsert, Inserts
<1>4. ASSUME NEW r \in Requests, UpdateWrite(r) PROVE member' = member \/ Patches(r)
  BY <1>4 DEF UpdateWrite, Patches, TypeInv, TypeOK, Request
<1>5. ASSUME NEW r \in Requests, Continues(r)
      PROVE  \/ member' = member
             \/ AddInsertMember(r) \/ AcceptInsert(r) \/ UpdateWrite(r) \/ RemoveDelete(r)
  BY <1>5 DEF Continues, AddCheckActor, AddFindUser, AddFindExisting, AddInsertInvite, CancelDelete,
              AcceptFind, AcceptDelete, UpdateFind, UpdateCheckActor, RemoveFind, RemoveCount,
              RemoveCheckActor, Fail
<1> QED BY <1>1, <1>2, <1>3, <1>4, <1>5 DEF Next, Expire, vars

\* The row that a PATCH writes.
LEMMA PatchedRow ==
  ASSUME TypeInv, NEW r \in Requests, Patches(r)
  PROVE  LET q == requests[r]
             u == q.target
         IN  /\ q.op = "update" /\ q.at = "write" /\ member[u] # NoMember /\ member'[u] \in Member
             /\ member'[u].role = IF q.role = Keep THEN member[u].role ELSE q.role
             /\ member'[u].status = IF q.status = Keep THEN member[u].status ELSE q.status
             /\ \A v \in Users \ {u} : member'[v] = member[v]
<1> DEFINE q == requests[r]
           u == q.target
           new == [role |-> IF q.role = Keep THEN member[u].role ELSE q.role,
                   status |-> IF q.status = Keep THEN member[u].status ELSE q.status]
<1>1. q \in Request /\ u \in Users /\ u # NoUser /\ q.op = "update" /\ q.at = "write"
  BY MembershipsAssumption DEF Patches, UpdateWrite, At, TypeInv, TypeOK
<1>2. member[u] # NoMember /\ member \in [Users -> Member \cup {NoMember}]
  BY <1>1 DEF TypeInv, TypeOK, HandlerOK, Member
<1>3. new \in Member
  BY <1>1, <1>2 DEF Member, Request
<1>4. member' = [member EXCEPT ![u] = new]
  BY <1>1 DEF Patches, UpdateWrite
<1>5. member'[u] = new /\ \A v \in Users \ {u} : member'[v] = member[v]
  BY <1>1, <1>2, <1>4
<1> QED BY <1>1, <1>2, <1>3, <1>5

\* However requests overlap, adding and registering never touch a row that is there:
\* only PATCH changes the role or the status of a member.
THEOREM OnlyPatchChangesRows == Spec => OnlyPatchChanges
<1> DEFINE Kept ==
      \A u \in Users :
       member[u] # NoMember /\ member'[u] # NoMember /\ member[u] # member'[u]
         => \E r \in Requests : At(r, "update", "write") /\ requests[r].target = u
<1>1. TypeInv /\ [Next]_vars => Kept
  <2> SUFFICES ASSUME TypeInv, [Next]_vars, NEW u \in Users,
                      member[u] # NoMember, member'[u] # NoMember, member[u] # member'[u]
               PROVE  \E r \in Requests : At(r, "update", "write") /\ requests[r].target = u
    OBVIOUS
  <2>1. ASSUME NEW r \in Requests, Inserts(r) PROVE FALSE
    BY <2>1 DEF Inserts, TypeInv, TypeOK
  <2>2. ASSUME NEW r \in Requests, RemoveDelete(r) PROVE FALSE
    BY <2>2 DEF RemoveDelete
  <2>3. ASSUME NEW r \in Requests, Patches(r)
        PROVE  At(r, "update", "write") /\ requests[r].target = u
    BY <2>3, PatchedRow DEF At
  <2> QED BY <2>1, <2>2, <2>3, RowsChange
<1> QED BY <1>1, InitType, NextType, PTL DEF Spec, OnlyPatchChanges

-----------------------------------------------------------------------------
(* One handler at a time                                                     *)

Busy(r) == requests[r].at # "idle"

\* What a handler that runs alone has checked still holds when it goes on.
Checked(q) ==
  /\ q.at = "idle" => q.op = "none"
  /\ q.op = "addMember" =>
       /\ q.at # "guarded" /\ q.role = "ADMIN" => Is(q.actor, {"OWNER"})
       /\ q.at = "invite" => q.target \notin account
  /\ q.op = "register" /\ q.at \in {"invite", "member"} => member[q.target] = NoMember
  /\ q.op = "update" /\ q.at \in {"acting", "write"} =>
       /\ q.target # NoUser
       /\ member[q.target].role = "OWNER" => q.role \in {Keep, "OWNER"}
       /\ q.at = "write" /\ "ADMIN" \in {q.role, member[q.target].role} => Is(q.actor, {"OWNER"})
  /\ q.op = "remove" /\ q.at \in {"acting", "count", "write"} =>
       /\ q.target # NoUser /\ q.seen = member[q.target].role
       /\ q.at = "acting" => q.target # q.actor
       /\ q.at = "count" => q.target = q.actor
       /\ q.at = "write" =>
            \/ q.target = q.actor /\ (q.seen = "OWNER" => ~(Cardinality(ActiveOwners) <= 1))
            \/ q.target # q.actor /\ Is(q.actor, {"OWNER"})
            \/ q.seen \notin {"OWNER", "ADMIN"}

Alone ==
  scope.serial =>
    /\ \A r, s \in Requests : Busy(r) /\ Busy(s) => r = s
    /\ \A r \in Requests : Checked(requests[r])

\* Members whom no PATCH has suspended can act.
AllActive ==
  scope.statuses = {} => \A u \in Users : member[u] # NoMember => member[u].status = "ACTIVE"

AloneInv == Alone /\ AllActive /\ LastOwnerStays /\ InvitationsSettled

LEMMA IdleChecked == Checked(Idle) /\ Checked(Idle)'
BY DEF Checked, Idle

LEMMA CheckedStays ==
  ASSUME UNCHANGED <<account, member>>, NEW q, Checked(q)
  PROVE  Checked(q)'
BY DEF Checked, Is, ActiveOwners

\* A request that begins with every handler idle.
LEMMA CheckedStarts ==
  ASSUME TypeInv, NEW r \in Requests, NEW u \in Users, Starts(r, u), scope.serial
  PROVE  /\ \A s \in Requests : ~Busy(s)
         /\ \E q : requests' = [requests EXCEPT ![r] = q] /\ Checked(q)'
<1>1. ASSUME NEW op \in Ops \ {"none", "register"}, NEW actor, NEW roles, NEW q \in Request,
             Guarded(r, op, actor, roles, q)
      PROVE  /\ \A s \in Requests : ~Busy(s)
             /\ \E p : requests' = [requests EXCEPT ![r] = p] /\ Checked(p)'
  <2> DEFINE p == [q EXCEPT !.op = op, !.at = "guarded", !.actor = actor]
  <2>1. p.op = op /\ p.at = "guarded"
    BY DEF Request
  <2>2. requests' = [requests EXCEPT ![r] = p]
    BY <1>1 DEF Guarded, Go
  <2>3. \A s \in Requests : ~Busy(s)
    BY <1>1 DEF Guarded, Busy
  <2> HIDE DEF p
  <2>4. Checked(p)'
    BY <1>1, <2>1 DEF Checked
  <2> QED BY <2>2, <2>3, <2>4
<1>2. CASE Register(r, u)
  <2> DEFINE q == [Idle EXCEPT !.op = "register", !.at = "invite", !.target = u]
  <2>1. q.op = "register" /\ q.at = "invite" /\ q.target = u
    BY DEF Idle
  <2>2. member'[u] = NoMember
    BY <1>2 DEF Register, TypeInv, TypeOK
  <2>3. requests' = [requests EXCEPT ![r] = q] /\ \A s \in Requests : ~Busy(s)
    BY <1>2 DEF Register, Go, Busy
  <2> HIDE DEF q
  <2>4. Checked(q)'
    BY <2>1, <2>2 DEF Checked
  <2> QED BY <2>3, <2>4
<1>3. scope.adds \subseteq AddRoles /\ scope.roles \subseteq Roles /\ scope.statuses \subseteq Statuses
  BY MembershipsAssumption DEF TypeInv, TypeOK
<1>4. ASSUME NEW role \in AddRoles \cup Roles \cup {Keep}, NEW status \in Statuses \cup {Keep}
      PROVE  [Idle EXCEPT !.target = u, !.role = role, !.status = status] \in Request
  BY DEF Idle, Request, Ops, AddRoles
<1>5. ASSUME NEW role \in AddRoles PROVE [Idle EXCEPT !.target = u, !.role = role] \in Request
  BY DEF Idle, Request, Ops, AddRoles
<1>6. [Idle EXCEPT !.target = u] \in Request
  BY DEF Idle, Request, Ops
<1>7. {"addMember", "cancelInvitation", "update", "remove"} \subseteq Ops \ {"none", "register"}
  BY DEF Ops
<1>8. ASSUME NEW actor \in Users, NEW role \in scope.adds, AddMember(r, actor, u, role)
      PROVE  /\ \A s \in Requests : ~Busy(s)
             /\ \E p : requests' = [requests EXCEPT ![r] = p] /\ Checked(p)'
  BY <1>1, <1>3, <1>5, <1>7, <1>8 DEF AddMember
<1>9. ASSUME NEW actor \in Users, CancelInvitation(r, actor, u) \/ Remove(r, actor, u)
      PROVE  /\ \A s \in Requests : ~Busy(s)
             /\ \E p : requests' = [requests EXCEPT ![r] = p] /\ Checked(p)'
  BY <1>1, <1>6, <1>7, <1>9 DEF CancelInvitation, Remove
<1>10. ASSUME NEW actor \in Users, NEW role \in scope.roles \cup {Keep},
              NEW status \in scope.statuses \cup {Keep}, Update(r, actor, u, role, status)
       PROVE  /\ \A s \in Requests : ~Busy(s)
              /\ \E p : requests' = [requests EXCEPT ![r] = p] /\ Checked(p)'
  BY <1>1, <1>3, <1>4, <1>7, <1>10 DEF Update
<1> QED BY <1>2, <1>8, <1>9, <1>10 DEF Starts

\* The handler that runs checks, and what it has checked holds.
LEMMA CheckedContinues ==
  ASSUME TypeInv, NEW r \in Requests, Continues(r), Checked(requests[r])
  PROVE  Checked(requests[r])'
<1> DEFINE q == requests[r]
<1>0. q \in Request /\ HandlerOK(q) /\ TypeOK /\ requests \in [Requests -> Request]
  BY DEF TypeInv, TypeOK
<1>a. ASSUME Respond(r) PROVE Checked(requests[r])'
  BY <1>0, <1>a, IdleChecked DEF Respond, Go
<1>b. ASSUME NEW p, Go(r, p), Checked(p), UNCHANGED <<account, member>> PROVE Checked(requests[r])'
  <2>1. requests'[r] = p
    BY <1>0, <1>b DEF Go
  <2> QED BY <1>b, <2>1, CheckedStays
<1>c. ASSUME NEW at \in {"acting", "user", "member", "invite", "count", "write"}, Step(r, at),
             UNCHANGED <<account, member>>, Checked([q EXCEPT !.at = at])
      PROVE  Checked(requests[r])'
  BY <1>b, <1>c DEF Step
<1>d. ASSUME NEW at PROVE /\ [q EXCEPT !.at = at].at = at
                          /\ [q EXCEPT !.at = at].op = q.op /\ [q EXCEPT !.at = at].role = q.role
                          /\ [q EXCEPT !.at = at].target = q.target /\ [q EXCEPT !.at = at].actor = q.actor
                          /\ [q EXCEPT !.at = at].seen = q.seen
  BY <1>0 DEF Request
<1>1. CASE AddCheckActor(r)
  <2>1. q.op = "addMember" /\ q.at = "guarded" /\ UNCHANGED <<account, member>>
    BY <1>1 DEF AddCheckActor, At
  <2>2. ~(q.role = "ADMIN" /\ ~Is(q.actor, {"OWNER"})) => Checked([q EXCEPT !.at = "user"])
    BY <2>1, <1>d DEF Checked
  <2> QED BY <1>1, <1>a, <1>c, <2>1, <2>2 DEF AddCheckActor
<1>2. CASE AddFindUser(r)
  <2>1. q.op = "addMember" /\ q.at = "user" /\ UNCHANGED <<account, member>>
    BY <1>2 DEF AddFindUser, At
  <2>2. Checked([q EXCEPT !.at = "member"])
    BY <2>1, <1>d DEF Checked
  <2>3. q.target \notin account => Checked([q EXCEPT !.at = "invite"])
    BY <2>1, <1>d DEF Checked
  <2> QED BY <1>2, <1>c, <2>1, <2>2, <2>3 DEF AddFindUser
<1>3. CASE AddFindExisting(r)
  <2> DEFINE p == [q EXCEPT !.seen = q.role]
  <2>1. q.op = "addMember" /\ UNCHANGED <<account, member>>
    BY <1>3 DEF AddFindExisting
  <2>2. /\ p.op = q.op /\ p.at = q.at /\ p.role = q.role /\ p.actor = q.actor /\ p.target = q.target
    BY <1>0 DEF Request
  <2>3. Respond(r) \/ Go(r, p)
    BY <1>3 DEF AddFindExisting
  <2> HIDE DEF p
  <2>4. Checked(p)
    BY <2>1, <2>2 DEF Checked
  <2> QED BY <1>a, <1>b, <2>1, <2>3, <2>4
<1>4. CASE AddInsertMember(r) \/ AddInsertInvite(r) \/ UpdateWrite(r) \/ Fail(r)
  BY <1>4, <1>a DEF AddInsertMember, AddInsertInvite, UpdateWrite, Fail
<1>5. CASE CancelDelete(r) \/ AcceptDelete(r) \/ RemoveDelete(r)
  <2>1. requests'[r] = Idle
    BY <1>0, <1>5 DEF CancelDelete, AcceptDelete, RemoveDelete
  <2> QED BY <2>1, IdleChecked
<1>6. CASE AcceptFind(r)
  <2> DEFINE p == [q EXCEPT !.at = "member", !.role = invite[q.target].role]
  <2>1. q.op = "register" /\ q.at = "invite" /\ UNCHANGED <<account, member>>
    BY <1>6 DEF AcceptFind, At
  <2>2. p.op = q.op /\ p.at = "member" /\ p.target = q.target
    BY <1>0 DEF Request
  <2>3. Go(r, p) \/ Step(r, "write")
    BY <1>6 DEF AcceptFind, Step
  <2> HIDE DEF p
  <2>4. Checked(p) /\ Checked([q EXCEPT !.at = "write"])
    BY <2>1, <2>2, <1>d DEF Checked
  <2> QED BY <1>b, <1>c, <2>1, <2>3, <2>4
<1>7. CASE AcceptInsert(r)
  <2>1. q.op = "register" /\ (Respond(r) \/ Step(r, "write"))
    BY <1>7 DEF AcceptInsert, At
  <2>2. CASE Step(r, "write")
    <3>1. requests'[r].op = "register" /\ requests'[r].at = "write"
      BY <1>0, <1>d, <2>1, <2>2 DEF Step, Go
    <3> QED BY <3>1 DEF Checked
  <2> QED BY <1>a, <2>1, <2>2
<1>8. CASE UpdateFind(r)
  <2>1. q.op = "update" /\ q.at = "guarded" /\ UNCHANGED <<account, member>>
    BY <1>8 DEF UpdateFind, At
  <2>2. ASSUME q.target # NoUser, ~(member[q.target].role = "OWNER" /\ q.role \notin {Keep, "OWNER"})
        PROVE  /\ Checked([q EXCEPT !.at = "acting"])
               /\ "ADMIN" \notin {q.role, member[q.target].role} => Checked([q EXCEPT !.at = "write"])
    BY <2>1, <2>2, <1>d DEF Checked
  <2> QED BY <1>8, <1>a, <1>c, <2>1, <2>2 DEF UpdateFind
<1>9. CASE UpdateCheckActor(r)
  <2>1. q.op = "update" /\ q.at = "acting" /\ UNCHANGED <<account, member>>
    BY <1>9 DEF UpdateCheckActor, At
  <2>2. Is(q.actor, {"OWNER"}) => Checked([q EXCEPT !.at = "write"])
    BY <2>1, <1>d DEF Checked
  <2> QED BY <1>9, <1>a, <1>c, <2>1, <2>2 DEF UpdateCheckActor
<1>10. CASE RemoveFind(r)
  <2> DEFINE at == IF q.target # q.actor THEN "acting"
                   ELSE IF member[q.target].role = "OWNER" THEN "count" ELSE "write"
             p == [q EXCEPT !.seen = member[q.target].role, !.at = at]
  <2>1. q.op = "remove" /\ q.at = "guarded" /\ UNCHANGED <<account, member>>
    BY <1>10 DEF RemoveFind, At
  <2>2. /\ p.op = q.op /\ p.at = at /\ p.target = q.target /\ p.actor = q.actor
        /\ p.seen = member[q.target].role
    BY <1>0 DEF Request
  <2>3. Respond(r) \/ (q.target # NoUser /\ Go(r, p))
    BY <1>10 DEF RemoveFind
  <2> HIDE DEF p
  <2>4. q.target # NoUser => Checked(p)
    BY <2>1, <2>2 DEF Checked
  <2> QED BY <1>a, <1>b, <2>1, <2>3, <2>4
<1>11. CASE RemoveCount(r)
  <2>1. q.op = "remove" /\ q.at = "count" /\ UNCHANGED <<account, member>>
    BY <1>11 DEF RemoveCount, At
  <2>2. ~(Cardinality(ActiveOwners) <= 1) => Checked([q EXCEPT !.at = "write"])
    BY <2>1, <1>d DEF Checked
  <2> QED BY <1>11, <1>a, <1>c, <2>1, <2>2 DEF RemoveCount
<1>12. CASE RemoveCheckActor(r)
  <2>1. q.op = "remove" /\ q.at = "acting" /\ UNCHANGED <<account, member>>
    BY <1>12 DEF RemoveCheckActor, At
  <2>2. Is(q.actor, {"OWNER"}) \/ (Is(q.actor, {"ADMIN"}) /\ q.seen \notin {"OWNER", "ADMIN"})
          => Checked([q EXCEPT !.at = "write"])
    BY <2>1, <1>d DEF Checked
  <2> QED BY <1>12, <1>a, <1>c, <2>1, <2>2 DEF RemoveCheckActor
<1> QED BY <1>1, <1>2, <1>3, <1>4, <1>5, <1>6, <1>7, <1>8, <1>9, <1>10, <1>11, <1>12 DEF Continues

\* The other handlers stay idle.
LEMMA ContinuesAlone ==
  ASSUME TypeInv, Alone, scope.serial, NEW r \in Requests, Continues(r)
  PROVE  /\ Busy(r)
         /\ \A s \in Requests : s # r => ~Busy(s) /\ requests[s].op = "none" /\ requests'[s] = requests[s]
<1>0. requests \in [Requests -> Request]
  BY DEF TypeInv, TypeOK
<1>1. Busy(r)
  BY DEF Continues, Busy, At, AddCheckActor, AddFindUser, AddFindExisting, AddInsertMember,
         AddInsertInvite, CancelDelete, AcceptFind, AcceptInsert, AcceptDelete, UpdateFind,
         UpdateCheckActor, UpdateWrite, RemoveFind, RemoveCount, RemoveCheckActor, RemoveDelete, Fail
<1>2. \A s \in Requests : s # r => ~Busy(s) /\ requests[s].op = "none"
  BY <1>1 DEF Alone, Checked, Busy
<1>3. CASE CancelDelete(r) \/ AcceptDelete(r) \/ RemoveDelete(r)
  BY <1>1, <1>2, <1>3 DEF CancelDelete, AcceptDelete, RemoveDelete, Forget
<1>4. CASE ~(CancelDelete(r) \/ AcceptDelete(r) \/ RemoveDelete(r))
  <2>1. \E q : requests' = [requests EXCEPT ![r] = q]
    BY <1>4 DEF Continues, Respond, Step, Go, AddCheckActor, AddFindUser, AddFindExisting, AddInsertMember,
         AddInsertInvite, AcceptFind, AcceptInsert, UpdateFind,
         UpdateCheckActor, UpdateWrite, RemoveFind, RemoveCount, RemoveCheckActor, Fail
  <2> QED BY <1>0, <1>1, <1>2, <2>1
<1> QED BY <1>3, <1>4

LEMMA AloneStep ==
  ASSUME TypeInv, Alone, [Next]_vars
  PROVE  Alone'
<1> SUFFICES ASSUME scope.serial
             PROVE  /\ \A r, s \in Requests : Busy(r)' /\ Busy(s)' => r = s
                    /\ \A r \in Requests : Checked(requests[r])'
  BY ScopeStays DEF Alone
<1>0. requests \in [Requests -> Request]
  BY DEF TypeInv, TypeOK
<1>1. ASSUME NEW r \in Requests, NEW u \in Users, Starts(r, u)
      PROVE  /\ \A p, s \in Requests : Busy(p)' /\ Busy(s)' => p = s
             /\ \A s \in Requests : Checked(requests[s])'
  <2>1. /\ \A s \in Requests : ~Busy(s)
        /\ \E q : requests' = [requests EXCEPT ![r] = q] /\ Checked(q)'
    BY <1>1, CheckedStarts
  <2>2. \A s \in Requests : s # r => requests'[s] = requests[s]
    BY <1>0, <2>1
  <2>3. Checked(requests[r])'
    BY <1>0, <2>1
  <2>4. ASSUME NEW s \in Requests, s # r PROVE Checked(requests[s])'
    <3>1. requests'[s].at = "idle" /\ requests'[s].op = "none"
      BY <2>1, <2>2, <2>4 DEF Alone, Checked, Busy
    <3> QED BY <3>1 DEF Checked
  <2> QED BY <2>1, <2>2, <2>3, <2>4 DEF Busy
<1>2. ASSUME NEW r \in Requests, Continues(r)
      PROVE  /\ \A p, s \in Requests : Busy(p)' /\ Busy(s)' => p = s
             /\ \A s \in Requests : Checked(requests[s])'
  <2>1. \A s \in Requests : s # r => ~Busy(s) /\ requests[s].op = "none" /\ requests'[s] = requests[s]
    BY <1>2, ContinuesAlone
  <2>2. Checked(requests[r])'
    BY <1>2, CheckedContinues DEF Alone
  <2>3. ASSUME NEW s \in Requests, s # r PROVE Checked(requests[s])'
    <3>1. requests'[s].at = "idle" /\ requests'[s].op = "none"
      BY <2>1, <2>3 DEF Busy
    <3> QED BY <3>1 DEF Checked
  <2> QED BY <2>1, <2>2, <2>3 DEF Busy
<1>3. ASSUME UNCHANGED <<account, member, requests>>
      PROVE  /\ \A p, s \in Requests : Busy(p)' /\ Busy(s)' => p = s
             /\ \A s \in Requests : Checked(requests[s])'
  <2>1. \A s \in Requests : requests'[s] = requests[s]
    BY <1>3
  <2>2. ASSUME NEW s \in Requests PROVE Checked(requests[s])'
    <3>1. PICK q : q = requests[s]
      OBVIOUS
    <3>2. Checked(q)'
      BY <1>3, <3>1, CheckedStays DEF Alone
    <3> QED BY <2>1, <3>1, <3>2
  <2> QED BY <2>1, <2>2 DEF Busy, Alone
<1> QED BY <1>1, <1>2, <1>3 DEF Next, Expire, vars

LEMMA AllActiveStep ==
  ASSUME TypeInv, AllActive, [Next]_vars
  PROVE  AllActive'
<1> SUFFICES ASSUME scope.statuses = {}, NEW u \in Users, member'[u] # NoMember
             PROVE  member'[u].status = "ACTIVE"
  BY ScopeStays DEF AllActive
<1>1. member[u] # NoMember => member[u].status = "ACTIVE"
  BY DEF AllActive
<1>2. ASSUME NEW r \in Requests, Inserts(r) PROVE member'[u].status = "ACTIVE"
  BY <1>1, <1>2 DEF Inserts, TypeInv, TypeOK
<1>3. ASSUME NEW r \in Requests, Patches(r) PROVE member'[u].status = "ACTIVE"
  <2>1. requests[r].op = "update" /\ HandlerOK(requests[r])
    BY <1>3, PatchedRow DEF TypeInv
  <2>2. requests[r].status = Keep
    BY <2>1 DEF HandlerOK
  <2> QED BY <1>1, <1>3, <2>2, PatchedRow
<1>4. ASSUME NEW r \in Requests, RemoveDelete(r) PROVE member'[u].status = "ACTIVE"
  BY <1>1, <1>4 DEF RemoveDelete
<1> QED BY <1>1, <1>2, <1>3, <1>4, RowsChange

\* Of two owners one stays when the other leaves.
LEMMA AnotherOwner ==
  ASSUME NEW u, ~(Cardinality(ActiveOwners) <= 1)
  PROVE  \E v \in ActiveOwners : v # u
<1> SUFFICES ASSUME \A v \in ActiveOwners : v = u PROVE FALSE
  OBVIOUS
<1>1. ActiveOwners = {} \/ ActiveOwners = {u}
  OBVIOUS
<1>2. Cardinality(ActiveOwners) = 0 \/ Cardinality(ActiveOwners) = 1
  <2>1. CASE ActiveOwners = {}
    BY <2>1, FS_EmptySet
  <2>2. CASE ActiveOwners = {u}
    BY <2>2, FS_Singleton
  <2> QED BY <1>1, <2>1, <2>2
<1> QED BY <1>2

LEMMA OwnersStep ==
  ASSUME TypeInv, Alone, AllActive, LastOwnerStays, [Next]_vars
  PROVE  LastOwnerStays'
<1> SUFFICES ASSUME scope.serial, scope.statuses = {}
             PROVE  \E o \in Users : Is(o, {"OWNER"})'
  BY ScopeStays DEF LastOwnerStays, AlwaysAnOwner, ActiveOwners
<1>0. AllActive' /\ UNCHANGED scope
  BY AllActiveStep, ScopeStays
<1>1. PICK o \in Users : Is(o, {"OWNER"})
  BY DEF LastOwnerStays, AlwaysAnOwner, ActiveOwners
<1>2. \A u \in Users : member'[u] = member[u] => (Is(u, {"OWNER"}) => Is(u, {"OWNER"})')
  BY DEF Is
<1>3. CASE member' = member
  BY <1>1, <1>2, <1>3
<1>4. ASSUME NEW r \in Requests, Inserts(r) PROVE Is(o, {"OWNER"})'
  BY <1>1, <1>2, <1>4 DEF Inserts, Is, TypeInv, TypeOK
<1>5. ASSUME NEW r \in Requests, Patches(r) PROVE Is(o, {"OWNER"})'
  <2> DEFINE q == requests[r]
  <2>1. CASE q.target # o
    BY <1>1, <1>2, <1>5, <2>1, PatchedRow
  <2>2. CASE q.target = o
    <3>1. member[o].role = "OWNER" /\ q.op = "update" /\ q.at = "write" /\ Checked(q) /\ HandlerOK(q)
      BY <1>1, <1>5, <2>2, PatchedRow DEF Is, Alone, TypeInv
    <3>2. q.role \in {Keep, "OWNER"}
      BY <2>2, <3>1 DEF Checked
    <3>3. member'[o].role = "OWNER" /\ member'[o] \in Member
      BY <1>5, <2>2, <3>1, <3>2, PatchedRow
    <3>4. member'[o] # NoMember
      BY <3>3, MembershipsAssumption DEF Member
    <3> QED BY <1>0, <3>3, <3>4 DEF Is, AllActive
  <2> QED BY <2>1, <2>2
<1>6. ASSUME NEW r \in Requests, RemoveDelete(r) PROVE \E v \in Users : Is(v, {"OWNER"})'
  <2> DEFINE q == requests[r]
  <2>1. q.op = "remove" /\ q.at = "write" /\ Checked(q)
    BY <1>6 DEF RemoveDelete, At, Alone
  <2>2. \A v \in Users : v # q.target => member'[v] = member[v]
    BY <1>6 DEF RemoveDelete
  <2>3. CASE q.target # o
    BY <1>1, <1>2, <2>2, <2>3
  <2>4. CASE q.target = o
    <3>1. q.seen = "OWNER"
      BY <1>1, <2>1, <2>4 DEF Checked, Is
    <3>2. CASE q.target = q.actor /\ ~(Cardinality(ActiveOwners) <= 1)
      <4>1. PICK v \in ActiveOwners : v # o
        BY <3>2, AnotherOwner
      <4> QED BY <1>2, <2>2, <2>4, <4>1 DEF ActiveOwners
    <3>3. CASE q.target # q.actor /\ Is(q.actor, {"OWNER"})
      <4>1. q.actor \in Users
        BY <3>3 DEF Is
      <4> QED BY <1>2, <2>2, <3>3, <4>1
    <3> QED BY <2>1, <3>1, <3>2, <3>3 DEF Checked
  <2> QED BY <2>3, <2>4
<1> QED BY <1>3, <1>4, <1>5, <1>6, RowsChange

LEMMA InvitationsStep ==
  ASSUME TypeInv, Alone, InvitationsSettled, [Next]_vars
  PROVE  InvitationsSettled'
<1> SUFFICES ASSUME scope.serial, ~scope.fails, NEW u \in account', invite'[u] # NoInvite
             PROVE  \E r \in Requests : requests'[r].op = "register" /\ requests'[r].target = u
  BY ScopeStays DEF InvitationsSettled
<1> DEFINE Registers == \E r \in Requests : requests'[r].op = "register" /\ requests'[r].target = u
<1>0. /\ requests \in [Requests -> Request] /\ account \subseteq Users
      /\ \A r \in Requests : HandlerOK(requests[r]) /\ Checked(requests[r])
  BY DEF TypeInv, TypeOK, Alone
<1>1. ASSUME u \in account, invite[u] # NoInvite
      PROVE  \E r \in Requests : requests[r].op = "register" /\ requests[r].target = u
  BY <1>1 DEF InvitationsSettled
<1>2. ASSUME NEW r \in Requests, NEW v \in Users, Register(r, v) PROVE Registers
  <2>1. invite' = invite /\ account' = account \cup {v}
    BY <1>2 DEF Register
  <2>2. requests'[r].op = "register" /\ requests'[r].target = v
    BY <1>0, <1>2 DEF Register, Go, Idle
  <2>3. ASSUME NEW s \in Requests PROVE requests[s].op = "none"
    BY <1>0, <1>2 DEF Register, Checked
  <2> QED BY <1>1, <2>1, <2>2, <2>3
<1>3. ASSUME NEW r \in Requests, NEW v \in Users, Starts(r, v), ~Register(r, v) PROVE Registers
  <2>1. invite' = invite /\ account' = account
    BY <1>3 DEF Starts, AddMember, CancelInvitation, Update, Remove, Guarded
  <2>2. \A s \in Requests : requests[s].at = "idle"
    BY <1>3, CheckedStarts DEF Busy
  <2>3. \A s \in Requests : requests[s].op = "none"
    BY <1>0, <2>2 DEF Checked
  <2> QED BY <1>1, <2>1, <2>3
<1>4. ASSUME NEW r \in Requests, Continues(r) PROVE Registers
  <2> DEFINE q == requests[r]
  <2>1. \A s \in Requests : s # r => requests[s].op = "none"
    BY <1>4, ContinuesAlone
  <2>2. ASSUME q.op # "register", invite' = invite, account' = account PROVE Registers
    BY <1>1, <2>1, <2>2
  <2>3. CASE \/ AddCheckActor(r) \/ AddFindUser(r) \/ AddFindExisting(r) \/ AddInsertMember(r)
             \/ UpdateFind(r) \/ UpdateCheckActor(r) \/ UpdateWrite(r)
             \/ RemoveFind(r) \/ RemoveCount(r) \/ RemoveCheckActor(r) \/ RemoveDelete(r)
    BY <2>2, <2>3 DEF AddCheckActor, AddFindUser, AddFindExisting, AddInsertMember, UpdateFind,
       UpdateCheckActor, UpdateWrite, RemoveFind, RemoveCount, RemoveCheckActor, RemoveDelete, At
  <2>4. CASE AddInsertInvite(r)
    <3>1. q.op = "addMember" /\ q.at = "invite" /\ q.target \in Users /\ q.target \notin account
      BY <1>0, <2>4 DEF AddInsertInvite, At, HandlerOK, Checked
    <3>2. account' = account /\ u # q.target
      BY <2>4, <3>1 DEF AddInsertInvite
    <3>3. invite'[u] = invite[u]
      BY <1>0, <2>4, <3>1, <3>2 DEF AddInsertInvite, TypeInv, TypeOK
    <3> QED BY <1>1, <2>1, <3>1, <3>2, <3>3
  <2>5. CASE CancelDelete(r)
    <3>1. account' = account /\ invite[u] # NoInvite /\ q.op = "cancelInvitation"
      BY <1>0, <2>5 DEF CancelDelete, At
    <3> QED BY <1>1, <2>1, <3>1
  <2>6. CASE AcceptFind(r)
    <3>1. q.op = "register" /\ account' = account /\ invite' = invite
      BY <2>6 DEF AcceptFind, At
    <3>2. requests'[r].op = q.op /\ requests'[r].target = q.target
      BY <1>0, <2>6 DEF AcceptFind, Go, Request
    <3> QED BY <1>1, <2>1, <3>1, <3>2
  <2>7. CASE AcceptInsert(r)
    <3>1. /\ q.op = "register" /\ q.at = "member" /\ account' = account /\ invite' = invite
          /\ member[q.target] = NoMember
      BY <1>0, <2>7 DEF AcceptInsert, At, Checked
    <3>2. requests'[r].op = q.op /\ requests'[r].target = q.target
      BY <1>0, <2>7, <3>1 DEF AcceptInsert, Step, Go, Request
    <3> QED BY <1>1, <2>1, <3>1, <3>2
  <2>8. CASE AcceptDelete(r)
    <3>1. q.op = "register" /\ account' = account /\ q.target \in Users
      BY <1>0, <2>8 DEF AcceptDelete, At, HandlerOK
    <3>2. u # q.target /\ invite'[u] = invite[u]
      BY <1>0, <2>8, <3>1 DEF AcceptDelete, TypeInv, TypeOK
    <3> QED BY <1>1, <2>1, <3>1, <3>2
  <2>9. ~Fail(r)
    BY DEF Fail
  <2> QED BY <1>4, <2>3, <2>4, <2>5, <2>6, <2>7, <2>8, <2>9 DEF Continues
<1>5. ASSUME NEW v \in Users, Expire(v) PROVE Registers
  <2>1. invite[u] # NoInvite /\ account' = account /\ requests' = requests
    BY <1>5 DEF Expire, TypeInv, TypeOK
  <2> QED BY <1>1, <2>1
<1>6. CASE UNCHANGED vars
  BY <1>1, <1>6 DEF vars
<1> QED BY <1>2, <1>3, <1>4, <1>5, <1>6 DEF Next

LEMMA AloneInvariant == Spec => [](TypeInv /\ AloneInv)
<1>1. Init => TypeInv /\ AloneInv
  <2> SUFFICES ASSUME Init PROVE AloneInv
    BY InitType
  <2>1. \A r \in Requests : requests[r] = Idle
    BY DEF Init
  <2>2. Alone
    BY <2>1, IdleChecked DEF Alone, Busy, Idle
  <2>3. member[Founder] = [role |-> "OWNER", status |-> "ACTIVE"] /\ Founder \in Users
        /\ \A u \in Users : u # Founder => member[u] = NoMember
    BY MembershipsAssumption DEF Init
  <2>4. member[Founder] # NoMember
    BY <2>3, MembershipsAssumption DEF Roles, Statuses
  <2>5. Founder \in ActiveOwners
    BY <2>3, <2>4 DEF ActiveOwners, Is
  <2>6. AllActive /\ InvitationsSettled
    BY <2>3 DEF AllActive, InvitationsSettled, Init
  <2> QED BY <2>2, <2>5, <2>6 DEF AloneInv, LastOwnerStays, AlwaysAnOwner
<1>2. TypeInv /\ AloneInv /\ [Next]_vars => (TypeInv /\ AloneInv)'
  BY NextType, AloneStep, AllActiveStep, OwnersStep, InvitationsStep DEF AloneInv
<1> QED BY <1>1, <1>2, PTL DEF Spec

\* Whatever owners and admins do to each other, one request at a time: as long as nobody
\* is suspended the company has an owner who can act.
THEOREM LastOwnerCannotLeave == Spec => []LastOwnerStays
BY AloneInvariant, PTL DEF AloneInv

\* With one handler at a time and none failing, nobody with an account has an invitation
\* that registration did not settle.
THEOREM RegistrationSettlesInvitations == Spec => []InvitationsSettled
BY AloneInvariant, PTL DEF AloneInv

\* With one handler at a time no PATCH changes an owner's role.
THEOREM OwnersKeepTheirRole == Spec => OwnerRoleKept
<1> DEFINE Kept == scope.serial =>
       \A u \in Users :
         member[u] # NoMember /\ member'[u] # NoMember /\ member[u].role = "OWNER"
           => member'[u].role = "OWNER"
<1>1. TypeInv /\ AloneInv /\ [Next]_vars => Kept
  <2> SUFFICES ASSUME TypeInv, Alone, [Next]_vars, scope.serial, NEW u \in Users,
                      member[u] # NoMember, member'[u] # NoMember, member[u].role = "OWNER"
               PROVE  member'[u].role = "OWNER"
    BY DEF AloneInv
  <2>1. ASSUME NEW r \in Requests, Inserts(r) PROVE member'[u] = member[u]
    BY <2>1 DEF Inserts, TypeInv, TypeOK
  <2>2. ASSUME NEW r \in Requests, RemoveDelete(r) PROVE member'[u] = member[u]
    BY <2>2 DEF RemoveDelete
  <2>3. ASSUME NEW r \in Requests, Patches(r) PROVE member'[u].role = "OWNER"
    <3>1. requests[r].op = "update" /\ requests[r].at = "write" /\ Checked(requests[r])
      BY <2>3, PatchedRow DEF Alone
    <3>2. requests[r].target = u => requests[r].role \in {Keep, "OWNER"}
      BY <3>1 DEF Checked
    <3> QED BY <2>3, <3>2, PatchedRow
  <2> QED BY <2>1, <2>2, <2>3, RowsChange
<1> QED BY <1>1, AloneInvariant, PTL DEF Spec, OwnerRoleKept

\* With one handler at a time admins are made, changed and removed, and owners removed,
\* in the service of an owner, or by someone who leaves.
THEOREM OnlyOwnersRuleAdmins == Spec => HierarchyKept
<1> DEFINE Kept == scope.serial =>
       \A u \in Users, r \in Requests :
         LET old == member[u]
             new == member'[u]
             RoleOf(m) == IF m = NoMember THEN "none" ELSE m.role
         IN  /\ old # new /\ requests[r].op \in {"addMember", "update", "remove"}
             /\ \/ "ADMIN" \in {RoleOf(old), RoleOf(new)}
                \/ RoleOf(old) = "OWNER" /\ new = NoMember
             => \/ Is(requests[r].actor, {"OWNER"})
                \/ requests[r].actor = u /\ new = NoMember
<1>1. TypeInv /\ AloneInv /\ [Next]_vars => Kept
  <2> SUFFICES ASSUME TypeInv, Alone, [Next]_vars, scope.serial, NEW u \in Users, NEW r \in Requests
               PROVE  LET old == member[u]
                          new == member'[u]
                          RoleOf(m) == IF m = NoMember THEN "none" ELSE m.role
                      IN  /\ old # new /\ requests[r].op \in {"addMember", "update", "remove"}
                          /\ \/ "ADMIN" \in {RoleOf(old), RoleOf(new)}
                             \/ RoleOf(old) = "OWNER" /\ new = NoMember
                          => \/ Is(requests[r].actor, {"OWNER"})
                             \/ requests[r].actor = u /\ new = NoMember
    BY DEF AloneInv
  <2> DEFINE RoleOf(m) == IF m = NoMember THEN "none" ELSE m.role
             q == requests[r]
             Rules == Is(q.actor, {"OWNER"}) \/ (q.actor = u /\ member'[u] = NoMember)
  <2> SUFFICES ASSUME member[u] # member'[u], q.op \in {"addMember", "update", "remove"},
                      \/ "ADMIN" \in {RoleOf(member[u]), RoleOf(member'[u])}
                      \/ RoleOf(member[u]) = "OWNER" /\ member'[u] = NoMember
               PROVE  Rules
    OBVIOUS
  <2>1. PICK w \in Requests : Inserts(w) \/ Patches(w) \/ RemoveDelete(w)
    BY RowsChange
  <2>2. w = r
    <3>1. Busy(w)
      BY <2>1 DEF Inserts, Patches, AddInsertMember, AcceptInsert, UpdateWrite, RemoveDelete, At, Busy
    <3>2. Busy(r)
      BY DEF Alone, Checked, Busy
    <3> QED BY <3>1, <3>2 DEF Alone
  <2>3. Checked(q)
    BY DEF Alone
  <2>4. CASE Inserts(r)
    <3>1. q.op = "addMember" /\ q.at = "member"
      BY <2>4 DEF Inserts, AddInsertMember, AcceptInsert, At
    <3>2. member[u] = NoMember /\ member'[u] = [role |-> q.role, status |-> "ACTIVE"]
      BY <2>4 DEF Inserts, TypeInv, TypeOK
    <3>3. q.role = "ADMIN"
      BY <3>2
    <3> QED BY <2>3, <3>1, <3>3 DEF Checked
  <2>5. CASE Patches(r)
    <3>1. /\ q.target = u /\ q.op = "update" /\ q.at = "write" /\ member'[u] \in Member
          /\ member'[u].role = IF q.role = Keep THEN member[u].role ELSE q.role
      BY <2>5, PatchedRow
    <3>2. member'[u] # NoMember
      BY <3>1, MembershipsAssumption DEF Member
    <3>3. "ADMIN" \in {q.role, member[u].role}
      BY <3>1, <3>2
    <3> QED BY <2>3, <3>1, <3>3 DEF Checked
  <2>6. CASE RemoveDelete(r)
    <3>1. q.target = u /\ q.op = "remove" /\ q.at = "write" /\ member'[u] = NoMember
      BY <2>6 DEF RemoveDelete, At, TypeInv, TypeOK
    <3>2. q.seen = member[u].role /\ member[u].role \in {"ADMIN", "OWNER"}
      BY <2>3, <3>1 DEF Checked
    <3> QED BY <2>3, <3>1, <3>2 DEF Checked
  <2> QED BY <2>1, <2>2, <2>4, <2>5, <2>6
<1> QED BY <1>1, AloneInvariant, PTL DEF Spec, HierarchyKept
=============================================================================
