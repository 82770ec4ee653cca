----------------------------- MODULE PlanLimits -----------------------------
(***************************************************************************)
(* Plan limits (backend/src/modules/admin/limits.service.ts) and the       *)
(* creates they guard.  checkLimit runs in a transaction of its own at     *)
(* READ COMMITTED: it reads credits and plan, then counts; the create is a *)
(* later transaction.  Documents and contractors are counted over all the  *)
(* companies of the user, which a statement of its own lists before,       *)
(* signatures and stamps per company, all against the plan of the user who *)
(* acts.                                                                   *)
(***************************************************************************)
EXTENDS Integers, FiniteSets, FiniteSetsExt

CONSTANTS
  Users, Companies,
  Requests,    \* creates in flight together
  Plans,       \* the plans' limits; a user without subscription has the default one
  Scopes,      \* what a behaviour may create, and the other operations it uses
  MaxLimit,    \* the largest limit of any plan
  MaxCount,    \* bound on the rows of one kind in one company
  NoUser, NoCompany

Unlimited == -1
AllResources == {"companies", "contractors", "documents", "signatures", "stamps"}
PerUser == {"contractors", "documents"}
PerCompany == {"signatures", "stamps"}
Counted == PerUser \cup PerCompany
AllOps == {"remove", "cancel", "restore", "join", "leave", "assignPlan", "grantCredits"}

ASSUME LimitsAssumption ==
  /\ Plans \subseteq [AllResources -> Nat \cup {Unlimited}]
  /\ MaxLimit \in Nat
  /\ \A p \in Plans, res \in AllResources : p[res] <= MaxLimit
  /\ Scopes \subseteq [creates : SUBSET AllResources, ops : SUBSET AllOps]
  /\ MaxCount \in Nat
  /\ IsFiniteSet(Requests)
  /\ NoUser \notin Users /\ NoCompany \notin Companies

VARIABLES
  member,     \* the companies each user is an ACTIVE member of
  company,    \* isActive of each company that exists
  rows,       \* active contractors, documents not CANCELLED, signatures, stamps
  cancelled,  \* CANCELLED documents
  plan,       \* the limits of each user's plan
  credits,    \* users with a positive credit balance
  requests,
  scope       \* of this behaviour; never changes

vars == <<member, company, rows, cancelled, plan, credits, requests, scope>>

Request == [at : {"idle", "listing", "counting", "checked"},
            user : Users \cup {NoUser}, resource : AllResources,
            company : Companies \cup {NoCompany}, limit : Nat \cup {Unlimited},
            companies : SUBSET Companies]

Idle == [at |-> "idle", user |-> NoUser, resource |-> "documents",
         company |-> NoCompany, limit |-> 0, companies |-> {}]

Init ==
  /\ member = [u \in Users |-> {}]
  /\ company = [c \in Companies |-> "none"]
  /\ rows = [res \in Counted |-> [c \in Companies |-> 0]]
  /\ cancelled = [c \in Companies |-> 0]
  /\ plan \in [Users -> Plans]
  /\ credits \in SUBSET Users  \* welcome credits; a failed grant is caught
  /\ requests = [r \in Requests |-> Idle]
  /\ scope \in Scopes

Active == {c \in Companies : company[c] = "active"}

\* Bug: contractors and documents are counted in the current company only.
Usage_OneCompany(q) ==
  IF q.resource = "companies" THEN Cardinality(member[q.user] \cap Active)
  ELSE rows[q.resource][q.company]

\* What checkLimit counts for a request: contractors and documents in the
\* companies it listed.
Usage(q) ==
  CASE q.resource = "companies" -> Cardinality(member[q.user] \cap Active)
    [] q.resource \in PerUser -> MapThenSumSet(LAMBDA c : rows[q.resource][c], q.companies)
    [] q.resource \in PerCompany -> rows[q.resource][q.company]

Go(r, q) == requests' = [requests EXCEPT ![r] = q]

\* checkLimit up to the plan: credits or an unlimited plan let the create pass.
ReadPlan(r, u, res, c) ==
  LET limit == plan[u][res] IN
  /\ requests[r].at = "idle"
  /\ IF res = "companies" THEN c = NoCompany ELSE c \in member[u]
  /\ Go(r, [at |-> IF u \in credits \/ limit = Unlimited THEN "checked"
                   ELSE IF res \in PerUser THEN "listing" ELSE "counting",
            user |-> u, resource |-> res, company |-> c, limit |-> limit,
            companies |-> {}])
  /\ UNCHANGED <<member, company, rows, cancelled, plan, credits, scope>>

\* The ACTIVE memberships of the user, deactivated companies included.
ListCompanies(r) ==
  LET q == requests[r] IN
  /\ q.at = "listing"
  /\ Go(r, [q EXCEPT !.at = "counting", !.companies = member[q.user]])
  /\ UNCHANGED <<member, company, rows, cancelled, plan, credits, scope>>

\* Bug: the comparison lets the limit itself through.
Count_OffByOne(r) ==
  LET q == requests[r] IN
  /\ q.at = "counting"
  /\ Go(r, IF Usage(q) > q.limit THEN Idle
           ELSE [q EXCEPT !.at = "checked", !.companies = {}])
  /\ UNCHANGED <<member, company, rows, cancelled, plan, credits, scope>>

\* checkLimit counts and compares: PLAN_LIMIT_REACHED, or the create goes on.
Count(r) ==
  LET q == requests[r] IN
  /\ q.at = "counting"
  /\ Go(r, IF Usage(q) >= q.limit THEN Idle
           ELSE [q EXCEPT !.at = "checked", !.companies = {}])
  /\ UNCHANGED <<member, company, rows, cancelled, plan, credits, scope>>

\* Company and OWNER membership in one transaction.
CreateCompany(r) ==
  LET q == requests[r] IN
  /\ q.at = "checked" /\ q.resource = "companies"
  /\ \E c \in Companies :
       /\ company[c] = "none"
       /\ company' = [company EXCEPT ![c] = "active"]
       /\ member' = [member EXCEPT ![q.user] = @ \cup {c}]
  /\ Go(r, Idle)
  /\ UNCHANGED <<rows, cancelled, plan, credits, scope>>

CreateRow(r) ==
  LET q == requests[r] IN
  /\ q.at = "checked" /\ q.resource \in Counted
  /\ rows[q.resource][q.company] < MaxCount
  /\ rows' = [rows EXCEPT ![q.resource][q.company] = @ + 1]
  /\ Go(r, Idle)
  /\ UNCHANGED <<member, company, cancelled, plan, credits, scope>>

-----------------------------------------------------------------------------
(* What else changes the counts; none of it asks checkLimit.               *)

Remove(res, c) ==
  /\ "remove" \in scope.ops
  /\ rows[res][c] > 0
  /\ rows' = [rows EXCEPT ![res][c] = @ - 1]
  /\ UNCHANGED <<member, company, cancelled, plan, credits, requests, scope>>

\* The company is deactivated; memberships and rows stay.
RemoveCompany(c) ==
  /\ "remove" \in scope.ops
  /\ c \in Active
  /\ company' = [company EXCEPT ![c] = "inactive"]
  /\ UNCHANGED <<member, rows, cancelled, plan, credits, requests, scope>>

Cancel(c) ==
  /\ "cancel" \in scope.ops
  /\ rows["documents"][c] > 0 /\ cancelled[c] < MaxCount
  /\ rows' = [rows EXCEPT !["documents"][c] = @ - 1]
  /\ cancelled' = [cancelled EXCEPT ![c] = @ + 1]
  /\ UNCHANGED <<member, company, plan, credits, requests, scope>>

Restore(c) ==
  /\ "restore" \in scope.ops
  /\ cancelled[c] > 0 /\ rows["documents"][c] < MaxCount
  /\ rows' = [rows EXCEPT !["documents"][c] = @ + 1]
  /\ cancelled' = [cancelled EXCEPT ![c] = @ - 1]
  /\ UNCHANGED <<member, company, plan, credits, requests, scope>>

Join(u, c) ==
  /\ "join" \in scope.ops
  /\ company[c] # "none"
  /\ member' = [member EXCEPT ![u] = @ \cup {c}]
  /\ UNCHANGED <<company, rows, cancelled, plan, credits, requests, scope>>

Leave(u, c) ==
  /\ "leave" \in scope.ops
  /\ c \in member[u]
  /\ member' = [member EXCEPT ![u] = @ \ {c}]
  /\ UNCHANGED <<company, rows, cancelled, plan, credits, requests, scope>>

AssignPlan(u, p) ==
  /\ "assignPlan" \in scope.ops
  /\ plan' = [plan EXCEPT ![u] = p]
  /\ UNCHANGED <<member, company, rows, cancelled, credits, requests, scope>>

\* Amounts are positive and nothing deducts credits.
GrantCredits(u) ==
  /\ "grantCredits" \in scope.ops
  /\ credits' = credits \cup {u}
  /\ UNCHANGED <<member, company, rows, cancelled, plan, requests, scope>>

Next ==
  \/ \E r \in Requests :
       \/ \E u \in Users, res \in scope.creates, c \in Companies \cup {NoCompany} :
            ReadPlan(r, u, res, c)
       \/ ListCompanies(r)
       \/ Count(r)
       \/ CreateCompany(r)
       \/ CreateRow(r)
  \/ \E c \in Companies :
       \/ \E res \in Counted : Remove(res, c)
       \/ RemoveCompany(c)
       \/ Cancel(c)
       \/ Restore(c)
       \/ \E u \in Users : Join(u, c) \/ Leave(u, c)
  \/ \E u \in Users : GrantCredits(u) \/ \E p \in Plans : AssignPlan(u, p)

Spec == Init /\ [][Next]_vars

-----------------------------------------------------------------------------
TypeOK ==
  /\ member \in [Users -> SUBSET Companies]
  /\ company \in [Companies -> {"none", "active", "inactive"}]
  /\ rows \in [Counted -> [Companies -> Nat]]
  /\ cancelled \in [Companies -> Nat]
  /\ plan \in [Users -> Plans]
  /\ credits \subseteq Users
  /\ requests \in [Requests -> Request]
  /\ \A r \in Requests : requests[r].at # "idle" => requests[r].user \in Users
  /\ scope \in Scopes

\* What a user has, over all companies the user is a member of.
Held(u, res) ==
  IF res = "companies" THEN Cardinality(member[u] \cap Active)
  ELSE MapThenSumSet(LAMBDA c : rows[res][c], member[u])

\* No user without credits has more companies, contractors or documents than
\* the plan allows ("prevent race conditions where parallel requests bypass
\* limits").
WithinLimit ==
  \A u \in Users \ credits, res \in scope.creates \ PerCompany :
    plan[u][res] = Unlimited \/ Held(u, res) <= plan[u][res]

\* Creates of one resource in one company that have passed the check.
Passed(res, c) ==
  {r \in Requests : requests[r].at = "checked" /\ requests[r].resource = res
                    /\ requests[r].company = c}

\* No plan is unlimited in the resource and nobody has credits.
Limited(res) == credits = {} /\ \A p \in Plans : p[res] # Unlimited

\* How far parallel requests exceed the limits: a company never holds more
\* signatures or stamps than the largest limit plus the creates that can run
\* beside one, whatever plans, memberships and rows change between a check and
\* its create.
OvershootBounded ==
  \A res \in PerCompany, c \in Companies :
    Limited(res) /\ rows[res][c] > 0 => rows[res][c] < MaxLimit + Cardinality(Requests)

\* Inductive form: the creates past the check count as rows.
OvershootInv ==
  \A res \in PerCompany, c \in Companies :
    Limited(res) /\ (rows[res][c] > 0 \/ Passed(res, c) # {})
      => rows[res][c] + Cardinality(Passed(res, c)) < MaxLimit + Cardinality(Requests)

\* The same for the only user of an instance, over all companies the user is a
\* member of, as long as nothing joins, or returns to, what is counted: also when
\* a company is created or left between the list and the count made over it.
UserOvershootBounded ==
  \A u \in Users, res \in {"companies", "contractors"} :
    Users = {u} /\ "join" \notin scope.ops /\ Limited(res) /\ Held(u, res) > 0
      => Held(u, res) < MaxLimit + Cardinality(Requests)
=============================================================================
