-------------------------- MODULE PlanLimitsProofs --------------------------
(***************************************************************************)
(* Proofs about PlanLimits: how far creates that run together can carry a  *)
(* company past the limits, for any number of users, companies and         *)
(* requests and any plans.                                                 *)
(***************************************************************************)
EXTENDS PlanLimits, FiniteSetTheorems, WellFoundedInduction, TLAPS

\* A request counts against a limit, never against an unlimited plan.
Metered ==
  \A r \in Requests :
    requests[r].at \in {"listing", "counting"} => requests[r].limit \in Nat /\ requests[r].limit <= MaxLimit

LEMMA InitType == Init => TypeOK
BY LimitsAssumption DEF Init, TypeOK, Request, Idle, Counted, PerUser, PerCompany, AllResources

LEMMA ReadPlanType ==
  ASSUME TypeOK, NEW r \in Requests, NEW u \in Users, NEW res \in scope.creates,
         NEW c \in Companies \cup {NoCompany}, ReadPlan(r, u, res, c)
  PROVE  TypeOK'
<1>1. res \in AllResources /\ plan[u] \in Plans
  BY LimitsAssumption DEF TypeOK
<1>2. plan[u][res] \in Nat \cup {Unlimited}
  BY <1>1, LimitsAssumption
<1>3. PICK at \in {"listing", "counting", "checked"} :
        requests' = [requests EXCEPT ![r] = [at |-> at, user |-> u, resource |-> res, company |-> c,
                                             limit |-> plan[u][res], companies |-> {}]]
  BY DEF ReadPlan, Go
<1>4. [at |-> at, user |-> u, resource |-> res, company |-> c, limit |-> plan[u][res], companies |-> {}] \in Request
  BY <1>1, <1>2 DEF Request
<1>5. requests' \in [Requests -> Request]
  BY <1>3, <1>4 DEF TypeOK
<1>6. \A s \in Requests : requests'[s].at # "idle" => requests'[s].user \in Users
  BY <1>3 DEF TypeOK
<1> QED BY <1>5, <1>6 DEF ReadPlan, TypeOK

\* A request that has listed companies, or counted.
Moved(q, at, cs) == [q EXCEPT !.at = at, !.companies = cs]

LEMMA MovedFields ==
  ASSUME NEW q \in Request, NEW at \in {"counting", "checked"}, NEW cs \in SUBSET Companies
  PROVE  /\ Moved(q, at, cs) \in Request
         /\ Moved(q, at, cs).at = at /\ Moved(q, at, cs).companies = cs
         /\ Moved(q, at, cs).user = q.user /\ Moved(q, at, cs).resource = q.resource
         /\ Moved(q, at, cs).company = q.company /\ Moved(q, at, cs).limit = q.limit
BY DEF Moved, Request

\* What a step of a request makes of it.
LEMMA RequestStep ==
  ASSUME TypeOK, NEW r \in Requests,
         ListCompanies(r) \/ Count(r) \/ CreateCompany(r) \/ CreateRow(r)
  PROVE  /\ \A s \in Requests : s # r => requests'[s] = requests[s]
         /\ DOMAIN requests' = Requests /\ requests' = [s \in Requests |-> requests'[s]]
         /\ requests[r] \in Request
         /\ requests[r].at # "idle" /\ requests[r].user \in Users
         /\ member[requests[r].user] \in SUBSET Companies
         /\ \/ requests'[r] = Idle
            \/ ListCompanies(r) /\ requests'[r] = Moved(requests[r], "counting", member[requests[r].user])
            \/ Count(r) /\ requests'[r] = Moved(requests[r], "checked", {})
<1>1. requests[r].at # "idle" /\ requests[r].user \in Users /\ requests[r] \in Request
      /\ member[requests[r].user] \in SUBSET Companies
  <2>1. requests[r].at # "idle"
    BY DEF ListCompanies, Count, CreateCompany, CreateRow
  <2> QED BY <2>1 DEF TypeOK
<1>2. \/ Go(r, Idle)
      \/ ListCompanies(r) /\ Go(r, Moved(requests[r], "counting", member[requests[r].user]))
      \/ Count(r) /\ Go(r, Moved(requests[r], "checked", {}))
  BY DEF ListCompanies, Count, CreateCompany, CreateRow, Moved, Go
<1> QED BY <1>1, <1>2 DEF Go, TypeOK

LEMMA RequestStepType ==
  ASSUME TypeOK, NEW r \in Requests,
         ListCompanies(r) \/ Count(r) \/ CreateCompany(r) \/ CreateRow(r)
  PROVE  TypeOK'
<1> USE DEF TypeOK
<1>0. Idle \in Request
  BY LimitsAssumption DEF Idle, Request, AllResources, Unlimited
<1>1. requests' \in [Requests -> Request]
      /\ \A s \in Requests : requests'[s].at # "idle" => requests'[s].user \in Users
  <2>3. requests'[r] \in Request
    <3>1. {} \in SUBSET Companies
      OBVIOUS
    <3> QED BY <1>0, <3>1, RequestStep, MovedFields
  <2>4. requests'[r].at # "idle" => requests'[r].user \in Users
    <3>1. {} \in SUBSET Companies /\ Idle.at = "idle"
      BY DEF Idle
    <3> QED BY <3>1, RequestStep, MovedFields
  <2>5. /\ requests' = [s \in Requests |-> requests'[s]]
        /\ \A s \in Requests : s # r => requests'[s] = requests[s]
    BY RequestStep
  <2> QED BY <2>3, <2>4, <2>5
<1>8. CASE ListCompanies(r)
  BY <1>1, <1>8 DEF ListCompanies
<1>2. CASE Count(r)
  BY <1>1, <1>2 DEF Count
<1>3. CASE CreateCompany(r)
  <2> DEFINE u == requests[r].user
  <2>1. PICK c \in Companies : /\ company' = [company EXCEPT ![c] = "active"]
                               /\ member' = [member EXCEPT ![u] = @ \cup {c}]
    BY <1>3 DEF CreateCompany
  <2>2. member' \in [Users -> SUBSET Companies]
    BY <2>1
  <2>3. company' \in [Companies -> {"none", "active", "inactive"}]
    BY <2>1
  <2>4. UNCHANGED <<rows, cancelled, plan, credits, scope>>
    BY <1>3 DEF CreateCompany
  <2> QED BY <1>1, <2>2, <2>3, <2>4
<1>4. CASE CreateRow(r)
  <2> DEFINE res == requests[r].resource
             c == requests[r].company
  <2>1. res \in Counted /\ rows' = [rows EXCEPT ![res][c] = @ + 1]
    BY <1>4 DEF CreateRow
  <2>2. rows[res] \in [Companies -> Nat]
    BY <2>1
  <2>3. [rows[res] EXCEPT ![c] = @ + 1] \in [Companies -> Nat]
    <3>1. CASE c \in Companies
      BY <2>2, <3>1
    <3>2. CASE c \notin Companies
      BY <2>2, <3>2, [rows[res] EXCEPT ![c] = @ + 1] = rows[res]
    <3> QED BY <3>1, <3>2
  <2>4. rows' \in [Counted -> [Companies -> Nat]]
    BY <2>1, <2>3
  <2>5. UNCHANGED <<member, company, cancelled, plan, credits, scope>>
    BY <1>4 DEF CreateRow
  <2> QED BY <1>1, <2>4, <2>5
<1> QED BY <1>2, <1>3, <1>4, <1>8

LEMMA CompanyStepType ==
  ASSUME TypeOK, NEW c \in Companies,
         \/ \E res \in Counted : Remove(res, c)
         \/ RemoveCompany(c) \/ Cancel(c) \/ Restore(c)
         \/ \E u \in Users : Join(u, c) \/ Leave(u, c)
  PROVE  TypeOK'
<1> USE DEF TypeOK
<1>0. "documents" \in Counted
  BY DEF Counted, PerUser
<1>1. ASSUME NEW res \in Counted, Remove(res, c) PROVE TypeOK'
  BY <1>1 DEF Remove
<1>2. CASE RemoveCompany(c)
  BY <1>2 DEF RemoveCompany
<1>3. CASE Cancel(c)
  BY <1>0, <1>3 DEF Cancel
<1>4. CASE Restore(c)
  BY <1>0, <1>4 DEF Restore
<1>5. ASSUME NEW u \in Users, Join(u, c) \/ Leave(u, c) PROVE TypeOK'
  BY <1>5 DEF Join, Leave
<1> QED BY <1>1, <1>2, <1>3, <1>4, <1>5

LEMMA UserStepType ==
  ASSUME TypeOK, NEW u \in Users, GrantCredits(u) \/ \E p \in Plans : AssignPlan(u, p)
  PROVE  TypeOK'
BY DEF TypeOK, GrantCredits, AssignPlan

LEMMA NextType == TypeOK /\ [Next]_vars => TypeOK'
<1> SUFFICES ASSUME TypeOK, [Next]_vars PROVE TypeOK'
  OBVIOUS
<1>1. CASE Next
  BY <1>1, ReadPlanType, RequestStepType, CompanyStepType, UserStepType DEF Next
<1>2. CASE UNCHANGED vars
  BY <1>2 DEF vars, TypeOK
<1> QED BY <1>1, <1>2

\* Every variable keeps its type, whatever limits, removals, restores and plan
\* changes come between a check and its create.
THEOREM TypeCorrect == Spec => []TypeOK
BY InitType, NextType, PTL DEF Spec

-----------------------------------------------------------------------------
LEMMA PassedFinite ==
  ASSUME NEW res, NEW c
  PROVE  /\ IsFiniteSet(Passed(res, c))
         /\ Cardinality(Passed(res, c)) \in Nat
         /\ Cardinality(Requests) \in Nat
         /\ Cardinality(Passed(res, c)) <= Cardinality(Requests)
<1>1. Passed(res, c) \subseteq Requests
  BY DEF Passed
<1>2. IsFiniteSet(Requests)
  BY LimitsAssumption
<1> QED BY <1>1, <1>2, FS_Subset, FS_CardinalityType

LEMMA PassedFinitePrime ==
  ASSUME NEW res, NEW c
  PROVE  /\ IsFiniteSet(Passed(res, c)')
         /\ Cardinality(Passed(res, c)') \in Nat
         /\ Cardinality(Passed(res, c)') <= Cardinality(Requests)
<1>1. Passed(res, c)' \subseteq Requests
  BY DEF Passed
<1>2. IsFiniteSet(Requests)
  BY LimitsAssumption
<1> QED BY <1>1, <1>2, FS_Subset, FS_CardinalityType

LEMMA MeteredStep ==
  ASSUME TypeOK, Metered, [Next]_vars
  PROVE  Metered'
<1>1. ASSUME NEW r \in Requests, NEW u \in Users, NEW res \in scope.creates,
             NEW c \in Companies \cup {NoCompany}, ReadPlan(r, u, res, c)
      PROVE  Metered'
  <2>1. res \in AllResources /\ plan[u] \in Plans
    BY LimitsAssumption DEF TypeOK
  <2>2. plan[u][res] \in Nat \cup {Unlimited} /\ plan[u][res] <= MaxLimit
    BY <2>1, LimitsAssumption
  <2>3. requests'[r].at \in {"listing", "counting"} => requests'[r].limit = plan[u][res]
                                                      /\ plan[u][res] # Unlimited
    BY <1>1 DEF ReadPlan, Go, TypeOK
  <2>4. \A s \in Requests : s # r => requests'[s] = requests[s]
    BY <1>1 DEF ReadPlan, Go, TypeOK
  <2> QED BY <2>2, <2>3, <2>4 DEF Metered
<1>2. ASSUME NEW r \in Requests, ListCompanies(r) \/ Count(r) \/ CreateCompany(r) \/ CreateRow(r)
      PROVE  Metered'
  <2>1. \A s \in Requests : s # r => requests'[s] = requests[s]
    BY <1>2, RequestStep
  <2>2. requests'[r].at \in {"listing", "counting"} =>
          requests'[r].limit = requests[r].limit /\ requests[r].at = "listing"
    <3>1. {} \in SUBSET Companies /\ Idle.at = "idle" /\ (ListCompanies(r) => requests[r].at = "listing")
      BY DEF ListCompanies, Idle
    <3> QED BY <1>2, <3>1, RequestStep, MovedFields
  <2> QED BY <2>1, <2>2 DEF Metered
<1>3. CASE UNCHANGED requests
  BY <1>3 DEF Metered
<1> QED BY <1>1, <1>2, <1>3 DEF Next, Remove, RemoveCompany, Cancel, Restore, Join, Leave,
                              GrantCredits, AssignPlan, vars

\* Credits are only ever granted, so who has none now had none before.
LEMMA LimitedBefore ==
  ASSUME NEW res, [Next]_vars, Limited(res)'
  PROVE  Limited(res)
<1>1. credits \subseteq credits'
  BY DEF Next, ReadPlan, ListCompanies, Count, CreateCompany, CreateRow, Remove, RemoveCompany, Cancel,
         Restore, Join, Leave, AssignPlan, GrantCredits, vars
<1> QED BY <1>1 DEF Limited

-----------------------------------------------------------------------------
(* The bound of one resource in one company, where plans limit it, and the *)
(* steps that disturb it.                                                   *)

Bound(res, c) ==
  rows[res][c] > 0 \/ Passed(res, c) # {}
    => rows[res][c] + Cardinality(Passed(res, c)) < MaxLimit + Cardinality(Requests)

LEMMA SameBound ==
  ASSUME NEW res, NEW c, Bound(res, c),
         rows'[res][c] = rows[res][c], Passed(res, c)' = Passed(res, c)
  PROVE  Bound(res, c)'
BY DEF Bound

LEMMA ReadPlanBound ==
  ASSUME TypeOK, NEW res \in PerCompany, NEW c \in Companies, Bound(res, c),
         Limited(res), NEW r \in Requests, NEW u \in Users, NEW kind \in scope.creates,
         NEW d \in Companies \cup {NoCompany}, ReadPlan(r, u, kind, d)
  PROVE  Bound(res, c)'
<1>1. plan[u] \in Plans
  BY DEF TypeOK
<1>2. kind = res => requests'[r].at \in {"listing", "counting"}
  BY <1>1 DEF ReadPlan, Go, TypeOK, Limited
<1>3. requests'[r].resource = kind
  BY DEF ReadPlan, Go, TypeOK
<1>4. \A s \in Requests : s # r => requests'[s] = requests[s]
  BY DEF ReadPlan, Go, TypeOK
<1>5. requests[r].at = "idle"
  BY DEF ReadPlan
<1>6. Passed(res, c)' = Passed(res, c)
  BY <1>2, <1>3, <1>4, <1>5 DEF Passed
<1> QED BY <1>6, SameBound DEF ReadPlan

LEMMA Lists ==
  ASSUME TypeOK, NEW r \in Requests, ListCompanies(r)
  PROVE  /\ requests[r].at = "listing" /\ requests[r] \in Request /\ requests[r].user \in Users
         /\ \A s \in Requests : s # r => requests'[s] = requests[s]
         /\ requests'[r].at = "counting" /\ requests'[r].resource = requests[r].resource
         /\ requests'[r].company = requests[r].company
         /\ requests'[r].companies = member[requests[r].user]
<1>1. requests'[r] = Moved(requests[r], "counting", member[requests[r].user])
  BY DEF ListCompanies, Go, TypeOK, Moved
<1>2. requests[r].at = "listing"
  BY DEF ListCompanies
<1>3. PICK q \in Request, cs \in SUBSET Companies : q = requests[r] /\ cs = member[requests[r].user]
  BY RequestStep
<1>4. requests'[r] = Moved(q, "counting", cs)
  BY <1>1, <1>3
<1> QED BY <1>2, <1>3, <1>4, RequestStep, MovedFields

LEMMA ListBound ==
  ASSUME TypeOK, NEW res \in PerCompany, NEW c \in Companies, Bound(res, c),
         NEW r \in Requests, ListCompanies(r)
  PROVE  Bound(res, c)'
<1>3. Passed(res, c)' = Passed(res, c)
  BY Lists DEF Passed
<1> QED BY <1>3, SameBound DEF ListCompanies

\* A count either refuses the create or lets it pass.
LEMMA Counts ==
  ASSUME TypeOK, NEW r \in Requests, Count(r)
  PROVE  /\ requests[r].at = "counting" /\ requests[r] \in Request
         /\ UNCHANGED <<member, company, rows>>
         /\ \A s \in Requests : s # r => requests'[s] = requests[s]
         /\ Usage(requests[r]) >= requests[r].limit => requests'[r].at = "idle"
         /\ ~(Usage(requests[r]) >= requests[r].limit) =>
              /\ requests'[r].at = "checked" /\ requests'[r].resource = requests[r].resource
              /\ requests'[r].company = requests[r].company
<1> DEFINE q == requests[r]
<1>1. q.at = "counting" /\ q \in Request
  BY DEF Count, TypeOK
<1>2. Usage(q) >= q.limit => requests'[r].at = "idle"
  BY DEF Count, Go, TypeOK, Idle
<1>3. ASSUME ~(Usage(q) >= q.limit)
      PROVE  requests'[r].at = "checked" /\ requests'[r].resource = q.resource /\ requests'[r].company = q.company
  <2>1. requests'[r] = Moved(q, "checked", {})
    BY <1>3 DEF Count, Go, TypeOK, Moved
  <2> QED BY <1>1, <2>1, MovedFields
<1> QED BY <1>1, <1>2, <1>3, RequestStep DEF Count

LEMMA CountBound ==
  ASSUME TypeOK, Metered, NEW res \in PerCompany, NEW c \in Companies, Bound(res, c),
         NEW r \in Requests, Count(r)
  PROVE  Bound(res, c)'
<1> DEFINE q == requests[r]
<1>1. \A s \in Requests : s # r => requests'[s] = requests[s]
  BY Counts
<1>2. q.at = "counting" /\ q \in Request /\ UNCHANGED rows
  BY Counts
<1>3. rows[res][c] \in Nat
  BY DEF TypeOK, Counted
<1>4. CASE Usage(q) >= q.limit
  <2>1. requests'[r].at = "idle"
    BY <1>4, Counts
  <2>2. Passed(res, c)' = Passed(res, c)
    BY <1>1, <1>2, <2>1 DEF Passed
  <2> QED BY <1>2, <2>2, SameBound
<1>5. CASE ~(Usage(q) >= q.limit)
  <2>1. requests'[r].at = "checked" /\ requests'[r].resource = q.resource
        /\ requests'[r].company = q.company
    BY <1>5, Counts
  <2>2. CASE q.resource = res /\ q.company = c
    <3>1. Usage(q) = rows[res][c]
      BY <2>2 DEF Usage, PerUser, PerCompany
    <3>2. rows[res][c] < MaxLimit
      BY <1>2, <1>3, <1>5, <3>1, LimitsAssumption DEF Metered
    <3>3. rows'[res][c] = rows[res][c]
      BY <1>2
    <3> QED BY <1>3, <3>2, <3>3, PassedFinitePrime, PassedFinite, LimitsAssumption DEF Bound
  <2>3. CASE ~(q.resource = res /\ q.company = c)
    <3>1. Passed(res, c)' = Passed(res, c)
      BY <1>1, <1>2, <2>1, <2>3 DEF Passed
    <3> QED BY <1>2, <3>1, SameBound
  <2> QED BY <2>2, <2>3
<1> QED BY <1>4, <1>5

LEMMA CreateRowBound ==
  ASSUME TypeOK, NEW res \in PerCompany, NEW c \in Companies, Bound(res, c),
         NEW r \in Requests, CreateRow(r)
  PROVE  Bound(res, c)'
<1> DEFINE q == requests[r]
<1>1. \A s \in Requests : s # r => requests'[s] = requests[s]
  BY DEF CreateRow, Go, TypeOK
<1>2. q.at = "checked" /\ requests'[r].at = "idle"
  BY DEF CreateRow, Go, TypeOK, Idle
<1>3. rows[res][c] \in Nat /\ res \in Counted
  BY DEF TypeOK, Counted
<1>4. CASE q.resource = res /\ q.company = c
  <2>1. Passed(res, c)' = Passed(res, c) \ {r} /\ r \in Passed(res, c)
    BY <1>1, <1>2, <1>4 DEF Passed
  <2>2. rows'[res][c] = rows[res][c] + 1
    BY <1>3, <1>4 DEF CreateRow, TypeOK
  <2>3. Cardinality(Passed(res, c)') = Cardinality(Passed(res, c)) - 1
    BY <2>1, PassedFinite, FS_RemoveElement
  <2> QED BY <1>3, <2>1, <2>2, <2>3, PassedFinite, LimitsAssumption DEF Bound
<1>5. CASE ~(q.resource = res /\ q.company = c)
  <2>1. Passed(res, c)' = Passed(res, c)
    BY <1>1, <1>2, <1>5 DEF Passed
  <2>2. rows'[res][c] = rows[res][c]
    BY <1>3, <1>5 DEF CreateRow, TypeOK
  <2> QED BY <2>1, <2>2, SameBound
<1> QED BY <1>4, <1>5

LEMMA RemoveBound ==
  ASSUME TypeOK, NEW res \in PerCompany, NEW c \in Companies, Bound(res, c),
         NEW kind \in Counted, NEW d \in Companies, Remove(kind, d)
  PROVE  Bound(res, c)'
<1>1. rows[res][c] \in Nat /\ rows'[res][c] \in Nat /\ rows'[res][c] <= rows[res][c]
  BY DEF Remove, TypeOK, Counted
<1>2. Passed(res, c)' = Passed(res, c)
  BY DEF Remove, Passed
<1> QED BY <1>1, <1>2, PassedFinite, LimitsAssumption DEF Bound

\* Nothing else touches what a company owns, or lets a create of it pass.
LEMMA OtherBound ==
  ASSUME TypeOK, NEW res \in PerCompany, NEW c \in Companies, Bound(res, c),
         \/ \E r \in Requests : CreateCompany(r)
         \/ \E d \in Companies :
              \/ RemoveCompany(d) \/ Cancel(d) \/ Restore(d)
              \/ \E u \in Users : Join(u, d) \/ Leave(u, d)
         \/ \E u \in Users : GrantCredits(u) \/ \E p \in Plans : AssignPlan(u, p)
         \/ UNCHANGED vars
  PROVE  Bound(res, c)'
<1>1. res \in Counted /\ res # "documents" /\ res # "companies"
  BY DEF PerCompany, Counted
<1>2. rows'[res][c] = rows[res][c]
  BY <1>1 DEF CreateCompany, RemoveCompany, Cancel, Restore, Join, Leave, GrantCredits,
              AssignPlan, vars, TypeOK
<1>3. Passed(res, c)' = Passed(res, c)
  <2>1. ASSUME NEW r \in Requests, CreateCompany(r)
        PROVE  Passed(res, c)' = Passed(res, c)
    <3>1. requests[r].resource = "companies" /\ requests'[r].at = "idle"
      BY <2>1 DEF CreateCompany, Go, Idle, TypeOK
    <3>2. \A s \in Requests : s # r => requests'[s] = requests[s]
      BY <2>1 DEF CreateCompany, Go, TypeOK
    <3> QED BY <1>1, <3>1, <3>2 DEF Passed
  <2>2. CASE UNCHANGED requests
    BY <2>2 DEF Passed
  <2> QED BY <2>1, <2>2 DEF RemoveCompany, Cancel, Restore, Join, Leave, GrantCredits,
                            AssignPlan, vars
<1> QED BY <1>2, <1>3, SameBound

LEMMA OvershootStep ==
  ASSUME TypeOK, Metered, OvershootInv, [Next]_vars
  PROVE  OvershootInv'
<1> SUFFICES ASSUME NEW res \in PerCompany, NEW c \in Companies, Limited(res)'
             PROVE  Bound(res, c)'
  BY DEF OvershootInv, Bound
<1>1. Limited(res) /\ Bound(res, c)
  BY LimitedBefore DEF OvershootInv, Bound
<1>2. ASSUME NEW r \in Requests,
             \/ \E u \in Users, kind \in scope.creates, d \in Companies \cup {NoCompany} :
                  ReadPlan(r, u, kind, d)
             \/ ListCompanies(r) \/ Count(r) \/ CreateRow(r)
      PROVE  Bound(res, c)'
  BY <1>1, <1>2, ReadPlanBound, ListBound, CountBound, CreateRowBound
<1>3. ASSUME NEW d \in Companies, \E kind \in Counted : Remove(kind, d)
      PROVE  Bound(res, c)'
  BY <1>1, <1>3, RemoveBound
<1> QED BY <1>1, <1>2, <1>3, OtherBound DEF Next

LEMMA InitBound == Init => Metered /\ OvershootInv
BY FS_EmptySet, PassedFinite DEF Init, Metered, OvershootInv, Passed, Idle, Counted

\* The check and the create are two transactions, so parallel creates pass the
\* limit; but where every plan limits signatures and stamps and nobody has
\* credits, no company ever holds more than the largest limit plus the creates
\* that run beside one.
THEOREM CompanyOvershootBounded == Spec => []OvershootBounded
<1>1. Init => TypeOK /\ Metered /\ OvershootInv
  BY InitType, InitBound
<1>2. TypeOK /\ Metered /\ OvershootInv /\ [Next]_vars
        => (TypeOK /\ Metered /\ OvershootInv)'
  BY NextType, MeteredStep, OvershootStep
<1>3. TypeOK /\ OvershootInv => OvershootBounded
  <2> SUFFICES ASSUME TypeOK, OvershootInv, NEW res \in PerCompany, NEW c \in Companies,
                      Limited(res), rows[res][c] > 0
               PROVE  rows[res][c] < MaxLimit + Cardinality(Requests)
    BY DEF OvershootBounded
  <2>1. rows[res][c] \in Nat
    BY DEF TypeOK, Counted
  <2> QED BY <2>1, PassedFinite, LimitsAssumption DEF OvershootInv
<1> QED BY <1>1, <1>2, <1>3, PTL DEF Spec

-----------------------------------------------------------------------------
(* Sums over finite sets: MapThenSumSet adds the elements in an order of its *)
(* own, by a recursive function on the subsets, which exists; the order does *)
(* not matter.  Each fact holds of all subsets, because there is no smallest *)
(* one that breaks it.                                                       *)

TotalOf(f, S) == MapThenSumSet(LAMBDA c : f[c], S)

First(s) == CHOOSE x \in s : TRUE

\* What the fold's function on the subsets of S is.
Adds(g, f, S) == g = [s \in SUBSET S |-> IF s = {} THEN 0 ELSE f[First(s)] + g[s \ {First(s)}]]

\* A set of numbers has a least one.
LEMMA Least == ASSUME NEW K \in SUBSET Nat, K # {} PROVE \E k \in K : \A j \in K : ~(j < k)
<1>1. PICK k \in K : \A j \in K : <<j, k>> \notin OpToRel(<, Nat)
  BY NatLessThanWellFounded, WFMin
<1> QED BY <1>1 DEF OpToRel

LEMMA Fewer ==
  ASSUME NEW S, IsFiniteSet(S), NEW x \in S
  PROVE  /\ IsFiniteSet(S \ {x}) /\ Cardinality(S \ {x}) \in Nat /\ Cardinality(S) \in Nat
         /\ Cardinality(S \ {x}) = Cardinality(S) - 1
  BY FS_RemoveElement, FS_CardinalityType

LEMMA SmallSets ==
  ASSUME NEW S, IsFiniteSet(S), NEW s \in SUBSET S
  PROVE  IsFiniteSet(s) /\ Cardinality(s) \in Nat /\ Cardinality(s) <= Cardinality(S)
         /\ Cardinality(S) \in Nat
  BY FS_Subset, FS_CardinalityType

\* The same up to sets of k elements.
Upto(S, k) == {s \in SUBSET S : Cardinality(s) <= k}
AddsUpto(g, f, S, k) ==
  g = [s \in Upto(S, k) |-> IF s = {} THEN 0 ELSE f[First(s)] + g[s \ {First(s)}]]

LEMMA FirstIn == ASSUME NEW s, s # {} PROVE First(s) \in s
  BY DEF First

LEMMA UptoExists ==
  ASSUME NEW f, NEW S, IsFiniteSet(S), NEW n \in Nat
  PROVE  \E g : AddsUpto(g, f, S, n)
<1> DEFINE Bad == {k \in Nat : ~ \E g : AddsUpto(g, f, S, k)}
<1> SUFFICES ASSUME Bad # {} PROVE FALSE
  OBVIOUS
<1>1. PICK k \in Bad : \A j \in Bad : ~(j < k)
  <2>1. Bad \in SUBSET Nat
    OBVIOUS
  <2> HIDE DEF Bad
  <2> QED BY <2>1, Least
<1>2. k \in Nat /\ ~ \E g : AddsUpto(g, f, S, k)
  BY <1>1
<1>3. CASE k = 0
  <2>1. \A s \in Upto(S, 0) : s = {}
    <3> SUFFICES ASSUME NEW s \in Upto(S, 0) PROVE s = {}
      OBVIOUS
    <3>1. s \in SUBSET S /\ Cardinality(s) <= 0
      BY DEF Upto
    <3> QED BY <3>1, SmallSets, FS_EmptySet
  <2> DEFINE g == [s \in Upto(S, 0) |-> 0]
  <2>2. AddsUpto(g, f, S, 0)
    BY <2>1 DEF AddsUpto
  <2> QED BY <1>2, <1>3, <2>2
<1>4. CASE k # 0
  <2>1. k - 1 \in Nat /\ k - 1 \notin Bad
    BY <1>1, <1>2, <1>4
  <2>2. PICK h : AddsUpto(h, f, S, k - 1)
    BY <2>1
  <2> DEFINE g == [s \in Upto(S, k) |-> IF Cardinality(s) = k THEN f[First(s)] + h[s \ {First(s)}] ELSE h[s]]
  <2> HIDE DEF Bad
  <2>3. ASSUME NEW s \in Upto(S, k)
        PROVE  g[s] = IF s = {} THEN 0 ELSE f[First(s)] + g[s \ {First(s)}]
    <3>1. s \in SUBSET S /\ IsFiniteSet(s) /\ Cardinality(s) \in Nat /\ Cardinality(s) <= k
      BY SmallSets DEF Upto
    <3>2. CASE s = {}
      <4>1. s \in Upto(S, k - 1) /\ Cardinality(s) # k
        BY <1>2, <1>4, <2>1, <3>1, <3>2, FS_EmptySet DEF Upto
      <4> QED BY <2>2, <3>2, <4>1 DEF AddsUpto
    <3>3. CASE s # {}
      <4>1. First(s) \in s
        BY <3>3, FirstIn
      <4>2. Cardinality(s \ {First(s)}) = Cardinality(s) - 1
        BY <3>1, <4>1, Fewer
      <4>3. s \ {First(s)} \in Upto(S, k) /\ Cardinality(s \ {First(s)}) # k
        BY <1>2, <3>1, <4>2 DEF Upto
      <4>4. g[s \ {First(s)}] = h[s \ {First(s)}]
        BY <4>3
      <4>5. CASE Cardinality(s) = k
        <5>1. g[s] = f[First(s)] + h[s \ {First(s)}]
          BY <4>5
        <5> QED BY <3>3, <4>4, <5>1
      <4>6. CASE Cardinality(s) # k
        <5>1. s \in Upto(S, k - 1)
          BY <1>2, <3>1, <4>6 DEF Upto
        <5>2. h[s] = f[First(s)] + h[s \ {First(s)}]
          BY <2>2, <3>3, <5>1 DEF AddsUpto
        <5>3. g[s] = h[s]
          BY <4>6
        <5> QED BY <3>3, <4>4, <5>2, <5>3
      <4> QED BY <4>5, <4>6
    <3> QED BY <3>2, <3>3
  <2>4. AddsUpto(g, f, S, k)
    <3>1. g = [s \in Upto(S, k) |-> g[s]]
      OBVIOUS
    <3> HIDE DEF g
    <3> QED BY <2>3, <3>1 DEF AddsUpto
  <2> QED BY <1>2, <2>4
<1> QED BY <1>3, <1>4

LEMMA AddsExists ==
  ASSUME NEW f, NEW S, IsFiniteSet(S)
  PROVE  \E g : Adds(g, f, S)
<1>1. Upto(S, Cardinality(S)) = SUBSET S
  BY SmallSets DEF Upto
<1>2. Cardinality(S) \in Nat
  BY FS_CardinalityType
<1>3. PICK g : AddsUpto(g, f, S, Cardinality(S))
  BY <1>2, UptoExists
<1>4. Adds(g, f, S)
  BY <1>1, <1>3 DEF Adds, AddsUpto
<1> QED BY <1>4

LEMMA TotalIs ==
  ASSUME NEW f, NEW S, IsFiniteSet(S)
  PROVE  \E g : Adds(g, f, S) /\ TotalOf(f, S) = g[S]
<1> DEFINE g == CHOOSE g : Adds(g, f, S)
<1>1. Adds(g, f, S)
  BY AddsExists
<1>2. TotalOf(f, S) = g[S]
  BY DEF TotalOf, MapThenSumSet, MapThenFoldSet, Adds, First
<1> QED BY <1>1, <1>2

\* A set with fewest elements
LEMMA Fewest ==
  ASSUME NEW S, IsFiniteSet(S), NEW B \in SUBSET SUBSET S, B # {}
  PROVE  \E s \in B : \A t \in B : ~(Cardinality(t) < Cardinality(s))
<1> DEFINE K == {Cardinality(s) : s \in B}
<1>1. K \subseteq Nat /\ K # {}
  BY SmallSets
<1>2. PICK k \in K : \A j \in K : ~(j < k)
  <2> HIDE DEF K
  <2> QED BY <1>1, Least
<1> QED BY <1>2

LEMMA AddsNatural ==
  ASSUME NEW S, IsFiniteSet(S), NEW f, \A x \in S : f[x] \in Nat, NEW g, Adds(g, f, S)
  PROVE  \A s \in SUBSET S : g[s] \in Nat
<1> DEFINE Bad == {s \in SUBSET S : g[s] \notin Nat}
<1> SUFFICES ASSUME Bad # {} PROVE FALSE
  OBVIOUS
<1>1. PICK s \in Bad : \A t \in Bad : ~(Cardinality(t) < Cardinality(s))
  BY Fewest
<1>2. s \in SUBSET S /\ g[s] \notin Nat
  BY <1>1
<1>3. g[s] = IF s = {} THEN 0 ELSE f[First(s)] + g[s \ {First(s)}]
  BY <1>2 DEF Adds
<1>4. s # {} /\ First(s) \in s
  BY <1>2, <1>3, FirstIn
<1>5. Cardinality(s \ {First(s)}) < Cardinality(s)
  BY <1>2, <1>4, SmallSets, Fewer
<1>6. g[s \ {First(s)}] \in Nat
  BY <1>1, <1>2, <1>5
<1>7. f[First(s)] \in Nat
  BY <1>2, <1>4
<1> QED BY <1>2, <1>3, <1>4, <1>6, <1>7

\* Any element may be added last.
LEMMA AnyLast ==
  ASSUME NEW S, IsFiniteSet(S), NEW f, \A x \in S : f[x] \in Nat, NEW g, Adds(g, f, S)
  PROVE  \A s \in SUBSET S : \A x \in s : g[s] = f[x] + g[s \ {x}]
<1> DEFINE Bad == {s \in SUBSET S : \E x \in s : g[s] # f[x] + g[s \ {x}]}
<1> SUFFICES ASSUME Bad # {} PROVE FALSE
  OBVIOUS
<1>1. PICK s \in Bad : \A t \in Bad : ~(Cardinality(t) < Cardinality(s))
  BY Fewest
<1>2. PICK x \in s : g[s] # f[x] + g[s \ {x}]
  BY <1>1
<1>3. s \in SUBSET S /\ IsFiniteSet(s)
  BY <1>1, SmallSets
<1> DEFINE y == First(s)
<1>4. y \in s /\ g[s] = f[y] + g[s \ {y}]
  BY <1>2, <1>3, FirstIn DEF Adds
<1> HIDE DEF y
<1>5. x # y
  BY <1>2, <1>4
<1>6. \A z \in s : Cardinality(s \ {z}) < Cardinality(s)
  BY <1>3, Fewer
<1>7. g[s \ {y}] = f[x] + g[(s \ {y}) \ {x}]
  BY <1>1, <1>2, <1>3, <1>4, <1>5, <1>6
<1>8. g[s \ {x}] = f[y] + g[(s \ {x}) \ {y}]
  BY <1>1, <1>3, <1>4, <1>5, <1>6
<1>9. (s \ {x}) \ {y} = (s \ {y}) \ {x} /\ (s \ {x}) \ {y} \in SUBSET S
  BY <1>3
<1>10. g[(s \ {x}) \ {y}] \in Nat /\ f[x] \in Nat /\ f[y] \in Nat
  BY <1>2, <1>3, <1>4, <1>9, AddsNatural
<1> HIDE DEF Bad
<1> QED BY <1>2, <1>4, <1>7, <1>8, <1>9, <1>10

\* One summand more or less.
LEMMA AddsChanged ==
  ASSUME NEW S, IsFiniteSet(S), NEW R, IsFiniteSet(R),
         NEW f, \A x \in S : f[x] \in Nat, NEW e, \A x \in R : e[x] \in Nat,
         NEW T, T \subseteq S, T \subseteq R,
         NEW c, NEW d \in Int, \A x \in T : e[x] = IF x = c THEN f[x] + d ELSE f[x],
         NEW g, Adds(g, f, S), NEW h, Adds(h, e, R)
  PROVE  h[T] = g[T] + (IF c \in T THEN d ELSE 0)
<1> DEFINE Bad == {s \in SUBSET T : h[s] # g[s] + (IF c \in s THEN d ELSE 0)}
<1> SUFFICES ASSUME Bad # {} PROVE FALSE
  <2>1. T \notin Bad => h[T] = g[T] + (IF c \in T THEN d ELSE 0)
    OBVIOUS
  <2> QED BY <2>1
<1>1. PICK s \in Bad : \A t \in Bad : ~(Cardinality(t) < Cardinality(s))
  <2>1. Bad \in SUBSET SUBSET S
    OBVIOUS
  <2> QED BY <2>1, Fewest
<1>2. s \in SUBSET T /\ h[s] # g[s] + (IF c \in s THEN d ELSE 0)
  BY <1>1
<1>3. s \in SUBSET S /\ s \in SUBSET R
  BY <1>2
<1>4. /\ g[s] = IF s = {} THEN 0 ELSE f[First(s)] + g[s \ {First(s)}]
      /\ h[s] = IF s = {} THEN 0 ELSE e[First(s)] + h[s \ {First(s)}]
  BY <1>3 DEF Adds
<1>5. s # {} /\ First(s) \in s
  <2>1. s # {}
    BY <1>2, <1>4
  <2> QED BY <2>1, FirstIn
<1> DEFINE y == First(s)
           t == s \ {y}
<1>6. t \in SUBSET T /\ Cardinality(t) < Cardinality(s) /\ y \in T
  BY <1>2, <1>3, <1>5, SmallSets, Fewer
<1>7. h[t] = g[t] + (IF c \in t THEN d ELSE 0)
  BY <1>1, <1>6
<1>8. g[t] \in Nat /\ h[t] \in Nat /\ f[y] \in Nat /\ e[y] \in Nat
  <2>1. t \in SUBSET S /\ t \in SUBSET R
    BY <1>6
  <2> QED BY <1>6, <2>1, AddsNatural
<1>9. e[y] = IF y = c THEN f[y] + d ELSE f[y]
  BY <1>6
<1>10. g[s] = f[y] + g[t] /\ h[s] = e[y] + h[t]
  BY <1>4, <1>5
<1>11. c \in s <=> c \in t \/ y = c
  BY <1>5
<1>12. y \notin t
  OBVIOUS
<1> HIDE DEF Bad, y, t
<1> QED BY <1>2, <1>7, <1>8, <1>9, <1>10, <1>11, <1>12

-----------------------------------------------------------------------------
LEMMA TotalNatural ==
  ASSUME NEW S, IsFiniteSet(S), NEW f, \A x \in S : f[x] \in Nat
  PROVE  TotalOf(f, S) \in Nat
<1>1. PICK g : Adds(g, f, S) /\ TotalOf(f, S) = g[S]
  BY TotalIs
<1> QED BY <1>1, AddsNatural

LEMMA TotalEmpty == ASSUME NEW f PROVE TotalOf(f, {}) = 0
<1>1. PICK g : Adds(g, f, {}) /\ TotalOf(f, {}) = g[{}]
  BY TotalIs, FS_EmptySet
<1> QED BY <1>1 DEF Adds

LEMMA TotalChanged ==
  ASSUME NEW S, IsFiniteSet(S), NEW f, \A x \in S : f[x] \in Nat, NEW e, \A x \in S : e[x] \in Nat,
         NEW c, NEW d \in Int, \A x \in S : e[x] = IF x = c THEN f[x] + d ELSE f[x]
  PROVE  TotalOf(e, S) = TotalOf(f, S) + (IF c \in S THEN d ELSE 0)
<1>1. PICK g : Adds(g, f, S) /\ TotalOf(f, S) = g[S]
  BY TotalIs
<1>2. PICK h : Adds(h, e, S) /\ TotalOf(e, S) = h[S]
  BY TotalIs
<1>3. h[S] = g[S] + (IF c \in S THEN d ELSE 0)
  BY <1>1, <1>2, AddsChanged
<1> QED BY <1>1, <1>2, <1>3

LEMMA TotalWithout ==
  ASSUME NEW S, IsFiniteSet(S), NEW f, \A x \in S : f[x] \in Nat, NEW x \in S
  PROVE  TotalOf(f, S) = f[x] + TotalOf(f, S \ {x})
<1> DEFINE R == S \ {x}
<1>1. IsFiniteSet(R) /\ R \subseteq S /\ \A y \in R : f[y] \in Nat
  BY FS_Subset
<1> HIDE DEF R
<1>2. PICK g : Adds(g, f, S) /\ TotalOf(f, S) = g[S]
  BY TotalIs
<1>3. PICK h : Adds(h, f, R) /\ TotalOf(f, R) = h[R]
  BY <1>1, TotalIs
<1>4. x \notin R
  BY DEF R
<1>5. h[R] = g[R]
  <2>1. PICK e : e = f
    OBVIOUS
  <2>2. 1 \in Int /\ \A y \in R : e[y] = IF y = x THEN f[y] + 1 ELSE f[y]
    BY <1>4, <2>1
  <2>3. Adds(h, e, R) /\ \A y \in R : e[y] \in Nat
    BY <1>1, <1>3, <2>1
  <2>4. h[R] = g[R] + (IF x \in R THEN 1 ELSE 0)
    BY <1>1, <1>2, <2>2, <2>3, AddsChanged
  <2>5. g[R] \in Nat
    BY <1>1, <1>2, AddsNatural
  <2> QED BY <1>4, <2>4, <2>5
<1>6. g[R] \in Nat
  BY <1>1, <1>2, AddsNatural
<1>7. g[S] = f[x] + g[R]
  BY <1>2, AnyLast DEF R
<1> QED BY <1>2, <1>3, <1>5, <1>6, <1>7 DEF R

-----------------------------------------------------------------------------
(* What a user has over all companies                                      *)

\* A company that was not created yet has no members, no rows and no creates in flight, and is on no list.
FreshInv ==
  /\ \A u \in Users : IsFiniteSet(member[u])
  /\ \A r \in Requests : IsFiniteSet(requests[r].companies)
  /\ \A c \in Companies : company[c] = "none" =>
       /\ \A u \in Users : c \notin member[u]
       /\ \A res \in Counted : rows[res][c] = 0
       /\ cancelled[c] = 0
       /\ \A r \in Requests : requests[r].company # c /\ c \notin requests[r].companies

LEMMA InitFresh == Init => FreshInv
<1> SUFFICES ASSUME Init PROVE FreshInv
  OBVIOUS
<1>1. /\ \A u \in Users : member[u] = {}
      /\ \A r \in Requests : requests[r].companies = {} /\ requests[r].company = NoCompany
  BY DEF Init, Idle
<1>2. \A c \in Companies : cancelled[c] = 0 /\ \A res \in Counted : rows[res][c] = 0
  BY DEF Init
<1> QED BY <1>1, <1>2, FS_EmptySet, LimitsAssumption DEF FreshInv

LEMMA ReadPlanFresh ==
  ASSUME TypeOK, FreshInv, NEW r \in Requests, NEW u \in Users, NEW res \in scope.creates,
         NEW c \in Companies \cup {NoCompany}, ReadPlan(r, u, res, c)
  PROVE  FreshInv'
<1>1. requests'[r].companies = {} /\ requests'[r].company = c /\ \A s \in Requests : s # r => requests'[s] = requests[s]
  BY DEF ReadPlan, Go, TypeOK
<1>2. c \in Companies => company[c] # "none"
  BY LimitsAssumption DEF ReadPlan, FreshInv
<1>3. UNCHANGED <<member, company, rows, cancelled>>
  BY DEF ReadPlan
<1>4. IsFiniteSet(requests'[r].companies)
  BY <1>1, FS_EmptySet
<1>5. \A s \in Requests : IsFiniteSet(requests'[s].companies)
  BY <1>1, <1>4 DEF FreshInv
<1>6. \A d \in Companies : company[d] = "none" => \A s \in Requests : requests'[s].company # d /\ d \notin requests'[s].companies
  BY <1>1, <1>2, LimitsAssumption DEF FreshInv
<1> QED BY <1>3, <1>5, <1>6 DEF FreshInv

LEMMA RequestFresh ==
  ASSUME TypeOK, FreshInv, NEW r \in Requests,
         ListCompanies(r) \/ Count(r) \/ CreateCompany(r) \/ CreateRow(r)
  PROVE  FreshInv'
<1>1. /\ requests'[r].company = NoCompany \/ requests'[r].company = requests[r].company
      /\ \A s \in Requests : s # r => requests'[s] = requests[s]
  BY RequestStep, MovedFields DEF Idle
<1>0. requests'[r].companies = {} \/ requests'[r].companies = member[requests[r].user]
  BY RequestStep, MovedFields DEF Idle
<1>2. \A c \in Companies : company[c] = "none" => \A s \in Requests : requests'[s].company # c /\ c \notin requests'[s].companies
  <2>1. \A c \in Companies : company[c] = "none" => c \notin requests'[r].companies /\ requests'[r].company # c
    BY <1>0, <1>1, RequestStep, LimitsAssumption DEF FreshInv
  <2> QED BY <1>1, <2>1 DEF FreshInv
<1>3. \A s \in Requests : IsFiniteSet(requests'[s].companies)
  <2>1. IsFiniteSet(requests'[r].companies)
    BY <1>0, RequestStep, FS_EmptySet DEF FreshInv
  <2> QED BY <1>1, <2>1 DEF FreshInv
<1>7. CASE ListCompanies(r)
  BY <1>2, <1>3, <1>7 DEF ListCompanies, FreshInv
<1>4. CASE Count(r)
  BY <1>2, <1>3, <1>4 DEF Count, FreshInv
<1>5. CASE CreateCompany(r)
  <2>1. PICK c \in Companies : /\ company[c] = "none" /\ company' = [company EXCEPT ![c] = "active"]
                               /\ member' = [member EXCEPT ![requests[r].user] = @ \cup {c}]
    BY <1>5 DEF CreateCompany
  <2>2. \A u \in Users : member'[u] = member[u] \/ member'[u] = member[u] \cup {c}
    BY <2>1 DEF TypeOK
  <2>3. \A u \in Users : IsFiniteSet(member'[u])
    <3>1. \A u \in Users : IsFiniteSet(member[u]) /\ IsFiniteSet(member[u] \cup {c})
      BY FS_AddElement DEF FreshInv
    <3> QED BY <2>2, <3>1
  <2>4. \A d \in Companies : company'[d] = "none" => company[d] = "none" /\ d # c
    BY <2>1 DEF TypeOK
  <2>5. UNCHANGED <<rows, cancelled>>
    BY <1>5 DEF CreateCompany
  <2> QED BY <1>2, <1>3, <2>2, <2>3, <2>4, <2>5 DEF FreshInv
<1>6. CASE CreateRow(r)
  <2>1. \A res \in Counted, c \in Companies : rows'[res][c] = rows[res][c] \/ c = requests[r].company
    BY <1>6 DEF CreateRow, TypeOK
  <2>2. UNCHANGED <<member, company, cancelled>>
    BY <1>6 DEF CreateRow
  <2> QED BY <1>2, <1>3, <2>1, <2>2 DEF FreshInv
<1> QED BY <1>4, <1>5, <1>6, <1>7

LEMMA CompanyFresh ==
  ASSUME TypeOK, FreshInv, NEW c \in Companies,
         \/ \E res \in Counted : Remove(res, c)
         \/ RemoveCompany(c) \/ Cancel(c) \/ Restore(c)
         \/ \E u \in Users : Join(u, c) \/ Leave(u, c)
  PROVE  FreshInv'
<1>1. requests' = requests
  BY DEF Remove, RemoveCompany, Cancel, Restore, Join, Leave
<1>2. ASSUME NEW res \in Counted, Remove(res, c) PROVE FreshInv'
  <2>1. company[c] # "none" /\ UNCHANGED <<member, company, cancelled>>
    BY <1>2 DEF Remove, FreshInv
  <2>2. \A k \in Counted, d \in Companies : d # c => rows'[k][d] = rows[k][d]
    BY <1>2 DEF Remove, TypeOK
  <2> QED BY <1>1, <2>1, <2>2 DEF FreshInv
<1>3. CASE RemoveCompany(c)
  <2>1. \A d \in Companies : company'[d] = "none" => company[d] = "none"
    BY <1>3 DEF RemoveCompany, TypeOK
  <2> QED BY <1>1, <1>3, <2>1 DEF RemoveCompany, FreshInv
<1>4. CASE Cancel(c) \/ Restore(c)
  <2>1. "documents" \in Counted
    BY DEF Counted, PerUser
  <2>2. company[c] # "none" /\ UNCHANGED <<member, company>>
    BY <1>4, <2>1 DEF Cancel, Restore, FreshInv
  <2>3. \A d \in Companies : d # c => cancelled'[d] = cancelled[d]
    BY <1>4 DEF Cancel, Restore, TypeOK
  <2>4. \A d \in Companies : d # c => \A k \in Counted : rows'[k][d] = rows[k][d]
    BY <1>4, <2>1 DEF Cancel, Restore, TypeOK
  <2> QED BY <1>1, <2>2, <2>3, <2>4 DEF FreshInv
<1>5. ASSUME NEW u \in Users, Join(u, c) PROVE FreshInv'
  <2>1. company[c] # "none" /\ UNCHANGED <<rows, company, cancelled>>
    BY <1>5 DEF Join
  <2>2. \A w \in Users : member'[w] = member[w] \/ member'[w] = member[w] \cup {c}
    BY <1>5 DEF Join, TypeOK
  <2>3. \A w \in Users : IsFiniteSet(member[w]) /\ IsFiniteSet(member[w] \cup {c})
    BY FS_AddElement DEF FreshInv
  <2>4. \A w \in Users : IsFiniteSet(member'[w])
    BY <2>2, <2>3
  <2> QED BY <1>1, <2>1, <2>2, <2>4 DEF FreshInv
<1>6. ASSUME NEW u \in Users, Leave(u, c) PROVE FreshInv'
  <2>1. UNCHANGED <<rows, company, cancelled>>
    BY <1>6 DEF Leave
  <2>2. \A w \in Users : member'[w] = member[w] \/ member'[w] = member[w] \ {c}
    BY <1>6 DEF Leave, TypeOK
  <2>3. \A w \in Users : IsFiniteSet(member[w]) /\ IsFiniteSet(member[w] \ {c})
    BY FS_RemoveElement DEF FreshInv
  <2>4. \A w \in Users : IsFiniteSet(member'[w])
    BY <2>2, <2>3
  <2> QED BY <1>1, <2>1, <2>2, <2>4 DEF FreshInv
<1> QED BY <1>2, <1>3, <1>4, <1>5, <1>6

LEMMA FreshStep == TypeOK /\ FreshInv /\ [Next]_vars => FreshInv'
<1> SUFFICES ASSUME TypeOK, FreshInv, [Next]_vars PROVE FreshInv'
  OBVIOUS
<1>1. CASE UNCHANGED <<member, company, rows, cancelled, requests>>
  BY <1>1 DEF FreshInv
<1>2. UNCHANGED vars => UNCHANGED <<member, company, rows, cancelled, requests>>
  BY DEF vars
<1>3. \A u \in Users : GrantCredits(u) \/ (\E p \in Plans : AssignPlan(u, p))
        => UNCHANGED <<member, company, rows, cancelled, requests>>
  BY DEF GrantCredits, AssignPlan
<1> QED BY <1>1, <1>2, <1>3, ReadPlanFresh, RequestFresh, CompanyFresh DEF Next

-----------------------------------------------------------------------------
\* Creates of a resource that have passed the check, in any company.
Passing(res) == {r \in Requests : requests[r].at = "checked" /\ requests[r].resource = res}

UserBound(u) ==
  Held(u, "companies") > 0 \/ Passing("companies") # {}
    => Held(u, "companies") + Cardinality(Passing("companies")) < MaxLimit + Cardinality(Requests)

LEMMA PassingFinite ==
  ASSUME NEW res
  PROVE  /\ IsFiniteSet(Passing(res)) /\ Cardinality(Passing(res)) \in Nat
         /\ Cardinality(Requests) \in Nat /\ Cardinality(Passing(res)) <= Cardinality(Requests)
<1>1. Passing(res) \subseteq Requests
  BY DEF Passing
<1>2. IsFiniteSet(Requests)
  BY LimitsAssumption
<1> QED BY <1>1, <1>2, FS_Subset, FS_CardinalityType

LEMMA PassingFinitePrime ==
  ASSUME NEW res
  PROVE  /\ IsFiniteSet(Passing(res)') /\ Cardinality(Passing(res)') \in Nat
         /\ Cardinality(Passing(res)') <= Cardinality(Requests)
<1>1. Passing(res)' \subseteq Requests
  BY DEF Passing
<1>2. IsFiniteSet(Requests)
  BY LimitsAssumption
<1> QED BY <1>1, <1>2, FS_Subset, FS_CardinalityType

LEMMA HeldIs ==
  ASSUME NEW u
  PROVE  /\ Held(u, "companies") = Cardinality(member[u] \cap Active)
         /\ Held(u, "contractors") = TotalOf(rows["contractors"], member[u])
         /\ Held(u, "companies")' = Cardinality(member'[u] \cap Active')
         /\ Held(u, "contractors")' = TotalOf(rows'["contractors"], member'[u])
<1>1. Held(u, "companies") = Cardinality(member[u] \cap Active)
  BY DEF Held, MapThenSumSet, MapThenFoldSet
<1>2. Held(u, "contractors") = TotalOf(rows["contractors"], member[u])
  BY DEF Held, TotalOf, MapThenSumSet, MapThenFoldSet
<1>3. Held(u, "companies")' = Cardinality(member'[u] \cap Active')
  BY DEF Held, MapThenSumSet, MapThenFoldSet
<1>4. Held(u, "contractors")' = TotalOf(rows'["contractors"], member'[u])
  BY DEF Held, TotalOf, MapThenSumSet, MapThenFoldSet
<1> QED BY <1>1, <1>2, <1>3, <1>4

\* The number of a user's active companies, as one of them comes or some go.
LEMMA CompaniesHeld ==
  ASSUME NEW S, IsFiniteSet(S), NEW A
  PROVE  /\ Cardinality(S \cap A) \in Nat
         /\ \A T, B : T \subseteq S /\ B \subseteq A
              => Cardinality(T \cap B) \in Nat /\ Cardinality(T \cap B) <= Cardinality(S \cap A)
         /\ \A c : Cardinality((S \cup {c}) \cap (A \cup {c})) \in Nat
                   /\ Cardinality((S \cup {c}) \cap (A \cup {c})) <= Cardinality(S \cap A) + 1
<1>1. IsFiniteSet(S \cap A) /\ Cardinality(S \cap A) \in Nat
  BY FS_Subset, FS_CardinalityType
<1>2. ASSUME NEW T, NEW B, T \subseteq S /\ B \subseteq A
      PROVE  Cardinality(T \cap B) \in Nat /\ Cardinality(T \cap B) <= Cardinality(S \cap A)
  <2>1. T \cap B \in SUBSET (S \cap A)
    BY <1>2
  <2> QED BY <1>1, <2>1, FS_Subset, FS_CardinalityType
<1>3. ASSUME NEW c
      PROVE  Cardinality((S \cup {c}) \cap (A \cup {c})) \in Nat
             /\ Cardinality((S \cup {c}) \cap (A \cup {c})) <= Cardinality(S \cap A) + 1
  <2>1. (S \cup {c}) \cap (A \cup {c}) = (S \cap A) \cup {c}
    OBVIOUS
  <2>2. PICK V : V = S \cap A
    OBVIOUS
  <2>3. IsFiniteSet(V \cup {c}) /\ Cardinality(V \cup {c}) <= Cardinality(V) + 1
    <3>1. IsFiniteSet(V) /\ Cardinality(V) \in Nat
      BY <1>1, <2>2
    <3>2. IsFiniteSet(V \cup {c}) /\ Cardinality(V \cup {c}) = IF c \in V THEN Cardinality(V) ELSE Cardinality(V) + 1
      BY <3>1, FS_AddElement
    <3> QED BY <3>1, <3>2
  <2>4. Cardinality(V \cup {c}) \in Nat
    BY <2>3, FS_CardinalityType
  <2>5. (S \cup {c}) \cap (A \cup {c}) = V \cup {c}
    BY <2>1, <2>2
  <2> QED BY <2>2, <2>3, <2>4, <2>5
<1> QED BY <1>1, <1>2, <1>3

LEMMA HeldNatural == ASSUME TypeOK, FreshInv, NEW u \in Users, NEW res \in {"companies", "contractors"}
                     PROVE Held(u, res) \in Nat
<1>1. PICK S, f, A : S = member[u] /\ f = rows["contractors"] /\ A = Active
  OBVIOUS
<1>2. IsFiniteSet(S) /\ \A c \in S : f[c] \in Nat
  BY <1>1 DEF TypeOK, FreshInv, Counted, PerUser
<1>3. TotalOf(f, S) \in Nat /\ Cardinality(S \cap A) \in Nat
  BY <1>2, TotalNatural, CompaniesHeld
<1> QED BY <1>1, <1>3, HeldIs

LEMMA HeldNaturalPrime == ASSUME TypeOK', FreshInv', NEW u \in Users, NEW res \in {"companies", "contractors"}
                          PROVE Held(u, res)' \in Nat
<1>1. PICK S, f, A : S = member'[u] /\ f = rows'["contractors"] /\ A = Active'
  OBVIOUS
<1>2. IsFiniteSet(S) /\ \A c \in S : f[c] \in Nat
  BY <1>1 DEF TypeOK, FreshInv, Counted, PerUser
<1>3. TotalOf(f, S) \in Nat /\ Cardinality(S \cap A) \in Nat
  BY <1>2, TotalNatural, CompaniesHeld
<1> QED BY <1>1, <1>3, HeldIs

\* What is held as memberships, companies and rows change.
LEMMA FewerCompanies ==
  ASSUME FreshInv, NEW u \in Users, member'[u] \subseteq member[u], Active' \subseteq Active
  PROVE  Held(u, "companies")' <= Held(u, "companies")
<1>1. PICK S, A, T, B : S = member[u] /\ A = Active /\ T = member'[u] /\ B = Active'
  OBVIOUS
<1>2. IsFiniteSet(S) /\ T \subseteq S /\ B \subseteq A
  BY <1>1 DEF FreshInv
<1>3. Cardinality(T \cap B) <= Cardinality(S \cap A)
  BY <1>2, CompaniesHeld
<1> QED BY <1>1, <1>3, HeldIs

LEMMA OneMoreCompany ==
  ASSUME FreshInv, NEW u \in Users, NEW c, member'[u] = member[u] \cup {c}, Active' = Active \cup {c}
  PROVE  Held(u, "companies")' <= Held(u, "companies") + 1
<1>1. PICK S, A : S = member[u] /\ A = Active
  OBVIOUS
<1>2. IsFiniteSet(S)
  BY <1>1 DEF FreshInv
<1>3. Cardinality((S \cup {c}) \cap (A \cup {c})) <= Cardinality(S \cap A) + 1
  BY <1>2, CompaniesHeld
<1> QED BY <1>1, <1>3, HeldIs

LEMMA SameContractors ==
  ASSUME NEW u \in Users, UNCHANGED <<member, rows>>
  PROVE  Held(u, "contractors")' = Held(u, "contractors")
BY HeldIs

\* One company less or more, without contractors if it is a new one.
LEMMA FewerContractors ==
  ASSUME TypeOK, FreshInv, NEW u \in Users, NEW c, member'[u] = member[u] \ {c}, UNCHANGED rows
  PROVE  Held(u, "contractors")' <= Held(u, "contractors")
<1>1. PICK S, f : S = member[u] /\ f = rows["contractors"]
  OBVIOUS
<1>2. IsFiniteSet(S) /\ \A x \in S : f[x] \in Nat
  BY <1>1 DEF TypeOK, FreshInv, Counted, PerUser
<1>3. TotalOf(f, S \ {c}) <= TotalOf(f, S)
  <2>1. CASE c \in S
    <3>1. TotalOf(f, S) = f[c] + TotalOf(f, S \ {c}) /\ f[c] \in Nat
      BY <1>2, <2>1, TotalWithout
    <3>2. IsFiniteSet(S \ {c}) /\ \A x \in S \ {c} : f[x] \in Nat
      BY <1>2, FS_RemoveElement
    <3>3. TotalOf(f, S \ {c}) \in Nat
      BY <3>2, TotalNatural
    <3> QED BY <3>1, <3>3
  <2>2. CASE c \notin S
    <3>1. S \ {c} = S /\ TotalOf(f, S) \in Nat
      BY <1>2, <2>2, TotalNatural
    <3> QED BY <3>1
  <2> QED BY <2>1, <2>2
<1> QED BY <1>1, <1>3, HeldIs

LEMMA NewCompanyIsEmpty ==
  ASSUME TypeOK, FreshInv, NEW u \in Users, NEW c \in Companies, company[c] = "none",
         member'[u] = member[u] \cup {c}, UNCHANGED rows
  PROVE  Held(u, "contractors")' = Held(u, "contractors")
<1>1. PICK S, f : S = member[u] /\ f = rows["contractors"]
  OBVIOUS
<1>2. IsFiniteSet(S) /\ c \notin S /\ f[c] = 0 /\ \A x \in S : f[x] \in Nat
  BY <1>1 DEF TypeOK, FreshInv, Counted, PerUser
<1> DEFINE T == S \cup {c}
<1>3. IsFiniteSet(T) /\ c \in T /\ T \ {c} = S /\ \A x \in T : f[x] \in Nat
  BY <1>2, FS_AddElement
<1> HIDE DEF T
<1>4. TotalOf(f, T) = f[c] + TotalOf(f, T \ {c})
  BY <1>3, TotalWithout
<1>5. TotalOf(f, S) \in Nat
  BY <1>2, TotalNatural
<1>6. TotalOf(f, T) = TotalOf(f, S)
  BY <1>2, <1>3, <1>4, <1>5
<1> QED BY <1>1, <1>6, HeldIs DEF T

\* A row comes or goes in one company.
LEMMA OtherContractors ==
  ASSUME TypeOK, FreshInv, TypeOK', NEW u \in Users, NEW c, NEW d \in {-1, 0, 1}, UNCHANGED member,
         \A x \in Companies : rows'["contractors"][x] = IF x = c THEN rows["contractors"][x] + d
                                                         ELSE rows["contractors"][x]
  PROVE  Held(u, "contractors")' = Held(u, "contractors") + d \/ Held(u, "contractors")' = Held(u, "contractors")
<1>1. PICK S, f, e : S = member[u] /\ f = rows["contractors"] /\ e = rows'["contractors"]
  OBVIOUS
<1>2. IsFiniteSet(S) /\ S \subseteq Companies
  BY <1>1 DEF TypeOK, FreshInv
<1>3. \A x \in S : f[x] \in Nat /\ e[x] \in Nat
  BY <1>1, <1>2 DEF TypeOK, Counted, PerUser
<1>4. \A x \in S : e[x] = IF x = c THEN f[x] + d ELSE f[x]
  BY <1>1, <1>2
<1>5. TotalOf(e, S) = TotalOf(f, S) + (IF c \in S THEN d ELSE 0)
  <2>1. d \in Int
    OBVIOUS
  <2> QED BY <1>2, <1>3, <1>4, <2>1, TotalChanged
<1>6. TotalOf(f, S) \in Nat
  BY <1>2, <1>3, TotalNatural
<1>7. TotalOf(e, S) = TotalOf(f, S) + d \/ TotalOf(e, S) = TotalOf(f, S)
  BY <1>5, <1>6
<1> QED BY <1>1, <1>7, HeldIs

-----------------------------------------------------------------------------
\* The checks change nothing that is held.
LEMMA SameHeld ==
  ASSUME TypeOK, FreshInv, NEW u \in Users, NEW res \in {"companies", "contractors"},
         UNCHANGED <<member, company, rows>>
  PROVE  Held(u, res)' = Held(u, res) /\ Held(u, res) \in Nat
BY HeldIs, HeldNatural DEF Active

\* What companies and rows lose, or a user leaves, is held no more.
LEMMA CompanyHeld ==
  ASSUME TypeOK, FreshInv, TypeOK', FreshInv', NEW u \in Users, NEW res \in {"companies", "contractors"},
         NEW c \in Companies,
         \/ \E kind \in Counted : Remove(kind, c)
         \/ RemoveCompany(c) \/ Cancel(c) \/ Restore(c)
         \/ \E w \in Users : Leave(w, c)
  PROVE  Held(u, res)' <= Held(u, res) /\ UNCHANGED requests
<1>1. Held(u, res) \in Nat /\ "contractors" \in Counted /\ "documents" \in Counted
  BY HeldNatural DEF Counted, PerUser
<1>2. UNCHANGED requests
  BY DEF Remove, RemoveCompany, Cancel, Restore, Leave
<1>3. ASSUME NEW kind \in Counted, Remove(kind, c) PROVE Held(u, res)' <= Held(u, res)
  <2>1. rows' = [rows EXCEPT ![kind][c] = @ - 1] /\ UNCHANGED <<member, company>>
    BY <1>3 DEF Remove
  <2>2. CASE res = "companies" \/ kind # "contractors"
    <3>1. res = "companies" \/ rows'["contractors"] = rows["contractors"]
      BY <1>1, <2>1, <2>2 DEF TypeOK
    <3>2. Active' = Active
      BY <2>1 DEF Active
    <3>3. Held(u, res)' = Held(u, res)
      <4>1. CASE res = "companies"
        BY <2>1, <3>2, <4>1, HeldIs
      <4>2. CASE res = "contractors"
        BY <2>1, <3>1, <4>2, HeldIs
      <4> QED BY <4>1, <4>2
    <3> QED BY <1>1, <3>3
  <2>3. CASE res = "contractors" /\ kind = "contractors"
    <3>1. \A x \in Companies : rows'["contractors"][x] = IF x = c THEN rows["contractors"][x] + -1
                                                         ELSE rows["contractors"][x]
      BY <1>1, <2>1, <2>3 DEF TypeOK
    <3>2. Held(u, res)' = Held(u, res) + -1 \/ Held(u, res)' = Held(u, res)
      BY <2>1, <2>3, <3>1, OtherContractors
    <3> QED BY <1>1, <3>2
  <2> QED BY <2>2, <2>3
<1>4. CASE RemoveCompany(c)
  <2>1. Active' \subseteq Active /\ UNCHANGED <<member, rows>>
    BY <1>4 DEF RemoveCompany, Active, TypeOK
  <2>2. Held(u, "companies")' <= Held(u, "companies")
    BY <2>1, FewerCompanies
  <2>3. Held(u, "contractors")' = Held(u, "contractors")
    BY <2>1, SameContractors
  <2> QED BY <1>1, <1>2, <2>2, <2>3
<1>5. CASE Cancel(c) \/ Restore(c)
  <2>1. rows'["contractors"] = rows["contractors"] /\ UNCHANGED <<member, company>>
    BY <1>1, <1>5 DEF Cancel, Restore, TypeOK
  <2>2. Held(u, res)' = Held(u, res)
    BY <2>1, HeldIs DEF Active
  <2> QED BY <1>1, <1>2, <2>2
<1>6. ASSUME NEW w \in Users, Leave(w, c) PROVE Held(u, res)' <= Held(u, res)
  <2>1. Active' = Active /\ UNCHANGED rows
    BY <1>6 DEF Leave, Active
  <2>2. member'[u] = member[u] \/ member'[u] = member[u] \ {c}
    BY <1>6 DEF Leave, TypeOK
  <2>3. Held(u, "companies")' <= Held(u, "companies")
    BY <2>1, <2>2, FewerCompanies
  <2>4. member'[u] = member[u] \ {c} => Held(u, "contractors")' <= Held(u, "contractors")
    BY <2>1, FewerContractors
  <2>5. member'[u] = member[u] => Held(u, "contractors")' = Held(u, "contractors")
    BY <2>1, HeldIs
  <2> QED BY <1>1, <2>2, <2>3, <2>4, <2>5
<1> QED BY <1>2, <1>3, <1>4, <1>5, <1>6

\* A create is over: it no longer passes.
LEMMA CreateEnds ==
  ASSUME TypeOK, NEW r \in Requests, CreateCompany(r) \/ CreateRow(r), NEW res
  PROVE  /\ requests[r].resource = res => r \in Passing(res) /\ Passing(res)' = Passing(res) \ {r}
         /\ requests[r].resource # res => Passing(res)' = Passing(res)
<1>1. requests[r].at = "checked" /\ requests'[r].at = "idle" /\ \A s \in Requests : s # r => requests'[s] = requests[s]
  BY DEF CreateCompany, CreateRow, Go, TypeOK, Idle
<1> QED BY <1>1 DEF Passing

\* A new company adds one to what its creator has, and no contractors.
LEMMA CreateCompanyHeld ==
  ASSUME TypeOK, FreshInv, NEW u \in Users, Users \subseteq {u}, NEW r \in Requests, CreateCompany(r)
  PROVE  /\ Held(u, "companies")' <= Held(u, "companies") + 1
         /\ Held(u, "contractors")' = Held(u, "contractors")
         /\ requests[r].resource = "companies"
         /\ \E c \in Companies : company[c] = "none" /\ member'[u] = member[u] \cup {c}
<1>1. PICK c \in Companies : /\ company[c] = "none" /\ company' = [company EXCEPT ![c] = "active"]
                             /\ member' = [member EXCEPT ![requests[r].user] = @ \cup {c}]
  BY DEF CreateCompany
<1>2. requests[r].user = u /\ requests[r].resource = "companies" /\ UNCHANGED rows
  BY RequestStep DEF CreateCompany
<1>3. member'[u] = member[u] \cup {c} /\ Active' = Active \cup {c}
  BY <1>1, <1>2 DEF TypeOK, Active
<1> QED BY <1>1, <1>2, <1>3, OneMoreCompany, NewCompanyIsEmpty

\* A row that is created adds one, if it is a contractor of one of the user's companies.
LEMMA CreateRowHeld ==
  ASSUME TypeOK, FreshInv, TypeOK', NEW u \in Users, NEW r \in Requests, CreateRow(r)
  PROVE  /\ Held(u, "companies")' = Held(u, "companies")
         /\ requests[r].resource # "contractors" => rows'["contractors"] = rows["contractors"]
         /\ requests[r].resource = "contractors" => Held(u, "contractors")' <= Held(u, "contractors") + 1
         /\ requests[r].resource # "contractors" => Held(u, "contractors")' = Held(u, "contractors")
         /\ requests[r].resource # "companies" /\ UNCHANGED <<member, company>>
<1> DEFINE q == requests[r]
<1>1. /\ q.resource \in Counted /\ UNCHANGED <<member, company>>
      /\ rows' = [rows EXCEPT ![q.resource][q.company] = @ + 1]
  BY DEF CreateRow
<1>2. "contractors" \in Counted /\ "companies" \notin Counted
  BY DEF Counted, PerUser, PerCompany
<1>3. Held(u, "companies")' = Held(u, "companies")
  BY <1>1, HeldIs DEF Active
<1>4. q.resource # "contractors" => rows'["contractors"] = rows["contractors"]
  BY <1>1, <1>2 DEF TypeOK
<1>5. q.resource # "contractors" => Held(u, "contractors")' = Held(u, "contractors")
  BY <1>1, <1>4, HeldIs
<1>6. ASSUME q.resource = "contractors" PROVE Held(u, "contractors")' <= Held(u, "contractors") + 1
  <2>1. PICK c : c = q.company
    OBVIOUS
  <2>2. \A x \in Companies : rows'["contractors"][x] = IF x = c THEN rows["contractors"][x] + 1
                                                       ELSE rows["contractors"][x]
    BY <1>1, <1>2, <1>6, <2>1 DEF TypeOK
  <2>3. 1 \in {-1, 0, 1} /\ UNCHANGED member /\ Held(u, "contractors") \in Nat
    BY <1>1, HeldNatural
  <2>4. Held(u, "contractors")' = Held(u, "contractors") + 1 \/ Held(u, "contractors")' = Held(u, "contractors")
    BY <2>2, <2>3, OtherContractors
  <2> QED BY <2>3, <2>4
<1> QED BY <1>1, <1>2, <1>3, <1>4, <1>5, <1>6

-----------------------------------------------------------------------------
(* Companies: one statement counts them, so those that pass are few enough. *)

LEMMA NoMoreCompanies ==
  ASSUME TypeOK, FreshInv, TypeOK', FreshInv', NEW u \in Users, UserBound(u),
         Held(u, "companies")' <= Held(u, "companies"), Passing("companies")' = Passing("companies")
  PROVE  UserBound(u)'
BY HeldNatural, HeldNaturalPrime, PassingFinite, PassingFinitePrime, LimitsAssumption DEF UserBound

LEMMA CountCompanies ==
  ASSUME TypeOK, FreshInv, TypeOK', FreshInv', Metered, NEW u \in Users, Users \subseteq {u},
         UserBound(u), NEW r \in Requests, Count(r)
  PROVE  UserBound(u)'
<1> DEFINE q == requests[r]
<1>1. /\ q.at = "counting" /\ q \in Request /\ \A s \in Requests : s # r => requests'[s] = requests[s]
      /\ UNCHANGED <<member, company, rows>>
  BY Counts
<1>2. q.user = u
  BY RequestStep
<1>3. Held(u, "companies")' = Held(u, "companies") /\ Held(u, "companies") \in Nat
  BY <1>1, SameHeld
<1>4. CASE q.resource = "companies" /\ ~(Usage(q) >= q.limit)
  <2>1. Usage(q) = Held(u, "companies")
    BY <1>2, <1>4, HeldIs DEF Usage, PerUser, PerCompany
  <2>2. Held(u, "companies") < MaxLimit
    BY <1>1, <1>3, <1>4, <2>1, LimitsAssumption DEF Metered
  <2> QED BY <1>3, <2>2, PassingFinitePrime, PassingFinite, LimitsAssumption DEF UserBound
<1>5. CASE ~(q.resource = "companies" /\ ~(Usage(q) >= q.limit))
  <2>1. requests'[r].at = "checked" /\ requests'[r].resource = "companies" => FALSE
    BY <1>1, <1>5, Counts
  <2>2. Passing("companies")' = Passing("companies")
    BY <1>1, <2>1 DEF Passing
  <2> QED BY <1>3, <2>2, NoMoreCompanies
<1> QED BY <1>4, <1>5

\* The steps of an instance that nothing joins.
LEMMA OtherSteps ==
  ASSUME [Next]_vars, "join" \notin scope.ops
  PROVE  \/ \E r \in Requests :
              \/ \E w \in Users, kind \in scope.creates, d \in Companies \cup {NoCompany} :
                   ReadPlan(r, w, kind, d)
              \/ ListCompanies(r) \/ Count(r) \/ CreateCompany(r) \/ CreateRow(r)
         \/ \E c \in Companies : \/ \E kind \in Counted : Remove(kind, c)
                                \/ RemoveCompany(c) \/ Cancel(c) \/ Restore(c)
                                \/ \E w \in Users : Leave(w, c)
         \/ UNCHANGED <<member, company, rows, requests>>
<1>1. UNCHANGED vars => UNCHANGED <<member, company, rows, requests>>
  BY DEF vars
<1>2. \A w \in Users : GrantCredits(w) \/ (\E p \in Plans : AssignPlan(w, p))
        => UNCHANGED <<member, company, rows, requests>>
  BY DEF GrantCredits, AssignPlan
<1>3. \A w \in Users, c \in Companies : ~Join(w, c)
  BY DEF Join
<1> QED BY <1>1, <1>2, <1>3 DEF Next

LEMMA CompaniesStep ==
  ASSUME TypeOK, FreshInv, TypeOK', FreshInv', Metered, NEW u \in Users, Users \subseteq {u},
         "join" \notin scope.ops, Limited("companies"), UserBound(u), [Next]_vars
  PROVE  UserBound(u)'
<1>1. ASSUME NEW r \in Requests, NEW w \in Users, NEW kind \in scope.creates,
             NEW d \in Companies \cup {NoCompany}, ReadPlan(r, w, kind, d)
      PROVE  UserBound(u)'
  <2>1. Passing("companies")' = Passing("companies")
    <3>1. kind = "companies" => requests'[r].at # "checked"
      <4>1. plan[w] \in Plans
        BY DEF TypeOK
      <4> QED BY <1>1, <4>1 DEF ReadPlan, Go, TypeOK, Limited
    <3>2. requests'[r].resource = kind /\ requests[r].at = "idle" /\ \A s \in Requests : s # r => requests'[s] = requests[s]
      BY <1>1 DEF ReadPlan, Go, TypeOK
    <3> QED BY <3>1, <3>2 DEF Passing
  <2>2. UNCHANGED <<member, company, rows>>
    BY <1>1 DEF ReadPlan
  <2>3. Held(u, "companies")' <= Held(u, "companies")
    BY <2>2, SameHeld
  <2> QED BY <2>1, <2>3, NoMoreCompanies
<1>2. ASSUME NEW r \in Requests, ListCompanies(r) PROVE UserBound(u)'
  <2>1. requests'[r].resource = requests[r].resource /\ requests[r].at # "checked" /\ requests'[r].at # "checked"
        /\ \A s \in Requests : s # r => requests'[s] = requests[s]
    BY <1>2, Lists
  <2>2. Passing("companies")' = Passing("companies")
    BY <2>1 DEF Passing
  <2>3. UNCHANGED <<member, company, rows>>
    BY <1>2 DEF ListCompanies
  <2>4. Held(u, "companies")' <= Held(u, "companies")
    BY <2>3, SameHeld
  <2> QED BY <2>2, <2>4, NoMoreCompanies
<1>3. ASSUME NEW r \in Requests, Count(r) PROVE UserBound(u)'
  BY <1>3, CountCompanies
<1>4. ASSUME NEW r \in Requests, CreateCompany(r) PROVE UserBound(u)'
  <2>1. Held(u, "companies")' <= Held(u, "companies") + 1 /\ requests[r].resource = "companies"
    BY <1>4, CreateCompanyHeld
  <2>2. r \in Passing("companies") /\ Passing("companies")' = Passing("companies") \ {r}
    BY <1>4, <2>1, CreateEnds
  <2>3. Cardinality(Passing("companies")') = Cardinality(Passing("companies")) - 1
    BY <2>2, PassingFinite, FS_RemoveElement
  <2> QED BY <2>1, <2>2, <2>3, HeldNatural, HeldNaturalPrime, PassingFinite, LimitsAssumption DEF UserBound
<1>5. ASSUME NEW r \in Requests, CreateRow(r) PROVE UserBound(u)'
  <2>1. Held(u, "companies")' <= Held(u, "companies") /\ requests[r].resource # "companies"
    BY <1>5, CreateRowHeld, HeldNatural
  <2>2. Passing("companies")' = Passing("companies")
    BY <1>5, <2>1, CreateEnds
  <2> QED BY <2>1, <2>2, NoMoreCompanies
<1>6. ASSUME NEW c \in Companies, \/ \E kind \in Counted : Remove(kind, c)
                                  \/ RemoveCompany(c) \/ Cancel(c) \/ Restore(c)
                                  \/ \E w \in Users : Leave(w, c)
      PROVE  UserBound(u)'
  <2>1. Held(u, "companies")' <= Held(u, "companies") /\ UNCHANGED requests
    BY <1>6, CompanyHeld
  <2> QED BY <2>1, NoMoreCompanies DEF Passing
<1>7. ASSUME UNCHANGED <<member, company, rows, requests>> PROVE UserBound(u)'
  <2>1. Held(u, "companies")' <= Held(u, "companies")
    BY <1>7, SameHeld
  <2> QED BY <1>7, <2>1, NoMoreCompanies DEF Passing
<1> QED BY <1>1, <1>2, <1>3, <1>4, <1>5, <1>6, <1>7, OtherSteps

-----------------------------------------------------------------------------
(* Contractors: the companies are listed before their contractors are      *)
(* counted, so a count may leave out the newest companies.  What bounds it *)
(* is that a company nobody counts is empty: a create in it listed it.     *)

Counters == {s \in Requests : requests[s].at = "counting" /\ requests[s].resource = "contractors"}

\* The checks that will not count a company.
Unaware(c) == {s \in Counters : c \notin requests[s].companies}

\* A company that has contractors, or is about to.
Stocked(c) == rows["contractors"][c] > 0 \/ \E s \in Passing("contractors") : requests[s].company = c

\* A create's company is on its list, if the user is still there; and whoever lists a company lists the
\* older ones too.
ListInv(u) ==
  /\ \A s \in Counters : requests[s].company \in requests[s].companies \/ requests[s].company \notin member[u]
  /\ \A s, t \in Counters : \A c, d \in member[u] :
       c \in requests[s].companies /\ d \notin requests[s].companies /\ c \notin requests[t].companies
         => d \notin requests[t].companies

Weight(u, c) ==
  Held(u, "contractors") + (Cardinality(Passing("contractors")) + Cardinality(Unaware(c)))

ContractorBound(u) ==
  \A c \in member[u] : Stocked(c) => Weight(u, c) < MaxLimit + Cardinality(Requests)

UserOvershootInv ==
  \A u \in Users :
    Users = {u} /\ "join" \notin scope.ops =>
      /\ ListInv(u)
      /\ Limited("companies") => UserBound(u)
      /\ Limited("contractors") => ContractorBound(u)

\* Checks under way and creates that passed are different requests.
LEMMA FewRequests ==
  ASSUME NEW c
  PROVE  /\ IsFiniteSet(Unaware(c)) /\ Cardinality(Unaware(c)) \in Nat
         /\ Cardinality(Passing("contractors")) + Cardinality(Unaware(c)) <= Cardinality(Requests)
<1> DEFINE A == Passing("contractors")
           B == Unaware(c)
<1>1. A \cap B = {} /\ A \cup B \subseteq Requests /\ IsFiniteSet(Requests)
  BY LimitsAssumption DEF Passing, Unaware, Counters
<1> HIDE DEF A, B
<1>2. IsFiniteSet(A) /\ IsFiniteSet(B) /\ IsFiniteSet(A \cup B) /\ Cardinality(A \cup B) <= Cardinality(Requests)
  BY <1>1, FS_Subset
<1>3. Cardinality(A \cup B) = Cardinality(A) + Cardinality(B)
  <2>1. Cardinality(A \cup B) = Cardinality(A) + Cardinality(B) - Cardinality(A \cap B)
    BY <1>2, FS_Union
  <2>2. Cardinality(A \cap B) = 0 /\ Cardinality(A) \in Nat /\ Cardinality(B) \in Nat
    BY <1>1, <1>2, FS_EmptySet, FS_CardinalityType
  <2> QED BY <2>1, <2>2
<1>4. Cardinality(A) \in Nat /\ Cardinality(B) \in Nat
  BY <1>2, FS_CardinalityType
<1> QED BY <1>2, <1>3, <1>4 DEF A, B

LEMMA FewRequestsPrime ==
  ASSUME NEW c
  PROVE  /\ IsFiniteSet(Unaware(c)') /\ Cardinality(Unaware(c)') \in Nat
         /\ Cardinality(Passing("contractors")') + Cardinality(Unaware(c)') <= Cardinality(Requests)
<1> DEFINE A == Passing("contractors")'
           B == Unaware(c)'
<1>1. A \cap B = {} /\ A \cup B \subseteq Requests /\ IsFiniteSet(Requests)
  BY LimitsAssumption DEF Passing, Unaware, Counters
<1> HIDE DEF A, B
<1>2. IsFiniteSet(A) /\ IsFiniteSet(B) /\ IsFiniteSet(A \cup B) /\ Cardinality(A \cup B) <= Cardinality(Requests)
  BY <1>1, FS_Subset
<1>3. Cardinality(A \cup B) = Cardinality(A) + Cardinality(B)
  <2>1. Cardinality(A \cup B) = Cardinality(A) + Cardinality(B) - Cardinality(A \cap B)
    BY <1>2, FS_Union
  <2>2. Cardinality(A \cap B) = 0 /\ Cardinality(A) \in Nat /\ Cardinality(B) \in Nat
    BY <1>1, <1>2, FS_EmptySet, FS_CardinalityType
  <2> QED BY <2>1, <2>2
<1>4. Cardinality(A) \in Nat /\ Cardinality(B) \in Nat
  BY <1>2, FS_CardinalityType
<1> QED BY <1>2, <1>3, <1>4 DEF A, B

\* The contractors of some companies are no more than those of more companies, and the same if the others
\* have none.
LEMMA TotalPart ==
  ASSUME NEW S, IsFiniteSet(S), NEW f, \A x \in S : f[x] \in Nat, NEW T \in SUBSET S
  PROVE  /\ TotalOf(f, T) \in Nat /\ TotalOf(f, S) \in Nat /\ TotalOf(f, T) <= TotalOf(f, S)
         /\ (\A x \in S \ T : f[x] = 0) => TotalOf(f, T) = TotalOf(f, S)
<1> DEFINE Bad == {s \in SUBSET S : T \subseteq s
                     /\ ~(TotalOf(f, T) <= TotalOf(f, s) /\ ((\A x \in s \ T : f[x] = 0) => TotalOf(f, T) = TotalOf(f, s)))}
<1>1. \A s \in SUBSET S : IsFiniteSet(s) /\ (\A x \in s : f[x] \in Nat) /\ TotalOf(f, s) \in Nat
  BY FS_Subset, TotalNatural
<1>2. Bad = {}
  <2> SUFFICES ASSUME Bad # {} PROVE FALSE
    OBVIOUS
  <2>1. PICK s \in Bad : \A t \in Bad : ~(Cardinality(t) < Cardinality(s))
    <3>1. Bad \in SUBSET SUBSET S
      OBVIOUS
    <3> HIDE DEF Bad
    <3> QED BY <3>1, Fewest
  <2>2. s \in SUBSET S /\ T \subseteq s /\ s # T
    BY <1>1, <2>1
  <2>3. PICK x \in s : x \notin T
    BY <2>2
  <2> DEFINE r == s \ {x}
  <2>4. r \in SUBSET S /\ T \subseteq r /\ Cardinality(r) < Cardinality(s)
    <3>1. IsFiniteSet(s) /\ x \in s
      BY <1>1, <2>2, <2>3
    <3>2. Cardinality(s \ {x}) < Cardinality(s)
      BY <3>1, Fewer
    <3> QED BY <2>2, <2>3, <3>2
  <2>5. r \notin Bad
    BY <2>1, <2>4
  <2>6. TotalOf(f, T) <= TotalOf(f, r) /\ ((\A y \in r \ T : f[y] = 0) => TotalOf(f, T) = TotalOf(f, r))
    BY <2>4, <2>5
  <2>7. TotalOf(f, s) = f[x] + TotalOf(f, r) /\ f[x] \in Nat
    BY <1>1, <2>2, TotalWithout
  <2>8. TotalOf(f, r) \in Nat /\ TotalOf(f, T) \in Nat /\ TotalOf(f, s) \in Nat
    BY <1>1, <2>2, <2>4
  <2>9. ~(TotalOf(f, T) <= TotalOf(f, s) /\ ((\A y \in s \ T : f[y] = 0) => TotalOf(f, T) = TotalOf(f, s)))
    BY <2>1
  <2>10. (\A y \in s \ T : f[y] = 0) => (\A y \in r \ T : f[y] = 0) /\ f[x] = 0
    BY <2>3
  <2> HIDE DEF Bad, r
  <2> QED BY <2>6, <2>7, <2>8, <2>9, <2>10
<1>3. S \notin Bad
  BY <1>2
<1> QED BY <1>1, <1>3

LEMMA ListKept ==
  ASSUME NEW u \in Users, ListInv(u), Counters' \subseteq Counters,
         \A s \in Counters' : requests'[s] = requests[s], member'[u] \subseteq member[u]
  PROVE  ListInv(u)'
<1>1. \A s \in Counters' : requests'[s].company \in requests'[s].companies \/ requests'[s].company \notin member'[u]
  BY DEF ListInv
<1>2. ASSUME NEW s \in Counters', NEW t \in Counters', NEW c \in member'[u], NEW d \in member'[u],
             c \in requests'[s].companies, d \notin requests'[s].companies, c \notin requests'[t].companies
      PROVE  d \notin requests'[t].companies
  <2>1. s \in Counters /\ t \in Counters /\ c \in member[u] /\ d \in member[u]
        /\ requests'[s] = requests[s] /\ requests'[t] = requests[t]
    OBVIOUS
  <2> QED BY <1>2, <2>1 DEF ListInv
<1> QED BY <1>1, <1>2 DEF ListInv

\* What a check that starts, and one that ends, does to the others.
LEMMA ReadPlanOthers ==
  ASSUME TypeOK, NEW r \in Requests, NEW w \in Users, NEW kind \in scope.creates,
         NEW d \in Companies \cup {NoCompany}, ReadPlan(r, w, kind, d)
  PROVE  /\ UNCHANGED <<member, company, rows>>
         /\ Counters' = Counters /\ \A s \in Counters : requests'[s] = requests[s]
         /\ Limited("contractors") =>
              Passing("contractors")' = Passing("contractors")
              /\ \A s \in Passing("contractors") : requests'[s] = requests[s]
<1>1. requests[r].at = "idle" /\ requests'[r].resource = kind /\ \A s \in Requests : s # r => requests'[s] = requests[s]
  BY DEF ReadPlan, Go, TypeOK
<1>2. kind = "contractors" => requests'[r].at # "counting"
  BY DEF ReadPlan, Go, TypeOK, PerUser
<1>3. Limited("contractors") /\ kind = "contractors" => requests'[r].at # "checked"
  <2>1. plan[w] \in Plans
    BY DEF TypeOK
  <2> QED BY <2>1 DEF ReadPlan, Go, TypeOK, Limited
<1> QED BY <1>1, <1>2, <1>3 DEF ReadPlan, Counters, Passing

LEMMA CreateOthers ==
  ASSUME TypeOK, NEW r \in Requests, CreateCompany(r) \/ CreateRow(r)
  PROVE  /\ Counters' = Counters /\ \A s \in Counters : requests'[s] = requests[s]
         /\ \A s \in Passing("contractors") : s # r => requests'[s] = requests[s]
         /\ requests'[r].at = "idle"
<1>1. requests[r].at = "checked" /\ requests'[r].at = "idle" /\ \A s \in Requests : s # r => requests'[s] = requests[s]
  BY DEF CreateCompany, CreateRow, Go, TypeOK, Idle
<1> QED BY <1>1 DEF Counters, Passing

LEMMA ListStep ==
  ASSUME TypeOK, FreshInv, NEW u \in Users, Users \subseteq {u}, "join" \notin scope.ops,
         ListInv(u), [Next]_vars
  PROVE  ListInv(u)'
<1>1. ASSUME NEW r \in Requests, NEW w \in Users, NEW kind \in scope.creates,
             NEW d \in Companies \cup {NoCompany}, ReadPlan(r, w, kind, d)
      PROVE  ListInv(u)'
  BY <1>1, ReadPlanOthers, ListKept
<1>2. ASSUME NEW r \in Requests, ListCompanies(r) PROVE ListInv(u)'
  <2>1. /\ requests[r].user = u /\ \A s \in Requests : s # r => requests'[s] = requests[s]
        /\ requests'[r].companies = member'[u] /\ member' = member
    BY <1>2, Lists DEF ListCompanies
  <2>2. \A s \in Counters' : s # r => s \in Counters /\ requests'[s] = requests[s]
    BY <2>1 DEF Counters
  <2>3. \A s \in Counters' : requests'[s].company \in requests'[s].companies \/ requests'[s].company \notin member'[u]
    BY <2>1, <2>2 DEF ListInv
  <2>4. ASSUME NEW s \in Counters', NEW t \in Counters', NEW c \in member'[u], NEW d \in member'[u],
               c \in requests'[s].companies, d \notin requests'[s].companies, c \notin requests'[t].companies
        PROVE  d \notin requests'[t].companies
    <3>1. s # r /\ t # r
      BY <2>1, <2>4
    <3>2. s \in Counters /\ t \in Counters /\ requests'[s] = requests[s] /\ requests'[t] = requests[t]
          /\ c \in member[u] /\ d \in member[u]
      BY <2>1, <2>2, <3>1
    <3> QED BY <2>4, <3>2 DEF ListInv
  <2> QED BY <2>3, <2>4 DEF ListInv
<1>3. ASSUME NEW r \in Requests, Count(r) PROVE ListInv(u)'
  <2>1. requests'[r].at # "counting" /\ member' = member /\ \A s \in Requests : s # r => requests'[s] = requests[s]
    BY <1>3, Counts
  <2>2. Counters' \subseteq Counters /\ \A s \in Counters' : requests'[s] = requests[s]
    BY <2>1 DEF Counters
  <2> QED BY <2>1, <2>2, ListKept
<1>4. ASSUME NEW r \in Requests, CreateCompany(r) PROVE ListInv(u)'
  <2>1. PICK e \in Companies : company[e] = "none" /\ member'[u] = member[u] \cup {e}
    BY <1>4, CreateCompanyHeld
  <2>2. Counters' = Counters /\ \A s \in Counters : requests'[s] = requests[s]
    BY <1>4, CreateOthers
  <2>3. \A s \in Counters : requests[s].company # e /\ e \notin requests[s].companies
    BY <2>1 DEF FreshInv, Counters
  <2>4. \A s \in Counters' : requests'[s].company \in requests'[s].companies \/ requests'[s].company \notin member'[u]
    BY <2>1, <2>2, <2>3 DEF ListInv
  <2>5. ASSUME NEW s \in Counters', NEW t \in Counters', NEW c \in member'[u], NEW d \in member'[u],
               c \in requests'[s].companies, d \notin requests'[s].companies, c \notin requests'[t].companies
        PROVE  d \notin requests'[t].companies
    <3>1. s \in Counters /\ t \in Counters /\ requests'[s] = requests[s] /\ requests'[t] = requests[t]
      BY <2>2
    <3>2. CASE d = e
      BY <2>3, <3>1, <3>2
    <3>3. CASE d # e
      <4>1. c # e
        BY <2>3, <2>5, <3>1
      <4>2. c \in member[u] /\ d \in member[u]
        BY <2>1, <3>3, <4>1
      <4> QED BY <2>5, <3>1, <4>2 DEF ListInv
    <3> QED BY <3>2, <3>3
  <2> QED BY <2>4, <2>5 DEF ListInv
<1>5. ASSUME NEW r \in Requests, CreateRow(r) PROVE ListInv(u)'
  <2>1. member' = member
    BY <1>5 DEF CreateRow
  <2> QED BY <1>5, <2>1, CreateOthers, ListKept
<1>6. ASSUME requests' = requests, member'[u] \subseteq member[u] PROVE ListInv(u)'
  <2>1. Counters' = Counters
    BY <1>6 DEF Counters
  <2> QED BY <1>6, <2>1, ListKept
<1>7. ASSUME NEW c \in Companies, \/ \E kind \in Counted : Remove(kind, c)
                                  \/ RemoveCompany(c) \/ Cancel(c) \/ Restore(c)
                                  \/ \E w \in Users : Leave(w, c)
      PROVE  requests' = requests /\ member'[u] \subseteq member[u]
  BY <1>7 DEF Remove, RemoveCompany, Cancel, Restore, Leave, TypeOK
<1> QED BY <1>1, <1>2, <1>3, <1>4, <1>5, <1>6, <1>7, OtherSteps

-----------------------------------------------------------------------------
LEMMA WeightNatural ==
  ASSUME TypeOK, FreshInv, NEW u \in Users, NEW c
  PROVE  Weight(u, c) \in Nat
BY HeldNatural, FewRequests, PassingFinite DEF Weight

LEMMA WeightNaturalPrime ==
  ASSUME TypeOK', FreshInv', NEW u \in Users, NEW c
  PROVE  Weight(u, c)' \in Nat
BY HeldNaturalPrime, FewRequestsPrime, PassingFinitePrime DEF Weight

\* No company is newly stocked and no weight grows.
LEMMA NoHeavier ==
  ASSUME TypeOK, FreshInv, TypeOK', FreshInv', NEW u \in Users, ContractorBound(u),
         \A c \in member'[u] : Stocked(c)' => c \in member[u] /\ Stocked(c) /\ Weight(u, c)' <= Weight(u, c)
  PROVE  ContractorBound(u)'
<1> SUFFICES ASSUME NEW c \in member'[u], Stocked(c)' PROVE (Weight(u, c) < MaxLimit + Cardinality(Requests))'
  BY DEF ContractorBound
<1>1. c \in member[u] /\ Stocked(c) /\ Weight(u, c)' <= Weight(u, c)
  OBVIOUS
<1>2. Weight(u, c) < MaxLimit + Cardinality(Requests)
  BY <1>1 DEF ContractorBound
<1>3. Weight(u, c) \in Nat /\ Weight(u, c)' \in Nat
  BY WeightNatural, WeightNaturalPrime
<1> QED BY <1>1, <1>2, <1>3, PassingFinite, LimitsAssumption

\* The same when what passes stays and what is held does not grow.
LEMMA NoMoreContractors ==
  ASSUME TypeOK, FreshInv, TypeOK', FreshInv', NEW u \in Users, ContractorBound(u),
         Held(u, "contractors")' <= Held(u, "contractors"),
         Passing("contractors")' = Passing("contractors"),
         \A c \in member'[u] : Stocked(c)' => c \in member[u] /\ Stocked(c) /\ Unaware(c)' \subseteq Unaware(c)
  PROVE  ContractorBound(u)'
<1>1. ASSUME NEW c \in member'[u], Stocked(c)'
      PROVE  c \in member[u] /\ Stocked(c) /\ Weight(u, c)' <= Weight(u, c)
  <2>1. c \in member[u] /\ Stocked(c) /\ Unaware(c)' \subseteq Unaware(c)
    BY <1>1
  <2>2. Cardinality(Unaware(c)') <= Cardinality(Unaware(c))
    BY <2>1, FewRequests, FS_Subset
  <2> QED BY <2>1, <2>2, FewRequests, FewRequestsPrime, PassingFinite, HeldNatural, HeldNaturalPrime DEF Weight
<1> QED BY <1>1, NoHeavier

\* A create passes only if those that count its companies and those that do not stay few.
LEMMA CountContractors ==
  ASSUME TypeOK, FreshInv, TypeOK', FreshInv', Metered, NEW u \in Users, Users \subseteq {u},
         ListInv(u), ContractorBound(u), NEW r \in Requests, Count(r),
         requests[r].resource = "contractors", ~(Usage(requests[r]) >= requests[r].limit)
  PROVE  ContractorBound(u)'
<1> DEFINE q == requests[r]
           H == Held(u, "contractors")
           P == Passing("contractors")
<1>1. /\ q.at = "counting" /\ q \in Request /\ UNCHANGED <<member, company, rows>>
      /\ \A s \in Requests : s # r => requests'[s] = requests[s]
      /\ requests'[r].at = "checked" /\ requests'[r].resource = "contractors" /\ requests'[r].company = q.company
  BY Counts
<1>2. r \in Counters /\ r \notin P
  BY <1>1 DEF Counters, Passing
<1>3. Passing("contractors")' = P \cup {r} /\ \A c : Unaware(c)' = Unaware(c) \ {r}
  BY <1>1 DEF Passing, Unaware, Counters
<1>4. Cardinality(P \cup {r}) = Cardinality(P) + 1
  BY <1>2, PassingFinite, FS_AddElement
<1>5. Held(u, "contractors")' = H /\ H \in Nat
  BY <1>1, SameHeld
<1>6. \A c \in member[u] : Stocked(c)' => Stocked(c) \/ c = q.company
  <2>1. \A s \in P : requests'[s] = requests[s]
    BY <1>1, <1>2 DEF Passing
  <2> QED BY <1>1, <1>3, <2>1 DEF Stocked
<1>7. CASE \E d \in member[u] : Stocked(d) /\ d \notin q.companies
  <2>1. PICK d \in member[u] : Stocked(d) /\ d \notin q.companies
    BY <1>7
  <2>2. r \in Unaware(d)
    BY <1>2, <2>1 DEF Unaware
  <2> SUFFICES ASSUME NEW c \in member'[u], Stocked(c)'
               PROVE  (Weight(u, c) < MaxLimit + Cardinality(Requests))'
    BY DEF ContractorBound
  <2>3. c \in member[u]
    BY <1>1
  <2>4. CASE r \in Unaware(c)
    <3>1. c \notin q.companies
      BY <2>4 DEF Unaware
    <3>2. c # q.company
      BY <1>2, <2>3, <3>1 DEF ListInv
    <3>3. H + (Cardinality(P) + Cardinality(Unaware(c))) < MaxLimit + Cardinality(Requests)
      BY <1>6, <2>3, <3>2 DEF ContractorBound, Weight
    <3>4. Cardinality(Unaware(c) \ {r}) = Cardinality(Unaware(c)) - 1
      BY <2>4, FewRequests, FS_RemoveElement
    <3>5. Weight(u, c)' = H + ((Cardinality(P) + 1) + (Cardinality(Unaware(c)) - 1))
      BY <1>3, <1>4, <1>5, <3>4 DEF Weight
    <3> QED BY <1>5, <3>3, <3>5, FewRequests, PassingFinite, LimitsAssumption
  <2>5. CASE r \notin Unaware(c)
    <3>1. c \in q.companies
      BY <1>2, <2>5 DEF Unaware
    <3>2. Unaware(c) \cup {r} \subseteq Unaware(d)
      <4> SUFFICES ASSUME NEW t \in Unaware(c) PROVE t \in Unaware(d)
        BY <2>2
      <4>1. t \in Counters /\ c \notin requests[t].companies
        BY DEF Unaware
      <4>2. d \notin requests[t].companies
        BY <1>2, <2>1, <2>3, <3>1, <4>1 DEF ListInv
      <4> QED BY <4>1, <4>2 DEF Unaware
    <3>3. Cardinality(Unaware(c)) + 1 <= Cardinality(Unaware(d))
      <4>1. Cardinality(Unaware(c) \cup {r}) = Cardinality(Unaware(c)) + 1
        BY <2>5, FewRequests, FS_AddElement
      <4>2. Cardinality(Unaware(c) \cup {r}) <= Cardinality(Unaware(d))
        BY <3>2, FewRequests, FS_Subset
      <4> QED BY <4>1, <4>2
    <3>4. H + (Cardinality(P) + Cardinality(Unaware(d))) < MaxLimit + Cardinality(Requests)
      BY <2>1 DEF ContractorBound, Weight
    <3>5. Unaware(c) \ {r} = Unaware(c)
      BY <2>5
    <3>6. Weight(u, c)' = H + ((Cardinality(P) + 1) + Cardinality(Unaware(c)))
      BY <1>3, <1>4, <1>5, <3>5 DEF Weight
    <3> QED BY <1>5, <3>3, <3>4, <3>6, FewRequests, PassingFinite, LimitsAssumption
  <2> QED BY <2>4, <2>5
<1>8. CASE \A d \in member[u] : Stocked(d) => d \in q.companies
  <2> DEFINE S == q.companies
             f == rows["contractors"]
             T == member[u] \cap S
  <2>1. IsFiniteSet(S) /\ IsFiniteSet(member[u]) /\ S \subseteq Companies /\ member[u] \subseteq Companies
        /\ \A c \in Companies : f[c] \in Nat
    BY <1>1 DEF FreshInv, TypeOK, Request, Counted, PerUser
  <2>2. \A c \in member[u] \ T : f[c] = 0
    BY <1>8, <2>1 DEF Stocked
  <2>3. Usage(q) = TotalOf(f, S)
    BY DEF Usage, PerUser, PerCompany, TotalOf, MapThenSumSet, MapThenFoldSet
  <2>4. H = TotalOf(f, member[u])
    BY HeldIs
  <2> HIDE DEF f
  <2>5. T \in SUBSET S /\ T \in SUBSET member[u] /\ (\A c \in S : f[c] \in Nat) /\ \A c \in member[u] : f[c] \in Nat
    BY <2>1
  <2> HIDE DEF T
  <2>6. TotalOf(f, T) = TotalOf(f, member[u]) /\ TotalOf(f, T) <= TotalOf(f, S)
        /\ TotalOf(f, S) \in Nat /\ TotalOf(f, T) \in Nat
    BY <2>1, <2>2, <2>5, TotalPart
  <2>7. q.limit \in Nat /\ q.limit <= MaxLimit
    BY <1>1 DEF Metered
  <2>8. H < MaxLimit
    BY <2>3, <2>4, <2>6, <2>7, LimitsAssumption
  <2>9. ASSUME NEW c \in member'[u] PROVE Weight(u, c)' < MaxLimit + Cardinality(Requests)
    <3>1. Cardinality(Passing("contractors")') + Cardinality(Unaware(c)') <= Cardinality(Requests)
          /\ Cardinality(Passing("contractors")') \in Nat /\ Cardinality(Unaware(c)') \in Nat
      BY FewRequestsPrime, PassingFinitePrime
    <3>2. Weight(u, c)' = H + (Cardinality(Passing("contractors")') + Cardinality(Unaware(c)'))
      BY <1>5 DEF Weight
    <3>3. \A h, p, n \in Nat : h < MaxLimit /\ p + n <= Cardinality(Requests)
            => h + (p + n) < MaxLimit + Cardinality(Requests)
      BY PassingFinite, LimitsAssumption
    <3> HIDE DEF H
    <3> QED BY <1>5, <2>8, <3>1, <3>2, <3>3
  <2> QED BY <2>9 DEF ContractorBound
<1> QED BY <1>7, <1>8

LEMMA ContractorsStep ==
  ASSUME TypeOK, FreshInv, TypeOK', FreshInv', Metered, NEW u \in Users, Users \subseteq {u},
         "join" \notin scope.ops, Limited("contractors"), ListInv(u), ContractorBound(u), [Next]_vars
  PROVE  ContractorBound(u)'
<1>1. ASSUME NEW r \in Requests, NEW w \in Users, NEW kind \in scope.creates,
             NEW d \in Companies \cup {NoCompany}, ReadPlan(r, w, kind, d)
      PROVE  ContractorBound(u)'
  <2>1. /\ UNCHANGED <<member, company, rows>>
        /\ Counters' = Counters /\ \A s \in Counters : requests'[s] = requests[s]
        /\ Passing("contractors")' = Passing("contractors")
        /\ \A s \in Passing("contractors") : requests'[s] = requests[s]
    BY <1>1, ReadPlanOthers
  <2>2. Held(u, "contractors")' <= Held(u, "contractors")
    BY <2>1, SameHeld
  <2>3. \A c : (Stocked(c)' => Stocked(c)) /\ Unaware(c)' = Unaware(c)
    BY <2>1 DEF Stocked, Unaware
  <2> QED BY <2>1, <2>2, <2>3, NoMoreContractors
<1>2. ASSUME NEW r \in Requests, ListCompanies(r) PROVE ContractorBound(u)'
  <2>1. /\ requests[r].user = u /\ requests[r].at = "listing" /\ requests'[r].at = "counting"
        /\ \A s \in Requests : s # r => requests'[s] = requests[s]
        /\ requests'[r].companies = member[u] /\ UNCHANGED <<member, company, rows>>
    BY <1>2, Lists DEF ListCompanies
  <2>2. Held(u, "contractors")' <= Held(u, "contractors")
    BY <2>1, SameHeld
  <2>3. Passing("contractors")' = Passing("contractors") /\ \A s \in Passing("contractors") : requests'[s] = requests[s]
    BY <2>1 DEF Passing
  <2>4. \A c \in member[u] : Unaware(c)' \subseteq Unaware(c)
    BY <2>1 DEF Unaware, Counters
  <2>5. \A c : Stocked(c)' => Stocked(c)
    BY <2>1, <2>3 DEF Stocked
  <2> QED BY <2>1, <2>2, <2>3, <2>4, <2>5, NoMoreContractors
<1>3. ASSUME NEW r \in Requests, Count(r) PROVE ContractorBound(u)'
  <2>1. /\ requests[r].at = "counting" /\ UNCHANGED <<member, company, rows>>
        /\ \A s \in Requests : s # r => requests'[s] = requests[s]
        /\ requests'[r].at # "counting"
    BY <1>3, Counts
  <2>2. CASE requests[r].resource = "contractors" /\ ~(Usage(requests[r]) >= requests[r].limit)
    BY <1>3, <2>2, CountContractors
  <2>3. CASE ~(requests[r].resource = "contractors" /\ ~(Usage(requests[r]) >= requests[r].limit))
    <3>1. requests'[r].at = "checked" /\ requests'[r].resource = "contractors" => FALSE
      BY <1>3, <2>3, Counts
    <3>2. Passing("contractors")' = Passing("contractors") /\ \A s \in Passing("contractors") : requests'[s] = requests[s]
      BY <2>1, <3>1 DEF Passing
    <3>3. \A c : (Stocked(c)' => Stocked(c)) /\ Unaware(c)' \subseteq Unaware(c)
      BY <2>1, <3>2 DEF Stocked, Unaware, Counters
    <3>4. Held(u, "contractors")' <= Held(u, "contractors")
      BY <2>1, SameHeld
    <3> QED BY <2>1, <3>2, <3>3, <3>4, NoMoreContractors
  <2> QED BY <2>2, <2>3
<1>4. ASSUME NEW r \in Requests, CreateCompany(r) PROVE ContractorBound(u)'
  <2>1. PICK e \in Companies : company[e] = "none" /\ member'[u] = member[u] \cup {e}
    BY <1>4, CreateCompanyHeld
  <2>2. Held(u, "contractors")' <= Held(u, "contractors") /\ requests[r].resource # "contractors"
    BY <1>4, CreateCompanyHeld, HeldNatural
  <2>3. Passing("contractors")' = Passing("contractors") /\ r \notin Passing("contractors")
    BY <1>4, <2>2, CreateEnds DEF Passing
  <2>4. \A s \in Passing("contractors") : requests'[s] = requests[s]
    BY <1>4, <2>3, CreateOthers
  <2>5. Counters' = Counters /\ \A s \in Counters : requests'[s] = requests[s]
    BY <1>4, CreateOthers
  <2>6. rows' = rows
    BY <1>4 DEF CreateCompany
  <2>7. \A c : (Stocked(c)' => Stocked(c)) /\ Unaware(c)' = Unaware(c)
    BY <2>3, <2>4, <2>5, <2>6 DEF Stocked, Unaware
  <2>8. ~Stocked(e)
    <3>1. "contractors" \in Counted
      BY DEF Counted, PerUser
    <3>2. rows["contractors"][e] = 0
      BY <2>1, <3>1 DEF FreshInv
    <3> QED BY <2>1, <3>2 DEF FreshInv, Stocked, Passing
  <2> QED BY <2>1, <2>2, <2>3, <2>7, <2>8, NoMoreContractors
<1>5. ASSUME NEW r \in Requests, CreateRow(r) PROVE ContractorBound(u)'
  <2>1. Counters' = Counters /\ (\A s \in Counters : requests'[s] = requests[s]) /\ member' = member
        /\ (\A s \in Passing("contractors") : s # r => requests'[s] = requests[s])
    BY <1>5, CreateOthers DEF CreateRow
  <2>2. \A c : Unaware(c)' = Unaware(c)
    BY <2>1 DEF Unaware
  <2>3. CASE requests[r].resource # "contractors"
    <3>1. Held(u, "contractors")' <= Held(u, "contractors") /\ rows'["contractors"] = rows["contractors"]
      BY <1>5, <2>3, CreateRowHeld, HeldNatural
    <3>2. Passing("contractors")' = Passing("contractors") /\ r \notin Passing("contractors")
      BY <1>5, <2>3, CreateEnds DEF Passing
    <3>3. \A c : Stocked(c)' => Stocked(c)
      BY <2>1, <3>1, <3>2 DEF Stocked
    <3> QED BY <2>1, <2>2, <3>1, <3>2, <3>3, NoMoreContractors
  <2>4. CASE requests[r].resource = "contractors"
    <3>1. Held(u, "contractors")' <= Held(u, "contractors") + 1
      BY <1>5, <2>4, CreateRowHeld
    <3>2. r \in Passing("contractors") /\ Passing("contractors")' = Passing("contractors") \ {r}
      BY <1>5, <2>4, CreateEnds
    <3>3. Cardinality(Passing("contractors")') = Cardinality(Passing("contractors")) - 1
      BY <3>2, PassingFinite, FS_RemoveElement
    <3>4. \A c \in Companies : c # requests[r].company => rows'["contractors"][c] = rows["contractors"][c]
      BY <1>5, <2>4 DEF CreateRow, TypeOK, Counted, PerUser
    <3>5. \A c \in Companies : Stocked(c)' => Stocked(c)
      BY <2>1, <3>2, <3>4 DEF Stocked
    <3>6. \A c \in member'[u] : c \in member[u] /\ c \in Companies
      BY <2>1 DEF TypeOK
    <3>7. ASSUME NEW c PROVE Weight(u, c)' <= Weight(u, c)
      <4>1. Cardinality(Unaware(c)') = Cardinality(Unaware(c))
        BY <2>2
      <4> QED BY <3>1, <3>3, <4>1, FewRequests, PassingFinite, HeldNatural, HeldNaturalPrime DEF Weight
    <3> QED BY <3>5, <3>6, <3>7, NoHeavier
  <2> QED BY <2>3, <2>4
<1>6. ASSUME NEW c \in Companies, \/ \E kind \in Counted : Remove(kind, c)
                                  \/ RemoveCompany(c) \/ Cancel(c) \/ Restore(c)
                                  \/ \E w \in Users : Leave(w, c)
      PROVE  ContractorBound(u)'
  <2>1. Held(u, "contractors")' <= Held(u, "contractors") /\ UNCHANGED requests
    BY <1>6, CompanyHeld
  <2>2. Passing("contractors")' = Passing("contractors") /\ \A d : Unaware(d)' = Unaware(d)
    BY <2>1 DEF Passing, Unaware, Counters
  <2>3. member'[u] \subseteq member[u]
    BY <1>6 DEF Remove, RemoveCompany, Cancel, Restore, Leave, TypeOK
  <2>4. \A d \in Companies : rows'["contractors"][d] \in Nat /\ rows'["contractors"][d] <= rows["contractors"][d]
    <3>1. "contractors" \in Counted /\ "documents" \in Counted
      BY DEF Counted, PerUser
    <3>2. \A d \in Companies : rows["contractors"][d] \in Nat /\ rows'["contractors"][d] \in Nat
      BY <3>1 DEF TypeOK
    <3>3. \A d \in Companies : rows'["contractors"][d] = rows["contractors"][d] \/ rows'["contractors"][d] = rows["contractors"][d] - 1
      BY <1>6, <3>1, <3>2 DEF Remove, RemoveCompany, Cancel, Restore, Leave, TypeOK
    <3> QED BY <3>2, <3>3
  <2>5. \A d \in member'[u] : Stocked(d)' => Stocked(d)
    <3>1. \A d \in member'[u] : d \in Companies /\ rows["contractors"][d] \in Nat
      BY <2>3 DEF TypeOK, Counted, PerUser
    <3> QED BY <2>1, <2>2, <2>4, <3>1 DEF Stocked
  <2> QED BY <2>1, <2>2, <2>3, <2>5, NoMoreContractors
<1>7. ASSUME UNCHANGED <<member, company, rows, requests>> PROVE ContractorBound(u)'
  <2>1. Held(u, "contractors")' <= Held(u, "contractors")
    BY <1>7, SameHeld
  <2>2. Passing("contractors")' = Passing("contractors") /\ \A d : Unaware(d)' = Unaware(d) /\ (Stocked(d)' => Stocked(d))
    BY <1>7 DEF Passing, Unaware, Counters, Stocked
  <2> QED BY <1>7, <2>1, <2>2, NoMoreContractors
<1> QED BY <1>1, <1>2, <1>3, <1>4, <1>5, <1>6, <1>7, OtherSteps

LEMMA UserStep ==
  ASSUME TypeOK, FreshInv, TypeOK', FreshInv', Metered, UserOvershootInv, [Next]_vars
  PROVE  UserOvershootInv'
<1> SUFFICES ASSUME NEW u \in Users, Users = {u}, "join" \notin scope'.ops
             PROVE  /\ ListInv(u)'
                    /\ Limited("companies")' => UserBound(u)'
                    /\ Limited("contractors")' => ContractorBound(u)'
  BY DEF UserOvershootInv
<1>1. scope' = scope
  BY DEF Next, ReadPlan, ListCompanies, Count, CreateCompany, CreateRow, Remove, RemoveCompany, Cancel,
         Restore, Join, Leave, AssignPlan, GrantCredits, vars
<1>2. "join" \notin scope.ops /\ ListInv(u) /\ (Limited("companies") => UserBound(u))
      /\ (Limited("contractors") => ContractorBound(u))
  BY <1>1 DEF UserOvershootInv
<1>3. ListInv(u)'
  BY <1>2, ListStep
<1>4. Limited("companies")' => UserBound(u)'
  BY <1>2, LimitedBefore, CompaniesStep
<1>5. Limited("contractors")' => ContractorBound(u)'
  BY <1>2, LimitedBefore, ContractorsStep
<1> QED BY <1>3, <1>4, <1>5

LEMMA InitUser == Init => UserOvershootInv
<1> SUFFICES ASSUME Init, NEW u \in Users PROVE ListInv(u) /\ UserBound(u) /\ ContractorBound(u)
  BY DEF UserOvershootInv
<1>1. Passing("companies") = {} /\ Counters = {} /\ member[u] = {}
  BY DEF Init, Passing, Counters, Idle
<1>2. Held(u, "companies") = 0
  BY <1>1, HeldIs, FS_EmptySet
<1> QED BY <1>1, <1>2 DEF UserBound, ListInv, ContractorBound

\* The same for the only user of an instance, over all the companies the user is a member of: at most the
\* largest limit of companies or contractors plus the creates that run beside one, however many companies are
\* created, left and deactivated and whatever is removed between the plan that is read, the companies that
\* are listed, the count and the create, as long as nothing joins what is counted.
THEOREM UserOvershoot == Spec => []UserOvershootBounded
<1> DEFINE I == TypeOK /\ Metered /\ FreshInv /\ UserOvershootInv
<1>1. Init => I
  BY InitType, InitBound, InitFresh, InitUser
<1>2. I /\ [Next]_vars => I'
  BY NextType, MeteredStep, FreshStep, UserStep
<1>3. I => UserOvershootBounded
  <2> SUFFICES ASSUME I, NEW u \in Users, NEW res \in {"companies", "contractors"},
                      Users = {u}, "join" \notin scope.ops, Limited(res), Held(u, res) > 0
               PROVE  Held(u, res) < MaxLimit + Cardinality(Requests)
    BY DEF UserOvershootBounded
  <2>1. Held(u, res) \in Nat
    BY HeldNatural
  <2>2. CASE res = "companies"
    BY <2>1, <2>2, PassingFinite, LimitsAssumption DEF UserOvershootInv, UserBound
  <2>3. CASE res = "contractors"
    <3> DEFINE f == rows["contractors"]
    <3>1. IsFiniteSet(member[u]) /\ (\A c \in member[u] : f[c] \in Nat) /\ Held(u, res) = TotalOf(f, member[u])
      <4>1. IsFiniteSet(member[u])
        BY DEF FreshInv
      <4>2. \A c \in member[u] : f[c] \in Nat
        BY DEF TypeOK, Counted, PerUser
      <4>3. Held(u, res) = TotalOf(f, member[u])
        BY <2>3, HeldIs
      <4> QED BY <4>1, <4>2, <4>3
    <3> HIDE DEF f
    <3>2. {} \in SUBSET member[u] /\ TotalOf(f, {}) = 0
      BY TotalEmpty
    <3>3. \E c \in member[u] : f[c] # 0
      <4> SUFFICES ASSUME \A c \in member[u] \ {} : f[c] = 0 PROVE FALSE
        OBVIOUS
      <4>1. TotalOf(f, {}) = TotalOf(f, member[u])
        BY <3>1, <3>2, TotalPart
      <4> QED BY <2>1, <3>1, <3>2, <4>1
    <3>4. PICK c \in member[u] : f[c] > 0
      BY <3>1, <3>3
    <3>5. Weight(u, c) < MaxLimit + Cardinality(Requests)
      BY <2>3, <3>4 DEF UserOvershootInv, ContractorBound, Stocked, f
    <3> QED BY <2>1, <2>3, <3>5, FewRequests, PassingFinite, LimitsAssumption DEF Weight
  <2> QED BY <2>2, <2>3
<1> QED BY <1>1, <1>2, <1>3, PTL DEF Spec
=============================================================================
