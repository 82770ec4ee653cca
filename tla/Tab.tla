-------------------------------- MODULE Tab --------------------------------
(***************************************************************************)
(* One browser tab of the front end: the page that is mounted, the zustand *)
(* stores all pages share, the calls in flight and the rows of the server. *)
(* The pages are modules of their own that extend this one: what a page    *)
(* does in an event, or when one of its calls is answered, is a step: its  *)
(* next local state, the stores and the calls it sends.  Here the server   *)
(* answers a call in one step; what its handlers do while they wait is the *)
(* subject of the modules of the back end.                                 *)
(***************************************************************************)
EXTENDS Integers, Sequences, SequencesExt

CONSTANTS
  MaxNew,    \* bound on the rows of one kind that are created
  MaxCalls,  \* bound on the calls in flight with which the user still acts
  MaxEdits,  \* bound on the edits of a mounted builder when the user acts
  Scopes     \* of a behaviour: see Scope

None == 0
Me == 0  \* owner of what belongs to the user and not to a company

AdminKinds == {"users", "plans", "credits"}
Kinds == {"companies", "contractors", "vehicles", "signatures", "stamps", "companySignatures",
          "members", "invitations", "documents"} \cup AdminKinds
Given == 3  \* the ids of the rows there may be at first are 1..Given
Ids == 1..Given + MaxNew
Names == {"a", "b"}

\* What differs from one behaviour to another: the pages and companies that are
\* visited, the kinds there are rows of at first and the kinds of which more may be
\* created, the operations the server may refuse, how many calls in flight the user does
\* not wait for, how often a draft is edited, and what else may happen: calls
\* overtake each other; the user leaves a page or a tab of it that waits for an answer;
\* the page of a document changes its status and title; fresh data of a company is
\* asked for in the builder; the tab has just been opened and its list of companies is
\* still on the way.
Uses == {"overtake", "hop", "status", "resync", "reload"}
Scope == [pages : SUBSET STRING, visits : SUBSET Ids, full : SUBSET Kinds, grows : SUBSET Kinds,
          fails : SUBSET STRING, uses : SUBSET Uses, calls : 1..MaxCalls, edits : 0..MaxEdits]

ASSUME TabAssumption ==
  /\ MaxNew \in Nat /\ MaxCalls \in Nat \ {0} /\ MaxEdits \in Nat
  /\ \A sc \in Scopes : sc \in Scope

VARIABLES
  page,    \* the mounted page: its route, its local state
  store,   \* the lists, their loading flags, the active company, the current document, the
           \* user an administrator looks at
  server,  \* the rows, and how many of each kind there have ever been
  net,     \* the calls in flight, in the order they were sent
  scope    \* of this behaviour; never changes

vars == <<page, store, server, net, scope>>

-----------------------------------------------------------------------------
(* Calls *)

\* The body is a patch, or the query of a list.
Call(op, kind, co, id, body) ==
  [op |-> op, kind |-> kind, co |-> co, id |-> id, body |-> body,
   mine |-> "tab",  \* what is still mounted: the tab of the page that sent it, only the page, none
   at |-> "sent", answer |-> <<>>]

NoBody == [search |-> ""]
List(kind, co, search) == Call("list", kind, co, None, [search |-> search])
Fetch(kind, co, id) == Call("get", kind, co, id, NoBody)
Create(kind, co, body) == Call("create", kind, co, None, body)
Update(kind, co, id, patch) == Call("update", kind, co, id, patch)
Delete(kind, co, id) == Call("remove", kind, co, id, NoBody)

Patched(row, patch) == [f \in DOMAIN row |-> IF f \in DOMAIN patch THEN patch[f] ELSE row[f]]
Replaced(rows, row) == [i \in DOMAIN rows |-> IF rows[i].id = row.id THEN row ELSE rows[i]]
\* The rows of a list that are in a set, in their order.
Picked(rows, S) == FoldLeft(LAMBDA picked, r : IF r \in S THEN Append(picked, r) ELSE picked, <<>>, rows)
Without(rows, id) == Picked(rows, {r \in Range(rows) : r.id # id})

\* The content of a document: which one it was made for, and its version.
NoData == [of |-> None, v |-> 0]

Blank(kind) ==
  CASE kind = "companies" -> [accounts |-> <<>>]
    [] kind \in {"members", "invitations"} -> [role |-> "VIEWER"]
    [] kind = "vehicles" -> [active |-> TRUE]
    [] kind = "users" -> [active |-> TRUE, admin |-> FALSE, plan |-> None]
    [] kind = "plans" -> [active |-> TRUE, title |-> "a"]
    [] kind = "documents" -> [status |-> "DRAFT", number |-> 0, data |-> NoData, pdf |-> NoData]
    [] OTHER -> <<>>

\* The fields of a record, and those another one has besides.
Extended(f, g) == [x \in DOMAIN f \cup DOMAIN g |-> IF x \in DOMAIN f THEN f[x] ELSE g[x]]

Row(kind, id, owner, body) ==
  Patched(Extended([id |-> id, owner |-> owner, name |-> "a", isDefault |-> FALSE], Blank(kind)), body)

NewId(kind) == Given + server.born[kind] + 1

\* The documents of a company and their numbers; the least number that none of them has.
DocumentsOf(co) == {r \in Range(server.rows.documents) : r.owner = co}
InUse(co) == {r.number : r \in DocumentsOf(co)}
NextNumber(co) == CHOOSE n \in Ids : n \notin InUse(co) /\ \A m \in 1..n - 1 : m \in InUse(co)

\* A new document has the number that is typed, or the next one, and the data of the
\* document it is a copy of.
NewDocument(c) ==
  LET origin == SelectSeq(server.rows.documents, LAMBDA r : r.id = c.body.from)
      copied == origin # <<>> /\ origin[1].data # NoData
  IN  [Row("documents", NewId("documents"), c.co, c.body) EXCEPT
         !.number = IF @ = 0 THEN NextNumber(c.co) ELSE @,
         !.data = IF copied THEN [of |-> NewId("documents"), v |-> origin[1].data.v] ELSE @]

NewRow(c) == IF c.kind = "documents" THEN NewDocument(c) ELSE Row(c.kind, NewId(c.kind), c.co, c.body)

\* A new default takes the flag from the other rows of its owner.
Exclusive(rows, row) ==
  [i \in DOMAIN rows |->
     IF row.isDefault /\ rows[i].owner = row.owner /\ rows[i].id # row.id
       THEN [rows[i] EXCEPT !.isDefault = FALSE] ELSE rows[i]]

\* Who may change or remove a membership.  The user's own one is named "me".
MemberRefused(c, row) ==
  LET mine == {r.role : r \in {m \in Range(server.rows.members) : m.owner = c.co /\ m.name = "me"}}
      owners == SelectSeq(server.rows.members, LAMBDA m : m.owner = c.co /\ m.role = "OWNER")
  IN
  /\ c.kind = "members"
  /\ \/ /\ c.op = "update"
        /\ \/ mine \cap {"OWNER", "ADMIN"} = {}
           \/ row.role = "OWNER" /\ c.body.role # "OWNER"
           \/ "ADMIN" \in {row.role, c.body.role} /\ "OWNER" \notin mine
     \/ c.op = "remove" /\ row.name = "me" /\ row.role = "OWNER" /\ Len(owners) <= 1
     \/ /\ c.op = "remove" /\ row.name # "me"
        /\ \/ mine \cap {"OWNER", "ADMIN"} = {}
           \/ mine = {"ADMIN"} /\ row.role \in {"OWNER", "ADMIN"}

\* A number that is taken, a document that is gone.
DocumentRefused(c) ==
  /\ c.kind = "documents" /\ c.op = "create"
  /\ c.body.number \in InUse(c.co) \/ c.body.from \notin {None} \cup {r.id : r \in DocumentsOf(c.co)}

\* A plate, the name of a vehicle here, that another vehicle of the company has.
VehicleRefused(c) ==
  /\ c.kind = "vehicles" /\ c.op \in {"create", "update"} /\ "name" \in DOMAIN c.body
  /\ \E r \in Range(server.rows.vehicles) : r.owner = c.co /\ r.name = c.body.name /\ r.id # c.id

\* A plan's name that is taken; the plan of a user, which the page puts where the server
\* only takes a patch.
AdminRefused(c) ==
  \/ c.op = "assign"
  \/ c.kind = "plans" /\ c.op = "create" /\ \E r \in Range(server.rows.plans) : r.name = c.body.name

\* What the schema of a body leaves of it: a user is patched with a name and a state.
Accepted(c) ==
  IF c.kind = "users" THEN [f \in DOMAIN c.body \ {"admin"} |-> c.body[f]] ELSE c.body

\* A user in detail, with the balance of the credits that were granted.
UserDetail(row) ==
  Extended(row, [balance |-> Len(SelectSeq(server.rows.credits, LAMBDA r : r.owner = row.id))])

\* The row a call names.  A row of another company is not found; a document is found by
\* its id alone.
Found(c) ==
  LET named == {r \in Range(server.rows[c.kind]) : r.id = c.id /\ (r.owner = c.co \/ c.kind = "documents")}
  IN  IF named = {} THEN <<>> ELSE <<CHOOSE r \in named : TRUE>>

Refused(c) ==
  \/ DocumentRefused(c) \/ VehicleRefused(c) \/ AdminRefused(c)
  \/ c.op \notin {"list", "check", "next", "create"} /\ (Found(c) = <<>> \/ MemberRefused(c, Found(c)[1]))
  \/ c.op = "send" /\ Found(c)[1].pdf = NoData

\* What the handlers answer, and the rows they leave.
Listed(c) == SelectSeq(server.rows[c.kind], LAMBDA r : r.owner = c.co /\ c.body.search \in {"", r.name})
Created(c) == Append(Exclusive(server.rows[c.kind], NewRow(c)), NewRow(c))
Changed(c) == LET row == Patched(Found(c)[1], Accepted(c)) IN Replaced(Exclusive(server.rows[c.kind], row), row)

\* A plan that somebody has is kept, but not offered any more.
PlanRemoved(c) ==
  IF \E u \in Range(server.rows.users) : u.plan = c.id
    THEN Replaced(server.rows.plans, [Found(c)[1] EXCEPT !.active = FALSE])
  ELSE Without(server.rows.plans, c.id)

Removed(c) == IF c.kind = "plans" THEN PlanRemoved(c) ELSE Without(server.rows[c.kind], c.id)

Handled(c) ==
  LET rows == server.rows[c.kind]
      Done(after, answer) == [rows |-> after, at |-> "done", answer |-> answer]
  IN
  IF Refused(c) THEN [rows |-> rows, at |-> "failed", answer |-> <<>>]
  ELSE CASE c.op = "list" -> Done(rows, Listed(c))
         [] c.op = "check" ->
              Done(rows, SelectSeq(rows, LAMBDA r : r.owner = c.co /\ r.number = c.body.number))
         [] c.op = "next" -> Done(rows, <<[number |-> NextNumber(c.co)]>>)
         [] c.op = "get" /\ c.kind = "users" -> Done(rows, <<UserDetail(Found(c)[1])>>)
         [] c.op \in {"get", "peek"} /\ c.kind # "users" -> Done(rows, Found(c))
         [] c.op = "both" ->
              Done(rows, <<[user |-> UserDetail(Found(c)[1]),
                            history |-> SelectSeq(server.rows.credits, LAMBDA r : r.owner = c.id)]>>)
         [] c.op = "send" -> Done(rows, <<>>)
         [] c.op = "create" -> Done(Created(c), <<NewRow(c)>>)
         [] c.op = "update" -> Done(Changed(c), <<Patched(Found(c)[1], Accepted(c))>>)
         [] c.op = "remove" -> Done(Removed(c), <<>>)

\* The first of the calls that pass a test, or any of them where calls overtake.
Turn(i, Test(_)) ==
  /\ i \in DOMAIN net
  /\ Test(net[i])
  /\ "overtake" \notin scope.uses => \A j \in 1..i - 1 : ~Test(net[j])

\* Who creates a company owns it; with a company goes everything it has.
WithCompany(c, after) ==
  IF c.kind # "companies" \/ c.op \notin {"create", "remove"} THEN after
  ELSE IF c.op = "remove"
    THEN [after EXCEPT !.rows = [k \in Kinds |-> IF k \in AdminKinds THEN @[k]
                                                ELSE Picked(@[k], {r \in Range(@[k]) : r.owner # c.id})]]
  ELSE [after EXCEPT !.rows.members = Append(@, Row("members", NewId("members"), NewId("companies"),
                                                    [name |-> "me", role |-> "OWNER"])),
                     !.born.members = @ + 1]

Serve(i) ==
  /\ Turn(i, LAMBDA c : c.at = "sent")
  /\ LET c == net[i]
         h == Handled(c)
         born == IF c.op = "create" /\ h.at = "done" THEN 1 ELSE 0
         after == [server EXCEPT !.rows[c.kind] = h.rows, !.born[c.kind] = @ + born]
     IN \/ /\ net' = [net EXCEPT ![i].at = h.at, ![i].answer = h.answer]
           /\ server' = IF h.at = "done" THEN WithCompany(c, after) ELSE server
        \/ /\ c.op \in scope.fails
           /\ net' = [net EXCEPT ![i].at = "failed"]
           /\ UNCHANGED server
  /\ UNCHANGED <<page, store, scope>>

\* A call whose body is still being made, the image of a mark or the PDF of a
\* document, leaves after those sent meanwhile.
Reading(call) == [call EXCEPT !.at = "reading"]

BodyMade(i) ==
  /\ i \in DOMAIN net
  /\ net[i].at = "reading"
  /\ net' = Append(RemoveAt(net, i), [net[i] EXCEPT !.at = "sent"])
  /\ UNCHANGED <<page, store, server, scope>>

-----------------------------------------------------------------------------
(* Stores: what an answer makes of the lists.  A failed call changes none. *)

Answer(c) == c.answer[1]

ContractorStore(rows, c) ==
  CASE c.op = "list" -> c.answer
    [] c.op = "create" -> Append(rows, Answer(c))
    [] c.op = "update" -> Replaced(rows, Answer(c))
    [] c.op = "remove" -> Without(rows, c.id)

VehicleStore(rows, c) ==
  CASE c.op = "list" -> c.answer
    [] c.op = "create" -> <<Answer(c)>> \o rows
    [] c.op = "update" -> Replaced(rows, Answer(c))
    [] c.op = "remove" -> Without(rows, c.id)

\* Bug: the list still shows the former default as one.
OnlyDefault_KeepsOthers(rows, row) == rows

\* The flag of a new default is taken from every other row of the list.
OnlyDefault(rows, row) ==
  [i \in DOMAIN rows |->
     IF row.isDefault /\ rows[i].id # row.id THEN [rows[i] EXCEPT !.isDefault = FALSE] ELSE rows[i]]

SignatureStore(rows, c) ==
  CASE c.op = "list" -> c.answer
    [] c.op = "create" -> OnlyDefault(Append(rows, Answer(c)), Answer(c))
    [] c.op = "update" -> OnlyDefault(Replaced(rows, Answer(c)), Answer(c))
    [] c.op = "remove" -> Without(rows, c.id)

StampStore(rows, c) == SignatureStore(rows, c)
CompanySignatureStore(rows, c) == SignatureStore(rows, c)

\* An address without an account is invited instead of added: the answer goes to
\* the invitations, newest first.
MembershipStore(rows, c) ==
  CASE c.op = "list" -> c.answer
    [] c.op = "create" /\ c.kind = "members" -> Append(rows, Answer(c))
    [] c.op = "create" /\ c.kind = "invitations" -> <<Answer(c)>> \o rows
    [] c.op = "update" -> Replaced(rows, Answer(c))
    [] c.op = "remove" -> Without(rows, c.id)

DocumentStore(s, c) ==
  LET rows == s.rows.documents
      held == s.current # <<>> /\ s.current[1].id = c.id
  IN
  CASE c.op = "list" -> [s EXCEPT !.rows.documents = c.answer]
    [] c.op = "get" -> [s EXCEPT !.current = c.answer]
    [] c.op = "create" -> [s EXCEPT !.rows.documents = <<Answer(c)>> \o rows]
    [] c.op = "update" -> [s EXCEPT !.rows.documents = Replaced(rows, Answer(c)),
                                    !.current = IF held THEN c.answer ELSE @]
    [] c.op = "remove" -> [s EXCEPT !.rows.documents = Without(rows, c.id),
                                    !.current = IF held THEN <<>> ELSE @]
    [] OTHER -> s

\* What an answer says of the user: whether it is an administrator is taken from the
\* call, not from the answer.
Toggled(c) == IF "admin" \in DOMAIN c.body THEN [admin |-> c.body.admin] ELSE [active |-> Answer(c).active]

AdminStore(s, c) ==
  LET held == s.selected # <<>> /\ s.selected[1].id = c.id
      Merged(row) == IF row.id = c.id THEN Patched(row, Toggled(c)) ELSE row
  IN
  CASE c.op = "list" -> [s EXCEPT !.rows[c.kind] = c.answer]
    [] c.op = "get" -> [s EXCEPT !.selected = c.answer]
    [] c.op = "update" /\ c.kind = "users" ->
         [s EXCEPT !.rows.users = [i \in DOMAIN @ |-> Merged(@[i])], !.selected = [i \in DOMAIN @ |-> Merged(@[i])]]
    [] c.op = "both" ->
         [s EXCEPT !.selected = IF held THEN <<Answer(c).user>> ELSE @, !.rows.credits = Answer(c).history]
    [] c.op = "create" /\ c.kind = "credits" -> s
    [] c.op = "create" /\ c.kind = "plans" -> [s EXCEPT !.rows.plans = Append(@, Answer(c))]
    [] c.op = "update" /\ c.kind = "plans" -> [s EXCEPT !.rows.plans = Replaced(@, Answer(c))]
    [] c.op = "remove" -> [s EXCEPT !.rows.plans = Without(@, c.id)]

SetActive(s, company) == [s EXCEPT !.active = company, !.saved = company]

\* The company of the session storage if it is listed, else the first one.
Hydrated(s) ==
  LET listed == {r.id : r \in Range(s.rows.companies)}
  IN  IF s.saved \in listed THEN [s EXCEPT !.active = s.saved]
      ELSE IF listed = {} THEN s
      ELSE SetActive(s, s.rows.companies[1].id)

CompanyStore(s, c) ==
  LET With(list) == [s EXCEPT !.rows.companies = list]
      rows == s.rows.companies
  IN
  CASE c.op \in {"get", "peek"} -> s
    [] c.op = "list" -> IF s.active = None THEN Hydrated(With(c.answer)) ELSE With(c.answer)
    [] c.op = "create" -> With(Append(rows, Answer(c)))
    [] c.op = "update" -> With(Replaced(rows, Answer(c)))
    [] c.op = "remove" -> IF s.active = c.id
                            THEN Hydrated(SetActive(With(Without(rows, c.id)), None))
                            ELSE With(Without(rows, c.id))

ListStore(rows, c) ==
  CASE c.op = "peek" -> rows
    [] c.kind = "contractors" -> ContractorStore(rows, c)
    [] c.kind = "vehicles" -> VehicleStore(rows, c)
    [] c.kind = "signatures" -> SignatureStore(rows, c)
    [] c.kind = "stamps" -> StampStore(rows, c)
    [] c.kind = "companySignatures" -> CompanySignatureStore(rows, c)
    [] c.kind \in {"members", "invitations"} -> MembershipStore(rows, c)

\* The loading flag of a fetch; the user in detail has one of its own.
Flag(c) == IF c.kind = "users" /\ c.op = "get" THEN "selected" ELSE c.kind
Flags == Kinds \cup {"selected"}

Stored(s, c) ==
  LET k == c.kind
      quiet == IF c.op \in {"list", "get"} THEN [s EXCEPT !.loading[Flag(c)] = FALSE] ELSE s
  IN  IF c.at = "failed" THEN quiet
      ELSE IF k = "documents" THEN DocumentStore(quiet, c)
      ELSE IF k = "companies" THEN CompanyStore(quiet, c)
      ELSE IF k \in AdminKinds THEN AdminStore(quiet, c)
      ELSE [quiet EXCEPT !.rows[k] = ListStore(@, c)]

-----------------------------------------------------------------------------
(* Steps of a page: its next state, the stores and the calls it sends. *)

Step(p, s, calls) == [page |-> p, store |-> s, calls |-> calls]
Stay(p) == Step(p, store, <<>>)
Sends(p, call) == Step(p, store, <<call>>)

\* A fetch shows its list as loading from now on.
Fetching(s, calls) ==
  [s EXCEPT !.loading = [k \in Flags |->
     @[k] \/ \E i \in DOMAIN calls : Flag(calls[i]) = k /\ calls[i].op \in {"list", "get"}]]

Takes(step, queue) ==
  /\ page' = step.page
  /\ store' = Fetching(step.store, step.calls)
  /\ net' = queue \o step.calls
  /\ UNCHANGED <<server, scope>>

\* Nothing of a page that is left, or of its tab, hears the answers any more.
Deaf(queue, mine) ==
  [i \in DOMAIN queue |-> [queue[i] EXCEPT !.mine = IF @ = "none" THEN @ ELSE mine]]

\* The user acts.
Acts(step) ==
  /\ step.calls # <<>> => Len(net) < scope.calls
  /\ Takes(step, net)

\* One more row of a kind may be created, counting the creates in flight.
MayCreate(kind) ==
  /\ kind \in scope.grows
  /\ server.born[kind] + Len(SelectSeq(net, LAMBDA c : c.op = "create" /\ c.kind = kind
                                                        /\ c.at \in {"reading", "sent"})) < MaxNew

\* The rows a page displays: none while its list is loading.
Shown(kind) == IF store.loading[kind] THEN {} ELSE Range(store.rows[kind])

Busy(p, flag) == [p EXCEPT !.busy = @ \cup {flag}]
Idle(p, flag) == [p EXCEPT !.busy = @ \ {flag}]
Free(flag) == flag \notin page.busy

\* ConfirmModal is open while it names a row, and covers the page; clicks on its
\* confirm button are not counted.  Otherwise the page can be used.
AskRemoval(kind) == \E r \in Shown(kind) : Acts(Stay([page EXCEPT !.deleting = r.id]))

Confirming(kind, use) ==
  IF page.deleting = None THEN use \/ AskRemoval(kind)
  ELSE \/ Acts(Stay([page EXCEPT !.deleting = None]))
       \/ Acts(Sends(page, Delete(kind, page.co, page.deleting)))
=============================================================================
