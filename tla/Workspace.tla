------------------------------ MODULE Workspace ------------------------------
(***************************************************************************)
(* The signed-in part of a browser tab: its pages composed with the        *)
(* stores, the sidebar, the router and the server.                         *)
(***************************************************************************)
EXTENDS DocumentStatuses, DirectoryPages, MarkPages, CompanyPages, BuilderPages, AdminPages

\* The routes under /companies/:companyId.
UnderCompany == {"contractors", "vehicles", "companySignatures", "stamps", "company", "documents",
                 "document", "builder"}
UnderAdmin == {"users", "user", "plans"}

\* What a page does when it is mounted, or its parameters change.
Load(p) ==
  CASE p.at = "contractors" -> LoadContractors(p)
    [] p.at = "vehicles" -> LoadVehicles(p)
    [] p.at \in MarkKinds -> LoadMarks(p)
    [] p.at = "companies" -> LoadCompanies(p)
    [] p.at = "company" -> LoadCompany(p)
    [] p.at = "documents" -> LoadDocuments(p)
    [] p.at = "document" -> LoadDocument(p)
    [] p.at = "builder" -> LoadBuilder(p)
    [] p.at = "users" -> LoadUsers(p)
    [] p.at = "user" -> LoadUser(p)
    [] p.at = "plans" -> LoadPlans(p)

\* The entries of the sidebar and the links of the page.  The administrator's part has a
\* sidebar of its own, without the companies.
Entries ==
  IF page.at \in UnderAdmin THEN {UsersPage, PlansPage}
  ELSE {CompaniesPage, SignaturesPage} \cup
  (IF store.active = None THEN {}
   ELSE {DocumentsPage(store.active), ContractorsPage(store.active), CompanyPage(store.active),
         VehiclesPage(store.active), CompanySignaturesPage(store.active), StampsPage(store.active)})

Links ==
  CASE page.at = "companies" -> {CompanyPage(r.id) : r \in Shown("companies")}
    [] page.at = "documents" -> {DocumentPage(page.co, r.id) : r \in Shown("documents")}
    [] page.at = "document" ->
         {DocumentsPage(page.co)} \cup
         (IF DocShown /\ Doc.status = "DRAFT" THEN {BuilderPage(page.co, Doc.id)} ELSE {})
    [] page.at = "builder" -> {DocumentPage(page.co, page.id)}
    [] page.at = "users" -> {UserPage(r.id) : r \in Range(store.rows.users)}
    [] OTHER -> {}

-----------------------------------------------------------------------------
\* A route to a page that is already mounted leaves its state alone but for the
\* parameters; the tabs of a company are mounted again when it is loaded.
Routed(p, q) ==
  IF p.at # q.at THEN q
  ELSE LET same == [f \in DOMAIN p |-> IF f \in {"co", "id"} THEN q[f] ELSE p[f]]
       IN  IF p.at = "company" THEN [Closed(same) EXCEPT !.editing = None, !.busy = {}] ELSE same

\* The cleanup of the page that is left, then the effects of the one that is shown.
Shows(p, s, queue, q) ==
  LET step == Load(Routed(p, q))
      heard == IF p.at # q.at THEN "none" ELSE IF p.at = "company" THEN "page" ELSE "tab"
      left == IF p.at = "company" THEN ClearMembers(s) ELSE IF p.at = "user" THEN ClearSelectedUser(s) ELSE s
  IN  Takes(Step(step.page, left, step.calls), Deaf(queue, heard))

\* A dialog covers the page and the sidebar.
Covered ==
  \/ \E f \in {"deleting", "cancelling"} \cap DOMAIN page : page[f] # None
  \/ \E f \in {"asked", "modal"} \cap DOMAIN page : page[f] # "none"
  \/ \E f \in {"showModal", "showSend"} \cap DOMAIN page : page[f]
  \/ page.at = "documents" /\ page.showCreate

Leaves ==
  /\ page.at # "blank" /\ ~Covered
  /\ IF "hop" \in scope.uses THEN Len(net) < MaxCalls ELSE net = <<>>

\* A click on a company's card makes it the active one as well.
Visit ==
  /\ Leaves
  /\ \E q \in Entries \cup Links :
       /\ q.at \in scope.pages /\ q.co \in scope.visits \cup {Me}
       /\ <<q.at, q.co>> # <<page.at, page.co>>
       /\ Shows(page, IF page.at = "companies" /\ q \in Links THEN SetActive(store, q.co) ELSE store, net, q)

\* handleSwitchCompany: a page of the active company becomes the page of the other.
SwitchCompany ==
  /\ Leaves /\ page.at \notin UnderAdmin
  /\ \E r \in Range(store.rows.companies) :
       LET s == SetActive(store, r.id) IN
       /\ r.id \in scope.visits \ {store.active}
       /\ IF page.at \in UnderCompany /\ page.co = store.active
            THEN Shows(page, s, net, [page EXCEPT !.co = r.id])
          ELSE IF page.at = "builder"
            THEN Takes(Step(LoadDraft(page).page, s, LoadDraft(page).calls), net)
          ELSE Takes(Step(page, s, <<>>), net)

-----------------------------------------------------------------------------
\* Bug: a company that is created does not become the active one, only one that is
\* loaded while the tab has none.
Activated_OnlyLoaded(c, s) ==
  IF c.kind = "companies" /\ c.at = "done" /\ c.op = "get" /\ s.active = None THEN SetActive(s, c.answer[1].id) ELSE s

\* The company of a page that is loaded, or a new one, becomes active, whether or not
\* the page is still there.
Activated(c, s) ==
  IF c.kind = "companies" /\ c.at = "done" /\ c.op \in {"get", "create"}
    THEN SetActive(s, c.answer[1].id) ELSE s

\* Where an answer takes the user, whether or not the page is still there.
Destination(c) ==
  IF c.at = "failed" THEN <<>>
  ELSE CASE c.kind = "companies" /\ c.op = "create" -> <<CompanyPage(c.answer[1].id)>>
         [] c.kind = "companies" /\ c.op = "remove" -> <<CompaniesPage>>
         [] c.kind = "documents" /\ c.op = "create" /\ c.body.open -> <<DocumentPage(c.co, c.answer[1].id)>>
         [] c.kind = "documents" /\ c.op = "remove" /\ c.body.open -> <<DocumentsPage(c.co)>>
         [] OTHER -> <<>>

\* What the page that sent a call does with the answer.
Answered(p, c, s) ==
  CASE p.at = "contractors" -> ContractorsAnswered(p, c)
    [] p.at = "vehicles" -> VehiclesAnswered(p, c)
    [] p.at \in MarkKinds -> MarksAnswered(p, c)
    [] p.at = "companies" -> CompaniesAnswered(p, c)
    [] p.at = "company" -> CompanyAnswered(p, c)
    [] p.at = "documents" -> DocumentsAnswered(p, c)
    [] p.at = "document" -> DocumentAnswered(p, c)
    [] p.at = "builder" -> BuilderAnswered(p, c, s)
    [] p.at \in UnderAdmin -> AdminAnswered(p, c)

\* The calls that follow are heard by whoever heard this one.
Following(c) ==
  LET calls == DocumentThen(c) \o BuilderThen(c) \o AdminThen(c)
  IN  [i \in DOMAIN calls |-> [calls[i] EXCEPT !.mine = c.mine]]

Deliver(i) ==
  /\ Turn(i, LAMBDA c : c.at # "reading")
  /\ net[i].at \in {"done", "failed"}
  /\ LET c == net[i]
         s == Activated(c, Stored(store, c))
         p == IF c.mine = "none" THEN page ELSE Answered(page, c, s)
         queue == RemoveAt(net, i) \o Following(c)
         loading == Fetching(s, Following(c))
     IN  IF Destination(c) # <<>> THEN Shows(p, loading, queue, Destination(c)[1])
         ELSE IF Reloads(p, c, s) THEN Takes(Step(LoadDraft(p).page, loading, LoadDraft(p).calls), queue)
         ELSE Takes(Step(p, loading, <<>>), queue)

-----------------------------------------------------------------------------
\* The rows there are at first: two companies, and a row of each kind the scope names, of
\* the first company, and a document of each; that of the second has been saved.
GivenRows(k, roles) ==
  CASE k = "companies" ->
         <<Row(k, 1, Me, [accounts |-> <<[id |-> 1, isDefault |-> TRUE], [id |-> 2, isDefault |-> FALSE]>>]),
           Row(k, 2, Me, [name |-> "b"])>>
    [] k = "members" ->
         <<Row(k, 1, 1, [name |-> "me", role |-> roles[1]]), Row(k, 2, 2, [name |-> "me", role |-> "OWNER"])>>
         \o (IF k \in scope.full THEN <<Row(k, 3, 1, [name |-> "b", role |-> roles[2]])>> ELSE <<>>)
    [] k = "documents" /\ k \in scope.full ->
         <<Row(k, 1, 1, [number |-> 1]), Row(k, 2, 2, [number |-> 1, data |-> [of |-> 2, v |-> 0]])>>
    [] k = "users" /\ k \in scope.full -> <<Row(k, 1, Me, [plan |-> 1]), Row(k, 2, Me, [name |-> "b"])>>
    [] k = "plans" /\ k \in scope.full -> <<Row(k, 1, Me, <<>>), Row(k, 2, Me, [name |-> "c"])>>
    [] k \notin {"companies", "members", "documents", "users", "plans"} /\ k \in scope.full ->
         <<Row(k, 1, IF k = "signatures" THEN Me ELSE 1, [isDefault |-> k \in MarkKinds])>>
    [] OTHER -> <<>>

Roles == {<<"OWNER", "ADMIN">>, <<"OWNER", "MEMBER">>, <<"ADMIN", "OWNER">>, <<"ADMIN", "ADMIN">>}

FirstPages ==
  {CompaniesPage, SignaturesPage, UsersPage, PlansPage}
  \cup {UserPage(r.id) : r \in Range(server.rows.users)}
  \cup (UNION {{DocumentsPage(co), ContractorsPage(co), CompanyPage(co), VehiclesPage(co),
                CompanySignaturesPage(co), StampsPage(co)} : co \in scope.visits})
  \cup (UNION {{DocumentPage(r.owner, r.id), BuilderPage(r.owner, r.id)} :
               r \in {d \in Range(server.rows.documents) : d.owner \in scope.visits}})

\* The tab is empty; the companies are listed and one is active, or the tab is new.
Init ==
  /\ scope \in Scopes
  /\ page = [at |-> "blank", co |-> Me, busy |-> {}]
  /\ net = <<>>
  /\ \E roles \in (IF "members" \in scope.full THEN Roles ELSE {<<"OWNER", "MEMBER">>}) :
       server = [rows |-> [k \in Kinds |-> GivenRows(k, roles)], born |-> [k \in Kinds |-> 0]]
  /\ \E co \in scope.visits \cup {None} :
       LET new == "reload" \in scope.uses IN
       /\ co = None => new
       /\ store = [rows |-> [k \in Kinds |-> IF k = "companies" /\ ~new THEN server.rows[k] ELSE <<>>],
                   loading |-> [k \in Flags |-> FALSE],
                   active |-> IF new THEN None ELSE co, saved |-> co, current |-> <<>>, selected |-> <<>>]

\* The first page is shown; in a new tab DashboardLayout asks for the companies as well,
\* whatever company the page is of.
Open ==
  /\ page.at = "blank"
  /\ \E first \in FirstPages :
       LET new == "reload" \in scope.uses
           step == Load(first)
           companies == [List("companies", Me, "") EXCEPT !.mine = "none"]
       IN /\ first.at \in scope.pages
          /\ first.at \in UnderCompany /\ ~new => first.co = store.active
          /\ Takes([step EXCEPT !.calls = IF new THEN Append(@, companies) ELSE @], net)

PageEvent ==
  \/ ContractorsEvent \/ VehiclesEvent \/ MarksEvent \/ CompaniesEvent \/ CompanyEvent
  \/ DocumentsEvent \/ DocumentEvent \/ BuilderEvent
  \/ SearchUsers \/ UserEvent \/ PlansEvent

Next ==
  \/ Open \/ PageEvent \/ Visit \/ SwitchCompany
  \/ \E i \in DOMAIN net : Serve(i) \/ BodyMade(i) \/ Deliver(i)

Spec == Init /\ [][Next]_vars
-----------------------------------------------------------------------------
Settled == net = <<>> /\ page.at # "blank"

\* The rows of a kind that belong to an owner are those of a list, each once.
Mirrors(kind, owner) ==
  LET rows == store.rows[kind] IN
  /\ Range(rows) = {r \in Range(server.rows[kind]) : r.owner = owner}
  /\ \A i, j \in DOMAIN rows : rows[i].id = rows[j].id => i = j

ListsOf(p) ==
  CASE p.at \in {"contractors", "documents", "users"} -> IF p.search = "" THEN {p.at} ELSE {}
    [] p.at = "company" -> {"members", "invitations"}
    [] p.at \in MarkKinds \cup {"vehicles"} -> {p.at}
    [] OTHER -> {}

\* A plan that is removed leaves the list also if the server only made it inactive.
PlansListed ==
  LET rows == store.rows.plans IN
  /\ {r \in Range(server.rows.plans) : r.active} \subseteq Range(rows)
  /\ Range(rows) \subseteq Range(server.rows.plans)
  /\ \A i, j \in DOMAIN rows : rows[i].id = rows[j].id => i = j

\* The user in detail, but for being an administrator: the call that is to change that
\* goes to a handler which ignores it.
UserAsStored ==
  User.id = page.id
  /\ \E r \in Range(server.rows.users) : UserDetail(r) = [User EXCEPT !.admin = r.admin]

\* When every call has been answered, what the page lists are the rows the server has of its
\* company, with their present content, none twice: merging the answers of creates, updates
\* and removals into the lists of the stores comes to what fetching them again would, also
\* when the user works on while they are made or fail.  Answers come in the order of the
\* calls here, and lists are fetched; see ListScope for the marks.
ListScope ==
  /\ {"overtake"} \cap scope.uses = {} /\ "list" \notin scope.fails
  /\ page.at \in MarkKinds \cup {"user"} => "hop" \notin scope.uses
ListMirrorsServer ==
  Settled /\ ListScope =>
    /\ \A k \in ListsOf(page) : Mirrors(k, page.co)
    /\ Mirrors("companies", Me)
    /\ page.at = "plans" => PlansListed
    /\ page.at = "user" /\ UserShown => UserAsStored /\ Mirrors("credits", page.id)

\* When every call has been answered nothing is shown as being loaded or saved any more: each
\* path through the handlers takes its flag back, whether its calls failed, in whatever order
\* they were answered, and also when the tab or the page was left.  (The spinner of a number
\* check that was dropped is the exception: isCheckingNumber stays.)
NothingHangs ==
  Settled =>
    /\ page.busy \subseteq {"checking"}
    /\ \A f \in Flags : ~store.loading[f]
    /\ page.at = "user" /\ "get" \notin scope.fails => store.selected # <<>>
    /\ "loading" \in DOMAIN page => ~page.loading

\* The active company is the one whose page is shown, and is listed: the builder takes the
\* seller from it, the sidebar its links.  The user waits for answers before leaving a page.
ActiveCompanyShown ==
  Settled /\ scope.uses \cap {"hop", "reload"} = {} =>
    /\ page.at \in UnderCompany /\ ~(page.at = "company" /\ page.error) => page.co = store.active
    /\ store.active = None \/ \E r \in Range(store.rows.companies) : r.id = store.active

\* A company that has bank accounts has exactly one default account: the tab writes the whole
\* array and decides itself where the flag goes.  Saves do not fail and the settings are not
\* left while one is made: the array of a failed save has been written into already.
OneDefaultAccount ==
  scope.fails = {} /\ "hop" \notin scope.uses =>
    \A r \in Range(server.rows.companies) :
      r.accounts # <<>> =>
        \E i \in DOMAIN r.accounts : \A j \in DOMAIN r.accounts : r.accounts[j].isDefault <=> j = i

\* No save of the bank accounts drops an account but the one that was removed: the array that
\* is written was made of the newest one.  Answers come in order: an older row of the company
\* that is answered late becomes the page's copy again, and the next array is made of it.
AccountIds(r) == {a.id : a \in Range(r.accounts)}
AccountsKept ==
  [][scope.fails = {} /\ {"hop", "overtake"} \cap scope.uses = {} =>
       \A r \in Range(server.rows.companies), s \in Range(server'.rows.companies) :
         r.id = s.id =>
           \A gone \in AccountIds(r) \ AccountIds(s) :
             \E i \in DOMAIN net : net[i].id = r.id /\ "gone" \in DOMAIN net[i].body /\ net[i].body.gone = gone]_vars

\* What the members tab offers the server accepts, once it shows the present rows: the rules
\* of the page and those of the handlers agree, except that an administrator is offered to
\* change the role of another one.
OffersAreAccepted ==
  Settled /\ ListScope /\ page.at = "company" /\ scope.fails = {} =>
    \A m \in Range(store.rows.members) :
      /\ CanRemove(m) /\ ~(m.name = "me" /\ m.role = "OWNER") => ~MemberRefused(Delete("members", page.co, m.id), m)
      /\ CanChangeRole(m) /\ (MyRole = "OWNER" \/ m.role # "ADMIN") =>
           ~MemberRefused(Update("members", page.co, m.id, [role |-> "MEMBER"]), m)

\* The statuses a document's page offers are transitions of the server's map, although the
\* call it makes takes any status: the row that is shown is the present one.  (COMPLETED is
\* offered for a PENDING_SIGNATURE document, which the map does not allow.)
StatusesOffered ==
  Settled /\ ListScope /\ page.at = "document" /\ DocShown /\ scope.fails = {} =>
    \A r \in Range(server.rows.documents) : r.id = Doc.id => 
      \/ Offered(Doc.status) \subseteq Transitions[r.status]
      \/ r.status = "PENDING_SIGNATURE" /\ Offered(Doc.status) \subseteq Transitions[r.status] \cup {"COMPLETED"}

\* What the builder shows is what the server has when every call is answered and no timer
\* runs: an edit is never lost to a save that was under way when it was made.  Calls do not
\* fail and do not overtake each other, and the active company does not change.
DraftIsSaved ==
  (Settled /\ page.at = "builder" /\ scope.fails = {} /\ scope.uses = {} /\ page.timer = <<>> /\ page.edits > 0) =>
    \A r \in Range(server.rows.documents) : r.id = page.id => r.data = page.draft

\* A document never gets the data of another one, although the builder takes whatever document
\* the store holds, which pages that are being left still write.  Fetches do not fail.
SavesOwnDraft ==
  "get" \notin scope.fails =>
    \A r \in Range(server.rows.documents) : {r.data.of, r.pdf.of} \subseteq {None, r.id}
=============================================================================
