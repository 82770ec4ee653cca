---------------------------- MODULE CompanyPages ----------------------------
(***************************************************************************)
(* CompanyListPage and CompanyDetailPage with its tabs.  A company is a    *)
(* row of kind "companies" whose accounts are its bank accounts: one JSON  *)
(* array, which every change of an account writes as a whole.              *)
(***************************************************************************)
EXTENDS Tab

MaxAccounts == 2  \* bound on the accounts of a company

CompaniesPage == [at |-> "companies", co |-> Me, showCreate |-> FALSE, busy |-> {}]

LoadCompanies(p) == Sends(p, List("companies", Me, ""))

\* The page of one company.  company is its own copy; accounts, what the settings
\* tab shows; aliased, whether these are still the objects of that copy.
CompanyPage(co) ==
  [at |-> "company", co |-> co, company |-> <<>>, loading |-> TRUE, error |-> FALSE, tab |-> "overview",
   accounts |-> <<>>, aliased |-> FALSE, editing |-> None, asked |-> "none", deleting |-> None, busy |-> {}]

\* The effect of CompanyDetailPage: load, fetchMembers, fetchInvitations.
LoadCompany(p) ==
  Step([p EXCEPT !.loading = TRUE], store,
       <<Fetch("companies", Me, p.co), List("members", p.co, ""), List("invitations", p.co, "")>>)

\* Its cleanup.
ClearMembers(s) ==
  [s EXCEPT !.rows.members = <<>>, !.rows.invitations = <<>>, !.loading.members = FALSE]

CompaniesEvent ==
  /\ page.at = "companies"
  /\ \/ Acts(Stay([page EXCEPT !.showCreate = ~@]))
     \/ /\ page.showCreate /\ Free("creating") /\ MayCreate("companies")
        /\ Acts(Sends(Busy(page, "creating"), Create("companies", Me, [name |-> "b"])))

CompaniesAnswered(p, c) ==
  IF c.op # "create" THEN p
  ELSE Idle(IF c.at = "failed" THEN p ELSE [p EXCEPT !.showCreate = FALSE], "creating")

-----------------------------------------------------------------------------
\* The role the page gives the user: that of the row in the list it shows.
MyRole ==
  LET mine == {r \in Range(store.rows.members) : r.name = "me"}
  IN  IF mine = {} THEN "none" ELSE (CHOOSE r \in mine : TRUE).role

CanManage == MyRole \in {"OWNER", "ADMIN"}
Ready == page.at = "company" /\ ~page.loading /\ ~page.error /\ page.company # <<>>

\* A tab is mounted afresh: its form, dialog and busy flags are gone, and the
\* settings start from the page's copy of the company.
MountTab(tab) ==
  [page EXCEPT !.tab = tab, !.editing = None, !.busy = {}, !.accounts = page.company[1].accounts, !.aliased = TRUE]

OpenTab ==
  /\ Ready /\ page.asked = "none"
  /\ "hop" \notin scope.uses => net = <<>>
  /\ \E tab \in {"overview", "members"} \cup (IF CanManage THEN {"settings"} ELSE {}) :
       tab # page.tab /\ Takes(Stay(MountTab(tab)), Deaf(net, "page"))

InTab(tab) == Ready /\ page.tab = tab

\* MembersTab.  Addresses: "a" has an account, "b" has none.
AddMember ==
  /\ CanManage /\ Free("adding")
  /\ \E kind \in {"members", "invitations"}, role \in {"ADMIN", "MEMBER"} :
       /\ role = "ADMIN" => MyRole = "OWNER"
       /\ MayCreate(kind)
       /\ Acts(Sends(Busy(page, "adding"),
                     Create(kind, page.co, [role |-> role, name |-> IF kind = "members" THEN "a" ELSE "b"])))

CanChangeRole(m) == CanManage /\ m.role # "OWNER" /\ m.name # "me"
\* Bug: administrators are offered to remove each other.
CanRemove_AnyMember(m) == m.name = "me" \/ (CanManage /\ m.role # "OWNER")

CanRemove(m) ==
  m.name = "me" \/ (CanManage /\ m.role # "OWNER" /\ ~(MyRole # "OWNER" /\ m.role = "ADMIN"))

\* The list of roles in the row of a member.
ChangeRole ==
  \E m \in Range(store.rows.members), role \in {"ADMIN", "MEMBER"} :
    /\ CanChangeRole(m) /\ role # m.role
    /\ role = "ADMIN" => MyRole = "OWNER"
    /\ Acts(Sends(page, Update("members", page.co, m.id, [role |-> role])))

\* Its dialogs are closed before their call is sent.
Ask(what, id) == Acts(Stay([page EXCEPT !.asked = what, !.deleting = id]))
Closed(p) == [p EXCEPT !.asked = "none", !.deleting = None]
Cancel == page.asked # "none" /\ Acts(Stay(Closed(page)))

AskMember ==
  \/ \E m \in Range(store.rows.members) : CanRemove(m) /\ Ask("members", m.id)
  \/ CanManage /\ \E i \in Range(store.rows.invitations) : Ask("invitations", i.id)

RemoveMember ==
  page.asked \in {"members", "invitations"}
  /\ Acts(Sends(Closed(page), Delete(page.asked, page.co, page.deleting)))

MembersEvent ==
  /\ InTab("members") /\ ~store.loading.members
  /\ IF page.asked = "none" THEN AddMember \/ ChangeRole \/ AskMember ELSE RemoveMember \/ Cancel

-----------------------------------------------------------------------------
(* SettingsTab *)

Accounts == Range(page.accounts)
\* saveBankAccounts: gone is the account that is removed; edited, whether the save ends
\* the form of an account.
SaveAccounts(p, accounts, gone, edited) ==
  Sends(Busy(p, "bankSaving"),
        Update("companies", Me, page.co, [accounts |-> accounts, gone |-> gone, edited |-> edited]))

\* handleSave and handleSaveTranslations write the fields of the company.
SaveFields(flag) ==
  Free(flag) /\ Acts(Sends(Busy(page, flag), Update("companies", Me, page.co, [name |-> "b", flag |-> flag])))

CompanyForm == SaveFields("saving")
TranslationsForm == SaveFields("translationsSaving")

\* The first account becomes the default.
WithAccount(n) == Append(page.accounts, [id |-> n, isDefault |-> page.accounts = <<>>])

AddAccount ==
  \E n \in 1..MaxAccounts \ {a.id : a \in Accounts} : Acts(SaveAccounts(page, WithAccount(n), None, FALSE))

\* The row of an account turns into a form: its buttons are gone, those of the others
\* are not.  What is edited keeps its place and its flag.
StartEdit(a) == Acts(Stay([page EXCEPT !.editing = a.id]))
CancelEdit == page.editing # None /\ Acts(Stay([page EXCEPT !.editing = None]))
EditAccount ==
  page.editing \in {a.id : a \in Accounts} /\ Acts(SaveAccounts(page, page.accounts, None, TRUE))

SetDefaultAccount(a) ==
  ~a.isDefault
  /\ Acts(SaveAccounts(page, [i \in DOMAIN page.accounts |->
                                [page.accounts[i] EXCEPT !.isDefault = page.accounts[i].id = a.id]],
                       None, FALSE))

\* Bug: the flag of a default account that is removed goes to none.
Flagged_Nobody(accounts, id) == accounts

\* The dialog of an account's removal: the flag of a default goes to the first that
\* is left, which is written into the objects the tab still shows, and into those of
\* the page while they are the same.
Flagged(accounts, id) ==
  [i \in DOMAIN accounts |-> IF accounts[i].id = id THEN [accounts[i] EXCEPT !.isDefault = TRUE] ELSE accounts[i]]

RemoveAccount ==
  LET left == Without(page.accounts, page.deleting)
      heir == IF left # <<>> /\ \E a \in Accounts : a.id = page.deleting /\ a.isDefault THEN left[1].id ELSE None
      p == [Closed(page) EXCEPT
              !.accounts = Flagged(@, heir),
              !.company = IF page.aliased THEN <<[@[1] EXCEPT !.accounts = Flagged(@, heir)]>> ELSE @]
  IN  page.asked = "account" /\ Acts(SaveAccounts(p, Flagged(left, heir), page.deleting, FALSE))

DeleteCompany ==
  page.asked = "company"
  /\ Acts(Sends(Busy(Closed(page), "deleting"), Delete("companies", Me, page.co)))

\* The buttons of an account that is not being edited, and of the company's end.
AccountRow ==
  \E a \in Accounts :
    a.id # page.editing /\ (StartEdit(a) \/ SetDefaultAccount(a) \/ Ask("account", a.id))

DangerZone == Free("deleting") /\ MyRole = "OWNER" /\ Ask("company", page.co)

SettingsEvent ==
  /\ InTab("settings") /\ CanManage
  /\ IF page.asked # "none" THEN RemoveAccount \/ DeleteCompany \/ Cancel
     ELSE \/ CompanyForm \/ TranslationsForm \/ DangerZone
          \/ Free("bankSaving") /\ (AddAccount \/ AccountRow \/ CancelEdit \/ EditAccount)

CompanyEvent == OpenTab \/ MembersEvent \/ SettingsEvent

-----------------------------------------------------------------------------
\* Bug: the tab goes on with the accounts it had before it saved.
CompanyAnswered_KeepsAccounts(p, c) ==
  IF c.op = "get" /\ c.at = "done"
    THEN [p EXCEPT !.loading = FALSE, !.company = c.answer, !.accounts = c.answer[1].accounts]
    ELSE [p EXCEPT !.loading = FALSE, !.busy = @ \ {"bankSaving"}]

\* What the page that sent the call does with its answer; the row of the company is
\* merged into the page's copy also when its tab has been left.
CompanyAnswered(p, c) ==
  LET ok == c.at # "failed"
      copy == IF ok /\ p.company # <<>> THEN c.answer ELSE p.company
      tab == c.mine = "tab"
  IN
  CASE c.op = "get" /\ ok ->
         [p EXCEPT !.loading = FALSE, !.company = c.answer, !.accounts = c.answer[1].accounts, !.aliased = TRUE]
    [] c.op = "get" /\ ~ok -> [p EXCEPT !.loading = FALSE, !.error = TRUE]
    [] c.op = "update" /\ c.kind = "companies" /\ "accounts" \in DOMAIN c.body ->
         [p EXCEPT !.company = copy,
                   !.aliased = @ /\ ~ok,
                   !.accounts = IF ok /\ tab THEN c.body.accounts ELSE @,
                   !.editing = IF tab /\ c.body.edited THEN None ELSE @,
                   !.busy = IF tab THEN @ \ {"bankSaving"} ELSE @]
    [] c.op = "update" /\ c.kind = "companies" /\ "accounts" \notin DOMAIN c.body ->
         [p EXCEPT !.company = copy, !.aliased = @ /\ ~ok, !.busy = IF tab THEN @ \ {c.body.flag} ELSE @]
    [] c.op = "create" -> [p EXCEPT !.busy = IF tab THEN @ \ {"adding"} ELSE @]
    [] c.op = "remove" /\ c.kind = "companies" -> [p EXCEPT !.busy = IF ok \/ ~tab THEN @ ELSE @ \ {"deleting"}]
    [] OTHER -> p
=============================================================================
