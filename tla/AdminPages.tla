----------------------------- MODULE AdminPages -----------------------------
(***************************************************************************)
(* The administrator's part: AdminUsersPage, AdminUserDetailPage and       *)
(* AdminPlansPage, over the one store they share.                          *)
(***************************************************************************)
EXTENDS Tab

UsersPage == [at |-> "users", co |-> Me, search |-> "", busy |-> {}]
LoadUsers(p) == Sends(p, List("users", Me, p.search))

SearchUsers ==
  page.at = "users" /\ \E s \in {"", "a"} \ {page.search} : Acts(LoadUsers([page EXCEPT !.search = s]))

-----------------------------------------------------------------------------
UserPage(id) == [at |-> "user", co |-> Me, id |-> id, busy |-> {}]

\* fetchUser, fetchPlans, fetchCreditHistory; the cleanup of the effect.
LoadUser(p) ==
  Step(p, store, <<Fetch("users", Me, p.id), List("plans", Me, ""), List("credits", p.id, "")>>)
ClearSelectedUser(s) == [s EXCEPT !.selected = <<>>, !.rows.credits = <<>>]

UserShown == store.selected # <<>> /\ ~store.loading.selected
User == store.selected[1]

ToggleActive == Acts(Sends(page, Update("users", Me, User.id, [active |-> ~User.active])))
ToggleAdmin == Acts(Sends(page, Update("users", Me, User.id, [admin |-> ~User.admin])))
AssignPlan ==
  \E r \in Range(store.rows.plans) : r.id # User.plan /\ Acts(Sends(page, Call("assign", "users", Me, User.id, [plan |-> r.id])))
GrantCredits == MayCreate("credits") /\ Acts(Sends(page, Create("credits", User.id, [name |-> "a"])))

UserEvent == page.at = "user" /\ UserShown /\ (ToggleActive \/ ToggleAdmin \/ AssignPlan \/ GrantCredits)

\* Once credits are granted the user and the history are fetched, together: one call here.
AdminThen(c) ==
  IF c.kind = "credits" /\ c.op = "create" /\ c.at = "done" THEN <<Call("both", "users", Me, c.co, NoBody)>> ELSE <<>>

-----------------------------------------------------------------------------
\* One form serves to create a plan and to edit one.
PlansPage == [at |-> "plans", co |-> Me, showCreate |-> FALSE, editing |-> None, busy |-> {}]
LoadPlans(p) == Sends(p, List("plans", Me, ""))

ResetForm(p) == [p EXCEPT !.showCreate = FALSE, !.editing = None]

\* Nothing keeps the form from being sent twice, or from being left while it is saved.
SavePlan ==
  IF page.editing # None
    THEN \E title \in Names : Acts(Sends(page, Update("plans", Me, page.editing, [title |-> title])))
    ELSE \E name \in Names : MayCreate("plans") /\ Acts(Sends(page, Create("plans", Me, [name |-> name])))

PlansEvent ==
  /\ page.at = "plans"
  /\ \/ ~page.showCreate /\ Acts(Stay([page EXCEPT !.showCreate = TRUE, !.editing = None]))
     \/ /\ page.showCreate \/ page.editing # None
        /\ (SavePlan \/ Acts(Stay(ResetForm(page))))
     \/ \E r \in Range(store.rows.plans) :
          \/ r.id # page.editing /\ Acts(Stay([page EXCEPT !.showCreate = FALSE, !.editing = r.id]))
          \/ Acts(Sends(page, Delete("plans", Me, r.id)))

\* handleSave after its await closes whatever form is open then.
AdminAnswered(p, c) ==
  IF p.at = "plans" /\ c.op \in {"create", "update"} /\ c.at = "done" THEN ResetForm(p) ELSE p
=============================================================================
