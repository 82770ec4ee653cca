--------------------------- MODULE DirectoryPages ---------------------------
(***************************************************************************)
(* The lists a company keeps: ContractorsPage and VehiclesPage.            *)
(***************************************************************************)
EXTENDS Tab

\* A contractor is created, edited in its row or removed; what is typed into the
\* search field goes to the server, so each change loads the list again.
ContractorsPage(co) ==
  [at |-> "contractors", co |-> co, search |-> "", showCreate |-> FALSE, editing |-> None,
   deleting |-> None, busy |-> {}]

LoadContractors(p) == Sends(p, List("contractors", p.co, p.search))

SearchContractors ==
  \E s \in {"", "a"} \ {page.search} : Acts(LoadContractors([page EXCEPT !.search = s]))

\* The form to create one: opened and closed, and sent.
ContractorForm ==
  \/ MayCreate("contractors") /\ Acts(Stay([page EXCEPT !.showCreate = ~@]))
  \/ /\ page.showCreate /\ Free("submitting") /\ MayCreate("contractors")
     /\ \E name \in Names :
          Acts(Sends(Busy(page, "submitting"), Create("contractors", page.co, [name |-> name])))

\* The row that is being edited is a form; another one may be opened while it is saved.
StartEditing(r) == r.id # page.editing /\ Acts(Stay([page EXCEPT !.editing = r.id]))

EditForm(r) ==
  \/ Acts(Stay([page EXCEPT !.editing = None]))
  \/ /\ Free("submitting")
     /\ \E name \in Names :
          Acts(Sends(Busy(page, "submitting"), Update("contractors", page.co, r.id, [name |-> name])))

ContractorRow ==
  \E r \in Shown("contractors") : StartEditing(r) \/ (r.id = page.editing /\ EditForm(r))

ContractorsEvent ==
  /\ page.at = "contractors"
  /\ Confirming("contractors", SearchContractors \/ ContractorForm \/ ContractorRow)

\* Bug: the form is only released by a call that succeeds.
ContractorsAnswered_WithoutFinally(p, c) ==
  IF c.at = "failed" THEN p
  ELSE Idle([p EXCEPT !.showCreate = FALSE, !.editing = None, !.deleting = None], "submitting")

\* handleCreate, handleUpdate and handleDelete after their await.
ContractorsAnswered(p, c) ==
  CASE c.op = "create" -> Idle(IF c.at = "failed" THEN p ELSE [p EXCEPT !.showCreate = FALSE], "submitting")
    [] c.op = "update" -> Idle(IF c.at = "failed" THEN p ELSE [p EXCEPT !.editing = None], "submitting")
    [] c.op = "remove" -> [p EXCEPT !.deleting = None]
    [] OTHER -> p

-----------------------------------------------------------------------------
VehiclesPage(co) ==
  [at |-> "vehicles", co |-> co, showModal |-> FALSE, editing |-> None, deleting |-> None, busy |-> {}]

LoadVehicles(p) == Sends(p, List("vehicles", p.co, ""))

OpenVehicleModal ==
  \E id \in {None} \cup {r.id : r \in Shown("vehicles")} :
    Acts(Stay([page EXCEPT !.showModal = TRUE, !.editing = id]))

\* The cancel button works while the form is being saved.
VehicleModal ==
  \/ Acts(Stay([page EXCEPT !.showModal = FALSE]))
  \/ /\ Free("saving") /\ page.editing # None
     /\ \E name \in Names :
          Acts(Sends(Busy(page, "saving"), Update("vehicles", page.co, page.editing, [name |-> name])))
  \/ /\ Free("saving") /\ page.editing = None /\ MayCreate("vehicles")
     /\ \E name \in Names :
          Acts(Sends(Busy(page, "saving"), Create("vehicles", page.co, [name |-> name])))

ToggleVehicle ==
  \E r \in Shown("vehicles") :
    Acts(Sends(page, Update("vehicles", page.co, r.id, [active |-> ~r.active])))

VehiclesEvent ==
  /\ page.at = "vehicles"
  /\ IF page.showModal THEN VehicleModal ELSE Confirming("vehicles", OpenVehicleModal \/ ToggleVehicle)

\* handleSubmit and handleDelete after their await.  The toggle has nothing left to
\* do, and a removal that fails leaves its dialog open.
VehiclesAnswered(p, c) ==
  CASE c.op \in {"create", "update"} /\ "name" \in DOMAIN c.body ->
         Idle(IF c.at = "failed" THEN p ELSE [p EXCEPT !.showModal = FALSE], "saving")
    [] c.op = "remove" /\ c.at # "failed" -> [p EXCEPT !.deleting = None]
    [] OTHER -> p
=============================================================================
