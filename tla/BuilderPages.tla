---------------------------- MODULE BuilderPages ----------------------------
(***************************************************************************)
(* DocumentBuilderPage: the editor of one document.  It keeps a draft of   *)
(* its own and saves it two seconds after the last edit; every save makes  *)
(* a PDF of what it saved and uploads it.                                  *)
(***************************************************************************)
EXTENDS DocumentPages

\* doc is the document whose data was loaded; timer, the draft the timer will save.
BuilderPage(co, id) ==
  [at |-> "builder", co |-> co, id |-> id, doc |-> None, loading |-> TRUE, draft |-> NoData, edits |-> 0,
   unsaved |-> FALSE, timer |-> <<>>, modal |-> "none", busy |-> {}]

\* Whatever document the store holds when the fetch is answered becomes the draft.
DraftOf(row) == IF row.data = NoData THEN [of |-> row.id, v |-> 0] ELSE row.data
Hydrate(p, current) ==
  LET q == [p EXCEPT !.loading = FALSE] IN
  IF current = <<>> THEN q
  ELSE LET draft == DraftOf(current[1]) IN
       [q EXCEPT !.doc = current[1].id, !.draft = draft, !.edits = IF @ < draft.v THEN draft.v ELSE @]

\* Bug: the timer that runs is not started again and saves the draft it was started with.
Edited_KeepsTimer(p) ==
  LET draft == [p.draft EXCEPT !.v = p.edits + 1]
  IN  [p EXCEPT !.draft = draft, !.edits = @ + 1, !.unsaved = TRUE,
                !.timer = IF @ = <<>> THEN <<draft>> ELSE @]

\* What the pickers offer, asked for again when the company changes.
LoadAssets(p) ==
  <<List("vehicles", p.co, ""), List("stamps", p.co, ""), List("companySignatures", p.co, ""),
    List("signatures", Me, "")>>

\* The load effect: when the document, or the object of the active company, changes.
LoadDraft(p) == Step([p EXCEPT !.loading = TRUE], store, <<Fetch("documents", p.co, p.id)>>)
LoadBuilder(p) == Step(p, store, LoadAssets(p) \o LoadDraft(p).calls)

\* An edit is a new version of the draft; the timer starts again with it.
Edited(p) ==
  LET draft == [p.draft EXCEPT !.v = p.edits + 1]
  IN  [p EXCEPT !.draft = draft, !.edits = @ + 1, !.unsaved = TRUE, !.timer = <<draft>>]

BuilderShown == page.at = "builder" /\ ~page.loading /\ page.doc # None

\* A field, the items, the tax rate, a bank account, the buyer that is filled in.
Edit == page.edits < scope.edits /\ Acts(Stay(Edited(page)))

\* saveToServer: the draft is written, then its PDF is made and uploaded.
Save(p, draft, by) ==
  Sends(Busy([p EXCEPT !.timer = <<>>], by), Update("documents", p.co, p.id, [data |-> draft, by |-> by]))

\* The timer of the page runs out, also while the document is being loaded again.
AutoSave ==
  /\ page.at = "builder" /\ page.timer # <<>>
  /\ Takes(Save(page, page.timer[1], "saving"), net)

ManualSave == Free("saving") /\ page.unsaved /\ Acts(Save(page, page.draft, "saving"))

Export == Free("exporting") /\ Acts(Save(page, page.draft, "exporting"))

\* Fresh data of the company or of the buyer is fetched and filled in.
Resync ==
  /\ "resync" \in scope.uses /\ page.edits < scope.edits
  /\ \/ store.active # None /\ Acts(Sends(page, Call("peek", "companies", Me, store.active, NoBody)))
     \/ \E r \in Range(server.rows.contractors) :
          r.owner = page.co /\ Acts(Sends(page, Call("peek", "contractors", page.co, r.id, NoBody)))

\* AddContractorModal and AddVehicleModal.  The second is mounted when it is opened
\* and forgets that it is submitting.
OpenModal == \E m \in {"contractors", "vehicles"} :
  /\ m \in scope.grows
  /\ Acts(Stay([page EXCEPT !.modal = m, !.busy = IF m = "vehicles" THEN @ \ {m} ELSE @]))

AddContractorModal ==
  /\ page.modal = "contractors" /\ Free("contractors") /\ MayCreate("contractors")
  /\ Acts(Sends(Busy(page, "contractors"), Create("contractors", page.co, [name |-> "a", for |-> page.id])))

AddVehicleModal ==
  /\ page.modal = "vehicles" /\ Free("vehicles") /\ MayCreate("vehicles")
  /\ \E name \in Names :
       Acts(Sends(Busy(page, "vehicles"), Create("vehicles", page.co, [name |-> name, for |-> page.id])))

CloseModal == Acts(Stay([page EXCEPT !.modal = "none"]))

BuilderEvent ==
  \/ AutoSave
  \/ /\ BuilderShown
     /\ IF page.modal # "none" THEN AddContractorModal \/ AddVehicleModal \/ CloseModal
        ELSE Edit \/ ManualSave \/ Export \/ Resync \/ OpenModal

-----------------------------------------------------------------------------
\* The calls of the builder, as their body tells them.
IsSave(c) == c.op = "update" /\ DOMAIN c.body = {"data", "by"}
IsPdf(c) == c.op = "update" /\ DOMAIN c.body = {"pdf", "by"}
IsLink(c) == c.op = "update" /\ DOMAIN c.body = {"buyer"}
IsAdded(c) == c.op = "create" /\ "for" \in DOMAIN c.body
IsFresh(c) == c.op = "peek" /\ c.body = NoBody

\* What goes on after an answer, also when the page has been left.  The PDF of a
\* save is uploaded whenever its rendering ends.
BuilderThen(c) ==
  IF c.at = "failed" THEN <<>>
  ELSE CASE IsSave(c) -> <<Reading(Update("documents", c.co, c.id, [pdf |-> c.body.data, by |-> c.body.by]))>>
         [] IsFresh(c) /\ c.kind = "companies" -> <<Update("companies", Me, c.id, [resync |-> TRUE])>>
         [] IsAdded(c) /\ c.kind = "contractors" ->
              <<Update("documents", c.co, c.body.for, [buyer |-> c.answer[1].id])>>
         [] OTHER -> <<>>

\* What the page does with an answer; s is the store that already has it.  A save
\* is shown as done when the data is written, an export when its PDF is uploaded.
BuilderAnswered(p, c, s) ==
  LET ok == c.at = "done" IN
  CASE c.op = "get" -> Hydrate(p, s.current)
    [] IsSave(c) /\ ok -> IF c.body.by = "saving" THEN [p EXCEPT !.unsaved = FALSE] ELSE p
    [] IsSave(c) /\ ~ok -> Idle(p, c.body.by)
    [] IsPdf(c) -> Idle(IF ok /\ c.body.by = "exporting" THEN [p EXCEPT !.unsaved = FALSE] ELSE p, c.body.by)
    [] IsFresh(c) /\ ok -> Edited(p)
    [] IsLink(c) -> Edited(p)
    [] IsAdded(c) ->
         LET q == Idle(IF ok THEN [p EXCEPT !.modal = "none"] ELSE p, c.kind)
         IN  IF ok /\ c.kind = "vehicles" THEN Edited(q) ELSE q
    [] OTHER -> p

\* The load effect runs again when the object of the active company has changed: it is
\* another company, or the update that a resync ends with, which then loads the
\* document over the edit.
Reloads(p, c, s) ==
  /\ p.at = "builder"
  /\ \/ s.active # store.active
     \/ c.kind = "companies" /\ c.op = "update" /\ c.at = "done" /\ c.id = s.active
=============================================================================
