----------------------------- MODULE MarkPages -----------------------------
(***************************************************************************)
(* SignaturesPage, CompanySignaturesPage and StampsPage: the images that   *)
(* are put on documents.  One of each owner's is the default.              *)
(***************************************************************************)
EXTENDS Tab

MarkKinds == {"signatures", "companySignatures", "stamps"}

\* The page of the user's own signatures has no company.
MarksPage(kind, co) ==
  [at |-> kind, co |-> IF kind = "signatures" THEN Me ELSE co, drawing |-> FALSE,
   editing |-> None, deleting |-> None, busy |-> {}]

SignaturesPage == MarksPage("signatures", Me)
CompanySignaturesPage(co) == MarksPage("companySignatures", co)
StampsPage(co) == MarksPage("stamps", co)

LoadMarks(p) == Sends(p, List(p.at, p.co, ""))

\* A signature is drawn in a panel that is open, a file is chosen at any time; the
\* stamps have no panel and their button is disabled while one is saved.
Draw ==
  \/ Acts(Stay([page EXCEPT !.drawing = ~@]))
  \/ /\ page.drawing /\ Free("saving") /\ MayCreate(page.at)
     /\ \E default \in BOOLEAN :
          Acts(Sends(Busy(page, "saving"), Reading(Create(page.at, page.co, [isDefault |-> default]))))

Upload ==
  /\ page.at = "stamps" => Free("saving")
  /\ MayCreate(page.at)
  /\ Acts(Sends(Busy(page, "saving"), Reading(Create(page.at, page.co, [name |-> "b"]))))

\* handleSetDefault: offered for the marks that are not the default.
SetDefault ==
  \E r \in Shown(page.at) :
    ~r.isDefault /\ Acts(Sends(page, Update(page.at, page.co, r.id, [isDefault |-> TRUE])))

Rename ==
  \E r \in Shown(page.at) :
    IF r.id # page.editing THEN Acts(Stay([page EXCEPT !.editing = r.id]))
    ELSE \/ Acts(Stay([page EXCEPT !.editing = None]))
         \/ \E name \in Names : Acts(Sends(page, Update(page.at, page.co, r.id, [name |-> name])))

\* The company's signatures are removed without a dialog.
RemoveMark == \E r \in Shown(page.at) : Acts(Sends(page, Delete(page.at, page.co, r.id)))

SignaturesEvent ==
  page.at = "signatures" /\ Confirming("signatures", Draw \/ Upload \/ SetDefault \/ Rename)

CompanySignaturesEvent ==
  page.at = "companySignatures" /\ (Draw \/ Upload \/ SetDefault \/ Rename \/ RemoveMark)

StampsEvent == page.at = "stamps" /\ Confirming("stamps", Upload \/ SetDefault \/ Rename)

MarksEvent == SignaturesEvent \/ CompanySignaturesEvent \/ StampsEvent

\* A drawing and a file share isSaving; the answer to a drawing closes the panel.
MarksAnswered(p, c) ==
  CASE c.op = "create" ->
         Idle(IF c.at = "failed" \/ "isDefault" \notin DOMAIN c.body THEN p
              ELSE [p EXCEPT !.drawing = FALSE], "saving")
    [] c.op = "update" /\ c.at # "failed" /\ "name" \in DOMAIN c.body -> [p EXCEPT !.editing = None]
    [] c.op = "remove" /\ c.at # "failed" -> [p EXCEPT !.deleting = None]
    [] OTHER -> p
=============================================================================
