--------------------------- MODULE DocumentPages ---------------------------
(***************************************************************************)
(* DocumentListPage and DocumentDetailPage.  The list and the document     *)
(* that is open share one store and one loading flag.                      *)
(***************************************************************************)
EXTENDS Tab

(* DocumentListPage.  debounced is the number as the check last saw it. *)
DocumentsPage(co) ==
  [at |-> "documents", co |-> co, search |-> "", showCreate |-> FALSE, number |-> 0, debounced |-> 0,
   numberError |-> FALSE, deleting |-> None, cancelling |-> None, busy |-> {}]

LoadDocuments(p) == Sends(p, List("documents", p.co, p.search))

FilterDocuments ==
  \E s \in {"", "a"} \ {page.search} : Acts(LoadDocuments([page EXCEPT !.search = s]))

\* The effect that checks a number: the check before is dropped, and a new one made
\* of a number in an open form.  Its spinner is not taken away with the check.
IsCheck(c) == c.op = "check"
Unchecked(queue) == [i \in DOMAIN queue |-> IF IsCheck(queue[i]) THEN [queue[i] EXCEPT !.mine = "none"] ELSE queue[i]]

Checks(p) == p.showCreate /\ p.debounced # 0
Checking(p) == IF Checks(p) THEN Busy(p, "checking") ELSE [p EXCEPT !.numberError = FALSE]
NumberCheck(p) ==
  IF Checks(p) THEN <<Call("check", "documents", p.co, None, [number |-> p.debounced])>> ELSE <<>>

\* The effects of the form that is opened: the buyers, the next number, the check.
Prefill(p) ==
  IF p.showCreate THEN <<List("contractors", p.co, ""), Call("next", "documents", p.co, None, NoBody)>> ELSE <<>>

ToggleCreate ==
  LET p == [page EXCEPT !.showCreate = ~@] IN
  /\ p.showCreate => MayCreate("documents") /\ Len(net) < scope.calls
  /\ Takes(Step(Checking(p), store, Prefill(p) \o NumberCheck(p)), Unchecked(net))

\* No number, one that is taken, one that is free.
TypeNumber == \E n \in (0..2) \ {page.number} : Acts(Stay([page EXCEPT !.number = n]))

\* useDebounce: 400 ms after the last change.
DebounceNumber ==
  LET p == [page EXCEPT !.debounced = page.number] IN
  /\ page.number # page.debounced
  /\ Len(net) < scope.calls
  /\ Takes(Step(Checking(p), store, NumberCheck(p)), Unchecked(net))

CreateDocument ==
  /\ Free("creating") /\ Free("checking") /\ ~page.numberError
  /\ MayCreate("documents")
  /\ Acts(Sends(Busy(page, "creating"),
                Create("documents", page.co, [name |-> "a", number |-> page.number, from |-> None, open |-> TRUE])))

\* A copy is called otherwise than its original; the page of a document goes to it.
Duplicate(co, id, open) == Create("documents", co, [name |-> "b", number |-> 0, from |-> id, open |-> open])
DuplicateRow ==
  /\ MayCreate("documents")
  /\ \E r \in Shown("documents") : Acts(Sends(page, Duplicate(page.co, r.id, FALSE)))

AskCancel ==
  \E r \in Shown("documents") : r.status # "CANCELLED" /\ Acts(Stay([page EXCEPT !.cancelling = r.id]))

\* While its call is made a dialog cannot be confirmed again, but it can be closed.
CancelDialog ==
  \/ Acts(Stay([page EXCEPT !.cancelling = None]))
  \/ /\ Free("cancelling")
     /\ Acts(Sends(Busy(page, "cancelling"),
                   Update("documents", page.co, page.cancelling, [status |-> "CANCELLED"])))

\* open: the page of the document goes to the list afterwards.
DeleteDialog(id, open) ==
  \/ Acts(Stay([page EXCEPT !.deleting = None]))
  \/ /\ Free("deleting")
     /\ Acts(Sends(Busy(page, "deleting"), Call("remove", "documents", page.co, id, [open |-> open])))

DocumentsEvent ==
  /\ page.at = "documents"
  /\ \/ DebounceNumber
     \/ page.showCreate /\ (ToggleCreate \/ TypeNumber \/ CreateDocument)
     \/ page.cancelling # None /\ CancelDialog
     \/ page.deleting # None /\ DeleteDialog(page.deleting, FALSE)
     \/ /\ ~page.showCreate /\ page.cancelling = None /\ page.deleting = None
        /\ FilterDocuments \/ ToggleCreate \/ DuplicateRow \/ AskCancel \/ AskRemoval("documents")

DocumentsAnswered(p, c) ==
  LET ok == c.at = "done" IN
  CASE c.op = "next" /\ ok -> [p EXCEPT !.number = c.answer[1].number, !.numberError = FALSE]
    [] c.op = "check" -> Idle([p EXCEPT !.numberError = IF ok THEN c.answer # <<>> ELSE @], "checking")
    [] c.op = "create" /\ c.body.from = None ->
         Idle(IF ok THEN [p EXCEPT !.showCreate = FALSE, !.number = 0, !.numberError = FALSE] ELSE p, "creating")
    [] c.op = "update" -> Idle([p EXCEPT !.cancelling = None], "cancelling")
    [] c.op = "remove" -> Idle([p EXCEPT !.deleting = None], "deleting")
    [] OTHER -> p

-----------------------------------------------------------------------------
(* DocumentDetailPage.  It shows and acts on the store's current document. *)

DocumentPage(co, id) ==
  [at |-> "document", co |-> co, id |-> id, isEditing |-> FALSE, showSend |-> FALSE, deleting |-> None,
   busy |-> {}]

LoadDocument(p) == Sends(p, Fetch("documents", p.co, p.id))

Doc == store.current[1]
DocShown == ~store.loading.documents /\ store.current # <<>>

EditDocument ==
  \/ Doc.status = "DRAFT" /\ ~page.isEditing /\ Acts(Stay([page EXCEPT !.isEditing = TRUE]))
  \/ page.isEditing /\ Acts(Stay([page EXCEPT !.isEditing = FALSE]))
  \/ page.isEditing /\ \E name \in Names : Acts(Sends(page, Update("documents", page.co, Doc.id, [name |-> name])))

\* Bug: the button of a payment is shown as soon as a document may leave the company.
Offered_PaidFromDraft(status) ==
  IF status \in {"DRAFT", "SIGNED", "SENT", "VIEWED", "COMPLETED", "OVERDUE"} THEN {"PAID"} ELSE {}

\* The buttons of a status.  PATCH takes any status; they are what keeps a document
\* to the transitions.
Offered(status) ==
  CASE status = "DRAFT" -> {"PENDING_SIGNATURE", "SENT", "COMPLETED"}
    [] status = "PENDING_SIGNATURE" -> {"SIGNED", "COMPLETED"}
    [] status = "SIGNED" -> {"SENT", "COMPLETED"}
    [] status = "SENT" -> {"VIEWED", "PAID", "DRAFT"}
    [] status = "VIEWED" -> {"PAID", "DRAFT"}
    [] status = "OVERDUE" -> {"PAID", "CANCELLED"}
    [] status = "COMPLETED" -> {"PAID", "ARCHIVED"}
    [] OTHER -> {}

ChangeStatus ==
  \E s \in Offered(Doc.status) : Acts(Sends(page, Update("documents", page.co, Doc.id, [status |-> s])))

SendDialog ==
  \/ Acts(Stay([page EXCEPT !.showSend = FALSE]))
  \/ Free("sending") /\ Acts(Sends(Busy(page, "sending"), Call("send", "documents", page.co, Doc.id, NoBody)))

\* The PDF is made of the data the server has now, or of what is shown if it does
\* not answer.
GeneratePdf ==
  /\ Free("generating")
  /\ Acts(Sends(Busy(page, "generating"), Call("peek", "documents", page.co, Doc.id, [data |-> Doc.data])))

DocumentEvent ==
  /\ page.at = "document" /\ DocShown
  /\ IF page.showSend THEN SendDialog
     ELSE IF page.deleting # None THEN DeleteDialog(Doc.id, TRUE)
     ELSE \/ "status" \in scope.uses /\ (EditDocument \/ ChangeStatus)
          \/ GeneratePdf
          \/ Doc.pdf # NoData /\ Acts(Stay([page EXCEPT !.showSend = TRUE]))
          \/ MayCreate("documents") /\ Acts(Sends(page, Duplicate(page.co, Doc.id, TRUE)))
          \/ Acts(Stay([page EXCEPT !.deleting = Doc.id]))

\* Bug: the PDF goes to the document that is open when it has been made.
UploadPdf_OfOpen(c, data) ==
  Update("documents", c.co, IF store.current = <<>> THEN c.id ELSE Doc.id, [pdf |-> data])

UploadPdf(c, data) == Update("documents", c.co, c.id, [pdf |-> data])
IsPeek(c) == c.op = "peek" /\ c.kind = "documents"
IsUpload(c) == c.op = "update" /\ DOMAIN c.body = {"pdf"}
IsStatus(c) == c.op = "update" /\ DOMAIN c.body = {"status"}

\* What handleStatusChange and handleGeneratePdf do next, also when their page has
\* been left: after the change or the upload the document is fetched again.
PdfData(c) == IF c.at = "done" THEN c.answer[1].data ELSE c.body.data
DocumentThen(c) ==
  CASE IsPeek(c) /\ PdfData(c) # NoData -> <<Reading(UploadPdf(c, PdfData(c)))>>
    [] (IsUpload(c) \/ IsStatus(c)) /\ c.at = "done" -> <<[Fetch("documents", c.co, c.id) EXCEPT !.body = c.body]>>
    [] OTHER -> <<>>

\* isGenerating ends with the last of its calls; a fetch that ends another chain is
\* told from it by its body.
DocumentAnswered(p, c) ==
  LET ok == c.at = "done" IN
  CASE c.op = "update" /\ "name" \in DOMAIN c.body /\ ok -> [p EXCEPT !.isEditing = FALSE]
    [] c.op = "send" -> Idle(IF ok THEN [p EXCEPT !.showSend = FALSE] ELSE p, "sending")
    [] c.op = "remove" -> Idle([p EXCEPT !.deleting = None], "deleting")
    [] IsPeek(c) /\ PdfData(c) = NoData -> Idle(p, "generating")
    [] IsUpload(c) /\ ~ok -> Idle(p, "generating")
    [] c.op = "get" /\ "pdf" \in DOMAIN c.body -> Idle(p, "generating")
    [] OTHER -> p
=============================================================================
