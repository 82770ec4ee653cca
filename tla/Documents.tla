------------------------------ MODULE Documents ------------------------------
(***************************************************************************)
(* The documents service (backend/src/modules/documents).  HTTP handlers   *)
(* are processes over the `documents' and `document_signatures' tables and *)
(* the PDF files on disk: each starts with findById, awaits, and then acts *)
(* on what it read.  A second writer is the nightly overdue job.           *)
(*                                                                         *)
(* Every Prisma statement or transaction is one step.  A statement that    *)
(* finds its row gone, or that a foreign key rejects, ends the handler     *)
(* with an error and changes nothing.  The caller is an active member of   *)
(* the company (module Memberships has the memberships), document numbers  *)
(* are in module DocumentNumbering and plan limits in module PlanLimits.   *)
(***************************************************************************)
EXTENDS DocumentStatuses, Naturals, FiniteSets

CONSTANTS
  Docs,      \* document ids; cuids, never used twice
  Folders,   \* storage folders users/<uploader>/documents/<year>
  Marks,     \* ids of document_signatures rows
  Requests,  \* handler executions that can be in flight together
  Scopes,    \* what the behaviours of this instance do, see Scope
  NoDoc,     \* null in a column that refers to a document
  NoFile     \* null in pdfUrl

ASSUME NullsAreFresh == NoDoc \notin Docs /\ NoFile \notin Folders

VARIABLES
  live,      \* ids of the rows of the documents table
  issued,    \* ids ever given to a row
  row,       \* the columns of each row (Blank where there is none)
  marks,     \* documentId of each document_signatures row, NoDoc if none
  files,     \* PDFs on disk: <<folder, id>> is <folder>/<id>.pdf
  requests,  \* the handlers in flight
  overdue,   \* ids the overdue job has read and not yet written
  scope      \* of this behaviour; never changes

vars == <<live, issued, row, marks, files, requests, overdue, scope>>

\* The statuses that have a date column: sentAt, viewedAt, completedAt, paidAt.
Dated == {"SENT", "VIEWED", "COMPLETED", "PAID"}

DueDates == {"none", "future", "past"}
Keep == "keep"    \* a field the PATCH body leaves out

Row == [status : Statuses, dates : SUBSET Dated, pdfUrl : Folders \cup {NoFile},
        duplicatedFrom : Docs \cup {NoDoc}, dueDate : DueDates]

Blank == [status |-> "DRAFT", dates |-> {}, pdfUrl |-> NoFile,
          duplicatedFrom |-> NoDoc, dueDate |-> "none"]

\* "patchStatus": the body of PATCH :id may name a status, as the detail page's
\* does; "fail": handlers and the job can die between two awaits.
AllOps == {"create", "update", "patchStatus", "updateStatus", "remove", "send",
           "duplicate", "uploadPdf", "applySignature", "removeSignature",
           "overdueCron", "fail"}

\* A behaviour issues at most `docs' ids, and has at most `parallel' handlers in
\* flight; uploads go to `folders'.
Scope == [ops : SUBSET AllOps, docs : Nat, parallel : Nat, folders : SUBSET Folders]

ASSUME ScopesAreScopes == Scopes \subseteq Scope

Request == [op : AllOps \cup {"none"}, at : {"idle", "found", "stored", "removed"},
            doc : Docs \cup {NoDoc}, status : Statuses \cup {Keep},
            dueDate : DueDates \cup {Keep}, folder : Folders \cup {NoFile}]

Idle == [op |-> "none", at |-> "idle", doc |-> NoDoc, status |-> Keep,
         dueDate |-> Keep, folder |-> NoFile]

Init ==
  /\ live = {}
  /\ issued = {}
  /\ row = [d \in Docs |-> Blank]
  /\ marks = [m \in Marks |-> NoDoc]
  /\ files = {}
  /\ requests = [r \in Requests |-> Idle]
  /\ overdue = {}
  /\ scope \in Scopes

-----------------------------------------------------------------------------
(* Steps every handler is made of.                                         *)

\* findById has returned the row of d, and the handler awaits its next call.
Find(r, op, d, fields) ==
  /\ op \in scope.ops
  /\ requests[r].at = "idle"
  /\ Cardinality({q \in Requests : requests[q].at # "idle"}) < scope.parallel
  /\ d \in live
  /\ requests' = [requests EXCEPT ![r] =
       [op |-> op, at |-> "found", doc |-> d, status |-> fields.status,
        dueDate |-> fields.dueDate, folder |-> fields.folder]]
  /\ UNCHANGED <<live, issued, row, marks, files, overdue, scope>>

NoFields == [status |-> Keep, dueDate |-> Keep, folder |-> NoFile]

At(r, op, at) == requests[r].op = op /\ requests[r].at = at

Respond(r) == requests' = [requests EXCEPT ![r] = Idle]

Continue(r, at) == requests' = [requests EXCEPT ![r].at = at]

\* UPDATE documents ... WHERE id = d: P2025 when the row is gone.
WriteRow(d, new) ==
  row' = IF d \in live THEN [row EXCEPT ![d] = new] ELSE row

\* The storage provider overwrites a file and ignores a missing one.
Store(folder, d) == files' = files \cup {<<folder, d>>}
Delete(folder, d) == files' = files \ {<<folder, d>>}

\* Bug: the switch over the statuses forgets completedAt.
WithStatus_NoCompletedAt(rw, s) ==
  [rw EXCEPT !.status = s,
             !.dates = IF s \in Dated \ {"COMPLETED"} THEN @ \cup {s} ELSE @]

\* A status write sets the status and the date column it has.
WithStatus(rw, s) ==
  [rw EXCEPT !.status = s, !.dates = IF s \in Dated THEN @ \cup {s} ELSE @]

\* INSERT INTO documents: a new id, status DRAFT.
InsertRow(d, origin) ==
  /\ d \notin issued
  /\ Cardinality(issued) < scope.docs
  /\ live' = live \cup {d}
  /\ issued' = issued \cup {d}
  /\ row' = [row EXCEPT ![d] = [Blank EXCEPT !.duplicatedFrom = origin]]

-----------------------------------------------------------------------------
Create(d) ==
  /\ "create" \in scope.ops
  /\ InsertRow(d, NoDoc)
  /\ UNCHANGED <<marks, files, requests, overdue, scope>>

DuplicateFind(r, d) == Find(r, "duplicate", d, NoFields)

\* The foreign key duplicatedFromId rejects the copy of a removed original.
DuplicateInsert(r) ==
  LET origin == requests[r].doc IN
  /\ At(r, "duplicate", "found")
  /\ \/ origin \in live /\ \E d \in Docs : InsertRow(d, origin)
     \/ origin \notin live /\ UNCHANGED <<live, issued, row>>
  /\ Respond(r)
  /\ UNCHANGED <<marks, files, overdue, scope>>

\* PATCH :id takes any status of the enum; the transition map is not consulted.
PatchedStatuses == IF "patchStatus" \in scope.ops THEN Statuses \cup {Keep} ELSE {Keep}

UpdateFind(r, d) ==
  \E s \in PatchedStatuses, due \in DueDates \cup {Keep} :
    Find(r, "update", d, [status |-> s, dueDate |-> due, folder |-> NoFile])

UpdateWrite(r) ==
  LET q == requests[r]
      old == row[q.doc]
      moved == IF q.status = Keep THEN old ELSE WithStatus(old, q.status)
      new == IF q.dueDate = Keep THEN moved
                                 ELSE [moved EXCEPT !.dueDate = q.dueDate]
  IN /\ At(r, "update", "found")
     /\ WriteRow(q.doc, new)
     /\ Respond(r)
     /\ UNCHANGED <<live, issued, marks, files, overdue, scope>>

\* Bug: the transition map is not consulted.
UpdateStatusFind_Unchecked(r, d) ==
  \E s \in Statuses :
    Find(r, "updateStatus", d, [status |-> s, dueDate |-> Keep, folder |-> NoFile])

\* PATCH :id/status checks the map against the status findById returned ...
UpdateStatusFind(r, d) ==
  \E s \in Transitions[row[d].status] :
    Find(r, "updateStatus", d, [status |-> s, dueDate |-> Keep, folder |-> NoFile])

\* ... and writes the new status by id, whatever the status is by now.
UpdateStatusWrite(r) ==
  LET q == requests[r] IN
  /\ At(r, "updateStatus", "found")
  /\ WriteRow(q.doc, WithStatus(row[q.doc], q.status))
  /\ Respond(r)
  /\ UNCHANGED <<live, issued, marks, files, overdue, scope>>

UploadFind(r, d) ==
  \E f \in scope.folders :
    Find(r, "uploadPdf", d, [status |-> Keep, dueDate |-> Keep, folder |-> f])

\* Bug: the handler goes on to the row without waiting for the storage.
UploadStore_NotAwaited(r) ==
  /\ At(r, "uploadPdf", "found")
  /\ Continue(r, "stored")
  /\ UNCHANGED <<live, issued, row, marks, files, overdue, scope>>

UploadStore(r) ==
  /\ At(r, "uploadPdf", "found")
  /\ Store(requests[r].folder, requests[r].doc)
  /\ Continue(r, "stored")
  /\ UNCHANGED <<live, issued, row, marks, overdue, scope>>

\* Bug: the PDF that the new one replaces is cleaned up.
UploadWrite_CleansUp(r) ==
  LET q == requests[r] IN
  /\ At(r, "uploadPdf", "stored")
  /\ WriteRow(q.doc, [row[q.doc] EXCEPT !.pdfUrl = q.folder])
  /\ files' = {f \in files : f[2] # q.doc \/ f[1] = q.folder}
  /\ Respond(r)
  /\ UNCHANGED <<live, issued, marks, overdue, scope>>

UploadWrite(r) ==
  LET q == requests[r] IN
  /\ At(r, "uploadPdf", "stored")
  /\ WriteRow(q.doc, [row[q.doc] EXCEPT !.pdfUrl = q.folder])
  /\ Respond(r)
  /\ UNCHANGED <<live, issued, marks, files, overdue, scope>>

\* Bug: findById does not select pdfUrl.
RemoveFind_NoPdfUrl(r, d) == Find(r, "remove", d, NoFields)

RemoveFind(r, d) ==
  Find(r, "remove", d, [status |-> Keep, dueDate |-> Keep, folder |-> row[d].pdfUrl])

\* One transaction: the signatures, the copies' duplicatedFromId, the row.  The
\* foreign keys (cascade, set null) take whatever was inserted meanwhile.
RemoveRow(r) ==
  LET q == requests[r] IN
  /\ At(r, "remove", "found")
  /\ \/ /\ q.doc \in live
        /\ live' = live \ {q.doc}
        /\ marks' = [m \in Marks |-> IF marks[m] = q.doc THEN NoDoc ELSE marks[m]]
        /\ row' = [d \in Docs |->
             IF d = q.doc THEN Blank
             ELSE IF row[d].duplicatedFrom = q.doc
                  THEN [row[d] EXCEPT !.duplicatedFrom = NoDoc]
                  ELSE row[d]]
        /\ IF q.folder = NoFile THEN Respond(r) ELSE Continue(r, "removed")
     \/ /\ q.doc \notin live
        /\ Respond(r)
        /\ UNCHANGED <<live, marks, row>>
  /\ UNCHANGED <<issued, files, overdue, scope>>

\* Only the file named by the pdfUrl that findById returned is deleted.
RemoveFile(r) ==
  /\ At(r, "remove", "removed")
  /\ Delete(requests[r].folder, requests[r].doc)
  /\ Respond(r)
  /\ UNCHANGED <<live, issued, row, marks, overdue, scope>>

SendFind(r, d) ==
  /\ row[d].pdfUrl # NoFile
  /\ Find(r, "send", d, [status |-> Keep, dueDate |-> Keep, folder |-> row[d].pdfUrl])

\* storage.read throws when the file is missing; otherwise the mail goes out.
SendRead(r) ==
  /\ At(r, "send", "found")
  /\ Respond(r)
  /\ UNCHANGED <<live, issued, row, marks, files, overdue, scope>>

SignFind(r, d) == Find(r, "applySignature", d, NoFields)

\* Bug: document_signatures has no foreign key.
SignInsert_NoForeignKey(r) ==
  /\ At(r, "applySignature", "found")
  /\ \E m \in Marks :
       marks[m] = NoDoc /\ marks' = [marks EXCEPT ![m] = requests[r].doc]
  /\ Respond(r)
  /\ UNCHANGED <<live, issued, row, files, overdue, scope>>

SignInsert(r) ==
  LET d == requests[r].doc IN
  /\ At(r, "applySignature", "found")
  /\ \/ /\ d \in live
        /\ \E m \in Marks : marks[m] = NoDoc /\ marks' = [marks EXCEPT ![m] = d]
     \/ d \notin live /\ UNCHANGED marks
  /\ Respond(r)
  /\ UNCHANGED <<live, issued, row, files, overdue, scope>>

RemoveSignature(m) ==
  /\ "removeSignature" \in scope.ops
  /\ marks[m] # NoDoc
  /\ marks' = [marks EXCEPT ![m] = NoDoc]
  /\ UNCHANGED <<live, issued, row, files, requests, overdue, scope>>

-----------------------------------------------------------------------------
(* The overdue job: a findMany, then an updateMany of the ids it returned. *)

CronScan ==
  /\ "overdueCron" \in scope.ops
  /\ overdue = {}
  /\ overdue' = {d \in live : row[d].dueDate = "past"
                              /\ row[d].status \in {"SENT", "VIEWED"}}
  /\ UNCHANGED <<live, issued, row, marks, files, requests, scope>>

CronWrite ==
  /\ overdue # {}
  /\ row' = [d \in Docs |-> IF d \in overdue \cap live
                            THEN [row[d] EXCEPT !.status = "OVERDUE"]
                            ELSE row[d]]
  /\ overdue' = {}
  /\ UNCHANGED <<live, issued, marks, files, requests, scope>>

\* Midnight: the due date of d lies in the past from now on.
DueDatePasses(d) ==
  /\ d \in live
  /\ row[d].dueDate = "future"
  /\ row' = [row EXCEPT ![d].dueDate = "past"]
  /\ UNCHANGED <<live, issued, marks, files, requests, overdue, scope>>

\* A handler or the job ends between two awaits: an I/O error, or a restart.
Fail(r) ==
  /\ "fail" \in scope.ops
  /\ requests[r].at # "idle"
  /\ Respond(r)
  /\ UNCHANGED <<live, issued, row, marks, files, overdue, scope>>

CronFail ==
  /\ "fail" \in scope.ops
  /\ overdue # {}
  /\ overdue' = {}
  /\ UNCHANGED <<live, issued, row, marks, files, requests, scope>>

-----------------------------------------------------------------------------
Starts(r, d) ==
  \/ DuplicateFind(r, d)
  \/ UpdateFind(r, d)
  \/ UpdateStatusFind(r, d)
  \/ UploadFind(r, d)
  \/ RemoveFind(r, d)
  \/ SendFind(r, d)
  \/ SignFind(r, d)

Continues(r) ==
  \/ DuplicateInsert(r)
  \/ UpdateWrite(r)
  \/ UpdateStatusWrite(r)
  \/ UploadStore(r)
  \/ UploadWrite(r)
  \/ RemoveRow(r)
  \/ RemoveFile(r)
  \/ SendRead(r)
  \/ SignInsert(r)

Next ==
  \/ \E d \in Docs : Create(d)
  \/ \E r \in Requests, d \in Docs : Starts(r, d)
  \/ \E r \in Requests : Continues(r)
  \/ \E m \in Marks : RemoveSignature(m)
  \/ CronScan
  \/ CronWrite
  \/ \E d \in Docs : DueDatePasses(d)
  \/ \E r \in Requests : Fail(r)
  \/ CronFail

Spec == Init /\ [][Next]_vars

\* The abstract lifecycle of module DocumentLifecycle, read off the table.
\* It is read only where handlers run one at a time and no PATCH names a status.
Serial == /\ scope.parallel = 1
          /\ \E f \in Folders : scope.folders = {f}
          /\ scope.ops \cap {"patchStatus", "overdueCron", "fail"} = {}

Phase == [d \in Docs |-> IF ~Serial \/ d \notin issued THEN "NONE"
                         ELSE IF d \in live THEN row[d].status ELSE "REMOVED"]

Lifecycle == INSTANCE DocumentLifecycle WITH phase <- Phase

-----------------------------------------------------------------------------
\* Every variable has the type the schema and the handlers give it.
TypeOK ==
  /\ live \subseteq issued
  /\ issued \subseteq Docs
  /\ row \in [Docs -> Row]
  /\ marks \in [Marks -> Docs \cup {NoDoc}]
  /\ files \subseteq Folders \X Docs
  /\ requests \in [Requests -> Request]
  /\ overdue \subseteq Docs
  /\ scope \in Scopes

\* What the handlers in flight hold: the id of a row that was found, the folder
\* an upload writes to, the status a transition leads to.
HandlersOK ==
  \A r \in Requests :
    LET q == requests[r] IN
    /\ q.at # "idle" => q.doc \in issued
    /\ q.op = "uploadPdf" => q.folder \in Folders
    /\ q.op = "updateStatus" => q.status \in Statuses

TypeInv == TypeOK /\ HandlersOK

\* A document never points at a PDF that is not on disk: uploadPdf stores the
\* file before it writes pdfUrl, and remove deletes the row before the file.
PdfOnDisk ==
  \A d \in live : row[d].pdfUrl # NoFile => <<row[d].pdfUrl, d>> \in files

\* A send that has read pdfUrl finds the file as long as the document exists,
\* even when another upload has replaced pdfUrl meanwhile.
SendFindsFile ==
  \A r \in Requests :
    At(r, "send", "found") /\ requests[r].doc \in live
      => <<requests[r].folder, requests[r].doc>> \in files

\* Inductive form of PdfOnDisk and SendFindsFile: a stored upload of a document
\* that still exists is on disk, and a file is deleted after its document.
FilesInv ==
  /\ PdfOnDisk
  /\ SendFindsFile
  /\ \A r \in Requests :
       At(r, "uploadPdf", "stored") /\ requests[r].doc \in live
         => <<requests[r].folder, requests[r].doc>> \in files
  /\ \A r \in Requests : At(r, "remove", "removed") => requests[r].doc \notin live

\* A document in a status that has a date column has that date, whichever of
\* PATCH :id, PATCH :id/status and the overdue job wrote last.
StatusHasDate ==
  \A d \in live : row[d].status \in Dated => row[d].status \in row[d].dates

\* No row refers to a removed document: neither an applied signature nor a
\* copy's duplicatedFromId, with remove racing applySignature and duplicate.
NoDanglingReference ==
  /\ \A m \in Marks : marks[m] \in live \cup {NoDoc}
  /\ \A d \in live : row[d].duplicatedFrom \in live \cup {NoDoc}

\* "Valid status transitions map": a document moves only along the map.
LifecycleRespected ==
  [][\A d \in live \cap live' :
       row'[d].status # row[d].status
         => row'[d].status \in Transitions[row[d].status]]_vars

\* In the Serial scopes (handlers that run one at a time and never PATCH the
\* status, no overdue job between their awaits) the service implements the
\* abstract lifecycle.
ImplementsLifecycle == Lifecycle!Spec

\* With no handler in flight, a removed document has left no PDF behind ("Also
\* delete the PDF from storage if it exists"), in the Serial scopes; elsewhere a
\* crash leaves one, and so does a second upload under another folder.
NoOrphanPdf ==
  Serial /\ (\A r \in Requests : requests[r] = Idle)
    => \A f \in files : f[2] \in live

\* Inductive form of ImplementsLifecycle and NoOrphanPdf, for the Serial scopes: one
\* handler is in flight at most, so what it has read still holds when it writes ...
AtMostOne == \A r, s \in Requests : requests[r].at # "idle" /\ requests[s].at # "idle" => r = s

StillHolds(r) ==
  LET q == requests[r] IN
  /\ q.at = "idle" => q = Idle
  /\ q.op = "update" => q.status = Keep
  /\ q.op = "updateStatus" => q.doc \in live /\ q.status \in Transitions[row[q.doc].status]
  /\ q.op = "uploadPdf" => q.doc \in live /\ q.folder \in scope.folders
  /\ At(r, "remove", "found") => q.doc \in live /\ q.folder = row[q.doc].pdfUrl

\* ... and every file is the one its row names, or the handler that has just stored
\* it, or is about to delete it, knows of it.
Pending(r, f) ==
  /\ At(r, "uploadPdf", "stored") \/ At(r, "remove", "removed")
  /\ <<requests[r].folder, requests[r].doc>> = f

FilesAccounted ==
  \A f \in files : /\ f[1] \in scope.folders
                   /\ \/ f[2] \in live /\ row[f[2]].pdfUrl = f[1]
                      \/ \E r \in Requests : Pending(r, f)

SerialInv ==
  Serial => /\ overdue = {}
            /\ AtMostOne
            /\ \A r \in Requests : StillHolds(r)
            /\ FilesAccounted
=============================================================================
