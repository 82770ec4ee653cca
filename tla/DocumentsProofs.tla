--------------------------- MODULE DocumentsProofs ---------------------------
(***************************************************************************)
(* Proofs about Documents, for any number of documents, folders and        *)
(* handlers in flight and any set of operations.                           *)
(***************************************************************************)
EXTENDS Documents, FiniteSetTheorems, TLAPS

\* A status write leaves a row a row.
LEMMA WithStatusType ==
  ASSUME NEW rw \in Row, NEW s \in Statuses
  PROVE  /\ WithStatus(rw, s) \in Row
         /\ WithStatus(rw, s).status = s
         /\ s \in Dated => s \in WithStatus(rw, s).dates
         /\ WithStatus(rw, s).pdfUrl = rw.pdfUrl
         /\ WithStatus(rw, s).duplicatedFrom = rw.duplicatedFrom
BY DEF WithStatus, Row

LEMMA BlankType == Blank \in Row
BY DEF Blank, Row, Statuses, DueDates

LEMMA IdleType == Idle \in Request
BY DEF Idle, Request

LEMMA TransitionsType == Transitions \in [Statuses -> SUBSET Statuses]
BY DEF Transitions, Statuses

LEMMA TypeInit == Init => TypeInv
BY BlankType, IdleType DEF Init, TypeInv, TypeOK, HandlersOK, Idle

\* The handlers' first step changes `requests' only, and keeps its type.
LEMMA FindType ==
  ASSUME TypeInv, NEW r \in Requests, NEW op \in AllOps, NEW d \in Docs,
         NEW fields, fields.status \in Statuses \cup {Keep},
         fields.dueDate \in DueDates \cup {Keep}, fields.folder \in Folders \cup {NoFile},
         op = "uploadPdf" => fields.folder \in Folders,
         op = "updateStatus" => fields.status \in Statuses,
         Find(r, op, d, fields)
  PROVE  TypeInv'
BY DEF TypeInv, TypeOK, HandlersOK, Find, Request

LEMMA StartsType ==
  ASSUME TypeInv, NEW r \in Requests, NEW d \in Docs, Starts(r, d)
  PROVE  TypeInv'
<1>1. CASE DuplicateFind(r, d)
  BY <1>1, FindType DEF DuplicateFind, NoFields, AllOps
<1>2. CASE UpdateFind(r, d)
  BY <1>2, FindType DEF UpdateFind, PatchedStatuses, AllOps
<1>3. CASE UpdateStatusFind(r, d)
  BY <1>3, FindType, TransitionsType DEF UpdateStatusFind, AllOps, TypeInv, TypeOK, Row
<1>4. CASE UploadFind(r, d)
  <2>1. scope.folders \subseteq Folders
    BY ScopesAreScopes DEF TypeInv, TypeOK, Scope
  <2> QED BY <1>4, <2>1, FindType DEF UploadFind, AllOps
<1>5. CASE RemoveFind(r, d)
  BY <1>5, FindType DEF RemoveFind, AllOps, TypeInv, TypeOK, Row
<1>6. CASE SendFind(r, d)
  BY <1>6, FindType DEF SendFind, AllOps, TypeInv, TypeOK, Row
<1>7. CASE SignFind(r, d)
  BY <1>7, FindType DEF SignFind, NoFields, AllOps
<1> QED BY <1>1, <1>2, <1>3, <1>4, <1>5, <1>6, <1>7 DEF Starts

LEMMA InsertRowType ==
  ASSUME TypeOK, NEW d \in Docs, NEW o \in Docs \cup {NoDoc}, InsertRow(d, o)
  PROVE  /\ live' \subseteq issued'
         /\ issued' \subseteq Docs
         /\ issued \subseteq issued'
         /\ row' \in [Docs -> Row]
<1>1. [Blank EXCEPT !.duplicatedFrom = o] \in Row
  BY BlankType DEF Row
<1> QED BY <1>1 DEF TypeOK, InsertRow

LEMMA ContinuesType ==
  ASSUME TypeInv, NEW r \in Requests, Continues(r)
  PROVE  TypeInv'
<1> DEFINE q == requests[r]
<1>a. q \in Request /\ TypeOK /\ HandlersOK
  BY DEF TypeInv, TypeOK
<1>b. ASSUME Respond(r), issued \subseteq issued'
      PROVE  requests' \in [Requests -> Request] /\ HandlersOK'
  BY <1>a, <1>b, IdleType DEF Respond, TypeOK, HandlersOK, Idle
<1>c. ASSUME NEW at \in {"stored", "removed"}, Continue(r, at), q.at # "idle",
             UNCHANGED issued
      PROVE  requests' \in [Requests -> Request] /\ HandlersOK'
  BY <1>a, <1>c DEF Continue, TypeOK, Request, HandlersOK
<1>d. ASSUME NEW new, q.doc \in live => new \in Row, WriteRow(q.doc, new)
      PROVE  row' \in [Docs -> Row]
  BY <1>a, <1>d DEF WriteRow, TypeOK
<1>1. CASE DuplicateInsert(r)
  <2>1. CASE q.doc \in live
    <3>1. PICK d \in Docs : InsertRow(d, q.doc)
      BY <1>1, <2>1 DEF DuplicateInsert
    <3> QED
      BY <1>1, <1>a, <2>1, <3>1, <1>b, InsertRowType DEF DuplicateInsert, TypeOK, TypeInv
  <2>2. CASE q.doc \notin live
    BY <1>1, <1>a, <2>2, <1>b DEF DuplicateInsert, TypeOK, TypeInv
  <2> QED BY <2>1, <2>2
<1>2. CASE UpdateWrite(r)
  <2> DEFINE old == row[q.doc]
             moved == IF q.status = Keep THEN old ELSE WithStatus(old, q.status)
             new == IF q.dueDate = Keep THEN moved
                                        ELSE [moved EXCEPT !.dueDate = q.dueDate]
  <2>1. ASSUME q.doc \in live PROVE new \in Row
    <3>1. old \in Row
      BY <1>a, <2>1 DEF TypeOK
    <3>2. moved \in Row
      BY <3>1, <1>a, WithStatusType DEF Request
    <3> HIDE DEF moved
    <3> QED BY <3>2, <1>a DEF Request, Row
  <2>2. WriteRow(q.doc, new) /\ UNCHANGED <<live, issued, marks, files, overdue, scope>> /\ Respond(r)
    BY <1>2 DEF UpdateWrite
  <2> HIDE DEF new
  <2>3. row' \in [Docs -> Row]
    BY <2>1, <2>2, <1>d
  <2> QED BY <2>2, <2>3, <1>a, <1>b DEF TypeOK, TypeInv
<1>3. CASE UpdateStatusWrite(r)
  <2>1. ASSUME q.doc \in live PROVE WithStatus(row[q.doc], q.status) \in Row
    BY <1>3, <1>a, <2>1, WithStatusType DEF UpdateStatusWrite, At, HandlersOK, TypeOK
  <2> QED BY <1>3, <2>1, <1>a, <1>b, <1>d DEF UpdateStatusWrite, TypeOK, TypeInv
<1>4. CASE UploadStore(r)
  <2>1. q.folder \in Folders /\ q.doc \in Docs
    BY <1>4, <1>a DEF UploadStore, At, HandlersOK, TypeOK
  <2> QED BY <1>4, <2>1, <1>a, <1>c DEF UploadStore, Store, At, TypeOK, TypeInv
<1>5. CASE UploadWrite(r)
  <2>1. ASSUME q.doc \in live PROVE [row[q.doc] EXCEPT !.pdfUrl = q.folder] \in Row
    BY <2>1, <1>a DEF TypeOK, Request, Row
  <2> QED BY <1>5, <2>1, <1>a, <1>b, <1>d DEF UploadWrite, TypeOK, TypeInv
<1>6. CASE RemoveRow(r)
  <2>1. UNCHANGED issued /\ requests' \in [Requests -> Request] /\ HandlersOK'
    BY <1>6, <1>a, <1>b, <1>c DEF RemoveRow, At
  <2>2. CASE q.doc \in live
    <3>1. ASSUME NEW d \in Docs PROVE [row[d] EXCEPT !.duplicatedFrom = NoDoc] \in Row
      BY <1>a DEF TypeOK, Row
    <3>2. row' \in [Docs -> Row]
      BY <1>6, <1>a, <2>2, <3>1, BlankType DEF RemoveRow, TypeOK
    <3> QED BY <1>6, <1>a, <2>1, <2>2, <3>2 DEF RemoveRow, TypeOK, TypeInv
  <2>3. CASE q.doc \notin live
    BY <1>6, <1>a, <2>1, <2>3 DEF RemoveRow, TypeOK, TypeInv
  <2> QED BY <2>2, <2>3
<1>7. CASE RemoveFile(r)
  BY <1>7, <1>a, <1>b DEF RemoveFile, Delete, TypeOK, TypeInv
<1>8. CASE SendRead(r)
  BY <1>8, <1>a, <1>b DEF SendRead, TypeOK, TypeInv
<1>9. CASE SignInsert(r)
  <2>1. q.doc \in live => q.doc \in Docs
    BY <1>a DEF TypeOK
  <2> QED BY <1>9, <2>1, <1>a, <1>b DEF SignInsert, TypeOK, TypeInv
<1> QED BY <1>1, <1>2, <1>3, <1>4, <1>5, <1>6, <1>7, <1>8, <1>9 DEF Continues

LEMMA TypeStep == TypeInv /\ [Next]_vars => TypeInv'
<1> SUFFICES ASSUME TypeInv, [Next]_vars PROVE TypeInv'
  OBVIOUS
<1>1. ASSUME NEW d \in Docs, Create(d) PROVE TypeInv'
  BY <1>1, InsertRowType DEF Create, TypeInv, TypeOK, HandlersOK
<1>2. ASSUME NEW r \in Requests, NEW d \in Docs, Starts(r, d) PROVE TypeInv'
  BY <1>2, StartsType
<1>3. ASSUME NEW r \in Requests, Continues(r) PROVE TypeInv'
  BY <1>3, ContinuesType
<1>4. ASSUME NEW m \in Marks, RemoveSignature(m) PROVE TypeInv'
  BY <1>4 DEF RemoveSignature, TypeInv, TypeOK, HandlersOK
<1>5. CASE CronScan
  BY <1>5 DEF CronScan, TypeInv, TypeOK, HandlersOK
<1>6. CASE CronWrite
  <2>1. ASSUME NEW d \in Docs PROVE [row[d] EXCEPT !.status = "OVERDUE"] \in Row
    BY DEF TypeInv, TypeOK, Row, Statuses
  <2> QED BY <1>6, <2>1 DEF CronWrite, TypeInv, TypeOK, HandlersOK
<1>7. ASSUME NEW d \in Docs, DueDatePasses(d) PROVE TypeInv'
  <2>1. [row[d] EXCEPT !.dueDate = "past"] \in Row
    BY DEF TypeInv, TypeOK, Row, DueDates
  <2> QED BY <1>7, <2>1 DEF DueDatePasses, TypeInv, TypeOK, HandlersOK
<1>8. ASSUME NEW r \in Requests, Fail(r) PROVE TypeInv'
  BY <1>8, IdleType DEF Fail, Respond, TypeInv, TypeOK, HandlersOK, Idle
<1>9. CASE CronFail
  BY <1>9 DEF CronFail, TypeInv, TypeOK, HandlersOK
<1>10. CASE UNCHANGED vars
  BY <1>10 DEF vars, TypeInv, TypeOK, HandlersOK
<1> QED BY <1>1, <1>2, <1>3, <1>4, <1>5, <1>6, <1>7, <1>8, <1>9, <1>10 DEF Next

LEMMA TypeInvariant == Spec => []TypeInv
BY TypeInit, TypeStep, PTL DEF Spec

\* Every variable keeps its type, whatever the handlers and the job do.
THEOREM TypeCorrect == Spec => []TypeOK
BY TypeInvariant, PTL DEF TypeInv

-----------------------------------------------------------------------------
(* Files.  Every step falls under one of three cases: it leaves the rows'  *)
(* pdfUrl, the files and the finished uploads alone; it inserts a row; or  *)
(* it is one of the steps of an upload or a removal.                       *)

\* A step that keeps files, adds no row, keeps every pdfUrl, and ends or starts
\* one handler other than an upload keeps FilesInv.
LEMMA FilesKept ==
  ASSUME TypeInv, FilesInv, live' \subseteq live, UNCHANGED files,
         \A d \in live' : row'[d].pdfUrl = row[d].pdfUrl,
         \A r \in Requests : \/ requests'[r] = requests[r]
                             \/ requests'[r].at = "idle"
                             \/ /\ requests'[r].at = "found"
                                /\ requests'[r].op = "send"
                                     => /\ requests'[r].doc \in live
                                        /\ row[requests'[r].doc].pdfUrl # NoFile
                                        /\ requests'[r].folder = row[requests'[r].doc].pdfUrl
  PROVE  FilesInv'
<1>1. PdfOnDisk'
  BY DEF FilesInv, PdfOnDisk
<1>2. SendFindsFile'
  <2> SUFFICES ASSUME NEW r \in Requests, At(r, "send", "found")', (requests[r].doc \in live)'
               PROVE  (<<requests[r].folder, requests[r].doc>> \in files)'
    BY DEF SendFindsFile
  <2>1. CASE requests'[r] = requests[r]
    BY <2>1 DEF FilesInv, SendFindsFile, At
  <2>2. CASE requests'[r] # requests[r]
    BY <2>2 DEF FilesInv, PdfOnDisk, At
  <2> QED BY <2>1, <2>2
<1>3. (\A r \in Requests :
         At(r, "uploadPdf", "stored") /\ requests[r].doc \in live
           => <<requests[r].folder, requests[r].doc>> \in files)'
  BY DEF FilesInv, At
<1>4. (\A r \in Requests : At(r, "remove", "removed") => requests[r].doc \notin live)'
  BY DEF FilesInv, At
<1> QED BY <1>1, <1>2, <1>3, <1>4 DEF FilesInv

LEMMA FilesInsert ==
  ASSUME TypeInv, FilesInv, NEW d \in Docs, NEW o, InsertRow(d, o), UNCHANGED files,
         \A r \in Requests : requests'[r] = requests[r] \/ requests'[r].at = "idle"
  PROVE  FilesInv'
<1>1. /\ live' = live \cup {d} /\ d \notin live
      /\ \A e \in live : row'[e] = row[e]
      /\ row'[d].pdfUrl = NoFile
  BY DEF InsertRow, Blank, TypeInv, TypeOK
<1>2. \A r \in Requests : requests[r].at # "idle" => requests[r].doc # d
  BY DEF InsertRow, TypeInv, HandlersOK
<1>3. PdfOnDisk'
  BY <1>1 DEF FilesInv, PdfOnDisk
<1>4. SendFindsFile'
  BY <1>1, <1>2 DEF FilesInv, SendFindsFile, At
<1> QED BY <1>1, <1>2, <1>3, <1>4 DEF FilesInv, At

LEMMA FilesStarts ==
  ASSUME TypeInv, FilesInv, NEW r \in Requests, NEW d \in Docs, Starts(r, d)
  PROVE  FilesInv'
<1>1. ASSUME NEW op, NEW fields, Find(r, op, d, fields),
             op = "send" => /\ row[d].pdfUrl # NoFile
                            /\ fields.folder = row[d].pdfUrl
      PROVE  FilesInv'
  BY <1>1, FilesKept DEF Find, TypeInv, TypeOK
<1>2. CASE SendFind(r, d)
  BY <1>1, <1>2 DEF SendFind
<1>3. CASE ~SendFind(r, d)
  BY <1>1, <1>3 DEF Starts, DuplicateFind, UpdateFind, UpdateStatusFind, UploadFind,
     RemoveFind, SignFind
<1> QED BY <1>2, <1>3

LEMMA FilesContinues ==
  ASSUME TypeInv, FilesInv, NEW r \in Requests, Continues(r)
  PROVE  FilesInv'
<1> DEFINE q == requests[r]
<1>a. ASSUME Respond(r)
      PROVE  \A s \in Requests : requests'[s] = requests[s] \/ requests'[s].at = "idle"
  BY <1>a DEF Respond, Idle, TypeInv, TypeOK
<1>b. ASSUME Respond(r), UNCHANGED <<live, files>>, NEW new, WriteRow(q.doc, new),
             q.doc \in live => new.pdfUrl = row[q.doc].pdfUrl
      PROVE  FilesInv'
  BY <1>b, <1>a, FilesKept DEF WriteRow, TypeInv, TypeOK
<1>1. CASE DuplicateInsert(r)
  <2>1. CASE \E d \in Docs : InsertRow(d, q.doc)
    BY <1>1, <1>a, <2>1, FilesInsert DEF DuplicateInsert
  <2>2. CASE UNCHANGED <<live, issued, row>>
    BY <1>1, <1>a, <2>2, FilesKept DEF DuplicateInsert
  <2> QED BY <1>1, <2>1, <2>2 DEF DuplicateInsert
<1>2. CASE UpdateWrite(r)
  <2> DEFINE old == row[q.doc]
             moved == IF q.status = Keep THEN old ELSE WithStatus(old, q.status)
             new == IF q.dueDate = Keep THEN moved
                                        ELSE [moved EXCEPT !.dueDate = q.dueDate]
  <2>1. q.doc \in live => new.pdfUrl = old.pdfUrl
    BY WithStatusType DEF TypeInv, TypeOK, Request, Row
  <2>2. WriteRow(q.doc, new) /\ UNCHANGED <<live, files>> /\ Respond(r)
    BY <1>2 DEF UpdateWrite
  <2> HIDE DEF new
  <2> QED BY <2>1, <2>2, <1>b
<1>3. CASE UpdateStatusWrite(r)
  <2>1. q.doc \in live => WithStatus(row[q.doc], q.status).pdfUrl = row[q.doc].pdfUrl
    BY <1>3, WithStatusType DEF UpdateStatusWrite, At, TypeInv, TypeOK, HandlersOK
  <2> QED BY <1>3, <2>1, <1>b DEF UpdateStatusWrite
<1>4. CASE UploadStore(r)
  <2>1. /\ UNCHANGED <<live, row>>
        /\ files' = files \cup {<<q.folder, q.doc>>}
        /\ requests'[r].folder = q.folder /\ requests'[r].doc = q.doc
        /\ requests'[r].op = "uploadPdf" /\ requests'[r].at = "stored"
        /\ \A s \in Requests \ {r} : requests'[s] = requests[s]
    BY <1>4 DEF UploadStore, Store, Continue, At, TypeInv, TypeOK, Request
  <2>2. PdfOnDisk' /\ SendFindsFile'
    BY <2>1 DEF FilesInv, PdfOnDisk, SendFindsFile, At
  <2> QED BY <2>1, <2>2 DEF FilesInv, At
<1>5. CASE UploadWrite(r)
  <2>1. /\ UNCHANGED <<live, files>>
        /\ \A d \in live : row'[d].pdfUrl = IF d = q.doc THEN q.folder ELSE row[d].pdfUrl
        /\ \A s \in Requests : requests'[s] = requests[s] \/ requests'[s].at = "idle"
        /\ q.doc \in live => <<q.folder, q.doc>> \in files
    BY <1>5, <1>a DEF UploadWrite, WriteRow, FilesInv, TypeInv, TypeOK, Row
  <2>2. PdfOnDisk' /\ SendFindsFile'
    BY <2>1 DEF FilesInv, PdfOnDisk, SendFindsFile, At
  <2> QED BY <2>1, <2>2 DEF FilesInv, At
<1>6. CASE RemoveRow(r)
  <2>1. CASE q.doc \in live
    <3>1. /\ live' = live \ {q.doc} /\ UNCHANGED files
          /\ \A d \in live' : row'[d].pdfUrl = row[d].pdfUrl
      BY <1>6, <2>1 DEF RemoveRow, TypeInv, TypeOK, Row
    <3>2. /\ \A s \in Requests \ {r} : requests'[s] = requests[s]
          /\ \/ requests'[r].at = "idle"
             \/ requests'[r] = [q EXCEPT !.at = "removed"]
      BY <1>6 DEF RemoveRow, Respond, Continue, Idle, TypeInv, TypeOK
    <3>3. requests'[r].at = "idle" \/ (requests'[r].op = "remove"
            /\ requests'[r].doc = q.doc /\ requests'[r].at = "removed")
      BY <1>6, <3>2 DEF RemoveRow, At, TypeInv, TypeOK, Request
    <3>4. PdfOnDisk' /\ SendFindsFile'
      BY <3>1, <3>2, <3>3 DEF FilesInv, PdfOnDisk, SendFindsFile, At
    <3> QED BY <3>1, <3>2, <3>3, <3>4 DEF FilesInv, At
  <2>2. CASE q.doc \notin live
    BY <1>6, <1>a, <2>2, FilesKept DEF RemoveRow
  <2> QED BY <2>1, <2>2
<1>7. CASE RemoveFile(r)
  <2>1. /\ UNCHANGED <<live, row>> /\ q.doc \notin live
        /\ files' = files \ {<<q.folder, q.doc>>}
        /\ \A s \in Requests : requests'[s] = requests[s] \/ requests'[s].at = "idle"
    BY <1>7, <1>a DEF RemoveFile, Delete, FilesInv
  <2>2. PdfOnDisk' /\ SendFindsFile'
    BY <2>1 DEF FilesInv, PdfOnDisk, SendFindsFile, At
  <2> QED BY <2>1, <2>2 DEF FilesInv, At
<1>8. CASE SendRead(r)
  BY <1>8, <1>a, FilesKept DEF SendRead
<1>9. CASE SignInsert(r)
  BY <1>9, <1>a, FilesKept DEF SignInsert
<1> QED BY <1>1, <1>2, <1>3, <1>4, <1>5, <1>6, <1>7, <1>8, <1>9 DEF Continues

LEMMA FilesStep == TypeInv /\ FilesInv /\ [Next]_vars => FilesInv'
<1> SUFFICES ASSUME TypeInv, FilesInv, [Next]_vars PROVE FilesInv'
  OBVIOUS
<1>1. ASSUME NEW d \in Docs, Create(d) PROVE FilesInv'
  BY <1>1, FilesInsert DEF Create
<1>2. ASSUME NEW r \in Requests, NEW d \in Docs, Starts(r, d) PROVE FilesInv'
  BY <1>2, FilesStarts
<1>3. ASSUME NEW r \in Requests, Continues(r) PROVE FilesInv'
  BY <1>3, FilesContinues
<1>4. ASSUME NEW m \in Marks, RemoveSignature(m) PROVE FilesInv'
  BY <1>4, FilesKept DEF RemoveSignature
<1>5. CASE CronScan \/ CronFail
  BY <1>5, FilesKept DEF CronScan, CronFail
<1>6. CASE CronWrite
  BY <1>6, FilesKept DEF CronWrite, TypeInv, TypeOK, Row
<1>7. ASSUME NEW d \in Docs, DueDatePasses(d) PROVE FilesInv'
  BY <1>7, FilesKept DEF DueDatePasses, TypeInv, TypeOK, Row
<1>8. ASSUME NEW r \in Requests, Fail(r) PROVE FilesInv'
  BY <1>8, FilesKept DEF Fail, Respond, Idle, TypeInv, TypeOK
<1>9. CASE UNCHANGED vars
  BY <1>9, FilesKept DEF vars
<1> QED BY <1>1, <1>2, <1>3, <1>4, <1>5, <1>6, <1>7, <1>8, <1>9 DEF Next

LEMMA FilesInvariant == Spec => []FilesInv
<1>1. Init => FilesInv
  BY DEF Init, FilesInv, PdfOnDisk, SendFindsFile, At, Idle
<1> QED BY <1>1, FilesStep, TypeInvariant, PTL DEF Spec

\* A document never points at a missing PDF, with any number of uploads,
\* removals and failures interleaved.
THEOREM PdfAlwaysOnDisk == Spec => []PdfOnDisk
BY FilesInvariant, PTL DEF FilesInv

\* A send in flight finds its PDF while the document exists.
THEOREM SendAlwaysFindsFile == Spec => []SendFindsFile
BY FilesInvariant, PTL DEF FilesInv

-----------------------------------------------------------------------------
(* References between rows, and dates.                                     *)

LEMMA ReferencesStep == TypeInv /\ NoDanglingReference /\ [Next]_vars => NoDanglingReference'
<1> SUFFICES ASSUME TypeInv, NoDanglingReference, [Next]_vars PROVE NoDanglingReference'
  OBVIOUS
<1> USE DEF NoDanglingReference, TypeInv, TypeOK
<1>a. ASSUME NEW d \in Docs, NEW o \in live \cup {NoDoc}, InsertRow(d, o), UNCHANGED marks
      PROVE  NoDanglingReference'
  BY <1>a DEF InsertRow, Blank
<1>b. ASSUME NEW d, NEW new, WriteRow(d, new), UNCHANGED <<live, marks>>,
             d \in live => new.duplicatedFrom = row[d].duplicatedFrom
      PROVE  NoDanglingReference'
  BY <1>b DEF WriteRow
<1>1. ASSUME NEW d \in Docs, Create(d) PROVE NoDanglingReference'
  BY <1>1, <1>a DEF Create
<1>2. ASSUME NEW r \in Requests, NEW d \in Docs, Starts(r, d) PROVE NoDanglingReference'
  BY <1>2 DEF Starts, Find, DuplicateFind, UpdateFind, UpdateStatusFind, UploadFind,
     RemoveFind, SendFind, SignFind
<1>3. ASSUME NEW r \in Requests, Continues(r) PROVE NoDanglingReference'
  <2> DEFINE q == requests[r]
  <2>1. CASE DuplicateInsert(r)
    BY <1>a, <2>1 DEF DuplicateInsert
  <2>2. CASE UpdateWrite(r)
    <3> DEFINE old == row[q.doc]
               moved == IF q.status = Keep THEN old ELSE WithStatus(old, q.status)
               new == IF q.dueDate = Keep THEN moved
                                          ELSE [moved EXCEPT !.dueDate = q.dueDate]
    <3>1. q.doc \in live => new.duplicatedFrom = old.duplicatedFrom
      BY WithStatusType DEF Request, Row
    <3>2. WriteRow(q.doc, new) /\ UNCHANGED <<live, marks>>
      BY <2>2 DEF UpdateWrite
    <3> HIDE DEF new
    <3> QED BY <3>1, <3>2, <1>b
  <2>3. CASE UpdateStatusWrite(r)
    <3>1. q.doc \in live
            => WithStatus(row[q.doc], q.status).duplicatedFrom = row[q.doc].duplicatedFrom
      BY <2>3, WithStatusType DEF UpdateStatusWrite, At, HandlersOK
    <3> QED BY <2>3, <3>1, <1>b DEF UpdateStatusWrite
  <2>4. CASE UploadWrite(r)
    <3>1. q.doc \in live => [row[q.doc] EXCEPT !.pdfUrl = q.folder].duplicatedFrom
                            = row[q.doc].duplicatedFrom
      BY DEF Row
    <3> QED BY <2>4, <3>1, <1>b DEF UploadWrite
  <2>5. CASE RemoveRow(r)
    <3>1. CASE q.doc \in live
      BY <2>5, <3>1, NullsAreFresh DEF RemoveRow, Row
    <3>2. CASE q.doc \notin live
      BY <2>5, <3>2 DEF RemoveRow
    <3> QED BY <3>1, <3>2
  <2>6. CASE SignInsert(r)
    BY <2>6 DEF SignInsert
  <2>7. CASE UploadStore(r) \/ RemoveFile(r) \/ SendRead(r)
    BY <2>7 DEF UploadStore, RemoveFile, SendRead
  <2> QED BY <1>3, <2>1, <2>2, <2>3, <2>4, <2>5, <2>6, <2>7 DEF Continues
<1>4. ASSUME NEW m \in Marks, RemoveSignature(m) PROVE NoDanglingReference'
  BY <1>4 DEF RemoveSignature
<1>5. CASE CronScan \/ CronFail
  BY <1>5 DEF CronScan, CronFail
<1>6. CASE CronWrite
  BY <1>6 DEF CronWrite, Row
<1>7. ASSUME NEW d \in Docs, DueDatePasses(d) PROVE NoDanglingReference'
  BY <1>7 DEF DueDatePasses, Row
<1>8. ASSUME NEW r \in Requests, Fail(r) PROVE NoDanglingReference'
  BY <1>8 DEF Fail
<1>9. CASE UNCHANGED vars
  BY <1>9 DEF vars
<1> QED BY <1>1, <1>2, <1>3, <1>4, <1>5, <1>6, <1>7, <1>8, <1>9 DEF Next

\* No applied signature and no copy refers to a removed document, however remove,
\* applySignature and duplicate interleave.
THEOREM ReferencesNeverDangle == Spec => []NoDanglingReference
<1>1. Init => NoDanglingReference
  BY DEF Init, NoDanglingReference
<1> QED BY <1>1, ReferencesStep, TypeInvariant, PTL DEF Spec

LEMMA DatesStep == TypeInv /\ StatusHasDate /\ [Next]_vars => StatusHasDate'
<1> SUFFICES ASSUME TypeInv, StatusHasDate, [Next]_vars PROVE StatusHasDate'
  OBVIOUS
<1> USE DEF StatusHasDate, TypeInv, TypeOK
<1>a. ASSUME NEW d \in Docs, NEW o, InsertRow(d, o) PROVE StatusHasDate'
  BY <1>a DEF InsertRow, Blank, Dated
<1>b. ASSUME NEW d, NEW new, WriteRow(d, new), UNCHANGED live,
             d \in live /\ new.status \in Dated => new.status \in new.dates
      PROVE  StatusHasDate'
  BY <1>b DEF WriteRow
<1>1. ASSUME NEW d \in Docs, Create(d) PROVE StatusHasDate'
  BY <1>1, <1>a DEF Create
<1>2. ASSUME NEW r \in Requests, NEW d \in Docs, Starts(r, d) PROVE StatusHasDate'
  BY <1>2 DEF Starts, Find, DuplicateFind, UpdateFind, UpdateStatusFind, UploadFind,
     RemoveFind, SendFind, SignFind
<1>3. ASSUME NEW r \in Requests, Continues(r) PROVE StatusHasDate'
  <2> DEFINE q == requests[r]
  <2>1. CASE DuplicateInsert(r)
    BY <1>a, <2>1 DEF DuplicateInsert
  <2>2. CASE UpdateWrite(r)
    <3> DEFINE old == row[q.doc]
               moved == IF q.status = Keep THEN old ELSE WithStatus(old, q.status)
               new == IF q.dueDate = Keep THEN moved
                                          ELSE [moved EXCEPT !.dueDate = q.dueDate]
    <3>1. q.doc \in live => moved \in Row /\ (moved.status \in Dated => moved.status \in moved.dates)
      BY WithStatusType DEF Request
    <3> HIDE DEF moved
    <3>2. q.doc \in live /\ new.status \in Dated => new.status \in new.dates
      BY <3>1 DEF Row
    <3> USE DEF moved
    <3>3. WriteRow(q.doc, new) /\ UNCHANGED live
      BY <2>2 DEF UpdateWrite
    <3> HIDE DEF new
    <3> QED BY <3>2, <3>3, <1>b
  <2>3. CASE UpdateStatusWrite(r)
    <3> DEFINE new == WithStatus(row[q.doc], q.status)
    <3>1. q.doc \in live /\ new.status \in Dated => new.status \in new.dates
      BY <2>3, WithStatusType DEF UpdateStatusWrite, At, HandlersOK
    <3>2. WriteRow(q.doc, new) /\ UNCHANGED live
      BY <2>3 DEF UpdateStatusWrite
    <3> HIDE DEF new
    <3> QED BY <3>1, <3>2, <1>b
  <2>4. CASE UploadWrite(r)
    <3> DEFINE new == [row[q.doc] EXCEPT !.pdfUrl = q.folder]
    <3>1. q.doc \in live => new.status = row[q.doc].status /\ new.dates = row[q.doc].dates
      BY DEF Row
    <3>2. WriteRow(q.doc, new) /\ UNCHANGED live
      BY <2>4 DEF UploadWrite
    <3> HIDE DEF new
    <3> QED BY <3>1, <3>2, <1>b
  <2>5. CASE RemoveRow(r)
    <3>1. CASE q.doc \in live
      BY <2>5, <3>1 DEF RemoveRow, Row
    <3>2. CASE q.doc \notin live
      BY <2>5, <3>2 DEF RemoveRow
    <3> QED BY <3>1, <3>2
  <2>6. CASE UploadStore(r) \/ RemoveFile(r) \/ SendRead(r) \/ SignInsert(r)
    BY <2>6 DEF UploadStore, RemoveFile, SendRead, SignInsert
  <2> QED BY <1>3, <2>1, <2>2, <2>3, <2>4, <2>5, <2>6 DEF Continues
<1>4. ASSUME NEW m \in Marks, RemoveSignature(m) PROVE StatusHasDate'
  BY <1>4 DEF RemoveSignature
<1>5. CASE CronScan \/ CronFail
  BY <1>5 DEF CronScan, CronFail
<1>6. CASE CronWrite
  BY <1>6 DEF CronWrite, Row, Dated
<1>7. ASSUME NEW d \in Docs, DueDatePasses(d) PROVE StatusHasDate'
  BY <1>7 DEF DueDatePasses, Row
<1>8. ASSUME NEW r \in Requests, Fail(r) PROVE StatusHasDate'
  BY <1>8 DEF Fail
<1>9. CASE UNCHANGED vars
  BY <1>9 DEF vars
<1> QED BY <1>1, <1>2, <1>3, <1>4, <1>5, <1>6, <1>7, <1>8, <1>9 DEF Next

\* The date columns follow the status, whichever writer comes last.
THEOREM StatusAlwaysHasDate == Spec => []StatusHasDate
<1>1. Init => StatusHasDate
  BY DEF Init, StatusHasDate
<1> QED BY <1>1, DatesStep, TypeInvariant, PTL DEF Spec

-----------------------------------------------------------------------------
(* The Serial scopes: the abstract lifecycle and the PDFs left behind.       *)

SerialFacts ==
  /\ overdue = {}
  /\ AtMostOne
  /\ \A r \in Requests : StillHolds(r)
  /\ FilesAccounted

LEMMA StartsKeep ==
  ASSUME NEW r \in Requests, NEW d \in Docs, Starts(r, d)
  PROVE  UNCHANGED <<live, issued, row, marks, files, overdue, scope>>
BY DEF Starts, Find, DuplicateFind, UpdateFind, UpdateStatusFind, UploadFind, RemoveFind,
       SendFind, SignFind

LEMMA ScopeKept == [Next]_vars => UNCHANGED scope
<1>1. ASSUME NEW r \in Requests, Continues(r) PROVE UNCHANGED scope
  BY <1>1 DEF Continues, DuplicateInsert, UpdateWrite, UpdateStatusWrite, UploadStore,
              UploadWrite, RemoveRow, RemoveFile, SendRead, SignInsert
<1> QED
  BY <1>1, StartsKeep
     DEF Next, vars, Create, RemoveSignature, CronScan, CronWrite, DueDatePasses, Fail, CronFail

LEMMA SerialInit == Init => SerialInv
BY DEF Init, SerialInv, AtMostOne, StillHolds, FilesAccounted, Idle, At

\* A handler that is found idle when another may start is alone.
LEMMA AllIdle ==
  ASSUME TypeInv, SerialFacts, Serial,
         Cardinality({q \in Requests : requests[q].at # "idle"}) < scope.parallel
  PROVE  \A q \in Requests : requests[q] = Idle
<1> DEFINE busy == {q \in Requests : requests[q].at # "idle"}
<1>1. ASSUME NEW q \in busy PROVE FALSE
  <2>1. busy = {q}
    BY <1>1 DEF SerialFacts, AtMostOne
  <2>2. Cardinality(busy) = 1
    BY <2>1, FS_Singleton
  <2> QED BY <2>2 DEF Serial
<1> QED BY <1>1 DEF SerialFacts, StillHolds

LEMMA SerialFind ==
  ASSUME TypeInv, SerialFacts, Serial, NEW r \in Requests, NEW d \in Docs, NEW op, NEW fields,
         op = "update" => fields.status = Keep,
         op = "updateStatus" => fields.status \in Transitions[row[d].status],
         op = "uploadPdf" => fields.folder \in scope.folders,
         op = "remove" => fields.folder = row[d].pdfUrl,
         Find(r, op, d, fields)
  PROVE  SerialFacts'
<1>1. \A q \in Requests : requests[q] = Idle
  BY AllIdle DEF Find
<1>2. /\ requests' = [requests EXCEPT ![r] =
             [op |-> op, at |-> "found", doc |-> d, status |-> fields.status,
              dueDate |-> fields.dueDate, folder |-> fields.folder]]
      /\ d \in live /\ UNCHANGED <<live, row, files, overdue, scope>>
  BY DEF Find
<1>3. /\ requests'[r].op = op /\ requests'[r].at = "found" /\ requests'[r].doc = d
      /\ requests'[r].status = fields.status /\ requests'[r].folder = fields.folder
      /\ \A q \in Requests \ {r} : requests'[q] = Idle
  BY <1>1, <1>2 DEF TypeInv, TypeOK
<1>4. AtMostOne'
  BY <1>3 DEF AtMostOne, Idle
<1>5. \A q \in Requests : StillHolds(q)'
  BY <1>2, <1>3 DEF StillHolds, Idle, At
<1>6. FilesAccounted'
  BY <1>1, <1>2 DEF SerialFacts, FilesAccounted, Pending, At, Idle
<1> QED BY <1>2, <1>4, <1>5, <1>6 DEF SerialFacts

LEMMA SerialStarts ==
  ASSUME TypeInv, SerialFacts, Serial, NEW r \in Requests, NEW d \in Docs, Starts(r, d)
  PROVE  SerialFacts'
<1>1. CASE DuplicateFind(r, d)
  BY <1>1, SerialFind DEF DuplicateFind
<1>2. CASE UpdateFind(r, d)
  BY <1>2, SerialFind DEF UpdateFind, PatchedStatuses, Serial
<1>3. CASE UpdateStatusFind(r, d)
  BY <1>3, SerialFind DEF UpdateStatusFind
<1>4. CASE UploadFind(r, d)
  BY <1>4, SerialFind DEF UploadFind
<1>5. CASE RemoveFind(r, d)
  BY <1>5, SerialFind DEF RemoveFind
<1>6. CASE SendFind(r, d)
  BY <1>6, SerialFind DEF SendFind
<1>7. CASE SignFind(r, d)
  BY <1>7, SerialFind DEF SignFind
<1> QED BY <1>1, <1>2, <1>3, <1>4, <1>5, <1>6, <1>7 DEF Starts

\* The one handler that is in flight ends; every file is accounted for by its row.
LEMMA SerialResponds ==
  ASSUME TypeInv, SerialFacts, NEW r \in Requests, requests[r].at # "idle", Respond(r),
         UNCHANGED <<overdue, scope>>,
         \A f \in files' : /\ f[1] \in scope.folders
                           /\ f[2] \in live' /\ row'[f[2]].pdfUrl = f[1]
  PROVE  SerialFacts'
<1>1. \A q \in Requests : requests'[q] = Idle
  BY DEF SerialFacts, AtMostOne, StillHolds, Respond, TypeInv, TypeOK
<1>2. \A q \in Requests : StillHolds(q)'
  BY <1>1 DEF StillHolds, Idle, At
<1>3. FilesAccounted' /\ AtMostOne'
  BY <1>1 DEF FilesAccounted, AtMostOne, Idle
<1> QED BY <1>2, <1>3 DEF SerialFacts

\* Where the handler knows of no file, the rows do.
LEMMA FilesOfRows ==
  ASSUME SerialFacts, NEW r \in Requests, requests[r].at # "idle",
         ~At(r, "uploadPdf", "stored"), ~At(r, "remove", "removed")
  PROVE  \A f \in files : f[1] \in scope.folders /\ f[2] \in live /\ row[f[2]].pdfUrl = f[1]
BY DEF SerialFacts, AtMostOne, FilesAccounted, Pending, At

LEMMA SerialContinues ==
  ASSUME TypeInv, SerialFacts, Serial, NEW r \in Requests, Continues(r)
  PROVE  SerialFacts'
<1> DEFINE q == requests[r]
<1>a. /\ TypeOK /\ q \in Request /\ StillHolds(r)
      /\ \A s \in Requests : requests[s].at # "idle" /\ q.at # "idle" => s = r
      /\ \A f \in files : f = <<f[1], f[2]>> /\ f[2] \in Docs
  BY DEF TypeInv, TypeOK, SerialFacts, AtMostOne
<1>b. scope.folders \subseteq Folders /\ NoFile \notin Folders
      /\ \A f, g \in scope.folders : f = g
  BY <1>a, NullsAreFresh, ScopesAreScopes DEF TypeOK, Scope, Serial
<1>1. CASE DuplicateInsert(r)
  <2>1. \A f \in files : f[1] \in scope.folders /\ f[2] \in live /\ row[f[2]].pdfUrl = f[1]
    BY <1>1, FilesOfRows DEF DuplicateInsert, At
  <2>2. live \subseteq live' /\ \A e \in live : row'[e] = row[e]
    BY <1>1, <1>a DEF DuplicateInsert, InsertRow, TypeOK
  <2> QED BY <1>1, <2>1, <2>2, SerialResponds DEF DuplicateInsert, At
<1>2. CASE UpdateWrite(r)
  <2> DEFINE moved == IF q.status = Keep THEN row[q.doc] ELSE WithStatus(row[q.doc], q.status)
             new == IF q.dueDate = Keep THEN moved
                                        ELSE [moved EXCEPT !.dueDate = q.dueDate]
  <2>1. \A f \in files : f[1] \in scope.folders /\ f[2] \in live /\ row[f[2]].pdfUrl = f[1]
    BY <1>2, FilesOfRows DEF UpdateWrite, At
  <2>2. ASSUME q.doc \in live PROVE new.pdfUrl = row[q.doc].pdfUrl
    BY <1>2, <1>a, <2>2 DEF UpdateWrite, At, StillHolds, TypeOK, Row
  <2>3. WriteRow(q.doc, new) /\ Respond(r) /\ UNCHANGED <<live, files, overdue, scope>>
    BY <1>2 DEF UpdateWrite
  <2> HIDE DEF new
  <2>4. \A e \in live : row'[e].pdfUrl = row[e].pdfUrl
    BY <2>2, <2>3, <1>a DEF WriteRow, TypeOK
  <2> QED BY <1>2, <2>1, <2>3, <2>4, SerialResponds DEF UpdateWrite, At
<1>3. CASE UpdateStatusWrite(r)
  <2>1. \A f \in files : f[1] \in scope.folders /\ f[2] \in live /\ row[f[2]].pdfUrl = f[1]
    BY <1>3, FilesOfRows DEF UpdateStatusWrite, At
  <2>2. \A e \in live : row'[e].pdfUrl = row[e].pdfUrl
    BY <1>3, <1>a, WithStatusType DEF UpdateStatusWrite, WriteRow, StillHolds, At, TypeInv, TypeOK,
        HandlersOK
  <2> QED BY <1>3, <2>1, <2>2, SerialResponds DEF UpdateStatusWrite, At
<1>4. CASE UploadStore(r)
  <2>1. /\ At(r, "uploadPdf", "found") /\ q.folder \in scope.folders /\ q.doc \in live
        /\ files' = files \cup {<<q.folder, q.doc>>}
        /\ UNCHANGED <<live, row, overdue, scope>>
        /\ requests' = [requests EXCEPT ![r].at = "stored"]
    BY <1>4, <1>a DEF UploadStore, Store, Continue, StillHolds, At
  <2>2. /\ requests'[r].op = "uploadPdf" /\ requests'[r].at = "stored"
        /\ requests'[r].doc = q.doc /\ requests'[r].folder = q.folder
        /\ \A s \in Requests \ {r} : requests'[s] = requests[s]
    BY <1>a, <2>1 DEF At, TypeOK, Request
  <2>3. \A f \in files : f[1] \in scope.folders /\ f[2] \in live /\ row[f[2]].pdfUrl = f[1]
    BY <2>1, FilesOfRows DEF At
  <2>4. AtMostOne'
    BY <1>a, <2>1, <2>2 DEF AtMostOne, At
  <2>5. \A s \in Requests : StillHolds(s)'
    BY <2>1, <2>2 DEF SerialFacts, StillHolds, At
  <2>6. FilesAccounted'
    BY <2>1, <2>2, <2>3 DEF FilesAccounted, Pending, At
  <2> QED BY <2>1, <2>4, <2>5, <2>6 DEF SerialFacts
<1>5. CASE UploadWrite(r)
  <2>1. q.folder \in scope.folders /\ q.doc \in live /\ At(r, "uploadPdf", "stored")
    BY <1>5, <1>a DEF UploadWrite, StillHolds, At
  <2>2. row' = [row EXCEPT ![q.doc] = [row[q.doc] EXCEPT !.pdfUrl = q.folder]]
    BY <1>5, <2>1 DEF UploadWrite, WriteRow
  <2>3. row'[q.doc].pdfUrl = q.folder /\ \A e \in Docs \ {q.doc} : row'[e] = row[e]
    BY <1>a, <2>1, <2>2 DEF TypeOK, Row
  <2>4. ASSUME NEW f \in files
        PROVE  f[1] \in scope.folders /\ f[2] \in live /\ row'[f[2]].pdfUrl = f[1]
    <3>1. f[2] = q.doc \/ (f[2] \in live /\ row[f[2]].pdfUrl = f[1])
      <4>1. CASE \E s \in Requests : Pending(s, f)
        BY <4>1, <1>a, <2>1 DEF Pending, At
      <4>2. CASE f[2] \in live /\ row[f[2]].pdfUrl = f[1]
        BY <4>2
      <4> QED BY <4>1, <4>2 DEF SerialFacts, FilesAccounted
    <3>2. f[1] \in scope.folders
      BY DEF SerialFacts, FilesAccounted
    <3> QED BY <3>1, <3>2, <1>a, <1>b, <2>1, <2>3
  <2> QED BY <1>5, <2>1, <2>4, SerialResponds DEF UploadWrite, At
<1>6. CASE RemoveRow(r)
  <2>1. /\ At(r, "remove", "found") /\ q.doc \in live /\ q.folder = row[q.doc].pdfUrl
        /\ UNCHANGED <<files, overdue, scope>> /\ live' = live \ {q.doc}
        /\ row' = [d \in Docs |->
             IF d = q.doc THEN Blank
             ELSE IF row[d].duplicatedFrom = q.doc
                  THEN [row[d] EXCEPT !.duplicatedFrom = NoDoc]
                  ELSE row[d]]
        /\ IF q.folder = NoFile THEN Respond(r) ELSE Continue(r, "removed")
    BY <1>6, <1>a DEF RemoveRow, StillHolds
  <2>2. \A f \in files : f[1] \in scope.folders /\ f[2] \in live /\ row[f[2]].pdfUrl = f[1]
    BY <2>1, FilesOfRows DEF At
  <2>3. \A e \in Docs \ {q.doc} : row'[e].pdfUrl = row[e].pdfUrl
    BY <1>a, <2>1 DEF TypeOK, Row
  <2>4. CASE q.folder = NoFile
    <3>1. ASSUME NEW f \in files'
          PROVE  f[1] \in scope.folders /\ f[2] \in live' /\ row'[f[2]].pdfUrl = f[1]
      <4>1. f \in files /\ f[2] # q.doc
        BY <1>b, <2>1, <2>2, <2>4
      <4> QED BY <4>1, <1>a, <2>1, <2>2, <2>3
    <3>2. q.at # "idle" /\ Respond(r) /\ UNCHANGED <<overdue, scope>>
      BY <2>1, <2>4 DEF At
    <3> QED BY <3>1, <3>2, SerialResponds
  <2>5. CASE q.folder # NoFile
    <3>1. /\ requests'[r].op = "remove" /\ requests'[r].at = "removed"
          /\ requests'[r].doc = q.doc /\ requests'[r].folder = q.folder
          /\ \A s \in Requests \ {r} : requests'[s] = requests[s]
      BY <1>a, <2>1, <2>5 DEF At, Continue, TypeOK, Request
    <3>2. AtMostOne'
      BY <1>a, <2>1, <3>1 DEF AtMostOne, At
    <3>3. \A s \in Requests \ {r} : requests[s] = Idle
      BY <1>a, <2>1 DEF SerialFacts, StillHolds, At
    <3>4. \A s \in Requests : StillHolds(s)'
      BY <3>1, <3>3 DEF StillHolds, At, Idle
    <3>5. FilesAccounted'
      BY <1>a, <2>1, <2>2, <2>3, <3>1 DEF FilesAccounted, Pending, At
    <3> QED BY <2>1, <3>2, <3>4, <3>5 DEF SerialFacts
  <2> QED BY <2>4, <2>5
<1>7. CASE RemoveFile(r)
  <2>1. /\ At(r, "remove", "removed") /\ files' = files \ {<<q.folder, q.doc>>}
        /\ Respond(r) /\ UNCHANGED <<live, row, overdue, scope>>
    BY <1>7 DEF RemoveFile, Delete
  <2>2. \A f \in files' : f[1] \in scope.folders /\ f[2] \in live /\ row[f[2]].pdfUrl = f[1]
    BY <1>a, <2>1 DEF SerialFacts, FilesAccounted, Pending, At
  <2> QED BY <2>1, <2>2, SerialResponds DEF At
<1>8. CASE SendRead(r)
  <2>1. \A f \in files : f[1] \in scope.folders /\ f[2] \in live /\ row[f[2]].pdfUrl = f[1]
    BY <1>8, FilesOfRows DEF SendRead, At
  <2> QED BY <1>8, <2>1, SerialResponds DEF SendRead, At
<1>9. CASE SignInsert(r)
  <2>1. \A f \in files : f[1] \in scope.folders /\ f[2] \in live /\ row[f[2]].pdfUrl = f[1]
    BY <1>9, FilesOfRows DEF SignInsert, At
  <2> QED BY <1>9, <2>1, SerialResponds DEF SignInsert, At
<1> QED
  BY <1>1, <1>2, <1>3, <1>4, <1>5, <1>6, <1>7, <1>8, <1>9 DEF Continues

LEMMA SerialStep == TypeInv /\ SerialInv /\ [Next]_vars => SerialInv'
<1> SUFFICES ASSUME TypeInv, SerialInv, [Next]_vars, Serial' PROVE SerialFacts'
  BY DEF SerialInv, SerialFacts
<1>1. UNCHANGED scope
  BY ScopeKept
<1>2. Serial /\ SerialFacts
  BY <1>1 DEF Serial, SerialInv, SerialFacts
<1>3. ASSUME NEW d \in Docs, Create(d) PROVE SerialFacts'
  <2>1. live \subseteq live' /\ (\A e \in live : row'[e] = row[e])
        /\ UNCHANGED <<files, requests, overdue, scope>>
    BY <1>3 DEF Create, InsertRow, TypeInv, TypeOK
  <2>2. FilesAccounted'
    BY <1>2, <2>1 DEF SerialFacts, FilesAccounted, Pending, At
  <2>3. \A s \in Requests : StillHolds(s)'
    BY <1>2, <2>1 DEF SerialFacts, StillHolds, At
  <2> QED BY <1>2, <2>1, <2>2, <2>3 DEF SerialFacts, AtMostOne
<1>4. ASSUME NEW r \in Requests, NEW d \in Docs, Starts(r, d) PROVE SerialFacts'
  BY <1>2, <1>4, SerialStarts
<1>5. ASSUME NEW r \in Requests, Continues(r) PROVE SerialFacts'
  BY <1>2, <1>5, SerialContinues
<1>6. ASSUME NEW d \in Docs, DueDatePasses(d) PROVE SerialFacts'
  <2>1. UNCHANGED <<live, files, requests, overdue, scope>>
        /\ \A e \in Docs : row'[e].pdfUrl = row[e].pdfUrl /\ row'[e].status = row[e].status
    BY <1>6 DEF DueDatePasses, TypeInv, TypeOK, Row
  <2>2. live \subseteq Docs
    BY DEF TypeInv, TypeOK
  <2>3. FilesAccounted'
    BY <1>2, <2>1, <2>2 DEF SerialFacts, FilesAccounted, Pending, At
  <2>4. \A s \in Requests : StillHolds(s)'
    BY <1>2, <2>1, <2>2 DEF SerialFacts, StillHolds, At
  <2> QED BY <1>2, <2>1, <2>3, <2>4 DEF SerialFacts, AtMostOne
<1>7. CASE UNCHANGED <<live, row, files, requests, overdue, scope>>
  BY <1>2, <1>7 DEF SerialFacts, AtMostOne, StillHolds, FilesAccounted, Pending, At
<1> QED
  BY <1>2, <1>3, <1>4, <1>5, <1>6, <1>7
     DEF Next, vars, RemoveSignature, CronScan, CronWrite, Fail, CronFail, Serial, SerialFacts

LEMMA SerialInvariant == Spec => []SerialInv
BY SerialInit, SerialStep, TypeInvariant, PTL DEF Spec

\* When the one handler of a Serial scope is done, every PDF on disk is that of a
\* document: what remove deletes is all there is of it.
THEOREM NoPdfLeftBehind == Spec => []NoOrphanPdf
<1>1. SerialInv => NoOrphanPdf
  BY DEF SerialInv, NoOrphanPdf, FilesAccounted, Pending, At, Idle
<1> QED BY <1>1, SerialInvariant, PTL

-----------------------------------------------------------------------------
(* Documents implements DocumentLifecycle.                                   *)

LEMMA SameMap == Lifecycle!Statuses = Statuses /\ Lifecycle!Transitions = Transitions
BY DEF Lifecycle!Statuses, Statuses, Lifecycle!Transitions, Transitions

LEMMA PhaseInit == Init => Lifecycle!Init
BY DEF Init, Lifecycle!Init, Phase

\* A step that neither issues an id, nor removes one, nor writes a status, is a stutter.
LEMMA PhaseStutters ==
  ASSUME TypeInv, UNCHANGED <<live, issued, scope>>, \A d \in live : row'[d].status = row[d].status
  PROVE  UNCHANGED Phase
BY DEF Phase, Serial, TypeInv, TypeOK

LEMMA PhaseCreates ==
  ASSUME TypeInv, Serial, NEW d \in Docs, NEW o, InsertRow(d, o), UNCHANGED scope
  PROVE  Lifecycle!Create(d)
<1>1. /\ d \notin issued /\ issued' = issued \cup {d} /\ live' = live \cup {d}
      /\ row'[d].status = "DRAFT" /\ \A e \in Docs \ {d} : row'[e] = row[e]
  BY DEF InsertRow, TypeInv, TypeOK, Blank
<1>2. Serial' /\ live \subseteq issued
  BY DEF Serial, TypeInv, TypeOK
<1> QED BY <1>1, <1>2 DEF Lifecycle!Create, Phase

LEMMA PhaseContinues ==
  ASSUME TypeInv, SerialFacts, Serial, NEW r \in Requests, Continues(r)
  PROVE  Lifecycle!Next \/ UNCHANGED Phase
<1> DEFINE q == requests[r]
<1>a. /\ TypeOK /\ q \in Request /\ StillHolds(r)
  BY DEF TypeInv, TypeOK, SerialFacts
<1>1. CASE DuplicateInsert(r)
  <2>1. CASE \E d \in Docs : InsertRow(d, q.doc)
    BY <1>1, <2>1, PhaseCreates DEF DuplicateInsert, Lifecycle!Next
  <2>2. CASE UNCHANGED <<live, issued, row>>
    BY <1>1, <2>2, PhaseStutters DEF DuplicateInsert
  <2> QED BY <1>1, <2>1, <2>2 DEF DuplicateInsert
<1>2. CASE UpdateWrite(r)
  <2> DEFINE new == IF q.dueDate = Keep THEN row[q.doc]
                    ELSE [row[q.doc] EXCEPT !.dueDate = q.dueDate]
  <2>1. WriteRow(q.doc, new) /\ UNCHANGED <<live, issued, scope>>
    BY <1>2, <1>a DEF UpdateWrite, At, StillHolds
  <2>2. ASSUME q.doc \in live PROVE new.status = row[q.doc].status
    BY <1>a, <2>2 DEF TypeOK, Row
  <2> HIDE DEF new
  <2>3. \A d \in live : row'[d].status = row[d].status
    BY <1>a, <2>1, <2>2 DEF WriteRow, TypeOK
  <2> QED BY <2>1, <2>3, PhaseStutters
<1>3. CASE UpdateStatusWrite(r)
  <2>1. /\ q.doc \in live /\ q.status \in Transitions[row[q.doc].status] /\ q.status \in Statuses
        /\ UNCHANGED <<live, issued, scope>>
        /\ row' = [row EXCEPT ![q.doc] = WithStatus(row[q.doc], q.status)]
    BY <1>3, <1>a DEF UpdateStatusWrite, WriteRow, StillHolds, At, TypeInv, HandlersOK
  <2>2. /\ q.doc \in Docs /\ q.doc \in issued /\ row[q.doc].status \in Statuses
        /\ row'[q.doc].status = q.status /\ \A d \in Docs \ {q.doc} : row'[d] = row[d]
    BY <2>1, <1>a, WithStatusType DEF TypeOK, Row
  <2>3. PICK d \in Docs : d = q.doc
    BY <2>2
  <2>4. Phase[d] = row[d].status /\ Phase' = [Phase EXCEPT ![d] = q.status]
    BY <2>1, <2>2, <2>3 DEF Phase, Serial
  <2>5. Lifecycle!Move(d)
    BY <2>1, <2>2, <2>3, <2>4, SameMap DEF Lifecycle!Move
  <2> QED BY <2>5 DEF Lifecycle!Next
<1>4. CASE UploadStore(r)
  BY <1>4, PhaseStutters DEF UploadStore
<1>5. CASE UploadWrite(r)
  <2>1. \A d \in live : row'[d].status = row[d].status
    BY <1>5, <1>a DEF UploadWrite, WriteRow, TypeOK, Row
  <2> QED BY <1>5, <2>1, PhaseStutters DEF UploadWrite
<1>6. CASE RemoveRow(r)
  <2>1. /\ q.doc \in live /\ live' = live \ {q.doc} /\ UNCHANGED <<issued, scope>>
        /\ \A d \in live' : row'[d].status = row[d].status
    BY <1>6, <1>a DEF RemoveRow, StillHolds, TypeOK, Row
  <2>2. /\ q.doc \in Docs /\ q.doc \in issued /\ row[q.doc].status \in Statuses
    BY <2>1, <1>a DEF TypeOK, Row
  <2>3. PICK d \in Docs : d = q.doc
    BY <2>2
  <2>4. Phase[d] = row[d].status /\ Phase' = [Phase EXCEPT ![d] = "REMOVED"]
    BY <2>1, <2>2, <2>3 DEF Phase, Serial
  <2>5. Lifecycle!Remove(d)
    BY <2>2, <2>3, <2>4, SameMap DEF Lifecycle!Remove
  <2> QED BY <2>5 DEF Lifecycle!Next
<1>7. CASE RemoveFile(r)
  BY <1>7, PhaseStutters DEF RemoveFile
<1>8. CASE SendRead(r)
  BY <1>8, PhaseStutters DEF SendRead
<1>9. CASE SignInsert(r)
  BY <1>9, PhaseStutters DEF SignInsert
<1> QED
  BY <1>1, <1>2, <1>3, <1>4, <1>5, <1>6, <1>7, <1>8, <1>9 DEF Continues

LEMMA LifecycleStep == TypeInv /\ SerialInv /\ [Next]_vars => [Lifecycle!Next]_Phase
<1> SUFFICES ASSUME TypeInv, SerialInv, [Next]_vars PROVE Lifecycle!Next \/ UNCHANGED Phase
  OBVIOUS
<1>1. CASE ~Serial
  <2>1. UNCHANGED scope
    BY ScopeKept
  <2> QED BY <1>1, <2>1 DEF Phase, Serial
<1>2. CASE Serial
  <2>1. SerialFacts
    BY <1>2 DEF SerialInv, SerialFacts
  <2>2. ASSUME NEW d \in Docs, Create(d) PROVE Lifecycle!Next
    BY <1>2, <2>2, PhaseCreates DEF Create, Lifecycle!Next
  <2>3. ASSUME NEW r \in Requests, Continues(r) PROVE Lifecycle!Next \/ UNCHANGED Phase
    BY <1>2, <2>1, <2>3, PhaseContinues
  <2>4. ASSUME NEW d \in Docs, DueDatePasses(d) PROVE UNCHANGED Phase
    <3>1. \A e \in live : row'[e].status = row[e].status
      BY <2>4 DEF DueDatePasses, TypeInv, TypeOK, Row
    <3> QED BY <2>4, <3>1, PhaseStutters DEF DueDatePasses
  <2>5. CASE UNCHANGED <<live, issued, row, scope>>
    BY <2>5, PhaseStutters
  <2> QED
    BY <1>2, <2>1, <2>2, <2>3, <2>4, <2>5, StartsKeep
       DEF Next, vars, RemoveSignature, CronScan, CronWrite, Fail, CronFail, SerialFacts
<1> QED BY <1>1, <1>2

\* Read off the table, every step of a Serial scope is a step of the abstract lifecycle
\* of one document, or none: what PATCH :id/status found in the map still is there
\* when it writes, and copies, uploads and removals are what they claim to be.
THEOREM LifecycleImplemented == Spec => ImplementsLifecycle
<1>1. Lifecycle!Init /\ [][Lifecycle!Next]_Phase => ImplementsLifecycle
  BY DEF ImplementsLifecycle, Lifecycle!Spec
<1> QED
  BY <1>1, PhaseInit, LifecycleStep, TypeInvariant, SerialInvariant, PTL DEF Spec
=============================================================================
