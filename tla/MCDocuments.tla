----------------------------- MODULE MCDocuments -----------------------------
(* Instances of Documents for TLC.                                          *)
EXTENDS Documents, TLC

CONSTANTS d1, d2, f1, f2, m1, r1, r2

\* The paths of files, signatures and copies; every status stays DRAFT.
FileOps == {"create", "duplicate", "uploadPdf", "remove", "send",
            "applySignature", "removeSignature", "fail"}

\* What writes a status or a date column: PATCH :id/status and PATCH :id without a
\* status, or with any.
StatusOps == {"create", "update", "updateStatus", "overdueCron", "remove", "fail"}
PatchOps == StatusOps \cup {"patchStatus"}

\* The status API alone, next to the operations on rows and files.
SerialOps == {"create", "duplicate", "updateStatus", "uploadPdf", "remove"}

RaceOps == {"create", "update", "updateStatus", "overdueCron"}

\* Two documents and two handlers over the files, one document and two handlers
\* over its status, or one beside the job that may write any status, two documents
\* and one handler at a time over the lifecycle.
DocumentScopes ==
  {[ops |-> FileOps, docs |-> 2, parallel |-> 2, folders |-> {f1, f2}],
   [ops |-> StatusOps, docs |-> 1, parallel |-> 2, folders |-> {}],
   [ops |-> PatchOps, docs |-> 1, parallel |-> 1, folders |-> {}],
   [ops |-> SerialOps, docs |-> 2, parallel |-> 1, folders |-> {f1}]}

RaceScopes == {[ops |-> RaceOps, docs |-> 1, parallel |-> 1, folders |-> {}]}

Symmetry == Permutations(Docs) \cup Permutations(Requests)

=============================================================================
