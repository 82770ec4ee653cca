--------------------------- MODULE DocumentStatuses ---------------------------
(***************************************************************************)
(* The document statuses and STATUS_TRANSITIONS, the map that              *)
(* PATCH :id/status consults (backend/src/modules/documents).              *)
(***************************************************************************)
Statuses == {"DRAFT", "PENDING_SIGNATURE", "SIGNED", "SENT", "VIEWED",
             "COMPLETED", "PAID", "OVERDUE", "CANCELLED", "ARCHIVED"}

Transitions ==
  [s \in Statuses |->
     CASE s = "DRAFT"     -> {"PENDING_SIGNATURE", "SIGNED", "SENT",
                              "COMPLETED", "CANCELLED"}
       [] s = "PENDING_SIGNATURE" -> {"SIGNED", "CANCELLED", "DRAFT"}
       [] s = "SIGNED"    -> {"SENT", "COMPLETED", "CANCELLED"}
       [] s = "SENT"      -> {"VIEWED", "PAID", "OVERDUE", "CANCELLED", "DRAFT"}
       [] s = "VIEWED"    -> {"PAID", "OVERDUE", "CANCELLED", "DRAFT"}
       [] s = "COMPLETED" -> {"PAID", "ARCHIVED", "CANCELLED"}
       [] s = "PAID"      -> {"ARCHIVED"}
       [] s = "OVERDUE"   -> {"PAID", "CANCELLED"}
       [] s = "CANCELLED" -> {"DRAFT"}
       [] s = "ARCHIVED"  -> {}]
=============================================================================
