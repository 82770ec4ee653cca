----------------------------- MODULE MCWorkspace -----------------------------
(***************************************************************************)
(* Instances of Workspace for TLC: a scope per group of pages that share a *)
(* store or lead to each other, small enough to be explored together.      *)
(***************************************************************************)
EXTENDS Workspace

On(pages, full, grows, fails, uses) ==
  [pages |-> pages, visits |-> {1}, full |-> full, grows |-> grows, fails |-> fails, uses |-> uses,
   calls |-> 2, edits |-> 2]
Over(visits, sc) == [sc EXCEPT !.visits = visits]
OneEdit(sc) == [sc EXCEPT !.edits = 1]
Patient(sc) == [sc EXCEPT !.calls = 1]

Writes == {"create", "update", "remove"}

\* A page with the list it shows, and what the user does while its calls are made.
Lists ==
  {On({"contractors"}, {"contractors"}, {"contractors"}, {}, {}),
   On({"vehicles"}, {"vehicles"}, {"vehicles"}, Writes, {}),
   On({"signatures"}, {"signatures"}, {"signatures"}, {}, {}),
   On({"companySignatures"}, {"companySignatures"}, {"companySignatures"}, {}, {}),
   On({"stamps"}, {"stamps"}, {"stamps"}, {}, {})}

\* Two companies between which the user moves without waiting.
Moves ==
  {Over({1, 2}, On({"contractors", "vehicles"}, {"contractors"}, {}, {"list", "update"}, {"overtake", "hop"})),
   Over({1, 2}, On({"stamps", "companySignatures", "signatures"}, {"stamps"}, {"stamps"}, {}, {"hop"})),
   Patient(On({"company", "contractors"}, {}, {}, {}, {"hop"}))}

\* Companies, their members and their bank accounts.
Companies ==
  {On({"companies", "company"}, {}, {}, {}, {}),
   Patient(On({"companies", "company"}, {}, {"companies"}, {}, {})),
   Patient(On({"company"}, {"members"}, {"members"}, {}, {})),
   Patient(On({"company"}, {"members"}, {"invitations"}, {"remove", "create"}, {})),
   Patient(On({"company"}, {}, {}, {"update"}, {"overtake"})),
   Over({1, 2}, Patient(On({"company", "companies"}, {}, {}, {"get"}, {"reload"})))}

\* The list of documents and a document.
Papers ==
  {Patient(On({"documents"}, {"documents"}, {"documents"}, {"create"}, {})),
   On({"documents"}, {"documents"}, {}, {"update"}, {}),
   On({"document"}, {"documents"}, {}, {}, {"status"}),
   Patient(On({"documents", "document"}, {"documents"}, {}, {}, {"status"})),
   Over({2}, On({"document"}, {"documents"}, {"documents"}, {}, {"hop"})),
   Over({2}, Patient(On({"document"}, {"documents"}, {"documents"}, {}, {"overtake", "hop"})))}

\* The builder: its timer against the user, failing saves, added rows, and the pages
\* beside it.
Plain == On({"builder"}, {"documents"}, {}, {}, {})
Drafts ==
  {Plain,
   On({"builder"}, {"documents"}, {}, {"update"}, {}),
   OneEdit(On({"builder"}, {"documents"}, {}, {"update"}, {"resync"})),
   Patient(On({"builder"}, {"documents"}, {"contractors", "vehicles"}, {"create"}, {})),
   OneEdit(Patient(On({"builder"}, {"documents", "contractors"}, {}, {"update"}, {"overtake", "resync"}))),
   OneEdit(On({"builder"}, {"documents"}, {}, {}, {"overtake"})),
   OneEdit(Patient(On({"builder", "document"}, {"documents"}, {}, {}, {"hop", "status"}))),
   OneEdit(Patient(On({"builder", "document"}, {"documents"}, {"documents"}, {}, {"hop"}))),
   OneEdit(Over({1, 2}, Patient(On({"builder", "document"}, {"documents"}, {}, {}, {"reload"}))))}

\* The administrator's pages.
Admins ==
  {On({"users", "user"}, {"users", "plans"}, {}, {"update"}, {}),
   Patient(On({"user"}, {"users", "plans", "credits"}, {"credits"}, {"create"}, {})),
   On({"plans"}, {"users", "plans"}, {"plans"}, {"remove"}, {}),
   Patient(On({"users", "user", "plans"}, {"users", "plans"}, {}, {}, {"hop"}))}

MCScopes == Lists \cup Moves \cup Companies \cup Papers \cup Drafts \cup Admins
=============================================================================
