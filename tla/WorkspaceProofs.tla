--------------------------- MODULE WorkspaceProofs ---------------------------
(***************************************************************************)
(* What Workspace guarantees for every scope, whatever the bounds: proofs  *)
(* by invariants that say of each place a value may be in, the rows of the *)
(* server, the store, the page and every call in flight, what it is there. *)
(***************************************************************************)
EXTENDS Workspace, TLAPS, SequenceTheorems, NaturalsInduction, WellFoundedInduction, FiniteSetTheorems

-----------------------------------------------------------------------------
(* The shape of the state *)

Fields == {"op", "kind", "co", "id", "body", "mine", "at", "answer"}
Stores == {"rows", "loading", "active", "saved", "current", "selected"}
Routes == UnderCompany \cup UnderAdmin \cup {"blank", "companies", "signatures"}

\* The calls there are of a kind.
Operations(kind) ==
  CASE kind = "documents" -> {"list", "check", "next", "create", "update", "remove", "send", "peek", "get"}
    [] kind = "companies" -> {"list", "create", "update", "remove", "peek", "get"}
    [] kind = "users" -> {"list", "get", "update", "assign", "both"}
    [] kind = "plans" -> {"list", "create", "update", "remove"}
    [] kind = "credits" -> {"list", "create"}
    [] OTHER -> {"list", "create", "update", "remove", "peek"}

IsCall(c) ==
  /\ DOMAIN c = Fields
  /\ c.kind \in Kinds /\ c.op \in Operations(c.kind)
  /\ c.at \in {"reading", "sent", "done", "failed"} /\ c.mine \in {"tab", "page", "none"}
  /\ c.op = "assign" => c.at # "done"

Shaped ==
  /\ DOMAIN server = {"rows", "born"} /\ DOMAIN server.rows = Kinds /\ DOMAIN server.born = Kinds
  /\ DOMAIN store = Stores /\ DOMAIN store.rows = Kinds
  /\ "at" \in DOMAIN page /\ page.at \in Routes
  /\ net \in Seq(Range(net))
  /\ \A i \in DOMAIN net : IsCall(net[i])
  /\ page.at = "blank" => net = <<>>

-----------------------------------------------------------------------------
(* Drafts *)

Born(sv) == Given + sv.born.documents

\* A document that is gone does not come back: its id is not given again.
Gone(sv, id) == id \in 1..Born(sv) /\ \A r \in Range(sv.rows.documents) : r.id # id

\* Data that may be written to a document.
Own(sv, d, id) == "of" \in DOMAIN d /\ (d.of \in {None, id} \/ Gone(sv, id))

OwnRow(sv, r) == r.id \in 1..Born(sv) /\ Own(sv, r.data, r.id) /\ Own(sv, r.pdf, r.id)

OwnServer(sv) ==
  /\ sv.born.documents \in Nat
  /\ sv.rows.documents \in Seq(Range(sv.rows.documents))
  /\ \A r \in Range(sv.rows.documents) : {"id", "data", "pdf"} \subseteq DOMAIN r /\ OwnRow(sv, r)

OwnCurrent(sv, current) == current # <<>> => OwnRow(sv, current[1])

OwnPage(sv, p) ==
  p.at = "builder" =>
    /\ {"id", "draft", "timer"} \subseteq DOMAIN p
    /\ p.id \in 1..Born(sv)
    /\ Own(sv, p.draft, p.id)
    /\ p.timer # <<>> => Own(sv, p.timer[1], p.id)

\* What a call writes to a document, and what it brings of one.
OwnBody(sv, c) ==
  /\ "data" \in DOMAIN c.body => c.op # "create" /\ Own(sv, c.body.data, c.id)
  /\ "pdf" \in DOMAIN c.body => c.op # "create" /\ Own(sv, c.body.pdf, c.id)
  /\ "id" \notin DOMAIN c.body
  /\ IsPeek(c) => "data" \in DOMAIN c.body
OwnAnswer(sv, c) ==
  c.kind = "documents" /\ c.at = "done" /\ c.op \in {"get", "peek", "update"} =>
    c.answer # <<>> /\ c.answer[1].id = c.id /\ OwnRow(sv, c.answer[1])

\* The builder hears of the document it is the page of, and of no other.
OwnHeard(sv, p, c) ==
  p.at = "builder" /\ c.mine # "none" =>
    /\ c.op = "get" => c.kind = "documents" /\ c.id = p.id /\ (c.at = "failed" => Gone(sv, p.id))
    /\ ~IsPeek(c) /\ ~IsUpload(c) /\ ~IsStatus(c)

DraftsOwn ==
  /\ OwnServer(server) /\ OwnCurrent(server, store.current) /\ OwnPage(server, page)
  /\ \A i \in DOMAIN net : /\ OwnBody(server, net[i]) /\ OwnAnswer(server, net[i])
                           /\ OwnHeard(server, page, net[i])

-----------------------------------------------------------------------------
(* What the user does on most pages: the page changes without being left,   *)
(* and sends calls that say nothing of a document's content or status, nor  *)
(* of the accounts of a company.                                            *)

OrdinaryKeys == {"search", "name", "number", "from", "open", "role", "isDefault", "active", "admin", "title",
                 "plan", "for", "by", "resync", "buyer", "flag"}

Sent(c) == IsCall(c) /\ c.at \in {"sent", "reading"} /\ c.mine = "tab" /\ c.answer = <<>>
Mine(c) == c.kind = "companies" /\ c.op = "create" => c.co = Me
Ordinary(c) == Sent(c) /\ Mine(c) /\ c.op \notin {"get", "peek"} /\ DOMAIN c.body \subseteq OrdinaryKeys

\* A call that is in flight before and after; its page may have been left.
Same(after, c) ==
  /\ DOMAIN after = Fields /\ after.mine \in {"tab", "page", "none"} /\ \A f \in Fields \ {"mine"} : after[f] = c[f]
  /\ c.mine = "none" => after.mine = "none"

\* The page sends calls, or none, and only what is loading changes in the store.
Sending ==
  /\ UNCHANGED <<server, scope>>
  /\ "at" \in DOMAIN page' /\ page'.at = page.at
  /\ DOMAIN store' = Stores /\ \A f \in Stores \ {"loading"} : store'[f] = store[f]
  /\ net' \in Seq(Range(net')) /\ Len(net) <= Len(net')
  /\ \A i \in DOMAIN net : net'[i] = net[i]
  /\ page.at = "blank" => net' = <<>>

PlainEvent == Sending /\ \A i \in DOMAIN net' \ DOMAIN net : Ordinary(net'[i])

LEMMA SentCall ==
  ASSUME NEW op, NEW kind \in Kinds, NEW co, NEW id, NEW body, op \in Operations(kind)
  PROVE  Sent(Call(op, kind, co, id, body)) /\ Sent(Reading(Call(op, kind, co, id, body)))
BY DEF Sent, IsCall, Call, Reading, Fields

LEMMA OrdinaryCall ==
  ASSUME NEW op, NEW kind \in Kinds, NEW co, NEW id, NEW body, op \in Operations(kind),
         op \notin {"get", "peek"}, DOMAIN body \subseteq OrdinaryKeys,
         kind = "companies" /\ op = "create" => co = Me
  PROVE  /\ Ordinary(Call(op, kind, co, id, body))
         /\ Ordinary(Reading(Call(op, kind, co, id, body)))
<1>1. /\ Call(op, kind, co, id, body).body = body /\ Reading(Call(op, kind, co, id, body)).body = body
      /\ Call(op, kind, co, id, body).op = op /\ Reading(Call(op, kind, co, id, body)).op = op
      /\ Call(op, kind, co, id, body).kind = kind /\ Reading(Call(op, kind, co, id, body)).kind = kind
      /\ Call(op, kind, co, id, body).co = co /\ Reading(Call(op, kind, co, id, body)).co = co
  BY DEF Call, Reading
<1> QED BY <1>1, SentCall DEF Ordinary, Mine

\* A page that stays, the calls it sends going to the end of the queue.
LEMMA TakesSends ==
  ASSUME Shaped, NEW p, NEW R, NEW calls \in Seq(R), Takes(Step(p, store, calls), net),
         "at" \in DOMAIN p, p.at = page.at, page.at # "blank"
  PROVE  /\ Sending /\ page' = p
         /\ net' = net \o calls
         /\ \A i \in DOMAIN net' \ DOMAIN net : \E k \in DOMAIN calls : net'[i] = calls[k]
<1>1. /\ page' = p /\ net' = net \o calls /\ UNCHANGED <<server, scope>>
      /\ store' = Fetching(store, calls)
  BY DEF Takes, Step
<1>2. DOMAIN store' = Stores /\ \A f \in Stores \ {"loading"} : store'[f] = store[f]
  BY <1>1 DEF Fetching, Shaped
<1>3. PICK S : net \in Seq(S) /\ calls \in Seq(S)
  <2>1. net \in Seq(Range(net) \cup R) /\ calls \in Seq(Range(net) \cup R)
    BY DEF Shaped
  <2> QED BY <2>1
<1>4. /\ Len(net') = Len(net) + Len(calls) /\ Len(net) \in Nat /\ Len(calls) \in Nat
      /\ DOMAIN net = 1..Len(net) /\ DOMAIN net' = 1..(Len(net) + Len(calls)) /\ DOMAIN calls = 1..Len(calls)
      /\ \A i \in 1..Len(net) : net'[i] = net[i]
      /\ \A i \in 1..(Len(net) + Len(calls)) : i > Len(net) => net'[i] = calls[i - Len(net)]
      /\ net' \in Seq(S)
  BY <1>1, <1>3
<1>5. net' \in Seq(Range(net'))
  BY <1>4 DEF Range
<1>6. \A i \in DOMAIN net' \ DOMAIN net : \E k \in DOMAIN calls : net'[i] = calls[k]
  <2> TAKE i \in DOMAIN net' \ DOMAIN net
  <2>1. i - Len(net) \in DOMAIN calls /\ net'[i] = calls[i - Len(net)]
    BY <1>4
  <2> QED BY <2>1
<1> QED BY <1>1, <1>2, <1>4, <1>5, <1>6 DEF Sending

LEMMA ActsStay ==
  ASSUME Shaped, NEW p, Acts(Stay(p)), "at" \in DOMAIN p, p.at = page.at, page.at # "blank"
  PROVE  PlainEvent /\ page' = p /\ net' = net
<1>1. Takes(Step(p, store, <<>>), net)
  BY DEF Acts, Stay
<1>2. <<>> \in Seq({})
  OBVIOUS
<1>3. Sending /\ page' = p /\ net' = net \o <<>>
  BY <1>1, <1>2, TakesSends
<1>4. net' = net
  BY <1>3 DEF Shaped
<1> QED BY <1>3, <1>4 DEF PlainEvent

LEMMA ActsSends ==
  ASSUME Shaped, NEW p, NEW c, Acts(Sends(p, c)), "at" \in DOMAIN p, p.at = page.at, page.at # "blank"
  PROVE  /\ Sending /\ page' = p /\ net' = Append(net, c)
         /\ \A i \in DOMAIN net' \ DOMAIN net : net'[i] = c
         /\ Ordinary(c) => PlainEvent
<1>1. Takes(Step(p, store, <<c>>), net)
  BY DEF Acts, Sends
<1>2. <<c>> \in Seq({c}) /\ DOMAIN <<c>> = {1} /\ <<c>>[1] = c
  OBVIOUS
<1>3. /\ Sending /\ page' = p /\ net' = net \o <<c>>
      /\ \A i \in DOMAIN net' \ DOMAIN net : \E k \in DOMAIN <<c>> : net'[i] = <<c>>[k]
  BY <1>1, <1>2, TakesSends, Zenon
<1>4. net' = Append(net, c)
  BY <1>3 DEF Shaped
<1> QED BY <1>2, <1>3, <1>4 DEF PlainEvent

\* What is sent of a document is its status at most, and accounts by the page of a
\* company; the page may stop hearing of calls it has sent.
Quiet(c) ==
  /\ Sent(c) /\ Mine(c) /\ c.op \notin {"get", "peek"} /\ DOMAIN c.body \cap {"data", "pdf", "id", "owner"} = {}
  /\ "accounts" \in DOMAIN c.body => page.at = "company"
  /\ "status" \in DOMAIN c.body => c.body.status \in Statuses
QuietEvent ==
  /\ UNCHANGED <<server, scope>>
  /\ "at" \in DOMAIN page' /\ page'.at = page.at /\ page.at # "blank"
  /\ DOMAIN store' = Stores /\ \A f \in Stores \ {"loading"} : store'[f] = store[f]
  /\ net' \in Seq(Range(net')) /\ DOMAIN net \subseteq DOMAIN net'
  /\ \A i \in DOMAIN net : Same(net'[i], net[i])
  /\ \A i \in DOMAIN net' \ DOMAIN net : Quiet(net'[i])

LEMMA OrdinaryIsQuiet == ASSUME NEW c, Ordinary(c) PROVE Quiet(c)
BY DEF Ordinary, Quiet, OrdinaryKeys

\* The fields of a call that another page hears.
LEMMA SameIs ==
  ASSUME NEW c, NEW after, IsCall(c), Same(after, c)
  PROVE  /\ IsCall(after) /\ after.op = c.op /\ after.kind = c.kind /\ after.co = c.co /\ after.id = c.id
         /\ after.body = c.body /\ after.at = c.at /\ after.answer = c.answer
         /\ c.mine = "none" => after.mine = "none"
BY DEF IsCall, Fields, Same

LEMMA PlainIsQuiet == ASSUME Shaped, PlainEvent, page.at # "blank" PROVE QuietEvent
<1>1. DOMAIN net \subseteq DOMAIN net'
  <2>1. DOMAIN net = 1..Len(net) /\ DOMAIN net' = 1..Len(net') /\ Len(net) \in Nat /\ Len(net') \in Nat
    BY DEF Shaped, PlainEvent, Sending
  <2> QED BY <2>1 DEF PlainEvent, Sending
<1>2. \A i \in DOMAIN net : Same(net'[i], net[i])
  BY DEF Shaped, PlainEvent, Sending, Same, IsCall
<1> QED BY <1>1, <1>2, OrdinaryIsQuiet DEF PlainEvent, Sending, QuietEvent

\* A page that stays sends one call and hears of the others as before.
LEMMA QuietSend ==
  ASSUME Shaped, page.at # "blank", NEW p, NEW c, Acts(Sends(p, c)), "at" \in DOMAIN p, p.at = page.at, Quiet(c)
  PROVE  QuietEvent
<1>1. Sending /\ \A i \in DOMAIN net' \ DOMAIN net : net'[i] = c
  BY ActsSends
<1>2. DOMAIN net \subseteq DOMAIN net'
  <2>1. DOMAIN net = 1..Len(net) /\ DOMAIN net' = 1..Len(net') /\ Len(net) \in Nat /\ Len(net') \in Nat
    BY <1>1 DEF Shaped, Sending
  <2> QED BY <1>1, <2>1 DEF Sending
<1>3. \A i \in DOMAIN net : Same(net'[i], net[i])
  BY <1>1 DEF Shaped, Sending, Same, IsCall
<1> QED BY <1>1, <1>2, <1>3 DEF Sending, QuietEvent

\* A page that stays sends calls after others of which it may hear no more.
LEMMA QuietTakes ==
  ASSUME Shaped, page.at # "blank", NEW p, "at" \in DOMAIN p, p.at = page.at,
         NEW queue, NEW R, queue \in Seq(R), DOMAIN queue = DOMAIN net, \A i \in DOMAIN net : Same(queue[i], net[i]),
         NEW Q, NEW calls \in Seq(Q), \A i \in DOMAIN calls : Quiet(calls[i]),
         Takes(Step(p, store, calls), queue)
  PROVE  QuietEvent
<1>1. /\ page' = p /\ net' = queue \o calls /\ UNCHANGED <<server, scope>>
      /\ store' = Fetching(store, calls)
  BY DEF Takes, Step
<1>2. DOMAIN store' = Stores /\ \A f \in Stores \ {"loading"} : store'[f] = store[f]
  BY <1>1 DEF Fetching, Shaped
<1>3. queue \in Seq(R \cup Q) /\ calls \in Seq(R \cup Q)
  OBVIOUS
<1>4. /\ Len(queue) \in Nat /\ Len(calls) \in Nat
      /\ DOMAIN queue = 1..Len(queue) /\ DOMAIN net' = 1..(Len(queue) + Len(calls)) /\ DOMAIN calls = 1..Len(calls)
      /\ \A i \in 1..Len(queue) : net'[i] = queue[i]
      /\ \A i \in 1..(Len(queue) + Len(calls)) : i > Len(queue) => net'[i] = calls[i - Len(queue)]
      /\ net' \in Seq(R \cup Q)
  BY <1>1, <1>3
<1>5. net' \in Seq(Range(net'))
  BY <1>4 DEF Range
<1>6. \A i \in DOMAIN net' \ DOMAIN net : Quiet(net'[i])
  <2> TAKE i \in DOMAIN net' \ DOMAIN net
  <2>1. i - Len(queue) \in DOMAIN calls /\ net'[i] = calls[i - Len(queue)]
    BY <1>4
  <2> QED BY <2>1
<1>7. DOMAIN net \subseteq DOMAIN net' /\ \A i \in DOMAIN net : Same(net'[i], net[i])
  BY <1>4
<1> QED BY <1>1, <1>2, <1>5, <1>6, <1>7 DEF QuietEvent

Lists == {"contractors", "vehicles", "signatures", "stamps", "companySignatures", "members", "invitations"}

LEMMA ListKinds ==
  /\ Lists \subseteq Kinds /\ "companies" \in Kinds /\ "companies" \notin Lists /\ "documents" \in Kinds /\ AdminKinds \subseteq Kinds
  /\ \A kind \in Lists : Operations(kind) = {"list", "create", "update", "remove", "peek"}
BY DEF Lists, Kinds, Operations, AdminKinds

LEMMA OrdinaryOf ==
  ASSUME NEW kind \in Kinds, NEW co, NEW id
  PROVE  /\ \A search : Ordinary(List(kind, co, search))
         /\ "remove" \in Operations(kind) => Ordinary(Delete(kind, co, id))
         /\ "update" \in Operations(kind) =>
              \A patch : DOMAIN patch \subseteq OrdinaryKeys => Ordinary(Update(kind, co, id, patch))
         /\ "create" \in Operations(kind) /\ (kind = "companies" => co = Me) =>
              \A body : DOMAIN body \subseteq OrdinaryKeys =>
                Ordinary(Create(kind, co, body)) /\ Ordinary(Reading(Create(kind, co, body)))
<1>1. "list" \in Operations(kind)
  BY DEF Operations
<1>2. DOMAIN NoBody \subseteq OrdinaryKeys /\ \A search : DOMAIN [search |-> search] \subseteq OrdinaryKeys
  BY DEF NoBody, OrdinaryKeys
<1>3. \A search : Ordinary(List(kind, co, search))
  BY <1>1, <1>2, OrdinaryCall DEF List
<1>4. "remove" \in Operations(kind) => Ordinary(Delete(kind, co, id))
  BY <1>2, OrdinaryCall DEF Delete
<1> QED BY <1>3, <1>4, OrdinaryCall DEF Update, Create

\* The page stays, whatever changes in it.
Kept(p) == "at" \in DOMAIN p /\ p.at = page.at

LEMMA PlainStay == ASSUME Shaped, page.at # "blank", NEW p, Acts(Stay(p)), Kept(p) PROVE PlainEvent
BY ActsStay DEF Kept

LEMMA PlainSend ==
  ASSUME Shaped, page.at # "blank", NEW p, NEW c, Acts(Sends(p, c)), Kept(p), Ordinary(c)
  PROVE  PlainEvent
BY ActsSends DEF Kept

LEMMA KeptPage == ASSUME Shaped PROVE Kept(page) /\ \A flag : Kept(Busy(page, flag)) /\ Kept(Idle(page, flag))
<1>1. Kept(page)
  BY DEF Kept, Shaped
<1>2. ASSUME NEW flag PROVE Kept(Busy(page, flag)) /\ Kept(Idle(page, flag))
  BY DEF Kept, Shaped, Busy, Idle
<1> QED BY <1>1, <1>2

LEMMA KeptFields ==
  ASSUME Shaped, NEW v
  PROVE  /\ Kept([page EXCEPT !.search = v]) /\ Kept([page EXCEPT !.showCreate = v])
         /\ Kept([page EXCEPT !.editing = v]) /\ Kept([page EXCEPT !.deleting = v])
         /\ Kept([page EXCEPT !.drawing = v]) /\ Kept([page EXCEPT !.showModal = v])
         /\ Kept([page EXCEPT !.number = v]) /\ Kept([page EXCEPT !.cancelling = v])
         /\ Kept([page EXCEPT !.isEditing = v]) /\ Kept([page EXCEPT !.showSend = v])
         /\ Kept([page EXCEPT !.modal = v])
BY DEF Kept, Shaped

\* Forms that send a name.
LEMMA Naming ==
  ASSUME Shaped, page.at # "blank", NEW kind \in Lists, NEW flag, NEW co, NEW id, NEW name,
         \/ Acts(Sends(Busy(page, flag), Create(kind, co, [name |-> name])))
         \/ Acts(Sends(Busy(page, flag), Update(kind, co, id, [name |-> name])))
         \/ Acts(Sends(page, Update(kind, co, id, [name |-> name])))
  PROVE  PlainEvent
<1>1. DOMAIN [name |-> name] \subseteq OrdinaryKeys
  BY DEF OrdinaryKeys
<1> QED BY <1>1, ListKinds, PlainSend, OrdinaryOf, KeptPage

LEMMA Removal ==
  ASSUME Shaped, NEW kind \in Kinds, "remove" \in Operations(kind), page.at # "blank",
         NEW use, Confirming(kind, use), ~use
  PROVE  PlainEvent
BY PlainStay, PlainSend, OrdinaryOf, KeptPage, KeptFields DEF Confirming, AskRemoval

LEMMA ContractorsPlain == ASSUME Shaped, ContractorsEvent PROVE PlainEvent
<1>1. "contractors" \in Lists
  BY DEF Lists
<1>2. page.at = "contractors" /\ page.at # "blank"
  BY DEF ContractorsEvent
<1>3. CASE SearchContractors
  <2> DEFINE T == {"", "a"} \ {page.search}
  <2>0. \E s \in T : Acts(LoadContractors([page EXCEPT !.search = s]))
    BY <1>3, Zenon DEF SearchContractors
  <2> HIDE DEF T
  <2> QED BY <1>1, <1>2, <2>0, ListKinds, PlainSend, OrdinaryOf, KeptFields DEF LoadContractors
<1>4. CASE ContractorForm
  BY <1>1, <1>2, <1>4, PlainStay, KeptFields, Naming DEF ContractorForm
<1>5. CASE ContractorRow
  BY <1>1, <1>2, <1>5, PlainStay, KeptFields, Naming DEF ContractorRow, StartEditing, EditForm
<1> QED BY <1>1, <1>2, <1>3, <1>4, <1>5, ListKinds, Removal DEF ContractorsEvent

LEMMA VehiclesPlain == ASSUME Shaped, VehiclesEvent PROVE PlainEvent
<1>1. "vehicles" \in Lists
  BY DEF Lists
<1>2. page.at = "vehicles" /\ page.at # "blank"
  BY DEF VehiclesEvent
<1>3. CASE VehicleModal
  BY <1>1, <1>2, <1>3, PlainStay, KeptFields, Naming DEF VehicleModal
<1>4. CASE OpenVehicleModal
  <2>1. PICK id : Acts(Stay([page EXCEPT !.showModal = TRUE, !.editing = id]))
    BY <1>4, Zenon DEF OpenVehicleModal
  <2>2. Kept([page EXCEPT !.showModal = TRUE, !.editing = id])
    BY DEF Kept, Shaped
  <2> QED BY <1>2, <2>1, <2>2, PlainStay
<1>5. CASE ToggleVehicle
  <2>1. \A active : DOMAIN [active |-> active] \subseteq OrdinaryKeys
    BY DEF OrdinaryKeys
  <2> QED BY <1>1, <1>2, <1>5, <2>1, ListKinds, PlainSend, OrdinaryOf, KeptPage DEF ToggleVehicle
<1> QED BY <1>1, <1>2, <1>3, <1>4, <1>5, ListKinds, Removal DEF VehiclesEvent

LEMMA MarksPlain == ASSUME Shaped, MarksEvent PROVE PlainEvent
<1>1. page.at \in Lists /\ page.at # "blank" /\ {"signatures", "companySignatures", "stamps"} \subseteq Lists
  BY DEF MarksEvent, SignaturesEvent, CompanySignaturesEvent, StampsEvent, Lists
<1>2. \A x : DOMAIN [name |-> x] \subseteq OrdinaryKeys /\ DOMAIN [isDefault |-> x] \subseteq OrdinaryKeys
  BY DEF OrdinaryKeys
<1>3. CASE Draw
  BY <1>1, <1>2, <1>3, ListKinds, PlainStay, PlainSend, OrdinaryOf, KeptPage, KeptFields DEF Draw
<1>4. CASE Upload
  BY <1>1, <1>2, <1>4, ListKinds, PlainSend, OrdinaryOf, KeptPage DEF Upload
<1>5. CASE SetDefault
  BY <1>1, <1>2, <1>5, ListKinds, PlainSend, OrdinaryOf, KeptPage DEF SetDefault
<1>6. CASE Rename
  BY <1>1, <1>6, ListKinds, PlainStay, Naming, KeptFields DEF Rename
<1>7. CASE RemoveMark
  BY <1>1, <1>7, ListKinds, PlainSend, OrdinaryOf, KeptPage DEF RemoveMark
<1> QED BY <1>1, <1>3, <1>4, <1>5, <1>6, <1>7, ListKinds, Removal
        DEF MarksEvent, SignaturesEvent, CompanySignaturesEvent, StampsEvent

LEMMA CompaniesPlain == ASSUME Shaped, CompaniesEvent PROVE PlainEvent
<1>1. "companies" \in Kinds /\ "create" \in Operations("companies") /\ page.at # "blank"
  BY DEF CompaniesEvent, Kinds, Operations
<1>2. DOMAIN [name |-> "b"] \subseteq OrdinaryKeys
  BY DEF OrdinaryKeys
<1> QED BY <1>1, <1>2, PlainStay, PlainSend, OrdinaryOf, KeptPage, KeptFields DEF CompaniesEvent

LEMMA AdminsPlain == ASSUME Shaped, SearchUsers \/ UserEvent \/ PlansEvent PROVE PlainEvent
<1>1. /\ {"users", "plans", "credits"} \subseteq Kinds
      /\ {"update", "assign"} \subseteq Operations("users") /\ "create" \in Operations("credits")
      /\ {"create", "update", "remove"} \subseteq Operations("plans")
  BY DEF Kinds, AdminKinds, Operations
<1>0. page.at # "blank"
  <2>1. page.at \in {"users", "user", "plans"}
    BY Zenon DEF SearchUsers, UserEvent, PlansEvent
  <2> QED BY <2>1
<1>2. \A x : /\ DOMAIN [name |-> x] \subseteq OrdinaryKeys /\ DOMAIN [active |-> x] \subseteq OrdinaryKeys
             /\ DOMAIN [admin |-> x] \subseteq OrdinaryKeys /\ DOMAIN [plan |-> x] \subseteq OrdinaryKeys
             /\ DOMAIN [title |-> x] \subseteq OrdinaryKeys
  BY DEF OrdinaryKeys
<1>3. CASE SearchUsers
  <2> DEFINE T == {"", "a"} \ {page.search}
  <2>0. \E s \in T : Acts(LoadUsers([page EXCEPT !.search = s]))
    BY <1>3, Zenon DEF SearchUsers
  <2> HIDE DEF T
  <2> QED BY <1>0, <1>1, <2>0, PlainSend, OrdinaryOf, KeptFields DEF LoadUsers
<1>4. CASE UserEvent
  <2>1. \A id, x : Ordinary(Call("assign", "users", Me, id, [plan |-> x]))
    BY <1>1, <1>2, OrdinaryCall
  <2> QED BY <1>0, <1>1, <1>2, <1>4, <2>1, PlainSend, OrdinaryOf, KeptPage
          DEF UserEvent, ToggleActive, ToggleAdmin, AssignPlan, GrantCredits
<1>5. CASE PlansEvent
  <2>1. ASSUME NEW id, \/ Acts(Stay([page EXCEPT !.showCreate = TRUE, !.editing = id]))
                       \/ Acts(Stay([page EXCEPT !.showCreate = FALSE, !.editing = id]))
        PROVE  PlainEvent
    <3>1. /\ Kept([page EXCEPT !.showCreate = TRUE, !.editing = id])
          /\ Kept([page EXCEPT !.showCreate = FALSE, !.editing = id])
      BY DEF Kept, Shaped
    <3> QED BY <1>0, <2>1, <3>1, PlainStay
  <2>2. CASE Acts(Stay(ResetForm(page)))
    <3>1. Kept(ResetForm(page))
      BY DEF Kept, Shaped, ResetForm
    <3> QED BY <1>0, <2>2, <3>1, PlainStay
  <2>3. CASE SavePlan
    BY <1>0, <1>1, <1>2, <2>3, PlainSend, OrdinaryOf, KeptPage DEF SavePlan
  <2>4. ASSUME NEW id, Acts(Sends(page, Delete("plans", Me, id))) PROVE PlainEvent
    BY <1>0, <1>1, <2>4, PlainSend, OrdinaryOf, KeptPage
  <2> QED BY <1>5, <2>1, <2>2, <2>3, <2>4, Zenon DEF PlansEvent
<1> QED BY <1>3, <1>4, <1>5

-----------------------------------------------------------------------------
(* The page of a company, and those of the documents                        *)

\* The calls a page hears of when one of its tabs is left, or a check of a number dropped.
LEMMA DeafIs ==
  ASSUME NEW queue, queue \in Seq(Range(queue)), \A i \in DOMAIN queue : IsCall(queue[i]),
         NEW mine \in {"tab", "page", "none"}
  PROVE  /\ DOMAIN Deaf(queue, mine) = DOMAIN queue /\ Deaf(queue, mine) \in Seq(Range(Deaf(queue, mine)))
         /\ \A i \in DOMAIN queue : Same(Deaf(queue, mine)[i], queue[i])
         /\ mine = "none" => \A i \in DOMAIN queue : Deaf(queue, mine)[i].mine = "none"
<1>1. DOMAIN queue = 1..Len(queue) /\ Len(queue) \in Nat
  OBVIOUS
<1>2. DOMAIN Deaf(queue, mine) = DOMAIN queue
  BY DEF Deaf
<1>3. Deaf(queue, mine) \in Seq(Range(Deaf(queue, mine)))
  <2>1. Deaf(queue, mine) = [i \in 1..Len(queue) |-> Deaf(queue, mine)[i]]
    BY <1>1 DEF Deaf
  <2>2. \A i \in 1..Len(queue) : Deaf(queue, mine)[i] \in Range(Deaf(queue, mine))
    BY <1>1, <1>2 DEF Range
  <2> QED BY <1>1, <2>1, <2>2
<1>4. ASSUME NEW i \in DOMAIN queue
      PROVE  Same(Deaf(queue, mine)[i], queue[i]) /\ (mine = "none" => Deaf(queue, mine)[i].mine = "none")
  <2>1. Deaf(queue, mine)[i] = [queue[i] EXCEPT !.mine = IF @ = "none" THEN @ ELSE mine]
    BY <1>4 DEF Deaf
  <2> QED BY <2>1 DEF Same, IsCall, Fields
<1> QED BY <1>2, <1>3, <1>4

LEMMA UncheckedIs ==
  ASSUME Shaped
  PROVE  /\ DOMAIN Unchecked(net) = DOMAIN net /\ Unchecked(net) \in Seq(Range(Unchecked(net)))
         /\ \A i \in DOMAIN net : Same(Unchecked(net)[i], net[i])
<1>1. DOMAIN net = 1..Len(net) /\ Len(net) \in Nat
  BY DEF Shaped
<1>2. DOMAIN Unchecked(net) = DOMAIN net
  BY DEF Unchecked
<1>3. Unchecked(net) \in Seq(Range(Unchecked(net)))
  <2>1. Unchecked(net) = [i \in 1..Len(net) |-> Unchecked(net)[i]]
    BY <1>1 DEF Unchecked
  <2>2. \A i \in 1..Len(net) : Unchecked(net)[i] \in Range(Unchecked(net))
    BY <1>1, <1>2 DEF Range
  <2> QED BY <1>1, <2>1, <2>2
<1>4. ASSUME NEW i \in DOMAIN net PROVE Same(Unchecked(net)[i], net[i])
  <2>1. Unchecked(net)[i] = IF IsCheck(net[i]) THEN [net[i] EXCEPT !.mine = "none"] ELSE net[i]
    BY <1>4 DEF Unchecked
  <2>2. IsCall(net[i])
    BY DEF Shaped
  <2> QED BY <2>1, <2>2 DEF Same, IsCall, Fields
<1> QED BY <1>2, <1>3, <1>4

LEMMA MembersPlain == ASSUME Shaped, MembersEvent PROVE PlainEvent
<1>1. {"members", "invitations"} \subseteq Lists /\ page.at # "blank"
  BY DEF MembersEvent, InTab, Ready, Lists
<1>2. \A x, y : DOMAIN [role |-> x, name |-> y] \subseteq OrdinaryKeys /\ DOMAIN [role |-> x] \subseteq OrdinaryKeys
  BY DEF OrdinaryKeys
<1>3. Kept(Closed(page))
  BY DEF Shaped, Kept, Closed
<1>4. ASSUME NEW what, NEW id, Ask(what, id) PROVE PlainEvent
  <2>1. Kept([page EXCEPT !.asked = what, !.deleting = id])
    BY DEF Shaped, Kept
  <2> QED BY <1>1, <1>4, <2>1, PlainStay DEF Ask
<1>5. CASE AddMember
  BY <1>1, <1>2, <1>5, ListKinds, PlainSend, OrdinaryOf, KeptPage DEF AddMember
<1>6. CASE ChangeRole
  BY <1>1, <1>2, <1>6, ListKinds, PlainSend, OrdinaryOf, KeptPage DEF ChangeRole
<1>7. CASE AskMember
  BY <1>4, <1>7 DEF AskMember
<1>8. CASE RemoveMember
  BY <1>1, <1>3, <1>8, ListKinds, PlainSend, OrdinaryOf DEF RemoveMember
<1>9. CASE Cancel
  BY <1>1, <1>3, <1>9, PlainStay DEF Cancel
<1> QED BY <1>5, <1>6, <1>7, <1>8, <1>9 DEF MembersEvent

\* A save of the accounts.
LEMMA AccountsQuiet ==
  ASSUME Shaped, NEW p, "at" \in DOMAIN p, p.at = page.at, page.at = "company",
         NEW accounts, NEW gone, NEW edited, Acts(SaveAccounts(p, accounts, gone, edited))
  PROVE  QuietEvent
<1> DEFINE body == [accounts |-> accounts, gone |-> gone, edited |-> edited]
           c == Update("companies", Me, page.co, body)
<1>1. "companies" \in Kinds /\ "update" \in Operations("companies")
  BY DEF Kinds, Operations
<1>2. Sent(c) /\ c.body = body /\ c.op = "update"
  <2> HIDE DEF body
  <2>1. c.body = body /\ c.op = "update"
    BY DEF Update, Call
  <2> QED BY <1>1, <2>1, SentCall DEF Update
<1>3. Quiet(c)
  BY <1>2 DEF Quiet, Mine
<1> HIDE DEF c
<1>4. "at" \in DOMAIN Busy(p, "bankSaving") /\ Busy(p, "bankSaving").at = page.at
  BY DEF Busy
<1> QED BY <1>3, <1>4, QuietSend DEF SaveAccounts, c

LEMMA SettingsQuiet == ASSUME Shaped, SettingsEvent PROVE QuietEvent
<1>1. "companies" \in Kinds /\ {"update", "remove"} \subseteq Operations("companies") /\ page.at = "company" /\ page.at # "blank"
  BY DEF SettingsEvent, InTab, Ready, Kinds, Operations
<1>2. \A x, y : DOMAIN [name |-> x, flag |-> y] \subseteq OrdinaryKeys
  BY DEF OrdinaryKeys
<1>3. Kept(Closed(page)) /\ Kept(Busy(Closed(page), "deleting"))
  BY DEF Shaped, Kept, Closed, Busy
<1>4. ASSUME NEW what, NEW id, Ask(what, id) PROVE QuietEvent
  <2>1. Kept([page EXCEPT !.asked = what, !.deleting = id])
    BY DEF Shaped, Kept
  <2> QED BY <1>1, <1>4, <2>1, PlainStay, PlainIsQuiet DEF Ask
<1>5. ASSUME NEW flag, SaveFields(flag) PROVE QuietEvent
  BY <1>1, <1>2, <1>5, PlainSend, OrdinaryOf, KeptPage, PlainIsQuiet DEF SaveFields
<1>6. ASSUME NEW accounts, NEW gone, NEW edited, Acts(SaveAccounts(page, accounts, gone, edited)) PROVE QuietEvent
  BY <1>1, <1>6, AccountsQuiet DEF Shaped
<1>7. CASE RemoveAccount
  <2> DEFINE left == Without(page.accounts, page.deleting)
             heir == IF left # <<>> /\ \E a \in Accounts : a.id = page.deleting /\ a.isDefault THEN left[1].id ELSE None
             p == [Closed(page) EXCEPT
                     !.accounts = Flagged(@, heir),
                     !.company = IF page.aliased THEN <<[@[1] EXCEPT !.accounts = Flagged(@, heir)]>> ELSE @]
  <2>1. Acts(SaveAccounts(p, Flagged(left, heir), page.deleting, FALSE))
    BY <1>7, Zenon DEF RemoveAccount
  <2>3. "at" \in DOMAIN p /\ p.at = page.at
    <3> HIDE DEF heir
    <3>1. "at" \in DOMAIN Closed(page) /\ Closed(page).at = page.at
      BY <1>3 DEF Kept
    <3>2. "at" \in DOMAIN p
      BY <3>1
    <3>3. p["at"] = Closed(page)["at"]
      BY <3>1
    <3> QED BY <3>1, <3>2, <3>3
  <2> HIDE DEF p, left, heir
  <2> QED BY <1>1, <2>1, <2>3, AccountsQuiet
<1>8. CASE DeleteCompany
  BY <1>1, <1>3, <1>8, PlainSend, OrdinaryOf, PlainIsQuiet DEF DeleteCompany
<1>9. CASE Cancel
  BY <1>1, <1>3, <1>9, PlainStay, PlainIsQuiet DEF Cancel
<1>10. CASE AddAccount
  BY <1>6, <1>10 DEF AddAccount
<1>11. CASE AccountRow
  <2>1. ASSUME NEW a, StartEdit(a) PROVE QuietEvent
    BY <1>1, <2>1, PlainStay, KeptFields, PlainIsQuiet DEF StartEdit
  <2>2. ASSUME NEW a, SetDefaultAccount(a) PROVE QuietEvent
    BY <1>6, <2>2, Zenon DEF SetDefaultAccount
  <2> QED BY <1>4, <1>11, <2>1, <2>2 DEF AccountRow
<1>12. CASE CancelEdit
  BY <1>1, <1>12, PlainStay, KeptFields, PlainIsQuiet DEF CancelEdit
<1>13. CASE EditAccount
  BY <1>6, <1>13 DEF EditAccount
<1>14. CASE CompanyForm \/ TranslationsForm \/ DangerZone
  BY <1>4, <1>5, <1>14 DEF CompanyForm, TranslationsForm, DangerZone
<1> QED BY <1>7, <1>8, <1>9, <1>10, <1>11, <1>12, <1>13, <1>14 DEF SettingsEvent

LEMMA CompanyQuiet == ASSUME Shaped, CompanyEvent PROVE QuietEvent
<1>1. CASE OpenTab
  <2>1. page.at # "blank"
    BY <1>1 DEF OpenTab, Ready
  <2>2. PICK tab : Takes(Stay(MountTab(tab)), Deaf(net, "page"))
    BY <1>1 DEF OpenTab
  <2>3. Kept(MountTab(tab))
    BY DEF Kept, Shaped, MountTab
  <2>4. <<>> \in Seq({}) /\ DOMAIN <<>> = {}
    OBVIOUS
  <2>5. /\ DOMAIN Deaf(net, "page") = DOMAIN net /\ Deaf(net, "page") \in Seq(Range(Deaf(net, "page")))
        /\ \A i \in DOMAIN net : Same(Deaf(net, "page")[i], net[i])
    BY DeafIs DEF Shaped
  <2> QED BY <2>1, <2>2, <2>3, <2>4, <2>5, QuietTakes DEF Kept, Stay
<1>2. CASE MembersEvent
  <2>1. page.at # "blank"
    BY <1>2 DEF MembersEvent, InTab, Ready
  <2> QED BY <1>2, <2>1, MembersPlain, PlainIsQuiet
<1> QED BY <1>1, <1>2, SettingsQuiet DEF CompanyEvent

LEMMA DocumentCalls ==
  ASSUME NEW co, NEW id, NEW x
  PROVE  /\ Ordinary(Call("check", "documents", co, None, [number |-> x]))
         /\ Ordinary(Call("next", "documents", co, None, NoBody))
         /\ Ordinary(Call("send", "documents", co, id, NoBody))
         /\ Ordinary(Call("remove", "documents", co, id, [open |-> x]))
         /\ Ordinary(Duplicate(co, id, x))
         /\ Ordinary(Update("documents", co, id, [name |-> x]))
         /\ x \in Statuses => Quiet(Update("documents", co, id, [status |-> x]))
<1>1. "documents" \in Kinds
      /\ {"check", "next", "send", "remove", "create", "update"} \subseteq Operations("documents")
  BY DEF Kinds, Operations
<1>2. DOMAIN NoBody \subseteq OrdinaryKeys
  BY DEF NoBody, OrdinaryKeys
<1>3. DOMAIN [number |-> x] \subseteq OrdinaryKeys /\ DOMAIN [open |-> x] \subseteq OrdinaryKeys
      /\ DOMAIN [name |-> "b", number |-> 0, from |-> id, open |-> x] \subseteq OrdinaryKeys
      /\ DOMAIN [name |-> x] \subseteq OrdinaryKeys
  BY DEF OrdinaryKeys
<1>4. /\ Ordinary(Call("check", "documents", co, None, [number |-> x]))
      /\ Ordinary(Call("next", "documents", co, None, NoBody))
      /\ Ordinary(Call("send", "documents", co, id, NoBody))
      /\ Ordinary(Call("remove", "documents", co, id, [open |-> x]))
  BY <1>1, <1>2, <1>3, OrdinaryCall
<1>5. Ordinary(Duplicate(co, id, x))
  BY <1>1, <1>3, OrdinaryCall DEF Duplicate, Create
<1>6. Ordinary(Update("documents", co, id, [name |-> x]))
  BY <1>1, <1>3, OrdinaryCall DEF Update
<1>7. ASSUME x \in Statuses PROVE Quiet(Update("documents", co, id, [status |-> x]))
  <2> DEFINE body == [status |-> x]
             c == Update("documents", co, id, body)
  <2>1. DOMAIN body = {"status"} /\ body.status = x
    OBVIOUS
  <2> HIDE DEF body
  <2>2. c.body = body /\ c.op = "update" /\ Sent(c)
    <3>1. c.body = body /\ c.op = "update"
      BY DEF Update, Call
    <3>2. "update" \in Operations("documents")
      BY <1>1
    <3> QED BY <1>1, <3>1, <3>2, SentCall DEF Update
  <2>3. Quiet(c)
    <3> HIDE DEF c
    <3> QED BY <1>7, <2>1, <2>2 DEF Quiet, Mine
  <2> QED BY <2>3 DEF body
<1> QED BY <1>4, <1>5, <1>6, <1>7

LEMMA KeptChecking == ASSUME NEW p, Kept(p) PROVE Kept(Checking(p))
BY DEF Kept, Checking, Busy

LEMMA NumberChecks ==
  ASSUME NEW p
  PROVE  /\ NumberCheck(p) \in Seq({c \in Range(NumberCheck(p)) : Quiet(c)})
         /\ Prefill(p) \in Seq({c \in Range(Prefill(p)) : Quiet(c)})
<1>1. "contractors" \in Kinds
  BY DEF Kinds
<1>2. ASSUME NEW a, Quiet(a) PROVE <<a>> \in Seq({c \in Range(<<a>>) : Quiet(c)})
  BY <1>2 DEF Range
<1>3. ASSUME NEW a, NEW b, Quiet(a), Quiet(b) PROVE <<a, b>> \in Seq({c \in Range(<<a, b>>) : Quiet(c)})
  BY <1>3 DEF Range
<1>4. <<>> \in Seq({c \in Range(<<>>) : Quiet(c)})
  OBVIOUS
<1>5. Quiet(Call("check", "documents", p.co, None, [number |-> p.debounced]))
  BY DocumentCalls, OrdinaryIsQuiet
<1>6. Quiet(Call("next", "documents", p.co, None, NoBody))
  BY DocumentCalls, OrdinaryIsQuiet
<1>7. ASSUME NEW s PROVE Quiet(List("contractors", p.co, s))
  BY <1>1, OrdinaryOf, OrdinaryIsQuiet
<1>8. NumberCheck(p) = <<>> \/ NumberCheck(p) = <<Call("check", "documents", p.co, None, [number |-> p.debounced])>>
  BY DEF NumberCheck
<1>9. \/ Prefill(p) = <<>>
      \/ \E s : Prefill(p) = <<List("contractors", p.co, s), Call("next", "documents", p.co, None, NoBody)>>
  BY Zenon DEF Prefill
<1>10. NumberCheck(p) \in Seq({c \in Range(NumberCheck(p)) : Quiet(c)})
  BY <1>2, <1>4, <1>5, <1>8
<1>11. Prefill(p) \in Seq({c \in Range(Prefill(p)) : Quiet(c)})
  BY <1>3, <1>4, <1>6, <1>7, <1>9
<1> QED BY <1>10, <1>11

LEMMA DocumentsQuiet == ASSUME Shaped, DocumentsEvent PROVE QuietEvent
<1>1. page.at = "documents" /\ page.at # "blank"
  BY DEF DocumentsEvent
<1>2. "documents" \in Kinds /\ {"remove", "create"} \subseteq Operations("documents")
  BY DEF Kinds, Operations
<1>3. CASE DebounceNumber
  <2> DEFINE p == [page EXCEPT !.debounced = page.number]
  <2>1. Kept(Checking(p))
    <3>1. Kept(p)
      BY DEF Kept, Shaped
    <3> QED BY <3>1, KeptChecking
  <2>2. Takes(Step(Checking(p), store, NumberCheck(p)), Unchecked(net))
    BY <1>3 DEF DebounceNumber
  <2> HIDE DEF p
  <2>3. PICK calls : calls = NumberCheck(p)
    OBVIOUS
  <2>4. calls \in Seq({c \in Range(calls) : Quiet(c)})
    BY <2>3, NumberChecks
  <2>5. \A i \in DOMAIN calls : Quiet(calls[i])
    BY <2>4
  <2> QED BY <1>1, <2>1, <2>2, <2>3, <2>4, <2>5, UncheckedIs, QuietTakes DEF Kept
<1>4. CASE ToggleCreate
  <2> DEFINE p == [page EXCEPT !.showCreate = ~@]
  <2>1. Kept(Checking(p))
    <3>1. Kept(p)
      BY DEF Kept, Shaped
    <3> QED BY <3>1, KeptChecking
  <2>2. Takes(Step(Checking(p), store, Prefill(p) \o NumberCheck(p)), Unchecked(net))
    BY <1>4 DEF ToggleCreate
  <2> HIDE DEF p
  <2>3. PICK a, b : a = Prefill(p) /\ b = NumberCheck(p)
    OBVIOUS
  <2>4. PICK calls : calls = a \o b
    OBVIOUS
  <2>5. calls \in Seq({c \in Range(a) \cup Range(b) : Quiet(c)})
    <3>1. a \in Seq({c \in Range(a) : Quiet(c)}) /\ b \in Seq({c \in Range(b) : Quiet(c)})
      BY <2>3, NumberChecks
    <3>2. a \in Seq({c \in Range(a) \cup Range(b) : Quiet(c)}) /\ b \in Seq({c \in Range(a) \cup Range(b) : Quiet(c)})
      BY <3>1
    <3> QED BY <2>4, <3>2
  <2>6. \A i \in DOMAIN calls : Quiet(calls[i])
    BY <2>5
  <2> QED BY <1>1, <2>1, <2>2, <2>3, <2>4, <2>5, <2>6, UncheckedIs, QuietTakes DEF Kept
<1>5. CASE FilterDocuments
  <2> DEFINE T == {"", "a"} \ {page.search}
  <2>0. \E s \in T : Acts(LoadDocuments([page EXCEPT !.search = s]))
    BY <1>5, Zenon DEF FilterDocuments
  <2> HIDE DEF T
  <2> QED BY <1>1, <1>2, <2>0, PlainSend, OrdinaryOf, KeptFields, PlainIsQuiet DEF LoadDocuments
<1>6. CASE TypeNumber \/ AskCancel
  BY <1>1, <1>6, PlainStay, KeptFields, PlainIsQuiet DEF TypeNumber, AskCancel
<1>7. CASE CreateDocument
  <2>1. DOMAIN [name |-> "a", number |-> page.number, from |-> None, open |-> TRUE] \subseteq OrdinaryKeys
    BY DEF OrdinaryKeys
  <2> QED BY <1>1, <1>2, <1>7, <2>1, PlainSend, OrdinaryOf, KeptPage, PlainIsQuiet DEF CreateDocument
<1>8. CASE DuplicateRow
  BY <1>1, <1>8, PlainSend, DocumentCalls, KeptPage, PlainIsQuiet DEF DuplicateRow
<1>9. CASE CancelDialog
  <2>1. "CANCELLED" \in Statuses
    BY DEF Statuses
  <2> QED BY <1>1, <1>9, <2>1, PlainStay, QuietSend, DocumentCalls, KeptPage, KeptFields, PlainIsQuiet DEF CancelDialog, Kept
<1>10. CASE DeleteDialog(page.deleting, FALSE)
  BY <1>1, <1>10, PlainStay, PlainSend, DocumentCalls, KeptPage, KeptFields, PlainIsQuiet DEF DeleteDialog
<1>11. CASE AskRemoval("documents")
  BY <1>1, <1>11, PlainStay, KeptFields, PlainIsQuiet DEF AskRemoval
<1> QED BY <1>3, <1>4, <1>5, <1>6, <1>7, <1>8, <1>9, <1>10, <1>11 DEF DocumentsEvent

\* A page of a document: the PDF is made of what the server answers.
Peeks ==
  /\ Sending
  /\ LET c == Call("peek", "documents", page.co, Doc.id, [data |-> Doc.data])
     IN  \A i \in DOMAIN net' \ DOMAIN net : net'[i] = c

LEMMA DocumentQuiet == ASSUME Shaped, DocumentEvent PROVE QuietEvent \/ (page.at = "document" /\ Peeks /\ DocShown)
<1>1. page.at = "document" /\ page.at # "blank" /\ DocShown
  BY DEF DocumentEvent
<1>2. CASE SendDialog
  BY <1>1, <1>2, PlainStay, PlainSend, DocumentCalls, KeptPage, KeptFields, PlainIsQuiet DEF SendDialog
<1>3. CASE DeleteDialog(Doc.id, TRUE)
  BY <1>1, <1>3, PlainStay, PlainSend, DocumentCalls, KeptPage, KeptFields, PlainIsQuiet DEF DeleteDialog
<1>4. CASE EditDocument
  BY <1>1, <1>4, PlainStay, PlainSend, DocumentCalls, KeptPage, KeptFields, PlainIsQuiet DEF EditDocument
<1>5. CASE ChangeStatus
  <2>1. \A s : Offered(s) \subseteq Statuses
    BY DEF Offered, Statuses
  <2> QED BY <1>1, <1>5, <2>1, QuietSend, DocumentCalls, KeptPage DEF ChangeStatus, Kept
<1>6. CASE GeneratePdf
  BY <1>1, <1>6, ActsSends, KeptPage DEF GeneratePdf, Kept, Peeks
<1>7. CASE Acts(Stay([page EXCEPT !.showSend = TRUE])) \/ Acts(Stay([page EXCEPT !.deleting = Doc.id]))
  BY <1>1, <1>7, PlainStay, KeptFields, PlainIsQuiet
<1>8. CASE Acts(Sends(page, Duplicate(page.co, Doc.id, TRUE)))
  BY <1>1, <1>8, PlainSend, DocumentCalls, KeptPage, PlainIsQuiet
<1> QED BY <1>1, <1>2, <1>3, <1>4, <1>5, <1>6, <1>7, <1>8 DEF DocumentEvent

-----------------------------------------------------------------------------
(* Steps that leave the rows of the server alone                            *)

OwnCall(sv, p, c) == OwnBody(sv, c) /\ OwnAnswer(sv, c) /\ OwnHeard(sv, p, c)

\* A call in flight that goes on, and one that is sent.
Carried(sv, p, q, after, c) ==
  /\ IsCall(c) /\ OwnCall(sv, p, c) /\ Same(after, c)
  /\ q.at = "builder" /\ after.mine # "none" => p.at = "builder" /\ q.id = p.id
Fresh(sv, q, c) == IsCall(c) /\ c.at \in {"sent", "reading"} /\ OwnBody(sv, c) /\ OwnHeard(sv, q, c)

LEMMA CarriedIs ==
  ASSUME NEW sv, NEW p, NEW q, NEW after, NEW c, Carried(sv, p, q, after, c)
  PROVE  IsCall(after) /\ OwnCall(sv, q, after)
<1>1. /\ IsCall(after) /\ after.op = c.op /\ after.kind = c.kind /\ after.id = c.id
      /\ after.body = c.body /\ after.at = c.at /\ after.answer = c.answer
      /\ c.mine = "none" => after.mine = "none"
  BY SameIs DEF Carried
<1>2. OwnBody(sv, after)
  BY <1>1 DEF Carried, OwnCall, OwnBody, IsPeek
<1>3. OwnAnswer(sv, after)
  BY <1>1 DEF Carried, OwnCall, OwnAnswer
<1>4. OwnHeard(sv, q, after)
  BY <1>1 DEF Carried, OwnCall, OwnHeard, IsPeek, IsUpload, IsStatus
<1> QED BY <1>1, <1>2, <1>3, <1>4 DEF OwnCall

LEMMA FreshIs == ASSUME NEW sv, NEW q, NEW c, Fresh(sv, q, c) PROVE IsCall(c) /\ OwnCall(sv, q, c)
BY DEF Fresh, OwnCall, OwnAnswer

\* What has to be shown of such a step.
LEMMA OwnAfter ==
  ASSUME Shaped, DraftsOwn, server' = server,
         "at" \in DOMAIN page', page'.at \in Routes \ {"blank"},
         DOMAIN store' = Stores, DOMAIN store'.rows = Kinds,
         OwnCurrent(server, store'.current), OwnPage(server, page'),
         net' \in Seq(Range(net')),
         \A i \in DOMAIN net' : IsCall(net'[i]) /\ OwnCall(server, page', net'[i])
  PROVE  Shaped' /\ DraftsOwn'
<1>1. Shaped'
  BY DEF Shaped
<1>2. DraftsOwn'
  BY DEF DraftsOwn, OwnCall
<1> QED BY <1>1, <1>2

LEMMA OwnStep ==
  ASSUME Shaped, DraftsOwn, server' = server,
         "at" \in DOMAIN page', page'.at \in Routes \ {"blank"},
         DOMAIN store' = Stores, DOMAIN store'.rows = Kinds,
         OwnCurrent(server, store'.current), OwnPage(server, page'),
         net' \in Seq(Range(net')),
         \A i \in DOMAIN net' : \/ \E j \in DOMAIN net : Carried(server, page, page', net'[i], net[j])
                                \/ Fresh(server, page', net'[i])
  PROVE  Shaped' /\ DraftsOwn'
<1>1. \A i \in DOMAIN net' : IsCall(net'[i]) /\ OwnCall(server, page', net'[i])
  BY CarriedIs, FreshIs
<1> QED BY <1>1, OwnAfter

\* The page stays and sends calls.
LEMMA OwnSending ==
  ASSUME Shaped, DraftsOwn, Sending, page.at # "blank", OwnPage(server, page'),
         page.at = "builder" => page'.id = page.id,
         \A i \in DOMAIN net' \ DOMAIN net : Fresh(server, page', net'[i])
  PROVE  Shaped' /\ DraftsOwn'
<1>1. ASSUME NEW i \in DOMAIN net PROVE Carried(server, page, page', net'[i], net[i])
  <2>1. IsCall(net[i]) /\ OwnCall(server, page, net[i]) /\ net'[i] = net[i]
    BY DEF Shaped, DraftsOwn, Sending, OwnCall
  <2>2. Same(net'[i], net[i])
    BY <2>1 DEF Same, IsCall
  <2> QED BY <2>1, <2>2 DEF Carried, Sending
<1>2. store'.rows = store.rows /\ store'.current = store.current
  BY DEF Sending, Stores
<1>3. page'.at \in Routes \ {"blank"} /\ DOMAIN store' = Stores /\ DOMAIN store'.rows = Kinds
  BY <1>2 DEF Shaped, Sending
<1>4. OwnCurrent(server, store'.current)
  BY <1>2 DEF DraftsOwn
<1> QED BY <1>1, <1>3, <1>4, OwnStep DEF Sending

\* A call of a page that is not the builder's.
LEMMA QuietIsFresh == ASSUME NEW c, Quiet(c), NEW p, p.at # "builder" PROVE Fresh(server, p, c)
<1>1. "data" \notin DOMAIN c.body /\ "pdf" \notin DOMAIN c.body /\ "id" \notin DOMAIN c.body /\ ~IsPeek(c)
  BY DEF Quiet, IsPeek
<1> QED BY <1>1 DEF Quiet, Fresh, Sent, OwnBody, OwnHeard

LEMMA OwnQuiet ==
  ASSUME Shaped, DraftsOwn, QuietEvent, page.at # "builder"
  PROVE  Shaped' /\ DraftsOwn'
<1>1. page'.at \in Routes \ {"blank"} /\ page'.at # "builder"
  BY DEF QuietEvent, Shaped
<1>2. store'.rows = store.rows /\ store'.current = store.current
  BY DEF QuietEvent, Stores
<1>3. DOMAIN store' = Stores /\ DOMAIN store'.rows = Kinds /\ OwnCurrent(server, store'.current)
  BY <1>2 DEF Shaped, DraftsOwn, QuietEvent
<1>4. OwnPage(server, page')
  BY <1>1 DEF OwnPage
<1>5. ASSUME NEW i \in DOMAIN net PROVE Carried(server, page, page', net'[i], net[i])
  BY <1>1 DEF Shaped, DraftsOwn, QuietEvent, OwnCall, Carried
<1>6. ASSUME NEW i \in DOMAIN net' \ DOMAIN net PROVE Fresh(server, page', net'[i])
  BY <1>1, <1>6, QuietIsFresh DEF QuietEvent
<1> QED BY <1>1, <1>3, <1>4, <1>5, <1>6, OwnStep DEF QuietEvent

\* The PDF of a document's page is made of the data of that document.
LEMMA OwnPeeks ==
  ASSUME Shaped, DraftsOwn, Peeks, page.at = "document", DocShown
  PROVE  Shaped' /\ DraftsOwn'
<1>1. page'.at # "builder" /\ OwnPage(server, page')
  BY DEF Peeks, Sending, OwnPage
<1>2. OwnRow(server, Doc)
  BY DEF DocShown, Doc, DraftsOwn, OwnCurrent
<1> DEFINE body == [data |-> Doc.data]
           c == Call("peek", "documents", page.co, Doc.id, body)
<1>3. "documents" \in Kinds /\ "peek" \in Operations("documents")
  BY DEF Kinds, Operations
<1>4. DOMAIN body = {"data"} /\ body.data = Doc.data
  OBVIOUS
<1>5. \A i \in DOMAIN net' \ DOMAIN net : net'[i] = c
  BY DEF Peeks
<1> HIDE DEF body
<1>6. Sent(c)
  BY <1>3, SentCall
<1>7. c.body = body /\ c.id = Doc.id /\ c.op = "peek"
  BY DEF Call
<1>8. OwnBody(server, c)
  <2> HIDE DEF c
  <2> QED BY <1>2, <1>4, <1>7 DEF OwnBody, OwnRow
<1>9. Fresh(server, page', c)
  <2> HIDE DEF c
  <2> QED BY <1>1, <1>6, <1>8 DEF Fresh, Sent, OwnHeard
<1> HIDE DEF c
<1> QED BY <1>1, <1>5, <1>9, OwnSending DEF Peeks

-----------------------------------------------------------------------------
(* The builder                                                              *)

Building(sv, p, id) == "at" \in DOMAIN p /\ p.at = "builder" /\ p.id = id /\ OwnPage(sv, p)

LEMMA BuildingKept ==
  ASSUME NEW sv, NEW p, NEW id, Building(sv, p, id)
  PROVE  /\ \A v : Building(sv, Busy(p, v), id)
         /\ \A v : Building(sv, Idle(p, v), id)
         /\ Building(sv, [p EXCEPT !.timer = <<>>], id)
         /\ \A v : Building(sv, [p EXCEPT !.modal = v], id)
         /\ \A v : Building(sv, [p EXCEPT !.unsaved = v], id)
         /\ \A v : Building(sv, [p EXCEPT !.loading = v], id)
         /\ \A v, w : Building(sv, [p EXCEPT !.modal = v, !.busy = w], id)
         /\ Building(sv, Edited(p), id)
<1> DEFINE As(q) == /\ DOMAIN q = DOMAIN p /\ q["at"] = p["at"] /\ q["id"] = p["id"]
                    /\ "of" \in DOMAIN q["draft"] /\ q["draft"].of = p["draft"].of
                    /\ q["timer"] \in {<<>>, p["timer"], <<q["draft"]>>}
<1>1. ASSUME NEW q, As(q) PROVE Building(sv, q, id)
  <2>1. /\ {"at", "id", "draft", "timer"} \subseteq DOMAIN q /\ q.at = "builder" /\ q.id = id
        /\ p.id \in 1..Born(sv)
    BY <1>1 DEF Building, OwnPage
  <2>2. Own(sv, q.draft, id)
    BY <1>1 DEF Building, OwnPage, Own
  <2>3. q.timer # <<>> => Own(sv, q.timer[1], id)
    BY <1>1, <2>2 DEF Building, OwnPage
  <2> QED BY <2>1, <2>2, <2>3 DEF Building, OwnPage
<1>0. "at" \in DOMAIN p /\ {"id", "draft", "timer"} \subseteq DOMAIN p /\ "of" \in DOMAIN p["draft"]
  BY DEF Building, OwnPage, Own
<1>2. ASSUME NEW v
      PROVE  /\ As(Busy(p, v)) /\ As(Idle(p, v)) /\ As([p EXCEPT !.modal = v])
             /\ As([p EXCEPT !.unsaved = v]) /\ As([p EXCEPT !.loading = v])
  BY <1>0 DEF Busy, Idle
<1>3. ASSUME NEW v, NEW w PROVE As([p EXCEPT !.timer = <<>>]) /\ As([p EXCEPT !.modal = v, !.busy = w])
  BY <1>0
<1>4. As(Edited(p))
  <2> DEFINE draft == [p.draft EXCEPT !.v = p.edits + 1]
  <2>1. "of" \in DOMAIN draft /\ draft.of = p["draft"].of
    BY <1>0
  <2> HIDE DEF draft
  <2>2. Edited(p) = [p EXCEPT !.draft = draft, !.edits = @ + 1, !.unsaved = TRUE, !.timer = <<draft>>]
    BY DEF Edited, draft
  <2> QED BY <1>0, <2>1, <2>2
<1> HIDE DEF As
<1> QED BY <1>1, <1>2, <1>3, <1>4, Zenon

\* The page of the builder sends one call, which is to write what is of its document.
LEMMA OwnBuilding ==
  ASSUME Shaped, DraftsOwn, page.at = "builder", NEW p, Building(server, p, page.id)
  PROVE  /\ Acts(Stay(p)) => Shaped' /\ DraftsOwn'
         /\ \A c : Fresh(server, p, c) /\ Takes(Step(p, store, <<c>>), net) => Shaped' /\ DraftsOwn'
<1>1. ASSUME Acts(Stay(p)) PROVE Shaped' /\ DraftsOwn'
  <2>1. PlainEvent /\ page' = p /\ net' = net
    BY <1>1, ActsStay DEF Building
  <2> QED BY <2>1, OwnSending DEF PlainEvent, Building
<1>2. ASSUME NEW c, Fresh(server, p, c), Takes(Step(p, store, <<c>>), net) PROVE Shaped' /\ DraftsOwn'
  <2>1. <<c>> \in Seq({c}) /\ DOMAIN <<c>> = {1} /\ <<c>>[1] = c
    OBVIOUS
  <2>2. Sending /\ page' = p /\ \A i \in DOMAIN net' \ DOMAIN net : \E k \in DOMAIN <<c>> : net'[i] = <<c>>[k]
    BY <1>2, <2>1, TakesSends, Zenon DEF Building
  <2>3. \A i \in DOMAIN net' \ DOMAIN net : net'[i] = c
    BY <2>1, <2>2
  <2> QED BY <1>2, <2>2, <2>3, OwnSending DEF Building
<1> QED BY <1>1, <1>2

\* The calls of the builder.
LEMMA FreshSave ==
  ASSUME NEW p, NEW co, NEW id, NEW draft, NEW by, Own(server, draft, id)
  PROVE  Fresh(server, p, Update("documents", co, id, [data |-> draft, by |-> by]))
<1> DEFINE body == [data |-> draft, by |-> by]
           c == Update("documents", co, id, body)
<1>1. "documents" \in Kinds /\ "update" \in Operations("documents")
  BY DEF Kinds, Operations
<1>2. DOMAIN body = {"data", "by"} /\ body.data = draft
  OBVIOUS
<1> HIDE DEF body
<1>3. Sent(c) /\ c.body = body /\ c.id = id /\ c.op = "update"
  <2>1. c.body = body /\ c.id = id /\ c.op = "update"
    BY DEF Update, Call
  <2> QED BY <1>1, <2>1, SentCall DEF Update
<1>4. {"data", "by"} # {"pdf"} /\ {"data", "by"} # {"status"}
  OBVIOUS
<1> HIDE DEF c
<1>5. Fresh(server, p, c)
  BY <1>2, <1>3, <1>4 DEF Fresh, Sent, OwnBody, OwnHeard, IsPeek, IsUpload, IsStatus
<1> QED BY <1>5 DEF c, body

LEMMA FreshOther ==
  ASSUME NEW p, NEW op, NEW kind \in Kinds, NEW co, NEW id, NEW body, op \in Operations(kind),
         DOMAIN body \cap {"data", "pdf", "id", "status"} = {}, op # "get", op = "peek" => kind # "documents"
  PROVE  Fresh(server, p, Call(op, kind, co, id, body))
<1> DEFINE c == Call(op, kind, co, id, body)
<1>1. Sent(c) /\ c.body = body /\ c.op = op /\ c.kind = kind
  <2>1. c.body = body /\ c.op = op /\ c.kind = kind
    BY DEF Call
  <2> QED BY <2>1, SentCall
<1>2. DOMAIN body # {"pdf"} /\ DOMAIN body # {"status"} /\ {"data", "pdf", "id"} \cap DOMAIN body = {}
  OBVIOUS
<1> HIDE DEF c
<1>3. Fresh(server, p, c)
  BY <1>1, <1>2 DEF Fresh, Sent, OwnBody, OwnHeard, IsPeek, IsUpload, IsStatus
<1> QED BY <1>3 DEF c

LEMMA BuilderOwn == ASSUME Shaped, DraftsOwn, BuilderEvent PROVE Shaped' /\ DraftsOwn'
<1>1. page.at = "builder"
  BY DEF BuilderEvent, AutoSave, BuilderShown
<1>2. Building(server, page, page.id)
  BY <1>1 DEF Building, DraftsOwn, Shaped
<1>3. Own(server, page.draft, page.id) /\ (page.timer # <<>> => Own(server, page.timer[1], page.id))
  BY <1>1 DEF DraftsOwn, OwnPage
<1>4. ASSUME NEW draft, NEW by, Own(server, draft, page.id),
             Takes(Save(page, draft, by), net)
      PROVE  Shaped' /\ DraftsOwn'
  <2> DEFINE p == Busy([page EXCEPT !.timer = <<>>], by)
             q == [page EXCEPT !.timer = <<>>]
  <2>1. q.co = page.co /\ q.id = page.id
    OBVIOUS
  <2>2. Building(server, p, page.id)
    BY <1>2, BuildingKept, Zenon
  <2>3. Takes(Step(p, store, <<Update("documents", q.co, q.id, [data |-> draft, by |-> by])>>), net)
    BY <1>4, <2>1 DEF Save, Sends
  <2> HIDE DEF p, q
  <2> QED BY <1>1, <1>4, <2>1, <2>2, <2>3, FreshSave, OwnBuilding
<1>5. CASE AutoSave
  BY <1>3, <1>4, <1>5 DEF AutoSave
<1>6. CASE ManualSave \/ Export
  BY <1>3, <1>4, <1>6 DEF ManualSave, Export, Acts
<1>7. CASE Edit
  <2>1. Building(server, Edited(page), page.id)
    BY <1>2, BuildingKept, Zenon
  <2> QED BY <1>1, <1>7, <2>1, OwnBuilding DEF Edit
<1>8. CASE OpenModal \/ CloseModal
  <2>1. /\ \A v, w : Building(server, [page EXCEPT !.modal = v, !.busy = w], page.id)
        /\ \A v : Building(server, [page EXCEPT !.modal = v], page.id)
    BY <1>2, BuildingKept, Zenon
  <2>2. CASE OpenModal
    <3>1. PICK m \in {"contractors", "vehicles"} :
                 Acts(Stay([page EXCEPT !.modal = m, !.busy = IF m = "vehicles" THEN @ \ {m} ELSE @]))
      BY <2>2, Zenon DEF OpenModal
    <3> DEFINE w == IF m = "vehicles" THEN page.busy \ {m} ELSE page.busy
    <3>2. [page EXCEPT !.modal = m, !.busy = IF m = "vehicles" THEN @ \ {m} ELSE @]
            = [page EXCEPT !.modal = m, !.busy = w]
      OBVIOUS
    <3> HIDE DEF w
    <3>3. Acts(Stay([page EXCEPT !.modal = m, !.busy = w]))
      BY <3>1, <3>2, Zenon
    <3>4. PICK p : p = [page EXCEPT !.modal = m, !.busy = w]
      OBVIOUS
    <3>5. Building(server, p, page.id) /\ Acts(Stay(p))
      BY <2>1, <3>3, <3>4, Zenon
    <3> QED BY <1>1, <3>5, OwnBuilding
  <2>3. CASE CloseModal
    <3>1. PICK p : p = [page EXCEPT !.modal = "none"]
      OBVIOUS
    <3>2. Building(server, p, page.id) /\ Acts(Stay(p))
      BY <2>1, <2>3, <3>1, Zenon DEF CloseModal
    <3> QED BY <1>1, <3>2, OwnBuilding
  <2> QED BY <1>8, <2>2, <2>3
<1>9. CASE AddContractorModal \/ AddVehicleModal
  <2>1. {"contractors", "vehicles"} \subseteq Kinds /\ "create" \in Operations("contractors")
        /\ "create" \in Operations("vehicles")
    BY DEF Kinds, Operations
  <2>2. \A x : DOMAIN [name |-> x, for |-> page.id] \cap {"data", "pdf", "id", "status"} = {}
    OBVIOUS
  <2>3. ASSUME NEW kind \in {"contractors", "vehicles"}, NEW name,
               Acts(Sends(Busy(page, kind), Create(kind, page.co, [name |-> name, for |-> page.id])))
        PROVE  Shaped' /\ DraftsOwn'
    <3>1. Fresh(server, Busy(page, kind), Create(kind, page.co, [name |-> name, for |-> page.id]))
      BY <2>1, <2>2, FreshOther DEF Create
    <3>2. Building(server, Busy(page, kind), page.id)
      BY <1>2, BuildingKept, Zenon
    <3> QED BY <1>1, <2>3, <3>1, <3>2, OwnBuilding DEF Acts, Sends
  <2> QED BY <1>9, <2>3 DEF AddContractorModal, AddVehicleModal
<1>10. CASE Resync
  <2>1. {"contractors", "companies"} \subseteq Kinds /\ "peek" \in Operations("contractors")
        /\ "peek" \in Operations("companies")
    BY DEF Kinds, Operations
  <2>2. DOMAIN NoBody \cap {"data", "pdf", "id", "status"} = {}
    BY DEF NoBody
  <2>3. ASSUME NEW kind \in {"contractors", "companies"}, NEW co, NEW id,
               Acts(Sends(page, Call("peek", kind, co, id, NoBody)))
        PROVE  Shaped' /\ DraftsOwn'
    <3>1. Fresh(server, page, Call("peek", kind, co, id, NoBody))
      BY <2>1, <2>2, FreshOther
    <3> QED BY <1>1, <1>2, <2>3, <3>1, OwnBuilding DEF Acts, Sends
  <2> QED BY <1>10, <2>3 DEF Resync
<1> QED BY <1>5, <1>6, <1>7, <1>8, <1>9, <1>10 DEF BuilderEvent

-----------------------------------------------------------------------------
(* A page is left for another                                               *)

LEMMA InRange == ASSUME NEW S, NEW s \in Seq(S) PROVE s \in Seq(Range(s))
<1>1. Len(s) \in Nat /\ DOMAIN s = 1..Len(s) /\ s = [i \in 1..Len(s) |-> s[i]]
  OBVIOUS
<1>2. \A i \in 1..Len(s) : s[i] \in Range(s)
  BY <1>1 DEF Range
<1> QED BY <1>1, <1>2

LEMMA Joined ==
  ASSUME NEW a, a \in Seq(Range(a)), NEW b, b \in Seq(Range(b))
  PROVE  /\ a \o b \in Seq(Range(a \o b))
         /\ \A i \in DOMAIN (a \o b) : (\E k \in DOMAIN a : (a \o b)[i] = a[k]) \/ (\E k \in DOMAIN b : (a \o b)[i] = b[k])
<1>1. PICK S : a \in Seq(S) /\ b \in Seq(S)
  <2>1. a \in Seq(Range(a) \cup Range(b)) /\ b \in Seq(Range(a) \cup Range(b))
    OBVIOUS
  <2> QED BY <2>1
<1>2. PICK c : c = a \o b
  OBVIOUS
<1>3. PICK m \in Nat, n \in Nat : m = Len(a) /\ n = Len(b)
  BY <1>1
<1>4. /\ DOMAIN a = 1..m /\ DOMAIN c = 1..(m + n) /\ DOMAIN b = 1..n
      /\ \A i \in 1..m : c[i] = a[i]
      /\ \A i \in 1..(m + n) : i > m => c[i] = b[i - m]
      /\ c \in Seq(S)
  BY <1>1, <1>2, <1>3
<1>5. c \in Seq(Range(c))
  BY <1>4, InRange
<1>6. ASSUME NEW i \in DOMAIN c PROVE (\E k \in DOMAIN a : c[i] = a[k]) \/ (\E k \in DOMAIN b : c[i] = b[k])
  <2>1. CASE i \in 1..m
    BY <1>4, <2>1
  <2>2. CASE i \notin 1..m
    <3>1. i \in 1..(m + n) /\ DOMAIN b = 1..n
      BY <1>4, <1>6
    <3>2. i - m \in 1..n /\ i > m
      BY <1>3, <2>2, <3>1
    <3>3. c[i] = b[i - m]
      BY <1>4, <3>1, <3>2
    <3> QED BY <3>1, <3>2, <3>3
  <2> QED BY <2>1, <2>2
<1> QED BY <1>2, <1>5, <1>6

\* What one sequence has another one has too.
Within(a, c) == \A k \in DOMAIN a : \E i \in DOMAIN c : c[i] = a[k]

LEMMA JoinedKeeps ==
  ASSUME NEW a, a \in Seq(Range(a)), NEW b, b \in Seq(Range(b))
  PROVE  Within(a, a \o b) /\ Within(b, a \o b)
<1>0. PICK c : c = a \o b
  OBVIOUS
<1>1. PICK S : a \in Seq(S) /\ b \in Seq(S)
  <2>1. a \in Seq(Range(a) \cup Range(b)) /\ b \in Seq(Range(a) \cup Range(b))
    OBVIOUS
  <2> QED BY <2>1
<1>2. PICK m \in Nat, n \in Nat : m = Len(a) /\ n = Len(b)
  BY <1>1
<1>3. /\ DOMAIN a = 1..m /\ DOMAIN b = 1..n /\ DOMAIN c = 1..(m + n)
      /\ \A i \in 1..(m + n) : c[i] = IF i <= m THEN a[i] ELSE b[i - m]
  BY <1>0, <1>1, <1>2
<1>4. ASSUME NEW k \in DOMAIN a PROVE \E i \in DOMAIN c : c[i] = a[k]
  <2>1. k \in 1..(m + n) /\ k <= m
    BY <1>2, <1>3
  <2> QED BY <1>3, <2>1
<1>5. ASSUME NEW k \in DOMAIN b PROVE \E i \in DOMAIN c : c[i] = b[k]
  <2>1. m + k \in 1..(m + n) /\ ~(m + k <= m) /\ (m + k) - m = k
    BY <1>2, <1>3
  <2>2. c[m + k] = b[k]
    BY <1>3, <2>1
  <2> QED BY <1>3, <2>1, <2>2
<1> QED BY <1>0, <1>4, <1>5 DEF Within

\* The queue, and the calls of a step after it.
LEMMA TakesIs ==
  ASSUME NEW p, NEW s, NEW calls, calls \in Seq(Range(calls)), NEW queue, queue \in Seq(Range(queue)),
         DOMAIN s = Stores, Takes(Step(p, s, calls), queue)
  PROVE  /\ page' = p /\ server' = server /\ scope' = scope
         /\ DOMAIN store' = Stores /\ \A f \in Stores \ {"loading"} : store'[f] = s[f]
         /\ store'.rows = s.rows /\ store'.current = s.current
         /\ net' \in Seq(Range(net'))
         /\ \A i \in DOMAIN net' : \/ \E k \in DOMAIN queue : net'[i] = queue[k]
                                   \/ \E k \in DOMAIN calls : net'[i] = calls[k]
<1>1. /\ page' = p /\ net' = queue \o calls /\ server' = server /\ scope' = scope
      /\ store' = Fetching(s, calls)
  BY DEF Takes, Step
<1>2. DOMAIN store' = Stores /\ \A f \in Stores \ {"loading"} : store'[f] = s[f]
  BY <1>1 DEF Fetching
<1>3. store'.rows = s.rows /\ store'.current = s.current
  BY <1>2 DEF Stores
<1> QED BY <1>1, <1>2, <1>3, Joined

\* What a page asks for when it is shown.
Loads(p, c) ==
  /\ Sent(c) /\ DOMAIN c.body \subseteq {"search"}
  /\ c.op = "list" \/ (c.op = "get" /\ (p.at = "builder" => c.kind = "documents" /\ c.id = p.id))
Loaded(p, step) ==
  /\ step = Step(step.page, store, step.calls)
  /\ "at" \in DOMAIN step.page /\ step.page.at = p.at /\ (p.at = "builder" => step.page = p)
  /\ step.calls \in Seq(Range(step.calls)) /\ \A k \in DOMAIN step.calls : Loads(p, step.calls[k])

LEMMA LoadsOf ==
  ASSUME NEW p, NEW kind \in Kinds, NEW co
  PROVE  /\ \A search : Loads(p, List(kind, co, search))
         /\ \A id : "get" \in Operations(kind) /\ (p.at = "builder" => kind = "documents" /\ id = p.id) =>
              Loads(p, Fetch(kind, co, id))
<1>1. "list" \in Operations(kind)
  BY DEF Operations
<1>2. DOMAIN NoBody \subseteq {"search"}
  BY DEF NoBody
<1>3. ASSUME NEW search PROVE Loads(p, List(kind, co, search))
  <2> DEFINE body == [search |-> search]
             c == Call("list", kind, co, None, body)
  <2>1. DOMAIN body \subseteq {"search"}
    OBVIOUS
  <2> HIDE DEF body
  <2>2. Sent(c) /\ c.body = body /\ c.op = "list"
    <3>1. c.body = body /\ c.op = "list"
      BY DEF Call
    <3> QED BY <1>1, <3>1, SentCall
  <2> HIDE DEF c
  <2>3. Loads(p, c)
    BY <2>1, <2>2 DEF Loads
  <2> QED BY <2>3 DEF c, body, List
<1>4. ASSUME NEW id, "get" \in Operations(kind), p.at = "builder" => kind = "documents" /\ id = p.id
      PROVE  Loads(p, Fetch(kind, co, id))
  <2> DEFINE c == Call("get", kind, co, id, NoBody)
  <2>2. Sent(c) /\ c.body = NoBody /\ c.op = "get" /\ c.kind = kind /\ c.id = id
    <3>1. c.body = NoBody /\ c.op = "get" /\ c.kind = kind /\ c.id = id
      BY DEF Call
    <3> QED BY <1>4, <3>1, SentCall
  <2> HIDE DEF c
  <2>3. Loads(p, c)
    BY <1>2, <1>4, <2>2 DEF Loads
  <2> QED BY <2>3 DEF c, Fetch
<1> QED BY <1>3, <1>4

LEMMA LoadedOf ==
  ASSUME NEW p, "at" \in DOMAIN p, NEW q, "at" \in DOMAIN q, q.at = p.at, p.at = "builder" => q = p
  PROVE  /\ \A calls : calls \in Seq(Range(calls)) /\ (\A k \in DOMAIN calls : Loads(p, calls[k])) =>
              Loaded(p, Step(q, store, calls))
         /\ \A a : Loads(p, a) => Loaded(p, Step(q, store, <<a>>))
         /\ \A a, b, c : Loads(p, a) /\ Loads(p, b) /\ Loads(p, c) => Loaded(p, Step(q, store, <<a, b, c>>))
<1>1. ASSUME NEW calls, calls \in Seq(Range(calls)), \A k \in DOMAIN calls : Loads(p, calls[k])
      PROVE  Loaded(p, Step(q, store, calls))
  BY <1>1 DEF Loaded, Step
<1>2. ASSUME NEW a, Loads(p, a) PROVE Loaded(p, Step(q, store, <<a>>))
  <2>1. <<a>> \in Seq(Range(<<a>>)) /\ \A k \in DOMAIN <<a>> : Loads(p, <<a>>[k])
    BY <1>2 DEF Range
  <2> QED BY <1>1, <2>1
<1>3. ASSUME NEW a, NEW b, NEW c, Loads(p, a), Loads(p, b), Loads(p, c) PROVE Loaded(p, Step(q, store, <<a, b, c>>))
  <2>1. <<a, b, c>> \in Seq(Range(<<a, b, c>>)) /\ \A k \in DOMAIN <<a, b, c>> : Loads(p, <<a, b, c>>[k])
    BY <1>3 DEF Range
  <2> QED BY <1>1, <2>1
<1> QED BY <1>1, <1>2, <1>3

LEMMA LoadIs ==
  ASSUME NEW p, "at" \in DOMAIN p, p.at \in Routes \ {"blank"}
  PROVE  Loaded(p, Load(p))
<1>1. /\ "contractors" \in Kinds /\ "vehicles" \in Kinds /\ "companies" \in Kinds /\ "documents" \in Kinds
      /\ "members" \in Kinds /\ "invitations" \in Kinds /\ "users" \in Kinds /\ "plans" \in Kinds
      /\ "credits" \in Kinds /\ "signatures" \in Kinds /\ "companySignatures" \in Kinds /\ "stamps" \in Kinds
      /\ "get" \in Operations("documents") /\ "get" \in Operations("companies") /\ "get" \in Operations("users")
  BY DEF Kinds, AdminKinds, Operations
<1>2. \A a : Loads(p, a) => Loaded(p, Step(p, store, <<a>>))
  BY LoadedOf
<1>3. \A kind \in Kinds : \A co, search : Loads(p, List(kind, co, search))
  BY LoadsOf
<1>4. \A a : Loads(p, a) => Loaded(p, Sends(p, a))
  BY <1>2 DEF Sends
<1>5. CASE p.at \in {"contractors", "vehicles", "companies", "documents", "users", "plans"}
  <2>1. Loaded(p, LoadContractors(p)) /\ Loaded(p, LoadVehicles(p)) /\ Loaded(p, LoadCompanies(p))
        /\ Loaded(p, LoadDocuments(p)) /\ Loaded(p, LoadUsers(p)) /\ Loaded(p, LoadPlans(p))
    BY <1>1, <1>3, <1>4, Zenon
       DEF LoadContractors, LoadVehicles, LoadCompanies, LoadDocuments, LoadUsers, LoadPlans
  <2>2. Load(p) \in {LoadContractors(p), LoadVehicles(p), LoadCompanies(p), LoadDocuments(p), LoadUsers(p), LoadPlans(p)}
    BY <1>5 DEF Load, MarkKinds
  <2> QED BY <2>1, <2>2
<1>6. CASE p.at \in {"signatures", "companySignatures", "stamps"}
  <2>1. Load(p) = LoadMarks(p)
    BY <1>6 DEF Load, MarkKinds
  <2>2. p.at \in Kinds
    BY <1>1, <1>6
  <2> QED BY <1>3, <1>4, <2>1, <2>2, Zenon DEF LoadMarks
<1>7. CASE p.at = "document"
  <2>1. Load(p) = LoadDocument(p)
    BY <1>7 DEF Load, MarkKinds
  <2>2. Loads(p, Fetch("documents", p.co, p.id))
    BY <1>1, <1>7, LoadsOf
  <2> QED BY <1>4, <2>1, <2>2 DEF LoadDocument
<1>8. CASE p.at = "company"
  <2> DEFINE q == [p EXCEPT !.loading = TRUE]
  <2>0. Load(p) = LoadCompany(p)
    BY <1>8 DEF Load, MarkKinds
  <2>1. Load(p) = Step(q, store, <<Fetch("companies", Me, p.co), List("members", p.co, ""), List("invitations", p.co, "")>>)
    BY <2>0, Zenon DEF LoadCompany
  <2>2. "at" \in DOMAIN q /\ q.at = p.at
    OBVIOUS
  <2>3. Loads(p, List("members", p.co, "")) /\ Loads(p, List("invitations", p.co, ""))
    BY <1>1, <1>3, Zenon
  <2>4. Loads(p, Fetch("companies", Me, p.co))
    BY <1>1, <1>8, LoadsOf
  <2> HIDE DEF q
  <2>5. \A a, b, c : Loads(p, a) /\ Loads(p, b) /\ Loads(p, c) => Loaded(p, Step(q, store, <<a, b, c>>))
    BY <1>8, <2>2, LoadedOf
  <2> QED BY <2>1, <2>3, <2>4, <2>5, Zenon
<1>9. CASE p.at = "user"
  <2>0. Load(p) = LoadUser(p)
    BY <1>9 DEF Load, MarkKinds
  <2>1. Load(p) = Step(p, store, <<Fetch("users", Me, p.id), List("plans", Me, ""), List("credits", p.id, "")>>)
    BY <2>0, Zenon DEF LoadUser
  <2>2. Loads(p, Fetch("users", Me, p.id))
    BY <1>1, <1>9, LoadsOf
  <2>3. Loads(p, List("plans", Me, "")) /\ Loads(p, List("credits", p.id, ""))
    BY <1>1, <1>3, Zenon
  <2>4. \A a, b, c : Loads(p, a) /\ Loads(p, b) /\ Loads(p, c) => Loaded(p, Step(p, store, <<a, b, c>>))
    BY LoadedOf
  <2> QED BY <2>1, <2>2, <2>3, <2>4, Zenon
<1>10. CASE p.at = "builder"
  <2> DEFINE a == List("vehicles", p.co, "")
             b == List("stamps", p.co, "")
             c == List("companySignatures", p.co, "")
             d == List("signatures", Me, "")
             e == Fetch("documents", p.co, p.id)
  <2>0. Load(p) = LoadBuilder(p)
    BY <1>10 DEF Load, MarkKinds
  <2>1. Load(p) = Step(p, store, <<a, b, c, d>> \o LoadDraft(p).calls)
    BY <2>0, Zenon DEF LoadBuilder, LoadAssets
  <2>2. LoadDraft(p).calls = <<e>>
    BY DEF LoadDraft, Step
  <2>3. Loads(p, a) /\ Loads(p, b) /\ Loads(p, c) /\ Loads(p, d)
    BY <1>1, <1>3, Zenon
  <2>4. Loads(p, e)
    BY <1>1, <1>10, LoadsOf
  <2> HIDE DEF a, b, c, d, e
  <2>5. PICK x, y : x = <<a, b, c, d>> /\ y = <<e>>
    OBVIOUS
  <2>6. /\ x \in Seq(Range(x)) /\ \A k \in DOMAIN x : Loads(p, x[k])
        /\ y \in Seq(Range(y)) /\ \A k \in DOMAIN y : Loads(p, y[k])
    BY <2>3, <2>4, <2>5 DEF Range
  <2>7. x \o y \in Seq(Range(x \o y)) /\ \A k \in DOMAIN (x \o y) : Loads(p, (x \o y)[k])
    BY <2>6, Joined
  <2>8. Loaded(p, Step(p, store, x \o y))
    BY <2>7, LoadedOf
  <2> QED BY <2>1, <2>2, <2>5, <2>8
<1> QED BY <1>5, <1>6, <1>7, <1>8, <1>9, <1>10 DEF Routes, UnderCompany, UnderAdmin

LEMMA LoadDraftIs ==
  ASSUME NEW p
  PROVE  /\ LoadDraft(p).page = [p EXCEPT !.loading = TRUE]
         /\ LoadDraft(p).calls = <<Fetch("documents", p.co, p.id)>>
         /\ Loads(p, Fetch("documents", p.co, p.id))
<1>1. "documents" \in Kinds /\ "get" \in Operations("documents")
  BY DEF Kinds, Operations
<1>2. Loads(p, Fetch("documents", p.co, p.id))
  BY <1>1, LoadsOf
<1> QED BY <1>2 DEF LoadDraft, Step

\* A page that is mounted already stays, with other parameters.
LEMMA RoutedIs ==
  ASSUME NEW p, NEW q, "at" \in DOMAIN p, "at" \in DOMAIN q
  PROVE  "at" \in DOMAIN Routed(p, q) /\ Routed(p, q).at = q.at
<1>1. CASE p.at # q.at
  BY <1>1 DEF Routed
<1>2. CASE p.at = q.at
  <2> DEFINE same == [f \in DOMAIN p |-> IF f \in {"co", "id"} THEN q[f] ELSE p[f]]
  <2>1. "at" \in DOMAIN same /\ same.at = p.at
    OBVIOUS
  <2>2. Routed(p, q) = IF p.at = "company" THEN [Closed(same) EXCEPT !.editing = None, !.busy = {}] ELSE same
    BY <1>2 DEF Routed
  <2> HIDE DEF same
  <2>3. "at" \in DOMAIN Closed(same) /\ Closed(same)["at"] = same["at"]
    BY <2>1 DEF Closed
  <2>4. PICK r : r = Closed(same)
    OBVIOUS
  <2>5. "at" \in DOMAIN [r EXCEPT !.editing = None, !.busy = {}]
        /\ [r EXCEPT !.editing = None, !.busy = {}]["at"] = r["at"]
    BY <2>1, <2>3, <2>4
  <2> QED BY <1>2, <2>1, <2>2, <2>3, <2>4, <2>5
<1> QED BY <1>1, <1>2

\* The store without what a page cleans up when it is left.
LEMMA ClearedIs ==
  ASSUME NEW s, DOMAIN s = Stores, DOMAIN s.rows = Kinds
  PROVE  /\ DOMAIN ClearMembers(s) = Stores /\ DOMAIN ClearMembers(s).rows = Kinds
         /\ ClearMembers(s).current = s.current
         /\ DOMAIN ClearSelectedUser(s) = Stores /\ DOMAIN ClearSelectedUser(s).rows = Kinds
         /\ ClearSelectedUser(s).current = s.current
BY DEF ClearMembers, ClearSelectedUser, Stores

LEMMA LoadsIsFresh ==
  ASSUME NEW p, NEW c, Loads(p, c), NEW q, q.at = "builder" => p.at = "builder" /\ q.id = p.id
  PROVE  Fresh(server, q, c)
<1>1. "data" \notin DOMAIN c.body /\ "pdf" \notin DOMAIN c.body /\ "id" \notin DOMAIN c.body
      /\ ~IsPeek(c) /\ ~IsUpload(c) /\ ~IsStatus(c)
  BY DEF Loads, IsPeek, IsUpload, IsStatus
<1> QED BY <1>1 DEF Loads, Fresh, Sent, OwnBody, OwnHeard

\* The page that is shown hears of no call of another; a builder that is shown is empty,
\* or the one that was shown for another company.
LEMMA OwnShows ==
  ASSUME Shaped, DraftsOwn, NEW p, "at" \in DOMAIN p, p.at = page.at,
         NEW s, DOMAIN s = Stores, DOMAIN s.rows = Kinds, OwnCurrent(server, s.current),
         NEW queue, queue \in Seq(Range(queue)),
         \A i \in DOMAIN queue : IsCall(queue[i]) /\ OwnCall(server, page, queue[i]),
         NEW q, "at" \in DOMAIN q, q.at \in Routes \ {"blank"}, OwnPage(server, Routed(p, q)),
         q.at = "builder" /\ page.at = "builder" => Routed(p, q).id = page.id,
         Shows(p, s, queue, q)
  PROVE  Shaped' /\ DraftsOwn'
<1> DEFINE r == Routed(p, q)
           step == Load(r)
           heard == IF p.at # q.at THEN "none" ELSE IF p.at = "company" THEN "page" ELSE "tab"
           left == IF p.at = "company" THEN ClearMembers(s) ELSE IF p.at = "user" THEN ClearSelectedUser(s) ELSE s
           deaf == Deaf(queue, heard)
<1>1. Takes(Step(step.page, left, step.calls), deaf)
  BY DEF Shows
<1>2. "at" \in DOMAIN r /\ r.at = q.at
  BY RoutedIs
<1>3. DOMAIN left = Stores /\ DOMAIN left.rows = Kinds /\ left.current = s.current
  BY ClearedIs
<1>4. heard \in {"tab", "page", "none"} /\ (p.at # q.at => heard = "none")
  OBVIOUS
<1> HIDE DEF r, heard, left
<1>5. /\ DOMAIN deaf = DOMAIN queue /\ deaf \in Seq(Range(deaf))
      /\ \A i \in DOMAIN queue : Same(deaf[i], queue[i])
      /\ p.at # q.at => \A i \in DOMAIN queue : deaf[i].mine = "none"
  BY <1>4, DeafIs
<1>6. Loaded(r, step)
  BY <1>2, LoadIs
<1> HIDE DEF step, deaf
<1>7. /\ page' = step.page /\ server' = server
      /\ DOMAIN store' = Stores /\ DOMAIN store'.rows = Kinds /\ store'.current = s.current
      /\ net' \in Seq(Range(net'))
      /\ \A i \in DOMAIN net' : \/ \E k \in DOMAIN deaf : net'[i] = deaf[k]
                                \/ \E k \in DOMAIN step.calls : net'[i] = step.calls[k]
  BY <1>1, <1>3, <1>5, <1>6, TakesIs DEF Loaded
<1>8. "at" \in DOMAIN page' /\ page'.at = q.at /\ (q.at = "builder" => page' = r)
  BY <1>2, <1>6, <1>7 DEF Loaded
<1>9. OwnPage(server, page')
  <2>1. CASE q.at = "builder"
    BY <1>8, <2>1 DEF r
  <2>2. CASE q.at # "builder"
    BY <1>8, <2>2 DEF OwnPage
  <2> QED BY <2>1, <2>2
<1>10. ASSUME NEW k \in DOMAIN deaf PROVE IsCall(deaf[k]) /\ OwnCall(server, page', deaf[k])
  <2>1. page'.at = "builder" /\ deaf[k].mine # "none" => page.at = "builder" /\ page'.id = page.id
    BY <1>5, <1>8 DEF r
  <2> QED BY <1>5, <2>1, CarriedIs DEF Carried
<1>11. ASSUME NEW k \in DOMAIN step.calls PROVE IsCall(step.calls[k]) /\ OwnCall(server, page', step.calls[k])
  <2>1. Loads(r, step.calls[k])
    BY <1>6 DEF Loaded
  <2>2. page'.at = "builder" => r.at = "builder" /\ page'.id = r.id
    BY <1>2, <1>8
  <2> QED BY <2>1, <2>2, LoadsIsFresh, FreshIs
<1> QED BY <1>7, <1>8, <1>9, <1>10, <1>11, OwnAfter

LEMMA NetIs ==
  ASSUME Shaped, DraftsOwn
  PROVE  /\ net \in Seq(Range(net)) /\ \A i \in DOMAIN net : IsCall(net[i]) /\ OwnCall(server, page, net[i])
         /\ DOMAIN store = Stores /\ DOMAIN store.rows = Kinds /\ OwnCurrent(server, store.current)
         /\ "at" \in DOMAIN page /\ page.at \in Routes
BY DEF Shaped, DraftsOwn, OwnCall

LEMMA SetActiveIs ==
  ASSUME NEW s, DOMAIN s = Stores, NEW co
  PROVE  DOMAIN SetActive(s, co) = Stores /\ SetActive(s, co).rows = s.rows /\ SetActive(s, co).current = s.current
BY DEF SetActive, Stores

\* The pages there are links to.
LEMMA PagesAre ==
  ASSUME NEW co, NEW id
  PROVE  /\ \A q \in {CompaniesPage, SignaturesPage, UsersPage, PlansPage, UserPage(id), DocumentsPage(co),
                      ContractorsPage(co), CompanyPage(co), VehiclesPage(co), CompanySignaturesPage(co),
                      StampsPage(co), DocumentPage(co, id)} :
              "at" \in DOMAIN q /\ q.at \in Routes \ {"blank", "builder"}
         /\ "at" \in DOMAIN BuilderPage(co, id) /\ BuilderPage(co, id).at = "builder" /\ BuilderPage(co, id).id = id
         /\ \A sv : id \in 1..Born(sv) => OwnPage(sv, BuilderPage(co, id))
<1>1. /\ "at" \in DOMAIN CompaniesPage /\ CompaniesPage.at = "companies"
      /\ "at" \in DOMAIN PlansPage /\ PlansPage.at = "plans"
      /\ "at" \in DOMAIN UserPage(id) /\ UserPage(id).at = "user"
      /\ "at" \in DOMAIN CompanyPage(co) /\ CompanyPage(co).at = "company"
      /\ "at" \in DOMAIN VehiclesPage(co) /\ VehiclesPage(co).at = "vehicles"
      /\ "at" \in DOMAIN DocumentPage(co, id) /\ DocumentPage(co, id).at = "document"
  BY DEF CompaniesPage, PlansPage, UserPage, CompanyPage, VehiclesPage, DocumentPage
<1>2. /\ "at" \in DOMAIN SignaturesPage /\ SignaturesPage.at = "signatures"
      /\ "at" \in DOMAIN CompanySignaturesPage(co) /\ CompanySignaturesPage(co).at = "companySignatures"
      /\ "at" \in DOMAIN StampsPage(co) /\ StampsPage(co).at = "stamps"
  BY DEF SignaturesPage, CompanySignaturesPage, StampsPage, MarksPage
<1>3. /\ "at" \in DOMAIN UsersPage /\ UsersPage.at = "users"
      /\ "at" \in DOMAIN DocumentsPage(co) /\ DocumentsPage(co).at = "documents"
      /\ "at" \in DOMAIN ContractorsPage(co) /\ ContractorsPage(co).at = "contractors"
  <2> DEFINE none == ""
  <2>1. /\ UsersPage = [at |-> "users", co |-> Me, search |-> none, busy |-> {}]
        /\ DocumentsPage(co) = [at |-> "documents", co |-> co, search |-> none, showCreate |-> FALSE, number |-> 0,
                                debounced |-> 0, numberError |-> FALSE, deleting |-> None, cancelling |-> None,
                                busy |-> {}]
        /\ ContractorsPage(co) = [at |-> "contractors", co |-> co, search |-> none, showCreate |-> FALSE,
                                  editing |-> None, deleting |-> None, busy |-> {}]
    BY Zenon DEF UsersPage, DocumentsPage, ContractorsPage
  <2> HIDE DEF none
  <2> QED BY <2>1
<1>4. {"companies", "plans", "user", "company", "vehicles", "document", "signatures", "companySignatures", "stamps",
       "users", "documents", "contractors"} \subseteq Routes \ {"blank", "builder"}
  BY DEF Routes, UnderCompany, UnderAdmin
<1>5. /\ "at" \in DOMAIN BuilderPage(co, id) /\ BuilderPage(co, id).at = "builder" /\ BuilderPage(co, id).id = id
      /\ {"id", "draft", "timer"} \subseteq DOMAIN BuilderPage(co, id)
      /\ BuilderPage(co, id).draft = NoData /\ BuilderPage(co, id).timer = <<>>
  BY DEF BuilderPage
<1>6. \A sv : Own(sv, NoData, id)
  BY DEF Own, NoData
<1>7. \A sv : id \in 1..Born(sv) => OwnPage(sv, BuilderPage(co, id))
  BY <1>5, <1>6 DEF OwnPage
<1> QED BY <1>1, <1>2, <1>3, <1>4, <1>5, <1>7

\* A link leads to the builder from the page of the document alone.
LEMMA LinksAre ==
  ASSUME Shaped, DraftsOwn, NEW q \in Entries \cup Links
  PROVE  /\ "at" \in DOMAIN q /\ q.at \in Routes \ {"blank"}
         /\ q.at = "builder" => page.at = "document" /\ OwnPage(server, q)
<1> DEFINE Plain(x) == "at" \in DOMAIN x /\ x.at \in Routes \ {"blank", "builder"}
<1>1. \A co, id : /\ Plain(CompaniesPage) /\ Plain(SignaturesPage) /\ Plain(UsersPage) /\ Plain(PlansPage)
                  /\ Plain(UserPage(id)) /\ Plain(DocumentsPage(co)) /\ Plain(ContractorsPage(co))
                  /\ Plain(CompanyPage(co)) /\ Plain(VehiclesPage(co)) /\ Plain(CompanySignaturesPage(co))
                  /\ Plain(StampsPage(co)) /\ Plain(DocumentPage(co, id))
  BY PagesAre
<1> HIDE DEF Plain
<1>2. CASE q \in Entries
  <2>1. Plain(q)
    BY <1>1, <1>2, Zenon DEF Entries
  <2> QED BY <2>1 DEF Plain
<1>3. CASE q \in Links
  <2>1. CASE page.at = "document"
    <3>1. Links = {DocumentsPage(page.co)} \cup
             (IF DocShown /\ Doc.status = "DRAFT" THEN {BuilderPage(page.co, Doc.id)} ELSE {})
      BY <2>1 DEF Links
    <3>2. CASE q = DocumentsPage(page.co)
      BY <1>1, <3>2 DEF Plain
    <3>3. CASE DocShown /\ q = BuilderPage(page.co, Doc.id)
      <4>1. Doc.id \in 1..Born(server)
        BY <3>3 DEF DocShown, Doc, DraftsOwn, OwnCurrent, OwnRow
      <4>2. "builder" \in Routes \ {"blank"}
        BY DEF Routes, UnderCompany
      <4> QED BY <2>1, <3>3, <4>1, <4>2, PagesAre
    <3> QED BY <1>3, <3>1, <3>2, <3>3
  <2>2. CASE page.at # "document"
    <3>1. Plain(q)
      <4>1. CASE page.at = "companies"
        BY <1>1, <1>3, <4>1 DEF Links
      <4>2. CASE page.at = "documents"
        BY <1>1, <1>3, <4>2 DEF Links
      <4>3. CASE page.at = "builder"
        BY <1>1, <1>3, <4>3 DEF Links
      <4>4. CASE page.at = "users"
        BY <1>1, <1>3, <4>4 DEF Links
      <4> QED BY <1>3, <2>2, <4>1, <4>2, <4>3, <4>4 DEF Links
    <3> QED BY <3>1 DEF Plain
  <2> QED BY <2>1, <2>2
<1> QED BY <1>2, <1>3

LEMMA VisitOwn == ASSUME Shaped, DraftsOwn, Visit PROVE Shaped' /\ DraftsOwn'
<1>1. PICK q \in Entries \cup Links :
        Shows(page, IF page.at = "companies" /\ q \in Links THEN SetActive(store, q.co) ELSE store, net, q)
  BY Zenon DEF Visit
<1>2. PICK s : s = IF page.at = "companies" /\ q \in Links THEN SetActive(store, q.co) ELSE store
  OBVIOUS
<1>3. DOMAIN s = Stores /\ DOMAIN s.rows = Kinds /\ OwnCurrent(server, s.current)
  BY <1>2, NetIs, SetActiveIs
<1>4. /\ "at" \in DOMAIN q /\ q.at \in Routes \ {"blank"}
      /\ q.at = "builder" => page.at = "document" /\ OwnPage(server, q)
  BY LinksAre
<1>5. OwnPage(server, Routed(page, q))
  <2>1. CASE q.at = "builder"
    <3>1. Routed(page, q) = q
      BY <1>4, <2>1 DEF Routed
    <3> QED BY <1>4, <2>1, <3>1
  <2>2. CASE q.at # "builder"
    BY <1>4, <2>2, NetIs, RoutedIs DEF OwnPage
  <2> QED BY <2>1, <2>2
<1> QED BY <1>1, <1>2, <1>3, <1>4, <1>5, NetIs, OwnShows

LEMMA OwnTakes ==
  ASSUME Shaped, DraftsOwn, NEW p, "at" \in DOMAIN p, p.at \in Routes \ {"blank"}, OwnPage(server, p),
         NEW s, DOMAIN s = Stores, DOMAIN s.rows = Kinds, OwnCurrent(server, s.current),
         NEW queue, queue \in Seq(Range(queue)),
         \A i \in DOMAIN queue : IsCall(queue[i]) /\ OwnCall(server, p, queue[i]),
         NEW calls, calls \in Seq(Range(calls)), \A k \in DOMAIN calls : Fresh(server, p, calls[k]),
         Takes(Step(p, s, calls), queue)
  PROVE  Shaped' /\ DraftsOwn'
<1>1. /\ page' = p /\ server' = server
      /\ DOMAIN store' = Stores /\ DOMAIN store'.rows = Kinds /\ store'.current = s.current
      /\ net' \in Seq(Range(net'))
      /\ \A i \in DOMAIN net' : \/ \E k \in DOMAIN queue : net'[i] = queue[k]
                                \/ \E k \in DOMAIN calls : net'[i] = calls[k]
  BY TakesIs
<1>2. \A k \in DOMAIN calls : IsCall(calls[k]) /\ OwnCall(server, p, calls[k])
  BY FreshIs
<1>3. \A i \in DOMAIN net' : IsCall(net'[i]) /\ OwnCall(server, page', net'[i])
  BY <1>1, <1>2
<1> QED BY <1>1, <1>3, OwnAfter

LEMMA SwitchOwn == ASSUME Shaped, DraftsOwn, SwitchCompany PROVE Shaped' /\ DraftsOwn'
<1>1. page.at # "blank" /\ page.at \in Routes \ {"blank"}
  BY NetIs DEF SwitchCompany, Leaves
<1>2. PICK r \in Range(store.rows.companies) :
        IF page.at \in UnderCompany /\ page.co = store.active
          THEN Shows(page, SetActive(store, r.id), net, [page EXCEPT !.co = r.id])
        ELSE IF page.at = "builder"
          THEN Takes(Step(LoadDraft(page).page, SetActive(store, r.id), LoadDraft(page).calls), net)
        ELSE Takes(Step(page, SetActive(store, r.id), <<>>), net)
  BY Zenon DEF SwitchCompany
<1>3. PICK s : s = SetActive(store, r.id)
  OBVIOUS
<1>4. DOMAIN s = Stores /\ DOMAIN s.rows = Kinds /\ OwnCurrent(server, s.current)
  BY <1>3, NetIs, SetActiveIs
<1>5. OwnPage(server, page)
  BY DEF DraftsOwn
<1>6. CASE Shows(page, s, net, [page EXCEPT !.co = r.id])
  <2>1. PICK q : q = [page EXCEPT !.co = r.id]
    OBVIOUS
  <2>2. "at" \in DOMAIN q /\ q.at = page.at
    BY <2>1, NetIs
  <2>3. "at" \in DOMAIN Routed(page, q) /\ Routed(page, q).at = page.at
    BY <2>2, NetIs, RoutedIs
  <2>4. CASE page.at = "builder"
    <3>1. Routed(page, q) = [f \in DOMAIN page |-> IF f \in {"co", "id"} THEN q[f] ELSE page[f]]
      BY <2>2, <2>4 DEF Routed
    <3>2. {"id", "draft", "timer"} \subseteq DOMAIN page
      BY <1>5, <2>4 DEF OwnPage
    <3>3. q["id"] = page["id"]
      BY <2>1
    <3>4. /\ DOMAIN Routed(page, q) = DOMAIN page /\ Routed(page, q)["id"] = page["id"]
          /\ Routed(page, q)["draft"] = page["draft"] /\ Routed(page, q)["timer"] = page["timer"]
      BY <3>1, <3>2, <3>3
    <3>5. PICK x : x = Routed(page, q)
      OBVIOUS
    <3>6. OwnPage(server, x) /\ x.id = page.id
      BY <1>5, <2>4, <3>2, <3>4, <3>5 DEF OwnPage
    <3>7. Shows(page, s, net, q) /\ q.at \in Routes \ {"blank"} /\ OwnPage(server, Routed(page, q))
          /\ Routed(page, q).id = page.id
      BY <1>1, <1>6, <2>1, <2>2, <3>5, <3>6
    <3> QED BY <1>4, <2>2, <3>7, NetIs, OwnShows
  <2>5. CASE page.at # "builder"
    <3>1. OwnPage(server, Routed(page, q))
      BY <2>3, <2>5 DEF OwnPage
    <3>2. Shows(page, s, net, q) /\ q.at \in Routes \ {"blank"}
      BY <1>1, <1>6, <2>1, <2>2
    <3> QED BY <1>4, <2>2, <2>5, <3>1, <3>2, NetIs, OwnShows
  <2> QED BY <2>4, <2>5
<1>7. CASE page.at = "builder" /\ Takes(Step(LoadDraft(page).page, s, LoadDraft(page).calls), net)
  <2>1. PICK p, c : p = [page EXCEPT !.loading = TRUE] /\ c = Fetch("documents", page.co, page.id)
    OBVIOUS
  <2>2. Takes(Step(p, s, <<c>>), net) /\ Loads(page, c)
    BY <1>7, <2>1, LoadDraftIs
  <2>3. Building(server, page, page.id)
    BY <1>5, <1>7, NetIs DEF Building
  <2>4. Building(server, p, page.id)
    BY <2>1, <2>3, BuildingKept, Zenon
  <2>5. \A i \in DOMAIN net : IsCall(net[i]) /\ OwnCall(server, p, net[i])
    BY <1>7, <2>4, NetIs DEF Building, OwnCall, OwnHeard
  <2>6. Fresh(server, p, c)
    BY <1>7, <2>2, <2>4, LoadsIsFresh DEF Building
  <2>7. <<c>> \in Seq(Range(<<c>>)) /\ \A k \in DOMAIN <<c>> : Fresh(server, p, <<c>>[k])
    BY <2>6 DEF Range
  <2>8. OwnPage(server, p) /\ "at" \in DOMAIN p /\ p.at \in Routes \ {"blank"}
    BY <2>4 DEF Building, Routes, UnderCompany
  <2> QED BY <1>4, <2>2, <2>5, <2>7, <2>8, NetIs, OwnTakes
<1>8. CASE Takes(Step(page, s, <<>>), net)
  <2>1. <<>> \in Seq(Range(<<>>)) /\ DOMAIN <<>> = {}
    OBVIOUS
  <2> QED BY <1>1, <1>4, <1>5, <1>8, <2>1, NetIs, OwnTakes
<1> QED BY <1>2, <1>3, <1>6, <1>7, <1>8

\* The pages a new tab may show first.
LEMMA FirstPagesAre ==
  ASSUME NEW first \in FirstPages
  PROVE  \/ first \in {CompaniesPage, SignaturesPage, UsersPage, PlansPage}
         \/ \E r : first = UserPage(r.id)
         \/ \E co : first \in {DocumentsPage(co), ContractorsPage(co), CompanyPage(co), VehiclesPage(co),
                               CompanySignaturesPage(co), StampsPage(co)}
         \/ \E r \in Range(server.rows.documents) : first \in {DocumentPage(r.owner, r.id), BuilderPage(r.owner, r.id)}
<1> DEFINE A == {CompaniesPage, SignaturesPage, UsersPage, PlansPage}
           B == {UserPage(r.id) : r \in Range(server.rows.users)}
           C(co) == {DocumentsPage(co), ContractorsPage(co), CompanyPage(co), VehiclesPage(co),
                     CompanySignaturesPage(co), StampsPage(co)}
           D(r) == {DocumentPage(r.owner, r.id), BuilderPage(r.owner, r.id)}
           E == {d \in Range(server.rows.documents) : d.owner \in scope.visits}
           U == UNION {C(co) : co \in scope.visits}
           W == UNION {D(r) : r \in E}
           Is(x) == \/ x \in {CompaniesPage, SignaturesPage, UsersPage, PlansPage}
                    \/ \E r : x = UserPage(r.id)
                    \/ \E co : x \in {DocumentsPage(co), ContractorsPage(co), CompanyPage(co), VehiclesPage(co),
                                       CompanySignaturesPage(co), StampsPage(co)}
                    \/ \E r \in Range(server.rows.documents) :
                         x \in {DocumentPage(r.owner, r.id), BuilderPage(r.owner, r.id)}
<1>1. FirstPages = A \cup B \cup U \cup W
  BY Zenon DEF FirstPages
<1>2. CASE first \in A
  BY <1>2
<1>3. CASE first \in B
  BY <1>3
<1>4. CASE first \in U
  <2>1. \E co \in scope.visits : first \in C(co)
    <3> HIDE DEF C
    <3> QED BY <1>4
  <2> QED BY <2>1, Zenon
<1>5. CASE first \in W
  <2>1. \E r \in E : first \in D(r)
    <3> HIDE DEF D, E
    <3> QED BY <1>5
  <2>2. \A r \in E : r \in Range(server.rows.documents)
    OBVIOUS
  <2> HIDE DEF E
  <2> QED BY <2>1, <2>2, Zenon
<1> HIDE DEF A, B, U, W
<1>6. first \in A \/ first \in B \/ first \in U \/ first \in W
  BY <1>1
<1> HIDE DEF Is
<1> QED BY <1>2, <1>3, <1>4, <1>5, <1>6 DEF Is

LEMMA OpenOwn == ASSUME Shaped, DraftsOwn, Open PROVE Shaped' /\ DraftsOwn'
<1>1. net = <<>>
  <2>1. page.at = "blank"
    BY Zenon DEF Open
  <2> QED BY <2>1 DEF Shaped
<1> DEFINE new == "reload" \in scope.uses
           companies == [List("companies", Me, "") EXCEPT !.mine = "none"]
<1>2. PICK first \in FirstPages : Takes([Load(first) EXCEPT !.calls = IF new THEN Append(@, companies) ELSE @], net)
  BY Zenon DEF Open
<1> HIDE DEF companies
<1>3. /\ "at" \in DOMAIN first /\ first.at \in Routes \ {"blank"}
      /\ OwnPage(server, first)
  <2> DEFINE Plain(x) == "at" \in DOMAIN x /\ x.at \in Routes \ {"blank", "builder"}
  <2>1. \A co, id : /\ Plain(CompaniesPage) /\ Plain(SignaturesPage) /\ Plain(UsersPage) /\ Plain(PlansPage)
                    /\ Plain(UserPage(id)) /\ Plain(DocumentsPage(co)) /\ Plain(ContractorsPage(co))
                    /\ Plain(CompanyPage(co)) /\ Plain(VehiclesPage(co)) /\ Plain(CompanySignaturesPage(co))
                    /\ Plain(StampsPage(co)) /\ Plain(DocumentPage(co, id))
    BY PagesAre
  <2>2. Plain(first) \/ \E r \in Range(server.rows.documents) : first = BuilderPage(r.owner, r.id)
    <3> HIDE DEF Plain
    <3>1. \/ first \in {CompaniesPage, SignaturesPage, UsersPage, PlansPage}
          \/ \E r : first = UserPage(r.id)
          \/ \E co : first \in {DocumentsPage(co), ContractorsPage(co), CompanyPage(co), VehiclesPage(co),
                                CompanySignaturesPage(co), StampsPage(co)}
          \/ \E r \in Range(server.rows.documents) : first \in {DocumentPage(r.owner, r.id), BuilderPage(r.owner, r.id)}
      BY FirstPagesAre
    <3> QED BY <2>1, <3>1
  <2>3. CASE Plain(first)
    BY <2>3 DEF OwnPage
  <2>4. CASE \E r \in Range(server.rows.documents) : first = BuilderPage(r.owner, r.id)
    <3>1. PICK r \in Range(server.rows.documents) : first = BuilderPage(r.owner, r.id)
      BY <2>4
    <3>2. r.id \in 1..Born(server)
      BY DEF DraftsOwn, OwnServer, OwnRow
    <3>3. "builder" \in Routes \ {"blank"}
      BY DEF Routes, UnderCompany
    <3> QED BY <3>1, <3>2, <3>3, PagesAre
  <2> HIDE DEF Plain
  <2> QED BY <2>2, <2>3, <2>4
<1>4. PICK step : step = Load(first)
  OBVIOUS
<1>5. Loaded(first, step)
  BY <1>3, <1>4, LoadIs
<1>6. PICK calls : calls = IF new THEN Append(step.calls, companies) ELSE step.calls
  OBVIOUS
<1>7. Takes(Step(step.page, store, calls), net)
  <2>1. [step EXCEPT !.calls = IF new THEN Append(@, companies) ELSE @]
          = [step EXCEPT !.calls = calls]
    BY <1>6, Zenon
  <2>2. Takes([step EXCEPT !.calls = calls], net)
    BY <1>2, <1>4, <2>1, Zenon
  <2>3. step = Step(step.page, store, step.calls)
    BY <1>5 DEF Loaded
  <2>4. PICK x, y : x = step.page /\ y = step.calls
    OBVIOUS
  <2>5. [step EXCEPT !.calls = calls] = Step(x, store, calls)
    BY <2>3, <2>4 DEF Step
  <2> QED BY <2>2, <2>4, <2>5
<1>8. Fresh(server, step.page, companies) /\ IsCall(companies)
  <2>1. PICK c : c = List("companies", Me, "")
    BY Zenon
  <2>2. "companies" \in Kinds
    BY DEF Kinds
  <2>3. Loads(first, c)
    BY <2>1, <2>2, LoadsOf, Zenon
  <2>4. Fresh(server, step.page, c) /\ c.op = "list"
    <3>1. c.op = "list"
      BY <2>1, Zenon DEF List, Call
    <3>2. step.page.at = "builder" => first.at = "builder" /\ step.page.id = first.id
      BY <1>5 DEF Loaded
    <3> QED BY <2>3, <3>1, <3>2, LoadsIsFresh
  <2>5. companies = [c EXCEPT !.mine = "none"]
    BY <2>1, Zenon DEF companies
  <2>6. PICK d : d = [c EXCEPT !.mine = "none"]
    OBVIOUS
  <2>7. IsCall(c)
    BY <2>4 DEF Fresh
  <2>8. Same(d, c)
    BY <2>6, <2>7 DEF Same, IsCall, Fields
  <2>9. /\ IsCall(d) /\ d.op = c.op /\ d.kind = c.kind /\ d.id = c.id
        /\ d.body = c.body /\ d.at = c.at
    BY <2>7, <2>8, SameIs
  <2>10. d.mine = "none"
    BY <2>6, <2>7 DEF IsCall, Fields
  <2>11. Fresh(server, step.page, d)
    BY <2>4, <2>9, <2>10 DEF Fresh, OwnBody, OwnHeard, IsPeek
  <2> QED BY <2>5, <2>6, <2>9, <2>11
<1>9. calls \in Seq(Range(calls)) /\ \A k \in DOMAIN calls : Fresh(server, step.page, calls[k])
  <2>1. ASSUME NEW k \in DOMAIN step.calls PROVE Fresh(server, step.page, step.calls[k])
    <3>1. Loads(first, step.calls[k])
      BY <1>5 DEF Loaded
    <3>2. step.page.at = "builder" => first.at = "builder" /\ step.page.id = first.id
      BY <1>5 DEF Loaded
    <3> QED BY <3>1, <3>2, LoadsIsFresh
  <2>2. PICK a, b : a = step.calls /\ b = <<companies>>
    OBVIOUS
  <2>3. a \in Seq(Range(a)) /\ \A k \in DOMAIN a : Fresh(server, step.page, a[k])
    BY <1>5, <2>1, <2>2 DEF Loaded
  <2>4. b \in Seq(Range(b)) /\ \A k \in DOMAIN b : Fresh(server, step.page, b[k])
    BY <1>8, <2>2 DEF Range
  <2>5. a \o b \in Seq(Range(a \o b)) /\ \A k \in DOMAIN (a \o b) : Fresh(server, step.page, (a \o b)[k])
    BY <2>3, <2>4, Joined
  <2>6. Append(a, companies) = a \o b
    BY <2>2, <2>3
  <2> QED BY <1>6, <2>2, <2>3, <2>5, <2>6
<1>10. /\ "at" \in DOMAIN step.page /\ step.page.at \in Routes \ {"blank"} /\ OwnPage(server, step.page)
  <2>1. CASE first.at = "builder"
    BY <1>3, <1>5, <2>1 DEF Loaded
  <2>2. CASE first.at # "builder"
    BY <1>3, <1>5, <2>2 DEF Loaded, OwnPage
  <2> QED BY <2>1, <2>2
<1>11. net \in Seq(Range(net)) /\ DOMAIN net = {}
  BY <1>1
<1>12. PICK p : p = step.page
  OBVIOUS
<1> QED BY <1>7, <1>9, <1>10, <1>11, <1>12, NetIs, OwnTakes

-----------------------------------------------------------------------------
(* Folds.  FoldLeft goes from the first element to the last by a recursive  *)
(* function on the sets of positions.  Here its step is a table, F[i][a]    *)
(* for the i-th element and the value a so far.  The function exists, and   *)
(* keeps its values where the steps do, by induction on the positions:      *)
(* there is no first one that breaks it.                                    *)

Folding(g, F, base, n) ==
  g = [s \in SUBSET (1..n) |-> IF s = {} THEN base ELSE F[Max(s)][g[s \ {Max(s)}]]]

LEMMA Least ==
  ASSUME NEW S \in SUBSET Nat, S # {}
  PROVE  \E m \in S : \A k \in S : ~(k < m)
<1>1. PICK m \in S : \A k \in S : <<k, m>> \notin OpToRel(<, Nat)
  BY NatLessThanWellFounded, WFMin, Zenon
<1> QED BY <1>1, Zenon DEF OpToRel

\* Max of a set of positions
LEMMA MaxOf ==
  ASSUME NEW n \in Nat, NEW s \in SUBSET (1..n), s # {}
  PROVE  Max(s) \in s /\ \A y \in s : Max(s) >= y
<1>1. s \subseteq Nat /\ \E m \in Nat : \A y \in s : y <= m
  OBVIOUS
<1> DEFINE B == {m \in Nat : \A y \in s : y <= m}
<1>2. B \subseteq Nat /\ B # {}
  BY <1>1
<1> HIDE DEF B
<1>3. PICK m \in B : \A k \in B : ~(k < m)
  BY <1>2, Least
<1> USE DEF B
<1>4. m \in s
  <2> SUFFICES ASSUME m \notin s PROVE FALSE
    OBVIOUS
  <2>1. PICK y \in s : TRUE
    OBVIOUS
  <2>2. m # 0
    BY <1>3, <2>1
  <2>3. m - 1 \in B
    BY <1>3, <2>2
  <2> QED BY <1>3, <2>3
<1>5. \E x \in s : \A y \in s : x >= y
  BY <1>3, <1>4
<1> QED BY <1>5 DEF Max

LEMMA FoldingExists ==
  ASSUME NEW F, NEW base, NEW n \in Nat
  PROVE  \E g : Folding(g, F, base, n)
<1> DEFINE Bad == {k \in Nat : ~ \E g : Folding(g, F, base, k)}
<1> SUFFICES ASSUME Bad # {} PROVE FALSE
  OBVIOUS
<1>1. PICK k \in Bad : \A j \in Bad : ~(j < k)
  <2> HIDE DEF Bad
  <2>1. Bad \subseteq Nat
    BY DEF Bad
  <2> QED BY <2>1, Least
<1>0. k \in Nat
  BY <1>1
<1>2. k # 0
  <2> SUFFICES ASSUME k = 0 PROVE FALSE
    OBVIOUS
  <2> DEFINE g == [s \in SUBSET (1..0) |-> base]
  <2>1. \A s \in SUBSET (1..0) : s = {}
    OBVIOUS
  <2>2. Folding(g, F, base, 0)
    BY <2>1 DEF Folding
  <2> QED BY <2>2, <1>1
<1>3. k - 1 \in Nat /\ k - 1 \notin Bad
  BY <1>1, <1>2
<1>4. PICK h : Folding(h, F, base, k - 1)
  BY <1>3
<1> DEFINE g == [s \in SUBSET (1..k) |-> IF k \in s THEN F[k][h[s \ {k}]] ELSE h[s]]
<1>5. ASSUME NEW s \in SUBSET (1..k), s # {}
      PROVE  g[s] = F[Max(s)][g[s \ {Max(s)}]]
  <2>1. Max(s) \in s /\ Max(s) \in 1..k /\ \A y \in s : Max(s) >= y
    BY <1>0, <1>5, MaxOf
  <2> HIDE DEF Bad
  <2>2. CASE k \in s
    <3>1. Max(s) = k
      BY <1>0, <2>1, <2>2
    <3>2. s \ {k} \in SUBSET (1..k) /\ k \notin s \ {k}
      OBVIOUS
    <3> QED BY <2>2, <3>1, <3>2
  <2>3. CASE k \notin s
    <3>1. s \in SUBSET (1..(k - 1)) /\ k \notin s \ {Max(s)} /\ s \ {Max(s)} \in SUBSET (1..k)
      <4>1. \A x \in s : x \in 1..(k - 1)
        BY <1>0, <2>3
      <4> QED BY <4>1, <2>3
    <3>2. h[s] = F[Max(s)][h[s \ {Max(s)}]]
      BY <1>4, <1>5, <3>1 DEF Folding
    <3> QED BY <2>3, <3>1, <3>2
  <2> QED BY <2>2, <2>3
<1>6. g[{}] = base
  <2>1. {} \in SUBSET (1..k) /\ {} \in SUBSET (1..(k - 1)) /\ k \notin {}
    OBVIOUS
  <2>2. h[{}] = base
    BY <1>4, <2>1 DEF Folding
  <2> QED BY <2>1, <2>2
<1>7. Folding(g, F, base, k)
  <2>1. g = [s \in SUBSET (1..k) |-> g[s]]
    OBVIOUS
  <2> HIDE DEF g
  <2>2. \A s \in SUBSET (1..k) : g[s] = IF s = {} THEN base ELSE F[Max(s)][g[s \ {Max(s)}]]
    BY <1>5, <1>6
  <2> QED BY <2>1, <2>2 DEF Folding
<1> QED BY <1>1, <1>7

\* The values stay in a set that the steps do not leave.
LEMMA FoldingValues ==
  ASSUME NEW n \in Nat, NEW V, NEW base \in V, NEW F,
         \A i \in 1..n : \A a \in V : F[i][a] \in V,
         NEW g, Folding(g, F, base, n)
  PROVE  \A s \in SUBSET (1..n) : g[s] \in V
<1> DEFINE Bad == {k \in 0..n : \E s \in SUBSET (1..k) : g[s] \notin V}
<1> SUFFICES ASSUME Bad # {} PROVE FALSE
  <2>1. n \notin Bad => \A s \in SUBSET (1..n) : g[s] \in V
    OBVIOUS
  <2> QED BY <2>1
<1>1. PICK k \in Bad : \A j \in Bad : ~(j < k)
  <2>1. Bad \subseteq Nat
    OBVIOUS
  <2> HIDE DEF Bad
  <2> QED BY <2>1, Least
<1>2. PICK s \in SUBSET (1..k) : g[s] \notin V
  BY <1>1
<1>0. k \in 0..n
  BY <1>1
<1>3. s \in SUBSET (1..n)
  BY <1>0
<1>10. g[s] = IF s = {} THEN base ELSE F[Max(s)][g[s \ {Max(s)}]]
  BY <1>3 DEF Folding
<1>4. s # {}
  BY <1>2, <1>10
<1>5. Max(s) \in s /\ Max(s) \in 1..k /\ \A y \in s : Max(s) >= y
  BY <1>3, <1>4, MaxOf
<1>6. Max(s) - 1 \in 0..n /\ Max(s) - 1 < k
  BY <1>0, <1>5
<1>7. s \ {Max(s)} \in SUBSET (1..(Max(s) - 1))
  <2>1. \A x \in s : x # Max(s) => x \in 1..(Max(s) - 1)
    BY <1>0, <1>3, <1>5
  <2> QED BY <2>1
<1>8. g[s \ {Max(s)}] \in V
  BY <1>1, <1>6, <1>7
<1>9. Max(s) \in 1..n
  BY <1>3, <1>5
<1> HIDE DEF Bad
<1> QED BY <1>2, <1>10, <1>4, <1>8, <1>9

\* On the first positions the function does one step after the other.
LEMMA FoldingSteps ==
  ASSUME NEW n \in Nat, NEW base, NEW F, NEW g, Folding(g, F, base, n)
  PROVE  /\ g[1..0] = base
         /\ \A k \in 1..n : g[1..k] = F[k][g[1..(k - 1)]]
<1>1. g[1..0] = base
  <2>1. 1..0 = {}
    OBVIOUS
  <2> QED BY <2>1 DEF Folding
<1>2. ASSUME NEW k \in 1..n PROVE g[1..k] = F[k][g[1..(k - 1)]]
  <2>1. 1..k \in SUBSET (1..n) /\ 1..k # {} /\ k \in 1..k
    OBVIOUS
  <2>2. Max(1..k) \in 1..k /\ Max(1..k) >= k
    BY <2>1, MaxOf
  <2>3. Max(1..k) = k
    BY <2>2
  <2>4. (1..k) \ {k} = 1..(k - 1)
    OBVIOUS
  <2> QED BY <2>1, <2>3, <2>4 DEF Folding
<1> QED BY <1>1, <1>2


\* What has been picked after k elements.
Picking(s, S, p) ==
  /\ p \in [0..Len(s) -> Seq(Range(s))] /\ p[0] = <<>>
  /\ \A k \in 1..Len(s) : p[k] = IF s[k] \in S THEN Append(p[k - 1], s[k]) ELSE p[k - 1]

LEMMA PickedIs ==
  ASSUME NEW R, NEW s \in Seq(R), NEW S
  PROVE  \E p : Picking(s, S, p) /\ Picked(s, S) = p[Len(s)]
<1> DEFINE n == Len(s)
           X == Seq(Range(s))
           Then(out, x) == IF x \in S THEN Append(out, x) ELSE out
           Picks(g) == g = [t \in SUBSET (1..n) |->
                             IF t = {} THEN <<>> ELSE Then(g[t \ {Max(t)}], s[Max(t)])]
<1>1. n \in Nat /\ DOMAIN s = 1..n /\ \A i \in 1..n : s[i] \in Range(s)
  BY DEF Range
<1>2. <<>> \in X
  OBVIOUS
<1>3. \A i \in 1..n : \A a \in X : Then(a, s[i]) \in X
  BY <1>1
<1> HIDE DEF n, X
<1>4. \E g : Picks(g)
  <2> DEFINE F == [i \in 1..n |-> [a \in X |-> Then(a, s[i])]]
  <2>1. \A i \in 1..n : \A a \in X : F[i][a] = Then(a, s[i]) /\ F[i][a] \in X
    BY <1>3
  <2> HIDE DEF F
  <2>2. PICK g : Folding(g, F, <<>>, n)
    BY <1>1, FoldingExists
  <2>3. \A t \in SUBSET (1..n) : g[t] \in X
    BY <1>1, <1>2, <2>1, <2>2, FoldingValues
  <2>4. ASSUME NEW t \in SUBSET (1..n)
        PROVE  g[t] = IF t = {} THEN <<>> ELSE Then(g[t \ {Max(t)}], s[Max(t)])
    <3>1. t # {} => Max(t) \in 1..n
      BY <1>1, MaxOf
    <3>2. g[t \ {Max(t)}] \in X
      BY <2>3
    <3> HIDE DEF Then
    <3> QED BY <2>1, <2>2, <3>1, <3>2 DEF Folding
  <2>5. g = [t \in SUBSET (1..n) |-> g[t]]
    BY <2>2 DEF Folding
  <2> HIDE DEF Then
  <2>6. Picks(g)
    BY <2>4, <2>5
  <2> QED BY <2>6
<1> DEFINE g == CHOOSE g : Picks(g)
<1>5. Picks(g)
  BY <1>4, Zenon
<1>6. Picked(s, S) = g[1..n]
  BY <1>1 DEF Picked, FoldLeft, MapThenFoldSet
<1> HIDE DEF g
<1> DEFINE V == X \cup {g[t] : t \in SUBSET (1..n)}
           F == [i \in 1..n |-> [a \in V |-> Then(a, s[i])]]
<1>7. \A i \in 1..n : \A a \in V : F[i][a] = Then(a, s[i])
  OBVIOUS
<1>8. \A t \in SUBSET (1..n) : g[t \ {Max(t)}] \in V
  OBVIOUS
<1>9. X \subseteq V
  OBVIOUS
<1> HIDE DEF V, F
<1>10. Folding(g, F, <<>>, n)
  <2>1. ASSUME NEW t \in SUBSET (1..n)
        PROVE  g[t] = IF t = {} THEN <<>> ELSE F[Max(t)][g[t \ {Max(t)}]]
    <3>1. t # {} => Max(t) \in 1..n
      BY <1>1, MaxOf
    <3>2. g[t] = IF t = {} THEN <<>> ELSE Then(g[t \ {Max(t)}], s[Max(t)])
      BY <1>5
    <3> HIDE DEF Then
    <3> QED BY <1>7, <1>8, <3>1, <3>2
  <2>2. g = [t \in SUBSET (1..n) |-> g[t]]
    BY <1>5
  <2> QED BY <2>1, <2>2 DEF Folding
<1>11. \A t \in SUBSET (1..n) : g[t] \in X
  <2>1. ASSUME NEW i \in 1..n, NEW a \in X PROVE F[i][a] \in X
    <3> HIDE DEF Then
    <3> QED BY <1>3, <1>7, <1>9
  <2> QED BY <1>1, <1>2, <1>10, <2>1, FoldingValues
<1> DEFINE p == [k \in 0..n |-> g[1..k]]
<1>12. g[1..0] = <<>> /\ \A k \in 1..n : g[1..k] = F[k][g[1..(k - 1)]]
  BY <1>1, <1>10, FoldingSteps
<1>13. \A k \in 0..n : g[1..k] \in X
  BY <1>1, <1>11
<1>14. Picking(s, S, p)
  <2>1. ASSUME NEW k \in 1..n PROVE p[k] = Then(p[k - 1], s[k])
    <3>1. k - 1 \in 0..n /\ g[1..(k - 1)] \in V
      BY <1>1, <1>9, <1>13
    <3> HIDE DEF Then
    <3> QED BY <1>1, <1>7, <1>12, <3>1
  <2>2. p \in [0..n -> X] /\ p[0] = <<>>
    BY <1>1, <1>12, <1>13
  <2> HIDE DEF p
  <2> QED BY <2>1, <2>2 DEF Picking, n, X
<1> QED BY <1>1, <1>6, <1>14 DEF n

LEMMA PickedIn ==
  ASSUME NEW R, NEW s \in Seq(R), NEW S
  PROVE  Picked(s, S) \in Seq(S)
<1>1. PICK p : Picking(s, S, p) /\ Picked(s, S) = p[Len(s)]
  BY PickedIs
<1> DEFINE Bad == {k \in 0..Len(s) : p[k] \notin Seq(S)}
<1> SUFFICES ASSUME Bad # {} PROVE FALSE
  BY <1>1
<1>2. PICK k \in Bad : \A j \in Bad : ~(j < k)
  <2>1. Bad \subseteq Nat
    OBVIOUS
  <2> HIDE DEF Bad
  <2> QED BY <2>1, Least
<1>3. k # 0
  <2>1. p[0] = <<>> /\ <<>> \in Seq(S)
    BY <1>1 DEF Picking
  <2> QED BY <1>2, <2>1
<1>4. k \in 1..Len(s) /\ k - 1 \in 0..Len(s) /\ p[k - 1] \in Seq(S)
  BY <1>2, <1>3
<1>5. p[k] = p[k - 1] \/ (s[k] \in S /\ p[k] = Append(p[k - 1], s[k]))
  BY <1>1, <1>4 DEF Picking
<1>6. p[k] \in Seq(S)
  <2>1. PICK a \in Seq(S) : a = p[k - 1]
    BY <1>4
  <2>2. \A x \in S : Append(a, x) \in Seq(S)
    OBVIOUS
  <2> QED BY <1>5, <2>1, <2>2
<1> QED BY <1>2, <1>6


LEMMA PickedOf ==
  ASSUME NEW R, NEW s \in Seq(R), NEW S
  PROVE  Picked(s, S) \in Seq(Range(Picked(s, S))) /\ \A x \in Range(Picked(s, S)) : x \in S /\ x \in Range(s)
<1>1. Picked(s, S) \in Seq(S)
  BY PickedIn
<1>2. Picked(s, S) \in Seq(Range(s))
  <2>1. PICK p : Picking(s, S, p) /\ Picked(s, S) = p[Len(s)]
    BY PickedIs
  <2>2. Len(s) \in 0..Len(s)
    OBVIOUS
  <2> QED BY <2>1, <2>2 DEF Picking
<1>3. PICK x : x = Picked(s, S)
  OBVIOUS
<1>4. x \in Seq(S) /\ x \in Seq(Range(s))
  BY <1>1, <1>2, <1>3
<1>5. x \in Seq(Range(x))
  BY <1>4, InRange
<1>6. \A i \in DOMAIN x : x[i] \in S /\ x[i] \in Range(s)
  BY <1>4
<1>7. \A y \in Range(x) : y \in S /\ y \in Range(s)
  BY <1>6 DEF Range
<1> QED BY <1>3, <1>5, <1>7

-----------------------------------------------------------------------------
(* The rows of the documents                                                *)

\* A row as it is made.
LEMMA RowIs ==
  ASSUME NEW id, NEW owner, NEW body
  PROVE  LET r == Row("documents", id, owner, body) IN
         /\ DOMAIN r = {"id", "owner", "name", "isDefault", "status", "number", "data", "pdf"}
         /\ r.id = IF "id" \in DOMAIN body THEN body.id ELSE id
         /\ r.data = IF "data" \in DOMAIN body THEN body.data ELSE NoData
         /\ r.pdf = IF "pdf" \in DOMAIN body THEN body.pdf ELSE NoData
         /\ r.owner = IF "owner" \in DOMAIN body THEN body.owner ELSE owner
<1> DEFINE a == [id |-> id, owner |-> owner, name |-> "a", isDefault |-> FALSE]
           b == [status |-> "DRAFT", number |-> 0, data |-> NoData, pdf |-> NoData]
<1>1. Blank("documents") = b
  BY DEF Blank
<1>2. PICK m : m = Extended(a, b)
  OBVIOUS
<1>3. /\ DOMAIN m = {"id", "owner", "name", "isDefault", "status", "number", "data", "pdf"}
      /\ m.id = id /\ m.owner = owner /\ m.data = NoData /\ m.pdf = NoData
  BY <1>2 DEF Extended
<1>4. Row("documents", id, owner, body) = [f \in DOMAIN m |-> IF f \in DOMAIN body THEN body[f] ELSE m[f]]
  BY <1>1, <1>2 DEF Row, Patched
<1> HIDE DEF a, b
<1> QED BY <1>3, <1>4

LEMMA InitOwn == ASSUME Init PROVE Shaped /\ DraftsOwn
<1>1. /\ page = [at |-> "blank", co |-> Me, busy |-> {}] /\ net = <<>>
      /\ \E roles : server = [rows |-> [k \in Kinds |-> GivenRows(k, roles)], born |-> [k \in Kinds |-> 0]]
  BY Zenon DEF Init
<1>2. /\ DOMAIN store = Stores /\ DOMAIN store.rows = Kinds /\ store.current = <<>>
  <2>1. PICK co, new : store = [rows |-> [k \in Kinds |-> IF k = "companies" /\ ~new THEN server.rows[k] ELSE <<>>],
                   loading |-> [k \in Flags |-> FALSE],
                   active |-> IF new THEN None ELSE co, saved |-> co, current |-> <<>>, selected |-> <<>>]
    BY Zenon DEF Init
  <2> QED BY <2>1 DEF Stores
<1>3. PICK roles : server = [rows |-> [k \in Kinds |-> GivenRows(k, roles)], born |-> [k \in Kinds |-> 0]]
  BY <1>1
<1>4. "documents" \in Kinds
  BY DEF Kinds
<1>5. /\ DOMAIN server = {"rows", "born"} /\ DOMAIN server.rows = Kinds /\ DOMAIN server.born = Kinds
      /\ server.rows.documents = GivenRows("documents", roles) /\ server.born.documents = 0
  BY <1>3, <1>4
<1>6. Shaped
  <2>1. net \in Seq(Range(net)) /\ DOMAIN net = {} /\ "at" \in DOMAIN page /\ page.at = "blank"
    BY <1>1
  <2> QED BY <1>1, <1>2, <1>5, <2>1 DEF Shaped, Routes
<1> DEFINE a == Row("documents", 1, 1, [number |-> 1])
           b == Row("documents", 2, 2, [number |-> 1, data |-> [of |-> 2, v |-> 0]])
<1>7. GivenRows("documents", roles) = <<>> \/ GivenRows("documents", roles) = <<a, b>>
  BY Zenon DEF GivenRows
<1>8. Born(server) = 3
  BY <1>5 DEF Born, Given
<1>9. {"id", "data", "pdf"} \subseteq DOMAIN a /\ OwnRow(server, a)
  <2>1. PICK body : body = [number |-> 1]
    OBVIOUS
  <2>2. DOMAIN body = {"number"}
    BY <2>1
  <2>3. PICK r : r = Row("documents", 1, 1, body)
    OBVIOUS
  <2>4. {"id", "data", "pdf"} \subseteq DOMAIN r /\ r.id = 1 /\ r.data = NoData /\ r.pdf = NoData
    BY <2>2, <2>3, RowIs
  <2> QED BY <1>8, <2>1, <2>3, <2>4 DEF OwnRow, Own, NoData
<1>10. {"id", "data", "pdf"} \subseteq DOMAIN b /\ OwnRow(server, b)
  <2>0. PICK data : data = [of |-> 2, v |-> 0]
    OBVIOUS
  <2>1. PICK body : body = [number |-> 1, data |-> data]
    OBVIOUS
  <2>2. DOMAIN body = {"number", "data"} /\ body.data = data
    BY <2>1
  <2>3. PICK r : r = Row("documents", 2, 2, body)
    OBVIOUS
  <2>4. {"id", "data", "pdf"} \subseteq DOMAIN r /\ r.id = 2 /\ r.data = data /\ r.pdf = NoData
    BY <2>2, <2>3, RowIs
  <2> QED BY <1>8, <2>0, <2>1, <2>3, <2>4 DEF OwnRow, Own, NoData
<1> HIDE DEF a, b
<1>11. OwnServer(server)
  <2>1. CASE server.rows.documents = <<>>
    <3>1. server.rows.documents \in Seq(Range(server.rows.documents)) /\ Range(server.rows.documents) = {}
      BY <2>1 DEF Range
    <3> QED BY <1>5, <3>1 DEF OwnServer
  <2>2. CASE server.rows.documents = <<a, b>>
    <3>1. server.rows.documents \in Seq(Range(server.rows.documents)) /\ Range(server.rows.documents) = {a, b}
      BY <2>2 DEF Range
    <3> QED BY <1>5, <1>9, <1>10, <3>1 DEF OwnServer
  <2> QED BY <1>5, <1>7, <2>1, <2>2
<1>12. OwnPage(server, page) /\ OwnCurrent(server, store.current) /\ DOMAIN net = {}
  BY <1>1, <1>2 DEF OwnPage, OwnCurrent
<1> QED BY <1>6, <1>11, <1>12 DEF DraftsOwn

\* Rows with flags taken, and a row put in the place of that of its id.
LEMMA ExclusiveIs ==
  ASSUME NEW R, NEW rows \in Seq(R), NEW row
  PROVE  /\ Exclusive(rows, row) \in Seq(Range(Exclusive(rows, row))) /\ DOMAIN Exclusive(rows, row) = DOMAIN rows
         /\ \A x \in Range(Exclusive(rows, row)) :
              \E r \in Range(rows) : DOMAIN x = DOMAIN r /\ \A f \in DOMAIN r : f # "isDefault" => x[f] = r[f]
<1>1. Len(rows) \in Nat /\ DOMAIN rows = 1..Len(rows)
  OBVIOUS
<1>2. PICK e : e = Exclusive(rows, row)
  OBVIOUS
<1>3. DOMAIN e = 1..Len(rows) /\ e = [i \in 1..Len(rows) |-> e[i]]
  BY <1>1, <1>2 DEF Exclusive
<1>4. \A i \in 1..Len(rows) : e[i] \in Range(e)
  BY <1>3 DEF Range
<1>5. e \in Seq(Range(e))
  BY <1>1, <1>3, <1>4
<1>6. ASSUME NEW i \in DOMAIN rows
      PROVE  DOMAIN e[i] = DOMAIN rows[i] /\ \A f \in DOMAIN rows[i] : f # "isDefault" => e[i][f] = rows[i][f]
  <2>1. e[i] = rows[i] \/ e[i] = [rows[i] EXCEPT !.isDefault = FALSE]
    BY <1>2, <1>6 DEF Exclusive
  <2> QED BY <2>1
<1>7. ASSUME NEW x \in Range(e)
      PROVE  \E r \in Range(rows) : DOMAIN x = DOMAIN r /\ \A f \in DOMAIN r : f # "isDefault" => x[f] = r[f]
  <2>1. PICK i \in DOMAIN rows : x = e[i]
    BY <1>1, <1>3, <1>7 DEF Range
  <2>2. rows[i] \in Range(rows)
    BY DEF Range
  <2> QED BY <1>6, <2>1, <2>2
<1> QED BY <1>1, <1>2, <1>3, <1>5, <1>7

LEMMA ReplacedIs ==
  ASSUME NEW R, NEW rows \in Seq(R), NEW row
  PROVE  /\ Replaced(rows, row) \in Seq(Range(Replaced(rows, row)))
         /\ \A x \in Range(Replaced(rows, row)) :
              (x \in Range(rows) /\ x.id # row.id) \/ (x = row /\ \E r \in Range(rows) : r.id = row.id)
<1>1. Len(rows) \in Nat /\ DOMAIN rows = 1..Len(rows)
  OBVIOUS
<1>2. PICK e : e = Replaced(rows, row)
  OBVIOUS
<1>3. DOMAIN e = 1..Len(rows) /\ e = [i \in 1..Len(rows) |-> e[i]]
  BY <1>1, <1>2 DEF Replaced
<1>4. \A i \in 1..Len(rows) : e[i] \in Range(e)
  BY <1>3 DEF Range
<1>5. e \in Seq(Range(e))
  BY <1>1, <1>3, <1>4
<1>6. ASSUME NEW x \in Range(e)
      PROVE  (x \in Range(rows) /\ x.id # row.id) \/ (x = row /\ \E r \in Range(rows) : r.id = row.id)
  <2>1. PICK i \in DOMAIN rows : x = e[i]
    BY <1>1, <1>3, <1>6 DEF Range
  <2>2. rows[i] \in Range(rows)
    BY DEF Range
  <2>3. (rows[i].id = row.id /\ x = row) \/ (rows[i].id # row.id /\ x = rows[i])
    BY <1>2, <2>1 DEF Replaced
  <2> QED BY <2>2, <2>3
<1> QED BY <1>2, <1>5, <1>6

\* The server goes on: rows are changed or removed, and a new one has a new id.
Later(sv, after) ==
  /\ Born(sv) \in Nat /\ Born(after) \in Nat /\ Born(sv) <= Born(after)
  /\ \A id : Gone(sv, id) => Gone(after, id)

LEMMA LaterRows ==
  ASSUME NEW sv, OwnServer(sv), NEW after, after.born.documents \in {sv.born.documents, sv.born.documents + 1},
         after.rows.documents \in Seq(Range(after.rows.documents)),
         \A x \in Range(after.rows.documents) :
           /\ {"id", "data", "pdf"} \subseteq DOMAIN x
           /\ \/ OwnRow(sv, x) /\ \E r \in Range(sv.rows.documents) : r.id = x.id
              \/ OwnRow(after, x) /\ x.id = Born(sv) + 1
  PROVE  Later(sv, after) /\ OwnServer(after)
<1>1. Born(sv) \in Nat /\ Born(after) \in Nat /\ Born(sv) <= Born(after)
  <2>1. PICK m \in Nat : m = sv.born.documents
    BY DEF OwnServer
  <2>2. PICK n \in {m, m + 1} : n = after.born.documents
    BY <2>1
  <2>3. Born(sv) = 3 + m /\ Born(after) = 3 + n
    BY <2>1, <2>2 DEF Born, Given
  <2> QED BY <2>2, <2>3
<1>2. ASSUME NEW id, Gone(sv, id) PROVE Gone(after, id)
  BY <1>1, <1>2 DEF Gone
<1>3. Later(sv, after)
  BY <1>1, <1>2 DEF Later
<1>4. ASSUME NEW x, OwnRow(sv, x) PROVE OwnRow(after, x)
  BY <1>1, <1>2, <1>4 DEF OwnRow, Own
<1>5. OwnServer(after)
  BY <1>4 DEF OwnServer
<1> QED BY <1>3, <1>5

LEMMA LaterIs ==
  ASSUME NEW sv, NEW after, Later(sv, after)
  PROVE  /\ \A d, id : Own(sv, d, id) => Own(after, d, id)
         /\ \A x : OwnRow(sv, x) => OwnRow(after, x)
         /\ \A p : OwnPage(sv, p) => OwnPage(after, p)
         /\ \A s : OwnCurrent(sv, s) => OwnCurrent(after, s)
         /\ \A p, c : OwnCall(sv, p, c) => OwnCall(after, p, c)
<1>1. \A d, id : Own(sv, d, id) => Own(after, d, id)
  BY DEF Later, Own
<1>2. \A id : id \in 1..Born(sv) => id \in 1..Born(after)
  BY DEF Later
<1>3. \A x : OwnRow(sv, x) => OwnRow(after, x)
  BY <1>1, <1>2 DEF OwnRow
<1>4. \A p : OwnPage(sv, p) => OwnPage(after, p)
  BY <1>1, <1>2 DEF OwnPage
<1>5. \A s : OwnCurrent(sv, s) => OwnCurrent(after, s)
  BY <1>3 DEF OwnCurrent
<1>6. ASSUME NEW p, NEW c, OwnCall(sv, p, c) PROVE OwnCall(after, p, c)
  <2>1. OwnBody(after, c)
    BY <1>1, <1>6 DEF OwnCall, OwnBody
  <2>2. OwnAnswer(after, c)
    BY <1>3, <1>6 DEF OwnCall, OwnAnswer
  <2>3. OwnHeard(after, p, c)
    BY <1>6 DEF OwnCall, OwnHeard, Later
  <2> QED BY <2>1, <2>2, <2>3 DEF OwnCall
<1> QED BY <1>1, <1>3, <1>4, <1>5, <1>6

-----------------------------------------------------------------------------
(* The server answers a call                                                *)

LEMMA FoundIs ==
  ASSUME NEW c, c.kind = "documents"
  PROVE  \/ Found(c) = <<>> /\ \A r \in Range(server.rows.documents) : r.id # c.id
         \/ \E r \in Range(server.rows.documents) : r.id = c.id /\ Found(c) = <<r>>
<1> DEFINE named == {r \in Range(server.rows[c.kind]) : r.id = c.id /\ (r.owner = c.co \/ c.kind = "documents")}
<1>1. server.rows[c.kind] = server.rows.documents
  OBVIOUS
<1>2. \A r : r \in named <=> r \in Range(server.rows.documents) /\ r.id = c.id
  BY <1>1
<1>3. Found(c) = IF named = {} THEN <<>> ELSE <<CHOOSE r \in named : TRUE>>
  BY Zenon DEF Found
<1> HIDE DEF named
<1>4. CASE named = {}
  BY <1>2, <1>3, <1>4
<1>5. CASE named # {}
  <2>1. PICK x \in named : x = CHOOSE r \in named : TRUE
    BY <1>5
  <2> QED BY <1>2, <1>3, <1>5, <2>1
<1> QED BY <1>4, <1>5

\* The handlers either refuse a call and leave the rows, or answer it.
LEMMA HandledIs ==
  ASSUME NEW c, IsCall(c)
  PROVE  /\ Handled(c).at \in {"done", "failed"} /\ (Handled(c).at = "done" <=> ~Refused(c))
         /\ Refused(c) => Handled(c).at = "failed"
         /\ Handled(c).at = "done" /\ c.kind \in {"documents", "companies"} =>
              /\ c.op \in {"list", "check", "next", "send", "get", "peek"} =>
                   Handled(c).rows = server.rows[c.kind]
              /\ c.op \in {"get", "peek"} => Handled(c).answer = Found(c)
              /\ c.op = "create" => Handled(c).rows = Created(c) /\ Handled(c).answer = <<NewRow(c)>>
              /\ c.op = "update" => /\ Handled(c).rows = Changed(c)
                                    /\ Handled(c).answer = <<Patched(Found(c)[1], Accepted(c))>>
              /\ c.op = "remove" => Handled(c).rows = Removed(c)
<1>1. CASE Refused(c)
  <2>1. Handled(c).at = "failed"
    BY <1>1 DEF Handled
  <2> QED BY <1>1, <2>1
<1>2. CASE ~Refused(c)
  <2>1. c.op # "assign" /\ c.op \in Operations(c.kind)
    BY <1>2 DEF Refused, AdminRefused, IsCall
  <2>2. c.op \in {"list", "check", "next", "create", "update", "remove", "send", "peek", "get", "both"}
        /\ (c.kind = "users" => c.op # "peek") /\ (c.kind \in {"documents", "companies"} => c.op # "both")
    BY <2>1 DEF Operations
  <2>3. CASE c.op \in {"list", "check", "next"}
    <3>1. Handled(c).at = "done" /\ Handled(c).rows = server.rows[c.kind]
      <4>1. CASE c.op = "list"
        BY <1>2, <4>1 DEF Handled
      <4>2. CASE c.op = "check"
        BY <1>2, <4>2 DEF Handled
      <4>3. CASE c.op = "next"
        BY <1>2, <4>3 DEF Handled
      <4> QED BY <2>3, <4>1, <4>2, <4>3
    <3> QED BY <1>2, <2>3, <3>1
  <2>4. CASE c.op \in {"send", "both"}
    <3>1. Handled(c).at = "done" /\ Handled(c).rows = server.rows[c.kind]
      <4>1. CASE c.op = "send"
        BY <1>2, <4>1 DEF Handled
      <4>2. CASE c.op = "both"
        BY <1>2, <4>2 DEF Handled
      <4> QED BY <2>4, <4>1, <4>2
    <3> QED BY <1>2, <2>4, <3>1
  <2>5. CASE c.op = "get" /\ c.kind = "users"
    <3>1. Handled(c).at = "done"
      BY <1>2, <2>5 DEF Handled
    <3> QED BY <1>2, <2>5, <3>1
  <2>6. CASE c.op \in {"get", "peek"} /\ c.kind # "users"
    <3>1. Handled(c).at = "done" /\ Handled(c).rows = server.rows[c.kind] /\ Handled(c).answer = Found(c)
      <4>1. CASE c.op = "get"
        BY <1>2, <2>6, <4>1 DEF Handled
      <4>2. CASE c.op = "peek"
        BY <1>2, <2>6, <4>2 DEF Handled
      <4> QED BY <2>6, <4>1, <4>2
    <3> QED BY <1>2, <2>6, <3>1
  <2>7. CASE c.op = "create"
    <3>1. Handled(c).at = "done" /\ Handled(c).rows = Created(c) /\ Handled(c).answer = <<NewRow(c)>>
      BY <1>2, <2>7 DEF Handled
    <3> QED BY <1>2, <2>7, <3>1
  <2>8. CASE c.op = "update"
    <3>1. Handled(c).at = "done" /\ Handled(c).rows = Changed(c)
          /\ Handled(c).answer = <<Patched(Found(c)[1], Accepted(c))>>
      BY <1>2, <2>8 DEF Handled
    <3> QED BY <1>2, <2>8, <3>1
  <2>9. CASE c.op = "remove"
    <3>1. Handled(c).at = "done" /\ Handled(c).rows = Removed(c)
      BY <1>2, <2>9 DEF Handled
    <3> QED BY <1>2, <2>9, <3>1
  <2> QED BY <2>2, <2>3, <2>4, <2>5, <2>6, <2>7, <2>8, <2>9
<1> QED BY <1>1, <1>2

\* A document that is created has no data yet, or that of its original under its own name.
LEMMA NewDocumentIs ==
  ASSUME NEW c, DOMAIN c.body \cap {"id", "data", "pdf"} = {}
  PROVE  /\ {"id", "data", "pdf"} \subseteq DOMAIN NewDocument(c)
         /\ NewDocument(c).id = NewId("documents") /\ NewDocument(c).pdf = NoData
         /\ "of" \in DOMAIN NewDocument(c).data /\ NewDocument(c).data.of \in {None, NewId("documents")}
<1> DEFINE origin == SelectSeq(server.rows.documents, LAMBDA r : r.id = c.body.from)
           copied == origin # <<>> /\ origin[1].data # NoData
<1>1. PICK r, id, body : r = Row("documents", id, c.co, body) /\ id = NewId("documents") /\ body = c.body
  OBVIOUS
<1>2. {"id", "data", "pdf", "number"} \subseteq DOMAIN r /\ r.id = id /\ r.data = NoData /\ r.pdf = NoData
  <2>1. "id" \notin DOMAIN body /\ "data" \notin DOMAIN body /\ "pdf" \notin DOMAIN body
    BY <1>1
  <2> QED BY <1>1, <2>1, RowIs
<1>3. PICK number, v : NewDocument(c) = [r EXCEPT !.number = number,
                                                 !.data = IF copied THEN [of |-> id, v |-> v] ELSE @]
  <2> DEFINE m == IF r.number = 0 THEN NextNumber(c.co) ELSE r.number
             w == origin[1].data.v
  <2>1. NewDocument(c) = [r EXCEPT !.number = m, !.data = IF copied THEN [of |-> id, v |-> w] ELSE @]
    BY <1>1 DEF NewDocument
  <2> HIDE DEF m, w, copied
  <2> QED BY <2>1, Zenon
<1> HIDE DEF copied
<1>4. PICK data : data = IF copied THEN [of |-> id, v |-> v] ELSE NoData
  OBVIOUS
<1>5. "of" \in DOMAIN data /\ data.of \in {None, id}
  BY <1>4 DEF NoData
<1>6. PICK new : new = NewDocument(c)
  OBVIOUS
<1>7. new = [r EXCEPT !.number = number, !.data = data]
  BY <1>2, <1>3, <1>4, <1>6
<1>8. {"id", "data", "pdf"} \subseteq DOMAIN new /\ new.id = id /\ new.pdf = NoData /\ new.data = data
  BY <1>2, <1>7
<1> QED BY <1>1, <1>5, <1>6, <1>8

\* A row with other flags is as much its own.
LEMMA OwnFlags ==
  ASSUME NEW sv, NEW r, OwnRow(sv, r), {"id", "data", "pdf"} \subseteq DOMAIN r, NEW x, DOMAIN x = DOMAIN r,
         \A f \in DOMAIN r : f # "isDefault" => x[f] = r[f]
  PROVE  OwnRow(sv, x) /\ {"id", "data", "pdf"} \subseteq DOMAIN x /\ x.id = r.id
<1>1. x.id = r.id /\ x.data = r.data /\ x.pdf = r.pdf
  OBVIOUS
<1> QED BY <1>1 DEF OwnRow

\* The rows of the documents that a handler leaves.
Left(rows, born) ==
  /\ rows \in Seq(Range(rows))
  /\ \A x \in Range(rows) :
       /\ {"id", "data", "pdf"} \subseteq DOMAIN x
       /\ \/ OwnRow(server, x) /\ \E r \in Range(server.rows.documents) : r.id = x.id
          \/ /\ born = 1 /\ x.id = Born(server) + 1 /\ x.pdf = NoData
             /\ "of" \in DOMAIN x.data /\ x.data.of \in {None, x.id}

LEMMA CreatedIs ==
  ASSUME OwnServer(server), NEW c, c.kind = "documents", DOMAIN c.body \cap {"id", "data", "pdf"} = {}
  PROVE  Left(Created(c), 1)
<1>1. PICK new : new = NewDocument(c)
  OBVIOUS
<1>2. /\ {"id", "data", "pdf"} \subseteq DOMAIN new /\ new.id = Born(server) + 1 /\ new.pdf = NoData
      /\ "of" \in DOMAIN new.data /\ new.data.of \in {None, new.id}
  <2>1. NewId("documents") = Born(server) + 1
    BY DEF NewId, Born
  <2> QED BY <1>1, <2>1, NewDocumentIs
<1>3. PICK a, b : a = Exclusive(server.rows.documents, new) /\ b = <<new>>
  OBVIOUS
<1>4. /\ a \in Seq(Range(a))
      /\ \A x \in Range(a) : \E r \in Range(server.rows.documents) :
           DOMAIN x = DOMAIN r /\ \A f \in DOMAIN r : f # "isDefault" => x[f] = r[f]
  BY <1>3, ExclusiveIs DEF OwnServer
<1>5. \A x \in Range(a) : /\ {"id", "data", "pdf"} \subseteq DOMAIN x
                          /\ OwnRow(server, x) /\ \E r \in Range(server.rows.documents) : r.id = x.id
  BY <1>4, OwnFlags DEF OwnServer
<1>6. b \in Seq(Range(b)) /\ DOMAIN b = {1} /\ b[1] = new
  BY <1>3 DEF Range
<1>7. PICK s : s = a \o b
  OBVIOUS
<1>8. /\ s \in Seq(Range(s))
      /\ \A i \in DOMAIN s : (\E k \in DOMAIN a : s[i] = a[k]) \/ s[i] = new
  BY <1>4, <1>6, <1>7, Joined
<1>9. \A x \in Range(s) : x \in Range(a) \/ x = new
  BY <1>8 DEF Range
<1>10. Created(c) = s
  <2>1. Created(c) = Append(a, new)
    BY <1>1, <1>3 DEF Created, NewRow
  <2> QED BY <1>3, <1>4, <1>7, <2>1
<1> QED BY <1>2, <1>5, <1>8, <1>9, <1>10 DEF Left

LEMMA ChangedIs ==
  ASSUME OwnServer(server), NEW c, c.kind = "documents", OwnBody(server, c), Found(c) # <<>>
  PROVE  /\ Left(Changed(c), 0)
         /\ Patched(Found(c)[1], Accepted(c)).id = c.id /\ OwnRow(server, Patched(Found(c)[1], Accepted(c)))
<1>1. PICK r \in Range(server.rows.documents) : r.id = c.id /\ Found(c) = <<r>>
  BY FoundIs
<1>2. PICK row, body : row = Patched(r, body) /\ body = c.body
  OBVIOUS
<1>3. Accepted(c) = body /\ Found(c)[1] = r
  BY <1>1, <1>2 DEF Accepted
<1>4. {"id", "data", "pdf"} \subseteq DOMAIN r /\ OwnRow(server, r)
  BY DEF OwnServer
<1>5. /\ DOMAIN row = DOMAIN r /\ row.id = c.id
      /\ row.data = IF "data" \in DOMAIN body THEN body.data ELSE r.data
      /\ row.pdf = IF "pdf" \in DOMAIN body THEN body.pdf ELSE r.pdf
  <2>1. "id" \notin DOMAIN body
    BY <1>2 DEF OwnBody
  <2> QED BY <1>1, <1>2, <1>4, <2>1 DEF Patched
<1>6. OwnRow(server, row)
  BY <1>1, <1>2, <1>4, <1>5 DEF OwnRow, OwnBody
<1>7. PICK a : a = Exclusive(server.rows.documents, row)
  OBVIOUS
<1>8. /\ a \in Seq(Range(a))
      /\ \A x \in Range(a) : \E y \in Range(server.rows.documents) :
           DOMAIN x = DOMAIN y /\ \A f \in DOMAIN y : f # "isDefault" => x[f] = y[f]
  BY <1>7, ExclusiveIs DEF OwnServer
<1>9. \A x \in Range(a) : /\ {"id", "data", "pdf"} \subseteq DOMAIN x
                          /\ OwnRow(server, x) /\ \E y \in Range(server.rows.documents) : y.id = x.id
  BY <1>8, OwnFlags DEF OwnServer
<1>10. PICK s : s = Replaced(a, row)
  OBVIOUS
<1>11. s \in Seq(Range(s)) /\ \A x \in Range(s) : x \in Range(a) \/ x = row
  BY <1>8, <1>10, ReplacedIs
<1>12. Changed(c) = s
  BY <1>2, <1>3, <1>7, <1>10 DEF Changed
<1>13. \A x \in Range(s) : /\ {"id", "data", "pdf"} \subseteq DOMAIN x
                           /\ OwnRow(server, x) /\ \E y \in Range(server.rows.documents) : y.id = x.id
  BY <1>1, <1>4, <1>5, <1>6, <1>9, <1>11
<1> QED BY <1>2, <1>3, <1>5, <1>6, <1>11, <1>12, <1>13 DEF Left

LEMMA PickedRows ==
  ASSUME OwnServer(server), NEW S
  PROVE  Left(Picked(server.rows.documents, S), 0) /\ Left(server.rows.documents, 0)
<1>1. PICK s, rows : s = Picked(rows, S) /\ rows = server.rows.documents
  OBVIOUS
<1>2. rows \in Seq(Range(rows)) /\ \A r \in Range(rows) : {"id", "data", "pdf"} \subseteq DOMAIN r /\ OwnRow(server, r)
  BY <1>1 DEF OwnServer
<1>3. s \in Seq(Range(s)) /\ \A x \in Range(s) : x \in Range(rows)
  BY <1>1, <1>2, PickedOf
<1> QED BY <1>1, <1>2, <1>3 DEF Left

\* What such rows make of the server.
LEMMA LeavesIs ==
  ASSUME OwnServer(server), NEW sv, NEW born \in {0, 1}, Left(sv.rows.documents, born),
         sv.born.documents = server.born.documents + born
  PROVE  Later(server, sv) /\ OwnServer(sv)
<1>1. PICK m \in Nat : m = server.born.documents
  BY DEF OwnServer
<1>2. Born(server) = 3 + m /\ Born(sv) = 3 + (m + born) /\ sv.born.documents \in {server.born.documents, server.born.documents + 1}
  BY <1>1 DEF Born, Given
<1>3. ASSUME NEW x \in Range(sv.rows.documents)
      PROVE  /\ {"id", "data", "pdf"} \subseteq DOMAIN x
             /\ \/ OwnRow(server, x) /\ \E r \in Range(server.rows.documents) : r.id = x.id
                \/ OwnRow(sv, x) /\ x.id = Born(server) + 1
  <2>1. CASE OwnRow(server, x) /\ \E r \in Range(server.rows.documents) : r.id = x.id
    BY <1>3, <2>1 DEF Left
  <2>2. CASE /\ born = 1 /\ x.id = Born(server) + 1 /\ x.pdf = NoData
             /\ "of" \in DOMAIN x.data /\ x.data.of \in {None, x.id}
    <3>1. x.id \in 1..Born(sv)
      BY <1>1, <1>2, <2>2
    <3>2. OwnRow(sv, x)
      BY <2>2, <3>1 DEF OwnRow, Own, NoData
    <3> QED BY <1>3, <2>2, <3>2 DEF Left
  <2> QED BY <1>3, <2>1, <2>2 DEF Left
<1>4. sv.rows.documents \in Seq(Range(sv.rows.documents))
  BY DEF Left
<1> QED BY <1>2, <1>3, <1>4, LaterRows

\* The rows of a company go with it; everything else keeps its place.
LEMMA WithCompanyIs ==
  ASSUME NEW c, NEW sv, DOMAIN sv = {"rows", "born"}, DOMAIN sv.rows = Kinds, DOMAIN sv.born = Kinds,
         NEW kind \in {"documents", "companies"}
  PROVE  LET after == WithCompany(c, sv) IN
         /\ DOMAIN after = {"rows", "born"} /\ DOMAIN after.rows = Kinds /\ DOMAIN after.born = Kinds
         /\ after.born[kind] = sv.born[kind]
         /\ \/ after.rows[kind] = sv.rows[kind]
            \/ \E S : after.rows[kind] = Picked(sv.rows[kind], S)
         /\ c.kind # "companies" => after = sv
<1>1. kind \in Kinds /\ "members" \in Kinds /\ kind \notin AdminKinds /\ kind # "members"
  BY DEF Kinds, AdminKinds
<1>2. PICK after : after = WithCompany(c, sv)
  OBVIOUS
<1>3. CASE c.kind # "companies" \/ c.op \notin {"create", "remove"}
  BY <1>2, <1>3 DEF WithCompany
<1>4. CASE c.kind = "companies" /\ c.op = "remove"
  <2> DEFINE rows == [k \in Kinds |-> IF k \in AdminKinds THEN sv.rows[k]
                                      ELSE Picked(sv.rows[k], {r \in Range(sv.rows[k]) : r.owner # c.id})]
  <2>1. after = [sv EXCEPT !.rows = rows]
    BY <1>2, <1>4 DEF WithCompany
  <2>2. DOMAIN rows = Kinds
    OBVIOUS
  <2>3. \E S : rows[kind] = Picked(sv.rows[kind], S)
    BY <1>1
  <2> HIDE DEF rows
  <2> QED BY <1>2, <1>4, <2>1, <2>2, <2>3
<1>5. CASE c.kind = "companies" /\ c.op = "create"
  <2>1. PICK row : WithCompany(c, sv) = [sv EXCEPT !.rows.members = Append(@, row), !.born.members = @ + 1]
    <3> DEFINE row == Row("members", NewId("members"), NewId("companies"), [name |-> "me", role |-> "OWNER"])
    <3>1. WithCompany(c, sv) = [sv EXCEPT !.rows.members = Append(@, row), !.born.members = @ + 1]
      BY <1>5 DEF WithCompany
    <3> HIDE DEF row
    <3> QED BY <3>1, Zenon
  <2>2. PICK a, b : a = Append(sv.rows.members, row) /\ b = sv.born.members + 1
    OBVIOUS
  <2>3. after = [sv EXCEPT !.rows.members = a, !.born.members = b]
    BY <1>2, <2>1, <2>2
  <2> QED BY <1>1, <1>2, <1>5, <2>3
<1> QED BY <1>2, <1>3, <1>4, <1>5

\* What a call that is answered leaves, and what it brings.
Served(c, born) ==
  WithCompany(c, [server EXCEPT !.rows[c.kind] = Handled(c).rows, !.born[c.kind] = @ + born])

LEMMA ServedIs ==
  ASSUME Shaped, OwnServer(server), NEW c, IsCall(c), OwnBody(server, c), Handled(c).at = "done",
         NEW born, born = IF c.op = "create" THEN 1 ELSE 0,
         NEW sv, sv = Served(c, born)
  PROVE  /\ DOMAIN sv = {"rows", "born"} /\ DOMAIN sv.rows = Kinds /\ DOMAIN sv.born = Kinds
         /\ Later(server, sv) /\ OwnServer(sv)
         /\ c.kind = "documents" /\ c.op \in {"get", "peek", "update"} =>
              LET answer == Handled(c).answer
              IN  answer # <<>> /\ answer[1].id = c.id /\ OwnRow(server, answer[1])
<1>1. c.kind \in Kinds /\ "documents" \in Kinds
  BY DEF IsCall, Kinds
<1>2. PICK rows, number : rows = Handled(c).rows /\ number = server.born[c.kind] + born
  OBVIOUS
<1>3. PICK after : after = [server EXCEPT !.rows[c.kind] = rows, !.born[c.kind] = number]
  OBVIOUS
<1>4. sv = WithCompany(c, after)
  BY <1>2, <1>3 DEF Served
<1>5. /\ DOMAIN after = {"rows", "born"} /\ DOMAIN after.rows = Kinds /\ DOMAIN after.born = Kinds
      /\ c.kind = "documents" => after.rows.documents = rows /\ after.born.documents = number
      /\ c.kind # "documents" => /\ after.rows.documents = server.rows.documents
                                 /\ after.born.documents = server.born.documents
  BY <1>1, <1>3 DEF Shaped
<1>6. /\ DOMAIN sv = {"rows", "born"} /\ DOMAIN sv.rows = Kinds /\ DOMAIN sv.born = Kinds
      /\ sv.born.documents = after.born.documents
      /\ \/ sv.rows.documents = after.rows.documents
         \/ \E S : sv.rows.documents = Picked(after.rows.documents, S)
      /\ c.kind # "companies" => sv = after
  <2>1. PICK k : k = "documents"
    OBVIOUS
  <2>2. /\ DOMAIN sv = {"rows", "born"} /\ DOMAIN sv.rows = Kinds /\ DOMAIN sv.born = Kinds
        /\ sv.born[k] = after.born[k]
        /\ sv.rows[k] = after.rows[k] \/ \E S : sv.rows[k] = Picked(after.rows[k], S)
        /\ c.kind # "companies" => sv = after
    BY <1>4, <1>5, <2>1, WithCompanyIs
  <2> QED BY <2>1, <2>2
<1>7. server.born.documents \in Nat /\ server.born.documents + 0 = server.born.documents
  BY DEF OwnServer
<1>8. CASE c.kind # "documents"
  <2>1. Left(sv.rows.documents, 0)
    BY <1>5, <1>6, <1>8, PickedRows
  <2> QED BY <1>5, <1>6, <1>7, <1>8, <2>1, LeavesIs
<1>9. CASE c.kind = "documents"
  <2>1. sv.rows.documents = rows /\ sv.born.documents = number /\ number = server.born.documents + born
    BY <1>2, <1>5, <1>6, <1>9
  <2>2. ~Refused(c) /\ c.op \in Operations(c.kind)
    BY HandledIs DEF IsCall
  <2>3. c.op \in {"list", "check", "next", "create", "update", "remove", "send", "peek", "get"}
    BY <1>9, <2>2 DEF Operations
  <2>4. c.op \notin {"list", "check", "next", "create"} => Found(c) # <<>>
    BY <2>2 DEF Refused
  <2>5. Left(server.rows.documents, 0)
    BY PickedRows
  <2>6. CASE c.op \in {"list", "check", "next", "send"}
    <3>1. rows = server.rows.documents /\ born = 0
      BY <1>2, <1>9, <2>6, HandledIs
    <3> QED BY <1>6, <2>1, <2>5, <2>6, <3>1, LeavesIs
  <2>7. CASE c.op \in {"get", "peek"}
    <3>1. rows = server.rows.documents /\ born = 0 /\ Handled(c).answer = Found(c)
      BY <1>2, <1>9, <2>7, HandledIs
    <3>2. PICK r \in Range(server.rows.documents) : r.id = c.id /\ Found(c) = <<r>>
      BY <1>9, <2>4, <2>7, FoundIs
    <3>3. OwnRow(server, r) /\ <<r>> # <<>> /\ <<r>>[1] = r
      BY DEF OwnServer
    <3> QED BY <1>6, <2>1, <2>5, <3>1, <3>2, <3>3, LeavesIs
  <2>8. CASE c.op = "create"
    <3>1. rows = Created(c) /\ born = 1
      BY <1>2, <1>9, <2>8, HandledIs
    <3>2. DOMAIN c.body \cap {"id", "data", "pdf"} = {}
      BY <2>8 DEF OwnBody
    <3> QED BY <1>6, <1>9, <2>1, <2>8, <3>1, <3>2, CreatedIs, LeavesIs
  <2>9. CASE c.op = "update"
    <3>1. rows = Changed(c) /\ born = 0 /\ Handled(c).answer = <<Patched(Found(c)[1], Accepted(c))>>
      BY <1>2, <1>9, <2>9, HandledIs
    <3>2. PICK row : row = Patched(Found(c)[1], Accepted(c))
      OBVIOUS
    <3>3. Left(rows, 0) /\ row.id = c.id /\ OwnRow(server, row) /\ <<row>> # <<>> /\ <<row>>[1] = row
      BY <1>9, <2>4, <2>9, <3>1, <3>2, ChangedIs
    <3> QED BY <1>6, <2>1, <3>1, <3>2, <3>3, LeavesIs
  <2>10. CASE c.op = "remove"
    <3>1. rows = Removed(c) /\ born = 0
      BY <1>2, <1>9, <2>10, HandledIs
    <3>2. Left(rows, 0)
      BY <1>9, <3>1, PickedRows DEF Removed, Without
    <3> QED BY <1>6, <2>1, <2>10, <3>1, <3>2, LeavesIs
  <2> QED BY <2>3, <2>6, <2>7, <2>8, <2>9, <2>10
<1> QED BY <1>8, <1>9

\* A call is answered or refused, or fails on its way.
Replies(i, c, at, answer) ==
  /\ net' = [net EXCEPT ![i] = [c EXCEPT !.at = at, !.answer = answer]]
  /\ \/ /\ at = "done" /\ Handled(c).at = "done" /\ answer = Handled(c).answer
        /\ server' = Served(c, IF c.op = "create" THEN 1 ELSE 0)
     \/ at = "failed" /\ server' = server /\ (Refused(c) \/ c.op \in scope.fails)

LEMMA ServeIs ==
  ASSUME Shaped, NEW i \in DOMAIN net, Serve(i), NEW c, c = net[i]
  PROVE  page' = page /\ store' = store /\ \E at, answer : Replies(i, c, at, answer)
<1> DEFINE h == Handled(c)
           number == IF c.op = "create" /\ h.at = "done" THEN 1 ELSE 0
           sv == Served(c, number)
           one == IF c.op = "create" THEN 1 ELSE 0
           Set == net' = [net EXCEPT ![i].at = h.at, ![i].answer = h.answer]
           Fail == net' = [net EXCEPT ![i].at = "failed"]
<1>1. IsCall(c)
  BY DEF Shaped
<1>2. /\ page' = page /\ store' = store
      /\ \/ Set /\ server' = IF h.at = "done" THEN sv ELSE server
         \/ c.op \in scope.fails /\ Fail /\ server' = server
  BY DEF Serve, Served
<1>3. CASE h.at = "done" /\ Set /\ server' = sv
  <2>1. PICK at, answer : at = h.at /\ answer = h.answer
    OBVIOUS
  <2>2. net' = [net EXCEPT ![i] = [c EXCEPT !.at = at, !.answer = answer]]
    <3>1. net' = [net EXCEPT ![i].at = at, ![i].answer = answer]
      BY <1>3, <2>1
    <3> QED BY <3>1 DEF Shaped
  <2>3. number = one
    BY <1>3
  <2>4. server' = Served(c, one)
    BY <1>3, <2>3
  <2> HIDE DEF sv, h, one
  <2> QED BY <1>2, <1>3, <2>1, <2>2, <2>4, Zenon DEF h, one, Replies
<1>4. CASE h.at # "done" /\ Set /\ server' = server
  <2>1. PICK at, answer : at = h.at /\ answer = h.answer
    OBVIOUS
  <2>2. net' = [net EXCEPT ![i] = [c EXCEPT !.at = at, !.answer = answer]]
    <3>1. net' = [net EXCEPT ![i].at = at, ![i].answer = answer]
      BY <1>4, <2>1
    <3> QED BY <3>1 DEF Shaped
  <2>3. at = "failed" /\ Refused(c)
    BY <1>1, <1>4, <2>1, HandledIs
  <2> HIDE DEF sv, h
  <2> QED BY <1>2, <1>4, <2>2, <2>3, Zenon DEF Replies
<1>5. CASE c.op \in scope.fails /\ Fail /\ server' = server
  <2>1. PICK at, answer : at = "failed" /\ answer = c.answer
    OBVIOUS
  <2>2. [c EXCEPT !.at = "failed"] = [c EXCEPT !.at = at, !.answer = answer]
    BY <1>1, <2>1 DEF IsCall
  <2>3. net' = [net EXCEPT ![i] = [c EXCEPT !.at = at, !.answer = answer]]
    BY <1>5, <2>2
  <2> HIDE DEF sv, h
  <2> QED BY <1>2, <1>5, <2>1, <2>3, Zenon DEF Replies
<1> HIDE DEF sv, number, h, Set, Fail, one
<1>6. \/ h.at = "done" /\ Set /\ server' = sv
      \/ h.at # "done" /\ Set /\ server' = server
      \/ c.op \in scope.fails /\ Fail /\ server' = server
  BY <1>2
<1> QED BY <1>3, <1>4, <1>5, <1>6, Zenon

LEMMA SequenceIs ==
  ASSUME NEW n \in Nat, NEW s, s = [j \in 1..n |-> s[j]]
  PROVE  s \in Seq(Range(s))
<1>1. \A j \in 1..n : s[j] \in Range(s)
  BY DEF Range
<1> QED BY <1>1

\* The other calls stay as they are.
LEMMA AnswerSet ==
  ASSUME Shaped, NEW i \in DOMAIN net, NEW after, NEW N, N = [net EXCEPT ![i] = after]
  PROVE  /\ N \in Seq(Range(N)) /\ DOMAIN N = DOMAIN net
         /\ \A j \in DOMAIN net : N[j] = IF j = i THEN after ELSE net[j]
<1>1. PICK n : n \in Nat /\ n = Len(net)
  BY DEF Shaped
<1>2. DOMAIN net = 1..n
  BY <1>1 DEF Shaped
<1>4. DOMAIN N = 1..n /\ N = [j \in 1..n |-> N[j]] /\ \A j \in 1..n : N[j] = IF j = i THEN after ELSE net[j]
  BY <1>2
<1>5. N \in Seq(Range(N))
  BY <1>1, <1>4, SequenceIs
<1> QED BY <1>2, <1>4, <1>5

LEMMA ServeOwn ==
  ASSUME Shaped, DraftsOwn, "get" \notin scope.fails, NEW i \in DOMAIN net, Serve(i)
  PROVE  Shaped' /\ DraftsOwn'
<1>1. PICK c : c = net[i]
  OBVIOUS
<1> DEFINE h == Handled(c)
           number == IF c.op = "create" THEN 1 ELSE 0
           sv == Served(c, number)
<1>2. IsCall(c) /\ OwnCall(server, page, c)
  BY <1>1, NetIs
<1>3. page' = page /\ store' = store
  BY <1>1, ServeIs
<1>4. PICK at, answer :
        /\ net' = [net EXCEPT ![i] = [c EXCEPT !.at = at, !.answer = answer]]
        /\ \/ at = "done" /\ h.at = "done" /\ answer = h.answer /\ server' = sv
           \/ at = "failed" /\ server' = server /\ (c.op = "get" => Refused(c))
  <2>1. PICK at, answer : Replies(i, c, at, answer)
    BY <1>1, ServeIs
  <2>2. c.op = "get" => c.op \notin scope.fails
    OBVIOUS
  <2> QED BY <2>1, <2>2, Zenon DEF Replies
<1>5. PICK after : after = [c EXCEPT !.at = at, !.answer = answer]
  OBVIOUS
<1>6. /\ DOMAIN after = Fields /\ after.at = at /\ after.answer = answer
      /\ after.op = c.op /\ after.kind = c.kind /\ after.id = c.id /\ after.body = c.body /\ after.mine = c.mine
  BY <1>2, <1>5 DEF IsCall, Fields
<1>7. /\ DOMAIN server' = {"rows", "born"} /\ DOMAIN server'.rows = Kinds /\ DOMAIN server'.born = Kinds
      /\ Later(server, server') /\ OwnServer(server')
      /\ OwnAnswer(server, after) /\ (at = "failed" /\ c.op = "get" => Refused(c))
  <2>1. CASE at = "done" /\ h.at = "done" /\ answer = h.answer /\ server' = sv
    <3>1. number = IF c.op = "create" THEN 1 ELSE 0
      BY <1>1, <2>1
    <3>2. PICK n, s : n = number /\ s = sv
      OBVIOUS
    <3>3. s = Served(c, n)
      BY <1>1, <3>2
    <3>4. /\ DOMAIN s = {"rows", "born"} /\ DOMAIN s.rows = Kinds /\ DOMAIN s.born = Kinds
          /\ Later(server, s) /\ OwnServer(s)
          /\ c.kind = "documents" /\ c.op \in {"get", "peek", "update"} =>
               /\ Handled(c).answer # <<>> /\ Handled(c).answer[1].id = c.id
               /\ OwnRow(server, Handled(c).answer[1])
      <4>1. Shaped /\ OwnServer(server) /\ OwnBody(server, c) /\ Handled(c).at = "done"
        BY <1>1, <1>2, <2>1 DEF DraftsOwn, OwnCall
      <4>2. n = IF c.op = "create" THEN 1 ELSE 0
        BY <3>1, <3>2
      <4> HIDE DEF h, number, sv
      <4> QED BY <1>2, <3>3, <4>1, <4>2, ServedIs
    <3>5. answer = Handled(c).answer /\ server' = s
      BY <1>1, <2>1, <3>2
    <3> HIDE DEF h, number, sv
    <3> QED BY <1>6, <2>1, <3>4, <3>5 DEF OwnAnswer
  <2>2. CASE at = "failed" /\ server' = server /\ (c.op = "get" => Refused(c))
    <3>1. OwnServer(server)
      BY DEF DraftsOwn
    <3>2. Born(server) \in Nat
      <4>1. PICK m \in Nat : m = server.born.documents
        BY <3>1 DEF OwnServer
      <4> QED BY <4>1 DEF Born, Given
    <3>3. Later(server, server)
      BY <3>2 DEF Later
    <3> QED BY <1>6, <2>2, <3>1, <3>3 DEF Shaped, OwnAnswer
  <2> QED BY <1>4, <2>1, <2>2
<1> HIDE DEF h, number, sv
<1>8. IsCall(after)
  <2>1. c.op = "assign" => at # "done"
    <3>1. CASE at = "done"
      <4>1. ~Refused(c)
        BY <1>1, <1>2, <1>4, <3>1, HandledIs DEF h
      <4> QED BY <4>1 DEF Refused, AdminRefused
    <3> QED BY <3>1
  <2>2. at \in {"done", "failed"}
    BY <1>4
  <2> QED BY <1>2, <1>6, <2>1, <2>2 DEF IsCall
<1>9. OwnCall(server, page, after)
  <2>1. OwnBody(server, after)
    BY <1>2, <1>6 DEF OwnCall, OwnBody, IsPeek
  <2>2. OwnHeard(server, page, after)
    <3>1. SUFFICES ASSUME page.at = "builder", c.mine # "none"
                   PROVE  OwnHeard(server, page, after)
      BY <1>6 DEF OwnHeard
    <3>2. ~IsPeek(after) /\ ~IsUpload(after) /\ ~IsStatus(after)
      BY <1>2, <1>6, <3>1 DEF OwnCall, OwnHeard, IsPeek, IsUpload, IsStatus
    <3>3. ASSUME c.op = "get"
          PROVE  c.kind = "documents" /\ c.id = page.id /\ (at = "failed" => Gone(server, page.id))
      <4>1. c.kind = "documents" /\ c.id = page.id
        BY <1>2, <3>1, <3>3 DEF OwnCall, OwnHeard
      <4>2. ASSUME at = "failed" PROVE Gone(server, page.id)
        <5>1. Refused(c)
          BY <1>7, <3>3, <4>2
        <5>2. Found(c) = <<>>
          BY <3>3, <4>1, <5>1 DEF Refused, DocumentRefused, VehicleRefused, AdminRefused, MemberRefused
        <5>3. \A r \in Range(server.rows.documents) : r.id # c.id
          BY <4>1, <5>2, FoundIs
        <5>4. page.id \in 1..Born(server)
          BY <3>1 DEF DraftsOwn, OwnPage
        <5> QED BY <4>1, <5>3, <5>4 DEF Gone
      <4> QED BY <4>1, <4>2
    <3> QED BY <1>6, <3>2, <3>3 DEF OwnHeard
  <2> QED BY <1>7, <2>1, <2>2 DEF OwnCall
<1>10. PICK s : s = server'
  OBVIOUS
<1>11. /\ \A x : OwnCurrent(server, x) => OwnCurrent(s, x)
       /\ \A p : OwnPage(server, p) => OwnPage(s, p)
       /\ \A p, x : OwnCall(server, p, x) => OwnCall(s, p, x)
  BY <1>7, <1>10, LaterIs
<1>12. /\ net' \in Seq(Range(net')) /\ DOMAIN net' = DOMAIN net
       /\ \A j \in DOMAIN net : net'[j] = IF j = i THEN after ELSE net[j]
  BY <1>4, <1>5, AnswerSet
<1>13. \A j \in DOMAIN net' : IsCall(net'[j]) /\ OwnCall(s, page, net'[j])
  BY <1>8, <1>9, <1>11, <1>12, NetIs
<1>14. OwnServer(s) /\ OwnCurrent(s, store.current) /\ OwnPage(s, page)
  BY <1>7, <1>10, <1>11 DEF DraftsOwn
<1>15. page'.at = "blank" => net' = <<>>
  BY <1>3 DEF Shaped
<1>16. Shaped'
  BY <1>3, <1>7, <1>12, <1>13, <1>15 DEF Shaped
<1> QED BY <1>3, <1>10, <1>13, <1>14, <1>16 DEF DraftsOwn, OwnCall

-----------------------------------------------------------------------------
(* A call leaves the queue                                                  *)

LEMMA RemoveAtIs ==
  ASSUME NEW s, s \in Seq(Range(s)), NEW i \in DOMAIN s
  PROVE  /\ RemoveAt(s, i) \in Seq(Range(RemoveAt(s, i)))
         /\ \A k \in DOMAIN RemoveAt(s, i) : \E j \in DOMAIN s : RemoveAt(s, i)[k] = s[j]
         /\ \A j \in DOMAIN s \ {i} : \E k \in DOMAIN RemoveAt(s, i) : RemoveAt(s, i)[k] = s[j]
<1>1. PICK n \in Nat : n = Len(s)
  OBVIOUS
<1>2. DOMAIN s = 1..n /\ i \in 1..n /\ \A k \in 1..n : s[k] \in Range(s)
  BY <1>1 DEF Range
<1> DEFINE a == SubSeq(s, 1, i - 1)
           b == SubSeq(s, i + 1, n)
<1>3. a \in Seq(Range(s)) /\ Len(a) = i - 1 /\ \A k \in 1..(i - 1) : a[k] = s[k]
  <2>1. i - 1 \in Int /\ 1 \in Int /\ \A k \in 1..(i - 1) : s[k] \in Range(s)
    BY <1>2
  <2>2. /\ a \in Seq(Range(s)) /\ Len(a) = IF 1 <= i - 1 THEN (i - 1) - 1 + 1 ELSE 0
        /\ \A k \in 1..((i - 1) - 1 + 1) : a[k] = s[1 + k - 1]
    BY <2>1, SubSeqProperties
  <2> HIDE DEF a
  <2> QED BY <1>2, <2>2
<1>4. b \in Seq(Range(s)) /\ Len(b) = n - i /\ \A k \in 1..(n - i) : b[k] = s[k + i]
  <2>1. i + 1 \in Int /\ n \in Int /\ \A k \in (i + 1)..n : s[k] \in Range(s)
    BY <1>2
  <2>2. /\ b \in Seq(Range(s)) /\ Len(b) = IF i + 1 <= n THEN n - (i + 1) + 1 ELSE 0
        /\ \A k \in 1..(n - (i + 1) + 1) : b[k] = s[(i + 1) + k - 1]
    BY <2>1, SubSeqProperties
  <2> HIDE DEF b
  <2>3. Len(b) = n - i
    BY <1>1, <1>2, <2>2
  <2>4. ASSUME NEW k \in 1..(n - i) PROVE b[k] = s[k + i]
    <3>1. k \in 1..(n - (i + 1) + 1) /\ (i + 1) + k - 1 = k + i
      BY <1>1, <1>2
    <3> QED BY <2>2, <3>1
  <2> QED BY <2>2, <2>3, <2>4
<1> HIDE DEF a, b
<1>5. a \in Seq(Range(a)) /\ b \in Seq(Range(b))
  BY <1>3, <1>4, InRange
<1>6. PICK r : r = a \o b
  OBVIOUS
<1>7. /\ r \in Seq(Range(r))
      /\ \A k \in DOMAIN r : (\E j \in DOMAIN a : r[k] = a[j]) \/ (\E j \in DOMAIN b : r[k] = b[j])
  BY <1>5, <1>6, Joined
<1>8. \A j \in DOMAIN a : j \in DOMAIN s /\ a[j] = s[j]
  <2>1. DOMAIN a = 1..(i - 1)
    BY <1>3
  <2> QED BY <1>2, <1>3, <2>1
<1>9. \A j \in DOMAIN b : j + i \in DOMAIN s /\ b[j] = s[j + i]
  <2>1. DOMAIN b = 1..(n - i)
    BY <1>4
  <2> QED BY <1>2, <1>4, <2>1
<1>10. RemoveAt(s, i) = r
  BY <1>1, <1>6 DEF RemoveAt, a, b
<1>11. ASSUME NEW k \in DOMAIN r PROVE \E j \in DOMAIN s : r[k] = s[j]
  <2>1. CASE \E j \in DOMAIN a : r[k] = a[j]
    BY <1>8, <2>1
  <2>2. CASE \E j \in DOMAIN b : r[k] = b[j]
    <3>1. PICK j \in DOMAIN b : r[k] = b[j]
      BY <2>2
    <3>2. j + i \in DOMAIN s /\ r[k] = s[j + i]
      BY <1>9, <3>1
    <3> QED BY <3>2
  <2> QED BY <1>7, <2>1, <2>2
<1>12. ASSUME NEW j \in DOMAIN s \ {i} PROVE \E k \in DOMAIN r : r[k] = s[j]
  <2>1. CASE j < i
    <3>1. j \in 1..(i - 1) /\ DOMAIN a = 1..(i - 1)
      BY <1>2, <1>3, <2>1
    <3>2. j \in DOMAIN a /\ a[j] = s[j]
      BY <1>3, <3>1
    <3>3. Within(a, r)
      BY <1>5, <1>6, JoinedKeeps
    <3> QED BY <3>2, <3>3 DEF Within
  <2>2. CASE i < j
    <3>1. j - i \in 1..(n - i) /\ DOMAIN b = 1..(n - i) /\ (j - i) + i = j
      BY <1>2, <1>4, <2>2
    <3>2. j - i \in DOMAIN b /\ b[j - i] = s[j]
      BY <1>4, <3>1
    <3>3. Within(b, r)
      BY <1>5, <1>6, JoinedKeeps
    <3> QED BY <3>2, <3>3 DEF Within
  <2> QED BY <1>2, <2>1, <2>2
<1> QED BY <1>7, <1>10, <1>11, <1>12

LEMMA BodyMadeOwn ==
  ASSUME Shaped, DraftsOwn, NEW i \in DOMAIN net, BodyMade(i)
  PROVE  Shaped' /\ DraftsOwn'
<1>1. PICK a, c, b : a = RemoveAt(net, i) /\ c = [net[i] EXCEPT !.at = "sent"] /\ b = <<c>>
  OBVIOUS
<1>2. /\ page' = page /\ store' = store /\ server' = server /\ net' = Append(a, c)
  BY <1>1 DEF BodyMade
<1>3. a \in Seq(Range(a)) /\ \A k \in DOMAIN a : \E j \in DOMAIN net : a[k] = net[j]
  BY <1>1, RemoveAtIs DEF Shaped
<1>4. \A k \in DOMAIN a : IsCall(a[k]) /\ OwnCall(server, page, a[k])
  BY <1>3, NetIs
<1>5. IsCall(net[i]) /\ OwnCall(server, page, net[i]) /\ net[i].at = "reading"
  BY NetIs DEF BodyMade
<1>6. /\ DOMAIN c = Fields /\ c.at = "sent" /\ c.op = net[i].op /\ c.kind = net[i].kind /\ c.id = net[i].id
      /\ c.body = net[i].body /\ c.mine = net[i].mine /\ c.answer = net[i].answer
  BY <1>1, <1>5 DEF IsCall, Fields
<1>7. IsCall(c)
  BY <1>5, <1>6 DEF IsCall
<1>8. OwnCall(server, page, c)
  <2>1. OwnBody(server, c)
    BY <1>5, <1>6 DEF OwnCall, OwnBody, IsPeek
  <2>2. OwnHeard(server, page, c)
    BY <1>5, <1>6 DEF OwnCall, OwnHeard, IsPeek, IsUpload, IsStatus
  <2> QED BY <1>6, <2>1, <2>2 DEF OwnCall, OwnAnswer
<1>9. b \in Seq(Range(b)) /\ DOMAIN b = {1} /\ b[1] = c
  BY <1>1 DEF Range
<1>10. PICK N : N = a \o b
  OBVIOUS
<1>11. N \in Seq(Range(N)) /\ \A k \in DOMAIN N : (\E j \in DOMAIN a : N[k] = a[j]) \/ N[k] = c
  BY <1>3, <1>9, <1>10, Joined
<1>12. net' = N
  <2>1. a \in Seq(Range(a) \cup {c}) /\ c \in Range(a) \cup {c}
    BY <1>3
  <2>2. Append(a, c) = a \o <<c>>
    BY <2>1, AppendIsConcat, Zenon
  <2> QED BY <1>1, <1>2, <1>10, <2>2
<1>13. \A k \in DOMAIN net' : IsCall(net'[k]) /\ OwnCall(server, page, net'[k])
  BY <1>4, <1>7, <1>8, <1>11, <1>12
<1>14. page.at # "blank"
  BY DEF Shaped
<1> QED BY <1>2, <1>11, <1>12, <1>13, <1>14, NetIs, OwnAfter DEF DraftsOwn

-----------------------------------------------------------------------------
(* An answer reaches the stores and the page                                *)

LEMMA HydratedIs ==
  ASSUME NEW s, DOMAIN s = Stores, DOMAIN s.rows = Kinds
  PROVE  DOMAIN Hydrated(s) = Stores /\ DOMAIN Hydrated(s).rows = Kinds /\ Hydrated(s).current = s.current
<1>1. PICK t, co : /\ t \in {s, [s EXCEPT !.active = s.saved], SetActive(s, co)} /\ t = Hydrated(s)
  <2>1. PICK t, co : t = Hydrated(s) /\ co = s.rows.companies[1].id
    OBVIOUS
  <2>2. t = s \/ t = [s EXCEPT !.active = s.saved] \/ t = SetActive(s, co)
    BY <2>1 DEF Hydrated
  <2> QED BY <2>1, <2>2
<1>2. CASE t = SetActive(s, co)
  BY <1>1, <1>2, SetActiveIs
<1>3. CASE t = [s EXCEPT !.active = s.saved]
  BY <1>1, <1>3 DEF Stores
<1> QED BY <1>1, <1>2, <1>3

\* The lists of the store.
LEMMA CompanyStoreIs ==
  ASSUME NEW s, DOMAIN s = Stores, DOMAIN s.rows = Kinds, NEW c, c.kind = "companies", c.op \in Operations(c.kind)
  PROVE  LET t == CompanyStore(s, c) IN DOMAIN t = Stores /\ DOMAIN t.rows = Kinds /\ t.current = s.current
<1> DEFINE As(t) == DOMAIN t = Stores /\ DOMAIN t.rows = Kinds /\ t.current = s.current
           With(list) == [s EXCEPT !.rows.companies = list]
<1>1. \A list : As(With(list))
  BY DEF Stores
<1>2. ASSUME NEW t, As(t) PROVE As(Hydrated(t)) /\ \A co : As(SetActive(t, co))
  BY <1>2, HydratedIs, SetActiveIs
<1>3. As(s)
  OBVIOUS
<1>4. c.op \in {"list", "create", "update", "remove", "peek", "get"}
  BY DEF Operations
<1>5. CASE c.op \in {"get", "peek"}
  <2>1. CompanyStore(s, c) = s
    BY <1>5 DEF CompanyStore
  <2> QED BY <2>1
<1>6. CASE c.op = "list"
  <2>1. CompanyStore(s, c) \in {Hydrated(With(c.answer)), With(c.answer)}
    BY <1>6 DEF CompanyStore
  <2> HIDE DEF With
  <2>2. As(CompanyStore(s, c))
    <3> HIDE DEF As
    <3> QED BY <1>1, <1>2, <2>1
  <2> QED BY <2>2
<1>7. CASE c.op \in {"create", "update"}
  <2>1. \E list : CompanyStore(s, c) = With(list)
    BY <1>7, Zenon DEF CompanyStore
  <2> HIDE DEF With
  <2>2. As(CompanyStore(s, c))
    <3> HIDE DEF As
    <3> QED BY <1>1, <2>1
  <2> QED BY <2>2
<1>8. CASE c.op = "remove"
  <2>1. PICK list : list = Without(s.rows.companies, c.id)
    OBVIOUS
  <2>2. CompanyStore(s, c) \in {Hydrated(SetActive(With(list), None)), With(list)}
    BY <1>8, <2>1 DEF CompanyStore
  <2> HIDE DEF With
  <2>3. As(CompanyStore(s, c))
    <3> HIDE DEF As
    <3> QED BY <1>1, <1>2, <2>2
  <2> QED BY <2>3
<1> QED BY <1>4, <1>5, <1>6, <1>7, <1>8

LEMMA AdminStoreIs ==
  ASSUME NEW s, DOMAIN s = Stores, DOMAIN s.rows = Kinds, NEW c, c.kind \in AdminKinds, IsCall(c), c.at = "done"
  PROVE  LET t == AdminStore(s, c) IN DOMAIN t = Stores /\ DOMAIN t.rows = Kinds /\ t.current = s.current
<1> DEFINE As(t) == DOMAIN t = Stores /\ DOMAIN t.rows = Kinds /\ t.current = s.current
<1>1. As(s) /\ "current" \in Stores /\ "rows" \in Stores
  BY DEF Stores
<1>2. \/ c.kind = "users" /\ c.op \in {"list", "get", "update", "both"}
      \/ c.kind = "plans" /\ c.op \in {"list", "create", "update", "remove"}
      \/ c.kind = "credits" /\ c.op \in {"list", "create"}
  BY DEF IsCall, Operations, AdminKinds
<1>3. CASE c.op = "list"
  <2>1. AdminStore(s, c) = [s EXCEPT !.rows[c.kind] = c.answer]
    BY <1>3 DEF AdminStore
  <2> QED BY <1>1, <2>1
<1>4. CASE c.op = "get"
  <2>1. AdminStore(s, c) = [s EXCEPT !.selected = c.answer]
    BY <1>4 DEF AdminStore
  <2> QED BY <1>1, <2>1
<1>5. CASE c.op = "update" /\ c.kind = "users"
  <2> DEFINE Merged(row) == IF row.id = c.id THEN Patched(row, Toggled(c)) ELSE row
             a == [i \in DOMAIN s.rows.users |-> Merged(s.rows.users[i])]
             b == [i \in DOMAIN s.selected |-> Merged(s.selected[i])]
  <2>1. AdminStore(s, c) = [s EXCEPT !.rows.users = a, !.selected = b]
    BY <1>5 DEF AdminStore
  <2> HIDE DEF a, b
  <2> QED BY <1>1, <2>1
<1>6. CASE c.op = "both"
  <2> DEFINE a == IF s.selected # <<>> /\ s.selected[1].id = c.id THEN <<Answer(c).user>> ELSE s.selected
             b == Answer(c).history
  <2>1. AdminStore(s, c) = [s EXCEPT !.selected = a, !.rows.credits = b]
    BY <1>6 DEF AdminStore
  <2> HIDE DEF a, b
  <2> QED BY <1>1, <2>1
<1>7. CASE c.op = "create" /\ c.kind = "credits"
  <2>1. AdminStore(s, c) = s
    BY <1>7 DEF AdminStore
  <2> QED BY <1>1, <2>1
<1>8. CASE c.kind = "plans" /\ c.op \in {"create", "update", "remove"}
  <2>1. \E a : AdminStore(s, c) = [s EXCEPT !.rows.plans = a]
    <3>1. CASE c.op = "create"
      <4>1. AdminStore(s, c) = [s EXCEPT !.rows.plans = Append(@, Answer(c))]
        BY <1>8, <3>1 DEF AdminStore
      <4> QED BY <4>1, Zenon
    <3>2. CASE c.op = "update"
      <4>1. AdminStore(s, c) = [s EXCEPT !.rows.plans = Replaced(@, Answer(c))]
        BY <1>8, <3>2 DEF AdminStore
      <4> QED BY <4>1, Zenon
    <3>3. CASE c.op = "remove"
      <4>1. AdminStore(s, c) = [s EXCEPT !.rows.plans = Without(@, c.id)]
        BY <1>8, <3>3 DEF AdminStore
      <4> QED BY <4>1, Zenon
    <3> QED BY <1>8, <3>1, <3>2, <3>3
  <2> QED BY <1>1, <2>1
<1> QED BY <1>2, <1>3, <1>4, <1>5, <1>6, <1>7, <1>8

LEMMA DocumentStoreIs ==
  ASSUME NEW s, DOMAIN s = Stores, DOMAIN s.rows = Kinds, NEW c
  PROVE  LET t == DocumentStore(s, c) IN
         /\ DOMAIN t = Stores /\ DOMAIN t.rows = Kinds
         /\ t.current \in {s.current, <<>>} \/ (c.op \in {"get", "update"} /\ t.current = c.answer)
         /\ c.op = "get" => t.current = c.answer
<1>1. PICK t : t = DocumentStore(s, c)
  OBVIOUS
<1>2. "current" \in Stores /\ "rows" \in Stores
  BY DEF Stores
<1>3. CASE c.op = "list"
  <2>1. t = [s EXCEPT !.rows.documents = c.answer]
    BY <1>1, <1>3 DEF DocumentStore
  <2> QED BY <1>1, <1>2, <1>3, <2>1
<1>4. CASE c.op = "get"
  <2>1. t = [s EXCEPT !.current = c.answer]
    BY <1>1, <1>4 DEF DocumentStore
  <2> QED BY <1>1, <1>2, <1>4, <2>1
<1>5. CASE c.op = "create"
  <2>1. PICK rows : rows = <<Answer(c)>> \o s.rows.documents
    OBVIOUS
  <2>2. t = [s EXCEPT !.rows.documents = rows]
    BY <1>1, <1>5, <2>1 DEF DocumentStore
  <2> QED BY <1>1, <1>2, <1>5, <2>2
<1>6. CASE c.op = "update"
  <2>1. PICK rows, current : /\ rows = Replaced(s.rows.documents, Answer(c))
                             /\ current = IF s.current # <<>> /\ s.current[1].id = c.id THEN c.answer ELSE s.current
    OBVIOUS
  <2>2. t = [s EXCEPT !.rows.documents = rows, !.current = current]
    BY <1>1, <1>6, <2>1 DEF DocumentStore
  <2> QED BY <1>1, <1>2, <1>6, <2>1, <2>2
<1>7. CASE c.op = "remove"
  <2>1. PICK rows, current : /\ rows = Without(s.rows.documents, c.id)
                             /\ current = IF s.current # <<>> /\ s.current[1].id = c.id THEN <<>> ELSE s.current
    OBVIOUS
  <2>2. t = [s EXCEPT !.rows.documents = rows, !.current = current]
    BY <1>1, <1>7, <2>1 DEF DocumentStore
  <2> QED BY <1>1, <1>2, <1>7, <2>1, <2>2
<1>8. CASE c.op \notin {"list", "get", "create", "update", "remove"}
  <2>1. t = s
    BY <1>1, <1>8 DEF DocumentStore
  <2> QED BY <1>1, <1>8, <2>1
<1> QED BY <1>3, <1>4, <1>5, <1>6, <1>7, <1>8

\* The open document of the store changes by an answer that brings it, and by none other.
LEMMA StoredIs ==
  ASSUME NEW s, DOMAIN s = Stores, DOMAIN s.rows = Kinds, NEW c, IsCall(c), c.at \in {"done", "failed"}
  PROVE  LET t == Activated(c, Stored(s, c))
             brought == c.kind = "documents" /\ c.at = "done" /\ t.current = c.answer IN
         /\ DOMAIN t = Stores /\ DOMAIN t.rows = Kinds
         /\ t.current \in {s.current, <<>>} \/ (brought /\ c.op \in {"get", "update"})
         /\ c.kind = "documents" /\ c.at = "done" /\ c.op = "get" => brought
<1> DEFINE quiet == IF c.op \in {"list", "get"} THEN [s EXCEPT !.loading[Flag(c)] = FALSE] ELSE s
           t == Stored(s, c)
           u == Activated(c, t)
<1>1. DOMAIN quiet = Stores /\ DOMAIN quiet.rows = Kinds /\ quiet.current = s.current
  BY DEF Stores
<1>2. t = IF c.at = "failed" THEN quiet
          ELSE IF c.kind = "documents" THEN DocumentStore(quiet, c)
          ELSE IF c.kind = "companies" THEN CompanyStore(quiet, c)
          ELSE IF c.kind \in AdminKinds THEN AdminStore(quiet, c)
          ELSE [quiet EXCEPT !.rows[c.kind] = ListStore(@, c)]
  BY DEF Stored
<1>3. PICK co : u = t \/ (u = SetActive(t, co) /\ c.kind = "companies")
  BY DEF Activated
<1> HIDE DEF quiet, t, u
<1>4. /\ DOMAIN t = Stores /\ DOMAIN t.rows = Kinds
      /\ t.current \in {s.current, <<>>}
           \/ (c.kind = "documents" /\ c.at = "done" /\ t.current = c.answer /\ c.op \in {"get", "update"})
      /\ c.kind = "documents" /\ c.at = "done" /\ c.op = "get" => t.current = c.answer
  <2>1. CASE c.at = "failed"
    BY <1>1, <1>2, <2>1
  <2>2. CASE c.at = "done" /\ c.kind = "documents"
    <3>1. t = DocumentStore(quiet, c)
      BY <1>2, <2>2
    <3> QED BY <1>1, <2>2, <3>1, DocumentStoreIs
  <2>3. CASE c.at = "done" /\ c.kind = "companies"
    <3>1. t = CompanyStore(quiet, c) /\ c.op \in Operations(c.kind)
      BY <1>2, <2>3 DEF IsCall
    <3> QED BY <1>1, <2>3, <3>1, CompanyStoreIs
  <2>4. CASE c.at = "done" /\ c.kind \in AdminKinds
    <3>1. t = AdminStore(quiet, c) /\ c.kind # "documents"
      BY <1>2, <2>4 DEF AdminKinds
    <3> QED BY <1>1, <2>4, <3>1, AdminStoreIs
  <2>5. CASE c.at = "done" /\ c.kind \notin AdminKinds \cup {"documents", "companies"}
    <3>1. PICK rows : t = [quiet EXCEPT !.rows[c.kind] = rows]
      BY <1>2, <2>5
    <3> QED BY <1>1, <2>5, <3>1 DEF Stores
  <2> QED BY <2>1, <2>2, <2>3, <2>4, <2>5
<1>5. DOMAIN u = Stores /\ u.rows = t.rows /\ u.current = t.current
  BY <1>3, <1>4, SetActiveIs
<1>6. u = Activated(c, Stored(s, c))
  BY DEF u, t
<1> QED BY <1>4, <1>5, <1>6

LEMMA AnsweredIs ==
  ASSUME NEW p, "at" \in DOMAIN p, p.at \in Routes \ {"blank", "builder"}, NEW c, NEW s
  PROVE  "at" \in DOMAIN Answered(p, c, s) /\ Answered(p, c, s).at = p.at
<1> DEFINE As(q) == "at" \in DOMAIN q /\ q["at"] = p["at"]
<1>1. As(p)
  OBVIOUS
<1>2. \A q, f : As(q) => As(Idle(q, f))
  BY DEF Idle
<1>3. ASSUME NEW q, As(q), NEW v
      PROVE  /\ As([q EXCEPT !.showCreate = v]) /\ As([q EXCEPT !.editing = v]) /\ As([q EXCEPT !.deleting = v])
             /\ As([q EXCEPT !.showModal = v]) /\ As([q EXCEPT !.drawing = v]) /\ As([q EXCEPT !.busy = v])
             /\ As([q EXCEPT !.cancelling = v]) /\ As([q EXCEPT !.numberError = v])
             /\ As([q EXCEPT !.isEditing = v]) /\ As([q EXCEPT !.showSend = v])
  BY <1>3
<1>4. \A v, w : As([p EXCEPT !.number = v, !.numberError = w])
  OBVIOUS
<1>5. \A v, w, x : As([p EXCEPT !.showCreate = v, !.number = w, !.numberError = x])
  OBVIOUS
<1>6. \A v, w, x, y : As([p EXCEPT !.loading = v, !.company = w, !.accounts = x, !.aliased = y])
  OBVIOUS
<1>7. \A v, w, x, y, z : As([p EXCEPT !.company = v, !.aliased = w, !.accounts = x, !.editing = y, !.busy = z])
  OBVIOUS
<1>8. \A v, w, x : As([p EXCEPT !.company = v, !.aliased = w, !.busy = x]) /\ As([p EXCEPT !.loading = v, !.error = w])
                   /\ As([p EXCEPT !.showCreate = v, !.editing = w])
  OBVIOUS
<1> HIDE DEF As
<1>9. As(ContractorsAnswered(p, c))
  BY <1>1, <1>2, <1>3, Zenon DEF ContractorsAnswered
<1>10. As(VehiclesAnswered(p, c))
  BY <1>1, <1>2, <1>3, Zenon DEF VehiclesAnswered
<1>11. As(MarksAnswered(p, c))
  BY <1>1, <1>2, <1>3, Zenon DEF MarksAnswered
<1>12. As(CompaniesAnswered(p, c))
  BY <1>1, <1>2, <1>3, Zenon DEF CompaniesAnswered
<1>13. As(CompanyAnswered(p, c))
  <2> DEFINE ok == c.at # "failed"
             tab == c.mine = "tab"
             copy == IF ok /\ p.company # <<>> THEN c.answer ELSE p.company
             aliased == p.aliased /\ ~ok
             accounts == IF ok /\ tab THEN c.body.accounts ELSE p.accounts
             editing == IF tab /\ c.body.edited THEN None ELSE p.editing
  <2>0. PICK answer : answer = CompanyAnswered(p, c)
    OBVIOUS
  <2>1. CASE c.op = "get" /\ ok
    <3>1. answer = [p EXCEPT !.loading = FALSE, !.company = c.answer, !.accounts = c.answer[1].accounts, !.aliased = TRUE]
      BY <2>0, <2>1 DEF CompanyAnswered
    <3>2. As(answer)
      BY <1>6, <3>1, Zenon
    <3> QED BY <2>0, <3>2
  <2>2. CASE c.op = "get" /\ ~ok
    <3>1. answer = [p EXCEPT !.loading = FALSE, !.error = TRUE]
      BY <2>0, <2>2 DEF CompanyAnswered
    <3>2. As(answer)
      BY <1>8, <3>1, Zenon
    <3> QED BY <2>0, <3>2
  <2>3. CASE c.op = "update" /\ c.kind = "companies" /\ "accounts" \in DOMAIN c.body
    <3>1. answer = [p EXCEPT !.company = copy, !.aliased = aliased, !.accounts = accounts, !.editing = editing,
                             !.busy = IF tab THEN @ \ {"bankSaving"} ELSE @]
      BY <2>0, <2>3 DEF CompanyAnswered
    <3> HIDE DEF copy, aliased, accounts, editing
    <3>2. As(answer)
      BY <1>7, <3>1, Zenon
    <3> QED BY <2>0, <3>2
  <2>4. CASE c.op = "update" /\ c.kind = "companies" /\ "accounts" \notin DOMAIN c.body
    <3>1. answer = [p EXCEPT !.company = copy, !.aliased = aliased, !.busy = IF tab THEN @ \ {c.body.flag} ELSE @]
      BY <2>0, <2>4 DEF CompanyAnswered
    <3> HIDE DEF copy, aliased
    <3>2. As(answer)
      BY <1>8, <3>1, Zenon
    <3> QED BY <2>0, <3>2
  <2>5. CASE c.op = "create"
    <3>1. answer = [p EXCEPT !.busy = IF tab THEN @ \ {"adding"} ELSE @]
      BY <2>0, <2>5 DEF CompanyAnswered
    <3>2. As(answer)
      BY <1>1, <1>3, <3>1, Zenon
    <3> QED BY <2>0, <3>2
  <2>6. CASE c.op = "remove" /\ c.kind = "companies"
    <3>1. answer = [p EXCEPT !.busy = IF ok \/ ~tab THEN @ ELSE @ \ {"deleting"}]
      BY <2>0, <2>6 DEF CompanyAnswered
    <3>2. As(answer)
      BY <1>1, <1>3, <3>1, Zenon
    <3> QED BY <2>0, <3>2
  <2>7. CASE ~(c.op = "get" \/ (c.op \in {"update", "remove"} /\ c.kind = "companies") \/ c.op = "create")
    <3>1. answer = p
      BY <2>0, <2>7 DEF CompanyAnswered
    <3> QED BY <1>1, <2>0, <3>1
  <2> QED BY <2>1, <2>2, <2>3, <2>4, <2>5, <2>6, <2>7
<1>14. As(DocumentsAnswered(p, c))
  BY <1>1, <1>2, <1>3, <1>4, <1>5, Zenon DEF DocumentsAnswered
<1>15. As(DocumentAnswered(p, c))
  BY <1>1, <1>2, <1>3, Zenon DEF DocumentAnswered
<1>16. As(AdminAnswered(p, c))
  BY <1>1, <1>8, Zenon DEF AdminAnswered, ResetForm
<1>17. Answered(p, c, s) \in {ContractorsAnswered(p, c), VehiclesAnswered(p, c), MarksAnswered(p, c),
                              CompaniesAnswered(p, c), CompanyAnswered(p, c), DocumentsAnswered(p, c),
                              DocumentAnswered(p, c), AdminAnswered(p, c)}
  <2>1. p.at \in {"contractors", "vehicles", "companies", "company", "documents", "document", "users", "user", "plans"}
                   \cup {"signatures", "companySignatures", "stamps"}
    BY DEF Routes, UnderCompany, UnderAdmin
  <2> QED BY <2>1 DEF Answered, MarkKinds, UnderAdmin
<1>18. As(Answered(p, c, s))
  BY <1>9, <1>10, <1>11, <1>12, <1>13, <1>14, <1>15, <1>16, <1>17
<1> QED BY <1>18 DEF As

\* The builder takes the document that was asked for; if that is gone, what it takes is
\* never written.
LEMMA BuilderAnsweredIs ==
  ASSUME NEW sv, NEW p, NEW id, Building(sv, p, id), NEW c, NEW s,
         c.op = "get" => /\ OwnCurrent(sv, s.current)
                         /\ s.current # <<>> => s.current[1].id = id \/ Gone(sv, id)
  PROVE  Building(sv, BuilderAnswered(p, c, s), id)
<1> DEFINE As(q) == Building(sv, q, id)
<1>1. ASSUME NEW q, As(q)
      PROVE  /\ \A v : As(Idle(q, v)) /\ As(Edited(q))
             /\ \A v : As([q EXCEPT !.unsaved = v])
             /\ \A v : As([q EXCEPT !.modal = v])
             /\ \A v : As([q EXCEPT !.loading = v])
  BY <1>1, BuildingKept, Zenon
<1>2. As(p)
  OBVIOUS
<1>3. ASSUME c.op = "get" PROVE As(Hydrate(p, s.current))
  <2>1. PICK q, current : q = [p EXCEPT !.loading = FALSE] /\ current = s.current
    OBVIOUS
  <2>2. As(q)
    BY <1>1, <1>2, <2>1, Zenon
  <2>3. CASE current = <<>>
    <3>1. Hydrate(p, s.current) = q
      BY <2>1, <2>3 DEF Hydrate
    <3> QED BY <2>2, <3>1
  <2>4. CASE current # <<>>
    <3>1. PICK row : row = current[1]
      OBVIOUS
    <3>2. OwnRow(sv, row) /\ (row.id = id \/ Gone(sv, id))
      BY <1>3, <2>1, <2>4, <3>1 DEF OwnCurrent
    <3>3. PICK draft : draft = DraftOf(row)
      OBVIOUS
    <3>4. Own(sv, draft, id)
      <4>1. CASE row.data = NoData
        <5>1. draft = [of |-> row.id, v |-> 0]
          BY <3>3, <4>1 DEF DraftOf
        <5> QED BY <3>2, <5>1 DEF Own
      <4>2. CASE row.data # NoData
        <5>1. draft = row.data
          BY <3>3, <4>2 DEF DraftOf
        <5> QED BY <3>2, <5>1 DEF OwnRow, Own
      <4> QED BY <4>1, <4>2
    <3>5. PICK edits, doc : edits = (IF q.edits < draft.v THEN draft.v ELSE q.edits) /\ doc = row.id
      OBVIOUS
    <3>6. PICK h : h = Hydrate(p, s.current)
      OBVIOUS
    <3>7. h = [q EXCEPT !.doc = doc, !.draft = draft, !.edits = edits]
      BY <2>1, <2>4, <3>1, <3>3, <3>5, <3>6 DEF Hydrate
    <3>8. {"at", "id", "draft", "timer"} \subseteq DOMAIN q /\ q.at = "builder" /\ q.id = id /\ id \in 1..Born(sv)
          /\ (q.timer # <<>> => Own(sv, q.timer[1], id))
      BY <2>2 DEF Building, OwnPage
    <3>9. DOMAIN h = DOMAIN q /\ h["at"] = q["at"] /\ h["id"] = q["id"] /\ h["draft"] = draft /\ h["timer"] = q["timer"]
      BY <3>7, <3>8
    <3>10. As(h)
      BY <3>4, <3>8, <3>9 DEF Building, OwnPage
    <3> QED BY <3>6, <3>10
  <2> QED BY <2>1, <2>3, <2>4
<1> HIDE DEF As
<1>4. As(BuilderAnswered(p, c, s))
  BY <1>1, <1>2, <1>3, Zenon DEF BuilderAnswered
<1> QED BY <1>4 DEF As

\* A call that follows on an answer.
Follows(c, x) == Sent(x) /\ OwnBody(server, x) /\ (c.mine = "none" \/ OwnHeard(server, page, x))

LEMMA UploadFollows ==
  ASSUME NEW c, NEW body, DOMAIN body \in {{"pdf"}, {"pdf", "by"}}, Own(server, body.pdf, c.id),
         DOMAIN body = {"pdf"} => c.mine = "none" \/ page.at # "builder"
  PROVE  Follows(c, Reading(Update("documents", c.co, c.id, body)))
<1> DEFINE x == Reading(Update("documents", c.co, c.id, body))
<1>1. "documents" \in Kinds /\ "update" \in Operations("documents")
  BY DEF Kinds, Operations
<1>2. Sent(x) /\ x.body = body /\ x.id = c.id /\ x.op = "update"
  <2>1. x.body = body /\ x.id = c.id /\ x.op = "update"
    BY DEF Reading, Update, Call
  <2> QED BY <1>1, <2>1, SentCall DEF Update
<1>3. "data" \notin DOMAIN body /\ "id" \notin DOMAIN body /\ DOMAIN body # {"status"}
      /\ (DOMAIN body = {"pdf"} \/ DOMAIN body # {"pdf"})
  OBVIOUS
<1> HIDE DEF x
<1>4. OwnBody(server, x)
  BY <1>2, <1>3 DEF OwnBody, IsPeek
<1>5. c.mine = "none" \/ OwnHeard(server, page, x)
  BY <1>2, <1>3 DEF OwnHeard, IsPeek, IsUpload, IsStatus
<1> QED BY <1>2, <1>4, <1>5 DEF Follows, x

LEMMA FreshFollows ==
  ASSUME NEW c, NEW op, NEW kind \in Kinds, NEW co, NEW id, NEW body, op \in Operations(kind),
         DOMAIN body \cap {"data", "pdf", "id", "status"} = {}, op # "get", op = "peek" => kind # "documents"
  PROVE  Follows(c, Call(op, kind, co, id, body))
BY FreshOther, SentCall DEF Follows, Fresh

LEMMA DocumentThenIs ==
  ASSUME NEW c, IsCall(c), OwnCall(server, page, c), c.at \in {"done", "failed"}
  PROVE  DocumentThen(c) = <<>> \/ \E x : DocumentThen(c) = <<x>> /\ Follows(c, x)
<1>1. CASE IsPeek(c) /\ PdfData(c) # NoData
  <2>1. c.mine = "none" \/ page.at # "builder"
    BY <1>1 DEF OwnCall, OwnHeard
  <2>2. Own(server, PdfData(c), c.id)
    <3>1. CASE c.at = "done"
      <4>1. c.answer[1].id = c.id /\ OwnRow(server, c.answer[1])
        BY <1>1, <3>1 DEF IsPeek, OwnCall, OwnAnswer
      <4> QED BY <3>1, <4>1 DEF PdfData, OwnRow
    <3>2. CASE c.at # "done"
      BY <1>1, <3>2 DEF IsPeek, OwnCall, OwnBody, PdfData
    <3> QED BY <3>1, <3>2
  <2>3. PICK body : body = [pdf |-> PdfData(c)]
    OBVIOUS
  <2>4. DOMAIN body = {"pdf"} /\ body.pdf = PdfData(c)
    BY <2>3
  <2>5. Follows(c, Reading(Update("documents", c.co, c.id, body)))
    BY <2>1, <2>2, <2>4, UploadFollows
  <2>6. DocumentThen(c) = <<Reading(Update("documents", c.co, c.id, body))>>
    BY <1>1, <2>3, Zenon DEF DocumentThen, UploadPdf, IsPeek, IsUpload, IsStatus
  <2> QED BY <2>5, <2>6, Zenon
<1>2. CASE ~(IsPeek(c) /\ PdfData(c) # NoData) /\ (IsUpload(c) \/ IsStatus(c)) /\ c.at = "done"
  <2>1. c.mine = "none" \/ page.at # "builder"
    BY <1>2 DEF OwnCall, OwnHeard
  <2>2. PICK f : f = Fetch("documents", c.co, c.id)
    OBVIOUS
  <2>3. Sent(f) /\ f.op = "get" /\ f.id = c.id
    <3>1. "documents" \in Kinds /\ "get" \in Operations("documents")
      BY DEF Kinds, Operations
    <3>2. PICK b : b = NoBody
      OBVIOUS
    <3>3. f = Call("get", "documents", c.co, c.id, b)
      BY <2>2, <3>2 DEF Fetch
    <3>4. Sent(f)
      BY <3>1, <3>3, SentCall
    <3> QED BY <3>3, <3>4 DEF Call
  <2>4. PICK x : x = [f EXCEPT !.body = c.body]
    OBVIOUS
  <2>5. DOMAIN x = Fields /\ x.body = c.body /\ \A k \in Fields \ {"body"} : x[k] = f[k]
    BY <2>3, <2>4 DEF Sent, IsCall, Fields
  <2>6. Sent(x) /\ x.op = "get" /\ x.id = c.id /\ x.body = c.body
    BY <2>3, <2>5 DEF Sent, IsCall, Fields
  <2>7. OwnBody(server, x)
    <3>1. OwnBody(server, c)
      BY DEF OwnCall
    <3> QED BY <2>6, <3>1 DEF OwnBody, IsPeek
  <2>8. Follows(c, x)
    BY <2>1, <2>6, <2>7 DEF Follows, OwnHeard
  <2>9. DocumentThen(c) = <<x>>
    BY <1>2, <2>2, <2>4 DEF DocumentThen
  <2> QED BY <2>8, <2>9
<1>3. CASE ~(IsPeek(c) /\ PdfData(c) # NoData) /\ ~((IsUpload(c) \/ IsStatus(c)) /\ c.at = "done")
  BY <1>3 DEF DocumentThen
<1> QED BY <1>1, <1>2, <1>3

LEMMA BuilderThenIs ==
  ASSUME NEW c, IsCall(c), OwnCall(server, page, c)
  PROVE  BuilderThen(c) = <<>> \/ \E x : BuilderThen(c) = <<x>> /\ Follows(c, x)
<1>0. /\ "documents" \in Kinds /\ "companies" \in Kinds
      /\ "update" \in Operations("documents") /\ "update" \in Operations("companies")
  BY DEF Kinds, Operations
<1>1. CASE c.at # "failed" /\ IsSave(c)
  <2>1. PICK body : body = [pdf |-> c.body.data, by |-> c.body.by]
    OBVIOUS
  <2>2. DOMAIN body = {"pdf", "by"} /\ body.pdf = c.body.data /\ DOMAIN body # {"pdf"}
    BY <2>1
  <2>3. Own(server, c.body.data, c.id)
    BY <1>1 DEF IsSave, OwnCall, OwnBody
  <2>4. Follows(c, Reading(Update("documents", c.co, c.id, body)))
    BY <2>2, <2>3, UploadFollows
  <2>5. ~IsFresh(c) /\ ~IsAdded(c)
    BY <1>1 DEF IsSave, IsFresh, IsAdded
  <2>6. BuilderThen(c) = <<Reading(Update("documents", c.co, c.id, body))>>
    BY <1>1, <2>1, <2>5 DEF BuilderThen
  <2> QED BY <2>4, <2>6, Zenon
<1>2. CASE c.at # "failed" /\ ~IsSave(c) /\ IsFresh(c) /\ c.kind = "companies"
  <2>1. PICK body : body = [resync |-> TRUE]
    OBVIOUS
  <2>2. DOMAIN body \cap {"data", "pdf", "id", "status"} = {}
    BY <2>1
  <2>3. Follows(c, Update("companies", Me, c.id, body))
    BY <1>0, <2>2, FreshFollows DEF Update
  <2>4. BuilderThen(c) = <<Update("companies", Me, c.id, body)>>
    BY <1>2, <2>1 DEF BuilderThen
  <2> QED BY <2>3, <2>4, Zenon
<1>3. CASE c.at # "failed" /\ ~IsSave(c) /\ IsAdded(c) /\ c.kind = "contractors"
  <2>1. PICK body : body = [buyer |-> c.answer[1].id]
    OBVIOUS
  <2>2. DOMAIN body \cap {"data", "pdf", "id", "status"} = {}
    BY <2>1
  <2>3. Follows(c, Update("documents", c.co, c.body.for, body))
    BY <1>0, <2>2, FreshFollows DEF Update
  <2>4. BuilderThen(c) = <<Update("documents", c.co, c.body.for, body)>>
    BY <1>3, <2>1 DEF BuilderThen
  <2> QED BY <2>3, <2>4, Zenon
<1>4. CASE c.at = "failed" \/ (/\ ~IsSave(c) /\ ~(IsFresh(c) /\ c.kind = "companies")
                               /\ ~(IsAdded(c) /\ c.kind = "contractors"))
  BY <1>4 DEF BuilderThen
<1> QED BY <1>1, <1>2, <1>3, <1>4

LEMMA AdminThenIs ==
  ASSUME NEW c
  PROVE  AdminThen(c) = <<>> \/ \E x : AdminThen(c) = <<x>> /\ Follows(c, x)
<1>1. "users" \in Kinds /\ "both" \in Operations("users") /\ DOMAIN NoBody \cap {"data", "pdf", "id", "status"} = {}
  BY DEF Kinds, AdminKinds, Operations, NoBody
<1>2. Follows(c, Call("both", "users", Me, c.co, NoBody))
  BY <1>1, FreshFollows
<1> QED BY <1>2, Zenon DEF AdminThen

\* The calls that follow are heard by whoever heard this one.
LEMMA FollowingIs ==
  ASSUME NEW c, IsCall(c), OwnCall(server, page, c), c.at \in {"done", "failed"}
  PROVE  /\ Following(c) \in Seq(Range(Following(c)))
         /\ \A k \in DOMAIN Following(c) : Fresh(server, page, Following(c)[k])
<1>1. PICK x, y, z : x = DocumentThen(c) /\ y = BuilderThen(c) /\ z = AdminThen(c)
  OBVIOUS
<1>2. ASSUME NEW t, t = <<>> \/ \E e : t = <<e>> /\ Follows(c, e)
      PROVE  t \in Seq(Range(t)) /\ \A k \in DOMAIN t : Follows(c, t[k])
  <2>1. CASE t = <<>>
    BY <2>1
  <2>2. CASE \E e : t = <<e>> /\ Follows(c, e)
    <3>1. PICK e : t = <<e>> /\ Follows(c, e)
      BY <2>2
    <3>2. DOMAIN t = {1} /\ t[1] = e /\ t \in Seq({e}) /\ e \in Range(t)
      BY <3>1 DEF Range
    <3> QED BY <3>1, <3>2
  <2> QED BY <1>2, <2>1, <2>2
<1>3. /\ x \in Seq(Range(x)) /\ y \in Seq(Range(y)) /\ z \in Seq(Range(z))
      /\ \A k \in DOMAIN x : Follows(c, x[k])
      /\ \A k \in DOMAIN y : Follows(c, y[k])
      /\ \A k \in DOMAIN z : Follows(c, z[k])
  BY <1>1, <1>2, DocumentThenIs, BuilderThenIs, AdminThenIs
<1>4. PICK a : a = x \o y
  OBVIOUS
<1>5. a \in Seq(Range(a)) /\ \A k \in DOMAIN a : Follows(c, a[k])
  BY <1>3, <1>4, Joined
<1>6. PICK b : b = a \o z
  OBVIOUS
<1>7. b \in Seq(Range(b)) /\ \A k \in DOMAIN b : Follows(c, b[k])
  BY <1>3, <1>5, <1>6, Joined
<1>8. PICK f : f = Following(c)
  OBVIOUS
<1>9. f = [k \in DOMAIN b |-> [b[k] EXCEPT !.mine = c.mine]]
  BY <1>1, <1>4, <1>6, <1>8 DEF Following
<1>10. f \in Seq(Range(f)) /\ DOMAIN f = DOMAIN b
  <2>1. PICK n : n \in Nat /\ n = Len(b)
    BY <1>7
  <2>2. DOMAIN b = 1..n
    BY <1>7, <2>1
  <2>3. f = [k \in 1..n |-> f[k]] /\ DOMAIN f = 1..n
    BY <1>9, <2>2
  <2>4. \A k \in 1..n : f[k] \in Range(f)
    BY <2>3 DEF Range
  <2>5. f \in Seq(Range(f))
    BY <2>1, <2>3, <2>4
  <2> QED BY <2>2, <2>3, <2>5
<1>11. ASSUME NEW k \in DOMAIN b PROVE Fresh(server, page, f[k])
  <2>1. PICK e, g : e = b[k] /\ g = [e EXCEPT !.mine = c.mine]
    OBVIOUS
  <2>2. Sent(e) /\ OwnBody(server, e) /\ (c.mine = "none" \/ OwnHeard(server, page, e))
    BY <1>7, <2>1 DEF Follows
  <2>3. DOMAIN g = Fields /\ g.mine = c.mine /\ \A field \in Fields \ {"mine"} : g[field] = e[field]
    BY <2>1, <2>2 DEF Sent, IsCall, Fields
  <2>4. /\ g.op = e.op /\ g.kind = e.kind /\ g.id = e.id /\ g.body = e.body /\ g.at = e.at
        /\ e.mine = "tab" /\ e.at \in {"sent", "reading"} /\ IsCall(e)
    BY <2>2, <2>3 DEF Sent, Fields
  <2>5. IsCall(g)
    BY <2>3, <2>4 DEF IsCall
  <2>6. OwnBody(server, g)
    BY <2>2, <2>4 DEF OwnBody, IsPeek
  <2>7. OwnHeard(server, page, g)
    BY <2>2, <2>3, <2>4 DEF OwnHeard, IsPeek, IsUpload, IsStatus
  <2>8. Fresh(server, page, g)
    BY <2>4, <2>5, <2>6, <2>7 DEF Fresh
  <2> QED BY <1>9, <2>1, <2>8
<1> QED BY <1>8, <1>10, <1>11

\* Where an answer takes the user is never a builder.
LEMMA DestinationIs ==
  ASSUME NEW c, Destination(c) # <<>>
  PROVE  "at" \in DOMAIN Destination(c)[1] /\ Destination(c)[1].at \in Routes \ {"blank", "builder"}
<1> DEFINE Plain(x) == "at" \in DOMAIN x /\ x.at \in Routes \ {"blank", "builder"}
<1>1. \A co, id : /\ Plain(CompaniesPage) /\ Plain(CompanyPage(co))
                  /\ Plain(DocumentsPage(co)) /\ Plain(DocumentPage(co, id))
  BY PagesAre
<1>2. PICK id : id = c.answer[1].id
  OBVIOUS
<1>3. \/ Destination(c) = <<CompanyPage(id)>> \/ Destination(c) = <<CompaniesPage>>
      \/ Destination(c) = <<DocumentPage(c.co, id)>> \/ Destination(c) = <<DocumentsPage(c.co)>>
  BY <1>2 DEF Destination
<1> HIDE DEF Plain
<1>4. Plain(Destination(c)[1])
  <2>1. CASE Destination(c) = <<CompanyPage(id)>>
    BY <1>1, <2>1
  <2>2. CASE Destination(c) = <<CompaniesPage>>
    BY <1>1, <2>2
  <2>3. CASE Destination(c) = <<DocumentPage(c.co, id)>>
    BY <1>1, <2>3
  <2>4. CASE Destination(c) = <<DocumentsPage(c.co)>>
    BY <1>1, <2>4
  <2> QED BY <1>3, <2>1, <2>2, <2>3, <2>4
<1> QED BY <1>4 DEF Plain

\* The builder hears of the calls of its own document.
LEMMA HeardStays ==
  ASSUME NEW p, NEW c, OwnCall(server, page, c), p.at = page.at, p.at = "builder" => p.id = page.id
  PROVE  OwnCall(server, p, c)
BY DEF OwnCall, OwnHeard

\* What the store and the page make of an answer.
LEMMA AnsweredOwn ==
  ASSUME Shaped, DraftsOwn, NEW i \in DOMAIN net, NEW c, c = net[i], c.at \in {"done", "failed"},
         NEW s, s = Activated(c, Stored(store, c)),
         NEW p, p = IF c.mine = "none" THEN page ELSE Answered(page, c, s)
  PROVE  /\ DOMAIN s = Stores /\ DOMAIN s.rows = Kinds /\ OwnCurrent(server, s.current)
         /\ "at" \in DOMAIN p /\ p.at = page.at /\ OwnPage(server, p)
         /\ page.at = "builder" => Building(server, p, page.id)
<1>1. c.at \in {"done", "failed"} /\ page.at \in Routes \ {"blank"} /\ "at" \in DOMAIN page
  BY DEF Shaped
<1>2. IsCall(c) /\ OwnCall(server, page, c)
  BY NetIs
<1>3. /\ DOMAIN s = Stores /\ DOMAIN s.rows = Kinds
      /\ s.current \in {store.current, <<>>}
           \/ (c.kind = "documents" /\ c.at = "done" /\ s.current = c.answer /\ c.op \in {"get", "update"})
      /\ c.kind = "documents" /\ c.at = "done" /\ c.op = "get" => s.current = c.answer
  BY <1>1, <1>2, NetIs, StoredIs
<1>4. OwnCurrent(server, s.current)
  <2>1. CASE s.current \in {store.current, <<>>}
    BY <2>1, NetIs DEF OwnCurrent
  <2>2. CASE c.kind = "documents" /\ c.at = "done" /\ s.current = c.answer /\ c.op \in {"get", "update"}
    BY <1>2, <2>2 DEF OwnCall, OwnAnswer, OwnCurrent
  <2> QED BY <1>3, <2>1, <2>2
<1>5. "at" \in DOMAIN p /\ p.at = page.at /\ OwnPage(server, p) /\ (page.at = "builder" => Building(server, p, page.id))
  <2>1. OwnPage(server, page)
    BY DEF DraftsOwn
  <2>2. CASE c.mine = "none"
    BY <1>1, <2>1, <2>2 DEF Building
  <2>3. CASE c.mine # "none" /\ page.at # "builder"
    <3>1. p = Answered(page, c, s)
      BY <2>3
    <3>2. "at" \in DOMAIN p /\ p.at = page.at
      BY <1>1, <2>3, <3>1, AnsweredIs
    <3> QED BY <2>3, <3>2 DEF OwnPage
  <2>4. CASE c.mine # "none" /\ page.at = "builder"
    <3>1. p = BuilderAnswered(page, c, s)
      BY <2>4 DEF Answered, MarkKinds, UnderAdmin
    <3>2. Building(server, page, page.id)
      BY <1>1, <2>1, <2>4 DEF Building
    <3>3. ASSUME c.op = "get", s.current # <<>>
          PROVE  s.current[1].id = page.id \/ Gone(server, page.id)
      <4>1. c.kind = "documents" /\ c.id = page.id /\ (c.at = "failed" => Gone(server, page.id))
        BY <1>2, <2>4, <3>3 DEF OwnCall, OwnHeard
      <4>2. CASE c.at = "done"
        BY <1>2, <1>3, <3>3, <4>1, <4>2 DEF OwnCall, OwnAnswer
      <4> QED BY <1>1, <4>1, <4>2
    <3>4. Building(server, p, page.id)
      BY <1>4, <3>1, <3>2, <3>3, BuilderAnsweredIs
    <3> QED BY <2>4, <3>4 DEF Building
  <2> QED BY <2>2, <2>3, <2>4
<1> QED BY <1>3, <1>4, <1>5

LEMMA DeliverOwn ==
  ASSUME Shaped, DraftsOwn, NEW i \in DOMAIN net, Deliver(i)
  PROVE  Shaped' /\ DraftsOwn'
<1>1. PICK c, s, p, following, removed, queue, loading :
        /\ c = net[i] /\ s = Activated(c, Stored(store, c))
        /\ p = IF c.mine = "none" THEN page ELSE Answered(page, c, s)
        /\ following = Following(c) /\ removed = RemoveAt(net, i)
        /\ queue = removed \o following /\ loading = Fetching(s, following)
  <2>1. PICK c : c = net[i]
    OBVIOUS
  <2>2. PICK s : s = Activated(c, Stored(store, c))
    OBVIOUS
  <2>3. PICK p : p = IF c.mine = "none" THEN page ELSE Answered(page, c, s)
    OBVIOUS
  <2>4. PICK following, removed : following = Following(c) /\ removed = RemoveAt(net, i)
    OBVIOUS
  <2>5. PICK queue, loading : queue = removed \o following /\ loading = Fetching(s, following)
    OBVIOUS
  <2> QED BY <2>1, <2>2, <2>3, <2>4, <2>5
<1>2. /\ c.at \in {"done", "failed"}
      /\ IF Destination(c) # <<>> THEN Shows(p, loading, queue, Destination(c)[1])
         ELSE IF Reloads(p, c, s) THEN Takes(Step(LoadDraft(p).page, loading, LoadDraft(p).calls), queue)
         ELSE Takes(Step(p, loading, <<>>), queue)
  BY <1>1 DEF Deliver
<1>3. IsCall(c) /\ OwnCall(server, page, c)
  BY <1>1, NetIs
<1>4. page.at \in Routes \ {"blank"} /\ "at" \in DOMAIN page
  BY DEF Shaped
<1>5. /\ DOMAIN s = Stores /\ DOMAIN s.rows = Kinds /\ OwnCurrent(server, s.current)
      /\ "at" \in DOMAIN p /\ p.at = page.at /\ OwnPage(server, p)
      /\ page.at = "builder" => Building(server, p, page.id)
  BY <1>1, <1>2, AnsweredOwn
<1>6. DOMAIN loading = Stores /\ DOMAIN loading.rows = Kinds /\ OwnCurrent(server, loading.current)
  <2>1. DOMAIN loading = Stores /\ loading.rows = s.rows /\ loading.current = s.current
    BY <1>1, <1>5 DEF Fetching, Stores
  <2> QED BY <1>5, <2>1
<1>7. /\ following \in Seq(Range(following)) /\ \A k \in DOMAIN following : Fresh(server, page, following[k])
      /\ removed \in Seq(Range(removed)) /\ \A k \in DOMAIN removed : \E j \in DOMAIN net : removed[k] = net[j]
  BY <1>1, <1>2, <1>3, FollowingIs, RemoveAtIs DEF Shaped
<1>8. queue \in Seq(Range(queue)) /\ \A k \in DOMAIN queue : IsCall(queue[k]) /\ OwnCall(server, page, queue[k])
  <2>1. \A k \in DOMAIN removed : IsCall(removed[k]) /\ OwnCall(server, page, removed[k])
    BY <1>7, NetIs
  <2>2. \A k \in DOMAIN following : IsCall(following[k]) /\ OwnCall(server, page, following[k])
    BY <1>7, FreshIs
  <2>3. /\ queue \in Seq(Range(queue))
        /\ \A k \in DOMAIN queue : (\E j \in DOMAIN removed : queue[k] = removed[j])
                                   \/ (\E j \in DOMAIN following : queue[k] = following[j])
    BY <1>1, <1>7, Joined
  <2> QED BY <2>1, <2>2, <2>3
<1>9. CASE Destination(c) # <<>>
  <2>1. PICK q : q = Destination(c)[1]
    OBVIOUS
  <2>2. "at" \in DOMAIN q /\ q.at \in Routes \ {"blank", "builder"}
    BY <1>9, <2>1, DestinationIs
  <2>3. Shows(p, loading, queue, q)
    BY <1>2, <1>9, <2>1
  <2>4. OwnPage(server, Routed(p, q))
    BY <1>5, <2>2, RoutedIs DEF OwnPage
  <2> QED BY <1>6, <1>5, <1>8, <2>2, <2>3, <2>4, OwnShows
<1>10. CASE Destination(c) = <<>> /\ Reloads(p, c, s)
  <2>1. p.at = "builder" /\ page.at = "builder"
    BY <1>5, <1>10 DEF Reloads
  <2>2. PICK q, f : q = [p EXCEPT !.loading = TRUE] /\ f = Fetch("documents", p.co, p.id)
    OBVIOUS
  <2>3. Takes(Step(q, loading, <<f>>), queue) /\ Loads(p, f)
    BY <1>2, <1>10, <2>2, LoadDraftIs
  <2>4. Building(server, p, page.id) /\ Building(server, q, page.id)
    <3>1. Building(server, p, page.id)
      BY <1>5, <2>1
    <3> QED BY <2>2, <3>1, BuildingKept, Zenon
  <2>5. \A k \in DOMAIN queue : IsCall(queue[k]) /\ OwnCall(server, q, queue[k])
    BY <1>8, <2>1, <2>4, HeardStays DEF Building
  <2>6. Fresh(server, q, f)
    BY <2>1, <2>3, <2>4, LoadsIsFresh DEF Building
  <2>7. <<f>> \in Seq(Range(<<f>>)) /\ \A k \in DOMAIN <<f>> : Fresh(server, q, <<f>>[k])
    BY <2>6 DEF Range
  <2>8. OwnPage(server, q) /\ "at" \in DOMAIN q /\ q.at \in Routes \ {"blank"}
    BY <2>4 DEF Building, Routes, UnderCompany
  <2> QED BY <1>6, <1>8, <2>3, <2>5, <2>7, <2>8, OwnTakes
<1>11. CASE Destination(c) = <<>> /\ ~Reloads(p, c, s)
  <2>1. Takes(Step(p, loading, <<>>), queue)
    BY <1>2, <1>11
  <2>2. \A k \in DOMAIN queue : IsCall(queue[k]) /\ OwnCall(server, p, queue[k])
    BY <1>5, <1>8, HeardStays DEF Building
  <2>3. <<>> \in Seq(Range(<<>>)) /\ DOMAIN <<>> = {}
    OBVIOUS
  <2> QED BY <1>4, <1>6, <1>5, <1>8, <2>1, <2>2, <2>3, OwnTakes
<1> QED BY <1>9, <1>10, <1>11

-----------------------------------------------------------------------------
(* What every document has is its own                                       *)

OwnInv == "get" \notin scope.fails => Shaped /\ DraftsOwn

LEMMA ScopeKept == ASSUME [Next]_vars PROVE scope' = scope
<1>1. ASSUME NEW step, NEW queue, Takes(step, queue) PROVE scope' = scope
  BY <1>1 DEF Takes
<1>2. ASSUME NEW step, Acts(step) PROVE scope' = scope
  BY <1>1, <1>2 DEF Acts
<1>3. ASSUME NEW kind, NEW use, use => scope' = scope, Confirming(kind, use) PROVE scope' = scope
  BY <1>2, <1>3 DEF Confirming, AskRemoval
<1>4. ContractorsEvent => scope' = scope
  <2>1. SearchContractors \/ ContractorForm \/ ContractorRow => scope' = scope
    BY <1>2, Zenon DEF SearchContractors, ContractorForm, ContractorRow, StartEditing, EditForm
  <2> QED BY <1>3, <2>1 DEF ContractorsEvent
<1>5. VehiclesEvent => scope' = scope
  <2>1. OpenVehicleModal \/ ToggleVehicle \/ VehicleModal => scope' = scope
    BY <1>2, Zenon DEF OpenVehicleModal, ToggleVehicle, VehicleModal
  <2> QED BY <1>3, <2>1 DEF VehiclesEvent
<1>6. MarksEvent => scope' = scope
  <2>1. Draw \/ Upload \/ SetDefault \/ Rename \/ RemoveMark => scope' = scope
    BY <1>2, Zenon DEF Draw, Upload, SetDefault, Rename, RemoveMark
  <2> QED BY <1>3, <2>1 DEF MarksEvent, SignaturesEvent, CompanySignaturesEvent, StampsEvent
<1>7. CompaniesEvent => scope' = scope
  BY <1>2, Zenon DEF CompaniesEvent
<1>8. CompanyEvent => scope' = scope
  <2>1. OpenTab => scope' = scope
    BY <1>1, Zenon DEF OpenTab
  <2>2. MembersEvent => scope' = scope
    BY <1>2, Zenon DEF MembersEvent, AddMember, ChangeRole, AskMember, RemoveMember, Cancel, Ask
  <2>3. RemoveAccount \/ DeleteCompany \/ Cancel \/ CompanyForm \/ TranslationsForm \/ DangerZone => scope' = scope
    BY <1>2, Zenon DEF RemoveAccount, DeleteCompany, Cancel, CompanyForm, TranslationsForm, DangerZone, SaveFields, Ask
  <2>4. AddAccount \/ AccountRow \/ CancelEdit \/ EditAccount => scope' = scope
    BY <1>2, Zenon DEF AddAccount, AccountRow, CancelEdit, EditAccount, StartEdit, SetDefaultAccount, Ask
  <2> QED BY <2>1, <2>2, <2>3, <2>4, Zenon DEF CompanyEvent, SettingsEvent
<1>9. DocumentsEvent => scope' = scope
  <2>1. DebounceNumber \/ ToggleCreate => scope' = scope
    BY <1>1, Zenon DEF DebounceNumber, ToggleCreate
  <2>2. TypeNumber \/ CreateDocument \/ CancelDialog \/ FilterDocuments => scope' = scope
    BY <1>2, Zenon DEF TypeNumber, CreateDocument, CancelDialog, FilterDocuments
  <2>3. DuplicateRow \/ AskCancel \/ AskRemoval("documents") \/ DeleteDialog(page.deleting, FALSE) => scope' = scope
    BY <1>2, Zenon DEF DuplicateRow, AskCancel, AskRemoval, DeleteDialog
  <2> QED BY <2>1, <2>2, <2>3, Zenon DEF DocumentsEvent
<1>10. DocumentEvent => scope' = scope
  BY <1>2, Zenon DEF DocumentEvent, SendDialog, DeleteDialog, EditDocument, ChangeStatus, GeneratePdf
<1>11. BuilderEvent => scope' = scope
  <2>1. AutoSave => scope' = scope
    BY <1>1, Zenon DEF AutoSave
  <2>2. AddContractorModal \/ AddVehicleModal \/ CloseModal => scope' = scope
    BY <1>2, Zenon DEF AddContractorModal, AddVehicleModal, CloseModal
  <2>3. Edit \/ ManualSave \/ Export \/ Resync \/ OpenModal => scope' = scope
    BY <1>2, Zenon DEF Edit, ManualSave, Export, Resync, OpenModal
  <2> QED BY <2>1, <2>2, <2>3, Zenon DEF BuilderEvent
<1>12. SearchUsers \/ UserEvent \/ PlansEvent => scope' = scope
  BY <1>2, Zenon DEF SearchUsers, UserEvent, ToggleActive, ToggleAdmin, AssignPlan, GrantCredits, PlansEvent, SavePlan
<1>13. Open => scope' = scope
  BY <1>1, Zenon DEF Open
<1>14. ASSUME NEW p, NEW s, NEW queue, NEW q, Shows(p, s, queue, q) PROVE scope' = scope
  BY <1>1, <1>14, Zenon DEF Shows
<1>15. Visit \/ SwitchCompany => scope' = scope
  BY <1>1, <1>14, Zenon DEF Visit, SwitchCompany
<1>16. ASSUME NEW i, Serve(i) \/ BodyMade(i) \/ Deliver(i) PROVE scope' = scope
  <2>1. Serve(i) => scope' = scope
    BY DEF Serve
  <2>2. BodyMade(i) => scope' = scope
    BY DEF BodyMade
  <2>3. Deliver(i) => scope' = scope
    BY <1>1, <1>14, Zenon DEF Deliver
  <2> QED BY <1>16, <2>1, <2>2, <2>3
<1>17. PageEvent => scope' = scope
  BY <1>4, <1>5, <1>6, <1>7, <1>8, <1>9, <1>10, <1>11, <1>12, Zenon DEF PageEvent
<1>18. Next => scope' = scope
  BY <1>13, <1>15, <1>16, <1>17, Zenon DEF Next
<1> QED BY <1>18 DEF vars

\* Whose events those of a page are.
LEMMA EventsOf ==
  /\ ContractorsEvent \/ VehiclesEvent \/ MarksEvent \/ CompaniesEvent => page.at \notin {"blank", "builder"}
  /\ SearchUsers \/ UserEvent \/ PlansEvent => page.at \notin {"blank", "builder"}
  /\ CompanyEvent \/ DocumentsEvent \/ DocumentEvent => page.at \notin {"blank", "builder"}
<1> DEFINE Elsewhere(at) == at \notin {"blank", "builder"}
<1>1. /\ Elsewhere("contractors") /\ Elsewhere("vehicles") /\ Elsewhere("signatures") /\ Elsewhere("stamps")
      /\ Elsewhere("companySignatures") /\ Elsewhere("companies") /\ Elsewhere("users") /\ Elsewhere("user")
      /\ Elsewhere("plans") /\ Elsewhere("company") /\ Elsewhere("documents") /\ Elsewhere("document")
  OBVIOUS
<1> HIDE DEF Elsewhere
<1>2. ContractorsEvent \/ VehiclesEvent \/ MarksEvent \/ CompaniesEvent => Elsewhere(page.at)
  BY <1>1, Zenon DEF ContractorsEvent, VehiclesEvent, MarksEvent, SignaturesEvent, CompanySignaturesEvent, StampsEvent,
                     CompaniesEvent
<1>3. SearchUsers \/ UserEvent \/ PlansEvent => Elsewhere(page.at)
  BY <1>1, Zenon DEF SearchUsers, UserEvent, PlansEvent
<1>4. CompanyEvent \/ DocumentsEvent \/ DocumentEvent => Elsewhere(page.at)
  BY <1>1, Zenon DEF CompanyEvent, OpenTab, MembersEvent, SettingsEvent, InTab, Ready, DocumentsEvent, DocumentEvent
<1> QED BY <1>2, <1>3, <1>4 DEF Elsewhere

LEMMA OwnNext == ASSUME OwnInv, [Next]_vars PROVE OwnInv'
<1>1. scope' = scope
  BY ScopeKept
<1> SUFFICES ASSUME Shaped, DraftsOwn, "get" \notin scope.fails PROVE Shaped' /\ DraftsOwn'
  BY <1>1 DEF OwnInv
<1>2. CASE UNCHANGED vars
  <2>1. page' = page /\ store' = store /\ server' = server /\ net' = net
    BY <1>2 DEF vars
  <2>2. Shaped'
    BY <2>1 DEF Shaped
  <2>3. DraftsOwn'
    BY <2>1 DEF DraftsOwn
  <2> QED BY <2>2, <2>3
<1>3. CASE PageEvent
  <2>1. CASE ContractorsEvent \/ VehiclesEvent \/ MarksEvent \/ CompaniesEvent \/ SearchUsers \/ UserEvent \/ PlansEvent
    <3>1. PlainEvent
      BY <2>1, ContractorsPlain, VehiclesPlain, MarksPlain, CompaniesPlain, AdminsPlain
    <3>2. page.at \notin {"blank", "builder"}
      BY <2>1, EventsOf
    <3> QED BY <3>1, <3>2, PlainIsQuiet, OwnQuiet
  <2>2. CASE CompanyEvent
    BY <2>2, EventsOf, CompanyQuiet, OwnQuiet
  <2>3. CASE DocumentsEvent
    BY <2>3, EventsOf, DocumentsQuiet, OwnQuiet
  <2>4. CASE DocumentEvent
    BY <2>4, EventsOf, DocumentQuiet, OwnQuiet, OwnPeeks
  <2>5. CASE BuilderEvent
    BY <2>5, BuilderOwn
  <2> QED BY <1>3, <2>1, <2>2, <2>3, <2>4, <2>5, Zenon DEF PageEvent
<1>4. CASE Open \/ Visit \/ SwitchCompany
  BY <1>4, OpenOwn, VisitOwn, SwitchOwn
<1>5. CASE \E i \in DOMAIN net : Serve(i) \/ BodyMade(i) \/ Deliver(i)
  <2>1. PICK i \in DOMAIN net : Serve(i) \/ BodyMade(i) \/ Deliver(i)
    BY <1>5
  <2>2. CASE Serve(i)
    BY <2>2, ServeOwn
  <2>3. CASE BodyMade(i)
    BY <2>3, BodyMadeOwn
  <2>4. CASE Deliver(i)
    BY <2>4, DeliverOwn
  <2> QED BY <2>1, <2>2, <2>3, <2>4
<1> QED BY <1>2, <1>3, <1>4, <1>5, Zenon DEF Next

\* A document never gets the data of another one: neither the autosave of the builder, nor
\* the upload of a PDF that was being made while the user went on, nor what the store holds
\* of a page that is left can write into another document.
THEOREM OwnDraftSaved == Spec => []SavesOwnDraft
<1>1. Init => OwnInv
  BY InitOwn DEF OwnInv
<1>2. OwnInv /\ [Next]_vars => OwnInv'
  BY OwnNext
<1>3. OwnInv => SavesOwnDraft
  <2>1. SUFFICES ASSUME OwnInv, "get" \notin scope.fails, NEW r \in Range(server.rows.documents)
                 PROVE  {r.data.of, r.pdf.of} \subseteq {None, r.id}
    BY DEF SavesOwnDraft
  <2>2. OwnRow(server, r) /\ ~Gone(server, r.id)
    BY <2>1 DEF OwnInv, DraftsOwn, OwnServer, Gone
  <2> QED BY <2>2 DEF OwnRow, Own
<1> QED BY <1>1, <1>2, <1>3, PTL DEF Spec

-----------------------------------------------------------------------------
(* The bank accounts of a company: arrays of them                           *)

Account == [id : 1..MaxAccounts, isDefault : BOOLEAN]
OneDefault(a) == a # <<>> => \E i \in DOMAIN a : \A j \in DOMAIN a : a[j].isDefault <=> j = i

\* Accounts with ids of their own, and one default among them.
WellKept(a) ==
  /\ a \in Seq(Account)
  /\ \A i, j \in DOMAIN a : a[i].id = a[j].id => i = j
  /\ OneDefault(a)

\* Of a sequence without repetitions everything that is in the set is picked, once.
LEMMA PickedOnce ==
  ASSUME NEW R, NEW s \in Seq(R), \A i, j \in DOMAIN s : s[i] = s[j] => i = j, NEW S, NEW t, t = Picked(s, S)
  PROVE  /\ t \in Seq(R) /\ \A i, j \in DOMAIN t : t[i] = t[j] => i = j
         /\ \A m \in DOMAIN t : t[m] \in S /\ \E k \in DOMAIN s : t[m] = s[k]
         /\ \A k \in DOMAIN s : s[k] \in S => \E m \in DOMAIN t : t[m] = s[k]
<1> DEFINE Done(q, k) ==
             /\ q \in Seq(R) /\ \A i, j \in DOMAIN q : q[i] = q[j] => i = j
             /\ \A m \in DOMAIN q : q[m] \in S /\ \E j \in 1..k : q[m] = s[j]
             /\ \A j \in 1..k : s[j] \in S => \E m \in DOMAIN q : q[m] = s[j]
<1>1. PICK p : Picking(s, S, p) /\ t = p[Len(s)]
  BY PickedIs
<1>2. Len(s) \in Nat /\ DOMAIN s = 1..Len(s)
  OBVIOUS
<1>3. Done(<<>>, 0)
  OBVIOUS
<1>4. ASSUME NEW q, NEW k \in 1..Len(s), Done(q, k - 1), s[k] \notin S PROVE Done(q, k)
  <2>1. \A j \in 1..k : j = k \/ j \in 1..(k - 1)
    BY <1>2
  <2>2. \A j \in 1..(k - 1) : j \in 1..k
    BY <1>2
  <2> QED BY <1>4, <2>1, <2>2
<1>5. ASSUME NEW q, NEW k \in 1..Len(s), Done(q, k - 1), s[k] \in S PROVE Done(Append(q, s[k]), k)
  <2>1. PICK n \in Nat : n = Len(q)
    BY <1>5
  <2>2. PICK b : b = Append(q, s[k])
    OBVIOUS
  <2>3. s[k] \in R
    BY <1>2, <1>5
  <2>4. /\ b \in Seq(R) /\ DOMAIN b = 1..(n + 1) /\ DOMAIN q = 1..n /\ b[n + 1] = s[k]
        /\ \A m \in 1..n : b[m] = q[m]
    BY <1>5, <2>1, <2>2, <2>3
  <2>5. \A m \in 1..(n + 1) : m = n + 1 \/ m \in 1..n
    BY <2>1
  <2>6. \A m \in 1..n : m \in 1..(n + 1) /\ m # n + 1
    BY <2>1
  <2>7. \A j \in 1..(k - 1) : j \in 1..k /\ j # k /\ j \in DOMAIN s
    BY <1>2
  <2>8. k \in 1..k /\ n + 1 \in 1..(n + 1) /\ k \in DOMAIN s
    BY <1>2, <2>1
  <2>9. \A m \in 1..n : b[m] # s[k]
    BY <1>5, <2>4, <2>7, <2>8
  <2>10. \A i, j \in DOMAIN b : b[i] = b[j] => i = j
    <3>1. ASSUME NEW i \in 1..(n + 1), NEW j \in 1..(n + 1), b[i] = b[j] PROVE i = j
      <4>1. CASE i \in 1..n /\ j \in 1..n
        BY <1>5, <2>4, <3>1, <4>1
      <4>2. CASE i = n + 1 \/ j = n + 1
        BY <2>4, <2>5, <2>9, <3>1, <4>2
      <4> QED BY <2>5, <4>1, <4>2
    <3> QED BY <2>4, <3>1
  <2>11. \A m \in DOMAIN b : b[m] \in S /\ \E j \in 1..k : b[m] = s[j]
    BY <1>5, <2>4, <2>5, <2>7, <2>8
  <2>12. ASSUME NEW j \in 1..k, s[j] \in S PROVE \E m \in DOMAIN b : b[m] = s[j]
    <3>1. CASE j = k
      BY <2>4, <2>8, <3>1
    <3>2. CASE j \in 1..(k - 1)
      BY <1>5, <2>4, <2>6, <2>12, <3>2
    <3>3. j = k \/ j \in 1..(k - 1)
      BY <1>2
    <3> QED BY <3>1, <3>2, <3>3
  <2> QED BY <2>2, <2>4, <2>10, <2>11, <2>12
<1> DEFINE Bad == {k \in 0..Len(s) : ~Done(p[k], k)}
<1> HIDE DEF Done
<1>6. Bad = {}
  <2> SUFFICES ASSUME Bad # {} PROVE FALSE
    OBVIOUS
  <2>1. PICK k \in Bad : \A j \in Bad : ~(j < k)
    <3>1. Bad \subseteq Nat
      OBVIOUS
    <3> HIDE DEF Bad
    <3> QED BY <3>1, Least
  <2>2. k # 0
    BY <1>1, <1>3, <2>1 DEF Picking
  <2>3. k \in 1..Len(s) /\ k - 1 \in 0..Len(s) /\ Done(p[k - 1], k - 1)
    BY <1>2, <2>1, <2>2
  <2>4. p[k] = IF s[k] \in S THEN Append(p[k - 1], s[k]) ELSE p[k - 1]
    BY <1>1, <2>3 DEF Picking
  <2>5. Done(p[k], k)
    BY <1>4, <1>5, <2>3, <2>4
  <2> QED BY <2>1, <2>5
<1>7. Done(t, Len(s))
  <2>1. Len(s) \in 0..Len(s)
    BY <1>2
  <2> QED BY <1>1, <1>6, <2>1
<1> QED BY <1>2, <1>7 DEF Done

\* The accounts that are left when one is removed.
LEMMA LeftIs ==
  ASSUME NEW a, WellKept(a), NEW id, NEW left, left = Without(a, id)
  PROVE  /\ left \in Seq(Account) /\ \A i, j \in DOMAIN left : left[i].id = left[j].id => i = j
         /\ \A m \in DOMAIN left : left[m].id # id /\ \E k \in DOMAIN a : left[m] = a[k]
         /\ \A k \in DOMAIN a : a[k].id # id => \E m \in DOMAIN left : left[m] = a[k]
<1> DEFINE S == {r \in Range(a) : r.id # id}
<1>1. \A k \in DOMAIN a : a[k] \in S <=> a[k].id # id
  BY DEF Range
<1>2. \A r \in S : r.id # id
  OBVIOUS
<1>3. a \in Seq(Account) /\ \A i, j \in DOMAIN a : a[i] = a[j] => i = j
  BY DEF WellKept
<1>4. left = Picked(a, S)
  BY DEF Without
<1> HIDE DEF S
<1>5. /\ left \in Seq(Account) /\ \A i, j \in DOMAIN left : left[i] = left[j] => i = j
      /\ \A m \in DOMAIN left : left[m] \in S /\ \E k \in DOMAIN a : left[m] = a[k]
      /\ \A k \in DOMAIN a : a[k] \in S => \E m \in DOMAIN left : left[m] = a[k]
  BY <1>3, <1>4, PickedOnce
<1>6. ASSUME NEW i \in DOMAIN left, NEW j \in DOMAIN left, left[i].id = left[j].id PROVE i = j
  <2>1. PICK k \in DOMAIN a, l \in DOMAIN a : left[i] = a[k] /\ left[j] = a[l]
    BY <1>5
  <2>2. k = l
    BY <1>6, <2>1 DEF WellKept
  <2> QED BY <1>5, <2>1, <2>2
<1> QED BY <1>1, <1>2, <1>5, <1>6

LEMMA AccountIs ==
  ASSUME NEW x \in Account
  PROVE  x.id \in 1..MaxAccounts /\ x.id # None /\ x.isDefault \in BOOLEAN
BY DEF Account, None

LEMMA FlagIs ==
  ASSUME NEW x \in Account, NEW v \in BOOLEAN, NEW y, y = [x EXCEPT !.isDefault = v]
  PROVE  y \in Account /\ y.id = x.id /\ y.isDefault = v
BY DEF Account

\* saveBankAccounts after handleRemoveBankAccount: the flag of the default goes to the first
\* account that is left.
LEMMA RemovedKept ==
  ASSUME NEW a, WellKept(a), NEW id, NEW left, left = Without(a, id), NEW heir,
         heir = IF left # <<>> /\ \E x \in Range(a) : x.id = id /\ x.isDefault THEN left[1].id ELSE None
  PROVE  WellKept(Flagged(left, heir))
<1>1. /\ left \in Seq(Account) /\ \A i, j \in DOMAIN left : left[i].id = left[j].id => i = j
      /\ \A m \in DOMAIN left : left[m].id # id /\ \E k \in DOMAIN a : left[m] = a[k]
      /\ \A k \in DOMAIN a : a[k].id # id => \E m \in DOMAIN left : left[m] = a[k]
  BY LeftIs
<1>2. PICK n \in Nat : DOMAIN left = 1..n /\ n = Len(left)
  BY <1>1
<1>3. PICK f : f = Flagged(left, heir)
  OBVIOUS
<1>4. /\ DOMAIN f = 1..n
      /\ \A i \in 1..n : f[i] = IF left[i].id = heir THEN [left[i] EXCEPT !.isDefault = TRUE] ELSE left[i]
  BY <1>2, <1>3 DEF Flagged
<1>5. \A i \in 1..n : left[i] \in Account
  BY <1>1, <1>2
<1>6. \A i \in 1..n : /\ f[i] \in Account /\ f[i].id = left[i].id
                      /\ f[i].isDefault <=> (left[i].id = heir \/ left[i].isDefault)
  <2> TAKE i \in 1..n
  <2>1. left[i] \in Account
    BY <1>5
  <2>2. CASE left[i].id = heir
    <3>1. f[i] = [left[i] EXCEPT !.isDefault = TRUE]
      BY <1>4, <2>2
    <3>2. f[i] \in Account /\ f[i].id = left[i].id /\ f[i].isDefault = TRUE
      BY <2>1, <3>1, FlagIs
    <3> QED BY <2>2, <3>2, Zenon
  <2>3. CASE left[i].id # heir
    <3>1. f[i] = left[i]
      BY <1>4, <2>3
    <3> QED BY <2>1, <2>3, <3>1, Zenon
  <2> QED BY <2>2, <2>3
<1>7. f \in Seq(Account)
  <2>1. f = [i \in 1..n |-> f[i]]
    <3>1. f = [i \in DOMAIN left |-> IF left[i].id = heir THEN [left[i] EXCEPT !.isDefault = TRUE] ELSE left[i]]
      BY <1>3 DEF Flagged
    <3> QED BY <1>2, <1>4, <3>1
  <2> QED BY <1>6, <2>1
<1>8. \A i, j \in DOMAIN f : f[i].id = f[j].id => i = j
  BY <1>1, <1>2, <1>4, <1>6
<1>9. OneDefault(f)
  <2> SUFFICES ASSUME f # <<>> PROVE \E i \in DOMAIN f : \A j \in DOMAIN f : f[j].isDefault <=> j = i
    BY DEF OneDefault
  <2>1. n # 0 /\ left # <<>> /\ 1 \in 1..n
    BY <1>2, <1>4, <1>7
  <2>2. a # <<>>
    <3>1. \E k \in DOMAIN a : left[1] = a[k]
      BY <1>1, <1>2, <2>1
    <3> QED BY <3>1
  <2>3. PICK d \in DOMAIN a : \A j \in DOMAIN a : a[j].isDefault <=> j = d
    BY <2>2 DEF WellKept, OneDefault
  <2>4. \A k \in DOMAIN a : a[k] \in Account
    BY DEF WellKept
  <2>5. CASE a[d].id = id
    <3>1. heir = left[1].id
      <4>1. a[d] \in Range(a) /\ a[d].isDefault
        BY <2>3 DEF Range
      <4> QED BY <2>1, <2>5, <4>1
    <3>2. \A j \in 1..n : ~left[j].isDefault
      <4> TAKE j \in 1..n
      <4>1. PICK k \in DOMAIN a : left[j] = a[k] /\ a[k].id # id
        BY <1>1, <1>2
      <4>2. k # d
        BY <2>5, <4>1
      <4> QED BY <2>3, <4>1, <4>2
    <3>3. \A j \in 1..n : left[j].id = heir <=> j = 1
      BY <1>1, <1>2, <2>1, <3>1
    <3>4. \A j \in 1..n : f[j].isDefault <=> j = 1
      BY <1>6, <3>2, <3>3
    <3> QED BY <1>4, <2>1, <3>4
  <2>6. CASE a[d].id # id
    <3>1. heir = None
      <4>1. ASSUME NEW x \in Range(a), x.id = id, x.isDefault PROVE FALSE
        <5>1. PICK k \in DOMAIN a : x = a[k]
          BY <4>1 DEF Range
        <5> QED BY <2>3, <2>6, <4>1, <5>1
      <4> QED BY <4>1
    <3>2. \A j \in 1..n : left[j].id # heir
      BY <1>5, <3>1, AccountIs
    <3>3. PICK m \in 1..n : left[m] = a[d]
      BY <1>1, <1>2, <2>6
    <3>4. \A j \in 1..n : left[j].isDefault <=> j = m
      <4> TAKE j \in 1..n
      <4>1. PICK k \in DOMAIN a : left[j] = a[k]
        BY <1>1, <1>2
      <4>2. k = d <=> left[j].id = left[m].id
        BY <3>3, <4>1 DEF WellKept
      <4>3. j = m <=> left[j].id = left[m].id
        BY <1>1, <1>2
      <4> QED BY <2>3, <4>1, <4>2, <4>3
    <3>5. \A j \in 1..n : f[j].isDefault <=> j = m
      BY <1>6, <3>2, <3>4
    <3> QED BY <1>4, <3>5
  <2> QED BY <2>5, <2>6
<1> QED BY <1>3, <1>7, <1>8, <1>9 DEF WellKept

\* An account that is added is the default if it is the first one.
LEMMA AddedKept ==
  ASSUME NEW a, WellKept(a), NEW n \in 1..MaxAccounts, \A x \in Range(a) : x.id # n,
         NEW d \in BOOLEAN, d <=> a = <<>>
  PROVE  WellKept(Append(a, [id |-> n, isDefault |-> d]))
<1>1. PICK x : x = [id |-> n, isDefault |-> d]
  OBVIOUS
<1>2. x \in Account /\ x.id = n /\ x.isDefault = d
  BY <1>1 DEF Account
<1>3. PICK k \in Nat : k = Len(a) /\ DOMAIN a = 1..k
  BY DEF WellKept
<1>4. PICK b : b = Append(a, x)
  OBVIOUS
<1>5. b \in Seq(Account) /\ DOMAIN b = 1..(k + 1) /\ b[k + 1] = x /\ \A i \in 1..k : b[i] = a[i]
  BY <1>2, <1>3, <1>4 DEF WellKept
<1>6. \A i \in 1..k : a[i].id # n /\ a[i] \in Account
  BY <1>3 DEF Range, WellKept
<1>7. \A i \in 1..(k + 1) : i = k + 1 \/ i \in 1..k
  BY <1>3
<1>8. k + 1 \in 1..(k + 1) /\ \A i \in 1..k : i \in 1..(k + 1) /\ i # k + 1
  BY <1>3
<1>9. \A i, j \in DOMAIN b : b[i].id = b[j].id => i = j
  <2>1. ASSUME NEW i \in 1..(k + 1), NEW j \in 1..(k + 1), b[i].id = b[j].id PROVE i = j
    <3>1. CASE i \in 1..k /\ j \in 1..k
      BY <1>3, <1>5, <2>1, <3>1 DEF WellKept
    <3>2. CASE i = k + 1 \/ j = k + 1
      BY <1>2, <1>5, <1>6, <1>7, <2>1, <3>2
    <3> QED BY <1>7, <3>1, <3>2
  <2> QED BY <1>5, <2>1
<1>10. OneDefault(b)
  <2>1. CASE a = <<>>
    <3>1. k = 0
      BY <1>3, <2>1
    <3>2. DOMAIN b = {1} /\ b[1] = x
      BY <1>5, <3>1
    <3>3. x.isDefault
      BY <1>2, <2>1
    <3>4. \A j \in DOMAIN b : j = 1
      BY <3>2
    <3>5. \A j \in DOMAIN b : b[j].isDefault <=> j = 1
      BY <3>2, <3>3, <3>4, Zenon
    <3>6. 1 \in DOMAIN b
      BY <3>2
    <3> QED BY <3>5, <3>6, Zenon DEF OneDefault
  <2>2. CASE a # <<>>
    <3>0. OneDefault(a)
      BY DEF WellKept
    <3>1. PICK i \in DOMAIN a : \A j \in DOMAIN a : a[j].isDefault <=> j = i
      BY <2>2, <3>0, Zenon DEF OneDefault
    <3>2. ~x.isDefault
      BY <1>2, <2>2
    <3>3. \A j \in DOMAIN b : b[j].isDefault <=> j = i
      <4> TAKE j \in DOMAIN b
      <4>1. CASE j \in 1..k
        <5>1. b[j] = a[j]
          BY <1>5, <4>1
        <5> QED BY <1>3, <3>1, <4>1, <5>1, Zenon
      <4>2. CASE j = k + 1
        <5>1. b[j] = x /\ j # i
          BY <1>3, <1>5, <1>8, <4>2
        <5> QED BY <3>2, <5>1, Zenon
      <4> QED BY <1>5, <1>7, <4>1, <4>2
    <3>4. i \in DOMAIN b
      BY <1>3, <1>5, <1>8
    <3> QED BY <3>3, <3>4, Zenon DEF OneDefault
  <2> QED BY <2>1, <2>2
<1> QED BY <1>1, <1>4, <1>5, <1>9, <1>10 DEF WellKept

\* handleSetDefault
LEMMA DefaultKept ==
  ASSUME NEW a, WellKept(a), NEW x \in Range(a)
  PROVE  WellKept([i \in DOMAIN a |-> [a[i] EXCEPT !.isDefault = a[i].id = x.id]])
<1>1. PICK k \in Nat : DOMAIN a = 1..k
  BY DEF WellKept
<1>2. PICK b : b = [i \in 1..k |-> [a[i] EXCEPT !.isDefault = a[i].id = x.id]]
  OBVIOUS
<1>3. \A i \in 1..k : a[i] \in Account /\ (a[i].id = x.id) \in BOOLEAN
  BY <1>1 DEF WellKept
<1>4. DOMAIN b = 1..k /\ \A i \in 1..k : b[i] = [a[i] EXCEPT !.isDefault = a[i].id = x.id]
  BY <1>2
<1>5. \A i \in 1..k : b[i] \in Account /\ b[i].id = a[i].id /\ b[i].isDefault = (a[i].id = x.id)
  <2> TAKE i \in 1..k
  <2>1. PICK v \in BOOLEAN : v = (a[i].id = x.id)
    BY <1>3
  <2>2. b[i] = [a[i] EXCEPT !.isDefault = v]
    BY <1>4, <2>1, Zenon
  <2>3. b[i] \in Account /\ b[i].id = a[i].id /\ b[i].isDefault = v
    BY <1>3, <2>2, FlagIs
  <2> QED BY <2>1, <2>3, Zenon
<1>6. b \in Seq(Account)
  <2>1. b = [i \in 1..k |-> b[i]]
    BY <1>2, <1>4
  <2> QED BY <1>5, <2>1
<1>7. \A i, j \in DOMAIN b : b[i].id = b[j].id => i = j
  BY <1>1, <1>4, <1>5 DEF WellKept
<1>8. PICK m \in 1..k : x = a[m]
  BY <1>1 DEF Range
<1>9. \A j \in DOMAIN b : b[j].isDefault <=> j = m
  <2> TAKE j \in DOMAIN b
  <2>1. a[j].id = x.id <=> j = m
    BY <1>1, <1>4, <1>8 DEF WellKept
  <2>2. b[j].isDefault = (a[j].id = x.id)
    BY <1>4, <1>5
  <2> QED BY <2>1, <2>2, Zenon
<1>10. OneDefault(b)
  <2>1. m \in DOMAIN b
    BY <1>4, <1>8
  <2> QED BY <1>9, <2>1, Zenon DEF OneDefault
<1>11. WellKept(b)
  BY <1>6, <1>7, <1>10 DEF WellKept
<1> QED BY <1>1, <1>2, <1>11

-----------------------------------------------------------------------------
(* The accounts in the rows, in the calls and on the page of a company      *)

IsBank(c) == "accounts" \in DOMAIN c.body
Founded(sv) == Given + sv.born.companies

\* A company that is gone does not come back.
Lost(sv, id) == id \in 1..Founded(sv) /\ \A r \in Range(sv.rows.companies) : r.id # id

CompanyRow(sv, r) ==
  /\ {"id", "owner", "accounts"} \subseteq DOMAIN r
  /\ r.id \in 1..Founded(sv) /\ r.owner = Me /\ WellKept(r.accounts)

KeptServer(sv) ==
  /\ sv.born.companies \in Nat
  /\ sv.rows.companies \in Seq(Range(sv.rows.companies))
  /\ \A r \in Range(sv.rows.companies) : CompanyRow(sv, r)

\* What is written into a company.
KeptBody(sv, c) ==
  /\ c.kind = "companies" => DOMAIN c.body \cap {"id", "owner"} = {} /\ (c.op = "create" => c.co = Me)
  /\ IsBank(c) => /\ c.kind = "companies" /\ c.op = "update" /\ c.co = Me /\ c.id \in 1..Founded(sv)
                  /\ WellKept(c.body.accounts) \/ Lost(sv, c.id)

\* What an answer brings of one; a save fails only of a company that is gone.
KeptAnswer(sv, c) ==
  /\ c.kind = "companies" /\ c.at = "done" /\ c.op \in {"get", "update", "create"} =>
       c.answer # <<>> /\ CompanyRow(sv, c.answer[1]) /\ (c.op # "create" => c.answer[1].id = c.id)
  /\ IsBank(c) /\ c.at = "failed" => Lost(sv, c.id)

\* The page of a company hears of the calls it has sent.
KeptHeard(sv, p, c) ==
  p.at = "company" /\ c.mine # "none" =>
    /\ c.kind \in {"companies", "members", "invitations"} /\ c.op # "peek"
    /\ c.op = "get" => c.id = p.co \/ p.co \in 1..Founded(sv)
    /\ c.op = "update" => DOMAIN c.body \cap {"pdf", "status", "data"} = {}
    /\ IsBank(c) /\ c.mine = "tab" => c.id = p.co
    /\ c.op = "update" /\ c.kind = "companies" /\ ~IsBank(c) => c.body.flag # "bankSaving"
KeptCall(sv, p, c) == KeptBody(sv, c) /\ KeptAnswer(sv, c) /\ KeptHeard(sv, p, c)

CompanyFields == {"at", "co", "company", "loading", "error", "tab", "accounts", "aliased", "editing", "asked",
                  "deleting", "busy"}

\* handleRemoveBankAccount writes into the accounts that are shown: they are well kept again
\* when the save it has sent is answered, and till then the buttons are not offered.
Saving(p, queue) == "bankSaving" \in p.busy /\ \E i \in DOMAIN queue : IsBank(queue[i]) /\ queue[i].mine = "tab"
KeptShown(sv, p, queue) ==
  p.at = "company" =>
    /\ DOMAIN p = CompanyFields
    /\ p.asked = "account" => "bankSaving" \notin p.busy
    /\ ~p.loading /\ ~p.error /\ p.company # <<>> =>
         /\ p.co \in 1..Founded(sv)
         /\ \/ WellKept(p.accounts) /\ WellKept(p.company[1].accounts)
            \/ Lost(sv, p.co)
            \/ Saving(p, queue)

DefaultsKept ==
  /\ KeptServer(server) /\ KeptShown(server, page, net)
  /\ \A i \in DOMAIN net : KeptCall(server, page, net[i])

-----------------------------------------------------------------------------
(* Steps of the other pages                                                 *)

\* A call that is sent and writes no accounts.
Harmless(c) ==
  /\ c.at \in {"sent", "reading"} /\ ~IsBank(c)
  /\ c.kind = "companies" => DOMAIN c.body \cap {"id", "owner"} = {} /\ (c.op = "create" => c.co = Me)

\* The page stays; the calls in flight go on, and harmless ones are sent.
Calm ==
  /\ server' = server /\ page'.at = page.at
  /\ \A i \in DOMAIN net' : Harmless(net'[i]) \/ \E j \in DOMAIN net : Same(net'[i], net[j])

LEMMA HarmlessIs == ASSUME NEW sv, NEW c, Harmless(c) PROVE KeptBody(sv, c) /\ KeptAnswer(sv, c)
BY DEF Harmless, KeptBody, KeptAnswer

LEMMA SameKept ==
  ASSUME NEW sv, NEW p, NEW c, IsCall(c), KeptCall(sv, p, c), NEW after, Same(after, c)
  PROVE  KeptBody(sv, after) /\ KeptAnswer(sv, after)
<1>1. /\ after.op = c.op /\ after.kind = c.kind /\ after.co = c.co /\ after.id = c.id
      /\ after.body = c.body /\ after.at = c.at /\ after.answer = c.answer
  BY SameIs
<1> QED BY <1>1 DEF KeptCall, KeptBody, KeptAnswer, IsBank

LEMMA HarmlessCall ==
  ASSUME NEW op, NEW kind, NEW co, NEW id, NEW body, DOMAIN body \cap {"accounts", "id", "owner"} = {},
         kind = "companies" /\ op = "create" => co = Me
  PROVE  Harmless(Call(op, kind, co, id, body))
<1>1. PICK c : c = Call(op, kind, co, id, body)
  OBVIOUS
<1>2. c.op = op /\ c.kind = kind /\ c.co = co /\ c.body = body /\ c.at = "sent"
  BY <1>1 DEF Call
<1>3. Harmless(c)
  BY <1>2 DEF Harmless, IsBank
<1> QED BY <1>1, <1>3

LEMMA CalmKept == ASSUME Shaped, DefaultsKept, Calm, page.at # "company" PROVE DefaultsKept'
<1>1. ASSUME NEW i \in DOMAIN net' PROVE KeptCall(server, page', net'[i])
  <2>1. KeptHeard(server, page', net'[i])
    BY DEF Calm, KeptHeard
  <2>2. CASE Harmless(net'[i])
    BY <2>1, <2>2, HarmlessIs DEF KeptCall
  <2>3. CASE \E j \in DOMAIN net : Same(net'[i], net[j])
    <3>1. PICK j \in DOMAIN net : Same(net'[i], net[j])
      BY <2>3
    <3>2. IsCall(net[j]) /\ KeptCall(server, page, net[j])
      BY DEF Shaped, DefaultsKept
    <3> QED BY <2>1, <3>1, <3>2, SameKept DEF KeptCall
  <2> QED BY <2>2, <2>3 DEF Calm
<1>2. KeptShown(server, page', net')
  BY DEF Calm, KeptShown
<1> QED BY <1>1, <1>2 DEF DefaultsKept, Calm

LEMMA QuietIsCalm == ASSUME QuietEvent, page.at # "company" PROVE Calm
<1>1. ASSUME NEW c, Quiet(c) PROVE Harmless(c)
  BY <1>1 DEF Quiet, Sent, Mine, Harmless, IsBank
<1>2. ASSUME NEW i \in DOMAIN net' PROVE Harmless(net'[i]) \/ \E j \in DOMAIN net : Same(net'[i], net[j])
  <2>1. CASE i \in DOMAIN net
    BY <2>1 DEF QuietEvent
  <2>2. CASE i \notin DOMAIN net
    BY <1>1, <2>2 DEF QuietEvent
  <2> QED BY <2>1, <2>2
<1> QED BY <1>2 DEF QuietEvent, Calm

LEMMA SendingIsCalm ==
  ASSUME Shaped, Sending, \A i \in DOMAIN net' \ DOMAIN net : Harmless(net'[i])
  PROVE  Calm
<1>1. ASSUME NEW i \in DOMAIN net PROVE Same(net'[i], net[i])
  BY DEF Shaped, Sending, Same, IsCall
<1> QED BY <1>1 DEF Sending, Calm

LEMMA SendsCalm ==
  ASSUME Shaped, page.at # "blank", NEW p, Kept(p)
  PROVE  /\ Acts(Stay(p)) => Calm
         /\ \A c : Harmless(c) /\ Takes(Step(p, store, <<c>>), net) => Calm
         /\ \A c : Harmless(c) /\ Acts(Sends(p, c)) => Calm
<1>1. ASSUME Acts(Stay(p)) PROVE Calm
  <2>1. Sending /\ net' = net
    BY <1>1, ActsStay DEF Kept, PlainEvent
  <2> QED BY <2>1, SendingIsCalm
<1>2. ASSUME NEW c, Harmless(c), Takes(Step(p, store, <<c>>), net) PROVE Calm
  <2>1. <<c>> \in Seq({c}) /\ DOMAIN <<c>> = {1} /\ <<c>>[1] = c
    OBVIOUS
  <2>2. Sending /\ \A i \in DOMAIN net' \ DOMAIN net : \E k \in DOMAIN <<c>> : net'[i] = <<c>>[k]
    BY <1>2, <2>1, TakesSends, Zenon DEF Kept
  <2>3. \A i \in DOMAIN net' \ DOMAIN net : net'[i] = c
    BY <2>1, <2>2
  <2> QED BY <1>2, <2>2, <2>3, SendingIsCalm
<1>3. ASSUME NEW c, Harmless(c), Acts(Sends(p, c)) PROVE Calm
  BY <1>2, <1>3 DEF Acts, Sends
<1> QED BY <1>1, <1>2, <1>3

LEMMA BuilderCalm == ASSUME Shaped, BuilderEvent PROVE Calm
<1>1. page.at = "builder" /\ page.at # "blank"
  BY DEF BuilderEvent, AutoSave, BuilderShown
<1>2. ASSUME NEW draft, NEW by, Takes(Save(page, draft, by), net) PROVE Calm
  <2> DEFINE p == Busy([page EXCEPT !.timer = <<>>], by)
             q == [page EXCEPT !.timer = <<>>]
             body == [data |-> draft, by |-> by]
  <2>1. Kept(p)
    BY DEF Kept, Shaped, Busy
  <2>2. DOMAIN body \cap {"accounts", "id", "owner"} = {}
    OBVIOUS
  <2>3. Takes(Step(p, store, <<Update("documents", q.co, q.id, body)>>), net)
    BY <1>2 DEF Save, Sends
  <2> HIDE DEF p, q, body
  <2>4. Harmless(Update("documents", q.co, q.id, body))
    BY <2>2, HarmlessCall DEF Update
  <2> QED BY <1>1, <2>1, <2>3, <2>4, SendsCalm
<1>3. CASE AutoSave
  BY <1>2, <1>3 DEF AutoSave
<1>4. CASE ManualSave \/ Export
  BY <1>2, <1>4 DEF ManualSave, Export, Acts
<1>5. CASE Edit
  <2>1. Kept(Edited(page))
    BY DEF Kept, Shaped, Edited
  <2> QED BY <1>1, <1>5, <2>1, SendsCalm DEF Edit
<1>6. CASE CloseModal
  BY <1>1, <1>6, KeptFields, SendsCalm DEF CloseModal
<1>7. CASE OpenModal
  <2>1. PICK m, w : Acts(Stay([page EXCEPT !.modal = m, !.busy = w]))
    <3>1. PICK m \in {"contractors", "vehicles"} :
                 Acts(Stay([page EXCEPT !.modal = m, !.busy = IF m = "vehicles" THEN @ \ {m} ELSE @]))
      BY <1>7, Zenon DEF OpenModal
    <3> DEFINE w == IF m = "vehicles" THEN page.busy \ {m} ELSE page.busy
    <3>2. [page EXCEPT !.modal = m, !.busy = IF m = "vehicles" THEN @ \ {m} ELSE @]
            = [page EXCEPT !.modal = m, !.busy = w]
      OBVIOUS
    <3> HIDE DEF w
    <3> QED BY <3>1, <3>2, Zenon
  <2>2. Kept([page EXCEPT !.modal = m, !.busy = w])
    BY DEF Kept, Shaped
  <2> QED BY <1>1, <2>1, <2>2, SendsCalm
<1>8. CASE AddContractorModal \/ AddVehicleModal
  <2>1. ASSUME NEW kind \in {"contractors", "vehicles"}, NEW name,
               Acts(Sends(Busy(page, kind), Create(kind, page.co, [name |-> name, for |-> page.id])))
        PROVE  Calm
    <3>1. DOMAIN [name |-> name, for |-> page.id] \cap {"accounts", "id", "owner"} = {} /\ kind # "companies"
      OBVIOUS
    <3>2. Harmless(Create(kind, page.co, [name |-> name, for |-> page.id]))
      BY <3>1, HarmlessCall DEF Create
    <3> QED BY <1>1, <2>1, <3>2, KeptPage, SendsCalm
  <2> QED BY <1>8, <2>1 DEF AddContractorModal, AddVehicleModal
<1>9. CASE Resync
  <2>1. ASSUME NEW kind, NEW co, NEW id, Acts(Sends(page, Call("peek", kind, co, id, NoBody))) PROVE Calm
    <3>1. DOMAIN NoBody \cap {"accounts", "id", "owner"} = {}
      BY DEF NoBody
    <3>2. Harmless(Call("peek", kind, co, id, NoBody))
      BY <3>1, HarmlessCall
    <3> QED BY <1>1, <2>1, <3>2, KeptPage, SendsCalm
  <2> QED BY <1>9, <2>1 DEF Resync
<1> QED BY <1>3, <1>4, <1>5, <1>6, <1>7, <1>8, <1>9 DEF BuilderEvent

LEMMA PeeksCalm == ASSUME Shaped, Peeks PROVE Calm
<1>1. PICK body : body = [data |-> Doc.data]
  OBVIOUS
<1>2. DOMAIN body \cap {"accounts", "id", "owner"} = {}
  BY <1>1
<1>3. Harmless(Call("peek", "documents", page.co, Doc.id, body))
  BY <1>2, HarmlessCall
<1> QED BY <1>1, <1>3, SendingIsCalm DEF Peeks

\* What the user does on the pages that are not of a company.
LEMMA OthersKept ==
  ASSUME Shaped, DefaultsKept, PageEvent, ~CompanyEvent
  PROVE  DefaultsKept'
<1>1. CASE ContractorsEvent \/ VehiclesEvent \/ MarksEvent \/ CompaniesEvent \/ SearchUsers \/ UserEvent \/ PlansEvent
  <2>1. page.at \notin {"blank", "company"}
    <3>1. page.at \in {"contractors", "vehicles", "signatures", "companySignatures", "stamps", "companies", "users",
                       "user", "plans"}
      BY <1>1, Zenon DEF ContractorsEvent, VehiclesEvent, MarksEvent, SignaturesEvent, CompanySignaturesEvent,
             StampsEvent, CompaniesEvent, SearchUsers, UserEvent, PlansEvent
    <3> QED BY <3>1
  <2>2. PlainEvent
    BY <1>1, ContractorsPlain, VehiclesPlain, MarksPlain, CompaniesPlain, AdminsPlain
  <2> QED BY <2>1, <2>2, PlainIsQuiet, QuietIsCalm, CalmKept
<1>2. CASE DocumentsEvent \/ DocumentEvent
  <2>1. page.at # "company"
    BY <1>2 DEF DocumentsEvent, DocumentEvent
  <2> QED BY <1>2, <2>1, DocumentsQuiet, DocumentQuiet, PeeksCalm, QuietIsCalm, CalmKept
<1>3. CASE BuilderEvent
  <2>1. page.at # "company"
    BY <1>3 DEF BuilderEvent, AutoSave, BuilderShown
  <2> QED BY <1>3, <2>1, BuilderCalm, CalmKept
<1> QED BY <1>1, <1>2, <1>3, Zenon DEF PageEvent

-----------------------------------------------------------------------------
(* Pages that are shown                                                     *)

\* A page that may be mounted, and one that has been and asks for its company.
Mounted(q) == q.at = "company" => DOMAIN q = CompanyFields /\ q.asked = "none"
Loading(q, co) == q.at = "company" => DOMAIN q = CompanyFields /\ q.asked = "none" /\ q.loading /\ q.co = co

LEMMA LoadsHarmless == ASSUME NEW p, NEW c, Loads(p, c) PROVE Harmless(c)
BY DEF Loads, Sent, Harmless, IsBank

LEMMA LoadKept ==
  ASSUME NEW p, "at" \in DOMAIN p, p.at \in Routes \ {"blank"}, Mounted(p), NEW sv
  PROVE  /\ Loading(Load(p).page, p.co)
         /\ \A k \in DOMAIN Load(p).calls : Harmless(Load(p).calls[k]) /\ KeptHeard(sv, Load(p).page, Load(p).calls[k])
<1>1. PICK step : step = Load(p)
  OBVIOUS
<1>2. step.page.at = p.at /\ \A k \in DOMAIN step.calls : Loads(p, step.calls[k])
  BY <1>1, LoadIs DEF Loaded
<1>3. \A k \in DOMAIN step.calls : Harmless(step.calls[k])
  BY <1>2, LoadsHarmless
<1>4. CASE p.at # "company"
  BY <1>1, <1>2, <1>3, <1>4 DEF Loading, KeptHeard
<1>5. CASE p.at = "company"
  <2> DEFINE none == ""
  <2>1. PICK q : q = [p EXCEPT !.loading = TRUE]
    OBVIOUS
  <2>2. PICK a, b, c : a = Fetch("companies", Me, p.co) /\ b = List("members", p.co, none)
                       /\ c = List("invitations", p.co, none)
    BY Zenon
  <2>3. step = Step(q, store, <<a, b, c>>)
    <3>1. Load(p) = LoadCompany(p)
      BY <1>5 DEF Load, MarkKinds
    <3> QED BY <1>1, <2>1, <2>2, <3>1, Zenon DEF LoadCompany
  <2> HIDE DEF none
  <2>4. /\ a.kind = "companies" /\ a.op = "get" /\ a.id = p.co
        /\ b.kind = "members" /\ b.op = "list" /\ c.kind = "invitations" /\ c.op = "list"
    <3>1. PICK body : body = NoBody
      OBVIOUS
    <3>2. a = Call("get", "companies", Me, p.co, body)
      BY <2>2, <3>1, Zenon DEF Fetch
    <3>3. PICK search : b = Call("list", "members", p.co, None, search) /\ c = Call("list", "invitations", p.co, None, search)
      BY <2>2, Zenon DEF List
    <3> QED BY <3>2, <3>3 DEF Call
  <2>5. step.page = q /\ step.calls = <<a, b, c>>
    BY <2>3 DEF Step
  <2>6. DOMAIN q = CompanyFields /\ q.asked = "none" /\ q.loading = TRUE /\ q.co = p.co
    BY <1>5, <2>1 DEF Mounted, CompanyFields
  <2>7. ~IsBank(a) /\ ~IsBank(b) /\ ~IsBank(c)
    <3>1. DOMAIN step.calls = {1, 2, 3} /\ step.calls[1] = a /\ step.calls[2] = b /\ step.calls[3] = c
      BY <2>5
    <3> QED BY <1>3, <3>1 DEF Harmless
  <2>8. KeptHeard(sv, q, a) /\ KeptHeard(sv, q, b) /\ KeptHeard(sv, q, c)
    BY <2>4, <2>6, <2>7 DEF KeptHeard
  <2>9. \A k \in DOMAIN step.calls : step.calls[k] = a \/ step.calls[k] = b \/ step.calls[k] = c
    BY <2>5
  <2> QED BY <1>1, <1>3, <2>5, <2>6, <2>8, <2>9 DEF Loading
<1> QED BY <1>4, <1>5

LEMMA DeafHears ==
  ASSUME NEW queue, NEW mine
  PROVE  \A i \in DOMAIN queue : IsCall(queue[i]) => Deaf(queue, mine)[i].mine \in {"none", mine}
<1>1. PICK d : d = Deaf(queue, mine)
  OBVIOUS
<1>2. ASSUME NEW i \in DOMAIN queue, IsCall(queue[i]) PROVE d[i].mine \in {"none", mine}
  <2>1. d[i] = [queue[i] EXCEPT !.mine = IF queue[i].mine = "none" THEN queue[i].mine ELSE mine]
    BY <1>1 DEF Deaf
  <2>2. "mine" \in DOMAIN queue[i]
    BY <1>2 DEF IsCall, Fields
  <2> QED BY <2>1, <2>2
<1> QED BY <1>1, <1>2

LEMMA RoutedMounted ==
  ASSUME NEW p, NEW q, "at" \in DOMAIN p, "at" \in DOMAIN q, Mounted(q),
         p.at = "company" /\ q.at = "company" => DOMAIN p = CompanyFields
  PROVE  Mounted(Routed(p, q)) /\ (q.at = "company" => Routed(p, q).co = q.co)
<1>1. Routed(p, q).at = q.at
  BY RoutedIs
<1>2. CASE p.at # q.at
  BY <1>2 DEF Routed
<1>3. CASE p.at = q.at /\ q.at # "company"
  BY <1>1, <1>3 DEF Mounted
<1>4. CASE p.at = q.at /\ q.at = "company"
  <2>1. PICK same : same = [f \in DOMAIN p |-> IF f \in {"co", "id"} THEN q[f] ELSE p[f]]
    OBVIOUS
  <2>2. DOMAIN same = CompanyFields /\ same["co"] = q["co"]
    BY <1>4, <2>1 DEF CompanyFields
  <2>3. PICK c : c = [same EXCEPT !.asked = "none", !.deleting = None]
    OBVIOUS
  <2>4. DOMAIN c = CompanyFields /\ c["co"] = q["co"] /\ c["asked"] = "none"
    BY <2>2, <2>3 DEF CompanyFields
  <2>5. PICK r : r = [c EXCEPT !.editing = None, !.busy = {}]
    OBVIOUS
  <2>6. DOMAIN r = CompanyFields /\ r["co"] = q["co"] /\ r["asked"] = "none"
    BY <2>4, <2>5 DEF CompanyFields
  <2>7. Routed(p, q) = r
    BY <1>4, <2>1, <2>3, <2>5 DEF Routed, Closed
  <2> QED BY <2>6, <2>7 DEF Mounted
<1> QED BY <1>2, <1>3, <1>4

\* The page that is shown fetches what it shows; a tab of a company hears of no call that
\* was sent for another company.
LEMMA ShowsKept ==
  ASSUME DefaultsKept, NEW p, "at" \in DOMAIN p, NEW s, DOMAIN s = Stores, DOMAIN s.rows = Kinds,
         NEW queue, queue \in Seq(Range(queue)),
         \A i \in DOMAIN queue : IsCall(queue[i]) /\ KeptCall(server, p, queue[i]),
         NEW q, "at" \in DOMAIN q, q.at \in Routes \ {"blank"}, Mounted(q),
         p.at = "company" /\ q.at = "company" =>
           DOMAIN p = CompanyFields /\ (queue = <<>> \/ q.co \in 1..Founded(server)),
         Shows(p, s, queue, q)
  PROVE  DefaultsKept'
<1> DEFINE r == Routed(p, q)
           step == Load(r)
           heard == IF p.at # q.at THEN "none" ELSE IF p.at = "company" THEN "page" ELSE "tab"
           left == IF p.at = "company" THEN ClearMembers(s) ELSE IF p.at = "user" THEN ClearSelectedUser(s) ELSE s
           deaf == Deaf(queue, heard)
<1>1. Takes(Step(step.page, left, step.calls), deaf)
  BY DEF Shows
<1>2. "at" \in DOMAIN r /\ r.at = q.at /\ Mounted(r) /\ (q.at = "company" => r.co = q.co)
  BY RoutedIs, RoutedMounted
<1>3. DOMAIN left = Stores
  BY ClearedIs
<1>4. heard \in {"tab", "page", "none"} /\ (p.at # q.at => heard = "none") /\ (p.at = "company" => heard # "tab")
  OBVIOUS
<1> HIDE DEF r, heard, left
<1>5. /\ DOMAIN deaf = DOMAIN queue /\ deaf \in Seq(Range(deaf))
      /\ \A i \in DOMAIN queue : Same(deaf[i], queue[i]) /\ deaf[i].mine \in {"none", heard}
  BY <1>4, DeafIs, DeafHears
<1>6. /\ step.calls \in Seq(Range(step.calls)) /\ step.page.at = q.at
      /\ Loading(step.page, r.co)
      /\ \A k \in DOMAIN step.calls : Harmless(step.calls[k]) /\ KeptHeard(server, step.page, step.calls[k])
  BY <1>2, LoadIs, LoadKept DEF Loaded
<1> HIDE DEF step, deaf
<1>7. /\ page' = step.page /\ server' = server
      /\ \A i \in DOMAIN net' : \/ \E k \in DOMAIN deaf : net'[i] = deaf[k]
                                \/ \E k \in DOMAIN step.calls : net'[i] = step.calls[k]
  BY <1>1, <1>3, <1>5, <1>6, TakesIs
<1>8. KeptShown(server, page', net')
  BY <1>6, <1>7 DEF Loading, KeptShown
<1>9. ASSUME NEW k \in DOMAIN deaf PROVE KeptCall(server, page', deaf[k])
  <2>1. KeptBody(server, deaf[k]) /\ KeptAnswer(server, deaf[k])
    BY <1>5, SameKept
  <2>2. ASSUME page'.at = "company", deaf[k].mine # "none" PROVE KeptHeard(server, page', deaf[k])
    <3>1. p.at = "company" /\ q.at = "company" /\ heard # "tab" /\ deaf[k].mine # "tab" /\ page'.co = q.co
      BY <1>2, <1>4, <1>5, <1>6, <1>7, <2>2 DEF Loading
    <3>2. queue # <<>>
      BY <1>5
    <3>3. q.co \in 1..Founded(server)
      BY <3>1, <3>2
    <3>4. /\ deaf[k].op = queue[k].op /\ deaf[k].kind = queue[k].kind
          /\ deaf[k].body = queue[k].body /\ queue[k].mine # "none"
      BY <1>5, <2>2, SameIs
    <3>5. KeptHeard(server, p, queue[k])
      BY <1>5 DEF KeptCall
    <3> QED BY <3>1, <3>3, <3>4, <3>5 DEF KeptHeard, IsBank
  <2>3. KeptHeard(server, page', deaf[k])
    BY <2>2 DEF KeptHeard
  <2> QED BY <2>1, <2>3 DEF KeptCall
<1>10. ASSUME NEW k \in DOMAIN step.calls PROVE KeptCall(server, page', step.calls[k])
  BY <1>6, <1>7, HarmlessIs DEF KeptCall
<1> QED BY <1>7, <1>8, <1>9, <1>10 DEF DefaultsKept

-----------------------------------------------------------------------------
(* A page is left, or the first one is shown                                *)

LEMMA MountedPages ==
  ASSUME NEW co, NEW id
  PROVE  /\ Mounted(CompaniesPage) /\ Mounted(SignaturesPage) /\ Mounted(UsersPage) /\ Mounted(PlansPage)
         /\ Mounted(UserPage(id)) /\ Mounted(DocumentsPage(co)) /\ Mounted(ContractorsPage(co))
         /\ Mounted(CompanyPage(co)) /\ Mounted(VehiclesPage(co)) /\ Mounted(CompanySignaturesPage(co))
         /\ Mounted(StampsPage(co)) /\ Mounted(DocumentPage(co, id)) /\ Mounted(BuilderPage(co, id))
<1>1. /\ CompaniesPage.at = "companies" /\ PlansPage.at = "plans" /\ UserPage(id).at = "user"
      /\ VehiclesPage(co).at = "vehicles" /\ DocumentPage(co, id).at = "document" /\ BuilderPage(co, id).at = "builder"
  BY DEF CompaniesPage, PlansPage, UserPage, VehiclesPage, DocumentPage, BuilderPage
<1>2. /\ SignaturesPage.at = "signatures" /\ CompanySignaturesPage(co).at = "companySignatures"
      /\ StampsPage(co).at = "stamps"
  BY DEF SignaturesPage, CompanySignaturesPage, StampsPage, MarksPage
<1>3. UsersPage.at = "users" /\ DocumentsPage(co).at = "documents" /\ ContractorsPage(co).at = "contractors"
  <2> DEFINE none == ""
  <2>1. /\ UsersPage = [at |-> "users", co |-> Me, search |-> none, busy |-> {}]
        /\ DocumentsPage(co) = [at |-> "documents", co |-> co, search |-> none, showCreate |-> FALSE, number |-> 0,
                                debounced |-> 0, numberError |-> FALSE, deleting |-> None, cancelling |-> None,
                                busy |-> {}]
        /\ ContractorsPage(co) = [at |-> "contractors", co |-> co, search |-> none, showCreate |-> FALSE,
                                  editing |-> None, deleting |-> None, busy |-> {}]
    BY Zenon DEF UsersPage, DocumentsPage, ContractorsPage
  <2> HIDE DEF none
  <2> QED BY <2>1
<1>4. Mounted(CompanyPage(co))
  BY DEF CompanyPage, Mounted, CompanyFields
<1> QED BY <1>1, <1>2, <1>3, <1>4 DEF Mounted

LEMMA MountedLinks == ASSUME NEW q \in Entries \cup Links PROVE Mounted(q)
<1>1. CASE q \in Entries
  BY <1>1, MountedPages, Zenon DEF Entries
<1>2. CASE q \in Links
  <2>1. CASE page.at = "companies"
    BY <1>2, <2>1, MountedPages DEF Links
  <2>2. CASE page.at = "documents"
    BY <1>2, <2>2, MountedPages DEF Links
  <2>3. CASE page.at = "document"
    BY <1>2, <2>3, MountedPages DEF Links
  <2>4. CASE page.at = "builder"
    BY <1>2, <2>4, MountedPages DEF Links
  <2>5. CASE page.at = "users"
    BY <1>2, <2>5, MountedPages DEF Links
  <2> QED BY <1>2, <2>1, <2>2, <2>3, <2>4, <2>5 DEF Links
<1> QED BY <1>1, <1>2

LEMMA QueueKept ==
  ASSUME Shaped, DefaultsKept
  PROVE  net \in Seq(Range(net)) /\ \A i \in DOMAIN net : IsCall(net[i]) /\ KeptCall(server, page, net[i])
BY DEF Shaped, DefaultsKept

\* The queue and the calls of a step.
LEMMA KeptTakes ==
  ASSUME NEW p, NEW s, DOMAIN s = Stores,
         NEW queue, queue \in Seq(Range(queue)), \A i \in DOMAIN queue : KeptCall(server, p, queue[i]),
         NEW calls, calls \in Seq(Range(calls)),
         \A k \in DOMAIN calls : Harmless(calls[k]) /\ KeptHeard(server, p, calls[k]),
         Takes(Step(p, s, calls), queue)
  PROVE  page' = p /\ server' = server /\ \A i \in DOMAIN net' : KeptCall(server, p, net'[i])
<1>1. /\ page' = p /\ server' = server
      /\ \A i \in DOMAIN net' : \/ \E k \in DOMAIN queue : net'[i] = queue[k]
                                \/ \E k \in DOMAIN calls : net'[i] = calls[k]
  BY TakesIs
<1>2. \A k \in DOMAIN calls : KeptCall(server, p, calls[k])
  BY HarmlessIs DEF KeptCall
<1> QED BY <1>1, <1>2

LEMMA VisitKept ==
  ASSUME Shaped, DraftsOwn, DefaultsKept, "hop" \notin scope.uses, Visit
  PROVE  DefaultsKept'
<1>1. net = <<>> /\ page.at \in Routes \ {"blank"} /\ "at" \in DOMAIN page
  BY NetIs DEF Visit, Leaves
<1>2. PICK q \in Entries \cup Links :
        Shows(page, IF page.at = "companies" /\ q \in Links THEN SetActive(store, q.co) ELSE store, net, q)
  BY Zenon DEF Visit
<1>3. PICK s : s = IF page.at = "companies" /\ q \in Links THEN SetActive(store, q.co) ELSE store
  OBVIOUS
<1>4. DOMAIN s = Stores /\ DOMAIN s.rows = Kinds
  BY <1>3, NetIs, SetActiveIs
<1>5. "at" \in DOMAIN q /\ q.at \in Routes \ {"blank"} /\ Mounted(q)
  BY LinksAre, MountedLinks
<1>6. page.at = "company" => DOMAIN page = CompanyFields
  BY DEF DefaultsKept, KeptShown
<1>7. Shows(page, s, net, q)
  BY <1>2, <1>3
<1> QED BY <1>1, <1>4, <1>5, <1>6, <1>7, QueueKept, ShowsKept

LEMMA SwitchKept ==
  ASSUME Shaped, DraftsOwn, DefaultsKept, "hop" \notin scope.uses, SwitchCompany
  PROVE  DefaultsKept'
<1>1. net = <<>> /\ page.at \in Routes \ {"blank"} /\ "at" \in DOMAIN page /\ ~Covered
  BY NetIs DEF SwitchCompany, Leaves
<1>2. PICK r \in Range(store.rows.companies) :
        IF page.at \in UnderCompany /\ page.co = store.active
          THEN Shows(page, SetActive(store, r.id), net, [page EXCEPT !.co = r.id])
        ELSE IF page.at = "builder"
          THEN Takes(Step(LoadDraft(page).page, SetActive(store, r.id), LoadDraft(page).calls), net)
        ELSE Takes(Step(page, SetActive(store, r.id), <<>>), net)
  BY Zenon DEF SwitchCompany
<1>3. PICK s : s = SetActive(store, r.id)
  OBVIOUS
<1>4. DOMAIN s = Stores /\ DOMAIN s.rows = Kinds
  BY <1>3, NetIs, SetActiveIs
<1>5. page.at = "company" => DOMAIN page = CompanyFields
  BY DEF DefaultsKept, KeptShown
<1>6. CASE Shows(page, s, net, [page EXCEPT !.co = r.id])
  <2>1. PICK q : q = [page EXCEPT !.co = r.id]
    OBVIOUS
  <2>2. "at" \in DOMAIN q /\ q.at = page.at
    BY <1>1, <2>1
  <2>3. Mounted(q)
    <3>1. SUFFICES ASSUME page.at = "company" PROVE DOMAIN q = CompanyFields /\ q.asked = "none"
      BY <2>2 DEF Mounted
    <3>2. DOMAIN page = CompanyFields /\ "asked" \in DOMAIN page
      BY <1>5, <3>1 DEF CompanyFields
    <3>3. page["asked"] = "none"
      BY <1>1, <3>2 DEF Covered
    <3> QED BY <2>1, <3>2, <3>3
  <2>4. Shows(page, s, net, q)
    BY <1>6, <2>1
  <2> QED BY <1>1, <1>4, <1>5, <2>2, <2>3, <2>4, QueueKept, ShowsKept
<1>7. CASE page.at = "builder" /\ Takes(Step(LoadDraft(page).page, s, LoadDraft(page).calls), net)
  <2>1. PICK p, c : p = [page EXCEPT !.loading = TRUE] /\ c = Fetch("documents", page.co, page.id)
    OBVIOUS
  <2>2. Takes(Step(p, s, <<c>>), net) /\ Loads(page, c)
    BY <1>7, <2>1, LoadDraftIs
  <2>3. <<c>> \in Seq(Range(<<c>>)) /\ \A k \in DOMAIN <<c>> : <<c>>[k] = c
    BY DEF Range
  <2>4. PICK queue, calls : queue = net /\ calls = <<c>>
    OBVIOUS
  <2>5. "at" \in DOMAIN p /\ p.at = "builder"
    BY <1>1, <1>7, <2>1
  <2>6. /\ calls \in Seq(Range(calls)) /\ queue \in Seq(Range(queue)) /\ DOMAIN queue = {}
        /\ \A k \in DOMAIN calls : Harmless(calls[k]) /\ KeptHeard(server, p, calls[k])
    BY <1>1, <2>2, <2>3, <2>4, <2>5, LoadsHarmless DEF KeptHeard
  <2>7. Takes(Step(p, s, calls), queue)
    BY <2>2, <2>4
  <2>8. page' = p /\ server' = server /\ \A i \in DOMAIN net' : KeptCall(server, p, net'[i])
    BY <1>4, <2>6, <2>7, KeptTakes
  <2>9. KeptShown(server, p, net')
    BY <2>5 DEF KeptShown
  <2> QED BY <2>8, <2>9 DEF DefaultsKept
<1>8. CASE Takes(Step(page, s, <<>>), net)
  <2>1. page' = page /\ server' = server /\ net' = net
    <3>1. <<>> \o <<>> = <<>>
      OBVIOUS
    <3> QED BY <1>1, <1>8, <3>1 DEF Takes, Step
  <2> QED BY <2>1 DEF DefaultsKept
<1> QED BY <1>2, <1>3, <1>6, <1>7, <1>8

LEMMA OpenKept == ASSUME Shaped, DraftsOwn, DefaultsKept, Open PROVE DefaultsKept'
<1>1. net = <<>>
  <2>1. page.at = "blank"
    BY Zenon DEF Open
  <2> QED BY <2>1 DEF Shaped
<1> DEFINE new == "reload" \in scope.uses
           companies == [List("companies", Me, "") EXCEPT !.mine = "none"]
<1>2. PICK first \in FirstPages : Takes([Load(first) EXCEPT !.calls = IF new THEN Append(@, companies) ELSE @], net)
  BY Zenon DEF Open
<1> HIDE DEF companies
<1>3. "at" \in DOMAIN first /\ first.at \in Routes \ {"blank"} /\ Mounted(first)
  <2> DEFINE Good(x) == "at" \in DOMAIN x /\ x.at \in Routes \ {"blank"} /\ Mounted(x)
  <2>1. "builder" \in Routes \ {"blank"}
    BY DEF Routes, UnderCompany
  <2>2. \A co, id : /\ Good(CompaniesPage) /\ Good(SignaturesPage) /\ Good(UsersPage) /\ Good(PlansPage)
                    /\ Good(UserPage(id)) /\ Good(DocumentsPage(co)) /\ Good(ContractorsPage(co))
                    /\ Good(CompanyPage(co)) /\ Good(VehiclesPage(co)) /\ Good(CompanySignaturesPage(co))
                    /\ Good(StampsPage(co)) /\ Good(DocumentPage(co, id)) /\ Good(BuilderPage(co, id))
    BY <2>1, PagesAre, MountedPages
  <2> HIDE DEF Good
  <2>3. Good(first)
    BY <2>2, FirstPagesAre
  <2> QED BY <2>3 DEF Good
<1>4. PICK step : step = Load(first)
  OBVIOUS
<1>5. /\ Loaded(first, step) /\ Loading(step.page, first.co)
      /\ \A k \in DOMAIN step.calls : Harmless(step.calls[k]) /\ KeptHeard(server, step.page, step.calls[k])
  BY <1>3, <1>4, LoadIs, LoadKept
<1>6. PICK calls : calls = IF new THEN Append(step.calls, companies) ELSE step.calls
  OBVIOUS
<1>7. Takes(Step(step.page, store, calls), net)
  <2>1. [step EXCEPT !.calls = IF new THEN Append(@, companies) ELSE @]
          = [step EXCEPT !.calls = calls]
    BY <1>6, Zenon
  <2>2. Takes([step EXCEPT !.calls = calls], net)
    BY <1>2, <1>4, <2>1, Zenon
  <2>3. step = Step(step.page, store, step.calls)
    BY <1>5 DEF Loaded
  <2>4. PICK x, y : x = step.page /\ y = step.calls
    OBVIOUS
  <2>5. [step EXCEPT !.calls = calls] = Step(x, store, calls)
    BY <2>3, <2>4 DEF Step
  <2> QED BY <2>2, <2>4, <2>5
<1>8. Harmless(companies) /\ companies.mine = "none"
  <2>1. PICK c : c = List("companies", Me, "")
    BY Zenon
  <2>2. "companies" \in Kinds
    BY DEF Kinds
  <2>3. Loads(first, c)
    BY <2>1, <2>2, LoadsOf, Zenon
  <2>4. companies = [c EXCEPT !.mine = "none"]
    BY <2>1, Zenon DEF companies
  <2>5. DOMAIN c = Fields
    BY <2>3 DEF Loads, Sent, IsCall
  <2>6. PICK d : d = companies
    OBVIOUS
  <2>7. d.op = c.op /\ d.kind = c.kind /\ d.co = c.co /\ d.body = c.body /\ d.at = c.at /\ d.mine = "none"
    BY <2>4, <2>5, <2>6 DEF Fields
  <2>8. Harmless(c)
    BY <2>3, LoadsHarmless
  <2> QED BY <2>6, <2>7, <2>8 DEF Harmless, IsBank
<1>9. /\ calls \in Seq(Range(calls))
      /\ \A k \in DOMAIN calls : Harmless(calls[k]) /\ KeptHeard(server, step.page, calls[k])
  <2>1. KeptHeard(server, step.page, companies)
    BY <1>8 DEF KeptHeard
  <2>2. PICK a, b : a = step.calls /\ b = <<companies>>
    OBVIOUS
  <2>3. a \in Seq(Range(a)) /\ b \in Seq(Range(b)) /\ DOMAIN b = {1} /\ b[1] = companies
    BY <1>5, <2>2 DEF Loaded, Range
  <2>4. PICK j : j = a \o b
    OBVIOUS
  <2>5. /\ j \in Seq(Range(j))
        /\ \A i \in DOMAIN j : (\E k \in DOMAIN a : j[i] = a[k]) \/ (\E k \in DOMAIN b : j[i] = b[k])
    BY <2>3, <2>4, Joined
  <2>6. Append(a, companies) = j
    <3>1. a \in Seq(Range(a) \cup {companies}) /\ companies \in Range(a) \cup {companies}
      BY <2>3
    <3>2. Append(a, companies) = a \o <<companies>>
      BY <3>1, AppendIsConcat, Zenon
    <3> QED BY <2>2, <2>4, <3>2
  <2>7. calls = a \/ calls = j
    BY <1>6, <2>2, <2>6
  <2> QED BY <1>5, <1>8, <2>1, <2>2, <2>3, <2>5, <2>7
<1>10. PICK queue : queue = net
  OBVIOUS
<1>11. queue \in Seq(Range(queue)) /\ DOMAIN queue = {} /\ DOMAIN store = Stores
  BY <1>1, <1>10, NetIs
<1>12. Takes(Step(step.page, store, calls), queue)
  BY <1>7, <1>10
<1>13. PICK p : p = step.page
  OBVIOUS
<1>14. page' = p /\ server' = server /\ \A i \in DOMAIN net' : KeptCall(server, p, net'[i])
  BY <1>9, <1>11, <1>12, <1>13, KeptTakes
<1>15. KeptShown(server, p, net')
  BY <1>5, <1>13 DEF Loading, KeptShown
<1> QED BY <1>14, <1>15 DEF DefaultsKept

-----------------------------------------------------------------------------
(* What the user does on the page of a company                              *)

\* A call of the page that writes no accounts.
LEMMA CompanyCall ==
  ASSUME NEW sv, NEW p, NEW op \in {"create", "update", "remove"}, NEW kind \in {"companies", "members", "invitations"},
         NEW co, NEW id, NEW body, DOMAIN body \cap {"accounts", "id", "owner", "pdf", "status", "data"} = {},
         kind = "companies" => op # "create" /\ (op = "update" => body.flag # "bankSaving")
  PROVE  KeptCall(sv, p, Call(op, kind, co, id, body))
<1>1. PICK c : c = Call(op, kind, co, id, body)
  OBVIOUS
<1>2. c.op = op /\ c.kind = kind /\ c.body = body /\ c.at = "sent"
  BY <1>1 DEF Call
<1>3. ~IsBank(c)
  BY <1>2 DEF IsBank
<1>4. KeptBody(sv, c) /\ KeptAnswer(sv, c)
  BY <1>2, <1>3 DEF KeptBody, KeptAnswer
<1>5. KeptHeard(sv, p, c)
  BY <1>2, <1>3 DEF KeptHeard
<1> QED BY <1>1, <1>4, <1>5 DEF KeptCall

\* saveBankAccounts
LEMMA AccountsCall ==
  ASSUME NEW sv, NEW p, p.co \in 1..Founded(sv), NEW accounts, WellKept(accounts) \/ Lost(sv, p.co),
         NEW gone, NEW edited,
         NEW c, c = Update("companies", Me, p.co, [accounts |-> accounts, gone |-> gone, edited |-> edited])
  PROVE  KeptCall(sv, p, c) /\ IsBank(c) /\ c.mine = "tab"
<1>1. PICK body : body = [accounts |-> accounts, gone |-> gone, edited |-> edited]
  OBVIOUS
<1>2. DOMAIN body = {"accounts", "gone", "edited"} /\ body.accounts = accounts
  BY <1>1
<1>3. /\ c.op = "update" /\ c.kind = "companies" /\ c.co = Me /\ c.id = p.co /\ c.body = body
      /\ c.at = "sent" /\ c.mine = "tab"
  BY <1>1 DEF Update, Call
<1>4. IsBank(c)
  BY <1>2, <1>3 DEF IsBank
<1>5. KeptBody(sv, c)
  <2>1. DOMAIN c.body \cap {"id", "owner"} = {}
    BY <1>2, <1>3
  <2> QED BY <1>2, <1>3, <2>1 DEF KeptBody
<1>6. KeptAnswer(sv, c)
  BY <1>3 DEF KeptAnswer
<1>7. KeptHeard(sv, p, c)
  <2>1. DOMAIN c.body \cap {"pdf", "status", "data"} = {}
    BY <1>2, <1>3
  <2> QED BY <1>3, <1>4, <2>1 DEF KeptHeard
<1> QED BY <1>3, <1>4, <1>5, <1>6, <1>7 DEF KeptCall

\* The page of a company that stays the page of that company.
Staying(q) == DOMAIN q = CompanyFields /\ q.at = "company" /\ q.co = page.co
Alike(q) ==
  /\ Staying(q) /\ q.company = page.company /\ q.accounts = page.accounts
  /\ q.loading = page.loading /\ q.error = page.error
  /\ page.busy \subseteq q.busy /\ (q.asked = "account" => "bankSaving" \notin q.busy)

LEMMA StayingKept ==
  ASSUME Shaped, DefaultsKept, page.at = "company", Sending, NEW q, page' = q, Staying(q),
         \A i \in DOMAIN net' \ DOMAIN net : KeptCall(server, q, net'[i]), KeptShown(server, q, net')
  PROVE  DefaultsKept'
<1>1. ASSUME NEW i \in DOMAIN net PROVE KeptCall(server, q, net'[i])
  <2>1. KeptCall(server, page, net[i]) /\ net'[i] = net[i]
    BY DEF DefaultsKept, Sending
  <2> QED BY <2>1 DEF KeptCall, KeptHeard, Staying
<1>2. \A i \in DOMAIN net' : KeptCall(server, q, net'[i])
  BY <1>1
<1> QED BY <1>2 DEF DefaultsKept, Sending

LEMMA AlikeKept ==
  ASSUME Shaped, DefaultsKept, page.at = "company", Sending, NEW q, page' = q, Alike(q),
         \A i \in DOMAIN net' \ DOMAIN net : KeptCall(server, q, net'[i])
  PROVE  DefaultsKept'
<1>1. DOMAIN net \subseteq DOMAIN net'
  <2>1. DOMAIN net = 1..Len(net) /\ DOMAIN net' = 1..Len(net') /\ Len(net) \in Nat /\ Len(net') \in Nat
    BY DEF Shaped, Sending
  <2> QED BY <2>1 DEF Sending
<1>2. Saving(page, net) => Saving(q, net')
  <2>1. SUFFICES ASSUME Saving(page, net) PROVE Saving(q, net')
    OBVIOUS
  <2>2. PICK i \in DOMAIN net : IsBank(net[i]) /\ net[i].mine = "tab"
    BY <2>1 DEF Saving
  <2>3. "bankSaving" \in q.busy
    BY <2>1 DEF Saving, Alike
  <2>4. i \in DOMAIN net' /\ net'[i] = net[i]
    BY <1>1 DEF Sending
  <2> QED BY <2>2, <2>3, <2>4 DEF Saving
<1>3. KeptShown(server, page, net)
  BY DEF DefaultsKept
<1>4. KeptShown(server, q, net')
  BY <1>2, <1>3 DEF KeptShown, Alike, Staying
<1> QED BY <1>4, StayingKept DEF Alike

LEMMA AlikeActs ==
  ASSUME Shaped, DefaultsKept, page.at = "company", NEW q, Alike(q)
  PROVE  /\ Acts(Stay(q)) => DefaultsKept'
         /\ \A c : KeptCall(server, q, c) /\ Acts(Sends(q, c)) => DefaultsKept'
<1>1. "at" \in DOMAIN q /\ q.at = page.at /\ page.at # "blank"
  BY DEF Alike, Staying, CompanyFields
<1>2. ASSUME Acts(Stay(q)) PROVE DefaultsKept'
  <2>1. Sending /\ page' = q /\ net' = net
    BY <1>1, <1>2, ActsStay DEF PlainEvent
  <2> QED BY <2>1, AlikeKept
<1>3. ASSUME NEW c, KeptCall(server, q, c), Acts(Sends(q, c)) PROVE DefaultsKept'
  <2>1. Sending /\ page' = q /\ \A i \in DOMAIN net' \ DOMAIN net : net'[i] = c
    BY <1>1, <1>3, ActsSends
  <2> QED BY <1>3, <2>1, AlikeKept
<1> QED BY <1>2, <1>3

\* What the page makes of its fields.
LEMMA AlikePage == ASSUME DefaultsKept, page.at = "company" PROVE Alike(page) /\ DOMAIN page = CompanyFields
BY DEF DefaultsKept, KeptShown, Alike, Staying

LEMMA AlikeEditing ==
  ASSUME DefaultsKept, page.at = "company", NEW v, NEW q, q = [page EXCEPT !.editing = v]
  PROVE  Alike(q)
<1>1. Alike(page) /\ DOMAIN page = CompanyFields
  BY AlikePage
<1> QED BY <1>1 DEF Alike, Staying, CompanyFields

LEMMA AlikeAsked ==
  ASSUME DefaultsKept, page.at = "company", NEW what, NEW id, NEW q,
         q = [page EXCEPT !.asked = what, !.deleting = id],
         what = "account" => "bankSaving" \notin page.busy
  PROVE  Alike(q)
<1>1. Alike(page) /\ DOMAIN page = CompanyFields
  BY AlikePage
<1> QED BY <1>1 DEF Alike, Staying, CompanyFields

LEMMA AlikeClosed == ASSUME DefaultsKept, page.at = "company" PROVE Alike(Closed(page))
<1>1. PICK what : what = "none"
  OBVIOUS
<1>2. PICK q : q = Closed(page)
  OBVIOUS
<1>3. q = [page EXCEPT !.asked = what, !.deleting = None]
  BY <1>1, <1>2 DEF Closed
<1>4. Alike(q)
  <2>1. what # "account"
    BY <1>1
  <2> QED BY <1>3, <2>1, AlikeAsked, Zenon
<1> QED BY <1>2, <1>4

LEMMA AlikeBusy == ASSUME NEW p, Alike(p), NEW flag, flag # "bankSaving" PROVE Alike(Busy(p, flag))
<1>1. PICK q : q = Busy(p, flag)
  OBVIOUS
<1>2. q = [p EXCEPT !.busy = p.busy \cup {flag}]
  BY <1>1 DEF Busy
<1>3. Alike(q)
  BY <1>2 DEF Alike, Staying, CompanyFields
<1> QED BY <1>1, <1>3

LEMMA MembersKept == ASSUME Shaped, DefaultsKept, MembersEvent PROVE DefaultsKept'
<1>1. page.at = "company" /\ Alike(page) /\ Alike(Closed(page))
  <2>1. page.at = "company"
    BY DEF MembersEvent, InTab, Ready
  <2> QED BY <2>1, AlikePage, AlikeClosed
<1>2. \A x, y : DOMAIN [role |-> x, name |-> y] \cap {"accounts", "id", "owner", "pdf", "status", "data"} = {}
                /\ DOMAIN [role |-> x] \cap {"accounts", "id", "owner", "pdf", "status", "data"} = {}
  OBVIOUS
<1>3. DOMAIN NoBody \cap {"accounts", "id", "owner", "pdf", "status", "data"} = {}
  BY DEF NoBody
<1>4. CASE AddMember
  <2> DEFINE Name(kind) == IF kind = "members" THEN "a" ELSE "b"
  <2>0. PICK kind \in {"members", "invitations"}, role \in {"ADMIN", "MEMBER"} :
          Acts(Sends(Busy(page, "adding"), Create(kind, page.co, [role |-> role, name |-> Name(kind)])))
    BY <1>4, Zenon DEF AddMember
  <2> HIDE DEF Name
  <2>1. PICK called : Acts(Sends(Busy(page, "adding"), Create(kind, page.co, [role |-> role, name |-> called])))
    BY <2>0, Zenon
  <2>2. PICK body : body = [role |-> role, name |-> called]
    OBVIOUS
  <2>3. PICK p, c : p = Busy(page, "adding") /\ c = Create(kind, page.co, body)
    OBVIOUS
  <2>4. Alike(p)
    BY <1>1, <2>3, AlikeBusy
  <2>5. KeptCall(server, p, Call("create", kind, page.co, None, body))
    BY <1>2, <2>2, CompanyCall
  <2>6. Acts(Sends(p, c)) /\ KeptCall(server, p, c)
    BY <2>1, <2>2, <2>3, <2>5 DEF Create
  <2> QED BY <1>1, <2>4, <2>6, AlikeActs
<1>5. CASE ChangeRole
  <2>1. PICK id, role : Acts(Sends(page, Update("members", page.co, id, [role |-> role])))
    BY <1>5, Zenon DEF ChangeRole
  <2>2. PICK body : body = [role |-> role]
    OBVIOUS
  <2>3. PICK c : c = Update("members", page.co, id, body)
    OBVIOUS
  <2>4. KeptCall(server, page, Call("update", "members", page.co, id, body))
    BY <1>2, <2>2, CompanyCall
  <2>5. Acts(Sends(page, c)) /\ KeptCall(server, page, c)
    BY <2>1, <2>2, <2>3, <2>4 DEF Update
  <2> QED BY <1>1, <2>5, AlikeActs
<1>6. CASE AskMember
  <2>1. ASSUME NEW what \in {"members", "invitations"}, NEW id, Ask(what, id) PROVE DefaultsKept'
    <3>1. PICK q : q = [page EXCEPT !.asked = what, !.deleting = id]
      OBVIOUS
    <3>2. what # "account"
      OBVIOUS
    <3>3. Alike(q)
      BY <1>1, <3>1, <3>2, AlikeAsked, Zenon
    <3> QED BY <1>1, <2>1, <3>1, <3>3, AlikeActs DEF Ask
  <2> QED BY <1>6, <2>1 DEF AskMember
<1>7. CASE RemoveMember
  <2>1. page.asked \in {"members", "invitations"}
        /\ Acts(Sends(Closed(page), Call("remove", page.asked, page.co, page.deleting, NoBody)))
    BY <1>7, Zenon DEF RemoveMember, Delete
  <2>2. PICK body, kind, c : body = NoBody /\ kind = page.asked /\ c = Call("remove", kind, page.co, page.deleting, body)
    OBVIOUS
  <2>3. KeptCall(server, Closed(page), c)
    BY <1>3, <2>1, <2>2, CompanyCall
  <2> QED BY <1>1, <2>1, <2>2, <2>3, AlikeActs
<1>8. CASE Cancel
  BY <1>1, <1>8, AlikeActs DEF Cancel
<1> QED BY <1>4, <1>5, <1>6, <1>7, <1>8 DEF MembersEvent

\* The accounts that are shown when nothing is being saved.
LEMMA ShownAccounts ==
  ASSUME DefaultsKept, Ready, "bankSaving" \notin page.busy
  PROVE  page.co \in 1..Founded(server) /\ (WellKept(page.accounts) \/ Lost(server, page.co))
BY DEF DefaultsKept, KeptShown, Ready, Saving

LEMMA SavesKept ==
  ASSUME Shaped, DefaultsKept, Ready, "bankSaving" \notin page.busy, page.asked = "none",
         NEW accounts, WellKept(page.accounts) => WellKept(accounts), NEW gone, NEW edited,
         Acts(SaveAccounts(page, accounts, gone, edited))
  PROVE  DefaultsKept'
<1>1. page.at = "company" /\ Alike(page)
  BY AlikePage DEF Ready
<1>2. PICK q : q = [page EXCEPT !.busy = page.busy \cup {"bankSaving"}]
  OBVIOUS
<1>3. Alike(q)
  BY <1>1, <1>2 DEF Alike, Staying, CompanyFields
<1>4. PICK c : c = Update("companies", Me, page.co, [accounts |-> accounts, gone |-> gone, edited |-> edited])
  OBVIOUS
<1>5. q.co = page.co /\ q.co \in 1..Founded(server) /\ (WellKept(accounts) \/ Lost(server, q.co))
  BY <1>3, ShownAccounts DEF Alike, Staying
<1>6. KeptCall(server, q, c)
  BY <1>4, <1>5, AccountsCall
<1>7. Acts(Sends(q, c))
  BY <1>2, <1>4 DEF SaveAccounts, Busy
<1> QED BY <1>1, <1>3, <1>6, <1>7, AlikeActs

LEMMA RemovalKept == ASSUME Shaped, DefaultsKept, Ready, RemoveAccount PROVE DefaultsKept'
<1>1. page.at = "company" /\ Alike(page) /\ DOMAIN page = CompanyFields
  BY AlikePage DEF Ready
<1>2. page.asked = "account" /\ "bankSaving" \notin page.busy
  BY <1>1, Zenon DEF RemoveAccount, Alike
<1> DEFINE left == Without(page.accounts, page.deleting)
           heir == IF left # <<>> /\ \E a \in Accounts : a.id = page.deleting /\ a.isDefault THEN left[1].id ELSE None
           kept == Flagged(left, heir)
           p == [Closed(page) EXCEPT
                   !.accounts = Flagged(@, heir),
                   !.company = IF page.aliased THEN <<[@[1] EXCEPT !.accounts = Flagged(@, heir)]>> ELSE @]
<1>3. Acts(SaveAccounts(p, kept, page.deleting, FALSE))
  BY Zenon DEF RemoveAccount
<1>4. WellKept(page.accounts) => WellKept(kept)
  BY RemovedKept DEF Accounts
<1>5. DOMAIN p = DOMAIN Closed(page) /\ \A f \in DOMAIN Closed(page) : f \notin {"accounts", "company"} => p[f] = Closed(page)[f]
  <2> HIDE DEF heir
  <2> QED OBVIOUS
<1> HIDE DEF p, kept, heir, left
<1>6. PICK closed : closed = Closed(page)
  OBVIOUS
<1>7. /\ DOMAIN closed = CompanyFields /\ closed["at"] = "company" /\ closed["co"] = page.co
      /\ closed["asked"] = "none"
  <2>1. closed["asked"] = "none"
    BY <1>1, <1>6 DEF Closed, CompanyFields
  <2>2. Alike(closed)
    BY <1>1, <1>6, AlikeClosed
  <2> QED BY <2>1, <2>2 DEF Alike, Staying
<1>8. PICK q : q = Busy(p, "bankSaving")
  OBVIOUS
<1>9. PICK r : r = p
  OBVIOUS
<1>10. /\ DOMAIN r = CompanyFields /\ r["at"] = closed["at"] /\ r["co"] = closed["co"] /\ r["asked"] = closed["asked"]
  BY <1>5, <1>6, <1>7, <1>9 DEF CompanyFields
<1>12. q = [r EXCEPT !.busy = r.busy \cup {"bankSaving"}]
  BY <1>8, <1>9 DEF Busy
<1>13. Staying(q) /\ q.asked = "none" /\ "bankSaving" \in q.busy
  BY <1>7, <1>10, <1>12 DEF Staying, CompanyFields
<1>14. PICK c : c = Update("companies", Me, page.co, [accounts |-> kept, gone |-> page.deleting, edited |-> FALSE])
  OBVIOUS
<1>15. KeptCall(server, q, c) /\ IsBank(c) /\ c.mine = "tab" /\ q.co \in 1..Founded(server)
  <2>1. q.co = page.co /\ q.co \in 1..Founded(server) /\ (WellKept(kept) \/ Lost(server, q.co))
    BY <1>2, <1>4, <1>13, ShownAccounts DEF Staying
  <2> QED BY <1>14, <2>1, AccountsCall
<1>16. Acts(Sends(q, c))
  BY <1>3, <1>8, <1>14 DEF SaveAccounts
<1>17. /\ Sending /\ page' = q /\ net' = Append(net, c) /\ \A i \in DOMAIN net' \ DOMAIN net : net'[i] = c
  BY <1>1, <1>13, <1>16, ActsSends DEF Staying, CompanyFields
<1>18. \E i \in DOMAIN net' : net'[i] = c
  BY <1>17 DEF Shaped
<1>19. KeptShown(server, q, net')
  BY <1>13, <1>15, <1>18 DEF KeptShown, Saving, Staying
<1> QED BY <1>1, <1>13, <1>15, <1>17, <1>19, StayingKept

LEMMA SettingsKept == ASSUME Shaped, DefaultsKept, SettingsEvent PROVE DefaultsKept'
<1>1. Ready /\ page.at = "company" /\ Alike(page) /\ Alike(Closed(page))
  <2>1. Ready /\ page.at = "company"
    BY DEF SettingsEvent, InTab, Ready
  <2> QED BY <2>1, AlikePage, AlikeClosed
<1>2. \A x, y : DOMAIN [name |-> x, flag |-> y] \cap {"accounts", "id", "owner", "pdf", "status", "data"} = {}
  OBVIOUS
<1>3. DOMAIN NoBody \cap {"accounts", "id", "owner", "pdf", "status", "data"} = {}
  BY DEF NoBody
<1>4. ASSUME NEW what, NEW id, Ask(what, id), what = "account" => "bankSaving" \notin page.busy PROVE DefaultsKept'
  <2>1. PICK q : q = [page EXCEPT !.asked = what, !.deleting = id]
    OBVIOUS
  <2>2. Alike(q)
    BY <1>1, <1>4, <2>1, AlikeAsked, Zenon
  <2> QED BY <1>1, <1>4, <2>1, <2>2, AlikeActs DEF Ask
<1>5. ASSUME NEW flag, flag # "bankSaving", SaveFields(flag) PROVE DefaultsKept'
  <2>1. PICK called : Acts(Sends(Busy(page, flag), Update("companies", Me, page.co, [name |-> called, flag |-> flag])))
    BY <1>5, Zenon DEF SaveFields
  <2>2. PICK body : body = [name |-> called, flag |-> flag]
    OBVIOUS
  <2>3. PICK p, c : p = Busy(page, flag) /\ c = Update("companies", Me, page.co, body)
    OBVIOUS
  <2>4. Alike(p)
    BY <1>1, <1>5, <2>3, AlikeBusy
  <2>5. body.flag # "bankSaving"
    BY <1>5, <2>2
  <2>6. KeptCall(server, p, Call("update", "companies", Me, page.co, body))
    BY <1>2, <2>2, <2>5, CompanyCall
  <2>7. Acts(Sends(p, c)) /\ KeptCall(server, p, c)
    BY <2>1, <2>2, <2>3, <2>6 DEF Update
  <2> QED BY <1>1, <2>4, <2>7, AlikeActs
<1>6. CASE RemoveAccount
  BY <1>1, <1>6, RemovalKept
<1>7. CASE DeleteCompany
  <2>1. PICK body, p, c : body = NoBody /\ p = Busy(Closed(page), "deleting")
                          /\ c = Call("remove", "companies", Me, page.co, body)
    OBVIOUS
  <2>2. Acts(Sends(p, c))
    BY <1>7, <2>1, Zenon DEF DeleteCompany, Delete
  <2>3. Alike(p)
    BY <1>1, <2>1, AlikeBusy
  <2>4. KeptCall(server, p, c)
    BY <1>3, <2>1, CompanyCall
  <2> QED BY <1>1, <2>2, <2>3, <2>4, AlikeActs
<1>8. CASE Cancel
  BY <1>1, <1>8, AlikeActs DEF Cancel
<1>9. CASE CompanyForm \/ TranslationsForm
  BY <1>5, <1>9 DEF CompanyForm, TranslationsForm
<1>10. CASE DangerZone
  BY <1>4, <1>10 DEF DangerZone
<1>11. CASE page.asked = "none" /\ "bankSaving" \notin page.busy /\ AddAccount
  <2>1. PICK n \in 1..MaxAccounts \ {a.id : a \in Accounts} : Acts(SaveAccounts(page, WithAccount(n), None, FALSE))
    BY <1>11, Zenon DEF AddAccount
  <2>2. PICK d \in BOOLEAN : d = (page.accounts = <<>>)
    OBVIOUS
  <2>3. WithAccount(n) = Append(page.accounts, [id |-> n, isDefault |-> d])
    BY <2>2, Zenon DEF WithAccount
  <2>4. n \in 1..MaxAccounts /\ \A x \in Range(page.accounts) : x.id # n
    BY <2>1 DEF Accounts
  <2>5. d <=> page.accounts = <<>>
    BY <2>2, Zenon
  <2>6. WellKept(page.accounts) => WellKept(WithAccount(n))
    BY <2>3, <2>4, <2>5, AddedKept
  <2> QED BY <1>1, <1>11, <2>1, <2>6, SavesKept
<1>12. CASE page.asked = "none" /\ "bankSaving" \notin page.busy /\ AccountRow
  <2>1. PICK a \in Accounts : StartEdit(a) \/ SetDefaultAccount(a) \/ Ask("account", a.id)
    BY <1>12, Zenon DEF AccountRow
  <2>2. CASE StartEdit(a)
    <3>1. PICK q : q = [page EXCEPT !.editing = a.id]
      OBVIOUS
    <3>2. Alike(q)
      BY <1>1, <3>1, AlikeEditing
    <3> QED BY <1>1, <2>2, <3>1, <3>2, AlikeActs DEF StartEdit
  <2>3. CASE SetDefaultAccount(a)
    <3> DEFINE accounts == [i \in DOMAIN page.accounts |->
                              [page.accounts[i] EXCEPT !.isDefault = page.accounts[i].id = a.id]]
    <3>1. Acts(SaveAccounts(page, accounts, None, FALSE))
      BY <2>3, Zenon DEF SetDefaultAccount
    <3>2. WellKept(page.accounts) => WellKept(accounts)
      BY DefaultKept DEF Accounts
    <3> HIDE DEF accounts
    <3> QED BY <1>1, <1>12, <3>1, <3>2, SavesKept
  <2>4. CASE Ask("account", a.id)
    BY <1>4, <1>12, <2>4
  <2> QED BY <2>1, <2>2, <2>3, <2>4
<1>13. CASE CancelEdit
  <2>1. PICK q : q = [page EXCEPT !.editing = None]
    OBVIOUS
  <2>2. Alike(q)
    BY <1>1, <2>1, AlikeEditing
  <2> QED BY <1>1, <1>13, <2>1, <2>2, AlikeActs DEF CancelEdit
<1>14. CASE page.asked = "none" /\ "bankSaving" \notin page.busy /\ EditAccount
  BY <1>1, <1>14, SavesKept DEF EditAccount
<1> QED BY <1>6, <1>7, <1>8, <1>9, <1>10, <1>11, <1>12, <1>13, <1>14, Zenon DEF SettingsEvent, Free

LEMMA CompanyKept ==
  ASSUME Shaped, DefaultsKept, "hop" \notin scope.uses, CompanyEvent
  PROVE  DefaultsKept'
<1>1. CASE OpenTab
  <2>1. net = <<>> /\ Ready /\ page.asked = "none"
    BY <1>1 DEF OpenTab
  <2>2. PICK tab : Takes(Stay(MountTab(tab)), Deaf(net, "page"))
    BY <1>1, Zenon DEF OpenTab
  <2>3. PICK q : q = MountTab(tab)
    OBVIOUS
  <2>4. DOMAIN page = CompanyFields /\ page.at = "company"
    BY <2>1, AlikePage DEF Ready
  <2>5. PICK accounts : accounts = page.company[1].accounts
    OBVIOUS
  <2>6. q = [page EXCEPT !.tab = tab, !.editing = None, !.busy = {}, !.accounts = accounts, !.aliased = TRUE]
    BY <2>3, <2>5 DEF MountTab
  <2>7. /\ DOMAIN q = CompanyFields /\ q["at"] = page["at"] /\ q["co"] = page["co"] /\ q["company"] = page["company"]
        /\ q["accounts"] = accounts /\ q["busy"] = {}
    BY <2>4, <2>6 DEF CompanyFields
  <2>8. page' = q /\ server' = server /\ net' = Deaf(net, "page") \o <<>>
    BY <2>2, <2>3 DEF Takes, Stay, Step
  <2>9. DOMAIN net' = {}
    <3>1. DOMAIN net = {}
      BY <2>1
    <3>2. PICK d : d = Deaf(net, "page")
      OBVIOUS
    <3>3. DOMAIN d = {} /\ d = [i \in {} |-> d[i]]
      BY <3>1, <3>2 DEF Deaf
    <3>4. d = <<>>
      BY <3>3
    <3> QED BY <2>8, <3>2, <3>4
  <2>10. page.co \in 1..Founded(server) /\ (WellKept(accounts) \/ Lost(server, page.co))
    <3>1. ~Saving(page, net)
      BY <2>1 DEF Saving
    <3> QED BY <2>1, <2>5, <3>1 DEF DefaultsKept, KeptShown, Ready
  <2>11. KeptShown(server, q, net')
    BY <2>4, <2>5, <2>7, <2>10 DEF KeptShown
  <2> QED BY <2>8, <2>9, <2>11 DEF DefaultsKept
<1> QED BY <1>1, MembersKept, SettingsKept DEF CompanyEvent

-----------------------------------------------------------------------------
(* The server answers a call, and the companies it has                      *)

LEMMA CompanyIs ==
  ASSUME NEW id, NEW owner, NEW body
  PROVE  LET r == Row("companies", id, owner, body) IN
         /\ {"id", "owner", "accounts"} \subseteq DOMAIN r
         /\ r.id = IF "id" \in DOMAIN body THEN body.id ELSE id
         /\ r.accounts = IF "accounts" \in DOMAIN body THEN body.accounts ELSE <<>>
         /\ r.owner = IF "owner" \in DOMAIN body THEN body.owner ELSE owner
<1> DEFINE a == [id |-> id, owner |-> owner, name |-> "a", isDefault |-> FALSE]
           b == [accounts |-> <<>>]
<1>1. Blank("companies") = b
  BY DEF Blank
<1>2. PICK m : m = Extended(a, b)
  OBVIOUS
<1>3. /\ DOMAIN m = {"id", "owner", "name", "isDefault", "accounts"}
      /\ m["id"] = id /\ m["owner"] = owner /\ m["accounts"] = <<>>
  BY <1>2 DEF Extended
<1>4. PICK r : r = Patched(m, body)
  OBVIOUS
<1>5. DOMAIN r = DOMAIN m /\ \A f \in DOMAIN m : r[f] = IF f \in DOMAIN body THEN body[f] ELSE m[f]
  BY <1>4 DEF Patched
<1>6. Row("companies", id, owner, body) = r
  BY <1>1, <1>2, <1>4 DEF Row
<1> QED BY <1>3, <1>5, <1>6

LEMMA NoneKept == WellKept(<<>>)
BY DEF WellKept, OneDefault

\* The server goes on.
Onward(sv, after) ==
  /\ Founded(sv) \in Nat /\ Founded(after) \in Nat /\ Founded(sv) <= Founded(after)
  /\ \A id : Lost(sv, id) => Lost(after, id)

LEMMA OnwardIs ==
  ASSUME NEW sv, NEW after, Onward(sv, after)
  PROVE  /\ \A x : CompanyRow(sv, x) => CompanyRow(after, x)
         /\ \A c : KeptBody(sv, c) => KeptBody(after, c)
         /\ \A c : KeptAnswer(sv, c) => KeptAnswer(after, c)
         /\ \A p, c : KeptHeard(sv, p, c) => KeptHeard(after, p, c)
         /\ \A p, queue : KeptShown(sv, p, queue) => KeptShown(after, p, queue)
<1>1. \A id : id \in 1..Founded(sv) => id \in 1..Founded(after)
  BY DEF Onward
<1>2. \A id : Lost(sv, id) => Lost(after, id)
  BY DEF Onward
<1>3. \A x : CompanyRow(sv, x) => CompanyRow(after, x)
  BY <1>1 DEF CompanyRow
<1>4. \A c : KeptBody(sv, c) => KeptBody(after, c)
  BY <1>1, <1>2 DEF KeptBody
<1>5. \A c : KeptAnswer(sv, c) => KeptAnswer(after, c)
  BY <1>2, <1>3 DEF KeptAnswer
<1>6. \A p, c : KeptHeard(sv, p, c) => KeptHeard(after, p, c)
  BY <1>1 DEF KeptHeard
<1>7. \A p, queue : KeptShown(sv, p, queue) => KeptShown(after, p, queue)
  BY <1>1, <1>2 DEF KeptShown
<1> QED BY <1>3, <1>4, <1>5, <1>6, <1>7

LEMMA FoundCompany ==
  ASSUME KeptServer(server), NEW c, c.kind = "companies"
  PROVE  \/ Found(c) = <<>> /\ (c.co = Me => \A r \in Range(server.rows.companies) : r.id # c.id)
         \/ \E r \in Range(server.rows.companies) : r.id = c.id /\ Found(c) = <<r>>
<1> DEFINE named == {r \in Range(server.rows[c.kind]) : r.id = c.id /\ (r.owner = c.co \/ c.kind = "documents")}
<1>1. server.rows[c.kind] = server.rows.companies
  OBVIOUS
<1>2. \A r : r \in named <=> r \in Range(server.rows.companies) /\ r.id = c.id /\ c.co = Me
  BY <1>1 DEF KeptServer, CompanyRow
<1>3. Found(c) = IF named = {} THEN <<>> ELSE <<CHOOSE r \in named : TRUE>>
  BY Zenon DEF Found
<1> HIDE DEF named
<1>4. CASE named = {}
  BY <1>2, <1>3, <1>4
<1>5. CASE named # {}
  <2>1. PICK x \in named : x = CHOOSE r \in named : TRUE
    BY <1>5
  <2> QED BY <1>2, <1>3, <1>5, <2>1
<1> QED BY <1>4, <1>5

\* The companies that a handler leaves.
Keeps(rows, born) ==
  /\ rows \in Seq(Range(rows))
  /\ \A x \in Range(rows) :
       /\ {"id", "owner", "accounts"} \subseteq DOMAIN x /\ x.owner = Me /\ WellKept(x.accounts)
       /\ \/ \E r \in Range(server.rows.companies) : r.id = x.id
          \/ born = 1 /\ x.id = Founded(server) + 1

LEMMA KeptFlags ==
  ASSUME KeptServer(server), NEW e, NEW row, e = Exclusive(server.rows.companies, row)
  PROVE  Keeps(e, 0)
<1>1. /\ e \in Seq(Range(e))
      /\ \A x \in Range(e) : \E r \in Range(server.rows.companies) :
           DOMAIN x = DOMAIN r /\ \A f \in DOMAIN r : f # "isDefault" => x[f] = r[f]
  BY ExclusiveIs DEF KeptServer
<1>2. ASSUME NEW x \in Range(e)
      PROVE  /\ {"id", "owner", "accounts"} \subseteq DOMAIN x /\ x.owner = Me /\ WellKept(x.accounts)
             /\ \E r \in Range(server.rows.companies) : r.id = x.id
  <2>1. PICK r \in Range(server.rows.companies) :
          DOMAIN x = DOMAIN r /\ \A f \in DOMAIN r : f # "isDefault" => x[f] = r[f]
    BY <1>1
  <2>2. CompanyRow(server, r)
    BY DEF KeptServer
  <2>3. x.id = r.id /\ x.owner = r.owner /\ x.accounts = r.accounts
    BY <2>1, <2>2 DEF CompanyRow
  <2> QED BY <2>1, <2>2, <2>3 DEF CompanyRow
<1> QED BY <1>1, <1>2 DEF Keeps

LEMMA KeepsCreated ==
  ASSUME KeptServer(server), NEW c, c.kind = "companies", c.op = "create", KeptBody(server, c)
  PROVE  /\ Keeps(Created(c), 1)
         /\ {"id", "owner", "accounts"} \subseteq DOMAIN NewRow(c) /\ NewRow(c).owner = Me /\ WellKept(NewRow(c).accounts)
         /\ NewRow(c).id = Founded(server) + 1
<1>1. PICK new, id, body : new = Row("companies", id, Me, body) /\ id = NewId("companies") /\ body = c.body
  OBVIOUS
<1>2. DOMAIN body \cap {"id", "owner", "accounts"} = {} /\ c.co = Me
  BY <1>1 DEF KeptBody, IsBank
<1>3. {"id", "owner", "accounts"} \subseteq DOMAIN new /\ new.id = id /\ new.owner = Me /\ new.accounts = <<>>
  <2>1. "id" \notin DOMAIN body /\ "owner" \notin DOMAIN body /\ "accounts" \notin DOMAIN body
    BY <1>2
  <2> QED BY <1>1, <2>1, CompanyIs
<1>4. id = Founded(server) + 1 /\ WellKept(new.accounts)
  BY <1>1, <1>3, NoneKept DEF NewId, Founded
<1>5. NewRow(c) = new
  BY <1>1, <1>2 DEF NewRow
<1>6. PICK a, b : a = Exclusive(server.rows.companies, new) /\ b = <<new>>
  OBVIOUS
<1>7. Keeps(a, 0)
  BY <1>6, KeptFlags
<1>8. b \in Seq(Range(b)) /\ DOMAIN b = {1} /\ b[1] = new
  BY <1>6 DEF Range
<1>9. PICK s : s = a \o b
  OBVIOUS
<1>10. a \in Seq(Range(a)) /\ s \in Seq(Range(s)) /\ \A i \in DOMAIN s : (\E k \in DOMAIN a : s[i] = a[k]) \/ s[i] = new
  BY <1>7, <1>8, <1>9, Joined DEF Keeps
<1>11. \A x \in Range(s) : x \in Range(a) \/ x = new
  BY <1>10 DEF Range
<1>12. Created(c) = s
  <2>1. Created(c) = Append(a, new)
    BY <1>5, <1>6 DEF Created
  <2> QED BY <1>6, <1>9, <1>10, <2>1
<1>13. Keeps(s, 1)
  <2>1. ASSUME NEW x \in Range(s)
        PROVE  /\ {"id", "owner", "accounts"} \subseteq DOMAIN x /\ x.owner = Me /\ WellKept(x.accounts)
               /\ (\E r \in Range(server.rows.companies) : r.id = x.id) \/ x.id = Founded(server) + 1
    <3>1. CASE x \in Range(a)
      BY <1>7, <3>1 DEF Keeps
    <3>2. CASE x = new
      BY <1>3, <1>4, <3>2
    <3> QED BY <1>11, <3>1, <3>2
  <2> QED BY <1>10, <2>1 DEF Keeps
<1> QED BY <1>3, <1>4, <1>5, <1>12, <1>13

LEMMA KeepsChanged ==
  ASSUME KeptServer(server), NEW c, c.kind = "companies", c.op = "update", KeptBody(server, c), Found(c) # <<>>,
         NEW row, row = Patched(Found(c)[1], Accepted(c))
  PROVE  Keeps(Changed(c), 0) /\ CompanyRow(server, row) /\ row.id = c.id
<1>1. PICK r \in Range(server.rows.companies) : r.id = c.id /\ Found(c) = <<r>>
  BY FoundCompany
<1>2. PICK body : body = c.body
  OBVIOUS
<1>3. Accepted(c) = body /\ Found(c)[1] = r
  BY <1>1, <1>2 DEF Accepted
<1>4. CompanyRow(server, r)
  BY DEF KeptServer
<1>5. DOMAIN body \cap {"id", "owner"} = {} /\ ("accounts" \in DOMAIN body => WellKept(body.accounts))
  BY <1>1, <1>2 DEF KeptBody, IsBank, Lost
<1>6. row = Patched(r, body)
  BY <1>3
<1>7. /\ DOMAIN row = DOMAIN r /\ row.id = r.id /\ row.owner = r.owner
      /\ row.accounts = IF "accounts" \in DOMAIN body THEN body.accounts ELSE r.accounts
  BY <1>4, <1>5, <1>6 DEF Patched, CompanyRow
<1>8. CompanyRow(server, row)
  BY <1>4, <1>5, <1>7 DEF CompanyRow
<1>9. PICK a : a = Exclusive(server.rows.companies, row)
  OBVIOUS
<1>10. Keeps(a, 0)
  BY <1>9, KeptFlags
<1>11. PICK s : s = Replaced(a, row)
  OBVIOUS
<1>12. a \in Seq(Range(a)) /\ s \in Seq(Range(s)) /\ \A x \in Range(s) : x \in Range(a) \/ x = row
  BY <1>10, <1>11, ReplacedIs DEF Keeps
<1>13. Changed(c) = s
  BY <1>3, <1>6, <1>9, <1>11 DEF Changed
<1>14. ASSUME NEW x \in Range(s)
       PROVE  /\ {"id", "owner", "accounts"} \subseteq DOMAIN x /\ x.owner = Me /\ WellKept(x.accounts)
              /\ \E y \in Range(server.rows.companies) : y.id = x.id
  <2>1. CASE x \in Range(a)
    BY <1>10, <2>1 DEF Keeps
  <2>2. CASE x = row
    BY <1>1, <1>7, <1>8, <2>2 DEF CompanyRow
  <2> QED BY <1>12, <2>1, <2>2
<1>15. Keeps(s, 0)
  BY <1>12, <1>14 DEF Keeps
<1> QED BY <1>1, <1>7, <1>8, <1>13, <1>15

\* Rows that are picked, and what rows make of the server.
LEMMA KeepsPicked ==
  ASSUME NEW rows, NEW born, Keeps(rows, born), NEW S, NEW s, s = Picked(rows, S)
  PROVE  Keeps(s, born)
<1>1. s \in Seq(Range(s)) /\ \A x \in Range(s) : x \in Range(rows)
  BY PickedOf DEF Keeps
<1> QED BY <1>1 DEF Keeps

LEMMA KeepsIs ==
  ASSUME KeptServer(server), NEW sv, NEW born \in {0, 1}, Keeps(sv.rows.companies, born),
         sv.born.companies = server.born.companies + born
  PROVE  Onward(server, sv) /\ KeptServer(sv)
<1>1. PICK m \in Nat : m = server.born.companies
  BY DEF KeptServer
<1>2. /\ Founded(server) = 3 + m /\ Founded(sv) = 3 + (m + born) /\ sv.born.companies = m + born
  BY <1>1 DEF Founded, Given
<1>3. Founded(server) \in Nat /\ Founded(sv) \in Nat /\ Founded(server) <= Founded(sv) /\ sv.born.companies \in Nat
  BY <1>1, <1>2
<1>4. ASSUME NEW id, Lost(server, id) PROVE Lost(sv, id)
  <2>1. id \in 1..Founded(server) /\ \A r \in Range(server.rows.companies) : r.id # id
    BY <1>4 DEF Lost
  <2>2. id \in 1..Founded(sv) /\ id # Founded(server) + 1
    BY <1>3, <2>1
  <2> QED BY <2>1, <2>2 DEF Lost, Keeps
<1>5. ASSUME NEW x \in Range(sv.rows.companies) PROVE CompanyRow(sv, x)
  <2>1. x.id \in 1..Founded(sv)
    <3>1. CASE \E r \in Range(server.rows.companies) : r.id = x.id
      <4>1. x.id \in 1..Founded(server)
        BY <3>1 DEF KeptServer, CompanyRow
      <4> QED BY <1>3, <4>1
    <3>2. CASE born = 1 /\ x.id = Founded(server) + 1
      BY <1>1, <1>2, <3>2
    <3> QED BY <1>5, <3>1, <3>2 DEF Keeps
  <2> QED BY <1>5, <2>1 DEF Keeps, CompanyRow
<1>6. sv.rows.companies \in Seq(Range(sv.rows.companies))
  BY DEF Keeps
<1> QED BY <1>3, <1>4, <1>5, <1>6 DEF Onward, KeptServer

LEMMA ServedKept ==
  ASSUME Shaped, KeptServer(server), NEW c, IsCall(c), KeptBody(server, c), Handled(c).at = "done",
         NEW born, born = IF c.op = "create" THEN 1 ELSE 0,
         NEW sv, sv = Served(c, born)
  PROVE  /\ Onward(server, sv) /\ KeptServer(sv)
         /\ c.kind = "companies" /\ c.op \in {"get", "update", "create"} =>
              LET answer == Handled(c).answer
              IN  answer # <<>> /\ CompanyRow(sv, answer[1]) /\ (c.op # "create" => answer[1].id = c.id)
<1>1. c.kind \in Kinds /\ "companies" \in Kinds
  BY DEF IsCall, Kinds
<1>2. PICK rows, number : rows = Handled(c).rows /\ number = server.born[c.kind] + born
  OBVIOUS
<1>3. PICK after : after = [server EXCEPT !.rows[c.kind] = rows, !.born[c.kind] = number]
  OBVIOUS
<1>4. sv = WithCompany(c, after)
  BY <1>2, <1>3 DEF Served
<1>5. /\ DOMAIN after = {"rows", "born"} /\ DOMAIN after.rows = Kinds /\ DOMAIN after.born = Kinds
      /\ c.kind = "companies" => after.rows.companies = rows /\ after.born.companies = number
      /\ c.kind # "companies" => /\ after.rows.companies = server.rows.companies
                                 /\ after.born.companies = server.born.companies
  BY <1>1, <1>3 DEF Shaped
<1>6. /\ sv.born.companies = after.born.companies
      /\ \/ sv.rows.companies = after.rows.companies
         \/ \E S : sv.rows.companies = Picked(after.rows.companies, S)
      /\ c.kind # "companies" => sv = after
  <2>1. PICK k : k = "companies"
    OBVIOUS
  <2>2. /\ sv.born[k] = after.born[k]
        /\ sv.rows[k] = after.rows[k] \/ \E S : sv.rows[k] = Picked(after.rows[k], S)
        /\ c.kind # "companies" => sv = after
    BY <1>4, <1>5, <2>1, WithCompanyIs
  <2> QED BY <2>1, <2>2
<1>7. server.born.companies \in Nat /\ server.born.companies + 0 = server.born.companies
  BY DEF KeptServer
<1>8. Keeps(server.rows.companies, 0)
  BY DEF KeptServer, Keeps, CompanyRow
<1>9. CASE c.kind # "companies"
  <2>1. Keeps(sv.rows.companies, 0) /\ sv.born.companies = server.born.companies + 0
    BY <1>5, <1>6, <1>7, <1>8, <1>9
  <2> QED BY <1>9, <2>1, KeepsIs
<1>10. CASE c.kind = "companies"
  <2>1. sv.born.companies = server.born.companies + born /\ after.rows.companies = rows
    BY <1>2, <1>5, <1>6, <1>10
  <2>2. ~Refused(c) /\ c.op \in Operations(c.kind)
    BY HandledIs DEF IsCall
  <2>3. c.op \in {"list", "check", "next", "create", "update", "remove", "send", "peek", "get"}
    BY <1>10, <2>2 DEF Operations
  <2>4. c.op \notin {"list", "check", "next", "create"} => Found(c) # <<>>
    BY <2>2 DEF Refused
  <2>5. ASSUME Keeps(rows, born) PROVE Onward(server, sv) /\ KeptServer(sv)
    <3>1. Keeps(sv.rows.companies, born) /\ born \in {0, 1}
      BY <1>6, <2>1, <2>5, KeepsPicked
    <3> QED BY <2>1, <3>1, KeepsIs
  <2>6. CASE c.op \in {"list", "check", "next", "send"}
    <3>1. rows = server.rows.companies /\ born = 0
      BY <1>2, <1>10, <2>6, HandledIs
    <3> QED BY <1>8, <2>5, <2>6, <3>1
  <2>7. CASE c.op \in {"get", "peek"}
    <3>1. rows = server.rows.companies /\ born = 0 /\ Handled(c).answer = Found(c)
      BY <1>2, <1>10, <2>7, HandledIs
    <3>2. PICK r \in Range(server.rows.companies) : r.id = c.id /\ Found(c) = <<r>>
      BY <1>10, <2>4, <2>7, FoundCompany
    <3>3. Onward(server, sv) /\ KeptServer(sv)
      BY <1>8, <2>5, <3>1
    <3>4. CompanyRow(sv, r)
      BY <3>2, <3>3, OnwardIs DEF KeptServer
    <3>5. <<r>> # <<>> /\ <<r>>[1] = r
      OBVIOUS
    <3> QED BY <3>1, <3>2, <3>3, <3>4, <3>5
  <2>8. CASE c.op = "create"
    <3>1. rows = Created(c) /\ born = 1 /\ Handled(c).answer = <<NewRow(c)>>
      BY <1>2, <1>10, <2>8, HandledIs
    <3>2. /\ Keeps(rows, born)
          /\ {"id", "owner", "accounts"} \subseteq DOMAIN NewRow(c) /\ NewRow(c).owner = Me
          /\ WellKept(NewRow(c).accounts) /\ NewRow(c).id = Founded(server) + 1
      BY <1>10, <2>8, <3>1, KeepsCreated
    <3>3. Onward(server, sv) /\ KeptServer(sv)
      BY <2>5, <3>2
    <3>4. NewRow(c).id \in 1..Founded(sv)
      <4>1. PICK m \in Nat : m = server.born.companies
        BY <1>7
      <4>2. Founded(server) = 3 + m /\ Founded(sv) = 3 + (m + 1)
        BY <2>1, <3>1, <4>1 DEF Founded, Given
      <4> QED BY <3>2, <4>1, <4>2
    <3>5. PICK new : new = NewRow(c)
      OBVIOUS
    <3>6. CompanyRow(sv, new) /\ <<new>> # <<>> /\ <<new>>[1] = new
      BY <3>2, <3>4, <3>5 DEF CompanyRow
    <3> QED BY <2>8, <3>1, <3>3, <3>5, <3>6
  <2>9. CASE c.op = "update"
    <3>1. rows = Changed(c) /\ born = 0 /\ Handled(c).answer = <<Patched(Found(c)[1], Accepted(c))>>
      BY <1>2, <1>10, <2>9, HandledIs
    <3>2. PICK row : row = Patched(Found(c)[1], Accepted(c))
      OBVIOUS
    <3>3. Keeps(rows, 0) /\ CompanyRow(server, row) /\ row.id = c.id
      BY <1>10, <2>4, <2>9, <3>1, <3>2, KeepsChanged
    <3>4. Onward(server, sv) /\ KeptServer(sv)
      BY <2>5, <3>1, <3>3
    <3>5. CompanyRow(sv, row) /\ <<row>> # <<>> /\ <<row>>[1] = row
      BY <3>3, <3>4, OnwardIs
    <3> QED BY <3>1, <3>2, <3>3, <3>4, <3>5
  <2>10. CASE c.op = "remove"
    <3>1. rows = Removed(c) /\ born = 0
      BY <1>2, <1>10, <2>10, HandledIs
    <3>2. Keeps(rows, 0)
      BY <1>8, <1>10, <3>1, KeepsPicked DEF Removed, Without
    <3> QED BY <2>5, <2>10, <3>1, <3>2
  <2> QED BY <2>3, <2>6, <2>7, <2>8, <2>9, <2>10
<1> QED BY <1>9, <1>10

\* A call with another answer is kept as the one it was.
LEMMA AfterKept ==
  ASSUME NEW sv, NEW p, NEW c, NEW after, KeptBody(sv, c), KeptHeard(sv, p, c),
         after.op = c.op /\ after.kind = c.kind /\ after.co = c.co /\ after.id = c.id
         /\ after.body = c.body /\ after.mine = c.mine
  PROVE  KeptBody(sv, after) /\ KeptHeard(sv, p, after) /\ (IsBank(after) <=> IsBank(c))
<1>1. IsBank(after) <=> IsBank(c)
  BY DEF IsBank
<1>2. KeptBody(sv, after)
  BY <1>1 DEF KeptBody
<1>3. KeptHeard(sv, p, after)
  BY <1>1 DEF KeptHeard
<1> QED BY <1>1, <1>2, <1>3

\* The array of a save that is refused was of a company that is gone.
LEMMA RefusedBank ==
  ASSUME KeptServer(server), NEW c, KeptBody(server, c), IsBank(c), Refused(c)
  PROVE  Lost(server, c.id)
<1>1. c.kind = "companies" /\ c.op = "update" /\ c.co = Me /\ c.id \in 1..Founded(server)
  BY DEF KeptBody
<1>2. Found(c) = <<>>
  BY <1>1 DEF Refused, DocumentRefused, VehicleRefused, AdminRefused, MemberRefused
<1>3. \A r \in Range(server.rows.companies) : r.id # c.id
  <2>1. \A r : <<r>> # <<>>
    OBVIOUS
  <2> QED BY <1>1, <1>2, <2>1, FoundCompany
<1> QED BY <1>1, <1>3 DEF Lost

LEMMA ServeKept ==
  ASSUME Shaped, DefaultsKept, scope.fails = {}, NEW i \in DOMAIN net, Serve(i)
  PROVE  DefaultsKept'
<1>1. PICK c : c = net[i]
  OBVIOUS
<1>2. page' = page /\ \E at, answer : Replies(i, c, at, answer)
  BY <1>1, ServeIs
<1>3. PICK at, answer : Replies(i, c, at, answer)
  BY <1>2
<1>4. IsCall(c) /\ KeptServer(server) /\ KeptCall(server, page, c)
  BY <1>1 DEF Shaped, DefaultsKept
<1>5. PICK after : after = [c EXCEPT !.at = at, !.answer = answer]
  OBVIOUS
<1>6. /\ after.at = at /\ after.answer = answer
      /\ after.op = c.op /\ after.kind = c.kind /\ after.co = c.co /\ after.id = c.id
      /\ after.body = c.body /\ after.mine = c.mine
  BY <1>4, <1>5 DEF IsCall, Fields
<1>7. PICK sv : sv = server'
  OBVIOUS
<1>8. Onward(server, sv) /\ KeptServer(sv) /\ KeptAnswer(sv, after)
  <2>1. CASE at = "done" /\ Handled(c).at = "done" /\ answer = Handled(c).answer
             /\ server' = Served(c, IF c.op = "create" THEN 1 ELSE 0)
    <3>1. PICK born : born = IF c.op = "create" THEN 1 ELSE 0
      OBVIOUS
    <3>2. sv = Served(c, born)
      BY <1>7, <2>1, <3>1
    <3>3. KeptBody(server, c)
      BY <1>4 DEF KeptCall
    <3>4. /\ Onward(server, sv) /\ KeptServer(sv)
          /\ c.kind = "companies" /\ c.op \in {"get", "update", "create"} =>
               /\ Handled(c).answer # <<>> /\ CompanyRow(sv, Handled(c).answer[1])
               /\ c.op # "create" => Handled(c).answer[1].id = c.id
      BY <1>4, <2>1, <3>1, <3>2, <3>3, ServedKept
    <3>5. KeptAnswer(sv, after)
      BY <1>6, <2>1, <3>4 DEF KeptAnswer
    <3> QED BY <3>4, <3>5
  <2>2. CASE at = "failed" /\ server' = server /\ (Refused(c) \/ c.op \in scope.fails)
    <3>1. Refused(c)
      BY <2>2
    <3>2. IsBank(after) => Lost(server, after.id)
      BY <1>4, <1>6, <3>1, RefusedBank DEF KeptCall, IsBank
    <3>3. KeptAnswer(server, after)
      BY <1>6, <2>2, <3>2 DEF KeptAnswer
    <3>4. Onward(server, server)
      <4>1. PICK m \in Nat : m = server.born.companies
        BY <1>4 DEF KeptServer
      <4>2. Founded(server) \in Nat
        BY <4>1 DEF Founded, Given
      <4> QED BY <4>2 DEF Onward
    <3> QED BY <1>4, <1>7, <2>2, <3>3, <3>4
  <2> QED BY <1>3, <2>1, <2>2 DEF Replies
<1>9. KeptCall(sv, page, after)
  <2>1. KeptBody(sv, c) /\ KeptHeard(sv, page, c)
    BY <1>4, <1>8, OnwardIs DEF KeptCall
  <2>2. KeptBody(sv, after) /\ KeptHeard(sv, page, after)
    BY <1>6, <2>1, AfterKept
  <2> QED BY <1>8, <2>2 DEF KeptCall
<1>10. PICK N : N = net'
  OBVIOUS
<1>11. DOMAIN N = DOMAIN net /\ \A j \in DOMAIN net : N[j] = IF j = i THEN after ELSE net[j]
  <2>1. N = [net EXCEPT ![i] = after]
    BY <1>3, <1>5, <1>10 DEF Replies
  <2> QED BY <2>1, AnswerSet
<1>12. ASSUME NEW j \in DOMAIN N PROVE KeptCall(sv, page, N[j])
  <2>1. CASE j = i
    BY <1>9, <1>11, <2>1
  <2>2. CASE j # i
    <3>1. KeptCall(server, page, net[j])
      BY <1>11 DEF DefaultsKept
    <3>2. KeptCall(sv, page, net[j])
      BY <1>8, <3>1, OnwardIs DEF KeptCall
    <3> QED BY <1>11, <2>2, <3>2
  <2> QED BY <2>1, <2>2
<1>13. KeptShown(sv, page, N)
  <2>1. KeptShown(sv, page, net)
    BY <1>8, OnwardIs DEF DefaultsKept
  <2>2. Saving(page, net) => Saving(page, N)
    <3>1. ASSUME NEW j \in DOMAIN net PROVE (IsBank(N[j]) <=> IsBank(net[j])) /\ N[j].mine = net[j].mine
      <4>1. CASE j = i
        BY <1>1, <1>6, <1>11, <4>1 DEF IsBank
      <4>2. CASE j # i
        BY <1>11, <4>2
      <4> QED BY <4>1, <4>2
    <3> QED BY <1>11, <3>1 DEF Saving
  <2> QED BY <2>1, <2>2 DEF KeptShown
<1> QED BY <1>2, <1>7, <1>8, <1>10, <1>12, <1>13 DEF DefaultsKept

-----------------------------------------------------------------------------
(* A call leaves the queue, and the accounts of a company                   *)

\* The calls but one go on.
Others(i, queue) == \A j \in DOMAIN net \ {i} : \E k \in DOMAIN queue : queue[k] = net[j]

LEMMA OthersSave ==
  ASSUME NEW i, NEW queue, Others(i, queue), NEW p, Saving(p, net),
         i \notin DOMAIN net \/ ~(IsBank(net[i]) /\ net[i].mine = "tab")
  PROVE  Saving(p, queue)
<1>1. PICK j \in DOMAIN net : IsBank(net[j]) /\ net[j].mine = "tab"
  BY DEF Saving
<1>2. j \in DOMAIN net \ {i}
  BY <1>1
<1>3. PICK k \in DOMAIN queue : queue[k] = net[j]
  BY <1>2 DEF Others
<1> QED BY <1>1, <1>3 DEF Saving

LEMMA BodyMadeKept ==
  ASSUME Shaped, DefaultsKept, NEW i \in DOMAIN net, BodyMade(i)
  PROVE  DefaultsKept'
<1>1. PICK a, c, b : a = RemoveAt(net, i) /\ c = [net[i] EXCEPT !.at = "sent"] /\ b = <<c>>
  OBVIOUS
<1>2. page' = page /\ server' = server /\ net' = Append(a, c)
  BY <1>1 DEF BodyMade
<1>3. /\ a \in Seq(Range(a)) /\ \A k \in DOMAIN a : \E j \in DOMAIN net : a[k] = net[j]
      /\ Others(i, a)
  BY <1>1, RemoveAtIs DEF Shaped, Others
<1>4. IsCall(net[i]) /\ KeptCall(server, page, net[i])
  BY DEF Shaped, DefaultsKept
<1>5. /\ c.at = "sent" /\ c.op = net[i].op /\ c.kind = net[i].kind /\ c.co = net[i].co /\ c.id = net[i].id
      /\ c.body = net[i].body /\ c.mine = net[i].mine
  BY <1>1, <1>4 DEF IsCall, Fields
<1>6. KeptCall(server, page, c) /\ (IsBank(c) <=> IsBank(net[i]))
  <2>1. KeptBody(server, c) /\ KeptHeard(server, page, c) /\ (IsBank(c) <=> IsBank(net[i]))
    BY <1>4, <1>5, AfterKept DEF KeptCall
  <2>2. KeptAnswer(server, c)
    BY <1>5 DEF KeptAnswer
  <2> QED BY <2>1, <2>2 DEF KeptCall
<1>7. b \in Seq(Range(b)) /\ DOMAIN b = {1} /\ b[1] = c
  BY <1>1 DEF Range
<1>8. PICK N : N = a \o b
  OBVIOUS
<1>9. /\ \A k \in DOMAIN N : (\E j \in DOMAIN a : N[k] = a[j]) \/ N[k] = c
      /\ Within(a, N) /\ Within(b, N)
  BY <1>3, <1>7, <1>8, Joined, JoinedKeeps
<1>10. net' = N
  <2>1. a \in Seq(Range(a) \cup {c}) /\ c \in Range(a) \cup {c}
    BY <1>3
  <2>2. Append(a, c) = a \o <<c>>
    BY <2>1, AppendIsConcat, Zenon
  <2> QED BY <1>1, <1>2, <1>8, <2>2
<1>11. \A k \in DOMAIN N : KeptCall(server, page, N[k])
  <2>1. \A k \in DOMAIN a : KeptCall(server, page, a[k])
    BY <1>3 DEF DefaultsKept
  <2> QED BY <1>6, <1>9, <2>1
<1>12. KeptShown(server, page, N)
  <2>1. Saving(page, net) => Saving(page, N)
    <3>1. CASE IsBank(c) /\ c.mine = "tab"
      <4>1. \E k \in DOMAIN N : N[k] = c
        BY <1>7, <1>9 DEF Within
      <4> QED BY <3>1, <4>1 DEF Saving
    <3>2. CASE ~(IsBank(c) /\ c.mine = "tab")
      <4>1. Saving(page, net) => Saving(page, a)
        BY <1>3, <1>5, <1>6, <3>2, OthersSave
      <4>2. Saving(page, a) => Saving(page, N)
        BY <1>9 DEF Saving, Within
      <4> QED BY <4>1, <4>2
    <3> QED BY <3>1, <3>2
  <2> QED BY <2>1 DEF DefaultsKept, KeptShown
<1> QED BY <1>2, <1>10, <1>11, <1>12 DEF DefaultsKept

\* The calls that follow on an answer write no accounts; on one the page of a company
\* hears none follows.
Followed(c, x) == Harmless(x) /\ DOMAIN x = Fields

LEMMA DocumentThenKept ==
  ASSUME NEW c
  PROVE  DocumentThen(c) = <<>> \/ \E x : DocumentThen(c) = <<x>> /\ Followed(c, x)
<1>1. CASE IsPeek(c) /\ PdfData(c) # NoData
  <2>0. PICK data : data = PdfData(c)
    OBVIOUS
  <2>1. PICK body : body = [pdf |-> data]
    OBVIOUS
  <2>2. PICK x : x = Reading(Update("documents", c.co, c.id, body))
    OBVIOUS
  <2>3. Followed(c, x)
    BY <2>1, <2>2 DEF Followed, Harmless, IsBank, Reading, Update, Call, Fields
  <2>4. DocumentThen(c) = <<x>>
    BY <1>1, <2>0, <2>1, <2>2, Zenon DEF DocumentThen, UploadPdf, IsPeek, IsUpload, IsStatus
  <2> QED BY <2>3, <2>4
<1>2. CASE ~(IsPeek(c) /\ PdfData(c) # NoData) /\ (IsUpload(c) \/ IsStatus(c)) /\ c.at = "done"
  <2>0. PICK f : f = Fetch("documents", c.co, c.id)
    OBVIOUS
  <2>1. PICK body : body = c.body
    OBVIOUS
  <2>2. PICK x : x = [f EXCEPT !.body = body]
    OBVIOUS
  <2>3. "accounts" \notin DOMAIN body
    BY <1>2, <2>1 DEF IsUpload, IsStatus
  <2>4. DOMAIN f = Fields /\ f.kind = "documents" /\ f.at = "sent"
    <3>1. PICK none : none = NoBody
      OBVIOUS
    <3>2. f = Call("get", "documents", c.co, c.id, none)
      BY <2>0, <3>1 DEF Fetch
    <3> QED BY <3>2 DEF Call, Fields
  <2>5. DOMAIN x = Fields /\ x.body = body /\ x.kind = "documents" /\ x.at = "sent"
    BY <2>2, <2>4 DEF Fields
  <2>6. Followed(c, x)
    BY <2>3, <2>5 DEF Followed, Harmless, IsBank
  <2>7. DocumentThen(c) = <<x>>
    BY <1>2, <2>0, <2>1, <2>2 DEF DocumentThen
  <2> QED BY <2>6, <2>7
<1>3. CASE ~(IsPeek(c) /\ PdfData(c) # NoData) /\ ~((IsUpload(c) \/ IsStatus(c)) /\ c.at = "done")
  BY <1>3 DEF DocumentThen
<1> QED BY <1>1, <1>2, <1>3

LEMMA BuilderThenKept ==
  ASSUME NEW c
  PROVE  BuilderThen(c) = <<>> \/ \E x : BuilderThen(c) = <<x>> /\ Followed(c, x)
<1>1. CASE c.at # "failed" /\ IsSave(c)
  <2>1. PICK body : body = [pdf |-> c.body.data, by |-> c.body.by]
    OBVIOUS
  <2>2. PICK x : x = Reading(Update("documents", c.co, c.id, body))
    OBVIOUS
  <2>3. Followed(c, x)
    BY <2>1, <2>2 DEF Followed, Harmless, IsBank, Reading, Update, Call, Fields
  <2>4. ~IsFresh(c) /\ ~IsAdded(c)
    BY <1>1 DEF IsSave, IsFresh, IsAdded
  <2>5. BuilderThen(c) = <<x>>
    BY <1>1, <2>1, <2>2, <2>4 DEF BuilderThen
  <2> QED BY <2>3, <2>5
<1>2. CASE c.at # "failed" /\ ~IsSave(c) /\ IsFresh(c) /\ c.kind = "companies"
  <2>1. PICK body : body = [resync |-> TRUE]
    OBVIOUS
  <2>2. PICK x : x = Update("companies", Me, c.id, body)
    OBVIOUS
  <2>3. Followed(c, x)
    BY <2>1, <2>2 DEF Followed, Harmless, IsBank, Update, Call, Fields
  <2>4. BuilderThen(c) = <<x>>
    BY <1>2, <2>1, <2>2 DEF BuilderThen
  <2> QED BY <2>3, <2>4
<1>3. CASE c.at # "failed" /\ ~IsSave(c) /\ IsAdded(c) /\ c.kind = "contractors"
  <2>1. PICK body : body = [buyer |-> c.answer[1].id]
    OBVIOUS
  <2>2. PICK x : x = Update("documents", c.co, c.body.for, body)
    OBVIOUS
  <2>3. Followed(c, x)
    BY <2>1, <2>2 DEF Followed, Harmless, IsBank, Update, Call, Fields
  <2>4. BuilderThen(c) = <<x>>
    BY <1>3, <2>1, <2>2 DEF BuilderThen
  <2> QED BY <2>3, <2>4
<1>4. CASE c.at = "failed" \/ (/\ ~IsSave(c) /\ ~(IsFresh(c) /\ c.kind = "companies")
                               /\ ~(IsAdded(c) /\ c.kind = "contractors"))
  BY <1>4 DEF BuilderThen
<1> QED BY <1>1, <1>2, <1>3, <1>4

LEMMA AdminThenKept ==
  ASSUME NEW c
  PROVE  AdminThen(c) = <<>> \/ \E x : AdminThen(c) = <<x>> /\ Followed(c, x)
<1>0. DOMAIN NoBody \cap {"accounts"} = {}
  BY DEF NoBody
<1>1. PICK body : body = NoBody
  OBVIOUS
<1>2. "accounts" \notin DOMAIN body
  BY <1>0, <1>1
<1>3. PICK x : x = Call("both", "users", Me, c.co, body)
  OBVIOUS
<1>4. Followed(c, x)
  BY <1>2, <1>3 DEF Followed, Harmless, IsBank, Call, Fields
<1> QED BY <1>1, <1>3, <1>4, Zenon DEF AdminThen

LEMMA NoneFollows ==
  ASSUME NEW c, IsCall(c), KeptCall(server, page, c), page.at = "company", c.mine # "none"
  PROVE  Following(c) = <<>>
<1>1. /\ c.kind \in {"companies", "members", "invitations"} /\ c.op # "peek"
      /\ c.op = "update" => DOMAIN c.body \cap {"pdf", "status", "data"} = {}
  BY DEF KeptCall, KeptHeard
<1>2. ~IsPeek(c) /\ ~IsUpload(c) /\ ~IsStatus(c) /\ ~IsSave(c) /\ ~IsFresh(c) /\ c.kind \notin {"contractors", "credits"}
  BY <1>1 DEF IsPeek, IsUpload, IsStatus, IsSave, IsFresh
<1>3. DocumentThen(c) = <<>> /\ BuilderThen(c) = <<>> /\ AdminThen(c) = <<>>
  <2>1. DocumentThen(c) = <<>>
    BY <1>2 DEF DocumentThen
  <2>2. BuilderThen(c) = <<>>
    BY <1>2 DEF BuilderThen
  <2>3. AdminThen(c) = <<>>
    BY <1>2 DEF AdminThen
  <2> QED BY <2>1, <2>2, <2>3
<1>4. PICK f : f = Following(c)
  OBVIOUS
<1>5. PICK b : b = <<>> \o <<>> \o <<>>
  OBVIOUS
<1>6. f = [k \in DOMAIN b |-> [b[k] EXCEPT !.mine = c.mine]] /\ DOMAIN b = {}
  BY <1>3, <1>4, <1>5 DEF Following
<1>7. f = <<>>
  BY <1>6
<1> QED BY <1>4, <1>7

LEMMA FollowingKept ==
  ASSUME NEW c, IsCall(c), KeptCall(server, page, c)
  PROVE  \A k \in DOMAIN Following(c) : /\ Harmless(Following(c)[k])
                                        /\ page.at = "company" => Following(c)[k].mine = "none"
<1>1. PICK x, y, z : x = DocumentThen(c) /\ y = BuilderThen(c) /\ z = AdminThen(c)
  OBVIOUS
<1>2. ASSUME NEW t, t = <<>> \/ \E e : t = <<e>> /\ Followed(c, e)
      PROVE  t \in Seq(Range(t)) /\ \A k \in DOMAIN t : Followed(c, t[k])
  <2>1. CASE t = <<>>
    BY <2>1
  <2>2. CASE \E e : t = <<e>> /\ Followed(c, e)
    <3>1. PICK e : t = <<e>> /\ Followed(c, e)
      BY <2>2
    <3>2. DOMAIN t = {1} /\ t[1] = e /\ t \in Seq({e}) /\ e \in Range(t)
      BY <3>1 DEF Range
    <3> QED BY <3>1, <3>2
  <2> QED BY <1>2, <2>1, <2>2
<1>3. /\ x \in Seq(Range(x)) /\ y \in Seq(Range(y)) /\ z \in Seq(Range(z))
      /\ \A k \in DOMAIN x : Followed(c, x[k])
      /\ \A k \in DOMAIN y : Followed(c, y[k])
      /\ \A k \in DOMAIN z : Followed(c, z[k])
  BY <1>1, <1>2, DocumentThenKept, BuilderThenKept, AdminThenKept
<1>4. PICK a : a = x \o y
  OBVIOUS
<1>5. a \in Seq(Range(a)) /\ \A k \in DOMAIN a : Followed(c, a[k])
  BY <1>3, <1>4, Joined
<1>6. PICK b : b = a \o z
  OBVIOUS
<1>7. b \in Seq(Range(b)) /\ \A k \in DOMAIN b : Followed(c, b[k])
  BY <1>3, <1>5, <1>6, Joined
<1>8. PICK f : f = Following(c)
  OBVIOUS
<1>9. f = [k \in DOMAIN b |-> [b[k] EXCEPT !.mine = c.mine]]
  BY <1>1, <1>4, <1>6, <1>8 DEF Following
<1>10. ASSUME NEW k \in DOMAIN f PROVE Harmless(f[k]) /\ f[k].mine = c.mine
  <2>1. PICK e, g : e = b[k] /\ g = [e EXCEPT !.mine = c.mine] /\ g = f[k]
    BY <1>9
  <2>2. Harmless(e) /\ DOMAIN e = Fields
    BY <1>7, <1>9, <2>1 DEF Followed
  <2>3. /\ g.mine = c.mine /\ g.op = e.op /\ g.kind = e.kind /\ g.co = e.co /\ g.body = e.body /\ g.at = e.at
    BY <2>1, <2>2 DEF Fields
  <2>4. Harmless(g)
    BY <2>2, <2>3 DEF Harmless, IsBank
  <2> QED BY <2>1, <2>3, <2>4
<1>11. page.at = "company" /\ c.mine # "none" => DOMAIN f = {}
  BY <1>8, NoneFollows
<1> QED BY <1>8, <1>10, <1>11

\* What the page of a company shows after an answer that loads nothing.
LEMMA AnswerShown ==
  ASSUME DefaultsKept, page.at = "company", NEW i \in DOMAIN net, NEW queue, Others(i, queue),
         NEW q, DOMAIN q = CompanyFields, q.at = page.at, q.co = page.co, q.loading = page.loading,
         q.error = page.error, q.asked = page.asked, q.busy \subseteq page.busy,
         q.company # <<>> =>
           page.company # <<>> /\ (WellKept(q.company[1].accounts) \/ q.company = page.company),
         \/ /\ q.accounts = page.accounts /\ ("bankSaving" \in page.busy => "bankSaving" \in q.busy)
            /\ ~(IsBank(net[i]) /\ net[i].mine = "tab")
         \/ page.company # <<>> => Lost(server, q.co) \/ (WellKept(q.accounts) /\ WellKept(q.company[1].accounts))
  PROVE  KeptShown(server, q, queue)
<1>1. KeptShown(server, page, net)
  BY DEF DefaultsKept
<1>2. q.asked = "account" => "bankSaving" \notin q.busy
  BY <1>1 DEF KeptShown
<1>3. ASSUME ~q.loading, ~q.error, q.company # <<>>
      PROVE  /\ q.co \in 1..Founded(server)
             /\ \/ WellKept(q.accounts) /\ WellKept(q.company[1].accounts)
                \/ Lost(server, q.co)
                \/ Saving(q, queue)
  <2>1. page.company # <<>> /\ (WellKept(q.company[1].accounts) \/ q.company = page.company)
    BY <1>3
  <2>2. /\ q.co \in 1..Founded(server)
        /\ \/ WellKept(page.accounts) /\ WellKept(page.company[1].accounts)
           \/ Lost(server, q.co)
           \/ Saving(page, net)
    BY <1>1, <1>3, <2>1 DEF KeptShown
  <2>3. CASE /\ q.accounts = page.accounts /\ ("bankSaving" \in page.busy => "bankSaving" \in q.busy)
             /\ ~(IsBank(net[i]) /\ net[i].mine = "tab")
    <3>1. CASE WellKept(page.accounts) /\ WellKept(page.company[1].accounts)
      BY <2>1, <2>2, <2>3, <3>1
    <3>2. CASE Lost(server, q.co)
      BY <2>2, <3>2
    <3>3. CASE Saving(page, net)
      <4>1. Saving(page, queue)
        BY <2>3, <3>3, OthersSave
      <4>2. Saving(q, queue)
        BY <2>3, <4>1 DEF Saving
      <4> QED BY <2>2, <4>2
    <3> QED BY <2>2, <3>1, <3>2, <3>3
  <2>4. CASE Lost(server, q.co) \/ (WellKept(q.accounts) /\ WellKept(q.company[1].accounts))
    BY <2>2, <2>4
  <2> QED BY <2>1, <2>3, <2>4
<1> QED BY <1>2, <1>3 DEF KeptShown

LEMMA AnsweredKept ==
  ASSUME Shaped, DefaultsKept, page.at = "company", NEW i \in DOMAIN net, NEW c, c = net[i],
         c.at \in {"done", "failed"}, c.mine # "none", NEW queue, Others(i, queue),
         NEW p, p = CompanyAnswered(page, c)
  PROVE  DOMAIN p = CompanyFields /\ p.at = "company" /\ p.co = page.co /\ KeptShown(server, p, queue)
<1>1. IsCall(c) /\ KeptBody(server, c) /\ KeptAnswer(server, c) /\ KeptHeard(server, page, c)
  BY DEF Shaped, DefaultsKept, KeptCall
<1>2. DOMAIN page = CompanyFields /\ (page.asked = "account" => "bankSaving" \notin page.busy)
  BY DEF DefaultsKept, KeptShown
<1>3. CASE c.op = "get" /\ c.at # "failed"
  <2>1. c.kind = "companies"
    BY <1>1, <1>3 DEF KeptHeard, IsCall, Operations
  <2>2. PICK answer : answer = c.answer
    OBVIOUS
  <2>3. CompanyRow(server, answer[1]) /\ answer[1].id = c.id
    BY <1>1, <1>3, <2>1, <2>2 DEF KeptAnswer
  <2>4. page.co \in 1..Founded(server)
    BY <1>1, <1>3, <2>3 DEF KeptHeard, CompanyRow
  <2>5. PICK accounts : accounts = answer[1].accounts
    OBVIOUS
  <2>6. p = [page EXCEPT !.loading = FALSE, !.company = answer, !.accounts = accounts, !.aliased = TRUE]
    BY <1>3, <2>2, <2>5 DEF CompanyAnswered
  <2>7. /\ DOMAIN p = CompanyFields /\ p["at"] = page["at"] /\ p["co"] = page["co"] /\ p["asked"] = page["asked"]
        /\ p["busy"] = page["busy"] /\ p["company"] = answer /\ p["accounts"] = accounts
    BY <1>2, <2>6 DEF CompanyFields
  <2>8. WellKept(p.accounts) /\ WellKept(p.company[1].accounts)
    BY <2>3, <2>5, <2>7 DEF CompanyRow
  <2>9. KeptShown(server, p, queue)
    BY <1>2, <2>4, <2>7, <2>8 DEF KeptShown
  <2> QED BY <2>7, <2>9
<1>4. CASE c.op = "get" /\ c.at = "failed"
  <2>1. p = [page EXCEPT !.loading = FALSE, !.error = TRUE]
    BY <1>4 DEF CompanyAnswered
  <2>2. /\ DOMAIN p = CompanyFields /\ p["at"] = page["at"] /\ p["co"] = page["co"] /\ p["asked"] = page["asked"]
        /\ p["busy"] = page["busy"] /\ p["error"] = TRUE
    BY <1>2, <2>1 DEF CompanyFields
  <2>3. KeptShown(server, p, queue)
    BY <1>2, <2>2 DEF KeptShown
  <2> QED BY <2>2, <2>3
<1>5. PICK copy : copy = IF c.at # "failed" /\ page.company # <<>> THEN c.answer ELSE page.company
  OBVIOUS
<1>6. ASSUME c.op = "update", c.kind = "companies", copy # <<>>
      PROVE  /\ page.company # <<>> /\ (c.at = "failed" => copy = page.company)
             /\ c.at # "failed" => WellKept(copy[1].accounts)
  <2>1. page.company # <<>>
    BY <1>5, <1>6
  <2>2. ASSUME c.at # "failed" PROVE WellKept(copy[1].accounts)
    BY <1>1, <1>5, <1>6, <2>1, <2>2 DEF KeptAnswer, CompanyRow
  <2> QED BY <1>5, <2>1, <2>2
<1>7. CASE c.op = "update" /\ c.kind = "companies" /\ IsBank(c)
  <2>a. PICK accounts : accounts = IF c.at # "failed" /\ c.mine = "tab" THEN c.body.accounts ELSE page.accounts
    OBVIOUS
  <2>b. PICK busy : busy = IF c.mine = "tab" THEN page.busy \ {"bankSaving"} ELSE page.busy
    OBVIOUS
  <2>c. PICK editing : editing = IF c.mine = "tab" /\ c.body.edited THEN None ELSE page.editing
    OBVIOUS
  <2>d. PICK aliased : aliased = (page.aliased /\ ~(c.at # "failed"))
    OBVIOUS
  <2>1. p = [page EXCEPT !.company = copy, !.aliased = aliased, !.accounts = accounts, !.editing = editing,
                         !.busy = busy]
    BY <1>5, <1>7, <2>a, <2>b, <2>c, <2>d DEF CompanyAnswered, IsBank
  <2>2. /\ DOMAIN p = CompanyFields /\ p["at"] = page["at"] /\ p["co"] = page["co"] /\ p["asked"] = page["asked"]
        /\ p["loading"] = page["loading"] /\ p["error"] = page["error"]
        /\ p["busy"] = busy /\ p["company"] = copy /\ p["accounts"] = accounts
    BY <1>2, <2>1 DEF CompanyFields
  <2>3. p.busy \subseteq page.busy
    BY <2>b, <2>2
  <2>4. p.company # <<>> => page.company # <<>> /\ (WellKept(p.company[1].accounts) \/ p.company = page.company)
    BY <1>6, <1>7, <2>2
  <2>5. \/ /\ p.accounts = page.accounts /\ ("bankSaving" \in page.busy => "bankSaving" \in p.busy)
           /\ ~(IsBank(net[i]) /\ net[i].mine = "tab")
        \/ page.company # <<>> => Lost(server, p.co) \/ (WellKept(p.accounts) /\ WellKept(p.company[1].accounts))
    <3>1. CASE c.mine # "tab"
      BY <2>a, <2>b, <1>7, <2>2, <3>1
    <3>2. CASE c.mine = "tab" /\ c.at = "failed"
      <4>1. c.id = page.co /\ Lost(server, c.id)
        BY <1>1, <1>7, <3>2 DEF KeptHeard, KeptAnswer
      <4> QED BY <2>2, <4>1
    <3>3. CASE c.mine = "tab" /\ c.at # "failed" /\ page.company # <<>>
      <4>1. c.id = page.co /\ (WellKept(c.body.accounts) \/ Lost(server, c.id))
        BY <1>1, <1>7, <3>3 DEF KeptHeard, KeptBody
      <4>2. copy # <<>>
        BY <1>1, <1>5, <1>7, <3>3 DEF KeptAnswer
      <4>3. WellKept(p.company[1].accounts)
        BY <1>6, <1>7, <2>2, <3>3, <4>2
      <4> QED BY <2>a, <2>2, <3>3, <4>1, <4>3
    <3> QED BY <3>1, <3>2, <3>3
  <2>6. KeptShown(server, p, queue)
    BY <2>2, <2>3, <2>4, <2>5, AnswerShown
  <2> QED BY <2>2, <2>6
<1>8. CASE c.op = "update" /\ c.kind = "companies" /\ ~IsBank(c)
  <2>1. PICK busy, aliased :
          /\ p = [page EXCEPT !.company = copy, !.aliased = aliased, !.busy = busy]
          /\ busy = IF c.mine = "tab" THEN page.busy \ {c.body.flag} ELSE page.busy
    <3> DEFINE busy == IF c.mine = "tab" THEN page.busy \ {c.body.flag} ELSE page.busy
               aliased == page.aliased /\ ~(c.at # "failed")
    <3>1. p = [page EXCEPT !.company = copy, !.aliased = aliased, !.busy = busy]
      BY <1>5, <1>8 DEF CompanyAnswered, IsBank
    <3> HIDE DEF aliased
    <3> QED BY <3>1, Zenon
  <2>2. /\ DOMAIN p = CompanyFields /\ p["at"] = page["at"] /\ p["co"] = page["co"] /\ p["asked"] = page["asked"]
        /\ p["loading"] = page["loading"] /\ p["error"] = page["error"]
        /\ p["busy"] = busy /\ p["company"] = copy /\ p["accounts"] = page["accounts"]
    BY <1>2, <2>1 DEF CompanyFields
  <2>3. p.busy \subseteq page.busy
    BY <2>1, <2>2
  <2>4. p.company # <<>> => page.company # <<>> /\ (WellKept(p.company[1].accounts) \/ p.company = page.company)
    BY <1>6, <1>8, <2>2
  <2>5. c.body.flag # "bankSaving"
    BY <1>1, <1>8 DEF KeptHeard
  <2>6. "bankSaving" \in page.busy => "bankSaving" \in p.busy
    BY <2>1, <2>2, <2>5
  <2>7. KeptShown(server, p, queue)
    BY <1>8, <2>2, <2>3, <2>4, <2>6, AnswerShown
  <2> QED BY <2>2, <2>7
<1>9. CASE c.op # "get" /\ ~(c.op = "update" /\ c.kind = "companies")
  <2>1. ~IsBank(c)
    BY <1>1, <1>9 DEF KeptBody
  <2>2. \/ p = page
        \/ \E busy : /\ p = [page EXCEPT !.busy = busy]
                     /\ busy = page.busy \/ busy = page.busy \ {"adding"} \/ busy = page.busy \ {"deleting"}
    <3>1. CASE c.op = "create"
      <4>1. PICK busy : busy = IF c.mine = "tab" THEN page.busy \ {"adding"} ELSE page.busy
        OBVIOUS
      <4>2. p = [page EXCEPT !.busy = busy]
        BY <3>1, <4>1 DEF CompanyAnswered
      <4> QED BY <4>1, <4>2
    <3>2. CASE c.op = "remove" /\ c.kind = "companies"
      <4>1. PICK busy : busy = IF c.at # "failed" \/ ~(c.mine = "tab") THEN page.busy ELSE page.busy \ {"deleting"}
        OBVIOUS
      <4>2. p = [page EXCEPT !.busy = busy]
        BY <3>2, <4>1 DEF CompanyAnswered
      <4> QED BY <4>1, <4>2
    <3>3. CASE c.op # "create" /\ ~(c.op = "remove" /\ c.kind = "companies")
      <4>1. p = page
        BY <1>9, <3>3 DEF CompanyAnswered
      <4> QED BY <4>1
    <3> QED BY <3>1, <3>2, <3>3
  <2>3. /\ DOMAIN p = CompanyFields /\ p["at"] = page["at"] /\ p["co"] = page["co"] /\ p["asked"] = page["asked"]
        /\ p["loading"] = page["loading"] /\ p["error"] = page["error"]
        /\ p["company"] = page["company"] /\ p["accounts"] = page["accounts"]
        /\ p["busy"] \subseteq page["busy"] /\ ("bankSaving" \in page["busy"] => "bankSaving" \in p["busy"])
    BY <1>2, <2>2 DEF CompanyFields
  <2>4. KeptShown(server, p, queue)
    BY <2>1, <2>3, AnswerShown
  <2> QED BY <2>3, <2>4
<1> QED BY <1>3, <1>4, <1>7, <1>8, <1>9

\* A company a new page is shown of is one that was created.
Elsewhere(q) == q.at # "company"
LEMMA DestinationKept ==
  ASSUME NEW c, KeptAnswer(server, c), c.at \in {"done", "failed"}, Destination(c) # <<>>
  PROVE  Mounted(Destination(c)[1]) /\ (Destination(c)[1].at = "company" => Destination(c)[1].co \in 1..Founded(server))
<1>1. PICK id, d : id = c.answer[1].id /\ d = Destination(c)
  OBVIOUS
<1>2. c.at = "done"
  <2>1. SUFFICES ASSUME c.at = "failed" PROVE FALSE
    OBVIOUS
  <2>2. Destination(c) = <<>>
    BY <2>1 DEF Destination
  <2> QED BY <2>2
<1>3. CASE c.kind = "companies" /\ c.op = "create"
  <2>1. d = <<CompanyPage(id)>>
    BY <1>1, <1>2, <1>3 DEF Destination
  <2>2. id \in 1..Founded(server)
    BY <1>1, <1>2, <1>3 DEF KeptAnswer, CompanyRow
  <2>3. PICK q : q = CompanyPage(id)
    OBVIOUS
  <2>4. Mounted(q) /\ q.co = id
    BY <2>3, MountedPages DEF CompanyPage
  <2> QED BY <1>1, <2>1, <2>2, <2>3, <2>4
<1>4. CASE ~(c.kind = "companies" /\ c.op = "create")
  <2>1. d = <<CompaniesPage>> \/ d = <<DocumentPage(c.co, id)>> \/ d = <<DocumentsPage(c.co)>>
    BY <1>1, <1>2, <1>4 DEF Destination
  <2>2. Elsewhere(CompaniesPage) /\ Elsewhere(DocumentPage(c.co, id)) /\ Elsewhere(DocumentsPage(c.co))
    <3> DEFINE none == ""
    <3>1. DocumentsPage(c.co) = [at |-> "documents", co |-> c.co, search |-> none, showCreate |-> FALSE, number |-> 0,
                                 debounced |-> 0, numberError |-> FALSE, deleting |-> None, cancelling |-> None,
                                 busy |-> {}]
      BY Zenon DEF DocumentsPage
    <3> HIDE DEF none
    <3>2. DocumentsPage(c.co).at = "documents"
      BY <3>1
    <3>3. CompaniesPage.at = "companies" /\ DocumentPage(c.co, id).at = "document"
      BY DEF CompaniesPage, DocumentPage
    <3> QED BY <3>2, <3>3 DEF Elsewhere
  <2>3. Elsewhere(d[1])
    <3>1. CASE d = <<CompaniesPage>>
      BY <2>2, <3>1
    <3>2. CASE d = <<DocumentPage(c.co, id)>>
      BY <2>2, <3>2
    <3>3. CASE d = <<DocumentsPage(c.co)>>
      BY <2>2, <3>3
    <3> QED BY <2>1, <3>1, <3>2, <3>3
  <2> QED BY <1>1, <2>3 DEF Elsewhere, Mounted
<1> QED BY <1>3, <1>4

LEMMA DeliverKept ==
  ASSUME Shaped, DraftsOwn, DefaultsKept, NEW i \in DOMAIN net, Deliver(i)
  PROVE  DefaultsKept'
<1>1. PICK c, s, p, following, removed, queue, loading :
        /\ c = net[i] /\ s = Activated(c, Stored(store, c))
        /\ p = IF c.mine = "none" THEN page ELSE Answered(page, c, s)
        /\ following = Following(c) /\ removed = RemoveAt(net, i)
        /\ queue = removed \o following /\ loading = Fetching(s, following)
  <2>1. PICK c : c = net[i]
    OBVIOUS
  <2>2. PICK s : s = Activated(c, Stored(store, c))
    OBVIOUS
  <2>3. PICK p : p = IF c.mine = "none" THEN page ELSE Answered(page, c, s)
    OBVIOUS
  <2>4. PICK following, removed : following = Following(c) /\ removed = RemoveAt(net, i)
    OBVIOUS
  <2>5. PICK queue, loading : queue = removed \o following /\ loading = Fetching(s, following)
    OBVIOUS
  <2> QED BY <2>1, <2>2, <2>3, <2>4, <2>5
<1>2. /\ c.at \in {"done", "failed"}
      /\ IF Destination(c) # <<>> THEN Shows(p, loading, queue, Destination(c)[1])
         ELSE IF Reloads(p, c, s) THEN Takes(Step(LoadDraft(p).page, loading, LoadDraft(p).calls), queue)
         ELSE Takes(Step(p, loading, <<>>), queue)
  BY <1>1 DEF Deliver
<1>3. IsCall(c) /\ OwnCall(server, page, c) /\ KeptCall(server, page, c)
  BY <1>1, NetIs, QueueKept
<1>4. page.at \in Routes \ {"blank"} /\ "at" \in DOMAIN page
  BY DEF Shaped
<1>5. DOMAIN s = Stores /\ DOMAIN s.rows = Kinds /\ "at" \in DOMAIN p /\ p.at = page.at
  BY <1>1, <1>2, AnsweredOwn
<1>6. DOMAIN loading = Stores /\ DOMAIN loading.rows = Kinds
  BY <1>1, <1>5 DEF Fetching, Stores
<1>7. /\ following \in Seq(Range(following)) /\ \A k \in DOMAIN following : IsCall(following[k])
      /\ removed \in Seq(Range(removed)) /\ \A k \in DOMAIN removed : \E j \in DOMAIN net : removed[k] = net[j]
      /\ Others(i, removed)
  <2>1. /\ following \in Seq(Range(following)) /\ \A k \in DOMAIN following : Fresh(server, page, following[k])
    BY <1>1, <1>2, <1>3, FollowingIs
  <2>2. /\ removed \in Seq(Range(removed)) /\ \A k \in DOMAIN removed : \E j \in DOMAIN net : removed[k] = net[j]
        /\ Others(i, removed)
    BY <1>1, RemoveAtIs DEF Shaped, Others
  <2> QED BY <2>1, <2>2, FreshIs
<1>8. /\ queue \in Seq(Range(queue))
      /\ \A k \in DOMAIN queue : (\E j \in DOMAIN removed : queue[k] = removed[j])
                                 \/ (\E j \in DOMAIN following : queue[k] = following[j])
      /\ Others(i, queue)
  <2>1. Within(removed, queue)
    BY <1>1, <1>7, JoinedKeeps
  <2>2. Others(i, queue)
    BY <1>7, <2>1 DEF Others, Within
  <2> QED BY <1>1, <1>7, <2>2, Joined
<1>9. page.at = "company" => DOMAIN p = CompanyFields /\ p.co = page.co /\ KeptShown(server, p, queue)
  <2>1. SUFFICES ASSUME page.at = "company"
                 PROVE  DOMAIN p = CompanyFields /\ p.co = page.co /\ KeptShown(server, p, queue)
    OBVIOUS
  <2>2. CASE c.mine = "none"
    <3>1. p = page /\ KeptShown(server, page, net) /\ DOMAIN page = CompanyFields
      BY <1>1, <2>1, <2>2 DEF DefaultsKept, KeptShown
    <3>2. Saving(page, net) => Saving(page, queue)
      BY <1>1, <1>8, <2>2, OthersSave
    <3> QED BY <3>1, <3>2 DEF KeptShown
  <2>3. CASE c.mine # "none"
    <3>1. p = Answered(page, c, s)
      BY <1>1, <2>3
    <3>2. Answered(page, c, s) = CompanyAnswered(page, c)
      BY <2>1 DEF Answered, MarkKinds, UnderAdmin
    <3> QED BY <1>1, <1>2, <1>8, <2>1, <2>3, <3>1, <3>2, AnsweredKept
  <2> QED BY <2>2, <2>3
<1>10. \A k \in DOMAIN queue : IsCall(queue[k]) /\ KeptCall(server, p, queue[k])
  <2>1. ASSUME NEW x, KeptHeard(server, page, x) PROVE KeptHeard(server, p, x)
    BY <1>5, <1>9, <2>1 DEF KeptHeard
  <2>2. ASSUME NEW k \in DOMAIN removed PROVE IsCall(removed[k]) /\ KeptCall(server, p, removed[k])
    <3>1. IsCall(removed[k]) /\ KeptCall(server, page, removed[k])
      BY <1>7, QueueKept
    <3> QED BY <2>1, <3>1 DEF KeptCall
  <2>3. ASSUME NEW k \in DOMAIN following PROVE IsCall(following[k]) /\ KeptCall(server, p, following[k])
    <3>1. Harmless(following[k]) /\ (page.at = "company" => following[k].mine = "none")
      BY <1>1, <1>3, FollowingKept
    <3>2. KeptHeard(server, p, following[k])
      BY <1>5, <3>1 DEF KeptHeard
    <3> QED BY <1>7, <3>1, <3>2, HarmlessIs DEF KeptCall
  <2> QED BY <1>8, <2>2, <2>3
<1>11. CASE Destination(c) # <<>>
  <2>1. PICK q : q = Destination(c)[1]
    OBVIOUS
  <2>2. "at" \in DOMAIN q /\ q.at \in Routes \ {"blank"}
    BY <1>11, <2>1, DestinationIs
  <2>3. Mounted(q) /\ (q.at = "company" => q.co \in 1..Founded(server))
    BY <1>2, <1>3, <1>11, <2>1, DestinationKept DEF KeptCall
  <2>4. Shows(p, loading, queue, q)
    BY <1>2, <1>11, <2>1
  <2>5. p.at = "company" => DOMAIN p = CompanyFields
    BY <1>5, <1>9
  <2> QED BY <1>5, <1>6, <1>8, <1>10, <2>2, <2>3, <2>4, <2>5, ShowsKept
<1>12. CASE Destination(c) = <<>> /\ Reloads(p, c, s)
  <2>1. p.at = "builder"
    BY <1>12 DEF Reloads
  <2>2. PICK q, f : q = [p EXCEPT !.loading = TRUE] /\ f = Fetch("documents", p.co, p.id)
    OBVIOUS
  <2>3. Takes(Step(q, loading, <<f>>), queue) /\ Harmless(f)
    BY <1>2, <1>12, <2>2, LoadDraftIs, LoadsHarmless
  <2>4. q.at = "builder"
    BY <1>5, <2>1, <2>2
  <2>5. \A x : KeptHeard(server, q, x)
    BY <2>4 DEF KeptHeard
  <2>6. \A k \in DOMAIN queue : KeptCall(server, q, queue[k])
    BY <1>10, <2>5 DEF KeptCall
  <2>7. PICK calls : calls = <<f>>
    OBVIOUS
  <2>8. calls \in Seq(Range(calls)) /\ \A k \in DOMAIN calls : Harmless(calls[k]) /\ KeptHeard(server, q, calls[k])
    BY <2>3, <2>5, <2>7 DEF Range
  <2>9. page' = q /\ server' = server /\ \A k \in DOMAIN net' : KeptCall(server, q, net'[k])
    BY <1>6, <1>8, <2>3, <2>6, <2>7, <2>8, KeptTakes
  <2>10. KeptShown(server, q, net')
    BY <2>4 DEF KeptShown
  <2> QED BY <2>9, <2>10 DEF DefaultsKept
<1>13. CASE Destination(c) = <<>> /\ ~Reloads(p, c, s)
  <2>1. PICK calls : calls = <<>>
    OBVIOUS
  <2>2. Takes(Step(p, loading, calls), queue)
    BY <1>2, <1>13, <2>1
  <2>3. calls \in Seq(Range(calls)) /\ DOMAIN calls = {}
    BY <2>1
  <2>4. page' = p /\ server' = server /\ \A k \in DOMAIN net' : KeptCall(server, p, net'[k])
    BY <1>6, <1>8, <1>10, <2>2, <2>3, KeptTakes
  <2>5. KeptShown(server, p, net')
    <3>1. net' = queue \o calls
      BY <2>2 DEF Takes, Step
    <3>2. Within(queue, net')
      BY <1>8, <2>3, <3>1, JoinedKeeps
    <3>3. Saving(p, queue) => Saving(p, net')
      BY <3>2 DEF Saving, Within
    <3>4. CASE p.at = "company"
      BY <1>5, <1>9, <3>3, <3>4 DEF KeptShown
    <3>5. CASE p.at # "company"
      BY <3>5 DEF KeptShown
    <3> QED BY <3>4, <3>5
  <2> QED BY <2>4, <2>5 DEF DefaultsKept
<1> QED BY <1>11, <1>12, <1>13

-----------------------------------------------------------------------------
(* One default account                                                      *)

LEMMA InitKept == ASSUME Init PROVE DefaultsKept
<1>1. /\ page = [at |-> "blank", co |-> Me, busy |-> {}] /\ net = <<>>
      /\ \E roles : server = [rows |-> [k \in Kinds |-> GivenRows(k, roles)], born |-> [k \in Kinds |-> 0]]
  BY Zenon DEF Init
<1>2. PICK roles : server = [rows |-> [k \in Kinds |-> GivenRows(k, roles)], born |-> [k \in Kinds |-> 0]]
  BY <1>1
<1>3. "companies" \in Kinds
  BY DEF Kinds
<1>4. server.rows.companies = GivenRows("companies", roles) /\ server.born.companies = 0
  BY <1>2, <1>3
<1> DEFINE first == [id |-> 1, isDefault |-> TRUE]
           second == [id |-> 2, isDefault |-> FALSE]
<1>5. PICK accounts : accounts = <<first, second>>
  OBVIOUS
<1>6. PICK x : x = [accounts |-> accounts]
  OBVIOUS
<1>7. PICK y : y = [name |-> "b"]
  OBVIOUS
<1>8. PICK a : a = Row("companies", 1, Me, x)
  OBVIOUS
<1>9. PICK b : b = Row("companies", 2, Me, y)
  OBVIOUS
<1>10. GivenRows("companies", roles) = <<a, b>>
  BY <1>5, <1>6, <1>7, <1>8, <1>9, Zenon DEF GivenRows
<1>11. WellKept(accounts)
  <2>1. first \in Account /\ second \in Account
    BY DEF Account, MaxAccounts
  <2>2. first.id = 1 /\ second.id = 2 /\ first.isDefault = TRUE /\ second.isDefault = FALSE
    OBVIOUS
  <2> HIDE DEF first, second
  <2>3. accounts \in Seq(Account) /\ DOMAIN accounts = {1, 2} /\ accounts[1] = first /\ accounts[2] = second
    BY <1>5, <2>1
  <2>4. \A i, j \in DOMAIN accounts : accounts[i].id = accounts[j].id => i = j
    BY <2>2, <2>3
  <2>5. \A j \in DOMAIN accounts : accounts[j].isDefault <=> j = 1
    <3>1. accounts[1].isDefault /\ ~accounts[2].isDefault
      BY <2>2, <2>3
    <3>2. 2 # 1
      OBVIOUS
    <3> QED BY <2>3, <3>1, <3>2, Zenon
  <2>6. OneDefault(accounts)
    BY <2>3, <2>5, Zenon DEF OneDefault
  <2> QED BY <2>3, <2>4, <2>6 DEF WellKept
<1> HIDE DEF first, second
<1>12. CompanyRow(server, a)
  <2>1. DOMAIN x = {"accounts"} /\ x.accounts = accounts
    BY <1>6
  <2>2. {"id", "owner", "accounts"} \subseteq DOMAIN a /\ a.id = 1 /\ a.owner = Me /\ a.accounts = accounts
    BY <1>8, <2>1, CompanyIs
  <2> QED BY <1>4, <1>11, <2>2 DEF CompanyRow, Founded, Given
<1>13. CompanyRow(server, b)
  <2>1. DOMAIN y = {"name"}
    BY <1>7
  <2>2. {"id", "owner", "accounts"} \subseteq DOMAIN b /\ b.id = 2 /\ b.owner = Me /\ b.accounts = <<>>
    BY <1>9, <2>1, CompanyIs
  <2> QED BY <1>4, <2>2, NoneKept DEF CompanyRow, Founded, Given
<1>14. PICK rows : rows = <<a, b>>
  OBVIOUS
<1>15. rows \in Seq(Range(rows)) /\ Range(rows) = {a, b}
  BY <1>14 DEF Range
<1>16. KeptServer(server)
  <2>1. server.rows.companies = rows /\ server.born.companies \in Nat
    BY <1>4, <1>10, <1>14
  <2>2. \A r \in {a, b} : CompanyRow(server, r)
    BY <1>12, <1>13
  <2> QED BY <1>15, <2>1, <2>2 DEF KeptServer
<1>17. page.at = "blank" /\ DOMAIN net = {}
  BY <1>1
<1> QED BY <1>16, <1>17 DEF DefaultsKept, KeptShown

\* What is kept of the accounts, with what is known of the drafts, is kept by every step.
AccountsInv == OwnInv /\ (scope.fails = {} /\ "hop" \notin scope.uses => DefaultsKept)

LEMMA AccountsNext == ASSUME AccountsInv, [Next]_vars PROVE AccountsInv'
<1>1. scope' = scope
  BY ScopeKept
<1>2. OwnInv'
  BY OwnNext DEF AccountsInv
<1> SUFFICES ASSUME scope.fails = {}, "hop" \notin scope.uses PROVE DefaultsKept'
  BY <1>1, <1>2 DEF AccountsInv
<1>3. Shaped /\ DraftsOwn /\ DefaultsKept
  BY DEF AccountsInv, OwnInv
<1>4. CASE UNCHANGED vars
  <2>1. page' = page /\ server' = server /\ net' = net
    BY <1>4 DEF vars
  <2> QED BY <1>3, <2>1 DEF DefaultsKept
<1>5. CASE PageEvent
  BY <1>3, <1>5, OthersKept, CompanyKept
<1>6. CASE Open \/ Visit \/ SwitchCompany
  BY <1>3, <1>6, OpenKept, VisitKept, SwitchKept
<1>7. CASE \E i \in DOMAIN net : Serve(i) \/ BodyMade(i) \/ Deliver(i)
  <2>1. PICK i \in DOMAIN net : Serve(i) \/ BodyMade(i) \/ Deliver(i)
    BY <1>7
  <2>2. CASE Serve(i)
    BY <1>3, <2>2, ServeKept
  <2>3. CASE BodyMade(i)
    BY <1>3, <2>3, BodyMadeKept
  <2>4. CASE Deliver(i)
    BY <1>3, <2>4, DeliverKept
  <2> QED BY <2>1, <2>2, <2>3, <2>4
<1> QED BY <1>4, <1>5, <1>6, <1>7, Zenon DEF Next

\* A company that has bank accounts has exactly one default account, although the tab writes
\* the whole array, made of the copy it has, and handleRemoveBankAccount writes into the
\* array it shows before it saves: as long as no call fails and the user waits for answers
\* before leaving a page; in whatever order answers come, and also when the company is removed
\* while a save is under way.
THEOREM OneDefaultAccountKept == Spec => []OneDefaultAccount
<1>1. Init => AccountsInv
  BY InitOwn, InitKept DEF AccountsInv, OwnInv
<1>2. AccountsInv /\ [Next]_vars => AccountsInv'
  BY AccountsNext
<1>3. AccountsInv => OneDefaultAccount
  <2>1. SUFFICES ASSUME AccountsInv, scope.fails = {}, "hop" \notin scope.uses,
                        NEW r \in Range(server.rows.companies)
                 PROVE  OneDefault(r.accounts)
    BY Zenon DEF OneDefaultAccount, OneDefault
  <2>2. CompanyRow(server, r)
    BY <2>1 DEF AccountsInv, DefaultsKept, KeptServer
  <2> QED BY <2>2 DEF CompanyRow, WellKept
<1> QED BY <1>1, <1>2, <1>3, PTL DEF Spec
=============================================================================
