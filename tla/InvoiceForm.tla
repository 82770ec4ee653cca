---------------------------- MODULE InvoiceForm ----------------------------
(***************************************************************************)
(* What the document builder shows: the invoice as it is edited, with the  *)
(* totals, the words and the texts of the seller and the buyer that follow *)
(* from it, and the answers that come late: the total in the base currency,*)
(* fresh data of the company or the buyer, a contractor that is linked.    *)
(* The saves in flight and the PDF are the subject of BuilderPages; here a *)
(* save is one step.  Amounts are in cents, quantities in quarters; a tie  *)
(* may be rounded either way, as the doubles of the code do.               *)
(***************************************************************************)
EXTENDS NumberWords

CONSTANTS
  Companies,  \* what the seller's record may be, one version after the other
  Contractors,  \* those that may be the buyer
  Trucks,     \* the vehicles, each with its default trailer or none
  Trailers,
  Marks,      \* signatures with their stamps
  MaxItems,   \* bound on the lines
  MaxCalls,   \* bound on the calls in flight with which the user still acts
  Scopes      \* of a behaviour: see Scope

None == "none"
Typed == "typed"
Types == {"invoice", "transport_invoice"}

\* What the user does in a behaviour, the values that are tried and the way in which
\* ties are rounded; rates of exchange are stored since a date.  "reload": the page may
\* be reloaded, and then has no company at first; "overtake": answers overtake each other;
\* "fail": calls fail; "race": see Races.
Uses == {"items", "tax", "type", "language", "currency", "base", "date", "words", "banks", "company",
         "buyer", "save", "vehicles", "marks", "reload", "overtake", "fail", "race"}
Scope == [uses : SUBSET Uses, types : SUBSET Types, languages : SUBSET AllLanguages,
          currencies : SUBSET STRING, prices : SUBSET Nat, quantities : SUBSET Nat, rates : SUBSET (0..100),
          since : Nat, lines : 1..MaxItems, up : SUBSET {"item", "tax", "total"}]

\* A party has a name and an address of its own and in some languages; the accounts of
\* a company are in the order in which they are listed.
ASSUME FormAssumption ==
  /\ MaxItems \in Nat \ {0} /\ MaxCalls \in Nat \ {0}
  /\ Companies # {}
  /\ \A c \in Companies \cup Contractors : {"id", "langs"} \subseteq DOMAIN c /\ c.langs \subseteq AllLanguages
  /\ \A c \in Companies : {"accounts", "director"} \subseteq DOMAIN c /\ c.director \in BOOLEAN
  /\ \A c \in Companies : c.accounts \in Seq(Range(c.accounts))
  /\ \A c \in Companies \cup Contractors : c.id # None
  /\ \A t \in Trucks : t.trailer \in Trailers \cup {None}
  /\ \A sc \in Scopes : sc \in Scope

VARIABLES
  data,      \* the invoice of the form
  selected,  \* the bank accounts that are ticked
  company,   \* the active company of the store, or NoCompany
  buyer,     \* the contractor of the document, as the page has it
  loading,   \* the page shows its spinner, not the form
  timer,     \* what the timer of the draft is going to save
  saved,     \* the row of the document: its data, its buyer
  calls,     \* in flight, in the order they were sent
  scope      \* of this behaviour; never changes

vars == <<data, selected, company, buyer, loading, timer, saved, calls, scope>>

-----------------------------------------------------------------------------
(* Arithmetic *)

Parts == 4  \* of a unit of quantity

\* The nearest whole number to n / d, for an even d.
Rounded(n, d, up) == (n + IF up THEN d \div 2 ELSE (d \div 2) - 1) \div d

LineItem == [quantity |-> Parts, price |-> 0, total |-> 0]

LineTotal(item) == [item EXCEPT !.total = Rounded(item.quantity * item.price, Parts, "item" \in scope.up)]

Subtotal(items) == FoldLeft(LAMBDA sum, item : sum + item.total, 0, items)

TaxAmount(subtotal, rate) == Rounded(subtotal * rate, 100, "tax" \in scope.up)
Total(subtotal, rate) == Rounded(100 * subtotal + subtotal * rate, 100, "total" \in scope.up)

\* Bug: the new tax is put on top of the old subtotal.
CalculateTotals_OldSubtotal(d) ==
  LET s == Subtotal(d.items)
  IN  [d EXCEPT !.subtotal = s, !.taxAmount = TaxAmount(s, d.taxRate), !.total = Total(d.subtotal, d.taxRate)]

CalculateTotals(d) ==
  LET s == Subtotal(d.items)
  IN  [d EXCEPT !.subtotal = s, !.taxAmount = TaxAmount(s, d.taxRate), !.total = Total(s, d.taxRate)]

-----------------------------------------------------------------------------
(* Texts: whose they are and in which language; the party's own where it   *)
(* has none in the language asked for.                                     *)

Empty == [of |-> <<>>, lang |-> "own"]
ByHand == [of |-> <<Typed>>, lang |-> "own"]
Text(party, l) == [of |-> <<party.id>>, lang |-> IF l \in party.langs THEN l ELSE "own"]
Or(text, other) == IF text = Empty THEN other ELSE text
NoBuyer == [id |-> None, langs |-> {}]
NoCompany == [id |-> None, langs |-> {}, director |-> FALSE, accounts |-> <<>>]
Director(c, l) == IF c.director THEN Text(c, l) ELSE Empty

\* The elements of a sequence that are in a set.
Picked(s, S) == FoldLeft(LAMBDA picked, x : IF x \in S THEN Append(picked, x) ELSE picked, <<>>, s)

\* The accounts with these ids, in that order; the ids of the default ones.
Ids(c) == {a.id : a \in Range(c.accounts)}
Accounts(c, ids) == Picked(ids, Ids(c))
DefaultAccounts(c) ==
  LET defaults == Picked(c.accounts, {a \in Range(c.accounts) : a.isDefault})
  IN  [i \in DOMAIN defaults |-> defaults[i].id]
SerializeBankAccounts(ids, l) == IF ids = <<>> THEN Empty ELSE [of |-> ids, lang |-> l]

PopulateBuyer(d, contractor, l) == [d EXCEPT !.buyer = Or(@, Text(contractor, l))]
Refilled(d, contractor, l) == PopulateBuyer([d EXCEPT !.buyer = Empty], contractor, l)

-----------------------------------------------------------------------------
(* Rendering: the header converts a total that it has not seen yet.        *)

NoWords == [lang |-> None, said |-> <<>>, cents |-> 0, currency |-> None]
HandWords == [NoWords EXCEPT !.lang = Typed]
NoAmount == [total |-> 0, from |-> None, to |-> None, date |-> 0]

EmptyInvoice ==
  [type |-> "invoice", language |-> "en", currency |-> "USD", base |-> "GEL", date |-> 1,
   items |-> <<LineItem>>, subtotal |-> 0, taxRate |-> 0, taxAmount |-> 0, total |-> 0,
   words |-> NoWords, baseAmount |-> NoAmount, seller |-> Empty, director |-> Empty,
   signer |-> Empty, bankText |-> Empty, bankIds |-> <<>>, buyer |-> Empty,
   truck |-> None, trailer |-> None, mark |-> None]

NoDraft == <<>>
Draft(d) == <<d>>

Call(op, lang, body) == [op |-> op, lang |-> lang, body |-> body]

\* Bug: the date is missing from the dependencies.
Deps_WithoutDate(d) == <<d.total, d.currency, d.base>>

\* What an effect of the header depends on, and the amount a conversion gives.
Deps(d) == <<d.total, d.currency, d.base, d.date>>
Amount(d) ==
  [total |-> d.total, from |-> d.currency, to |-> d.base, date |-> IF d.currency = d.base THEN 0 ELSE d.date]

Due(d, before) == Deps(d) # before /\ d.total > 0
SameCurrency(d) == d.currency = d.base

\* The form shows d; its header has seen the dependencies before.
DoConvert(d, before, queue) ==
  /\ data' = IF Due(d, before) /\ SameCurrency(d) THEN [d EXCEPT !.baseAmount = Amount(d)] ELSE d
  /\ calls' = IF Due(d, before) /\ ~SameCurrency(d)
               THEN Append(queue, Call("convert", None, Amount(d))) ELSE queue

\* Every change of the invoice arms the timer with the whole of it.  While the page is
\* loading the header is not mounted.
Change(d, queue) ==
  /\ IF loading THEN data' = d /\ calls' = queue ELSE DoConvert(d, Deps(data), queue)
  /\ timer' = Draft(data')

\* What decides about the texts changes while they are being asked for.
Races(use) ==
  use \in {"language", "banks", "company", "buyer"} /\ \E i \in DOMAIN calls : calls[i].op \in {"company", "patch", "load", "link"}

\* The user edits the form.
Edit(use, d) ==
  /\ use \in scope.uses
  /\ ~loading
  /\ Len(calls) < MaxCalls
  /\ Races(use) => "race" \in scope.uses
  /\ Change(d, calls)
  /\ UNCHANGED <<company, buyer, loading, saved, scope>>

-----------------------------------------------------------------------------
(* Edits *)

\* The words of a transport invoice follow its total.
Worded(d) ==
  IF d.type = "transport_invoice" /\ d.total > 0
    THEN [d EXCEPT !.words = NumberToWords(d.total, d.language, d.currency)] ELSE d

ItemsChange(use, items) == Edit(use, Worded(CalculateTotals([data EXCEPT !.items = items]))) /\ UNCHANGED selected

SetQuantity(i, q) == ItemsChange("items", [data.items EXCEPT ![i] = LineTotal([@ EXCEPT !.quantity = q])])
SetPrice(i, p) == ItemsChange("items", [data.items EXCEPT ![i] = LineTotal([@ EXCEPT !.price = p])])
AddItem == Len(data.items) < scope.lines /\ ItemsChange("items", Append(data.items, LineItem))
RemoveItem(i) == Len(data.items) > 1 /\ ItemsChange("items", RemoveAt(data.items, i))

\* Bug: the words are left as they are.
TaxRateChange_KeepsWords(rate) == Edit("tax", CalculateTotals([data EXCEPT !.taxRate = rate])) /\ UNCHANGED selected

TaxRateChange(rate) == Edit("tax", Worded(CalculateTotals([data EXCEPT !.taxRate = rate]))) /\ UNCHANGED selected

Field(use, d) == Edit(use, CalculateTotals(d)) /\ UNCHANGED selected

SetType(t) == Field("type", [data EXCEPT !.type = t])
SetDate(t) == Field("date", [data EXCEPT !.date = t])
SetCurrency(c) == Field("currency", Worded([data EXCEPT !.currency = c]))
SetBase(c) == Field("base", [data EXCEPT !.base = c])

BuyerIn(d, l) == IF buyer = NoBuyer THEN d ELSE [d EXCEPT !.buyer = Text(buyer, l)]

\* Bug: the labels of the accounts stay in the former language.
SellerIn_KeepsLabels(d, l) ==
  IF company = NoCompany THEN d
  ELSE [d EXCEPT !.seller = Text(company, l), !.director = Director(company, l), !.signer = Director(company, l)]

\* The accounts if any is ticked.
SellerIn(d, l) ==
  LET ticked == Accounts(company, selected)
  IN  IF company = NoCompany THEN d
      ELSE [d EXCEPT !.seller = Text(company, l), !.director = Director(company, l),
                     !.signer = Director(company, l),
                     !.bankText = IF ticked = <<>> THEN @ ELSE SerializeBankAccounts(ticked, l)]

\* The texts of the seller and of the buyer again, in the new language, whatever was
\* typed there; only those of the buyer while there is no company.
SetLanguage(l) == Field("language", Worded(SellerIn(BuyerIn([data EXCEPT !.language = l], l), l)))

TypeWords == data.type = "transport_invoice" /\ Field("words", [data EXCEPT !.words = HandWords])
AutoFillWords ==
  /\ data.type = "transport_invoice"
  /\ Field("words", [data EXCEPT !.words = NumberToWords(data.total, data.language, data.currency)])

TypeNames ==
  \/ Field("buyer", [data EXCEPT !.buyer = ByHand])
  \/ Field("marks", [data EXCEPT !.signer = ByHand])
  \/ data.type = "transport_invoice" /\ Field("marks", [data EXCEPT !.director = ByHand])

\* A mark goes with its image, or there is none.
SelectMark(m) == Field("marks", [data EXCEPT !.mark = m])

\* A truck that is selected brings its default trailer if there is no trailer yet; one
\* that has just been created brings it in any case.
VehicleSelect(t) ==
  /\ data.type = "transport_invoice"
  /\ Field("vehicles", [data EXCEPT !.truck = t.id, !.trailer = IF @ = None THEN t.trailer ELSE @])
VehicleCreated(t) ==
  /\ data.type = "transport_invoice"
  /\ Field("vehicles", [data EXCEPT !.truck = t.id, !.trailer = IF t.trailer = None THEN @ ELSE t.trailer])
TrailerSelect(t) == data.type = "transport_invoice" /\ Field("vehicles", [data EXCEPT !.trailer = t])
TruckCleared == data.type = "transport_invoice" /\ Field("vehicles", [data EXCEPT !.truck = None])

BankAccountToggle(id) ==
  LET next == IF Contains(selected, id) THEN Picked(selected, Range(selected) \ {id}) ELSE Append(selected, id)
  IN
  /\ selected' = next
  /\ Edit("banks", [data EXCEPT !.bankIds = next,
                                !.bankText = SerializeBankAccounts(Accounts(company, next), data.language)])

\* Without accounts the text is typed.
TypeBankText == company.accounts = <<>> /\ Field("banks", [data EXCEPT !.bankText = ByHand])

AutoFillBuyer == buyer # NoBuyer /\ Edit("buyer", Refilled(data, buyer, data.language)) /\ UNCHANGED selected

-----------------------------------------------------------------------------
(* Calls *)

Asks(use, call) ==
  /\ use \in scope.uses
  /\ ~loading
  /\ Len(calls) < MaxCalls
  /\ Races(use) => "race" \in scope.uses
  /\ calls' = Append(calls, call)
  /\ UNCHANGED <<data, selected, company, buyer, loading, timer, saved, scope>>

ResyncCompany == company # NoCompany /\ Asks("company", Call("company", data.language, None))
ResyncBuyer == buyer # NoBuyer /\ Asks("buyer", Call("buyer", None, None))
ContractorCreated(c) == Asks("buyer", Call("link", data.language, c))

Answered(i, op) ==
  /\ i \in DOMAIN calls
  /\ calls[i].op = op
  /\ "overtake" \in scope.uses \/ i = 1

Rest(i) == RemoveAt(calls, i)

RateKnown(date) == date >= scope.since

Converted(i) ==
  /\ Answered(i, "convert")
  /\ RateKnown(calls[i].body.date)
  /\ Change(CalculateTotals([data EXCEPT !.baseAmount = calls[i].body]), Rest(i))
  /\ UNCHANGED <<selected, company, buyer, loading, saved, scope>>

\* The server has no rate that old and answers null: the former amount stays.
NotConverted(i) ==
  /\ Answered(i, "convert")
  /\ ~RateKnown(calls[i].body.date)
  /\ calls' = Rest(i)
  /\ UNCHANGED <<data, selected, company, buyer, loading, timer, saved, scope>>

\* The name is in the language the form had when it was asked for, the accounts are in
\* the one it has now.  The company of the store is refreshed with an empty patch.
CompanyAnswered(i, fresh) ==
  LET l == calls[i].lang
      ids == DefaultAccounts(fresh)
  IN
  /\ Answered(i, "company")
  /\ selected' = ids
  /\ Change([data EXCEPT !.seller = Text(fresh, l), !.bankIds = ids,
                         !.bankText = SerializeBankAccounts(ids, data.language),
                         !.director = Or(Director(fresh, l), @), !.signer = Or(@, Director(fresh, l))],
            Append(Rest(i), Call("patch", None, None)))
  /\ UNCHANGED <<company, buyer, loading, saved, scope>>

\* The active company is another object from now on: the document is loaded again.
CompanyPatched(i, fresh) ==
  /\ Answered(i, "patch")
  /\ company' = fresh
  /\ loading' = TRUE
  /\ calls' = Append(Rest(i), Call("load", None, fresh))
  /\ UNCHANGED <<data, selected, buyer, timer, saved, scope>>

BuyerAnswered(i, fresh) ==
  /\ Answered(i, "buyer")
  /\ buyer # NoBuyer /\ fresh.id = buyer.id
  /\ buyer' = fresh
  /\ Change(Refilled(data, fresh, data.language), Rest(i))
  /\ UNCHANGED <<selected, company, loading, saved, scope>>

\* The page goes on with the contractor whether or not it could be linked.
Linked(i) ==
  /\ Answered(i, "link")
  /\ \/ saved' = [saved EXCEPT !.buyer = calls[i].body]
     \/ "fail" \in scope.uses /\ UNCHANGED saved
  /\ buyer' = calls[i].body
  /\ Change(Refilled(data, calls[i].body, calls[i].lang), Rest(i))
  /\ UNCHANGED <<selected, company, loading, scope>>

Failed(i) ==
  /\ "fail" \in scope.uses
  /\ \E op \in {"convert", "company", "companies", "patch", "buyer"} : Answered(i, op)
  /\ calls' = Rest(i)
  /\ UNCHANGED <<data, selected, company, buyer, loading, timer, saved, scope>>

\* A document that has never been saved by the builder only has its type.
Stub(t) == [type |-> t]
IsInvoiceData(d) == "items" \in DOMAIN d

Hydrated(d) ==
  IF IsInvoiceData(d) THEN d
  ELSE IF d.type = "transport_invoice" THEN [EmptyInvoice EXCEPT !.type = d.type, !.currency = "GEL"]
  ELSE EmptyInvoice

\* The accounts of the saved invoice that the company still has, or its default ones if
\* none was saved, neither ticked nor as text.
RestoredAccounts(d, c) ==
  IF d.bankIds # <<>> THEN Accounts(c, d.bankIds)
  ELSE IF d.bankText = Empty THEN DefaultAccounts(c) ELSE <<>>

\* The seller is the company that was active when the document was asked for, if there
\* was one; director, signer and buyer stay if set.
Populated(d, c) ==
  LET ids == RestoredAccounts(d, c)
      filled == IF saved.buyer = NoBuyer THEN d ELSE PopulateBuyer(d, saved.buyer, d.language)
  IN  IF c = NoCompany THEN filled
      ELSE [filled EXCEPT !.seller = Text(c, d.language), !.bankIds = ids,
                          !.bankText = IF ids = <<>> THEN @ ELSE SerializeBankAccounts(ids, d.language),
                          !.director = Or(@, Director(c, d.language)),
                          !.signer = Or(@, Director(c, d.language))]

\* A header that is mounted with the form has not seen anything yet.
Seen == IF loading THEN <<>> ELSE Deps(data)

Loaded(i) ==
  LET c == calls[i].body
      d == CalculateTotals(Populated(Hydrated(saved.data), c))
  IN
  /\ Answered(i, "load")
  /\ loading' = FALSE
  /\ buyer' = saved.buyer
  /\ selected' = IF c = NoCompany THEN selected ELSE d.bankIds
  /\ DoConvert(d, Seen, Rest(i))
  /\ timer' = IF Due(d, Seen) /\ SameCurrency(d) THEN Draft(data') ELSE timer
  /\ UNCHANGED <<company, saved, scope>>

\* What the page asks for when it is opened: the layout asks for the companies after the
\* page has asked for the document.
Opened(c) ==
  LET load == Call("load", None, c)
  IN  IF c = NoCompany THEN <<load, Call("companies", None, None)>> ELSE <<load>>

\* The page is reloaded: what was not saved is lost, and the answers under way.  It is not
\* while a contractor is being linked.
Reload ==
  /\ "reload" \in scope.uses
  /\ \A i \in DOMAIN calls : calls[i].op # "link"
  /\ data' = EmptyInvoice
  /\ selected' = <<>>
  /\ company' = NoCompany
  /\ buyer' = NoBuyer
  /\ loading' = TRUE
  /\ timer' = NoDraft
  /\ calls' = Opened(NoCompany)
  /\ UNCHANGED <<saved, scope>>

\* From now on there is an active company, and the document is loaded again for it.
CompaniesAnswered(i, c) ==
  /\ Answered(i, "companies")
  /\ company' = c
  /\ loading' = TRUE
  /\ calls' = Append(Rest(i), Call("load", None, c))
  /\ UNCHANGED <<data, selected, buyer, timer, saved, scope>>

Save ==
  /\ "save" \in scope.uses
  /\ \/ timer # NoDraft /\ saved' = [saved EXCEPT !.data = timer[1]]
     \/ ~loading /\ saved' = [saved EXCEPT !.data = data]
  /\ timer' = NoDraft
  /\ UNCHANGED <<data, selected, company, buyer, loading, calls, scope>>

-----------------------------------------------------------------------------
(* Specification *)

Init ==
  /\ scope \in Scopes
  /\ data = EmptyInvoice
  /\ selected = <<>>
  /\ company \in Companies \cup IF "reload" \in scope.uses THEN {NoCompany} ELSE {}
  /\ buyer = NoBuyer
  /\ loading = TRUE
  /\ timer = NoDraft
  /\ saved \in [data : {Stub(t) : t \in scope.types},
                buyer : {NoBuyer} \cup IF "buyer" \in scope.uses THEN Contractors ELSE {}]
  /\ calls = Opened(company)

LineItemsSection ==
  \/ AddItem
  \/ \E i \in DOMAIN data.items :
       \/ \E q \in scope.quantities : SetQuantity(i, q)
       \/ \E p \in scope.prices : SetPrice(i, p)
       \/ RemoveItem(i)

InvoiceHeaderSection ==
  \/ \E t \in scope.types : SetType(t)
  \/ \E l \in scope.languages : SetLanguage(l)
  \/ \E c \in scope.currencies : SetCurrency(c) \/ SetBase(c)
  \/ \E t \in {1, 2} : SetDate(t)

TransportInfoSection ==
  \/ TypeWords \/ AutoFillWords \/ TruckCleared
  \/ \E t \in Trucks : VehicleSelect(t) \/ VehicleCreated(t)
  \/ \E t \in Trailers \cup {None} : TrailerSelect(t)

CompanyInfoSection ==
  \/ \E i \in DOMAIN company.accounts : BankAccountToggle(company.accounts[i].id)
  \/ TypeBankText \/ ResyncCompany

BuyerInfoSection == AutoFillBuyer \/ ResyncBuyer \/ \E c \in Contractors : ContractorCreated(c)

Answers ==
  \E i \in DOMAIN calls :
    \/ Converted(i) \/ NotConverted(i) \/ Linked(i) \/ Loaded(i) \/ Failed(i)
    \/ \E c \in Companies : CompanyAnswered(i, c) \/ CompanyPatched(i, c) \/ CompaniesAnswered(i, c)
    \/ \E c \in Contractors : BuyerAnswered(i, c)

Next ==
  \/ LineItemsSection \/ InvoiceHeaderSection \/ TransportInfoSection
  \/ CompanyInfoSection \/ BuyerInfoSection \/ TypeNames
  \/ \E rate \in scope.rates : TaxRateChange(rate)
  \/ \E m \in Marks \cup {None} : SelectMark(m)
  \/ Answers \/ Save \/ Reload

Spec == Init /\ [][Next]_vars

-----------------------------------------------------------------------------
(* Properties *)

\* In the form, the subtotal is the sum of the lines, and the total is the subtotal and
\* the tax, but for a cent: each of the three is rounded by itself (calculateTotals).
TotalsAddUp ==
  ~loading =>
    /\ data.subtotal = Subtotal(data.items)
    /\ data.total - (data.subtotal + data.taxAmount) \in {-1, 0, 1}

\* The amount in words of a transport invoice, unless it is typed, reads as the total, in
\* the language and currency of the document, in whichever order items, tax, language
\* and currency are changed, saved and loaded (numberToWords and its five callers).
WordsOfTotal ==
  data.type = "transport_invoice" /\ data.total > 0 /\ data.words.lang # Typed /\ "type" \notin scope.uses =>
    /\ 100 * ReadBack(data.words.said) + data.words.cents = data.total
    /\ data.words.lang = data.language
    /\ data.words.currency = data.currency

\* Seller, director, buyer and bank accounts are in one language, that of the document,
\* and the accounts are those that are ticked; what is typed is in any.  While the page has
\* no company only the buyer follows, and a director that was saved then keeps its language.
\* Edits while the texts are asked for, and answers that overtake each other or fail, are
\* another matter.
InDocumentLanguage ==
  ~loading /\ {"race", "overtake", "fail"} \cap scope.uses = {} =>
    /\ data.buyer.lang \in {"own", data.language}
    /\ company # NoCompany =>
         /\ data.seller.lang \in {"own", data.language}
         /\ "reload" \notin scope.uses => {data.director.lang, data.signer.lang} \subseteq {"own", data.language}
         /\ selected = data.bankIds
         /\ selected # <<>> => data.bankText = SerializeBankAccounts(selected, data.language)

\* When no conversion is under way, the amount the header shows in another currency is
\* that of the total, the currencies and the date it shows, if answers come in order, none
\* fails, and there is a rate of that date.  Between equal currencies it is not shown: the
\* amount is then set at once, and the answer of an older conversion may still replace it.
ConvertedTotal ==
  /\ ~loading /\ data.total > 0 /\ data.currency # data.base
  /\ {"overtake", "fail"} \cap scope.uses = {}
  /\ RateKnown(data.date)
  /\ \A i \in DOMAIN calls : calls[i].op # "convert"
  => data.baseAmount = Amount(data)
=============================================================================
