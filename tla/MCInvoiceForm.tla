--------------------------- MODULE MCInvoiceForm ---------------------------
(***************************************************************************)
(* Instances of InvoiceForm for TLC: in each scope the user edits a part   *)
(* of the form, and the calls that part makes are answered.                *)
(***************************************************************************)
EXTENDS InvoiceForm

Account(id, isDefault) == [id |-> id, isDefault |-> isDefault]

\* A company that gains a translation, changes its accounts and loses its director.
MCCompanies ==
  {[id |-> "co", langs |-> {"en"}, director |-> TRUE, accounts |-> <<Account("x", TRUE), Account("y", FALSE)>>],
   [id |-> "co", langs |-> {"en", "ka"}, director |-> FALSE, accounts |-> <<Account("y", TRUE)>>],
   [id |-> "co", langs |-> {"ka"}, director |-> TRUE, accounts |-> <<>>]}

MCContractors ==
  {[id |-> "c1", langs |-> {"en"}], [id |-> "c1", langs |-> {"en", "ka"}], [id |-> "c2", langs |-> {"ka"}]}

MCTrucks == {[id |-> "t1", trailer |-> "r1"], [id |-> "t2", trailer |-> None]}
MCTrailers == {"r1", "r2"}
MCMarks == {"m1", "m2"}

On(uses, types) ==
  [uses |-> uses, types |-> types, languages |-> {"en", "ka"}, currencies |-> {"USD", "GEL"},
   prices |-> {0, 18, 10000}, quantities |-> {0, Parts, 7}, rates |-> {0, 25}, since |-> 1, lines |-> 2, up |-> {}]
\* One line whose total is either nothing or one amount.
Small(sc) == [sc EXCEPT !.prices = {0, 18}, !.quantities = {Parts}, !.lines = 1]
Amounts(sc, prices) ==
  [sc EXCEPT !.prices = prices, !.languages = AllLanguages, !.quantities = {0}, !.rates = {0, 1}]
Since(sc, date) == [sc EXCEPT !.since = date]
Up(sc, up) == [sc EXCEPT !.up = up]

Invoice == {"invoice"}
Transport == {"transport_invoice"}

\* Cents, and whole amounts around the numbers where the words change their shape.
Spoken == {1, 99, 101, 1900, 2000, 2100, 4000, 9900, 10000, 11550, 20000, 99999, 100000, 100100,
           110000, 200100, 2100000, 10000000, 10000101, 1234567}

\* The bigger scales, for which the totals of the runs are too small.
Big == {999999, 1000000, 1000001, 1001000, 2000100, 21000020, 100000000, 1000000000, 1001001001, 2147483647}
ASSUME BigAmountsReadBack == \A l \in AllLanguages, n \in Big : ReadBack(Whole(l, n)) = n

MCScopes ==
  {Up(On({"items", "tax"}, Types), up) : up \in {{}, {"tax"}, {"item", "tax", "total"}}}
  \cup
  {Amounts(On({"items", "tax", "language"}, Transport), {p}) : p \in Spoken}
  \cup
  {Small(On({"items", "currency", "language", "words"}, Transport)),
   Small(On({"items", "currency", "base", "date"}, Invoice)),
   Since(Small(On({"items", "currency", "date", "save", "reload"}, Invoice)), 2),
   Small(On({"items", "type", "language", "save"}, Types)),
   Small(On({"items", "company", "save"}, Invoice)),
   Small(On({"tax", "items", "currency", "overtake", "fail"}, Invoice)),
   On({"language", "banks", "company", "save"}, Invoice),
   On({"language", "banks", "company", "race", "fail"}, Invoice),
   On({"language", "banks", "company", "save", "reload"}, Invoice),
   On({"language", "buyer", "save", "reload"}, Invoice),
   On({"language", "buyer", "save"}, Invoice),
   On({"language", "buyer", "company"}, Invoice),
   On({"language", "company", "overtake", "race"}, Invoice),
   On({"language", "buyer", "overtake", "race", "fail"}, Invoice),
   On({"vehicles", "marks", "language"}, Transport)}
=============================================================================
