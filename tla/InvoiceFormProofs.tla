------------------------- MODULE InvoiceFormProofs -------------------------
(***************************************************************************)
(* The totals of the form are those of its lines, its words are those of   *)
(* its total, its converted amount is that of what it shows, and once      *)
(* there is a company the accounts it has ticked are those of its invoice, *)
(* whatever is edited, saved, loaded or answered, and in whichever order.  *)
(* Its texts are in one language.  The words of an amount, in every        *)
(* language, read back as it.                                              *)
(***************************************************************************)
EXTENDS InvoiceForm, WellFoundedInduction, TLAPS

Fields == DOMAIN EmptyInvoice

Line == [quantity : Nat, price : Nat, total : Nat]

\* A record with the fields of an invoice, lines, and a rate that can be typed.
Form(d) == d = [f \in Fields |-> d[f]] /\ d.items \in Seq(Line) /\ d.taxRate \in 0..100

InStep(d) ==
  /\ d.subtotal = Subtotal(d.items)
  /\ d.taxAmount = TaxAmount(d.subtotal, d.taxRate)
  /\ d.total = Total(d.subtotal, d.taxRate)

\* The row of the document has its data, a stub or an invoice, and its buyer.
Row(r) == r = [data |-> r.data, buyer |-> r.buyer] /\ (IsInvoiceData(r.data) => Form(r.data))

\* There are accounts to tick, and the load of the company they are of is answered.
Ticks == ~loading /\ company # NoCompany /\ "overtake" \notin scope.uses

IInv ==
  /\ scope \in Scope
  /\ Form(data)
  /\ timer # NoDraft => Form(timer[1])
  /\ Row(saved)
  /\ ~loading => InStep(data)
  /\ Ticks => selected = data.bankIds

\* A load that was sent before there was a company.
NoneLoad(call) == call.op = "load" /\ call.body = NoCompany

\* It is answered before there is one.
LoadInv ==
  /\ calls \in Seq(Range(calls))
  /\ "overtake" \notin scope.uses => \A i \in DOMAIN calls : NoneLoad(calls[i]) => i = 1 /\ company = NoCompany

-----------------------------------------------------------------------------
(* Rounding *)

\* A rounded quotient is at most a half away from it.
LEMMA RoundedNear ==
  ASSUME NEW n \in Nat, NEW up
  PROVE  /\ Rounded(n, 100, up) \in Int
         /\ 100 * Rounded(n, 100, up) - n \in -50..50
  BY DEF Rounded

\* Total and tax of one subtotal differ by it, but for a cent.
LEMMA TotalNear ==
  ASSUME NEW s \in Nat, NEW r \in 0..100
  PROVE  Total(s, r) - (s + TaxAmount(s, r)) \in {-1, 0, 1}
<1> DEFINE x == s * r
<1>1. x \in Nat
  OBVIOUS
<1> HIDE DEF x
<1> DEFINE t == Rounded(100 * s + x, 100, "total" \in scope.up)
           a == Rounded(x, 100, "tax" \in scope.up)
<1>2. 100 * s + x \in Nat
  BY <1>1
<1>3. t \in Int /\ 100 * t - (100 * s + x) \in -50..50
  BY <1>2, RoundedNear
<1>4. a \in Int /\ 100 * a - x \in -50..50
  BY <1>1, RoundedNear
<1> HIDE DEF t, a
<1>5. t - (s + a) \in {-1, 0, 1}
  BY <1>1, <1>3, <1>4
<1> QED BY <1>5 DEF Total, TaxAmount, x, t, a

LEMMA TotalIsNatural == ASSUME NEW s \in Nat, NEW r \in 0..100 PROVE Total(s, r) \in Nat
<1> DEFINE x == s * r
           t == Rounded(100 * s + x, 100, "total" \in scope.up)
<1>1. x \in Nat
  OBVIOUS
<1> HIDE DEF x
<1>2. 100 * s + x \in Nat
  BY <1>1
<1>3. t \in Int /\ 100 * t - (100 * s + x) \in -50..50
  BY <1>2, RoundedNear
<1> HIDE DEF t
<1>4. t \in Nat
  BY <1>2, <1>3
<1> QED BY <1>4 DEF Total, x, t

-----------------------------------------------------------------------------
(* Folds.  FoldLeft goes from the first element to the last by a recursive  *)
(* function on the sets of positions.  Here its step is a table, F[i][a]    *)
(* for the i-th element and the value a so far.  The function exists, and   *)
(* keeps its values where the steps do, by induction on the positions:      *)
(* there is no first one that breaks it.                                    *)

Folding(g, F, base, n) ==
  g = [s \in SUBSET (1..n) |-> IF s = {} THEN base ELSE F[Max(s)][g[s \ {Max(s)}]]]

LEMMA Least ==
  ASSUME NEW S \in SUBSET Nat, S # {}
  PROVE  \E m \in S : \A k \in S : ~(k < m)
<1>1. PICK m \in S : \A k \in S : <<k, m>> \notin OpToRel(<, Nat)
  BY NatLessThanWellFounded, WFMin, Zenon
<1> QED BY <1>1, Zenon DEF OpToRel

\* Max of a set of positions
LEMMA MaxOf ==
  ASSUME NEW n \in Nat, NEW s \in SUBSET (1..n), s # {}
  PROVE  Max(s) \in s /\ \A y \in s : Max(s) >= y
<1>1. s \subseteq Nat /\ \E m \in Nat : \A y \in s : y <= m
  OBVIOUS
<1> DEFINE B == {m \in Nat : \A y \in s : y <= m}
<1>2. B \subseteq Nat /\ B # {}
  BY <1>1
<1> HIDE DEF B
<1>3. PICK m \in B : \A k \in B : ~(k < m)
  BY <1>2, Least
<1> USE DEF B
<1>4. m \in s
  <2> SUFFICES ASSUME m \notin s PROVE FALSE
    OBVIOUS
  <2>1. PICK y \in s : TRUE
    OBVIOUS
  <2>2. m # 0
    BY <1>3, <2>1
  <2>3. m - 1 \in B
    BY <1>3, <2>2
  <2> QED BY <1>3, <2>3
<1>5. \E x \in s : \A y \in s : x >= y
  BY <1>3, <1>4
<1> QED BY <1>5 DEF Max

LEMMA FoldingExists ==
  ASSUME NEW F, NEW base, NEW n \in Nat
  PROVE  \E g : Folding(g, F, base, n)
<1> DEFINE Bad == {k \in Nat : ~ \E g : Folding(g, F, base, k)}
<1> SUFFICES ASSUME Bad # {} PROVE FALSE
  OBVIOUS
<1>1. PICK k \in Bad : \A j \in Bad : ~(j < k)
  <2> HIDE DEF Bad
  <2>1. Bad \subseteq Nat
    BY DEF Bad
  <2> QED BY <2>1, Least
<1>0. k \in Nat
  BY <1>1
<1>2. k # 0
  <2> SUFFICES ASSUME k = 0 PROVE FALSE
    OBVIOUS
  <2> DEFINE g == [s \in SUBSET (1..0) |-> base]
  <2>1. \A s \in SUBSET (1..0) : s = {}
    OBVIOUS
  <2>2. Folding(g, F, base, 0)
    BY <2>1 DEF Folding
  <2> QED BY <2>2, <1>1
<1>3. k - 1 \in Nat /\ k - 1 \notin Bad
  BY <1>1, <1>2
<1>4. PICK h : Folding(h, F, base, k - 1)
  BY <1>3
<1> DEFINE g == [s \in SUBSET (1..k) |-> IF k \in s THEN F[k][h[s \ {k}]] ELSE h[s]]
<1>5. ASSUME NEW s \in SUBSET (1..k), s # {}
      PROVE  g[s] = F[Max(s)][g[s \ {Max(s)}]]
  <2>1. Max(s) \in s /\ Max(s) \in 1..k /\ \A y \in s : Max(s) >= y
    BY <1>0, <1>5, MaxOf
  <2> HIDE DEF Bad
  <2>2. CASE k \in s
    <3>1. Max(s) = k
      BY <1>0, <2>1, <2>2
    <3>2. s \ {k} \in SUBSET (1..k) /\ k \notin s \ {k}
      OBVIOUS
    <3> QED BY <2>2, <3>1, <3>2
  <2>3. CASE k \notin s
    <3>1. s \in SUBSET (1..(k - 1)) /\ k \notin s \ {Max(s)} /\ s \ {Max(s)} \in SUBSET (1..k)
      <4>1. \A x \in s : x \in 1..(k - 1)
        BY <1>0, <2>3
      <4> QED BY <4>1, <2>3
    <3>2. h[s] = F[Max(s)][h[s \ {Max(s)}]]
      BY <1>4, <1>5, <3>1 DEF Folding
    <3> QED BY <2>3, <3>1, <3>2
  <2> QED BY <2>2, <2>3
<1>6. g[{}] = base
  <2>1. {} \in SUBSET (1..k) /\ {} \in SUBSET (1..(k - 1)) /\ k \notin {}
    OBVIOUS
  <2>2. h[{}] = base
    BY <1>4, <2>1 DEF Folding
  <2> QED BY <2>1, <2>2
<1>7. Folding(g, F, base, k)
  <2>1. g = [s \in SUBSET (1..k) |-> g[s]]
    OBVIOUS
  <2> HIDE DEF g
  <2>2. \A s \in SUBSET (1..k) : g[s] = IF s = {} THEN base ELSE F[Max(s)][g[s \ {Max(s)}]]
    BY <1>5, <1>6
  <2> QED BY <2>1, <2>2 DEF Folding
<1> QED BY <1>1, <1>7

\* The values stay in a set that the steps do not leave.
LEMMA FoldingValues ==
  ASSUME NEW n \in Nat, NEW V, NEW base \in V, NEW F,
         \A i \in 1..n : \A a \in V : F[i][a] \in V,
         NEW g, Folding(g, F, base, n)
  PROVE  \A s \in SUBSET (1..n) : g[s] \in V
<1> DEFINE Bad == {k \in 0..n : \E s \in SUBSET (1..k) : g[s] \notin V}
<1> SUFFICES ASSUME Bad # {} PROVE FALSE
  <2>1. n \notin Bad => \A s \in SUBSET (1..n) : g[s] \in V
    OBVIOUS
  <2> QED BY <2>1
<1>1. PICK k \in Bad : \A j \in Bad : ~(j < k)
  <2>1. Bad \subseteq Nat
    OBVIOUS
  <2> HIDE DEF Bad
  <2> QED BY <2>1, Least
<1>2. PICK s \in SUBSET (1..k) : g[s] \notin V
  BY <1>1
<1>0. k \in 0..n
  BY <1>1
<1>3. s \in SUBSET (1..n)
  BY <1>0
<1>10. g[s] = IF s = {} THEN base ELSE F[Max(s)][g[s \ {Max(s)}]]
  BY <1>3 DEF Folding
<1>4. s # {}
  BY <1>2, <1>10
<1>5. Max(s) \in s /\ Max(s) \in 1..k /\ \A y \in s : Max(s) >= y
  BY <1>3, <1>4, MaxOf
<1>6. Max(s) - 1 \in 0..n /\ Max(s) - 1 < k
  BY <1>0, <1>5
<1>7. s \ {Max(s)} \in SUBSET (1..(Max(s) - 1))
  <2>1. \A x \in s : x # Max(s) => x \in 1..(Max(s) - 1)
    BY <1>0, <1>3, <1>5
  <2> QED BY <2>1
<1>8. g[s \ {Max(s)}] \in V
  BY <1>1, <1>6, <1>7
<1>9. Max(s) \in 1..n
  BY <1>3, <1>5
<1> HIDE DEF Bad
<1> QED BY <1>2, <1>10, <1>4, <1>8, <1>9

\* On the first positions the function does one step after the other.
LEMMA FoldingSteps ==
  ASSUME NEW n \in Nat, NEW base, NEW F, NEW g, Folding(g, F, base, n)
  PROVE  /\ g[1..0] = base
         /\ \A k \in 1..n : g[1..k] = F[k][g[1..(k - 1)]]
<1>1. g[1..0] = base
  <2>1. 1..0 = {}
    OBVIOUS
  <2> QED BY <2>1 DEF Folding
<1>2. ASSUME NEW k \in 1..n PROVE g[1..k] = F[k][g[1..(k - 1)]]
  <2>1. 1..k \in SUBSET (1..n) /\ 1..k # {} /\ k \in 1..k
    OBVIOUS
  <2>2. Max(1..k) \in 1..k /\ Max(1..k) >= k
    BY <2>1, MaxOf
  <2>3. Max(1..k) = k
    BY <2>2
  <2>4. (1..k) \ {k} = 1..(k - 1)
    OBVIOUS
  <2> QED BY <2>1, <2>3, <2>4 DEF Folding
<1> QED BY <1>1, <1>2

-----------------------------------------------------------------------------
(* The sum of the lines                                                     *)

\* The sums after each line.
Summing(items, p) ==
  /\ p \in [0..Len(items) -> Nat] /\ p[0] = 0
  /\ \A k \in 1..Len(items) : p[k] = p[k - 1] + items[k].total

LEMMA SubtotalIs ==
  ASSUME NEW items \in Seq(Line)
  PROVE  \E p : Summing(items, p) /\ Subtotal(items) = p[Len(items)]
<1> DEFINE n == Len(items)
           Sums(g) == g = [s \in SUBSET (1..n) |->
                            IF s = {} THEN 0 ELSE g[s \ {Max(s)}] + items[Max(s)].total]
<1>1. n \in Nat /\ DOMAIN items = 1..n /\ \A i \in 1..n : items[i].total \in Nat
  <2>1. \A i \in 1..n : items[i] \in Line
    OBVIOUS
  <2> QED BY <2>1 DEF Line
<1> HIDE DEF n
<1>2. \E g : Sums(g)
  <2> DEFINE F == [i \in 1..n |-> [a \in Nat |-> a + items[i].total]]
  <2>1. \A i \in 1..n : \A a \in Nat : F[i][a] = a + items[i].total /\ F[i][a] \in Nat
    BY <1>1
  <2> HIDE DEF F
  <2>2. PICK g : Folding(g, F, 0, n)
    BY <1>1, FoldingExists
  <2>3. \A s \in SUBSET (1..n) : g[s] \in Nat
    BY <1>1, <2>1, <2>2, FoldingValues
  <2>4. ASSUME NEW s \in SUBSET (1..n)
        PROVE  g[s] = IF s = {} THEN 0 ELSE g[s \ {Max(s)}] + items[Max(s)].total
    <3>1. s # {} => Max(s) \in 1..n
      BY <1>1, MaxOf
    <3>2. g[s \ {Max(s)}] \in Nat
      BY <2>3
    <3> QED BY <2>1, <2>2, <3>1, <3>2 DEF Folding
  <2>5. g = [s \in SUBSET (1..n) |-> g[s]]
    BY <2>2 DEF Folding
  <2>6. Sums(g)
    BY <2>4, <2>5
  <2> QED BY <2>6
<1> DEFINE g == CHOOSE g : Sums(g)
<1>3. Sums(g)
  BY <1>2
<1>4. Subtotal(items) = g[1..n]
  BY <1>1 DEF Subtotal, FoldLeft, MapThenFoldSet
<1> HIDE DEF g
<1> DEFINE V == Nat \cup {g[s] : s \in SUBSET (1..n)}
           F == [i \in 1..n |-> [a \in V |-> a + items[i].total]]
<1>5. \A i \in 1..n : \A a \in V : F[i][a] = a + items[i].total
  OBVIOUS
<1>6. \A s \in SUBSET (1..n) : g[s \ {Max(s)}] \in V
  OBVIOUS
<1>7. Nat \subseteq V
  OBVIOUS
<1> HIDE DEF V, F
<1>8. Folding(g, F, 0, n)
  <2>1. ASSUME NEW s \in SUBSET (1..n)
        PROVE  g[s] = IF s = {} THEN 0 ELSE F[Max(s)][g[s \ {Max(s)}]]
    <3>1. s # {} => Max(s) \in 1..n
      BY <1>1, MaxOf
    <3> QED BY <1>3, <1>5, <1>6, <3>1
  <2>2. g = [s \in SUBSET (1..n) |-> g[s]]
    BY <1>3
  <2> QED BY <2>1, <2>2 DEF Folding
<1>9. \A s \in SUBSET (1..n) : g[s] \in Nat
  <2>1. ASSUME NEW i \in 1..n, NEW a \in Nat PROVE F[i][a] \in Nat
    <3>1. a \in V
      BY <1>7
    <3>2. F[i][a] = a + items[i].total /\ items[i].total \in Nat
      BY <1>1, <1>5, <3>1
    <3> QED BY <3>2
  <2>2. 0 \in Nat
    OBVIOUS
  <2> QED BY <1>1, <1>8, <2>1, <2>2, FoldingValues
<1> DEFINE p == [k \in 0..n |-> g[1..k]]
<1>10. g[1..0] = 0 /\ \A k \in 1..n : g[1..k] = F[k][g[1..(k - 1)]]
  BY <1>1, <1>8, FoldingSteps
<1>11. \A k \in 0..n : g[1..k] \in Nat
  BY <1>1, <1>9
<1>12. Summing(items, p)
  <2>1. ASSUME NEW k \in 1..n PROVE p[k] = p[k - 1] + items[k].total
    <3>1. k - 1 \in 0..n /\ g[1..(k - 1)] \in V
      BY <1>1, <1>7, <1>11
    <3> QED BY <1>1, <1>5, <1>10, <3>1
  <2>2. p \in [0..n -> Nat] /\ p[0] = 0
    BY <1>1, <1>10, <1>11
  <2> HIDE DEF p
  <2> QED BY <2>1, <2>2 DEF Summing, n
<1> QED BY <1>1, <1>4, <1>12 DEF n

LEMMA SubtotalNatural == ASSUME NEW items \in Seq(Line) PROVE Subtotal(items) \in Nat
BY SubtotalIs DEF Summing

\* What has been picked after k elements.
Picking(s, S, p) ==
  /\ p \in [0..Len(s) -> Seq(Range(s))] /\ p[0] = <<>>
  /\ \A k \in 1..Len(s) : p[k] = IF s[k] \in S THEN Append(p[k - 1], s[k]) ELSE p[k - 1]

LEMMA PickedIs ==
  ASSUME NEW R, NEW s \in Seq(R), NEW S
  PROVE  \E p : Picking(s, S, p) /\ Picked(s, S) = p[Len(s)]
<1> DEFINE n == Len(s)
           X == Seq(Range(s))
           Then(out, x) == IF x \in S THEN Append(out, x) ELSE out
           Picks(g) == g = [t \in SUBSET (1..n) |->
                             IF t = {} THEN <<>> ELSE Then(g[t \ {Max(t)}], s[Max(t)])]
<1>1. n \in Nat /\ DOMAIN s = 1..n /\ \A i \in 1..n : s[i] \in Range(s)
  BY DEF Range
<1>2. <<>> \in X
  OBVIOUS
<1>3. \A i \in 1..n : \A a \in X : Then(a, s[i]) \in X
  BY <1>1
<1> HIDE DEF n, X
<1>4. \E g : Picks(g)
  <2> DEFINE F == [i \in 1..n |-> [a \in X |-> Then(a, s[i])]]
  <2>1. \A i \in 1..n : \A a \in X : F[i][a] = Then(a, s[i]) /\ F[i][a] \in X
    BY <1>3
  <2> HIDE DEF F
  <2>2. PICK g : Folding(g, F, <<>>, n)
    BY <1>1, FoldingExists
  <2>3. \A t \in SUBSET (1..n) : g[t] \in X
    BY <1>1, <1>2, <2>1, <2>2, FoldingValues
  <2>4. ASSUME NEW t \in SUBSET (1..n)
        PROVE  g[t] = IF t = {} THEN <<>> ELSE Then(g[t \ {Max(t)}], s[Max(t)])
    <3>1. t # {} => Max(t) \in 1..n
      BY <1>1, MaxOf
    <3>2. g[t \ {Max(t)}] \in X
      BY <2>3
    <3> HIDE DEF Then
    <3> QED BY <2>1, <2>2, <3>1, <3>2 DEF Folding
  <2>5. g = [t \in SUBSET (1..n) |-> g[t]]
    BY <2>2 DEF Folding
  <2> HIDE DEF Then
  <2>6. Picks(g)
    BY <2>4, <2>5
  <2> QED BY <2>6
<1> DEFINE g == CHOOSE g : Picks(g)
<1>5. Picks(g)
  BY <1>4, Zenon
<1>6. Picked(s, S) = g[1..n]
  BY <1>1 DEF Picked, FoldLeft, MapThenFoldSet
<1> HIDE DEF g
<1> DEFINE V == X \cup {g[t] : t \in SUBSET (1..n)}
           F == [i \in 1..n |-> [a \in V |-> Then(a, s[i])]]
<1>7. \A i \in 1..n : \A a \in V : F[i][a] = Then(a, s[i])
  OBVIOUS
<1>8. \A t \in SUBSET (1..n) : g[t \ {Max(t)}] \in V
  OBVIOUS
<1>9. X \subseteq V
  OBVIOUS
<1> HIDE DEF V, F
<1>10. Folding(g, F, <<>>, n)
  <2>1. ASSUME NEW t \in SUBSET (1..n)
        PROVE  g[t] = IF t = {} THEN <<>> ELSE F[Max(t)][g[t \ {Max(t)}]]
    <3>1. t # {} => Max(t) \in 1..n
      BY <1>1, MaxOf
    <3>2. g[t] = IF t = {} THEN <<>> ELSE Then(g[t \ {Max(t)}], s[Max(t)])
      BY <1>5
    <3> HIDE DEF Then
    <3> QED BY <1>7, <1>8, <3>1, <3>2
  <2>2. g = [t \in SUBSET (1..n) |-> g[t]]
    BY <1>5
  <2> QED BY <2>1, <2>2 DEF Folding
<1>11. \A t \in SUBSET (1..n) : g[t] \in X
  <2>1. ASSUME NEW i \in 1..n, NEW a \in X PROVE F[i][a] \in X
    <3> HIDE DEF Then
    <3> QED BY <1>3, <1>7, <1>9
  <2> QED BY <1>1, <1>2, <1>10, <2>1, FoldingValues
<1> DEFINE p == [k \in 0..n |-> g[1..k]]
<1>12. g[1..0] = <<>> /\ \A k \in 1..n : g[1..k] = F[k][g[1..(k - 1)]]
  BY <1>1, <1>10, FoldingSteps
<1>13. \A k \in 0..n : g[1..k] \in X
  BY <1>1, <1>11
<1>14. Picking(s, S, p)
  <2>1. ASSUME NEW k \in 1..n PROVE p[k] = Then(p[k - 1], s[k])
    <3>1. k - 1 \in 0..n /\ g[1..(k - 1)] \in V
      BY <1>1, <1>9, <1>13
    <3> HIDE DEF Then
    <3> QED BY <1>1, <1>7, <1>12, <3>1
  <2>2. p \in [0..n -> X] /\ p[0] = <<>>
    BY <1>1, <1>12, <1>13
  <2> HIDE DEF p
  <2> QED BY <2>1, <2>2 DEF Picking, n, X
<1> QED BY <1>1, <1>6, <1>14 DEF n

LEMMA PickedIn ==
  ASSUME NEW R, NEW s \in Seq(R), NEW S
  PROVE  Picked(s, S) \in Seq(S)
<1>1. PICK p : Picking(s, S, p) /\ Picked(s, S) = p[Len(s)]
  BY PickedIs
<1> DEFINE Bad == {k \in 0..Len(s) : p[k] \notin Seq(S)}
<1> SUFFICES ASSUME Bad # {} PROVE FALSE
  BY <1>1
<1>2. PICK k \in Bad : \A j \in Bad : ~(j < k)
  <2>1. Bad \subseteq Nat
    OBVIOUS
  <2> HIDE DEF Bad
  <2> QED BY <2>1, Least
<1>3. k # 0
  <2>1. p[0] = <<>> /\ <<>> \in Seq(S)
    BY <1>1 DEF Picking
  <2> QED BY <1>2, <2>1
<1>4. k \in 1..Len(s) /\ k - 1 \in 0..Len(s) /\ p[k - 1] \in Seq(S)
  BY <1>2, <1>3
<1>5. p[k] = p[k - 1] \/ (s[k] \in S /\ p[k] = Append(p[k - 1], s[k]))
  BY <1>1, <1>4 DEF Picking
<1>6. p[k] \in Seq(S)
  <2>1. PICK a \in Seq(S) : a = p[k - 1]
    BY <1>4
  <2>2. \A x \in S : Append(a, x) \in Seq(S)
    OBVIOUS
  <2> QED BY <1>5, <2>1, <2>2
<1> QED BY <1>2, <1>6

\* Nothing is left out when all are in the set.
LEMMA PickedAll ==
  ASSUME NEW S, NEW s \in Seq(S)
  PROVE  Picked(s, S) = s
<1>1. PICK p : Picking(s, S, p) /\ Picked(s, S) = p[Len(s)]
  BY PickedIs
<1> DEFINE All(k) == Len(p[k]) = k /\ \A j \in 1..k : p[k][j] = s[j]
           Bad == {k \in 0..Len(s) : ~All(k)}
<1>2. Bad = {}
  <2> SUFFICES ASSUME Bad # {} PROVE FALSE
    OBVIOUS
  <2>1. PICK k \in Bad : \A j \in Bad : ~(j < k)
    <3>1. Bad \subseteq Nat
      OBVIOUS
    <3> HIDE DEF Bad
    <3> QED BY <3>1, Least
  <2>2. k # 0
    <3>1. All(0)
      BY <1>1 DEF Picking
    <3> QED BY <2>1, <3>1
  <2>3. k \in 1..Len(s) /\ k - 1 \in 0..Len(s)
    BY <2>1, <2>2
  <2>6. All(k - 1)
    <3>1. k - 1 \notin Bad
      BY <2>1, <2>3
    <3> HIDE DEF All
    <3> QED BY <2>3, <3>1
  <2>4. p[k] = Append(p[k - 1], s[k]) /\ p[k - 1] \in Seq(Range(s)) /\ s[k] \in Range(s)
    <3>1. s[k] \in S /\ s[k] \in Range(s)
      BY <2>3 DEF Range
    <3>2. p[k - 1] \in Seq(Range(s))
      BY <1>1, <2>3 DEF Picking
    <3> QED BY <1>1, <2>3, <3>1, <3>2 DEF Picking
  <2>5. All(k)
    <3>1. PICK a \in Seq(Range(s)) : a = p[k - 1]
      BY <2>4
    <3>2. Len(a) = k - 1 /\ \A j \in 1..(k - 1) : a[j] = s[j]
      BY <2>6, <3>1
    <3>3. p[k] = Append(a, s[k])
      BY <2>4, <3>1
    <3>4. Len(Append(a, s[k])) = k /\ \A j \in 1..k : Append(a, s[k])[j] = s[j]
      BY <2>3, <3>2
    <3> QED BY <3>3, <3>4
  <2> QED BY <2>1, <2>5
<1>3. PICK a : a = Picked(s, S)
  OBVIOUS
<1>4. a \in Seq(Range(s)) /\ Len(a) = Len(s) /\ \A j \in 1..Len(s) : a[j] = s[j]
  <2>1. Len(s) \in 0..Len(s)
    OBVIOUS
  <2>2. All(Len(s))
    BY <1>2, <2>1
  <2> QED BY <1>1, <1>3, <2>1, <2>2 DEF Picking
<1>5. a = [j \in 1..Len(s) |-> a[j]] /\ s = [j \in 1..Len(s) |-> s[j]]
  BY <1>4
<1>6. a = s
  BY <1>4, <1>5
<1> QED BY <1>3, <1>6

-----------------------------------------------------------------------------
(* Reading the words back                                                   *)

Reader == [sum : Nat, group : Nat]
At(sum, group) == [sum |-> sum, group |-> group]

\* What a word does, by what it is.
LEMMA HeardIs ==
  ASSUME NEW sum, NEW group, NEW w \in Nat
  PROVE  LET times == IF group = 0 THEN 1 ELSE group IN
         Heard(At(sum, group), w) = IF w >= 1000 THEN At(sum + times * w, 0)
                                    ELSE IF w = 100 THEN At(sum, times * 100) ELSE At(sum, group + w)
<1> DEFINE times == IF group = 0 THEN 1 ELSE group
<1> HIDE DEF times
<1>1. At(sum, group).sum = sum /\ At(sum, group).group = group
  BY DEF At
<1>2. \A v : [At(sum, group) EXCEPT !.group = v] = At(sum, v)
  BY DEF At
<1>3. [At(sum, group) EXCEPT !.group = @ + w] = At(sum, group + w)
  BY DEF At
<1>4. CASE w >= 1000
  BY <1>1, <1>4 DEF Heard, At, times
<1>5. CASE w = 100
  BY <1>1, <1>2, <1>5 DEF Heard, times
<1>6. CASE ~(w >= 1000) /\ w # 100
  BY <1>1, <1>3, <1>6 DEF Heard, times
<1> QED BY <1>4, <1>5, <1>6 DEF times

LEMMA HeardReader ==
  ASSUME NEW r \in Reader, NEW w \in Nat
  PROVE  Heard(r, w) \in Reader
<1>1. PICK sum \in Nat : \E group \in Nat : r = At(sum, group)
  BY DEF Reader, At
<1>2. PICK group \in Nat : r = At(sum, group)
  BY <1>1
<1> DEFINE times == IF group = 0 THEN 1 ELSE group
<1>3. times \in Nat /\ times * w \in Nat /\ times * 100 \in Nat
  OBVIOUS
<1>4. \A x \in Nat, y \in Nat : At(x, y) \in Reader
  BY DEF At, Reader
<1>5. Heard(r, w) = IF w >= 1000 THEN At(sum + times * w, 0)
                    ELSE IF w = 100 THEN At(sum, times * 100) ELSE At(sum, group + w)
  BY <1>2, HeardIs
<1> HIDE DEF times
<1> QED BY <1>3, <1>4, <1>5

\* What the reader has after each word.
Reading(said, r, p) ==
  /\ p \in [0..Len(said) -> Reader] /\ p[0] = r
  /\ \A k \in 1..Len(said) : p[k] = Heard(p[k - 1], said[k])

Reads(said, r, q) == \E p : Reading(said, r, p) /\ p[Len(said)] = q

LEMMA ReadBackIs ==
  ASSUME NEW said \in Seq(Nat)
  PROVE  \E q : Reads(said, At(0, 0), q) /\ ReadBack(said) = q.sum + q.group
<1> DEFINE n == Len(said)
           r == At(0, 0)
           Hears(g) == g = [s \in SUBSET (1..n) |->
                             IF s = {} THEN r ELSE Heard(g[s \ {Max(s)}], said[Max(s)])]
<1>1. n \in Nat /\ DOMAIN said = 1..n /\ \A i \in 1..n : said[i] \in Nat
  OBVIOUS
<1>2. r \in Reader
  BY DEF At, Reader
<1> HIDE DEF n, r
<1>3. \E g : Hears(g)
  <2> DEFINE F == [i \in 1..n |-> [a \in Reader |-> Heard(a, said[i])]]
  <2>1. \A i \in 1..n : \A a \in Reader : F[i][a] = Heard(a, said[i]) /\ F[i][a] \in Reader
    BY <1>1, HeardReader
  <2> HIDE DEF F
  <2>2. PICK g : Folding(g, F, r, n)
    BY <1>1, FoldingExists
  <2>3. \A s \in SUBSET (1..n) : g[s] \in Reader
    BY <1>1, <1>2, <2>1, <2>2, FoldingValues
  <2>4. ASSUME NEW s \in SUBSET (1..n)
        PROVE  g[s] = IF s = {} THEN r ELSE Heard(g[s \ {Max(s)}], said[Max(s)])
    <3>1. s # {} => Max(s) \in 1..n
      BY <1>1, MaxOf
    <3>2. g[s \ {Max(s)}] \in Reader
      BY <2>3
    <3> QED BY <2>1, <2>2, <3>1, <3>2 DEF Folding
  <2>5. g = [s \in SUBSET (1..n) |-> g[s]]
    BY <2>2 DEF Folding
  <2>6. Hears(g)
    BY <2>4, <2>5
  <2> QED BY <2>6
<1> DEFINE g == CHOOSE g : Hears(g)
<1>4. Hears(g)
  BY <1>3
<1>5. ReadBack(said) = g[1..n].sum + g[1..n].group
  BY <1>1 DEF ReadBack, FoldLeft, MapThenFoldSet, r, At
<1> HIDE DEF g
<1> DEFINE V == Reader \cup {g[s] : s \in SUBSET (1..n)}
           F == [i \in 1..n |-> [a \in V |-> Heard(a, said[i])]]
<1>6. \A i \in 1..n : \A a \in V : F[i][a] = Heard(a, said[i])
  OBVIOUS
<1>7. \A s \in SUBSET (1..n) : g[s \ {Max(s)}] \in V
  OBVIOUS
<1>8. Reader \subseteq V
  OBVIOUS
<1> HIDE DEF V, F
<1>9. Folding(g, F, r, n)
  <2>1. ASSUME NEW s \in SUBSET (1..n)
        PROVE  g[s] = IF s = {} THEN r ELSE F[Max(s)][g[s \ {Max(s)}]]
    <3>1. s # {} => Max(s) \in 1..n
      BY <1>1, MaxOf
    <3> QED BY <1>4, <1>6, <1>7, <3>1
  <2>2. g = [s \in SUBSET (1..n) |-> g[s]]
    BY <1>4
  <2> QED BY <2>1, <2>2 DEF Folding
<1>10. \A s \in SUBSET (1..n) : g[s] \in Reader
  <2>1. ASSUME NEW i \in 1..n, NEW a \in Reader PROVE F[i][a] \in Reader
    <3>1. F[i][a] = Heard(a, said[i]) /\ said[i] \in Nat
      BY <1>1, <1>6, <1>8
    <3> QED BY <3>1, HeardReader
  <2> QED BY <1>1, <1>2, <1>9, <2>1, FoldingValues
<1> DEFINE p == [k \in 0..n |-> g[1..k]]
<1>11. g[1..0] = r /\ \A k \in 1..n : g[1..k] = F[k][g[1..(k - 1)]]
  BY <1>1, <1>9, FoldingSteps
<1>12. \A k \in 0..n : g[1..k] \in Reader
  BY <1>1, <1>10
<1>13. Reading(said, r, p) /\ p[n] = g[1..n]
  <2>1. ASSUME NEW k \in 1..n PROVE p[k] = Heard(p[k - 1], said[k])
    <3>1. k - 1 \in 0..n /\ g[1..(k - 1)] \in V
      BY <1>1, <1>8, <1>12
    <3> QED BY <1>1, <1>6, <1>11, <3>1
  <2>2. p \in [0..n -> Reader] /\ p[0] = r /\ p[n] = g[1..n]
    BY <1>1, <1>11, <1>12
  <2> HIDE DEF p
  <2> QED BY <2>1, <2>2 DEF Reading, n
<1> HIDE DEF p
<1>14. Reads(said, r, g[1..n])
  BY <1>13 DEF Reads, n
<1> QED BY <1>5, <1>14 DEF r

\* There is one way to read.
LEMMA ReadsOne ==
  ASSUME NEW said \in Seq(Nat), NEW r, NEW q, NEW v, Reads(said, r, q), Reads(said, r, v)
  PROVE  q = v
<1>1. PICK p : Reading(said, r, p) /\ p[Len(said)] = q
  BY DEF Reads
<1>2. PICK o : Reading(said, r, o) /\ o[Len(said)] = v
  BY DEF Reads
<1> DEFINE Bad == {k \in 0..Len(said) : p[k] # o[k]}
<1> SUFFICES ASSUME Bad # {} PROVE FALSE
  BY <1>1, <1>2
<1>3. PICK k \in Bad : \A j \in Bad : ~(j < k)
  <2>1. Bad \subseteq Nat
    OBVIOUS
  <2> HIDE DEF Bad
  <2> QED BY <2>1, Least
<1>4. k # 0
  BY <1>1, <1>2, <1>3 DEF Reading
<1>5. k \in 1..Len(said) /\ k - 1 \in 0..Len(said) /\ k - 1 \notin Bad
  BY <1>3, <1>4
<1>6. p[k] = Heard(p[k - 1], said[k]) /\ o[k] = Heard(o[k - 1], said[k])
  BY <1>1, <1>2, <1>5 DEF Reading
<1> QED BY <1>3, <1>5, <1>6

LEMMA ReadsNothing == ASSUME NEW r \in Reader PROVE Reads(<<>>, r, r)
<1> DEFINE p == [k \in 0..0 |-> r]
<1>1. Reading(<<>>, r, p) /\ p[Len(<<>>)] = r
  BY DEF Reading
<1> QED BY <1>1 DEF Reads

LEMMA ReadsWord ==
  ASSUME NEW r \in Reader, NEW w \in Nat
  PROVE  Reads(<<w>>, r, Heard(r, w))
<1> DEFINE p == [k \in 0..1 |-> IF k = 0 THEN r ELSE Heard(r, w)]
<1>1. Heard(r, w) \in Reader
  BY HeardReader
<1>2. p \in [0..1 -> Reader] /\ p[0] = r /\ p[1] = Heard(r, w)
  BY <1>1
<1>3. Len(<<w>>) = 1 /\ <<w>>[1] = w
  OBVIOUS
<1> HIDE DEF p
<1>4. Reading(<<w>>, r, p)
  BY <1>2, <1>3 DEF Reading
<1> QED BY <1>2, <1>3, <1>4 DEF Reads

\* Reading on
LEMMA ReadsOn ==
  ASSUME NEW said \in Seq(Nat), NEW more \in Seq(Nat), NEW r, NEW q, NEW v,
         Reads(said, r, q), Reads(more, q, v)
  PROVE  said \o more \in Seq(Nat) /\ Reads(said \o more, r, v)
<1>1. PICK p : Reading(said, r, p) /\ p[Len(said)] = q
  BY DEF Reads
<1>2. PICK o : Reading(more, q, o) /\ o[Len(more)] = v
  BY DEF Reads
<1> DEFINE all == said \o more
           m == Len(said)
           n == Len(more)
           s == [k \in 0..(m + n) |-> IF k <= m THEN p[k] ELSE o[k - m]]
<1>3. /\ all \in Seq(Nat) /\ Len(all) = m + n /\ m \in Nat /\ n \in Nat
      /\ \A k \in 1..m : all[k] = said[k]
      /\ \A k \in 1..n : all[m + k] = more[k]
  OBVIOUS
<1> HIDE DEF all, m, n
<1>4. /\ p \in [0..m -> Reader] /\ p[0] = r /\ p[m] = q
      /\ \A k \in 1..m : p[k] = Heard(p[k - 1], said[k])
      /\ o \in [0..n -> Reader] /\ o[0] = q /\ o[n] = v
      /\ \A k \in 1..n : o[k] = Heard(o[k - 1], more[k])
  BY <1>1, <1>2 DEF Reading, m, n
<1>5. s \in [0..(m + n) -> Reader] /\ s[0] = r /\ s[m + n] = v
  BY <1>3, <1>4
<1>6. ASSUME NEW k \in 1..(m + n) PROVE s[k] = Heard(s[k - 1], all[k])
  <2>1. CASE k <= m
    <3>1. k \in 1..m /\ s[k] = p[k] /\ s[k - 1] = p[k - 1]
      BY <1>3, <2>1
    <3> QED BY <1>3, <1>4, <3>1
  <2>2. CASE k > m
    <3> DEFINE j == k - m
    <3>1. j \in 1..n /\ k = m + j /\ s[k] = o[j]
      BY <1>3, <2>2
    <3>2. s[k - 1] = o[j - 1]
      <4>1. CASE j = 1
        <5>1. k - 1 = m /\ m \in 0..(m + n) /\ m <= m
          BY <1>3, <3>1, <4>1
        <5> QED BY <1>4, <4>1, <5>1
      <4>2. CASE j # 1
        BY <1>3, <3>1, <4>2
      <4> QED BY <4>1, <4>2
    <3> HIDE DEF j
    <3> QED BY <1>3, <1>4, <3>1, <3>2
  <2> QED BY <1>3, <2>1, <2>2
<1> HIDE DEF s
<1>7. Reading(all, r, s)
  BY <1>3, <1>5, <1>6 DEF Reading
<1>8. Reads(all, r, v)
  BY <1>3, <1>5, <1>7 DEF Reads
<1> QED BY <1>3, <1>8 DEF all

\* Words that are read from one state of the reader to another.
Says(said, r, q) == said \in Seq(Nat) /\ Reads(said, r, q)

LEMMA SaysOn ==
  ASSUME NEW said, NEW more, NEW r, NEW q, NEW v, Says(said, r, q), Says(more, q, v)
  PROVE  Says(said \o more, r, v)
BY ReadsOn DEF Says

LEMMA SaysNothing == ASSUME NEW sum \in Nat, NEW group \in Nat PROVE Says(<<>>, At(sum, group), At(sum, group))
<1>1. At(sum, group) \in Reader
  BY DEF At, Reader
<1> QED BY <1>1, ReadsNothing DEF Says

LEMMA SaysOne ==
  ASSUME NEW sum \in Nat, NEW group \in Nat, NEW w \in Nat
  PROVE  LET times == IF group = 0 THEN 1 ELSE group IN
         Says(<<w>>, At(sum, group), IF w >= 1000 THEN At(sum + times * w, 0)
                                     ELSE IF w = 100 THEN At(sum, times * 100) ELSE At(sum, group + w))
<1>1. At(sum, group) \in Reader
  BY DEF At, Reader
<1>2. Says(<<w>>, At(sum, group), Heard(At(sum, group), w))
  BY <1>1, ReadsWord DEF Says
<1> QED BY <1>2, HeardIs

UpTo9 == 0..9
UpTo99 == 0..99
UpTo999 == 0..999
OneWord == (0..999) \ {100}

\* A number that is one word is added, unless it is a hundred or a scale.
LEMMA SaysWord ==
  ASSUME NEW sum \in Nat, NEW group \in Nat, NEW n \in OneWord
  PROVE  Says(Word(n), At(sum, group), At(sum, group + n))
<1>1. CASE n = 0
  <2>1. Word(n) = <<>> /\ group + n = group
    BY <1>1 DEF Word
  <2> QED BY <2>1, SaysNothing
<1>2. CASE n # 0
  <2>1. n \in Nat /\ ~(n >= 1000) /\ n # 100
    BY DEF OneWord
  <2>2. Says(<<n>>, At(sum, group), At(sum, group + n))
    BY <2>1, SaysOne
  <2> QED BY <1>2, <2>2 DEF Word
<1> QED BY <1>1, <1>2

\* The words of a number are added up, whichever way a language splits it.
LEMMA SaysTwo ==
  ASSUME NEW sum \in Nat, NEW group \in Nat, NEW m \in UpTo99, NEW n \in UpTo99
  PROVE  Says(Word(m) \o Word(n), At(sum, group), At(sum, (group + m) + n))
<1>1. m \in OneWord /\ n \in OneWord
  BY DEF UpTo99, OneWord
<1>2. group + m \in Nat
  BY DEF UpTo99
<1>3. Says(Word(m), At(sum, group), At(sum, group + m))
  BY <1>1, SaysWord, Zenon
<1>4. Says(Word(n), At(sum, group + m), At(sum, (group + m) + n))
  BY <1>1, <1>2, SaysWord, Zenon
<1> QED BY <1>3, <1>4, SaysOn, Zenon

LEMMA SaysUnder100 ==
  ASSUME NEW sum \in Nat, NEW group \in Nat, NEW lang, NEW n \in UpTo99
  PROVE  Says(Under100(lang, n), At(sum, group), At(sum, group + n))
<1>1. CASE lang = "ka"
  <2>1. n - (n % 20) \in UpTo99 /\ n % 20 \in UpTo99 /\ (group + (n - (n % 20))) + (n % 20) = group + n
    BY DEF UpTo99
  <2>2. Says(Word(n - (n % 20)) \o Word(n % 20), At(sum, group), At(sum, (group + (n - (n % 20))) + (n % 20)))
    BY <2>1, SaysTwo, Zenon
  <2>3. Under100(lang, n) = Word(n - (n % 20)) \o Word(n % 20)
    BY <1>1 DEF Under100
  <2> QED BY <2>1, <2>2, <2>3, Zenon
<1>2. CASE lang # "ka" /\ (n >= 20 \/ lang = "tr")
  <2>1. n - (n % 10) \in UpTo99 /\ n % 10 \in UpTo99 /\ (group + (n - (n % 10))) + (n % 10) = group + n
    BY DEF UpTo99
  <2>2. Says(Word(n - (n % 10)) \o Word(n % 10), At(sum, group), At(sum, (group + (n - (n % 10))) + (n % 10)))
    BY <2>1, SaysTwo, Zenon
  <2>3. Under100(lang, n) = Word(n - (n % 10)) \o Word(n % 10)
    BY <1>2 DEF Under100
  <2> QED BY <2>1, <2>2, <2>3, Zenon
<1>3. CASE lang # "ka" /\ ~(n >= 20 \/ lang = "tr")
  <2>1. n \in OneWord
    BY DEF UpTo99, OneWord
  <2>2. Says(Word(n), At(sum, group), At(sum, group + n))
    BY <2>1, SaysWord, Zenon
  <2>3. Under100(lang, n) = Word(n)
    BY <1>3 DEF Under100
  <2> QED BY <2>2, <2>3, Zenon
<1> QED BY <1>1, <1>2, <1>3

\* What one word does to a reader with nothing pending, or with a pending hundreds digit.
LEMMA SaysScale ==
  ASSUME NEW sum \in Nat, NEW group \in Nat \ {0}, NEW w \in Nat, w >= 1000
  PROVE  /\ Says(<<w>>, At(sum, 0), At(sum + w, 0))
         /\ Says(<<w>>, At(sum, group), At(sum + group * w, 0))
<1>1. Says(<<w>>, At(sum, 0), At(sum + 1 * w, 0))
  BY SaysOne
<1>2. sum + 1 * w = sum + w
  OBVIOUS
<1>3. Says(<<w>>, At(sum, group), At(sum + group * w, 0))
  BY SaysOne
<1> QED BY <1>1, <1>2, <1>3, Zenon

LEMMA SaysHundred ==
  ASSUME NEW sum \in Nat, NEW group \in Nat \ {0}
  PROVE  /\ Says(<<100>>, At(sum, 0), At(sum, 100))
         /\ Says(<<100>>, At(sum, group), At(sum, 100 * group))
<1>1. 100 \in Nat /\ ~(100 >= 1000)
  OBVIOUS
<1>2. Says(<<100>>, At(sum, 0), At(sum, 1 * 100))
  BY <1>1, SaysOne
<1>3. Says(<<100>>, At(sum, group), At(sum, group * 100))
  BY <1>1, SaysOne
<1>4. 1 * 100 = 100 /\ group * 100 = 100 * group
  OBVIOUS
<1> QED BY <1>2, <1>3, <1>4, Zenon

LEMMA ThenHundred ==
  ASSUME NEW h \in Nat
  PROVE  <<h>> \o <<100>> = <<h, 100>>
<1> DEFINE s == <<h>> \o <<100>>
           v == <<h, 100>>
<1>1. s \in Seq(Nat) /\ Len(s) = 2 /\ s[1] = h /\ s[2] = 100
  OBVIOUS
<1>2. v \in Seq(Nat) /\ Len(v) = 2 /\ v[1] = h /\ v[2] = 100
  OBVIOUS
<1> HIDE DEF s, v
<1>3. s = [i \in 1..2 |-> s[i]] /\ v = [i \in 1..2 |-> v[i]]
  BY <1>1, <1>2
<1>4. \A i \in 1..2 : s[i] = v[i]
  <2>1. \A i \in 1..2 : i = 1 \/ i = 2
    OBVIOUS
  <2> QED BY <1>1, <1>2, <2>1
<1>5. s = v
  BY <1>3, <1>4
<1> QED BY <1>5 DEF s, v

LEMMA SaysDigit ==
  ASSUME NEW sum \in Nat, NEW h \in UpTo9
  PROVE  Says(<<h>>, At(sum, 0), At(sum, h))
<1>1. h \in Nat /\ ~(h >= 1000) /\ h # 100 /\ 0 + h = h
  BY DEF UpTo9
<1>2. Says(<<h>>, At(sum, 0), At(sum, 0 + h))
  BY <1>1, SaysOne
<1> QED BY <1>1, <1>2, Zenon

LEMMA SaysHundreds ==
  ASSUME NEW sum \in Nat, NEW lang, NEW h \in UpTo9
  PROVE  Says(Hundreds(lang, h), At(sum, 0), At(sum, 100 * h))
<1>1. CASE lang = "ru" \/ h = 0 \/ (h = 1 /\ lang # "en")
  <2>1. Says(Word(100 * h), At(sum, 0), At(sum, 100 * h))
    <3>1. CASE h = 1
      <4>1. Word(100 * h) = <<100>> /\ 100 * h = 100
        BY <3>1 DEF Word
      <4>2. Says(<<100>>, At(sum, 0), At(sum, 100))
        <5>1. 1 \in Nat \ {0}
          OBVIOUS
        <5> QED BY <5>1, SaysHundred, Zenon
      <4> QED BY <4>1, <4>2
    <3>2. CASE h # 1
      <4>1. 100 * h \in OneWord /\ 0 + 100 * h = 100 * h /\ 0 \in Nat
        BY <3>2 DEF UpTo9, OneWord
      <4>2. Says(Word(100 * h), At(sum, 0), At(sum, 0 + 100 * h))
        BY <4>1, SaysWord, Zenon
      <4> QED BY <4>1, <4>2, Zenon
    <3> QED BY <3>1, <3>2
  <2>2. Hundreds(lang, h) = Word(100 * h)
    BY <1>1 DEF Hundreds
  <2> QED BY <2>1, <2>2, Zenon
<1>2. CASE ~(lang = "ru" \/ h = 0 \/ (h = 1 /\ lang # "en"))
  <2>1. h \in Nat \ {0}
    BY <1>2 DEF UpTo9
  <2>2. Says(<<h>>, At(sum, 0), At(sum, h))
    BY SaysDigit, Zenon
  <2>3. Says(<<100>>, At(sum, h), At(sum, 100 * h))
    BY <2>1, SaysHundred, Zenon
  <2>4. Says(<<h>> \o <<100>>, At(sum, 0), At(sum, 100 * h))
    BY <2>2, <2>3, SaysOn, Zenon
  <2>5. Hundreds(lang, h) = <<h, 100>>
    BY <1>2 DEF Hundreds
  <2>6. <<h>> \o <<100>> = <<h, 100>>
    BY <2>1, ThenHundred
  <2> QED BY <2>4, <2>5, <2>6, Zenon
<1> QED BY <1>1, <1>2

LEMMA SaysBelow1000 ==
  ASSUME NEW sum \in Nat, NEW lang, NEW n \in UpTo999
  PROVE  Says(Below1000(lang, n), At(sum, 0), At(sum, n))
<1> DEFINE h == n \div 100
           u == n % 100
<1>1. h \in UpTo9 /\ u \in UpTo99 /\ 100 * h \in Nat /\ 100 * h + u = n
  BY DEF UpTo9, UpTo99, UpTo999
<1>2. Below1000(lang, n) = Hundreds(lang, h) \o Under100(lang, u)
  BY DEF Below1000
<1> HIDE DEF h, u
<1>3. Says(Hundreds(lang, h), At(sum, 0), At(sum, 100 * h))
  BY <1>1, SaysHundreds, Zenon
<1>4. Says(Under100(lang, u), At(sum, 100 * h), At(sum, 100 * h + u))
  BY <1>1, SaysUnder100, Zenon
<1>5. Says(Hundreds(lang, h) \o Under100(lang, u), At(sum, 0), At(sum, 100 * h + u))
  BY <1>3, <1>4, SaysOn, Zenon
<1> QED BY <1>1, <1>2, <1>5, Zenon

LEMMA SaysScaled ==
  ASSUME NEW sum \in Nat, NEW lang, NEW k \in UpTo999, NEW scale \in Nat, scale >= 1000
  PROVE  Says(Scaled(lang, k, scale), At(sum, 0), At(sum + k * scale, 0))
<1>1. CASE k = 0
  <2>1. Scaled(lang, k, scale) = <<>>
    BY <1>1 DEF Scaled
  <2>2. sum + k * scale = sum /\ 0 \in Nat
    BY <1>1
  <2> QED BY <2>1, <2>2, SaysNothing, Zenon
<1>2. CASE k = 1 /\ lang \in {"ka", "tr"}
  <2>1. Scaled(lang, k, scale) = <<scale>>
    BY <1>2 DEF Scaled
  <2>2. sum + k * scale = sum + scale /\ 1 \in Nat \ {0}
    BY <1>2
  <2>3. Says(<<scale>>, At(sum, 0), At(sum + scale, 0))
    BY <2>2, SaysScale, Zenon
  <2> QED BY <2>1, <2>2, <2>3
<1>3. CASE ~(k = 0) /\ ~(k = 1 /\ lang \in {"ka", "tr"})
  <2>1. k \in Nat \ {0}
    BY <1>3 DEF UpTo999
  <2>2. Says(Below1000(lang, k), At(sum, 0), At(sum, k))
    BY SaysBelow1000, Zenon
  <2>3. Says(<<scale>>, At(sum, k), At(sum + k * scale, 0))
    BY <2>1, SaysScale, Zenon
  <2>4. Says(Below1000(lang, k) \o <<scale>>, At(sum, 0), At(sum + k * scale, 0))
    BY <2>2, <2>3, SaysOn, Zenon
  <2>5. Scaled(lang, k, scale) = Below1000(lang, k) \o <<scale>>
    BY <1>3, Zenon DEF Scaled
  <2> QED BY <2>4, <2>5, Zenon
<1> QED BY <1>1, <1>2, <1>3

\* A number is its groups of three digits.
LEMMA LastGroup ==
  ASSUME NEW a \in Nat
  PROVE  a \div 1000 \in Nat /\ a % 1000 \in UpTo999 /\ a = 1000 * (a \div 1000) + (a % 1000)
BY DEF UpTo999

Sayable == {n \in Nat : n \div 1000000000 < 1000}

LEMMA GroupsAddUp ==
  ASSUME NEW n \in Nat, NEW x \in Nat, NEW y \in Nat,
         NEW b \in Nat, NEW m \in Nat, NEW t \in Nat, NEW u \in Nat,
         n = 1000 * x + u, x = 1000 * y + t, y = 1000 * b + m
  PROVE  n = ((b * 1000000000 + m * 1000000) + t * 1000) + u
BY SMT

LEMMA Groups ==
  ASSUME NEW n \in Sayable
  PROVE  \E b \in UpTo999, m \in UpTo999, t \in UpTo999, u \in UpTo999 :
           /\ b = n \div 1000000000 /\ m = (n \div 1000000) % 1000
           /\ t = (n \div 1000) % 1000 /\ u = n % 1000
           /\ n = ((b * 1000000000 + m * 1000000) + t * 1000) + u
<1>1. PICK x \in Nat : x = n \div 1000
  BY SMT DEF Sayable
<1>2. PICK y \in Nat : y = n \div 1000000
  BY SMT DEF Sayable
<1>3. PICK b \in Nat : b = n \div 1000000000 /\ b < 1000
  BY SMT DEF Sayable
<1>4. x \div 1000 = y
  BY <1>1, <1>2, SMT DEF Sayable
<1>5. y \div 1000 = b
  BY <1>2, <1>3, SMT DEF Sayable
<1>6. n \in Nat
  BY DEF Sayable
<1>7. n % 1000 \in UpTo999 /\ n = 1000 * x + (n % 1000)
  BY <1>1, <1>6, LastGroup, SMT
<1>8. x % 1000 \in UpTo999 /\ x = 1000 * y + (x % 1000)
  BY <1>4, LastGroup, SMT
<1>9. y % 1000 \in UpTo999 /\ y = 1000 * b + (y % 1000)
  BY <1>5, LastGroup, SMT
<1>10. b \in UpTo999
  BY <1>3, SMT DEF UpTo999
<1>11. PICK u \in UpTo999 : u = n % 1000
  BY <1>7, SMT
<1>12. PICK t \in UpTo999 : t = x % 1000
  BY <1>8, SMT
<1>13. PICK m \in UpTo999 : m = y % 1000
  BY <1>9, SMT
<1>14. n = ((b * 1000000000 + m * 1000000) + t * 1000) + u
  <2>1. b \in Nat /\ m \in Nat /\ t \in Nat /\ u \in Nat
    BY SMT DEF UpTo999
  <2>2. n = 1000 * x + u /\ x = 1000 * y + t /\ y = 1000 * b + m
    BY <1>7, <1>8, <1>9, <1>11, <1>12, <1>13, SMT
  <2> QED BY <1>6, <2>1, <2>2, GroupsAddUp, SMT
<1> QED BY <1>1, <1>2, <1>3, <1>10, <1>11, <1>12, <1>13, <1>14, SMT

\* The words of a whole number below 10^12, the biggest scale being 10^9, read back as it
\* in each language: no group is dropped, no hundred is joined to what follows it
\* (numberToEnglishWords and the other three converters).
THEOREM WordsReadBack ==
  ASSUME NEW lang, NEW n \in Sayable
  PROVE  ReadBack(Whole(lang, n)) = n
<1> SUFFICES \E sum \in Nat, group \in Nat :
               Says(Whole(lang, n), At(0, 0), At(sum, group)) /\ sum + group = n
  <2>1. PICK sum \in Nat, group \in Nat :
          Says(Whole(lang, n), At(0, 0), At(sum, group)) /\ sum + group = n
    OBVIOUS
  <2>2. PICK q : Reads(Whole(lang, n), At(0, 0), q) /\ ReadBack(Whole(lang, n)) = q.sum + q.group
    BY <2>1, ReadBackIs DEF Says
  <2>3. q = At(sum, group)
    BY <2>1, <2>2, ReadsOne DEF Says
  <2> QED BY <2>1, <2>2, <2>3 DEF At
<1>1. CASE n = 0
  <2>1. Says(<<0>>, At(0, 0), At(0, 0))
    BY SaysDigit DEF UpTo9
  <2>2. Whole(lang, n) = <<0>>
    BY <1>1, SMT DEF Whole
  <2> QED BY <1>1, <2>1, <2>2
<1>2. CASE n # 0
  <2>1. PICK b \in UpTo999, m \in UpTo999, t \in UpTo999, u \in UpTo999 :
           /\ b = n \div 1000000000 /\ m = (n \div 1000000) % 1000
           /\ t = (n \div 1000) % 1000 /\ u = n % 1000
           /\ n = ((b * 1000000000 + m * 1000000) + t * 1000) + u
    BY Groups, SMT
  <2>2. b \in Nat /\ m \in Nat /\ t \in Nat /\ u \in Nat
    BY SMT DEF UpTo999
  <2>3. PICK s \in Nat : s = 0 + b * 1000000000
    BY <2>2, SMT
  <2>4. PICK v \in Nat : v = s + m * 1000000
    BY <2>2, SMT
  <2>5. PICK w \in Nat : w = v + t * 1000
    BY <2>2, SMT
  <2>6. w + u = n
    BY <2>1, <2>2, <2>3, <2>4, <2>5, SMT
  <2>7. PICK saidB : saidB = Scaled(lang, b, 1000000000)
    BY SMT
  <2>8. PICK saidM : saidM = Scaled(lang, m, 1000000)
    BY SMT
  <2>9. PICK saidT : saidT = Scaled(lang, t, 1000)
    BY SMT
  <2>10. PICK saidU : saidU = Below1000(lang, u)
    BY SMT
  <2>11. Says(saidB, At(0, 0), At(s, 0))
    BY <2>3, <2>7, SaysScaled, SMT
  <2>12. Says(saidM, At(s, 0), At(v, 0))
    BY <2>4, <2>8, SaysScaled, SMT
  <2>13. Says(saidT, At(v, 0), At(w, 0))
    BY <2>5, <2>9, SaysScaled, SMT
  <2>14. Says(saidU, At(w, 0), At(w, u))
    BY <2>10, SaysBelow1000, SMT
  <2>15. Whole(lang, n) = saidB \o saidM \o saidT \o saidU
    <3>1. Whole(lang, n) = Scaled(lang, n \div 1000000000, 1000000000)
                           \o Scaled(lang, (n \div 1000000) % 1000, 1000000)
                           \o Scaled(lang, (n \div 1000) % 1000, 1000)
                           \o Below1000(lang, n % 1000)
      BY <1>2, SMT DEF Whole
    <3>2. /\ Scaled(lang, n \div 1000000000, 1000000000) = saidB
          /\ Scaled(lang, (n \div 1000000) % 1000, 1000000) = saidM
          /\ Scaled(lang, (n \div 1000) % 1000, 1000) = saidT
          /\ Below1000(lang, n % 1000) = saidU
      BY <2>1, <2>7, <2>8, <2>9, <2>10, SMT
    <3> QED BY <3>1, <3>2, SMT
  <2>16. Says(saidB \o saidM, At(0, 0), At(v, 0))
    BY <2>11, <2>12, SaysOn, SMT
  <2>17. Says(saidB \o saidM \o saidT, At(0, 0), At(w, 0))
    BY <2>13, <2>16, SaysOn, SMT
  <2>18. Says(saidB \o saidM \o saidT \o saidU, At(0, 0), At(w, u))
    BY <2>14, <2>17, SaysOn, SMT
  <2> QED BY <2>2, <2>6, <2>15, <2>18, SMT
<1> QED BY <1>1, <1>2

-----------------------------------------------------------------------------
(* What the updates of the invoice keep *)

\* Same ticked accounts, still an invoice.
Like(e, d) == Form(e) /\ e.bankIds = d.bankIds

\* The totals are untouched as well.
Still(e, d) ==
  /\ Like(e, d)
  /\ e.items = d.items /\ e.taxRate = d.taxRate
  /\ e.subtotal = d.subtotal /\ e.taxAmount = d.taxAmount /\ e.total = d.total

\* One field that is set leaves the others alone.
LEMMA FieldSet ==
  ASSUME NEW d, Form(d), NEW f \in Fields \ {"taxRate", "items"}, NEW v
  PROVE  /\ Form([d EXCEPT ![f] = v])
         /\ \A g \in Fields : [d EXCEPT ![f] = v][g] = IF g = f THEN v ELSE d[g]
<1> DEFINE e == [d EXCEPT ![f] = v]
<1>1. {"items", "taxRate"} \subseteq Fields
  BY DEF Fields, EmptyInvoice
<1>2. e = [g \in Fields |-> e[g]] /\ \A g \in Fields : e[g] = IF g = f THEN v ELSE d[g]
  BY DEF Form
<1> HIDE DEF e
<1>3. e.items \in Seq(Line) /\ e.taxRate \in 0..100
  BY <1>1, <1>2 DEF Form
<1>4. Form(e)
  BY <1>2, <1>3 DEF Form
<1> QED BY <1>2, <1>4 DEF e

LEMMA ConvertedSet ==
  ASSUME NEW d, Form(d), NEW v
  PROVE  /\ Form([d EXCEPT !.baseAmount = v])
         /\ \A g \in Fields : [d EXCEPT !.baseAmount = v][g] = IF g = "baseAmount" THEN v ELSE d[g]
<1> DEFINE e == [d EXCEPT !.baseAmount = v]
<1>1. {"items", "taxRate"} \subseteq Fields
  BY DEF Fields, EmptyInvoice
<1>2. e = [g \in Fields |-> e[g]] /\ \A g \in Fields : e[g] = IF g = "baseAmount" THEN v ELSE d[g]
  BY DEF Form
<1> HIDE DEF e
<1>3. Form(e)
  BY <1>1, <1>2 DEF Form
<1> QED BY <1>2, <1>3 DEF e

LEMMA CalculatedTotals ==
  ASSUME NEW d, Form(d)
  PROVE  Like(CalculateTotals(d), d) /\ InStep(CalculateTotals(d))
<1> DEFINE s == Subtotal(d.items)
           t == TaxAmount(s, d.taxRate)
           u == Total(s, d.taxRate)
<1>1. CalculateTotals(d) = [d EXCEPT !.subtotal = s, !.taxAmount = t, !.total = u]
  BY DEF CalculateTotals
<1> HIDE DEF s, t, u
<1>2. d.taxRate \in 0..100 /\ d = [f \in Fields |-> d[f]]
  BY DEF Form
<1>3. /\ CalculateTotals(d) = [f \in Fields |-> CalculateTotals(d)[f]]
      /\ CalculateTotals(d).subtotal = s /\ CalculateTotals(d).taxAmount = t /\ CalculateTotals(d).total = u
      /\ CalculateTotals(d).items = d.items /\ CalculateTotals(d).taxRate = d.taxRate
      /\ CalculateTotals(d).bankIds = d.bankIds
  BY <1>1, <1>2 DEF Fields, EmptyInvoice
<1> QED BY <1>2, <1>3 DEF Like, Form, InStep, s, t, u

LEMMA WordedStill == ASSUME NEW d, Form(d) PROVE Still(Worded(d), d)
  BY DEF Form, Still, Like, Worded, Fields, EmptyInvoice

\* What the form renders is what the handler made, but for the converted amount.
LEMMA ChangeStill ==
  ASSUME NEW d, Form(d), NEW queue, Change(d, queue)
  PROVE  Still(data', d) /\ timer' = Draft(data')
<1>1. data' = d \/ data' = [d EXCEPT !.baseAmount = Amount(d)]
  BY DEF Change, DoConvert
<1>2. timer' = Draft(data')
  BY DEF Change
<1>3. Still(d, d) /\ Still([d EXCEPT !.baseAmount = Amount(d)], d)
  <2> DEFINE e == [d EXCEPT !.baseAmount = Amount(d)]
  <2>1. {"baseAmount", "items", "taxRate", "subtotal", "taxAmount", "total", "bankIds"} \subseteq Fields
    BY DEF Fields, EmptyInvoice
  <2>2. Form(e) /\ \A g \in Fields : e[g] = IF g = "baseAmount" THEN Amount(d) ELSE d[g]
    BY ConvertedSet
  <2> QED BY <2>1, <2>2 DEF Still, Like
<1> QED BY <1>1, <1>2, <1>3

\* A change from a sound state to a sound invoice leads to a sound state.
LEMMA ChangeKeeps ==
  ASSUME IInv, NEW d, Form(d), NEW queue, Change(d, queue),
         ~loading' => InStep(d), Ticks' => selected' = d.bankIds,
         Row(saved'), UNCHANGED scope
  PROVE  IInv'
<1>1. Still(data', d) /\ timer' = Draft(data')
  BY ChangeStill
<1>2. Form(data') /\ data'.bankIds = d.bankIds
  BY <1>1 DEF Still, Like
<1>3. timer' # NoDraft => Form(timer'[1])
  BY <1>1, <1>2 DEF Draft
<1>4. ~loading' => InStep(data)'
  BY <1>1 DEF Still, InStep, TaxAmount, Total
<1> QED BY <1>2, <1>3, <1>4 DEF IInv, Form, Row

\* An edit that leaves the ticked accounts alone.
LEMMA FieldKeeps ==
  ASSUME IInv, NEW use, NEW d, Like(d, data), Field(use, d)
  PROVE  IInv'
<1>1. Like(CalculateTotals(d), d) /\ InStep(CalculateTotals(d))
  BY CalculatedTotals DEF Like
<1>2. Edit(use, CalculateTotals(d)) /\ UNCHANGED selected
  BY DEF Field
<1>3. Change(CalculateTotals(d), calls) /\ UNCHANGED <<company, loading, saved, scope>>
  BY <1>2 DEF Edit
<1>4. Form(CalculateTotals(d)) /\ (Ticks' => selected' = CalculateTotals(d).bankIds)
  BY <1>1, <1>2, <1>3 DEF IInv, Like, Ticks
<1> QED BY <1>1, <1>3, <1>4, ChangeKeeps DEF IInv

\* An edit of the lines or the rate.
LEMMA WordedKeeps ==
  ASSUME IInv, NEW use, NEW d, Like(d, data), Edit(use, Worded(CalculateTotals(d))), UNCHANGED selected
  PROVE  IInv'
<1> DEFINE c == CalculateTotals(d)
<1>1. Form(c) /\ Like(c, d) /\ InStep(c)
  BY CalculatedTotals DEF Like
<1>2. Still(Worded(c), c)
  BY <1>1, WordedStill
<1>3. Form(Worded(c)) /\ Worded(c).bankIds = data.bankIds /\ InStep(Worded(c))
  BY <1>1, <1>2 DEF Still, Like, InStep
<1>4. Change(Worded(c), calls) /\ UNCHANGED <<company, loading, saved, scope>>
  BY DEF Edit
<1>5. Ticks' => selected' = Worded(c).bankIds
  BY <1>3, <1>4 DEF IInv, Ticks
<1> QED BY <1>3, <1>4, <1>5, ChangeKeeps DEF IInv

-----------------------------------------------------------------------------
(* Edits *)

LEMMA LinesChange == ASSUME IInv, NEW use, NEW items \in Seq(Line), ItemsChange(use, items) PROVE IInv'
<1>1. Like([data EXCEPT !.items = items], data)
  BY DEF IInv, Like, Form, Fields, EmptyInvoice
<1> QED BY <1>1, WordedKeeps DEF ItemsChange

LEMMA LineItemIsLine == LineItem \in Line
BY DEF LineItem, Line, Parts

\* The total of a line is a natural number of cents.
LEMMA LineTotalIsLine == ASSUME NEW item \in Line PROVE LineTotal(item) \in Line
<1> DEFINE x == item.quantity * item.price
           t == Rounded(x, Parts, "item" \in scope.up)
<1>1. item = [quantity |-> item.quantity, price |-> item.price, total |-> item.total]
      /\ item.quantity \in Nat /\ item.price \in Nat
  BY DEF Line
<1>2. x \in Nat
  BY <1>1
<1> HIDE DEF x
<1>3. t \in Nat
  BY <1>2 DEF Rounded, Parts
<1> HIDE DEF t
<1>4. [item EXCEPT !.total = t] \in Line
  BY <1>1, <1>3 DEF Line
<1> QED BY <1>4 DEF LineTotal, x, t

\* The lines an action of their section makes.
LEMMA LineSet ==
  ASSUME NEW rows \in Seq(Line), NEW i \in DOMAIN rows, NEW n \in Nat
  PROVE  /\ [rows EXCEPT ![i] = LineTotal([@ EXCEPT !.quantity = n])] \in Seq(Line)
         /\ [rows EXCEPT ![i] = LineTotal([@ EXCEPT !.price = n])] \in Seq(Line)
         /\ RemoveAt(rows, i) \in Seq(Line)
<1>1. rows[i] \in Line
  OBVIOUS
<1>2. [rows[i] EXCEPT !.quantity = n] \in Line /\ [rows[i] EXCEPT !.price = n] \in Line
  BY <1>1 DEF Line
<1>3. /\ LineTotal([rows[i] EXCEPT !.quantity = n]) \in Line
      /\ LineTotal([rows[i] EXCEPT !.price = n]) \in Line
  BY <1>2, LineTotalIsLine
<1>4. RemoveAt(rows, i) \in Seq(Line)
  BY DEF RemoveAt
<1> QED BY <1>3, <1>4

LEMMA LinesGiven ==
  ASSUME IInv, LineItemsSection
  PROVE  \E use : \E next \in Seq(Line) : ItemsChange(use, next)
<1>1. data.items \in Seq(Line) /\ scope.quantities \subseteq Nat /\ scope.prices \subseteq Nat
  BY DEF IInv, Form, Scope
<1>2. PICK rows : rows = data.items
  OBVIOUS
<1>3. Append(rows, LineItem) \in Seq(Line)
  BY <1>1, <1>2, LineItemIsLine
<1>4. \A i \in DOMAIN rows : \A n \in Nat :
        /\ [rows EXCEPT ![i] = LineTotal([@ EXCEPT !.quantity = n])] \in Seq(Line)
        /\ [rows EXCEPT ![i] = LineTotal([@ EXCEPT !.price = n])] \in Seq(Line)
        /\ RemoveAt(rows, i) \in Seq(Line)
  BY <1>1, <1>2, LineSet
<1>5. AddItem => \E use : \E next \in Seq(Line) : ItemsChange(use, next)
  BY <1>2, <1>3 DEF AddItem
<1>6. ASSUME NEW i \in DOMAIN rows, NEW n \in Nat, SetQuantity(i, n)
      PROVE  \E use : \E next \in Seq(Line) : ItemsChange(use, next)
  BY <1>2, <1>4, <1>6 DEF SetQuantity
<1>7. ASSUME NEW i \in DOMAIN rows, NEW n \in Nat, SetPrice(i, n)
      PROVE  \E use : \E next \in Seq(Line) : ItemsChange(use, next)
  BY <1>2, <1>4, <1>7 DEF SetPrice
<1>8. ASSUME NEW i \in DOMAIN rows, RemoveItem(i)
      PROVE  \E use : \E next \in Seq(Line) : ItemsChange(use, next)
  <2>1. 0 \in Nat
    OBVIOUS
  <2> QED BY <1>2, <1>4, <1>8, <2>1 DEF RemoveItem
<1> QED BY <1>1, <1>2, <1>5, <1>6, <1>7, <1>8 DEF LineItemsSection

LEMMA LinesKeep == ASSUME IInv, LineItemsSection PROVE IInv'
BY LinesGiven, LinesChange

LEMMA RateKeeps == ASSUME IInv, NEW rate \in scope.rates, TaxRateChange(rate) PROVE IInv'
<1>1. rate \in 0..100
  BY DEF IInv, Scope
<1>2. Like([data EXCEPT !.taxRate = rate], data)
  BY <1>1 DEF IInv, Like, Form, Fields, EmptyInvoice
<1> QED BY <1>2, WordedKeeps DEF TaxRateChange

\* Setting any field but the rate and the ticked accounts.
LEMMA SetLike ==
  ASSUME IInv, NEW f \in Fields \ {"taxRate", "bankIds", "items"}, NEW v
  PROVE  Like([data EXCEPT ![f] = v], data)
<1>1. Form(data) /\ "bankIds" \in Fields
  BY DEF IInv, Fields, EmptyInvoice
<1> QED BY <1>1, FieldSet DEF Like

\* The texts in another language.
InLanguageOf(l) == SellerIn(BuyerIn([data EXCEPT !.language = l], l), l)
Texted == {"language", "seller", "director", "signer", "buyer", "bankText"}

LEMMA InLanguageIs ==
  ASSUME Form(data), NEW l
  PROVE  LET d == InLanguageOf(l)
         IN  /\ Form(d) /\ (\A f \in Fields \ Texted : d[f] = data[f]) /\ d.language = l
             /\ d.buyer = IF buyer = NoBuyer THEN data.buyer ELSE Text(buyer, l)
             /\ company = NoCompany =>
                  /\ d.seller = data.seller /\ d.director = data.director /\ d.signer = data.signer
                  /\ d.bankText = data.bankText
             /\ company # NoCompany =>
                  /\ d.seller = Text(company, l) /\ d.director = Director(company, l) /\ d.signer = Director(company, l)
                  /\ Accounts(company, selected) # <<>>
                       => d.bankText = SerializeBankAccounts(Accounts(company, selected), l)
<1>1. Texted \subseteq Fields \ {"taxRate", "items"}
  BY DEF Texted, Fields, EmptyInvoice
<1>2. PICK e : e = [data EXCEPT !.language = l]
  OBVIOUS
<1>3. Form(e) /\ \A f \in Fields : e[f] = IF f = "language" THEN l ELSE data[f]
  <2>1. PICK g : g = "language"
    OBVIOUS
  <2>2. g \in Fields \ {"taxRate", "items"} /\ Form(data)
    BY <1>1, <2>1 DEF Texted
  <2> DEFINE w == [data EXCEPT ![g] = l]
  <2>3. Form(w) /\ \A f \in Fields : w[f] = IF f = g THEN l ELSE data[f]
    BY <2>2, FieldSet
  <2>4. e = w
    BY <1>2, <2>1
  <2> HIDE DEF w
  <2> QED BY <2>1, <2>3, <2>4
<1>4. PICK t, b : t = Text(buyer, l) /\ b = BuyerIn(e, l)
  OBVIOUS
<1>5. Form([e EXCEPT !.buyer = t]) /\ \A f \in Fields : [e EXCEPT !.buyer = t][f] = IF f = "buyer" THEN t ELSE e[f]
  <2>1. PICK g : g = "buyer"
    OBVIOUS
  <2>2. g \in Fields \ {"taxRate", "items"} /\ Form(e)
    BY <1>1, <1>3, <2>1 DEF Texted
  <2> DEFINE w == [e EXCEPT ![g] = t]
  <2>3. Form(w) /\ \A f \in Fields : w[f] = IF f = g THEN t ELSE e[f]
    BY <2>2, FieldSet
  <2>4. [e EXCEPT !.buyer = t] = w
    BY <2>1
  <2> HIDE DEF w
  <2> QED BY <2>1, <2>3, <2>4
<1>6. b = IF buyer = NoBuyer THEN e ELSE [e EXCEPT !.buyer = t]
  BY <1>4 DEF BuyerIn
<1>7. /\ Form(b) /\ b.language = l /\ b.buyer = IF buyer = NoBuyer THEN data.buyer ELSE t
      /\ \A f \in Fields \ {"language", "buyer"} : b[f] = data[f]
  BY <1>1, <1>3, <1>5, <1>6 DEF Texted
<1>8. PICK s, a, ids : s = Text(company, l) /\ a = Director(company, l) /\ ids = Accounts(company, selected)
  OBVIOUS
<1>9. PICK k : k = IF ids = <<>> THEN b.bankText ELSE SerializeBankAccounts(ids, l)
  OBVIOUS
<1> DEFINE d == [b EXCEPT !.seller = s, !.director = a, !.signer = a, !.bankText = k]
<1>10. /\ Form(d) /\ d.seller = s /\ d.director = a /\ d.signer = a /\ d.bankText = k
       /\ \A f \in Fields \ {"seller", "director", "signer", "bankText"} : d[f] = b[f]
  <2>1. b = [f \in Fields |-> b[f]] /\ b.items \in Seq(Line) /\ b.taxRate \in 0..100
    BY <1>7 DEF Form
  <2>2. {"seller", "director", "signer", "bankText", "items", "taxRate"} \subseteq Fields
    BY DEF Fields, EmptyInvoice
  <2>3. d = [f \in Fields |-> d[f]]
    BY <2>1, Zenon
  <2>4. /\ d.seller = s /\ d.director = a /\ d.signer = a /\ d.bankText = k
        /\ \A f \in Fields \ {"seller", "director", "signer", "bankText"} : d[f] = b[f]
    BY <2>1, <2>2
  <2> HIDE DEF d
  <2>5. d.items = b.items /\ d.taxRate = b.taxRate
    BY <2>2, <2>4
  <2> QED BY <2>1, <2>3, <2>4, <2>5 DEF Form
<1>11. company # NoCompany => SellerIn(b, l) = d
  BY <1>8, <1>9 DEF SellerIn
<1>12. company = NoCompany => SellerIn(b, l) = b
  BY DEF SellerIn
<1> HIDE DEF d
<1>13. PICK g : g = SellerIn(b, l)
  OBVIOUS
<1>14. InLanguageOf(l) = g
  BY <1>2, <1>4, <1>13 DEF InLanguageOf
<1>15. Fields \ Texted \subseteq Fields \ {"language", "buyer", "seller", "director", "signer", "bankText"}
  BY DEF Texted
<1>16. CASE company = NoCompany
  <2>1. g = b
    BY <1>12, <1>13, <1>16
  <2>2. \A f \in Fields \ Texted : g[f] = data[f]
    BY <1>7, <1>15, <2>1
  <2>3. g.seller = data.seller /\ g.director = data.director /\ g.signer = data.signer /\ g.bankText = data.bankText
    BY <1>1, <1>7, <2>1 DEF Texted
  <2> QED BY <1>4, <1>7, <1>14, <1>16, <2>1, <2>2, <2>3
<1>17. CASE company # NoCompany
  <2>1. g = d
    BY <1>11, <1>13, <1>17
  <2>2. \A f \in Fields \ Texted : g[f] = data[f]
    BY <1>7, <1>10, <1>15, <2>1
  <2>3. g.language = l /\ g.buyer = b.buyer
    BY <1>1, <1>7, <1>10, <2>1 DEF Texted
  <2> QED BY <1>4, <1>7, <1>8, <1>9, <1>10, <1>14, <1>17, <2>1, <2>2, <2>3
<1> QED BY <1>16, <1>17

LEMMA HeaderKeeps == ASSUME IInv, InvoiceHeaderSection PROVE IInv'
<1>1. \A d : Form(d) /\ d.bankIds = data.bankIds => Like(Worded(d), data)
  BY WordedStill DEF Still, Like
<1>2. \A f \in Fields \ {"taxRate", "bankIds", "items"} : \A v : Like([data EXCEPT ![f] = v], data)
  BY SetLike
<1>3. {"type", "language", "currency", "base", "date"} \subseteq Fields \ {"taxRate", "bankIds", "items"}
  BY DEF Fields, EmptyInvoice
<1>4. ASSUME NEW t, SetType(t) PROVE IInv'
  BY <1>2, <1>3, <1>4, FieldKeeps DEF SetType
<1>5. ASSUME NEW l, SetLanguage(l) PROVE IInv'
  <2>1. PICK d : d = InLanguageOf(l)
    OBVIOUS
  <2>2. "bankIds" \in Fields \ Texted
    BY DEF Texted, Fields, EmptyInvoice
  <2>3. Form(d) /\ d.bankIds = data.bankIds
    BY <2>1, <2>2, InLanguageIs DEF IInv
  <2>4. Like(Worded(d), data)
    BY <1>1, <2>3
  <2>5. Field("language", Worded(d))
    BY <1>5, <2>1 DEF SetLanguage, InLanguageOf
  <2> QED BY <2>4, <2>5, FieldKeeps
<1>6. ASSUME NEW c, SetCurrency(c) PROVE IInv'
  <2>1. Like([data EXCEPT !.currency = c], data)
    BY <1>2, <1>3
  <2>2. Like(Worded([data EXCEPT !.currency = c]), data)
    BY <1>1, <2>1 DEF Like
  <2> QED BY <1>6, <2>2, FieldKeeps DEF SetCurrency
<1>7. ASSUME NEW c, SetBase(c) PROVE IInv'
  BY <1>2, <1>3, <1>7, FieldKeeps DEF SetBase
<1>8. ASSUME NEW t, SetDate(t) PROVE IInv'
  BY <1>2, <1>3, <1>8, FieldKeeps DEF SetDate
<1> QED BY <1>4, <1>5, <1>6, <1>7, <1>8 DEF InvoiceHeaderSection

LEMMA TransportKeeps == ASSUME IInv, TransportInfoSection PROVE IInv'
<1>1. \A v : Like([data EXCEPT !.words = v], data)
  BY SetLike DEF Fields, EmptyInvoice
<1>2. ASSUME NEW v, NEW w PROVE Like([data EXCEPT !.truck = v, !.trailer = w], data)
  <2> DEFINE d == [data EXCEPT !.truck = v, !.trailer = w]
  <2>1. Form(d) /\ d.bankIds = data.bankIds
    BY DEF IInv, Form, Fields, EmptyInvoice
  <2> QED BY <2>1 DEF Like
<1>3. \A v : Like([data EXCEPT !.truck = v], data)
  BY SetLike DEF Fields, EmptyInvoice
<1>4. \A v : Like([data EXCEPT !.trailer = v], data)
  BY SetLike DEF Fields, EmptyInvoice
<1>5. TypeWords => IInv'
  BY <1>1, FieldKeeps DEF TypeWords
<1>6. AutoFillWords => IInv'
  BY <1>1, FieldKeeps DEF AutoFillWords
<1>7. TruckCleared => IInv'
  BY <1>3, FieldKeeps DEF TruckCleared
<1>8. ASSUME NEW t PROVE VehicleSelect(t) => IInv'
  BY <1>2, FieldKeeps DEF VehicleSelect
<1>9. ASSUME NEW t PROVE VehicleCreated(t) => IInv'
  BY <1>2, FieldKeeps DEF VehicleCreated
<1>10. ASSUME NEW t PROVE TrailerSelect(t) => IInv'
  BY <1>4, FieldKeeps DEF TrailerSelect
<1> QED BY <1>5, <1>6, <1>7, <1>8, <1>9, <1>10 DEF TransportInfoSection

LEMMA NamesKeep == ASSUME IInv, TypeNames PROVE IInv'
<1>1. \A f \in {"buyer", "signer", "director"} : Like([data EXCEPT ![f] = ByHand], data)
  BY SetLike DEF Fields, EmptyInvoice
<1> QED BY <1>1, FieldKeeps DEF TypeNames

LEMMA MarkKeeps == ASSUME IInv, NEW m, SelectMark(m) PROVE IInv'
<1>1. Like([data EXCEPT !.mark = m], data)
  BY SetLike DEF Fields, EmptyInvoice
<1> QED BY <1>1, FieldKeeps DEF SelectMark

\* A call in flight is no part of the invariant.
LEMMA AsksKeep == ASSUME IInv, NEW use, NEW call, Asks(use, call) PROVE IInv'
  BY DEF Asks, IInv, Ticks, Form, Row, InStep, TaxAmount, Total

LEMMA CompanySectionKeeps == ASSUME IInv, CompanyInfoSection PROVE IInv'
<1>1. ASSUME NEW id, BankAccountToggle(id) PROVE IInv'
  <2>1. PICK next, text : /\ selected' = next
                          /\ Edit("banks", [data EXCEPT !.bankIds = next, !.bankText = text])
    BY <1>1 DEF BankAccountToggle
  <2> DEFINE d == [data EXCEPT !.bankIds = next, !.bankText = text]
  <2>2. Form(d) /\ d.bankIds = next
    BY DEF IInv, Form, Fields, EmptyInvoice
  <2>3. InStep(data) => InStep(d)
    BY DEF IInv, Form, InStep, Fields, EmptyInvoice
  <2>4. ~loading /\ Change(d, calls) /\ UNCHANGED <<loading, saved, scope>>
    BY <2>1 DEF Edit
  <2> HIDE DEF d
  <2> QED BY <2>1, <2>2, <2>3, <2>4, ChangeKeeps DEF IInv
<1>2. TypeBankText => IInv'
  <2>1. Like([data EXCEPT !.bankText = ByHand], data)
    BY SetLike DEF Fields, EmptyInvoice
  <2> QED BY <2>1, FieldKeeps DEF TypeBankText
<1>3. ResyncCompany => IInv'
  BY AsksKeep DEF ResyncCompany
<1> QED BY <1>1, <1>2, <1>3 DEF CompanyInfoSection

\* The buyer's texts are no part of it either.
LEMMA RefilledStill == ASSUME NEW d, Form(d), NEW c, NEW l PROVE Still(Refilled(d, c, l), d)
  BY DEF Form, Still, Like, Refilled, PopulateBuyer, Fields, EmptyInvoice

LEMMA RefilledKept ==
  ASSUME NEW d, Form(d), NEW c, NEW l
  PROVE  Form(Refilled(d, c, l)) /\ Refilled(d, c, l).baseAmount = d.baseAmount
  BY DEF Form, Refilled, PopulateBuyer, Fields, EmptyInvoice

LEMMA BuyerSectionKeeps == ASSUME IInv, BuyerInfoSection PROVE IInv'
<1>1. AutoFillBuyer => IInv'
  <2> SUFFICES ASSUME AutoFillBuyer PROVE IInv'
    OBVIOUS
  <2> DEFINE d == Refilled(data, buyer, data.language)
  <2>1. Still(d, data)
    BY RefilledStill DEF IInv
  <2>2. ~loading /\ Change(d, calls) /\ UNCHANGED <<selected, company, loading, saved, scope>>
    BY DEF AutoFillBuyer, Edit
  <2>3. Form(d) /\ InStep(d) /\ (Ticks' => selected' = d.bankIds)
    BY <2>1, <2>2 DEF Still, Like, IInv, InStep, Ticks
  <2> HIDE DEF d
  <2> QED BY <2>2, <2>3, ChangeKeeps DEF IInv
<1>2. ResyncBuyer => IInv'
  BY AsksKeep DEF ResyncBuyer
<1>3. ASSUME NEW c PROVE ContractorCreated(c) => IInv'
  BY AsksKeep DEF ContractorCreated
<1> QED BY <1>1, <1>2, <1>3 DEF BuyerInfoSection

-----------------------------------------------------------------------------
(* Answers and saves *)

\* The row keeps its data when its buyer is set.
LEMMA RowKept == ASSUME NEW r, Row(r), NEW b PROVE Row([r EXCEPT !.buyer = b])
  BY DEF Row

LEMMA ConvertedKeeps == ASSUME IInv, NEW i, Converted(i) PROVE IInv'
<1> DEFINE d == [data EXCEPT !.baseAmount = calls[i].body]
<1>1. Like(d, data)
  BY SetLike DEF Fields, EmptyInvoice
<1> HIDE DEF d
<1>2. Like(CalculateTotals(d), d) /\ InStep(CalculateTotals(d))
  BY <1>1, CalculatedTotals DEF Like
<1>3. Change(CalculateTotals(d), Rest(i)) /\ UNCHANGED <<selected, company, loading, saved, scope>>
  BY DEF Converted, d
<1>4. Form(CalculateTotals(d)) /\ (Ticks' => selected' = CalculateTotals(d).bankIds)
  BY <1>1, <1>2, <1>3 DEF IInv, Like, Ticks
<1> QED BY <1>2, <1>3, <1>4, ChangeKeeps DEF IInv

LEMMA CompanyAnsweredKeeps == ASSUME IInv, NEW i, NEW fresh, CompanyAnswered(i, fresh) PROVE IInv'
<1>1. PICK s, ids, t, a, b, queue :
        /\ selected' = ids
        /\ Change([data EXCEPT !.seller = s, !.bankIds = ids, !.bankText = t, !.director = a, !.signer = b], queue)
        /\ UNCHANGED <<loading, saved, scope>>
  BY DEF CompanyAnswered
<1> DEFINE d == [data EXCEPT !.seller = s, !.bankIds = ids, !.bankText = t, !.director = a, !.signer = b]
<1>2. Form(d) /\ d.bankIds = ids
  BY DEF IInv, Form, Fields, EmptyInvoice
<1>3. InStep(data) => InStep(d)
  BY DEF IInv, Form, InStep, Fields, EmptyInvoice
<1> HIDE DEF d
<1>4. Change(d, queue)
  BY <1>1 DEF d
<1>5. ~loading' => InStep(d)
  BY <1>1, <1>3 DEF IInv
<1> QED BY <1>1, <1>2, <1>4, <1>5, ChangeKeeps DEF IInv

LEMMA BuyerAnsweredKeeps == ASSUME IInv, NEW i, NEW fresh, BuyerAnswered(i, fresh) PROVE IInv'
<1> DEFINE d == Refilled(data, fresh, data.language)
<1>1. Still(d, data)
  BY RefilledStill DEF IInv
<1>2. Change(d, Rest(i)) /\ UNCHANGED <<selected, company, loading, saved, scope>>
  BY DEF BuyerAnswered
<1> HIDE DEF d
<1>3. Form(d) /\ (Ticks' => selected' = d.bankIds) /\ (~loading' => InStep(d))
  BY <1>1, <1>2 DEF Still, Like, IInv, InStep, Ticks
<1> QED BY <1>2, <1>3, ChangeKeeps DEF IInv

LEMMA LinkedKeeps == ASSUME IInv, NEW i, Linked(i) PROVE IInv'
<1> DEFINE d == Refilled(data, calls[i].body, calls[i].lang)
<1>1. Still(d, data)
  BY RefilledStill DEF IInv
<1>2. Change(d, Rest(i)) /\ UNCHANGED <<selected, company, loading, scope>>
  BY DEF Linked
<1>3. Row(saved')
  BY RowKept DEF Linked, IInv
<1> HIDE DEF d
<1>4. Form(d) /\ (Ticks' => selected' = d.bankIds) /\ (~loading' => InStep(d))
  BY <1>1, <1>2 DEF Still, Like, IInv, InStep, Ticks
<1> QED BY <1>2, <1>3, <1>4, ChangeKeeps DEF IInv

LEMMA CompanyIsOne == ASSUME NEW c \in Companies PROVE c # NoCompany
BY FormAssumption DEF NoCompany

\* Whatever the row has, it is an invoice when the form gets it.
LEMMA EmptyForm == Form(EmptyInvoice)
<1>1. LineItem \in Line
  BY LineItemIsLine
<1> HIDE DEF LineItem
<1>2. <<LineItem>> \in Seq(Line)
  BY <1>1
<1>3. EmptyInvoice = [f \in Fields |-> EmptyInvoice[f]]
  BY DEF Fields, EmptyInvoice
<1>4. EmptyInvoice.items = <<LineItem>> /\ EmptyInvoice.taxRate = 0
  BY DEF EmptyInvoice
<1>5. 0 \in 0..100
  OBVIOUS
<1>6. EmptyInvoice.items \in Seq(Line) /\ EmptyInvoice.taxRate \in 0..100
  BY <1>2, <1>4, <1>5
<1> QED BY <1>3, <1>6 DEF Form

LEMMA HydratedForm == ASSUME NEW d, IsInvoiceData(d) => Form(d) PROVE Form(Hydrated(d))
<1>1. Form(EmptyInvoice)
  BY EmptyForm
<1>2. ASSUME NEW e, Form(e), NEW t PROVE Form([e EXCEPT !.type = t, !.currency = "GEL"])
  BY <1>2 DEF Form, Fields, EmptyInvoice
<1>3. Form([EmptyInvoice EXCEPT !.type = d.type, !.currency = "GEL"])
  BY <1>1, <1>2
<1> QED BY <1>1, <1>3 DEF Hydrated

LEMMA PopulatedForm == ASSUME NEW d, Form(d), NEW c PROVE Form(Populated(d, c))
<1>1. ASSUME NEW e, Form(e), NEW s, NEW ids, NEW t, NEW a, NEW b
      PROVE  Form([e EXCEPT !.seller = s, !.bankIds = ids, !.bankText = t, !.director = a, !.signer = b])
  BY <1>1 DEF Form, Fields, EmptyInvoice
<1>2. Form(PopulateBuyer(d, saved.buyer, d.language))
  BY DEF Form, PopulateBuyer, Fields, EmptyInvoice
<1> DEFINE filled == IF saved.buyer = NoBuyer THEN d ELSE PopulateBuyer(d, saved.buyer, d.language)
<1>3. Form(filled)
  BY <1>2
<1> HIDE DEF filled
<1>4. CASE c = NoCompany
  BY <1>3, <1>4 DEF Populated, filled
<1>5. CASE c # NoCompany
  <2>1. PICK s, ids, t, a, b :
        Populated(d, c) = [filled EXCEPT !.seller = s, !.bankIds = ids, !.bankText = t, !.director = a, !.signer = b]
    BY <1>5 DEF Populated, filled
  <2>2. Form([filled EXCEPT !.seller = s, !.bankIds = ids, !.bankText = t, !.director = a, !.signer = b])
    BY <1>1, <1>3
  <2> QED BY <2>1, <2>2
<1> QED BY <1>4, <1>5

LEMMA LoadedKeeps == ASSUME IInv, LoadInv, NEW i, Loaded(i) PROVE IInv'
<1> DEFINE p == Populated(Hydrated(saved.data), calls[i].body)
<1> DEFINE d == CalculateTotals(p)
<1>1. Form(p)
  BY HydratedForm, PopulatedForm DEF IInv, Row
<1> HIDE DEF p
<1>2. Form(d) /\ InStep(d)
  BY <1>1, CalculatedTotals DEF Like
<1>3. /\ DoConvert(d, Seen, Rest(i))
      /\ timer' = timer \/ timer' = Draft(data')
      /\ UNCHANGED <<saved, scope>>
  BY DEF Loaded, p
<1>31. Ticks' => selected' = d.bankIds
  <2> SUFFICES ASSUME company # NoCompany, "overtake" \notin scope.uses PROVE selected' = d.bankIds
    BY DEF Ticks, Loaded
  <2>1. calls[i].body # NoCompany
    BY DEF LoadInv, NoneLoad, Loaded, Answered
  <2> QED BY <2>1 DEF Loaded, p
<1> HIDE DEF d
<1>4. data' = d \/ data' = [d EXCEPT !.baseAmount = Amount(d)]
  BY <1>3 DEF DoConvert
<1>5. /\ Form([d EXCEPT !.baseAmount = Amount(d)])
      /\ \A g \in Fields : [d EXCEPT !.baseAmount = Amount(d)][g] = IF g = "baseAmount" THEN Amount(d) ELSE d[g]
  BY <1>2, ConvertedSet
<1>6. {"items", "taxRate", "subtotal", "taxAmount", "total", "bankIds"} \subseteq Fields
  BY DEF Fields, EmptyInvoice
<1>7. Form(data') /\ data'.bankIds = d.bankIds
  BY <1>2, <1>4, <1>5, <1>6
<1>8. InStep(data)'
  BY <1>2, <1>3, <1>4, <1>5, <1>6 DEF InStep, TaxAmount, Total
<1>9. timer' # NoDraft => Form(timer'[1])
  BY <1>3, <1>7 DEF IInv, Draft
<1> QED BY <1>3, <1>31, <1>7, <1>8, <1>9 DEF IInv, Form, Row

LEMMA AnswersKeep == ASSUME IInv, LoadInv, Answers PROVE IInv'
<1>1. ASSUME NEW i, Failed(i) \/ NotConverted(i) PROVE IInv'
  BY <1>1 DEF Failed, NotConverted, IInv, Ticks, Form, Row, InStep, TaxAmount, Total
<1>2. ASSUME NEW i, NEW c, CompanyPatched(i, c) \/ CompaniesAnswered(i, c) PROVE IInv'
  BY <1>2 DEF CompanyPatched, CompaniesAnswered, IInv, Ticks, Form, Row
<1> QED BY <1>1, <1>2, ConvertedKeeps, LinkedKeeps, LoadedKeeps, CompanyAnsweredKeeps, BuyerAnsweredKeeps DEF Answers

LEMMA ReloadKeeps == ASSUME IInv, Reload PROVE IInv'
<1>1. Form(EmptyInvoice)
  BY EmptyForm
<1>2. /\ data' = EmptyInvoice /\ timer' = NoDraft /\ loading' = TRUE
      /\ UNCHANGED <<saved, scope>>
  BY DEF Reload
<1> QED BY <1>1, <1>2 DEF IInv, Ticks, Form, Row, InStep

LEMMA SaveKeeps == ASSUME IInv, Save PROVE IInv'
<1>1. ASSUME NEW d, Form(d) PROVE Row([saved EXCEPT !.data = d])
  BY <1>1 DEF IInv, Row
<1>2. Row(saved')
  BY <1>1 DEF Save, IInv
<1> QED BY <1>2 DEF Save, IInv, Ticks, Form, Row, InStep, TaxAmount, Total, NoDraft

-----------------------------------------------------------------------------
(* The load that is sent before there is a company *)

LEMMA WithItsRange == ASSUME NEW S, NEW s \in Seq(S) PROVE s \in Seq(Range(s))
<1>1. \A i \in 1..Len(s) : s[i] \in Range(s)
  BY DEF Range
<1>2. ASSUME NEW R, \A i \in 1..Len(s) : s[i] \in R PROVE s \in Seq(R)
  BY <1>2
<1> QED BY <1>1, <1>2

\* A call leaves the queue.
LEMMA RestOf ==
  ASSUME NEW S, NEW queue \in Seq(S), NEW i \in DOMAIN queue
  PROVE  /\ RemoveAt(queue, i) \in Seq(S)
         /\ i = 1 => /\ Len(RemoveAt(queue, i)) = Len(queue) - 1
                     /\ \A j \in 1..(Len(queue) - 1) : RemoveAt(queue, i)[j] = queue[j + 1]
  BY DEF RemoveAt

Loads(queue, c) == \A i \in DOMAIN queue : NoneLoad(queue[i]) => i = 1 /\ c = NoCompany

\* What a step has to show.
LEMMA LoadsNext ==
  ASSUME scope' = scope, NEW S, NEW queue \in Seq(S), "overtake" \notin scope.uses => Loads(queue, company'),
         calls' = queue \/ \E call : ~NoneLoad(call) /\ calls' = Append(queue, call)
  PROVE  LoadInv'
<1>1. CASE calls' = queue
  BY <1>1, WithItsRange DEF LoadInv, Loads, NoneLoad
<1>2. ASSUME NEW call, ~NoneLoad(call), calls' = Append(queue, call) PROVE LoadInv'
  <2>1. PICK q : q = Append(queue, call)
    OBVIOUS
  <2>2. q \in Seq(S \cup {call})
    BY <2>1
  <2>3. \A i \in DOMAIN q : (i \in DOMAIN queue /\ q[i] = queue[i]) \/ q[i] = call
    BY <2>1
  <2>4. "overtake" \notin scope.uses => Loads(q, company')
    BY <1>2, <2>3 DEF Loads
  <2> QED BY <1>2, <2>1, <2>2, <2>4, WithItsRange DEF LoadInv, Loads, NoneLoad
<1> QED BY <1>1, <1>2

LEMMA ConvertLoads ==
  ASSUME NEW d, NEW before, NEW queue, DoConvert(d, before, queue)
  PROVE  calls' = queue \/ \E call : ~NoneLoad(call) /\ calls' = Append(queue, call)
<1>1. ~NoneLoad(Call("convert", None, Amount(d)))
  BY DEF NoneLoad, Call
<1> QED BY <1>1 DEF DoConvert

LEMMA ChangeLoads ==
  ASSUME NEW d, NEW queue, Change(d, queue)
  PROVE  calls' = queue \/ \E call : ~NoneLoad(call) /\ calls' = Append(queue, call)
BY ConvertLoads DEF Change

\* The user sends no load.
LEMMA EditLoads == ASSUME LoadInv, NEW use, NEW d, Edit(use, d) PROVE LoadInv'
<1>1. PICK queue : queue = calls
  OBVIOUS
<1>2. Change(d, queue) /\ UNCHANGED <<company, scope>>
  BY <1>1 DEF Edit
<1>3. queue \in Seq(Range(queue)) /\ ("overtake" \notin scope.uses => Loads(queue, company))
  BY <1>1 DEF LoadInv, Loads
<1> QED BY <1>2, <1>3, ChangeLoads, LoadsNext

LEMMA FieldLoads == ASSUME LoadInv, NEW use, NEW d, Field(use, d) PROVE LoadInv'
BY EditLoads DEF Field

LEMMA AsksLoads == ASSUME LoadInv, NEW use, NEW call, ~NoneLoad(call), Asks(use, call) PROVE LoadInv'
<1>1. PICK queue : queue = calls
  OBVIOUS
<1>2. calls' = Append(queue, call) /\ UNCHANGED <<company, scope>>
  BY <1>1 DEF Asks
<1>3. queue \in Seq(Range(queue)) /\ ("overtake" \notin scope.uses => Loads(queue, company))
  BY <1>1 DEF LoadInv, Loads
<1> QED BY <1>2, <1>3, LoadsNext

LEMMA SectionsLoad ==
  ASSUME IInv, LoadInv,
         \/ LineItemsSection \/ InvoiceHeaderSection \/ TransportInfoSection
         \/ CompanyInfoSection \/ BuyerInfoSection \/ TypeNames
         \/ (\E rate : TaxRateChange(rate)) \/ (\E m : SelectMark(m))
  PROVE  LoadInv'
<1>1. LineItemsSection => LoadInv'
  BY LinesGiven, EditLoads DEF ItemsChange
<1>2. InvoiceHeaderSection => LoadInv'
  BY FieldLoads DEF InvoiceHeaderSection, SetType, SetLanguage, SetCurrency, SetBase, SetDate
<1>3. TransportInfoSection => LoadInv'
  BY FieldLoads DEF TransportInfoSection, TypeWords, AutoFillWords, TruckCleared, VehicleSelect, VehicleCreated,
                    TrailerSelect
<1>4. TypeNames \/ (\E rate : TaxRateChange(rate)) \/ (\E m : SelectMark(m)) => LoadInv'
  BY FieldLoads, EditLoads DEF TypeNames, TaxRateChange, SelectMark
<1>5. CompanyInfoSection => LoadInv'
  <2>1. ~NoneLoad(Call("company", data.language, None))
    BY DEF NoneLoad, Call
  <2> QED BY <2>1, FieldLoads, EditLoads, AsksLoads DEF CompanyInfoSection, BankAccountToggle, TypeBankText, ResyncCompany
<1>6. BuyerInfoSection => LoadInv'
  <2>1. ~NoneLoad(Call("buyer", None, None)) /\ \A c : ~NoneLoad(Call("link", data.language, c))
    BY DEF NoneLoad, Call
  <2> QED BY <2>1, EditLoads, AsksLoads DEF BuyerInfoSection, AutoFillBuyer, ResyncBuyer, ContractorCreated
<1> QED BY <1>1, <1>2, <1>3, <1>4, <1>5, <1>6

\* Behind the first call there is none.
LEMMA RestLoads ==
  ASSUME LoadInv, NEW i, NEW op, Answered(i, op)
  PROVE  /\ Rest(i) \in Seq(Range(calls))
         /\ "overtake" \notin scope.uses => \A c : Loads(Rest(i), c)
<1>1. PICK q : q = calls
  OBVIOUS
<1>2. q \in Seq(Range(q)) /\ i \in DOMAIN q /\ Rest(i) = RemoveAt(q, i)
  BY <1>1 DEF LoadInv, Answered, Rest
<1>3. RemoveAt(q, i) \in Seq(Range(q))
  BY <1>2, RestOf
<1>4. ASSUME "overtake" \notin scope.uses, NEW c PROVE Loads(RemoveAt(q, i), c)
  <2>1. i = 1 /\ Loads(q, company)
    BY <1>1, <1>4 DEF Answered, LoadInv, Loads
  <2>2. Len(RemoveAt(q, 1)) = Len(q) - 1 /\ \A j \in 1..(Len(q) - 1) : RemoveAt(q, 1)[j] = q[j + 1]
    BY <1>2, <2>1, RestOf
  <2>3. PICK r : r = RemoveAt(q, 1)
    OBVIOUS
  <2>4. DOMAIN r = 1..(Len(q) - 1) /\ DOMAIN q = 1..Len(q) /\ Len(q) \in Nat
    BY <1>2, <1>3, <2>1, <2>2, <2>3
  <2>5. ASSUME NEW j \in DOMAIN r PROVE ~NoneLoad(r[j])
    <3>1. j + 1 \in DOMAIN q /\ j + 1 # 1 /\ r[j] = q[j + 1]
      BY <2>2, <2>3, <2>4
    <3> QED BY <2>1, <3>1 DEF Loads
  <2> QED BY <2>1, <2>3, <2>5 DEF Loads
<1> QED BY <1>1, <1>2, <1>3, <1>4

\* A step that answers a call and asks for at most two others.
LEMMA AnswerLoads ==
  ASSUME LoadInv, NEW i, NEW op, Answered(i, op), UNCHANGED scope, NEW queue,
         (queue = Rest(i)) \/ (\E call : ~NoneLoad(call) /\ queue = Append(Rest(i), call)),
         (calls' = queue) \/ (\E call : ~NoneLoad(call) /\ calls' = Append(queue, call))
  PROVE  LoadInv'
<1>1. PICK rest : rest = Rest(i)
  OBVIOUS
<1>2. rest \in Seq(Range(calls)) /\ ("overtake" \notin scope.uses => Loads(rest, company'))
  BY <1>1, RestLoads
<1>3. ASSUME NEW call, ~NoneLoad(call), queue = Append(rest, call)
      PROVE  queue \in Seq(Range(calls) \cup {call}) /\ ("overtake" \notin scope.uses => Loads(queue, company'))
  <2>1. \A j \in DOMAIN queue : (j \in DOMAIN rest /\ queue[j] = rest[j]) \/ queue[j] = call
    BY <1>2, <1>3
  <2>2. queue \in Seq(Range(calls) \cup {call})
    BY <1>2, <1>3
  <2> QED BY <1>2, <1>3, <2>1, <2>2 DEF Loads
<1>4. PICK S : queue \in Seq(S) /\ ("overtake" \notin scope.uses => Loads(queue, company'))
  BY <1>1, <1>2, <1>3
<1> QED BY <1>4, LoadsNext

LEMMA AnswersLoad == ASSUME LoadInv, Answers PROVE LoadInv'
<1>1. ASSUME NEW i, NEW op, Answered(i, op), UNCHANGED scope,
             (calls' = Rest(i)) \/ (\E call : ~NoneLoad(call) /\ calls' = Append(Rest(i), call))
      PROVE  LoadInv'
  <2>1. PICK queue : queue = Rest(i)
    OBVIOUS
  <2> QED BY <1>1, <2>1, AnswerLoads
<1>2. ASSUME NEW i, Converted(i) \/ Linked(i) \/ NotConverted(i) \/ Failed(i) \/ \E c : BuyerAnswered(i, c)
      PROVE  LoadInv'
  <2>1. /\ \E op : Answered(i, op)
        /\ calls' = Rest(i) \/ \E d : Change(d, Rest(i))
        /\ UNCHANGED scope
    BY <1>2 DEF Converted, Linked, NotConverted, Failed, BuyerAnswered
  <2>2. calls' = Rest(i) \/ \E call : ~NoneLoad(call) /\ calls' = Append(Rest(i), call)
    BY <2>1, ChangeLoads
  <2> QED BY <1>1, <2>1, <2>2
<1>3. ASSUME NEW i, Loaded(i) PROVE LoadInv'
  <2>1. Answered(i, "load") /\ UNCHANGED scope /\ \E d : DoConvert(d, Seen, Rest(i))
    BY <1>3 DEF Loaded
  <2>2. calls' = Rest(i) \/ \E call : ~NoneLoad(call) /\ calls' = Append(Rest(i), call)
    BY <2>1, ConvertLoads
  <2> QED BY <1>1, <2>1, <2>2
<1>4. ASSUME NEW i, NEW c, CompanyAnswered(i, c) PROVE LoadInv'
  <2>1. Answered(i, "company") /\ UNCHANGED scope /\ \E d : Change(d, Append(Rest(i), Call("patch", None, None)))
    BY <1>4 DEF CompanyAnswered
  <2>2. PICK queue : queue = Append(Rest(i), Call("patch", None, None))
    OBVIOUS
  <2>3. ~NoneLoad(Call("patch", None, None))
    BY DEF NoneLoad, Call
  <2>4. calls' = queue \/ \E call : ~NoneLoad(call) /\ calls' = Append(queue, call)
    BY <2>1, <2>2, ChangeLoads
  <2> QED BY <2>1, <2>2, <2>3, <2>4, AnswerLoads
<1>5. ASSUME NEW i, NEW c \in Companies, CompanyPatched(i, c) \/ CompaniesAnswered(i, c) PROVE LoadInv'
  <2>1. /\ \E op : Answered(i, op)
        /\ calls' = Append(Rest(i), Call("load", None, c)) /\ UNCHANGED scope
    BY <1>5 DEF CompanyPatched, CompaniesAnswered
  <2>2. ~NoneLoad(Call("load", None, c))
    BY CompanyIsOne DEF NoneLoad, Call
  <2> QED BY <1>1, <2>1, <2>2
<1> QED BY <1>2, <1>3, <1>4, <1>5 DEF Answers

\* The page is opened: the load comes first.
LEMMA OpenedIs ==
  ASSUME NEW c
  PROVE  LET q == Opened(c)
             load == Call("load", None, c)
             companies == Call("companies", None, None)
         IN  /\ q \in Seq({load, companies}) /\ 1 \in DOMAIN q /\ q[1] = load
             /\ \A i \in DOMAIN q : i = 1 \/ (i = 2 /\ q[i] = companies /\ c = NoCompany)
<1>1. PICK first, next : first = Call("load", None, c) /\ next = Call("companies", None, None)
  OBVIOUS
<1>2. Opened(c) = IF c = NoCompany THEN <<first, next>> ELSE <<first>>
  BY <1>1, Zenon DEF Opened
<1>3. PICK q : q = IF c = NoCompany THEN <<first, next>> ELSE <<first>>
  OBVIOUS
<1>4. q \in Seq({first, next}) /\ 1 \in DOMAIN q /\ q[1] = first
  <2>1. PICK both, one : both = <<first, next>> /\ one = <<first>>
    OBVIOUS
  <2>2. both \in Seq({first, next}) /\ 1 \in DOMAIN both /\ both[1] = first
    BY <2>1
  <2>3. one \in Seq({first, next}) /\ 1 \in DOMAIN one /\ one[1] = first
    BY <2>1
  <2> QED BY <1>3, <2>1, <2>2, <2>3
<1>5. \A i \in DOMAIN q : i = 1 \/ (i = 2 /\ q[i] = next /\ c = NoCompany)
  BY <1>3
<1> QED BY <1>1, <1>2, <1>3, <1>4, <1>5

LEMMA OpenedLoads == ASSUME NEW c PROVE Loads(Opened(c), c) /\ Opened(c) \in Seq(Range(Opened(c)))
<1>1. PICK q, load, companies : q = Opened(c) /\ load = Call("load", None, c) /\ companies = Call("companies", None, None)
  OBVIOUS
<1>2. /\ q \in Seq({load, companies}) /\ q[1] = load
      /\ \A i \in DOMAIN q : i = 1 \/ (i = 2 /\ q[i] = companies /\ c = NoCompany)
  BY <1>1, OpenedIs
<1>3. NoneLoad(load) => c = NoCompany
  BY <1>1 DEF NoneLoad, Call
<1>4. ~NoneLoad(companies)
  BY <1>1 DEF NoneLoad, Call
<1> QED BY <1>1, <1>2, <1>3, <1>4, WithItsRange DEF Loads

LEMMA InitLoads == Init => LoadInv
BY OpenedLoads DEF Init, LoadInv, Loads

LEMMA StepLoads == IInv /\ LoadInv /\ [Next]_vars => LoadInv'
<1> SUFFICES ASSUME IInv, LoadInv, [Next]_vars PROVE LoadInv'
  OBVIOUS
<1>1. CASE UNCHANGED <<calls, company, scope>>
  BY <1>1 DEF LoadInv, NoneLoad
<1>2. Save \/ UNCHANGED vars => UNCHANGED <<calls, company, scope>>
  BY DEF Save, vars
<1>3. Reload => LoadInv'
  BY OpenedLoads DEF Reload, LoadInv, Loads
<1> QED BY <1>1, <1>2, <1>3, SectionsLoad, AnswersLoad DEF Next

-----------------------------------------------------------------------------
(* The invariant *)

LEMMA InitIInv == Init => IInv
<1> SUFFICES ASSUME Init PROVE IInv
  OBVIOUS
<1>1. scope \in Scope
  BY FormAssumption DEF Init
<1>2. Form(data) /\ loading
  BY EmptyForm DEF Init
<1>3. PICK t, b : saved = [data |-> [type |-> t], buyer |-> b]
  BY DEF Init, Stub
<1>4. Row(saved)
  BY <1>3 DEF Row, IsInvoiceData
<1> QED BY <1>1, <1>2, <1>4 DEF Init, IInv, Ticks, NoDraft

LEMMA StepIInv == IInv /\ LoadInv /\ [Next]_vars => IInv'
<1> SUFFICES ASSUME IInv, LoadInv, [Next]_vars PROVE IInv'
  OBVIOUS
<1>1. CASE UNCHANGED vars
  BY <1>1 DEF vars, IInv, Ticks, Form, Row, InStep, TaxAmount, Total
<1>2. CASE Next
  BY <1>2, LinesKeep, HeaderKeeps, TransportKeeps, CompanySectionKeeps, BuyerSectionKeeps, NamesKeep,
     RateKeeps, MarkKeeps, AnswersKeep, SaveKeeps, ReloadKeeps DEF Next
<1> QED BY <1>1, <1>2

LEMMA Invariant == Spec => [](IInv /\ LoadInv)
BY InitIInv, StepIInv, InitLoads, StepLoads, PTL DEF Spec

-----------------------------------------------------------------------------
(* The amount in the base currency *)

\* An answer after which the amount may be another one.
Renders(call) == call.op \in {"convert", "load"}

\* The newest of these answers under way is the one that d needs, or there is none and
\* d has it.
Rendered(queue, d) ==
  \/ \E i \in DOMAIN queue :
       /\ queue[i].op = "convert" /\ queue[i].body = Amount(d)
       /\ \A j \in DOMAIN queue : j > i => ~Renders(queue[j])
  \/ d.baseAmount = Amount(d) /\ \A i \in DOMAIN queue : ~Renders(queue[i])

\* The header shows an amount that the server knows.
Shown(d) == d.total > 0 /\ d.currency # d.base /\ RateKnown(d.date)

ConvInv ==
  /\ calls \in Seq(Range(calls))
  /\ ~loading /\ Shown(data) /\ {"overtake", "fail"} \cap scope.uses = {} => Rendered(calls, data)

\* Other calls may be added behind.
LEMMA AppendRendered ==
  ASSUME NEW S, NEW queue \in Seq(S), NEW d, Rendered(queue, d), NEW c, ~Renders(c)
  PROVE  Rendered(Append(queue, c), d)
<1> DEFINE q == Append(queue, c)
<1>1. DOMAIN queue = 1..Len(queue) /\ Len(queue) \in Nat /\ DOMAIN q = 1..(Len(queue) + 1)
      /\ q[Len(queue) + 1] = c /\ \A i \in 1..Len(queue) : q[i] = queue[i]
  OBVIOUS
<1> HIDE DEF q
<1>2. CASE d.baseAmount = Amount(d) /\ \A i \in DOMAIN queue : ~Renders(queue[i])
  <2>1. \A i \in DOMAIN q : ~Renders(q[i])
    BY <1>1, <1>2
  <2> QED BY <1>2, <2>1 DEF Rendered, q
<1>3. ASSUME NEW i \in DOMAIN queue, queue[i].op = "convert", queue[i].body = Amount(d),
             \A j \in DOMAIN queue : j > i => ~Renders(queue[j])
      PROVE  Rendered(q, d)
  <2>1. i \in DOMAIN q /\ q[i] = queue[i]
    BY <1>1
  <2>2. \A j \in DOMAIN q : j > i => ~Renders(q[j])
    BY <1>1, <1>3
  <2> QED BY <1>3, <2>1, <2>2 DEF Rendered
<1> QED BY <1>2, <1>3 DEF Rendered, q

\* The first call leaves the queue: a conversion whose amount d gets, a load, or another
\* one that leaves the amount alone.
LEMMA FirstAnswered ==
  ASSUME NEW S, NEW queue \in Seq(S), 1 \in DOMAIN queue, NEW d, Rendered(queue, d), NEW e, Amount(e) = Amount(d),
         \/ queue[1].op = "convert" /\ (queue[1].body = Amount(d) => e.baseAmount = queue[1].body)
         \/ queue[1].op = "load"
         \/ ~Renders(queue[1]) /\ e.baseAmount = d.baseAmount
  PROVE  Rendered(RemoveAt(queue, 1), e)
<1> DEFINE q == RemoveAt(queue, 1)
<1>1. q \in Seq(S) /\ Len(q) = Len(queue) - 1 /\ \A j \in 1..(Len(queue) - 1) : q[j] = queue[j + 1]
  BY RestOf
<1>2. DOMAIN queue = 1..Len(queue) /\ Len(queue) \in Nat /\ DOMAIN q = 1..(Len(queue) - 1)
  BY <1>1
<1> HIDE DEF q
<1>3. CASE d.baseAmount = Amount(d) /\ \A i \in DOMAIN queue : ~Renders(queue[i])
  <2>1. \A i \in DOMAIN q : ~Renders(q[i])
    BY <1>1, <1>2, <1>3
  <2>2. e.baseAmount = d.baseAmount
    BY <1>3 DEF Renders
  <2> QED BY <1>3, <2>1, <2>2 DEF Rendered, q
<1>4. ASSUME NEW i \in DOMAIN queue, queue[i].op = "convert", queue[i].body = Amount(d),
             \A j \in DOMAIN queue : j > i => ~Renders(queue[j])
      PROVE  Rendered(q, e)
  <2>1. CASE i = 1
    <3>1. \A j \in DOMAIN q : ~Renders(q[j])
      BY <1>1, <1>2, <1>4, <2>1
    <3>2. e.baseAmount = queue[1].body
      BY <1>4, <2>1 DEF Renders
    <3> QED BY <1>4, <2>1, <3>1, <3>2 DEF Rendered
  <2>2. CASE i # 1
    <3>1. i - 1 \in DOMAIN q /\ q[i - 1] = queue[i]
      BY <1>1, <1>2, <2>2
    <3>2. ASSUME NEW j \in DOMAIN q, j > i - 1 PROVE ~Renders(q[j])
      <4>1. j + 1 \in DOMAIN queue /\ j + 1 > i /\ q[j] = queue[j + 1]
        BY <1>1, <1>2, <3>2
      <4> QED BY <1>4, <4>1
    <3> QED BY <1>4, <3>1, <3>2 DEF Rendered
  <2> QED BY <2>1, <2>2
<1> QED BY <1>3, <1>4 DEF Rendered, q

\* The header asks for a conversion unless what it depends on is as it was.
LEMMA ConvertRendered ==
  ASSUME NEW S, NEW queue \in Seq(S), NEW d, Form(d), NEW before, DoConvert(d, before, queue),
         Deps(d) = before /\ Shown(d) => Rendered(queue, d)
  PROVE  /\ calls' \in Seq(Range(calls'))
         /\ data'.total > 0 /\ data'.currency # data'.base /\ RateKnown(data'.date) => Rendered(calls', data')
<1> DEFINE c == Call("convert", None, Amount(d))
           q == Append(queue, c)
<1>1. CASE Due(d, before) /\ SameCurrency(d)
  <2>1. data' = [d EXCEPT !.baseAmount = Amount(d)] /\ calls' = queue
    BY <1>1 DEF DoConvert
  <2>2. {"currency", "base"} \subseteq Fields
    BY DEF Fields, EmptyInvoice
  <2>3. data'.currency = data'.base
    BY <1>1, <2>1, <2>2, ConvertedSet DEF SameCurrency
  <2> QED BY <2>1, <2>3, WithItsRange
<1>2. CASE Due(d, before) /\ ~SameCurrency(d)
  <2>1. data' = d /\ calls' = q
    BY <1>2 DEF DoConvert
  <2>2. c.op = "convert" /\ c.body = Amount(d)
    BY DEF Call
  <2> HIDE DEF c
  <2>3. q \in Seq(S \cup {c})
    OBVIOUS
  <2>4. Len(queue) + 1 \in DOMAIN q /\ q[Len(queue) + 1] = c /\ \A j \in DOMAIN q : ~(j > Len(queue) + 1)
    OBVIOUS
  <2> HIDE DEF q
  <2>5. Rendered(q, d)
    BY <2>2, <2>4 DEF Rendered
  <2> QED BY <2>1, <2>3, <2>5, WithItsRange
<1>3. CASE ~Due(d, before)
  <2>1. data' = d /\ calls' = queue
    BY <1>3 DEF DoConvert
  <2>2. d.total > 0 => Deps(d) = before
    BY <1>3 DEF Due
  <2> QED BY <2>1, <2>2, WithItsRange DEF Shown
<1> QED BY <1>1, <1>2, <1>3

LEMMA AppendedIsOne ==
  ASSUME NEW S, NEW queue \in Seq(S), calls' = queue \/ (\E c : calls' = Append(queue, c))
  PROVE  calls' \in Seq(Range(calls'))
<1>1. CASE calls' = queue
  BY <1>1, WithItsRange
<1>2. ASSUME NEW c, calls' = Append(queue, c) PROVE calls' \in Seq(Range(calls'))
  <2>1. Append(queue, c) \in Seq(S \cup {c})
    OBVIOUS
  <2> QED BY <1>2, <2>1, WithItsRange
<1> QED BY <1>1, <1>2

LEMMA ChangeConv ==
  ASSUME ConvInv, NEW S, NEW queue \in Seq(S), NEW d, Form(d), Change(d, queue), UNCHANGED <<loading, scope>>,
         ~loading /\ Deps(d) = Deps(data) /\ Shown(d) /\ {"overtake", "fail"} \cap scope.uses = {}
           => Rendered(queue, d)
  PROVE  ConvInv'
<1>1. CASE loading
  <2>1. calls' = queue /\ loading'
    BY <1>1 DEF Change
  <2> QED BY <2>1, WithItsRange DEF ConvInv
<1>2. CASE ~loading /\ {"overtake", "fail"} \cap scope.uses = {}
  <2>1. PICK before : before = Deps(data)
    OBVIOUS
  <2>2. DoConvert(d, before, queue)
    BY <1>2, <2>1 DEF Change
  <2>3. /\ calls' \in Seq(Range(calls'))
        /\ data'.total > 0 /\ data'.currency # data'.base /\ RateKnown(data'.date) => Rendered(calls', data')
    BY <1>2, <2>1, <2>2, ConvertRendered
  <2> QED BY <2>3 DEF ConvInv, Shown, RateKnown, Rendered, Renders, Amount
<1>3. CASE ~loading /\ {"overtake", "fail"} \cap scope.uses # {}
  <2>1. DoConvert(d, Deps(data), queue)
    BY <1>3 DEF Change
  <2>2. calls' = queue \/ \E c : calls' = Append(queue, c)
    BY <2>1 DEF DoConvert
  <2>3. calls' \in Seq(Range(calls'))
    BY <2>2, AppendedIsOne
  <2> QED BY <1>3, <2>3 DEF ConvInv
<1> QED BY <1>1, <1>2, <1>3

LEMMA SameDeps == ASSUME NEW d, NEW e, Deps(d) = Deps(e) PROVE Amount(d) = Amount(e) /\ (Shown(d) <=> Shown(e))
<1>1. d.total = e.total /\ d.currency = e.currency /\ d.base = e.base /\ d.date = e.date
  BY DEF Deps
<1> QED BY <1>1 DEF Amount, Shown

\* An edit does not touch the converted amount.
LEMMA EditConv ==
  ASSUME ConvInv, NEW use, NEW d, Form(d), Edit(use, d), d.baseAmount = data.baseAmount
  PROVE  ConvInv'
<1>1. Change(d, calls) /\ UNCHANGED <<loading, scope>> /\ ~loading
  BY DEF Edit
<1>2. ASSUME Deps(d) = Deps(data), Shown(d), {"overtake", "fail"} \cap scope.uses = {}
      PROVE  Rendered(calls, d)
  <2>1. PICK e : e = data
    OBVIOUS
  <2>2. Amount(d) = Amount(e) /\ Shown(e)
    BY <1>2, <2>1, SameDeps
  <2>3. Rendered(calls, e)
    BY <1>1, <1>2, <2>1, <2>2 DEF ConvInv
  <2> QED BY <2>1, <2>2, <2>3 DEF Rendered
<1>3. calls \in Seq(Range(calls))
  BY DEF ConvInv
<1> QED BY <1>1, <1>2, <1>3, ChangeConv

\* Still an invoice with the same converted amount.
Kept(e, d) == Form(e) /\ e.baseAmount = d.baseAmount

LEMMA CalculatedKept == ASSUME NEW d, Form(d) PROVE Kept(CalculateTotals(d), d)
<1>1. Form(CalculateTotals(d))
  BY CalculatedTotals DEF Like
<1>2. \A s, t, u : [d EXCEPT !.subtotal = s, !.taxAmount = t, !.total = u].baseAmount = d.baseAmount
  BY DEF Form, Fields, EmptyInvoice
<1> QED BY <1>1, <1>2 DEF Kept, CalculateTotals

LEMMA WordedKept == ASSUME NEW d, Form(d) PROVE Kept(Worded(d), d)
<1>1. Form(Worded(d))
  BY WordedStill DEF Still, Like
<1>2. \A w : [d EXCEPT !.words = w].baseAmount = d.baseAmount
  BY DEF Form, Fields, EmptyInvoice
<1> QED BY <1>1, <1>2 DEF Kept, Worded

LEMMA FieldConv == ASSUME ConvInv, NEW use, NEW d, Kept(d, data), Field(use, d) PROVE ConvInv'
  BY CalculatedKept, EditConv DEF Field, Kept

LEMMA LinesConv ==
  ASSUME ConvInv, NEW use, NEW d, Kept(d, data), Edit(use, Worded(CalculateTotals(d)))
  PROVE  ConvInv'
<1>1. Kept(CalculateTotals(d), d)
  BY CalculatedKept DEF Kept
<1>2. Kept(Worded(CalculateTotals(d)), CalculateTotals(d))
  BY <1>1, WordedKept DEF Kept
<1> QED BY <1>1, <1>2, EditConv DEF Kept

LEMMA KeptSet ==
  ASSUME IInv, NEW f \in Fields \ {"taxRate", "items", "baseAmount"}, NEW v
  PROVE  Kept([data EXCEPT ![f] = v], data)
<1>1. Form(data) /\ "baseAmount" \in Fields
  BY DEF IInv, Fields, EmptyInvoice
<1> QED BY <1>1, FieldSet DEF Kept

LEMMA ItemsConv ==
  ASSUME IInv, ConvInv, NEW use, NEW items \in Seq(Line), ItemsChange(use, items)
  PROVE  ConvInv'
<1>1. Kept([data EXCEPT !.items = items], data)
  BY DEF IInv, Kept, Form, Fields, EmptyInvoice
<1> QED BY <1>1, LinesConv DEF ItemsChange

LEMMA LineSectionConv == ASSUME IInv, ConvInv, LineItemsSection PROVE ConvInv'
<1>1. PICK use : \E items \in Seq(Line) : ItemsChange(use, items)
  BY LinesGiven
<1>2. PICK next \in Seq(Line) : ItemsChange(use, next)
  BY <1>1
<1> QED BY <1>2, ItemsConv

LEMMA RateConv == ASSUME IInv, ConvInv, NEW rate \in scope.rates, TaxRateChange(rate) PROVE ConvInv'
<1>1. rate \in 0..100
  BY DEF IInv, Scope
<1>2. Kept([data EXCEPT !.taxRate = rate], data)
  BY <1>1 DEF IInv, Kept, Form, Fields, EmptyInvoice
<1> QED BY <1>2, LinesConv DEF TaxRateChange

LEMMA HeaderConv == ASSUME IInv, ConvInv, InvoiceHeaderSection PROVE ConvInv'
<1>1. \A d : Kept(d, data) => Kept(Worded(d), data)
  BY WordedKept DEF Kept
<1>2. \A f \in Fields \ {"taxRate", "items", "baseAmount"} : \A v : Kept([data EXCEPT ![f] = v], data)
  BY KeptSet
<1>3. {"type", "language", "currency", "base", "date"} \subseteq Fields \ {"taxRate", "items", "baseAmount"}
  BY DEF Fields, EmptyInvoice
<1>4. ASSUME NEW t, SetType(t) PROVE ConvInv'
  BY <1>2, <1>3, <1>4, FieldConv DEF SetType
<1>5. ASSUME NEW l, SetLanguage(l) PROVE ConvInv'
  <2>1. PICK d : d = InLanguageOf(l)
    OBVIOUS
  <2>2. "baseAmount" \in Fields \ Texted
    BY DEF Texted, Fields, EmptyInvoice
  <2>3. Kept(d, data)
    BY <2>1, <2>2, InLanguageIs DEF IInv, Kept
  <2>4. Kept(Worded(d), data)
    BY <1>1, <2>3
  <2>5. Field("language", Worded(d))
    BY <1>5, <2>1 DEF SetLanguage, InLanguageOf
  <2> QED BY <2>4, <2>5, FieldConv
<1>6. ASSUME NEW c, SetCurrency(c) PROVE ConvInv'
  <2>1. Kept([data EXCEPT !.currency = c], data)
    BY <1>2, <1>3
  <2>2. Kept(Worded([data EXCEPT !.currency = c]), data)
    BY <1>1, <2>1
  <2> QED BY <1>6, <2>2, FieldConv DEF SetCurrency
<1>7. ASSUME NEW c, SetBase(c) PROVE ConvInv'
  BY <1>2, <1>3, <1>7, FieldConv DEF SetBase
<1>8. ASSUME NEW t, SetDate(t) PROVE ConvInv'
  BY <1>2, <1>3, <1>8, FieldConv DEF SetDate
<1> QED BY <1>4, <1>5, <1>6, <1>7, <1>8 DEF InvoiceHeaderSection

LEMMA TransportConv == ASSUME IInv, ConvInv, TransportInfoSection PROVE ConvInv'
<1>1. \A v, w : /\ Kept([data EXCEPT !.words = v], data)
                /\ Kept([data EXCEPT !.truck = v, !.trailer = w], data)
                /\ Kept([data EXCEPT !.truck = v], data)
                /\ Kept([data EXCEPT !.trailer = v], data)
  <2> TAKE v, w
  <2>1. Kept([data EXCEPT !.words = v], data)
    BY DEF IInv, Kept, Form, Fields, EmptyInvoice
  <2>2. Kept([data EXCEPT !.truck = v, !.trailer = w], data)
    BY DEF IInv, Kept, Form, Fields, EmptyInvoice
  <2>3. Kept([data EXCEPT !.truck = v], data)
    BY DEF IInv, Kept, Form, Fields, EmptyInvoice
  <2>4. Kept([data EXCEPT !.trailer = v], data)
    BY DEF IInv, Kept, Form, Fields, EmptyInvoice
  <2> QED BY <2>1, <2>2, <2>3, <2>4
<1>2. TypeWords => ConvInv'
  BY <1>1, FieldConv DEF TypeWords
<1>3. AutoFillWords => ConvInv'
  BY <1>1, FieldConv DEF AutoFillWords
<1>4. TruckCleared => ConvInv'
  BY <1>1, FieldConv DEF TruckCleared
<1>5. ASSUME NEW t PROVE VehicleSelect(t) => ConvInv'
  BY <1>1, FieldConv DEF VehicleSelect
<1>6. ASSUME NEW t PROVE VehicleCreated(t) => ConvInv'
  BY <1>1, FieldConv DEF VehicleCreated
<1>7. ASSUME NEW t PROVE TrailerSelect(t) => ConvInv'
  BY <1>1, FieldConv DEF TrailerSelect
<1> QED BY <1>2, <1>3, <1>4, <1>5, <1>6, <1>7 DEF TransportInfoSection

LEMMA NamesConv == ASSUME IInv, ConvInv, TypeNames \/ (\E m : SelectMark(m)) PROVE ConvInv'
<1>1. \A f \in {"buyer", "signer", "director", "mark"} : \A v : Kept([data EXCEPT ![f] = v], data)
  BY KeptSet DEF Fields, EmptyInvoice
<1> QED BY <1>1, FieldConv DEF TypeNames, SelectMark

\* A question that is neither a conversion nor a load.
LEMMA AsksConv ==
  ASSUME ConvInv, NEW use, NEW call, ~Renders(call), Asks(use, call)
  PROVE  ConvInv'
<1>1. PICK queue : queue = calls
  OBVIOUS
<1>2. queue \in Seq(Range(queue)) /\ calls' = Append(queue, call)
  BY <1>1 DEF ConvInv, Asks
<1>3. Append(queue, call) \in Seq(Range(queue) \cup {call})
  BY <1>2
<1>4. calls' \in Seq(Range(calls'))
  BY <1>2, <1>3, WithItsRange
<1>5. ASSUME Rendered(queue, data) PROVE Rendered(calls', data')
  BY <1>2, <1>5, AppendRendered DEF Asks
<1>6. ~loading /\ Shown(data) /\ {"overtake", "fail"} \cap scope.uses = {} => Rendered(calls', data')
  BY <1>1, <1>5 DEF ConvInv
<1>7. UNCHANGED <<data, loading, scope>>
  BY DEF Asks
<1> QED BY <1>4, <1>6, <1>7 DEF ConvInv, Shown, RateKnown, Rendered, Renders, Amount

LEMMA SellerConv == ASSUME IInv, ConvInv, CompanyInfoSection \/ BuyerInfoSection PROVE ConvInv'
<1>1. ASSUME NEW id, BankAccountToggle(id) PROVE ConvInv'
  <2>1. PICK next, text : Edit("banks", [data EXCEPT !.bankIds = next, !.bankText = text])
    BY <1>1 DEF BankAccountToggle
  <2>2. Kept([data EXCEPT !.bankIds = next, !.bankText = text], data)
    BY DEF IInv, Kept, Form, Fields, EmptyInvoice
  <2> QED BY <2>1, <2>2, EditConv DEF Kept
<1>2. TypeBankText => ConvInv'
  <2>1. Kept([data EXCEPT !.bankText = ByHand], data)
    BY DEF IInv, Kept, Form, Fields, EmptyInvoice
  <2> QED BY <2>1, FieldConv DEF TypeBankText
<1>3. AutoFillBuyer => ConvInv'
  <2> DEFINE d == Refilled(data, buyer, data.language)
  <2>1. Kept(d, data)
    BY RefilledKept DEF IInv, Kept
  <2> HIDE DEF d
  <2>2. AutoFillBuyer => Edit("buyer", d)
    BY DEF AutoFillBuyer, d
  <2> QED BY <2>1, <2>2, EditConv DEF Kept
<1>4. ResyncCompany => ConvInv'
  BY AsksConv DEF ResyncCompany, Call, Renders
<1>5. ResyncBuyer => ConvInv'
  BY AsksConv DEF ResyncBuyer, Call, Renders
<1>6. ASSUME NEW c PROVE ContractorCreated(c) => ConvInv'
  BY AsksConv DEF ContractorCreated, Call, Renders
<1> QED BY <1>1, <1>2, <1>3, <1>4, <1>5, <1>6 DEF CompanyInfoSection, BuyerInfoSection

\* An answer that is neither leaves the converted amount alone.
LEMMA AnswerConv ==
  ASSUME ConvInv, NEW i, NEW op, op \notin {"convert", "load"}, Answered(i, op), NEW d, Kept(d, data),
         NEW queue, queue = Rest(i) \/ (\E c : ~Renders(c) /\ queue = Append(Rest(i), c)),
         Change(d, queue), UNCHANGED <<loading, scope>>
  PROVE  ConvInv'
<1>1. PICK q, e : q = calls /\ e = data
  OBVIOUS
<1>2. q \in Seq(Range(q)) /\ i \in DOMAIN q /\ q[i].op = op /\ Rest(i) = RemoveAt(q, i)
  BY <1>1 DEF ConvInv, Answered, Rest
<1>3. RemoveAt(q, i) \in Seq(Range(q))
  BY <1>2, RestOf
<1>4. PICK S : queue \in Seq(S)
  <2>1. CASE queue = RemoveAt(q, i)
    BY <1>3, <2>1
  <2>2. ASSUME NEW c, queue = Append(RemoveAt(q, i), c) PROVE queue \in Seq(Range(q) \cup {c})
    BY <1>3, <2>2
  <2> QED BY <1>2, <2>1, <2>2
<1>5. ASSUME ~loading, Deps(d) = Deps(data), Shown(d), {"overtake", "fail"} \cap scope.uses = {}
      PROVE  Rendered(queue, d)
  <2>1. Amount(d) = Amount(e) /\ Shown(e)
    BY <1>1, <1>5, SameDeps
  <2>2. Rendered(q, e)
    BY <1>1, <1>5, <2>1 DEF ConvInv
  <2>3. i = 1 /\ ~Renders(q[1])
    BY <1>2, <1>5 DEF Answered, Renders
  <2>4. d.baseAmount = e.baseAmount
    BY <1>1 DEF Kept
  <2>5. Rendered(RemoveAt(q, i), d)
    BY <1>2, <2>1, <2>2, <2>3, <2>4, FirstAnswered
  <2> QED BY <1>2, <1>3, <2>5, AppendRendered
<1> QED BY <1>4, <1>5, ChangeConv DEF Kept

LEMMA ConvertedConv == ASSUME IInv, ConvInv, NEW i, Converted(i) PROVE ConvInv'
<1>1. PICK q, e : q = calls /\ e = data
  OBVIOUS
<1>2. q \in Seq(Range(q)) /\ i \in DOMAIN q /\ q[i].op = "convert" /\ Rest(i) = RemoveAt(q, i)
  BY <1>1 DEF ConvInv, Answered, Rest, Converted
<1>3. RemoveAt(q, i) \in Seq(Range(q))
  BY <1>2, RestOf
<1> DEFINE b == [e EXCEPT !.baseAmount = q[i].body]
           d == CalculateTotals(b)
<1>4. Change(d, RemoveAt(q, i)) /\ UNCHANGED <<loading, scope>>
  BY <1>1, <1>2 DEF Converted
<1>5. Form(b) /\ b.baseAmount = q[i].body /\ Form(e)
  BY <1>1, ConvertedSet DEF IInv, Fields, EmptyInvoice
<1>6. \A g \in Fields \ {"baseAmount"} : b[g] = e[g]
  BY <1>5, ConvertedSet
<1> HIDE DEF b
<1>7. Form(d) /\ d.baseAmount = q[i].body /\ InStep(d)
  BY <1>5, CalculatedKept, CalculatedTotals DEF Kept
<1> HIDE DEF d
<1>8. ASSUME ~loading, Deps(d) = Deps(data), Shown(d), {"overtake", "fail"} \cap scope.uses = {}
      PROVE  Rendered(RemoveAt(q, i), d)
  <2>1. Amount(d) = Amount(e) /\ Shown(e)
    BY <1>1, <1>8, SameDeps
  <2>2. Rendered(q, e)
    BY <1>1, <1>8, <2>1 DEF ConvInv
  <2>3. i = 1
    BY <1>8 DEF Answered, Converted
  <2> QED BY <1>2, <1>7, <2>1, <2>2, <2>3, FirstAnswered
<1> QED BY <1>3, <1>4, <1>7, <1>8, ChangeConv

\* There is no rate of the date of the answer, so it is not the one that is needed.
LEMMA NotConvertedConv == ASSUME ConvInv, NEW i, NotConverted(i) PROVE ConvInv'
<1>1. PICK q, e : q = calls /\ e = data
  OBVIOUS
<1>2. q \in Seq(Range(q)) /\ i \in DOMAIN q /\ q[i].op = "convert" /\ Rest(i) = RemoveAt(q, i) /\ ~RateKnown(q[i].body.date)
  BY <1>1 DEF ConvInv, Answered, Rest, NotConverted
<1>3. RemoveAt(q, i) \in Seq(Range(q))
  BY <1>2, RestOf
<1>4. ASSUME ~loading, Shown(e), {"overtake", "fail"} \cap scope.uses = {} PROVE Rendered(RemoveAt(q, i), e)
  <2>1. Rendered(q, e) /\ i = 1
    BY <1>1, <1>4 DEF ConvInv, Answered, NotConverted
  <2>2. RateKnown(Amount(e).date)
    BY <1>4 DEF Shown, Amount
  <2>3. q[1].body # Amount(e)
    BY <1>2, <2>1, <2>2
  <2> QED BY <1>2, <2>1, <2>3, FirstAnswered
<1>5. calls' = RemoveAt(q, i) /\ UNCHANGED <<data, loading, scope>>
  BY <1>2 DEF NotConverted
<1>6. calls' \in Seq(Range(calls'))
  BY <1>3, <1>5, WithItsRange
<1>7. ~loading /\ Shown(data) /\ {"overtake", "fail"} \cap scope.uses = {} => Rendered(calls', data')
  BY <1>1, <1>4, <1>5
<1> QED BY <1>5, <1>6, <1>7 DEF ConvInv, Shown, RateKnown, Rendered, Renders, Amount

LEMMA CompanyAnsweredConv == ASSUME IInv, ConvInv, NEW i, NEW fresh, CompanyAnswered(i, fresh) PROVE ConvInv'
<1>1. PICK s, ids, t, a, b :
        Change([data EXCEPT !.seller = s, !.bankIds = ids, !.bankText = t, !.director = a, !.signer = b],
               Append(Rest(i), Call("patch", None, None)))
  BY DEF CompanyAnswered
<1>2. Kept([data EXCEPT !.seller = s, !.bankIds = ids, !.bankText = t, !.director = a, !.signer = b], data)
  BY DEF IInv, Kept, Form, Fields, EmptyInvoice
<1>3. PICK queue : queue = Append(Rest(i), Call("patch", None, None))
  OBVIOUS
<1>4. ~Renders(Call("patch", None, None)) /\ "company" \notin {"convert", "load"}
  BY DEF Call, Renders
<1>5. Answered(i, "company") /\ UNCHANGED <<loading, scope>>
  BY DEF CompanyAnswered
<1> QED BY <1>1, <1>2, <1>3, <1>4, <1>5, AnswerConv

LEMMA BuyerAnsweredConv ==
  ASSUME IInv, ConvInv, NEW i, (\E c : BuyerAnswered(i, c)) \/ Linked(i)
  PROVE  ConvInv'
<1>1. PICK op, c, l : /\ op \notin {"convert", "load"} /\ Answered(i, op)
                      /\ Change(Refilled(data, c, l), Rest(i)) /\ UNCHANGED <<loading, scope>>
  <2>1. ASSUME NEW c, BuyerAnswered(i, c)
        PROVE  /\ "buyer" \notin {"convert", "load"} /\ Answered(i, "buyer")
               /\ Change(Refilled(data, c, data.language), Rest(i)) /\ UNCHANGED <<loading, scope>>
    BY <2>1 DEF BuyerAnswered
  <2>2. CASE Linked(i)
    <3>1. /\ "link" \notin {"convert", "load"} /\ Answered(i, "link")
          /\ Change(Refilled(data, calls[i].body, calls[i].lang), Rest(i)) /\ UNCHANGED <<loading, scope>>
      BY <2>2 DEF Linked
    <3> QED BY <3>1
  <2> QED BY <2>1, <2>2
<1> DEFINE d == Refilled(data, c, l)
<1>2. Kept(d, data)
  BY RefilledKept DEF IInv, Kept
<1> HIDE DEF d
<1>3. PICK queue : queue = Rest(i)
  OBVIOUS
<1> QED BY <1>1, <1>2, <1>3, AnswerConv DEF d

\* A header that is mounted with the form asks again; one that was there may see what it
\* has seen, and then what it asked for is behind the load.
LEMMA LoadedConv == ASSUME IInv, ConvInv, NEW i, Loaded(i) PROVE ConvInv'
<1> DEFINE p == Populated(Hydrated(saved.data), calls[i].body)
           d == CalculateTotals(p)
<1>1. Form(p)
  BY HydratedForm, PopulatedForm DEF IInv, Row
<1>2. DoConvert(d, Seen, Rest(i)) /\ UNCHANGED scope
  BY DEF Loaded
<1> HIDE DEF p
<1>3. Form(d)
  BY <1>1, CalculatedTotals DEF Like
<1> HIDE DEF d
<1>4. PICK q, e, seen : q = calls /\ e = data /\ seen = Seen
  OBVIOUS
<1>5. q \in Seq(Range(q)) /\ i \in DOMAIN q /\ Rest(i) = RemoveAt(q, i) /\ q[i].op = "load"
  BY <1>4 DEF ConvInv, Answered, Rest, Loaded
<1>6. RemoveAt(q, i) \in Seq(Range(q))
  BY <1>5, RestOf
<1>7. ASSUME Deps(d) = seen, Shown(d), {"overtake", "fail"} \cap scope.uses = {} PROVE Rendered(RemoveAt(q, i), d)
  <2>1. Deps(d) # <<>>
    BY DEF Deps
  <2>2. ~loading /\ Deps(d) = Deps(e)
    BY <1>4, <1>7, <2>1 DEF Seen
  <2>3. Amount(d) = Amount(e) /\ Shown(e)
    BY <1>7, <2>2, SameDeps
  <2>4. Rendered(q, e) /\ i = 1
    BY <1>4, <1>7, <2>2, <2>3 DEF ConvInv, Loaded, Answered
  <2> QED BY <1>5, <2>3, <2>4, FirstAnswered
<1>8. DoConvert(d, seen, RemoveAt(q, i))
  BY <1>2, <1>4, <1>5
<1>9. CASE {"overtake", "fail"} \cap scope.uses = {}
  <2>1. /\ calls' \in Seq(Range(calls'))
        /\ data'.total > 0 /\ data'.currency # data'.base /\ RateKnown(data'.date) => Rendered(calls', data')
    BY <1>3, <1>6, <1>7, <1>8, <1>9, ConvertRendered
  <2> QED BY <1>2, <2>1 DEF ConvInv, Shown, RateKnown, Rendered, Renders, Amount
<1>10. CASE {"overtake", "fail"} \cap scope.uses # {}
  <2>1. calls' = RemoveAt(q, i) \/ \E c : calls' = Append(RemoveAt(q, i), c)
    BY <1>8 DEF DoConvert
  <2>2. calls' \in Seq(Range(calls'))
    BY <1>6, <2>1, AppendedIsOne
  <2> QED BY <1>2, <1>10, <2>2 DEF ConvInv
<1> QED BY <1>9, <1>10

LEMMA OthersConv ==
  ASSUME ConvInv, NEW i, (\E c : CompanyPatched(i, c) \/ CompaniesAnswered(i, c)) \/ Failed(i)
  PROVE  ConvInv'
<1>1. PICK q : q = calls
  OBVIOUS
<1>2. q \in Seq(Range(q))
  BY <1>1 DEF ConvInv
<1>3. CASE Failed(i)
  <2>1. i \in DOMAIN q /\ calls' = RemoveAt(q, i) /\ "fail" \in scope.uses /\ UNCHANGED scope
    BY <1>1, <1>3 DEF Failed, Answered, Rest
  <2>2. RemoveAt(q, i) \in Seq(Range(q))
    BY <1>2, <2>1, RestOf
  <2> QED BY <2>1, <2>2, WithItsRange DEF ConvInv
<1>4. ASSUME NEW c, CompanyPatched(i, c) \/ CompaniesAnswered(i, c) PROVE ConvInv'
  <2>1. PICK load : load = Call("load", None, c)
    OBVIOUS
  <2>2. i \in DOMAIN q /\ calls' = Append(RemoveAt(q, i), load) /\ loading'
    BY <1>1, <1>4, <2>1 DEF CompanyPatched, CompaniesAnswered, Answered, Rest
  <2>3. RemoveAt(q, i) \in Seq(Range(q))
    BY <1>2, <2>2, RestOf
  <2> QED BY <2>2, <2>3, AppendedIsOne DEF ConvInv
<1> QED BY <1>3, <1>4

LEMMA InitConv == Init => ConvInv
<1> SUFFICES ASSUME Init PROVE ConvInv
  OBVIOUS
<1> QED BY OpenedLoads DEF Init, ConvInv

LEMMA ReloadConv == ASSUME ConvInv, Reload PROVE ConvInv'
<1>1. calls' = Opened(NoCompany) /\ loading' = TRUE
  BY DEF Reload
<1> QED BY <1>1, OpenedLoads DEF ConvInv

LEMMA StepConv == IInv /\ ConvInv /\ [Next]_vars => ConvInv'
<1> SUFFICES ASSUME IInv, ConvInv, [Next]_vars PROVE ConvInv'
  OBVIOUS
<1>1. CASE UNCHANGED <<data, calls, loading, scope>>
  BY <1>1 DEF ConvInv, Rendered, Renders, Amount, Shown, RateKnown
<1>2. CASE Answers
  BY <1>2, ConvertedConv, NotConvertedConv, BuyerAnsweredConv, LoadedConv, OthersConv, CompanyAnsweredConv DEF Answers
<1>3. Save => UNCHANGED <<data, calls, loading, scope>>
  BY DEF Save
<1>4. UNCHANGED vars => UNCHANGED <<data, calls, loading, scope>>
  BY DEF vars
<1> QED BY <1>1, <1>2, <1>3, <1>4, LineSectionConv, HeaderConv, TransportConv, SellerConv, NamesConv, RateConv,
   ReloadConv DEF Next

-----------------------------------------------------------------------------
(* The words of a transport invoice *)

WordsFollow(d) ==
  d.type = "transport_invoice" /\ d.total > 0 /\ d.words.lang # Typed
    => d.words = NumberToWords(d.total, d.language, d.currency)

Settled(d) == InStep(d) /\ WordsFollow(d)

\* What is shown, what the timer is going to save, and what is saved.
WordsInv ==
  "type" \notin scope.uses =>
    /\ Settled(data)
    /\ timer # NoDraft => Settled(timer[1])
    /\ IsInvoiceData(saved.data) => Settled(saved.data)

\* An invoice that differs in nothing the words are made of.
Reworded == {"type", "language", "currency", "items", "subtotal", "taxRate", "taxAmount", "total", "words"}
Alike(e, d) == Form(e) /\ \A f \in Reworded : e[f] = d[f]

LEMMA AlikeSettled == ASSUME NEW d, NEW e, Settled(d), Alike(e, d) PROVE Settled(e)
<1>1. /\ e.type = d.type /\ e.language = d.language /\ e.currency = d.currency /\ e.items = d.items
      /\ e.subtotal = d.subtotal /\ e.taxRate = d.taxRate /\ e.taxAmount = d.taxAmount
      /\ e.total = d.total /\ e.words = d.words
  BY DEF Alike, Reworded
<1> QED BY <1>1 DEF Settled, InStep, WordsFollow

\* The rounding is that of the behaviour.
LEMMA SettledNext == ASSUME scope' = scope, NEW d, Settled(d) PROVE Settled(d)'
  BY DEF Settled, InStep, WordsFollow, TaxAmount, Total

LEMMA CalculatedAgain == ASSUME NEW d, Form(d), InStep(d) PROVE CalculateTotals(d) = d
<1>1. \A f \in {"subtotal", "taxAmount", "total"} : [d EXCEPT ![f] = d[f]] = d
  <2>1. d = [g \in Fields |-> d[g]]
    BY DEF Form
  <2>2. ASSUME NEW f \in Fields PROVE [d EXCEPT ![f] = d[f]] = d
    <3> DEFINE e == [d EXCEPT ![f] = d[f]]
    <3>1. e = [g \in Fields |-> e[g]] /\ \A g \in Fields : e[g] = d[g]
      BY <2>1
    <3> HIDE DEF e
    <3>2. e = d
      BY <2>1, <3>1
    <3> QED BY <3>2 DEF e
  <2>3. {"subtotal", "taxAmount", "total"} \subseteq Fields
    BY DEF Fields, EmptyInvoice
  <2> QED BY <2>2, <2>3, Zenon
<1>2. /\ [d EXCEPT !.subtotal = d.subtotal] = d /\ [d EXCEPT !.taxAmount = d.taxAmount] = d
      /\ [d EXCEPT !.total = d.total] = d
  BY <1>1
<1>3. CalculateTotals(d) = [d EXCEPT !.subtotal = d.subtotal, !.taxAmount = d.taxAmount, !.total = d.total]
  BY DEF CalculateTotals, InStep
<1> QED BY <1>2, <1>3

LEMMA WordedSettled == ASSUME NEW d, Form(d), InStep(d) PROVE Form(Worded(d)) /\ Settled(Worded(d))
<1>1. Still(Worded(d), d)
  BY WordedStill
<1>2. Form(Worded(d)) /\ InStep(Worded(d))
  BY <1>1 DEF Still, Like, InStep
<1>3. WordsFollow(Worded(d))
  <2>1. CASE d.type = "transport_invoice" /\ d.total > 0
    <3> DEFINE w == NumberToWords(d.total, d.language, d.currency)
               e == [d EXCEPT !.words = w]
    <3>1. Worded(d) = e
      BY <2>1 DEF Worded
    <3> HIDE DEF w
    <3>2. e.total = d.total /\ e.language = d.language /\ e.currency = d.currency /\ e.words = w
      BY DEF Form, Fields, EmptyInvoice
    <3> QED BY <3>1, <3>2 DEF w, WordsFollow
  <2>2. CASE ~(d.type = "transport_invoice" /\ d.total > 0)
    BY <2>2 DEF Worded, WordsFollow
  <2> QED BY <2>1, <2>2
<1> QED BY <1>2, <1>3 DEF Settled

\* The row, when its data stay.
LEMMA SavedStays ==
  ASSUME WordsInv, "type" \notin scope.uses, saved'.data = saved.data, scope' = scope
  PROVE  (IsInvoiceData(saved.data) => Settled(saved.data))'
<1> SUFFICES ASSUME IsInvoiceData(saved.data)' PROVE Settled(saved.data)'
  OBVIOUS
<1>1. PICK r : r = saved.data
  OBVIOUS
<1>2. Settled(r)
  BY <1>1 DEF WordsInv, IsInvoiceData
<1>3. Settled(r)'
  BY <1>2, SettledNext
<1> QED BY <1>1, <1>3 DEF Settled, InStep, WordsFollow

\* What the form renders.
LEMMA ChangeSettles ==
  ASSUME IInv, WordsInv, NEW d, Form(d), "type" \notin scope.uses => Settled(d), NEW queue, Change(d, queue),
         saved'.data = saved.data, scope' = scope
  PROVE  WordsInv'
<1> SUFFICES ASSUME "type" \notin scope.uses PROVE WordsInv'
  BY DEF WordsInv
<1>1. data' = d \/ data' = [d EXCEPT !.baseAmount = Amount(d)]
  BY DEF Change, DoConvert
<1>2. Alike(d, d)
  BY DEF Alike
<1>3. Alike([d EXCEPT !.baseAmount = Amount(d)], d)
  <2>1. Reworded \subseteq Fields /\ "baseAmount" \notin Reworded
    BY DEF Reworded, Fields, EmptyInvoice
  <2> QED BY <2>1, ConvertedSet DEF Alike
<1>4. PICK e : e = data'
  OBVIOUS
<1>5. Settled(e)
  BY <1>1, <1>2, <1>3, <1>4, AlikeSettled
<1>6. Settled(e)'
  BY <1>5, SettledNext
<1>7. Settled(data)'
  BY <1>4, <1>6 DEF Settled, InStep, WordsFollow
<1>8. (timer # NoDraft => Settled(timer[1]))'
  <2>1. timer' = <<e>>
    BY <1>4 DEF Change, Draft
  <2>2. timer'[1] = e
    BY <2>1
  <2> QED BY <1>6, <2>2 DEF Settled, InStep, WordsFollow
<1>9. (IsInvoiceData(saved.data) => Settled(saved.data))'
  BY SavedStays
<1> QED BY <1>7, <1>8, <1>9 DEF WordsInv

\* An edit that leaves the totals alone.
LEMMA FieldSettles ==
  ASSUME IInv, WordsInv, NEW use, NEW d, Form(d), "type" \notin scope.uses => Settled(d), Field(use, d)
  PROVE  WordsInv'
<1>1. CASE "type" \in scope.uses
  BY <1>1 DEF Field, Edit, WordsInv
<1>2. CASE "type" \notin scope.uses
  <2>1. CalculateTotals(d) = d
    BY <1>2, CalculatedAgain DEF Settled
  <2>2. Change(d, calls) /\ saved' = saved /\ scope' = scope
    BY <2>1 DEF Field, Edit
  <2> QED BY <2>2, ChangeSettles
<1> QED BY <1>1, <1>2

LEMMA AlikeField ==
  ASSUME IInv, WordsInv, NEW use, NEW d, Alike(d, data), Field(use, d)
  PROVE  WordsInv'
<1>1. Form(d)
  BY DEF Alike
<1>2. "type" \notin scope.uses => Settled(d)
  BY AlikeSettled DEF WordsInv
<1> QED BY <1>1, <1>2, FieldSettles

\* Setting a field the words are not made of.
LEMMA SetAlike ==
  ASSUME IInv, NEW f \in Fields \ Reworded, NEW v
  PROVE  Alike([data EXCEPT ![f] = v], data)
<1>1. Form(data) /\ f \in Fields \ {"taxRate", "items"} /\ Reworded \subseteq Fields /\ f \notin Reworded
  BY DEF IInv, Reworded, Fields, EmptyInvoice
<1> QED BY <1>1, FieldSet DEF Alike

LEMMA LinesSettle == ASSUME IInv, WordsInv, LineItemsSection PROVE WordsInv'
<1>1. PICK use : \E next \in Seq(Line) : ItemsChange(use, next)
  BY LinesGiven
<1>2. PICK next \in Seq(Line) : ItemsChange(use, next)
  BY <1>1
<1>3. Form([data EXCEPT !.items = next])
  BY DEF IInv, Form, Fields, EmptyInvoice
<1>4. PICK d : d = CalculateTotals([data EXCEPT !.items = next])
  OBVIOUS
<1>5. Form(d) /\ InStep(d)
  BY <1>3, <1>4, CalculatedTotals DEF Like
<1>6. Form(Worded(d)) /\ Settled(Worded(d))
  BY <1>5, WordedSettled
<1>7. Change(Worded(d), calls) /\ saved' = saved /\ scope' = scope
  BY <1>2, <1>4 DEF ItemsChange, Edit
<1> QED BY <1>6, <1>7, ChangeSettles

LEMMA RateSettles == ASSUME IInv, WordsInv, NEW rate \in scope.rates, TaxRateChange(rate) PROVE WordsInv'
<1>1. rate \in 0..100
  BY DEF IInv, Scope
<1>2. Form([data EXCEPT !.taxRate = rate])
  BY <1>1 DEF IInv, Form, Fields, EmptyInvoice
<1>3. PICK d : d = CalculateTotals([data EXCEPT !.taxRate = rate])
  OBVIOUS
<1>4. Form(d) /\ InStep(d)
  BY <1>2, <1>3, CalculatedTotals DEF Like
<1>5. Form(Worded(d)) /\ Settled(Worded(d))
  BY <1>4, WordedSettled
<1>6. Change(Worded(d), calls) /\ saved' = saved /\ scope' = scope
  BY <1>3 DEF TaxRateChange, Edit
<1> QED BY <1>5, <1>6, ChangeSettles

LEMMA HeaderSettles == ASSUME IInv, WordsInv, InvoiceHeaderSection PROVE WordsInv'
<1>1. {"base", "date"} \subseteq Fields \ Reworded
  BY DEF Fields, EmptyInvoice, Reworded
<1>2. ASSUME NEW t, SetType(t) PROVE WordsInv'
  BY <1>2 DEF SetType, Field, Edit, WordsInv
<1>3. ASSUME NEW l, SetLanguage(l) PROVE WordsInv'
  <2>1. PICK d : d = InLanguageOf(l)
    OBVIOUS
  <2>2. Form(d) /\ \A f \in Fields \ Texted : d[f] = data[f]
    BY <2>1, InLanguageIs DEF IInv
  <2>3. {"items", "taxRate", "subtotal", "taxAmount", "total"} \subseteq Fields \ Texted
    BY DEF Texted, Fields, EmptyInvoice
  <2>4. InStep(data) => InStep(d)
    BY <2>2, <2>3 DEF InStep
  <2>5. Form(Worded(d))
    BY <2>2, WordedStill DEF Still, Like
  <2>6. "type" \notin scope.uses => Settled(Worded(d))
    BY <2>2, <2>4, WordedSettled DEF WordsInv, Settled
  <2>7. Field("language", Worded(d))
    BY <1>3, <2>1 DEF SetLanguage, InLanguageOf
  <2> QED BY <2>5, <2>6, <2>7, FieldSettles
<1>4. ASSUME NEW c, SetCurrency(c) PROVE WordsInv'
  <2> DEFINE d == [data EXCEPT !.currency = c]
  <2>1. Form(d)
    BY DEF IInv, Form, Fields, EmptyInvoice
  <2>2. InStep(data) => InStep(d)
    BY DEF IInv, Form, InStep, Fields, EmptyInvoice
  <2>3. Field("currency", Worded(d))
    BY <1>4 DEF SetCurrency
  <2> HIDE DEF d
  <2>4. Form(Worded(d))
    BY <2>1, WordedStill DEF Still, Like
  <2>5. "type" \notin scope.uses => Settled(Worded(d))
    BY <2>1, <2>2, WordedSettled DEF WordsInv, Settled
  <2> QED BY <2>3, <2>4, <2>5, FieldSettles
<1>5. ASSUME NEW c, SetBase(c) PROVE WordsInv'
  <2>1. Alike([data EXCEPT !.base = c], data)
    BY <1>1, SetAlike
  <2> QED BY <1>5, <2>1, AlikeField DEF SetBase
<1>6. ASSUME NEW t, SetDate(t) PROVE WordsInv'
  <2>1. Alike([data EXCEPT !.date = t], data)
    BY <1>1, SetAlike
  <2> QED BY <1>6, <2>1, AlikeField DEF SetDate
<1> QED BY <1>2, <1>3, <1>4, <1>5, <1>6 DEF InvoiceHeaderSection

\* Words that are typed, or filled in on demand.
LEMMA WordsSet ==
  ASSUME IInv, WordsInv, NEW w, w.lang = Typed \/ w = NumberToWords(data.total, data.language, data.currency),
         Field("words", [data EXCEPT !.words = w])
  PROVE  WordsInv'
<1> DEFINE d == [data EXCEPT !.words = w]
<1>1. Form(d)
  BY DEF IInv, Form, Fields, EmptyInvoice
<1>2. /\ d.words = w /\ d.type = data.type /\ d.total = data.total /\ d.language = data.language
      /\ d.currency = data.currency /\ d.items = data.items /\ d.taxRate = data.taxRate
      /\ d.subtotal = data.subtotal /\ d.taxAmount = data.taxAmount
  BY DEF IInv, Form, Fields, EmptyInvoice
<1> HIDE DEF d
<1>3. Settled(data) => Settled(d)
  BY <1>2 DEF Settled, InStep, WordsFollow
<1>4. "type" \notin scope.uses => Settled(d)
  BY <1>3 DEF WordsInv
<1>5. Field("words", d)
  BY DEF d
<1> QED BY <1>1, <1>4, <1>5, FieldSettles

LEMMA VehiclesSet ==
  ASSUME IInv, WordsInv, NEW v, NEW w, Field("vehicles", [data EXCEPT !.truck = v, !.trailer = w])
  PROVE  WordsInv'
<1> DEFINE d == [data EXCEPT !.truck = v, !.trailer = w]
<1>1. Form(d) /\ \A f \in Reworded : d[f] = data[f]
  BY DEF IInv, Form, Fields, EmptyInvoice, Reworded
<1>2. Alike(d, data)
  BY <1>1 DEF Alike
<1> HIDE DEF d
<1>3. Field("vehicles", d)
  BY DEF d
<1> QED BY <1>2, <1>3, AlikeField

LEMMA TransportSettles == ASSUME IInv, WordsInv, TransportInfoSection PROVE WordsInv'
<1>1. \A v : Alike([data EXCEPT !.truck = v], data)
  BY SetAlike DEF Fields, EmptyInvoice, Reworded
<1>2. \A v : Alike([data EXCEPT !.trailer = v], data)
  BY SetAlike DEF Fields, EmptyInvoice, Reworded
<1>3. TypeWords => WordsInv'
  BY WordsSet DEF TypeWords, HandWords, NoWords
<1>4. AutoFillWords => WordsInv'
  BY WordsSet DEF AutoFillWords
<1>5. TruckCleared => WordsInv'
  BY <1>1, AlikeField DEF TruckCleared
<1>6. ASSUME NEW t, VehicleSelect(t) PROVE WordsInv'
  <2>1. PICK v, w : v = t.id /\ w = IF data.trailer = None THEN t.trailer ELSE data.trailer
    OBVIOUS
  <2>2. Field("vehicles", [data EXCEPT !.truck = v, !.trailer = w])
    BY <1>6, <2>1 DEF VehicleSelect
  <2> QED BY <2>2, VehiclesSet, Zenon
<1>7. ASSUME NEW t, VehicleCreated(t) PROVE WordsInv'
  <2>1. PICK v, w : v = t.id /\ w = IF t.trailer = None THEN data.trailer ELSE t.trailer
    OBVIOUS
  <2>2. Field("vehicles", [data EXCEPT !.truck = v, !.trailer = w])
    BY <1>7, <2>1 DEF VehicleCreated
  <2> QED BY <2>2, VehiclesSet, Zenon
<1>8. ASSUME NEW t PROVE TrailerSelect(t) => WordsInv'
  BY <1>2, AlikeField DEF TrailerSelect
<1> QED BY <1>3, <1>4, <1>5, <1>6, <1>7, <1>8 DEF TransportInfoSection

LEMMA NamesSettle == ASSUME IInv, WordsInv, TypeNames PROVE WordsInv'
<1>1. \A f \in {"buyer", "signer", "director"} : Alike([data EXCEPT ![f] = ByHand], data)
  BY SetAlike DEF Fields, EmptyInvoice, Reworded
<1> QED BY <1>1, AlikeField DEF TypeNames

LEMMA MarkSettles == ASSUME IInv, WordsInv, NEW m, SelectMark(m) PROVE WordsInv'
<1>1. Alike([data EXCEPT !.mark = m], data)
  BY SetAlike DEF Fields, EmptyInvoice, Reworded
<1> QED BY <1>1, AlikeField DEF SelectMark

LEMMA AlikeChange ==
  ASSUME IInv, WordsInv, NEW d, Alike(d, data), NEW queue, Change(d, queue), saved'.data = saved.data, scope' = scope
  PROVE  WordsInv'
<1>1. Form(d)
  BY DEF Alike
<1>2. "type" \notin scope.uses => Settled(d)
  BY AlikeSettled DEF WordsInv
<1> QED BY <1>1, <1>2, ChangeSettles

\* Nothing the words are made of changes.
LEMMA StillSettled ==
  ASSUME WordsInv, UNCHANGED <<data, timer, saved, scope>>
  PROVE  WordsInv'
BY DEF WordsInv, Settled, InStep, WordsFollow, TaxAmount, Total, IsInvoiceData

LEMMA CompanySectionSettles == ASSUME IInv, WordsInv, CompanyInfoSection PROVE WordsInv'
<1>1. ASSUME NEW id, BankAccountToggle(id) PROVE WordsInv'
  <2> DEFINE next == IF Contains(selected, id) THEN Picked(selected, Range(selected) \ {id}) ELSE Append(selected, id)
             text == SerializeBankAccounts(Accounts(company, next), data.language)
             d == [data EXCEPT !.bankIds = next, !.bankText = text]
  <2>1. Edit("banks", d)
    BY <1>1 DEF BankAccountToggle
  <2> HIDE DEF next, text
  <2>2. Form(d) /\ \A f \in Reworded : d[f] = data[f]
    BY DEF IInv, Form, Fields, EmptyInvoice, Reworded
  <2>3. Change(d, calls) /\ saved' = saved /\ scope' = scope
    BY <2>1 DEF Edit
  <2> HIDE DEF d
  <2>4. Alike(d, data)
    BY <2>2 DEF Alike
  <2> QED BY <2>3, <2>4, AlikeChange
<1>2. TypeBankText => WordsInv'
  <2>1. Alike([data EXCEPT !.bankText = ByHand], data)
    BY SetAlike DEF Fields, EmptyInvoice, Reworded
  <2> QED BY <2>1, AlikeField DEF TypeBankText
<1>3. ResyncCompany => WordsInv'
  BY StillSettled DEF ResyncCompany, Asks
<1> QED BY <1>1, <1>2, <1>3 DEF CompanyInfoSection

LEMMA RefilledAlike == ASSUME NEW d, Form(d), NEW c, NEW l PROVE Alike(Refilled(d, c, l), d)
  BY DEF Form, Alike, Reworded, Refilled, PopulateBuyer, Fields, EmptyInvoice

LEMMA BuyerSectionSettles == ASSUME IInv, WordsInv, BuyerInfoSection PROVE WordsInv'
<1>1. AutoFillBuyer => WordsInv'
  <2>1. Alike(Refilled(data, buyer, data.language), data)
    BY RefilledAlike DEF IInv
  <2> QED BY <2>1, AlikeChange DEF AutoFillBuyer, Edit
<1>2. ResyncBuyer => WordsInv'
  BY StillSettled DEF ResyncBuyer, Asks
<1>3. ASSUME NEW c PROVE ContractorCreated(c) => WordsInv'
  BY StillSettled DEF ContractorCreated, Asks
<1> QED BY <1>1, <1>2, <1>3 DEF BuyerInfoSection

LEMMA ConvertedSettles == ASSUME IInv, WordsInv, NEW i, Converted(i) PROVE WordsInv'
<1> DEFINE d == [data EXCEPT !.baseAmount = calls[i].body]
<1>1. Alike(d, data)
  BY SetAlike DEF Fields, EmptyInvoice, Reworded
<1> HIDE DEF d
<1>2. Change(CalculateTotals(d), Rest(i)) /\ saved' = saved /\ scope' = scope
  BY DEF Converted, d
<1>3. CASE "type" \in scope.uses
  BY <1>2, <1>3 DEF WordsInv
<1>4. CASE "type" \notin scope.uses
  <2>1. Form(d) /\ InStep(d)
    BY <1>1, <1>4, AlikeSettled DEF WordsInv, Alike, Settled
  <2>2. CalculateTotals(d) = d
    BY <2>1, CalculatedAgain
  <2> QED BY <1>1, <1>2, <2>2, AlikeChange
<1> QED BY <1>3, <1>4

\* The texts and accounts of a seller, as an answer or a load sets them.
Dressed(d, s, ids, t, a, b) == [d EXCEPT !.seller = s, !.bankIds = ids, !.bankText = t, !.director = a, !.signer = b]

LEMMA DressedAlike ==
  ASSUME NEW d, Form(d), NEW s, NEW ids, NEW t, NEW a, NEW b
  PROVE  Alike(Dressed(d, s, ids, t, a, b), d)
<1> DEFINE e == [d EXCEPT !.seller = s, !.bankIds = ids, !.bankText = t, !.director = a, !.signer = b]
<1>1. Form(e)
  BY DEF Form, Fields, EmptyInvoice
<1>2. /\ e.type = d.type /\ e.language = d.language /\ e.currency = d.currency /\ e.items = d.items
      /\ e.subtotal = d.subtotal /\ e.taxRate = d.taxRate /\ e.taxAmount = d.taxAmount
      /\ e.total = d.total /\ e.words = d.words
  BY DEF Form, Fields, EmptyInvoice
<1> HIDE DEF e
<1>3. Alike(e, d)
  BY <1>1, <1>2 DEF Alike, Reworded
<1> QED BY <1>3 DEF Dressed, e

LEMMA CompanyAnsweredSettles == ASSUME IInv, WordsInv, NEW i, NEW fresh, CompanyAnswered(i, fresh) PROVE WordsInv'
<1>1. PICK s, ids, t, a, b, queue :
        /\ s = Text(fresh, calls[i].lang) /\ ids = DefaultAccounts(fresh)
        /\ t = SerializeBankAccounts(DefaultAccounts(fresh), data.language)
        /\ a = Or(Director(fresh, calls[i].lang), data.director)
        /\ b = Or(data.signer, Director(fresh, calls[i].lang))
        /\ queue = Append(Rest(i), Call("patch", None, None))
  OBVIOUS
<1>2. Change(Dressed(data, s, ids, t, a, b), queue)
  BY <1>1 DEF CompanyAnswered, Dressed
<1>3. saved' = saved /\ scope' = scope
  BY DEF CompanyAnswered
<1>4. Alike(Dressed(data, s, ids, t, a, b), data)
  BY DressedAlike DEF IInv
<1> QED BY <1>2, <1>3, <1>4, AlikeChange

LEMMA BuyerAnswersSettle ==
  ASSUME IInv, WordsInv, NEW i, Linked(i) \/ \E fresh : BuyerAnswered(i, fresh)
  PROVE  WordsInv'
<1>1. PICK c, l : Change(Refilled(data, c, l), Rest(i))
  BY DEF Linked, BuyerAnswered
<1>2. Alike(Refilled(data, c, l), data)
  BY RefilledAlike DEF IInv
<1>3. saved'.data = saved.data /\ scope' = scope
  <2>1. \A b : [saved EXCEPT !.buyer = b].data = saved.data
    BY DEF IInv, Row
  <2> QED BY <2>1 DEF Linked, BuyerAnswered
<1> QED BY <1>1, <1>2, <1>3, AlikeChange

LEMMA SubtotalOfOne == Subtotal(<<LineItem>>) = 0
<1>1. PICK item : item = LineItem
  OBVIOUS
<1>2. item \in Line /\ item.total = 0
  BY <1>1, LineItemIsLine DEF LineItem
<1>3. <<item>> \in Seq(Line) /\ Len(<<item>>) = 1 /\ <<item>>[1] = item
  BY <1>2
<1>4. PICK p : Summing(<<item>>, p) /\ Subtotal(<<item>>) = p[Len(<<item>>)]
  BY <1>3, SubtotalIs
<1>5. p[1] = p[0] + item.total /\ p[0] = 0
  BY <1>3, <1>4 DEF Summing
<1>6. Subtotal(<<item>>) = 0
  BY <1>2, <1>3, <1>4, <1>5
<1> QED BY <1>1, <1>6

\* A document that is loaded has the words it was saved with, or no total yet.
LEMMA EmptySettled ==
  Settled(EmptyInvoice) /\ Settled([EmptyInvoice EXCEPT !.type = "transport_invoice", !.currency = "GEL"])
<1>1. Subtotal(<<LineItem>>) = 0
  BY SubtotalOfOne
<1>2. TaxAmount(0, 0) = 0 /\ Total(0, 0) = 0
  BY DEF TaxAmount, Total, Rounded
<1>3. /\ EmptyInvoice.items = <<LineItem>> /\ EmptyInvoice.subtotal = 0 /\ EmptyInvoice.taxRate = 0
      /\ EmptyInvoice.taxAmount = 0 /\ EmptyInvoice.total = 0
  BY DEF EmptyInvoice
<1> DEFINE e == [EmptyInvoice EXCEPT !.type = "transport_invoice", !.currency = "GEL"]
<1>4. /\ e.items = <<LineItem>> /\ e.subtotal = 0 /\ e.taxRate = 0
      /\ e.taxAmount = 0 /\ e.total = 0
  BY DEF EmptyInvoice
<1> HIDE DEF e
<1>5. Settled(EmptyInvoice)
  BY <1>1, <1>2, <1>3 DEF Settled, InStep, WordsFollow
<1>6. Settled(e)
  BY <1>1, <1>2, <1>4 DEF Settled, InStep, WordsFollow
<1> QED BY <1>5, <1>6 DEF e

LEMMA HydratedSettled ==
  ASSUME NEW d, IsInvoiceData(d) => Settled(d)
  PROVE  Settled(Hydrated(d))
BY EmptySettled DEF Hydrated

LEMMA PopulatedAlike == ASSUME NEW d, Form(d), NEW c PROVE Alike(Populated(d, c), d)
<1>1. PICK f : f = IF saved.buyer = NoBuyer THEN d ELSE PopulateBuyer(d, saved.buyer, d.language)
  OBVIOUS
<1>2. Alike(f, d)
  <2>1. Alike(d, d)
    BY DEF Alike
  <2>2. Alike(PopulateBuyer(d, saved.buyer, d.language), d)
    BY DEF Form, Alike, Reworded, PopulateBuyer, Fields, EmptyInvoice
  <2> QED BY <1>1, <2>1, <2>2
<1>3. CASE c = NoCompany
  BY <1>1, <1>2, <1>3 DEF Populated
<1>4. CASE c # NoCompany
  <2>1. PICK s, ids, t, a, b :
          /\ s = Text(c, d.language) /\ ids = RestoredAccounts(d, c)
          /\ t = IF RestoredAccounts(d, c) = <<>> THEN f.bankText
                 ELSE SerializeBankAccounts(RestoredAccounts(d, c), d.language)
          /\ a = Or(f.director, Director(c, d.language)) /\ b = Or(f.signer, Director(c, d.language))
    OBVIOUS
  <2>2. Populated(d, c) = Dressed(f, s, ids, t, a, b)
    BY <1>1, <1>4, <2>1 DEF Populated, Dressed
  <2>3. Alike(Dressed(f, s, ids, t, a, b), f)
    BY <1>2, DressedAlike DEF Alike
  <2>4. Alike(Dressed(f, s, ids, t, a, b), d)
    BY <1>2, <2>3 DEF Alike
  <2> QED BY <2>2, <2>4
<1> QED BY <1>3, <1>4

LEMMA LoadedSettles == ASSUME IInv, WordsInv, NEW i, Loaded(i) PROVE WordsInv'
<1>0. scope' = scope
  BY DEF Loaded
<1> SUFFICES ASSUME "type" \notin scope.uses PROVE WordsInv'
  BY <1>0 DEF WordsInv
<1>1. PICK h : h = Hydrated(saved.data)
  OBVIOUS
<1>2. Form(h)
  BY <1>1, HydratedForm DEF IInv, Row
<1>3. Settled(h)
  BY <1>1, HydratedSettled DEF WordsInv
<1>4. PICK p : p = Populated(h, calls[i].body)
  OBVIOUS
<1>5. Alike(p, h)
  BY <1>2, <1>4, PopulatedAlike
<1>6. Form(p) /\ Settled(p)
  BY <1>3, <1>5, AlikeSettled DEF Alike
<1>7. CalculateTotals(p) = p
  BY <1>6, CalculatedAgain DEF Settled
<1>8. /\ DoConvert(p, Seen, Rest(i))
      /\ timer' = timer \/ timer' = Draft(data')
      /\ saved' = saved /\ scope' = scope
  BY <1>1, <1>4, <1>7 DEF Loaded
<1>9. PICK e : e = data'
  OBVIOUS
<1>10. Settled(e)
  <2>1. e = p \/ e = [p EXCEPT !.baseAmount = Amount(p)]
    BY <1>8, <1>9 DEF DoConvert
  <2>2. Alike([p EXCEPT !.baseAmount = Amount(p)], p)
    <3>1. Reworded \subseteq Fields /\ "baseAmount" \notin Reworded
      BY DEF Reworded, Fields, EmptyInvoice
    <3> QED BY <1>6, <3>1, ConvertedSet DEF Alike
  <2> QED BY <1>6, <2>1, <2>2, AlikeSettled
<1>11. Settled(e)'
  BY <1>8, <1>10, SettledNext
<1>12. Settled(data)'
  BY <1>9, <1>11 DEF Settled, InStep, WordsFollow
<1>13. (timer # NoDraft => Settled(timer[1]))'
  <2>1. CASE timer' = timer
    <3> SUFFICES ASSUME timer # NoDraft PROVE Settled(timer[1])'
      BY <2>1
    <3>1. PICK f : f = timer[1]
      OBVIOUS
    <3>2. Settled(f)
      BY <3>1 DEF WordsInv
    <3>3. Settled(f)'
      BY <1>8, <3>2, SettledNext
    <3> QED BY <2>1, <3>1, <3>3 DEF Settled, InStep, WordsFollow
  <2>2. CASE timer' # timer
    <3>1. timer' = <<e>>
      BY <1>8, <1>9, <2>2 DEF Draft
    <3>2. timer'[1] = e
      BY <3>1
    <3> QED BY <1>11, <3>2 DEF Settled, InStep, WordsFollow
  <2> QED BY <2>1, <2>2
<1>14. (IsInvoiceData(saved.data) => Settled(saved.data))'
  BY <1>8, SavedStays
<1> QED BY <1>12, <1>13, <1>14 DEF WordsInv

LEMMA AnswersSettle == ASSUME IInv, WordsInv, Answers PROVE WordsInv'
<1>1. ASSUME NEW i, Failed(i) \/ NotConverted(i) \/ \E c : CompanyPatched(i, c) \/ CompaniesAnswered(i, c) PROVE WordsInv'
  BY <1>1, StillSettled DEF Failed, NotConverted, CompanyPatched, CompaniesAnswered
<1> QED BY <1>1, ConvertedSettles, BuyerAnswersSettle, LoadedSettles, CompanyAnsweredSettles DEF Answers

LEMMA SaveSettles == ASSUME IInv, WordsInv, Save PROVE WordsInv'
<1>0. scope' = scope
  BY DEF Save
<1> SUFFICES ASSUME "type" \notin scope.uses PROVE WordsInv'
  BY <1>0 DEF WordsInv
<1>1. PICK d : Settled(d) /\ saved' = [saved EXCEPT !.data = d]
  BY DEF Save, WordsInv
<1>2. timer' = NoDraft /\ data' = data /\ scope' = scope
  BY DEF Save
<1>3. saved'.data = d
  BY <1>1 DEF IInv, Row
<1>4. Settled(d)'
  BY <1>1, <1>2, SettledNext
<1>5. PICK e : e = data
  OBVIOUS
<1>6. Settled(e)'
  BY <1>2, <1>5, SettledNext DEF WordsInv
<1>7. Settled(data)' /\ Settled(saved.data)'
  BY <1>2, <1>3, <1>4, <1>5, <1>6 DEF Settled, InStep, WordsFollow
<1> QED BY <1>2, <1>7 DEF WordsInv

LEMMA ReloadSettles == ASSUME IInv, WordsInv, Reload PROVE WordsInv'
<1>1. data' = EmptyInvoice /\ timer' = NoDraft /\ saved' = saved /\ scope' = scope
  BY DEF Reload
<1> SUFFICES ASSUME "type" \notin scope.uses PROVE WordsInv'
  BY <1>1 DEF WordsInv
<1>2. PICK e : e = EmptyInvoice
  OBVIOUS
<1>3. Settled(e)'
  BY <1>1, <1>2, EmptySettled, SettledNext
<1>4. Settled(data)'
  BY <1>1, <1>2, <1>3 DEF Settled, InStep, WordsFollow
<1>5. (IsInvoiceData(saved.data) => Settled(saved.data))'
  BY <1>1, SavedStays
<1> QED BY <1>1, <1>4, <1>5 DEF WordsInv

LEMMA InitWords == Init => WordsInv
<1> SUFFICES ASSUME Init PROVE WordsInv
  OBVIOUS
<1>1. data = EmptyInvoice /\ timer = NoDraft
  BY DEF Init
<1>2. Settled(data)
  BY <1>1, EmptySettled
<1>3. PICK t, b : saved = [data |-> [type |-> t], buyer |-> b]
  BY DEF Init, Stub
<1>4. ~IsInvoiceData(saved.data)
  BY <1>3 DEF IsInvoiceData
<1> QED BY <1>1, <1>2, <1>4 DEF WordsInv

LEMMA StepWords == IInv /\ WordsInv /\ [Next]_vars => WordsInv'
<1> SUFFICES ASSUME IInv, WordsInv, [Next]_vars PROVE WordsInv'
  OBVIOUS
<1>1. CASE UNCHANGED vars
  BY <1>1, StillSettled DEF vars
<1>2. CASE Next
  BY <1>2, LinesSettle, HeaderSettles, TransportSettles, CompanySectionSettles, BuyerSectionSettles, NamesSettle,
     RateSettles, MarkSettles, AnswersSettle, SaveSettles, ReloadSettles DEF Next
<1> QED BY <1>1, <1>2

-----------------------------------------------------------------------------
(* The language of the texts *)

\* While there may be no company, directors stay in the language they were saved in.
InLanguage(d) ==
  /\ d.buyer.lang \in {"own", d.language}
  /\ "reload" \notin scope.uses => {d.director.lang, d.signer.lang} \subseteq {"own", d.language}

\* What every copy of the invoice is: in its language, with a list of accounts, and without a
\* text of a buyer if the document has never had one.
Told(d, b) ==
  /\ InLanguage(d)
  /\ d.bankIds \in Seq(Range(d.bankIds))
  /\ b = NoBuyer => d.buyer.lang = "own"

\* The texts that are the company's, when the form shows those of an active one.
Labelled(d) == d.bankIds # <<>> => d.bankText = SerializeBankAccounts(d.bankIds, d.language)
Sold(d) == d.seller.lang \in {"own", d.language} /\ Labelled(d)

\* Calls whose answers set texts or accounts, or ask for them.
Racing(call) == call.op \in {"company", "patch", "load", "link"}
Idle(queue) == \A i \in DOMAIN queue : ~Racing(queue[i])

\* The accounts may be those of a company that the store does not have yet.
Swaps(queue) == \E i \in DOMAIN queue : queue[i].op \in {"patch", "load"}
Fits(ids, c, queue) == (Swaps(queue) \/ ids \in Seq(Ids(c))) /\ (c = NoCompany => ids = <<>>)

\* A call asks in the language l, or for the company c.
InFlight(call, l, c) ==
  /\ call.op \in {"company", "link"} => call.lang = l
  /\ call.op = "link" => call.body \in Contractors
  /\ call.op = "load" => call.body = c
  /\ call.op = "companies" => c = NoCompany
  /\ call.op \in {"company", "patch"} => c # NoCompany

\* A contractor that is being linked is answered before the load that the companies cause.
Behind(first, next) ==
  /\ Racing(first) /\ Racing(next) => first.op = "link" /\ next.op = "load"
  /\ first.op = "companies" => next.op \notin {"load", "companies"}

Queue(queue, l, c) ==
  /\ \A i \in DOMAIN queue : InFlight(queue[i], l, c)
  /\ \A i, j \in DOMAIN queue : i < j => Behind(queue[i], queue[j])

Active(c) == c \in Companies \/ (c = NoCompany /\ "reload" \in scope.uses)

Quiet == {"race", "overtake", "fail"} \cap scope.uses = {}

LangInv ==
  Quiet =>
    /\ Queue(calls, data.language, company)
    /\ Active(company)
    /\ Told(data, saved.buyer)
    /\ ~loading /\ company # NoCompany => Sold(data)
    /\ timer # NoDraft => Told(timer[1], saved.buyer)
    /\ IsInvoiceData(saved.data) => Told(saved.data, saved.buyer)
    /\ saved.buyer = NoBuyer => buyer = NoBuyer
    /\ ~loading /\ buyer = NoBuyer => saved.buyer = NoBuyer
    /\ Fits(selected, company, calls)

\* What the language is about.
Texts(d) == <<d.seller, d.director, d.signer, d.buyer, d.language, d.bankIds, d.bankText>>

LEMMA SameTexts ==
  ASSUME NEW d, NEW e, Texts(e) = Texts(d)
  PROVE  /\ e.language = d.language /\ e.bankIds = d.bankIds
         /\ \A b : Told(d, b) => Told(e, b)
         /\ Sold(d) => Sold(e)
<1>1. /\ e.seller = d.seller /\ e.director = d.director /\ e.signer = d.signer /\ e.buyer = d.buyer
      /\ e.language = d.language /\ e.bankIds = d.bankIds /\ e.bankText = d.bankText
  BY DEF Texts
<1> QED BY <1>1 DEF Told, Sold, Labelled, InLanguage

\* The behaviour goes on in its scope.
LEMMA TellsNext == ASSUME scope' = scope, NEW d, NEW b, Told(d, b) PROVE Told(d, b)'
BY DEF Told, InLanguage

LEMMA CalculatedTexts ==
  ASSUME NEW d, Form(d)
  PROVE  Form(CalculateTotals(d)) /\ Texts(CalculateTotals(d)) = Texts(d)
<1>0. PICK s, t, u : s = Subtotal(d.items) /\ t = TaxAmount(Subtotal(d.items), d.taxRate) /\ u = Total(Subtotal(d.items), d.taxRate)
  OBVIOUS
<1>1. CalculateTotals(d) = [d EXCEPT !.subtotal = s, !.taxAmount = t, !.total = u]
  BY <1>0 DEF CalculateTotals
<1>2. Form(CalculateTotals(d))
  BY CalculatedTotals DEF Like
<1> DEFINE e == [d EXCEPT !.subtotal = s, !.taxAmount = t, !.total = u]
<1>3. /\ e.seller = d.seller /\ e.director = d.director /\ e.signer = d.signer /\ e.buyer = d.buyer
      /\ e.language = d.language /\ e.bankIds = d.bankIds /\ e.bankText = d.bankText
  BY DEF Form, Fields, EmptyInvoice
<1> HIDE DEF e
<1>4. Texts(e) = Texts(d)
  BY <1>3 DEF Texts
<1> QED BY <1>1, <1>2, <1>4 DEF e

LEMMA SetTexts ==
  ASSUME NEW d, Form(d), NEW v,
         NEW f \in Fields \ {"items", "taxRate", "seller", "director", "signer", "buyer", "language", "bankIds", "bankText"}
  PROVE  Form([d EXCEPT ![f] = v]) /\ Texts([d EXCEPT ![f] = v]) = Texts(d)
<1> DEFINE e == [d EXCEPT ![f] = v]
<1>1. Form(e) /\ \A g \in Fields : e[g] = IF g = f THEN v ELSE d[g]
  BY FieldSet
<1>2. {"seller", "director", "signer", "buyer", "language", "bankIds", "bankText"} \subseteq Fields
  BY DEF Fields, EmptyInvoice
<1> HIDE DEF e
<1>3. /\ e.seller = d.seller /\ e.director = d.director /\ e.signer = d.signer /\ e.buyer = d.buyer
      /\ e.language = d.language /\ e.bankIds = d.bankIds /\ e.bankText = d.bankText
  BY <1>1, <1>2
<1>4. Texts(e) = Texts(d)
  BY <1>3 DEF Texts
<1> QED BY <1>1, <1>4 DEF e

LEMMA WordedTexts == ASSUME NEW d, Form(d) PROVE Form(Worded(d)) /\ Texts(Worded(d)) = Texts(d)
<1>1. "words" \in Fields \ {"items", "taxRate", "seller", "director", "signer", "buyer", "language", "bankIds", "bankText"}
  BY DEF Fields, EmptyInvoice
<1>2. PICK w : w = NumberToWords(d.total, d.language, d.currency)
  OBVIOUS
<1>3. Worded(d) = d \/ Worded(d) = [d EXCEPT !.words = w]
  BY <1>2 DEF Worded
<1>4. Form([d EXCEPT !.words = w]) /\ Texts([d EXCEPT !.words = w]) = Texts(d)
  BY <1>1, SetTexts
<1> QED BY <1>3, <1>4

-----------------------------------------------------------------------------
(* Calls in flight *)

LEMMA QueueAppend ==
  ASSUME NEW S, NEW queue \in Seq(S), NEW l, NEW c, Queue(queue, l, c),
         NEW call, InFlight(call, l, c), \A i \in DOMAIN queue : Behind(queue[i], call)
  PROVE  /\ Queue(Append(queue, call), l, c)
         /\ Swaps(queue) \/ call.op \in {"patch", "load"} => Swaps(Append(queue, call))
<1> DEFINE q == Append(queue, call)
           n == Len(queue)
<1>1. DOMAIN queue = 1..n /\ n \in Nat /\ DOMAIN q = 1..(n + 1) /\ q[n + 1] = call /\ \A i \in 1..n : q[i] = queue[i]
  OBVIOUS
<1> HIDE DEF q, n
<1>2. \A i \in DOMAIN q : InFlight(q[i], l, c)
  BY <1>1 DEF Queue
<1>3. ASSUME NEW i \in DOMAIN q, NEW j \in DOMAIN q, i < j PROVE Behind(q[i], q[j])
  <2>1. i \in 1..n /\ (j \in 1..n \/ j = n + 1)
    BY <1>1, <1>3
  <2>2. CASE j \in 1..n
    BY <1>1, <1>3, <2>1, <2>2 DEF Queue
  <2>3. CASE j = n + 1
    BY <1>1, <2>1, <2>3
  <2> QED BY <2>1, <2>2, <2>3
<1>4. Swaps(queue) \/ call.op \in {"patch", "load"} => Swaps(q)
  <2>1. Swaps(queue) => Swaps(q)
    BY <1>1 DEF Swaps
  <2>2. n + 1 \in DOMAIN q
    BY <1>1
  <2> QED BY <1>1, <2>1, <2>2 DEF Swaps
<1> QED BY <1>2, <1>3, <1>4 DEF Queue, q

\* What may be asked while nothing is racing, and what may always be asked.
LEMMA BehindIdle ==
  ASSUME NEW queue, NEW call, Idle(queue) \/ ~Racing(call), call.op \notin {"load", "companies"}
  PROVE  \A i \in DOMAIN queue : Behind(queue[i], call)
BY DEF Idle, Behind

\* The first call is answered.
LEMMA QueueRest ==
  ASSUME NEW S, NEW queue \in Seq(S), 1 \in DOMAIN queue, NEW l, NEW c, Queue(queue, l, c)
  PROVE  /\ RemoveAt(queue, 1) \in Seq(S)
         /\ Queue(RemoveAt(queue, 1), l, c)
         /\ \A i \in DOMAIN RemoveAt(queue, 1) : Behind(queue[1], RemoveAt(queue, 1)[i])
         /\ Swaps(queue) /\ queue[1].op \notin {"patch", "load"} => Swaps(RemoveAt(queue, 1))
<1> DEFINE q == RemoveAt(queue, 1)
           n == Len(queue)
<1>1. q \in Seq(S) /\ Len(q) = n - 1 /\ \A i \in 1..(n - 1) : q[i] = queue[i + 1]
  BY RestOf
<1>2. DOMAIN queue = 1..n /\ n \in Nat /\ DOMAIN q = 1..(n - 1)
  BY <1>1
<1> HIDE DEF q, n
<1>3. \A i \in DOMAIN q : i + 1 \in DOMAIN queue /\ 1 < i + 1 /\ q[i] = queue[i + 1]
  BY <1>1, <1>2
<1>4. ASSUME NEW i \in DOMAIN queue, i # 1 PROVE i - 1 \in DOMAIN q /\ queue[i] = q[i - 1]
  <2>1. i - 1 \in 1..(n - 1) /\ (i - 1) + 1 = i
    BY <1>2, <1>4
  <2> QED BY <1>1, <1>2, <2>1
<1>5. \A i \in DOMAIN q : InFlight(q[i], l, c)
  BY <1>3 DEF Queue
<1>6. ASSUME NEW i \in DOMAIN q, NEW j \in DOMAIN q, i < j PROVE Behind(q[i], q[j])
  <2>1. i + 1 < j + 1
    BY <1>2, <1>6
  <2> QED BY <1>3, <2>1 DEF Queue
<1>7. \A i \in DOMAIN q : Behind(queue[1], q[i])
  BY <1>3 DEF Queue
<1>8. Swaps(queue) /\ queue[1].op \notin {"patch", "load"} => Swaps(q)
  <2> SUFFICES ASSUME NEW i \in DOMAIN queue, queue[i].op \in {"patch", "load"}, queue[1].op \notin {"patch", "load"}
               PROVE  Swaps(q)
    BY DEF Swaps
  <2>1. i # 1
    OBVIOUS
  <2>2. i - 1 \in DOMAIN q /\ queue[i] = q[i - 1]
    BY <1>4, <2>1
  <2> QED BY <2>2 DEF Swaps
<1> QED BY <1>1, <1>5, <1>6, <1>7, <1>8 DEF Queue, q

\* Without racing calls the language may change, and the company, if there is one already.
LEMMA QueueIdle ==
  ASSUME NEW queue, Idle(queue), NEW l, NEW c, Queue(queue, l, c), NEW m, NEW e, e = c \/ c # NoCompany
  PROVE  Queue(queue, m, e)
<1>1. ASSUME NEW i \in DOMAIN queue PROVE InFlight(queue[i], m, e)
  BY <1>1 DEF Queue, Idle, InFlight, Racing
<1> QED BY <1>1 DEF Queue

LEMMA IdleStays == ASSUME NEW queue, Idle(queue) PROVE ~Swaps(queue)
BY DEF Idle, Swaps, Racing

-----------------------------------------------------------------------------
(* Steps and the language *)

\* What the header adds to a change.
LEMMA ConvertTells ==
  ASSUME NEW d, Form(d), NEW S, NEW queue \in Seq(S), NEW before, DoConvert(d, before, queue),
         NEW l, NEW c, Queue(queue, l, c)
  PROVE  /\ Texts(data') = Texts(d)
         /\ Queue(calls', l, c)
         /\ Swaps(queue) => Swaps(calls')
<1>1. PICK amount, call : amount = Amount(d) /\ call = Call("convert", None, Amount(d))
  OBVIOUS
<1>2. /\ data' = d \/ data' = [d EXCEPT !.baseAmount = amount]
      /\ calls' = queue \/ calls' = Append(queue, call)
  BY <1>1 DEF DoConvert
<1>3. Texts([d EXCEPT !.baseAmount = amount]) = Texts(d)
  BY SetTexts DEF Fields, EmptyInvoice
<1>4. call.op = "convert"
  BY <1>1 DEF Call
<1>5. InFlight(call, l, c) /\ ~Racing(call)
  BY <1>4 DEF InFlight, Racing
<1>6. Queue(Append(queue, call), l, c) /\ (Swaps(queue) => Swaps(Append(queue, call)))
  BY <1>4, <1>5, BehindIdle, QueueAppend
<1> QED BY <1>2, <1>3, <1>6

LEMMA ChangeTells ==
  ASSUME NEW d, Form(d), NEW S, NEW queue \in Seq(S), Change(d, queue), NEW l, NEW c, Queue(queue, l, c)
  PROVE  /\ Texts(data') = Texts(d)
         /\ Queue(calls', l, c)
         /\ Swaps(queue) => Swaps(calls')
         /\ timer' = Draft(data')
<1>1. PICK before : before = Deps(data)
  OBVIOUS
<1>2. (data' = d /\ calls' = queue) \/ DoConvert(d, before, queue)
  BY <1>1 DEF Change
<1>3. timer' = Draft(data')
  BY DEF Change
<1> QED BY <1>2, <1>3, ConvertTells

\* What a step has to show.
LEMMA LangNext ==
  ASSUME LangInv, scope' = scope, NEW d,
         Quiet => /\ Texts(data') = Texts(d) /\ Told(d, saved'.buyer)
                  /\ ~loading' /\ company' # NoCompany => Sold(d)
                  /\ Queue(calls', d.language, company')
                  /\ Active(company')
                  /\ timer' = timer \/ timer' = Draft(data')
                  /\ saved'.data = saved.data
                  /\ saved'.buyer = saved.buyer \/ saved'.buyer # NoBuyer
                  /\ saved'.buyer = NoBuyer => buyer' = NoBuyer
                  /\ ~loading' /\ buyer' = NoBuyer => saved'.buyer = NoBuyer
                  /\ Fits(selected', company', calls')
  PROVE  LangInv'
<1>1. Quiet' => Quiet
  BY DEF Quiet
<1> SUFFICES ASSUME Quiet PROVE LangInv'
  BY <1>1 DEF LangInv
<1>2. PICK e, b, row, c : e = data' /\ b = saved'.buyer /\ row = saved.data /\ c = company'
  OBVIOUS
<1>3. Told(e, b) /\ (~loading' /\ c # NoCompany => Sold(e)) /\ e.language = d.language
  BY <1>2, SameTexts
<1>4. ASSUME NEW f, Told(f, saved.buyer) PROVE Told(f, b)'
  <2>1. Told(f, b)
    BY <1>2, <1>4 DEF Told
  <2> QED BY <2>1, TellsNext
<1>5. (timer # NoDraft => Told(timer[1], saved.buyer))'
  <2>1. PICK f : f = timer[1]
    OBVIOUS
  <2>2. CASE timer' = timer
    <3> SUFFICES ASSUME timer # NoDraft PROVE Told(timer[1], saved.buyer)'
      BY <2>2
    <3>1. Told(f, b)'
      BY <1>4, <2>1 DEF LangInv
    <3> QED BY <1>2, <2>1, <2>2, <3>1 DEF Told, InLanguage
  <2>3. CASE timer' = <<e>>
    <3>1. timer'[1] = e
      BY <2>3
    <3>2. Told(e, b)'
      BY <1>3, TellsNext
    <3> QED BY <1>2, <3>1, <3>2 DEF Told, InLanguage
  <2> QED BY <1>2, <2>2, <2>3 DEF Draft
<1>6. (IsInvoiceData(saved.data) => Told(saved.data, saved.buyer))'
  <2> SUFFICES ASSUME IsInvoiceData(row) PROVE Told(row, b)'
    BY <1>2 DEF IsInvoiceData, Told, InLanguage
  <2> QED BY <1>2, <1>4 DEF LangInv
<1>7. Queue(calls', e.language, company') /\ Told(e, b)'
  BY <1>3, TellsNext
<1>8. Told(data, saved.buyer)'
  BY <1>2, <1>7 DEF Told, InLanguage
<1>9. Active(company)'
  BY DEF Active
<1>10. (~loading /\ company # NoCompany => Sold(data))'
  BY <1>2, <1>3
<1>11. Queue(calls, data.language, company)' /\ Fits(selected, company, calls)'
  BY <1>2, <1>7
<1>12. (saved.buyer = NoBuyer => buyer = NoBuyer)' /\ (~loading /\ buyer = NoBuyer => saved.buyer = NoBuyer)'
  OBVIOUS
<1> QED BY <1>5, <1>6, <1>8, <1>9, <1>10, <1>11, <1>12 DEF LangInv

\* An edit of the form.
LEMMA EditTells ==
  ASSUME ConvInv, LangInv, NEW use, NEW d, Form(d), Edit(use, d),
         Quiet => /\ Told(d, saved.buyer) /\ (company # NoCompany => Sold(d)) /\ Queue(calls, d.language, company)
                  /\ Fits(selected', company, calls)
  PROVE  LangInv'
<1>1. /\ Change(d, calls) /\ UNCHANGED <<company, buyer, loading, saved, scope>>
  BY DEF Edit
<1>2. ASSUME Quiet
      PROVE  /\ Texts(data') = Texts(d) /\ Queue(calls', d.language, company)
             /\ Swaps(calls) => Swaps(calls')
             /\ timer' = Draft(data')
  <2>1. PICK q : q = calls
    OBVIOUS
  <2>2. q \in Seq(Range(q)) /\ Change(d, q) /\ Queue(q, d.language, company)
    BY <1>1, <1>2, <2>1 DEF ConvInv
  <2> QED BY <2>1, <2>2, ChangeTells
<1>3. Quiet => Fits(selected', company, calls')
  BY <1>2 DEF Fits
<1>4. Quiet => /\ Active(company) /\ (saved.buyer = NoBuyer => buyer = NoBuyer)
               /\ (~loading /\ buyer = NoBuyer => saved.buyer = NoBuyer)
  BY DEF LangInv
<1> QED BY <1>1, <1>2, <1>3, <1>4, LangNext

\* Most edits leave the texts alone.
LEMMA PlainEdit ==
  ASSUME ConvInv, LangInv, NEW use, NEW d, Form(d), Texts(d) = Texts(data), Edit(use, d), UNCHANGED selected
  PROVE  LangInv'
<1>1. PICK e : e = data
  OBVIOUS
<1>2. Quiet => /\ Told(e, saved.buyer) /\ (company # NoCompany => Sold(e)) /\ Queue(calls, e.language, company)
               /\ Fits(selected, company, calls)
  BY <1>1 DEF LangInv, Edit
<1>3. Quiet => /\ Told(d, saved.buyer) /\ (company # NoCompany => Sold(d)) /\ Queue(calls, d.language, company)
  BY <1>1, <1>2, SameTexts
<1> QED BY <1>2, <1>3, EditTells

LEMMA PlainField ==
  ASSUME ConvInv, LangInv, NEW use, NEW d, Form(d), Texts(d) = Texts(data), Field(use, d)
  PROVE  LangInv'
<1>1. Form(CalculateTotals(d)) /\ Texts(CalculateTotals(d)) = Texts(data)
  BY CalculatedTexts
<1> QED BY <1>1, PlainEdit DEF Field

LEMMA LinesTell ==
  ASSUME IInv, ConvInv, LangInv, NEW use, NEW d, Form(d), Texts(d) = Texts(data),
         Edit(use, Worded(CalculateTotals(d))), UNCHANGED selected
  PROVE  LangInv'
<1>1. PICK c : c = CalculateTotals(d)
  OBVIOUS
<1>2. Form(c) /\ Texts(c) = Texts(data)
  BY <1>1, CalculatedTexts
<1>3. Form(Worded(c)) /\ Texts(Worded(c)) = Texts(data)
  BY <1>2, WordedTexts
<1> QED BY <1>1, <1>3, PlainEdit

LEMMA LineSectionTells == ASSUME IInv, ConvInv, LangInv, LineItemsSection PROVE LangInv'
<1>1. PICK use : \E items \in Seq(Line) : ItemsChange(use, items)
  BY LinesGiven
<1>2. PICK next \in Seq(Line) : ItemsChange(use, next)
  BY <1>1
<1> DEFINE d == [data EXCEPT !.items = next]
<1>3. Form(d) /\ Texts(d) = Texts(data)
  BY DEF IInv, Form, Texts, Fields, EmptyInvoice
<1>4. Edit(use, Worded(CalculateTotals(d))) /\ UNCHANGED selected
  BY <1>2 DEF ItemsChange
<1> HIDE DEF d
<1> QED BY <1>3, <1>4, LinesTell

LEMMA RateTells == ASSUME IInv, ConvInv, LangInv, NEW rate \in scope.rates, TaxRateChange(rate) PROVE LangInv'
<1>1. rate \in 0..100
  BY DEF IInv, Scope
<1> DEFINE d == [data EXCEPT !.taxRate = rate]
<1>2. Form(d) /\ Texts(d) = Texts(data)
  BY <1>1 DEF IInv, Form, Texts, Fields, EmptyInvoice
<1>3. Edit("tax", Worded(CalculateTotals(d))) /\ UNCHANGED selected
  BY DEF TaxRateChange
<1> HIDE DEF d
<1> QED BY <1>2, <1>3, LinesTell

\* The fields that are no texts.
LEMMA OtherField ==
  ASSUME IInv, ConvInv, LangInv, NEW use, NEW v,
         NEW f \in {"type", "date", "base", "words", "truck", "trailer", "mark"}, Field(use, [data EXCEPT ![f] = v])
  PROVE  LangInv'
<1>1. Form([data EXCEPT ![f] = v]) /\ Texts([data EXCEPT ![f] = v]) = Texts(data)
  BY SetTexts DEF IInv, Fields, EmptyInvoice
<1> QED BY <1>1, PlainField

\* Nothing that is under way changes the texts.
LEMMA NoRace ==
  ASSUME LangInv, Quiet, NEW use \in {"language", "banks", "company", "buyer"}, Races(use) => "race" \in scope.uses
  PROVE  Idle(calls) /\ selected \in Seq(Ids(company))
<1>1. Idle(calls)
  BY DEF Quiet, Races, Idle, Racing
<1> QED BY <1>1, IdleStays DEF LangInv, Fits

LEMMA TextIn == ASSUME NEW party, NEW l PROVE Text(party, l).lang \in {"own", l}
BY DEF Text

LEMMA DirectorIn == ASSUME NEW c, NEW l PROVE Director(c, l).lang \in {"own", l}
BY TextIn DEF Director, Empty

LEMMA LanguageTells == ASSUME IInv, ConvInv, LangInv, NEW l, SetLanguage(l) PROVE LangInv'
<1>1. PICK d : d = InLanguageOf(l)
  OBVIOUS
<1>2. Field("language", Worded(d))
  BY <1>1 DEF SetLanguage, InLanguageOf
<1>3. /\ Form(d) /\ d.language = l
      /\ d.buyer = IF buyer = NoBuyer THEN data.buyer ELSE Text(buyer, l)
      /\ company # NoCompany =>
           /\ d.seller = Text(company, l) /\ d.director = Director(company, l) /\ d.signer = Director(company, l)
           /\ Accounts(company, selected) # <<>> => d.bankText = SerializeBankAccounts(Accounts(company, selected), l)
  BY <1>1, InLanguageIs DEF IInv
<1>4. d.bankIds = data.bankIds
  <2>1. "bankIds" \in Fields \ Texted
    BY DEF Texted, Fields, EmptyInvoice
  <2> QED BY <1>1, <2>1, InLanguageIs DEF IInv
<1>5. PICK e : e = CalculateTotals(Worded(d))
  OBVIOUS
<1>6. Form(e) /\ Texts(e) = Texts(d)
  BY <1>3, <1>5, WordedTexts, CalculatedTexts
<1>7. Edit("language", e) /\ UNCHANGED selected
  BY <1>2, <1>5 DEF Field
<1>8. ASSUME Quiet
      PROVE  /\ Told(d, saved.buyer) /\ (company # NoCompany => Sold(d)) /\ Queue(calls, l, company)
             /\ Fits(selected, company, calls)
  <2>1. Idle(calls) /\ selected \in Seq(Ids(company))
    BY <1>7, <1>8, NoRace DEF Edit
  <2>2. Accounts(company, selected) = selected
    BY <2>1, PickedAll DEF Accounts
  <2>3. company # NoCompany => selected = data.bankIds
    BY <1>7, <1>8 DEF IInv, Ticks, Quiet, Edit
  <2>4. company # NoCompany => Sold(d)
    BY <1>3, <1>4, <2>2, <2>3, TextIn DEF Sold, Labelled
  <2>5. /\ data.bankIds \in Seq(Range(data.bankIds))
        /\ saved.buyer = NoBuyer => buyer = NoBuyer /\ data.buyer.lang = "own"
        /\ buyer = NoBuyer => saved.buyer = NoBuyer
        /\ Active(company) /\ Fits(selected, company, calls) /\ Queue(calls, data.language, company)
    BY <1>7, <1>8 DEF LangInv, Told, Edit
  <2>6. d.buyer.lang \in {"own", l} /\ (saved.buyer = NoBuyer => d.buyer.lang = "own")
    BY <1>3, <2>5, TextIn
  <2>7. "reload" \notin scope.uses => d.director.lang \in {"own", l} /\ d.signer.lang \in {"own", l}
    BY <1>3, <2>5, CompanyIsOne, DirectorIn DEF Active
  <2>8. Told(d, saved.buyer)
    BY <1>3, <1>4, <2>5, <2>6, <2>7 DEF Told, InLanguage
  <2> QED BY <2>1, <2>4, <2>5, <2>8, QueueIdle
<1>9. Quiet => /\ Told(e, saved.buyer) /\ (company # NoCompany => Sold(e)) /\ Queue(calls, e.language, company)
               /\ Fits(selected', company, calls)
  BY <1>3, <1>6, <1>7, <1>8, SameTexts
<1> QED BY <1>6, <1>7, <1>9, EditTells

LEMMA HeaderTells == ASSUME IInv, ConvInv, LangInv, InvoiceHeaderSection PROVE LangInv'
<1>1. ASSUME NEW t, SetType(t) PROVE LangInv'
  BY <1>1, OtherField DEF SetType
<1>2. ASSUME NEW c, SetBase(c) PROVE LangInv'
  BY <1>2, OtherField DEF SetBase
<1>3. ASSUME NEW t, SetDate(t) PROVE LangInv'
  BY <1>3, OtherField DEF SetDate
<1>4. ASSUME NEW c, SetCurrency(c) PROVE LangInv'
  <2>1. PICK d : d = [data EXCEPT !.currency = c]
    OBVIOUS
  <2>2. Form(d) /\ Texts(d) = Texts(data)
    BY <2>1, SetTexts DEF IInv, Fields, EmptyInvoice
  <2>3. Form(Worded(d)) /\ Texts(Worded(d)) = Texts(data)
    BY <2>2, WordedTexts
  <2>4. Field("currency", Worded(d))
    BY <1>4, <2>1 DEF SetCurrency
  <2> QED BY <2>3, <2>4, PlainField
<1> QED BY <1>1, <1>2, <1>3, <1>4, LanguageTells DEF InvoiceHeaderSection

LEMMA TransportTells == ASSUME IInv, ConvInv, LangInv, TransportInfoSection PROVE LangInv'
<1>1. ASSUME NEW v, NEW w, Field("vehicles", [data EXCEPT !.truck = v, !.trailer = w]) PROVE LangInv'
  <2> DEFINE d == [data EXCEPT !.truck = v, !.trailer = w]
  <2>1. Form(d) /\ Texts(d) = Texts(data)
    BY DEF IInv, Form, Texts, Fields, EmptyInvoice
  <2>2. Field("vehicles", d)
    BY <1>1
  <2> HIDE DEF d
  <2> QED BY <2>1, <2>2, PlainField
<1>2. TypeWords => LangInv'
  BY OtherField DEF TypeWords
<1>3. AutoFillWords => LangInv'
  BY OtherField DEF AutoFillWords
<1>4. TruckCleared => LangInv'
  BY OtherField DEF TruckCleared
<1>5. ASSUME NEW t, VehicleSelect(t) PROVE LangInv'
  <2>1. PICK v, w : v = t.id /\ w = IF data.trailer = None THEN t.trailer ELSE data.trailer
    OBVIOUS
  <2>2. Field("vehicles", [data EXCEPT !.truck = v, !.trailer = w])
    BY <1>5, <2>1 DEF VehicleSelect
  <2> QED BY <1>1, <2>2, Zenon
<1>6. ASSUME NEW t, VehicleCreated(t) PROVE LangInv'
  <2>1. PICK v, w : v = t.id /\ w = IF t.trailer = None THEN data.trailer ELSE t.trailer
    OBVIOUS
  <2>2. Field("vehicles", [data EXCEPT !.truck = v, !.trailer = w])
    BY <1>6, <2>1 DEF VehicleCreated
  <2> QED BY <1>1, <2>2, Zenon
<1>7. ASSUME NEW t PROVE TrailerSelect(t) => LangInv'
  BY OtherField DEF TrailerSelect
<1> QED BY <1>2, <1>3, <1>4, <1>5, <1>6, <1>7 DEF TransportInfoSection

LEMMA MarkTells == ASSUME IInv, ConvInv, LangInv, NEW m, SelectMark(m) PROVE LangInv'
  BY OtherField DEF SelectMark

\* What is typed is in no language.
LEMMA NamesTell == ASSUME IInv, ConvInv, LangInv, TypeNames PROVE LangInv'
<1>1. PICK f \in {"buyer", "signer", "director"} : \E use : Field(use, [data EXCEPT ![f] = ByHand])
  BY DEF TypeNames
<1> DEFINE d == [data EXCEPT ![f] = ByHand]
<1>2. PICK use : Field(use, d)
  BY <1>1
<1>21. f \in Fields \ {"taxRate", "items"} /\ Form(data)
  BY DEF IInv, Fields, EmptyInvoice
<1>3. Form(d) /\ \A g \in Fields : d[g] = IF g = f THEN ByHand ELSE data[g]
  BY <1>21, FieldSet
<1> HIDE DEF d
<1>4. {"seller", "director", "signer", "buyer", "language", "bankIds", "bankText"} \subseteq Fields
  BY DEF Fields, EmptyInvoice
<1>5. /\ d.seller = data.seller /\ d.language = data.language /\ d.bankIds = data.bankIds /\ d.bankText = data.bankText
      /\ d.director \in {data.director, ByHand} /\ d.signer \in {data.signer, ByHand} /\ d.buyer \in {data.buyer, ByHand}
  BY <1>3, <1>4
<1>6. PICK e : e = CalculateTotals(d)
  OBVIOUS
<1>7. Form(e) /\ Texts(e) = Texts(d)
  BY <1>3, <1>6, CalculatedTexts
<1>8. Edit(use, e) /\ UNCHANGED selected
  BY <1>2, <1>6 DEF Field
<1>9. ASSUME Quiet
      PROVE  /\ Told(d, saved.buyer) /\ (company # NoCompany => Sold(d)) /\ Queue(calls, d.language, company)
             /\ Fits(selected, company, calls)
  <2>1. ByHand.lang = "own"
    BY DEF ByHand
  <2>2. /\ Told(data, saved.buyer) /\ (company # NoCompany => Sold(data)) /\ Queue(calls, data.language, company)
        /\ Fits(selected, company, calls)
    BY <1>8, <1>9 DEF LangInv, Edit
  <2>3. Told(d, saved.buyer)
    BY <1>5, <2>1, <2>2 DEF Told, InLanguage
  <2>4. company # NoCompany => Sold(d)
    BY <1>5, <2>2 DEF Sold, Labelled
  <2> QED BY <1>5, <2>2, <2>3, <2>4
<1>10. Quiet => /\ Told(e, saved.buyer) /\ (company # NoCompany => Sold(e)) /\ Queue(calls, e.language, company)
                /\ Fits(selected', company, calls)
  BY <1>7, <1>8, <1>9, SameTexts
<1> QED BY <1>7, <1>8, <1>10, EditTells

\* The user ticks accounts of the company.
LEMMA ToggleTells == ASSUME IInv, ConvInv, LangInv, NEW id \in Ids(company), BankAccountToggle(id) PROVE LangInv'
<1>1. PICK next : next = IF Contains(selected, id) THEN Picked(selected, Range(selected) \ {id}) ELSE Append(selected, id)
  OBVIOUS
<1>2. PICK t : t = SerializeBankAccounts(Accounts(company, next), data.language)
  OBVIOUS
<1> DEFINE d == [data EXCEPT !.bankIds = next, !.bankText = t]
<1>3. Edit("banks", d) /\ selected' = next
  BY <1>1, <1>2 DEF BankAccountToggle
<1>4. /\ Form(d) /\ d.seller = data.seller /\ d.director = data.director /\ d.signer = data.signer
      /\ d.buyer = data.buyer /\ d.language = data.language /\ d.bankIds = next /\ d.bankText = t
  BY DEF IInv, Form, Fields, EmptyInvoice
<1> HIDE DEF d
<1>5. ASSUME Quiet
      PROVE  /\ Told(d, saved.buyer) /\ (company # NoCompany => Sold(d)) /\ Queue(calls, d.language, company)
             /\ Fits(next, company, calls)
  <2>1. PICK s, S : s = selected /\ S = Ids(company)
    OBVIOUS
  <2>2. s \in Seq(S)
    BY <1>3, <1>5, <2>1, NoRace DEF Edit
  <2>3. next \in Seq(S)
    <3>1. Picked(s, Range(s) \ {id}) \in Seq(Range(s) \ {id})
      BY <2>2, PickedIn
    <3>2. Range(s) \ {id} \subseteq S
      BY <2>2 DEF Range
    <3>3. Picked(s, Range(s) \ {id}) \in Seq(S)
      BY <3>1, <3>2
    <3>4. Append(s, id) \in Seq(S)
      BY <2>1, <2>2
    <3> QED BY <1>1, <2>1, <3>3, <3>4
  <2>4. Accounts(company, next) = next
    BY <2>1, <2>3, PickedAll DEF Accounts
  <2>5. Labelled(d)
    BY <1>2, <1>4, <2>4 DEF Labelled
  <2>6. next \in Seq(Range(next))
    BY <2>3, WithItsRange
  <2>7. Told(data, saved.buyer) /\ (company # NoCompany => Sold(data)) /\ Queue(calls, data.language, company)
    BY <1>3, <1>5 DEF LangInv, Edit
  <2>8. Told(d, saved.buyer)
    BY <1>4, <2>6, <2>7 DEF Told, InLanguage
  <2>9. company # NoCompany => Sold(d)
    BY <1>4, <2>5, <2>7 DEF Sold
  <2>10. company # NoCompany
    BY DEF Ids, Range, NoCompany
  <2> QED BY <1>4, <2>1, <2>3, <2>7, <2>8, <2>9, <2>10 DEF Fits
<1> QED BY <1>3, <1>4, <1>5, EditTells

\* Without accounts to tick, none is ticked.
LEMMA BankTextTells == ASSUME IInv, ConvInv, LangInv, TypeBankText PROVE LangInv'
<1> DEFINE d == [data EXCEPT !.bankText = ByHand]
<1>1. Field("banks", d) /\ company.accounts = <<>>
  BY DEF TypeBankText
<1>2. /\ Form(d) /\ d.seller = data.seller /\ d.director = data.director /\ d.signer = data.signer
      /\ d.buyer = data.buyer /\ d.language = data.language /\ d.bankIds = data.bankIds
  BY DEF IInv, Form, Fields, EmptyInvoice
<1> HIDE DEF d
<1>3. PICK e : e = CalculateTotals(d)
  OBVIOUS
<1>4. Form(e) /\ Texts(e) = Texts(d)
  BY <1>2, <1>3, CalculatedTexts
<1>5. Edit("banks", e) /\ UNCHANGED selected
  BY <1>1, <1>3 DEF Field
<1>6. ASSUME Quiet
      PROVE  /\ Told(d, saved.buyer) /\ (company # NoCompany => Sold(d)) /\ Queue(calls, d.language, company)
             /\ Fits(selected, company, calls)
  <2>1. PICK s : s = selected
    OBVIOUS
  <2>2. s \in Seq(Ids(company))
    BY <1>5, <1>6, <2>1, NoRace DEF Edit
  <2>3. Ids(company) = {}
    BY <1>1 DEF Ids, Range
  <2>4. s = <<>>
    <3>1. \A i \in 1..Len(s) : s[i] \in {}
      BY <2>2, <2>3
    <3>2. Len(s) \in Nat
      BY <2>2
    <3>3. Len(s) = 0
      BY <3>1, <3>2
    <3> QED BY <2>2, <3>3
  <2>5. company # NoCompany => d.bankIds = <<>>
    BY <1>2, <1>5, <1>6, <2>1, <2>4 DEF IInv, Ticks, Edit, Quiet
  <2>6. /\ Told(data, saved.buyer) /\ (company # NoCompany => Sold(data)) /\ Queue(calls, data.language, company)
        /\ Fits(selected, company, calls)
    BY <1>5, <1>6 DEF LangInv, Edit
  <2>7. Told(d, saved.buyer) /\ (company # NoCompany => Sold(d))
    BY <1>2, <2>5, <2>6 DEF Told, InLanguage, Sold, Labelled
  <2> QED BY <1>2, <2>6, <2>7
<1>7. Quiet => /\ Told(e, saved.buyer) /\ (company # NoCompany => Sold(e)) /\ Queue(calls, e.language, company)
               /\ Fits(selected', company, calls)
  BY <1>4, <1>5, <1>6, SameTexts
<1> QED BY <1>4, <1>5, <1>7, EditTells

\* A question is asked in the language of the form.
LEMMA AsksTell ==
  ASSUME ConvInv, LangInv, NEW use \in {"company", "buyer"}, NEW call,
         InFlight(call, data.language, company), call.op \notin {"patch", "load", "companies"}, Asks(use, call)
  PROVE  LangInv'
<1>1. PICK e, q : e = data /\ q = calls
  OBVIOUS
<1>2. /\ calls' = Append(q, call) /\ data' = e /\ Texts(e) = Texts(e)
      /\ UNCHANGED <<selected, company, buyer, loading, timer, saved, scope>>
  BY <1>1 DEF Asks
<1>3. ASSUME Quiet
      PROVE  Queue(calls', e.language, company) /\ (Swaps(calls) => Swaps(calls'))
  <2>1. Idle(q) /\ Queue(q, e.language, company)
    BY <1>1, <1>3, NoRace DEF Asks, LangInv
  <2>2. q \in Seq(Range(q)) /\ InFlight(call, e.language, company)
    BY <1>1 DEF ConvInv
  <2> QED BY <1>1, <1>2, <2>1, <2>2, BehindIdle, QueueAppend
<1>4. Quiet => /\ Told(e, saved.buyer) /\ (~loading /\ company # NoCompany => Sold(e)) /\ Active(company)
               /\ (saved.buyer = NoBuyer => buyer = NoBuyer)
               /\ (~loading /\ buyer = NoBuyer => saved.buyer = NoBuyer)
               /\ Fits(selected, company, calls)
  BY <1>1 DEF LangInv
<1>5. Quiet => Fits(selected, company, calls')
  BY <1>3, <1>4 DEF Fits
<1> QED BY <1>2, <1>3, <1>4, <1>5, LangNext

LEMMA CompanySectionTells == ASSUME IInv, ConvInv, LangInv, CompanyInfoSection PROVE LangInv'
<1>1. ASSUME NEW i \in DOMAIN company.accounts, BankAccountToggle(company.accounts[i].id) PROVE LangInv'
  <2>1. company.accounts[i].id \in Ids(company)
    BY DEF Ids, Range
  <2> QED BY <1>1, <2>1, ToggleTells
<1>2. ResyncCompany => LangInv'
  <2>1. company # NoCompany => InFlight(Call("company", data.language, None), data.language, company)
    BY DEF Call, InFlight
  <2>2. Call("company", data.language, None).op \notin {"patch", "load", "companies"}
    BY DEF Call
  <2> QED BY <2>1, <2>2, AsksTell DEF ResyncCompany
<1> QED BY <1>1, <1>2, BankTextTells DEF CompanyInfoSection

\* The text of a contractor, in the language of the invoice.
LEMMA RefilledTexts ==
  ASSUME NEW d, Form(d), NEW c, NEW l
  PROVE  /\ Form(Refilled(d, c, l)) /\ Refilled(d, c, l).language = d.language
         /\ \A b : b # NoBuyer /\ l = d.language /\ Told(d, b) => Told(Refilled(d, c, l), b)
         /\ Sold(d) => Sold(Refilled(d, c, l))
<1>1. PICK t : t = Text(c, l)
  OBVIOUS
<1> DEFINE e == Refilled(d, c, l)
<1>2. /\ Form(e) /\ e.seller = d.seller /\ e.director = d.director /\ e.signer = d.signer
      /\ e.language = d.language /\ e.bankIds = d.bankIds /\ e.bankText = d.bankText
      /\ e.buyer = Or(Empty, t)
  BY <1>1 DEF Form, Refilled, PopulateBuyer, Fields, EmptyInvoice
<1> HIDE DEF e
<1>3. Or(Empty, t) = t /\ t.lang \in {"own", l}
  BY <1>1, TextIn DEF Or
<1>4. l = d.language /\ InLanguage(d) => InLanguage(e)
  BY <1>2, <1>3 DEF InLanguage
<1>5. \A b : b # NoBuyer /\ l = d.language /\ Told(d, b) => Told(e, b)
  BY <1>2, <1>4 DEF Told
<1>6. Sold(d) => Sold(e)
  BY <1>2 DEF Sold, Labelled
<1> QED BY <1>2, <1>5, <1>6 DEF e

LEMMA BuyerSectionTells == ASSUME IInv, ConvInv, LangInv, BuyerInfoSection PROVE LangInv'
<1>1. AutoFillBuyer => LangInv'
  <2> SUFFICES ASSUME AutoFillBuyer PROVE LangInv'
    OBVIOUS
  <2>1. PICK e, b, d : e = data /\ b = saved.buyer /\ d = Refilled(data, buyer, data.language)
    OBVIOUS
  <2>2. Edit("buyer", d) /\ buyer # NoBuyer /\ UNCHANGED selected /\ Form(e)
    BY <2>1 DEF AutoFillBuyer, IInv
  <2>3. Quiet => /\ Told(e, b) /\ (company # NoCompany => Sold(e)) /\ b # NoBuyer /\ Queue(calls, e.language, company)
                 /\ Fits(selected, company, calls)
    BY <2>1, <2>2 DEF LangInv, Edit
  <2>4. Form(d) /\ (Quiet => Told(d, b) /\ (company # NoCompany => Sold(d)) /\ d.language = e.language)
    BY <2>1, <2>2, <2>3, RefilledTexts
  <2> QED BY <2>1, <2>2, <2>3, <2>4, EditTells
<1>2. ResyncBuyer => LangInv'
  <2>1. InFlight(Call("buyer", None, None), data.language, company)
    BY DEF Call, InFlight
  <2>2. Call("buyer", None, None).op \notin {"patch", "load", "companies"}
    BY DEF Call
  <2> QED BY <2>1, <2>2, AsksTell DEF ResyncBuyer
<1>3. ASSUME NEW c \in Contractors PROVE ContractorCreated(c) => LangInv'
  <2>1. InFlight(Call("link", data.language, c), data.language, company)
    BY DEF Call, InFlight
  <2>2. Call("link", data.language, c).op \notin {"patch", "load", "companies"}
    BY DEF Call
  <2> QED BY <2>1, <2>2, AsksTell DEF ContractorCreated
<1> QED BY <1>1, <1>2, <1>3 DEF BuyerInfoSection

\* Answers come in order: it is the first call that is answered.
LEMMA AnswerTells ==
  ASSUME ConvInv, LangInv, Quiet, NEW i, NEW op, Answered(i, op)
  PROVE  /\ i = 1 /\ calls[i].op = op
         /\ InFlight(calls[i], data.language, company)
         /\ Rest(i) \in Seq(Range(calls))
         /\ Queue(Rest(i), data.language, company)
         /\ op \in {"company", "patch", "load"} => Idle(Rest(i))
         /\ op = "companies" => \A j \in DOMAIN Rest(i) : Rest(i)[j].op \notin {"load", "companies"}
         /\ Swaps(calls) /\ op \notin {"patch", "load"} => Swaps(Rest(i))
<1>1. PICK q, l : q = calls /\ l = data.language
  OBVIOUS
<1>2. q \in Seq(Range(q)) /\ 1 \in DOMAIN q /\ i = 1 /\ q[1].op = op /\ Queue(q, l, company)
  BY <1>1 DEF ConvInv, LangInv, Quiet, Answered
<1>3. InFlight(q[1], l, company)
  BY <1>2 DEF Queue
<1>4. PICK r : r = RemoveAt(q, 1)
  OBVIOUS
<1>5. /\ r \in Seq(Range(q)) /\ Queue(r, l, company)
      /\ \A j \in DOMAIN r : Behind(q[1], r[j])
      /\ Swaps(q) /\ q[1].op \notin {"patch", "load"} => Swaps(r)
  BY <1>2, <1>4, QueueRest
<1>6. op \in {"company", "patch", "load"} => Idle(r)
  BY <1>2, <1>5 DEF Idle, Behind, Racing
<1>7. op = "companies" => \A j \in DOMAIN r : r[j].op \notin {"load", "companies"}
  BY <1>2, <1>5 DEF Behind
<1> QED BY <1>1, <1>2, <1>3, <1>4, <1>5, <1>6, <1>7 DEF Rest

LEMMA ConvertedTells == ASSUME IInv, ConvInv, LangInv, NEW i, Converted(i) PROVE LangInv'
<1>1. PICK e, v, q : e = data /\ v = calls[i].body /\ q = Rest(i)
  OBVIOUS
<1>2. PICK d : d = CalculateTotals([e EXCEPT !.baseAmount = v])
  OBVIOUS
<1>3. Form([e EXCEPT !.baseAmount = v]) /\ Texts([e EXCEPT !.baseAmount = v]) = Texts(e)
  BY <1>1, SetTexts DEF IInv, Fields, EmptyInvoice
<1>4. Form(d) /\ Texts(d) = Texts(e)
  BY <1>2, <1>3, CalculatedTexts
<1>5. /\ Change(d, q) /\ Answered(i, "convert")
      /\ UNCHANGED <<selected, company, buyer, loading, saved, scope>>
  BY <1>1, <1>2 DEF Converted
<1>6. ASSUME Quiet
      PROVE  /\ Texts(data') = Texts(e) /\ Queue(calls', e.language, company)
             /\ Swaps(calls) => Swaps(calls')
             /\ timer' = Draft(data')
  <2>1. q \in Seq(Range(calls)) /\ Queue(q, e.language, company) /\ (Swaps(calls) => Swaps(q))
    BY <1>1, <1>5, <1>6, AnswerTells
  <2> QED BY <1>4, <1>5, <2>1, ChangeTells
<1>7. Quiet => /\ Told(e, saved.buyer) /\ (~loading /\ company # NoCompany => Sold(e)) /\ Active(company)
               /\ (saved.buyer = NoBuyer => buyer = NoBuyer)
               /\ (~loading /\ buyer = NoBuyer => saved.buyer = NoBuyer)
               /\ Fits(selected, company, calls)
  BY <1>1 DEF LangInv
<1>8. Quiet => Fits(selected, company, calls')
  BY <1>6, <1>7 DEF Fits
<1> QED BY <1>5, <1>6, <1>7, <1>8, LangNext

\* There is no rate of that date.
LEMMA NotConvertedTells == ASSUME ConvInv, LangInv, NEW i, NotConverted(i) PROVE LangInv'
<1>1. PICK e : e = data
  OBVIOUS
<1>2. /\ Answered(i, "convert") /\ data' = e /\ Texts(e) = Texts(e) /\ calls' = Rest(i)
      /\ UNCHANGED <<selected, company, buyer, loading, timer, saved, scope>>
  BY <1>1 DEF NotConverted
<1>3. Quiet => Queue(calls', e.language, company) /\ (Swaps(calls) => Swaps(calls'))
  BY <1>1, <1>2, AnswerTells
<1>4. Quiet => /\ Told(e, saved.buyer) /\ (~loading /\ company # NoCompany => Sold(e)) /\ Active(company)
               /\ (saved.buyer = NoBuyer => buyer = NoBuyer)
               /\ (~loading /\ buyer = NoBuyer => saved.buyer = NoBuyer)
               /\ Fits(selected, company, calls)
  BY <1>1 DEF LangInv
<1>5. Quiet => Fits(selected, company, calls')
  BY <1>3, <1>4 DEF Fits
<1> QED BY <1>2, <1>3, <1>4, <1>5, LangNext

LEMMA ContractorIsOne == ASSUME NEW c \in Contractors PROVE c # NoBuyer
BY FormAssumption DEF NoBuyer

\* A fresh or a new buyer.
LEMMA BuyerAnswersTell ==
  ASSUME IInv, ConvInv, LangInv, NEW i, Linked(i) \/ \E fresh \in Contractors : BuyerAnswered(i, fresh)
  PROVE  LangInv'
<1>1. PICK e, q : e = data /\ q = Rest(i)
  OBVIOUS
<1> SUFFICES ASSUME Quiet PROVE LangInv'
  <2>1. scope' = scope
    BY DEF Linked, BuyerAnswered
  <2> QED BY <2>1 DEF LangInv, Quiet
<1>2. PICK c, op : /\ Answered(i, op) /\ op \in {"link", "buyer"}
                   /\ Change(Refilled(e, c, e.language), q)
                   /\ buyer' = c /\ c # NoBuyer
                   /\ saved'.buyer # NoBuyer /\ saved'.data = saved.data
                   /\ UNCHANGED <<selected, company, loading, scope>>
  <2>1. CASE Linked(i)
    <3>1. PICK c, l : c = calls[i].body /\ l = calls[i].lang
      OBVIOUS
    <3>2. /\ Answered(i, "link") /\ saved' = [saved EXCEPT !.buyer = c] /\ buyer' = c
          /\ Change(Refilled(e, c, l), q) /\ UNCHANGED <<selected, company, loading, scope>>
      BY <1>1, <2>1, <3>1 DEF Linked, Quiet
    <3>3. l = e.language /\ c \in Contractors
      BY <1>1, <3>1, <3>2, AnswerTells DEF InFlight
    <3>4. saved'.buyer = c /\ saved'.data = saved.data
      BY <3>2 DEF IInv, Row
    <3> QED BY <3>2, <3>3, <3>4, ContractorIsOne
  <2>2. ASSUME NEW c \in Contractors, BuyerAnswered(i, c)
        PROVE  /\ Answered(i, "buyer") /\ Change(Refilled(e, c, e.language), q)
               /\ buyer' = c /\ c # NoBuyer
               /\ saved'.buyer # NoBuyer /\ saved'.data = saved.data
               /\ UNCHANGED <<selected, company, loading, scope>>
    <3>1. saved.buyer # NoBuyer
      BY <2>2 DEF BuyerAnswered, LangInv
    <3> QED BY <1>1, <2>2, <3>1, ContractorIsOne DEF BuyerAnswered
  <2> QED BY <2>1, <2>2
<1>3. PICK d, b : d = Refilled(e, c, e.language) /\ b = saved'.buyer
  OBVIOUS
<1>4. /\ Told(e, saved.buyer) /\ (~loading /\ company # NoCompany => Sold(e)) /\ Form(e) /\ Active(company)
      /\ Fits(selected, company, calls)
  BY <1>1 DEF LangInv, IInv
<1>5. b # NoBuyer /\ Told(e, b)
  BY <1>2, <1>3, <1>4 DEF Told
<1>6. Form(d) /\ Told(d, b) /\ (~loading /\ company # NoCompany => Sold(d)) /\ d.language = e.language
  BY <1>3, <1>4, <1>5, RefilledTexts
<1>7. q \in Seq(Range(calls)) /\ Queue(q, e.language, company) /\ (Swaps(calls) => Swaps(q))
  BY <1>1, <1>2, AnswerTells
<1>8. /\ Texts(data') = Texts(d) /\ Queue(calls', e.language, company)
      /\ Swaps(q) => Swaps(calls')
      /\ timer' = Draft(data')
  BY <1>2, <1>3, <1>6, <1>7, ChangeTells
<1>9. Fits(selected, company, calls')
  BY <1>4, <1>7, <1>8 DEF Fits
<1> QED BY <1>2, <1>3, <1>4, <1>5, <1>6, <1>8, <1>9, LangNext

\* What an answer or a load does to the texts.
LEMMA DressedTexts ==
  ASSUME NEW d, Form(d), NEW s, NEW ids, NEW t, NEW a, NEW b
  PROVE  /\ Form(Dressed(d, s, ids, t, a, b))
         /\ Texts(Dressed(d, s, ids, t, a, b)) = <<s, a, b, d.buyer, d.language, ids, t>>
<1> DEFINE e == [d EXCEPT !.seller = s, !.bankIds = ids, !.bankText = t, !.director = a, !.signer = b]
<1>1. Form(Dressed(d, s, ids, t, a, b))
  BY DressedAlike DEF Alike
<1>2. /\ e.seller = s /\ e.bankIds = ids /\ e.bankText = t /\ e.director = a /\ e.signer = b
      /\ e.buyer = d.buyer /\ e.language = d.language
  BY DEF Form, Fields, EmptyInvoice
<1> HIDE DEF e
<1>3. Texts(e) = <<s, a, b, d.buyer, d.language, ids, t>>
  BY <1>2 DEF Texts
<1> QED BY <1>1, <1>3 DEF Dressed, e

LEMMA DressedTold ==
  ASSUME NEW d, Form(d), NEW buyerOf, Told(d, buyerOf), NEW s, NEW S, NEW ids \in Seq(S), NEW t, NEW a, NEW b,
         s.lang \in {"own", d.language},
         "reload" \notin scope.uses => {a.lang, b.lang} \subseteq {"own", d.language},
         ids # <<>> => t = SerializeBankAccounts(ids, d.language)
  PROVE  LET e == Dressed(d, s, ids, t, a, b)
         IN  /\ Form(e) /\ Told(e, buyerOf) /\ Sold(e)
             /\ e.language = d.language /\ e.bankIds = ids
<1>1. PICK e : e = Dressed(d, s, ids, t, a, b)
  OBVIOUS
<1>2. Form(e) /\ Texts(e) = <<s, a, b, d.buyer, d.language, ids, t>>
  BY <1>1, DressedTexts
<1>3. /\ e.seller = s /\ e.bankIds = ids /\ e.bankText = t /\ e.director = a /\ e.signer = b
      /\ e.buyer = d.buyer /\ e.language = d.language
  BY <1>2 DEF Texts
<1>4. ids \in Seq(Range(ids))
  BY WithItsRange
<1>5. Told(e, buyerOf)
  BY <1>3, <1>4 DEF Told, InLanguage
<1>6. Sold(e)
  BY <1>3 DEF Sold, Labelled
<1> QED BY <1>1, <1>2, <1>3, <1>5, <1>6

LEMMA OrIn == ASSUME NEW x, NEW y PROVE Or(x, y) \in {x, y}
BY DEF Or

LEMMA DefaultsAreIds == ASSUME NEW c \in Companies PROVE DefaultAccounts(c) \in Seq(Ids(c))
<1>1. PICK s, T : s = c.accounts /\ T = {a \in Range(c.accounts) : a.isDefault}
  OBVIOUS
<1>2. s \in Seq(Range(s))
  BY <1>1, FormAssumption
<1>3. PICK defaults : defaults = Picked(s, T)
  OBVIOUS
<1>4. defaults \in Seq(T)
  BY <1>2, <1>3, PickedIn
<1>5. \A a \in T : a.id \in Ids(c)
  BY <1>1 DEF Ids
<1>6. DefaultAccounts(c) = [i \in DOMAIN defaults |-> defaults[i].id]
  BY <1>1, <1>3 DEF DefaultAccounts
<1>7. DOMAIN defaults = 1..Len(defaults) /\ Len(defaults) \in Nat /\ \A i \in 1..Len(defaults) : defaults[i] \in T
  BY <1>4
<1>8. DefaultAccounts(c) \in [1..Len(defaults) -> Ids(c)]
  BY <1>5, <1>6, <1>7
<1> QED BY <1>7, <1>8

LEMMA CompanyAnsweredTells ==
  ASSUME IInv, ConvInv, LangInv, NEW i, NEW fresh \in Companies, CompanyAnswered(i, fresh)
  PROVE  LangInv'
<1> SUFFICES ASSUME Quiet PROVE LangInv'
  <2>1. scope' = scope
    BY DEF CompanyAnswered
  <2> QED BY <2>1 DEF LangInv, Quiet
<1>1. PICK e, l, q, patch : e = data /\ l = calls[i].lang /\ q = Rest(i) /\ patch = Call("patch", None, None)
  OBVIOUS
<1>2. PICK s, ids, t, a, b : /\ s = Text(fresh, l) /\ ids = DefaultAccounts(fresh)
                             /\ t = SerializeBankAccounts(DefaultAccounts(fresh), e.language)
                             /\ a = Or(Director(fresh, l), e.director) /\ b = Or(e.signer, Director(fresh, l))
  OBVIOUS
<1>3. PICK d, queue : d = Dressed(e, s, ids, t, a, b) /\ queue = Append(q, patch)
  OBVIOUS
<1>4. /\ Answered(i, "company") /\ Change(d, queue)
      /\ UNCHANGED <<company, buyer, loading, saved, scope>>
  BY <1>1, <1>2, <1>3 DEF CompanyAnswered, Dressed
<1>5. /\ Told(e, saved.buyer) /\ Form(e) /\ Active(company)
      /\ saved.buyer = NoBuyer => buyer = NoBuyer
      /\ ~loading /\ buyer = NoBuyer => saved.buyer = NoBuyer
  BY <1>1 DEF LangInv, IInv
<1>6. l = e.language /\ company # NoCompany /\ q \in Seq(Range(calls)) /\ Queue(q, e.language, company) /\ Idle(q)
  BY <1>1, <1>4, AnswerTells DEF InFlight
<1>7. /\ Form(d) /\ Told(d, saved.buyer) /\ Sold(d) /\ d.language = e.language
  <2>1. s.lang \in {"own", e.language} /\ Director(fresh, l).lang \in {"own", e.language}
    BY <1>2, <1>6, TextIn, DirectorIn
  <2>2. "reload" \notin scope.uses => {e.director.lang, e.signer.lang} \subseteq {"own", e.language}
    BY <1>5 DEF Told, InLanguage
  <2>3. "reload" \notin scope.uses => {a.lang, b.lang} \subseteq {"own", e.language}
    BY <1>2, <2>1, <2>2, OrIn
  <2>4. ids \in Seq(Ids(fresh))
    BY <1>2, DefaultsAreIds
  <2> QED BY <1>2, <1>3, <1>5, <2>1, <2>3, <2>4, DressedTold
<1>8. queue \in Seq(Range(calls) \cup {patch}) /\ Queue(queue, e.language, company) /\ Swaps(queue)
  <2>1. patch.op = "patch"
    BY <1>1 DEF Call
  <2>2. InFlight(patch, e.language, company)
    BY <1>6, <2>1 DEF InFlight
  <2>3. Append(q, patch) \in Seq(Range(calls) \cup {patch})
    BY <1>6
  <2> QED BY <1>3, <1>6, <2>1, <2>2, <2>3, BehindIdle, QueueAppend
<1>9. /\ Texts(data') = Texts(d) /\ Queue(calls', e.language, company)
      /\ Swaps(calls') /\ timer' = Draft(data')
  BY <1>4, <1>7, <1>8, ChangeTells
<1>10. Fits(selected', company, calls')
  BY <1>6, <1>9 DEF Fits
<1> QED BY <1>4, <1>5, <1>7, <1>9, <1>10, LangNext

\* There is another company, or one at last, and the document is loaded again.
LEMMA CompanyPatchedTells ==
  ASSUME IInv, ConvInv, LangInv, NEW i, NEW fresh \in Companies, CompanyPatched(i, fresh) \/ CompaniesAnswered(i, fresh)
  PROVE  LangInv'
<1>1. PICK e, q, load : e = data /\ q = Rest(i) /\ load = Call("load", None, fresh)
  OBVIOUS
<1>2. /\ Answered(i, "patch") \/ Answered(i, "companies")
      /\ company' = fresh /\ loading' /\ calls' = Append(q, load) /\ data' = e
      /\ UNCHANGED <<selected, buyer, timer, saved, scope>>
  BY <1>1 DEF CompanyPatched, CompaniesAnswered
<1>3. fresh # NoCompany /\ load.op = "load" /\ InFlight(load, e.language, fresh)
  BY <1>1, CompanyIsOne DEF Call, InFlight
<1>4. ASSUME Quiet PROVE Queue(calls', e.language, fresh) /\ Swaps(calls')
  <2>1. q \in Seq(Range(calls)) /\ Queue(q, e.language, company)
    BY <1>1, <1>2, <1>4, AnswerTells
  <2>2. Queue(q, e.language, fresh) /\ \A j \in DOMAIN q : Behind(q[j], load)
    <3>1. CASE Answered(i, "patch")
      <4>1. Idle(q) /\ company # NoCompany
        BY <1>1, <1>4, <3>1, AnswerTells DEF InFlight
      <4>2. ASSUME NEW j \in DOMAIN q PROVE Behind(q[j], load)
        BY <2>1, <4>1, <4>2 DEF Queue, InFlight, Idle, Behind
      <4> QED BY <2>1, <4>1, <4>2, QueueIdle
    <3>2. CASE Answered(i, "companies")
      <4>1. company = NoCompany /\ \A j \in DOMAIN q : q[j].op \notin {"load", "companies"}
        BY <1>1, <1>4, <3>2, AnswerTells DEF InFlight
      <4>2. ASSUME NEW j \in DOMAIN q PROVE InFlight(q[j], e.language, fresh) /\ Behind(q[j], load)
        <5>1. InFlight(q[j], e.language, company)
          BY <2>1 DEF Queue
        <5>2. q[j].op \notin {"load", "companies", "company", "patch"}
          BY <4>1, <5>1 DEF InFlight
        <5> QED BY <1>3, <5>1, <5>2 DEF InFlight, Behind, Racing
      <4> QED BY <2>1, <4>2 DEF Queue
    <3> QED BY <1>2, <3>1, <3>2
  <2> QED BY <1>2, <1>3, <2>1, <2>2, QueueAppend
<1>5. Quiet => Told(e, saved.buyer) /\ (saved.buyer = NoBuyer => buyer = NoBuyer)
  BY <1>1 DEF LangInv
<1>6. Texts(data') = Texts(e)
  BY <1>2
<1>7. Quiet => Fits(selected', company', calls') /\ Active(company')
  <2>1. Quiet => Fits(selected', company', calls')
    BY <1>2, <1>3, <1>4, Zenon DEF Fits
  <2>2. Active(company')
    BY <1>2 DEF Active
  <2> QED BY <2>1, <2>2
<1> QED BY <1>2, <1>4, <1>5, <1>6, <1>7, LangNext

\* What a load makes of the row.
LEMMA EmptyTold == ASSUME NEW b PROVE Told(EmptyInvoice, b)
<1>1. <<>> \in Seq(Range(<<>>))
  OBVIOUS
<1> QED BY <1>1 DEF Told, InLanguage, EmptyInvoice, Empty

LEMMA HydratedTold ==
  ASSUME NEW d, NEW b, IsInvoiceData(d) => Told(d, b)
  PROVE  Told(Hydrated(d), b)
<1> DEFINE e == [EmptyInvoice EXCEPT !.type = d.type, !.currency = "GEL"]
<1>1. Hydrated(d) = e \/ Hydrated(d) = EmptyInvoice \/ (IsInvoiceData(d) /\ Hydrated(d) = d)
  BY DEF Hydrated
<1>2. e.seller = Empty /\ e.director = Empty /\ e.signer = Empty /\ e.buyer = Empty /\ e.bankIds = <<>>
  BY DEF EmptyInvoice
<1> HIDE DEF e
<1>3. <<>> \in Seq(Range(<<>>))
  OBVIOUS
<1>4. Told(e, b)
  BY <1>2, <1>3 DEF Told, InLanguage, Empty
<1> QED BY <1>1, <1>4, EmptyTold

LEMMA RestoredAreIds ==
  ASSUME NEW c \in Companies, NEW d, d.bankIds \in Seq(Range(d.bankIds))
  PROVE  RestoredAccounts(d, c) \in Seq(Ids(c))
<1>1. PICK ids : ids = d.bankIds
  OBVIOUS
<1>2. Accounts(c, ids) \in Seq(Ids(c))
  BY <1>1, PickedIn DEF Accounts
<1>3. <<>> \in Seq(Ids(c))
  OBVIOUS
<1> QED BY <1>1, <1>2, <1>3, DefaultsAreIds DEF RestoredAccounts

LEMMA PopulatedTold ==
  ASSUME NEW d, Form(d), Told(d, saved.buyer), NEW c, Active(c)
  PROVE  /\ Form(Populated(d, c)) /\ Told(Populated(d, c), saved.buyer)
         /\ c # NoCompany => Sold(Populated(d, c)) /\ Populated(d, c).bankIds \in Seq(Ids(c))
<1>1. PICK l, who : l = d.language /\ who = saved.buyer
  OBVIOUS
<1>2. PICK f : f = IF who = NoBuyer THEN d ELSE PopulateBuyer(d, who, l)
  OBVIOUS
<1>3. Form(f) /\ Told(f, who) /\ f.language = l
  <2> DEFINE t == Or(d.buyer, Text(who, l))
             e == [d EXCEPT !.buyer = t]
  <2>1. t.lang \in {d.buyer.lang, Text(who, l).lang}
    BY OrIn
  <2>2. t.lang \in {"own", l}
    BY <1>1, <2>1, TextIn DEF Told, InLanguage
  <2> HIDE DEF t
  <2>3. /\ Form(e) /\ e.seller = d.seller /\ e.director = d.director /\ e.signer = d.signer
        /\ e.language = d.language /\ e.bankIds = d.bankIds /\ e.buyer = t
    BY DEF Form, Fields, EmptyInvoice
  <2> HIDE DEF e
  <2>4. who # NoBuyer => Told(e, who)
    BY <1>1, <2>2, <2>3 DEF Told, InLanguage
  <2>5. PopulateBuyer(d, who, l) = e
    BY DEF PopulateBuyer, e, t
  <2> QED BY <1>1, <1>2, <2>3, <2>4, <2>5
<1>4. CASE c = NoCompany
  <2>1. Populated(d, c) = f
    BY <1>1, <1>2, <1>4 DEF Populated
  <2> QED BY <1>1, <1>3, <1>4, <2>1
<1>5. CASE c # NoCompany
  <2>0. c \in Companies
    BY <1>5 DEF Active
  <2>1. PICK s, ids, t, a, b : /\ s = Text(c, l) /\ ids = RestoredAccounts(d, c)
                               /\ t = IF RestoredAccounts(d, c) = <<>> THEN f.bankText
                                      ELSE SerializeBankAccounts(RestoredAccounts(d, c), l)
                               /\ a = Or(f.director, Director(c, l)) /\ b = Or(f.signer, Director(c, l))
    OBVIOUS
  <2>2. Populated(d, c) = Dressed(f, s, ids, t, a, b)
    BY <1>1, <1>2, <1>5, <2>1 DEF Populated, Dressed
  <2>3. ids \in Seq(Ids(c))
    BY <2>0, <2>1, RestoredAreIds DEF Told
  <2>4. s.lang \in {"own", l} /\ Director(c, l).lang \in {"own", l}
    BY <2>1, TextIn, DirectorIn
  <2>5. "reload" \notin scope.uses => {f.director.lang, f.signer.lang} \subseteq {"own", l}
    BY <1>3 DEF Told, InLanguage
  <2>6. "reload" \notin scope.uses => {a.lang, b.lang} \subseteq {"own", l}
    BY <2>1, <2>4, <2>5, OrIn
  <2>7. ids # <<>> => t = SerializeBankAccounts(ids, l)
    BY <2>1
  <2>8. PICK g : g = Dressed(f, s, ids, t, a, b)
    OBVIOUS
  <2>9. Form(g) /\ Told(g, who) /\ Sold(g) /\ g.bankIds = ids
    BY <1>3, <2>3, <2>4, <2>6, <2>7, <2>8, DressedTold
  <2> QED BY <1>1, <2>2, <2>3, <2>8, <2>9
<1> QED BY <1>4, <1>5

LEMMA LoadedTells == ASSUME IInv, ConvInv, LangInv, NEW i, Loaded(i) PROVE LangInv'
<1> SUFFICES ASSUME Quiet PROVE LangInv'
  <2>1. scope' = scope
    BY DEF Loaded
  <2> QED BY <2>1 DEF LangInv, Quiet
<1>1. PICK h, q, c : h = Hydrated(saved.data) /\ q = Rest(i) /\ c = calls[i].body
  OBVIOUS
<1>2. PICK p : p = Populated(h, c)
  OBVIOUS
<1>3. PICK d : d = CalculateTotals(p)
  OBVIOUS
<1>4. /\ Answered(i, "load") /\ ~loading' /\ buyer' = saved.buyer
      /\ selected' = IF c = NoCompany THEN selected ELSE d.bankIds
      /\ DoConvert(d, Seen, q)
      /\ timer' = timer \/ timer' = Draft(data')
      /\ UNCHANGED <<company, saved, scope>>
  BY <1>1, <1>2, <1>3 DEF Loaded
<1>5. c = company /\ q \in Seq(Range(calls)) /\ Queue(q, data.language, company) /\ Idle(q)
  BY <1>1, <1>4, AnswerTells DEF InFlight
<1>6. Form(h) /\ Told(h, saved.buyer)
  <2>1. PICK r : r = saved.data
    OBVIOUS
  <2>2. IsInvoiceData(r) => Form(r) /\ Told(r, saved.buyer)
    BY <2>1 DEF IInv, Row, LangInv
  <2>3. Form(Hydrated(r))
    BY <2>2, HydratedForm
  <2>4. Told(Hydrated(r), saved.buyer)
    BY <2>2, HydratedTold
  <2> QED BY <1>1, <2>1, <2>3, <2>4
<1>7. Active(company) /\ (company = NoCompany => selected = <<>>)
  BY DEF LangInv, Fits
<1>8. /\ Form(p) /\ Told(p, saved.buyer)
      /\ company # NoCompany => Sold(p) /\ p.bankIds \in Seq(Ids(company))
  BY <1>2, <1>5, <1>6, <1>7, PopulatedTold
<1>9. Form(d) /\ Texts(d) = Texts(p)
  BY <1>3, <1>8, CalculatedTexts
<1>10. Told(d, saved.buyer) /\ (company # NoCompany => Sold(d) /\ d.bankIds \in Seq(Ids(company)))
  BY <1>8, <1>9, SameTexts
<1>11. Queue(q, d.language, company)
  BY <1>5, QueueIdle
<1>12. Texts(data') = Texts(d) /\ Queue(calls', d.language, company)
  BY <1>4, <1>5, <1>9, <1>11, ConvertTells
<1>13. Fits(selected', company, calls')
  <2>1. <<>> \in Seq(Ids(company))
    OBVIOUS
  <2> QED BY <1>4, <1>5, <1>7, <1>10, <2>1 DEF Fits
<1> QED BY <1>4, <1>7, <1>10, <1>12, <1>13, LangNext

LEMMA AnswersTell == ASSUME IInv, ConvInv, LangInv, Answers PROVE LangInv'
<1>1. ASSUME NEW i, Failed(i) PROVE LangInv'
  BY <1>1 DEF Failed, LangInv, Quiet
<1> QED BY <1>1, ConvertedTells, NotConvertedTells, BuyerAnswersTell, LoadedTells, CompanyAnsweredTells,
   CompanyPatchedTells DEF Answers

LEMMA SaveTells == ASSUME IInv, LangInv, Save PROVE LangInv'
<1>0. scope' = scope
  BY DEF Save
<1> SUFFICES ASSUME Quiet PROVE LangInv'
  BY <1>0 DEF LangInv, Quiet
<1>1. PICK e, b : e = data /\ b = saved.buyer
  OBVIOUS
<1>2. PICK d : Told(d, b) /\ saved' = [saved EXCEPT !.data = d]
  BY <1>1 DEF Save, LangInv
<1>3. saved'.data = d /\ saved'.buyer = b
  BY <1>1, <1>2 DEF IInv, Row
<1>4. timer' = NoDraft /\ UNCHANGED <<data, selected, company, buyer, loading, calls, scope>>
  BY DEF Save
<1>5. Told(d, b)' /\ Told(e, b)'
  BY <1>1, <1>2, <1>4, TellsNext DEF LangInv
<1>6. Told(data, saved.buyer)' /\ Told(saved.data, saved.buyer)'
  BY <1>1, <1>3, <1>4, <1>5 DEF Told, InLanguage
<1>7. Active(company)'
  BY <1>4 DEF LangInv, Active
<1> QED BY <1>1, <1>3, <1>4, <1>6, <1>7 DEF LangInv

\* The page is opened.
LEMMA OpenedTells == ASSUME NEW c, NEW l PROVE Queue(Opened(c), l, c) /\ Swaps(Opened(c))
<1>1. PICK q, load, companies : q = Opened(c) /\ load = Call("load", None, c) /\ companies = Call("companies", None, None)
  OBVIOUS
<1>2. /\ 1 \in DOMAIN q /\ q[1] = load
      /\ \A i \in DOMAIN q : i = 1 \/ (i = 2 /\ q[i] = companies /\ c = NoCompany)
  BY <1>1, OpenedIs
<1>3. InFlight(load, l, c) /\ (c = NoCompany => InFlight(companies, l, c)) /\ load.op = "load" /\ companies.op = "companies"
  BY <1>1 DEF Call, InFlight
<1>4. Behind(load, companies)
  BY <1>3 DEF Behind, Racing
<1>5. \A i, j \in DOMAIN q : i < j => Behind(q[i], q[j])
  BY <1>2, <1>4
<1>6. \A i \in DOMAIN q : InFlight(q[i], l, c)
  BY <1>2, <1>3
<1> QED BY <1>1, <1>2, <1>3, <1>5, <1>6 DEF Queue, Swaps

LEMMA ReloadTells == ASSUME LangInv, Reload PROVE LangInv'
<1>1. /\ data' = EmptyInvoice /\ selected' = <<>> /\ company' = NoCompany /\ buyer' = NoBuyer /\ loading' = TRUE
      /\ timer' = NoDraft /\ calls' = Opened(NoCompany) /\ UNCHANGED <<saved, scope>> /\ "reload" \in scope.uses
  BY DEF Reload
<1> SUFFICES ASSUME Quiet PROVE LangInv'
  BY <1>1 DEF LangInv, Quiet
<1>2. PICK e, b, row : e = EmptyInvoice /\ b = saved.buyer /\ row = saved.data
  OBVIOUS
<1>3. Told(e, b)'
  BY <1>1, <1>2, EmptyTold, TellsNext
<1>4. Told(data, saved.buyer)'
  BY <1>1, <1>2, <1>3 DEF Told, InLanguage
<1>5. (IsInvoiceData(saved.data) => Told(saved.data, saved.buyer))'
  <2> SUFFICES ASSUME IsInvoiceData(row) PROVE Told(row, b)'
    BY <1>1, <1>2 DEF IsInvoiceData, Told, InLanguage
  <2> QED BY <1>1, <1>2, TellsNext DEF LangInv
<1>6. Queue(calls, data.language, company)' /\ Fits(selected, company, calls)'
  BY <1>1, OpenedTells DEF Fits
<1>7. Active(company)'
  BY <1>1 DEF Active
<1> QED BY <1>1, <1>4, <1>5, <1>6, <1>7 DEF LangInv

LEMMA InitTells == Init => LangInv
<1> SUFFICES ASSUME Init PROVE LangInv
  OBVIOUS
<1>1. /\ data = EmptyInvoice /\ selected = <<>> /\ Active(company) /\ buyer = NoBuyer /\ loading
      /\ timer = NoDraft /\ calls = Opened(company)
  <2>1. loading = TRUE /\ company \in Companies \cup (IF "reload" \in scope.uses THEN {NoCompany} ELSE {})
    BY DEF Init
  <2>2. Active(company)
    BY <2>1 DEF Active
  <2> QED BY <2>1, <2>2 DEF Init
<1>2. PICK t, b : saved = [data |-> [type |-> t], buyer |-> b]
  BY DEF Init, Stub
<1>3. ~IsInvoiceData(saved.data)
  BY <1>2 DEF IsInvoiceData
<1>4. Queue(calls, data.language, company) /\ Fits(selected, company, calls)
  BY <1>1, OpenedTells DEF Fits
<1>5. Told(data, saved.buyer)
  BY <1>1, EmptyTold
<1> QED BY <1>1, <1>3, <1>4, <1>5 DEF LangInv

LEMMA StepTells == IInv /\ ConvInv /\ LangInv /\ [Next]_vars => LangInv'
<1> SUFFICES ASSUME IInv, ConvInv, LangInv, [Next]_vars PROVE LangInv'
  OBVIOUS
<1>1. CASE UNCHANGED vars
  BY <1>1 DEF vars, LangInv, Quiet, IsInvoiceData, Told, InLanguage, Active
<1>2. CASE Next
  BY <1>2, LineSectionTells, HeaderTells, TransportTells, CompanySectionTells, BuyerSectionTells, NamesTell,
     RateTells, MarkTells, AnswersTell, SaveTells, ReloadTells DEF Next
<1> QED BY <1>1, <1>2

-----------------------------------------------------------------------------
(* Theorems *)

\* In the form, subtotal, tax and total are what calculateTotals makes of the lines and the
\* rate shown, for every sequence of edits, saves, loads and answers: no handler sets one of
\* the five and leaves another behind.
THEOREM TotalsOfLines == Spec => [](~loading => InStep(data))
<1>1. IInv => (~loading => InStep(data))
  BY DEF IInv
<1> QED BY <1>1, Invariant, PTL

\* In a form that has a company, the accounts that are ticked are those the invoice names,
\* whatever the handlers of the accounts, the fresh data of the company, reloads of the page
\* and the loads of the document do, fail or race, if answers come in the order of the calls:
\* a document that is loaded before the companies is loaded again with one.
THEOREM TickedAccounts ==
  Spec => [](~loading /\ company # NoCompany /\ "overtake" \notin scope.uses => selected = data.bankIds)
<1>1. IInv => (~loading /\ company # NoCompany /\ "overtake" \notin scope.uses => selected = data.bankIds)
  BY DEF IInv, Ticks
<1> QED BY <1>1, Invariant, PTL

\* The three amounts add up but for a cent, for every number of lines, every price, quantity and
\* rate, and whichever way ties are rounded (calculateTotals and all that call it).
THEOREM TotalsTheorem == Spec => []TotalsAddUp
<1>1. IInv => TotalsAddUp
  <2> SUFFICES ASSUME IInv, ~loading
               PROVE  /\ data.subtotal = Subtotal(data.items)
                      /\ data.total - (data.subtotal + data.taxAmount) \in {-1, 0, 1}
    BY DEF TotalsAddUp
  <2>1. InStep(data) /\ data.taxRate \in 0..100 /\ data.items \in Seq(Line)
    BY DEF IInv, Form
  <2>2. PICK items : items = data.items
    OBVIOUS
  <2>3. Subtotal(items) \in Nat
    BY <2>1, <2>2, SubtotalNatural
  <2> QED BY <2>1, <2>2, <2>3, TotalNear DEF InStep
<1> QED BY <1>1, Invariant, PTL

\* The amount the header shows in another currency is the one of the total, the currencies and
\* the date it shows once no conversion is under way, for any number of lines, calls and edits,
\* if answers come in the order of the calls, none fails, and there is a rate of that date (the
\* effect of the header, and the six handlers that change what it depends on): whichever
\* conversion was asked for last is for what is shown now.
THEOREM ConvertedAmount == Spec => []ConvertedTotal
<1>1. ConvInv => ConvertedTotal
  <2> SUFFICES ASSUME ConvInv, ~loading, data.total > 0, data.currency # data.base,
                      {"overtake", "fail"} \cap scope.uses = {}, RateKnown(data.date),
                      \A i \in DOMAIN calls : calls[i].op # "convert"
               PROVE  data.baseAmount = Amount(data)
    BY DEF ConvertedTotal
  <2> QED BY DEF ConvInv, Rendered, Shown
<1>2. Spec => [](IInv /\ LoadInv /\ ConvInv)
  BY InitIInv, StepIInv, InitLoads, StepLoads, InitConv, StepConv, PTL DEF Spec
<1> QED BY <1>1, <1>2, PTL

\* The words of a transport invoice read as its total, whatever it comes to below 10^12 units (a
\* converter has no word for a bigger scale), in each language and currency, and in whichever order
\* lines, tax, language and currency are changed, saved and loaded.
THEOREM WordsOfEveryTotal == Spec => [](data.total \div 100 \in Sayable => WordsOfTotal)
<1>1. IInv /\ WordsInv => (data.total \div 100 \in Sayable => WordsOfTotal)
  <2> SUFFICES ASSUME IInv, WordsInv, data.total \div 100 \in Sayable,
                      data.type = "transport_invoice", data.total > 0, data.words.lang # Typed, "type" \notin scope.uses
               PROVE  /\ 100 * ReadBack(data.words.said) + data.words.cents = data.total
                      /\ data.words.lang = data.language
                      /\ data.words.currency = data.currency
    BY DEF WordsOfTotal
  <2>1. data.words = NumberToWords(data.total, data.language, data.currency) /\ InStep(data)
    BY DEF WordsInv, Settled, WordsFollow
  <2>2. PICK lang : data.words = [lang |-> data.language, said |-> Whole(lang, data.total \div 100),
                                  cents |-> data.total % 100, currency |-> data.currency]
    BY <2>1 DEF NumberToWords
  <2>3. PICK t : t = data.total
    OBVIOUS
  <2>4. PICK n : n = t \div 100
    OBVIOUS
  <2>5. ReadBack(Whole(lang, n)) = n
    BY <2>3, <2>4, WordsReadBack
  <2>6. t \in Nat
    <3>1. PICK items, rate : items = data.items /\ rate = data.taxRate
      OBVIOUS
    <3>2. items \in Seq(Line) /\ rate \in 0..100
      BY <3>1 DEF IInv, Form
    <3>3. Subtotal(items) \in Nat
      BY <3>2, SubtotalNatural
    <3>4. t = Total(Subtotal(items), rate)
      BY <2>1, <2>3, <3>1 DEF InStep
    <3> QED BY <3>2, <3>3, <3>4, TotalIsNatural
  <2>7. 100 * n + (t % 100) = t
    BY <2>4, <2>6
  <2> QED BY <2>2, <2>3, <2>4, <2>5, <2>7
<1>2. Spec => [](IInv /\ LoadInv /\ WordsInv)
  BY InitIInv, StepIInv, InitLoads, StepLoads, InitWords, StepWords, PTL DEF Spec
<1> QED BY <1>1, <1>2, PTL

\* In a form that has a company, seller, buyer and bank accounts are in one language, that of the
\* document, and the accounts are those that are ticked; director and signer are too where the
\* page is never reloaded, and the buyer is without a company.  It holds for any number of
\* companies, contractors, accounts and calls, and whatever is edited, asked for, saved, reloaded
\* and loaded (the handlers of the language, the accounts, the buyer and the company, and the load),
\* if answers come in the order of the calls, none fails, and the texts are not edited while they
\* are being asked for.
THEOREM OneLanguage == Spec => []InDocumentLanguage
<1>1. IInv /\ LangInv => InDocumentLanguage
  <2> SUFFICES ASSUME IInv, LangInv, ~loading, {"race", "overtake", "fail"} \cap scope.uses = {}
               PROVE  /\ data.buyer.lang \in {"own", data.language}
                      /\ company # NoCompany =>
                           /\ data.seller.lang \in {"own", data.language}
                           /\ "reload" \notin scope.uses => {data.director.lang, data.signer.lang} \subseteq {"own", data.language}
                           /\ selected = data.bankIds
                           /\ selected # <<>> => data.bankText = SerializeBankAccounts(selected, data.language)
    BY DEF InDocumentLanguage
  <2>1. InLanguage(data) /\ (company # NoCompany => Sold(data))
    BY DEF LangInv, Quiet, Told
  <2>2. company # NoCompany => selected = data.bankIds
    BY DEF IInv, Ticks
  <2> QED BY <2>1, <2>2 DEF InLanguage, Sold, Labelled
<1>2. Spec => [](IInv /\ LoadInv /\ ConvInv /\ LangInv)
  BY InitIInv, StepIInv, InitLoads, StepLoads, InitConv, StepConv, InitTells, StepTells, PTL DEF Spec
<1> QED BY <1>1, <1>2, PTL
=============================================================================
