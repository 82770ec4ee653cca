----------------------- MODULE DocumentNumberingProofs -----------------------
(***************************************************************************)
(* Proofs about DocumentNumbering, for any number of documents, handlers   *)
(* and days, and any bounds.                                               *)
(***************************************************************************)
EXTENDS DocumentNumbering, WellFoundedInduction, TLAPS

Numbers == (Days \cup Prefixes \cup Texts) \X Nat

Request ==
  [op : {"none", "create", "custom", "duplicate", "update"},
   at : {"idle", "check", "attempt", "base", "suffixes", "insert", "write"},
   number : Numbers \cup {NoNumber}, content : Numbers \cup {NoNumber}, day : Days, tries : Nat, doc : Docs \cup {NoDoc}]

Holding == {"check", "attempt", "insert"}

\* What is typed or inserted stays within its bound, and so does what is copied from it.
Bounded(num) == num # NoNumber => num[2] <= MaxNumber \/ num[2] <= MaxInserted

\* A handler has a number once it has settled on one, or tries one.
Fits(q) ==
  /\ q \in Request
  /\ q.at \in Holding => q.number \in Numbers
  /\ Bounded(q.content)

TypeInv ==
  /\ number \in [Docs -> Numbers \cup {NoNumber}]
  /\ content \in [Docs -> Numbers \cup {NoNumber}]
  /\ \A d \in Docs : Bounded(number[d]) /\ Bounded(content[d])
  /\ scope \in Scopes
  /\ today \in Days
  /\ requests \in [Requests -> Request]
  /\ \A r \in Requests : Fits(requests[r])

-----------------------------------------------------------------------------
(* Numbers as JavaScript counts them                                         *)

LEMMA FloatType == \A n \in Nat : Float(n) \in Nat
BY DEF Float

LEMMA FloatExact ==
  ASSUME NEW n \in 0..MaxExact
  PROVE  Float(n) = n
BY NumberingAssumption DEF Float

\* A set of naturals has a least element, and a bounded one a largest.
LEMMA LeastExists ==
  ASSUME NEW S \in SUBSET Nat, S # {}
  PROVE  \E m \in S : \A n \in S : m <= n
<1> DEFINE R == OpToRel(<, Nat)
<1>1. \E m \in S : \A n \in S : <<n, m>> \notin R
  <2>1. IsWellFoundedOn(R, Nat)
    BY NatLessThanWellFounded
  <2> HIDE DEF R
  <2> QED BY <2>1, WFMin
<1>2. \A m, n \in Nat : <<n, m>> \notin R => m <= n
  BY DEF OpToRel
<1> QED BY <1>1, <1>2

LEMMA LargestIsOne ==
  ASSUME NEW S \in SUBSET Nat, S # {}, NEW b \in Nat, \A n \in S : n <= b
  PROVE  /\ Largest(S) \in S
         /\ \A n \in S : n <= Largest(S)
<1> DEFINE T == {b - n : n \in S}
<1>1. T \in SUBSET Nat /\ T # {}
  <2>1. \A n \in S : n \in Nat /\ n <= b
    OBVIOUS
  <2>2. \A n \in S : b - n \in Nat
    BY <2>1
  <2> QED BY <2>2
<1>2. PICK m \in T : \A n \in T : m <= n
  BY <1>1, LeastExists
<1>3. PICK k \in S : m = b - k
  BY <1>2
<1>4. \A n \in S : n <= k
  <2> SUFFICES ASSUME NEW n \in S PROVE n <= k
    OBVIOUS
  <2>1. m <= b - n
    BY <1>2
  <2>2. n \in Nat /\ k \in Nat
    OBVIOUS
  <2> QED BY <1>3, <2>1, <2>2
<1> QED BY <1>3, <1>4 DEF Largest

LEMMA NextSuffixType ==
  ASSUME NEW S \in SUBSET Nat, \A n \in S : n <= MaxNumber \/ n <= MaxInserted
  PROVE  NextSuffix(S) \in Nat
<1> DEFINE F == {Float(n) : n \in S} \cup {1}
           b == MaxNumber + MaxInserted + 1
<1>1. F \in SUBSET Nat /\ F # {}
  BY FloatType
<1>2. \A n \in Nat : Float(n) <= n + 1
  BY DEF Float
<1>3. \A n \in S : Float(n) <= b
  <2> SUFFICES ASSUME NEW n \in S PROVE Float(n) <= b
    OBVIOUS
  <2>1. n \in Nat /\ Float(n) \in Nat /\ Float(n) <= n + 1
    BY <1>2, FloatType
  <2> QED BY <2>1, NumberingAssumption
<1>4. \A n \in F : n <= b
  BY <1>3, NumberingAssumption
<1>5. b \in Nat
  BY NumberingAssumption
<1> HIDE DEF b
<1>6. Largest(F) \in Nat
  BY <1>1, <1>4, <1>5, LargestIsOne
<1> QED BY <1>6, FloatType DEF NextSuffix

\* As long as numbers are counted exactly, the suffix that is chosen exceeds all there are.
LEMMA NextSuffixExceeds ==
  ASSUME NEW S \in SUBSET Nat, \A n \in S : n < MaxExact
  PROVE  /\ NextSuffix(S) \in Nat /\ NextSuffix(S) >= 2
         /\ \A n \in S : n < NextSuffix(S)
<1> DEFINE F == {Float(n) : n \in S} \cup {1}
<1>1. \A n \in S : Float(n) = n
  BY FloatExact, NumberingAssumption
<1>2. F \in SUBSET Nat /\ F # {} /\ S \subseteq F /\ \A n \in F : n <= MaxExact
  BY <1>1, NumberingAssumption
<1>3. Largest(F) \in F /\ \A n \in F : n <= Largest(F)
  BY <1>2, LargestIsOne, NumberingAssumption
<1>4. Largest(F) + 1 \in 0..MaxExact \/ Largest(F) = 1
  BY <1>1, <1>2, <1>3, NumberingAssumption
<1>5. NextSuffix(S) = Float(Largest(F) + 1)
  BY DEF NextSuffix
<1>6. Largest(F) \in Nat
  BY <1>2, <1>3
<1> HIDE DEF F
<1>7. Float(2) = 2
  BY NumberingAssumption DEF Float
<1>8. NextSuffix(S) = Largest(F) + 1
  BY <1>4, <1>5, <1>7, FloatExact
<1>9. 1 <= Largest(F)
  BY <1>3 DEF F
<1> QED BY <1>2, <1>3, <1>6, <1>8, <1>9

-----------------------------------------------------------------------------
(* Types                                                                     *)

LEMMA IdleType == Days # {} => Idle \in Request
BY DEF Idle, Request

LEMMA TypedType ==
  ASSUME NEW num \in Typed
  PROVE  num \in Numbers /\ Bounded(num)
BY NumberingAssumption DEF Typed, Numbers, Bounded

\* A handler takes up a state; nothing else of the requests changes.
LEMMA GoType ==
  ASSUME TypeInv, NEW r \in Requests, NEW q, Fits(q), Go(r, q)
  PROVE  /\ requests' \in [Requests -> Request]
         /\ \A s \in Requests : Fits(requests'[s])
BY DEF TypeInv, Go, Fits

LEMMA RespondType ==
  ASSUME TypeInv, NEW r \in Requests, Respond(r)
  PROVE  /\ requests' \in [Requests -> Request]
         /\ \A s \in Requests : Fits(requests'[s])
<1>1. Fits(Idle)
  BY IdleType DEF TypeInv, Fits, Idle, Holding, Bounded
<1> QED BY <1>1, GoType DEF Respond

LEMMA NextNumberFits ==
  ASSUME TypeInv, NEW q \in Request, Bounded(q.content)
  PROVE  Fits(NextNumber(q))
<1>1. today \in Days
  BY DEF TypeInv
<1> QED BY <1>1 DEF NextNumber, Fits, Request, Holding

LEMMA HandlerFits ==
  ASSUME TypeInv, NEW r \in Requests
  PROVE  Fits(requests[r])
BY DEF TypeInv, Fits

\* The suffixes that a row of the day has.
Suffixes(day) == {num[2] : num \in {t \in Taken : t[1] = day /\ t[2] > 0}}

LEMMA SuffixesBounded ==
  ASSUME TypeInv, NEW day
  PROVE  /\ Suffixes(day) \in SUBSET Nat
         /\ \A n \in Suffixes(day) : n <= MaxNumber \/ n <= MaxInserted
BY DEF Suffixes, Taken, TypeInv, Numbers, Bounded

LEMMA TypeInit == Init => TypeInv
<1> SUFFICES ASSUME Init PROVE TypeInv
  OBVIOUS
<1>1. scope \in Scopes /\ today \in Days
  BY ScopesAreScopes DEF Init
<1>2. Idle \in Request
  BY <1>1, IdleType
<1>3. Fits(Idle)
  BY <1>2 DEF Idle, Fits, Holding, Bounded
<1>4. \A d \in Docs : number[d] = NoNumber /\ content[d] = NoNumber
  BY DEF Init
<1>5. \A r \in Requests : requests[r] = Idle
  BY DEF Init
<1> QED BY <1>1, <1>2, <1>3, <1>4, <1>5 DEF Init, TypeInv, Bounded

\* A column of numbers, and what one that is written in it leaves.
Column(f) == f \in [Docs -> Numbers \cup {NoNumber}] /\ \A d \in Docs : Bounded(f[d])

LEMMA ColumnWritten ==
  ASSUME NEW f, Column(f), NEW num \in Numbers \cup {NoNumber}, Bounded(num), NEW d
  PROVE  Column([f EXCEPT ![d] = num])
BY DEF Column

LEMMA TypeStep == TypeInv /\ [Next]_vars => TypeInv'
<1> SUFFICES ASSUME TypeInv, [Next]_vars PROVE TypeInv'
  OBVIOUS
<1>a. Days # {} /\ Idle \in Request
  BY IdleType DEF TypeInv
\* A step of a handler that leaves the rows and the day alone.
<1>b. ASSUME NEW r \in Requests, NEW q, Fits(q), Go(r, q), UNCHANGED <<rows, today, scope>>
      PROVE  TypeInv'
  BY <1>b, GoType DEF TypeInv, rows
\* A handler that writes and responds.
<1>c. ASSUME NEW r \in Requests, Respond(r), UNCHANGED <<today, scope>>, Column(number'), Column(content')
      PROVE  TypeInv'
  BY <1>c, RespondType DEF TypeInv, Column
<1>f. Column(number) /\ Column(content)
  BY DEF TypeInv, Column
<1>d. ASSUME NEW r \in Requests, Respond(r), UNCHANGED <<rows, today, scope>> PROVE TypeInv'
  BY <1>d, RespondType DEF TypeInv, rows
<1>e. Bounded(NoNumber) /\ Idle.content = NoNumber
  BY DEF Bounded, Idle
<1>1. ASSUME NEW r \in Requests, Create(r) PROVE TypeInv'
  <2>1. [Idle EXCEPT !.op = "create"] \in Request /\ Bounded([Idle EXCEPT !.op = "create"].content)
    BY <1>a, <1>e DEF Request
  <2> QED BY <1>1, <1>b, <2>1, NextNumberFits DEF Create, Start
<1>2. ASSUME NEW r \in Requests, NEW num \in scope.typed, CreateCustom(r, num) PROVE TypeInv'
  <2>1. num \in Numbers
    BY TypedType, ScopesAreScopes DEF TypeInv
  <2>2. Fits([Idle EXCEPT !.op = "custom", !.at = "check", !.number = num])
    BY <1>a, <1>e, <2>1 DEF Fits, Request, Holding
  <2> QED BY <1>2, <1>b, <2>2 DEF CreateCustom, Start
<1>3. ASSUME NEW r \in Requests, CheckCustom(r) PROVE TypeInv'
  <2>1. CASE requests[r].number \in Taken
    BY <1>3, <1>d, <2>1 DEF CheckCustom
  <2>2. CASE requests[r].number \notin Taken
    <3>1. Fits([requests[r] EXCEPT !.at = "insert"])
      BY <1>3 DEF CheckCustom, At, TypeInv, Fits, Request, Holding
    <3> QED BY <1>3, <1>b, <2>2, <3>1 DEF CheckCustom
  <2> QED BY <2>1, <2>2
<1>4. ASSUME NEW r \in Requests, NEW d \in Docs, Duplicate(r, d) PROVE TypeInv'
  <2> DEFINE q == [Idle EXCEPT !.op = "duplicate", !.doc = d, !.content = content[d]]
             n == Float(Float(number[d][2]) + 1)
             counted == [q EXCEPT !.at = "attempt", !.number = <<number[d][1], n>>]
  <2>1. q \in Request /\ Bounded(q.content)
    BY <1>a DEF Request, TypeInv
  <2>2. number[d] \in Numbers
    BY <1>4 DEF Duplicate, TypeInv
  <2>3. n \in Nat
    BY <2>2, FloatType DEF Numbers
  <2>4. ASSUME number[d][1] \in Prefixes PROVE Fits(counted)
    <3> HIDE DEF n, q
    <3>1. <<number[d][1], n>> \in Numbers
      BY <2>3, <2>4 DEF Numbers
    <3> QED BY <2>1, <3>1 DEF Fits, Request, Holding
  <2>5. Fits(NextNumber(q))
    BY <2>1, NextNumberFits
  <2>6. /\ Go(r, IF number[d][1] \in Prefixes THEN counted ELSE NextNumber(q))
        /\ UNCHANGED <<rows, today, scope>>
    BY <1>4 DEF Duplicate, Start
  <2> HIDE DEF counted, q
  <2> QED BY <2>4, <2>5, <2>6, <1>b
<1>5. ASSUME NEW r \in Requests, Attempt(r) PROVE TypeInv'
  <2> DEFINE q == requests[r]
             n == Float(q.number[2] + 1)
             raised == <<q.number[1], n>>
             next == [q EXCEPT !.tries = @ + 1, !.number = raised]
             afresh == [q EXCEPT !.number = NoNumber]
             settled == [q EXCEPT !.at = "insert"]
  <2>1. q \in Request /\ q.number \in Numbers /\ q.at = "attempt" /\ Bounded(q.content)
    BY <1>5 DEF Attempt, At, TypeInv, Fits, Holding
  <2>2. raised \in Numbers
    BY <2>1, FloatType DEF Numbers
  <2>3. Fits(next)
    <3> HIDE DEF raised
    <3>1. q.tries + 1 \in Nat
      BY <2>1 DEF Request
    <3>2. next \in Request
      BY <2>1, <2>2, <3>1 DEF Request
    <3>3. next.at = "attempt" /\ next.number = raised /\ next.content = q.content
      BY <2>1 DEF Request
    <3> QED BY <2>1, <2>2, <3>2, <3>3 DEF Fits, Holding
  <2>4. Fits(NextNumber(afresh))
    <3>1. afresh \in Request /\ afresh.content = q.content
      BY <2>1 DEF Request
    <3> QED BY <2>1, <3>1, NextNumberFits
  <2>5. Fits(settled)
    BY <2>1 DEF Fits, Request, Holding
  <2>6. /\ Go(r, IF q.number \notin Taken THEN settled
                 ELSE IF q.tries < MaxAttempts - 1 THEN next ELSE NextNumber(afresh))
        /\ UNCHANGED <<rows, today, scope>>
    BY <1>5 DEF Attempt
  <2> HIDE DEF settled, next, afresh
  <2> QED BY <2>3, <2>4, <2>5, <2>6, <1>b
<1>6. ASSUME NEW r \in Requests, ReadBase(r) PROVE TypeInv'
  <2> DEFINE q == requests[r]
  <2>1. q \in Request /\ Bounded(q.content)
    BY DEF TypeInv, Fits
  <2>2. Fits([q EXCEPT !.at = "suffixes"])
    BY <2>1 DEF Fits, Request, Holding
  <2>3. Fits([q EXCEPT !.at = "insert", !.number = <<q.day, 0>>])
    BY <2>1 DEF Fits, Request, Holding, Numbers
  <2> QED BY <1>6, <1>b, <2>2, <2>3 DEF ReadBase
<1>7. ASSUME NEW r \in Requests, ReadSuffixes(r) PROVE TypeInv'
  <2> DEFINE q == requests[r]
             suffixes == {num[2] : num \in {t \in Taken : t[1] = q.day /\ t[2] > 0}}
             n == NextSuffix(suffixes)
  <2>1. q \in Request /\ Bounded(q.content)
    BY DEF TypeInv, Fits
  <2>2. n \in Nat
    BY SuffixesBounded, NextSuffixType DEF Suffixes
  <2>3. Go(r, [q EXCEPT !.at = "insert", !.number = <<q.day, n>>]) /\ UNCHANGED <<rows, today, scope>>
    BY <1>7 DEF ReadSuffixes
  <2> HIDE DEF n
  <2>4. Fits([q EXCEPT !.at = "insert", !.number = <<q.day, n>>])
    BY <2>1, <2>2 DEF Fits, Request, Holding, Numbers
  <2> QED BY <1>b, <2>3, <2>4
<1>8. ASSUME NEW r \in Requests, Insert(r) PROVE TypeInv'
  <2> DEFINE q == requests[r]
  <2>1. q \in Request /\ q.number \in Numbers /\ Bounded(q.content) /\ Bounded(q.number)
    BY <1>8 DEF Insert, At, TypeInv, Fits, Holding, Bounded
  <2>2. CASE UNCHANGED rows
    BY <1>8, <2>2, <1>d DEF Insert
  <2>3. CASE \E d \in Docs : InsertRow(d, q)
    <3>1. PICK d \in Docs : InsertRow(d, q)
      BY <2>3
    <3>2. Column([number EXCEPT ![d] = q.number])
      BY <2>1, <1>f, ColumnWritten
    <3>3. Column([content EXCEPT ![d] = q.content])
      <4>1. q.content \in Numbers \cup {NoNumber}
        BY <2>1 DEF Request
      <4> QED BY <2>1, <4>1, <1>f, ColumnWritten
    <3> QED BY <1>8, <3>1, <3>2, <3>3, <1>c DEF Insert, InsertRow
  <2> QED BY <1>8, <2>2, <2>3 DEF Insert
<1>9. ASSUME NEW r \in Requests, NEW d \in Docs, NEW num \in scope.typed \cup {NoNumber, Shown(d)}, Update(r, d, num)
      PROVE  TypeInv'
  <2>1. Shown(d) \in Numbers \cup {NoNumber} /\ Bounded(Shown(d))
    BY DEF Shown, TypeInv
  <2>2. num \in Numbers \cup {NoNumber} /\ Bounded(num)
    BY <1>e, <2>1, TypedType, ScopesAreScopes DEF TypeInv
  <2>3. Fits([Idle EXCEPT !.op = "update", !.at = "write", !.content = num, !.doc = d])
    BY <1>a, <2>2 DEF Fits, Request, Holding
  <2> QED BY <1>9, <1>b, <2>3 DEF Update, Start
<1>10. ASSUME NEW r \in Requests, UpdateWrite(r) PROVE TypeInv'
  <2> DEFINE q == requests[r]
  <2>1. q.content \in Numbers \cup {NoNumber} /\ Bounded(q.content)
    BY DEF TypeInv, Fits, Request
  <2>2. Respond(r) /\ UNCHANGED <<today, scope>>
    BY <1>10 DEF UpdateWrite
  <2>3. CASE UNCHANGED rows
    BY <2>2, <2>3, <1>d
  <2>4. CASE ~UNCHANGED rows
    <3>1. content' = [content EXCEPT ![q.doc] = q.content]
          /\ number' = IF q.content = NoNumber THEN number ELSE [number EXCEPT ![q.doc] = q.content]
      BY <1>10, <2>4 DEF UpdateWrite
    <3>2. Column([content EXCEPT ![q.doc] = q.content]) /\ Column([number EXCEPT ![q.doc] = q.content])
      BY <2>1, <1>f, ColumnWritten
    <3>3. Column(number') /\ Column(content')
      BY <3>1, <3>2, <1>f
    <3> QED BY <2>2, <3>3, <1>c
  <2> QED BY <2>3, <2>4
<1>11. ASSUME NEW d \in Docs, Remove(d) PROVE TypeInv'
  <2>1. number' = [number EXCEPT ![d] = NoNumber] /\ content' = [content EXCEPT ![d] = NoNumber]
    BY <1>11 DEF Remove
  <2>2. Column([number EXCEPT ![d] = NoNumber]) /\ Column([content EXCEPT ![d] = NoNumber])
    BY <1>e, <1>f, ColumnWritten
  <2>3. Column(number') /\ Column(content')
    BY <2>1, <2>2
  <2> QED BY <1>11, <2>3 DEF Remove, TypeInv, Column
<1>12. CASE Midnight
  BY <1>12, ScopesAreScopes DEF Midnight, TypeInv, rows
<1>13. CASE UNCHANGED vars
  BY <1>13 DEF vars, TypeInv
<1> QED
  BY <1>1, <1>2, <1>3, <1>4, <1>5, <1>6, <1>7, <1>8, <1>9, <1>10, <1>11, <1>12, <1>13 DEF Next

LEMMA TypeInvariant == Spec => []TypeInv
BY TypeInit, TypeStep, PTL DEF Spec

-----------------------------------------------------------------------------
\* Why PrintedOnce holds: rows have numbers of their own, and the content of a row has its
\* number unless the row is a copy.
UniqueNumbers == \A d, e \in Docs : d # e /\ number[d] # NoNumber => number[d] # number[e]
ContentFollows == \A d \in Docs \ copies : content[d] \in {NoNumber, number[d]}
PrintInv == UniqueNumbers /\ ContentFollows

LEMMA PrintStep == TypeInv /\ PrintInv /\ [Next]_vars => PrintInv'
<1> SUFFICES ASSUME TypeInv, PrintInv, [Next]_vars PROVE PrintInv'
  OBVIOUS
<1>a. ASSUME NEW d \in Docs, NEW num, num \notin TakenByOthers(d), number' = [number EXCEPT ![d] = num]
      PROVE  UniqueNumbers'
  BY <1>a DEF PrintInv, UniqueNumbers, TakenByOthers, TypeInv
<1>1. ASSUME NEW r \in Requests, Insert(r) PROVE PrintInv'
  <2> DEFINE q == requests[r]
  <2>1. CASE UNCHANGED rows
    BY <2>1 DEF PrintInv, UniqueNumbers, ContentFollows, rows
  <2>2. CASE q.number \notin Taken /\ \E d \in Docs : InsertRow(d, q)
    <3>1. PICK d \in Docs : InsertRow(d, q)
      BY <2>2
    <3>2. q.number \notin TakenByOthers(d)
      BY <2>2 DEF Taken, TakenByOthers
    <3>3. UniqueNumbers'
      BY <3>1, <3>2, <1>a DEF InsertRow
    <3>4. ASSUME NEW e \in Docs \ copies' PROVE content'[e] \in {NoNumber, number'[e]}
      <4>1. CASE e = d
        BY <3>1, <3>4, <4>1 DEF InsertRow, TypeInv
      <4>2. CASE e # d
        BY <3>1, <3>4, <4>2 DEF InsertRow, TypeInv, PrintInv, ContentFollows
      <4> QED BY <4>1, <4>2
    <3> QED BY <3>3, <3>4 DEF PrintInv, ContentFollows
  <2> QED BY <1>1, <2>1, <2>2 DEF Insert
<1>2. ASSUME NEW r \in Requests, UpdateWrite(r) PROVE PrintInv'
  <2> DEFINE q == requests[r]
  <2>1. CASE UNCHANGED rows
    BY <2>1 DEF PrintInv, UniqueNumbers, ContentFollows, rows
  <2>2. CASE ~UNCHANGED rows
    <3>1. /\ q.content \notin TakenByOthers(q.doc)
          /\ number' = IF q.content = NoNumber THEN number ELSE [number EXCEPT ![q.doc] = q.content]
          /\ content' = [content EXCEPT ![q.doc] = q.content]
          /\ copies' = copies \ {q.doc}
      BY <1>2, <2>2 DEF UpdateWrite
    <3>2. UniqueNumbers'
      <4>1. CASE q.content = NoNumber \/ q.doc \notin Docs
        BY <3>1, <4>1 DEF PrintInv, UniqueNumbers, TypeInv
      <4>2. CASE q.content # NoNumber /\ q.doc \in Docs
        BY <3>1, <4>2, <1>a
      <4> QED BY <4>1, <4>2
    <3>3. ASSUME NEW e \in Docs \ copies' PROVE content'[e] \in {NoNumber, number'[e]}
      <4>1. CASE e = q.doc
        BY <3>1, <4>1 DEF TypeInv
      <4>2. CASE e # q.doc
        BY <3>1, <4>2 DEF TypeInv, PrintInv, ContentFollows
      <4> QED BY <4>1, <4>2
    <3> QED BY <3>2, <3>3 DEF PrintInv, ContentFollows
  <2> QED BY <2>1, <2>2
<1>3. ASSUME NEW d \in Docs, Remove(d) PROVE PrintInv'
  BY <1>3 DEF Remove, PrintInv, UniqueNumbers, ContentFollows, TypeInv
<1>4. CASE UNCHANGED rows
  BY <1>4 DEF PrintInv, UniqueNumbers, ContentFollows, rows
<1> QED
  BY <1>1, <1>2, <1>3, <1>4
     DEF Next, vars, rows, Create, CreateCustom, CheckCustom, Duplicate, Attempt, ReadBase,
         ReadSuffixes, Update, Midnight, Start

\* No two invoices of a company are printed with one number, copies that have not been saved
\* aside: a save writes the content and its number in one statement, or neither.
THEOREM NumbersPrintedOnce == Spec => []PrintedOnce
<1>1. Init => PrintInv
  BY DEF Init, PrintInv, UniqueNumbers, ContentFollows
<1>2. PrintInv => PrintedOnce
  BY DEF PrintInv, UniqueNumbers, ContentFollows, PrintedOnce
<1> QED BY <1>1, <1>2, PrintStep, TypeInvariant, PTL DEF Spec

\* While numbers are small enough to be counted exactly, the number that a handler settles
\* on is free when it does, though it follows from several reads: the rows of the day that
\* it finds in the last one are all below it.
LEMMA ChosenFree ==
  ASSUME MaxNumber < MaxExact, MaxInserted < MaxExact, TypeInv, [Next]_vars,
         NEW r \in Requests, ~At(r, "insert"), requests'[r].at = "insert"
  PROVE  requests'[r].number \notin Taken
<1>a. ASSUME NEW s \in Requests, NEW q, Go(s, q), q.at # "insert"
      PROVE  FALSE
  BY <1>a DEF Go, TypeInv, At
<1>b. ASSUME NEW s \in Requests, NEW q, Go(s, q)
      PROVE  s = r /\ requests'[r] = q
  BY <1>b DEF Go, TypeInv, At
<1>c. ~UNCHANGED requests
  BY DEF At
<1>1. ASSUME NEW s \in Requests, CheckCustom(s) PROVE requests'[r].number \notin Taken
  <2>1. requests[s].number \notin Taken /\ Go(s, [requests[s] EXCEPT !.at = "insert"])
    BY <1>1, <1>a DEF CheckCustom, Respond, Idle
  <2> QED BY <2>1, <1>b DEF TypeInv, Request
<1>2. ASSUME NEW s \in Requests, Attempt(s) PROVE requests'[r].number \notin Taken
  <2> DEFINE q == requests[s]
  <2>1. q \in Request /\ q.at = "attempt"
    BY <1>2 DEF Attempt, At, TypeInv
  <2>2. q.number \notin Taken
    BY <1>2, <1>a, <2>1 DEF Attempt, NextNumber, Request
  <2>3. Go(s, [q EXCEPT !.at = "insert"])
    BY <1>2, <2>2 DEF Attempt
  <2> QED BY <2>1, <2>2, <2>3, <1>b DEF Request
<1>3. ASSUME NEW s \in Requests, ReadBase(s) PROVE requests'[r].number \notin Taken
  <2> DEFINE q == requests[s]
  <2>1. q \in Request
    BY DEF TypeInv
  <2>2. <<q.day, 0>> \notin Taken
    BY <1>3, <1>a, <2>1 DEF ReadBase, Request
  <2> DEFINE base == <<q.day, 0>>
  <2>3. Go(s, [q EXCEPT !.at = "insert", !.number = base])
    BY <1>3, <2>2 DEF ReadBase
  <2> HIDE DEF base
  <2>4. s = r /\ requests'[r] = [q EXCEPT !.at = "insert", !.number = base]
    BY <2>3, <1>b
  <2>5. requests'[r].number = base
    BY <2>1, <2>4 DEF Request
  <2> QED BY <2>2, <2>5 DEF base
<1>4. ASSUME NEW s \in Requests, ReadSuffixes(s) PROVE requests'[r].number \notin Taken
  <2> DEFINE q == requests[s]
             n == NextSuffix(Suffixes(q.day))
  <2>1. q \in Request
    BY DEF TypeInv
  <2>2. Go(s, [q EXCEPT !.at = "insert", !.number = <<q.day, n>>])
    BY <1>4 DEF ReadSuffixes, Suffixes
  <2>3. Suffixes(q.day) \in SUBSET Nat /\ \A m \in Suffixes(q.day) : m < MaxExact
    BY SuffixesBounded, NumberingAssumption
  <2>4. n \in Nat /\ n >= 2 /\ \A m \in Suffixes(q.day) : m < n
    BY <2>3, NextSuffixExceeds
  <2> HIDE DEF n
  <2>5. <<q.day, n>> \notin Taken
    <3>1. ASSUME <<q.day, n>> \in Taken PROVE n \in Suffixes(q.day)
      BY <3>1, <2>4 DEF Suffixes
    <3> QED BY <3>1, <2>4
  <2> DEFINE next == <<q.day, n>>
  <2>6. Go(s, [q EXCEPT !.at = "insert", !.number = next])
    BY <2>2
  <2> HIDE DEF next
  <2>7. s = r /\ requests'[r] = [q EXCEPT !.at = "insert", !.number = next]
    BY <2>6, <1>b
  <2>8. requests'[r].number = next
    BY <2>1, <2>7 DEF Request
  <2> QED BY <2>5, <2>8 DEF next
<1>5. ASSUME NEW s \in Requests, NEW q, Start(s, q), q.at # "insert" PROVE FALSE
  BY <1>5, <1>a DEF Start
<1>6. ASSUME NEW s \in Requests, Respond(s) PROVE FALSE
  BY <1>6, <1>a DEF Respond, Idle
<1> QED
  BY <1>c, <1>1, <1>2, <1>3, <1>4, <1>5, <1>6
     DEF Next, vars, Create, CreateCustom, Duplicate, Insert, Update, UpdateWrite, Remove,
         Midnight, NextNumber, Idle

THEOREM ChosenNumbersAreFree ==
  MaxNumber < MaxExact /\ MaxInserted < MaxExact => (Spec => NumberFreeWhenChosen)
<1> SUFFICES ASSUME MaxNumber < MaxExact, MaxInserted < MaxExact
             PROVE  Spec => NumberFreeWhenChosen
  OBVIOUS
<1> DEFINE A == \A r \in Requests :
                  ~At(r, "insert") /\ requests'[r].at = "insert" => requests'[r].number \notin Taken
<1>1. TypeInv /\ [Next]_vars => [A]_vars
  BY ChosenFree
<1>2. [][A]_vars => NumberFreeWhenChosen
  BY DEF NumberFreeWhenChosen
<1> HIDE DEF A
<1> QED BY <1>1, <1>2, TypeInvariant, PTL DEF Spec
=============================================================================
