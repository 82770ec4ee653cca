-------------------------- MODULE DocumentNumbering --------------------------
(***************************************************************************)
(* Document numbers of one company (backend/src/modules/documents).  A     *)
(* number is computed from what a handler reads and inserted by a later    *)
(* statement; @@unique([companyId, documentNumber]) makes the second       *)
(* insert of the same number fail.  Transactions run at READ COMMITTED, so *)
(* every statement sees what is committed when it starts.  The content of  *)
(* a document, which the PDF is made of, has a number of its own.          *)
(*                                                                         *)
(* A number is a pair <<stem, n>>: <<day, 0>> is "DD/MM", <<day, n>> is    *)
(* "DD/MM-n", <<prefix, n>> is a legacy number such as "DOC-2026-00007"    *)
(* and <<text, 0>> a number without trailing digits.                       *)
(***************************************************************************)
EXTENDS Integers, FiniteSets

CONSTANTS
  Docs,         \* document ids
  Requests,     \* handlers in flight together
  Scopes,       \* which handlers a behaviour has, the rows at a time, what is typed
  Days,         \* values of DD/MM; they come back every year
  Prefixes,     \* stems of legacy numbers
  Texts,        \* numbers without trailing digits
  MaxNumber,    \* bound: the largest n a client types
  MaxInserted,  \* bound: the largest n a row is inserted with
  MaxAttempts,  \* tries before a copy falls back to DD/MM (100 in the code)
  MaxExact,     \* up to here a JS number counts exactly (2^53)
  NoDoc,
  NoNumber      \* there is no row

VARIABLES
  number,    \* documentNumber of each row, NoNumber where there is none
  content,   \* invoiceNumber in inputData of each row, NoNumber where it is blank
  copies,    \* rows whose content still has the number of the document they were copied from
  today,     \* DD/MM
  requests,
  scope      \* of this behaviour; never changes

vars == <<number, content, copies, today, requests, scope>>

rows == <<number, content, copies>>

ASSUME NumberingAssumption ==
  /\ MaxNumber \in Nat /\ MaxInserted \in Nat /\ MaxAttempts \in Nat \ {0} /\ MaxExact \in Nat \ {0}
  /\ NoDoc \notin Docs

\* The numbers a client may type into the builder or send with POST.
Typed == ((Days \cup Prefixes) \X (0..MaxNumber)) \cup (Texts \X {0})

ASSUME ScopesAreScopes ==
  Scopes \subseteq [ops : SUBSET {"create", "custom", "duplicate", "update"}, docs : Nat,
                     days : SUBSET Days, typed : SUBSET Typed]

Taken == {number[d] : d \in Docs} \ {NoNumber}
TakenByOthers(doc) == {number[d] : d \in Docs \ {doc}} \ {NoNumber}

\* A JS number: exact up to MaxExact, then even (this holds up to 2 * MaxExact).
Float(n) ==
  IF n <= MaxExact \/ n % 2 = 0 THEN n
  ELSE IF (n - 1) % 4 = 0 THEN n - 1 ELSE n + 1

Largest(S) == CHOOSE n \in S : \A m \in S : m <= n

\* Bug: the suffix continues from the number of documents of the day.
NextSuffix_Counts(suffixes) == Cardinality(suffixes) + 2

\* "DD/MM-N" after the suffixes findMany returned; "DD/MM" itself counts as 1.
NextSuffix(suffixes) == Float(Largest({Float(n) : n \in suffixes} \cup {1}) + 1)

\* A request of a handler: the statement it is at, the number it has settled on, the
\* one in the content it writes, the day it took, the attempts it made, its row.
Idle == [op |-> "none", at |-> "idle", number |-> NoNumber, content |-> NoNumber,
         day |-> CHOOSE d \in Days : TRUE, tries |-> 0, doc |-> NoDoc]

Init ==
  /\ number = [d \in Docs |-> NoNumber]
  /\ content = [d \in Docs |-> NoNumber]
  /\ copies = {}
  /\ scope \in Scopes
  /\ today \in scope.days
  /\ requests = [r \in Requests |-> Idle]

At(r, at) == requests[r].at = at

Go(r, q) == requests' = [requests EXCEPT ![r] = q]

Respond(r) == Go(r, Idle)

Start(r, q) == q.op \in scope.ops /\ At(r, "idle") /\ Go(r, q) /\ UNCHANGED <<rows, today, scope>>

\* nextDocumentNumber begins: it takes the day and looks for "DD/MM".
NextNumber(q) == [q EXCEPT !.at = "base", !.day = today]

-----------------------------------------------------------------------------
Create(r) == Start(r, NextNumber([Idle EXCEPT !.op = "create"]))

CreateCustom(r, num) ==
  Start(r, [Idle EXCEPT !.op = "custom", !.at = "check", !.number = num])

CheckCustom(r) ==
  /\ At(r, "check")
  /\ IF requests[r].number \in Taken THEN Respond(r)   \* ConflictException
     ELSE Go(r, [requests[r] EXCEPT !.at = "insert"])
  /\ UNCHANGED <<rows, today, scope>>

\* incrementDocumentNumber: legacy numbers count up, all others start afresh.  The
\* content is copied with the number in it.
Duplicate(r, d) ==
  LET q == [Idle EXCEPT !.op = "duplicate", !.doc = d, !.content = content[d]] IN
  /\ number[d] # NoNumber
  /\ Start(r, IF number[d][1] \in Prefixes
              THEN [q EXCEPT !.at = "attempt",
                     !.number = <<number[d][1], Float(Float(number[d][2]) + 1)>>]
              ELSE NextNumber(q))

Attempt(r) ==
  LET q == requests[r] IN
  /\ At(r, "attempt")
  /\ Go(r, IF q.number \notin Taken THEN [q EXCEPT !.at = "insert"]
           ELSE IF q.tries < MaxAttempts - 1
                THEN [q EXCEPT !.tries = @ + 1,
                       !.number = <<q.number[1], Float(q.number[2] + 1)>>]
                ELSE NextNumber([q EXCEPT !.number = NoNumber]))
  /\ UNCHANGED <<rows, today, scope>>

ReadBase(r) ==
  LET q == requests[r] IN
  /\ At(r, "base")
  /\ Go(r, IF <<q.day, 0>> \in Taken THEN [q EXCEPT !.at = "suffixes"]
           ELSE [q EXCEPT !.at = "insert", !.number = <<q.day, 0>>])
  /\ UNCHANGED <<rows, today, scope>>

ReadSuffixes(r) ==
  LET q == requests[r]
      suffixes == {num[2] : num \in {t \in Taken : t[1] = q.day /\ t[2] > 0}}
  IN /\ At(r, "suffixes")
     /\ Go(r, [q EXCEPT !.at = "insert", !.number = <<q.day, NextSuffix(suffixes)>>])
     /\ UNCHANGED <<rows, today, scope>>

InsertRow(d, q) ==
  /\ number[d] = NoNumber
  /\ Cardinality({e \in Docs : number[e] # NoNumber}) < scope.docs
  /\ number' = [number EXCEPT ![d] = q.number]
  /\ content' = [content EXCEPT ![d] = q.content]
  /\ copies' = IF q.content # NoNumber THEN copies \cup {d} ELSE copies

\* The unique index refuses a number taken meanwhile, the foreign key duplicatedFromId a
\* copy of a row that is gone; the create fails.
Insert(r) ==
  LET q == requests[r] IN
  /\ At(r, "insert")
  /\ q.number[2] <= MaxInserted
  /\ IF q.number \in Taken \/ (q.op = "duplicate" /\ number[q.doc] = NoNumber) THEN UNCHANGED rows ELSE \E d \in Docs : InsertRow(d, q)
  /\ Respond(r)
  /\ UNCHANGED <<today, scope>>

\* The builder shows the number of the content, or that of the row if it is blank.
Shown(d) == IF content[d] = NoNumber THEN number[d] ELSE content[d]

\* PATCH :id with what the builder shows, or a number typed over it, or none.
Update(r, d, num) ==
  /\ number[d] # NoNumber
  /\ Start(r, [Idle EXCEPT !.op = "update", !.at = "write", !.content = num, !.doc = d])

\* Bug: a number that is taken is left out of the update, so that the rest is saved.
UpdateWrite_SkipsTaken(r) ==
  LET q == requests[r] IN
  /\ At(r, "write")
  /\ IF number[q.doc] = NoNumber THEN UNCHANGED rows
     ELSE /\ number' = IF q.content \in {NoNumber} \cup TakenByOthers(q.doc) THEN number
                       ELSE [number EXCEPT ![q.doc] = q.content]
          /\ content' = [content EXCEPT ![q.doc] = q.content]
          /\ copies' = copies \ {q.doc}
  /\ Respond(r)
  /\ UNCHANGED <<today, scope>>

\* One statement writes the content and, unless it is blank, its number into the row; the
\* unique index refuses both, and there is nothing to write if the row is gone.
UpdateWrite(r) ==
  LET q == requests[r] IN
  /\ At(r, "write")
  /\ IF number[q.doc] = NoNumber \/ q.content \in TakenByOthers(q.doc) THEN UNCHANGED rows
     ELSE /\ number' = IF q.content = NoNumber THEN number ELSE [number EXCEPT ![q.doc] = q.content]
          /\ content' = [content EXCEPT ![q.doc] = q.content]
          /\ copies' = copies \ {q.doc}
  /\ Respond(r)
  /\ UNCHANGED <<today, scope>>

Remove(d) ==
  /\ number[d] # NoNumber
  /\ number' = [number EXCEPT ![d] = NoNumber]
  /\ content' = [content EXCEPT ![d] = NoNumber]
  /\ copies' = copies \ {d}
  /\ UNCHANGED <<today, requests, scope>>

Midnight ==
  /\ today' \in scope.days \ {today}
  /\ UNCHANGED <<rows, requests, scope>>

Next ==
  \/ \E r \in Requests :
       \/ Create(r)
       \/ \E num \in scope.typed : CreateCustom(r, num)
       \/ CheckCustom(r)
       \/ \E d \in Docs : Duplicate(r, d)
       \/ Attempt(r)
       \/ ReadBase(r)
       \/ ReadSuffixes(r)
       \/ Insert(r)
       \/ \E d \in Docs : \E num \in scope.typed \cup {NoNumber, Shown(d)} : Update(r, d, num)
       \/ UpdateWrite(r)
  \/ \E d \in Docs : Remove(d)
  \/ Midnight

Spec == Init /\ [][Next]_vars

-----------------------------------------------------------------------------
\* Two invoices of a company are never printed with one number, whatever numbers are
\* typed, copied, refused and freed again between the reads of a save and its write, but
\* for copies that have not been saved since: duplicate copies the number in the content.
PrintedOnce ==
  \A d, e \in Docs \ copies : d # e /\ content[d] # NoNumber => content[d] # content[e]

\* Every number a create, a copy or the client's form settles on is free at the
\* read that settles it, whatever rows came and went since its first read; only
\* a writer between that read and the insert can make the insert fail.
NumberFreeWhenChosen ==
  [][\A r \in Requests :
       ~At(r, "insert") /\ requests'[r].at = "insert"
         => requests'[r].number \notin Taken]_vars
=============================================================================
