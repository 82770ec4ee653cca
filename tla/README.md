# TrustyDocs, specified

TLA+ models, model-checking runs and machine-checked proofs for TrustyDocs: a NestJS / Prisma
(PostgreSQL, READ COMMITTED) / Redis / Paddle backend with a React front end for freight invoices.
The code is sequential almost nowhere: every handler reads, awaits and writes, many handlers run at
once, nearly nothing is locked, and Paddle, the nightly job and several browser tabs act beside
them. The models keep that structure: **a handler is a process, and every statement, transaction or
external call it awaits is one step.** What a step does is read off the source; what may happen
between two steps is everything the other processes can do.

Paths below are relative to `backend/src` unless they start with `frontend`. The modules of the front
end say `pages`, `stores`, ... for directories of `frontend/src`.

## The system

| Part | State | Operations | Hard behaviour | Correct when | Module |
|---|---|---|---|---|---|
| Documents (`modules/documents`) | `documents`, `document_signatures`, PDFs on disk | create, update, status change, upload, remove, send, duplicate, sign, overdue job | handlers write by id what they decided from an older read; two status writers that ignore the map; file and row are separate | no row points at a missing file or row; a status has its date; status moves along the map when nothing overlaps | `Documents` |
| Document numbers (same service) | `documentNumber`, unique per company | next number, increment for a copy, custom number, builder save | numbers are computed from what was read and inserted later; the content of a document, which is printed, has the number a second time | no two invoices are printed with one number; a chosen number is free when chosen | `DocumentNumbering` |
| Plan limits (`modules/admin/limits.service.ts`) | counts of documents, companies, ... | `checkLimit` before each create; removals, plan changes | the check and the create are separate transactions | the overshoot is bounded by the creates in flight | `PlanLimits` |
| Memberships (`modules/memberships`) | roles, statuses, pending invitations | add, update, remove, cancel invitation, register | owner counting and deletion are separate; guard and handler are separate | an owner remains; the role hierarchy is respected; invitations of registered users are used up | `Memberships` |
| Payments (`modules/payments`) | `UserSubscription`, `WebhookEvent` | checkout, webhooks, cancel | repeated, reordered, overlapping and dying deliveries | the row ends up as Paddle has it; every webhook is acknowledged | `Subscriptions` |
| Sessions (`modules/auth`, guards) | refresh tokens, Redis blacklist | login, refresh, logout, guard | read, revoke, check user, issue: four awaits | an exchanged token is revoked before its successor exists | `AuthSessions` |
| API client (`frontend/src/api/client.ts`, `auth.store.ts`) | token, `isRefreshing`, `failedQueue` | send, 401 handling, refresh, retry | one refresh serves many calls; a login, a reload and the profile they ask for are calls too | the queue always has a refresh that will serve it; one tab never signs itself out | `ApiClient` |
| Pages and stores (`frontend/src/pages`, `stores`) | the mounted page, lists, flags, active company, open document | fetch, create, update, remove, switch company, edit and save a draft | every handler awaits a call and then writes into stores that other pages share; answers come late, fail, or reach a page that was left | lists end up as the server's rows; nothing hangs; accounts, drafts and the active company are not mixed up | `Workspace` and its pages |
| Invoice form (`pages/documents/builder`, `lib/invoice-utils.ts`, `lib/number-to-words.ts`) | the invoice that is edited | lines, tax, language, currency, accounts, parties, vehicles, save, load | totals, words, converted amount and texts are derived in a dozen handlers and by late answers | what is derived agrees with what it is derived from | `InvoiceForm`, `NumberWords` |
| Administration (`frontend/src/pages/admin`, `modules/admin`) | users, plans, credits | patch a user, toggle administrator, assign a plan, grant credits, plans | write, then fetch, then merge into what is shown | what is shown is what is stored | `AdminPages` |
| Admin cache (`common/guards/admin.guard.ts`), one-time codes | Redis keys | read-through and invalidate; issue and exchange | read, then write or delete | bounded by a time to live only | not modelled |
| Exchange rates, mail, audit log, PDF layout, i18n, deployment | | | presentation, output, configuration | | not modelled |

Interactions. The API client calls every handler through the access token that the sessions issue
and the refresh cookie that all tabs of a browser share (`BrowserSession`). `CompanyRoleGuard` reads
a membership before each handler of a company (`Memberships` models guard and handler as separate
steps). `checkLimit` runs before the creates of documents, companies, contractors, signatures and
stamps (`PlanLimits`). Registration accepts the invitations of an address (`Memberships`). The
overdue job writes documents beside the handlers (`Documents`). Paddle's webhooks write the
subscription, which determines the plan the limits read (`Subscriptions`, `PlanLimits`; a plan
change is an arbitrary step of the latter). The pages meet in the stores, the router and the sidebar
(`Workspace`); the builder's form (`InvoiceForm`) is the draft whose versions `BuilderPages` saves.

## Modules

`scope`. Several modules have a variable `scope`, chosen by `Init` from the constant `Scopes` and
never changed. It says what the environment of one behaviour may do (which requests clients send, is
a handler allowed to fail, do deliveries overlap), so that one run covers several environments of
different size, and a property can be stated for the environments it is meant for. `scope` is not
state of the program.

### Documents, DocumentStatuses, DocumentLifecycle

`live`/`issued`/`row` are the table `documents` (cuids are never used again), `marks` the table
`document_signatures`, `files` the storage provider, `overdue` the ids that the overdue job has read
and not yet written. A handler in `requests` is `<Op>Find` (which is `findById`), then its awaits:
`UpdateWrite`, `UpdateStatusWrite`, `UploadStore` and `UploadWrite`, `RemoveRow` and `RemoveFile`,
`SendRead`, `SignInsert`, `DuplicateInsert`. A write to a removed row is Prisma's P2025: the handler ends. `CronScan` and
`CronWrite` are `handleOverdueCron`. `Fail` and `CronFail` end a handler or the job between two
awaits.

`DocumentStatuses` has the transition map. `DocumentLifecycle` is the abstract specification of one
document's status: it is created a draft, moves along the map, can be removed. `Documents` implements
it (`ImplementsLifecycle`, refinement mapping `Phase`) where handlers do not overlap and nobody
writes the status through `PATCH :id`.

### DocumentNumbering

`number` is the column, `content` the number inside `inputData`, which the builder shows and the PDF
prints, `today` the current "DD/MM" (days come back every year). A number is a pair
of a stem and a count; formatting and parsing are that pairing, with `Float` for the rounding of
JavaScript numbers. Every statement is a step: the reads of `nextDocumentNumber` (`ReadBase`, `ReadSuffixes`), of the custom number
check, of the increment loop of a copy, the insert, and the unique index, which makes a second
insert fail (`P2002`). `UpdateWrite` is the builder's save: one statement writes the content and, if
it has a number, the column, so the index refuses both or neither. A copy takes over the content with
the number of the original in it; `copies` (a history variable) are the rows of which nothing has been saved since.

### PlanLimits

`rows` counts the active contractors, documents that are not cancelled, signatures and stamps of each
company, `cancelled` the others; `member`, `company`, `plan` and `credits` are what `checkLimit`
reads. A create is `ReadPlan` (credits or an unlimited plan let it pass), for contractors and documents
`ListCompanies` (the memberships, in a statement of their own), `Count` over what was listed, then
`CreateCompany` or `CreateRow` in a transaction of its own: a company may be created, left or joined
between the list and the count. All other operations that move a count
do not ask `checkLimit` and are single steps. Credits: a user starts with or without them (the
welcome grant may fail and is caught), they are granted by administrators, and nothing in the code
spends them, so a user with credits has no limit; the bounds are stated for users without.

### Memberships

`account`, `member` and `invite` are the user, membership and invitation rows, one per person
(the unique indexes are on company and user, company and address). A handler is the guard's read
(`guarded`), then each read and write in turn. Ids are not used again: a handler whose target row
was deleted ends with an error. A behaviour is either serial or has overlapping handlers, and names
the roles and statuses that requests carry.

### Subscriptions

`paddle` is the external truth and `log` the webhooks it has emitted. `Deliver` is the upsert of
`WebhookEvent`, keyed by `eventType_subscriptionId` as the code does. `Find` and `Write` are
separate statements; the activation reads, calls Paddle to cancel another subscription, and writes.
`Mark` sets `processed` and answers 200. `Crash` drops a handler anywhere; Paddle repeats what is not
acknowledged. Abstractions: "activated" stands for created and activated, which share a handler; the
checkout's own guard against a second purchase reads a row that may be stale, so a purchase is
possible at any time; every payload names a known plan and user; `assignPlan` by an administrator is
left out.

### ApiClient, AuthSessions, BrowserSession

`ApiClient` is the axios instance of each tab: `token` and `page` are the store's, `refreshing` is
`isRefreshing`, and a call at `queued` is in `failedQueue`. `Unauthorized`, `Refreshed` and
`RefreshFailed` are the response interceptor. `Settle` is what the caller does with an answer: `login`
stores the token and awaits the profile (`LoggedIn`), which signs the tab in; `fetchUser` and `initialize`
ask for the profile too, and clear the token when they get none, as a logout does whatever the
answer (`Settled`). `Reload` is the user's: the calls are given up, and with a token the page is
`loading` until the profile is there. `AuthSessions` is the server for one user: `refresh` is
the state of each refresh token's row, `blacklist` the Redis keys; a handler is `Guard`, `Blacklist`,
`ReadToken`, `Revoke`, `CheckUser`, `Issue`, one await each. `parent` is a history variable.
`BrowserSession` instantiates both and adds the cookie: a call and its handler share a name
`<<tab, call>>`, `Arrive` is the request (with the tab's token and the browser's cookie), `Answer`
the response, which sets or clears the cookie before the client sees it. Abstractions: the reads of
`JwtStrategy` and `JwtGuard` are one step; the row that logout writes to `tokenBlacklist` is left out,
because nothing reads that table; when the tab goes to the login page its other calls are aborted in
the same step (the page is loaded anew), and their handlers go on.

### Tab, the pages, Workspace

`Tab` is what all pages share: `page` (the mounted one, with its local state), `store` (the zustand
stores: lists, loading flags, active company, open document), `server` (the rows), `net` (the calls
in flight in the order they were sent, each with what is still mounted of its sender). `Serve` is
the server, which answers a call in one step; `BodyMade` ends the reading of an image or the making of a
PDF before a call is sent. The `...Store` operators are what each store makes of an answer.

`DirectoryPages` (contractors, vehicles), `MarkPages` (signatures, company signatures, stamps),
`CompanyPages`, `DocumentPages`, `BuilderPages` and `AdminPages` have, for each page, its local state, what
it loads when it is mounted, its event handlers and what it does with an answer. `Workspace` composes
them: `Visit` is the router and the sidebar, `SwitchCompany` the company picker, `Deliver` an answer:
the store takes it, then the page that asked, if it is still there, then whatever follows (a
navigation, another call). A draft is the document it was made for and a version; what is in it is the subject of `InvoiceForm`.

### InvoiceForm, NumberWords

The invoice in the builder as a record `data`. A handler computes the new invoice, totals
(`CalculateTotals`) and words (`Worded`) included, and ends in `Change`, which is `setInvoiceData` with the
effects that follow: the conversion the header asks for when what it depends on has changed (`DoConvert`)
and the timer. The calls in flight are conversions, fresh data of the company or the buyer, a contractor that
is linked, the refresh of the active company, the companies of the layout, and the load of the document.
The builder may be opened, or reloaded (`Reload`), before there is an active company: it has asked
for the document when the layout asks for the companies, and only their answer (`CompaniesAnswered`)
makes it load the document again, now with a seller. Rates are stored from the day `scope.since` on; for an
earlier date the server answers null and the amount stays (`NotConverted`). Amounts are cents and
quantities quarters; where doubles may round a tie either way, `scope.up` says which way. Texts are whose they are
and in which language. `NumberWords` is `numberToWords` for all four languages, with a word for the
number it names; `ReadBack` reads a sequence of words.

`MC*` modules instantiate a module for TLC; `*Proofs` modules hold the theorems.

## Runs

Every behaviour below includes all the others of its scope in every order TLC can find.

| Run | Instance | What it shows |
|---|---|---|
| `documents` | four scopes: 2 documents, 2 storage folders, 2 handlers that may die, statuses fixed; 1 document, 2 status writers and the overdue job; 1 document, one handler that may write any status and the job; 2 documents, 1 handler at a time, 1 folder | `PdfOnDisk`, `SendFindsFile`, `NoDanglingReference`: uploads, removals, sends, copies and signatures interleave and no pointer dangles. Two folders are needed: a second upload in another year or by another member changes the path. `StatusHasDate`: whoever wrote the status last, its date is there. `ImplementsLifecycle`, `NoOrphanPdf`: the promise that holds without overlap. |
| `documents_race` (violated) | 1 document, 1 handler and the job | `LifecycleRespected` fails: PAID is overwritten by OVERDUE. |
| `numbering` | 2 handlers; 3 documents that are created, with a number of the client's or without, and copied, and 2 days that come back; or 2 documents that are also saved by the builder, on one day | `PrintedOnce`, `NumberFreeWhenChosen`. The first run of suffixes, a gap left by a removal and the fallback after `MaxAttempts` all occur with three rows; two are enough for a copy, its original, and saves of both that are refused or find a number freed. |
| `limits_parallel` | 1 user, 2 companies, 3 creates in flight, limits 0 and 1 or unlimited | `OvershootBounded`, `UserOvershootBounded`: the limit is exceeded by less than the creates in flight, while plans, memberships and rows change, also between the list of companies and the count over them. |
| `limits_race` (violated) | 2 creates, limit 1 | `WithinLimit` fails for a user without credits: both creates count before either inserts. |
| `memberships` | 3 people; serial with every role and status, or 2 overlapping handlers | `LastOwnerStays`, `SoleOwnerStays`, `InvitationsSettled`, `OwnerRoleKept`, `HierarchyKept`, `OnlyPatchChanges`, `TypeOK`. Three people are an owner, an admin and the one they disagree about. |
| `memberships_leave` (violated) | 2 people, 2 handlers | `AlwaysAnOwner` fails: both owners leave. |
| `subscriptions` | 2 subscriptions, 2 plans, 5 webhooks in order with a crash, 2 out of order | `FollowsPaddle`, `EveryWebhookAcknowledged`. Five webhooks are a purchase, a change, a second purchase that cancels the first, and what follows. |
| `subscriptions_twice` (violated) | 1 webhook, 2 deliveries | `HandledOnce` fails. |
| `auth` | 1 tab with 2 or 3 calls, which may be a login, a profile or a logout, and may be reloaded, or 2 tabs with one call each; 5 token pairs | `OneRefreshServesTheQueue`, `RotationRevokesParent`, `StaysSignedIn`, `EveryCallSettles`, `TypeOK`. Three calls are the one that refreshes, one that queues, and one whose 401 arrives when the refresh is over. |
| `pages` | 33 scopes: each group of pages that share a store or lead to each other, 2 companies, 1 or 2 calls the user does not wait for, failing or overtaking calls | `ListMirrorsServer`, `NothingHangs`, `ActiveCompanyShown`, `OneDefaultAccount`, `AccountsKept`, `OffersAreAccepted`, `StatusesOffered`, `DraftIsSaved`, `SavesOwnDraft`: what the stores make of answers is what the server has, flags are taken back, and a page writes only what is its own. |
| `invoice` | 2 lines; languages, currencies, dates, accounts, parties and vehicles two each; 20 amounts in words; 2 calls; with and without reloads, and dates before the first rate | `TotalsAddUp`, `WordsOfTotal`, `InDocumentLanguage`, `ConvertedTotal`: the derived parts of the invoice agree with what they are derived from, however edits, answers, loads, reloads and saves interleave. |

The runs marked violated are disagreements between the code and what its comments say; `findings`
in `PROJECT.json` quotes both.

`CHECK_DEADLOCK FALSE` everywhere: with ids, token pairs, rows or webhooks used up an instance stops,
and so does the program when nobody calls it.

Bounds. `MaxCount` (rows per company), `MaxInserted`, `MaxNumber` and `MaxAttempts` (numbers; the code
tries 100 times), `MaxExact` (2^53 in the code), `MaxEvents` and `MaxCrashes` (webhooks), `MaxPairs`
(token pairs) and `Logins` (pairs there may be when a login starts, so that the pairs left are enough
for the refreshes), `MaxItems` (lines of an invoice), `MaxNew` (rows created of a kind), `MaxCalls`,
`MaxEdits` with `scope.calls` and `scope.edits` (calls in flight, edits of a draft, with which the user still acts).
They appear in guards of environment steps, or where a new row is inserted.

## Fairness

Only two specifications have it. `Subscriptions`: Paddle repeats a webhook until it is answered 200
(its documented retry, which the handler's comments rely on), and a handler that runs goes on; a
bounded number of crashes. `BrowserSession`: a request that was sent arrives, a handler whose turn it
is goes on (the statement ends or fails), and an answer reaches the tab, per call, as the event loop,
the timeout interceptor and axios provide. No fairness is assumed of users, of time or of
administrators. The other specifications have safety properties only.

## Proofs

TLAPS checks them for every value of the constants that the named `ASSUME`s allow (that null values
are not ids, that a scope is a scope, that bounds are numbers). Each invariant below was checked by
TLC on the run of its module before it was proved.

- `DocumentsProofs`. `TypeInv` is `TypeOK` with `HandlersOK`, what a handler in flight holds.
  `PdfOnDisk` alone is not inductive: `UploadWrite` makes it true only because the file was stored,
  and `RemoveFile` keeps it only because the row is gone. `FilesInv` adds both facts about handlers
  between their awaits. Theorems `TypeCorrect`, `PdfAlwaysOnDisk`, `SendAlwaysFindsFile`,
  `ReferencesNeverDangle`, `StatusAlwaysHasDate`. Where one handler runs at a time (`SerialInv`): at
  most one is in flight, what it has read of the row still holds, and every file is that of its row
  or of the handler that is storing or deleting it (`FilesAccounted`); hence `NoPdfLeftBehind`, and
  `LifecycleImplemented`: initial states and steps map to `DocumentLifecycle` by `Phase`.
- `DocumentNumberingProofs`. `NumbersPrintedOnce`: the index keeps the numbers of the rows apart
  (`UniqueNumbers`), but what is printed is the number in the content, which no index guards. It follows the row
  (`ContentFollows`), unless the row is a copy: every save writes both in one statement or neither. Together they are `PrintInv`. `ChosenNumbersAreFree`: a handler that
  settles on a number has, in that very step, read that no row has it; the suffixes it counted from are
  at least those of the rows it read. Numbers below `MaxExact` only: above it `Float` rounds, and two
  numbers become one. That is why the theorem has the two hypotheses `MaxNumber < MaxExact` and `MaxInserted < MaxExact`.
- `PlanLimitsProofs`. Between check and create the row is not there yet, so `OvershootInv` counts the
  creates that have passed as rows: a create moves one from the handlers to the rows, and a check
  passes only below the limit, where at most the other handlers have passed. The cardinality lemmas
  for a set of handlers that gains or loses one come first. `UserOvershootInv` does the same over
  all companies of the only user, as long as nobody joins. A count may leave out companies that were created after its
  list was made (`Unaware`); but to put anything into such a company takes a create that listed it, and so counted all
  older companies too, since whoever lists a company lists those before it (`ListInv`). Hence, for each company that has or is about to
  get contractors, those held, the creates that passed and the checks unaware of it together stay below the bound
  (`ContractorBound`). `FreshInv`: a company that does not exist yet has no rows or members and is on no list. The sum over the companies
  (`MapThenSumSet`) takes them in an order of its own; `AnyLast` shows that the order does not
  matter and `AddsChanged` what one row more does to it. Theorems `TypeCorrect`, `CompanyOvershootBounded`, `UserOvershoot`.
- `MembershipsProofs`. The founder stays the only owner because no handler holds a write that would
  change that: `OnlyOwner` (of the rows) with `Harmless` (of the handlers past their checks).
  `AloneInv` is about behaviours without overlap: one handler is busy, and what it has read still
  holds (`Checked`), so its write finds the owners it counted; with it `LastOwnerCannotLeave`,
  `RegistrationSettlesInvitations`, and the action properties `OwnersKeepTheirRole` and
  `OnlyOwnersRuleAdmins`. `OnlyPatchChangesRows` needs the types only. Every property of the run is a theorem.
- `SubscriptionsProofs`. `RowFollowsPaddle`: in order and one at a time, the row is what the newest
  webhook it has taken says. `LogInv` ties the log to Paddle (each webhook tells what Paddle had when it was
  emitted, and the last of a subscription what it has now), `OrderInv` the row to the log: `n` webhooks
  have been acknowledged, the row reflects the first `n`, or `n + 1` once the handler in flight
  has written (`Reflects`). A handler that dies leaves `n` or `n + 1`, and the delivery that is repeated writes
  the same again. The newest webhook about a subscription exists by well-foundedness of the order on numbers.
- `BrowserSessionProofs`. Client and server are proved apart, each in an environment that may do
  anything the other's interface allows: `ClientInv` (a refresh under way if and only if the flag is
  set, one at most) and `ServerInv` (types, `HandlersHoldTokens`: what a handler between two awaits
  has read or revoked). The client's answers include the two calls of a login and the profile of a reload, whichever way they end. `StepOfEach` then shows that every step of the composition is a step or a
  stutter of both. Theorems `TypeCorrect`, `QueueServed`, `ParentsRevoked`. `QuietInv` is about one tab that only
  expiring access tokens disturb: each handler works for a call that waits for it, besides
  calls of pages at most one is handled (`OneLoginOrRefresh`), a refresh brings the browser's cookie,
  and the cookie is valid unless that refresh has rotated it; hence no refresh is ever denied, `SessionLasts`.
- `InvoiceFormProofs`. `IInv`: the form is always an invoice with lines, its totals are those of its
  lines, once there is a company the accounts that are ticked are those it names (`Ticks`), and what is saved or in the timer is an invoice
  too. A load without a company ticks nothing, so `LoadInv` says when it is answered: it is the oldest call, and there is no company
  until it is (answers in order). Theorems `TotalsOfLines`, `TickedAccounts`, `TotalsTheorem`. The last needs that the sum of the
  lines is a natural number. `FoldLeft` goes through a sequence by a recursive function on sets of positions: that
  this function exists, keeps its values where its steps do, and takes the positions in turn (`FoldingExists`,
  `FoldingValues`, `FoldingSteps`) is argued by the first position that would break it, for any step.
  `WordsReadBack`: for each language, the words of every number below 10^12 (`Sayable`: a converter has no word
  for a bigger scale) read back as it; `Says` takes the reader word by word through twenties, hundreds and
  scales. `WordsInv` says that the words follow the total in the form, in the timer and in the row, as
  each may be where the next comes from, so `WordsOfEveryTotal`: `WordsOfTotal` below 10^12 units.
  `ConvInv` is about
  the conversions: the newest under way is the one that the data shown needs, or none is and the data
  has its answer. It needs answers in order, none lost (`overtake`, `fail`) and a rate of the date (`RateKnown`), as the property does;
  `ConvertedAmount` follows. `LangInv` is about the texts, and about those answers that set them: the form, the
  timer's draft and the row are each in their language (`Told`), and the seller and the accounts of the form once there is a company
  (`Sold`); at most one call that sets texts or accounts is in flight, and it asked in the language the form still has, but that
  the companies may make the document load again behind a contractor that is being linked (`Queue`, `Behind`); what is ticked are accounts of the
  company, unless a newer company is on its way (`Swaps`), so that labelling them again in another
  language loses none (`PickedAll`). `OneLanguage` follows, for the behaviours `InDocumentLanguage` is about.
- `WorkspaceProofs`. `Shaped` says what the tab, the stores, the server and the calls are made of. `DraftsOwn` is about
  documents: each row, the one the store holds, the builder's draft and timer, and what a call in flight writes
  or brings have data of that very document, or of one that is gone, whose id is not given again
  (`Own`, `Gone`); the builder hears of the document it shows only (`OwnHeard`). It is inductive where fetches
  do not fail. `PlainEvent` and `QuietEvent` are what the events of most pages have in common, so that
  each page is taken through once; `OwnShows` is leaving a page, `ServedIs` a handler, `DeliverOwn` an
  answer with all that follows it. Theorem `OwnDraftSaved`, for every scope with that hypothesis.
  `DefaultsKept` is about bank accounts, where no call fails and the user waits before leaving a page: each row of
  a company, the array in each answer and in each save have accounts of their own ids and one default
  among them (`WellKept`), and so has the page of a company, but for the two arrays `handleRemoveBankAccount` spoils
  between its write and the answer: then a save of the tab's is in flight and no button is offered (`Saving`), or
  the company is gone (`Lost`) and no save of it succeeds. `ServeKept` is a handler, `DeliverKept` an answer,
  `CompanyKept` the settings. Theorem `OneDefaultAccountKept`, whatever order the answers come in.

Proved, and not a property of a run: the types of `Documents` and `PlanLimits` (`TypeCorrect`); those of `Workspace` are
part of `Shaped`. Only model-checked: the liveness properties (`EveryWebhookAcknowledged`, `EveryCallSettles`), since
neither fairness nor ENABLED is within the prover's reach; `WordsOfTotal` from 10^12 units on, where it does not
hold; and the properties of `Workspace` but `SavesOwnDraft` and `OneDefaultAccount`. Of these `ActiveCompanyShown` and
`DraftIsSaved` are about the scopes of the run: scopes that mix more pages reach what "What does not hold" lists. The others need, beside the kind of invariant above, the
order of all calls in flight (`ListMirrorsServer`, `OffersAreAccepted`, `StatusesOffered`, `AccountsKept`), or
the flag each call still holds (`NothingHangs`).

## What does not hold

Met while modelling, beside the four findings; each is a behaviour of a model above:
- `PATCH :id` with a status does not consult the transition map (`patchStatus` in `Documents`).
- A PDF exported again in another year or by another member leaves the earlier one on disk when the
  document is removed; `NoOrphanPdf` is stated for one folder.
- Two creates that computed the same number: the second fails with P2002 and is not tried again
  (no two rows share a number, the request is lost).
- A copy has the number of its original in its content: it is printed with that number, and saving it in the
  builder fails with P2002 while the original has it; once the original is removed or renumbered, the save gives the copy that
  number. `PrintedOnce` leaves out copies that nothing has been saved of.
- A second webhook of the same type for a subscription has the id of the first and is skipped, so a
  second plan change is not followed (`scope.once`); webhooks out of order are not put in order
  (`scope.ordered`).
- Two tabs of one browser refresh with one cookie: the second is sent to the login page
  (`StaysSignedIn` is stated for one tab). A refresh that overlaps a logout outlives it.
- A call sent again from `failedQueue` is not marked `_retry`, so if it is answered 401 again it may wait
  for another refresh: a logout whose token is no longer accepted does not settle while the user
  keeps typing wrong passwords, each of which starts a refresh. A logout that is answered after a second login clears
  the token between that login and its profile, whose answer shows the app all the same: in a tab without a session a
  call may wait for ever while others are sent, each refreshing without a cookie. `EveryCallSettles` excludes both (`TurnedAway` for ever).
- `fetchUser` and `initialize` clear the token whatever the profile call failed with, so a page that is reloaded while the server fails
  signs the user out although the cookie is valid (`StaysSignedIn` is stated without reloads and profiles). A login whose profile
  fails leaves its token in the store of a tab that shows the login page.
- An owner may be suspended by another, after which nobody may act (`scope.statuses`).

In the pages, outside the environments their properties name:
- Documents. A refetch that is answered late puts another document under a page. Two status clicks
  before an answer write a pair that is no transition. The page offers COMPLETED for a
  PENDING_SIGNATURE document, which `STATUS_TRANSITIONS` does not have, and the list offers to cancel a
  document of any status. The PDF may be one save behind when two saves overlap.
- Stores. A list is stale after answers that overtook each other, or of another company after a switch
  while a mark's image was being read.
- Companies. The array of bank accounts is written into before it is saved, so a removal that
  fails, or a save under way when the settings are left, may leave two defaults or drop an account; answers
  that overtake each other may drop one too, since an older row becomes the page's copy and the next array is made of it. A company
  that is loaded late becomes the active one. A new tab on the page of another company has the company
  of the session storage active, so the builder fills in the wrong seller. An ADMIN is offered the
  role of another ADMIN, which the server refuses. `error` of the page is never reset.
- Builder. A failed fetch leaves the document the store holds, whose content is then saved under this id. A
  save that fails leaves an earlier "saved" in place, an edit during a save is shown as saved, and leaving drops the draft of
  the timer. A change of the active company object loads the saved row over the edits. Switching the company keeps
  the document and fills in the other seller.
- Administration. `toggleAdmin` patches `/admin/users/:id`, whose schema drops `isAdmin` (the handler is
  `:id/admin`), and the store shows the user as administrator all the same. `assignPlan` puts what the
  controller only takes as a patch of `:id/subscription`, so no plan is ever assigned. A plan in use that is deleted is
  kept inactive by the server and leaves the list until it is fetched again. Saving a plan closes whatever form is
  open when the answer comes. A user who cannot be fetched leaves the spinner.
- Forms. An edit form, or a dialog, is closed by the answer of another row; a number typed within the
  400 ms of the debounce is unchecked, and the spinner of a check that was dropped stays.

In the invoice form: subtotal and tax may differ from the total by a cent (0.18 at 25%: 0.05 and 0.22). The
words are stale after the type becomes `transport_invoice` or the total 0, and have no scale from 10^12 on.
An older conversion overwrites the amount once the currencies are equal; one that fails, or for a date before the first
stored rate, leaves the old amount. Fresh data that races a change of the language mixes the two. After a reload the document is shown before there is a company: until
the companies are answered a change of the language translates only the buyer, and no account is ticked although the invoice names
some. A director or signer that is saved then keeps the former language, and the second load of the document drops the edits
that were not saved. A resync overwrites the buyer,
and a change of the language the names, that were typed. A document that is opened with a total arms
the timer, so that opening it saves it. A new truck replaces the trailer's plate while the picker shows the former one.

## Plan

Done: the modules above. Next, in order of importance:
1. `Entitlements`, composing `Subscriptions` and `PlanLimits`: the plan a check reads is the one the
   webhooks wrote, and `assignPlan` beside them.
2. The default flag of marks in two statements on the server, with the page that shows it; default
   trailers of vehicles.
3. `AdminCache` and one-time codes with a clock, so that staleness can be bounded.
4. Exchange rates: the daily fetch beside conversions that read the rate twice.

## Not modelled

PDF layout, translations, mail and the audit log are output that no decision reads. The dashboard,
the audit page, pricing and the public pages only read; the profile writes single fields. The admin
cache, one-time codes and exchange rates: see the plan. Response wrapping, filters and timeouts answer
the client and leave the handler running, which the models have as handlers that fail or go on.
Deployment and configuration are outside of the program.
