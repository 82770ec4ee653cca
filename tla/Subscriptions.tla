---------------------------- MODULE Subscriptions ----------------------------
(***************************************************************************)
(* The subscription of one user (backend/src/modules/payments): Paddle     *)
(* sells, changes and cancels subscriptions and reports every change with  *)
(* a webhook it repeats until the answer is 200; the handlers keep the     *)
(* user's row.  A webhook is deduplicated by eventType_subscriptionId.     *)
(***************************************************************************)
EXTENDS Integers, Sequences, FiniteSets

CONSTANTS
  Subs,        \* Paddle subscriptions of the user
  Paid, Free,  \* plans
  Requests,    \* webhooks handled at the same time
  Scopes,      \* how Paddle delivers
  MaxEvents,   \* bound on the webhooks Paddle emits of its own
  MaxCrashes,  \* bound on the handlers that fail
  NoSub

ASSUME SubscriptionsAssumption ==
  /\ Free \notin Paid /\ NoSub \notin Subs
  /\ MaxEvents \in Nat /\ MaxCrashes \in Nat
  /\ Scopes \subseteq [ordered : BOOLEAN, once : BOOLEAN, freePlan : BOOLEAN,
                       events : 0..MaxEvents]
  /\ IsFiniteSet(Subs)

\* Positions of the log: activations may cancel each subscription once more.
Positions == 1..(MaxEvents + Cardinality(Subs))

VARIABLES
  paddle,     \* state and plan of each subscription at Paddle
  log,        \* the webhooks Paddle has emitted
  acked,      \* those answered with 200
  row,        \* the user's UserSubscription
  processed,  \* event ids of the rows of WebhookEvent with processed = true
  requests,
  crashes,
  scope       \* chosen by Init: ordered, one delivery at a time in the order of
              \* the log and no call to Paddle failing; once, no subscription emits
              \* a type twice; freePlan, there is a plan named "free";
              \* events, how many Paddle emits; never changes

vars == <<paddle, log, acked, row, processed, requests, crashes, scope>>

\* A delivery at the server: the statement it is at, the webhook, the subscription it read.
Idle == [at |-> "idle", event |-> 0, seen |-> NoSub]

Init ==
  /\ paddle = [s \in Subs |-> [state |-> "none", plan |-> CHOOSE p \in Paid : TRUE]]
  /\ log = <<>>
  /\ acked = {}
  /\ row = [plan |-> Free, status |-> "ACTIVE", paddle |-> NoSub]
  /\ processed = {}
  /\ requests = [r \in Requests |-> Idle]
  /\ crashes = 0
  /\ scope \in Scopes

Emitted(type, s) == \E i \in DOMAIN log : log[i].type = type /\ log[i].sub = s

\* mapPaddleStatus
Status(state) == IF state \in {"canceled", "paused"} THEN "CANCELLED" ELSE "ACTIVE"

\* Paddle moves a subscription and emits the webhook.
Emit(type, s, state, plan) ==
  /\ paddle' = [paddle EXCEPT ![s] = [state |-> state, plan |-> plan]]
  /\ log' = Append(log, [type |-> type, sub |-> s, plan |-> plan, status |-> Status(state)])

Report(type, s, state, plan) ==
  /\ Len(log) < scope.events
  /\ scope.once => ~Emitted(type, s)
  /\ Emit(type, s, state, plan)
  /\ UNCHANGED <<acked, row, processed, requests, crashes, scope>>

-----------------------------------------------------------------------------
(* Paddle and the user at its checkout and customer portal.                 *)

Purchase(s, plan) ==
  /\ paddle[s].state = "none"
  /\ Report("activated", s, "active", plan)

ChangePlan(s, plan) ==
  /\ paddle[s].state = "active" /\ plan # paddle[s].plan
  /\ Report("updated", s, "active", plan)

Pause(s) ==
  /\ paddle[s].state = "active"
  /\ Report("paused", s, "paused", paddle[s].plan)

Resume(s) ==
  /\ paddle[s].state = "paused"
  /\ Report("resumed", s, "active", paddle[s].plan)

\* At the end of a period: unpaid, or after POST payments/cancel.
Cancel(s) ==
  /\ paddle[s].state \in {"active", "paused"}
  /\ Report("canceled", s, "canceled", paddle[s].plan)

-----------------------------------------------------------------------------
(* handleWebhook                                                            *)

At(r, at) == requests[r].at = at
Go(r, q) == requests' = [requests EXCEPT ![r] = q]
Step(r, at) == Go(r, [requests[r] EXCEPT !.at = at])
EventOf(r) == log[requests[r].event]
EventId(e) == <<e.type, e.sub>>

\* Bug: the record is created as processed.
Deliver_MarksFirst(r, i) ==
  /\ At(r, "idle") /\ i \in DOMAIN log
  /\ scope.ordered => /\ \A j \in 1..(i - 1) : j \in acked
                      /\ \A q \in Requests : At(q, "idle")
  /\ processed' = processed \cup {EventId(log[i])}
  /\ IF EventId(log[i]) \in processed
     THEN acked' = acked \cup {i} /\ UNCHANGED requests
     ELSE Go(r, [Idle EXCEPT !.at = "received", !.event = i]) /\ UNCHANGED acked
  /\ UNCHANGED <<paddle, log, row, crashes, scope>>

\* The upsert: an event whose id has been processed is answered at once.
Deliver(r, i) ==
  /\ At(r, "idle") /\ i \in DOMAIN log
  /\ scope.ordered => /\ \A j \in 1..(i - 1) : j \in acked
                      /\ \A q \in Requests : At(q, "idle")
  /\ IF EventId(log[i]) \in processed
     THEN acked' = acked \cup {i} /\ UNCHANGED requests
     ELSE Go(r, [Idle EXCEPT !.at = "received", !.event = i]) /\ UNCHANGED acked
  /\ UNCHANGED <<paddle, log, row, processed, crashes, scope>>

\* Bug: a subscription that is not found is an error.
Find_Throws(r) ==
  /\ At(r, "received") /\ EventOf(r).type # "activated"
  /\ IF row.paddle = EventOf(r).sub THEN Step(r, "found") ELSE Go(r, Idle)
  /\ UNCHANGED <<paddle, log, acked, row, processed, crashes, scope>>

\* The row that names the subscription; without one the event is done.
Find(r) ==
  /\ At(r, "received") /\ EventOf(r).type # "activated"
  /\ Step(r, IF row.paddle = EventOf(r).sub THEN "found" ELSE "handled")
  /\ UNCHANGED <<paddle, log, acked, row, processed, crashes, scope>>

\* What the handlers write, by the id of the row they found.
Written(e) ==
  CASE e.type = "updated"  -> [row EXCEPT !.plan = e.plan, !.status = e.status]
    [] e.type = "paused"   -> [row EXCEPT !.status = "CANCELLED"]
    [] e.type = "resumed"  -> [row EXCEPT !.status = "ACTIVE"]
    [] e.type = "canceled" ->
         IF scope.freePlan THEN [plan |-> Free, status |-> "ACTIVE", paddle |-> NoSub]
         ELSE [row EXCEPT !.status = "CANCELLED", !.paddle = NoSub]

Write(r) ==
  /\ At(r, "found")
  /\ row' = Written(EventOf(r))
  /\ Step(r, "handled")
  /\ UNCHANGED <<paddle, log, acked, processed, crashes, scope>>

\* handleSubscriptionActivated: the transaction reads the row ...
ReadExisting(r) ==
  /\ At(r, "received") /\ EventOf(r).type = "activated"
  /\ Go(r, [requests[r] EXCEPT !.seen = row.paddle,
              !.at = IF row.paddle \in Subs \ {EventOf(r).sub} THEN "existing" ELSE "replace"])
  /\ UNCHANGED <<paddle, log, acked, row, processed, crashes, scope>>

\* ... cancels another subscription at Paddle; an error is caught ...
CancelExisting(r) ==
  LET s == requests[r].seen IN
  /\ At(r, "existing")
  /\ \/ paddle[s].state # "canceled" /\ Emit("canceled", s, "canceled", paddle[s].plan)
     \/ (paddle[s].state = "canceled" \/ ~scope.ordered) /\ UNCHANGED <<paddle, log>>
  /\ Step(r, "replace")
  /\ UNCHANGED <<acked, row, processed, crashes, scope>>

\* ... and writes the new one.
Replace(r) ==
  LET e == EventOf(r) IN
  /\ At(r, "replace")
  /\ row' = [plan |-> e.plan, status |-> "ACTIVE", paddle |-> e.sub]
  /\ Step(r, "handled")
  /\ UNCHANGED <<paddle, log, acked, processed, crashes, scope>>

Mark(r) ==
  /\ At(r, "handled")
  /\ processed' = processed \cup {EventId(EventOf(r))}
  /\ acked' = acked \cup {requests[r].event}
  /\ Go(r, Idle)
  /\ UNCHANGED <<paddle, log, row, crashes, scope>>

\* The process dies or a statement fails: no 200, no processed mark.
Crash(r) ==
  /\ ~At(r, "idle") /\ crashes < MaxCrashes
  /\ crashes' = crashes + 1
  /\ Go(r, Idle)
  /\ UNCHANGED <<paddle, log, acked, row, processed, scope>>

-----------------------------------------------------------------------------
Continue(r) ==
  Find(r) \/ Write(r) \/ ReadExisting(r) \/ CancelExisting(r) \/ Replace(r) \/ Mark(r)

Next ==
  \/ \E s \in Subs : \/ \E plan \in Paid : Purchase(s, plan) \/ ChangePlan(s, plan)
                     \/ Pause(s) \/ Resume(s) \/ Cancel(s)
  \/ \E r \in Requests : Continue(r) \/ Crash(r) \/ \E i \in Positions : Deliver(r, i)

\* Paddle repeats webhooks that are not acknowledged, and handlers make progress.
Fairness ==
  /\ WF_vars(\E r \in Requests, i \in Positions \ acked : Deliver(r, i))
  /\ \A r \in Requests : WF_vars(Continue(r))

Spec == Init /\ [][Next]_vars /\ Fairness

-----------------------------------------------------------------------------
Live == {s \in Subs : paddle[s].state \in {"active", "paused"}}

Settled == acked = DOMAIN log /\ \A r \in Requests : At(r, "idle")

\* Deliveries in order, repeated after any crash: once all are acknowledged the
\* user pays for at most one subscription and the row says what Paddle says.
FollowsPaddle ==
  scope.ordered /\ scope.once /\ Settled =>
    IF Live = {} THEN row.paddle = NoSub /\ (scope.freePlan => row.plan = Free)
    ELSE /\ Live = {row.paddle}
         /\ row.plan = paddle[row.paddle].plan
         /\ row.status = Status(paddle[row.paddle].state)

\* Every webhook is acknowledged in the end, so that Paddle stops repeating it:
\* also those for a subscription no row names, and those whose handler failed.
EveryWebhookAcknowledged == []<>(acked = DOMAIN log)

\* "Atomic idempotency check": no webhook is handled by two deliveries at once.
HandledOnce ==
  \A r, q \in Requests :
    r # q /\ ~At(r, "idle") /\ ~At(q, "idle") => EventId(EventOf(r)) # EventId(EventOf(q))
=============================================================================
