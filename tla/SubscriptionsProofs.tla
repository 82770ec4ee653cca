------------------------- MODULE SubscriptionsProofs -------------------------
(***************************************************************************)
(* Proofs about Subscriptions, for any number of subscriptions, plans,     *)
(* webhooks and crashes.                                                   *)
(***************************************************************************)
EXTENDS Subscriptions, WellFoundedInduction, TLAPS

Types == {"activated", "updated", "paused", "resumed", "canceled"}
Plans == Paid \cup {CHOOSE p \in Paid : TRUE}
Event == [type : Types, sub : Subs, plan : Plans, status : {"ACTIVE", "CANCELLED"}]
Steps == {"received", "found", "existing", "replace", "handled"}

TypeInv ==
  /\ paddle \in [Subs -> [state : {"none", "active", "paused", "canceled"}, plan : Plans]]
  /\ log \in Seq(Event)
  /\ acked \subseteq DOMAIN log
  /\ row \in [plan : Plans \cup {Free}, status : {"ACTIVE", "CANCELLED"}, paddle : Subs \cup {NoSub}]
  /\ requests \in [Requests -> [at : Steps \cup {"idle"}, event : Nat, seen : Subs \cup {NoSub}]]
  /\ scope \in Scopes
  /\ \A r \in Requests :
       LET q == requests[r] IN
       /\ q.at # "idle" => q.event \in DOMAIN log
       /\ q.at = "found" => EventOf(r).type # "activated"
       /\ q.at \in {"existing", "replace"} => EventOf(r).type = "activated"
       /\ q.at = "existing" => q.seen \in Subs \ {EventOf(r).sub}

-----------------------------------------------------------------------------
(* What Paddle reports                                                       *)

\* The last webhook of a subscription among the first m of a log.
LastOf(g, l, m) == l \in 1..m /\ \A k \in 1..m : g[k].sub = g[l].sub => k <= l

\* The log tells what Paddle did: an activation comes first, the last webhook has the
\* subscription's state, and a pause or a resumption has the plan of the webhook before it.
LogTells ==
  /\ \A s \in Subs :
       /\ paddle[s].state = "none" => \A i \in DOMAIN log : log[i].sub # s
       /\ paddle[s].state # "none" => \E i \in DOMAIN log : log[i].type = "activated" /\ log[i].sub = s
       /\ paddle[s].state = "canceled" => \E i \in DOMAIN log : log[i].type = "canceled" /\ log[i].sub = s
  /\ \A l \in DOMAIN log :
       /\ log[l].type = "canceled" => paddle[log[l].sub].state = "canceled"
       /\ LastOf(log, l, Len(log)) =>
            /\ log[l].plan = paddle[log[l].sub].plan
            /\ log[l].status = Status(paddle[log[l].sub].state)
       /\ log[l].type = "activated" =>
            /\ log[l].status = "ACTIVE"
            /\ \A k \in DOMAIN log : log[k].sub = log[l].sub => l <= k
       /\ log[l].type = "paused" => log[l].status = "CANCELLED"
       /\ log[l].type = "resumed" => log[l].status = "ACTIVE"
       /\ log[l].type \in {"paused", "resumed"} =>
            \A k \in 1..(l - 1) : log[k].sub = log[l].sub /\ LastOf(log, k, l - 1) => log[k].plan = log[l].plan

\* No two webhooks have the same event id.
IdsDiffer == \A i, j \in DOMAIN log : EventId(log[i]) = EventId(log[j]) => i = j

\* A subscription that the row names, or a handler has read there, was activated once.
NamedExist ==
  /\ row.paddle \in Subs => paddle[row.paddle].state # "none"
  /\ \A r \in Requests : At(r, "existing") => paddle[requests[r].seen].state # "none"

LogInv == LogTells /\ NamedExist /\ (scope.once => IdsDiffer)

-----------------------------------------------------------------------------
(* What the row says of it                                                   *)

\* The row is as the first m webhooks leave it: it names the subscription that was
\* activated last, unless that was canceled, with what was reported last of it; those
\* activated before are canceled at Paddle.
Reflects(m) ==
  /\ m \in 0..Len(log)
  /\ \A a \in 1..m : log[a].type = "activated" /\ log[a].sub # row.paddle
                       => paddle[log[a].sub].state = "canceled"
  /\ row.paddle \in Subs => \E a \in 1..m : log[a].type = "activated" /\ log[a].sub = row.paddle
  /\ \A i \in 1..m : log[i].type = "canceled" => log[i].sub # row.paddle
  /\ \A l \in 1..m : log[l].sub = row.paddle /\ LastOf(log, l, m) =>
       row.plan = log[l].plan /\ row.status = log[l].status
  /\ row.paddle = NoSub /\ scope.freePlan => row.plan = Free

\* In order: a prefix is acknowledged, only the next webhook is in flight, and the row
\* reflects the prefix, or that webhook as well when its handler died after the write.
InOrder(n) ==
  /\ acked = 1..n
  /\ processed = {EventId(log[i]) : i \in acked}
  /\ Reflects(n) \/ Reflects(n + 1)
  /\ \A r, q \in Requests : ~At(r, "idle") /\ ~At(q, "idle") => r = q
  /\ \A r \in Requests :
       /\ ~At(r, "idle") => requests[r].event = n + 1
       /\ At(r, "found") => row.paddle = EventOf(r).sub
       /\ At(r, "existing") => row.paddle = requests[r].seen
       /\ At(r, "replace") /\ row.paddle \in Subs \ {EventOf(r).sub} =>
            paddle[row.paddle].state = "canceled"
       /\ At(r, "handled") => Reflects(n + 1)

OrderInv == scope.ordered /\ scope.once => \E n \in 0..Len(log) : InOrder(n)

-----------------------------------------------------------------------------
(* Paddle's steps                                                            *)

Emission(type, s, state, plan) ==
  /\ <<type, state>> \in {<<"activated", "active">>, <<"updated", "active">>, <<"paused", "paused">>,
                          <<"resumed", "active">>, <<"canceled", "canceled">>}
  /\ IF type = "activated" THEN paddle[s].state = "none" ELSE paddle[s].state \in {"active", "paused"}
  /\ type \in {"paused", "resumed"} => plan = paddle[s].plan
  /\ Emit(type, s, state, plan)

EventFor(type, s, state, plan) == [type |-> type, sub |-> s, plan |-> plan, status |-> Status(state)]

LEMMA Emitted1 ==
  ASSUME TypeInv, NEW type, NEW s \in Subs, NEW state, NEW plan \in Plans,
         Emission(type, s, state, plan)
  PROVE  LET e == EventFor(type, s, state, plan)
             n == Len(log) + 1
         IN  /\ e \in Event /\ e.type = type /\ e.sub = s /\ e.plan = plan /\ e.status = Status(state)
             /\ log' \in Seq(Event) /\ Len(log) \in Nat /\ Len(log') = n
             /\ DOMAIN log = 1..Len(log) /\ DOMAIN log' = 1..n
             /\ \A i \in 1..Len(log) : log'[i] = log[i]
             /\ log'[n] = e
             /\ paddle' \in [Subs -> [state : {"none", "active", "paused", "canceled"}, plan : Plans]]
             /\ paddle'[s].state = state /\ paddle'[s].plan = plan
             /\ \A t \in Subs \ {s} : paddle'[t] = paddle[t]
<1> DEFINE e == EventFor(type, s, state, plan)
<1>1. e \in Event /\ e.type = type /\ e.sub = s /\ e.plan = plan /\ e.status = Status(state)
  BY DEF EventFor, Event, Emission, Status, Types
<1>2. log \in Seq(Event) /\ log' = Append(log, e)
  BY DEF TypeInv, Emission, Emit, EventFor
<1> HIDE DEF e
<1>3. /\ log' \in Seq(Event) /\ Len(log) \in Nat /\ Len(log') = Len(log) + 1
      /\ DOMAIN log = 1..Len(log) /\ DOMAIN log' = 1..(Len(log) + 1)
      /\ \A i \in 1..Len(log) : log'[i] = log[i]
      /\ log'[Len(log) + 1] = e
  BY <1>1, <1>2
<1>4. [state |-> state, plan |-> plan] \in [state : {"none", "active", "paused", "canceled"}, plan : Plans]
  BY DEF Emission
<1>5. /\ paddle' \in [Subs -> [state : {"none", "active", "paused", "canceled"}, plan : Plans]]
      /\ paddle'[s].state = state /\ paddle'[s].plan = plan
      /\ \A t \in Subs \ {s} : paddle'[t] = paddle[t]
  BY <1>4 DEF TypeInv, Emission, Emit
<1> QED BY <1>1, <1>3, <1>5 DEF e

\* The webhook that is appended is the last one of its subscription.
LEMMA EmitTells ==
  ASSUME TypeInv, LogTells, NEW type, NEW s \in Subs, NEW state, NEW plan \in Plans,
         Emission(type, s, state, plan)
  PROVE  LogTells'
<1> DEFINE n == Len(log) + 1
<1>1. /\ Len(log) \in Nat /\ Len(log') = n
      /\ DOMAIN log = 1..Len(log) /\ DOMAIN log' = 1..n
      /\ \A i \in 1..Len(log) : log'[i] = log[i] /\ log[i] \in Event
      /\ log'[n].type = type /\ log'[n].sub = s /\ log'[n].plan = plan /\ log'[n].status = Status(state)
      /\ paddle'[s].state = state /\ paddle'[s].plan = plan
      /\ \A t \in Subs \ {s} : paddle'[t] = paddle[t]
  <2> DEFINE e == EventFor(type, s, state, plan)
  <2>1. /\ e.type = type /\ e.sub = s /\ e.plan = plan /\ e.status = Status(state)
        /\ Len(log) \in Nat /\ Len(log') = n
        /\ DOMAIN log = 1..Len(log) /\ DOMAIN log' = 1..n
        /\ \A i \in 1..Len(log) : log'[i] = log[i]
        /\ log'[n] = e
        /\ paddle'[s].state = state /\ paddle'[s].plan = plan
        /\ \A t \in Subs \ {s} : paddle'[t] = paddle[t]
    BY Emitted1
  <2> HIDE DEF e
  <2>2. \A i \in 1..Len(log) : log[i] \in Event
    BY DEF TypeInv
  <2> QED BY <2>1, <2>2
<1>2. /\ <<type, state>> \in {<<"activated", "active">>, <<"updated", "active">>, <<"paused", "paused">>,
                              <<"resumed", "active">>, <<"canceled", "canceled">>}
      /\ IF type = "activated" THEN paddle[s].state = "none" ELSE paddle[s].state \in {"active", "paused"}
      /\ type \in {"paused", "resumed"} => plan = paddle[s].plan
  BY DEF Emission
<1>3. ASSUME NEW t \in Subs
      PROVE  /\ paddle'[t].state = "none" => \A i \in DOMAIN log' : log'[i].sub # t
             /\ paddle'[t].state # "none" =>
                  \E i \in DOMAIN log' : log'[i].type = "activated" /\ log'[i].sub = t
             /\ paddle'[t].state = "canceled" =>
                  \E i \in DOMAIN log' : log'[i].type = "canceled" /\ log'[i].sub = t
  <2>1. CASE t = s
    <3>1. n \in DOMAIN log' /\ log'[n].sub = t /\ log'[n].type = type /\ paddle'[t].state = state
      BY <1>1, <2>1
    <3>2. type # "activated" => \E i \in DOMAIN log : log[i].type = "activated" /\ log[i].sub = t
      BY <1>2, <2>1 DEF LogTells
    <3> QED BY <1>1, <1>2, <3>1, <3>2
  <2>2. CASE t # s
    <3>1. paddle'[t] = paddle[t]
      BY <1>1, <2>2
    <3>2. \A i \in DOMAIN log' : log'[i].sub = t => i \in DOMAIN log /\ log'[i] = log[i]
      BY <1>1, <2>2
    <3>3. \A i \in DOMAIN log : i \in DOMAIN log' /\ log'[i] = log[i]
      BY <1>1
    <3> QED BY <3>1, <3>2, <3>3 DEF LogTells
  <2> QED BY <2>1, <2>2
<1>4. ASSUME NEW l \in 1..n, NEW m \in 1..Len(log)
      PROVE  LastOf(log', l, m) <=> l \in 1..m /\ LastOf(log, l, m)
  <2>1. \A k \in 1..m : log'[k] = log[k]
    BY <1>1
  <2> QED BY <2>1 DEF LastOf
<1>5. ASSUME NEW l \in 1..Len(log)
      PROVE  /\ log[l].type = "canceled" => paddle'[log[l].sub].state = "canceled"
             /\ LastOf(log', l, n) => /\ log[l].plan = paddle'[log[l].sub].plan
                                 /\ log[l].status = Status(paddle'[log[l].sub].state)
             /\ log[l].type = "activated" =>
                  /\ log[l].status = "ACTIVE"
                  /\ \A k \in 1..n : log'[k].sub = log[l].sub => l <= k
             /\ log[l].type = "paused" => log[l].status = "CANCELLED"
             /\ log[l].type = "resumed" => log[l].status = "ACTIVE"
  <2>1. log[l].sub \in Subs
    BY <1>1 DEF Event
  <2>2. log[l].type = "canceled" => paddle[log[l].sub].state = "canceled"
    BY <1>1 DEF LogTells
  <2>3. log[l].type = "canceled" => paddle'[log[l].sub].state = "canceled"
    <3>1. log[l].sub = s => paddle[s].state # "none"
      BY <1>1 DEF LogTells
    <3> QED BY <1>1, <1>2, <2>1, <2>2, <3>1
  <2>4. ASSUME LastOf(log', l, n)
        PROVE  log[l].plan = paddle'[log[l].sub].plan /\ log[l].status = Status(paddle'[log[l].sub].state)
    <3>1. log[l].sub # s
      BY <1>1, <2>4 DEF LastOf
    <3>2. LastOf(log, l, Len(log))
      BY <1>1, <2>4 DEF LastOf
    <3> QED BY <1>1, <2>1, <3>1, <3>2 DEF LogTells
  <2>5. log[l].type = "activated" =>
                  /\ log[l].status = "ACTIVE"
                  /\ \A k \in 1..n : log'[k].sub = log[l].sub => l <= k
    <3>1. \A k \in 1..n : k \in 1..Len(log) \/ k = n
      BY <1>1
    <3>2. l <= n
      BY <1>1
    <3> QED BY <1>1, <3>1, <3>2 DEF LogTells
  <2> QED BY <1>1, <2>3, <2>4, <2>5 DEF LogTells
<1>6. ASSUME NEW l \in 1..Len(log), log[l].type \in {"paused", "resumed"}, NEW k \in 1..(l - 1),
             log[k].sub = log[l].sub, LastOf(log', k, l - 1)
      PROVE  log[k].plan = log[l].plan
  <2>1. LastOf(log, k, l - 1)
    <3>1. \A j \in 1..(l - 1) : log'[j] = log[j]
      BY <1>1
    <3> QED BY <1>6, <3>1 DEF LastOf
  <2> QED BY <1>1, <1>6, <2>1 DEF LogTells
<1>7. /\ type = "canceled" => paddle'[s].state = "canceled"
      /\ plan = paddle'[s].plan /\ Status(state) = Status(paddle'[s].state)
      /\ type = "activated" => Status(state) = "ACTIVE" /\ \A k \in 1..n : log'[k].sub = s => n <= k
      /\ type = "paused" => Status(state) = "CANCELLED"
      /\ type = "resumed" => Status(state) = "ACTIVE"
  <2>1. type = "activated" => \A k \in 1..Len(log) : log[k].sub # s
    BY <1>1, <1>2 DEF LogTells
  <2>2. \A k \in 1..n : k \in 1..Len(log) \/ k = n
    BY <1>1
  <2> QED BY <1>1, <1>2, <2>1, <2>2 DEF Status
<1>8. ASSUME type \in {"paused", "resumed"}, NEW k \in 1..(n - 1), log'[k].sub = s, LastOf(log', k, n - 1)
      PROVE  log'[k].plan = plan
  <2>1. n - 1 = Len(log) /\ k \in 1..Len(log) /\ log'[k] = log[k]
    BY <1>1, <1>8
  <2>2. LastOf(log, k, Len(log))
    BY <1>1, <1>8, <2>1 DEF LastOf
  <2> QED BY <1>1, <1>2, <1>8, <2>1, <2>2 DEF LogTells
<1> HIDE DEF n
<1>9. ASSUME NEW l \in 1..n PROVE l \in 1..Len(log) \/ l = n
  BY <1>1 DEF n
<1>10. LogTells' <=>
        /\ \A t \in Subs :
             /\ paddle'[t].state = "none" => \A i \in DOMAIN log' : log'[i].sub # t
             /\ paddle'[t].state # "none" =>
                  \E i \in DOMAIN log' : log'[i].type = "activated" /\ log'[i].sub = t
             /\ paddle'[t].state = "canceled" =>
                  \E i \in DOMAIN log' : log'[i].type = "canceled" /\ log'[i].sub = t
        /\ \A l \in 1..n :
             /\ log'[l].type = "canceled" => paddle'[log'[l].sub].state = "canceled"
             /\ LastOf(log', l, n) =>
                  /\ log'[l].plan = paddle'[log'[l].sub].plan
                  /\ log'[l].status = Status(paddle'[log'[l].sub].state)
             /\ log'[l].type = "activated" =>
                  /\ log'[l].status = "ACTIVE"
                  /\ \A k \in 1..n : log'[k].sub = log'[l].sub => l <= k
             /\ log'[l].type = "paused" => log'[l].status = "CANCELLED"
             /\ log'[l].type = "resumed" => log'[l].status = "ACTIVE"
             /\ log'[l].type \in {"paused", "resumed"} =>
                  \A k \in 1..(l - 1) : log'[k].sub = log'[l].sub /\ LastOf(log', k, l - 1)
                                          => log'[k].plan = log'[l].plan
  BY <1>1 DEF LogTells
<1>11. \A l \in 1..Len(log) : log'[l] = log[l] /\ \A k \in 1..(l - 1) : log'[k] = log[k]
  BY <1>1
<1> QED BY <1>1, <1>3, <1>5, <1>6, <1>7, <1>8, <1>9, <1>10, <1>11

-----------------------------------------------------------------------------
(* Every step, as the log sees it                                            *)

LogStays == UNCHANGED <<paddle, log>>

LogExtends ==
  \E type \in Types, s \in Subs, state \in {"active", "paused", "canceled"}, plan \in Plans :
    Emission(type, s, state, plan) /\ (scope.once => ~Emitted(type, s))

LEMMA PaddleStep ==
  ASSUME TypeInv, LogTells, NamedExist, [Next]_vars
  PROVE  LogStays \/ LogExtends
<1>1. ASSUME NEW s \in Subs, NEW plan \in Paid, Purchase(s, plan) PROVE LogExtends
  <2>1. plan \in Plans /\ paddle[s].state = "none"
    BY <1>1 DEF Plans, Purchase
  <2>2. Emit("activated", s, "active", plan) /\ (scope.once => ~Emitted("activated", s))
    BY <1>1 DEF Purchase, Report
  <2> QED BY <2>1, <2>2 DEF LogExtends, Emission, Types
<1>2. ASSUME NEW s \in Subs, NEW plan \in Paid, ChangePlan(s, plan) PROVE LogExtends
  <2>1. plan \in Plans /\ paddle[s].state = "active"
    BY <1>2 DEF Plans, ChangePlan
  <2>2. Emit("updated", s, "active", plan) /\ (scope.once => ~Emitted("updated", s))
    BY <1>2 DEF ChangePlan, Report
  <2> QED BY <2>1, <2>2 DEF LogExtends, Emission, Types
<1>3. ASSUME NEW s \in Subs PROVE paddle[s].plan \in Plans
  BY DEF TypeInv
<1>4. ASSUME NEW s \in Subs, Pause(s) PROVE LogExtends
  <2>1. paddle[s].state = "active"
    BY <1>4 DEF Pause
  <2>2. Emit("paused", s, "paused", paddle[s].plan) /\ (scope.once => ~Emitted("paused", s))
    BY <1>4 DEF Pause, Report
  <2> QED BY <1>3, <2>1, <2>2 DEF LogExtends, Emission, Types
<1>5. ASSUME NEW s \in Subs, Resume(s) PROVE LogExtends
  <2>1. paddle[s].state = "paused"
    BY <1>5 DEF Resume
  <2>2. Emit("resumed", s, "active", paddle[s].plan) /\ (scope.once => ~Emitted("resumed", s))
    BY <1>5 DEF Resume, Report
  <2> QED BY <1>3, <2>1, <2>2 DEF LogExtends, Emission, Types
<1>6. ASSUME NEW s \in Subs, Cancel(s) PROVE LogExtends
  <2>1. paddle[s].state \in {"active", "paused"}
    BY <1>6 DEF Cancel
  <2>2. Emit("canceled", s, "canceled", paddle[s].plan) /\ (scope.once => ~Emitted("canceled", s))
    BY <1>6 DEF Cancel, Report
  <2> QED BY <1>3, <2>1, <2>2 DEF LogExtends, Emission, Types
<1>7. ASSUME NEW r \in Requests, CancelExisting(r) PROVE LogStays \/ LogExtends
  <2> DEFINE s == requests[r].seen
  <2>1. s \in Subs /\ paddle[s].state # "none"
    BY <1>7 DEF TypeInv, NamedExist, CancelExisting, At
  <2>2. CASE paddle[s].state # "canceled" /\ Emit("canceled", s, "canceled", paddle[s].plan)
    <3>1. paddle[s].state \in {"active", "paused"}
      BY <2>1, <2>2 DEF TypeInv
    <3>2. ~Emitted("canceled", s)
      BY <2>2 DEF Emitted, LogTells
    <3> HIDE DEF s
    <3> QED BY <1>3, <2>1, <2>2, <3>1, <3>2 DEF LogExtends, Emission, Types
  <2>3. CASE UNCHANGED <<paddle, log>>
    BY <2>3 DEF LogStays
  <2> QED BY <1>7, <2>2, <2>3 DEF CancelExisting
<1>8. ASSUME NEW r \in Requests, Find(r) \/ Write(r) \/ ReadExisting(r) \/ Replace(r) \/ Mark(r) \/ Crash(r)
      PROVE  LogStays
  BY <1>8 DEF LogStays, Find, Write, ReadExisting, Replace, Mark, Crash
<1>9. ASSUME NEW r \in Requests, NEW i \in Positions, Deliver(r, i) PROVE LogStays
  BY <1>9 DEF LogStays, Deliver
<1>10. CASE UNCHANGED vars
  BY <1>10 DEF LogStays, vars
<1> QED BY <1>1, <1>2, <1>4, <1>5, <1>6, <1>7, <1>8, <1>9, <1>10 DEF Next, Continue

\* What no step undoes.
Kept ==
  /\ log' \in Seq(Event) /\ Len(log) \in Nat /\ Len(log') \in Nat /\ Len(log) <= Len(log')
  /\ DOMAIN log = 1..Len(log) /\ DOMAIN log' = 1..Len(log')
  /\ \A i \in DOMAIN log : i \in DOMAIN log' /\ log'[i] = log[i] /\ log[i] \in Event
  /\ paddle' \in [Subs -> [state : {"none", "active", "paused", "canceled"}, plan : Plans]]
  /\ \A s \in Subs : /\ paddle[s].state # "none" => paddle'[s].state # "none"
                     /\ paddle[s].state = "canceled" => paddle'[s].state = "canceled"

LEMMA StepKeeps ==
  ASSUME TypeInv, LogTells, NamedExist, [Next]_vars
  PROVE  Kept
<1>1. log \in Seq(Event) /\ Len(log) \in Nat /\ DOMAIN log = 1..Len(log) /\ \A i \in DOMAIN log : log[i] \in Event
  BY DEF TypeInv
<1>2. CASE LogStays
  BY <1>1, <1>2 DEF LogStays, Kept, TypeInv
<1>3. CASE LogExtends
  <2>1. PICK type \in Types, s \in Subs, state \in {"active", "paused", "canceled"}, plan \in Plans :
          Emission(type, s, state, plan)
    BY <1>3 DEF LogExtends
  <2>2. /\ log' \in Seq(Event) /\ Len(log') = Len(log) + 1
        /\ DOMAIN log' = 1..(Len(log) + 1)
        /\ \A i \in 1..Len(log) : log'[i] = log[i]
        /\ paddle' \in [Subs -> [state : {"none", "active", "paused", "canceled"}, plan : Plans]]
        /\ paddle'[s].state = state
        /\ \A t \in Subs \ {s} : paddle'[t] = paddle[t]
    BY <2>1, Emitted1
  <2>3. \A t \in Subs : /\ paddle[t].state # "none" => paddle'[t].state # "none"
                        /\ paddle[t].state = "canceled" => paddle'[t].state = "canceled"
    BY <2>1, <2>2 DEF Emission
  <2>4. Len(log) <= Len(log') /\ Len(log') \in Nat /\ \A i \in DOMAIN log : i \in DOMAIN log'
    BY <1>1, <2>2
  <2> QED BY <1>1, <2>2, <2>3, <2>4 DEF Kept
<1> QED BY <1>2, <1>3, PaddleStep

-----------------------------------------------------------------------------
(* Types                                                                     *)

LEMMA InitInvs == Init => TypeInv /\ LogInv /\ OrderInv
<1> SUFFICES ASSUME Init PROVE TypeInv /\ LogInv /\ OrderInv
  OBVIOUS
<1>1. Len(log) = 0 /\ DOMAIN log = {} /\ log \in Seq(Event) /\ row.paddle = NoSub /\ NoSub \notin Subs
  BY SubscriptionsAssumption DEF Init
<1>2. TypeInv
  <2>1. paddle \in [Subs -> [state : {"none", "active", "paused", "canceled"}, plan : Plans]]
    BY DEF Init, Plans
  <2>2. row \in [plan : Plans \cup {Free}, status : {"ACTIVE", "CANCELLED"}, paddle : Subs \cup {NoSub}]
    BY DEF Init
  <2>3. requests \in [Requests -> [at : Steps \cup {"idle"}, event : Nat, seen : Subs \cup {NoSub}]]
    BY DEF Init, Idle
  <2>4. \A r \in Requests : requests[r].at = "idle"
    BY DEF Init, Idle
  <2> QED BY <1>1, <2>1, <2>2, <2>3, <2>4 DEF Init, TypeInv
<1>3. LogInv
  BY <1>1 DEF Init, LogInv, LogTells, NamedExist, IdsDiffer, At, Idle
<1>4. OrderInv
  <2>1. Reflects(0)
    BY <1>1 DEF Reflects, Init
  <2>2. \A r \in Requests : requests[r].at = "idle"
    BY DEF Init, Idle
  <2>3. acked = 1..0 /\ processed = {EventId(log[i]) : i \in acked}
    BY DEF Init
  <2> QED BY <1>1, <2>1, <2>2, <2>3 DEF InOrder, OrderInv, At
<1> QED BY <1>2, <1>3, <1>4

\* A handler of a webhook keeps it in every step but its last.
LEMMA HandlerTypes ==
  ASSUME TypeInv, LogTells, NamedExist, [Next]_vars
  PROVE  /\ requests' \in [Requests -> [at : Steps \cup {"idle"}, event : Nat, seen : Subs \cup {NoSub}]]
         /\ \A r \in Requests :
              LET q == requests'[r]
                  e == log'[q.event]
              IN /\ q.at # "idle" => q.event \in DOMAIN log'
                 /\ q.at = "found" => e.type # "activated"
                 /\ q.at \in {"existing", "replace"} => e.type = "activated"
                 /\ q.at = "existing" => q.seen \in Subs \ {e.sub}
<1> DEFINE Q == [at : Steps \cup {"idle"}, event : Nat, seen : Subs \cup {NoSub}]
           Fits(q) == /\ q.at # "idle" => q.event \in DOMAIN log'
                      /\ q.at = "found" => log'[q.event].type # "activated"
                      /\ q.at \in {"existing", "replace"} => log'[q.event].type = "activated"
                      /\ q.at = "existing" => q.seen \in Subs \ {log'[q.event].sub}
<1>1. Kept
  BY StepKeeps
<1>2. requests \in [Requests -> Q]
  BY DEF TypeInv
<1>3. ASSUME NEW r \in Requests PROVE requests[r] \in Q /\ Fits(requests[r])
  BY <1>1, <1>3 DEF TypeInv, Kept, EventOf
<1>4. Idle \in Q /\ Fits(Idle)
  BY DEF Idle
<1>5. ASSUME NEW r \in Requests, NEW q, Go(r, q), q \in Q, Fits(q)
      PROVE  requests' \in [Requests -> Q] /\ \A p \in Requests : Fits(requests'[p])
  <2>1. requests' = [requests EXCEPT ![r] = q]
    BY <1>5 DEF Go
  <2>2. requests' \in [Requests -> Q]
    BY <1>2, <1>5, <2>1
  <2>3. ASSUME NEW p \in Requests PROVE Fits(requests'[p])
    <3>1. requests'[p] = IF p = r THEN q ELSE requests[p]
      BY <1>2, <2>1
    <3> QED BY <1>3, <1>5, <3>1
  <2> QED BY <2>2, <2>3
<1>6. ASSUME requests' = requests
      PROVE  requests' \in [Requests -> Q] /\ \A p \in Requests : Fits(requests'[p])
  BY <1>2, <1>3, <1>6
<1>7. ASSUME NEW r \in Requests, NEW at \in Steps, requests[r].at # "idle",
             at = "found" => EventOf(r).type # "activated",
             at \in {"existing", "replace"} => EventOf(r).type = "activated",
             at # "existing", Go(r, [requests[r] EXCEPT !.at = at])
      PROVE  requests' \in [Requests -> Q] /\ \A p \in Requests : Fits(requests'[p])
  <2> DEFINE q == [requests[r] EXCEPT !.at = at]
  <2>1. q \in Q /\ q.at = at /\ q.event = requests[r].event /\ q.seen = requests[r].seen
    BY <1>2
  <2>2. requests[r].event \in DOMAIN log /\ log'[requests[r].event] = EventOf(r)
        /\ requests[r].event \in DOMAIN log'
    BY <1>1, <1>7 DEF TypeInv, Kept, EventOf
  <2> HIDE DEF q
  <2>3. Fits(q)
    BY <1>7, <2>1, <2>2
  <2> QED BY <1>5, <1>7, <2>1, <2>3 DEF q
<1>8. ASSUME NEW r \in Requests, Continue(r) \/ Crash(r)
      PROVE  requests' \in [Requests -> Q] /\ \A p \in Requests : Fits(requests'[p])
  <2> USE DEF Steps, At, Step
  <2>1. CASE Find(r)
    <3> DEFINE at == IF row.paddle = EventOf(r).sub THEN "found" ELSE "handled"
    <3>1. Go(r, [requests[r] EXCEPT !.at = at]) /\ requests[r].at = "received" /\ EventOf(r).type # "activated"
      BY <2>1 DEF Find
    <3> QED BY <1>7, <3>1
  <2>2. CASE Write(r)
    <3>1. Go(r, [requests[r] EXCEPT !.at = "handled"]) /\ requests[r].at = "found"
      BY <2>2 DEF Write
    <3> QED BY <1>7, <3>1
  <2>3. CASE ReadExisting(r)
    <3> DEFINE at == IF row.paddle \in Subs \ {EventOf(r).sub} THEN "existing" ELSE "replace"
               q == [requests[r] EXCEPT !.seen = row.paddle, !.at = at]
    <3>1. Go(r, q) /\ requests[r].at = "received" /\ EventOf(r).type = "activated"
      BY <2>3 DEF ReadExisting
    <3>2. row.paddle \in Subs \cup {NoSub}
      BY DEF TypeInv
    <3>3. q \in Q /\ q.at = at /\ q.event = requests[r].event /\ q.seen = row.paddle
      BY <1>2, <3>2
    <3>4. log'[requests[r].event] = EventOf(r) /\ requests[r].event \in DOMAIN log'
      BY <1>1, <3>1 DEF TypeInv, Kept, EventOf
    <3> HIDE DEF q
    <3>5. Fits(q)
      BY <3>1, <3>3, <3>4
    <3> QED BY <1>5, <3>1, <3>3, <3>5
  <2>4. CASE CancelExisting(r)
    <3>1. Go(r, [requests[r] EXCEPT !.at = "replace"]) /\ requests[r].at = "existing"
      BY <2>4 DEF CancelExisting
    <3>2. EventOf(r).type = "activated"
      BY <3>1 DEF TypeInv
    <3> QED BY <1>7, <3>1, <3>2
  <2>5. CASE Replace(r)
    <3>1. Go(r, [requests[r] EXCEPT !.at = "handled"]) /\ requests[r].at = "replace"
      BY <2>5 DEF Replace
    <3> QED BY <1>7, <3>1
  <2>6. CASE Mark(r) \/ Crash(r)
    <3>1. Go(r, Idle)
      BY <2>6 DEF Mark, Crash
    <3> QED BY <1>4, <1>5, <3>1
  <2> QED BY <1>8, <2>1, <2>2, <2>3, <2>4, <2>5, <2>6 DEF Continue
<1>9. ASSUME NEW r \in Requests, NEW i \in Positions, Deliver(r, i)
      PROVE  requests' \in [Requests -> Q] /\ \A p \in Requests : Fits(requests'[p])
  <2>1. CASE requests' = requests
    BY <1>6, <2>1
  <2>2. CASE Go(r, [Idle EXCEPT !.at = "received", !.event = i])
    <3> DEFINE q == [Idle EXCEPT !.at = "received", !.event = i]
    <3>1. i \in DOMAIN log /\ i \in DOMAIN log' /\ i \in Nat
      BY <1>1, <1>9 DEF Deliver, Kept
    <3>2. q \in Q /\ q.at = "received" /\ q.event = i
      BY <3>1 DEF Idle, Steps
    <3> HIDE DEF q
    <3>3. Fits(q)
      BY <3>1, <3>2
    <3> QED BY <1>5, <2>2, <3>2, <3>3 DEF q
  <2> QED BY <1>9, <2>1, <2>2 DEF Deliver
<1>10. ASSUME NEW s \in Subs, (\E plan \in Paid : Purchase(s, plan) \/ ChangePlan(s, plan))
                               \/ Pause(s) \/ Resume(s) \/ Cancel(s)
       PROVE  requests' = requests
  BY <1>10 DEF Purchase, ChangePlan, Pause, Resume, Cancel, Report
<1>11. CASE UNCHANGED vars
  BY <1>6, <1>11 DEF vars
<1>12. requests' \in [Requests -> Q] /\ \A p \in Requests : Fits(requests'[p])
  BY <1>6, <1>8, <1>9, <1>10, <1>11 DEF Next
<1> QED BY <1>12

LEMMA RowStep ==
  ASSUME TypeInv, [Next]_vars
  PROVE  /\ row' \in [plan : Plans \cup {Free}, status : {"ACTIVE", "CANCELLED"}, paddle : Subs \cup {NoSub}]
         /\ scope' = scope
         /\ row' = row \/ \E r \in Requests : Write(r) \/ Replace(r)
<1> DEFINE R == [plan : Plans \cup {Free}, status : {"ACTIVE", "CANCELLED"}, paddle : Subs \cup {NoSub}]
<1>1. row \in R
  BY DEF TypeInv
<1>2. ASSUME NEW r \in Requests, At(r, "found") \/ At(r, "replace") PROVE EventOf(r) \in Event
  BY <1>2 DEF TypeInv, EventOf, At
<1>3. ASSUME NEW r \in Requests, Write(r) PROVE row' \in R /\ scope' = scope
  <2>1. EventOf(r) \in Event
    BY <1>2, <1>3 DEF Write
  <2>2. ASSUME NEW e \in Event, e.type # "activated" PROVE Written(e) \in R
    BY <1>1, <2>2 DEF TypeInv, Event, Types, Written
  <2>3. EventOf(r).type # "activated"
    BY <1>3 DEF Write, TypeInv, At
  <2>4. Written(EventOf(r)) \in R
    BY <2>1, <2>2, <2>3
  <2> HIDE DEF R
  <2> QED BY <1>3, <2>4 DEF Write
<1>4. ASSUME NEW r \in Requests, Replace(r) PROVE row' \in R /\ scope' = scope
  <2>1. EventOf(r) \in Event
    BY <1>2, <1>4 DEF Replace
  <2> QED BY <1>4, <2>1 DEF Replace, Event
<1>5. ASSUME NEW r \in Requests, Find(r) \/ ReadExisting(r) \/ CancelExisting(r) \/ Mark(r) \/ Crash(r)
      PROVE  row' = row /\ scope' = scope
  BY <1>5 DEF Find, ReadExisting, CancelExisting, Mark, Crash
<1>6. ASSUME NEW r \in Requests, NEW i \in Positions, Deliver(r, i) PROVE row' = row /\ scope' = scope
  BY <1>6 DEF Deliver
<1>7. ASSUME NEW s \in Subs, (\E plan \in Paid : Purchase(s, plan) \/ ChangePlan(s, plan))
                               \/ Pause(s) \/ Resume(s) \/ Cancel(s)
      PROVE  row' = row /\ scope' = scope
  BY <1>7 DEF Purchase, ChangePlan, Pause, Resume, Cancel, Report
<1>8. CASE UNCHANGED vars
  BY <1>1, <1>8 DEF vars
<1> QED BY <1>1, <1>3, <1>4, <1>5, <1>6, <1>7, <1>8 DEF Next, Continue

LEMMA TypeStep ==
  ASSUME TypeInv, LogTells, NamedExist, [Next]_vars
  PROVE  TypeInv'
<1>1. Kept
  BY StepKeeps
<1>2. acked' \subseteq DOMAIN log'
  <2>1. acked \subseteq DOMAIN log'
    BY <1>1 DEF TypeInv, Kept
  <2>2. ASSUME NEW r \in Requests, Mark(r) PROVE acked' \subseteq DOMAIN log'
    <3>1. requests[r].event \in DOMAIN log'
      BY <1>1, <2>2 DEF TypeInv, Kept, Mark, At
    <3> QED BY <2>1, <2>2, <3>1 DEF Mark
  <2>3. ASSUME NEW r \in Requests, NEW i \in Positions, Deliver(r, i) PROVE acked' \subseteq DOMAIN log'
    BY <1>1, <2>1, <2>3 DEF Deliver, Kept
  <2>4. ASSUME NEW r \in Requests, Find(r) \/ Write(r) \/ ReadExisting(r) \/ CancelExisting(r) \/ Replace(r) \/ Crash(r)
        PROVE  acked' = acked
    BY <2>4 DEF Find, Write, ReadExisting, CancelExisting, Replace, Crash
  <2>5. ASSUME NEW s \in Subs, (\E plan \in Paid : Purchase(s, plan) \/ ChangePlan(s, plan))
                                 \/ Pause(s) \/ Resume(s) \/ Cancel(s)
        PROVE  acked' = acked
    BY <2>5 DEF Purchase, ChangePlan, Pause, Resume, Cancel, Report
  <2>6. CASE UNCHANGED vars
    BY <2>1, <2>6 DEF vars
  <2> QED BY <2>1, <2>2, <2>3, <2>4, <2>5, <2>6 DEF Next, Continue
<1>3. scope' \in Scopes
  BY RowStep DEF TypeInv
<1> QED BY <1>1, <1>2, <1>3, RowStep, HandlerTypes DEF TypeInv, Kept, EventOf

-----------------------------------------------------------------------------
(* The log                                                                   *)

LEMMA LogStep ==
  ASSUME TypeInv, LogInv, [Next]_vars
  PROVE  LogInv'
<1>1. Kept /\ LogTells /\ NamedExist /\ TypeInv'
  BY StepKeeps, TypeStep DEF LogInv
<1>2. LogTells'
  <2>1. CASE LogStays
    BY <1>1, <2>1 DEF LogStays, LogTells, LastOf
  <2>2. CASE LogExtends
    BY <1>1, <2>2, EmitTells DEF LogExtends
  <2> QED BY <1>1, <2>1, <2>2, PaddleStep
<1>3. scope.once /\ IdsDiffer => IdsDiffer'
  <2> SUFFICES ASSUME scope.once, IdsDiffer PROVE IdsDiffer'
    OBVIOUS
  <2>1. CASE LogStays
    BY <2>1 DEF LogStays, IdsDiffer, EventId
  <2>2. CASE LogExtends
    <3>1. PICK type \in Types, s \in Subs, state \in {"active", "paused", "canceled"}, plan \in Plans :
            Emission(type, s, state, plan) /\ ~Emitted(type, s)
      BY <2>2 DEF LogExtends
    <3> DEFINE n == Len(log) + 1
               e == EventFor(type, s, state, plan)
    <3>2. /\ Len(log) \in Nat /\ DOMAIN log = 1..Len(log) /\ DOMAIN log' = 1..n
          /\ \A i \in 1..Len(log) : log'[i] = log[i]
          /\ e.type = type /\ e.sub = s /\ log'[n] = e
      BY <3>1, Emitted1
    <3> HIDE DEF e
    <3>3. \A i \in DOMAIN log : EventId(log'[i]) # EventId(log'[n])
      BY <3>1, <3>2 DEF Emitted, EventId
    <3>4. \A i \in DOMAIN log' : i \in DOMAIN log \/ i = n
      BY <3>2
    <3> HIDE DEF n
    <3> QED BY <3>2, <3>3, <3>4 DEF IdsDiffer, EventId
  <2> QED BY <1>1, <2>1, <2>2, PaddleStep
<1>4. ASSUME NEW r \in Requests, At(r, "replace") PROVE paddle[EventOf(r).sub].state # "none"
  <2>1. requests[r].event \in DOMAIN log
    BY <1>4 DEF TypeInv, At
  <2>2. EventOf(r) \in Event
    BY <1>1, <2>1 DEF Kept, EventOf
  <2> QED BY <1>1, <2>1, <2>2 DEF Event, EventOf, LogTells
<1>5. (row.paddle \in Subs => paddle[row.paddle].state # "none")'
  <2>1. CASE row' = row
    BY <1>1, <2>1 DEF NamedExist, Kept
  <2>2. ASSUME NEW r \in Requests, Write(r) PROVE row'.paddle \in {row.paddle, NoSub}
    <3>1. EventOf(r) \in Event /\ EventOf(r).type # "activated" /\ row' = Written(EventOf(r))
      BY <1>1, <2>2 DEF TypeInv, Kept, EventOf, At, Write
    <3>2. ASSUME NEW e \in Event, e.type # "activated" PROVE Written(e).paddle \in {row.paddle, NoSub}
      BY <3>2 DEF TypeInv, Event, Types, Written
    <3> QED BY <3>1, <3>2
  <2>3. ASSUME NEW r \in Requests, Replace(r) PROVE row'.paddle = EventOf(r).sub /\ At(r, "replace")
    BY <2>3 DEF Replace
  <2>4. ASSUME NEW r \in Requests, At(r, "replace") PROVE EventOf(r).sub \in Subs
    BY <1>1, <2>4 DEF TypeInv, Kept, Event, EventOf, At
  <2> QED BY <1>1, <1>4, <2>1, <2>2, <2>3, <2>4, RowStep, SubscriptionsAssumption DEF NamedExist, Kept
<1>6. ASSUME NEW r \in Requests, At(r, "existing")' PROVE paddle'[requests'[r].seen].state # "none"
  <2>1. requests \in [Requests -> [at : Steps \cup {"idle"}, event : Nat, seen : Subs \cup {NoSub}]]
    BY DEF TypeInv
  <2>2. \/ requests'[r] = requests[r]
        \/ requests'[r].seen = row.paddle /\ row.paddle \in Subs
    <3>1. ASSUME NEW p \in Requests, Find(p) \/ Write(p) \/ CancelExisting(p) \/ Replace(p) \/ Mark(p) \/ Crash(p)
          PROVE  \E q : requests' = [requests EXCEPT ![p] = q] /\ q.at # "existing"
      <4>1. \A at \in {"found", "handled", "replace"} : [requests[p] EXCEPT !.at = at].at # "existing"
        BY <2>1
      <4> QED BY <3>1, <4>1 DEF Find, Write, CancelExisting, Replace, Mark, Crash, Step, Go, Idle
    <3>2. ASSUME NEW p \in Requests, ReadExisting(p)
          PROVE  \E q : /\ requests' = [requests EXCEPT ![p] = q]
                        /\ q.at = "existing" => q.seen = row.paddle /\ row.paddle \in Subs
      <4> DEFINE q == [requests[p] EXCEPT !.seen = row.paddle,
              !.at = IF row.paddle \in Subs \ {EventOf(p).sub} THEN "existing" ELSE "replace"]
      <4>1. q.at = "existing" => q.seen = row.paddle /\ row.paddle \in Subs
        BY <2>1
      <4>2. requests' = [requests EXCEPT ![p] = q]
        BY <3>2 DEF ReadExisting, Go
      <4> QED BY <4>1, <4>2
    <3>3. ASSUME NEW p \in Requests, NEW i \in Positions, Deliver(p, i)
          PROVE  requests' = requests \/ \E q : requests' = [requests EXCEPT ![p] = q] /\ q.at # "existing"
      <4> DEFINE q == [Idle EXCEPT !.at = "received", !.event = i]
      <4>1. q.at # "existing"
        BY DEF Idle
      <4>2. requests' = requests \/ requests' = [requests EXCEPT ![p] = q]
        BY <3>3 DEF Deliver, Go
      <4> QED BY <4>1, <4>2
    <3>4. ASSUME NEW s \in Subs, (\E plan \in Paid : Purchase(s, plan) \/ ChangePlan(s, plan))
                                   \/ Pause(s) \/ Resume(s) \/ Cancel(s)
          PROVE  requests' = requests
      BY <3>4 DEF Purchase, ChangePlan, Pause, Resume, Cancel, Report
    <3>5. CASE UNCHANGED vars
      BY <3>5 DEF vars
    <3>6. ASSUME NEW p \in Requests, NEW q, requests' = [requests EXCEPT ![p] = q]
          PROVE  requests'[r] = IF r = p THEN q ELSE requests[r]
      BY <2>1, <3>6
    <3> QED BY <1>6, <3>1, <3>2, <3>3, <3>4, <3>5, <3>6 DEF Next, Continue, At
  <2>3. requests[r].at = "existing" => requests[r].seen \in Subs
    BY DEF TypeInv
  <2> QED BY <1>1, <1>6, <2>2, <2>3 DEF NamedExist, Kept, At
<1> QED BY <1>2, <1>3, <1>5, <1>6, RowStep DEF LogInv, NamedExist

-----------------------------------------------------------------------------
(* What the row reflects                                                     *)

\* Of the webhooks of a subscription among the first m there is a last one.
LEMMA LastExists ==
  ASSUME TypeInv, NEW s, NEW m \in 0..Len(log), NEW a \in 1..m, log[a].sub = s
  PROVE  \E l \in 1..m : log[l].sub = s /\ LastOf(log, l, m)
<1> DEFINE S == {m - i : i \in {j \in 1..m : log[j].sub = s}}
<1>1. m \in Nat /\ S \subseteq Nat /\ m - a \in S
  BY DEF TypeInv
<1>2. PICK x \in S : \A y \in S : ~(<<y, x>> \in OpToRel(<, Nat))
  BY <1>1, NatLessThanWellFounded, WFMin, Zenon
<1>3. PICK l \in 1..m : log[l].sub = s /\ x = m - l
  BY <1>2
<1>4. ASSUME NEW k \in 1..m, log[k].sub = s PROVE k <= l
  <2>1. m - k \in S /\ m - k \in Nat /\ x \in Nat
    BY <1>1, <1>2, <1>4
  <2>2. ~(m - k < x)
    BY <1>2, <2>1 DEF OpToRel
  <2> QED BY <1>1, <1>3, <2>1, <2>2
<1> QED BY <1>3, <1>4 DEF LastOf

\* More webhooks, and what Paddle does, leave it so.
LEMMA ReflectsGrows ==
  ASSUME Kept, row' = row, scope' = scope, NEW m \in Nat, Reflects(m), TypeInv
  PROVE  Reflects(m)'
<1>1. m \in 0..Len(log) /\ m \in 0..Len(log')
  BY DEF Kept, Reflects
<1>2. \A i \in 1..m : i \in DOMAIN log /\ log'[i] = log[i] /\ log[i].sub \in Subs
  BY <1>1 DEF Kept, Event
<1>3. \A l \in 1..m : LastOf(log', l, m) <=> LastOf(log, l, m)
  BY <1>2 DEF LastOf
<1> QED BY <1>1, <1>2, <1>3 DEF Reflects, Kept

\* A webhook other than an activation, for a subscription that the row does not name.
LEMMA PassedOver ==
  ASSUME TypeInv, NEW n \in Nat, n + 1 \in DOMAIN log, Reflects(n),
         log[n + 1].type # "activated", log[n + 1].sub # row.paddle
  PROVE  Reflects(n + 1)
<1>1. \A i \in 1..(n + 1) : i \in 1..n \/ i = n + 1
  OBVIOUS
<1>2. \A i \in 1..n : i \in 1..(n + 1)
  OBVIOUS
<1>3. n + 1 \in 0..Len(log) /\ n + 1 \in 1..(n + 1)
  BY DEF TypeInv
<1>4. \A l \in 1..n : LastOf(log, l, n + 1) => LastOf(log, l, n)
  BY <1>2 DEF LastOf
<1> QED BY <1>1, <1>2, <1>3, <1>4 DEF Reflects

\* The write of a handler that found the row, also a second time.
LEMMA WrittenReflects ==
  ASSUME TypeInv, LogTells, NEW n \in Nat, n + 1 \in DOMAIN log, Reflects(n) \/ Reflects(n + 1),
         log[n + 1].type # "activated", log[n + 1].sub = row.paddle,
         row' = Written(log[n + 1]), UNCHANGED <<paddle, log, scope>>
  PROVE  Reflects(n + 1)'
<1> DEFINE e == log[n + 1]
<1>1. \A i \in 1..(n + 1) : i \in 1..n \/ i = n + 1
  OBVIOUS
<1>2. \A i \in 1..n : i \in 1..(n + 1)
  OBVIOUS
<1>3. n + 1 \in 0..Len(log) /\ n + 1 \in 1..(n + 1) /\ n \in 0..Len(log)
  BY DEF TypeInv
<1>4. \A i \in 1..(n + 1) : i \in DOMAIN log /\ log[i] \in Event
  BY <1>3 DEF TypeInv
<1>5. e \in Event /\ e.sub \in Subs /\ e.sub # NoSub /\ e.type \in {"updated", "paused", "resumed", "canceled"}
  BY <1>3, <1>4, SubscriptionsAssumption DEF Event, Types
<1>6. /\ \A a \in 1..(n + 1) : log[a].type = "activated" /\ log[a].sub # e.sub
                                 => paddle[log[a].sub].state = "canceled"
      /\ \E a \in 1..n : log[a].type = "activated" /\ log[a].sub = e.sub
      /\ \A i \in 1..n : log[i].type = "canceled" => log[i].sub # e.sub
  BY <1>1, <1>2, <1>5 DEF Reflects
<1>7. row \in [plan : Plans \cup {Free}, status : {"ACTIVE", "CANCELLED"}, paddle : Subs \cup {NoSub}]
  BY DEF TypeInv
<1>8. \A l \in 1..(n + 1) : log[l].sub = e.sub /\ LastOf(log, l, n + 1) => l = n + 1
  BY <1>3 DEF LastOf
<1>9. ASSUME row'.paddle = e.sub, row'.plan = e.plan, row'.status = e.status, e.type # "canceled"
      PROVE  Reflects(n + 1)'
  <2>1. \A i \in 1..(n + 1) : log[i].type = "canceled" => log[i].sub # e.sub
    BY <1>1, <1>6, <1>9
  <2> QED BY <1>2, <1>3, <1>5, <1>6, <1>8, <1>9, <2>1 DEF Reflects
<1>10. CASE e.type = "updated"
  <2>1. row' = [row EXCEPT !.plan = e.plan, !.status = e.status]
    BY <1>10 DEF Written
  <2>2. row'.paddle = row.paddle /\ row'.plan = e.plan /\ row'.status = e.status
    BY <1>7, <2>1
  <2> QED BY <1>9, <1>10, <2>2
<1>11. CASE e.type \in {"paused", "resumed"}
  <2>1. row.plan = e.plan
    <3>1. CASE Reflects(n + 1)
      <4>1. LastOf(log, n + 1, n + 1)
        BY <1>3 DEF LastOf
      <4> QED BY <1>3, <3>1, <4>1 DEF Reflects
    <3>2. CASE Reflects(n)
      <4>1. PICK k \in 1..n : log[k].sub = e.sub /\ LastOf(log, k, n)
        BY <1>3, <1>6, LastExists
      <4>2. row.plan = log[k].plan
        BY <3>2, <4>1 DEF Reflects
      <4>3. n = (n + 1) - 1
        OBVIOUS
      <4>4. log[k].plan = e.plan
        BY <1>11, <4>1, <4>3 DEF LogTells
      <4> QED BY <4>2, <4>4
    <3> QED BY <3>1, <3>2
  <2>2. row' = [row EXCEPT !.status = e.status]
    BY <1>11 DEF Written, LogTells
  <2>3. row'.paddle = row.paddle /\ row'.plan = row.plan /\ row'.status = e.status
    BY <1>5, <1>7, <2>2 DEF Event
  <2> QED BY <1>9, <1>11, <2>1, <2>3
<1>12. CASE e.type = "canceled"
  <2>1. row'.paddle = NoSub /\ (scope.freePlan => row'.plan = Free)
    BY <1>7, <1>12 DEF Written
  <2>2. paddle[e.sub].state = "canceled"
    BY <1>12 DEF LogTells
  <2>3. \A i \in 1..(n + 1) : log[i].sub \in Subs /\ log[i].sub # NoSub
    BY <1>4, SubscriptionsAssumption DEF Event
  <2>4. \A a \in 1..(n + 1) : log[a].type = "activated" => paddle[log[a].sub].state = "canceled"
    BY <1>6, <2>2
  <2> QED BY <1>3, <2>1, <2>3, <2>4, SubscriptionsAssumption DEF Reflects
<1> QED BY <1>5, <1>10, <1>11, <1>12

\* The write of an activation, also a second time.
LEMMA ReplacedReflects ==
  ASSUME TypeInv, LogTells, NEW n \in Nat, n + 1 \in DOMAIN log, Reflects(n) \/ Reflects(n + 1),
         log[n + 1].type = "activated",
         row.paddle \in Subs \ {log[n + 1].sub} => paddle[row.paddle].state = "canceled",
         row' = [plan |-> log[n + 1].plan, status |-> "ACTIVE", paddle |-> log[n + 1].sub],
         UNCHANGED <<paddle, log, scope>>
  PROVE  Reflects(n + 1)'
<1> DEFINE e == log[n + 1]
<1>1. \A i \in 1..(n + 1) : i \in 1..n \/ i = n + 1
  OBVIOUS
<1>2. \A i \in 1..n : i \in 1..(n + 1)
  OBVIOUS
<1>3. n + 1 \in 0..Len(log) /\ n + 1 \in 1..(n + 1) /\ n \in 0..Len(log)
  BY DEF TypeInv
<1>4. \A i \in 1..(n + 1) : i \in DOMAIN log /\ log[i] \in Event /\ log[i].sub \in Subs
  <2>1. \A i \in 1..(n + 1) : i \in DOMAIN log /\ log[i] \in Event
    BY <1>3 DEF TypeInv
  <2> QED BY <2>1 DEF Event
<1>5. /\ e.sub \in Subs /\ e.sub # NoSub /\ e.status = "ACTIVE"
      /\ \A k \in 1..(n + 1) : log[k].sub = e.sub => k = n + 1
  BY <1>3, <1>4, SubscriptionsAssumption DEF LogTells
<1>6. \A a \in 1..(n + 1) : log[a].type = "activated" /\ log[a].sub # e.sub
                              => paddle[log[a].sub].state = "canceled"
  <2> SUFFICES ASSUME NEW a \in 1..(n + 1), log[a].type = "activated", log[a].sub # e.sub
               PROVE  paddle[log[a].sub].state = "canceled"
    OBVIOUS
  <2>1. a \in 1..n /\ log[a].sub \in Subs
    BY <1>1, <1>4
  <2>2. CASE log[a].sub = row.paddle
    BY <2>1, <2>2
  <2>3. CASE log[a].sub # row.paddle
    BY <1>2, <2>1, <2>3 DEF Reflects
  <2> QED BY <2>2, <2>3
<1>7. row'.paddle = e.sub /\ row'.plan = e.plan /\ row'.status = "ACTIVE"
  OBVIOUS
<1> QED BY <1>3, <1>5, <1>6, <1>7 DEF Reflects

-----------------------------------------------------------------------------
(* Deliveries in order                                                       *)

LEMMA OrderStep ==
  ASSUME TypeInv, LogInv, OrderInv, [Next]_vars
  PROVE  OrderInv'
<1>1. Kept /\ LogTells /\ TypeInv' /\ LogInv' /\ scope' = scope
  BY StepKeeps, TypeStep, LogStep, RowStep DEF LogInv
<1> SUFFICES ASSUME scope.ordered, scope.once
             PROVE  \E n \in 0..Len(log') : InOrder(n)'
  BY <1>1 DEF OrderInv
<1>2. PICK n \in 0..Len(log) : InOrder(n)
  BY DEF OrderInv
<1>3. n \in Nat /\ n \in 0..Len(log') /\ IdsDiffer /\ IdsDiffer'
  BY <1>1 DEF Kept, LogInv
<1>4. acked = 1..n /\ acked \subseteq DOMAIN log /\ acked \subseteq DOMAIN log'
  BY <1>1, <1>2 DEF InOrder, TypeInv, Kept
<1>5. processed = {EventId(log[i]) : i \in acked} /\ processed = {EventId(log'[i]) : i \in acked}
  BY <1>1, <1>2, <1>4 DEF InOrder, Kept, EventId
<1>6. ASSUME row' = row PROVE (Reflects(n) \/ Reflects(n + 1))' /\ (Reflects(n + 1) => Reflects(n + 1)')
  <2>1. n + 1 \in Nat
    BY <1>3
  <2> QED BY <1>1, <1>2, <1>3, <1>6, <2>1, ReflectsGrows DEF InOrder
<1>7. requests \in [Requests -> [at : Steps \cup {"idle"}, event : Nat, seen : Subs \cup {NoSub}]]
  BY DEF TypeInv
<1>8. ASSUME NEW r \in Requests, ~At(r, "idle")
      PROVE  /\ requests[r].event = n + 1 /\ EventOf(r) = log[n + 1] /\ n + 1 \in DOMAIN log
             /\ log'[n + 1] = log[n + 1] /\ n + 1 \in DOMAIN log' /\ log[n + 1] \in Event
             /\ \A p \in Requests : p # r => At(p, "idle")
  BY <1>1, <1>2, <1>8 DEF InOrder, TypeInv, EventOf, Kept, At
<1>9. ASSUME NEW r \in Requests, NEW q, NEW m \in 0..Len(log'), Go(r, q),
             \A p \in Requests : p # r => At(p, "idle"),
             acked' = 1..m, processed' = {EventId(log'[i]) : i \in acked'},
             (Reflects(m) \/ Reflects(m + 1))',
             q.at # "idle" => q.event = m + 1,
             q.at = "found" => row'.paddle = log'[q.event].sub,
             q.at = "existing" => row'.paddle = q.seen,
             q.at = "replace" /\ row'.paddle \in Subs \ {log'[q.event].sub} =>
               paddle'[row'.paddle].state = "canceled",
             q.at = "handled" => Reflects(m + 1)'
      PROVE  \E k \in 0..Len(log') : InOrder(k)'
  <2>1. \A p \in Requests : requests'[p] = IF p = r THEN q ELSE requests[p]
    BY <1>7, <1>9 DEF Go
  <2>2. \A p \in Requests : At(p, "idle")' \/ (p = r /\ requests'[p] = q)
    BY <1>9, <2>1 DEF At
  <2>3. InOrder(m)'
    BY <1>9, <2>2 DEF InOrder, At, EventOf
  <2> QED BY <1>9, <2>3
<1>10. ASSUME UNCHANGED <<acked, row, processed, requests>>
       PROVE  InOrder(n)'
  <2>1. \A r \in Requests : At(r, "replace") /\ row.paddle \in Subs \ {EventOf(r).sub} =>
                              paddle'[row.paddle].state = "canceled"
    BY <1>1, <1>2 DEF InOrder, Kept
  <2>2. \A r \in Requests : ~At(r, "idle") => EventOf(r)' = EventOf(r)
    BY <1>8, <1>10 DEF EventOf
  <2> QED BY <1>2, <1>4, <1>5, <1>6, <1>10, <2>1, <2>2 DEF InOrder, At
<1>11. ASSUME NEW r \in Requests, NEW i \in Positions, Deliver(r, i)
       PROVE  \E k \in 0..Len(log') : InOrder(k)'
  <2>1. /\ i \in DOMAIN log /\ (\A j \in 1..(i - 1) : j \in acked) /\ (\A p \in Requests : At(p, "idle"))
        /\ row' = row /\ processed' = processed
    BY <1>11 DEF Deliver
  <2>2. CASE EventId(log[i]) \in processed
    <3>1. i \in acked
      BY <1>3, <1>4, <1>5, <2>1, <2>2 DEF IdsDiffer
    <3>2. UNCHANGED <<acked, row, processed, requests>>
      BY <1>11, <2>1, <2>2, <3>1 DEF Deliver
    <3> QED BY <1>3, <1>10, <3>2
  <2>3. CASE EventId(log[i]) \notin processed
    <3> DEFINE q == [Idle EXCEPT !.at = "received", !.event = i]
    <3>1. i \notin 1..n
      BY <1>4, <1>5, <2>3
    <3>2. i = n + 1
      <4>1. i \in Nat /\ i >= 1 /\ i > n
        BY <1>1, <1>3, <2>1, <3>1 DEF Kept
      <4>2. ~(i - 1 > n)
        BY <1>3, <1>4, <2>1, <4>1
      <4> QED BY <1>3, <4>1, <4>2
    <3>3. q.at = "received" /\ q.event = n + 1
      BY <3>2 DEF Idle
    <3>4. Go(r, q) /\ acked' = acked
      BY <1>11, <2>3 DEF Deliver
    <3> HIDE DEF q
    <3> QED BY <1>3, <1>4, <1>5, <1>6, <1>9, <2>1, <3>3, <3>4
  <2> QED BY <2>2, <2>3
<1>12. ASSUME NEW r \in Requests, Find(r)
       PROVE  \E k \in 0..Len(log') : InOrder(k)'
  <2> DEFINE at == IF row.paddle = EventOf(r).sub THEN "found" ELSE "handled"
             q == [requests[r] EXCEPT !.at = at]
  <2>1. /\ At(r, "received") /\ EventOf(r).type # "activated" /\ Go(r, q)
        /\ row' = row /\ acked' = acked /\ processed' = processed
    BY <1>12 DEF Find, Step
  <2>2. ~At(r, "idle")
    BY <2>1 DEF At
  <2>3. q.at = at /\ q.event = n + 1
    BY <1>7, <1>8, <2>2
  <2>4. at = "handled" => Reflects(n + 1)
    BY <1>2, <1>3, <1>8, <2>1, <2>2, PassedOver DEF InOrder
  <2>5. at = "found" => row'.paddle = log'[n + 1].sub
    BY <1>8, <2>1, <2>2
  <2>6. at \in {"found", "handled"}
    OBVIOUS
  <2> HIDE DEF q, at
  <2> QED BY <1>3, <1>4, <1>5, <1>6, <1>8, <1>9, <2>1, <2>2, <2>3, <2>4, <2>5, <2>6
<1>13. ASSUME NEW r \in Requests, Write(r)
       PROVE  \E k \in 0..Len(log') : InOrder(k)'
  <2> DEFINE q == [requests[r] EXCEPT !.at = "handled"]
  <2>1. /\ At(r, "found") /\ Go(r, q) /\ row' = Written(EventOf(r))
        /\ acked' = acked /\ processed' = processed /\ UNCHANGED <<paddle, log, scope>>
    BY <1>13 DEF Write, Step
  <2>2. ~At(r, "idle") /\ EventOf(r).type # "activated"
    BY <2>1 DEF At, TypeInv
  <2>3. q.at = "handled" /\ q.event = n + 1
    BY <1>7, <1>8, <2>2
  <2>4. row.paddle = log[n + 1].sub
    BY <1>2, <1>8, <2>1, <2>2 DEF InOrder
  <2>5. Reflects(n + 1)'
    BY <1>1, <1>2, <1>3, <1>8, <2>1, <2>2, <2>4, WrittenReflects DEF InOrder
  <2> HIDE DEF q
  <2> QED BY <1>3, <1>4, <1>5, <1>8, <1>9, <2>1, <2>2, <2>3, <2>5
<1>14. ASSUME NEW r \in Requests, ReadExisting(r)
       PROVE  \E k \in 0..Len(log') : InOrder(k)'
  <2> DEFINE at == IF row.paddle \in Subs \ {EventOf(r).sub} THEN "existing" ELSE "replace"
             q == [requests[r] EXCEPT !.seen = row.paddle, !.at = at]
  <2>1. At(r, "received") /\ Go(r, q) /\ row' = row /\ acked' = acked /\ processed' = processed
    BY <1>14 DEF ReadExisting
  <2>2. ~At(r, "idle")
    BY <2>1 DEF At
  <2>3. q.at = at /\ q.event = n + 1 /\ q.seen = row.paddle
    BY <1>7, <1>8, <2>2
  <2>4. at = "replace" => row'.paddle \notin Subs \ {log'[n + 1].sub}
    BY <1>8, <2>1, <2>2
  <2>5. at \in {"existing", "replace"}
    OBVIOUS
  <2> HIDE DEF q, at
  <2> QED BY <1>3, <1>4, <1>5, <1>6, <1>8, <1>9, <2>1, <2>2, <2>3, <2>4, <2>5
<1>15. ASSUME NEW r \in Requests, CancelExisting(r)
       PROVE  \E k \in 0..Len(log') : InOrder(k)'
  <2> DEFINE q == [requests[r] EXCEPT !.at = "replace"]
             s == requests[r].seen
  <2>1. At(r, "existing") /\ Go(r, q) /\ row' = row /\ acked' = acked /\ processed' = processed
    BY <1>15 DEF CancelExisting, Step
  <2>2. ~At(r, "idle") /\ row.paddle = s /\ s \in Subs
    BY <1>2, <2>1 DEF At, InOrder, TypeInv
  <2>3. q.at = "replace" /\ q.event = n + 1
    BY <1>7, <1>8, <2>2
  <2>4. paddle'[s].state = "canceled"
    <3>1. CASE Emit("canceled", s, "canceled", paddle[s].plan)
      BY <2>2, <3>1 DEF Emit, TypeInv
    <3>2. CASE paddle[s].state = "canceled"
      BY <1>1, <2>2, <3>2 DEF Kept
    <3> QED BY <1>15, <3>1, <3>2 DEF CancelExisting
  <2>5. paddle'[row'.paddle].state = "canceled"
    BY <2>1, <2>2, <2>4
  <2> HIDE DEF q, s
  <2> QED BY <1>3, <1>4, <1>5, <1>6, <1>8, <1>9, <2>1, <2>2, <2>3, <2>5
<1>16. ASSUME NEW r \in Requests, Replace(r)
       PROVE  \E k \in 0..Len(log') : InOrder(k)'
  <2> DEFINE q == [requests[r] EXCEPT !.at = "handled"]
  <2>1. /\ At(r, "replace") /\ Go(r, q)
        /\ row' = [plan |-> EventOf(r).plan, status |-> "ACTIVE", paddle |-> EventOf(r).sub]
        /\ acked' = acked /\ processed' = processed /\ UNCHANGED <<paddle, log, scope>>
    BY <1>16 DEF Replace, Step
  <2>2. ~At(r, "idle") /\ EventOf(r).type = "activated"
    BY <2>1 DEF At, TypeInv
  <2>3. q.at = "handled" /\ q.event = n + 1
    BY <1>7, <1>8, <2>2
  <2>4. row.paddle \in Subs \ {log[n + 1].sub} => paddle[row.paddle].state = "canceled"
    BY <1>2, <1>8, <2>1, <2>2 DEF InOrder
  <2>5. Reflects(n + 1)'
    BY <1>1, <1>2, <1>3, <1>8, <2>1, <2>2, <2>4, ReplacedReflects DEF InOrder
  <2> HIDE DEF q
  <2> QED BY <1>3, <1>4, <1>5, <1>8, <1>9, <2>1, <2>2, <2>3, <2>5
<1>17. ASSUME NEW r \in Requests, Mark(r)
       PROVE  \E k \in 0..Len(log') : InOrder(k)'
  <2>1. /\ At(r, "handled") /\ Go(r, Idle) /\ row' = row
        /\ processed' = processed \cup {EventId(EventOf(r))} /\ acked' = acked \cup {requests[r].event}
    BY <1>17 DEF Mark
  <2>2. ~At(r, "idle")
    BY <2>1 DEF At
  <2>3. acked' = 1..(n + 1) /\ n + 1 \in 0..Len(log')
    BY <1>1, <1>3, <1>4, <1>8, <2>1, <2>2 DEF Kept
  <2>4. processed' = {EventId(log'[i]) : i \in acked'}
    BY <1>5, <1>8, <2>1, <2>2
  <2>5. Reflects(n + 1)'
    BY <1>2, <1>6, <2>1 DEF InOrder
  <2>6. Idle.at = "idle"
    BY DEF Idle
  <2> QED BY <1>8, <1>9, <2>1, <2>2, <2>3, <2>4, <2>5, <2>6
<1>18. ASSUME NEW r \in Requests, Crash(r)
       PROVE  \E k \in 0..Len(log') : InOrder(k)'
  <2>1. ~At(r, "idle") /\ Go(r, Idle) /\ UNCHANGED <<acked, row, processed>>
    BY <1>18 DEF Crash
  <2>2. Idle.at = "idle"
    BY DEF Idle
  <2> QED BY <1>3, <1>4, <1>5, <1>6, <1>8, <1>9, <2>1, <2>2
<1>19. ASSUME NEW s \in Subs, (\E plan \in Paid : Purchase(s, plan) \/ ChangePlan(s, plan))
                                 \/ Pause(s) \/ Resume(s) \/ Cancel(s)
       PROVE  UNCHANGED <<acked, row, processed, requests>>
  BY <1>19 DEF Purchase, ChangePlan, Pause, Resume, Cancel, Report
<1>20. CASE UNCHANGED vars
  BY <1>3, <1>10, <1>20 DEF vars
<1> QED BY <1>3, <1>10, <1>11, <1>12, <1>13, <1>14, <1>15, <1>16, <1>17, <1>18, <1>19, <1>20
        DEF Next, Continue

\* When all is acknowledged the row reflects the whole log, and the log tells what Paddle did.
LEMMA SettledFollows ==
  ASSUME TypeInv, LogInv, OrderInv
  PROVE  FollowsPaddle
<1> SUFFICES ASSUME scope.ordered, scope.once, Settled
             PROVE  IF Live = {} THEN row.paddle = NoSub /\ (scope.freePlan => row.plan = Free)
                    ELSE /\ Live = {row.paddle}
                         /\ row.plan = paddle[row.paddle].plan
                         /\ row.status = Status(paddle[row.paddle].state)
  BY DEF FollowsPaddle
<1> DEFINE N == Len(log)
<1>1. N \in Nat /\ DOMAIN log = 1..N /\ \A i \in 1..N : log[i].sub \in Subs
  <2>1. N \in Nat /\ DOMAIN log = 1..N /\ \A i \in 1..N : log[i] \in Event
    BY DEF TypeInv
  <2> QED BY <2>1 DEF Event
<1>2. Reflects(N)
  <2>1. PICK n \in 0..N : InOrder(n)
    BY DEF OrderInv
  <2>2. 1..n = 1..N
    BY <1>1, <2>1 DEF InOrder, Settled
  <2>3. n = N
    <3>1. N \in Nat /\ n \in Nat /\ n <= N /\ (N >= 1 => N \in 1..N)
      BY <1>1
    <3> HIDE DEF N
    <3>2. N >= 1 => N <= n
      BY <2>2, <3>1
    <3> QED BY <3>1, <3>2
  <2>4. ~Reflects(N + 1)
    BY <1>1 DEF Reflects
  <2> QED BY <2>1, <2>3, <2>4 DEF InOrder
<1>3. LogTells /\ row.paddle \in Subs \cup {NoSub} /\ NoSub \notin Subs
  BY SubscriptionsAssumption DEF LogInv, TypeInv
<1>4. ASSUME NEW s \in Live PROVE s = row.paddle
  <2>1. s \in Subs /\ paddle[s].state # "none" /\ paddle[s].state # "canceled"
    BY DEF Live
  <2>2. PICK a \in 1..N : log[a].type = "activated" /\ log[a].sub = s
    BY <1>1, <1>3, <2>1 DEF LogTells
  <2> QED BY <1>2, <2>1, <2>2 DEF Reflects
<1>5. CASE row.paddle \in Subs
  <2>1. PICK a \in 1..N : log[a].type = "activated" /\ log[a].sub = row.paddle
    BY <1>2, <1>5 DEF Reflects
  <2>2. paddle[row.paddle].state # "none"
    BY <1>1, <1>3, <1>5, <2>1 DEF LogTells
  <2>3. paddle[row.paddle].state # "canceled"
    BY <1>1, <1>2, <1>3, <1>5 DEF LogTells, Reflects
  <2>4. row.paddle \in Live
    BY <1>5, <2>2, <2>3 DEF Live, TypeInv
  <2>5. N \in 0..Len(log)
    BY <1>1
  <2>6. PICK l \in 1..N : log[l].sub = row.paddle /\ LastOf(log, l, N)
    BY <2>1, <2>5, LastExists
  <2>7. row.plan = log[l].plan /\ row.status = log[l].status
    BY <1>2, <2>6 DEF Reflects
  <2>8. log[l].plan = paddle[row.paddle].plan /\ log[l].status = Status(paddle[row.paddle].state)
    BY <1>1, <1>3, <2>6 DEF LogTells
  <2> QED BY <1>4, <2>4, <2>7, <2>8
<1>6. CASE row.paddle = NoSub
  <2>1. Live = {}
    BY <1>3, <1>4, <1>6 DEF Live
  <2> QED BY <1>2, <1>6, <2>1 DEF Reflects
<1> QED BY <1>3, <1>5, <1>6

-----------------------------------------------------------------------------
LEMMA SubscriptionsInvariant == Spec => [](TypeInv /\ LogInv /\ OrderInv)
<1>1. TypeInv /\ LogInv /\ OrderInv /\ [Next]_vars => (TypeInv /\ LogInv /\ OrderInv)'
  <2> SUFFICES ASSUME TypeInv, LogInv, OrderInv, [Next]_vars
               PROVE  (TypeInv /\ LogInv /\ OrderInv)'
    OBVIOUS
  <2>1. TypeInv'
    BY TypeStep DEF LogInv
  <2> QED BY <2>1, LogStep, OrderStep
<1> QED BY <1>1, InitInvs, PTL DEF Spec

\* When Paddle's webhooks are delivered in order, each repeated until it is answered with
\* 200 and whatever handler dies between its statements: once all are acknowledged, at most
\* one subscription of the user is paid for, and the row names it with its plan and status.
THEOREM RowFollowsPaddle == Spec => []FollowsPaddle
<1>1. TypeInv /\ LogInv /\ OrderInv => FollowsPaddle
  BY SettledFollows
<1> QED BY <1>1, SubscriptionsInvariant, PTL
=============================================================================
