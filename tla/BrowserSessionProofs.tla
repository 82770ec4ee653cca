------------------------ MODULE BrowserSessionProofs ------------------------
(***************************************************************************)
(* Proofs about BrowserSession.  Every step of the composition is a step,  *)
(* or a stutter, of the client alone and of the server alone, so what each *)
(* keeps in any environment holds of both together.                        *)
(***************************************************************************)
EXTENDS BrowserSession, TLAPS

ClientStep == [Client!ClientNext]_clientVars
ServerStep == [Server!AuthNext]_authVars
ClientInv == Client!ClientTypeOK /\ OneRefreshServesTheQueue
ServerInv == Server!AuthTypeOK /\ Server!HandlersHoldTokens /\ RotationRevokesParent

-----------------------------------------------------------------------------
(* The client.                                                              *)

Ats == {"idle", "sent", "queued", "refreshing"}
Pages == {"login", "loading", "app"}

LEMMA ClientInitially == Client!ClientInit => ClientInv
BY DEF Client!ClientInit, ClientInv, Client!ClientTypeOK, Client!Call, Client!CallKinds,
       Client!NoCall, Client!None, OneRefreshServesTheQueue, Client!OneRefreshServesTheQueue

\* Updates of a call's record.
LEMMA CallUpdate ==
  ASSUME NEW k \in Client!Call, NEW at \in Ats
  PROVE  /\ [k EXCEPT !.at = at] \in Client!Call
         /\ [k EXCEPT !.at = at].at = at
         /\ [k EXCEPT !.at = at, !.retry = TRUE] \in Client!Call
         /\ [k EXCEPT !.at = at, !.retry = TRUE].at = at
BY DEF Client!Call, Ats

LEMMA Resent ==
  ASSUME NEW k \in Client!Call, NEW new \in Pairs \cup {None}
  PROVE  /\ [k EXCEPT !.at = "sent", !.token = new] \in Client!Call
         /\ [k EXCEPT !.at = "sent", !.token = new].at = "sent"
BY DEF Client!Call, Client!None, None

\* The type and the queue survive where one tab's calls change as they should.
LEMMA ClientChange ==
  ASSUME ClientInv, NEW t \in Tabs,
         token' \in [Tabs -> Pairs \cup {None}],
         page' \in [Tabs -> Pages],
         calls' \in [Tabs -> [Calls -> Client!Call]],
         refreshing' \in [Tabs -> BOOLEAN],
         \A u \in Tabs \ {t} : calls'[u] = calls[u] /\ refreshing'[u] = refreshing[u],
         refreshing'[t] <=> \E c \in Calls : calls'[t][c].at = "refreshing",
         \A c, d \in Calls :
           calls'[t][c].at = "refreshing" /\ calls'[t][d].at = "refreshing" => c = d,
         \A c \in Calls : calls'[t][c].at = "queued" => refreshing'[t]
  PROVE  ClientInv'
<1>1. Client!ClientTypeOK'
  BY DEF ClientInv, Client!ClientTypeOK, Client!None, None, Pages
<1> QED
  BY <1>1 DEF ClientInv, OneRefreshServesTheQueue, Client!OneRefreshServesTheQueue

\* One call changes: it neither waits in the queue without a refresh, nor is a
\* second refresher.
LEMMA CallChange ==
  ASSUME ClientInv, NEW t \in Tabs, NEW c \in Calls,
         token' \in [Tabs -> Pairs \cup {None}],
         page' \in [Tabs -> Pages],
         NEW k \in Client!Call, calls' = [calls EXCEPT ![t] = [calls[t] EXCEPT ![c] = k]],
         NEW r \in BOOLEAN, refreshing' = [refreshing EXCEPT ![t] = r],
         calls[t][c].at = "sent" \/ calls[t][c].at = "idle",
         r <=> refreshing[t] \/ k.at = "refreshing",
         k.at = "refreshing" => ~refreshing[t],
         k.at = "queued" => refreshing[t]
  PROVE  ClientInv'
<1> DEFINE mine == [calls[t] EXCEPT ![c] = k]
<1>1. calls[t] \in [Calls -> Client!Call]
  BY DEF ClientInv, Client!ClientTypeOK
<1>2. /\ mine \in [Calls -> Client!Call]
      /\ mine[c] = k /\ \A d \in Calls \ {c} : mine[d] = calls[t][d]
  BY <1>1
<1>3. /\ refreshing[t] <=> \E d \in Calls : calls[t][d].at = "refreshing"
      /\ \A d, e \in Calls : calls[t][d].at = "refreshing" /\ calls[t][e].at = "refreshing"
                               => d = e
      /\ \A d \in Calls : calls[t][d].at = "queued" => refreshing[t]
  BY DEF ClientInv, OneRefreshServesTheQueue, Client!OneRefreshServesTheQueue
<1>4. calls' = [calls EXCEPT ![t] = mine]
  OBVIOUS
<1> HIDE DEF mine
<1>5. r <=> \E d \in Calls : mine[d].at = "refreshing"
  BY <1>2, <1>3
<1>6. \A d, e \in Calls : mine[d].at = "refreshing" /\ mine[e].at = "refreshing" => d = e
  BY <1>2, <1>3
<1>7. \A d \in Calls : mine[d].at = "queued" => r
  BY <1>2, <1>3
<1>8. /\ calls \in [Tabs -> [Calls -> Client!Call]] /\ refreshing \in [Tabs -> BOOLEAN]
  BY DEF ClientInv, Client!ClientTypeOK
<1>9. /\ calls' \in [Tabs -> [Calls -> Client!Call]] /\ refreshing' \in [Tabs -> BOOLEAN]
      /\ calls'[t] = mine /\ refreshing'[t] = r
      /\ \A u \in Tabs \ {t} : calls'[u] = calls[u] /\ refreshing'[u] = refreshing[u]
  BY <1>2, <1>4, <1>8
<1>10. /\ refreshing'[t] <=> \E d \in Calls : calls'[t][d].at = "refreshing"
       /\ \A d, e \in Calls :
            calls'[t][d].at = "refreshing" /\ calls'[t][e].at = "refreshing" => d = e
       /\ \A d \in Calls : calls'[t][d].at = "queued" => refreshing'[t]
  BY <1>5, <1>6, <1>7, <1>9
<1> QED
  BY <1>9, <1>10, ClientChange

LEMMA ClientPreserves == ClientInv /\ ClientStep => ClientInv'
<1> SUFFICES ASSUME ClientInv, ClientStep PROVE ClientInv'
  OBVIOUS
<1>0. UNCHANGED clientVars => ClientInv'
  BY DEF clientVars, ClientInv, Client!ClientTypeOK, Client!Call, OneRefreshServesTheQueue,
         Client!OneRefreshServesTheQueue
<1> SUFFICES ASSUME NEW t \in Tabs, NEW c \in Calls,
                    \/ \E kind \in Client!CallKinds : Client!Send(t, c, kind)
                    \/ \E ok \in BOOLEAN, new \in Pairs \cup {None} :
                         Client!Settle(t, c, ok, new)
                    \/ Client!Unauthorized(t, c)
                    \/ \E new \in Pairs \cup {None} : Client!Refreshed(t, c, new)
                    \/ Client!RefreshFailed(t, c)
                    \/ Client!Reload(t, c)
             PROVE  ClientInv'
  BY <1>0 DEF ClientStep, Client!ClientNext, Client!clientVars, clientVars, Client!None, None
<1>1. /\ token \in [Tabs -> Pairs \cup {None}] /\ page \in [Tabs -> Pages]
      /\ refreshing \in [Tabs -> BOOLEAN] /\ refreshing[t] \in BOOLEAN
      /\ calls \in [Tabs -> [Calls -> Client!Call]]
      /\ calls[t] \in [Calls -> Client!Call] /\ calls[t][c] \in Client!Call
  BY DEF ClientInv, Client!ClientTypeOK, Client!None, None, Pages
<1>2. Client!NoCall \in Client!Call /\ Client!NoCall.at = "idle"
  BY DEF Client!NoCall, Client!Call, Client!CallKinds, Client!None
<1>3. ASSUME NEW kind \in Client!CallKinds, Client!Send(t, c, kind)
      PROVE  ClientInv'
  <2> DEFINE new == [at |-> "sent", kind |-> kind, token |-> token[t], retry |-> FALSE]
  <2>1. new \in Client!Call /\ new.at = "sent"
    BY <1>1 DEF Client!Call, Client!None, None
  <2>2. calls' = [calls EXCEPT ![t] = [calls[t] EXCEPT ![c] = new]] /\ calls[t][c].at = "idle"
    BY <1>1, <1>3 DEF Client!Send, Client!Sent
  <2> HIDE DEF new
  <2>3. /\ token' \in [Tabs -> Pairs \cup {None}] /\ page' \in [Tabs -> Pages]
        /\ refreshing' = [refreshing EXCEPT ![t] = refreshing[t]]
    BY <1>1, <1>3 DEF Client!Send
  <2> QED
    BY <1>1, <2>1, <2>2, <2>3, CallChange
<1>4. ASSUME NEW ok \in BOOLEAN, NEW new \in Pairs \cup {None}, Client!Settle(t, c, ok, new)
      PROVE  ClientInv'
  <2>1. CASE Client!LoggedIn(t, c, new)
    <3> DEFINE me == [at |-> "sent", kind |-> "me", token |-> new, retry |-> FALSE]
    <3>1. me \in Client!Call /\ me.at = "sent"
      BY DEF Client!Call, Client!CallKinds, Client!None, None
    <3>2. calls' = [calls EXCEPT ![t] = [calls[t] EXCEPT ![c] = me]] /\ calls[t][c].at = "sent"
      BY <1>1, <1>4, <2>1 DEF Client!Settle, Client!LoggedIn, Client!Sent
    <3> HIDE DEF me
    <3>3. /\ token' \in [Tabs -> Pairs \cup {None}] /\ page' \in [Tabs -> Pages]
          /\ refreshing' = [refreshing EXCEPT ![t] = refreshing[t]]
      BY <1>1, <2>1 DEF Client!LoggedIn
    <3> QED
      BY <1>1, <3>1, <3>2, <3>3, CallChange
  <2>2. CASE Client!Settled(t, c, ok)
    <3>1. calls' = [calls EXCEPT ![t] = [calls[t] EXCEPT ![c] = Client!NoCall]]
          /\ calls[t][c].at = "sent"
      BY <1>1, <1>4, <2>2 DEF Client!Settle, Client!Settled
    <3>2. /\ token' = token \/ token' = [token EXCEPT ![t] = None]
          /\ page' = page \/ \E shown \in Pages : page' = [page EXCEPT ![t] = shown]
      BY <2>2 DEF Client!Settled, Client!None, None, Pages
    <3>3. /\ token' \in [Tabs -> Pairs \cup {None}] /\ page' \in [Tabs -> Pages]
          /\ refreshing' = [refreshing EXCEPT ![t] = refreshing[t]]
      BY <1>1, <2>2, <3>2 DEF Client!Settled
    <3> QED
      BY <1>1, <1>2, <3>1, <3>3, CallChange
  <2> QED
    BY <1>4, <2>1, <2>2 DEF Client!Settle
<1>5. ASSUME Client!Unauthorized(t, c)
      PROVE  ClientInv'
  <2>1. /\ token' \in [Tabs -> Pairs \cup {None}] /\ page' \in [Tabs -> Pages]
        /\ calls[t][c].at = "sent"
    BY <1>1, <1>5 DEF Client!Unauthorized
  <2>2. CASE refreshing[t]
    <3> DEFINE k == [calls[t][c] EXCEPT !.at = "queued"]
    <3>1. k \in Client!Call /\ k.at = "queued"
      BY <1>1, CallUpdate DEF Ats
    <3>2. calls' = [calls EXCEPT ![t][c] = k]
      BY <1>1, <1>5, <2>2 DEF Client!Unauthorized
    <3>3. refreshing' = [refreshing EXCEPT ![t] = refreshing[t]]
      BY <1>1, <1>5, <2>2 DEF Client!Unauthorized
    <3> HIDE DEF k
    <3>4. calls' = [calls EXCEPT ![t] = [calls[t] EXCEPT ![c] = k]]
      BY <1>1, <3>2
    <3> QED
      BY <1>1, <2>1, <2>2, <3>1, <3>3, <3>4, CallChange
  <2>3. CASE ~refreshing[t]
    <3> DEFINE k == [calls[t][c] EXCEPT !.at = "refreshing", !.retry = TRUE]
    <3>1. k \in Client!Call /\ k.at = "refreshing"
      BY <1>1, CallUpdate DEF Ats
    <3>2. calls' = [calls EXCEPT ![t][c] = k]
      BY <1>1, <1>5, <2>3 DEF Client!Unauthorized
    <3>3. refreshing' = [refreshing EXCEPT ![t] = TRUE]
      BY <1>1, <1>5, <2>3 DEF Client!Unauthorized
    <3> HIDE DEF k
    <3>4. calls' = [calls EXCEPT ![t] = [calls[t] EXCEPT ![c] = k]]
      BY <1>1, <3>2
    <3> QED
      BY <1>1, <2>1, <2>3, <3>1, <3>3, <3>4, CallChange
  <2> QED
    BY <2>2, <2>3
<1>6. ASSUME NEW new \in Pairs \cup {None}, Client!Refreshed(t, c, new)
      PROVE  ClientInv'
  <2> DEFINE resent(d) == [calls[t][d] EXCEPT !.at = "sent", !.token = new]
             mine == [d \in Calls |-> IF d = c \/ calls[t][d].at = "queued" THEN resent(d)
                                      ELSE calls[t][d]]
  <2>1. ASSUME NEW d \in Calls
        PROVE  resent(d) \in Client!Call /\ resent(d).at = "sent"
    <3>1. calls[t][d] \in Client!Call
      BY <1>1
    <3> QED
      BY <3>1, Resent
  <2>2. /\ calls' = [calls EXCEPT ![t] = mine]
        /\ calls[t][c].at = "refreshing"
        /\ refreshing' = [refreshing EXCEPT ![t] = FALSE]
        /\ token' \in [Tabs -> Pairs \cup {None}] /\ page' \in [Tabs -> Pages]
    BY <1>1, <1>6 DEF Client!Refreshed
  <2> HIDE DEF resent
  <2>3. mine \in [Calls -> Client!Call]
    BY <1>1, <2>1
  <2>4. \A d \in Calls : calls[t][d].at = "refreshing" => d = c
    BY <2>2 DEF ClientInv, OneRefreshServesTheQueue, Client!OneRefreshServesTheQueue
  <2>5. \A d \in Calls : mine[d].at # "refreshing" /\ mine[d].at # "queued"
    BY <2>1, <2>4
  <2> HIDE DEF mine
  <2>6. /\ calls' \in [Tabs -> [Calls -> Client!Call]] /\ refreshing' \in [Tabs -> BOOLEAN]
        /\ calls'[t] = mine /\ ~refreshing'[t]
        /\ \A u \in Tabs \ {t} : calls'[u] = calls[u] /\ refreshing'[u] = refreshing[u]
    BY <1>1, <2>2, <2>3
  <2> QED
    BY <2>2, <2>5, <2>6, ClientChange
<1>7. ASSUME Client!RefreshFailed(t, c)
      PROVE  ClientInv'
  <2> DEFINE mine == [d \in Calls |-> Client!NoCall]
  <2>1. /\ calls' = [calls EXCEPT ![t] = mine]
        /\ refreshing' = [refreshing EXCEPT ![t] = FALSE]
        /\ token' \in [Tabs -> Pairs \cup {None}] /\ page' \in [Tabs -> Pages]
    BY <1>1, <1>7 DEF Client!RefreshFailed, Client!None, None, Pages
  <2>2. /\ mine \in [Calls -> Client!Call]
        /\ \A d \in Calls : mine[d].at # "refreshing" /\ mine[d].at # "queued"
    BY <1>2
  <2> HIDE DEF mine
  <2>3. /\ calls' \in [Tabs -> [Calls -> Client!Call]] /\ refreshing' \in [Tabs -> BOOLEAN]
        /\ calls'[t] = mine /\ ~refreshing'[t]
        /\ \A u \in Tabs \ {t} : calls'[u] = calls[u] /\ refreshing'[u] = refreshing[u]
    BY <1>1, <2>1, <2>2
  <2> QED
    BY <2>1, <2>2, <2>3, ClientChange
<1>8. ASSUME Client!Reload(t, c)
      PROVE  ClientInv'
  <2> DEFINE asks == [at |-> "sent", kind |-> "profile", token |-> token[t], retry |-> FALSE]
             mine == [d \in Calls |-> IF d = c /\ token[t] # None THEN asks ELSE Client!NoCall]
  <2>1. asks \in Client!Call /\ asks.at = "sent"
    BY <1>1 DEF Client!Call, Client!CallKinds, Client!None, None
  <2>2. /\ calls' = [calls EXCEPT ![t] = mine]
        /\ refreshing' = [refreshing EXCEPT ![t] = FALSE]
        /\ token' \in [Tabs -> Pairs \cup {None}] /\ page' \in [Tabs -> Pages]
    BY <1>1, <1>8 DEF Client!Reload, Client!Sent, Client!None, None, Pages
  <2> HIDE DEF asks
  <2>3. /\ mine \in [Calls -> Client!Call]
        /\ \A d \in Calls : mine[d].at # "refreshing" /\ mine[d].at # "queued"
    BY <1>2, <2>1
  <2> HIDE DEF mine
  <2>4. /\ calls' \in [Tabs -> [Calls -> Client!Call]] /\ refreshing' \in [Tabs -> BOOLEAN]
        /\ calls'[t] = mine /\ ~refreshing'[t]
        /\ \A u \in Tabs \ {t} : calls'[u] = calls[u] /\ refreshing'[u] = refreshing[u]
    BY <1>1, <2>2, <2>3
  <2> QED
    BY <2>2, <2>3, <2>4, ClientChange
<1> QED
  BY <1>3, <1>4, <1>5, <1>6, <1>7, <1>8

-----------------------------------------------------------------------------
(* The server.                                                              *)

ServerAts == Server!Steps \cup Server!Ends \cup {"idle"}

LEMMA ServerInitially == Server!AuthInit => ServerInv
BY BrowserAssumption
   DEF Server!AuthInit, ServerInv, Server!AuthTypeOK, Server!Handler, Server!NoHandler,
       Server!Kinds, Server!Steps, Server!Ends, Server!Pairs, Server!None,
       Server!HandlersHoldTokens, Server!HoldsTokens, RotationRevokesParent,
       Server!RotationRevokesParent

\* Moving a handler to another place leaves the rest of it.
LEMMA HandlerUpdate ==
  ASSUME NEW h \in Server!Handler, NEW at \in ServerAts
  PROVE  LET k == [h EXCEPT !.at = at] IN
         /\ k \in Server!Handler
         /\ k.at = at /\ k.kind = h.kind /\ k.access = h.access /\ k.cookie = h.cookie
BY DEF Server!Handler, ServerAts

LEMMA HandlerMoves ==
  ASSUME ServerInv, NEW q \in Slots, NEW at \in ServerAts, Server!Go(q, at)
  PROVE  /\ handlers' \in [Slots -> Server!Handler]
         /\ handlers'[q].at = at /\ handlers'[q].kind = handlers[q].kind
         /\ handlers'[q].access = handlers[q].access
         /\ handlers'[q].cookie = handlers[q].cookie
         /\ \A p \in Slots \ {q} : handlers'[p] = handlers[p]
<1> DEFINE k == [handlers[q] EXCEPT !.at = at]
<1>1. handlers \in [Slots -> Server!Handler] /\ handlers[q] \in Server!Handler
  BY DEF ServerInv, Server!AuthTypeOK
<1>2. /\ k \in Server!Handler
      /\ k.at = at /\ k.kind = handlers[q].kind /\ k.access = handlers[q].access
      /\ k.cookie = handlers[q].cookie
  BY <1>1, HandlerUpdate
<1>3. handlers' = [handlers EXCEPT ![q] = k]
  BY <1>1 DEF Server!Go
<1> HIDE DEF k
<1> QED
  BY <1>1, <1>2, <1>3

\* A handler that has issued a pair is done.
LEMMA HandlerIssues ==
  ASSUME NEW h \in Server!Handler, NEW n \in Server!Pairs
  PROVE  LET k == [h EXCEPT !.at = "done", !.pair = n] IN
         k \in Server!Handler /\ k.at = "done"
BY DEF Server!Handler, Server!Steps, Server!Ends

\* What one handler may do without harm: revoked tokens stay revoked, and a new
\* token has a revoked parent.
LEMMA ServerChange ==
  ASSUME ServerInv, NEW q \in Slots,
         refresh' \in [Server!Pairs -> {"none", "valid", "revoked", "expired"}],
         parent' \in [Server!Pairs -> Server!Pairs \cup {Server!None}],
         expired' \subseteq Server!Pairs, blacklist' \subseteq Server!Pairs,
         active' \in BOOLEAN,
         handlers' \in [Slots -> Server!Handler],
         \A p \in Slots \ {q} : handlers'[p] = handlers[p],
         \A n \in Server!Pairs : refresh[n] = "revoked" => refresh'[n] = "revoked",
         \A n \in Server!Pairs : parent'[n] # Server!None =>
           parent'[n] = parent[n] \/ refresh[parent'[n]] = "revoked",
         Server!HoldsTokens(q)'
  PROVE  ServerInv'
<1>1. Server!AuthTypeOK'
  BY DEF Server!AuthTypeOK
<1>2. ASSUME NEW p \in Slots \ {q} PROVE Server!HoldsTokens(p)'
  <2>1. Server!HoldsTokens(p) /\ handlers'[p] = handlers[p] /\ handlers[p] \in Server!Handler
    BY DEF ServerInv, Server!HandlersHoldTokens, Server!AuthTypeOK
  <2> QED
    BY <2>1 DEF Server!HoldsTokens
<1>3. RotationRevokesParent'
  <2>1. ASSUME NEW n \in Server!Pairs, parent'[n] # Server!None
        PROVE  refresh'[parent'[n]] = "revoked"
    <3>1. parent'[n] \in Server!Pairs
      BY <2>1
    <3>2. refresh[parent'[n]] = "revoked"
      BY <2>1 DEF ServerInv, RotationRevokesParent, Server!RotationRevokesParent
    <3> QED
      BY <3>1, <3>2
  <2> QED
    BY <2>1 DEF RotationRevokesParent, Server!RotationRevokesParent
<1> QED
  BY <1>1, <1>2, <1>3 DEF ServerInv, Server!HandlersHoldTokens

LEMMA ServerPreserves == ServerInv /\ ServerStep => ServerInv'
<1> SUFFICES ASSUME ServerInv, ServerStep PROVE ServerInv'
  OBVIOUS
<1>0. /\ refresh \in [Server!Pairs -> {"none", "valid", "revoked", "expired"}]
      /\ parent \in [Server!Pairs -> Server!Pairs \cup {Server!None}]
      /\ expired \subseteq Server!Pairs /\ blacklist \subseteq Server!Pairs
      /\ active \in BOOLEAN /\ handlers \in [Slots -> Server!Handler]
      /\ \A q \in Slots : handlers[q] \in Server!Handler /\ Server!HoldsTokens(q)
  BY DEF ServerInv, Server!AuthTypeOK, Server!HandlersHoldTokens
<1>1. ASSUME NEW q \in Slots, NEW kind \in Server!Kinds,
             NEW access \in Server!Pairs \cup {Server!None},
             NEW tok \in Server!Pairs \cup {Server!None}, Server!Receive(q, kind, access, tok)
      PROVE  ServerInv'
  <2> DEFINE at == CASE kind \in {"api", "logout"} -> "guard"
                     [] kind = "login" -> "user"
                     [] kind = "refresh" -> IF tok = Server!None THEN "noToken" ELSE "read"
             shown == IF kind \in {"api", "logout"} THEN access ELSE Server!None
             h == [at |-> at, kind |-> kind, access |-> shown, cookie |-> tok,
                   pair |-> Server!None]
  <2>1. /\ at \in {"guard", "user", "noToken", "read"}
        /\ at = "read" => tok # Server!None
        /\ at = "user" => kind = "login"
    BY DEF Server!Kinds
  <2>2. /\ handlers' = [handlers EXCEPT ![q] = h]
        /\ UNCHANGED <<refresh, parent, expired, blacklist, active>>
    BY <1>1 DEF Server!Receive
  <2> HIDE DEF at
  <2>3. h \in Server!Handler
    BY <2>1 DEF Server!Handler, Server!Steps, Server!Ends
  <2>4. h.at = at /\ h.cookie = tok /\ h.kind = kind
    OBVIOUS
  <2> HIDE DEF h
  <2>5. handlers' \in [Slots -> Server!Handler] /\ handlers'[q] = h
        /\ \A p \in Slots \ {q} : handlers'[p] = handlers[p]
    BY <1>0, <2>2, <2>3
  <2>6. Server!HoldsTokens(q)'
    BY <2>1, <2>4, <2>5 DEF Server!HoldsTokens
  <2> QED
    BY <1>0, <2>2, <2>5, <2>6, ServerChange
<1>2. ASSUME NEW q \in Slots, Server!Guard(q)
      PROVE  ServerInv'
  <2>1. PICK at \in {"denied", "done", "blacklist"} :
          /\ Server!Go(q, at)
          /\ at = "blacklist" => handlers[q].access \in Server!Pairs
    BY <1>2 DEF Server!Guard, Server!Accepted
  <2>2. at \in ServerAts
    BY DEF ServerAts, Server!Steps, Server!Ends
  <2>3. UNCHANGED <<refresh, parent, expired, blacklist, active>>
    BY <1>2 DEF Server!Guard
  <2>4. Server!HoldsTokens(q)'
    BY <2>1, <2>2, HandlerMoves DEF Server!HoldsTokens
  <2> QED
    BY <1>0, <2>1, <2>2, <2>3, <2>4, HandlerMoves, ServerChange
<1>3. ASSUME NEW q \in Slots, Server!Blacklist(q)
      PROVE  ServerInv'
  <2>1. PICK at \in {"done", "revoke"} :
          /\ Server!Go(q, at)
          /\ at = "revoke" => handlers[q].cookie # Server!None
    BY <1>3 DEF Server!Blacklist
  <2>2. at \in ServerAts
    BY DEF ServerAts, Server!Steps, Server!Ends
  <2>3. UNCHANGED <<refresh, parent, expired, active>>
    BY <1>3 DEF Server!Blacklist
  <2>4. blacklist' \subseteq Server!Pairs
    BY <1>0, <1>3 DEF Server!Blacklist, Server!HoldsTokens
  <2>5. handlers[q].cookie \in Server!Pairs \cup {Server!None}
    BY <1>0 DEF Server!Handler
  <2>6. Server!HoldsTokens(q)'
    BY <2>1, <2>2, <2>5, HandlerMoves DEF Server!HoldsTokens
  <2> QED
    BY <1>0, <2>1, <2>2, <2>3, <2>4, <2>6, HandlerMoves, ServerChange
<1>4. ASSUME NEW q \in Slots, Server!ReadToken(q)
      PROVE  ServerInv'
  <2>1. PICK at \in {"rotate", "denied"} : Server!Go(q, at)
    BY <1>4 DEF Server!ReadToken
  <2>2. at \in ServerAts
    BY DEF ServerAts, Server!Steps, Server!Ends
  <2>3. UNCHANGED <<refresh, parent, expired, blacklist, active>>
    BY <1>4 DEF Server!ReadToken
  <2>4. handlers[q].cookie \in Server!Pairs
    BY <1>0, <1>4 DEF Server!ReadToken, Server!HoldsTokens
  <2>5. Server!HoldsTokens(q)'
    BY <2>1, <2>2, <2>4, HandlerMoves DEF Server!HoldsTokens
  <2> QED
    BY <1>0, <2>1, <2>2, <2>3, <2>5, HandlerMoves, ServerChange
<1>5. ASSUME NEW q \in Slots, Server!Revoke(q)
      PROVE  ServerInv'
  <2>1. PICK at \in {"user", "done"} :
          /\ Server!Go(q, at)
          /\ at = "user" => handlers[q].at = "rotate"
    BY <1>5 DEF Server!Revoke
  <2>2. at \in ServerAts
    BY DEF ServerAts, Server!Steps, Server!Ends
  <2>3. UNCHANGED <<parent, expired, blacklist, active>>
    BY <1>5 DEF Server!Revoke
  <2>4. handlers[q].cookie \in Server!Pairs
    BY <1>0, <1>5 DEF Server!Revoke, Server!HoldsTokens
  <2>5. /\ refresh' \in [Server!Pairs -> {"none", "valid", "revoked", "expired"}]
        /\ \A n \in Server!Pairs : refresh[n] = "revoked" => refresh'[n] = "revoked"
        /\ handlers[q].at = "rotate" => refresh'[handlers[q].cookie] = "revoked"
    BY <1>0, <1>5, <2>4 DEF Server!Revoke
  <2>6. Server!HoldsTokens(q)'
    BY <2>1, <2>2, <2>4, <2>5, HandlerMoves DEF Server!HoldsTokens
  <2> QED
    BY <1>0, <2>1, <2>2, <2>3, <2>5, <2>6, HandlerMoves, ServerChange
<1>6. ASSUME NEW q \in Slots, Server!CheckUser(q)
      PROVE  ServerInv'
  <2>1. PICK at \in {"issue", "denied"} : Server!Go(q, at)
    BY <1>6 DEF Server!CheckUser
  <2>2. at \in ServerAts
    BY DEF ServerAts, Server!Steps, Server!Ends
  <2>3. UNCHANGED <<refresh, parent, expired, blacklist, active>>
    BY <1>6 DEF Server!CheckUser
  <2>4. handlers[q].kind = "refresh" =>
          handlers[q].cookie \in Server!Pairs /\ refresh[handlers[q].cookie] = "revoked"
    BY <1>0, <1>6 DEF Server!CheckUser, Server!HoldsTokens
  <2>5. Server!HoldsTokens(q)'
    BY <2>1, <2>2, <2>3, <2>4, HandlerMoves DEF Server!HoldsTokens
  <2> QED
    BY <1>0, <2>1, <2>2, <2>3, <2>5, HandlerMoves, ServerChange
<1>7. ASSUME NEW q \in Slots, Server!Issue(q)
      PROVE  ServerInv'
  <2>1. PICK n \in Server!Pairs :
          /\ refresh[n] = "none"
          /\ refresh' = [refresh EXCEPT ![n] = "valid"]
          /\ parent' = [parent EXCEPT ![n] =
               IF handlers[q].kind = "refresh" THEN handlers[q].cookie ELSE Server!None]
          /\ handlers' = [handlers EXCEPT ![q] = [@ EXCEPT !.at = "done", !.pair = n]]
    BY <1>7 DEF Server!Issue
  <2>2. UNCHANGED <<expired, blacklist, active>>
    BY <1>7 DEF Server!Issue
  <2>3. handlers[q].kind = "refresh" =>
          handlers[q].cookie \in Server!Pairs /\ refresh[handlers[q].cookie] = "revoked"
    BY <1>0, <1>7 DEF Server!Issue, Server!HoldsTokens
  <2>4. /\ refresh' \in [Server!Pairs -> {"none", "valid", "revoked", "expired"}]
        /\ \A m \in Server!Pairs : refresh[m] = "revoked" => refresh'[m] = "revoked"
    BY <1>0, <2>1
  <2>5. /\ parent' \in [Server!Pairs -> Server!Pairs \cup {Server!None}]
        /\ \A m \in Server!Pairs : parent'[m] # Server!None =>
             parent'[m] = parent[m] \/ refresh[parent'[m]] = "revoked"
    BY <1>0, <2>1, <2>3
  <2> DEFINE k == [handlers[q] EXCEPT !.at = "done", !.pair = n]
  <2>6. k \in Server!Handler /\ k.at = "done"
    BY <1>0, HandlerIssues
  <2>7. handlers' = [handlers EXCEPT ![q] = k]
    BY <1>0, <2>1
  <2> HIDE DEF k
  <2>8. /\ handlers' \in [Slots -> Server!Handler] /\ handlers'[q].at = "done"
        /\ \A p \in Slots \ {q} : handlers'[p] = handlers[p]
    BY <1>0, <2>6, <2>7
  <2>9. Server!HoldsTokens(q)'
    BY <2>8 DEF Server!HoldsTokens
  <2> QED
    BY <1>0, <2>2, <2>4, <2>5, <2>8, <2>9, ServerChange
<1>8. ASSUME NEW q \in Slots, Server!Fail(q) \/ Server!Answered(q)
      PROVE  ServerInv'
  <2>1. UNCHANGED <<refresh, parent, expired, blacklist, active>>
    BY <1>8 DEF Server!Fail, Server!Answered
  <2>2. /\ handlers' \in [Slots -> Server!Handler] /\ handlers'[q].at \in {"error", "idle"}
        /\ \A p \in Slots \ {q} : handlers'[p] = handlers[p]
    <3>1. CASE Server!Fail(q)
      <4>1. Server!Go(q, "error") /\ "error" \in ServerAts
        BY <3>1 DEF Server!Fail, ServerAts, Server!Ends
      <4> QED
        BY <4>1, HandlerMoves
    <3>2. CASE Server!Answered(q)
      <4>1. Server!NoHandler \in Server!Handler /\ Server!NoHandler.at = "idle"
        BY DEF Server!NoHandler, Server!Handler, Server!Kinds
      <4> QED
        BY <1>0, <3>2, <4>1 DEF Server!Answered
    <3> QED
      BY <1>8, <3>1, <3>2
  <2>3. Server!HoldsTokens(q)'
    BY <2>2 DEF Server!HoldsTokens
  <2> QED
    BY <1>0, <2>1, <2>2, <2>3, ServerChange
<1>9. ASSUME handlers' = handlers, parent' = parent,
             \/ \E n \in Server!Pairs : Server!ExpireAccess(n) \/ Server!ExpireRefresh(n)
             \/ Server!Deactivate
             \/ UNCHANGED authVars
      PROVE  ServerInv'
  <2>1. /\ refresh' \in [Server!Pairs -> {"none", "valid", "revoked", "expired"}]
        /\ \A n \in Server!Pairs : refresh[n] = "revoked" => refresh'[n] = "revoked"
    BY <1>0, <1>9
       DEF Server!ExpireAccess, Server!ExpireRefresh, Server!Deactivate, authVars
  <2>2. expired' \subseteq Server!Pairs /\ blacklist' \subseteq Server!Pairs
        /\ active' \in BOOLEAN
    BY <1>0, <1>9
       DEF Server!ExpireAccess, Server!ExpireRefresh, Server!Deactivate, authVars
  <2>3. Server!AuthTypeOK'
    BY <1>0, <1>9, <2>1, <2>2 DEF Server!AuthTypeOK
  <2>4. ASSUME NEW q \in Slots PROVE Server!HoldsTokens(q)'
    BY <1>0, <1>9, <2>1 DEF Server!HoldsTokens
  <2>5. RotationRevokesParent'
    BY <1>0, <1>9, <2>1
       DEF ServerInv, RotationRevokesParent, Server!RotationRevokesParent
  <2> QED
    BY <2>3, <2>4, <2>5 DEF ServerInv, Server!HandlersHoldTokens
<1>10. CASE UNCHANGED authVars
  BY <1>9, <1>10 DEF authVars
<1>11. CASE \/ \E n \in Server!Pairs : Server!ExpireAccess(n) \/ Server!ExpireRefresh(n)
            \/ Server!Deactivate
  BY <1>9, <1>11 DEF Server!ExpireAccess, Server!ExpireRefresh, Server!Deactivate
<1> QED
  BY <1>1, <1>2, <1>3, <1>4, <1>5, <1>6, <1>7, <1>8, <1>10, <1>11
     DEF ServerStep, Server!AuthNext, Server!Work, authVars, Server!authVars

-----------------------------------------------------------------------------
(* The composition.                                                         *)

SessionInv == ClientInv /\ ServerInv /\ cookie \in Pairs \cup {None} /\ scope \in Scopes

\* What the tab asks the server for is something the server answers, with a token
\* it can look up, and the other way round.
LEMMA StepOfEach ==
  SessionInv /\ [Next]_vars =>
    ClientStep /\ ServerStep /\ cookie' \in Pairs \cup {None} /\ scope' = scope
<1> SUFFICES ASSUME SessionInv, [Next]_vars
             PROVE  ClientStep /\ ServerStep /\ cookie' \in Pairs \cup {None} /\ scope' = scope
  OBVIOUS
<1> USE DEF ClientStep, ServerStep
<1>0. /\ cookie \in Pairs \cup {None} /\ scope \in Scopes
      /\ Server!Pairs = Pairs /\ Server!None = None /\ Client!None = None
  BY DEF SessionInv, Pairs, None, Server!Pairs, Server!None, Client!None
<1>1. ASSUME NEW q \in scope.slots
      PROVE  /\ q \in Slots /\ q[1] \in Tabs /\ q[2] \in Calls /\ q = <<q[1], q[2]>>
             /\ calls[q[1]][q[2]] \in Client!Call /\ handlers[q] \in Server!Handler
  <2>1. q \in Slots /\ q[1] \in Tabs /\ q[2] \in Calls /\ q = <<q[1], q[2]>>
    BY <1>0, BrowserAssumption
  <2> QED
    BY <2>1 DEF SessionInv, ClientInv, ServerInv, Client!ClientTypeOK, Server!AuthTypeOK
<1>2. ASSUME NEW q \in scope.slots, Start(q[1], q[2])
      PROVE  ClientStep /\ ServerStep /\ cookie' \in Pairs \cup {None} /\ scope' = scope
  <2>1. PICK kind \in Client!CallKinds : Client!Send(q[1], q[2], kind)
    BY <1>2 DEF Start, Client!CallKinds
  <2>2. Client!ClientNext
    BY <1>1, <2>1 DEF Client!ClientNext
  <2> QED
    BY <1>0, <1>2, <2>2 DEF Start
<1>3. ASSUME NEW q \in scope.slots, Arrive(q[1], q[2])
      PROVE  ClientStep /\ ServerStep /\ cookie' \in Pairs \cup {None} /\ scope' = scope
  <2>1. /\ Asked(q[1], q[2]) \in Server!Kinds
        /\ calls[q[1]][q[2]].token \in Pairs \cup {None}
    BY <1>0, <1>1 DEF Asked, Server!Kinds, Client!Call, Client!CallKinds
  <2>2. Server!Receive(q, Asked(q[1], q[2]), calls[q[1]][q[2]].token, cookie)
    BY <1>1, <1>3 DEF Arrive
  <2>3. Server!AuthNext
    BY <1>0, <1>1, <2>1, <2>2 DEF Server!AuthNext
  <2> QED
    BY <1>0, <1>3, <2>3 DEF Arrive
<1>4. ASSUME NEW q \in scope.slots, Serve(q[1], q[2]) \/ Fail(q[1], q[2])
      PROVE  ClientStep /\ ServerStep /\ cookie' \in Pairs \cup {None} /\ scope' = scope
  <2>1. Server!Work(q) \/ Server!Fail(q)
    BY <1>1, <1>4 DEF Serve, Fail
  <2>2. Server!AuthNext
    BY <1>1, <2>1 DEF Server!AuthNext
  <2> QED
    BY <1>0, <1>4, <2>2 DEF Serve, Fail
<1>5. ASSUME NEW q \in scope.slots, Answer(q[1], q[2])
      PROVE  ClientStep /\ ServerStep /\ cookie' \in Pairs \cup {None} /\ scope' = scope
  <2>1. handlers[q].pair \in Pairs \cup {None} /\ (handlers[q].at = "done") \in BOOLEAN
    BY <1>0, <1>1 DEF Server!Handler
  <2>2. Server!Answered(q)
    BY <1>1, <1>5 DEF Answer
  <2>3. Server!AuthNext
    BY <1>1, <2>2 DEF Server!AuthNext
  <2>4. \/ UNCHANGED clientVars
        \/ Client!Refreshed(q[1], q[2], handlers[q].pair)
        \/ Client!RefreshFailed(q[1], q[2])
        \/ Client!Unauthorized(q[1], q[2])
        \/ Client!Settle(q[1], q[2], handlers[q].at = "done", handlers[q].pair)
    BY <1>1, <1>5 DEF Answer
  <2>5. ClientStep
    BY <1>0, <1>1, <2>1, <2>4 DEF Client!ClientNext
  <2>6. cookie' \in Pairs \cup {None} /\ scope' = scope
    BY <1>0, <1>1, <1>5, <2>1 DEF Answer
  <2> QED
    BY <2>3, <2>5, <2>6
<1>6. ASSUME Environment
      PROVE  ClientStep /\ ServerStep /\ cookie' \in Pairs \cup {None} /\ scope' = scope
  <2>1. \/ \E n \in Pairs : Server!ExpireAccess(n) \/ Server!ExpireRefresh(n)
        \/ Server!Deactivate
    BY <1>0, <1>6, BrowserAssumption DEF Environment
  <2>2. Server!AuthNext
    BY <1>0, <2>1 DEF Server!AuthNext
  <2> QED
    BY <1>0, <1>6, <2>2 DEF Environment
<1>7. CASE UNCHANGED vars
  BY <1>0, <1>7 DEF vars, clientVars, authVars
<1>8. ASSUME NEW q \in scope.slots, Reload(q[1], q[2])
      PROVE  ClientStep /\ ServerStep /\ cookie' \in Pairs \cup {None} /\ scope' = scope
  <2>1. Client!ClientNext
    BY <1>1, <1>8 DEF Reload, Client!ClientNext
  <2> QED
    BY <1>0, <1>8, <2>1 DEF Reload
<1> QED
  BY <1>2, <1>3, <1>4, <1>5, <1>6, <1>7, <1>8 DEF Next

LEMMA SessionInvariant == Spec => []SessionInv
<1>1. Init => SessionInv
  BY ClientInitially, ServerInitially DEF Init, SessionInv
<1>2. SessionInv /\ [Next]_vars => SessionInv'
  BY StepOfEach, ClientPreserves, ServerPreserves DEF SessionInv
<1> QED
  BY <1>1, <1>2, PTL DEF Spec

\* The variables keep their types: a logged out token is one that was shown, a
\* queued call is one of the tab's, and the cookie holds an issued pair or none.
THEOREM TypeCorrect == Spec => []TypeOK
<1>1. SessionInv => TypeOK
  BY DEF SessionInv, ClientInv, ServerInv, TypeOK
<1> QED
  BY <1>1, SessionInvariant, PTL

\* In every tab the queue of calls that were answered 401 (failedQueue) is served
\* by exactly one refresh under way, whatever the server answers and when.
THEOREM QueueServed == Spec => []OneRefreshServesTheQueue
<1>1. SessionInv => OneRefreshServesTheQueue
  BY DEF SessionInv, ClientInv
<1> QED
  BY <1>1, SessionInvariant, PTL

\* A refresh token that was exchanged is revoked before its successor exists and
\* stays so (refreshToken), with any number of requests, tabs, failures.
THEOREM ParentsRevoked == Spec => []RotationRevokesParent
<1>1. SessionInv => RotationRevokesParent
  BY DEF SessionInv, ServerInv
<1> QED
  BY <1>1, SessionInvariant, PTL

-----------------------------------------------------------------------------
(* A session nothing but expiring access tokens disturbs.                   *)

\* What StaysSignedIn is about.
Quiet == scope.ops = {} /\ \A p, q \in scope.slots : p[1] = q[1]

\* Only calls of the slots wait; a page has its own kinds of call, the login page one call.
KindsOn(shown) == IF shown = "app" THEN {"api"} ELSE {"login", "me"}
CallsFit ==
  \A u \in Tabs, c \in Calls : calls[u][c].at # "idle" =>
    /\ <<u, c>> \in scope.slots
    /\ calls[u][c].kind \in KindsOn(page[u])
    /\ \A d \in Calls : page[u] # "app" /\ calls[u][d].at # "idle" => c = d

\* A handler works for a call that waits for it.  A refresh acts on the browser's cookie,
\* which is valid until it rotates it; the pair it issues is valid until it is answered.
HandlerFits(q) ==
  LET h == handlers[q] IN
  h.at # "idle" =>
    /\ q \in scope.slots
    /\ calls[q[1]][q[2]].at \in {"sent", "refreshing"} /\ h.kind = Asked(q[1], q[2])
    /\ h.at # "done" \/ h.kind = "api" => h.pair = None
    /\ h.at = "done" /\ h.kind # "api" => h.pair \in Pairs /\ refresh[h.pair] = "valid"
    /\ h.kind = "api" => h.at \in {"guard", "denied", "done"}
    /\ h.kind = "login" => h.at \in {"user", "issue", "denied", "done"}
    /\ h.kind = "refresh" =>
         /\ h.at \in {"noToken", "read", "rotate", "user", "issue", "done"}
         /\ h.cookie = cookie
         /\ h.at \in {"read", "rotate"} => cookie \in Pairs /\ refresh[cookie] = "valid"

\* The cookie is exchanged by a refresh under way, or it is none or valid.
Exchanged(q) == handlers[q].kind = "refresh" /\ handlers[q].at \in {"user", "issue", "done"}
CookieFits == (\E q \in Slots : Exchanged(q)) \/ cookie = None \/ refresh[cookie] = "valid"

QuietInv ==
  Quiet => active /\ CallsFit /\ (\A q \in Slots : HandlerFits(q)) /\ CookieFits

\* Facts about the types, in the terms of this module.
LEMMA SessionTypes ==
  SessionInv =>
    /\ refresh \in [Pairs -> {"none", "valid", "revoked", "expired"}]
    /\ handlers \in [Slots -> Server!Handler]
    /\ calls \in [Tabs -> [Calls -> Client!Call]]
    /\ page \in [Tabs -> Pages]
    /\ cookie \in Pairs \cup {None} /\ scope \in Scopes
    /\ \A q \in Slots : q[1] \in Tabs /\ q[2] \in Calls /\ q = <<q[1], q[2]>>
    /\ scope.slots \subseteq Slots
BY BrowserAssumption
   DEF SessionInv, ClientInv, ServerInv, Client!ClientTypeOK, Server!AuthTypeOK, Pairs, Server!Pairs, Pages

\* Besides calls of pages at most one request is handled, a login or the refresh.
LEMMA OneLoginOrRefresh ==
  ASSUME SessionInv, QuietInv, Quiet, NEW p \in Slots, NEW q \in Slots,
         handlers[p].at # "idle", handlers[q].at # "idle",
         handlers[p].kind # "api", handlers[q].kind # "api"
  PROVE  p = q
<1> DEFINE t == p[1]
<1>1. /\ p \in scope.slots /\ q \in scope.slots /\ q[1] = t
      /\ t \in Tabs /\ p[2] \in Calls /\ q[2] \in Calls /\ p = <<t, p[2]>> /\ q = <<t, q[2]>>
  BY SessionTypes DEF QuietInv, HandlerFits, Quiet
<1>2. /\ calls[t][p[2]].at \in {"sent", "refreshing"} /\ handlers[p].kind = Asked(t, p[2])
      /\ calls[t][q[2]].at \in {"sent", "refreshing"} /\ handlers[q].kind = Asked(t, q[2])
  BY <1>1 DEF QuietInv, HandlerFits
<1>3. CASE calls[t][p[2]].at = "refreshing" /\ calls[t][q[2]].at = "refreshing"
  <2>1. p[2] = q[2]
    BY <1>1, <1>3
       DEF SessionInv, ClientInv, OneRefreshServesTheQueue, Client!OneRefreshServesTheQueue
  <2> QED
    BY <1>1, <2>1
<1>4. CASE calls[t][p[2]].at = "sent" \/ calls[t][q[2]].at = "sent"
  <2>1. page[t] # "app"
    BY <1>1, <1>2, <1>4, SessionTypes DEF QuietInv, CallsFit, Asked, KindsOn
  <2>2. p[2] = q[2]
    BY <1>1, <1>2, <2>1 DEF QuietInv, CallsFit
  <2> QED
    BY <1>1, <2>2
<1> QED
  BY <1>2, <1>3, <1>4

\* One handler changes, or none, and its call: what it changes of tokens concerns no other.
LEMMA QuietChange ==
  ASSUME SessionInv, QuietInv, Quiet, NEW q \in Slots,
         active', scope' = scope, CallsFit', HandlerFits(q)', CookieFits',
         \A p \in Slots \ {q} : handlers'[p] = handlers[p],
         \A p \in Slots \ {q} : handlers[p].at # "idle" =>
           calls'[p[1]][p[2]] = calls[p[1]][p[2]],
         \/ refresh' = refresh /\ cookie' = cookie
         \/ handlers[q].at # "idle" /\ handlers[q].kind # "api"
  PROVE  QuietInv'
<1>1. ASSUME NEW p \in Slots \ {q} PROVE HandlerFits(p)'
  <2>1. handlers'[p] = handlers[p] /\ HandlerFits(p) /\ p \in Slots
    BY DEF QuietInv
  <2>2. CASE handlers[p].at = "idle"
    BY <2>1, <2>2 DEF HandlerFits
  <2>3. CASE handlers[p].at # "idle"
    <3>1. calls'[p[1]][p[2]] = calls[p[1]][p[2]]
      BY <2>3
    <3>2. Asked(p[1], p[2])' = Asked(p[1], p[2])
      BY <3>1 DEF Asked
    <3>3. handlers[p].kind = "api" \/ (refresh' = refresh /\ cookie' = cookie)
      BY <2>1, <2>3, OneLoginOrRefresh
    <3>4. CASE handlers[p].kind = "api"
      BY <2>1, <2>3, <3>1, <3>2, <3>4 DEF HandlerFits
    <3>5. CASE refresh' = refresh /\ cookie' = cookie
      BY <2>1, <2>3, <3>1, <3>2, <3>5 DEF HandlerFits
    <3> QED
      BY <3>3, <3>4, <3>5
  <2> QED
    BY <2>2, <2>3
<1> QED
  BY <1>1 DEF QuietInv

LEMMA QuietInitially == Init => QuietInv
<1> SUFFICES ASSUME Init PROVE QuietInv
  OBVIOUS
<1>1. active /\ CookieFits
  BY DEF Init, Server!AuthInit, CookieFits
<1>2. CallsFit
  BY DEF Init, Client!ClientInit, Client!NoCall, CallsFit
<1>3. \A q \in Slots : HandlerFits(q)
  BY DEF Init, Server!AuthInit, Server!NoHandler, HandlerFits
<1> QED
  BY <1>1, <1>2, <1>3 DEF QuietInv

\* A call is started.
LEMMA QuietStart ==
  ASSUME SessionInv, QuietInv, Quiet, NEW q \in scope.slots, Start(q[1], q[2])
  PROVE  QuietInv' /\ page' = page
<1> DEFINE t == q[1]
           c == q[2]
<1>1. q \in Slots /\ t \in Tabs /\ c \in Calls /\ q = <<t, c>>
  BY SessionTypes
<1>2. PICK kind \in {"api", "login"} :
        /\ handlers[q].at = "idle"
        /\ Client!Send(t, c, kind)
        /\ UNCHANGED <<authVars, cookie, scope>>
  BY <1>1 DEF Start, Busy, Quiet
<1> DEFINE new == [at |-> "sent", kind |-> kind, token |-> token[t], retry |-> FALSE]
<1>3. /\ calls[t][c].at = "idle" /\ page' = page
      /\ calls' = [calls EXCEPT ![t][c] = new]
      /\ kind = "api" => page[t] = "app"
      /\ kind = "login" =>
           /\ page[t] = "login"
           /\ \A d \in Calls : calls[t][d].at = "idle" \/ calls[t][d].kind \notin {"login", "me"}
  BY <1>2 DEF Client!Send, Client!Sent, Client!LoadsNoLogin
<1>4. new.at = "sent" /\ new.kind = kind
  OBVIOUS
<1> HIDE DEF new
<1>5. /\ calls'[t][c] = new
      /\ \A u \in Tabs, d \in Calls : <<u, d>> # q => calls'[u][d] = calls[u][d]
  BY <1>1, <1>3, SessionTypes
<1>6. UNCHANGED <<active, refresh, handlers, cookie, scope>>
  BY <1>2 DEF authVars
<1>7. CallsFit'
  <2>1. kind = "login" => \A d \in Calls : calls[t][d].at = "idle"
    BY <1>1, <1>3 DEF QuietInv, CallsFit, KindsOn
  <2>2. page[t] # "app" => kind = "login"
    BY <1>3
  <2>3. kind \in KindsOn(page[t])
    BY <1>3 DEF KindsOn
  <2>4. ASSUME NEW u \in Tabs, NEW d \in Calls, calls'[u][d].at # "idle"
        PROVE  /\ <<u, d>> \in scope.slots
               /\ calls'[u][d].kind \in KindsOn(page[u])
               /\ \A e \in Calls : page[u] # "app" /\ calls'[u][e].at # "idle" => d = e
    <3>1. CASE u = t /\ d = c
      BY <1>1, <1>3, <1>4, <1>5, <2>1, <2>2, <2>3, <3>1
    <3>2. CASE <<u, d>> # q
      <4>1. calls'[u][d] = calls[u][d]
        BY <1>5, <3>2
      <4>2. /\ <<u, d>> \in scope.slots
            /\ calls[u][d].kind \in KindsOn(page[u])
            /\ \A e \in Calls : page[u] # "app" /\ calls[u][e].at # "idle" => d = e
        BY <2>4, <4>1 DEF QuietInv, CallsFit
      <4>3. ASSUME NEW e \in Calls, page[u] # "app", calls'[u][e].at # "idle"
            PROVE  d = e
        <5>1. <<u, e>> # q
          BY <1>1, <2>1, <2>2, <2>4, <4>1, <4>3
        <5> QED
          BY <1>5, <4>2, <4>3, <5>1
      <4> QED
        BY <4>1, <4>2, <4>3
    <3> QED
      BY <1>1, <3>1, <3>2
  <2> QED
    BY <1>3, <1>6, <2>4 DEF CallsFit, KindsOn
<1>8. HandlerFits(q)'
  BY <1>2, <1>6 DEF HandlerFits
<1>9. CookieFits'
  BY <1>6 DEF QuietInv, CookieFits, Exchanged
<1>10. \A p \in Slots \ {q} : calls'[p[1]][p[2]] = calls[p[1]][p[2]]
  BY <1>1, <1>5, SessionTypes
<1>11. active'
  BY <1>6 DEF QuietInv
<1> QED
  BY <1>1, <1>3, <1>6, <1>7, <1>8, <1>9, <1>10, <1>11, QuietChange

\* A request reaches the server: a refresh brings the browser's cookie, which no other
\* refresh is exchanging.
LEMMA QuietArrive ==
  ASSUME SessionInv, QuietInv, Quiet, NEW q \in scope.slots, Arrive(q[1], q[2])
  PROVE  QuietInv' /\ page' = page
<1> DEFINE t == q[1]
           c == q[2]
           kind == Asked(t, c)
<1>1. q \in Slots /\ t \in Tabs /\ c \in Calls /\ q = <<t, c>> /\ handlers[q] \in Server!Handler
  BY SessionTypes
<1>2. /\ calls[t][c].at \in {"sent", "refreshing"} /\ handlers[q].at = "idle"
      /\ Server!Receive(q, kind, calls[t][c].token, cookie)
      /\ UNCHANGED <<active, refresh, cookie, scope>>
      /\ UNCHANGED <<calls, page>>
  BY <1>1 DEF Arrive, Server!Receive, clientVars
<1>3. kind \in {"api", "login", "refresh"}
  BY <1>1, <1>2 DEF QuietInv, CallsFit, Asked, KindsOn
<1> DEFINE at == IF kind = "api" THEN "guard" ELSE IF kind = "login" THEN "user"
                 ELSE IF cookie = None THEN "noToken" ELSE "read"
           shown == IF kind = "api" THEN calls[t][c].token ELSE None
           h == [at |-> at, kind |-> kind, access |-> shown, cookie |-> cookie, pair |-> None]
<1>4. handlers' = [handlers EXCEPT ![q] = h]
  <2>1. CASE kind = "api"
    BY <1>2, <2>1 DEF Server!Receive, Server!None, None
  <2>2. CASE kind = "login"
    BY <1>2, <2>2 DEF Server!Receive, Server!None, None
  <2>3. CASE kind = "refresh"
    BY <1>2, <2>3 DEF Server!Receive, Server!None, None
  <2> QED
    BY <1>3, <2>1, <2>2, <2>3
<1>5. h.at = at /\ h.kind = kind /\ h.cookie = cookie /\ h.pair = None
  OBVIOUS
<1>6. /\ at \in {"guard", "user", "noToken", "read"} /\ (at = "guard" <=> kind = "api")
      /\ at = "user" <=> kind = "login"
      /\ at = "noToken" => cookie = None
      /\ at = "read" => kind = "refresh" /\ cookie # None
  BY <1>3
<1> HIDE DEF at, h
<1>7. /\ handlers'[q] = h /\ \A p \in Slots \ {q} : handlers'[p] = handlers[p]
  BY <1>1, <1>4, SessionTypes
<1>8. kind = "refresh" => ~\E p \in Slots : Exchanged(p)
  <2> SUFFICES ASSUME kind = "refresh", NEW p \in Slots, Exchanged(p) PROVE FALSE
    OBVIOUS
  <2>1. /\ p \in scope.slots /\ handlers[p].at # "idle" /\ Asked(p[1], p[2]) = "refresh"
        /\ p[1] = t /\ p[2] \in Calls /\ p = <<t, p[2]>>
    BY <1>1, SessionTypes DEF Exchanged, QuietInv, HandlerFits, Quiet
  <2>2. calls[t][p[2]].at = "refreshing" /\ calls[t][c].at = "refreshing"
    <3>1. calls[t][p[2]].kind # "refresh" /\ calls[t][c].kind # "refresh"
      BY <1>1, <2>1, SessionTypes DEF Client!Call, Client!CallKinds
    <3> QED
      BY <2>1, <3>1 DEF Asked
  <2>3. p[2] = c
    BY <1>1, <2>1, <2>2
       DEF SessionInv, ClientInv, OneRefreshServesTheQueue, Client!OneRefreshServesTheQueue
  <2> QED
    BY <1>1, <1>2, <2>1, <2>3
<1>9. at = "read" => cookie \in Pairs /\ refresh[cookie] = "valid"
  BY <1>6, <1>8, SessionTypes DEF QuietInv, CookieFits
<1>10. Asked(t, c)' = kind
  BY <1>2 DEF Asked
<1>11. HandlerFits(q)'
  BY <1>2, <1>3, <1>5, <1>6, <1>7, <1>9, <1>10 DEF HandlerFits
<1>12. CookieFits'
  <2>1. \A p \in Slots : Exchanged(p) => Exchanged(p)'
    BY <1>2, <1>7 DEF Exchanged
  <2> QED
    BY <1>2, <2>1 DEF QuietInv, CookieFits
<1>13. CallsFit' /\ active'
  BY <1>2 DEF QuietInv, CallsFit, KindsOn
<1> QED
  BY <1>1, <1>2, <1>7, <1>11, <1>12, <1>13, QuietChange

\* A handler that moves on and keeps what it has, while no token changes.
LEMMA QuietMove ==
  ASSUME SessionInv, QuietInv, Quiet, NEW q \in Slots, handlers[q].at # "idle",
         handlers[q].pair = None,
         NEW at \in ServerAts \ {"idle"}, Server!Go(q, at),
         UNCHANGED <<active, refresh, cookie, scope>>, UNCHANGED <<calls, page>>,
         at = "done" => handlers[q].kind = "api",
         handlers[q].kind = "api" => at \in {"guard", "denied", "done"},
         handlers[q].kind = "login" => at \in {"user", "issue", "denied"},
         handlers[q].kind = "refresh" => at \in {"read", "rotate", "user", "issue"},
         handlers[q].kind = "refresh" /\ at \in {"read", "rotate"} =>
           cookie \in Pairs /\ refresh[cookie] = "valid",
         Exchanged(q) => Exchanged(q)'
  PROVE  QuietInv'
<1> DEFINE k == [handlers[q] EXCEPT !.at = at]
<1>1. handlers \in [Slots -> Server!Handler] /\ handlers[q] \in Server!Handler
  BY SessionTypes
<1>2. /\ k.at = at /\ k.kind = handlers[q].kind /\ k.cookie = handlers[q].cookie
      /\ k.pair = handlers[q].pair
  BY <1>1 DEF Server!Handler
<1>3. handlers' = [handlers EXCEPT ![q] = k]
  BY <1>1 DEF Server!Go
<1> HIDE DEF k
<1>4. handlers'[q] = k /\ \A p \in Slots \ {q} : handlers'[p] = handlers[p]
  BY <1>1, <1>3
<1>5. HandlerFits(q)
  BY DEF QuietInv
<1>6. Asked(q[1], q[2])' = Asked(q[1], q[2])
  BY DEF Asked
<1>7. HandlerFits(q)'
  BY <1>2, <1>4, <1>5, <1>6 DEF HandlerFits
<1>8. CookieFits'
  <2>1. \A p \in Slots : Exchanged(p) => Exchanged(p)'
    BY <1>4 DEF Exchanged
  <2> QED
    BY <2>1 DEF QuietInv, CookieFits
<1>9. CallsFit' /\ active'
  BY DEF QuietInv, CallsFit, KindsOn
<1> QED
  BY <1>4, <1>7, <1>8, <1>9, QuietChange

\* The server works for a call.
LEMMA QuietServe ==
  ASSUME SessionInv, QuietInv, Quiet, NEW q \in scope.slots, Serve(q[1], q[2])
  PROVE  QuietInv' /\ page' = page
<1>0. /\ q \in Slots /\ q = <<q[1], q[2]>> /\ handlers[q] \in Server!Handler
      /\ handlers \in [Slots -> Server!Handler]
      /\ refresh \in [Pairs -> {"none", "valid", "revoked", "expired"}]
      /\ HandlerFits(q) /\ active
      /\ Server!Pairs = Pairs /\ Server!None = None
  BY SessionTypes DEF QuietInv, Server!Pairs, Pairs, Server!None, None
<1>1. UNCHANGED <<cookie, scope>> /\ UNCHANGED <<calls, page>>
  BY DEF Serve, clientVars
<1>2. handlers[q].at # "idle" => handlers[q].kind \in {"api", "login", "refresh"}
  <2>1. handlers[q].at # "idle" => /\ calls[q[1]][q[2]].at # "idle"
                                   /\ handlers[q].kind = Asked(q[1], q[2])
    BY <1>0 DEF HandlerFits
  <2> QED
    BY <2>1, SessionTypes DEF QuietInv, CallsFit, Asked, KindsOn
<1>3. CASE Server!Guard(q)
  <2>1. handlers[q].at = "guard" /\ handlers[q].kind = "api" /\ handlers[q].pair = None
    BY <1>0, <1>2, <1>3 DEF Server!Guard, HandlerFits
  <2>2. PICK at \in {"denied", "done"} : Server!Go(q, at)
    BY <1>3, <2>1 DEF Server!Guard
  <2>3. at \in ServerAts \ {"idle"}
    BY DEF ServerAts, Server!Ends
  <2>4. UNCHANGED <<active, refresh>>
    BY <1>3 DEF Server!Guard
  <2>5. ~Exchanged(q)
    BY <2>1 DEF Exchanged
  <2> QED
    BY <1>0, <1>1, <2>1, <2>2, <2>3, <2>4, <2>5, QuietMove
<1>4. CASE Server!Blacklist(q)
  BY <1>0, <1>2, <1>4 DEF Server!Blacklist, HandlerFits
<1>5. CASE Server!ReadToken(q)
  <2>1. /\ handlers[q].at = "read" /\ handlers[q].kind = "refresh" /\ handlers[q].pair = None
        /\ handlers[q].cookie = cookie /\ cookie \in Pairs /\ refresh[cookie] = "valid"
    BY <1>0, <1>2, <1>5 DEF Server!ReadToken, HandlerFits
  <2>2. Server!Go(q, "rotate") /\ "rotate" \in ServerAts \ {"idle"}
    BY <1>5, <2>1 DEF Server!ReadToken, ServerAts, Server!Steps
  <2>3. UNCHANGED <<active, refresh>>
    BY <1>5 DEF Server!ReadToken
  <2>4. ~Exchanged(q)
    BY <2>1 DEF Exchanged
  <2> QED
    BY <1>0, <1>1, <2>1, <2>2, <2>3, <2>4, QuietMove
<1>6. CASE Server!CheckUser(q)
  <2>1. /\ handlers[q].at = "user" /\ handlers[q].kind \in {"login", "refresh"}
        /\ handlers[q].pair = None
    BY <1>0, <1>2, <1>6 DEF Server!CheckUser, HandlerFits
  <2>2. PICK at \in {"issue", "denied"} :
          Server!Go(q, at) /\ (at = "denied" => handlers[q].kind = "login")
    BY <1>0, <1>6 DEF Server!CheckUser
  <2>3. at \in ServerAts \ {"idle"}
    BY DEF ServerAts, Server!Ends, Server!Steps
  <2>4. UNCHANGED <<active, refresh>>
    BY <1>6 DEF Server!CheckUser
  <2>5. handlers'[q].at = at /\ handlers'[q].kind = handlers[q].kind
    BY <1>0, <2>2, <2>3, HandlerMoves DEF SessionInv
  <2>6. Exchanged(q) => Exchanged(q)'
    BY <2>2, <2>5 DEF Exchanged
  <2> QED
    BY <1>0, <1>1, <2>1, <2>2, <2>3, <2>4, <2>6, QuietMove
<1>7. CASE Server!Revoke(q)
  <2>1. /\ handlers[q].at = "rotate" /\ handlers[q].kind = "refresh" /\ handlers[q].pair = None
        /\ handlers[q].cookie = cookie
    BY <1>0, <1>2, <1>7 DEF Server!Revoke, HandlerFits
  <2> DEFINE k == [handlers[q] EXCEPT !.at = "user"]
  <2>2. k.at = "user" /\ k.kind = "refresh" /\ k.pair = None /\ k.cookie = cookie
    BY <1>0, <2>1 DEF Server!Handler
  <2>3. handlers' = [handlers EXCEPT ![q] = k] /\ active' = active
    BY <1>0, <1>7, <2>1 DEF Server!Revoke, Server!Go
  <2> HIDE DEF k
  <2>4. handlers'[q] = k /\ \A p \in Slots \ {q} : handlers'[p] = handlers[p]
    BY <1>0, <2>3
  <2>5. Exchanged(q)'
    BY <2>2, <2>4 DEF Exchanged
  <2>6. CookieFits'
    BY <1>0, <2>5 DEF CookieFits
  <2>7. Asked(q[1], q[2])' = Asked(q[1], q[2])
    BY <1>1 DEF Asked
  <2>8. HandlerFits(q)'
    BY <1>0, <1>1, <2>1, <2>2, <2>4, <2>7 DEF HandlerFits
  <2>9. CallsFit' /\ active'
    BY <1>0, <1>1, <2>3 DEF QuietInv, CallsFit, KindsOn
  <2> QED
    BY <1>0, <1>1, <2>1, <2>4, <2>6, <2>8, <2>9, QuietChange
<1>8. CASE Server!Issue(q)
  <2>1. /\ handlers[q].at = "issue" /\ handlers[q].kind \in {"login", "refresh"}
        /\ handlers[q].kind = "refresh" => handlers[q].cookie = cookie
    BY <1>0, <1>2, <1>8 DEF Server!Issue, HandlerFits
  <2>2. PICK n \in Server!Pairs :
          /\ refresh[n] = "none"
          /\ refresh' = [refresh EXCEPT ![n] = "valid"]
          /\ handlers' = [handlers EXCEPT ![q] = [@ EXCEPT !.at = "done", !.pair = n]]
    BY <1>8, Zenon DEF Server!Issue
  <2> DEFINE k == [handlers[q] EXCEPT !.at = "done", !.pair = n]
  <2>3. k.at = "done" /\ k.kind = handlers[q].kind /\ k.pair = n /\ k.cookie = handlers[q].cookie
    BY <1>0 DEF Server!Handler
  <2>4. handlers' = [handlers EXCEPT ![q] = k] /\ active' = active
    BY <1>0, <1>8, <2>2 DEF Server!Issue
  <2> HIDE DEF k
  <2>5. handlers'[q] = k /\ \A p \in Slots \ {q} : handlers'[p] = handlers[p]
    BY <1>0, <2>4
  <2>6. refresh'[n] = "valid" /\ \A m \in Pairs : refresh[m] = "valid" => refresh'[m] = "valid"
    BY <1>0, <2>2
  <2>7. CookieFits'
    <3>1. \A p \in Slots : Exchanged(p) => Exchanged(p)'
      BY <2>3, <2>5 DEF Exchanged
    <3> QED
      BY <1>1, <2>6, <3>1, SessionTypes DEF QuietInv, CookieFits
  <2>8. Asked(q[1], q[2])' = Asked(q[1], q[2])
    BY <1>1 DEF Asked
  <2>9. HandlerFits(q)'
    BY <1>0, <1>1, <2>1, <2>3, <2>5, <2>6, <2>8 DEF HandlerFits
  <2>10. CallsFit' /\ active'
    BY <1>0, <1>1, <2>4 DEF QuietInv, CallsFit, KindsOn
  <2> QED
    BY <1>0, <1>1, <2>1, <2>5, <2>7, <2>9, <2>10, QuietChange
<1> QED
  BY <1>0, <1>1, <1>3, <1>4, <1>5, <1>6, <1>7, <1>8 DEF Serve, Server!Work

\* An answer, and what the tab does with it.  No refresh fails, so no tab is sent to the
\* login page.
LEMMA QuietAnswer ==
  ASSUME SessionInv, QuietInv, Quiet, NEW q \in scope.slots, Answer(q[1], q[2])
  PROVE  QuietInv' /\ \A u \in Tabs : page[u] = "app" => page'[u] = "app"
<1> DEFINE t == q[1]
           c == q[2]
           h == handlers[q]
           call == calls[t][c]
<1>0. /\ q \in Slots /\ t \in Tabs /\ c \in Calls /\ q = <<t, c>> /\ h \in Server!Handler
      /\ calls \in [Tabs -> [Calls -> Client!Call]] /\ call \in Client!Call
      /\ page \in [Tabs -> Pages]
      /\ HandlerFits(q) /\ active /\ CallsFit /\ CookieFits
  BY SessionTypes DEF QuietInv
<1>1. /\ h.at \in Server!Ends /\ handlers' = [handlers EXCEPT ![q] = Server!NoHandler]
      /\ UNCHANGED <<refresh, active, scope>>
  BY <1>0 DEF Answer, Server!Answered
<1>2. /\ call.at \in {"sent", "refreshing"} /\ h.kind = Asked(t, c) /\ h.at # "idle"
      /\ h.kind = "refresh" => h.at \in {"noToken", "done"}
  BY <1>0, <1>1 DEF HandlerFits, Server!Ends
<1>3. /\ call.kind \in KindsOn(page[t])
      /\ h.kind \in {"api", "login", "refresh"}
      /\ h.kind = "refresh" <=> call.at = "refreshing"
      /\ h.kind # "refresh" => h.kind = IF call.kind = "me" THEN "api" ELSE call.kind
      /\ page[t] # "app" => \A d \in Calls : calls[t][d].at # "idle" => c = d
  BY <1>0, <1>2 DEF CallsFit, Asked, KindsOn
<1>4. /\ h.pair \in Pairs \cup {None} /\ h.kind = "api" => h.pair = None
      /\ h.pair # None => h.at = "done" /\ h.kind # "api" /\ refresh[h.pair] = "valid"
  BY <1>0, <1>1, <1>2, <1>3 DEF HandlerFits, Server!Ends, None
<1>5. cookie' = IF h.pair # None THEN h.pair ELSE cookie
  BY <1>0, <1>2, <1>3 DEF Answer
<1>6. /\ handlers'[q] = Server!NoHandler /\ Server!NoHandler.at = "idle"
      /\ \A p \in Slots \ {q} : handlers'[p] = handlers[p]
  BY <1>0, <1>1, SessionTypes DEF Server!NoHandler
<1>7. HandlerFits(q)'
  BY <1>6 DEF HandlerFits
<1>8. CookieFits'
  <2>1. CASE h.pair # None
    BY <1>1, <1>4, <1>5, <2>1 DEF CookieFits
  <2>2. CASE h.pair = None
    <3>1. ~Exchanged(q)
      BY <1>0, <1>2, <2>2 DEF HandlerFits, Exchanged, None, Pairs
    <3>2. \A p \in Slots : Exchanged(p) => Exchanged(p)'
      BY <1>6, <3>1 DEF Exchanged
    <3> QED
      BY <1>0, <1>1, <1>5, <2>2, <3>2 DEF CookieFits
  <2> QED
    BY <2>1, <2>2
<1>9. \/ refresh' = refresh /\ cookie' = cookie
      \/ handlers[q].at # "idle" /\ handlers[q].kind # "api"
  BY <1>1, <1>2, <1>4, <1>5
\* What is left to show of a step of the client.
<1>10. ASSUME CallsFit',
              \A p \in Slots \ {q} : handlers[p].at # "idle" =>
                calls'[p[1]][p[2]] = calls[p[1]][p[2]]
       PROVE  QuietInv'
  BY <1>0, <1>1, <1>6, <1>7, <1>8, <1>9, <1>10, QuietChange
<1>11. \A p \in Slots \ {q} : handlers[p].at # "idle" =>
         /\ p[1] \in Tabs /\ p[2] \in Calls /\ <<p[1], p[2]>> # <<t, c>>
         /\ calls[p[1]][p[2]].at \in {"sent", "refreshing"}
  <2> SUFFICES ASSUME NEW p \in Slots \ {q}, handlers[p].at # "idle"
               PROVE  /\ p[1] \in Tabs /\ p[2] \in Calls /\ <<p[1], p[2]>> # <<t, c>>
                      /\ calls[p[1]][p[2]].at \in {"sent", "refreshing"}
    OBVIOUS
  <2>1. p[1] \in Tabs /\ p[2] \in Calls /\ p = <<p[1], p[2]>> /\ p # q /\ q = <<t, c>>
    BY <1>0, SessionTypes
  <2>2. HandlerFits(p)
    BY DEF QuietInv
  <2> QED
    BY <2>1, <2>2 DEF HandlerFits
<1>12. CASE Client!Refreshed(t, c, h.pair)
  <2> DEFINE resent(d) == [calls[t][d] EXCEPT !.at = "sent", !.token = h.pair]
             mine == [d \in Calls |-> IF d = c \/ calls[t][d].at = "queued" THEN resent(d)
                                      ELSE calls[t][d]]
  <2>1. call.at = "refreshing" /\ page' = page /\ calls' = [calls EXCEPT ![t] = mine]
    BY <1>0, <1>12, Zenon DEF Client!Refreshed
  <2>2. ASSUME NEW d \in Calls
        PROVE  resent(d).at = "sent" /\ resent(d).kind = calls[t][d].kind
    <3>1. calls[t][d] \in Client!Call
      BY <1>0
    <3> QED
      BY <3>1 DEF Client!Call
  <2> HIDE DEF resent
  <2>3. ASSUME NEW d \in Calls
        PROVE  /\ mine[d].at # "idle" <=> calls[t][d].at # "idle"
               /\ mine[d].kind = calls[t][d].kind
               /\ d # c /\ calls[t][d].at # "queued" => mine[d] = calls[t][d]
    BY <2>1, <2>2
  <2> HIDE DEF mine
  <2>4. calls'[t] = mine /\ \A u \in Tabs \ {t} : calls'[u] = calls[u]
    BY <1>0, <2>1
  <2>5. ASSUME NEW u \in Tabs, NEW d \in Calls
        PROVE  /\ calls'[u][d].at # "idle" <=> calls[u][d].at # "idle"
               /\ calls'[u][d].kind = calls[u][d].kind
    BY <2>3, <2>4
  <2>6. CallsFit'
    BY <1>0, <1>1, <2>1, <2>5 DEF CallsFit, KindsOn
  <2>7. ASSUME NEW p \in Slots \ {q}, handlers[p].at # "idle"
        PROVE  calls'[p[1]][p[2]] = calls[p[1]][p[2]]
    BY <1>11, <2>3, <2>4, <2>7
  <2> QED
    BY <1>10, <2>1, <2>6, <2>7
<1>13. CASE h.kind # "refresh" /\ Client!Unauthorized(t, c)
  <2>1. page' = page
    BY <1>13 DEF Client!Unauthorized
  <2>2. PICK at \in {"queued", "refreshing"}, retry \in BOOLEAN :
          calls' = [calls EXCEPT ![t][c] = [call EXCEPT !.at = at, !.retry = retry]]
    <3>1. CASE refreshing[t]
      <4>1. calls' = [calls EXCEPT ![t][c] = [call EXCEPT !.at = "queued"]]
        BY <1>0, <1>13, <3>1 DEF Client!Unauthorized
      <4>2. [call EXCEPT !.at = "queued"] = [call EXCEPT !.at = "queued", !.retry = call.retry]
        BY <1>0 DEF Client!Call
      <4>3. call.retry \in BOOLEAN
        BY <1>0 DEF Client!Call
      <4> QED
        BY <4>1, <4>2, <4>3, Zenon
    <3>2. CASE ~refreshing[t]
      BY <1>0, <1>13, <3>2, Zenon DEF Client!Unauthorized
    <3> QED
      BY <3>1, <3>2
  <2> DEFINE k == [call EXCEPT !.at = at, !.retry = retry]
  <2>3. k.at # "idle" /\ k.kind = call.kind
    BY <1>0 DEF Client!Call
  <2> HIDE DEF k
  <2>4. /\ calls'[t][c] = k
        /\ \A u \in Tabs, d \in Calls : <<u, d>> # <<t, c>> => calls'[u][d] = calls[u][d]
    BY <1>0, <2>2 DEF k
  <2>5. ASSUME NEW u \in Tabs, NEW d \in Calls
        PROVE  /\ calls'[u][d].at # "idle" <=> calls[u][d].at # "idle"
               /\ calls'[u][d].kind = calls[u][d].kind
    BY <1>2, <2>3, <2>4
  <2>6. CallsFit'
    BY <1>0, <1>1, <2>1, <2>5 DEF CallsFit, KindsOn
  <2> QED
    BY <1>10, <1>11, <2>1, <2>4, <2>6
<1>14. CASE h.kind # "refresh" /\ Client!Settle(t, c, h.at = "done", h.pair)
  <2>1. CASE call.kind = "login" /\ Client!LoggedIn(t, c, h.pair)
    <3> DEFINE me == [at |-> "sent", kind |-> "me", token |-> h.pair, retry |-> FALSE]
    <3>1. me.at = "sent" /\ me.kind = "me"
      OBVIOUS
    <3>2. calls' = [calls EXCEPT ![t][c] = me] /\ page' = page
      BY <2>1 DEF Client!LoggedIn, Client!Sent
    <3> HIDE DEF me
    <3>3. /\ calls'[t][c] = me
          /\ \A u \in Tabs, d \in Calls : <<u, d>> # <<t, c>> => calls'[u][d] = calls[u][d]
      BY <1>0, <3>2
    <3>4. page[t] # "app"
      BY <1>3, <2>1 DEF KindsOn
    <3>5. ASSUME NEW u \in Tabs, NEW d \in Calls
          PROVE  /\ calls'[u][d].at # "idle" <=> calls[u][d].at # "idle"
                 /\ calls'[u][d].kind = IF u = t /\ d = c THEN "me" ELSE calls[u][d].kind
      BY <1>2, <3>1, <3>3
    <3>6. CallsFit'
      <4>1. ASSUME NEW u \in Tabs, NEW d \in Calls, calls'[u][d].at # "idle"
            PROVE  /\ <<u, d>> \in scope.slots
                   /\ calls'[u][d].kind \in KindsOn(page[u])
                   /\ \A e \in Calls : page[u] # "app" /\ calls'[u][e].at # "idle" => d = e
        BY <1>0, <3>4, <3>5, <4>1 DEF CallsFit, KindsOn
      <4> QED
        BY <1>1, <3>2, <4>1 DEF CallsFit, KindsOn
    <3> QED
      BY <1>10, <1>11, <3>2, <3>3, <3>6
  <2>2. CASE Client!Settled(t, c, h.at = "done")
    <3>1. calls' = [calls EXCEPT ![t][c] = Client!NoCall] /\ Client!NoCall.at = "idle"
      BY <2>2 DEF Client!Settled, Client!NoCall
    <3>2. /\ calls'[t][c].at = "idle"
          /\ \A u \in Tabs, d \in Calls : <<u, d>> # <<t, c>> => calls'[u][d] = calls[u][d]
      BY <1>0, <3>1
    <3>3. \/ page' = page
          \/ page[t] # "app" /\ page' = [page EXCEPT ![t] = "app"]
      <4>1. call.kind \in {"api", "login", "me"} /\ (call.kind = "me" => page[t] # "app")
        BY <1>3 DEF KindsOn
      <4> QED
        BY <2>2, <4>1 DEF Client!Settled
    <3>4. \A u \in Tabs : page[u] = "app" => page'[u] = "app"
      BY <1>0, <3>3
    <3>5. ASSUME NEW u \in Tabs, NEW d \in Calls, calls'[u][d].at # "idle"
          PROVE  calls[u][d] = calls'[u][d] /\ page'[u] = page[u]
      <4>1. <<u, d>> # <<t, c>>
        BY <3>2, <3>5
      <4>2. calls[u][d] = calls'[u][d]
        BY <3>2, <4>1
      <4>3. page[u] # "app" => u # t
        BY <1>0, <1>3, <3>5, <4>1, <4>2
      <4> QED
        BY <1>0, <3>3, <4>2, <4>3
    <3>6. CallsFit'
      <4>1. ASSUME NEW u \in Tabs, NEW d \in Calls, calls'[u][d].at # "idle"
            PROVE  /\ <<u, d>> \in scope.slots
                   /\ calls'[u][d].kind \in KindsOn(page'[u])
                   /\ \A e \in Calls : page'[u] # "app" /\ calls'[u][e].at # "idle" => d = e
        BY <1>0, <3>5, <4>1 DEF CallsFit
      <4> QED
        BY <1>1, <4>1 DEF CallsFit, KindsOn
    <3> QED
      BY <1>10, <1>11, <3>2, <3>4, <3>6
  <2> QED
    BY <1>14, <2>1, <2>2 DEF Client!Settle
<1>15. \/ Client!Refreshed(t, c, h.pair)
       \/ h.kind # "refresh" /\ Client!Unauthorized(t, c)
       \/ h.kind # "refresh" /\ Client!Settle(t, c, h.at = "done", h.pair)
  <2>1. \/ ~(call.at \in {"sent", "refreshing"} /\ h.kind = Asked(t, c))
        \/ Client!Refreshed(t, c, h.pair)
        \/ h.kind = "refresh" /\ h.at \in {"denied", "error"}
        \/ h.kind # "refresh" /\ Client!Unauthorized(t, c)
        \/ h.kind # "refresh" /\ Client!Settle(t, c, h.at = "done", h.pair)
    BY <1>0, Zenon DEF Answer
  <2> QED
    BY <1>2, <2>1
<1> QED
  BY <1>12, <1>13, <1>14, <1>15

\* Where nothing but access tokens expires and one tab is used, a tab that is signed in
\* stays so: the refresh that expired calls share always finds the cookie's token valid, and
\* the token it is answered with is the cookie's before another refresh is sent.
THEOREM SessionLasts == Spec => StaysSignedIn
<1>1. ASSUME SessionInv, QuietInv, [Next]_vars
      PROVE  QuietInv' /\ (Quiet => \A u \in Tabs : page[u] = "app" => page'[u] = "app")
  <2>1. scope' = scope
    BY <1>1, StepOfEach
  <2> SUFFICES ASSUME Quiet
               PROVE  QuietInv' /\ \A u \in Tabs : page[u] = "app" => page'[u] = "app"
    BY <1>1, <2>1 DEF QuietInv, Quiet
  <2>2. CASE UNCHANGED vars
    <3>1. QuietInv'
      BY <1>1, <2>2
         DEF vars, QuietInv, CallsFit, KindsOn, HandlerFits, Asked, CookieFits, Exchanged
    <3> QED
      BY <2>2, <3>1 DEF vars
  <2>3. CASE Environment
    <3>1. UNCHANGED <<refresh, active, handlers, cookie, scope>> /\ UNCHANGED clientVars
      BY <2>3 DEF Environment, Quiet, Server!ExpireAccess
    <3> QED
      BY <1>1, <3>1
         DEF clientVars, QuietInv, CallsFit, KindsOn, HandlerFits, Asked, CookieFits, Exchanged
  <2>4. ASSUME NEW q \in scope.slots, Fail(q[1], q[2]) \/ Reload(q[1], q[2]) PROVE FALSE
    BY <2>4 DEF Fail, Reload, Quiet
  <2> QED
    BY <1>1, <2>2, <2>3, <2>4, QuietStart, QuietArrive, QuietServe, QuietAnswer DEF Next
<1>2. SessionInv /\ QuietInv /\ [Next]_vars =>
        [scope.ops = {} /\ (\A p, q \in scope.slots : p[1] = q[1])
           => \A t \in Tabs : page[t] = "app" => page'[t] = "app"]_vars
  BY <1>1 DEF Quiet
<1> QED
  BY <1>1, <1>2, QuietInitially, SessionInvariant, PTL DEF Spec, StaysSignedIn
=============================================================================
