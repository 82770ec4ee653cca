--------------------------- MODULE BrowserSession ---------------------------
(***************************************************************************)
(* ApiClient and AuthSessions together: the tabs of one browser, which     *)
(* share its refresh cookie, and the server's handlers.  A call and its    *)
(* handler have the same name, <<tab, call>>; the answers carry cookies.   *)
(***************************************************************************)
EXTENDS Integers

CONSTANTS
  Tabs, Calls,
  Slots,      \* the calls that are used, pairs of a tab and a call
  MaxPairs,   \* bound on the token pairs issued
  Logins,     \* bound on the pairs there are when a login starts
  Scopes      \* in a behaviour: the slots it uses, the access tokens that expire,
              \* and what else may happen

Pairs == 1..MaxPairs
None == 0

VARIABLES
  token, page, refreshing, calls,
  refresh, parent, expired, blacklist, active, handlers,
  cookie,  \* the refresh token in the browser's cookie
  scope    \* of this behaviour; never changes

Client == INSTANCE ApiClient WITH Tokens <- Pairs
Server == INSTANCE AuthSessions

clientVars == <<token, page, refreshing, calls>>
authVars == <<refresh, parent, expired, blacklist, active, handlers>>
vars == <<token, page, refreshing, calls,
          refresh, parent, expired, blacklist, active, handlers, cookie, scope>>

AllOps == {"logout", "profile", "reload", "fail", "expireRefresh", "deactivate"}

ASSUME BrowserAssumption ==
  /\ MaxPairs \in Nat
  /\ Slots \subseteq Tabs \X Calls
  /\ Scopes \subseteq [slots : SUBSET Slots, expiring : SUBSET Pairs, ops : SUBSET AllOps]
  /\ Logins \in Pairs

Init ==
  /\ Client!ClientInit
  /\ Server!AuthInit
  /\ cookie = None
  /\ scope \in Scopes

\* What the handler of a call is asked for.
Asked(t, c) ==
  IF calls[t][c].at = "refreshing" THEN "refresh"
  ELSE IF calls[t][c].kind \in {"me", "profile"} THEN "api" ELSE calls[t][c].kind

\* A handler still works for a call the tab has given up.
Busy(t, c) == handlers[<<t, c>>].at # "idle"

Start(t, c) ==
  \E kind \in {"api", "login"} \cup ({"logout", "profile"} \cap scope.ops) :
    /\ ~Busy(t, c)
    /\ kind = "login" => refresh[Logins] = "none"
    /\ Client!Send(t, c, kind)
    /\ UNCHANGED <<authVars, cookie, scope>>

\* The page is reloaded in the middle of its calls.
Reload(t, c) ==
  /\ "reload" \in scope.ops
  /\ ~Busy(t, c)
  /\ Client!Reload(t, c)
  /\ UNCHANGED <<authVars, cookie, scope>>

\* A call, or the refresh it has started, reaches the server.
Arrive(t, c) ==
  /\ calls[t][c].at \in {"sent", "refreshing"}
  /\ Server!Receive(<<t, c>>, Asked(t, c), calls[t][c].token, cookie)
  /\ UNCHANGED <<clientVars, cookie, scope>>

\* Its answer reaches the tab.
Answer(t, c) ==
  LET h == handlers[<<t, c>>]
      call == calls[t][c]
      waits == call.at \in {"sent", "refreshing"} /\ h.kind = Asked(t, c)
  IN
  /\ Server!Answered(<<t, c>>)
  /\ \/ ~waits /\ UNCHANGED clientVars
     \/ /\ waits /\ h.kind = "refresh" /\ h.at \in {"done", "noToken"}
        /\ Client!Refreshed(t, c, h.pair)
     \/ /\ waits /\ h.kind = "refresh" /\ h.at \in {"denied", "error"}
        /\ Client!RefreshFailed(t, c)
     \/ /\ waits /\ h.kind # "refresh" /\ h.at = "denied"
        /\ Client!Unauthorized(t, c)
     \/ /\ waits /\ h.kind # "refresh" /\ (h.at = "denied" => call.retry)
        /\ Client!Settle(t, c, h.at = "done", h.pair)
  /\ cookie' = IF waits /\ h.pair # None THEN h.pair
               ELSE IF waits /\ h.kind = "logout" /\ h.at = "done" THEN None ELSE cookie
  /\ UNCHANGED scope

Serve(t, c) == Server!Work(<<t, c>>) /\ UNCHANGED <<clientVars, cookie, scope>>

Fail(t, c) ==
  /\ "fail" \in scope.ops
  /\ Server!Fail(<<t, c>>)
  /\ UNCHANGED <<clientVars, cookie, scope>>

\* Time and administrators.
Environment ==
  /\ \/ \E n \in scope.expiring : Server!ExpireAccess(n)
     \/ "expireRefresh" \in scope.ops /\ \E n \in Pairs : Server!ExpireRefresh(n)
     \/ "deactivate" \in scope.ops /\ Server!Deactivate
  /\ UNCHANGED <<clientVars, cookie, scope>>

Next ==
  \/ \E q \in scope.slots : LET t == q[1] c == q[2] IN
       Start(t, c) \/ Reload(t, c) \/ Arrive(t, c) \/ Serve(t, c) \/ Answer(t, c) \/ Fail(t, c)
  \/ Environment

\* Requests arrive, handlers work and answers come back.
Fairness ==
  \A q \in Slots : WF_vars(Arrive(q[1], q[2]) \/ Serve(q[1], q[2]) \/ Answer(q[1], q[2]))

Spec == Init /\ [][Next]_vars /\ Fairness

-----------------------------------------------------------------------------
TypeOK ==
  /\ Client!ClientTypeOK
  /\ Server!AuthTypeOK
  /\ cookie \in Pairs \cup {None}
  /\ scope \in Scopes

OneRefreshServesTheQueue == Client!OneRefreshServesTheQueue
RotationRevokesParent == Server!RotationRevokesParent

\* However many calls of one tab meet an expired access token together, none of
\* them ends the session: the only way to the login page is a refresh token that
\* has expired, a logout, a failure, a removed user, a second tab, a reload or a
\* profile that is refused (fetchUser).
StaysSignedIn ==
  [][scope.ops = {} /\ (\A p, q \in scope.slots : p[1] = q[1])
       => \A t \in Tabs : page[t] = "app" => page'[t] = "app"]_vars

\* The server answers a login 401 (a wrong password, or a removed user), or a refresh
\* without the cookie.
TurnedAway ==
  \E q \in Slots : <<handlers[q].kind, handlers[q].at>> \in {<<"login", "denied">>, <<"refresh", "noToken">>}

\* Every call settles, however often it is sent again, unless the user tries to
\* log in for ever, or goes on in a tab that has no session: a call from the queue
\* is not marked _retry, so each refresh the others start may queue it once more.
EveryCallSettles ==
  \A q \in Slots :
    []<>TurnedAway \/ (calls[q[1]][q[2]].at # "idle" ~> calls[q[1]][q[2]].at = "idle")
=============================================================================
