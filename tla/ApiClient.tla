----------------------------- MODULE ApiClient -----------------------------
(***************************************************************************)
(* The API client of each browser tab (frontend/src/api/client.ts with     *)
(* stores/auth.store.ts): calls that are answered 401 wait for one refresh *)
(* of the access token and are sent again.                                 *)
(***************************************************************************)
EXTENDS Integers

CONSTANTS
  Tabs,
  Calls,   \* calls of one tab at the same time
  Tokens   \* access tokens

None == 0

VARIABLES
  token,       \* accessToken of each tab's store; None is null or undefined
  page,        \* what the tab shows: "app" where isAuthenticated, "loading" until isInitialized
  refreshing,  \* isRefreshing
  calls        \* calls and where they wait; failedQueue holds those at "queued"

clientVars == <<token, page, refreshing, calls>>

\* Besides the calls of pages: a login, the profile it asks for next, the profile that a page
\* (fetchUser) or a reload (initialize) asks for, and a logout.
CallKinds == {"api", "login", "me", "profile", "logout"}
Call == [at : {"idle", "sent", "queued", "refreshing"}, kind : CallKinds,
         token : Tokens \cup {None}, retry : BOOLEAN]

NoCall == [at |-> "idle", kind |-> "api", token |-> None, retry |-> FALSE]

ClientInit ==
  /\ token = [t \in Tabs |-> None]
  /\ page = [t \in Tabs |-> "login"]
  /\ refreshing = [t \in Tabs |-> FALSE]
  /\ calls = [t \in Tabs |-> [c \in Calls |-> NoCall]]

Sent(kind, shown) == [at |-> "sent", kind |-> kind, token |-> shown, retry |-> FALSE]

\* The sign in button is disabled while a login is under way.
LoadsNoLogin(t, c) == calls[t][c].at = "idle" \/ calls[t][c].kind \notin {"login", "me"}

\* The request interceptor attaches the token the store holds.
Send(t, c, kind) ==
  /\ calls[t][c].at = "idle"
  /\ kind # "me"
  /\ IF kind = "login"
     THEN page[t] = "login" /\ \A d \in Calls : LoadsNoLogin(t, d)
     ELSE page[t] = "app"
  /\ calls' = [calls EXCEPT ![t][c] = Sent(kind, token[t])]
  /\ UNCHANGED <<token, page, refreshing>>

\* A login has stored its token and asks for the profile.
LoggedIn(t, c, new) ==
  /\ token' = [token EXCEPT ![t] = new]
  /\ calls' = [calls EXCEPT ![t][c] = Sent("me", new)]
  /\ UNCHANGED <<page, refreshing>>

\* Any other call settles: a profile signs the tab in; without one a login leaves its token
\* in the store; fetchUser and initialize clear the store, and so does a logout whatever the
\* answer.
Settled(t, c, ok) ==
  LET kind == calls[t][c].kind
      clears == kind = "logout" \/ (kind = "profile" /\ ~ok)
      enters == kind \in {"me", "profile"} /\ ok
  IN
  /\ calls' = [calls EXCEPT ![t][c] = NoCall]
  /\ token' = IF clears THEN [token EXCEPT ![t] = None] ELSE token
  /\ page' = IF clears THEN [page EXCEPT ![t] = "login"]
             ELSE IF enters THEN [page EXCEPT ![t] = "app"] ELSE page
  /\ UNCHANGED refreshing

Settle(t, c, ok, new) ==
  /\ calls[t][c].at = "sent"
  /\ IF calls[t][c].kind = "login" /\ ok THEN LoggedIn(t, c, new) ELSE Settled(t, c, ok)

\* Bug: every call that is answered 401 starts a refresh.
Unauthorized_AlwaysRefreshes(t, c) ==
  /\ calls[t][c].at = "sent" /\ ~calls[t][c].retry
  /\ calls' = [calls EXCEPT ![t][c] = [@ EXCEPT !.at = "refreshing", !.retry = TRUE]]
  /\ refreshing' = [refreshing EXCEPT ![t] = TRUE]
  /\ UNCHANGED <<token, page>>

\* The first 401 of a call: it waits for the refresh under way or starts one.
Unauthorized(t, c) ==
  /\ calls[t][c].at = "sent" /\ ~calls[t][c].retry
  /\ IF refreshing[t]
     THEN /\ calls' = [calls EXCEPT ![t][c].at = "queued"]
          /\ UNCHANGED refreshing
     ELSE /\ calls' = [calls EXCEPT ![t][c] = [@ EXCEPT !.at = "refreshing", !.retry = TRUE]]
          /\ refreshing' = [refreshing EXCEPT ![t] = TRUE]
  /\ UNCHANGED <<token, page>>

\* Bug: the flag is reset and the queue is left to the next refresh.
Refreshed_KeepsQueue(t, c, new) ==
  /\ calls[t][c].at = "refreshing"
  /\ token' = [token EXCEPT ![t] = new]
  /\ refreshing' = [refreshing EXCEPT ![t] = FALSE]
  /\ calls' = [calls EXCEPT ![t][c] = [@ EXCEPT !.at = "sent", !.token = new]]
  /\ UNCHANGED page

\* A refresh is answered 200 with a token, or with none ({ error }): it is
\* stored, and the call and the queue are sent again.
Refreshed(t, c, new) ==
  /\ calls[t][c].at = "refreshing"
  /\ token' = [token EXCEPT ![t] = new]
  /\ refreshing' = [refreshing EXCEPT ![t] = FALSE]
  /\ calls' = [calls EXCEPT ![t] = [d \in Calls |->
       IF d = c \/ @[d].at = "queued" THEN [@[d] EXCEPT !.at = "sent", !.token = new]
       ELSE @[d]]]
  /\ UNCHANGED page

\* A refresh fails: every call that waits is rejected and the tab loads the
\* login page, which aborts the others and starts the client anew.
RefreshFailed(t, c) ==
  /\ calls[t][c].at = "refreshing"
  /\ token' = [token EXCEPT ![t] = None]
  /\ page' = [page EXCEPT ![t] = "login"]
  /\ refreshing' = [refreshing EXCEPT ![t] = FALSE]
  /\ calls' = [calls EXCEPT ![t] = [d \in Calls |-> NoCall]]

\* The user reloads the page: its calls are given up, and with a token, which
\* sessionStorage keeps, the profile is asked for.
Reload(t, c) ==
  /\ calls[t][c].at = "idle"
  /\ page' = [page EXCEPT ![t] = IF token[t] = None THEN "login" ELSE "loading"]
  /\ refreshing' = [refreshing EXCEPT ![t] = FALSE]
  /\ calls' = [calls EXCEPT ![t] = [d \in Calls |->
       IF d = c /\ token[t] # None THEN Sent("profile", token[t]) ELSE NoCall]]
  /\ UNCHANGED token

ClientNext ==
  \E t \in Tabs, c \in Calls :
    \/ \E kind \in CallKinds : Send(t, c, kind)
    \/ \E ok \in BOOLEAN, new \in Tokens \cup {None} : Settle(t, c, ok, new)
    \/ Unauthorized(t, c)
    \/ \E new \in Tokens \cup {None} : Refreshed(t, c, new)
    \/ RefreshFailed(t, c)
    \/ Reload(t, c)

ClientSpec == ClientInit /\ [][ClientNext]_clientVars

-----------------------------------------------------------------------------
ClientTypeOK ==
  /\ token \in [Tabs -> Tokens \cup {None}]
  /\ page \in [Tabs -> {"login", "loading", "app"}]
  /\ refreshing \in [Tabs -> BOOLEAN]
  /\ calls \in [Tabs -> [Calls -> Call]]

\* Calls wait in the queue only while a refresh is under way that will settle
\* them, and a tab never runs two refreshes.
OneRefreshServesTheQueue ==
  \A t \in Tabs :
    LET under == {c \in Calls : calls[t][c].at = "refreshing"} IN
    /\ refreshing[t] <=> under # {}
    /\ \A c, d \in under : c = d
    /\ \A c \in Calls : calls[t][c].at = "queued" => refreshing[t]
=============================================================================
