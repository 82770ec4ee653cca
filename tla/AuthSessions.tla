---------------------------- MODULE AuthSessions ----------------------------
(***************************************************************************)
(* The sessions of one user on the server (backend/src/modules/auth): an   *)
(* access token (JWT) and a rotating refresh token are issued as a pair;   *)
(* refresh tokens are rows, logged out access tokens are Redis keys.  A    *)
(* handler is a process in handlers that reads, awaits and writes.         *)
(***************************************************************************)
EXTENDS Integers

CONSTANTS
  Slots,     \* requests handled at the same time
  MaxPairs   \* bound on the pairs issued

Pairs == 1..MaxPairs
None == 0

VARIABLES
  refresh,    \* row of each pair's refresh token
  parent,     \* the refresh token each was exchanged for (history)
  expired,    \* access tokens past their exp
  blacklist,  \* access tokens with a key blacklist:jti
  active,     \* isActive of the user
  handlers

authVars == <<refresh, parent, expired, blacklist, active, handlers>>

Kinds == {"api", "login", "refresh", "logout"}
Ends == {"done", "noToken", "denied", "error"}
Steps == {"guard", "blacklist", "read", "rotate", "revoke", "user", "issue"}
Handler == [at : Steps \cup Ends \cup {"idle"}, kind : Kinds,
            access : Pairs \cup {None}, cookie : Pairs \cup {None},
            pair : Pairs \cup {None}]

NoHandler == [at |-> "idle", kind |-> "api", access |-> None, cookie |-> None,
              pair |-> None]

AuthInit ==
  /\ refresh = [n \in Pairs |-> "none"]
  /\ parent = [n \in Pairs |-> None]
  /\ expired = {}
  /\ blacklist = {}
  /\ active = TRUE
  /\ handlers = [q \in Slots |-> NoHandler]

Go(q, at) == handlers' = [handlers EXCEPT ![q].at = at]

\* A request reaches the server with an access token and the refresh cookie.
Receive(q, kind, access, cookie) ==
  /\ handlers[q].at = "idle"
  /\ handlers' = [handlers EXCEPT ![q] =
       [at |-> CASE kind \in {"api", "logout"} -> "guard"
                 [] kind = "login" -> "user"
                 [] kind = "refresh" -> IF cookie = None THEN "noToken" ELSE "read",
        kind |-> kind,
        access |-> IF kind \in {"api", "logout"} THEN access ELSE None,
        cookie |-> cookie, pair |-> None]]
  /\ UNCHANGED <<refresh, parent, expired, blacklist, active>>

\* Bug: a request without a token passes.
Accepted_Missing(n) == n \notin expired \cup blacklist

\* JwtGuard: a token that verifies (it was issued here and its time is not over)
\* and is not in Redis.
Accepted(n) == n \in Pairs \ (expired \cup blacklist) /\ refresh[n] # "none"

Guard(q) ==
  /\ handlers[q].at = "guard"
  /\ Go(q, IF ~Accepted(handlers[q].access) THEN "denied"
           ELSE IF handlers[q].kind = "logout" THEN "blacklist" ELSE "done")
  /\ UNCHANGED <<refresh, parent, expired, blacklist, active>>

\* logout: the access token goes to Redis (and to a table nothing reads).
Blacklist(q) ==
  /\ handlers[q].at = "blacklist"
  /\ blacklist' = blacklist \cup {handlers[q].access}
  /\ Go(q, IF handlers[q].cookie = None THEN "done" ELSE "revoke")
  /\ UNCHANGED <<refresh, parent, expired, active>>

\* refreshToken reads the row: neither revoked nor expired.
ReadToken(q) ==
  /\ handlers[q].at = "read"
  /\ Go(q, IF refresh[handlers[q].cookie] = "valid" THEN "rotate" ELSE "denied")
  /\ UNCHANGED <<refresh, parent, expired, blacklist, active>>

\* Bug: the old token stays as it is.
Revoke_Nothing(q) ==
  /\ handlers[q].at \in {"rotate", "revoke"}
  /\ Go(q, IF handlers[q].at = "rotate" THEN "user" ELSE "done")
  /\ UNCHANGED <<refresh, parent, expired, blacklist, active>>

\* The row read earlier is revoked (refreshToken), or the one of the cookie
\* (logout; a token that does not verify any more is ignored).
Revoke(q) ==
  /\ handlers[q].at \in {"rotate", "revoke"}
  /\ refresh' = [refresh EXCEPT ![handlers[q].cookie] =
       IF handlers[q].at = "revoke" /\ @ \in {"none", "expired"} THEN @ ELSE "revoked"]
  /\ Go(q, IF handlers[q].at = "rotate" THEN "user" ELSE "done")
  /\ UNCHANGED <<parent, expired, blacklist, active>>

\* refreshToken and login look at the user, login at the password as well ...
CheckUser(q) ==
  /\ handlers[q].at = "user"
  /\ \/ active /\ Go(q, "issue")
     \/ (~active \/ handlers[q].kind = "login") /\ Go(q, "denied")
  /\ UNCHANGED <<refresh, parent, expired, blacklist, active>>

\* ... and generateTokenPair stores a new refresh token.
Issue(q) ==
  /\ handlers[q].at = "issue"
  /\ \E n \in Pairs :
       /\ refresh[n] = "none" /\ \A m \in 1..(n - 1) : refresh[m] # "none"
       /\ refresh' = [refresh EXCEPT ![n] = "valid"]
       /\ parent' = [parent EXCEPT ![n] =
            IF handlers[q].kind = "refresh" THEN handlers[q].cookie ELSE None]
       /\ handlers' = [handlers EXCEPT ![q] = [@ EXCEPT !.at = "done", !.pair = n]]
  /\ UNCHANGED <<expired, blacklist, active>>

\* A statement fails, the process dies or the request times out.
Fail(q) ==
  /\ handlers[q].at \in Steps
  /\ Go(q, "error")
  /\ UNCHANGED <<refresh, parent, expired, blacklist, active>>

\* The answer leaves the server.
Answered(q) ==
  /\ handlers[q].at \in Ends
  /\ handlers' = [handlers EXCEPT ![q] = NoHandler]
  /\ UNCHANGED <<refresh, parent, expired, blacklist, active>>

-----------------------------------------------------------------------------
ExpireAccess(n) ==
  /\ refresh[n] # "none" /\ n \notin expired
  /\ expired' = expired \cup {n}
  /\ UNCHANGED <<refresh, parent, blacklist, active, handlers>>

ExpireRefresh(n) ==
  /\ refresh[n] = "valid"
  /\ refresh' = [refresh EXCEPT ![n] = "expired"]
  /\ UNCHANGED <<parent, expired, blacklist, active, handlers>>

\* The user is removed; the sessions stay.
Deactivate ==
  /\ active
  /\ active' = FALSE
  /\ UNCHANGED <<refresh, parent, expired, blacklist, handlers>>

Work(q) == Guard(q) \/ Blacklist(q) \/ ReadToken(q) \/ Revoke(q) \/ CheckUser(q) \/ Issue(q)

AuthNext ==
  \/ \E q \in Slots :
       \/ \E kind \in Kinds, access, cookie \in Pairs \cup {None} :
            Receive(q, kind, access, cookie)
       \/ Work(q) \/ Fail(q) \/ Answered(q)
  \/ \E n \in Pairs : ExpireAccess(n) \/ ExpireRefresh(n)
  \/ Deactivate

AuthSpec == AuthInit /\ [][AuthNext]_authVars

-----------------------------------------------------------------------------
AuthTypeOK ==
  /\ refresh \in [Pairs -> {"none", "valid", "revoked", "expired"}]
  /\ parent \in [Pairs -> Pairs \cup {None}]
  /\ expired \subseteq Pairs
  /\ blacklist \subseteq Pairs
  /\ active \in BOOLEAN
  /\ handlers \in [Slots -> Handler]

\* The tokens a handler acts on: what it read, and what it has revoked.
HoldsTokens(q) ==
  LET h == handlers[q] IN
  /\ h.at \in {"read", "rotate", "revoke"} => h.cookie \in Pairs
  /\ h.at = "blacklist" => h.access \in Pairs
  /\ h.at \in {"user", "issue"} /\ h.kind = "refresh" =>
       h.cookie \in Pairs /\ refresh[h.cookie] = "revoked"

HandlersHoldTokens == \A q \in Slots : HoldsTokens(q)

\* "Revoke old refresh token (rotation)": a refresh token that was exchanged for
\* another is revoked before the other exists, whatever fails on the way, and
\* stays so: with one handler at a time a session has at most one valid token.
RotationRevokesParent ==
  \A n \in Pairs : parent[n] # None => refresh[parent[n]] = "revoked"
=============================================================================
