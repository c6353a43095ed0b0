---------------------------- MODULE AuthSession ----------------------------
(***************************************************************************)
(* Browser tabs of one browser, signed in to one server.                   *)
(*                                                                         *)
(* The tabs share the localStorage (one pair of tokens); each has its own  *)
(* page, its own zustand store, its own axios interceptor (the flag        *)
(* isRefreshing and the queue of requests that wait for a refresh) and its *)
(* own requests in flight.  The server issues pairs of tokens, rotates     *)
(* them on /auth/refresh, and rejects what a logout has invalidated.       *)
(*                                                                         *)
(* A token is the number of the pair it was issued with: access token n    *)
(* and refresh token n belong to pairs[n].  0 is "no token".  A request is *)
(* named by the code that awaits it, its slot: two data requests of a page *)
(* (DataSlots), ProtectedRoute's getMe ("boot"), the steps of useAuth      *)
(* ("login", "me", "logout", "register").                                  *)
(***************************************************************************)
EXTENDS Routes, Naturals, FiniteSets, SequencesExt

CONSTANTS Tabs,          \* tabs of the browser
          Accounts,      \* accounts of the server
          RoleOf,        \* the role of each account
          DataSlots,     \* requests a page may have in flight
          Visited,       \* routes the user visits by a link
          SessionCheck,  \* AUTH_SESSION_CHECK_ENABLED
          MaxLogins,     \* bound: logins and registrations the users attempt
          MaxReloads,    \* bound: reloads by the users
          MaxAbandoned,  \* bound: abandoned calls the server handles at a time
          MaxNow         \* bound: seconds of the server's clock

ASSUME RoleOfAssumption == RoleOf \in [Accounts -> Roles]
ASSUME VisitedAssumption == Visited \subseteq RouteNames
ASSUME SessionCheckAssumption == SessionCheck \in BOOLEAN
ASSUME BoundsAssumption ==
  /\ MaxLogins \in Nat /\ MaxReloads \in Nat /\ MaxAbandoned \in Nat
  /\ MaxNow \in Nat \ {0}
ASSUME DataSlotsAssumption ==
  DataSlots \cap {"boot", "login", "me", "logout", "register"} = {}

VARIABLES
  pairs,          \* server: the pairs of tokens issued, in order
  blacklisted,    \* server: refresh tokens in Redis under blacklisted:<jti>
  invalidatedAt,  \* server: session_invalidated:<user>, 0 when absent
  expired,        \* server: access tokens past their exp
  ended,          \* server: refresh tokens past their exp
  now,            \* server: clock, in seconds
  logins,         \* logins and registrations so far (for MaxLogins)
  reloads,        \* reloads so far (for MaxReloads)
  abandoned,      \* server: calls it may still handle, whose caller is gone
  storage,        \* browser: localStorage access_token and refresh_token
  route,          \* tab: current route
  store,          \* tab: useAuthStore (role is a function of user)
  bootstrapping,  \* tab: ProtectedRoute's spinner
  req,            \* tab: the requests, by slot
  refresh,        \* tab: isRefreshing and the refresh call
  leaving         \* tab: window.location has been assigned

serverVars == <<pairs, blacklisted, invalidatedAt, expired, ended, now, logins,
                reloads, abandoned>>
tabVars == <<route, store, bootstrapping, req, refresh, leaving>>
authVars == <<serverVars, storage, tabVars>>

Slots == DataSlots \cup {"boot", "login", "me", "logout", "register"}
NoAccount == "nobody"
Placeholder == "placeholder"   \* the user object of useAuth.login's step 1
Users == Accounts \cup {NoAccount, Placeholder}
Tokens == 0 .. Len(pairs)

NoTokens == [access |-> 0, refresh |-> 0]
SignedOut == [user |-> NoAccount, access |-> 0, auth |-> FALSE]
Idle == [st |-> "idle", tok |-> 0, retry |-> FALSE, arg |-> 0]
NoRefresh == [on |-> FALSE, st |-> "none", tok |-> 0, new |-> 0, leader |-> "boot"]

\* The store's role: the placeholder user of a login carries role "agent".
Role(user) == CASE user = NoAccount   -> NoRole
                [] user = Placeholder -> "agent"
                [] OTHER              -> RoleOf[user]

AuthInit ==
  /\ pairs = <<>> /\ blacklisted = {} /\ invalidatedAt = [a \in Accounts |-> 0]
  /\ expired = {} /\ ended = {} /\ now = 1 /\ logins = 0 /\ reloads = 0 /\ abandoned = <<>>
  /\ storage = NoTokens
  /\ route = [t \in Tabs |-> "login"]
  /\ store = [t \in Tabs |-> SignedOut]
  /\ bootstrapping = [t \in Tabs |-> FALSE]
  /\ req = [t \in Tabs |-> [s \in Slots |-> Idle]]
  /\ refresh = [t \in Tabs |-> NoRefresh]
  /\ leaving = [t \in Tabs |-> FALSE]

-----------------------------------------------------------------------------
(* Server *)

\* create_tokens: a new pair for account a, issued now; from is the refresh
\* token it was rotated from, 0 at a login.
Issue(a, from) == pairs' = Append(pairs, [acct |-> a, at |-> now, from |-> from])

\* get_current_user: the token decodes, has not expired, and was issued after
\* the last logout of its user.
Accepts(n) ==
  /\ n \in 1 .. Len(pairs)
  /\ n \notin expired
  /\ SessionCheck => pairs[n].at > invalidatedAt[pairs[n].acct]

\* Mutant of LogoutUser: the second to come is invalidated with the rest.
LogoutAhead(n) ==
  IF n \in 1 .. Len(pairs) /\ n \notin ended
  THEN /\ blacklisted' = blacklisted \cup {n}
       /\ invalidatedAt' = [invalidatedAt EXCEPT ![pairs[n].acct] = now + 1]
  ELSE UNCHANGED <<blacklisted, invalidatedAt>>

\* logout_user: the refresh token of the body is blacklisted and every token
\* of its user issued up to this second is invalidated.
LogoutUser(n) ==
  IF n \in 1 .. Len(pairs) /\ n \notin ended
  THEN /\ blacklisted' = blacklisted \cup {n}
       /\ invalidatedAt' = [invalidatedAt EXCEPT ![pairs[n].acct] = now]
  ELSE UNCHANGED <<blacklisted, invalidatedAt>>

Tick == /\ now < MaxNow
        /\ now' = now + 1
        /\ UNCHANGED <<pairs, blacklisted, invalidatedAt, expired, ended, logins, reloads,
                       abandoned, storage, tabVars>>

\* An access token reaches its exp; a refresh token later than its access token.
\* Tokens of a kind live equally long: they expire in the order of their issue.
Expire(n) ==
  /\ \/ /\ 1 .. n - 1 \subseteq expired
        /\ expired' = expired \cup {n}
        /\ UNCHANGED ended
     \/ /\ n \in expired /\ 1 .. n - 1 \subseteq ended
        /\ ended' = ended \cup {n}
        /\ UNCHANGED expired
  /\ UNCHANGED <<pairs, blacklisted, invalidatedAt, now, logins, reloads, abandoned,
                 storage, tabVars>>

Reply(t, s, st) == req' = [req EXCEPT ![t][s].st = st]

\* The server answers one of the tab's requests: "ok" or "denied" (401).
Respond(t, s) ==
  /\ req[t][s].st = "sent"
  /\ \/ /\ s = "login"
        /\ Issue(req[t][s].arg, 0)
        /\ req' = [req EXCEPT ![t][s].st = "ok", ![t][s].tok = Len(pairs) + 1]
        /\ UNCHANGED <<blacklisted, invalidatedAt>>
     \/ /\ s = "login"                      \* wrong password
        /\ Reply(t, s, "denied")
        /\ UNCHANGED <<pairs, blacklisted, invalidatedAt>>
     \/ /\ s = "logout"
        /\ Accepts(req[t][s].tok)
        /\ LogoutUser(req[t][s].arg)
        /\ Reply(t, s, "ok")
        /\ UNCHANGED pairs
     \/ /\ s \in DataSlots \cup {"boot", "me", "register"}
        /\ s = "register" \/ Accepts(req[t][s].tok)
        /\ Reply(t, s, "ok")
        /\ UNCHANGED <<pairs, blacklisted, invalidatedAt>>
     \/ /\ s \notin {"login", "register"}
        /\ ~Accepts(req[t][s].tok)
        /\ Reply(t, s, "denied")
        /\ UNCHANGED <<pairs, blacklisted, invalidatedAt>>
  /\ UNCHANGED <<expired, ended, now, logins, reloads, abandoned, storage, route, store,
                 bootstrapping, refresh, leaving>>

\* What the server goes on with when nobody waits for the answer any more: a
\* login for account arg, a logout with access token tok and refresh token arg,
\* a refresh with tok, or the rotation of one whose token has been checked.
\* Other calls change nothing on the server.
Call(kind, tok, arg) == [kind |-> kind, tok |-> tok, arg |-> arg]
CallOf(t, s) ==
  IF s \in {"login", "logout"} /\ req[t][s].st = "sent"
  THEN <<Call(s, req[t][s].tok, req[t][s].arg)>> ELSE <<>>
RefreshCallOf(t) ==
  CASE refresh[t].st = "sent"    -> <<Call("refresh", refresh[t].tok, 0)>>
    [] refresh[t].st = "checked" -> <<Call("rotation", refresh[t].tok, 0)>>
    [] OTHER                     -> <<>>

\* Calls whose caller goes away never reach the server, or are handled there.
LeaveBehind(calls) ==
  \/ UNCHANGED abandoned
  \/ /\ Len(abandoned \o calls) <= MaxAbandoned
     /\ abandoned' = abandoned \o calls

\* A request is lost, times out or fails with another status than 401, or the
\* answer to a logout is lost: the interceptor rejects it at once.  After a
\* timeout the server may be at work on it.
Lose(t, s) ==
  /\ \/ req[t][s].st = "sent"
     \/ s = "logout" /\ req[t][s].st = "ok"
  /\ Reply(t, s, "refused")
  /\ LeaveBehind(CallOf(t, s))
  /\ UNCHANGED <<pairs, blacklisted, invalidatedAt, expired, ended, now, logins, reloads,
                 storage, route, store, bootstrapping, refresh, leaving>>

\* refresh_access_token up to the look-up of the blacklist ...
CheckRefresh(t) ==
  /\ refresh[t].st = "sent"
  /\ refresh' = [refresh EXCEPT ![t].st =
       IF refresh[t].tok \in ended \cup blacklisted THEN "failed" ELSE "checked"]
  /\ UNCHANGED <<serverVars, storage, route, store, bootstrapping, req, leaving>>

\* ... and, after the query for the user, the rotation: the old refresh token
\* is blacklisted and a new pair issued.
RotateRefresh(t) ==
  /\ refresh[t].st = "checked"
  /\ blacklisted' = blacklisted \cup {refresh[t].tok}
  /\ Issue(pairs[refresh[t].tok].acct, refresh[t].tok)
  /\ refresh' = [refresh EXCEPT ![t].st = "ok", ![t].new = Len(pairs) + 1]
  /\ UNCHANGED <<invalidatedAt, expired, ended, now, logins, reloads, abandoned, storage,
                 route, store, bootstrapping, req, leaving>>

\* The call fails on the way, or no answer comes in time.
LoseRefresh(t) ==
  /\ refresh[t].st \in {"sent", "checked", "ok"}
  /\ refresh' = [refresh EXCEPT ![t].st = "failed"]
  /\ LeaveBehind(RefreshCallOf(t))
  /\ UNCHANGED <<pairs, blacklisted, invalidatedAt, expired, ended, now, logins, reloads,
                 storage, route, store, bootstrapping, req, leaving>>

\* The handler of an abandoned call goes on as if its caller were there ...
AbandonedLogin(i) ==
  /\ abandoned[i].kind = "login"
  /\ Issue(abandoned[i].arg, 0)
  /\ abandoned' = RemoveAt(abandoned, i)
  /\ UNCHANGED <<blacklisted, invalidatedAt>>

AbandonedLogout(i) ==
  /\ abandoned[i].kind = "logout"
  /\ Accepts(abandoned[i].tok)
  /\ LogoutUser(abandoned[i].arg)
  /\ abandoned' = RemoveAt(abandoned, i)
  /\ UNCHANGED pairs

AbandonedCheck(i) ==
  /\ abandoned[i].kind = "refresh"
  /\ abandoned[i].tok \notin ended \cup blacklisted
  /\ abandoned' = [abandoned EXCEPT ![i].kind = "rotation"]
  /\ UNCHANGED <<pairs, blacklisted, invalidatedAt>>

AbandonedRotation(i) ==
  /\ abandoned[i].kind = "rotation"
  /\ blacklisted' = blacklisted \cup {abandoned[i].tok}
  /\ Issue(pairs[abandoned[i].tok].acct, abandoned[i].tok)
  /\ abandoned' = RemoveAt(abandoned, i)
  /\ UNCHANGED invalidatedAt

\* ... or refuses it.
AbandonedRefused(i) ==
  /\ \/ abandoned[i].kind = "login"
     \/ abandoned[i].kind = "logout" /\ ~Accepts(abandoned[i].tok)
     \/ abandoned[i].kind = "refresh" /\ abandoned[i].tok \in ended \cup blacklisted
  /\ abandoned' = RemoveAt(abandoned, i)
  /\ UNCHANGED <<pairs, blacklisted, invalidatedAt>>

HandleAbandoned(i) ==
  /\ AbandonedLogin(i) \/ AbandonedLogout(i) \/ AbandonedCheck(i)
       \/ AbandonedRotation(i) \/ AbandonedRefused(i)
  /\ UNCHANGED <<expired, ended, now, logins, reloads, storage, tabVars>>

-----------------------------------------------------------------------------
(* Client: requests and the interceptors of lib/api.ts *)

\* A request as it leaves: the request interceptor attaches the stored access
\* token, whatever the store says.
Sent(tok, arg) == [st |-> "sent", tok |-> tok, retry |-> FALSE, arg |-> arg]

\* The query of a page.
FetchPage(t, s) ==
  /\ s \in DataSlots
  /\ ~leaving[t]
  /\ store[t].auth /\ ~bootstrapping[t] /\ route[t] \notin PublicRoutes
  /\ RedirectFrom(route[t], TRUE, FALSE, Role(store[t].user)) = route[t]
  /\ req[t][s].st = "idle"
  /\ req' = [req EXCEPT ![t][s] = Sent(storage.access, 0)]
  /\ UNCHANGED <<serverVars, storage, route, store, bootstrapping, refresh, leaving>>

\* A 401 of a request that has been retried goes to its caller.
RejectRetried(t, s) ==
  /\ req[t][s].st = "denied" /\ req[t][s].retry
  /\ Reply(t, s, "refused")
  /\ UNCHANGED <<serverVars, storage, route, store, bootstrapping, refresh, leaving>>

\* A 401 while a refresh is running: the request joins failedQueue.
QueueRequest(t, s) ==
  /\ req[t][s].st = "denied" /\ ~req[t][s].retry
  /\ refresh[t].on
  /\ Reply(t, s, "queued")
  /\ UNCHANGED <<serverVars, storage, route, store, bootstrapping, refresh, leaving>>

\* The first 401 starts the refresh with the stored refresh token.
StartRefresh(t, s) ==
  /\ req[t][s].st = "denied" /\ ~req[t][s].retry
  /\ ~refresh[t].on
  /\ storage.refresh # 0
  /\ refresh' = [refresh EXCEPT ![t] =
       [on |-> TRUE, st |-> "sent", tok |-> storage.refresh, new |-> 0, leader |-> s]]
  /\ req' = [req EXCEPT ![t][s].st = "leading", ![t][s].retry = TRUE]
  /\ UNCHANGED <<serverVars, storage, route, store, bootstrapping, leaving>>

\* Without a refresh token: tokens removed, the page leaves for the login
\* page, and isRefreshing stays set in the document being left.
NoRefreshToken(t, s) ==
  /\ req[t][s].st = "denied" /\ ~req[t][s].retry
  /\ ~refresh[t].on
  /\ storage.refresh = 0
  /\ storage' = NoTokens
  /\ refresh' = [refresh EXCEPT ![t].on = TRUE]
  /\ req' = [req EXCEPT ![t][s].st = "refused", ![t][s].retry = TRUE]
  /\ leaving' = [leaving EXCEPT ![t] = TRUE]
  /\ UNCHANGED <<serverVars, route, store, bootstrapping>>

\* Mutant of ProcessQueue: only the request that began the refresh goes on.
ProcessLeader(r, st, tok) ==
  [s \in Slots |-> IF r[s].st = "leading" THEN [r[s] EXCEPT !.st = st, !.tok = tok] ELSE r[s]]

\* processQueue: what becomes of the requests that waited for the refresh.
ProcessQueue(r, st, tok) ==
  [s \in Slots |-> IF r[s].st \in {"queued", "leading"}
                   THEN [r[s] EXCEPT !.st = st, !.tok = tok]
                   ELSE r[s]]

\* The refresh succeeded: only the access token of the answer is stored, and
\* the waiting requests are sent again with it.
RefreshSucceeded(t) ==
  /\ refresh[t].st = "ok"
  /\ storage' = [storage EXCEPT !.access = refresh[t].new]
  /\ req' = [req EXCEPT ![t] = ProcessQueue(@, "sent", refresh[t].new)]
  /\ refresh' = [refresh EXCEPT ![t] = NoRefresh]
  /\ UNCHANGED <<serverVars, route, store, bootstrapping, leaving>>

\* The refresh failed: the waiting requests are rejected, both tokens removed
\* (for every tab), and this tab leaves for the login page.
RefreshFailed(t) ==
  /\ refresh[t].st = "failed"
  /\ storage' = NoTokens
  /\ req' = [req EXCEPT ![t] = ProcessQueue(@, "refused", 0)]
  /\ refresh' = [refresh EXCEPT ![t] = NoRefresh]
  /\ leaving' = [leaving EXCEPT ![t] = TRUE]
  /\ UNCHANGED <<serverVars, route, store, bootstrapping>>

-----------------------------------------------------------------------------
(* Client: routes *)

\* Tab t shows route r with store st and requests rq.  Entering the protected
\* routes mounts ProtectedRoute, which asks for /auth/me when there is a token
\* but no user yet.
Show(t, r, st, rq, stor) ==
  LET mounts == route[t] \in PublicRoutes /\ r \notin PublicRoutes
      boots == st.auth /\ st.user = NoAccount
  IN /\ route' = [route EXCEPT ![t] = r]
     /\ store' = [store EXCEPT ![t] = st]
     /\ bootstrapping' = [bootstrapping EXCEPT ![t] =
          IF r \in PublicRoutes THEN FALSE ELSE IF mounts THEN boots ELSE @]
     /\ req' = [req EXCEPT ![t] =
          IF mounts /\ boots
          THEN [rq EXCEPT !["boot"] = Sent(stor.access, 0)]
          ELSE rq]
     /\ storage' = stor

\* A guard, gateway or default route sends the tab on.
Redirect(t) ==
  LET r == RedirectFrom(route[t], store[t].auth, bootstrapping[t], Role(store[t].user))
  IN /\ ~leaving[t]
     /\ r # route[t]
     /\ Show(t, r, store[t], req[t], storage)
     /\ UNCHANGED <<serverVars, refresh, leaving>>

\* The user follows a link of the menu, or of the login and register pages.
Navigate(t, r) ==
  /\ ~leaving[t]
  /\ IF route[t] \in PublicRoutes
     THEN r \in ({"login", "register"} \cap Visited) \ {route[t]}
     ELSE /\ RedirectFrom(route[t], store[t].auth, bootstrapping[t],
                          Role(store[t].user)) = route[t]
          /\ ~bootstrapping[t]
          /\ r \in (MenuLinks(Role(store[t].user)) \cap Visited) \ {route[t]}
  /\ Show(t, r, store[t], req[t], storage)
  /\ UNCHANGED <<serverVars, refresh, leaving>>

\* A document is loaded at route r: module state starts afresh and the store
\* knows no more than the stored access token.  The old document's requests are
\* gone, what the server is doing for them is not.
Load(t, r) ==
  LET st == [user |-> NoAccount, access |-> storage.access,
             auth |-> storage.access # 0]
      boots == r \notin PublicRoutes /\ st.auth
  IN /\ route' = [route EXCEPT ![t] = r]
     /\ store' = [store EXCEPT ![t] = st]
     /\ bootstrapping' = [bootstrapping EXCEPT ![t] = boots]
     /\ req' = [req EXCEPT ![t] = [s \in Slots |->
          IF s = "boot" /\ boots THEN Sent(storage.access, 0) ELSE Idle]]
     /\ refresh' = [refresh EXCEPT ![t] = NoRefresh]
     /\ leaving' = [leaving EXCEPT ![t] = FALSE]
     /\ LeaveBehind(CallOf(t, "login") \o CallOf(t, "logout") \o RefreshCallOf(t))
     /\ UNCHANGED <<pairs, blacklisted, invalidatedAt, expired, ended, now, logins, storage>>

\* The assignment to window.location takes effect.
Leave(t) == leaving[t] /\ Load(t, "login") /\ UNCHANGED reloads

\* The user reloads the page, or opens the application at its root.
Reload(t) ==
  /\ reloads < MaxReloads
  /\ reloads' = reloads + 1
  /\ \E r \in {route[t], "root"} : Load(t, r)

-----------------------------------------------------------------------------
(* Client: useAuth *)

Done(t, s) == [req[t] EXCEPT ![s] = Idle]

\* The submit buttons: disabled while the login (the registration) of their
\* page is under way, whatever role tab the user has picked.
Loading(t) == req[t]["login"].st # "idle" \/ req[t]["me"].st # "idle"
LoginPageDesktop(t) == route[t] = "login" /\ ~Loading(t)
LoginPageMobile(t) == route[t] = "login" /\ ~Loading(t)
AdminLoginPage(t) == route[t] = "admin_login" /\ ~Loading(t)
RegisterForm(t) == route[t] = "register" /\ req[t]["register"].st = "idle"

SubmitLogin(t, a) ==
  /\ ~leaving[t]
  /\ LoginPageDesktop(t) \/ LoginPageMobile(t) \/ AdminLoginPage(t)
  /\ logins < MaxLogins
  /\ logins' = logins + 1
  /\ req' = [req EXCEPT ![t]["login"] = [Sent(storage.access, 0)
                                           EXCEPT !.arg = a]]
  /\ UNCHANGED <<pairs, blacklisted, invalidatedAt, expired, ended, now, reloads, abandoned,
                 storage, route, store, bootstrapping, refresh, leaving>>

\* Step 1: the tokens are kept with a placeholder user, and getMe is sent.
LoginAnswered(t) ==
  LET n == req[t]["login"].tok
  IN /\ req[t]["login"].st = "ok"
     /\ storage' = [access |-> n, refresh |-> n]
     /\ store' = [store EXCEPT ![t] = [user |-> Placeholder, access |-> n, auth |-> TRUE]]
     /\ req' = [req EXCEPT ![t] =
          [Done(t, "login") EXCEPT !["me"] = Sent(n, n)]]
     /\ UNCHANGED <<serverVars, route, bootstrapping, refresh, leaving>>

\* Steps 2 and 3: the profile replaces the placeholder, the tokens of step 1
\* are stored again, and the tab goes to the dashboard.
ProfileLoaded(t) ==
  LET n == req[t]["me"].arg
      me == pairs[req[t]["me"].tok].acct
  IN /\ req[t]["me"].st = "ok"
     /\ Show(t, "dashboard", [user |-> me, access |-> n, auth |-> TRUE],
             Done(t, "me"), [access |-> n, refresh |-> n])
     /\ UNCHANGED <<serverVars, refresh, leaving>>

\* A login that fails in either call toasts and stays; what setAuth stored in
\* step 1 stays too.
LoginFailed(t, s) ==
  /\ s \in {"login", "me"}
  /\ req[t][s].st = "refused"
  /\ req' = [req EXCEPT ![t] = Done(t, s)]
  /\ UNCHANGED <<serverVars, storage, route, store, bootstrapping, refresh, leaving>>

\* Sign up.
SubmitRegister(t) ==
  /\ ~leaving[t]
  /\ RegisterForm(t)
  /\ logins < MaxLogins
  /\ logins' = logins + 1
  /\ req' = [req EXCEPT ![t]["register"] = Sent(storage.access, 0)]
  /\ UNCHANGED <<pairs, blacklisted, invalidatedAt, expired, ended, now, reloads, abandoned,
                 storage, route, store, bootstrapping, refresh, leaving>>

\* useAuth.register goes to the login page and RegisterPage, after it, to the
\* dashboard; a failure stays on the page.
Registered(t) ==
  /\ req[t]["register"].st \in {"ok", "refused"}
  /\ Show(t, IF req[t]["register"].st = "ok" THEN "dashboard" ELSE route[t],
          store[t], Done(t, "register"), storage)
  /\ UNCHANGED <<serverVars, refresh, leaving>>

\* The logout buttons of the layouts (TopBar, MobileDrawer): rendered on every
\* protected page, and never disabled.
LayoutShown(t) ==
  route[t] \notin PublicRoutes /\ store[t].auth /\ ~bootstrapping[t]

\* Logging out: the server is told when there is a refresh token.
Logout(t) ==
  /\ ~leaving[t]
  /\ LayoutShown(t)
  /\ req[t]["logout"].st = "idle"
  /\ IF storage.refresh # 0
     THEN /\ req' = [req EXCEPT ![t]["logout"] =
                       Sent(storage.access, storage.refresh)]
          /\ UNCHANGED <<storage, route, store, bootstrapping>>
     ELSE Show(t, "login", SignedOut, req[t], NoTokens)
  /\ UNCHANGED <<serverVars, refresh, leaving>>

\* Whatever the server said, the local state is cleared.
LoggedOut(t) ==
  /\ req[t]["logout"].st \in {"ok", "refused"}
  /\ Show(t, "login", SignedOut, Done(t, "logout"), NoTokens)
  /\ UNCHANGED <<serverVars, refresh, leaving>>

\* ProtectedRoute's getMe: the user is set, or the session is dropped.
Bootstrapped(t) ==
  LET ok == req[t]["boot"].st = "ok"
  IN /\ req[t]["boot"].st \in {"ok", "refused"}
     /\ store' = [store EXCEPT ![t] =
          IF ok THEN [@ EXCEPT !.user = pairs[req[t]["boot"].tok].acct]
          ELSE SignedOut]
     /\ storage' = IF ok THEN storage ELSE NoTokens
     /\ bootstrapping' = [bootstrapping EXCEPT ![t] = FALSE]
     /\ req' = [req EXCEPT ![t] = Done(t, "boot")]
     /\ UNCHANGED <<serverVars, route, refresh, leaving>>

\* A page's query is over, one way or the other.
Fetched(t, s) ==
  /\ s \in DataSlots
  /\ req[t][s].st \in {"ok", "refused"}
  /\ req' = [req EXCEPT ![t] = Done(t, s)]
  /\ UNCHANGED <<serverVars, storage, route, store, bootstrapping, refresh, leaving>>

-----------------------------------------------------------------------------

Intercept(t, s) == RejectRetried(t, s) \/ QueueRequest(t, s)
                     \/ StartRefresh(t, s) \/ NoRefreshToken(t, s)

RefreshAnswer(t) == CheckRefresh(t) \/ RotateRefresh(t) \/ LoseRefresh(t)

\* The continuation of the promise that slot s awaits.
Settle(t, s) ==
  \/ LoginFailed(t, s) \/ Fetched(t, s)
  \/ s = "login" /\ LoginAnswered(t)
  \/ s = "me" /\ ProfileLoaded(t)
  \/ s = "register" /\ Registered(t)
  \/ s = "logout" /\ LoggedOut(t)
  \/ s = "boot" /\ Bootstrapped(t)

User(t) ==
  \/ \E s \in Slots : FetchPage(t, s)
  \/ \E r \in RouteNames : Navigate(t, r)
  \/ \E a \in Accounts : SubmitLogin(t, a)
  \/ SubmitRegister(t) \/ Logout(t) \/ Reload(t)

AuthNext ==
  \/ Tick
  \/ \E n \in 1 .. Len(pairs) : Expire(n)
  \/ \E i \in 1 .. Len(abandoned) : HandleAbandoned(i)
  \/ \E t \in Tabs :
       \/ User(t) \/ Redirect(t) \/ Leave(t)
       \/ RefreshAnswer(t) \/ RefreshSucceeded(t) \/ RefreshFailed(t)
       \/ \E s \in Slots : Respond(t, s) \/ Lose(t, s) \/ Intercept(t, s)
                          \/ Settle(t, s)

\* What happens to the request of slot s without the user: it is answered or
\* fails, the interceptor sees the answer, the caller's code goes on.
Handle(t, s) == Respond(t, s) \/ Lose(t, s) \/ Intercept(t, s) \/ Settle(t, s)

\* The network answers or fails, promises run their continuations, and the
\* browser follows a redirect.  Users, expiry and the clock owe nothing.
AuthFairness ==
  \A t \in Tabs :
    /\ WF_authVars(Redirect(t))
    /\ WF_authVars(Leave(t))
    /\ WF_authVars(RefreshAnswer(t) \/ RefreshSucceeded(t) \/ RefreshFailed(t))
    /\ \A s \in Slots : WF_authVars(Handle(t, s))

AuthSpec == AuthInit /\ [][AuthNext]_authVars
FairSpec == AuthSpec /\ AuthFairness

-----------------------------------------------------------------------------
(* Properties *)

ReqStates == {"idle", "sent", "ok", "denied", "refused", "queued", "leading"}
RefreshStates == {"none", "sent", "checked", "ok", "failed"}
CallKinds == {"login", "logout", "refresh", "rotation"}

\* Type invariant.
AuthTypeOK ==
  /\ pairs \in Seq([acct : Accounts, at : 1 .. MaxNow, from : Nat])
  /\ \A n \in 1 .. Len(pairs) : pairs[n].from < n
  /\ blacklisted \subseteq 1 .. Len(pairs)
  /\ expired \subseteq 1 .. Len(pairs) /\ ended \subseteq expired
  /\ invalidatedAt \in [Accounts -> 0 .. MaxNow]
  /\ now \in 1 .. MaxNow /\ logins \in 0 .. MaxLogins /\ reloads \in 0 .. MaxReloads
  /\ abandoned \in Seq([kind : CallKinds, tok : Tokens, arg : Tokens \cup Accounts])
  /\ storage \in [access : Tokens, refresh : Tokens]
  /\ route \in [Tabs -> RouteNames]
  /\ store \in [Tabs -> [user : Users, access : Tokens, auth : BOOLEAN]]
  /\ bootstrapping \in [Tabs -> BOOLEAN]
  /\ req \in [Tabs -> [Slots -> [st : ReqStates, tok : Tokens, retry : BOOLEAN,
                                 arg : Tokens \cup Accounts]]]
  /\ refresh \in [Tabs -> [on : BOOLEAN, st : RefreshStates, tok : Tokens,
                           new : Tokens, leader : Slots]]
  /\ leaving \in [Tabs -> BOOLEAN]

\* No request is left in failedQueue with nobody to process it: one that waits
\* for a refresh has a refresh under way whose end calls processQueue, or its
\* document is about to be replaced (lib/api.ts, the response interceptor).
NoOrphanedRequest ==
  \A t \in Tabs : \A s \in Slots :
    /\ req[t][s].st = "leading" => refresh[t].st # "none" /\ refresh[t].leader = s
    /\ req[t][s].st = "queued" => refresh[t].st # "none" \/ leaving[t]

\* Every request comes to an end, also behind a refresh that fails.
RequestsSettle ==
  \A t \in Tabs : \A s \in Slots : req[t][s].st # "idle" ~> req[t][s].st = "idle"

=============================================================================
