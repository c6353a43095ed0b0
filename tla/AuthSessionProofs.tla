-------------------------- MODULE AuthSessionProofs -------------------------
(* Theorems about AuthSession, for every number of tabs, accounts and      *)
(* requests: who waits for a refresh is never forgotten, and every token    *)
(* held has been issued.                                                    *)
EXTENDS AuthSession, TLAPS

-----------------------------------------------------------------------------
(* The invariant: one tab's requests against its refresh *)

\* The shapes of AuthTypeOK, without the bounds a growing server moves: what
\* a request carries is the number of a pair, or an account.
Carried == Nat \cup Accounts
RequestShape == [st : ReqStates, tok : Carried, retry : BOOLEAN, arg : Carried]
RefreshShape == [on : BOOLEAN, st : RefreshStates, tok : Carried, new : Carried, leader : Slots]
StorageShape == [access : Carried, refresh : Carried]

\* A tab with requests r and refresh f, about to be left or not: a refresh
\* runs only under the flag; the flag without a refresh is that of a document
\* being left; who leads is the refresh's leader; who queues does so under
\* the flag.
Good(r, f, left) ==
  /\ r \in [Slots -> RequestShape] /\ f \in RefreshShape /\ left \in BOOLEAN
  /\ f.st # "none" => f.on
  /\ f.on => f.st # "none" \/ left
  /\ \A s \in Slots : r[s].st = "leading" => f.st # "none" /\ f.leader = s
  /\ \A s \in Slots : r[s].st = "queued" => f.on

\* However many pairs have been issued, they are a sequence.
Sequence(p) == \E S : p \in Seq(S)

\* The queue is drained wherever the flag is reset, so Good is inductive where
\* NoOrphanedRequest alone is not: it says nothing of isRefreshing.
QueueInv ==
  /\ Sequence(pairs)
  /\ storage \in StorageShape
  /\ req \in [Tabs -> [Slots -> RequestShape]] /\ refresh \in [Tabs -> RefreshShape]
  /\ leaving \in [Tabs -> BOOLEAN]
  /\ \A t \in Tabs : Good(req[t], refresh[t], leaving[t])

-----------------------------------------------------------------------------
(* Lemmas about one tab *)

LEMMA IdleShape == Idle \in RequestShape
BY DEF Idle, RequestShape, ReqStates, Carried

LEMMA SentShape ==
  ASSUME NEW tok \in Carried, NEW arg \in Carried
  PROVE  Sent(tok, arg) \in RequestShape /\ Sent(tok, arg).st = "sent"
BY DEF Sent, RequestShape, ReqStates

\* A request that neither leads nor queues disturbs nothing.
LEMMA Replaced ==
  ASSUME NEW r, NEW f, NEW left, Good(r, f, left), NEW s \in Slots,
         NEW q \in RequestShape, q.st \notin {"queued", "leading"}
  PROVE  Good([r EXCEPT ![s] = q], f, left)
<1>1. [r EXCEPT ![s] = q] \in [Slots -> RequestShape]
  BY DEF Good
<1>2. \A x \in Slots : [r EXCEPT ![s] = q][x] = IF x = s THEN q ELSE r[x]
  BY DEF Good
<1> QED BY <1>1, <1>2 DEF Good

\* A new status of a request is a request.
LEMMA StatusShape ==
  ASSUME NEW q \in RequestShape, NEW st \in ReqStates, NEW tok \in Carried
  PROVE  /\ [q EXCEPT !.st = st] \in RequestShape /\ [q EXCEPT !.st = st].st = st
         /\ [q EXCEPT !.st = st, !.tok = tok] \in RequestShape
         /\ [q EXCEPT !.st = st, !.tok = tok].st = st
         /\ \A b \in BOOLEAN : /\ [q EXCEPT !.st = st, !.retry = b] \in RequestShape
                               /\ [q EXCEPT !.st = st, !.retry = b].st = st
BY DEF RequestShape

\* processQueue leaves nobody waiting, so the flag may be reset.
LEMMA Drained ==
  ASSUME NEW r \in [Slots -> RequestShape], NEW st \in {"sent", "refused"}, NEW tok \in Carried
  PROVE  /\ ProcessQueue(r, st, tok) \in [Slots -> RequestShape]
         /\ \A s \in Slots : ProcessQueue(r, st, tok)[s].st \notin {"queued", "leading"}
<1>1. \A s \in Slots : r[s] \in RequestShape
  OBVIOUS
<1>2. st \in ReqStates /\ st \notin {"queued", "leading"}
  BY DEF ReqStates
<1>3. \A s \in Slots : /\ [r[s] EXCEPT !.st = st, !.tok = tok] \in RequestShape
                       /\ [r[s] EXCEPT !.st = st, !.tok = tok].st = st
  <2> SUFFICES ASSUME NEW s \in Slots
               PROVE  /\ [r[s] EXCEPT !.st = st, !.tok = tok] \in RequestShape
                      /\ [r[s] EXCEPT !.st = st, !.tok = tok].st = st
    OBVIOUS
  <2>1. r[s] \in RequestShape
    BY <1>1
  <2> QED BY <1>2, <2>1 DEF RequestShape
<1> QED BY <1>1, <1>2, <1>3 DEF ProcessQueue

\* A document without a refresh and without anybody waiting is good.
LEMMA Quiet ==
  ASSUME NEW r \in [Slots -> RequestShape], NEW left \in BOOLEAN,
         \A s \in Slots : r[s].st \notin {"queued", "leading"}
  PROVE  Good(r, NoRefresh, left)
BY DEF Good, NoRefresh, RefreshShape, RefreshStates, Slots, Carried

\* One tab moved from one good state to another, the other tabs stayed.
LEMMA OneTab ==
  ASSUME QueueInv, NEW t \in Tabs, NEW r, NEW f, NEW left, Good(r, f, left),
         req' = [req EXCEPT ![t] = r], refresh' = [refresh EXCEPT ![t] = f],
         leaving' = [leaving EXCEPT ![t] = left],
         storage' \in StorageShape,
         Sequence(pairs')
  PROVE  QueueInv'
<1>1. r \in [Slots -> RequestShape] /\ f \in RefreshShape /\ left \in BOOLEAN
  BY DEF Good
<1>2. \A u \in Tabs : /\ req'[u] = IF u = t THEN r ELSE req[u]
                      /\ refresh'[u] = IF u = t THEN f ELSE refresh[u]
                      /\ leaving'[u] = IF u = t THEN left ELSE leaving[u]
  BY DEF QueueInv
<1>3. \A u \in Tabs : Good(req'[u], refresh'[u], leaving'[u])
  BY <1>2 DEF QueueInv
<1> QED BY <1>1, <1>3 DEF QueueInv

\* In particular, one request of the tab became another.
LEMMA OneRequest ==
  ASSUME QueueInv, NEW t \in Tabs, NEW s \in Slots, NEW q \in RequestShape,
         q.st \notin {"queued", "leading"},
         req' = [req EXCEPT ![t][s] = q], UNCHANGED <<refresh, leaving>>,
         storage' \in StorageShape, Sequence(pairs')
  PROVE  QueueInv'
<1> DEFINE r == [req[t] EXCEPT ![s] = q]
           f == refresh[t]
           left == leaving[t]
<1>1. Good(r, f, left)
  BY Replaced DEF QueueInv
<1>2. /\ req' = [req EXCEPT ![t] = r]
      /\ refresh' = [refresh EXCEPT ![t] = f]
      /\ leaving' = [leaving EXCEPT ![t] = left]
  BY DEF QueueInv
<1> HIDE DEF r, f, left
<1> QED BY <1>1, <1>2, OneTab

\* Issuing a pair keeps the pairs a sequence.
LEMMA Issued ==
  ASSUME Sequence(pairs), NEW a, NEW from, Issue(a, from)
  PROVE  Sequence(pairs')
<1> DEFINE pair == [acct |-> a, at |-> now, from |-> from]
<1> HIDE DEF pair
<1> PICK S : pairs \in Seq(S)
  BY DEF Sequence
<1>1. pairs \in Seq(S \cup {pair})
  OBVIOUS
<1>2. Append(pairs, pair) \in Seq(S \cup {pair})
  BY <1>1
<1>3. pairs' = Append(pairs, pair)
  BY DEF Issue, pair
<1> QED BY <1>2, <1>3 DEF Sequence

-----------------------------------------------------------------------------
(* Steps *)

\* Another page in the same document.
LEMMA Shown ==
  ASSUME QueueInv, NEW t \in Tabs, NEW r, NEW st, NEW rq, NEW stor, Show(t, r, st, rq, stor),
         Good(rq, refresh[t], leaving[t]), stor \in StorageShape,
         UNCHANGED <<pairs, refresh, leaving>>
  PROVE  QueueInv'
<1> DEFINE booted == [rq EXCEPT !["boot"] = Sent(stor.access, 0)]
           f == refresh[t]
           left == leaving[t]
<1>1. Good(booted, f, left) /\ Good(rq, f, left)
  <2>1. "boot" \in Slots
    BY DEF Slots
  <2>2. Sent(stor.access, 0) \in RequestShape /\ Sent(stor.access, 0).st = "sent"
    BY SentShape DEF StorageShape, Carried
  <2> QED BY <2>1, <2>2, Replaced
<1>2. req' = [req EXCEPT ![t] = booted] \/ req' = [req EXCEPT ![t] = rq]
  BY DEF Show
<1>3. /\ refresh' = [refresh EXCEPT ![t] = f]
      /\ leaving' = [leaving EXCEPT ![t] = left]
      /\ Sequence(pairs')
  BY DEF QueueInv
<1>4. storage' \in StorageShape
  BY DEF Show
<1> HIDE DEF booted, f, left
<1> QED BY <1>1, <1>2, <1>3, <1>4, OneTab

\* Another document: nothing of the old one is left.
LEMMA Loaded ==
  ASSUME QueueInv, NEW t \in Tabs, NEW r, Load(t, r)
  PROVE  QueueInv'
<1> PICK boots \in BOOLEAN :
      req' = [req EXCEPT ![t] = [s \in Slots |->
                IF s = "boot" /\ boots THEN Sent(storage.access, 0) ELSE Idle]]
  BY DEF Load
<1> DEFINE new == [s \in Slots |-> IF s = "boot" /\ boots THEN Sent(storage.access, 0) ELSE Idle]
<1>1. storage.access \in Carried /\ 0 \in Carried
  BY DEF QueueInv, StorageShape, Carried
<1>2. Sent(storage.access, 0) \in RequestShape /\ Sent(storage.access, 0).st = "sent"
  BY <1>1, SentShape
<1>3. Idle \in RequestShape /\ Idle.st = "idle"
  BY IdleShape DEF Idle
<1>4. new \in [Slots -> RequestShape] /\ \A s \in Slots : new[s].st \notin {"queued", "leading"}
  BY <1>2, <1>3
<1>5. Good(new, NoRefresh, FALSE)
  BY <1>4, Quiet
<1>6. /\ req' = [req EXCEPT ![t] = new] /\ refresh' = [refresh EXCEPT ![t] = NoRefresh]
      /\ leaving' = [leaving EXCEPT ![t] = FALSE]
  BY DEF Load
<1>7. storage' \in StorageShape /\ Sequence(pairs')
  BY DEF Load, QueueInv
<1> HIDE DEF new
<1> QED BY <1>5, <1>6, <1>7, OneTab

\* What the user does.
LEMMA UserStep ==
  ASSUME QueueInv, NEW t \in Tabs, User(t)
  PROVE  QueueInv'
<1>a. /\ Good(req[t], refresh[t], leaving[t]) /\ req[t] \in [Slots -> RequestShape]
      /\ storage \in StorageShape /\ storage.access \in Carried /\ storage.refresh \in Carried
      /\ 0 \in Carried /\ Sequence(pairs)
  BY DEF QueueInv, StorageShape, Carried
<1>b. Sent(storage.access, 0) \in RequestShape /\ Sent(storage.access, 0).st = "sent"
  BY <1>a, SentShape
<1>1. ASSUME NEW s \in Slots, FetchPage(t, s) PROVE QueueInv'
  <2>1. /\ req' = [req EXCEPT ![t][s] = Sent(storage.access, 0)]
        /\ UNCHANGED <<refresh, leaving, storage, pairs>>
    BY <1>1 DEF FetchPage, serverVars
  <2> QED BY <1>a, <1>b, <2>1, OneRequest
<1>2. ASSUME NEW r, Navigate(t, r) PROVE QueueInv'
  <2>1. /\ Show(t, r, store[t], req[t], storage)
        /\ UNCHANGED <<pairs, refresh, leaving>>
    BY <1>2 DEF Navigate, serverVars
  <2> QED BY <1>a, <2>1, Shown
<1>3. ASSUME NEW a \in Accounts, SubmitLogin(t, a) PROVE QueueInv'
  <2> DEFINE q == [Sent(storage.access, 0) EXCEPT !.arg = a]
  <2>1. q \in RequestShape /\ q.st = "sent"
    BY <1>b DEF RequestShape, Carried
  <2>2. /\ req' = [req EXCEPT ![t]["login"] = q] /\ "login" \in Slots
        /\ UNCHANGED <<refresh, leaving, storage, pairs>>
    BY <1>3 DEF SubmitLogin, Slots
  <2> HIDE DEF q
  <2> QED BY <1>a, <2>1, <2>2, OneRequest
<1>4. CASE SubmitRegister(t)
  <2>1. /\ req' = [req EXCEPT ![t]["register"] = Sent(storage.access, 0)] /\ "register" \in Slots
        /\ UNCHANGED <<refresh, leaving, storage, pairs>>
    BY <1>4 DEF SubmitRegister, serverVars, Slots
  <2> QED BY <1>a, <1>b, <2>1, OneRequest
<1>5. CASE Logout(t)
  <2>1. CASE storage.refresh # 0
    <3> DEFINE q == Sent(storage.access, storage.refresh)
    <3>1. q \in RequestShape /\ q.st = "sent"
      BY <1>a, SentShape
    <3>2. /\ req' = [req EXCEPT ![t]["logout"] = q] /\ "logout" \in Slots
          /\ UNCHANGED <<refresh, leaving, storage, pairs>>
      BY <1>5, <2>1 DEF Logout, serverVars, Slots
    <3> HIDE DEF q
    <3> QED BY <1>a, <3>1, <3>2, OneRequest
  <2>2. CASE storage.refresh = 0
    <3>1. /\ Show(t, "login", SignedOut, req[t], NoTokens)
          /\ UNCHANGED <<pairs, refresh, leaving>>
      BY <1>5, <2>2 DEF Logout, serverVars
    <3>2. NoTokens \in StorageShape
      BY <1>a DEF NoTokens, StorageShape
    <3> QED BY <1>a, <3>1, <3>2, Shown
  <2> QED BY <2>1, <2>2
<1>6. CASE Reload(t)
  <2>1. \E r : Load(t, r)
    BY <1>6 DEF Reload
  <2> QED BY <2>1, Loaded
<1> QED BY <1>1, <1>2, <1>3, <1>4, <1>5, <1>6 DEF User

\* The refresh call and its end.
LEMMA RefreshStep ==
  ASSUME QueueInv, NEW t \in Tabs,
         RefreshAnswer(t) \/ RefreshSucceeded(t) \/ RefreshFailed(t)
  PROVE  QueueInv'
<1> DEFINE r == req[t]
           f == refresh[t]
           left == leaving[t]
<1>a. /\ Good(r, f, left) /\ r \in [Slots -> RequestShape] /\ f \in RefreshShape
      /\ left \in BOOLEAN /\ storage \in StorageShape /\ Sequence(pairs)
      /\ f.new \in Carried /\ 0 \in Carried
  BY DEF QueueInv, RefreshShape, Carried
<1>b. req = [req EXCEPT ![t] = r] /\ leaving = [leaving EXCEPT ![t] = left]
  BY DEF QueueInv
<1>1. ASSUME f.st # "none", NEW st \in RefreshStates \ {"none"},
             refresh' = [refresh EXCEPT ![t].st = st], UNCHANGED <<req, leaving, storage, pairs>>
      PROVE  QueueInv'
  <2> DEFINE g == [f EXCEPT !.st = st]
  <2>1. Good(r, g, left)
    BY <1>a, <1>1 DEF Good, RefreshShape
  <2>2. refresh' = [refresh EXCEPT ![t] = g]
    BY <1>1
  <2> HIDE DEF g, r, f, left
  <2> QED BY <1>a, <1>b, <1>1, <2>1, <2>2, OneTab
<1>2. CASE CheckRefresh(t)
  <2>1. \E st \in {"failed", "checked"} : refresh' = [refresh EXCEPT ![t].st = st]
    BY <1>2 DEF CheckRefresh
  <2> QED BY <1>1, <1>2, <2>1 DEF CheckRefresh, serverVars, RefreshStates
<1>3. CASE RotateRefresh(t)
  <2> DEFINE g == [f EXCEPT !.st = "ok", !.new = Len(pairs) + 1]
  <2>1. Sequence(pairs')
    BY <1>3, <1>a, Issued DEF RotateRefresh
  <2>2. Len(pairs) + 1 \in Carried
    BY <1>a DEF Sequence, Carried
  <2>3. Good(r, g, left)
    BY <1>a, <1>3, <2>2 DEF Good, RefreshShape, RefreshStates, RotateRefresh
  <2>4. refresh' = [refresh EXCEPT ![t] = g] /\ UNCHANGED <<req, leaving, storage>>
    BY <1>3 DEF RotateRefresh, QueueInv
  <2> HIDE DEF g, r, f, left
  <2> QED BY <1>a, <1>b, <2>1, <2>3, <2>4, OneTab
<1>4. CASE LoseRefresh(t)
  BY <1>1, <1>4 DEF LoseRefresh, serverVars, RefreshStates
<1>5. CASE RefreshSucceeded(t)
  <2> DEFINE q == ProcessQueue(r, "sent", f.new)
  <2>1. Good(q, NoRefresh, left)
    BY <1>a, Drained, Quiet
  <2>2. /\ req' = [req EXCEPT ![t] = q] /\ refresh' = [refresh EXCEPT ![t] = NoRefresh]
        /\ UNCHANGED <<leaving, pairs>>
    BY <1>5 DEF RefreshSucceeded, serverVars
  <2>3. storage' \in StorageShape
    BY <1>5, <1>a DEF RefreshSucceeded, StorageShape
  <2> HIDE DEF q, r, f, left
  <2> QED BY <1>a, <1>b, <2>1, <2>2, <2>3, OneTab
<1>6. CASE RefreshFailed(t)
  <2> DEFINE q == ProcessQueue(r, "refused", 0)
  <2>1. Good(q, NoRefresh, TRUE)
    BY <1>a, Drained, Quiet
  <2>2. /\ req' = [req EXCEPT ![t] = q] /\ refresh' = [refresh EXCEPT ![t] = NoRefresh]
        /\ leaving' = [leaving EXCEPT ![t] = TRUE] /\ UNCHANGED pairs
    BY <1>6 DEF RefreshFailed, serverVars
  <2>3. storage' \in StorageShape
    BY <1>6, <1>a DEF RefreshFailed, StorageShape, NoTokens
  <2> HIDE DEF q, r, f
  <2> QED BY <1>a, <2>1, <2>2, <2>3, OneTab
<1> QED BY <1>2, <1>3, <1>4, <1>5, <1>6 DEF RefreshAnswer

\* The server's answer, or none.
LEMMA AnswerStep ==
  ASSUME QueueInv, NEW t \in Tabs, NEW s \in Slots, Respond(t, s) \/ Lose(t, s)
  PROVE  QueueInv'
<1> DEFINE q == req[t][s]
<1>a. q \in RequestShape /\ Sequence(pairs) /\ storage \in StorageShape
  BY DEF QueueInv
<1>1. ASSUME NEW st \in {"ok", "denied", "refused"}, Reply(t, s, st),
             UNCHANGED <<refresh, leaving, storage, pairs>>
      PROVE  QueueInv'
  <2> DEFINE p == [q EXCEPT !.st = st]
  <2>1. p \in RequestShape /\ p.st = st
    BY <1>a DEF RequestShape, ReqStates
  <2>2. req' = [req EXCEPT ![t][s] = p]
    BY <1>1 DEF Reply, QueueInv
  <2> HIDE DEF p, q
  <2> QED BY <1>a, <1>1, <2>1, <2>2, OneRequest
<1>2. CASE Lose(t, s)
  BY <1>1, <1>2 DEF Lose, serverVars
<1>3. CASE s = "login" /\ Issue(q.arg, 0) /\ UNCHANGED <<refresh, leaving, storage>>
           /\ req' = [req EXCEPT ![t][s].st = "ok", ![t][s].tok = Len(pairs) + 1]
  <2> DEFINE p == [q EXCEPT !.st = "ok", !.tok = Len(pairs) + 1]
  <2>1. Sequence(pairs') /\ Len(pairs) + 1 \in Carried
    BY <1>a, <1>3, Issued DEF Sequence, Carried
  <2>2. p \in RequestShape /\ p.st = "ok"
    BY <1>a, <2>1 DEF RequestShape, ReqStates
  <2>3. req' = [req EXCEPT ![t][s] = p]
    BY <1>3 DEF QueueInv
  <2>4. UNCHANGED <<refresh, leaving>> /\ storage' \in StorageShape
    BY <1>a, <1>3
  <2>5. Sequence(pairs')
    BY <2>1
  <2> HIDE DEF p, q
  <2> QED BY <2>2, <2>3, <2>4, <2>5, OneRequest
<1>4. CASE Respond(t, s)
  <2>1. UNCHANGED <<refresh, leaving, storage>>
    BY <1>4 DEF Respond
  <2>2. \/ /\ s = "login" /\ Issue(q.arg, 0)
           /\ req' = [req EXCEPT ![t][s].st = "ok", ![t][s].tok = Len(pairs) + 1]
        \/ (Reply(t, s, "ok") \/ Reply(t, s, "denied")) /\ UNCHANGED pairs
    BY <1>4 DEF Respond
  <2> HIDE DEF q
  <2> QED BY <1>1, <1>3, <2>1, <2>2
<1> QED BY <1>2, <1>4

\* The interceptor's four ways with a 401.
LEMMA InterceptStep ==
  ASSUME QueueInv, NEW t \in Tabs, NEW s \in Slots, Intercept(t, s)
  PROVE  QueueInv'
<1> DEFINE r == req[t]
           f == refresh[t]
           left == leaving[t]
           q == req[t][s]
<1>a. /\ Good(r, f, left) /\ r \in [Slots -> RequestShape] /\ f \in RefreshShape
      /\ left \in BOOLEAN /\ q \in RequestShape
      /\ storage \in StorageShape /\ Sequence(pairs)
  BY DEF QueueInv
<1>1. CASE RejectRetried(t, s)
  <2> DEFINE p == [q EXCEPT !.st = "refused"]
  <2>1. p \in RequestShape /\ p.st = "refused"
    BY <1>a DEF RequestShape, ReqStates
  <2>2. /\ req' = [req EXCEPT ![t][s] = p] /\ UNCHANGED <<refresh, leaving, storage, pairs>>
    BY <1>1 DEF RejectRetried, Reply, QueueInv, serverVars
  <2> HIDE DEF p, r, f, left, q
  <2> QED BY <1>a, <2>1, <2>2, OneRequest
<1>2. CASE QueueRequest(t, s)
  <2> DEFINE p == [q EXCEPT !.st = "queued"]
             new == [r EXCEPT ![s] = p]
  <2>1. p \in RequestShape /\ p.st = "queued"
    BY <1>a DEF RequestShape, ReqStates
  <2>2. \A x \in Slots : new[x] = IF x = s THEN p ELSE r[x]
    BY <1>a
  <2>3. f.on
    BY <1>2 DEF QueueRequest
  <2> HIDE DEF p, f, left, q
  <2>4. Good(new, f, left)
    BY <1>a, <2>1, <2>2, <2>3 DEF Good
  <2>5. /\ req' = [req EXCEPT ![t] = new]
        /\ refresh' = [refresh EXCEPT ![t] = f] /\ leaving' = [leaving EXCEPT ![t] = left]
        /\ UNCHANGED <<storage, pairs>>
    BY <1>2 DEF QueueRequest, Reply, QueueInv, p, q, f, left, serverVars
  <2> HIDE DEF new, r
  <2> QED BY <1>a, <2>4, <2>5, OneTab
<1>3. CASE StartRefresh(t, s)
  <2> DEFINE p == [q EXCEPT !.st = "leading", !.retry = TRUE]
             new == [r EXCEPT ![s] = p]
             g == [on |-> TRUE, st |-> "sent", tok |-> storage.refresh, new |-> 0, leader |-> s]
  <2>1. p \in RequestShape /\ p.st = "leading"
    BY <1>a DEF RequestShape, ReqStates
  <2>2. \A x \in Slots : new[x] = IF x = s THEN p ELSE r[x]
    BY <1>a
  <2>3. f.st = "none" /\ ~f.on
    BY <1>3, <1>a DEF StartRefresh, Good
  <2>4. g \in RefreshShape
    BY <1>a DEF RefreshShape, RefreshStates, StorageShape, Carried
  <2> HIDE DEF p, f, left, q
  <2>5. Good(new, g, left)
    BY <1>a, <2>1, <2>2, <2>3, <2>4 DEF Good
  <2>6. /\ req' = [req EXCEPT ![t] = new]
        /\ refresh' = [refresh EXCEPT ![t] = g] /\ leaving' = [leaving EXCEPT ![t] = left]
        /\ UNCHANGED <<storage, pairs>>
    BY <1>3 DEF StartRefresh, QueueInv, p, q, left, serverVars
  <2> HIDE DEF new, r, g
  <2> QED BY <1>a, <2>5, <2>6, OneTab
<1>4. CASE NoRefreshToken(t, s)
  <2> DEFINE p == [q EXCEPT !.st = "refused", !.retry = TRUE]
             new == [r EXCEPT ![s] = p]
             g == [f EXCEPT !.on = TRUE]
  <2>1. p \in RequestShape /\ p.st = "refused"
    BY <1>a DEF RequestShape, ReqStates
  <2>2. \A x \in Slots : new[x] = IF x = s THEN p ELSE r[x]
    BY <1>a
  <2>3. g \in RefreshShape /\ g.on /\ g.st = f.st /\ g.leader = f.leader
    BY <1>a DEF RefreshShape
  <2> HIDE DEF p, f, left, q, g
  <2>4. Good(new, g, TRUE)
    BY <1>a, <2>1, <2>2, <2>3 DEF Good
  <2>5. /\ req' = [req EXCEPT ![t] = new]
        /\ refresh' = [refresh EXCEPT ![t] = g] /\ leaving' = [leaving EXCEPT ![t] = TRUE]
        /\ storage' = NoTokens /\ UNCHANGED pairs
    BY <1>4 DEF NoRefreshToken, QueueInv, p, q, f, g, serverVars
  <2>6. NoTokens \in StorageShape
    BY DEF NoTokens, StorageShape, Carried
  <2> HIDE DEF new, r
  <2> QED BY <1>a, <2>4, <2>5, <2>6, OneTab
<1> QED BY <1>1, <1>2, <1>3, <1>4 DEF Intercept

\* The code that awaited the request goes on.
LEMMA SettleStep ==
  ASSUME QueueInv, NEW t \in Tabs, NEW s \in Slots, Settle(t, s)
  PROVE  QueueInv'
<1>a. /\ Good(req[t], refresh[t], leaving[t]) /\ req[t] \in [Slots -> RequestShape]
      /\ storage \in StorageShape /\ Sequence(pairs) /\ NoTokens \in StorageShape
      /\ \A x \in Slots : req[t][x].tok \in Carried /\ req[t][x].arg \in Carried
  BY DEF QueueInv, StorageShape, Carried, NoTokens, RequestShape
<1>b. Idle \in RequestShape /\ Idle.st = "idle"
  BY IdleShape DEF Idle
<1>c. \A x \in Slots : Good(Done(t, x), refresh[t], leaving[t])
  BY <1>a, <1>b, Replaced DEF Done
<1>1. ASSUME NEW x \in Slots, req' = [req EXCEPT ![t] = Done(t, x)],
             UNCHANGED <<refresh, leaving, pairs>>, storage' \in StorageShape
      PROVE  QueueInv'
  <2>1. req' = [req EXCEPT ![t][x] = Idle]
    BY <1>1 DEF Done, QueueInv
  <2> QED BY <1>a, <1>b, <1>1, <2>1, OneRequest
<1>2. CASE LoginFailed(t, s)
  BY <1>1, <1>2, <1>a DEF LoginFailed, serverVars
<1>3. CASE Fetched(t, s)
  BY <1>1, <1>3, <1>a DEF Fetched, serverVars
<1>4. CASE LoginAnswered(t)
  <2> DEFINE n == req[t]["login"].tok
             r == [Done(t, "login") EXCEPT !["me"] = Sent(n, n)]
             f == refresh[t]
             left == leaving[t]
  <2>1. "login" \in Slots /\ "me" \in Slots
    BY DEF Slots
  <2>2. n \in Carried
    BY <1>a, <2>1
  <2>3. Sent(n, n) \in RequestShape /\ Sent(n, n).st = "sent"
    BY <2>2, SentShape
  <2>4. Good(r, f, left)
    BY <1>c, <2>1, <2>3, Replaced
  <2>5. /\ req' = [req EXCEPT ![t] = r] /\ refresh' = [refresh EXCEPT ![t] = f]
        /\ leaving' = [leaving EXCEPT ![t] = left] /\ UNCHANGED pairs
    BY <1>4 DEF LoginAnswered, QueueInv, serverVars
  <2>6. storage' \in StorageShape
    BY <1>4, <2>2 DEF LoginAnswered, StorageShape
  <2> HIDE DEF n, r, f, left
  <2> QED BY <1>a, <2>4, <2>5, <2>6, OneTab
<1>5. CASE ProfileLoaded(t)
  <2> DEFINE n == req[t]["me"].arg
             stor == [access |-> n, refresh |-> n]
  <2>1. "me" \in Slots
    BY DEF Slots
  <2>2. stor \in StorageShape
    BY <1>a, <2>1 DEF StorageShape
  <2>3. /\ \E st : Show(t, "dashboard", st, Done(t, "me"), stor)
        /\ UNCHANGED <<pairs, refresh, leaving>>
    BY <1>5 DEF ProfileLoaded, serverVars
  <2> HIDE DEF n, stor
  <2> QED BY <1>c, <2>1, <2>2, <2>3, Shown
<1>6. CASE Registered(t)
  <2>1. "register" \in Slots
    BY DEF Slots
  <2>2. /\ \E r : Show(t, r, store[t], Done(t, "register"), storage)
        /\ UNCHANGED <<pairs, refresh, leaving>>
    BY <1>6 DEF Registered, serverVars
  <2> QED BY <1>a, <1>c, <2>1, <2>2, Shown
<1>7. CASE LoggedOut(t)
  <2>1. "logout" \in Slots
    BY DEF Slots
  <2>2. /\ Show(t, "login", SignedOut, Done(t, "logout"), NoTokens)
        /\ UNCHANGED <<pairs, refresh, leaving>>
    BY <1>7 DEF LoggedOut, serverVars
  <2> QED BY <1>a, <1>c, <2>1, <2>2, Shown
<1>8. CASE Bootstrapped(t)
  <2>1. "boot" \in Slots
    BY DEF Slots
  <2>2. /\ req' = [req EXCEPT ![t] = Done(t, "boot")]
        /\ UNCHANGED <<refresh, leaving, pairs>>
    BY <1>8 DEF Bootstrapped, serverVars
  <2>3. storage' \in StorageShape
    BY <1>8, <1>a DEF Bootstrapped
  <2> QED BY <1>1, <2>1, <2>2, <2>3
<1> QED BY <1>2, <1>3, <1>4, <1>5, <1>6, <1>7, <1>8 DEF Settle

LEMMA QueueInitial == AuthInit => QueueInv
<1> SUFFICES ASSUME AuthInit PROVE QueueInv
  OBVIOUS
<1>1. storage \in StorageShape /\ Sequence(pairs)
  <2>1. <<>> \in Seq({})
    OBVIOUS
  <2> QED BY <2>1 DEF AuthInit, NoTokens, StorageShape, Carried, Sequence
<1>2. [s \in Slots |-> Idle] \in [Slots -> RequestShape]
      /\ \A s \in Slots : [x \in Slots |-> Idle][s].st \notin {"queued", "leading"}
  BY IdleShape DEF Idle
<1>3. Good([s \in Slots |-> Idle], NoRefresh, FALSE)
  BY <1>2, Quiet
<1>4. NoRefresh \in RefreshShape
  BY <1>3 DEF Good
<1> QED BY <1>1, <1>2, <1>3, <1>4 DEF AuthInit, QueueInv

LEMMA QueueStep == QueueInv /\ [AuthNext]_authVars => QueueInv'
<1> SUFFICES ASSUME QueueInv, [AuthNext]_authVars PROVE QueueInv'
  OBVIOUS
<1>1. ASSUME UNCHANGED <<pairs, storage, req, refresh, leaving>> PROVE QueueInv'
  BY <1>1 DEF QueueInv
<1>2. CASE Tick
  BY <1>1, <1>2 DEF Tick, tabVars
<1>3. ASSUME NEW n \in 1 .. Len(pairs), Expire(n) PROVE QueueInv'
  BY <1>1, <1>3 DEF Expire, tabVars
<1>4. ASSUME NEW t \in Tabs, Redirect(t) PROVE QueueInv'
  <2>1. /\ \E r : Show(t, r, store[t], req[t], storage)
        /\ UNCHANGED <<pairs, refresh, leaving>>
    BY <1>4 DEF Redirect, serverVars
  <2>2. Good(req[t], refresh[t], leaving[t]) /\ storage \in StorageShape
    BY DEF QueueInv
  <2> QED BY <2>1, <2>2, Shown
<1>5. ASSUME NEW t \in Tabs, Leave(t) PROVE QueueInv'
  BY <1>5, Loaded DEF Leave
<1>6. CASE UNCHANGED authVars
  BY <1>1, <1>6 DEF authVars, serverVars, tabVars
<1>7. ASSUME NEW i \in 1 .. Len(abandoned), HandleAbandoned(i) PROVE QueueInv'
  <2>1. UNCHANGED pairs \/ \E a, from : Issue(a, from)
    BY <1>7 DEF HandleAbandoned, AbandonedLogin, AbandonedLogout, AbandonedCheck,
                AbandonedRotation, AbandonedRefused
  <2>2. Sequence(pairs')
    BY <2>1, Issued DEF QueueInv
  <2>3. UNCHANGED <<storage, req, refresh, leaving>>
    BY <1>7 DEF HandleAbandoned, tabVars
  <2> QED BY <2>2, <2>3 DEF QueueInv
<1> QED BY <1>2, <1>3, <1>4, <1>5, <1>6, <1>7, UserStep, RefreshStep, AnswerStep, InterceptStep,
           SettleStep DEF AuthNext

-----------------------------------------------------------------------------

\* A request that waits for a refresh always has one whose end processes the
\* queue, or its document is being replaced: with any number of tabs sharing
\* the storage, logins and logouts in the middle, and answers that are lost.
THEOREM NobodyForgotten == AuthSpec => []NoOrphanedRequest
<1>1. QueueInv => NoOrphanedRequest
  BY DEF QueueInv, Good, NoOrphanedRequest
<1> QED BY QueueInitial, QueueStep, <1>1, PTL DEF AuthSpec

-----------------------------------------------------------------------------
(* Type correctness: the invariant *)

\* What holds tokens of the first n pairs: the storage, a store, a request in
\* slot s, a refresh.  A login carries the account it is for; who is answered
\* "ok" by /auth/me was asking with the token of a pair, like a refresh.
StorageOf(n) == [access : 0 .. n, refresh : 0 .. n]
StoreOf(n) == [user : Users, access : 0 .. n, auth : BOOLEAN]
AnyRequestOf(n) == [st : ReqStates, tok : 0 .. n, retry : BOOLEAN, arg : (0 .. n) \cup Accounts]
RequestOf(s, n) ==
  {q \in AnyRequestOf(n) :
     /\ s = "login" /\ q.st # "idle" => q.arg \in Accounts
     /\ s # "login" => q.arg \in 0 .. n
     /\ s \in {"boot", "me"} /\ q.st = "ok" => q.tok \in 1 .. n}
RequestsOf(n) == {r \in [Slots -> AnyRequestOf(n)] : \A s \in Slots : r[s] \in RequestOf(s, n)}
RefreshOf(n) ==
  {f \in [on : BOOLEAN, st : RefreshStates, tok : 0 .. n, new : 0 .. n, leader : Slots] :
     f.st # "none" => f.tok \in 1 .. n}

Pair == [acct : Accounts, at : 1 .. MaxNow, from : Nat]
PairsOK == pairs \in Seq(Pair) /\ \A n \in 1 .. Len(pairs) : pairs[n].from < n

RevokedOK(n) ==
  /\ blacklisted \subseteq 1 .. n /\ expired \subseteq 1 .. n /\ ended \subseteq expired
  /\ invalidatedAt \in [Accounts -> 0 .. MaxNow]
CountsOK == now \in 1 .. MaxNow /\ logins \in 0 .. MaxLogins /\ reloads \in 0 .. MaxReloads

BrowserOK(n) ==
  /\ storage \in StorageOf(n)
  /\ route \in [Tabs -> RouteNames] /\ store \in [Tabs -> StoreOf(n)]
  /\ bootstrapping \in [Tabs -> BOOLEAN] /\ leaving \in [Tabs -> BOOLEAN]
  /\ req \in [Tabs -> RequestsOf(n)] /\ refresh \in [Tabs -> RefreshOf(n)]

\* What the server may go on with: a login names an account, a refresh the token
\* of a pair.
CallsOf(n) ==
  {c \in [kind : CallKinds, tok : 0 .. n, arg : (0 .. n) \cup Accounts] :
     /\ c.kind = "login" => c.arg \in Accounts
     /\ c.kind \in {"refresh", "rotation"} => c.tok \in 1 .. n}
AbandonedOK(n) == abandoned \in Seq(CallsOf(n))

AuthInv == /\ PairsOK /\ CountsOK /\ RevokedOK(Len(pairs)) /\ BrowserOK(Len(pairs))
           /\ AbandonedOK(Len(pairs))

-----------------------------------------------------------------------------
(* Values *)

\* More pairs, the same tokens.
LEMMA TokensStay ==
  ASSUME NEW n \in Nat, NEW m \in Nat, n <= m
  PROVE  /\ StorageOf(n) \subseteq StorageOf(m) /\ StoreOf(n) \subseteq StoreOf(m)
         /\ RequestsOf(n) \subseteq RequestsOf(m) /\ RefreshOf(n) \subseteq RefreshOf(m)
<1>1. 0 .. n \subseteq 0 .. m /\ 1 .. n \subseteq 1 .. m
  OBVIOUS
<1>2. StorageOf(n) \subseteq StorageOf(m)
  BY <1>1 DEF StorageOf
<1>3. StoreOf(n) \subseteq StoreOf(m)
  BY <1>1 DEF StoreOf
<1>4. AnyRequestOf(n) \subseteq AnyRequestOf(m)
  BY <1>1 DEF AnyRequestOf
<1>5. \A s \in Slots : RequestOf(s, n) \subseteq RequestOf(s, m)
  BY <1>1, <1>4 DEF RequestOf
<1>6. RequestsOf(n) \subseteq RequestsOf(m)
  BY <1>4, <1>5 DEF RequestsOf
<1>7. RefreshOf(n) \subseteq RefreshOf(m)
  BY <1>1 DEF RefreshOf
<1> QED BY <1>2, <1>3, <1>6, <1>7

LEMMA IdleOf == ASSUME NEW n \in Nat, NEW s \in Slots PROVE Idle \in RequestOf(s, n)
BY DEF Idle, RequestOf, AnyRequestOf, ReqStates

LEMMA SentOf ==
  ASSUME NEW n \in Nat, NEW s \in Slots \ {"login"}, NEW tok \in 0 .. n, NEW arg \in 0 .. n
  PROVE  Sent(tok, arg) \in RequestOf(s, n)
BY DEF Sent, RequestOf, AnyRequestOf, ReqStates

LEMMA LoginOf ==
  ASSUME NEW n \in Nat, NEW tok \in 0 .. n, NEW a \in Accounts
  PROVE  [Sent(tok, 0) EXCEPT !.arg = a] \in RequestOf("login", n)
BY DEF Sent, RequestOf, AnyRequestOf, ReqStates

\* A request of another status, sent again or not.
LEMMA RestatedOf ==
  ASSUME NEW n \in Nat, NEW s \in Slots, NEW q \in RequestOf(s, n), q.st # "idle",
         NEW st \in ReqStates, s \in {"boot", "me"} /\ st = "ok" => q.tok \in 1 .. n
  PROVE  /\ [q EXCEPT !.st = st] \in RequestOf(s, n)
         /\ \A b \in BOOLEAN : [q EXCEPT !.st = st, !.retry = b] \in RequestOf(s, n)
BY DEF RequestOf, AnyRequestOf

\* A request with another token, which its answer brought.
LEMMA RetriedOf ==
  ASSUME NEW n \in Nat, NEW s \in Slots, NEW q \in RequestOf(s, n), q.st # "idle",
         NEW st \in ReqStates, NEW tok \in 0 .. n, s = "login" \/ st # "ok"
  PROVE  [q EXCEPT !.st = st, !.tok = tok] \in RequestOf(s, n)
BY DEF RequestOf, AnyRequestOf

LEMMA ReplacedOf ==
  ASSUME NEW n \in Nat, NEW r \in RequestsOf(n), NEW s \in Slots, NEW q \in RequestOf(s, n)
  PROVE  [r EXCEPT ![s] = q] \in RequestsOf(n)
<1>1. q \in AnyRequestOf(n)
  BY DEF RequestOf
<1> QED BY <1>1 DEF RequestsOf

LEMMA ProcessedOf ==
  ASSUME NEW n \in Nat, NEW r \in RequestsOf(n), NEW st \in {"sent", "refused"},
         NEW tok \in 0 .. n
  PROVE  ProcessQueue(r, st, tok) \in RequestsOf(n)
<1>1. \A s \in Slots : r[s] \in RequestOf(s, n)
  BY DEF RequestsOf
<1>2. st \in ReqStates /\ st # "ok"
  BY DEF ReqStates
<1>3. ASSUME NEW s \in Slots, r[s].st \in {"queued", "leading"}
      PROVE  [r[s] EXCEPT !.st = st, !.tok = tok] \in RequestOf(s, n)
  BY <1>1, <1>2, <1>3, RetriedOf
<1>4. \A s \in Slots : ProcessQueue(r, st, tok)[s] \in RequestOf(s, n)
  BY <1>1, <1>3 DEF ProcessQueue
<1>5. \A s \in Slots : ProcessQueue(r, st, tok)[s] \in AnyRequestOf(n)
  BY <1>4 DEF RequestOf
<1> QED BY <1>4, <1>5 DEF RequestsOf, ProcessQueue

LEMMA CallsStay ==
  ASSUME NEW n \in Nat, NEW m \in Nat, n <= m, NEW calls \in Seq(CallsOf(n))
  PROVE  calls \in Seq(CallsOf(m))
<1>1. 0 .. n \subseteq 0 .. m /\ 1 .. n \subseteq 1 .. m
  OBVIOUS
<1>2. CallsOf(n) \subseteq CallsOf(m)
  BY <1>1 DEF CallsOf
<1> QED BY <1>2

\* One call fewer.
LEMMA CallEnded ==
  ASSUME NEW S, NEW calls \in Seq(S), NEW i \in 1 .. Len(calls)
  PROVE  RemoveAt(calls, i) \in Seq(S)
<1>1. SubSeq(calls, 1, i - 1) \in Seq(S) /\ SubSeq(calls, i + 1, Len(calls)) \in Seq(S)
  OBVIOUS
<1> QED BY <1>1 DEF RemoveAt

\* A refresh that has got its new pair.
LEMMA RotatedOf ==
  ASSUME NEW n \in Nat, NEW f \in RefreshOf(n), f.st # "none", NEW new \in 0 .. n
  PROVE  [f EXCEPT !.st = "ok", !.new = new] \in RefreshOf(n)
BY DEF RefreshOf, RefreshStates

\* Wherever a guard sends the browser there is a route.
LEMMA RedirectedToRoute ==
  ASSUME NEW r \in RouteNames, NEW auth, NEW boots, NEW role
  PROVE  RedirectFrom(r, auth, boots, role) \in RouteNames
<1>1. {"login", "admin_login", "dashboard", "client_dashboard", "admin_dashboard",
       "agent_dashboard"} \subseteq RouteNames
  BY DEF RouteNames, PublicRoutes, GuardRoles
<1>2. LoginPathFor(r) \in RouteNames
  BY <1>1 DEF LoginPathFor
<1>3. DashboardRouter(role) \in RouteNames
  BY <1>1 DEF DashboardRouter, DashboardPathForRole
<1> QED BY <1>1, <1>2, <1>3 DEF RedirectFrom

LEMMA SignedOutOf ==
  ASSUME NEW n \in Nat
  PROVE  /\ NoTokens \in StorageOf(n) /\ SignedOut \in StoreOf(n) /\ NoRefresh \in RefreshOf(n)
<1>1. NoTokens \in StorageOf(n)
  BY DEF NoTokens, StorageOf
<1>2. SignedOut \in StoreOf(n)
  BY DEF SignedOut, StoreOf, Users
<1>3. NoRefresh \in RefreshOf(n)
  BY DEF NoRefresh, RefreshOf, RefreshStates, Slots
<1> QED BY <1>1, <1>2, <1>3

LEMMA StoreMade ==
  ASSUME NEW n \in Nat, NEW u \in Users, NEW tok \in 0 .. n, NEW b \in BOOLEAN
  PROVE  [user |-> u, access |-> tok, auth |-> b] \in StoreOf(n)
BY DEF StoreOf

-----------------------------------------------------------------------------
(* Steps of the browser: n pairs have been issued *)

\* One request became another.
LEMMA RequestMoved ==
  ASSUME NEW n \in Nat, req \in [Tabs -> RequestsOf(n)], NEW t \in Tabs, NEW s \in Slots,
         NEW q \in RequestOf(s, n), req' = [req EXCEPT ![t][s] = q]
  PROVE  req' \in [Tabs -> RequestsOf(n)]
<1> DEFINE r == [req[t] EXCEPT ![s] = q]
<1>1. r \in RequestsOf(n)
  BY ReplacedOf
<1>2. req' = [req EXCEPT ![t] = r]
  OBVIOUS
<1> HIDE DEF r
<1> QED BY <1>1, <1>2

\* A request has another status.
LEMMA Restated ==
  ASSUME NEW n \in Nat, req \in [Tabs -> RequestsOf(n)], NEW t \in Tabs, NEW s \in Slots,
         req[t][s].st # "idle", NEW st \in ReqStates, Reply(t, s, st),
         s \in {"boot", "me"} /\ st = "ok" => req[t][s].tok \in 1 .. n
  PROVE  req' \in [Tabs -> RequestsOf(n)]
<1> DEFINE q == [req[t][s] EXCEPT !.st = st]
<1>1. req[t][s] \in RequestOf(s, n)
  BY DEF RequestsOf
<1>2. q \in RequestOf(s, n)
  BY <1>1, RestatedOf
<1>3. req' = [req EXCEPT ![t][s] = q]
  BY DEF Reply
<1> HIDE DEF q
<1> QED BY <1>2, <1>3, RequestMoved

\* Another page in the same document.
LEMMA PageShown ==
  ASSUME NEW n \in Nat, BrowserOK(n), NEW t \in Tabs, NEW r \in RouteNames,
         NEW st \in StoreOf(n), NEW rq \in RequestsOf(n), NEW stor \in StorageOf(n),
         Show(t, r, st, rq, stor), UNCHANGED <<refresh, leaving>>
  PROVE  BrowserOK(n)'
<1> DEFINE booted == [rq EXCEPT !["boot"] = Sent(stor.access, 0)]
<1>1. "boot" \in Slots \ {"login"} /\ stor.access \in 0 .. n
  BY DEF Slots, StorageOf
<1>2. booted \in RequestsOf(n)
  BY <1>1, SentOf, ReplacedOf
<1>3. req' = [req EXCEPT ![t] = booted] \/ req' = [req EXCEPT ![t] = rq]
  BY DEF Show
<1> HIDE DEF booted
<1>4. req' \in [Tabs -> RequestsOf(n)]
  BY <1>2, <1>3 DEF BrowserOK
<1>5. PICK mounts \in BOOLEAN, boots \in BOOLEAN :
        bootstrapping' = [bootstrapping EXCEPT ![t] =
          IF r \in PublicRoutes THEN FALSE ELSE IF mounts THEN boots ELSE bootstrapping[t]]
  BY Zenon DEF Show
<1>6. bootstrapping' \in [Tabs -> BOOLEAN]
  <2>1. bootstrapping \in [Tabs -> BOOLEAN]
    BY DEF BrowserOK
  <2>2. \A b \in BOOLEAN : [bootstrapping EXCEPT ![t] = b] \in [Tabs -> BOOLEAN]
    BY <2>1
  <2>3. CASE r \in PublicRoutes
    BY <1>5, <2>2, <2>3, Zenon
  <2>4. CASE r \notin PublicRoutes /\ mounts
    BY <1>5, <2>2, <2>4, Zenon
  <2>5. CASE r \notin PublicRoutes /\ ~mounts
    <3>1. bootstrapping[t] \in BOOLEAN
      BY <2>1
    <3> QED BY <1>5, <2>2, <2>5, <3>1, Zenon
  <2> QED BY <2>3, <2>4, <2>5
<1>7. route' \in [Tabs -> RouteNames] /\ store' \in [Tabs -> StoreOf(n)]
  BY DEF Show, BrowserOK
<1>8. storage' \in StorageOf(n)
  BY DEF Show
<1> QED BY <1>4, <1>6, <1>7, <1>8 DEF BrowserOK

\* Another document.
LEMMA DocumentLoaded ==
  ASSUME NEW n \in Nat, BrowserOK(n), NEW t \in Tabs, NEW r \in RouteNames, Load(t, r)
  PROVE  BrowserOK(n)'
<1>1. storage.access \in 0 .. n /\ NoAccount \in Users
  BY DEF BrowserOK, StorageOf, Users
<1>2. PICK auth \in BOOLEAN : auth = (storage.access # 0)
  BY Zenon
<1> DEFINE st == [user |-> NoAccount, access |-> storage.access, auth |-> auth]
<1>3. st \in StoreOf(n)
  BY <1>1, StoreMade
<1>4. PICK boots \in BOOLEAN : boots = (r \notin PublicRoutes /\ st.auth)
  BY Zenon
<1> DEFINE rq == [s \in Slots |-> IF s = "boot" /\ boots THEN Sent(storage.access, 0) ELSE Idle]
<1>5. /\ route' = [route EXCEPT ![t] = r] /\ store' = [store EXCEPT ![t] = st]
      /\ bootstrapping' = [bootstrapping EXCEPT ![t] = boots]
      /\ req' = [req EXCEPT ![t] = rq]
      /\ refresh' = [refresh EXCEPT ![t] = NoRefresh]
      /\ leaving' = [leaving EXCEPT ![t] = FALSE] /\ UNCHANGED storage
  BY <1>2, <1>4, Zenon DEF Load
<1>6. rq \in RequestsOf(n)
  <2>1. \A s \in Slots : Idle \in RequestOf(s, n)
    BY IdleOf
  <2>2. "boot" \in Slots \ {"login"}
    BY DEF Slots
  <2>3. Sent(storage.access, 0) \in RequestOf("boot", n)
    BY <1>1, <2>2, SentOf
  <2>4. \A s \in Slots : rq[s] \in RequestOf(s, n)
    BY <2>1, <2>3
  <2>5. \A s \in Slots : rq[s] \in AnyRequestOf(n)
    BY <2>4 DEF RequestOf
  <2> QED BY <2>4, <2>5 DEF RequestsOf
<1> HIDE DEF st, rq
<1>7. bootstrapping' \in [Tabs -> BOOLEAN] /\ leaving' \in [Tabs -> BOOLEAN]
  <2>1. bootstrapping' \in [Tabs -> BOOLEAN]
    BY <1>5 DEF BrowserOK
  <2>2. leaving' \in [Tabs -> BOOLEAN]
    BY <1>5 DEF BrowserOK
  <2> QED BY <2>1, <2>2
<1> QED BY <1>3, <1>5, <1>6, <1>7, SignedOutOf DEF BrowserOK

\* Only requests, a refresh, the storage or the document being left changed.
LEMMA PagesStay ==
  ASSUME NEW n \in Nat, BrowserOK(n), UNCHANGED <<route, store, bootstrapping>>,
         storage' \in StorageOf(n), req' \in [Tabs -> RequestsOf(n)],
         refresh' \in [Tabs -> RefreshOf(n)], leaving' \in [Tabs -> BOOLEAN]
  PROVE  BrowserOK(n)'
BY DEF BrowserOK

\* What the server is doing for a tab may outlive the tab's interest in it.
LEMMA LeftBehind ==
  ASSUME NEW n \in Nat, BrowserOK(n), NEW t \in Tabs
  PROVE  /\ \A s \in Slots : CallOf(t, s) \in Seq(CallsOf(n))
         /\ RefreshCallOf(t) \in Seq(CallsOf(n))
<1>1. ASSUME NEW s \in Slots PROVE CallOf(t, s) \in Seq(CallsOf(n))
  <2>1. req[t][s] \in RequestOf(s, n)
    BY DEF BrowserOK, RequestsOf
  <2>2. CASE s \in {"login", "logout"} /\ req[t][s].st = "sent"
    <3>1. Call(s, req[t][s].tok, req[t][s].arg) \in CallsOf(n)
      BY <2>1, <2>2 DEF Call, CallsOf, CallKinds, RequestOf, AnyRequestOf
    <3> QED BY <2>2, <3>1 DEF CallOf
  <2>3. CASE ~(s \in {"login", "logout"} /\ req[t][s].st = "sent")
    BY <2>3 DEF CallOf
  <2> QED BY <2>2, <2>3
<1>2. RefreshCallOf(t) \in Seq(CallsOf(n))
  <2>1. refresh[t] \in RefreshOf(n)
    BY DEF BrowserOK
  <2>2. CASE refresh[t].st \in {"sent", "checked"}
    <3>1. refresh[t].tok \in 1 .. n /\ refresh[t].tok \in 0 .. n /\ 0 \in 0 .. n
      BY <2>1, <2>2 DEF RefreshOf
    <3>2. /\ Call("refresh", refresh[t].tok, 0) \in CallsOf(n)
          /\ Call("rotation", refresh[t].tok, 0) \in CallsOf(n)
      BY <3>1 DEF Call, CallsOf, CallKinds
    <3> QED BY <2>2, <3>2 DEF RefreshCallOf
  <2>3. CASE refresh[t].st \notin {"sent", "checked"}
    <3>1. RefreshCallOf(t) = <<>>
      BY <2>3 DEF RefreshCallOf
    <3> QED BY <3>1
  <2> QED BY <2>2, <2>3
<1> QED BY <1>1, <1>2

LEMMA BehindKept ==
  ASSUME NEW n \in Nat, AbandonedOK(n), NEW calls \in Seq(CallsOf(n)), LeaveBehind(calls)
  PROVE  AbandonedOK(n)'
<1>1. CASE UNCHANGED abandoned
  BY <1>1 DEF AbandonedOK
<1>2. CASE abandoned' = abandoned \o calls
  BY <1>2 DEF AbandonedOK
<1> QED BY <1>1, <1>2 DEF LeaveBehind

\* The server stayed as it is.
LEMMA ServerStays ==
  ASSUME AuthInv, NEW n \in Nat, n = Len(pairs), UNCHANGED serverVars, BrowserOK(n)'
  PROVE  AuthInv'
<1>1. PairsOK' /\ CountsOK' /\ RevokedOK(Len(pairs))' /\ Len(pairs') = n /\ AbandonedOK(n)'
  BY DEF AuthInv, serverVars, PairsOK, CountsOK, RevokedOK, AbandonedOK
<1> QED BY <1>1 DEF AuthInv, BrowserOK, AbandonedOK

\* The server has issued nothing, and left off some calls at most.
LEMMA NothingIssued ==
  ASSUME AuthInv, NEW n \in Nat, n = Len(pairs), UNCHANGED pairs, CountsOK',
         UNCHANGED <<blacklisted, invalidatedAt, expired, ended>>,
         AbandonedOK(n)', BrowserOK(n)'
  PROVE  AuthInv'
<1>1. PairsOK' /\ RevokedOK(Len(pairs))' /\ Len(pairs') = n
  BY DEF AuthInv, PairsOK, RevokedOK
<1> QED BY <1>1 DEF AuthInv, BrowserOK, AbandonedOK

\* A pair is issued, to the owner of an account, from a pair there was.
LEMMA PairIssued ==
  ASSUME AuthInv, NEW n \in Nat, n = Len(pairs), NEW a \in Accounts, NEW from \in 0 .. n,
         Issue(a, from)
  PROVE  PairsOK' /\ Len(pairs') = n + 1
<1> DEFINE pair == [acct |-> a, at |-> now, from |-> from]
<1>1. pair \in Pair /\ pair.from = from /\ pairs' = Append(pairs, pair)
  BY DEF Issue, Pair, AuthInv, CountsOK
<1> HIDE DEF pair
<1>2. pairs \in Seq(Pair) /\ \A k \in 1 .. n : pairs[k].from < k
  BY DEF AuthInv, PairsOK
<1>3. pairs' \in Seq(Pair) /\ Len(pairs') = n + 1 /\ pairs'[n + 1] = pair
      /\ \A k \in 1 .. n : pairs'[k] = pairs[k]
  BY <1>1, <1>2
<1>4. \A k \in 1 .. n + 1 : k \in 1 .. n \/ k = n + 1
  OBVIOUS
<1>5. from < n + 1
  OBVIOUS
<1> QED BY <1>1, <1>2, <1>3, <1>4, <1>5 DEF PairsOK

\* The server goes on with what it was doing for a document that is gone.
LEMMA ServerLoaded ==
  ASSUME AuthInv, NEW n \in Nat, n = Len(pairs), NEW t \in Tabs, NEW r, Load(t, r),
         CountsOK', BrowserOK(n)'
  PROVE  AuthInv'
<1> DEFINE calls == CallOf(t, "login") \o CallOf(t, "logout") \o RefreshCallOf(t)
<1>1. LeaveBehind(calls) /\ UNCHANGED <<pairs, blacklisted, invalidatedAt, expired, ended>>
  BY DEF Load
<1>2. BrowserOK(n) /\ AbandonedOK(n) /\ "login" \in Slots /\ "logout" \in Slots
  BY DEF AuthInv, Slots
<1>3. calls \in Seq(CallsOf(n))
  BY <1>2, LeftBehind
<1> HIDE DEF calls
<1>4. AbandonedOK(n)'
  BY <1>1, <1>2, <1>3, BehindKept
<1> QED BY <1>1, <1>4, NothingIssued

\* What is well formed stays so with more pairs.
LEMMA BrowserGrows ==
  ASSUME NEW n \in Nat, NEW m \in Nat, n <= m, BrowserOK(n)
  PROVE  BrowserOK(m)
BY TokensStay DEF BrowserOK

\* What the user does.
LEMMA UserTypes ==
  ASSUME AuthInv, NEW n \in Nat, n = Len(pairs), NEW t \in Tabs, User(t)
  PROVE  AuthInv'
<1>a. /\ BrowserOK(n) /\ storage \in StorageOf(n) /\ storage.access \in 0 .. n
      /\ storage.refresh \in 0 .. n /\ 0 \in 0 .. n
      /\ req \in [Tabs -> RequestsOf(n)] /\ refresh \in [Tabs -> RefreshOf(n)]
      /\ store \in [Tabs -> StoreOf(n)] /\ route \in [Tabs -> RouteNames]
      /\ leaving \in [Tabs -> BOOLEAN] /\ store[t] \in StoreOf(n) /\ req[t] \in RequestsOf(n)
  BY DEF AuthInv, BrowserOK, StorageOf
<1>b. ASSUME NEW s \in Slots, NEW q \in RequestOf(s, n), req' = [req EXCEPT ![t][s] = q],
             UNCHANGED <<storage, route, store, bootstrapping, refresh, leaving>>
      PROVE  BrowserOK(n)'
  <2>1. req' \in [Tabs -> RequestsOf(n)]
    BY <1>a, <1>b, RequestMoved
  <2> QED BY <1>a, <1>b, <2>1, PagesStay
<1>c. UNCHANGED abandoned => AbandonedOK(n)'
  BY DEF AuthInv, AbandonedOK
<1>1. ASSUME NEW s \in Slots, FetchPage(t, s) PROVE AuthInv'
  <2>1. s # "login"
    BY <1>1, DataSlotsAssumption DEF FetchPage
  <2>2. Sent(storage.access, 0) \in RequestOf(s, n)
    BY <1>a, <2>1, SentOf
  <2>3. BrowserOK(n)'
    BY <1>1, <1>b, <2>2 DEF FetchPage
  <2> QED BY <1>1, <2>3, ServerStays DEF FetchPage
<1>2. ASSUME NEW r \in RouteNames, Navigate(t, r) PROVE AuthInv'
  <2>1. Show(t, r, store[t], req[t], storage) /\ UNCHANGED <<serverVars, refresh, leaving>>
    BY <1>2 DEF Navigate
  <2> QED BY <1>a, <2>1, PageShown, ServerStays
<1>3. ASSUME NEW a \in Accounts, SubmitLogin(t, a) PROVE AuthInv'
  <2> DEFINE q == [Sent(storage.access, 0) EXCEPT !.arg = a]
  <2>1. q \in RequestOf("login", n) /\ "login" \in Slots
    BY <1>a, LoginOf DEF Slots
  <2>2. /\ req' = [req EXCEPT ![t]["login"] = q]
        /\ UNCHANGED <<storage, route, store, bootstrapping, refresh, leaving>>
    BY <1>3 DEF SubmitLogin
  <2> HIDE DEF q
  <2>3. BrowserOK(n)'
    BY <1>b, <2>1, <2>2
  <2>4. CountsOK'
    BY <1>3, BoundsAssumption DEF SubmitLogin, AuthInv, CountsOK
  <2>5. UNCHANGED <<pairs, blacklisted, invalidatedAt, expired, ended, abandoned>>
    BY <1>3 DEF SubmitLogin
  <2> QED BY <1>c, <2>3, <2>4, <2>5, NothingIssued
<1>4. CASE SubmitRegister(t)
  <2>1. "register" \in Slots \ {"login"}
    BY DEF Slots
  <2>2. Sent(storage.access, 0) \in RequestOf("register", n)
    BY <1>a, <2>1, SentOf
  <2>3. BrowserOK(n)'
    BY <1>4, <1>b, <2>1, <2>2 DEF SubmitRegister
  <2>4. CountsOK'
    BY <1>4, BoundsAssumption DEF SubmitRegister, AuthInv, CountsOK
  <2>5. UNCHANGED <<pairs, blacklisted, invalidatedAt, expired, ended, abandoned>>
    BY <1>4 DEF SubmitRegister
  <2> QED BY <1>c, <2>3, <2>4, <2>5, NothingIssued
<1>5. CASE Logout(t)
  <2>1. CASE storage.refresh # 0
    <3>1. "logout" \in Slots \ {"login"}
      BY DEF Slots
    <3>2. Sent(storage.access, storage.refresh) \in RequestOf("logout", n)
      BY <1>a, <3>1, SentOf
    <3>3. BrowserOK(n)'
      BY <1>5, <1>b, <2>1, <3>1, <3>2 DEF Logout
    <3> QED BY <1>5, <3>3, ServerStays DEF Logout
  <2>2. CASE storage.refresh = 0
    <3>1. /\ Show(t, "login", SignedOut, req[t], NoTokens)
          /\ UNCHANGED <<serverVars, refresh, leaving>>
      BY <1>5, <2>2 DEF Logout
    <3>2. "login" \in RouteNames
      BY DEF RouteNames, PublicRoutes
    <3>3. BrowserOK(n)'
      BY <1>a, <3>1, <3>2, SignedOutOf, PageShown
    <3> QED BY <3>1, <3>3, ServerStays
  <2> QED BY <2>1, <2>2
<1>6. CASE Reload(t)
  <2>1. PICK r \in {route[t], "root"} : Load(t, r)
    BY <1>6 DEF Reload
  <2>2. r \in RouteNames
    BY <1>a DEF RouteNames
  <2>3. BrowserOK(n)'
    BY <1>a, <2>1, <2>2, DocumentLoaded
  <2>4. CountsOK'
    BY <1>6, <2>1, BoundsAssumption DEF Reload, Load, AuthInv, CountsOK
  <2> QED BY <2>1, <2>3, <2>4, ServerLoaded
<1> QED BY <1>1, <1>2, <1>3, <1>4, <1>5, <1>6 DEF User

\* The interceptor of the responses.
LEMMA InterceptTypes ==
  ASSUME AuthInv, NEW n \in Nat, n = Len(pairs), NEW t \in Tabs, NEW s \in Slots,
         Intercept(t, s)
  PROVE  AuthInv'
<1>a. /\ BrowserOK(n) /\ storage \in StorageOf(n) /\ storage.refresh \in 0 .. n
      /\ req \in [Tabs -> RequestsOf(n)] /\ refresh \in [Tabs -> RefreshOf(n)]
      /\ leaving \in [Tabs -> BOOLEAN] /\ req[t][s] \in RequestOf(s, n)
      /\ refresh[t] \in RefreshOf(n)
  BY DEF AuthInv, BrowserOK, StorageOf, RequestsOf
<1>b. {"refused", "queued", "leading"} \subseteq ReqStates /\ {"refused", "queued", "leading"} \cap {"ok"} = {}
  BY DEF ReqStates
<1>1. CASE RejectRetried(t, s) \/ QueueRequest(t, s)
  <2>1. /\ req[t][s].st # "idle" /\ (Reply(t, s, "refused") \/ Reply(t, s, "queued"))
        /\ UNCHANGED <<serverVars, storage, route, store, bootstrapping, refresh, leaving>>
    BY <1>1 DEF RejectRetried, QueueRequest
  <2>2. req' \in [Tabs -> RequestsOf(n)]
    BY <1>a, <1>b, <2>1, Restated
  <2>3. BrowserOK(n)'
    BY <1>a, <2>1, <2>2, PagesStay
  <2> QED BY <2>1, <2>3, ServerStays
<1>2. CASE StartRefresh(t, s)
  <2> DEFINE q == [req[t][s] EXCEPT !.st = "leading", !.retry = TRUE]
             f == [on |-> TRUE, st |-> "sent", tok |-> storage.refresh, new |-> 0, leader |-> s]
  <2>1. /\ req[t][s].st # "idle" /\ storage.refresh # 0
        /\ req' = [req EXCEPT ![t][s] = q] /\ refresh' = [refresh EXCEPT ![t] = f]
        /\ UNCHANGED <<serverVars, storage, route, store, bootstrapping, leaving>>
    BY <1>2 DEF StartRefresh
  <2>2. q \in RequestOf(s, n)
    BY <1>a, <1>b, <2>1 DEF RequestOf, AnyRequestOf
  <2>3. f \in RefreshOf(n)
    BY <1>a, <2>1 DEF RefreshOf, RefreshStates
  <2> HIDE DEF q, f
  <2>4. req' \in [Tabs -> RequestsOf(n)]
    BY <1>a, <2>1, <2>2, RequestMoved
  <2>5. BrowserOK(n)'
    BY <1>a, <2>1, <2>3, <2>4, PagesStay
  <2> QED BY <2>1, <2>5, ServerStays
<1>3. CASE NoRefreshToken(t, s)
  <2> DEFINE q == [req[t][s] EXCEPT !.st = "refused", !.retry = TRUE]
             f == [refresh[t] EXCEPT !.on = TRUE]
  <2>1. /\ req[t][s].st # "idle" /\ storage' = NoTokens
        /\ req' = [req EXCEPT ![t][s] = q] /\ refresh' = [refresh EXCEPT ![t] = f]
        /\ leaving' = [leaving EXCEPT ![t] = TRUE]
        /\ UNCHANGED <<serverVars, route, store, bootstrapping>>
    BY <1>3 DEF NoRefreshToken
  <2>2. q \in RequestOf(s, n)
    BY <1>a, <1>b, <2>1 DEF RequestOf, AnyRequestOf
  <2>3. f \in RefreshOf(n)
    BY <1>a DEF RefreshOf
  <2> HIDE DEF q, f
  <2>4. req' \in [Tabs -> RequestsOf(n)]
    BY <1>a, <2>1, <2>2, RequestMoved
  <2>5. BrowserOK(n)'
    BY <1>a, <2>1, <2>3, <2>4, SignedOutOf, PagesStay
  <2> QED BY <2>1, <2>5, ServerStays
<1> QED BY <1>1, <1>2, <1>3 DEF Intercept

\* A refresh, from the look-up of its token to the end of the queue.
LEMMA RefreshTypes ==
  ASSUME AuthInv, NEW n \in Nat, n = Len(pairs), NEW t \in Tabs,
         RefreshAnswer(t) \/ RefreshSucceeded(t) \/ RefreshFailed(t)
  PROVE  AuthInv'
<1> DEFINE f == refresh[t]
<1>a. /\ BrowserOK(n) /\ storage \in StorageOf(n)
      /\ req \in [Tabs -> RequestsOf(n)] /\ refresh \in [Tabs -> RefreshOf(n)]
      /\ leaving \in [Tabs -> BOOLEAN] /\ f \in RefreshOf(n) /\ req[t] \in RequestsOf(n)
  BY DEF AuthInv, BrowserOK
<1>b. ASSUME NEW st \in RefreshStates, f.st # "none"
      PROVE  [f EXCEPT !.st = st] \in RefreshOf(n)
  BY <1>a, <1>b DEF RefreshOf
<1>1. CASE CheckRefresh(t) \/ LoseRefresh(t)
  <2>1. PICK st \in {"failed", "checked"} : refresh' = [refresh EXCEPT ![t].st = st]
    BY <1>1 DEF CheckRefresh, LoseRefresh
  <2>2. f.st # "none" /\ st \in RefreshStates
    BY <1>1 DEF CheckRefresh, LoseRefresh, RefreshStates
  <2>3. [f EXCEPT !.st = st] \in RefreshOf(n)
    BY <1>b, <2>2
  <2>4. refresh' \in [Tabs -> RefreshOf(n)]
    BY <1>a, <2>1, <2>3
  <2>5. UNCHANGED <<pairs, blacklisted, invalidatedAt, expired, ended, now, logins, reloads,
                    storage, route, store, bootstrapping, req, leaving>>
    BY <1>1 DEF CheckRefresh, LoseRefresh, serverVars
  <2>6. BrowserOK(n)'
    BY <1>a, <2>4, <2>5, PagesStay
  <2>7. AbandonedOK(n)'
    <3>1. AbandonedOK(n) /\ RefreshCallOf(t) \in Seq(CallsOf(n))
      BY <1>a, LeftBehind DEF AuthInv
    <3>2. CASE UNCHANGED abandoned
      BY <3>1, <3>2 DEF AbandonedOK
    <3>3. CASE LeaveBehind(RefreshCallOf(t))
      BY <3>1, <3>3, BehindKept
    <3> QED BY <1>1, <3>2, <3>3 DEF CheckRefresh, LoseRefresh, serverVars
  <2>8. CountsOK'
    BY <2>5 DEF AuthInv, CountsOK
  <2> QED BY <2>5, <2>6, <2>7, <2>8, NothingIssued
<1>2. CASE RotateRefresh(t)
  <2> DEFINE g == [f EXCEPT !.st = "ok", !.new = n + 1]
             tok == f.tok
  <2>1. f.st = "checked" /\ tok \in 1 .. n
    BY <1>a, <1>2 DEF RotateRefresh, RefreshOf
  <2>2. pairs[tok].acct \in Accounts
    <3>1. pairs \in Seq(Pair) /\ tok \in 1 .. Len(pairs)
      BY <2>1 DEF AuthInv, PairsOK
    <3>2. pairs[tok] \in Pair
      BY <3>1
    <3> QED BY <3>2 DEF Pair
  <2>3. PairsOK' /\ Len(pairs') = n + 1
    BY <1>2, <2>1, <2>2, PairIssued DEF RotateRefresh
  <2>4. g \in RefreshOf(n + 1)
    <3>1. f \in RefreshOf(n + 1)
      BY <1>a, TokensStay
    <3>2. n + 1 \in Nat /\ n + 1 \in 0 .. n + 1 /\ f.st # "none"
      BY <2>1
    <3> QED BY <3>1, <3>2, RotatedOf
  <2>5. refresh' = [refresh EXCEPT ![t] = g]
    BY <1>2 DEF RotateRefresh
  <2> HIDE DEF g
  <2>6. BrowserOK(n + 1)
    BY <1>a, BrowserGrows
  <2>7. refresh' \in [Tabs -> RefreshOf(n + 1)]
    BY <2>4, <2>5, <2>6 DEF BrowserOK
  <2>8. storage' \in StorageOf(n + 1) /\ route' \in [Tabs -> RouteNames]
        /\ store' \in [Tabs -> StoreOf(n + 1)] /\ bootstrapping' \in [Tabs -> BOOLEAN]
        /\ leaving' \in [Tabs -> BOOLEAN] /\ req' \in [Tabs -> RequestsOf(n + 1)]
    BY <1>2, <2>6 DEF RotateRefresh, BrowserOK
  <2>9. CountsOK' /\ RevokedOK(Len(pairs))'
    <3>1. 1 .. n \subseteq 1 .. n + 1
      OBVIOUS
    <3> QED BY <1>2, <2>1, <2>3, <3>1 DEF RotateRefresh, AuthInv, CountsOK, RevokedOK
  <2>10. abandoned' \in Seq(CallsOf(n + 1))
    <3>1. abandoned' \in Seq(CallsOf(n))
      BY <1>2 DEF RotateRefresh, AuthInv, AbandonedOK
    <3> QED BY <3>1, CallsStay
  <2> QED BY <2>3, <2>7, <2>8, <2>9, <2>10 DEF AuthInv, BrowserOK, AbandonedOK
<1>3. CASE RefreshSucceeded(t)
  <2>1. f.new \in 0 .. n
    BY <1>a DEF RefreshOf
  <2>2. storage' \in StorageOf(n)
    BY <1>a, <1>3, <2>1 DEF RefreshSucceeded, StorageOf
  <2>3. ProcessQueue(req[t], "sent", f.new) \in RequestsOf(n)
    BY <1>a, <2>1, ProcessedOf
  <2>4. req' \in [Tabs -> RequestsOf(n)] /\ refresh' \in [Tabs -> RefreshOf(n)]
    BY <1>a, <1>3, <2>3, SignedOutOf DEF RefreshSucceeded
  <2>5. BrowserOK(n)'
    BY <1>a, <1>3, <2>2, <2>4, PagesStay DEF RefreshSucceeded
  <2> QED BY <1>3, <2>5, ServerStays DEF RefreshSucceeded
<1>4. CASE RefreshFailed(t)
  <2>1. ProcessQueue(req[t], "refused", 0) \in RequestsOf(n)
    BY <1>a, ProcessedOf
  <2>2. req' \in [Tabs -> RequestsOf(n)] /\ refresh' \in [Tabs -> RefreshOf(n)]
        /\ storage' \in StorageOf(n)
    BY <1>a, <1>4, <2>1, SignedOutOf DEF RefreshFailed
  <2>3. leaving' \in [Tabs -> BOOLEAN]
    BY <1>a, <1>4 DEF RefreshFailed
  <2>4. BrowserOK(n)'
    BY <1>a, <1>4, <2>2, <2>3, PagesStay DEF RefreshFailed
  <2> QED BY <1>4, <2>4, ServerStays DEF RefreshFailed
<1> QED BY <1>1, <1>2, <1>3, <1>4 DEF RefreshAnswer

\* The server answers a request.
LEMMA RespondTypes ==
  ASSUME AuthInv, NEW n \in Nat, n = Len(pairs), NEW t \in Tabs, NEW s \in Slots,
         Respond(t, s)
  PROVE  AuthInv'
<1> DEFINE q == req[t][s]
<1>a. /\ BrowserOK(n) /\ storage \in StorageOf(n)
      /\ req \in [Tabs -> RequestsOf(n)] /\ refresh \in [Tabs -> RefreshOf(n)]
      /\ leaving \in [Tabs -> BOOLEAN] /\ q \in RequestOf(s, n)
  BY DEF AuthInv, BrowserOK, RequestsOf
<1>b. /\ q.st = "sent" /\ {"ok", "denied"} \subseteq ReqStates
      /\ UNCHANGED <<expired, ended, now, logins, reloads, abandoned, storage, route, store,
                     bootstrapping, refresh, leaving>>
  BY DEF Respond, ReqStates
<1>c. CountsOK'
  BY <1>b DEF AuthInv, CountsOK
<1>1. CASE s = "login" /\ Issue(q.arg, 0)
           /\ req' = [req EXCEPT ![t][s].st = "ok", ![t][s].tok = Len(pairs) + 1]
           /\ UNCHANGED <<blacklisted, invalidatedAt>>
  <2> DEFINE p == [q EXCEPT !.st = "ok", !.tok = n + 1]
  <2>1. q.arg \in Accounts
    BY <1>a, <1>b, <1>1 DEF RequestOf
  <2>2. PairsOK' /\ Len(pairs') = n + 1
    BY <1>1, <2>1, PairIssued
  <2>3. BrowserOK(n + 1)
    BY <1>a, BrowserGrows
  <2>4. q \in RequestOf(s, n + 1) /\ req \in [Tabs -> RequestsOf(n + 1)]
    BY <2>3 DEF BrowserOK, RequestsOf
  <2>5. p \in RequestOf(s, n + 1)
    <3>1. n + 1 \in Nat /\ n + 1 \in 0 .. n + 1 /\ q.st # "idle" /\ "ok" \in ReqStates
      BY <1>b
    <3> QED BY <1>1, <2>4, <3>1, RetriedOf
  <2>6. req' = [req EXCEPT ![t][s] = p]
    BY <1>1
  <2> HIDE DEF p
  <2>7. req' \in [Tabs -> RequestsOf(n + 1)]
    <3>1. n + 1 \in Nat
      OBVIOUS
    <3> QED BY <2>4, <2>5, <2>6, <3>1, RequestMoved
  <2>8. storage' \in StorageOf(n + 1) /\ route' \in [Tabs -> RouteNames]
        /\ store' \in [Tabs -> StoreOf(n + 1)] /\ bootstrapping' \in [Tabs -> BOOLEAN]
        /\ leaving' \in [Tabs -> BOOLEAN] /\ refresh' \in [Tabs -> RefreshOf(n + 1)]
    BY <1>b, <2>3 DEF BrowserOK
  <2>9. RevokedOK(Len(pairs))'
    <3>1. 1 .. n \subseteq 1 .. n + 1
      OBVIOUS
    <3> QED BY <1>1, <1>b, <2>2, <3>1 DEF AuthInv, RevokedOK
  <2>10. abandoned' \in Seq(CallsOf(n + 1))
    <3>1. abandoned' \in Seq(CallsOf(n))
      BY <1>b DEF AuthInv, AbandonedOK
    <3> QED BY <3>1, CallsStay
  <2> QED BY <1>c, <2>2, <2>7, <2>8, <2>9, <2>10 DEF AuthInv, BrowserOK, AbandonedOK
<1>2. ASSUME NEW st \in {"ok", "denied"}, Reply(t, s, st),
             s \in {"boot", "me"} /\ st = "ok" => q.tok \in 1 .. n,
             UNCHANGED pairs, RevokedOK(n)'
      PROVE  AuthInv'
  <2>1. req' \in [Tabs -> RequestsOf(n)]
    BY <1>a, <1>b, <1>2, Restated
  <2>2. BrowserOK(n)'
    BY <1>a, <1>b, <2>1, PagesStay
  <2>3. PairsOK' /\ Len(pairs') = n
    BY <1>2 DEF AuthInv, PairsOK
  <2>4. AbandonedOK(n)'
    BY <1>b DEF AuthInv, AbandonedOK
  <2> QED BY <1>c, <1>2, <2>2, <2>3, <2>4 DEF AuthInv, BrowserOK, RevokedOK, AbandonedOK
<1>3. ASSUME UNCHANGED <<pairs, blacklisted, invalidatedAt>> PROVE RevokedOK(n)'
  BY <1>3, <1>b DEF AuthInv, RevokedOK
<1>4. CASE s = "login" /\ Reply(t, s, "denied")
           /\ UNCHANGED <<pairs, blacklisted, invalidatedAt>>
  BY <1>2, <1>3, <1>4
<1>5. CASE s = "logout" /\ LogoutUser(q.arg) /\ Reply(t, s, "ok") /\ UNCHANGED pairs
  <2>1. CASE q.arg \in 1 .. Len(pairs) /\ q.arg \notin ended
    <3>1. /\ blacklisted' = blacklisted \cup {q.arg}
          /\ invalidatedAt' = [invalidatedAt EXCEPT ![pairs[q.arg].acct] = now]
      BY <1>5, <2>1 DEF LogoutUser
    <3>2. now \in 0 .. MaxNow
      BY BoundsAssumption DEF AuthInv, CountsOK
    <3>3. RevokedOK(n)'
      BY <1>b, <2>1, <3>1, <3>2 DEF AuthInv, RevokedOK
    <3> QED BY <1>2, <1>5, <3>3
  <2>2. CASE ~(q.arg \in 1 .. Len(pairs) /\ q.arg \notin ended)
    <3>1. UNCHANGED <<blacklisted, invalidatedAt>>
      BY <1>5, <2>2 DEF LogoutUser
    <3> QED BY <1>2, <1>3, <1>5, <3>1
  <2> QED BY <2>1, <2>2
<1>6. CASE /\ s \in DataSlots \cup {"boot", "me", "register"}
           /\ s = "register" \/ Accepts(q.tok)
           /\ Reply(t, s, "ok")
           /\ UNCHANGED <<pairs, blacklisted, invalidatedAt>>
  <2>1. s \in {"boot", "me"} => q.tok \in 1 .. n
    BY <1>6 DEF Accepts
  <2> QED BY <1>2, <1>3, <1>6, <2>1
<1>7. CASE Reply(t, s, "denied") /\ UNCHANGED <<pairs, blacklisted, invalidatedAt>>
  BY <1>2, <1>3, <1>7
<1> QED BY <1>1, <1>4, <1>5, <1>6, <1>7 DEF Respond

\* The code that awaited the request goes on.
LEMMA SettleTypes ==
  ASSUME AuthInv, NEW n \in Nat, n = Len(pairs), NEW t \in Tabs, NEW s \in Slots,
         Settle(t, s)
  PROVE  AuthInv'
<1>a. /\ BrowserOK(n) /\ storage \in StorageOf(n)
      /\ req \in [Tabs -> RequestsOf(n)] /\ refresh \in [Tabs -> RefreshOf(n)]
      /\ store \in [Tabs -> StoreOf(n)] /\ store[t] \in StoreOf(n)
      /\ route[t] \in RouteNames /\ leaving \in [Tabs -> BOOLEAN]
      /\ NoTokens \in StorageOf(n) /\ SignedOut \in StoreOf(n)
  BY SignedOutOf DEF AuthInv, BrowserOK
<1>b. \A x \in Slots : req[t][x] \in RequestOf(x, n) /\ Done(t, x) \in RequestsOf(n)
  BY <1>a, IdleOf, ReplacedOf DEF RequestsOf, Done
<1>c. {"login", "me", "boot", "register", "logout"} \subseteq Slots
  BY DEF Slots
<1>d. \A k \in 1 .. n : pairs[k].acct \in Users
  <2>1. pairs \in Seq(Pair) /\ n = Len(pairs)
    BY DEF AuthInv, PairsOK
  <2>2. \A k \in 1 .. n : pairs[k] \in Pair
    BY <2>1
  <2> QED BY <2>2 DEF Pair, Users
<1>1. CASE LoginFailed(t, s) \/ Fetched(t, s)
  <2>1. req' = [req EXCEPT ![t] = Done(t, s)]
        /\ UNCHANGED <<serverVars, storage, route, store, bootstrapping, refresh, leaving>>
    BY <1>1 DEF LoginFailed, Fetched
  <2>2. req' \in [Tabs -> RequestsOf(n)]
    BY <1>a, <1>b, <2>1
  <2>3. BrowserOK(n)'
    BY <1>a, <2>1, <2>2, PagesStay
  <2> QED BY <2>1, <2>3, ServerStays
<1>2. CASE LoginAnswered(t)
  <2> DEFINE k == req[t]["login"].tok
             r == [Done(t, "login") EXCEPT !["me"] = Sent(k, k)]
             st == [user |-> Placeholder, access |-> k, auth |-> TRUE]
  <2>1. k \in 0 .. n
    BY <1>b, <1>c DEF RequestOf, AnyRequestOf
  <2>2. Sent(k, k) \in RequestOf("me", n)
    BY <1>c, <2>1, SentOf
  <2>3. r \in RequestsOf(n)
    BY <1>b, <1>c, <2>2, ReplacedOf
  <2>4. st \in StoreOf(n)
    <3>1. Placeholder \in Users /\ TRUE \in BOOLEAN
      BY DEF Users
    <3> QED BY <2>1, <3>1, StoreMade, Zenon
  <2>5. /\ storage' = [access |-> k, refresh |-> k] /\ store' = [store EXCEPT ![t] = st]
        /\ req' = [req EXCEPT ![t] = r]
        /\ UNCHANGED <<serverVars, route, bootstrapping, refresh, leaving>>
    BY <1>2 DEF LoginAnswered
  <2>6. storage' \in StorageOf(n)
    BY <2>1, <2>5 DEF StorageOf
  <2> HIDE DEF k, r, st
  <2>7. store' \in [Tabs -> StoreOf(n)] /\ req' \in [Tabs -> RequestsOf(n)]
    BY <1>a, <2>3, <2>4, <2>5
  <2>8. BrowserOK(n)'
    BY <1>a, <2>5, <2>6, <2>7 DEF BrowserOK
  <2> QED BY <2>5, <2>8, ServerStays
<1>3. CASE ProfileLoaded(t)
  <2> DEFINE k == req[t]["me"].arg
             me == pairs[req[t]["me"].tok].acct
             st == [user |-> me, access |-> k, auth |-> TRUE]
             stor == [access |-> k, refresh |-> k]
  <2>1. k \in 0 .. n /\ req[t]["me"].tok \in 1 .. n
    BY <1>3, <1>b, <1>c DEF ProfileLoaded, RequestOf, AnyRequestOf
  <2>2. st \in StoreOf(n)
    <3>1. me \in Users /\ TRUE \in BOOLEAN
      BY <1>d, <2>1
    <3> QED BY <2>1, <3>1, StoreMade, Zenon
  <2>3. stor \in StorageOf(n)
    BY <2>1 DEF StorageOf
  <2>4. Show(t, "dashboard", st, Done(t, "me"), stor) /\ UNCHANGED <<serverVars, refresh, leaving>>
    BY <1>3 DEF ProfileLoaded
  <2>5. "dashboard" \in RouteNames
    BY DEF RouteNames
  <2> HIDE DEF k, me, st, stor
  <2>6. BrowserOK(n)'
    BY <1>a, <1>b, <1>c, <2>2, <2>3, <2>4, <2>5, PageShown
  <2> QED BY <2>4, <2>6, ServerStays
<1>4. CASE Registered(t)
  <2>1. PICK r \in {"dashboard", route[t]} :
          Show(t, r, store[t], Done(t, "register"), storage)
    BY <1>4 DEF Registered
  <2>2. r \in RouteNames /\ UNCHANGED <<serverVars, refresh, leaving>>
    BY <1>4, <1>a DEF RouteNames, Registered
  <2>3. BrowserOK(n)'
    BY <1>a, <1>b, <1>c, <2>1, <2>2, PageShown
  <2> QED BY <2>2, <2>3, ServerStays
<1>5. CASE LoggedOut(t)
  <2>1. /\ Show(t, "login", SignedOut, Done(t, "logout"), NoTokens)
        /\ UNCHANGED <<serverVars, refresh, leaving>>
    BY <1>5 DEF LoggedOut
  <2>2. "login" \in RouteNames
    BY DEF RouteNames, PublicRoutes
  <2>3. BrowserOK(n)'
    BY <1>a, <1>b, <1>c, <2>1, <2>2, PageShown
  <2> QED BY <2>1, <2>3, ServerStays
<1>6. CASE Bootstrapped(t)
  <2>1. /\ req' = [req EXCEPT ![t] = Done(t, "boot")]
        /\ bootstrapping' = [bootstrapping EXCEPT ![t] = FALSE]
        /\ UNCHANGED <<serverVars, route, refresh, leaving>>
    BY <1>6 DEF Bootstrapped
  <2>2. req' \in [Tabs -> RequestsOf(n)]
    BY <1>a, <1>b, <1>c, <2>1
  <2>3. bootstrapping' \in [Tabs -> BOOLEAN]
    BY <1>a, <2>1 DEF BrowserOK
  <2>4. storage' \in StorageOf(n)
    BY <1>6, <1>a DEF Bootstrapped
  <2>5. store' \in [Tabs -> StoreOf(n)]
    <3>1. CASE req[t]["boot"].st = "ok"
      <4> DEFINE st == [store[t] EXCEPT !.user = pairs[req[t]["boot"].tok].acct]
      <4>1. req[t]["boot"].tok \in 1 .. n
        BY <3>1, <1>b, <1>c DEF RequestOf, AnyRequestOf
      <4>2. st \in StoreOf(n)
        BY <1>a, <1>d, <4>1 DEF StoreOf
      <4>3. store' = [store EXCEPT ![t] = st]
        BY <1>6, <3>1 DEF Bootstrapped
      <4> HIDE DEF st
      <4> QED BY <1>a, <4>2, <4>3
    <3>2. CASE req[t]["boot"].st # "ok"
      <4>1. store' = [store EXCEPT ![t] = SignedOut]
        BY <1>6, <3>2 DEF Bootstrapped
      <4> QED BY <1>a, <4>1
    <3> QED BY <3>1, <3>2
  <2>6. BrowserOK(n)'
    BY <1>a, <2>1, <2>2, <2>3, <2>4, <2>5 DEF BrowserOK
  <2> QED BY <2>1, <2>6, ServerStays
<1> QED BY <1>1, <1>2, <1>3, <1>4, <1>5, <1>6 DEF Settle

\* The handler of a call nobody waits for any more.
LEMMA AbandonedTypes ==
  ASSUME AuthInv, NEW i \in 1 .. Len(abandoned), HandleAbandoned(i)
  PROVE  AuthInv'
<1>a. PICK n \in Nat : n = Len(pairs)
  BY DEF AuthInv, PairsOK
<1> DEFINE c == abandoned[i]
<1>b. /\ BrowserOK(n) /\ abandoned \in Seq(CallsOf(n)) /\ c \in CallsOf(n)
      /\ RemoveAt(abandoned, i) \in Seq(CallsOf(n)) /\ RevokedOK(n)
  BY <1>a, CallEnded DEF AuthInv, AbandonedOK
<1>c. /\ UNCHANGED <<expired, ended, now, logins, reloads, storage, route, store, bootstrapping,
                     req, refresh, leaving>>
      /\ CountsOK'
  BY DEF HandleAbandoned, tabVars, AuthInv, CountsOK
<1>1. ASSUME RemoveAt(abandoned, i) = abandoned', NEW a \in Accounts, NEW from \in 0 .. n,
             Issue(a, from), blacklisted' \subseteq 1 .. n, UNCHANGED invalidatedAt
      PROVE  AuthInv'
  <2>1. PairsOK' /\ Len(pairs') = n + 1
    BY <1>a, <1>1, PairIssued
  <2>2. BrowserOK(n + 1)
    BY <1>b, BrowserGrows
  <2>3. BrowserOK(n + 1)'
    BY <1>c, <2>2 DEF BrowserOK
  <2>4. RevokedOK(n + 1)'
    <3>1. 1 .. n \subseteq 1 .. n + 1
      OBVIOUS
    <3> QED BY <1>1, <1>b, <1>c, <3>1 DEF RevokedOK
  <2>5. abandoned' \in Seq(CallsOf(n + 1))
    BY <1>1, <1>b, CallsStay
  <2> QED BY <1>c, <2>1, <2>3, <2>4, <2>5 DEF AuthInv, RevokedOK, BrowserOK, AbandonedOK
<1>2. ASSUME UNCHANGED pairs, RevokedOK(n)', abandoned' \in Seq(CallsOf(n))
      PROVE  AuthInv'
  <2>1. PairsOK' /\ Len(pairs') = n
    BY <1>a, <1>2 DEF AuthInv, PairsOK
  <2>2. BrowserOK(n)'
    BY <1>b, <1>c DEF BrowserOK
  <2> QED BY <1>c, <1>2, <2>1, <2>2 DEF AuthInv, RevokedOK, BrowserOK, AbandonedOK
<1>3. CASE AbandonedLogin(i)
  <2>1. c.arg \in Accounts /\ 0 \in 0 .. n
    BY <1>3, <1>b DEF AbandonedLogin, CallsOf
  <2>2. /\ Issue(c.arg, 0) /\ abandoned' = RemoveAt(abandoned, i)
        /\ UNCHANGED <<blacklisted, invalidatedAt>>
    BY <1>3 DEF AbandonedLogin
  <2>3. blacklisted' \subseteq 1 .. n
    BY <1>b, <2>2 DEF RevokedOK
  <2> QED BY <1>1, <2>1, <2>2, <2>3
<1>4. CASE AbandonedLogout(i)
  <2>1. LogoutUser(c.arg) /\ abandoned' = RemoveAt(abandoned, i) /\ UNCHANGED pairs
    BY <1>4 DEF AbandonedLogout
  <2>2. RevokedOK(n)'
    <3>1. CASE c.arg \in 1 .. Len(pairs) /\ c.arg \notin ended
      <4>1. /\ blacklisted' = blacklisted \cup {c.arg}
            /\ invalidatedAt' = [invalidatedAt EXCEPT ![pairs[c.arg].acct] = now]
        BY <2>1, <3>1 DEF LogoutUser
      <4>2. now \in 0 .. MaxNow
        BY BoundsAssumption DEF AuthInv, CountsOK
      <4> QED BY <1>a, <1>b, <1>c, <3>1, <4>1, <4>2 DEF RevokedOK
    <3>2. CASE ~(c.arg \in 1 .. Len(pairs) /\ c.arg \notin ended)
      <4>1. UNCHANGED <<blacklisted, invalidatedAt>>
        BY <2>1, <3>2 DEF LogoutUser
      <4> QED BY <1>b, <1>c, <4>1 DEF RevokedOK
    <3> QED BY <3>1, <3>2
  <2> QED BY <1>2, <1>b, <2>1, <2>2
<1>5. CASE AbandonedCheck(i)
  <2> DEFINE d == [c EXCEPT !.kind = "rotation"]
  <2>1. d \in CallsOf(n)
    BY <1>5, <1>b DEF AbandonedCheck, CallsOf, CallKinds
  <2>2. abandoned' = [abandoned EXCEPT ![i] = d]
    BY <1>5 DEF AbandonedCheck
  <2> HIDE DEF c, d
  <2>3. abandoned' \in Seq(CallsOf(n))
    BY <1>b, <2>1, <2>2
  <2>4. UNCHANGED <<pairs, blacklisted, invalidatedAt>>
    BY <1>5 DEF AbandonedCheck
  <2>5. RevokedOK(n)'
    BY <1>b, <1>c, <2>4 DEF RevokedOK
  <2> QED BY <1>2, <2>3, <2>4, <2>5
<1>6. CASE AbandonedRotation(i)
  <2>1. c.tok \in 1 .. n /\ c.tok \in 0 .. n
    BY <1>6, <1>b DEF AbandonedRotation, CallsOf
  <2>2. pairs[c.tok].acct \in Accounts
    <3>1. pairs \in Seq(Pair) /\ c.tok \in 1 .. Len(pairs)
      BY <1>a, <2>1 DEF AuthInv, PairsOK
    <3>2. pairs[c.tok] \in Pair
      BY <3>1
    <3> QED BY <3>2 DEF Pair
  <2>3. /\ Issue(pairs[c.tok].acct, c.tok) /\ abandoned' = RemoveAt(abandoned, i)
        /\ blacklisted' = blacklisted \cup {c.tok} /\ UNCHANGED invalidatedAt
    BY <1>6 DEF AbandonedRotation
  <2>4. blacklisted' \subseteq 1 .. n
    BY <1>b, <2>1, <2>3 DEF RevokedOK
  <2> QED BY <1>1, <2>1, <2>2, <2>3, <2>4
<1>7. CASE AbandonedRefused(i)
  <2>1. abandoned' = RemoveAt(abandoned, i) /\ UNCHANGED <<pairs, blacklisted, invalidatedAt>>
    BY <1>7 DEF AbandonedRefused
  <2>2. RevokedOK(n)'
    BY <1>b, <1>c, <2>1 DEF RevokedOK
  <2> QED BY <1>2, <1>b, <2>1, <2>2
<1> QED BY <1>3, <1>4, <1>5, <1>6, <1>7 DEF HandleAbandoned

LEMMA AuthTypesInitial == AuthInit => AuthInv
<1> SUFFICES ASSUME AuthInit PROVE AuthInv
  OBVIOUS
<1>1. PairsOK /\ Len(pairs) = 0
  BY DEF AuthInit, PairsOK
<1>2. CountsOK /\ RevokedOK(0)
  BY BoundsAssumption DEF AuthInit, CountsOK, RevokedOK
<1>3. [s \in Slots |-> Idle] \in RequestsOf(0)
  <2>1. \A s \in Slots : Idle \in RequestOf(s, 0)
    BY IdleOf
  <2> QED BY <2>1 DEF RequestsOf, RequestOf
<1>4. "login" \in RouteNames
  BY DEF RouteNames, PublicRoutes
<1>5. storage \in StorageOf(0) /\ store \in [Tabs -> StoreOf(0)] /\ refresh \in [Tabs -> RefreshOf(0)]
  BY SignedOutOf DEF AuthInit
<1>6. bootstrapping \in [Tabs -> BOOLEAN] /\ leaving \in [Tabs -> BOOLEAN]
  <2>1. bootstrapping \in [Tabs -> BOOLEAN]
    BY DEF AuthInit
  <2>2. leaving \in [Tabs -> BOOLEAN]
    BY DEF AuthInit
  <2> QED BY <2>1, <2>2
<1>7. BrowserOK(0)
  BY <1>3, <1>4, <1>5, <1>6 DEF AuthInit, BrowserOK
<1>8. AbandonedOK(0)
  BY DEF AuthInit, AbandonedOK
<1> QED BY <1>1, <1>2, <1>7, <1>8 DEF AuthInv

LEMMA AuthTypesStep == AuthInv /\ [AuthNext]_authVars => AuthInv'
<1> SUFFICES ASSUME AuthInv, [AuthNext]_authVars PROVE AuthInv'
  OBVIOUS
<1>a. PICK n \in Nat : n = Len(pairs)
  BY DEF AuthInv, PairsOK
<1>b. BrowserOK(n) /\ req \in [Tabs -> RequestsOf(n)] /\ storage \in StorageOf(n)
  BY <1>a DEF AuthInv, BrowserOK
<1>1. CASE Tick
  <2>1. CountsOK'
    BY <1>1, BoundsAssumption DEF Tick, AuthInv, CountsOK
  <2>2. PairsOK' /\ RevokedOK(Len(pairs))'
    BY <1>1 DEF Tick, AuthInv, PairsOK, RevokedOK
  <2> QED BY <1>1, <2>1, <2>2 DEF Tick, tabVars, AuthInv, BrowserOK, AbandonedOK
<1>2. ASSUME NEW k \in 1 .. Len(pairs), Expire(k) PROVE AuthInv'
  <2>1. RevokedOK(Len(pairs))' /\ CountsOK' /\ PairsOK'
    BY <1>2 DEF Expire, AuthInv, PairsOK, CountsOK, RevokedOK
  <2> QED BY <1>2, <2>1 DEF Expire, tabVars, AuthInv, BrowserOK, AbandonedOK
<1>3. ASSUME NEW t \in Tabs, Redirect(t) PROVE AuthInv'
  <2>1. /\ route[t] \in RouteNames /\ store[t] \in StoreOf(n) /\ req[t] \in RequestsOf(n)
    BY <1>b DEF BrowserOK
  <2>2. PICK r \in RouteNames : Show(t, r, store[t], req[t], storage)
    BY <1>3, <2>1, RedirectedToRoute DEF Redirect
  <2>3. UNCHANGED <<serverVars, refresh, leaving>>
    BY <1>3 DEF Redirect
  <2>4. BrowserOK(n)'
    BY <1>b, <2>1, <2>2, <2>3, PageShown
  <2> QED BY <1>a, <2>3, <2>4, ServerStays
<1>4. ASSUME NEW t \in Tabs, Leave(t) PROVE AuthInv'
  <2>1. "login" \in RouteNames
    BY DEF RouteNames, PublicRoutes
  <2>2. BrowserOK(n)'
    BY <1>4, <1>b, <2>1, DocumentLoaded DEF Leave
  <2>3. CountsOK'
    BY <1>4 DEF Leave, Load, AuthInv, CountsOK
  <2> QED BY <1>a, <1>4, <2>2, <2>3, ServerLoaded DEF Leave
<1>5. ASSUME NEW t \in Tabs, NEW s \in Slots, Lose(t, s) PROVE AuthInv'
  <2>1. /\ req[t][s].st # "idle" /\ Reply(t, s, "refused") /\ LeaveBehind(CallOf(t, s))
        /\ UNCHANGED <<pairs, blacklisted, invalidatedAt, expired, ended, now, logins, reloads,
                       storage, route, store, bootstrapping, refresh, leaving>>
    BY <1>5 DEF Lose
  <2>2. "refused" \in ReqStates
    BY DEF ReqStates
  <2>3. req' \in [Tabs -> RequestsOf(n)]
    BY <1>b, <2>1, <2>2, Restated
  <2>4. BrowserOK(n)'
    BY <1>b, <2>1, <2>3 DEF BrowserOK
  <2>5. AbandonedOK(n)'
    BY <1>a, <1>b, <2>1, LeftBehind, BehindKept DEF AuthInv
  <2>6. CountsOK'
    BY <2>1 DEF AuthInv, CountsOK
  <2> QED BY <1>a, <2>1, <2>4, <2>5, <2>6, NothingIssued
<1>6. CASE UNCHANGED authVars
  BY <1>6 DEF authVars, serverVars, tabVars, AuthInv, PairsOK, CountsOK, RevokedOK, BrowserOK,
              AbandonedOK
<1> QED BY <1>a, <1>1, <1>2, <1>3, <1>4, <1>5, <1>6, AbandonedTypes, UserTypes, InterceptTypes, RefreshTypes,
           RespondTypes, SettleTypes DEF AuthNext

\* Server and tabs are well formed in every reachable state: no storage, store,
\* request, refresh or abandoned call ever holds a token the server has not issued, a pair comes
\* from an earlier one, a refresh token ends after its access token.
THEOREM AuthTypeCorrect == AuthSpec => []AuthTypeOK
<1>1. AuthInv => AuthTypeOK
  <2> SUFFICES ASSUME AuthInv PROVE AuthTypeOK
    OBVIOUS
  <2>1. Tokens = 0 .. Len(pairs)
    BY DEF Tokens
  <2>2. req \in [Tabs -> [Slots -> [st : ReqStates, tok : Tokens, retry : BOOLEAN,
                                    arg : Tokens \cup Accounts]]]
    BY <2>1 DEF AuthInv, BrowserOK, RequestsOf, AnyRequestOf
  <2>3. refresh \in [Tabs -> [on : BOOLEAN, st : RefreshStates, tok : Tokens,
                              new : Tokens, leader : Slots]]
    BY <2>1 DEF AuthInv, BrowserOK, RefreshOf
  <2>4. /\ storage \in [access : Tokens, refresh : Tokens]
        /\ store \in [Tabs -> [user : Users, access : Tokens, auth : BOOLEAN]]
        /\ route \in [Tabs -> RouteNames]
        /\ bootstrapping \in [Tabs -> BOOLEAN] /\ leaving \in [Tabs -> BOOLEAN]
    BY <2>1 DEF AuthInv, BrowserOK, StorageOf, StoreOf
  <2>5. pairs \in Seq([acct : Accounts, at : 1 .. MaxNow, from : Nat])
        /\ \A n \in 1 .. Len(pairs) : pairs[n].from < n
    BY DEF AuthInv, PairsOK, Pair
  <2>6. abandoned \in Seq([kind : CallKinds, tok : Tokens, arg : Tokens \cup Accounts])
    <3> DEFINE S == CallsOf(Len(pairs))
               T == [kind : CallKinds, tok : Tokens, arg : Tokens \cup Accounts]
    <3>1. S \subseteq T
      BY <2>1 DEF CallsOf
    <3>2. abandoned \in Seq(S)
      BY DEF AuthInv, AbandonedOK
    <3> HIDE DEF S, T
    <3>3. abandoned \in Seq(T)
      BY <3>1, <3>2
    <3> QED BY <3>3 DEF T
  <2> QED BY <2>2, <2>3, <2>4, <2>5, <2>6 DEF AuthInv, CountsOK, RevokedOK, AuthTypeOK
<1> QED BY AuthTypesInitial, AuthTypesStep, <1>1, PTL DEF AuthSpec

=============================================================================
