------------------------ MODULE CachedScreensProofs ------------------------
(***************************************************************************)
(* Theorems about the screens that show what the server holds through an   *)
(* entry of the query cache: those of a quotation (QuoteScreens), for any  *)
(* number of browsers and writes, and those of a request (RequestScreens), *)
(* for any number of failed requests; the types of the document's page     *)
(* (DocumentScreen) and of the caches of the pricing service               *)
(* (PricingCache), for any number of requests that calculate.              *)
(***************************************************************************)
EXTENDS QuoteScreens, RequestScreens, DocumentScreen, PricingCache, TLAPS

-----------------------------------------------------------------------------
(* Entries of the query cache *)

\* A query never fetched is an entry.
LEMMA NoEntryType == ASSUME NEW V PROVE NoEntry \in EntryType(V)
BY DEF NoEntry, EntryType

\* Whatever a screen does with an entry, it stays one over the same values.
LEMMA EntryKept ==
  ASSUME NEW V, NEW e \in EntryType(V)
  PROVE  /\ Fetch(e) \in EntryType(V) /\ Mount(e) \in EntryType(V)
         /\ Age(e) \in EntryType(V) /\ Fail(e) \in EntryType(V)
         /\ Answer(e) \in EntryType(V)
         /\ \A used : Invalidate(e, used) \in EntryType(V)
<1>1. \A x \in EntryType(V) : Fetch(x) \in EntryType(V) /\ Age(x) \in EntryType(V)
  BY DEF EntryType, Fetch, Age
<1>2. Mount(e) \in EntryType(V)
  BY <1>1 DEF Mount
<1>3. Fail(e) \in EntryType(V) /\ Answer(e) \in EntryType(V)
  BY DEF EntryType, Fail, Answer
<1>4. \A used : Invalidate(e, used) \in EntryType(V)
  BY <1>1 DEF Invalidate
<1> QED BY <1>1, <1>2, <1>3, <1>4

\* The server's answer brings a value of its own.
LEMMA ServedType ==
  ASSUME NEW V, NEW v \in V, NEW e \in EntryType(V)
  PROVE  Serve(e, v) \in EntryType(V)
<1>1. /\ e \in [data : V \cup {NoData}, fresh : BOOLEAN, fetch : {"idle", "asked", "read"},
                got : V \cup {NoData}, failed : BOOLEAN]
      /\ v \in V \cup {NoData} /\ "read" \in {"idle", "asked", "read"}
  BY DEF EntryType
<1> QED BY <1>1 DEF EntryType, Serve

-----------------------------------------------------------------------------
(* QuoteScreens: the invariant *)

\* An entry that shows nothing older than version n: neither what it holds as
\* fresh, nor what the fetch under way has read.
Safe(e, n) ==
  /\ e.fresh => e.data >= n
  /\ e.fetch = "read" => e.got >= n

Ops == {"none", "accept", "reject", "finalize", "send", "track"}
CallShape == [op : Ops, to : Int, st : {"none", "asked", "done"}, ver : Int]
OwnShape == [quote : Nat, tracking : Nat]

\* However often the quotation has been written, the log is a sequence.
Sequence(log) == \E S : log \in Seq(S)

\* OwnActionShown alone is not inductive: it says nothing of the fetch under
\* way, nor that an answered action has been written.
QInv ==
  /\ Sequence(qLog)
  /\ qQuote \in [QViewers -> EntryType(Nat)] /\ qTrack \in [QViewers -> EntryType(Nat)]
  /\ qCall \in [QViewers -> CallShape] /\ qOwn \in [QViewers -> OwnShape]
  /\ \A v \in QViewers :
       /\ Safe(qQuote[v], qOwn[v].quote) /\ Safe(qTrack[v], qOwn[v].tracking)
       /\ qOwn[v].quote <= Latest /\ qOwn[v].tracking <= Latest
       /\ qCall[v].st = "done" => qCall[v].ver \in 0 .. Latest

-----------------------------------------------------------------------------
(* Lemmas about one entry *)

LEMMA SafeKept ==
  ASSUME NEW e \in EntryType(Nat), NEW n \in Nat, Safe(e, n)
  PROVE  /\ Safe(Fetch(e), n) /\ Safe(Mount(e), n) /\ Safe(Age(e), n) /\ Safe(Fail(e), n)
         /\ e.fetch = "read" => Safe(Answer(e), n)
         /\ \A used : Safe(Invalidate(e, used), n)
         /\ Safe(e, 0) /\ Safe(Mount(e), 0)
<1>1. Safe(Fetch(e), n) /\ Safe(Age(e), n) /\ Safe(Fail(e), n)
  BY DEF EntryType, Safe, Fetch, Age, Fail
<1>2. e.fetch = "read" => Safe(Answer(e), n)
  BY DEF EntryType, Safe, Answer
<1>3. Safe(Mount(e), n)
  BY <1>1 DEF Mount
<1>4. Safe(Fetch(Age(e)), n)
  BY DEF EntryType, Safe, Fetch, Age
<1>5. \A used : Safe(Invalidate(e, used), n)
  BY <1>1, <1>4 DEF Invalidate
<1>6. Safe(e, 0)
  BY DEF EntryType, Safe, NoData
<1>7. Safe(Fetch(e), 0)
  BY <1>6 DEF EntryType, Safe, Fetch
<1>8. Safe(Mount(e), 0)
  BY <1>6, <1>7 DEF Mount
<1> QED BY <1>1, <1>2, <1>3, <1>5, <1>6, <1>8

\* A fetch from the start will read what is written by then.
LEMMA SafeAnew ==
  ASSUME NEW e \in EntryType(Nat), NEW n \in Nat
  PROVE  Safe(Invalidate(e, TRUE), n)
BY DEF EntryType, Safe, Invalidate, Fetch, Age

LEMMA SafeServed ==
  ASSUME NEW e \in EntryType(Nat), NEW n \in Nat, Safe(e, n), NEW m \in Nat, m >= n
  PROVE  Safe(Serve(e, m), n)
BY DEF EntryType, Safe, Serve

\* A request that has been written is one.
LEMMA DoneShape ==
  ASSUME NEW call \in CallShape, NEW n \in Int
  PROVE  [call EXCEPT !.st = "done", !.ver = n] \in CallShape
BY DEF CallShape

\* So is the second request of a draft's sending.
LEMMA SecondShape ==
  ASSUME NEW call \in CallShape
  PROVE  /\ [call EXCEPT !.op = "send", !.st = "asked"] \in CallShape
         /\ [call EXCEPT !.op = "send", !.st = "asked"].st # "done"
BY DEF CallShape, Ops

LEMMA LatestNat ==
  ASSUME Sequence(qLog)
  PROVE  Latest \in Nat
BY DEF Sequence, Latest

-----------------------------------------------------------------------------
(* The invariant *)

\* What QInv asks of one browser.
Fine(quote, track, call, own) ==
  /\ quote \in EntryType(Nat) /\ track \in EntryType(Nat)
  /\ call \in CallShape /\ own \in OwnShape
  /\ Safe(quote, own.quote) /\ Safe(track, own.tracking)
  /\ own.quote <= Latest /\ own.tracking <= Latest
  /\ call.st = "done" => call.ver \in 0 .. Latest

LEMMA EveryBrowser ==
  ASSUME QInv, NEW v \in QViewers
  PROVE  Fine(qQuote[v], qTrack[v], qCall[v], qOwn[v])
BY DEF QInv, Fine

\* One browser moved, the server stayed.
LEMMA OneBrowser ==
  ASSUME QInv, NEW v \in QViewers, NEW quote, NEW track, NEW call, NEW own,
         Fine(quote, track, call, own), UNCHANGED qLog,
         qQuote' = [qQuote EXCEPT ![v] = quote], qTrack' = [qTrack EXCEPT ![v] = track],
         qCall' = [qCall EXCEPT ![v] = call], qOwn' = [qOwn EXCEPT ![v] = own]
  PROVE  QInv'
<1>1. /\ qQuote' \in [QViewers -> EntryType(Nat)] /\ qTrack' \in [QViewers -> EntryType(Nat)]
      /\ qCall' \in [QViewers -> CallShape] /\ qOwn' \in [QViewers -> OwnShape]
  BY DEF QInv, Fine
<1>2. Latest' = Latest /\ Sequence(qLog)'
  BY DEF Latest, QInv
<1>3. ASSUME NEW w \in QViewers
      PROVE  /\ Safe(qQuote'[w], qOwn'[w].quote) /\ Safe(qTrack'[w], qOwn'[w].tracking)
             /\ qOwn'[w].quote <= Latest /\ qOwn'[w].tracking <= Latest
             /\ qCall'[w].st = "done" => qCall'[w].ver \in 0 .. Latest
  <2>1. CASE w = v
    BY <2>1 DEF QInv, Fine
  <2>2. CASE w # v
    BY <2>2 DEF QInv
  <2> QED BY <2>1, <2>2
<1> QED BY <1>1, <1>2, <1>3 DEF QInv

LEMMA QInitial == QInit => QInv
<1> SUFFICES ASSUME QInit PROVE QInv
  OBVIOUS
<1>1. Sequence(qLog) /\ Latest = 1
  <2>1. PICK first : qLog = <<first>>
    BY DEF QInit
  <2>2. <<first>> \in Seq({first}) /\ Len(<<first>>) = 1
    OBVIOUS
  <2> QED BY <2>1, <2>2 DEF Sequence, Latest
<1>2. NoEntry \in EntryType(Nat) /\ Safe(NoEntry, 0)
  BY NoEntryType DEF NoEntry, Safe
<1>3. NoCall \in CallShape /\ NoCall.st = "none" /\ Untouched \in OwnShape
      /\ Untouched.quote = 0 /\ Untouched.tracking = 0
  BY DEF NoCall, CallShape, Ops, Untouched, OwnShape
<1> QED BY <1>1, <1>2, <1>3 DEF QInit, QInv

\* Going to another page: what was answered on the page left is forgotten.
LEMMA PageStep ==
  ASSUME QInv, NEW v \in QViewers, NEW to,
         GoToPage(v, to) \/ GoBackTo(v, to)
  PROVE  QInv'
<1> DEFINE quote == IF qQuote' = qQuote THEN qQuote[v] ELSE Mount(qQuote[v])
           track == IF qTrack' = qTrack THEN qTrack[v] ELSE Mount(qTrack[v])
           call == qCall[v]
<1>a. Fine(qQuote[v], qTrack[v], call, qOwn[v])
  BY EveryBrowser
<1>b. qQuote = [qQuote EXCEPT ![v] = qQuote[v]] /\ qTrack = [qTrack EXCEPT ![v] = qTrack[v]]
      /\ qCall = [qCall EXCEPT ![v] = call]
  BY DEF QInv
<1>1. \/ qQuote' = qQuote \/ qQuote' = [qQuote EXCEPT ![v] = Mount(qQuote[v])]
  BY <1>b DEF GoToPage, GoBackTo, QInv
<1>2. \/ qTrack' = qTrack \/ qTrack' = [qTrack EXCEPT ![v] = Mount(qTrack[v])]
  BY <1>b DEF GoToPage, GoBackTo, QInv
<1>3. qOwn' = [qOwn EXCEPT ![v] = Untouched] /\ UNCHANGED <<qCall, qLog>>
  BY DEF GoToPage, GoBackTo
<1>4. /\ qQuote' = [qQuote EXCEPT ![v] = quote] /\ qTrack' = [qTrack EXCEPT ![v] = track]
      /\ qCall' = [qCall EXCEPT ![v] = call]
  BY <1>b, <1>1, <1>2, <1>3
<1>5. quote \in EntryType(Nat) /\ track \in EntryType(Nat)
  BY <1>a, EntryKept DEF Fine
<1>6. Safe(quote, 0) /\ Safe(track, 0)
  <2>1. qOwn[v].quote \in Nat /\ qOwn[v].tracking \in Nat
    BY <1>a DEF Fine, OwnShape
  <2> QED BY <1>a, <2>1, SafeKept DEF Fine
<1>7. Untouched \in OwnShape /\ Untouched.quote = 0 /\ Untouched.tracking = 0
  BY DEF Untouched, OwnShape
<1>8. Latest \in Nat
  BY LatestNat DEF QInv
<1> HIDE DEF quote, track, call
<1>9. Fine(quote, track, call, Untouched)
  BY <1>a, <1>5, <1>6, <1>7, <1>8 DEF Fine
<1> QED BY <1>3, <1>4, <1>9, OneBrowser

\* The fetches of a browser.
LEMMA FetchStep ==
  ASSUME QInv, NEW v \in QViewers,
         \/ QServe(v) \/ QAnswer(v) \/ QFetchFails(v) \/ QRefetch(v) \/ TrackingPolls(v)
  PROVE  QInv'
<1> DEFINE quote == qQuote[v]
           track == qTrack[v]
           call == qCall[v]
           own == qOwn[v]
<1>a. Fine(quote, track, call, own) /\ own.quote \in Nat /\ own.tracking \in Nat
  BY EveryBrowser DEF Fine, OwnShape
<1>b. /\ qQuote = [qQuote EXCEPT ![v] = quote] /\ qTrack = [qTrack EXCEPT ![v] = track]
      /\ qCall = [qCall EXCEPT ![v] = call] /\ qOwn = [qOwn EXCEPT ![v] = own]
  BY DEF QInv
<1>c. Latest \in Nat
  BY LatestNat DEF QInv
<1>1. ASSUME NEW new \in EntryType(Nat), Safe(new, own.quote),
             qQuote' = [qQuote EXCEPT ![v] = new], UNCHANGED <<qTrack, qCall, qOwn, qLog>>
      PROVE  QInv'
  <2>1. Fine(new, track, call, own)
    BY <1>a, <1>1 DEF Fine
  <2> HIDE DEF quote, track, call, own
  <2> QED BY <1>b, <1>1, <2>1, OneBrowser
<1>2. ASSUME NEW new \in EntryType(Nat), Safe(new, own.tracking),
             qTrack' = [qTrack EXCEPT ![v] = new], UNCHANGED <<qQuote, qCall, qOwn, qLog>>
      PROVE  QInv'
  <2>1. Fine(quote, new, call, own)
    BY <1>a, <1>2 DEF Fine
  <2> HIDE DEF quote, track, call, own
  <2> QED BY <1>b, <1>2, <2>1, OneBrowser
<1>3. ASSUME UNCHANGED <<qQuote, qTrack, qCall, qOwn, qLog>> PROVE QInv'
  BY <1>3 DEF QInv, Latest
<1>4. CASE QServe(v)
  <2>1. Safe(Serve(quote, Latest), own.quote) /\ Safe(Serve(track, Latest), own.tracking)
        /\ Serve(quote, Latest) \in EntryType(Nat) /\ Serve(track, Latest) \in EntryType(Nat)
    BY <1>a, <1>c, SafeServed, ServedType DEF Fine
  <2> QED BY <1>1, <1>2, <1>3, <1>4, <2>1 DEF QServe
<1>5. CASE QAnswer(v)
  <2>1. /\ quote.fetch = "read" => Safe(Answer(quote), own.quote)
        /\ track.fetch = "read" => Safe(Answer(track), own.tracking)
        /\ Answer(quote) \in EntryType(Nat) /\ Answer(track) \in EntryType(Nat)
    BY <1>a, SafeKept, EntryKept DEF Fine
  <2> QED BY <1>1, <1>2, <1>3, <1>5, <2>1 DEF QAnswer
<1>6. CASE QFetchFails(v)
  <2>1. Safe(Fail(quote), own.quote) /\ Safe(Fail(track), own.tracking)
        /\ Fail(quote) \in EntryType(Nat) /\ Fail(track) \in EntryType(Nat)
    BY <1>a, SafeKept, EntryKept DEF Fine
  <2> QED BY <1>1, <1>2, <1>3, <1>6, <2>1 DEF QFetchFails
<1>7. CASE QRefetch(v)
  BY <1>3, <1>7 DEF QRefetch
<1>8. CASE TrackingPolls(v)
  <2>1. Safe(Fetch(track), own.tracking) /\ Fetch(track) \in EntryType(Nat)
    BY <1>a, SafeKept, EntryKept DEF Fine
  <2> QED BY <1>2, <1>8, <2>1 DEF TrackingPolls
<1> QED BY <1>4, <1>5, <1>6, <1>7, <1>8

\* The steps of a request but its writing and its answer.
LEMMA CallStep ==
  ASSUME QInv, NEW v \in QViewers,
         \/ AcceptMutation(v) \/ SetShowRejectConfirm(v) \/ RejectMutation(v) \/ SendMutation(v)
         \/ \E to \in 1 .. QLastStage : TrackingStatusUpdatePanel(v, to)
         \/ QRefuse(v) \/ QLose(v) \/ Finalized(v)
  PROVE  QInv'
<1> DEFINE quote == qQuote[v]
           track == qTrack[v]
           own == qOwn[v]
<1>a. Fine(quote, track, qCall[v], own) /\ quote.data \in Int /\ track.data \in Int
  BY EveryBrowser DEF Fine, EntryType, NoData
<1>b. /\ qQuote = [qQuote EXCEPT ![v] = quote] /\ qTrack = [qTrack EXCEPT ![v] = track]
      /\ qOwn = [qOwn EXCEPT ![v] = own]
  BY DEF QInv
<1>1. ASSUME NEW call \in CallShape, call.st # "done", qCall' = [qCall EXCEPT ![v] = call],
             UNCHANGED <<qLog, qQuote, qTrack, qOwn>>
      PROVE  QInv'
  <2>1. Fine(quote, track, call, own)
    BY <1>a, <1>1 DEF Fine
  <2> HIDE DEF quote, track, own
  <2> QED BY <1>b, <1>1, <2>1, OneBrowser
<1>2. ASSUME NEW op \in Ops, NEW to \in Int, NEW entry, entry.data \in Int,
             Ask(v, op, to, entry)
      PROVE  QInv'
  <2> DEFINE call == [op |-> op, to |-> to, st |-> "asked", ver |-> entry.data]
  <2>1. call \in CallShape /\ call.st # "done"
    BY <1>2 DEF CallShape
  <2> QED BY <1>1, <1>2, <2>1 DEF Ask, qCache
<1>3. NoCall \in CallShape /\ NoCall.st # "done"
      /\ [NoCall EXCEPT !.op = "send", !.st = "asked"] \in CallShape
      /\ [NoCall EXCEPT !.op = "send", !.st = "asked"].st # "done"
  <2>1. NoCall \in CallShape /\ NoCall.st # "done"
    BY DEF NoCall, CallShape, Ops
  <2> QED BY <2>1, SecondShape
<1>4. CASE AcceptMutation(v)
  BY <1>2, <1>4, <1>a DEF AcceptMutation, Ops
<1>5. CASE SetShowRejectConfirm(v)
  BY <1>5 DEF SetShowRejectConfirm, qCache, QInv, Latest
<1>6. CASE RejectMutation(v)
  BY <1>2, <1>6, <1>a DEF RejectMutation, Ops
<1>7. CASE SendMutation(v)
  <2>1. \E op \in Ops : Ask(v, op, 0, qQuote[v])
    BY <1>7 DEF SendMutation, Ops
  <2> QED BY <1>2, <1>a, <2>1
<1>8. ASSUME NEW to \in 1 .. QLastStage, TrackingStatusUpdatePanel(v, to) PROVE QInv'
  BY <1>2, <1>8, <1>a, QAssumption DEF TrackingStatusUpdatePanel, Ops
<1>9. CASE QRefuse(v)
  BY <1>1, <1>3, <1>9 DEF QRefuse, qCache
<1>10. CASE QLose(v)
  BY <1>1, <1>3, <1>10 DEF QLose, qCache
<1>11. CASE Finalized(v)
  BY <1>1, <1>3, <1>11 DEF Finalized, qCache
<1> QED BY <1>4, <1>5, <1>6, <1>7, <1>8, <1>9, <1>10, <1>11

\* The write: versions already shown stay what they are.
LEMMA CommitStep ==
  ASSUME QInv, NEW v \in QViewers, QCommit(v)
  PROVE  QInv'
<1> DEFINE written == Written(qCall[v], Now)
<1> HIDE DEF written
<1>1. Sequence(qLog') /\ Latest' = Latest + 1 /\ Latest \in Nat
  <2>1. PICK S : qLog \in Seq(S)
    BY DEF QInv, Sequence
  <2>2. qLog \in Seq(S \cup {written})
    BY <2>1
  <2>3. qLog' = Append(qLog, written)
    BY DEF QCommit, written
  <2>4. Append(qLog, written) \in Seq(S \cup {written})
        /\ Len(Append(qLog, written)) = Len(qLog) + 1 /\ Len(qLog) \in Nat
    BY <2>2
  <2> QED BY <2>3, <2>4 DEF Sequence, Latest
<1>2. /\ qCall' = [qCall EXCEPT ![v].st = "done", ![v].ver = Latest + 1]
      /\ UNCHANGED <<qQuote, qTrack, qOwn>>
  BY DEF QCommit, qCache
<1>3. qCall' \in [QViewers -> CallShape]
  <2> DEFINE new == [qCall[v] EXCEPT !.st = "done", !.ver = Latest + 1]
  <2>1. qCall[v] \in CallShape
    BY DEF QInv
  <2>2. new \in CallShape
    <3>1. Latest + 1 \in Int
      BY <1>1
    <3> QED BY <2>1, <3>1, DoneShape
  <2>3. qCall' = [qCall EXCEPT ![v] = new]
    BY <1>2 DEF QInv
  <2> HIDE DEF new
  <2> QED BY <2>2, <2>3 DEF QInv
<1>4. ASSUME NEW w \in QViewers
      PROVE  /\ Safe(qQuote[w], qOwn[w].quote) /\ Safe(qTrack[w], qOwn[w].tracking)
             /\ qOwn[w].quote <= Latest + 1 /\ qOwn[w].tracking <= Latest + 1
             /\ qCall'[w].st = "done" => qCall'[w].ver \in 0 .. Latest + 1
  <2>1. qOwn[w].quote \in Nat /\ qOwn[w].tracking \in Nat
    BY DEF QInv, OwnShape
  <2>2. qCall'[w].st = "done" => qCall'[w].ver \in 0 .. Latest + 1
    BY <1>1, <1>2 DEF QInv, CallShape
  <2> QED BY <1>1, <2>1, <2>2 DEF QInv
<1> QED BY <1>1, <1>2, <1>3, <1>4 DEF QInv

\* The answer of an action: the page it was taken on fetches anew, so that a
\* fetch begun before the write cannot be the last.
LEMMA AnsweredStep ==
  ASSUME QInv, NEW v \in QViewers, QuoteAnswered(v) \/ UpdateAnswered(v)
  PROVE  QInv'
<1> DEFINE quote == qQuote[v]
           track == qTrack[v]
           own == qOwn[v]
           ver == qCall[v].ver
<1>a. Fine(quote, track, qCall[v], own) /\ own.quote \in Nat /\ own.tracking \in Nat
  BY EveryBrowser DEF Fine, OwnShape
<1>b. /\ qQuote = [qQuote EXCEPT ![v] = quote] /\ qTrack = [qTrack EXCEPT ![v] = track]
      /\ qOwn = [qOwn EXCEPT ![v] = own]
  BY DEF QInv
<1>c. Latest \in Nat /\ ver \in Nat /\ ver <= Latest
  BY <1>a, LatestNat DEF QuoteAnswered, UpdateAnswered, Fine, QInv
<1>d. NoCall \in CallShape /\ NoCall.st # "done"
  BY DEF NoCall, CallShape, Ops
<1>1. CASE QuoteAnswered(v)
  <2> DEFINE new == Invalidate(quote, qAt[v] \in {"quote", "tracking"})
             mine == [own EXCEPT !.quote = IF qAt[v] = "quote" THEN ver ELSE @]
  <2>1. new \in EntryType(Nat)
    BY <1>a, EntryKept DEF Fine
  <2>2. mine \in OwnShape /\ mine.quote = (IF qAt[v] = "quote" THEN ver ELSE own.quote)
        /\ mine.tracking = own.tracking
    BY <1>a, <1>c DEF Fine, OwnShape
  <2>3. Safe(new, mine.quote)
    <3>1. CASE qAt[v] = "quote"
      BY <1>a, <1>c, <2>2, <3>1, SafeAnew DEF Fine
    <3>2. CASE qAt[v] # "quote"
      BY <1>a, <2>2, <3>2, SafeKept DEF Fine
    <3> QED BY <3>1, <3>2
  <2>4. /\ qQuote' = [qQuote EXCEPT ![v] = new] /\ qTrack' = [qTrack EXCEPT ![v] = track]
        /\ qOwn' = [qOwn EXCEPT ![v] = mine] /\ qCall' = [qCall EXCEPT ![v] = NoCall]
        /\ UNCHANGED qLog
    BY <1>1, <1>b DEF QuoteAnswered, QInv
  <2> HIDE DEF new, mine
  <2>5. Fine(new, track, NoCall, mine)
    BY <1>a, <1>c, <1>d, <2>1, <2>2, <2>3 DEF Fine
  <2> HIDE DEF quote, track, own, ver
  <2> QED BY <2>4, <2>5, OneBrowser
<1>2. CASE UpdateAnswered(v)
  <2> DEFINE new == Invalidate(track, qAt[v] = "tracking")
             mine == [own EXCEPT !.tracking = IF qAt[v] = "tracking" THEN ver ELSE @]
  <2>1. new \in EntryType(Nat)
    BY <1>a, EntryKept DEF Fine
  <2>2. mine \in OwnShape /\ mine.tracking = (IF qAt[v] = "tracking" THEN ver ELSE own.tracking)
        /\ mine.quote = own.quote
    BY <1>a, <1>c DEF Fine, OwnShape
  <2>3. Safe(new, mine.tracking)
    <3>1. CASE qAt[v] = "tracking"
      BY <1>a, <1>c, <2>2, <3>1, SafeAnew DEF Fine
    <3>2. CASE qAt[v] # "tracking"
      BY <1>a, <2>2, <3>2, SafeKept DEF Fine
    <3> QED BY <3>1, <3>2
  <2>4. /\ qTrack' = [qTrack EXCEPT ![v] = new] /\ qQuote' = [qQuote EXCEPT ![v] = quote]
        /\ qOwn' = [qOwn EXCEPT ![v] = mine] /\ qCall' = [qCall EXCEPT ![v] = NoCall]
        /\ UNCHANGED qLog
    BY <1>2, <1>b DEF UpdateAnswered, QInv
  <2> HIDE DEF new, mine
  <2>5. Fine(quote, new, NoCall, mine)
    BY <1>a, <1>c, <1>d, <2>1, <2>2, <2>3 DEF Fine
  <2> HIDE DEF quote, track, own, ver
  <2> QED BY <2>4, <2>5, OneBrowser
<1> QED BY <1>1, <1>2

LEMMA QStep == QInv /\ [QNext]_qVars => QInv'
<1> SUFFICES ASSUME QInv, [QNext]_qVars PROVE QInv'
  OBVIOUS
<1>1. CASE UNCHANGED qVars
  BY <1>1 DEF qVars, qCache, QInv, Latest
<1>2. ASSUME NEW v \in QViewers, HandleView(v) \/ HandleTrack(v)
                                 \/ GoBackTo(v, "quotes") \/ GoBackTo(v, "orders")
      PROVE  QInv'
  BY <1>2, PageStep DEF HandleView, HandleTrack
<1> QED BY <1>1, <1>2, FetchStep, CallStep, CommitStep, AnsweredStep DEF QNext

-----------------------------------------------------------------------------

\* A page never settles on the quotation as it was before the user's own
\* answered action, with any number of browsers writing and polls under way.
THEOREM OwnActionsStay == QSpec => []OwnActionShown
<1>1. QInv => OwnActionShown
  BY DEF QInv, Safe, OwnActionShown, Settled
<1> QED BY QInitial, QStep, <1>1, PTL DEF QSpec

-----------------------------------------------------------------------------
(* QuoteScreens: the types *)

QPages == {"quotes", "orders", "quote", "tracking"}
QRows == [status : {"draft", "finalized", "sent", "accepted", "rejected"}, stage : 0 .. QLastStage]

\* A request under way has a handler, and the stage it asks for exists.
CallTyped(call) ==
  /\ call.st # "none" => call.op # "none"
  /\ call.op = "track" => call.to \in 1 .. QLastStage

\* QTypeOK needs CallTyped: what a request asks for gets into the log.
QTyped ==
  /\ Latest \in Nat \ {0}
  /\ \A i \in 1 .. Latest : qLog[i] \in QRows
  /\ qAt \in [QViewers -> QPages] /\ qConfirm \in [QViewers -> BOOLEAN]
  /\ qList \in [QViewers -> EntryType(1 .. Latest)]
  /\ qQuote \in [QViewers -> EntryType(1 .. Latest)]
  /\ qTrack \in [QViewers -> EntryType(1 .. Latest)]
  /\ \A v \in QViewers : CallTyped(qCall[v])

\* An entry of one browser moves.
LEMMA CacheKept ==
  ASSUME NEW S, NEW V, NEW c \in [S -> EntryType(V)], NEW v \in S
  PROVE  /\ [c EXCEPT ![v] = Mount(c[v])] \in [S -> EntryType(V)]
         /\ [c EXCEPT ![v] = Fetch(c[v])] \in [S -> EntryType(V)]
         /\ [c EXCEPT ![v] = Fail(c[v])] \in [S -> EntryType(V)]
         /\ [c EXCEPT ![v] = Answer(c[v])] \in [S -> EntryType(V)]
         /\ \A used : [c EXCEPT ![v] = Invalidate(c[v], used)] \in [S -> EntryType(V)]
         /\ \A n \in V : [c EXCEPT ![v] = Serve(c[v], n)] \in [S -> EntryType(V)]
<1>1. c[v] \in EntryType(V)
  OBVIOUS
<1>2. \A e \in EntryType(V) : [c EXCEPT ![v] = e] \in [S -> EntryType(V)]
  OBVIOUS
<1>3. /\ Fetch(c[v]) \in EntryType(V) /\ Mount(c[v]) \in EntryType(V)
      /\ Fail(c[v]) \in EntryType(V) /\ Answer(c[v]) \in EntryType(V)
      /\ \A used : Invalidate(c[v], used) \in EntryType(V)
  BY <1>1, EntryKept
<1>4. \A n \in V : Serve(c[v], n) \in EntryType(V)
  BY <1>1, ServedType
<1> QED BY <1>2, <1>3, <1>4

\* What was a version stays one when there are more.
LEMMA EntryGrows ==
  ASSUME NEW V, NEW W, V \subseteq W
  PROVE  EntryType(V) \subseteq EntryType(W)
BY DEF EntryType

LEMMA CallsKept ==
  ASSUME QInv, QTyped, NEW v \in QViewers, NEW call,
         CallTyped(call), qCall' = [qCall EXCEPT ![v] = call]
  PROVE  \A w \in QViewers : CallTyped(qCall'[w])
<1>1. qCall \in [QViewers -> CallShape]
  BY DEF QInv
<1> QED BY <1>1 DEF QTyped

\* The pages, the fetches and the answers: an entry of one browser moves.
LEMMA CachesTyped ==
  ASSUME QInv, QTyped, NEW v \in QViewers,
         \/ HandleView(v) \/ HandleTrack(v) \/ GoBackTo(v, "quotes") \/ GoBackTo(v, "orders")
         \/ QServe(v) \/ QAnswer(v) \/ QFetchFails(v) \/ QRefetch(v) \/ TrackingPolls(v)
         \/ QuoteAnswered(v) \/ UpdateAnswered(v)
  PROVE  /\ qList' \in [QViewers -> EntryType(1 .. Latest)]
         /\ qQuote' \in [QViewers -> EntryType(1 .. Latest)]
         /\ qTrack' \in [QViewers -> EntryType(1 .. Latest)]
<1> DEFINE Entries == [QViewers -> EntryType(1 .. Latest)]
<1>a. qList \in Entries /\ qQuote \in Entries /\ qTrack \in Entries
  BY DEF QTyped
<1>b. Latest \in 1 .. Latest
  BY DEF QTyped
<1>c. ASSUME NEW c \in Entries
      PROVE  /\ [c EXCEPT ![v] = Mount(c[v])] \in Entries /\ [c EXCEPT ![v] = Fetch(c[v])] \in Entries
             /\ [c EXCEPT ![v] = Fail(c[v])] \in Entries /\ [c EXCEPT ![v] = Answer(c[v])] \in Entries
             /\ \A used : [c EXCEPT ![v] = Invalidate(c[v], used)] \in Entries
             /\ [c EXCEPT ![v] = Serve(c[v], Latest)] \in Entries
             /\ [c EXCEPT ![v] = c[v]] \in Entries
  BY <1>b, CacheKept
<1> HIDE DEF Entries
<1>1. ASSUME NEW to, GoToPage(v, to) PROVE qList' \in Entries /\ qQuote' \in Entries /\ qTrack' \in Entries
  BY <1>a, <1>c, <1>1 DEF GoToPage
<1>2. CASE HandleView(v) \/ HandleTrack(v)
  BY <1>1, <1>2 DEF HandleView, HandleTrack, Entries
<1>3. ASSUME NEW to, GoBackTo(v, to) PROVE qList' \in Entries /\ qQuote' \in Entries /\ qTrack' \in Entries
  BY <1>a, <1>c, <1>3 DEF GoBackTo
<1>4. CASE QServe(v)
  BY <1>a, <1>c, <1>4 DEF QServe, Entries
<1>5. CASE QAnswer(v)
  BY <1>a, <1>c, <1>5 DEF QAnswer, Entries
<1>6. CASE QFetchFails(v)
  BY <1>a, <1>c, <1>6 DEF QFetchFails, Entries
<1>7. CASE QRefetch(v)
  BY <1>a, <1>c, <1>7 DEF QRefetch, Entries
<1>8. CASE TrackingPolls(v)
  BY <1>a, <1>c, <1>8 DEF TrackingPolls, Entries
<1>9. CASE QuoteAnswered(v)
  BY <1>a, <1>c, <1>9 DEF QuoteAnswered, Entries
<1>10. CASE UpdateAnswered(v)
  BY <1>a, <1>c, <1>10 DEF UpdateAnswered, Entries
<1> QED BY <1>2, <1>3, <1>4, <1>5, <1>6, <1>7, <1>8, <1>9, <1>10 DEF Entries

\* A request is asked for, ends or is followed by another.
LEMMA CallsTyped ==
  ASSUME QInv, QTyped, QNext
  PROVE  \A w \in QViewers : CallTyped(qCall'[w])
<1> DEFINE Typed == \A w \in QViewers : CallTyped(qCall'[w])
<1>1. ASSUME UNCHANGED qCall PROVE Typed
  BY <1>1 DEF QTyped
<1>2. ASSUME NEW v \in QViewers, NEW op, NEW to, NEW entry, Ask(v, op, to, entry),
             op # "none", op = "track" => to \in 1 .. QLastStage
      PROVE  Typed
  <2> DEFINE call == [op |-> op, to |-> to, st |-> "asked", ver |-> entry.data]
  <2>1. CallTyped(call)
    BY <1>2 DEF CallTyped
  <2>2. qCall' = [qCall EXCEPT ![v] = call]
    BY <1>2 DEF Ask
  <2> HIDE DEF call
  <2> QED BY <2>1, <2>2, CallsKept
<1>3. ASSUME NEW v \in QViewers, QCommit(v) PROVE Typed
  <2> DEFINE call == [qCall[v] EXCEPT !.st = "done", !.ver = Latest + 1]
  <2>1. qCall[v] \in CallShape /\ qCall \in [QViewers -> CallShape]
    BY DEF QInv
  <2>2. CallTyped(call)
    <3>1. CallTyped(qCall[v]) /\ qCall[v].st = "asked"
      BY <1>3 DEF QTyped, QCommit
    <3> QED BY <2>1, <3>1 DEF CallShape, CallTyped
  <2>3. qCall' = [qCall EXCEPT ![v] = call]
    BY <1>3, <2>1 DEF QCommit
  <2> HIDE DEF call
  <2> QED BY <2>2, <2>3, CallsKept DEF QTyped
<1>4. ASSUME NEW v \in QViewers, qCall' = [qCall EXCEPT ![v] = NoCall] PROVE Typed
  BY <1>4, CallsKept DEF NoCall, CallTyped
<1>5. ASSUME NEW v \in QViewers, Finalized(v) PROVE Typed
  <2>1. CallTyped([NoCall EXCEPT !.op = "send", !.st = "asked"])
    BY DEF NoCall, CallTyped
  <2> QED BY <1>5, <2>1, CallsKept DEF Finalized
<1>6. PICK v \in QViewers :
        \/ HandleView(v) \/ HandleTrack(v) \/ GoBackTo(v, "quotes") \/ GoBackTo(v, "orders")
        \/ QServe(v) \/ QAnswer(v) \/ QFetchFails(v) \/ QRefetch(v) \/ TrackingPolls(v)
        \/ AcceptMutation(v) \/ SetShowRejectConfirm(v) \/ RejectMutation(v) \/ SendMutation(v)
        \/ \E to \in 1 .. QLastStage : TrackingStatusUpdatePanel(v, to)
        \/ QCommit(v) \/ QRefuse(v) \/ QLose(v) \/ Finalized(v)
        \/ QuoteAnswered(v) \/ UpdateAnswered(v)
  BY DEF QNext
<1>7. CASE HandleView(v) \/ HandleTrack(v) \/ GoBackTo(v, "quotes") \/ GoBackTo(v, "orders")
  BY <1>1, <1>7 DEF HandleView, HandleTrack, GoToPage, GoBackTo
<1>8. CASE QServe(v) \/ QAnswer(v) \/ QFetchFails(v) \/ QRefetch(v) \/ TrackingPolls(v)
  BY <1>1, <1>8 DEF QServe, QAnswer, QFetchFails, QRefetch, TrackingPolls
<1>9. CASE AcceptMutation(v) \/ RejectMutation(v) \/ SendMutation(v)
  BY <1>2, <1>9 DEF AcceptMutation, RejectMutation, SendMutation
<1>10. CASE SetShowRejectConfirm(v)
  BY <1>1, <1>10 DEF SetShowRejectConfirm
<1>11. CASE \E to \in 1 .. QLastStage : TrackingStatusUpdatePanel(v, to)
  BY <1>2, <1>11 DEF TrackingStatusUpdatePanel
<1>12. CASE QRefuse(v) \/ QLose(v) \/ QuoteAnswered(v) \/ UpdateAnswered(v)
  BY <1>4, <1>12 DEF QRefuse, QLose, QuoteAnswered, UpdateAnswered
<1>13. CASE QCommit(v) \/ Finalized(v)
  BY <1>3, <1>5, <1>13
<1> QED BY <1>6, <1>7, <1>8, <1>9, <1>10, <1>11, <1>12, <1>13

\* The page a browser is on, and whether it asks to confirm.
LEMMA PagesTyped ==
  ASSUME QTyped, QNext
  PROVE  qAt' \in [QViewers -> QPages] /\ qConfirm' \in [QViewers -> BOOLEAN]
<1>a. qAt \in [QViewers -> QPages] /\ qConfirm \in [QViewers -> BOOLEAN]
  BY DEF QTyped
<1>1. ASSUME NEW v \in QViewers, NEW b \in BOOLEAN PROVE [qConfirm EXCEPT ![v] = b] \in [QViewers -> BOOLEAN]
  BY <1>a
<1>2. ASSUME NEW v \in QViewers, NEW to \in QPages, GoToPage(v, to) \/ GoBackTo(v, to)
      PROVE  qAt' \in [QViewers -> QPages] /\ qConfirm' \in [QViewers -> BOOLEAN]
  BY <1>a, <1>2 DEF GoToPage, GoBackTo
<1>3. PICK v \in QViewers :
        \/ HandleView(v) \/ HandleTrack(v) \/ GoBackTo(v, "quotes") \/ GoBackTo(v, "orders")
        \/ QServe(v) \/ QAnswer(v) \/ QFetchFails(v) \/ QRefetch(v) \/ TrackingPolls(v)
        \/ AcceptMutation(v) \/ SetShowRejectConfirm(v) \/ RejectMutation(v) \/ SendMutation(v)
        \/ \E to \in 1 .. QLastStage : TrackingStatusUpdatePanel(v, to)
        \/ QCommit(v) \/ QRefuse(v) \/ QLose(v) \/ Finalized(v)
        \/ QuoteAnswered(v) \/ UpdateAnswered(v)
  BY DEF QNext
<1>4. CASE HandleView(v) \/ HandleTrack(v) \/ GoBackTo(v, "quotes") \/ GoBackTo(v, "orders")
  <2>1. {"quotes", "orders", "quote", "tracking"} = QPages
    BY DEF QPages
  <2> QED BY <1>2, <1>4, <2>1 DEF HandleView, HandleTrack
<1>5. CASE QServe(v) \/ QAnswer(v) \/ QFetchFails(v) \/ QRefetch(v) \/ TrackingPolls(v)
  BY <1>a, <1>5 DEF QServe, QAnswer, QFetchFails, QRefetch, TrackingPolls
<1>6. CASE AcceptMutation(v) \/ RejectMutation(v) \/ SendMutation(v)
           \/ \E to \in 1 .. QLastStage : TrackingStatusUpdatePanel(v, to)
  BY <1>a, <1>6 DEF AcceptMutation, RejectMutation, SendMutation, TrackingStatusUpdatePanel, Ask
<1>7. CASE SetShowRejectConfirm(v)
  <2>1. (~qConfirm[v]) \in BOOLEAN
    OBVIOUS
  <2>2. [qConfirm EXCEPT ![v] = ~qConfirm[v]] \in [QViewers -> BOOLEAN]
    BY <1>1, <2>1
  <2> QED BY <1>a, <1>7, <2>2 DEF SetShowRejectConfirm
<1>8. CASE QCommit(v) \/ QRefuse(v) \/ QLose(v) \/ Finalized(v) \/ UpdateAnswered(v)
  BY <1>a, <1>8 DEF QCommit, QRefuse, QLose, Finalized, UpdateAnswered
<1>9. CASE QuoteAnswered(v)
  <2>1. (qConfirm[v] /\ qCall[v].op # "reject") \in BOOLEAN
    OBVIOUS
  <2>2. [qConfirm EXCEPT ![v] = qConfirm[v] /\ qCall[v].op # "reject"] \in [QViewers -> BOOLEAN]
    BY <1>1, <2>1
  <2> QED BY <1>a, <1>9, <2>2 DEF QuoteAnswered
<1> QED BY <1>3, <1>4, <1>5, <1>6, <1>7, <1>8, <1>9

\* The write puts a row of the quotation into the log.
LEMMA CommitTyped ==
  ASSUME QInv, QTyped, NEW v \in QViewers, QCommit(v)
  PROVE  /\ Latest' = Latest + 1
         /\ \A i \in 1 .. Latest' : qLog'[i] \in QRows
         /\ qList' \in [QViewers -> EntryType(1 .. Latest')]
         /\ qQuote' \in [QViewers -> EntryType(1 .. Latest')]
         /\ qTrack' \in [QViewers -> EntryType(1 .. Latest')]
<1> DEFINE new == Written(qCall[v], Now)
           call == qCall[v]
<1>1. Now \in QRows /\ Latest \in Nat
  BY DEF QTyped, Now
<1>2. new \in QRows
  <2>1. ASSUME NEW row \in QRows
        PROVE  /\ [row EXCEPT !.status = "rejected"] \in QRows
               /\ [row EXCEPT !.status = "finalized"] \in QRows
               /\ [row EXCEPT !.status = "sent"] \in QRows
               /\ [status |-> "accepted", stage |-> IF row.stage = 0 THEN 1 ELSE row.stage] \in QRows
               /\ \A to \in 1 .. QLastStage : [row EXCEPT !.stage = to] \in QRows
    BY QAssumption DEF QRows
  <2>2. call.op \in Ops \ {"none"}
    BY DEF QCommit, QInv, QTyped, CallTyped, CallShape
  <2>3. call.op = "track" => call.to \in 1 .. QLastStage
    BY DEF QTyped, CallTyped
  <2> QED BY <1>1, <2>1, <2>2, <2>3 DEF Written, Ops
<1> HIDE DEF new
<1>3. /\ Latest' = Latest + 1
      /\ \A i \in 1 .. Latest : qLog'[i] = qLog[i]
      /\ qLog'[Latest + 1] = new
  <2>1. PICK S : qLog \in Seq(S)
    BY DEF QInv, Sequence
  <2>2. qLog \in Seq(S \cup {new}) /\ new \in S \cup {new}
    BY <2>1
  <2>3. qLog' = Append(qLog, new)
    BY DEF QCommit, new
  <2> QED BY <2>2, <2>3 DEF Latest
<1>4. \A i \in 1 .. Latest' : qLog'[i] \in QRows
  BY <1>1, <1>2, <1>3 DEF QTyped
<1>5. EntryType(1 .. Latest) \subseteq EntryType(1 .. Latest')
  <2>1. 1 .. Latest \subseteq 1 .. Latest'
    BY <1>1, <1>3
  <2> QED BY <2>1, EntryGrows
<1>6. UNCHANGED <<qList, qQuote, qTrack>>
  BY DEF QCommit, qCache
<1> QED BY <1>3, <1>4, <1>5, <1>6 DEF QTyped

LEMMA QTypedInitial == QInit => QTyped
<1> SUFFICES ASSUME QInit PROVE QTyped
  OBVIOUS
<1>1. Latest = 1 /\ qLog[1] \in QRows
  <2>1. PICK first \in {[status |-> "draft", stage |-> 0], [status |-> "sent", stage |-> 0],
                        [status |-> "accepted", stage |-> 1]} : qLog = <<first>>
    BY DEF QInit
  <2>2. first \in QRows
    BY QAssumption DEF QRows
  <2> QED BY <2>1, <2>2 DEF Latest
<1>2. NoEntry \in EntryType(1 .. Latest) /\ Mount(NoEntry) \in EntryType(1 .. Latest)
  BY NoEntryType, EntryKept
<1>3. CallTyped(NoCall)
  BY DEF NoCall, CallTyped
<1> QED BY <1>1, <1>2, <1>3 DEF QInit, QTyped, QPages

LEMMA QTypedStep == QInv /\ QTyped /\ [QNext]_qVars => QTyped'
<1> SUFFICES ASSUME QInv, QTyped, [QNext]_qVars PROVE QTyped'
  OBVIOUS
<1>1. CASE UNCHANGED qVars
  BY <1>1 DEF qVars, qCache, QTyped, Latest
<1>2. CASE QNext
  <2>1. PICK v \in QViewers :
        \/ HandleView(v) \/ HandleTrack(v) \/ GoBackTo(v, "quotes") \/ GoBackTo(v, "orders")
        \/ QServe(v) \/ QAnswer(v) \/ QFetchFails(v) \/ QRefetch(v) \/ TrackingPolls(v)
        \/ AcceptMutation(v) \/ SetShowRejectConfirm(v) \/ RejectMutation(v) \/ SendMutation(v)
        \/ \E to \in 1 .. QLastStage : TrackingStatusUpdatePanel(v, to)
        \/ QCommit(v) \/ QRefuse(v) \/ QLose(v) \/ Finalized(v)
        \/ QuoteAnswered(v) \/ UpdateAnswered(v)
    BY <1>2 DEF QNext
  <2>2. /\ qAt' \in [QViewers -> QPages] /\ qConfirm' \in [QViewers -> BOOLEAN]
        /\ \A w \in QViewers : CallTyped(qCall'[w])
    BY <1>2, PagesTyped, CallsTyped
  <2>3. CASE QCommit(v)
    <3>1. Latest' \in Nat \ {0}
      BY <2>3, CommitTyped DEF QTyped
    <3> QED BY <2>2, <2>3, <3>1, CommitTyped DEF QTyped
  <2>4. CASE ~QCommit(v)
    <3>1. UNCHANGED qLog
      BY <2>1, <2>4 DEF HandleView, HandleTrack, GoToPage, GoBackTo, QServe, QAnswer, QFetchFails,
         QRefetch, TrackingPolls, AcceptMutation, SetShowRejectConfirm, RejectMutation, SendMutation,
         TrackingStatusUpdatePanel, Ask, QRefuse, QLose, Finalized, QuoteAnswered, UpdateAnswered
    <3>2. Latest' = Latest
      BY <3>1 DEF Latest
    <3>3. /\ qList' \in [QViewers -> EntryType(1 .. Latest)]
          /\ qQuote' \in [QViewers -> EntryType(1 .. Latest)]
          /\ qTrack' \in [QViewers -> EntryType(1 .. Latest)]
      <4>1. CASE UNCHANGED qCache
        BY <4>1 DEF qCache, QTyped
      <4>2. CASE ~UNCHANGED qCache
        <5>1. \/ HandleView(v) \/ HandleTrack(v) \/ GoBackTo(v, "quotes") \/ GoBackTo(v, "orders")
              \/ QServe(v) \/ QAnswer(v) \/ QFetchFails(v) \/ QRefetch(v) \/ TrackingPolls(v)
              \/ QuoteAnswered(v) \/ UpdateAnswered(v)
          BY <2>1, <2>4, <4>2 DEF AcceptMutation, SetShowRejectConfirm, RejectMutation, SendMutation,
             TrackingStatusUpdatePanel, Ask, QRefuse, QLose, Finalized
        <5> QED BY <5>1, CachesTyped
      <4> QED BY <4>1, <4>2
    <3> QED BY <2>2, <3>1, <3>2, <3>3 DEF QTyped
  <2> QED BY <2>3, <2>4
<1> QED BY <1>1, <1>2

\* Every reachable state of a quotation's screens is well typed: the log keeps
\* to the statuses and stages there are, and no browser holds a version that
\* has not been written.
THEOREM QTypeCorrect == QSpec => []QTypeOK
<1>1. QInv /\ QTyped => QTypeOK
  <2> SUFFICES ASSUME QInv, QTyped PROVE QTypeOK
    OBVIOUS
  <2>1. ASSUME NEW v \in QViewers PROVE qOwn[v] \in [quote : 0 .. Latest, tracking : 0 .. Latest]
    <3>1. qOwn[v] \in OwnShape /\ qOwn[v].quote <= Latest /\ qOwn[v].tracking <= Latest
          /\ Latest \in Nat
      BY DEF QInv, QTyped
    <3> QED BY <3>1 DEF OwnShape
  <2> QED BY <2>1 DEF QTypeOK, QTyped, QPages, QRows
<1>2. QInv /\ QTyped /\ [QNext]_qVars => (QInv /\ QTyped)'
  BY QStep, QTypedStep
<1>3. QInit => QInv /\ QTyped
  BY QInitial, QTypedInitial
<1> QED BY <1>1, <1>2, <1>3, PTL DEF QSpec

-----------------------------------------------------------------------------
(* RequestScreens: the invariant *)

\* Nothing the supplier's list shows as fresh, or is about to, has the match
\* as pending.
NotPending(e) ==
  /\ e.fresh => e.data # Pending
  /\ e.fetch = "read" => e.got # Pending

Answered == {Responded, Declined, Expired}
ClaimShape == [to : {0, Responded, Declined}, st : {"none", "asked", "done"}]

\* OwnAnswerShown alone is not inductive: the match could become pending
\* again, or a list read before the answer arrive after it.
RInv ==
  /\ rMatches \in EntryType(0 .. 4) /\ rMatch \in 0 .. 4 /\ rClaim \in ClaimShape
  /\ rClaimed \in BOOLEAN
  /\ rClaim.st # "none" => rClaim.to \in {Responded, Declined}
  /\ rClaim.st = "done" => rMatch \in Answered
  /\ rClaimed => rMatch \in Answered /\ NotPending(rMatches)

-----------------------------------------------------------------------------
(* Lemmas *)

LEMMA NotPendingKept ==
  ASSUME NEW e \in EntryType(0 .. 4), NotPending(e)
  PROVE  /\ NotPending(Fetch(e)) /\ NotPending(Mount(e)) /\ NotPending(Fail(e))
         /\ e.fetch = "read" => NotPending(Answer(e))
         /\ \A used : NotPending(Invalidate(e, used))
         /\ \A n \in Answered : NotPending(Serve(e, n))
<1>1. NotPending(Fetch(e)) /\ NotPending(Fail(e))
  BY DEF EntryType, NotPending, Fetch, Fail
<1>2. NotPending(Mount(e))
  BY <1>1 DEF Mount
<1>3. e.fetch = "read" => NotPending(Answer(e))
  BY DEF EntryType, NotPending, Answer
<1>4. NotPending(Fetch(Age(e))) /\ NotPending(Age(e))
  BY DEF EntryType, NotPending, Fetch, Age
<1>5. \A used : NotPending(Invalidate(e, used))
  BY <1>4 DEF Invalidate
<1>6. \A n \in Answered : NotPending(Serve(e, n))
  BY DEF EntryType, NotPending, Serve, Answered, Pending, Responded, Declined, Expired
<1> QED BY <1>1, <1>2, <1>3, <1>5, <1>6

\* An invalidation starts afresh, whatever was under way.
LEMMA NotPendingAnew ==
  ASSUME NEW e \in EntryType(0 .. 4)
  PROVE  NotPending(Invalidate(e, TRUE))
BY DEF EntryType, NotPending, Invalidate, Fetch, Age

LEMMA RInitial == RInit => RInv
<1> SUFFICES ASSUME RInit PROVE RInv
  OBVIOUS
<1>1. NoEntry \in EntryType(0 .. 4) /\ Mount(NoEntry) \in EntryType(0 .. 4)
  BY NoEntryType, EntryKept
<1>2. rMatches \in EntryType(0 .. 4)
  BY <1>1 DEF RInit
<1>3. rMatch \in 0 .. 4
  BY DEF RInit, Pending
<1>4. rClaim \in ClaimShape /\ rClaim.st = "none"
  BY DEF RInit, NoClaim, ClaimShape
<1> QED BY <1>2, <1>3, <1>4 DEF RInit, RInv

\* The steps that leave the match, the claims and the supplier's list alone.
LEMMA RElsewhere ==
  ASSUME RInv, UNCHANGED <<rMatch, rMatches, rClaim, rClaimed>>
  PROVE  RInv'
BY DEF RInv

\* The supplier's list changes, and not to a pending match.
LEMMA RListed ==
  ASSUME RInv, NEW e \in EntryType(0 .. 4), NotPending(rMatches) /\ rMatch \in Answered => NotPending(e),
         rMatches' = e, UNCHANGED <<rMatch, rClaim, rClaimed>>
  PROVE  RInv'
BY DEF RInv

\* A match that is answered, expires or begins; never one that becomes pending
\* again.
LEMMA RMatchMoves ==
  ASSUME RInv, rMatch' \in 0 .. 4, rMatch \in Answered => rMatch' \in Answered,
         UNCHANGED <<rMatches, rClaim, rClaimed>>
  PROVE  RInv'
BY DEF RInv

-----------------------------------------------------------------------------
(* The invariant *)

LEMMA RStep == RInv /\ [RNext]_rVars => RInv'
<1> SUFFICES ASSUME RInv, [RNext]_rVars PROVE RInv'
  OBVIOUS
<1>a. rMatches \in EntryType(0 .. 4) /\ rMatch \in 0 .. 4 /\ rClaim \in ClaimShape
  BY DEF RInv
<1> USE DEF rVars, rServer, rClient, rSupplier
<1>1. CASE HandleChange \/ MarketplaceRfqModal \/ RHandleSubmit \/ NotCreated
  BY <1>1, RElsewhere DEF HandleChange, MarketplaceRfqModal, RHandleSubmit, NotCreated
<1>2. CASE Created
  BY <1>2, RElsewhere DEF Created
<1>3. CASE OpenList \/ ViewRequest \/ ListAges
  BY <1>3, RElsewhere DEF OpenList, ViewRequest, ListAges
<1>4. CASE MatchMutation \/ NotMatched
  BY <1>4, RElsewhere DEF MatchMutation, NotMatched
<1>5. CASE RMatched
  BY <1>5, <1>a, RMatchMoves
     DEF RMatched, Answered, Pending, Responded, Declined, Expired
<1>6. CASE DeadlinePasses
  BY <1>6, RElsewhere DEF DeadlinePasses
<1>7. CASE Sweep
  BY <1>7, <1>a, RMatchMoves DEF Sweep, Answered, Pending, Responded, Declined, Expired
<1>8. CASE SetActiveTab
  BY <1>8, RElsewhere DEF SetActiveTab
<1>9. ASSUME NEW to \in {Responded, Declined}, ClaimMutation(to) PROVE RInv'
  <2> DEFINE claim == [to |-> to, st |-> "asked"]
  <2>1. claim \in ClaimShape /\ claim.st # "done" /\ claim.to \in {Responded, Declined}
    BY DEF ClaimShape
  <2>2. rClaim' = claim /\ UNCHANGED <<rMatch, rMatches, rClaimed>>
    BY <1>9 DEF ClaimMutation
  <2> HIDE DEF claim
  <2> QED BY <2>1, <2>2 DEF RInv
<1>10. CASE ClaimMatch
  <2>1. rClaim.to \in {0, Responded, Declined} /\ rMatch = Pending
    BY <1>10, <1>a DEF ClaimMatch, ClaimShape
  <2>2. ~rClaimed
    BY <2>1 DEF RInv, Answered, Pending, Responded, Declined, Expired
  <2>3. rClaim.to \in {Responded, Declined}
    BY <1>10 DEF ClaimMatch, RInv
  <2>4. rClaim' \in ClaimShape /\ rClaim'.to = rClaim.to
    BY <1>10, <1>a DEF ClaimMatch, ClaimShape
  <2>5. rMatch' \in Answered /\ rMatch' \in 0 .. 4
    BY <1>10, <2>3 DEF ClaimMatch, Answered, Responded, Declined
  <2>6. rMatches' = rMatches /\ rClaimed' = rClaimed
    BY <1>10 DEF ClaimMatch
  <2> QED BY <2>2, <2>3, <2>4, <2>5, <2>6 DEF RInv
<1>11. CASE ClaimFails
  <2>1. NoClaim \in ClaimShape /\ NoClaim.st = "none"
    BY DEF NoClaim, ClaimShape
  <2> QED BY <1>11, <2>1 DEF ClaimFails, RInv
<1>12. CASE ClaimAnswered
  <2>1. NoClaim \in ClaimShape /\ NoClaim.st = "none"
    BY DEF NoClaim, ClaimShape
  <2>2. rMatch \in Answered
    BY <1>12 DEF ClaimAnswered, RInv
  <2>3. rMatches' \in EntryType(0 .. 4)
    BY <1>12, <1>a, EntryKept DEF ClaimAnswered
  <2>4. InInbox => NotPending(rMatches')
    BY <1>12, <1>a, NotPendingAnew DEF ClaimAnswered
  <2> QED BY <1>12, <2>1, <2>2, <2>3, <2>4 DEF ClaimAnswered, RInv, InInbox
<1>13. CASE MatchesPoll
  BY <1>13, <1>a, EntryKept, NotPendingKept, RListed DEF MatchesPoll
<1>14. CASE HandleRefreshAll
  BY <1>14, <1>a, EntryKept, NotPendingKept, RListed DEF HandleRefreshAll
<1>15. CASE HandleQuote
  BY <1>15 DEF HandleQuote, RInv
<1>16. CASE OpenInbox
  BY <1>16, <1>a, EntryKept, NotPendingKept, RListed DEF OpenInbox
<1>17. CASE RGotClient
  BY <1>17, RElsewhere DEF RGotClient
<1>18. CASE RServeMatches
  <2>1. Serve(rMatches, rMatch) \in EntryType(0 .. 4)
    BY <1>a, ServedType
  <2> QED BY <1>18, <1>a, <2>1, NotPendingKept, RListed DEF RServeMatches
<1>19. CASE RGotMatches
  BY <1>19, <1>a, EntryKept, NotPendingKept, RListed DEF RGotMatches
<1>20. CASE RGotPool
  BY <1>20, RElsewhere DEF RGotPool
<1>21. CASE RFetchFails
  <2>1. rMatches' = Fail(rMatches) \/ rMatches' = rMatches
    BY <1>21 DEF RFetchFails
  <2>2. UNCHANGED <<rMatch, rClaim, rClaimed>>
    BY <1>21 DEF RFetchFails
  <2> QED BY <1>a, <2>1, <2>2, EntryKept, NotPendingKept, RListed, RElsewhere
<1>22. CASE UNCHANGED rVars
  BY <1>22, RElsewhere
<1> QED BY <1>1, <1>2, <1>3, <1>4, <1>5, <1>6, <1>7, <1>8, <1>9, <1>10, <1>11, <1>12, <1>13,
           <1>14, <1>15, <1>16, <1>17, <1>18, <1>19, <1>20, <1>21, <1>22 DEF RNext

-----------------------------------------------------------------------------

\* A supplier who has answered a match never finds it pending again in an
\* inbox that has settled, whichever poll was under way when he answered.
THEOREM AnswersStay == RSpec => []OwnAnswerShown
<1>1. RInv => OwnAnswerShown
  BY DEF RInv, NotPending, OwnAnswerShown, Settled
<1> QED BY RInitial, RStep, <1>1, PTL DEF RSpec

-----------------------------------------------------------------------------
(* RequestScreens: the types *)

\* The parts of RTypeOK: what is counted or named, the entries, the flags.
RNames ==
  /\ rAt \in {"new", "market", "list", "request", "away"}
  /\ rTab \in {"exclusive", "public", "builder", "away"}
  /\ rCreating \in {"none", "form", "modal"} /\ rModal \in {"closed", "open"}
REntries ==
  /\ rStatus \in 0 .. 2
  /\ rList \in EntryType(0 .. 2) /\ rRequest \in EntryType(0 .. 2) /\ rPool \in EntryType(0 .. 1)
RFlags ==
  /\ rLate \in BOOLEAN /\ rPublic \in BOOLEAN /\ rForm \in BOOLEAN /\ rDone \in BOOLEAN
  /\ rError \in BOOLEAN /\ rMatching \in BOOLEAN

LEMMA RNamesStep == RNames /\ [RNext]_rVars => RNames'
<1> SUFFICES ASSUME RNames, [RNext]_rVars PROVE RNames'
  OBVIOUS
<1> USE DEF rVars, rServer, rClient, rSupplier, RNames
<1>1. CASE HandleChange \/ MarketplaceRfqModal \/ RHandleSubmit \/ Created \/ NotCreated
  BY <1>1 DEF HandleChange, MarketplaceRfqModal, RHandleSubmit, Created, NotCreated
<1>2. CASE OpenList \/ ViewRequest \/ ListAges \/ MatchMutation \/ RMatched \/ NotMatched
  BY <1>2 DEF OpenList, ViewRequest, ListAges, MatchMutation, RMatched, NotMatched
<1>3. CASE DeadlinePasses \/ Sweep
  BY <1>3 DEF DeadlinePasses, Sweep
<1>4. CASE SetActiveTab \/ ClaimMutation(Responded) \/ ClaimMutation(Declined) \/ ClaimMatch
           \/ ClaimFails \/ ClaimAnswered
  BY <1>4 DEF SetActiveTab, ClaimMutation, ClaimMatch, ClaimFails, ClaimAnswered
<1>5. CASE MatchesPoll \/ HandleRefreshAll \/ HandleQuote \/ OpenInbox
  BY <1>5 DEF MatchesPoll, HandleRefreshAll, HandleQuote, OpenInbox
<1>6. CASE RGotClient \/ RServeMatches \/ RGotMatches \/ RGotPool \/ RFetchFails \/ UNCHANGED rVars
  BY <1>6 DEF RGotClient, RServeMatches, RGotMatches, RGotPool, RFetchFails
<1> QED BY <1>1, <1>2, <1>3, <1>4, <1>5, <1>6 DEF RNext

LEMMA REntriesStep == REntries /\ [RNext]_rVars => REntries'
<1> SUFFICES ASSUME REntries, [RNext]_rVars PROVE REntries'
  OBVIOUS
<1>a. /\ \A x \in EntryType(0 .. 2) : Fetch(x) \in EntryType(0 .. 2) /\ Mount(x) \in EntryType(0 .. 2)
         /\ Age(x) \in EntryType(0 .. 2) /\ Fail(x) \in EntryType(0 .. 2)
         /\ Answer(x) \in EntryType(0 .. 2)
         /\ \A used : Invalidate(x, used) \in EntryType(0 .. 2)
      /\ \A x \in EntryType(0 .. 1) : Fetch(x) \in EntryType(0 .. 1) /\ Mount(x) \in EntryType(0 .. 1)
         /\ Fail(x) \in EntryType(0 .. 1) /\ Answer(x) \in EntryType(0 .. 1)
         /\ \A used : Invalidate(x, used) \in EntryType(0 .. 1)
  BY EntryKept
<1>b. /\ \A n \in 0 .. 2 : \A x \in EntryType(0 .. 2) : Serve(x, n) \in EntryType(0 .. 2)
      /\ \A n \in 0 .. 1 : \A x \in EntryType(0 .. 1) : Serve(x, n) \in EntryType(0 .. 1)
  BY ServedType
<1> USE DEF rVars, rServer, rClient, rSupplier, REntries
<1>1. CASE HandleChange \/ MarketplaceRfqModal \/ RHandleSubmit \/ NotCreated
  BY <1>1 DEF HandleChange, MarketplaceRfqModal, RHandleSubmit, NotCreated
<1>2. CASE Created
  BY <1>2, <1>a DEF Created
<1>3. CASE OpenList \/ ViewRequest \/ ListAges
  BY <1>3, <1>a DEF OpenList, ViewRequest, ListAges
<1>4. CASE MatchMutation \/ RMatched \/ NotMatched
  BY <1>4, <1>a DEF MatchMutation, RMatched, NotMatched
<1>5. CASE DeadlinePasses \/ Sweep
  BY <1>5 DEF DeadlinePasses, Sweep
<1>6. CASE SetActiveTab \/ ClaimMutation(Responded) \/ ClaimMutation(Declined) \/ ClaimMatch
           \/ ClaimFails \/ ClaimAnswered
  BY <1>6 DEF SetActiveTab, ClaimMutation, ClaimMatch, ClaimFails, ClaimAnswered
<1>7. CASE MatchesPoll \/ HandleRefreshAll \/ HandleQuote \/ OpenInbox
  BY <1>7, <1>a DEF MatchesPoll, HandleRefreshAll, HandleQuote, OpenInbox
<1>8. CASE RGotClient
  BY <1>8, <1>a, <1>b DEF RGotClient
<1>9. CASE RGotPool
  BY <1>9, <1>a, <1>b DEF RGotPool
<1>10. CASE RServeMatches \/ RGotMatches \/ UNCHANGED rVars
  BY <1>10 DEF RServeMatches, RGotMatches
<1>11. CASE RFetchFails
  BY <1>11, <1>a DEF RFetchFails
<1> QED BY <1>1, <1>2, <1>3, <1>4, <1>5, <1>6, <1>7, <1>8, <1>9, <1>10, <1>11 DEF RNext

LEMMA RFlagsStep == RFlags /\ [RNext]_rVars => RFlags'
<1> SUFFICES ASSUME RFlags, [RNext]_rVars PROVE RFlags'
  OBVIOUS
<1> USE DEF rVars, rServer, rClient, rSupplier
<1>1. CASE HandleChange
  <2>1. rForm' \in BOOLEAN
    BY <1>1 DEF HandleChange
  <2> QED BY <1>1, <2>1 DEF HandleChange, RFlags
<1>2. CASE MarketplaceRfqModal
  BY <1>2 DEF MarketplaceRfqModal, RFlags
<1>3. CASE RHandleSubmit
  <2>1. rError' \in BOOLEAN
    BY <1>3 DEF RHandleSubmit
  <2> QED BY <1>3, <2>1 DEF RHandleSubmit, RFlags
<1>4. CASE Created
  <2>1. rDone' \in BOOLEAN
    BY <1>4 DEF Created, RFlags
  <2> QED BY <1>4, <2>1 DEF Created, RFlags
<1>5. CASE NotCreated \/ OpenList \/ ViewRequest \/ ListAges
  BY <1>5 DEF NotCreated, OpenList, ViewRequest, ListAges, RFlags
<1>6. CASE MatchMutation \/ RMatched \/ NotMatched \/ DeadlinePasses \/ Sweep
  BY <1>6 DEF MatchMutation, RMatched, NotMatched, DeadlinePasses, Sweep, RFlags
<1>7. CASE SetActiveTab \/ ClaimMutation(Responded) \/ ClaimMutation(Declined) \/ ClaimMatch
           \/ ClaimFails \/ ClaimAnswered
  BY <1>7 DEF SetActiveTab, ClaimMutation, ClaimMatch, ClaimFails, ClaimAnswered, RFlags
<1>8. CASE MatchesPoll \/ HandleRefreshAll \/ HandleQuote \/ OpenInbox
  BY <1>8 DEF MatchesPoll, HandleRefreshAll, HandleQuote, OpenInbox, RFlags
<1>9. CASE RGotClient \/ RServeMatches \/ RGotMatches \/ RGotPool \/ RFetchFails \/ UNCHANGED rVars
  BY <1>9 DEF RGotClient, RServeMatches, RGotMatches, RGotPool, RFetchFails, RFlags
<1> QED BY <1>1, <1>2, <1>3, <1>4, <1>5, <1>6, <1>7, <1>8, <1>9 DEF RNext

LEMMA RTypedInitial == RInit => RNames /\ REntries /\ RFlags
<1> SUFFICES ASSUME RInit PROVE RNames /\ REntries /\ RFlags
  OBVIOUS
<1>1. /\ \A V : NoEntry \in EntryType(V) /\ Mount(NoEntry) \in EntryType(V)
      /\ Answer(Serve(NoEntry, 0)) \in EntryType(0 .. 2)
  <2>1. \A V : NoEntry \in EntryType(V)
    BY NoEntryType
  <2>2. Serve(NoEntry, 0) \in EntryType(0 .. 2)
    BY <2>1, ServedType
  <2> QED BY <2>1, <2>2, EntryKept
<1>2. REntries
  BY <1>1 DEF RInit, REntries
<1> QED BY <1>2 DEF RInit, RNames, RFlags

\* Every reachable state of a request's screens is well typed, however the
\* form, the list, the request's page and the inbox follow each other.
THEOREM RTypeCorrect == RSpec => []RTypeOK
<1>1. RInv /\ RNames /\ REntries /\ RFlags => RTypeOK
  <2>1. Len(RfqStates) = 2 /\ Len(MatchStates) = 4
    BY DEF RfqStates, MatchStates
  <2> QED BY <2>1 DEF RInv, RNames, REntries, RFlags, RTypeOK
<1> QED BY RInitial, RTypedInitial, RStep, RNamesStep, REntriesStep, RFlagsStep, <1>1, PTL DEF RSpec

-----------------------------------------------------------------------------
(* DocumentScreen: the types *)

\* DocTypeOK alone is not inductive: the bound on the extractions is the guard
\* of the button, not of the answer to the request it sends.
DocInv ==
  /\ DocTypeOK
  /\ docJobs <= docRuns
  /\ docCall = "upload" => docAt = "upload"
  /\ docAt = "upload" => docRuns = 0
  /\ docCall = "process" => docAt = "document" /\ docRuns < DocMaxJobs

\* The number of each status.
LEMMA DocCodes ==
  ASSUME NEW status \in {"none"} \cup {DocStatuses[i] : i \in 1 .. 3}
  PROVE  DocCode(status) \in 0 .. 3
<1>1. \E i \in 0 .. 3 : IF i = 0 THEN status \notin {DocStatuses[j] : j \in 1 .. 3}
                                  ELSE DocStatuses[i] = status
  <2>1. CASE status \in {DocStatuses[j] : j \in 1 .. 3}
    <3>1. PICK j \in 1 .. 3 : status = DocStatuses[j]
      BY <2>1
    <3>2. j \in 0 .. 3 /\ j # 0
      OBVIOUS
    <3> QED BY <3>1, <3>2
  <2>2. CASE status \notin {DocStatuses[j] : j \in 1 .. 3}
    BY <2>2
  <2> QED BY <2>1, <2>2
<1> QED BY <1>1 DEF DocCode

LEMMA ThreeStatuses ==
  {DocStatuses[i] : i \in 1 .. 3} = {"uploaded", "extracted", "failed"}
<1>1. DocStatuses[1] = "uploaded" /\ DocStatuses[2] = "extracted" /\ DocStatuses[3] = "failed"
  BY DEF DocStatuses
<1>2. 1 .. 3 = {1, 2, 3}
  OBVIOUS
<1> QED BY <1>1, <1>2

LEMMA DocInitial == DocInit => DocInv
<1> SUFFICES ASSUME DocInit PROVE DocInv
  OBVIOUS
<1>1. NoEntry \in EntryType(0 .. 3)
  BY NoEntryType
<1>2. 0 \in 0 .. DocMaxJobs /\ 0 \in 0 .. DocMaxFaults
  BY DocBounds
<1>3. docEntry \in EntryType(0 .. 3) /\ docPoll \in EntryType(0 .. 3) /\ docItems \in EntryType(0 .. 3)
  BY <1>1 DEF DocInit
<1>4. DocTypeOK
  BY <1>2, <1>3 DEF DocInit, DocTypeOK
<1> QED BY <1>4, DocBounds DEF DocInit, DocInv

LEMMA DocStep == DocInv /\ [DocNext]_docVars => DocInv'
<1> SUFFICES ASSUME DocInv, [DocNext]_docVars PROVE DocInv'
  OBVIOUS
<1>a. \A e \in EntryType(0 .. 3) :
        /\ Fetch(e) \in EntryType(0 .. 3) /\ Mount(e) \in EntryType(0 .. 3)
        /\ Fail(e) \in EntryType(0 .. 3) /\ DocAnswer(e) \in EntryType(0 .. 3)
        /\ Serve(e, DocCode(docStatus)) \in EntryType(0 .. 3)
        /\ \A used : Invalidate(e, used) \in EntryType(0 .. 3)
  <2>1. DocCode(docStatus) \in 0 .. 3
    BY DocCodes DEF DocInv, DocTypeOK
  <2> QED BY <2>1, EntryKept, ServedType DEF DocAnswer
<1>b. /\ docJobs \in Nat /\ docRuns \in Nat /\ docFaults \in Nat /\ DocMaxJobs \in Nat \ {0}
      /\ docRuns <= DocMaxJobs
  BY DocBounds DEF DocInv, DocTypeOK
<1> USE ThreeStatuses, <1>b DEF docVars, docServer, docCache, docPage, DocInv, DocTypeOK
<1>1. CASE DocStart
  BY <1>1 DEF DocStart
<1>2. CASE DocFinish
  BY <1>2 DEF DocFinish
<1>3. CASE DocChoose
  <2>1. docFile' \in BOOLEAN
    BY <1>3 DEF DocChoose
  <2> QED BY <1>3, <2>1 DEF DocChoose
<1>4. CASE DocUpload
  BY <1>4 DEF DocUpload
<1>5. CASE DocUploaded
  BY <1>5, <1>a DEF DocUploaded
<1>6. CASE DocServe \/ DocServeStatus
  BY <1>6, <1>a DEF DocServe, DocServeStatus
<1>7. CASE DocGotDocument \/ DocGotItems
  BY <1>7, <1>a DEF DocGotDocument, DocGotItems
<1>8. CASE DocGotStatus
  BY <1>8, <1>a DEF DocGotStatus, UseItems
<1>9. CASE DocFetchFails
  BY <1>9, <1>a, DocBounds DEF DocFetchFails, DocFault
<1>10. CASE HandleProcess
  <2>1. docAt = "document" /\ docRuns < DocMaxJobs
    BY <1>10 DEF HandleProcess, DocumentDetailPage
  <2> QED BY <1>10, <2>1 DEF HandleProcess
<1>11. CASE Processed
  <2>1. docPoll' \in EntryType(0 .. 3)
    BY <1>11, <1>a DEF Processed
  <2>2. /\ docStatus' \in {"none"} \cup {DocStatuses[i] : i \in 1 .. 3}
        /\ docRuns' = docRuns + 1 /\ docRuns' <= DocMaxJobs
        /\ docJobs' \in 0 .. DocMaxJobs /\ docJobs' <= docRuns'
    BY <1>11 DEF Processed
  <2>3. /\ docCall' = "none" /\ docBusy' = FALSE
        /\ UNCHANGED <<docWork, docEntry, docItems, docAt, docFile, docAsked, docFaults>>
    BY <1>11 DEF Processed
  <2>4. docAt # "upload"
    BY <1>11 DEF Processed
  <2>5. docRuns' \in 0 .. DocMaxJobs
    BY <2>2
  <2>6. docWork' \in BOOLEAN /\ docFile' \in BOOLEAN /\ docAsked' \in BOOLEAN
    BY <2>3
  <2>7. DocTypeOK'
    BY <2>1, <2>2, <2>3, <2>5, <2>6
  <2> QED BY <2>2, <2>3, <2>4, <2>7
<1>12. CASE AskDelete
  <2>1. docAsked' \in BOOLEAN
    BY <1>12 DEF AskDelete
  <2> QED BY <1>12, <2>1 DEF AskDelete
<1>13. CASE ConfirmDialog
  BY <1>13 DEF ConfirmDialog
<1>14. CASE Deleted
  BY <1>14 DEF Deleted
<1>15. CASE DocCallFails
  <2>1. docFaults' \in 0 .. DocMaxFaults
    BY <1>15, DocBounds DEF DocCallFails, DocFault
  <2> QED BY <1>15, <2>1 DEF DocCallFails
<1>16. CASE UNCHANGED docVars
  BY <1>16
<1> QED BY <1>1, <1>2, <1>3, <1>4, <1>5, <1>6, <1>7, <1>8, <1>9, <1>10, <1>11, <1>12, <1>13,
           <1>14, <1>15, <1>16 DEF DocNext

\* Every reachable state of a document's page is well typed, whatever requests
\* fail and however often the extraction is asked for.
THEOREM DocTypeCorrect == DocSpec => []DocTypeOK
<1>1. DocInv => DocTypeOK
  BY DEF DocInv
<1> QED BY DocInitial, DocStep, <1>1, PTL DEF DocSpec

-----------------------------------------------------------------------------
(* PricingCache: the types *)

RulesGot == {Nothing} \cup 0 .. CMaxRules
Rates == {Nothing, FromRules} \cup 0 .. CHorizon

\* CTypeOK needs that what a request carries may be cached, and that a change
\* under way is one within the bound.
CInv ==
  /\ CTypeOK
  /\ cGot \in [CWorkers -> [rules : RulesGot, rate : Rates]]
  /\ cAdmin # "idle" => cDbRules < CMaxRules

LEMMA CInitial == CInit => CInv
<1> SUFFICES ASSUME CInit PROVE CInv
  OBVIOUS
<1>1. NoRate \in [rate : Rates, till : 0 .. CHorizon + CTtl]
  BY CAssumption DEF NoRate, Rates
<1>2. cGot \in [CWorkers -> [rules : RulesGot, rate : Rates]]
  BY DEF CInit, RulesGot, Rates
<1>3. /\ cDay \in 0 .. CHorizon /\ cDbRules \in 0 .. CMaxRules /\ cCrashes \in 0 .. CMaxCrashes
  BY CAssumption DEF CInit
<1>4. CTypeOK
  BY <1>1, <1>3 DEF CInit, CTypeOK, CSteps, Rates
<1> QED BY <1>2, <1>4 DEF CInit, CInv

\* A request goes on: nothing but where it is has changed, and what it has got.
LEMMA GotKept ==
  ASSUME CInv, NEW w \in CWorkers
  PROVE  /\ \A r \in RulesGot : [cGot EXCEPT ![w].rules = r] \in [CWorkers -> [rules : RulesGot, rate : Rates]]
         /\ \A r \in Rates : [cGot EXCEPT ![w].rate = r] \in [CWorkers -> [rules : RulesGot, rate : Rates]]
         /\ [cGot EXCEPT ![w] = [rules |-> Nothing, rate |-> Nothing]]
              \in [CWorkers -> [rules : RulesGot, rate : Rates]]
         /\ \A step \in CSteps : [cPc EXCEPT ![w] = step] \in [CWorkers -> CSteps]
         /\ \A b \in BOOLEAN : [cHolds EXCEPT ![w] = b] \in [CWorkers -> BOOLEAN]
<1>1. \A g \in [rules : RulesGot, rate : Rates] :
        /\ \A r \in RulesGot : [g EXCEPT !.rules = r] \in [rules : RulesGot, rate : Rates]
        /\ \A r \in Rates : [g EXCEPT !.rate = r] \in [rules : RulesGot, rate : Rates]
  OBVIOUS
<1>2. [rules |-> Nothing, rate |-> Nothing] \in [rules : RulesGot, rate : Rates]
  BY DEF RulesGot, Rates
<1>3. cGot[w] \in [rules : RulesGot, rate : Rates]
  BY DEF CInv
<1> QED BY <1>1, <1>2, <1>3 DEF CInv, CTypeOK

\* A request's step: what it has got stays within bounds.
LEMMA RequestTyped ==
  ASSUME CInv, NEW w \in CWorkers, CalculatePrice(w) \/ CProceed(w) \/ Dies(w)
  PROVE  /\ cPc' \in [CWorkers -> CSteps] /\ cHolds' \in [CWorkers -> BOOLEAN]
         /\ cGot' \in [CWorkers -> [rules : RulesGot, rate : Rates]]
<1> DEFINE Typed == /\ cPc' \in [CWorkers -> CSteps] /\ cHolds' \in [CWorkers -> BOOLEAN]
                    /\ cGot' \in [CWorkers -> [rules : RulesGot, rate : Rates]]
<1>a. /\ cPc \in [CWorkers -> CSteps] /\ cHolds \in [CWorkers -> BOOLEAN]
      /\ cGot \in [CWorkers -> [rules : RulesGot, rate : Rates]]
  BY DEF CInv, CTypeOK
<1>b. /\ cRules \in RulesGot /\ cDbRules \in RulesGot /\ cRate.rate \in Rates
      /\ cDay \in Rates /\ FromRules \in Rates
  BY DEF CInv, CTypeOK, RulesGot, Rates
<1>1. ASSUME NEW miss \in CSteps, GetCachedRules(w, miss) PROVE Typed
  <2>1. "rate" \in CSteps
    BY DEF CSteps
  <2>2. cGot' = cGot \/ cGot' = [cGot EXCEPT ![w].rules = cRules]
    BY <1>1 DEF GetCachedRules
  <2>3. cGot' \in [CWorkers -> [rules : RulesGot, rate : Rates]]
    BY <1>a, <1>b, <2>2, GotKept
  <2>4. Goto(w, "rate") \/ Goto(w, miss)
    BY <1>1 DEF GetCachedRules
  <2>5. cPc' \in [CWorkers -> CSteps]
    BY <1>1, <2>1, <2>4, GotKept DEF Goto
  <2> QED BY <1>1, <1>a, <2>3, <2>5 DEF GetCachedRules
<1>2. ASSUME NEW miss \in CSteps, GetCachedRate(w, miss) PROVE Typed
  <2>1. "use" \in CSteps
    BY DEF CSteps
  <2>2. cGot' = cGot \/ cGot' = [cGot EXCEPT ![w].rate = cRate.rate]
    BY <1>2 DEF GetCachedRate
  <2>3. cGot' \in [CWorkers -> [rules : RulesGot, rate : Rates]]
    BY <1>a, <1>b, <2>2, GotKept
  <2>4. Goto(w, "use") \/ Goto(w, miss)
    BY <1>2 DEF GetCachedRate
  <2>5. cPc' \in [CWorkers -> CSteps]
    BY <1>2, <2>1, <2>4, GotKept DEF Goto
  <2> QED BY <1>2, <1>a, <2>3, <2>5 DEF GetCachedRate
<1>3. CASE CalculatePrice(w) \/ WaitRules(w)
  BY <1>1, <1>3 DEF CalculatePrice, WaitRules, AfterWaiting, CSteps
<1>4. CASE GetExchangeRate(w) \/ WaitRate(w)
  BY <1>2, <1>4 DEF GetExchangeRate, WaitRate, AfterWaiting, CSteps
<1>5. ASSUME NEW step \in CSteps, Goto(w, step) PROVE cPc' \in [CWorkers -> CSteps]
  BY <1>5, GotKept DEF Goto
<1>6. ASSUME NEW b \in BOOLEAN, cHolds' = [cHolds EXCEPT ![w] = b] PROVE cHolds' \in [CWorkers -> BOOLEAN]
  BY <1>6, GotKept
<1>7. CASE LockRules(w) \/ LockRate(w)
  <2>1. (~cRulesLock) \in BOOLEAN /\ (~cRateLock) \in BOOLEAN
    OBVIOUS
  <2>2. cHolds' \in [CWorkers -> BOOLEAN]
    BY <1>6, <1>7, <2>1 DEF LockRules, LockRate
  <2>3. \E step \in CSteps : Goto(w, step)
    BY <1>7 DEF LockRules, LockRate, CSteps
  <2>4. UNCHANGED cGot
    BY <1>7 DEF LockRules, LockRate
  <2> QED BY <1>5, <1>a, <2>2, <2>3, <2>4
<1>8. CASE ReadRules(w)
  <2>1. "storeRules" \in CSteps
    BY DEF CSteps
  <2> QED BY <1>5, <1>8, <1>a, <1>b, <2>1, GotKept DEF ReadRules
<1>9. CASE FetchRate(w)
  <2>1. \E step \in CSteps : Goto(w, step)
    BY <1>9 DEF FetchRate, CSteps
  <2> QED BY <1>5, <1>9, <1>a, <1>b, <2>1, GotKept DEF FetchRate
<1>10. CASE StoreRules(w) \/ StoreRate(w)
  <2>1. \E step \in CSteps : Goto(w, step)
    BY <1>10 DEF StoreRules, StoreRate, CSteps
  <2> QED BY <1>5, <1>10, <1>a, <2>1 DEF StoreRules, StoreRate
<1>11. CASE UnlockRules(w) \/ UnlockRate(w)
  <2>1. "rate" \in CSteps /\ "use" \in CSteps /\ FALSE \in BOOLEAN
    BY DEF CSteps
  <2> QED BY <1>5, <1>6, <1>11, <1>a, <2>1 DEF UnlockRules, UnlockRate
<1>12. CASE UseRate(w) \/ Dies(w)
  <2>1. "idle" \in CSteps /\ FALSE \in BOOLEAN
    BY DEF CSteps
  <2>2. cGot' \in [CWorkers -> [rules : RulesGot, rate : Rates]]
    <3>1. cGot' = [cGot EXCEPT ![w] = [rules |-> Nothing, rate |-> Nothing]]
      BY <1>12 DEF UseRate, Dies
    <3> QED BY <3>1, GotKept
  <2> QED BY <1>5, <1>6, <1>12, <1>a, <2>1, <2>2 DEF UseRate, Dies
<1> QED BY <1>3, <1>4, <1>7, <1>8, <1>9, <1>10, <1>11, <1>12 DEF CProceed

\* What Redis and the database hold.
CShared ==
  /\ cDay \in 0 .. CHorizon /\ cDbRules \in 0 .. CMaxRules /\ cAdmin \in {"idle", "flushed", "invalidated"}
  /\ cRules \in {Nothing} \cup 1 .. CMaxRules
  /\ cRate \in [rate : Rates, till : 0 .. CHorizon + CTtl]
  /\ cApiUp \in BOOLEAN /\ cRulesLock \in BOOLEAN /\ cRateLock \in BOOLEAN
  /\ cCrashes \in 0 .. CMaxCrashes
  /\ cAdmin # "idle" => cDbRules < CMaxRules

LEMMA SharedTyped ==
  ASSUME CInv, CNext
  PROVE  CShared'
<1>a. CShared /\ CAssumption
  BY CAssumption DEF CInv, CTypeOK, CShared, Rates
<1>1. ASSUME NEW rate \in Rates, SetCachedExchangeRate(rate)
      PROVE  cRate' \in [rate : Rates, till : 0 .. CHorizon + CTtl]
  <2>1. cDay + CTtl \in 0 .. CHorizon + CTtl
    BY <1>a DEF CShared, CAssumption
  <2> QED BY <1>1, <2>1 DEF SetCachedExchangeRate
<1>2. ASSUME NEW w \in CWorkers, CalculatePrice(w) \/ CProceed(w) \/ Dies(w) PROVE CShared'
  <2>1. cGot[w].rules \in RulesGot /\ cGot[w].rate \in Rates
    BY DEF CInv
  <2>2. CASE \/ CalculatePrice(w) \/ WaitRules(w) \/ ReadRules(w)
             \/ GetExchangeRate(w) \/ WaitRate(w) \/ FetchRate(w)
    BY <1>a, <2>2 DEF CalculatePrice, WaitRules, ReadRules, GetExchangeRate, WaitRate, FetchRate,
       GetCachedRules, GetCachedRate, Rest, cRedis, CShared
  <2>3. CASE LockRules(w) \/ LockRate(w) \/ UnlockRules(w) \/ UnlockRate(w)
    BY <1>a, <2>3 DEF LockRules, LockRate, UnlockRules, UnlockRate, Rest, CShared
  <2>4. CASE StoreRules(w)
    <3>1. cRules' \in {Nothing} \cup 1 .. CMaxRules
      BY <1>a, <2>1, <2>4 DEF StoreRules, CShared, RulesGot
    <3> QED BY <1>a, <2>4, <3>1 DEF StoreRules, Rest, CShared
  <2>5. CASE StoreRate(w) \/ UseRate(w)
    BY <1>1, <1>a, <2>1, <2>5 DEF StoreRate, UseRate, Rest, CShared
  <2>6. CASE Dies(w)
    BY <1>a, <2>6 DEF Dies, cRedis, CShared, CAssumption
  <2> QED BY <1>2, <2>2, <2>3, <2>4, <2>5, <2>6 DEF CProceed
<1>3. CASE ChangeRule \/ InvalidateRulesCache
  BY <1>a, <1>3 DEF ChangeRule, InvalidateRulesCache, cRedis, CShared
<1>4. CASE CommitRule
  BY <1>a, <1>4 DEF CommitRule, cRedis, CShared, CAssumption
<1>5. CASE RefreshExchangeRates
  BY <1>1, <1>a, <1>5 DEF RefreshExchangeRates, CShared, Rates
<1>6. CASE RulesExpire \/ LockExpires
  BY <1>a, <1>6 DEF RulesExpire, LockExpires, CShared
<1>7. CASE NextDay
  BY <1>a, <1>7 DEF NextDay, cRedis, CShared, CAssumption
<1> QED BY <1>2, <1>3, <1>4, <1>5, <1>6, <1>7 DEF CNext

LEMMA CStep == CInv /\ [CNext]_cVars => CInv'
<1> SUFFICES ASSUME CInv, [CNext]_cVars PROVE CInv'
  OBVIOUS
<1>1. CASE UNCHANGED cVars
  BY <1>1 DEF cVars, cRedis, cRequest, CInv, CTypeOK
<1>2. CASE CNext
  <2>1. UNCHANGED cRequest \/ \E w \in CWorkers : CalculatePrice(w) \/ CProceed(w) \/ Dies(w)
    BY <1>2 DEF CNext, ChangeRule, InvalidateRulesCache, CommitRule, RefreshExchangeRates,
       RulesExpire, LockExpires, NextDay
  <2>2. /\ cPc' \in [CWorkers -> CSteps] /\ cHolds' \in [CWorkers -> BOOLEAN]
        /\ cGot' \in [CWorkers -> [rules : RulesGot, rate : Rates]]
    BY <2>1, RequestTyped DEF cRequest, CInv, CTypeOK
  <2> QED BY <1>2, <2>2, SharedTyped DEF CShared, CInv, CTypeOK, Rates
<1> QED BY <1>1, <1>2

\* Every reachable state of the caches is well typed: what is cached is a
\* version of the rules, or a rate, that there has been.
THEOREM CTypeCorrect == CSpec => []CTypeOK
<1>1. CInv => CTypeOK
  BY DEF CInv
<1> QED BY CInitial, CStep, <1>1, PTL DEF CSpec

=============================================================================
