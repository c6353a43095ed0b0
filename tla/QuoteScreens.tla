---------------------------- MODULE QuoteScreens ----------------------------
(***************************************************************************)
(* One quotation as the browsers of its client and of its supplier show    *)
(* it: the lists, the quotation's page with its answers and its sending,   *)
(* and the shipment's page.  The server's handlers are reduced to their    *)
(* guards and to the status and stage they write (QuotationLifecycle has   *)
(* the whole of them).                                                     *)
(***************************************************************************)
EXTENDS QueryCache, Sequences, FiniteSets

CONSTANTS QViewers,   \* browsers
          QClients,   \* those of clients; the others are agents or admins
          QLastStage, \* stages of the tracking pipeline
          QMaxWrites, \* bound: writes of the quotation
          QMaxFaults  \* bound: requests that fail, pages left

ASSUME QAssumption ==
  /\ QClients \subseteq QViewers
  /\ QLastStage \in Nat \ {0} /\ QMaxWrites \in Nat /\ QMaxFaults \in Nat

VARIABLES
  qLog,     \* server: the quotation after each write; a version is an index
  qAt,      \* browser: page it is on: "quotes", "orders", "quote", "tracking"
  qList,    \* browser cache: ["quotations"]
  qQuote,   \* browser cache: ["quotation", id]
  qTrack,   \* browser cache: ["tracking", id]
  qCall,    \* browser: the request of a mutation, and how far it is
  qConfirm, \* browser: showRejectConfirm
  qOwn,     \* browser: version written by the last action the page has seen answered
  qFaults   \* counter for QMaxFaults

qCache == <<qList, qQuote, qTrack>>
qVars == <<qLog, qAt, qCache, qCall, qConfirm, qOwn, qFaults>>

NoCall == [op |-> "none", to |-> 0, st |-> "none", ver |-> 0]
Untouched == [quote |-> 0, tracking |-> 0]
Latest == Len(qLog)
Now == qLog[Latest]

QInit ==
  /\ qLog \in {<<[status |-> "draft", stage |-> 0]>>, <<[status |-> "sent", stage |-> 0]>>,
               <<[status |-> "accepted", stage |-> 1]>>}
  /\ qAt = [v \in QViewers |-> "quotes"]
  /\ qList = [v \in QViewers |-> Mount(NoEntry)]
  /\ qQuote = [v \in QViewers |-> NoEntry] /\ qTrack = [v \in QViewers |-> NoEntry]
  /\ qCall = [v \in QViewers |-> NoCall]
  /\ qConfirm = [v \in QViewers |-> FALSE]
  /\ qOwn = [v \in QViewers |-> Untouched]
  /\ qFaults = 0

QFault == qFaults < QMaxFaults /\ qFaults' = qFaults + 1

\* The snapshot a page has of the quotation.
Seen(entry) == qLog[entry.data]

-----------------------------------------------------------------------------
(* Pages *)

\* Each page shows its data, or a spinner or an error in its place: a failed
\* fetch hides what an earlier one brought, except in the legacy list.
Usable(entry) == HasData(entry) /\ ~entry.failed
QuotationListPageDesktop(v) == qAt[v] = "quotes" /\ Usable(qList[v])
QuotationListPageMobile(v) == qAt[v] = "quotes" /\ Usable(qList[v])
LegacyQuotationList(v) == qAt[v] = "quotes" /\ HasData(qList[v])
OrdersListPage(v) == qAt[v] = "orders" /\ Usable(qList[v]) /\ Seen(qList[v]).status = "accepted"
QuotationDetailPage(v) == qAt[v] = "quote" /\ Usable(qQuote[v])
OrderTrackingPageDesktop(v) == qAt[v] = "tracking" /\ Usable(qQuote[v]) /\ Usable(qTrack[v])
OrderTrackingPageMobile(v) == OrderTrackingPageDesktop(v)

\* The page that mounts fetches what it uses and the cache has not fresh.
GoToPage(v, to) ==
  /\ qAt' = [qAt EXCEPT ![v] = to]
  /\ qList' = [qList EXCEPT ![v] = IF to \in {"quotes", "orders"} THEN Mount(@) ELSE @]
  /\ qQuote' = [qQuote EXCEPT ![v] = IF to \in {"quote", "tracking"} THEN Mount(@) ELSE @]
  /\ qTrack' = [qTrack EXCEPT ![v] = IF to = "tracking" THEN Mount(@) ELSE @]
  /\ qConfirm' = [qConfirm EXCEPT ![v] = FALSE]
  /\ qOwn' = [qOwn EXCEPT ![v] = Untouched]
  /\ UNCHANGED <<qLog, qCall, qFaults>>

HandleView(v) ==
  /\ \/ QuotationListPageDesktop(v) \/ QuotationListPageMobile(v) \/ LegacyQuotationList(v)
  /\ GoToPage(v, "quote")

\* The lists and the quotation's page lead to the shipment of an accepted
\* quotation.
HandleTrack(v) ==
  /\ \/ OrdersListPage(v)
     \/ QuotationListPageDesktop(v) /\ Seen(qList[v]).status = "accepted"
     \/ QuotationDetailPage(v) /\ Seen(qQuote[v]).status = "accepted"
  /\ GoToPage(v, "tracking")

\* Menus and back buttons work in every state of a page.
GoBackTo(v, to) ==
  /\ qAt[v] # to /\ qFaults < QMaxFaults
  /\ qAt' = [qAt EXCEPT ![v] = to]
  /\ qList' = [qList EXCEPT ![v] = Mount(@)]
  /\ qConfirm' = [qConfirm EXCEPT ![v] = FALSE]
  /\ qOwn' = [qOwn EXCEPT ![v] = Untouched]
  /\ qFaults' = qFaults + 1
  /\ UNCHANGED <<qLog, qQuote, qTrack, qCall>>

-----------------------------------------------------------------------------
(* Fetches *)

QServe(v) ==
  /\ \/ /\ qList[v].fetch = "asked" /\ qList' = [qList EXCEPT ![v] = Serve(@, Latest)]
        /\ UNCHANGED <<qQuote, qTrack>>
     \/ /\ qQuote[v].fetch = "asked" /\ qQuote' = [qQuote EXCEPT ![v] = Serve(@, Latest)]
        /\ UNCHANGED <<qList, qTrack>>
     \/ /\ qTrack[v].fetch = "asked" /\ qTrack' = [qTrack EXCEPT ![v] = Serve(@, Latest)]
        /\ UNCHANGED <<qList, qQuote>>
  /\ UNCHANGED <<qLog, qAt, qCall, qConfirm, qOwn, qFaults>>

QAnswer(v) ==
  /\ \/ /\ qList[v].fetch = "read" /\ qList' = [qList EXCEPT ![v] = Answer(@)]
        /\ UNCHANGED <<qQuote, qTrack>>
     \/ /\ qQuote[v].fetch = "read" /\ qQuote' = [qQuote EXCEPT ![v] = Answer(@)]
        /\ UNCHANGED <<qList, qTrack>>
     \/ /\ qTrack[v].fetch = "read" /\ qTrack' = [qTrack EXCEPT ![v] = Answer(@)]
        /\ UNCHANGED <<qList, qQuote>>
  /\ UNCHANGED <<qLog, qAt, qCall, qConfirm, qOwn, qFaults>>

QFetchFails(v) ==
  /\ QFault
  /\ \/ qList[v].fetch # "idle" /\ qList' = [qList EXCEPT ![v] = Fail(@)]
        /\ UNCHANGED <<qQuote, qTrack>>
     \/ qQuote[v].fetch # "idle" /\ qQuote' = [qQuote EXCEPT ![v] = Fail(@)]
        /\ UNCHANGED <<qList, qTrack>>
     \/ qTrack[v].fetch # "idle" /\ qTrack' = [qTrack EXCEPT ![v] = Fail(@)]
        /\ UNCHANGED <<qList, qQuote>>
  /\ UNCHANGED <<qLog, qAt, qCall, qConfirm, qOwn>>

\* The retry button of a list that failed.
QRefetch(v) ==
  /\ qAt[v] \in {"quotes", "orders"} /\ qList[v].failed
  /\ qList' = [qList EXCEPT ![v] = Fetch(@)]
  /\ UNCHANGED <<qLog, qAt, qQuote, qTrack, qCall, qConfirm, qOwn, qFaults>>

\* refetchInterval of the shipment's page: every 30 seconds while it is open.
TrackingPolls(v) ==
  /\ qAt[v] = "tracking" /\ qTrack[v].fetch = "idle"
  /\ qTrack' = [qTrack EXCEPT ![v] = Fetch(@)]
  /\ UNCHANGED <<qLog, qAt, qList, qQuote, qCall, qConfirm, qOwn, qFaults>>

-----------------------------------------------------------------------------
(* What the pages offer *)

CanRespond(v) ==
  QuotationDetailPage(v) /\ v \in QClients /\ Seen(qQuote[v]).status \in {"sent", "finalized"}

CanSend(v) ==
  QuotationDetailPage(v) /\ v \notin QClients /\ Seen(qQuote[v]).status \in {"draft", "finalized"}

\* The request remembers which version of the quotation the page showed.
Ask(v, op, to, entry) ==
  /\ qCall[v] = NoCall /\ Latest < QMaxWrites
  /\ qCall' = [qCall EXCEPT ![v] = [op |-> op, to |-> to, st |-> "asked", ver |-> entry.data]]
  /\ UNCHANGED <<qLog, qAt, qCache, qOwn, qFaults>>

AcceptMutation(v) == CanRespond(v) /\ ~qConfirm[v] /\ Ask(v, "accept", 0, qQuote[v]) /\ UNCHANGED qConfirm

SetShowRejectConfirm(v) ==
  /\ CanRespond(v) /\ qConfirm' = [qConfirm EXCEPT ![v] = ~@]
  /\ UNCHANGED <<qLog, qAt, qCache, qCall, qOwn, qFaults>>

RejectMutation(v) == CanRespond(v) /\ qConfirm[v] /\ Ask(v, "reject", 0, qQuote[v]) /\ UNCHANGED qConfirm

\* Two requests for a draft: finalize it, then set its status.
SendMutation(v) ==
  /\ CanSend(v)
  /\ Ask(v, IF Seen(qQuote[v]).status = "draft" THEN "finalize" ELSE "send", 0, qQuote[v])
  /\ UNCHANGED qConfirm

\* -1 for a quotation not tracked yet.
GetPipelineIndex(stage) == stage - 1

\* The next stage and the quick actions: any stage after the one shown.
TrackingStatusUpdatePanel(v, to) ==
  LET index == GetPipelineIndex(Seen(qTrack[v]).stage)
  IN /\ OrderTrackingPageDesktop(v) \/ OrderTrackingPageMobile(v)
     /\ v \notin QClients
     /\ index >= 0 /\ to - 1 > index
     /\ Ask(v, "track", to, qTrack[v]) /\ UNCHANGED qConfirm

-----------------------------------------------------------------------------
(* Requests *)

\* The guards of the handlers: none but these two have one.
Permitted(call, quote) ==
  CASE call.op = "accept" -> quote.status \in {"finalized", "sent"}
    [] call.op = "track"  -> IF quote.stage = 0 THEN call.to = 1 ELSE quote.stage <= call.to
    [] OTHER -> TRUE

\* What they write: accepting starts the tracking unless it has started.
Written(call, quote) ==
  CASE call.op = "accept"   -> [status |-> "accepted", stage |-> IF quote.stage = 0 THEN 1 ELSE quote.stage]
    [] call.op = "reject"   -> [quote EXCEPT !.status = "rejected"]
    [] call.op = "finalize" -> [quote EXCEPT !.status = "finalized"]
    [] call.op = "send"     -> [quote EXCEPT !.status = "sent"]
    [] call.op = "track"    -> [quote EXCEPT !.stage = call.to]

QCommit(v) ==
  /\ qCall[v].st = "asked" /\ Latest < QMaxWrites /\ Permitted(qCall[v], Now)
  /\ qLog' = Append(qLog, Written(qCall[v], Now))
  /\ qCall' = [qCall EXCEPT ![v].st = "done", ![v].ver = Latest + 1]
  /\ UNCHANGED <<qAt, qCache, qConfirm, qOwn, qFaults>>

QRefuse(v) ==
  /\ qCall[v].st = "asked" /\ ~Permitted(qCall[v], Now)
  /\ qCall' = [qCall EXCEPT ![v] = NoCall]
  /\ UNCHANGED <<qLog, qAt, qCache, qConfirm, qOwn, qFaults>>

\* No answer, written or not: the mutation fails and nothing is fetched.
QLose(v) ==
  /\ qCall[v].st \in {"asked", "done"} /\ QFault
  /\ qCall' = [qCall EXCEPT ![v] = NoCall]
  /\ UNCHANGED <<qLog, qAt, qCache, qConfirm, qOwn>>

\* finalize has answered: the second request of the mutation.
Finalized(v) ==
  /\ qCall[v].st = "done" /\ qCall[v].op = "finalize"
  /\ qCall' = [qCall EXCEPT ![v] = [NoCall EXCEPT !.op = "send", !.st = "asked"]]
  /\ UNCHANGED <<qLog, qAt, qCache, qConfirm, qOwn, qFaults>>

\* Mutant of QuoteAnswered: a fetch under way is taken for the new one.
QuoteAnsweredLate(v) ==
  /\ qCall[v].st = "done" /\ qCall[v].op \in {"accept", "reject", "send"}
  /\ qQuote' = [qQuote EXCEPT ![v] = Mount(Age(@))]
  /\ qConfirm' = [qConfirm EXCEPT ![v] = @ /\ qCall[v].op # "reject"]
  /\ qOwn' = [qOwn EXCEPT ![v].quote = IF qAt[v] = "quote" THEN qCall[v].ver ELSE @]
  /\ qCall' = [qCall EXCEPT ![v] = NoCall]
  /\ UNCHANGED <<qLog, qAt, qList, qTrack, qFaults>>

\* onSuccess, whether or not the page is still open.
QuoteAnswered(v) ==
  /\ qCall[v].st = "done" /\ qCall[v].op \in {"accept", "reject", "send"}
  /\ qQuote' = [qQuote EXCEPT ![v] = Invalidate(@, qAt[v] \in {"quote", "tracking"})]
  /\ qConfirm' = [qConfirm EXCEPT ![v] = @ /\ qCall[v].op # "reject"]
  /\ qOwn' = [qOwn EXCEPT ![v].quote = IF qAt[v] = "quote" THEN qCall[v].ver ELSE @]
  /\ qCall' = [qCall EXCEPT ![v] = NoCall]
  /\ UNCHANGED <<qLog, qAt, qList, qTrack, qFaults>>

UpdateAnswered(v) ==
  /\ qCall[v].st = "done" /\ qCall[v].op = "track"
  /\ qTrack' = [qTrack EXCEPT ![v] = Invalidate(@, qAt[v] = "tracking")]
  /\ qOwn' = [qOwn EXCEPT ![v].tracking = IF qAt[v] = "tracking" THEN qCall[v].ver ELSE @]
  /\ qCall' = [qCall EXCEPT ![v] = NoCall]
  /\ UNCHANGED <<qLog, qAt, qList, qQuote, qConfirm, qFaults>>

-----------------------------------------------------------------------------

QNext ==
  \E v \in QViewers :
    \/ HandleView(v) \/ HandleTrack(v) \/ GoBackTo(v, "quotes") \/ GoBackTo(v, "orders")
    \/ QServe(v) \/ QAnswer(v) \/ QFetchFails(v) \/ QRefetch(v) \/ TrackingPolls(v)
    \/ AcceptMutation(v) \/ SetShowRejectConfirm(v) \/ RejectMutation(v) \/ SendMutation(v)
    \/ \E to \in 1 .. QLastStage : TrackingStatusUpdatePanel(v, to)
    \/ QCommit(v) \/ QRefuse(v) \/ QLose(v) \/ Finalized(v)
    \/ QuoteAnswered(v) \/ UpdateAnswered(v)

QSpec == QInit /\ [][QNext]_qVars

-----------------------------------------------------------------------------
(* Properties *)

\* Type invariant.
QTypeOK ==
  /\ \A i \in 1 .. Latest : qLog[i] \in
       [status : {"draft", "finalized", "sent", "accepted", "rejected"}, stage : 0 .. QLastStage]
  /\ \A v \in QViewers :
       /\ qAt[v] \in {"quotes", "orders", "quote", "tracking"}
       /\ {qList[v], qQuote[v], qTrack[v]} \subseteq EntryType(1 .. Latest)
       /\ qOwn[v] \in [quote : 0 .. Latest, tracking : 0 .. Latest]
  /\ qConfirm \in [QViewers -> BOOLEAN]

\* After an action has been answered, the page it was taken on never settles
\* on the quotation as it was before: a fetch that was under way (a poll, the
\* one of the mount) is not what the page is left with.
OwnActionShown ==
  \A v \in QViewers :
    /\ qAt[v] = "quote" /\ Settled(qQuote[v]) => qQuote[v].data >= qOwn[v].quote
    /\ qAt[v] = "tracking" /\ Settled(qTrack[v]) => qTrack[v].data >= qOwn[v].tracking

=============================================================================
