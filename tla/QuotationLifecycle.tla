------------------------- MODULE QuotationLifecycle --------------------------
(***************************************************************************)
(* Quotations (app/modules/output): created as drafts by agents, finalized *)
(* and sent, accepted or rejected by clients, expired by a daily task, and *)
(* tracked as orders once accepted.  Finalizing also moves the RFQ that    *)
(* intake owns.                                                            *)
(*                                                                         *)
(* As in ExclusiveWindow a request reads in one step and commits in        *)
(* another when its writes depend on what it read; a request whose write   *)
(* does not is one step.  Other transactions commit in between.            *)
(***************************************************************************)
EXTENDS Integers, RfqStatus

CONSTANTS
  Quotes,          \* quotation rows that may be created
  RFQs,            \* existing RFQs
  NoRFQ,           \* rfq_id of a standalone quotation
  Workers,         \* HTTP requests that may be in flight at once
  PutTargets,      \* statuses sent to PUT /quotes/{id}/status
  LastStage,       \* index of the last entry of TRACKING_PIPELINE
  ExpiryDays,      \* age in days at which cleanup-expired-quotes expires
  Horizon          \* bound on the calendar

QuotationStatus ==
  {"draft", "finalized", "sent", "accepted", "rejected", "expired"}

ASSUME NoRFQAssumption == NoRFQ \notin RFQs
ASSUME PutAssumption == PutTargets \subseteq QuotationStatus
ASSUME StageAssumption == LastStage \in Nat \ {0}
ASSUME DaysAssumption ==
  /\ ExpiryDays \in Nat
  /\ Horizon \in Nat

VARIABLES
  today,     \* the date
  rfqStatus, \* rfqs.status
  quotes,    \* committed rows of table quotations
  trail,     \* per quotation, its tracking_events
  requests   \* per worker, the request it is serving

vars == <<today, rfqStatus, quotes, trail, requests>>

Pipeline == INSTANCE OrderPipeline
              WITH Orders  <- Quotes,
                   stage   <- [q \in Quotes |-> quotes[q].tracking],
                   history <- trail

NoStage    == 0
FirstStage == 1
Stages     == FirstStage .. LastStage
MaybeStage == {NoStage} \cup Stages

Undecided == {"draft", "finalized", "sent"}
Offered   == {"finalized", "sent"}

QuoteRow == [status: QuotationStatus \cup {"absent"},
             rfq: RFQs \cup {NoRFQ}, created: Nat,
             printed: BOOLEAN,       \* is there a PDF in storage?
             tracking: MaybeStage]

\* created_at, by which the events are read back, is now(): the start of the
\* transaction that wrote them, which is not the order they committed in.  A
\* trail is therefore a set, and no more is said of it than a set can tell.
TrackingEvent == [from: MaybeStage, to: Stages]

IdleRequest     == [kind: {"idle"}]
AcceptRequest   == [kind: {"accept"}, quote: Quotes, saw: MaybeStage]
TrackRequest    == [kind: {"track"}, quote: Quotes, saw: MaybeStage,
                    target: Stages]
FinalizeRequest == [kind: {"finalize"}, quote: Quotes,
                    sawFinalized: BOOLEAN,  \* the quotation was finalized
                    sawPreQuoted: BOOLEAN]  \* its RFQ was not quoted yet
StatusRequest   == [kind: {"status"}, rfq: RFQs, target: RFQStatus]
Request == IdleRequest \cup AcceptRequest \cup TrackRequest
           \cup FinalizeRequest \cup StatusRequest

NoQuote == [status |-> "absent", rfq |-> NoRFQ, created |-> 0,
            printed |-> FALSE, tracking |-> NoStage]
Done    == [kind |-> "idle"]

TypeOK ==
  /\ today \in Nat
  /\ rfqStatus \in [RFQs -> RFQStatus]
  /\ quotes \in [Quotes -> QuoteRow]
  /\ trail \in [Quotes -> SUBSET TrackingEvent]
  /\ requests \in [Workers -> Request]

Init ==
  /\ today = 0
  /\ rfqStatus = [r \in RFQs |-> "open"]
  /\ quotes = [q \in Quotes |-> NoQuote]
  /\ trail = [q \in Quotes |-> {}]
  /\ requests = [w \in Workers |-> Done]

Idle(w)       == requests[w].kind = "idle"
Exists(q)     == quotes[q].status # "absent"
EndRequest(w) == requests' = [requests EXCEPT ![w] = Done]

Tick ==
  /\ today < Horizon
  /\ today' = today + 1
  /\ UNCHANGED <<rfqStatus, quotes, trail, requests>>

----------------------------------------------------------------------------
(* Requests that write without looking *)

Draft(r, printed) ==
  [status |-> "draft", rfq |-> r, created |-> today, printed |-> printed,
   tracking |-> NoStage]

\* POST /quotes leaves no PDF; /quotes/generate prints one at once unless
\* printing fails.  The RFQ may be in any status, and rfq_id may be left out.
\* (POST /quotes/create-standalone fails before it gets here.)
CreateQuote(q, r) ==
  /\ ~Exists(q)
  /\ today + ExpiryDays < Horizon
  /\ \E printed \in BOOLEAN :
       quotes' = [quotes EXCEPT ![q] = Draft(r, printed)]
  /\ UNCHANGED <<today, rfqStatus, trail, requests>>

\* generate_quotation_pdf: every PDF of a quotation replaces the one before.
GeneratePdf(q) ==
  /\ Exists(q)
  /\ quotes' = [quotes EXCEPT ![q].printed = TRUE]
  /\ UNCHANGED <<today, rfqStatus, trail, requests>>

\* update_quotation_status checks no transition.  When the session has loaded
\* the target it writes nothing, which is a request without effect.
PutStatus(q, target) ==
  /\ Exists(q)
  /\ quotes' = [quotes EXCEPT ![q].status = target]
  /\ UNCHANGED <<today, rfqStatus, trail, requests>>

Reject(q) == PutStatus(q, "rejected")

----------------------------------------------------------------------------
(* client_accept and update_tracking *)

\* Mutants of ValidTrackingTransition: an order that is not tracked yet is
\* refused; going backward is allowed.
ValidOnceTracked(current, next) == current # NoStage /\ current <= next
ValidInAnyOrder(current, next) == current = NoStage => next = FirstStage

ValidTrackingTransition(current, next) ==
  IF current = NoStage THEN next = FirstStage ELSE current <= next

\* The quotation after update_tracking, given the stage it had read: the
\* column is written only when it changes in the eyes of the session.
Tracked(row, saw, target) ==
  IF saw = target THEN row ELSE [row EXCEPT !.tracking = target]

\* Mutant of LogEvent: from_status stays NULL.
LogTargetOnly(q, saw, target) ==
  trail' = [trail EXCEPT ![q] = @ \cup {[from |-> NoStage, to |-> target]}]

LogEvent(q, saw, target) ==
  trail' = [trail EXCEPT ![q] = @ \cup {[from |-> saw, to |-> target]}]

AcceptRead(w, q) ==
  /\ Idle(w)
  /\ quotes[q].status \in Offered
  /\ requests' = [requests EXCEPT
       ![w] = [kind |-> "accept", quote |-> q, saw |-> quotes[q].tracking]]
  /\ UNCHANGED <<today, rfqStatus, quotes, trail>>

\* update_tracking raises ValueError when the order is already under way,
\* and client_accept swallows it.
AcceptCommit(w) ==
  LET req      == requests[w]
      accepted == [quotes[req.quote] EXCEPT !.status = "accepted"] IN
  /\ req.kind = "accept"
  /\ IF ValidTrackingTransition(req.saw, FirstStage)
       THEN /\ quotes' = [quotes EXCEPT
                 ![req.quote] = Tracked(accepted, req.saw, FirstStage)]
            /\ LogEvent(req.quote, req.saw, FirstStage)
       ELSE /\ quotes' = [quotes EXCEPT ![req.quote] = accepted]
            /\ UNCHANGED trail
  /\ EndRequest(w)
  /\ UNCHANGED <<today, rfqStatus>>

\* PUT /quotes/{id}/tracking, whatever the status of the quotation.
TrackRead(w, q) ==
  /\ Idle(w)
  /\ Exists(q)
  /\ \E target \in Stages :
       /\ ValidTrackingTransition(quotes[q].tracking, target)
       /\ requests' = [requests EXCEPT
            ![w] = [kind |-> "track", quote |-> q,
                    saw |-> quotes[q].tracking, target |-> target]]
  /\ UNCHANGED <<today, rfqStatus, quotes, trail>>

TrackCommit(w) ==
  LET req == requests[w] IN
  /\ req.kind = "track"
  /\ quotes' = [quotes EXCEPT
       ![req.quote] = Tracked(@, req.saw, req.target)]
  /\ LogEvent(req.quote, req.saw, req.target)
  /\ EndRequest(w)
  /\ UNCHANGED <<today, rfqStatus>>

----------------------------------------------------------------------------
(* finalize_quotation, and update_rfq_status of intake *)

\* The RFQ and the quotation are loaded before the PDF is rendered and stored,
\* and not read again.
FinalizeRead(w, q) ==
  /\ Idle(w)
  /\ Exists(q)
  /\ requests' = [requests EXCEPT
       ![w] = [kind |-> "finalize", quote |-> q,
               sawFinalized |-> quotes[q].status = "finalized",
               sawPreQuoted |-> \E r \in RFQs :
                 r = quotes[q].rfq /\ PreQuoted(rfqStatus[r])]]
  /\ UNCHANGED <<today, rfqStatus, quotes, trail>>

\* From any status, a decided one included.  A status that was "finalized"
\* when the session loaded it is not written.
FinalizeCommit(w) ==
  LET req == requests[w]
      row == quotes[req.quote] IN
  /\ req.kind = "finalize"
  /\ quotes' = [quotes EXCEPT ![req.quote] =
       [row EXCEPT !.status = IF req.sawFinalized THEN @ ELSE "finalized",
                   !.printed = TRUE]]
  /\ rfqStatus' = [r \in RFQs |->
       IF r = row.rfq /\ req.sawPreQuoted THEN "quoted" ELSE rfqStatus[r]]
  /\ EndRequest(w)
  /\ UNCHANGED <<today, trail>>

StatusRead(w, r) ==
  /\ Idle(w)
  /\ \E target \in ValidTransitions[rfqStatus[r]] :
       requests' = [requests EXCEPT
         ![w] = [kind |-> "status", rfq |-> r, target |-> target]]
  /\ UNCHANGED <<today, rfqStatus, quotes, trail>>

StatusCommit(w) ==
  /\ requests[w].kind = "status"
  /\ rfqStatus' = [rfqStatus EXCEPT ![requests[w].rfq] = requests[w].target]
  /\ EndRequest(w)
  /\ UNCHANGED <<today, quotes, trail>>

\* get_db: a request that fails before its commit leaves nothing behind.
RequestRollback(w) ==
  /\ ~Idle(w)
  /\ EndRequest(w)
  /\ UNCHANGED <<today, rfqStatus, quotes, trail>>

----------------------------------------------------------------------------
(* cleanup-expired-quotes: one UPDATE, so running it twice changes nothing *)

\* Mutant of Overdue: drafts are left alone.
OverdueOffer(q) ==
  /\ quotes[q].status \in Offered
  /\ quotes[q].created + ExpiryDays < today

Overdue(q) ==
  /\ quotes[q].status \in Undecided
  /\ quotes[q].created + ExpiryDays < today

Cleanup ==
  /\ quotes' = [q \in Quotes |->
       IF Overdue(q) THEN [quotes[q] EXCEPT !.status = "expired"]
                     ELSE quotes[q]]
  /\ UNCHANGED <<today, rfqStatus, trail, requests>>

----------------------------------------------------------------------------

RequestStep(w) ==
  \/ \E q \in Quotes : AcceptRead(w, q)
  \/ AcceptCommit(w)
  \/ \E q \in Quotes : TrackRead(w, q)
  \/ TrackCommit(w)
  \/ \E q \in Quotes : FinalizeRead(w, q)
  \/ FinalizeCommit(w)
  \/ \E r \in RFQs : StatusRead(w, r)
  \/ StatusCommit(w)
  \/ RequestRollback(w)

Next ==
  \/ Tick
  \/ \E q \in Quotes, r \in RFQs \cup {NoRFQ} : CreateQuote(q, r)
  \/ \E q \in Quotes : GeneratePdf(q)
  \/ \E q \in Quotes, target \in PutTargets : PutStatus(q, target)
  \/ \E q \in Quotes : Reject(q)
  \/ \E w \in Workers : RequestStep(w)
  \/ Cleanup

Spec == Init /\ [][Next]_vars

\* Days pass and the daily task keeps running; nobody has to send a request.
Fairness == WF_vars(Tick) /\ WF_vars(Cleanup)

FairSpec == Spec /\ Fairness

----------------------------------------------------------------------------
(* Properties *)

\* The audit log explains the stage of every order, however many requests
\* raced: an order is tracked exactly when it has a log, the log has the entry
\* into the first stage and none that breaks the transition rule, and the
\* order's stage, and every stage an entry departs from, was entered from an
\* earlier one.
TrailExplainsTracking ==
  \A q \in Quotes :
    LET departures == {event.from : event \in trail[q]} IN
    /\ quotes[q].tracking = NoStage <=> trail[q] = {}
    /\ trail[q] # {} => [from |-> NoStage, to |-> FirstStage] \in trail[q]
    /\ \A event \in trail[q] : ValidTrackingTransition(event.from, event.to)
    /\ \A stage \in ({quotes[q].tracking} \cup departures) \ {NoStage} :
         \E event \in trail[q] : event.to = stage /\ event.from < stage

\* A quotation its client accepts is an order from that commit on, although
\* the failure of update_tracking is swallowed, whatever stage the request had
\* read and whatever other requests did since.
AcceptanceStartsOrder ==
  [][\A w \in Workers : AcceptCommit(w) =>
       LET q == requests[w].quote IN
       /\ quotes'[q].tracking # NoStage
       /\ [from |-> NoStage, to |-> FirstStage] \in trail'[q]]_vars

\* Finalizing advances the RFQ: once a quotation is finalized its RFQ is no
\* longer open, whatever status changes and other quotations of the same RFQ
\* committed after the request had read it.
FinalizeAdvancesRfq ==
  [][\A w \in Workers : FinalizeCommit(w) =>
       \A r \in RFQs : quotes[requests[w].quote].rfq = r
         => rfqStatus'[r] # "open"]_vars

\* What the transition rule says of every order: it moves forward only.  Two
\* requests that overlap break it, each valid for the stage both read.
OrdersMoveForward ==
  [][\A q \in Quotes : quotes[q].tracking <= quotes'[q].tracking]_vars

\* What is left of that promise when requests overlap, OrderPipeline: an event
\* leaves a stage the order has reached, never backward, and sets the stage.
TrackingIsAPipeline == Pipeline!Spec

\* Every quotation is eventually decided by its client or expired, although
\* agents may finalize it again, send it again and reprint it at any time.
OffersAreSettled ==
  \A q \in Quotes :
    quotes[q].status \in Undecided ~> quotes[q].status \notin Undecided
=============================================================================
