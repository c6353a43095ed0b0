----------------------- MODULE QuotationLifecycleProofs ----------------------
(* Theorems about QuotationLifecycle, for every value of its constants. *)
EXTENDS QuotationLifecycle, TLAPS

----------------------------------------------------------------------------
(* Lemmas about the shapes of values *)

\* The kind of a request says which fields it has.
LEMMA RequestFields ==
  ASSUME NEW req \in Request
  PROVE  /\ req.kind = "accept" => req \in AcceptRequest
         /\ req.kind = "track" => req \in TrackRequest
         /\ req.kind = "finalize" => req \in FinalizeRequest
         /\ req.kind = "status" => req \in StatusRequest
BY DEF Request, IdleRequest, AcceptRequest, TrackRequest, FinalizeRequest,
       StatusRequest

\* The transition table only leads to statuses an RFQ can have.
LEMMA TransitionsLeadToStatuses ==
  \A status \in RFQStatus : ValidTransitions[status] \subseteq RFQStatus
BY DEF ValidTransitions, RFQStatus

LEMMA FirstStageIsAStage == FirstStage \in Stages
BY StageAssumption DEF FirstStage, Stages

\* update_tracking leaves a well-formed row and a well-formed log.
LEMMA TrackedType ==
  ASSUME NEW row \in QuoteRow, NEW saw \in MaybeStage, NEW target \in Stages
  PROVE  Tracked(row, saw, target) \in QuoteRow
BY DEF Tracked, QuoteRow, MaybeStage

LEMMA LogEventType ==
  ASSUME trail \in [Quotes -> SUBSET TrackingEvent], NEW q \in Quotes,
         NEW saw \in MaybeStage, NEW target \in Stages, LogEvent(q, saw, target)
  PROVE  trail' \in [Quotes -> SUBSET TrackingEvent]
<1>1. [from |-> saw, to |-> target] \in TrackingEvent
  BY DEF TrackingEvent
<1> QED BY <1>1 DEF LogEvent

\* A quotation that is printed, or whose status is written, stays well formed.
LEMMA WrittenType ==
  ASSUME NEW row \in QuoteRow, NEW status \in QuotationStatus
  PROVE  /\ [row EXCEPT !.status = status] \in QuoteRow
         /\ [row EXCEPT !.printed = TRUE] \in QuoteRow
         /\ [row EXCEPT !.status = status, !.printed = TRUE] \in QuoteRow
BY DEF QuoteRow

LEMMA DraftType ==
  ASSUME today \in Nat, NEW r \in RFQs \cup {NoRFQ}, NEW printed \in BOOLEAN
  PROVE  Draft(r, printed) \in QuoteRow
BY DEF Draft, QuoteRow, QuotationStatus, MaybeStage

LEMMA FinalizeRequestType ==
  ASSUME NEW q \in Quotes, NEW b \in BOOLEAN, NEW c \in BOOLEAN
  PROVE  [kind |-> "finalize", quote |-> q,
          sawFinalized |-> b, sawPreQuoted |-> c] \in Request
BY DEF Request, FinalizeRequest

----------------------------------------------------------------------------
(* Type correctness *)

\* Every reachable state has well-formed rows, logs and requests.
THEOREM TypeCorrect == Spec => []TypeOK
<1>1. Init => TypeOK
  BY DEF Init, TypeOK, NoQuote, Done, QuoteRow, QuotationStatus, MaybeStage,
         NoStage, Request, IdleRequest, RFQStatus
<1>2. TypeOK /\ [Next]_vars => TypeOK'
  <2> SUFFICES ASSUME TypeOK, [Next]_vars PROVE TypeOK'
    OBVIOUS
  <2> USE DEF TypeOK
  <2>1. CASE Tick
    BY <2>1 DEF Tick
  <2>2. ASSUME NEW q \in Quotes, NEW r \in RFQs \cup {NoRFQ}, CreateQuote(q, r)
        PROVE  TypeOK'
    <3>1. PICK printed \in BOOLEAN :
            quotes' = [quotes EXCEPT ![q] = Draft(r, printed)]
      BY <2>2 DEF CreateQuote
    <3>2. Draft(r, printed) \in QuoteRow
      BY DraftType
    <3> QED BY <2>2, <3>1, <3>2 DEF CreateQuote
  <2>3. ASSUME NEW q \in Quotes, GeneratePdf(q) PROVE TypeOK'
    <3>1. [quotes[q] EXCEPT !.printed = TRUE] \in QuoteRow
      BY WrittenType DEF QuotationStatus
    <3> QED BY <2>3, <3>1 DEF GeneratePdf
  <2>4. ASSUME NEW q \in Quotes, NEW target \in QuotationStatus,
               PutStatus(q, target)
        PROVE  TypeOK'
    BY <2>4 DEF PutStatus, QuoteRow
  <2>5. ASSUME NEW w \in Workers, RequestStep(w) PROVE TypeOK'
    <3>1. ASSUME NEW q \in Quotes, AcceptRead(w, q) PROVE TypeOK'
      BY <3>1 DEF AcceptRead, Request, AcceptRequest, QuoteRow
    <3>2. CASE AcceptCommit(w)
      <4> DEFINE req == requests[w]
                 accepted == [quotes[req.quote] EXCEPT !.status = "accepted"]
      <4>1. req.quote \in Quotes /\ req.saw \in MaybeStage
        BY <3>2, RequestFields DEF AcceptCommit, AcceptRequest
      <4>2. accepted \in QuoteRow
        BY <4>1 DEF QuoteRow, QuotationStatus
      <4>3. CASE ValidTrackingTransition(req.saw, FirstStage)
        <5>1. quotes' = [quotes EXCEPT
                ![req.quote] = Tracked(accepted, req.saw, FirstStage)]
          BY <3>2, <4>3 DEF AcceptCommit
        <5>2. Tracked(accepted, req.saw, FirstStage) \in QuoteRow
          BY <4>1, <4>2, TrackedType, FirstStageIsAStage
        <5>3. trail' \in [Quotes -> SUBSET TrackingEvent]
          BY <3>2, <4>1, <4>3, LogEventType, FirstStageIsAStage DEF AcceptCommit
        <5> QED BY <3>2, <5>1, <5>2, <5>3
                DEF AcceptCommit, EndRequest, Done, Request, IdleRequest
      <4>4. CASE ~ValidTrackingTransition(req.saw, FirstStage)
        <5>1. quotes' = [quotes EXCEPT ![req.quote] = accepted]
              /\ UNCHANGED trail
          BY <3>2, <4>4 DEF AcceptCommit
        <5> QED BY <3>2, <4>2, <5>1
                DEF AcceptCommit, EndRequest, Done, Request, IdleRequest
      <4> QED BY <4>3, <4>4
    <3>3. ASSUME NEW q \in Quotes, TrackRead(w, q) PROVE TypeOK'
      BY <3>3 DEF TrackRead, Request, TrackRequest, QuoteRow
    <3>4. CASE TrackCommit(w)
      <4> DEFINE req == requests[w]
      <4>1. req.quote \in Quotes /\ req.saw \in MaybeStage
            /\ req.target \in Stages
        BY <3>4, RequestFields DEF TrackCommit, TrackRequest
      <4>2. Tracked(quotes[req.quote], req.saw, req.target) \in QuoteRow
        BY <4>1, TrackedType
      <4>3. trail' \in [Quotes -> SUBSET TrackingEvent]
        BY <3>4, <4>1, LogEventType DEF TrackCommit
      <4> QED BY <3>4, <4>2, <4>3
              DEF TrackCommit, EndRequest, Done, Request, IdleRequest
    <3>5. ASSUME NEW q \in Quotes, FinalizeRead(w, q) PROVE TypeOK'
      <4> DEFINE sawF == quotes[q].status = "finalized"
                 sawP == \E r \in RFQs :
                           r = quotes[q].rfq /\ PreQuoted(rfqStatus[r])
      <4>1. sawF \in BOOLEAN /\ sawP \in BOOLEAN
        OBVIOUS
      <4>2. requests' = [requests EXCEPT
              ![w] = [kind |-> "finalize", quote |-> q,
                      sawFinalized |-> sawF, sawPreQuoted |-> sawP]]
        BY <3>5 DEF FinalizeRead
      <4> HIDE DEF sawF, sawP
      <4>3. [kind |-> "finalize", quote |-> q,
             sawFinalized |-> sawF, sawPreQuoted |-> sawP] \in Request
        BY <4>1, FinalizeRequestType
      <4>4. requests' \in [Workers -> Request]
        BY <4>2, <4>3
      <4> QED BY <3>5, <4>4 DEF FinalizeRead
    <3>6. CASE FinalizeCommit(w)
      <4> DEFINE req == requests[w]
      <4>1. req.quote \in Quotes
        BY <3>6, RequestFields DEF FinalizeCommit, FinalizeRequest
      <4> DEFINE row == quotes[req.quote]
                 status == IF req.sawFinalized THEN row.status ELSE "finalized"
      <4>2. [row EXCEPT !.status = status, !.printed = TRUE] \in QuoteRow
        BY <4>1 DEF QuoteRow, QuotationStatus
      <4>3. quotes' = [quotes EXCEPT ![req.quote] =
              [row EXCEPT !.status = status, !.printed = TRUE]]
        BY <3>6 DEF FinalizeCommit
      <4>4. quotes' \in [Quotes -> QuoteRow]
        BY <4>1, <4>2, <4>3
      <4>5. rfqStatus' \in [RFQs -> RFQStatus]
        BY <3>6 DEF FinalizeCommit, RFQStatus
      <4>6. requests' \in [Workers -> Request]
        BY <3>6 DEF FinalizeCommit, EndRequest, Done, Request, IdleRequest
      <4> QED BY <3>6, <4>4, <4>5, <4>6 DEF FinalizeCommit
    <3>7. ASSUME NEW r \in RFQs, StatusRead(w, r) PROVE TypeOK'
      <4>1. PICK target \in ValidTransitions[rfqStatus[r]] :
              requests' = [requests EXCEPT
                ![w] = [kind |-> "status", rfq |-> r, target |-> target]]
        BY <3>7 DEF StatusRead
      <4>2. [kind |-> "status", rfq |-> r, target |-> target] \in Request
        BY TransitionsLeadToStatuses DEF Request, StatusRequest
      <4> QED BY <3>7, <4>1, <4>2 DEF StatusRead
    <3>8. CASE StatusCommit(w)
      <4>1. requests[w].rfq \in RFQs /\ requests[w].target \in RFQStatus
        BY <3>8, RequestFields DEF StatusCommit, StatusRequest
      <4> QED BY <3>8, <4>1
              DEF StatusCommit, EndRequest, Done, Request, IdleRequest
    <3>9. CASE RequestRollback(w)
      BY <3>9 DEF RequestRollback, EndRequest, Done, Request, IdleRequest
    <3> QED BY <2>5, <3>1, <3>2, <3>3, <3>4, <3>5, <3>6, <3>7, <3>8, <3>9
            DEF RequestStep
  <2>6. CASE Cleanup
    BY <2>6 DEF Cleanup, QuoteRow, QuotationStatus
  <2>7. CASE UNCHANGED vars
    BY <2>7 DEF vars
  <2>8. "rejected" \in QuotationStatus
    BY DEF QuotationStatus
  <2> QED BY <2>1, <2>2, <2>3, <2>4, <2>5, <2>6, <2>7, <2>8, PutAssumption
          DEF Next, Reject
<1> QED BY <1>1, <1>2, PTL DEF Spec
----------------------------------------------------------------------------
(* What one step may do to the tracking of the orders *)

\* The request of w reports that its order is at stage `target`.
Reports(w, target) ==
  LET req == requests[w] IN
  /\ AcceptCommit(w) \/ TrackCommit(w)
  /\ req.kind \in {"accept", "track"}
  /\ req.quote \in Quotes
  /\ req.saw \in MaybeStage
  /\ req.kind = "track" => target = req.target
  /\ ValidTrackingTransition(req.saw, target)
  /\ LogEvent(req.quote, req.saw, target)
  /\ quotes'[req.quote].tracking
       = IF req.saw = target THEN quotes[req.quote].tracking ELSE target
  /\ \A q \in Quotes \ {req.quote} : quotes'[q].tracking = quotes[q].tracking

\* The step leaves stages and logs alone.
NobodyReports ==
  /\ UNCHANGED trail
  /\ \A q \in Quotes : quotes'[q].tracking = quotes[q].tracking

\* A quotation that does not exist yet is not tracked.
AbsentIsUntracked ==
  \A q \in Quotes : ~Exists(q) => quotes[q].tracking = NoStage

\* What a tracking update has validated stays valid until its commit.
RequestsAreValid ==
  \A w \in Workers : requests[w].kind = "track"
    => ValidTrackingTransition(requests[w].saw, requests[w].target)

\* Tracking changes only when an accept or a track request commits.
LEMMA StepTouchesTracking ==
  ASSUME TypeOK, AbsentIsUntracked, RequestsAreValid, [Next]_vars
  PROVE  \/ NobodyReports
         \/ \E w \in Workers, target \in Stages : Reports(w, target)
<1> USE DEF TypeOK
<1>1. ASSUME NEW q \in Quotes, NEW r \in RFQs \cup {NoRFQ}, CreateQuote(q, r)
      PROVE  NobodyReports
  <2>1. PICK printed \in BOOLEAN :
          quotes' = [quotes EXCEPT ![q] = Draft(r, printed)]
    BY <1>1 DEF CreateQuote
  <2>2. quotes'[q].tracking = NoStage
    BY <2>1 DEF Draft
  <2>3. quotes[q].tracking = NoStage
    BY <1>1 DEF CreateQuote, AbsentIsUntracked
  <2> QED BY <1>1, <2>1, <2>2, <2>3 DEF CreateQuote, NobodyReports
<1>2. ASSUME NEW q \in Quotes, GeneratePdf(q) PROVE NobodyReports
  BY <1>2 DEF GeneratePdf, NobodyReports, QuoteRow
<1>3. ASSUME NEW q \in Quotes, NEW target, PutStatus(q, target)
      PROVE  NobodyReports
  BY <1>3 DEF PutStatus, NobodyReports, QuoteRow
<1>4. ASSUME NEW w \in Workers, AcceptCommit(w)
      PROVE  NobodyReports \/ Reports(w, FirstStage)
  <2> DEFINE req == requests[w]
             accepted == [quotes[req.quote] EXCEPT !.status = "accepted"]
  <2>1. req \in AcceptRequest /\ req.kind = "accept"
    BY <1>4, RequestFields DEF AcceptCommit
  <2>2. req.quote \in Quotes /\ req.saw \in MaybeStage
    BY <2>1 DEF AcceptRequest
  <2>3. accepted.tracking = quotes[req.quote].tracking
    BY <2>2 DEF QuoteRow
  <2>4. CASE ValidTrackingTransition(req.saw, FirstStage)
    <3>1. quotes' = [quotes EXCEPT
            ![req.quote] = Tracked(accepted, req.saw, FirstStage)]
          /\ LogEvent(req.quote, req.saw, FirstStage)
      BY <1>4, <2>4 DEF AcceptCommit
    <3>2. Tracked(accepted, req.saw, FirstStage).tracking
            = IF req.saw = FirstStage THEN quotes[req.quote].tracking
                                      ELSE FirstStage
      BY <2>2, <2>3 DEF Tracked, QuoteRow
    <3> HIDE DEF accepted
    <3> QED BY <1>4, <2>1, <2>2, <2>4, <3>1, <3>2 DEF Reports
  <2>5. CASE ~ValidTrackingTransition(req.saw, FirstStage)
    <3>1. quotes' = [quotes EXCEPT ![req.quote] = accepted]
          /\ UNCHANGED trail
      BY <1>4, <2>5 DEF AcceptCommit
    <3> HIDE DEF accepted
    <3> QED BY <2>2, <2>3, <3>1 DEF NobodyReports
  <2> QED BY <2>4, <2>5
<1>5. ASSUME NEW w \in Workers, TrackCommit(w)
      PROVE  Reports(w, requests[w].target) /\ requests[w].target \in Stages
  <2> DEFINE req == requests[w]
  <2>1. req \in TrackRequest /\ req.kind = "track"
    BY <1>5, RequestFields DEF TrackCommit
  <2>2. req.quote \in Quotes /\ req.saw \in MaybeStage /\ req.target \in Stages
    BY <2>1 DEF TrackRequest
  <2>3. ValidTrackingTransition(req.saw, req.target)
    BY <1>5, <2>1 DEF RequestsAreValid
  <2>4. quotes' = [quotes EXCEPT
          ![req.quote] = Tracked(quotes[req.quote], req.saw, req.target)]
        /\ LogEvent(req.quote, req.saw, req.target)
    BY <1>5 DEF TrackCommit
  <2>5. Tracked(quotes[req.quote], req.saw, req.target).tracking
          = IF req.saw = req.target THEN quotes[req.quote].tracking
                                    ELSE req.target
    BY <2>2 DEF Tracked, QuoteRow
  <2> QED BY <1>5, <2>1, <2>2, <2>3, <2>4, <2>5 DEF Reports
<1>6. ASSUME NEW w \in Workers, FinalizeCommit(w) PROVE NobodyReports
  BY <1>6 DEF FinalizeCommit, NobodyReports, QuoteRow
<1>7. CASE Cleanup
  BY <1>7 DEF Cleanup, NobodyReports, QuoteRow
<1>8. CASE UNCHANGED <<quotes, trail>>
  BY <1>8 DEF NobodyReports
<1> QED BY <1>1, <1>2, <1>3, <1>4, <1>5, <1>6, <1>7, <1>8, FirstStageIsAStage
        DEF Next, Reject, RequestStep, Tick, AcceptRead, TrackRead,
            FinalizeRead, StatusRead, StatusCommit, RequestRollback, vars

\* A request in flight is the one it was, or has just read its quotation.
LEMMA StepTouchesRequest ==
  ASSUME TypeOK, [Next]_vars, NEW w \in Workers,
         requests'[w].kind \in {"accept", "track"}
  PROVE  \/ requests'[w] = requests[w]
         \/ \E q \in Quotes : AcceptRead(w, q) \/ TrackRead(w, q)
<1>1. CASE UNCHANGED requests
  BY <1>1
<1>2. ASSUME NEW v \in Workers, RequestStep(v)
      PROVE  \/ requests'[w] = requests[w]
             \/ \E q \in Quotes : AcceptRead(w, q) \/ TrackRead(w, q)
  <2>1. CASE v # w
    BY <1>2, <2>1
       DEF RequestStep, AcceptRead, AcceptCommit, TrackRead, TrackCommit,
           FinalizeRead, FinalizeCommit, StatusRead, StatusCommit,
           RequestRollback, EndRequest, TypeOK
  <2>2. CASE v = w
    BY <1>2, <2>2
       DEF RequestStep, AcceptCommit, TrackCommit, FinalizeRead,
           FinalizeCommit, StatusRead, StatusCommit, RequestRollback,
           EndRequest, Done, TypeOK
  <2> QED BY <2>1, <2>2
<1> QED BY <1>1, <1>2
        DEF Next, Tick, CreateQuote, GeneratePdf, PutStatus, Reject, Cleanup,
            vars

\* No quotation is ever deleted.
LEMMA RowsStay ==
  ASSUME TypeOK, [Next]_vars, NEW q \in Quotes, Exists(q)
  PROVE  Exists(q)'
<1> USE DEF Exists, TypeOK
<1>1. quotes[q] \in QuoteRow
  OBVIOUS
<1>2. ASSUME NEW p \in Quotes, NEW r \in RFQs \cup {NoRFQ}, CreateQuote(p, r)
      PROVE  Exists(q)'
  BY <1>2 DEF CreateQuote
<1>3. ASSUME NEW p \in Quotes, GeneratePdf(p) PROVE Exists(q)'
  BY <1>1, <1>3 DEF GeneratePdf, QuoteRow
<1>4. ASSUME NEW p \in Quotes, NEW target \in QuotationStatus,
             PutStatus(p, target)
      PROVE  Exists(q)'
  BY <1>1, <1>4 DEF PutStatus, QuoteRow, QuotationStatus
<1>5. ASSUME NEW w \in Workers, AcceptCommit(w) PROVE Exists(q)'
  <2> DEFINE req == requests[w]
             accepted == [quotes[req.quote] EXCEPT !.status = "accepted"]
  <2>1. req.quote \in Quotes
    BY <1>5, RequestFields DEF AcceptCommit, AcceptRequest
  <2>2. accepted.status = "accepted"
        /\ Tracked(accepted, req.saw, FirstStage).status = "accepted"
    BY <2>1 DEF Tracked, QuoteRow
  <2>3. \/ quotes' = [quotes EXCEPT
               ![req.quote] = Tracked(accepted, req.saw, FirstStage)]
        \/ quotes' = [quotes EXCEPT ![req.quote] = accepted]
    BY <1>5 DEF AcceptCommit
  <2> HIDE DEF accepted
  <2> QED BY <2>2, <2>3
<1>6. ASSUME NEW w \in Workers, TrackCommit(w) PROVE Exists(q)'
  BY <1>1, <1>6 DEF TrackCommit, Tracked, QuoteRow
<1>7. ASSUME NEW w \in Workers, FinalizeCommit(w) PROVE Exists(q)'
  BY <1>1, <1>7 DEF FinalizeCommit, QuoteRow
<1>8. CASE Cleanup
  BY <1>1, <1>8 DEF Cleanup, QuoteRow
<1>9. CASE UNCHANGED quotes
  BY <1>9
<1>10. "rejected" \in QuotationStatus
  BY DEF QuotationStatus
<1> QED BY <1>2, <1>3, <1>4, <1>5, <1>6, <1>7, <1>8, <1>9, <1>10, PutAssumption
        DEF Next, Reject, RequestStep, Tick, AcceptRead, TrackRead,
            FinalizeRead, StatusRead, StatusCommit, RequestRollback, vars

----------------------------------------------------------------------------
(* The inductive invariant of order tracking *)

\* Some event took q forward into stage st.
Reached(q, st) == \E event \in trail[q] : event.to = st /\ event.from < st

\* Accept and track requests work on an existing quotation and remember a
\* stage that its log has reached.
RequestsAreGrounded ==
  \A w \in Workers : requests[w].kind \in {"accept", "track"} =>
    /\ Exists(requests[w].quote)
    /\ requests[w].saw # NoStage => Reached(requests[w].quote, requests[w].saw)

TrackingInv ==
  /\ TypeOK
  /\ AbsentIsUntracked
  /\ RequestsAreValid
  /\ RequestsAreGrounded
  /\ TrailExplainsTracking

LEMMA TrackingInvInit == Init => TrackingInv
<1> SUFFICES ASSUME Init PROVE TrackingInv
  OBVIOUS
<1>1. TypeOK
  BY DEF Init, TypeOK, NoQuote, Done, QuoteRow, QuotationStatus, MaybeStage,
         NoStage, Request, IdleRequest, RFQStatus
<1>2. AbsentIsUntracked /\ RequestsAreValid /\ RequestsAreGrounded
  BY DEF Init, AbsentIsUntracked, RequestsAreValid, RequestsAreGrounded,
         NoQuote, Done
<1>3. TrailExplainsTracking
  BY DEF Init, TrailExplainsTracking, NoQuote
<1> QED BY <1>1, <1>2, <1>3 DEF TrackingInv

\* A reached stage stays reached.
LEMMA ReachedStays ==
  ASSUME TypeOK, AbsentIsUntracked, RequestsAreValid, [Next]_vars,
         NEW q \in Quotes, NEW st, Reached(q, st)
  PROVE  Reached(q, st)'
<1>1. ASSUME NEW w \in Workers, NEW target \in Stages, Reports(w, target)
      PROVE  trail[q] \subseteq trail'[q]
  BY <1>1 DEF Reports, LogEvent, TypeOK
<1>2. CASE NobodyReports
  BY <1>2 DEF NobodyReports, Reached
<1> QED BY <1>1, <1>2, StepTouchesTracking DEF Reached

\* A report keeps every log and every stage explained.
LEMMA ReportExplained ==
  ASSUME TrackingInv, NEW w \in Workers, NEW target \in Stages,
         Reports(w, target)
  PROVE  TrailExplainsTracking'
<1> DEFINE req == requests[w]
           p == req.quote
           e == [from |-> req.saw, to |-> target]
<1>1. p \in Quotes /\ req.saw \in MaybeStage
      /\ ValidTrackingTransition(req.saw, target)
  BY DEF Reports
<1>2. req.saw # NoStage => Reached(p, req.saw)
  BY DEF Reports, TrackingInv, RequestsAreGrounded
<1>3. e \in TrackingEvent /\ e.from = req.saw /\ e.to = target
  BY <1>1 DEF TrackingEvent
<1>4. trail'[p] = trail[p] \cup {e}
      /\ \A q \in Quotes \ {p} : trail'[q] = trail[q]
  BY <1>1 DEF Reports, LogEvent, TrackingInv, TypeOK
<1>5. quotes'[p].tracking = (IF req.saw = target THEN quotes[p].tracking
                                                 ELSE target)
      /\ \A q \in Quotes \ {p} : quotes'[q].tracking = quotes[q].tracking
  BY DEF Reports
<1>6. NoStage \notin Stages
  BY DEF NoStage, Stages, FirstStage
<1> HIDE DEF e, p, req
<1>7. /\ quotes[p].tracking = NoStage <=> trail[p] = {}
      /\ trail[p] # {} => [from |-> NoStage, to |-> FirstStage] \in trail[p]
      /\ \A event \in trail[p] :
           /\ ValidTrackingTransition(event.from, event.to)
           /\ event.from # NoStage => Reached(p, event.from)
      /\ quotes[p].tracking # NoStage => Reached(p, quotes[p].tracking)
  BY <1>1 DEF TrackingInv, TrailExplainsTracking, Reached
<1>8. trail'[p] # {} /\ quotes'[p].tracking # NoStage
  <2>1. CASE req.saw = target
    <3>1. trail[p] # {}
      BY <1>2, <1>6, <2>1 DEF Reached
    <3> QED BY <1>4, <1>5, <1>7, <2>1, <3>1
  <2>2. CASE req.saw # target
    BY <1>4, <1>5, <1>6, <2>2
  <2> QED BY <2>1, <2>2
<1>9. [from |-> NoStage, to |-> FirstStage] \in trail'[p]
  <2>1. CASE trail[p] = {}
    <3>1. req.saw = NoStage
      BY <1>2, <2>1 DEF Reached
    <3>2. target = FirstStage
      BY <1>1, <3>1 DEF ValidTrackingTransition
    <3>3. e = [from |-> NoStage, to |-> FirstStage]
      BY <3>1, <3>2 DEF e
    <3> QED BY <1>4, <3>3
  <2> QED BY <1>4, <1>7, <2>1
<1>10. ASSUME NEW st, Reached(p, st)
       PROVE  \E event \in trail'[p] : event.to = st /\ event.from < st
  BY <1>4, <1>10 DEF Reached
<1>11. ASSUME NEW event \in trail'[p]
       PROVE  /\ ValidTrackingTransition(event.from, event.to)
              /\ event.from # NoStage => Reached(p, event.from)
  <2>1. CASE event = e
    BY <1>1, <1>2, <1>3, <2>1
  <2> QED BY <1>4, <1>7, <2>1
<1>12. \E event \in trail'[p] :
         event.to = quotes'[p].tracking /\ event.from < quotes'[p].tracking
  <2>1. CASE req.saw = target
    <3>1. Reached(p, quotes'[p].tracking)
      BY <1>5, <1>7, <1>8, <2>1
    <3> QED BY <1>10, <3>1
  <2>2. CASE req.saw # target
    <3>1. req.saw < target
      BY <1>1, <2>2, StageAssumption
         DEF ValidTrackingTransition, MaybeStage, Stages, NoStage, FirstStage
    <3> QED BY <1>3, <1>4, <1>5, <2>2, <3>1
  <2> QED BY <2>1, <2>2
<1>13. \A stage \in ({quotes'[p].tracking} \cup {event.from : event \in trail'[p]})
                      \ {NoStage} :
         \E event \in trail'[p] : event.to = stage /\ event.from < stage
  BY <1>10, <1>11, <1>12
<1>14. ASSUME NEW q \in Quotes \ {p}
       PROVE  trail'[q] = trail[q] /\ quotes'[q].tracking = quotes[q].tracking
  BY <1>4, <1>5
<1> DEFINE Explains(events, tracking) ==
      /\ tracking = NoStage <=> events = {}
      /\ events # {} => [from |-> NoStage, to |-> FirstStage] \in events
      /\ \A event \in events : ValidTrackingTransition(event.from, event.to)
      /\ \A stage \in ({tracking} \cup {event.from : event \in events})
                       \ {NoStage} :
           \E event \in events : event.to = stage /\ event.from < stage
<1>15. Explains(trail'[p], quotes'[p].tracking)
  BY <1>8, <1>9, <1>11, <1>13
<1>16. ASSUME NEW q \in Quotes \ {p} PROVE Explains(trail'[q], quotes'[q].tracking)
  BY <1>14 DEF TrackingInv, TrailExplainsTracking
<1>17. \A q \in Quotes : Explains(trail'[q], quotes'[q].tracking)
  BY <1>15, <1>16
<1> QED BY <1>17 DEF TrailExplainsTracking

LEMMA TrackingInvNext ==
  ASSUME TrackingInv, TypeOK', [Next]_vars
  PROVE  TrackingInv'
<1>1. TypeOK /\ AbsentIsUntracked /\ RequestsAreValid
  BY DEF TrackingInv
<1>2. RequestsAreValid'
  <2> SUFFICES ASSUME NEW w \in Workers, requests'[w].kind = "track"
               PROVE  ValidTrackingTransition(requests'[w].saw,
                                              requests'[w].target)
    BY DEF RequestsAreValid
  <2>1. CASE requests'[w] = requests[w]
    BY <1>1, <2>1 DEF RequestsAreValid
  <2>2. ASSUME NEW q \in Quotes, AcceptRead(w, q) PROVE FALSE
    BY <1>1, <2>2 DEF AcceptRead, TypeOK
  <2>3. ASSUME NEW q \in Quotes, TrackRead(w, q)
        PROVE  ValidTrackingTransition(requests'[w].saw, requests'[w].target)
    BY <1>1, <2>3 DEF TrackRead, TypeOK
  <2> QED BY <1>1, <2>1, <2>2, <2>3, StepTouchesRequest
<1>3. RequestsAreGrounded'
  <2> SUFFICES ASSUME NEW w \in Workers,
                      requests'[w].kind \in {"accept", "track"}
               PROVE  /\ Exists(requests[w].quote)'
                      /\ requests'[w].saw # NoStage =>
                           Reached(requests[w].quote, requests[w].saw)'
    BY DEF RequestsAreGrounded
  <2>1. CASE requests'[w] = requests[w]
    <3>1. PICK q \in Quotes : q = requests[w].quote
      BY <1>1, <2>1, RequestFields DEF TypeOK, AcceptRequest, TrackRequest
    <3>2. Exists(q) /\ (requests[w].saw # NoStage => Reached(q, requests[w].saw))
      BY <2>1, <3>1 DEF TrackingInv, RequestsAreGrounded
    <3>3. Exists(q)'
      BY <1>1, <3>2, RowsStay
    <3>4. ASSUME requests[w].saw # NoStage
          PROVE  \E event \in trail'[q] :
                   event.to = requests[w].saw /\ event.from < requests[w].saw
      <4>1. PICK st : st = requests[w].saw
        OBVIOUS
      <4>2. Reached(q, st)'
        BY <1>1, <3>2, <3>4, <4>1, ReachedStays
      <4> QED BY <4>1, <4>2 DEF Reached
    <3> QED BY <2>1, <3>1, <3>3, <3>4 DEF Exists, Reached
  <2>2. ASSUME NEW q \in Quotes, AcceptRead(w, q) \/ TrackRead(w, q)
        PROVE  /\ Exists(requests[w].quote)'
               /\ requests'[w].saw # NoStage =>
                    Reached(requests[w].quote, requests[w].saw)'
    <3>1. requests'[w].quote = q /\ requests'[w].saw = quotes[q].tracking
          /\ quotes' = quotes /\ trail' = trail /\ Exists(q)
      BY <1>1, <2>2 DEF AcceptRead, TrackRead, TypeOK, Exists, Offered
    <3>2. quotes[q].tracking # NoStage => Reached(q, quotes[q].tracking)
      BY DEF TrackingInv, TrailExplainsTracking, Reached
    <3> QED BY <3>1, <3>2 DEF Exists, Reached
  <2> QED BY <1>1, <2>1, <2>2, StepTouchesRequest
<1>4. AbsentIsUntracked'
  <2> SUFFICES ASSUME NEW q \in Quotes, ~Exists(q)'
               PROVE  quotes'[q].tracking = NoStage
    BY DEF AbsentIsUntracked
  <2>1. ~Exists(q)
    BY <1>1, RowsStay
  <2>2. quotes'[q].tracking = quotes[q].tracking
    BY <1>1, <2>1, StepTouchesTracking
       DEF NobodyReports, Reports, TrackingInv, RequestsAreGrounded
  <2> QED BY <1>1, <2>1, <2>2 DEF AbsentIsUntracked
<1>5. TrailExplainsTracking'
  <2>1. CASE NobodyReports
    BY <2>1 DEF NobodyReports, TrackingInv, TrailExplainsTracking
  <2>2. ASSUME NEW w \in Workers, NEW target \in Stages, Reports(w, target)
        PROVE  TrailExplainsTracking'
    BY <1>1, <2>2, ReportExplained
  <2> QED BY <1>1, <2>1, <2>2, StepTouchesTracking
<1> QED BY <1>2, <1>3, <1>4, <1>5 DEF TrackingInv

LEMMA TrackingInvariance == Spec => []TrackingInv
<1>1. Spec => []TypeOK
  BY TypeCorrect
<1> QED BY <1>1, TrackingInvInit, TrackingInvNext, PTL DEF Spec

\* However many requests race, the audit log explains the stage of each order.
THEOREM TrailIsComplete == Spec => []TrailExplainsTracking
BY TrackingInvariance, PTL DEF TrackingInv

----------------------------------------------------------------------------
(* Acceptance *)

\* An order stays one: tracking never returns to NULL.
LEMMA TrackedStays ==
  ASSUME TrackingInv, [Next]_vars, NEW q \in Quotes,
         quotes[q].tracking # NoStage
  PROVE  quotes'[q].tracking # NoStage
<1>1. NoStage \notin Stages
  BY DEF NoStage, Stages, FirstStage
<1> QED BY <1>1, StepTouchesTracking
        DEF TrackingInv, NobodyReports, Reports

\* No event is ever lost.
LEMMA LogsGrow ==
  ASSUME TrackingInv, [Next]_vars, NEW q \in Quotes
  PROVE  trail[q] \subseteq trail'[q]
<1>1. ASSUME NEW w \in Workers, NEW target \in Stages, Reports(w, target)
      PROVE  trail[q] \subseteq trail'[q]
  BY <1>1 DEF Reports, LogEvent, TrackingInv, TypeOK
<1> QED BY <1>1, StepTouchesTracking DEF TrackingInv, NobodyReports

\* The commit of an accept request leaves an order with its first entry.
LEMMA AcceptStarts ==
  ASSUME TrackingInv, [Next]_vars, NEW w \in Workers, AcceptCommit(w)
  PROVE  LET q == requests[w].quote IN
         /\ quotes'[q].tracking # NoStage
         /\ [from |-> NoStage, to |-> FirstStage] \in trail'[q]
<1> DEFINE req == requests[w]
           q == req.quote
           accepted == [quotes[q] EXCEPT !.status = "accepted"]
<1>1. TypeOK
  BY DEF TrackingInv
<1>2. req \in AcceptRequest /\ req.kind = "accept" /\ q \in Quotes
  BY <1>1, RequestFields DEF AcceptCommit, AcceptRequest, TypeOK
<1>3. CASE req.saw = NoStage
  <2>1. quotes' = [quotes EXCEPT ![q] = Tracked(accepted, req.saw, FirstStage)]
        /\ LogEvent(q, req.saw, FirstStage)
    BY <1>3 DEF AcceptCommit, ValidTrackingTransition
  <2>2. Tracked(accepted, req.saw, FirstStage).tracking = FirstStage
    BY <1>1, <1>2, <1>3 DEF Tracked, QuoteRow, TypeOK, NoStage, FirstStage
  <2> HIDE DEF accepted
  <2>3. quotes'[q].tracking = FirstStage
    BY <1>1, <1>2, <2>1, <2>2 DEF TypeOK
  <2>4. [from |-> NoStage, to |-> FirstStage] \in trail'[q]
    BY <1>1, <1>2, <1>3, <2>1 DEF LogEvent, TypeOK
  <2> QED BY <2>3, <2>4 DEF NoStage, FirstStage
<1>4. CASE req.saw # NoStage
  <2>1. Reached(q, req.saw)
    BY <1>2, <1>4 DEF TrackingInv, RequestsAreGrounded
  <2>2. trail[q] # {}
    BY <2>1 DEF Reached
  <2>3. quotes[q].tracking # NoStage
        /\ [from |-> NoStage, to |-> FirstStage] \in trail[q]
    BY <1>2, <2>2 DEF TrackingInv, TrailExplainsTracking
  <2> QED BY <1>2, <2>3, TrackedStays, LogsGrow
<1> QED BY <1>3, <1>4

\* Whatever other requests do meanwhile, a quotation its client accepts is an
\* order from that commit on.
THEOREM AcceptanceMakesOrder == Spec => AcceptanceStartsOrder
<1>1. TrackingInv /\ [Next]_vars
        => [\A w \in Workers : AcceptCommit(w) =>
              LET q == requests[w].quote IN
              /\ quotes'[q].tracking # NoStage
              /\ [from |-> NoStage, to |-> FirstStage] \in trail'[q]]_vars
  BY AcceptStarts
<1> QED BY <1>1, TrackingInvariance, PTL DEF Spec, AcceptanceStartsOrder

----------------------------------------------------------------------------
(* Tracking implements OrderPipeline, however many requests overlap *)

\* A report is a step of the pipeline, whatever stage its request had read.
LEMMA ReportIsAStep ==
  ASSUME TrackingInv, NEW w \in Workers, NEW target \in Stages,
         Reports(w, target)
  PROVE  Pipeline!Next
<1>0. PICK p \in Quotes, saw \in MaybeStage :
        p = requests[w].quote /\ saw = requests[w].saw
  BY DEF Reports
<1> DEFINE stage == [q \in Quotes |-> quotes[q].tracking]
<1>1. ValidTrackingTransition(saw, target)
  BY <1>0 DEF Reports
<1>2. saw # NoStage => \E event \in trail[p] : event.to = saw
  BY <1>0 DEF Reports, TrackingInv, RequestsAreGrounded, Reached
<1>3. Pipeline!Log(p, saw, target)
  BY <1>0 DEF Reports, LogEvent, Pipeline!Log
<1>4. quotes'[p].tracking = (IF saw = target THEN quotes[p].tracking ELSE target)
      /\ \A q \in Quotes \ {p} : quotes'[q].tracking = quotes[q].tracking
  BY <1>0 DEF Reports
<1>5. [q \in Quotes |-> quotes'[q].tracking]
        = IF saw = target THEN stage ELSE [stage EXCEPT ![p] = target]
  BY <1>1, <1>4
<1>6. target \in Pipeline!Stages
  BY DEF Stages, Pipeline!Stages, FirstStage, Pipeline!FirstStage
<1>7. CASE saw = NoStage
  <2>1. target = FirstStage /\ saw # target
    BY <1>1, <1>7 DEF ValidTrackingTransition, NoStage, FirstStage
  <2>2. Pipeline!Start(p)
    BY <1>3, <1>5, <1>7, <2>1
       DEF Pipeline!Start, Pipeline!NoStage, Pipeline!FirstStage, NoStage,
           FirstStage
  <2> QED BY <1>1, <2>2 DEF Pipeline!Next
<1>8. CASE saw # NoStage
  <2>1. saw \in Pipeline!Stages /\ saw <= target
    BY <1>1, <1>8
       DEF ValidTrackingTransition, MaybeStage, Stages, Pipeline!Stages,
           FirstStage, Pipeline!FirstStage
  <2>2. saw \in Pipeline!Reached(p)
    BY <1>2, <1>8 DEF Pipeline!Reached
  <2>3. CASE saw = target
    <3>1. Pipeline!Confirm(p, saw)
      BY <1>3, <1>5, <2>2, <2>3 DEF Pipeline!Confirm
    <3> QED BY <1>1, <2>1, <3>1 DEF Pipeline!Next
  <2>4. CASE saw # target
    <3>1. saw < target
      BY <1>6, <2>1, <2>4 DEF Pipeline!Stages, Pipeline!FirstStage
    <3>2. Pipeline!Advance(p, saw, target)
      BY <1>3, <1>5, <2>2, <2>4, <3>1 DEF Pipeline!Advance
    <3> QED BY <1>1, <1>6, <2>1, <3>2 DEF Pipeline!Next
  <2> QED BY <2>3, <2>4
<1> QED BY <1>7, <1>8

\* Accept and track requests implement OrderPipeline: an event departs from a
\* stage its order has reached, also when other requests reported in between.
THEOREM TrackingImplementsPipeline == Spec => TrackingIsAPipeline
<1>1. Init => Pipeline!Init
  BY DEF Init, Pipeline!Init, Pipeline!NoStage, NoStage, NoQuote
<1>2. TrackingInv /\ [Next]_vars => [Pipeline!Next]_(Pipeline!pipelineVars)
  <2> SUFFICES ASSUME TrackingInv, [Next]_vars
               PROVE  [Pipeline!Next]_(Pipeline!pipelineVars)
    OBVIOUS
  <2>1. CASE NobodyReports
    BY <2>1 DEF NobodyReports, Pipeline!pipelineVars
  <2>2. ASSUME NEW w \in Workers, NEW target \in Stages, Reports(w, target)
        PROVE  Pipeline!Next
    BY <2>2, ReportIsAStep
  <2> QED BY <2>1, <2>2, StepTouchesTracking DEF TrackingInv
<1> QED BY <1>1, <1>2, TrackingInvariance, PTL
        DEF Spec, TrackingIsAPipeline, Pipeline!Spec

----------------------------------------------------------------------------
(* Finalizing advances the RFQ, however late it commits *)

\* A finalize request in flight that saw its RFQ past `processing` is right:
\* the RFQ is not open, and no status request will open it again.
RfqInv ==
  /\ TypeOK
  /\ \A w \in Workers :
       /\ requests[w].kind = "status" => requests[w].target # "open"
       /\ requests[w].kind = "finalize" =>
            /\ Exists(requests[w].quote)
            /\ \A r \in RFQs : quotes[requests[w].quote].rfq = r =>
                 requests[w].sawPreQuoted \/ rfqStatus[r] # "open"

\* Nobody writes the status of an RFQ but a finalize or a status request.
LEMMA StepTouchesRfq ==
  ASSUME [Next]_vars
  PROVE  UNCHANGED rfqStatus \/ \E w \in Workers : FinalizeCommit(w) \/ StatusCommit(w)
BY DEF Next, Tick, CreateQuote, GeneratePdf, PutStatus, Reject, RequestStep, AcceptRead,
       AcceptCommit, TrackRead, TrackCommit, FinalizeRead, StatusRead, RequestRollback,
       Cleanup, vars

\* A request on an RFQ in flight is the one it was, or has just read.
LEMMA StepTouchesRfqRequest ==
  ASSUME TypeOK, [Next]_vars, NEW w \in Workers,
         requests'[w].kind \in {"finalize", "status"}
  PROVE  \/ requests'[w] = requests[w]
         \/ \E q \in Quotes : FinalizeRead(w, q)
         \/ \E r \in RFQs : StatusRead(w, r)
<1>1. CASE UNCHANGED requests
  BY <1>1
<1>2. ASSUME NEW v \in Workers, RequestStep(v)
      PROVE  \/ requests'[w] = requests[w]
             \/ \E q \in Quotes : FinalizeRead(w, q)
             \/ \E r \in RFQs : StatusRead(w, r)
  <2>1. CASE v # w
    BY <1>2, <2>1
       DEF RequestStep, AcceptRead, AcceptCommit, TrackRead, TrackCommit,
           FinalizeRead, FinalizeCommit, StatusRead, StatusCommit,
           RequestRollback, EndRequest, TypeOK
  <2>2. CASE v = w
    BY <1>2, <2>2
       DEF RequestStep, AcceptRead, AcceptCommit, TrackRead, TrackCommit,
           FinalizeCommit, StatusCommit, RequestRollback, EndRequest, Done, TypeOK
  <2> QED BY <2>1, <2>2
<1> QED BY <1>1, <1>2
        DEF Next, Tick, CreateQuote, GeneratePdf, PutStatus, Reject, Cleanup, vars

\* A quotation keeps its RFQ.
LEMMA RfqStays ==
  ASSUME TypeOK, [Next]_vars, NEW q \in Quotes, Exists(q)
  PROVE  quotes'[q].rfq = quotes[q].rfq
<1> USE DEF TypeOK
<1>1. quotes[q] \in QuoteRow
  OBVIOUS
<1>2. ASSUME NEW p \in Quotes, NEW r \in RFQs \cup {NoRFQ}, CreateQuote(p, r)
      PROVE  quotes'[q].rfq = quotes[q].rfq
  BY <1>2 DEF CreateQuote, Exists
<1>3. ASSUME NEW p \in Quotes, GeneratePdf(p) PROVE quotes'[q].rfq = quotes[q].rfq
  BY <1>1, <1>3 DEF GeneratePdf, QuoteRow
<1>4. ASSUME NEW p \in Quotes, NEW target, PutStatus(p, target)
      PROVE  quotes'[q].rfq = quotes[q].rfq
  BY <1>1, <1>4 DEF PutStatus, QuoteRow
<1>5. ASSUME NEW w \in Workers, AcceptCommit(w) PROVE quotes'[q].rfq = quotes[q].rfq
  <2> DEFINE req == requests[w]
             accepted == [quotes[req.quote] EXCEPT !.status = "accepted"]
  <2>1. req.quote \in Quotes
    BY <1>5, RequestFields DEF AcceptCommit, AcceptRequest
  <2>2. /\ accepted.rfq = quotes[req.quote].rfq
        /\ Tracked(accepted, req.saw, FirstStage).rfq = quotes[req.quote].rfq
    BY <2>1 DEF Tracked, QuoteRow
  <2>3. \/ quotes' = [quotes EXCEPT
               ![req.quote] = Tracked(accepted, req.saw, FirstStage)]
        \/ quotes' = [quotes EXCEPT ![req.quote] = accepted]
    BY <1>5 DEF AcceptCommit
  <2> HIDE DEF accepted
  <2> QED BY <2>2, <2>3
<1>6. ASSUME NEW w \in Workers, TrackCommit(w) PROVE quotes'[q].rfq = quotes[q].rfq
  BY <1>1, <1>6 DEF TrackCommit, Tracked, QuoteRow
<1>7. ASSUME NEW w \in Workers, FinalizeCommit(w) PROVE quotes'[q].rfq = quotes[q].rfq
  BY <1>1, <1>7 DEF FinalizeCommit, QuoteRow
<1>8. CASE Cleanup
  BY <1>1, <1>8 DEF Cleanup, QuoteRow
<1>9. CASE UNCHANGED quotes
  BY <1>9
<1> QED BY <1>2, <1>3, <1>4, <1>5, <1>6, <1>7, <1>8, <1>9
        DEF Next, Reject, RequestStep, Tick, AcceptRead, TrackRead,
            FinalizeRead, StatusRead, StatusCommit, RequestRollback, vars

\* The transition table never leads back to open.
LEMMA NothingOpensAgain ==
  \A status \in RFQStatus : "open" \notin ValidTransitions[status]
BY DEF ValidTransitions, RFQStatus

\* An RFQ that has left open stays out of it.
LEMMA OpenedOnce ==
  ASSUME RfqInv, [Next]_vars, NEW r \in RFQs, rfqStatus[r] # "open"
  PROVE  rfqStatus'[r] # "open"
<1>1. ASSUME NEW w \in Workers, FinalizeCommit(w) PROVE rfqStatus'[r] # "open"
  BY <1>1 DEF FinalizeCommit
<1>2. ASSUME NEW w \in Workers, StatusCommit(w) PROVE rfqStatus'[r] # "open"
  BY <1>2 DEF StatusCommit, RfqInv, TypeOK
<1> QED BY <1>1, <1>2, StepTouchesRfq

LEMMA RfqInvNext ==
  ASSUME RfqInv, TypeOK', [Next]_vars
  PROVE  RfqInv'
<1> SUFFICES ASSUME NEW w \in Workers, requests'[w].kind \in {"finalize", "status"}
             PROVE  /\ requests'[w].kind = "status" => requests'[w].target # "open"
                    /\ requests'[w].kind = "finalize" =>
                         /\ Exists(requests[w].quote)'
                         /\ \A r \in RFQs : quotes'[requests'[w].quote].rfq = r =>
                              requests'[w].sawPreQuoted \/ rfqStatus'[r] # "open"
  BY DEF RfqInv
<1>1. TypeOK
  BY DEF RfqInv
<1>2. ASSUME NEW q \in Quotes, FinalizeRead(w, q)
      PROVE  /\ requests'[w].kind = "finalize"
             /\ Exists(requests[w].quote)'
             /\ \A r \in RFQs : quotes'[requests'[w].quote].rfq = r =>
                  requests'[w].sawPreQuoted \/ rfqStatus'[r] # "open"
  <2>1. /\ requests'[w].kind = "finalize" /\ requests'[w].quote = q
        /\ Exists(q) /\ quotes' = quotes /\ rfqStatus' = rfqStatus
    BY <1>1, <1>2 DEF FinalizeRead, TypeOK
  <2>2. requests'[w].sawPreQuoted
          = \E r \in RFQs : r = quotes[q].rfq /\ PreQuoted(rfqStatus[r])
    BY <1>1, <1>2 DEF FinalizeRead, TypeOK
  <2>3. ASSUME NEW r \in RFQs, quotes[q].rfq = r, rfqStatus[r] = "open"
        PROVE  requests'[w].sawPreQuoted
    <3>1. PreQuoted(rfqStatus[r])
      BY <2>3 DEF PreQuoted
    <3> QED BY <2>2, <2>3, <3>1, Zenon
  <2> QED BY <2>1, <2>3 DEF Exists
<1>3. ASSUME NEW r \in RFQs, StatusRead(w, r)
      PROVE  requests'[w].kind = "status" /\ requests'[w].target # "open"
  BY <1>1, <1>3, NothingOpensAgain DEF StatusRead, TypeOK
<1>4. CASE requests'[w] = requests[w]
  <2>1. ASSUME requests[w].kind = "finalize"
        PROVE  /\ Exists(requests[w].quote)'
               /\ \A r \in RFQs : quotes'[requests[w].quote].rfq = r =>
                    requests[w].sawPreQuoted \/ rfqStatus'[r] # "open"
    <3>1. PICK q \in Quotes : q = requests[w].quote
      BY <1>1, <2>1, RequestFields DEF TypeOK, FinalizeRequest
    <3>2. Exists(q)
      BY <2>1, <3>1 DEF RfqInv
    <3>3. Exists(q)' /\ quotes'[q].rfq = quotes[q].rfq
      BY <1>1, <3>2, RowsStay, RfqStays
    <3>4. ASSUME NEW r \in RFQs, quotes[q].rfq = r, ~requests[w].sawPreQuoted
          PROVE  rfqStatus'[r] # "open"
      <4>1. rfqStatus[r] # "open"
        BY <2>1, <3>1, <3>4 DEF RfqInv
      <4> QED BY <4>1, OpenedOnce
    <3> QED BY <1>4, <3>1, <3>3, <3>4 DEF Exists
  <2> QED BY <1>4, <2>1 DEF RfqInv
<1> QED BY <1>1, <1>2, <1>3, <1>4, StepTouchesRfqRequest

\* A finalize request that commits leaves its RFQ advanced, whatever statuses
\* others committed between its reading and its commit.
THEOREM FinalizingAdvances == Spec => FinalizeAdvancesRfq
<1>1. Init /\ TypeOK => RfqInv
  BY DEF Init, RfqInv, Done
<1>2. RfqInv /\ [Next]_vars
        => [\A w \in Workers : FinalizeCommit(w) =>
              \A r \in RFQs : quotes[requests[w].quote].rfq = r
                => rfqStatus'[r] # "open"]_vars
  <2> SUFFICES ASSUME RfqInv, NEW w \in Workers, FinalizeCommit(w),
                      NEW r \in RFQs, quotes[requests[w].quote].rfq = r
               PROVE  rfqStatus'[r] # "open"
    OBVIOUS
  <2>1. requests[w].sawPreQuoted \/ rfqStatus[r] # "open"
    BY DEF RfqInv, FinalizeCommit
  <2>2. rfqStatus'[r]
          = IF r = quotes[requests[w].quote].rfq /\ requests[w].sawPreQuoted
              THEN "quoted" ELSE rfqStatus[r]
    BY DEF FinalizeCommit
  <2> QED BY <2>1, <2>2
<1>3. Spec => []TypeOK
  BY TypeCorrect
<1>4. RfqInv /\ TypeOK' /\ [Next]_vars => RfqInv'
  BY RfqInvNext
<1> QED BY <1>1, <1>2, <1>3, <1>4, PTL DEF Spec, FinalizeAdvancesRfq
=============================================================================
