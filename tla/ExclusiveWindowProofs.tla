------------------------ MODULE ExclusiveWindowProofs ------------------------
(* Theorems about ExclusiveWindow, for every value of its constants. *)
EXTENDS ExclusiveWindow, TLAPS

----------------------------------------------------------------------------
(* Lemmas about the shapes of values *)

\* The kind of a request says which fields it has.
LEMMA RequestFields ==
  ASSUME NEW req \in Request
  PROVE  /\ req.kind = "status" => req \in StatusRequest
         /\ req.kind = "match-read" => req \in ReadRequest
         /\ req.kind = "match-scored" => req \in ScoredRequest
         /\ req.kind = "claim" => req \in ClaimRequest
BY DEF Request, IdleRequest, StatusRequest, ReadRequest, ScoredRequest,
       ClaimRequest

\* The transition table only leads to statuses an RFQ can have.
LEMMA TransitionsLeadToStatuses ==
  \A status \in RFQStatus : ValidTransitions[status] \subseteq RFQStatus
BY DEF ValidTransitions, RFQStatus

\* A request that ends leaves every worker with a well-formed request.
LEMMA EndRequestType ==
  ASSUME requests \in [Workers -> Request], NEW w \in Workers,
         NEW failure \in Failures, EndRequest(w, failure)
  PROVE  requests' \in [Workers -> Request]
<1>1. Done(failure) \in Request
  BY DEF Done, Request, IdleRequest
<1> QED BY <1>1 DEF EndRequest

\* Expiring some of an RFQ's matches leaves well-formed rows.
LEMMA ExpireType ==
  ASSUME matches \in [RFQs -> [Suppliers -> MatchRow]], NEW r \in RFQs,
         NEW over
  PROVE  Expire(r, over) \in [Suppliers -> MatchRow]
<1>1. ASSUME NEW s \in Suppliers
      PROVE  [matches[r][s] EXCEPT !.status = "expired"] \in MatchRow
  <2>1. matches[r][s] \in MatchRow
    OBVIOUS
  <2> QED BY <2>1 DEF MatchRow, MatchStatus
<1> QED BY <1>1 DEF Expire

----------------------------------------------------------------------------
(* Type correctness *)

\* Every reachable state has well-formed rows, requests and sweep.
THEOREM TypeCorrect == Spec => []TypeOK
<1>1. Init => TypeOK
  BY DEF Init, TypeOK, NoRFQ, NoMatch, Done, SweepIdle, RFQRow, MatchRow,
         RFQRowStatus, RFQStatus, MatchStatus, Deadlines, NoDeadline,
         Request, IdleRequest, Failures, Sweep
<1>2. TypeOK /\ [Next]_vars => TypeOK'
  <2> SUFFICES ASSUME TypeOK, [Next]_vars PROVE TypeOK'
    OBVIOUS
  <2> USE DEF TypeOK
  <2>1. CASE Tick
    BY <2>1 DEF Tick
  <2>2. ASSUME NEW r \in RFQs, CreateRFQ(r) PROVE TypeOK'
    BY <2>2 DEF CreateRFQ, RFQRow, RFQRowStatus, RFQStatus
  <2>3. ASSUME NEW w \in Workers, RequestStep(w) PROVE TypeOK'
    <3>1. ASSUME NEW r \in RFQs, StatusRead(w, r) PROVE TypeOK'
      <4>1. rfqs[r].status \in RFQStatus
        BY <3>1 DEF StatusRead, Exists, RFQRow, RFQRowStatus
      <4>2. PICK target \in ValidTransitions[rfqs[r].status] :
              requests' = [requests EXCEPT
                ![w] = [kind |-> "status", rfq |-> r, target |-> target]]
        BY <3>1 DEF StatusRead
      <4>3. [kind |-> "status", rfq |-> r, target |-> target] \in Request
        BY <4>1, TransitionsLeadToStatuses DEF Request, StatusRequest
      <4> QED BY <3>1, <4>2, <4>3 DEF StatusRead
    <3>2. CASE StatusCommit(w)
      <4>1. requests[w].rfq \in RFQs /\ requests[w].target \in RFQStatus
        BY <3>2, RequestFields DEF StatusCommit, StatusRequest
      <4>2. requests' \in [Workers -> Request]
        BY <3>2, EndRequestType DEF StatusCommit, Failures
      <4>3. rfqs' \in [RFQs -> RFQRow]
        BY <3>2, <4>1 DEF StatusCommit, RFQRow, RFQRowStatus
      <4> QED BY <3>2, <4>2, <4>3 DEF StatusCommit
    <3>3. ASSUME NEW r \in RFQs, MatchRead(w, r) PROVE TypeOK'
      <4>1. [kind |-> "match-read", rfq |-> r,
             sawPublic |-> rfqs[r].isPublic] \in Request
        BY DEF Request, ReadRequest, RFQRow
      <4> QED BY <3>3, <4>1 DEF MatchRead
    <3>4. CASE MatchNoCategories(w) \/ MatchConflict(w) \/ RequestRollback(w)
      BY <3>4, EndRequestType
         DEF MatchNoCategories, MatchConflict, RequestRollback, Failures
    <3>5. CASE MatchNoSupplier(w)
      <4>1. requests[w] \in ReadRequest
        BY <3>5, RequestFields DEF MatchNoSupplier
      <4>2. requests' \in [Workers -> Request]
        BY <3>5, EndRequestType DEF MatchNoSupplier, Failures
      <4>3. rfqs' \in [RFQs -> RFQRow]
        <5> DEFINE r == requests[w].rfq
                   public == WritePublic(rfqs[r].isPublic,
                                         requests[w].sawPublic, TRUE)
        <5>1. r \in RFQs /\ public \in BOOLEAN
          BY <4>1 DEF ReadRequest, RFQRow, WritePublic
        <5>2. rfqs' = [rfqs EXCEPT ![r] = [rfqs[r] EXCEPT !.isPublic = public]]
          BY <3>5 DEF MatchNoSupplier
        <5> HIDE DEF r, public
        <5> QED BY <5>1, <5>2 DEF RFQRow
      <4> QED BY <3>5, <4>2, <4>3 DEF MatchNoSupplier
    <3>6. CASE MatchScore(w)
      <4>1. requests[w] \in ReadRequest
        BY <3>6, RequestFields DEF MatchScore
      <4>2. PICK qualified \in Catalogue \ {{}} :
              \E top \in TopMatches(qualified) : requests' = [requests EXCEPT
                ![w] = [kind |-> "match-scored", rfq |-> requests[w].rfq,
                        sawPublic |-> requests[w].sawPublic, top |-> top,
                        deadline |-> clock + Window]]
        BY <3>6 DEF MatchScore
      <4> PICK top \in TopMatches(qualified) : requests' =
              [requests EXCEPT
                ![w] = [kind |-> "match-scored", rfq |-> requests[w].rfq,
                        sawPublic |-> requests[w].sawPublic, top |-> top,
                        deadline |-> clock + Window]]
        BY <4>2
      <4>3. top \in SUBSET Suppliers
        BY CatalogueAssumption DEF TopMatches
      <4>4. [kind |-> "match-scored", rfq |-> requests[w].rfq,
             sawPublic |-> requests[w].sawPublic, top |-> top,
             deadline |-> clock + Window] \in Request
        BY <4>1, <4>3, WindowAssumption DEF Request, ReadRequest, ScoredRequest
      <4> QED BY <3>6, <4>2, <4>4 DEF MatchScore
    <3>7. CASE MatchCommit(w)
      <4>1. requests[w] \in ScoredRequest
        BY <3>7, RequestFields DEF MatchCommit
      <4>2. requests' \in [Workers -> Request]
        BY <3>7, EndRequestType DEF MatchCommit, Failures
      <4>3. rfqs' \in [RFQs -> RFQRow]
        <5> DEFINE r == requests[w].rfq
                   public == WritePublic(rfqs[r].isPublic,
                                         requests[w].sawPublic, FALSE)
        <5>1. r \in RFQs /\ public \in BOOLEAN
          BY <4>1 DEF ScoredRequest, RFQRow, WritePublic
        <5>2. rfqs' = [rfqs EXCEPT ![r] =
                [rfqs[r] EXCEPT !.matchedIds = requests[w].top,
                                !.deadline = requests[w].deadline,
                                !.isPublic = public]]
          BY <3>7 DEF MatchCommit, Matched
        <5>3. requests[w].top \in SUBSET Suppliers
              /\ requests[w].deadline \in Deadlines
          BY <4>1 DEF ScoredRequest, Deadlines
        <5> HIDE DEF r, public
        <5> QED BY <5>1, <5>2, <5>3 DEF RFQRow
      <4>4. matches' \in [RFQs -> [Suppliers -> MatchRow]]
        BY <3>7, <4>1
           DEF MatchCommit, ScoredRequest, MatchRow, MatchStatus, Deadlines
      <4> QED BY <3>7, <4>2, <4>3, <4>4 DEF MatchCommit
    <3>8. ASSUME NEW r \in RFQs, NEW s \in Suppliers, ClaimRead(w, r, s)
          PROVE  TypeOK'
      BY <3>8 DEF ClaimRead, Request, ClaimRequest
    <3>9. CASE ClaimCommit(w)
      <4>1. requests[w] \in ClaimRequest
        BY <3>9, RequestFields DEF ClaimCommit
      <4>2. requests' \in [Workers -> Request]
        BY <3>9, EndRequestType DEF ClaimCommit, Failures
      <4>3. matches' \in [RFQs -> [Suppliers -> MatchRow]]
        BY <3>9, <4>1
           DEF ClaimCommit, ClaimRequest, MatchRow, MatchStatus, Answers
      <4> QED BY <3>9, <4>2, <4>3 DEF ClaimCommit
    <3>10. ASSUME NEW r \in RFQs, NEW s \in Suppliers, ClaimCrash(w, r, s)
           PROVE  TypeOK'
      BY <3>10, EndRequestType DEF ClaimCrash, Failures
    <3> QED BY <2>3, <3>1, <3>2, <3>3, <3>4, <3>5, <3>6, <3>7, <3>8, <3>9,
               <3>10 DEF RequestStep
  <2>4. CASE SweepStart \/ SweepMatches \/ SweepFail
    <3>1. CASE SweepStart
      BY <3>1 DEF SweepStart, Sweep
    <3>2. CASE SweepMatches
      <4>1. {p \in RFQs \X Suppliers : Stale(p[1], p[2], sweep.now)}
              \in SUBSET (RFQs \X Suppliers)
        OBVIOUS
      <4> QED BY <3>2, <4>1 DEF SweepMatches, Sweep
    <3>3. CASE SweepFail
      BY <3>3 DEF SweepFail, Sweep, SweepIdle
    <3> QED BY <2>4, <3>1, <3>2, <3>3
  <2>5. CASE SweepCommit
    <3>1. sweep' \in Sweep
      BY <2>5 DEF SweepCommit, Sweep, SweepIdle
    <3>2. matches' \in [RFQs -> [Suppliers -> MatchRow]]
      BY <2>5, ExpireType DEF SweepCommit
    <3>3. rfqs' \in [RFQs -> RFQRow]
      BY <2>5 DEF SweepCommit, RFQRow
    <3> QED BY <2>5, <3>1, <3>2, <3>3 DEF SweepCommit
  <2>6. ASSUME NEW r \in RFQs, OpenToPublicPool(r) PROVE TypeOK'
    BY <2>6, ExpireType DEF OpenToPublicPool, RFQRow
  <2>7. CASE UNCHANGED vars
    BY <2>7 DEF vars
  <2> QED BY <2>1, <2>2, <2>3, <2>4, <2>5, <2>6, <2>7 DEF Next, SweepStep
<1> QED BY <1>1, <1>2, PTL DEF Spec
----------------------------------------------------------------------------
(* What one step may do to a row, a deadline or the sweep's locks *)

\* The five things that can happen to a match in a step.
MatchCreated(r, s) ==
  /\ matches[r][s].status = "absent"
  /\ matches'[r][s].status = "pending"
  /\ matches'[r][s].deadline \in Nat
  /\ rfqs'[r].deadline = matches'[r][s].deadline
MatchAnswered(r, s) ==
  /\ <<r, s>> \notin sweep.locked
  /\ matches'[r][s].status \in Answers
MatchSwept(r, s) ==
  /\ <<r, s>> \in sweep.locked
  /\ matches'[r][s].status = "expired"
  /\ sweep' = SweepIdle
MatchOpened(r, s) ==
  /\ <<r, s>> \notin sweep.locked
  /\ matches[r][s].status = "pending"
  /\ matches'[r][s].status = "expired"

\* A request in flight touches a match only by creating or answering it.
LEMMA RequestTouchesMatch ==
  ASSUME TypeOK, NEW w \in Workers, RequestStep(w),
         NEW r \in RFQs, NEW s \in Suppliers
  PROVE  \/ matches'[r][s] = matches[r][s]
         \/ MatchCreated(r, s)
         \/ MatchAnswered(r, s)
<1>1. CASE MatchCommit(w)
  <2>1. requests[w] \in ScoredRequest
    BY <1>1, RequestFields DEF MatchCommit, TypeOK
  <2>2. CASE r = requests[w].rfq /\ s \in requests[w].top
    <3>1. matches[r][s].status = "absent"
      BY <1>1, <2>2 DEF MatchCommit, Conflicts
    <3>2. matches'[r][s] = [status |-> "pending",
                           deadline |-> requests[w].deadline]
      BY <1>1, <2>2 DEF MatchCommit, TypeOK
    <3>3. rfqs'[r].deadline = requests[w].deadline
      BY <1>1, <2>2 DEF MatchCommit, Matched, TypeOK, RFQRow
    <3> QED BY <2>1, <3>1, <3>2, <3>3 DEF MatchCreated, ScoredRequest
  <2>3. CASE ~(r = requests[w].rfq /\ s \in requests[w].top)
    BY <1>1, <2>3 DEF MatchCommit, TypeOK
  <2> QED BY <2>2, <2>3
<1>2. CASE ClaimCommit(w)
  <2>1. requests[w] \in ClaimRequest
    BY <1>2, RequestFields DEF ClaimCommit, TypeOK
  <2>2. CASE r = requests[w].rfq /\ s = requests[w].supplier
    BY <1>2, <2>1, <2>2 DEF ClaimCommit, TypeOK, MatchRow, ClaimRequest,
                            MatchAnswered
  <2>3. CASE ~(r = requests[w].rfq /\ s = requests[w].supplier)
    BY <1>2, <2>1, <2>3 DEF ClaimCommit, TypeOK, ClaimRequest
  <2> QED BY <2>2, <2>3
<1>3. CASE UNCHANGED matches
  BY <1>3
<1>4. MatchCommit(w) \/ ClaimCommit(w) \/ UNCHANGED matches
  BY DEF RequestStep, StatusRead, StatusCommit, MatchRead, MatchNoCategories,
         MatchNoSupplier, MatchScore, MatchConflict, RequestRollback,
         ClaimRead, ClaimCrash
<1> QED BY <1>1, <1>2, <1>3, <1>4

\* The same for every step of the system.
LEMMA StepTouchesMatch ==
  ASSUME TypeOK, [Next]_vars, NEW r \in RFQs, NEW s \in Suppliers
  PROVE  \/ matches'[r][s] = matches[r][s]
         \/ MatchCreated(r, s)
         \/ MatchAnswered(r, s)
         \/ MatchSwept(r, s)
         \/ MatchOpened(r, s)
<1>1. matches[r][s] \in MatchRow
  BY DEF TypeOK
<1>2. CASE \E w \in Workers : RequestStep(w)
  BY <1>2, RequestTouchesMatch
<1>3. CASE SweepCommit
  BY <1>1, <1>3 DEF SweepCommit, Expire, MatchRow, MatchSwept
<1>4. ASSUME NEW q \in RFQs, OpenToPublicPool(q)
      PROVE  matches'[r][s] = matches[r][s] \/ MatchOpened(r, s)
  BY <1>1, <1>4 DEF OpenToPublicPool, Expire, MatchRow, MatchOpened, TypeOK
<1>5. CASE UNCHANGED matches
  BY <1>5
<1> QED BY <1>2, <1>3, <1>4, <1>5 DEF Next, SweepStep, Tick, CreateRFQ,
            SweepStart, SweepMatches, SweepFail, vars

\* Only a commit of matching moves an exclusive deadline or the ids of the
\* matched suppliers, and it leaves neither empty-handed.
LEMMA StepTouchesRFQ ==
  ASSUME TypeOK, [Next]_vars, NEW r \in RFQs
  PROVE  \/ rfqs'[r].deadline = rfqs[r].deadline
            /\ rfqs'[r].matchedIds = rfqs[r].matchedIds
         \/ rfqs'[r].deadline \in Nat
            /\ \A s \in rfqs'[r].matchedIds : matches'[r][s].status = "pending"
<1>1. rfqs[r] \in RFQRow
  BY DEF TypeOK
<1>2. ASSUME NEW w \in Workers, MatchCommit(w)
      PROVE  \/ rfqs'[r] = rfqs[r]
             \/ /\ rfqs'[r].deadline \in Nat
                /\ \A s \in rfqs'[r].matchedIds : matches'[r][s].status = "pending"
  <2>1. requests[w] \in ScoredRequest
    BY <1>2, RequestFields DEF MatchCommit, TypeOK
  <2>2. CASE r = requests[w].rfq
    <3>1. rfqs'[r].deadline = requests[w].deadline
          /\ rfqs'[r].matchedIds = requests[w].top
      BY <1>1, <1>2, <2>2 DEF MatchCommit, Matched, TypeOK, RFQRow
    <3>2. \A s \in requests[w].top : matches'[r][s].status = "pending"
      BY <1>2, <2>1, <2>2 DEF MatchCommit, TypeOK, ScoredRequest
    <3> QED BY <2>1, <3>1, <3>2 DEF ScoredRequest
  <2>3. CASE r # requests[w].rfq
    BY <1>2, <2>3 DEF MatchCommit, TypeOK
  <2> QED BY <2>2, <2>3
<1>3. ASSUME NEW w \in Workers, RequestStep(w), ~MatchCommit(w)
      PROVE  rfqs'[r].deadline = rfqs[r].deadline
             /\ rfqs'[r].matchedIds = rfqs[r].matchedIds
  <2>1. CASE StatusCommit(w) \/ MatchNoSupplier(w)
    <3>1. CASE StatusCommit(w)
      BY <1>1, <3>1 DEF StatusCommit, TypeOK, RFQRow
    <3>2. CASE MatchNoSupplier(w)
      <4>1. PICK public : rfqs' = [rfqs EXCEPT
                ![requests[w].rfq] = [rfqs[requests[w].rfq] EXCEPT
                                        !.isPublic = public]]
        BY <3>2 DEF MatchNoSupplier
      <4> QED BY <1>1, <4>1 DEF TypeOK, RFQRow
    <3> QED BY <2>1, <3>1, <3>2
  <2>2. CASE UNCHANGED rfqs
    BY <2>2
  <2> QED BY <1>3, <2>1, <2>2
          DEF RequestStep, StatusRead, MatchRead, MatchNoCategories, MatchScore,
              MatchConflict, RequestRollback, ClaimRead, ClaimCommit, ClaimCrash
<1>4. ASSUME NEW q \in RFQs, CreateRFQ(q) \/ OpenToPublicPool(q)
      PROVE  rfqs'[r].deadline = rfqs[r].deadline
             /\ rfqs'[r].matchedIds = rfqs[r].matchedIds
  <2>1. CASE CreateRFQ(q)
    BY <1>1, <2>1 DEF CreateRFQ, TypeOK, RFQRow
  <2>2. CASE OpenToPublicPool(q)
    BY <1>1, <2>2 DEF OpenToPublicPool, TypeOK, RFQRow
  <2> QED BY <1>4, <2>1, <2>2
<1>5. CASE SweepCommit
  BY <1>1, <1>5 DEF SweepCommit, RFQRow
<1>6. CASE UNCHANGED rfqs
  BY <1>6
<1> QED BY <1>2, <1>3, <1>4, <1>5, <1>6 DEF Next, SweepStep, Tick,
            SweepStart, SweepMatches, SweepFail, vars

\* The sweep locks rows only in its first UPDATE, and only pending ones.
LEMMA StepTouchesLocks ==
  ASSUME TypeOK, [Next]_vars, NEW r \in RFQs, NEW s \in Suppliers,
         <<r, s>> \in sweep'.locked
  PROVE  \/ <<r, s>> \in sweep.locked /\ sweep' = sweep
         \/ matches[r][s].status = "pending" /\ matches' = matches
<1>1. CASE SweepMatches
  BY <1>1 DEF SweepMatches, Stale, TypeOK, Sweep
<1>2. CASE SweepStart \/ SweepCommit \/ SweepFail
  BY <1>2 DEF SweepStart, SweepCommit, SweepFail, SweepIdle
<1>3. CASE UNCHANGED sweep
  BY <1>3
<1> QED BY <1>1, <1>2, <1>3
        DEF Next, SweepStep, Tick, CreateRFQ, RequestStep, StatusRead,
            StatusCommit, MatchRead, MatchNoCategories, MatchNoSupplier,
            MatchScore, MatchCommit, MatchConflict, RequestRollback, ClaimRead,
            ClaimCommit, ClaimCrash, OpenToPublicPool, vars
----------------------------------------------------------------------------
(* The inductive invariant *)

\* The rows the sweep has updated and not committed are still pending: the
\* row lock keeps every other writer away from them until the commit.
SweepHoldsItsRows ==
  \A r \in RFQs, s \in Suppliers :
    <<r, s>> \in sweep.locked => matches[r][s].status = "pending"

WindowInv ==
  /\ TypeOK
  /\ PendingHasDeadlines
  /\ MatchedIdsHaveRows
  /\ SweepHoldsItsRows

LEMMA WindowInvInit == Init => WindowInv
<1> SUFFICES ASSUME Init PROVE WindowInv
  OBVIOUS
<1>1. TypeOK
  BY DEF Init, TypeOK, NoRFQ, NoMatch, Done, SweepIdle, RFQRow, MatchRow,
         RFQRowStatus, RFQStatus, MatchStatus, Deadlines, NoDeadline,
         Request, IdleRequest, Failures, Sweep
<1>2. PendingHasDeadlines /\ MatchedIdsHaveRows /\ SweepHoldsItsRows
  BY DEF Init, PendingHasDeadlines, MatchedIdsHaveRows, SweepHoldsItsRows,
         NoRFQ, NoMatch, SweepIdle
<1> QED BY <1>1, <1>2 DEF WindowInv

LEMMA WindowInvNext == WindowInv /\ TypeOK' /\ [Next]_vars => WindowInv'
<1> SUFFICES ASSUME WindowInv, TypeOK', [Next]_vars PROVE WindowInv'
  OBVIOUS
<1> USE DEF WindowInv
<1>1. PendingHasDeadlines'
  <2> SUFFICES ASSUME NEW r \in RFQs, NEW s \in Suppliers,
                      matches'[r][s].status = "pending"
               PROVE  /\ matches'[r][s].deadline # NoDeadline
                      /\ rfqs'[r].deadline # NoDeadline
    BY DEF PendingHasDeadlines
  <2>1. CASE MatchCreated(r, s)
    BY <2>1 DEF MatchCreated, NoDeadline
  <2>2. CASE matches'[r][s] = matches[r][s]
    BY <2>2, StepTouchesRFQ DEF PendingHasDeadlines, NoDeadline
  <2> QED BY <2>1, <2>2, StepTouchesMatch
          DEF MatchAnswered, MatchSwept, MatchOpened, Answers
<1>2. MatchedIdsHaveRows'
  <2> SUFFICES ASSUME NEW r \in RFQs, NEW s \in rfqs'[r].matchedIds
               PROVE  matches'[r][s].status # "absent"
    BY DEF MatchedIdsHaveRows
  <2>1. s \in Suppliers
    BY DEF TypeOK, RFQRow
  <2>2. CASE rfqs'[r].matchedIds = rfqs[r].matchedIds
    <3>1. matches[r][s].status # "absent"
      BY <2>2 DEF MatchedIdsHaveRows
    <3> QED BY <2>1, <3>1, StepTouchesMatch
            DEF MatchCreated, MatchAnswered, MatchSwept, MatchOpened, Answers
  <2> QED BY <2>2, StepTouchesRFQ
<1>3. SweepHoldsItsRows'
  <2> SUFFICES ASSUME NEW r \in RFQs, NEW s \in Suppliers,
                      <<r, s>> \in sweep'.locked
               PROVE  matches'[r][s].status = "pending"
    BY DEF SweepHoldsItsRows
  <2>1. CASE <<r, s>> \in sweep.locked /\ sweep' = sweep
    <3>1. matches[r][s].status = "pending"
      BY <2>1 DEF SweepHoldsItsRows
    <3> QED BY <2>1, <3>1, StepTouchesMatch
            DEF MatchCreated, MatchAnswered, MatchSwept, MatchOpened, SweepIdle
  <2>2. CASE matches[r][s].status = "pending" /\ matches' = matches
    BY <2>2
  <2> QED BY <2>1, <2>2, StepTouchesLocks
<1> QED BY <1>1, <1>2, <1>3

\* WindowInv holds in every reachable state.
LEMMA WindowInvariance == Spec => []WindowInv
<1>1. Spec => []TypeOK
  BY TypeCorrect
<1> QED BY <1>1, WindowInvInit, WindowInvNext, PTL DEF Spec

----------------------------------------------------------------------------
(* The safety theorems *)

\* No pending match is invisible to the sweep: match and RFQ both have the
\* deadline its two UPDATEs select on.
THEOREM SweepSeesEveryPending == Spec => []PendingHasDeadlines
BY WindowInvariance, PTL DEF WindowInv

\* The denormalised matched_supplier_ids never runs ahead of rfq_matches.
THEOREM IdsAgreeWithRows == Spec => []MatchedIdsHaveRows
BY WindowInvariance, PTL DEF WindowInv

\* Re-matching gives no supplier a second window on the same RFQ.
THEOREM OneWindowPerSupplier == Spec => NoSecondWindow
<1>1. WindowInv /\ [Next]_vars
        => [\A r \in RFQs, s \in Suppliers :
              matches[r][s].status \notin {"absent", "pending"}
                => matches'[r][s].status # "pending"]_vars
  BY StepTouchesMatch
     DEF WindowInv, MatchCreated, MatchAnswered, MatchSwept, MatchOpened, Answers
<1> QED BY <1>1, WindowInvariance, PTL DEF Spec, NoSecondWindow

\* The sweep and open_rfq_to_public_pool leave every answer alone.
THEOREM AnswersAreKept == Spec => AnswerSurvivesSweep
<1>1. WindowInv /\ [Next]_vars
        => [\A r \in RFQs, s \in Suppliers :
              matches[r][s].status \in Answers
                => matches'[r][s].status # "expired"]_vars
  BY StepTouchesMatch
     DEF WindowInv, SweepHoldsItsRows, MatchCreated, MatchAnswered, MatchSwept,
         MatchOpened, Answers
<1> QED BY <1>1, WindowInvariance, PTL DEF Spec, AnswerSurvivesSweep
----------------------------------------------------------------------------
(* What the sweep expires *)

\* The sweep's clock reading is never ahead of the clock.
NowIsPast == sweep.now <= clock

LEMMA NowStaysPast == WindowInv /\ NowIsPast /\ [Next]_vars => NowIsPast'
<1> SUFFICES ASSUME WindowInv, NowIsPast, [Next]_vars PROVE NowIsPast'
  OBVIOUS
<1> USE DEF NowIsPast, WindowInv, TypeOK
<1>1. CASE Tick
  BY <1>1 DEF Tick, Sweep
<1>2. CASE SweepStep
  <2>1. CASE SweepStart
    BY <2>1 DEF SweepStart
  <2>2. CASE SweepMatches
    BY <2>2 DEF SweepMatches, Sweep
  <2>3. CASE SweepCommit \/ SweepFail
    BY <2>3 DEF SweepCommit, SweepFail, SweepIdle
  <2> QED BY <1>2, <2>1, <2>2, <2>3 DEF SweepStep
<1>3. CASE UNCHANGED <<clock, sweep>>
  BY <1>3
<1> QED BY <1>1, <1>2, <1>3
        DEF Next, CreateRFQ, RequestStep, StatusRead,
            StatusCommit, MatchRead, MatchNoCategories, MatchNoSupplier,
            MatchScore, MatchCommit, MatchConflict, RequestRollback, ClaimRead,
            ClaimCommit, ClaimCrash, OpenToPublicPool, vars

\* A request changes only in a step of its worker, the clock only in a Tick.
LEMMA StepTouchesRequest ==
  ASSUME TypeOK, [Next]_vars, NEW v \in Workers,
         requests'[v].kind = "match-scored"
  PROVE  \/ requests'[v] = requests[v]
            /\ (clock' = clock \/ (clock' = clock + 1 /\ RequestsAreShort))
         \/ MatchScore(v)
<1>1. CASE Tick
  BY <1>1 DEF Tick
<1>2. ASSUME NEW w \in Workers, RequestStep(w), ~MatchScore(v)
      PROVE  requests'[v] = requests[v] /\ clock' = clock
  <2>1. CASE v # w
    BY <1>2, <2>1
       DEF RequestStep, StatusRead, StatusCommit, MatchRead, MatchNoCategories,
           MatchNoSupplier, MatchScore, MatchCommit, MatchConflict,
           RequestRollback, ClaimRead, ClaimCommit, ClaimCrash, EndRequest,
           TypeOK
  <2>2. CASE v = w
    BY <1>2, <2>2
       DEF RequestStep, StatusRead, StatusCommit, MatchRead, MatchNoCategories,
           MatchNoSupplier, MatchCommit, MatchConflict, RequestRollback,
           ClaimRead, ClaimCommit, ClaimCrash, EndRequest, Done, TypeOK
  <2> QED BY <2>1, <2>2
<1>3. CASE UNCHANGED <<clock, requests>>
  BY <1>3
<1> QED BY <1>1, <1>2, <1>3
        DEF Next, CreateRFQ, OpenToPublicPool, SweepStep, SweepStart,
            SweepMatches, SweepCommit, SweepFail, vars

\* A scored request commits before the deadline it is about to write.
ScoredAhead ==
  \A w \in Workers :
    requests[w].kind = "match-scored" => clock < requests[w].deadline

LEMMA ScoredStaysAhead == TypeOK /\ ScoredAhead /\ [Next]_vars => ScoredAhead'
<1> SUFFICES ASSUME TypeOK, ScoredAhead, [Next]_vars, NEW v \in Workers,
                    requests'[v].kind = "match-scored"
             PROVE  clock' < requests'[v].deadline
  BY DEF ScoredAhead
<1>1. CASE requests'[v] = requests[v] /\ clock' = clock
  BY <1>1 DEF ScoredAhead
<1>2. CASE requests'[v] = requests[v] /\ clock' = clock + 1 /\ RequestsAreShort
  BY <1>2 DEF RequestsAreShort
<1>3. CASE MatchScore(v)
  <2>1. requests'[v].deadline = clock + Window /\ clock' = clock
    BY <1>3 DEF MatchScore, TypeOK
  <2> QED BY <2>1, WindowAssumption DEF TypeOK
<1> QED BY <1>1, <1>2, <1>3, StepTouchesRequest

\* A match is created with a deadline that no sweep under way has reached.
LEMMA CreatedAfterSweepsNow ==
  ASSUME TypeOK, ScoredAhead, NowIsPast, [Next]_vars,
         NEW r \in RFQs, NEW s \in Suppliers, MatchCreated(r, s)
  PROVE  ~(matches'[r][s].deadline <= sweep.now)
<1>1. matches'[r][s] # matches[r][s]
  BY DEF MatchCreated
<1>2. ASSUME NEW w \in Workers, MatchCommit(w)
      PROVE  clock < matches'[r][s].deadline
  <2>1. matches'[r][s].deadline = requests[w].deadline
    BY <1>1, <1>2 DEF MatchCommit, TypeOK
  <2> QED BY <1>2, <2>1 DEF MatchCommit, ScoredAhead
<1>3. ASSUME NEW w \in Workers, ClaimCommit(w) PROVE FALSE
  <2>1. requests[w] \in ClaimRequest
    BY <1>3, RequestFields DEF ClaimCommit, TypeOK
  <2>2. r = requests[w].rfq /\ s = requests[w].supplier
    BY <1>1, <1>3, <2>1 DEF ClaimCommit, ClaimRequest, TypeOK
  <2> QED BY <1>3, <2>1, <2>2
          DEF ClaimCommit, ClaimRequest, MatchCreated, Answers, TypeOK, MatchRow
<1>4. ASSUME SweepCommit \/ (\E q \in RFQs : OpenToPublicPool(q)) PROVE FALSE
  <2>1. matches[r][s] \in MatchRow
    BY DEF TypeOK
  <2>2. matches'[r][s].status \in {matches[r][s].status, "expired"}
    <3>1. CASE SweepCommit
      BY <2>1, <3>1 DEF SweepCommit, Expire, MatchRow
    <3>2. ASSUME NEW q \in RFQs, OpenToPublicPool(q)
          PROVE  matches'[r][s].status \in {matches[r][s].status, "expired"}
      BY <2>1, <3>2 DEF OpenToPublicPool, Expire, MatchRow, TypeOK
    <3> QED BY <1>4, <3>1, <3>2
  <2> QED BY <2>2 DEF MatchCreated
<1>5. ~UNCHANGED matches
  BY <1>1
<1>6. clock < matches'[r][s].deadline
  BY <1>2, <1>3, <1>4, <1>5
     DEF Next, SweepStep, Tick, CreateRFQ, RequestStep, StatusRead,
         StatusCommit, MatchRead, MatchNoCategories, MatchNoSupplier,
         MatchScore, MatchConflict, RequestRollback, ClaimRead, ClaimCrash,
         SweepStart, SweepMatches, SweepFail, vars
<1>7. matches'[r][s].deadline \in Nat /\ clock \in Nat /\ sweep.now \in Nat
  BY DEF MatchCreated, TypeOK, Sweep
<1> QED BY <1>6, <1>7 DEF NowIsPast

\* Between its two UPDATEs the sweep holds exactly the matches that are stale
\* at its clock reading: nothing has become stale since.
SweepHoldsTheStale ==
  \A r \in RFQs, s \in Suppliers :
    /\ <<r, s>> \in sweep.locked => matches[r][s].deadline <= sweep.now
    /\ (/\ sweep.pc = "swept"
        /\ matches[r][s].status = "pending"
        /\ matches[r][s].deadline <= sweep.now) => <<r, s>> \in sweep.locked

LEMMA HoldsTheStaleNext ==
  ASSUME WindowInv, NowIsPast, ScoredAhead, SweepHoldsTheStale, [Next]_vars
  PROVE  SweepHoldsTheStale'
<1>1. TypeOK /\ PendingHasDeadlines /\ SweepHoldsItsRows
  BY DEF WindowInv
<1> SUFFICES ASSUME NEW r \in RFQs, NEW s \in Suppliers
             PROVE  /\ <<r, s>> \in sweep'.locked
                         => matches'[r][s].deadline <= sweep'.now
                    /\ (/\ sweep'.pc = "swept"
                        /\ matches'[r][s].status = "pending"
                        /\ matches'[r][s].deadline <= sweep'.now)
                         => <<r, s>> \in sweep'.locked
  BY DEF SweepHoldsTheStale
<1>2. CASE SweepMatches
  BY <1>1, <1>2 DEF SweepMatches, Stale, PendingHasDeadlines, TypeOK, Sweep
<1>3. CASE UNCHANGED sweep
  <2>1. ASSUME <<r, s>> \in sweep.locked PROVE matches'[r][s] = matches[r][s]
    <3>1. matches[r][s].status = "pending" /\ sweep' = sweep
      BY <1>1, <1>3, <2>1 DEF SweepHoldsItsRows
    <3>2. sweep # SweepIdle
      BY <2>1 DEF SweepIdle
    <3> QED BY <1>1, <2>1, <3>1, <3>2, StepTouchesMatch
            DEF MatchCreated, MatchAnswered, MatchSwept, MatchOpened
  <2>2. ASSUME matches'[r][s].status = "pending",
               matches'[r][s].deadline <= sweep.now
        PROVE  matches'[r][s] = matches[r][s]
    <3>1. ~MatchCreated(r, s)
      BY <1>1, <2>2, CreatedAfterSweepsNow
    <3> QED BY <1>1, <2>2, <3>1, StepTouchesMatch
            DEF MatchAnswered, MatchSwept, MatchOpened, Answers
  <2> QED BY <1>3, <2>1, <2>2 DEF SweepHoldsTheStale
<1>4. CASE SweepStart \/ SweepCommit \/ SweepFail
  BY <1>4 DEF SweepStart, SweepCommit, SweepFail, SweepIdle
<1> QED BY <1>2, <1>3, <1>4
        DEF Next, SweepStep, Tick, CreateRFQ, RequestStep, StatusRead,
            StatusCommit, MatchRead, MatchNoCategories, MatchNoSupplier,
            MatchScore, MatchCommit, MatchConflict, RequestRollback,
            ClaimRead, ClaimCommit, ClaimCrash, OpenToPublicPool, vars

\* Whatever matching, answers and status changes commit while the sweep runs,
\* its commit expires the matches that were over at its clock reading, no more
\* and no fewer.
THEOREM SweepExpiresTheStale == Spec => SweepIsExact
<1>1. Init => NowIsPast /\ ScoredAhead /\ SweepHoldsTheStale
  BY DEF Init, NowIsPast, ScoredAhead, SweepHoldsTheStale, SweepIdle, Done
<1>2. ASSUME WindowInv, SweepHoldsTheStale, SweepCommit,
             NEW r \in RFQs, NEW s \in Suppliers
      PROVE  (/\ matches[r][s].status = "pending"
              /\ matches[r][s].deadline <= sweep.now)
               <=> (/\ matches[r][s].status # "expired"
                    /\ matches'[r][s].status = "expired")
  <2>1. matches[r][s] \in MatchRow
    BY <1>2 DEF WindowInv, TypeOK
  <2>2. (/\ matches[r][s].status = "pending"
         /\ matches[r][s].deadline <= sweep.now) <=> <<r, s>> \in sweep.locked
    BY <1>2 DEF WindowInv, SweepHoldsItsRows, SweepHoldsTheStale, SweepCommit
  <2>3. matches'[r][s] = IF <<r, s>> \in sweep.locked
                           THEN [matches[r][s] EXCEPT !.status = "expired"]
                           ELSE matches[r][s]
    BY <1>2 DEF SweepCommit, Expire
  <2> QED BY <2>1, <2>2, <2>3 DEF MatchRow
<1>3. WindowInv /\ SweepHoldsTheStale /\ [Next]_vars
        => [SweepCommit => \A r \in RFQs, s \in Suppliers :
              LET match == matches[r][s] IN
              (match.status = "pending" /\ match.deadline <= sweep.now)
                <=> (match.status # "expired" /\ matches'[r][s].status = "expired")]_vars
  BY <1>2
<1>4. WindowInv => TypeOK
  BY DEF WindowInv
<1>5. WindowInv /\ NowIsPast /\ ScoredAhead /\ SweepHoldsTheStale /\ [Next]_vars
        => SweepHoldsTheStale'
  BY HoldsTheStaleNext
<1> QED BY <1>1, <1>3, <1>4, <1>5, NowStaysPast, ScoredStaysAhead,
           WindowInvariance, PTL DEF Spec, SweepIsExact
=============================================================================
