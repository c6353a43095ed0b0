--------------------------- MODULE ExclusiveWindow ---------------------------
(***************************************************************************)
(* Supplier matching and the exclusive window (app/modules/intake).        *)
(*                                                                         *)
(* An RFQ is matched to suppliers; each match is PENDING until its         *)
(* supplier answers it or a periodic Celery task expires it, and the RFQ   *)
(* stays out of the public pool until its exclusive deadline.              *)
(*                                                                         *)
(* Every HTTP request runs in its own READ COMMITTED transaction without   *)
(* row locks on what it reads: a request is a record in requests[w] that   *)
(* holds what it has read, and its writes land in the step that commits.   *)
(* SQLAlchemy writes a column only when its value differs from the one the *)
(* session loaded, so such a step writes nothing for an unchanged column.  *)
(***************************************************************************)
EXTENDS Integers, FiniteSets, RfqStatus

CONSTANTS
  RFQs,                      \* RFQ rows that may be created
  Suppliers,                 \* agents that may be matched
  Workers,                   \* HTTP requests that may be in flight at once
  Catalogue,                 \* supplier sets one scoring run may qualify
  MaxMatches,                \* MAX_MATCHES_PER_RFQ
  Window,                    \* EXCLUSIVE_WINDOW_HOURS, in clock units
  Horizon,                   \* bound on the clock
  AgentDependencyYieldsUser, \* does Depends(require_agent) return the user?
  ManualOpen                 \* is open_rfq_to_public_pool called at all?

ASSUME CatalogueAssumption == Catalogue \subseteq SUBSET Suppliers
ASSUME WindowAssumption == Window \in Nat \ {0} /\ Horizon \in Nat
ASSUME SwitchAssumption ==
  AgentDependencyYieldsUser \in BOOLEAN /\ ManualOpen \in BOOLEAN

VARIABLES
  clock,    \* datetime.now(timezone.utc)
  rfqs,     \* committed rows of table rfqs
  matches,  \* committed rows of table rfq_matches, unique per (rfq, supplier)
  requests, \* per worker, the request it is serving
  sweep     \* the expire-stale-matches task

vars == <<clock, rfqs, matches, requests, sweep>>

NoDeadline == -1
Deadlines  == Nat \cup {NoDeadline}

MatchStatus == {"pending", "responded", "expired", "declined"}
Answers     == {"responded", "declined"}

RFQRow   == [status: RFQRowStatus, isPublic: BOOLEAN, deadline: Deadlines,
             matchedIds: SUBSET Suppliers]
MatchRow == [status: MatchStatus \cup {"absent"}, deadline: Deadlines]

\* How the worker's last request ended, for the two ways it can crash.
Failures == {"none", "AttributeError", "IntegrityError"}

IdleRequest   == [kind: {"idle"}, failure: Failures]
StatusRequest == [kind: {"status"}, rfq: RFQs, target: RFQStatus]
ReadRequest   == [kind: {"match-read"}, rfq: RFQs, sawPublic: BOOLEAN]
ScoredRequest == [kind: {"match-scored"}, rfq: RFQs, sawPublic: BOOLEAN,
                  top: SUBSET Suppliers, deadline: Nat]
ClaimRequest  == [kind: {"claim"}, rfq: RFQs, supplier: Suppliers,
                  answer: Answers]
Request == IdleRequest \cup StatusRequest \cup ReadRequest
           \cup ScoredRequest \cup ClaimRequest

Sweep == [pc: {"idle", "started", "swept"}, now: Nat,
          locked: SUBSET (RFQs \X Suppliers)]

Done(failure) == [kind |-> "idle", failure |-> failure]
SweepIdle     == [pc |-> "idle", now |-> 0, locked |-> {}]
NoRFQ         == [status |-> "absent", isPublic |-> FALSE,
                  deadline |-> NoDeadline, matchedIds |-> {}]
NoMatch       == [status |-> "absent", deadline |-> NoDeadline]

TypeOK ==
  /\ clock \in Nat
  /\ rfqs \in [RFQs -> RFQRow]
  /\ matches \in [RFQs -> [Suppliers -> MatchRow]]
  /\ requests \in [Workers -> Request]
  /\ sweep \in Sweep

Init ==
  /\ clock = 0
  /\ rfqs = [r \in RFQs |-> NoRFQ]
  /\ matches = [r \in RFQs |-> [s \in Suppliers |-> NoMatch]]
  /\ requests = [w \in Workers |-> Done("none")]
  /\ sweep = SweepIdle

Idle(w)    == requests[w].kind = "idle"
Exists(r)  == rfqs[r].status # "absent"

\* The request of w ends: committed, or rolled back by get_db.
EndRequest(w, failure) ==
  requests' = [requests EXCEPT ![w] = Done(failure)]

\* A matching request is scored and committed within seconds, well inside
\* the window it opens: the clock waits for it before the window is over.
RequestsAreShort ==
  \A w \in Workers : requests[w].kind = "match-scored"
    => clock + 1 < requests[w].deadline

Tick ==
  /\ clock < Horizon
  /\ RequestsAreShort
  /\ clock' = clock + 1
  /\ UNCHANGED <<rfqs, matches, requests, sweep>>

----------------------------------------------------------------------------
(* RFQ rows: creation and the status endpoint *)

CreateRFQ(r) ==
  /\ ~Exists(r)
  /\ rfqs' = [rfqs EXCEPT ![r].status = "open"]
  /\ UNCHANGED <<clock, matches, requests, sweep>>

\* PUT /rfqs/{id}/status reads the row and validates the transition ...
StatusRead(w, r) ==
  /\ Idle(w)
  /\ Exists(r)
  /\ \E target \in ValidTransitions[rfqs[r].status] :
       requests' = [requests EXCEPT
         ![w] = [kind |-> "status", rfq |-> r, target |-> target]]
  /\ UNCHANGED <<clock, rfqs, matches, sweep>>

\* ... and later writes the target with no second look at the status.
StatusCommit(w) ==
  /\ requests[w].kind = "status"
  /\ rfqs' = [rfqs EXCEPT ![requests[w].rfq].status = requests[w].target]
  /\ EndRequest(w, "none")
  /\ UNCHANGED <<clock, matches, sweep>>

----------------------------------------------------------------------------
(* run_matching / match_rfq_to_suppliers *)

MatchRead(w, r) ==
  /\ Idle(w)
  /\ rfqs[r].status = "open"
  /\ requests' = [requests EXCEPT
       ![w] = [kind |-> "match-read", rfq |-> r,
               sawPublic |-> rfqs[r].isPublic]]
  /\ UNCHANGED <<clock, rfqs, matches, sweep>>

\* No category can be extracted from the RFQ: nothing is written.
MatchNoCategories(w) ==
  /\ requests[w].kind = "match-read"
  /\ EndRequest(w, "none")
  /\ UNCHANGED <<clock, rfqs, matches, sweep>>

\* The value a session writes to is_public, given the one it loaded.
WritePublic(current, saw, value) == IF saw = value THEN current ELSE value

\* No supplier, or none above the minimum score: public immediately.
MatchNoSupplier(w) ==
  LET req == requests[w] IN
  /\ req.kind = "match-read"
  /\ {} \in Catalogue
  /\ rfqs' = [rfqs EXCEPT
       ![req.rfq].isPublic = WritePublic(@, req.sawPublic, TRUE)]
  /\ EndRequest(w, "none")
  /\ UNCHANGED <<clock, matches, sweep>>

\* qualified[:MAX_MATCHES_PER_RFQ], whatever the scores.
TopMatches(qualified) ==
  {top \in SUBSET qualified :
     IF Cardinality(qualified) <= MaxMatches
       THEN top = qualified
       ELSE Cardinality(top) = MaxMatches}

\* Scores are known and the deadline is taken from the clock.
MatchScore(w) ==
  LET req == requests[w] IN
  /\ req.kind = "match-read"
  /\ clock + Window <= Horizon
  /\ \E qualified \in Catalogue \ {{}} : \E top \in TopMatches(qualified) :
       requests' = [requests EXCEPT
         ![w] = [kind |-> "match-scored", rfq |-> req.rfq,
                 sawPublic |-> req.sawPublic, top |-> top,
                 deadline |-> clock + Window]]
  /\ UNCHANGED <<clock, rfqs, matches, sweep>>

\* Mutant of Conflicts: the unique constraint is missing.
NoUniqueConstraint(r, top) == FALSE

\* uq_rfq_supplier_match: one match per RFQ and supplier, ever.
Conflicts(r, top) == \E s \in top : matches[r][s].status # "absent"

\* Mutant of Matched: the RFQ keeps its exclusive_deadline.
MatchedUndated(row, req) ==
  [row EXCEPT !.matchedIds = req.top,
              !.isPublic   = WritePublic(@, req.sawPublic, FALSE)]

\* The RFQ row after the update that follows the new matches.
Matched(row, req) ==
  [row EXCEPT !.matchedIds = req.top,
              !.deadline   = req.deadline,
              !.isPublic   = WritePublic(@, req.sawPublic, FALSE)]

MatchCommit(w) ==
  LET req == requests[w] IN
  /\ req.kind = "match-scored"
  /\ ~Conflicts(req.rfq, req.top)
  /\ matches' = [matches EXCEPT ![req.rfq] =
       [s \in Suppliers |->
          IF s \in req.top
            THEN [status |-> "pending", deadline |-> req.deadline]
            ELSE matches[req.rfq][s]]]
  /\ rfqs' = [rfqs EXCEPT ![req.rfq] = Matched(@, req)]
  /\ EndRequest(w, "none")
  /\ UNCHANGED <<clock, sweep>>

\* The flush violates the unique constraint and the request rolls back.
MatchConflict(w) ==
  LET req == requests[w] IN
  /\ req.kind = "match-scored"
  /\ Conflicts(req.rfq, req.top)
  /\ EndRequest(w, "IntegrityError")
  /\ UNCHANGED <<clock, rfqs, matches, sweep>>

----------------------------------------------------------------------------
(* get_db: a failed query or a lost connection rolls the request back *)

RequestRollback(w) ==
  /\ ~Idle(w)
  /\ EndRequest(w, "none")
  /\ UNCHANGED <<clock, rfqs, matches, sweep>>

----------------------------------------------------------------------------
(* POST /matches/{id}/claim *)

\* claim_match passes its ownership, status and deadline checks.  Past the
\* deadline it flushes EXPIRED and raises, and get_db rolls that back.
ClaimRead(w, r, s) ==
  /\ AgentDependencyYieldsUser
  /\ Idle(w)
  /\ matches[r][s].status = "pending"
  /\ clock <= matches[r][s].deadline
  /\ \E answer \in Answers :
       requests' = [requests EXCEPT
         ![w] = [kind |-> "claim", rfq |-> r, supplier |-> s,
                 answer |-> answer]]
  /\ UNCHANGED <<clock, rfqs, matches, sweep>>

\* The UPDATE names only the match id; it waits for a row the sweep holds.
ClaimCommit(w) ==
  LET req == requests[w] IN
  /\ req.kind = "claim"
  /\ <<req.rfq, req.supplier>> \notin sweep.locked
  /\ matches' = [matches EXCEPT ![req.rfq][req.supplier].status = req.answer]
  /\ EndRequest(w, "none")
  /\ UNCHANGED <<clock, rfqs, sweep>>

\* The endpoint binds current_user to the role checker, which returns None:
\* current_user.id raises before claim_match is called.
ClaimCrash(w, r, s) ==
  /\ ~AgentDependencyYieldsUser
  /\ Idle(w)
  /\ matches[r][s].status # "absent"
  /\ EndRequest(w, "AttributeError")
  /\ UNCHANGED <<clock, rfqs, matches, sweep>>

----------------------------------------------------------------------------
(* expire-stale-matches, every five minutes, one transaction *)

SweepStart ==
  /\ sweep.pc = "idle"
  /\ sweep' = [pc |-> "started", now |-> clock, locked |-> {}]
  /\ UNCHANGED <<clock, rfqs, matches, requests>>

\* Mutants of Stale: answered matches are expired too; matches of an RFQ that
\* has moved on are left alone; a match is not stale at its deadline itself.
StaleWhateverStatus(r, s, now) ==
  /\ matches[r][s].status # "absent"
  /\ matches[r][s].deadline <= now
StaleWhileOpen(r, s, now) ==
  /\ rfqs[r].status = "open"
  /\ matches[r][s].status = "pending"
  /\ matches[r][s].deadline <= now

StaleAfterwards(r, s, now) ==
  /\ matches[r][s].status = "pending"
  /\ matches[r][s].deadline < now

Stale(r, s, now) ==
  /\ matches[r][s].status = "pending"
  /\ matches[r][s].deadline # NoDeadline
  /\ matches[r][s].deadline <= now

\* First UPDATE: the stale rows are changed, locked and not yet visible.
SweepMatches ==
  /\ sweep.pc = "started"
  /\ sweep' = [sweep EXCEPT !.pc = "swept",
       !.locked = {p \in RFQs \X Suppliers : Stale(p[1], p[2], sweep.now)}]
  /\ UNCHANGED <<clock, rfqs, matches, requests>>

\* Mutant of WindowOver: an RFQ that has moved on is left alone.
WindowOverWhileOpen(r, now) ==
  /\ rfqs[r].status = "open"
  /\ rfqs[r].deadline # NoDeadline
  /\ rfqs[r].deadline <= now

WindowOver(r, now) ==
  /\ rfqs[r].deadline # NoDeadline
  /\ rfqs[r].deadline <= now

\* Mutant of Expire: the rows are deleted.
Delete(r, over) ==
  [s \in Suppliers |-> IF s \in over THEN NoMatch ELSE matches[r][s]]

\* The matches of r after the rows in `over` are set to EXPIRED.
Expire(r, over) ==
  [s \in Suppliers |->
     IF s \in over THEN [matches[r][s] EXCEPT !.status = "expired"]
                   ELSE matches[r][s]]

\* Second UPDATE, on the rows as they are by then, and the commit of both.
SweepCommit ==
  /\ sweep.pc = "swept"
  /\ matches' = [r \in RFQs |->
       Expire(r, {s \in Suppliers : <<r, s>> \in sweep.locked})]
  /\ rfqs' = [r \in RFQs |->
       IF WindowOver(r, sweep.now)
         THEN [rfqs[r] EXCEPT !.isPublic = TRUE] ELSE rfqs[r]]
  /\ sweep' = SweepIdle
  /\ UNCHANGED <<clock, requests>>

\* An exception or a lost worker: rollback; Celery runs the task again.
SweepFail ==
  /\ sweep.pc # "idle"
  /\ sweep' = SweepIdle
  /\ UNCHANGED <<clock, rfqs, matches, requests>>

\* open_rfq_to_public_pool, in one transaction.
OpenToPublicPool(r) ==
  /\ ManualOpen
  /\ Exists(r)
  /\ \A s \in Suppliers : <<r, s>> \notin sweep.locked
  /\ rfqs' = [rfqs EXCEPT ![r].isPublic = TRUE]
  /\ matches' = [matches EXCEPT ![r] =
       Expire(r, {s \in Suppliers : matches[r][s].status = "pending"})]
  /\ UNCHANGED <<clock, requests, sweep>>

----------------------------------------------------------------------------

RequestStep(w) ==
  \/ \E r \in RFQs : StatusRead(w, r)
  \/ StatusCommit(w)
  \/ \E r \in RFQs : MatchRead(w, r)
  \/ MatchNoCategories(w)
  \/ MatchNoSupplier(w)
  \/ MatchScore(w)
  \/ MatchCommit(w)
  \/ MatchConflict(w)
  \/ RequestRollback(w)
  \/ \E r \in RFQs, s \in Suppliers : ClaimRead(w, r, s)
  \/ ClaimCommit(w)
  \/ \E r \in RFQs, s \in Suppliers : ClaimCrash(w, r, s)

SweepStep == SweepStart \/ SweepMatches \/ SweepCommit \/ SweepFail

Next ==
  \/ Tick
  \/ \E r \in RFQs : CreateRFQ(r)
  \/ \E w \in Workers : RequestStep(w)
  \/ SweepStep
  \/ \E r \in RFQs : OpenToPublicPool(r)

Spec == Init /\ [][Next]_vars

\* A scored matching request commits or is rolled back.
MatchEnds(w) == MatchCommit(w) \/ MatchConflict(w) \/ RequestRollback(w)

\* Time passes, a request in flight ends, Celery Beat keeps starting the task,
\* and the task does not fail for ever: it is retried three times and then
\* started by the next beat.  Nobody is obliged to send a request.
Fairness ==
  /\ WF_vars(Tick)
  /\ \A w \in Workers : WF_vars(MatchEnds(w))
  /\ WF_vars(SweepStart)
  /\ SF_vars(SweepMatches)
  /\ SF_vars(SweepCommit)

FairSpec == Spec /\ Fairness

----------------------------------------------------------------------------
(* Properties *)

\* What matcher.py says of the life of an RFQ: it is in the public pool only
\* after the window, or when all suppliers have answered, so nobody holds an
\* exclusive, unanswered match.  The code breaks it when matching is run again:
\* a run that finds nobody opens the RFQ at once, with the first run's matches
\* pending, and overlapping runs leave the RFQ the deadline of either.
PublicMeansWindowOver ==
  \A r \in RFQs : rfqs[r].isPublic =>
    \A s \in Suppliers : matches[r][s].status # "pending"

\* Every unanswered match belongs to an RFQ with an exclusive deadline, and
\* has one itself: the sweep's predicates skip NULL deadlines, so a pending
\* match without them would keep its RFQ exclusive for ever.
PendingHasDeadlines ==
  \A r \in RFQs, s \in Suppliers : matches[r][s].status = "pending" =>
    /\ matches[r][s].deadline # NoDeadline
    /\ rfqs[r].deadline # NoDeadline

\* matched_supplier_ids never names a supplier without a match row, whatever
\* overlapping matching runs did to the two tables.
MatchedIdsHaveRows ==
  \A r \in RFQs : \A s \in rfqs[r].matchedIds :
    matches[r][s].status # "absent"

\* A supplier gets one exclusive window per RFQ: a match that was answered or
\* expired never becomes pending again, however often matching is re-run.
NoSecondWindow ==
  [][\A r \in RFQs, s \in Suppliers :
       matches[r][s].status \notin {"absent", "pending"}
         => matches'[r][s].status # "pending"]_vars

\* The sweep never takes back an answer: an answered match is never expired,
\* even when the answer commits between the two halves of the sweep.
AnswerSurvivesSweep ==
  [][\A r \in RFQs, s \in Suppliers :
       matches[r][s].status \in Answers
         => matches'[r][s].status # "expired"]_vars

\* A sweep that commits expires exactly the pending matches whose deadline had
\* passed at its clock reading: none that was answered, re-matched or given a
\* later deadline while it ran, and it leaves none behind, although requests
\* create and answer matches between the reading, its UPDATE and its commit.
SweepIsExact ==
  [][SweepCommit => \A r \in RFQs, s \in Suppliers :
       LET match == matches[r][s] IN
       (match.status = "pending" /\ match.deadline <= sweep.now)
         <=> (match.status # "expired" /\ matches'[r][s].status = "expired")]_vars

\* A claim on an existing match never ends in an unhandled exception.
ClaimNeverCrashes ==
  \A w \in Workers : requests[w].kind = "idle"
    => requests[w].failure # "AttributeError"

\* No RFQ stays exclusive for ever: once it has a deadline it reaches the
\* public pool, even if no supplier ever answers and the task often fails.
WindowEventuallyCloses ==
  \A r \in RFQs :
    (rfqs[r].deadline # NoDeadline /\ ~rfqs[r].isPublic) ~> rfqs[r].isPublic

\* Every match is eventually answered or expired.
PendingEventuallyResolved ==
  \A r \in RFQs, s \in Suppliers :
    (matches[r][s].status = "pending") ~> (matches[r][s].status # "pending")
=============================================================================
