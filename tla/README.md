# A TLA+ model of AI-Sourcing Hub

AI-Sourcing Hub connects importers (clients) with sourcing agents (suppliers):
a client's request for quotation (RFQ) is matched to suppliers, who hold it
exclusively for some hours before it becomes public; an agent prices it and
writes a quotation; the client accepts it and the order is tracked to delivery.
The backend is an asynchronous FastAPI application over PostgreSQL, with Redis
for caches, sessions and counters and Celery for background and periodic tasks.
The frontend is a single page application in React that keeps what it fetches in
a query cache (React Query) and talks to the backend over HTTP and server-sent
events.

This directory holds TLA+ modules for the parts where requests, tasks, answers
and the user's own actions race, the TLC runs that check them on small
instances, and theorems, proved with TLAPS, for every value of the parameters.

    tlc -config QuoteRaces.cfg MCQuotationLifecycle.tla
    tlapm QuotationLifecycleProofs.tla

`PROJECT.json` maps every definition to the lines it models and lists the runs,
the mutants that show each property can fail, the findings, the hazards and the
theorems.

## 1. Inventory

### Who runs, and what they share

Three kinds of process act on one PostgreSQL database.

* **HTTP requests.** `get_db` (`app/shared/database.py:72`) opens a session per
  request and commits when the endpoint returns, or rolls back on any
  exception. PostgreSQL's default isolation, READ COMMITTED, applies and nothing
  is read `FOR UPDATE`, so between what a request reads and what it writes any
  other transaction may commit. SQLAlchemy keeps the objects it has loaded
  (a second `select` of the same row does not refresh them) and writes only
  columns whose value changed in the eyes of that session.
* **Celery tasks**, acknowledged late, hence delivered at least once, with
  bounded retries.
* **Celery Beat**, which starts the periodic tasks: `expire-stale-matches`
  every five minutes, `refresh-exchange-rates` every fifteen,
  `cleanup-expired-quotes` at midnight.

Redis and object storage are outside those transactions.

In production the HTTP requests are served by four worker processes
(`docker-compose.prod.yml:63`).  They share the database, Redis and the object
storage; the registries of event streams (`chat/service.py:36`,
`shared/notifications.py`) are dictionaries each process has for itself.

In the browser one thread runs everything, but between a request and its answer
the user acts, timers fire, other answers arrive and pages come and go.  Tabs of
one browser share the localStorage and nothing else.

### Components

| Component | State | Operations | What makes it hard | What makes it correct |
|---|---|---|---|---|
| **intake: exclusive window** (`intake/service.py`, `matcher.py`, `tasks.py`) | `rfqs` (status, `is_public`, `exclusive_deadline`, `matched_supplier_ids`), `rfq_matches` | create, status transition, run matching, claim or decline, expire stale matches, open to the public pool | matching, claims and the two UPDATEs of the sweep interleave; matching can be re-run with other suppliers, or with none left | every window closes; one window per supplier; the two tables agree; a sweep expires exactly what is over and takes no answer back |
| **output: quotations and tracking** (`output/service.py`, `router.py`, `tasks.py`) | `quotations` (status, tracking stage, PDF), `tracking_events`; writes `rfqs.status` | create, PDF, status, accept, reject, finalize, tracking, daily expiry | most writes check a row read earlier or nothing at all; finalize writes an RFQ intake owns | acceptance makes an order; the log explains the stage; finalizing advances the RFQ; every offer is settled |
| **documents** (`documents/service.py`, `router.py`, `tasks.py`) | `documents` (status, `extracted_entities`), stored file | upload, process, edit items, delete; OCR task | task sent before the commit; redelivery and retries; a marking that fails; file and row deleted apart | every uploaded document is processed, failed or deleted; what was extracted and has a name is listed, once |
| **catalog** (`catalog/service.py`) | `catalog_products`, referred to by quotation lines | sync from a document, review and edit, listing | sync deletes and re-inserts while quotations are written | the products of a document are those of one extraction; quoted rows stay |
| **pricing: rules, rates, cache** (`pricing/cache.py`, `service.py`) | rules in the database and in Redis, rates in Redis, two rebuild locks | calculate, change a rule, refresh rates | invalidation before the commit, locks that expire, requests that die | a changed rule is used in the end; every calculation ends |
| **auth** (`auth/service.py`, `lib/api.ts`, `authStore`, `useAuth`) | token pairs, blacklist, invalidation times; localStorage, store, `isRefreshing`, `failedQueue` | login, register, refresh, logout, reload | several 401s at once, a refresh that fails, a login over a session, a handler that goes on when its caller is gone | no request is forgotten behind a refresh; every request ends |
| **routes and menus** (`router/`, `components/auth`, `components/layout`) | current route | guards, redirects, links | guards that send to routes with guards | used by the session and the tour |
| **onboarding tour** (`components/onboarding`, `onboardingStore`) | persisted store, refs and state of two components, status on the server | start, snooze, skip, back, advance, restart | effects run child first and see old values; targets appear late or never; unawaited calls | the tour is the user's own and always shows something |
| **chat** (`chat/service.py`, `useChatRoomDetailData.ts`) | messages and read marks, subscribers per process; history, stream, draft | open a room, send, receive, reconnect | announced before committed, to one process's streams; history replaces what the stream brought | a page keeps what it was promised: what was committed before its history was read, what its process announced since, its own answered sends |
| **notifications** (`shared/notifications.py`, `useNotifications.ts`) | queues per stream and users per role, in each process; a list per tab | subscribe, notify a user or a role, open the bell | several streams of one user, several processes | types only: no property of delivery holds |
| **document pages** (`DocumentDetailPage.tsx`) | three cache entries, flags of the page | upload, poll, process, delete | polling hangs on a status no transaction commits | a page that learns of success gets the items |
| **quotation and order pages** | cache entries of a quotation, its tracking and the list | accept, reject, send, update the stage | polls and fetches that were under way | an answered action is not undone on the screen |
| **pricing calculators, quotation builder** | inputs, results, timers, the calculation per key | choose, type, calculate, file a quotation | answers and timers of what was left meanwhile; rows keyed by index | what is filed is what was calculated, meets the minimum order and has the codes shown |
| **request forms and supplier inbox** | cache entries of lists, request and matches | create, match, claim, poll | a poll beside a claim | an answered match does not come back as pending |
| **circuit breaker, rate limiter, AI cost tracker** | counters in Redis | count, allow | separate Redis calls | not modelled: best effort |
| **pricing engine; OCR and LLM clients; storage, logging, metrics, errors; monitoring; dashboards, admin, settings, marketplace pages; migrations, scripts, e2e** | none, or one request each | - | little | not modelled (section 14) |

How they interact: documents feed catalog, which intake's matcher reads together
with supplier profiles; output reads rules and rates through pricing and writes
RFQs; chat and output push to notifications; every request of a page passes the
interceptor, auth and the rate limiter; a page sees the server through its cache
entries and event streams only.  The hazards of each, at their lines, are listed
in `PROJECT.json`.

## 2. Modules and plan

| # | Modules | Specification stated above it | Runs | Theorems |
|---|---|---|---|---|
| 1 | `RfqStatus`, `ExclusiveWindow` | - | `WindowCloses`, `WindowShifting`, `FindingClaimCrash`, `FindingEarlyPool` | types, five safety properties |
| 2 | `OrderPipeline`, `QuotationLifecycle` (writes the RFQ status of 1) | `OrderPipeline`, refined | `QuoteRaces`, `FindingBackward` | types, audit log, acceptance, refinement, finalizing |
| 3 | `DocumentPipeline` | - | `DocumentRaces` | types, one extraction, quoted rows, listing |
| 4 | `Routes`, `AuthSession` | - | `Auth` | types, the refresh queue |
| 5 | `OnboardingTour` (over `Routes`) | - | `Tour` | types, the user's own tour |
| 6 | `QueryCache`; `QuoteScreens`, `RequestScreens`, `QuoteBuilder`, `PricingCalculator`, `StandaloneCalculator` over it | - | `Screens` | types, own actions, own answers, minimum order, what is filed, HS codes |
| 7 | `ChatView`, `Notifications` | - | `Screens` | types, what a page was promised |
| 8 | `DocumentScreen` (over `QueryCache`), `PricingCache` | - | `Waiting`, `FindingUnpolled` | types |

The order follows what the product promises to its users: the exclusive window
and the order come first, then what feeds them, then what the users see of it.
Left for later: review of catalogue products beside a new sync; Redis outages;
safety properties of `DocumentScreen` and `PricingCache`, whose checked properties are
all about what eventually happens.

The modules 4 to 8 prefix their variables where several of them are checked in
one run (`q` for quotations, `p`, `s`, `b` for the calculators and the builder,
`r` for requests, `doc`, `c`), so that `MCScreens` and `MCWaiting` can extend
them all.

## 3. How requests to the server are modelled

A request whose writes depend on what it read is two or three steps: one that
reads and validates and leaves a record in `requests[w]` with exactly what the
session has in memory, and one that writes and commits. Every other transaction
may commit in between. `RequestRollback` ends it without an effect, which is
`get_db`'s rollback after an exception or a lost connection. A request whose
write depends on nothing it read (reject, the status endpoint of quotations,
creating a row, reprinting a PDF) is one step. Reads that only return data are
not modelled. A write of a column is skipped when the session believes that the
column already holds the value (`WritePublic`, `Tracked`).

Celery tasks take `now` once and then issue UPDATEs whose WHERE clause
PostgreSQL evaluates on the rows as they are at that statement. A row an
uncommitted UPDATE has changed is locked: other writers of that row wait
(`sweep.locked`), readers still see the old version.

## 4. ExclusiveWindow

| Model | Code |
|---|---|
| `rfqs[r]`, `matches[r][s]` | committed rows of `rfqs` and `rfq_matches`; the unique constraint makes one row per pair |
| `requests[w]` | the request worker `w` serves, and how its last one failed |
| `sweep` | one run of `expire-stale-matches`: idle, started (has taken `now`), swept (first UPDATE done, rows locked) |
| `CreateRFQ` | `create_rfq` |
| `StatusRead`, `StatusCommit` | `update_rfq_status` with its transition table (`RfqStatus!ValidTransitions`) |
| `MatchRead`, `MatchNoCategories`, `MatchNoSupplier`, `MatchScore`, `MatchCommit`, `MatchConflict` | `run_matching` and the exits of `match_rfq_to_suppliers`, the last the violated unique constraint |
| `ClaimRead`, `ClaimCommit` | `claim_match`, behind an endpoint that hands over the user |
| `ClaimCrash` | the endpoint as it is declared (`AgentDependencyYieldsUser = FALSE`) |
| `SweepStart`, `SweepMatches`, `SweepCommit`, `SweepFail` | the periodic task |
| `OpenToPublicPool` | `open_rfq_to_public_pool`, which no endpoint calls (`ManualOpen`) |

`Catalogue` is the set of supplier sets a scoring run may qualify; extracting
categories and scoring choose one of them.  `{}` among them is a run that finds
nobody and opens the RFQ at once. `TopMatches` cuts it to `MaxMatches`
and allows any choice, since scores are not modelled. `responded_at`, the score
and the reason are left out.

A claim past its deadline flushes EXPIRED and raises; the rollback undoes the
flush, so that path changes nothing and is not an action. A second run of the
sweep at the same time (Celery redelivers a task whose worker is lost) would
wait for the rows of the first and find them changed; one run at a time is
modelled.

**Timing assumption.** `RequestsAreShort` keeps the clock from reaching the
deadline of a matching request that has taken its clock reading and not yet
committed: scoring ends within seconds, the window is hours.

### Runs

| Run | Instance | Shows |
|---|---|---|
| `WindowCloses` | 1 RFQ, 2 suppliers, 2 requests, the sweep; a run finds the one supplier or the other (`TurnoverCatalogue`); claims as deployed; fairness | `WindowEventuallyCloses`, `PendingEventuallyResolved` |
| `WindowShifting` | the same with working claims, `MaxMatches = 1`, any suppliers or none may qualify (`ShiftingCatalogue`), manual opening allowed | `TypeOK`, `PendingHasDeadlines`, `MatchedIdsHaveRows`, `NoSecondWindow`, `AnswerSurvivesSweep`, `SweepIsExact` |
| `FindingClaimCrash` | claims as deployed | `ClaimNeverCrashes` fails |
| `FindingEarlyPool` | one request after another; the supplier has left by the second run (`LeavingCatalogue`) | `PublicMeansWindowOver` fails |

Two suppliers are needed for a run that matches one while the other has been
matched or has answered, so that runs conflict, move the deadline, or do not;
two requests for overlapping runs and for a claim beside a run;
a window of two clock units has a moment before, at and after the deadline, and
the horizon leaves room for a second run inside it. `WindowCloses` has no run
that finds nobody: that one opens the RFQ at once, and the question is whether
the sweep does in the end. A third supplier or request
adds no new kind of conflict: rows of different suppliers meet only through the
RFQ row, and any three writers of a row conflict in pairs. Symmetry is used
only where no liveness is checked.

**Fairness.** Time passes; a request in flight ends, by commit or rollback;
Beat starts the task again after each run (weak fairness). The task may fail any
number of times, but its two statements, tried again and again, succeed in the
end (strong fairness of `SweepMatches` and `SweepCommit`): each run is retried
three times and Beat starts a new one every five minutes. Nobody is obliged to
send a request.

### Proofs (`ExclusiveWindowProofs`)

`WindowInv` strengthens `TypeOK`, `PendingHasDeadlines` and `MatchedIdsHaveRows`
with `SweepHoldsItsRows`: the rows a swept task has locked are pending, because
claims wait for them and the unique constraint keeps matching off them. It is
inductive and gives `TypeCorrect`, `SweepSeesEveryPending`, `IdsAgreeWithRows`,
and with its help the action properties `OneWindowPerSupplier` and
`AnswersAreKept`.

`SweepExpiresTheStale` (`SweepIsExact`) says that a sweep that commits expires
exactly the pending matches that were over when it read the clock, although
requests create, move and answer matches until its first UPDATE, and beside it
until its commit.  Its invariant is `SweepHoldsTheStale`: between the two UPDATEs
the rows it has locked are those that are stale at its clock reading.  Nothing
becomes stale in that time, because a match is created with a deadline ahead of
the clock (`ScoredAhead`, where `RequestsAreShort` is used) and the sweep's clock
reading is never ahead of the clock (`NowIsPast`).

When the RFQ becomes public is not proved of anything: a run that finds nobody
opens it at once, and overlapping runs leave it the deadline of either
(section 13).

The assumptions on the constants are `CatalogueAssumption`, `WindowAssumption`
and `SwitchAssumption`. Liveness is checked by TLC only.

## 5. QuotationLifecycle

| Model | Code |
|---|---|
| `quotes[q]` | row of `quotations`: status, RFQ, creation day, whether a PDF is stored, tracking stage |
| `trail[q]` | rows of `tracking_events`, as a set |
| `rfqStatus[r]` | `rfqs.status`, shared with intake |
| `today` | the date |
| `CreateQuote` | `POST /quotes` and `/quotes/generate`; the latter prints at once, unless printing fails |
| `GeneratePdf` | `generate_quotation_pdf` |
| `PutStatus`, `Reject` | `update_quotation_status` behind the status endpoint and `client_reject` |
| `AcceptRead`, `AcceptCommit` | `client_accept`: status check; then status, first tracking stage and event, or neither stage nor event when `update_tracking` raises the ValueError that is swallowed |
| `TrackRead`, `TrackCommit` | `update_tracking` |
| `FinalizeRead`, `FinalizeCommit` | `finalize_quotation`: the RFQ is loaded with the first query and tested after the PDF is rendered and uploaded |
| `StatusRead`, `StatusCommit` | `update_rfq_status` |
| `Cleanup` | `cleanup-expired-quotes`, one UPDATE |

Stages are indexes into `TRACKING_PIPELINE`, 0 being NULL; the code has six, the
runs three, the proofs any number. Finalizing writes the quotation in the
commit step because the flush after printing locks and refreshes the row before
the status is set; the RFQ has no such refresh, so the model keeps what was
read. Line items and amounts are not part of the life cycle. An RFQ starts
open, as `create_rfq` leaves it. `generate_quotation_pdf_task` is never
enqueued and left out.

The events of an order are read back by `created_at`, whose default `now()` is
the time its transaction began, not the order of the commits.  With overlapping
requests the event read last need not be the one that set the stage, so the
model keeps a set, and `TrailExplainsTracking` says only what a set can.

`POST /quotes/create-standalone` takes `current_user` from a dependency that
returns None and answers 500 before it creates anything; it is no action.

`PutTargets` are the statuses sent to the status endpoint: all of them, in both
runs and in the proofs.  `"accepted"` sent there makes an accepted quotation
without an order; `AcceptanceStartsOrder` is about `client_accept`.

`OrderPipeline` is what is left of the transition rule when requests overlap,
with no request in it: an order is entered at the first stage, and every later
event departs from a stage the order has reached and leads to that one or a
later one.  It allows what the code allows, an event that departs from a stage
the order has left meanwhile, and it does not allow one that departs from a
stage never reached or leads backward from the stage it names.  The refinement
maps a row's stage and trail to it.

### Runs

| Run | Instance | Shows |
|---|---|---|
| `QuoteRaces` | 1 quotation, 2 overlapping requests, 2 stages, all statuses, days that pass, fairness | `TypeOK`, `TrailExplainsTracking`, `AcceptanceStartsOrder`, `FinalizeAdvancesRfq`, `TrackingIsAPipeline`, `OffersAreSettled` |
| `FindingBackward` | 2 overlapping requests, 3 stages | `OrdersMoveForward` fails |

Two stages are enough for two requests that read different stages and commit in
either order; the third in `FindingBackward` is one to pass over. `ExpiryDays` stands for the thirty days and `Horizon` ends the calendar
after the last quotation can expire; `CreateQuote` stops early enough for that.
Quotations meet only through their RFQ, whose status other requests also write,
so one of them shows every conflict.

**Fairness.** Days pass and Beat starts the daily task (weak fairness of `Tick`
and `Cleanup`). No request is obliged to come, and nothing stops an agent from
setting a quotation back to an undecided status.

### Proofs (`QuotationLifecycleProofs`)

`TrackingInv` strengthens `TypeOK` and `TrailExplainsTracking` with
`AbsentIsUntracked`, `RequestsAreValid` (a request in flight carries a
transition that was valid for the stage it saw) and `RequestsAreGrounded` (that
stage was reached: it is in the log). Every write of a stage reports such a
request (`Reports`), or no stage is touched (`NobodyReports`), so that one lemma
about `Reports` serves both endpoints. It gives `TypeCorrect`, `TrailIsComplete`
and `AcceptanceMakesOrder`: where `update_tracking` refuses the first stage, the
request has read a later one, so the quotation was an order already, and no
request takes an order's stage away.

`TrackingImplementsPipeline` is the refinement, for any number of requests:
`RequestsAreGrounded` is what makes every report a step of `OrderPipeline`.

`FinalizingAdvances` (`FinalizeAdvancesRfq`) rests on `RfqInv`: a finalize
request that saw its RFQ past `processing` will not write it, and need not,
because no status request in flight leads back to `open`
(`NothingOpensAgain`), and no step moves a quotation to another RFQ
(`RfqStays`).

## 6. DocumentPipeline

| Model | Code |
|---|---|
| `docs[d]` | row of `documents`: status, `extracted_entities`, and who set them last |
| `stored` | documents whose file is in object storage |
| `catalog[d]` | the rows of `catalog_products` of a document, those one sync inserted as one element, with whether a quotation line refers to one of them |
| `jobs[w]`, `w \in Web` | a request in flight |
| `jobs[t]`, `t \in Tasks` | a task message, from sending to acknowledgement |
| `retries`, `faults` | Celery's retry count; lost workers and failed markings |
| `cleared` | not in the code: documents whose listing was last replaced by products without a name |
| `UploadStore`, `UploadQueue`, `UploadCommit`, `UploadInline` | `POST /upload`: file and row, `.delay`, commit, or processing inside the request |
| `RequestProcessing`, `ProcessInline` | `POST /{id}/process` with and without a worker |
| `Load` / `TaskLoad`, `Lock`, `Sync`, `Commit` | `process_document_vision`, as service function and as task: load the row; flush PROCESSING; extract and sync; commit |
| `Fail`, `Reload`, `Mark`, `MarkLost`, `Retry` | the `except` branch of the task and `self.retry` |
| `WorkerLost` | `acks_late` and `task_reject_on_worker_lost` |
| `EditRead`, `EditCommit` | `PUT /{id}/items` |
| `Quote` | a quotation created from a catalogue row |
| `DeleteFile`, `DeleteCheck`, `DeleteRow` | `DELETE /{id}` |
| `RequestRollback` | `get_db` after an exception |

Three facts of PostgreSQL and SQLAlchemy carry this part, and the model has
each as an operator.

* **The row lock.** The flush of PROCESSING updates the row, so a run holds its
  lock to the end of the transaction and a second run waits (`Locked`). This is
  all that keeps two runs of the sync apart; nothing in the code says so. As
  the flush is never committed, PROCESSING is visible to nobody.
* **Skipped columns.** A session writes `extracted_entities` only if they differ
  from those it loaded (`Written`). A run that finds what it loaded keeps what
  others wrote meanwhile.
* **Foreign keys.** A quotation line's reference has no ON DELETE rule: deleting
  a referenced row fails (`Referenced`), referring to a row a transaction has
  deleted fails or waits (`Quotable`). Deleting a document makes SQLAlchemy load
  its products to set their NOT NULL `document_id` to NULL, so it fails when
  there are any (`DeleteCheck`); those committed afterwards go by ON DELETE
  CASCADE (`DeleteRow`).

A sync skips a product without a `product_name` (`catalog/service.py:84`,
`:150`), after it has deleted what was listed before.  Extractions whose products
all lack one are the results `Nameless`: their sync deletes and inserts nothing.
As the columns may be skipped, the document then need not have the nameless
items: a task that had loaded them writes nothing over the items another request
has committed meanwhile, and takes their listing out.  `cleared` remembers those
documents, and `ExtractedIsListed` says that nothing else empties a listing.

Assumed: a document's uploader stays an agent or admin; extraction ends within
the task's time limits; a retry, which waits thirty seconds, starts after the
upload that sent its message has ended (`RetriesAreSlow`). Reviews and edits of
single products are left out.

### Runs

| Run | Instance | Shows |
|---|---|---|
| `DocumentRaces` | 1 document, 1 request at a time, 1 task message, 2 retries, 1 fault, 4 results of which one is empty and one nameless, fairness | `TypeOK`, `CatalogIsOneExtraction`, `ExtractedIsListed`, `QuotedRowsStay`, `UploadedIsProcessed` |

A request and a message are the two writers a conflict over one row needs:
processing, editing, deleting or uploading in the request, beside a task that
loads, syncs, fails, marks or is delivered again. Documents share nothing.
Results are four, so that a run can find what it loaded, something else,
nothing, or nothing it can list; two batches are the old products and the new. The theorems lift the
safety properties to any number of each. `UploadedIsProcessed` needs a retry for the
early delivery and one for each marking that may be lost, which is what the
instance has; the code's three retries stand two lost markings.

**Fairness.** A request in flight ends and a task message is worked on (weak
fairness). `Mark` waits for a row lock, and PostgreSQL grants it in the order of
waiting, so other writers cannot overtake it for ever (strong fairness). Nothing
obliges a worker to fail or a user to come.

### Proofs (`DocumentPipelineProofs`)

`LockInv` strengthens `TypeOK`, `CatalogIsOneExtraction` and what
`QuotedRowsStay` needs. `WritersAreAlone`: at most one job holds a document's
row, which is what `Lock` and the waiting of the other writers buy.
`SyncReplacesAll`: what a synced run will drop is all that is listed, because
nobody else lists products while it holds the row, or it found nothing to list. `DroppedAreUnquoted`: none
of that is quoted, because `Sync` would have failed and `Quotable` refuses
afterwards. `WritersHaveRow`, `ReadersSawRow`, `UploadsAreUnseen` and
`NoRowNoListing` say which documents exist for whom. Steps that change no row
share `HarmlessStep`, steps of one row share `RowStep`. It gives `TypeCorrect`,
`OneExtraction` and `QuotesKeepTheirRows`.

`ExtractedDocumentsAreListed` is not inductive even so: a document processed
inside its upload can fail after its items were flushed, leaving items and no
products, and a later run that extracts the same items writes nothing. The
invariant `UnlistedIsFailed` says that this is the only way: a document with
items OCR wrote, some of them named, and no products is FAILED unless it is
`cleared`, and whoever is processing it loaded those very items, so the sync of
that run lists them.

## 7. How the browser is modelled

**Cache entries (`QueryCache`).**  A screen that reads the server uses an entry
of React Query's cache.  The library is not part of the repository; `QueryCache`
has what the screens rely on: an entry has data or not, is fresh or not, and has
at most one fetch under way, which the server serves and the browser gets in two
steps.  `Mount` fetches what is missing or stale and joins a fetch under way;
`Invalidate` cancels it and begins anew when the entry is in use; `Fail` leaves
the old data with the error.  Values are numbers, the version of what the server
held when the fetch was served, so that older and newer can be told apart.
`staleTime` ends at any time (`Age`), a longer time than the run.

**Users and servers.**  Whatever a control would do is an action whose guard is
that the control is rendered and enabled; a layout for desktops and one for
phones are two disjuncts or two operators, as in the code.  The server's side of
a screen is reduced to the guard of the handler and what it writes; the modules
of sections 4 to 6 have the whole of it.  A request may be lost before or after
it took effect.  No run has two screens of one browser at once: they share no
state but the cache entries, and those of different keys do not meet.

## 8. AuthSession, over Routes

| Model | Code |
|---|---|
| `pairs`, `blacklisted`, `invalidatedAt`, `expired`, `ended` | tokens issued; Redis keys `blacklisted:<jti>` and `session_invalidated:<user>`; `exp` |
| `storage` | localStorage `access_token`, `refresh_token` |
| `store`, `bootstrapping`, `route` | `authStore`, `ProtectedRoute`'s spinner, the router |
| `req[t][s]` | a request of the code that awaits it: a page's query, `getMe`, the steps of `useAuth` |
| `refresh[t]` | `isRefreshing` and the call of `/auth/refresh`; requests in state `"queued"` are `failedQueue` |
| `Respond`, `Lose` | the server answers with 200 or 401, or there is no answer |
| `CheckRefresh`, `RotateRefresh`, `LoseRefresh` | `refresh_access_token` up to and after its query for the user |
| `abandoned`, `HandleAbandoned` | calls whose page is gone or has given up, which the server handles all the same: logins, logouts and refreshes, the last in the same two steps |
| `RejectRetried`, `QueueRequest`, `StartRefresh`, `NoRefreshToken`, `RefreshSucceeded`, `RefreshFailed` | the branches of the response interceptor |
| `Redirect`, `Navigate`, `Load`, `Leave`, `Reload` | guards, links, documents loaded |
| `SubmitLogin`, `LoginAnswered`, `ProfileLoaded`, `LoginFailed`, `SubmitRegister`, `Registered`, `Logout`, `LoggedOut`, `Bootstrapped` | `useAuth`, the login and register pages, `ProtectedRoute` |

`Routes` is data and functions: the guards' roles, where each guard sends
everybody else, and the links of the menus.  The tour uses it too.

| Run | Instance | Shows |
|---|---|---|
| `Auth` | 1 tab, 1 account, 1 query at a time, 1 login or registration, 1 reload, 1 abandoned call at a time, the clock, fairness | `AuthTypeOK`, `NoOrphanedRequest`, `RequestsSettle` |

Several requests fail together because a page's query, the `getMe` of a login, a
logout and a registration can be in flight at once.  The pair of the one login
can be rotated, and its old refresh token sent again, by the page that follows a
reload while the server is still at the refresh the old page asked for.  That
one refresh token is exchanged once is no property: the look-up in the blacklist
and the entry are two calls, and two tabs, or a reload, or a request given up,
are enough to have two exchanges between them.  A queue and its flag belong to
one tab; `NoOrphanedRequest` is proved for any number.

**Fairness** (`AuthFairness`).  The network answers or fails, promises run their
continuations, the browser follows redirects.  Users, the clock and expiry owe
nothing.  Bounded logins keep a client from being sent from 401 to 401 for ever.

**Proofs** (`AuthSessionProofs`).  `Good` says of one tab: a refresh under way
has the flag set; the flag without a refresh means the page is being left; a
request that leads is the one the refresh remembers; a request that waits sees
the flag.  `QueueInv` is `Good` for every tab with the shapes it needs.  It is
inductive because `processQueue` empties the queue wherever the flag is reset,
and because a document that is replaced takes its requests along.  The lemmas
follow the tab's steps: user, refresh, answer, interceptor, continuation.  It
gives `NobodyForgotten` for any number of tabs.

`AuthTypeCorrect` needs more than the types: a token is a number of a pair, and
`AuthTypeOK` asks that every token held has been issued.  `AuthInv` says so of
localStorage, the stores, the requests and the refreshes (`BrowserOK`), of the
blacklist and the expired (`RevokedOK`), of the abandoned calls (`AbandonedOK`),
and that a pair comes from an earlier one (`PairsOK`); a refresh under way has a token, a login its account, and
whoever `/auth/me` answered asked with the token of a pair.

## 9. OnboardingTour

A user's action is possible only when React has run the effects of the last
render (`Settled`).  `Commit` is one run of all effects whose dependencies have
changed, children before parents: `useTourTarget` looks its element up, then the
four effects of `GuidedTour`, then the provider's `initFor`, reconciliation and
restart.  Each sees the values of the render.  `ob` is the persisted store,
`prov` and `tour` are state and refs of the two components, `calls` the status
updates nobody waits for.  `Present` says which anchors a page or menu has;
`TargetAppears` and `WaitTimeout` are the MutationObserver and the timer.

| Run | Instance | Shows |
|---|---|---|
| `Tour` | a new agent and a new client in one browser, phone or desktop, 2 events (logins, reloads, restarts, skips, steps back), 1 call in flight | `TypeOK`, `OwnTour`, `SomethingShown` |

Both tours are walked in full: steps forward are not counted as events.  Two
events are a login and something else, or the logins of both users.
**Fairness** is React's and the browser's: effects, observers, timers.
`SomethingShown` leaves out a step skipped for a missing target that the user
has gone back to: there the panel has nothing to point at and the skip does not
repeat.  That the tour takes the user to a step's page once is not claimed: after
a reload the refs are gone, and whoever had left that page is taken back to it.

**Proofs** (`OnboardingTourProofs`), for any accounts of the two roles
(`RoleAssumption`, `AccountsAssumption`), any status the server has for them
(`StatusAssumption`), any of the router's pages visited by links
(`VisitedAssumption`) and any bounds.  `TourInv` joins the shapes of the store
and the refs with what they mean: the store is in the tour of the role of
whoever it belongs to (`InTourOf`), and that is the user signed in as soon as
the provider has reconciled them (`Reconciled`), though between a login and the
effects it is still the last user's.  A status not reconciled yet is one the
server sent (`FetchedOnce`), and a restart has had its event
(`RestartsAreEvents`), which bounds the signal.  `Commit` is proved effect by
effect, in the order in which React runs them, because each sees the store as
the one before it left it.  It gives `TourTypeCorrect` and `ToursAreOwn`.

## 10. ChatView and Notifications

`ChatView` follows one room.  `posts` are the POSTs with how far the server is,
`saved` the committed messages; per viewer there are the header, the history
(asked, read by the server, answered), the stream and its events, what is shown,
the draft and the send awaited.  `subscribers` is `_room_subscribers`, one per
worker process: a stream is accepted by some process (`Connect`), a send is
handled by some process, which announces the message to the streams it has
itself (`Announce`) before `get_db` commits (`CommitMessage`).  A history request
goes on at the server when its page is left, and marks messages read for nobody
(`strays`).  The box can be typed into while a send is under way; the answer
empties it.  A stream that ends normally or with an error status is dead for
good, a broken one reconnects.

`owed[v]` is not in the code: it collects what page `v` has been promised, and
`NothingLostWhileOpen` says that a page whose history has come has all of it, on
the page or on its way.  Promised are the messages committed before the server
read the page's history, those its own process announced since the history came,
and its own sends that were answered.  Not promised, because the code loses
them: what another process announces, what a broken stream carried, and what
was announced while the history was under way and committed after it was read,
which the answer replaces.

`Notifications` has the registries of each process (queues, role sets) and a
bell per tab, which keeps the last 50 (`KeepLast`).  The hook listens to
`new_rfq` and `quote_ready` (`useNotifications.ts:66`), so the event an agent gets
for an accepted quotation shows nowhere (`Listened`).  It is in `MCScreens` for
its types and actions: role events may miss a tab after another of the same user
closed, and any event misses the tabs of the other processes.

In `Screens`: two viewers, one of whom writes, two messages, one break of any
kind, two processes; three tabs of an agent (two) and a client, two notifications
of which one is kept.  The processes are alike, and the run uses that symmetry
(no liveness is checked in it).

**Proofs** (`ChatViewProofs`), for any viewers, processes and messages.
`NothingLostWhileOpen` is not inductive: the answer of the history replaces what
is shown.  `ChatInv` says where a promise is kept before that (`PromisesKept`):
by what is committed while the request is on its way, by the answer once the
server has read it.  `CommittedIsSaved` is what makes an answered send a
committed message; `SendsInRoom`, with `FailureShown`, that none is answered
while a history that lacks it is on its way: a page that still loads has no box
to send from.  It gives `ChatTypeCorrect` and `AnnouncedStays`.  The lemmas on
`ToSet` of a sequence with an element appended or its head removed carry most of
it.

## 11. The screens over the query cache

| Module | Model | Code |
|---|---|---|
| `QuoteScreens` | `qLog` every version of the quotation; entries of list, quotation and tracking per browser; `qCall` the mutation under way, `Finalized` its second request; `qOwn` the version the last answered action wrote | `QuotationDetailPage.tsx`, `useOrderTrackingData.ts`, the lists |
| `RequestScreens` | the request's status, one match, its deadline; the client's form, modal, list and page; the supplier's tabs, lists and claim | `useClientRfqCreate.ts`, `MarketplaceRfqModal.tsx`, `RFQDetailPage.tsx`, `useSupplierRfqInboxData.ts` |
| `QuoteBuilder` | the quantity before and after the products load, the price typed or extracted, a calculation per price and quantity, the product linked | `QuoteBuilderPage.tsx` |
| `PricingCalculator` | the RFQ chosen, timers that fill the inputs, the calculation, its estimate, the filing | `usePricingCalculator.ts` and its pages |
| `StandaloneCalculator` | rows, dropdowns by index, the calculation, its estimate, the filing | `useStandaloneCalculator.ts` and its pages |
| `DocumentScreen` | the committed status, three entries, `processing`, the dialog | `DocumentUploadPage.tsx`, `DocumentDetailPage.tsx` |

`qOwn`, `rClaimed` and `pAnswered` are not in the code; they name what the
properties compare with.  `rCrashes` is the claim handler as deployed or
repaired, chosen initially, so the properties of the pages hold with either.
The standalone calculator's filing is always refused: its endpoint answers 500
(section 5).

| Run | Instance | Shows |
|---|---|---|
| `Screens` | each screen for itself: the scene is chosen initially and the others stay as they are; 1 054 754 states | `TypeOK`, `NothingLostWhileOpen`, `OwnActionShown`, `FiledAsCalculated`, `CodeShownIsSent`, `MinimumOrderMet`, `OwnAnswerShown` |
| `Waiting` | a document's page, or calculations over the caches; 347 085 states | `ItemsFollow`, `ChangedRulesReach`, `CalculationsEnd` |
| `FindingUnpolled` | a document's page, nothing fails | `OutcomeShown` fails |

Bounds of `Screens`: a client's and an agent's browser, two stages and three
writes of a quotation (one of each browser after the first), one fault; three
RFQs of which two are listed and one has no products, one answered calculation
and one quotation filed; two
rows of the standalone calculator (one removed under the other); two quantities
and two prices in the builder (the one extracted and the one loaded, above and
below a minimum order).  A property of a screen relates an answer to what the
page did since it asked; two askings are enough to have an old answer beside a
new one.

**Proofs.**  `CachedScreensProofs` has the lemmas on entries of the cache and
the two results that rest on them.  `Safe(e, n)`: what is fresh, and what a fetch
has already been served, is no older than version `n`; invalidating after the
answer makes that so, because it cancels the fetch under way.  `QInv` is `Safe`
for the quotation and its tracking with the version the page's own action wrote,
and gives `OwnActionsStay`.  `RInv` is the same for a match that is no longer
pending (`NotPending`), needs that a claim carries an answer and that the server
never makes an answered match pending again, and gives `AnswersStay`.  The types
of `DocumentScreen` (`DocTypeCorrect`) need `DocInv`: the bound on extractions is
a guard of the button, while it is the answer that counts them, on the page the
button is on.

`ScreensProofs` has the forms, the bell and the whole.  `QuotedAboveMinimum`:
`CalcsOfTheirKeys`, a calculation in the cache is of the quantity of its key, so
the payload has the quantity the minimum order was compared with; it holds
although the products may load between the two.  `QuotedByTheServer`
(`FiledAsCalculated`): a result that says it is the server's is one the server
has answered, and so is what is on its way and what is filed, although an
estimate may take a result's place, and an answer or timer of an RFQ left
meanwhile the inputs'; nothing is said of inputs that were mixed.
`DropdownsTellTheCode` (`CodeShownIsSent`): the rows and their dropdowns have the
same length whichever is removed (`FormOK`), and `Redrawn` is the effect that
brings each dropdown to the row now at its index.

`ScreensTypeCorrect` is the type invariant of the run, and each screen's part of
it has an invariant of its own: that a log of versions only grows (`QTyped`, with
what a request may ask for, `CallTyped`), that the next notification is within
the bound (`NotesInv`), the shapes of the rest.  `ScreensApart`: a behaviour of
`MCScreens` is one of every screen's specification, since the screens it does not
play stutter; so what is proved of a screen alone holds of the run's
specification (`ScreensKeepTheirWord`).

**Fairness** in `Waiting` and `FindingUnpolled`.  An extraction ends; status
requests are served and answered (`DocFairness`).  The page's interval runs on
the status PROCESSING alone, which no transaction commits, so it is no action.
`DocFairSpec` adds the rest that happens by itself: workers start, requests are
answered or fail.  Nobody has to press a button.

## 12. PricingCache

Every access to Redis, to the database and to the rates' API is a step of its
own, for each of the requests that calculate (`cPc`).  A hit goes on, a miss
takes the rebuild lock or waits once and goes on without it (`AfterWaiting`).
A rate is known by the day the API quoted it; `till` is its expiry.  A rule
change is flushed, invalidates the cache and commits, in this order and in three
steps.  Requests die anywhere and leave their locks, which expire or not.

`Waiting` has two requests, two versions of the rules, two days, one death.
`ChangedRulesReach` is that in the end the cache has the committed rules or
none: with the invalidation before the commit that rests on the rules' time to
live alone, and the mutant without it fails.  `CalculationsEnd` rests on nobody
waiting for a lock: the mutant that waits on as long as the lock is held fails.
**Fairness** (`CFairness`): requests that have begun go on (they may die
instead, boundedly), an administrator's request ends, rules expire.  Locks need
not expire.

**Proofs** (in `CachedScreensProofs`): `CTypeCorrect`, for any requests and
bounds.  `CInv` adds that what a request has got may be cached, as it stores it
later, and that a change of the rules under way is one within the bound.

## 13. Divergences

Four are runs with a finding in `PROJECT.json`.

* `FindingClaimCrash`: the claim endpoint binds `current_user` to a dependency
  that returns None (`intake/router.py:491`).
* `FindingEarlyPool`: a matching run that finds nobody opens the RFQ at once
  (`intake/matcher.py:228`, `:291`), also when a supplier of an earlier run still
  holds an unanswered match; `:10` says that the pool opens after the window or
  when all have answered.
* `FindingBackward`: `output/service.py:671` writes a stage validated against an
  older one; `:547` says that only forward movement is allowed.
  `TrackingIsAPipeline` is what holds instead.
* `FindingUnpolled`: the document's page asks again only while it reads
  `processing`, which no transaction commits.

The others were read in the code while modelling it; they are not runs, and the
models contain the behaviour where they have the state.

Server:

* `output/router.py:343` refuses to accept a quotation that is not offered, but
  `client_accept` checks the row it read and then sets ACCEPTED whatever the
  daily task has made of it meanwhile. The model reaches this too.
* `catalog/service.py:45` says that a sync replaces what was synced before; a
  run that extracts nothing leaves the products of the earlier run.
* `documents/router.py:378` describes `uploaded` → `processing`; PROCESSING is
  never committed, so polling does not see it.
* `documents/router.py:315` answers 422 and points to the document's status; the
  rollback that follows takes FAILED and the error message back.
* `documents/router.py:441` says that an edit resets the status to extracted; if
  it was extracted when the edit read it, the status is not written and a FAILED
  committed in between stays.
* `intake/service.py:444` says that matching runs after creation; nothing calls
  it but the match endpoint, so an RFQ nobody matches stays exclusive to nobody.
* `intake/matcher.py:10` says that the pool opens when all suppliers have
  responded; the sweep looks at the deadline alone.
* `output/service.py:618` speaks of accepted quotations; `update_tracking` does
  not look at the status, and `update_quotation_status` overwrites any status,
  so a rejected or expired quotation can be finalized again.
* `output/router.py:64` (`POST /quotes/create-standalone`) takes `current_user`
  from `require_agent_or_admin`, which returns None, and answers 500.
* `chat/service.py:36` and `shared/notifications.py` keep their subscribers in the
  process; `docker-compose.prod.yml:63` runs four. A stream misses what the other
  processes announce.
* `catalog/service.py:150` skips products without a name after it has deleted
  the products listed before.
* `claim_match` updates by match id after its checks, so an answer that passed
  them can overwrite the EXPIRED a sweep commits in between. The endpoint cannot
  get there today (`FindingClaimCrash`).
* A status request validated as open to processing can overwrite the QUOTED
  that finalizing committed meanwhile, and `output/service.py:493` tests the RFQ
  status it read before the PDF was made, so QUOTED can be written over CLOSED,
  although `intake/service.py:277` lets nothing leave CLOSED.
  `FinalizeAdvancesRfq` is what holds.
* `intake/matcher.py:299` run again while the RFQ is public creates new pending
  matches; `intake/models.py:76` says "False = exclusive window active; True =
  public pool". Overlapping runs leave the RFQ the deadline of either.
* `PUT /quotes/{id}/status` takes `accepted` and makes no order
  (`output/service.py:283`).
* `output/tasks.py:292` expires after thirty days; the offer prints
  `validity_days`, from 1 to 365 (`templates/quotation.html:219`).
* `documents/service.py:194` removes the file before the row; when products are
  listed the row cannot be deleted and stays without its file.
* `pricing/service.py:549` caches the rate a calculation used for another day,
  also the one it has just read from the cache; `pricing/cache.py:10` speaks of
  24 hours. A rate of the rules is cached too when the API is down.
* `pricing/cache.py:215` says that only one worker fetches and the others read
  its value; they fetch themselves after 200 ms. A lock is deleted by whoever
  finishes, its own or not.
* `auth/service.py:310` looks the blacklist up and enters the token in separate
  calls: two tabs, or a reload during the exchange, can exchange one refresh
  token twice.
* `shared/notifications.py:18` says that the set has the users currently
  subscribed per role; :47 takes a user out when one of several streams ends.
  `useNotifications.ts:66` listens to two of the three events that are raised.
* `chat/service.py:128` looks for a room and creates one without a constraint
  against a second.

Browser:

* The server rotates the refresh token (`auth/router.py:93`), `lib/api.ts:91`
  stores the new access token only: the next refresh uses a blacklisted token
  and ends the session.
* A refresh under way during a logout and a login writes its token over the new
  session's; the query cache is not cleared on logout.
* A wrong password is a 401 and starts a refresh, which reloads the login page
  and loses its message; a failed `getMe` leaves the placeholder user signed in.
* `RegisterPage` goes to the dashboard after `useAuth` went to the login page.
* The tour's effects run while it is not active
  (`OnboardingProvider.tsx:112` says it is quiet). Going back from the step of
  the client's requests bounces forward (`GuidedTour.tsx:146`). On phones the
  calculator's result exists only when there is one.
* `useChatRoomDetailData.ts:202` appends the answer to a send without looking
  whether the stream has brought it; :161 replaces what the stream has brought
  by the history; a stream the server ends is not opened again (:72); text typed
  while a send is under way, which the box allows
  (`ChatRoomDetailPageDesktop.tsx:128`), is wiped (:203).
* `QuotationDetailPage.tsx:110` finalizes and then sends: it can overwrite an
  acceptance, and a failure between the two leaves the draft shown. The list of
  quotations is never invalidated.
* A document's page whose first status request fails never polls.
* A late answer or timer of an RFQ left meanwhile fills the calculator of
  another (`usePricingCalculator.ts:86`, `:132`); the estimate is made of the
  inputs at the time of the failure.
* In the standalone calculator the breakdown pairs results and rows by index
  although incomplete rows are not sent; typed HS code text that was never
  picked is not sent.
* A created request is not in the client's list until its entry is stale
  (`MarketplaceRfqModal.tsx:67` invalidates another key); a match can be
  answered on the screen after its countdown, and a refused claim says nothing.

## 14. What is checked, proved and left out

Proved for all values of the constants, with the assumptions named at the
theorems: every invariant and every action property that a passing run checks,
and the refinement of `OrderPipeline`: 27 results in 8 modules.  None has a
hypothesis on the constants beyond the modules' own assumptions: any number of
requests, workers, tabs, viewers and processes, suppliers that come and go, every
status at the status endpoint.

Model-checked only: the liveness properties, as TLAPS 1.4.5 proves neither
liveness under fairness nor ENABLED: `WindowEventuallyCloses`,
`PendingEventuallyResolved`, `OffersAreSettled`, `UploadedIsProcessed`,
`RequestsSettle`, `SomethingShown`, `ItemsFollow`, `ChangedRulesReach` and
`CalculationsEnd`; and the four findings, which are counterexamples.  The type
invariants of `DocumentScreen` and `PricingCache` are proved and are no property
of a run.  Nothing in these modules is recursive.

Deadlock is checked in the runs of sections 4 to 6: the sweep and the daily task
can always run again, and a request for processing can always come.  The runs of
the browser say `CHECK_DEADLOCK FALSE`: a user may stop, bounded faults and
writes run out, and nothing is owed by then.

Every property of a passing run has a mutant in `PROJECT.json`: a definition
with a plausible mistake under which TLC finds the property violated.

Not modelled, and why:

* **Pricing engine and formulas**: pure arithmetic on floats and decimals; no
  state, no interleaving.
* **OCR and LLM clients, JSON repair, translation**: external services and text;
  their results are inputs.
* **Circuit breaker, rate limiter, cost tracker**: best-effort counters no other
  component's state depends on; a race lets a few calls more through.
* **Review and edits of single products, marketplace, showroom, reels,
  dashboards, admin pages, settings, profile**: one request each, last writer
  wins.  Read, not modelled: another's answer replaces unsaved edits on the
  review page, and an admin's edit re-approves a product from the status the
  page has cached (`useAdminCatalogData.ts:76`).
* **Room creation, registration approval, lockout**: single inserts and updates.
* **Storage, logging, metrics, errors, security headers, pagination, monitoring,
  migrations, scripts, archive**: no decision of the application depends on
  them.
