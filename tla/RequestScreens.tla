--------------------------- MODULE RequestScreens ---------------------------
(***************************************************************************)
(* A request for quotation in the browsers: the forms it is created with,  *)
(* its client's list, its page, and the inbox of a supplier it is matched  *)
(* with.  The server's side is reduced to the request's status and to one  *)
(* match (ExclusiveWindow has the whole of it).                            *)
(***************************************************************************)
EXTENDS QueryCache, Sequences

CONSTANT RMaxFaults \* bound: requests that fail

ASSUME RBounds == RMaxFaults \in Nat

VARIABLES
  rStatus,   \* server: status of the request, as an index of RfqStates; 0: not created
  rMatch,    \* server: status of the supplier's match, of MatchStates; 0: none
  rLate,     \* server: the match's deadline has passed
  rPublic,   \* server: is_public
  rCrashes,  \* server: the claim handler crashes, as in this revision
  rAt,       \* client: "new", "market", "list" or "request", or "away"
  rForm,     \* client: the form is complete
  rModal,    \* client: marketplace modal: "closed", "open"
  rDone,     \* client: the modal's mutation has succeeded
  rCreating, \* client: request to create: "none", "form" or "modal"
  rError,    \* client: an error is shown in the form
  rList,     \* client's cache: ["client-rfqs-list"]: the status listed
  rRequest,  \* cache: ["rfq", id] of the browser on the request's page
  rMatching, \* request to run the matching under way
  rTab,      \* supplier: "exclusive", "public", "builder" when he quotes, or "away"
  rMatches,  \* supplier's cache: ["supplier-matches"]: the match's status
  rPool,     \* supplier's cache: ["public-rfqs"]: the request is in it
  rClaim,    \* supplier: claim under way: [to, st]
  rClaimed,  \* supplier: a claim has been answered since the inbox opened
  rFaults    \* counter for RMaxFaults

rServer == <<rStatus, rMatch, rLate, rPublic, rCrashes>>
rClient == <<rAt, rForm, rModal, rDone, rCreating, rError, rList, rRequest, rMatching>>
rSupplier == <<rTab, rMatches, rPool, rClaim, rClaimed>>
rVars == <<rServer, rClient, rSupplier, rFaults>>

RfqStates == <<"open", "processing">>
MatchStates == <<"pending", "responded", "declined", "expired">>
Pending == 1
Responded == 2
Declined == 3
Expired == 4
NoClaim == [to |-> 0, st |-> "none"]

\* Either the client is there, with the request still to be created, or the
\* supplier, with the request matched or its matching under way.
RInit ==
  /\ rLate = FALSE /\ rPublic = FALSE /\ rCrashes \in BOOLEAN
  /\ \/ /\ rStatus = 0 /\ rMatch = 0 /\ rMatching = FALSE
        /\ rAt \in {"new", "market"} /\ rTab = "away"
     \/ /\ rAt = "away" /\ rTab = "exclusive"
        /\ \/ rStatus = 1 /\ rMatch = 0 /\ rMatching = TRUE
           \/ rStatus = 2 /\ rMatch = Pending /\ rMatching = FALSE
  /\ rForm = FALSE /\ rModal = "closed" /\ rDone = FALSE /\ rCreating = "none" /\ rError = FALSE
  /\ rList \in {NoEntry, Answer(Serve(NoEntry, 0))} /\ rRequest = NoEntry
  /\ rMatches = (IF rTab = "away" THEN NoEntry ELSE Mount(NoEntry)) /\ rPool = rMatches
  /\ rClaim = NoClaim /\ rClaimed = FALSE
  /\ rFaults = 0

RFault == rFaults < RMaxFaults /\ rFaults' = rFaults + 1

-----------------------------------------------------------------------------
(* Creating the request *)

\* The client's form in its two layouts, and the agents' form, whose request
\* is one text.  Each has a button to send it, disabled while it is sent.
RFQCreatePageDesktop == rAt = "new"
RFQCreatePageMobile == rAt = "new"
LegacyRFQCreateForm == rAt = "new"
FormShown == RFQCreatePageDesktop \/ RFQCreatePageMobile \/ LegacyRFQCreateForm

HandleChange ==
  /\ FormShown \/ rModal = "open"
  /\ rForm' = ~rForm
  /\ UNCHANGED <<rServer, rAt, rModal, rDone, rCreating, rError, rList, rRequest, rMatching, rSupplier,
                 rFaults>>

\* Opening the modal fills it in anew; after a success the button of the
\* same modal stays disabled.
MarketplaceRfqModal ==
  /\ rAt = "market" /\ rModal = "closed"
  /\ rModal' = "open" /\ rForm' = TRUE /\ rError' = FALSE
  /\ UNCHANGED <<rServer, rAt, rDone, rCreating, rList, rRequest, rMatching, rSupplier, rFaults>>

SubmitEnabled == rCreating = "none" /\ (FormShown \/ (rModal = "open" /\ ~rDone))

\* handleSubmit: what is missing is an error, and nothing is sent.  One request
\* is followed here: there is none yet.
RHandleSubmit ==
  /\ SubmitEnabled /\ rStatus = 0
  /\ rError' = ~rForm
  /\ rCreating' = IF ~rForm THEN "none" ELSE IF FormShown THEN "form" ELSE "modal"
  /\ UNCHANGED <<rServer, rAt, rForm, rModal, rDone, rList, rRequest, rMatching, rSupplier, rFaults>>

\* The form opens the request's page; the modal closes.  Neither fetches the
\* client's list again: the modal invalidates the key of the agents' list.
Created ==
  /\ rCreating # "none" /\ rStatus = 0
  /\ rStatus' = 1 /\ rCreating' = "none"
  /\ IF rCreating = "form"
       THEN rAt' = "request" /\ rRequest' = Mount(rRequest) /\ UNCHANGED <<rModal, rDone>>
       ELSE rModal' = "closed" /\ rDone' = (rAt = "market") /\ UNCHANGED <<rAt, rRequest>>
  /\ UNCHANGED <<rMatch, rLate, rPublic, rCrashes, rForm, rError, rList, rMatching, rSupplier, rFaults>>

NotCreated ==
  /\ rCreating # "none" /\ RFault
  /\ rCreating' = "none" /\ rError' = TRUE
  /\ UNCHANGED <<rServer, rAt, rForm, rModal, rDone, rList, rRequest, rMatching, rSupplier>>

-----------------------------------------------------------------------------
(* The client's list and the request's page *)

\* A failed list is replaced by an error and a retry button.
RFQListPageDesktop == rAt = "list" /\ HasData(rList) /\ ~rList.failed
RFQListPageMobile == rAt = "list" /\ HasData(rList) /\ ~rList.failed
ClientListShown == RFQListPageDesktop \/ RFQListPageMobile
RFQDetailPage == rAt = "request" /\ HasData(rRequest) /\ ~rRequest.failed

OpenList ==
  /\ rAt \notin {"list", "away"}
  /\ rAt' = "list" /\ rModal' = "closed" /\ rDone' = FALSE
  /\ rList' = Mount(rList)
  /\ UNCHANGED <<rServer, rForm, rCreating, rError, rRequest, rMatching, rSupplier, rFaults>>

ViewRequest ==
  /\ ClientListShown /\ rList.data > 0
  /\ rAt' = "request" /\ rRequest' = Mount(rRequest)
  /\ UNCHANGED <<rServer, rForm, rModal, rDone, rCreating, rError, rList, rMatching, rSupplier, rFaults>>

\* staleTime of the client's list is over, or its retry button is pressed.
ListAges ==
  /\ rList.fresh \/ (rList.failed /\ rAt = "list")
  /\ rList' = IF rList.failed THEN Fetch(rList) ELSE Age(rList)
  /\ UNCHANGED <<rServer, rAt, rForm, rModal, rDone, rCreating, rError, rRequest, rMatching, rSupplier,
                 rFaults>>

\* Offered as long as the request is open, on the page.
MatchMutation ==
  /\ RFQDetailPage /\ rRequest.data = 1 /\ ~rMatching
  /\ rMatching' = TRUE
  /\ UNCHANGED <<rServer, rAt, rForm, rModal, rDone, rCreating, rError, rList, rRequest, rSupplier, rFaults>>

\* The supplier is matched, or nobody is; the page fetches the request again.
RMatched ==
  /\ rMatching /\ rMatching' = FALSE
  /\ rMatch' \in {rMatch, IF rMatch = 0 THEN Pending ELSE rMatch}
  /\ rStatus' = IF rMatch' = Pending THEN 2 ELSE rStatus
  /\ rRequest' = Invalidate(rRequest, rAt = "request")
  /\ UNCHANGED <<rLate, rPublic, rCrashes, rAt, rForm, rModal, rDone, rCreating, rError, rList, rSupplier,
                 rFaults>>

\* Refused (the user is no agent) or lost: the page says nothing.
NotMatched ==
  /\ rMatching /\ RFault
  /\ rMatching' = FALSE
  /\ UNCHANGED <<rServer, rAt, rForm, rModal, rDone, rCreating, rError, rList, rRequest, rSupplier>>

-----------------------------------------------------------------------------
(* The deadline and the sweep *)

DeadlinePasses ==
  /\ rMatch = Pending /\ ~rLate /\ rLate' = TRUE
  /\ UNCHANGED <<rStatus, rMatch, rPublic, rCrashes, rClient, rSupplier, rFaults>>

Sweep ==
  /\ rLate /\ ~rPublic
  /\ rMatch' = (IF rMatch = Pending THEN Expired ELSE rMatch)
  /\ rPublic' = TRUE /\ rStatus' = 1
  /\ UNCHANGED <<rLate, rCrashes, rClient, rSupplier, rFaults>>

-----------------------------------------------------------------------------
(* The supplier's inbox *)

SupplierRfqInboxDesktop == rTab \in {"exclusive", "public"}
SupplierRfqInboxMobile == rTab \in {"exclusive", "public"}
InInbox == SupplierRfqInboxDesktop \/ SupplierRfqInboxMobile

\* A match that is pending can be answered, the card's countdown over or not;
\* one answered leads to the quotation; the rest is text.
MatchCard(status) ==
  rTab = "exclusive" /\ HasData(rMatches) /\ ~rMatches.failed /\ rMatches.data = status

SetActiveTab ==
  /\ InInbox /\ rTab' = (IF rTab = "exclusive" THEN "public" ELSE "exclusive")
  /\ UNCHANGED <<rServer, rClient, rMatches, rPool, rClaim, rClaimed, rFaults>>

ClaimMutation(to) ==
  /\ MatchCard(Pending) /\ rClaim = NoClaim
  /\ rClaim' = [to |-> to, st |-> "asked"]
  /\ UNCHANGED <<rServer, rClient, rTab, rMatches, rPool, rClaimed, rFaults>>

\* claim_match, when its handler gets the user.
ClaimMatch ==
  /\ rClaim.st = "asked" /\ ~rCrashes /\ rMatch = Pending /\ ~rLate
  /\ rMatch' = rClaim.to /\ rClaim' = [rClaim EXCEPT !.st = "done"]
  /\ UNCHANGED <<rStatus, rLate, rPublic, rCrashes, rClient, rTab, rMatches, rPool, rClaimed, rFaults>>

\* A crash, a refusal (late, or answered before) or an answer lost: nothing
\* is shown and nothing fetched.
ClaimFails ==
  /\ rClaim # NoClaim
  /\ \/ rClaim.st = "asked" /\ (rCrashes \/ rMatch # Pending \/ rLate) /\ UNCHANGED rFaults
     \/ RFault
  /\ rClaim' = NoClaim
  /\ UNCHANGED <<rServer, rClient, rTab, rMatches, rPool, rClaimed>>

\* Mutant of ClaimAnswered: a fetch under way is taken for the new one.
ClaimAnsweredLate ==
  /\ rClaim.st = "done"
  /\ rMatches' = Mount(Age(rMatches))
  /\ rClaim' = NoClaim /\ rClaimed' = InInbox
  /\ UNCHANGED <<rServer, rClient, rTab, rPool, rFaults>>

ClaimAnswered ==
  /\ rClaim.st = "done"
  /\ rMatches' = Invalidate(rMatches, InInbox)
  /\ rClaim' = NoClaim /\ rClaimed' = InInbox
  /\ UNCHANGED <<rServer, rClient, rTab, rPool, rFaults>>

\* refetchInterval (30 s), and the refresh button, which fetches both lists.
MatchesPoll ==
  /\ InInbox /\ rMatches.fetch = "idle"
  /\ rMatches' = Fetch(rMatches)
  /\ UNCHANGED <<rServer, rClient, rTab, rPool, rClaim, rClaimed, rFaults>>

HandleRefreshAll ==
  /\ InInbox
  /\ rMatches' = Invalidate(rMatches, TRUE) /\ rPool' = Invalidate(rPool, TRUE)
  /\ UNCHANGED <<rServer, rClient, rTab, rClaim, rClaimed, rFaults>>

PublicRfqCard == rTab = "public" /\ HasData(rPool) /\ ~rPool.failed /\ rPool.data = 1

\* To the quotation, and back to the inbox.
HandleQuote ==
  /\ MatchCard(Responded) \/ PublicRfqCard
  /\ rTab' = "builder" /\ rClaimed' = FALSE
  /\ UNCHANGED <<rServer, rClient, rMatches, rPool, rClaim, rFaults>>

OpenInbox ==
  /\ rTab = "builder"
  /\ rTab' = "exclusive" /\ rMatches' = Mount(rMatches) /\ rPool' = Mount(rPool)
  /\ UNCHANGED <<rServer, rClient, rClaim, rClaimed, rFaults>>

-----------------------------------------------------------------------------
(* Fetches *)

RGotClient ==
  /\ \/ rList.fetch = "asked" /\ rList' = Answer(Serve(rList, rStatus)) /\ UNCHANGED rRequest
     \/ rRequest.fetch = "asked" /\ rRequest' = Answer(Serve(rRequest, rStatus)) /\ UNCHANGED rList
  /\ UNCHANGED <<rServer, rAt, rForm, rModal, rDone, rCreating, rError, rMatching, rSupplier, rFaults>>

\* The supplier's list is read and answered apart: a claim may come between.
RServeMatches ==
  /\ rMatches.fetch = "asked" /\ rMatches' = Serve(rMatches, rMatch)
  /\ UNCHANGED <<rServer, rClient, rTab, rPool, rClaim, rClaimed, rFaults>>

RGotMatches ==
  /\ rMatches.fetch = "read" /\ rMatches' = Answer(rMatches)
  /\ UNCHANGED <<rServer, rClient, rTab, rPool, rClaim, rClaimed, rFaults>>

RGotPool ==
  /\ rPool.fetch = "asked" /\ rPool' = Answer(Serve(rPool, IF rPublic THEN 1 ELSE 0))
  /\ UNCHANGED <<rServer, rClient, rTab, rMatches, rClaim, rClaimed, rFaults>>

RFetchFails ==
  /\ RFault
  /\ \/ rList.fetch # "idle" /\ rList' = Fail(rList) /\ UNCHANGED <<rRequest, rMatches, rPool>>
     \/ rRequest.fetch # "idle" /\ rRequest' = Fail(rRequest) /\ UNCHANGED <<rList, rMatches, rPool>>
     \/ rMatches.fetch # "idle" /\ rMatches' = Fail(rMatches) /\ UNCHANGED <<rList, rRequest, rPool>>
     \/ rPool.fetch # "idle" /\ rPool' = Fail(rPool) /\ UNCHANGED <<rList, rRequest, rMatches>>
  /\ UNCHANGED <<rServer, rAt, rForm, rModal, rDone, rCreating, rError, rMatching, rTab, rClaim, rClaimed>>

RNext ==
  \/ HandleChange \/ MarketplaceRfqModal \/ RHandleSubmit \/ Created \/ NotCreated
  \/ OpenList \/ ViewRequest \/ ListAges \/ MatchMutation \/ RMatched \/ NotMatched
  \/ DeadlinePasses \/ Sweep
  \/ SetActiveTab \/ ClaimMutation(Responded) \/ ClaimMutation(Declined) \/ ClaimMatch \/ ClaimFails
  \/ ClaimAnswered \/ MatchesPoll \/ HandleRefreshAll \/ HandleQuote \/ OpenInbox
  \/ RGotClient \/ RServeMatches \/ RGotMatches \/ RGotPool \/ RFetchFails

RSpec == RInit /\ [][RNext]_rVars

-----------------------------------------------------------------------------
(* Properties *)

\* Type invariant.
RTypeOK ==
  /\ rStatus \in 0 .. Len(RfqStates) /\ rMatch \in 0 .. Len(MatchStates)
  /\ rAt \in {"new", "market", "list", "request", "away"}
  /\ rTab \in {"exclusive", "public", "builder", "away"}
  /\ rList \in EntryType(0 .. 2) /\ rRequest \in EntryType(0 .. 2)
  /\ rMatches \in EntryType(0 .. 4) /\ rPool \in EntryType(0 .. 1)
  /\ rCreating \in {"none", "form", "modal"} /\ rModal \in {"closed", "open"}
  /\ {rLate, rPublic, rForm, rDone, rError, rMatching, rClaimed} \subseteq BOOLEAN

\* A supplier who has answered a match is not left with the match as pending:
\* a poll of the list that was under way when he answered does not have the
\* last word.
OwnAnswerShown == InInbox /\ rClaimed /\ Settled(rMatches) => rMatches.data # Pending

=============================================================================
