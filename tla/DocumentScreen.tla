--------------------------- MODULE DocumentScreen ---------------------------
(***************************************************************************)
(* The page of an uploaded document: what it shows while the server reads  *)
(* the document, and the requests it sends.  The server's side is reduced  *)
(* to the document's status as other transactions see it (DocumentPipeline *)
(* has the whole of it): the status "processing" is overwritten by the     *)
(* outcome before the transaction commits, so no page ever sees it, and    *)
(* the page's refetchInterval, which runs on that status alone, never does.*)
(***************************************************************************)
EXTENDS QueryCache

CONSTANTS DocMaxJobs,   \* bound: runs of the extraction
          DocMaxFaults  \* bound: requests that fail

ASSUME DocBounds == DocMaxJobs \in Nat \ {0} /\ DocMaxFaults \in Nat

VARIABLES
  docStatus, \* server: status of the document, as committed
  docJobs,   \* server: extractions asked for and not started
  docWork,   \* server: an extraction is under way
  docRuns,   \* counter for DocMaxJobs
  docAt,     \* "upload", "document" or "rfqs": the page the user is on
  docFile,   \* upload page: the RFQ and the file are chosen
  docEntry,  \* cache: ["document", id]
  docPoll,   \* cache: ["document-status", id]
  docItems,  \* cache: ["document-items", id]
  docCall,   \* request of a mutation: "none", "upload", "process", "delete"
  docBusy,   \* the page's `processing` flag
  docAsked,  \* the dialog asks whether to delete
  docFaults  \* counter for DocMaxFaults

docServer == <<docStatus, docJobs, docWork, docRuns>>
docCache == <<docEntry, docPoll, docItems>>
docPage == <<docAt, docFile, docCall, docBusy, docAsked>>
docVars == <<docServer, docCache, docPage, docFaults>>

\* Statuses as the values of the cache; 0: the document is gone.
DocStatuses == <<"uploaded", "extracted", "failed">>
DocCode(status) == CHOOSE i \in 0 .. 3 : IF i = 0 THEN status \notin {DocStatuses[j] : j \in 1 .. 3}
                                                  ELSE DocStatuses[i] = status
Extracted == DocCode("extracted")

DocInit ==
  /\ docStatus = "none" /\ docJobs = 0 /\ docWork = FALSE /\ docRuns = 0
  /\ docAt = "upload" /\ docFile = FALSE
  /\ docEntry = NoEntry /\ docPoll = NoEntry /\ docItems = NoEntry
  /\ docCall = "none" /\ docBusy = FALSE /\ docAsked = FALSE
  /\ docFaults = 0

DocFault == docFaults < DocMaxFaults /\ docFaults' = docFaults + 1

-----------------------------------------------------------------------------
(* The server *)

\* The task begins, which no other transaction sees, and ends with an outcome.
DocStart ==
  /\ docJobs > 0 /\ ~docWork /\ docStatus # "none"
  /\ docJobs' = docJobs - 1 /\ docWork' = TRUE
  /\ UNCHANGED <<docStatus, docRuns, docCache, docPage, docFaults>>

DocFinish ==
  /\ docWork /\ docWork' = FALSE
  /\ docStatus' \in IF docStatus = "none" THEN {"none"} ELSE {"extracted", "failed"}
  /\ UNCHANGED <<docJobs, docRuns, docCache, docPage, docFaults>>

-----------------------------------------------------------------------------
(* The upload page *)

DocChoose ==
  /\ docAt = "upload" /\ docCall = "none"
  /\ docFile' = ~docFile
  /\ UNCHANGED <<docServer, docCache, docAt, docCall, docBusy, docAsked, docFaults>>

\* handleSubmit: an RFQ and a file, or an error and nothing sent.
DocUpload ==
  /\ docAt = "upload" /\ docFile /\ docCall = "none"
  /\ docCall' = "upload"
  /\ UNCHANGED <<docServer, docCache, docAt, docFile, docBusy, docAsked, docFaults>>

\* The upload is stored and its extraction asked for, or done at once where
\* there is no worker; the page that mounts asks for the document and for its
\* status.
DocUploaded ==
  /\ docCall = "upload"
  /\ \/ docStatus' = "uploaded" /\ docJobs' = 1
     \/ docStatus' \in {"extracted", "failed"} /\ docJobs' = 0
  /\ docRuns' = docRuns + 1
  /\ docCall' = "none" /\ docAt' = "document"
  /\ docEntry' = Mount(docEntry) /\ docPoll' = Mount(docPoll)
  /\ UNCHANGED <<docWork, docItems, docFile, docBusy, docAsked, docFaults>>

-----------------------------------------------------------------------------
(* The document page *)

\* currentStatus: the polled status, or the one the document came with.
CurrentStatus == IF HasData(docPoll) THEN docPoll.data ELSE docEntry.data

\* With a spinner or an error, the page offers nothing but its links.
DocumentDetailPage == docAt = "document" /\ HasData(docEntry) /\ ~docEntry.failed

\* Mutant of UseItems: by the status the document itself came with.
UseItemsOfDocument(poll) ==
  IF docAt = "document" /\ docEntry.data = Extracted THEN Mount(docItems) ELSE docItems

\* Items are asked for only of an extracted document, by the polled status.
UseItems(poll) ==
  IF docAt = "document" /\ poll.data = Extracted THEN Mount(docItems) ELSE docItems

DocServe ==
  /\ \/ /\ docEntry.fetch = "asked" /\ docEntry' = Serve(docEntry, DocCode(docStatus))
        /\ UNCHANGED docItems
     \/ /\ docItems.fetch = "asked" /\ docItems' = Serve(docItems, DocCode(docStatus))
        /\ UNCHANGED docEntry
  /\ UNCHANGED <<docServer, docPoll, docPage, docFaults>>

DocServeStatus ==
  /\ docPoll.fetch = "asked" /\ docPoll' = Serve(docPoll, DocCode(docStatus))
  /\ UNCHANGED <<docServer, docEntry, docItems, docPage, docFaults>>

\* An answer; that of a document deleted meanwhile is an error.
DocAnswer(e) == IF e.got = 0 THEN Fail(e) ELSE Answer(e)

DocGotDocument ==
  /\ docEntry.fetch = "read"
  /\ docEntry' = DocAnswer(docEntry)
  /\ UNCHANGED <<docServer, docPoll, docItems, docPage, docFaults>>

DocGotStatus ==
  /\ docPoll.fetch = "read"
  /\ docPoll' = DocAnswer(docPoll)
  /\ docItems' = UseItems(docPoll')
  /\ UNCHANGED <<docServer, docEntry, docPage, docFaults>>

DocGotItems ==
  /\ docItems.fetch = "read"
  /\ docItems' = DocAnswer(docItems)
  /\ UNCHANGED <<docServer, docEntry, docPoll, docPage, docFaults>>

DocFetchFails ==
  /\ DocFault
  /\ \/ docEntry.fetch # "idle" /\ docEntry' = Fail(docEntry) /\ UNCHANGED <<docPoll, docItems>>
     \/ docPoll.fetch # "idle" /\ docPoll' = Fail(docPoll) /\ UNCHANGED <<docEntry, docItems>>
     \/ docItems.fetch # "idle" /\ docItems' = Fail(docItems) /\ UNCHANGED <<docEntry, docPoll>>
  /\ UNCHANGED <<docServer, docPage>>

\* handleProcess: offered for a document waiting or failed.
HandleProcess ==
  /\ DocumentDetailPage /\ ~docBusy /\ docCall = "none" /\ docRuns < DocMaxJobs
  /\ CurrentStatus \in {DocCode("uploaded"), DocCode("failed")}
  /\ docBusy' = TRUE /\ docCall' = "process"
  /\ UNCHANGED <<docServer, docCache, docAt, docFile, docAsked, docFaults>>

\* The extraction is asked for, or done at once, and the status fetched again.
\* (One done at once that fails is refused, and leaves no trace.)
Processed ==
  /\ docCall = "process" /\ docStatus # "none"
  /\ \/ docJobs' = docJobs + 1 /\ UNCHANGED docStatus
     \/ ~docWork /\ docStatus' = "extracted" /\ UNCHANGED docJobs
  /\ docRuns' = docRuns + 1
  /\ docCall' = "none" /\ docBusy' = FALSE
  /\ docPoll' = Invalidate(docPoll, docAt = "document")
  /\ UNCHANGED <<docWork, docEntry, docItems, docAt, docFile, docAsked, docFaults>>

AskDelete ==
  /\ DocumentDetailPage /\ docCall = "none"
  /\ docAsked' = ~docAsked
  /\ UNCHANGED <<docServer, docCache, docAt, docFile, docCall, docBusy, docFaults>>

ConfirmDialog ==
  /\ docAsked /\ docAt = "document" /\ docCall = "none"
  /\ docCall' = "delete" /\ docAsked' = FALSE
  /\ UNCHANGED <<docServer, docCache, docAt, docFile, docBusy, docFaults>>

\* The document is gone and the page left; what the cache holds stays.
Deleted ==
  /\ docCall = "delete"
  /\ docStatus' = "none" /\ docCall' = "none" /\ docAt' = "rfqs"
  /\ docBusy' = FALSE
  /\ UNCHANGED <<docJobs, docWork, docRuns, docCache, docFile, docAsked, docFaults>>

\* A request refused or lost: the page is as before.
DocCallFails ==
  /\ docCall # "none" /\ DocFault
  /\ docCall' = "none" /\ docBusy' = FALSE
  /\ UNCHANGED <<docServer, docCache, docAt, docFile, docAsked>>

-----------------------------------------------------------------------------

DocNext ==
  \/ DocStart \/ DocFinish \/ DocChoose \/ DocUpload \/ DocUploaded
  \/ DocServe \/ DocServeStatus \/ DocGotDocument \/ DocGotStatus \/ DocGotItems \/ DocFetchFails
  \/ HandleProcess \/ Processed \/ AskDelete \/ ConfirmDialog
  \/ Deleted \/ DocCallFails

DocSpec == DocInit /\ [][DocNext]_docVars

\* The requests of an open page are served and answered.
DocFairness ==
  /\ WF_docVars(DocServe) /\ WF_docVars(DocServeStatus)
  /\ WF_docVars(DocGotDocument) /\ WF_docVars(DocGotStatus) /\ WF_docVars(DocGotItems)

\* The rest that happens by itself too.  Nobody has to press a button.
DocFairSpec ==
  /\ DocSpec /\ DocFairness
  /\ WF_docVars(DocStart) /\ WF_docVars(DocFinish)
  /\ WF_docVars(DocUploaded \/ Processed \/ Deleted \/ DocCallFails)

-----------------------------------------------------------------------------
(* Properties *)

\* Type invariant.
DocTypeOK ==
  /\ docStatus \in {"none"} \cup {DocStatuses[i] : i \in 1 .. 3}
  /\ docWork \in BOOLEAN
  /\ docJobs \in 0 .. DocMaxJobs /\ docRuns \in 0 .. DocMaxJobs /\ docFaults \in 0 .. DocMaxFaults
  /\ docAt \in {"upload", "document", "rfqs"}
  /\ docEntry \in EntryType(0 .. 3) /\ docPoll \in EntryType(0 .. 3) /\ docItems \in EntryType(0 .. 3)
  /\ docCall \in {"none", "upload", "process", "delete"}
  /\ docFile \in BOOLEAN /\ docBusy \in BOOLEAN /\ docAsked \in BOOLEAN

\* A page that learns of an extraction's success, from its first status request
\* or from the one after a POST, comes to have the extracted items or an error of
\* theirs: whatever the document's own request brought, and failed, meanwhile.
ItemsFollow ==
  docAt = "document" /\ docPoll.data = Extracted ~>
    docAt # "document" \/ (docItems.fetch = "idle" /\ (HasData(docItems) \/ docItems.failed))

\* A page on which an extraction was asked for comes to show its success:
\* "Clients should poll this endpoint every 2-3 seconds after triggering POST
\* /{id}/process to check for completion" (documents/router.py:373).  The page
\* asks once after the POST.
OutcomeShown ==
  docAt = "document" /\ docRuns > 1 /\ docStatus = "extracted" ~>
    docAt # "document" \/ docStatus # "extracted" \/ CurrentStatus = Extracted

=============================================================================
