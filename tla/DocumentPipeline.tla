-------------------------- MODULE DocumentPipeline --------------------------
(***************************************************************************)
(* Documents (app/modules/documents): uploaded by agents, read by an OCR   *)
(* task whose products are listed in the catalogue (app/modules/catalog),  *)
(* corrected by hand, quoted from (app/modules/output), deleted.           *)
(*                                                                         *)
(* A job is a request or one delivery of the task.  Processing writes the  *)
(* document's row as soon as it has read it, so it holds the row's lock    *)
(* until its transaction ends; nothing it writes is visible before that.   *)
(***************************************************************************)
EXTENDS Naturals

CONSTANTS
  Docs,       \* ids a document may be given
  Results,    \* lists of products an extraction or a user may produce
  NoProducts, \* the one among them without a product
  Nameless,   \* those whose products all lack a name
  NoItems,    \* extracted_entities is NULL
  Batches,    \* identities of the catalogue rows one sync inserts
  Web,        \* HTTP requests that may be in flight at once
  Tasks,      \* task messages that may be in flight at once
  MaxRetries, \* max_retries of the task
  MaxFaults   \* bound on lost workers and database outages

ASSUME ResultAssumption ==
  /\ NoProducts \in Results /\ NoItems \notin Results
  /\ Nameless \subseteq Results \ {NoProducts}
ASSUME JobAssumption == Web \cap Tasks = {}
ASSUME BoundAssumption == MaxRetries \in Nat /\ MaxFaults \in Nat

VARIABLES
  docs,    \* committed rows of table documents
  stored,  \* documents whose file is in object storage
  catalog, \* per document, the syncs that have rows in catalog_products
  jobs,    \* what each request and each task message is doing
  retries, \* per job, how often its task was retried
  faults,  \* lost workers and outages so far
  cleared  \* history, read by no action: the documents whose listing was last
           \* replaced by a sync of products that all lack a name

vars == <<docs, stored, catalog, jobs, retries, faults, cleared>>

DocumentStatus == {"uploaded", "extracted", "failed"}  \* PROCESSING is never committed
Items == Results \cup {NoItems}
Jobs  == Web \cup Tasks

\* "unused": the id was not given to a document yet.  by: who set the items
\* last; a user who submits them unchanged confirms them.
DocumentRow == [status: DocumentStatus \cup {"unused", "gone"},
                items: Items, by: {"nobody", "ocr", "user"}]

\* All the rows one sync inserted; quoted: a quotation line refers to one.
Listing == [batch: Batches, quoted: BOOLEAN]

Idle       == [step: {"idle"}]
UploadJob  == [step: {"stored", "queued"}, doc: Docs]
ReadyTask  == [step: {"ready"}, doc: Docs]
Processing == [step: {"loaded", "locked"}, doc: Docs, saw: Items]
Synced     == [step: {"synced"}, doc: Docs, saw: Items, result: Results,
               dropped: SUBSET Batches, added: SUBSET Batches]
FailedTask == [step: {"failed"}, doc: Docs]
MarkingTask == [step: {"marking"}, doc: Docs, sawFailed: BOOLEAN]
EditJob    == [step: {"editing"}, doc: Docs, saw: Items,
               sawExtracted: BOOLEAN, items: Results]
DeleteJob  == [step: {"deleting", "unlisted"}, doc: Docs]

WebJob  == Idle \cup UploadJob \cup Processing \cup Synced \cup EditJob
           \cup DeleteJob
TaskJob == Idle \cup ReadyTask \cup Processing \cup Synced \cup FailedTask
           \cup MarkingTask
Job     == WebJob \cup TaskJob

TypeOK ==
  /\ docs \in [Docs -> DocumentRow]
  /\ stored \in SUBSET Docs
  /\ catalog \in [Docs -> SUBSET Listing]
  /\ jobs \in [Jobs -> Job]
  /\ retries \in [Jobs -> 0 .. MaxRetries]
  /\ faults \in 0 .. MaxFaults
  /\ cleared \in SUBSET Docs

Unused == [status |-> "unused", items |-> NoItems, by |-> "nobody"]
Gone   == [status |-> "gone", items |-> NoItems, by |-> "nobody"]
Done   == [step |-> "idle"]

Init ==
  /\ docs = [d \in Docs |-> Unused]
  /\ stored = {}
  /\ catalog = [d \in Docs |-> {}]
  /\ jobs = [j \in Jobs |-> Done]
  /\ retries = [j \in Jobs |-> 0]
  /\ faults = 0
  /\ cleared = {}

At(j, step) == jobs[j].step = step
Exists(d)   == docs[d].status \in DocumentStatus
Goto(j, job) == jobs' = [jobs EXCEPT ![j] = job]

\* Mutant of Locked: the update of the status comes only at the end.
NeverLocked(d) == FALSE

\* The row is locked by a transaction that wrote it and has not ended.
Locked(d) ==
  \E j \in Jobs : jobs[j].step \in {"locked", "synced"} /\ jobs[j].doc = d

BatchesOf(d) == {l.batch : l \in catalog[d]}
Fresh == {b \in Batches :
            /\ \A d \in Docs : b \notin BatchesOf(d)
            /\ \A j \in Jobs : At(j, "synced") => b \notin jobs[j].added}

Rows(batches) == {[batch |-> b, quoted |-> FALSE] : b \in batches}

\* The rows a sync of these items inserts: a product without a name is skipped.
Inserted(items, b) == IF items \in Nameless \cup {NoProducts} THEN {} ELSE {b}

----------------------------------------------------------------------------
(* POST /documents/upload *)

Uploading(d) ==
  \E w \in Web : jobs[w].step \in {"stored", "queued"} /\ jobs[w].doc = d

\* The file is stored and the row inserted, in a transaction not yet ended.
UploadStore(w, d) ==
  /\ At(w, "idle")
  /\ docs[d] = Unused /\ ~Uploading(d)
  /\ stored' = stored \cup {d}
  /\ Goto(w, [step |-> "stored", doc |-> d])
  /\ UNCHANGED <<docs, catalog, retries, faults, cleared>>

\* The task is sent before the row is committed.
UploadQueue(w, t) ==
  /\ At(w, "stored") /\ At(t, "idle")
  /\ jobs' = [jobs EXCEPT ![w].step = "queued",
                          ![t] = [step |-> "ready", doc |-> jobs[w].doc]]
  /\ UNCHANGED <<docs, stored, catalog, retries, faults, cleared>>

UploadCommit(w) ==
  /\ At(w, "queued")
  /\ docs' = [docs EXCEPT ![jobs[w].doc].status = "uploaded"]
  /\ Goto(w, Done)
  /\ UNCHANGED <<stored, catalog, retries, faults, cleared>>

Extracted(result) ==
  [status |-> "extracted", items |-> result, by |-> "ocr"]

\* Without a worker, or when sending seems to have failed, the document is
\* processed in the transaction of the upload.  An exception there is caught,
\* and FAILED is committed with whatever was flushed before it.
UploadInline(w) ==
  /\ jobs[w].step \in {"stored", "queued"}
  /\ \E result \in Results, b \in Fresh :
       LET d    == jobs[w].doc
           rows == Rows(Inserted(result, b))
       IN \/ /\ docs' = [docs EXCEPT ![d] = Extracted(result)]
             /\ catalog' = [catalog EXCEPT ![d] = rows]
          \/ /\ docs' = [docs EXCEPT ![d].status = "failed"]
             /\ UNCHANGED catalog
          \/ \E kept \in {{}, rows} :
               /\ docs' = [docs EXCEPT
                    ![d] = [Extracted(result) EXCEPT !.status = "failed"]]
               /\ catalog' = [catalog EXCEPT ![d] = kept]
  /\ Goto(w, Done)
  /\ UNCHANGED <<stored, retries, faults, cleared>>

\* get_db rolls back: an id given by an upload is not used again, a document
\* whose deletion is refused stays, and the file stays as the request left it.
RequestRollback(w) ==
  /\ ~At(w, "idle")
  /\ docs' = [d \in Docs |->
       IF jobs[w].step \in {"stored", "queued"} /\ d = jobs[w].doc
         THEN Gone ELSE docs[d]]
  /\ Goto(w, Done)
  /\ UNCHANGED <<stored, catalog, retries, faults, cleared>>

----------------------------------------------------------------------------
(* Processing: by the task, or inside POST /documents/{id}/process *)

\* The endpoint only sends a message; it does not look for the document.
RequestProcessing(t, d) ==
  /\ At(t, "idle") /\ docs[d] # Unused
  /\ Goto(t, [step |-> "ready", doc |-> d])
  /\ UNCHANGED <<docs, stored, catalog, retries, faults, cleared>>

Load(j, d) ==
  /\ Exists(d)
  /\ Goto(j, [step |-> "loaded", doc |-> d, saw |-> docs[d].items])
  /\ UNCHANGED <<docs, stored, catalog, retries, faults, cleared>>

ProcessInline(w, d) == At(w, "idle") /\ Load(w, d)

\* A retry waits default_retry_delay, longer than an upload that has sent its
\* message takes to commit.
RetriesAreSlow(t) == retries[t] > 0 => ~Uploading(jobs[t].doc)

TaskLoad(t) ==
  /\ At(t, "ready") /\ RetriesAreSlow(t)
  /\ Load(t, jobs[t].doc)

\* The flush of PROCESSING waits for the row and keeps it.
Lock(j) ==
  /\ At(j, "loaded")
  /\ Exists(jobs[j].doc) /\ ~Locked(jobs[j].doc)
  /\ jobs' = [jobs EXCEPT ![j].step = "locked"]
  /\ UNCHANGED <<docs, stored, catalog, retries, faults, cleared>>

\* A session writes items only if they differ from those it loaded.
Written(d, saw, items) == IF items # saw THEN items ELSE docs[d].items

\* process_document_vision of the service refreshes the row before it syncs;
\* the task syncs what it has in memory.
ItemsToSync(j, result) ==
  IF j \in Web /\ result # NoProducts
    THEN Written(jobs[j].doc, jobs[j].saw, result) ELSE result

\* Mutant of Replaced: the sync deletes before it looks for products.
ReplacedAlways(d, items) == BatchesOf(d)

\* Without products the sync returns before it deletes anything.
Replaced(d, items) == IF items = NoProducts THEN {} ELSE BatchesOf(d)

\* catalog_product_id of a quotation line has no ON DELETE rule.
Referenced(d, batches) == \E l \in catalog[d] : l.batch \in batches /\ l.quoted

\* The extraction ends and its products replace those listed; other
\* transactions still see the old ones.
Sync(j) ==
  /\ At(j, "locked")
  /\ jobs[j].doc \in stored
  /\ \E result \in Results, b \in Fresh :
       LET d     == jobs[j].doc
           items == ItemsToSync(j, result)
       IN /\ ~Referenced(d, Replaced(d, items))
          /\ Goto(j, [step |-> "synced", doc |-> d, saw |-> jobs[j].saw,
                      result |-> result, dropped |-> Replaced(d, items),
                      added |-> Inserted(items, b)])
  /\ UNCHANGED <<docs, stored, catalog, retries, faults, cleared>>

Commit(j) ==
  /\ At(j, "synced")
  /\ LET d == jobs[j].doc
         items == Written(d, jobs[j].saw, jobs[j].result)
     IN /\ docs' = [docs EXCEPT
             ![d] = [status |-> "extracted", items |-> items,
                     by |-> IF jobs[j].result # jobs[j].saw
                              THEN "ocr" ELSE docs[d].by]]
        /\ catalog' = [catalog EXCEPT
             ![d] = {l \in @ : l.batch \notin jobs[j].dropped}
                    \cup Rows(jobs[j].added)]
        /\ cleared' = IF jobs[j].added # {} THEN cleared \ {d}
                      ELSE IF ItemsToSync(j, jobs[j].result) \in Nameless
                             THEN cleared \cup {d} ELSE cleared
  /\ Goto(j, Done)
  /\ retries' = [retries EXCEPT ![j] = 0]
  /\ UNCHANGED <<stored, faults>>

----------------------------------------------------------------------------
(* How the task ends badly *)

Running == {"loaded", "locked", "synced"}

\* No row, no file, an extraction error, a reference to a row to delete: the
\* task rolls back.
Fail(t) ==
  /\ \/ jobs[t].step \in Running
     \/ At(t, "ready") /\ RetriesAreSlow(t) /\ ~Exists(jobs[t].doc)
  /\ Goto(t, [step |-> "failed", doc |-> jobs[t].doc])
  /\ UNCHANGED <<docs, stored, catalog, retries, faults, cleared>>

\* Mutants of Retry: one retry too many; none at all.
RetryOnceMore(t) ==
  /\ Goto(t, [step |-> "ready", doc |-> jobs[t].doc])
  /\ IF retries[t] <= MaxRetries THEN retries' = [retries EXCEPT ![t] = @ + 1]
                                ELSE UNCHANGED retries
NoRetry(t) == Goto(t, Done) /\ UNCHANGED retries

Retry(t) ==
  IF retries[t] < MaxRetries
    THEN /\ Goto(t, [step |-> "ready", doc |-> jobs[t].doc])
         /\ retries' = [retries EXCEPT ![t] = @ + 1]
    ELSE /\ Goto(t, Done)
         /\ retries' = [retries EXCEPT ![t] = 0]

\* The row is read again, to be marked.
Reload(t) ==
  /\ At(t, "failed")
  /\ IF Exists(jobs[t].doc)
       THEN /\ Goto(t, [step |-> "marking", doc |-> jobs[t].doc,
                        sawFailed |-> docs[jobs[t].doc].status = "failed"])
            /\ UNCHANGED retries
       ELSE Retry(t)
  /\ UNCHANGED <<docs, stored, catalog, faults, cleared>>

Mark(t) ==
  /\ At(t, "marking") /\ ~Locked(jobs[t].doc)
  /\ docs' = [docs EXCEPT ![jobs[t].doc].status =
       IF Exists(jobs[t].doc) /\ ~jobs[t].sawFailed THEN "failed" ELSE @]
  /\ Retry(t)
  /\ UNCHANGED <<stored, catalog, faults, cleared>>

\* The exception of a failed marking is swallowed.
MarkLost(t) ==
  /\ jobs[t].step \in {"failed", "marking"}
  /\ faults < MaxFaults
  /\ faults' = faults + 1
  /\ Retry(t)
  /\ UNCHANGED <<docs, stored, catalog, cleared>>

\* acks_late: a task whose worker is lost is delivered again.
WorkerLost(t) ==
  /\ jobs[t].step \in Running \cup {"failed", "marking"}
  /\ faults < MaxFaults
  /\ faults' = faults + 1
  /\ Goto(t, [step |-> "ready", doc |-> jobs[t].doc])
  /\ UNCHANGED <<docs, stored, catalog, retries, cleared>>

----------------------------------------------------------------------------
(* Corrections, quotations, deletion *)

EditRead(w, d, items) ==
  /\ At(w, "idle") /\ Exists(d)
  /\ Goto(w, [step |-> "editing", doc |-> d, saw |-> docs[d].items,
              sawExtracted |-> docs[d].status = "extracted",
              items |-> items])
  /\ UNCHANGED <<docs, stored, catalog, retries, faults, cleared>>

EditCommit(w) ==
  /\ At(w, "editing")
  /\ Exists(jobs[w].doc) /\ ~Locked(jobs[w].doc)
  /\ docs' = [docs EXCEPT ![jobs[w].doc] =
       [status |-> IF jobs[w].sawExtracted THEN @.status ELSE "extracted",
        items  |-> Written(jobs[w].doc, jobs[w].saw, jobs[w].items),
        by     |-> "user"]]
  /\ Goto(w, Done)
  /\ UNCHANGED <<stored, catalog, retries, faults, cleared>>

\* Mutant of Quotable: the reference to a deleted row is not refused.
QuotableUnchecked(d, b) == b \in BatchesOf(d)

\* A row a transaction has deleted or not yet inserted cannot be referred to.
Quotable(d, b) ==
  /\ b \in BatchesOf(d)
  /\ \A j \in Jobs : At(j, "synced") => b \notin jobs[j].dropped

\* create_quotation with a line from the catalogue.
Quote(d, b) ==
  /\ Quotable(d, b)
  /\ catalog' = [catalog EXCEPT
       ![d] = {IF l.batch = b THEN [l EXCEPT !.quoted = TRUE] ELSE l : l \in @}]
  /\ UNCHANGED <<docs, stored, jobs, retries, faults, cleared>>

\* The file goes first; failing to delete it is not an error.
DeleteFile(w, d) ==
  /\ At(w, "idle") /\ Exists(d)
  /\ stored' \in {stored, stored \ {d}}
  /\ Goto(w, [step |-> "deleting", doc |-> d])
  /\ UNCHANGED <<docs, catalog, retries, faults, cleared>>

\* The flush loads the document's products to set their document_id to NULL,
\* which the column does not allow: with a product the request fails.
DeleteCheck(w) ==
  /\ At(w, "deleting") /\ catalog[jobs[w].doc] = {}
  /\ jobs' = [jobs EXCEPT ![w].step = "unlisted"]
  /\ UNCHANGED <<docs, stored, catalog, retries, faults, cleared>>

\* Products committed since are deleted with the row, unless quoted.
DeleteRow(w) ==
  /\ At(w, "unlisted")
  /\ LET d == jobs[w].doc
     IN /\ Exists(d) /\ ~Locked(d) /\ ~Referenced(d, BatchesOf(d))
        /\ docs' = [docs EXCEPT ![d] = Gone]
        /\ catalog' = [catalog EXCEPT ![d] = {}]
  /\ Goto(w, Done)
  /\ UNCHANGED <<stored, retries, faults, cleared>>

----------------------------------------------------------------------------

WebStep(w) ==
  \/ \E t \in Tasks : UploadQueue(w, t)
  \/ UploadCommit(w) \/ UploadInline(w) \/ RequestRollback(w)
  \/ Lock(w) \/ Sync(w) \/ Commit(w)
  \/ EditCommit(w) \/ DeleteCheck(w) \/ DeleteRow(w)

WebStart(w) ==
  \E d \in Docs :
    \/ UploadStore(w, d) \/ ProcessInline(w, d) \/ DeleteFile(w, d)
    \/ \E items \in Results : EditRead(w, d, items)

TaskStep(t) ==
  \/ TaskLoad(t) \/ Lock(t) \/ Sync(t) \/ Commit(t)
  \/ Fail(t) \/ Reload(t) \/ Mark(t)

Next ==
  \/ \E w \in Web : WebStart(w) \/ WebStep(w)
  \/ \E t \in Tasks : TaskStep(t) \/ MarkLost(t) \/ WorkerLost(t)
  \/ \E d \in Docs :
       \/ \E t \in Tasks : RequestProcessing(t, d)
       \/ \E b \in Batches : Quote(d, b)

Spec == Init /\ [][Next]_vars

\* Requests end; a task goes on, and is not overtaken for ever at the row.
Fairness ==
  /\ \A w \in Web : WF_vars(WebStep(w))
  /\ \A t \in Tasks : WF_vars(TaskStep(t)) /\ SF_vars(Mark(t))

FairSpec == Spec /\ Fairness

----------------------------------------------------------------------------
(* Properties *)

\* "Replaces any previously synced products for this document (idempotent)":
\* however deliveries, retries and requests overlap, the products listed for
\* a document come from one run of the sync.
CatalogIsOneExtraction ==
  \A d \in Docs : \A l, m \in catalog[d] : l.batch = m.batch

\* An extracted document whose items were read by OCR and name a product is in
\* the catalogue, although a session writes no items that equal those it loaded
\* and an extraction without products leaves the catalogue alone.  What takes it
\* out again is only a sync of products without a name, whose document may keep
\* the items of another extraction.
ExtractedIsListed ==
  \A d \in Docs \ cleared :
    docs[d].status = "extracted" /\ docs[d].by = "ocr"
      /\ docs[d].items \notin Nameless \cup {NoProducts} => catalog[d] # {}

\* What a quotation refers to is not deleted, neither by a sync nor with the
\* document.
QuotedRowsStay ==
  [][\A d \in Docs : \A l \in catalog[d] : l.quoted => l \in catalog'[d]]_vars

\* Every document that was uploaded is extracted, marked as failed or deleted,
\* although its task may be delivered before the row is there, lose its worker
\* or fail to mark it.
UploadedIsProcessed ==
  \A d \in Docs : docs[d].status = "uploaded" ~> docs[d].status # "uploaded"

=============================================================================
