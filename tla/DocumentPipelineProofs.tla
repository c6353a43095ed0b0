----------------------- MODULE DocumentPipelineProofs -----------------------
(* Theorems about DocumentPipeline, for every value of its constants. *)
EXTENDS DocumentPipeline, TLAPS

----------------------------------------------------------------------------
(* Lemmas about the shapes of values *)

\* The step of a job says which fields it has.
LEMMA JobFields ==
  ASSUME NEW job \in Job
  PROVE  /\ job.step \in {"stored", "queued"} => job \in UploadJob
         /\ job.step = "ready" => job \in ReadyTask
         /\ job.step \in {"loaded", "locked"} => job \in Processing
         /\ job.step = "synced" => job \in Synced
         /\ job.step = "failed" => job \in FailedTask
         /\ job.step = "marking" => job \in MarkingTask
         /\ job.step = "editing" => job \in EditJob
         /\ job.step \in {"deleting", "unlisted"} => job \in DeleteJob
BY DEF Job, WebJob, TaskJob, Idle, UploadJob, ReadyTask, Processing, Synced,
       FailedTask, MarkingTask, EditJob, DeleteJob

\* Every job that is not idle works on a document.
LEMMA JobHasDoc ==
  ASSUME NEW job \in Job, job.step # "idle"
  PROVE  job.doc \in Docs
BY DEF Job, WebJob, TaskJob, Idle, UploadJob, ReadyTask, Processing, Synced,
       FailedTask, MarkingTask, EditJob, DeleteJob

\* The steps a job is moved to are jobs.
LEMMA JobShapes ==
  /\ Done \in Job
  /\ \A d \in Docs :
       /\ \A step \in {"stored", "ready", "failed", "deleting"} :
            [step |-> step, doc |-> d] \in Job
       /\ \A saw \in Items : [step |-> "loaded", doc |-> d, saw |-> saw] \in Job
       /\ \A b \in BOOLEAN :
            [step |-> "marking", doc |-> d, sawFailed |-> b] \in Job
       /\ \A saw \in Items, b \in BOOLEAN, items \in Results :
            [step |-> "editing", doc |-> d, saw |-> saw, sawExtracted |-> b,
             items |-> items] \in Job
       /\ \A saw \in Items, result \in Results,
             dropped \in SUBSET Batches, added \in SUBSET Batches :
            [step |-> "synced", doc |-> d, saw |-> saw, result |-> result,
             dropped |-> dropped, added |-> added] \in Job
BY DEF Job, WebJob, TaskJob, Idle, UploadJob, ReadyTask, Processing, Synced,
       FailedTask, MarkingTask, EditJob, DeleteJob, Done

\* The rows of well-formed batches are well-formed.
LEMMA RowsType ==
  \A batches \in SUBSET Batches : Rows(batches) \in SUBSET Listing
<1> SUFFICES ASSUME NEW batches \in SUBSET Batches, NEW b \in batches
             PROVE  [batch |-> b, quoted |-> FALSE] \in Listing
  BY DEF Rows
<1> QED BY DEF Listing

\* What a session leaves in the items is a list of products or what was there.
LEMMA WrittenType ==
  ASSUME docs \in [Docs -> DocumentRow], NEW d \in Docs, NEW saw,
         NEW items \in Results
  PROVE  Written(d, saw, items) \in Items
BY DEF Written, DocumentRow, Items

----------------------------------------------------------------------------
(* Type correctness *)

\* A retry keeps jobs and counters well-formed.
LEMMA RetryType ==
  ASSUME TypeOK, NEW t \in Tasks, jobs[t].step # "idle", Retry(t)
  PROVE  /\ jobs' \in [Jobs -> Job]
         /\ retries' \in [Jobs -> 0 .. MaxRetries]
<1>1. t \in Jobs
  BY DEF Jobs
<1>2. jobs[t].doc \in Docs
  BY <1>1, JobHasDoc DEF TypeOK
<1>3. CASE retries[t] < MaxRetries
  <2>1. retries[t] + 1 \in 0 .. MaxRetries
    BY <1>1, <1>3, BoundAssumption DEF TypeOK
  <2> QED BY <1>1, <1>2, <1>3, <2>1, JobShapes DEF Retry, Goto, TypeOK
<1>4. CASE ~(retries[t] < MaxRetries)
  <2>1. 0 \in 0 .. MaxRetries
    BY BoundAssumption
  <2> QED BY <1>1, <1>4, <2>1, JobShapes DEF Retry, Goto, TypeOK
<1> QED BY <1>3, <1>4

\* Moving one job to a well-formed one keeps all well-formed.
LEMMA GotoType ==
  ASSUME jobs \in [Jobs -> Job], NEW j \in Jobs, NEW job \in Job, Goto(j, job)
  PROVE  jobs' \in [Jobs -> Job]
BY DEF Goto

\* Every step keeps rows and jobs well-formed.
LEMMA TypeStep == TypeOK /\ [Next]_vars => TypeOK'
<1> SUFFICES ASSUME TypeOK, [Next]_vars PROVE TypeOK'
  OBVIOUS
<1> USE DEF TypeOK
<1>a. Web \subseteq Jobs /\ Tasks \subseteq Jobs
  BY DEF Jobs
<1>1. ASSUME NEW w \in Web, NEW d \in Docs, UploadStore(w, d) PROVE TypeOK'
  BY <1>1, <1>a, JobShapes DEF UploadStore, Goto
<1>2. ASSUME NEW w \in Web, NEW t \in Tasks, UploadQueue(w, t) PROVE TypeOK'
  <2>1. jobs[w] \in UploadJob /\ jobs[w].doc \in Docs
    BY <1>2, <1>a, JobFields DEF UploadQueue, At, UploadJob
  <2>2. [jobs[w] EXCEPT !.step = "queued"] \in Job
    BY <2>1 DEF UploadJob, Job, WebJob
  <2>3. [step |-> "ready", doc |-> jobs[w].doc] \in Job
    BY <2>1, JobShapes
  <2> QED BY <1>2, <1>a, <2>2, <2>3 DEF UploadQueue
<1>3. ASSUME NEW w \in Web, UploadCommit(w) PROVE TypeOK'
  <2>1. jobs[w].doc \in Docs
    BY <1>3, <1>a, JobHasDoc DEF UploadCommit, At
  <2>2. docs' \in [Docs -> DocumentRow]
    BY <1>3, <2>1 DEF UploadCommit, DocumentRow, DocumentStatus
  <2> QED BY <1>3, <1>a, <2>2, JobShapes DEF UploadCommit, Goto
<1>4. ASSUME NEW w \in Web, UploadInline(w) PROVE TypeOK'
  <2> DEFINE d == jobs[w].doc
  <2>1. d \in Docs
    BY <1>4, <1>a, JobHasDoc DEF UploadInline
  <2>2. PICK result \in Results, b \in Fresh :
          LET rows == Rows(Inserted(result, b))
          IN \/ /\ docs' = [docs EXCEPT ![d] = Extracted(result)]
                /\ catalog' = [catalog EXCEPT ![d] = rows]
             \/ /\ docs' = [docs EXCEPT ![d].status = "failed"]
                /\ UNCHANGED catalog
             \/ \E kept \in {{}, rows} :
                  /\ docs' = [docs EXCEPT
                       ![d] = [Extracted(result) EXCEPT !.status = "failed"]]
                  /\ catalog' = [catalog EXCEPT ![d] = kept]
    BY <1>4 DEF UploadInline
  <2>3. Rows(Inserted(result, b)) \in SUBSET Listing
    BY RowsType DEF Fresh, Inserted
  <2>4. /\ Extracted(result) \in DocumentRow
        /\ [Extracted(result) EXCEPT !.status = "failed"] \in DocumentRow
    BY DEF Extracted, DocumentRow, DocumentStatus, Items
  <2>5. [docs[d] EXCEPT !.status = "failed"] \in DocumentRow
    BY <2>1 DEF DocumentRow, DocumentStatus
  <2>6. docs' \in [Docs -> DocumentRow]
    BY <2>1, <2>2, <2>4, <2>5
  <2>7. catalog' \in [Docs -> SUBSET Listing]
    <3>1. {} \in SUBSET Listing
      OBVIOUS
    <3> DEFINE rows == Rows(Inserted(result, b))
    <3>2. rows \in SUBSET Listing
      BY <2>3
    <3>3. \/ UNCHANGED catalog
          \/ \E kept \in {{}, rows} : catalog' = [catalog EXCEPT ![d] = kept]
      BY <2>2
    <3> HIDE DEF rows, d
    <3> QED BY <2>1, <3>1, <3>2, <3>3
  <2> QED BY <1>4, <1>a, <2>6, <2>7, JobShapes DEF UploadInline, Goto
<1>5. ASSUME NEW w \in Web, RequestRollback(w) PROVE TypeOK'
  <2>1. Gone \in DocumentRow
    BY DEF Gone, DocumentRow, DocumentStatus, Items
  <2> QED BY <1>5, <1>a, <2>1, JobShapes DEF RequestRollback, Goto
<1>6. ASSUME NEW t \in Tasks, NEW d \in Docs, RequestProcessing(t, d)
      PROVE  TypeOK'
  BY <1>6, <1>a, JobShapes DEF RequestProcessing, Goto
<1>7. ASSUME NEW j \in Jobs, NEW d \in Docs, Load(j, d) PROVE TypeOK'
  <2>1. docs[d].items \in Items
    BY DEF DocumentRow
  <2> QED BY <1>7, <2>1, JobShapes DEF Load, Goto
<1>8. ASSUME NEW w \in Web, NEW d \in Docs, ProcessInline(w, d) PROVE TypeOK'
  BY <1>8, <1>7, <1>a DEF ProcessInline
<1>9. ASSUME NEW t \in Tasks, TaskLoad(t) PROVE TypeOK'
  <2>1. jobs[t].doc \in Docs
    BY <1>9, <1>a, JobHasDoc DEF TaskLoad, At
  <2> QED BY <1>9, <1>7, <1>a, <2>1 DEF TaskLoad
<1>10. ASSUME NEW j \in Jobs, Lock(j) PROVE TypeOK'
  <2>1. jobs[j] \in Processing
    BY <1>10, JobFields DEF Lock, At
  <2>2. [jobs[j] EXCEPT !.step = "locked"] \in Job
    BY <2>1 DEF Processing, Job, WebJob
  <2> QED BY <1>10, <2>2 DEF Lock
<1>11. ASSUME NEW j \in Jobs, Sync(j) PROVE TypeOK'
  <2> DEFINE d == jobs[j].doc
             items(result) == ItemsToSync(j, result)
  <2>1. d \in Docs /\ jobs[j].saw \in Items
    BY <1>11, JobFields DEF Sync, At, Processing
  <2>2. PICK result \in Results, b \in Fresh :
          Goto(j, [step |-> "synced", doc |-> d, saw |-> jobs[j].saw,
                   result |-> result, dropped |-> Replaced(d, items(result)),
                   added |-> Inserted(items(result), b)])
    BY <1>11 DEF Sync
  <2>3. Replaced(d, items(result)) \in SUBSET Batches
    BY <2>1 DEF Replaced, BatchesOf, Listing
  <2>4. Inserted(items(result), b) \in SUBSET Batches
    BY DEF Fresh, Inserted
  <2>5. jobs' \in [Jobs -> Job]
    <3> HIDE DEF items, d
    <3> QED BY <2>1, <2>2, <2>3, <2>4, JobShapes, GotoType
  <2> QED BY <1>11, <2>5 DEF Sync
<1>12. ASSUME NEW j \in Jobs, Commit(j) PROVE TypeOK'
  <2> DEFINE d == jobs[j].doc
             items == Written(d, jobs[j].saw, jobs[j].result)
             row == [status |-> "extracted", items |-> items,
                     by |-> IF jobs[j].result # jobs[j].saw
                              THEN "ocr" ELSE docs[d].by]
             rows == {l \in catalog[d] : l.batch \notin jobs[j].dropped}
                     \cup Rows(jobs[j].added)
  <2>1. jobs[j] \in Synced
    BY <1>12, JobFields DEF Commit, At
  <2>2. d \in Docs /\ items \in Items
    BY <2>1, WrittenType DEF Synced
  <2>3. row \in DocumentRow
    BY <2>2 DEF DocumentRow, DocumentStatus
  <2>4. rows \in SUBSET Listing
    BY <2>1, <2>2, RowsType DEF Synced
  <2>5. /\ docs' = [docs EXCEPT ![d] = row]
        /\ catalog' = [catalog EXCEPT ![d] = rows]
    BY <1>12 DEF Commit
  <2>6. docs' \in [Docs -> DocumentRow] /\ catalog' \in [Docs -> SUBSET Listing]
    BY <2>2, <2>3, <2>4, <2>5
  <2>7. retries' \in [Jobs -> 0 .. MaxRetries]
    BY <1>12, BoundAssumption DEF Commit
  <2> QED BY <1>12, <2>6, <2>7, JobShapes DEF Commit, Goto
<1>13. ASSUME NEW t \in Tasks, Fail(t) PROVE TypeOK'
  <2>1. jobs[t].doc \in Docs
    BY <1>13, <1>a, JobHasDoc DEF Fail, At, Running
  <2> QED BY <1>13, <1>a, <2>1, JobShapes DEF Fail, Goto
<1>14. ASSUME NEW t \in Tasks, Reload(t) PROVE TypeOK'
  <2>1. jobs[t].doc \in Docs /\ jobs[t].step # "idle"
    BY <1>14, <1>a, JobHasDoc DEF Reload, At
  <2>2. CASE Exists(jobs[t].doc)
    <3>1. [step |-> "marking", doc |-> jobs[t].doc,
           sawFailed |-> docs[jobs[t].doc].status = "failed"] \in Job
      BY <2>1, JobShapes
    <3> QED BY <1>14, <1>a, <2>2, <3>1 DEF Reload, Goto
  <2>3. CASE ~Exists(jobs[t].doc)
    BY <1>14, <2>1, <2>3, RetryType DEF Reload
  <2> QED BY <2>2, <2>3
<1>15. ASSUME NEW t \in Tasks, Mark(t) PROVE TypeOK'
  <2>1. jobs[t].doc \in Docs /\ jobs[t].step # "idle"
    BY <1>15, <1>a, JobHasDoc DEF Mark, At
  <2>2. docs' \in [Docs -> DocumentRow]
    BY <1>15, <2>1 DEF Mark, DocumentRow, DocumentStatus
  <2> QED BY <1>15, <2>1, <2>2, RetryType DEF Mark
<1>16. ASSUME NEW t \in Tasks, MarkLost(t) PROVE TypeOK'
  <2>1. jobs[t].step # "idle"
    BY <1>16 DEF MarkLost
  <2>2. faults' \in 0 .. MaxFaults
    BY <1>16, BoundAssumption DEF MarkLost
  <2> QED BY <1>16, <2>1, <2>2, RetryType DEF MarkLost
<1>17. ASSUME NEW t \in Tasks, WorkerLost(t) PROVE TypeOK'
  <2>1. jobs[t].doc \in Docs
    BY <1>17, <1>a, JobHasDoc DEF WorkerLost, Running
  <2>2. faults' \in 0 .. MaxFaults
    BY <1>17, BoundAssumption DEF WorkerLost
  <2> QED BY <1>17, <1>a, <2>1, <2>2, JobShapes DEF WorkerLost, Goto
<1>18. ASSUME NEW w \in Web, NEW d \in Docs, NEW items \in Results,
              EditRead(w, d, items)
       PROVE  TypeOK'
  <2>1. docs[d].items \in Items /\ (docs[d].status = "extracted") \in BOOLEAN
    BY DEF DocumentRow
  <2> QED BY <1>18, <1>a, <2>1, JobShapes DEF EditRead, Goto
<1>19. ASSUME NEW w \in Web, EditCommit(w) PROVE TypeOK'
  <2> DEFINE d == jobs[w].doc
             row == [status |-> IF jobs[w].sawExtracted THEN docs[d].status
                                  ELSE "extracted",
                     items |-> Written(d, jobs[w].saw, jobs[w].items),
                     by |-> "user"]
  <2>1. jobs[w] \in EditJob
    BY <1>19, <1>a, JobFields DEF EditCommit, At
  <2>2. d \in Docs /\ Written(d, jobs[w].saw, jobs[w].items) \in Items
    BY <2>1, WrittenType DEF EditJob
  <2>3. row \in DocumentRow
    BY <2>2 DEF DocumentRow, DocumentStatus
  <2>4. docs' = [docs EXCEPT ![d] = row]
    BY <1>19, <2>2 DEF EditCommit
  <2>5. docs' \in [Docs -> DocumentRow]
    BY <2>2, <2>3, <2>4
  <2> QED BY <1>19, <1>a, <2>5, JobShapes DEF EditCommit, Goto
<1>20. ASSUME NEW d \in Docs, NEW b \in Batches, Quote(d, b) PROVE TypeOK'
  <2> DEFINE rows == {IF l.batch = b THEN [l EXCEPT !.quoted = TRUE] ELSE l :
                        l \in catalog[d]}
  <2>1. rows \in SUBSET Listing
    <3> SUFFICES ASSUME NEW l \in catalog[d]
                 PROVE  [l EXCEPT !.quoted = TRUE] \in Listing
      OBVIOUS
    <3>1. l \in Listing
      OBVIOUS
    <3> QED BY <3>1 DEF Listing
  <2>2. catalog' = [catalog EXCEPT ![d] = rows]
    BY <1>20 DEF Quote
  <2>3. catalog' \in [Docs -> SUBSET Listing]
    BY <2>1, <2>2
  <2> QED BY <1>20, <2>3 DEF Quote
<1>21. ASSUME NEW w \in Web, NEW d \in Docs, DeleteFile(w, d) PROVE TypeOK'
  BY <1>21, <1>a, JobShapes DEF DeleteFile, Goto
<1>22. ASSUME NEW w \in Web, DeleteCheck(w) PROVE TypeOK'
  <2>1. jobs[w] \in DeleteJob
    BY <1>22, <1>a, JobFields DEF DeleteCheck, At
  <2>2. [jobs[w] EXCEPT !.step = "unlisted"] \in Job
    BY <2>1 DEF DeleteJob, Job, WebJob
  <2> QED BY <1>22, <1>a, <2>2 DEF DeleteCheck
<1>23. ASSUME NEW w \in Web, DeleteRow(w) PROVE TypeOK'
  <2>1. Gone \in DocumentRow
    BY DEF Gone, DocumentRow, DocumentStatus, Items
  <2> QED BY <1>23, <1>a, <2>1, JobShapes DEF DeleteRow, Goto
<1>24. CASE UNCHANGED vars
  BY <1>24 DEF vars
<1>25. ASSUME NEW w \in Web, WebStart(w) PROVE TypeOK'
  BY <1>25, <1>1, <1>8, <1>18, <1>21 DEF WebStart
<1>26. ASSUME NEW w \in Web, WebStep(w) PROVE TypeOK'
  BY <1>26, <1>a, <1>2, <1>3, <1>4, <1>5, <1>10, <1>11, <1>12, <1>19, <1>22,
     <1>23 DEF WebStep
<1>27. ASSUME NEW t \in Tasks, TaskStep(t) PROVE TypeOK'
  BY <1>27, <1>a, <1>9, <1>10, <1>11, <1>12, <1>13, <1>14, <1>15 DEF TaskStep
<1> QED BY <1>6, <1>16, <1>17, <1>20, <1>24, <1>25, <1>26, <1>27 DEF Next

LEMMA TypeInit == Init => TypeOK
BY BoundAssumption, JobShapes
   DEF Init, TypeOK, Unused, DocumentRow, DocumentStatus, Items

\* Every reachable state has well-formed rows and jobs.
THEOREM TypeCorrect == Spec => []TypeOK
BY TypeInit, TypeStep, PTL DEF Spec

----------------------------------------------------------------------------
(* The row lock *)

Writing(j) == jobs[j].step \in {"locked", "synced"}
Reserved(w) == jobs[w].step \in {"stored", "queued"}

\* One transaction at a time has written a document's row, which is there.
WritersAreAlone ==
  \A i, j \in Jobs :
    Writing(i) /\ Writing(j) /\ jobs[i].doc = jobs[j].doc => i = j

WritersHaveRow == \A j \in Jobs : Writing(j) => Exists(jobs[j].doc)

\* Nobody has read the row of an upload that has not ended.
ReadersSawRow ==
  \A j \in Jobs : jobs[j].step \in Running => docs[jobs[j].doc].status # "unused"

UploadsAreUnseen ==
  \A w \in Web : Reserved(w) =>
    /\ docs[jobs[w].doc].status = "unused"
    /\ \A v \in Web : Reserved(v) /\ jobs[v].doc = jobs[w].doc => v = w

NoRowNoListing == \A d \in Docs : ~Exists(d) => catalog[d] = {}

\* What a sync found to list: nothing, products without a name, or one batch.
AddsNothing(j) ==
  /\ jobs[j].dropped = {} /\ jobs[j].added = {}
  /\ ItemsToSync(j, jobs[j].result) = NoProducts

ClearsListing(j) ==
  /\ jobs[j].added = {}
  /\ ItemsToSync(j, jobs[j].result) \in Nameless

ReplacesAll(j) ==
  /\ jobs[j].dropped = BatchesOf(jobs[j].doc)
  /\ ClearsListing(j) \/ \E b \in Batches : jobs[j].added = {b}

\* A sync that has not committed replaces all that is listed, or had nothing
\* to list.
SyncReplacesAll ==
  \A j \in Jobs : At(j, "synced") => AddsNothing(j) \/ ReplacesAll(j)

DroppedAreUnquoted ==
  \A j \in Jobs :
    At(j, "synced") => ~Referenced(jobs[j].doc, jobs[j].dropped)

LockInv ==
  /\ TypeOK
  /\ WritersAreAlone
  /\ WritersHaveRow
  /\ ReadersSawRow
  /\ UploadsAreUnseen
  /\ NoRowNoListing
  /\ SyncReplacesAll
  /\ DroppedAreUnquoted
  /\ CatalogIsOneExtraction

\* A step keeps the invariant if it moves jobs only to where they hold and
\* reserve nothing, and changes no more of a row than its status and, where
\* nobody holds it, its items.
LEMMA HarmlessStep ==
  ASSUME LockInv, TypeOK', UNCHANGED catalog,
         \A j \in Jobs : \/ jobs'[j] = jobs[j]
                         \/ jobs'[j].step \notin Running \cup {"stored", "queued"},
         \A d \in Docs :
           /\ Exists(d)' <=> Exists(d)
           /\ docs'[d].status = "unused" <=> docs[d].status = "unused"
           /\ docs'[d].items = docs[d].items \/ ~Locked(d)
  PROVE  LockInv'
<1> USE DEF LockInv
<1>1. \A j \in Jobs : jobs'[j].step \in Running => jobs'[j] = jobs[j]
  OBVIOUS
<1>2. \A j \in Jobs : jobs'[j].step \in Running => jobs[j].doc \in Docs
  BY <1>1, JobHasDoc DEF TypeOK, Running
<1>3. \A w \in Web : Reserved(w)' => jobs'[w] = jobs[w] /\ jobs[w].doc \in Docs
  BY JobHasDoc DEF Reserved, TypeOK, Jobs
<1>4. WritersAreAlone'
  BY <1>1 DEF WritersAreAlone, Writing, Running
<1>5. WritersHaveRow'
  BY <1>1, <1>2 DEF WritersHaveRow, Writing, Running
<1>6. ReadersSawRow'
  BY <1>1, <1>2 DEF ReadersSawRow
<1>7. UploadsAreUnseen'
  BY <1>3 DEF UploadsAreUnseen, Reserved
<1>8. NoRowNoListing'
  BY DEF NoRowNoListing
<1>9. SyncReplacesAll'
  <2> SUFFICES ASSUME NEW j \in Jobs, At(j, "synced")'
               PROVE  AddsNothing(j)' \/ ReplacesAll(j)'
    BY DEF SyncReplacesAll
  <2>1. jobs'[j] = jobs[j] /\ At(j, "synced") /\ jobs[j].doc \in Docs
    BY <1>1, <1>2 DEF At, Running
  <2>2. docs'[jobs[j].doc].items = docs[jobs[j].doc].items
    BY <2>1 DEF Locked, At
  <2>3. ItemsToSync(j, jobs[j].result)' = ItemsToSync(j, jobs[j].result)
    BY <2>1, <2>2 DEF ItemsToSync, Written
  <2>4. BatchesOf(jobs[j].doc)' = BatchesOf(jobs[j].doc)
    BY <2>1 DEF BatchesOf
  <2> QED BY <2>1, <2>3, <2>4
          DEF SyncReplacesAll, AddsNothing, ReplacesAll, ClearsListing
<1>10. DroppedAreUnquoted'
  BY <1>1 DEF DroppedAreUnquoted, At, Running, Referenced
<1>11. CatalogIsOneExtraction'
  BY DEF CatalogIsOneExtraction
<1> QED BY <1>4, <1>5, <1>6, <1>7, <1>8, <1>9, <1>10, <1>11

\* So does a step that ends the transaction that alone wrote a row, if the row
\* it leaves has the products of one sync, or is gone with all of them.
LEMMA RowStep ==
  ASSUME LockInv, TypeOK', NEW d \in Docs,
         \A e \in Docs : e # d => docs'[e] = docs[e] /\ catalog'[e] = catalog[e],
         docs'[d].status # "unused",
         Exists(d)' \/ catalog'[d] = {},
         \A l, m \in catalog'[d] : l.batch = m.batch,
         \A j \in Jobs : \/ jobs'[j] = jobs[j]
                         \/ jobs'[j].step \notin Running \cup {"stored", "queued"},
         \A j \in Jobs : Writing(j)' => jobs'[j].doc # d,
         \A w \in Web : Reserved(w)' => jobs'[w].doc # d
  PROVE  LockInv'
<1> USE DEF LockInv
<1>1. \A j \in Jobs : jobs'[j].step \in Running => jobs'[j] = jobs[j]
  OBVIOUS
<1>2. \A j \in Jobs : jobs'[j].step \in Running => jobs[j].doc \in Docs
  BY <1>1, JobHasDoc DEF TypeOK, Running
<1>3. \A w \in Web : Reserved(w)' => jobs'[w] = jobs[w] /\ jobs[w].doc \in Docs
  BY JobHasDoc DEF Reserved, TypeOK, Jobs
<1>4. WritersAreAlone'
  BY <1>1 DEF WritersAreAlone, Writing, Running
<1>5. WritersHaveRow'
  BY <1>1, <1>2 DEF WritersHaveRow, Writing, Running, Exists
<1>6. ReadersSawRow'
  BY <1>1, <1>2 DEF ReadersSawRow
<1>7. UploadsAreUnseen'
  BY <1>3 DEF UploadsAreUnseen, Reserved
<1>8. NoRowNoListing'
  BY DEF NoRowNoListing, Exists
<1>9. SyncReplacesAll'
  <2> SUFFICES ASSUME NEW j \in Jobs, At(j, "synced")'
               PROVE  AddsNothing(j)' \/ ReplacesAll(j)'
    BY DEF SyncReplacesAll
  <2>1. jobs'[j] = jobs[j] /\ At(j, "synced") /\ jobs[j].doc \in Docs \ {d}
    BY <1>1, <1>2 DEF At, Running, Writing
  <2>2. ItemsToSync(j, jobs[j].result)' = ItemsToSync(j, jobs[j].result)
    BY <2>1 DEF ItemsToSync, Written
  <2>3. BatchesOf(jobs[j].doc)' = BatchesOf(jobs[j].doc)
    BY <2>1 DEF BatchesOf
  <2> QED BY <2>1, <2>2, <2>3
          DEF SyncReplacesAll, AddsNothing, ReplacesAll, ClearsListing
<1>10. DroppedAreUnquoted'
  <2> SUFFICES ASSUME NEW j \in Jobs, At(j, "synced")'
               PROVE  ~Referenced(jobs[j].doc, jobs[j].dropped)'
    BY <1>1 DEF DroppedAreUnquoted, At, Running
  <2>1. jobs'[j] = jobs[j] /\ At(j, "synced") /\ jobs[j].doc \in Docs \ {d}
    BY <1>1, <1>2 DEF At, Running, Writing
  <2> QED BY <2>1 DEF DroppedAreUnquoted, Referenced
<1>11. CatalogIsOneExtraction'
  BY DEF CatalogIsOneExtraction
<1> QED BY <1>4, <1>5, <1>6, <1>7, <1>8, <1>9, <1>10, <1>11

\* Moving one job changes no other.
LEMMA GotoOne ==
  ASSUME jobs \in [Jobs -> Job], NEW j \in Jobs, NEW job, Goto(j, job)
  PROVE  /\ jobs'[j] = job
         /\ \A i \in Jobs : i # j => jobs'[i] = jobs[i]
BY DEF Goto

\* A retry leaves the job idle or its message ready.
LEMMA RetryMoves ==
  ASSUME TypeOK, NEW t \in Tasks, Retry(t)
  PROVE  \A i \in Jobs : \/ jobs'[i] = jobs[i]
                         \/ jobs'[i].step \in {"idle", "ready"}
BY DEF Retry, Goto, Done, TypeOK, Jobs

LEMMA LockStep == LockInv /\ [Next]_vars => LockInv'
<1> SUFFICES ASSUME LockInv, [Next]_vars PROVE LockInv'
  OBVIOUS
<1> USE DEF LockInv
<1>a. TypeOK'
  BY TypeStep
<1>b. Web \subseteq Jobs /\ Tasks \subseteq Jobs
  BY DEF Jobs
<1> DEFINE Harmless == \A j \in Jobs :
             \/ jobs'[j] = jobs[j]
             \/ jobs'[j].step \notin Running \cup {"stored", "queued"}
<1>c. ASSUME Harmless, UNCHANGED <<docs, catalog>> PROVE LockInv'
  BY <1>a, <1>c, HarmlessStep DEF Exists
<1>g. ASSUME UNCHANGED <<docs, catalog>>, UploadsAreUnseen',
             \A i \in Jobs : jobs'[i].step \in Running => jobs'[i] = jobs[i]
      PROVE  LockInv'
  <2>1. WritersAreAlone' /\ WritersHaveRow' /\ ReadersSawRow'
    BY <1>g DEF WritersAreAlone, WritersHaveRow, Writing, Exists, ReadersSawRow,
                Running
  <2>2. NoRowNoListing' /\ CatalogIsOneExtraction'
    BY <1>g DEF NoRowNoListing, Exists, CatalogIsOneExtraction
  <2>3. SyncReplacesAll'
    BY <1>g
       DEF SyncReplacesAll, AddsNothing, ReplacesAll, ClearsListing, At, Running,
           ItemsToSync, Written, BatchesOf
  <2>4. DroppedAreUnquoted'
    BY <1>g DEF DroppedAreUnquoted, At, Running, Referenced
  <2> QED BY <1>a, <1>g, <2>1, <2>2, <2>3, <2>4
<1>1. ASSUME NEW w \in Web, NEW d \in Docs, UploadStore(w, d) PROVE LockInv'
  <2>1. /\ jobs'[w] = [step |-> "stored", doc |-> d]
        /\ \A i \in Jobs : i # w => jobs'[i] = jobs[i]
    BY <1>1, <1>b, GotoOne DEF UploadStore, TypeOK
  <2>2. UNCHANGED <<docs, catalog>> /\ docs[d].status = "unused" /\ ~Uploading(d)
    BY <1>1 DEF UploadStore, Unused
  <2>3. UploadsAreUnseen'
    BY <1>b, <2>1, <2>2 DEF UploadsAreUnseen, Reserved, Uploading
  <2>4. \A i \in Jobs : jobs'[i].step \in Running => jobs'[i] = jobs[i]
    BY <2>1 DEF Running
  <2> QED BY <1>g, <2>2, <2>3, <2>4
<1>2. ASSUME NEW w \in Web, NEW t \in Tasks, UploadQueue(w, t) PROVE LockInv'
  <2>1. w # t
    BY JobAssumption
  <2>2. jobs[w] \in UploadJob
    BY <1>2, <1>b, JobFields DEF UploadQueue, At, TypeOK
  <2>3. /\ jobs'[w].step = "queued" /\ jobs'[w].doc = jobs[w].doc
        /\ jobs'[t].step = "ready"
        /\ \A i \in Jobs : i # w /\ i # t => jobs'[i] = jobs[i]
    BY <1>2, <1>b, <2>1, <2>2 DEF UploadQueue, TypeOK, UploadJob
  <2>4. UNCHANGED <<docs, catalog>>
    BY <1>2 DEF UploadQueue
  <2>5. Reserved(w) /\ t \notin Web
    BY <1>2, JobAssumption DEF UploadQueue, At, Reserved
  <2>6. UploadsAreUnseen'
    BY <1>b, <2>3, <2>4, <2>5 DEF UploadsAreUnseen, Reserved
  <2>7. \A i \in Jobs : jobs'[i].step \in Running => jobs'[i] = jobs[i]
    BY <2>3 DEF Running
  <2> QED BY <1>g, <2>4, <2>6, <2>7
<1> DEFINE UploadEnds(w) == Reserved(w) /\ Goto(w, Done)
<1>d. ASSUME NEW w \in Web, UploadEnds(w)
      PROVE  /\ Harmless
             /\ \A j \in Jobs : Writing(j)' => jobs'[j].doc # jobs[w].doc
             /\ \A v \in Web : Reserved(v)' => jobs'[v].doc # jobs[w].doc
  <2>1. \A j \in Jobs : j # w => jobs'[j] = jobs[j]
    BY <1>b, <1>d, GotoOne DEF TypeOK
  <2>2. jobs'[w] = Done
    BY <1>b, <1>d, GotoOne DEF TypeOK
  <2>3. docs[jobs[w].doc].status = "unused"
    BY <1>d DEF UploadsAreUnseen
  <2>4. Harmless
    BY <2>1, <2>2 DEF Done, Running
  <2>5. \A j \in Jobs : Writing(j)' => jobs'[j].doc # jobs[w].doc
    BY <2>1, <2>2, <2>3
       DEF Writing, WritersHaveRow, Exists, DocumentStatus, Done
  <2>6. \A v \in Web : Reserved(v)' => jobs'[v].doc # jobs[w].doc
    BY <1>b, <1>d, <2>1, <2>2 DEF Reserved, UploadsAreUnseen, Done
  <2> QED BY <2>4, <2>5, <2>6
<1>3. ASSUME NEW w \in Web, UploadCommit(w) PROVE LockInv'
  <2> DEFINE d == jobs[w].doc
  <2>1. Reserved(w) /\ d \in Docs /\ docs[d].status = "unused"
    BY <1>3, <1>b, JobHasDoc DEF UploadCommit, At, Reserved, TypeOK,
       UploadsAreUnseen
  <2>2. docs'[d].status = "uploaded"
    BY <1>3, <2>1 DEF UploadCommit, TypeOK
  <2>3. catalog'[d] = {}
    BY <1>3, <2>1 DEF UploadCommit, NoRowNoListing, Exists, DocumentStatus
  <2>4. \A e \in Docs : e # d => docs'[e] = docs[e] /\ catalog'[e] = catalog[e]
    BY <1>3 DEF UploadCommit, TypeOK
  <2>5. UploadEnds(w)
    BY <1>3, <2>1 DEF UploadCommit
  <2> QED BY <1>a, <2>1, <2>2, <2>3, <2>4, <2>5, <1>d, RowStep
          DEF Exists, DocumentStatus
<1>4. ASSUME NEW w \in Web, UploadInline(w) PROVE LockInv'
  <2> DEFINE d == jobs[w].doc
  <2>1. Reserved(w) /\ d \in Docs /\ docs[d].status = "unused"
    BY <1>4, <1>b, JobHasDoc DEF UploadInline, Reserved, TypeOK,
       UploadsAreUnseen
  <2>2. docs'[d].status \in {"extracted", "failed"}
    <3>1. \E result \in Results :
            docs'[d] \in {Extracted(result), [docs[d] EXCEPT !.status = "failed"],
                         [Extracted(result) EXCEPT !.status = "failed"]}
      BY <1>4, <2>1 DEF UploadInline, TypeOK
    <3>2. docs[d] \in DocumentRow
      BY <2>1 DEF TypeOK
    <3> QED BY <3>1, <3>2 DEF Extracted, DocumentRow
  <2>3. \A l, m \in catalog'[d] : l.batch = m.batch
    <3>1. catalog[d] = {}
      BY <2>1 DEF NoRowNoListing, Exists, DocumentStatus
    <3>2. \E b \in Fresh : catalog'[d] \in {{}, Rows({}), Rows({b})}
      BY <1>4, <2>1, <3>1 DEF UploadInline, TypeOK, Inserted
    <3> QED BY <3>2 DEF Rows
  <2>4. \A e \in Docs : e # d => docs'[e] = docs[e] /\ catalog'[e] = catalog[e]
    BY <1>4 DEF UploadInline, TypeOK
  <2>5. UploadEnds(w)
    BY <1>4, <2>1 DEF UploadInline
  <2> QED BY <1>a, <2>1, <2>2, <2>3, <2>4, <2>5, <1>d, RowStep
          DEF Exists, DocumentStatus
<1>5. ASSUME NEW w \in Web, RequestRollback(w) PROVE LockInv'
  <2> DEFINE d == jobs[w].doc
  <2>1. CASE Reserved(w)
    <3>1. d \in Docs /\ docs[d].status = "unused"
      BY <2>1, <1>b, JobHasDoc DEF Reserved, TypeOK, UploadsAreUnseen
    <3>2. docs'[d] = Gone
      BY <1>5, <2>1, <3>1 DEF RequestRollback, Reserved
    <3>3. catalog'[d] = {}
      BY <1>5, <3>1 DEF RequestRollback, NoRowNoListing, Exists, DocumentStatus
    <3>4. \A e \in Docs : e # d => docs'[e] = docs[e] /\ catalog'[e] = catalog[e]
      BY <1>5 DEF RequestRollback
    <3>5. UploadEnds(w)
      BY <1>5, <2>1 DEF RequestRollback
    <3> QED BY <1>a, <2>1, <3>1, <3>2, <3>3, <3>4, <3>5, <1>d, RowStep DEF Gone
  <2>2. CASE ~Reserved(w)
    <3>1. docs' = docs
      BY <1>5, <2>2 DEF RequestRollback, Reserved, TypeOK
    <3>2. Harmless
      BY <1>5, <1>b DEF RequestRollback, Goto, Done, Running, TypeOK
    <3> QED BY <1>5, <1>c, <3>1, <3>2 DEF RequestRollback
  <2> QED BY <2>1, <2>2
<1>6. ASSUME NEW t \in Tasks, NEW d \in Docs, RequestProcessing(t, d)
      PROVE  LockInv'
  BY <1>6, <1>b, <1>c DEF RequestProcessing, Goto, Running, TypeOK
<1>e. ASSUME NEW j \in Jobs, \A i \in Jobs : i # j => jobs'[i] = jobs[i],
             UNCHANGED <<docs, catalog>>,
             jobs'[j].step \notin {"stored", "queued"},
             Exists(jobs'[j].doc),
             Writing(j)' => ~Locked(jobs'[j].doc) \/ (Writing(j) /\ jobs'[j].doc = jobs[j].doc),
             SyncReplacesAll', DroppedAreUnquoted'
      PROVE  LockInv'
  <2>1. WritersAreAlone'
    BY <1>e DEF WritersAreAlone, Writing, Locked
  <2>2. WritersHaveRow'
    BY <1>e DEF WritersHaveRow, Writing, Exists
  <2>3. ReadersSawRow'
    BY <1>e DEF ReadersSawRow, Exists, DocumentStatus
  <2>4. UploadsAreUnseen'
    BY <1>b, <1>e DEF UploadsAreUnseen, Reserved
  <2>5. NoRowNoListing' /\ CatalogIsOneExtraction'
    BY <1>e DEF NoRowNoListing, Exists, CatalogIsOneExtraction
  <2> QED BY <1>a, <1>e, <2>1, <2>2, <2>3, <2>4, <2>5
<1>f. ASSUME NEW j \in Jobs, \A i \in Jobs : i # j => jobs'[i] = jobs[i],
             UNCHANGED <<docs, catalog>>, ~At(j, "synced")'
      PROVE  SyncReplacesAll' /\ DroppedAreUnquoted'
  <2>1. SyncReplacesAll'
    BY <1>f
       DEF SyncReplacesAll, AddsNothing, ReplacesAll, ClearsListing, At,
           ItemsToSync, Written, BatchesOf
  <2>2. DroppedAreUnquoted'
    BY <1>f DEF DroppedAreUnquoted, At, Referenced
  <2> QED BY <2>1, <2>2
<1>7. ASSUME NEW j \in Jobs, NEW d \in Docs, Load(j, d) PROVE LockInv'
  <2>1. /\ jobs'[j] = [step |-> "loaded", doc |-> d, saw |-> docs[d].items]
        /\ \A i \in Jobs : i # j => jobs'[i] = jobs[i]
    BY <1>7, GotoOne DEF Load, TypeOK
  <2>2. UNCHANGED <<docs, catalog>> /\ Exists(d)'
    BY <1>7 DEF Load, Exists
  <2> QED BY <1>e, <1>f, <2>1, <2>2 DEF At, Writing, Exists
<1>8. ASSUME NEW w \in Web, NEW d \in Docs, ProcessInline(w, d) PROVE LockInv'
  BY <1>7, <1>8, <1>b DEF ProcessInline
<1>9. ASSUME NEW t \in Tasks, TaskLoad(t) PROVE LockInv'
  <2>1. jobs[t].doc \in Docs
    BY <1>9, <1>b, JobHasDoc DEF TaskLoad, At, TypeOK
  <2> QED BY <1>7, <1>9, <1>b, <2>1 DEF TaskLoad
<1>10. ASSUME NEW j \in Jobs, Lock(j) PROVE LockInv'
  <2>1. /\ jobs'[j].step = "locked" /\ jobs'[j].doc = jobs[j].doc
        /\ \A i \in Jobs : i # j => jobs'[i] = jobs[i]
    BY <1>10, JobFields DEF Lock, At, TypeOK, Processing
  <2>2. /\ UNCHANGED <<docs, catalog>>
        /\ Exists(jobs[j].doc) /\ ~Locked(jobs[j].doc)
    BY <1>10 DEF Lock
  <2> QED BY <1>e, <1>f, <2>1, <2>2 DEF At, Writing, Exists
<1>11. ASSUME NEW j \in Jobs, Sync(j) PROVE LockInv'
  <2> DEFINE d == jobs[j].doc
             items(result) == ItemsToSync(j, result)
  <2>1. Writing(j) /\ Exists(d) /\ jobs[j] \in Processing /\ d \in Docs
    BY <1>11, JobFields DEF Sync, At, Writing, WritersHaveRow, TypeOK, Processing
  <2>2. UNCHANGED <<docs, catalog>>
    BY <1>11 DEF Sync
  <2>3. PICK result \in Results, b \in Fresh :
          /\ ~Referenced(d, Replaced(d, items(result)))
          /\ Goto(j, [step |-> "synced", doc |-> d, saw |-> jobs[j].saw,
                      result |-> result,
                      dropped |-> Replaced(d, items(result)),
                      added |-> Inserted(items(result), b)])
    BY <1>11 DEF Sync
  <2>4. /\ jobs'[j] =
             [step |-> "synced", doc |-> d, saw |-> jobs[j].saw,
              result |-> result, dropped |-> Replaced(d, items(result)),
              added |-> Inserted(items(result), b)]
        /\ \A i \in Jobs : i # j => jobs'[i] = jobs[i]
    BY <2>3, GotoOne DEF TypeOK
  <2>5. SyncReplacesAll'
    <3>1. ItemsToSync(j, jobs[j].result)' = items(result)
      BY <2>2, <2>4 DEF ItemsToSync, Written
    <3>2. b \in Batches
      BY DEF Fresh
    <3>3. ASSUME NEW i \in Jobs, i # j, At(i, "synced")'
          PROVE  AddsNothing(i)' \/ ReplacesAll(i)'
      BY <2>2, <2>4, <3>3
         DEF SyncReplacesAll, AddsNothing, ReplacesAll, ClearsListing, At,
             ItemsToSync, Written, BatchesOf
    <3>4. AddsNothing(j)' \/ ReplacesAll(j)'
      <4>1. jobs'[j].doc = d /\ BatchesOf(jobs[j].doc)' = BatchesOf(d)
        BY <2>2, <2>4 DEF BatchesOf
      <4>2. CASE items(result) = NoProducts
        <5>1. jobs'[j].dropped = {} /\ jobs'[j].added = {}
          BY <2>4, <4>2 DEF Replaced, Inserted
        <5> QED BY <3>1, <4>2, <5>1 DEF AddsNothing
      <4>3. CASE items(result) # NoProducts
        <5>1. jobs'[j].dropped = BatchesOf(d)
          BY <2>4, <4>3 DEF Replaced
        <5>2. \/ /\ jobs'[j].added = {}
                 /\ items(result) \in Nameless
              \/ jobs'[j].added = {b}
          BY <2>4, <4>3 DEF Inserted
        <5> QED BY <3>1, <3>2, <4>1, <5>1, <5>2 DEF ReplacesAll, ClearsListing
      <4> QED BY <4>2, <4>3
    <3> QED BY <2>4, <3>3, <3>4 DEF SyncReplacesAll
  <2>6. DroppedAreUnquoted'
    BY <2>2, <2>3, <2>4 DEF DroppedAreUnquoted, At, Referenced
  <2> QED BY <1>e, <2>1, <2>2, <2>4, <2>5, <2>6 DEF Writing, Exists
<1>12. ASSUME NEW j \in Jobs, Commit(j) PROVE LockInv'
  <2> DEFINE d == jobs[j].doc
             rows == {l \in catalog[d] : l.batch \notin jobs[j].dropped}
                     \cup Rows(jobs[j].added)
  <2>1. At(j, "synced") /\ Writing(j) /\ d \in Docs /\ Exists(d)
    BY <1>12, JobFields DEF Commit, At, Writing, WritersHaveRow, TypeOK, Synced
  <2>2. docs'[d].status = "extracted" /\ catalog'[d] = rows
    BY <1>12, <2>1 DEF Commit, TypeOK
  <2>3. \A e \in Docs : e # d => docs'[e] = docs[e] /\ catalog'[e] = catalog[e]
    BY <1>12 DEF Commit, TypeOK
  <2>4. \A l, m \in rows : l.batch = m.batch
    <3>1. CASE AddsNothing(j)
      <4>1. rows = catalog[d]
        BY <3>1 DEF Rows, AddsNothing
      <4> QED BY <2>1, <4>1 DEF CatalogIsOneExtraction
    <3>2. CASE ReplacesAll(j)
      <4>1. {l \in catalog[d] : l.batch \notin jobs[j].dropped} = {}
        BY <3>2 DEF BatchesOf, ReplacesAll
      <4>2. \A k, n \in jobs[j].added : k = n
        BY <3>2 DEF ReplacesAll, ClearsListing
      <4> QED BY <4>1, <4>2 DEF Rows
    <3> QED BY <2>1, <3>1, <3>2 DEF SyncReplacesAll
  <2>5. /\ jobs'[j] = Done
        /\ \A i \in Jobs : i # j => jobs'[i] = jobs[i]
    BY <1>12, GotoOne DEF Commit, TypeOK
  <2>6. Harmless
    BY <2>5 DEF Done, Running
  <2>7. \A i \in Jobs : Writing(i)' => jobs'[i].doc # d
    BY <2>1, <2>5 DEF WritersAreAlone, Writing, Done
  <2>8. \A w \in Web : Reserved(w)' => jobs'[w].doc # d
    BY <1>b, <2>1, <2>5
       DEF UploadsAreUnseen, Reserved, Done, Exists, DocumentStatus
  <2> HIDE DEF rows
  <2> QED BY <1>a, <2>1, <2>2, <2>3, <2>4, <2>6, <2>7, <2>8, RowStep
          DEF Exists, DocumentStatus
<1>13. ASSUME NEW t \in Tasks, Fail(t) PROVE LockInv'
  BY <1>13, <1>b, <1>c DEF Fail, Goto, Running, TypeOK
<1>14. ASSUME NEW t \in Tasks, Reload(t) PROVE LockInv'
  <2>1. CASE Exists(jobs[t].doc)
    BY <1>14, <1>b, <1>c, <2>1 DEF Reload, Goto, Running, TypeOK
  <2>2. CASE ~Exists(jobs[t].doc)
    BY <1>14, <1>c, <2>2, RetryMoves DEF Reload, Running
  <2> QED BY <2>1, <2>2
<1>15. ASSUME NEW t \in Tasks, Mark(t) PROVE LockInv'
  <2>1. jobs[t].doc \in Docs
    BY <1>15, <1>b, JobHasDoc DEF Mark, At, TypeOK
  <2>2. Harmless
    BY <1>15, RetryMoves DEF Mark, Running
  <2>3. \A d \in Docs :
          /\ Exists(d)' <=> Exists(d)
          /\ docs'[d].status = "unused" <=> docs[d].status = "unused"
          /\ docs'[d].items = docs[d].items
    BY <1>15, <2>1 DEF Mark, Exists, DocumentStatus, TypeOK, DocumentRow
  <2> QED BY <1>15, <1>a, <2>2, <2>3, HarmlessStep DEF Mark, Exists
<1>16. ASSUME NEW t \in Tasks, MarkLost(t) PROVE LockInv'
  BY <1>16, <1>c, RetryMoves DEF MarkLost, Running
<1>17. ASSUME NEW t \in Tasks, WorkerLost(t) PROVE LockInv'
  BY <1>17, <1>b, <1>c DEF WorkerLost, Goto, Running, TypeOK
<1>18. ASSUME NEW w \in Web, NEW d \in Docs, NEW items \in Results,
              EditRead(w, d, items)
       PROVE  LockInv'
  BY <1>18, <1>b, <1>c DEF EditRead, Goto, Running, TypeOK
<1>19. ASSUME NEW w \in Web, EditCommit(w) PROVE LockInv'
  <2>1. jobs[w].doc \in Docs
    BY <1>19, <1>b, JobHasDoc DEF EditCommit, At, TypeOK
  <2>2. Harmless
    BY <1>19, <1>b DEF EditCommit, Goto, Done, Running, TypeOK
  <2>3. \A d \in Docs :
          /\ Exists(d)' <=> Exists(d)
          /\ docs'[d].status = "unused" <=> docs[d].status = "unused"
          /\ docs'[d].items = docs[d].items \/ ~Locked(d)
    <3>1. \A d \in Docs : d # jobs[w].doc => docs'[d] = docs[d]
      BY <1>19, <2>1 DEF EditCommit, TypeOK
    <3>2. docs'[jobs[w].doc].status \in {docs[jobs[w].doc].status, "extracted"}
      BY <1>19, <2>1 DEF EditCommit, TypeOK
    <3>3. Exists(jobs[w].doc) /\ ~Locked(jobs[w].doc)
      BY <1>19 DEF EditCommit
    <3> QED BY <2>1, <3>1, <3>2, <3>3 DEF Exists, DocumentStatus
  <2> QED BY <1>19, <1>a, <2>2, <2>3, HarmlessStep DEF EditCommit, Exists
<1>20. ASSUME NEW d \in Docs, NEW b \in Batches, Quote(d, b) PROVE LockInv'
  <2> DEFINE quote(l) == IF l.batch = b THEN [l EXCEPT !.quoted = TRUE] ELSE l
  <2>1. /\ UNCHANGED <<docs, jobs>>
        /\ catalog'[d] = {quote(l) : l \in catalog[d]}
        /\ \A e \in Docs : e # d => catalog'[e] = catalog[e]
    BY <1>20 DEF Quote, TypeOK
  <2>2. \A l \in catalog[d] : quote(l).batch = l.batch
    BY DEF TypeOK, Listing
  <2>3. \A e \in Docs : BatchesOf(e)' = BatchesOf(e)
    <3>1. BatchesOf(d)' = {l.batch : l \in {quote(m) : m \in catalog[d]}}
      BY <2>1 DEF BatchesOf
    <3>2. BatchesOf(d)' = {quote(m).batch : m \in catalog[d]}
      BY <3>1
    <3>3. BatchesOf(d)' = BatchesOf(d)
      BY <2>2, <3>2 DEF BatchesOf
    <3> QED BY <2>1, <3>3 DEF BatchesOf
  <2>4. WritersAreAlone' /\ WritersHaveRow' /\ ReadersSawRow' /\ UploadsAreUnseen'
    BY <2>1 DEF WritersAreAlone, Writing, WritersHaveRow, Exists, ReadersSawRow,
                UploadsAreUnseen, Reserved
  <2>5. NoRowNoListing'
    BY <2>1 DEF NoRowNoListing, Exists
  <2>6. SyncReplacesAll'
    <3> SUFFICES ASSUME NEW j \in Jobs, At(j, "synced")
                 PROVE  AddsNothing(j)' \/ ReplacesAll(j)'
      BY <2>1 DEF SyncReplacesAll, At
    <3>1. jobs[j].doc \in Docs
      BY JobHasDoc DEF At, TypeOK
    <3>2. ItemsToSync(j, jobs[j].result)' = ItemsToSync(j, jobs[j].result)
      BY <2>1 DEF ItemsToSync, Written
    <3>3. BatchesOf(jobs[j].doc)' = BatchesOf(jobs[j].doc)
      BY <2>1, <2>3, <3>1
    <3> QED BY <2>1, <3>2, <3>3
            DEF SyncReplacesAll, AddsNothing, ReplacesAll, ClearsListing
  <2>7. DroppedAreUnquoted'
    <3> SUFFICES ASSUME NEW j \in Jobs, At(j, "synced"),
                        NEW l \in catalog'[jobs[j].doc],
                        l.batch \in jobs[j].dropped, l.quoted
                 PROVE  FALSE
      BY <2>1 DEF DroppedAreUnquoted, At, Referenced
    <3>1. jobs[j].doc \in Docs
      BY JobHasDoc DEF At, TypeOK
    <3>2. CASE jobs[j].doc # d
      BY <2>1, <3>1, <3>2 DEF DroppedAreUnquoted, Referenced
    <3>3. CASE jobs[j].doc = d
      <4>1. PICK m \in catalog[d] : l = quote(m)
        BY <2>1, <3>3
      <4>2. l.batch = m.batch
        BY <2>2, <4>1
      <4>3. m.batch # b
        BY <1>20, <4>2 DEF Quote, Quotable
      <4> QED BY <3>3, <4>1, <4>3 DEF DroppedAreUnquoted, Referenced
    <3> QED BY <3>2, <3>3
  <2>8. CatalogIsOneExtraction'
    <3> SUFFICES ASSUME NEW e \in Docs, NEW l \in catalog'[e], NEW m \in catalog'[e]
                 PROVE  l.batch = m.batch
      BY DEF CatalogIsOneExtraction
    <3>1. l.batch \in BatchesOf(e)' /\ m.batch \in BatchesOf(e)'
      BY DEF BatchesOf
    <3>2. l.batch \in BatchesOf(e) /\ m.batch \in BatchesOf(e)
      BY <2>3, <3>1
    <3> QED BY <3>2 DEF BatchesOf, CatalogIsOneExtraction
  <2> QED BY <1>a, <2>4, <2>5, <2>6, <2>7, <2>8
<1>21. ASSUME NEW w \in Web, NEW d \in Docs, DeleteFile(w, d) PROVE LockInv'
  BY <1>21, <1>b, <1>c DEF DeleteFile, Goto, Running, TypeOK
<1>22. ASSUME NEW w \in Web, DeleteCheck(w) PROVE LockInv'
  <2>1. jobs'[w].step = "unlisted"
    BY <1>22, <1>b, JobFields DEF DeleteCheck, At, TypeOK, DeleteJob
  <2> QED BY <1>22, <1>b, <1>c, <2>1 DEF DeleteCheck, Running, TypeOK
<1>23. ASSUME NEW w \in Web, DeleteRow(w) PROVE LockInv'
  <2> DEFINE d == jobs[w].doc
  <2>1. d \in Docs /\ Exists(d) /\ ~Locked(d)
    BY <1>23, <1>b, JobHasDoc DEF DeleteRow, At, TypeOK
  <2>2. docs'[d] = Gone /\ catalog'[d] = {}
    BY <1>23, <2>1 DEF DeleteRow, TypeOK
  <2>3. \A e \in Docs : e # d => docs'[e] = docs[e] /\ catalog'[e] = catalog[e]
    BY <1>23 DEF DeleteRow, TypeOK
  <2>4. /\ jobs'[w] = Done
        /\ \A i \in Jobs : i # w => jobs'[i] = jobs[i]
    BY <1>23, <1>b, GotoOne DEF DeleteRow, TypeOK
  <2>5. Harmless
    BY <2>4 DEF Done, Running
  <2>6. \A i \in Jobs : Writing(i)' => jobs'[i].doc # d
    BY <2>1, <2>4 DEF Locked, Writing, Done
  <2>7. \A v \in Web : Reserved(v)' => jobs'[v].doc # d
    BY <1>b, <2>1, <2>4
       DEF UploadsAreUnseen, Reserved, Done, Exists, DocumentStatus
  <2> QED BY <1>a, <2>1, <2>2, <2>3, <2>5, <2>6, <2>7, RowStep DEF Gone
<1>24. CASE UNCHANGED vars
  BY <1>24, <1>c DEF vars
<1>25. ASSUME NEW w \in Web, WebStart(w) PROVE LockInv'
  BY <1>25, <1>1, <1>8, <1>18, <1>21 DEF WebStart
<1>26. ASSUME NEW w \in Web, WebStep(w) PROVE LockInv'
  BY <1>26, <1>b, <1>2, <1>3, <1>4, <1>5, <1>10, <1>11, <1>12, <1>19, <1>22,
     <1>23 DEF WebStep
<1>27. ASSUME NEW t \in Tasks, TaskStep(t) PROVE LockInv'
  BY <1>27, <1>b, <1>9, <1>10, <1>11, <1>12, <1>13, <1>14, <1>15 DEF TaskStep
<1> QED BY <1>6, <1>16, <1>17, <1>20, <1>24, <1>25, <1>26, <1>27 DEF Next

LEMMA LockInit == Init => LockInv
<1> SUFFICES ASSUME Init PROVE LockInv
  OBVIOUS
<1>1. TypeOK
  BY TypeInit
<1>2. \A j \in Jobs : jobs[j].step = "idle"
  BY DEF Init, Done
<1>3. \A d \in Docs : catalog[d] = {}
  BY DEF Init
<1>4. \A w \in Web : jobs[w].step = "idle"
  BY <1>2 DEF Jobs
<1> QED BY <1>1, <1>2, <1>3, <1>4
        DEF LockInv, WritersAreAlone, WritersHaveRow, ReadersSawRow,
            UploadsAreUnseen, NoRowNoListing, SyncReplacesAll,
            DroppedAreUnquoted, CatalogIsOneExtraction, Writing, Reserved, At,
            Running

\* Whatever requests, deliveries, retries and lost workers overlap, the
\* products listed for a document come from one run of the sync.
THEOREM OneExtraction == Spec => []CatalogIsOneExtraction
<1>1. LockInv => CatalogIsOneExtraction
  BY DEF LockInv
<1> QED BY <1>1, LockInit, LockStep, PTL DEF Spec

\* Rows of the catalogue a quotation refers to are not deleted.
THEOREM QuotesKeepTheirRows == Spec => QuotedRowsStay
<1> DEFINE Stay == \A d \in Docs : \A l \in catalog[d] : l.quoted => l \in catalog'[d]
<1>1. LockInv /\ [Next]_vars => [Stay]_vars
  <2> SUFFICES ASSUME LockInv, [Next]_vars PROVE Stay
    BY DEF vars
  <2> USE DEF LockInv
  <2>a. Web \subseteq Jobs
    BY DEF Jobs
  <2>1. ASSUME UNCHANGED catalog PROVE Stay
    BY <2>1
  <2>2. ASSUME NEW w \in Web, UploadInline(w) PROVE Stay
    <3>1. jobs[w].doc \in Docs /\ catalog[jobs[w].doc] = {}
      BY <2>2, <2>a, JobHasDoc
         DEF UploadInline, TypeOK, UploadsAreUnseen, Reserved, NoRowNoListing,
             Exists, DocumentStatus
    <3> QED BY <2>2, <3>1 DEF UploadInline, TypeOK
  <2>3. ASSUME NEW j \in Jobs, Commit(j) PROVE Stay
    <3>1. ~Referenced(jobs[j].doc, jobs[j].dropped)
      BY <2>3 DEF Commit, DroppedAreUnquoted
    <3> QED BY <2>3, <3>1 DEF Commit, Referenced, TypeOK
  <2>4. ASSUME NEW d \in Docs, NEW b \in Batches, Quote(d, b) PROVE Stay
    <3> SUFFICES ASSUME NEW l \in catalog[d], l.quoted PROVE l \in catalog'[d]
      BY <2>4 DEF Quote, TypeOK
    <3>1. [l EXCEPT !.quoted = TRUE] = l
      BY DEF TypeOK, Listing
    <3> QED BY <2>4, <3>1 DEF Quote, TypeOK
  <2>5. ASSUME NEW w \in Web, DeleteRow(w) PROVE Stay
    <3>1. ~Referenced(jobs[w].doc, BatchesOf(jobs[w].doc))
      BY <2>5 DEF DeleteRow
    <3> QED BY <2>5, <3>1 DEF DeleteRow, Referenced, BatchesOf, TypeOK
  <2>6. ASSUME NEW w \in Web, WebStart(w) PROVE Stay
    BY <2>6, <2>1 DEF WebStart, UploadStore, ProcessInline, Load, DeleteFile, EditRead
  <2>7. ASSUME NEW w \in Web, WebStep(w) PROVE Stay
    <3>1. CASE UploadInline(w) \/ Commit(w) \/ DeleteRow(w)
      BY <2>2, <2>3, <2>5, <2>a, <3>1
    <3>2. CASE ~(UploadInline(w) \/ Commit(w) \/ DeleteRow(w))
      BY <2>7, <2>1, <3>2
         DEF WebStep, UploadQueue, UploadCommit, RequestRollback, Lock, Sync,
             EditCommit, DeleteCheck
    <3> QED BY <3>1, <3>2
  <2>8. ASSUME NEW t \in Tasks,
               TaskStep(t) \/ MarkLost(t) \/ WorkerLost(t)
        PROVE  Stay
    <3>1. CASE Commit(t)
      BY <2>3, <3>1 DEF Jobs
    <3>2. CASE ~Commit(t)
      BY <2>8, <2>1, <3>2
         DEF TaskStep, TaskLoad, Load, Lock, Sync, Fail, Reload, Mark, MarkLost,
             WorkerLost
    <3> QED BY <3>1, <3>2
  <2>9. ASSUME NEW t \in Tasks, NEW d \in Docs, RequestProcessing(t, d) PROVE Stay
    BY <2>9, <2>1 DEF RequestProcessing
  <2>10. CASE UNCHANGED vars
    BY <2>1, <2>10 DEF vars
  <2> QED BY <2>4, <2>6, <2>7, <2>8, <2>9, <2>10 DEF Next
<1> QED BY <1>1, LockInit, LockStep, PTL DEF Spec, QuotedRowsStay

----------------------------------------------------------------------------
(* Extracted documents are in the catalogue *)

\* Products were read, but the sync of the upload's transaction failed.
Unlisted(d) ==
  /\ Exists(d) /\ docs[d].by = "ocr"
  /\ docs[d].items \notin Nameless \cup {NoProducts}
  /\ catalog[d] = {} /\ d \notin cleared

\* Such a document is still marked as failed, and whoever processes it has
\* loaded these items: they were not written since the upload.
UnlistedIsFailed ==
  \A d \in Docs : Unlisted(d) =>
    /\ docs[d].status = "failed"
    /\ \A j \in Jobs :
         jobs[j].step \in Running /\ jobs[j].doc = d => jobs[j].saw = docs[d].items

\* A step leaves what a session has loaded alone, or loads the row.
SawOrSees(j) ==
  jobs'[j].step \in Running =>
    \/ /\ jobs[j].step \in Running
       /\ jobs'[j].doc = jobs[j].doc /\ jobs'[j].saw = jobs[j].saw
    \/ jobs'[j].saw = docs[jobs'[j].doc].items

LEMMA LoadedItems ==
  ASSUME TypeOK, [Next]_vars
  PROVE  \A j \in Jobs : SawOrSees(j)
<1>a. Web \subseteq Jobs /\ Tasks \subseteq Jobs
  BY DEF Jobs
<1> DEFINE Kept == \A j \in Jobs : jobs'[j] = jobs[j] \/ jobs'[j].step \notin Running
           Calm == \A j \in Jobs : SawOrSees(j)
<1>1. ASSUME Kept PROVE Calm
  BY <1>1 DEF SawOrSees
<1>2. ASSUME NEW j \in Jobs, NEW d \in Docs, Load(j, d) PROVE Calm
  <2>1. /\ jobs'[j] = [step |-> "loaded", doc |-> d, saw |-> docs[d].items]
        /\ \A i \in Jobs : i # j => jobs'[i] = jobs[i]
    BY <1>2, GotoOne DEF Load, TypeOK
  <2> QED BY <2>1 DEF SawOrSees
<1>3. ASSUME NEW j \in Jobs, Lock(j) PROVE Calm
  <2>1. jobs[j] \in Processing
    BY <1>3, JobFields DEF Lock, At, TypeOK
  <2>2. /\ jobs[j].step \in Running
        /\ jobs'[j].doc = jobs[j].doc /\ jobs'[j].saw = jobs[j].saw
        /\ \A i \in Jobs : i # j => jobs'[i] = jobs[i]
    BY <1>3, <2>1 DEF Lock, At, Running, TypeOK, Processing
  <2> QED BY <2>2 DEF SawOrSees
<1>4. ASSUME NEW j \in Jobs, Sync(j) PROVE Calm
  <2>1. /\ jobs[j].step \in Running
        /\ jobs'[j].doc = jobs[j].doc /\ jobs'[j].saw = jobs[j].saw
        /\ \A i \in Jobs : i # j => jobs'[i] = jobs[i]
    BY <1>4, GotoOne DEF Sync, At, Running, TypeOK
  <2> QED BY <2>1 DEF SawOrSees
<1>5. ASSUME NEW j \in Jobs, Goto(j, Done) PROVE Kept
  BY <1>5, GotoOne DEF TypeOK, Done, Running
<1>6. ASSUME NEW w \in Web, WebStart(w) PROVE Calm
  <2>1. ASSUME NEW d \in Docs, UploadStore(w, d) PROVE Kept
    BY <1>a, <2>1 DEF UploadStore, Goto, TypeOK, Running
  <2>2. ASSUME NEW d \in Docs, DeleteFile(w, d) PROVE Kept
    BY <1>a, <2>2 DEF DeleteFile, Goto, TypeOK, Running
  <2>3. ASSUME NEW d \in Docs, NEW items \in Results, EditRead(w, d, items)
        PROVE  Kept
    BY <1>a, <2>3 DEF EditRead, Goto, TypeOK, Running
  <2> QED BY <1>a, <1>1, <1>2, <1>6, <2>1, <2>2, <2>3 DEF WebStart, ProcessInline
<1>7. ASSUME NEW w \in Web, WebStep(w) PROVE Calm
  <2>1. ASSUME NEW t \in Tasks, UploadQueue(w, t) PROVE Kept
    <3>1. jobs[w] \in UploadJob
      BY <1>a, <2>1, JobFields DEF UploadQueue, At, TypeOK
    <3> QED BY <1>a, <2>1, <3>1 DEF UploadQueue, TypeOK, Running, UploadJob
  <2>2. ASSUME DeleteCheck(w) PROVE Kept
    <3>1. jobs[w] \in DeleteJob
      BY <1>a, <2>2, JobFields DEF DeleteCheck, At, TypeOK
    <3> QED BY <1>a, <2>2, <3>1 DEF DeleteCheck, TypeOK, Running, DeleteJob
  <2>3. CASE Goto(w, Done)
    BY <1>a, <1>1, <1>5, <2>3
  <2> QED BY <1>a, <1>1, <1>3, <1>4, <1>7, <2>1, <2>2, <2>3
          DEF WebStep, UploadCommit, UploadInline, RequestRollback, Commit,
              EditCommit, DeleteRow
<1>8. ASSUME NEW t \in Tasks, TaskStep(t) PROVE Calm
  <2>1. ASSUME TaskLoad(t) PROVE Calm
    <3>1. jobs[t].doc \in Docs
      BY <1>a, <2>1, JobHasDoc DEF TaskLoad, At, TypeOK
    <3> QED BY <1>a, <1>2, <2>1, <3>1 DEF TaskLoad
  <2>2. ASSUME Fail(t) PROVE Kept
    BY <1>a, <2>2 DEF Fail, Goto, TypeOK, Running
  <2>3. ASSUME Reload(t) PROVE Kept
    <3>1. CASE Exists(jobs[t].doc)
      BY <1>a, <2>3, <3>1 DEF Reload, Goto, TypeOK, Running
    <3>2. CASE ~Exists(jobs[t].doc)
      BY <2>3, <3>2, RetryMoves DEF Reload, Running
    <3> QED BY <3>1, <3>2
  <2>4. ASSUME Mark(t) PROVE Kept
    BY <2>4, RetryMoves DEF Mark, Running
  <2>5. ASSUME Commit(t) PROVE Kept
    BY <1>a, <1>5, <2>5 DEF Commit
  <2> QED BY <1>a, <1>1, <1>3, <1>4, <1>8, <2>1, <2>2, <2>3, <2>4, <2>5
          DEF TaskStep
<1>9. ASSUME NEW t \in Tasks, MarkLost(t) \/ WorkerLost(t) PROVE Kept
  <2>1. CASE MarkLost(t)
    BY <2>1, RetryMoves DEF MarkLost, Running
  <2>2. CASE WorkerLost(t)
    BY <1>a, <2>2 DEF WorkerLost, Goto, TypeOK, Running
  <2> QED BY <1>9, <2>1, <2>2
<1>10. ASSUME NEW t \in Tasks, NEW d \in Docs, RequestProcessing(t, d) PROVE Kept
  BY <1>a, <1>10 DEF RequestProcessing, Goto, TypeOK, Running
<1>11. ASSUME UNCHANGED jobs PROVE Kept
  BY <1>11
<1>12. ASSUME NEW d \in Docs, NEW b \in Batches, Quote(d, b) PROVE Kept
  BY <1>11, <1>12 DEF Quote
<1> HIDE DEF Kept, Calm
<1>13. Calm
  BY <1>1, <1>6, <1>7, <1>8, <1>9, <1>10, <1>11, <1>12 DEF Next, vars
<1> QED BY <1>13 DEF Calm

UnusedIsBlank == \A d \in Docs : docs[d].status = "unused" => docs[d].by = "nobody"

ListingInv == LockInv /\ UnusedIsBlank /\ UnlistedIsFailed

LEMMA ListingStep == ListingInv /\ [Next]_vars => ListingInv'
<1> SUFFICES ASSUME ListingInv, [Next]_vars PROVE ListingInv'
  OBVIOUS
<1> USE DEF ListingInv
<1>a. Web \subseteq Jobs /\ Tasks \subseteq Jobs
  BY DEF Jobs
<1>b. TypeOK /\ LockInv'
  BY LockStep DEF LockInv
<1> DEFINE Calm == \A d \in Docs :
             /\ docs'[d].status = "unused" => docs'[d] = docs[d]
             /\ Unlisted(d)' =>
                  /\ Unlisted(d)
                  /\ docs'[d].items = docs[d].items
                  /\ docs'[d].status \in {docs[d].status, "failed"}
           Only(d) == \A e \in Docs :
             e # d => /\ docs'[e] = docs[e] /\ catalog'[e] = catalog[e]
                      /\ e \in cleared' <=> e \in cleared
<1>1. ASSUME Calm PROVE ListingInv'
  <2>1. UnusedIsBlank'
    BY <1>1 DEF UnusedIsBlank
  <2>2. UnlistedIsFailed'
    <3> SUFFICES ASSUME NEW d \in Docs, Unlisted(d)'
                 PROVE  /\ docs'[d].status = "failed"
                        /\ \A j \in Jobs :
                             jobs'[j].step \in Running /\ jobs'[j].doc = d
                               => jobs'[j].saw = docs'[d].items
      BY DEF UnlistedIsFailed
    <3>1. /\ Unlisted(d) /\ docs'[d].items = docs[d].items
          /\ docs'[d].status \in {docs[d].status, "failed"}
      BY <1>1
    <3>2. docs[d].status = "failed"
      BY <3>1 DEF UnlistedIsFailed
    <3>3. ASSUME NEW j \in Jobs, jobs'[j].step \in Running, jobs'[j].doc = d
          PROVE  jobs'[j].saw = docs'[d].items
      <4>1. SawOrSees(j)
        BY <1>b, LoadedItems
      <4> QED BY <3>1, <3>3, <4>1 DEF SawOrSees, UnlistedIsFailed
    <3> QED BY <3>1, <3>2, <3>3
  <2> QED BY <1>b, <2>1, <2>2
<1>2. ASSUME UNCHANGED <<docs, catalog, cleared>> PROVE Calm
  BY <1>2 DEF Unlisted, Exists
<1>3. ASSUME NEW d \in Docs, Only(d), docs'[d].status # "unused",
             Unlisted(d)' => /\ Unlisted(d)
                             /\ docs'[d].items = docs[d].items
                             /\ docs'[d].status \in {docs[d].status, "failed"}
      PROVE  Calm
  BY <1>3 DEF Unlisted, Exists
<1>4. ASSUME NEW w \in Web, UploadCommit(w) PROVE Calm
  <2> DEFINE d == jobs[w].doc
  <2>1. d \in Docs /\ docs[d].status = "unused" /\ Only(d)
    BY <1>4, <1>a, <1>b, JobHasDoc
       DEF UploadCommit, At, TypeOK, LockInv, UploadsAreUnseen, Reserved
  <2>2. docs'[d].status = "uploaded" /\ docs'[d].by = "nobody"
    <3>1. docs'[d] = [docs[d] EXCEPT !.status = "uploaded"]
      BY <1>4, <1>b, <2>1 DEF UploadCommit, TypeOK
    <3>2. docs[d] \in DocumentRow /\ docs[d].by = "nobody"
      BY <1>b, <2>1 DEF TypeOK, UnusedIsBlank
    <3> QED BY <3>1, <3>2 DEF DocumentRow
  <2> QED BY <1>3, <2>1, <2>2 DEF Unlisted
<1>5. ASSUME NEW w \in Web, UploadInline(w) PROVE ListingInv'
  <2>0. PICK d \in Docs : d = jobs[w].doc
    BY <1>5, <1>a, <1>b, JobHasDoc DEF UploadInline, TypeOK
  <2>1. docs[d].status = "unused" /\ Only(d)
    BY <1>5, <1>a, <1>b, <2>0
       DEF UploadInline, TypeOK, LockInv, UploadsAreUnseen, Reserved
  <2>2. docs[d] \in DocumentRow
    BY <1>b, <2>1 DEF TypeOK
  <2>3. \/ docs'[d].status = "failed"
        \/ \E result \in Results, b \in Fresh :
             /\ docs'[d] = Extracted(result)
             /\ catalog'[d] = Rows(Inserted(result, b))
    <3>1. \E result \in Results, b \in Fresh :
            \/ docs'[d] \in {[docs[d] EXCEPT !.status = "failed"],
                            [Extracted(result) EXCEPT !.status = "failed"]}
            \/ /\ docs'[d] = Extracted(result)
               /\ catalog'[d] = Rows(Inserted(result, b))
      BY <1>5, <1>b, <2>0 DEF UploadInline, TypeOK
    <3>2. /\ [docs[d] EXCEPT !.status = "failed"].status = "failed"
          /\ \A result : [Extracted(result) EXCEPT !.status = "failed"].status
                           = "failed"
      BY <2>2 DEF DocumentRow, Extracted
    <3> QED BY <3>1, <3>2
  <2>4. Unlisted(d)' => docs'[d].status = "failed"
    <3> SUFFICES ASSUME NEW result \in Results, NEW b \in Fresh,
                        docs'[d] = Extracted(result),
                        catalog'[d] = Rows(Inserted(result, b))
                 PROVE  ~Unlisted(d)'
      BY <2>3
    <3>1. Rows({b}) # {}
      BY DEF Rows
    <3> QED BY <3>1 DEF Unlisted, Extracted, Inserted
  <2>5. docs'[d].status # "unused"
    <3>1. \A result : Extracted(result).status = "extracted"
      BY DEF Extracted
    <3>2. docs'[d].status = "failed" \/ \E result : docs'[d] = Extracted(result)
      BY <2>3
    <3> QED BY <3>1, <3>2
  <2>6. \A j \in Jobs : jobs'[j].step \in Running => jobs'[j] = jobs[j]
    BY <1>5, <1>a, <1>b, GotoOne DEF UploadInline, TypeOK, Done, Running
  <2>7. \A j \in Jobs : jobs'[j].step \in Running => jobs'[j].doc # d
    BY <2>1, <2>6 DEF LockInv, ReadersSawRow
  <2>8. UnlistedIsFailed'
    <3> SUFFICES ASSUME NEW e \in Docs, Unlisted(e)'
                 PROVE  /\ docs'[e].status = "failed"
                        /\ \A j \in Jobs :
                             jobs'[j].step \in Running /\ jobs'[j].doc = e
                               => jobs'[j].saw = docs'[e].items
      BY DEF UnlistedIsFailed
    <3>1. CASE e = d
      BY <2>4, <2>7, <3>1
    <3>2. CASE e # d
      <4>1. docs'[e] = docs[e] /\ catalog'[e] = catalog[e]
        BY <2>1, <3>2
      <4>a. e \in cleared' <=> e \in cleared
        BY <2>1, <3>2
      <4>2. Unlisted(e)
        BY <4>1, <4>a DEF Unlisted, Exists
      <4> QED BY <2>6, <4>1, <4>2 DEF UnlistedIsFailed
    <3> QED BY <3>1, <3>2
  <2>9. UnusedIsBlank'
    BY <2>1, <2>5 DEF UnusedIsBlank
  <2> QED BY <1>b, <2>8, <2>9
<1>6. ASSUME NEW w \in Web, RequestRollback(w) PROVE Calm
  <2> SUFFICES ASSUME NEW d \in Docs
               PROVE  docs'[d] = docs[d] \/ docs'[d] = Gone
    BY <1>6 DEF RequestRollback, Gone, Unlisted, Exists, DocumentStatus
  <2> QED BY <1>6 DEF RequestRollback
<1>7. ASSUME NEW j \in Jobs, Commit(j) PROVE Calm
  <2> DEFINE job == jobs[j]
  <2>0. PICK d \in Docs : d = job.doc
    BY <1>7, <1>b, JobHasDoc DEF Commit, At, TypeOK
  <2> DEFINE rows == {l \in catalog[d] : l.batch \notin job.dropped}
                     \cup Rows(job.added)
  <2>1. Only(d)
    BY <1>7, <1>b, <2>0 DEF Commit, TypeOK
  <2>2. /\ docs'[d] = [status |-> "extracted",
                       items |-> Written(d, job.saw, job.result),
                       by |-> IF job.result # job.saw THEN "ocr" ELSE docs[d].by]
        /\ catalog'[d] = rows
    BY <1>7, <1>b, <2>0 DEF Commit, TypeOK
  <2>3. ~Unlisted(d)'
    <3> SUFFICES ASSUME Unlisted(d)' PROVE FALSE
      OBVIOUS
    <3>1. job.added = {}
      <4>1. ASSUME NEW b \in Batches, job.added = {b} PROVE FALSE
        <5>1. Rows({b}) # {}
          BY DEF Rows
        <5> QED BY <2>2, <4>1, <5>1 DEF Unlisted
      <4> QED BY <1>7, <4>1
              DEF Commit, LockInv, SyncReplacesAll, AddsNothing, ReplacesAll,
                  ClearsListing
    <3>a. ItemsToSync(j, job.result) \notin Nameless
      BY <1>7, <2>0, <3>1 DEF Commit, Unlisted
    <3>b. job.dropped = {} /\ ItemsToSync(j, job.result) = NoProducts
      <4>1. AddsNothing(j)
        BY <1>7, <3>1, <3>a
           DEF Commit, LockInv, SyncReplacesAll, ReplacesAll, ClearsListing
      <4> QED BY <4>1 DEF AddsNothing
    <3>c. d \notin cleared
      BY <1>7, <2>0, <3>1, <3>a DEF Commit, Unlisted
    <3>2. catalog[d] = {}
      BY <2>2, <3>1, <3>b DEF Unlisted
    <3>3. CASE job.result # job.saw
      <4>1. job.result # NoProducts
        BY <2>2, <3>3 DEF Unlisted, Written
      <4> QED BY <2>0, <3>b, <3>3, <4>1 DEF ItemsToSync, Written
    <3>4. CASE job.result = job.saw
      <4>1. /\ docs[d].by = "ocr"
            /\ docs[d].items \notin Nameless \cup {NoProducts}
        BY <2>2, <3>4 DEF Unlisted, Written
      <4>2. Exists(d)
        BY <1>7, <2>0 DEF Commit, At, LockInv, WritersHaveRow, Writing
      <4>3. job.saw = docs[d].items
        BY <1>7, <2>0, <3>2, <3>c, <4>1, <4>2
           DEF Commit, At, Unlisted, UnlistedIsFailed, Running
      <4> QED BY <2>0, <3>b, <3>4, <4>1, <4>3 DEF ItemsToSync, Written
    <3> QED BY <3>3, <3>4
  <2> QED BY <1>3, <2>1, <2>2, <2>3
<1>8. ASSUME NEW t \in Tasks, Mark(t) PROVE Calm
  <2> DEFINE d == jobs[t].doc
  <2>1. d \in Docs /\ Only(d) /\ docs[d] \in DocumentRow
    BY <1>8, <1>a, <1>b, JobHasDoc DEF Mark, At, TypeOK
  <2>2. \/ docs'[d] = docs[d]
        \/ docs'[d] = [docs[d] EXCEPT !.status = "failed"] /\ Exists(d)
    BY <1>8, <1>b, <2>1 DEF Mark, TypeOK, DocumentRow
  <2>3. UNCHANGED <<catalog, cleared>>
    BY <1>8 DEF Mark
  <2>4. CASE docs'[d] = docs[d]
    BY <2>1, <2>3, <2>4 DEF Unlisted, Exists
  <2>5. CASE docs'[d] = [docs[d] EXCEPT !.status = "failed"] /\ Exists(d)
    <3>1. /\ docs'[d].status = "failed"
          /\ docs'[d].items = docs[d].items /\ docs'[d].by = docs[d].by
      BY <2>1, <2>5 DEF DocumentRow
    <3> QED BY <1>3, <2>1, <2>3, <2>5, <3>1 DEF Unlisted
  <2> QED BY <2>2, <2>4, <2>5
<1>9. ASSUME NEW w \in Web, EditCommit(w) PROVE Calm
  <2> DEFINE d == jobs[w].doc
  <2>1. d \in Docs /\ Only(d) /\ Exists(d)
    BY <1>9, <1>a, <1>b, JobHasDoc DEF EditCommit, At, TypeOK
  <2>2. /\ docs'[d].by = "user"
        /\ docs'[d].status \in {docs[d].status, "extracted"}
    BY <1>9, <1>b, <2>1 DEF EditCommit, TypeOK
  <2> QED BY <1>3, <2>1, <2>2 DEF Unlisted, Exists, DocumentStatus
<1>10. ASSUME NEW d \in Docs, NEW b \in Batches, Quote(d, b) PROVE Calm
  <2>1. /\ docs' = docs /\ cleared' = cleared
        /\ \A e \in Docs : catalog'[e] = {} => catalog[e] = {}
    <3>1. docs' = docs /\ cleared' = cleared
          /\ catalog' = [catalog EXCEPT ![d] =
               {IF l.batch = b THEN [l EXCEPT !.quoted = TRUE] ELSE l : l \in @}]
      BY <1>10 DEF Quote
    <3>2. ASSUME NEW l \in catalog[d] PROVE catalog'[d] # {}
      <4> DEFINE Marked(m) == IF m.batch = b THEN [m EXCEPT !.quoted = TRUE] ELSE m
      <4>1. catalog'[d] = {Marked(m) : m \in catalog[d]}
        BY <1>b, <3>1 DEF TypeOK
      <4>2. Marked(l) \in catalog'[d]
        BY <3>2, <4>1
      <4> QED BY <4>2
    <3>3. \A e \in Docs : e # d => catalog'[e] = catalog[e]
      BY <1>b, <3>1 DEF TypeOK
    <3> QED BY <3>1, <3>2, <3>3
  <2> QED BY <2>1 DEF Unlisted, Exists
<1>11. ASSUME NEW w \in Web, DeleteRow(w) PROVE Calm
  <2>1. jobs[w].doc \in Docs /\ Only(jobs[w].doc) /\ docs'[jobs[w].doc] = Gone
    BY <1>11, <1>a, <1>b, JobHasDoc DEF DeleteRow, At, TypeOK
  <2> QED BY <1>3, <2>1 DEF Gone, Unlisted
<1> HIDE DEF Calm
<1>12. ASSUME NEW w \in Web, WebStart(w) PROVE Calm
  BY <1>2, <1>12 DEF WebStart, UploadStore, ProcessInline, Load, DeleteFile, EditRead
<1>13. ASSUME NEW w \in Web, WebStep(w) PROVE Calm \/ ListingInv'
  BY <1>a, <1>2, <1>4, <1>5, <1>6, <1>7, <1>9, <1>11, <1>13
     DEF WebStep, UploadQueue, Lock, Sync, DeleteCheck
<1>14. ASSUME NEW t \in Tasks, TaskStep(t) \/ MarkLost(t) \/ WorkerLost(t)
       PROVE  Calm
  BY <1>a, <1>2, <1>7, <1>8, <1>14
     DEF TaskStep, TaskLoad, Load, Lock, Sync, Fail, Reload, MarkLost, WorkerLost
<1>15. ASSUME NEW t \in Tasks, NEW d \in Docs, RequestProcessing(t, d) PROVE Calm
  BY <1>2, <1>15 DEF RequestProcessing
<1>16. CASE UNCHANGED vars
  BY <1>1, <1>2, <1>16 DEF vars
<1> QED BY <1>1, <1>10, <1>12, <1>13, <1>14, <1>15, <1>16 DEF Next

\* An extracted document whose named products came from OCR is in the
\* catalogue, whatever overlaps, until a sync of nameless products replaces
\* its listing: the sync's early return for an extraction without products is
\* what keeps a late empty result from hiding it.
THEOREM ExtractedDocumentsAreListed == Spec => []ExtractedIsListed
<1>1. Init => ListingInv
  <2> SUFFICES ASSUME Init PROVE ListingInv
    OBVIOUS
  <2>1. \A d \in Docs : docs[d] = Unused
    BY DEF Init
  <2> QED BY <2>1, LockInit
          DEF ListingInv, UnusedIsBlank, UnlistedIsFailed, Unlisted, Exists,
              Unused, DocumentStatus
<1>2. ListingInv => ExtractedIsListed
  BY DEF ListingInv, ExtractedIsListed, UnlistedIsFailed, Unlisted, Exists,
         DocumentStatus
<1> QED BY <1>1, <1>2, ListingStep, PTL DEF Spec

=============================================================================
