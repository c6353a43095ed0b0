\* A task message and a request for one document.
SPECIFICATION FairSpec
CONSTANTS
  Docs = {d1}
  Results = {none, some, other, unnamed}
  NoProducts = none
  Nameless = {unnamed}
  NoItems = null
  Batches = {b1, b2}
  Web = {w1}
  Tasks = {t1}
  MaxRetries = 2
  MaxFaults = 1
INVARIANT TypeOK
INVARIANT CatalogIsOneExtraction
INVARIANT ExtractedIsListed
PROPERTY QuotedRowsStay
PROPERTY UploadedIsProcessed
