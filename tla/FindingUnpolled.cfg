\* A document's page, with workers and requests that do not fail.
SPECIFICATION DocFairSpec
CONSTANTS
  DocMaxJobs = 2
  DocMaxFaults = 0
PROPERTY OutcomeShown
CHECK_DEADLOCK FALSE
