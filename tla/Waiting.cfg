\* A page that polls a document, and calculations over the caches.
SPECIFICATION Spec
CONSTANTS
  DocMaxJobs = 2
  DocMaxFaults = 2
  CWorkers = {w1, w2}
  CTtl = 1
  CHorizon = 1
  CMaxRules = 2
  CMaxCrashes = 1
PROPERTIES ItemsFollow ChangedRulesReach CalculationsEnd
CHECK_DEADLOCK FALSE
