\* The sweep, failing and retried, against overlapping matching runs that find
\* another supplier than the run before, and move the deadline.
SPECIFICATION FairSpec
CONSTANTS
  s1 = s1
  s2 = s2
  RFQs = {r1}
  Suppliers = {s1, s2}
  Workers = {w1, w2}
  Catalogue <- TurnoverCatalogue
  MaxMatches = 2
  Window = 2
  Horizon = 3
  AgentDependencyYieldsUser = FALSE
  ManualOpen = FALSE
PROPERTY WindowEventuallyCloses
PROPERTY PendingEventuallyResolved
