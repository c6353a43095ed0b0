\* The claim endpoint as its dependency is declared today.
SPECIFICATION Spec
CONSTANTS
  s1 = s1
  s2 = s2
  RFQs = {r1}
  Suppliers = {s1, s2}
  Workers = {w1}
  Catalogue <- LeavingCatalogue
  MaxMatches = 2
  Window = 2
  Horizon = 4
  AgentDependencyYieldsUser = FALSE
  ManualOpen = FALSE
INVARIANT ClaimNeverCrashes
