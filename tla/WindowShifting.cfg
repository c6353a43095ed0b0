\* Every operation, overlapping requests, a catalogue that changes between runs.
SPECIFICATION Spec
CONSTANTS
  s1 = s1
  s2 = s2
  RFQs = {r1}
  Suppliers = {s1, s2}
  Workers = {w1, w2}
  Catalogue <- ShiftingCatalogue
  MaxMatches = 1
  Window = 2
  Horizon = 4
  AgentDependencyYieldsUser = TRUE
  ManualOpen = TRUE
SYMMETRY Symmetry
INVARIANT TypeOK
INVARIANT PendingHasDeadlines
INVARIANT MatchedIdsHaveRows
PROPERTY NoSecondWindow
PROPERTY AnswerSurvivesSweep
PROPERTY SweepIsExact
