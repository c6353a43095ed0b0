\* Two overlapping requests, three stages.
SPECIFICATION Spec
CONSTANTS
  Quotes = {q1}
  RFQs = {r1}
  NoRFQ = NoRFQ
  Workers = {w1, w2}
  PutTargets <- QuotationStatus
  LastStage = 3
  ExpiryDays = 0
  Horizon = 1
PROPERTY OrdersMoveForward
