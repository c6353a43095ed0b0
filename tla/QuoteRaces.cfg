\* Two overlapping requests, every status the endpoint takes, days that pass
\* and the daily task.
SPECIFICATION FairSpec
CONSTANTS
  Quotes = {q1}
  RFQs = {r1}
  NoRFQ = NoRFQ
  Workers = {w1, w2}
  PutTargets <- QuotationStatus
  LastStage = 2
  ExpiryDays = 0
  Horizon = 1
INVARIANT TypeOK
INVARIANT TrailExplainsTracking
PROPERTY AcceptanceStartsOrder
PROPERTY FinalizeAdvancesRfq
PROPERTY TrackingIsAPipeline
PROPERTY OffersAreSettled
