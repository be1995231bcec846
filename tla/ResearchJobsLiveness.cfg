SPECIFICATION FairSpec
CONSTANTS
  j1 = j1
  w1 = w1
  w2 = w2
  NoOwner = NoOwner
  NoJob = NoJob
  Jobs <- OneJob
  EvidenceJobs <- NoJobs
  ReportingJobs <- NoJobs
  Workers <- TwoWorkers
  MaxAttempts = 2
  MaxRestarts = 1
  MarketTrades = TRUE
INVARIANTS
  SucceededByLatestAttempt
PROPERTIES
  EveryJobSettles
