SPECIFICATION Spec
CONSTANTS
  j1 = j1
  w1 = w1
  w2 = w2
  NoOwner = NoOwner
  NoJob = NoJob
  Jobs <- OneJob
  EvidenceJobs <- NoJobs
  ReportingJobs <- OneJob
  Workers <- OneWorker
  MaxAttempts = 1
  MaxRestarts = 0
  MarketTrades = FALSE
INVARIANTS
  StoppedJobIsCancelled
