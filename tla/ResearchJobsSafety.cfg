SPECIFICATION Spec
CONSTANTS
  j1 = j1
  w1 = w1
  w2 = w2
  NoOwner = NoOwner
  NoJob = NoJob
  Jobs <- OneJob
  EvidenceJobs <- OneJob
  ReportingJobs <- OneJob
  Workers <- TwoWorkers
  MaxAttempts = 3
  MaxRestarts = 1
  MarketTrades = FALSE
SYMMETRY WorkerSymmetry
INVARIANTS
  TypeOK
  OwnerRunsLatestAttempt
  CancelledNeverRestarts
PROPERTIES
  EvidenceOnlyFromLatestAttempt
  ImplementsLifecycle
