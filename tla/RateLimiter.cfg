SPECIFICATION FairSpec
CONSTANTS
  auth = auth
  quote = quote
  scan1 = scan1
  scan2 = scan2
  Requests <- AllRequests
  Rank <- RankOf
  Discovery <- Scans
  Expiring <- None
  MaxConcurrent = 2
  DiscoveryQueue = 1
CHECK_DEADLOCK FALSE
INVARIANTS TypeOK BoundedConcurrency EveryCallIsCharged NoLostWakeup
PROPERTIES OneOutcome AuthIsServed DiscoverySettles
