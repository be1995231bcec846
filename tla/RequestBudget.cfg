SPECIFICATION Spec
CONSTANTS
  p1 = p1
  p2 = p2
  Processes <- TwoProcesses
  Second = 3
  Hour = 6
  Spacing = 1
  DiscoverySpacing = 2
  SecondLimit = 2
  HourLimit = 4
  DiscoveryLimit = 2
  MonitoringReserve = 1
  Start = 4
  Earlier <- Usages
  Resets <- ResetTimes
  MaxClock = 17
SYMMETRY Symmetry
CHECK_DEADLOCK FALSE
INVARIANTS TypeOK BrokerLimitsHold DiscoveryLeavesReserve CopiesAgree
PROPERTIES EmbargoHolds RetryIsNeverTooLate
