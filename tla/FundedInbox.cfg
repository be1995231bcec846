SPECIFICATION FairSpec
CONSTANTS
  Orders <- OneOrder
  MaxTime = 3
  Close = 3
  Validity = 1
  MaxEvents = 1
  MaxCrashes = 1
CHECK_DEADLOCK FALSE
INVARIANTS TypeOK BarrierIsFirst OnlyUnknownOrdersStop CompletedRunIsResolved
PROPERTIES InvalidatedNeverTrade ImplementsOrderLife InboxDrains
