SPECIFICATION Spec
CONSTANTS
  MaxOrder = 2
  InstrumentOf <- OneInstrument
  StartingCash = 10
  DailyLossLimit = 8
  MaxMarkAge = 0
  MaxTime = 1
  MaxSession = 2
  Debits = {4, 8}
  Risks = {3, 5}
  Shares = {1, 3}
  Prices = {1, 2, 3}
  Fees = {2}
CHECK_DEADLOCK FALSE
INVARIANTS TypeOK Conserved ReservedFitsCash LossIsBounded CashIsAccounted
PROPERTIES ImplementsOrderLife
