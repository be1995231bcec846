SPECIFICATION Spec
CONSTANTS
  api = api
  command = command
  c1 = c1
  c2 = c2
  c3 = c3
  Processes <- OneProcess
  Clients <- TwoCallers
  Home <- CallersOfApi
  MaxGrants = 3
  Unmarked = Unmarked
  MaxRestarts = 1
CHECK_DEADLOCK FALSE
INVARIANT PriorMeansDeath
