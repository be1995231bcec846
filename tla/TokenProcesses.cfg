SPECIFICATION Spec
CONSTANTS
  api = api
  command = command
  c1 = c1
  c2 = c2
  c3 = c3
  Processes <- TwoProcesses
  Clients <- CallerEach
  Home <- CallerOfEach
  MaxGrants = 3
  Unmarked = Unmarked
  MaxRestarts = 0
CHECK_DEADLOCK FALSE
INVARIANTS ServedIsRenewable
