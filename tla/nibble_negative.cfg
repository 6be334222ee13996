SPECIFICATION NibbleSpec
CONSTANTS
  session = session
  api = api
  Threads <- TwoThreads
  Session <- session
  NoData = NoData
  Free = Free
  Credit = 2
  NobalAmt = 1
  Adjustments <- OneUnit
  MaxTicks = 4
  MaxRequests = 3
INVARIANTS
  NoNegativeMinutes
CHECK_DEADLOCK FALSE
