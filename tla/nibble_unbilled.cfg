SPECIFICATION NibbleSpec
CONSTANTS
  session = session
  api = api
  Threads <- TwoThreads
  Session <- session
  NoData = NoData
  Free = Free
  Credit = 2
  NobalAmt = 1
  Adjustments <- OneUnit
  MaxTicks = 3
  MaxRequests = 2
PROPERTIES
  CountersFollowAccount
CHECK_DEADLOCK FALSE
