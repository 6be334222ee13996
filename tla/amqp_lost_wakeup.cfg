SPECIFICATION FairSpec
CONSTANTS
  h1 = h1
  h2 = h2
  d1 = d1
  d2 = d2
  Dispatchers = {d1}
  Reloaders = {r1}
  HostList <- OneHost
  DefaultHost = h1
  ConfiguredSize = 1
  DefaultSize = 1
  BreakerTicks = 1
  NoConn = NoConn
  NoMsg = NoMsg
  None = None
  Consumer = Consumer
  MaxEvents = 1
  MaxTime = 0
  MaxFlaps = 0
  MaxReloads = 0
PROPERTIES
  ShutdownReturns
CHECK_DEADLOCK FALSE
