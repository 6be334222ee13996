SPECIFICATION ModulesSpec
CONSTANTS
  h1 = h1
  h2 = h2
  d1 = d1
  d2 = d2
  Dispatchers = {d1}
  Reloaders = {r1}
  HostList <- OneHost
  DefaultHost = h1
  ConfiguredSize = 2
  DefaultSize = 1
  BreakerTicks = 1
  NoConn = NoConn
  NoMsg = NoMsg
  None = None
  Consumer = Consumer
  MaxEvents = 2
  MaxTime = 0
  MaxFlaps = 1
  MaxReloads = 1
  NULL = NULL
  MaxConns = 3
  MaxCommands = 2
  MaxChanges = 2
  MaxCloses = 2
  session = session
  api = api
  Threads <- TwoThreads
  Session <- session
  NoData = NoData
  Free = Free
  Credit = 2
  NobalAmt = 1
  Adjustments <- OneUnit
  MaxTicks = 3
  MaxRequests = 3
INVARIANTS
  ListenerTypeOK
  EachCommandOnce
  NoPileUp
  NibbleTypeOK
  ChargedForTimeTalked
PROPERTIES
  AcceptedLeaves
  ReloadReturns
  BlockedConsumerIsStopped
  ListenerStops
  PauseStopsBilling
  OneTransferPerPause
  RequestReturns
CHECK_DEADLOCK FALSE
