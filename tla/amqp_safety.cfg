SPECIFICATION Spec
CONSTANTS
  h1 = h1
  h2 = h2
  d1 = d1
  d2 = d2
  Dispatchers = {d1, d2}
  Reloaders = {r1}
  HostList <- TwoHosts
  DefaultHost = h1
  ConfiguredSize = 2
  DefaultSize = 1
  BreakerTicks = 1
  NoConn = NoConn
  NoMsg = NoMsg
  None = None
  Consumer = Consumer
  MaxEvents = 3
  MaxTime = 1
  MaxFlaps = 1
  MaxReloads = 1
SYMMETRY DispatcherSymmetry
INVARIANTS
  TypeOK
  AcceptedInOrder
  QueueOnlyWhileRunning
  UnloadedIsQuiet
  AtMostOneBinding
  DrainEmptiesQueue
PROPERTIES
  NoCloseDuringPublish
  ImplementsRelay
  ReportsOverlap
CHECK_DEADLOCK FALSE
