SPECIFICATION EslSpec
CONSTANTS
  t1 = t1
  t2 = t2
  a = a
  b = b
  Threads <- TwoThreads
  Shaker = Shaker
  None = None
  Workers = 2
  MaxCommands = 4
  Apps <- TwoThreads
  Connector = t1
  MaxConnects = 2
  MaxSends = 2
  Registrations = {a, b}
  PoolSize = 2
  MaxEvents = 2
  SentMessages <- SomeMessages
  MaxHeaderSize = 4
  MaxMessages = 2
INVARIANTS
  SessionTypeOK
  NoOrphanReply
  OneReplyEach
  MixUpsStayInBurst
  FirstConnectIsAuthenticated
  OneThreadNeverCrosses
  HeardOnce
  DecodedAsSent
PROPERTIES
  CommandReturns
  ConnectReturns
  EveryListenerHears
CHECK_DEADLOCK FALSE
