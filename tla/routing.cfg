SPECIFICATION RoutingSpec
CONSTANTS
  Digits = {1, 2}
  c1 = c1
  c2 = c2
  l1 = l1
  l2 = l2
  Callers <- TwoCallers
  Loaders <- TwoLoaders
  NoThread = NoThread
  NoConfig = NoConfig
  MaxGateways = 2
  Characters = {1, 2, 9}
  Configs <- SomeConfigs
  Calls <- SomeCalls
  MaxLoads = 3
  MaxLookups = 2
  MaxSize = 3
  Values = {1, 2, 3}
  Types = {0, 1}
  Costs = {0, 1, 2}
  MaxOffers = 4
  u1 = u1
  u2 = u2
  u3 = u3
  x1 = x1
  Users = {u1, u2, u3}
  Names = {"a", "b"}
  Numbers = {x1}
  ListConfigs <- SomeListConfigs
  NoList <- NoListHere
  Nobody = Nobody
  MaxLists = 5
  MaxCommands = 2
  MaxReloads = 2
SYMMETRY LcrSymmetry
INVARIANTS
  PinnedIsAlive
  FailedLoadKeepsOld
  NoDatabaseLeaks
  RoutesAtTheRightRate
  GatewaysInTurn
  CheapestFirst
  ExactWithoutRepeats
PROPERTIES
  ImplementsAtomicLists
CHECK_DEADLOCK FALSE
