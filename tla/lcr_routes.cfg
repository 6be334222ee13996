SPECIFICATION RouteSpec
CONSTANTS
  Digits = {1, 2}
  MaxSize = 3
  Values = {1, 2, 3}
  Types = {0}
  Costs = {0, 1, 2}
  MaxOffers = 4
INVARIANT RemovedOnlyToMakeRoom
CHECK_DEADLOCK FALSE
