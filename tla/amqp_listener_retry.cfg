SPECIFICATION ListenerFairSpec
CONSTANTS
  NULL = NULL
  MaxConns = 3
  MaxCommands = 0
  MaxChanges = 2
  MaxCloses = 0
PROPERTIES
  Resubscribes
CHECK_DEADLOCK FALSE
