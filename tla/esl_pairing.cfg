SPECIFICATION Spec
CONSTANTS
  t1 = t1
  t2 = t2
  Threads <- TwoThreads
  Shaker = Shaker
  None = None
  Workers = 2
  MaxCommands = 3
SYMMETRY ThreadSymmetry
INVARIANTS
  OwnReply
CHECK_DEADLOCK FALSE
