SPECIFICATION Spec
CONSTANTS
  Servers = {1, 2}
  Horizon = 1
  MinAge = 1
  Grace = 1
  LagBound = 1
  LockWait = 1
  MinFulls = 1
  MaxTime = 4
  MaxFile = 3
  MaxLost = 1
  MaxFulls = 2
  MaxUnread = 1
  MaxSweeps = 1
  MaxMoves = 1
CONSTRAINT Short
INVARIANTS
    RestoreHonest
    SweepKeepsWindow
PROPERTIES
    NeverUnrestorable
CHECK_DEADLOCK FALSE
