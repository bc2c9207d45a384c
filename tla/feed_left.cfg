SPECIFICATION Spec
CONSTANTS
  fa = fa
  yeybu = yeybu
  Partners = {fa}
  Moves = {"approve", "autoapprove", "expire", "back", "pull", "extend"}
  MAX_ATTEMPTS = 3
  Faults = {"crash"}
  MaxFaults = 1
  MaxMoves = 4
  MaxTasks = 4
INVARIANTS GoneFromFeed
CHECK_DEADLOCK FALSE
