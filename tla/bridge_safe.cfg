SPECIFICATION LiftedSpec
CONSTANTS
  r1 = r1
  r2 = r2
  Tasks = {0, 1}
  Emails = {0}
  Faulty = {1}
  Runners = {r1, r2}
  MAX_ATTEMPTS = 2
  Limit = 1
  MaxIterations = 2
  Faults = {"crash", "stop", "throw", "db", "lockdown"}
  MaxFaults = 2
INVARIANTS TypeOK RunsBounded
PROPERTIES ImplementsBridge EveryTaskEnds
CHECK_DEADLOCK FALSE
