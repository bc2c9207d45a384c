SPECIFICATION FairSpec
CONSTANTS
  fa = fa
  yeybu = yeybu
  Partners = {fa, yeybu}
  Moves = {"approve", "reject", "outcome", "withdraw", "delete", "draft", "repost"}
  MAX_ATTEMPTS = 2
  Faults = {"fail", "timeout", "refused", "giveup", "lost", "db", "crash"}
  MaxFaults = 2
  MaxMoves = 6
  MaxTasks = 9
INVARIANTS TypeOK GoneFromFeed LiveOnFeed
PROPERTIES FeedConverges
CHECK_DEADLOCK FALSE
