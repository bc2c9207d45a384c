SPECIFICATION Spec
CONSTANTS
  w1 = w1
  w2 = w2
  Mails <- OneMail
  Workers = {w1, w2}
  Band <- OneBand
  Allowlisted = {}
  NoRecipient = {}
  Housekeeper = w1
  Gone = {}
  Limit = 1
  Faults = {"crash", "restart", "tear", "stall", "lostReply", "disk", "log", "badRead", "lockdown", "backlog", "sweepRace"}
  MaxFaults = 2
INVARIANTS RecordsAreTrue
CHECK_DEADLOCK FALSE
