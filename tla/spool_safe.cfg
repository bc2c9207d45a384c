SPECIFICATION FairSpec
CONSTANTS
  w1 = w1
  w2 = w2
  Mails <- TwoMails
  Workers = {w1, w2}
  Band <- TwoBands
  Allowlisted = {2}
  NoRecipient = {2}
  Housekeeper = w1
  Gone = {w2}
  Limit = 2
  Faults = {"crash", "restart", "lostReply", "disk", "log", "badRead", "lockdown"}
  MaxFaults = 2
INVARIANTS TypeOK DuplicatesAccountedFor NothingLost LiveClaimsKept PendingAlwaysValid
PROPERTIES KeepsPromise Drains ImplementsDelivery
CHECK_DEADLOCK FALSE
