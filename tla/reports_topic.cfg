SPECIFICATION Spec
CONSTANTS
  p1 = p1
  p2 = p2
  None = None
  Reports = {1, 2}
  ReporterOf <- OneReporter
  Classes <- FollowUps
  PRs = {p1}
  Tooling = {}
  MasterFixes = {2}
  Clicks = {}
  Faults = {"refused"}
  MaxFaults = 1
  MaxClicks = 0
  MaxWeeks = 2
  ESCALATION_THRESHOLD = 1
  MAX_UNREACHABLE_REOPENS = 0
INVARIANTS OneReplyPerPost ToldOrDue
PROPERTIES SettledStaysSettled AnsweredNotClosed
CHECK_DEADLOCK FALSE
