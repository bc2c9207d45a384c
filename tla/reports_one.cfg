SPECIFICATION Spec
CONSTANTS
  p1 = p1
  p2 = p2
  None = None
  Reports = {1}
  ReporterOf <- OneReporter
  Classes <- AllClasses
  PRs = {p1, p2}
  Tooling = {p2}
  MasterFixes = {1}
  Clicks = {"needs-detail", "fixed"}
  Faults = {"crash", "refused", "lost", "fetch"}
  MaxFaults = 1
  MaxClicks = 1
  MaxWeeks = 2
  ESCALATION_THRESHOLD = 1
  MAX_UNREACHABLE_REOPENS = 1
INVARIANTS TypeOK NoEndlessRetry OneReplyPerPost
CHECK_DEADLOCK FALSE
