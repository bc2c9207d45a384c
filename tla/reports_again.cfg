SPECIFICATION Spec
CONSTANTS
  p1 = p1
  p2 = p2
  None = None
  Reports = {1, 2}
  ReporterOf <- OneReporter
  Classes <- AllClasses
  PRs = {p1}
  Tooling = {}
  MasterFixes = {}
  Clicks = {}
  Faults = {}
  MaxFaults = 0
  MaxClicks = 0
  MaxWeeks = 0
  ESCALATION_THRESHOLD = 2
  MAX_UNREACHABLE_REOPENS = 3
PROPERTY FollowUpIsNoReport
CHECK_DEADLOCK FALSE
