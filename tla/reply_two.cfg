SPECIFICATION Spec
CONSTANTS
  a = a
  b = b
  p1 = p1
  p2 = p2
  c1 = c1
  c2 = c2
  None = None
  Posts = {a, b}
  Panes = {p1, p2}
  Calls = {c1, c2}
  Banned = {b}
  Faults = {"auth"}
  MaxFaults = 1
  MaxClicks = 1
  MaxLoads = 0
INVARIANTS RightPoster RepliesAccountedFor AcknowledgedWasSent
PROPERTIES CommittedKept
CHECK_DEADLOCK FALSE
SYMMETRY SymmetryTwo
