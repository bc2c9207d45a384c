SPECIFICATION Spec
CONSTANTS
  a = a
  b = b
  p1 = p1
  p2 = p2
  c1 = c1
  c2 = c2
  None = None
  Posts = {a}
  Panes = {p1}
  Calls = {c1, c2}
  Banned = {}
  Faults = {"error", "auth", "reach", "form", "button", "lost", "refresh", "expire", "age", "fetch"}
  MaxFaults = 2
  MaxClicks = 2
  MaxLoads = 1
INVARIANTS TypeOK NeverUnasked RepliesAccountedFor AcknowledgedWasSent
PROPERTIES CommittedKept
CHECK_DEADLOCK FALSE
SYMMETRY Symmetry
