SPECIFICATION Spec
CONSTANTS
  a = a
  b = b
  p1 = p1
  p2 = p2
  c1 = c1
  c2 = c2
  None = None
  Posts = {a}
  Panes = {p1}
  Calls = {c1, c2}
  Banned = {}
  Faults = {}
  MaxFaults = 0
  MaxClicks = 1
  MaxLoads = 1
INVARIANTS SentOncePerClick
CHECK_DEADLOCK FALSE
