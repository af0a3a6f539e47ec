SPECIFICATION Spec
CONSTANTS
  None = None
  s1 = s1
  s2 = s2
  c1 = c1
  c2 = c2
  w1 = w1
  w2 = w2
  Sessions = {s1, s2}
  Connections = {c1, c2}
  Workspaces = {w1, w2}
  Tables = {"facilities", "equipment_units"}
  Codes = {1, 2}
  Ids = {1, 2, 3}
  Limit = 1
  Offsets = {0, 1}
SYMMETRY Alike
CHECK_DEADLOCK FALSE
INVARIANTS
  OwnWorkspaceOnly
  ConstraintsHold
  BlockIsAllOrNothing
  PageAddsUp
