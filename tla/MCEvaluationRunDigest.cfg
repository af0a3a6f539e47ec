SPECIFICATION Spec
CONSTANTS
  None = None
  r1 = r1
  r2 = r2
  f1 = f1
  f2 = f2
  Runs = {r1}
  Folders = {f1}
  Cases = 1
  Repetitions = 1
  MinimumPercent = 50
  MaxEdits = 1
CHECK_DEADLOCK FALSE
INVARIANTS
  DigestIsOfTheCodeThatRan
