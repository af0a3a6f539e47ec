SPECIFICATION Spec
CONSTANTS
  None = None
  r1 = r1
  r2 = r2
  f1 = f1
  f2 = f2
  Runs <- MCRuns
  Folders <- MCFolders
  Cases = 2
  Repetitions = 2
  MinimumPercent = 50
  MaxEdits = 0
SYMMETRY Alike
CHECK_DEADLOCK FALSE
INVARIANTS
  InterruptedIsUnfinished
