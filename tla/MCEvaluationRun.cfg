SPECIFICATION Spec
CONSTANTS
  None = None
  r1 = r1
  r2 = r2
  f1 = f1
  f2 = f2
  Runs <- MCRuns
  Folders <- MCFolders
  Cases = 1
  Repetitions = 2
  MinimumPercent = 50
  MaxEdits = 1
SYMMETRY Alike
CHECK_DEADLOCK FALSE
INVARIANTS
  ExitTellsTheRun
  AcceptedIsEarned
  BatchIsEarned
PROPERTIES
  RunKeepsItsFolder
