SPECIFICATION Spec
CONSTANTS
  Ops = {served, unknown}
  Configured = {served}
  MaxAttempts = 3
INVARIANTS
  TelemetryTellsTheCall
  ResultIsOwnAndFinal
PROPERTIES
  EveryCallEnds
  IsBoundedCall
CHECK_DEADLOCK FALSE
