SPECIFICATION SpecAnswers
CONSTANTS
  Asks = {a1, a2}
  Confirms = {k1}
  Contexts = {x1, x2}
  Questions = {q1, q2}
  Plans = {wide, narrow}
  Spanning = {wide}
  Declined = declined
  Evidence <- MCEvidence
  OperationOf <- MCOperationOf
  None = None
INVARIANTS
  AnswersOwnQuestion
  VerdictIsEarned
  TraceTellsTheTurn
CHECK_DEADLOCK FALSE
