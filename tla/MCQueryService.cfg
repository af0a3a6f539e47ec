SPECIFICATION Spec
CONSTANTS
  Asks = {a1}
  Confirms = {k1}
  Contexts = {x1, x2}
  f1 = f1
  f2 = f2
  u1 = u1
  m1 = m1
  north = north
  None = None
  Ids <- MCIds
  Names = {north}
  KindOf <- MCKindOf
  NamesOf <- MCNamesOf
  Questions <- MCQuestions
  Operations = {"compatible_stock", "incidents"}
  MaxGrounded = 2
INVARIANTS
  PlanIsOfTheQuestion
  EvidenceOfOneMoment
  TraceTellsTheCall
PROPERTIES
  NeverGuesses
CHECK_DEADLOCK FALSE
