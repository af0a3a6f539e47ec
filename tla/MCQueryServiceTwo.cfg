SPECIFICATION Spec
CONSTANTS
  Asks = {a1, a2}
  Confirms = {k1}
  Contexts = {x1, x2}
  f1 = f1
  f2 = f2
  u1 = u1
  m1 = m1
  north = north
  None = None
  Ids <- MCFewIds
  Names = {}
  KindOf <- MCFewKinds
  NamesOf <- MCFewNames
  Questions <- MCFewQuestions
  Operations = {"facility_equipment"}
  MaxGrounded = 2
INVARIANTS
  ScopeIsApproved
PROPERTIES
  KeepsPromise
CHECK_DEADLOCK FALSE
