SPECIFICATION Spec
CONSTANTS
  None = None
  Facilities = {1, 2}
  TypeOf <- MCTypeOf
  Models = {1, 2}
  Components = {1, 2}
  Cases <- MCCases
  Pages <- MCPages
  MaxEvidence = 3
  MaxReferences = 6
  MaxSelection = 2
CHECK_DEADLOCK FALSE
INVARIANTS
  ResultsValid
  FiltersSplit
  PagesTile
  EvidenceWhole
  ClaimsAreTrue
  TextIsReferenced
