SPECIFICATION Spec
CONSTANT Dense = 9000
INVARIANTS
  ClassIsTightest
  BigBlockHolds
  CellsFillPage
CHECK_DEADLOCK FALSE
