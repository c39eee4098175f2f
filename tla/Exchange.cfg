SPECIFICATION Spec
CONSTANTS
  MaxText = 3
INVARIANTS
  TypeOK
  SuccessIsComplete
  ReadBounded
PROPERTIES
  EndsUnlessKeptBusy
CHECK_DEADLOCK FALSE
