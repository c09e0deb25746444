\* Three generators of any formats, with failures, kills and older output.
SPECIFICATION Spec
CONSTANTS
  Generators = {g1, g2, g3}
  Customer = Customer
  None = None
  IOFails = TRUE
  Crashes = TRUE
SYMMETRY Symmetry
INVARIANTS
  DeliveredIsWhole
  WinnersKeepTheirs
  FailureLeavesNothing
PROPERTIES
  NeverOverwritten
CHECK_DEADLOCK FALSE
