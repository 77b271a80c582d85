\* The fill's side of the documented split.
SPECIFICATION Spec
CHECK_DEADLOCK FALSE
CONSTANTS
  Inputs <- MCInputs
  Filters <- MCFillFilter
  Limits = {0}
  BatchSize = 2
  Blank = Blank
  Malformed = Malformed
INVARIANT
  NothingPassedOver
