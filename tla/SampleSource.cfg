\* Every input of the instance, with and without a filter and a limit.
SPECIFICATION Spec
CHECK_DEADLOCK FALSE
CONSTANTS
  Inputs <- MCInputs
  Filters <- MCFilters
  Limits = {0, 3}
  BatchSize = 2
  Blank = Blank
  Malformed = Malformed
INVARIANTS
  TypeOK
  HoldoutKept
  LimitIsExact
  NothingPassedOverWithoutHoldout
