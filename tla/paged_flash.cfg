SPECIFICATION Spec
CONSTANTS
  WINDOW_WORDS = 6
  PageVals = 4
  MaxPages = 2
INVARIANT TypeOK
PROPERTIES
  SwitchMeetsTrampoline
  RunsAsWritten
CHECK_DEADLOCK FALSE
