SPECIFICATION Spec
CONSTANTS
  CntVals = 3
  DutyVals = 4
INVARIANTS
  TypeOK
  TimeRecovered
  DutyCycle
