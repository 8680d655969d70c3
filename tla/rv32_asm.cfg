SPECIFICATION Spec
CONSTANTS
  Plain <- MCPlain
  Jumps <- MCJumps
  Gaps = {1, 1022}
  LabelNames = {"RUN", "L"}
  Bases = {0, 180}
  Entry = 180
  MaxCalls = 4
  MaxAsked = 1
INVARIANTS TypeOK ExecutesAsAsked
CHECK_DEADLOCK FALSE
