\* The relay started with --delay 0.
SPECIFICATION Spec
CONSTANTS
  Seats = {s1, s2}
  D = 0
  BYTE = 6
  MaxTick = 6
  MaxLost = 0
  LossFrom = 0
INVARIANTS InputAgreement
CHECK_DEADLOCK FALSE
