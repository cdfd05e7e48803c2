\* Two consoles, far enough for the 36-value tick counter to wrap and for a
\* write to fail around the wrap; no symmetry, which liveness does not allow.
SPECIFICATION LiveSpec
CONSTANTS
  Seats = {s1, s2}
  D = 1
  BYTE = 6
  MaxTick = 37
  MaxLost = 1
  LossFrom = 34
INVARIANTS TypeOK InputAgreement BoundedSkew IInv
PROPERTIES ImplementsTimeline GatesProgress OneOutAllOut
CHECK_DEADLOCK FALSE
