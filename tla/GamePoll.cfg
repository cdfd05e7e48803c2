SPECIFICATION Spec
CONSTANTS
  Consoles = {0, 1}
  Host = 0
  Noisy = {}
  NetCount = 3
  Byte = 4
  MaxSkew = 2
  Margin = 3
  MaxTick = 9
  MaxEvents = 1
  MaxStrokes = 2
INVARIANT OnlyGolferUp
CHECK_DEADLOCK FALSE
