SPECIFICATION Spec
CONSTANTS
  Consoles = {0, 1}
  Host = 0
  Noisy = {1}
  NetCount = 3
  Byte = 4
  MaxSkew = 2
  Margin = 3
  MaxTick = 13
  MaxEvents = 2
  MaxStrokes = 2
INVARIANTS
  TypeOK
  SimAgrees
  CountIsRoom
  StockPace
PROPERTIES
  PromptAnswered
CHECK_DEADLOCK FALSE
