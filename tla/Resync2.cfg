\* Two consoles, a stray or a lost INPUT in the first tick, two pushes at most,
\* one write of which may fail.
SPECIFICATION LiveSpec
CONSTANTS
  Seats = {host, guest}
  Host = host
  D = 1
  Margin = 2
  Period = 2
  CrcSlots = 2
  K = 2
  Summed = {1}
  PendMax = 2
  MaxTick = 6
  StrayBefore = 1
  MaxPush = 2
  MaxCut = 1
INVARIANTS TypeOK Repaired PagesAgree NoFalseAlarm
PROPERTIES NoTornTick Recovers
CHECK_DEADLOCK FALSE
