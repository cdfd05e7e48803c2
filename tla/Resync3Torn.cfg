\* Three consoles: a guest's gate can be opened by the other guest.
SPECIFICATION DirectedSpec
CONSTANTS
  Seats = {host, g1, g2}
  Host = host
  D = 1
  Margin = 2
  Period = 4
  CrcSlots = 1
  K = 2
  Summed = {1}
  PendMax = 1
  MaxTick = 3
  StrayBefore = 1
  MaxPush = 1
  MaxCut = 0
SYMMETRY Symmetry
PROPERTIES NoTornTick
CHECK_DEADLOCK FALSE
