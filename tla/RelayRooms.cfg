\* Four connections, four names, rooms of three, two connections that fail.
SPECIFICATION Spec
CONSTANTS
  Clients = {c1, c2, c3, c4}
  Names = {n1, n2, n3, n4}
  None = None
  MaxSeats = 3
  Servers <- AllServers
  MaxBroken = 2
SYMMETRY Symmetry
INVARIANTS TypeOK RoomsConsistent NamesLive NobodyStranded MatchAgrees WaitingCurrent
CHECK_DEADLOCK FALSE
