\* Two players, one match, no failed send.
SPECIFICATION Spec
CONSTANTS
  Clients = {c1, c2}
  Names = {n1, n2}
  None = None
  MaxSeats = 2
  Servers <- HostsOnly
  MaxBroken = 0
INVARIANTS SurvivorsReturn
CHECK_DEADLOCK FALSE
