\* Two players in a forming room; one of the connections fails.
SPECIFICATION Spec
CONSTANTS
  Clients = {c1, c2}
  Names = {n1, n2}
  None = None
  MaxSeats = 2
  Servers <- HostsOnly
  MaxBroken = 1
INVARIANTS CallerSurvives
CHECK_DEADLOCK FALSE
