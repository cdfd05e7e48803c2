---------------------------- MODULE MCRelayRooms ----------------------------
(* Values for the runs of RelayRooms: the C and the Python server, started  *)
(* by the host's GO or by --auto-go 2; and the symmetry of the invariants.  *)
EXTENDS RelayRooms, TLC

AllServers  == [inC : BOOLEAN, autoGo : {0, 2}]
HostsOnly   == [inC : BOOLEAN, autoGo : {0}]
Symmetry    == Permutations(Clients) \cup Permutations(Names)
=============================================================================
