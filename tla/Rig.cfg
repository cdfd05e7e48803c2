SPECIFICATION Spec
CONSTANTS
  None = None
  Conns = {1, 2, 3, 4, 5, 6, 7, 8, 9}
  Names <- MCNames
  MaxClients = 9
  PerIp = 8
  LobbyEntries = 8
  CrcTicks = 4
  CrcSeats = 8
  Plays = {"gate_2", "gate_3", "gate_4", "gate_2_py", "autogo_2", "autogo_3", "autogo_4", "full_2",
    "full_3", "full_4", "roster", "rooms", "start", "relay", "drops", "framing", "limits",
    "v1_roster", "v1_pairing", "v1_relay", "v1_drops", "v1_framing", "v1_limits"}
  Seeds = {1, 2}
INVARIANTS
  TypeOK
  GateVerdict
  SameRecord
  PingsAnswered
PROPERTIES
  RigEnds
CHECK_DEADLOCK FALSE
