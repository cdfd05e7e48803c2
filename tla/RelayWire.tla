----------------------------- MODULE RelayWire ------------------------------
(***************************************************************************)
(* What the two relays share without sharing code: the connections, the    *)
(* names, the limits and the frames.  RelayServer is the reference,        *)
(* RelayPort the C port.                                                   *)
(*                                                                         *)
(* A frame sent in n writes or segments is n pieces [frame, at, of].       *)
(***************************************************************************)
EXTENDS Integers, Sequences, FiniteSets, SequencesExt, FiniteSetsExt, Functions

CONSTANTS
  Conns,         \* connections, each used once; all come from one address
  Names,         \* the well-formed player names
  None,
  MaxClients,    \* MAX_CLIENTS
  PerIp,         \* MAX_CONNECTIONS_PER_IP
  LobbyEntries,  \* entries of a LOBBY frame
  CrcTicks,      \* rounds the CRC table keeps
  CrcSeats       \* CRC_SEATS of the C port

ASSUME LimitsAssumption ==
  {MaxClients, PerIp, LobbyEntries, CrcTicks, CrcSeats} \subseteq Nat \ {0}

RelayTypes == {"INPUT", "CRC", "STATE", "RESYNC"}
EOF        == [type |-> "EOF"]

Put(f, k, v) == [x \in DOMAIN f \cup {k} |-> IF x = k THEN v ELSE f[x]]
Nothing      == [x \in {} |-> 0]
=============================================================================
