---------------------------- MODULE MCRelayRig -----------------------------
(* The names of the players of the scripts.                                *)
EXTENDS RelayRig

MCNames == Range(ROOM_NAMES) \cup
  {"OLDGUY", "EVE", "FRANK", "GRACE", "HEIDI", "CAROL2", "GUESTA", "GUESTB", "GUESTC",
   "P1AA", "P2BB", "P3CC", "P4DD", "PZZZ"}
=============================================================================
