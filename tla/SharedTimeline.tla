--------------------------- MODULE SharedTimeline ---------------------------
(***************************************************************************)
(* What the lockstep engine promises the game: every console of a match    *)
(* runs the same ticks on the same inputs, none more than Lag ticks past a *)
(* console it still plays with.  A console that loses the match coasts     *)
(* through at most one more tick, on inputs nobody else sees, and stops.   *)
(*                                                                         *)
(* PORTING.md section 1: the input captured at tick T is applied on every  *)
(* console at T+d.                                                         *)
(***************************************************************************)
EXTENDS Integers

CONSTANTS
  Seats,
  Lag,         \* ticks a console may be ahead of another
  Input(_)     \* the inputs of tick t, as every console must see them

VARIABLES
  at,      \* the number of ticks each console has run
  life,    \* "live", "coasting" (match over, one tick under way) or "gone"
  seen     \* the inputs of the last tick each console ran

tvars == <<at, life, seen>>

Init ==
  /\ at   = [c \in Seats |-> 0]
  /\ life = [c \in Seats |-> "live"]
  /\ seen = [c \in Seats |-> Input(-1)]

(* A tick on the inputs of the shared timeline, no further ahead of anyone *)
(* than the delay hides.                                                   *)
Step(c) ==
  /\ life[c] = "live"
  /\ \A p \in Seats : at[c] < at[p] + Lag
  /\ at'   = [at EXCEPT ![c] = @ + 1]
  /\ seen' = [seen EXCEPT ![c] = Input(at[c])]
  /\ UNCHANGED life

(* The console learns, or decides, that the match is over.                 *)
Lose(c) ==
  /\ life[c] = "live"
  /\ life' = [life EXCEPT ![c] = "coasting"]
  /\ UNCHANGED <<at, seen>>

(* The tick that was under way runs to its end; nothing is said of what it *)
(* runs on, and no further tick follows.                                   *)
Coast(c) ==
  /\ life[c] = "coasting"
  /\ life' = [life EXCEPT ![c] = "gone"]
  /\ at'   = [at EXCEPT ![c] = @ + 1]
  /\ seen' = [seen EXCEPT ![c] = seen'[c]]

Next == \E c \in Seats : Step(c) \/ Lose(c) \/ Coast(c)

Spec == Init /\ [][Next]_tvars
=============================================================================
