------------------------------ MODULE GameTick ------------------------------
(***************************************************************************)
(* What a console does with the inputs of a tick, once its gate is open:   *)
(* the tick half of LS_PASS (src/netcode/lockstep.asm), the hook segment   *)
(* (src/hook.asm) and the virtual dispatcher (src/vdispatch.asm).          *)
(* The inputs are the same on every console, and consoles are at most      *)
(* MaxSkew ticks apart: that is what Lockstep shows.  The rest is local:   *)
(* the pad the EXEC scans between two ticks, its handler table pointer,    *)
(* the LFSR its sound engine advances from the interrupt.  None of it may  *)
(* reach the game.                                                         *)
(*                                                                         *)
(* The game is external: three timer routines and the handlers of its      *)
(* tables, reduced to what the hook says of them.  A console is a record;  *)
(* its field s holds the cells that a resync transports.                   *)
(***************************************************************************)
EXTENDS Integers, Sequences

CONSTANTS
  Consoles,    \* two are enough: only pairs are compared
  Host,
  Noisy,       \* consoles with a player at the pad and sound on
  NetCount,    \* NET_COUNT, the players of the match
  Byte,        \* slots of a ring page
  MaxSkew,     \* ticks that consoles may be apart, d + 1
  Margin,      \* R - T of a resync
  MaxTick, MaxEvents, MaxStrokes   \* bounds

ASSUME GameAssumption ==
  /\ Host \in Consoles /\ Noisy \subseteq Consoles /\ NetCount \in 2 .. 4
  /\ {Byte, MaxSkew, Margin} \subseteq Nat \ {0} /\ {MaxTick, MaxEvents, MaxStrokes} \subseteq Nat
  /\ MaxSkew + 2 <= Byte /\ MaxSkew < Margin

VARIABLES
  con,       \* the consoles
  page,      \* the ring pages: slot -> seat -> cells
  known,     \* the pages hold the inputs of the ticks below
  events,    \* inputs that are not idle, and faults, so far
  fault      \* "never", "astray" or "repaired"

vars == <<con, page, known, events, fault>>

Seats == 0 .. 3
Nobody == 255        \* ARB_SEAT while the injector owns the tick
Enter  == 11
Period == 2          \* of the LFSR

(* A decoded cell is at rest ($40) or holds a disc direction, a key or its *)
(* release; the keypad cell a class of action button, or 0.                *)
Idle == [dec |-> "rest", kp |-> 0]
IdlePage == [i \in 0 .. Byte - 1 |-> [q \in Seats |-> Idle]]

(* An input of one seat, the other seats being idle.                       *)
Pressed == {[Idle EXCEPT !.dec = d] : d \in {"disc", "key"}} \cup {[Idle EXCEPT !.kp = 1]}
OneInput == {[IdlePage[0] EXCEPT ![q] = x] : q \in 0 .. NetCount - 1, x \in Pressed}

(* What $035D may point at.                                                *)
Tables == {"prompt", "live", "over", "net null"}

-----------------------------------------------------------------------------
(* The services the patched game calls.                                    *)

Shift(x) == (x + 1) % Period         \* one step of the LFSR

(* GF_RAND: the canonical value goes into the EXEC's cell and comes back   *)
(* advanced, with interrupts off.                                          *)
Bug_Rand(k) == [k EXCEPT !.s.rng = Shift(k.exec), !.exec = Shift(@)]
Rand(k) == [k EXCEPT !.s.rng = Shift(@), !.exec = Shift(k.s.rng)]

(* GF_ARM_SHIM and GF_STOP_SHIM.  `stock' are the countdowns of the EXEC's *)
(* own table, had the game's entries stayed in it; 0 is stopped.           *)
Interval == <<1, 3, 1>>
Arm(k, n) ==
  [k EXCEPT !.s.arm = @ \cup {n}, !.stock[n] = Interval[n],
            !.s.cnt2 = IF n = 2 THEN Interval[2] ELSE @]
Stop(k, n) == [k EXCEPT !.s.arm = @ \ {n}, !.stock[n] = 0]

-----------------------------------------------------------------------------
(* The game.                                                               *)

Lands(k) == k.s.rng % 2 = 0
Settles(k) == k.s.rng % 2 = 1

(* The number-entry prompt takes digits and ENTER; in play, events pick a  *)
(* club.  Other tables have null entries.                                  *)
Handler(k, slot, v) ==
  CASE k.htbl = "prompt" /\ slot = 2 /\ v \in 1 .. 9 -> [k EXCEPT !.s.digit = v]
    [] k.htbl = "prompt" /\ slot = 2 /\ v = Enter /\ k.s.digit # 0 ->
         Arm([k EXCEPT !.s.pcount = k.s.digit, !.s.ball = "rest", !.htbl = "live"], 3)
    [] k.htbl = "live" -> [k EXCEPT !.s.club = <<slot, v>>]
    [] OTHER -> k

(* Entry 1, ball flight; entry 2, the roll, and the next golfer; entry 3,  *)
(* which polls the shadow pair for a disc and takes the stroke.            *)
Flight(k) ==
  LET d == Rand(k) IN
  IF Lands(d) THEN Arm(Stop([d EXCEPT !.s.ball = "rolls"], 1), 2) ELSE d
Roll(k) ==
  LET d == Rand(k)
      n == Stop([d EXCEPT !.s.cur = (@ + 1) % d.s.pcount], 2)
  IN IF ~Settles(d) THEN d
     ELSE IF d.s.strokes = MaxStrokes THEN [n EXCEPT !.s.ball = "over", !.htbl = "over"]
     ELSE Arm([n EXCEPT !.s.ball = "rest"], 3)
Swing(k) ==
  IF "disc" \notin {k.shadow[1], k.shadow[2]} THEN k
  ELSE LET by == IF k.shadow[1] = "disc" THEN 0 ELSE 1
       IN Arm(Stop([Rand(k) EXCEPT !.s.ball = "flies", !.s.strokes = @ + 1, !.swung = by], 3), 1)

-----------------------------------------------------------------------------
(* The tick.                                                               *)

Slot(t) == t % Byte

(* LS_TBL_ADOPT, and the table put back for the tick.                      *)
Adopt(k)   == IF k.htbl = "net null" THEN k ELSE [k EXCEPT !.s.tbl = k.htbl]
Install(k) == IF k.s.tbl = "none" THEN k ELSE [k EXCEPT !.htbl = k.s.tbl]

(* ARB_INJECT and ARB_COMPUTE.                                             *)
Bug_Inject(k) ==
  LET n == (k.s.inj + 1) % 256
      j == [k EXCEPT !.s.inj = n]
  IN CASE n = 2 -> Handler(j, 2, Enter)  [] n = 6 -> Handler(j, 2, NetCount)  [] OTHER -> j
Inject(k) ==
  LET n == (k.s.inj + 1) % 256
      j == [k EXCEPT !.s.inj = n]
  IN CASE n = 2 -> Handler(j, 2, NetCount)  [] n = 6 -> Handler(j, 2, Enter)  [] OTHER -> j

Bug_Arbiter(k) ==
  IF k.s.tbl = "prompt" THEN Inject([k EXCEPT !.seat = k.s.cur % 4]) ELSE [k EXCEPT !.seat = k.s.cur % 4]
Arbiter(k) ==
  IF k.s.tbl = "prompt" THEN Inject([k EXCEPT !.seat = Nobody]) ELSE [k EXCEPT !.seat = k.s.cur % 4]

(* UPDATE_SHADOW and SHADOW_FROM_RINGS: the polled pair.                   *)
FromPads(k)  == [k EXCEPT !.shadow = <<k.pad, "rest">>]
FromRings(k, pg) == [k EXCEPT !.shadow = <<pg[Slot(k.tick)][0].dec, pg[Slot(k.tick)][1].dec>>]

(* LS_VDISPATCH: what the scan would have called for the controlling seat, *)
(* given its cells of this tick and of the one before.                     *)
Release(k, was, is) ==
  IF was.kp # 0 /\ is.kp # was.kp THEN Handler(k, 2 * was.kp + 2, -1) ELSE k
Hold(k, was, is) ==
  IF is.kp # 0 THEN Handler(k, 2 * is.kp + 2, IF is.kp = was.kp THEN 0 ELSE 1) ELSE k
Decode(k, was, is) ==
  CASE is.dec = was.dec -> k
    [] is.dec = "disc" -> Handler(k, 0, 4)
    [] is.dec = "key"  -> Handler(k, 2, 9)
    [] is.dec = "rest" -> Handler(k, 0, -1)
    [] OTHER -> k
Dispatch(k, pg) ==
  LET was == pg[Slot(k.tick - 1)][k.seat]
      is  == pg[Slot(k.tick)][k.seat]
  IN IF k.seat = Nobody THEN k
     ELSE Decode(Hold(Release(k, was, is), was, is), was, is)

(* GF_GAME_TICK: entries in table order, entry 2 on its countdown.         *)
Walked(k, n) == [k EXCEPT !.stock[n] = IF @ = 1 THEN Interval[n] ELSE IF @ = 0 THEN 0 ELSE @ - 1]
Entry1(k) == IF 1 \in k.s.arm THEN Flight(k) ELSE k
Bug_Negative(k) ==
  IF 2 \notin k.s.arm THEN k
  ELSE IF k.s.cnt2 # 0 THEN [k EXCEPT !.s.cnt2 = @ - 1]
  ELSE [Roll(k) EXCEPT !.s.cnt2 = Interval[2]]
Bug_NoReload(k) ==
  IF 2 \notin k.s.arm THEN k
  ELSE IF k.s.cnt2 # 1 THEN [k EXCEPT !.s.cnt2 = @ - 1]
  ELSE [Roll(k) EXCEPT !.s.cnt2 = 0]
Entry2(k) ==
  IF 2 \notin k.s.arm THEN k
  ELSE IF k.s.cnt2 # 1 THEN [k EXCEPT !.s.cnt2 = @ - 1]
  ELSE [Roll(k) EXCEPT !.s.cnt2 = Interval[2]]
Entry3(k) == IF 3 \in k.s.arm THEN Swing(k) ELSE k
Flag(k)   == [k EXCEPT !.quiescent = k.s.arm \cap {1, 2} = {}]
GameEntries(k) == Flag(Entry3(Walked(Entry2(Walked(Entry1(Walked(k, 1)), 2)), 3)))

(* What the EXEC's scan finds between two ticks: the null table.           *)
Bug_Park(k) == Adopt(k)
Park(k) == [Adopt(k) EXCEPT !.htbl = "net null"]

-----------------------------------------------------------------------------
(* The steps of a console.                                                 *)

Keep(c, k) == con' = [con EXCEPT ![c] = k]

(* The gate opens, the inputs of the tick being there, and LS_PASS goes on *)
(* from ls_nf to the end of the dispatch.                                  *)
Replay(k, pg) == Dispatch(FromRings(Arbiter(Install(Adopt(FromPads(k)))), pg), pg)
GateOpen(c) ==
  /\ con[c].pc = "gate" /\ con[c].tick < MaxTick
  /\ \A d \in Consoles : con[c].tick <= con[d].tick + MaxSkew
OpenGate(c) ==
  /\ GateOpen(c)
  /\ IF con[c].tick < known THEN UNCHANGED <<page, known, events>>
     ELSE /\ known' = known + 1
          /\ \/ page' = [page EXCEPT ![Slot(known)] = IdlePage[0]] /\ UNCHANGED events
             \/ /\ events < MaxEvents /\ events' = events + 1
                /\ \E x \in OneInput : page' = [page EXCEPT ![Slot(known)] = x]
  /\ Keep(c, [Replay(con[c], page') EXCEPT !.pc = "tick"])
  /\ UNCHANGED fault

RunTick(c) ==
  /\ con[c].pc = "tick"
  /\ Keep(c, [Park(GameEntries(con[c])) EXCEPT !.tick = @ + 1, !.pc = "gate"])
  /\ UNCHANGED <<page, known, events, fault>>

(* The EXEC's own pass: it scans a pad that has moved, and dispatches that. *)
Scan(c) ==
  /\ con[c].pc = "gate"
  /\ \E p \in {"rest", "disc"} \ {con[c].pad} :
       Keep(c, [Handler(con[c], 0, 4) EXCEPT !.pad = p])
  /\ UNCHANGED <<page, known, events, fault>>

(* The sound engine's interrupt, wherever the console is.                  *)
Noise(c) ==
  /\ Keep(c, [con[c] EXCEPT !.exec = Shift(@)])
  /\ UNCHANGED <<page, known, events, fault>>

(* The fault: a cell of one console changes by itself, once.               *)
Stray(c) ==
  /\ fault = "never" /\ con[c].pc = "gate" /\ events < MaxEvents
  /\ fault' = "astray" /\ events' = events + 1
  /\ \/ Keep(c, [con[c] EXCEPT !.s.rng = Shift(@)])
     \/ Keep(c, [con[c] EXCEPT !.s.inj = 7])
     \/ Keep(c, [con[c] EXCEPT !.s.cur = 5])
  /\ UNCHANGED <<page, known>>

(* The cells that RS_TAILTBL and the first image range transport.          *)
Bug_ImageCells == {"cur", "pcount", "digit", "ball", "club", "strokes", "rng", "arm", "cnt2", "tbl"}
ImageCells == {"cur", "pcount", "digit", "ball", "club", "strokes", "rng", "arm", "cnt2", "inj", "tbl"}

(* GF_REBASE_HOOK.                                                         *)
Clamped(s) == [s EXCEPT !.cur = IF @ <= 3 THEN @ ELSE 0]

(* A push: every console takes the host's image, clamps it and resumes at  *)
(* R with idle pages.  It follows a CRC that both have sent, so after a    *)
(* tick of each.  That it comes in pieces is the subject of Resync.        *)
Rebase ==
  /\ fault = "astray" /\ \A c \in Consoles : con[c].pc = "gate" /\ con[c].tick > 0
  /\ LET h == con[Host]
         image(s) == [f \in DOMAIN s |-> IF f \in ImageCells THEN h.s[f] ELSE s[f]]
     IN con' = [c \in Consoles |-> [con[c] EXCEPT !.s = Clamped(image(@)), !.stock = h.stock,
                                                  !.tick = h.tick + Margin]]
  /\ page' = IdlePage
  /\ known' = con[Host].tick + Margin + MaxSkew - 1
  /\ fault' = "repaired"
  /\ UNCHANGED events

(* START: the prompt is up, nothing is armed, and the first d ticks have   *)
(* idle inputs.                                                            *)
Start ==
  [tick |-> 0, pc |-> "gate", htbl |-> "prompt", exec |-> 0, pad |-> "rest",
   shadow |-> <<"rest", "rest">>, seat |-> 0, quiescent |-> FALSE, stock |-> <<0, 0, 0>>, swung |-> 0,
   s |-> [cur |-> 0, pcount |-> 0, digit |-> 0, ball |-> "none", club |-> <<>>, strokes |-> 0,
          rng |-> 0, arm |-> {}, cnt2 |-> Interval[2], inj |-> 0, tbl |-> "none"]]

Init ==
  /\ con = [c \in Consoles |-> Start]
  /\ page = IdlePage /\ known = MaxSkew - 1 /\ events = 0 /\ fault = "never"

Step(c) == OpenGate(c) \/ RunTick(c)
Next == \/ \E c \in Consoles : Step(c) \/ Stray(c)
        \/ \E c \in Noisy : Scan(c) \/ Noise(c)
        \/ Rebase

(* The EXEC runs pass after pass on every console.  Fair(c) is weak        *)
(* fairness of Step(c), which is enabled at an open gate and in a tick,    *)
(* and moves pc, as nothing else does.                                     *)
Fair(c) == []<>(con[c].pc = "gate" /\ ~GateOpen(c)) \/ []<><<con[c].pc' # con[c].pc>>_vars
Spec == Init /\ [][Next]_vars /\ \A c \in Consoles : Fair(c)

-----------------------------------------------------------------------------
(* Properties.                                                             *)

(* What the host reads before it pushes: a quiescent game has its ball at   *)
(* rest.                                                                   *)
Between(c) == con[c].pc = "gate"
QuiescentIsRest ==
  Between(Host) /\ con[Host].quiescent => con[Host].s.ball \notin {"flies", "rolls"}

TypeOK ==
  /\ known \in Nat /\ events \in 0 .. MaxEvents /\ fault \in {"never", "astray", "repaired"}
  /\ QuiescentIsRest
  /\ \A c \in Consoles :
       LET k == con[c] IN
       /\ k.htbl \in Tables /\ k.s.arm \subseteq 1 .. 3
       /\ k.s.cnt2 \in 1 .. Interval[2] /\ k.exec \in 0 .. Period - 1 /\ k.s.rng \in 0 .. Period - 1
       /\ k.tick <= known

(* Two consoles that have run the same ticks are in the same game: no pad, *)
(* no scan, no interrupt and no difference in pace has reached it, and     *)
(* what has gone wrong by itself is gone after a push, to the last cell    *)
(* the next ticks depend on.                                               *)
SimAgrees ==
  fault # "astray" => \A c, d \in Consoles :
    Between(c) /\ Between(d) /\ con[c].tick = con[d].tick => con[c].s = con[d].s

(* The players of the room play, whatever they press while the prompt asks *)
(* for their number, and whatever goes wrong.                              *)
CountIsRoom ==
  \A c \in Consoles : con[c].s.tbl = "live" => con[c].s.pcount = NetCount

(* The virtual timers keep the pace of the EXEC's table: entry 2 rolls on  *)
(* every third pass from its arming, the others on each.                   *)
StockPace ==
  \A c \in Consoles : \A n \in 1 .. 3 :
    con[c].stock[n] = IF n \notin con[c].s.arm THEN 0
                      ELSE IF n = 2 THEN con[c].s.cnt2 ELSE Interval[n]

(* The prompt goes away without anybody's help.                            *)
PromptAnswered ==
  [](fault = "never") => \A c \in Consoles : <>(con[c].s.tbl # "prompt" /\ con[c].tick > 0)

(* What hook.asm says of the polled pair: it is fed from the controlling   *)
(* seat's ring, so no other seat takes the stroke.                         *)
OnlyGolferUp ==
  fault = "never" => \A c \in Consoles :
    Between(c) /\ con[c].s.ball = "flies" /\ con[c].seat # Nobody => con[c].swung = con[c].seat
=============================================================================
