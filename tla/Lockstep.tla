------------------------------ MODULE Lockstep ------------------------------
(***************************************************************************)
(* The delay-lockstep engine of one match: the consoles' LS_PASS           *)
(* (src/netcode/lockstep.asm) with the INPUT / PEER_LEFT half of           *)
(* SES_ONFRAME (src/netcode/session.asm), joined by the relay's in-match   *)
(* fan-out (server/intv_relay_server.py).                                  *)
(*                                                                         *)
(* The transport is what the code relies on: one TCP stream per console    *)
(* and direction, each a FIFO of whole frames, and a single-threaded relay *)
(* that copies each frame to every other member of the room.  What the     *)
(* code does not rely on is its own writes: LS_PASS does not look at what  *)
(* NET_WRITE returns, and an INPUT it fails to hand over is not sent again. *)
(*                                                                         *)
(* An input is named by the tick it was captured for; Idle is what         *)
(* LS_RING_INIT writes.  Ticks are kept as the integers they count, and    *)
(* every comparison and ring index the code makes on them goes through     *)
(* the width of the cells they live in (Behind, Newer, Slot).              *)
(***************************************************************************)
EXTENDS Integers, Sequences, FiniteSets

CONSTANTS
  Seats,    \* the seats of the room, one console each
  D,        \* NET_DELAY, from the START frame
  BYTE,     \* values of a byte: the cells of a ring page (256 on the console)
  MaxTick,  \* bound: no console starts a pass at this tick
  MaxLost,  \* bound: INPUT writes that fail in a behaviour
  LossFrom  \* bound: no write fails before this tick

ASSUME SeatsAssumption == Seats # {}
ASSUME ByteAssumption  == BYTE \in Nat /\ BYTE >= 4 /\ BYTE % 2 = 0
ASSUME DelayAssumption == D \in 0 .. BYTE - 1
ASSUME TickAssumption  == {MaxTick, MaxLost, LossFrom} \subseteq Nat

WORD == BYTE * BYTE        \* a tick and a watermark are two byte cells

VARIABLES
  pc,       \* where each console is in LS_PASS
  tick,     \* TICK_HI:TICK_LO
  wm,       \* SEAT_WM: wm[c][s] is the last tick of seat s console c stored
  ring,     \* SEAT_RING / SEAT_KP: ring[c][s] is a page of BYTE slots
  dropped,  \* NET_DROPPED
  used,     \* what the last tick's replay and shadow read, per seat
  up,       \* frames from each console to the relay
  down,     \* frames from the relay to each console
  room,     \* members of the started room on the relay, {} once it ended
  lost      \* seat and tick of every INPUT whose write failed

console == <<pc, tick, wm, ring, dropped, used>>
vars    == <<pc, tick, wm, ring, dropped, used, up, down, room, lost>>

Idle == -1

(* Definitions whose names start with Bug_ are mistakes this code could      *)
(* plausibly hold; no action uses them.                                     *)

Captured(t) == IF t < D THEN Idle ELSE t
Bug_HalfPage(t) == t % (BYTE \div 2)
Slot(t)     == t % BYTE
Behind(a, b) == (a - b) % WORD >= WORD \div 2
Newer(a, b)  == (a - b) % WORD \in 1 .. (WORD \div 2) - 1

IdleRings  == [s \in Seats |-> [i \in 0 .. BYTE - 1 |-> Idle]]
Peers(c)   == Seats \ {c}

InputFrame(s, t) == [type |-> "INPUT", seat |-> s, tick |-> t]
Bug_NoSeat(s)    == [type |-> "PEER_LEFT"]
LeftFrame(s)     == [type |-> "PEER_LEFT", seat |-> s]

-----------------------------------------------------------------------------
(* Every console has handled START.  One that has not looks the same as    *)
(* one whose first pass is still to come: START is queued to each member   *)
(* before anything else of the match, and both leave `down' untouched.     *)
Init ==
  /\ pc      = [c \in Seats |-> "entry"]
  /\ tick    = [c \in Seats |-> 0]
  /\ wm      = [c \in Seats |-> [s \in Seats |-> (D - 1) % BYTE]]
  /\ ring    = [c \in Seats |-> IdleRings]
  /\ dropped = [c \in Seats |-> FALSE]
  /\ used    = [c \in Seats |-> [s \in Seats |-> [now |-> Idle, before |-> Idle]]]
  /\ up      = [c \in Seats |-> <<>>]
  /\ down    = [c \in Seats |-> <<>>]
  /\ room    = Seats
  /\ lost    = {}

Bug_GateOneShort(c) ==
  dropped[c] \/ \A s \in Peers(c) : ~Behind(wm[c][s], tick[c] - 1)
Bug_GateOwnSeat(c) == dropped[c] \/ \A s \in Seats : ~Behind(wm[c][s], tick[c])

(* The gate: the match is over, or every remote watermark has reached T.   *)
GateOpen(c) == dropped[c] \/ \A s \in Peers(c) : ~Behind(wm[c][s], tick[c])
AtGate(c)   == pc[c] \in {"gate", "pump"}

(* LS_IDLE_RMT with its callers' NET_DROPPED: every ring idle, every       *)
(* watermark a quarter of the tick range ahead.                            *)
GoIdle(c) ==
  /\ dropped' = [dropped EXCEPT ![c] = TRUE]
  /\ ring'    = [ring EXCEPT ![c] = IdleRings]
  /\ wm'      = [wm EXCEPT ![c] = [s \in Seats |-> tick[c] + WORD \div 4]]

(* LS_PASS is entered: a pass that will pump and run a tick.               *)
EnterPass(c) ==
  /\ pc[c] = "entry" /\ ~dropped[c]
  /\ tick[c] < MaxTick
  /\ pc' = [pc EXCEPT ![c] = "top"]
  /\ UNCHANGED <<tick, wm, ring, dropped, used, up, down, room, lost>>

(* LS_PASS is entered with NET_DROPPED set: peer-left screen, for good.    *)
Park(c) ==
  /\ pc[c] = "entry" /\ dropped[c]
  /\ pc' = [pc EXCEPT ![c] = "parked"]
  /\ UNCHANGED <<tick, wm, ring, dropped, used, up, down, room, lost>>

(* An INPUT frame newer than its seat's watermark is stored and moves it.  *)
OnInput(c, f) ==
  /\ f.type = "INPUT"
  /\ IF f.seat # c /\ Newer(f.tick, wm[c][f.seat])
     THEN /\ ring' = [ring EXCEPT ![c][f.seat][Slot(f.tick)] = f.tick]
          /\ wm'   = [wm EXCEPT ![c][f.seat] = f.tick]
     ELSE UNCHANGED <<ring, wm>>
  /\ UNCHANGED dropped

OnLeft(c, f) == f.type = "PEER_LEFT" /\ GoIdle(c)

(* SES_PUMP hands one frame to SES_ONFRAME.  The console pumps at the top  *)
(* of the pass and once per round while the gate holds it; a pump takes    *)
(* the frames that have arrived, so it may go on after the gate is open.   *)
Recv(c) ==
  /\ down[c] # <<>>
  /\ pc[c] \in {"top", "pump"} \/ (pc[c] = "gate" /\ ~GateOpen(c))
  /\ pc'   = [pc EXCEPT ![c] = IF @ = "top" THEN "top" ELSE "pump"]
  /\ down' = [down EXCEPT ![c] = Tail(@)]
  /\ OnInput(c, Head(down[c])) \/ OnLeft(c, Head(down[c]))
  /\ UNCHANGED <<tick, used, up, room, lost>>

(* The tag is computed after the tick counter moved.                       *)
Bug_CaptureLate(c) ==
  LET t == tick[c] + D + 1 IN
  /\ pc[c] = "top"
  /\ pc'   = [pc EXCEPT ![c] = "gate"]
  /\ ring' = [ring EXCEPT ![c][c][Slot(t)] = t]
  /\ up'   = [up EXCEPT ![c] = Append(@, InputFrame(c, t))]
  /\ UNCHANGED <<tick, wm, dropped, used, down, room, lost>>

(* The pump is over: capture the controller for T+d, store it in our own   *)
(* pages and send it.                                                      *)
Capture(c) ==
  LET t == tick[c] + D IN
  /\ pc[c] = "top"
  /\ pc'   = [pc EXCEPT ![c] = "gate"]
  /\ ring' = [ring EXCEPT ![c][c][Slot(t)] = t]
  /\ up'   = [up EXCEPT ![c] = Append(@, InputFrame(c, t))]
  /\ UNCHANGED <<tick, wm, dropped, used, down, room, lost>>

(* The same with a NET_WRITE that fails, by a timeout or a refusal of the  *)
(* adapter: the result is not looked at.                                   *)
CaptureLost(c) ==
  LET t == tick[c] + D IN
  /\ pc[c] = "top" /\ tick[c] >= LossFrom /\ Cardinality(lost) < MaxLost
  /\ pc'   = [pc EXCEPT ![c] = "gate"]
  /\ ring' = [ring EXCEPT ![c][c][Slot(t)] = t]
  /\ lost' = lost \cup {<<c, t>>}
  /\ UNCHANGED <<tick, wm, dropped, used, up, down, room>>

(* The gate is open: replay from slots T and T-1, run the tick, T+1.       *)
RunTick(c) ==
  /\ AtGate(c) /\ GateOpen(c)
  /\ pc'   = [pc EXCEPT ![c] = "entry"]
  /\ used' = [used EXCEPT ![c] =
                [s \in Seats |-> [now    |-> ring[c][s][Slot(tick[c])],
                                  before |-> ring[c][s][Slot(tick[c] - 1)]]]]
  /\ tick' = [tick EXCEPT ![c] = @ + 1]
  /\ UNCHANGED <<wm, ring, dropped, up, down, room, lost>>

(* LS_WAITC is counted only in rounds that pumped a frame.                 *)
Bug_TimeoutIfTraffic(c) ==
  /\ pc[c] = "pump" /\ ~GateOpen(c)
  /\ GoIdle(c)
  /\ UNCHANGED <<pc, tick, used, up, down, room, lost>>

(* LS_TIMEOUT pump rounds at a closed gate: give the match up.             *)
Timeout(c) ==
  /\ AtGate(c) /\ ~GateOpen(c)
  /\ GoIdle(c)
  /\ UNCHANGED <<pc, tick, used, up, down, room, lost>>

-----------------------------------------------------------------------------
(* The relay handles one frame of a member of the room.                    *)
Forward(c) ==
  /\ c \in room /\ up[c] # <<>>
  /\ up'   = [up EXCEPT ![c] = Tail(@)]
  /\ down' = [m \in Seats |-> IF m \in room \ {c} THEN Append(down[m], Head(up[c]))
                                                  ELSE down[m]]
  /\ UNCHANGED <<console, room, lost>>

(* A frame of a console whose match has ended is ignored.                  *)
Discard(c) ==
  /\ c \notin room /\ up[c] # <<>>
  /\ up' = [up EXCEPT ![c] = Tail(@)]
  /\ UNCHANGED <<console, down, room, lost>>

(* The relay loses a member: the match ends for everyone.                  *)
RelayDrop(c) ==
  /\ c \in room
  /\ room' = {}
  /\ up'   = [up EXCEPT ![c] = <<>>]
  /\ down' = [m \in Seats |-> IF m \in room \ {c} THEN Append(down[m], LeftFrame(c))
                                                  ELSE down[m]]
  /\ UNCHANGED <<console, lost>>

Next ==
  \E c \in Seats :
    \/ EnterPass(c) \/ Park(c) \/ Recv(c) \/ Capture(c) \/ CaptureLost(c)
    \/ RunTick(c) \/ Timeout(c) \/ Forward(c) \/ Discard(c) \/ RelayDrop(c)

Spec == Init /\ [][Next]_vars

(* The console's CPU never stops: every step it has open is taken.  TCP     *)
(* and the relay's loop deliver what is queued.  Nothing makes a member     *)
(* leave, and nothing makes a write fail.                                   *)
EngineFairness ==
  \A c \in Seats :
    /\ WF_vars(EnterPass(c)) /\ WF_vars(Park(c)) /\ WF_vars(Recv(c))
    /\ WF_vars(Capture(c)) /\ WF_vars(RunTick(c))
    /\ WF_vars(Forward(c)) /\ WF_vars(Discard(c))

(* LS_WAITC counts every round at a shut gate up to LS_TIMEOUT.             *)
TimeoutFairness == \A c \in Seats : WF_vars(Timeout(c))

LiveSpec  == Spec /\ EngineFairness

-----------------------------------------------------------------------------
(* Properties                                                              *)

Frame == [type : {"INPUT"}, seat : Seats, tick : Nat]
           \cup [type : {"PEER_LEFT"}, seat : Seats]

(* The state has the types the modules that build on this one rely on.     *)
TypeOK ==
  /\ pc \in [Seats -> {"entry", "top", "gate", "pump", "parked"}]
  /\ tick \in [Seats -> Nat]
  /\ wm \in [Seats -> [Seats -> Nat]]
  /\ ring \in [Seats -> [Seats -> [0 .. BYTE - 1 -> Int]]]
  /\ dropped \in [Seats -> BOOLEAN]
  /\ used \in [Seats -> [Seats -> [now : Int, before : Int]]]
  /\ up \in [Seats -> Seq(Frame)]
  /\ down \in [Seats -> Seq(Frame)]
  /\ room \in SUBSET Seats
  /\ lost \subseteq Seats \X Nat

(* Determinism of the replay: what a console that is still in the match    *)
(* fed its last tick T, for every seat, is what that seat captured for T   *)
(* (idle before d), and its edge reference is what it captured for T-1.    *)
(* All consoles therefore ran each tick on the same inputs, whatever the   *)
(* 256-slot pages and 16-bit counters were reused for in between.  An      *)
(* INPUT that was lost spoils the replay of its own tick, and the edge of   *)
(* the next, on the other consoles, and nothing else.                      *)
Replayed(c, s, t, x) == x = Captured(t) \/ (s # c /\ <<s, t>> \in lost)
InputAgreement ==
  \A c, s \in Seats :
    ~dropped[c] /\ tick[c] > 0 =>
      /\ Replayed(c, s, tick[c] - 1, used[c][s].now)
      /\ Replayed(c, s, tick[c] - 2, used[c][s].before)

(* The gate bounds the skew of two consoles that are both in the match:    *)
(* nobody is more than d+1 ticks ahead, so a frame is never further than   *)
(* 2d+1 ticks ahead of the console that stores it; a lost INPUT, which     *)
(* leaves the watermark short until the next one, lets nobody through.     *)
BoundedSkew ==
  \A c, p \in Seats : ~dropped[c] => tick[c] <= tick[p] + D + 1

(* The gates never block one another: if no timeout and no lost member     *)
(* ends the match, every console runs every tick.  A lost INPUT stalls      *)
(* nobody: the watermark steps over it with the next one (of_input).       *)
GatesProgress ==
  [](room = Seats /\ \A c \in Seats : ~dropped[c]) =>
    <>(\A c \in Seats : tick[c] = MaxTick)

(* Once one console is out, every other one leaves the match too instead   *)
(* of waiting for it forever, as long as the rounds at a shut gate are      *)
(* counted; only the bound on ticks excuses it.                             *)
OneOutAllOut ==
  TimeoutFairness =>
    \A c \in Seats :
      dropped[c] ~> \A p \in Seats : pc[p] = "parked" \/ tick[p] >= MaxTick

(* The shared timeline the consoles implement: a console coasts while the  *)
(* pass in which the match ended runs out.                                 *)
Inputs(t) == [s \in Seats |-> [now |-> Captured(t), before |-> Captured(t - 1)]]
Life == [c \in Seats |-> IF ~dropped[c] THEN "live"
                         ELSE IF pc[c] \in {"top", "gate", "pump"} THEN "coasting"
                         ELSE "gone"]
Timeline == INSTANCE SharedTimeline
              WITH Lag <- D + 1, Input <- Inputs, at <- tick, life <- Life, seen <- used

(* The engine implements the shared timeline, tick for tick, for as long   *)
(* as no INPUT is lost.                                                    *)
ImplementsTimeline ==
  Timeline!Init /\ [][lost' = {} => Timeline!Next]_<<tick, Life, used>>

(* What the delay has to satisfy for the properties above: a tick of delay *)
(* at least, and ring pages that hold the 2d+3 slots in use at once.       *)
DelayFits == D >= 1 /\ 2 * D + 2 < BYTE

-----------------------------------------------------------------------------
(* The inductive invariant of LockstepSafety, stated here so that TLC can  *)
(* check it too.  It follows a frame from its capture to the slot.         *)

Sent(s) == tick[s] + D - (IF AtGate(s) THEN 0 ELSE 1)    \* last tick captured

Ahead(s, k)     == \E p \in 1 .. Len(up[s]) : up[s][p] = InputFrame(s, k)
Coming(c, s, k) == \E p \in 1 .. Len(down[c]) : down[c][p] = InputFrame(s, k)

Before(k, q) == \A p \in 1 .. Len(q) : k < q[p].tick
InOrder(q) ==
  \A p \in 1 .. Len(q) : \A r \in 1 .. p - 1 :
    q[p].type = "INPUT" /\ q[r].type = "INPUT" /\ q[p].seat = q[r].seat
      => q[r].tick < q[p].tick

(* What waits on the way to the relay are captures, in tick order.         *)
UpInv ==
  \A s \in Seats :
    /\ \A p \in 1 .. Len(up[s]) :
         up[s][p] = InputFrame(s, up[s][p].tick) /\ up[s][p].tick <= Sent(s)
    /\ InOrder(up[s])

(* What waits on the way to a console was captured before what still waits *)
(* on the way to the relay, and is, seat by seat, in tick order; as long   *)
(* as the match lasts it goes on from the watermark, and of the ticks in    *)
(* between only those that were lost are missing.                          *)
Expected(c, s, k) ==
  /\ s # c /\ k <= Sent(s) /\ Before(k, up[s])
  /\ ~dropped[c] =>
       /\ wm[c][s] < k
       /\ \A j \in wm[c][s] + 1 .. k - 1 : Coming(c, s, j) \/ <<s, j>> \in lost

DownInv ==
  \A c \in Seats :
    /\ InOrder(down[c])
    /\ \A p \in 1 .. Len(down[c]) :
         down[c][p].type = "INPUT" => Expected(c, down[c][p].seat, down[c][p].tick)

(* A watermark never falls more than one tick behind its console, and what  *)
(* it has not reached yet is on its way or lost.                           *)
Accounted(c, s, k) == Coming(c, s, k) \/ Ahead(s, k) \/ <<s, k>> \in lost

WmInv ==
  \A c \in Seats : ~dropped[c] => \A s \in Peers(c) :
    /\ wm[c][s] >= D - 1 /\ wm[c][s] <= Sent(s)
    /\ tick[c] <= wm[c][s] + 1
    /\ Before(wm[c][s], up[s])
    /\ c \in room /\ s \in room =>
         \A k \in wm[c][s] + 1 .. Sent(s) : Accounted(c, s, k)

(* The page of a seat holds the last BYTE ticks up to its watermark, our   *)
(* own page those up to our last capture.                                  *)
Holds(page, c, s, last) ==
  \A k \in last - BYTE + 1 .. last : Replayed(c, s, k, page[Slot(k)])

RingInv ==
  \A c \in Seats : ~dropped[c] =>
    /\ Holds(ring[c][c], c, c, Sent(c))
    /\ \A s \in Peers(c) : Holds(ring[c][s], c, s, wm[c][s])

(* The gate's promise, and what it bounds: how far ahead a stored frame    *)
(* can be.                                                                 *)
SkewInv ==
  \A c, s \in Seats :
    /\ ~dropped[s] \/ pc[s] = "top" => tick[s] <= Sent(c) + 1
    /\ ~dropped[c] => Sent(s) <= tick[c] + 2 * D + 1

(* From its capture in LS_PASS through the relay and SES_ONFRAME to the    *)
(* slot a later pass replays, every input is where those who need it will  *)
(* find it in time, unless its write failed.                               *)
IInv == TypeOK /\ UpInv /\ DownInv /\ WmInv /\ RingInv /\ SkewInv /\ InputAgreement
=============
