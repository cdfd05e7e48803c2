------------------------------- MODULE Resync -------------------------------
(***************************************************************************)
(* Desync detection and recovery (src/netcode/resync.asm) inside the       *)
(* lockstep pass (src/netcode/lockstep.asm): CRC reports, RESYNC_REQ, the  *)
(* host's push of its state image, HOLD and the common re-baseline.        *)
(*                                                                         *)
(* Lockstep models the input rings to the byte; here a page is the set of  *)
(* inputs stored in it, and a frame reaches the queues of all other        *)
(* consoles in the step that sends it: the relay handles one frame at a    *)
(* time, so this step stands for the moment it does, and the order in      *)
(* which consoles send is free.                                            *)
(*                                                                         *)
(* The game state is what the state image carries, cut into the chunks of  *)
(* the push.  All that is kept of a chunk is where it stems from: what     *)
(* stems from the same push and went through the same ticks on the same    *)
(* inputs is equal.  The checksum covers some of the chunks only: BACKTAB, *)
(* the object table and the last cells of the image are pushed but not     *)
(* summed.  A sum is the parts it was taken of: no two states that differ  *)
(* in a summed part collide.                                               *)
(*                                                                         *)
(* Nobody looks at what NET_WRITE returns: an INPUT or a part of a push    *)
(* whose write fails is lost.                                              *)
(***************************************************************************)
EXTENDS Integers, Sequences, FiniteSets

CONSTANTS
  Seats, Host,   \* the seats of the room; Host is seat 0
  D,             \* NET_DELAY
  Margin,        \* ticks a push skips: R = T + Margin (16)
  Period,        \* ticks between two CRC reports (64)
  CrcSlots,      \* records OWN_CRC holds (TICK_LO has four multiples of 64)
  K,             \* chunks of a push; the last one is short
  Summed,        \* the chunks that hold what LS_CKSUM sums
  PendMax,       \* RS_PEND_MAX
  MaxTick,       \* bound: no pass starts at this tick
  StrayBefore,   \* bound: something goes wrong before this tick only
  MaxPush,       \* bound: pushes of a behaviour
  MaxCut         \* bound: pushes that lose a write, one each

ASSUME RoomAssumption  == Host \in Seats
ASSUME ParamAssumption == /\ {D, MaxTick, StrayBefore, MaxPush, MaxCut} \subseteq Nat
                          /\ {Margin, Period, CrcSlots, K, PendMax} \subseteq Nat \ {0}
                          /\ Summed \subseteq 1 .. K

VARIABLES
  pc,       \* where each console is in LS_PASS
  tick,     \* TICK_HI:TICK_LO
  wm,       \* SEAT_WM
  page,     \* SEAT_RING: the inputs console c has stored of seat s
  dropped,  \* NET_DROPPED
  hold,     \* RESYNC_HOLD
  resume,   \* RS_R, and which push it belongs to
  pend,     \* RS_PEND
  ptmo,     \* RS_PTMO of the host
  pos,      \* what RS_PUSH writes next: 0 BEGIN, 1..K a chunk, K+1 END
  rec,      \* OWN_CRC
  game,     \* the game state, chunk by chunk
  epoch,    \* the push each console last re-baselined on, 0 at first
  down,     \* frames on the way to each console
  strayed,  \* something has gone wrong: a game state, or a lost INPUT
  cut       \* the pushes a write of which has failed

sim  == <<game, epoch, strayed>>
rsv  == <<hold, resume, pend, ptmo, pos, rec>>
vars == <<pc, tick, wm, page, dropped, rsv, sim, down, cut>>

Chunks == 1 .. K
Pushed(n) == <<"push", n>>          \* as the host had it at push n
Own(c)    == <<"own", c>>           \* as nobody but console c has it
Whole(x)  == [i \in Chunks |-> x]
Sum(g)    == [i \in Summed |-> g[i]]

(* Definitions whose names start with Bug_ are mistakes this code could      *)
(* plausibly hold (some of them it has held); no action uses them.         *)

(* RS_CLR_CRC: the fill value matches no tick.                             *)
Bug_ZeroFill == {[tick |-> 0, sum |-> <<>>]}
NoRecords    == {}

Input(s, t, e)  == [type |-> "INPUT", seat |-> s, tick |-> t, epoch |-> e]
Crc(t, sum)     == [type |-> "CRC", tick |-> t, sum |-> sum]
Req             == [type |-> "RESYNC_REQ"]
Begin(r)        == [type |-> "BEGIN", resume |-> r]
Chunk(i, n)     == [type |-> "CHUNK", i |-> i, push |-> n]
End             == [type |-> "END"]

-----------------------------------------------------------------------------
Init ==
  /\ pc      = [c \in Seats |-> "entry"]
  /\ tick    = [c \in Seats |-> 0]
  /\ wm      = [c \in Seats |-> [s \in Seats |-> D - 1]]
  /\ page    = [c \in Seats |-> [s \in Seats |-> {}]]
  /\ dropped = [c \in Seats |-> FALSE]
  /\ hold    = [c \in Seats |-> FALSE]
  /\ resume  = [c \in Seats |-> [tick |-> 0, push |-> 0]]
  /\ pend    = [c \in Seats |-> FALSE]
  /\ ptmo    = 0
  /\ pos     = 0
  /\ rec     = [c \in Seats |-> NoRecords]
  /\ game    = [c \in Seats |-> Whole(Pushed(0))]
  /\ epoch   = [c \in Seats |-> 0]
  /\ down    = [c \in Seats |-> <<>>]
  /\ strayed = FALSE
  /\ cut     = {}

GateOpen(c) == dropped[c] \/ \A s \in Seats \ {c} : wm[c][s] >= tick[c]
AtGate(c)   == pc[c] \in {"gate", "pump"}

(* A frame on its way to everyone else; a parked console reads no more.    *)
Sent(c, f) ==
  [p \in Seats |-> IF p = c \/ pc[p] = "parked" THEN down[p] ELSE Append(down[p], f)]

(* The tick a push at tick t resumes at.                                   *)
Bug_ResumeSoon(t) == t + D
ResumeTick(t)     == t + Margin

Bug_KeepAll(r, t, sum) == r \cup {[tick |-> t, sum |-> sum]}

(* The record of tick t replaces the one in its slot of the ring.          *)
Recorded(r, t, sum) ==
  {x \in r : (x.tick \div Period) % CrcSlots # (t \div Period) % CrcSlots}
    \cup {[tick |-> t, sum |-> sum]}

-----------------------------------------------------------------------------
(* RS_ENTER_HOLD, with the resume tick its two callers set.                *)
EnterHold(c, r) ==
  /\ hold'   = [hold EXCEPT ![c] = TRUE]
  /\ resume' = [resume EXCEPT ![c] = r]
  /\ rec'    = [rec EXCEPT ![c] = NoRecords]

(* RS_REBASE: tick R, idle rings, watermarks R+d-1, nothing pending.       *)
Rebase(c) ==
  LET r == resume[c] IN
  /\ tick'  = [tick EXCEPT ![c] = r.tick]
  /\ page'  = [page EXCEPT ![c] = [s \in Seats |-> {}]]
  /\ wm'    = [wm EXCEPT ![c] = [s \in Seats |-> r.tick + D - 1]]
  /\ rec'   = [rec EXCEPT ![c] = NoRecords]
  /\ hold'  = [hold EXCEPT ![c] = FALSE]
  /\ pend'  = [pend EXCEPT ![c] = FALSE]
  /\ ptmo'  = IF c = Host THEN 0 ELSE ptmo
  /\ epoch' = [epoch EXCEPT ![c] = r.push]
  /\ UNCHANGED resume

(* A seat's own INPUT never comes back, and old ones are dropped.          *)
OnInput(c, f) ==
  /\ f.type = "INPUT"
  /\ IF f.tick > wm[c][f.seat]
     THEN /\ page' = [page EXCEPT ![c][f.seat] = @ \cup {<<f.tick, f.epoch>>}]
          /\ wm'   = [wm EXCEPT ![c][f.seat] = f.tick]
     ELSE UNCHANGED <<page, wm>>
  /\ UNCHANGED <<tick, rsv, sim>>

(* A peer's CRC disagrees with our record of the same tick: the resync is  *)
(* wanted, and a guest asks the host for it.                               *)
Wanted(c, f) ==
  ~hold[c] /\ ~pend[c] /\ \E x \in rec[c] : x.tick = f.tick /\ x.sum # f.sum
OnCrc(c, f) ==
  /\ f.type = "CRC"
  /\ IF Wanted(c, f)
     THEN /\ pend' = [pend EXCEPT ![c] = TRUE]
          /\ ptmo' = IF c = Host THEN 0 ELSE ptmo
     ELSE UNCHANGED <<pend, ptmo>>
  /\ UNCHANGED <<tick, wm, page, hold, resume, pos, rec, sim>>

(* The test for the host's seat has its branch the wrong way round.        *)
Bug_OnReqGuests(c, f) ==
  /\ f.type = "RESYNC_REQ"
  /\ IF c # Host /\ ~hold[c] /\ ~pend[c]
     THEN pend' = [pend EXCEPT ![c] = TRUE] /\ UNCHANGED ptmo
     ELSE UNCHANGED <<pend, ptmo>>
  /\ UNCHANGED <<tick, wm, page, hold, resume, pos, rec, sim>>

OnReq(c, f) ==
  /\ f.type = "RESYNC_REQ"
  /\ IF c = Host /\ ~hold[c] /\ ~pend[c]
     THEN pend' = [pend EXCEPT ![c] = TRUE] /\ ptmo' = 0
     ELSE UNCHANGED <<pend, ptmo>>
  /\ UNCHANGED <<tick, wm, page, hold, resume, pos, rec, sim>>

OnBegin(c, f) ==
  /\ f.type = "BEGIN"
  /\ EnterHold(c, f.resume)
  /\ UNCHANGED <<tick, wm, page, pend, ptmo, pos, sim>>

(* The position bound of the applier misses the tail of the image.         *)
Bug_TailRefused(c, f) ==
  /\ f.type = "CHUNK"
  /\ game' = IF hold[c] /\ f.i < K THEN [game EXCEPT ![c][f.i] = Pushed(f.push)] ELSE game
  /\ UNCHANGED <<tick, wm, page, rsv, epoch, strayed>>

(* A chunk is applied where it arrives, inside a hold only.                *)
OnChunk(c, f) ==
  /\ f.type = "CHUNK"
  /\ game' = IF hold[c] THEN [game EXCEPT ![c][f.i] = Pushed(f.push)] ELSE game
  /\ UNCHANGED <<tick, wm, page, rsv, epoch, strayed>>

OnEnd(c, f) ==
  /\ f.type = "END"
  /\ IF hold[c] THEN Rebase(c) ELSE UNCHANGED <<tick, wm, page, hold, resume, pend, ptmo, rec, epoch>>
  /\ UNCHANGED <<pos, game, strayed>>

(* One frame of a pump.  The pass pumps once at its top, once per round    *)
(* while the gate is shut, and once when a hold keeps it from starting.  A *)
(* pump reads 64 bytes, less than a full chunk frame, so a full chunk is   *)
(* the first frame of its pump or is left for the next.                    *)
Pumping(c) ==
  \/ pc[c] \in {"top", "pump"}
  \/ pc[c] = "gate" /\ ~GateOpen(c)
  \/ pc[c] = "entry" /\ hold[c] /\ ~dropped[c]
OwnPump(c, f) ==
  f.type = "CHUNK" /\ f.i < K =>
    (AtGate(c) => ~GateOpen(c)) /\ (pc[c] = "top" => ~hold[c])

Recv(c) ==
  LET f    == Head(down[c])
      asks == f.type = "CRC" /\ c # Host /\ Wanted(c, f)
  IN
  /\ down[c] # <<>> /\ Pumping(c) /\ OwnPump(c, f)
  /\ pc'   = [pc EXCEPT ![c] = IF AtGate(c) THEN "pump" ELSE @]
  /\ down' = [IF asks THEN Sent(c, Req) ELSE down EXCEPT ![c] = Tail(@)]
  /\ \/ OnInput(c, f) \/ OnCrc(c, f) \/ OnReq(c, f)
     \/ OnBegin(c, f) \/ OnChunk(c, f) \/ OnEnd(c, f)
  /\ UNCHANGED <<dropped, cut>>

-----------------------------------------------------------------------------
(* The pass does not look at RESYNC_HOLD.                                  *)
Bug_PassInHold(c) ==
  /\ pc[c] = "entry" /\ ~dropped[c]
  /\ tick[c] < MaxTick \/ epoch[c] < epoch[Host]
  /\ pc' = [pc EXCEPT ![c] = "top"]
  /\ UNCHANGED <<tick, wm, page, dropped, rsv, sim, down, cut>>

(* LS_PASS.  A pass that starts will run a tick; a hold keeps it out.  The *)
(* bound on ticks does not keep a guest from a push that is under way.     *)
EnterPass(c) ==
  /\ pc[c] = "entry" /\ ~dropped[c] /\ ~hold[c]
  /\ tick[c] < MaxTick \/ epoch[c] < epoch[Host]
  /\ pc' = [pc EXCEPT ![c] = "top"]
  /\ UNCHANGED <<tick, wm, page, dropped, rsv, sim, down, cut>>

Park(c) ==
  /\ pc[c] = "entry" /\ dropped[c]
  /\ pc'   = [pc EXCEPT ![c] = "parked"]
  /\ down' = [down EXCEPT ![c] = <<>>]
  /\ UNCHANGED <<tick, wm, page, dropped, rsv, sim, cut>>

(* What goes wrong does so once in a behaviour, before any push.           *)
Fault(c) ==
  /\ ~strayed /\ epoch[c] = 0 /\ ~hold[c] /\ ~dropped[c] /\ tick[c] < StrayBefore
  /\ strayed' = TRUE

(* The input for T+d is stored and sent; whether NET_WRITE succeeds is not *)
(* looked at, and what a timeout or a refusal loses is not sent again.     *)
Capture(c) ==
  LET t == tick[c] + D IN
  /\ pc[c] = "top"
  /\ pc'   = [pc EXCEPT ![c] = "gate"]
  /\ page' = [page EXCEPT ![c][c] = @ \cup {<<t, epoch[c]>>}]
  /\ \/ down' = Sent(c, Input(c, t, epoch[c])) /\ UNCHANGED strayed
     \/ UNCHANGED down /\ Fault(c)
  /\ UNCHANGED <<tick, wm, dropped, rsv, game, epoch, cut>>

(* The end of a pass on the host, RS_PENDING: push now, which it does when *)
(* the game says the ball is dead or the wait is over, or keep waiting.    *)
StartPush(c) ==
  /\ c = Host /\ pend[c] /\ ~hold[c] /\ epoch[c] < MaxPush
  /\ pc'   = [pc EXCEPT ![c] = "push"]
  /\ pos'  = 0
  /\ ptmo' = ptmo + 1
  /\ EnterHold(c, [tick |-> ResumeTick(tick[c] + 1), push |-> epoch[c] + 1])

KeepWaiting(c, r) ==
  /\ pc'   = [pc EXCEPT ![c] = "entry"]
  /\ IF c = Host /\ pend[c] /\ ~hold[c]
     THEN /\ ptmo + 1 < PendMax \/ epoch[c] = MaxPush
          /\ ptmo' = IF epoch[c] = MaxPush THEN ptmo ELSE ptmo + 1
     ELSE UNCHANGED ptmo
  /\ rec'  = [rec EXCEPT ![c] = r]
  /\ UNCHANGED <<hold, resume, pos>>

(* Tick T is run without an input that another console has: one is lost,   *)
(* or the pages have been cleared in giving up.  The first d ticks are idle *)
(* for all; so is, after a re-baseline inside the gate, the one tick that  *)
(* no pass captures for.                                                   *)
Hole(c) ==
  \/ dropped[c]
  \/ epoch[c] = 0 /\ tick[c] >= D /\ \E s \in Seats : \A x \in page[c][s] : x[1] # tick[c]

(* The states tick T may leave: from the right state and its inputs the    *)
(* right one; from anything else, what is wrong may stay as it is, spread  *)
(* to all parts or be written over.  Nobody compares with a console that   *)
(* has given up.                                                           *)
Right(c) == Whole(Pushed(epoch[c]))
Ran(c) ==
  IF dropped[c] THEN {Whole(Own(c))}
  ELSE IF game[c] = Right(c) /\ ~Hole(c) THEN {Right(c)}
  ELSE {game[c], Whole(Own(c)), Right(c)}

(* The gate is open: the tick, every Period ticks the CRC report, T+1.     *)
RunTick(c) ==
  LET t   == tick[c]
      due == t % Period = 0
  IN
  /\ AtGate(c) /\ GateOpen(c)
  /\ \E after \in Ran(c) :
       /\ game' = [game EXCEPT ![c] = after]
       /\ down' = IF due THEN Sent(c, Crc(t, Sum(after))) ELSE down
       /\ \/ StartPush(c)
          \/ KeepWaiting(c, IF due THEN Recorded(rec[c], t, Sum(after)) ELSE rec[c])
  /\ tick' = [tick EXCEPT ![c] = t + 1]
  /\ UNCHANGED <<wm, page, dropped, pend, epoch, strayed, cut>>

(* One write of RS_PUSH and what becomes of it: its result is not looked at. *)
Written(c, f) ==
  \/ down' = Sent(c, f) /\ UNCHANGED cut
  \/ /\ Cardinality(cut) < MaxCut
     /\ resume[c].push \notin cut
     /\ cut' = cut \cup {resume[c].push}
     /\ UNCHANGED down

PushWrite(c) ==
  /\ pc[c] = "push" /\ pos <= K
  /\ Written(c, IF pos = 0 THEN Begin(resume[c]) ELSE Chunk(pos, resume[c].push))
  /\ pos'  = pos + 1
  /\ UNCHANGED <<pc, tick, wm, page, dropped, hold, resume, pend, ptmo, rec, sim>>

(* The END is followed by our own re-baseline.                             *)
PushEnd(c) ==
  /\ pc[c] = "push" /\ pos = K + 1
  /\ Written(c, End)
  /\ pc'   = [pc EXCEPT ![c] = "entry"]
  /\ Rebase(c)
  /\ game' = [game EXCEPT ![c] = Whole(Pushed(resume[c].push))]
  /\ UNCHANGED <<dropped, pos, strayed>>

(* LS_TIMEOUT rounds at a shut gate, or RS_HOLD_TMO rounds in a hold.  The *)
(* watermarks LS_IDLE_RMT pins ahead are read no more and stay.            *)
GiveUp(c) ==
  /\ (AtGate(c) /\ ~GateOpen(c)) \/ (pc[c] = "entry" /\ hold[c] /\ ~dropped[c])
  /\ dropped' = [dropped EXCEPT ![c] = TRUE]
  /\ hold'    = [hold EXCEPT ![c] = IF pc[c] = "entry" THEN FALSE ELSE @]
  /\ page'    = [page EXCEPT ![c] = [s \in Seats |-> {}]]
  /\ UNCHANGED <<pc, tick, wm, resume, pend, ptmo, pos, rec, sim, down, cut>>

(* A part of the game state of a console goes wrong (PORTING.md section 5  *)
(* lists the ways it has).                                                 *)
Stray(c) ==
  /\ pc[c] = "entry" /\ Fault(c)
  /\ \E i \in Chunks : game' = [game EXCEPT ![c][i] = Own(c)]
  /\ UNCHANGED <<pc, tick, wm, page, dropped, rsv, epoch, down, cut>>

Next ==
  \E c \in Seats :
    \/ EnterPass(c) \/ Park(c) \/ Recv(c) \/ Capture(c) \/ RunTick(c)
    \/ PushWrite(c) \/ PushEnd(c) \/ GiveUp(c) \/ Stray(c)

Spec == Init /\ [][Next]_vars
EngineFairness ==
  \A c \in Seats :
    /\ WF_vars(EnterPass(c)) /\ WF_vars(Park(c)) /\ WF_vars(Recv(c))
    /\ WF_vars(Capture(c)) /\ WF_vars(RunTick(c))
    /\ WF_vars(PushWrite(c)) /\ WF_vars(PushEnd(c))

LiveSpec == Spec /\ EngineFairness

-----------------------------------------------------------------------------
(* Properties                                                              *)

Frame ==
  [type : {"INPUT"}, seat : Seats, tick : Nat, epoch : Nat]
    \cup [type : {"RESYNC_REQ", "END"}]
    \cup [type : {"BEGIN"}, resume : [tick : Nat, push : Nat]]
    \cup [type : {"CHUNK"}, i : Chunks, push : Nat]

Tag == ({"push"} \X Nat) \cup ({"own"} \X Seats)

(* The state is well typed; a CRC frame carries the parts that are summed. *)
TypeOK ==
  /\ pc \in [Seats -> {"entry", "top", "gate", "pump", "push", "parked"}]
  /\ tick \in [Seats -> Nat] /\ wm \in [Seats -> [Seats -> Int]]
  /\ \A c, s \in Seats : page[c][s] \subseteq Nat \X Nat
  /\ {dropped, hold, pend} \subseteq [Seats -> BOOLEAN]
  /\ resume \in [Seats -> [tick : Nat, push : Nat]]
  /\ ptmo \in 0 .. PendMax /\ pos \in 0 .. K + 1
  /\ \A c \in Seats : Cardinality(rec[c]) <= CrcSlots
  /\ epoch \in [Seats -> 0 .. MaxPush] /\ strayed \in BOOLEAN
  /\ game \in [Seats -> [Chunks -> Tag]]
  /\ cut \subseteq Nat /\ Cardinality(cut) <= MaxCut
  /\ \A c \in Seats : \A p \in 1 .. Len(down[c]) :
       \/ down[c][p] \in Frame
       \/ down[c][p].type = "CRC" /\ down[c][p].sum \in [Summed -> Tag]

(* A console out of its hold has exactly the state the host pushed: every  *)
(* chunk of the one image and nothing of its own, nothing of an earlier    *)
(* push that came in parts ("both sides resume from identical state",      *)
(* resync.asm:20); only a push that lost a write of its own is excused.     *)
CutShort(n) == n \in cut
Repaired ==
  \A c \in Seats :
    epoch[c] > 0 /\ ~hold[c] /\ ~dropped[c] /\ ~CutShort(epoch[c]) => game[c] = Right(c)

(* No tick runs on a game state with parts of an image the console has not *)
(* re-baselined on ("The sim is frozen during HOLD", resync.asm:18), as     *)
(* long as no push has lost a write: a guest whose END is lost, or that     *)
(* gets to its gate with less than a whole push to read, ticks on parts.    *)
Torn(c) == \E i \in Chunks : game[c][i][1] = "push" /\ game[c][i][2] > epoch[c]
NoTornTick ==
  [][\A c \in Seats : RunTick(c) /\ ~dropped[c] /\ cut = {} => ~Torn(c)]_vars

(* Consoles on the same side of a push hold the same inputs of each other  *)
(* for the ticks they have still to run: an INPUT from before the push is  *)
(* never taken for one of the ticks after it, and nothing of what a lost   *)
(* INPUT left out of step outlives it.                                     *)
PagesAgree ==
  \A c, s \in Seats :
    epoch[c] = epoch[s] /\ ~dropped[c] /\ ~dropped[s] /\ (strayed => epoch[c] > 0) =>
      \A t \in tick[c] .. wm[c][s] :
        {x \in page[c][s] : x[1] = t} = {x \in page[s][s] : x[1] = t}

(* As long as nothing has gone wrong no console wants a resync, however    *)
(* far apart the reports and the records of a tick are taken.  (One that   *)
(* has given up runs a last tick on idle inputs, and may report it.)       *)
NoFalseAlarm ==
  ~strayed /\ (\A c \in Seats : ~dropped[c]) => \A c \in Seats : ~pend[c] /\ ~hold[c]

(* When the records two consoles have of a tick differ, early enough for   *)
(* the bound on ticks, the host pushes, whoever noticed first, and all     *)
(* consoles are at some time on the state of one push (a late request can  *)
(* bring a second), unless a write of a push failed.  What no sum covers   *)
(* may differ for ever: nothing is said of it.                             *)
InTime(t) == t + D + 1 + PendMax < MaxTick
Differ ==
  \E a, b \in Seats : \E x \in rec[a], y \in rec[b] :
    x.tick = y.tick /\ x.sum # y.sum /\ InTime(x.tick)
Recovers ==
  [](\A c \in Seats : ~dropped[c]) =>
    (epoch[Host] = 0 /\ Differ) ~>
      \E n \in 1 .. MaxPush :
        CutShort(n) \/ \A c \in Seats : epoch[c] = n /\ game[c] = Right(c)
=============================================================================
