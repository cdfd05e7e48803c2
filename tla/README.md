# FujiNet netplay for PGA Golf: a TLA+ verification project

The repository turns a single-console game into a two-to-four-player one:
patched consoles run the same simulation in *delay lockstep*, exchanging
controller inputs through a relay server.  Everything depends on every console
running every tick on the same inputs and starting from the same state, and on
the relay telling them the truth about who is in the room.  That is what this
directory specifies, checks with TLC and proves with TLAPS.

Paths below are relative to the repository root.

## 1. The system

| part | source | state | operations | talks to |
|---|---|---|---|---|
| Lockstep engine | `src/netcode/lockstep.asm`, ring pages in `src/vdispatch.asm` | `TICK`, `SEAT_WM`, `SEAT_RING`/`SEAT_KP`, `NET_DROPPED`, `LS_FROZE`, `LS_WAITC` | `LS_PASS` (pump, capture, gate, tick), `LS_IDLE_RMT`, `LS_PEER_LEFT`, `LS_CKSUM` | called once per pass by the tick hook; writes INPUT and CRC frames; reads what the session stored |
| Session | `src/netcode/session.asm` | `RX_WR`/`RX_RD` ring, `FRMBUF`, `NET_SEAT`, `NET_COUNT`, `NET_DELAY`, `NET_ACTIVE`, `NAME_TBL`, `ROOM_CNT`, `LOBBY_CACHE` | `SES_MAIN` (connect, HELLO, lobby, JOIN, GO, wait for START), `SES_PUMP`, `SES_ONFRAME` | mailbox below, lockstep and resync above |
| Desync and resync | `src/netcode/resync.asm` | `OWN_CRC`, `RS_PEND`, `RS_PTMO`, `RESYNC_HOLD`, `RS_R`, `RS_POS` | `RS_RECORD_CRC`, `RS_ON_CRC`, `RS_ON_REQ`, `RS_PENDING`, `RS_PUSH`, `RS_ON_STATE`, `RS_REBASE` | called from the frame dispatcher and from the end of `LS_PASS` |
| Mailbox | `src/netcode/mailbox.asm` | request/acknowledge cells shared with the FujiNet | `MB_TRANSACT`, `NET_STATUS/READ/WRITE/OPEN/CLOSE` | the FujiNet adapter, over the bus |
| Tick hook, arbiter | `src/hook.asm`, `src/vdispatch.asm` | countdowns, arm flags, RNG, `ARB_SEAT`, `ARB_INJ`, `GAME_TBL` | `MASTER_TICK`, `ARB_COMPUTE`, `ARB_INJECT`, `GF_GAME_TICK`, `LS_VDISPATCH` | the original game code |
| Relay, reference | `server/intv_relay_server.py` | clients, `by_name`, rooms (`members`, `started`, `crc`) | `accept`, `handle` (HELLO LIST JOIN GO BYE PING and relayed frames), `drop`, `dissolve`, `room_broadcast`, `start_room`, `log_crc`, `sweep` | consoles over TCP; the lobby publisher |
| Relay, C port | `server/c/src/intv-relay.c` | the same in arrays with slot generations | the same, and protocol v1 | the same |
| Lobby publisher | `LobbyPublisher` in the Python server, `server/c/src/lobby.c` | payload, dirty, stopping, worker thread | `update`, worker loop, keepalive, `shutdown` | the FujiNet Lobby over HTTP |
| HUD, text, build variants | `src/netcode/hud.asm`, `src/ui/text.asm`, `src/main_*.asm`, `src/debug.asm`, `src/echo.asm` | screen cells | drawing, test builds | - |
| Protocol gate | `tools/bbnet_client_sim.py` | simulated consoles with a receive buffer, the relay's log | three scenarios of sends, expected frames and assertions | either relay over TCP |
| Server differential | `tools/server_diff.py` | clients, a transcript per server | scripts of protocol v2 and v1, `sync`, `finish`, `compare` | both relays, one after the other |
| Other tools | `tools/`, `test/` | - | ROM patching, load generators, live tests | - |

What makes it hard:

* **Interleaving.** Consoles, relay threads of control and the byte streams
  between them proceed at their own pace.  The gate in `LS_PASS` spins on
  watermarks that its own pump moves; a resync's BEGIN, chunks and END arrive in
  that same pump.
* **Reuse of small numbers.** Ring pages have 256 slots, ticks and watermarks 16
  bits, CRC records eight slots of which four are ever used.
* **Loss and ends.** Any member may disappear, time out, or be dropped by a failed
  send *while the server is inside a loop over the members*; every survivor must
  be told.
* **Late answers.** The mailbox takes its sequence number from the acknowledgement of
  the last command; after a timeout the next command reuses it, and a READ that is
  completed late takes bytes out of the stream that nobody sees.
* **Recovery.** A desync is noticed by CRC on one side or both, asked for, waited
  with, pushed in pieces, and must not tear a tick or mix inputs of before and
  after.
* **Local state beside shared state.** Between two ticks the EXEC scans the console's
  own pads and its sound engine stirs the random generator; the game must see
  none of it.
* **Order of service.** Both relays serve what `select` or `epoll` reports, in an
  order their clients do not choose, and the rigs compare the outcome frame by frame.
* **Coalescing and shutdown** of the lobby publisher's worker thread.

What makes each part correct: the lockstep engine replays for every seat exactly
what that seat captured, within a bounded skew, and never deadlocks; the resync
leaves all consoles on one image and one set of inputs, is never triggered
without need and always comes when needed; the relay keeps rooms, names and
counts consistent after every event and leaves no console waiting at a gate; the
publisher never loses the newest count and says "offline" last.

## 2. Modules

`Lockstep` - one match: per console the program counter of `LS_PASS`, tick,
watermarks, ring pages, `NET_DROPPED`; two FIFO queues per console (TCP); the
relay's started room.

| action | code |
|---|---|
| `EnterPass`, `Capture`, `RunTick` | `LS_PASS` top, capture of T+d, the tick behind the open gate |
| `CaptureLost` | the same capture when its `NET_WRITE` fails, which nobody looks at |
| `Recv` (`OnInput`, `OnLeft`) | one frame of `SES_PUMP` / `SES_ONFRAME`, at the top of the pass or in a gate round |
| `Timeout` | `LS_TIMEOUT` rounds at a shut gate, `LS_IDLE_RMT` |
| `Park` | `LS_PEER_LEFT` and the park loop |
| `Forward`, `Discard`, `RelayDrop` | `Server.handle` for relayed frames, `Server.drop` of a member of a started room |

Ticks are kept as integers; every comparison (`Behind`, `Newer`) and ring index
(`Slot`) goes through the width of the cells, `BYTE` and `WORD = BYTE * BYTE`
(256 and 65536 on the console), so wraps happen in small instances.  An input is
named by the tick it was captured for; `lost` holds those whose write failed.  What `RunTick` reads of the rings (slot T,
and slot T-1 for the edge detection of the virtual dispatcher) is kept in `used`.

`SharedTimeline` - the abstract specification: consoles take ticks of one timeline
of inputs, bounded apart; a console that loses the match coasts through at most
one tick and stops.  `Lockstep!ImplementsTimeline` instantiates it, for behaviours that lose no
INPUT: with one, the other consoles replay a stale slot at its tick, which is what a
resync is for.

`Resync` - the same pass with the CRC exchange, hold, push and re-baseline.  A
game state is a tuple of image chunks, each tagged by where it stems from; a ring
page is the set of inputs stored in it; the relay's fan-out happens in the step of
the sender.  `LS_CKSUM` (`lockstep.asm:525-567`) sums a part of the image
(`resync.asm:23-46`) only: `BACKTAB`, the object table, `GF_PASSLEN` and `GAME_TBL` are
pushed but not summed.  `Summed` are the chunks that hold what is, and a CRC
(`Sum`) is the tuple of these: two states that differ in a summed part never collide.
One thing goes wrong in a behaviour (`Fault`): a part of a console's state by itself
(`Stray`), summed or not, or the write of an INPUT fails (`Capture`); the peers' watermarks
step over the hole and the tick runs on an old slot (`Hole`).  What a tick makes of a
state that is wrong in part is open (`Ran`): it may stay, spread, or be written over.
A push may lose one of its writes (`Written`), which `RS_PUSH` does not look at; `cut`
remembers which push did.  The pump's 64-byte reads decide which frames can share a
pump (`OwnPump`).

`RelayRooms` - both servers' matchmaking.  One event is handled at a time, but a
send can fail and a failed send drops its client inside the caller's loop.  The
call stack is explicit (`agenda`): `DoSend`, `DoEach`, `DoDrop`, `DoClear`,
`DoPublish`, `DoRegister`, `DoAutoGo` are what is left to do of the event, innermost
first.  `server.inC` picks the program: C loops over copies of member lists, Python
over the lists themselves, and only C rechecks its caller in `on_hello`.  Each
console's view is what `SES_ONFRAME` folds from the frames that reached it.

`LobbyPublisher` - main thread, worker thread and the external Lobby; each action
is one critical section of the lock or what lies between two.  `server` picks
Python or C (the C debounce waits on the variable that updates signal).  A POST that fails
may have reached the Lobby all the same (`PostFails`).  `_post` catches `OSError` only: an
`HTTPException` ends the Python worker for good (`PostRaises`).

`FrameStream` - how bytes become frames: `MB_TRANSACT` and `SES_PUMP`.  `pc` says
which transaction the console polls for; `seq`, `ack` and `reply` are the
mailbox registers, `ring`, `wr`, `rd` are `RXACC` and its indices.

| action | code |
|---|---|
| `StartPump`, `Stage`, `NextSeq` | staging of a transaction, sequence number from `FN_ACKSEQ` |
| `GiveUp` | the poll counter wraps; the adapter may still complete the command |
| `StatusAnswered`, `NothingToRead` | `NET_STATUS` and the clamp to 64 |
| `ReadAnswered` | `NET_READ` and the copy to `RXACC` |
| `Cut`, `Slip`, `PumpDone` | one round of `pp_parse`, checked against `SES_FLEN` |
| `Act`, `WriteAnswered` | a `NET_WRITE` between two pumps, or none |
| `Fetch`, `Finish`, `Refuse`, `Send` | the adapter and the server (external) |

`GameTick` - what a console does with the inputs once its gate is open.  A console is
a record; its field `s` holds the cells that a resync transports, the others are
local.  `page` holds the inputs, the same for all (that is `Lockstep`'s result).

| action | code |
|---|---|
| `OpenGate` | `LS_PASS` from `ls_run` to the dispatch: `UPDATE_SHADOW`, `LS_TBL_ADOPT`, `ARB_COMPUTE`/`ARB_INJECT`, `SHADOW_FROM_RINGS`, `LS_VDISPATCH` |
| `RunTick` | `GF_GAME_TICK` (entries 1, 2, 3 and `GF_QUIESCENT`), the table parked again, the next tick |
| `Scan`, `Noise` | the EXEC's scan of the local pad and the LFSR steps of its sound engine (external) |
| `Stray` | the fault: one cell of one console changes by itself |
| `Rebase` | `RS_REBASE` with `GF_REBASE_HOOK`, the image (`ImageCells`) taken whole |

The game itself is external: `Flight`, `Roll` and `Swing` are the three timer routines
and `Handler` the handler tables, reduced to what the hook's comments and the
patches say of them: which services they call (`Rand`, `Arm`, `Stop`) and which
cells of the hook they read.

`RelayServer` - what the reference does with one event of its loop, as functions from a
server state to the next: `Accept`, `Service` (the reassembler and `Handle` for each whole
frame), `Drop`.  `RelayPort` - the same of the C port, translated from the C alone and named
after its functions, for protocol v2 and v1: client and room slots that are given away
again, with generations and epoll tags (`slot_of`), the compacted array of names, rows of the CRC
table.  The two modules share no definition but those of `RelayWire`: the connections, the
limits and the shape of a frame.  Contents of frames, order of the lobby, CRC tables and log
lines are kept.  Sends do not fail here, `RelayRooms` has those.

`RigScripts` - the three scenarios of the gate and the thirteen of the differential as
sequences of steps, and `Programs`, what is played to which servers.  `RelayRig` runs a script against a relay:

| action | code |
|---|---|
| `Wait`, `ServeAccept`, `ServeClient` | `run()`: `select`/`epoll_wait`, one accept, one `recv` and what follows |
| `Connect`, `Send`, `Close`, `Rest` | the socket calls of `Cli`/`Client`, and a `sleep` |
| `Expect`, `ExpectNone`, `OneSeed`, `EndGate` | `bbnet_client_sim`: `recv_frame` and the assertion behind it, a wait that must find nothing, the seeds compared, the log searched |
| `Drain`, `Sync`, `EndDiff` | `server_diff`: one pass of the loop of `Ctx.sync`, its record, `finish` and `compare` |

`up` and `down` are the two directions of each socket, `backlog` and `ready` the kernel's
lists.  `epoll_wait` is level-triggered: what it returns stays on the list, in front of
what comes later, until a poll finds nothing to read there.  A socket closed with
unread data sends a reset, otherwise an end of stream (Linux).

`MCResync`, `MCRelayRooms`, `MCFrameStream` and `MCRelayRig` hold values and symmetry for TLC.
`LockstepSafety`, `GameTickProofs`, `ResyncProofs`, `ResyncRepair`, `ResyncPages`,
`FrameStreamProofs`, `RelayRoomsProofs` and `LobbyPublisherProofs` hold the theorems (section 5).  Definitions called `Bug_...` are deliberate
mistakes, each used by nothing here: every property of a passing run is violated
when the definition it is paired with in `PROJECT.json` is replaced by its `Bug_`.

## 3. Runs

| run | what it asks | bounds, and why they are enough |
|---|---|---|
| `lockstep2` | same inputs for every tick but a lost one, skew at most d+1, refinement of `SharedTimeline`, gates never all shut, nobody left behind; the invariant of the proofs | two seats, d = 1, pages of 6 slots, words of 36, 37 ticks: pages and words both wrap; 2d+2 < 6 as 2d+2 < 256 on the console.  One INPUT is lost (`MaxLost`), from tick 34 on (`LossFrom`), so that the hole is at the wrap.  Three seats, longer delays and any number of losses are covered by the theorems |
| `lockstep_no_delay` | finding: `--delay 0` | D = 0 |
| `resync2` | repair, no torn tick, no false alarm, no mixed inputs, recovery from the first difference that is reported | period 2, two records, margin 2 = d+1 (16 on the console), two chunks, one of them summed, the other short, two pushes, one of which may lose a write, one fault in the first tick, 6 ticks |
| `resync3_torn` | finding: a tick on a half-applied image with three seats | a directed subset of `Resync`'s behaviours |
| `rooms` | consistency of rooms, names, count; consoles informed | four connections, four names, rooms of three, two failing connections, both servers, with and without `--auto-go`: a full room plus one outside it, and a failure nested in the handling of another |
| `survivors`, `caller` | findings | two players |
| `rig` | when the gate passes and when it fails; one record of both relays; each PING gets one PONG; the rig ends | 23 plays, every scenario at every size it has: see below.  Real limits (8 connections per address, 8 lobby entries, 8 CRC seats) but for two: 9 clients, as no script has more connections, so that slots are scarce, and a CRC table that keeps 4 rounds instead of 64, the script's loop shortened to overflow it in the same way; two seeds |
| `game` | consoles are in the same game after each tick both have run; the prompt is answered with the room's players; timers keep the stock pace | pages of 4, skew 2 (d = 1), 13 ticks: two strokes with flight and roll and the next golfer between, or the game over; a push may fall anywhere in it; two inputs, or one and a fault; an LFSR of period 2; one console with a moving pad and sound |
| `game_poll` | finding: the polled pair | three players, 9 ticks, one input |
| `publisher` | no lost update, offline last, rate, newest count published | both programs, three counts, three updates: one before, during and after a POST |
| `stream` | ring never overrun, no answer mistaken for a READ's, exact delivery, bounded damage of a lost READ | ring of 7, reads of 3, frames of up to 4 bytes in two types: the longest frame and a READ just fit (100 + 64 < 256 on the console); three frames wrap both indices; two sequence numbers; two timeouts or refusals: a late answer and one more fault behind it |

Bounds named in the modules: `MaxTick`, `MaxLost`, `LossFrom`, `StrayBefore`, `MaxPush`, `MaxCut`, `MaxBroken`,
`MaxUpdates`, `MaxFrames`, `MaxFaults`, `MaxEvents`, `MaxStrokes`.  Runs switch the deadlock check off because a match, a process and a
bounded exploration really end; that consoles do not block one another while they
play is `GatesProgress`.

**What `rig` shows of the two rigs.**  `GateVerdict` says exactly when the gate fails: when it
counts on rooms of another size than the relay's (`SeatsDiffer`: `gate_2_py`, its default), or when the relay
has read the JOINs that `scenario_full` sends at once in another order (`Overtaken`: in
some schedules of `full_3` and `full_4`; `full_2` has one JOIN).  In every other schedule of
the ten plays it passes.  After `scenario_main` has failed the gate plays nothing more, so that
`scenario_autogo` and `scenario_full` are played on the C port only.  `SameRecord` holds of all seven
scenarios of protocol v2, `limits` included.  The six of protocol v1 are played to the C port, for
`TypeOK`, `PingsAnswered` and `RigEnds`: the v1 reference is not in this repository.

**Fairness.** `EngineFairness` (weak fairness of every console step and of the
relay's forwarding): a console's CPU runs `LS_PASS` without end and TCP delivers.
`GameTick` has the same for each console, and the rig for the server's process and its
own (`ServerFair` and `Fair` are weak fairness spelled out without `ENABLED`, which TLC
evaluates slowly).  The rig's
waits are seconds, or its `QUIET` time, where a pass of the server is microseconds: a
wait runs out only when the server has nothing left to do (`Quiet`).
Nothing forces a member to leave or a game state to go wrong.  `OneOutAllOut`
adds fairness of `Timeout` as a premise: `LS_WAITC` counts every round.  The
publisher has weak fairness for its timed waits and strong fairness for a POST to
succeed: an unreachable Lobby can learn nothing, and nor can it when the Python worker is
dead, which `NewestPublished` excuses.  `FrameStream` has weak fairness of
the console and of the adapter taking and completing commands; its timeouts are
finitely many (`MaxFaults`), and `Delivered` is claimed while none swallowed a READ.

## 4. Findings

* `--delay 0` makes the initial watermark 255 instead of -1: gates stand open and
  the consoles diverge (`lockstep_no_delay`).
* The input wait polls a pair of cells that `SHADOW_FROM_RINGS` fills from seats 0 and 1,
  not from the controlling seat as its comment says: while golfer 0 is up, seat 1's
  disc swings for him (`game_poll`).  Discs of seats 2 and 3 never reach the poll.
* With three or more consoles a guest inside its gate loop can run a tick on a
  half-applied image (`resync3_torn`).  Two consoles cannot: the only INPUT that
  would open the gate comes from the host, which is pushing.
* "All survivors back to the lobby" holds for the server only; the consoles are
  parked until RESET, and stay listed as joinable (`survivors`).
* The recheck in the C `on_hello` that "cannot happen" can, and the Python server,
  which has none, registers a dead client (`caller`).

Seen on the way, without a run of their own:

* `tools/bbnet_client_sim.py:26-27` has the Python server "pinned at `MAX_SEATS = 2`", but
  it seats four (`server/intv_relay_server.py:68`): the gate's default, two seats on
  that server, fails at "forming status wrong" (`gate_2_py` of `rig`).
* With three or more seats `scenario_full` sends the JOINs of all guests at once and
  asserts that seats follow its list.  A guest served in the pass before may be served
  ahead of one that joined first: `full_3` and `full_4` of `rig` fail in such schedules.
* `finish()` of the differential closes its clients one after the other with no sync
  between: one still owed a PEER_LEFT resets its connection, and the log names another
  reason for its drop.  `SameRecord` is about the log up to the last sync.
* `PORTING.md:72-73` has an input captured at tick T "applied on both consoles at `T+d`".  One
  whose write fails is applied by its own console only: nobody sends it again, `of_input`
  (`session.asm:604`) steps over it and the others replay the slot of the page before.
* `resync.asm:11-12` has both consoles "CRC their ISR-clean game state", and `:14-17` a mismatch followed by a push of
  "the full game-state image".  A difference in a cell that is pushed and not summed is found by
  nobody until it reaches a summed cell; `Recovers` starts from a difference of two sums.
* A push whose BEGIN is lost changes nothing on the guest: the host's first INPUT from beyond R moves
  its watermark over the ticks between, which it runs on stale slots.  One whose END is lost leaves the
  guest in its hold until it gives up; if it was at its gate, the host's next INPUT opens that and it
  runs one tick on the new image first.  One that loses a chunk re-baselines all the same, on an
  image that is partly the guest's own.  Only a difference in summed cells brings another push.
* One desync can be answered by two pushes, though `resync.asm:14` and `:150` say
  "once": a request that crosses the push is accepted after it.
* A push resumes at R = T+16 (`resync.asm:176-180`) whatever the delay is, and both servers
  accept `--delay` beyond 15: with `Margin <= D` TLC finds an INPUT captured before the push
  stored after it, so `PagesAgree` is proved for `Margin > D` only.  The default is 3.
* `server_diff.py:299` says that a HELLO with a new name keeps the dict position; both
  servers delete the old name and append the new one.  The position is kept only for a
  name that is there already.
* `server_diff.py:699-703` calls the order of `limits` "genuinely nondeterministic" and compares
  it sorted.  With the accept queue in order of arrival, as `rig` has it, the nine connections
  of one process are accepted in that order, and the record is the same line by line.
* `intv-relay.c:322-330` names scenario S1 for three semantics of the name table.  The second, a
  name that is set again keeps its place, is reached by no scenario: only a client that repeats
  its own HELLO would get there.
* `server_diff.py:715-720` and `intv-relay.c:706-711` say that the Python server lacks the
  guard against partial frames; `intv_relay_server.py:339-340` has it.
* `intv_relay_server.py:502-504` has the keepalive "keep the room visible between matches".  An answer
  that is not HTTP raises an exception `_post` does not catch (`:579`), the worker is dead, and the
  room goes stale in the Lobby (`PostRaises`).
* `tools/soak.py:4` promises 32 idle clients of one address; the relay admits 8 (`PER_IP`).

Met while modelling, and excluded from the claims by the properties' premises: the
C broadcast snapshot can send a member a stale roster after a nested dissolve's
ROOM(0), so `WaitingCurrent` is claimed while no send has failed; the Python
server's tables are claimed consistent for the same states (`Sound`); the C
publisher's one-second debounce can be cut short by an update, so `RateLimited` is
claimed for Python.

## 5. Proofs

Each component's theorems are in modules of their own and hold for every value of the
constants that the named `ASSUME`s of its module allow.

| theorem | module | says |
|---|---|---|
| `TypeCorrect` | `LockstepSafety` | `Spec => []TypeOK` |
| `Inductive` | `LockstepSafety` | `Spec => []IInv` |
| `ReplayAgrees` | `LockstepSafety` | `Spec => []InputAgreement` |
| `SkewBounded` | `LockstepSafety` | `Spec => []BoundedSkew` |
| `Refines` | `LockstepSafety` | `Spec => ImplementsTimeline` |
| `TypeCorrect` | `GameTickProofs` | `Spec => []TypeOK` |
| `RoomIsCounted` | `GameTickProofs` | `Spec => []CountIsRoom` |
| `KeepsStockPace` | `GameTickProofs` | `Spec => []StockPace` |
| `GamesAgree` | `GameTickProofs` | `Spec => []SimAgrees` |
| `TypeCorrect` | `ResyncProofs` | `Spec => []TypeOK` |
| `QuietUntilWrong` | `ResyncProofs` | `Spec => []NoFalseAlarm` |
| `BothSidesIdentical` | `ResyncRepair` | two seats, `K > 1`: `Spec => [](cut = {} => Repaired)` |
| `FrozenInHold` | `ResyncRepair` | two seats, `K > 1`: `Spec => NoTornTick` |
| `SameInputs` | `ResyncPages` | two seats, `K > 1`, `Margin > D`: `Spec => [](cut = {} => PagesAgree)` |
| `TypeCorrect` | `FrameStreamProofs` | `Spec => []TypeOK` |
| `ReadsAreSafe` | `FrameStreamProofs` | `Spec => []ReadSafe` |
| `FramesAreExact` | `FrameStreamProofs` | `Spec => []FramesExact` |
| `TornFramesBounded` | `FrameStreamProofs` | `Spec => []TornOnce` |
| `TypeCorrect` | `RelayRoomsProofs` | `Spec => []TypeOK` |
| `RoomsAreConsistent` | `RelayRoomsProofs` | `Spec => []RoomsConsistent` |
| `NamesAreLive` | `RelayRoomsProofs` | `Spec => []NamesLive` |
| `NobodyIsStranded` | `RelayRoomsProofs` | `Spec => []NobodyStranded` |
| `MatchesAgree` | `RelayRoomsProofs` | `Spec => []MatchAgrees` |
| `WaitingRoomsCurrent` | `RelayRoomsProofs` | `Spec => []WaitingCurrent` |
| `TypeCorrect` | `LobbyPublisherProofs` | `Spec => []TypeOK` |
| `UpdatesKept` | `LobbyPublisherProofs` | `Spec => []NoLostUpdate` |
| `GoesOffline` | `LobbyPublisherProofs` | `Spec => []LastWordOffline` |
| `PostsSpaced` | `LobbyPublisherProofs` | `Spec => RateLimited` |

Read together, the first nine say what the whole arrangement is for: the lockstep engine
gives every console the same inputs for every tick, at most d+1 ticks apart
(`ReplayAgrees`, `SkewBounded`), and consoles that run the same inputs at most that far
apart play the same game (`GamesAgree`).  `GameTick` takes the first as its premise; that
the two modules fit is argued here and in their comments, not proved.

### Lockstep

The theorems hold for every non-empty set of seats, every
even `BYTE` of at least 4, every delay below `BYTE`, every `MaxTick` and any number of lost INPUTs (the
`ASSUME`s of `Lockstep`).  All but the first also assume `DelayFits`: `D >= 1`,
since `lockstep_no_delay` shows what happens at 0, and `2 * D + 2 < BYTE`, since a
page must hold the 2d+3 slots in use at once (`--delay` up to 126 on the console).

`InputAgreement` is not inductive: that the slot a tick reads is
right depends on frames that were on their way when nobody had reached that tick.
`IInv` follows a frame from its capture to its slot. `Sent(s)` is the last tick a
seat captured.

* `UpInv`: what waits in a queue to the relay was captured, and ascends.
* `DownInv`: in a queue to a console each seat's ticks ascend and come before what that seat
  still has on the way to the relay; while the console is in the match they go on from its watermark,
  and of the ticks in between only lost ones are missing (`Expected`).  So the frame at
  the head is `Newer` and is stored (lemmas `StoredIsNewer`, `RecvStores`), and what the watermark
  steps over was lost.
* `WmInv`: what a watermark has not reached yet is on its way or lost (`Accounted`), and a watermark
  is never more than one tick behind its console.  That makes the 16-bit gate test
  exact where it matters: one short is `Behind` (lemma `OneShortIsBehind`), so an open gate
  means every watermark has reached T (lemma `OpenGate`).  A lost INPUT lets nobody through: it leaves
  the watermark short until the next one comes.
* `SkewInv`: the open gate bounds the runner by what the others have *sent*, hence
  what anybody has sent by T + 2d + 1.
* `RingInv`: a page holds the last `BYTE` ticks up to its watermark, but for lost ones, whose slots
  hold anything.  Storing a tick overwrites the slot of the tick one page earlier, no other of the
  window (lemmas `SlotDistinct`, `HoldsNext`).  By `SkewInv` slots T and T-1 are still in
  that window when the tick reads them, and this is where `DelayFits` is used.

`LockstepSafety` has one lemma per conjunct and action that can disturb it, and one
per conjunct for the actions that cannot (`DownKept`, `WmKept`, `RingKept`,
`SkewKept`, `AgreementKept`).  The steps of a console that has left the match need
no invariant: the conjuncts speak of a console only while `~dropped`.

`Refines` is about behaviours without a lost INPUT (`lost' = {}` in the step).  It maps `RunTick` of a console in the match to `Step` (the inputs by
`InputAgreement` after the step, the lag by `SkewInv` after it), `RunTick` after the
match was lost to `Coast`, learning of a loss to `Lose`, and everything else to a
stutter.

### Game tick

For any number of consoles, two to four players, any page of at least d+3 slots and any
margin beyond the lead a console may have (`GameAssumption`).  `TypeInv` gives each console an
invariant of its own: `Good` ties the arm flags to the state of the ball, the countdowns to
the arm flags (`StockPace` for one console) and the player count to the table in play
(`CountIsRoom`); `Parked` and `Running` say which table stands in $035D between and inside
ticks.  Each operator of the tick has a lemma that it keeps them, so that the steps are
compositions.  `Apace` says how far ticks and known inputs are apart.

`SimAgrees` compares only consoles in the same tick, and on its own says nothing of one
that is behind.  Its strengthening `SimInv` claims a *history*: a console `st[t]` for each
tick, such that every console is at its place in it (`Abreast`) and every tick that one
console has passed and another has not is still what the pages make of its predecessor
(`Leads`).  Two facts carry the steps:

* the tick is a function of the transported cells and of the inputs: consoles that agree in
  `s` at a gate agree in it after `Replay` and after the walk (lemmas `ReplayLike`,
  `EntriesLike`), whatever their pads, LFSR and countdown mirrors are;
* it reads slots T and T-1 only (`ReplayPage`), and a new input is never written to a
  slot that a tick still to be run reads (`FreshSlot`, from `SlotsApart` and `MaxSkew + 2 <= Byte`).

The console that ends a tick first extends the history; one that follows finds its own
result there.  A push starts the history over, with the host's game for every console.

### Resync

`TypeInv` and `CalmInv` are for any number of seats: while nothing has gone wrong every
console is `Quiet` (its game is the one all share, its records are those of that game), and the
inputs in its pages and queues are those captured (`Fed`), so no record can differ.

The other three are for pushes that lose no write (`cut = {}`), in a room of two (`TwoSeats`): with three seats `NoTornTick` is false,
`resync3_torn`.  `K > 1` says that an image is longer than one chunk, as it is (dozens of
96-byte chunks).  `PushInv` looks at the *line* to the guest: its queue and, behind it, what
the host writes next.  In that line a push is BEGIN, the chunks in order, END with
nothing in between (`InOrder`), and the head of the line tells the guest's state: held
exactly inside a push, with the chunks before the head applied, frozen while its game
is a mixture (`Applied`).  A gate the guest waits at can open in the middle of a push only by
an INPUT, which stands behind the END.

`PagesAgree` is about what crosses a push.  `PageInv` cuts the queues at the ENDs in them.  Until
the guest has read the END (`Stale`), all it sends is of ticks the host has left,
and the host's watermark for it, R+d-1, is beyond them, so the host stores nothing of
it; from then on (`Current`) what it captures is with the host or on its way.  `Mirrored` is the
other direction, `Owed` and `Debts` account for pushes not yet read, `Behind` counts them.

`Margin > D` is needed: the guest may have captured up to D ticks past the one the host has
run.  TLC, given a margin of d, finds an INPUT from before the push stored after it.  The console
has R = T+16 (`src/netcode/resync.asm:176-180`), which covers the default `--delay 3` but
not delays of 16 and more, which both servers accept (section 4).

### Frame stream

For any ring with `CHUNK + 1 < RING` and any table of frames that leave room for a READ
(`RingAssumption`, `TableAssumption`).  `SafeInv`: a command the adapter is working on is not
yet acknowledged, so none is under way when a READ is staged and what ends a READ is that
READ (`Mail`), although sequence numbers repeat; and outside the parser's loop the ring has room
for a READ (`Room`), since a frame that is still incomplete is one of the table.
`StreamInv` adds that the bytes cut off, buffered, in flight and on the wire are one
byte sequence which is the frames sent, one after the other, and that while no READ was
swallowed the parser stands at the start of one of them (`Streamed`).  The sequence and its cuts are existentially quantified,
for a concatenation of frames is a recursion no proof here can unfold.

After a READ was swallowed, `PatchInv` follows each byte that is still to be parsed.  In the
order of the ring, `FN_RX` and the adapter these bytes are the `Line`; `Placed` gives each
its place in the stream and an age, the number of READs swallowed before it.  Ages never
fall along the line, and where the age does not change no byte is missing.  The
adapter's end of the line is never older than `lost`, and the parser's end has an age of at
least the torn frames cut out so far (`Aged`).  The step that matters is a frame cut out where the age does not
change (`TornSpans`): its bytes are consecutive in the stream; if they begin where a frame
begins they are that frame; if they begin inside one, the two bytes taken for a header lie in that
frame and the one behind it, which `AllPlain` excludes.  So a torn frame spans a change of age and
leaves an older byte in front.  `AllPlain` is a condition on what is sent and not
a property of the code: INPUT payload can read as a header, and then a frame more may be torn.

### Rooms of the relay

For any finite sets of clients and names, any `MaxSeats >= 2` and any set of servers, each
one of the two programs with any `--auto-go`.  The properties speak of the moments between
two events (`idle`); an event is many steps, and what is not yet true in the middle of one is made good
by what the agenda still holds.  So `IInv` relates the state to `pending`, the set of tasks on
the agenda; of their order it needs that a register or auto-GO comes last (`LastInv`) and,
when no send fails, that a drop has at most a register behind it (`QuietInv`).

* `SeatsInv`: every room is either `Seated` - it lists the clients that point at it,
  each once, its creator first, two or more - or, between the two halves of a dissolve,
  `Cleared`: nobody points at it and its clear is pending.  With `UpInv` this is `RoomsConsistent`.
* `TableInv`, `CallerInv`: the names.  `on_hello` drops the old holder before it registers
  the caller; `CallerInv` says that the name is free by then, or that its holder's
  drop is what comes next.  That the caller itself is live needs the recheck in C and no
  failed send in Python, which is `Sound`.  `CountInv`: the Lobby's count is right or a publication is pending.
* `ToldInv`: a live console that was called to a match, or whose START is pending, is in a
  started room, or PEER_LEFT has reached it, is pending, or its drop is.  `EachInv` is
  needed for Python: the loop of START goes on over a list that a nested drop emptied.
* While no send fails: a pending frame carries the roster of its addressee's room and,
  in a START, the addressee's seat (`RightInv`); and each console shows its room, or the frame
  that says so is pending (`ShowsInv`).  With a failed send both are false, see section 4.
* `BoundInv`: the agenda is at most `MaxSeats + 2` tasks long for the event and for each client lost,
  as a drop starts one announcement and a client is dropped once. `TypeOK`
  has this bound and one task more, for the send whose failure put the drop there.

### Lobby publisher

For both programs.  `NewestHeld`: with nothing dirty, what the worker is posting or last got through
is the newest payload.  `LastPost`: past a join that did not give up the worker is done.
`Rested`: the Python worker waits for work only a second after its last POST.

### Only model-checked

* Liveness (`GatesProgress`, `OneOutAllOut`, `Recovers`, `NewestPublished`, `Delivered`,
  `PromptAnswered`, `RigEnds`) is out of the prover's reach.
* `SurvivorsReturn` and `CallerSurvives` of `RelayRooms` are false (section 4).
* `Resync` with three and more seats: `Repaired` and `PagesAgree` are not claimed there.
* `RelayRig` plays fixed scripts, so that TLC's runs of them are all there is to say.

## 6. Not modelled

* **What a WRITE carries, `NET_OPEN` and `NET_CLOSE`**: `Lockstep`, `Resync` and
  `RelayRooms` exchange whole frames.  What can be lost is an INPUT (`Lockstep`, `Resync`) and one write
  of a push (`Resync`).  A CRC or a request that is lost is
  not modelled; the request is not repeated, so that the host's own
  comparison is then what remains.  `Lockstep` has no hold, so that it does not say
  how a hold ends whose push never does (`Resync.GiveUp`, without fairness).  `FrameStream` shows when the frames
  received are those sent, and what a lost READ does to them; nothing says yet what
  a torn frame does to a match.  The adapter is taken to read a command's registers at
  once: that it could fetch one the console is just staging again after a timeout
  is not modelled.
* **The game's own code and the `BACKTAB` data**: external, see `GameTick`.  So are
  `MASTER_TICK`'s local path and the scripted test builds, `NET_FUZZ`, the drawing of the
  turn label, and the EXEC's pass length (`GF_PASSLEN`), which the image carries.  The push is whole in
  `GameTick`; its pieces are `Resync`'s.  A `Rebase` comes only after a tick of each
  console, since it takes a CRC of both.
* **Lobby UI, name entry, text, HUD**: display.
* **The signal pipe and the sweep of the C server, the counters of `log_stats`**;
  HTTP and JSON of the publisher.  A POST that timed out and reaches the Lobby only after a
  later one would be a fault of the network that no code here could see, and is not modelled.
* **In `RelayRooms`** a client breaks between two events, not between two sends of one event
  (`Break`), and a frame carries the members of a room, not their names: a name that goes
  stale on the consoles when a member is renamed (`intv_relay_server.py:390-396`) is not seen there.
  `RelayServer` and `RelayPort` have the names, and no failing sends.
* **The reference of protocol v1**, which is kept in another repository: nothing compares the C
  port's v1 with it here.  Log lines that
  `server_diff` filters as known to exist in C only are left out.
* **Build variants and the other tools**: ROM patching and comparison are sequential;
  `soak.py` and the live tests drive the program and keep no state worth a model, and
  `ghost_peer.py` speaks protocol v1 only.
* START is handled before `Lockstep` and `Resync` begin; `RelayRooms` sends it.
* A second match on one server process reuses nothing of the first but names and
  connections; connections are used once in `RelayRooms`.

## 7. Plan

In order of weight:

1. `FrameStream` below the others: lost pieces of a push, torn frames against the
   guards of `RS_ON_STATE` and `of_input`.
2. `Match`: `RelayRooms` composed with the start of `Lockstep`, START still in flight
   while the first INPUT frames come.
3. Proofs: that the rows of the C port's CRC table implement the dict;
   how many frames a swallowed READ tears when payload can read as a header.
