----------------------------- MODULE RigScripts -----------------------------
(***************************************************************************)
(* The scripts of the rigs, as sequences of the steps RelayRig takes: the  *)
(* protocol gate of tools/bbnet_client_sim.py and the scenarios of         *)
(* tools/server_diff.py, protocol v2 and v1.  Connections are numbered in  *)
(* the order they are made.                                                *)
(***************************************************************************)
EXTENDS RelayServer, RelayPort

Flat(ss)       == FlattenSeq(ss)
Each(cs, Op(_)) == Flat([i \in DOMAIN cs |-> Op(cs[i])])

(* Frames the clients send.                                                *)
HELLO(v, n)   == [type |-> "HELLO", ver |-> v, name |-> n]
JOIN(n)       == [type |-> "JOIN", name |-> n]
GO            == [type |-> "GO"]
LIST          == [type |-> "LIST"]
PING          == [type |-> "PING"]
CRC(s, t, v)  == [type |-> "CRC", len |-> 5, seat |-> s, tick |-> t, crc |-> v]
CRC1(s, t, v) == [type |-> "CRC", len |-> 4, tick |-> t, crc |-> v]     \* v1: untagged
INPUT(s, t)   == [type |-> "INPUT", seat |-> s, tick |-> t]
STATE_(s)     == [type |-> "STATE", seat |-> s]
RESYNC        == [type |-> "RESYNC"]

(* Steps.  A frame can be written in n parts.                              *)
connect(c)      == <<[op |-> "connect", c |-> c]>>
write(c, ps)    == <<[op |-> "send", c |-> c, pieces |-> ps]>>
part(f, i, n)   == [frame |-> f, at |-> i, of |-> n]
send(c, f)      == write(c, <<part(f, 1, 1)>>)
cut(c, f, n)    == Flat([i \in 1 .. n |-> write(c, <<part(f, i, n)>>)])
close(c)        == <<[op |-> "close", c |-> c]>>
rest            == <<[op |-> "rest"]>>
end(logs)       == <<[op |-> "end", logs |-> logs]>>
Count(a, b)     == [i \in 1 .. b - a + 1 |-> a + i - 1]

-----------------------------------------------------------------------------
(* bbnet_client_sim.                                                       *)

expect(c, is)   == <<[op |-> "expect", c |-> c, is |-> is]>>
until(c, is)    == <<[op |-> "until", c |-> c, is |-> is]>>
silence(c)      == <<[op |-> "silence", c |-> c]>>
any(t)          == [type |-> t]
ROOM(ns)        == [type |-> "ROOM", roster |-> ns]
START(s, ns)    == [type |-> "START", seat |-> s, roster |-> ns]

Cli(c, n)       == connect(c) \o send(c, HELLO(2, n))
CliIn(c, n)     == Cli(c, n) \o expect(c, any("LOBBY"))
lobby(c, n, st) == send(c, LIST) \o
  expect(c, [type |-> "LOBBY", status |-> [name |-> n, status |-> st]])
joins(c, n, cs, ns) == send(c, JOIN(n)) \o Each(cs, LAMBDA m : expect(m, ROOM(ns)))
joined(c, n, cs) == send(c, JOIN(n)) \o Each(cs, LAMBDA m : expect(m, any("ROOM")))
refused(c, n)   == send(c, JOIN(n)) \o expect(c, any("LOBBY"))
fanout(c, f, cs) == send(c, f) \o Each(cs, LAMBDA m : expect(m, f))

st(n, seats)    == [count |-> n, busy |-> n >= seats]
ROOM_NAMES      == <<"ALICE", "BOB", "CAROL", "DAVE">>
start_server    == connect(1) \o close(1)      \* the probe

(* Connections: 2 ALICE, 3 OLDGUY, 4 .. BOB and on, 7 EVE, 8 and 9 guests. *)
SeatConn(i)     == IF i = 1 THEN 2 ELSE i + 2

Hellos(seats) ==
  Cli(2, "ALICE") \o expect(2, [type |-> "LOBBY", list |-> <<>>]) \o
  connect(3) \o send(3, HELLO(1, "OLDGUY")) \o <<[op |-> "hangup", c |-> 3]>> \o close(3) \o
  Each(Count(2, seats), LAMBDA i : Cli(SeatConn(i), ROOM_NAMES[i])) \o
  Each(Count(2, seats), LAMBDA i : expect(SeatConn(i), any("LOBBY"))) \o
  CliIn(7, "EVE")

Forming(seats, cli, names) ==
  lobby(7, "ALICE", st(1, seats)) \o
  joins(4, "ALICE", SubSeq(cli, 1, 2), SubSeq(names, 1, 2)) \o
  lobby(7, "ALICE", st(2, seats)) \o lobby(7, "BOB", st(2, seats)) \o
  (IF seats >= 3 THEN joins(5, "BOB", SubSeq(cli, 1, 3), SubSeq(names, 1, 3)) ELSE <<>>) \o
  (IF seats >= 4 THEN joins(6, "ALICE", cli, names) ELSE <<>>) \o
  lobby(7, "ALICE", st(seats, seats)) \o refused(7, "ALICE")

Match(seats, cli, names) ==
  LET crcs(t, v) ==
        Each(Count(1, seats), LAMBDA i : send(cli[i], CRC(i - 1, t, IF i = 2 THEN v ELSE 1))) \o
        Each(cli, LAMBDA c : Each(Count(2, seats), LAMBDA i : expect(c, any("CRC"))))
  IN send(4, GO) \o send(2, GO) \o
     Each(Count(1, seats), LAMBDA i : expect(cli[i], START(i - 1, names))) \o
     <<[op |-> "oneseed"]>> \o
     lobby(7, "ALICE", st(seats, seats)) \o refused(7, "ALICE") \o
     fanout(2, INPUT(0, 5), Tail(cli)) \o silence(2) \o fanout(2, STATE_(0), Tail(cli)) \o
     Each(<<64, 128, 192, 256>>, LAMBDA t : crcs(t, 1)) \o crcs(320, 2)

Leaving(seats, cli, names) ==
  LET after == SubSeq(cli, 3, seats) IN
  close(4) \o
  Each(<<2>> \o after, LAMBDA c : expect(c, [type |-> "PEER_LEFT", seat |-> 1, name |-> "BOB"])) \o
  rest \o lobby(7, "ALICE", [count |-> 1, busy |-> FALSE]) \o
  Each(Count(3, seats), LAMBDA i : lobby(7, names[i], [count |-> 1, busy |-> FALSE])) \o
  close(7) \o Each(after, LAMBDA c : close(c)) \o
  CliIn(8, "GUESTA") \o joined(8, "ALICE", <<2, 8>>) \o
  (IF seats >= 3
   THEN CliIn(9, "GUESTB") \o joined(9, "ALICE", <<2, 8, 9>>) \o
        close(8) \o expect(2, ROOM(<<"ALICE", "GUESTB">>)) \o expect(9, any("ROOM"))
   ELSE close(8) \o expect(2, ROOM(<<>>)) \o
        CliIn(9, "GUESTC") \o joined(9, "ALICE", <<2, 9>>)) \o
  close(2) \o expect(9, ROOM(<<>>)) \o close(9)

scenario_main(seats) ==
  LET cli   == [i \in 1 .. seats |-> SeatConn(i)]
      names == SubSeq(ROOM_NAMES, 1, seats)
  IN start_server \o Hellos(seats) \o Forming(seats, cli, names) \o
     Match(seats, cli, names) \o Leaving(seats, cli, names) \o
     end({<<"match">>, <<"CRC MISMATCH", 320>>, <<"crc ok", 4>>, <<"back to lobby">>})

scenario_autogo ==
  LET ns == <<"EVE", "FRANK">> IN
  start_server \o CliIn(2, "EVE") \o CliIn(3, "FRANK") \o joined(3, "EVE", <<2, 3>>) \o
  expect(2, START(0, ns)) \o expect(3, START(1, ns)) \o close(2) \o close(3) \o end({})

FULL_NAMES == <<"P1AA", "P2BB", "P3CC", "P4DD">>
scenario_full(seats) ==
  LET ns   == SubSeq(FULL_NAMES, 1, seats)
      cli  == Count(2, seats + 1)
      e    == seats + 2
      sender == seats + 1
  IN start_server \o Each(cli, LAMBDA c : Cli(c, ns[c - 1])) \o
     Each(cli, LAMBDA c : expect(c, any("LOBBY"))) \o
     Each(Tail(cli), LAMBDA c : send(c, JOIN(ns[1]))) \o
     Each(cli, LAMBDA c : until(c, START(c - 2, ns))) \o
     CliIn(e, "PZZZ") \o refused(e, ns[1]) \o
     fanout(sender, INPUT(seats - 1, 7), Front(cli)) \o silence(sender) \o
     Each(cli, LAMBDA c : close(c)) \o close(e) \o end({})

-----------------------------------------------------------------------------
(* server_diff, protocol v.                                                *)

sync            == <<[op |-> "sync"]>>
does(c, f)      == send(c, f) \o sync
hello(v, c, n)  == connect(c) \o does(c, HELLO(v, n))
drops(c)        == close(c) \o sync
lists(cs)       == Each(cs, LAMBDA c : send(c, LIST)) \o sync
hellos(v, ns)   == Each(Count(1, Len(ns)), LAMBDA i : hello(v, i, ns[i]))
badlen(c)       == connect(c) \o does(c, [type |-> "BAD LENGTH"])

s1_roster_order ==
  hellos(2, ROOM_NAMES) \o hello(1, 5, "OLDGUY") \o lists(Count(1, 4)) \o
  does(3, HELLO(2, "CAROL2")) \o hello(2, 6, "EVE") \o does(6, HELLO(2, "BOB")) \o
  lists(<<1, 4, 6>>) \o drops(1) \o lists(<<4, 6>>)

s2_rooms ==
  hellos(2, SubSeq(ROOM_NAMES, 1, 3)) \o does(2, JOIN("ALICE")) \o does(3, LIST) \o
  does(3, JOIN("BOB")) \o does(2, JOIN("ALICE")) \o does(3, JOIN("NOBODY")) \o
  does(1, JOIN("ALICE")) \o hello(2, 4, "DAVE") \o does(4, JOIN("DAVE")) \o
  does(4, JOIN("THISNAMEISWAYTOOLONG"))

s3_go_start ==
  hellos(2, <<"ALICE", "BOB">>) \o does(1, GO) \o does(2, JOIN("ALICE")) \o does(2, GO) \o
  does(1, GO) \o does(1, GO) \o hello(2, 3, "CAROL") \o does(3, JOIN("ALICE")) \o does(1, PING)

(* The table is overflowed by three rounds, as 70 overflow the 64 it keeps. *)
rounds(v) ==
  LET F(c, t, x) == IF v = 1 THEN CRC1(c, t, x) ELSE CRC(c, t, x)
      halves(t0) == Each(Count(t0, t0 + CrcTicks + 2), LAMBDA t : send(1, F(0, t, 3))) \o sync
  IN Each(Count(0, 3), LAMBDA t : send(1, F(0, t, 1)) \o send(2, F(1, t, 1))) \o sync \o
     send(1, F(0, 9, 1)) \o does(2, F(1, 9, 2)) \o
     halves(100) \o does(2, F(1, 100, 3)) \o does(2, F(1, 100 + CrcTicks + 2, 3))

s4_relay_crc ==
  hellos(2, <<"ALICE", "BOB">>) \o does(1, INPUT(0, 1)) \o does(2, JOIN("ALICE")) \o
  does(1, INPUT(0, 1)) \o does(1, GO) \o does(1, INPUT(0, 7)) \o does(2, STATE_(0)) \o
  does(1, RESYNC) \o rounds(2) \o send(1, CRC(3, 200, 1)) \o does(2, CRC(1, 200, 2))

s5_drop_matrix ==
  hellos(2, <<"ALICE", "BOB">>) \o does(2, JOIN("ALICE")) \o does(1, GO) \o drops(2) \o
  hello(2, 3, "CAROL") \o hello(2, 4, "DAVE") \o does(4, JOIN("CAROL")) \o drops(3) \o
  hello(2, 5, "EVE") \o hello(2, 6, "FRANK") \o does(6, JOIN("EVE")) \o drops(6) \o
  hello(2, 7, "GRACE") \o does(7, [type |-> "BYE"]) \o
  hello(2, 8, "HEIDI") \o does(8, HELLO(2, "!!"))

(* Whether a gap in a frame is long enough to be seen is left open.  The   *)
(* split of the three LISTs falls between two of them.                     *)
s6_framing(v) ==
  hello(v, 1, "ALICE") \o cut(1, PING, 2) \o sync \o
  write(1, <<part(PING, 1, 1), part(PING, 1, 1)>>) \o sync \o
  send(1, LIST) \o write(1, <<part(LIST, 1, 1), part(LIST, 1, 1)>>) \o sync \o
  cut(1, JOIN("NOBODY"), 3) \o sync \o
  badlen(2) \o badlen(3) \o hello(v, 4, "DAVE") \o does(4, [type |-> "$7F"])

s7_limits == Each(Count(1, PerIp + 1), connect) \o sync

v1_roster_order ==
  hellos(1, SubSeq(ROOM_NAMES, 1, 3)) \o lists(<<1, 2, 3>>) \o does(3, HELLO(1, "CAROL2")) \o
  hello(1, 4, "DAVE") \o does(4, HELLO(1, "BOB")) \o lists(<<1, 4>>) \o drops(1) \o
  does(4, LIST) \o hello(7, 5, "EVE") \o does(5, LIST)

v1_pairing ==
  hellos(1, SubSeq(ROOM_NAMES, 1, 3)) \o does(3, LIST) \o does(2, JOIN("ALICE")) \o does(3, LIST) \o
  Each(<<"ALICE", "NOBODY", "CAROL", "THISNAMEISWAYTOOLONG">>, LAMBDA n : does(3, JOIN(n))) \o
  does(2, JOIN("CAROL")) \o does(1, PING) \o does(3, GO)

v1_relay_crc ==
  hellos(1, <<"ALICE", "BOB">>) \o does(1, INPUT(0, 1)) \o does(2, JOIN("ALICE")) \o
  does(1, INPUT(0, 7)) \o does(2, STATE_(0)) \o does(1, RESYNC) \o rounds(1)

v1_drops ==
  hellos(1, <<"ALICE", "BOB">>) \o does(2, JOIN("ALICE")) \o drops(2) \o does(1, LIST) \o
  hello(1, 3, "CAROL") \o does(3, [type |-> "BYE"]) \o hello(1, 4, "DAVE") \o
  does(4, HELLO(1, "!!")) \o connect(5) \o does(5, JOIN("ALICE"))

(* run(): the scenario, one more sync, and every client closed, unsynced.  *)
run(scenario, clients) ==
  scenario \o sync \o Each(Count(1, clients), close) \o end({})

-----------------------------------------------------------------------------
(* What is played: a script, and the servers it is played to.  A gate has  *)
(* SEATS and the order of its JOINs.  On the reference the gate does not   *)
(* get past scenario_main (RelayRig.GateVerdict); the v1 reference is not  *)
(* in this repository, so that the v1 scenarios are played to the C only.  *)

Py            == [inC |-> FALSE, proto |-> 2, seats |-> 4, autoGo |-> 0]
C(v, n, go)   == [inC |-> TRUE, proto |-> v, seats |-> n, autoGo |-> go]

play(kind, svs, s) == [kind |-> kind, servers |-> svs, script |-> s, seats |-> 0, joins |-> <<>>]
gate(sv, s, n, js) == [play("gate", <<sv>>, s) EXCEPT !.seats = n, !.joins = js]
main(sv, n)   == gate(sv, scenario_main(n), n,
                   SubSeq(ROOM_NAMES, 2, n) \o <<"GUESTA", IF n >= 3 THEN "GUESTB" ELSE "GUESTC">>)
autogo(n)     == gate(C(2, n, 2), scenario_autogo, n, <<"FRANK">>)
full(n)       == gate(C(2, n, n), scenario_full(n), n, SubSeq(FULL_NAMES, 2, n))
diff(s, k)    == play("diff", <<Py, C(2, 4, 0)>>, run(s, k))
racy(s, k)    == play("racy diff", <<Py, C(2, 4, 0)>>, run(s, k))
v1(s, k)      == play("v1", <<C(1, 2, 0)>>, run(s, k))

Programs ==
  [gate_2       |-> main(C(2, 2, 0), 2),
   gate_3       |-> main(C(2, 3, 0), 3),
   gate_4       |-> main(C(2, 4, 0), 4),
   gate_2_py    |-> main(Py, 2),
   autogo_2     |-> autogo(2),
   autogo_3     |-> autogo(3),
   autogo_4     |-> autogo(4),
   full_2       |-> full(2),
   full_3       |-> full(3),
   full_4       |-> full(4),
   roster       |-> diff(s1_roster_order, 6),
   rooms        |-> diff(s2_rooms, 4),
   start        |-> diff(s3_go_start, 3),
   relay        |-> diff(s4_relay_crc, 2),
   drops        |-> diff(s5_drop_matrix, 8),
   framing      |-> diff(s6_framing(2), 4),
   limits       |-> racy(s7_limits, PerIp + 1),
   v1_roster    |-> v1(v1_roster_order, 5),
   v1_pairing   |-> v1(v1_pairing, 3),
   v1_relay     |-> v1(v1_relay_crc, 2),
   v1_drops     |-> v1(v1_drops, 5),
   v1_framing   |-> v1(s6_framing(1), 4),
   v1_limits    |-> v1(s7_limits, PerIp + 1)]
=============================================================================
