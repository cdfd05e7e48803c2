---------------------------- MODULE RelayServer -----------------------------
(***************************************************************************)
(* What the reference relay does with one event of its select loop: a     *)
(* connection, or the bytes one recv returns (server/intv_relay_server.py, *)
(* protocol v2).  Each is a function from a server state to the next: the  *)
(* answer to every frame with its contents, the order of the lobby, the    *)
(* CRC comparator and the log.  No send fails here: RelayRooms has the     *)
(* drops a failed send nests.                                              *)
(*                                                                         *)
(* A server state is a record:                                             *)
(*   sv      the program: [inC, proto, seats, autoGo]                      *)
(*   open    Server.clients                                                *)
(*   name    Client.name, None before HELLO                                *)
(*   byName  Server.by_name, a dict: pairs in insertion order              *)
(*   rooms   the Rooms, each [members, started, crc, ok]                   *)
(*   rx      Client.rx, of the pieces of frames                            *)
(*   down    what is sent to each client and not read by it yet            *)
(*   log     the log                                                       *)
(***************************************************************************)
EXTENDS RelayWire

Started(sv) ==
  [sv     |-> sv,
   open   |-> {},
   name   |-> [c \in Conns |-> None],
   byName |-> <<>>,
   rooms  |-> {},
   rx     |-> [c \in Conns |-> <<>>],
   down   |-> [c \in Conns |-> <<>>],
   log    |-> <<>>]

(* repr() of a client; the harness that reads the log masks the address.   *)
Who(s, c)    == IF s.name[c] = None THEN "address" ELSE s.name[c]
Roster(s, ms) == [i \in DOMAIN ms |-> s.name[ms[i]]]
Line(s, l)   == [s EXCEPT !.log = Append(@, l)]
Post(s, c, f) == IF c \in s.open THEN [s EXCEPT !.down[c] = Append(@, f)] ELSE s

PostAll(s, ms, f)  == FoldLeft(LAMBDA t, c : Post(t, c, f), s, ms)

-----------------------------------------------------------------------------
(* by_name.  A new name goes last, a name that is there keeps its place.   *)
Holder(s, n) ==
  LET held == {e \in Range(s.byName) : e.name = n}
  IN IF held = {} THEN None ELSE (CHOOSE e \in held : TRUE).of

SetName(d, n, c) ==
  IF \E i \in DOMAIN d : d[i].name = n
  THEN [i \in DOMAIN d |-> IF d[i].name = n THEN [d[i] EXCEPT !.of = c] ELSE d[i]]
  ELSE Append(d, [name |-> n, of |-> c])
DelName(d, n) == SelectSeq(d, LAMBDA e : e.name # n)

(* The room a client is in, {} or a singleton; and a room in a new state.  *)
RoomOf(s, c)        == {r \in s.rooms : c \in Range(r.members)}
TheRoom(s, c)       == CHOOSE r \in s.rooms : c \in Range(r.members)
SetRoom(s, old, new) == [s EXCEPT !.rooms = (@ \ {old}) \cup {new}]
DelRoom(s, r)       == [s EXCEPT !.rooms = @ \ {r}]

(* The status byte: members and bit 7.                                     *)
Status(s, c) ==
  IF RoomOf(s, c) = {} THEN [count |-> 1, busy |-> FALSE]
  ELSE LET r == TheRoom(s, c) IN
       [count |-> Len(r.members), busy |-> r.started \/ Len(r.members) >= s.sv.seats]

(* LOBBY: the first others, in the order of by_name.                       *)
OnList(s, c) ==
  LET others == SelectSeq(s.byName, LAMBDA e : e.of # c)
      shown  == SubSeq(others, 1, Min({Len(others), LobbyEntries}))
  IN Post(s, c, [type |-> "LOBBY",
                 list |-> [i \in DOMAIN shown |->
                             [name |-> shown[i].name, status |-> Status(s, shown[i].of)]]])

RoomFrame(s, ms) == [type |-> "ROOM", roster |-> Roster(s, ms)]   \* <<>> is count 0

-----------------------------------------------------------------------------
(* Leaving.                                                                *)

LeftFrame(s, c, r) == [type |-> "PEER_LEFT", name |-> s.name[c],
                       seat |-> (CHOOSE i \in DOMAIN r.members : r.members[i] = c) - 1]

EndMatch(s, c, r, rest) ==
  LET left  == LeftFrame(s, c, r)
      ended == Line(DelRoom(s, r), <<"match ended", r.ok, s.name[c], left.seat>>)
  IN FoldLeft(LAMBDA t, m : Line(Post(t, m, left), <<"back to lobby", s.name[m]>>), ended, rest)

Leave(s, c, r) ==
  LET rest == Remove(r.members, c) IN
  IF r.started THEN EndMatch(s, c, r, rest)
  ELSE IF Head(r.members) = c
       THEN PostAll(Line(DelRoom(s, r), <<"dissolved", Roster(s, rest)>>), rest, RoomFrame(s, <<>>))
  ELSE IF Len(rest) < 2 THEN PostAll(DelRoom(s, r), rest, RoomFrame(s, <<>>))
  ELSE PostAll(SetRoom(s, r, [r EXCEPT !.members = rest]), rest, RoomFrame(s, rest))

(* drop(): closes, forgets every name of the client, and leaves its room.  *)
Drop(s, c, why) ==
  LET closed == Line([s EXCEPT !.open = @ \ {c}, !.down[c] = Append(@, EOF),
                               !.byName = SelectSeq(@, LAMBDA e : e.of # c)],
                     <<"drop", Who(s, c), why>>)
  IN IF c \notin s.open THEN s
     ELSE IF RoomOf(s, c) = {} THEN closed
     ELSE Leave(closed, c, TheRoom(s, c))

-----------------------------------------------------------------------------
(* The CRC comparator.                                                     *)

Agreed(s, old, new, tick) ==
  LET n    == new.ok + 1
      told == SetRoom(s, old, [new EXCEPT !.ok = n])
  IN IF n % 4 = 0 THEN Line(told, <<"crc ok", n, tick>>) ELSE told

(* A round every member has reported on: entry is seat -> crc.             *)
Judge(s, old, new, tick, entry) ==
  IF Cardinality(Range(entry)) # 1
  THEN Line(SetRoom(s, old, new), <<"CRC MISMATCH", tick, entry>>)
  ELSE Agreed(s, old, new, tick)

(* A dict of dicts; over CrcTicks rounds the lowest tick goes.             *)
LogCrc(s, r, f) ==
  LET entry == Put(IF f.tick \in DOMAIN r.crc THEN r.crc[f.tick] ELSE Nothing, f.seat, f.crc)
      table == Put(r.crc, f.tick, entry)
      kept  == IF Cardinality(DOMAIN table) > CrcTicks
               THEN Restrict(table, DOMAIN table \ {Min(DOMAIN table)}) ELSE table
      over  == [r EXCEPT !.crc = Restrict(kept, DOMAIN kept \ {f.tick})]
  IN IF Cardinality(DOMAIN entry) < Len(r.members)
     THEN SetRoom(s, r, [r EXCEPT !.crc = kept])
     ELSE Judge(s, r, over, f.tick, entry)

-----------------------------------------------------------------------------
(* The frames of a client.                                                 *)

(* Between the frames of a match and its end on the console nothing is     *)
(* relayed, and nothing is wrong.                                          *)
OnRelay(s, c, f) ==
  IF RoomOf(s, c) = {} \/ ~TheRoom(s, c).started THEN s
  ELSE PostAll(IF f.type = "CRC" /\ f.len = 5 THEN LogCrc(s, TheRoom(s, c), f) ELSE s,
               Remove(TheRoom(s, c).members, c), f)

(* The rest of on_hello, once the name is free.                            *)
Register(s, c, n) ==
  LET was   == s.name[c]
      freed == IF was \in {None, n} THEN s
               ELSE Line(IF Holder(s, was) = c THEN [s EXCEPT !.byName = DelName(@, was)] ELSE s,
                         <<"rename", was, n>>)
  IN OnList(Line([freed EXCEPT !.name[c] = n, !.byName = SetName(@, n, c)], <<"hello", n>>), c)

(* A payload of fewer than three bytes has no name.                        *)
OnHello(s, c, f) ==
  IF f.name = None THEN Drop(s, c, "short hello")
  ELSE IF f.ver # 2 THEN Drop(s, c, "protocol version")
  ELSE IF f.name \notin Names THEN Drop(s, c, "bad name")
  ELSE LET old == Holder(s, f.name) IN
       Register(IF old \in {None, c} THEN s ELSE Drop(s, old, "replaced by new connection"),
                c, f.name)

(* The seed is random.                                                     *)
StartRoom(s, r, seed) ==
  LET new == [r EXCEPT !.started = TRUE, !.ok = 0, !.crc = Nothing]
      one(t, i) == Post(t, r.members[i], [type |-> "START", seat |-> i - 1, seed |-> seed,
                                          roster |-> Roster(s, r.members)])
  IN Line(FoldLeftDomain(one, SetRoom(s, r, new), r.members),
          <<"match", Roster(s, r.members)>>)

(* A JOIN goes to the room of the player it names, or makes one.           *)
EnterRoom(s, c, t, seed) ==
  LET solo == RoomOf(s, t) = {}
      old  == IF solo THEN [members |-> <<t>>, started |-> FALSE, crc |-> Nothing, ok |-> 0]
              ELSE TheRoom(s, t)
      new  == [old EXCEPT !.members = Append(@, c)]
      in   == PostAll(Line(SetRoom(s, old, new), <<"join", s.name[c], Roster(s, new.members)>>),
                      new.members, RoomFrame(s, new.members))
  IN IF s.sv.autoGo > 0 /\ Len(new.members) >= s.sv.autoGo THEN StartRoom(in, new, seed) ELSE in

Joinable(s, c, t) ==
  /\ t \notin {None, c}
  /\ \/ RoomOf(s, t) = {}
     \/ ~TheRoom(s, t).started /\ Len(TheRoom(s, t).members) < s.sv.seats

OnJoin(s, c, f, seed) ==
  LET t == Holder(s, f.name) IN
  IF s.name[c] = None THEN Drop(s, c, "join before hello")
  ELSE IF RoomOf(s, c) # {} THEN s
  ELSE IF ~Joinable(s, c, t) THEN OnList(s, c)
  ELSE EnterRoom(s, c, t, seed)

OnGo(s, c, seed) ==
  IF RoomOf(s, c) = {} THEN s
  ELSE LET r == TheRoom(s, c) IN
       IF r.started \/ Head(r.members) # c \/ Len(r.members) \notin 2 .. s.sv.seats
       THEN s ELSE StartRoom(s, r, seed)

Handle(s, c, f, seed) ==
  CASE f.type \in RelayTypes -> OnRelay(s, c, f)
    [] f.type = "HELLO" -> OnHello(s, c, f)
    [] f.type = "LIST"  -> OnList(s, c)
    [] f.type = "JOIN"  -> OnJoin(s, c, f, seed)
    [] f.type = "GO"    -> OnGo(s, c, seed)
    [] f.type = "BYE"   -> Drop(s, c, "bye")
    [] f.type = "PING"  -> Post(s, c, [type |-> "PONG"])
    [] OTHER -> Drop(s, c, "unknown type")

-----------------------------------------------------------------------------
(* accept() and the reassembler.                                           *)

Accept(s, c) ==
  IF Cardinality(s.open) >= Min({MaxClients, PerIp})
  THEN Line([s EXCEPT !.down[c] = Append(@, EOF)],
            <<"reject", IF Cardinality(s.open) >= MaxClients THEN "full" ELSE "per-IP">>)
  ELSE Line([s EXCEPT !.open = @ \cup {c}], <<"connect">>)

(* One more piece.  A bad length byte drops at once, an unfinished frame   *)
(* waits, and a client dropped by its own frame is not served further.     *)
Feed(s, c, p, seed) ==
  IF c \notin s.open THEN s
  ELSE IF p.frame.type = "BAD LENGTH" THEN Drop(s, c, "bad frame length")
  ELSE IF p.at < p.of THEN [s EXCEPT !.rx[c] = Append(@, p)]
  ELSE Handle([s EXCEPT !.rx[c] = <<>>], c, p.frame, seed)

Service(s, c, chunk, seed) == FoldLeft(LAMBDA t, p : Feed(t, c, p, seed), s, chunk)
=============================================================================
