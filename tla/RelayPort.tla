----------------------------- MODULE RelayPort ------------------------------
(***************************************************************************)
(* What the C port (server/c/src/intv-relay.c, protocol v2 and v1) does    *)
(* with one event of its epoll loop, translated from the C alone, under    *)
(* the names of its functions.  Where the reference has objects and dicts  *)
(* it has arrays: client and room slots that are used again, an index for  *)
(* every reference, an array of names in display order, rows of the CRC    *)
(* table.  No send fails here, as in RelayServer.                          *)
(*                                                                         *)
(* A server state is a record:                                             *)
(*   sv       the program: [inC, proto, seats, autoGo]                     *)
(*   clients  the slots, each [in_use, gen, fd, dead, name, room, rx,      *)
(*            crclog, crc_ok], the last two for v1                         *)
(*   rooms    the slots, each [used, members, started, crc, crc_ok]        *)
(*   by_name  the array, of [name, ci]                                     *)
(*   tag      what epoll hands back for a connection: [ci, gen]            *)
(*   down     what is sent to each connection and not read by it yet       *)
(*   log      the log                                                      *)
(***************************************************************************)
EXTENDS RelayWire

Slots     == 0 .. MaxClients - 1
RoomSlots == 0 .. MaxClients \div 2 - 1      \* MAX_ROOMS

FreeRow == [in_use |-> FALSE, tick |-> 0, s |-> Nothing]
Rows    == [i \in 0 .. CrcTicks |-> FreeRow]

Wiped(g) == [in_use |-> FALSE, gen |-> g, fd |-> None, dead |-> FALSE, name |-> None,
             room |-> None, rx |-> <<>>, crclog |-> Nothing, crc_ok |-> 0]
FreeRoom == [used |-> FALSE, members |-> <<>>, started |-> FALSE, crc |-> Rows, crc_ok |-> 0]

Booted(sv) ==
  [sv      |-> sv,
   clients |-> [i \in Slots |-> Wiped(0)],
   rooms   |-> [i \in RoomSlots |-> FreeRoom],
   by_name |-> <<>>,
   tag     |-> [c \in Conns |-> None],
   down    |-> [c \in Conns |-> <<>>],
   log     |-> <<>>]

InUse(s)    == {i \in Slots : s.clients[i].in_use}
Fds(s)      == {s.clients[i].fd : i \in InUse(s)}
LOG(s, l)   == [s EXCEPT !.log = Append(@, l)]
crepr(s, i) == IF s.clients[i].name = None THEN "address" ELSE s.clients[i].name
rrepr(s, ms) == [k \in DOMAIN ms |-> s.clients[ms[k]].name]       \* and room_roster

send_frame(s, i, f) ==
  IF s.clients[i].dead THEN s ELSE [s EXCEPT !.down[s.clients[i].fd] = Append(@, f)]
send_frames(s, is, f) == FoldLeft(LAMBDA t, i : send_frame(t, i, f), s, is)

-----------------------------------------------------------------------------
(* by_name: a name that is there keeps its place, a new one goes last, and *)
(* the rest keep their order when one goes.                                *)

name_find(s, n) ==
  LET at == {k \in DOMAIN s.by_name : s.by_name[k].name = n} IN IF at = {} THEN 0 ELSE Min(at)

name_set(s, n, i) ==
  LET k == name_find(s, n) IN
  IF k > 0 THEN [s EXCEPT !.by_name[k].ci = i]
  ELSE IF Len(s.by_name) >= MaxClients THEN s
  ELSE [s EXCEPT !.by_name = Append(@, [name |-> n, ci |-> i])]

Bug_name_del_at(s, k) ==
  [s EXCEPT !.by_name = Front([@ EXCEPT ![k] = s.by_name[Len(s.by_name)]])]
name_del_at(s, k) == [s EXCEPT !.by_name = RemoveAt(@, k)]

forget_aliases(s, i) ==
  LET mine == {k \in DOMAIN s.by_name : s.by_name[k].ci = i}
  IN FoldLeft(name_del_at, s, Reverse(SetToSortSeq(mine, <)))

-----------------------------------------------------------------------------
(* Rooms.  A free slot is wiped when it is taken.                          *)

FreeRooms(s) == {r \in RoomSlots : ~s.rooms[r].used}
room_alloc(s, host) ==
  [s EXCEPT !.rooms[Min(FreeRooms(s))] = [FreeRoom EXCEPT !.used = TRUE, !.members = <<host>>]]

room_broadcast(s, r) ==
  LET ms == s.rooms[r].members IN send_frames(s, ms, [type |-> "ROOM", roster |-> rrepr(s, ms)])

ToSolo(s, is) ==
  [s EXCEPT !.clients = [i \in Slots |-> IF i \in is THEN [@[i] EXCEPT !.room = None] ELSE @[i]]]

dissolve(s, r, notify) ==
  LET told == send_frames(ToSolo(s, Range(s.rooms[r].members)), notify,
                          [type |-> "ROOM", roster |-> <<>>])
  IN [told EXCEPT !.rooms[r].members = <<>>, !.rooms[r].used = FALSE]

-----------------------------------------------------------------------------
(* drop(), by what is left of the room.                                    *)

client_free(s, i) == [s EXCEPT !.clients[i].in_use = FALSE, !.clients[i].gen = @ + 1]

unpair(s, r, rest) ==      \* v1: the partner's count is the one reported
  LET gone == [s EXCEPT !.rooms[r].members = <<>>, !.rooms[r].used = FALSE]
      p    == rest[1]
      solo == ToSolo(LOG(gone, <<"match ended", s.clients[p].crc_ok>>), {p})
  IN IF rest = <<>> THEN gone
     ELSE LOG(send_frame(solo, p, [type |-> "PEER_LEFT"]), <<"back to lobby", crepr(s, p)>>)

end_match(s, i, seat, r, rest) ==
  LET left == [type |-> "PEER_LEFT", name |-> s.clients[i].name, seat |-> seat]
      ended == dissolve(LOG(s, <<"match ended", s.rooms[r].crc_ok, crepr(s, i), seat>>), r, <<>>)
  IN FoldLeft(LAMBDA t, m : LOG(send_frame(t, m, left), <<"back to lobby", crepr(t, m)>>),
              ended, rest)

leave_room(s, i, seat, r) ==
  LET rest == s.rooms[r].members IN
  IF s.sv.proto = 1 THEN unpair(s, r, rest)
  ELSE IF s.rooms[r].started THEN end_match(s, i, seat, r, rest)
  ELSE IF seat = 0 THEN dissolve(LOG(s, <<"dissolved", rrepr(s, rest)>>), r, rest)
  ELSE IF Len(rest) < 2 THEN dissolve(s, r, rest)
  ELSE room_broadcast(s, r)

Bug_drop(s, i, why) ==
  LET r    == s.clients[i].room
      fd   == s.clients[i].fd
      dead == LOG([s EXCEPT !.clients[i].dead = TRUE], <<"drop", crepr(s, i), why>>)
      shut == forget_aliases([dead EXCEPT !.clients[i].fd = None,
                                          !.down[fd] = Append(@, EOF)], i)
  IN IF s.clients[i].dead THEN s
     ELSE IF r = None THEN client_free(shut, i)
     ELSE LET seat == CHOOSE k \in DOMAIN s.rooms[r].members : s.rooms[r].members[k] = i
          IN client_free(leave_room([shut EXCEPT !.clients[i].room = None], i, seat - 1, r), i)
drop(s, i, why) ==
  LET r    == s.clients[i].room
      fd   == s.clients[i].fd
      dead == LOG([s EXCEPT !.clients[i].dead = TRUE], <<"drop", crepr(s, i), why>>)
      shut == forget_aliases([dead EXCEPT !.clients[i].fd = None,
                                          !.down[fd] = Append(@, EOF)], i)
  IN IF s.clients[i].dead THEN s
     ELSE IF r = None THEN client_free(shut, i)
     ELSE LET seat == CHOOSE k \in DOMAIN s.rooms[r].members : s.rooms[r].members[k] = i
              left == [shut EXCEPT !.clients[i].room = None,
                                   !.rooms[r].members = RemoveAt(@, seat)]
          IN client_free(leave_room(left, i, seat - 1, r), i)

-----------------------------------------------------------------------------
(* The CRC comparators.                                                    *)

UsedRows(t) == {k \in DOMAIN t : t[k].in_use}
LowestRow(t) == CHOOSE k \in UsedRows(t) : \A j \in UsedRows(t) : t[k].tick <= t[j].tick

(* v2: a row is found by its tick or taken free, and the lowest row goes,  *)
(* which may be the one just used; it is judged all the same.              *)
log_crc(s, r, f) ==
  LET rm    == s.rooms[r]
      mine  == {k \in UsedRows(rm.crc) : rm.crc[k].tick = f.tick}
      k     == Min(IF mine # {} THEN mine ELSE DOMAIN rm.crc \ UsedRows(rm.crc))
      row   == IF mine # {} THEN rm.crc[k] ELSE [FreeRow EXCEPT !.in_use = TRUE, !.tick = f.tick]
      full  == f.seat \notin DOMAIN row.s /\ Cardinality(DOMAIN row.s) >= CrcSeats
      new   == IF full THEN row ELSE [row EXCEPT !.s = Put(@, f.seat, f.crc)]
      put   == [rm.crc EXCEPT ![k] = new]
      kept  == IF full \/ Cardinality(UsedRows(put)) <= CrcTicks THEN put
               ELSE [put EXCEPT ![LowestRow(put)].in_use = FALSE]
      done  == ~full /\ Cardinality(DOMAIN new.s) >= Len(rm.members)
      agree == Cardinality(Range(new.s)) = 1
      told  == [s EXCEPT !.rooms[r].crc = IF done THEN [kept EXCEPT ![k].in_use = FALSE] ELSE kept,
                         !.rooms[r].crc_ok = IF done /\ agree THEN @ + 1 ELSE @]
      ok    == told.rooms[r].crc_ok
  IN IF ~done THEN told
     ELSE IF ~agree THEN LOG(told, <<"CRC MISMATCH", f.tick, new.s>>)
     ELSE IF ok % 4 = 0 THEN LOG(told, <<"crc ok", ok, f.tick>>) ELSE told

(* v1: each client has a log of its own, and whoever reports second takes  *)
(* the partner's entry.                                                    *)
log_crc_v1(s, i, r, f) ==
  LET p    == CHOOSE m \in Range(s.rooms[r].members) : m # i
      own  == Put(s.clients[i].crclog, f.tick, f.crc)
      kept == IF Cardinality(DOMAIN own) > CrcTicks
              THEN Restrict(own, DOMAIN own \ {Min(DOMAIN own)}) ELSE own
      took == [s EXCEPT !.clients[p].crclog = Restrict(@, DOMAIN @ \ {f.tick})]
      both == [took EXCEPT !.clients[i].crc_ok = @ + 1, !.clients[p].crc_ok = @ + 1]
      ok   == both.clients[i].crc_ok
  IN IF f.tick \notin DOMAIN s.clients[p].crclog THEN [s EXCEPT !.clients[i].crclog = kept]
     ELSE IF s.clients[p].crclog[f.tick] # f.crc
     THEN LOG(took, <<"CRC MISMATCH", f.tick, crepr(s, i), crepr(s, p)>>)
     ELSE IF ok % 4 = 0 THEN LOG(both, <<"crc ok", ok, f.tick>>) ELSE both

-----------------------------------------------------------------------------
(* The frames of a client.                                                 *)

Bug_status_byte(s, i) ==
  LET r == s.clients[i].room
      n == IF r = None THEN 1 ELSE Len(s.rooms[r].members)
  IN IF s.sv.proto = 1 THEN [count |-> 0, busy |-> r # None]
     ELSE [count |-> n, busy |-> r # None /\ (s.rooms[r].started \/ n > s.sv.seats)]
status_byte(s, i) ==
  LET r == s.clients[i].room
      n == IF r = None THEN 1 ELSE Len(s.rooms[r].members)
  IN IF s.sv.proto = 1 THEN [count |-> 0, busy |-> r # None]
     ELSE [count |-> n, busy |-> r # None /\ (s.rooms[r].started \/ n >= s.sv.seats)]

on_list(s, i) ==
  LET others == SelectSeq(s.by_name, LAMBDA e : e.ci # i /\ s.clients[e.ci].name # None)
      shown  == SubSeq(others, 1, Min({Len(others), LobbyEntries}))
      entry(e) == [name |-> s.clients[e.ci].name, status |-> status_byte(s, e.ci)]
  IN send_frame(s, i, [type |-> "LOBBY", list |-> [k \in DOMAIN shown |-> entry(shown[k])]])

greet(s, i, n) ==          \* on_hello, once the name is free
  LET was   == s.clients[i].name
      k     == name_find(s, was)
      freed == IF was \in {None, n} THEN s
               ELSE LOG(IF k > 0 /\ s.by_name[k].ci = i THEN name_del_at(s, k) ELSE s,
                        <<"rename", was, n>>)
  IN on_list(LOG(name_set([freed EXCEPT !.clients[i].name = n], n, i), <<"hello", n>>), i)

on_hello(s, i, f) ==
  LET k == name_find(s, f.name) IN
  IF f.name = None THEN drop(s, i, "short hello")
  ELSE IF s.sv.proto = 2 /\ f.ver # 2 THEN drop(s, i, "protocol version")
  ELSE IF f.name \notin Names THEN drop(s, i, "bad name")
  ELSE greet(IF k = 0 \/ s.by_name[k].ci = i THEN s
             ELSE drop(s, s.by_name[k].ci, "replaced by new connection"), i, f.name)

start_room(s, r, seed) ==
  LET ms  == s.rooms[r].members
      new == [s EXCEPT !.rooms[r].started = TRUE, !.rooms[r].crc = Rows, !.rooms[r].crc_ok = 0]
      one(t, k) == send_frame(t, ms[k], [type |-> "START", seat |-> k - 1, seed |-> seed,
                                         roster |-> rrepr(s, ms)])
  IN LOG(FoldLeftDomain(one, new, ms), <<"match", rrepr(s, ms)>>)

start_pair(s, host, guest, seed) ==
  LET r    == Min(FreeRooms(s))
      in   == [s.clients[guest] EXCEPT !.room = r, !.crclog = Nothing, !.crc_ok = 0]
      made == [room_alloc(s, host) EXCEPT
                 !.rooms[r].members = <<host, guest>>, !.rooms[r].started = TRUE,
                 !.clients[host] = [@ EXCEPT !.room = r, !.crclog = Nothing, !.crc_ok = 0],
                 !.clients[guest] = in]
      START(t, to, role, other) ==
        send_frame(t, to, [type |-> "START", seat |-> role, seed |-> seed,
                           roster |-> <<s.clients[other].name>>])
  IN IF FreeRooms(s) = {} THEN on_list(s, guest)
     ELSE LOG(START(START(made, host, 0, guest), guest, 1, host),
              <<"match", crepr(s, host), crepr(s, guest)>>)

enter_room(s, i, t, seed) ==
  LET r    == IF s.clients[t].room # None THEN s.clients[t].room ELSE Min(FreeRooms(s))
      have == IF s.clients[t].room # None THEN s
              ELSE [room_alloc(s, t) EXCEPT !.clients[t].room = r]
      in   == [have EXCEPT !.rooms[r].members = Append(@, i), !.clients[i].room = r]
      ms   == in.rooms[r].members
      told == room_broadcast(LOG(in, <<"join", crepr(s, i), rrepr(s, ms)>>), r)
  IN IF s.clients[t].room = None /\ FreeRooms(s) = {} THEN on_list(s, i)
     ELSE IF s.sv.autoGo > 0 /\ Len(ms) >= s.sv.autoGo THEN start_room(told, r, seed) ELSE told

(* A name of more than eight characters matches none.                      *)
on_join(s, i, f, seed) ==
  LET k  == name_find(s, f.name)
      t  == s.by_name[k].ci
      r  == s.clients[t].room
      ok == /\ k > 0 /\ t # i /\ s.clients[t].name # None
            /\ \/ r = None
               \/ /\ s.sv.proto = 2
                  /\ ~s.rooms[r].started /\ Len(s.rooms[r].members) < s.sv.seats
  IN IF s.clients[i].name = None THEN drop(s, i, "join before hello")
     ELSE IF s.clients[i].room # None THEN s
     ELSE IF ~ok THEN on_list(s, i)
     ELSE IF s.sv.proto = 1 THEN start_pair(s, t, i, seed)
     ELSE enter_room(s, i, t, seed)

on_go(s, i, seed) ==
  LET r == s.clients[i].room IN
  IF r = None THEN s
  ELSE IF \/ s.rooms[r].started \/ Head(s.rooms[r].members) # i
          \/ Len(s.rooms[r].members) \notin 2 .. s.sv.seats
  THEN s ELSE start_room(s, r, seed)

relay(s, i, f) ==
  LET r == s.clients[i].room IN
  IF r = None THEN s
  ELSE IF ~s.rooms[r].started THEN s
  ELSE LET judged == IF f.type # "CRC" THEN s
                     ELSE IF s.sv.proto = 1 /\ f.len = 4 THEN log_crc_v1(s, i, r, f)
                     ELSE IF s.sv.proto = 2 /\ f.len = 5 THEN log_crc(s, r, f) ELSE s
       IN send_frames(judged, Remove(s.rooms[r].members, i), f)

handle(s, i, f, seed) ==
  CASE f.type \in RelayTypes -> relay(s, i, f)
    [] f.type = "HELLO" -> on_hello(s, i, f)
    [] f.type = "LIST"  -> on_list(s, i)
    [] f.type = "JOIN"  -> on_join(s, i, f, seed)
    [] f.type = "GO" /\ s.sv.proto = 2 -> on_go(s, i, seed)
    [] f.type = "BYE"   -> drop(s, i, "bye")
    [] f.type = "PING"  -> send_frame(s, i, [type |-> "PONG"])
    [] OTHER -> drop(s, i, "unknown type")

-----------------------------------------------------------------------------
(* accept_client(), and what the loop does with an event of a client.      *)

accept_client(s, c) ==
  LET i    == Min(Slots \ InUse(s))
      refuse(why) == LOG([s EXCEPT !.down[c] = Append(@, EOF)], <<"reject", why>>)
  IN IF Cardinality(InUse(s)) >= MaxClients THEN refuse("full")
     ELSE IF Cardinality(InUse(s)) >= PerIp THEN refuse("per-IP")
     ELSE LOG([s EXCEPT !.clients[i] = [Wiped(s.clients[i].gen) EXCEPT !.in_use = TRUE, !.fd = c],
                        !.tag[c] = [ci |-> i, gen |-> s.clients[i].gen]], <<"connect">>)

(* The slot an event is for, None when the client of the tag is gone.      *)
slot_of(s, c) ==
  LET t == s.tag[c] IN
  IF t = None THEN None
  ELSE IF s.clients[t.ci].in_use /\ s.clients[t.ci].gen = t.gen THEN t.ci ELSE None

feed_one(s, i, p, seed) ==
  IF s.clients[i].dead THEN s
  ELSE IF p.frame.type = "BAD LENGTH" THEN drop(s, i, "bad frame length")
  ELSE IF p.at < p.of THEN [s EXCEPT !.clients[i].rx = Append(@, p)]
  ELSE handle([s EXCEPT !.clients[i].rx = <<>>], i, p.frame, seed)

Bug_feed(s, i, chunk, seed) == feed_one(s, i, Head(chunk), seed)
feed(s, i, chunk, seed) == FoldLeft(LAMBDA t, p : feed_one(t, i, p, seed), s, chunk)
=============================================================================
