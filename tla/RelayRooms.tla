----------------------------- MODULE RelayRooms -----------------------------
(***************************************************************************)
(* Matchmaking on the relay: connections, names, rooms and matches, of the *)
(* reference server (server/intv_relay_server.py) and of its C port        *)
(* (server/c/src/intv-relay.c), with the session view each console folds   *)
(* from the frames it is sent (src/netcode/session.asm, SES_ONFRAME).      *)
(*                                                                         *)
(* The server is one thread, and one event is handled at a time; but a     *)
(* send can fail, a failed send drops its client, and a drop sends to the  *)
(* others, all inside the loop over members that made the first send.      *)
(* `agenda' is the call stack of the event being handled: what is still to *)
(* be done, innermost first.                                               *)
(*                                                                         *)
(* A roster is kept as the sequence of members it names; a room is named   *)
(* by the client it was created for.                                       *)
(***************************************************************************)
EXTENDS Integers, Sequences, FiniteSets, SequencesExt

CONSTANTS
  Clients,   \* connections, each used once
  Names,     \* player names
  None,      \* no client, no name, no room
  MaxSeats,  \* MAX_SEATS
  Servers,   \* the servers checked: [inC |-> which of the two programs,
             \*   autoGo |-> its --auto-go, 0 when it is off]
  MaxBroken  \* bound: connections that fail at a send

ASSUME NoneAssumption   == None \notin Clients \cup Names
ASSUME FiniteAssumption == IsFiniteSet(Clients) /\ IsFiniteSet(Names)
ASSUME SeatsAssumption  == MaxSeats \in Nat /\ MaxSeats >= 2
ASSUME ServerAssumption == Servers \subseteq [inC : BOOLEAN, autoGo : Nat] /\ MaxBroken \in Nat

VARIABLES
  server,     \* the server that runs: chosen once
  conn,       \* "new", "up" or "dead": Client.dead
  broken,     \* connections whose next send fails: reset, or backlog full
  name,       \* Client.name
  byName,     \* Server.by_name
  room,       \* Client.room
  members,    \* Room.members: join order is seat order
  started,    \* Room.started
  published,  \* the count last given to LobbyPublisher.update
  view,       \* the console's NAME_TBL, NET_ACTIVE, NET_SEAT and NET_DROPPED
  agenda

vars == <<server, conn, broken, name, byName, room, members, started, published, view, agenda>>

idle == agenda = <<>>

RoomFrame(ms)   == [type |-> "ROOM", roster |-> ms]     \* <<>> is count 0
StartFrame(ms)  == [type |-> "START", roster |-> ms, seat |-> 0]
LeftFrame       == [type |-> "PEER_LEFT"]
RelayFrame      == [type |-> "RELAY"]                   \* INPUT, CRC, STATE, RESYNC
ReplyFrame      == [type |-> "REPLY"]                   \* LOBBY, PONG

(* What the code still has to do, one record per pending call.             *)
SendTask(c, f)    == [op |-> "send", to |-> c, frame |-> f]
DropTask(c)       == [op |-> "drop", of |-> c]
EachTask(r, i, f, but) == [op |-> "each", in |-> r, at |-> i, frame |-> f, but |-> but]
ClearTask(r)      == [op |-> "clear", in |-> r]
RegisterTask(c, n) == [op |-> "register", of |-> c, as |-> n]
AutoGoTask(r)     == [op |-> "autogo", in |-> r]
PublishTask       == [op |-> "publish"]

Players(names) == Cardinality({n \in Names : names[n] # None})
SendAll(ms, f) == [i \in DOMAIN ms |-> SendTask(ms[i], f)]

(* START tells every member its own seat.                                  *)
Bug_Addressed(f, i) == f
Addressed(f, i) == IF f.type = "START" THEN [f EXCEPT !.seat = i - 1] ELSE f

(* One frame to every member of a room but one.  The C server copies the   *)
(* member list before it sends, the Python server walks the list itself.   *)
Announce(r, ms, f, but) ==
  IF server.inC THEN [i \in DOMAIN ms |-> IF ms[i] = but THEN SendTask(None, f)
                                       ELSE SendTask(ms[i], Addressed(f, i))]
             ELSE <<EachTask(r, 1, f, but)>>

NoView == [roster |-> <<>>, active |-> FALSE, seat |-> 0, dropped |-> FALSE]

(* What a console makes of a frame.                                        *)
Fold(v, f) ==
  CASE f.type = "ROOM" /\ ~v.active -> [v EXCEPT !.roster = f.roster]
    [] f.type = "START" ->
         [v EXCEPT !.roster = f.roster, !.seat = f.seat, !.active = TRUE]
    [] f.type = "PEER_LEFT" -> [v EXCEPT !.dropped = TRUE]
    [] OTHER -> v

-----------------------------------------------------------------------------
Init ==
  /\ server \in Servers
  /\ conn      = [c \in Clients |-> "new"]
  /\ broken    = {}
  /\ name      = [c \in Clients |-> None]
  /\ byName    = [n \in Names |-> None]
  /\ room      = [c \in Clients |-> None]
  /\ members   = [c \in Clients |-> <<>>]
  /\ started   = [c \in Clients |-> FALSE]
  /\ published = 0
  /\ view      = [c \in Clients |-> NoView]
  /\ agenda    = <<>>

(* send(): nothing to the dead; a failure drops the client on the spot.    *)
Send(t) ==
  IF t.to = None \/ conn[t.to] # "up"
  THEN agenda' = Tail(agenda) /\ UNCHANGED view
  ELSE IF t.to \in broken
  THEN agenda' = <<DropTask(t.to)>> \o Tail(agenda) /\ UNCHANGED view
  ELSE agenda' = Tail(agenda) /\ view' = [view EXCEPT ![t.to] = Fold(@, t.frame)]

DoSend ==
  /\ ~idle /\ Head(agenda).op = "send"
  /\ Send(Head(agenda))
  /\ UNCHANGED <<conn, broken, name, byName, room, members, started, published>>

(* The Python loops: the index moves over whatever the list is by then.    *)
DoEach ==
  /\ ~idle /\ Head(agenda).op = "each"
  /\ LET t == Head(agenda)
         m == members[t.in][t.at]
     IN agenda' =
          IF t.at > Len(members[t.in]) THEN Tail(agenda)
          ELSE (IF m = t.but THEN <<>> ELSE <<SendTask(m, Addressed(t.frame, t.at))>>)
                 \o <<[t EXCEPT !.at = @ + 1]>> \o Tail(agenda)
  /\ UNCHANGED <<conn, broken, name, byName, room, members, started, published, view>>

(* list.remove, and the loop of the C server that closes the gap.          *)
Without(ms, c) == RemoveAt(ms, CHOOSE i \in DOMAIN ms : ms[i] = c)

Unnamed(c) == [n \in Names |-> IF byName[n] = c THEN None ELSE byName[n]]

(* The part of drop() every client goes through.  The name and the view of *)
(* a dead client are used no more and are forgotten here.                  *)
Bug_Forget(c) ==
  /\ conn'      = [conn EXCEPT ![c] = "dead"]
  /\ byName'    = Unnamed(c)
  /\ name'      = [name EXCEPT ![c] = None]
  /\ view'      = [view EXCEPT ![c] = NoView]
  /\ UNCHANGED published

Forget(c) ==
  /\ conn'      = [conn EXCEPT ![c] = "dead"]
  /\ byName'    = Unnamed(c)
  /\ name'      = [name EXCEPT ![c] = None]
  /\ view'      = [view EXCEPT ![c] = NoView]
  /\ published' = IF byName' = byName THEN published ELSE Players(byName')

(* What a member's drop leaves the others to do.                           *)
Bug_EndMatch(c, r, rest) ==
  /\ room'    = [m \in Clients |-> IF room[m] = r THEN None ELSE room[m]]
  /\ members' = [members EXCEPT ![r] = <<>>]
  /\ started' = [started EXCEPT ![r] = FALSE]       \* nobody holds this Room any more
  /\ agenda'  = SendAll(members'[r], LeftFrame) \o <<PublishTask>> \o Tail(agenda)

EndMatch(c, r, rest) ==
  /\ room'    = [m \in Clients |-> IF room[m] = r THEN None ELSE room[m]]
  /\ members' = [members EXCEPT ![r] = <<>>]
  /\ started' = [started EXCEPT ![r] = FALSE]       \* nobody holds this Room any more
  /\ agenda'  = SendAll(rest, LeftFrame) \o <<PublishTask>> \o Tail(agenda)

Bug_Dissolve(c, r, rest) ==
  /\ room'    = [m \in Clients |-> IF room[m] = r THEN None ELSE room[m]]
  /\ members' = [members EXCEPT ![r] = <<>>]
  /\ UNCHANGED started
  /\ agenda'  = <<PublishTask>> \o Tail(agenda)

Dissolve(c, r, rest) ==
  /\ room'    = [m \in Clients |-> IF room[m] = r THEN None ELSE room[m]]
  /\ members' = [members EXCEPT ![r] = rest]
  /\ UNCHANGED started
  /\ agenda'  = SendAll(rest, RoomFrame(<<>>)) \o <<ClearTask(r), PublishTask>> \o Tail(agenda)

Reseat(c, r, rest) ==
  /\ room'    = [room EXCEPT ![c] = None]
  /\ members' = [members EXCEPT ![r] = rest]
  /\ UNCHANGED started
  /\ agenda'  = Announce(r, rest, RoomFrame(rest), None) \o <<PublishTask>> \o Tail(agenda)

(* A dropped member ends a started match for all; a dropped host, or the   *)
(* last guest, ends a forming room; another guest is unseated.             *)
Bug_LeaveRoom(c, r, rest) ==
  IF started[r] THEN EndMatch(c, r, rest)
  ELSE IF Head(members[r]) = c THEN Dissolve(c, r, rest)
  ELSE Reseat(c, r, rest)
LeaveRoom(c, r, rest) ==
  IF started[r] THEN EndMatch(c, r, rest)
  ELSE IF Head(members[r]) = c \/ Len(rest) < 2 THEN Dissolve(c, r, rest)
  ELSE Reseat(c, r, rest)

DoDrop ==
  /\ ~idle /\ Head(agenda).op = "drop"
  /\ LET c == Head(agenda).of
         r == room[c]
     IN IF conn[c] = "dead"
        THEN /\ agenda' = Tail(agenda)
             /\ UNCHANGED <<conn, name, byName, room, members, started, published, view>>
        ELSE /\ Forget(c)
             /\ IF r = None THEN agenda' = Tail(agenda) /\ UNCHANGED <<room, members, started>>
                ELSE LeaveRoom(c, r, Without(members[r], c))
  /\ UNCHANGED broken

DoClear ==
  /\ ~idle /\ Head(agenda).op = "clear"
  /\ members' = [members EXCEPT ![Head(agenda).in] = <<>>]
  /\ agenda' = Tail(agenda)
  /\ UNCHANGED <<conn, broken, name, byName, room, started, published, view>>

DoPublish ==
  /\ ~idle /\ Head(agenda).op = "publish"
  /\ published' = Players(byName)
  /\ agenda' = Tail(agenda)
  /\ UNCHANGED <<conn, broken, name, byName, room, members, started, view>>

(* The rest of on_hello, once the old holder of the name is gone.  Only    *)
(* the C server looks whether that drop took the caller with it.           *)
DoRegister ==
  /\ ~idle /\ Head(agenda).op = "register"
  /\ LET c == Head(agenda).of
         n == Head(agenda).as
         freed == IF name[c] \notin {None, n} /\ byName[name[c]] = c
                  THEN [byName EXCEPT ![name[c]] = None] ELSE byName
     IN IF server.inC /\ conn[c] = "dead"
        THEN agenda' = Tail(agenda) /\ UNCHANGED <<name, byName>>
        ELSE /\ name'   = [name EXCEPT ![c] = n]
             /\ byName' = [freed EXCEPT ![n] = c]
             /\ agenda' = <<PublishTask, SendTask(c, ReplyFrame)>> \o Tail(agenda)
  /\ UNCHANGED <<conn, broken, room, members, started, published, view>>

(* start_room: the roster and the count are those of this moment.          *)
StartRoom(r, rest) ==
  /\ started' = [started EXCEPT ![r] = TRUE]
  /\ agenda'  = Announce(r, members[r], StartFrame(members[r]), None)
                  \o <<PublishTask>> \o rest

DoAutoGo ==
  /\ ~idle /\ Head(agenda).op = "autogo"
  /\ LET r == Head(agenda).in IN
     IF server.autoGo > 0 /\ Len(members[r]) >= server.autoGo
     THEN StartRoom(r, Tail(agenda))
     ELSE agenda' = Tail(agenda) /\ UNCHANGED started
  /\ UNCHANGED <<conn, broken, name, byName, room, members, published, view>>

-----------------------------------------------------------------------------
(* The events of the select loop, each handled to the end of the agenda.   *)

Accept(c) ==
  /\ idle /\ conn[c] = "new"
  /\ conn' = [conn EXCEPT ![c] = "up"]
  /\ UNCHANGED <<broken, name, byName, room, members, started, published, view, agenda>>

(* The network or a full transmit backlog: the next send to c fails.       *)
Break(c) ==
  /\ idle /\ conn[c] = "up"
  /\ Cardinality(broken) < MaxBroken
  /\ broken' = broken \cup {c}
  /\ UNCHANGED <<conn, name, byName, room, members, started, published, view, agenda>>

Bug_OnHello(c, n) ==
  /\ idle /\ conn[c] = "up"
  /\ agenda' = <<RegisterTask(c, n)>>
  /\ UNCHANGED <<conn, broken, name, byName, room, members, started, published, view>>

OnHello(c, n) ==
  /\ idle /\ conn[c] = "up"
  /\ agenda' = (IF byName[n] \in {None, c} THEN <<>> ELSE <<DropTask(byName[n])>>)
                 \o <<RegisterTask(c, n)>>
  /\ UNCHANGED <<conn, broken, name, byName, room, members, started, published, view>>

(* LIST and PING: a reply and nothing else.                                *)
OnAsk(c) ==
  /\ idle /\ conn[c] = "up"
  /\ agenda' = <<SendTask(c, ReplyFrame)>>
  /\ UNCHANGED <<conn, broken, name, byName, room, members, started, published, view>>

Bug_Joinable(c, t) == t \notin {None, c} /\ (room[t] = None \/ ~started[room[t]])
Joinable(c, t) ==
  /\ t \notin {None, c}
  /\ room[t] = None \/ (~started[room[t]] /\ Len(members[room[t]]) < MaxSeats)

(* JOIN redirects to the room of the player it names, or makes one.        *)
EnterRoom(c, t) ==
  LET r  == IF room[t] = None THEN t ELSE room[t]
      ms == Append(IF room[t] = None THEN <<t>> ELSE members[r], c)
  IN /\ room'    = [room EXCEPT ![t] = r, ![c] = r]
     /\ members' = [members EXCEPT ![r] = ms]
     /\ agenda'  = Announce(r, ms, RoomFrame(ms), None) \o <<PublishTask, AutoGoTask(r)>>

OnJoin(c, n) ==
  /\ idle /\ conn[c] = "up" /\ room[c] = None
  /\ IF name[c] # None /\ Joinable(c, byName[n])
     THEN EnterRoom(c, byName[n])
     ELSE /\ agenda' = IF name[c] = None THEN <<DropTask(c)>> ELSE <<SendTask(c, ReplyFrame)>>
          /\ UNCHANGED <<room, members>>
  /\ UNCHANGED <<conn, broken, name, byName, started, published, view>>

(* GO: of the host, before the match, with two members or more.            *)
OnGo(c) ==
  /\ idle /\ conn[c] = "up" /\ room[c] # None /\ ~started[room[c]]
  /\ Head(members[room[c]]) = c
  /\ Len(members[room[c]]) \in 2 .. MaxSeats
  /\ StartRoom(room[c], <<>>)
  /\ UNCHANGED <<conn, broken, name, byName, room, members, published, view>>

(* INPUT, CRC, STATE and RESYNC of a started match go to the others.       *)
OnRelay(c) ==
  /\ idle /\ conn[c] = "up" /\ room[c] # None /\ started[room[c]]
  /\ agenda' = Announce(room[c], members[room[c]], RelayFrame, c)
  /\ UNCHANGED <<conn, broken, name, byName, room, members, started, published, view>>

(* BYE, end of file, a receive error or a malformed frame; for a           *)
(* connection with no name also the sweep's HELLO timeout.                 *)
OnGone(c) ==
  /\ idle /\ conn[c] = "up"
  /\ agenda' = <<DropTask(c)>>
  /\ UNCHANGED <<conn, broken, name, byName, room, members, started, published, view>>

Step ==
  \/ DoSend \/ DoEach \/ DoDrop \/ DoClear \/ DoPublish \/ DoRegister \/ DoAutoGo
  \/ \E c \in Clients :
       \/ Accept(c) \/ Break(c) \/ OnAsk(c) \/ OnGo(c) \/ OnRelay(c) \/ OnGone(c)
       \/ \E n \in Names : OnHello(c, n) \/ OnJoin(c, n)

Next == Step /\ UNCHANGED server

Spec == Init /\ [][Next]_vars

-----------------------------------------------------------------------------
(* Properties                                                              *)

up   == {c \in Clients : conn[c] = "up"}
dead == {c \in Clients : conn[c] = "dead"}

(* The state has the types the code declares.  The agenda ends: only drops *)
(* nest, a level of it is no longer than a room, and it costs a client.    *)
TypeOK ==
  /\ conn \in [Clients -> {"new", "up", "dead"}]
  /\ broken \in SUBSET Clients
  /\ name \in [Clients -> Names \cup {None}]
  /\ byName \in [Names -> Clients \cup {None}]
  /\ room \in [Clients -> Clients \cup {None}]
  /\ \A r \in Clients : members[r] \in BoundedSeq(Clients, MaxSeats)
  /\ started \in [Clients -> BOOLEAN]
  /\ published \in 0 .. Cardinality(Names)
  /\ Len(agenda) <= (MaxSeats + 2) * (Cardinality(dead) + 1) + 1

(* The Python server keeps the next two only while sends succeed: nothing  *)
(* in it checks that the drop in on_hello has spared its caller.           *)
Sound == server.inC \/ broken = {}

(* Once an event is handled, the two ends of every membership agree: a     *)
(* room lists exactly the live clients that point at it, each once, and    *)
(* has two members at least and MAX_SEATS at most.  Whatever sends failed  *)
(* in the middle of joining, starting, leaving or dissolving (room_        *)
(* broadcast, start_room, drop and dissolve all nest in one another).      *)
RoomsConsistent ==
  idle /\ Sound => \A r \in Clients :
    /\ ToSet(members[r]) = {c \in Clients : room[c] = r}
    /\ ToSet(members[r]) \subseteq up
    /\ IsInjective(members[r])
    /\ members[r] = <<>> \/ Len(members[r]) \in 2 .. MaxSeats

(* Once an event is handled, the name table and the clients agree: an      *)
(* entry is the live client of that name, every live named client has one  *)
(* (on_hello, drop); and the Lobby was last told the size of the table,    *)
(* whatever drops were nested in the event.                                *)
NamesLive ==
  idle =>
    /\ published = Players(byName)
    /\ Sound => /\ \A n \in Names : byName[n] # None => byName[n] \in up /\ name[byName[n]] = n
                /\ \A c \in up : name[c] # None => byName[name[c]] = c

(* A console that is in a match whose room is gone has been told: it is    *)
(* never left at its gate by the server's own doing, even when the match   *)
(* ended while START was still being sent.                                 *)
NobodyStranded ==
  idle => \A c \in up : view[c].active /\ room[c] = None => view[c].dropped

(* Every member of a started room plays in the seat the room gives it:     *)
(* its START, or the last of several, named the room's members in order.   *)
MatchAgrees ==
  idle /\ broken = {} => \A c \in up : room[c] # None /\ started[room[c]] =>
    /\ view[c].active
    /\ view[c].roster = members[room[c]]
    /\ view[c].roster[view[c].seat + 1] = c

(* As long as no send fails, the waiting room a console shows is the room  *)
(* it is in: "ROOM count(1) roster(4 x name8) -- membership change".       *)
Shows(c) == view[c].roster = IF room[c] = None THEN <<>> ELSE members[room[c]]
WaitingCurrent == idle /\ broken = {} => \A c \in up : ~view[c].active => Shows(c)

(* When on_hello goes on after dropping the old holder of the name, its    *)
(* caller is still connected: "cannot happen; cheap to be sure" says the C *)
(* server of the opposite (intv-relay.c, on_hello).                        *)
CallerSurvives ==
  ~idle /\ Head(agenda).op = "register" => conn[Head(agenda).of] = "up"

(* "any drop ends the match for everyone (user decision): name the leaver, *)
(* dissolve, all survivors back to the lobby" (intv_relay_server.py, drop) *)
SurvivorsReturn ==
  idle => \A c \in up : name[c] # None /\ room[c] = None => ~view[c].active

=============================================================================
