------------------------------ MODULE RelayRig ------------------------------
(***************************************************************************)
(* The rigs that hold the relays to their protocol, with the relay they    *)
(* drive: the protocol gate (tools/bbnet_client_sim.py), which asserts on  *)
(* what simulated consoles receive, and the differential                   *)
(* (tools/server_diff.py), which plays one script to the reference and to  *)
(* the C port and compares every frame and log line.                       *)
(*                                                                         *)
(* The rig is one thread and the server another.  Between them are the     *)
(* sockets: `up' and `down' of each connection, the listen backlog, and    *)
(* the ready list of the server's epoll, in order of arrival, a socket     *)
(* staying on it until a poll finds nothing to read.                       *)
(*                                                                         *)
(* A wait of the rig is seconds, or QUIET, long, and a pass of the server  *)
(* is microseconds: it runs out only when the server has nothing to do.    *)
(* The wall-clock limits that end a wait on a server that does not answer  *)
(* are left out: it is the server, or a loop of the rig, that must not     *)
(* keep the rig for ever.                                                  *)
(***************************************************************************)
EXTENDS RigScripts

CONSTANTS
  Plays,   \* the programs played, by name
  Seeds    \* what random.randrange may give a match

ASSUME PlaysAssumption == Plays \subseteq DOMAIN Programs
ASSUME ConnsAssumption == Conns = 1 .. Cardinality(Conns)

VARIABLES
  prog,      \* the program played, chosen once
  turn,      \* which of its servers is up
  pc,        \* the step of the script
  verdict,   \* "running", "passed" or "failed"
  srv,       \* the server's state
  up,        \* on the way to the server: pieces of frames, Fin or Rst
  backlog,   \* connections not accepted yet
  ready,     \* epoll's ready list, of connections and Listen
  batch,     \* what is left of the last epoll_wait or select
  closed,    \* Client.closed: connections the rig closed or saw closed
  buf,       \* Cli.buf, Client.buf: frames received and not asked for yet
  seen,      \* the transcript: <<step, connection, frame>>
  seeds,     \* START seeds seen since the last comparison
  logAt,     \* length of the log at the last sync
  results    \* what finish() returned for the servers played to already

rigVars  == <<prog, turn, verdict, results>>
netVars  == <<up, backlog, ready, batch>>
readVars == <<buf, seen, seeds>>
vars == <<rigVars, pc, srv, netVars, closed, readVars, logAt>>

Listen == 0          \* the listening socket
Fin == [end |-> "closed"]
Rst == [end |-> "recv error"]
IsEnd(x)  == "end" \in DOMAIN x
script    == Programs[prog].script
Now       == script[pc]
Playing(ops) == verdict = "running" /\ pc \in DOMAIN script /\ Now.op \in ops

(* No send of the server fails in a script: nothing lies at the socket of a *)
(* client that has reset it, and at most one frame at one that is closed   *)
(* (the answer to that one is a reset).  RelayRooms has the sends that fail.*)
Unread(c) == SelectSeq(srv.down[c], LAMBDA f : f # EOF)
SendsSucceed ==
  \A c \in closed : Len(Unread(c)) <= IF Rst \in Range(up[c]) THEN 0 ELSE 1

(* The server that is up, whichever program it is.                         *)
Boot(sv)       == IF sv.inC THEN Booted(sv) ELSE Started(sv)
Held           == IF srv.sv.inC THEN Fds(srv) ELSE srv.open

ReferenceOK ==
  /\ \A r \in srv.rooms : Range(r.members) \subseteq srv.open /\ Len(r.members) \in 2 .. srv.sv.seats
  /\ \A e \in Range(srv.byName) : e.of \in srv.open /\ srv.name[e.of] = e.name

PortOK ==
  /\ \A i \in InUse(srv) : LET cl == srv.clients[i] IN
       /\ ~cl.dead /\ cl.fd \in Conns /\ srv.tag[cl.fd] = [ci |-> i, gen |-> cl.gen]
       /\ cl.room # None => i \in Range(srv.rooms[cl.room].members)
  /\ \A r \in RoomSlots : LET rm == srv.rooms[r] IN
       rm.used => /\ Len(rm.members) \in 2 .. srv.sv.seats
                  /\ \A i \in Range(rm.members) : i \in InUse(srv) /\ srv.clients[i].room = r
  /\ \A e \in Range(srv.by_name) : e.ci \in InUse(srv) /\ srv.clients[e.ci].name = e.name

TypeOK ==
  /\ prog \in Plays /\ turn \in {1, 2} /\ pc \in 1 .. Len(script) + 1
  /\ verdict \in {"running", "passed", "failed"}
  /\ Held \cup closed \cup Range(backlog) \subseteq Conns
  /\ Range(ready) \cup Range(batch) \subseteq Conns \cup {Listen}
  /\ IF srv.sv.inC THEN PortOK ELSE ReferenceOK
  /\ seeds \subseteq Seeds
  /\ SendsSucceed

-----------------------------------------------------------------------------
(* The server's loop.                                                      *)

Readable(x) == IF x = Listen THEN backlog # <<>> ELSE x \in Held /\ up[x] # <<>>
Quiet == batch = <<>> /\ ready = <<>>

(* epoll_wait is level-triggered: what it returns goes back on the list.   *)
Wait ==
  /\ batch = <<>> /\ ready # <<>>
  /\ batch' = SelectSeq(ready, Readable)
  /\ ready' = batch'
  /\ UNCHANGED <<rigVars, pc, srv, up, backlog, closed, readVars, logAt>>

Enlist(q, x) == IF x \in Range(q) THEN q ELSE Append(q, x)

(* One accept for each readiness of the listening socket.                  *)
ServeAccept ==
  /\ batch # <<>> /\ Head(batch) = Listen /\ batch' = Tail(batch)
  /\ LET c == Head(backlog) IN
       /\ srv' = IF srv.sv.inC THEN accept_client(srv, c) ELSE Accept(srv, c)
       /\ ready' = IF c \in Held' /\ up[c] # <<>> THEN Enlist(ready, c) ELSE ready
  /\ backlog' = Tail(backlog)
  /\ UNCHANGED <<rigVars, pc, up, closed, readVars, logAt>>

(* recv returns all there is, or the end of the connection.  An event of a *)
(* client dropped earlier in the batch is skipped: the reference looks at  *)
(* the object, the C port at the tag.                                      *)
Dropped(c, why)      == IF srv.sv.inC THEN drop(srv, slot_of(srv, c), why) ELSE Drop(srv, c, why)
Fed(c, chunk, seed)  == IF srv.sv.inC THEN feed(srv, slot_of(srv, c), chunk, seed)
                        ELSE Service(srv, c, chunk, seed)
Live(c)              == IF srv.sv.inC THEN slot_of(srv, c) # None ELSE c \in srv.open
ServeClient ==
  /\ batch # <<>> /\ Head(batch) # Listen /\ batch' = Tail(batch)
  /\ LET c    == Head(batch)
         data == SelectSeq(up[c], LAMBDA x : ~IsEnd(x))
     IN \E seed \in Seeds :
          IF ~Live(c) \/ up[c] = <<>> THEN UNCHANGED <<srv, up>>
          ELSE IF data = <<>>
          THEN srv' = Dropped(c, Head(up[c]).end) /\ UNCHANGED up
          ELSE srv' = Fed(c, data, seed) /\ up' = [up EXCEPT ![c] = SelectSeq(@, IsEnd)]
  /\ ready' = SelectSeq(ready, LAMBDA x : x = Listen \/ x \in Held')
  /\ UNCHANGED <<rigVars, pc, backlog, closed, readVars, logAt>>

Serve == Wait \/ ServeAccept \/ ServeClient

-----------------------------------------------------------------------------
(* Steps both rigs have.                                                   *)

Arrive(c, xs) ==
  /\ up' = [up EXCEPT ![c] = @ \o xs]
  /\ ready' = IF c \in Held THEN Enlist(ready, c) ELSE ready

Connect ==
  /\ Playing({"connect"})
  /\ backlog' = Append(backlog, Now.c)
  /\ ready' = Enlist(ready, Listen)
  /\ pc' = pc + 1
  /\ UNCHANGED <<rigVars, srv, up, batch, closed, readVars, logAt>>

(* One write.  A write to a connection seen closed is not made.            *)
Send ==
  /\ Playing({"send"})
  /\ IF Now.c \in closed THEN UNCHANGED <<up, ready>> ELSE Arrive(Now.c, Now.pieces)
  /\ pc' = pc + 1
  /\ UNCHANGED <<rigVars, srv, backlog, batch, closed, readVars, logAt>>

(* Closing a socket with unread data resets the connection.                *)
Close ==
  /\ Playing({"close"})
  /\ pc' = pc + 1
  /\ IF Now.c \in closed THEN UNCHANGED <<srv, up, ready, closed>>
     ELSE /\ Arrive(Now.c, IF srv.down[Now.c] = <<>> THEN <<Fin>> ELSE <<Rst>>)
          /\ srv' = [srv EXCEPT !.down[Now.c] = <<>>]
          /\ closed' = closed \cup {Now.c}
  /\ UNCHANGED <<rigVars, backlog, batch, readVars, logAt>>

(* A pause long enough for the server to be done.                          *)
Rest ==
  /\ Playing({"rest"}) /\ Quiet
  /\ pc' = pc + 1
  /\ UNCHANGED <<rigVars, srv, netVars, closed, readVars, logAt>>

-----------------------------------------------------------------------------
(* The gate.                                                               *)

(* recv_frame: what is buffered first, then what recv returns.  The wait   *)
(* ends with a frame, with the end of the connection, or when time is up.  *)
Frames(c)   == buf[c] \o srv.down[c]
Waited(c)   == Frames(c) # <<>> \/ Quiet
TimedOut(c) == Frames(c) = <<>> /\ Quiet
Received(c) == Frames(c) # <<>> /\ Head(Frames(c)) # EOF
Take(c) ==
  /\ IF buf[c] # <<>> THEN buf' = [buf EXCEPT ![c] = Tail(@)] /\ UNCHANGED srv
     ELSE /\ buf' = [buf EXCEPT ![c] = Tail(SelectSeq(srv.down[c], LAMBDA f : f # EOF))]
          /\ srv' = [srv EXCEPT !.down[c] = SelectSeq(@, LAMBDA f : f = EOF)]
  /\ seeds' = LET f == Head(Frames(c)) IN
              IF f.type = "START" THEN seeds \cup {f.seed} ELSE seeds

(* A pattern names the fields that are asserted on; `status' is an entry   *)
(* of a LOBBY frame.                                                       *)
Matches(f, is) ==
  /\ f.type = is.type
  /\ \A k \in DOMAIN is : IF k = "status" THEN is.status \in Range(f.list)
                          ELSE k \in DOMAIN f /\ f[k] = is[k]

Goto(ok) == IF ok THEN pc' = pc + 1 /\ UNCHANGED verdict
            ELSE verdict' = "failed" /\ UNCHANGED pc

(* The next frame is the one asserted on; or, of the START that ends a     *)
(* wait for it, the first of its type.                                     *)
Expect ==
  /\ Playing({"expect", "until"}) /\ Waited(Now.c)
  /\ IF ~Received(Now.c) THEN Goto(FALSE) /\ UNCHANGED <<srv, buf, seeds>>
     ELSE LET f == Head(Frames(Now.c)) IN
          /\ Take(Now.c)
          /\ IF Now.op = "until" /\ f.type # Now.is.type THEN UNCHANGED <<pc, verdict>>
             ELSE Goto(Matches(f, Now.is))
  /\ UNCHANGED <<prog, turn, results, netVars, closed, seen, logAt>>

(* No frame may come: for silence time must run out, a refused HELLO may   *)
(* find the connection closed as well.                                     *)
ExpectNone ==
  /\ Playing({"silence", "hangup"}) /\ Waited(Now.c)
  /\ Goto(TimedOut(Now.c) \/ (Now.op = "hangup" /\ ~Received(Now.c)))
  /\ UNCHANGED <<prog, turn, results, srv, netVars, closed, readVars, logAt>>

OneSeed ==
  /\ Playing({"oneseed"}) /\ Goto(Cardinality(seeds) = 1)
  /\ seeds' = {}
  /\ UNCHANGED <<prog, turn, results, srv, netVars, closed, buf, seen, logAt>>

(* The server is stopped and its output searched.                          *)
EndGate ==
  /\ Playing({"end"}) /\ Programs[prog].kind = "gate" /\ Quiet
  /\ verdict' = IF \A w \in Now.logs : \E l \in Range(srv.log) : IsPrefix(w, l)
                THEN "passed" ELSE "failed"
  /\ UNCHANGED <<prog, turn, pc, results, srv, netVars, closed, readVars, logAt>>

-----------------------------------------------------------------------------
(* The differential.                                                       *)

Masked(f) == IF f.type = "START" THEN [f EXCEPT !.seed = 0] ELSE f

(* One pass of the drain: what select finds readable is read.  A socket    *)
(* that is at its end is readable for ever, and taken out by being closed. *)
Unshut         == Conns \ closed
Incoming(cs)   == {c \in cs : srv.down[c] # <<>>}
Bug_DrainCloses(r) == {}
DrainCloses(r) == {c \in r : Unread(c) = <<>>}
Drain ==
  /\ Playing({"sync"})
  /\ LET r == Incoming(Unshut)
         in(c) == IF c \notin r THEN <<>> ELSE IF Unread(c) # <<>> THEN Unread(c)
                  ELSE IF EOF \in Range(buf[c]) THEN <<>> ELSE <<EOF>>
     IN /\ r # {}
        /\ buf' = [c \in Conns |-> buf[c] \o in(c)]
        /\ closed' = closed \cup DrainCloses(r)
        /\ srv' = [srv EXCEPT !.down = [c \in Conns |->
                     IF c \in r THEN SelectSeq(@[c], LAMBDA f : f = EOF) ELSE @[c]]]
  /\ UNCHANGED <<rigVars, pc, netVars, seen, seeds, logAt>>

(* When nothing is left to read, what arrived is recorded in the order of  *)
(* creation, which is that of the connection numbers.                      *)
Sync ==
  /\ Playing({"sync"}) /\ Quiet /\ Incoming(Unshut) = {}
  /\ LET rec(c) == [i \in DOMAIN buf[c] |-> <<pc, c, Masked(buf[c][i])>>]
     IN seen' = FoldLeft(LAMBDA t, c : t \o rec(c), seen, Count(1, Cardinality(Conns)))
  /\ buf' = [c \in Conns |-> <<>>]
  /\ logAt' = Len(srv.log)
  /\ pc' = pc + 1
  /\ UNCHANGED <<rigVars, srv, netVars, closed, seeds>>

(* finish(), and the same script for the other server; then compare().     *)
Occurs(x, q)      == Len(SelectSeq(q, LAMBDA y : y = x))
SameLines(p, q)   == \A x \in Range(p) \cup Range(q) : Occurs(x, p) = Occurs(x, q)
Agree(p, q)       == IF Programs[prog].kind = "racy diff"
                     THEN SameLines(p.seen, q.seen) /\ SameLines(p.log, q.log)
                     ELSE p.seen = q.seen /\ p.log = q.log
EndDiff ==
  /\ Playing({"end"}) /\ Programs[prog].kind # "gate" /\ Quiet
  /\ results' = Append(results, [seen |-> seen, log |-> srv.log, synced |-> SubSeq(srv.log, 1, logAt)])
  /\ IF turn < Len(Programs[prog].servers)
     THEN /\ turn' = 2 /\ pc' = 1 /\ seen' = <<>> /\ closed' = {} /\ logAt' = 0
          /\ srv' = Boot(Programs[prog].servers[2])
          /\ up' = [c \in Conns |-> <<>>]
          /\ UNCHANGED verdict
     ELSE /\ verdict' = IF turn = 1 \/ Agree(results'[1], results'[2]) THEN "passed" ELSE "failed"
          /\ UNCHANGED <<turn, pc, seen, closed, logAt, srv, up>>
  /\ UNCHANGED <<prog, backlog, ready, batch, buf, seeds>>

-----------------------------------------------------------------------------

Init ==
  /\ prog \in Plays
  /\ turn = 1 /\ pc = 1 /\ verdict = "running" /\ results = <<>>
  /\ srv = Boot(Programs[prog].servers[1])
  /\ up = [c \in Conns |-> <<>>]
  /\ backlog = <<>> /\ ready = <<>> /\ batch = <<>>
  /\ closed = {} /\ buf = [c \in Conns |-> <<>>]
  /\ seen = <<>> /\ seeds = {} /\ logAt = 0

Gate  == Expect \/ ExpectNone \/ OneSeed \/ EndGate
Drive == Connect \/ Send \/ Close \/ Rest \/ Drain \/ Sync \/ EndDiff \/ Gate
Next  == Serve \/ Drive

(* Two processes of the operating system, each scheduled again and again.  *)
(* ServerFair is WF_vars(Serve): Serve is enabled exactly when not Quiet.  *)
ServerFair == []<>Quiet \/ []<><<Serve>>_vars

Spec == Init /\ [][Next]_vars /\ ServerFair /\ WF_vars(Drive)

-----------------------------------------------------------------------------
(* Properties.                                                             *)

(* What the verdict of the gate says of the relay, in every schedule of    *)
(* the rig, the server and the sockets: it fails when the gate counts on a *)
(* room of other than the relay's size (SEATS against MAX_SEATS), or when  *)
(* the relay read the JOINs of scenario_full, sent by several consoles one *)
(* after the other, in another order; and it passes otherwise: every frame *)
(* asserted on is the next one the console receives, no wait runs out,     *)
(* every seat gets the same seed, and the log tells of the match, the      *)
(* mismatch of round 320, four agreed rounds and a leaver.                 *)
SeatsDiffer == Programs[prog].seats # srv.sv.seats
Joined      == SelectSeq(srv.log, LAMBDA l : l[1] = "join")
Overtaken   == ~IsPrefix([i \in DOMAIN Joined |-> Joined[i][2]], Programs[prog].joins)
GateVerdict ==
  Programs[prog].kind = "gate" /\ verdict # "running" =>
    (verdict = "failed" <=> SeatsDiffer \/ Overtaken)

(* The two relays, translated from their sources apart from each other,    *)
(* cannot be told apart by a scenario: what every client received at every *)
(* step, and the log up to the last sync, are the same and in the same     *)
(* order, in every schedule of either; limits included, whose order        *)
(* server_diff.py compares as a multiset.                                  *)
SameRecord ==
  Len(results) = 2 => /\ results[1].seen = results[2].seen
                      /\ results[1].synced = results[2].synced

(* A frame is answered once, however its bytes arrive: whenever the server *)
(* rests, a client still connected has as many PONGs as it sent PINGs,     *)
(* dribbled a byte at a time, two in one segment, or whole.                *)
PingsBy(c) ==
  {<<i, j>> \in (1 .. pc - 1) \X (1 .. 3) :
     /\ script[i].op = "send" /\ script[i].c = c /\ j \in DOMAIN script[i].pieces
     /\ LET p == script[i].pieces[j] IN p.frame = [type |-> "PING"] /\ p.at = p.of}
Pong == [type |-> "PONG"]
PongsTo(c) == Len(SelectSeq(seen, LAMBDA e : e[2] = c /\ e[3] = Pong))
              + Occurs(Pong, buf[c] \o srv.down[c])
PingsAnswered ==
  Quiet => \A c \in Held \ closed : PongsTo(c) = Cardinality(PingsBy(c))

(* The rig comes to its end: no step waits for a frame for ever, and the   *)
(* drain of the differential ends although a connection that the relay has *)
(* closed stays readable.                                                  *)
RigEnds == <>(verdict # "running")
=============================================================================
