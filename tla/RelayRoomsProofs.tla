-------------------------- MODULE RelayRoomsProofs --------------------------
(***************************************************************************)
(* The rooms of both servers, whatever sends fail in the middle of an      *)
(* event: RelayRooms keeps its inductive invariant IInv, and with it every *)
(* invariant its run checks, for any number of clients and names, any      *)
(* MAX_SEATS and any --auto-go.                                            *)
(*                                                                         *)
(* Between two events little needs saying, but an event is many steps: it  *)
(* is the pending tasks that make up for what is not yet true.  So most    *)
(* conjuncts speak of the set `pending' of what the agenda holds, and an   *)
(* empty agenda turns them into the properties.                            *)
(***************************************************************************)
EXTENDS RelayRooms, SequenceTheorems, FiniteSetTheorems, TLAPS

(* What a task may be, and what a frame may hold.                          *)
Rosters == Seq(Clients)
Frames ==
       [type : {"ROOM"}, roster : Rosters]
  \cup [type : {"START"}, roster : Rosters, seat : Nat]
  \cup [type : {"PEER_LEFT", "RELAY", "REPLY"}]
Views == [roster : Rosters, active : BOOLEAN, seat : Nat, dropped : BOOLEAN]
OrNobody == Clients \cup {None}
Tasks ==
       [op : {"send"}, to : OrNobody, frame : Frames]
  \cup [op : {"drop"}, of : Clients]
  \cup [op : {"each"}, in : Clients, at : Nat \ {0}, frame : Frames, but : OrNobody]
  \cup [op : {"clear"}, in : Clients]
  \cup [op : {"register"}, of : Clients, as : Names]
  \cup [op : {"autogo"}, in : Clients]
  \cup [op : {"publish"}]

(* The types, with sequences of any length: how long a roster and the      *)
(* agenda can become is SeatsInv's and BoundInv's matter.                  *)
TypeInv ==
  /\ server \in Servers
  /\ conn \in [Clients -> {"new", "up", "dead"}]
  /\ broken \in SUBSET Clients
  /\ name \in [Clients -> Names \cup {None}]
  /\ byName \in [Names -> OrNobody]
  /\ room \in [Clients -> OrNobody]
  /\ members \in [Clients -> Seq(Clients)]
  /\ started \in [Clients -> BOOLEAN]
  /\ published \in Nat
  /\ view \in [Clients -> Views]
  /\ agenda \in Seq(Tasks)

(* What is still to be done, in no order.                                  *)
pending == ToSet(agenda)

(* A register or an auto-GO is the tail of its handler: whatever sends and *)
(* drops come before it are done first (on_hello, on_join).                *)
LastOnly(a) == \A k \in 1 .. Len(a) : a[k].op \in {"register", "autogo"} => k = Len(a)
LastInv == LastOnly(agenda)

(* A forming room is given up in two steps (drop, dissolve): nobody has it *)
(* any more, then it is emptied, and between the two the rest are told.    *)
(* Otherwise its roster is the set of clients whose room it is, each once, *)
(* led by the client it was created for, and it seats two or more.         *)
Clearing(r) == ClearTask(r) \in pending
Seated(r) ==
  /\ ToSet(members[r]) = {c \in Clients : room[c] = r}
  /\ IsInjective(members[r])
  /\ \/ members[r] = <<>> /\ ~started[r]
     \/ Len(members[r]) \in 2 .. MaxSeats /\ members[r][1] = r
Cleared(r) == ~started[r] /\ \A c \in Clients : room[c] # r
SeatOK(r) ==
  /\ IF Clearing(r) THEN Cleared(r) ELSE Seated(r)
  /\ Len(members[r]) <= MaxSeats
SeatsInv == \A r \in Clients : SeatOK(r)

(* Where a handler survives its caller's loss (Sound), only live clients   *)
(* have a room ...                                                         *)
UpInv == Sound => \A c \in Clients : room[c] # None => conn[c] = "up"

(* ... and the name table is the inverse of the clients' names.            *)
TableInv == Sound =>
  /\ \A n \in Names : byName[n] # None => conn[byName[n]] = "up" /\ name[byName[n]] = n
  /\ \A c \in Clients : conn[c] = "up" /\ name[c] # None => byName[name[c]] = c

(* A HELLO waiting for the old owner of its name to be dropped: the name   *)
(* is free, its own, or the drop is next; and the caller itself is there.  *)
CallerInv == \A c \in Clients, n \in Names : RegisterTask(c, n) \in pending =>
  /\ conn[c] # "new"
  /\ Sound => byName[n] \in {None, c} \/ Head(agenda) = DropTask(byName[n])
  /\ ~server.inC /\ broken = {} => conn[c] = "up" /\ DropTask(c) \notin pending

(* The lobby has been told the number of players, or is about to be.       *)
CountInv == published = Players(byName) \/ PublishTask \in pending
(* Only drops nest, and each costs a client: the agenda holds one          *)
(* handler's work and one announcement for every client lost since.        *)
BoundInv ==
  /\ published <= Cardinality(Names)
  /\ Len(agenda) <= (MaxSeats + 2) * (Cardinality(dead) + 1)
                      + (IF ~idle /\ Head(agenda).op \in {"send", "drop"} THEN 1 ELSE 0)

(* A connection not yet accepted has no console behind it.                 *)
NewInv == \A c \in Clients : conn[c] = "new" => view[c] = NoView /\ name[c] = None

(* A console that was called to a match the relay has since ended has been *)
(* told so, is about to be, or is about to be dropped.                     *)
Playing(c) == room[c] # None /\ started[room[c]]
Called(c) == view[c].active
          \/ \E f \in Frames : f.type = "START" /\ SendTask(c, f) \in pending
Told(c) == view[c].dropped \/ SendTask(c, LeftFrame) \in pending \/ DropTask(c) \in pending
ToldOK(c) == conn[c] = "up" /\ Called(c) /\ ~Playing(c) => Told(c)
ToldInv == \A c \in Clients : ToldOK(c)
(* A START is still being handed out: the match is on, or nobody is left.  *)
EachInv == \A t \in pending : t.op = "each" /\ t.frame.type = "START" =>
             started[t.in] \/ members[t.in] = <<>>

(* From here on: as long as no send fails.  Then the only drop is the one  *)
(* an event asked for, and nothing but a HELLO's registration waits on it. *)
QuietInv == broken = {} => \A d \in Clients : DropTask(d) \in pending =>
  Head(agenda) = DropTask(d) /\ \A t \in ToSet(Tail(agenda)) : t.op = "register"

(* A frame on its way holds the roster its addressee's room has now, and a *)
(* START the addressee's own seat in it.                                   *)
Target(c) == IF room[c] = None THEN <<>> ELSE members[room[c]]
Right(c, f) ==
  /\ f.type \in {"ROOM", "START"} => f.roster = Target(c)
  /\ f.type = "START" => /\ Playing(c)
                         /\ f.seat + 1 \in DOMAIN f.roster /\ f.roster[f.seat + 1] = c
RightEach(t) ==
  /\ t.frame.type \in {"ROOM", "START"} =>
       t.frame.roster = members[t.in] /\ t.but = None /\ ~Clearing(t.in)
  /\ t.frame.type = "START" => started[t.in]
RightTask(t) ==
  /\ t.op = "send" /\ t.to # None => Right(t.to, t.frame)
  /\ t.op = "each" => RightEach(t)
RightInv == broken = {} => \A t \in pending : RightTask(t)

(* A console in a match shows that match, seated where the roster says, or *)
(* the START is on its way; a console outside one shows its room, or the   *)
(* ROOM frame is on its way.                                               *)
InMatch(c) == view[c].active /\ view[c].roster = Target(c)
              /\ view[c].seat + 1 \in DOMAIN view[c].roster
              /\ view[c].roster[view[c].seat + 1] = c
Brings(t, c, ty) ==
  /\ t.op \in {"send", "each"} /\ t.frame.type = ty
  /\ t.op = "send" => t.to = c
  /\ t.op = "each" => /\ t.in = room[c]
                      /\ \E p \in t.at .. Len(members[t.in]) : members[t.in][p] = c
Awaits(c, ty) == \E t \in pending : Brings(t, c, ty)
ShowsOK(c) ==
  /\ Playing(c) => InMatch(c) \/ Awaits(c, "START")
  /\ ~view[c].active => Shows(c) \/ Awaits(c, "ROOM")
ShowsInv == broken = {} => \A c \in Clients : conn[c] = "up" => ShowsOK(c)
-----------------------------------------------------------------------------
(* Sequences as the sets of what is in them.                               *)

LEMMA SetOfEmpty == ToSet(<<>>) = {}
BY DEF ToSet

LEMMA SetOfOne == \A x : ToSet(<<x>>) = {x}
BY DEF ToSet

LEMMA SetOfTwo == \A x, y : ToSet(<<x, y>>) = {x, y}
BY DEF ToSet

LEMMA ConcatTwo == \A x, y : <<x>> \o <<y>> = <<x, y>>
<1> TAKE x, y
<1> DEFINE S == {x, y}
<1>1. <<x>> \in Seq(S) /\ <<y>> \in Seq(S) /\ <<x, y>> \in Seq(S)
  OBVIOUS
<1>2. Len(<<x>>) = 1 /\ Len(<<y>>) = 1 /\ Len(<<x, y>>) = 2
  OBVIOUS
<1> HIDE DEF S
<1>3. /\ <<x>> \o <<y>> \in Seq(S) /\ Len(<<x>> \o <<y>>) = 2
      /\ (<<x>> \o <<y>>)[1] = x /\ (<<x>> \o <<y>>)[2] = y
  BY <1>1, <1>2, ConcatProperties
<1>4. \A i \in 1 .. 2 : (<<x>> \o <<y>>)[i] = <<x, y>>[i]
  BY <1>3
<1> QED
  BY <1>1, <1>2, <1>3, <1>4, SeqEqual

LEMMA SetOfConcat ==
  ASSUME NEW S, NEW s \in Seq(S), NEW t \in Seq(S)
  PROVE  /\ s \o t \in Seq(S)
         /\ Len(s \o t) = Len(s) + Len(t)
         /\ ToSet(s \o t) = ToSet(s) \cup ToSet(t)
         /\ s # <<>> => (s \o t)[1] = s[1]
         /\ s = <<>> => s \o t = t
         /\ t = <<>> => s \o t = s
<1>1. /\ s \o t \in Seq(S) /\ Len(s \o t) = Len(s) + Len(t)
      /\ \A i \in 1 .. Len(s) + Len(t) :
           (s \o t)[i] = IF i <= Len(s) THEN s[i] ELSE t[i - Len(s)]
  BY ConcatProperties
<1>2. /\ DOMAIN s = 1 .. Len(s) /\ DOMAIN t = 1 .. Len(t)
      /\ Len(s) \in Nat /\ Len(t) \in Nat
      /\ DOMAIN (s \o t) = 1 .. Len(s \o t)
  BY <1>1, LenProperties
<1>3. ASSUME NEW i \in 1 .. Len(t)
      PROVE  i + Len(s) \in 1 .. Len(s) + Len(t) /\ (s \o t)[i + Len(s)] = t[i]
  BY <1>1, <1>2
<1>4. ToSet(s) \cup ToSet(t) \subseteq ToSet(s \o t)
  <2>1. \A i \in 1 .. Len(s) : i \in 1 .. Len(s) + Len(t) /\ (s \o t)[i] = s[i]
    BY <1>1, <1>2
  <2>2. \A i \in DOMAIN s : s[i] \in ToSet(s \o t)
    BY <2>1, <1>1, <1>2 DEF ToSet
  <2>3. \A i \in DOMAIN t : t[i] \in ToSet(s \o t)
    BY <1>3, <1>1, <1>2 DEF ToSet
  <2> QED
    BY <2>2, <2>3 DEF ToSet
<1>5. ToSet(s \o t) \subseteq ToSet(s) \cup ToSet(t)
  <2>1. ASSUME NEW i \in 1 .. Len(s \o t)
        PROVE  (s \o t)[i] \in ToSet(s) \cup ToSet(t)
    <3>1. CASE i <= Len(s)
      BY <3>1, <1>1, <1>2 DEF ToSet
    <3>2. CASE ~(i <= Len(s))
      <4>1. i - Len(s) \in 1 .. Len(t) /\ (s \o t)[i] = t[i - Len(s)]
        BY <3>2, <1>1, <1>2
      <4> QED
        BY <4>1, <1>2 DEF ToSet
    <3> QED
      BY <3>1, <3>2
  <2> QED
    BY <2>1, <1>2 DEF ToSet
<1>6. s # <<>> => (s \o t)[1] = s[1]
  BY <1>1, <1>2, EmptySeq
<1> QED
  BY <1>1, <1>4, <1>5, <1>6, ConcatEmptySeq

LEMMA TasksTogether ==
  ASSUME NEW s \in Seq(Tasks), NEW t \in Seq(Tasks)
  PROVE  ToSet(s \o t) = ToSet(s) \cup ToSet(t)
BY SetOfConcat

LEMMA SetOfTail ==
  ASSUME NEW S, NEW s \in Seq(S), s # <<>>
  PROVE  /\ Tail(s) \in Seq(S) /\ Len(Tail(s)) = Len(s) - 1 /\ Len(s) \in Nat \ {0}
         /\ Head(s) = s[1] /\ Head(s) \in S
         /\ ToSet(s) = {Head(s)} \cup ToSet(Tail(s))
         /\ \A i \in 1 .. Len(s) - 1 : Tail(s)[i] = s[i + 1]
<1>1. /\ Tail(s) \in Seq(S) /\ Len(Tail(s)) = Len(s) - 1 /\ Len(s) \in Nat \ {0}
      /\ Head(s) = s[1] /\ Head(s) \in S
      /\ \A i \in 1 .. Len(s) - 1 : Tail(s)[i] = s[i + 1]
  BY HeadTailProperties, LenProperties, EmptySeq
<1>2. DOMAIN s = 1 .. Len(s) /\ DOMAIN Tail(s) = 1 .. Len(s) - 1
  BY <1>1, LenProperties
<1>3. ToSet(s) \subseteq {Head(s)} \cup ToSet(Tail(s))
  <2>1. ASSUME NEW i \in 1 .. Len(s), i # 1
        PROVE  s[i] \in ToSet(Tail(s))
    <3>1. i - 1 \in 1 .. Len(s) - 1 /\ Tail(s)[i - 1] = s[i]
      BY <2>1, <1>1
    <3> QED
      BY <3>1, <1>2 DEF ToSet
  <2> QED
    BY <2>1, <1>1, <1>2 DEF ToSet
<1>4. {Head(s)} \cup ToSet(Tail(s)) \subseteq ToSet(s)
  <2>1. \A i \in 1 .. Len(s) - 1 : i + 1 \in 1 .. Len(s)
    BY <1>1
  <2> QED
    BY <2>1, <1>1, <1>2 DEF ToSet
<1> QED
  BY <1>1, <1>3, <1>4

(* A task that ends its event stays last when others are put before it.    *)
LEMMA LastKept ==
  ASSUME NEW s \in Seq(Tasks), s # <<>>, LastOnly(s),
         NEW P \in Seq(Tasks),
         \/ Tail(s) = <<>> /\ LastOnly(P)
         \/ \A t \in ToSet(P) : t.op \notin {"register", "autogo"}
  PROVE  LastOnly(P \o Tail(s))
<1>1. /\ Tail(s) \in Seq(Tasks) /\ Len(Tail(s)) = Len(s) - 1 /\ Len(s) \in Nat \ {0}
      /\ \A i \in 1 .. Len(s) - 1 : Tail(s)[i] = s[i + 1]
  BY SetOfTail
<1>2. CASE Tail(s) = <<>> /\ LastOnly(P)
  BY <1>2, ConcatEmptySeq
<1>3. CASE \A t \in ToSet(P) : t.op \notin {"register", "autogo"}
  <2> SUFFICES ASSUME NEW k \in 1 .. Len(P \o Tail(s)),
                      (P \o Tail(s))[k].op \in {"register", "autogo"}
               PROVE  k = Len(P \o Tail(s))
    BY DEF LastOnly
  <2>1. /\ Len(P \o Tail(s)) = Len(P) + Len(s) - 1 /\ Len(P) \in Nat
        /\ (P \o Tail(s))[k] = IF k <= Len(P) THEN P[k] ELSE Tail(s)[k - Len(P)]
    BY <1>1, ConcatProperties, LenProperties
  <2>2. ~(k <= Len(P))
    BY <2>1, <1>3, LenProperties DEF ToSet
  <2>3. k - Len(P) \in 1 .. Len(s) - 1 /\ k - Len(P) + 1 \in 1 .. Len(s)
    BY <2>1, <2>2, <1>1
  <2>4. (P \o Tail(s))[k] = s[k - Len(P) + 1]
    BY <2>1, <2>2, <2>3, <1>1
  <2>5. k - Len(P) + 1 = Len(s)
    BY <2>3, <2>4 DEF LastOnly
  <2> QED
    BY <2>5, <2>1, <2>3, <1>1
<1> QED
  BY <1>2, <1>3
-----------------------------------------------------------------------------
(* A member list without one of its members.                               *)
LEMMA WithoutFacts ==
  ASSUME NEW ms \in Seq(Clients), NEW c \in ToSet(ms), IsInjective(ms)
  PROVE  LET rest == Without(ms, c) IN
         /\ rest \in Seq(Clients) /\ Len(rest) = Len(ms) - 1
         /\ ToSet(rest) = ToSet(ms) \ {c}
         /\ IsInjective(rest)
         /\ rest # <<>> /\ ms[1] # c => rest[1] = ms[1]
<1> DEFINE i    == CHOOSE i \in DOMAIN ms : ms[i] = c
           rest == Without(ms, c)
<1>1. DOMAIN ms = 1 .. Len(ms) /\ Len(ms) \in Nat
  BY LenProperties
<1>2. i \in 1 .. Len(ms) /\ ms[i] = c
  <2>1. \E k \in DOMAIN ms : ms[k] = c
    BY DEF ToSet
  <2> QED
    BY <2>1, <1>1
<1> HIDE DEF i
<1> DEFINE front == SubSeq(ms, 1, i - 1)
           back  == SubSeq(ms, i + 1, Len(ms))
<1>3. rest = front \o back
  BY DEF Without, RemoveAt, i
<1> HIDE DEF rest
<1>e. \A k \in 1 .. Len(ms) : ms[k] \in Clients
  BY ElementOfSeq
<1>4. /\ front \in Seq(Clients) /\ Len(front) = i - 1
      /\ \A k \in 1 .. i - 1 : front[k] = ms[k]
  <2>1. 1 \in Int /\ i - 1 \in Int /\ \A k \in 1 .. i - 1 : ms[k] \in Clients
    BY <1>1, <1>2, <1>e
  <2> HIDE DEF front
  <2>2. /\ front \in Seq(Clients)
        /\ Len(front) = IF 1 <= i - 1 THEN i - 1 - 1 + 1 ELSE 0
        /\ \A k \in 1 .. i - 1 - 1 + 1 : front[k] = ms[1 + k - 1]
    BY <2>1, SubSeqProperties DEF front
  <2> QED
    BY <2>2, <1>1, <1>2
<1>5. /\ back \in Seq(Clients) /\ Len(back) = Len(ms) - i
      /\ \A k \in 1 .. Len(ms) - i : back[k] = ms[i + k]
  <2>1. i + 1 \in Int /\ Len(ms) \in Int /\ \A k \in i + 1 .. Len(ms) : ms[k] \in Clients
    BY <1>1, <1>2, <1>e
  <2> HIDE DEF back
  <2>2. /\ back \in Seq(Clients)
        /\ Len(back) = IF i + 1 <= Len(ms) THEN Len(ms) - (i + 1) + 1 ELSE 0
        /\ \A k \in 1 .. Len(ms) - (i + 1) + 1 : back[k] = ms[i + 1 + k - 1]
    BY <2>1, SubSeqProperties DEF back
  <2>3. ASSUME NEW k \in 1 .. Len(ms) - i
        PROVE  back[k] = ms[i + k]
    <3>1. k \in 1 .. Len(ms) - (i + 1) + 1 /\ i + 1 + k - 1 = i + k
      BY <1>1, <1>2
    <3> QED
      BY <3>1, <2>2
  <2>4. Len(back) = Len(ms) - i
    <3>1. Len(back) = IF i + 1 <= Len(ms) THEN Len(ms) - (i + 1) + 1 ELSE 0
      BY <2>2
    <3>2. i \in Nat /\ Len(ms) \in Nat /\ i <= Len(ms)
      BY <1>1, <1>2
    <3> QED
      BY <3>1, <3>2
  <2> QED
    BY <2>2, <2>3, <2>4
<1> HIDE DEF front, back
<1>6. /\ rest \in Seq(Clients) /\ Len(rest) = Len(ms) - 1
      /\ DOMAIN rest = 1 .. Len(ms) - 1
  <2>1. rest \in Seq(Clients) /\ Len(rest) = Len(front) + Len(back)
    BY <1>3, <1>4, <1>5, ConcatProperties
  <2> QED
    BY <2>1, <1>1, <1>2, <1>4, <1>5, LenProperties
<1>7. \A k \in 1 .. Len(ms) - 1 : rest[k] = IF k < i THEN ms[k] ELSE ms[k + 1]
  <2>1. \A k \in 1 .. Len(front) + Len(back) :
          rest[k] = IF k <= Len(front) THEN front[k] ELSE back[k - Len(front)]
    BY <1>3, <1>4, <1>5, ConcatProperties
  <2> TAKE k \in 1 .. Len(ms) - 1
  <2>2. rest[k] = IF k <= i - 1 THEN front[k] ELSE back[k - (i - 1)]
    BY <2>1, <1>1, <1>2, <1>4, <1>5
  <2>3. CASE k < i
    BY <2>2, <2>3, <1>1, <1>2, <1>4
  <2>4. CASE ~(k < i)
    <3>1. k - (i - 1) \in 1 .. Len(ms) - i /\ i + (k - (i - 1)) = k + 1
      BY <2>4, <1>1, <1>2
    <3> QED
      BY <3>1, <2>2, <2>4, <1>1, <1>2, <1>5
  <2> QED
    BY <2>3, <2>4
<1>8. \A a, b \in 1 .. Len(ms) : ms[a] = ms[b] => a = b
  BY <1>1 DEF IsInjective
<1>9. ToSet(rest) \subseteq ToSet(ms) \ {c}
  <2>1. ASSUME NEW k \in 1 .. Len(ms) - 1
        PROVE  \E j \in 1 .. Len(ms) : j # i /\ rest[k] = ms[j]
    <3>1. CASE k < i
      BY <3>1, <1>1, <1>2, <1>7
    <3>2. CASE ~(k < i)
      <4>1. k + 1 \in 1 .. Len(ms) /\ k + 1 # i
        BY <3>2, <1>1, <1>2
      <4> QED
        BY <3>2, <4>1, <1>7
    <3> QED
      BY <3>1, <3>2
  <2>2. ASSUME NEW k \in 1 .. Len(ms) - 1
        PROVE  rest[k] \in ToSet(ms) /\ rest[k] # c
    <3>1. PICK j \in 1 .. Len(ms) : j # i /\ rest[k] = ms[j]
      BY <2>1
    <3>2. rest[k] \in ToSet(ms)
      BY <3>1 DEF ToSet
    <3>3. rest[k] # c
      BY <3>1, <1>1, <1>2, <1>8
    <3> QED
      BY <3>2, <3>3
  <2> QED
    BY <2>2, <1>6 DEF ToSet
<1>10. ToSet(ms) \ {c} \subseteq ToSet(rest)
  <2>1. ASSUME NEW j \in 1 .. Len(ms), ms[j] # c
        PROVE  \E k \in 1 .. Len(ms) - 1 : rest[k] = ms[j]
    <3>1. CASE j < i
      <4>1. j \in 1 .. Len(ms) - 1
        BY <3>1, <1>1, <1>2
      <4> QED
        BY <3>1, <4>1, <1>7
    <3>2. CASE ~(j < i)
      <4>1. j # i
        BY <2>1, <1>2
      <4>2. j - 1 \in 1 .. Len(ms) - 1 /\ ~(j - 1 < i) /\ (j - 1) + 1 = j
        BY <3>2, <4>1, <1>1, <1>2
      <4> QED
        BY <4>2, <1>7
    <3> QED
      BY <3>1, <3>2
  <2> QED
    BY <2>1, <1>1, <1>6 DEF ToSet
<1>11. IsInjective(rest)
  <2>1. ASSUME NEW a \in 1 .. Len(ms) - 1, NEW b \in 1 .. Len(ms) - 1, rest[a] = rest[b]
        PROVE  a = b
    <3> DEFINE A == IF a < i THEN a ELSE a + 1
               B == IF b < i THEN b ELSE b + 1
    <3>1. A \in 1 .. Len(ms) /\ B \in 1 .. Len(ms) /\ ms[A] = rest[a] /\ ms[B] = rest[b]
      BY <1>1, <1>2, <1>7
    <3>2. A = B
      BY <2>1, <3>1, <1>8
    <3> QED
      BY <3>2, <1>1, <1>2
  <2> QED
    BY <2>1, <1>6 DEF IsInjective
<1>12. rest # <<>> /\ ms[1] # c => rest[1] = ms[1]
  <2> SUFFICES ASSUME rest # <<>>, ms[1] # c PROVE rest[1] = ms[1]
    OBVIOUS
  <2>1. 1 \in 1 .. Len(ms) - 1
    BY <1>1, <1>6, EmptySeq
  <2>2. i # 1
    BY <1>2
  <2> QED
    BY <2>1, <2>2, <1>1, <1>2, <1>7
<1> QED
  BY <1>6, <1>9, <1>10, <1>11, <1>12 DEF rest

LEMMA AppendFacts ==
  ASSUME NEW ms \in Seq(Clients), NEW c \in Clients
  PROVE  /\ Append(ms, c) \in Seq(Clients) /\ Len(Append(ms, c)) = Len(ms) + 1
         /\ ToSet(Append(ms, c)) = ToSet(ms) \cup {c}
         /\ IsInjective(ms) /\ c \notin ToSet(ms) => IsInjective(Append(ms, c))
         /\ ms # <<>> => Append(ms, c)[1] = ms[1]
         /\ Append(ms, c)[Len(ms) + 1] = c
<1>1. /\ Append(ms, c) \in Seq(Clients) /\ Len(Append(ms, c)) = Len(ms) + 1
      /\ \A k \in 1 .. Len(ms) : Append(ms, c)[k] = ms[k]
      /\ Append(ms, c)[Len(ms) + 1] = c
      /\ DOMAIN ms = 1 .. Len(ms) /\ Len(ms) \in Nat
      /\ DOMAIN Append(ms, c) = 1 .. Len(ms) + 1
  BY AppendProperties, LenProperties
<1>2. ToSet(Append(ms, c)) = ToSet(ms) \cup {c}
  <2>1. \A k \in 1 .. Len(ms) + 1 : k \in 1 .. Len(ms) \/ k = Len(ms) + 1
    BY <1>1
  <2>2. \A k \in 1 .. Len(ms) : k \in 1 .. Len(ms) + 1
    BY <1>1
  <2>3. Len(ms) + 1 \in 1 .. Len(ms) + 1
    BY <1>1
  <2> QED
    BY <2>1, <2>2, <2>3, <1>1 DEF ToSet
<1>3. IsInjective(ms) /\ c \notin ToSet(ms) => IsInjective(Append(ms, c))
  <2>1. \A k \in 1 .. Len(ms) + 1 : k \in 1 .. Len(ms) \/ k = Len(ms) + 1
    BY <1>1
  <2> QED
    BY <2>1, <1>1 DEF ToSet, IsInjective
<1>4. ms # <<>> => Append(ms, c)[1] = ms[1]
  BY <1>1, EmptySeq
<1> QED
  BY <1>1, <1>2, <1>3, <1>4
-----------------------------------------------------------------------------
(* Tasks and frames.                                                       *)

LEMMA TaskTypes ==
  /\ \A c \in OrNobody, f \in Frames : SendTask(c, f) \in Tasks
  /\ \A c \in Clients : DropTask(c) \in Tasks
  /\ \A r \in Clients, i \in Nat \ {0}, f \in Frames, but \in OrNobody :
       EachTask(r, i, f, but) \in Tasks
  /\ \A r \in Clients : ClearTask(r) \in Tasks
  /\ \A c \in Clients, n \in Names : RegisterTask(c, n) \in Tasks
  /\ \A r \in Clients : AutoGoTask(r) \in Tasks
  /\ PublishTask \in Tasks
<1>1. \A c \in OrNobody, f \in Frames : SendTask(c, f) \in Tasks
  BY DEF Tasks, SendTask
<1>2. \A c \in Clients : DropTask(c) \in Tasks
  BY DEF Tasks, DropTask
<1>3. \A r \in Clients, i \in Nat \ {0}, f \in Frames, but \in OrNobody :
        EachTask(r, i, f, but) \in Tasks
  BY DEF Tasks, EachTask
<1>4. \A r \in Clients : ClearTask(r) \in Tasks
  BY DEF Tasks, ClearTask
<1>5. \A c \in Clients, n \in Names : RegisterTask(c, n) \in Tasks
  BY DEF Tasks, RegisterTask
<1>6. \A r \in Clients : AutoGoTask(r) \in Tasks
  BY DEF Tasks, AutoGoTask
<1>7. PublishTask \in Tasks
  BY DEF Tasks, PublishTask
<1> QED
  BY <1>1, <1>2, <1>3, <1>4, <1>5, <1>6, <1>7

(* The kinds of task, apart from one another.                              *)
LEMMA TaskOps ==
  /\ \A c, f : SendTask(c, f).op = "send" /\ SendTask(c, f).to = c /\ SendTask(c, f).frame = f
  /\ \A c : DropTask(c).op = "drop" /\ DropTask(c).of = c
  /\ \A r, i, f, but : LET t == EachTask(r, i, f, but) IN
       t.op = "each" /\ t.in = r /\ t.at = i /\ t.frame = f /\ t.but = but
  /\ \A r : ClearTask(r).op = "clear" /\ ClearTask(r).in = r
  /\ \A c, n : LET t == RegisterTask(c, n) IN t.op = "register" /\ t.of = c /\ t.as = n
  /\ \A r : AutoGoTask(r).op = "autogo" /\ AutoGoTask(r).in = r
  /\ PublishTask.op = "publish"
BY DEF SendTask, DropTask, EachTask, ClearTask, RegisterTask, AutoGoTask, PublishTask

LEMMA TaskForms ==
  ASSUME NEW t \in Tasks
  PROVE  /\ t.op = "send" => /\ t.to \in OrNobody /\ t.frame \in Frames
                             /\ t = SendTask(t.to, t.frame)
         /\ t.op = "drop" => t.of \in Clients /\ t = DropTask(t.of)
         /\ t.op = "each" => /\ t.in \in Clients /\ t.at \in Nat \ {0}
                             /\ t.frame \in Frames /\ t.but \in OrNobody
                             /\ t = EachTask(t.in, t.at, t.frame, t.but)
         /\ t.op = "clear" => t.in \in Clients /\ t = ClearTask(t.in)
         /\ t.op = "register" => /\ t.of \in Clients /\ t.as \in Names
                                 /\ t = RegisterTask(t.of, t.as)
         /\ t.op = "autogo" => t.in \in Clients /\ t = AutoGoTask(t.in)
         /\ t.op = "publish" => t = PublishTask
         /\ t.op \in {"send", "drop", "each", "clear", "register", "autogo", "publish"}
<1>1. CASE t \in [op : {"send"}, to : OrNobody, frame : Frames]
  BY <1>1 DEF SendTask
<1>2. CASE t \in [op : {"drop"}, of : Clients]
  BY <1>2 DEF DropTask
<1>3. CASE t \in [op : {"each"}, in : Clients, at : Nat \ {0}, frame : Frames, but : OrNobody]
  BY <1>3 DEF EachTask
<1>4. CASE t \in [op : {"clear"}, in : Clients]
  BY <1>4 DEF ClearTask
<1>5. CASE t \in [op : {"register"}, of : Clients, as : Names]
  BY <1>5 DEF RegisterTask
<1>6. CASE t \in [op : {"autogo"}, in : Clients]
  BY <1>6 DEF AutoGoTask
<1>7. CASE t \in [op : {"publish"}]
  BY <1>7 DEF PublishTask
<1> QED
  BY <1>1, <1>2, <1>3, <1>4, <1>5, <1>6, <1>7 DEF Tasks

LEMMA FrameTypes ==
  /\ \A ms \in Rosters : RoomFrame(ms) \in Frames /\ StartFrame(ms) \in Frames
  /\ LeftFrame \in Frames /\ RelayFrame \in Frames /\ ReplyFrame \in Frames
BY DEF Frames, RoomFrame, StartFrame, LeftFrame, RelayFrame, ReplyFrame

LEMMA FrameKinds ==
  /\ \A ms : RoomFrame(ms).type = "ROOM" /\ RoomFrame(ms).roster = ms
  /\ \A ms : StartFrame(ms).type = "START" /\ StartFrame(ms).roster = ms
  /\ LeftFrame.type = "PEER_LEFT" /\ RelayFrame.type = "RELAY" /\ ReplyFrame.type = "REPLY"
BY DEF RoomFrame, StartFrame, LeftFrame, RelayFrame, ReplyFrame

LEMMA AddressedFacts ==
  ASSUME NEW f \in Frames, NEW i \in Nat \ {0}
  PROVE  /\ Addressed(f, i) \in Frames /\ Addressed(f, i).type = f.type
         /\ f.type \in {"ROOM", "START"} => Addressed(f, i).roster = f.roster
         /\ f.type = "START" => Addressed(f, i).seat + 1 = i
<1>1. CASE f \in [type : {"START"}, roster : Rosters, seat : Nat]
  <2>1. i - 1 \in Nat /\ (i - 1) + 1 = i
    OBVIOUS
  <2>2. Addressed(f, i) = [type |-> "START", roster |-> f.roster, seat |-> i - 1]
    BY <1>1 DEF Addressed
  <2>3. f.roster \in Rosters /\ f.type = "START"
    BY <1>1
  <2>4. Addressed(f, i) \in [type : {"START"}, roster : Rosters, seat : Nat]
    BY <2>1, <2>2, <2>3
  <2> QED
    BY <2>1, <2>2, <2>3, <2>4 DEF Frames
<1>2. CASE f \in [type : {"ROOM"}, roster : Rosters]
  BY <1>2 DEF Addressed
<1>3. CASE f \in [type : {"PEER_LEFT", "RELAY", "REPLY"}]
  BY <1>3 DEF Addressed
<1> QED
  BY <1>1, <1>2, <1>3 DEF Frames

(* A console's view stays a view, whatever it is sent.                     *)
LEMMA FoldFacts ==
  ASSUME NEW v \in Views, NEW f \in Frames
  PROVE  /\ Fold(v, f) \in Views
         /\ f.type = "START" => /\ Fold(v, f).active /\ Fold(v, f).dropped = v.dropped
                                /\ Fold(v, f).roster = f.roster /\ Fold(v, f).seat = f.seat
         /\ f.type = "ROOM" => IF v.active THEN Fold(v, f) = v
                               ELSE /\ Fold(v, f).roster = f.roster
                                    /\ ~Fold(v, f).active /\ Fold(v, f).dropped = v.dropped
         /\ f.type = "PEER_LEFT" => /\ Fold(v, f).dropped /\ Fold(v, f).active = v.active
                                    /\ Fold(v, f).roster = v.roster /\ Fold(v, f).seat = v.seat
         /\ f.type \in {"RELAY", "REPLY"} => Fold(v, f) = v
         /\ f.type \in {"ROOM", "START", "PEER_LEFT", "RELAY", "REPLY"}
<1>1. CASE f \in [type : {"START"}, roster : Rosters, seat : Nat]
  BY <1>1 DEF Fold, Views
<1>2. CASE f \in [type : {"ROOM"}, roster : Rosters]
  BY <1>2 DEF Fold, Views
<1>3. CASE f \in [type : {"PEER_LEFT", "RELAY", "REPLY"}]
  BY <1>3 DEF Fold, Views
<1> QED
  BY <1>1, <1>2, <1>3 DEF Frames

(* The sends of one frame to all of a list.                                *)
LEMMA SendAllFacts ==
  ASSUME NEW ms \in Seq(Clients), NEW f \in Frames
  PROVE  /\ SendAll(ms, f) \in Seq(Tasks)
         /\ Len(SendAll(ms, f)) = Len(ms)
         /\ ToSet(SendAll(ms, f)) = {SendTask(c, f) : c \in ToSet(ms)}
<1>1. DOMAIN ms = 1 .. Len(ms) /\ Len(ms) \in Nat /\ \A i \in 1 .. Len(ms) : ms[i] \in Clients
  BY LenProperties, ElementOfSeq
<1>2. \A i \in 1 .. Len(ms) : SendTask(ms[i], f) \in Tasks
  BY <1>1, TaskTypes DEF OrNobody
<1>3. SendAll(ms, f) = [i \in 1 .. Len(ms) |-> SendTask(ms[i], f)]
  BY <1>1 DEF SendAll
<1>4. SendAll(ms, f) \in Seq(Tasks) /\ Len(SendAll(ms, f)) = Len(ms)
  <2>1. SendAll(ms, f) \in [1 .. Len(ms) -> Tasks]
    BY <1>2, <1>3
  <2> QED
    BY <2>1, <1>1, LenProperties, SeqDef
<1>5. ToSet(SendAll(ms, f)) = {SendTask(c, f) : c \in ToSet(ms)}
  BY <1>1, <1>3 DEF ToSet
<1> QED
  BY <1>4, <1>5

(* What an announcement puts on the agenda.                                *)
LEMMA AnnounceFacts ==
  ASSUME NEW r \in Clients, NEW ms \in Seq(Clients), NEW f \in Frames, NEW but \in OrNobody
  PROVE  /\ Announce(r, ms, f, but) \in Seq(Tasks)
         /\ Len(Announce(r, ms, f, but)) <= Len(ms) \/ Len(Announce(r, ms, f, but)) = 1
         /\ ~server.inC => ToSet(Announce(r, ms, f, but)) = {EachTask(r, 1, f, but)}
         /\ server.inC => ToSet(Announce(r, ms, f, but)) =
              {IF ms[i] = but THEN SendTask(None, f) ELSE SendTask(ms[i], Addressed(f, i))
                 : i \in 1 .. Len(ms)}
<1> DEFINE T(i) == IF ms[i] = but THEN SendTask(None, f) ELSE SendTask(ms[i], Addressed(f, i))
<1>1. DOMAIN ms = 1 .. Len(ms) /\ Len(ms) \in Nat /\ \A i \in 1 .. Len(ms) : ms[i] \in Clients
  BY LenProperties, ElementOfSeq
<1>2. CASE ~server.inC
  <2>1. EachTask(r, 1, f, but) \in Tasks
    BY TaskTypes
  <2> QED
    BY <1>2, <2>1, SetOfOne DEF Announce
<1>3. CASE server.inC
  <2>1. \A i \in 1 .. Len(ms) : T(i) \in Tasks
    <3> TAKE i \in 1 .. Len(ms)
    <3>1. i \in Nat \ {0}
      BY <1>1
    <3>2. Addressed(f, i) \in Frames /\ ms[i] \in OrNobody /\ None \in OrNobody
      BY <3>1, <1>1, AddressedFacts DEF OrNobody
    <3> QED
      BY <3>2, TaskTypes
  <2>2. Announce(r, ms, f, but) = [i \in 1 .. Len(ms) |-> T(i)]
    BY <1>1, <1>3 DEF Announce
  <2> HIDE DEF T
  <2>3. Announce(r, ms, f, but) \in [1 .. Len(ms) -> Tasks]
    BY <2>1, <2>2
  <2>4. Announce(r, ms, f, but) \in Seq(Tasks) /\ Len(Announce(r, ms, f, but)) = Len(ms)
    BY <2>3, <1>1, LenProperties, SeqDef
  <2>5. ToSet(Announce(r, ms, f, but)) = {T(i) : i \in 1 .. Len(ms)}
    BY <2>2 DEF ToSet
  <2> QED
    BY <1>3, <1>1, <2>4, <2>5 DEF T
<1> QED
  BY <1>2, <1>3

LEMMA AnnounceOps ==
  ASSUME NEW r \in Clients, NEW ms \in Seq(Clients), NEW f \in Frames, NEW but \in OrNobody
  PROVE  /\ Announce(r, ms, f, but) \in Seq(Tasks)
         /\ \A u \in ToSet(Announce(r, ms, f, but)) :
              u.op \in {"send", "each"} /\ u.frame.type = f.type
<1>1. Announce(r, ms, f, but) \in Seq(Tasks)
  BY AnnounceFacts
<1>2. CASE ~server.inC
  <2>1. ToSet(Announce(r, ms, f, but)) = {EachTask(r, 1, f, but)}
    BY <1>2, AnnounceFacts
  <2> QED
    BY <1>1, <2>1, TaskOps
<1>3. CASE server.inC
  <2>1. ToSet(Announce(r, ms, f, but)) =
          {IF ms[i] = but THEN SendTask(None, f) ELSE SendTask(ms[i], Addressed(f, i))
             : i \in 1 .. Len(ms)}
    BY <1>3, AnnounceFacts
  <2>2. \A i \in 1 .. Len(ms) : Addressed(f, i).type = f.type
    BY AddressedFacts, LenProperties
  <2> QED
    BY <1>1, <2>1, <2>2, TaskOps
<1> QED
  BY <1>2, <1>3
-----------------------------------------------------------------------------
(* The steps, by what they do to the agenda.                               *)

below == ToSet(Tail(agenda))

LEMMA Popped ==
  ASSUME TypeInv, ~idle, NEW P \in Seq(Tasks), agenda' = P \o Tail(agenda)
  PROVE  /\ agenda' \in Seq(Tasks)
         /\ Head(agenda) \in Tasks /\ below \subseteq Tasks
         /\ pending = {Head(agenda)} \cup below
         /\ pending' = ToSet(P) \cup below
         /\ Len(agenda) \in Nat \ {0} /\ Len(P) \in Nat
         /\ Len(agenda') = Len(P) + Len(agenda) - 1
         /\ P = <<>> => agenda' = Tail(agenda)
         /\ P # <<>> => agenda' # <<>> /\ Head(agenda') = P[1]
         /\ LastInv /\ (\A t \in ToSet(P) : t.op \notin {"register", "autogo"}) => LastInv'
<1>1. agenda \in Seq(Tasks) /\ agenda # <<>>
  BY DEF TypeInv, idle
<1>2. /\ Tail(agenda) \in Seq(Tasks) /\ Len(Tail(agenda)) = Len(agenda) - 1
      /\ Len(agenda) \in Nat \ {0} /\ Head(agenda) \in Tasks
      /\ ToSet(agenda) = {Head(agenda)} \cup below
  BY <1>1, SetOfTail DEF below
<1>3. /\ agenda' \in Seq(Tasks) /\ Len(agenda') = Len(P) + Len(Tail(agenda))
      /\ ToSet(agenda') = ToSet(P) \cup below
      /\ P # <<>> => agenda'[1] = P[1]
      /\ P = <<>> => agenda' = Tail(agenda)
  <2>1. PICK rest : rest = Tail(agenda)
    OBVIOUS
  <2>2. rest \in Seq(Tasks) /\ agenda' = P \o rest
    BY <2>1, <1>2
  <2>3. P \o rest \in Seq(Tasks) /\ Len(P \o rest) = Len(P) + Len(rest)
    BY <2>2, SetOfConcat
  <2>4. ToSet(P \o rest) = ToSet(P) \cup ToSet(rest)
    BY <2>2, SetOfConcat
  <2>5. P # <<>> => (P \o rest)[1] = P[1]
    BY <2>2, SetOfConcat
  <2>6. P = <<>> => P \o rest = rest
    BY <2>2, SetOfConcat
  <2>7. PICK next : next = P \o rest
    OBVIOUS
  <2>8. /\ next \in Seq(Tasks) /\ Len(next) = Len(P) + Len(rest)
        /\ ToSet(next) = ToSet(P) \cup ToSet(rest)
        /\ P # <<>> => next[1] = P[1]
        /\ P = <<>> => next = rest
    BY <2>3, <2>4, <2>5, <2>6, <2>7, Zenon
  <2> QED
    BY <2>1, <2>2, <2>7, <2>8, Zenon DEF below
<1>4. below \subseteq Tasks
  BY <1>2, ElementOfSeq, LenProperties DEF below, ToSet
<1>5. Len(P) \in Nat /\ (P # <<>> => Len(P) > 0)
  BY LenProperties, EmptySeq
<1>6. ASSUME P # <<>> PROVE agenda' # <<>> /\ Head(agenda') = P[1]
  <2>1. agenda' # <<>>
    <3>1. Len(agenda') > 0
      <4>1. Len(P) > 0 /\ Len(P) \in Nat
        BY <1>5, <1>6
      <4>2. Len(agenda') = Len(P) + (Len(agenda) - 1) /\ Len(agenda) \in Nat \ {0}
        BY <1>2, <1>3
      <4> QED
        BY <4>1, <4>2
    <3>2. Len(<<>>) = 0
      OBVIOUS
    <3> QED
      BY <3>1, <3>2
  <2> QED
    BY <2>1, <1>6, <1>3, HeadTailProperties
<1>7. ASSUME LastInv, \A t \in ToSet(P) : t.op \notin {"register", "autogo"}
      PROVE  LastInv'
  <2>1. LastOnly(P \o Tail(agenda))
    BY <1>1, <1>7, LastKept DEF LastInv
  <2> QED
    BY <2>1 DEF LastInv
<1> QED
  BY <1>2, <1>3, <1>4, <1>5, <1>6, <1>7 DEF pending

LEMMA PoppedOff ==
  ASSUME TypeInv, ~idle, agenda' = Tail(agenda)
  PROVE  /\ agenda' \in Seq(Tasks)
         /\ Head(agenda) \in Tasks /\ below \subseteq Tasks
         /\ pending = {Head(agenda)} \cup below
         /\ pending' = below
         /\ Len(agenda) \in Nat \ {0} /\ Len(agenda') = Len(agenda) - 1
         /\ LastInv => LastInv'
<1>1. agenda \in Seq(Tasks) /\ agenda # <<>>
  BY DEF TypeInv, idle
<1>2. /\ Tail(agenda) \in Seq(Tasks) /\ Len(Tail(agenda)) = Len(agenda) - 1
      /\ Len(agenda) \in Nat \ {0} /\ Head(agenda) \in Tasks
      /\ ToSet(agenda) = {Head(agenda)} \cup below
  BY <1>1, SetOfTail DEF below
<1>3. below \subseteq Tasks
  BY <1>2, ElementOfSeq, LenProperties DEF below, ToSet
<1>4. ASSUME LastInv PROVE LastInv'
  <2>1. <<>> \in Seq(Tasks) /\ ToSet(<<>>) = {} /\ <<>> \o Tail(agenda) = Tail(agenda)
    BY <1>2, SetOfEmpty, EmptySeq, ConcatEmptySeq
  <2>2. LastOnly(<<>> \o Tail(agenda))
    BY <1>1, <1>4, <2>1, LastKept DEF LastInv
  <2> QED
    BY <2>1, <2>2 DEF LastInv
<1> QED
  BY <1>2, <1>3, <1>4 DEF pending, below

LEMMA IdleFacts == idle => pending = {} /\ agenda = <<>> /\ Len(agenda) = 0
BY SetOfEmpty DEF idle, pending

(* What is below the head, when the head must be the last.                 *)
LEMMA LastAlone ==
  ASSUME TypeInv, LastInv, ~idle, Head(agenda).op \in {"register", "autogo"}
  PROVE  Tail(agenda) = <<>> /\ below = {} /\ Len(agenda) = 1
<1>1. agenda \in Seq(Tasks) /\ agenda # <<>>
  BY DEF TypeInv, idle
<1>2. /\ Tail(agenda) \in Seq(Tasks) /\ Len(Tail(agenda)) = Len(agenda) - 1
      /\ Len(agenda) \in Nat \ {0} /\ Head(agenda) = agenda[1]
  BY <1>1, SetOfTail
<1>3. Len(agenda) = 1
  <2>1. 1 \in 1 .. Len(agenda)
    BY <1>2
  <2> QED
    BY <2>1, <1>2 DEF LastInv, LastOnly
<1>4. Len(Tail(agenda)) = 0
  BY <1>2, <1>3
<1> QED
  BY <1>2, <1>3, <1>4, EmptySeq, SetOfEmpty DEF below

LEMMA SendStep ==
  ASSUME TypeInv, DoSend
  PROVE  \E c \in OrNobody, f \in Frames :
           /\ ~idle /\ Head(agenda) = SendTask(c, f) /\ pending = {SendTask(c, f)} \cup below
           /\ agenda' \in Seq(Tasks) /\ below \subseteq Tasks /\ (LastInv => LastInv')
           /\ \/ /\ c = None \/ conn[c] # "up"
                 /\ agenda' = Tail(agenda) /\ pending' = below /\ UNCHANGED view
              \/ /\ c \in Clients /\ conn[c] = "up" /\ c \in broken
                 /\ agenda' = <<DropTask(c)>> \o Tail(agenda)
                 /\ pending' = {DropTask(c)} \cup below /\ UNCHANGED view
              \/ /\ c \in Clients /\ conn[c] = "up" /\ c \notin broken
                 /\ agenda' = Tail(agenda) /\ pending' = below
                 /\ view' = [view EXCEPT ![c] = Fold(@, f)]
<1> DEFINE t == Head(agenda)
<1>1. ~idle /\ t.op = "send"
  BY DEF DoSend
<1>2. t \in Tasks
  BY <1>1, SetOfTail DEF TypeInv, idle
<1>3. t.to \in OrNobody /\ t.frame \in Frames /\ t = SendTask(t.to, t.frame)
  BY <1>1, <1>2, TaskForms
<1>4. CASE t.to = None \/ conn[t.to] # "up"
  <2>1. agenda' = Tail(agenda) /\ UNCHANGED view
    BY <1>4 DEF DoSend, Send
  <2> QED
    BY <2>1, <1>1, <1>3, <1>4, PoppedOff
<1>5. CASE ~(t.to = None \/ conn[t.to] # "up") /\ t.to \in broken
  <2>1. agenda' = <<DropTask(t.to)>> \o Tail(agenda) /\ UNCHANGED view
    BY <1>5 DEF DoSend, Send
  <2>2. t.to \in Clients
    BY <1>3, <1>5 DEF OrNobody
  <2>3. /\ <<DropTask(t.to)>> \in Seq(Tasks) /\ ToSet(<<DropTask(t.to)>>) = {DropTask(t.to)}
        /\ \A u \in ToSet(<<DropTask(t.to)>>) : u.op \notin {"register", "autogo"}
    BY <2>2, TaskTypes, TaskOps, SetOfOne
  <2>4. /\ agenda' \in Seq(Tasks) /\ below \subseteq Tasks /\ (LastInv => LastInv')
        /\ pending = {t} \cup below /\ pending' = {DropTask(t.to)} \cup below
    BY <2>1, <2>3, <1>1, Popped
  <2> QED
    BY <2>1, <2>2, <2>4, <1>1, <1>3, <1>5
<1>6. CASE ~(t.to = None \/ conn[t.to] # "up") /\ t.to \notin broken
  <2>1. agenda' = Tail(agenda) /\ view' = [view EXCEPT ![t.to] = Fold(@, t.frame)]
    BY <1>6 DEF DoSend, Send
  <2>2. t.to \in Clients
    BY <1>3, <1>6 DEF OrNobody
  <2> QED
    BY <2>1, <2>2, <1>1, <1>3, <1>6, PoppedOff
<1> QED
  BY <1>4, <1>5, <1>6

(* One turn of a Python loop.                                              *)
Walks(r, i, f, but) ==
  LET m    == members[r][i]
      more == EachTask(r, i + 1, f, but) IN
  \/ /\ i > Len(members[r])
     /\ agenda' = Tail(agenda) /\ pending' = below
  \/ /\ i \in 1 .. Len(members[r]) /\ m = but
     /\ agenda' = <<more>> \o Tail(agenda) /\ pending' = {more} \cup below
  \/ /\ i \in 1 .. Len(members[r]) /\ m # but /\ m \in Clients
     /\ agenda' = <<SendTask(m, Addressed(f, i)), more>> \o Tail(agenda)
     /\ pending' = {SendTask(m, Addressed(f, i)), more} \cup below

LEMMA EachStep ==
  ASSUME TypeInv, DoEach
  PROVE  \E r \in Clients, i \in Nat \ {0}, f \in Frames, but \in OrNobody :
           /\ ~idle /\ Head(agenda) = EachTask(r, i, f, but)
           /\ pending = {EachTask(r, i, f, but)} \cup below
           /\ agenda' \in Seq(Tasks) /\ below \subseteq Tasks /\ (LastInv => LastInv')
           /\ Walks(r, i, f, but)
<1> DEFINE t == Head(agenda)
           more == EachTask(t.in, t.at + 1, t.frame, t.but)
           m == members[t.in][t.at]
<1>1. ~idle /\ t.op = "each"
  BY DEF DoEach
<1>2. t \in Tasks
  BY <1>1, SetOfTail DEF TypeInv, idle
<1>3. /\ t.in \in Clients /\ t.at \in Nat \ {0} /\ t.frame \in Frames /\ t.but \in OrNobody
      /\ t = EachTask(t.in, t.at, t.frame, t.but)
  BY <1>1, <1>2, TaskForms
<1>4. [t EXCEPT !.at = @ + 1] = more
  BY <1>3 DEF EachTask
<1>5. members[t.in] \in Seq(Clients) /\ Len(members[t.in]) \in Nat
  BY <1>3, LenProperties DEF TypeInv
<1>6. more \in Tasks
  <2>1. t.at + 1 \in Nat \ {0}
    BY <1>3
  <2> QED
    BY <2>1, <1>3, TaskTypes
<1>7. CASE t.at > Len(members[t.in])
  <2>1. agenda' = Tail(agenda)
    BY <1>7 DEF DoEach
  <2> QED
    BY <2>1, <1>1, <1>3, <1>7, PoppedOff DEF Walks
<1>8. CASE ~(t.at > Len(members[t.in])) /\ m = t.but
  <2>1. agenda' = <<>> \o <<[t EXCEPT !.at = @ + 1]>> \o Tail(agenda)
    BY <1>8 DEF DoEach
  <2>2. <<>> \o <<[t EXCEPT !.at = @ + 1]>> = <<more>>
    BY <1>4
  <2>3. /\ <<more>> \in Seq(Tasks) /\ ToSet(<<more>>) = {more}
        /\ \A u \in ToSet(<<more>>) : u.op \notin {"register", "autogo"}
    BY <1>6, SetOfOne, TaskOps
  <2>4. t.at \in 1 .. Len(members[t.in])
    BY <1>8, <1>3, <1>5
  <2>5. agenda' = <<more>> \o Tail(agenda)
    BY <2>1, <2>2
  <2>6. /\ agenda' \in Seq(Tasks) /\ below \subseteq Tasks /\ (LastInv => LastInv')
        /\ pending = {t} \cup below /\ pending' = {more} \cup below
    <3> HIDE DEF t, more
    <3> QED
      BY <2>3, <2>5, <1>1, Popped DEF t
  <2> USE <1>3
  <2> WITNESS t.in \in Clients, t.at \in Nat \ {0}, t.frame \in Frames, t.but \in OrNobody
  <2> QED
    BY <2>4, <2>5, <2>6, <1>1, <1>3, <1>8 DEF Walks
<1>9. CASE ~(t.at > Len(members[t.in])) /\ m # t.but
  <2> DEFINE s == SendTask(m, Addressed(t.frame, t.at))
  <2>1. agenda' = <<s>> \o <<[t EXCEPT !.at = @ + 1]>> \o Tail(agenda)
    BY <1>9 DEF DoEach
  <2>2. <<s>> \o <<[t EXCEPT !.at = @ + 1]>> = <<s, more>>
    BY <1>4, ConcatTwo
  <2>3. t.at \in 1 .. Len(members[t.in])
    BY <1>9, <1>3, <1>5
  <2>4. m \in Clients
    BY <2>3, <1>5, ElementOfSeq
  <2>5. s \in Tasks
    BY <2>4, <1>3, AddressedFacts, TaskTypes DEF OrNobody
  <2>6. /\ <<s, more>> \in Seq(Tasks) /\ ToSet(<<s, more>>) = {s, more}
        /\ \A u \in ToSet(<<s, more>>) : u.op \notin {"register", "autogo"}
    BY <2>5, <1>6, SetOfTwo, TaskOps
  <2>7. agenda' = <<s, more>> \o Tail(agenda)
    BY <2>1, <2>2
  <2>8. /\ agenda' \in Seq(Tasks) /\ below \subseteq Tasks /\ (LastInv => LastInv')
        /\ pending = {t} \cup below /\ pending' = {s, more} \cup below
    <3> HIDE DEF t, more, s
    <3> QED
      BY <2>6, <2>7, <1>1, Popped DEF t
  <2> USE <1>3
  <2> WITNESS t.in \in Clients, t.at \in Nat \ {0}, t.frame \in Frames, t.but \in OrNobody
  <2> QED
    BY <2>3, <2>4, <2>7, <2>8, <1>1, <1>3, <1>9 DEF Walks
<1> QED
  BY <1>7, <1>8, <1>9
(* A client c that leaves room r, and the members it leaves.               *)
Leaves(c, r, rest) ==
  /\ room[c] = r /\ ~Clearing(r) /\ Seated(r)
  /\ rest = Without(members[r], c) /\ Head(members[r]) = members[r][1]
  /\ Len(rest) = Len(members[r]) - 1 /\ IsInjective(rest)
  /\ \A m \in Clients : m \in ToSet(rest) <=> room[m] = r /\ m # c
  /\ rest # <<>> /\ members[r][1] # c => rest[1] = members[r][1]

MatchEnds(c, r, rest) ==
  /\ started[r] /\ EndMatch(c, r, rest)
  /\ pending' = {SendTask(m, LeftFrame) : m \in ToSet(rest)} \cup {PublishTask} \cup below
  /\ Len(agenda') = Len(rest) + Len(agenda)

RoomEnds(c, r, rest) ==
  /\ ~started[r] /\ Dissolve(c, r, rest)
  /\ pending' = {SendTask(m, RoomFrame(<<>>)) : m \in ToSet(rest)}
                  \cup {ClearTask(r), PublishTask} \cup below
  /\ Len(agenda') = Len(rest) + 1 + Len(agenda)

RoomShrinks(c, r, rest) ==
  LET said == Announce(r, rest, RoomFrame(rest), None) IN
  /\ ~started[r] /\ members[r][1] # c /\ Len(rest) >= 2 /\ Reseat(c, r, rest)
  /\ pending' = ToSet(said) \cup {PublishTask} \cup below
  /\ Len(agenda') = Len(said) + Len(agenda)

LEMMA LeavesFacts ==
  ASSUME TypeInv, SeatsInv, NEW c \in Clients, room[c] # None
  PROVE  LET r == room[c]  rest == Without(members[r], c) IN
         r \in Clients /\ rest \in Seq(Clients) /\ Leaves(c, r, rest)
<1> DEFINE r == room[c]
           rest == Without(members[r], c)
<1>1. r \in Clients /\ members[r] \in Seq(Clients)
  BY DEF TypeInv, OrNobody
<1>2. ~Clearing(r) /\ Seated(r)
  BY <1>1 DEF SeatsInv, SeatOK, Cleared
<1>3. ToSet(members[r]) = {m \in Clients : room[m] = r} /\ IsInjective(members[r])
  BY <1>2 DEF Seated
<1>4. c \in ToSet(members[r])
  BY <1>3
<1>5. /\ rest \in Seq(Clients) /\ Len(rest) = Len(members[r]) - 1
      /\ ToSet(rest) = ToSet(members[r]) \ {c}
      /\ IsInjective(rest)
      /\ rest # <<>> /\ members[r][1] # c => rest[1] = members[r][1]
  BY <1>1, <1>3, <1>4, WithoutFacts
<1>6. members[r] # <<>>
  BY <1>4, SetOfEmpty
<1>7. Head(members[r]) = members[r][1]
  BY <1>1, <1>6, SetOfTail
<1> HIDE DEF rest
<1>8. \A m \in Clients : m \in ToSet(rest) <=> room[m] = r /\ m # c
  BY <1>3, <1>5
<1> QED
  BY <1>1, <1>2, <1>5, <1>7, <1>8 DEF Leaves, rest

LEMMA DropStep ==
  ASSUME TypeInv, SeatsInv, DoDrop
  PROVE  \E c \in Clients :
           /\ ~idle /\ Head(agenda) = DropTask(c) /\ pending = {DropTask(c)} \cup below
           /\ agenda' \in Seq(Tasks) /\ below \subseteq Tasks /\ (LastInv => LastInv')
           /\ \/ /\ conn[c] = "dead" /\ agenda' = Tail(agenda) /\ pending' = below
                 /\ UNCHANGED <<conn, name, byName, room, members, started, published, view>>
              \/ /\ conn[c] # "dead" /\ Forget(c) /\ room[c] = None
                 /\ agenda' = Tail(agenda) /\ pending' = below
                 /\ UNCHANGED <<room, members, started>>
              \/ /\ conn[c] # "dead" /\ Forget(c)
                 /\ \E r \in Clients, rest \in Seq(Clients) :
                      /\ Leaves(c, r, rest)
                      /\ \/ MatchEnds(c, r, rest)
                         \/ RoomEnds(c, r, rest)
                         \/ RoomShrinks(c, r, rest)
<1>1. PICK c : c = Head(agenda).of
  OBVIOUS
<1>2. ~idle /\ Head(agenda).op = "drop"
  BY DEF DoDrop
<1>3. Head(agenda) \in Tasks
  BY <1>2, SetOfTail DEF TypeInv, idle
<1>4. c \in Clients /\ Head(agenda) = DropTask(c)
  BY <1>1, <1>2, <1>3, TaskForms
<1>5. CASE conn[c] = "dead"
  <2>1. /\ agenda' = Tail(agenda)
        /\ UNCHANGED <<conn, name, byName, room, members, started, published, view>>
    BY <1>1, <1>5 DEF DoDrop
  <2> QED
    BY <2>1, <1>2, <1>4, <1>5, PoppedOff
<1>6. CASE conn[c] # "dead" /\ room[c] = None
  <2>1. Forget(c) /\ agenda' = Tail(agenda) /\ UNCHANGED <<room, members, started>>
    BY <1>1, <1>6 DEF DoDrop
  <2> QED
    BY <2>1, <1>2, <1>4, <1>6, PoppedOff
<1>7. CASE conn[c] # "dead" /\ room[c] # None
  <2>1. PICK r \in Clients, rest \in Seq(Clients) :
          r = room[c] /\ rest = Without(members[r], c) /\ Leaves(c, r, rest)
    BY <1>4, <1>7, LeavesFacts
  <2>2. Forget(c) /\ LeaveRoom(c, r, rest)
    BY <1>1, <1>7, <2>1 DEF DoDrop
  <2>3. \A m \in ToSet(rest) : m \in Clients
    BY <2>1, ElementOfSeq, LenProperties DEF ToSet
  <2>4. PublishTask \in Tasks /\ ClearTask(r) \in Tasks
    BY <2>1, TaskTypes
  <2>5. CASE started[r]
    <3> DEFINE said == SendAll(rest, LeftFrame)
               P    == said \o <<PublishTask>>
    <3>1. EndMatch(c, r, rest) /\ agenda' = P \o Tail(agenda)
      BY <2>2, <2>5 DEF LeaveRoom, EndMatch
    <3>2. /\ said \in Seq(Tasks) /\ Len(said) = Len(rest)
          /\ ToSet(said) = {SendTask(m, LeftFrame) : m \in ToSet(rest)}
      BY <2>1, SendAllFacts, FrameTypes
    <3>3. /\ <<PublishTask>> \in Seq(Tasks) /\ Len(<<PublishTask>>) = 1
          /\ ToSet(<<PublishTask>>) = {PublishTask}
      BY <2>4, SetOfOne
    <3> HIDE DEF said
    <3>4. P \in Seq(Tasks) /\ Len(P) = Len(rest) + 1
      BY <3>2, <3>3, SetOfConcat
    <3>5. ToSet(P) = {SendTask(m, LeftFrame) : m \in ToSet(rest)} \cup {PublishTask}
      <4>1. ToSet(P) = ToSet(said) \cup ToSet(<<PublishTask>>)
        BY <3>2, <3>3, TasksTogether
      <4> QED
        BY <4>1, <3>2, <3>3
    <3> HIDE DEF P
    <3>p. \A u \in ToSet(P) : u.op \notin {"register", "autogo"}
      BY <3>5, TaskOps
    <3>6. /\ agenda' \in Seq(Tasks) /\ below \subseteq Tasks /\ (LastInv => LastInv')
          /\ pending = {DropTask(c)} \cup below /\ pending' = ToSet(P) \cup below
          /\ Len(agenda) \in Nat \ {0} /\ Len(agenda') = Len(P) + Len(agenda) - 1
      BY <3>1, <3>4, <3>p, <1>2, <1>4, Popped
    <3>7. Len(agenda') = Len(rest) + Len(agenda)
      BY <3>4, <3>6, <2>1, LenProperties
    <3>8. MatchEnds(c, r, rest)
      BY <3>1, <3>5, <3>6, <3>7, <2>5 DEF MatchEnds
    <3> QED
      BY <3>6, <3>8, <2>1, <2>2, <1>2, <1>4, <1>7
  <2>6. CASE ~started[r] /\ (Head(members[r]) = c \/ Len(rest) < 2)
    <3> DEFINE said == SendAll(rest, RoomFrame(<<>>))
               P    == said \o <<ClearTask(r), PublishTask>>
    <3>1. Dissolve(c, r, rest) /\ agenda' = P \o Tail(agenda)
      BY <2>2, <2>6 DEF LeaveRoom, Dissolve
    <3>2. /\ said \in Seq(Tasks) /\ Len(said) = Len(rest)
          /\ ToSet(said) = {SendTask(m, RoomFrame(<<>>)) : m \in ToSet(rest)}
      <4>1. RoomFrame(<<>>) \in Frames
        BY FrameTypes, EmptySeq DEF Rosters
      <4> QED
        BY <4>1, <2>1, SendAllFacts
    <3>3. /\ <<ClearTask(r), PublishTask>> \in Seq(Tasks)
          /\ Len(<<ClearTask(r), PublishTask>>) = 2
          /\ ToSet(<<ClearTask(r), PublishTask>>) = {ClearTask(r), PublishTask}
      BY <2>4, SetOfTwo
    <3> HIDE DEF said
    <3>4. P \in Seq(Tasks) /\ Len(P) = Len(rest) + 2
      BY <3>2, <3>3, SetOfConcat
    <3>5. ToSet(P) = {SendTask(m, RoomFrame(<<>>)) : m \in ToSet(rest)}
                       \cup {ClearTask(r), PublishTask}
      <4>1. ToSet(P) = ToSet(said) \cup ToSet(<<ClearTask(r), PublishTask>>)
        BY <3>2, <3>3, TasksTogether
      <4> QED
        BY <4>1, <3>2, <3>3
    <3> HIDE DEF P
    <3>p. \A u \in ToSet(P) : u.op \notin {"register", "autogo"}
      BY <3>5, TaskOps
    <3>6. /\ agenda' \in Seq(Tasks) /\ below \subseteq Tasks /\ (LastInv => LastInv')
          /\ pending = {DropTask(c)} \cup below /\ pending' = ToSet(P) \cup below
          /\ Len(agenda) \in Nat \ {0} /\ Len(agenda') = Len(P) + Len(agenda) - 1
      BY <3>1, <3>4, <3>p, <1>2, <1>4, Popped
    <3>7. Len(agenda') = Len(rest) + 1 + Len(agenda)
      BY <3>4, <3>6, <2>1, LenProperties
    <3>8. RoomEnds(c, r, rest)
      BY <3>1, <3>5, <3>6, <3>7, <2>6 DEF RoomEnds
    <3> QED
      BY <3>6, <3>8, <2>1, <2>2, <1>2, <1>4, <1>7
  <2>7. CASE ~started[r] /\ ~(Head(members[r]) = c \/ Len(rest) < 2)
    <3> DEFINE said == Announce(r, rest, RoomFrame(rest), None)
               P    == said \o <<PublishTask>>
    <3>1. Reseat(c, r, rest) /\ agenda' = P \o Tail(agenda)
      BY <2>2, <2>7 DEF LeaveRoom, Reseat
    <3>2. /\ said \in Seq(Tasks) /\ Len(said) \in Nat
          /\ \A u \in ToSet(said) : u.op \in {"send", "each"}
      <4>1. RoomFrame(rest) \in Frames
        BY FrameTypes, <2>1 DEF Rosters
      <4> QED
        BY <4>1, <2>1, AnnounceOps, LenProperties DEF OrNobody
    <3>3. /\ <<PublishTask>> \in Seq(Tasks) /\ Len(<<PublishTask>>) = 1
          /\ ToSet(<<PublishTask>>) = {PublishTask}
      BY <2>4, SetOfOne
    <3> HIDE DEF said
    <3>4. P \in Seq(Tasks) /\ Len(P) = Len(said) + 1
      BY <3>2, <3>3, SetOfConcat
    <3>5. ToSet(P) = ToSet(said) \cup {PublishTask}
      <4>1. ToSet(P) = ToSet(said) \cup ToSet(<<PublishTask>>)
        BY <3>2, <3>3, TasksTogether
      <4> QED
        BY <4>1, <3>2, <3>3
    <3> HIDE DEF P
    <3>p. \A u \in ToSet(P) : u.op \notin {"register", "autogo"}
      BY <3>2, <3>5, TaskOps
    <3>6. /\ agenda' \in Seq(Tasks) /\ below \subseteq Tasks /\ (LastInv => LastInv')
          /\ pending = {DropTask(c)} \cup below /\ pending' = ToSet(P) \cup below
          /\ Len(agenda) \in Nat \ {0} /\ Len(agenda') = Len(P) + Len(agenda) - 1
      BY <3>1, <3>4, <3>p, <1>2, <1>4, Popped
    <3>7. Len(agenda') = Len(said) + Len(agenda)
      BY <3>2, <3>4, <3>6
    <3>8. members[r][1] # c
      BY <2>1, <2>7 DEF Leaves
    <3>9. Len(rest) >= 2
      BY <2>7, <2>1, LenProperties
    <3>10. RoomShrinks(c, r, rest)
      BY <3>1, <3>5, <3>6, <3>7, <3>8, <3>9, <2>7 DEF RoomShrinks, said
    <3> QED
      BY <3>6, <3>10, <2>1, <2>2, <1>2, <1>4, <1>7
  <2> QED
    BY <2>5, <2>6, <2>7
<1> QED
  BY <1>5, <1>6, <1>7
LEMMA ClearStep ==
  ASSUME TypeInv, DoClear
  PROVE  \E r \in Clients :
           /\ ~idle /\ Head(agenda) = ClearTask(r) /\ pending = {ClearTask(r)} \cup below
           /\ agenda' \in Seq(Tasks) /\ below \subseteq Tasks /\ (LastInv => LastInv')
           /\ agenda' = Tail(agenda) /\ pending' = below
           /\ members' = [members EXCEPT ![r] = <<>>]
<1>1. ~idle /\ Head(agenda).op = "clear" /\ agenda' = Tail(agenda)
  BY DEF DoClear
<1>2. Head(agenda) \in Tasks
  BY <1>1, SetOfTail DEF TypeInv, idle
<1>3. Head(agenda).in \in Clients /\ Head(agenda) = ClearTask(Head(agenda).in)
  BY <1>1, <1>2, TaskForms
<1>4. members' = [members EXCEPT ![Head(agenda).in] = <<>>]
  BY DEF DoClear
<1> QED
  BY <1>1, <1>3, <1>4, PoppedOff

LEMMA PublishStep ==
  ASSUME TypeInv, DoPublish
  PROVE  /\ ~idle /\ Head(agenda) = PublishTask /\ pending = {PublishTask} \cup below
         /\ agenda' \in Seq(Tasks) /\ below \subseteq Tasks /\ (LastInv => LastInv')
         /\ agenda' = Tail(agenda) /\ pending' = below
<1>1. ~idle /\ Head(agenda).op = "publish" /\ agenda' = Tail(agenda)
  BY DEF DoPublish
<1>2. Head(agenda) \in Tasks
  BY <1>1, SetOfTail DEF TypeInv, idle
<1>3. Head(agenda) = PublishTask
  BY <1>1, <1>2, TaskForms
<1> QED
  BY <1>1, <1>3, PoppedOff

(* The name a client gives up when it takes another.                       *)
Freed(c, n) == IF name[c] \notin {None, n} /\ byName[name[c]] = c
               THEN [byName EXCEPT ![name[c]] = None] ELSE byName

LEMMA RegisterStep ==
  ASSUME TypeInv, LastInv, DoRegister
  PROVE  \E c \in Clients, n \in Names :
           /\ ~idle /\ Head(agenda) = RegisterTask(c, n) /\ pending = {RegisterTask(c, n)}
           /\ agenda' \in Seq(Tasks) /\ LastInv'
           /\ \/ /\ server.inC /\ conn[c] = "dead" /\ agenda' = <<>> /\ pending' = {}
                 /\ UNCHANGED <<name, byName>>
              \/ /\ ~(server.inC /\ conn[c] = "dead")
                 /\ name'   = [name EXCEPT ![c] = n]
                 /\ byName' = [Freed(c, n) EXCEPT ![n] = c]
                 /\ agenda' = <<PublishTask, SendTask(c, ReplyFrame)>>
                 /\ pending' = {PublishTask, SendTask(c, ReplyFrame)}
<1>1. ~idle /\ Head(agenda).op = "register"
  BY DEF DoRegister
<1>2. Head(agenda) \in Tasks
  BY <1>1, SetOfTail DEF TypeInv, idle
<1>3. PICK c \in Clients, n \in Names :
        c = Head(agenda).of /\ n = Head(agenda).as /\ Head(agenda) = RegisterTask(c, n)
  BY <1>1, <1>2, TaskForms
<1>4. Tail(agenda) = <<>> /\ below = {}
  BY <1>1, LastAlone
<1>5. CASE server.inC /\ conn[c] = "dead"
  <2>1. agenda' = Tail(agenda) /\ UNCHANGED <<name, byName>>
    BY <1>3, <1>5 DEF DoRegister
  <2> QED
    BY <2>1, <1>1, <1>3, <1>4, <1>5, PoppedOff
<1>6. CASE ~(server.inC /\ conn[c] = "dead")
  <2> DEFINE P == <<PublishTask, SendTask(c, ReplyFrame)>>
  <2>1. /\ name' = [name EXCEPT ![c] = n] /\ byName' = [Freed(c, n) EXCEPT ![n] = c]
        /\ agenda' = P \o Tail(agenda)
    BY <1>3, <1>6 DEF DoRegister, Freed
  <2>2. PublishTask \in Tasks /\ SendTask(c, ReplyFrame) \in Tasks
    BY TaskTypes, FrameTypes DEF OrNobody
  <2>3. /\ P \in Seq(Tasks) /\ ToSet(P) = {PublishTask, SendTask(c, ReplyFrame)}
        /\ \A u \in ToSet(P) : u.op \notin {"register", "autogo"}
    BY <2>2, SetOfTwo, TaskOps
  <2>4. agenda' = P
    BY <2>1, <2>3, <1>4, ConcatEmptySeq
  <2>5. /\ agenda' \in Seq(Tasks) /\ LastInv' /\ pending' = ToSet(P) \cup below
        /\ pending = {Head(agenda)} \cup below
    <3> HIDE DEF P
    <3> QED
      BY <2>1, <2>3, <1>1, Popped
  <2> QED
    BY <2>1, <2>3, <2>4, <2>5, <1>1, <1>3, <1>4, <1>6
<1> QED
  BY <1>5, <1>6

(* A room's match begins: what start_room leaves to be done.               *)
Starts(r) ==
  LET said == Announce(r, members[r], StartFrame(members[r]), None) IN
  /\ started' = [started EXCEPT ![r] = TRUE]
  /\ agenda' \in Seq(Tasks) /\ pending' = ToSet(said) \cup {PublishTask}
  /\ Len(agenda') = Len(said) + 1
  /\ LastInv'

LEMMA StartFacts ==
  ASSUME TypeInv, NEW r \in Clients, StartRoom(r, <<>>)
  PROVE  Starts(r)
<1> DEFINE said == Announce(r, members[r], StartFrame(members[r]), None)
           P    == said \o <<PublishTask>>
<1>1. started' = [started EXCEPT ![r] = TRUE] /\ agenda' = P \o <<>>
  BY DEF StartRoom
<1>2. members[r] \in Seq(Clients)
  BY DEF TypeInv
<1>3. StartFrame(members[r]) \in Frames
  BY <1>2, FrameTypes DEF Rosters
<1>4. /\ said \in Seq(Tasks) /\ Len(said) \in Nat
      /\ \A u \in ToSet(said) : u.op \in {"send", "each"}
  BY <1>2, <1>3, AnnounceOps, LenProperties DEF OrNobody
<1>5. /\ <<PublishTask>> \in Seq(Tasks) /\ Len(<<PublishTask>>) = 1
      /\ ToSet(<<PublishTask>>) = {PublishTask}
  BY TaskTypes, SetOfOne
<1> HIDE DEF said
<1>6. P \in Seq(Tasks) /\ Len(P) = Len(said) + 1
  BY <1>4, <1>5, SetOfConcat
<1>7. ToSet(P) = ToSet(said) \cup {PublishTask}
  <2>1. ToSet(P) = ToSet(said) \cup ToSet(<<PublishTask>>)
    <3>1. said \in Seq(Tasks) /\ <<PublishTask>> \in Seq(Tasks)
      BY <1>4, <1>5
    <3> QED
      BY <3>1, TasksTogether
  <2> QED
    BY <2>1, <1>5
<1>8. \A u \in ToSet(P) : u.op \notin {"register", "autogo"}
  BY <1>4, <1>7, TaskOps
<1> HIDE DEF P
<1>9. agenda' = P
  BY <1>1, <1>6, ConcatEmptySeq
<1>10. LastInv'
  <2>1. LastOnly(P)
    BY <1>6, <1>8, LenProperties DEF LastOnly, ToSet
  <2> QED
    BY <2>1, <1>9 DEF LastInv
<1> QED
  BY <1>1, <1>6, <1>7, <1>9, <1>10 DEF Starts, pending, said

LEMMA AutoGoStep ==
  ASSUME TypeInv, LastInv, DoAutoGo
  PROVE  \E r \in Clients :
           /\ ~idle /\ Head(agenda) = AutoGoTask(r) /\ pending = {AutoGoTask(r)}
           /\ \/ /\ agenda' = <<>> /\ pending' = {} /\ agenda' \in Seq(Tasks) /\ LastInv'
                 /\ UNCHANGED started
              \/ Starts(r) /\ members[r] # <<>>
<1>1. ~idle /\ Head(agenda).op = "autogo"
  BY DEF DoAutoGo
<1>2. Head(agenda) \in Tasks
  BY <1>1, SetOfTail DEF TypeInv, idle
<1>3. PICK r \in Clients : r = Head(agenda).in /\ Head(agenda) = AutoGoTask(r)
  BY <1>1, <1>2, TaskForms
<1>4. Tail(agenda) = <<>> /\ below = {}
  BY <1>1, LastAlone
<1>5. CASE server.autoGo > 0 /\ Len(members[r]) >= server.autoGo
  <2>1. StartRoom(r, <<>>)
    BY <1>3, <1>4, <1>5 DEF DoAutoGo
  <2>2. server.autoGo \in Nat
    BY ServerAssumption DEF TypeInv
  <2>3. members[r] # <<>>
    <3>1. Len(<<>>) = 0
      OBVIOUS
    <3>2. members[r] \in Seq(Clients) /\ Len(members[r]) \in Nat
      BY LenProperties DEF TypeInv
    <3>3. Len(members[r]) # 0
      BY <3>2, <2>2, <1>5
    <3> QED
      BY <3>1, <3>3
  <2>4. pending = {AutoGoTask(r)}
    BY <1>1, <1>3, <1>4, SetOfTail DEF TypeInv, idle, pending, below
  <2> QED
    BY <2>1, <2>3, <2>4, <1>1, <1>3, StartFacts
<1>6. CASE ~(server.autoGo > 0 /\ Len(members[r]) >= server.autoGo)
  <2>1. agenda' = Tail(agenda) /\ UNCHANGED started
    BY <1>3, <1>6 DEF DoAutoGo
  <2> QED
    BY <2>1, <1>1, <1>3, <1>4, PoppedOff
<1> QED
  BY <1>5, <1>6

(* An event that leaves one or two things to be done.                      *)
LEMMA RaiseOne ==
  ASSUME NEW t \in Tasks, agenda' = <<t>>
  PROVE  /\ agenda' \in Seq(Tasks) /\ pending' = {t} /\ Len(agenda') = 1
         /\ agenda' # <<>> /\ Head(agenda') = t /\ LastInv'
<1>1. <<t>> \in Seq(Tasks) /\ ToSet(<<t>>) = {t} /\ Len(<<t>>) = 1 /\ <<t>> # <<>> /\ Head(<<t>>) = t
  BY SetOfOne
<1>2. LastOnly(<<t>>)
  BY <1>1 DEF LastOnly
<1> QED
  BY <1>1, <1>2 DEF pending, LastInv

LEMMA RaiseTwo ==
  ASSUME NEW t \in Tasks, NEW u \in Tasks, agenda' = <<t, u>>,
         t.op \notin {"register", "autogo"}
  PROVE  /\ agenda' \in Seq(Tasks) /\ pending' = {t, u} /\ Len(agenda') = 2
         /\ agenda' # <<>> /\ Head(agenda') = t /\ LastInv' /\ ToSet(Tail(agenda')) = {u}
<1>1. /\ <<t, u>> \in Seq(Tasks) /\ ToSet(<<t, u>>) = {t, u} /\ Len(<<t, u>>) = 2
      /\ <<t, u>> # <<>> /\ Head(<<t, u>>) = t
  BY SetOfTwo
<1>2. LastOnly(<<t, u>>)
  BY <1>1 DEF LastOnly
<1>3. Tail(<<t, u>>) = <<u>>
  OBVIOUS
<1> QED
  BY <1>1, <1>2, <1>3, SetOfOne DEF pending, LastInv

LEMMA HelloStep ==
  ASSUME TypeInv, NEW c \in Clients, NEW n \in Names, OnHello(c, n)
  PROVE  /\ agenda' \in Seq(Tasks) /\ LastInv' /\ agenda' # <<>>
         /\ \/ /\ byName[n] \in {None, c} /\ pending' = {RegisterTask(c, n)}
               /\ Len(agenda') = 1
            \/ /\ byName[n] \in Clients \ {c} /\ Head(agenda') = DropTask(byName[n])
               /\ pending' = {DropTask(byName[n]), RegisterTask(c, n)}
               /\ ToSet(Tail(agenda')) = {RegisterTask(c, n)}
               /\ Len(agenda') = 2
<1>1. RegisterTask(c, n) \in Tasks
  BY TaskTypes
<1>2. CASE byName[n] \in {None, c}
  <2>1. agenda' = <<RegisterTask(c, n)>>
    BY <1>2 DEF OnHello
  <2> QED
    BY <2>1, <1>1, <1>2, RaiseOne
<1>3. CASE byName[n] \notin {None, c}
  <2>1. byName[n] \in Clients \ {c}
    BY <1>3 DEF TypeInv, OrNobody
  <2>2. DropTask(byName[n]) \in Tasks /\ DropTask(byName[n]).op = "drop"
    BY <2>1, TaskTypes, TaskOps
  <2>3. agenda' = <<DropTask(byName[n]), RegisterTask(c, n)>>
    <3>1. agenda' = <<DropTask(byName[n])>> \o <<RegisterTask(c, n)>>
      BY <1>3 DEF OnHello
    <3> QED
      BY <3>1, ConcatTwo
  <2> HIDE DEF DropTask
  <2> QED
    BY <2>1, <2>2, <2>3, <1>1, RaiseTwo
<1> QED
  BY <1>2, <1>3
(* A client c that joins the room r of client t, and its members then.     *)
Enters(c, t, r, ms) ==
  LET said == Announce(r, ms, RoomFrame(ms), None) IN
  /\ t \in Clients \ {c} /\ room[c] = None /\ room[t] \in {None, r} /\ ~started[r]
  /\ room' = [room EXCEPT ![t] = r, ![c] = r]
  /\ members' = [members EXCEPT ![r] = ms]
  /\ \A x \in Clients : x \in ToSet(ms) <=> room'[x] = r
  /\ IsInjective(ms) /\ Len(ms) \in 2 .. MaxSeats /\ ms[1] = r
  /\ agenda' \in Seq(Tasks) /\ LastInv'
  /\ pending' = ToSet(said) \cup {PublishTask, AutoGoTask(r)}
  /\ Len(agenda') = Len(said) + 2

LEMMA EnterStep ==
  ASSUME TypeInv, SeatsInv, idle, NEW c \in Clients, NEW t \in Clients,
         room[c] = None, Joinable(c, t), EnterRoom(c, t)
  PROVE  \E r \in Clients, ms \in Seq(Clients) : Enters(c, t, r, ms)
<1>1. PICK r : r = IF room[t] = None THEN t ELSE room[t]
  OBVIOUS
<1>2. PICK ms : ms = Append(IF room[t] = None THEN <<t>> ELSE members[r], c)
  OBVIOUS
<1>3. r \in Clients /\ members[r] \in Seq(Clients) /\ t # c
  BY <1>1 DEF TypeInv, OrNobody, Joinable
<1>4. Seated(r) /\ Len(members[r]) \in Nat
  <2>1. ~Clearing(r)
    BY IdleFacts DEF Clearing
  <2> QED
    BY <2>1, <1>3, LenProperties DEF SeatsInv, SeatOK
<1>5. /\ ms \in Seq(Clients) /\ IsInjective(ms) /\ Len(ms) \in 2 .. MaxSeats /\ ms[1] = r
      /\ \A x \in Clients : x \in ToSet(ms) <=> room[x] = r \/ x \in {t, c}
      /\ ~started[r]
  <2>1. CASE room[t] = None
    <3>0. PICK one : one = <<t>>
      OBVIOUS
    <3>1. r = t /\ ms = Append(one, c)
      BY <2>1, <3>0, <1>1, <1>2
    <3>2. /\ one \in Seq(Clients) /\ Len(one) = 1 /\ ToSet(one) = {t} /\ one[1] = t
          /\ one # <<>> /\ IsInjective(one)
      BY <3>0, SetOfOne DEF IsInjective
    <3>3. /\ ms \in Seq(Clients) /\ Len(ms) = 2 /\ ToSet(ms) = {t} \cup {c}
          /\ IsInjective(ms) /\ ms[1] = t
      <4>1. c \notin ToSet(one)
        BY <3>2, <1>3
      <4>2. /\ ms \in Seq(Clients) /\ Len(ms) = Len(one) + 1 /\ ToSet(ms) = ToSet(one) \cup {c}
        BY <3>1, <3>2, AppendFacts
      <4>3. IsInjective(ms) /\ ms[1] = one[1]
        BY <3>1, <3>2, <4>1, AppendFacts
      <4> QED
        BY <4>2, <4>3, <3>2
    <3>4. members[t] = <<>> /\ ~started[t]
      <4>1. CASE Len(members[t]) \in 2 .. MaxSeats /\ members[t][1] = t
        <5>1. 1 \in DOMAIN members[t]
          BY <4>1, <3>1, <1>3, SeatsAssumption, LenProperties
        <5>2. t \in ToSet(members[t])
          BY <4>1, <5>1 DEF ToSet
        <5>3. room[t] = t
          BY <5>2, <3>1, <1>4 DEF Seated
        <5> QED
          BY <5>3, <2>1, NoneAssumption
      <4> QED
        BY <4>1, <3>1, <1>4 DEF Seated
    <3>5. \A x \in Clients : room[x] # t
      BY <3>4, <3>1, <1>4, SetOfEmpty DEF Seated
    <3>6. 2 \in 2 .. MaxSeats
      BY SeatsAssumption
    <3> QED
      BY <3>1, <3>3, <3>4, <3>5, <3>6
  <2>2. CASE room[t] # None
    <3>1. r = room[t] /\ ms = Append(members[r], c)
      BY <2>2, <1>1, <1>2
    <3>2. ~started[r] /\ Len(members[r]) < MaxSeats
      BY <3>1, <2>2 DEF Joinable
    <3>3. ToSet(members[r]) = {x \in Clients : room[x] = r} /\ IsInjective(members[r])
      BY <1>4 DEF Seated
    <3>4. t \in ToSet(members[r]) /\ c \notin ToSet(members[r])
      BY <3>1, <3>3, <2>2
    <3>5. members[r] # <<>>
      BY <3>4, SetOfEmpty
    <3>6. Len(members[r]) >= 2 /\ members[r][1] = r
      BY <3>5, <1>4 DEF Seated
    <3>7. /\ ms \in Seq(Clients) /\ Len(ms) = Len(members[r]) + 1
          /\ ToSet(ms) = ToSet(members[r]) \cup {c}
          /\ IsInjective(ms) /\ ms[1] = members[r][1]
      BY <3>1, <3>3, <3>4, <3>5, <1>3, AppendFacts
    <3>8. Len(ms) \in 2 .. MaxSeats
      BY <3>2, <3>6, <3>7, <1>4, SeatsAssumption
    <3>9. \A x \in Clients : x \in ToSet(ms) <=> room[x] = r \/ x \in {t, c}
      BY <3>1, <3>3, <3>7
    <3> QED
      BY <3>2, <3>6, <3>7, <3>8, <3>9
  <2> QED
    BY <2>1, <2>2
<1> DEFINE said == Announce(r, ms, RoomFrame(ms), None)
           P    == said \o <<PublishTask, AutoGoTask(r)>>
<1>6. /\ room' = [room EXCEPT ![t] = r, ![c] = r] /\ members' = [members EXCEPT ![r] = ms]
      /\ agenda' = P
  BY <1>1, <1>2 DEF EnterRoom
<1>7. \A x \in Clients : x \in ToSet(ms) <=> room'[x] = r
  <2>1. room \in [Clients -> OrNobody]
    BY DEF TypeInv
  <2> TAKE x \in Clients
  <2>2. room'[x] = IF x \in {t, c} THEN r ELSE room[x]
    BY <2>1, <1>6, <1>3
  <2> QED
    BY <2>2, <1>5
<1>8. RoomFrame(ms) \in Frames
  BY <1>5, FrameTypes DEF Rosters
<1>9. /\ said \in Seq(Tasks) /\ Len(said) \in Nat
      /\ \A u \in ToSet(said) : u.op \in {"send", "each"}
  BY <1>3, <1>5, <1>8, AnnounceOps, LenProperties DEF OrNobody
<1> HIDE DEF said
<1>10. /\ <<PublishTask, AutoGoTask(r)>> \in Seq(Tasks)
       /\ Len(<<PublishTask, AutoGoTask(r)>>) = 2
       /\ ToSet(<<PublishTask, AutoGoTask(r)>>) = {PublishTask, AutoGoTask(r)}
  BY <1>3, TaskTypes, SetOfTwo
<1>11. P \in Seq(Tasks) /\ Len(P) = Len(said) + 2
  BY <1>9, <1>10, SetOfConcat
<1>12. ToSet(P) = ToSet(said) \cup {PublishTask, AutoGoTask(r)}
  <2>1. said \in Seq(Tasks) /\ <<PublishTask, AutoGoTask(r)>> \in Seq(Tasks)
    BY <1>9, <1>10
  <2>2. ToSet(P) = ToSet(said) \cup ToSet(<<PublishTask, AutoGoTask(r)>>)
    BY <2>1, TasksTogether
  <2> QED
    BY <2>2, <1>10
<1>13. LastOnly(P)
  <2> SUFFICES ASSUME NEW k \in 1 .. Len(P), P[k].op \in {"register", "autogo"}
               PROVE  k = Len(P)
    BY DEF LastOnly
  <2>1. P[k] = IF k <= Len(said) THEN said[k] ELSE <<PublishTask, AutoGoTask(r)>>[k - Len(said)]
    BY <1>9, <1>10, <1>11, ConcatProperties
  <2>2. ~(k <= Len(said))
    <3> SUFFICES ASSUME k <= Len(said) PROVE FALSE
      OBVIOUS
    <3>1. k \in DOMAIN said /\ P[k] = said[k]
      BY <2>1, <1>9, <1>11, LenProperties
    <3> QED
      BY <3>1, <1>9 DEF ToSet
  <2>3. k = Len(said) + 1 \/ k = Len(said) + 2
    BY <2>2, <1>9, <1>11
  <2>4. ASSUME k = Len(said) + 1 PROVE FALSE
    <3>1. k - Len(said) = 1
      BY <2>4, <1>9
    <3>2. P[k] = PublishTask
      BY <3>1, <2>1, <2>2
    <3> QED
      BY <3>2, TaskOps
  <2> QED
    BY <2>3, <2>4, <1>11
<1> HIDE DEF P
<1>14. /\ agenda' \in Seq(Tasks) /\ LastInv'
       /\ pending' = ToSet(said) \cup {PublishTask, AutoGoTask(r)}
       /\ Len(agenda') = Len(said) + 2
  BY <1>6, <1>11, <1>12, <1>13 DEF pending, LastInv
<1>15. room[t] \in {None, r}
  BY <1>1
<1> QED
  BY <1>3, <1>5, <1>6, <1>7, <1>14, <1>15 DEF Enters, said
-----------------------------------------------------------------------------
(* The events, by what they begin.                                         *)

Accepts(c) ==
  /\ conn[c] = "new" /\ conn' = [conn EXCEPT ![c] = "up"]
  /\ UNCHANGED <<broken, name, byName, room, members, started, published, view, agenda>>

Breaks(c) ==
  /\ conn[c] = "up" /\ broken' = broken \cup {c}
  /\ UNCHANGED <<conn, name, byName, room, members, started, published, view, agenda>>

Steady == UNCHANGED <<conn, broken, name, byName, published, view>>

(* LIST, PING, and a JOIN that is refused.                                 *)
Replies(c) ==
  /\ pending' = {SendTask(c, ReplyFrame)} /\ Len(agenda') = 1
  /\ Steady /\ UNCHANGED <<room, members, started>>

(* BYE, a lost connection, and a JOIN without a name.                      *)
Hangs(c) ==
  /\ conn[c] = "up" /\ pending' = {DropTask(c)} /\ Len(agenda') = 1
  /\ Head(agenda') = DropTask(c) /\ ToSet(Tail(agenda')) = {}
  /\ Steady /\ UNCHANGED <<room, members, started>>

Hellos(c, n) ==
  /\ conn[c] = "up"
  /\ \/ /\ byName[n] \in {None, c} /\ pending' = {RegisterTask(c, n)}
        /\ Len(agenda') = 1
     \/ /\ byName[n] \in Clients \ {c} /\ Head(agenda') = DropTask(byName[n])
        /\ pending' = {DropTask(byName[n]), RegisterTask(c, n)}
        /\ ToSet(Tail(agenda')) = {RegisterTask(c, n)}
        /\ Len(agenda') = 2
  /\ Steady /\ UNCHANGED <<room, members, started>>

Relays(c, r) ==
  LET said == Announce(r, members[r], RelayFrame, c) IN
  /\ room[c] = r /\ started[r]
  /\ pending' = ToSet(said) /\ Len(agenda') = Len(said)
  /\ Steady /\ UNCHANGED <<room, members, started>>

Goes(c, r) ==
  /\ room[c] = r /\ ~started[r] /\ Len(members[r]) \in 2 .. MaxSeats
  /\ Starts(r)
  /\ Steady /\ UNCHANGED <<room, members>>

Joins(c, t, r, ms) ==
  /\ conn[c] = "up" /\ \E n \in Names : byName[n] = t
  /\ Enters(c, t, r, ms)
  /\ Steady /\ UNCHANGED started

Event ==
  \E c \in Clients :
       \/ Accept(c) \/ Break(c) \/ OnAsk(c) \/ OnGo(c) \/ OnRelay(c) \/ OnGone(c)
       \/ \E n \in Names : OnHello(c, n) \/ OnJoin(c, n)

Begun(c) ==
  \/ Accepts(c) \/ Breaks(c) \/ Replies(c) \/ Hangs(c)
  \/ \E n \in Names : Hellos(c, n)
  \/ \E r \in Clients : Relays(c, r) \/ Goes(c, r)
  \/ \E t \in Clients, r \in Clients, ms \in Seq(Clients) : Joins(c, t, r, ms)

LEMMA EventStep ==
  ASSUME TypeInv, LastInv, SeatsInv, Event
  PROVE  /\ idle /\ agenda' \in Seq(Tasks) /\ LastInv'
         /\ \E c \in Clients : Begun(c)
<1>1. PICK c \in Clients :
       \/ Accept(c) \/ Break(c) \/ OnAsk(c) \/ OnGo(c) \/ OnRelay(c) \/ OnGone(c)
       \/ \E n \in Names : OnHello(c, n) \/ OnJoin(c, n)
  BY DEF Event
<1> SUFFICES idle /\ agenda' \in Seq(Tasks) /\ LastInv' /\ Begun(c)
  OBVIOUS
<1>k. UNCHANGED agenda => agenda' \in Seq(Tasks) /\ LastInv'
  BY DEF TypeInv, LastInv
<1>r. ASSUME agenda' = <<SendTask(c, ReplyFrame)>>, Steady, UNCHANGED <<room, members, started>>
      PROVE  agenda' \in Seq(Tasks) /\ LastInv' /\ Begun(c)
  <2>1. SendTask(c, ReplyFrame) \in Tasks
    BY TaskTypes, FrameTypes DEF OrNobody
  <2>2. agenda' \in Seq(Tasks) /\ LastInv' /\ pending' = {SendTask(c, ReplyFrame)} /\ Len(agenda') = 1
    BY <1>r, <2>1, RaiseOne
  <2> QED
    BY <1>r, <2>2 DEF Begun, Replies
<1>d. ASSUME agenda' = <<DropTask(c)>>, conn[c] = "up", Steady, UNCHANGED <<room, members, started>>
      PROVE  agenda' \in Seq(Tasks) /\ LastInv' /\ Begun(c)
  <2>1. DropTask(c) \in Tasks
    BY TaskTypes
  <2>2. /\ agenda' \in Seq(Tasks) /\ LastInv' /\ pending' = {DropTask(c)} /\ Len(agenda') = 1
        /\ Head(agenda') = DropTask(c)
    BY <1>d, <2>1, RaiseOne
  <2>3. Tail(agenda') = <<>>
    BY <1>d
  <2> QED
    BY <1>d, <2>2, <2>3, SetOfEmpty DEF Begun, Hangs
<1>1a. CASE Accept(c)
  BY <1>1a, <1>k DEF Accept, Accepts, Begun
<1>2. CASE Break(c)
  BY <1>2, <1>k DEF Break, Breaks, Begun
<1>3. CASE OnAsk(c)
  <2>1. idle /\ agenda' = <<SendTask(c, ReplyFrame)>> /\ Steady /\ UNCHANGED <<room, members, started>>
    BY <1>3 DEF OnAsk, Steady
  <2> QED
    BY <2>1, <1>r
<1>4. CASE OnGo(c)
  <2>1. PICK r : r = room[c]
    OBVIOUS
  <2>2. r \in Clients
    BY <1>4, <2>1 DEF OnGo, TypeInv, OrNobody
  <2>3. /\ idle /\ ~started[r] /\ Len(members[r]) \in 2 .. MaxSeats /\ StartRoom(r, <<>>)
        /\ Steady /\ UNCHANGED <<room, members>>
    BY <1>4, <2>1 DEF OnGo, Steady
  <2>4. Starts(r)
    BY <2>2, <2>3, StartFacts
  <2>5. Goes(c, r)
    BY <2>1, <2>3, <2>4 DEF Goes
  <2> QED
    BY <2>2, <2>3, <2>4, <2>5 DEF Begun, Starts
<1>5. CASE OnRelay(c)
  <2>1. PICK r : r = room[c]
    OBVIOUS
  <2>2. r \in Clients /\ members[r] \in Seq(Clients)
    BY <1>5, <2>1 DEF OnRelay, TypeInv, OrNobody
  <2>3. PICK said : said = Announce(r, members[r], RelayFrame, c)
    OBVIOUS
  <2>4. /\ idle /\ started[r] /\ agenda' = said /\ Steady /\ UNCHANGED <<room, members, started>>
    BY <1>5, <2>1, <2>3 DEF OnRelay, Steady
  <2>5. said \in Seq(Tasks) /\ \A u \in ToSet(said) : u.op \in {"send", "each"}
    BY <2>2, <2>3, AnnounceOps, FrameTypes DEF OrNobody
  <2>6. LastOnly(said)
    BY <2>5, LenProperties DEF LastOnly, ToSet
  <2>7. LastInv'
    BY <2>4, <2>6 DEF LastInv
  <2>8. Relays(c, r)
    BY <2>1, <2>3, <2>4 DEF Relays, pending
  <2> QED
    BY <2>2, <2>4, <2>5, <2>7, <2>8 DEF Begun
<1>6. CASE OnGone(c)
  <2>1. /\ idle /\ conn[c] = "up" /\ agenda' = <<DropTask(c)>>
        /\ Steady /\ UNCHANGED <<room, members, started>>
    BY <1>6 DEF OnGone, Steady
  <2> QED
    BY <2>1, <1>d
<1>7. ASSUME NEW n \in Names, OnHello(c, n)
      PROVE  idle /\ agenda' \in Seq(Tasks) /\ LastInv' /\ Begun(c)
  <2>1. idle /\ conn[c] = "up" /\ Steady /\ UNCHANGED <<room, members, started>>
    BY <1>7 DEF OnHello, Steady
  <2>2. Hellos(c, n)
    BY <2>1, <1>7, HelloStep DEF Hellos
  <2>3. agenda' \in Seq(Tasks) /\ LastInv'
    BY <1>7, HelloStep
  <2> QED
    BY <2>1, <2>2, <2>3 DEF Begun
<1>8. ASSUME NEW n \in Names, OnJoin(c, n)
      PROVE  idle /\ agenda' \in Seq(Tasks) /\ LastInv' /\ Begun(c)
  <2>1. idle /\ conn[c] = "up" /\ room[c] = None /\ Steady /\ UNCHANGED started
    BY <1>8 DEF OnJoin, Steady
  <2>2. CASE name[c] # None /\ Joinable(c, byName[n])
    <3>1. PICK t : t = byName[n]
      OBVIOUS
    <3>2. t \in Clients
      BY <2>2, <3>1 DEF Joinable, TypeInv, OrNobody
    <3>3. Joinable(c, t) /\ EnterRoom(c, t)
      BY <1>8, <2>2, <3>1 DEF OnJoin
    <3>4. PICK r \in Clients, ms \in Seq(Clients) : Enters(c, t, r, ms)
      BY <2>1, <3>2, <3>3, EnterStep
    <3>5. Joins(c, t, r, ms)
      BY <2>1, <3>1, <3>4 DEF Joins
    <3> QED
      BY <2>1, <3>2, <3>4, <3>5 DEF Begun, Enters
  <2>3. CASE ~(name[c] # None /\ Joinable(c, byName[n]))
    <3>1. UNCHANGED <<room, members, started>>
      BY <1>8, <2>3 DEF OnJoin
    <3>2. agenda' = <<DropTask(c)>> \/ agenda' = <<SendTask(c, ReplyFrame)>>
      BY <1>8, <2>3 DEF OnJoin
    <3> QED
      BY <2>1, <3>1, <3>2, <1>r, <1>d
  <2> QED
    BY <2>2, <2>3
<1> QED
  BY <1>1, <1>1a, <1>2, <1>3, <1>4, <1>5, <1>6, <1>7, <1>8
-----------------------------------------------------------------------------
(* Types.                                                                  *)

LEMMA PlayersFacts ==
  ASSUME NEW f
  PROVE  Players(f) \in Nat /\ Players(f) <= Cardinality(Names) /\ Cardinality(Names) \in Nat
<1> DEFINE S == {n \in Names : f[n] # None}
<1>1. S \subseteq Names
  OBVIOUS
<1> HIDE DEF S
<1>2. IsFiniteSet(S) /\ Cardinality(S) <= Cardinality(Names)
  BY <1>1, FiniteAssumption, FS_Subset
<1>3. Cardinality(S) \in Nat /\ Cardinality(Names) \in Nat
  BY <1>2, FiniteAssumption, FS_CardinalityType
<1> QED
  BY <1>2, <1>3 DEF Players, S

LEMMA NoViewFacts == NoView \in Views /\ NoView.roster = <<>> /\ ~NoView.active /\ ~NoView.dropped
BY EmptySeq DEF NoView, Views, Rosters

(* What a drop does to the client itself.                                  *)
LEMMA ForgetFacts ==
  ASSUME TypeInv, NEW c \in Clients, Forget(c)
  PROVE  /\ conn' \in [Clients -> {"new", "up", "dead"}]
         /\ name' \in [Clients -> Names \cup {None}]
         /\ byName' \in [Names -> OrNobody]
         /\ view' \in [Clients -> Views]
         /\ published' \in Nat
         /\ conn'[c] = "dead" /\ view'[c] = NoView /\ name'[c] = None
         /\ \A d \in Clients \ {c} :
              conn'[d] = conn[d] /\ view'[d] = view[d] /\ name'[d] = name[d]
         /\ \A n \in Names : byName'[n] = IF byName[n] = c THEN None ELSE byName[n]
         /\ published' = published \/ published' = Players(byName')
         /\ byName' # byName => published' = Players(byName')
<1>1. /\ conn' = [conn EXCEPT ![c] = "dead"] /\ name' = [name EXCEPT ![c] = None]
      /\ view' = [view EXCEPT ![c] = NoView]
      /\ byName' = [n \in Names |-> IF byName[n] = c THEN None ELSE byName[n]]
  BY DEF Forget, Unnamed
<1>2. conn' \in [Clients -> {"new", "up", "dead"}]
  BY <1>1 DEF TypeInv
<1>3. name' \in [Clients -> Names \cup {None}]
  BY <1>1 DEF TypeInv
<1>4. byName' \in [Names -> OrNobody]
  BY <1>1 DEF TypeInv, OrNobody
<1>5. view' \in [Clients -> Views]
  BY <1>1, NoViewFacts DEF TypeInv
<1>6. published' \in Nat
  BY PlayersFacts DEF Forget, TypeInv
<1>7. published' = published \/ published' = Players(byName')
  BY DEF Forget
<1>8. byName' # byName => published' = Players(byName')
  BY DEF Forget
<1>9. conn'[c] = "dead" /\ view'[c] = NoView /\ name'[c] = None
  BY <1>1 DEF TypeInv
<1>10. \A d \in Clients \ {c} : conn'[d] = conn[d] /\ view'[d] = view[d] /\ name'[d] = name[d]
  BY <1>1 DEF TypeInv
<1> QED
  BY <1>1, <1>2, <1>3, <1>4, <1>5, <1>6, <1>7, <1>8, <1>9, <1>10

LEMMA InitTypes == Init => TypeInv /\ LastInv
<1> SUFFICES ASSUME Init PROVE TypeInv /\ LastInv
  OBVIOUS
<1>1. server \in Servers /\ broken = {} /\ published = 0 /\ agenda = <<>>
  BY DEF Init
<1>2. conn \in [Clients -> {"new", "up", "dead"}]
  BY DEF Init
<1>3. name \in [Clients -> Names \cup {None}] /\ byName \in [Names -> OrNobody]
  BY DEF Init, OrNobody
<1>4. /\ room \in [Clients -> OrNobody] /\ members \in [Clients -> Seq(Clients)]
      /\ started \in [Clients -> BOOLEAN]
  BY EmptySeq DEF Init, OrNobody
<1>5. view \in [Clients -> Views]
  BY NoViewFacts DEF Init
<1>6. agenda \in Seq(Tasks)
  BY <1>1, EmptySeq
<1>7. LastInv
  BY <1>1 DEF LastInv, LastOnly
<1> QED
  BY <1>1, <1>2, <1>3, <1>4, <1>5, <1>6, <1>7 DEF TypeInv

LEMMA DrainTypes ==
  ASSUME TypeInv, LastInv, SeatsInv, UNCHANGED server,
         DoSend \/ DoEach \/ DoDrop \/ DoClear \/ DoPublish \/ DoRegister \/ DoAutoGo
  PROVE  TypeInv' /\ LastInv'
<1> USE DEF TypeInv
<1>1. CASE DoSend
  <2>1. PICK c \in OrNobody, f \in Frames :
          /\ agenda' \in Seq(Tasks) /\ LastInv'
          /\ \/ UNCHANGED view
             \/ c \in Clients /\ view' = [view EXCEPT ![c] = Fold(@, f)]
    BY <1>1, SendStep
  <2>2. view' \in [Clients -> Views]
    <3>1. CASE UNCHANGED view
      BY <3>1
    <3>2. CASE c \in Clients /\ view' = [view EXCEPT ![c] = Fold(@, f)]
      <4>1. Fold(view[c], f) \in Views
        BY <3>2, FoldFacts
      <4> QED
        BY <3>2, <4>1
    <3> QED
      BY <2>1, <3>1, <3>2
  <2> QED
    BY <1>1, <2>1, <2>2 DEF DoSend
<1>2. CASE DoEach
  <2>1. agenda' \in Seq(Tasks) /\ LastInv'
    BY <1>2, EachStep
  <2> QED
    BY <1>2, <2>1 DEF DoEach
<1>3. CASE DoDrop
  <2>1. PICK c \in Clients :
           /\ agenda' \in Seq(Tasks) /\ LastInv'
           /\ \/ UNCHANGED <<conn, name, byName, room, members, started, published, view>>
              \/ Forget(c) /\ UNCHANGED <<room, members, started>>
              \/ /\ Forget(c)
                 /\ \E r \in Clients, rest \in Seq(Clients) :
                      \/ EndMatch(c, r, rest) \/ Dissolve(c, r, rest) \/ Reseat(c, r, rest)
    BY <1>3, DropStep DEF MatchEnds, RoomEnds, RoomShrinks
  <2>2. UNCHANGED broken
    BY <1>3 DEF DoDrop
  <2>3. CASE UNCHANGED <<conn, name, byName, room, members, started, published, view>>
    BY <2>1, <2>2, <2>3
  <2>4. CASE Forget(c) /\ UNCHANGED <<room, members, started>>
    BY <2>1, <2>2, <2>4, ForgetFacts
  <2>5. ASSUME Forget(c), NEW r \in Clients, NEW rest \in Seq(Clients),
               EndMatch(c, r, rest) \/ Dissolve(c, r, rest) \/ Reseat(c, r, rest)
        PROVE  TypeInv' /\ LastInv'
    <3>1. /\ room' \in [Clients -> OrNobody]
          /\ started' \in [Clients -> BOOLEAN]
      BY <2>5 DEF EndMatch, Dissolve, Reseat, OrNobody
    <3>2. members' \in [Clients -> Seq(Clients)]
      <4>1. members' = [members EXCEPT ![r] = <<>>] \/ members' = [members EXCEPT ![r] = rest]
        BY <2>5 DEF EndMatch, Dissolve, Reseat
      <4> QED
        BY <2>5, <4>1, EmptySeq
    <3> QED
      BY <2>1, <2>2, <2>5, <3>1, <3>2, ForgetFacts
  <2> QED
    BY <2>1, <2>3, <2>4, <2>5
<1>4. CASE DoClear
  <2>1. PICK r \in Clients : agenda' \in Seq(Tasks) /\ LastInv' /\ members' = [members EXCEPT ![r] = <<>>]
    BY <1>4, ClearStep
  <2>2. members' \in [Clients -> Seq(Clients)]
    BY <2>1, EmptySeq
  <2> QED
    BY <1>4, <2>1, <2>2 DEF DoClear
<1>5. CASE DoPublish
  <2>1. agenda' \in Seq(Tasks) /\ LastInv'
    BY <1>5, PublishStep
  <2>2. published' \in Nat
    BY <1>5, PlayersFacts DEF DoPublish
  <2> QED
    BY <1>5, <2>1, <2>2 DEF DoPublish
<1>6. CASE DoRegister
  <2>1. PICK c \in Clients, n \in Names :
           /\ agenda' \in Seq(Tasks) /\ LastInv'
           /\ \/ UNCHANGED <<name, byName>>
              \/ name' = [name EXCEPT ![c] = n] /\ byName' = [Freed(c, n) EXCEPT ![n] = c]
    BY <1>6, RegisterStep
  <2>2. Freed(c, n) \in [Names -> OrNobody]
    BY DEF Freed, OrNobody
  <2>3. name' \in [Clients -> Names \cup {None}]
    BY <2>1
  <2>4. byName' \in [Names -> OrNobody]
    BY <2>1, <2>2 DEF OrNobody
  <2> QED
    BY <1>6, <2>1, <2>3, <2>4 DEF DoRegister
<1>7. CASE DoAutoGo
  <2>1. PICK r \in Clients :
           /\ agenda' \in Seq(Tasks) /\ LastInv'
           /\ UNCHANGED started \/ started' = [started EXCEPT ![r] = TRUE]
    BY <1>7, AutoGoStep DEF Starts
  <2>2. started' \in [Clients -> BOOLEAN]
    BY <2>1
  <2> QED
    BY <1>7, <2>1, <2>2 DEF DoAutoGo
<1> QED
  BY <1>1, <1>2, <1>3, <1>4, <1>5, <1>6, <1>7
LEMMA EventTypes ==
  ASSUME TypeInv, LastInv, SeatsInv, UNCHANGED server, Event
  PROVE  TypeInv' /\ LastInv'
<1> USE DEF TypeInv
<1>1. PICK c \in Clients : Begun(c)
  BY EventStep
<1>2. agenda' \in Seq(Tasks) /\ LastInv'
  BY EventStep
<1>3. CASE Accepts(c)
  BY <1>2, <1>3 DEF Accepts
<1>4. CASE Breaks(c)
  BY <1>2, <1>4 DEF Breaks
<1>5. CASE Steady /\ UNCHANGED <<room, members, started>>
  BY <1>2, <1>5 DEF Steady
<1>6. ASSUME NEW r \in Clients, Goes(c, r)
      PROVE  TypeInv' /\ LastInv'
  BY <1>2, <1>6 DEF Goes, Starts, Steady
<1>7. ASSUME NEW t \in Clients, NEW r \in Clients, NEW ms \in Seq(Clients), Joins(c, t, r, ms)
      PROVE  TypeInv' /\ LastInv'
  <2>1. room' \in [Clients -> OrNobody] /\ members' \in [Clients -> Seq(Clients)]
    BY <1>7 DEF Joins, Enters, OrNobody
  <2> QED
    BY <1>2, <1>7, <2>1 DEF Joins, Steady
<1> QED
  BY <1>1, <1>3, <1>4, <1>5, <1>6, <1>7 DEF Begun, Replies, Hangs, Hellos, Relays
-----------------------------------------------------------------------------
(* Rooms and members.                                                      *)

LEMMA SeatOKKept ==
  ASSUME SeatsInv, NEW q \in Clients, members'[q] = members[q], started'[q] = started[q],
         \A x \in Clients : room'[x] = q <=> room[x] = q,
         ClearTask(q) \in pending' <=> ClearTask(q) \in pending
  PROVE  SeatOK(q)'
<1>1. SeatOK(q)
  BY DEF SeatsInv
<1>2. Clearing(q)' <=> Clearing(q)
  BY DEF Clearing
<1>3. Cleared(q)' <=> Cleared(q)
  BY DEF Cleared
<1>4. Seated(q)' <=> Seated(q)
  <2>1. {x \in Clients : room'[x] = q} = {x \in Clients : room[x] = q}
    OBVIOUS
  <2> QED
    BY <2>1 DEF Seated
<1> QED
  BY <1>1, <1>2, <1>3, <1>4 DEF SeatOK

LEMMA SeatsKept ==
  ASSUME SeatsInv, UNCHANGED <<room, members, started>>,
         \A r \in Clients : ClearTask(r) \in pending' <=> ClearTask(r) \in pending
  PROVE  SeatsInv'
<1>1. \A q \in Clients : SeatOK(q)'
  BY SeatOKKept
<1> QED
  BY <1>1 DEF SeatsInv

(* A match starts in a room that has members and is not being cleared.     *)
LEMMA SeatsStart ==
  ASSUME TypeInv, SeatsInv, NEW r \in Clients, Starts(r), members[r] # <<>>,
         \A q \in Clients : ClearTask(q) \notin pending, UNCHANGED <<room, members>>
  PROVE  SeatsInv'
<1>1. started' = [started EXCEPT ![r] = TRUE]
  BY DEF Starts
<1>2. \A q \in Clients : ClearTask(q) \notin pending'
  <2>1. RoomFrame(members[r]) \in Frames /\ StartFrame(members[r]) \in Frames
        /\ members[r] \in Seq(Clients) /\ None \in OrNobody
    BY FrameTypes DEF TypeInv, Rosters, OrNobody
  <2>2. \A u \in ToSet(Announce(r, members[r], StartFrame(members[r]), None)) :
          u.op \in {"send", "each"}
    BY <2>1, AnnounceOps
  <2> QED
    BY <2>2, TaskOps DEF Starts
<1>3. ASSUME NEW q \in Clients PROVE SeatOK(q)'
  <2>1. CASE q # r
    BY <2>1, <1>1, <1>2, SeatOKKept DEF TypeInv
  <2>2. CASE q = r
    <3>1. Seated(r) /\ Len(members[r]) <= MaxSeats
      BY DEF SeatsInv, SeatOK, Clearing
    <3>2. Seated(r)'
      BY <3>1, <1>1 DEF Seated, TypeInv
    <3> QED
      BY <2>2, <3>1, <3>2, <1>2 DEF SeatOK, Clearing
  <2> QED
    BY <2>1, <2>2
<1> QED
  BY <1>3 DEF SeatsInv

LEMMA SeatsMatchEnds ==
  ASSUME TypeInv, SeatsInv, NEW c \in Clients, NEW r \in Clients, NEW rest \in Seq(Clients),
         pending = {DropTask(c)} \cup below, Leaves(c, r, rest), MatchEnds(c, r, rest)
  PROVE  SeatsInv'
<1>1. /\ room' = [m \in Clients |-> IF room[m] = r THEN None ELSE room[m]]
      /\ members' = [members EXCEPT ![r] = <<>>]
      /\ started' = [started EXCEPT ![r] = FALSE]
  BY DEF MatchEnds, EndMatch
<1>2. \A q \in Clients : ClearTask(q) \in pending' <=> ClearTask(q) \in pending
  BY TaskOps DEF MatchEnds
<1>3. ASSUME NEW q \in Clients PROVE SeatOK(q)'
  <2>1. CASE q # r
    <3>1. \A x \in Clients : room'[x] = q <=> room[x] = q
      BY <2>1, <1>1, NoneAssumption
    <3> QED
      BY <2>1, <3>1, <1>1, <1>2, SeatOKKept DEF TypeInv
  <2>2. CASE q = r
    <3>1. members'[r] = <<>> /\ ~started'[r] /\ \A x \in Clients : room'[x] # r
      BY <1>1, NoneAssumption DEF TypeInv
    <3>2. Seated(r)'
      BY <3>1, SetOfEmpty DEF Seated, IsInjective
    <3>3. ~Clearing(r)'
      BY <1>2 DEF Leaves, Clearing
    <3>4. Len(members'[r]) <= MaxSeats
      BY <3>1, SeatsAssumption
    <3> QED
      BY <2>2, <3>2, <3>3, <3>4 DEF SeatOK
  <2> QED
    BY <2>1, <2>2
<1> QED
  BY <1>3 DEF SeatsInv

LEMMA SeatsRoomEnds ==
  ASSUME TypeInv, SeatsInv, NEW c \in Clients, NEW r \in Clients, NEW rest \in Seq(Clients),
         pending = {DropTask(c)} \cup below, Leaves(c, r, rest), RoomEnds(c, r, rest)
  PROVE  SeatsInv'
<1>1. /\ room' = [m \in Clients |-> IF room[m] = r THEN None ELSE room[m]]
      /\ members' = [members EXCEPT ![r] = rest]
      /\ UNCHANGED started /\ ~started[r]
  BY DEF RoomEnds, Dissolve
<1>2. \A q \in Clients \ {r} : ClearTask(q) \in pending' <=> ClearTask(q) \in pending
  BY TaskOps DEF RoomEnds
<1>3. ASSUME NEW q \in Clients PROVE SeatOK(q)'
  <2>1. CASE q # r
    <3>1. \A x \in Clients : room'[x] = q <=> room[x] = q
      BY <2>1, <1>1, NoneAssumption
    <3> QED
      BY <2>1, <3>1, <1>1, <1>2, SeatOKKept DEF TypeInv
  <2>2. CASE q = r
    <3>1. members'[r] = rest /\ ~started'[r] /\ \A x \in Clients : room'[x] # r
      BY <1>1, NoneAssumption DEF TypeInv
    <3>2. Clearing(r)' /\ Cleared(r)'
      BY <3>1 DEF RoomEnds, Clearing, Cleared
    <3>3. Len(rest) <= MaxSeats
      <4>1. Len(members[r]) \in Nat /\ Len(members[r]) <= MaxSeats
        BY LenProperties DEF SeatsInv, SeatOK, TypeInv
      <4> QED
        BY <4>1, SeatsAssumption DEF Leaves
    <3> QED
      BY <2>2, <3>1, <3>2, <3>3 DEF SeatOK
  <2> QED
    BY <2>1, <2>2
<1> QED
  BY <1>3 DEF SeatsInv

LEMMA SeatsRoomShrinks ==
  ASSUME TypeInv, SeatsInv, NEW c \in Clients, NEW r \in Clients, NEW rest \in Seq(Clients),
         pending = {DropTask(c)} \cup below, Leaves(c, r, rest), RoomShrinks(c, r, rest)
  PROVE  SeatsInv'
<1>1. /\ room' = [room EXCEPT ![c] = None] /\ members' = [members EXCEPT ![r] = rest]
      /\ UNCHANGED started /\ ~started[r] /\ Len(rest) >= 2 /\ members[r][1] # c
  BY DEF RoomShrinks, Reseat
<1>2. \A q \in Clients : ClearTask(q) \in pending' <=> ClearTask(q) \in pending
  <2>1. RoomFrame(rest) \in Frames /\ None \in OrNobody
    BY FrameTypes DEF Rosters, OrNobody
  <2>2. \A u \in ToSet(Announce(r, rest, RoomFrame(rest), None)) : u.op \in {"send", "each"}
    BY <2>1, AnnounceOps
  <2> QED
    BY <2>2, TaskOps DEF RoomShrinks
<1>3. ASSUME NEW q \in Clients PROVE SeatOK(q)'
  <2>1. CASE q # r
    <3>1. \A x \in Clients : room'[x] = q <=> room[x] = q
      BY <2>1, <1>1, NoneAssumption DEF TypeInv, Leaves
    <3> QED
      BY <2>1, <3>1, <1>1, <1>2, SeatOKKept DEF TypeInv
  <2>2. CASE q = r
    <3>1. members'[r] = rest /\ ~started'[r]
      BY <1>1 DEF TypeInv
    <3>2. \A x \in Clients : room'[x] = r <=> room[x] = r /\ x # c
      BY <1>1, NoneAssumption DEF TypeInv
    <3>3. ToSet(rest) = {x \in Clients : room'[x] = r}
      <4>1. \A x \in ToSet(rest) : x \in Clients
        BY ElementOfSeq, LenProperties DEF ToSet
      <4> QED
        BY <4>1, <3>2 DEF Leaves
    <3>4. Len(rest) \in 2 .. MaxSeats
      <4>1. Len(members[r]) \in Nat /\ Len(members[r]) <= MaxSeats
        BY LenProperties DEF SeatsInv, SeatOK, TypeInv
      <4> QED
        BY <4>1, <1>1, SeatsAssumption DEF Leaves
    <3>5. rest[1] = r
      <4>1. rest # <<>>
        <5>1. Len(<<>>) = 0
          OBVIOUS
        <5> QED
          BY <5>1, <1>1
      <4>2. members[r] # <<>>
        <5>1. Len(<<>>) = 0
          OBVIOUS
        <5>2. Len(rest) = Len(members[r]) - 1
          BY DEF Leaves
        <5> QED
          BY <5>1, <5>2, <1>1
      <4>3. members[r][1] = r
        BY <4>2 DEF Leaves, Seated
      <4> QED
        BY <4>1, <4>3, <1>1 DEF Leaves
    <3>6. Seated(r)'
      BY <3>1, <3>3, <3>4, <3>5 DEF Seated, Leaves
    <3>7. ~Clearing(r)'
      BY <1>2 DEF Leaves, Clearing
    <3>8. Len(rest) <= MaxSeats
      BY <3>4
    <3> QED
      BY <2>2, <3>1, <3>6, <3>7, <3>8 DEF SeatOK
  <2> QED
    BY <2>1, <2>2
<1> QED
  BY <1>3 DEF SeatsInv

LEMMA SeatsClear ==
  ASSUME TypeInv, SeatsInv, DoClear
  PROVE  SeatsInv'
<1>1. PICK r \in Clients :
        /\ pending = {ClearTask(r)} \cup below /\ pending' = below
        /\ members' = [members EXCEPT ![r] = <<>>]
  BY ClearStep
<1>2. UNCHANGED <<room, started>>
  BY DEF DoClear
<1>3. ASSUME NEW q \in Clients PROVE SeatOK(q)'
  <2>1. CASE q # r
    <3>1. ClearTask(q) \in pending' <=> ClearTask(q) \in pending
      BY <2>1, <1>1, TaskOps
    <3> QED
      BY <2>1, <3>1, <1>1, <1>2, SeatOKKept DEF TypeInv
  <2>2. CASE q = r
    <3>1. Cleared(r)
      BY <1>1 DEF SeatsInv, SeatOK, Clearing
    <3>2. members'[r] = <<>>
      BY <1>1 DEF TypeInv
    <3>3. Cleared(r)'
      BY <3>1, <1>2 DEF Cleared
    <3>4. Seated(r)'
      BY <3>2, <3>3, SetOfEmpty DEF Cleared, Seated, IsInjective
    <3>5. Len(members'[r]) <= MaxSeats
      BY <3>2, SeatsAssumption
    <3> QED
      BY <2>2, <3>3, <3>4, <3>5 DEF SeatOK
  <2> QED
    BY <2>1, <2>2
<1> QED
  BY <1>3 DEF SeatsInv

LEMMA SeatsJoin ==
  ASSUME TypeInv, SeatsInv, idle, NEW c \in Clients, NEW t \in Clients, NEW r \in Clients,
         NEW ms \in Seq(Clients), Enters(c, t, r, ms), UNCHANGED started
  PROVE  SeatsInv'
<1>1. /\ room' = [room EXCEPT ![t] = r, ![c] = r] /\ members' = [members EXCEPT ![r] = ms]
      /\ t # c /\ room[c] = None /\ room[t] \in {None, r}
  BY DEF Enters
<1>2. \A q \in Clients : ClearTask(q) \notin pending' /\ ClearTask(q) \notin pending
  <2>1. RoomFrame(ms) \in Frames /\ None \in OrNobody
    BY FrameTypes DEF Rosters, OrNobody
  <2>2. \A u \in ToSet(Announce(r, ms, RoomFrame(ms), None)) : u.op \in {"send", "each"}
    BY <2>1, AnnounceOps
  <2> QED
    BY <2>2, TaskOps, IdleFacts DEF Enters
<1>3. ASSUME NEW q \in Clients PROVE SeatOK(q)'
  <2>1. CASE q # r
    <3>1. \A x \in Clients : room'[x] = q <=> room[x] = q
      BY <2>1, <1>1, NoneAssumption DEF TypeInv
    <3> QED
      BY <2>1, <3>1, <1>1, <1>2, SeatOKKept DEF TypeInv
  <2>2. CASE q = r
    <3>1. members'[r] = ms /\ ~started'[r] /\ IsInjective(ms) /\ Len(ms) \in 2 .. MaxSeats
          /\ ms[1] = r
      BY <1>1 DEF TypeInv, Enters
    <3>2. ToSet(ms) = {x \in Clients : room'[x] = r}
      <4>1. \A x \in ToSet(ms) : x \in Clients
        BY ElementOfSeq, LenProperties DEF ToSet
      <4> QED
        BY <4>1 DEF Enters
    <3>3. Seated(r)'
      BY <3>1, <3>2 DEF Seated
    <3>4. Len(ms) <= MaxSeats
      BY <3>1
    <3> QED
      BY <2>2, <3>1, <3>3, <3>4, <1>2 DEF SeatOK, Clearing
  <2> QED
    BY <2>1, <2>2
<1> QED
  BY <1>3 DEF SeatsInv
Drain == DoSend \/ DoEach \/ DoDrop \/ DoClear \/ DoPublish \/ DoRegister \/ DoAutoGo

LEMMA DrainSeats ==
  ASSUME TypeInv, LastInv, SeatsInv, Drain
  PROVE  SeatsInv'
<1>1. CASE DoSend
  <2>1. PICK c \in OrNobody, f \in Frames :
          /\ pending = {SendTask(c, f)} \cup below
          /\ pending' = below \/ pending' = {DropTask(c)} \cup below
    BY <1>1, SendStep
  <2>2. \A r \in Clients : ClearTask(r) \in pending' <=> ClearTask(r) \in pending
    BY <2>1, TaskOps
  <2> QED
    BY <1>1, <2>2, SeatsKept DEF DoSend
<1>2. CASE DoEach
  <2>1. PICK r \in Clients, i \in Nat \ {0}, f \in Frames, but \in OrNobody :
          pending = {EachTask(r, i, f, but)} \cup below /\ Walks(r, i, f, but)
    BY <1>2, EachStep
  <2>2. \A q \in Clients : ClearTask(q) \in pending' <=> ClearTask(q) \in pending
    BY <2>1, TaskOps DEF Walks
  <2> QED
    BY <1>2, <2>2, SeatsKept DEF DoEach
<1>3. CASE DoDrop
  <2>1. PICK c \in Clients :
           /\ pending = {DropTask(c)} \cup below
           /\ \/ pending' = below /\ UNCHANGED <<room, members, started>>
              \/ \E r \in Clients, rest \in Seq(Clients) :
                   /\ Leaves(c, r, rest)
                   /\ \/ MatchEnds(c, r, rest)
                      \/ RoomEnds(c, r, rest)
                      \/ RoomShrinks(c, r, rest)
    BY <1>3, DropStep
  <2>2. CASE pending' = below /\ UNCHANGED <<room, members, started>>
    <3>1. \A q \in Clients : ClearTask(q) \in pending' <=> ClearTask(q) \in pending
      BY <2>1, <2>2, TaskOps
    <3> QED
      BY <2>2, <3>1, SeatsKept
  <2> QED
    BY <2>1, <2>2, SeatsMatchEnds, SeatsRoomEnds, SeatsRoomShrinks
<1>4. CASE DoClear
  BY <1>4, SeatsClear
<1>5. CASE DoPublish
  <2>1. \A q \in Clients : ClearTask(q) \in pending' <=> ClearTask(q) \in pending
    BY <1>5, PublishStep, TaskOps
  <2> QED
    BY <1>5, <2>1, SeatsKept DEF DoPublish
<1>6. CASE DoRegister
  <2>1. PICK c \in Clients, n \in Names :
           /\ pending = {RegisterTask(c, n)}
           /\ pending' = {} \/ pending' = {PublishTask, SendTask(c, ReplyFrame)}
    BY <1>6, RegisterStep
  <2>2. \A q \in Clients : ClearTask(q) \in pending' <=> ClearTask(q) \in pending
    BY <2>1, TaskOps
  <2> QED
    BY <1>6, <2>2, SeatsKept DEF DoRegister
<1>7. CASE DoAutoGo
  <2>1. PICK r \in Clients :
           /\ pending = {AutoGoTask(r)}
           /\ \/ pending' = {} /\ UNCHANGED started
              \/ Starts(r) /\ members[r] # <<>>
    BY <1>7, AutoGoStep
  <2>2. \A q \in Clients : ClearTask(q) \notin pending
    BY <2>1, TaskOps
  <2>3. UNCHANGED <<room, members>>
    BY <1>7 DEF DoAutoGo
  <2>4. CASE pending' = {} /\ UNCHANGED started
    BY <2>2, <2>3, <2>4, SeatsKept
  <2> QED
    BY <2>1, <2>2, <2>3, <2>4, SeatsStart
<1> QED
  BY <1>1, <1>2, <1>3, <1>4, <1>5, <1>6, <1>7 DEF Drain

LEMMA EventSeats ==
  ASSUME TypeInv, LastInv, SeatsInv, Event
  PROVE  SeatsInv'
<1>1. idle
  BY EventStep
<1>2. PICK c \in Clients : Begun(c)
  BY EventStep
<1>3. \A q \in Clients : ClearTask(q) \notin pending
  BY <1>1, IdleFacts
<1>4. CASE Accepts(c) \/ Breaks(c)
  <2>1. pending' = pending /\ UNCHANGED <<room, members, started>>
    BY <1>4 DEF Accepts, Breaks, pending
  <2> QED
    BY <2>1, SeatsKept
<1>5. CASE Replies(c) \/ Hangs(c) \/ \E n \in Names : Hellos(c, n)
  <2>1. UNCHANGED <<room, members, started>> /\ \A q \in Clients : ClearTask(q) \notin pending'
    BY <1>5, TaskOps DEF Replies, Hangs, Hellos
  <2> QED
    BY <2>1, <1>3, SeatsKept
<1>6. ASSUME NEW r \in Clients, Relays(c, r) PROVE SeatsInv'
  <2>1. RelayFrame \in Frames /\ members[r] \in Seq(Clients) /\ c \in OrNobody
    BY FrameTypes DEF TypeInv, OrNobody
  <2>2. \A u \in ToSet(Announce(r, members[r], RelayFrame, c)) : u.op \in {"send", "each"}
    BY <2>1, AnnounceOps
  <2>3. UNCHANGED <<room, members, started>> /\ \A q \in Clients : ClearTask(q) \notin pending'
    BY <1>6, <2>2, TaskOps DEF Relays
  <2> QED
    BY <2>3, <1>3, SeatsKept
<1>7. ASSUME NEW r \in Clients, Goes(c, r) PROVE SeatsInv'
  <2>1. Starts(r) /\ UNCHANGED <<room, members>> /\ Len(members[r]) \in 2 .. MaxSeats
    BY <1>7 DEF Goes
  <2>2. members[r] # <<>>
    <3>1. Len(<<>>) = 0
      OBVIOUS
    <3> QED
      BY <2>1, <3>1
  <2> QED
    BY <2>1, <2>2, <1>3, SeatsStart
<1>8. ASSUME NEW t \in Clients, NEW r \in Clients, NEW ms \in Seq(Clients), Joins(c, t, r, ms)
      PROVE  SeatsInv'
  BY <1>8, <1>1, SeatsJoin DEF Joins
<1> QED
  BY <1>2, <1>4, <1>5, <1>6, <1>7, <1>8 DEF Begun

LEMMA InitSeats == Init => SeatsInv
<1> SUFFICES ASSUME Init, NEW r \in Clients PROVE SeatOK(r)
  BY DEF SeatsInv
<1>1. /\ members[r] = <<>> /\ ~started[r] /\ agenda = <<>>
      /\ \A c \in Clients : room[c] # r
  BY NoneAssumption DEF Init
<1>2. ~Clearing(r)
  BY <1>1, SetOfEmpty DEF Clearing, pending
<1>3. Seated(r)
  BY <1>1, SetOfEmpty DEF Seated, IsInjective
<1>4. Len(members[r]) <= MaxSeats
  BY <1>1, SeatsAssumption
<1> QED
  BY <1>2, <1>3, <1>4 DEF SeatOK

-----------------------------------------------------------------------------
(* The name table, and who may be in a room: while the server is Sound.    *)

LEMMA SoundBefore ==
  ASSUME UNCHANGED server, Drain \/ Event
  PROVE  /\ broken \subseteq broken' /\ (Sound' => Sound) /\ (broken' = {} => broken = {})
<1>1. broken \subseteq broken'
  BY DEF Drain, Event, DoSend, DoEach, DoDrop, DoClear, DoPublish, DoRegister, DoAutoGo,
         Accept, Break, OnAsk, OnGo, OnRelay, OnGone, OnHello, OnJoin
<1>2. broken' = {} => broken = {}
  BY <1>1
<1> QED
  BY <1>1, <1>2 DEF Sound

LEMMA UpNext ==
  ASSUME TypeInv, LastInv, SeatsInv, UpInv, TableInv, UNCHANGED server, Drain \/ Event
  PROVE  UpInv'
<1> SUFFICES ASSUME Sound', NEW x \in Clients, room'[x] # None PROVE conn'[x] = "up"
  BY DEF UpInv
<1>1. Sound
  BY SoundBefore
<1>2. \A y \in Clients : room[y] # None => conn[y] = "up"
  BY <1>1 DEF UpInv
<1>3. CASE UNCHANGED <<room, conn>>
  BY <1>2, <1>3
<1>4. CASE DoDrop
  <2>1. PICK c \in Clients :
           \/ UNCHANGED <<conn, room>>
           \/ Forget(c) /\ room[c] = None /\ UNCHANGED room
           \/ /\ Forget(c)
              /\ \E r \in Clients, rest \in Seq(Clients) :
                   /\ room[c] = r
                   /\ EndMatch(c, r, rest) \/ Dissolve(c, r, rest) \/ Reseat(c, r, rest)
    BY <1>4, DropStep DEF Leaves, MatchEnds, RoomEnds, RoomShrinks
  <2>2. ASSUME Forget(c), NEW r \in Clients, NEW rest \in Seq(Clients), room[c] = r,
               EndMatch(c, r, rest) \/ Dissolve(c, r, rest) \/ Reseat(c, r, rest)
        PROVE  room'[c] = None /\ (room[x] # None \/ room'[x] = room[x])
    BY <2>2 DEF EndMatch, Dissolve, Reseat, TypeInv
  <2>3. CASE UNCHANGED <<conn, room>>
    BY <2>3, <1>3
  <2>4. CASE Forget(c) /\ room'[c] = None /\ (room[x] # None \/ room'[x] = room[x])
    <3>1. x # c /\ room[x] # None
      BY <2>4
    <3> QED
      BY <2>4, <3>1, <1>2, ForgetFacts
  <2> QED
    BY <2>1, <2>2, <2>3, <2>4
<1>5. CASE Event
  <2>1. PICK c \in Clients : Begun(c)
    BY <1>5, EventStep
  <2>2. CASE Accepts(c)
    BY <2>2, <1>2 DEF Accepts, TypeInv
  <2>3. ASSUME NEW t \in Clients, NEW r \in Clients, NEW ms \in Seq(Clients), Joins(c, t, r, ms)
        PROVE  conn'[x] = "up"
    <3>1. conn[c] = "up" /\ UNCHANGED conn /\ room' = [room EXCEPT ![t] = r, ![c] = r]
      BY <2>3 DEF Joins, Enters, Steady
    <3>2. conn[t] = "up"
      BY <2>3, <1>1, NoneAssumption DEF Joins, TableInv
    <3> QED
      BY <3>1, <3>2, <1>2 DEF TypeInv
  <2> QED
    BY <2>1, <2>2, <2>3, <1>3
       DEF Begun, Breaks, Replies, Hangs, Hellos, Relays, Goes, Steady
<1> QED
  BY <1>3, <1>4, <1>5 DEF Drain, DoSend, DoEach, DoClear, DoPublish, DoRegister, DoAutoGo

LEMMA TableNext ==
  ASSUME TypeInv, LastInv, SeatsInv, TableInv, CallerInv, NewInv, UNCHANGED server, Drain \/ Event
  PROVE  TableInv'
<1> SUFFICES ASSUME Sound'
             PROVE  /\ \A n \in Names : byName'[n] # None =>
                          conn'[byName'[n]] = "up" /\ name'[byName'[n]] = n
                    /\ \A c \in Clients : conn'[c] = "up" /\ name'[c] # None =>
                          byName'[name'[c]] = c
  BY DEF TableInv
<1>1. Sound
  BY SoundBefore
<1>2. /\ \A n \in Names : byName[n] # None => conn[byName[n]] = "up" /\ name[byName[n]] = n
      /\ \A c \in Clients : conn[c] = "up" /\ name[c] # None => byName[name[c]] = c
  BY <1>1 DEF TableInv
<1>t. /\ \A n \in Names : byName[n] \in Clients \cup {None}
      /\ \A c \in Clients : name[c] \in Names \cup {None}
  BY DEF TypeInv, OrNobody
<1>3. CASE UNCHANGED <<conn, name, byName>>
  BY <1>2, <1>3
<1>4. CASE DoDrop
  <2>1. PICK c \in Clients : UNCHANGED <<conn, name, byName>> \/ Forget(c)
    BY <1>4, DropStep
  <2>2. CASE Forget(c)
    <3>1. /\ \A d \in Clients \ {c} : conn'[d] = conn[d] /\ name'[d] = name[d]
          /\ \A n \in Names : byName'[n] = IF byName[n] = c THEN None ELSE byName[n]
          /\ conn'[c] = "dead"
      BY <2>2, ForgetFacts
    <3>2. ASSUME NEW n \in Names, byName'[n] # None
          PROVE  conn'[byName'[n]] = "up" /\ name'[byName'[n]] = n
      <4>1. byName'[n] = byName[n] /\ byName[n] \in Clients \ {c}
        BY <3>1, <3>2, <1>t
      <4> QED
        BY <4>1, <3>1, <1>2, <3>2
    <3>3. ASSUME NEW d \in Clients, conn'[d] = "up", name'[d] # None
          PROVE  byName'[name'[d]] = d
      <4>1. d # c
        BY <3>3, <3>1
      <4>2. name'[d] = name[d] /\ byName[name[d]] = d /\ name[d] \in Names
        BY <4>1, <3>1, <3>3, <1>2, <1>t
      <4> QED
        BY <4>1, <4>2, <3>1
    <3> QED
      BY <3>2, <3>3
  <2> QED
    BY <2>1, <2>2, <1>3
<1>5. CASE DoRegister
  <2>1. PICK c \in Clients, n \in Names :
           /\ Head(agenda) = RegisterTask(c, n) /\ pending = {RegisterTask(c, n)}
           /\ \/ UNCHANGED <<name, byName>>
              \/ /\ ~(server.inC /\ conn[c] = "dead")
                 /\ name'   = [name EXCEPT ![c] = n]
                 /\ byName' = [Freed(c, n) EXCEPT ![n] = c]
    BY <1>5, RegisterStep
  <2>2. UNCHANGED conn
    BY <1>5 DEF DoRegister
  <2>3. CASE UNCHANGED <<name, byName>>
    BY <2>2, <2>3, <1>3
  <2>4. CASE /\ ~(server.inC /\ conn[c] = "dead")
             /\ name'   = [name EXCEPT ![c] = n]
             /\ byName' = [Freed(c, n) EXCEPT ![n] = c]
    <3>1. byName[n] \in {None, c}
      BY <2>1, <1>1, TaskOps DEF CallerInv
    <3>2. conn[c] = "up"
      <4>1. conn[c] # "new" /\ (~server.inC /\ broken = {} => conn[c] = "up")
        BY <2>1 DEF CallerInv
      <4>2. conn[c] \in {"new", "up", "dead"}
        BY DEF TypeInv
      <4> QED
        BY <4>1, <4>2, <2>4, <1>1 DEF Sound
    <3>3. \A m \in Names : Freed(c, n)[m] =
            IF name[c] \notin {None, n} /\ byName[name[c]] = c /\ m = name[c]
            THEN None ELSE byName[m]
      BY DEF Freed, TypeInv
    <3>4. /\ byName'[n] = c /\ name'[c] = n
          /\ \A m \in Names \ {n} : byName'[m] = Freed(c, n)[m]
          /\ \A d \in Clients \ {c} : name'[d] = name[d]
      BY <2>4 DEF Freed, TypeInv
    <3>5. ASSUME NEW m \in Names, byName'[m] # None
          PROVE  conn'[byName'[m]] = "up" /\ name'[byName'[m]] = m
      <4>1. CASE m = n
        BY <4>1, <3>2, <3>4, <2>2
      <4>2. CASE m # n
        <5>1. byName'[m] = byName[m] /\ byName[m] \in Clients
          BY <4>2, <3>3, <3>4, <3>5, <1>t
        <5>2. byName[m] # c
          <6>1. ASSUME byName[m] = c PROVE FALSE
            <7>1. name[c] = m
              BY <6>1, <1>2, <5>1, NoneAssumption
            <7>2. m \notin {None, n}
              BY <4>2, NoneAssumption
            <7>3. Freed(c, n)[m] = None
              BY <7>1, <7>2, <6>1, <3>3
            <7> QED
              BY <7>3, <3>4, <3>5, <4>2
          <6> QED
            BY <6>1
        <5> QED
          BY <5>1, <5>2, <3>4, <1>2, <2>2, NoneAssumption
      <4> QED
        BY <4>1, <4>2
    <3>6. ASSUME NEW d \in Clients, conn'[d] = "up", name'[d] # None
          PROVE  byName'[name'[d]] = d
      <4>1. CASE d = c
        BY <4>1, <3>4
      <4>2. CASE d # c
        <5>1. name'[d] = name[d] /\ byName[name[d]] = d /\ name[d] \in Names
          BY <4>2, <3>4, <3>6, <1>2, <1>t, <2>2
        <5>2. name[d] # n
          BY <5>1, <3>1, <4>2, NoneAssumption
        <5> QED
          BY <5>1, <5>2, <3>3, <3>4, <4>2
      <4> QED
        BY <4>1, <4>2
    <3> QED
      BY <3>5, <3>6
  <2> QED
    BY <2>1, <2>3, <2>4
<1>6. CASE Event
  <2>1. PICK c \in Clients : Begun(c)
    BY <1>6, EventStep
  <2>2. CASE Accepts(c)
    <3>1. UNCHANGED <<name, byName>> /\ conn' = [conn EXCEPT ![c] = "up"] /\ conn[c] = "new"
      BY <2>2 DEF Accepts
    <3>2. name[c] = None
      BY <2>2 DEF NewInv, Accepts
    <3> QED
      BY <3>1, <3>2, <1>2, <1>t DEF TypeInv
  <2> QED
    BY <2>1, <2>2, <1>3
       DEF Begun, Breaks, Replies, Hangs, Hellos, Relays, Goes, Joins, Steady
<1> QED
  BY <1>3, <1>4, <1>5, <1>6 DEF Drain, DoSend, DoEach, DoClear, DoPublish, DoAutoGo
-----------------------------------------------------------------------------
(* What a step can leave to be done, by kind.                              *)

LEMMA DropShape ==
  ASSUME TypeInv, SeatsInv, DoDrop
  PROVE  \E d \in Clients :
           /\ Head(agenda) = DropTask(d) /\ pending = {DropTask(d)} \cup below
           /\ below \subseteq pending'
           /\ \A u \in pending' : u \in below \/ u.op \in {"send", "each", "clear", "publish"}
           /\ \A u \in pending' : u.op \in {"send", "each"} /\ u \notin below
                                    => u.frame.type \in {"ROOM", "PEER_LEFT"}
           /\ \/ /\ conn[d] = "dead" /\ pending' = below
                 /\ UNCHANGED <<conn, name, byName, room, members, started, published, view>>
              \/ conn[d] # "dead" /\ Forget(d) /\ (room[d] = None \/ PublishTask \in pending')
<1>1. PICK d \in Clients :
           /\ Head(agenda) = DropTask(d) /\ pending = {DropTask(d)} \cup below
           /\ \/ /\ conn[d] = "dead" /\ pending' = below
                 /\ UNCHANGED <<conn, name, byName, room, members, started, published, view>>
              \/ /\ conn[d] # "dead" /\ Forget(d) /\ room[d] = None /\ pending' = below
              \/ /\ conn[d] # "dead" /\ Forget(d)
                 /\ \E r \in Clients, rest \in Seq(Clients) :
                      \/ MatchEnds(d, r, rest)
                      \/ RoomEnds(d, r, rest)
                      \/ RoomShrinks(d, r, rest)
  BY DropStep
<1>2. CASE pending' = below
  BY <1>1, <1>2 DEF MatchEnds, RoomEnds, RoomShrinks
<1>3. ASSUME conn[d] # "dead", Forget(d), NEW r \in Clients, NEW rest \in Seq(Clients),
             MatchEnds(d, r, rest)
      PROVE  /\ below \subseteq pending' /\ PublishTask \in pending'
             /\ \A u \in pending' : \/ u \in below
                                    \/ u.op = "send" /\ u.frame.type = "PEER_LEFT"
                                    \/ u.op = "publish"
  BY <1>3, TaskOps, FrameKinds DEF MatchEnds
<1>4. ASSUME conn[d] # "dead", Forget(d), NEW r \in Clients, NEW rest \in Seq(Clients),
             RoomEnds(d, r, rest)
      PROVE  /\ below \subseteq pending' /\ PublishTask \in pending'
             /\ \A u \in pending' : \/ u \in below
                                    \/ u.op = "send" /\ u.frame.type = "ROOM"
                                    \/ u.op \in {"clear", "publish"}
  BY <1>4, TaskOps, FrameKinds DEF RoomEnds
<1>5. ASSUME conn[d] # "dead", Forget(d), NEW r \in Clients, NEW rest \in Seq(Clients),
             RoomShrinks(d, r, rest)
      PROVE  /\ below \subseteq pending' /\ PublishTask \in pending'
             /\ \A u \in pending' : \/ u \in below
                                    \/ u.op \in {"send", "each"} /\ u.frame.type = "ROOM"
                                    \/ u.op = "publish"
  <2>1. RoomFrame(rest) \in Frames /\ None \in OrNobody
    BY FrameTypes DEF Rosters, OrNobody
  <2>2. \A u \in ToSet(Announce(r, rest, RoomFrame(rest), None)) :
          u.op \in {"send", "each"} /\ u.frame.type = "ROOM"
    BY <2>1, AnnounceOps, FrameKinds
  <2> QED
    BY <1>5, <2>2, TaskOps DEF RoomShrinks
<1>6. CASE /\ conn[d] # "dead" /\ Forget(d)
           /\ \E r \in Clients, rest \in Seq(Clients) :
                \/ MatchEnds(d, r, rest) \/ RoomEnds(d, r, rest) \/ RoomShrinks(d, r, rest)
  <2>1. /\ below \subseteq pending' /\ PublishTask \in pending'
        /\ \A u \in pending' : \/ u \in below
                               \/ u.op \in {"send", "each"} /\ u.frame.type \in {"ROOM", "PEER_LEFT"}
                               \/ u.op \in {"clear", "publish"}
    BY <1>6, <1>3, <1>4, <1>5
  <2> QED
    BY <1>1, <1>6, <2>1
<1> QED
  BY <1>1, <1>2, <1>6

LEMMA StartShape ==
  ASSUME TypeInv, NEW r \in Clients, Starts(r)
  PROVE  \A u \in pending' : \/ u.op \in {"send", "each"} /\ u.frame.type = "START"
                             \/ u.op = "publish"
<1>1. StartFrame(members[r]) \in Frames /\ members[r] \in Seq(Clients) /\ None \in OrNobody
  BY FrameTypes DEF TypeInv, Rosters, OrNobody
<1>2. \A u \in ToSet(Announce(r, members[r], StartFrame(members[r]), None)) :
        u.op \in {"send", "each"} /\ u.frame.type = "START"
  BY <1>1, AnnounceOps, FrameKinds
<1> QED
  BY <1>2, TaskOps DEF Starts

LEMMA RelayShape ==
  ASSUME TypeInv, NEW c \in Clients, NEW r \in Clients, Relays(c, r)
  PROVE  \A u \in pending' : u.op \in {"send", "each"} /\ u.frame.type = "RELAY"
<1>1. RelayFrame \in Frames /\ members[r] \in Seq(Clients) /\ c \in OrNobody
  BY FrameTypes DEF TypeInv, OrNobody
<1>2. \A u \in ToSet(Announce(r, members[r], RelayFrame, c)) :
        u.op \in {"send", "each"} /\ u.frame.type = "RELAY"
  BY <1>1, AnnounceOps, FrameKinds
<1> QED
  BY <1>2 DEF Relays

LEMMA JoinShape ==
  ASSUME NEW c \in Clients, NEW t \in Clients, NEW r \in Clients, NEW ms \in Seq(Clients),
         Enters(c, t, r, ms)
  PROVE  \A u \in pending' : \/ u.op \in {"send", "each"} /\ u.frame.type = "ROOM"
                             \/ u.op \in {"publish", "autogo"}
<1>1. RoomFrame(ms) \in Frames /\ None \in OrNobody
  BY FrameTypes DEF Rosters, OrNobody
<1>2. \A u \in ToSet(Announce(r, ms, RoomFrame(ms), None)) :
        u.op \in {"send", "each"} /\ u.frame.type = "ROOM"
  BY <1>1, AnnounceOps, FrameKinds
<1> QED
  BY <1>2, TaskOps DEF Enters

(* Who waits to be registered: only the caller of a HELLO, which the drop  *)
(* it may have caused does not reach while the name table is right.        *)
LEMMA CallerKept ==
  ASSUME TypeInv, CallerInv, UNCHANGED <<server, conn, byName>>, broken \subseteq broken',
         \A c \in Clients, n \in Names : RegisterTask(c, n) \in pending' => RegisterTask(c, n) \in pending,
         broken' = {} => \A d \in Clients : DropTask(d) \in pending' => DropTask(d) \in pending,
         Sound => \A c \in Clients : Head(agenda) # DropTask(c)
  PROVE  CallerInv'
<1> SUFFICES ASSUME NEW c \in Clients, NEW n \in Names, RegisterTask(c, n) \in pending'
             PROVE  /\ conn[c] # "new"
                    /\ Sound' => byName[n] \in {None, c} \/ Head(agenda') = DropTask(byName[n])
                    /\ ~server.inC /\ broken' = {} => conn[c] = "up" /\ DropTask(c) \notin pending'
  BY Zenon DEF CallerInv
<1>1. /\ conn[c] # "new"
      /\ Sound => byName[n] \in {None, c} \/ Head(agenda) = DropTask(byName[n])
      /\ ~server.inC /\ broken = {} => conn[c] = "up" /\ DropTask(c) \notin pending
  BY DEF CallerInv
<1>2. (Sound' => Sound) /\ (broken' = {} => broken = {})
  BY DEF Sound
<1>3. byName[n] \in Clients \cup {None}
  BY DEF TypeInv, OrNobody
<1> QED
  BY <1>1, <1>2, <1>3

LEMMA CallerNext ==
  ASSUME TypeInv, LastInv, SeatsInv, TableInv, CallerInv, UNCHANGED server, Drain \/ Event
  PROVE  CallerInv'
<1>1. broken \subseteq broken' /\ (Sound' => Sound) /\ (broken' = {} => broken = {})
  BY SoundBefore
<1>2. CASE DoSend
  <2>1. PICK x \in OrNobody, f \in Frames :
          /\ Head(agenda) = SendTask(x, f) /\ pending = {SendTask(x, f)} \cup below
          /\ pending' = below \/ (pending' = {DropTask(x)} \cup below /\ x \in broken)
    BY <1>2, SendStep
  <2>2. UNCHANGED <<server, conn, byName>>
    BY <1>2 DEF DoSend
  <2> QED
    BY <2>1, <2>2, <1>1, TaskOps, CallerKept
<1>3. CASE DoEach
  <2>1. PICK r \in Clients, i \in Nat \ {0}, f \in Frames, but \in OrNobody :
          /\ Head(agenda) = EachTask(r, i, f, but)
          /\ pending = {EachTask(r, i, f, but)} \cup below /\ Walks(r, i, f, but)
    BY <1>3, EachStep
  <2>2. UNCHANGED <<server, conn, byName>>
    BY <1>3 DEF DoEach
  <2>3. \A u \in pending' : u \in pending \/ u.op \in {"send", "each"}
    BY <2>1, TaskOps DEF Walks
  <2> QED
    BY <2>1, <2>2, <2>3, <1>1, TaskOps, CallerKept
<1>4. CASE DoDrop
  <2>1. PICK d \in Clients :
           /\ Head(agenda) = DropTask(d) /\ pending = {DropTask(d)} \cup below
           /\ \A u \in pending' : u \in below \/ u.op \in {"send", "each", "clear", "publish"}
           /\ \/ conn[d] = "dead" /\ UNCHANGED <<conn, byName>>
              \/ conn[d] # "dead" /\ Forget(d)
    BY <1>4, DropShape
  <2> SUFFICES ASSUME NEW c \in Clients, NEW n \in Names, RegisterTask(c, n) \in pending'
               PROVE  /\ conn'[c] # "new"
                      /\ Sound => byName'[n] \in {None, c}
                      /\ ~server.inC /\ broken = {} => conn'[c] = "up" /\ DropTask(c) \notin pending'
    BY <1>1 DEF CallerInv
  <2>2. RegisterTask(c, n) \in pending
    BY <2>1, TaskOps
  <2>3. /\ conn[c] # "new"
        /\ Sound => byName[n] \in {None, c} \/ Head(agenda) = DropTask(byName[n])
        /\ ~server.inC /\ broken = {} => conn[c] = "up" /\ DropTask(c) \notin pending
    BY <2>2 DEF CallerInv
  <2>4. /\ \A x \in Clients : conn'[x] = conn[x] \/ (x = d /\ conn'[x] = "dead")
        /\ byName'[n] = byName[n] \/ byName'[n] = None
    BY <2>1, ForgetFacts
  <2>5. conn'[c] # "new"
    BY <2>3, <2>4
  <2>6. ASSUME Sound PROVE byName'[n] \in {None, c}
    <3>1. CASE byName[n] \in {None, c}
      BY <3>1, <2>4
    <3>2. CASE byName[n] \notin {None, c}
      <4>1. byName[n] = d
        BY <2>1, <2>3, <2>6, <3>2, TaskOps
      <4>2. conn[d] = "up"
        BY <4>1, <2>6, <3>2 DEF TableInv
      <4> QED
        BY <4>1, <4>2, <2>1, ForgetFacts
    <3> QED
      BY <3>1, <3>2
  <2>7. ASSUME ~server.inC, broken = {} PROVE conn'[c] = "up" /\ DropTask(c) \notin pending'
    <3>1. c # d
      BY <2>1, <2>3, <2>7
    <3> QED
      BY <3>1, <2>1, <2>3, <2>4, <2>7, TaskOps
  <2> QED
    BY <2>5, <2>6, <2>7
<1>5. CASE DoClear
  <2>1. PICK r \in Clients :
          Head(agenda) = ClearTask(r) /\ pending = {ClearTask(r)} \cup below /\ pending' = below
    BY <1>5, ClearStep
  <2>2. UNCHANGED <<server, conn, byName>>
    BY <1>5 DEF DoClear
  <2> QED
    BY <2>1, <2>2, <1>1, TaskOps, CallerKept
<1>6. CASE DoPublish
  <2>1. Head(agenda) = PublishTask /\ pending = {PublishTask} \cup below /\ pending' = below
    BY <1>6, PublishStep
  <2>2. UNCHANGED <<server, conn, byName>>
    BY <1>6 DEF DoPublish
  <2> QED
    BY <2>1, <2>2, <1>1, TaskOps, CallerKept
<1>7. ASSUME \A c \in Clients, n \in Names : RegisterTask(c, n) \notin pending'
      PROVE  CallerInv'
  BY <1>7 DEF CallerInv
<1>8. CASE DoRegister
  <2>1. \A u \in pending' : u.op \in {"send", "publish"}
    BY <1>8, RegisterStep, TaskOps
  <2> QED
    BY <2>1, <1>7, TaskOps
<1>9. CASE DoAutoGo
  <2>1. PICK r \in Clients : pending' = {} \/ Starts(r)
    BY <1>9, AutoGoStep
  <2>2. \A u \in pending' : u.op \in {"send", "each", "publish"}
    BY <2>1, StartShape
  <2> QED
    BY <2>2, <1>7, TaskOps
<1>10. CASE Event
  <2>1. PICK c \in Clients : Begun(c)
    BY <1>10, EventStep
  <2>2. idle /\ pending = {}
    BY <1>10, EventStep, IdleFacts
  <2>3. CASE Accepts(c) \/ Breaks(c)
    <3>1. pending' = {}
      BY <2>2, <2>3 DEF Accepts, Breaks, pending
    <3> QED
      BY <3>1, <1>7
  <2>4. CASE Replies(c) \/ Hangs(c)
    BY <2>4, <1>7, TaskOps DEF Replies, Hangs
  <2>5. ASSUME NEW n \in Names, Hellos(c, n) PROVE CallerInv'
    <3> SUFFICES ASSUME NEW c1 \in Clients, NEW n1 \in Names, RegisterTask(c1, n1) \in pending'
                 PROVE  /\ conn'[c1] # "new"
                        /\ byName'[n1] \in {None, c1} \/ Head(agenda') = DropTask(byName'[n1])
                        /\ conn'[c1] = "up" /\ DropTask(c1) \notin pending'
      BY DEF CallerInv
    <3>1. c1 = c /\ n1 = n
      BY <2>5, TaskOps DEF Hellos
    <3>2. conn'[c1] = "up" /\ byName'[n1] = byName[n1]
      BY <3>1, <2>5 DEF Hellos, Steady
    <3>3. byName'[n1] \in {None, c1} \/ Head(agenda') = DropTask(byName'[n1])
      BY <3>1, <3>2, <2>5 DEF Hellos
    <3>4. DropTask(c1) \notin pending'
      BY <3>1, <2>5, TaskOps DEF Hellos
    <3> QED
      BY <3>2, <3>3, <3>4
  <2>6. ASSUME NEW r \in Clients, Relays(c, r) PROVE CallerInv'
    BY <2>6, RelayShape, <1>7, TaskOps
  <2>7. ASSUME NEW r \in Clients, Goes(c, r) PROVE CallerInv'
    BY <2>7, StartShape, <1>7, TaskOps DEF Goes
  <2>8. ASSUME NEW t \in Clients, NEW r \in Clients, NEW ms \in Seq(Clients), Joins(c, t, r, ms)
        PROVE  CallerInv'
    BY <2>8, JoinShape, <1>7, TaskOps DEF Joins
  <2> QED
    BY <2>1, <2>3, <2>4, <2>5, <2>6, <2>7, <2>8 DEF Begun
<1> QED
  BY <1>2, <1>3, <1>4, <1>5, <1>6, <1>8, <1>9, <1>10 DEF Drain
-----------------------------------------------------------------------------
(* The count the Lobby is told, and the clients not yet accepted.          *)

LEMMA CountKept ==
  ASSUME CountInv, UNCHANGED <<byName, published>>,
         PublishTask \in pending => PublishTask \in pending'
  PROVE  CountInv'
BY DEF CountInv, Players

LEMMA CountNext ==
  ASSUME TypeInv, LastInv, SeatsInv, CountInv, Drain \/ Event
  PROVE  CountInv'
<1>1. CASE DoSend
  <2>1. PICK x \in OrNobody, f \in Frames :
          pending = {SendTask(x, f)} \cup below /\ below \subseteq pending'
    BY <1>1, SendStep
  <2>2. UNCHANGED <<byName, published>>
    BY <1>1 DEF DoSend
  <2> QED
    BY <2>1, <2>2, TaskOps, CountKept
<1>2. CASE DoEach
  <2>1. PICK r \in Clients, i \in Nat \ {0}, f \in Frames, but \in OrNobody :
          pending = {EachTask(r, i, f, but)} \cup below /\ Walks(r, i, f, but)
    BY <1>2, EachStep
  <2>2. UNCHANGED <<byName, published>>
    BY <1>2 DEF DoEach
  <2> QED
    BY <2>1, <2>2, TaskOps, CountKept DEF Walks
<1>3. CASE DoDrop
  <2>1. PICK d \in Clients :
           /\ pending = {DropTask(d)} \cup below /\ below \subseteq pending'
           /\ UNCHANGED <<byName, published>> \/ Forget(d)
    BY <1>3, DropShape
  <2>2. PublishTask \in pending => PublishTask \in pending'
    BY <2>1, TaskOps
  <2>3. CASE UNCHANGED <<byName, published>>
    BY <2>2, <2>3, CountKept
  <2>4. CASE Forget(d)
    <3>1. /\ published' = published \/ published' = Players(byName')
          /\ byName' # byName => published' = Players(byName')
      BY <2>4, ForgetFacts
    <3>2. CASE published' = Players(byName')
      BY <3>2 DEF CountInv, Players
    <3>3. CASE UNCHANGED <<byName, published>>
      BY <2>2, <3>3, CountKept
    <3> QED
      BY <3>1, <3>2, <3>3
  <2> QED
    BY <2>1, <2>3, <2>4
<1>4. CASE DoClear
  <2>1. PICK r \in Clients : pending = {ClearTask(r)} \cup below /\ pending' = below
    BY <1>4, ClearStep
  <2>2. UNCHANGED <<byName, published>>
    BY <1>4 DEF DoClear
  <2> QED
    BY <2>1, <2>2, TaskOps, CountKept
<1>5. CASE DoPublish
  BY <1>5 DEF DoPublish, CountInv, Players
<1>6. CASE DoRegister
  <2>1. PICK c \in Clients, n \in Names :
          /\ pending = {RegisterTask(c, n)}
          /\ UNCHANGED byName \/ PublishTask \in pending'
    BY <1>6, RegisterStep
  <2>2. CASE PublishTask \in pending'
    BY <2>2 DEF CountInv
  <2>3. CASE UNCHANGED byName
    BY <1>6, <2>1, <2>3, TaskOps, CountKept DEF DoRegister
  <2> QED
    BY <2>1, <2>2, <2>3
<1>7. CASE DoAutoGo
  <2>1. PublishTask \notin pending
    BY <1>7, AutoGoStep, TaskOps
  <2> QED
    BY <1>7, <2>1, CountKept DEF DoAutoGo
<1>8. CASE Event
  <2>1. PublishTask \notin pending
    BY <1>8, EventStep, IdleFacts
  <2>2. UNCHANGED <<byName, published>>
    <3>1. PICK c \in Clients : Begun(c)
      BY <1>8, EventStep
    <3> QED
      BY <3>1 DEF Begun, Accepts, Breaks, Replies, Hangs, Hellos, Relays, Goes, Joins, Steady
  <2> QED
    BY <2>1, <2>2, CountKept
<1> QED
  BY <1>1, <1>2, <1>3, <1>4, <1>5, <1>6, <1>7, <1>8 DEF Drain

LEMMA NewNext ==
  ASSUME TypeInv, LastInv, SeatsInv, CallerInv, NewInv, Drain \/ Event
  PROVE  NewInv'
<1>1. CASE UNCHANGED <<conn, view, name>>
  BY <1>1 DEF NewInv
<1>2. CASE DoSend
  <2>1. PICK x \in OrNobody, f \in Frames :
          UNCHANGED view \/ (conn[x] = "up" /\ x \in Clients /\ view' = [view EXCEPT ![x] = Fold(@, f)])
    BY <1>2, SendStep
  <2>2. UNCHANGED <<conn, name>>
    BY <1>2 DEF DoSend
  <2> QED
    BY <2>1, <2>2 DEF NewInv, TypeInv
<1>3. CASE DoDrop
  <2>1. PICK d \in Clients : UNCHANGED <<conn, name, view>> \/ Forget(d)
    BY <1>3, DropShape
  <2>2. CASE Forget(d)
    <3> SUFFICES ASSUME NEW c \in Clients, conn'[c] = "new"
                 PROVE  view'[c] = NoView /\ name'[c] = None
      BY Zenon DEF NewInv
    <3>1. c # d
      BY <2>2, ForgetFacts
    <3> QED
      BY <2>2, <3>1, ForgetFacts DEF NewInv
  <2> QED
    BY <2>1, <2>2, <1>1
<1>4. CASE DoRegister
  <2>1. PICK c \in Clients, n \in Names :
          /\ RegisterTask(c, n) \in pending
          /\ UNCHANGED name \/ name' = [name EXCEPT ![c] = n]
    BY <1>4, RegisterStep
  <2>2. conn[c] # "new" /\ UNCHANGED <<conn, view>>
    BY <1>4, <2>1 DEF CallerInv, DoRegister
  <2> QED
    BY <2>1, <2>2 DEF NewInv, TypeInv
<1>5. CASE Event
  <2>1. PICK c \in Clients : Begun(c)
    BY <1>5, EventStep
  <2>2. CASE Accepts(c)
    BY <2>2 DEF Accepts, NewInv, TypeInv
  <2> QED
    BY <2>1, <2>2, <1>1
       DEF Begun, Breaks, Replies, Hangs, Hellos, Relays, Goes, Joins, Steady
<1> QED
  BY <1>1, <1>2, <1>3, <1>4, <1>5 DEF Drain, DoEach, DoClear, DoPublish, DoAutoGo

(* A drop costs a client: the agenda ends.                                 *)
LEMMA DeadFacts ==
  ASSUME TypeInv
  PROVE  /\ IsFiniteSet(dead) /\ Cardinality(dead) \in Nat
         /\ UNCHANGED conn => dead' = dead
         /\ \A c \in Clients : Forget(c) /\ conn[c] # "dead" =>
              Cardinality(dead') = Cardinality(dead) + 1
<1>1. IsFiniteSet(dead)
  BY FiniteAssumption, FS_Subset DEF dead
<1>2. Cardinality(dead) \in Nat
  BY <1>1, FS_CardinalityType
<1>3. ASSUME NEW c \in Clients, Forget(c), conn[c] # "dead"
      PROVE  Cardinality(dead') = Cardinality(dead) + 1
  <2>1. dead' = dead \cup {c} /\ c \notin dead
    BY <1>3, ForgetFacts DEF dead
  <2> QED
    BY <2>1, <1>1, FS_AddElement
<1>4. UNCHANGED conn => dead' = dead
  BY DEF dead
<1> QED
  BY <1>1, <1>2, <1>3, <1>4

Allowance(d) == (MaxSeats + 2) * (d + 1)
Slack(a) == IF a # <<>> /\ Head(a).op \in {"send", "drop"} THEN 1 ELSE 0

LEMMA AllowanceFacts ==
  ASSUME NEW d \in Nat
  PROVE  /\ Allowance(d) \in Nat /\ Allowance(d) >= MaxSeats + 2
         /\ Allowance(d + 1) = Allowance(d) + MaxSeats + 2
<1>1. MaxSeats + 2 \in Nat
  BY SeatsAssumption
<1>2. \A k \in Nat, n \in Nat : k * (n + 1) \in Nat /\ k * (n + 1) >= k
                              /\ k * (n + 1 + 1) = k * (n + 1) + k
  <2> TAKE k \in Nat, n \in Nat
  <2>1. k * (n + 1) = k * n + k /\ k * n \in Nat /\ k * (n + 1 + 1) = k * n + k + k
    OBVIOUS
  <2> QED
    BY <2>1
<1>3. /\ Allowance(d) \in Nat /\ Allowance(d) >= MaxSeats + 2
      /\ Allowance(d + 1) = Allowance(d) + (MaxSeats + 2)
  BY <1>1, <1>2 DEF Allowance
<1> QED
  BY <1>3, SeatsAssumption

LEMMA BoundHolds ==
  ASSUME published <= Cardinality(Names),
         Len(agenda) <= Allowance(Cardinality(dead)) + Slack(agenda)
  PROVE  BoundInv
BY DEF BoundInv, Allowance, Slack, idle

LEMMA BoundNext ==
  ASSUME TypeInv, LastInv, SeatsInv, BoundInv, Drain \/ Event
  PROVE  BoundInv'
<1> DEFINE B == Allowance(Cardinality(dead))
<1>1. /\ Cardinality(dead) \in Nat /\ B \in Nat /\ B >= MaxSeats + 2 /\ MaxSeats \in Nat
      /\ MaxSeats >= 2
  BY DeadFacts, AllowanceFacts, SeatsAssumption
<1>2. Len(agenda) <= B + Slack(agenda) /\ published <= Cardinality(Names) /\ Len(agenda) \in Nat
  BY LenProperties DEF BoundInv, TypeInv, Allowance, Slack, idle
<1>p. Players(byName') <= Cardinality(Names)
  BY PlayersFacts
<1>b. ASSUME UNCHANGED conn \/ dead' = dead, published' <= Cardinality(Names),
             Len(agenda') <= B + Slack(agenda')
      PROVE  BoundInv'
  <2>1. dead' = dead
    BY <1>b, DeadFacts
  <2>2. Len(agenda') <= Allowance(Cardinality(dead')) + Slack(agenda')
    BY <2>1, <1>b
  <2> QED
    BY <1>b, <2>2 DEF BoundInv, Allowance, Slack, idle, dead
<1>s. Slack(agenda) \in {0, 1} /\ Slack(agenda') \in {0, 1}
  BY DEF Slack
<1> HIDE DEF B
<1>3. CASE UNCHANGED <<conn, published>> /\ Len(agenda') = Len(agenda) - 1
  BY <1>1, <1>2, <1>3, <1>b, <1>s
<1>4. CASE DoSend
  <2>1. ~idle /\ UNCHANGED <<conn, published>>
    BY <1>4 DEF DoSend
  <2>2. PICK x \in OrNobody, f \in Frames :
          /\ Head(agenda) = SendTask(x, f)
          /\ agenda' = Tail(agenda) \/ (x \in Clients /\ agenda' = <<DropTask(x)>> \o Tail(agenda))
    BY <1>4, SendStep
  <2>3. CASE agenda' = Tail(agenda)
    BY <2>1, <2>3, <1>3, PoppedOff
  <2>4. CASE x \in Clients /\ agenda' = <<DropTask(x)>> \o Tail(agenda)
    <3> DEFINE P == <<DropTask(x)>>
    <3>1. P \in Seq(Tasks) /\ Len(P) = 1 /\ P # <<>> /\ P[1] = DropTask(x)
      BY <2>4, TaskTypes, SetOfOne
    <3> HIDE DEF P
    <3>2. agenda' = P \o Tail(agenda)
      BY <2>4 DEF P
    <3>3. Len(agenda') = 1 + Len(agenda) - 1 /\ agenda' # <<>> /\ Head(agenda') = DropTask(x)
      BY <2>1, <3>1, <3>2, Popped
    <3>4. Slack(agenda') = 1
      BY <3>3, TaskOps DEF Slack
    <3> QED
      BY <2>1, <3>3, <3>4, <1>1, <1>2, <1>b, <1>s
  <2> QED
    BY <2>2, <2>3, <2>4
<1>5. CASE DoEach
  <2>1. ~idle /\ UNCHANGED <<conn, published>>
    BY <1>5 DEF DoEach
  <2>2. PICK r \in Clients, i \in Nat \ {0}, f \in Frames, but \in OrNobody :
          Head(agenda) = EachTask(r, i, f, but) /\ Walks(r, i, f, but)
    BY <1>5, EachStep
  <2>3. Len(agenda) <= B
    <3>1. Slack(agenda) = 0
      BY <2>2, TaskOps DEF Slack
    <3> QED
      BY <3>1, <1>1, <1>2
  <2>4. PICK more : more = EachTask(r, i + 1, f, but)
    OBVIOUS
  <2>5. more \in Tasks
    <3>1. i + 1 \in Nat \ {0}
      OBVIOUS
    <3> QED
      BY <2>4, <3>1, TaskTypes
  <2>6. CASE agenda' = Tail(agenda)
    BY <2>1, <2>6, <1>3, PoppedOff
  <2>7. CASE agenda' = <<more>> \o Tail(agenda)
    <3>1. <<more>> \in Seq(Tasks) /\ Len(<<more>>) = 1
      BY <2>5, SetOfOne
    <3>2. Len(agenda') = 1 + Len(agenda) - 1
      BY <2>1, <2>7, <3>1, Popped
    <3> QED
      BY <2>1, <2>3, <3>2, <1>1, <1>2, <1>b, <1>s
  <2>8. ASSUME NEW m \in Clients, agenda' = <<SendTask(m, Addressed(f, i)), more>> \o Tail(agenda)
        PROVE  BoundInv'
    <3>1. PICK s : s = SendTask(m, Addressed(f, i))
      OBVIOUS
    <3>2. s \in Tasks /\ s.op = "send"
      BY <3>1, AddressedFacts, TaskTypes, TaskOps DEF OrNobody
    <3>3. <<s, more>> \in Seq(Tasks) /\ Len(<<s, more>>) = 2 /\ <<s, more>> # <<>>
          /\ <<s, more>>[1] = s
      BY <3>2, <2>5, SetOfTwo
    <3>4. agenda' = <<s, more>> \o Tail(agenda)
      BY <3>1, <2>8
    <3>5. Len(agenda') = 2 + Len(agenda) - 1 /\ agenda' # <<>> /\ Head(agenda') = s
      BY <2>1, <3>3, <3>4, Popped
    <3>6. Slack(agenda') = 1
      BY <3>2, <3>5 DEF Slack
    <3> QED
      BY <2>1, <2>3, <3>5, <3>6, <1>1, <1>2, <1>b
  <2> QED
    BY <2>2, <2>4, <2>6, <2>7, <2>8 DEF Walks
<1>6. CASE DoDrop
  <2>1. ~idle
    BY <1>6 DEF DoDrop
  <2>2. PICK c \in Clients :
           \/ agenda' = Tail(agenda) /\ UNCHANGED <<conn, published>>
           \/ conn[c] # "dead" /\ Forget(c) /\ agenda' = Tail(agenda)
           \/ /\ conn[c] # "dead" /\ Forget(c)
              /\ \E r \in Clients, rest \in Seq(Clients) :
                   /\ Leaves(c, r, rest)
                   /\ MatchEnds(c, r, rest) \/ RoomEnds(c, r, rest) \/ RoomShrinks(c, r, rest)
    BY <1>6, DropStep
  <2>3. CASE agenda' = Tail(agenda) /\ UNCHANGED <<conn, published>>
    BY <2>1, <2>3, <1>3, PoppedOff
  <2>4. ASSUME conn[c] # "dead", Forget(c), Len(agenda') <= Len(agenda) + MaxSeats + 1
        PROVE  BoundInv'
    <3>1. Cardinality(dead') = Cardinality(dead) + 1
      BY <2>4, DeadFacts
    <3>2. Allowance(Cardinality(dead')) = B + MaxSeats + 2
      BY <3>1, <1>1, AllowanceFacts DEF B
    <3>3. Len(agenda') <= Allowance(Cardinality(dead')) + Slack(agenda')
      <4>1. Len(agenda') \in Nat
        BY <1>6, DropStep, LenProperties
      <4> QED
        BY <2>4, <3>2, <4>1, <1>1, <1>2, <1>s
    <3>4. published' <= Cardinality(Names)
      BY <2>4, <1>2, <1>p, ForgetFacts
    <3> QED
      BY <3>3, <3>4 DEF BoundInv, Allowance, Slack, idle, dead
  <2>5. CASE conn[c] # "dead" /\ Forget(c) /\ agenda' = Tail(agenda)
    <3>1. Len(agenda') = Len(agenda) - 1
      BY <2>1, <2>5, PoppedOff
    <3> QED
      BY <2>4, <2>5, <3>1, <1>1, <1>2
  <2>6. ASSUME conn[c] # "dead", Forget(c), NEW r \in Clients, NEW rest \in Seq(Clients),
               Leaves(c, r, rest),
               MatchEnds(c, r, rest) \/ RoomEnds(c, r, rest) \/ RoomShrinks(c, r, rest)
        PROVE  BoundInv'
    <3>1. Len(rest) <= MaxSeats - 1 /\ Len(rest) \in Nat
      <4>1. Len(members[r]) <= MaxSeats /\ Len(members[r]) \in Nat
        BY LenProperties DEF SeatsInv, SeatOK, TypeInv
      <4>2. Len(rest) = Len(members[r]) - 1 /\ Len(rest) \in Nat
        BY <2>6, LenProperties DEF Leaves
      <4> QED
        BY <4>1, <4>2, <1>1
    <3>2. CASE MatchEnds(c, r, rest)
      <4>1. Len(agenda') = Len(rest) + Len(agenda)
        BY <3>2 DEF MatchEnds
      <4> QED
        BY <2>4, <2>6, <3>1, <4>1, <1>1, <1>2
    <3>3. CASE RoomEnds(c, r, rest)
      <4>1. Len(agenda') = Len(rest) + 1 + Len(agenda)
        BY <3>3 DEF RoomEnds
      <4> QED
        BY <2>4, <2>6, <3>1, <4>1, <1>1, <1>2
    <3>4. CASE RoomShrinks(c, r, rest)
      <4>1. PICK said : said = Announce(r, rest, RoomFrame(rest), None)
        OBVIOUS
      <4>2. Len(agenda') = Len(said) + Len(agenda)
        BY <3>4, <4>1 DEF RoomShrinks
      <4>3. (Len(said) <= Len(rest) \/ Len(said) = 1) /\ Len(said) \in Nat
        BY <4>1, AnnounceFacts, FrameTypes, LenProperties DEF Rosters, OrNobody
      <4>4. Len(said) <= MaxSeats + 1
        <5>1. CASE Len(said) = 1
          BY <5>1, <1>1
        <5>2. CASE Len(said) <= Len(rest)
          BY <5>2, <4>3, <3>1, <1>1
        <5> QED
          BY <4>3, <5>1, <5>2
      <4>5. Len(agenda') <= Len(agenda) + MaxSeats + 1
        BY <4>2, <4>3, <4>4, <1>1, <1>2
      <4> QED
        BY <2>4, <2>6, <4>5
    <3> QED
      BY <2>6, <3>2, <3>3, <3>4
  <2> QED
    BY <2>2, <2>3, <2>5, <2>6
<1>7. CASE DoClear
  <2>1. ~idle /\ agenda' = Tail(agenda) /\ UNCHANGED <<conn, published>>
    BY <1>7 DEF DoClear
  <2> QED
    BY <2>1, <1>3, PoppedOff
<1>8. CASE DoPublish
  <2>1. ~idle /\ agenda' = Tail(agenda) /\ UNCHANGED conn
    BY <1>8 DEF DoPublish
  <2>2. Len(agenda') = Len(agenda) - 1
    BY <2>1, PoppedOff
  <2>3. published' <= Cardinality(Names)
    BY <1>8, PlayersFacts DEF DoPublish
  <2> QED
    BY <2>1, <2>2, <2>3, <1>1, <1>2, <1>b, <1>s
<1>9. ASSUME UNCHANGED conn \/ dead' = dead, UNCHANGED published, Len(agenda') <= MaxSeats + 2,
             Len(agenda') \in Nat
      PROVE  BoundInv'
  BY <1>9, <1>1, <1>2, <1>b, <1>s
<1>10. CASE DoRegister
  <2>1. agenda' = <<>> \/ \E c \in Clients : agenda' = <<PublishTask, SendTask(c, ReplyFrame)>>
    BY <1>10, RegisterStep
  <2>2. Len(agenda') <= 2 /\ Len(agenda') \in Nat
    <3>1. Len(<<>>) = 0 /\ \A x, y : Len(<<x, y>>) = 2
      OBVIOUS
    <3> QED
      BY <2>1, <3>1
  <2>3. UNCHANGED <<conn, published>>
    BY <1>10 DEF DoRegister
  <2> QED
    BY <2>2, <2>3, <1>1, <1>9
<1>11. ASSUME NEW r \in Clients, Starts(r)
       PROVE  Len(agenda') <= MaxSeats + 2 /\ Len(agenda') \in Nat
  <2>1. PICK said : said = Announce(r, members[r], StartFrame(members[r]), None)
    OBVIOUS
  <2>2. Len(agenda') = Len(said) + 1
    BY <1>11, <2>1 DEF Starts
  <2>3. Len(members[r]) <= MaxSeats /\ members[r] \in Seq(Clients) /\ Len(members[r]) \in Nat
    BY LenProperties DEF SeatsInv, SeatOK, TypeInv
  <2>4. (Len(said) <= Len(members[r]) \/ Len(said) = 1) /\ Len(said) \in Nat
    BY <2>1, <2>3, AnnounceFacts, FrameTypes, LenProperties DEF Rosters, OrNobody
  <2>5. CASE Len(said) = 1
    BY <2>2, <2>5, <1>1
  <2>6. CASE Len(said) <= Len(members[r])
    BY <2>2, <2>3, <2>4, <2>6, <1>1
  <2> QED
    BY <2>4, <2>5, <2>6
<1>12. CASE DoAutoGo
  <2>1. PICK r \in Clients : agenda' = <<>> \/ Starts(r)
    BY <1>12, AutoGoStep
  <2>2. UNCHANGED <<conn, published>>
    BY <1>12 DEF DoAutoGo
  <2>3. Len(agenda') <= MaxSeats + 2 /\ Len(agenda') \in Nat
    <3>1. Len(<<>>) = 0
      OBVIOUS
    <3> QED
      BY <2>1, <3>1, <1>1, <1>11
  <2> QED
    BY <2>2, <2>3, <1>9
<1>13. CASE Event
  <2>1. PICK c \in Clients : Begun(c)
    BY <1>13, EventStep
  <2>2. Len(agenda) = 0 /\ Len(agenda') \in Nat
    BY <1>13, EventStep, IdleFacts, LenProperties
  <2>3. CASE Accepts(c) \/ Breaks(c)
    <3>1. dead' = dead
      BY <2>3 DEF Accepts, Breaks, dead, TypeInv
    <3>2. UNCHANGED <<published, agenda>>
      BY <2>3 DEF Accepts, Breaks
    <3> QED
      BY <3>1, <3>2, <2>2, <1>1, <1>9
  <2>4. CASE Replies(c) \/ Hangs(c) \/ \E n \in Names : Hellos(c, n)
    <3>1. UNCHANGED <<conn, published>> /\ (Len(agenda') = 1 \/ Len(agenda') = 2)
      BY <2>4 DEF Replies, Hangs, Hellos, Steady
    <3>2. Len(agenda') <= MaxSeats + 2
      <4>1. CASE Len(agenda') = 1
        BY <4>1, <1>1
      <4>2. CASE Len(agenda') = 2
        BY <4>2, <1>1
      <4> QED
        BY <3>1, <4>1, <4>2
    <3> QED
      BY <3>1, <3>2, <2>2, <1>9
  <2>5. ASSUME NEW r \in Clients, Relays(c, r) PROVE BoundInv'
    <3>1. PICK said : said = Announce(r, members[r], RelayFrame, c)
      OBVIOUS
    <3>2. Len(agenda') = Len(said) /\ UNCHANGED <<conn, published>>
      BY <2>5, <3>1 DEF Relays, Steady
    <3>3. Len(members[r]) <= MaxSeats /\ members[r] \in Seq(Clients) /\ Len(members[r]) \in Nat
      BY LenProperties DEF SeatsInv, SeatOK, TypeInv
    <3>4. Len(said) <= Len(members[r]) \/ Len(said) = 1
      BY <3>1, <3>3, AnnounceFacts, FrameTypes DEF OrNobody
    <3> QED
      BY <3>2, <3>3, <3>4, <2>2, <1>1, <1>9
  <2>6. ASSUME NEW r \in Clients, Goes(c, r) PROVE BoundInv'
    BY <2>6, <1>9, <1>11 DEF Goes, Steady
  <2>7. ASSUME NEW t \in Clients, NEW r \in Clients, NEW ms \in Seq(Clients), Joins(c, t, r, ms)
        PROVE  BoundInv'
    <3>1. PICK said : said = Announce(r, ms, RoomFrame(ms), None)
      OBVIOUS
    <3>2. Len(agenda') = Len(said) + 2 /\ UNCHANGED <<conn, published>> /\ Len(ms) <= MaxSeats
      BY <2>7, <3>1 DEF Joins, Enters, Steady
    <3>3. (Len(said) <= Len(ms) \/ Len(said) = 1) /\ Len(said) \in Nat /\ Len(ms) \in Nat
      BY <3>1, AnnounceFacts, FrameTypes, LenProperties DEF OrNobody, Rosters
    <3>4. Len(agenda') <= MaxSeats + 2
      <4>1. CASE Len(said) = 1
        BY <4>1, <3>2, <1>1
      <4>2. CASE Len(said) <= Len(ms)
        BY <4>2, <3>2, <3>3, <1>1
      <4> QED
        BY <3>3, <4>1, <4>2
    <3> QED
      BY <3>2, <3>4, <2>2, <1>9
  <2> QED
    BY <2>1, <2>3, <2>4, <2>5, <2>6, <2>7 DEF Begun
<1> QED
  BY <1>4, <1>5, <1>6, <1>7, <1>8, <1>10, <1>12, <1>13 DEF Drain
-----------------------------------------------------------------------------
(* Who is told that a match is over.                                       *)

LEMMA StartTargets ==
  ASSUME TypeInv, SeatsInv, NEW r \in Clients, Starts(r), ~Clearing(r)
  PROVE  \A u \in pending' :
           /\ u.op = "each" =>
                /\ u = EachTask(r, 1, StartFrame(members[r]), None) /\ ~server.inC
           /\ u.op = "send" =>
                /\ server.inC
                /\ \E i \in 1 .. Len(members[r]) :
                     /\ members[r][i] \in Clients /\ room[members[r][i]] = r
                     /\ u = SendTask(members[r][i], Addressed(StartFrame(members[r]), i))
<1>1. members[r] \in Seq(Clients) /\ StartFrame(members[r]) \in Frames /\ None \in OrNobody
  BY FrameTypes DEF TypeInv, Rosters, OrNobody
<1>2. \A i \in 1 .. Len(members[r]) : members[r][i] \in Clients /\ room[members[r][i]] = r
  <2>1. ToSet(members[r]) = {c \in Clients : room[c] = r}
    BY DEF SeatsInv, SeatOK, Seated
  <2> QED
    BY <2>1, <1>1, LenProperties DEF ToSet
<1>3. PICK said : said = Announce(r, members[r], StartFrame(members[r]), None)
  OBVIOUS
<1>4. pending' = ToSet(said) \cup {PublishTask}
  BY <1>3 DEF Starts
<1>5. CASE ~server.inC
  <2>1. ToSet(said) = {EachTask(r, 1, StartFrame(members[r]), None)}
    BY <1>1, <1>3, <1>5, AnnounceFacts
  <2> QED
    BY <2>1, <1>4, <1>5, TaskOps
<1>6. CASE server.inC
  <2>1. ToSet(said) =
          {IF members[r][i] = None THEN SendTask(None, StartFrame(members[r]))
           ELSE SendTask(members[r][i], Addressed(StartFrame(members[r]), i))
             : i \in 1 .. Len(members[r])}
    BY <1>1, <1>3, <1>6, AnnounceFacts
  <2>2. \A u \in ToSet(said) : \E i \in 1 .. Len(members[r]) :
          u = SendTask(members[r][i], Addressed(StartFrame(members[r]), i))
    BY <2>1, <1>2, NoneAssumption
  <2> QED
    BY <2>2, <1>2, <1>4, <1>6, TaskOps
<1> QED
  BY <1>5, <1>6

LEMMA EachNext ==
  ASSUME TypeInv, LastInv, SeatsInv, EachInv, Drain \/ Event
  PROVE  EachInv'
<1>k. ASSUME UNCHANGED <<members, started>>,
             \A u \in pending' : u.op = "each" /\ u.frame.type = "START" =>
                \E t \in pending : t.op = "each" /\ t.frame = u.frame /\ t.in = u.in
      PROVE  EachInv'
  BY <1>k DEF EachInv
<1>1. CASE DoSend
  <2>1. PICK x \in OrNobody, f \in Frames :
          /\ pending = {SendTask(x, f)} \cup below
          /\ pending' = below \/ pending' = {DropTask(x)} \cup below
    BY <1>1, SendStep
  <2>2. UNCHANGED <<members, started>>
    BY <1>1 DEF DoSend
  <2> QED
    BY <2>1, <2>2, <1>k, TaskOps
<1>2. CASE DoEach
  <2>1. PICK r \in Clients, i \in Nat \ {0}, f \in Frames, but \in OrNobody :
          pending = {EachTask(r, i, f, but)} \cup below /\ Walks(r, i, f, but)
    BY <1>2, EachStep
  <2>2. UNCHANGED <<members, started>>
    BY <1>2 DEF DoEach
  <2>3. \A u \in pending' : \/ u \in below
                            \/ u = EachTask(r, i + 1, f, but)
                            \/ u.op = "send"
    BY <2>1, TaskOps DEF Walks
  <2> QED
    BY <2>1, <2>2, <2>3, <1>k, TaskOps
<1>3. CASE DoDrop
  <2>1. PICK c \in Clients :
           /\ pending = {DropTask(c)} \cup below
           /\ \/ pending' = below /\ UNCHANGED <<members, started>>
              \/ /\ Forget(c)
                 /\ \E r \in Clients, rest \in Seq(Clients) :
                      /\ Leaves(c, r, rest)
                      /\ MatchEnds(c, r, rest) \/ RoomEnds(c, r, rest) \/ RoomShrinks(c, r, rest)
    BY <1>3, DropStep
  <2>2. CASE pending' = below /\ UNCHANGED <<members, started>>
    BY <2>1, <2>2, <1>k
  <2>3. ASSUME NEW r \in Clients, NEW rest \in Seq(Clients), Leaves(c, r, rest),
               MatchEnds(c, r, rest) \/ RoomEnds(c, r, rest) \/ RoomShrinks(c, r, rest)
        PROVE  EachInv'
    <3>1. \A u \in pending' : u.op = "each" /\ u.frame.type = "START" => u \in below
      BY <1>3, DropShape, <2>1, TaskOps
    <3>2. members[r] # <<>>
      BY <2>3, SetOfEmpty DEF Leaves, Seated
    <3>3. \/ started[r] /\ members'[r] = <<>>
          \/ ~started[r]
      BY <2>3 DEF MatchEnds, EndMatch, RoomEnds, RoomShrinks, TypeInv
    <3>4. \A q \in Clients \ {r} : members'[q] = members[q] /\ started'[q] = started[q]
      BY <2>3 DEF MatchEnds, EndMatch, RoomEnds, Dissolve, RoomShrinks, Reseat, TypeInv
    <3> SUFFICES ASSUME NEW u \in pending', u.op = "each", u.frame.type = "START"
                 PROVE  started'[u.in] \/ members'[u.in] = <<>>
      BY Zenon DEF EachInv
    <3>5. u \in pending /\ (started[u.in] \/ members[u.in] = <<>>)
      BY <3>1, <2>1 DEF EachInv
    <3>6. u.in \in Clients
      <4>1. u \in Tasks
        BY <3>1, <1>3, DropStep
      <4> QED
        BY <4>1, TaskForms
    <3> QED
      BY <3>2, <3>3, <3>4, <3>5, <3>6
  <2> QED
    BY <2>1, <2>2, <2>3
<1>4. CASE DoClear
  <2>1. PICK r \in Clients :
          /\ pending = {ClearTask(r)} \cup below /\ pending' = below
          /\ members' = [members EXCEPT ![r] = <<>>] /\ below \subseteq Tasks
    BY <1>4, ClearStep
  <2>2. UNCHANGED started
    BY <1>4 DEF DoClear
  <2>3. \A q \in Clients : members'[q] = members[q] \/ members'[q] = <<>>
    BY <2>1 DEF TypeInv
  <2> SUFFICES ASSUME NEW u \in pending', u.op = "each", u.frame.type = "START"
               PROVE  started'[u.in] \/ members'[u.in] = <<>>
    BY Zenon DEF EachInv
  <2>4. u.in \in Clients /\ u \in pending
    BY <2>1, TaskForms
  <2> QED
    BY <2>2, <2>3, <2>4 DEF EachInv
<1>5. CASE DoPublish
  <2>1. pending = {PublishTask} \cup below /\ pending' = below
    BY <1>5, PublishStep
  <2> QED
    BY <1>5, <2>1, <1>k DEF DoPublish
<1>n. ASSUME \A u \in pending' : u.op = "each" => u.frame.type # "START" PROVE EachInv'
  BY <1>n DEF EachInv
<1>6. CASE DoRegister
  <2>1. \A u \in pending' : u.op \in {"send", "publish"}
    BY <1>6, RegisterStep, TaskOps
  <2> QED
    BY <2>1, <1>n
<1>s. ASSUME NEW r \in Clients, Starts(r), ~Clearing(r) PROVE EachInv'
  <2>1. started'[r] = TRUE
    BY <1>s DEF Starts, TypeInv
  <2>2. \A u \in pending' : u.op = "each" => u.in = r
    BY <1>s, StartTargets, TaskOps
  <2> QED
    BY <2>1, <2>2 DEF EachInv
<1>7. CASE DoAutoGo
  <2>1. PICK r \in Clients : /\ pending = {AutoGoTask(r)}
                             /\ pending' = {} \/ Starts(r)
    BY <1>7, AutoGoStep
  <2>2. ~Clearing(r)
    BY <2>1, TaskOps DEF Clearing
  <2> QED
    BY <2>1, <2>2, <1>n, <1>s
<1>8. CASE Event
  <2>1. PICK c \in Clients : Begun(c)
    BY <1>8, EventStep
  <2>2. idle /\ pending = {}
    BY <1>8, EventStep, IdleFacts
  <2>3. CASE Accepts(c) \/ Breaks(c)
    <3>1. pending' = {}
      BY <2>2, <2>3 DEF Accepts, Breaks, pending
    <3> QED
      BY <3>1, <1>n
  <2>4. CASE Replies(c) \/ Hangs(c) \/ \E n \in Names : Hellos(c, n)
    BY <2>4, <1>n, TaskOps DEF Replies, Hangs, Hellos
  <2>5. ASSUME NEW r \in Clients, Relays(c, r) PROVE EachInv'
    BY <2>5, RelayShape, <1>n
  <2>6. ASSUME NEW r \in Clients, Goes(c, r) PROVE EachInv'
    BY <2>2, <2>6, <1>s DEF Goes, Clearing
  <2>7. ASSUME NEW t \in Clients, NEW r \in Clients, NEW ms \in Seq(Clients), Joins(c, t, r, ms)
        PROVE  EachInv'
    BY <2>7, JoinShape, <1>n DEF Joins
  <2> QED
    BY <2>1, <2>3, <2>4, <2>5, <2>6, <2>7 DEF Begun
<1> QED
  BY <1>1, <1>2, <1>3, <1>4, <1>5, <1>6, <1>7, <1>8 DEF Drain

LEMMA ToldKept ==
  ASSUME ToldInv, NEW c \in Clients,
         conn'[c] = "up" => conn[c] = "up",
         view'[c] = view[c],
         Playing(c) => Playing(c)',
         \A f \in Frames : f.type = "START" /\ SendTask(c, f) \in pending' =>
            SendTask(c, f) \in pending \/ Playing(c)',
         SendTask(c, LeftFrame) \in pending => SendTask(c, LeftFrame) \in pending',
         DropTask(c) \in pending => DropTask(c) \in pending'
  PROVE  ToldOK(c)'
<1>1. ToldOK(c)
  BY DEF ToldInv
<1> SUFFICES ASSUME conn'[c] = "up", Called(c)', ~Playing(c)' PROVE Told(c)'
  BY DEF ToldOK
<1>2. Called(c)
  BY DEF Called
<1>3. Told(c)
  BY <1>1, <1>2 DEF ToldOK
<1> QED
  BY <1>3 DEF Told

LEMMA ToldSend ==
  ASSUME TypeInv, ToldInv, DoSend
  PROVE  ToldInv'
<1>1. PICK x \in OrNobody, f \in Frames :
           /\ pending = {SendTask(x, f)} \cup below
           /\ \/ /\ x = None \/ conn[x] # "up"
                 /\ pending' = below /\ UNCHANGED view
              \/ /\ x \in Clients /\ conn[x] = "up"
                 /\ pending' = {DropTask(x)} \cup below /\ UNCHANGED view
              \/ /\ x \in Clients /\ conn[x] = "up"
                 /\ pending' = below
                 /\ view' = [view EXCEPT ![x] = Fold(@, f)]
  BY SendStep
<1>2. UNCHANGED <<conn, room, started>>
  BY DEF DoSend
<1>3. \A c \in Clients : Playing(c)' <=> Playing(c)
  BY <1>2 DEF Playing
<1> SUFFICES ASSUME NEW c \in Clients PROVE ToldOK(c)'
  BY DEF ToldInv
<1>4. /\ \A g \in Frames : SendTask(c, g) \in pending' => SendTask(c, g) \in pending
      /\ DropTask(c) \in pending => DropTask(c) \in pending'
  BY <1>1, TaskOps
<1>5. CASE c # x
  <2>1. SendTask(c, LeftFrame) \in pending => SendTask(c, LeftFrame) \in pending'
    BY <1>1, <1>5, TaskOps
  <2>2. view'[c] = view[c]
    BY <1>1, <1>5 DEF TypeInv
  <2> QED
    BY <2>1, <2>2, <1>2, <1>3, <1>4, ToldKept
<1>6. CASE c = x
  <2>0. c # None
    BY NoneAssumption
  <2>1. CASE conn[c] # "up"
    BY <2>1, <1>2 DEF ToldOK
  <2>2. CASE pending' = {DropTask(x)} \cup below
    BY <2>2, <1>6 DEF ToldOK, Told
  <2>3. CASE conn[c] = "up" /\ pending' = below /\ view' = [view EXCEPT ![x] = Fold(@, f)]
    <3>1. view'[c] = Fold(view[c], f) /\ view[c] \in Views
      BY <2>3, <1>6 DEF TypeInv
    <3>2. /\ view'[c].active => view[c].active \/ f.type = "START"
          /\ view[c].dropped => view'[c].dropped
          /\ f.type = "PEER_LEFT" => view'[c].dropped
      BY <3>1, FoldFacts
    <3> SUFFICES ASSUME Called(c)', ~Playing(c)' PROVE Told(c)'
      BY DEF ToldOK
    <3>3. Called(c)
      <4>1. SendTask(c, f) \in pending
        BY <1>1, <1>6
      <4>2. CASE view'[c].active
        BY <4>1, <4>2, <3>2 DEF Called
      <4>3. CASE ~view'[c].active
        BY <4>3, <1>4 DEF Called
      <4> QED
        BY <4>2, <4>3
    <3>4. Told(c)
      BY <3>3, <1>3, <2>3 DEF ToldInv, ToldOK
    <3>5. CASE view[c].dropped
      BY <3>5, <3>2 DEF Told
    <3>6. CASE DropTask(c) \in pending
      BY <3>6, <1>4 DEF Told
    <3>7. CASE SendTask(c, LeftFrame) \in pending
      <4>1. CASE SendTask(c, LeftFrame) \in below
        BY <4>1, <2>3 DEF Told
      <4>2. CASE SendTask(c, LeftFrame) = SendTask(x, f)
        <5>1. f = LeftFrame
          BY <4>2, TaskOps
        <5> QED
          BY <5>1, <3>2, FrameKinds DEF Told
      <4> QED
        BY <3>7, <4>1, <4>2, <1>1
    <3> QED
      BY <3>4, <3>5, <3>6, <3>7 DEF Told
  <2> QED
    BY <2>0, <2>1, <2>2, <2>3, <1>1, <1>6
<1> QED
  BY <1>5, <1>6

LEMMA ToldEach ==
  ASSUME TypeInv, SeatsInv, EachInv, ToldInv, DoEach
  PROVE  ToldInv'
<1>1. PICK r \in Clients, i \in Nat \ {0}, f \in Frames, but \in OrNobody :
        pending = {EachTask(r, i, f, but)} \cup below /\ Walks(r, i, f, but)
  BY EachStep
<1>2. UNCHANGED <<conn, view, room, started, members>>
  BY DEF DoEach
<1>3. \A c \in Clients : Playing(c)' <=> Playing(c)
  BY <1>2 DEF Playing
<1> SUFFICES ASSUME NEW c \in Clients PROVE ToldOK(c)'
  BY DEF ToldInv
<1>4. /\ SendTask(c, LeftFrame) \in pending => SendTask(c, LeftFrame) \in pending'
      /\ DropTask(c) \in pending => DropTask(c) \in pending'
  BY <1>1, TaskOps DEF Walks
<1>5. ASSUME NEW g \in Frames, g.type = "START", SendTask(c, g) \in pending'
      PROVE  SendTask(c, g) \in pending \/ Playing(c)'
  <2>1. CASE SendTask(c, g) \in below
    BY <2>1, <1>1
  <2>2. CASE SendTask(c, g) \notin below
    <3>1. /\ SendTask(c, g) = SendTask(members[r][i], Addressed(f, i))
          /\ i \in 1 .. Len(members[r])
      BY <1>1, <1>5, <2>2, TaskOps DEF Walks
    <3>2. c = members[r][i] /\ g = Addressed(f, i)
      BY <3>1, TaskOps
    <3>3. f.type = "START"
      BY <3>2, <1>5, AddressedFacts
    <3>4. members[r] # <<>>
      <4>1. Len(<<>>) = 0
        OBVIOUS
      <4> QED
        BY <3>1, <4>1
    <3>5. started[r]
      <4>1. EachTask(r, i, f, but) \in pending
        BY <1>1
      <4> QED
        BY <4>1, <3>3, <3>4, TaskOps DEF EachInv
    <3>6. ToSet(members[r]) = {m \in Clients : room[m] = r}
      BY <3>5 DEF SeatsInv, SeatOK, Cleared, Seated
    <3>7. c \in ToSet(members[r])
      BY <3>1, <3>2, LenProperties DEF TypeInv, ToSet
    <3> QED
      BY <3>5, <3>6, <3>7, <1>3, NoneAssumption DEF Playing
  <2> QED
    BY <2>1, <2>2
<1> QED
  BY <1>2, <1>3, <1>4, <1>5, ToldKept

LEMMA ToldDrop ==
  ASSUME TypeInv, SeatsInv, ToldInv, DoDrop
  PROVE  ToldInv'
<1>1. PICK d \in Clients :
           /\ pending = {DropTask(d)} \cup below /\ below \subseteq pending'
           /\ \/ /\ conn[d] = "dead" /\ UNCHANGED <<conn, view, room, started>>
              \/ /\ Forget(d) /\ UNCHANGED <<room, started>>
              \/ /\ Forget(d)
                 /\ \E r \in Clients, rest \in Seq(Clients) :
                      /\ Leaves(d, r, rest)
                      /\ MatchEnds(d, r, rest) \/ RoomEnds(d, r, rest) \/ RoomShrinks(d, r, rest)
  BY DropStep DEF MatchEnds, RoomEnds, RoomShrinks
<1>2. \A u \in pending' : u.op = "send" /\ u.frame.type = "START" => u \in below
  BY DropShape, <1>1, TaskOps
<1> SUFFICES ASSUME NEW c \in Clients, conn'[c] = "up" PROVE ToldOK(c)'
  BY DEF ToldInv, ToldOK
<1>3. c # d /\ conn[c] = "up" /\ view'[c] = view[c]
  BY <1>1, ForgetFacts
<1>4. /\ \A f \in Frames : f.type = "START" /\ SendTask(c, f) \in pending' => SendTask(c, f) \in pending
      /\ SendTask(c, LeftFrame) \in pending => SendTask(c, LeftFrame) \in pending'
      /\ DropTask(c) \in pending => DropTask(c) \in pending'
  BY <1>1, <1>2, <1>3, TaskOps
<1>5. CASE UNCHANGED <<room, started>>
  <2>1. Playing(c)' <=> Playing(c)
    BY <1>5 DEF Playing
  <2> QED
    BY <2>1, <1>3, <1>4, ToldKept
<1>6. ASSUME NEW r \in Clients, NEW rest \in Seq(Clients), Leaves(d, r, rest),
             MatchEnds(d, r, rest)
      PROVE  ToldOK(c)'
  <2>1. CASE room[c] = r
    <3>1. c \in ToSet(rest)
      BY <2>1, <1>3, <1>6 DEF Leaves
    <3>2. SendTask(c, LeftFrame) \in pending'
      BY <3>1, <1>6 DEF MatchEnds
    <3> QED
      BY <3>2 DEF ToldOK, Told
  <2>2. CASE room[c] # r
    <3>1. room'[c] = room[c] /\ started' = [started EXCEPT ![r] = FALSE]
      BY <2>2, <1>6 DEF MatchEnds, EndMatch
    <3>2. Playing(c)' <=> Playing(c)
      BY <3>1, <2>2 DEF Playing, TypeInv
    <3> QED
      BY <3>2, <1>3, <1>4, ToldKept
  <2> QED
    BY <2>1, <2>2
<1>7. ASSUME NEW r \in Clients, NEW rest \in Seq(Clients), Leaves(d, r, rest),
             RoomEnds(d, r, rest) \/ RoomShrinks(d, r, rest)
      PROVE  ToldOK(c)'
  <2>1. UNCHANGED started /\ ~started[r] /\ (room'[c] = room[c] \/ room[c] = r)
    BY <1>3, <1>7 DEF RoomEnds, Dissolve, RoomShrinks, Reseat, TypeInv
  <2>2. Playing(c) => Playing(c)'
    BY <2>1 DEF Playing
  <2> QED
    BY <2>2, <1>3, <1>4, ToldKept
<1> QED
  BY <1>1, <1>5, <1>6, <1>7

LEMMA ToldStart ==
  ASSUME TypeInv, SeatsInv, ToldInv, NEW r \in Clients, Starts(r), ~Clearing(r),
         UNCHANGED <<conn, view, room>>,
         \A u \in pending : u.op \notin {"send", "drop"}
  PROVE  ToldInv'
<1>1. started' = [started EXCEPT ![r] = TRUE]
  BY DEF Starts
<1> SUFFICES ASSUME NEW c \in Clients PROVE ToldOK(c)'
  BY DEF ToldInv
<1>2. Playing(c) => Playing(c)'
  BY <1>1 DEF Playing, TypeInv
<1>3. ASSUME NEW f \in Frames, SendTask(c, f) \in pending'
      PROVE  Playing(c)'
  <2>1. room[c] = r
    BY <1>3, StartTargets, TaskOps
  <2> QED
    BY <2>1, <1>1, NoneAssumption DEF Playing, TypeInv
<1>4. SendTask(c, LeftFrame) \notin pending /\ DropTask(c) \notin pending
  BY TaskOps
<1> QED
  BY <1>2, <1>3, <1>4, ToldKept

LEMMA ToldNext ==
  ASSUME TypeInv, LastInv, SeatsInv, NewInv, EachInv, ToldInv, Drain \/ Event
  PROVE  ToldInv'
<1>k. ASSUME UNCHANGED <<conn, view, room, started>>,
             \A u \in pending' : u.op = "send" /\ u.frame.type = "START" => u \in pending,
             \A u \in pending : u.op \in {"send", "drop"} => u \in pending'
      PROVE  ToldInv'
  <2> SUFFICES ASSUME NEW c \in Clients PROVE ToldOK(c)'
    BY DEF ToldInv
  <2>1. Playing(c)' <=> Playing(c)
    BY <1>k DEF Playing
  <2> QED
    BY <1>k, <2>1, TaskOps, ToldKept
<1>1. CASE DoSend
  BY <1>1, ToldSend
<1>2. CASE DoEach
  BY <1>2, ToldEach
<1>3. CASE DoDrop
  BY <1>3, ToldDrop
<1>4. CASE DoClear
  <2>1. \E r \in Clients : pending = {ClearTask(r)} \cup below /\ pending' = below
    BY <1>4, ClearStep
  <2> QED
    BY <1>4, <2>1, <1>k, TaskOps DEF DoClear
<1>5. CASE DoPublish
  <2>1. pending = {PublishTask} \cup below /\ pending' = below
    BY <1>5, PublishStep
  <2> QED
    BY <1>5, <2>1, <1>k, TaskOps DEF DoPublish
<1>6. CASE DoRegister
  <2>1. /\ \A u \in pending : u.op = "register"
        /\ \A u \in pending' : u.op = "publish" \/ u.frame.type = "REPLY"
    BY <1>6, RegisterStep, TaskOps, FrameKinds
  <2>2. \A u \in pending' : u.op = "send" => u.frame.type # "START"
    BY <2>1
  <2> QED
    BY <1>6, <2>1, <2>2, <1>k DEF DoRegister
<1>7. CASE DoAutoGo
  <2>1. PICK r \in Clients :
           /\ pending = {AutoGoTask(r)}
           /\ \/ pending' = {} /\ UNCHANGED started
              \/ Starts(r)
    BY <1>7, AutoGoStep
  <2>2. UNCHANGED <<conn, view, room>>
    BY <1>7 DEF DoAutoGo
  <2>3. ~Clearing(r) /\ \A u \in pending : u.op \notin {"send", "drop"}
    BY <2>1, TaskOps DEF Clearing
  <2>4. CASE pending' = {} /\ UNCHANGED started
    BY <2>2, <2>3, <2>4, <1>k
  <2> QED
    BY <2>1, <2>2, <2>3, <2>4, ToldStart
<1>8. CASE Event
  <2>1. PICK c \in Clients : Begun(c)
    BY <1>8, EventStep
  <2>2. pending = {}
    BY <1>8, EventStep, IdleFacts
  <2>3. CASE Accepts(c)
    <3>1. pending' = {} /\ UNCHANGED <<view, room, started>>
      BY <2>2, <2>3 DEF Accepts, pending
    <3> SUFFICES ASSUME NEW x \in Clients PROVE ToldOK(x)'
      BY DEF ToldInv
    <3>2. Playing(x)' <=> Playing(x)
      BY <3>1 DEF Playing
    <3>3. CASE x = c
      <4>1. ~view[x].active
        BY <2>3, <3>3, NoViewFacts DEF Accepts, NewInv
      <4> QED
        BY <4>1, <3>1 DEF ToldOK, Called
    <3>4. CASE x # c
      <4>1. conn'[x] = conn[x]
        BY <2>3, <3>4 DEF Accepts, TypeInv
      <4> QED
        BY <4>1, <2>2, <3>1, <3>2, ToldKept
    <3> QED
      BY <3>3, <3>4
  <2>4. CASE Breaks(c)
    <3>1. pending' = pending /\ UNCHANGED <<conn, view, room, started>>
      BY <2>4 DEF Breaks, pending
    <3> QED
      BY <3>1, <1>k
  <2>5. CASE Replies(c) \/ Hangs(c) \/ \E n \in Names : Hellos(c, n)
    <3>1. \A u \in pending' : u.op = "send" => u.frame.type = "REPLY"
      BY <2>5, TaskOps, FrameKinds DEF Replies, Hangs, Hellos
    <3>2. UNCHANGED <<conn, view, room, started>>
      BY <2>5 DEF Replies, Hangs, Hellos, Steady
    <3>3. \A u \in pending' : u.op = "send" => u.frame.type # "START"
      BY <3>1
    <3> QED
      BY <2>2, <3>2, <3>3, <1>k
  <2>6. ASSUME NEW r \in Clients, Relays(c, r) PROVE ToldInv'
    <3>1. \A u \in pending' : u.frame.type = "RELAY"
      BY <2>6, RelayShape
    <3>2. \A u \in pending' : u.frame.type # "START"
      BY <3>1
    <3> QED
      BY <2>2, <2>6, <3>2, <1>k DEF Relays, Steady
  <2>7. ASSUME NEW r \in Clients, Goes(c, r) PROVE ToldInv'
    BY <2>2, <2>7, ToldStart DEF Goes, Steady, Clearing
  <2>8. ASSUME NEW t \in Clients, NEW r \in Clients, NEW ms \in Seq(Clients), Joins(c, t, r, ms)
        PROVE  ToldInv'
    <3>1. \A u \in pending' : u.op = "send" => u.frame.type = "ROOM"
      BY <2>8, JoinShape DEF Joins
    <3>2. \A u \in pending' : u.op = "send" => u.frame.type # "START"
      BY <3>1
    <3>3. /\ room' = [room EXCEPT ![t] = r, ![c] = r] /\ room[c] = None /\ room[t] \in {None, r}
          /\ ~started[r] /\ UNCHANGED <<conn, view, started>>
      BY <2>8 DEF Joins, Enters, Steady
    <3>4. \A x \in Clients : Playing(x) => Playing(x)'
      <4> SUFFICES ASSUME NEW x \in Clients, Playing(x) PROVE room'[x] = room[x]
        BY <3>3 DEF Playing
      <4>1. room[x] # None /\ room[x] # r
        BY <3>3 DEF Playing
      <4>2. x # c /\ x # t
        BY <4>1, <3>3
      <4> QED
        BY <4>2, <3>3 DEF TypeInv
    <3>5. \A x \in Clients : ToldOK(x)'
      <4> TAKE x \in Clients
      <4>1. /\ \A f \in Frames : f.type = "START" => SendTask(x, f) \notin pending'
            /\ SendTask(x, LeftFrame) \notin pending /\ DropTask(x) \notin pending
        BY <2>2, <3>2, TaskOps
      <4> QED
        BY <4>1, <3>3, <3>4, ToldKept
    <3> QED
      BY <3>5 DEF ToldInv
  <2> QED
    BY <2>1, <2>3, <2>4, <2>5, <2>6, <2>7, <2>8 DEF Begun
<1> QED
  BY <1>1, <1>2, <1>3, <1>4, <1>5, <1>6, <1>7, <1>8 DEF Drain
-----------------------------------------------------------------------------
(* As long as no send fails, a drop finds nothing else to be done.         *)

LEMMA QuietNext ==
  ASSUME TypeInv, LastInv, SeatsInv, QuietInv, UNCHANGED server, Drain \/ Event
  PROVE  QuietInv'
<1> SUFFICES ASSUME broken' = {} PROVE QuietInv'
  BY DEF QuietInv
<1>1. broken = {}
  BY SoundBefore
<1>2. \A d \in Clients : DropTask(d) \in pending =>
        Head(agenda) = DropTask(d) /\ \A t \in below : t.op = "register"
  BY <1>1 DEF QuietInv, below
<1>n. ASSUME \A d \in Clients : DropTask(d) \notin pending' PROVE QuietInv'
  BY <1>n DEF QuietInv
<1>k. ASSUME Head(agenda).op # "drop", \A u \in pending' : u \in pending \/ u.op # "drop"
      PROVE  QuietInv'
  BY <1>k, <1>2, <1>n, TaskOps
<1>3. CASE DoSend
  <2>1. PICK x \in OrNobody, f \in Frames :
          /\ Head(agenda) = SendTask(x, f) /\ pending = {SendTask(x, f)} \cup below
          /\ pending' = below \/ x \in broken
    BY <1>3, SendStep
  <2> QED
    BY <2>1, <1>1, <1>k, TaskOps
<1>4. CASE DoEach
  <2>1. PICK r \in Clients, i \in Nat \ {0}, f \in Frames, but \in OrNobody :
          /\ Head(agenda) = EachTask(r, i, f, but)
          /\ pending = {EachTask(r, i, f, but)} \cup below /\ Walks(r, i, f, but)
    BY <1>4, EachStep
  <2>2. \A u \in pending' : u \in below \/ u.op \in {"send", "each"}
    BY <2>1, TaskOps DEF Walks
  <2> QED
    BY <2>1, <2>2, <1>k, TaskOps
<1>5. CASE DoDrop
  <2>1. PICK d \in Clients :
          /\ pending = {DropTask(d)} \cup below
          /\ \A u \in pending' : u \in below \/ u.op \in {"send", "each", "clear", "publish"}
    BY <1>5, DropShape
  <2>2. \A u \in pending' : u.op # "drop"
    BY <2>1, <1>2
  <2> QED
    BY <2>2, <1>n, TaskOps
<1>6. CASE DoClear
  <2>1. \E r \in Clients :
          Head(agenda) = ClearTask(r) /\ pending = {ClearTask(r)} \cup below /\ pending' = below
    BY <1>6, ClearStep
  <2> QED
    BY <2>1, <1>k, TaskOps
<1>7. CASE DoPublish
  <2>1. Head(agenda) = PublishTask /\ pending = {PublishTask} \cup below /\ pending' = below
    BY <1>7, PublishStep
  <2> QED
    BY <2>1, <1>k, TaskOps
<1>8. CASE DoRegister
  <2>1. \A u \in pending' : u.op \in {"send", "publish"}
    BY <1>8, RegisterStep, TaskOps
  <2> QED
    BY <2>1, <1>n, TaskOps
<1>9. CASE DoAutoGo
  <2>1. PICK r \in Clients : pending' = {} \/ Starts(r)
    BY <1>9, AutoGoStep
  <2>2. \A u \in pending' : u.op \in {"send", "each", "publish"}
    BY <2>1, StartShape
  <2> QED
    BY <2>2, <1>n, TaskOps
<1>10. CASE Event
  <2>1. PICK c \in Clients : Begun(c)
    BY <1>10, EventStep
  <2>2. pending = {}
    BY <1>10, EventStep, IdleFacts
  <2>3. CASE Accepts(c) \/ Breaks(c)
    <3>1. pending' = {}
      BY <2>2, <2>3 DEF Accepts, Breaks, pending
    <3> QED
      BY <3>1, <1>n
  <2>4. CASE Replies(c)
    BY <2>4, <1>n, TaskOps DEF Replies
  <2>5. CASE Hangs(c)
    BY <2>5, TaskOps DEF Hangs, QuietInv
  <2>6. ASSUME NEW n \in Names, Hellos(c, n) PROVE QuietInv'
    <3> SUFFICES ASSUME NEW d \in Clients, DropTask(d) \in pending'
                 PROVE  Head(agenda') = DropTask(d) /\ \A t \in ToSet(Tail(agenda')) : t.op = "register"
      BY DEF QuietInv
    <3> QED
      BY <2>6, TaskOps DEF Hellos
  <2>7. ASSUME NEW r \in Clients, Relays(c, r) PROVE QuietInv'
    BY <2>7, RelayShape, <1>n, TaskOps
  <2>8. ASSUME NEW r \in Clients, Goes(c, r) PROVE QuietInv'
    BY <2>8, StartShape, <1>n, TaskOps DEF Goes
  <2>9. ASSUME NEW t \in Clients, NEW r \in Clients, NEW ms \in Seq(Clients), Joins(c, t, r, ms)
        PROVE  QuietInv'
    BY <2>9, JoinShape, <1>n, TaskOps DEF Joins
  <2> QED
    BY <2>1, <2>3, <2>4, <2>5, <2>6, <2>7, <2>8, <2>9 DEF Begun
<1> QED
  BY <1>3, <1>4, <1>5, <1>6, <1>7, <1>8, <1>9, <1>10 DEF Drain

(* What an announcement promises, and whom it reaches.                     *)
LEMMA AnnounceRight ==
  ASSUME NEW r \in Clients, NEW ms \in Seq(Clients), NEW f \in Frames,
         f = RoomFrame(ms) \/ (f = StartFrame(ms) /\ started'[r]),
         members'[r] = ms, \A m \in ToSet(ms) : room'[m] = r,
         ClearTask(r) \notin pending'
  PROVE  \A u \in ToSet(Announce(r, ms, f, None)) : RightTask(u)'
<1>1. None \in OrNobody /\ None \notin Clients
  BY NoneAssumption DEF OrNobody
<1>2. DOMAIN ms = 1 .. Len(ms) /\ \A i \in 1 .. Len(ms) : ms[i] \in Clients /\ ms[i] \in ToSet(ms)
  BY LenProperties, ElementOfSeq DEF ToSet
<1>3. f.roster = ms /\ f.type \in {"ROOM", "START"} /\ (f.type = "START" => started'[r])
  BY FrameKinds
<1>4. CASE ~server.inC
  <2>1. ToSet(Announce(r, ms, f, None)) = {EachTask(r, 1, f, None)}
    BY <1>1, <1>4, AnnounceFacts
  <2>2. RightEach(EachTask(r, 1, f, None))'
    BY <1>3, TaskOps DEF RightEach, Clearing
  <2> QED
    BY <2>1, <2>2, TaskOps DEF RightTask
<1>5. CASE server.inC
  <2> DEFINE T(i) == SendTask(ms[i], Addressed(f, i))
  <2>1. \A u \in ToSet(Announce(r, ms, f, None)) : \E i \in 1 .. Len(ms) : u = T(i)
    <3>1. ToSet(Announce(r, ms, f, None)) =
            {IF ms[i] = None THEN SendTask(None, f) ELSE SendTask(ms[i], Addressed(f, i))
               : i \in 1 .. Len(ms)}
      BY <1>1, <1>5, AnnounceFacts
    <3> QED
      BY <3>1, <1>1, <1>2
  <2>2. ASSUME NEW i \in 1 .. Len(ms) PROVE Right(ms[i], Addressed(f, i))'
    <3>1. /\ Addressed(f, i).roster = ms /\ Addressed(f, i).type = f.type
          /\ f.type = "START" => Addressed(f, i).seat + 1 = i
      BY <1>3, AddressedFacts
    <3>2. room'[ms[i]] = r /\ r # None
      BY <1>1, <1>2
    <3>3. Target(ms[i])' = ms
      BY <3>2 DEF Target
    <3>4. f.type = "START" => Playing(ms[i])'
      BY <3>2, <1>3 DEF Playing
    <3> QED
      BY <3>1, <3>3, <3>4, <1>2 DEF Right
  <2>3. \A i \in 1 .. Len(ms) : RightTask(T(i))'
    BY <2>2, TaskOps DEF RightTask
  <2> QED
    BY <2>1, <2>3
<1> QED
  BY <1>4, <1>5

LEMMA AnnounceReaches ==
  ASSUME NEW r \in Clients, NEW ms \in Seq(Clients), NEW f \in Frames,
         members'[r] = ms, ToSet(Announce(r, ms, f, None)) \subseteq pending',
         NEW c \in ToSet(ms), room'[c] = r
  PROVE  Awaits(c, f.type)'
<1>1. None \in OrNobody /\ None \notin Clients
  BY NoneAssumption DEF OrNobody
<1>2. PICK p \in 1 .. Len(ms) : ms[p] = c
  BY LenProperties DEF ToSet
<1>3. c \in Clients
  BY <1>2, ElementOfSeq
<1>4. CASE ~server.inC
  <2>1. EachTask(r, 1, f, None) \in pending'
    BY <1>1, <1>4, AnnounceFacts
  <2> QED
    BY <2>1, <1>2, TaskOps DEF Awaits, Brings
<1>5. CASE server.inC
  <2>1. SendTask(c, Addressed(f, p)) \in pending'
    <3>1. ToSet(Announce(r, ms, f, None)) =
            {IF ms[i] = None THEN SendTask(None, f) ELSE SendTask(ms[i], Addressed(f, i))
               : i \in 1 .. Len(ms)}
      BY <1>1, <1>5, AnnounceFacts
    <3> QED
      BY <3>1, <1>1, <1>2, <1>3
  <2>2. Addressed(f, p).type = f.type
    BY AddressedFacts
  <2> QED
    BY <2>1, <2>2, TaskOps DEF Awaits, Brings
<1> QED
  BY <1>4, <1>5

(* Under the drop at the head, when no send fails, nothing is being sent.  *)
LEMMA QuietDrop ==
  ASSUME QuietInv, broken = {}, NEW d \in Clients, DropTask(d) \in pending
  PROVE  \A u \in below : u.op = "register"
BY DEF QuietInv, below

LEMMA RightDrop ==
  ASSUME TypeInv, SeatsInv, QuietInv, broken = {}, DoDrop
  PROVE  \A u \in pending' : RightTask(u)'
<1>1. PICK d \in Clients :
           /\ pending = {DropTask(d)} \cup below
           /\ \/ pending' = below
              \/ \E r \in Clients, rest \in Seq(Clients) :
                      /\ Leaves(d, r, rest)
                      /\ MatchEnds(d, r, rest) \/ RoomEnds(d, r, rest) \/ RoomShrinks(d, r, rest)
  BY DropStep
<1>2. \A u \in pending' : u \in below => RightTask(u)'
  <2>1. \A u \in below : u.op = "register"
    BY <1>1, QuietDrop
  <2> QED
    BY <2>1 DEF RightTask
<1>p. /\ PublishTask.op = "publish" /\ \A q : ClearTask(q).op = "clear"
  BY TaskOps
<1>3. ASSUME NEW r \in Clients, NEW rest \in Seq(Clients), Leaves(d, r, rest), MatchEnds(d, r, rest)
      PROVE  \A u \in pending' : RightTask(u)'
  <2>1. \A m : RightTask(SendTask(m, LeftFrame))'
    BY TaskOps, FrameKinds DEF RightTask, Right
  <2> QED
    BY <2>1, <1>2, <1>3, <1>p DEF MatchEnds, RightTask
<1>4. ASSUME NEW r \in Clients, NEW rest \in Seq(Clients), Leaves(d, r, rest), RoomEnds(d, r, rest)
      PROVE  \A u \in pending' : RightTask(u)'
  <2>1. ASSUME NEW m \in ToSet(rest) PROVE RightTask(SendTask(m, RoomFrame(<<>>)))'
    <3>1. m \in Clients
      BY LenProperties, ElementOfSeq DEF ToSet
    <3>2. room'[m] = None
      <4>1. room[m] = r
        BY <3>1, <1>4 DEF Leaves
      <4> QED
        BY <3>1, <4>1, <1>4 DEF RoomEnds, Dissolve
    <3>3. Target(m)' = <<>>
      BY <3>2 DEF Target
    <3> QED
      BY <3>3, TaskOps, FrameKinds DEF RightTask, Right
  <2> QED
    BY <2>1, <1>2, <1>4, <1>p DEF RoomEnds, RightTask
<1>5. ASSUME NEW r \in Clients, NEW rest \in Seq(Clients), Leaves(d, r, rest), RoomShrinks(d, r, rest)
      PROVE  \A u \in pending' : RightTask(u)'
  <2>1. members'[r] = rest /\ RoomFrame(rest) \in Frames
    BY <1>5, FrameTypes DEF RoomShrinks, Reseat, TypeInv, Rosters
  <2>2. ASSUME NEW m \in ToSet(rest) PROVE room'[m] = r
    <3>1. m \in Clients
      BY LenProperties, ElementOfSeq DEF ToSet
    <3> QED
      BY <3>1, <1>5 DEF Leaves, RoomShrinks, Reseat, TypeInv
  <2>3. ClearTask(r) \notin pending'
    <3>1. ClearTask(r) \notin pending
      BY <1>5 DEF Leaves, Clearing
    <3>2. \A u \in ToSet(Announce(r, rest, RoomFrame(rest), None)) : u.op \in {"send", "each"}
      BY <2>1, AnnounceOps DEF OrNobody
    <3> QED
      BY <3>1, <3>2, <1>1, <1>5, TaskOps DEF RoomShrinks
  <2>4. \A u \in ToSet(Announce(r, rest, RoomFrame(rest), None)) : RightTask(u)'
    BY <2>1, <2>2, <2>3, AnnounceRight
  <2> QED
    BY <2>4, <1>2, <1>5, <1>p DEF RoomShrinks, RightTask
<1> QED
  BY <1>1, <1>2, <1>3, <1>4, <1>5

LEMMA RightNext ==
  ASSUME TypeInv, LastInv, SeatsInv, QuietInv, RightInv, UNCHANGED server, Drain \/ Event
  PROVE  RightInv'
<1> SUFFICES ASSUME broken' = {} PROVE \A u \in pending' : RightTask(u)'
  BY DEF RightInv
<1>1. broken = {}
  BY SoundBefore
<1>2. \A u \in pending : RightTask(u)
  BY <1>1 DEF RightInv
<1>k. ASSUME UNCHANGED <<room, members, started>>, pending' \subseteq Tasks,
             \A r \in Clients : ClearTask(r) \in pending' => ClearTask(r) \in pending,
             NEW u \in pending', u \in pending
      PROVE  RightTask(u)'
  <2>1. RightTask(u) /\ u \in Tasks
    BY <1>2, <1>k
  <2>2. \A c : Target(c)' = Target(c) /\ (Playing(c)' <=> Playing(c))
    BY <1>k DEF Target, Playing
  <2>3. \A r \in Clients : Clearing(r)' => Clearing(r)
    BY <1>k DEF Clearing
  <2>4. u.op = "send" /\ u.to # None => Right(u.to, u.frame)'
    BY <2>1, <2>2 DEF RightTask, Right
  <2>5. u.op = "each" => RightEach(u)'
    BY <2>1, <2>3, <1>k, TaskForms DEF RightTask, RightEach
  <2> QED
    BY <2>4, <2>5 DEF RightTask
<1>n. ASSUME NEW u, u.op \in {"drop", "clear", "register", "autogo", "publish"}
      PROVE  RightTask(u)'
  BY <1>n DEF RightTask
<1>o. ASSUME NEW u, u.op \in {"send", "each"}, u.frame.type \notin {"ROOM", "START"}
      PROVE  RightTask(u)'
  BY <1>o DEF RightTask, Right, RightEach
<1>3. CASE DoSend
  <2>1. PICK x \in OrNobody, f \in Frames :
          /\ pending = {SendTask(x, f)} \cup below /\ below \subseteq Tasks
          /\ pending' = below \/ x \in broken
    BY <1>3, SendStep
  <2>2. UNCHANGED <<room, members, started>>
    BY <1>3 DEF DoSend
  <2> QED
    BY <2>1, <2>2, <1>1, <1>k
<1>4. CASE DoEach
  <2>1. PICK r \in Clients, i \in Nat \ {0}, f \in Frames, but \in OrNobody :
          /\ pending = {EachTask(r, i, f, but)} \cup below /\ Walks(r, i, f, but)
          /\ below \subseteq Tasks
    BY <1>4, EachStep
  <2>2. UNCHANGED <<room, members, started>>
    BY <1>4 DEF DoEach
  <2>3. \A q \in Clients : ClearTask(q) \in pending' => ClearTask(q) \in pending
    BY <2>1, TaskOps DEF Walks
  <2>4. RightEach(EachTask(r, i, f, but))
    BY <2>1, <1>2, TaskOps DEF RightTask
  <2>5. RightTask(EachTask(r, i + 1, f, but))'
    <3>1. Clearing(r)' => Clearing(r)
      BY <2>3 DEF Clearing
    <3> QED
      BY <3>1, <2>2, <2>4, TaskOps DEF RightTask, RightEach
  <2>6. ASSUME NEW m \in Clients, NEW g \in Frames, i \in 1 .. Len(members[r]),
               m = members[r][i], g = Addressed(f, i)
        PROVE  RightTask(SendTask(m, g))'
    <3>1. CASE f.type \notin {"ROOM", "START"}
      <4>1. g.type \notin {"ROOM", "START"}
        BY <3>1, <2>6, AddressedFacts
      <4> QED
        BY <4>1, <1>o, TaskOps
    <3>2. CASE f.type \in {"ROOM", "START"}
      <4>1. f.roster = members[r] /\ ~Clearing(r) /\ (f.type = "START" => started[r])
        BY <2>4, <3>2, TaskOps DEF RightEach
      <4>2. g.roster = members[r] /\ g.type = f.type /\ (f.type = "START" => g.seat + 1 = i)
        BY <3>2, <4>1, <2>6, AddressedFacts
      <4>3. ToSet(members[r]) = {x \in Clients : room[x] = r}
        BY <4>1 DEF SeatsInv, SeatOK, Seated
      <4>4. DOMAIN members[r] = 1 .. Len(members[r])
        BY LenProperties DEF TypeInv
      <4>5. room'[m] = r /\ r # None
        BY <4>3, <4>4, <2>2, <2>6, NoneAssumption DEF ToSet
      <4>6. Target(m)' = members[r]
        BY <4>5, <2>2 DEF Target
      <4>7. f.type = "START" => Playing(m)'
        BY <4>1, <4>5, <2>2 DEF Playing
      <4>8. g.type = "START" => g.seat + 1 \in DOMAIN g.roster /\ g.roster[g.seat + 1] = m
        BY <4>2, <4>4, <2>6
      <4>9. Right(m, g)'
        BY <4>2, <4>6, <4>7, <4>8 DEF Right
      <4> QED
        BY <4>9, TaskOps DEF RightTask
    <3> QED
      BY <3>1, <3>2
  <2>7. ASSUME NEW u \in below PROVE RightTask(u)'
    <3>1. RightTask(u) /\ u \in Tasks
      BY <2>1, <2>7, <1>2
    <3>2. \A c : Target(c)' = Target(c) /\ (Playing(c)' <=> Playing(c))
      BY <2>2 DEF Target, Playing
    <3>3. \A q \in Clients : Clearing(q)' => Clearing(q)
      BY <2>3 DEF Clearing
    <3>4. u.op = "send" /\ u.to # None => Right(u.to, u.frame)'
      BY <3>1, <3>2 DEF RightTask, Right
    <3>5. u.op = "each" => RightEach(u)'
      BY <3>1, <3>3, <2>2, TaskForms DEF RightTask, RightEach
    <3> QED
      BY <3>4, <3>5 DEF RightTask
  <2>8. \A u \in pending' :
          \/ u \in below
          \/ u = EachTask(r, i + 1, f, but)
          \/ /\ i \in 1 .. Len(members[r])
             /\ \E m \in Clients, g \in Frames :
                  m = members[r][i] /\ g = Addressed(f, i) /\ u = SendTask(m, g)
    BY <2>1, AddressedFacts DEF Walks
  <2> TAKE u \in pending'
  <2>9. CASE u = EachTask(r, i + 1, f, but)
    BY <2>5, <2>9
  <2> QED
    BY <2>6, <2>7, <2>8, <2>9
<1>5. CASE DoDrop
  <2>1. \A u \in pending' : RightTask(u)'
    BY <1>1, <1>5, RightDrop, Zenon
  <2> QED
    BY <2>1, Zenon
<1>6. CASE DoClear
  <2>1. PICK r \in Clients :
           /\ pending = {ClearTask(r)} \cup below /\ pending' = below /\ below \subseteq Tasks
           /\ members' = [members EXCEPT ![r] = <<>>]
    BY <1>6, ClearStep
  <2>2. UNCHANGED <<room, started>>
    BY <1>6 DEF DoClear
  <2>3. Clearing(r) /\ \A c \in Clients : room[c] # r
    BY <2>1 DEF SeatsInv, SeatOK, Cleared, Clearing
  <2>4. \A c \in Clients : Target(c)' = Target(c) /\ (Playing(c)' <=> Playing(c))
    <3> TAKE c \in Clients
    <3>1. room[c] # None => room[c] \in Clients \ {r}
      BY <2>3 DEF TypeInv, OrNobody
    <3> QED
      BY <3>1, <2>1, <2>2 DEF Target, Playing, TypeInv
  <2> TAKE u \in pending'
  <2>5. RightTask(u) /\ u \in Tasks
    BY <2>1, <1>2
  <2>6. u.op = "send" /\ u.to # None => Right(u.to, u.frame)'
    BY <2>4, <2>5, TaskForms DEF RightTask, Right, OrNobody
  <2>7. ASSUME u.op = "each" PROVE RightEach(u)'
    <3>1. u.in \in Clients /\ RightEach(u)
      BY <2>5, <2>7, TaskForms DEF RightTask
    <3>2. CASE u.frame.type \notin {"ROOM", "START"}
      BY <3>2 DEF RightEach
    <3>3. CASE u.frame.type \in {"ROOM", "START"}
      <4>1. ~Clearing(u.in) /\ u.in # r
        BY <3>1, <3>3, <2>3 DEF RightEach
      <4>2. members'[u.in] = members[u.in] /\ ~Clearing(u.in)'
        BY <4>1, <3>1, <2>1 DEF TypeInv, Clearing
      <4> QED
        BY <4>2, <3>1, <2>2 DEF RightEach
    <3> QED
      BY <3>2, <3>3
  <2> QED
    BY <2>6, <2>7 DEF RightTask
<1>7. CASE DoPublish
  <2>1. pending = {PublishTask} \cup below /\ pending' = below /\ below \subseteq Tasks
    BY <1>7, PublishStep
  <2>2. UNCHANGED <<room, members, started>>
    BY <1>7 DEF DoPublish
  <2> QED
    BY <2>1, <2>2, <1>k
<1>8. CASE DoRegister
  <2>1. \A u \in pending' : u.op = "publish" \/ (u.op = "send" /\ u.frame.type = "REPLY")
    BY <1>8, RegisterStep, TaskOps, FrameKinds
  <2>2. \A u \in pending' : u.op = "publish" \/ (u.op = "send" /\ u.frame.type \notin {"ROOM", "START"})
    BY <2>1
  <2> QED
    BY <2>2, <1>n, <1>o
<1>s. ASSUME NEW r \in Clients, Starts(r), ~Clearing(r), UNCHANGED <<room, members>>
      PROVE  \A u \in pending' : RightTask(u)'
  <2>1. /\ members[r] \in Seq(Clients) /\ StartFrame(members[r]) \in Frames /\ started'[r]
        /\ members'[r] = members[r]
    BY <1>s, FrameTypes DEF TypeInv, Rosters, Starts
  <2>2. \A m \in ToSet(members[r]) : room'[m] = r
    BY <1>s DEF SeatsInv, SeatOK, Seated
  <2>3. ClearTask(r) \notin pending'
    BY <1>s, StartShape, TaskOps
  <2>4. \A u \in ToSet(Announce(r, members[r], StartFrame(members[r]), None)) : RightTask(u)'
    BY <2>1, <2>2, <2>3, AnnounceRight
  <2> QED
    BY <2>4, <1>s, <1>n, TaskOps DEF Starts
<1>9. CASE DoAutoGo
  <2>1. PICK r \in Clients : pending = {AutoGoTask(r)} /\ (pending' = {} \/ Starts(r))
    BY <1>9, AutoGoStep
  <2>2. ~Clearing(r) /\ UNCHANGED <<room, members>>
    BY <1>9, <2>1, TaskOps DEF Clearing, DoAutoGo
  <2> QED
    BY <2>1, <2>2, <1>s
<1>10. CASE Event
  <2>1. PICK c \in Clients : Begun(c)
    BY <1>10, EventStep
  <2>2. pending = {}
    BY <1>10, EventStep, IdleFacts
  <2>3. CASE Accepts(c) \/ Breaks(c)
    BY <2>2, <2>3 DEF Accepts, Breaks, pending
  <2>4. CASE Replies(c) \/ Hangs(c) \/ \E n \in Names : Hellos(c, n)
    <3>1. \A u \in pending' : \/ u.op \in {"drop", "register"}
                              \/ u.op = "send" /\ u.frame.type = "REPLY"
      BY <2>4, TaskOps, FrameKinds DEF Replies, Hangs, Hellos
    <3>2. \A u \in pending' : \/ u.op \in {"drop", "register"}
                              \/ u.op = "send" /\ u.frame.type \notin {"ROOM", "START"}
      BY <3>1
    <3> QED
      BY <3>2, <1>n, <1>o
  <2>5. ASSUME NEW r \in Clients, Relays(c, r) PROVE \A u \in pending' : RightTask(u)'
    <3>1. \A u \in pending' : u.op \in {"send", "each"} /\ u.frame.type = "RELAY"
      BY <2>5, RelayShape
    <3>2. \A u \in pending' : u.op \in {"send", "each"} /\ u.frame.type \notin {"ROOM", "START"}
      BY <3>1
    <3> QED
      BY <3>2, <1>o
  <2>6. ASSUME NEW r \in Clients, Goes(c, r) PROVE \A u \in pending' : RightTask(u)'
    BY <2>2, <2>6, <1>s DEF Goes, Clearing
  <2>7. ASSUME NEW t \in Clients, NEW r \in Clients, NEW ms \in Seq(Clients), Joins(c, t, r, ms)
        PROVE  \A u \in pending' : RightTask(u)'
    <3>1. Enters(c, t, r, ms)
      BY <2>7 DEF Joins
    <3>2. members'[r] = ms /\ RoomFrame(ms) \in Frames
      BY <3>1, FrameTypes DEF Enters, TypeInv, Rosters
    <3>3. \A m \in ToSet(ms) : room'[m] = r
      <4>1. \A m \in ToSet(ms) : m \in Clients
        BY ElementOfSeq, LenProperties DEF ToSet
      <4> QED
        BY <3>1, <4>1 DEF Enters
    <3>4. ClearTask(r) \notin pending'
      BY <3>1, JoinShape, TaskOps
    <3>5. \A u \in ToSet(Announce(r, ms, RoomFrame(ms), None)) : RightTask(u)'
      BY <3>2, <3>3, <3>4, AnnounceRight
    <3> QED
      BY <3>1, <3>5, <1>n, TaskOps DEF Enters
  <2> QED
    BY <2>1, <2>3, <2>4, <2>5, <2>6, <2>7 DEF Begun
<1> QED
  BY <1>3, <1>4, <1>5, <1>6, <1>7, <1>8, <1>9, <1>10 DEF Drain
-----------------------------------------------------------------------------
(* What the consoles show, as long as no send fails.                       *)

LEMMA ShowsKept ==
  ASSUME NEW c \in Clients, ShowsOK(c), view'[c] = view[c], Target(c)' = Target(c),
         Playing(c)' => Playing(c),
         \A ty \in {"ROOM", "START"} : Awaits(c, ty) => Awaits(c, ty)'
  PROVE  ShowsOK(c)'
<1>1. InMatch(c) => InMatch(c)'
  BY DEF InMatch
<1>2. Shows(c) => Shows(c)'
  BY DEF Shows, Target
<1> QED
  BY <1>1, <1>2 DEF ShowsOK

(* A client whose room is as it was, and which is sent what it was.        *)
LEMMA ShowsSame ==
  ASSUME NEW c \in Clients, ShowsOK(c), view'[c] = view[c], room'[c] = room[c],
         room[c] # None => /\ members'[room[c]] = members[room[c]]
                           /\ started'[room[c]] => started[room[c]],
         \A t \in pending, ty \in {"ROOM", "START"} : Brings(t, c, ty) =>
            \/ t.op = "send" /\ t \in pending'
            \/ t.op = "each" /\ room[c] # None /\ t \in pending'
            \/ Awaits(c, ty)'
  PROVE  ShowsOK(c)'
<1>1. Target(c)' = Target(c) /\ (Playing(c)' => Playing(c))
  BY DEF Target, Playing
<1>2. ASSUME NEW ty \in {"ROOM", "START"}, NEW t \in pending, Brings(t, c, ty)
      PROVE  Awaits(c, ty)'
  <2>1. CASE t.op = "send" /\ t \in pending'
    BY <1>2, <2>1 DEF Awaits, Brings
  <2>2. CASE t.op = "each" /\ room[c] # None /\ t \in pending'
    <3>1. Brings(t, c, ty)'
      BY <1>2, <2>2 DEF Brings
    <3> QED
      BY <2>2, <3>1 DEF Awaits
  <2> QED
    BY <1>2, <2>1, <2>2
<1>3. \A ty \in {"ROOM", "START"} : Awaits(c, ty) => Awaits(c, ty)'
  BY <1>2 DEF Awaits
<1> QED
  BY <1>1, <1>3, ShowsKept

LEMMA BringsEach ==
  ASSUME TypeInv, NEW c \in Clients, NEW t \in pending, NEW ty, Brings(t, c, ty)
  PROVE  /\ t.op = "each" => room[c] # None
         /\ t.op = "send" \/ t.op = "each"
<1>1. pending \subseteq Tasks
  BY ElementOfSeq, LenProperties DEF TypeInv, pending, ToSet
<1>2. t.op = "each" => t.in \in Clients /\ t.in = room[c]
  BY <1>1, TaskForms DEF Brings
<1> QED
  BY <1>2, NoneAssumption DEF Brings

LEMMA ShowsSend ==
  ASSUME TypeInv, QuietInv, RightInv, ShowsInv, broken = {}, DoSend
  PROVE  \A c \in Clients : conn'[c] = "up" => ShowsOK(c)'
<1>1. PICK x \in OrNobody, f \in Frames :
           /\ pending = {SendTask(x, f)} \cup below /\ pending' = below
           /\ \/ (x = None \/ conn[x] # "up") /\ UNCHANGED view
              \/ x \in Clients /\ view' = [view EXCEPT ![x] = Fold(@, f)]
  BY SendStep
<1>2. UNCHANGED <<conn, room, started, members>>
  BY DEF DoSend
<1> SUFFICES ASSUME NEW c \in Clients, conn[c] = "up" PROVE ShowsOK(c)'
  BY <1>2
<1>3. ShowsOK(c) /\ c # None
  BY NoneAssumption DEF ShowsInv
<1>4. ASSUME NEW t \in pending, NEW ty \in {"ROOM", "START"}, Brings(t, c, ty),
             x # c \/ f.type # ty
      PROVE  \/ t.op = "send" /\ t \in pending'
             \/ t.op = "each" /\ room[c] # None /\ t \in pending'
  <2>1. t # SendTask(x, f)
    BY <1>4, TaskOps DEF Brings
  <2> QED
    BY <2>1, <1>1, <1>4, BringsEach
<1>5. CASE x # c
  <2>1. x # c
    BY <1>5
  <2>2. view'[c] = view[c]
    BY <2>1, <1>1 DEF TypeInv
  <2> QED
    BY <2>1, <2>2, <1>2, <1>3, <1>4, ShowsSame
<1>6. CASE x = c /\ view' = [view EXCEPT ![x] = Fold(@, f)]
  <2>1. view'[c] = Fold(view[c], f) /\ view[c] \in Views
    BY <1>6 DEF TypeInv
  <2>2. Right(c, f)
    <3>1. SendTask(c, f) \in pending
      BY <1>1, <1>6
    <3>2. RightTask(SendTask(c, f))
      BY <3>1 DEF RightInv
    <3> QED
      BY <3>2, <1>3, TaskOps DEF RightTask
  <2>3. Target(c)' = Target(c) /\ (Playing(c)' <=> Playing(c))
    BY <1>2 DEF Target, Playing
  <2>4. ASSUME NEW ty \in {"ROOM", "START"}, f.type # ty, Awaits(c, ty)
        PROVE  Awaits(c, ty)'
    <3>1. PICK t \in pending : Brings(t, c, ty)
      BY <2>4 DEF Awaits
    <3>2. t \in pending'
      BY <2>4, <3>1, <1>4
    <3>3. Brings(t, c, ty)'
      BY <3>1, <1>2 DEF Brings
    <3> QED
      BY <3>2, <3>3 DEF Awaits
  <2>5. ASSUME Playing(c) PROVE InMatch(c)' \/ Awaits(c, "START")'
    <3>1. CASE f.type = "START"
      <4>1. /\ view'[c].active /\ view'[c].roster = f.roster /\ view'[c].seat = f.seat
        BY <2>1, <3>1, FoldFacts
      <4>2. /\ f.roster = Target(c) /\ f.seat + 1 \in DOMAIN f.roster
            /\ f.roster[f.seat + 1] = c
        BY <2>2, <3>1 DEF Right
      <4> QED
        BY <4>1, <4>2, <2>3 DEF InMatch
    <3>2. CASE f.type # "START"
      <4>1. CASE Awaits(c, "START")
        BY <4>1, <3>2, <2>4
      <4>2. CASE InMatch(c)
        <5>1. view[c].active
          BY <4>2 DEF InMatch
        <5>2. /\ view'[c].active /\ view'[c].roster = view[c].roster
              /\ view'[c].seat = view[c].seat
          BY <5>1, <3>2, <2>1, FoldFacts
        <5> QED
          BY <5>2, <4>2, <2>3 DEF InMatch
      <4> QED
        BY <4>1, <4>2, <2>5, <1>3 DEF ShowsOK
    <3> QED
      BY <3>1, <3>2
  <2>6. ASSUME ~view'[c].active PROVE Shows(c)' \/ Awaits(c, "ROOM")'
    <3>1. f.type # "START" /\ ~view[c].active
      BY <2>1, <2>6, FoldFacts
    <3>2. CASE f.type = "ROOM"
      <4>1. view'[c].roster = f.roster
        BY <3>1, <3>2, <2>1, FoldFacts
      <4>2. f.roster = Target(c)
        BY <3>2, <2>2 DEF Right
      <4> QED
        BY <4>1, <4>2, <2>3 DEF Shows, Target
    <3>3. CASE f.type # "ROOM"
      <4>1. view'[c].roster = view[c].roster
        BY <3>1, <3>3, <2>1, FoldFacts
      <4>2. CASE Awaits(c, "ROOM")
        BY <4>2, <3>3, <2>4
      <4>3. CASE Shows(c)
        BY <4>1, <4>3, <2>3 DEF Shows, Target
      <4> QED
        BY <3>1, <4>2, <4>3, <1>3 DEF ShowsOK
    <3> QED
      BY <3>2, <3>3
  <2> QED
    BY <2>3, <2>5, <2>6 DEF ShowsOK
<1> QED
  BY <1>1, <1>3, <1>5, <1>6

LEMMA ShowsEach ==
  ASSUME TypeInv, RightInv, ShowsInv, broken = {}, DoEach
  PROVE  \A c \in Clients : conn'[c] = "up" => ShowsOK(c)'
<1>1. PICK r \in Clients, i \in Nat \ {0}, f \in Frames, but \in OrNobody :
        pending = {EachTask(r, i, f, but)} \cup below /\ Walks(r, i, f, but)
  BY EachStep
<1>2. UNCHANGED <<conn, view, room, started, members>>
  BY DEF DoEach
<1> SUFFICES ASSUME NEW c \in Clients, conn[c] = "up" PROVE ShowsOK(c)'
  BY <1>2
<1>3. ShowsOK(c)
  BY DEF ShowsInv
<1>4. below \subseteq pending'
  BY <1>1 DEF Walks
<1>5. ASSUME NEW ty \in {"ROOM", "START"}, Brings(EachTask(r, i, f, but), c, ty)
      PROVE  Awaits(c, ty)'
  <2>1. PICK p \in i .. Len(members[r]) : members[r][p] = c
    BY <1>5, TaskOps DEF Brings
  <2>2. r = room[c] /\ f.type = ty
    BY <1>5, TaskOps DEF Brings
  <2>3. but = None
    <3>1. RightTask(EachTask(r, i, f, but))
      BY <1>1 DEF RightInv
    <3> QED
      BY <3>1, <2>2, TaskOps DEF RightTask, RightEach
  <2>4. Len(members[r]) \in Nat
    BY LenProperties DEF TypeInv
  <2>5. i \in 1 .. Len(members[r]) /\ members[r][i] \in Clients
    <3>1. i \in 1 .. Len(members[r])
      BY <2>1, <2>4
    <3> QED
      BY <3>1, ElementOfSeq DEF TypeInv
  <2>6. {SendTask(members[r][i], Addressed(f, i)), EachTask(r, i + 1, f, but)} \subseteq pending'
    BY <1>1, <2>3, <2>4, <2>5, NoneAssumption DEF Walks
  <2>7. CASE p = i
    <3>1. SendTask(c, Addressed(f, i)) \in pending'
      BY <2>1, <2>6, <2>7
    <3>2. Addressed(f, i).type = ty
      BY <2>2, AddressedFacts
    <3>3. Brings(SendTask(c, Addressed(f, i)), c, ty)'
      BY <3>2, TaskOps DEF Brings
    <3> QED
      BY <3>1, <3>3 DEF Awaits
  <2>8. CASE p # i
    <3>1. p \in i + 1 .. Len(members[r])
      BY <2>1, <2>4, <2>8
    <3>2. Brings(EachTask(r, i + 1, f, but), c, ty)'
      BY <3>1, <2>1, <2>2, <1>2, TaskOps DEF Brings
    <3> QED
      BY <3>2, <2>6 DEF Awaits
  <2> QED
    BY <2>7, <2>8
<1>6. ASSUME NEW t \in pending, NEW ty \in {"ROOM", "START"}, Brings(t, c, ty)
      PROVE  \/ t.op = "send" /\ t \in pending'
             \/ t.op = "each" /\ room[c] # None /\ t \in pending'
             \/ Awaits(c, ty)'
  BY <1>1, <1>4, <1>5, <1>6, BringsEach
<1> QED
  BY <1>2, <1>3, <1>6, ShowsSame

LEMMA ShowsDrop ==
  ASSUME TypeInv, SeatsInv, QuietInv, ShowsInv, broken = {}, DoDrop
  PROVE  \A c \in Clients : conn'[c] = "up" => ShowsOK(c)'
<1>1. PICK d \in Clients :
           /\ pending = {DropTask(d)} \cup below
           /\ \/ /\ conn[d] = "dead" /\ UNCHANGED <<conn, view, room, members, started>>
              \/ /\ Forget(d) /\ UNCHANGED <<room, members, started>>
              \/ /\ Forget(d)
                 /\ \E r \in Clients, rest \in Seq(Clients) :
                      /\ Leaves(d, r, rest)
                      /\ MatchEnds(d, r, rest) \/ RoomEnds(d, r, rest) \/ RoomShrinks(d, r, rest)
  BY DropStep
<1> SUFFICES ASSUME NEW c \in Clients, conn'[c] = "up" PROVE ShowsOK(c)'
  OBVIOUS
<1>2. c # d /\ conn[c] = "up" /\ view'[c] = view[c]
  BY <1>1, ForgetFacts
<1>3. ShowsOK(c)
  BY <1>2 DEF ShowsInv
<1>4. \A t \in pending, ty \in {"ROOM", "START"} : ~Brings(t, c, ty)
  <2>1. \A t \in pending : t.op \in {"drop", "register"}
    BY <1>1, QuietDrop, TaskOps
  <2> QED
    BY <2>1 DEF Brings
<1>5. ASSUME room'[c] = room[c],
             room[c] # None => /\ members'[room[c]] = members[room[c]]
                               /\ started'[room[c]] => started[room[c]]
      PROVE  ShowsOK(c)'
  BY <1>2, <1>3, <1>4, <1>5, ShowsSame
<1>6. ASSUME NEW r \in Clients, NEW rest \in Seq(Clients), Leaves(d, r, rest),
             MatchEnds(d, r, rest) \/ RoomEnds(d, r, rest) \/ RoomShrinks(d, r, rest)
      PROVE  ShowsOK(c)'
  <2>1. CASE room[c] # r
    <3>1. room'[c] = room[c]
      BY <1>2, <1>6, <2>1
         DEF MatchEnds, EndMatch, RoomEnds, Dissolve, RoomShrinks, Reseat, TypeInv
    <3>2. room[c] # None => /\ members'[room[c]] = members[room[c]]
                            /\ started'[room[c]] => started[room[c]]
      <4>1. room[c] # None => room[c] \in Clients
        BY DEF TypeInv, OrNobody
      <4> QED
        BY <4>1, <1>6, <2>1
           DEF MatchEnds, EndMatch, RoomEnds, Dissolve, RoomShrinks, Reseat, TypeInv
    <3> QED
      BY <3>1, <3>2, <1>5
  <2>2. CASE room[c] = r /\ MatchEnds(d, r, rest)
    <3>1. view[c].active
      <4>1. Playing(c)
        BY <2>2, NoneAssumption DEF MatchEnds, Playing
      <4>2. InMatch(c)
        BY <4>1, <1>3, <1>4 DEF ShowsOK, Awaits
      <4> QED
        BY <4>2 DEF InMatch
    <3>2. room'[c] = None
      BY <2>2 DEF MatchEnds, EndMatch
    <3> QED
      BY <3>1, <3>2, <1>2 DEF ShowsOK, Playing
  <2>3. CASE room[c] = r /\ RoomEnds(d, r, rest)
    <3>1. c \in ToSet(rest)
      BY <1>2, <1>6, <2>3 DEF Leaves
    <3>2. SendTask(c, RoomFrame(<<>>)) \in pending'
      BY <3>1, <2>3 DEF RoomEnds
    <3>3. Awaits(c, "ROOM")'
      <4>1. Brings(SendTask(c, RoomFrame(<<>>)), c, "ROOM")'
        BY TaskOps, FrameKinds DEF Brings
      <4> QED
        BY <3>2, <4>1 DEF Awaits
    <3>4. room'[c] = None
      BY <2>3 DEF RoomEnds, Dissolve
    <3> QED
      BY <3>3, <3>4 DEF ShowsOK, Playing
  <2>4. CASE room[c] = r /\ RoomShrinks(d, r, rest)
    <3>1. c \in ToSet(rest)
      BY <1>2, <1>6, <2>4 DEF Leaves
    <3>2. /\ room'[c] = r /\ members'[r] = rest /\ ~started'[r]
          /\ ToSet(Announce(r, rest, RoomFrame(rest), None)) \subseteq pending'
      BY <1>2, <2>4 DEF RoomShrinks, Reseat, TypeInv
    <3>3. RoomFrame(rest) \in Frames /\ RoomFrame(rest).type = "ROOM"
      BY FrameTypes, FrameKinds DEF Rosters
    <3>4. Awaits(c, "ROOM")'
      BY <3>1, <3>2, <3>3, AnnounceReaches
    <3> QED
      BY <3>2, <3>4 DEF ShowsOK, Playing
  <2> QED
    BY <1>6, <2>1, <2>2, <2>3, <2>4
<1> QED
  BY <1>1, <1>5, <1>6

(* A match begins: every member is on the way to its START.                *)
LEMMA ShowsStart ==
  ASSUME TypeInv, SeatsInv, ShowsInv, broken = {}, NEW r \in Clients, Starts(r), ~Clearing(r),
         UNCHANGED <<conn, view, room, members>>,
         \A t \in pending : t.op \notin {"send", "each"}
  PROVE  \A c \in Clients : conn'[c] = "up" => ShowsOK(c)'
<1> SUFFICES ASSUME NEW c \in Clients, conn[c] = "up" PROVE ShowsOK(c)'
  OBVIOUS
<1>1. ShowsOK(c)
  BY DEF ShowsInv
<1>2. \A t \in pending, ty \in {"ROOM", "START"} : ~Brings(t, c, ty)
  BY DEF Brings
<1>3. started' = [started EXCEPT ![r] = TRUE]
  BY DEF Starts
<1>4. CASE room[c] # r
  <2>1. room[c] # None => started'[room[c]] = started[room[c]]
    BY <1>3, <1>4 DEF TypeInv, OrNobody
  <2> QED
    BY <2>1, <1>1, <1>2, ShowsSame
<1>5. CASE room[c] = r
  <2>1. c \in ToSet(members[r])
    BY <1>5 DEF SeatsInv, SeatOK, Seated
  <2>2. /\ members[r] \in Seq(Clients) /\ StartFrame(members[r]) \in Frames
        /\ StartFrame(members[r]).type = "START"
    BY FrameTypes, FrameKinds DEF TypeInv, Rosters
  <2>3. PICK ms \in Seq(Clients) : ms = members[r] /\ members'[r] = ms
    BY <2>2
  <2>4. ToSet(Announce(r, ms, StartFrame(ms), None)) \subseteq pending'
    BY <2>3 DEF Starts
  <2>5. Awaits(c, "START")'
    BY <2>1, <2>2, <2>3, <2>4, <1>5, AnnounceReaches
  <2>6. Shows(c)' <=> Shows(c)
    BY DEF Shows
  <2>7. ~view'[c].active => Shows(c)'
    BY <2>6, <1>1, <1>2 DEF ShowsOK, Awaits
  <2> QED
    BY <2>5, <2>7 DEF ShowsOK
<1> QED
  BY <1>4, <1>5

LEMMA ShowsJoin ==
  ASSUME TypeInv, ShowsInv, broken = {}, pending = {}, NEW c \in Clients, NEW t \in Clients,
         NEW r \in Clients, NEW ms \in Seq(Clients), Enters(c, t, r, ms),
         UNCHANGED <<conn, view, started>>
  PROVE  \A x \in Clients : conn'[x] = "up" => ShowsOK(x)'
<1> SUFFICES ASSUME NEW x \in Clients, conn[x] = "up" PROVE ShowsOK(x)'
  OBVIOUS
<1>1. ShowsOK(x)
  BY DEF ShowsInv
<1>2. /\ room' = [room EXCEPT ![t] = r, ![c] = r] /\ members' = [members EXCEPT ![r] = ms]
      /\ room[c] = None /\ room[t] \in {None, r} /\ ~started[r]
      /\ ToSet(Announce(r, ms, RoomFrame(ms), None)) \subseteq pending'
  BY DEF Enters
<1>3. CASE room'[x] = r
  <2>1. x \in ToSet(ms)
    BY <1>3 DEF Enters
  <2>2. RoomFrame(ms) \in Frames /\ RoomFrame(ms).type = "ROOM" /\ members'[r] = ms
    BY <1>2, FrameTypes, FrameKinds DEF Rosters, TypeInv
  <2>3. Awaits(x, "ROOM")'
    <3>1. Awaits(x, RoomFrame(ms).type)'
      BY <2>1, <2>2, <1>2, <1>3, AnnounceReaches
    <3> QED
      BY <3>1, <2>2
  <2> QED
    BY <2>3, <1>2, <1>3 DEF ShowsOK, Playing
<1>4. CASE room'[x] # r
  <2>1. room'[x] = room[x]
    BY <1>2, <1>4 DEF TypeInv
  <2>2. room[x] # None => members'[room[x]] = members[room[x]]
    BY <1>2, <1>4, <2>1 DEF TypeInv, OrNobody
  <2> QED
    BY <2>1, <2>2, <1>1, ShowsSame
<1> QED
  BY <1>3, <1>4

LEMMA ShowsNext ==
  ASSUME TypeInv, LastInv, SeatsInv, UpInv, NewInv, QuietInv, RightInv, ShowsInv,
         UNCHANGED server, Drain \/ Event
  PROVE  ShowsInv'
<1> SUFFICES ASSUME broken' = {} PROVE \A c \in Clients : conn'[c] = "up" => ShowsOK(c)'
  BY DEF ShowsInv
<1>1. broken = {}
  BY SoundBefore
<1>2. \A c \in Clients : conn[c] = "up" => ShowsOK(c)
  BY <1>1 DEF ShowsInv
<1>k. ASSUME UNCHANGED <<conn, view, room, members, started>>,
             \A t \in pending : t.op \in {"send", "each"} => t \in pending'
      PROVE  \A c \in Clients : conn'[c] = "up" => ShowsOK(c)'
  <2> SUFFICES ASSUME NEW c \in Clients, conn[c] = "up" PROVE ShowsOK(c)'
    BY <1>k
  <2>1. ShowsOK(c)
    BY <1>2
  <2>2. ASSUME NEW t \in pending, NEW ty \in {"ROOM", "START"}, Brings(t, c, ty)
        PROVE  \/ t.op = "send" /\ t \in pending'
               \/ t.op = "each" /\ room[c] # None /\ t \in pending'
    BY <2>2, <1>k, BringsEach
  <2> QED
    BY <2>1, <2>2, <1>k, ShowsSame
<1>3. CASE DoSend
  BY <1>1, <1>3, ShowsSend
<1>4. CASE DoEach
  BY <1>1, <1>4, ShowsEach
<1>5. CASE DoDrop
  BY <1>1, <1>5, ShowsDrop
<1>6. CASE DoClear
  <2>1. PICK r \in Clients :
           /\ pending = {ClearTask(r)} \cup below /\ pending' = below
           /\ members' = [members EXCEPT ![r] = <<>>]
    BY <1>6, ClearStep
  <2>2. UNCHANGED <<conn, view, room, started>>
    BY <1>6 DEF DoClear
  <2>3. \A c \in Clients : room[c] # r
    BY <2>1 DEF SeatsInv, SeatOK, Cleared, Clearing
  <2> SUFFICES ASSUME NEW c \in Clients, conn[c] = "up" PROVE ShowsOK(c)'
    BY <2>2
  <2>4. ShowsOK(c)
    BY <1>2
  <2>5. room[c] # None => members'[room[c]] = members[room[c]]
    BY <2>1, <2>3 DEF TypeInv, OrNobody
  <2>6. ASSUME NEW t \in pending, NEW ty \in {"ROOM", "START"}, Brings(t, c, ty)
        PROVE  \/ t.op = "send" /\ t \in pending'
               \/ t.op = "each" /\ room[c] # None /\ t \in pending'
    <3>1. t.op = "each" => room[c] # None
      BY <2>6, BringsEach
    <3>2. t.op \in {"send", "each"}
      BY <2>6 DEF Brings
    <3> QED
      BY <3>1, <3>2, <2>1, TaskOps
  <2> QED
    BY <2>2, <2>4, <2>5, <2>6, ShowsSame
<1>7. CASE DoPublish
  <2>1. pending = {PublishTask} \cup below /\ pending' = below
    BY <1>7, PublishStep
  <2>2. UNCHANGED <<conn, view, room, members, started>>
    BY <1>7 DEF DoPublish
  <2> QED
    BY <2>1, <2>2, <1>k, TaskOps
<1>8. CASE DoRegister
  <2>1. \A t \in pending : t.op = "register"
    BY <1>8, RegisterStep, TaskOps
  <2>2. UNCHANGED <<conn, view, room, members, started>>
    BY <1>8 DEF DoRegister
  <2>3. \A t \in pending : t.op \notin {"send", "each"}
    BY <2>1
  <2> QED
    BY <2>2, <2>3, <1>k
<1>9. CASE DoAutoGo
  <2>1. PICK r \in Clients :
           /\ pending = {AutoGoTask(r)}
           /\ UNCHANGED started \/ Starts(r)
    BY <1>9, AutoGoStep
  <2>2. UNCHANGED <<conn, view, room, members>>
    BY <1>9 DEF DoAutoGo
  <2>3. ~Clearing(r) /\ \A t \in pending : t.op \notin {"send", "each"}
    BY <2>1, TaskOps DEF Clearing
  <2>4. CASE UNCHANGED started
    BY <2>2, <2>3, <2>4, <1>k
  <2>5. CASE Starts(r)
    BY <2>2, <2>3, <2>5, <1>1, ShowsStart
  <2> QED
    BY <2>1, <2>4, <2>5
<1>10. CASE Event
  <2>1. PICK c \in Clients : Begun(c)
    BY <1>10, EventStep
  <2>2. pending = {}
    BY <1>10, EventStep, IdleFacts
  <2>3. CASE Accepts(c)
    <3>1. UNCHANGED <<view, room, members, started>>
      BY <2>3 DEF Accepts
    <3> SUFFICES ASSUME NEW x \in Clients, conn'[x] = "up" PROVE ShowsOK(x)'
      OBVIOUS
    <3>2. CASE x = c
      <4>1. view'[x] = NoView /\ conn[x] = "new"
        BY <3>1, <3>2, <2>3 DEF Accepts, NewInv
      <4>2. room'[x] = None
        BY <4>1, <3>1, <1>1 DEF UpInv, Sound
      <4> QED
        BY <4>1, <4>2, NoViewFacts DEF ShowsOK, Playing, Shows
    <3>3. CASE x # c
      <4>1. conn[x] = "up"
        BY <2>3, <3>3 DEF Accepts, TypeInv
      <4>2. ShowsOK(x)
        BY <4>1, <1>2
      <4> QED
        BY <4>2, <3>1, <2>2, ShowsSame
    <3> QED
      BY <3>2, <3>3
  <2>4. CASE Breaks(c)
    BY <2>4 DEF Breaks
  <2>5. CASE Replies(c) \/ Hangs(c) \/ \E n \in Names : Hellos(c, n)
    <3>1. UNCHANGED <<conn, view, room, members, started>>
      BY <2>5 DEF Replies, Hangs, Hellos, Steady
    <3> QED
      BY <3>1, <2>2, <1>k
  <2>6. ASSUME NEW r \in Clients, Relays(c, r)
        PROVE  \A x \in Clients : conn'[x] = "up" => ShowsOK(x)'
    BY <2>2, <2>6, <1>k DEF Relays, Steady
  <2>7. ASSUME NEW r \in Clients, Goes(c, r)
        PROVE  \A x \in Clients : conn'[x] = "up" => ShowsOK(x)'
    BY <2>2, <2>7, <1>1, ShowsStart DEF Goes, Steady, Clearing
  <2>8. ASSUME NEW t \in Clients, NEW r \in Clients, NEW ms \in Seq(Clients), Joins(c, t, r, ms)
        PROVE  \A x \in Clients : conn'[x] = "up" => ShowsOK(x)'
    BY <2>2, <2>8, <1>1, ShowsJoin DEF Joins, Steady
  <2> QED
    BY <2>1, <2>3, <2>4, <2>5, <2>6, <2>7, <2>8 DEF Begun
<1> QED
  BY <1>3, <1>4, <1>5, <1>6, <1>7, <1>8, <1>9, <1>10 DEF Drain
-----------------------------------------------------------------------------
(* The inductive invariant.                                                *)

IInv ==
  /\ TypeInv /\ LastInv /\ SeatsInv /\ UpInv /\ TableInv /\ CallerInv
  /\ CountInv /\ BoundInv /\ NewInv /\ EachInv /\ ToldInv
  /\ QuietInv /\ RightInv /\ ShowsInv

LEMMA InitIInv == Init => IInv
<1> SUFFICES ASSUME Init PROVE IInv
  OBVIOUS
<1>1. TypeInv /\ LastInv /\ SeatsInv
  BY InitTypes, InitSeats
<1>2. /\ pending = {} /\ Len(agenda) = 0 /\ published = 0 /\ broken = {}
      /\ \A c \in Clients : conn[c] = "new" /\ name[c] = None /\ room[c] = None /\ view[c] = NoView
      /\ \A n \in Names : byName[n] = None
  BY IdleFacts DEF Init, idle
<1>3. UpInv /\ TableInv /\ CallerInv /\ NewInv /\ EachInv
  BY <1>2 DEF UpInv, TableInv, CallerInv, NewInv, EachInv
<1>4. ToldInv
  BY <1>2 DEF ToldInv, ToldOK
<1>5. CountInv
  <2> DEFINE S == {n \in Names : byName[n] # None}
  <2>1. S = {}
    BY <1>2
  <2>2. Cardinality(S) = 0
    BY <2>1, FS_EmptySet
  <2> QED
    BY <2>2, <1>2 DEF CountInv, Players
<1>6. BoundInv
  <2>1. Cardinality(dead) \in Nat /\ Allowance(Cardinality(dead)) \in Nat
    BY <1>1, DeadFacts, AllowanceFacts
  <2>2. Slack(agenda) \in {0, 1}
    BY DEF Slack
  <2>3. published <= Cardinality(Names)
    BY <1>2, PlayersFacts
  <2> QED
    BY <1>2, <2>1, <2>2, <2>3, BoundHolds
<1>7. QuietInv /\ RightInv
  BY <1>2 DEF QuietInv, RightInv
<1>8. ShowsInv
  <2>1. ASSUME NEW c \in Clients PROVE ShowsOK(c)
    BY <1>2, NoViewFacts DEF ShowsOK, Playing, Shows
  <2> QED
    BY <2>1 DEF ShowsInv
<1> QED
  BY <1>1, <1>3, <1>4, <1>5, <1>6, <1>7, <1>8 DEF IInv

LEMMA StepParts == Step <=> Drain \/ Event
BY DEF Step, Drain, Event

LEMMA Inductive == IInv /\ [Next]_vars => IInv'
<1> SUFFICES ASSUME IInv, [Next]_vars PROVE IInv'
  OBVIOUS
<1> USE DEF IInv
<1>1. CASE Next
  <2>1. UNCHANGED server /\ (Drain \/ Event)
    BY <1>1, StepParts DEF Next
  <2>2. TypeInv' /\ LastInv'
    BY <2>1, DrainTypes, EventTypes DEF Drain
  <2>3. SeatsInv'
    BY <2>1, DrainSeats, EventSeats
  <2>4. UpInv' /\ TableInv' /\ CallerInv'
    BY <2>1, UpNext, TableNext, CallerNext
  <2>5. CountInv' /\ BoundInv' /\ NewInv'
    BY <2>1, CountNext, BoundNext, NewNext
  <2>6. EachInv' /\ ToldInv'
    BY <2>1, EachNext, ToldNext
  <2>7. QuietInv' /\ RightInv'
    BY <2>1, QuietNext, RightNext
  <2>8. ShowsInv'
    BY <2>1, ShowsNext
  <2> QED
    BY <2>2, <2>3, <2>4, <2>5, <2>6, <2>7, <2>8
<1>2. CASE UNCHANGED vars
  <2>1. /\ UNCHANGED <<server, conn, broken, name, byName, room, members, started, published>>
        /\ UNCHANGED view /\ UNCHANGED agenda
    BY <1>2 DEF vars
  <2>2. pending' = pending
    BY <2>1 DEF pending
  <2>3. TypeInv' /\ LastInv'
    BY <2>1 DEF TypeInv, LastInv
  <2>4. SeatsInv'
    BY <2>1, <2>2, SeatsKept
  <2>5. UpInv' /\ TableInv' /\ CallerInv'
    BY <2>1, <2>2 DEF UpInv, TableInv, CallerInv, Sound
  <2>6. CountInv' /\ NewInv' /\ EachInv'
    BY <2>1, <2>2 DEF CountInv, NewInv, EachInv, Players
  <2>7. BoundInv'
    BY <2>1 DEF BoundInv, dead, idle
  <2>8. ToldInv'
    BY <2>1, <2>2 DEF ToldInv, ToldOK, Told, Called, Playing
  <2>9. QuietInv'
    BY <2>1, <2>2 DEF QuietInv
  <2>10. /\ \A t : RightTask(t)' <=> RightTask(t)
         /\ \A c, ty : Awaits(c, ty)' <=> Awaits(c, ty)
    BY <2>1, <2>2 DEF RightTask, Right, RightEach, Target, Playing, Clearing, Awaits, Brings
  <2>11. RightInv'
    BY <2>1, <2>2, <2>10 DEF RightInv
  <2>12. \A c : ShowsOK(c)' <=> ShowsOK(c)
    BY <2>1, <2>10 DEF ShowsOK, Playing, InMatch, Target, Shows
  <2>13. ShowsInv'
    BY <2>1, <2>12 DEF ShowsInv
  <2> QED
    BY <2>3, <2>4, <2>5, <2>6, <2>7, <2>8, <2>9, <2>11, <2>13
<1> QED
  BY <1>1, <1>2

(* Every step of an event, from the call of its handler to the last nested *)
(* drop, keeps the invariant.                                              *)
THEOREM Invariance == Spec => []IInv
BY InitIInv, Inductive, PTL DEF Spec

(* The state keeps its types: no room outgrows MAX_SEATS, the Lobby's      *)
(* count never exceeds the names, and the nesting of sends and drops ends. *)
THEOREM TypeCorrect == Spec => []TypeOK
<1>1. IInv => TypeOK
  <2> SUFFICES ASSUME IInv PROVE TypeOK
    OBVIOUS
  <2>1. TypeInv /\ SeatsInv /\ BoundInv
    BY DEF IInv
  <2>2. ASSUME NEW r \in Clients PROVE members[r] \in BoundedSeq(Clients, MaxSeats)
    <3>1. members[r] \in Seq(Clients) /\ Len(members[r]) <= MaxSeats /\ Len(members[r]) \in Nat
      BY <2>1, LenProperties DEF TypeInv, SeatsInv, SeatOK
    <3>2. Len(members[r]) \in 0 .. MaxSeats /\ members[r] \in [1 .. Len(members[r]) -> Clients]
      BY <3>1, SeatsAssumption, LenProperties
    <3> QED
      BY <3>2 DEF BoundedSeq, SeqOf
  <2>3. published \in 0 .. Cardinality(Names)
    BY <2>1, PlayersFacts DEF TypeInv, BoundInv
  <2>4. Len(agenda) <= (MaxSeats + 2) * (Cardinality(dead) + 1) + 1
    <3> DEFINE B == Allowance(Cardinality(dead))
    <3>1. B \in Nat /\ Len(agenda) \in Nat /\ Slack(agenda) \in {0, 1}
      BY <2>1, DeadFacts, AllowanceFacts, LenProperties DEF TypeInv, Slack
    <3>2. Len(agenda) <= B + Slack(agenda)
      BY <2>1 DEF BoundInv, Allowance, Slack, idle
    <3> HIDE DEF B
    <3>3. Len(agenda) <= B + 1
      BY <3>1, <3>2
    <3> QED
      BY <3>3 DEF B, Allowance
  <2> QED
    BY <2>1, <2>2, <2>3, <2>4 DEF TypeOK, TypeInv, OrNobody
<1> QED
  BY <1>1, Invariance, PTL

(* When an event is over, a room's list and its clients' room agree,       *)
(* without doubles, and a room seats two to MAX_SEATS live clients: on the *)
(* C server whatever sends failed, on the Python server while none has     *)
(* (Sound).                                                                *)
THEOREM RoomsAreConsistent == Spec => []RoomsConsistent
<1>1. IInv => RoomsConsistent
  <2> SUFFICES ASSUME IInv, idle, Sound, NEW r \in Clients
               PROVE  /\ ToSet(members[r]) = {c \in Clients : room[c] = r}
                      /\ ToSet(members[r]) \subseteq up
                      /\ IsInjective(members[r])
                      /\ members[r] = <<>> \/ Len(members[r]) \in 2 .. MaxSeats
    BY DEF RoomsConsistent
  <2>1. Seated(r)
    BY IdleFacts DEF IInv, SeatsInv, SeatOK, Clearing
  <2>2. \A c \in Clients : room[c] = r => conn[c] = "up"
    BY NoneAssumption DEF IInv, UpInv
  <2> QED
    BY <2>1, <2>2 DEF Seated, up
<1> QED
  BY <1>1, Invariance, PTL

(* When an event is over, the Lobby was told how many names there are; and *)
(* under Sound by_name and the names of the live clients are inverse to    *)
(* each other.                                                             *)
THEOREM NamesAreLive == Spec => []NamesLive
<1>1. IInv => NamesLive
  <2> SUFFICES ASSUME IInv, idle PROVE NamesLive
    BY DEF NamesLive
  <2>1. published = Players(byName)
    BY IdleFacts DEF IInv, CountInv
  <2>2. ASSUME Sound
        PROVE  /\ \A n \in Names : byName[n] # None => byName[n] \in up /\ name[byName[n]] = n
               /\ \A c \in up : name[c] # None => byName[name[c]] = c
    <3>1. \A n \in Names : byName[n] # None => byName[n] \in Clients
      BY DEF IInv, TypeInv, OrNobody
    <3> QED
      BY <2>2, <3>1 DEF IInv, TableInv, up
  <2> QED
    BY <2>1, <2>2 DEF NamesLive
<1> QED
  BY <1>1, Invariance, PTL

(* When an event is over, no console waits in a match the server has ended *)
(* without having been told (PEER_LEFT), on either server.                 *)
THEOREM NobodyIsStranded == Spec => []NobodyStranded
<1>1. IInv => NobodyStranded
  <2> SUFFICES ASSUME IInv, idle, NEW c \in up, view[c].active, room[c] = None
               PROVE  view[c].dropped
    BY DEF NobodyStranded
  <2>1. c \in Clients /\ conn[c] = "up"
    BY DEF up
  <2>2. Called(c) /\ ~Playing(c)
    BY DEF Called, Playing
  <2>3. Told(c)
    BY <2>1, <2>2 DEF IInv, ToldInv, ToldOK
  <2> QED
    BY <2>3, IdleFacts DEF Told
<1> QED
  BY <1>1, Invariance, PTL

(* When an event is over and no send failed, every member of a started     *)
(* room plays the roster the server has, in the seat the server gave it.   *)
THEOREM MatchesAgree == Spec => []MatchAgrees
<1>1. IInv => MatchAgrees
  <2> SUFFICES ASSUME IInv, idle, broken = {}, NEW c \in up, room[c] # None, started[room[c]]
               PROVE  /\ view[c].active
                      /\ view[c].roster = members[room[c]]
                      /\ view[c].roster[view[c].seat + 1] = c
    BY DEF MatchAgrees
  <2>1. c \in Clients /\ ShowsOK(c)
    BY DEF up, IInv, ShowsInv
  <2>2. InMatch(c)
    BY <2>1, IdleFacts DEF ShowsOK, Playing, Awaits
  <2> QED
    BY <2>2 DEF InMatch, Target
<1> QED
  BY <1>1, Invariance, PTL

(* When an event is over and no send failed, a console outside a match     *)
(* shows the room the server has it in.                                    *)
THEOREM WaitingRoomsCurrent == Spec => []WaitingCurrent
<1>1. IInv => WaitingCurrent
  <2> SUFFICES ASSUME IInv, idle, broken = {}, NEW c \in up, ~view[c].active PROVE Shows(c)
    BY DEF WaitingCurrent
  <2>1. c \in Clients /\ ShowsOK(c)
    BY DEF up, IInv, ShowsInv
  <2> QED
    BY <2>1, IdleFacts DEF ShowsOK, Awaits
<1> QED
  BY <1>1, Invariance, PTL
=============================================================================
