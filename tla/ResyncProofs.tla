---------------------------- MODULE ResyncProofs ----------------------------
(* Proofs about Resync, for any seats, any delay, margin and image size:   *)
(* types, and that nobody wants a resync before something has gone wrong.  *)
EXTENDS Resync, FiniteSetTheorems, FunctionTheorems, TLAPS

LEMMA Params ==
  /\ Host \in Seats /\ D \in Nat /\ MaxTick \in Nat /\ StrayBefore \in Nat /\ MaxPush \in Nat
  /\ Margin \in Nat /\ Margin >= 1 /\ Period \in Nat /\ Period >= 1
  /\ MaxCut \in Nat /\ Summed \subseteq Chunks
  /\ CrcSlots \in Nat /\ CrcSlots >= 1 /\ K \in Nat /\ K >= 1 /\ PendMax \in Nat /\ PendMax >= 1
BY RoomAssumption, ParamAssumption DEF Chunks

-----------------------------------------------------------------------------
(* A queue of frames loses its head and gains a last element.              *)

LEMMA TailFacts ==
  ASSUME NEW S, NEW q \in Seq(S), q # <<>>
  PROVE  /\ Len(q) \in Nat /\ Len(q) >= 1
         /\ q[1] \in S /\ Head(q) = q[1]
         /\ Tail(q) \in Seq(S) /\ Len(Tail(q)) = Len(q) - 1
         /\ \A p \in 1 .. Len(Tail(q)) : Tail(q)[p] = q[p + 1] /\ p + 1 \in 1 .. Len(q)
OBVIOUS

LEMMA AppendFacts ==
  ASSUME NEW S, NEW q \in Seq(S), NEW x \in S
  PROVE  /\ Len(q) \in Nat /\ Append(q, x) \in Seq(S)
         /\ Len(Append(q, x)) = Len(q) + 1
         /\ Append(q, x)[Len(q) + 1] = x
         /\ \A p \in 1 .. Len(q) : Append(q, x)[p] = q[p]
         /\ \A p \in 1 .. Len(Append(q, x)) : p \in 1 .. Len(q) \/ p = Len(q) + 1
OBVIOUS

-----------------------------------------------------------------------------
(* Types                                                                   *)

Stems   == {Pushed(n) : n \in Nat} \cup {Own(c) : c \in Seats}
States  == [Chunks -> Stems]
Resumes == [tick : Nat, push : 0 .. MaxPush]
Sums    == [Summed -> Stems]
Frames  ==
  [type : {"INPUT"}, seat : Seats, tick : Nat, epoch : Nat]
    \cup [type : {"RESYNC_REQ", "END"}]
    \cup [type : {"BEGIN"}, resume : Resumes]
    \cup [type : {"CHUNK"}, i : Chunks, push : Nat]
    \cup [type : {"CRC"}, tick : Nat, sum : Sums]
Phases == {"entry", "top", "gate", "pump", "push", "parked"}

CrcSlot(t) == (t \div Period) % CrcSlots

(* OWN_CRC holds one record per slot.                                      *)
OnePerSlot(r) == \A x, y \in r : CrcSlot(x.tick) = CrcSlot(y.tick) => x = y

Typed ==
  /\ pc \in [Seats -> Phases]
  /\ tick \in [Seats -> Nat]
  /\ wm \in [Seats -> [Seats -> Int]]
  /\ page \in [Seats -> [Seats -> SUBSET (Nat \X Nat)]]
  /\ dropped \in [Seats -> BOOLEAN] /\ hold \in [Seats -> BOOLEAN] /\ pend \in [Seats -> BOOLEAN]
  /\ resume \in [Seats -> Resumes]
  /\ rec \in [Seats -> SUBSET [tick : Nat, sum : Sums]]
  /\ game \in [Seats -> States]
  /\ epoch \in [Seats -> 0 .. MaxPush]
  /\ down \in [Seats -> Seq(Frames)]
  /\ strayed \in BOOLEAN

(* RS_PTMO reaches its limit in the step that starts the push.             *)
Counted ==
  /\ ptmo \in 0 .. PendMax /\ pos \in 0 .. K + 1
  /\ ptmo < PendMax \/ pc[Host] = "push"

Recorded1 == \A c \in Seats : OnePerSlot(rec[c])

TypeInv == Typed /\ Counted /\ Recorded1

LEMMA WholeFacts ==
  /\ 1 \in Chunks
  /\ \A x \in Stems : Whole(x) \in States
  /\ \A x, y : Whole(x) = Whole(y) => x = y
  /\ \A g \in States : Sum(g) \in Sums
  /\ \A n \in Nat : Pushed(n) \in Stems
  /\ \A c \in Seats : Own(c) \in Stems
<1>1. 1 \in Chunks
  BY Params DEF Chunks
<1>2. \A x \in Stems : Whole(x) \in States
  BY DEF Whole, States
<1>3. ASSUME NEW x, NEW y, Whole(x) = Whole(y) PROVE x = y
  <2>1. Whole(x)[1] = x /\ Whole(y)[1] = y
    BY <1>1 DEF Whole
  <2> QED BY <1>3, <2>1
<1>4. ASSUME NEW g \in States PROVE Sum(g) \in Sums
  BY Params DEF Sum, States, Sums
<1>5. /\ \A n \in Nat : Pushed(n) \in Stems
      /\ \A c \in Seats : Own(c) \in Stems
  BY DEF Stems
<1> QED BY <1>1, <1>2, <1>3, <1>4, <1>5

LEMMA FrameFacts ==
  ASSUME NEW f \in Frames
  PROVE  /\ f.type \in {"INPUT", "RESYNC_REQ", "END", "BEGIN", "CHUNK", "CRC"}
         /\ f.type = "INPUT" => f.seat \in Seats /\ f.tick \in Nat /\ f.epoch \in Nat
         /\ f.type = "BEGIN" => f.resume \in Resumes
         /\ f.type = "CHUNK" => f.i \in Chunks /\ f.push \in Nat
         /\ f.type = "CRC" => f.tick \in Nat /\ f.sum \in Sums
BY DEF Frames

LEMMA MadeFrames ==
  /\ \A s \in Seats : \A t, e \in Nat : Input(s, t, e) \in Frames
  /\ Req \in Frames /\ End \in Frames
  /\ \A r \in Resumes : Begin(r) \in Frames
  /\ \A i \in Chunks : \A n \in Nat : Chunk(i, n) \in Frames
  /\ \A t \in Nat : \A x \in Sums : Crc(t, x) \in Frames
BY DEF Frames, Input, Req, End, Begin, Chunk, Crc

(* What Sent does to each queue.                                           *)
LEMMA SentFacts ==
  ASSUME Typed, NEW c \in Seats, NEW f \in Frames
  PROVE  /\ Sent(c, f) \in [Seats -> Seq(Frames)]
         /\ \A p \in Seats : Sent(c, f)[p] = IF p = c \/ pc[p] = "parked"
                                             THEN down[p] ELSE Append(down[p], f)
<1>1. ASSUME NEW p \in Seats PROVE down[p] \in Seq(Frames) /\ Append(down[p], f) \in Seq(Frames)
  BY AppendFacts DEF Typed
<1> QED BY <1>1 DEF Sent

(* What arrives at console c, and what becomes of the queues.              *)
LEMMA RecvFacts ==
  ASSUME Typed, NEW c \in Seats, Recv(c)
  PROVE  LET f == Head(down[c]) IN
         /\ down[c] # <<>> /\ f \in Frames /\ f = down[c][1] /\ Pumping(c) /\ OwnPump(c, f)
         /\ pc' \in [Seats -> Phases] /\ pc'[c] = (IF AtGate(c) THEN "pump" ELSE pc[c])
         /\ \A p \in Seats \ {c} : pc'[p] = pc[p]
         /\ OnInput(c, f) \/ OnCrc(c, f) \/ OnReq(c, f) \/ OnBegin(c, f) \/ OnChunk(c, f) \/ OnEnd(c, f)
         /\ dropped' = dropped
         /\ down' \in [Seats -> Seq(Frames)] /\ down'[c] = Tail(down[c])
         /\ \A p \in Seats \ {c} :
              \/ down'[p] = down[p]
              \/ /\ f.type = "CRC" /\ c # Host /\ Wanted(c, f) /\ pc[p] # "parked"
                 /\ down'[p] = Append(down[p], Req)
<1> DEFINE f == Head(down[c])
           asks == f.type = "CRC" /\ c # Host /\ Wanted(c, f)
           Q == IF asks THEN Sent(c, Req) ELSE down
<1>1. down[c] # <<>> /\ down[c] \in Seq(Frames)
  BY DEF Recv, Typed
<1>2. f \in Frames /\ f = down[c][1] /\ Tail(down[c]) \in Seq(Frames)
  BY <1>1, TailFacts
<1>3. Q \in [Seats -> Seq(Frames)] /\ Q[c] = down[c]
  <2>1. Sent(c, Req) \in [Seats -> Seq(Frames)] /\ Sent(c, Req)[c] = down[c]
    BY SentFacts, MadeFrames
  <2>2. down \in [Seats -> Seq(Frames)]
    BY DEF Typed
  <2> QED BY <2>1, <2>2
<1>4. \A p \in Seats \ {c} : Q[p] = down[p] \/ (asks /\ pc[p] # "parked" /\ Q[p] = Append(down[p], Req))
  <2>1. \A p \in Seats : Sent(c, Req)[p] = IF p = c \/ pc[p] = "parked"
                                           THEN down[p] ELSE Append(down[p], Req)
    BY SentFacts, MadeFrames
  <2> HIDE DEF asks
  <2>2. CASE asks
    BY <2>1, <2>2
  <2>3. CASE ~asks
    BY <2>3
  <2> QED BY <2>2, <2>3
<1>5. down' = [Q EXCEPT ![c] = Tail(Q[c])]
  BY DEF Recv
<1> HIDE DEF Q
<1>6. /\ down' \in [Seats -> Seq(Frames)] /\ down'[c] = Tail(down[c])
      /\ \A p \in Seats \ {c} : down'[p] = Q[p]
  BY <1>2, <1>3, <1>5
<1>7. /\ pc' \in [Seats -> Phases] /\ pc'[c] = (IF AtGate(c) THEN "pump" ELSE pc[c])
      /\ \A p \in Seats \ {c} : pc'[p] = pc[p]
  BY DEF Recv, Typed, Phases
<1> QED BY <1>1, <1>2, <1>4, <1>6, <1>7 DEF Recv

LEMMA TypeInit == Init => TypeInv
<1> SUFFICES ASSUME Init PROVE TypeInv
  OBVIOUS
<1> USE Params
<1>1. game \in [Seats -> States]
  BY WholeFacts DEF Init
<1>2. wm \in [Seats -> [Seats -> Int]] /\ page \in [Seats -> [Seats -> SUBSET (Nat \X Nat)]]
  BY DEF Init
<1>3. rec \in [Seats -> SUBSET [tick : Nat, sum : Sums]] /\ Recorded1
  BY DEF Init, NoRecords, Recorded1, OnePerSlot
<1>4. down \in [Seats -> Seq(Frames)]
  BY DEF Init
<1>5. resume \in [Seats -> Resumes] /\ epoch \in [Seats -> 0 .. MaxPush]
  BY DEF Init, Resumes
<1>6. /\ pc \in [Seats -> Phases] /\ tick \in [Seats -> Nat] /\ strayed \in BOOLEAN
      /\ dropped \in [Seats -> BOOLEAN] /\ hold \in [Seats -> BOOLEAN] /\ pend \in [Seats -> BOOLEAN]
  BY DEF Init, Phases
<1>7. Counted
  BY DEF Init, Counted
<1> QED BY <1>1, <1>2, <1>3, <1>4, <1>5, <1>6, <1>7 DEF TypeInv, Typed

(* The ring of records stays one per slot.                                 *)
LEMMA RecordedFacts ==
  ASSUME NEW r \in SUBSET [tick : Nat, sum : Sums], OnePerSlot(r),
         NEW t \in Nat, NEW x \in Sums
  PROVE  Recorded(r, t, x) \in SUBSET [tick : Nat, sum : Sums] /\ OnePerSlot(Recorded(r, t, x))
<1> DEFINE new == [tick |-> t, sum |-> x]
<1>1. new \in [tick : Nat, sum : Sums] /\ new.tick = t
  OBVIOUS
<1>2. \A y \in Recorded(r, t, x) : y = new \/ (y \in r /\ CrcSlot(y.tick) # CrcSlot(t))
  BY DEF Recorded, CrcSlot
<1> HIDE DEF new
<1>3. OnePerSlot(Recorded(r, t, x))
  BY <1>1, <1>2 DEF OnePerSlot
<1>4. Recorded(r, t, x) \in SUBSET [tick : Nat, sum : Sums]
  BY <1>1, <1>2
<1> QED BY <1>3, <1>4

LEMMA TypeRebase ==
  ASSUME TypeInv, NEW c \in Seats, Rebase(c), c = Host \/ ptmo < PendMax \/ pc'[Host] = "push"
  PROVE  /\ tick' \in [Seats -> Nat] /\ wm' \in [Seats -> [Seats -> Int]]
         /\ page' \in [Seats -> [Seats -> SUBSET (Nat \X Nat)]]
         /\ rec' \in [Seats -> SUBSET [tick : Nat, sum : Sums]] /\ Recorded1'
         /\ hold' \in [Seats -> BOOLEAN] /\ pend' \in [Seats -> BOOLEAN]
         /\ epoch' \in [Seats -> 0 .. MaxPush] /\ resume' \in [Seats -> Resumes]
         /\ ptmo' \in 0 .. PendMax /\ (ptmo' < PendMax \/ pc'[Host] = "push")
<1> USE Params
<1> DEFINE r == resume[c]
<1>0. r \in Resumes
  BY DEF TypeInv, Typed
<1>1. r \in Resumes /\ r.tick \in Nat /\ r.push \in 0 .. MaxPush /\ r.tick + D - 1 \in Int
  BY <1>0 DEF Resumes
<1>2. tick' \in [Seats -> Nat] /\ epoch' \in [Seats -> 0 .. MaxPush] /\ resume' \in [Seats -> Resumes]
  BY <1>1 DEF TypeInv, Typed, Rebase
<1>3. wm' \in [Seats -> [Seats -> Int]] /\ page' \in [Seats -> [Seats -> SUBSET (Nat \X Nat)]]
  BY <1>1 DEF TypeInv, Typed, Rebase
<1>4. hold' \in [Seats -> BOOLEAN] /\ pend' \in [Seats -> BOOLEAN]
  BY DEF TypeInv, Typed, Rebase
<1>5. rec' \in [Seats -> SUBSET [tick : Nat, sum : Sums]] /\ Recorded1'
  BY DEF TypeInv, Typed, Rebase, NoRecords, Recorded1, OnePerSlot
<1>6. ptmo' \in 0 .. PendMax /\ (ptmo' < PendMax \/ pc'[Host] = "push")
  BY DEF TypeInv, Counted, Rebase
<1> QED BY <1>2, <1>3, <1>4, <1>5, <1>6

LEMMA TypeEnterHold ==
  ASSUME TypeInv, NEW c \in Seats, NEW r \in Resumes, EnterHold(c, r)
  PROVE  /\ hold' \in [Seats -> BOOLEAN] /\ resume' \in [Seats -> Resumes]
         /\ rec' \in [Seats -> SUBSET [tick : Nat, sum : Sums]] /\ Recorded1'
BY DEF TypeInv, Typed, EnterHold, NoRecords, Recorded1, OnePerSlot

(* A push does not take frames: what the host's pump reads, it reads       *)
(* between passes.                                                         *)
LEMMA NoPumpInPush == ASSUME NEW c \in Seats, Pumping(c) PROVE pc[c] # "push" /\ pc[c] # "parked"
BY DEF Pumping

(* A CRC or a request changes no more than the pending flag and its timer. *)
LEMMA TypeHears ==
  ASSUME TypeInv, pc' \in [Seats -> Phases], down' \in [Seats -> Seq(Frames)],
         dropped' \in [Seats -> BOOLEAN], pc[Host] = "push" => pc'[Host] = "push",
         pend' \in [Seats -> BOOLEAN], ptmo' \in {ptmo, 0},
         UNCHANGED <<tick, wm, page, hold, resume, pos, rec, sim>>
  PROVE  TypeInv'
<1>1. Counted'
  BY Params DEF TypeInv, Counted
<1>2. Typed' /\ Recorded1'
  BY DEF sim, TypeInv, Typed, Recorded1
<1> QED BY <1>1, <1>2 DEF TypeInv

LEMMA TypeRecv == ASSUME TypeInv, NEW c \in Seats, Recv(c) PROVE TypeInv'
<1> USE Params
<1> DEFINE f == Head(down[c])
<1>1. /\ f \in Frames /\ pc' \in [Seats -> Phases] /\ down' \in [Seats -> Seq(Frames)]
      /\ dropped' \in [Seats -> BOOLEAN]
  BY RecvFacts DEF TypeInv, Typed
<1>2. pc[Host] = "push" => pc'[Host] = "push"
  BY RecvFacts, NoPumpInPush DEF TypeInv
<1>3. CASE OnInput(c, f)
  <2>1. f.seat \in Seats /\ f.tick \in Nat /\ f.epoch \in Nat
    BY <1>1, <1>3, FrameFacts DEF OnInput
  <2>2. wm \in [Seats -> [Seats -> Int]] /\ page \in [Seats -> [Seats -> SUBSET (Nat \X Nat)]]
    BY DEF TypeInv, Typed
  <2>3. page' \in [Seats -> [Seats -> SUBSET (Nat \X Nat)]] /\ wm' \in [Seats -> [Seats -> Int]]
    <3>1. CASE f.tick > wm[c][f.seat]
      <4> DEFINE P == page[c][f.seat] \cup {<<f.tick, f.epoch>>}
      <4>1. /\ page' = [page EXCEPT ![c][f.seat] = P]
            /\ wm' = [wm EXCEPT ![c][f.seat] = f.tick]
        BY <1>3, <3>1 DEF OnInput
      <4>2. P \in SUBSET (Nat \X Nat)
        BY <2>1, <2>2
      <4> HIDE DEF P, f
      <4> QED BY <2>1, <2>2, <4>1, <4>2
    <3>2. CASE ~(f.tick > wm[c][f.seat])
      BY <1>3, <2>2, <3>2 DEF OnInput
    <3> QED BY <3>1, <3>2
  <2>4. UNCHANGED <<tick, rsv, sim>>
    BY <1>3 DEF OnInput
  <2> HIDE DEF f
  <2> QED BY <1>1, <1>2, <2>3, <2>4 DEF rsv, sim, TypeInv, Typed, Counted, Recorded1
<1>4. CASE OnCrc(c, f)
  <2>1. pend' \in [Seats -> BOOLEAN] /\ ptmo' \in {ptmo, 0}
    BY <1>4 DEF OnCrc, TypeInv, Typed
  <2>2. UNCHANGED <<tick, wm, page, hold, resume, pos, rec, sim>>
    BY <1>4 DEF OnCrc
  <2> HIDE DEF f
  <2> QED BY <1>1, <1>2, <2>1, <2>2, TypeHears
<1>5. CASE OnReq(c, f)
  <2>1. pend' \in [Seats -> BOOLEAN] /\ ptmo' \in {ptmo, 0}
    BY <1>5 DEF OnReq, TypeInv, Typed
  <2>2. UNCHANGED <<tick, wm, page, hold, resume, pos, rec, sim>>
    BY <1>5 DEF OnReq
  <2> HIDE DEF f
  <2> QED BY <1>1, <1>2, <2>1, <2>2, TypeHears
<1>6. CASE OnBegin(c, f)
  <2>1. f.resume \in Resumes
    BY <1>1, <1>6, FrameFacts DEF OnBegin
  <2>2. EnterHold(c, f.resume) /\ UNCHANGED <<tick, wm, page, pend, ptmo, pos, sim>>
    BY <1>6 DEF OnBegin
  <2>3. /\ hold' \in [Seats -> BOOLEAN] /\ resume' \in [Seats -> Resumes]
        /\ rec' \in [Seats -> SUBSET [tick : Nat, sum : Sums]] /\ Recorded1'
    BY <2>1, <2>2, TypeEnterHold
  <2> HIDE DEF f
  <2> QED BY <1>1, <1>2, <2>2, <2>3 DEF sim, TypeInv, Typed, Counted
<1>7. CASE OnChunk(c, f)
  <2>1. f.i \in Chunks /\ Pushed(f.push) \in Stems
    BY <1>1, <1>7, FrameFacts, WholeFacts DEF OnChunk
  <2>2. game' \in [Seats -> States]
    BY <1>7, <2>1 DEF OnChunk, TypeInv, Typed, States
  <2>3. UNCHANGED <<tick, wm, page, rsv, epoch, strayed>>
    BY <1>7 DEF OnChunk
  <2> HIDE DEF f
  <2> QED BY <1>1, <1>2, <2>2, <2>3 DEF rsv, TypeInv, Typed, Counted, Recorded1
<1>8. CASE OnEnd(c, f)
  <2>0. UNCHANGED <<pos, game, strayed>>
    BY <1>8 DEF OnEnd
  <2>1. CASE Rebase(c)
    <3>1. c = Host \/ ptmo < PendMax \/ pc'[Host] = "push"
      BY <1>2 DEF TypeInv, Counted
    <3>2. /\ tick' \in [Seats -> Nat] /\ wm' \in [Seats -> [Seats -> Int]]
          /\ page' \in [Seats -> [Seats -> SUBSET (Nat \X Nat)]]
          /\ rec' \in [Seats -> SUBSET [tick : Nat, sum : Sums]] /\ Recorded1'
          /\ hold' \in [Seats -> BOOLEAN] /\ pend' \in [Seats -> BOOLEAN]
          /\ epoch' \in [Seats -> 0 .. MaxPush] /\ resume' \in [Seats -> Resumes]
          /\ ptmo' \in 0 .. PendMax /\ (ptmo' < PendMax \/ pc'[Host] = "push")
      BY <2>1, <3>1, TypeRebase
    <3> HIDE DEF f
    <3> QED BY <1>1, <2>0, <3>2 DEF TypeInv, Typed, Counted
  <2>2. CASE UNCHANGED <<tick, wm, page, hold, resume, pend, ptmo, rec, epoch>>
    <3> HIDE DEF f
    <3> QED BY <1>1, <1>2, <2>0, <2>2 DEF TypeInv, Typed, Counted, Recorded1
  <2> QED BY <1>8, <2>1, <2>2 DEF OnEnd
<1> QED BY <1>3, <1>4, <1>5, <1>6, <1>7, <1>8, RecvFacts DEF TypeInv

LEMMA TypeCapture == ASSUME TypeInv, NEW c \in Seats, Capture(c) PROVE TypeInv'
<1> USE Params
<1> DEFINE t == tick[c] + D
<1>1. t \in Nat /\ epoch[c] \in Nat
  BY DEF TypeInv, Typed
<1>2. page' \in [Seats -> [Seats -> SUBSET (Nat \X Nat)]]
  <2> DEFINE P == page[c][c] \cup {<<t, epoch[c]>>}
  <2>1. page \in [Seats -> [Seats -> SUBSET (Nat \X Nat)]] /\ page' = [page EXCEPT ![c][c] = P]
    BY DEF Capture, TypeInv, Typed
  <2>2. P \in SUBSET (Nat \X Nat)
    BY <1>1, <2>1
  <2> HIDE DEF P
  <2> QED BY <2>1, <2>2
<1>3. down' \in [Seats -> Seq(Frames)] /\ strayed' \in BOOLEAN
  <2>1. down \in [Seats -> Seq(Frames)] /\ strayed \in BOOLEAN
    BY DEF TypeInv, Typed
  <2>2. \/ down' = Sent(c, Input(c, t, epoch[c])) /\ strayed' = strayed
        \/ down' = down /\ strayed' = TRUE
    BY DEF Capture, Fault
  <2>3. Sent(c, Input(c, t, epoch[c])) \in [Seats -> Seq(Frames)]
    BY <1>1, SentFacts, MadeFrames DEF TypeInv
  <2> QED BY <2>1, <2>2, <2>3
<1>4. pc' = [pc EXCEPT ![c] = "gate"] /\ pc[c] = "top" /\ UNCHANGED <<tick, wm, dropped, rsv, game, epoch>>
  BY DEF Capture
<1>5. pc' \in [Seats -> Phases] /\ (pc[Host] = "push" => pc'[Host] = "push")
  BY <1>4 DEF TypeInv, Typed, Phases
<1> HIDE DEF t
<1> QED BY <1>2, <1>3, <1>4, <1>5 DEF rsv, TypeInv, Typed, Counted, Recorded1

(* What a tick leaves is a game state, and the report carries its sum.     *)
LEMMA RanFacts ==
  ASSUME Typed, NEW c \in Seats, NEW after \in Ran(c)
  PROVE  after \in States /\ Sum(after) \in Sums
<1>1. Whole(Own(c)) \in States /\ Right(c) \in States /\ game[c] \in States
  <2>1. epoch[c] \in Nat
    BY Params DEF Typed
  <2> QED BY <2>1, WholeFacts DEF Right, Typed
<1>2. after \in States
  BY <1>1 DEF Ran
<1> QED BY <1>2, WholeFacts

LEMMA TickSends ==
  ASSUME Typed, NEW c \in Seats, RunTick(c)
  PROVE  \E f \in Frames : f.type = "CRC" /\ (down' = Sent(c, f) \/ down' = down)
<1>1. PICK after \in Ran(c) : down' = IF tick[c] % Period = 0 THEN Sent(c, Crc(tick[c], Sum(after)))
                                                              ELSE down
  BY DEF RunTick
<1>2. Crc(tick[c], Sum(after)) \in Frames /\ Crc(tick[c], Sum(after)).type = "CRC"
  BY RanFacts, MadeFrames DEF Crc, Typed
<1> QED BY <1>1, <1>2

LEMMA TypeRunTick == ASSUME TypeInv, NEW c \in Seats, RunTick(c) PROVE TypeInv'
<1> USE Params
<1> PICK after \in Ran(c) :
      /\ game' = [game EXCEPT ![c] = after]
      /\ down' = IF tick[c] % Period = 0 THEN Sent(c, Crc(tick[c], Sum(after))) ELSE down
      /\ \/ StartPush(c)
         \/ KeepWaiting(c, IF tick[c] % Period = 0 THEN Recorded(rec[c], tick[c], Sum(after)) ELSE rec[c])
  BY DEF RunTick
<1> DEFINE t == tick[c]
           due == t % Period = 0
           r0 == IF due THEN Recorded(rec[c], t, Sum(after)) ELSE rec[c]
<1>0. /\ t \in Nat /\ rec[c] \in SUBSET [tick : Nat, sum : Sums] /\ OnePerSlot(rec[c])
      /\ epoch[c] \in 0 .. MaxPush
  BY DEF TypeInv, Typed, Recorded1
<1>1. /\ game' = [game EXCEPT ![c] = after] /\ tick' = [tick EXCEPT ![c] = t + 1]
      /\ down' = (IF due THEN Sent(c, Crc(t, Sum(after))) ELSE down)
      /\ StartPush(c) \/ KeepWaiting(c, r0)
      /\ AtGate(c) /\ UNCHANGED <<wm, page, dropped, pend, epoch, strayed>>
  BY DEF RunTick
<1>2. Sum(after) \in Sums /\ after \in States
  BY RanFacts DEF TypeInv
<1>3. r0 \in SUBSET [tick : Nat, sum : Sums] /\ OnePerSlot(r0)
  BY <1>0, <1>2, RecordedFacts
<1>4. Sent(c, Crc(t, Sum(after))) \in [Seats -> Seq(Frames)]
  BY <1>0, <1>2, SentFacts, MadeFrames DEF TypeInv
<1>5. pc[c] # "push"
  BY <1>1 DEF AtGate
<1>6. game' \in [Seats -> States] /\ tick' \in [Seats -> Nat] /\ down' \in [Seats -> Seq(Frames)]
  <2>1. down' \in [Seats -> Seq(Frames)]
    BY <1>1, <1>4 DEF TypeInv, Typed
  <2>2. game' \in [Seats -> States] /\ tick' \in [Seats -> Nat]
    BY <1>0, <1>1, <1>2 DEF TypeInv, Typed
  <2> QED BY <2>1, <2>2
<1> HIDE DEF t, due, r0
<1>7. CASE StartPush(c)
  <2> DEFINE r == [tick |-> ResumeTick(tick[c] + 1), push |-> epoch[c] + 1]
  <2>1. /\ c = Host /\ epoch[c] < MaxPush /\ pc' = [pc EXCEPT ![c] = "push"]
        /\ pos' = 0 /\ ptmo' = ptmo + 1 /\ EnterHold(c, r)
    BY <1>7 DEF StartPush
  <2>2. r \in Resumes
    BY <1>0, <2>1 DEF ResumeTick, Resumes, t
  <2> HIDE DEF r
  <2>3. /\ hold' \in [Seats -> BOOLEAN] /\ resume' \in [Seats -> Resumes]
        /\ rec' \in [Seats -> SUBSET [tick : Nat, sum : Sums]] /\ Recorded1'
    BY <2>1, <2>2, TypeEnterHold
  <2>4. pc' \in [Seats -> Phases] /\ pc'[Host] = "push"
    BY <2>1 DEF TypeInv, Typed, Phases
  <2>5. ptmo < PendMax /\ ptmo \in 0 .. PendMax
    BY <1>5, <2>1 DEF TypeInv, Counted
  <2>6. Counted'
    BY <2>1, <2>4, <2>5 DEF Counted
  <2> QED BY <1>1, <1>6, <2>3, <2>4, <2>6 DEF TypeInv, Typed
<1>8. CASE KeepWaiting(c, r0)
  <2>1. /\ pc' = [pc EXCEPT ![c] = "entry"] /\ rec' = [rec EXCEPT ![c] = r0]
        /\ UNCHANGED <<hold, resume, pos>>
        /\ ptmo' = ptmo \/ (ptmo' = ptmo + 1 /\ ptmo + 1 < PendMax)
    BY <1>8 DEF KeepWaiting
  <2>2. pc' \in [Seats -> Phases] /\ (pc[Host] = "push" => pc'[Host] = "push")
    BY <1>5, <2>1 DEF TypeInv, Typed, Phases
  <2>3. rec' \in [Seats -> SUBSET [tick : Nat, sum : Sums]] /\ Recorded1'
    BY <1>3, <2>1 DEF TypeInv, Typed, Recorded1
  <2>4. Counted'
    BY <2>1, <2>2 DEF TypeInv, Counted
  <2> QED BY <1>1, <1>6, <2>1, <2>2, <2>3, <2>4 DEF TypeInv, Typed
<1> QED BY <1>1, <1>7, <1>8

LEMMA TypePushWrite == ASSUME TypeInv, NEW c \in Seats, PushWrite(c) PROVE TypeInv'
<1> USE Params
<1> DEFINE f == IF pos = 0 THEN Begin(resume[c]) ELSE Chunk(pos, resume[c].push)
<1>1. /\ pos <= K /\ (down' = Sent(c, f) \/ down' = down) /\ pos' = pos + 1
      /\ UNCHANGED <<pc, tick, wm, page, dropped, hold, resume, pend, ptmo, rec, sim>>
  BY DEF PushWrite, Written
<1>2. pos \in 0 .. K + 1 /\ resume[c] \in Resumes /\ resume[c].push \in Nat
  BY DEF TypeInv, Typed, Counted, Resumes
<1>3. pos # 0 => pos \in Chunks
  BY <1>1, <1>2 DEF Chunks
<1>4. f \in Frames
  BY <1>2, <1>3, MadeFrames
<1> HIDE DEF f
<1>5. down' \in [Seats -> Seq(Frames)]
  <2>1. Sent(c, f) \in [Seats -> Seq(Frames)] /\ down \in [Seats -> Seq(Frames)]
    BY <1>4, SentFacts DEF TypeInv, Typed
  <2> QED BY <1>1, <2>1
<1>6. Counted'
  BY <1>1, <1>2 DEF TypeInv, Counted
<1> QED BY <1>1, <1>5, <1>6 DEF sim, TypeInv, Typed, Recorded1

LEMMA TypePushEnd == ASSUME TypeInv, NEW c \in Seats, PushEnd(c) PROVE TypeInv'
<1> USE Params
<1>1. /\ down' = Sent(c, End) \/ down' = down
      /\ pc' = [pc EXCEPT ![c] = "entry"] /\ Rebase(c)
      /\ game' = [game EXCEPT ![c] = Whole(Pushed(resume[c].push))]
      /\ UNCHANGED <<dropped, pos, strayed>>
  BY DEF PushEnd, Written
<1>2. pc' \in [Seats -> Phases] /\ (c = Host \/ ptmo < PendMax \/ pc'[Host] = "push")
  BY <1>1 DEF TypeInv, Typed, Counted, Phases
<1>3. down' \in [Seats -> Seq(Frames)]
  <2>1. Sent(c, End) \in [Seats -> Seq(Frames)] /\ down \in [Seats -> Seq(Frames)]
    BY SentFacts, MadeFrames DEF TypeInv, Typed
  <2> QED BY <1>1, <2>1
<1>4. resume[c].push \in Nat
  BY DEF TypeInv, Typed, Resumes
<1>5. game' \in [Seats -> States]
  BY <1>1, <1>4, WholeFacts DEF TypeInv, Typed
<1>6. /\ tick' \in [Seats -> Nat] /\ wm' \in [Seats -> [Seats -> Int]]
      /\ page' \in [Seats -> [Seats -> SUBSET (Nat \X Nat)]]
      /\ rec' \in [Seats -> SUBSET [tick : Nat, sum : Sums]] /\ Recorded1'
      /\ hold' \in [Seats -> BOOLEAN] /\ pend' \in [Seats -> BOOLEAN]
      /\ epoch' \in [Seats -> 0 .. MaxPush] /\ resume' \in [Seats -> Resumes]
      /\ ptmo' \in 0 .. PendMax /\ (ptmo' < PendMax \/ pc'[Host] = "push")
  BY <1>1, <1>2, TypeRebase
<1> QED BY <1>1, <1>2, <1>3, <1>5, <1>6 DEF TypeInv, Typed, Counted

LEMMA TypeStep == TypeInv /\ [Next]_vars => TypeInv'
<1> USE Params
<1> SUFFICES ASSUME TypeInv, [Next]_vars PROVE TypeInv'
  OBVIOUS
<1>1. CASE UNCHANGED vars
  BY <1>1 DEF vars, rsv, sim, TypeInv, Typed, Counted, Recorded1
<1>2. ASSUME NEW c \in Seats, EnterPass(c) PROVE TypeInv'
  <2>1. pc' \in [Seats -> Phases] /\ (pc[Host] = "push" => pc'[Host] = "push")
    BY <1>2 DEF EnterPass, TypeInv, Typed, Phases
  <2> QED BY <1>2, <2>1 DEF EnterPass, rsv, sim, TypeInv, Typed, Counted, Recorded1
<1>3. ASSUME NEW c \in Seats, Park(c) PROVE TypeInv'
  <2>1. pc' \in [Seats -> Phases] /\ (pc[Host] = "push" => pc'[Host] = "push")
    BY <1>3 DEF Park, TypeInv, Typed, Phases
  <2>2. down' \in [Seats -> Seq(Frames)]
    BY <1>3 DEF Park, TypeInv, Typed
  <2> QED BY <1>3, <2>1, <2>2 DEF Park, rsv, sim, TypeInv, Typed, Counted, Recorded1
<1>4. ASSUME NEW c \in Seats, GiveUp(c) PROVE TypeInv'
  <2>1. /\ dropped' \in [Seats -> BOOLEAN] /\ hold' \in [Seats -> BOOLEAN]
        /\ page' \in [Seats -> [Seats -> SUBSET (Nat \X Nat)]]
    BY <1>4 DEF GiveUp, TypeInv, Typed
  <2>2. UNCHANGED <<pc, tick, wm, resume, pend, ptmo, pos, rec, sim, down>>
    BY <1>4 DEF GiveUp
  <2> QED BY <2>1, <2>2 DEF sim, TypeInv, Typed, Counted, Recorded1
<1>5. ASSUME NEW c \in Seats, Stray(c) PROVE TypeInv'
  <2>1. game' \in [Seats -> States] /\ strayed' \in BOOLEAN
    <3>1. PICK i \in Chunks : game' = [game EXCEPT ![c][i] = Own(c)]
      BY <1>5 DEF Stray
    <3>2. Own(c) \in Stems /\ game \in [Seats -> States]
      BY WholeFacts DEF TypeInv, Typed
    <3>3. game' \in [Seats -> States]
      BY <3>1, <3>2 DEF States
    <3> QED BY <1>5, <3>3 DEF Stray, Fault
  <2>2. UNCHANGED <<pc, tick, wm, page, dropped, rsv, epoch, down>>
    BY <1>5 DEF Stray
  <2> QED BY <2>1, <2>2 DEF rsv, TypeInv, Typed, Counted, Recorded1
<1> QED BY <1>1, <1>2, <1>3, <1>4, <1>5, TypeRecv, TypeCapture, TypeRunTick, TypePushWrite,
           TypePushEnd DEF Next

LEMMA TypeAlways == Spec => []TypeInv
BY TypeInit, TypeStep, PTL DEF Spec

(* The pushes that have lost a write are counted.                          *)
CutInv == cut \in SUBSET Nat /\ IsFiniteSet(cut) /\ Cardinality(cut) <= MaxCut

LEMMA CutWritten ==
  ASSUME Typed, CutInv, NEW c \in Seats, NEW f, Written(c, f)
  PROVE  CutInv' /\ cut \subseteq cut'
<1>1. CASE cut' = cut
  BY <1>1 DEF CutInv
<1>2. CASE /\ Cardinality(cut) < MaxCut /\ resume[c].push \notin cut
           /\ cut' = cut \cup {resume[c].push}
  <2>1. resume[c].push \in Nat
    BY Params DEF Typed, Resumes
  <2>2. IsFiniteSet(cut') /\ Cardinality(cut') = Cardinality(cut) + 1 /\ Cardinality(cut) \in Nat
    BY <1>2, FS_AddElement, FS_CardinalityType DEF CutInv
  <2>3. Cardinality(cut') <= MaxCut
    BY <1>2, <2>2, Params
  <2>4. cut' \in SUBSET Nat /\ cut \subseteq cut'
    BY <1>2, <2>1 DEF CutInv
  <2> QED BY <2>2, <2>3, <2>4 DEF CutInv
<1> QED BY <1>1, <1>2 DEF Written

LEMMA CutStep == TypeInv /\ CutInv /\ [Next]_vars => CutInv' /\ cut \subseteq cut'
<1> SUFFICES ASSUME TypeInv, CutInv, [Next]_vars PROVE CutInv' /\ cut \subseteq cut'
  OBVIOUS
<1>1. ASSUME NEW c \in Seats, PushWrite(c) \/ PushEnd(c) PROVE CutInv' /\ cut \subseteq cut'
  BY <1>1, CutWritten DEF PushWrite, PushEnd, TypeInv
<1>2. CASE cut' = cut
  BY <1>2 DEF CutInv
<1> QED BY <1>1, <1>2 DEF Next, vars, EnterPass, Park, Recv, Capture, RunTick, GiveUp, Stray

LEMMA CutAlways == Spec => []CutInv
<1>1. Init => CutInv
  BY Params, FS_EmptySet DEF Init, CutInv
<1> QED BY <1>1, TypeAlways, CutStep, PTL DEF Spec

(* One record per slot: no more records than slots.                        *)
LEMMA FewRecords ==
  ASSUME NEW r \in SUBSET [tick : Nat, sum : Sums], OnePerSlot(r)
  PROVE  Cardinality(r) <= CrcSlots
<1> USE Params
<1> DEFINE slot == [x \in r |-> CrcSlot(x.tick)]
           top  == CrcSlots - 1
<1>1. ASSUME NEW x \in r PROVE CrcSlot(x.tick) \in 0 .. top
  <2>1. x.tick \in Nat /\ x.tick \div Period \in Nat
    OBVIOUS
  <2> QED BY <2>1 DEF CrcSlot
<1>2. slot \in [r -> 0 .. top] /\ \A x, y \in r : slot[x] = slot[y] => x = y
  BY <1>1 DEF OnePerSlot
<1>3. slot \in Injection(r, 0 .. top)
  BY <1>2, Fun_IsInj
<1>4. IsFiniteSet(0 .. top) /\ Cardinality(0 .. top) = CrcSlots
  BY FS_Interval
<1>5. Cardinality(r) <= Cardinality(0 .. top)
  BY <1>3, <1>4, FS_Injection
<1> QED BY <1>4, <1>5

(* The state is well typed, and OWN_CRC never holds more records than it   *)
(* has slots (netcode/resync.asm, RS_CRC): for any number of seats, any    *)
(* delay and any length of push.                                           *)
THEOREM TypeCorrect == Spec => []TypeOK
<1>1. ASSUME TypeInv, CutInv PROVE TypeOK
  <2>0. Stems \subseteq Tag
    BY DEF Stems, Tag, Pushed, Own
  <2>1. /\ pc \in [Seats -> {"entry", "top", "gate", "pump", "push", "parked"}]
        /\ tick \in [Seats -> Nat] /\ wm \in [Seats -> [Seats -> Int]]
        /\ {dropped, hold, pend} \subseteq [Seats -> BOOLEAN]
        /\ epoch \in [Seats -> 0 .. MaxPush] /\ strayed \in BOOLEAN
    BY <1>1 DEF TypeInv, Typed, Phases
  <2>2. \A c, s \in Seats : page[c][s] \subseteq Nat \X Nat
    BY <1>1 DEF TypeInv, Typed
  <2>3. resume \in [Seats -> [tick : Nat, push : Nat]] /\ ptmo \in 0 .. PendMax /\ pos \in 0 .. K + 1
    BY <1>1 DEF TypeInv, Typed, Counted, Resumes
  <2>4. \A c \in Seats : Cardinality(rec[c]) <= CrcSlots
    BY <1>1, FewRecords DEF TypeInv, Typed, Recorded1
  <2>5. ASSUME NEW c \in Seats, NEW p \in 1 .. Len(down[c])
        PROVE  down[c][p] \in Frame \/ (down[c][p].type = "CRC" /\ down[c][p].sum \in [Summed -> Tag])
    <3>1. down[c][p] \in Frames
      BY <1>1, <2>5 DEF TypeInv, Typed
    <3>2. Sums \subseteq [Summed -> Tag]
      BY <2>0 DEF Sums
    <3> QED BY <3>1, <3>2 DEF Frames, Frame, Resumes
  <2>6. game \in [Seats -> [Chunks -> Tag]] /\ cut \subseteq Nat /\ Cardinality(cut) <= MaxCut
    BY <1>1, <2>0 DEF TypeInv, Typed, States, CutInv
  <2> QED BY <2>1, <2>2, <2>3, <2>4, <2>5, <2>6 DEF TypeOK
<1> QED BY <1>1, TypeAlways, CutAlways, PTL

-----------------------------------------------------------------------------
(* Before anything goes wrong.  The inputs a console still expects of a    *)
(* peer are all on their way, in order, and the pages have no gap: so no   *)
(* tick runs on a hole, all game states and reports are those of the       *)
(* start, and no report can differ from a record.                          *)

IsInput(f, s) == f.type = "INPUT" /\ f.seat = s

(* The last tick a console has captured an input for.                      *)
Captured(c) == IF AtGate(c) THEN tick[c] + D ELSE tick[c] + D - 1

(* Page P has an input for every tick up to w that is not one of the first *)
(* d.                                                                      *)
Filled(P, w) == \A t \in D .. w : \E x \in P : x[1] = t

(* Queue q brings the inputs w+1 .. m of seat s, each of them, in order.   *)
Coming(q, s, w, m) ==
  /\ w <= m
  /\ \A p \in 1 .. Len(q) : IsInput(q[p], s) =>
       /\ w < q[p].tick /\ q[p].tick <= m
       /\ \A r \in 1 .. Len(q) : r < p /\ IsInput(q[r], s) => q[r].tick < q[p].tick
  /\ \A t \in w + 1 .. m : \E p \in 1 .. Len(q) : IsInput(q[p], s) /\ q[p].tick = t

Still == Whole(Pushed(0))

(* What may be on the way to console c before anything goes wrong.         *)
Harmless(c, f) ==
  \/ f.type = "CRC" /\ f.sum = Sum(Still)
  \/ f.type = "INPUT" /\ f.seat # c

Quiet(c) ==
  /\ ~pend[c] /\ ~hold[c] /\ epoch[c] = 0 /\ pc[c] \in {"entry", "top", "gate", "pump"}
  /\ game[c] = Still /\ \A x \in rec[c] : x.sum = Sum(Still)
  /\ \A p \in 1 .. Len(down[c]) : Harmless(c, down[c][p])
  /\ Filled(page[c][c], Captured(c))

Fed(c, s) ==
  /\ Filled(page[c][s], wm[c][s])
  /\ Coming(down[c], s, wm[c][s], Captured(s))

Calm ==
  /\ \A c \in Seats : Quiet(c)
  /\ \A c \in Seats : \A s \in Seats \ {c} : Fed(c, s)

CalmInv == ~strayed /\ (\A c \in Seats : ~dropped[c]) => Calm

LEMMA ComingOther ==
  ASSUME NEW q \in Seq(Frames), NEW f \in Frames, NEW s \in Seats, NEW w \in Int, NEW m \in Int,
         Coming(q, s, w, m), ~IsInput(f, s)
  PROVE  Coming(Append(q, f), s, w, m)
<1> DEFINE a == Append(q, f)
<1>1. /\ Len(q) \in Nat /\ Len(a) = Len(q) + 1 /\ a[Len(q) + 1] = f
      /\ \A p \in 1 .. Len(q) : a[p] = q[p]
      /\ \A p \in 1 .. Len(a) : p \in 1 .. Len(q) \/ p = Len(q) + 1
  BY AppendFacts
<1> HIDE DEF a
<1>2. \A p \in 1 .. Len(a) : IsInput(a[p], s) => p \in 1 .. Len(q) /\ a[p] = q[p]
  BY <1>1
<1>3. ASSUME NEW p \in 1 .. Len(a), IsInput(a[p], s)
      PROVE  /\ w < a[p].tick /\ a[p].tick <= m
             /\ \A r \in 1 .. Len(a) : r < p /\ IsInput(a[r], s) => a[r].tick < a[p].tick
  BY <1>2, <1>3 DEF Coming
<1>4. ASSUME NEW t \in w + 1 .. m PROVE \E p \in 1 .. Len(a) : IsInput(a[p], s) /\ a[p].tick = t
  <2>1. PICK p \in 1 .. Len(q) : IsInput(q[p], s) /\ q[p].tick = t
    BY <1>4 DEF Coming
  <2>2. p \in 1 .. Len(a) /\ a[p] = q[p]
    BY <1>1, <2>1
  <2> QED BY <2>1, <2>2
<1> QED BY <1>3, <1>4 DEF Coming, a

LEMMA ComingNext ==
  ASSUME NEW q \in Seq(Frames), NEW f \in Frames, NEW s \in Seats, NEW w \in Int, NEW m \in Int,
         Coming(q, s, w, m), IsInput(f, s), f.tick = m + 1
  PROVE  Coming(Append(q, f), s, w, m + 1)
<1> DEFINE a == Append(q, f)
           l == Len(q) + 1
<1>1. /\ Len(q) \in Nat /\ Len(a) = l /\ a[l] = f
      /\ \A p \in 1 .. Len(q) : a[p] = q[p] /\ p \in 1 .. Len(a)
      /\ \A p \in 1 .. Len(a) : p \in 1 .. Len(q) \/ p = l
  BY AppendFacts
<1>2. \A p \in 1 .. Len(q) : q[p].type = "INPUT" => q[p].tick \in Nat
  BY FrameFacts
<1>3. l \in 1 .. Len(a) /\ l \notin 1 .. Len(q) /\ w <= m
  BY <1>1 DEF Coming
<1> HIDE DEF a
<1>4. ASSUME NEW p \in 1 .. Len(a), IsInput(a[p], s)
      PROVE  w < a[p].tick /\ a[p].tick <= m + 1
  <2>1. CASE p = l
    BY <1>1, <1>3, <2>1
  <2>2. CASE p \in 1 .. Len(q)
    <3>1. a[p] = q[p] /\ w < q[p].tick /\ q[p].tick <= m /\ q[p].tick \in Nat
      BY <1>1, <1>2, <1>4, <2>2 DEF Coming, IsInput
    <3> QED BY <3>1
  <2> QED BY <1>1, <2>1, <2>2
<1>5. ASSUME NEW p \in 1 .. Len(a), IsInput(a[p], s), NEW r \in 1 .. Len(a), r < p, IsInput(a[r], s)
      PROVE  a[r].tick < a[p].tick
  <2>1. r \in 1 .. Len(q) /\ a[r] = q[r] /\ q[r].tick <= m /\ q[r].tick \in Nat
    BY <1>1, <1>2, <1>5 DEF Coming, IsInput
  <2>2. CASE p = l
    BY <1>1, <2>1, <2>2
  <2>3. CASE p \in 1 .. Len(q)
    BY <1>1, <1>5, <2>1, <2>3 DEF Coming
  <2> QED BY <1>1, <2>2, <2>3
<1>6. ASSUME NEW t \in w + 1 .. m + 1 PROVE \E p \in 1 .. Len(a) : IsInput(a[p], s) /\ a[p].tick = t
  <2>1. CASE t = m + 1
    BY <1>1, <1>3, <2>1
  <2>2. CASE t # m + 1
    <3>1. t \in w + 1 .. m
      BY <2>2
    <3>2. PICK p \in 1 .. Len(q) : IsInput(q[p], s) /\ q[p].tick = t
      BY <3>1 DEF Coming
    <3> QED BY <1>1, <3>2
  <2> QED BY <2>1, <2>2
<1> HIDE DEF l
<1> QED BY <1>3, <1>4, <1>5, <1>6 DEF Coming, a

LEMMA ComingTail ==
  ASSUME NEW q \in Seq(Frames), q # <<>>, NEW s \in Seats, NEW w \in Int, NEW m \in Int,
         Coming(q, s, w, m)
  PROVE  /\ ~IsInput(q[1], s) => Coming(Tail(q), s, w, m)
         /\ IsInput(q[1], s) => q[1].tick = w + 1 /\ Coming(Tail(q), s, w + 1, m)
<1> DEFINE b == Tail(q)
<1>1. /\ Len(q) \in Nat /\ Len(q) >= 1 /\ Len(b) = Len(q) - 1
      /\ \A p \in 1 .. Len(b) : b[p] = q[p + 1] /\ p + 1 \in 1 .. Len(q)
  BY TailFacts
<1>2. \A p \in 1 .. Len(q) : q[p].type = "INPUT" => q[p].tick \in Nat
  BY FrameFacts
<1>3. 1 \in 1 .. Len(q)
  BY <1>1
<1> HIDE DEF b
<1>4. ASSUME NEW p \in 1 .. Len(b), IsInput(b[p], s)
      PROVE  /\ w < b[p].tick /\ b[p].tick <= m
             /\ \A r \in 1 .. Len(b) : r < p /\ IsInput(b[r], s) => b[r].tick < b[p].tick
             /\ IsInput(q[1], s) => q[1].tick < b[p].tick
  <2>1. b[p] = q[p + 1] /\ p + 1 \in 1 .. Len(q)
    BY <1>1
  <2>2. ASSUME NEW r \in 1 .. Len(b), r < p, IsInput(b[r], s) PROVE b[r].tick < b[p].tick
    <3>1. b[r] = q[r + 1] /\ r + 1 \in 1 .. Len(q) /\ r + 1 < p + 1
      BY <1>1, <2>2
    <3> QED BY <1>4, <2>1, <2>2, <3>1 DEF Coming
  <2>3. w < b[p].tick /\ b[p].tick <= m
    BY <1>4, <2>1 DEF Coming
  <2>4. ASSUME IsInput(q[1], s) PROVE q[1].tick < b[p].tick
    <3>1. 1 < p + 1
      OBVIOUS
    <3> QED BY <1>3, <1>4, <2>1, <2>4, <3>1 DEF Coming
  <2> QED BY <2>2, <2>3, <2>4
<1>5. ASSUME NEW t \in w + 1 .. m, ~IsInput(q[1], s) \/ t # q[1].tick
      PROVE  \E p \in 1 .. Len(b) : IsInput(b[p], s) /\ b[p].tick = t
  <2>1. PICK p \in 1 .. Len(q) : IsInput(q[p], s) /\ q[p].tick = t
    BY <1>5 DEF Coming
  <2>2. p # 1
    BY <1>5, <2>1
  <2>3. p - 1 \in 1 .. Len(b) /\ b[p - 1] = q[(p - 1) + 1] /\ (p - 1) + 1 = p
    BY <1>1, <2>2
  <2> QED BY <2>1, <2>3
<1>6. ASSUME ~IsInput(q[1], s) PROVE Coming(b, s, w, m)
  BY <1>4, <1>5, <1>6 DEF Coming
<1>7. ASSUME IsInput(q[1], s) PROVE q[1].tick = w + 1 /\ Coming(b, s, w + 1, m)
  <2>1. w < q[1].tick /\ q[1].tick <= m /\ q[1].tick \in Nat
    BY <1>2, <1>3, <1>7 DEF Coming, IsInput
  <2>2. w + 1 \in w + 1 .. m
    BY <2>1
  <2>3. q[1].tick = w + 1
    <3>1. SUFFICES ASSUME q[1].tick # w + 1 PROVE FALSE
      OBVIOUS
    <3>2. PICK p \in 1 .. Len(b) : IsInput(b[p], s) /\ b[p].tick = w + 1
      BY <1>5, <2>2, <3>1
    <3>3. q[1].tick < w + 1
      BY <1>4, <1>7, <3>2
    <3> QED BY <2>1, <3>3
  <2>4. ASSUME NEW p \in 1 .. Len(b), IsInput(b[p], s) PROVE w + 1 < b[p].tick
    BY <1>4, <1>7, <2>3, <2>4
  <2>5. ASSUME NEW t \in w + 2 .. m PROVE \E p \in 1 .. Len(b) : IsInput(b[p], s) /\ b[p].tick = t
    <3>1. t \in w + 1 .. m /\ t # q[1].tick
      BY <2>3
    <3> QED BY <1>5, <3>1
  <2>6. w + 1 <= m /\ (w + 1) + 1 = w + 2
    BY <2>1
  <2>7. Coming(b, s, w + 1, m)
    BY <1>4, <2>4, <2>5, <2>6 DEF Coming
  <2> QED BY <2>3, <2>7
<1> QED BY <1>6, <1>7 DEF b

LEMMA CalmInit == Init => CalmInv
<1> SUFFICES ASSUME Init PROVE Calm
  BY DEF CalmInv
<1> USE Params
<1>1. ASSUME NEW c \in Seats PROVE Quiet(c)
  <2>1. Captured(c) = D - 1 /\ pc[c] = "entry" /\ epoch[c] = 0 /\ game[c] = Still /\ rec[c] = {}
    BY DEF Init, Captured, AtGate, Still, NoRecords
  <2>2. ~pend[c] /\ ~hold[c] /\ down[c] = <<>>
    BY DEF Init
  <2> QED BY <2>1, <2>2 DEF Quiet, Filled
<1>2. ASSUME NEW c \in Seats, NEW s \in Seats \ {c} PROVE Fed(c, s)
  <2>1. wm[c][s] = D - 1 /\ down[c] = <<>> /\ Captured(s) = D - 1
    BY DEF Init, Captured, AtGate
  <2> QED BY <2>1 DEF Fed, Filled, Coming
<1> QED BY <1>1, <1>2 DEF Calm

(* What the proofs below need of the types.                                *)
LEMMA Typings ==
  ASSUME Typed, NEW c \in Seats
  PROVE  /\ pc[c] \in Phases /\ tick[c] \in Nat /\ epoch[c] \in 0 .. MaxPush
         /\ Captured(c) \in Int /\ down[c] \in Seq(Frames) /\ Len(down[c]) \in Nat
         /\ \A s \in Seats : wm[c][s] \in Int /\ page[c][s] \in SUBSET (Nat \X Nat)
         /\ \A p \in 1 .. Len(down[c]) : down[c][p] \in Frames
<1>1. /\ pc[c] \in Phases /\ tick[c] \in Nat /\ epoch[c] \in 0 .. MaxPush
      /\ down[c] \in Seq(Frames)
      /\ \A s \in Seats : wm[c][s] \in Int /\ page[c][s] \in SUBSET (Nat \X Nat)
  BY DEF Typed
<1>2. Captured(c) \in Int
  BY <1>1, Params DEF Captured
<1> QED BY <1>1, <1>2

(* Whatever a console sends, the frame is there for each of the others to  *)
(* read: nobody is parked yet.                                             *)
LEMMA CalmSent ==
  ASSUME Typed, Calm, NEW c \in Seats, NEW f \in Frames
  PROVE  /\ Sent(c, f)[c] = down[c]
         /\ \A p \in Seats \ {c} : Sent(c, f)[p] = Append(down[p], f)
<1>1. \A p \in Seats : pc[p] # "parked"
  BY DEF Calm, Quiet
<1> QED BY <1>1, SentFacts

LEMMA HarmlessAppend ==
  ASSUME NEW c \in Seats, NEW q \in Seq(Frames), \A p \in 1 .. Len(q) : Harmless(c, q[p]),
         NEW f \in Frames, Harmless(c, f)
  PROVE  \A p \in 1 .. Len(Append(q, f)) : Harmless(c, Append(q, f)[p])
<1> DEFINE a == Append(q, f)
<1>1. /\ a[Len(q) + 1] = f /\ \A p \in 1 .. Len(q) : a[p] = q[p]
      /\ \A p \in 1 .. Len(a) : p \in 1 .. Len(q) \/ p = Len(q) + 1
  BY AppendFacts
<1> HIDE DEF a
<1>2. \A p \in 1 .. Len(a) : Harmless(c, a[p])
  BY <1>1
<1> QED BY <1>2 DEF a

LEMMA HarmlessTail ==
  ASSUME NEW c \in Seats, NEW q \in Seq(Frames), q # <<>>, \A p \in 1 .. Len(q) : Harmless(c, q[p])
  PROVE  Harmless(c, q[1]) /\ \A p \in 1 .. Len(Tail(q)) : Harmless(c, Tail(q)[p])
BY TailFacts

LEMMA CalmCapture ==
  ASSUME TypeInv, Calm, NEW c \in Seats, Capture(c), ~strayed' PROVE Calm'
<1> USE Params
<1> DEFINE t == tick[c] + D
           f == Input(c, t, epoch[c])
<1>1. /\ pc[c] = "top" /\ pc' = [pc EXCEPT ![c] = "gate"]
      /\ page' = [page EXCEPT ![c][c] = page[c][c] \cup {<<t, epoch[c]>>}]
      /\ down' = Sent(c, f)
      /\ UNCHANGED <<tick, wm, dropped, rsv, game, epoch>>
  BY DEF Capture, Fault
<1>2. Typed /\ epoch[c] = 0
  BY DEF TypeInv, Calm, Quiet
<1>3. f \in Frames /\ f.type = "INPUT" /\ f.seat = c /\ f.tick = t /\ t \in Nat
  <2>1. t \in Nat /\ epoch[c] \in Nat
    BY <1>2, Typings
  <2>2. f \in Frames
    BY <2>1, MadeFrames
  <2> QED BY <2>1, <2>2 DEF Input
<1> HIDE DEF f
<1>4. Captured(c) = t - 1 /\ Captured(c)' = t
  BY <1>1, <1>2, Typings DEF Captured, AtGate, Typed
<1>5. \A s \in Seats \ {c} : Captured(s)' = Captured(s)
  <2>1. ASSUME NEW s \in Seats \ {c} PROVE pc'[s] = pc[s] /\ tick'[s] = tick[s]
    BY <1>1, <1>2 DEF Typed
  <2> QED BY <2>1 DEF Captured, AtGate
<1>6. /\ page'[c][c] = page[c][c] \cup {<<t, epoch[c]>>}
      /\ \A p, s \in Seats : p # c \/ s # c => page'[p][s] = page[p][s]
  BY <1>1, <1>2 DEF Typed
<1>7. /\ down'[c] = down[c]
      /\ \A p \in Seats \ {c} : down'[p] = Append(down[p], f)
  BY <1>1, <1>2, <1>3, CalmSent
<1> HIDE DEF t
<1>8. ASSUME NEW p \in Seats PROVE Quiet(p)'
  <2>1. Quiet(p)
    BY DEF Calm
  <2>2. /\ ~pend'[p] /\ ~hold'[p] /\ epoch'[p] = 0 /\ pc'[p] \in {"entry", "top", "gate", "pump"}
        /\ game'[p] = Still /\ \A x \in rec'[p] : x.sum = Sum(Still)
    BY <1>1, <1>2, <2>1 DEF Quiet, rsv, Typed
  <2>3. \A i \in 1 .. Len(down'[p]) : Harmless(p, down'[p][i])
    <3>1. CASE p = c
      BY <1>7, <2>1, <3>1 DEF Quiet
    <3>2. CASE p # c
      <4>1. Harmless(p, f)
        BY <1>3, <3>2 DEF Harmless
      <4>2. down[p] \in Seq(Frames)
        BY <1>2, Typings
      <4>3. \A i \in 1 .. Len(down[p]) : Harmless(p, down[p][i])
        BY <2>1 DEF Quiet
      <4> QED BY <1>3, <1>7, <3>2, <4>1, <4>2, <4>3, HarmlessAppend
    <3> QED BY <3>1, <3>2
  <2>4. Filled(page'[p][p], Captured(p)')
    <3>1. CASE p = c
      <4>1. Filled(page[c][c], t - 1) /\ Captured(p)' = t
        BY <1>4, <2>1, <3>1 DEF Quiet
      <4>2. \A u \in D .. t : u \in D .. t - 1 \/ u = t
        BY <1>3
      <4>3. <<t, epoch[c]>> \in page'[c][c] /\ <<t, epoch[c]>>[1] = t
        BY <1>6
      <4>4. Filled(page'[c][c], t)
        BY <1>6, <4>1, <4>2, <4>3 DEF Filled
      <4> QED BY <3>1, <4>1, <4>4
    <3>2. CASE p # c
      BY <1>5, <1>6, <2>1, <3>2 DEF Quiet
    <3> QED BY <3>1, <3>2
  <2> QED BY <2>2, <2>3, <2>4 DEF Quiet
<1>9. ASSUME NEW p \in Seats, NEW s \in Seats \ {p} PROVE Fed(p, s)'
  <2>1. Filled(page[p][s], wm[p][s]) /\ Coming(down[p], s, wm[p][s], Captured(s))
    BY DEF Calm, Fed
  <2>2. page'[p][s] = page[p][s] /\ wm'[p][s] = wm[p][s]
    BY <1>1, <1>6
  <2>3. down[p] \in Seq(Frames) /\ wm[p][s] \in Int /\ Captured(s) \in Int
    BY <1>2, Typings
  <2>4. Coming(down'[p], s, wm[p][s], Captured(s)')
    <3>1. CASE p = c
      BY <1>5, <1>7, <2>1, <3>1
    <3>2. CASE s = c
      <4>1. IsInput(f, s) /\ f.tick = Captured(s) + 1
        BY <1>3, <1>4, <3>2 DEF IsInput
      <4>2. Captured(s)' = Captured(s) + 1 /\ down'[p] = Append(down[p], f)
        BY <1>3, <1>4, <1>7, <3>2
      <4> QED BY <1>3, <2>1, <2>3, <4>1, <4>2, ComingNext
    <3>3. CASE p # c /\ s # c
      <4>1. ~IsInput(f, s)
        BY <1>3, <3>3 DEF IsInput
      <4> QED BY <1>3, <1>5, <1>7, <2>1, <2>3, <3>3, <4>1, ComingOther
    <3> QED BY <3>1, <3>2, <3>3
  <2> QED BY <2>1, <2>2, <2>4 DEF Fed
<1> QED BY <1>8, <1>9 DEF Calm

(* At an open gate every input of the tick is there: no tick runs on a     *)
(* hole, and its report says what all the others say.                      *)
LEMMA CalmTick ==
  ASSUME TypeInv, Calm, NEW c \in Seats, AtGate(c), GateOpen(c), ~dropped[c]
  PROVE  ~Hole(c) /\ Ran(c) = {Still}
<1> USE Params
<1> DEFINE t == tick[c]
<1>1. Typed /\ t \in Nat /\ Captured(c) = t + D
  BY Typings DEF TypeInv, Captured
<1>2. ASSUME t >= D, NEW s \in Seats PROVE \E x \in page[c][s] : x[1] = t
  <2>1. CASE s = c
    <3>1. Filled(page[c][c], t + D) /\ t \in D .. t + D
      BY <1>1, <1>2 DEF Calm, Quiet
    <3> HIDE DEF t
    <3> QED BY <2>1, <3>1 DEF Filled
  <2>2. CASE s # c
    <3>1. Filled(page[c][s], wm[c][s]) /\ wm[c][s] >= t /\ wm[c][s] \in Int
      BY <1>1, <2>2, Typings DEF Calm, Fed, GateOpen
    <3>2. t \in D .. wm[c][s]
      BY <1>1, <1>2, <3>1
    <3> HIDE DEF t
    <3> QED BY <3>1, <3>2 DEF Filled
  <2> QED BY <2>1, <2>2
<1>3. ~Hole(c)
  BY <1>2 DEF Hole
<1>4. game[c] = Still /\ Right(c) = Still
  BY DEF Calm, Quiet, Still, Right
<1> QED BY <1>3, <1>4 DEF Ran

LEMMA CalmRunTick ==
  ASSUME TypeInv, Calm, NEW c \in Seats, RunTick(c), ~dropped[c] PROVE Calm'
<1> USE Params
<1> DEFINE t == tick[c]
           due == t % Period = 0
           f == Crc(t, Sum(Still))
           r0 == IF due THEN Recorded(rec[c], t, Sum(Still)) ELSE rec[c]
<1>1. AtGate(c) /\ GateOpen(c) /\ Typed /\ Ran(c) = {Still}
  BY CalmTick DEF RunTick, TypeInv
<1>2. Quiet(c) /\ t \in Nat
  BY <1>1, Typings DEF Calm
<1>3. /\ game' = [game EXCEPT ![c] = Still] /\ tick' = [tick EXCEPT ![c] = t + 1]
      /\ down' = (IF due THEN Sent(c, f) ELSE down)
      /\ KeepWaiting(c, r0)
      /\ UNCHANGED <<wm, page, dropped, pend, epoch, strayed>>
  BY <1>1, <1>2 DEF RunTick, StartPush, Quiet
<1>4. /\ pc' = [pc EXCEPT ![c] = "entry"] /\ rec' = [rec EXCEPT ![c] = r0]
      /\ UNCHANGED <<hold, resume, pos>>
  BY <1>3 DEF KeepWaiting
<1>5. f \in Frames /\ f.type = "CRC" /\ f.sum = Sum(Still)
  <2>1. Sum(Still) \in Sums
    BY WholeFacts DEF Still
  <2> QED BY <1>2, <2>1, MadeFrames DEF Crc
<1>6. /\ down'[c] = down[c]
      /\ \A p \in Seats \ {c} : down'[p] = down[p] \/ down'[p] = Append(down[p], f)
  BY <1>1, <1>3, <1>5, CalmSent
<1>7. \A x \in r0 : x.sum = Sum(Still)
  BY <1>2 DEF Recorded, Quiet
<1> HIDE DEF f, due, r0
<1>8. \A s \in Seats : Captured(s)' = Captured(s)
  <2>1. Captured(c) = t + D
    BY <1>1 DEF Captured
  <2>2. Captured(c)' = t + 1 + D - 1
    BY <1>1, <1>3, <1>4 DEF Captured, AtGate, Typed
  <2>3. Captured(c)' = Captured(c)
    BY <1>2, <2>1, <2>2
  <2>4. ASSUME NEW s \in Seats \ {c} PROVE pc'[s] = pc[s] /\ tick'[s] = tick[s]
    BY <1>1, <1>3, <1>4 DEF Typed
  <2>5. ASSUME NEW s \in Seats \ {c} PROVE Captured(s)' = Captured(s)
    BY <2>4 DEF Captured, AtGate
  <2> QED BY <2>3, <2>5
<1> HIDE DEF t
<1>9. ASSUME NEW p \in Seats PROVE Quiet(p)'
  <2>1. Quiet(p) /\ down[p] \in Seq(Frames)
    BY <1>1, Typings DEF Calm
  <2>2. /\ ~pend'[p] /\ ~hold'[p] /\ epoch'[p] = 0 /\ pc'[p] \in {"entry", "top", "gate", "pump"}
        /\ game'[p] = Still
    BY <1>1, <1>3, <1>4, <2>1 DEF Quiet, Typed
  <2>3. \A x \in rec'[p] : x.sum = Sum(Still)
    BY <1>1, <1>4, <1>7, <2>1 DEF Quiet, Typed
  <2>4. Harmless(p, f) /\ \A i \in 1 .. Len(down[p]) : Harmless(p, down[p][i])
    BY <1>5, <2>1 DEF Quiet, Harmless
  <2>5. \A i \in 1 .. Len(down'[p]) : Harmless(p, down'[p][i])
    BY <1>5, <1>6, <2>1, <2>4, HarmlessAppend
  <2>6. Filled(page'[p][p], Captured(p)')
    BY <1>3, <1>8, <2>1 DEF Quiet
  <2> QED BY <2>2, <2>3, <2>5, <2>6 DEF Quiet
<1>10. ASSUME NEW p \in Seats, NEW s \in Seats \ {p} PROVE Fed(p, s)'
  <2>1. Filled(page[p][s], wm[p][s]) /\ Coming(down[p], s, wm[p][s], Captured(s))
    BY DEF Calm, Fed
  <2>2. page' = page /\ wm' = wm
    BY <1>3
  <2>3. down[p] \in Seq(Frames) /\ wm[p][s] \in Int /\ Captured(s) \in Int
    BY <1>1, Typings
  <2>4. ~IsInput(f, s)
    BY <1>5 DEF IsInput
  <2>5. Coming(down'[p], s, wm[p][s], Captured(s))
    BY <1>5, <1>6, <2>1, <2>3, <2>4, ComingOther
  <2> QED BY <1>8, <2>1, <2>2, <2>5 DEF Fed
<1> QED BY <1>9, <1>10 DEF Calm

LEMMA CalmRecv ==
  ASSUME TypeInv, Calm, NEW c \in Seats, Recv(c) PROVE Calm'
<1> USE Params
<1> DEFINE f == Head(down[c])
<1>1. Typed /\ Quiet(c) /\ down[c] \in Seq(Frames) /\ down[c] # <<>>
  BY RecvFacts, Typings DEF TypeInv, Calm
<1>2. /\ f \in Frames /\ f = down[c][1]
      /\ pc' \in [Seats -> Phases] /\ pc'[c] = (IF AtGate(c) THEN "pump" ELSE pc[c])
      /\ \A p \in Seats \ {c} : pc'[p] = pc[p]
      /\ OnInput(c, f) \/ OnCrc(c, f) \/ OnReq(c, f) \/ OnBegin(c, f) \/ OnChunk(c, f) \/ OnEnd(c, f)
      /\ down'[c] = Tail(down[c])
      /\ \A p \in Seats \ {c} : down'[p] = down[p] \/ (f.type = "CRC" /\ Wanted(c, f))
  BY <1>1, RecvFacts
<1>3. Harmless(c, f) /\ \A i \in 1 .. Len(down'[c]) : Harmless(c, down'[c][i])
  BY <1>1, <1>2, HarmlessTail DEF Quiet
<1>4. f.type = "CRC" => ~Wanted(c, f)
  BY <1>1, <1>3 DEF Wanted, Quiet, Harmless
<1>5. \A p \in Seats \ {c} : down'[p] = down[p]
  BY <1>2, <1>4
<1>6. \/ OnInput(c, f)
      \/ ~IsInput(f, c) /\ f.type = "CRC" /\ UNCHANGED <<page, wm, tick, rsv, sim>>
  BY <1>2, <1>3, <1>4 DEF OnInput, OnCrc, OnReq, OnBegin, OnChunk, OnEnd, Harmless, rsv, IsInput
<1>7. UNCHANGED <<tick, rsv, sim>>
  BY <1>6 DEF OnInput
<1>8. \A s \in Seats : Captured(s)' = Captured(s)
  BY <1>2, <1>7 DEF Captured, AtGate
<1>9. ASSUME NEW s \in Seats \ {c} PROVE Fed(c, s)'
  <2>1. /\ Filled(page[c][s], wm[c][s]) /\ Coming(down[c], s, wm[c][s], Captured(s))
        /\ wm[c][s] \in Int /\ Captured(s) \in Int
    BY <1>1, Typings DEF Calm, Fed
  <2>2. CASE IsInput(f, s)
    <3>1. f.tick = wm[c][s] + 1 /\ Coming(down'[c], s, wm[c][s] + 1, Captured(s))
      BY <1>1, <1>2, <2>1, <2>2, ComingTail
    <3>2. OnInput(c, f) /\ f.tick > wm[c][f.seat] /\ f.seat = s
      BY <1>6, <2>1, <2>2, <3>1 DEF IsInput
    <3>3. /\ page' = [page EXCEPT ![c][s] = page[c][s] \cup {<<f.tick, f.epoch>>}]
          /\ wm' = [wm EXCEPT ![c][s] = f.tick]
      BY <3>2 DEF OnInput
    <3>4. page'[c][s] = page[c][s] \cup {<<f.tick, f.epoch>>} /\ wm'[c][s] = wm[c][s] + 1
      BY <1>1, <3>1, <3>3 DEF Typed
    <3>5. \A t \in D .. wm[c][s] + 1 : t \in D .. wm[c][s] \/ t = f.tick
      BY <2>1, <3>1
    <3>6. <<f.tick, f.epoch>> \in page'[c][s] /\ <<f.tick, f.epoch>>[1] = f.tick
      BY <3>4
    <3>7. page[c][s] \subseteq page'[c][s]
      BY <3>4
    <3> HIDE DEF f
    <3>8. \A t \in D .. wm[c][s] + 1 : \E x \in page'[c][s] : x[1] = t
      BY <2>1, <3>5, <3>6, <3>7 DEF Filled
    <3>9. Filled(page'[c][s], wm'[c][s])
      BY <3>4, <3>8 DEF Filled
    <3> QED BY <1>8, <3>1, <3>4, <3>9 DEF Fed
  <2>3. CASE ~IsInput(f, s)
    <3>1. Coming(down'[c], s, wm[c][s], Captured(s))
      BY <1>1, <1>2, <2>1, <2>3, ComingTail
    <3>2. page'[c][s] = page[c][s] /\ wm'[c][s] = wm[c][s]
      <4>1. CASE page' = page /\ wm' = wm
        BY <4>1
      <4>2. CASE /\ page' = [page EXCEPT ![c][f.seat] = page[c][f.seat] \cup {<<f.tick, f.epoch>>}]
                 /\ wm' = [wm EXCEPT ![c][f.seat] = f.tick] /\ f.seat # s
        <5> HIDE DEF f
        <5> QED BY <1>1, <4>2 DEF Typed
      <4> QED BY <1>6, <2>3, <4>1, <4>2 DEF OnInput, IsInput
    <3> QED BY <1>8, <2>1, <3>1, <3>2 DEF Fed
  <2> QED BY <2>2, <2>3
<1>10. \A p, s \in Seats : p # c \/ s = c => page'[p][s] = page[p][s] /\ wm'[p][s] = wm[p][s]
  <2>1. CASE page' = page /\ wm' = wm
    BY <2>1
  <2>2. CASE /\ page' = [page EXCEPT ![c][f.seat] = page[c][f.seat] \cup {<<f.tick, f.epoch>>}]
             /\ wm' = [wm EXCEPT ![c][f.seat] = f.tick] /\ f.seat # c
    <3> HIDE DEF f
    <3> QED BY <1>1, <2>2 DEF Typed
  <2> QED BY <1>3, <1>6, <2>1, <2>2 DEF OnInput, Harmless
<1>11. ASSUME NEW p \in Seats PROVE Quiet(p)'
  <2>1. Quiet(p)
    BY DEF Calm
  <2>2. /\ ~pend'[p] /\ ~hold'[p] /\ epoch'[p] = 0
        /\ game'[p] = Still /\ \A x \in rec'[p] : x.sum = Sum(Still)
    BY <1>7, <2>1 DEF Quiet, rsv, sim
  <2>3. pc'[p] \in {"entry", "top", "gate", "pump"}
    BY <1>2, <2>1 DEF Quiet
  <2>4. \A i \in 1 .. Len(down'[p]) : Harmless(p, down'[p][i])
    BY <1>3, <1>5, <2>1 DEF Quiet
  <2>5. Filled(page'[p][p], Captured(p)')
    BY <1>8, <1>10, <2>1 DEF Quiet
  <2> QED BY <2>2, <2>3, <2>4, <2>5 DEF Quiet
<1>12. ASSUME NEW p \in Seats, p # c, NEW s \in Seats \ {p} PROVE Fed(p, s)'
  BY <1>5, <1>8, <1>10, <1>12 DEF Calm, Fed
<1> QED BY <1>9, <1>11, <1>12 DEF Calm

LEMMA CalmStep == TypeInv /\ CalmInv /\ [Next]_vars => CalmInv'
<1> SUFFICES ASSUME TypeInv, CalmInv, [Next]_vars, ~strayed', \A c \in Seats : ~dropped'[c]
             PROVE  Calm'
  BY DEF CalmInv
<1>1. CASE UNCHANGED vars
  <2>1. Calm
    BY <1>1 DEF CalmInv, vars, sim
  <2> QED BY <1>1, <2>1 DEF vars, rsv, sim, Calm, Quiet, Fed, Captured, AtGate
<1>2. ASSUME NEW c \in Seats, EnterPass(c) PROVE Calm'
  <2>0. dropped' = dropped /\ strayed' = strayed
    BY <1>2 DEF EnterPass, sim
  <2>1. Calm /\ Typed
    BY <2>0 DEF CalmInv, TypeInv
  <2>2. /\ pc[c] = "entry" /\ pc' = [pc EXCEPT ![c] = "top"]
        /\ UNCHANGED <<tick, wm, page, rsv, sim, down>>
    BY <1>2 DEF EnterPass
  <2>3. \A s \in Seats : Captured(s)' = Captured(s)
    BY <2>1, <2>2 DEF Captured, AtGate, Typed
  <2>4. ASSUME NEW p \in Seats PROVE Quiet(p)'
    BY <2>1, <2>2, <2>3 DEF Calm, Quiet, rsv, sim, Typed
  <2>5. ASSUME NEW p \in Seats, NEW s \in Seats \ {p} PROVE Fed(p, s)'
    BY <2>1, <2>2, <2>3 DEF Calm, Fed
  <2> QED BY <2>4, <2>5 DEF Calm
<1>3. ASSUME NEW c \in Seats, Recv(c) PROVE Calm'
  <2>1. dropped' = dropped /\ strayed' = strayed
    BY <1>3 DEF Recv, OnInput, OnCrc, OnReq, OnBegin, OnChunk, OnEnd, sim
  <2>2. Calm
    BY <2>1 DEF CalmInv
  <2> QED BY <1>3, <2>2, CalmRecv
<1>4. ASSUME NEW c \in Seats, Capture(c) PROVE Calm'
  <2>0. dropped' = dropped /\ ~strayed
    BY <1>4 DEF Capture, Fault
  <2>1. Calm
    BY <2>0 DEF CalmInv
  <2> QED BY <1>4, <2>1, CalmCapture
<1>5. ASSUME NEW c \in Seats, RunTick(c) PROVE Calm'
  <2>1. Calm /\ ~dropped[c]
    BY <1>5 DEF CalmInv, RunTick
  <2> QED BY <1>5, <2>1, CalmRunTick
<1>6. ASSUME NEW c \in Seats, PushWrite(c) \/ PushEnd(c) PROVE FALSE
  <2>1. Calm /\ pc[c] = "push"
    BY <1>6 DEF CalmInv, PushWrite, PushEnd, sim
  <2> QED BY <2>1 DEF Calm, Quiet
<1>7. ASSUME NEW c \in Seats, Park(c) \/ GiveUp(c) \/ Stray(c) PROVE FALSE
  BY <1>7 DEF Park, GiveUp, Stray, Fault, TypeInv, Typed
<1> QED BY <1>1, <1>2, <1>3, <1>4, <1>5, <1>6, <1>7 DEF Next

(* As long as nothing has gone wrong nobody wants a resync, and nobody is  *)
(* frozen for one: two consoles never compare a report with a record that  *)
(* is not of the same tick of the same game, however far apart they run    *)
(* (RS_ON_CRC, netcode/resync.asm).                                        *)
THEOREM QuietUntilWrong == Spec => []NoFalseAlarm
<1>1. CalmInv => NoFalseAlarm
  BY DEF CalmInv, Calm, Quiet, NoFalseAlarm
<1>2. Spec => []CalmInv
  BY TypeAlways, CalmInit, CalmStep, PTL DEF Spec
<1> QED BY <1>1, <1>2, PTL
=============================================================================
